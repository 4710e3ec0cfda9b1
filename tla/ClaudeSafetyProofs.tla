------------------------- MODULE ClaudeSafetyProofs -------------------------
(***************************************************************************)
(* What else holds of ClaudeSwitch: clean removes only what is dead, no    *)
(* account is registered twice, and cas, the live item and ~/.claude.json  *)
(* agree on who is signed in, each where the code can promise it.          *)
(***************************************************************************)
EXTENDS ClaudeSwitchProofs

-----------------------------------------------------------------------------
(***************************************************************************)
(* The service: a credential that stopped working never works again.       *)
(***************************************************************************)

\* A step of the service: it stays sound, and what was issued stays issued and,
\* once dead, dead.
Onward ==
  /\ ServerSound'
  /\ Issued \subseteq Issued'
  /\ \A c \in Issued : c # NoCred /\ ~Good(c) => ~(c.gen \in unspent'[c.acct])

\* A credential that was issued is one of an account, up to the newest.
LEMMA IssuedCred ==
  ASSUME NEW c \in Issued, c # NoCred
  PROVE  c \in Cred /\ c.acct \in Accounts /\ c.gen \in Nat /\ c.gen <= issued[c.acct]
BY DEF Issued, Creds, Cred, Gens

\* No credential at all counts as issued.
LEMMA NoCredIsIssued == NoCred \in Issued /\ NoCred \in Issued'
BY NoCredIsNoCred DEF Issued

\* What was issued to each account only grows.
LEMMA IssuedGrows ==
  ASSUME ServerTypeOK, ServerTypeOK', \A a \in Accounts : issued[a] <= issued'[a]
  PROVE  Issued \subseteq Issued'
<1> SUFFICES ASSUME NEW c \in Issued, c # NoCred
             PROVE  c \in Issued'
  BY NoCredIsIssued
<1>1. c \in Cred /\ c.acct \in Accounts /\ c.gen \in Nat /\ c.gen <= issued[c.acct]
  BY IssuedCred
<1>2. issued[c.acct] \in Nat /\ issued'[c.acct] \in Nat /\ issued[c.acct] <= issued'[c.acct]
  BY <1>1 DEF ServerTypeOK, Gens
<1>3. QED
  BY <1>1, <1>2 DEF Issued, Creds

\* A step that does not reach the service.
LEMMA QuietOnward ==
  ASSUME ServerSound, UNCHANGED server
  PROVE  Onward /\ Issued' = Issued
BY DEF ServerSound, Onward, Issued, Good, server

\* A sign-in.
LEMMA IssueOnward ==
  ASSUME ServerTypeOK, ServerSound, NEW a \in Accounts, Issue(a)
  PROVE  Onward /\ NextCred(a) \in Issued'
<1>1. /\ ServerTypeOK' /\ NextCred(a) \in Cred
      /\ \A b \in Accounts : issued[b] \in Nat /\ lapsed[b] \in Nat /\ ended[b] \in Nat
  BY IssueTypes DEF ServerTypeOK, Gens
<1>2. /\ issued' = [issued EXCEPT ![a] = @ + 1] /\ lapsed' = lapsed /\ ended' = ended
      /\ unspent' = [unspent EXCEPT ![a] = @ \union {issued[a] + 1}]
  BY DEF Issue
<1>3. /\ \A b \in Accounts : issued'[b] = IF b = a THEN issued[a] + 1 ELSE issued[b]
      /\ \A b \in Accounts : unspent'[b] \subseteq unspent[b] \union {issued[b] + 1}
      /\ \A b \in Accounts \ {a} : unspent'[b] = unspent[b]
  BY <1>2 DEF ServerTypeOK
<1>4. ServerSound'
  BY <1>1, <1>2, <1>3 DEF ServerSound
<1>5. Issued \subseteq Issued'
  BY <1>1, <1>3, IssuedGrows
<1>6. ASSUME NEW c \in Issued, c # NoCred, ~Good(c)
      PROVE  c.gen \notin unspent'[c.acct]
  BY <1>1, <1>3, <1>6, IssuedCred DEF Good
<1>7. NextCred(a) \in Issued'
  BY <1>1, <1>3 DEF NextCred, Issued, Creds
<1>8. QED
  BY <1>4, <1>5, <1>6, <1>7 DEF Onward

\* A refresh token is spent.
LEMMA RotateOnward ==
  ASSUME ServerTypeOK, ServerSound, NEW c \in Cred, Rotate(c)
  PROVE  Onward /\ NextCred(c.acct) \in Issued'
<1> DEFINE a == c.acct
<1>1. /\ ServerTypeOK' /\ NextCred(a) \in Cred /\ a \in Accounts
      /\ \A b \in Accounts : issued[b] \in Nat /\ lapsed[b] \in Nat /\ ended[b] \in Nat
  BY RotateTypes DEF ServerTypeOK, Gens, Cred
<1>2. /\ issued' = [issued EXCEPT ![a] = @ + 1] /\ lapsed' = lapsed /\ ended' = ended
      /\ unspent' = [unspent EXCEPT ![a] = (@ \ {c.gen}) \union {issued[a] + 1}]
  BY DEF Rotate
<1> HIDE DEF a
<1>3. /\ \A b \in Accounts : issued'[b] = IF b = a THEN issued[a] + 1 ELSE issued[b]
      /\ \A b \in Accounts : unspent'[b] \subseteq unspent[b] \union {issued[b] + 1}
      /\ \A b \in Accounts \ {a} : unspent'[b] = unspent[b]
  BY <1>1, <1>2 DEF ServerTypeOK
<1>4. ServerSound'
  BY <1>1, <1>2, <1>3 DEF ServerSound
<1>5. Issued \subseteq Issued'
  BY <1>1, <1>3, IssuedGrows
<1>6. ASSUME NEW d \in Issued, d # NoCred, ~Good(d)
      PROVE  d.gen \notin unspent'[d.acct]
  BY <1>1, <1>3, <1>6, IssuedCred DEF Good
<1>7. NextCred(a) \in Issued'
  BY <1>1, <1>3 DEF NextCred, Issued, Creds
<1>8. QED
  BY <1>4, <1>5, <1>6, <1>7 DEF Onward, a

\* A refresh call, with every way it may end; one that is rejected was in vain.
LEMMA RefreshOnward ==
  ASSUME ServerTypeOK, ServerSound, NEW c \in Cred, NEW out, Refresh(c, out)
  PROVE  /\ Onward /\ out.cred \in Issued'
         /\ out.kind = "rejected" => c.gen \notin unspent'[c.acct]
<1>1. CASE Rotate(c) /\ out \in {Ok(NextCred(c.acct)), Failed}
  BY <1>1, RotateOnward, NoCredIsIssued DEF Ok, Failed
<1>2. CASE UNCHANGED server /\ out \in {Rejected, Failed} /\ (out = Rejected => ~Good(c))
  BY <1>2, QuietOnward, NoCredIsIssued DEF Rejected, Failed, Good, server
<1>3. QED
  BY <1>1, <1>2 DEF Refresh, Rejected, Failed

\* The same with the recovery from the live credential.
LEMMA RefreshOrRecoverOnward ==
  ASSUME TypeOK, ServerSound, live \in Issued, NEW n \in SlotIds, NEW c \in Cred, NEW out,
         RefreshOrRecover(n, c, out)
  PROVE  Onward /\ out.cred \in Issued'
<1>1. ServerTypeOK
  BY DEF TypeOK
<1>2. CASE Refresh(c, out)
  BY <1>1, <1>2, RefreshOnward
<1>3. CASE Refresh(c, Rejected) /\ Recover(n, c, out)
  <2>1. Onward
    BY <1>1, <1>3, RefreshOnward
  <2>2. PICK l \in LiveReads : out \in {Recovered(l), Rejected}
    BY <1>3 DEF Recover
  <2>3. l \in Issued /\ NoCred \in Issued
    BY NoCredIsIssued DEF LiveReads
  <2>4. out.cred \in Issued
    BY <2>2, <2>3 DEF Recovered, Rejected
  <2>5. QED
    BY <2>1, <2>4 DEF Onward
<1>4. QED
  BY <1>2, <1>3 DEF RefreshOrRecover

\* A token lapses, or a deadline passes.
LEMMA TimeOnward ==
  ASSUME ServerTypeOK, ServerSound, NEW a \in Accounts,
         Lapse(a) \/ Expire(a) \/ ("guess" \in Outside /\ Outlast(a))
  PROVE  Onward
<1>1. /\ ServerTypeOK'
      /\ \A b \in Accounts : issued[b] \in Nat /\ lapsed[b] \in Nat /\ ended[b] \in Nat
      /\ \A b \in Accounts : ended[b] <= lapsed[b] /\ lapsed[b] <= issued[b]
  BY TimeTypes DEF ServerTypeOK, Gens, ServerSound
<1> DEFINE first == [b \in Accounts |-> IF "guess" \in Outside THEN 1 ELSE ended[b] + 1]
<1>2. /\ issued' = issued /\ Issued' = Issued
      /\ \A b \in Accounts : unspent'[b] \subseteq unspent[b]
      /\ \A b \in Accounts : \A g \in unspent[b] : g \in first[b]..issued[b]
  BY DEF Lapse, Expire, Outlast, Issued, ServerTypeOK, ServerSound
<1>3. /\ \A b \in Accounts : ended'[b] <= lapsed'[b] /\ lapsed'[b] <= issued[b]
      /\ \A b \in Accounts : ended'[b] = ended[b] \/ "guess" \in Outside
                              \/ (ended'[b] = ended[b] + 1 /\ ended[b] + 1 \notin unspent'[b])
  <2>1. CASE Lapse(a)
    BY <1>1, <2>1 DEF Lapse, ServerTypeOK
  <2>2. CASE Expire(a) \/ ("guess" \in Outside /\ Outlast(a))
    <3>1. /\ lapsed' = lapsed /\ ended[a] < lapsed[a]
          /\ ended' = [ended EXCEPT ![a] = ended[a] + 1]
      BY <2>2 DEF Expire, Outlast
    <3>2. \A b \in Accounts : ended'[b] = IF b = a THEN ended[a] + 1 ELSE ended[b]
      BY <3>1 DEF ServerTypeOK
    <3>3. "guess" \in Outside \/ ended[a] + 1 \notin unspent'[a]
      BY <2>2 DEF Expire, ServerTypeOK
    <3>4. QED
      BY <1>1, <3>1, <3>2, <3>3
  <2>3. QED
    BY <2>1, <2>2
<1>4. ServerSound'
  <2> SUFFICES ASSUME NEW b \in Accounts, NEW g \in unspent'[b]
               PROVE  g \in (IF "guess" \in Outside THEN 1 ELSE ended'[b] + 1)..issued'[b]
    BY <1>2, <1>3 DEF ServerSound
  <2>1. /\ g \in first[b]..issued[b] /\ issued'[b] = issued[b]
        /\ ended[b] \in Nat /\ ended'[b] \in Nat /\ issued[b] \in Nat
    BY <1>1, <1>2 DEF ServerTypeOK, Gens
  <2>2. CASE "guess" \in Outside
    BY <2>1, <2>2
  <2>3. CASE "guess" \notin Outside
    BY <1>3, <2>1, <2>3
  <2>4. QED
    BY <2>2, <2>3
<1>5. QED
  BY <1>2, <1>4, IssuedCred DEF Onward, Good

-----------------------------------------------------------------------------
(***************************************************************************)
(* Whatever anything holds was issued.                                     *)
(***************************************************************************)

\* What anything holds is in D, before a step and after it.
HeldIn(D) ==
  /\ kc \in [SlotIds -> D] /\ {live, env, seen, NoCred} \subseteq D
  /\ \A s \in Sessions : sess[s].cred \in D
  /\ \A n \in SlotIds : got[n].cred \in D

HeldNext(D) ==
  /\ kc' \in [SlotIds -> D] /\ {live', env', seen', NoCred} \subseteq D
  /\ \A s \in Sessions : sess'[s].cred \in D
  /\ \A n \in SlotIds : got'[n].cred \in D

\* That is what Sound says, with D the credentials that were issued.
LEMMA SoundHeld ==
  ASSUME TypeOK
  PROVE  Held \union {seen} \subseteq Issued <=> HeldIn(Issued)
<1>1. kc \in [SlotIds -> Creds] /\ NoCred \in Issued
  BY NoCredIsIssued DEF TypeOK
<1>2. QED
  BY <1>1 DEF Held, HeldIn

\* The same of what cas and the live item hold, the sessions left aside.
CopiesIn(D) ==
  /\ kc \in [SlotIds -> D] /\ {live, env, seen, NoCred} \subseteq D
  /\ \A n \in SlotIds : got[n].cred \in D

CopiesNext(D) ==
  /\ kc' \in [SlotIds -> D] /\ {live', env', seen', NoCred} \subseteq D
  /\ \A n \in SlotIds : got'[n].cred \in D

\* A process that is gone holds nothing.
LEMMA GoneHolds ==
  ASSUME NEW D, CopiesIn(D), NEW p, Gone(p),
         kc' \in [SlotIds -> D], live' \in D
  PROVE  CopiesNext(D)
BY DEF CopiesIn, CopiesNext, Gone, NoCalls, Nothing

\* Starting a command, ending it, and steps that only read or choose, bring no
\* credential in that was not held before.
LEMMA ReadingHolds ==
  ASSUME NEW D, CopiesIn(D), IInv,
         \/ Fail \/ Crash \/ Release \/ Save \/ LoginSave
         \/ \E c \in Commands, n \in SlotIds \union {0} : Begin(c, n)
         \/ SyncRead \/ Switch \/ EnsureFresh \/ PlanRefresh \/ PlanAuto \/ PlanClean
         \/ CallsDone \/ Ask \/ Label \/ Adopt
  PROVE  CopiesNext(D)
<1>1. CASE Fail \/ Crash \/ Save \/ LoginSave
  <2>1. (\E p : Gone(p)) \/ UNCHANGED <<env, seen, got>>
    BY <1>1 DEF Fail, Crash, Save, LoginSave, Exit, locals
  <2>2. UNCHANGED <<kc, live, sess>>
    BY <1>1 DEF Fail, Crash, Save, LoginSave, stores
  <2>3. QED
    BY <2>1, <2>2, GoneHolds DEF CopiesIn, CopiesNext
<1>2. ASSUME Release \/ (\E c \in Commands, n \in SlotIds \union {0} : Begin(c, n))
             \/ CallsDone \/ Ask
      PROVE  CopiesNext(D)
  BY <1>2 DEF CopiesIn, CopiesNext, Release, Begin, CallsDone, Ask, stores, locals
<1>3. CASE (Switch \/ Label) /\ ~Fail
  BY <1>3 DEF CopiesIn, CopiesNext, Switch, Label, stores, locals
<1>4. CASE SyncRead
  BY <1>4 DEF CopiesIn, CopiesNext, SyncRead, LiveReads, stores
<1>5. CASE (EnsureFresh \/ Adopt) /\ ~Fail
  <2>1. EnsureFresh => tgt \in SlotIds
    BY DEF IInv, Bookkeeping, EnsureFresh, Registered
  <2>2. EnsureFresh => env' \in D /\ UNCHANGED <<kc, live, sess, seen, got>>
    BY <1>5, <2>1 DEF CopiesIn, EnsureFresh, SlotReads, stores
  <2>3. Adopt => env' \in D /\ UNCHANGED <<kc, live, sess, seen, got>>
    BY <1>5 DEF CopiesIn, Adopt, LiveReads, stores
  <2>4. QED
    BY <1>5, <2>2, <2>3 DEF CopiesIn, CopiesNext
<1>6. ASSUME NEW due, NEW dead, Calls(due, dead)
      PROVE  CopiesNext(D)
  BY <1>6 DEF CopiesIn, CopiesNext, Calls, Rejected, Nothing, stores
<1>7. CASE (PlanRefresh \/ PlanAuto \/ PlanClean) /\ ~Fail
  <2>1. \E due, dead : Calls(due, dead)
    BY <1>7 DEF PlanRefresh, PlanAuto, PlanClean
  <2>2. QED
    BY <1>6, <2>1
<1>8. QED
  BY <1>1, <1>2, <1>3, <1>4, <1>5, <1>7

\* Neither do the steps that write.
LEMMA WritingHolds ==
  ASSUME NEW D, CopiesIn(D), IInv,
         \/ SyncConfirm \/ EnsureFreshStore \/ Install \/ Point \/ Mirror \/ RemoveSlot
         \/ Register \/ AdoptWrite \/ AdoptStore
         \/ \E n \in SlotIds : ApplyRenewed(n) \/ ApplyFailed(n) \/ ApplyRejected(n) \/ Sweep(n)
  PROVE  CopiesNext(D)
<1>1. CASE Fail
  BY <1>1, ReadingHolds
<1>2. CASE SyncConfirm
  <2>1. \E n, c : kc' = kc \/ (c \in D /\ kc' = [kc EXCEPT ![n] = c])
    BY <1>2 DEF SyncConfirm, AdoptLiveInto, CopiesIn
  <2>2. kc' \in [SlotIds -> D]
    BY <2>1 DEF CopiesIn
  <2>3. QED
    BY <1>2, <2>2 DEF CopiesIn, CopiesNext, SyncConfirm
<1>3. CASE (EnsureFreshStore \/ Install) /\ ~Fail
  BY <1>3 DEF CopiesIn, CopiesNext, EnsureFreshStore, Install, locals
<1>4. CASE Point \/ Mirror \/ AdoptWrite
  BY <1>4 DEF CopiesIn, CopiesNext, Point, Mirror, AdoptWrite, stores, locals
<1>5. CASE RemoveSlot /\ ~Fail
  BY <1>5 DEF CopiesIn, CopiesNext, RemoveSlot, Forget, locals
<1>6. CASE (Register \/ AdoptStore) /\ ~Fail
  <2>1. \E n : kc' = [kc EXCEPT ![n] = env]
    BY <1>6 DEF Register, AdoptStore
  <2>2. kc' \in [SlotIds -> D] /\ env' = NoCred /\ UNCHANGED <<live, sess, seen, got>>
    BY <1>6, <2>1 DEF CopiesIn, Register, AdoptStore
  <2>3. QED
    BY <2>2 DEF CopiesIn, CopiesNext
<1>7. ASSUME NEW n \in SlotIds, Sweep(n) \/ ApplyRenewed(n) \/ ApplyFailed(n) \/ ApplyRejected(n)
      PROVE  CopiesNext(D)
  <2>1. /\ got' = [got EXCEPT ![n] = Nothing] /\ UNCHANGED <<live, sess, seen>>
        /\ env' \in {env, got[n].cred}
        /\ kc' \in {kc, [kc EXCEPT ![n] = NoCred], [kc EXCEPT ![n] = got[n].cred]}
    BY <1>7 DEF Sweep, Forget, ApplyRenewed, ApplyFailed, ApplyRejected, Apply
  <2>2. kc' \in [SlotIds -> D] /\ env' \in D
    BY <2>1 DEF CopiesIn
  <2>3. \A m \in SlotIds : got'[m].cred \in D
    BY <2>1 DEF CopiesIn, IInv, TypeOK, Nothing
  <2>4. QED
    BY <2>1, <2>2, <2>3 DEF CopiesIn, CopiesNext
<1>8. QED
  BY <1>1, <1>2, <1>3, <1>4, <1>5, <1>6, <1>7

\* The steps that do not reach the service, and are none of a session's.
Silent ==
  \/ Fail \/ Crash \/ Release \/ Save \/ LoginSave
  \/ \E c \in Commands, n \in SlotIds \union {0} : Begin(c, n)
  \/ SyncRead \/ Switch \/ EnsureFresh \/ PlanRefresh \/ PlanAuto \/ PlanClean
  \/ CallsDone \/ Ask \/ Label \/ Adopt
  \/ SyncConfirm \/ EnsureFreshStore \/ Install \/ Point \/ Mirror \/ RemoveSlot
  \/ Register \/ AdoptWrite \/ AdoptStore
  \/ \E n \in SlotIds : ApplyRenewed(n) \/ ApplyFailed(n) \/ ApplyRejected(n) \/ Sweep(n)

\* They bring nothing in, and touch neither the service nor a session.
LEMMA SilentHolds ==
  ASSUME NEW D, CopiesIn(D), IInv, Silent
  PROVE  CopiesNext(D)
BY ReadingHolds, WritingHolds DEF Silent

LEMMA SilentStays ==
  ASSUME Silent
  PROVE  UNCHANGED server /\ UNCHANGED sess
<1>1. CASE \/ Fail \/ Crash \/ Release \/ Save \/ LoginSave
           \/ \E c \in Commands, n \in SlotIds \union {0} : Begin(c, n)
  BY <1>1 DEF Fail, Crash, Release, Save, LoginSave, Begin
<1>2. CASE SyncRead \/ Switch \/ EnsureFresh \/ PlanRefresh \/ PlanAuto \/ PlanClean
             \/ CallsDone \/ Ask \/ Label \/ Adopt
  BY <1>2 DEF SyncRead, Switch, EnsureFresh, PlanRefresh, PlanAuto, PlanClean, Calls,
              CallsDone, Ask, Label, Adopt, Fail
<1>3. CASE SyncConfirm \/ EnsureFreshStore \/ Install \/ Point \/ Mirror \/ RemoveSlot
             \/ Register \/ AdoptWrite \/ AdoptStore
  BY <1>3 DEF SyncConfirm, EnsureFreshStore, Install, Point, Mirror, RemoveSlot, Register,
              AdoptWrite, AdoptStore, Fail
<1>4. ASSUME NEW n \in SlotIds, ApplyRenewed(n) \/ ApplyFailed(n) \/ ApplyRejected(n) \/ Sweep(n)
      PROVE  UNCHANGED server /\ UNCHANGED sess
  BY <1>4 DEF ApplyRenewed, ApplyFailed, ApplyRejected, Apply, Sweep
<1>5. QED
  BY <1>1, <1>2, <1>3, <1>4 DEF Silent

\* A session that starts, stores what it renewed, or ends brings none in either.
LEMMA SessionHolds ==
  ASSUME NEW D, HeldIn(D), TypeOK, NEW s \in Sessions, Open(s) \/ WriteBack(s) \/ End(s)
  PROVE  HeldNext(D) /\ UNCHANGED server
<1>1. \A r \in Sessions : sess'[r].cred \in {sess[r].cred, live, NoCred}
  BY DEF Open, WriteBack, End, TypeOK
<1>2. QED
  BY <1>1 DEF HeldIn, HeldNext, Open, WriteBack, End, stores, locals

\* Something else may have been issued by then.
LEMMA HoldsMore ==
  ASSUME NEW D, NEW E, D \subseteq E, HeldNext(D)
  PROVE  HeldNext(E)
BY DEF HeldNext

\* The steps that reach the service hold, besides, what it issues.
LEMMA CallingHolds ==
  ASSUME IInv, ServerSound, HeldIn(Issued),
         \/ EnsureFreshCall \/ Login \/ AdoptRotate
         \/ \E n \in SlotIds : Call(n)
         \/ \E s \in Sessions : Renew(s)
         \/ \E a \in Accounts : SignIn(a) \/ TimePasses(a)
  PROVE  Onward /\ HeldNext(Issued')
<1>1. TypeOK /\ ServerTypeOK /\ Bookkeeping
  BY DEF IInv, TypeOK
<1>2. ASSUME Issued \subseteq Issued'
      PROVE  /\ kc \in [SlotIds -> Issued'] /\ {live, env, seen, NoCred} \subseteq Issued'
             /\ \A s \in Sessions : sess[s].cred \in Issued'
             /\ \A n \in SlotIds : got[n].cred \in Issued'
  BY <1>2 DEF HeldIn
<1>3. CASE EnsureFreshCall
  <2>1. tgt \in SlotIds /\ env \in Cred
    BY <1>1, <1>3 DEF Bookkeeping, EnsureFreshCall, Registered
  <2>2. PICK out \in Outcome : /\ RefreshOrRecover(tgt, env, out)
                               /\ (env' = out.cred /\ UNCHANGED <<seen, got>>) \/ UNCHANGED locals \/ Exit
    BY <1>3 DEF EnsureFreshCall
  <2>3. Onward /\ out.cred \in Issued'
    BY <1>1, <2>1, <2>2, RefreshOrRecoverOnward DEF HeldIn
  <2>4. Issued \subseteq Issued' /\ UNCHANGED <<kc, live, sess>>
    BY <1>3, <2>3 DEF Onward, EnsureFreshCall, stores
  <2>5. QED
    BY <1>2, <2>2, <2>3, <2>4 DEF HeldNext, locals, Exit, Gone, NoCalls, Nothing
<1>4. CASE Login /\ ~Fail
  <2>1. PICK a \in Accounts : Issue(a) /\ env' = NextCred(a)
    BY <1>4 DEF Login
  <2>2. Onward /\ env' \in Issued' /\ Issued \subseteq Issued'
    BY <1>1, <2>1, IssueOnward DEF Onward
  <2>3. UNCHANGED <<kc, live, sess, seen, got>>
    BY <1>4 DEF Login, stores
  <2>4. QED
    BY <1>2, <2>2, <2>3 DEF HeldNext
<1>5. CASE Login /\ Fail
  <2>1. Onward /\ Issued' = Issued /\ UNCHANGED sess
    BY <1>5, QuietOnward DEF Fail
  <2>2. CopiesNext(Issued)
    BY <1>5, ReadingHolds DEF HeldIn, CopiesIn
  <2>3. QED
    BY <2>1, <2>2 DEF HeldIn, HeldNext, CopiesNext
<1>6. CASE AdoptRotate
  <2>1. env \in Cred
    BY <1>1, <1>6 DEF Bookkeeping, AdoptRotate
  <2>2. PICK out \in Outcome : Refresh(env, out) /\ env' \in {out.cred, env}
    BY <1>6 DEF AdoptRotate
  <2>3. Onward /\ out.cred \in Issued' /\ Issued \subseteq Issued'
    BY <1>1, <2>1, <2>2, RefreshOnward DEF Onward
  <2>4. UNCHANGED <<kc, live, sess, seen, got>>
    BY <1>6 DEF AdoptRotate, stores
  <2>5. QED
    BY <1>2, <2>2, <2>3, <2>4 DEF HeldNext
<1>7. ASSUME NEW n \in SlotIds, Call(n)
      PROVE  Onward /\ HeldNext(Issued')
  <2>1. kc[n] \in Cred
    BY <1>1, <1>7 DEF Bookkeeping, Call
  <2>2. PICK out \in Outcome :
          /\ got' = [got EXCEPT ![n] = out]
          /\ \/ out = Nothing /\ UNCHANGED server
             \/ Refresh(kc[n], out)
             \/ RefreshOrRecover(n, kc[n], out)
    BY <1>7 DEF Call
  <2>3. Onward /\ out.cred \in Issued'
    BY <1>1, <2>1, <2>2, RefreshOnward, RefreshOrRecoverOnward, QuietOnward, NoCredIsIssued
       DEF HeldIn, Nothing
  <2>4. Issued \subseteq Issued' /\ UNCHANGED <<kc, live, sess, env, seen>>
    BY <1>7, <2>3 DEF Onward, Call, stores
  <2>5. \A m \in SlotIds : got'[m].cred \in Issued'
    BY <1>1, <1>2, <2>2, <2>3, <2>4 DEF TypeOK
  <2>6. QED
    BY <1>2, <2>3, <2>4, <2>5 DEF HeldNext
<1>8. ASSUME NEW s \in Sessions, Renew(s)
      PROVE  Onward /\ HeldNext(Issued')
  <2>1. sess[s].cred \in Cred /\ Rotate(sess[s].cred)
    BY <1>1, <1>8 DEF Renew, TypeOK, Creds
  <2>2. Onward /\ NextCred(sess[s].cred.acct) \in Issued' /\ Issued \subseteq Issued'
    BY <1>1, <2>1, RotateOnward DEF Onward
  <2>3. \A r \in Sessions : sess'[r].cred \in {sess[r].cred, NextCred(sess[s].cred.acct)}
    BY <1>1, <1>8 DEF Renew, TypeOK
  <2>4. UNCHANGED <<kc, live, env, seen, got>>
    BY <1>8 DEF Renew, stores, locals
  <2>5. QED
    BY <1>2, <2>2, <2>3, <2>4 DEF HeldNext
<1>9. ASSUME NEW a \in Accounts, SignIn(a)
      PROVE  Onward /\ HeldNext(Issued')
  <2>1. Onward /\ NextCred(a) \in Issued' /\ Issued \subseteq Issued'
    BY <1>1, <1>9, IssueOnward DEF Onward, SignIn
  <2>2. live' = NextCred(a) /\ UNCHANGED <<kc, sess, env, seen, got>>
    BY <1>9 DEF SignIn, locals
  <2>3. QED
    BY <1>2, <2>1, <2>2 DEF HeldNext
<1>10. ASSUME NEW a \in Accounts, TimePasses(a)
       PROVE  Onward /\ HeldNext(Issued')
  <2>1. Onward /\ Issued \subseteq Issued'
    BY <1>1, <1>10, TimeOnward DEF Onward, TimePasses, TypeOK
  <2>2. UNCHANGED <<kc, live, sess, env, seen, got>>
    BY <1>10 DEF TimePasses, stores, locals
  <2>3. QED
    BY <1>2, <2>1, <2>2 DEF HeldNext
<1>11. QED
  BY <1>3, <1>4, <1>5, <1>6, <1>7, <1>8, <1>9, <1>10

\* Whatever happens, the service stays sound and what anything holds was issued.
LEMMA NextHolds ==
  ASSUME IInv, Sound, Next
  PROVE  Onward /\ HeldNext(Issued')
<1>1. TypeOK /\ ServerSound /\ HeldIn(Issued)
  BY SoundHeld DEF IInv, Sound
<1>2. ASSUME UNCHANGED server, HeldNext(Issued)
      PROVE  Onward /\ HeldNext(Issued')
  BY <1>1, <1>2, QuietOnward
<1>3. CASE Silent
  <2>1. CopiesNext(Issued) /\ UNCHANGED server /\ UNCHANGED sess
    BY <1>1, <1>3, SilentHolds, SilentStays DEF HeldIn, CopiesIn
  <2>2. HeldNext(Issued)
    BY <1>1, <2>1 DEF HeldIn, HeldNext, CopiesNext
  <2>3. QED
    BY <1>2, <2>1, <2>2
<1>4. ASSUME NEW s \in Sessions, Open(s) \/ WriteBack(s) \/ End(s)
      PROVE  Onward /\ HeldNext(Issued')
  BY <1>1, <1>2, <1>4, SessionHolds
<1>5. QED
  BY <1>1, <1>3, <1>4, CallingHolds DEF Next, Step, ClaudeCode, Silent

-----------------------------------------------------------------------------
(***************************************************************************)
(* clean's verdicts.                                                       *)
(***************************************************************************)

\* A credential goes on bearing the deadline that it bears, unless it is its own and a
\* session leaves it out.
DeadlinesStay ==
  \A c \in Cred : until[c] # 0 =>
    until'[c] = until[c] \/ ("omit" \in Outside /\ until[c] = c.gen)

\* preserveRefreshExpiry changes the deadline of a credential without one at most.
LEMMA PreserveDeadlinesStay ==
  ASSUME TypeOK, NEW n, NEW c, PreserveRefreshExpiry(n, c) \/ UNCHANGED until
  PROVE  DeadlinesStay
<1> SUFFICES ASSUME NEW d \in Cred, until[d] # 0
             PROVE  until'[d] = until[d]
  BY DEF DeadlinesStay
<1>1. CASE d = c
  BY <1>1 DEF PreserveRefreshExpiry
<1>2. CASE d # c
  BY <1>2 DEF PreserveRefreshExpiry, TypeOK
<1>3. QED
  BY <1>1, <1>2

\* So does a refresh that may end in a recovery.
LEMMA RecoverDeadlinesStay ==
  ASSUME TypeOK, NEW n, NEW c, NEW out, RefreshOrRecover(n, c, out)
  PROVE  DeadlinesStay
BY PreserveDeadlinesStay DEF RefreshOrRecover, Recover

\* SyncActive, a recovery and a session that omits it are all that touch a deadline.
LEMMA DeadlinesLast ==
  ASSUME TypeOK, Next
  PROVE  DeadlinesStay
<1>1. CASE UNCHANGED until
  BY <1>1 DEF DeadlinesStay
<1>2. CASE SyncConfirm
  <2>1. ASSUME NEW n, NEW t, AdoptLiveInto(n, t)
        PROVE  DeadlinesStay
    BY <2>1, PreserveDeadlinesStay DEF AdoptLiveInto
  <2>2. QED
    BY <1>1, <1>2, <2>1 DEF SyncConfirm
<1>3. CASE EnsureFreshCall \/ \E n \in SlotIds : Call(n)
  BY <1>1, <1>3, RecoverDeadlinesStay DEF EnsureFreshCall, Call
<1>4. ASSUME NEW s \in Sessions, WriteBack(s), ~UNCHANGED until
      PROVE  DeadlinesStay
  BY <1>4 DEF WriteBack, DeadlinesStay, TypeOK
<1>5. CASE \/ \E c \in Commands, n \in SlotIds \union {0} : Begin(c, n)
           \/ Crash \/ Release \/ Save \/ SyncRead \/ Switch \/ EnsureFresh
  BY <1>1, <1>5 DEF Begin, Crash, Release, Save, SyncRead, Switch, EnsureFresh, Fail
<1>6. CASE \/ EnsureFreshStore \/ Install \/ Point \/ PlanRefresh \/ PlanAuto \/ PlanClean
           \/ CallsDone \/ Mirror \/ Ask
  BY <1>1, <1>6 DEF EnsureFreshStore, Install, Point, PlanRefresh, PlanAuto, PlanClean,
     CallsDone, Mirror, Ask, Calls, Fail
<1>7. CASE \/ RemoveSlot \/ Label \/ Login \/ Register \/ LoginSave \/ Adopt
           \/ AdoptRotate \/ AdoptWrite \/ AdoptStore
  BY <1>1, <1>7 DEF RemoveSlot, Label, Login, Register, LoginSave, Adopt, AdoptRotate,
     AdoptWrite, AdoptStore, Fail
<1>8. CASE \E n \in SlotIds : ApplyRenewed(n) \/ ApplyFailed(n) \/ ApplyRejected(n) \/ Sweep(n)
  BY <1>1, <1>8 DEF ApplyRenewed, ApplyFailed, ApplyRejected, Apply, Sweep
<1>9. CASE \/ \E s \in Sessions : Open(s) \/ Renew(s) \/ End(s)
           \/ \E a \in Accounts : SignIn(a) \/ TimePasses(a)
  BY <1>1, <1>9 DEF Open, Renew, End, SignIn, TimePasses
<1>10. QED
  BY <1>1, <1>2, <1>3, <1>4, <1>5, <1>6, <1>7, <1>8, <1>9 DEF Next, Step, ClaudeCode

\* A credential that does not work, or does not bear its own deadline.
Doomed(c) == c = NoCred \/ ~Good(c) \/ ~Dated(c)
DoomedNext(c) == c = NoCred \/ c.gen \notin unspent'[c.acct]
                   \/ until'[c] \notin {0, c.gen} \/ "guess" \in Outside

\* It stays so.
LEMMA DoomStays ==
  ASSUME Onward, DeadlinesStay, NEW c \in Issued, Doomed(c)
  PROVE  DoomedNext(c)
<1>1. c = NoCred \/ c \in Cred
  BY DEF Issued, Creds
<1>2. CASE ~Dated(c) /\ c \in Cred
  BY <1>2 DEF Dated, DeadlinesStay, DoomedNext
<1>3. CASE c # NoCred /\ ~Good(c)
  BY <1>3 DEF Onward, DoomedNext
<1>4. QED
  BY <1>1, <1>2, <1>3 DEF Doomed, DoomedNext

\* clean's verdicts stand if every slot that is found dead is still.
LEMMA JudgedNext ==
  ASSUME "read" \notin Faults =>
           \A n \in SlotIds : cmd' = "clean" /\ got'[n].kind = "rejected" => DoomedNext(kc'[n])
  PROVE  Judged'
BY DEF Judged, DoomedNext, Good, Dated

\* A step that leaves the items and the outcomes of a clean alone.
LEMMA SameJudged ==
  ASSUME IInv, Sound, Onward, DeadlinesStay, kc' = kc,
         cmd' = "clean" => cmd = "clean" /\ got' = got
  PROVE  Judged'
<1>1. \A n \in SlotIds : kc[n] \in Issued
  BY SoundHeld DEF IInv, Sound, HeldIn
<1>2. ASSUME "read" \notin Faults, cmd' = "clean", NEW n \in SlotIds, got'[n].kind = "rejected"
      PROVE  DoomedNext(kc'[n])
  <2>1. Doomed(kc[n])
    BY <1>2 DEF Sound, Judged, Doomed
  <2>2. QED
    BY <1>1, <2>1, DoomStays
<1>3. QED
  BY <1>2, JudgedNext

\* A command that has no outcome yet has found nothing dead.
LEMMA NoneJudged ==
  ASSUME \/ cmd' # "clean"
         \/ \A n \in SlotIds : got'[n].kind # "rejected"
  PROVE  Judged'
BY DEF Judged

\* Only Call and PlanClean judge, and only the sweep and ApplyRenewed write then.
LEMMA NextKeepsJudged ==
  ASSUME IInv, Sound, Next
  PROVE  Judged'
<1>1. /\ Onward /\ TypeOK /\ Bookkeeping /\ HeldIn(Issued) /\ Judged /\ DeadlinesStay
      /\ \A n \in SlotIds : kc[n] \in Issued
  BY NextHolds, SoundHeld, DeadlinesLast DEF IInv, Sound, HeldIn
<1>2. ASSUME pc \notin {"calls", "mirror", "ask", "sweep", "save"}, got' = got \/ got' = NoCalls
      PROVE  Judged'
  BY <1>1, <1>2, NoneJudged DEF Bookkeeping, NoCalls, Nothing
<1>3. CASE \/ Fail \/ Crash \/ Save
           \/ \E p : Gone(p)
  BY <1>3, NoneJudged DEF Fail, Crash, Save, Exit, Gone
<1>4. CASE \/ Release \/ LoginSave \/ Switch \/ EnsureFresh \/ EnsureFreshStore \/ Install
           \/ Point \/ SyncRead \/ SyncConfirm \/ RemoveSlot \/ Label \/ Login \/ Register \/ Adopt
           \/ AdoptRotate \/ AdoptWrite \/ AdoptStore
           \/ \E c \in Commands, n \in SlotIds \union {0} : Begin(c, n)
  <2>1. CASE Release \/ Switch \/ Point \/ SyncRead \/ SyncConfirm
    BY <1>2, <1>3, <2>1 DEF Release, Switch, Point, SyncRead, SyncConfirm, locals
  <2>2. CASE EnsureFresh \/ EnsureFreshStore \/ Install
    BY <1>2, <1>3, <2>2 DEF EnsureFresh, EnsureFreshStore, Install, locals
  <2>3. CASE LoginSave
    <3>1. (\E p : Gone(p)) \/ got' = got
      BY <2>3 DEF LoginSave, Fail, Exit, locals
    <3>2. QED
      BY <1>2, <1>3, <2>3, <3>1 DEF LoginSave
  <2>4. QED
    BY <1>2, <1>3, <1>4, <2>1, <2>2, <2>3 DEF RemoveSlot, Label, Login, Register, Adopt, AdoptRotate,
       AdoptWrite, AdoptStore, Begin, locals
<1>5. CASE EnsureFreshCall
  <2>1. (\E p : Gone(p)) \/ got' = got
    BY <1>5 DEF EnsureFreshCall, Exit, locals
  <2>2. QED
    BY <1>2, <1>3, <1>5, <2>1 DEF EnsureFreshCall
<1>6. CASE (PlanRefresh \/ PlanAuto) /\ ~Fail
  BY <1>6, NoneJudged DEF PlanRefresh, PlanAuto, Calls
<1>7. CASE PlanClean
  <2>1. PICK missing \in SUBSET Registered(mem) :
          /\ \A n \in missing : NoCred \in SlotReads(n)
          /\ \E dead : /\ dead = missing \union {n \in Registered(mem) \ missing : Expired(n)}
                       /\ Calls(Registered(mem) \ dead, dead)
    BY <1>7 DEF PlanClean
  <2>2. /\ kc' = kc /\ UNCHANGED server
        /\ \A n \in SlotIds : got'[n].kind = "rejected" => n \in missing \/ Expired(n)
    BY <2>1 DEF Calls, stores, Nothing
  <2>3. ASSUME NEW n \in SlotIds, kc[n] # NoCred, Expired(n), Dated(kc[n])
        PROVE  ~Good(kc[n])
    <3>1. kc[n] \in Cred /\ kc[n].acct \in Accounts /\ kc[n].gen \in Nat
      BY <1>1, <2>3, IssuedCred
    <3>2. /\ ended[kc[n].acct] \in Nat /\ kc[n].gen <= ended[kc[n].acct]
          /\ "guess" \notin Outside
      BY <1>1, <2>3, <3>1 DEF TypeOK, ServerTypeOK, Gens, Expired, RefreshExpired, Dated
    <3>3. QED
      BY <3>1, <3>2 DEF Good, Sound, ServerSound
  <2>4. ASSUME "read" \notin Faults, NEW n \in missing
        PROVE  kc[n] = NoCred
    BY <2>1, <2>4 DEF SlotReads
  <2>5. ASSUME "read" \notin Faults, NEW n \in SlotIds, got'[n].kind = "rejected"
        PROVE  DoomedNext(kc'[n])
    <3>1. Doomed(kc[n])
      BY <2>2, <2>3, <2>4, <2>5 DEF Doomed
    <3>2. QED
      BY <1>1, <2>2, <3>1, DoomStays
  <2>6. QED
    BY <2>5, JudgedNext
<1>8. ASSUME NEW n \in SlotIds, Call(n)
      PROVE  Judged'
  <2>1. kc[n] \in Cred /\ kc' = kc /\ cmd' = cmd /\ ServerSound /\ ServerTypeOK
    BY <1>1, <1>8 DEF Bookkeeping, Call, stores, Sound, TypeOK
  <2>2. CASE cmd = "clean"
    <3>1. PICK out \in Outcome : /\ got' = [got EXCEPT ![n] = out]
                                 /\ out = Nothing \/ Refresh(kc[n], out)
      BY <1>8, <2>2 DEF Call
    <3>2. out.kind = "rejected" => kc[n].gen \notin unspent'[kc[n].acct]
      BY <2>1, <3>1, RefreshOnward DEF Nothing
    <3>3. \A m \in SlotIds : got'[m] = IF m = n THEN out ELSE got[m]
      BY <1>1, <3>1 DEF TypeOK
    <3>4. ASSUME "read" \notin Faults, NEW m \in SlotIds, got'[m].kind = "rejected"
          PROVE  DoomedNext(kc'[m])
      <4>1. CASE m = n
        BY <2>1, <3>2, <3>3, <3>4, <4>1 DEF DoomedNext
      <4>2. CASE m # n
        <5>1. Doomed(kc[m])
          BY <1>1, <2>2, <3>3, <3>4, <4>2 DEF Judged, Doomed
        <5>2. QED
          BY <1>1, <2>1, <5>1, DoomStays
      <4>3. QED
        BY <4>1, <4>2
    <3>5. QED
      BY <3>4, JudgedNext
  <2>3. QED
    BY <2>1, <2>2, NoneJudged
<1>9. ASSUME NEW n \in SlotIds, Sweep(n) \/ ApplyRenewed(n) \/ ApplyFailed(n) \/ ApplyRejected(n)
      PROVE  Judged'
  <2>1. /\ \A m \in SlotIds : got'[m] = IF m = n THEN Nothing ELSE got[m]
        /\ \A m \in SlotIds \ {n} : kc'[m] = kc[m]
        /\ cmd' = cmd
    BY <1>1, <1>9 DEF Sweep, Forget, ApplyRenewed, ApplyFailed, ApplyRejected, Apply, TypeOK
  <2>2. ASSUME "read" \notin Faults, cmd' = "clean",
               NEW m \in SlotIds, got'[m].kind = "rejected"
        PROVE  DoomedNext(kc'[m])
    <3>1. m # n /\ kc'[m] = kc[m] /\ got'[m] = got[m] /\ cmd = "clean"
      BY <2>1, <2>2 DEF Nothing
    <3>2. Doomed(kc[m])
      BY <1>1, <2>2, <3>1 DEF Judged, Doomed
    <3>3. QED
      BY <1>1, <3>1, <3>2, DoomStays
  <2>3. QED
    BY <2>2, JudgedNext
<1>10. CASE Mirror \/ CallsDone \/ Ask \/ ClaudeCode
  <2>1. kc' = kc /\ got' = got /\ cmd' = cmd
    BY <1>10 DEF Mirror, CallsDone, Ask, ClaudeCode, Open, Renew, WriteBack, End, SignIn,
                 TimePasses, stores, locals
  <2>2. QED
    BY <1>1, <2>1, SameJudged
<1>11. QED
  BY <1>3, <1>4, <1>5, <1>6, <1>7, <1>8, <1>9, <1>10 DEF Next, Step

\* At first every account has what it signed in with, and nothing else is held.
LEMMA InitSound == Init => Sound
<1> SUFFICES ASSUME Init
             PROVE  Sound
  OBVIOUS
<1> DEFINE known(b, a) == b = a \/ \E n \in SlotIds : Start[n] = b
<1>1. PICK a \in Owner :
        /\ live = FirstCred(a)
        /\ issued = [b \in Accounts |-> IF known(b, a) THEN 1 ELSE 0]
        /\ unspent = [b \in Accounts |-> IF known(b, a) THEN {1} ELSE {}]
  BY DEF Init
<1>2. TypeOK /\ lapsed = [b \in Accounts |-> 0] /\ ended = [b \in Accounts |-> 0]
  BY InitTypeOK DEF Init
<1>3. ServerSound
  <2> SUFFICES ASSUME NEW b \in Accounts
               PROVE  /\ 0 <= issued[b]
                      /\ \A g \in unspent[b] : g = 1 /\ issued[b] = 1
    BY <1>2 DEF ServerSound
  <2>1. CASE known(b, a)
    BY <1>1, <2>1
  <2>2. CASE ~known(b, a)
    BY <1>1, <2>2
  <2>3. QED
    BY <2>1, <2>2
<1>4. \A b \in Owner : known(b, a) => FirstCred(b) \in Issued
  BY <1>1, NoCredIsIssued, ClaudeSwitchAssumption DEF FirstCred, Issued, Creds, Cred, Owner
<1>5. HeldIn(Issued)
  <2>1. \A n \in SlotIds : Start[n] \in Owner
    BY ClaudeSwitchAssumption
  <2>2. \A n \in SlotIds : FirstCred(Start[n]) \in Issued
    BY <1>4, <2>1
  <2>3. live \in Issued
    BY <1>1, <1>4
  <2>4. QED
    BY <2>2, <2>3, NoCredIsIssued DEF Init, HeldIn, NoCalls, Nothing
<1>6. Judged /\ OwnDates
  BY DEF Init, Judged, OwnDates
<1>7. QED
  BY <1>2, <1>3, <1>5, <1>6, SoundHeld DEF Sound

\* Every step keeps it.
LEMMA NextKeepsSound ==
  ASSUME IInv, Sound, [Next]_vars
  PROVE  Sound'
<1>1. TypeOK'
  BY NextKeeps DEF IInv
<1>2. CASE Next
  <2>1. ServerSound' /\ HeldNext(Issued') /\ Judged'
    BY <1>2, NextHolds, NextKeepsJudged DEF Onward
  <2>2. OwnDates'
    <3>1. \A c \in Cred : c.gen # 0
      BY DEF Cred, Gens
    <3>2. DeadlinesStay
      BY <1>2, DeadlinesLast DEF IInv
    <3>3. QED
      BY <3>1, <3>2 DEF Sound, OwnDates, DeadlinesStay
  <2>3. (Held \union {seen})' \subseteq Issued'
    BY <2>1 DEF HeldNext, Held
  <2>4. QED
    BY <2>1, <2>2, <2>3 DEF Sound
<1>3. CASE UNCHANGED vars
  BY <1>3 DEF Sound, vars, server, stores, locals, ServerSound, Issued, Judged, Held, Good, Dated,
     OwnDates
<1>4. QED
  BY <1>2, <1>3

\* During the sweep nobody writes a slot's item but the sweep.
LEMMA OnlySweeps ==
  ASSUME Next, pc = "sweep"
  PROVE  kc' = kc \/ \E n \in SlotIds : Sweep(n)
<1>1. CASE ClaudeCode \/ Crash
  BY <1>1 DEF ClaudeCode, Crash, Open, Renew, WriteBack, End, SignIn, TimePasses, stores
<1>2. CASE SyncRead \/ SyncConfirm \/ Switch \/ EnsureFresh \/ EnsureFreshCall
             \/ EnsureFreshStore \/ Install \/ Point
  BY <1>2 DEF SyncRead, SyncConfirm, Switch, EnsureFresh, EnsureFreshCall, EnsureFreshStore,
              Install, Point
<1>3. CASE PlanRefresh \/ PlanAuto \/ PlanClean \/ CallsDone \/ Mirror \/ Ask
             \/ RemoveSlot \/ Label
  BY <1>3 DEF PlanRefresh, PlanAuto, PlanClean, CallsDone, Mirror, Ask, RemoveSlot, Label
<1>4. CASE Login \/ Register \/ LoginSave \/ Adopt \/ AdoptRotate \/ AdoptWrite
             \/ AdoptStore \/ Save \/ Release
             \/ \E c \in Commands, n \in SlotIds \union {0} : Begin(c, n)
  BY <1>4 DEF Login, Register, LoginSave, Adopt, AdoptRotate, AdoptWrite, AdoptStore, Save,
              Release, Begin
<1>5. ASSUME NEW n \in SlotIds, Call(n) \/ ApplyRenewed(n) \/ ApplyFailed(n) \/ ApplyRejected(n)
      PROVE  FALSE
  BY <1>5 DEF Call, ApplyRenewed, ApplyFailed, ApplyRejected, Apply
<1>6. QED
  BY <1>1, <1>2, <1>3, <1>4, <1>5 DEF Next, Step

-----------------------------------------------------------------------------
(***************************************************************************)
(* No account is registered twice: what the table's operators do to Named. *)
(***************************************************************************)

\* Whether a table is named depends on its slots alone.
LEMMA NamedBySlots ==
  ASSUME NEW t, NEW r, Named(t), r.slots = t.slots
  PROVE  Named(r)
BY DEF Named, Registered

\* A table without slots is.
LEMMA EmptyNamed == Named(EmptyTable)
BY EmptyTableIsTable DEF Named

\* A slot that knows its account and block may be put where no other has the account.
LEMMA PutNamed ==
  ASSUME NEW t \in Table, Named(t), NEW n \in SlotIds, NEW s \in Slot,
         s.uuid # NoAccount, s.block = s.uuid,
         \A m \in Registered(t) \ {n} : t.slots[m].uuid # s.uuid
  PROVE  Named(Put(t, n, s))
<1>1. /\ Registered(Put(t, n, s)) = Registered(t) \union {n}
      /\ \A m \in SlotIds : Put(t, n, s).slots[m] = IF m = n THEN s ELSE t.slots[m]
      /\ Registered(t) \subseteq SlotIds
  BY PutChangesOneSlot DEF Registered
<1>2. QED
  BY <1>1 DEF Named

\* The revoked flag is free, and a block may be set to its own account.
LEMMA FieldsNamed ==
  ASSUME NEW t \in Table, Named(t), NEW n \in Registered(t), NEW b \in BOOLEAN, NEW u,
         u = t.slots[n].uuid
  PROVE  Named(SetRevoked(t, n, b)) /\ Named(SetBlock(t, n, u))
<1>1. n \in SlotIds /\ t.slots[n] \in Slot
  BY RegisteredIsSlot
<1> DEFINE s1 == [t.slots[n] EXCEPT !.revoked = b]
           s2 == [t.slots[n] EXCEPT !.block = u]
<1>2. /\ s1 \in Slot /\ s1.uuid = u /\ s1.block = t.slots[n].block
      /\ s2 \in Slot /\ s2.uuid = u /\ s2.block = u
  BY <1>1 DEF Slot
<1>3. u # NoAccount /\ t.slots[n].block = u /\ \A m \in Registered(t) \ {n} : t.slots[m].uuid # u
  BY DEF Named
<1> HIDE DEF s1, s2
<1>4. Named(Put(t, n, s1)) /\ Named(Put(t, n, s2))
  BY <1>1, <1>2, <1>3, PutNamed
<1>5. QED
  BY <1>4 DEF SetRevoked, SetBlock, s1, s2

\* State.Remove takes only a slot away.
LEMMA RemoveNamed ==
  ASSUME NEW t \in Table, Named(t), NEW n \in SlotIds
  PROVE  Named(Remove(t, n))
<1>1. /\ Registered(Remove(t, n)) = Registered(t) \ {n}
      /\ \A m \in Registered(t) \ {n} : Remove(t, n).slots[m] = t.slots[m]
  BY RemoveDropsOneSlot DEF Registered
<1>2. QED
  BY <1>1 DEF Named

\* Filing an account under the slot it has, or else under a new one.
LEMMA FileNamed ==
  ASSUME NEW t \in Table, Named(t), NEW u, u # NoAccount, NEW n \in SlotIds,
         LET f == FindByAccountUUID(t, u) IN n = IF f # 0 THEN f ELSE NextFreeSlot(t),
         NEW s \in Slot, s.uuid = u, s.block = u
  PROVE  Named(Put(t, n, s))
<1>1. CASE FindByAccountUUID(t, u) # 0
  <2>1. n \in Registered(t) /\ t.slots[n].uuid = u
    BY <1>1, FindReturnsOwnSlot
  <2>2. QED
    BY <2>1, PutNamed DEF Named
<1>2. CASE FindByAccountUUID(t, u) = 0
  <2>1. \A m \in Registered(t) : t.slots[m].uuid # u
    BY <1>2, FindFindsRegistered DEF Named
  <2>2. QED
    BY <2>1, PutNamed
<1>3. QED
  BY <1>1, <1>2

\* SyncActive's writes: the block is set to the slot's own account.
LEMMA AdoptLiveIntoNamed ==
  ASSUME NEW t \in Table, Named(t), NEW n \in Registered(t), AdoptLiveInto(n, t)
  PROVE  Named(mem')
<1> DEFINE s == SetRevoked(t, n, FALSE)
<1>1. /\ s \in Table /\ Registered(s) = Registered(t) /\ Named(s)
      /\ s.slots[n].uuid = t.slots[n].uuid
  <2>1. t.slots[n].uuid \in Owner
    BY RegisteredIsSlot DEF Slot
  <2>2. QED
    BY <2>1, FieldsKeepAccounts, FieldsNamed
<1>2. mem' \in {t, s} \/ (who = s.slots[n].uuid /\ mem' = SetBlock(s, n, who))
  BY <1>1 DEF AdoptLiveInto, Named
<1> HIDE DEF s
<1>3. QED
  BY <1>1, <1>2, FieldsNamed

\* What a refresh's response says of the slot is what the slot says.
LEMMA RenamedNamed ==
  ASSUME mem \in Table, Named(mem), NEW n \in Registered(mem), NEW c \in Cred,
         c.acct = mem.slots[n].uuid, NEW t \in Renamed(n, c)
  PROVE  /\ t \in Table /\ Named(t) /\ t.active = mem.active
         /\ Registered(t) = Registered(mem)
         /\ \A m \in Registered(mem) : t.slots[m].uuid = mem.slots[m].uuid
<1> DEFINE named == Put(mem, n, [mem.slots[n] EXCEPT !.uuid = c.acct])
<1>1. n \in SlotIds /\ mem.slots[n] \in Slot /\ c.acct \in Owner
  BY RegisteredIsSlot DEF Cred, Owner
<1>2. [mem.slots[n] EXCEPT !.uuid = c.acct] = mem.slots[n]
  BY <1>1 DEF Slot
<1>3. named = mem
  BY <1>1, <1>2 DEF Put, Table
<1>4. t = mem \/ t = SetBlock(mem, n, mem.slots[n].uuid)
  BY <1>3 DEF Renamed
<1>5. CASE t = mem
  BY <1>5
<1>6. CASE t = SetBlock(mem, n, mem.slots[n].uuid)
  <2> DEFINE u == mem.slots[n].uuid
  <2>1. u \in Owner /\ u = mem.slots[n].uuid
    BY <1>1 DEF Slot
  <2> HIDE DEF u
  <2>2. Named(SetBlock(mem, n, u))
    BY <2>1, FieldsNamed
  <2>3. t = SetBlock(mem, n, u)
    BY <1>6, <2>1
  <2>4. QED
    BY <2>1, <2>2, <2>3, FieldsKeepAccounts
<1>7. QED
  BY <1>4, <1>5, <1>6

\* A step that changes no slot of either table: it only loads, saves, drops one.
LEMMA CopiedNamed ==
  ASSUME Named(disk), Named(mem), disk' \in {disk, mem},
         mem' \in {disk, EmptyTable} \/ mem'.slots = mem.slots
  PROVE  Named(disk') /\ Named(mem')
BY EmptyNamed, NamedBySlots

\* Most steps are of that kind.
LEMMA QuietNamed ==
  ASSUME TypeOK, Named(disk), Named(mem),
         \/ Fail \/ Crash \/ Release \/ Save \/ LoginSave \/ ClaudeCode
         \/ \E c \in Commands, n \in SlotIds \union {0} : Begin(c, n)
         \/ SyncRead \/ Switch \/ EnsureFresh \/ EnsureFreshCall \/ Point
         \/ PlanRefresh \/ PlanAuto \/ PlanClean \/ Mirror \/ Ask \/ Label
         \/ \E n \in SlotIds : Call(n) \/ ApplyFailed(n)
         \/ Login \/ Adopt \/ AdoptRotate \/ AdoptWrite
  PROVE  Named(disk') /\ Named(mem')
<1>1. CASE Fail \/ Crash \/ Release \/ Save \/ LoginSave
  <2>1. CASE LoginSave
    <3>1. mem' \in {mem, EmptyTable} /\ disk' \in {disk, mem}
      BY <2>1 DEF LoginSave, Fail, Exit, Gone, stores
    <3>2. QED
      BY <3>1, CopiedNamed
  <2>2. QED
    BY <1>1, <2>1, CopiedNamed DEF Fail, Crash, Release, Save, Exit, Gone, stores
<1>2. CASE ClaudeCode
  BY <1>2, CopiedNamed DEF ClaudeCode, Open, Renew, WriteBack, End, SignIn, TimePasses, stores
<1>3. CASE \E c \in Commands, n \in SlotIds \union {0} : Begin(c, n)
  BY <1>3, CopiedNamed DEF Begin, stores
<1>4. CASE SyncRead \/ Switch \/ EnsureFresh
  BY <1>4, CopiedNamed DEF SyncRead, Switch, EnsureFresh, Fail, Exit, Gone, stores
<1>5. CASE EnsureFreshCall
  <2>1. mem' \in {mem, EmptyTable} /\ disk' = disk
    BY <1>5 DEF EnsureFreshCall, Exit, Gone, stores
  <2>2. QED
    BY <2>1, CopiedNamed
<1>6. CASE Point
  <2>1. mem'.slots = mem.slots /\ disk' = disk
    BY <1>6 DEF Point, Activate, TypeOK, Table
  <2>2. QED
    BY <2>1, CopiedNamed
<1>7. CASE PlanRefresh \/ PlanAuto \/ PlanClean \/ Mirror \/ Ask \/ Label
  <2>1. mem' \in {mem, EmptyTable} /\ disk' = disk
    BY <1>7 DEF PlanRefresh, PlanAuto, PlanClean, Mirror, Ask, Label, Calls, Fail, Exit, Gone, stores
  <2>2. QED
    BY <2>1, CopiedNamed
<1>8. CASE \E n \in SlotIds : Call(n) \/ ApplyFailed(n)
  BY <1>8, CopiedNamed DEF Call, ApplyFailed, Apply, stores
<1>9. CASE Login \/ Adopt \/ AdoptRotate \/ AdoptWrite
  <2>1. mem' \in {mem, EmptyTable} /\ disk' = disk
    BY <1>9 DEF Login, Adopt, AdoptRotate, AdoptWrite, Fail, Exit, Gone, stores
  <2>2. QED
    BY <2>1, CopiedNamed
<1>10. QED
  BY <1>1, <1>2, <1>3, <1>4, <1>5, <1>6, <1>7, <1>8, <1>9

\* The writes of SyncActive and of an activation set blocks and flags alone.
LEMMA ActivationNamed ==
  ASSUME TypeOK, Bookkeeping, Named(disk), Named(mem), SyncConfirm \/ EnsureFreshStore \/ Install
  PROVE  Named(disk') /\ Named(mem')
<1>1. mem \in Table /\ config \in Owner
  BY DEF TypeOK
<1>2. CASE Fail
  BY <1>2, QuietNamed
<1>3. CASE SyncConfirm
  <2>1. PICK n :
          /\ n # 0 => n \in Registered(mem)
          /\ \/ n # 0 /\ AdoptLiveInto(n, Activate(mem, n))
             \/ n = 0 /\ mem' = Activate(mem, 0) /\ UNCHANGED kc
    BY <1>3, SyncTargetFits DEF SyncConfirm
  <2>2. disk' = disk
    BY <1>3 DEF SyncConfirm
  <2>3. CASE n = 0
    BY <1>1, <2>1, <2>2, <2>3, ActivateKeepsSlots, CopiedNamed
  <2>4. CASE n # 0
    <3>1. n \in SlotIds
      BY <1>1, <2>1, <2>4, RegisteredIsSlot
    <3>2. PICK t : t = Activate(mem, n)
      OBVIOUS
    <3>3. t \in Table /\ t.slots = mem.slots /\ n \in Registered(t)
      BY <1>1, <2>1, <2>4, <3>1, <3>2, ActivateKeepsSlots
    <3>4. Named(t) /\ AdoptLiveInto(n, t)
      BY <2>1, <2>4, <3>2, <3>3, NamedBySlots
    <3>5. QED
      BY <2>2, <3>3, <3>4, AdoptLiveIntoNamed
  <2>5. QED
    BY <2>3, <2>4
<1>4. CASE EnsureFreshStore /\ ~Fail
  <2>1. tgt \in Registered(mem) /\ mem' = SetRevoked(mem, tgt, FALSE) /\ disk' = disk
    BY <1>4 DEF EnsureFreshStore, Bookkeeping
  <2>2. PICK u : u = mem.slots[tgt].uuid
    OBVIOUS
  <2>3. QED
    BY <1>1, <2>1, <2>2, FieldsNamed
<1>5. CASE Install /\ ~Fail
  <2>1. /\ disk' = disk
        /\ \/ mem' = mem
           \/ \E p : /\ p = Active(mem) /\ p # 0 /\ mem.slots[p].uuid \in {config, NoAccount}
                     /\ mem' = SetBlock(mem, p, config)
    BY <1>5 DEF Install
  <2>2. CASE mem' = mem
    BY <2>1, <2>2
  <2>3. ASSUME NEW p, p = Active(mem), p # 0, mem.slots[p].uuid \in {config, NoAccount},
               mem' = SetBlock(mem, p, config)
        PROVE  Named(mem')
    <3>1. p \in Registered(mem) /\ config = mem.slots[p].uuid
      BY <2>3, ActiveIsRegistered DEF Named
    <3>2. QED
      BY <1>1, <2>3, <3>1, FieldsNamed
  <2>4. QED
    BY <2>1, <2>2, <2>3
<1>6. QED
  BY <1>2, <1>3, <1>4, <1>5

\* clean's marks change the flags of slots alone.
LEMMA MarksKeepAccounts ==
  ASSUME mem \in Table, CallsDone
  PROVE  /\ mem'.active = mem.active /\ Registered(mem') = Registered(mem)
         /\ \A m \in Registered(mem) : /\ mem'.slots[m].uuid = mem.slots[m].uuid
                                       /\ mem'.slots[m].block = mem.slots[m].block
<1>1. PICK f : /\ f = [m \in SlotIds |-> IF m \in Dead \intersect Registered(mem)
                                         THEN [mem.slots[m] EXCEPT !.revoked = TRUE]
                                         ELSE mem.slots[m]]
               /\ mem' = [mem EXCEPT !.slots = f]
  BY DEF CallsDone
<1>2. \A m \in Registered(mem) : /\ [mem.slots[m] EXCEPT !.revoked = TRUE] \in Slot
                                 /\ [mem.slots[m] EXCEPT !.revoked = TRUE].uuid = mem.slots[m].uuid
                                 /\ [mem.slots[m] EXCEPT !.revoked = TRUE].block = mem.slots[m].block
  <2>1. ASSUME NEW s \in Slot
        PROVE  /\ [s EXCEPT !.revoked = TRUE] \in Slot
               /\ [s EXCEPT !.revoked = TRUE].uuid = s.uuid
               /\ [s EXCEPT !.revoked = TRUE].block = s.block
    BY DEF Slot
  <2>2. QED
    BY <2>1, RegisteredIsSlot
<1>3. /\ \A m \in SlotIds : f[m] = NoSlot <=> mem.slots[m] = NoSlot
      /\ \A m \in Registered(mem) : f[m].uuid = mem.slots[m].uuid /\ f[m].block = mem.slots[m].block
  BY <1>1, <1>2, SlotTableAssumption DEF Registered
<1>4. mem'.slots = f /\ mem'.active = mem.active
  BY <1>1 DEF Table
<1>5. Registered(mem') = Registered(mem)
  BY <1>3, <1>4 DEF Registered
<1>6. QED
  BY <1>3, <1>4, <1>5

\* So do the writes of a pass, and remove and the sweep only take slots away.
LEMMA PassNamed ==
  ASSUME IInv, ~misled, Named(disk), Named(mem),
         \/ \E n \in SlotIds : ApplyRenewed(n) \/ ApplyRejected(n) \/ Sweep(n)
         \/ CallsDone \/ RemoveSlot
  PROVE  Named(disk') /\ Named(mem')
<1>1. TypeOK /\ Bookkeeping /\ Ownership /\ mem \in Table
  BY DEF IInv, TypeOK
<1>2. ASSUME NEW n \in SlotIds, ApplyRenewed(n)
      PROVE  Named(disk') /\ Named(mem')
  <2>1. n \in Registered(mem) /\ got[n].kind \in {"ok", "recovered"} /\ disk' = disk
    BY <1>1, <1>2 DEF ApplyRenewed, Apply, Bookkeeping
  <2>2. got[n].cred \in Cred /\ got[n].cred.acct = mem.slots[n].uuid
    <3>1. got[n].cred \in Cred
      BY <1>1, <2>1 DEF TypeOK, Outcome, Rejected, Failed, Nothing
    <3>2. mem.slots[n].uuid # NoAccount /\ Fits(got[n].cred, n)
      BY <1>1, <2>1 DEF Named, Ownership
    <3>3. QED
      BY <3>1, <3>2 DEF Fits
  <2>3. PICK t \in Renamed(n, got[n].cred) : mem' \in {t, SetRevoked(t, n, FALSE)}
    BY <1>2 DEF ApplyRenewed, Renamed
  <2>4. t \in Table /\ Named(t) /\ Registered(t) = Registered(mem)
    BY <1>1, <2>1, <2>2, <2>3, RenamedNamed
  <2>5. PICK u : u = t.slots[n].uuid
    OBVIOUS
  <2>6. QED
    BY <2>1, <2>3, <2>4, <2>5, FieldsNamed
<1>3. ASSUME NEW n \in SlotIds, ApplyRejected(n)
      PROVE  Named(disk') /\ Named(mem')
  <2>1. n \in Registered(mem) /\ mem' = SetRevoked(mem, n, TRUE) /\ disk' = disk
    BY <1>1, <1>3 DEF ApplyRejected, Apply, Bookkeeping
  <2>2. PICK u : u = mem.slots[n].uuid
    OBVIOUS
  <2>3. QED
    BY <1>1, <2>1, <2>2, FieldsNamed
<1>4. CASE CallsDone
  BY <1>1, <1>4, MarksKeepAccounts DEF Named, CallsDone, stores
<1>5. ASSUME NEW n \in SlotIds, Sweep(n)
      PROVE  Named(disk') /\ Named(mem')
  <2>1. mem' = Remove(mem, n) /\ disk' = disk
    BY <1>5 DEF Sweep, Forget
  <2>2. QED
    BY <1>1, <2>1, RemoveNamed
<1>6. CASE RemoveSlot /\ ~Fail
  <2>1. tgt \in SlotIds /\ mem' = Remove(mem, tgt) /\ disk' = disk
    BY <1>6 DEF RemoveSlot, Forget, Registered
  <2>2. QED
    BY <1>1, <2>1, RemoveNamed
<1>7. CASE Fail
  BY <1>1, <1>7, QuietNamed
<1>8. QED
  BY <1>2, <1>3, <1>4, <1>5, <1>6, <1>7

\* login files the account it signed in under the slot it has, or the one it gets.
LEMMA RegisterFiles ==
  ASSUME TypeOK, Trusted, Named(mem), Told, Register, ~Fail
  PROVE  \E n \in SlotIds, s \in Slot :
           /\ mem' = Put(mem, n, s) /\ Named(mem')
           /\ n \in Registered(mem) => s.uuid = mem.slots[n].uuid
<1>1. mem \in Table /\ who \in Owner
  BY DEF TypeOK
<1>2. PICK n : n = (LET f == FindByAccountUUID(mem, who) IN IF f # 0 THEN f ELSE NextFreeSlot(mem))
  OBVIOUS
<1>3. PICK old : old = IF FindByAccountUUID(mem, who) # 0 THEN mem.slots[n]
                       ELSE [uuid |-> who, block |-> NoAccount, revoked |-> FALSE]
  OBVIOUS
<1>4. PICK s : s = [old EXCEPT !.revoked = FALSE, !.block = who]
  OBVIOUS
<1>5. n # 0 /\ who # NoAccount /\ mem' = Put(mem, n, s)
  <2>1. who # NoAccount
    BY DEF Told, Register
  <2>2. QED
    BY <1>2, <1>3, <1>4, <2>1 DEF Register, Trusted
<1>6. /\ n \in SlotIds /\ old \in Slot /\ old.uuid = who
      /\ n \in Registered(mem) => mem.slots[n].uuid = who
  <2>1. CASE FindByAccountUUID(mem, who) # 0
    BY <1>1, <1>2, <1>3, <2>1, FindReturnsOwnSlot, RegisteredIsSlot
  <2>2. CASE FindByAccountUUID(mem, who) = 0
    BY <1>1, <1>2, <1>3, <1>5, <2>2, NextFreeIsFree DEF Slot, Owner
  <2>3. QED
    BY <2>1, <2>2
<1>7. s \in Slot /\ s.uuid = who /\ s.block = who
  BY <1>1, <1>4, <1>6 DEF Slot
<1>8. Named(Put(mem, n, s))
  BY <1>1, <1>2, <1>5, <1>6, <1>7, FileNamed
<1>9. QED
  BY <1>5, <1>6, <1>7, <1>8

\* adopt files the account that is signed in under the slot it has, or the one it
\* gets, and makes that the active one.
LEMMA AdoptFiles ==
  ASSUME TypeOK, Bookkeeping, ~misled', Named(mem), Told, AdoptStore, ~Fail
  PROVE  /\ Named(mem') /\ who = env.acct
         /\ mem'.active \in Registered(mem') /\ mem'.slots[mem'.active].uuid = who
<1>1. mem \in Table /\ who \in Owner
  BY DEF TypeOK
<1>2. who = env.acct /\ who # NoAccount /\ env \in Cred
  BY DEF Told, AdoptStore, Bookkeeping
<1>3. PICK answer \in Answers(env) :
     LET byConfig == FindByAccountUUID(mem, who)
         found == IF byConfig # 0 THEN byConfig ELSE FindByAccountUUID(mem, answer)
         n == IF found # 0 THEN found ELSE NextFreeSlot(mem)
         old == IF found # 0 THEN mem.slots[n]
                ELSE [uuid |-> who, block |-> who, revoked |-> FALSE]
         new == IF answer # NoAccount
                THEN [uuid |-> answer, block |-> answer, revoked |-> FALSE]
                ELSE [old EXCEPT !.revoked = FALSE,
                                 !.block = IF @ = NoAccount THEN who ELSE @]
     IN n # 0 /\ mem' = Activate(Put(mem, n, new), n)
  BY DEF AdoptStore
<1>4. answer \in {who, NoAccount}
  BY <1>2, AnswersAreTrue
<1>5. PICK f : f = FindByAccountUUID(mem, who)
  OBVIOUS
<1>6. f = IF f # 0 THEN f ELSE FindByAccountUUID(mem, answer)
  BY <1>4, <1>5 DEF FindByAccountUUID
<1>7. PICK n : n = IF f # 0 THEN f ELSE NextFreeSlot(mem)
  OBVIOUS
<1>8. PICK old : old = IF f # 0 THEN mem.slots[n]
                       ELSE [uuid |-> who, block |-> who, revoked |-> FALSE]
  OBVIOUS
<1>9. PICK s : s = IF answer # NoAccount
                   THEN [uuid |-> answer, block |-> answer, revoked |-> FALSE]
                   ELSE [old EXCEPT !.revoked = FALSE,
                                    !.block = IF @ = NoAccount THEN who ELSE @]
  OBVIOUS
<1>10. n # 0 /\ mem' = Activate(Put(mem, n, s), n)
  BY <1>3, <1>5, <1>6, <1>7, <1>8, <1>9
<1>11. n \in SlotIds /\ old \in Slot /\ old.uuid = who /\ old.block = who
  <2>1. CASE f # 0
    BY <1>1, <1>5, <1>7, <1>8, <2>1, FindReturnsOwnSlot, RegisteredIsSlot DEF Named
  <2>2. CASE f = 0
    BY <1>1, <1>7, <1>8, <1>10, <2>2, NextFreeIsFree DEF Slot, Owner
  <2>3. QED
    BY <2>1, <2>2
<1>12. s \in Slot /\ s.uuid = who /\ s.block = who
  BY <1>1, <1>2, <1>4, <1>9, <1>11 DEF Slot
<1>13. PICK p : p = Put(mem, n, s)
  OBVIOUS
<1>14. p \in Table /\ Named(p) /\ n \in Registered(p) /\ p.slots[n].uuid = who
  <2>1. Named(p)
    BY <1>1, <1>2, <1>5, <1>7, <1>11, <1>12, <1>13, FileNamed
  <2>2. QED
    BY <1>1, <1>11, <1>12, <1>13, <2>1, PutChangesOneSlot
<1>15. /\ mem'.slots = p.slots /\ mem'.active = n
       /\ Registered(mem') = Registered(p)
  BY <1>10, <1>11, <1>13, <1>14, ActivateKeepsSlots
<1>16. Named(mem')
  BY <1>14, <1>15, NamedBySlots
<1>17. QED
  BY <1>2, <1>14, <1>15, <1>16

\* So login and adopt leave every account with one slot.
LEMMA FilingNamed ==
  ASSUME TypeOK, Bookkeeping, ~misled', Trusted, Named(disk), Named(mem), Told,
         Register \/ AdoptStore
  PROVE  Named(disk') /\ Named(mem')
<1>1. CASE Fail
  BY <1>1, QuietNamed
<1>2. CASE ~Fail
  <2>1. disk' = disk
    BY <1>2 DEF Register, AdoptStore
  <2>2. Named(mem')
    BY <1>2, RegisterFiles, AdoptFiles
  <2>3. QED
    BY <2>1, <2>2
<1>3. QED
  BY <1>1, <1>2

-----------------------------------------------------------------------------
(***************************************************************************)
(* No account is registered twice: who cas is told it is filing for.       *)
(***************************************************************************)

\* Where the active marker is after an operation on the table.
LEMMA MarkerStays ==
  ASSUME NEW t \in Table, NEW n, NEW s
  PROVE  /\ Put(t, n, s).active = t.active
         /\ Activate(t, n).active = n
<1>1. DOMAIN t = {"active", "slots"}
  BY DEF Table
<1>2. QED
  BY <1>1 DEF Put, Activate

\* Nothing takes back that a credential was filed on a wrong word.
LEMMA MisledStays ==
  ASSUME Next, ~misled'
  PROVE  ~misled
<1>1. CASE SyncConfirm \/ AdoptStore
  BY <1>1 DEF SyncConfirm, AdoptStore, Fail
<1>2. CASE Crash \/ ClaudeCode \/ \E c \in Commands, n \in SlotIds \union {0} : Begin(c, n)
  BY <1>2 DEF Crash, ClaudeCode, Open, Renew, WriteBack, End, SignIn, TimePasses, Begin
<1>3. CASE SyncRead \/ Switch \/ EnsureFresh \/ EnsureFreshCall \/ EnsureFreshStore \/ Install
             \/ Point
  BY <1>3 DEF SyncRead, Switch, EnsureFresh, EnsureFreshCall, EnsureFreshStore, Install, Point,
              Fail
<1>4. CASE PlanRefresh \/ PlanAuto \/ PlanClean \/ CallsDone \/ Mirror \/ Ask \/ RemoveSlot \/ Label
  BY <1>4 DEF PlanRefresh, PlanAuto, PlanClean, Calls, CallsDone, Mirror, Ask, RemoveSlot,
              Label, Fail
<1>5. ASSUME NEW n \in SlotIds, \/ Call(n) \/ ApplyRenewed(n) \/ ApplyFailed(n)
                                \/ ApplyRejected(n) \/ Sweep(n)
      PROVE  misled' = misled
  BY <1>5 DEF Call, ApplyRenewed, ApplyFailed, ApplyRejected, Apply, Sweep
<1>6. CASE Login \/ Register \/ LoginSave \/ Adopt \/ AdoptRotate \/ AdoptWrite \/ Save \/ Release
  BY <1>6 DEF Login, Register, LoginSave, Adopt, AdoptRotate, AdoptWrite, Save, Release, Fail
<1>7. QED
  BY <1>1, <1>2, <1>3, <1>4, <1>5, <1>6 DEF Next, Step

\* login and adopt go on with an account that they know.
LEMMA NextKeepsTold ==
  ASSUME Trusted, Told, Signed, Next
  PROVE  Told'
<1> DEFINE P == {"register", "adoptRotate", "adoptWrite", "adoptStore"}
<1>1. ASSUME pc' \in P => pc \in P /\ who' = who
      PROVE  Told'
  BY <1>1 DEF Told
<1>2. \A p : Gone(p) /\ p \in {"idle", "dead"} => pc' \notin P
  BY DEF Gone
<1>3. CASE Crash \/ Release \/ Save \/ \E c \in Commands, n \in SlotIds \union {0} : Begin(c, n)
  BY <1>1, <1>2, <1>3 DEF Crash, Release, Save, Exit, Begin
<1>4. CASE ClaudeCode
  BY <1>1, <1>4 DEF ClaudeCode, Open, Renew, WriteBack, End, SignIn, TimePasses, locals
<1>5. CASE SyncRead \/ SyncConfirm \/ Switch \/ EnsureFresh \/ EnsureFreshCall \/ EnsureFreshStore
             \/ Install \/ Point
  <2>1. pc' \notin P
    BY <1>2, <1>5 DEF SyncRead, SyncConfirm, Switch, EnsureFresh, EnsureFreshCall,
                      EnsureFreshStore, Install, Point, Fail, Exit
  <2>2. QED
    BY <1>1, <2>1
<1>6. CASE PlanRefresh \/ PlanAuto \/ PlanClean \/ CallsDone \/ Mirror \/ Ask \/ RemoveSlot \/ Label
  <2>1. pc' \notin P
    BY <1>2, <1>6 DEF PlanRefresh, PlanAuto, PlanClean, Calls, CallsDone, Mirror, Ask,
                      RemoveSlot, Label, Fail, Exit
  <2>2. QED
    BY <1>1, <2>1
<1>7. ASSUME NEW n \in SlotIds, \/ Call(n) \/ ApplyRenewed(n) \/ ApplyFailed(n)
                                \/ ApplyRejected(n) \/ Sweep(n)
      PROVE  Told'
  <2>1. pc' \notin P
    BY <1>7 DEF Call, ApplyRenewed, ApplyFailed, ApplyRejected, Apply, Sweep
  <2>2. QED
    BY <1>1, <2>1
<1>8. CASE Register \/ LoginSave
  <2>1. pc' \notin P
    BY <1>2, <1>8 DEF Register, LoginSave, Fail, Exit
  <2>2. QED
    BY <1>1, <2>1
<1>9. CASE Login
  BY <1>2, <1>9, IdentityAssumption DEF Told, Login, Trusted, Fail, Exit
<1>10. CASE Adopt \/ AdoptRotate \/ AdoptWrite \/ AdoptStore
  <2>1. CASE Fail \/ AdoptStore
    BY <1>1, <1>2, <2>1 DEF AdoptStore, Fail, Exit
  <2>2. CASE ~Fail /\ Adopt
    <3>1. live # NoCred /\ who' = config /\ pc = "act"
      BY <2>2 DEF Adopt, LiveReads
    <3>2. QED
      BY <3>1 DEF Told, Signed
  <2>3. CASE AdoptRotate \/ AdoptWrite
    BY <2>3 DEF Told, Signed, AdoptRotate, AdoptWrite
  <2>4. QED
    BY <1>10, <2>1, <2>2, <2>3
<1>11. QED
  BY <1>3, <1>4, <1>5, <1>6, <1>7, <1>8, <1>9, <1>10 DEF Next, Step

\* A step that touches neither the config file, the live item nor the sessions.
LEMMA SignedStays ==
  ASSUME Signed, pc # "point", UNCHANGED <<config, live, sess>>,
         mem'.active \in {mem.active, disk.active, 0}, disk'.active \in {disk.active, mem.active},
         pc' \in {"confirm", "mirror", "adoptRotate", "adoptWrite", "adoptStore"} =>
           pc \in {"confirm", "mirror", "adoptRotate", "adoptWrite", "adoptStore"}
  PROVE  Signed'
BY DEF Signed

\* A command that ends, in an error or not, and the start of one.
LEMMA EndSigned ==
  ASSUME Signed, pc # "point",
         \/ Fail \/ Save \/ Release \/ \E c \in Commands, n \in SlotIds \union {0} : Begin(c, n)
  PROVE  Signed'
<1>1. /\ UNCHANGED <<config, live, sess>>
      /\ mem'.active \in {mem.active, disk.active, 0} /\ disk'.active \in {disk.active, mem.active}
  BY DEF Fail, Save, Release, Begin, Exit, Gone, EmptyTable, stores
<1>2. pc' \notin {"confirm", "mirror", "adoptRotate", "adoptWrite", "adoptStore"}
  BY DEF Fail, Save, Release, Begin, Exit, Gone
<1>3. QED
  BY <1>1, <1>2, SignedStays

\* SyncActive, the commands' choices and the network calls.
LEMMA CallingSigned ==
  ASSUME TypeOK, Signed,
         \/ SyncRead \/ SyncConfirm \/ Switch \/ EnsureFresh \/ EnsureFreshCall \/ EnsureFreshStore
         \/ PlanRefresh \/ PlanAuto \/ PlanClean \/ CallsDone \/ Ask \/ Label
         \/ \E n \in SlotIds : Call(n)
         \/ Login \/ Adopt \/ AdoptRotate \/ AdoptWrite \/ LoginSave
  PROVE  Signed'
<1> DEFINE Q == {"confirm", "mirror", "adoptRotate", "adoptWrite", "adoptStore"}
<1>1. CASE SyncConfirm \/ AdoptRotate \/ AdoptWrite
  BY <1>1 DEF SyncConfirm, AdoptRotate, AdoptWrite, Signed, stores
<1>2. pc # "point"
  BY DEF SyncRead, SyncConfirm, Switch, EnsureFresh, EnsureFreshCall, EnsureFreshStore,
         PlanRefresh, PlanAuto, PlanClean, CallsDone, Ask, Label, Call, Login, Adopt,
         AdoptRotate, AdoptWrite, LoginSave
<1>3. CASE Fail
  BY <1>2, <1>3, EndSigned
<1>4. CASE SyncRead
  <2>1. UNCHANGED <<config, live, sess, mem, disk>> /\ pc' \in {"act", "confirm"}
    BY <1>4 DEF SyncRead, stores
  <2>2. pc' = "confirm" => live # NoCred
    BY <1>4 DEF SyncRead, LiveReads
  <2>3. QED
    BY <1>2, <2>1, <2>2 DEF Signed
<1>5. CASE Switch \/ EnsureFresh
  <2>1. CASE ~Fail
    <3>1. UNCHANGED <<config, live, sess, mem, disk>> /\ pc' \notin Q
      BY <1>5, <2>1 DEF Switch, EnsureFresh, stores
    <3>2. QED
      BY <1>2, <3>1, SignedStays
  <2>2. QED
    BY <1>3, <2>1
<1>6. CASE EnsureFreshCall
  <2>1. UNCHANGED <<config, live, sess, disk>> /\ pc' \notin Q /\ mem' \in {mem, EmptyTable}
    BY <1>6 DEF EnsureFreshCall, Exit, Gone, stores
  <2>2. QED
    BY <1>2, <2>1, SignedStays DEF EmptyTable
<1>7. CASE EnsureFreshStore /\ ~Fail
  <2>1. UNCHANGED <<config, live, sess, disk>> /\ pc' = "install" /\ mem'.active = mem.active
    BY <1>7, MarkerStays DEF EnsureFreshStore, SetRevoked, TypeOK
  <2>2. QED
    BY <1>2, <2>1, SignedStays
<1>8. CASE (PlanRefresh \/ PlanAuto \/ PlanClean \/ Ask \/ Label) /\ ~Fail
  <2>1. UNCHANGED <<config, live, sess, disk, mem>> /\ pc' \notin Q
    BY <1>8 DEF PlanRefresh, PlanAuto, PlanClean, Ask, Label, Calls, stores
  <2>2. QED
    BY <1>2, <2>1, SignedStays
<1>9. CASE CallsDone
  <2>1. UNCHANGED <<config, live, sess, disk>> /\ pc' \notin Q
    BY <1>9 DEF CallsDone, stores
  <2>2. mem'.active = mem.active
    BY <1>9, MarksKeepAccounts DEF TypeOK
  <2>3. QED
    BY <1>2, <2>1, <2>2, SignedStays
<1>10. CASE \E n \in SlotIds : Call(n)
  <2>1. UNCHANGED <<config, live, sess, disk, mem, pc>>
    BY <1>10 DEF Call, stores
  <2>2. QED
    BY <1>2, <2>1, SignedStays
<1>11. CASE Login /\ ~Fail
  <2>1. UNCHANGED <<config, live, sess, disk, mem>> /\ pc' = "register"
    BY <1>11 DEF Login, stores
  <2>2. QED
    BY <1>2, <2>1, SignedStays
<1>12. CASE Adopt /\ ~Fail
  <2>1. live # NoCred /\ UNCHANGED <<config, live, sess, disk, mem>>
    BY <1>12 DEF Adopt, LiveReads, stores
  <2>2. QED
    BY <1>2, <2>1 DEF Signed
<1>13. CASE LoginSave
  <2>1. UNCHANGED <<config, live, sess>> /\ pc' \notin Q /\ mem' \in {mem, EmptyTable}
        /\ disk' \in {mem, disk}
    BY <1>13 DEF LoginSave, Fail, Exit, Gone, stores
  <2>2. QED
    BY <1>2, <2>1, SignedStays DEF EmptyTable
<1>14. QED
  BY <1>1, <1>3, <1>4, <1>5, <1>6, <1>7, <1>8, <1>9, <1>10, <1>11, <1>12, <1>13

\* The activation, and the sessions: what goes live is someone's, and so is the
\* config file then.
LEMMA ActivationSigned ==
  ASSUME TypeOK, Bookkeeping, Trusted, Named(mem), Signed, Install \/ Point \/ Mirror \/ ClaudeCode
  PROVE  Signed'
<1>1. CASE Install
  <2>1. CASE Fail
    BY <1>1, <2>1, EndSigned DEF Install
  <2>2. CASE ~Fail /\ config = NoAccount
    <3>1. mem' = mem
      BY <1>1, <2>2 DEF Install
    <3>2. QED
      BY <1>1, <2>2, <3>1 DEF Install, Signed
  <2>3. CASE ~Fail /\ config # NoAccount
    BY <1>1, <2>3 DEF Install, Signed
  <2>4. QED
    BY <2>1, <2>2, <2>3
<1>2. CASE Point
  <2>1. mem.slots[tgt].block # NoAccount
    BY <1>2 DEF Bookkeeping, Point, Named
  <2>2. config' # NoAccount
    BY <1>2, <2>1 DEF Point, Trusted
  <2>3. QED
    BY <2>2 DEF Signed
<1>3. CASE Mirror
  BY <1>3 DEF Mirror, Signed
<1>4. CASE \E a \in Accounts : SignIn(a)
  BY <1>4, IdentityAssumption DEF SignIn, Signed
<1>5. CASE \E a \in Accounts : TimePasses(a)
  BY <1>5 DEF TimePasses, Signed, stores
<1>6. ASSUME NEW s \in Sessions, Open(s) \/ Renew(s) \/ WriteBack(s) \/ End(s)
      PROVE  Signed'
  <2>1. UNCHANGED <<config, disk, pc, mem>>
    BY <1>6 DEF Open, Renew, WriteBack, End, stores
  <2>2. sess \in [Sessions -> [cred: Creds, dirty: BOOLEAN]]
    BY DEF TypeOK
  <2>3. ASSUME live = NoCred, \A r \in Sessions : sess[r].cred = NoCred
        PROVE  live' = NoCred /\ \A r \in Sessions : sess'[r].cred = NoCred
    <3>1. CASE Open(s) \/ Renew(s)
      BY <2>3, <3>1 DEF Open, Renew
    <3>2. CASE WriteBack(s)
      BY <2>2, <2>3, <3>2 DEF WriteBack
    <3>3. CASE End(s)
      BY <2>2, <2>3, <3>3 DEF End, stores
    <3>4. QED
      BY <1>6, <3>1, <3>2, <3>3
  <2>4. QED
    BY <2>1, <2>3 DEF Signed
<1>7. QED
  BY <1>1, <1>2, <1>3, <1>4, <1>5, <1>6 DEF ClaudeCode

\* The writes of a pass, of remove and the sweep, of login and adopt.
LEMMA FilingSigned ==
  ASSUME TypeOK, Bookkeeping, Signed,
         \/ \E n \in SlotIds : ApplyRenewed(n) \/ ApplyFailed(n) \/ ApplyRejected(n) \/ Sweep(n)
         \/ RemoveSlot \/ Register \/ AdoptStore
  PROVE  Signed'
<1> DEFINE Q == {"confirm", "mirror", "adoptRotate", "adoptWrite", "adoptStore"}
<1>1. mem \in Table
  BY DEF TypeOK
<1>2. pc # "point"
  BY DEF ApplyRenewed, ApplyFailed, ApplyRejected, Apply, Sweep, RemoveSlot, Register, AdoptStore
<1>3. CASE Fail
  BY <1>2, <1>3, EndSigned
<1>4. ASSUME NEW n \in SlotIds, ApplyRenewed(n)
      PROVE  Signed'
  <2>1. UNCHANGED <<config, live, sess, disk>> /\ pc' \in {pc, "mirror"}
    BY <1>4 DEF ApplyRenewed, Apply
  <2>2. mem'.active = mem.active
    <3>1. PICK t \in Renamed(n, got[n].cred) : mem' \in {t, SetRevoked(t, n, FALSE)}
      BY <1>4 DEF ApplyRenewed, Renamed
    <3>2. n \in Registered(mem) /\ got[n].cred \in Cred
      BY <1>4 DEF Bookkeeping, TypeOK, Outcome, Rejected, Failed, Nothing, ApplyRenewed, Apply
    <3>3. t \in Table /\ t.active = mem.active
      BY <1>1, <3>1, <3>2, RenamedKeepsOthers
    <3>4. QED
      BY <3>1, <3>3, MarkerStays DEF SetRevoked
  <2>3. pc' = "mirror" => mem.active # 0
    <3>1. pc' = "mirror" => mem.active = n
      BY <1>4 DEF ApplyRenewed, Apply
    <3>2. QED
      BY <3>1, SlotTableAssumption DEF SlotIds
  <2>4. QED
    BY <1>2, <1>4, <2>1, <2>2, <2>3 DEF Signed, ApplyRenewed, Apply
<1>5. ASSUME NEW n \in SlotIds, ApplyFailed(n) \/ ApplyRejected(n)
      PROVE  Signed'
  <2>1. UNCHANGED <<config, live, sess, disk, pc>> /\ mem' \in {mem, SetRevoked(mem, n, TRUE)}
    BY <1>5 DEF ApplyFailed, ApplyRejected, Apply
  <2>2. mem'.active = mem.active
    BY <1>1, <2>1, MarkerStays DEF SetRevoked
  <2>3. QED
    BY <1>2, <2>1, <2>2, SignedStays
<1>6. ASSUME NEW n \in SlotIds, Forget(n), UNCHANGED <<config, live, sess, disk>>, pc' \in {"save", "sweep"}
      PROVE  Signed'
  <2>1. mem'.active \in {mem.active, 0}
    BY <1>1, <1>6, RemoveDropsOneSlot DEF Forget
  <2>2. QED
    BY <1>2, <1>6, <2>1, SignedStays
<1>7. CASE Register /\ ~Fail
  <2>1. UNCHANGED <<config, live, sess, disk>> /\ pc' = "loginSave" /\ \E n, s : mem' = Put(mem, n, s)
    BY <1>7 DEF Register
  <2>2. mem'.active = mem.active
    BY <1>1, <2>1, MarkerStays
  <2>3. QED
    BY <1>2, <2>1, <2>2, SignedStays
<1>8. CASE AdoptStore /\ ~Fail
  BY <1>8 DEF AdoptStore, Signed
<1>9. QED
  BY <1>3, <1>4, <1>5, <1>6, <1>7, <1>8 DEF Sweep, RemoveSlot, Registered

\* At first each slot has an account of its own.
LEMMA InitKnown == Init => Known
<1> SUFFICES ASSUME Init
             PROVE  Known
  OBVIOUS
<1>1. PICK a \in Owner : live = FirstCred(a) /\ config = a /\ disk = StartTable(a)
  BY DEF Init
<1>2. mem = EmptyTable /\ pc = "idle" /\ \A s \in Sessions : sess[s].cred = NoCred
  BY DEF Init
<1>3. Named(disk)
  <2>1. \A n \in SlotIds : disk.slots[n] = IF Start[n] = NoAccount THEN NoSlot
                             ELSE [uuid |-> Start[n], block |-> Start[n], revoked |-> FALSE]
    BY <1>1 DEF StartTable
  <2>2. \A n \in Registered(disk) : /\ disk.slots[n].uuid = Start[n] /\ disk.slots[n].block = Start[n]
                                    /\ Start[n] # NoAccount /\ n \in SlotIds
    <3> SUFFICES ASSUME NEW n \in Registered(disk)
                 PROVE  /\ disk.slots[n].uuid = Start[n] /\ disk.slots[n].block = Start[n]
                        /\ Start[n] # NoAccount /\ n \in SlotIds
      OBVIOUS
    <3>1. n \in SlotIds /\ Start[n] # NoAccount
      BY <2>1 DEF Registered
    <3>2. disk.slots[n] = [uuid |-> Start[n], block |-> Start[n], revoked |-> FALSE]
      BY <2>1, <3>1
    <3>3. QED
      BY <3>1, <3>2
  <2>3. QED
    BY <2>2, ClaudeSwitchAssumption DEF Named
<1>4. Signed
  BY <1>1, <1>2 DEF Signed, StartTable, FindByAccountUUID, EmptyTable, FirstCred
<1>5. QED
  BY <1>2, <1>3, <1>4, EmptyNamed DEF Known, Told

\* Every step keeps it, as long as the config file has misled nobody.
LEMMA NextKeepsKnown ==
  ASSUME IInv, Trusted, Known, ~misled', Next
  PROVE  Known'
<1>1. /\ TypeOK /\ Bookkeeping /\ ~misled
      /\ Named(disk) /\ Named(mem) /\ Told /\ Signed
  BY MisledStays DEF IInv, Known
<1>2. Told'
  BY <1>1, NextKeepsTold
<1>3. ASSUME Named(disk') /\ Named(mem'), Signed'
      PROVE  Known'
  BY <1>2, <1>3 DEF Known, Named, Registered
<1>4. ~Crash
  BY DEF Crash, Trusted
<1>5. CASE \/ Save \/ Release \/ \E c \in Commands, n \in SlotIds \union {0} : Begin(c, n)
  <2>1. pc # "point"
    BY <1>5 DEF Save, Release, Begin
  <2>2. QED
    BY <1>1, <1>3, <1>5, <2>1, QuietNamed, EndSigned
<1>6. CASE \/ SyncRead \/ Switch \/ EnsureFresh \/ EnsureFreshCall
           \/ PlanRefresh \/ PlanAuto \/ PlanClean \/ Ask \/ Label
           \/ \E n \in SlotIds : Call(n)
           \/ Login \/ Adopt \/ AdoptRotate \/ AdoptWrite \/ LoginSave
  BY <1>1, <1>3, <1>6, QuietNamed, CallingSigned
<1>7. CASE SyncConfirm \/ EnsureFreshStore
  BY <1>1, <1>3, <1>7, ActivationNamed, CallingSigned
<1>8. CASE Point \/ Mirror \/ ClaudeCode
  BY <1>1, <1>3, <1>8, QuietNamed, ActivationSigned
<1>9. CASE Install
  BY <1>1, <1>3, <1>9, ActivationNamed, ActivationSigned
<1>10. CASE CallsDone
  BY <1>1, <1>3, <1>10, PassNamed, CallingSigned
<1>11. CASE \/ \E n \in SlotIds : ApplyRenewed(n) \/ ApplyRejected(n) \/ Sweep(n)
            \/ RemoveSlot
  BY <1>1, <1>3, <1>11, PassNamed, FilingSigned
<1>12. ASSUME NEW n \in SlotIds, ApplyFailed(n)
      PROVE  Known'
  BY <1>1, <1>3, <1>12, QuietNamed, FilingSigned
<1>13. CASE Register \/ AdoptStore
  BY <1>1, <1>3, <1>13, FilingNamed, FilingSigned
<1>14. QED
  BY <1>4, <1>5, <1>6, <1>7, <1>8, <1>9, <1>10, <1>11, <1>12, <1>13 DEF Next, Step

\* The same of a step that changes nothing.
LEMMA StutterKeepsKnown ==
  ASSUME Known, UNCHANGED vars
  PROVE  Known'
BY DEF Known, Named, Registered, Told, Signed, vars, stores, locals

-----------------------------------------------------------------------------
(***************************************************************************)
(* Who is signed in: the marker, the live item and ~/.claude.json agree.   *)
(***************************************************************************)

\* Agree(t) after a step, t being a table of then.
AgreeNext(t) ==
  t.active # 0 => t.active \in Registered(t) /\ live'.acct = t.slots[t.active].uuid

\* Where a command is about to write who is signed in, or has it half written.
Signing ==
  {"confirm", "rotate", "park", "install", "point", "mirror",
   "adoptRotate", "adoptWrite", "adoptStore"}

\* The table stays in agreement when the marker stays on its slot, or is dropped.
LEMMA AgreeStays ==
  ASSUME NEW t, Agree(t), NEW r, r.active \in {t.active, 0}, live'.acct = live.acct,
         r.active # 0 /\ t.active \in Registered(t) =>
           t.active \in Registered(r) /\ r.slots[t.active].uuid = t.slots[t.active].uuid
  PROVE  AgreeNext(r)
BY DEF Agree, AgreeNext

\* A step to where no one is about to sign anyone in.
LEMMA AgreedStays ==
  ASSUME Agreed, pc \notin {"point", "save"}, AgreeNext(mem'), live'.acct = live.acct,
         UNCHANGED <<config, disk>>, ~misled', pc' \notin Signing
  PROVE  Agreed'
<1>1. pc # "point" => Agree(mem) /\ config = live.acct
  BY DEF Agreed
<1>2. AgreeNext(disk')
  BY DEF Agreed, Agree, AgreeNext
<1>3. QED
  BY <1>1, <1>2 DEF Agreed, Agree, AgreeNext, Signing

\* A command that fails, and a table that is not touched.
LEMMA SameTableAgreed ==
  ASSUME Agreed, pc \notin {"point", "save"}, mem' \in {mem, disk, EmptyTable},
         live'.acct = live.acct, UNCHANGED <<config, disk, misled>>, pc' \notin Signing
  PROVE  Agreed'
<1>1. AgreeNext(mem')
  BY DEF Agreed, Agree, AgreeNext, EmptyTable
<1>2. QED
  BY <1>1, AgreedStays DEF Agreed

\* Choices and calls, the ends of most commands and the start of every one.
LEMMA QuietAgreed ==
  ASSUME Agreed, pc \notin {"point", "save"},
         \/ Fail \/ Release \/ \E c \in Commands, n \in SlotIds \union {0} : Begin(c, n)
         \/ Switch \/ PlanRefresh \/ PlanAuto \/ PlanClean \/ Ask \/ Label
         \/ \E n \in SlotIds : Call(n) \/ ApplyFailed(n)
         \/ Login \/ Mirror
  PROVE  Agreed'
<1>1. CASE Fail
  BY <1>1, SameTableAgreed DEF Fail, Exit, Gone, stores, Signing
<1>2. CASE Release \/ \E c \in Commands, n \in SlotIds \union {0} : Begin(c, n)
  BY <1>2, SameTableAgreed DEF Release, Begin, stores, Signing
<1>3. CASE (Switch \/ PlanRefresh \/ PlanAuto \/ PlanClean \/ Ask \/ Label \/ Login) /\ ~Fail
  <2>1. UNCHANGED <<config, disk, live, mem, misled>> /\ pc' \notin Signing
    BY <1>3 DEF Switch, PlanRefresh, PlanAuto, PlanClean, Ask, Label, Login, Calls, stores, Signing
  <2>2. QED
    BY <2>1, SameTableAgreed
<1>4. CASE \E n \in SlotIds : Call(n) \/ ApplyFailed(n)
  BY <1>4, SameTableAgreed DEF Call, ApplyFailed, Apply, stores, Signing
<1>5. CASE Mirror
  <2>1. live'.acct = live.acct
    BY <1>5 DEF Mirror, Agreed
  <2>2. QED
    BY <1>5, <2>1, SameTableAgreed DEF Mirror, Signing
<1>6. QED
  BY <1>1, <1>2, <1>3, <1>4, <1>5

\* SyncActive: whoever it asks, the owner is the account that is signed in.
LEMMA SyncAgreed ==
  ASSUME TypeOK, Bookkeeping, Named(mem), Agreed, SyncRead \/ SyncConfirm
  PROVE  Agreed'
<1>1. CASE SyncRead
  <2>1. /\ UNCHANGED <<config, disk, live, mem, misled>> /\ pc' \in {"act", "confirm"}
        /\ pc' = "confirm" => seen' = live /\ who' = config
    BY <1>1 DEF SyncRead, LiveReads, stores
  <2>2. pc = "sync"
    BY <1>1 DEF SyncRead
  <2>3. QED
    BY <2>1, <2>2 DEF Agreed, Agree
<1>2. CASE SyncConfirm
  <2>1. pc = "confirm" /\ seen = live /\ who = live.acct /\ seen \in Cred /\ mem \in Table
    BY <1>2 DEF SyncConfirm, Agreed, Bookkeeping, TypeOK
  <2>2. PICK answer \in Answers(seen) :
          LET n == SyncTarget(IF answer # NoAccount THEN answer ELSE who)
          IN /\ \/ n # 0 /\ AdoptLiveInto(n, Activate(mem, n))
                \/ n = 0 /\ mem' = Activate(mem, 0) /\ UNCHANGED kc
             /\ misled' = (misled \/ (answer = NoAccount /\ who # seen.acct))
    BY <1>2 DEF SyncConfirm
  <2>3. (IF answer # NoAccount THEN answer ELSE who) = seen.acct
    BY <2>1, AnswersAreTrue
  <2>4. PICK n : n = SyncTarget(seen.acct)
    OBVIOUS
  <2>5. /\ \/ n # 0 /\ AdoptLiveInto(n, Activate(mem, n))
           \/ n = 0 /\ mem' = Activate(mem, 0)
        /\ ~misled'
    BY <2>1, <2>2, <2>3, <2>4 DEF Agreed
  <2>6. AgreeNext(mem')
    <3>1. live'.acct = seen.acct
      BY <1>2, <2>1 DEF SyncConfirm
    <3>2. CASE n = 0
      BY <2>1, <2>5, <3>2, MarkerStays DEF AgreeNext
    <3>3. CASE n # 0
      <4>1. n \in Registered(mem) /\ mem.slots[n].uuid = seen.acct
        <5>1. seen.acct # NoAccount
          BY <2>1, IdentityAssumption DEF Cred
        <5>2. QED
          BY <2>4, <3>3, <5>1, SyncTargetFits DEF Named
      <4>2. PICK t : t = Activate(mem, n)
        OBVIOUS
      <4>3. /\ t \in Table /\ t.active = n /\ t.slots = mem.slots
            /\ Registered(t) = Registered(mem)
        BY <2>1, <4>1, <4>2, ActivateKeepsSlots, RegisteredIsSlot
      <4>4. /\ mem'.active = n /\ Registered(mem') = Registered(mem)
            /\ mem'.slots[n].uuid = mem.slots[n].uuid
        BY <2>1, <2>5, <3>3, <4>1, <4>2, <4>3, AdoptLiveIntoKeepsAccounts
      <4>5. QED
        BY <3>1, <4>1, <4>4 DEF AgreeNext
    <3>4. QED
      BY <3>2, <3>3
  <2>7. QED
    BY <1>2, <2>1, <2>5, <2>6, AgreedStays DEF SyncConfirm, Signing
<1>3. QED
  BY <1>1, <1>2

\* EnsureFresh and activate: what goes live is the target's, and then the marker and
\* the config file follow.
LEMMA ActivationAgreed ==
  ASSUME IInv, Calm, Named(mem), Agreed,
         EnsureFresh \/ EnsureFreshCall \/ EnsureFreshStore \/ Install \/ Point
  PROVE  Agreed'
<1>1. /\ TypeOK /\ Bookkeeping /\ Ownership /\ mem \in Table
      /\ tgt \in Registered(mem) /\ tgt \in SlotIds /\ mem.slots[tgt] \in Slot
      /\ mem.slots[tgt].uuid # NoAccount /\ mem.slots[tgt].block = mem.slots[tgt].uuid
      /\ pc \notin {"save", "confirm", "adoptRotate", "adoptWrite", "adoptStore", "mirror"}
  <2>1. TypeOK /\ Bookkeeping /\ Ownership /\ mem \in Table
    BY DEF IInv, Agreed, TypeOK
  <2>2. /\ tgt \in Registered(mem)
        /\ pc \notin {"save", "confirm", "adoptRotate", "adoptWrite", "adoptStore", "mirror"}
    BY <2>1 DEF Bookkeeping, EnsureFresh, EnsureFreshCall, EnsureFreshStore, Install, Point
  <2>3. QED
    BY <2>1, <2>2, RegisteredIsSlot DEF Named
<1>2. CASE Fail /\ pc # "point"
  BY <1>1, <1>2, QuietAgreed
<1>3. CASE EnsureFresh /\ ~Fail
  <2>1. env'.acct = mem.slots[tgt].uuid
    <3>1. env' = kc[tgt] /\ kc[tgt] # NoCred
      BY <1>3 DEF EnsureFresh, SlotReads
    <3>2. QED
      BY <1>1, <3>1 DEF Ownership, Owns, Registered
  <2>2. /\ UNCHANGED <<config, disk, live, mem, tgt, misled>> /\ pc' \in {"rotate", "install"}
        /\ pc = "ensure"
    BY <1>3 DEF EnsureFresh, stores
  <2>3. QED
    BY <2>1, <2>2 DEF Agreed, Agree
<1>4. CASE EnsureFreshCall
  <2>1. PICK out \in Outcome :
          /\ RefreshOrRecover(tgt, env, out)
          /\ \/ /\ out.kind \in {"ok", "recovered"}
                /\ env' = out.cred /\ pc' = "park" /\ UNCHANGED <<mem, tgt>>
             \/ /\ pc' = "install" /\ UNCHANGED <<mem, env, tgt>>
             \/ Exit
    BY <1>4 DEF EnsureFreshCall, locals
  <2>2. pc = "rotate" /\ env \in Cred /\ env.acct = mem.slots[tgt].uuid
        /\ UNCHANGED <<config, disk, live, misled>>
    BY <1>1, <1>4 DEF EnsureFreshCall, Bookkeeping, Agreed, stores
  <2>3. CASE Exit
    BY <2>2, <2>3, SameTableAgreed DEF Exit, Gone, Signing
  <2>4. CASE pc' = "install" /\ UNCHANGED <<mem, env, tgt>>
    BY <2>2, <2>4 DEF Agreed, Agree
  <2>5. CASE /\ out.kind \in {"ok", "recovered"}
             /\ env' = out.cred /\ pc' = "park" /\ UNCHANGED <<mem, tgt>>
    <3>1. out.cred.acct = mem.slots[tgt].uuid
      BY <1>1, <2>1, <2>2, <2>5, RefreshOrRecoverFits DEF Fits
    <3>2. QED
      BY <2>2, <2>5, <3>1 DEF Agreed, Agree
  <2>6. QED
    BY <2>1, <2>3, <2>4, <2>5
<1>5. CASE EnsureFreshStore /\ ~Fail
  <2>1. /\ pc = "park" /\ pc' = "install" /\ mem' = SetRevoked(mem, tgt, FALSE)
        /\ UNCHANGED <<config, disk, live, env, tgt, misled>>
    BY <1>5 DEF EnsureFreshStore, locals
  <2>2. PICK u : u = mem.slots[tgt].uuid
    OBVIOUS
  <2>3. /\ mem'.active = mem.active /\ Registered(mem') = Registered(mem)
        /\ \A m \in Registered(mem) : mem'.slots[m].uuid = mem.slots[m].uuid
    <3>1. PICK w : w \in Owner
      BY DEF Owner
    <3>2. QED
      BY <1>1, <2>1, <3>1, FieldsKeepAccounts
  <2>4. QED
    BY <1>1, <2>1, <2>3 DEF Agreed, Agree
<1>6. CASE Install /\ ~Fail
  <2>1. /\ pc = "install" /\ pc' = "point" /\ live' = env
        /\ UNCHANGED <<config, disk, tgt, misled>>
    BY <1>6 DEF Install
  <2>2. mem'.slots[tgt].uuid = mem.slots[tgt].uuid
    <3>1. \/ mem' = mem
          \/ \E p : p = Active(mem) /\ p # 0 /\ mem' = SetBlock(mem, p, config)
      BY <1>6 DEF Install
    <3>2. config \in Owner
      BY <1>1 DEF TypeOK
    <3>3. ASSUME NEW p, p = Active(mem), p # 0, mem' = SetBlock(mem, p, config)
          PROVE  mem'.slots[tgt].uuid = mem.slots[tgt].uuid
      <4>1. p \in Registered(mem)
        BY <3>3, ActiveIsRegistered
      <4>2. QED
        BY <1>1, <3>2, <3>3, <4>1, FieldsKeepAccounts
    <3>4. QED
      BY <3>1, <3>3
  <2>3. env.acct = mem.slots[tgt].uuid
    BY <2>1 DEF Agreed
  <2>4. QED
    BY <2>1, <2>2, <2>3 DEF Agreed
<1>7. CASE Point
  <2>1. pc = "point" /\ pc' = "save" /\ mem' = Activate(mem, tgt) /\ UNCHANGED <<live, disk, misled>>
    BY <1>7 DEF Point
  <2>2. live.acct = mem.slots[tgt].uuid
    BY <2>1 DEF Agreed
  <2>3. config' = live.acct
    BY <1>1, <1>7, <2>2 DEF Point, Calm, Trusted
  <2>4. /\ mem'.active = tgt /\ mem'.slots = mem.slots /\ Registered(mem') = Registered(mem)
    BY <1>1, <2>1, ActivateKeepsSlots
  <2>5. QED
    BY <1>1, <2>1, <2>2, <2>3, <2>4 DEF Agreed, Agree
<1>8. QED
  BY <1>2, <1>3, <1>4, <1>5, <1>6, <1>7 DEF EnsureFresh, EnsureFreshStore, Install

\* A pass and the removal of slots leave the marker on its slot, or drop it, and the
\* credential a pass mirrors is the active slot's.
LEMMA PassAgreed ==
  ASSUME IInv, Named(mem), Agreed,
         \/ \E n \in SlotIds : ApplyRenewed(n) \/ ApplyRejected(n) \/ Sweep(n)
         \/ CallsDone \/ RemoveSlot
  PROVE  Agreed'
<1>1. TypeOK /\ Bookkeeping /\ Ownership /\ mem \in Table /\ Agree(mem) /\ ~misled
      /\ pc \notin {"point", "save"}
  BY DEF IInv, Agreed, TypeOK, ApplyRenewed, ApplyRejected, Apply, Sweep, CallsDone, RemoveSlot
<1>2. CASE Fail
  BY <1>1, <1>2, QuietAgreed
<1>3. ASSUME /\ mem'.active = mem.active /\ Registered(mem') = Registered(mem)
             /\ \A m \in Registered(mem) : mem'.slots[m].uuid = mem.slots[m].uuid,
             UNCHANGED <<live, config, disk, misled>>
      PROVE  /\ AgreeNext(mem')
             /\ pc' \notin Signing => Agreed'
  <2>1. AgreeNext(mem')
    BY <1>1, <1>3 DEF Agree, AgreeNext
  <2>2. QED
    BY <1>1, <1>3, <2>1, AgreedStays
<1>4. ASSUME NEW n, Forget(n), n \in SlotIds, UNCHANGED <<live, config, disk, misled>>,
             pc' \in {"save", "sweep"}
      PROVE  Agreed'
  <2>1. PICK r : r = Remove(mem, n)
    OBVIOUS
  <2>2. /\ r.active \in {mem.active, 0} /\ r.active # n
        /\ Registered(r) = Registered(mem) \ {n}
        /\ \A m \in SlotIds \ {n} : r.slots[m] = mem.slots[m]
    BY <1>1, <1>4, <2>1, RemoveDropsOneSlot
  <2>3. mem' = r
    BY <1>4, <2>1 DEF Forget
  <2>4. AgreeNext(mem')
    BY <1>1, <1>4, <2>2, <2>3 DEF Agree, AgreeNext, Registered
  <2>5. QED
    BY <1>1, <1>4, <2>4, AgreedStays DEF Signing
<1>5. ASSUME NEW n \in SlotIds, ApplyRenewed(n)
      PROVE  Agreed'
  <2>1. /\ n \in Registered(mem) /\ got[n].kind \in {"ok", "recovered"} /\ pc = "calls"
        /\ UNCHANGED <<live, config, disk, misled>>
    BY <1>1, <1>5 DEF ApplyRenewed, Apply, Bookkeeping
  <2>2. got[n].cred \in Cred /\ got[n].cred.acct = mem.slots[n].uuid
    <3>1. got[n].cred \in Cred
      BY <1>1, <2>1 DEF TypeOK, Outcome, Rejected, Failed, Nothing
    <3>2. mem.slots[n].uuid # NoAccount /\ Fits(got[n].cred, n)
      BY <1>1, <2>1 DEF Named, Ownership
    <3>3. QED
      BY <3>1, <3>2 DEF Fits
  <2>3. PICK t \in Renamed(n, got[n].cred) : mem' \in {t, SetRevoked(t, n, FALSE)}
    BY <1>5 DEF ApplyRenewed, Renamed
  <2>4. /\ t \in Table /\ t.active = mem.active /\ Registered(t) = Registered(mem)
        /\ \A m \in Registered(mem) : t.slots[m].uuid = mem.slots[m].uuid
    BY <1>1, <2>1, <2>2, <2>3, RenamedNamed
  <2>5. /\ mem'.active = mem.active /\ Registered(mem') = Registered(mem)
        /\ \A m \in Registered(mem) : mem'.slots[m].uuid = mem.slots[m].uuid
    <3>1. PICK w : w \in Owner
      BY DEF Owner
    <3>2. PICK r : r = SetRevoked(t, n, FALSE)
      OBVIOUS
    <3>3. /\ r.active = t.active /\ Registered(r) = Registered(t)
          /\ \A m \in Registered(t) : r.slots[m].uuid = t.slots[m].uuid
      BY <2>1, <2>4, <3>1, <3>2, FieldsKeepAccounts
    <3>4. QED
      BY <2>3, <2>4, <3>2, <3>3
  <2>6. AgreeNext(mem') /\ (pc' \notin Signing => Agreed')
    BY <1>3, <2>1, <2>5
  <2>7. CASE pc' \notin Signing
    BY <2>6, <2>7
  <2>8. CASE pc' = "mirror"
    <3>1. mem.active = n /\ env' = got[n].cred
      BY <1>5, <2>1, <2>8 DEF ApplyRenewed
    <3>2. env'.acct = live'.acct
      <4>1. n # 0
        BY SlotTableAssumption DEF SlotIds
      <4>2. QED
        BY <1>1, <2>1, <2>2, <3>1, <4>1 DEF Agree
    <3>3. QED
      BY <1>1, <2>1, <2>6, <2>8, <3>2 DEF Agreed, Agree, AgreeNext
  <2>9. pc' \in {"calls", "mirror"}
    BY <1>5, <2>1 DEF ApplyRenewed
  <2>10. QED
    BY <2>7, <2>8, <2>9 DEF Signing
<1>6. ASSUME NEW n \in SlotIds, ApplyRejected(n)
      PROVE  Agreed'
  <2>1. /\ n \in Registered(mem) /\ mem' = SetRevoked(mem, n, TRUE) /\ pc' = "calls"
        /\ UNCHANGED <<live, config, disk, misled>>
    BY <1>1, <1>6 DEF ApplyRejected, Apply, Bookkeeping
  <2>2. PICK w : w \in Owner
    BY DEF Owner
  <2>3. QED
    BY <1>1, <1>3, <2>1, <2>2, FieldsKeepAccounts DEF Signing
<1>7. CASE CallsDone
  <2>1. UNCHANGED <<live, config, disk, misled>> /\ pc' \notin Signing
    BY <1>7 DEF CallsDone, stores, Signing
  <2>2. QED
    BY <1>1, <1>3, <1>7, <2>1, MarksKeepAccounts
<1>8. ASSUME NEW n \in SlotIds, Sweep(n)
      PROVE  Agreed'
  BY <1>4, <1>8 DEF Sweep
<1>9. CASE RemoveSlot /\ ~Fail
  BY <1>4, <1>9 DEF RemoveSlot, Registered
<1>10. QED
  BY <1>2, <1>5, <1>6, <1>7, <1>8, <1>9

\* login registers an account without touching the active slot's; adopt makes active
\* the slot of the account that is signed in; saving passes the agreement on.
LEMMA FilingAgreed ==
  ASSUME TypeOK, Bookkeeping, Calm, Named(mem), Told, Signed, Agreed,
         \/ Save \/ LoginSave \/ Register \/ Adopt \/ AdoptRotate \/ AdoptWrite \/ AdoptStore
  PROVE  Agreed'
<1>1. mem \in Table /\ ~misled /\ "save" \notin Faults /\ pc # "point"
      /\ Agree(mem) /\ config = live.acct
  BY DEF TypeOK, Agreed, Calm, Save, LoginSave, Register, Adopt, AdoptRotate, AdoptWrite, AdoptStore
<1>2. CASE Fail /\ pc # "save"
  BY <1>1, <1>2, QuietAgreed
<1>3. CASE Save
  <2>1. /\ disk' = mem /\ mem' = EmptyTable /\ pc' = "idle"
        /\ UNCHANGED <<live, config, misled>>
    BY <1>1, <1>3 DEF Save, Exit, Gone
  <2>2. QED
    BY <1>1, <2>1 DEF Agreed, Agree, EmptyTable
<1>4. CASE LoginSave
  <2>1. /\ disk' = mem /\ mem' \in {mem, EmptyTable} /\ pc' \in {"ensure", "idle"}
        /\ UNCHANGED <<live, config, misled>>
    BY <1>1, <1>4 DEF LoginSave, Exit, Gone
  <2>2. QED
    BY <1>1, <2>1 DEF Agreed, Agree, EmptyTable
<1>5. CASE Register /\ ~Fail
  <2>1. PICK n \in SlotIds, s \in Slot :
          /\ mem' = Put(mem, n, s)
          /\ n \in Registered(mem) => s.uuid = mem.slots[n].uuid
    BY <1>1, <1>5, RegisterFiles DEF Calm
  <2>2. PICK r : r = Put(mem, n, s)
    OBVIOUS
  <2>3. /\ r.active = mem.active /\ Registered(r) = Registered(mem) \union {n}
        /\ \A m \in SlotIds : r.slots[m] = IF m = n THEN s ELSE mem.slots[m]
    BY <1>1, <2>2, PutChangesOneSlot
  <2>4. UNCHANGED <<live, config, disk, misled>> /\ pc = "register" /\ pc' = "loginSave"
    BY <1>5 DEF Register
  <2>5. AgreeNext(mem')
    BY <1>1, <2>1, <2>2, <2>3, <2>4 DEF Agree, AgreeNext, Registered
  <2>6. QED
    BY <1>1, <2>4, <2>5, AgreedStays DEF Signing
<1>6. CASE Adopt /\ ~Fail
  <2>1. /\ env' = live /\ who' = config /\ pc' \in {"adoptRotate", "adoptStore"} /\ pc = "act"
        /\ UNCHANGED <<live, config, disk, mem, misled>>
    BY <1>6 DEF Adopt, LiveReads, stores
  <2>2. QED
    BY <1>1, <2>1 DEF Agreed, Agree
<1>7. CASE AdoptRotate
  <2>1. PICK out \in Outcome :
          /\ Refresh(env, out)
          /\ env' = IF out.kind = "ok" THEN out.cred ELSE env
    BY <1>7 DEF AdoptRotate
  <2>2. /\ pc = "adoptRotate" /\ pc' \in {"adoptWrite", "adoptStore"} /\ who' = config
        /\ UNCHANGED <<live, config, disk, mem, misled>> /\ env \in Cred
    BY <1>7 DEF AdoptRotate, stores, Bookkeeping
  <2>3. env'.acct = env.acct
    BY <2>1, <2>2, RefreshKeepsAccount DEF TypeOK
  <2>4. QED
    BY <1>1, <2>2, <2>3 DEF Agreed, Agree
<1>8. CASE AdoptWrite
  <2>1. /\ pc = "adoptWrite" /\ pc' = "adoptStore" /\ who' = config /\ live' \in {live, env}
        /\ UNCHANGED <<config, disk, mem, env, misled>>
    BY <1>8 DEF AdoptWrite
  <2>2. env.acct = live.acct
    BY <2>1 DEF Agreed
  <2>3. live'.acct = live.acct
    BY <2>1, <2>2
  <2>4. QED
    BY <1>1, <2>1, <2>2, <2>3 DEF Agreed, Agree
<1>9. CASE AdoptStore /\ ~Fail
  <2>1. who = env.acct /\ env.acct = live.acct /\ pc = "adoptStore"
    BY <1>9 DEF AdoptStore, Agreed
  <2>2. ~misled' /\ pc' = "save" /\ UNCHANGED <<live, config, disk>>
    BY <1>1, <1>9, <2>1 DEF AdoptStore
  <2>3. mem'.active \in Registered(mem') /\ mem'.slots[mem'.active].uuid = who
    BY <1>9, <2>2, AdoptFiles
  <2>4. QED
    BY <1>1, <2>1, <2>2, <2>3, AgreedStays DEF AgreeNext, Signing
<1>10. QED
  BY <1>2, <1>3, <1>4, <1>5, <1>6, <1>7, <1>8, <1>9 DEF Register, Adopt, AdoptStore

\* Every step of a calm run keeps cas, the live item and the config file in agreement.
LEMMA NextKeepsAgreed ==
  ASSUME IInv, Calm, Known, Agreed, Next
  PROVE  Agreed'
<1>1. /\ TypeOK /\ Bookkeeping /\ ~misled
      /\ Named(disk) /\ Named(mem) /\ Told /\ Signed
  BY DEF IInv, Known, Agreed
<1>2. ~Crash
  BY DEF Crash, Calm, Trusted
<1>3. CASE ClaudeCode
  <2>1. PICK a \in Accounts : TimePasses(a)
    BY <1>3 DEF ClaudeCode, Calm, SignIn
  <2>2. UNCHANGED <<live, config, disk, mem, pc, cmd, tgt, env, seen, who, misled>>
    BY <2>1 DEF TimePasses, stores, locals
  <2>3. QED
    BY <2>2 DEF Agreed, Agree
<1>4. CASE \/ Release \/ \E c \in Commands, n \in SlotIds \union {0} : Begin(c, n)
           \/ Switch \/ PlanRefresh \/ PlanAuto \/ PlanClean \/ Ask \/ Label
           \/ \E n \in SlotIds : Call(n) \/ ApplyFailed(n)
           \/ Login \/ Mirror
  <2>1. pc \notin {"point", "save"}
    BY <1>4 DEF Release, Begin, Switch, PlanRefresh, PlanAuto, PlanClean, Ask, Label, Call,
                ApplyFailed, Apply, Login, Mirror
  <2>2. QED
    BY <1>4, <2>1, QuietAgreed
<1>5. CASE SyncRead \/ SyncConfirm
  BY <1>1, <1>5, SyncAgreed
<1>6. CASE EnsureFresh \/ EnsureFreshCall \/ EnsureFreshStore \/ Install \/ Point
  BY <1>1, <1>6, ActivationAgreed
<1>7. CASE \/ \E n \in SlotIds : ApplyRenewed(n) \/ ApplyRejected(n) \/ Sweep(n)
           \/ CallsDone \/ RemoveSlot
  BY <1>1, <1>7, PassAgreed
<1>8. CASE Save \/ LoginSave \/ Register \/ Adopt \/ AdoptRotate \/ AdoptWrite \/ AdoptStore
  BY <1>1, <1>8, FilingAgreed
<1>9. QED
  BY <1>2, <1>3, <1>4, <1>5, <1>6, <1>7, <1>8 DEF Next, Step

\* At first cas's marker names the account that is signed in, if it knows it.
LEMMA InitAgreed == Init => Agreed
<1> SUFFICES ASSUME Init
             PROVE  Agreed
  OBVIOUS
<1>1. PICK a \in Owner : live = FirstCred(a) /\ config = a /\ disk = StartTable(a)
  BY DEF Init
<1>2. mem = EmptyTable /\ pc = "idle" /\ ~misled
  BY DEF Init
<1>3. live.acct = a
  BY <1>1 DEF FirstCred, NoCred
<1>4. Agree(disk)
  <2>1. disk \in Table
    BY InitTypeOK DEF TypeOK
  <2>2. PICK r : r = [active |-> 0, slots |-> disk.slots]
    OBVIOUS
  <2>3. r \in Table /\ Registered(r) = Registered(disk) /\ r.slots = disk.slots
    BY <2>1, <2>2 DEF Table, Registered
  <2>4. disk.active = FindByAccountUUID(r, a)
    BY <1>1, <2>2 DEF StartTable
  <2>5. QED
    BY <1>3, <2>3, <2>4, FindReturnsOwnSlot DEF Agree
<1>5. QED
  BY <1>1, <1>2, <1>3, <1>4 DEF Agreed, Agree, EmptyTable

-----------------------------------------------------------------------------
(***************************************************************************)
(* The theorems.                                                           *)
(***************************************************************************)

\* Every step keeps Steady.
LEMMA NextKeepsSteady ==
  ASSUME IInv, Steady, [Next]_vars
  PROVE  Steady'
<1>1. Sound'
  BY NextKeepsSound DEF Steady
<1>2. ASSUME Trusted, ~misled'
      PROVE  Known'
  <2>1. ~misled
    BY <1>2, MisledStays DEF vars
  <2>2. QED
    BY <1>2, <2>1, NextKeepsKnown, StutterKeepsKnown DEF Steady
<1>3. ASSUME Calm
      PROVE  Agreed'
  <2>1. Agreed /\ Known
    BY <1>3 DEF Steady, Agreed, Calm
  <2>2. CASE Next
    BY <1>3, <2>1, <2>2, NextKeepsAgreed
  <2>3. CASE UNCHANGED vars
    BY <2>1, <2>3 DEF Agreed, Agree, vars, stores, locals
  <2>4. QED
    BY <2>2, <2>3
<1>4. Trusted' = Trusted /\ Calm' = Calm
  BY DEF Trusted, Calm
<1>5. QED
  BY <1>1, <1>2, <1>3, <1>4 DEF Steady

\* Whatever goes wrong, everything held was issued and clean's verdicts stand; where
\* the config file can be trusted the slots keep apart; in a calm run everyone agrees.
THEOREM SteadyHolds == Spec => [](IInv /\ Steady)
<1>1. Init => IInv /\ Steady
  BY InitIInv, InitSound, InitKnown, InitAgreed DEF Steady
<1>2. IInv /\ Steady /\ [Next]_vars => (IInv /\ Steady)'
  BY NextKeeps, NextKeepsSteady
<1>3. QED
  BY <1>1, <1>2, PTL DEF Spec

\* Unless a Keychain read can fail, clean deletes no credential whose refresh token
\* still works, whatever sessions, other failures, crashes and the service do in between
\* (checkSlots, CmdClean): but for one that bears another credential's deadline or a
\* guess, which checkSlots takes at its word.
THEOREM CleanRemovesTheDead ==
  ASSUME "read" \notin Faults
  PROVE  Spec => CleansOnlyDead
<1>1. IInv /\ Steady /\ [Next]_vars =>
        [pc = "sweep" =>
           \A n \in SlotIds : kc'[n] # kc[n] /\ Dated(kc[n]) => ~Good(kc[n])]_vars
  <2> SUFFICES ASSUME IInv, Steady, Next, pc = "sweep",
                      NEW n \in SlotIds, kc'[n] # kc[n], Dated(kc[n])
               PROVE  ~Good(kc[n])
    OBVIOUS
  <2>1. PICK m \in SlotIds : Sweep(m)
    BY OnlySweeps
  <2>2. n = m /\ kc'[n] = NoCred /\ got[n].kind = "rejected"
    <3>1. m \in Dead /\ (kc' = kc \/ kc' = [kc EXCEPT ![m] = NoCred])
      BY <2>1, LowestIsMember DEF Sweep, Forget, Dead
    <3>2. QED
      BY <3>1 DEF Dead, IInv, TypeOK
  <2>3. cmd = "clean" /\ Judged
    BY DEF IInv, Bookkeeping, Steady, Sound
  <2>4. QED
    BY <2>2, <2>3 DEF Judged
<1>2. QED
  BY <1>1, SteadyHolds, PTL DEF Spec, CleansOnlyDead

\* As long as the profile endpoint answers, the config file can be written and no
\* command dies between its writes, no account is ever registered under two slots
\* (CmdLogin, CmdAdopt, Refresh), unless a credential was once filed for the account
\* that ~/.claude.json wrongly named.
THEOREM OneSlotEach ==
  ASSUME Trusted
  PROVE  Spec => []OneSlotPerAccount
<1>1. IInv /\ Steady => OneSlotPerAccount
  BY DEF Steady, Known, Named, OneSlotPerAccount
<1>2. QED
  BY <1>1, SteadyHolds, PTL

\* As long as nobody but cas changes who is signed in, and what it writes arrives,
\* every command leaves the active marker, the live item and ~/.claude.json naming
\* one account (activate, CmdAdopt, Refresh's mirror, CmdRemove), and no credential
\* is ever filed for another.
THEOREM CalmAgrees ==
  ASSUME Calm
  PROVE  Spec => []SignedInAgrees
<1>1. IInv /\ Steady => SignedInAgrees
  BY DEF Steady, Agreed, Agree, SignedInAgrees
<1>2. QED
  BY <1>1, SteadyHolds, PTL

\* Where adopt is about to file, only it writes a slot's item.
LEMMA OnlyAdopts ==
  ASSUME Next, pc = "adoptStore", kc' # kc
  PROVE  AdoptStore /\ ~Fail
<1>1. CASE ClaudeCode \/ Crash
  BY <1>1 DEF ClaudeCode, Crash, Open, Renew, WriteBack, End, SignIn, TimePasses, stores
<1>2. CASE SyncRead \/ SyncConfirm \/ Switch \/ EnsureFresh \/ EnsureFreshCall
             \/ EnsureFreshStore \/ Install \/ Point
  BY <1>2 DEF SyncRead, SyncConfirm, Switch, EnsureFresh, EnsureFreshCall,
              EnsureFreshStore, Install, Point
<1>3. CASE PlanRefresh \/ PlanAuto \/ PlanClean \/ CallsDone \/ Mirror \/ Ask
             \/ RemoveSlot \/ Label
  BY <1>3 DEF PlanRefresh, PlanAuto, PlanClean, CallsDone, Mirror, Ask, RemoveSlot, Label
<1>4. CASE Login \/ Register \/ LoginSave \/ Adopt \/ AdoptRotate \/ AdoptWrite
             \/ Save \/ Release
             \/ \E c \in Commands, n \in SlotIds \union {0} : Begin(c, n)
  BY <1>4 DEF Login, Register, LoginSave, Adopt, AdoptRotate, AdoptWrite, Save,
              Release, Begin
<1>5. ASSUME NEW n \in SlotIds, \/ Call(n) \/ ApplyRenewed(n) \/ ApplyFailed(n)
                                \/ ApplyRejected(n) \/ Sweep(n)
      PROVE  FALSE
  BY <1>5 DEF Call, ApplyRenewed, ApplyFailed, ApplyRejected, Apply, Sweep
<1>6. ~Fail
  BY DEF Fail, stores
<1>7. QED
  BY <1>1, <1>2, <1>3, <1>4, <1>5, <1>6 DEF Next, Step

\* And adopt then leaves the credential that is parked for any other account alone.
THEOREM CalmAdoptsOwn ==
  ASSUME Calm
  PROVE  Spec => AdoptsOwnAccount
<1>1. ASSUME IInv, Steady, Next, pc = "adoptStore",
             NEW n \in Registered(mem), kc'[n] # kc[n]
      PROVE  mem.slots[n].uuid \in {env.acct, NoAccount}
  <2>1. AdoptStore /\ ~Fail
    BY <1>1, OnlyAdopts
  <2>2. who = env.acct /\ mem \in Table /\ env \in Cred
    BY <1>1 DEF Steady, Agreed, IInv, TypeOK, Bookkeeping
  <2>3. PICK answer \in Answers(env) :
          LET byConfig == FindByAccountUUID(mem, who)
              found == IF byConfig # 0 THEN byConfig ELSE FindByAccountUUID(mem, answer)
              m == IF found # 0 THEN found ELSE NextFreeSlot(mem)
          IN m # 0 /\ kc' = [kc EXCEPT ![m] = env]
    BY <2>1 DEF AdoptStore
  <2>4. answer \in {who, NoAccount}
    BY <2>2, AnswersAreTrue
  <2>5. PICK f : f = FindByAccountUUID(mem, who)
    OBVIOUS
  <2>6. f = IF f # 0 THEN f ELSE FindByAccountUUID(mem, answer)
    BY <2>4, <2>5 DEF FindByAccountUUID
  <2>7. PICK m : m = (IF f # 0 THEN f ELSE NextFreeSlot(mem)) /\ m # 0 /\ kc' = [kc EXCEPT ![m] = env]
    BY <2>3, <2>5, <2>6
  <2>8. n = m
    BY <1>1, <2>7 DEF IInv, TypeOK, Registered
  <2>9. f # 0
    BY <2>2, <2>7, <2>8, NextFreeIsFree
  <2>10. QED
    BY <2>2, <2>5, <2>7, <2>8, <2>9, FindReturnsOwnSlot
<1>2. IInv /\ Steady /\ [Next]_vars =>
        [pc = "adoptStore" =>
           \A n \in Registered(mem) :
             kc'[n] # kc[n] => mem.slots[n].uuid \in {env.acct, NoAccount}]_vars
  BY <1>1
<1>3. QED
  BY <1>2, SteadyHolds, PTL DEF Spec, AdoptsOwnAccount

=============================================================================
