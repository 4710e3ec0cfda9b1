------------------------- MODULE ClaudeSwitchProofs -------------------------
(***************************************************************************)
(* Theorems about ClaudeSwitch, for every number of accounts, slots,       *)
(* sessions and credentials and every choice of commands and faults.       *)
(***************************************************************************)
EXTENDS ClaudeSwitch, WellFoundedInduction, TLAPS

-----------------------------------------------------------------------------
(***************************************************************************)
(* What the operations of SlotTable do to a table.                         *)
(***************************************************************************)

\* A search through the sorted slice ends at a member of what it looks for.
LEMMA LowestIsMember ==
  ASSUME NEW S \in SUBSET SlotIds
  PROVE  /\ S # {} => Lowest(S) \in S
         /\ S # {} => \A m \in S : Lowest(S) <= m
         /\ S = {} => Lowest(S) = 0
<1>1. S \subseteq Nat
  BY SlotTableAssumption DEF SlotIds
<1>2. ASSUME S # {}
      PROVE  \E n \in S : \A m \in S : n <= m
  <2>1. PICK n \in S : \A m \in S : ~(<<m, n>> \in OpToRel(<, Nat))
    BY <1>1, <1>2, NatLessThanWellFounded, WFMin
  <2>2. \A m \in S : ~(m < n)
    BY <1>1, <2>1 DEF OpToRel
  <2>3. QED
    BY <1>1, <2>2
<1>3. CASE S = {}
  BY <1>3 DEF Lowest
<1>4. CASE S # {}
  BY <1>2, <1>4 DEF Lowest
<1>5. QED
  BY <1>3, <1>4

\* State.FindByAccountUUID returns nil or a registered slot of that account,
\* and never finds a slot for the empty uuid.
LEMMA FindReturnsOwnSlot ==
  ASSUME NEW t \in Table, NEW u, NEW n, n = FindByAccountUUID(t, u), n # 0
  PROVE  n \in Registered(t) /\ t.slots[n].uuid = u /\ u # NoAccount
<1> DEFINE S == {m \in Registered(t) : t.slots[m].uuid = u}
<1>1. u # NoAccount /\ n = Lowest(S)
  BY DEF FindByAccountUUID
<1>2. S \in SUBSET SlotIds
  BY DEF Registered
<1>3. n \in S
  BY <1>1, <1>2, LowestIsMember
<1>4. QED
  BY <1>1, <1>3

\* It finds one whenever the account has a slot.
LEMMA FindFindsRegistered ==
  ASSUME NEW t \in Table, NEW n \in Registered(t),
         t.slots[n].uuid # NoAccount
  PROVE  FindByAccountUUID(t, t.slots[n].uuid) # 0
<1> DEFINE u == t.slots[n].uuid
           S == {m \in Registered(t) : t.slots[m].uuid = u}
<1>1. S \in SUBSET SlotIds /\ n \in S
  BY DEF Registered
<1>2. Lowest(S) \in S /\ Lowest(S) # 0
  BY <1>1, LowestIsMember, SlotTableAssumption DEF SlotIds
<1>3. QED
  BY <1>2 DEF FindByAccountUUID

\* State.nextFreeSlot returns a number that no slot has.
LEMMA NextFreeIsFree ==
  ASSUME NEW t \in Table, NEW n, n = NextFreeSlot(t), n # 0
  PROVE  n \in SlotIds /\ n \notin Registered(t)
BY LowestIsMember DEF NextFreeSlot

\* State.Active returns nil or a registered slot.
LEMMA ActiveIsRegistered ==
  ASSUME NEW t, NEW n, n = Active(t), n # 0
  PROVE  n \in Registered(t) /\ n = t.active
BY DEF Active

\* A number that is registered in a table has a slot record there (Find's result).
LEMMA RegisteredIsSlot ==
  ASSUME NEW t \in Table, NEW n \in Registered(t)
  PROVE  n \in SlotIds /\ t.slots[n] \in Slot
BY DEF Registered, Table

\* Putting a slot record under a number touches no other number.
LEMMA PutChangesOneSlot ==
  ASSUME NEW t \in Table, NEW n \in SlotIds, NEW s \in Slot
  PROVE  /\ Put(t, n, s) \in Table
         /\ Put(t, n, s).active = t.active
         /\ \A m \in SlotIds : Put(t, n, s).slots[m] = IF m = n THEN s ELSE t.slots[m]
         /\ Registered(Put(t, n, s)) = Registered(t) \union {n}
<1>1. s # NoSlot
  BY SlotTableAssumption
<1>2. /\ Put(t, n, s).slots = [t.slots EXCEPT ![n] = s]
      /\ Put(t, n, s).active = t.active
      /\ Put(t, n, s) \in Table
  BY DEF Put, Table
<1>3. \A m \in SlotIds : Put(t, n, s).slots[m] = IF m = n THEN s ELSE t.slots[m]
  BY <1>2 DEF Table
<1>4. QED
  BY <1>1, <1>2, <1>3 DEF Registered

\* Setting a field of a registered slot keeps every slot's account.
LEMMA FieldsKeepAccounts ==
  ASSUME NEW t \in Table, NEW n \in Registered(t),
         NEW b \in BOOLEAN, NEW u \in Owner, NEW r,
         r \in {SetRevoked(t, n, b), SetBlock(t, n, u)}
  PROVE  /\ r \in Table
         /\ r.active = t.active
         /\ Registered(r) = Registered(t)
         /\ \A m \in Registered(t) : r.slots[m].uuid = t.slots[m].uuid
<1>1. n \in SlotIds /\ t.slots[n] \in Slot
  BY RegisteredIsSlot
<1> DEFINE s1 == [t.slots[n] EXCEPT !.revoked = b]
           s2 == [t.slots[n] EXCEPT !.block = u]
<1>2. /\ s1 \in Slot /\ s1.uuid = t.slots[n].uuid
      /\ s2 \in Slot /\ s2.uuid = t.slots[n].uuid
  BY <1>1 DEF Slot
<1>3. PICK s \in Slot : r = Put(t, n, s) /\ s.uuid = t.slots[n].uuid
  BY <1>2 DEF SetRevoked, SetBlock
<1>4. /\ r \in Table /\ r.active = t.active
      /\ Registered(r) = Registered(t) \union {n}
      /\ \A m \in SlotIds : r.slots[m] = IF m = n THEN s ELSE t.slots[m]
  BY <1>1, <1>3, PutChangesOneSlot
<1>5. Registered(t) \subseteq SlotIds
  BY DEF Registered
<1>6. QED
  BY <1>3, <1>4, <1>5

\* Moving the active marker touches no slot.
LEMMA ActivateKeepsSlots ==
  ASSUME NEW t \in Table, NEW n \in SlotIds \union {0}
  PROVE  /\ Activate(t, n) \in Table
         /\ Activate(t, n).active = n
         /\ Activate(t, n).slots = t.slots
         /\ Registered(Activate(t, n)) = Registered(t)
BY DEF Activate, Table, Registered

\* State.Remove drops the slot, keeps the others, and leaves no marker behind.
LEMMA RemoveDropsOneSlot ==
  ASSUME NEW t \in Table, NEW n \in SlotIds
  PROVE  /\ Remove(t, n) \in Table
         /\ Registered(Remove(t, n)) = Registered(t) \ {n}
         /\ \A m \in SlotIds \ {n} : Remove(t, n).slots[m] = t.slots[m]
         /\ Remove(t, n).active # n
         /\ Remove(t, n).active \in {t.active, 0}
BY SlotTableAssumption DEF Remove, Table, Registered, SlotIds

-----------------------------------------------------------------------------
(***************************************************************************)
(* The service's side.                                                     *)
(***************************************************************************)

\* The absent credential is none of the credentials the service issues.
LEMMA NoCredIsNoCred == NoCred \in Creds /\ NoCred \notin Cred
BY TokenServerAssumption DEF NoCred, Creds, Cred, Gens

\* Below the bound, the next credential of an account is one of the service's credentials.
LEMMA NextCredIsCred ==
  ASSUME ServerTypeOK, NEW a \in Accounts, issued[a] < MaxGen
  PROVE  NextCred(a) \in Cred /\ NextCred(a).acct = a
<1>1. issued[a] + 1 \in Gens
  BY TokenServerAssumption DEF ServerTypeOK, Gens
<1>2. QED
  BY <1>1 DEF NextCred, Cred

\* A sign-in (Config.Exchange) keeps the types of the service's variables.
LEMMA IssueTypes ==
  ASSUME ServerTypeOK, NEW a \in Accounts, Issue(a)
  PROVE  ServerTypeOK' /\ NextCred(a) \in Cred /\ NextCred(a).acct = a
<1>1. issued[a] + 1 \in Gens
  BY TokenServerAssumption DEF ServerTypeOK, Gens, Issue
<1>2. issued' \in [Accounts -> Gens \union {0}]
  BY <1>1 DEF ServerTypeOK, Issue
<1>3. unspent' \in [Accounts -> SUBSET Gens]
  BY <1>1 DEF ServerTypeOK, Issue
<1>4. QED
  BY <1>2, <1>3, NextCredIsCred DEF ServerTypeOK, Issue

\* A refresh at the service keeps the types of its variables.
LEMMA RotateTypes ==
  ASSUME ServerTypeOK, NEW c \in Cred, Rotate(c)
  PROVE  ServerTypeOK' /\ NextCred(c.acct) \in Cred /\ NextCred(c.acct).acct = c.acct
<1>1. c.acct \in Accounts
  BY DEF Cred
<1>2. issued[c.acct] + 1 \in Gens
  BY <1>1, TokenServerAssumption DEF ServerTypeOK, Gens, Rotate
<1>3. issued' \in [Accounts -> Gens \union {0}]
  BY <1>1, <1>2 DEF ServerTypeOK, Rotate
<1>4. unspent' \in [Accounts -> SUBSET Gens]
  BY <1>1, <1>2 DEF ServerTypeOK, Rotate
<1>5. QED
  BY <1>1, <1>3, <1>4, NextCredIsCred DEF ServerTypeOK, Rotate

\* So does a step that does not reach the service.
LEMMA UnchangedServerTypes ==
  ASSUME ServerTypeOK, UNCHANGED server
  PROVE  ServerTypeOK'
BY DEF ServerTypeOK, server

\* A refresh yields a credential of the same account, or none.
LEMMA RefreshKeepsAccount ==
  ASSUME ServerTypeOK, NEW c \in Cred, NEW out, Refresh(c, out)
  PROVE  /\ ServerTypeOK'
         /\ out \in Outcome
         /\ out.kind \in {"ok", "rejected", "failed"}
         /\ out.kind = "ok" => out.cred \in Cred /\ out.cred.acct = c.acct
<1>1. CASE Rotate(c) /\ out = Ok(NextCred(c.acct))
  BY <1>1, RotateTypes DEF Ok, Outcome
<1>2. CASE UNCHANGED server /\ out \in {Rejected, Failed}
  BY <1>2, UnchangedServerTypes DEF Rejected, Failed, Outcome
<1>3. CASE Rotate(c) /\ out = Failed
  BY <1>3, RotateTypes DEF Failed, Outcome
<1>4. QED
  BY <1>1, <1>2, <1>3 DEF Refresh

\* The service never takes one account's access token for another's.
LEMMA AnswersAreTrue ==
  ASSUME NEW c, NEW u \in Answers(c), u # NoAccount
  PROVE  u = c.acct
BY DEF Answers

\* What confirmOwner or a profile call returns is an account or nothing.
LEMMA AnswersAreOwners ==
  ASSUME NEW c \in Cred
  PROVE  Answers(c) \subseteq Owner
BY DEF Answers, Owner, Cred

\* The lapse of a token, or of a deadline, keeps the types of the service's variables.
LEMMA TimeTypes ==
  ASSUME ServerTypeOK, NEW a \in Accounts, Lapse(a) \/ Expire(a) \/ Outlast(a)
  PROVE  ServerTypeOK'
<1>1. CASE Lapse(a)
  <2>1. lapsed[a] + 1 \in Gens
    BY <1>1, TokenServerAssumption DEF ServerTypeOK, Lapse, Gens
  <2>2. QED
    BY <1>1, <2>1 DEF ServerTypeOK, Lapse
<1>2. CASE Expire(a)
  <2>1. ended[a] + 1 \in Gens
    BY <1>2, TokenServerAssumption DEF ServerTypeOK, Expire, Gens
  <2>2. unspent' \in [Accounts -> SUBSET Gens]
    BY <1>2 DEF ServerTypeOK, Expire
  <2>3. QED
    BY <1>2, <2>1, <2>2 DEF ServerTypeOK, Expire
<1>3. CASE Outlast(a)
  <2>1. ended[a] + 1 \in Gens
    BY <1>3, TokenServerAssumption DEF ServerTypeOK, Outlast, Gens
  <2>2. QED
    BY <1>3, <2>1 DEF ServerTypeOK, Outlast
<1>4. QED
  BY <1>1, <1>2, <1>3

\* Whatever deadline a credential is made to bear is one that some credential has.
LEMMA DeadlineTypes ==
  ASSUME TypeOK, NEW n \in SlotIds, NEW c \in Cred, PreserveRefreshExpiry(n, c)
  PROVE  until' \in [Cred -> Gens \union {0}]
<1>1. CASE kc[n] = NoCred
  BY <1>1 DEF PreserveRefreshExpiry, TypeOK
<1>2. CASE kc[n] # NoCred
  <2>1. kc[n] \in Cred
    BY <1>2 DEF TypeOK, Creds
  <2>2. QED
    BY <1>2, <2>1 DEF PreserveRefreshExpiry, TypeOK
<1>3. QED
  BY <1>1, <1>2

\* A refresh that may end in a recovery yields a credential that may be filed
\* under the slot if the one it renews may.
LEMMA RefreshOrRecoverFits ==
  ASSUME TypeOK, NEW n \in SlotIds, NEW c \in Cred, NEW out, RefreshOrRecover(n, c, out)
  PROVE  /\ ServerTypeOK' /\ until' \in [Cred -> Gens \union {0}]
         /\ out \in Outcome
         /\ out.kind \in {"ok", "recovered", "rejected", "failed"}
         /\ out.kind \in {"ok", "recovered"} => out.cred \in Cred
         /\ out.kind = "ok" => out.cred.acct = c.acct
         /\ out.kind \in {"ok", "recovered"} /\ Fits(c, n) => Fits(out.cred, n)
<1>1. ServerTypeOK
  BY DEF TypeOK
<1>2. CASE Refresh(c, out) /\ out # Rejected /\ UNCHANGED until
  <2>1. until' \in [Cred -> Gens \union {0}]
    BY <1>2 DEF TypeOK
  <2>2. QED
    BY <1>1, <1>2, <2>1, RefreshKeepsAccount DEF Fits
<1>3. CASE Refresh(c, Rejected) /\ Recover(n, c, out)
  <2>1. ServerTypeOK'
    BY <1>1, <1>3, RefreshKeepsAccount
  <2>2. CASE out = Rejected /\ UNCHANGED until
    BY <2>1, <2>2 DEF Rejected, Outcome, TypeOK
  <2>3. CASE ~(out = Rejected /\ UNCHANGED until)
    <3>1. PICK l \in LiveReads :
             /\ l # NoCred
             /\ mem.slots[n].uuid # NoAccount
             /\ mem.slots[n].uuid \in Answers(l)
             /\ PreserveRefreshExpiry(n, l)
             /\ out = Recovered(l)
      BY <1>3, <2>3 DEF Recover
    <3>2. l \in Cred
      BY <3>1 DEF TypeOK, LiveReads, Creds
    <3>3. mem.slots[n].uuid = l.acct
      BY <3>1, AnswersAreTrue
    <3>4. QED
      BY <2>1, <3>1, <3>2, <3>3, DeadlineTypes DEF Recovered, Outcome, Fits
  <2>4. QED
    BY <2>2, <2>3
<1>4. QED
  BY <1>2, <1>3 DEF RefreshOrRecover

-----------------------------------------------------------------------------
(***************************************************************************)
(* The initial state.                                                      *)
(***************************************************************************)

\* The table of a process that holds no lock is a table, with no slot.
LEMMA EmptyTableIsTable == EmptyTable \in Table /\ Registered(EmptyTable) = {}
BY DEF EmptyTable, Table, Registered

\* The first state.json is a table with exactly the slots of Start, each for its account.
LEMMA StartTableIsTable ==
  ASSUME NEW a \in Owner
  PROVE  /\ StartTable(a) \in Table
         /\ \A n \in Registered(StartTable(a)) : StartTable(a).slots[n].uuid = Start[n]
<1> DEFINE slots == [n \in SlotIds |->
                       IF Start[n] = NoAccount THEN NoSlot
                       ELSE [uuid |-> Start[n], block |-> Start[n], revoked |-> FALSE]]
           t == [active |-> 0, slots |-> slots]
           f == FindByAccountUUID(t, a)
<1>1. slots \in [SlotIds -> Slot \union {NoSlot}]
  BY ClaudeSwitchAssumption DEF Slot, Owner
<1>2. t \in Table
  BY <1>1 DEF Table
<1>3. f \in SlotIds \union {0}
  <2>1. f = 0 \/ f \in Registered(t)
    BY <1>2, FindReturnsOwnSlot
  <2>2. QED
    BY <2>1 DEF Registered
<1>4. StartTable(a) = [active |-> f, slots |-> slots]
  BY DEF StartTable
<1>5. QED
  BY <1>1, <1>3, <1>4 DEF Table, Registered

\* The initial states are well typed.
LEMMA InitTypeOK == Init => TypeOK
<1> SUFFICES ASSUME Init
             PROVE  TypeOK
  OBVIOUS
<1>1. PICK a \in Owner :
        /\ live = FirstCred(a)
        /\ config = a
        /\ disk = StartTable(a)
        /\ issued = [b \in Accounts |->
             IF b = a \/ \E n \in SlotIds : Start[n] = b THEN 1 ELSE 0]
        /\ unspent = [b \in Accounts |->
             IF b = a \/ \E n \in SlotIds : Start[n] = b THEN {1} ELSE {}]
  BY DEF Init
<1>2. \A b \in Owner : FirstCred(b) \in Creds
  BY ClaudeSwitchAssumption DEF FirstCred, Creds, Cred, Owner
<1>3. ServerTypeOK
  BY <1>1, ClaudeSwitchAssumption DEF Init, ServerTypeOK
<1>4. kc \in [SlotIds -> Creds]
  BY <1>2, ClaudeSwitchAssumption DEF Init
<1>5. disk \in Table /\ mem \in Table
  BY <1>1, StartTableIsTable, EmptyTableIsTable DEF Init
<1>6. got \in [SlotIds -> Outcome]
  BY DEF Init, NoCalls, Nothing, Outcome
<1>7. until \in [Cred -> Gens \union {0}]
  BY DEF Init, Cred
<1>8. QED
  BY <1>1, <1>2, <1>3, <1>4, <1>5, <1>6, <1>7, NoCredIsNoCred
     DEF Init, TypeOK, Steps, Owner, Creds

\* The initial states satisfy the inductive invariant: every item was filed by a sign-in.
LEMMA InitIInv == Init => IInv
<1> SUFFICES ASSUME Init
             PROVE  IInv
  OBVIOUS
<1>1. TypeOK
  BY InitTypeOK
<1>2. Registered(mem) = {}
  BY EmptyTableIsTable DEF Init
<1>3. Bookkeeping
  BY <1>2 DEF Init, Bookkeeping, NoCalls, Nothing
<1>4. \A n \in Registered(disk) : disk.slots[n].uuid = Start[n]
  BY StartTableIsTable DEF Init
<1>5. \A n \in SlotIds : kc[n] # NoCred => kc[n].acct = Start[n]
  BY DEF Init, FirstCred
<1>6. Ownership
  BY <1>2, <1>4, <1>5 DEF Init, Ownership, Owns, Registered, NoCalls, Nothing
<1>7. QED
  BY <1>1, <1>3, <1>6 DEF IInv

-----------------------------------------------------------------------------
(***************************************************************************)
(* Beginning and ending a command.                                         *)
(***************************************************************************)

\* New, which locks and loads state.json, keeps the invariant.
LEMMA BeginKeeps ==
  ASSUME IInv, NEW c \in Commands, NEW n \in SlotIds \union {0}, Begin(c, n)
  PROVE  IInv'
<1>1. TypeOK'
  BY ClaudeSwitchAssumption, UnchangedServerTypes
     DEF IInv, TypeOK, Begin, stores, Steps
<1>2. Bookkeeping'
  BY DEF IInv, Bookkeeping, Begin, stores, NoCalls, Nothing
<1>3. ~misled' => Ownership'
  BY DEF IInv, Ownership, Owns, Fits, Begin, stores, Bookkeeping, NoCalls, Nothing
<1>4. QED
  BY <1>1, <1>2, <1>3 DEF IInv

\* Wherever a command stops, whether or not it saved, what it leaves is sound.
LEMMA ExitKeeps ==
  ASSUME IInv, NEW p \in {"idle", "dead"}, Gone(p), ServerTypeOK', disk' \in {disk, mem},
         until' \in [Cred -> Gens \union {0}],
         UNCHANGED <<kc, live, config, sess, misled>>
  PROVE  IInv'
<1>1. TypeOK'
  BY EmptyTableIsTable, NoCredIsNoCred
     DEF IInv, TypeOK, Gone, Steps, NoCalls, Nothing, Outcome, Owner
<1>2. Bookkeeping'
  BY EmptyTableIsTable DEF Bookkeeping, Gone, NoCalls, Nothing
<1>3. ASSUME ~misled'
      PROVE  Ownership'
  <2>1. \A n \in SlotIds : Owns(disk, n)' /\ Owns(mem, n)'
    BY <1>3 DEF IInv, Ownership, Owns, Gone, EmptyTable
  <2>2. QED
    BY <2>1, EmptyTableIsTable DEF Ownership, Gone, NoCalls, Nothing
<1>4. QED
  BY <1>1, <1>2, <1>3 DEF IInv

\* A command that returns an error before it saved keeps the invariant.
LEMMA FailKeeps ==
  ASSUME IInv, Fail
  PROVE  IInv'
<1>1. ServerTypeOK'
  BY UnchangedServerTypes DEF IInv, TypeOK, Fail
<1>2. QED
  BY <1>1, ExitKeeps DEF IInv, TypeOK, Fail, Exit, stores

\* A death keeps the invariant, and so does the kernel's release of the lock.
LEMMA CrashKeeps ==
  ASSUME IInv, Crash \/ Release
  PROVE  IInv'
<1>1. ServerTypeOK'
  BY UnchangedServerTypes DEF IInv, TypeOK, Crash, Release
<1>2. CASE Crash
  BY <1>1, <1>2, ExitKeeps DEF IInv, TypeOK, Crash, stores
<1>3. CASE Release
  <2>1. TypeOK'
    BY <1>1, <1>3 DEF IInv, TypeOK, Release, stores, locals, Steps
  <2>2. Bookkeeping'
    BY <1>3 DEF IInv, Bookkeeping, Release, stores, locals
  <2>3. ~misled' => Ownership'
    BY <1>3 DEF IInv, Ownership, Owns, Fits, Release, stores, locals
  <2>4. QED
    BY <2>1, <2>2, <2>3 DEF IInv
<1>4. QED
  BY <1>2, <1>3

\* Save, whether the rename succeeds or not, keeps the invariant.
LEMMA SaveKeeps ==
  ASSUME IInv, Save
  PROVE  IInv'
<1>1. ServerTypeOK'
  BY UnchangedServerTypes DEF IInv, TypeOK, Save
<1>2. QED
  BY <1>1, ExitKeeps DEF IInv, TypeOK, Save, Exit

-----------------------------------------------------------------------------
(***************************************************************************)
(* SyncActive.                                                             *)
(***************************************************************************)

\* SyncActive's reads keep the invariant.
LEMMA SyncReadKeeps ==
  ASSUME IInv, SyncRead
  PROVE  IInv'
<1>1. PICK l \in LiveReads :
        \/ pc' = "act" /\ UNCHANGED <<seen, who>>
        \/ l # NoCred /\ pc' = "confirm" /\ seen' = l /\ who' = config
  BY DEF SyncRead
<1>2. l \in Creds
  BY NoCredIsNoCred DEF LiveReads, IInv, TypeOK
<1>3. TypeOK'
  BY <1>1, <1>2, UnchangedServerTypes DEF IInv, TypeOK, SyncRead, stores, Steps
<1>4. Bookkeeping'
  BY <1>1, <1>2 DEF IInv, Bookkeeping, SyncRead, stores, Creds
<1>5. ~misled' => Ownership'
  BY <1>1 DEF IInv, Ownership, Owns, Fits, SyncRead, stores
<1>6. QED
  BY <1>3, <1>4, <1>5 DEF IInv

\* adoptLiveInto changes one item and the flags of one slot, no slot's account.
LEMMA AdoptLiveIntoKeepsAccounts ==
  ASSUME TypeOK, seen \in Cred, NEW t \in Table, NEW n \in Registered(t),
         AdoptLiveInto(n, t)
  PROVE  /\ mem' \in Table /\ mem'.active = t.active
         /\ Registered(mem') = Registered(t)
         /\ \A m \in Registered(t) : mem'.slots[m].uuid = t.slots[m].uuid
         /\ kc' \in [SlotIds -> Creds] /\ until' \in [Cred -> Gens \union {0}]
         /\ \A m \in SlotIds : kc'[m] = kc[m] \/ (m = n /\ kc'[m] = seen)
<1>1. CASE mem' = t /\ UNCHANGED <<kc, until>>
  BY <1>1 DEF TypeOK
<1>2. CASE /\ kc' = [kc EXCEPT ![n] = seen] /\ PreserveRefreshExpiry(n, seen)
           /\ mem' \in {SetRevoked(t, n, FALSE), SetBlock(SetRevoked(t, n, FALSE), n, who)}
  <2> DEFINE s == SetRevoked(t, n, FALSE)
  <2>1. /\ s \in Table /\ s.active = t.active
        /\ Registered(s) = Registered(t)
        /\ \A m \in Registered(t) : s.slots[m].uuid = t.slots[m].uuid
    BY FieldsKeepAccounts DEF TypeOK, Owner
  <2>2. who \in Owner
    BY DEF TypeOK
  <2>3. /\ SetBlock(s, n, who) \in Table /\ SetBlock(s, n, who).active = s.active
        /\ Registered(SetBlock(s, n, who)) = Registered(s)
        /\ \A m \in Registered(s) : SetBlock(s, n, who).slots[m].uuid = s.slots[m].uuid
    <3> HIDE DEF s
    <3>1. n \in Registered(s)
      BY <2>1
    <3>2. QED
      BY <2>1, <2>2, <3>1, FieldsKeepAccounts
  <2>4. kc' \in [SlotIds -> Creds]
    BY <1>2 DEF TypeOK, Creds
  <2>5. \A m \in SlotIds : kc'[m] = kc[m] \/ (m = n /\ kc'[m] = seen)
    BY <1>2 DEF TypeOK
  <2> HIDE DEF s
  <2>6. mem' \in {s, SetBlock(s, n, who)}
    BY <1>2 DEF s
  <2>7. until' \in [Cred -> Gens \union {0}]
    BY <1>2, DeadlineTypes DEF Registered
  <2>8. QED
    BY <2>1, <2>3, <2>4, <2>5, <2>6, <2>7
<1>3. QED
  BY <1>1, <1>2 DEF AdoptLiveInto

\* The slot SyncActive picks for an account is one that its credential fits.
LEMMA SyncTargetFits ==
  ASSUME TypeOK, NEW u, NEW n, n = SyncTarget(u), n # 0
  PROVE  /\ n \in Registered(mem)
         /\ u # NoAccount => mem.slots[n].uuid \in {u, NoAccount}
<1>1. mem \in Table
  BY DEF TypeOK
<1>2. CASE n = FindByAccountUUID(mem, u)
  BY <1>1, <1>2, FindReturnsOwnSlot
<1>3. CASE /\ n = Active(mem)
           /\ u = NoAccount \/ mem.slots[n].uuid \in {NoAccount, u}
  BY <1>3, ActiveIsRegistered
<1>4. QED
  BY <1>2, <1>3 DEF SyncTarget

\* SyncActive's writes keep the invariant, whatever happened since its reads.
LEMMA SyncConfirmKeeps ==
  ASSUME IInv, SyncConfirm
  PROVE  IInv'
<1>1. TypeOK /\ Bookkeeping /\ pc = "confirm" /\ seen \in Cred /\ mem \in Table
  BY DEF IInv, SyncConfirm, Bookkeeping, TypeOK
<1>2. PICK answer \in Answers(seen) :
        LET n == SyncTarget(IF answer # NoAccount THEN answer ELSE who)
        IN /\ \/ n # 0 /\ AdoptLiveInto(n, Activate(mem, n))
              \/ n = 0 /\ mem' = Activate(mem, 0) /\ UNCHANGED <<kc, until>>
           /\ misled' = (misled \/ (answer = NoAccount /\ who # seen.acct))
  BY DEF SyncConfirm
<1> DEFINE n == SyncTarget(IF answer # NoAccount THEN answer ELSE who)
<1>3. /\ answer \in Answers(seen)
      /\ n = SyncTarget(IF answer # NoAccount THEN answer ELSE who)
      /\ \/ n # 0 /\ AdoptLiveInto(n, Activate(mem, n))
         \/ n = 0 /\ mem' = Activate(mem, 0) /\ UNCHANGED <<kc, until>>
      /\ misled' = (misled \/ (answer = NoAccount /\ who # seen.acct))
  BY <1>2
<1> HIDE DEF n
<1>4. /\ mem' \in Table
      /\ Registered(mem') = Registered(mem)
      /\ \A m \in Registered(mem) : mem'.slots[m].uuid = mem.slots[m].uuid
      /\ kc' \in [SlotIds -> Creds] /\ until' \in [Cred -> Gens \union {0}]
      /\ \A m \in SlotIds : kc'[m] = kc[m] \/ (m = n /\ n # 0 /\ kc'[m] = seen)
  <2>1. CASE n = 0
    BY <1>1, <1>3, <2>1, ActivateKeepsSlots DEF TypeOK
  <2>2. CASE n # 0
    <3>1. n \in Registered(mem)
      BY <1>1, <1>3, <2>2, SyncTargetFits
    <3>2. /\ Activate(mem, n) \in Table
          /\ Activate(mem, n).slots = mem.slots
          /\ Registered(Activate(mem, n)) = Registered(mem)
      BY <1>1, <3>1, ActivateKeepsSlots, RegisteredIsSlot
    <3>3. QED
      BY <1>1, <1>3, <2>2, <3>1, <3>2, AdoptLiveIntoKeepsAccounts
  <2>3. QED
    BY <2>1, <2>2
<1>5. TypeOK'
  BY <1>1, <1>3, <1>4, UnchangedServerTypes, NoCredIsNoCred
     DEF TypeOK, SyncConfirm, Steps, Owner
<1>6. Bookkeeping'
  BY <1>1, <1>4 DEF Bookkeeping, SyncConfirm, NoCalls, Nothing
<1>7. ASSUME ~misled'
      PROVE  Ownership'
  <2>1. Ownership /\ (IF answer # NoAccount THEN answer ELSE who) = seen.acct
    BY <1>3, <1>7, AnswersAreTrue DEF IInv
  <2>2. n # 0 => n \in Registered(mem) /\ mem.slots[n].uuid \in {seen.acct, NoAccount}
    <3>1. n = SyncTarget(seen.acct)
      BY <1>3, <2>1
    <3>2. seen.acct # NoAccount
      BY <1>1, IdentityAssumption DEF Cred
    <3>3. QED
      BY <1>1, <3>1, <3>2, SyncTargetFits
  <2>3. \A m \in SlotIds : Owns(disk, m)'
    BY <1>4, <2>1, <2>2 DEF Ownership, Owns, SyncConfirm, Registered
  <2>4. \A m \in SlotIds : Owns(mem, m)'
    BY <1>4, <2>1, <2>2 DEF Ownership, Owns, SyncConfirm, Registered
  <2>5. QED
    BY <1>1, <1>4, <2>1, <2>3, <2>4
       DEF Ownership, SyncConfirm, Bookkeeping, NoCalls, Nothing
<1>8. QED
  BY <1>5, <1>6, <1>7 DEF IInv

-----------------------------------------------------------------------------
(***************************************************************************)
(* switch and activate.                                                    *)
(***************************************************************************)

\* CmdSwitch's choice of a slot keeps the invariant.
LEMMA SwitchKeeps ==
  ASSUME IInv, Switch
  PROVE  IInv'
<1>1. CASE Fail
  BY <1>1, FailKeeps
<1>2. CASE /\ tgt \in Registered(mem)
           /\ pc' \in {"save", "ensure"}
           /\ UNCHANGED <<server, stores, sess, mem, locals, misled, until>>
  <2>1. TypeOK'
    BY <1>2, UnchangedServerTypes DEF IInv, TypeOK, stores, locals, Steps
  <2>2. Bookkeeping'
    BY <1>2 DEF IInv, Bookkeeping, Switch, stores, locals
  <2>3. ~misled' => Ownership'
    BY <1>2 DEF IInv, Ownership, Owns, Fits, stores, locals
  <2>4. QED
    BY <2>1, <2>2, <2>3 DEF IInv
<1>3. QED
  BY <1>1, <1>2 DEF Switch

\* EnsureFresh up to its call keeps the invariant: what it read fits the slot.
LEMMA EnsureFreshKeeps ==
  ASSUME IInv, EnsureFresh
  PROVE  IInv'
<1>1. CASE Fail
  BY <1>1, FailKeeps
<1>2. CASE ~Fail
  <2>1. PICK c \in SlotReads(tgt) :
          /\ c # NoCred /\ env' = c
          /\ pc' \in {"rotate", "install"}
          /\ UNCHANGED <<server, stores, sess, cmd, mem, tgt, seen, who, todo, got, misled, until>>
    BY <1>2 DEF EnsureFresh
  <2>2. tgt \in Registered(mem) /\ tgt \in SlotIds
    BY DEF IInv, Bookkeeping, EnsureFresh, Registered
  <2>3. c \in Cred /\ c = kc[tgt]
    BY <2>1, <2>2 DEF IInv, TypeOK, SlotReads, Creds
  <2>4. TypeOK'
    BY <2>1, <2>3, UnchangedServerTypes DEF IInv, TypeOK, stores, Steps, Creds
  <2>5. Bookkeeping'
    BY <2>1, <2>2, <2>3 DEF IInv, Bookkeeping, EnsureFresh, stores
  <2>6. ~misled' => Ownership'
    BY <2>1, <2>2, <2>3 DEF IInv, Ownership, Owns, Fits, EnsureFresh, stores, Registered
  <2>7. QED
    BY <2>4, <2>5, <2>6 DEF IInv
<1>3. QED
  BY <1>1, <1>2

\* EnsureFresh's call keeps the invariant: what it renewed or recovered fits the slot.
LEMMA EnsureFreshCallKeeps ==
  ASSUME IInv, EnsureFreshCall
  PROVE  IInv'
<1>1. PICK out \in Outcome :
        /\ RefreshOrRecover(tgt, env, out)
        /\ \/ /\ out.kind \in {"ok", "recovered"}
              /\ env' = out.cred
              /\ pc' = "park"
              /\ UNCHANGED <<cmd, mem, tgt, seen, who, todo, got>>
           \/ pc' = "install" /\ UNCHANGED <<mem, locals>>
           \/ Exit
  BY DEF EnsureFreshCall
<1>2. /\ TypeOK /\ pc = "rotate" /\ env \in Cred
      /\ tgt \in Registered(mem) /\ tgt \in SlotIds
  BY DEF IInv, EnsureFreshCall, Bookkeeping, Registered
<1>3. /\ ServerTypeOK' /\ until' \in [Cred -> Gens \union {0}]
      /\ out.kind \in {"ok", "recovered"} => out.cred \in Cred
      /\ out.kind \in {"ok", "recovered"} /\ Fits(env, tgt) => Fits(out.cred, tgt)
  BY <1>1, <1>2, RefreshOrRecoverFits
<1>4. CASE Exit
  BY <1>3, <1>4, ExitKeeps DEF EnsureFreshCall, Exit, stores
<1>5. CASE /\ out.kind \in {"ok", "recovered"}
           /\ env' = out.cred
           /\ pc' = "park"
           /\ UNCHANGED <<cmd, mem, tgt, seen, who, todo, got>>
  <2>1. TypeOK'
    BY <1>2, <1>3, <1>5 DEF EnsureFreshCall, TypeOK, stores, Steps, Creds
  <2>2. Bookkeeping'
    BY <1>2, <1>3, <1>5 DEF IInv, Bookkeeping, EnsureFreshCall, stores
  <2>3. ~misled' => Ownership'
    BY <1>2, <1>3, <1>5 DEF IInv, Ownership, Owns, Fits, EnsureFreshCall, stores
  <2>4. QED
    BY <2>1, <2>2, <2>3 DEF IInv
<1>6. CASE pc' = "install" /\ UNCHANGED <<mem, locals>>
  <2>1. TypeOK'
    BY <1>2, <1>3, <1>6 DEF EnsureFreshCall, TypeOK, stores, locals, Steps
  <2>2. Bookkeeping'
    BY <1>2, <1>6 DEF IInv, Bookkeeping, EnsureFreshCall, stores, locals
  <2>3. ~misled' => Ownership'
    BY <1>2, <1>6 DEF IInv, Ownership, Owns, Fits, EnsureFreshCall, stores, locals
  <2>4. QED
    BY <2>1, <2>2, <2>3 DEF IInv
<1>7. QED
  BY <1>1, <1>4, <1>5, <1>6

\* Filing a credential that fits slot n of the command's table, and giving the
\* slot a record of the same account, keeps every slot's credential its own.
LEMMA FilingKeepsOwns ==
  ASSUME TypeOK, Ownership, NEW n \in Registered(mem), NEW c \in Cred, Fits(c, n),
         kc' = [kc EXCEPT ![n] = c], disk' = disk,
         mem' \in Table, Registered(mem') = Registered(mem),
         mem'.slots[n].uuid \in {c.acct, NoAccount},
         \A m \in Registered(mem) \ {n} : mem'.slots[m].uuid = mem.slots[m].uuid
  PROVE  \A m \in SlotIds : Owns(disk, m)' /\ Owns(mem, m)'
<1>1. n \in SlotIds /\ kc \in [SlotIds -> Creds]
  BY DEF Registered, TypeOK
<1>2. SUFFICES ASSUME NEW m \in SlotIds
               PROVE  Owns(disk, m)' /\ Owns(mem, m)'
  OBVIOUS
<1>3. CASE m = n
  BY <1>1, <1>3 DEF Ownership, Owns, Fits, Registered
<1>4. CASE m # n
  <2>1. kc'[m] = kc[m]
    BY <1>1, <1>4
  <2>2. Owns(disk, m)'
    BY <2>1 DEF Ownership, Owns
  <2>3. Owns(mem, m)'
    BY <2>1, <1>4 DEF Ownership, Owns, Registered
  <2>4. QED
    BY <2>2, <2>3
<1>5. QED
  BY <1>3, <1>4

\* Parking the renewed credential keeps the invariant.
LEMMA EnsureFreshStoreKeeps ==
  ASSUME IInv, EnsureFreshStore
  PROVE  IInv'
<1>1. CASE Fail
  BY <1>1, FailKeeps
<1>2. CASE /\ kc' = [kc EXCEPT ![tgt] = env]
           /\ mem' = SetRevoked(mem, tgt, FALSE)
           /\ pc' = "install"
           /\ UNCHANGED <<server, live, config, disk, sess, locals, misled, until>>
  <2>1. /\ TypeOK /\ pc = "park" /\ env \in Cred /\ mem \in Table
        /\ tgt \in Registered(mem) /\ tgt \in SlotIds
    BY DEF IInv, TypeOK, EnsureFreshStore, Bookkeeping, Registered
  <2>2. /\ mem' \in Table
        /\ Registered(mem') = Registered(mem)
        /\ \A m \in Registered(mem) : mem'.slots[m].uuid = mem.slots[m].uuid
    BY <1>2, <2>1, FieldsKeepAccounts DEF Owner
  <2>3. TypeOK'
    BY <1>2, <2>1, <2>2, UnchangedServerTypes DEF TypeOK, locals, Steps, Creds
  <2>4. Bookkeeping'
    <3>1. todo' = {} /\ got' = NoCalls /\ \A m \in SlotIds : got'[m].kind = "none"
      BY <1>2, <2>1 DEF IInv, Bookkeeping, locals, NoCalls, Nothing
    <3>2. QED
      BY <1>2, <2>1, <2>2, <3>1 DEF IInv, Bookkeeping, locals
  <2>5. ASSUME ~misled'
        PROVE  Ownership'
    <3>1. Ownership /\ Fits(env, tgt)
      BY <1>2, <2>1, <2>5 DEF IInv, Ownership
    <3>2. \A m \in SlotIds : Owns(disk, m)' /\ Owns(mem, m)'
      BY <1>2, <2>1, <2>2, <3>1, FilingKeepsOwns DEF Fits
    <3>3. \A m \in Registered(disk)' \intersect Registered(mem)' :
            disk'.slots[m].uuid # NoAccount => mem'.slots[m].uuid = disk'.slots[m].uuid
      BY <1>2, <2>2, <3>1 DEF Ownership
    <3>4. \A m \in SlotIds : got'[m].kind \notin {"ok", "recovered"}
      BY <1>2, <2>1 DEF IInv, Bookkeeping, locals, NoCalls, Nothing
    <3>5. QED
      BY <1>2, <3>2, <3>3, <3>4 DEF Ownership
  <2>6. QED
    BY <2>3, <2>4, <2>5 DEF IInv
<1>3. QED
  BY <1>1, <1>2 DEF EnsureFreshStore

\* Ownership does not look at markers, account blocks or flags: a table with the
\* same slots of the same accounts will do as well.
LEMMA SameAccountsKeepOwns ==
  ASSUME Ownership, Registered(mem') = Registered(mem), UNCHANGED <<kc, disk>>,
         \A m \in Registered(mem) : mem'.slots[m].uuid = mem.slots[m].uuid
  PROVE  /\ \A m \in SlotIds : Owns(disk, m)' /\ Owns(mem, m)'
         /\ \A m \in Registered(disk)' \intersect Registered(mem)' :
              disk'.slots[m].uuid # NoAccount => mem'.slots[m].uuid = disk'.slots[m].uuid
<1>1. \A m \in SlotIds : Owns(disk, m)'
  BY DEF Ownership, Owns
<1>2. \A m \in SlotIds : Owns(mem, m)'
  BY DEF Ownership, Owns, Registered
<1>3. QED
  BY <1>1, <1>2 DEF Ownership

\* activate's write of the live item keeps the invariant: only an account block moves.
LEMMA InstallKeeps ==
  ASSUME IInv, Install
  PROVE  IInv'
<1>1. CASE Fail
  BY <1>1, FailKeeps
<1>2. CASE /\ live' = env
           /\ \/ mem' = mem
              \/ Active(mem) # 0 /\ mem' = SetBlock(mem, Active(mem), config)
           /\ pc' = "point" /\ env' = NoCred
           /\ UNCHANGED <<server, kc, config, disk, sess, cmd, tgt, seen, who, todo,
                          got, misled, until>>
  <2>1. TypeOK /\ pc = "install" /\ env \in Cred /\ mem \in Table /\ config \in Owner
    BY DEF IInv, TypeOK, Install, Bookkeeping
  <2>2. /\ mem' \in Table
        /\ Registered(mem') = Registered(mem)
        /\ \A m \in Registered(mem) : mem'.slots[m].uuid = mem.slots[m].uuid
    <3>1. CASE mem' = mem
      BY <2>1, <3>1
    <3>2. CASE Active(mem) # 0 /\ mem' = SetBlock(mem, Active(mem), config)
      <4>1. Active(mem) \in Registered(mem)
        BY <3>2, ActiveIsRegistered
      <4>2. PICK t : t = SetBlock(mem, Active(mem), config)
        OBVIOUS
      <4>3. /\ t \in Table
            /\ Registered(t) = Registered(mem)
            /\ \A m \in Registered(mem) : t.slots[m].uuid = mem.slots[m].uuid
        BY <2>1, <4>1, <4>2, FieldsKeepAccounts
      <4>4. QED
        BY <3>2, <4>2, <4>3
    <3>3. QED
      BY <1>2, <3>1, <3>2
  <2>3. TypeOK'
    BY <1>2, <2>1, <2>2, UnchangedServerTypes DEF TypeOK, Steps, Creds
  <2>4. Bookkeeping'
    BY <1>2, <2>1, <2>2 DEF IInv, Bookkeeping
  <2>5. ASSUME ~misled'
        PROVE  Ownership'
    <3>1. Ownership
      BY <1>2, <2>5 DEF IInv
    <3>2. \A m \in SlotIds : got'[m].kind \notin {"ok", "recovered"}
      BY <1>2, <2>1 DEF IInv, Bookkeeping, NoCalls, Nothing
    <3>3. QED
      BY <1>2, <2>2, <3>1, <3>2, SameAccountsKeepOwns DEF Ownership
  <2>6. QED
    BY <2>3, <2>4, <2>5 DEF IInv
<1>3. QED
  BY <1>1, <1>2 DEF Install

\* activate's move of the marker keeps the invariant.
LEMMA PointKeeps ==
  ASSUME IInv, Point
  PROVE  IInv'
<1>1. /\ TypeOK /\ pc = "point" /\ mem \in Table
      /\ tgt \in Registered(mem) /\ tgt \in SlotIds
  BY DEF IInv, TypeOK, Point, Bookkeeping, Registered
<1>2. mem' \in Table /\ mem'.slots = mem.slots /\ Registered(mem') = Registered(mem)
  BY <1>1, ActivateKeepsSlots DEF Point
<1>3. config' \in Owner
  <2>1. mem.slots[tgt].block \in Owner
    BY <1>1 DEF Table, Registered, Slot
  <2>2. QED
    BY <1>1, <2>1 DEF Point, TypeOK
<1>4. TypeOK'
  BY <1>1, <1>2, <1>3, UnchangedServerTypes DEF TypeOK, Point, locals, Steps
<1>5. Bookkeeping'
  BY <1>1, <1>2 DEF IInv, Bookkeeping, Point, locals
<1>6. ASSUME ~misled'
      PROVE  Ownership'
  <2>1. Ownership
    BY <1>6 DEF IInv, Point
  <2>2. \A m \in SlotIds : got'[m].kind \notin {"ok", "recovered"}
    BY <1>1 DEF IInv, Bookkeeping, Point, locals, NoCalls, Nothing
  <2>3. QED
    BY <1>2, <2>1, <2>2, SameAccountsKeepOwns DEF Ownership, Point
<1>7. QED
  BY <1>4, <1>5, <1>6 DEF IInv

-----------------------------------------------------------------------------
(***************************************************************************)
(* The refresh pass.                                                       *)
(***************************************************************************)

\* A pass starts with calls for registered slots that have a credential.
LEMMA CallsKeeps ==
  ASSUME IInv, pc = "act", NEW due \in SUBSET Registered(mem),
         NEW dead \in SUBSET Registered(mem),
         \A n \in due : kc[n] \in Cred, Calls(due, dead)
  PROVE  IInv'
<1>1. got' = [n \in SlotIds |-> IF n \in dead THEN Rejected ELSE Nothing]
  BY DEF Calls
<1>2. TypeOK'
  BY <1>1, UnchangedServerTypes
     DEF Calls, IInv, TypeOK, stores, Steps, Registered, Outcome
<1>3. Bookkeeping'
  BY <1>1 DEF Calls, IInv, Bookkeeping, stores, Rejected, Nothing
<1>4. ~misled' => Ownership'
  BY <1>1 DEF Calls, IInv, Ownership, Owns, Fits, stores, Rejected, Nothing
<1>5. QED
  BY <1>2, <1>3, <1>4 DEF IInv

\* CmdRefresh's choice of slots keeps the invariant.
LEMMA PlanRefreshKeeps ==
  ASSUME IInv, PlanRefresh
  PROVE  IInv'
<1>1. CASE Fail
  BY <1>1, FailKeeps
<1>2. CASE ~Fail
  <2>1. PICK due \in SUBSET {n \in Registered(mem) : kc[n] # NoCred} :
          Calls(due \ {n \in due : Expired(n)}, {n \in due : Expired(n)})
    BY <1>2 DEF PlanRefresh
  <2>2. \A n \in due : kc[n] \in Cred
    BY DEF IInv, TypeOK, Creds, Registered
  <2>3. QED
    BY <2>1, <2>2, CallsKeeps DEF PlanRefresh
<1>3. QED
  BY <1>1, <1>2

\* AutoRefresh's choice of slots keeps the invariant.
LEMMA PlanAutoKeeps ==
  ASSUME IInv, PlanAuto
  PROVE  IInv'
<1>1. CASE Fail
  BY <1>1, FailKeeps
<1>2. CASE ~Fail
  <2>1. PICK due \in SUBSET {n \in Registered(mem) : kc[n] # NoCred} : Calls(due, {})
    BY <1>2 DEF PlanAuto
  <2>2. \A n \in due : kc[n] \in Cred
    BY DEF IInv, TypeOK, Creds, Registered
  <2>3. QED
    BY <2>1, <2>2, CallsKeeps DEF PlanAuto
<1>3. QED
  BY <1>1, <1>2

\* checkSlots' choice of slots keeps the invariant.
LEMMA PlanCleanKeeps ==
  ASSUME IInv, PlanClean
  PROVE  IInv'
<1>1. PICK missing \in SUBSET Registered(mem) :
        /\ \A n \in Registered(mem) \ missing : kc[n] # NoCred
        /\ LET dead == missing \union {n \in Registered(mem) \ missing : Expired(n)}
           IN Calls(Registered(mem) \ dead, dead)
  BY DEF PlanClean
<1> DEFINE dead == missing \union {n \in Registered(mem) \ missing : Expired(n)}
<1>2. \A n \in Registered(mem) \ dead : kc[n] \in Cred
  BY <1>1 DEF IInv, TypeOK, Creds, Registered
<1>3. QED
  BY <1>1, <1>2, CallsKeeps DEF PlanClean

\* A goroutine that comes back keeps the invariant: its outcome fits its slot.
LEMMA CallKeeps ==
  ASSUME IInv, NEW n \in SlotIds, Call(n)
  PROVE  IInv'
<1>1. PICK out \in Outcome :
        /\ \/ out = Nothing /\ UNCHANGED server /\ UNCHANGED until
           \/ Refresh(kc[n], out) /\ UNCHANGED until
           \/ RefreshOrRecover(n, kc[n], out)
        /\ got' = [got EXCEPT ![n] = out]
  BY DEF Call
<1>2. /\ TypeOK /\ Bookkeeping /\ ServerTypeOK /\ pc = "calls" /\ n \in todo
      /\ n \in Registered(mem) /\ kc[n] \in Cred
  BY DEF IInv, TypeOK, Call, Bookkeeping
<1>3. /\ ServerTypeOK' /\ until' \in [Cred -> Gens \union {0}]
      /\ out.kind = "ok" => out.cred.acct = kc[n].acct
      /\ out.kind \in {"ok", "recovered"} /\ Fits(kc[n], n) => Fits(out.cred, n)
  <2>1. CASE out = Nothing /\ UNCHANGED server /\ UNCHANGED until
    BY <1>2, <2>1, UnchangedServerTypes DEF Nothing, TypeOK
  <2>2. CASE Refresh(kc[n], out) /\ UNCHANGED until
    BY <1>2, <2>2, RefreshKeepsAccount DEF Fits, TypeOK
  <2>3. CASE RefreshOrRecover(n, kc[n], out)
    BY <1>2, <2>3, RefreshOrRecoverFits
  <2>4. QED
    BY <1>1, <2>1, <2>2, <2>3
<1>4. TypeOK'
  BY <1>1, <1>2, <1>3 DEF TypeOK, Call, stores
<1>5. Bookkeeping'
  BY <1>1, <1>2, <1>3 DEF Bookkeeping, Call, stores, TypeOK
<1>6. ASSUME ~misled'
      PROVE  Ownership'
  <2>1. Ownership /\ Fits(kc[n], n)
    BY <1>2, <1>6, NoCredIsNoCred DEF IInv, Call, Ownership, Owns, Fits, Registered
  <2>2. \A m \in SlotIds : got'[m].kind \in {"ok", "recovered"} => Fits(got'[m].cred, m)
    BY <1>1, <1>2, <1>3, <2>1 DEF Ownership, TypeOK
  <2>3. QED
    BY <2>1, <2>2 DEF Ownership, Owns, Fits, Call, stores
<1>7. QED
  BY <1>4, <1>5, <1>6 DEF IInv

\* What a good refresh of slot n makes of the table: the slot may now be
\* registered for the credential's account, the others stay as they are.
LEMMA RenamedKeepsOthers ==
  ASSUME mem \in Table, NEW n \in Registered(mem), NEW c \in Cred,
         NEW t \in Renamed(n, c) \union {mem}
  PROVE  /\ t \in Table
         /\ t.active = mem.active
         /\ Registered(t) = Registered(mem)
         /\ t.slots[n].uuid \in {mem.slots[n].uuid, c.acct}
         /\ \A m \in Registered(mem) \ {n} : t.slots[m].uuid = mem.slots[m].uuid
<1>1. n \in SlotIds /\ mem.slots[n] \in Slot /\ c.acct \in Owner
  BY RegisteredIsSlot DEF Cred, Owner
<1>2. PICK s \in Slot : s = [mem.slots[n] EXCEPT !.uuid = c.acct] /\ s.uuid = c.acct
  <2>1. ASSUME NEW r \in Slot, NEW u \in Owner
        PROVE  [r EXCEPT !.uuid = u] \in Slot /\ [r EXCEPT !.uuid = u].uuid = u
    BY DEF Slot
  <2>2. QED
    BY <1>1, <2>1
<1>3. PICK named \in Table :
        /\ named = Put(mem, n, s)
        /\ named.active = mem.active
        /\ Registered(named) = Registered(mem) \union {n}
        /\ \A m \in SlotIds : named.slots[m] = IF m = n THEN s ELSE mem.slots[m]
  BY <1>1, PutChangesOneSlot
<1>4. PICK b : b = SetBlock(named, n, c.acct)
  OBVIOUS
<1>5. /\ b \in Table
      /\ b.active = named.active
      /\ Registered(b) = Registered(named)
      /\ \A m \in Registered(named) : b.slots[m].uuid = named.slots[m].uuid
  <2>1. PICK u \in Owner : u = c.acct
    BY <1>1
  <2>2. n \in Registered(named) /\ b = SetBlock(named, n, u)
    BY <1>3, <1>4, <2>1
  <2>3. b \in {SetRevoked(named, n, TRUE), SetBlock(named, n, u)}
    BY <2>2
  <2>4. QED
    BY <2>2, <2>3, FieldsKeepAccounts
<1>6. t \in {mem, named, b}
  BY <1>2, <1>3, <1>4 DEF Renamed
<1>7. CASE t = mem
  BY <1>7
<1>8. CASE t = named
  BY <1>1, <1>2, <1>3, <1>8 DEF Registered
<1>9. CASE t = b
  BY <1>1, <1>2, <1>3, <1>5, <1>9 DEF Registered
<1>10. QED
  BY <1>6, <1>7, <1>8, <1>9

\* Applying an outcome takes it off the list and nothing else.
LEMMA ApplyTypes ==
  ASSUME IInv, NEW n \in SlotIds, Apply(n)
  PROVE  /\ ServerTypeOK'
         /\ got' \in [SlotIds -> Outcome]
         /\ got'[n] = Nothing
         /\ \A m \in SlotIds \ {n} : got'[m] = got[m]
BY UnchangedServerTypes DEF IInv, TypeOK, Apply, Nothing, Outcome

\* Refresh's write of a renewed credential keeps the invariant.
LEMMA ApplyRenewedKeeps ==
  ASSUME IInv, NEW n \in SlotIds, ApplyRenewed(n)
  PROVE  IInv'
<1> DEFINE c == got[n].cred
<1>1. /\ TypeOK /\ Bookkeeping /\ pc = "calls" /\ todo = {} /\ todo' = {}
      /\ mem \in Table /\ kc \in [SlotIds -> Creds]
      /\ n \in Registered(mem) /\ c \in Cred
      /\ got[n].kind = "ok" => c.acct = kc[n].acct
  BY DEF IInv, TypeOK, Bookkeeping, ApplyRenewed, Apply, Outcome, Rejected, Failed, Nothing
<1>2. PICK t \in Renamed(n, c) \union {mem} :
        /\ got[n].kind = "ok" \/ t = mem
        /\ \/ /\ kc' = [kc EXCEPT ![n] = c]
              /\ mem' = SetRevoked(t, n, FALSE)
              /\ \/ env' = c /\ pc' = "mirror"
                 \/ UNCHANGED <<env, pc>>
           \/ mem' = t /\ UNCHANGED <<kc, env, pc>>
  BY DEF ApplyRenewed, Renamed
<1>3. /\ t \in Table
      /\ Registered(t) = Registered(mem)
      /\ t.slots[n].uuid \in {mem.slots[n].uuid, c.acct}
      /\ \A m \in Registered(mem) \ {n} : t.slots[m].uuid = mem.slots[m].uuid
  BY <1>1, RenamedKeepsOthers
<1>4. PICK r : r = SetRevoked(t, n, FALSE)
  OBVIOUS
<1>5. /\ r \in Table
      /\ Registered(r) = Registered(t)
      /\ \A m \in Registered(t) : r.slots[m].uuid = t.slots[m].uuid
  BY <1>1, <1>3, <1>4, FieldsKeepAccounts DEF Owner
<1>6. /\ mem' \in Table
      /\ Registered(mem') = Registered(mem)
      /\ mem'.slots[n].uuid \in {mem.slots[n].uuid, c.acct}
      /\ \A m \in Registered(mem) \ {n} : mem'.slots[m].uuid = mem.slots[m].uuid
  BY <1>1, <1>2, <1>3, <1>4, <1>5
<1>7. TypeOK'
  BY <1>1, <1>2, <1>6, ApplyTypes DEF TypeOK, ApplyRenewed, Apply, Steps, Creds
<1>8. Bookkeeping'
  BY <1>1, <1>2, <1>6, ApplyTypes DEF Bookkeeping, ApplyRenewed, Apply, Nothing
<1>9. ASSUME ~misled'
      PROVE  Ownership'
  <2>1. Ownership /\ Fits(c, n) /\ disk' = disk
    BY <1>9 DEF IInv, Ownership, ApplyRenewed, Apply
  <2>2. mem'.slots[n].uuid \in {c.acct, NoAccount}
    BY <1>6, <2>1 DEF Fits
  <2>3. \A m \in SlotIds : Owns(disk, m)' /\ Owns(mem, m)'
    <3>1. CASE kc' = [kc EXCEPT ![n] = c]
      <4> HIDE DEF c
      <4>1. QED
        BY <1>1, <1>6, <2>1, <2>2, <3>1, FilingKeepsOwns
    <3>2. CASE mem' = t /\ UNCHANGED kc
      <4>1. Owns(mem, n)'
        BY <1>1, <1>2, <1>3, <2>1, <3>2 DEF Ownership, Owns, Registered
      <4>2. \A m \in SlotIds : Owns(disk, m)'
        BY <2>1, <3>2 DEF Ownership, Owns
      <4>3. \A m \in SlotIds \ {n} : Owns(mem, m)'
        BY <1>6, <2>1, <3>2 DEF Ownership, Owns, Registered
      <4>4. QED
        BY <4>1, <4>2, <4>3
    <3>3. QED
      BY <1>2, <3>1, <3>2
  <2>4. \A m \in Registered(disk)' \intersect Registered(mem)' :
          disk'.slots[m].uuid # NoAccount => mem'.slots[m].uuid = disk'.slots[m].uuid
    BY <1>1, <1>6, <2>1 DEF Ownership, Fits
  <2>5. \A m \in SlotIds : got'[m].kind \in {"ok", "recovered"} => Fits(got[m].cred, m)'
    BY <1>6, <2>1, ApplyTypes DEF IInv, Bookkeeping, Ownership, Fits, Nothing, ApplyRenewed
  <2>6. pc' \in {"mirror", "calls"}
    BY <1>1, <1>2
  <2>7. QED
    BY <2>3, <2>4, <2>5, <2>6 DEF Ownership
<1>10. QED
  BY <1>7, <1>8, <1>9 DEF IInv

\* A step of the pass that files nothing, and leaves the slots' accounts alone.
LEMMA PassKeeps ==
  ASSUME IInv, pc \in {"calls", "mirror"}, pc' \in {"calls", "save"}, todo' = {},
         ServerTypeOK', live' \in Creds, env' \in Creds, got' \in [SlotIds -> Outcome],
         \A m \in SlotIds : got'[m] \in {got[m], Nothing},
         pc' = "save" => got' = NoCalls,
         mem' \in Table, Registered(mem') = Registered(mem),
         \A m \in Registered(mem) : mem'.slots[m].uuid = mem.slots[m].uuid,
         UNCHANGED <<kc, config, disk, sess, cmd, tgt, seen, who, misled, until>>
  PROVE  IInv'
<1>1. TypeOK'
  BY DEF IInv, TypeOK, Steps
<1>2. Bookkeeping'
  BY DEF IInv, Bookkeeping, Nothing
<1>3. ASSUME ~misled'
      PROVE  Ownership'
  <2>1. Ownership
    BY <1>3 DEF IInv
  <2>2. \A m \in SlotIds : got'[m].kind \in {"ok", "recovered"} => Fits(got[m].cred, m)'
    BY <2>1 DEF IInv, Bookkeeping, Ownership, Fits, Nothing
  <2>3. QED
    BY <2>1, <2>2, SameAccountsKeepOwns DEF Ownership
<1>4. QED
  BY <1>1, <1>2, <1>3 DEF IInv

\* Passing over a failed call keeps the invariant.
LEMMA ApplyFailedKeeps ==
  ASSUME IInv, NEW n \in SlotIds, ApplyFailed(n)
  PROVE  IInv'
<1>1. TypeOK /\ ServerTypeOK'
  BY ApplyTypes DEF IInv, ApplyFailed
<1>2. got' \in [SlotIds -> Outcome] /\ \A m \in SlotIds : got'[m] \in {got[m], Nothing}
  BY ApplyTypes DEF ApplyFailed
<1>3. QED
  BY <1>1, <1>2, PassKeeps DEF TypeOK, ApplyFailed, Apply

\* Marking a slot revoked keeps the invariant.
LEMMA ApplyRejectedKeeps ==
  ASSUME IInv, NEW n \in SlotIds, ApplyRejected(n)
  PROVE  IInv'
<1>1. TypeOK /\ ServerTypeOK' /\ mem \in Table /\ n \in Registered(mem)
  BY ApplyTypes DEF IInv, TypeOK, Bookkeeping, ApplyRejected
<1>2. got' \in [SlotIds -> Outcome] /\ \A m \in SlotIds : got'[m] \in {got[m], Nothing}
  BY ApplyTypes DEF ApplyRejected
<1>3. /\ mem' \in Table
      /\ Registered(mem') = Registered(mem)
      /\ \A m \in Registered(mem) : mem'.slots[m].uuid = mem.slots[m].uuid
  BY <1>1, FieldsKeepAccounts DEF ApplyRejected, Owner
<1>4. QED
  BY <1>1, <1>2, <1>3, PassKeeps DEF TypeOK, ApplyRejected, Apply

\* Refresh's write of the live item keeps the invariant.
LEMMA MirrorKeeps ==
  ASSUME IInv, Mirror
  PROVE  IInv'
<1>1. TypeOK /\ todo = {} /\ pc = "mirror"
  BY DEF IInv, Bookkeeping, Mirror
<1>2. ServerTypeOK' /\ live' \in Creds
  BY <1>1, UnchangedServerTypes DEF TypeOK, Mirror
<1>3. QED
  BY <1>1, <1>2, PassKeeps, NoCredIsNoCred DEF TypeOK, Mirror

\* Where no call was rejected and none is left to apply, none is left at all.
LEMMA NothingLeft ==
  ASSUME TypeOK, Pending = {}, Dead = {}
  PROVE  got = NoCalls
<1>1. \A n \in SlotIds : got[n].kind \notin {"ok", "recovered", "failed", "rejected"}
  BY DEF Pending, Dead
<1>2. \A n \in SlotIds : got[n] = Nothing
  BY <1>1 DEF TypeOK, Outcome, Rejected, Failed, Nothing
<1>3. QED
  BY <1>2 DEF TypeOK, NoCalls

\* The end of the pass, where clean marks its dead slots, keeps the invariant.
LEMMA CallsDoneKeeps ==
  ASSUME IInv, CallsDone
  PROVE  IInv'
<1>1. TypeOK /\ pc = "calls" /\ todo = {} /\ Pending = {} /\ mem \in Table
  BY DEF IInv, TypeOK, CallsDone
<1>2. \A n \in Dead \intersect Registered(mem) :
        /\ [mem.slots[n] EXCEPT !.revoked = TRUE] \in Slot
        /\ [mem.slots[n] EXCEPT !.revoked = TRUE].uuid = mem.slots[n].uuid
  <2>1. ASSUME NEW s \in Slot
        PROVE  [s EXCEPT !.revoked = TRUE] \in Slot /\ [s EXCEPT !.revoked = TRUE].uuid = s.uuid
    BY DEF Slot
  <2>2. QED
    BY <1>1, <2>1, RegisteredIsSlot
<1>3. /\ mem' \in Table
      /\ Registered(mem') = Registered(mem)
      /\ \A m \in Registered(mem) : mem'.slots[m].uuid = mem.slots[m].uuid
  <2> DEFINE f == [n \in SlotIds |-> IF n \in Dead \intersect Registered(mem)
                                     THEN [mem.slots[n] EXCEPT !.revoked = TRUE]
                                     ELSE mem.slots[n]]
  <2>1. /\ f \in [SlotIds -> Slot \union {NoSlot}]
        /\ \A n \in SlotIds : f[n] = NoSlot <=> mem.slots[n] = NoSlot
        /\ \A n \in Registered(mem) : f[n].uuid = mem.slots[n].uuid
    BY <1>1, <1>2, SlotTableAssumption DEF Table, Registered
  <2>2. mem' = [mem EXCEPT !.slots = f]
    BY DEF CallsDone
  <2> HIDE DEF f
  <2>3. QED
    BY <1>1, <2>1, <2>2 DEF Table, Registered
<1>4. ServerTypeOK'
  BY <1>1, UnchangedServerTypes DEF TypeOK, CallsDone
<1>5. CASE Dead = {}
  <2>1. got = NoCalls
    BY <1>1, <1>5, NothingLeft
  <2>2. QED
    BY <1>1, <1>3, <1>4, <1>5, <2>1, PassKeeps DEF TypeOK, CallsDone, stores, locals
<1>6. CASE Dead # {}
  <2>1. cmd = "clean" /\ pc' = "ask"
    BY <1>1, <1>6 DEF Pending, Dead, CallsDone
  <2>2. TypeOK'
    BY <1>1, <1>3, <1>4, <2>1 DEF TypeOK, CallsDone, stores, locals, Steps
  <2>3. Bookkeeping'
    BY <1>1, <1>3, <2>1 DEF IInv, Bookkeeping, CallsDone, stores, locals
  <2>4. ASSUME ~misled'
        PROVE  Ownership'
    <3>1. Ownership
      BY <2>4 DEF IInv, CallsDone
    <3>2. \A m \in SlotIds : got'[m].kind \in {"ok", "recovered"} => Fits(got[m].cred, m)'
      BY <1>3, <3>1 DEF IInv, Bookkeeping, Ownership, Fits, CallsDone, locals
    <3>3. QED
      BY <1>3, <2>1, <3>1, <3>2, SameAccountsKeepOwns DEF Ownership, CallsDone, stores
  <2>5. QED
    BY <2>2, <2>3, <2>4 DEF IInv
<1>7. QED
  BY <1>5, <1>6

-----------------------------------------------------------------------------
(***************************************************************************)
(* Removing slots, and label.                                              *)
(***************************************************************************)

\* CmdClean's question keeps the invariant.
LEMMA AskKeeps ==
  ASSUME IInv, Ask
  PROVE  IInv'
<1>1. TypeOK'
  BY UnchangedServerTypes DEF IInv, TypeOK, Ask, stores, locals, Steps
<1>2. Bookkeeping'
  BY DEF IInv, Bookkeeping, Ask, stores, locals
<1>3. ~misled' => Ownership'
  BY DEF IInv, Ownership, Owns, Fits, Ask, stores, locals
<1>4. QED
  BY <1>1, <1>2, <1>3 DEF IInv

\* Forgetting slot n empties its item, or leaves an item that no slot of the
\* command's table names.
LEMMA ForgetKeepsOwns ==
  ASSUME TypeOK, NEW n \in SlotIds, Forget(n)
  PROVE  /\ kc' \in [SlotIds -> Creds]
         /\ \A m \in SlotIds \ {n} : kc'[m] = kc[m]
         /\ mem' \in Table
         /\ Registered(mem') = Registered(mem) \ {n}
         /\ Ownership /\ disk' = disk =>
              /\ \A m \in SlotIds : Owns(disk, m)' /\ Owns(mem, m)'
              /\ \A m \in Registered(mem') : mem'.slots[m] = mem.slots[m]
<1>1. kc \in [SlotIds -> Creds] /\ mem \in Table
  BY DEF TypeOK
<1>2. kc' \in [SlotIds -> Creds]
  BY <1>1, NoCredIsNoCred DEF Forget
<1>3. \A m \in SlotIds : kc'[m] = kc[m] \/ (m = n /\ kc'[m] = NoCred)
  BY <1>1 DEF Forget
<1>4. /\ mem' \in Table
      /\ Registered(mem') = Registered(mem) \ {n}
      /\ \A m \in SlotIds \ {n} : mem'.slots[m] = mem.slots[m]
  BY <1>1, RemoveDropsOneSlot DEF Forget
<1>5. ASSUME Ownership, disk' = disk
      PROVE  /\ \A m \in SlotIds : Owns(disk, m)' /\ Owns(mem, m)'
             /\ \A m \in Registered(mem') : mem'.slots[m] = mem.slots[m]
  <2>1. \A m \in SlotIds : Owns(disk, m)'
    BY <1>3, <1>5 DEF Ownership, Owns
  <2>2. \A m \in SlotIds : Owns(mem, m)'
    BY <1>3, <1>4, <1>5 DEF Ownership, Owns, Registered
  <2>3. QED
    BY <1>4, <2>1, <2>2 DEF Registered
<1>6. QED
  BY <1>2, <1>3, <1>4, <1>5

\* CmdClean's removal of one slot keeps the invariant.
LEMMA SweepKeeps ==
  ASSUME IInv, NEW n \in SlotIds, Sweep(n)
  PROVE  IInv'
<1>1. /\ TypeOK /\ Bookkeeping /\ Forget(n) /\ pc = "sweep" /\ pc' \in {"sweep", "save"}
      /\ cmd = "clean" /\ todo = {} /\ disk' = disk
  BY DEF IInv, Bookkeeping, Sweep
<1>2. /\ kc' \in [SlotIds -> Creds]
      /\ \A m \in SlotIds \ {n} : kc'[m] = kc[m]
      /\ mem' \in Table
      /\ Registered(mem') = Registered(mem) \ {n}
  BY <1>1, ForgetKeepsOwns
<1>3. /\ got' \in [SlotIds -> Outcome]
      /\ got'[n] = Nothing
      /\ \A m \in SlotIds \ {n} : got'[m] = got[m]
  BY <1>1 DEF TypeOK, Sweep, Nothing, Outcome
<1>4. TypeOK'
  BY <1>1, <1>2, <1>3, UnchangedServerTypes DEF TypeOK, Sweep, Steps
<1>5. Bookkeeping'
  BY <1>1, <1>2, <1>3 DEF Bookkeeping, Sweep, Nothing
<1>6. ASSUME ~misled'
      PROVE  Ownership'
  <2>1. Ownership
    BY <1>6 DEF IInv, Sweep
  <2>2. /\ \A m \in SlotIds : Owns(disk, m)' /\ Owns(mem, m)'
        /\ \A m \in Registered(mem') : mem'.slots[m] = mem.slots[m]
    BY <1>1, <2>1, ForgetKeepsOwns
  <2>3. \A m \in SlotIds : got'[m].kind \in {"ok", "recovered"} => Fits(got[m].cred, m)'
    BY <1>1, <1>2, <1>3, <2>1, <2>2 DEF Bookkeeping, Ownership, Fits, Nothing
  <2>4. QED
    BY <1>1, <1>2, <2>1, <2>2, <2>3 DEF Ownership
<1>7. QED
  BY <1>4, <1>5, <1>6 DEF IInv

\* CmdRemove keeps the invariant.
LEMMA RemoveSlotKeeps ==
  ASSUME IInv, RemoveSlot
  PROVE  IInv'
<1>1. CASE Fail
  BY <1>1, FailKeeps
<1>2. CASE /\ tgt \in Registered(mem) /\ Forget(tgt) /\ pc' = "save"
           /\ UNCHANGED <<server, live, config, disk, sess, locals, misled, until>>
  <2>1. /\ TypeOK /\ Bookkeeping /\ cmd = "remove" /\ todo = {} /\ got = NoCalls
        /\ tgt \in SlotIds /\ disk' = disk
    BY <1>2 DEF IInv, Bookkeeping, RemoveSlot, Registered
  <2>2. /\ kc' \in [SlotIds -> Creds]
        /\ mem' \in Table
        /\ Registered(mem') = Registered(mem) \ {tgt}
    BY <1>2, <2>1, ForgetKeepsOwns
  <2>3. \A m \in SlotIds : got'[m].kind = "none"
    BY <1>2, <2>1 DEF locals, NoCalls, Nothing
  <2>4. TypeOK'
    BY <1>2, <2>1, <2>2, UnchangedServerTypes DEF TypeOK, locals, Steps
  <2>5. Bookkeeping'
    BY <1>2, <2>1, <2>3 DEF Bookkeeping, locals
  <2>6. ASSUME ~misled'
        PROVE  Ownership'
    <3>1. Ownership
      BY <1>2, <2>6 DEF IInv
    <3>2. /\ \A m \in SlotIds : Owns(disk, m)' /\ Owns(mem, m)'
          /\ \A m \in Registered(mem') : mem'.slots[m] = mem.slots[m]
      BY <1>2, <2>1, <3>1, ForgetKeepsOwns
    <3>3. QED
      BY <1>2, <2>1, <2>2, <2>3, <3>1, <3>2 DEF Ownership
  <2>7. QED
    BY <2>4, <2>5, <2>6 DEF IInv
<1>3. QED
  BY <1>1, <1>2 DEF RemoveSlot

\* CmdLabel keeps the invariant.
LEMMA LabelKeeps ==
  ASSUME IInv, Label
  PROVE  IInv'
<1>1. CASE Fail
  BY <1>1, FailKeeps
<1>2. CASE pc' = "save" /\ UNCHANGED <<server, stores, sess, mem, locals, misled, until>>
  <2>1. TypeOK'
    BY <1>2, UnchangedServerTypes DEF IInv, TypeOK, stores, locals, Steps
  <2>2. Bookkeeping'
    BY <1>2 DEF IInv, Bookkeeping, Label, stores, locals
  <2>3. ~misled' => Ownership'
    BY <1>2 DEF IInv, Ownership, Owns, Fits, stores, locals
  <2>4. QED
    BY <2>1, <2>2, <2>3 DEF IInv
<1>3. QED
  BY <1>1, <1>2 DEF Label

-----------------------------------------------------------------------------
(***************************************************************************)
(* login and adopt.                                                        *)
(***************************************************************************)

\* CmdLogin's token exchange keeps the invariant: the account it learns is the token's.
LEMMA LoginKeeps ==
  ASSUME IInv, Login
  PROVE  IInv'
<1>1. CASE Fail
  BY <1>1, FailKeeps
<1>2. ASSUME NEW a \in Accounts, Issue(a), env' = NextCred(a), who' \in {a, NoAccount},
             pc' = "register", UNCHANGED <<stores, sess, mem, cmd, tgt, seen, todo, got, misled, until>>
      PROVE  IInv'
  <2>1. ServerTypeOK' /\ env' \in Cred /\ env'.acct = a
    BY <1>2, IssueTypes DEF IInv, TypeOK
  <2>2. TypeOK'
    BY <1>2, <2>1 DEF IInv, TypeOK, stores, Steps, Creds, Owner
  <2>3. Bookkeeping'
    BY <1>2, <2>1 DEF IInv, Bookkeeping, Login, stores
  <2>4. ~misled' => Ownership'
    BY <1>2, <2>1 DEF IInv, Ownership, Owns, Fits, stores
  <2>5. QED
    BY <2>2, <2>3, <2>4 DEF IInv
<1>3. QED
  BY <1>1, <1>2 DEF Login

\* Filing a credential under the slot of its account, or under a number that
\* neither table uses, keeps every slot's credential its own.
LEMMA NewFilingKeepsOwnership ==
  ASSUME TypeOK, Ownership, Registered(disk) \subseteq Registered(mem),
         got' = NoCalls, pc' \in {"loginSave", "save"}, disk' = disk,
         NEW n \in SlotIds, NEW c \in Cred, NEW s \in Slot, NEW t \in Table,
         t = Put(mem, n, s), mem' \in {t, Activate(t, n)},
         kc' = [kc EXCEPT ![n] = c],
         n \in Registered(mem) => mem.slots[n].uuid = s.uuid /\ s.uuid = c.acct,
         s.uuid \in {c.acct, NoAccount}
  PROVE  Ownership'
<1>1. mem \in Table /\ kc \in [SlotIds -> Creds]
  BY DEF TypeOK
<1>2. /\ Registered(t) = Registered(mem) \union {n}
      /\ \A m \in SlotIds : t.slots[m] = IF m = n THEN s ELSE mem.slots[m]
  BY <1>1, PutChangesOneSlot
<1>3. Registered(mem') = Registered(t) /\ mem'.slots = t.slots
  BY ActivateKeepsSlots
<1>4. kc'[n] = c /\ \A m \in SlotIds \ {n} : kc'[m] = kc[m]
  BY <1>1
<1>5. \A m \in SlotIds : Owns(disk, m)'
  BY <1>4 DEF Ownership, Owns, Registered
<1>6. \A m \in SlotIds : Owns(mem, m)'
  BY <1>2, <1>3, <1>4 DEF Ownership, Owns
<1>7. \A m \in Registered(disk)' \intersect Registered(mem)' :
        disk'.slots[m].uuid # NoAccount => mem'.slots[m].uuid = disk'.slots[m].uuid
  BY <1>2, <1>3 DEF Ownership, Registered
<1>8. \A m \in SlotIds : got'[m].kind = "none"
  BY DEF NoCalls, Nothing
<1>9. QED
  BY <1>5, <1>6, <1>7, <1>8 DEF Ownership

\* CmdLogin's filing of the credential keeps the invariant.
LEMMA RegisterKeeps ==
  ASSUME IInv, Register
  PROVE  IInv'
<1>1. CASE Fail
  BY <1>1, FailKeeps
<1>2. CASE ~Fail
  <2> DEFINE found == FindByAccountUUID(mem, who)
             n == IF found # 0 THEN found ELSE NextFreeSlot(mem)
             old == IF found # 0 THEN mem.slots[n]
                    ELSE [uuid |-> who, block |-> NoAccount, revoked |-> FALSE]
  <2>1. PICK profiled \in BOOLEAN :
          mem' = Put(mem, n, [old EXCEPT !.revoked = FALSE,
                                !.block = IF profiled THEN who ELSE @])
    BY <1>2 DEF Register
  <2>2. /\ n # 0 /\ kc' = [kc EXCEPT ![n] = env] /\ tgt' = n /\ pc' = "loginSave"
        /\ env' = NoCred /\ who' = NoAccount
        /\ UNCHANGED <<server, live, config, disk, sess, cmd, seen, todo, got, misled, until>>
    BY <1>2 DEF Register
  <2>3. /\ TypeOK /\ Bookkeeping /\ mem \in Table /\ who \in Owner /\ env \in Cred
        /\ cmd = "login" /\ todo = {} /\ got = NoCalls /\ pc = "register"
        /\ Registered(disk) \subseteq Registered(mem)
    BY DEF IInv, TypeOK, Bookkeeping, Register
  <2>4. /\ n \in SlotIds
        /\ n \in Registered(mem) => found # 0
        /\ found # 0 => n \in Registered(mem) /\ mem.slots[n].uuid = who /\ who # NoAccount
    <3>1. CASE found # 0
      BY <2>3, <3>1, FindReturnsOwnSlot DEF Registered
    <3>2. CASE found = 0
      BY <2>2, <2>3, <3>2, NextFreeIsFree
    <3>3. QED
      BY <3>1, <3>2
  <2>5. old \in Slot /\ old.uuid = who
    <3>1. CASE found # 0
      BY <2>3, <2>4, <3>1, RegisteredIsSlot
    <3>2. CASE found = 0
      BY <2>3, <3>2 DEF Slot, Owner
    <3>3. QED
      BY <3>1, <3>2
  <2>6. PICK s \in Slot : /\ s = [old EXCEPT !.revoked = FALSE,
                                    !.block = IF profiled THEN who ELSE @]
                          /\ s.uuid = who
    <3>1. ASSUME NEW o \in Slot, NEW u \in Owner
          PROVE  /\ [o EXCEPT !.revoked = FALSE, !.block = u] \in Slot
                 /\ [o EXCEPT !.revoked = FALSE, !.block = u].uuid = o.uuid
      BY DEF Slot
    <3>2. old.block \in Owner
      BY <2>5 DEF Slot
    <3> HIDE DEF old
    <3>3. QED
      BY <2>3, <2>5, <3>1, <3>2
  <2> HIDE DEF found, n, old
  <2>7. PICK t \in Table : /\ t = mem' /\ t = Put(mem, n, s)
                           /\ Registered(t) = Registered(mem) \union {n}
    BY <2>1, <2>3, <2>4, <2>6, PutChangesOneSlot
  <2>8. TypeOK'
    BY <2>2, <2>3, <2>4, <2>7, UnchangedServerTypes DEF TypeOK, Steps, Creds, Owner
  <2>9. Bookkeeping'
    <3>1. \A m \in SlotIds : got'[m].kind = "none"
      BY <2>2, <2>3 DEF NoCalls, Nothing
    <3>2. QED
      BY <2>2, <2>3, <2>7, <3>1 DEF Bookkeeping
  <2>10. ASSUME ~misled'
         PROVE  Ownership'
    <3>1. Ownership /\ who \in {env.acct, NoAccount}
      BY <2>2, <2>3, <2>10 DEF IInv, Ownership
    <3>2. QED
      BY <2>2, <2>3, <2>4, <2>6, <2>7, <3>1, NewFilingKeepsOwnership
  <2>11. QED
    BY <2>8, <2>9, <2>10 DEF IInv
<1>3. QED
  BY <1>1, <1>2

\* CmdLogin's save, before it activates or exits, keeps the invariant.
LEMMA LoginSaveKeeps ==
  ASSUME IInv, LoginSave
  PROVE  IInv'
<1>1. CASE Fail
  BY <1>1, FailKeeps
<1>2. CASE Exit /\ disk' = mem /\ UNCHANGED <<server, kc, live, config, sess, misled, until>>
  <2>1. ServerTypeOK'
    BY <1>2, UnchangedServerTypes DEF IInv, TypeOK
  <2>2. QED
    BY <1>2, <2>1, ExitKeeps DEF IInv, TypeOK, Exit
<1>3. CASE /\ disk' = mem /\ pc' = "ensure"
           /\ UNCHANGED <<mem, locals, server, kc, live, config, sess, misled, until>>
  <2>1. TypeOK'
    BY <1>3, UnchangedServerTypes DEF IInv, TypeOK, locals, Steps
  <2>2. Bookkeeping'
    BY <1>3 DEF IInv, Bookkeeping, LoginSave, locals
  <2>3. ~misled' => Ownership'
    BY <1>3 DEF IInv, Ownership, Owns, Fits, locals
  <2>4. QED
    BY <2>1, <2>2, <2>3 DEF IInv
<1>4. QED
  BY <1>1, <1>2, <1>3 DEF LoginSave

\* CmdAdopt's reads keep the invariant.
LEMMA AdoptKeeps ==
  ASSUME IInv, Adopt
  PROVE  IInv'
<1>1. CASE Fail
  BY <1>1, FailKeeps
<1>2. CASE ~Fail
  <2>1. PICK l \in LiveReads :
          /\ l # NoCred /\ env' = l /\ who' = config
          /\ pc' \in {"adoptRotate", "adoptStore"}
          /\ UNCHANGED <<server, stores, sess, mem, cmd, tgt, seen, todo, got, misled, until>>
    BY <1>2 DEF Adopt
  <2>2. l \in Cred
    BY <2>1 DEF IInv, TypeOK, LiveReads, Creds
  <2>3. TypeOK'
    BY <2>1, <2>2, UnchangedServerTypes DEF IInv, TypeOK, stores, Steps, Creds
  <2>4. Bookkeeping'
    BY <2>1, <2>2 DEF IInv, Bookkeeping, Adopt, stores
  <2>5. ~misled' => Ownership'
    BY <2>1 DEF IInv, Ownership, Owns, Fits, stores
  <2>6. QED
    BY <2>3, <2>4, <2>5 DEF IInv
<1>3. QED
  BY <1>1, <1>2

\* CmdAdopt's refresh keeps the invariant.
LEMMA AdoptRotateKeeps ==
  ASSUME IInv, AdoptRotate
  PROVE  IInv'
<1>1. PICK out \in Outcome :
        /\ Refresh(env, out)
        /\ env' = IF out.kind = "ok" THEN out.cred ELSE env
        /\ pc' \in {"adoptWrite", "adoptStore"}
  BY DEF AdoptRotate
<1>2. TypeOK /\ Bookkeeping /\ env \in Cred /\ pc = "adoptRotate"
  BY DEF IInv, Bookkeeping, AdoptRotate
<1>3. ServerTypeOK' /\ env' \in Cred
  BY <1>1, <1>2, RefreshKeepsAccount DEF TypeOK
<1>4. TypeOK'
  BY <1>1, <1>2, <1>3 DEF TypeOK, AdoptRotate, stores, Steps, Creds
<1>5. Bookkeeping'
  BY <1>1, <1>2, <1>3 DEF Bookkeeping, AdoptRotate, stores
<1>6. ~misled' => Ownership'
  BY <1>1 DEF IInv, Ownership, Owns, Fits, AdoptRotate, stores
<1>7. QED
  BY <1>4, <1>5, <1>6 DEF IInv

\* CmdAdopt's write of the live item keeps the invariant.
LEMMA AdoptWriteKeeps ==
  ASSUME IInv, AdoptWrite
  PROVE  IInv'
<1>1. TypeOK'
  BY UnchangedServerTypes DEF IInv, TypeOK, AdoptWrite, Steps
<1>2. Bookkeeping'
  BY DEF IInv, Bookkeeping, AdoptWrite
<1>3. ~misled' => Ownership'
  BY DEF IInv, Ownership, Owns, Fits, AdoptWrite
<1>4. QED
  BY <1>1, <1>2, <1>3 DEF IInv

\* CmdAdopt's filing keeps the invariant, misled by the config file or not.
LEMMA AdoptStoreKeeps ==
  ASSUME IInv, AdoptStore
  PROVE  IInv'
<1>1. CASE Fail
  BY <1>1, FailKeeps
<1>2. CASE ~Fail
  <2>1. PICK answer \in Answers(env) :
          LET byConfig == FindByAccountUUID(mem, who)
              found == IF byConfig # 0 THEN byConfig ELSE FindByAccountUUID(mem, answer)
              n == IF found # 0 THEN found ELSE NextFreeSlot(mem)
              old == IF found # 0 THEN mem.slots[n]
                     ELSE [uuid |-> who, block |-> who, revoked |-> FALSE]
              new == IF answer # NoAccount
                     THEN [uuid |-> answer, block |-> answer, revoked |-> FALSE]
                     ELSE [old EXCEPT !.revoked = FALSE,
                                      !.block = IF @ = NoAccount THEN who ELSE @]
          IN /\ n # 0
             /\ kc' = [kc EXCEPT ![n] = env]
             /\ mem' = Activate(Put(mem, n, new), n)
             /\ misled' = (misled \/ who \notin {env.acct, NoAccount})
    BY <1>2 DEF AdoptStore
  <2> DEFINE byConfig == FindByAccountUUID(mem, who)
             found == IF byConfig # 0 THEN byConfig ELSE FindByAccountUUID(mem, answer)
             n == IF found # 0 THEN found ELSE NextFreeSlot(mem)
             old == IF found # 0 THEN mem.slots[n]
                    ELSE [uuid |-> who, block |-> who, revoked |-> FALSE]
             block == IF old.block = NoAccount THEN who ELSE old.block
             new == IF answer # NoAccount
                    THEN [uuid |-> answer, block |-> answer, revoked |-> FALSE]
                    ELSE [old EXCEPT !.revoked = FALSE, !.block = block]
  <2>2. /\ pc' = "save" /\ env' = NoCred /\ who' = NoAccount
        /\ UNCHANGED <<server, live, config, disk, sess, cmd, tgt, seen, todo, got, until>>
    BY <1>2 DEF AdoptStore
  <2>3. /\ TypeOK /\ Bookkeeping /\ mem \in Table /\ who \in Owner /\ env \in Cred
        /\ cmd = "adopt" /\ todo = {} /\ got = NoCalls /\ answer \in Owner
        /\ Registered(disk) \subseteq Registered(mem)
    BY AnswersAreOwners DEF IInv, TypeOK, Bookkeeping, AdoptStore
  <2>4. /\ n \in SlotIds
        /\ n \in Registered(mem) => found # 0
        /\ found # 0 => n \in Registered(mem) /\ mem.slots[n].uuid \in {who, answer} \ {NoAccount}
    <3>1. CASE found # 0
      BY <2>3, <3>1, FindReturnsOwnSlot DEF Registered
    <3>2. CASE found = 0
      BY <2>1, <2>3, <3>2, NextFreeIsFree
    <3>3. QED
      BY <3>1, <3>2
  <2>5. old \in Slot /\ (found = 0 => old.uuid = who) /\ (found # 0 => old = mem.slots[n])
    <3>1. CASE found # 0
      BY <2>3, <2>4, <3>1, RegisteredIsSlot
    <3>2. CASE found = 0
      BY <2>3, <3>2 DEF Slot, Owner
    <3>3. QED
      BY <3>1, <3>2
  <2>6. /\ new \in Slot
        /\ answer # NoAccount => new.uuid = answer
        /\ answer = NoAccount => new.uuid = old.uuid
    <3>1. ASSUME NEW o \in Slot, NEW u \in Owner
          PROVE  /\ [o EXCEPT !.revoked = FALSE, !.block = u] \in Slot
                 /\ [o EXCEPT !.revoked = FALSE, !.block = u].uuid = o.uuid
      BY DEF Slot
    <3>2. block \in Owner
      BY <2>3, <2>5 DEF Slot
    <3>3. CASE answer # NoAccount
      BY <2>3, <3>3 DEF Slot
    <3> HIDE DEF old, block
    <3>4. CASE answer = NoAccount
      BY <2>5, <3>1, <3>2, <3>4
    <3>5. QED
      BY <3>3, <3>4
  <2>7. /\ n # 0
        /\ kc' = [kc EXCEPT ![n] = env]
        /\ mem' = Activate(Put(mem, n, new), n)
        /\ misled' = (misled \/ who \notin {env.acct, NoAccount})
    BY <2>1
  <2> HIDE DEF byConfig, found, n, old, block, new
  <2>8. PICK t \in Table : /\ t = Put(mem, n, new) /\ mem' = Activate(t, n)
                           /\ Registered(t) = Registered(mem) \union {n}
    BY <2>3, <2>4, <2>6, <2>7, PutChangesOneSlot
  <2>9. mem' \in Table /\ Registered(mem') = Registered(t)
    BY <2>4, <2>8, ActivateKeepsSlots
  <2>10. TypeOK'
    BY <2>2, <2>3, <2>4, <2>7, <2>9, UnchangedServerTypes,
       NoCredIsNoCred DEF TypeOK, Steps, Creds, Owner
  <2>11. Bookkeeping'
    <3>1. \A m \in SlotIds : got'[m].kind = "none"
      BY <2>2, <2>3 DEF NoCalls, Nothing
    <3>2. QED
      BY <2>2, <2>3, <2>8, <2>9, <3>1 DEF Bookkeeping
  <2>12. ASSUME ~misled'
         PROVE  Ownership'
    <3>1. Ownership /\ who \in {env.acct, NoAccount}
      BY <2>7, <2>12 DEF IInv
    <3>2. answer # NoAccount => answer = env.acct
      BY AnswersAreTrue
    <3>3. /\ n \in Registered(mem) => mem.slots[n].uuid = new.uuid /\ new.uuid = env.acct
          /\ new.uuid \in {env.acct, NoAccount}
      BY <2>4, <2>5, <2>6, <3>1, <3>2
    <3>4. got' = NoCalls /\ disk' = disk /\ kc' = [kc EXCEPT ![n] = env]
      BY <2>2, <2>3, <2>7
    <3>5. QED
      BY <2>2, <2>3, <2>4, <2>6, <2>8, <3>1, <3>3, <3>4, NewFilingKeepsOwnership
  <2>13. QED
    BY <2>10, <2>11, <2>12 DEF IInv
<1>3. QED
  BY <1>1, <1>2

-----------------------------------------------------------------------------
(***************************************************************************)
(* Claude Code, and the theorems.                                          *)
(***************************************************************************)

\* Whatever happens to the live credential, the config and the sessions while
\* a command runs, the slots are not touched.
LEMMA OutsideKeeps ==
  ASSUME IInv, ServerTypeOK', live' \in Creds, config' \in Owner,
         sess' \in [Sessions -> [cred: Creds, dirty: BOOLEAN]],
         until' \in [Cred -> Gens \union {0}],
         UNCHANGED <<kc, disk, pc, mem, locals, misled>>
  PROVE  IInv'
<1>1. TypeOK'
  BY DEF IInv, TypeOK, locals
<1>2. Bookkeeping'
  BY DEF IInv, Bookkeeping, locals
<1>3. ~misled' => Ownership'
  BY DEF IInv, Ownership, Owns, Fits, locals
<1>4. QED
  BY <1>1, <1>2, <1>3 DEF IInv

\* A session touches its own memory and the live credential.
LEMMA SessionKeeps ==
  ASSUME IInv, NEW s \in Sessions, Open(s) \/ Renew(s) \/ WriteBack(s) \/ End(s)
  PROVE  IInv'
<1>1. TypeOK /\ ServerTypeOK /\ live \in Creds /\ config \in Owner
      /\ sess \in [Sessions -> [cred: Creds, dirty: BOOLEAN]]
      /\ until \in [Cred -> Gens \union {0}]
  BY DEF IInv, TypeOK
<1>2. CASE Open(s)
  <2>1. ServerTypeOK' /\ live' \in Creds /\ config' \in Owner
    BY <1>1, <1>2, UnchangedServerTypes DEF Open, stores
  <2>2. sess' \in [Sessions -> [cred: Creds, dirty: BOOLEAN]]
    BY <1>1, <1>2 DEF Open
  <2>3. QED
    BY <1>1, <1>2, <2>1, <2>2, OutsideKeeps DEF Open, stores
<1>3. CASE Renew(s)
  <2>1. sess[s].cred \in Cred
    BY <1>1, <1>3 DEF Renew, Creds
  <2>2. ServerTypeOK' /\ NextCred(sess[s].cred.acct) \in Cred
    BY <1>1, <1>3, <2>1, RotateTypes DEF Renew
  <2>3. sess' \in [Sessions -> [cred: Creds, dirty: BOOLEAN]]
    BY <1>1, <1>3, <2>2 DEF Renew, Creds
  <2>4. QED
    BY <1>1, <1>3, <2>2, <2>3, OutsideKeeps DEF Renew, stores
<1>4. CASE WriteBack(s)
  <2>1. ServerTypeOK' /\ live' \in Creds
    BY <1>1, <1>4, UnchangedServerTypes DEF WriteBack
  <2>2. sess' \in [Sessions -> [cred: Creds, dirty: BOOLEAN]]
    BY <1>1, <1>4 DEF WriteBack
  <2>3. until' \in [Cred -> Gens \union {0}]
    BY <1>1, <1>4 DEF WriteBack
  <2>4. QED
    BY <1>1, <1>4, <2>1, <2>2, <2>3, OutsideKeeps DEF WriteBack
<1>5. CASE End(s)
  <2>1. ServerTypeOK' /\ live' \in Creds /\ config' \in Owner
    BY <1>1, <1>5, UnchangedServerTypes DEF End, stores
  <2>2. sess' \in [Sessions -> [cred: Creds, dirty: BOOLEAN]]
    BY <1>1, <1>5, NoCredIsNoCred DEF End
  <2>3. QED
    BY <1>1, <1>5, <2>1, <2>2, OutsideKeeps DEF End, stores
<1>6. QED
  BY <1>2, <1>3, <1>4, <1>5

\* A sign-in replaces the live credential and the config; time only wears
\* credentials out.
LEMMA AccountKeeps ==
  ASSUME IInv, NEW a \in Accounts, SignIn(a) \/ TimePasses(a)
  PROVE  IInv'
<1>1. TypeOK /\ ServerTypeOK
  BY DEF IInv, TypeOK
<1>2. CASE SignIn(a)
  <2>1. ServerTypeOK' /\ live' \in Creds /\ config' \in Owner
    BY <1>1, <1>2, IssueTypes DEF SignIn, Creds, Owner
  <2>2. QED
    BY <1>1, <1>2, <2>1, OutsideKeeps DEF SignIn, TypeOK
<1>3. CASE TimePasses(a)
  <2>1. ServerTypeOK'
    BY <1>1, <1>3, TimeTypes DEF TimePasses
  <2>2. QED
    BY <1>1, <1>3, <2>1, OutsideKeeps DEF TimePasses, TypeOK, stores
<1>4. QED
  BY <1>2, <1>3

\* No step of a command breaks the invariant: one lemma per action.
LEMMA StepKeeps ==
  ASSUME IInv, Step
  PROVE  IInv'
<1>1. ASSUME NEW n \in SlotIds,
             Call(n) \/ ApplyRenewed(n) \/ ApplyFailed(n) \/ ApplyRejected(n) \/ Sweep(n)
      PROVE  IInv'
  BY <1>1, CallKeeps, ApplyRenewedKeeps, ApplyFailedKeeps, ApplyRejectedKeeps, SweepKeeps
<1>2. CASE SyncRead \/ SyncConfirm \/ Switch \/ EnsureFresh \/ EnsureFreshCall
             \/ EnsureFreshStore \/ Install \/ Point
  BY <1>2, SyncReadKeeps, SyncConfirmKeeps, SwitchKeeps, EnsureFreshKeeps,
     EnsureFreshCallKeeps, EnsureFreshStoreKeeps, InstallKeeps, PointKeeps
<1>3. CASE PlanRefresh \/ PlanAuto \/ PlanClean \/ CallsDone \/ Mirror \/ Ask
             \/ RemoveSlot \/ Label
  BY <1>3, PlanRefreshKeeps, PlanAutoKeeps, PlanCleanKeeps, CallsDoneKeeps, MirrorKeeps,
     AskKeeps, RemoveSlotKeeps, LabelKeeps
<1>4. CASE Login \/ Register \/ LoginSave \/ Adopt \/ AdoptRotate \/ AdoptWrite
             \/ AdoptStore \/ Save \/ Release
  BY <1>4, LoginKeeps, RegisterKeeps, LoginSaveKeeps, AdoptKeeps, AdoptRotateKeeps,
     AdoptWriteKeeps, AdoptStoreKeeps, SaveKeeps, CrashKeeps
<1>5. QED
  BY <1>1, <1>2, <1>3, <1>4 DEF Step

\* Every step of the Claude side, and a stutter, keeps the invariant.
LEMMA NextKeeps == IInv /\ [Next]_vars => IInv'
<1> SUFFICES ASSUME IInv, [Next]_vars
             PROVE  IInv'
  OBVIOUS
<1>1. ASSUME NEW c \in Commands, NEW n \in SlotIds \union {0}, Begin(c, n)
      PROVE  IInv'
  BY <1>1, BeginKeeps
<1>2. CASE Step
  BY <1>2, StepKeeps
<1>3. CASE Crash
  BY <1>3, CrashKeeps
<1>4. CASE ClaudeCode
  BY <1>4, SessionKeeps, AccountKeeps DEF ClaudeCode
<1>5. CASE UNCHANGED vars
  <2>1. ServerTypeOK'
    BY <1>5, UnchangedServerTypes DEF IInv, TypeOK, vars
  <2>2. QED
    BY <1>5, <2>1, OutsideKeeps DEF IInv, TypeOK, vars, stores, locals
<1>6. QED
  BY <1>1, <1>2, <1>3, <1>4, <1>5 DEF Next

\* The inductive invariant holds of every behaviour of the Claude side.
THEOREM InvariantHolds == Spec => []IInv
<1>1. Init => IInv
  BY InitIInv
<1>2. IInv /\ [Next]_vars => IInv'
  BY NextKeeps
<1>3. QED
  BY <1>1, <1>2, PTL DEF Spec

\* Every variable keeps its type, for any accounts, slots, sessions and faults.
THEOREM TypeCorrect == Spec => []TypeOK
<1>1. IInv => TypeOK
  BY DEF IInv
<1>2. QED
  BY <1>1, InvariantHolds, PTL

\* Whatever commands, crashes, failing writes and stale sessions do to each
\* other, cas parks no account's credential under another account's slot, in
\* state.json or in memory, unless it had nobody but ~/.claude.json to ask, and that
\* named the wrong account.
THEOREM OwnershipHolds == Spec => []SlotOwnership
<1>1. IInv => SlotOwnership
  BY DEF IInv, Ownership, SlotOwnership
<1>2. QED
  BY <1>1, InvariantHolds, PTL

=============================================================================
