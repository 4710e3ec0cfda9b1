----------------------- MODULE ClaudeCredentialProofs -----------------------
(***************************************************************************)
(* Where the newest credential of every account is: the Revoked flag tells *)
(* the truth, SyncActive only ever goes forward, and no step of a command  *)
(* loses the last credential of an account that works.                     *)
(***************************************************************************)
EXTENDS ClaudeSafetyProofs

-----------------------------------------------------------------------------
(***************************************************************************)
(* Which command may be where.                                             *)
(***************************************************************************)

\* Outside the command, nothing of it changes.
LEMMA OutsideErrand ==
  ASSUME ClaudeCode
  PROVE  UNCHANGED <<pc, mem, locals, disk, misled, kc>>
BY DEF ClaudeCode, Open, Renew, WriteBack, End, SignIn, TimePasses, stores

\* Where the command goes next, and that it stays the one it is.
LEMMA NextKeepsErrand ==
  ASSUME IInv, Errand, [Next]_vars
  PROVE  Errand'
<1>1. Bookkeeping
  BY DEF IInv
<1>2. ASSUME NEW p \in {"idle", "dead"}, Gone(p)
      PROVE  Errand'
  BY <1>2 DEF Errand, Gone
<1>3. CASE Fail \/ Crash \/ Save
  BY <1>2, <1>3 DEF Fail, Crash, Save, Exit
<1>4. CASE \E c \in Commands, n \in SlotIds \union {0} : Begin(c, n)
  BY <1>4, ClaudeSwitchAssumption DEF Errand, Begin, CommandNames, Synced
<1>5. CASE SyncRead \/ SyncConfirm \/ Release
  BY <1>5 DEF Errand, SyncRead, SyncConfirm, Release, locals
<1>6. CASE Switch \/ EnsureFresh \/ EnsureFreshStore \/ Install \/ Point
  BY <1>3, <1>6 DEF Errand, Switch, EnsureFresh, EnsureFreshStore, Install, Point, locals
<1>7. CASE EnsureFreshCall
  <2>1. CASE Exit
    BY <1>2, <2>1 DEF Exit
  <2>2. CASE pc' \in {"park", "install"} /\ cmd' = cmd
    BY <1>7, <2>2 DEF Errand, EnsureFreshCall
  <2>3. QED
    BY <1>7, <2>1, <2>2 DEF EnsureFreshCall, locals
<1>8. CASE (PlanRefresh \/ PlanAuto \/ PlanClean) /\ ~Fail
  <2>1. cmd \in Synced \ {"switch"} /\ cmd' = cmd /\ pc' = "calls"
    BY <1>8 DEF PlanRefresh, PlanAuto, PlanClean, Calls, Synced
  <2>2. QED
    BY <2>1 DEF Errand
<1>9. CASE CallsDone \/ Mirror \/ Ask
  BY <1>9 DEF Errand, CallsDone, Mirror, Ask, locals
<1>10. ASSUME NEW n \in SlotIds, Call(n) \/ ApplyRenewed(n) \/ ApplyFailed(n)
                                 \/ ApplyRejected(n) \/ Sweep(n)
       PROVE  Errand'
  BY <1>10 DEF Errand, Call, ApplyRenewed, ApplyFailed, ApplyRejected, Apply, Sweep
<1>11. CASE (RemoveSlot \/ Label \/ Login \/ Adopt) /\ ~Fail
  BY <1>11 DEF Errand, RemoveSlot, Label, Login, Adopt, locals
<1>12. CASE (Register \/ AdoptStore \/ LoginSave) /\ ~Fail
  <2>1. CASE Register \/ AdoptStore
    BY <1>1, <1>12, <2>1 DEF Errand, Register, AdoptStore, Bookkeeping
  <2>2. CASE LoginSave
    BY <1>2, <1>12, <2>2 DEF Errand, LoginSave, Exit, locals
  <2>3. QED
    BY <1>12, <2>1, <2>2
<1>13. CASE AdoptRotate \/ AdoptWrite
  BY <1>13 DEF Errand, AdoptRotate, AdoptWrite
<1>14. CASE ClaudeCode \/ UNCHANGED vars
  <2>1. cmd' = cmd /\ pc' = pc
    BY <1>14, OutsideErrand DEF vars, locals
  <2>2. QED
    BY <2>1 DEF Errand
<1>15. QED
  BY <1>3, <1>4, <1>5, <1>6, <1>7, <1>8, <1>9, <1>10, <1>11, <1>12, <1>13, <1>14 DEF Next, Step

-----------------------------------------------------------------------------
(***************************************************************************)
(* The Revoked flag.                                                       *)
(***************************************************************************)

\* What a step leaves in a slot that held nothing that works.
LEMMA UselessStays ==
  ASSUME TypeOK, Sound, Onward, NEW n \in SlotIds, kc'[n] = kc[n], Useless(n)
  PROVE  Useless(n)'
BY SoundHeld DEF Sound, HeldIn, Onward, Useless, Works, Good

\* What a step leaves in a slot that holds nothing that works, or a wrong deadline.
LEMMA CondemnedStays ==
  ASSUME TypeOK, Sound, Onward, DeadlinesStay,
         NEW n \in SlotIds, kc'[n] = kc[n], Condemned(n)
  PROVE  Condemned(n)'
<1>1. kc[n] \in Issued
  BY SoundHeld DEF Sound, HeldIn
<1>2. Doomed(kc[n])
  BY DEF Condemned, Useless, Works, Doomed
<1>3. DoomedNext(kc[n])
  BY <1>1, <1>2, DoomStays
<1>4. QED
  BY <1>3 DEF DoomedNext, Condemned, Useless, Works, Good, Dated

\* What is past its own deadline is of no use.
LEMMA ExpiredIsCondemned ==
  ASSUME TypeOK, Sound, NEW n \in SlotIds, Expired(n)
  PROVE  Condemned(n)
<1> SUFFICES ASSUME kc[n] # NoCred, Dated(kc[n])
             PROVE  ~Good(kc[n])
  BY DEF Condemned, Useless, Works
<1>1. kc[n] \in Cred /\ kc[n].acct \in Accounts /\ kc[n].gen \in Nat
  BY SoundHeld, IssuedCred DEF Sound, HeldIn
<1>2. ended[kc[n].acct] \in Nat /\ kc[n].gen <= ended[kc[n].acct] /\ "guess" \notin Outside
  BY <1>1 DEF TypeOK, ServerTypeOK, Gens, Expired, RefreshExpired, Dated
<1>3. QED
  BY <1>1, <1>2 DEF Good, Sound, ServerSound

\* The flags of r are those of t, but that of slot n may be cleared.
SameFlags(t, r) ==
  /\ r \in Table /\ Registered(r) = Registered(t)
  /\ \A m \in Registered(t) : r.slots[m].revoked => t.slots[m].revoked

\* A slot record put in the place of another.
LEMMA PutReplaces ==
  ASSUME NEW t \in Table, NEW n \in Registered(t), NEW s \in Slot
  PROVE  /\ Put(t, n, s) \in Table /\ Registered(Put(t, n, s)) = Registered(t)
         /\ \A m \in Registered(t) : Put(t, n, s).slots[m] = IF m = n THEN s ELSE t.slots[m]
<1>1. n \in SlotIds /\ Registered(t) \subseteq SlotIds /\ Registered(t) = Registered(t) \union {n}
  BY DEF Registered
<1>2. /\ Put(t, n, s) \in Table
      /\ Registered(Put(t, n, s)) = Registered(t) \union {n}
      /\ \A m \in SlotIds : Put(t, n, s).slots[m] = IF m = n THEN s ELSE t.slots[m]
  BY <1>1, PutChangesOneSlot
<1>3. QED
  BY <1>1, <1>2

\* The flag is set or cleared by SetRevoked alone.
LEMMA FlagsOfFields ==
  ASSUME NEW t \in Table, NEW n \in Registered(t), NEW b \in BOOLEAN, NEW u \in Owner
  PROVE  /\ SameFlags(t, SetBlock(t, n, u))
         /\ SetRevoked(t, n, b) \in Table /\ Registered(SetRevoked(t, n, b)) = Registered(t)
         /\ SetRevoked(t, n, b).slots[n].revoked = b
         /\ \A m \in Registered(t) \ {n} : SetRevoked(t, n, b).slots[m] = t.slots[m]
         /\ SameFlags(t, SetRevoked(t, n, FALSE))
<1>1. n \in SlotIds /\ t.slots[n] \in Slot /\ Registered(t) \subseteq SlotIds
  BY RegisteredIsSlot DEF Registered
<1> DEFINE s1(c) == [t.slots[n] EXCEPT !.revoked = c]
           s2 == [t.slots[n] EXCEPT !.block = u]
<1>2. /\ \A c \in BOOLEAN : s1(c) \in Slot /\ s1(c).revoked = c
      /\ s2 \in Slot /\ s2.revoked = t.slots[n].revoked
  BY <1>1 DEF Slot
<1> HIDE DEF s1, s2
<1>3. /\ \A c \in BOOLEAN : SetRevoked(t, n, c) = Put(t, n, s1(c))
      /\ SetBlock(t, n, u) = Put(t, n, s2)
  BY DEF SetRevoked, SetBlock, s1, s2
<1>4. ASSUME NEW s \in Slot
      PROVE  /\ Put(t, n, s) \in Table /\ Registered(Put(t, n, s)) = Registered(t)
             /\ \A m \in Registered(t) : Put(t, n, s).slots[m] = IF m = n THEN s ELSE t.slots[m]
  BY PutReplaces
<1>5. SameFlags(t, SetBlock(t, n, u))
  BY <1>2, <1>3, <1>4 DEF SameFlags
<1>6. ASSUME NEW c \in BOOLEAN
      PROVE  /\ SetRevoked(t, n, c) \in Table /\ Registered(SetRevoked(t, n, c)) = Registered(t)
             /\ SetRevoked(t, n, c).slots[n].revoked = c
             /\ \A m \in Registered(t) \ {n} : SetRevoked(t, n, c).slots[m] = t.slots[m]
  BY <1>2, <1>3, <1>4
<1>7. SameFlags(t, SetRevoked(t, n, FALSE))
  BY <1>6 DEF SameFlags
<1>8. QED
  BY <1>5, <1>6, <1>7

\* Clearing the mark of a slot, and setting it.
LEMMA ClearedFlag ==
  ASSUME NEW t \in Table, NEW n \in Registered(t)
  PROVE  SameFlags(t, SetRevoked(t, n, FALSE)) /\ ~SetRevoked(t, n, FALSE).slots[n].revoked
<1>1. NoAccount \in Owner
  BY DEF Owner
<1>2. QED
  BY <1>1, FlagsOfFields

LEMMA SetFlag ==
  ASSUME NEW t \in Table, NEW n \in Registered(t), NEW r, r = SetRevoked(t, n, TRUE)
  PROVE  /\ Registered(r) = Registered(t)
         /\ \A m \in Registered(t) \ {n} : r.slots[m] = t.slots[m]
<1>1. PICK s : s = [t.slots[n] EXCEPT !.revoked = TRUE]
  OBVIOUS
<1>2. s \in Slot
  BY <1>1, RegisteredIsSlot DEF Slot
<1>3. r = Put(t, n, s)
  BY <1>1 DEF SetRevoked
<1>4. /\ Registered(Put(t, n, s)) = Registered(t)
      /\ \A m \in Registered(t) : Put(t, n, s).slots[m] = IF m = n THEN s ELSE t.slots[m]
  BY <1>2, PutReplaces
<1>5. QED
  BY <1>3, <1>4

\* What a refresh's response says of the slot leaves its flag alone.
LEMMA FlagsOfRenamed ==
  ASSUME mem \in Table, NEW n \in Registered(mem), NEW c \in Cred, NEW t \in Renamed(n, c)
  PROVE  SameFlags(mem, t)
<1>1. n \in SlotIds /\ mem.slots[n] \in Slot /\ c.acct \in Owner /\ Registered(mem) \subseteq SlotIds
  BY RegisteredIsSlot DEF Cred, Owner, Registered
<1>2. PICK s : s = [mem.slots[n] EXCEPT !.uuid = c.acct]
  OBVIOUS
<1>3. s \in Slot /\ s.revoked = mem.slots[n].revoked
  BY <1>1, <1>2 DEF Slot
<1>4. PICK named : named = Put(mem, n, s)
  OBVIOUS
<1>5. SameFlags(mem, named) /\ named \in Table /\ n \in Registered(named)
  BY <1>3, <1>4, PutReplaces DEF SameFlags
<1>6. t \in {mem, named, SetBlock(named, n, c.acct)}
  BY <1>2, <1>4 DEF Renamed
<1>7. SameFlags(named, SetBlock(named, n, c.acct))
  BY <1>1, <1>5, FlagsOfFields
<1>8. QED
  BY <1>5, <1>6, <1>7 DEF SameFlags

\* So do SyncActive's writes, to the slot it writes or to none.
LEMMA FlagsOfSync ==
  ASSUME who \in Owner, NEW t \in Table, NEW n \in Registered(t), AdoptLiveInto(n, t)
  PROVE  /\ SameFlags(t, mem')
         /\ kc' = kc \/ (kc' = [kc EXCEPT ![n] = seen] /\ ~mem'.slots[n].revoked)
<1> DEFINE s == SetRevoked(t, n, FALSE)
<1>1. SameFlags(t, s) /\ s \in Table /\ n \in Registered(s) /\ ~s.slots[n].revoked
  BY FlagsOfFields DEF SameFlags
<1>2. SameFlags(s, SetBlock(s, n, who))
  BY <1>1, FlagsOfFields
<1>3. \/ mem' = t /\ kc' = kc
      \/ mem' \in {s, SetBlock(s, n, who)} /\ kc' = [kc EXCEPT ![n] = seen]
  BY DEF AdoptLiveInto
<1> HIDE DEF s
<1>4. QED
  BY <1>1, <1>2, <1>3 DEF SameFlags

\* Marked(mem)' of the table that a step leaves.
MarkedNext(r) == \A n \in Registered(r) : r.slots[n].revoked => Condemned(n)'

\* A table stays marked when it gains no flag and no slot gains a credential.
LEMMA MarkedStays ==
  ASSUME TypeOK, Sound, Onward, DeadlinesStay, NEW t, Marked(t), NEW r, SameFlags(t, r),
         \A n \in Registered(t) : kc'[n] = kc[n] \/ ~r.slots[n].revoked
  PROVE  MarkedNext(r)
<1> SUFFICES ASSUME NEW n \in Registered(r), r.slots[n].revoked
             PROVE  Condemned(n)'
  BY DEF MarkedNext
<1>1. n \in Registered(t) /\ n \in SlotIds /\ t.slots[n].revoked /\ kc'[n] = kc[n]
  BY DEF SameFlags, Registered
<1>2. QED
  BY <1>1, CondemnedStays DEF Marked

\* A command's step that writes no slot's item.
LEMMA QuietJudging ==
  ASSUME TypeOK, Sound, Onward, DeadlinesStay, Judging, UNCHANGED <<kc, disk>>, pc' \notin {"idle", "dead"},
         \/ pc = "idle" /\ mem' = disk
         \/ pc \notin {"idle", "save"} /\ SameFlags(mem, mem') /\ cmd' = cmd,
         \A n \in SlotIds : got'[n].kind = "rejected" => Condemned(n)'
  PROVE  Judging'
<1>1. disk \in Table /\ SameFlags(disk, disk)
  BY DEF TypeOK, SameFlags
<1>2. Marked(disk) => MarkedNext(disk)
  BY <1>1, MarkedStays
<1>3. CASE pc = "idle" /\ mem' = disk
  BY <1>2, <1>3 DEF Judging, MarkedNext, Marked, Registered
<1>4. CASE pc \notin {"idle", "save"} /\ SameFlags(mem, mem') /\ cmd' = cmd
  <2>1. MarkedNext(mem') /\ Registered(mem') = SlotIds
    BY <1>4, MarkedStays DEF Judging, SameFlags
  <2>2. cmd' \in {"adopt", "label"} => Marked(disk)
    BY <1>4 DEF Judging
  <2>3. QED
    BY <1>2, <2>1, <2>2 DEF Judging, MarkedNext, Marked, Registered
<1>5. QED
  BY <1>3, <1>4

\* One that writes one slot's item, whose flag it clears.
LEMMA FilingJudging ==
  ASSUME TypeOK, Sound, Onward, DeadlinesStay, Judging, disk' = disk, pc' \notin {"idle", "dead"},
         pc # "idle", SameFlags(mem, mem'), cmd' \in {"adopt", "label"} => pc' = "save",
         NEW n \in SlotIds, NEW c, kc' = [kc EXCEPT ![n] = c], ~mem'.slots[n].revoked,
         \A m \in SlotIds : got'[m].kind = "rejected" => m # n /\ got[m].kind = "rejected"
  PROVE  Judging'
<1>1. \A m \in SlotIds : kc'[m] = IF m = n THEN c ELSE kc[m]
  BY DEF TypeOK
<1>2. \A m \in Registered(mem) : kc'[m] = kc[m] \/ ~mem'.slots[m].revoked
  BY <1>1 DEF Registered
<1>3. MarkedNext(mem')
  BY <1>2, MarkedStays DEF Judging
<1>4. ASSUME NEW m \in SlotIds, got'[m].kind = "rejected"
      PROVE  Condemned(m)'
  BY <1>1, <1>4, CondemnedStays DEF Judging
<1>5. QED
  BY <1>3, <1>4 DEF Judging, MarkedNext, Marked, Registered, SameFlags

\* A command that returns before it has written anything.
LEMMA FailJudging ==
  ASSUME TypeOK, Sound, Onward, DeadlinesStay, Judging, Fail, cmd \in {"adopt", "label"}, pc # "save"
  PROVE  Judging'
<1>1. disk' = disk /\ kc' = kc /\ pc' = "idle" /\ got' = NoCalls
  BY DEF Fail, Exit, Gone, stores
<1>2. Marked(disk) /\ disk \in Table /\ SameFlags(disk, disk)
  BY DEF Judging, TypeOK, SameFlags
<1>3. MarkedNext(disk)
  BY <1>1, <1>2, MarkedStays
<1>4. QED
  BY <1>1, <1>3 DEF Judging, MarkedNext, Marked, Registered, NoCalls, Nothing

\* SyncActive.
LEMMA SyncJudging ==
  ASSUME IInv, Sound, Onward, DeadlinesStay, Judging, Errand, SyncConfirm
  PROVE  Judging'
<1>1. TypeOK /\ mem \in Table /\ who \in Owner /\ Bookkeeping
  BY DEF IInv, TypeOK
<1>2. /\ disk' = disk /\ pc = "confirm" /\ pc' = "act" /\ cmd' = cmd /\ got' = got
      /\ cmd \notin {"adopt", "label"}
  BY DEF SyncConfirm, Errand, Synced
<1>3. PICK n :
        /\ n # 0 => n \in Registered(mem)
        /\ \/ n # 0 /\ AdoptLiveInto(n, Activate(mem, n))
           \/ n = 0 /\ mem' = Activate(mem, 0) /\ kc' = kc
  BY <1>1, SyncTargetFits DEF SyncConfirm
<1>4. \A m \in SlotIds : got[m].kind # "rejected"
  BY <1>1, <1>2 DEF Bookkeeping, NoCalls, Nothing
<1>5. PICK t : t = Activate(mem, n)
  OBVIOUS
<1>6. n \in SlotIds \union {0} /\ SameFlags(mem, t) /\ t \in Table /\ Registered(t) = Registered(mem)
  BY <1>1, <1>3, <1>5, RegisteredIsSlot, ActivateKeepsSlots DEF SameFlags
<1>7. CASE n = 0
  <2>1. kc' = kc /\ mem' = t
    BY <1>3, <1>5, <1>7
  <2>2. QED
    BY <1>1, <1>2, <1>4, <1>6, <2>1, QuietJudging
<1>8. CASE n # 0
  <2>1. n \in Registered(t) /\ AdoptLiveInto(n, t)
    BY <1>3, <1>5, <1>6, <1>8
  <2>2. SameFlags(mem, mem') /\ (kc' = kc \/ (kc' = [kc EXCEPT ![n] = seen] /\ ~mem'.slots[n].revoked))
    BY <1>1, <1>6, <2>1, FlagsOfSync DEF SameFlags
  <2>3. CASE kc' = kc
    BY <1>1, <1>2, <1>4, <2>2, <2>3, QuietJudging
  <2>4. CASE kc' = [kc EXCEPT ![n] = seen] /\ ~mem'.slots[n].revoked
    BY <1>1, <1>2, <1>4, <1>6, <1>8, <2>2, <2>4, FilingJudging
  <2>5. QED
    BY <2>2, <2>3, <2>4
<1>9. QED
  BY <1>7, <1>8

\* adopt files under a slot there is, whose flag it clears.
LEMMA AdoptJudging ==
  ASSUME IInv, Sound, Onward, DeadlinesStay, Judging, AdoptStore
  PROVE  Judging'
<1>1. TypeOK /\ mem \in Table /\ who \in Owner /\ Bookkeeping /\ env \in Cred /\ cmd = "adopt"
  BY DEF IInv, TypeOK, Bookkeeping, AdoptStore
<1>2. CASE Fail
  BY <1>1, <1>2, FailJudging DEF AdoptStore
<1>3. CASE ~Fail
  <2>1. PICK answer \in Answers(env) :
     LET byConfig == FindByAccountUUID(mem, who)
         found == IF byConfig # 0 THEN byConfig ELSE FindByAccountUUID(mem, answer)
         n == IF found # 0 THEN found ELSE NextFreeSlot(mem)
         old == IF found # 0 THEN mem.slots[n]
                ELSE [uuid |-> who, block |-> who, revoked |-> FALSE]
         new == IF answer # NoAccount
                THEN [uuid |-> answer, block |-> answer, revoked |-> FALSE]
                ELSE [old EXCEPT !.revoked = FALSE,
                                 !.block = IF @ = NoAccount THEN who ELSE @]
     IN n # 0 /\ kc' = [kc EXCEPT ![n] = env] /\ mem' = Activate(Put(mem, n, new), n)
    BY <1>3 DEF AdoptStore
  <2>2. PICK found : found = IF FindByAccountUUID(mem, who) # 0 THEN FindByAccountUUID(mem, who)
                             ELSE FindByAccountUUID(mem, answer)
    OBVIOUS
  <2>3. PICK n : n = IF found # 0 THEN found ELSE NextFreeSlot(mem)
    OBVIOUS
  <2>4. PICK old : old = IF found # 0 THEN mem.slots[n]
                         ELSE [uuid |-> who, block |-> who, revoked |-> FALSE]
    OBVIOUS
  <2>5. PICK s : s = IF answer # NoAccount
                     THEN [uuid |-> answer, block |-> answer, revoked |-> FALSE]
                     ELSE [old EXCEPT !.revoked = FALSE,
                                      !.block = IF @ = NoAccount THEN who ELSE @]
    OBVIOUS
  <2>6. n # 0 /\ kc' = [kc EXCEPT ![n] = env] /\ mem' = Activate(Put(mem, n, s), n)
    BY <2>1, <2>2, <2>3, <2>4, <2>5
  <2>7. Registered(mem) = SlotIds
    BY <1>3 DEF Judging, AdoptStore
  <2>8. found # 0
    BY <1>1, <2>3, <2>6, <2>7, NextFreeIsFree
  <2>9. n = found /\ n \in Registered(mem) /\ n \in SlotIds /\ mem.slots[n] \in Slot
    BY <1>1, <2>2, <2>3, <2>8, FindReturnsOwnSlot, RegisteredIsSlot
  <2>10. s \in Slot /\ ~s.revoked
    BY <1>1, <2>4, <2>5, <2>8, <2>9, AnswersAreOwners DEF Slot, Cred
  <2>11. PICK p : p = Put(mem, n, s)
    OBVIOUS
  <2>12. /\ SameFlags(mem, p) /\ ~p.slots[n].revoked
    BY <1>1, <2>9, <2>10, <2>11, PutReplaces DEF SameFlags
  <2>13. SameFlags(mem, mem') /\ ~mem'.slots[n].revoked
    BY <2>6, <2>9, <2>11, <2>12, ActivateKeepsSlots DEF SameFlags
  <2>14. disk' = disk /\ got' = got /\ pc' = "save" /\ pc = "adoptStore" /\ got = NoCalls
    BY <1>1, <1>3 DEF AdoptStore, Bookkeeping
  <2>15. \A m \in SlotIds : got'[m].kind # "rejected"
    BY <2>14 DEF NoCalls, Nothing
  <2>16. QED
    BY <1>1, <2>6, <2>9, <2>13, <2>14, <2>15, FilingJudging
<1>4. QED
  BY <1>2, <1>3

\* A call that is rejected was for a credential that is dead.
LEMMA CallJudging ==
  ASSUME IInv, Sound, Judging, Onward, DeadlinesStay, cmd # "clean", NEW n \in SlotIds, Call(n)
  PROVE  Judging'
<1>1. TypeOK /\ ServerTypeOK /\ ServerSound /\ mem \in Table /\ kc[n] \in Cred
  BY DEF IInv, TypeOK, Sound, Bookkeeping, Call
<1>2. PICK out \in Outcome : RefreshOrRecover(n, kc[n], out) /\ got' = [got EXCEPT ![n] = out]
  BY DEF Call
<1>3. UNCHANGED <<kc, disk, mem, cmd, pc>> /\ pc = "calls"
  BY DEF Call, stores
<1>4. out.kind = "rejected" => kc[n].gen \notin unspent'[kc[n].acct]
  <2>1. CASE Refresh(kc[n], out)
    BY <1>1, <2>1, RefreshOnward
  <2>2. CASE Refresh(kc[n], Rejected)
    BY <1>1, <2>2, RefreshOnward DEF Rejected
  <2>3. QED
    BY <1>2, <2>1, <2>2 DEF RefreshOrRecover
<1>5. ASSUME NEW m \in SlotIds, got'[m].kind = "rejected"
      PROVE  Condemned(m)'
  <2>1. CASE m = n
    BY <1>1, <1>2, <1>3, <1>4, <1>5, <2>1 DEF TypeOK, Condemned, Useless, Works, Good
  <2>2. CASE m # n
    BY <1>1, <1>2, <1>3, <1>5, <2>2, CondemnedStays DEF TypeOK, Judging
  <2>3. QED
    BY <2>1, <2>2
<1>6. SameFlags(mem, mem')
  BY <1>1, <1>3 DEF SameFlags
<1>7. QED
  BY <1>1, <1>3, <1>5, <1>6, QuietJudging

\* The writes of a pass.
LEMMA PassJudging ==
  ASSUME IInv, Sound, Judging, Onward, DeadlinesStay, cmd \notin {"adopt", "label", "clean"},
         \/ \E n \in SlotIds : ApplyRenewed(n) \/ ApplyFailed(n) \/ ApplyRejected(n)
         \/ CallsDone \/ Mirror
  PROVE  Judging'
<1>1. TypeOK /\ mem \in Table /\ Bookkeeping /\ NoAccount \in Owner
  BY DEF IInv, TypeOK, Owner
<1>2. \A m \in SlotIds : got[m].kind = "rejected" /\ kc'[m] = kc[m] => Condemned(m)'
  BY <1>1, CondemnedStays DEF Judging
<1>3. ASSUME NEW n \in SlotIds, Apply(n), got[n].kind # "none"
      PROVE  /\ n \in Registered(mem) /\ disk' = disk /\ cmd' = cmd /\ pc = "calls"
             /\ \A m \in SlotIds : got'[m] = IF m = n THEN Nothing ELSE got[m]
  BY <1>1, <1>3 DEF Apply, Bookkeeping, TypeOK
<1>4. ASSUME NEW n \in SlotIds, ApplyRenewed(n)
      PROVE  Judging'
  <2>1. /\ n \in Registered(mem) /\ disk' = disk /\ cmd' = cmd /\ pc = "calls"
        /\ \A m \in SlotIds : got'[m] = IF m = n THEN Nothing ELSE got[m]
    BY <1>3, <1>4 DEF ApplyRenewed
  <2>2. got[n].cred \in Cred
    BY <1>1, <1>4 DEF ApplyRenewed, TypeOK, Outcome, Rejected, Failed, Nothing
  <2>3. PICK t \in {mem} \union Renamed(n, got[n].cred) :
          \/ kc' = [kc EXCEPT ![n] = got[n].cred] /\ mem' = SetRevoked(t, n, FALSE)
          \/ mem' = t /\ kc' = kc
    BY <1>4 DEF ApplyRenewed
  <2>4. pc' \in {"mirror", "calls"}
    BY <1>4, <2>1 DEF ApplyRenewed
  <2>5. SameFlags(mem, t) /\ t \in Table /\ n \in Registered(t)
    BY <1>1, <2>1, <2>2, <2>3, FlagsOfRenamed DEF SameFlags
  <2>6. \A m \in SlotIds : got'[m].kind = "rejected" => m # n /\ got[m].kind = "rejected"
    BY <2>1 DEF Nothing
  <2>7. CASE kc' = [kc EXCEPT ![n] = got[n].cred] /\ mem' = SetRevoked(t, n, FALSE)
    <3>1. SameFlags(mem, mem') /\ ~mem'.slots[n].revoked
      BY <2>5, <2>7, ClearedFlag DEF SameFlags
    <3>2. QED
      BY <1>1, <2>1, <2>4, <2>6, <2>7, <3>1, FilingJudging
  <2>8. CASE mem' = t /\ kc' = kc
    BY <1>1, <1>2, <2>1, <2>4, <2>5, <2>6, <2>8, QuietJudging
  <2>9. QED
    BY <2>3, <2>7, <2>8
<1>5. ASSUME NEW n \in SlotIds, ApplyFailed(n)
      PROVE  Judging'
  <2>1. /\ disk' = disk /\ cmd' = cmd /\ pc = "calls" /\ pc' = "calls" /\ kc' = kc /\ mem' = mem
        /\ \A m \in SlotIds : got'[m] = IF m = n THEN Nothing ELSE got[m]
    BY <1>3, <1>5 DEF ApplyFailed
  <2>2. \A m \in SlotIds : got'[m].kind = "rejected" => Condemned(m)'
    BY <1>2, <2>1 DEF Nothing
  <2>3. QED
    BY <1>1, <2>1, <2>2, QuietJudging DEF SameFlags
<1>6. ASSUME NEW n \in SlotIds, ApplyRejected(n)
      PROVE  Judging'
  <2>1. /\ n \in Registered(mem) /\ disk' = disk /\ cmd' = cmd /\ pc = "calls"
        /\ \A m \in SlotIds : got'[m] = IF m = n THEN Nothing ELSE got[m]
    BY <1>3, <1>6 DEF ApplyRejected
  <2>2. got[n].kind = "rejected" /\ mem' = SetRevoked(mem, n, TRUE) /\ kc' = kc /\ pc' = "calls"
    BY <1>6, <2>1 DEF ApplyRejected
  <2>3. /\ Registered(mem') = Registered(mem) /\ Registered(mem) \subseteq SlotIds
        /\ \A m \in Registered(mem) \ {n} : mem'.slots[m] = mem.slots[m]
    <3>1. PICK r : r = SetRevoked(mem, n, TRUE)
      OBVIOUS
    <3>2. Registered(r) = Registered(mem) /\ \A m \in Registered(mem) \ {n} : r.slots[m] = mem.slots[m]
      BY <1>1, <2>1, <3>1, SetFlag
    <3>3. mem' = r
      BY <2>2, <3>1
    <3>4. QED
      BY <3>2, <3>3 DEF Registered
  <2>4. \A m \in SlotIds : got'[m].kind = "rejected" => Condemned(m)'
    BY <1>2, <2>1, <2>2 DEF Nothing
  <2>5. ASSUME NEW m \in Registered(mem'), mem'.slots[m].revoked
        PROVE  Condemned(m)'
    <3>1. CASE m = n
      BY <1>2, <2>2, <3>1
    <3>2. CASE m # n
      BY <1>1, <2>1, <2>2, <2>3, <2>5, <3>2, CondemnedStays DEF Judging, Marked
    <3>3. QED
      BY <3>1, <3>2
  <2>6. QED
    BY <2>1, <2>2, <2>3, <2>4, <2>5 DEF Judging, Marked, Registered
<1>7. CASE CallsDone
  <2>1. UNCHANGED <<kc, disk, got, cmd>> /\ pc = "calls" /\ pc' \in {"ask", "save"} /\ Pending = {}
    BY <1>7 DEF CallsDone, stores, locals
  <2>2. Dead = {}
    BY <2>1 DEF Pending, Dead
  <2>3. mem' = [mem EXCEPT !.slots = [n \in SlotIds |-> mem.slots[n]]]
    BY <1>7, <2>2 DEF CallsDone
  <2>4. mem' = mem
    BY <1>1, <2>3 DEF Table
  <2>5. SameFlags(mem, mem')
    BY <1>1, <2>4 DEF SameFlags
  <2>6. QED
    BY <1>1, <1>2, <2>1, <2>5, QuietJudging
<1>8. CASE Mirror
  <2>1. UNCHANGED <<kc, disk, got, cmd, mem>> /\ pc = "mirror" /\ pc' = "calls"
    BY <1>8 DEF Mirror
  <2>2. SameFlags(mem, mem')
    BY <1>1, <2>1 DEF SameFlags
  <2>3. QED
    BY <1>1, <1>2, <2>1, <2>2, QuietJudging
<1>9. QED
  BY <1>4, <1>5, <1>6, <1>7, <1>8

\* A step outside the command.
LEMMA OutsideJudging ==
  ASSUME TypeOK, Sound, Onward, DeadlinesStay, Judging, UNCHANGED <<kc, disk, mem, pc, cmd, got>>
  PROVE  Judging'
<1>1. SameFlags(mem, mem) /\ SameFlags(disk, disk)
  BY DEF TypeOK, SameFlags
<1>2. (Marked(mem) => MarkedNext(mem)) /\ (Marked(disk) => MarkedNext(disk))
  BY <1>1, MarkedStays
<1>3. \A n \in SlotIds : got[n].kind = "rejected" => Condemned(n)'
  BY CondemnedStays DEF Judging
<1>4. QED
  BY <1>2, <1>3 DEF Judging, MarkedNext, Marked, Registered

\* The commands of a Lasting run keep the flag true: whatever a command finds and
\* stores under a slot, it also saves.
LEMMA NextKeepsJudging ==
  ASSUME Lasting, IInv, Sound, Errand, Judging, Next
  PROVE  Judging'
<1>1. /\ TypeOK /\ Bookkeeping /\ Onward /\ DeadlinesStay /\ mem \in Table
      /\ cmd \in {"adopt", "label", "list", "limit", "refresh", "none"}
  BY NextHolds, DeadlinesLast DEF IInv, TypeOK, Errand, Lasting
<1>2. /\ pc \notin {"dead", "ensure", "rotate", "park", "install", "point", "loginSave",
                    "register", "ask", "sweep"}
      /\ pc \in {"calls", "mirror", "sync", "confirm"} => cmd \notin {"adopt", "label", "clean"}
  BY <1>1 DEF Errand, Bookkeeping, Judging, Synced
<1>3. ASSUME pc \notin {"calls", "mirror", "ask", "sweep", "save"}, NEW n \in SlotIds
      PROVE  got[n].kind # "rejected"
  BY <1>1, <1>3 DEF Bookkeeping, NoCalls, Nothing
<1>4. ASSUME UNCHANGED <<kc, disk, got>>, pc \notin {"calls", "mirror", "save"},
             pc' \notin {"idle", "dead"},
             \/ pc = "idle" /\ mem' = disk
             \/ pc # "idle" /\ mem' = mem /\ cmd' = cmd
      PROVE  Judging'
  <2>1. SameFlags(mem, mem)
    BY <1>1 DEF SameFlags
  <2>2. QED
    BY <1>1, <1>2, <1>3, <1>4, <2>1, QuietJudging
<1>5. CASE \E c \in Commands, n \in SlotIds \union {0} : Begin(c, n)
  BY <1>4, <1>5 DEF Begin, stores
<1>6. CASE Save
  <2>1. disk' = mem /\ kc' = kc /\ pc' = "idle" /\ got' = NoCalls /\ pc = "save"
    BY <1>6 DEF Save, Lasting, Exit, Gone
  <2>2. SameFlags(mem, mem) /\ Marked(mem) /\ Registered(mem) = SlotIds
    BY <1>1, <2>1 DEF SameFlags, Judging
  <2>3. MarkedNext(mem)
    <3>1. kc' = kc
      BY <2>1
    <3>2. QED
      BY <1>1, <2>2, <3>1, MarkedStays
  <2>4. QED
    BY <2>1, <2>2, <2>3 DEF Judging, MarkedNext, Marked, Registered, NoCalls, Nothing
<1>7. CASE SyncRead
  BY <1>4, <1>7 DEF SyncRead, stores
<1>8. CASE SyncConfirm
  BY <1>1, <1>8, SyncJudging
<1>9. ASSUME PlanRefresh \/ PlanAuto
      PROVE  Judging'
  <2>1. PICK due, dead : Calls(due, dead) /\ \A n \in dead : n \in SlotIds => Expired(n)
    <3>1. ~Fail
      <4>1. tgt \in Registered(mem) \union {0}
        BY <1>1, <1>9 DEF Judging, PlanRefresh, PlanAuto, TypeOK
      <4>2. pc' = "calls"
        BY <1>9, <4>1 DEF PlanRefresh, PlanAuto, Calls
      <4>3. QED
        BY <4>2 DEF Fail, Exit, Gone
    <3>2. CASE PlanRefresh
      <4>1. PICK due : Calls(due \ {n \in due : Expired(n)}, {n \in due : Expired(n)})
        BY <3>1, <3>2 DEF PlanRefresh
      <4>2. \A n \in {m \in due : Expired(m)} : Expired(n)
        OBVIOUS
      <4>3. QED
        BY <4>1, <4>2
    <3>3. CASE PlanAuto
      <4>1. \E due : Calls(due, {})
        BY <3>1, <3>3 DEF PlanAuto
      <4>2. QED
        BY <4>1
    <3>4. QED
      BY <1>9, <3>2, <3>3
  <2>2. /\ UNCHANGED <<kc, disk, mem, cmd>> /\ pc' = "calls" /\ pc = "act"
        /\ \A n \in SlotIds : got'[n].kind = "rejected" => n \in dead
    BY <1>9, <2>1 DEF Calls, stores, Nothing, PlanRefresh, PlanAuto
  <2>3. \A n \in SlotIds : got'[n].kind = "rejected" => Condemned(n)'
    BY <1>1, <2>1, <2>2, ExpiredIsCondemned, CondemnedStays
  <2>4. SameFlags(mem, mem')
    BY <1>1, <2>2 DEF SameFlags
  <2>5. QED
    BY <1>1, <2>2, <2>3, <2>4, QuietJudging
<1>10. ASSUME NEW n \in SlotIds, Call(n)
       PROVE  Judging'
  BY <1>1, <1>2, <1>10, CallJudging DEF Call
<1>11. CASE \/ \E n \in SlotIds : ApplyRenewed(n) \/ ApplyFailed(n) \/ ApplyRejected(n)
            \/ CallsDone \/ Mirror
  <2>1. pc \in {"calls", "mirror"}
    BY <1>11 DEF ApplyRenewed, ApplyFailed, ApplyRejected, Apply, CallsDone, Mirror
  <2>2. QED
    BY <1>1, <1>2, <1>11, <2>1, PassJudging
<1>12. ASSUME Label \/ Adopt
       PROVE  Judging'
  <2>1. pc = "act" /\ cmd \in {"label", "adopt"}
    BY <1>12 DEF Label, Adopt
  <2>2. CASE Fail
    BY <1>1, <2>1, <2>2, FailJudging
  <2>3. CASE ~Fail
    <3>1. UNCHANGED <<kc, disk, got, mem, cmd>> /\ pc' \in {"save", "adoptRotate", "adoptStore"}
      BY <1>12, <2>3 DEF Label, Adopt, stores, locals
    <3>2. QED
      BY <1>4, <2>1, <3>1
  <2>4. QED
    BY <2>2, <2>3
<1>13. CASE AdoptRotate \/ AdoptWrite
  BY <1>4, <1>13 DEF AdoptRotate, AdoptWrite, stores
<1>14. CASE AdoptStore
  BY <1>1, <1>14, AdoptJudging
<1>15. CASE ClaudeCode
  BY <1>1, <1>15, OutsideErrand, OutsideJudging DEF locals
<1>16. ~Crash
  BY DEF Crash, Lasting
<1>17. ASSUME \/ Switch \/ EnsureFresh \/ EnsureFreshCall \/ EnsureFreshStore \/ Install \/ Point
              \/ PlanClean \/ Ask \/ RemoveSlot \/ Login \/ Register \/ LoginSave \/ Release
              \/ \E n \in SlotIds : Sweep(n)
       PROVE  FALSE
  BY <1>1, <1>2, <1>17 DEF Switch, EnsureFresh, EnsureFreshCall, EnsureFreshStore, Install, Point,
     PlanClean, Ask, RemoveSlot, Login, Register, LoginSave, Release, Sweep
<1>18. QED
  BY <1>5, <1>6, <1>7, <1>8, <1>9, <1>10, <1>11, <1>12, <1>13, <1>14, <1>15, <1>16, <1>17
     DEF Next, Step

\* At first no slot is called revoked.
LEMMA InitJudging ==
  ASSUME Lasting, Init
  PROVE  Judging
<1>1. PICK a \in Owner : disk = StartTable(a)
  BY DEF Init
<1>2. \A n \in SlotIds : disk.slots[n] = [uuid |-> Start[n], block |-> Start[n], revoked |-> FALSE]
  BY <1>1 DEF StartTable, Lasting
<1>3. \A n \in SlotIds : disk.slots[n] \in Slot /\ ~disk.slots[n].revoked
  <2>1. \A u \in Owner : LET s == [uuid |-> u, block |-> u, revoked |-> FALSE]
                         IN s \in Slot /\ ~s.revoked
    BY DEF Slot
  <2>2. \A n \in SlotIds : Start[n] \in Owner
    BY ClaudeSwitchAssumption
  <2>3. QED
    BY <1>2, <2>1, <2>2
<1>4. Registered(disk) = SlotIds /\ Marked(disk)
  BY <1>3, SlotTableAssumption DEF Registered, Marked
<1>5. QED
  BY <1>4 DEF Init, Judging, NoCalls, Nothing

-----------------------------------------------------------------------------
(***************************************************************************)
(* One chain of credentials for every account.                             *)
(***************************************************************************)

\* A credential is its account and its generation.
LEMMA SameCred ==
  ASSUME NEW c \in Creds, NEW d \in Creds, c.acct = d.acct, c.gen = d.gen
  PROVE  c = d
BY IdentityAssumption DEF Creds, Cred, NoCred

\* Whatever was issued is at most as new as the newest one of its account.
LEMMA NewestIsLast ==
  ASSUME TypeOK, NEW c \in Issued, NEW d \in Cred, Newest(d)
  PROVE  UpTo(c, d) /\ (c # d => Before(c, d))
<1> SUFFICES ASSUME d.acct = c.acct
             PROVE  c.gen <= d.gen /\ (c # d => c.gen < d.gen)
  BY DEF UpTo, Before
<1>1. d.acct \in Accounts /\ d.gen \in Nat
  BY DEF Cred, Gens
<1>2. c # NoCred
  BY <1>1, IdentityAssumption DEF NoCred
<1>3. c \in Cred /\ c.gen \in Nat /\ c.gen <= issued[c.acct]
  BY <1>2, IssuedCred
<1>4. c # d => c.gen # d.gen
  BY <1>3, SameCred DEF Creds
<1>5. QED
  BY <1>1, <1>3, <1>4 DEF Newest

\* Only the newest one works.
LEMMA GoodIsNewest ==
  ASSUME TypeOK, Chained, NEW c \in Cred, Good(c)
  PROVE  Newest(c)
BY DEF Chained, Good, Newest, Cred

\* When it is spent, its successor is the newest.
LEMMA RotateChain ==
  ASSUME TypeOK, Chained, NEW c \in Cred, Rotate(c)
  PROVE  /\ Newest(c) /\ c.acct \in Accounts /\ NextCred(c.acct) \in Cred
         /\ NextCred(c.acct).acct = c.acct /\ NextCred(c.acct) \notin Issued
         /\ NextCred(c.acct).gen = issued'[c.acct] /\ issued'[c.acct] = issued[c.acct] + 1
         /\ \A a \in Accounts \ {c.acct} : issued'[a] = issued[a] /\ unspent'[a] = unspent[a]
         /\ unspent'[c.acct] \subseteq {issued'[c.acct]}
         /\ \A a \in Accounts : unspent'[a] \subseteq {issued'[a]}
         /\ c.gen \notin unspent'[c.acct]
<1>1. ServerTypeOK /\ c.acct \in Accounts /\ c.gen \in Nat /\ Good(c)
  BY DEF TypeOK, Cred, Gens, Rotate
<1>2. Newest(c)
  BY <1>1, GoodIsNewest
<1>3. NextCred(c.acct) \in Cred /\ issued[c.acct] \in Nat /\ unspent[c.acct] \subseteq {c.gen}
  BY <1>1, <1>2, RotateTypes DEF ServerTypeOK, Gens, Chained, Newest
<1>4. /\ issued'[c.acct] = issued[c.acct] + 1
      /\ unspent'[c.acct] = (unspent[c.acct] \ {c.gen}) \union {issued[c.acct] + 1}
      /\ \A a \in Accounts \ {c.acct} : issued'[a] = issued[a] /\ unspent'[a] = unspent[a]
  BY <1>1 DEF Rotate, ServerTypeOK
<1>5. unspent'[c.acct] \subseteq {issued'[c.acct]} /\ c.gen \notin unspent'[c.acct]
  BY <1>1, <1>2, <1>3, <1>4 DEF Newest
<1>6. NextCred(c.acct).acct = c.acct /\ NextCred(c.acct).gen = issued[c.acct] + 1
  BY DEF NextCred
<1>7. NextCred(c.acct) \notin Issued
  BY <1>1, <1>3, <1>6, NoCredIsNoCred DEF Issued
<1>8. \A a \in Accounts : unspent'[a] \subseteq {issued'[a]}
  BY <1>4, <1>5 DEF Chained
<1>9. QED
  BY <1>1, <1>2, <1>3, <1>4, <1>5, <1>6, <1>7, <1>8

\* Copies as a set that holds everything cas and the live item hold.
LEMMA CopiesHeld ==
  ASSUME TypeOK
  PROVE  /\ CopiesIn(Copies \union {NoCred})
         /\ \A D : CopiesNext(D) => Copies' \subseteq D
<1>1. CopiesIn(Copies \union {NoCred})
  <2>1. kc \in [SlotIds -> Creds]
    BY DEF TypeOK
  <2>2. QED
    BY <2>1 DEF CopiesIn, Copies
<1>2. \A D : CopiesNext(D) => Copies' \subseteq D
  BY DEF CopiesNext, Copies
<1>3. QED
  BY <1>1, <1>2

\* A refresh call spends its credential, or nothing.
LEMMA RefreshSpends ==
  ASSUME NEW c, NEW out, Refresh(c, out)
  PROVE  \/ UNCHANGED server /\ out.cred = NoCred
         \/ Rotate(c) /\ out.cred \in {NextCred(c.acct), NoCred}
BY DEF Refresh, Ok, Rejected, Failed

\* With the recovery it may bring the live credential back.
LEMMA RefreshOrRecoverSpends ==
  ASSUME NEW n, NEW c, NEW out, RefreshOrRecover(n, c, out), Faults \intersect {"read"} = {}
  PROVE  \/ UNCHANGED server /\ out.cred \in {NoCred, live}
         \/ Rotate(c) /\ out.cred \in {NextCred(c.acct), NoCred}
<1>1. CASE Refresh(c, out)
  BY <1>1, RefreshSpends
<1>2. CASE Refresh(c, Rejected) /\ Recover(n, c, out)
  <2>1. UNCHANGED server
    BY <1>2 DEF Refresh, Rejected, Ok, Failed
  <2>2. LiveReads = {live}
    BY DEF LiveReads
  <2>3. out \in {Recovered(live), Rejected}
    BY <1>2, <2>2 DEF Recover
  <2>4. QED
    BY <2>1, <2>3 DEF Recovered, Rejected
<1>3. QED
  BY <1>1, <1>2 DEF RefreshOrRecover

\* What a step that calls the service brings in: at most the successor of the
\* credential it has spent, which was one that cas held.
Calling == EnsureFreshCall \/ AdoptRotate \/ \E n \in SlotIds : Call(n)

Spending(c) ==
  \/ UNCHANGED server /\ Copies' \subseteq Copies \union {NoCred}
  \/ Rotate(c) /\ Copies' \subseteq Copies \union {NoCred, NextCred(c.acct)}

LEMMA CallingSpends ==
  ASSUME IInv, Faults \intersect {"read"} = {}, Calling
  PROVE  UNCHANGED sess /\ \E c \in Copies \intersect Cred : Spending(c)
<1>1. TypeOK /\ Bookkeeping /\ CopiesIn(Copies \union {NoCred})
  BY CopiesHeld DEF IInv
<1>2. ASSUME NEW c \in Copies \intersect Cred, NEW x,
             \/ UNCHANGED server /\ x \in {NoCred, live}
             \/ Rotate(c) /\ x \in {NextCred(c.acct), NoCred},
             CopiesNext(Copies \union {NoCred, x})
      PROVE  Spending(c)
  <2>1. Copies' \subseteq Copies \union {NoCred, x} /\ live \in Copies
    BY <1>1, <1>2, CopiesHeld DEF Copies
  <2>2. QED
    BY <1>2, <2>1 DEF Spending
<1>3. CASE EnsureFreshCall
  <2>1. env \in Copies \intersect Cred
    BY <1>1, <1>3 DEF EnsureFreshCall, Bookkeeping, Copies
  <2>2. PICK out \in Outcome :
          /\ RefreshOrRecover(tgt, env, out)
          /\ \/ env' = out.cred /\ UNCHANGED <<seen, got>>
             \/ UNCHANGED locals \/ Exit
    BY <1>3 DEF EnsureFreshCall
  <2>3. UNCHANGED <<kc, live, sess>>
    BY <1>3 DEF EnsureFreshCall, stores
  <2>4. CopiesNext(Copies \union {NoCred, out.cred})
    BY <1>1, <2>2, <2>3 DEF CopiesIn, CopiesNext, locals, Exit, Gone, NoCalls, Nothing
  <2>5. QED
    BY <1>2, <2>1, <2>2, <2>3, <2>4, RefreshOrRecoverSpends
<1>4. CASE AdoptRotate
  <2>1. env \in Copies \intersect Cred
    BY <1>1, <1>4 DEF AdoptRotate, Bookkeeping, Copies
  <2>2. PICK out \in Outcome : Refresh(env, out) /\ env' \in {env, out.cred}
    BY <1>4 DEF AdoptRotate
  <2>3. UNCHANGED <<kc, live, sess, seen, got>>
    BY <1>4 DEF AdoptRotate, stores
  <2>4. CopiesNext(Copies \union {NoCred, out.cred})
    BY <1>1, <2>2, <2>3 DEF CopiesIn, CopiesNext
  <2>5. QED
    BY <1>2, <2>1, <2>2, <2>3, <2>4, RefreshSpends
<1>5. ASSUME NEW n \in SlotIds, Call(n)
      PROVE  UNCHANGED sess /\ \E c \in Copies \intersect Cred : Spending(c)
  <2>1. kc[n] \in Copies \intersect Cred
    BY <1>1, <1>5 DEF Call, Bookkeeping, Copies
  <2>2. PICK out \in Outcome :
          /\ got' = [got EXCEPT ![n] = out]
          /\ \/ out = Nothing /\ UNCHANGED server
             \/ Refresh(kc[n], out) \/ RefreshOrRecover(n, kc[n], out)
    BY <1>5 DEF Call
  <2>3. UNCHANGED <<kc, live, sess, seen, env>>
    BY <1>5 DEF Call, stores
  <2>4. \A m \in SlotIds : got'[m] \in {out, got[m]}
    BY <1>1, <2>2 DEF TypeOK
  <2>5. CopiesNext(Copies \union {NoCred, out.cred})
    BY <1>1, <2>3, <2>4 DEF CopiesIn, CopiesNext
  <2>6. QED
    BY <1>2, <2>1, <2>2, <2>3, <2>5, RefreshSpends, RefreshOrRecoverSpends DEF Nothing
<1>6. QED
  BY <1>3, <1>4, <1>5 DEF Calling

\* A session that has renewed and not stored: it alone has the newest credential.
Alone(s) ==
  /\ sess[s].cred \in Cred /\ Newest(sess[s].cred)
  /\ sess[s].cred \notin Copies
  /\ \A r \in Sessions \ {s} : sess[r].cred # sess[s].cred

LEMMA ChainedAlone ==
  Chained <=> /\ \A a \in Accounts : unspent[a] \subseteq {issued[a]}
              /\ \A s \in Sessions : sess[s].dirty => Alone(s)
BY DEF Chained, Alone

\* No step under OneChain signs anyone in, and so every step is one of these.
LEMMA ChainSteps ==
  ASSUME OneChain, IInv, Errand, Next
  PROVE  \/ Silent \/ Calling
         \/ \E s \in Sessions : Open(s) \/ Renew(s) \/ WriteBack(s) \/ End(s)
         \/ \E a \in Accounts : TimePasses(a)
<1>1. ASSUME NEW a \in Accounts, SignIn(a)
      PROVE  FALSE
  BY <1>1 DEF SignIn, OneChain
<1>2. ASSUME Login
      PROVE  FALSE
  BY <1>2 DEF Login, Errand, OneChain
<1>3. QED
  BY <1>1, <1>2 DEF Next, Step, ClaudeCode, Silent, Calling

\* The service goes on by spending the credential c, or not at all.
LEMMA AloneStays ==
  ASSUME IInv, Sound, Chained, NEW s \in Sessions, Alone(s), sess' = sess,
         NEW c \in Copies \intersect Cred, Spending(c)
  PROVE  Alone(s)'
<1> DEFINE x == sess[s].cred
<1>1. TypeOK /\ x \in Cred /\ x.acct \in Accounts /\ x \in Issued
  BY SoundHeld DEF IInv, Alone, Cred, Sound, HeldIn
<1>2. c # x
  BY DEF Alone
<1>3. CASE UNCHANGED server /\ Copies' \subseteq Copies \union {NoCred}
  BY <1>1, <1>3, NoCredIsNoCred DEF Alone, Newest, server
<1>4. CASE Rotate(c) /\ Copies' \subseteq Copies \union {NoCred, NextCred(c.acct)}
  <2>1. /\ Newest(c) /\ NextCred(c.acct) \notin Issued
        /\ \A a \in Accounts \ {c.acct} : issued'[a] = issued[a]
    BY <1>1, <1>4, RotateChain
  <2>2. c.acct # x.acct
    BY <1>1, <1>2, <2>1, SameCred DEF Newest, Alone, Creds
  <2>3. Newest(x)'
    BY <1>1, <2>1, <2>2 DEF Alone, Newest
  <2>4. x \notin Copies'
    BY <1>1, <1>4, <2>1, NoCredIsNoCred DEF Alone
  <2>5. QED
    BY <1>1, <2>3, <2>4 DEF Alone
<1>5. QED
  BY <1>3, <1>4 DEF Spending

\* Every step keeps the chain.
LEMMA NextKeepsChained ==
  ASSUME OneChain, IInv, Sound, Errand, Chained, Next
  PROVE  Chained'
<1>1. /\ TypeOK /\ HeldIn(Issued) /\ CopiesIn(Copies \union {NoCred})
      /\ Faults \intersect {"read"} = {}
      /\ \A a \in Accounts : unspent[a] \subseteq {issued[a]}
      /\ \A s \in Sessions : sess[s].dirty => Alone(s)
  BY SoundHeld, CopiesHeld, ChainedAlone DEF IInv, Sound, OneChain
<1>2. ASSUME \A a \in Accounts : unspent'[a] \subseteq {issued'[a]},
             \A s \in Sessions : sess'[s].dirty => Alone(s)'
      PROVE  Chained'
  BY <1>2 DEF Chained, Alone
<1>3. CASE Silent
  <2>1. UNCHANGED server /\ UNCHANGED sess
    BY <1>3, SilentStays
  <2>2. Copies' \subseteq Copies \union {NoCred}
    BY <1>1, <1>3, SilentHolds, CopiesHeld
  <2>3. ASSUME NEW s \in Sessions, Alone(s)
        PROVE  Alone(s)'
    BY <2>1, <2>2, <2>3, NoCredIsNoCred DEF Alone, Newest, server
  <2>4. QED
    BY <1>1, <1>2, <2>1, <2>3 DEF server
<1>4. CASE Calling
  <2>1. sess' = sess /\ \E c \in Copies \intersect Cred : Spending(c)
    BY <1>1, <1>4, CallingSpends
  <2>2. PICK c \in Copies \intersect Cred : Spending(c)
    BY <2>1
  <2>3. \A a \in Accounts : unspent'[a] \subseteq {issued'[a]}
    <3>1. CASE Rotate(c)
      BY <1>1, <3>1, RotateChain
    <3>2. CASE UNCHANGED server
      BY <1>1, <3>2 DEF server
    <3>3. QED
      BY <2>2, <3>1, <3>2 DEF Spending
  <2>4. QED
    BY <1>1, <1>2, <2>1, <2>2, <2>3, AloneStays
<1>5. ASSUME NEW s \in Sessions, Open(s) \/ End(s) \/ WriteBack(s)
      PROVE  Chained'
  <2>1. /\ UNCHANGED <<server, kc, env, seen, got>>
        /\ \A r \in Sessions : sess'[r].dirty => r # s /\ sess[r].dirty
        /\ \A r \in Sessions \ {s} : sess'[r] = sess[r]
        /\ sess'[s].cred \in {live, NoCred} \/ (sess[s].dirty /\ sess'[s].cred = sess[s].cred)
        /\ live' = live \/ (sess[s].dirty /\ live' = sess[s].cred)
    BY <1>1, <1>5 DEF Open, End, WriteBack, TypeOK, stores, locals
  <2>2. Copies' \subseteq Copies \union (IF sess[s].dirty THEN {sess[s].cred} ELSE {})
    BY <2>1 DEF Copies
  <2>3. live \in Copies
    BY DEF Copies
  <2>4. ASSUME NEW r \in Sessions, sess'[r].dirty
        PROVE  Alone(r)'
    <3>1. Alone(r) /\ r # s /\ sess'[r] = sess[r]
      BY <1>1, <2>1, <2>4
    <3>2. sess[r].cred \notin Copies'
      BY <2>2, <3>1 DEF Alone
    <3>3. \A q \in Sessions \ {r} : sess'[q].cred # sess[r].cred
      BY <2>1, <2>3, <3>1, NoCredIsNoCred DEF Alone
    <3>4. QED
      BY <2>1, <3>1, <3>2, <3>3 DEF Alone, Newest, server
  <2>5. QED
    BY <1>1, <1>2, <2>1, <2>4 DEF server
<1>6. ASSUME NEW s \in Sessions, Renew(s)
      PROVE  Chained'
  <2> DEFINE c == sess[s].cred
  <2>1. /\ c \in Cred /\ Rotate(c) /\ UNCHANGED <<kc, live, env, seen, got>>
        /\ sess'[s] = [cred |-> NextCred(c.acct), dirty |-> TRUE]
        /\ \A r \in Sessions \ {s} : sess'[r] = sess[r]
    BY <1>1, <1>6 DEF Renew, TypeOK, Creds, stores, locals
  <2>2. Copies' = Copies /\ Copies \subseteq Issued
    BY <1>1, <2>1 DEF Copies, HeldIn
  <2>3. /\ Newest(c) /\ NextCred(c.acct) \in Cred /\ NextCred(c.acct) \notin Issued
        /\ NextCred(c.acct).acct = c.acct /\ NextCred(c.acct).gen = issued'[c.acct]
        /\ \A a \in Accounts \ {c.acct} : issued'[a] = issued[a]
        /\ \A a \in Accounts : unspent'[a] \subseteq {issued'[a]}
    BY <1>1, <2>1, RotateChain
  <2>4. Alone(s)'
    <3>1. PICK x : x = NextCred(c.acct)
      OBVIOUS
    <3>2. /\ x \in Cred /\ x \notin Issued /\ c.acct \in Accounts
          /\ x.acct = c.acct /\ x.gen = issued'[c.acct] /\ sess'[s].cred = x
      BY <2>1, <2>3, <3>1 DEF Cred
    <3>3. \A r \in Sessions \ {s} : sess'[r].cred # x
      BY <1>1, <2>1, <3>2 DEF HeldIn
    <3>4. x \notin Copies'
      BY <2>2, <3>2
    <3>5. QED
      BY <3>2, <3>3, <3>4 DEF Alone, Newest
  <2>5. ASSUME NEW r \in Sessions, r # s, Alone(r)
        PROVE  Alone(r)'
    <3>1. sess[r].cred \in Cred /\ sess[r].cred \in Issued /\ sess[r].cred # c /\ sess[r].cred.acct \in Accounts
      BY <1>1, <2>5 DEF Alone, HeldIn, Cred
    <3>2. sess[r].cred.acct # c.acct
      BY <2>1, <2>3, <2>5, <3>1, SameCred DEF Alone, Newest, Creds
    <3>3. \A q \in Sessions \ {r} : sess'[q].cred # sess[r].cred
      BY <2>1, <2>3, <2>5, <3>1 DEF Alone
    <3>4. QED
      BY <2>1, <2>2, <2>3, <2>5, <3>1, <3>2, <3>3 DEF Alone, Newest
  <2>6. QED
    BY <1>1, <1>2, <2>1, <2>3, <2>4, <2>5
<1>7. ASSUME NEW a \in Accounts, TimePasses(a)
      PROVE  Chained'
  <2>1. /\ UNCHANGED <<kc, live, env, seen, got, sess>> /\ issued' = issued
        /\ \A b \in Accounts : unspent'[b] \subseteq unspent[b]
    BY <1>1, <1>7 DEF TimePasses, Lapse, Expire, Outlast, stores, locals, TypeOK, ServerTypeOK
  <2>2. Copies' = Copies
    BY <2>1 DEF Copies
  <2>3. \A s \in Sessions : Alone(s) => Alone(s)'
    BY <2>1, <2>2 DEF Alone, Newest
  <2>4. \A b \in Accounts : unspent'[b] \subseteq {issued'[b]}
    BY <1>1, <2>1
  <2>5. \A s \in Sessions : sess'[s].dirty => Alone(s)'
    BY <1>1, <2>1, <2>3
  <2>6. QED
    BY <1>2, <2>4, <2>5
<1>8. QED
  BY <1>3, <1>4, <1>5, <1>6, <1>7, ChainSteps

-----------------------------------------------------------------------------
(***************************************************************************)
(* The live item is the newest: InHand, Ahead and Brought.                 *)
(***************************************************************************)

\* What every step of this section starts from.
Level == InHand /\ Ahead /\ Brought

Tracked == OneChain /\ IInv /\ Steady /\ Errand /\ Chained /\ Level /\ ~misled

LEMMA TrackedFacts ==
  ASSUME Tracked
  PROVE  /\ TypeOK /\ Bookkeeping /\ Ownership /\ Named(disk) /\ Named(mem)
         /\ InHand /\ Ahead /\ Brought /\ Chained /\ Errand /\ Sound /\ HeldIn(Issued)
         /\ LiveReads = {live} /\ \A n \in SlotIds : SlotReads(n) = {kc[n]}
         /\ "live" \notin Faults /\ "read" \notin Faults
<1>1. IInv /\ Sound /\ Ownership /\ Named(disk) /\ Named(mem)
  BY DEF Tracked, IInv, Steady, OneChain, Known
<1>2. HeldIn(Issued)
  BY <1>1, SoundHeld DEF IInv, Sound
<1>3. QED
  BY <1>1, <1>2 DEF Tracked, Level, IInv, OneChain, LiveReads, SlotReads

\* The account of a slot, and of what is parked in it or brought back for it.
LEMMA SlotAccounts ==
  ASSUME Tracked, NEW n \in Registered(mem)
  PROVE  /\ n \in SlotIds /\ mem.slots[n].uuid # NoAccount
         /\ kc[n] \in Creds /\ kc[n].acct \in {mem.slots[n].uuid, NoAccount}
         /\ kc[n] # NoCred => kc[n].acct = mem.slots[n].uuid
         /\ got[n].kind \in {"ok", "recovered"} =>
              got[n].cred \in Cred /\ got[n].cred.acct = mem.slots[n].uuid
         /\ \A m \in Registered(mem) \ {n} : mem.slots[m].uuid # mem.slots[n].uuid
<1>1. /\ TypeOK /\ Ownership /\ Named(mem) /\ n \in SlotIds /\ mem.slots[n] # NoSlot
  BY TrackedFacts DEF Registered
<1>2. mem.slots[n].uuid # NoAccount /\ \A m \in Registered(mem) \ {n} : mem.slots[m].uuid # mem.slots[n].uuid
  BY <1>1 DEF Named
<1>3. kc[n] \in Creds /\ (kc[n] # NoCred => kc[n].acct = mem.slots[n].uuid)
  BY <1>1, <1>2 DEF TypeOK, Ownership, Owns
<1>4. kc[n].acct \in {mem.slots[n].uuid, NoAccount}
  BY <1>3 DEF NoCred
<1>5. ASSUME got[n].kind \in {"ok", "recovered"}
      PROVE  got[n].cred \in Cred /\ got[n].cred.acct = mem.slots[n].uuid
  <2>1. got[n] \in Outcome
    BY <1>1 DEF TypeOK
  <2>2. got[n].cred \in Cred
    BY <1>5, <2>1 DEF Outcome, Rejected, Failed, Nothing
  <2>3. Fits(got[n].cred, n)
    BY <1>1, <1>5 DEF Ownership
  <2>4. QED
    BY <1>2, <2>2, <2>3 DEF Fits
<1>6. QED
  BY <1>1, <1>2, <1>3, <1>4, <1>5

\* What is parked under another slot is of another account.
LEMMA OtherAccounts ==
  ASSUME Tracked, NEW m \in Registered(mem), NEW n \in Registered(mem), m # n
  PROVE  UpTo(kc[m], kc[n]) /\ Before(kc[m], kc[n])
<1>1. \/ kc[n] = NoCred
      \/ kc[m].acct # kc[n].acct
  BY SlotAccounts
<1>2. kc[m] \in Creds /\ kc[n] \in Creds
  BY SlotAccounts
<1>3. ASSUME kc[n] = NoCred
      PROVE  UpTo(kc[m], kc[n])
  <2>1. SUFFICES ASSUME kc[m].acct = NoAccount
                 PROVE  kc[m].gen <= 0
    BY <1>3 DEF UpTo, NoCred
  <2>2. kc[m] = NoCred
    BY <1>2, <2>1, IdentityAssumption DEF Creds, Cred
  <2>3. QED
    BY <2>2 DEF NoCred
<1>4. QED
  BY <1>1, <1>3 DEF UpTo, Before

\* Nothing is newer than itself, and no credential at all is newer than none.
LEMMA UpToItself ==
  ASSUME NEW c \in Creds
  PROVE  UpTo(c, c) /\ UpTo(NoCred, c)
<1>1. c.gen \in Nat
  BY DEF Creds, Cred, Gens, NoCred
<1>2. QED
  BY <1>1 DEF UpTo, NoCred

\* Once a pass is over, and before one starts, nothing has been brought back.
LEMMA NothingBrought ==
  ASSUME Tracked,
         \/ pc \notin {"calls", "mirror"} /\ got' = got
         \/ \A n \in SlotIds : got'[n].kind \notin {"ok", "recovered"}
  PROVE  Brought'
BY TrackedFacts DEF Brought

\* The end of a process, and the start of one, whatever it leaves in state.json.
LEMMA EndLevel ==
  ASSUME Tracked, UNCHANGED <<kc, live>>, disk' \in {disk, mem}, pc \notin {"mirror", "install"},
         \/ pc' \in {"idle", "dead"} /\ mem' \in {EmptyTable, mem} /\ got' = NoCalls
         \/ pc' = "sync" /\ mem' = disk' /\ got' = NoCalls
         \/ pc' = "act" /\ mem' = disk' /\ got' = NoCalls /\ cmd' \notin Synced
  PROVE  Level'
<1>1. /\ Ahead
      /\ \A n \in Registered(disk) \union Registered(mem) : UpTo(kc[n], live)
  BY TrackedFacts DEF Ahead
<1>2. Brought'
  BY NothingBrought DEF NoCalls, Nothing
<1>3. InHand'
  BY DEF InHand
<1>4. Registered(disk') \union Registered(mem') \subseteq Registered(disk) \union Registered(mem)
  BY EmptyTableIsTable
<1>5. \A n \in Registered(disk') \union Registered(mem') : UpTo(kc[n], live)'
  BY <1>1, <1>4 DEF UpTo
<1>6. Ahead'
  BY <1>5 DEF Ahead
<1>7. QED
  BY <1>2, <1>3, <1>6 DEF Level

LEMMA GoneLevel ==
  ASSUME Tracked, \/ Fail /\ pc \notin {"mirror", "install"}
                  \/ Save \/ Release
                  \/ \E c \in Commands, n \in SlotIds \union {0} : Begin(c, n)
  PROVE  Level'
<1>1. Bookkeeping
  BY TrackedFacts
<1>2. CASE Save
  BY <1>2, EndLevel DEF Save, Exit, Gone
<1>3. CASE Release
  BY <1>1, <1>3, EndLevel DEF Release, stores, locals, Bookkeeping
<1>4. ASSUME NEW c \in Commands, NEW n \in SlotIds \union {0}, Begin(c, n)
      PROVE  Level'
  BY <1>1, <1>4, EndLevel DEF Begin, stores, Bookkeeping, Synced
<1>5. CASE Fail /\ pc \notin {"mirror", "install"}
  BY <1>5, EndLevel DEF Fail, Exit, Gone, stores
<1>6. QED
  BY <1>2, <1>3, <1>4, <1>5

\* A step that moves no credential and no table, and keeps clear of what the
\* conditions in Ahead are about.
LEMMA QuietLevel ==
  ASSUME Tracked, UNCHANGED <<kc, live, disk>>, mem'.active = mem.active,
         Registered(mem') = Registered(mem), InHand', Brought',
         pc \notin {"mirror", "install"},
         pc' \notin {"confirm", "adoptRotate", "adoptWrite", "act"},
         pc' \in {"ensure", "rotate", "calls"} =>
           \/ pc \in {"act", "ensure", "rotate"} /\ cmd' = cmd
           \/ pc' = "calls" /\ todo' \subseteq todo
  PROVE  Level'
<1>1. Ahead /\ \A n \in Registered(disk) \union Registered(mem) : UpTo(kc[n], live)
  BY TrackedFacts DEF Ahead
<1>2. \A n \in Registered(disk') \union Registered(mem') : UpTo(kc[n], live)'
  BY <1>1 DEF UpTo
<1>3. ASSUME pc' \in {"ensure", "rotate", "calls"}, cmd' \in Synced, NEW n \in Registered(mem) \ {mem.active},
             pc' = "calls" => n \in todo'
      PROVE  Before(kc[n], live)'
  <2>1. Before(kc[n], live)
    <3>1. CASE pc \in {"act", "ensure", "rotate"} /\ cmd' = cmd
      BY <1>1, <1>3, <3>1 DEF Ahead
    <3>2. CASE pc' = "calls" /\ todo' \subseteq todo
      <4>1. n \in todo /\ Bookkeeping /\ Errand
        BY <1>3, <3>2, TrackedFacts
      <4>2. pc = "calls" /\ cmd \in Synced
        BY <4>1 DEF Bookkeeping, Errand
      <4>3. QED
        BY <1>1, <1>3, <4>1, <4>2 DEF Ahead
    <3>3. QED
      BY <1>3, <3>1, <3>2
  <2>2. QED
    BY <2>1 DEF Before
<1>4. Ahead'
  BY <1>2, <1>3 DEF Ahead
<1>5. QED
  BY <1>4 DEF Level

\* SyncRead: what it has read is what is live.
LEMMA SyncReadLevel ==
  ASSUME Tracked, SyncRead
  PROVE  Level'
<1>1. /\ TypeOK /\ Bookkeeping /\ InHand /\ Ahead /\ pc = "sync"
      /\ UNCHANGED <<kc, live, disk, mem, cmd, env, got, todo>> /\ LiveReads = {live}
      /\ \A n \in SlotIds : SlotReads(n) = {kc[n]}
  BY TrackedFacts DEF SyncRead, stores
<1>2. Brought'
  BY <1>1, NothingBrought
<1>3. pc' \in {"act", "confirm"}
  BY DEF SyncRead
<1>4. InHand'
  BY <1>1, <1>3 DEF InHand
<1>5. \A n \in Registered(disk) \union Registered(mem) : UpTo(kc[n], live)
  BY <1>1 DEF Ahead
<1>6. CASE pc' = "confirm"
  <2>1. seen' = live
    BY <1>1, <1>6 DEF SyncRead
  <2>2. Ahead'
    BY <1>1, <1>5, <1>6, <2>1 DEF Ahead, UpTo
  <2>3. QED
    BY <1>2, <1>4, <2>2 DEF Level
<1>7. CASE pc' = "act"
  <2>1. \/ live = NoCred \/ Registered(mem) = {}
        \/ Active(mem) # 0 /\ live \in SlotReads(Active(mem))
    BY <1>1, <1>7 DEF SyncRead
  <2>2. ASSUME NEW n \in Registered(mem) \ {mem.active}
        PROVE  Before(kc[n], live)
    <3>1. CASE live = NoCred
      BY <3>1 DEF Before
    <3>2. CASE Active(mem) # 0 /\ live \in SlotReads(Active(mem))
      <4>1. mem.active \in Registered(mem) /\ live \in SlotReads(mem.active)
        BY <3>2, ActiveIsRegistered
      <4>2. live = kc[mem.active]
        BY <1>1, <4>1, RegisteredIsSlot DEF TypeOK
      <4>3. QED
        BY <2>2, <4>1, <4>2, OtherAccounts
    <3>3. QED
      BY <2>1, <2>2, <3>1, <3>2
  <2>3. \A n \in Registered(mem) \ {mem.active} : Before(kc[n], live)'
    BY <1>1, <2>2 DEF Before
  <2>4. Ahead'
    BY <1>1, <1>5, <1>7, <2>3 DEF Ahead, UpTo
  <2>5. QED
    BY <1>2, <1>4, <2>4 DEF Level
<1>8. QED
  BY <1>3, <1>6, <1>7

\* SyncActive takes the live credential for the slot that is registered for its
\* account, unless it was misled.
LEMMA SyncFindsOwner ==
  ASSUME Tracked, pc = "confirm", NEW owner, owner = seen.acct,
         NEW n \in Registered(mem), mem.slots[n].uuid = owner
  PROVE  SyncTarget(owner) = n
<1>1. /\ mem \in Table /\ mem.slots[n].uuid # NoAccount
      /\ \A m \in Registered(mem) \ {n} : mem.slots[m].uuid # owner
  BY TrackedFacts, SlotAccounts DEF TypeOK
<1>2. ASSUME NEW m \in Registered(mem), mem.slots[m].uuid \in {NoAccount, owner}
      PROVE  m = n
  BY <1>1, <1>2, SlotAccounts
<1>3. FindByAccountUUID(mem, owner) = n
  BY <1>1, FindFindsRegistered, FindReturnsOwnSlot
<1>4. owner # NoAccount
  BY <1>1
<1>5. Active(mem) # 0 => Active(mem) \in Registered(mem)
  BY ActiveIsRegistered
<1>6. QED
  BY <1>2, <1>3, <1>4, <1>5 DEF SyncTarget

\* SyncConfirm: the target is the new active slot, and gets nothing that is newer than
\* what is live.
LEMMA SyncConfirmWrites ==
  ASSUME Tracked, SyncConfirm
  PROVE  /\ pc = "confirm" /\ pc' = "act" /\ UNCHANGED <<live, disk, cmd, got, todo, env, sess, server>>
         /\ Registered(mem') = Registered(mem) /\ mem'.active \in Registered(mem) \union {0}
         /\ \A m \in SlotIds : kc'[m] = kc[m] \/ (m = mem'.active /\ kc'[m] = seen)
         /\ ~misled' => \A n \in Registered(mem) : mem.slots[n].uuid = seen.acct => mem'.active = n
         /\ mem'.active # 0 /\ "store" \notin Faults => kc'[mem'.active] = seen
         /\ mem' \in Table /\ \A m \in Registered(mem) : mem'.slots[m].uuid = mem.slots[m].uuid
         /\ ~misled' /\ mem'.active # 0 => mem.slots[mem'.active].uuid = seen.acct
<1>1. /\ TypeOK /\ mem \in Table /\ seen \in Cred /\ pc = "confirm"
  BY TrackedFacts DEF TypeOK, Bookkeeping, SyncConfirm
<1>2. PICK answer \in Answers(seen) :
       LET owner == IF answer # NoAccount THEN answer ELSE who
           n == SyncTarget(owner)
       IN /\ \/ n # 0 /\ AdoptLiveInto(n, Activate(mem, n))
             \/ n = 0 /\ mem' = Activate(mem, 0) /\ kc' = kc
          /\ misled' = (misled \/ (answer = NoAccount /\ who # seen.acct))
  BY DEF SyncConfirm
<1>3. PICK owner : owner = IF answer # NoAccount THEN answer ELSE who
  OBVIOUS
<1>4. PICK n : n = SyncTarget(owner)
  OBVIOUS
<1>5. /\ \/ n # 0 /\ AdoptLiveInto(n, Activate(mem, n))
         \/ n = 0 /\ mem' = Activate(mem, 0) /\ UNCHANGED kc
      /\ ~misled' => owner = seen.acct
  BY <1>2, <1>3, <1>4, AnswersAreTrue
<1>6. UNCHANGED <<live, disk, cmd, got, todo, env, sess, server>> /\ pc' = "act"
  BY DEF SyncConfirm
<1>7. ~misled' => \A m \in Registered(mem) : mem.slots[m].uuid = seen.acct => n = m
  BY <1>1, <1>4, <1>5, SyncFindsOwner
<1>8. CASE n = 0
  <2>1. mem' = Activate(mem, 0) /\ UNCHANGED kc
    BY <1>5, <1>8
  <2>2. Registered(mem') = Registered(mem) /\ mem'.active = 0 /\ mem' \in Table /\ mem'.slots = mem.slots
    BY <1>1, <2>1, ActivateKeepsSlots
  <2>3. QED
    BY <1>1, <1>6, <1>7, <1>8, <2>1, <2>2
<1>9. CASE n # 0
  <2>1. n \in Registered(mem) /\ n \in SlotIds
    BY <1>1, <1>4, <1>9, SyncTargetFits, RegisteredIsSlot
  <2>2. PICK t \in Table : /\ t = Activate(mem, n) /\ t.slots = mem.slots
                           /\ t.active = n /\ Registered(t) = Registered(mem)
    BY <1>1, <2>1, ActivateKeepsSlots
  <2>3. AdoptLiveInto(n, t)
    BY <1>5, <1>9, <2>2
  <2>4. /\ mem'.active = n /\ Registered(mem') = Registered(mem) /\ mem' \in Table
        /\ \A m \in SlotIds : kc'[m] = kc[m] \/ (m = n /\ kc'[m] = seen)
        /\ \A m \in Registered(mem) : mem'.slots[m].uuid = mem.slots[m].uuid
    BY <1>1, <2>1, <2>2, <2>3, AdoptLiveIntoKeepsAccounts
  <2>5. "store" \notin Faults => kc'[n] = seen
    BY <1>1, <2>1, <2>3 DEF AdoptLiveInto, TypeOK
  <2>6. ~misled' => mem.slots[n].uuid = seen.acct
    <3>1. seen.acct # NoAccount /\ mem.slots[n].uuid # NoAccount
      BY <1>1, <2>1, SlotAccounts, IdentityAssumption DEF Cred
    <3>2. QED
      BY <1>1, <1>4, <1>5, <1>9, <3>1, SyncTargetFits
  <2>7. QED
    BY <1>1, <1>6, <1>7, <2>1, <2>4, <2>5, <2>6
<1>10. QED
  BY <1>8, <1>9

LEMMA SyncConfirmLevel ==
  ASSUME Tracked, SyncConfirm, ~misled'
  PROVE  Level'
<1>1. /\ Bookkeeping /\ InHand /\ Ahead /\ pc = "confirm" /\ pc' = "act"
      /\ UNCHANGED <<live, disk, cmd, got>>
      /\ Registered(mem') = Registered(mem) /\ live \in Creds /\ seen \in Cred
      /\ \A m \in SlotIds : kc'[m] = kc[m] \/ (m = mem'.active /\ kc'[m] = seen)
      /\ \A n \in Registered(mem) : mem.slots[n].uuid = seen.acct => mem'.active = n
  BY TrackedFacts, SyncConfirmWrites DEF TypeOK, Bookkeeping
<1>2. Brought' /\ InHand'
  BY <1>1, NothingBrought DEF InHand
<1>3. UpTo(seen, live)
  <2>1. CASE live = seen
    BY <1>1, <2>1, UpToItself
  <2>2. QED
    BY <1>1, <2>1 DEF Ahead
<1>4. \A n \in Registered(disk) \union Registered(mem) : n \in SlotIds /\ UpTo(kc[n], live)
  BY <1>1 DEF Ahead, Registered
<1>5. \A n \in Registered(disk') \union Registered(mem') : UpTo(kc[n], live)'
  BY <1>1, <1>3, <1>4 DEF UpTo
<1>6. ASSUME NEW n \in Registered(mem) \ {mem'.active}
      PROVE  Before(kc[n], live)'
  <2>1. kc'[n] = kc[n]
    BY <1>1, <1>4, <1>6
  <2>2. CASE live # seen
    BY <1>1, <1>6, <2>1, <2>2 DEF Ahead, Before
  <2>3. CASE live = seen
    <3>1. live.acct # mem.slots[n].uuid /\ live.acct # NoAccount
      BY <1>1, <1>6, <2>3, IdentityAssumption DEF Cred
    <3>2. kc[n].acct # live.acct
      BY <1>6, <3>1, SlotAccounts
    <3>3. QED
      BY <1>1, <2>1, <3>2 DEF Before
  <2>4. QED
    BY <2>2, <2>3
<1>7. Ahead'
  BY <1>1, <1>5, <1>6 DEF Ahead
<1>8. QED
  BY <1>2, <1>7 DEF Level

\* switch chooses its slot, and EnsureFresh reads its credential and may renew it.
LEMMA ChoosingLevel ==
  ASSUME Tracked, Switch \/ EnsureFresh \/ EnsureFreshCall
  PROVE  Level'
<1>1. /\ TypeOK /\ Bookkeeping /\ InHand /\ Ahead /\ UNCHANGED <<kc, live, disk>>
      /\ \A n \in SlotIds : SlotReads(n) = {kc[n]}
  BY TrackedFacts DEF Switch, EnsureFresh, EnsureFreshCall, stores, Fail
<1>2. CASE Fail
  BY <1>2, GoneLevel DEF Switch, EnsureFresh, EnsureFreshCall
<1>3. CASE EnsureFreshCall /\ Exit
  BY <1>1, <1>3, EndLevel DEF EnsureFreshCall, Exit, Gone
<1>4. CASE Switch /\ ~Fail
  <2>1. /\ UNCHANGED <<mem, locals>> /\ pc = "act"
        /\ pc' = IF tgt = mem.active THEN "save" ELSE "ensure"
    BY <1>4 DEF Switch
  <2>2. InHand'
    BY <1>1, <2>1 DEF InHand, locals
  <2>3. Brought'
    BY <2>1, NothingBrought DEF locals
  <2>4. QED
    BY <1>1, <2>1, <2>2, <2>3, QuietLevel DEF locals
<1>5. CASE EnsureFresh /\ ~Fail
  <2>1. /\ pc = "ensure" /\ tgt \in SlotIds
        /\ UNCHANGED <<mem, cmd, tgt, got, todo>> /\ pc' \in {"rotate", "install"}
        /\ env' \in SlotReads(tgt)
    BY <1>1, <1>5, RegisteredIsSlot DEF EnsureFresh, Bookkeeping, TypeOK
  <2>2. env' = kc[tgt]
    BY <1>1, <2>1
  <2>3. InHand'
    BY <1>1, <2>1, <2>2 DEF InHand
  <2>4. Brought'
    BY <2>1, NothingBrought
  <2>5. QED
    BY <1>1, <2>1, <2>3, <2>4, QuietLevel
<1>6. CASE EnsureFreshCall /\ ~Exit
  <2>1. /\ pc = "rotate" /\ UNCHANGED <<mem, cmd, tgt, got, todo>> /\ pc' \in {"park", "install"}
        /\ pc' = "install" => env' = env
    BY <1>6 DEF EnsureFreshCall, locals
  <2>2. InHand'
    BY <1>1, <2>1 DEF InHand
  <2>3. Brought'
    BY <2>1, NothingBrought
  <2>4. QED
    BY <1>1, <2>1, <2>2, <2>3, QuietLevel
<1>7. QED
  BY <1>2, <1>3, <1>4, <1>5, <1>6

\* EnsureFresh parks what it renewed, on its way to be live.
LEMMA ParkLevel ==
  ASSUME Tracked, EnsureFreshStore
  PROVE  Level'
<1>1. /\ TypeOK /\ Bookkeeping /\ InHand /\ Ahead /\ pc = "park" /\ tgt \in Registered(mem)
      /\ tgt \in SlotIds /\ mem \in Table /\ kc \in [SlotIds -> Creds]
  BY TrackedFacts, RegisteredIsSlot DEF EnsureFreshStore, Bookkeeping, TypeOK
<1>2. CASE Fail
  BY <1>1, <1>2, GoneLevel
<1>3. CASE ~Fail
  <2>1. /\ kc' = [kc EXCEPT ![tgt] = env] /\ mem' = SetRevoked(mem, tgt, FALSE)
        /\ pc' = "install" /\ UNCHANGED <<live, disk, cmd, tgt, env, got, todo>>
    BY <1>3 DEF EnsureFreshStore, locals
  <2>2. mem'.active = mem.active /\ Registered(mem') = Registered(mem)
    <3>1. PICK b \in BOOLEAN : b = FALSE
      OBVIOUS
    <3>2. mem' = SetRevoked(mem, tgt, b) /\ NoAccount \in Owner
      BY <2>1, <3>1 DEF Owner
    <3>3. QED
      BY <1>1, <3>2, FieldsKeepAccounts
  <2>3. kc'[tgt] = env /\ \A m \in SlotIds \ {tgt} : kc'[m] = kc[m]
    BY <1>1, <2>1
  <2>4. InHand'
    BY <1>1, <2>1, <2>2, <2>3 DEF InHand
  <2>5. Brought'
    BY <1>1, <2>1, NothingBrought
  <2>6. ASSUME NEW n \in Registered(disk) \union Registered(mem), n # tgt
        PROVE  UpTo(kc[n], live)'
    BY <1>1, <2>1, <2>3, <2>6 DEF Ahead, UpTo, Registered
  <2>7. Ahead'
    BY <2>1, <2>2, <2>6 DEF Ahead
  <2>8. QED
    BY <2>4, <2>5, <2>7 DEF Level
<1>4. QED
  BY <1>2, <1>3

\* The parked credential of slot n goes live: it is not older than itself, and the
\* other slots' are of other accounts.
LEMMA GoingLive ==
  ASSUME Tracked, NEW n \in Registered(mem), live' = kc[n], kc' = kc,
         Registered(disk) \subseteq Registered(mem)
  PROVE  \A m \in Registered(disk) \union Registered(mem) : UpTo(kc[m], live)'
<1>1. SUFFICES ASSUME NEW m \in Registered(mem)
               PROVE  UpTo(kc[m], kc[n])
  BY DEF UpTo
<1>2. CASE m = n
  BY <1>2, SlotAccounts, UpToItself
<1>3. CASE m # n
  BY <1>3, OtherAccounts
<1>4. QED
  BY <1>2, <1>3

\* activate: first the live item, then ~/.claude.json and the marker.
LEMMA ActivateLevel ==
  ASSUME Tracked, Install \/ Point
  PROVE  Level'
<1>1. /\ TypeOK /\ Bookkeeping /\ InHand /\ Ahead /\ "live" \notin Faults
      /\ mem \in Table /\ config \in Owner /\ tgt \in SlotIds \union {0}
  BY TrackedFacts DEF TypeOK
<1>2. CASE Install
  <2>1. /\ pc = "install" /\ pc' = "point" /\ live' = env /\ UNCHANGED <<kc, disk, got>>
        /\ \/ mem' = mem
           \/ Active(mem) # 0 /\ mem' = SetBlock(mem, Active(mem), config)
    BY <1>1, <1>2 DEF Install
  <2>2. mem'.active = mem.active /\ Registered(mem') = Registered(mem)
    <3>1. CASE mem' = mem
      BY <3>1
    <3>2. CASE Active(mem) # 0 /\ mem' = SetBlock(mem, Active(mem), config)
      <4>1. Active(mem) \in Registered(mem) /\ TRUE \in BOOLEAN
        BY <3>2, ActiveIsRegistered
      <4>2. QED
        BY <1>1, <3>2, <4>1, FieldsKeepAccounts
    <3>3. QED
      BY <2>1, <3>1, <3>2
  <2>3. tgt \in Registered(mem) /\ env = kc[tgt] /\ Registered(disk) \subseteq Registered(mem)
    BY <1>1, <2>1 DEF Bookkeeping, InHand
  <2>4. \A m \in Registered(disk) \union Registered(mem) : UpTo(kc[m], live)'
    BY <2>1, <2>3, GoingLive
  <2>5. Brought' /\ InHand'
    BY <2>1, <2>2, <2>3, NothingBrought DEF InHand
  <2>6. Ahead'
    BY <2>1, <2>2, <2>4 DEF Ahead
  <2>7. QED
    BY <2>5, <2>6 DEF Level
<1>3. CASE Point
  <2>1. /\ pc = "point" /\ pc' = "save" /\ mem' = Activate(mem, tgt)
        /\ UNCHANGED <<kc, live, disk, got>>
    BY <1>3 DEF Point, locals
  <2>2. Registered(mem') = Registered(mem)
    BY <1>1, <2>1, ActivateKeepsSlots
  <2>3. Brought' /\ InHand'
    BY <2>1, NothingBrought DEF InHand
  <2>4. Ahead'
    BY <1>1, <2>1, <2>2 DEF Ahead, UpTo
  <2>5. QED
    BY <2>3, <2>4 DEF Level
<1>4. QED
  BY <1>2, <1>3

\* A pass plans its calls, ends, and asks.
LEMMA PlanLevel ==
  ASSUME Tracked, PlanRefresh \/ PlanAuto \/ PlanClean \/ CallsDone \/ Ask \/ Label
  PROVE  Level'
<1>1. /\ TypeOK /\ Bookkeeping /\ InHand /\ Ahead /\ mem \in Table
  BY TrackedFacts DEF TypeOK
<1>2. CASE Fail
  BY <1>2, GoneLevel DEF PlanRefresh, PlanAuto, PlanClean, CallsDone, Ask, Label
<1>3. ASSUME NEW due, NEW dead, Calls(due, dead), pc = "act"
      PROVE  Level'
  <2>1. /\ UNCHANGED <<kc, live, disk, mem, cmd>> /\ pc' = "calls"
        /\ \A n \in SlotIds : got'[n].kind \notin {"ok", "recovered"}
    BY <1>3 DEF Calls, stores, Rejected, Nothing
  <2>2. Brought' /\ InHand'
    BY <1>1, <1>3, <2>1, NothingBrought DEF InHand
  <2>3. /\ kc' = kc /\ live' = live /\ disk' = disk /\ cmd' = cmd
        /\ pc = "act" /\ pc' = "calls"
        /\ mem'.active = mem.active /\ Registered(mem') = Registered(mem)
    BY <1>3, <2>1
  <2>4. QED
    BY <2>2, <2>3, QuietLevel
<1>4. CASE (PlanRefresh \/ PlanAuto \/ PlanClean) /\ ~Fail
  BY <1>3, <1>4 DEF PlanRefresh, PlanAuto, PlanClean
<1>5. CASE CallsDone
  <2>1. /\ pc = "calls" /\ Pending = {} /\ UNCHANGED <<kc, live, disk, got, env>> /\ pc' \in {"ask", "save"}
        /\ mem'.active = mem.active /\ Registered(mem') = Registered(mem)
    BY <1>1, <1>5, MarksKeepAccounts DEF CallsDone, stores, locals
  <2>2. Brought'
    BY <2>1, NothingBrought DEF Pending
  <2>3. InHand'
    BY <1>1, <2>1 DEF InHand
  <2>4. QED
    BY <2>1, <2>2, <2>3, QuietLevel
<1>6. CASE Ask \/ (Label /\ ~Fail)
  <2>1. /\ pc \in {"ask", "act"} /\ UNCHANGED <<kc, live, disk, mem, got, env>> /\ pc' \in {"save", "sweep"}
    BY <1>6 DEF Ask, Label, stores, locals
  <2>2. Brought' /\ InHand'
    BY <2>1, NothingBrought DEF InHand
  <2>3. QED
    BY <2>1, <2>2, QuietLevel
<1>7. QED
  BY <1>2, <1>4, <1>5, <1>6

\* What a pass has brought back for slot n, and not stored.
Fresh(n) ==
  /\ Newest(got[n].cred) /\ got[n].cred # live
  /\ \A m \in SlotIds : got[n].cred # kc[m]
  /\ \A s \in Sessions : got[n].cred # sess[s].cred
  /\ n # mem.active => live.acct # got[n].cred.acct

\* It stays the newest of its account when something else is spent: what works is the
\* newest, and no two credentials of an account are.
LEMMA FreshStays ==
  ASSUME TypeOK, Chained, NEW c \in Cred, Rotate(c), NEW d \in Cred, Newest(d), c # d
  PROVE  Newest(d)' /\ d.acct # c.acct
<1>1. Newest(c) /\ \A a \in Accounts \ {c.acct} : issued'[a] = issued[a]
  BY RotateChain
<1>2. d.acct # c.acct /\ d.acct \in Accounts
  BY <1>1, SameCred DEF Newest, Creds, Cred
<1>3. QED
  BY <1>1, <1>2 DEF Newest

\* A call renews the credential of a slot that is not newer than the live one: if it
\* is another slot's than the active one, the live one is of another account.
LEMMA CallLevel ==
  ASSUME Tracked, NEW n \in SlotIds, Call(n)
  PROVE  Level'
<1>1. /\ TypeOK /\ Bookkeeping /\ InHand /\ Ahead /\ Brought /\ Chained /\ Errand /\ HeldIn(Issued)
      /\ LiveReads = {live}
  BY TrackedFacts
<1>2. /\ pc = "calls" /\ pc' = "calls" /\ n \in todo /\ todo' = todo \ {n}
      /\ UNCHANGED <<kc, live, disk, sess, mem, cmd, env>> /\ kc[n] \in Cred /\ n \in Registered(mem)
      /\ cmd \in Synced
  BY <1>1 DEF Call, Bookkeeping, Errand, stores
<1>3. PICK out \in Outcome :
        /\ got' = [got EXCEPT ![n] = out]
        /\ \/ out = Nothing /\ UNCHANGED server
           \/ Refresh(kc[n], out)
           \/ RefreshOrRecover(n, kc[n], out)
  BY DEF Call
<1>4. /\ \/ Rotate(kc[n]) /\ (out.kind = "ok" => out.cred = NextCred(kc[n].acct))
         \/ UNCHANGED server /\ out.kind # "ok"
      /\ out.kind = "recovered" => out.cred = live
  <2>1. ASSUME NEW o, Refresh(kc[n], o)
        PROVE  /\ \/ Rotate(kc[n]) /\ (o.kind = "ok" => o.cred = NextCred(kc[n].acct))
                  \/ UNCHANGED server /\ o.kind # "ok"
               /\ o.kind # "recovered"
    BY <2>1 DEF Refresh, Ok, Rejected, Failed
  <2>2. ASSUME Refresh(kc[n], Rejected), Recover(n, kc[n], out)
        PROVE  UNCHANGED server /\ out.kind # "ok" /\ (out.kind = "recovered" => out.cred = live)
    <3>1. UNCHANGED server
      BY <2>2 DEF Refresh, Ok, Rejected, Failed
    <3>2. out \in {Recovered(live), Rejected}
      BY <1>1, <2>2 DEF Recover
    <3>3. QED
      BY <3>1, <3>2 DEF Recovered, Rejected
  <2>3. QED
    BY <1>3, <2>1, <2>2 DEF RefreshOrRecover, Nothing
<1>5. got'[n] = out /\ \A m \in SlotIds \ {n} : got'[m] = got[m]
  BY <1>1, <1>3 DEF TypeOK
<1>6. ASSUME NEW m \in SlotIds, m # n, got[m].kind = "ok"
      PROVE  Fresh(m)'
  <2>1. Fresh(m) /\ got[m].cred \in Cred /\ got[m].cred # kc[n]
    BY <1>1, <1>6, SlotAccounts DEF Brought, Bookkeeping, Fresh
  <2>2. Newest(got[m].cred)'
    <3>1. CASE Rotate(kc[n])
      <4>1. PICK d \in Cred : d = got[m].cred
        BY <2>1
      <4>2. Newest(d)' /\ got'[m].cred = d
        BY <1>1, <1>2, <1>5, <1>6, <2>1, <3>1, <4>1, FreshStays DEF Fresh
      <4>3. QED
        BY <4>2 DEF Newest
    <3>2. CASE UNCHANGED server
      BY <1>5, <1>6, <2>1, <3>2 DEF Fresh, Newest, server
    <3>3. QED
      BY <1>4, <3>1, <3>2
  <2>3. QED
    BY <1>2, <1>5, <1>6, <2>1, <2>2 DEF Fresh
<1>7. ASSUME out.kind = "ok"
      PROVE  Fresh(n)'
  <2>1. PICK x : x = NextCred(kc[n].acct)
    OBVIOUS
  <2>2. /\ Rotate(kc[n]) /\ got'[n].cred = x
    BY <1>4, <1>5, <1>7, <2>1
  <2>3. /\ Newest(kc[n]) /\ kc[n].acct \in Accounts /\ x \in Cred /\ x \notin Issued
        /\ x.acct = kc[n].acct /\ x.gen = issued'[x.acct]
    BY <1>1, <1>2, <2>1, <2>2, RotateChain
  <2>4. /\ x # live /\ \A m \in SlotIds : x # kc[m]
        /\ \A s \in Sessions : x # sess[s].cred
    BY <1>1, <2>3 DEF HeldIn
  <2>5. ASSUME n # mem.active
        PROVE  live.acct # x.acct
    <3>1. Before(kc[n], live)
      BY <1>1, <1>2, <2>5 DEF Ahead
    <3>2. live \in Issued /\ NoCred.acct \notin Accounts
      BY <1>1, IdentityAssumption DEF HeldIn, NoCred
    <3>3. live # NoCred => live.gen <= issued[live.acct] /\ live.gen \in Nat
      BY <3>2, IssuedCred
    <3>4. kc[n].gen = issued[kc[n].acct] /\ kc[n].gen \in Nat
      BY <1>2, <2>3 DEF Newest, Cred, Gens
    <3>5. QED
      BY <2>3, <3>1, <3>2, <3>3, <3>4 DEF Before
  <2>6. QED
    BY <1>2, <2>2, <2>3, <2>4, <2>5 DEF Fresh, Newest
<1>8. Brought'
  <2>1. \A m \in SlotIds : got'[m].kind = "ok" => Fresh(m)'
    BY <1>5, <1>6, <1>7
  <2>2. live \in Creds
    BY <1>1 DEF TypeOK
  <2>3. \A m \in SlotIds : got'[m].kind = "recovered" => UpTo(got[m].cred, live)'
    BY <1>1, <1>2, <1>4, <1>5, <2>2, UpToItself DEF Brought, UpTo
  <2>4. QED
    BY <1>2, <2>1, <2>3 DEF Brought, Fresh
<1>9. InHand'
  BY <1>1, <1>2 DEF InHand
<1>10. QED
  BY <1>2, <1>8, <1>9, QuietLevel

\* What has been brought back for other slots stays as it was when slot n's is stored.
LEMMA OthersStayFresh ==
  ASSUME Tracked, NEW n \in Registered(mem), NEW m \in SlotIds \ {n}, got[m].kind = "ok",
         got'[m] = got[m], UNCHANGED <<server, sess, live>>, mem'.active = mem.active,
         \A k \in SlotIds \ {n} : kc'[k] = kc[k],
         \/ kc'[n] = kc[n]
         \/ got[n].kind \in {"ok", "recovered"} /\ kc'[n] = got[n].cred
  PROVE  Fresh(m)'
<1>1. Bookkeeping /\ Brought /\ n \in SlotIds /\ m \in Registered(mem)
  BY TrackedFacts, SlotAccounts DEF Bookkeeping
<1>2. Fresh(m)
  BY <1>1 DEF Brought, Fresh
<1>3. got[n].kind \in {"ok", "recovered"} => got[m].cred # got[n].cred
  BY <1>1, SlotAccounts
<1>4. \A k \in SlotIds : got[m].cred # kc'[k]
  BY <1>2, <1>3 DEF Fresh
<1>5. QED
  BY <1>2, <1>4 DEF Fresh, Newest, server

\* The outcome of slot n's call is applied, with nothing new in its slot.
LEMMA ApplyNothing ==
  ASSUME Tracked, NEW n \in SlotIds, Apply(n), UNCHANGED <<kc, env, pc>>,
         mem'.active = mem.active, Registered(mem') = Registered(mem), n \in Registered(mem)
  PROVE  Level'
<1>1. /\ IInv /\ InHand /\ Ahead /\ Brought /\ pc = "calls" /\ UNCHANGED <<live, disk, todo>>
      /\ UNCHANGED <<server, sess>>
  BY TrackedFacts DEF Apply, Tracked
<1>2. /\ got'[n] = Nothing /\ \A m \in SlotIds \ {n} : got'[m] = got[m]
  BY <1>1, ApplyTypes
<1>3. ASSUME NEW m \in SlotIds, got'[m].kind = "ok"
      PROVE  Fresh(m)'
  <2>1. m # n /\ got'[m] = got[m] /\ got[m].kind = "ok"
    BY <1>2, <1>3 DEF Nothing
  <2>2. /\ \A k \in SlotIds \ {n} : kc'[k] = kc[k]
        /\ \/ kc'[n] = kc[n]
           \/ got[n].kind \in {"ok", "recovered"} /\ kc'[n] = got[n].cred
    OBVIOUS
  <2>3. UNCHANGED <<server, sess, live>> /\ mem'.active = mem.active
    BY <1>1
  <2>4. m \in SlotIds \ {n}
    BY <2>1
  <2>5. QED
    BY <2>1, <2>2, <2>3, <2>4, OthersStayFresh
<1>4. \A m \in SlotIds : got'[m].kind = "recovered" => UpTo(got[m].cred, live)'
  BY <1>1, <1>2 DEF Nothing, Brought, UpTo
<1>5. Brought' /\ InHand'
  BY <1>1, <1>3, <1>4 DEF Brought, Fresh, InHand
<1>6. QED
  BY <1>1, <1>5, QuietLevel

LEMMA ApplyRenewedLevel ==
  ASSUME Tracked, NEW n \in SlotIds, ApplyRenewed(n)
  PROVE  Level'
<1>1. /\ IInv /\ TypeOK /\ Bookkeeping /\ InHand /\ Ahead /\ Brought /\ Apply(n)
      /\ got[n].kind \in {"ok", "recovered"} /\ kc \in [SlotIds -> Creds]
      /\ pc = "calls" /\ todo = {} /\ UNCHANGED <<live, disk, todo, server, sess, cmd>>
      /\ n \in Registered(mem) /\ mem \in Table
  BY TrackedFacts DEF Apply, ApplyRenewed, Tracked, Bookkeeping, TypeOK
<1>2. got[n].cred \in Cred /\ live \in Creds
  BY <1>1, SlotAccounts DEF TypeOK
<1>3. PICK t \in Renamed(n, got[n].cred) \union {mem} :
       \/ /\ kc' = [kc EXCEPT ![n] = got[n].cred]
          /\ mem' = SetRevoked(t, n, FALSE)
          /\ IF mem.active = n THEN env' = got[n].cred /\ pc' = "mirror"
             ELSE UNCHANGED <<env, pc>>
       \/ mem' = t /\ UNCHANGED <<kc, env, pc>>
  BY DEF ApplyRenewed
<1>4. t \in Table /\ t.active = mem.active /\ Registered(t) = Registered(mem)
  BY <1>1, <1>2, <1>3, RenamedKeepsOthers
<1>5. CASE mem' = t /\ UNCHANGED <<kc, env, pc>>
  BY <1>1, <1>4, <1>5, ApplyNothing
<1>6. CASE /\ kc' = [kc EXCEPT ![n] = got[n].cred]
           /\ mem' = SetRevoked(t, n, FALSE)
           /\ IF mem.active = n THEN env' = got[n].cred /\ pc' = "mirror"
              ELSE UNCHANGED <<env, pc>>
  <2>1. mem'.active = mem.active /\ Registered(mem') = Registered(mem)
    <3>1. PICK b \in BOOLEAN : b = FALSE
      OBVIOUS
    <3>2. mem' = SetRevoked(t, n, b) /\ NoAccount \in Owner /\ n \in Registered(t)
      BY <1>1, <1>4, <1>6, <3>1 DEF Owner
    <3>3. QED
      BY <1>4, <3>2, FieldsKeepAccounts
  <2>2. kc'[n] = got[n].cred /\ \A m \in SlotIds \ {n} : kc'[m] = kc[m]
    BY <1>1, <1>6
  <2>3. got'[n] = Nothing /\ \A m \in SlotIds \ {n} : got'[m] = got[m]
    BY <1>1, ApplyTypes
  <2>4. \A m \in SlotIds : got'[m].kind = "ok" => Fresh(m)'
    BY <1>1, <2>1, <2>2, <2>3, OthersStayFresh DEF Nothing
  <2>5. \A m \in SlotIds : got'[m].kind = "recovered" => UpTo(got[m].cred, live)'
    BY <1>1, <2>3 DEF Nothing, Brought, UpTo
  <2>6. pc' \in {"calls", "mirror"}
    BY <1>1, <1>6
  <2>7. Brought'
    BY <2>4, <2>5, <2>6 DEF Brought, Fresh
  <2>8. \A m \in Registered(disk) \union Registered(mem) : m # n => UpTo(kc[m], live)'
    BY <1>1, <2>2 DEF Ahead, UpTo, Registered
  <2>9. CASE mem.active = n
    <3>1. env' = got[n].cred /\ pc' = "mirror"
      BY <1>6, <2>9
    <3>2. InHand'
      BY <1>1, <2>1, <2>2, <2>3, <2>9, <3>1 DEF InHand
    <3>3. Ahead'
      BY <1>1, <2>1, <2>8, <2>9, <3>1 DEF Ahead
    <3>4. QED
      BY <2>7, <3>2, <3>3 DEF Level
  <2>10. CASE mem.active # n
    <3>1. UNCHANGED <<env, pc>>
      BY <1>6, <2>10
    <3>2. InHand'
      BY <1>1, <2>1, <3>1 DEF InHand
    <3>3. UpTo(got[n].cred, live)
      BY <1>1, <2>10 DEF Brought, UpTo
    <3>4. \A m \in Registered(disk) \union Registered(mem) : UpTo(kc[m], live)'
      BY <1>1, <2>2, <2>8, <3>3 DEF UpTo
    <3>5. Ahead'
      BY <1>1, <2>1, <3>1, <3>4 DEF Ahead
    <3>6. QED
      BY <2>7, <3>2, <3>5 DEF Level
  <2>11. QED
    BY <2>9, <2>10
<1>7. QED
  BY <1>3, <1>5, <1>6

LEMMA ApplyOtherLevel ==
  ASSUME Tracked, NEW n \in SlotIds, ApplyFailed(n) \/ ApplyRejected(n)
  PROVE  Level'
<1>1. /\ Apply(n) /\ UNCHANGED <<kc, env, pc>> /\ n \in Registered(mem) /\ mem \in Table
  BY TrackedFacts DEF ApplyFailed, ApplyRejected, Bookkeeping, TypeOK
<1>2. mem'.active = mem.active /\ Registered(mem') = Registered(mem)
  <2>1. CASE mem' = mem
    BY <2>1
  <2>2. CASE mem' = SetRevoked(mem, n, TRUE)
    <3>1. PICK b \in BOOLEAN : b = TRUE
      OBVIOUS
    <3>2. mem' = SetRevoked(mem, n, b) /\ NoAccount \in Owner
      BY <2>2, <3>1 DEF Owner
    <3>3. QED
      BY <1>1, <3>2, FieldsKeepAccounts
  <2>3. QED
    BY <2>1, <2>2 DEF ApplyFailed, ApplyRejected
<1>3. QED
  BY <1>1, <1>2, ApplyNothing

\* The renewed credential of the active slot goes live.
LEMMA MirrorLevel ==
  ASSUME Tracked, Mirror
  PROVE  Level'
<1>1. /\ Bookkeeping /\ InHand /\ Ahead /\ Brought /\ Errand /\ "live" \notin Faults
      /\ pc = "mirror" /\ pc' = "calls" /\ todo = {}
      /\ UNCHANGED <<kc, disk, mem, cmd, got, todo, sess, server>>
  BY TrackedFacts DEF Mirror, Bookkeeping
<1>2. PICK n \in Registered(mem) : n = mem.active
  BY <1>1 DEF InHand
<1>3. live' = kc[n] /\ got[n] = Nothing /\ Registered(disk) \subseteq Registered(mem) /\ n \in SlotIds
  BY <1>1, <1>2, SlotAccounts DEF InHand, Mirror
<1>4. \A m \in Registered(disk) \union Registered(mem) : UpTo(kc[m], live)'
  BY <1>1, <1>3, GoingLive
<1>5. ASSUME NEW m \in SlotIds, got[m].kind \in {"ok", "recovered"}
      PROVE  got[m].cred.acct # kc[n].acct
  <2>1. m \in Registered(mem) /\ m # n
    BY <1>1, <1>3, <1>5 DEF Bookkeeping, Nothing
  <2>2. kc[n].acct \in {mem.slots[n].uuid, NoAccount}
    BY SlotAccounts
  <2>3. got[m].cred.acct = mem.slots[m].uuid /\ mem.slots[m].uuid \notin {mem.slots[n].uuid, NoAccount}
    BY <1>5, <2>1, SlotAccounts
  <2>4. QED
    BY <2>2, <2>3
<1>6. \A m \in SlotIds : got[m].kind = "ok" => Fresh(m)'
  BY <1>1, <1>3, <1>5 DEF Brought, Fresh, Newest, server
<1>7. \A m \in SlotIds : got[m].kind = "recovered" => UpTo(got[m].cred, live)'
  BY <1>1, <1>3, <1>5 DEF UpTo
<1>8. Brought'
  BY <1>1, <1>6, <1>7 DEF Brought, Fresh
<1>9. InHand'
  BY <1>1 DEF InHand
<1>10. Ahead'
  BY <1>1, <1>4 DEF Ahead
<1>11. QED
  BY <1>8, <1>9, <1>10 DEF Level

\* Removing slots leaves nothing behind that is newer than what is live.
LEMMA RemovingLevel ==
  ASSUME Tracked, RemoveSlot \/ \E n \in SlotIds : Sweep(n)
  PROVE  Level'
<1>1. /\ TypeOK /\ Bookkeeping /\ Ahead /\ mem \in Table /\ live \in Creds /\ tgt \in SlotIds \union {0}
      /\ kc \in [SlotIds -> Creds] /\ got \in [SlotIds -> Outcome]
  BY TrackedFacts DEF TypeOK
<1>2. CASE RemoveSlot /\ Fail
  BY <1>2, GoneLevel DEF RemoveSlot
<1>3. ASSUME NEW n \in SlotIds, Forget(n), pc \in {"act", "sweep"}, pc' \in {"save", "sweep"},
             UNCHANGED <<live, disk>>, \A m \in SlotIds : got'[m] \in {got[m], Nothing}
      PROVE  Level'
  <2>1. \A m \in SlotIds : kc'[m] \in {kc[m], NoCred}
    BY <1>1, <1>3 DEF Forget
  <2>2. Registered(mem') \subseteq Registered(mem)
    BY <1>1, <1>3, RemoveDropsOneSlot DEF Forget
  <2>3. \A m \in Registered(disk) \union Registered(mem) : m \in SlotIds /\ UpTo(kc[m], live)
    BY <1>1, <1>3 DEF Ahead, Registered
  <2>4. \A m \in Registered(disk) \union Registered(mem) : UpTo(kc[m], live)'
    BY <1>1, <1>3, <2>1, <2>3, UpToItself DEF UpTo
  <2>5. Ahead'
    BY <1>3, <2>2, <2>4 DEF Ahead
  <2>6. \A m \in SlotIds : got[m].kind \notin {"ok", "recovered"}
    BY <1>3, TrackedFacts DEF Brought
  <2>7. \A m \in SlotIds : got'[m].kind \notin {"ok", "recovered"}
    BY <1>3, <2>6 DEF Nothing
  <2>8. Brought'
    BY <2>7, NothingBrought
  <2>9. InHand'
    BY <1>3, <2>8 DEF InHand
  <2>10. QED
    BY <2>5, <2>8, <2>9 DEF Level
<1>4. CASE RemoveSlot /\ ~Fail
  <2>1. /\ tgt \in SlotIds /\ Forget(tgt) /\ pc = "act" /\ pc' = "save"
        /\ UNCHANGED <<live, disk, got>>
    BY <1>1, <1>4 DEF RemoveSlot, Registered, locals
  <2>2. QED
    BY <1>3, <2>1
<1>5. ASSUME NEW n \in SlotIds, Sweep(n)
      PROVE  Level'
  <2>1. \A m \in SlotIds : got'[m] \in {got[m], Nothing}
    BY <1>1, <1>5 DEF Sweep
  <2>2. QED
    BY <1>3, <1>5, <2>1 DEF Sweep
<1>6. QED
  BY <1>2, <1>4, <1>5

\* adopt: what it reads is what is live, what it renews is newer, and goes live first.
LEMMA AdoptLevel ==
  ASSUME Tracked, Adopt \/ AdoptRotate \/ AdoptWrite
  PROVE  Level'
<1>1. /\ TypeOK /\ Bookkeeping /\ InHand /\ Ahead /\ Chained /\ HeldIn(Issued)
      /\ live \in Creds /\ LiveReads = {live} /\ "live" \notin Faults
  BY TrackedFacts DEF TypeOK
<1>2. CASE Adopt /\ Fail
  BY <1>2, GoneLevel DEF Adopt
<1> SUFFICES ASSUME ~(Adopt /\ Fail)
             PROVE  Level'
  BY <1>2
<1>3. UNCHANGED <<kc, disk, mem, got>>
  BY DEF Adopt, AdoptRotate, AdoptWrite, stores
<1>4. ASSUME pc \in {"act", "adoptRotate", "adoptWrite"}, pc' \in {"adoptRotate", "adoptWrite", "adoptStore"},
             UNCHANGED <<kc, disk, mem, got>>,
             pc' \in {"adoptRotate", "adoptStore"} => UpTo(env, live)',
             \A n \in Registered(disk) \union Registered(mem) : UpTo(kc[n], live)',
             pc' \in {"adoptRotate", "adoptWrite"} =>
               \A n \in Registered(disk) \union Registered(mem) : UpTo(kc[n], env)'
      PROVE  Level'
  <2>1. Brought'
    BY <1>4, NothingBrought
  <2>2. InHand'
    BY <1>1, <1>4 DEF InHand
  <2>3. Ahead'
    BY <1>4 DEF Ahead
  <2>4. QED
    BY <2>1, <2>2, <2>3 DEF Level
<1>5. CASE Adopt /\ ~Fail
  <2>1. env' = live /\ live' = live /\ pc = "act" /\ pc' \in {"adoptRotate", "adoptStore"}
    BY <1>1, <1>5 DEF Adopt, stores
  <2>2. \A n \in Registered(disk) \union Registered(mem) : UpTo(kc[n], live)
    BY <1>1, <2>1 DEF Ahead
  <2>3. UpTo(live, live)
    BY <1>1, UpToItself
  <2>4. /\ UpTo(env, live)'
        /\ \A n \in Registered(disk) \union Registered(mem) : UpTo(kc[n], live)' /\ UpTo(kc[n], env)'
    BY <1>3, <2>1, <2>2, <2>3 DEF UpTo
  <2>5. QED
    BY <1>3, <1>4, <2>1, <2>4
<1>6. CASE AdoptRotate
  <2>1. PICK out \in Outcome :
          /\ Refresh(env, out)
          /\ env' = IF out.kind = "ok" THEN out.cred ELSE env
          /\ pc' = IF out.kind = "ok" THEN "adoptWrite" ELSE "adoptStore"
    BY <1>6 DEF AdoptRotate
  <2>2. pc = "adoptRotate" /\ live' = live /\ env \in Cred
    BY <1>1, <1>6 DEF AdoptRotate, stores, Bookkeeping
  <2>3. /\ \A n \in Registered(disk) \union Registered(mem) : n \in SlotIds /\ UpTo(kc[n], live)
        /\ UpTo(env, live)
    BY <1>1, <2>2 DEF Ahead, InHand, Registered
  <2>4. \A n \in Registered(disk) \union Registered(mem) : UpTo(kc[n], live)'
    BY <1>3, <2>2, <2>3 DEF UpTo
  <2>5. CASE out.kind # "ok"
    <3>1. env' = env /\ pc' = "adoptStore"
      BY <2>1, <2>5
    <3>2. UpTo(env, live)'
      BY <2>2, <2>3, <3>1 DEF UpTo
    <3>3. QED
      BY <1>3, <1>4, <2>2, <2>4, <3>1, <3>2
  <2>6. CASE out.kind = "ok"
    <3>1. PICK x : x = NextCred(env.acct)
      OBVIOUS
    <3>2. Rotate(env) /\ out.cred = x
      BY <2>1, <2>6, <3>1 DEF Refresh, Ok, Rejected, Failed
    <3>3. x.acct = env.acct /\ env.acct \in Accounts /\ x.gen = issued[env.acct] + 1 /\ issued[env.acct] \in Nat
      BY <1>1, <2>2, <3>1 DEF NextCred, TypeOK, ServerTypeOK, Cred, Gens
    <3>4. ASSUME NEW n \in SlotIds
          PROVE  UpTo(kc[n], x)
      <4>1. kc[n] \in Issued
        BY <1>1 DEF HeldIn
      <4>2. CASE kc[n] = NoCred
        BY <3>3, <4>2, IdentityAssumption DEF UpTo, NoCred
      <4>3. CASE kc[n] # NoCred
        BY <3>3, <4>1, <4>3, IssuedCred DEF UpTo
      <4>4. QED
        BY <4>2, <4>3
    <3>5. env' = x /\ pc' = "adoptWrite"
      BY <2>1, <2>6, <3>2
    <3>6. \A n \in Registered(disk) \union Registered(mem) : UpTo(kc[n], env)'
      BY <1>3, <2>3, <3>4, <3>5 DEF UpTo
    <3>7. QED
      BY <1>3, <1>4, <2>2, <2>4, <3>5, <3>6
  <2>7. QED
    BY <2>5, <2>6
<1>7. CASE AdoptWrite
  <2>1. env' = env /\ live' = env /\ pc = "adoptWrite" /\ pc' = "adoptStore" /\ env \in Creds
    BY <1>1, <1>7 DEF AdoptWrite, TypeOK
  <2>2. \A n \in Registered(disk) \union Registered(mem) : UpTo(kc[n], env)
    BY <1>1, <2>1 DEF Ahead
  <2>3. UpTo(env, env)
    BY <2>1, UpToItself
  <2>4. UpTo(env, live)' /\ \A n \in Registered(disk) \union Registered(mem) : UpTo(kc[n], live)'
    BY <1>3, <2>1, <2>2, <2>3 DEF UpTo
  <2>5. QED
    BY <1>3, <1>4, <2>1, <2>4
<1>8. QED
  BY <1>5, <1>6, <1>7

LEMMA AdoptStoreFiles ==
  ASSUME TypeOK, Bookkeeping, AdoptStore, ~Fail
  PROVE  \E n \in SlotIds :
           /\ kc' = [kc EXCEPT ![n] = env] /\ Registered(mem') \subseteq Registered(mem) \union {n}
           /\ pc' = "save" /\ UNCHANGED <<live, disk, got>>
<1>1. mem \in Table
  BY DEF TypeOK
<1>2. PICK answer \in Answers(env) :
     LET byConfig == FindByAccountUUID(mem, who)
         found == IF byConfig # 0 THEN byConfig ELSE FindByAccountUUID(mem, answer)
         n == IF found # 0 THEN found ELSE NextFreeSlot(mem)
         old == IF found # 0 THEN mem.slots[n]
                ELSE [uuid |-> who, block |-> who, revoked |-> FALSE]
         new == IF answer # NoAccount
                THEN [uuid |-> answer, block |-> answer, revoked |-> FALSE]
                ELSE [old EXCEPT !.revoked = FALSE,
                                 !.block = IF @ = NoAccount THEN who ELSE @]
     IN n # 0 /\ kc' = [kc EXCEPT ![n] = env] /\ mem' = Activate(Put(mem, n, new), n)
  BY DEF AdoptStore
<1>3. PICK found : found = IF FindByAccountUUID(mem, who) # 0 THEN FindByAccountUUID(mem, who)
                           ELSE FindByAccountUUID(mem, answer)
  OBVIOUS
<1>4. PICK n : n = IF found # 0 THEN found ELSE NextFreeSlot(mem)
  OBVIOUS
<1>5. PICK s : /\ n # 0 /\ kc' = [kc EXCEPT ![n] = env]
               /\ mem' = Activate(Put(mem, n, s), n)
  BY <1>2, <1>3, <1>4
<1>6. n \in SlotIds
  BY <1>1, <1>3, <1>4, <1>5, FindReturnsOwnSlot, RegisteredIsSlot, NextFreeIsFree
<1>7. PICK slots : slots = [mem.slots EXCEPT ![n] = s]
  OBVIOUS
<1>8. mem'.slots = slots
  BY <1>1, <1>5, <1>7 DEF Activate, Put, Table
<1>9. \A m \in SlotIds \ {n} : mem'.slots[m] = mem.slots[m]
  BY <1>1, <1>7, <1>8 DEF Table
<1>10. Registered(mem') \subseteq Registered(mem) \union {n}
  BY <1>9 DEF Registered
<1>11. pc' = "save" /\ UNCHANGED <<live, disk, got>>
  BY DEF AdoptStore
<1>12. QED
  BY <1>5, <1>6, <1>10, <1>11

\* adopt files it, and it is not newer than what is live.
LEMMA AdoptStoreLevel ==
  ASSUME Tracked, AdoptStore
  PROVE  Level'
<1>1. /\ TypeOK /\ Bookkeeping /\ InHand /\ Ahead /\ pc = "adoptStore" /\ env \in Cred
      /\ mem \in Table /\ kc \in [SlotIds -> Creds]
  BY TrackedFacts DEF TypeOK, Bookkeeping, AdoptStore
<1>2. CASE Fail
  BY <1>1, <1>2, GoneLevel
<1>3. CASE ~Fail
  <2>1. PICK n \in SlotIds :
          /\ kc' = [kc EXCEPT ![n] = env] /\ Registered(mem') \subseteq Registered(mem) \union {n}
          /\ pc' = "save" /\ UNCHANGED <<live, disk, got>>
    BY <1>1, <1>3, AdoptStoreFiles
  <2>2. UpTo(env, live) /\ \A m \in Registered(disk) \union Registered(mem) : m \in SlotIds /\ UpTo(kc[m], live)
    BY <1>1 DEF InHand, Ahead, Registered
  <2>3. kc'[n] = env /\ \A m \in SlotIds \ {n} : kc'[m] = kc[m]
    BY <1>1, <2>1
  <2>4. \A m \in Registered(disk) \union Registered(mem) \union {n} : UpTo(kc[m], live)'
    BY <2>1, <2>2, <2>3 DEF UpTo
  <2>5. Brought' /\ InHand'
    BY <1>1, <2>1, NothingBrought DEF InHand
  <2>6. Ahead'
    BY <2>1, <2>4 DEF Ahead
  <2>7. QED
    BY <2>5, <2>6 DEF Level
<1>4. QED
  BY <1>2, <1>3

\* A step that leaves all that Level speaks of alone.
LEMMA SameLevel ==
  ASSUME Tracked, UNCHANGED <<kc, live, disk, mem, pc, locals>>,
         \A n \in SlotIds : got[n].kind = "ok" => Fresh(n)'
  PROVE  Level'
<1>1. InHand /\ Ahead /\ Brought
  BY TrackedFacts
<1>2. InHand'
  BY <1>1 DEF InHand, locals
<1>3. Ahead'
  BY <1>1 DEF Ahead, UpTo, Before, locals
<1>4. Brought'
  BY <1>1 DEF Brought, Fresh, UpTo, locals
<1>5. QED
  BY <1>2, <1>3, <1>4 DEF Level

\* A session that opens, ends or renews its copy, and the passing of time.
LEMMA SessionLevel ==
  ASSUME Tracked, \/ \E s \in Sessions : Open(s) \/ Renew(s) \/ End(s)
                  \/ \E a \in Accounts : TimePasses(a)
  PROVE  Level'
<1>1. /\ TypeOK /\ Brought /\ Chained /\ HeldIn(Issued)
      /\ \A n \in SlotIds : got[n].kind = "ok" => Fresh(n) /\ got[n].cred \in Cred
  <2>1. Brought /\ Bookkeeping
    BY TrackedFacts
  <2>2. QED
    BY <2>1, TrackedFacts, SlotAccounts DEF Brought, Fresh, Bookkeeping
<1>2. UNCHANGED <<kc, live, disk, mem, pc, locals>>
  BY DEF Open, Renew, End, TimePasses, stores
<1>3. ASSUME NEW s \in Sessions, Open(s) \/ End(s), NEW n \in SlotIds, got[n].kind = "ok"
      PROVE  Fresh(n)'
  <2>1. PICK c \in {live, NoCred} : sess' = [sess EXCEPT ![s] = [cred |-> c, dirty |-> FALSE]] /\ issued' = issued
    BY <1>3 DEF Open, End, server
  <2>2. \A r \in Sessions : sess'[r].cred \in {sess[r].cred, live, NoCred}
    BY <1>1, <2>1 DEF TypeOK
  <2>3. Fresh(n) /\ got[n].cred # NoCred
    BY <1>1, <1>3, NoCredIsNoCred
  <2>4. got' = got /\ kc' = kc /\ live' = live /\ mem' = mem
    BY <1>2 DEF locals
  <2>5. QED
    BY <2>1, <2>2, <2>3, <2>4 DEF Fresh, Newest
<1>4. ASSUME NEW a \in Accounts, TimePasses(a), NEW n \in SlotIds, got[n].kind = "ok"
      PROVE  Fresh(n)'
  <2>1. sess' = sess /\ issued' = issued /\ got' = got /\ kc' = kc /\ live' = live /\ mem' = mem
    BY <1>2, <1>4 DEF TimePasses, Lapse, Expire, Outlast, locals
  <2>2. QED
    BY <1>1, <1>4, <2>1 DEF Fresh, Newest
<1>5. ASSUME NEW s \in Sessions, Renew(s), NEW n \in SlotIds, got[n].kind = "ok"
      PROVE  Fresh(n)'
  <2>1. PICK c \in Cred : c = sess[s].cred /\ Rotate(c)
    BY <1>1, <1>5 DEF Renew, TypeOK, Creds
  <2>2. PICK x : x = NextCred(c.acct)
    OBVIOUS
  <2>3. x \notin Issued
    BY <1>1, <2>1, <2>2, RotateChain
  <2>4. sess' = [sess EXCEPT ![s] = [cred |-> x, dirty |-> TRUE]]
    BY <1>5, <2>1, <2>2 DEF Renew
  <2>5. \A r \in Sessions : sess'[r].cred \in {sess[r].cred, x}
    BY <1>1, <2>4 DEF TypeOK
  <2>6. PICK d \in Cred : d = got[n].cred
    BY <1>1, <1>5
  <2>7. Fresh(n) /\ d # x /\ d # c /\ Newest(d)
    BY <1>1, <1>5, <2>1, <2>3, <2>6 DEF HeldIn, Fresh
  <2>8. Newest(d)'
    BY <1>1, <2>1, <2>7, FreshStays
  <2>9. got' = got /\ kc' = kc /\ live' = live /\ mem' = mem
    BY <1>2 DEF locals
  <2>10. QED
    BY <2>5, <2>6, <2>7, <2>8, <2>9 DEF Fresh, Newest
<1>6. QED
  BY <1>2, <1>3, <1>4, <1>5, SameLevel

\* A session stores what it has renewed: it is newer than all that cas holds.
LEMMA WriteBackLevel ==
  ASSUME Tracked, NEW s \in Sessions, WriteBack(s)
  PROVE  Level'
<1>1. /\ TypeOK /\ InHand /\ Ahead /\ Brought /\ Bookkeeping /\ HeldIn(Issued)
      /\ sess[s].dirty /\ Alone(s)
  BY TrackedFacts, ChainedAlone DEF WriteBack
<1>2. PICK x \in Cred : x = sess[s].cred
  BY <1>1 DEF Alone
<1>3. /\ live' = x /\ UNCHANGED <<server, kc, disk, pc, mem, locals>>
      /\ \A r \in Sessions : sess'[r].cred = sess[r].cred
  BY <1>1, <1>2 DEF WriteBack, TypeOK
<1>4. Newest(x) /\ x \notin Copies
  BY <1>1, <1>2 DEF Alone
<1>5. Copies \subseteq Issued
  BY <1>1 DEF HeldIn, Copies
<1>6. \A c \in Copies : UpTo(c, x) /\ Before(c, x)
  BY <1>1, <1>4, <1>5, NewestIsLast
<1>7. /\ \A n \in SlotIds : kc[n] \in Copies /\ got[n].cred \in Copies
      /\ env \in Copies /\ seen \in Copies
  BY DEF Copies
<1>8. /\ \A n \in SlotIds : UpTo(kc[n], live)' /\ Before(kc[n], live)' /\ UpTo(got[n].cred, live)'
      /\ UpTo(env, live)' /\ UpTo(seen, live)'
  BY <1>3, <1>6, <1>7 DEF UpTo, Before, locals
<1>9. InHand'
  BY <1>1, <1>3, <1>8 DEF InHand, locals
<1>10. \A n \in Registered(disk) \union Registered(mem) : n \in SlotIds
  BY DEF Registered
<1>11. Ahead'
  BY <1>1, <1>3, <1>8, <1>10 DEF Ahead, UpTo, locals
<1>12. ASSUME NEW n \in SlotIds, got[n].kind = "ok"
       PROVE  Fresh(n)'
  <2>1. Fresh(n) /\ got[n].cred \in Cred
    BY <1>1, <1>12, SlotAccounts DEF Brought, Fresh, Bookkeeping
  <2>2. got[n].cred # x
    BY <1>2, <2>1 DEF Fresh
  <2>3. got[n].cred.acct # x.acct
    BY <1>4, <2>1, <2>2, SameCred DEF Fresh, Newest, Creds
  <2>4. QED
    BY <1>3, <2>1, <2>2, <2>3 DEF Fresh, Newest, server, locals
<1>13. Brought'
  BY <1>1, <1>3, <1>8, <1>12 DEF Brought, Fresh, locals
<1>14. QED
  BY <1>9, <1>11, <1>13 DEF Level

\* Every step keeps the order.
LEMMA NextKeepsLevel ==
  ASSUME Tracked, Next, ~misled'
  PROVE  Level'
<1>1. Errand /\ Bookkeeping /\ OneChain
  BY TrackedFacts DEF Tracked
<1>2. ASSUME \E a \in Accounts : SignIn(a)
      PROVE  FALSE
  BY <1>1, <1>2 DEF SignIn, OneChain
<1>3. ASSUME Login \/ Register \/ LoginSave \/ Crash
      PROVE  FALSE
  BY <1>1, <1>3 DEF Login, Register, LoginSave, Crash, Errand, Bookkeeping, OneChain, Trusted
<1>4. CASE \E c \in Commands, n \in SlotIds \union {0} : Begin(c, n)
  BY <1>4, GoneLevel
<1>5. CASE Step
  BY <1>3, <1>5, GoneLevel, SyncReadLevel, SyncConfirmLevel, ChoosingLevel, ParkLevel, ActivateLevel,
     PlanLevel, CallLevel, ApplyRenewedLevel, ApplyOtherLevel, MirrorLevel, RemovingLevel,
     AdoptLevel, AdoptStoreLevel DEF Step
<1>6. CASE ClaudeCode
  BY <1>2, <1>6, SessionLevel, WriteBackLevel DEF ClaudeCode
<1>7. QED
  BY <1>3, <1>4, <1>5, <1>6 DEF Next

-----------------------------------------------------------------------------
(***************************************************************************)
(* Nothing that works is overwritten unless it is held elsewhere: Backed.  *)
(***************************************************************************)

\* Where a command is that has reconciled the table with what is live.
Running == {"act", "ensure", "rotate", "park", "install", "calls", "mirror"}

LiveBacked == Works(live) /\ FindByAccountUUID(mem, live.acct) # 0 => Kept(live)

\* What is about to be stored for slot n replaces nothing that works.
Replaces(n) == got[n].kind \in {"ok", "recovered"} => n \notin todo /\ Useless(n)

Guarded == Tracked /\ Careful /\ Backed

LEMMA GuardedFacts ==
  ASSUME Guarded
  PROVE  /\ Tracked /\ Backed /\ Errand /\ Bookkeeping /\ TypeOK /\ Sound
         /\ pc \in Running /\ cmd \in Synced => LiveBacked
         /\ \A n \in SlotIds : Replaces(n)
         /\ cmd \notin {"login", "adopt"}
         /\ pc \notin {"register", "loginSave", "adoptRotate", "adoptWrite", "adoptStore"}
         /\ "store" \notin Faults /\ "delete" \notin Faults
<1>1. Tracked /\ Backed /\ Errand /\ Bookkeeping /\ TypeOK /\ Sound
  BY TrackedFacts DEF Guarded
<1>2. "login" \notin Commands /\ "adopt" \notin Commands /\ "store" \notin Faults /\ "delete" \notin Faults
  BY DEF Guarded, Careful, OneChain
<1>3. cmd \notin {"login", "adopt"}
  BY <1>1, <1>2 DEF Errand
<1>4. pc \notin {"register", "loginSave", "adoptRotate", "adoptWrite", "adoptStore"}
  BY <1>1, <1>3 DEF Bookkeeping, Errand
<1>5. /\ pc \in Running /\ cmd \in Synced => LiveBacked
      /\ \A n \in SlotIds : Replaces(n)
  BY <1>1 DEF Backed, Running, LiveBacked, Replaces
<1>6. QED
  BY <1>1, <1>2, <1>3, <1>4, <1>5

\* What works was issued, and worked before.
LEMMA LiveWorked ==
  ASSUME TypeOK, Sound, Onward, live' = live, Works(live)'
  PROVE  Works(live) /\ live \in Cred
<1>1. live \in Issued /\ live # NoCred
  BY SoundHeld DEF Sound, HeldIn, Works
<1>2. QED
  BY <1>1, IssuedCred DEF Works, Good, Onward

\* A table that has the accounts of mem, or some of them.
LEMMA FoundBefore ==
  ASSUME TypeOK, mem' \in Table, Registered(mem') \subseteq Registered(mem),
         \A m \in Registered(mem') : mem'.slots[m].uuid = mem.slots[m].uuid,
         NEW a, FindByAccountUUID(mem', a) # 0
  PROVE  FindByAccountUUID(mem, a) # 0
<1>1. PICK t \in Table : t = mem'
  OBVIOUS
<1>2. PICK n : n = FindByAccountUUID(t, a)
  OBVIOUS
<1>3. n \in Registered(t) /\ t.slots[n].uuid = a /\ a # NoAccount
  BY <1>1, <1>2, FindReturnsOwnSlot
<1>4. mem \in Table /\ n \in Registered(mem) /\ mem.slots[n].uuid = a
  BY <1>1, <1>3 DEF TypeOK
<1>5. QED
  BY <1>3, <1>4, FindFindsRegistered

\* Where nothing that works is overwritten, what is live stays kept.
LEMMA LiveStaysKept ==
  ASSUME TypeOK, Sound, Onward, live' = live, Works(live)', Kept(live),
         \A n \in SlotIds : kc'[n] = kc[n] \/ Useless(n),
         \A s \in Sessions : \/ sess'[s].cred = sess[s].cred
                             \/ sess[s].cred = NoCred
                             \/ sess[s].cred.gen \notin unspent'[sess[s].cred.acct]
  PROVE  Kept(live)'
<1>1. Works(live)
  BY LiveWorked
<1>2. CASE \E n \in SlotIds : kc[n] = live
  BY <1>1, <1>2 DEF Useless, Kept
<1>3. ASSUME NEW s \in Sessions, sess[s].cred = live
      PROVE  sess'[s].cred = live
  BY <1>3 DEF Works, Good
<1>4. QED
  BY <1>2, <1>3 DEF Kept

LEMMA LiveStaysBacked ==
  ASSUME TypeOK, Sound, Onward, LiveBacked, live' = live, sess' = sess,
         \A n \in SlotIds : kc'[n] = kc[n] \/ Useless(n),
         mem' \in Table, Registered(mem') \subseteq Registered(mem),
         \A m \in Registered(mem') : mem'.slots[m].uuid = mem.slots[m].uuid
  PROVE  LiveBacked'
<1>1. SUFFICES ASSUME Works(live)', FindByAccountUUID(mem', live.acct) # 0
               PROVE  Kept(live)'
  BY DEF LiveBacked
<1>2. Works(live) /\ FindByAccountUUID(mem, live.acct) # 0
  BY <1>1, LiveWorked, FoundBefore
<1>3. QED
  BY <1>1, <1>2, LiveStaysKept DEF LiveBacked

\* How Backed is put together after a step.
LEMMA BackedNext ==
  ASSUME Level',
         pc' \in Running /\ cmd' \in Synced => LiveBacked',
         pc' = "confirm" => live' = seen',
         pc' \notin {"rotate", "park", "install", "mirror"} => env' = NoCred,
         pc' = "park" => Useless(tgt)',
         pc' \in {"calls", "mirror"} => \A n \in SlotIds : Replaces(n)'
  PROVE  Backed'
<1>1. \A n \in SlotIds : Replaces(n)'
  BY DEF Level, Brought, Replaces
<1>2. QED
  BY <1>1 DEF Backed, Running, LiveBacked, Replaces

\* Steps that end a command or start one.
LEMMA EndBacked ==
  ASSUME Guarded, Level', \/ \E p \in {"idle", "dead"} : Gone(p)
                          \/ Release \/ \E c \in Commands, n \in SlotIds \union {0} : Begin(c, n)
  PROVE  Backed'
<1>1. "none" \notin Synced
  BY DEF Synced
<1>2. ASSUME NEW p \in {"idle", "dead"}, Gone(p)
      PROVE  Backed'
  BY <1>1, <1>2, BackedNext DEF Gone, NoCalls, Nothing, Replaces, Running
<1>3. CASE Release
  BY <1>3, GuardedFacts, BackedNext DEF Release, locals, Backed, Running
<1>4. ASSUME NEW c \in Commands, NEW n \in SlotIds \union {0}, Begin(c, n)
      PROVE  Backed'
  BY <1>4, GuardedFacts, BackedNext DEF Begin, Backed, Running, Synced
<1>5. QED
  BY <1>2, <1>3, <1>4

\* SyncRead goes on at once only when a slot holds what is live, or none could.
LEMMA SyncReadBacked ==
  ASSUME Guarded, Level', SyncRead
  PROVE  Backed'
<1>1. /\ Tracked /\ TypeOK /\ Backed /\ pc = "sync" /\ UNCHANGED <<kc, live, sess, mem, cmd, env, server>>
      /\ LiveReads = {live} /\ \A n \in SlotIds : SlotReads(n) = {kc[n]}
  BY GuardedFacts, TrackedFacts DEF SyncRead, stores
<1>2. pc' \in {"act", "confirm"} /\ env' = NoCred
  BY <1>1 DEF SyncRead, Backed
<1>3. pc' = "confirm" => live' = seen'
  BY <1>1 DEF SyncRead
<1>4. ASSUME pc' = "act", Works(live), FindByAccountUUID(mem, live.acct) # 0
      PROVE  Kept(live)
  <2>1. \/ live = NoCred \/ Registered(mem) = {}
        \/ Active(mem) # 0 /\ live \in SlotReads(Active(mem))
    BY <1>1, <1>4 DEF SyncRead
  <2>2. live # NoCred /\ mem \in Table
    BY <1>1, <1>4 DEF Works, TypeOK
  <2>3. Registered(mem) # {}
    BY <1>4, <2>2, FindReturnsOwnSlot
  <2>4. Active(mem) \in SlotIds
    BY <2>1, <2>2, <2>3, ActiveIsRegistered, RegisteredIsSlot
  <2>5. QED
    BY <1>1, <2>1, <2>2, <2>3, <2>4 DEF Kept
<1>5. pc' = "act" => LiveBacked'
  BY <1>1, <1>4 DEF LiveBacked, Works, Good, Kept, server
<1>6. QED
  BY <1>2, <1>3, <1>5, BackedNext DEF Running

\* SyncConfirm keeps what is live: it has just filed it, or what it has filed is an older
\* one, which a session has replaced since and holds.
LEMMA SyncConfirmBacked ==
  ASSUME Guarded, Level', SyncConfirm, ~misled', Onward
  PROVE  Backed'
<1>1. /\ Tracked /\ TypeOK /\ Sound /\ Ahead /\ Backed /\ "store" \notin Faults /\ pc = "confirm" /\ pc' = "act"
      /\ UNCHANGED <<live, cmd, env, sess, server>>
      /\ Registered(mem') = Registered(mem) /\ mem' \in Table
      /\ mem'.active \in Registered(mem) \union {0}
      /\ \A m \in SlotIds : kc'[m] = kc[m] \/ (m = mem'.active /\ kc'[m] = seen)
      /\ \A n \in Registered(mem) : mem.slots[n].uuid = seen.acct => mem'.active = n
      /\ mem'.active # 0 => kc'[mem'.active] = seen
      /\ \A m \in Registered(mem) : mem'.slots[m].uuid = mem.slots[m].uuid
  BY GuardedFacts, TrackedFacts, SyncConfirmWrites
<1>2. env' = NoCred
  BY <1>1 DEF Backed
<1>3. ASSUME Works(live)', FindByAccountUUID(mem', live.acct) # 0
      PROVE  Kept(live)'
  <2>1. Works(live)
    BY <1>1, <1>3, LiveWorked
  <2>2. CASE live = seen
    <3>1. PICK n : n = FindByAccountUUID(mem', live.acct)
      OBVIOUS
    <3>2. n \in Registered(mem') /\ mem'.slots[n].uuid = live.acct
      BY <1>1, <1>3, <3>1, FindReturnsOwnSlot
    <3>3. mem'.active = n /\ n \in SlotIds /\ n # 0
      BY <1>1, <2>2, <3>2, SlotTableAssumption DEF Registered, SlotIds
    <3>4. QED
      BY <1>1, <2>2, <3>3 DEF Kept
  <2>3. CASE live # seen
    <3>1. Kept(live)
      BY <1>1, <2>1, <2>3 DEF Backed
    <3>2. CASE \E s \in Sessions : sess[s].cred = live
      BY <1>1, <3>2 DEF Kept
    <3>3. ASSUME NEW n \in SlotIds, kc[n] = live
          PROVE  kc'[n] = live
      <4>1. SUFFICES ASSUME n = mem'.active
                     PROVE  FALSE
        BY <1>1, <3>3
      <4>2. n \in Registered(mem) /\ live.gen \in Nat /\ live # NoCred
        BY <1>1, <2>1, <4>1, SlotTableAssumption DEF SlotIds, TypeOK, Works, Creds, Cred, Gens
      <4>3. Before(live, live)
        BY <1>1, <2>3, <3>3, <4>2 DEF Ahead
      <4>4. QED
        BY <4>2, <4>3 DEF Before
    <3>4. QED
      BY <1>1, <3>1, <3>2, <3>3 DEF Kept
  <2>4. QED
    BY <2>2, <2>3
<1>4. LiveBacked'
  BY <1>1, <1>3 DEF LiveBacked
<1>5. QED
  BY <1>1, <1>2, <1>4, BackedNext

\* Steps that move no credential, and go on with what they are at.
LEMMA QuietBacked ==
  ASSUME Guarded, Level', Onward, UNCHANGED <<kc, live, sess, cmd>>,
         mem' \in Table, Registered(mem') \subseteq Registered(mem),
         \A m \in Registered(mem') : mem'.slots[m].uuid = mem.slots[m].uuid,
         pc \in Running \/ pc' \notin Running, pc' # "confirm",
         pc' \notin {"rotate", "park", "install", "mirror"} => env' = NoCred,
         pc' = "park" => Useless(tgt)',
         pc' \in {"calls", "mirror"} => \A n \in SlotIds : Replaces(n)'
  PROVE  Backed'
<1>1. TypeOK /\ Sound /\ (pc \in Running /\ cmd \in Synced => LiveBacked)
  BY GuardedFacts
<1>2. pc' \in Running /\ cmd' \in Synced => LiveBacked'
  BY <1>1, LiveStaysBacked
<1>3. QED
  BY <1>2, BackedNext

LEMMA ChoosingBacked ==
  ASSUME Guarded, Level', Onward, Switch \/ EnsureFresh \/ EnsureFreshCall
  PROVE  Backed'
<1>1. /\ TypeOK /\ Bookkeeping /\ Backed /\ Sound /\ Tracked /\ mem \in Table /\ UNCHANGED <<kc, live, sess>>
  BY GuardedFacts DEF Switch, EnsureFresh, EnsureFreshCall, stores, Fail, TypeOK
<1>2. CASE Exit
  BY <1>2, EndBacked DEF Exit
<1>3. CASE Switch /\ ~Fail
  BY <1>1, <1>3, QuietBacked DEF Switch, locals, Backed, Running
<1>4. CASE EnsureFresh /\ ~Fail
  BY <1>1, <1>4, QuietBacked DEF EnsureFresh, Backed, Running
<1>5. CASE EnsureFreshCall /\ ~Exit
  <2>1. PICK out \in Outcome :
          /\ RefreshOrRecover(tgt, env, out)
          /\ \/ out.kind \in {"ok", "recovered"} /\ pc' = "park"
             \/ out.kind = "failed" /\ pc' = "install"
    BY <1>5 DEF EnsureFreshCall
  <2>2. pc = "rotate" /\ UNCHANGED <<mem, cmd, tgt>> /\ tgt \in SlotIds /\ env = kc[tgt] /\ env \in Cred
    BY <1>1, <1>5, TrackedFacts, RegisteredIsSlot DEF EnsureFreshCall, locals, Bookkeeping, InHand
  <2>3. ASSUME pc' = "park"
        PROVE  Useless(tgt)'
    <3>1. Rotate(env) \/ (UNCHANGED server /\ ~Good(env))
      BY <2>1, <2>3 DEF RefreshOrRecover, Refresh, Ok, Rejected, Failed
    <3>2. Rotate(env) => env.gen \notin unspent'[env.acct]
      BY <1>1, <2>2, RotateChain, TrackedFacts
    <3>3. env.gen \notin unspent'[env.acct]
      BY <3>1, <3>2 DEF Good, server
    <3>4. kc'[tgt'] = env
      BY <1>1, <2>2
    <3>5. QED
      BY <3>3, <3>4 DEF Useless, Works, Good
  <2>4. QED
    BY <1>1, <2>1, <2>2, <2>3, QuietBacked DEF Running
<1>6. QED
  BY <1>2, <1>3, <1>4, <1>5 DEF Fail

\* EnsureFresh parks what it has renewed in the place of what was spent for it; the
\* activation then takes it out of hand.
LEMMA ActivateBacked ==
  ASSUME Guarded, Level', Onward, EnsureFreshStore \/ Install \/ Point
  PROVE  Backed'
<1>1. /\ TypeOK /\ Bookkeeping /\ Backed /\ Sound /\ Tracked /\ mem \in Table /\ "store" \notin Faults
      /\ (pc \in Running /\ cmd \in Synced => LiveBacked) /\ kc \in [SlotIds -> Creds]
  BY GuardedFacts DEF TypeOK
<1>2. CASE Fail
  BY <1>2, EndBacked DEF Fail, Exit
<1>3. CASE EnsureFreshStore /\ ~Fail
  <2>1. /\ pc = "park" /\ pc' = "install" /\ kc' = [kc EXCEPT ![tgt] = env]
        /\ mem' = SetRevoked(mem, tgt, FALSE) /\ UNCHANGED <<live, sess, cmd>>
        /\ tgt \in Registered(mem) /\ Useless(tgt)
    BY <1>1, <1>3 DEF EnsureFreshStore, locals, Bookkeeping, Backed
  <2>2. /\ mem' \in Table /\ Registered(mem') = Registered(mem)
        /\ \A m \in Registered(mem) : mem'.slots[m].uuid = mem.slots[m].uuid
    <3>1. PICK b \in BOOLEAN : b = FALSE
      OBVIOUS
    <3>2. mem' = SetRevoked(mem, tgt, b) /\ NoAccount \in Owner /\ tgt \in Registered(mem)
      BY <2>1, <3>1 DEF Owner
    <3>3. QED
      BY <1>1, <3>2, FieldsKeepAccounts
  <2>3. \A n \in SlotIds : kc'[n] = kc[n] \/ Useless(n)
    BY <1>1, <2>1
  <2>4. cmd' \in Synced => LiveBacked'
    BY <1>1, <2>1, <2>2, <2>3, LiveStaysBacked DEF Running
  <2>5. QED
    BY <2>1, <2>4, BackedNext
<1>4. CASE (Install \/ Point) /\ ~Fail
  <2>1. pc' \in {"point", "save"} /\ env' = NoCred
    BY <1>1, <1>4 DEF Install, Point, locals, Backed
  <2>2. QED
    BY <2>1, BackedNext DEF Running
<1>5. QED
  BY <1>2, <1>3, <1>4

LEMMA PlanBacked ==
  ASSUME Guarded, Level', Onward, PlanRefresh \/ PlanAuto \/ PlanClean \/ CallsDone \/ Ask
                                  \/ Label \/ RemoveSlot \/ \E n \in SlotIds : Sweep(n)
  PROVE  Backed'
<1>1. Backed /\ mem \in Table
  BY GuardedFacts DEF TypeOK
<1>2. CASE Fail
  BY <1>2, EndBacked DEF Fail, Exit
<1>3. ASSUME NEW due, NEW dead, Calls(due, dead), pc = "act"
      PROVE  Backed'
  <2>1. /\ kc' = kc /\ live' = live /\ sess' = sess /\ cmd' = cmd /\ mem' = mem /\ env' = env /\ pc' = "calls"
        /\ \A n \in SlotIds : got'[n].kind \notin {"ok", "recovered"}
    BY <1>3 DEF Calls, stores, Rejected, Nothing
  <2>2. env = NoCred
    BY <1>1, <1>3 DEF Backed
  <2>3. \A n \in SlotIds : Replaces(n)'
    BY <2>1 DEF Replaces
  <2>4. QED
    BY <1>1, <1>3, <2>1, <2>2, <2>3, QuietBacked DEF Running
<1>4. CASE (PlanRefresh \/ PlanAuto \/ PlanClean) /\ ~Fail
  BY <1>3, <1>4 DEF PlanRefresh, PlanAuto, PlanClean
<1>5. CASE (CallsDone \/ Ask \/ Label \/ RemoveSlot \/ \E n \in SlotIds : Sweep(n)) /\ ~Fail
  <2>1. pc' \in {"ask", "save", "sweep"} /\ pc \notin {"rotate", "park", "install", "mirror"} /\ env' = env
    BY <1>5 DEF CallsDone, Ask, Label, RemoveSlot, Sweep, locals
  <2>2. env' = NoCred
    BY <1>1, <2>1 DEF Backed
  <2>3. QED
    BY <2>1, <2>2, BackedNext DEF Running
<1>6. QED
  BY <1>2, <1>4, <1>5

\* A call that brings something back has spent what the slot holds, or was told that it
\* does not work.
LEMMA CallBacked ==
  ASSUME Guarded, Level', Onward, NEW n \in SlotIds, Call(n)
  PROVE  Backed'
<1>1. /\ TypeOK /\ Sound /\ Bookkeeping /\ Backed /\ Tracked /\ Chained /\ mem \in Table
      /\ \A m \in SlotIds : Replaces(m)
  BY GuardedFacts, TrackedFacts DEF TypeOK
<1>2. /\ pc = "calls" /\ pc' = "calls" /\ n \in todo /\ todo' = todo \ {n}
      /\ UNCHANGED <<kc, live, sess, mem, cmd, env>> /\ kc[n] \in Cred
  BY <1>1 DEF Call, Bookkeeping, stores
<1>3. PICK out \in Outcome :
        /\ got' = [got EXCEPT ![n] = out]
        /\ \/ out = Nothing /\ UNCHANGED server
           \/ Refresh(kc[n], out)
           \/ RefreshOrRecover(n, kc[n], out)
  BY DEF Call
<1>4. ASSUME out.kind \in {"ok", "recovered"}
      PROVE  Useless(n)'
  <2>1. Rotate(kc[n]) \/ (UNCHANGED server /\ ~Good(kc[n]))
    BY <1>3, <1>4 DEF RefreshOrRecover, Refresh, Ok, Rejected, Failed, Nothing
  <2>2. Rotate(kc[n]) => kc[n].gen \notin unspent'[kc[n].acct]
    BY <1>1, <1>2, RotateChain
  <2>3. kc[n].gen \notin unspent'[kc[n].acct]
    BY <2>1, <2>2 DEF Good, server
  <2>4. QED
    BY <1>2, <2>3 DEF Useless, Works, Good
<1>5. got'[n] = out /\ \A m \in SlotIds \ {n} : got'[m] = got[m]
  BY <1>1, <1>3 DEF TypeOK
<1>6. \A m \in SlotIds : Useless(m) => Useless(m)'
  BY <1>1, <1>2, UselessStays
<1>7. \A m \in SlotIds : Replaces(m)'
  BY <1>1, <1>2, <1>4, <1>5, <1>6 DEF Replaces
<1>8. env' = NoCred
  BY <1>1, <1>2 DEF Backed
<1>9. QED
  BY <1>1, <1>2, <1>7, <1>8, QuietBacked DEF Running

LEMMA ApplyBacked ==
  ASSUME Guarded, Level', Onward, NEW n \in SlotIds,
         ApplyRenewed(n) \/ ApplyFailed(n) \/ ApplyRejected(n)
  PROVE  Backed'
<1>1. /\ TypeOK /\ Sound /\ IInv /\ Bookkeeping /\ Backed /\ Tracked /\ Named(mem) /\ mem \in Table
      /\ \A m \in SlotIds : Replaces(m)
      /\ (pc \in Running /\ cmd \in Synced => LiveBacked) /\ kc \in [SlotIds -> Creds]
      /\ "store" \notin Faults
  BY GuardedFacts, TrackedFacts DEF TypeOK, Tracked
<1>2. /\ Apply(n) /\ pc = "calls" /\ UNCHANGED <<live, sess, cmd, server, todo>> /\ n \in Registered(mem)
      /\ got[n].kind # "none"
  BY <1>1 DEF ApplyRenewed, ApplyFailed, ApplyRejected, Apply, Bookkeeping
<1>3. got'[n] = Nothing /\ \A m \in SlotIds \ {n} : got'[m] = got[m]
  BY <1>1, <1>2, ApplyTypes
<1>4. \A m \in SlotIds : kc'[m] = kc[m] \/ (m = n /\ Useless(n))
  BY <1>1, <1>2 DEF ApplyRenewed, ApplyFailed, ApplyRejected, Replaces
<1>5. \A m \in SlotIds : Replaces(m)'
  BY <1>1, <1>2, <1>3, <1>4, UselessStays DEF Replaces, Nothing
<1>6. \/ pc' = "mirror"
      \/ pc' = "calls" /\ env' = env
  BY <1>2 DEF ApplyRenewed, ApplyFailed, ApplyRejected
<1>7. /\ mem' \in Table /\ Registered(mem') = Registered(mem)
      /\ \A m \in Registered(mem) : mem'.slots[m].uuid = mem.slots[m].uuid
  <2>1. PICK t, b : /\ b \in BOOLEAN /\ mem' \in {t, SetRevoked(t, n, b)}
                    /\ t = mem \/ (got[n].kind = "ok" /\ t \in Renamed(n, got[n].cred))
    BY DEF ApplyRenewed, ApplyFailed, ApplyRejected
  <2>2. /\ t \in Table /\ Registered(t) = Registered(mem)
        /\ \A m \in Registered(mem) : t.slots[m].uuid = mem.slots[m].uuid
    <3>1. CASE t = mem
      BY <1>1, <3>1
    <3>2. CASE got[n].kind = "ok" /\ t \in Renamed(n, got[n].cred)
      <4>1. got[n].cred \in Cred /\ got[n].cred.acct = mem.slots[n].uuid
        BY <1>1, <1>2, <3>2, SlotAccounts
      <4>2. QED
        BY <1>1, <1>2, <3>2, <4>1, RenamedNamed
    <3>3. QED
      BY <2>1, <3>1, <3>2
  <2>3. CASE mem' = t
    BY <2>2, <2>3
  <2>4. CASE mem' = SetRevoked(t, n, b)
    <3>1. NoAccount \in Owner /\ n \in Registered(t) /\ b \in BOOLEAN
      BY <1>2, <2>1, <2>2 DEF Owner
    <3>2. /\ mem' \in Table /\ Registered(mem') = Registered(t)
          /\ \A m \in Registered(t) : mem'.slots[m].uuid = t.slots[m].uuid
      BY <2>2, <2>4, <3>1, FieldsKeepAccounts
    <3>3. QED
      BY <2>2, <3>2
  <2>5. QED
    BY <2>1, <2>3, <2>4
<1>8. cmd' \in Synced => LiveBacked'
  BY <1>1, <1>2, <1>4, <1>7, LiveStaysBacked DEF Running
<1>9. pc' \notin {"rotate", "park", "install", "mirror"} => env' = NoCred
  BY <1>1, <1>2, <1>6 DEF Backed
<1>10. QED
  BY <1>5, <1>6, <1>8, <1>9, BackedNext

LEMMA MirrorBacked ==
  ASSUME Guarded, Level', Onward, Mirror
  PROVE  Backed'
<1>1. /\ TypeOK /\ Sound /\ InHand /\ "live" \notin Faults /\ \A m \in SlotIds : Replaces(m)
      /\ pc = "mirror" /\ pc' = "calls" /\ env' = NoCred
      /\ UNCHANGED <<kc, sess, got, todo, mem, cmd>>
  BY GuardedFacts, TrackedFacts DEF Mirror
<1>2. PICK n \in SlotIds : n = mem.active /\ live' = kc[n]
  BY <1>1 DEF InHand, Mirror, Registered
<1>3. LiveBacked'
  BY <1>1, <1>2 DEF LiveBacked, Kept
<1>4. \A m \in SlotIds : Replaces(m)'
  BY <1>1, UselessStays DEF Replaces
<1>5. QED
  BY <1>1, <1>3, <1>4, BackedNext

\* The sessions: one that renews its copy spends no credential that is needed as a copy of
\* the live one, for that one no longer works then; one that stores it holds it still.
LEMMA OutsideBacked ==
  ASSUME Guarded, Level', Onward, ClaudeCode
  PROVE  Backed'
<1>1. /\ TypeOK /\ Sound /\ Bookkeeping /\ Tracked /\ Chained /\ Backed
      /\ \A m \in SlotIds : Replaces(m)
      /\ (pc \in Running /\ cmd \in Synced => LiveBacked)
  BY GuardedFacts, TrackedFacts
<1>2. UNCHANGED <<pc, mem, locals, disk, misled, kc>>
  BY OutsideErrand
<1>3. pc' = pc /\ mem' = mem /\ kc' = kc /\ env' = env /\ got' = got /\ todo' = todo /\ tgt' = tgt
      /\ seen' = seen /\ cmd' = cmd
  BY <1>2 DEF locals
<1>4. \A m \in SlotIds : Useless(m) => Useless(m)'
  BY <1>1, <1>3, UselessStays
<1>5. \A m \in SlotIds : Replaces(m)'
  BY <1>1, <1>3, <1>4 DEF Replaces
<1>6. ASSUME pc \in Running /\ cmd \in Synced => LiveBacked',
             pc = "confirm" /\ live' # seen /\ Works(live)' => Kept(live)'
      PROVE  Backed'
  <2>1. pc = "park" => Useless(tgt)'
    <3>1. pc = "park" => tgt \in SlotIds /\ Useless(tgt)
      BY <1>1, RegisteredIsSlot DEF Bookkeeping, Backed, TypeOK
    <3>2. QED
      BY <1>3, <1>4, <3>1 DEF Useless, Works, Good
  <2>2. QED
    BY <1>1, <1>3, <1>5, <1>6, <2>1 DEF Backed, Running, LiveBacked, Replaces
<1>7. ASSUME live' = live,
             \A s \in Sessions : \/ sess'[s].cred = sess[s].cred
                                 \/ sess[s].cred = NoCred
                                 \/ sess[s].cred.gen \notin unspent'[sess[s].cred.acct]
      PROVE  Backed'
  <2>1. Works(live)' /\ Kept(live) => Kept(live)'
    BY <1>1, <1>3, <1>7, LiveStaysKept
  <2>2. Works(live)' => Works(live)
    BY <1>1, <1>7, LiveWorked
  <2>3. LiveBacked => LiveBacked'
    BY <1>3, <1>7, <2>1, <2>2 DEF LiveBacked
  <2>4. pc = "confirm" /\ live' # seen /\ Works(live)' => Kept(live)'
    BY <1>1, <1>7, <2>1, <2>2 DEF Backed
  <2>5. QED
    BY <1>1, <1>6, <2>3, <2>4
<1>8. ASSUME NEW s \in Sessions, Open(s)
      PROVE  Backed'
  BY <1>1, <1>7, <1>8 DEF Open, TypeOK, stores
<1>9. ASSUME NEW s \in Sessions, Renew(s)
      PROVE  Backed'
  <2>1. PICK c \in Cred : c = sess[s].cred /\ Rotate(c)
    BY <1>1, <1>9 DEF Renew, TypeOK, Creds
  <2>2. c.gen \notin unspent'[c.acct]
    BY <1>1, <2>1, RotateChain
  <2>3. live' = live /\ \A r \in Sessions \ {s} : sess'[r] = sess[r]
    BY <1>1, <1>9 DEF Renew, TypeOK, stores
  <2>4. QED
    BY <1>7, <2>1, <2>2, <2>3
<1>10. ASSUME NEW s \in Sessions, WriteBack(s)
       PROVE  Backed'
  <2>1. live' = sess[s].cred /\ sess'[s].cred = sess[s].cred
    BY <1>1, <1>10 DEF WriteBack, TypeOK
  <2>2. Kept(live)'
    BY <2>1 DEF Kept
  <2>3. QED
    BY <1>6, <2>2 DEF LiveBacked
<1>11. ASSUME NEW a \in Accounts, TimePasses(a)
       PROVE  Backed'
  BY <1>7, <1>11 DEF TimePasses, stores
<1>12. ASSUME \/ \E s \in Sessions : End(s)
              \/ \E a \in Accounts : SignIn(a)
       PROVE  FALSE
  BY <1>12 DEF End, SignIn, Guarded, Careful, OneChain
<1>13. QED
  BY <1>8, <1>9, <1>10, <1>11, <1>12 DEF ClaudeCode

\* Every step keeps what works from being overwritten.
LEMMA NextKeepsBacked ==
  ASSUME Guarded, Next, ~misled', Level'
  PROVE  Backed'
<1>1. Tracked /\ Onward
  BY GuardedFacts, NextHolds DEF Tracked
<1>2. pc \notin {"register", "loginSave", "adoptRotate", "adoptWrite", "adoptStore"} /\ cmd \notin {"login", "adopt"}
  BY GuardedFacts
<1>3. ASSUME Login \/ Register \/ LoginSave \/ Adopt \/ AdoptRotate \/ AdoptWrite \/ AdoptStore
      PROVE  FALSE
  BY <1>2, <1>3 DEF Login, Register, LoginSave, Adopt, AdoptRotate, AdoptWrite, AdoptStore
<1>4. CASE Crash \/ Save
  BY <1>4, EndBacked DEF Crash, Save, Exit
<1>5. CASE \E c \in Commands, n \in SlotIds \union {0} : Begin(c, n)
  BY <1>5, EndBacked
<1>6. CASE Step
  BY <1>1, <1>3, <1>4, <1>6, EndBacked, SyncReadBacked, SyncConfirmBacked, ChoosingBacked,
     ActivateBacked, PlanBacked, CallBacked, ApplyBacked, MirrorBacked DEF Step
<1>7. CASE ClaudeCode
  BY <1>1, <1>7, OutsideBacked
<1>8. QED
  BY <1>4, <1>5, <1>6, <1>7 DEF Next

-----------------------------------------------------------------------------
(***************************************************************************)
(* The three together: Traced is inductive.                                *)
(***************************************************************************)

LEMMA InitOrdered ==
  ASSUME Init
  PROVE  Ordered
<1>1. PICK a \in Owner :
       LET known(b) == b = a \/ \E n \in SlotIds : Start[n] = b IN
       /\ live = FirstCred(a)
       /\ issued = [b \in Accounts |-> IF known(b) THEN 1 ELSE 0]
       /\ unspent = [b \in Accounts |-> IF known(b) THEN {1} ELSE {}]
  BY DEF Init
<1>2. \A b \in Accounts : unspent[b] \subseteq {issued[b]}
  BY <1>1
<1>3. pc = "idle" /\ mem = EmptyTable /\ \A n \in SlotIds : got[n].kind = "none"
  BY DEF Init, NoCalls, Nothing
<1>4. \A s \in Sessions : ~sess[s].dirty
  BY DEF Init
<1>5. Chained /\ InHand /\ Brought
  BY <1>2, <1>3, <1>4 DEF Chained, InHand, Brought
<1>6. ASSUME NEW b, NEW d
      PROVE  UpTo(FirstCred(b), FirstCred(d))
  BY DEF UpTo, FirstCred, NoCred
<1>7. \A n \in SlotIds : UpTo(kc[n], live)
  <2>1. \A n \in SlotIds : kc[n] = FirstCred(Start[n])
    BY DEF Init
  <2>2. live = FirstCred(a)
    BY <1>1
  <2>3. QED
    BY <1>6, <2>1, <2>2
<1>8. Registered(disk) \union Registered(mem) \subseteq SlotIds
  BY DEF Registered
<1>9. Ahead
  BY <1>3, <1>7, <1>8 DEF Ahead
<1>10. QED
  BY <1>5, <1>9 DEF Ordered

LEMMA InitTraced ==
  ASSUME Init
  PROVE  Traced
<1>1. pc = "idle" /\ cmd = "none" /\ env = NoCred /\ \A n \in SlotIds : got[n].kind = "none"
  BY DEF Init, NoCalls, Nothing
<1>2. Errand /\ Backed
  BY <1>1 DEF Errand, Backed
<1>3. QED
  BY <1>2, InitOrdered, InitJudging DEF Traced

LEMMA StutterKeepsTraced ==
  ASSUME Traced, UNCHANGED vars
  PROVE  Traced'
<1>1. /\ UNCHANGED <<issued, unspent, kc, live, disk, sess, pc, cmd, mem, tgt, env, seen, todo, got, misled, until>>
  BY DEF vars, server, stores, locals
<1>2. Errand => Errand'
  BY <1>1 DEF Errand
<1>3. Judging => Judging'
  BY <1>1 DEF Judging, Marked, Registered, Condemned, Dated, Useless, Works, Good
<1>4. Ordered => Ordered'
  BY <1>1 DEF Ordered, Chained, Newest, Copies, InHand, Registered, UpTo, Before, Ahead, Brought
<1>5. Backed => Backed'
  BY <1>1 DEF Backed, Works, Good, Kept, Useless, FindByAccountUUID, Registered
<1>6. QED
  BY <1>1, <1>2, <1>3, <1>4, <1>5 DEF Traced

LEMMA NextKeepsTraced ==
  ASSUME IInv, Steady, Traced, [Next]_vars
  PROVE  Traced'
<1>1. SUFFICES ASSUME Next
               PROVE  Traced'
  BY StutterKeepsTraced
<1>2. Errand /\ Errand' /\ Sound
  BY NextKeepsErrand DEF Traced, Steady
<1>3. Lasting => Judging'
  BY <1>1, <1>2, NextKeepsJudging DEF Traced
<1>4. ASSUME OneChain, ~misled'
      PROVE  Tracked /\ Chained' /\ Level'
  <2>1. ~misled
    BY <1>1, <1>4, MisledStays
  <2>2. Tracked
    BY <1>2, <1>4, <2>1 DEF Traced, Ordered, Tracked, Level
  <2>3. Chained'
    BY <1>1, <1>2, <1>4, <2>2, NextKeepsChained DEF Tracked
  <2>4. QED
    BY <1>1, <1>4, <2>2, <2>3, NextKeepsLevel
<1>5. OneChain /\ ~misled' => Ordered'
  BY <1>4 DEF Ordered, Level
<1>6. ASSUME Careful, ~misled'
      PROVE  Backed'
  <2>1. Tracked /\ Level'
    BY <1>4, <1>6 DEF Careful
  <2>2. Guarded
    BY <1>6, <2>1 DEF Traced, Guarded, Tracked
  <2>3. QED
    BY <1>1, <1>6, <2>1, <2>2, NextKeepsBacked
<1>7. QED
  BY <1>2, <1>3, <1>5, <1>6 DEF Traced

\* Where the newest credential of an account is, and what is known of the slots that are
\* called revoked, whatever commands, sessions, failures and the service do.
THEOREM TracedHolds == Spec => [](IInv /\ Steady /\ Traced)
<1>1. Init => Traced
  BY InitTraced
<1>2. IInv /\ Steady /\ Traced /\ [Next]_vars => Traced'
  BY NextKeepsTraced
<1>3. QED
  BY <1>1, <1>2, SteadyHolds, PTL DEF Spec

\* Where a command saves what its pass has found (the commands that renew credentials in
\* place, and adopt; each names slots that exist), a slot that state.json calls revoked
\* holds nothing that works, or a credential that does not bear its own deadline: whoever
\* files a credential under it clears the flag, and saves the flag with it (Refresh,
\* AutoRefresh, adoptLiveInto, CmdAdopt).
THEOREM RevokedStaysDead ==
  ASSUME Lasting
  PROVE  Spec => []RevokedIsDead
<1>1. Traced => RevokedIsDead
  BY DEF Traced, Judging, Marked, Condemned, Useless, Works, RevokedIsDead
<1>2. QED
  BY <1>1, TracedHolds, PTL

\* Only SyncConfirm writes a slot's item between the reads of SyncActive and its end.
LEMMA OnlySyncs ==
  ASSUME Next, pc = "confirm", kc' # kc
  PROVE  SyncConfirm
<1>1. CASE ClaudeCode \/ Crash
  BY <1>1 DEF ClaudeCode, Crash, Open, Renew, WriteBack, End, SignIn, TimePasses, stores
<1>2. CASE SyncRead \/ Switch \/ EnsureFresh \/ EnsureFreshCall
             \/ EnsureFreshStore \/ Install \/ Point
  BY <1>2 DEF SyncRead, Switch, EnsureFresh, EnsureFreshCall, EnsureFreshStore, Install, Point
<1>3. CASE PlanRefresh \/ PlanAuto \/ PlanClean \/ CallsDone \/ Mirror \/ Ask
             \/ RemoveSlot \/ Label
  BY <1>3 DEF PlanRefresh, PlanAuto, PlanClean, CallsDone, Mirror, Ask, RemoveSlot, Label
<1>4. CASE Login \/ Register \/ LoginSave \/ Adopt \/ AdoptRotate \/ AdoptWrite \/ AdoptStore
             \/ Save \/ Release
             \/ \E c \in Commands, n \in SlotIds \union {0} : Begin(c, n)
  BY <1>4 DEF Login, Register, LoginSave, Adopt, AdoptRotate, AdoptWrite, AdoptStore, Save,
              Release, Begin
<1>5. ASSUME NEW n \in SlotIds, \/ Call(n) \/ ApplyRenewed(n) \/ ApplyFailed(n)
                                \/ ApplyRejected(n) \/ Sweep(n)
      PROVE  FALSE
  BY <1>5 DEF Call, ApplyRenewed, ApplyFailed, ApplyRejected, Apply, Sweep
<1>6. QED
  BY <1>1, <1>2, <1>3, <1>4, <1>5 DEF Next, Step

\* As long as nobody signs in anew, what SyncActive folds back into a slot is newer than
\* what the slot held of the account, however long ago it had read the live item and
\* whatever the sessions have stored since (SyncActive, adoptLiveInto).
THEOREM FoldsForward ==
  ASSUME OneChain
  PROVE  Spec => FoldsBackNewer
<1>1. ASSUME IInv, Steady, Traced, Next, pc = "confirm", ~misled,
             NEW n \in SlotIds, kc'[n] # kc[n], kc'[n].acct = kc[n].acct
      PROVE  kc'[n].gen > kc[n].gen
  <2>1. SyncConfirm
    BY <1>1, OnlySyncs
  <2>2. Tracked
    BY <1>1 DEF Traced, Ordered, Tracked, Level
  <2>3. n \in Registered(mem) /\ kc'[n] = seen
    BY <1>1, <2>1, <2>2, SyncConfirmWrites, SlotTableAssumption DEF SlotIds
  <2>4. UpTo(kc[n], seen) /\ seen \in Cred /\ kc[n] \in Creds
    BY <1>1, <2>2, <2>3, TrackedFacts DEF Ahead, Bookkeeping, TypeOK
  <2>5. kc[n].gen <= seen.gen /\ kc[n].gen # seen.gen
    BY <1>1, <2>3, <2>4, SameCred DEF UpTo, Creds
  <2>6. kc[n].gen \in Nat /\ seen.gen \in Nat
    BY <2>4 DEF Creds, Cred, Gens, NoCred
  <2>7. QED
    BY <2>3, <2>5, <2>6
<1>2. IInv /\ Steady /\ Traced /\ [Next]_vars =>
        [pc = "confirm" /\ ~misled =>
           \A n \in SlotIds :
             kc'[n] # kc[n] /\ kc'[n].acct = kc[n].acct => kc'[n].gen > kc[n].gen]_vars
  BY <1>1
<1>3. QED
  BY <1>2, TracedHolds, PTL DEF Spec, FoldsBackNewer

-----------------------------------------------------------------------------
(***************************************************************************)
(* No step of a command loses the last credential that works.              *)
(***************************************************************************)

LEMMA HeldWhere ==
  ASSUME NEW w
  PROVE  /\ w \in Held <=> \/ \E n \in SlotIds : kc[n] = w
                           \/ \E s \in Sessions : sess[s].cred = w
                           \/ live = w \/ env = w
                           \/ \E n \in SlotIds : got[n].cred = w
         /\ \/ \E n \in SlotIds : kc'[n] = w
            \/ \E s \in Sessions : sess'[s].cred = w
            \/ live' = w \/ env' = w
            \/ \E n \in SlotIds : got'[n].cred = w
            => w \in Held'
BY DEF Held

\* What a command has in its hands only, and where it has it.
LEMMA InItsHands ==
  ASSUME Guarded, NEW w \in Cred
  PROVE  /\ env = w => pc \in {"rotate", "park", "install", "mirror"}
         /\ \A n \in SlotIds : got[n].cred = w =>
              /\ pc \in {"calls", "mirror"} /\ n \notin todo /\ n \in Registered(mem)
              /\ got[n].kind \in {"ok", "recovered"} /\ Useless(n)
<1>1. /\ Backed /\ Bookkeeping /\ TypeOK /\ Brought /\ w # NoCred /\ \A n \in SlotIds : Replaces(n)
  BY GuardedFacts, TrackedFacts, NoCredIsNoCred
<1>2. ASSUME NEW n \in SlotIds, got[n].cred = w
      PROVE  got[n].kind \in {"ok", "recovered"}
  <2>1. got[n] \in Outcome
    BY <1>1 DEF TypeOK
  <2>2. QED
    BY <1>1, <1>2, <2>1 DEF Outcome, Rejected, Failed, Nothing
<1>3. QED
  BY <1>1, <1>2 DEF Backed, Brought, Replaces, Bookkeeping

\* The stores, the sessions and what works stay, and the command has nothing in hand.
LEMMA EmptyHanded ==
  ASSUME Guarded, NEW w \in Cred, w \in Held, UNCHANGED <<kc, live, sess>>,
         pc \notin {"rotate", "park", "install", "calls", "mirror"}
  PROVE  w \in Held'
BY InItsHands, HeldWhere

\* SyncConfirm overwrites a credential that works only with itself.
LEMMA SyncConfirmLoses ==
  ASSUME Guarded, NEW w \in Cred, w \in Held, Good(w), SyncConfirm, ~misled'
  PROVE  w \in Held'
<1>1. /\ Tracked /\ TypeOK /\ Chained /\ Ahead /\ HeldIn(Issued) /\ seen \in Cred /\ pc = "confirm"
      /\ UNCHANGED <<live, sess, env, got>>
      /\ \A m \in SlotIds : kc'[m] = kc[m] \/ (m = mem'.active /\ kc'[m] = seen)
      /\ mem'.active # 0 => mem.slots[mem'.active].uuid = seen.acct
      /\ mem'.active \in Registered(mem) \union {0}
  BY GuardedFacts, TrackedFacts, SyncConfirmWrites DEF Bookkeeping
<1>2. ASSUME NEW n \in SlotIds, kc[n] = w
      PROVE  kc'[n] = w
  <2>1. SUFFICES ASSUME n = mem'.active, kc'[n] = seen
                 PROVE  seen = w
    BY <1>1, <1>2
  <2>2. n \in Registered(mem) /\ kc[n] # NoCred /\ w.gen \in Nat
    BY <1>1, <1>2, <2>1, NoCredIsNoCred, SlotTableAssumption DEF SlotIds, Cred, Gens
  <2>3. w.acct = seen.acct
    BY <1>1, <1>2, <2>1, <2>2, SlotAccounts, SlotTableAssumption DEF SlotIds
  <2>4. w.gen <= seen.gen
    BY <1>1, <1>2, <2>2, <2>3 DEF Ahead, UpTo
  <2>5. seen.gen <= issued[seen.acct] /\ seen.gen \in Nat
    BY <1>1, NoCredIsNoCred, IssuedCred DEF HeldIn
  <2>6. w.gen = issued[w.acct]
    BY <1>1, GoodIsNewest DEF Newest
  <2>7. QED
    BY <1>1, <2>2, <2>3, <2>4, <2>5, <2>6, SameCred DEF Creds
<1>3. QED
  BY <1>1, <1>2, InItsHands, HeldWhere

\* The live credential is overwritten only when it is kept.
LEMMA ActivateLoses ==
  ASSUME Guarded, NEW w \in Cred, w \in Held, Good(w), FindByAccountUUID(mem, w.acct) # 0,
         Install \/ Mirror
  PROVE  w \in Held'
<1>1. /\ Errand /\ w # NoCred /\ (pc \in Running /\ cmd \in Synced => LiveBacked)
      /\ "live" \notin Faults /\ cmd # "login"
  BY GuardedFacts, TrackedFacts, NoCredIsNoCred
<1>2. pc \in {"install", "mirror"} /\ live' = env /\ UNCHANGED <<kc, sess, got>>
  BY <1>1 DEF Install, Mirror
<1>3. cmd \in Synced
  BY <1>1, <1>2 DEF Errand, Synced
<1>4. CASE live = w
  <2>1. Kept(w)
    BY <1>1, <1>2, <1>3, <1>4 DEF Running, LiveBacked, Works
  <2>2. QED
    BY <1>2, <2>1, HeldWhere DEF Kept
<1>5. CASE live # w
  BY <1>2, <1>5, HeldWhere
<1>6. QED
  BY <1>4, <1>5

\* EnsureFresh and the pass overwrite what does not work.
LEMMA StoringLoses ==
  ASSUME Guarded, NEW w \in Cred, w \in Held, Good(w),
         EnsureFreshStore \/ \E n \in SlotIds : ApplyRenewed(n) \/ ApplyFailed(n) \/ ApplyRejected(n)
  PROVE  w \in Held'
<1>1. /\ IInv /\ TypeOK /\ Backed /\ Bookkeeping /\ w # NoCred /\ Works(w) /\ "store" \notin Faults
      /\ kc \in [SlotIds -> Creds]
  BY GuardedFacts, NoCredIsNoCred DEF Works, TypeOK, Tracked
<1>2. CASE EnsureFreshStore
  <2>1. /\ pc = "park" /\ kc' = [kc EXCEPT ![tgt] = env] /\ UNCHANGED <<live, sess, env, got>>
        /\ Useless(tgt)
    BY <1>1, <1>2 DEF EnsureFreshStore, locals, Backed
  <2>2. \A n \in SlotIds : kc[n] = w => kc'[n] = w
    BY <1>1, <2>1 DEF Useless
  <2>3. QED
    BY <2>1, <2>2, HeldWhere
<1>3. ASSUME NEW n \in SlotIds, ApplyRenewed(n) \/ ApplyFailed(n) \/ ApplyRejected(n)
      PROVE  w \in Held'
  <2>1. Apply(n) /\ UNCHANGED <<live, sess>> /\ pc = "calls"
    BY <1>3 DEF ApplyRenewed, ApplyFailed, ApplyRejected, Apply
  <2>2. got'[n] = Nothing /\ \A m \in SlotIds \ {n} : got'[m] = got[m]
    BY <1>1, <2>1, ApplyTypes
  <2>3. CASE kc' = [kc EXCEPT ![n] = got[n].cred] /\ got[n].kind \in {"ok", "recovered"}
    <3>1. Useless(n)
      BY <2>3 , GuardedFacts DEF Replaces
    <3>2. kc'[n] = got[n].cred /\ \A m \in SlotIds : kc[m] = w => kc'[m] = w
      BY <1>1, <2>3, <3>1 DEF Useless
    <3>3. QED
      BY <2>1, <2>2, <3>2, InItsHands, HeldWhere
  <2>4. CASE kc' = kc /\ got[n].kind \notin {"ok", "recovered"}
    BY <2>1, <2>2, <2>4, InItsHands, HeldWhere
  <2>5. QED
    BY <1>1, <1>3, <2>3, <2>4 DEF ApplyRenewed, ApplyFailed, ApplyRejected
<1>4. QED
  BY <1>2, <1>3

\* clean removes what does not work.
LEMMA SweepLoses ==
  ASSUME Guarded, NEW w \in Cred, w \in Held, Good(w), NEW n \in SlotIds, Sweep(n)
  PROVE  w \in Held'
<1>1. /\ TypeOK /\ Sound /\ w # NoCred /\ kc \in [SlotIds -> Creds] /\ Bookkeeping
      /\ "read" \notin Faults
  BY GuardedFacts, TrackedFacts, NoCredIsNoCred DEF TypeOK
<1>2. /\ pc = "sweep" /\ cmd = "clean" /\ kc' \in {kc, [kc EXCEPT ![n] = NoCred]}
      /\ UNCHANGED <<live, sess, env>> /\ n \in Dead
  BY <1>1, LowestIsMember DEF Sweep, Forget, Bookkeeping, Dead
<1>3. kc[n] = NoCred \/ ~Good(kc[n])
  <2>1. cmd \in Commands
    BY <1>2, TrackedFacts DEF Guarded, Errand
  <2>2. Dated(kc[n]) \/ kc[n] = NoCred
    BY <1>1, <1>2, <2>1 DEF Guarded, Careful, Sound, OwnDates, Dated, Creds
  <2>3. QED
    BY <1>1, <1>2, <2>2 DEF Sound, Judged, Dead
<1>4. \A m \in SlotIds : kc[m] = w => kc'[m] = w
  BY <1>1, <1>2, <1>3
<1>5. QED
  BY <1>2, <1>4, InItsHands, HeldWhere

\* A credential of the account of w that works.
Replaced(w) == \E d \in Held : d.acct = w.acct /\ Good(d)

\* A refresh spends the newest credential c of its account, and its successor works.
LEMMA RotateReplaces ==
  ASSUME TypeOK, Chained, NEW c \in Cred, Rotate(c), NEW w \in Cred, Good(w),
         NextCred(c.acct) \in Held', w # c => w \in Held'
  PROVE  Replaced(w)'
<1>1. PICK x \in Cred : x = NextCred(c.acct)
  BY RotateChain
<1>2. /\ x.acct = c.acct /\ x \in Held' /\ Newest(c) /\ Newest(w)
      /\ c.acct \in Accounts /\ w.acct \in Accounts
      /\ \A a \in Accounts \ {c.acct} : unspent'[a] = unspent[a]
  BY <1>1, RotateChain, GoodIsNewest DEF Cred
<1>3. CASE w.acct = c.acct
  <2>1. x.gen \in unspent'[x.acct]
    BY <1>1, <1>2 DEF Rotate, NextCred, TypeOK, ServerTypeOK
  <2>2. QED
    BY <1>2, <1>3, <2>1 DEF Replaced, Good
<1>4. CASE w.acct # c.acct
  BY <1>2, <1>4 DEF Replaced, Good
<1>5. QED
  BY <1>3, <1>4

\* A refresh that is answered, or a recovery, loses no account's last credential.
LEMMA CallReplaces ==
  ASSUME Guarded, NEW n \in SlotIds \union {0}, NEW c \in Cred, NEW out \in Outcome,
         Refresh(c, out) \/ RefreshOrRecover(n, c, out),
         NEW w \in Cred, Good(w), w \in Held',
         out.kind = "ok" => out.cred \in Held'
  PROVE  Replaced(w)'
<1>1. TypeOK /\ Chained /\ "lost" \notin Outages
  BY GuardedFacts, TrackedFacts DEF Guarded, Careful
<1>2. CASE Rotate(c) /\ out = Ok(NextCred(c.acct))
  BY <1>1, <1>2, RotateReplaces DEF Ok
<1>3. CASE UNCHANGED server
  BY <1>3 DEF Replaced, Good, server
<1>4. Rejected # Failed /\ \A d : Rejected # Ok(d)
  BY DEF Rejected, Failed, Ok
<1>5. QED
  BY <1>1, <1>2, <1>3, <1>4 DEF RefreshOrRecover, Refresh

LEMMA EnsureFreshCallLoses ==
  ASSUME Guarded, NEW w \in Cred, w \in Held, Good(w), EnsureFreshCall
  PROVE  Replaced(w)'
<1>1. /\ InHand /\ Bookkeeping /\ pc = "rotate" /\ env = kc[tgt] /\ env \in Cred
      /\ UNCHANGED <<kc, live, sess>> /\ tgt \in SlotIds
  BY GuardedFacts, TrackedFacts DEF EnsureFreshCall, InHand, Bookkeeping, Registered, stores
<1>2. w \in Held'
  BY <1>1, InItsHands, HeldWhere
<1>3. PICK out \in Outcome :
        RefreshOrRecover(tgt, env, out) /\ (out.kind = "ok" => env' = out.cred)
  BY DEF EnsureFreshCall
<1>4. QED
  BY <1>1, <1>2, <1>3, CallReplaces, HeldWhere

LEMMA CallLoses ==
  ASSUME Guarded, NEW w \in Cred, w \in Held, Good(w), NEW n \in SlotIds, Call(n)
  PROVE  Replaced(w)'
<1>1. /\ Bookkeeping /\ TypeOK /\ pc = "calls" /\ n \in todo /\ kc[n] \in Cred
      /\ UNCHANGED <<kc, live, sess, env>>
  BY GuardedFacts DEF Call, Bookkeeping, stores
<1>2. PICK out \in Outcome :
        /\ got' = [got EXCEPT ![n] = out]
        /\ \/ out = Nothing /\ UNCHANGED server
           \/ Refresh(kc[n], out) \/ RefreshOrRecover(n, kc[n], out)
  BY DEF Call
<1>3. got'[n] = out /\ \A m \in SlotIds \ {n} : got'[m] = got[m]
  BY <1>1, <1>2 DEF TypeOK
<1>4. w \in Held'
  BY <1>1, <1>3, InItsHands, HeldWhere
<1>5. CASE UNCHANGED server
  BY <1>4, <1>5 DEF Replaced, Good, server
<1>6. CASE Refresh(kc[n], out) \/ RefreshOrRecover(n, kc[n], out)
  BY <1>1, <1>3, <1>4, <1>6, CallReplaces, HeldWhere
<1>7. QED
  BY <1>2, <1>5, <1>6

\* The other steps leave alone what anything holds.
LEMMA LeavingLoses ==
  ASSUME Guarded, NEW w \in Cred, w \in Held, Good(w), cmd # "remove",
         \/ SyncRead \/ Switch \/ EnsureFresh \/ Point \/ PlanRefresh \/ PlanAuto \/ PlanClean
         \/ CallsDone \/ Ask \/ RemoveSlot \/ Label \/ Save \/ Release
  PROVE  w \in Held'
<1>1. CASE CallsDone
  BY <1>1, HeldWhere DEF CallsDone, stores, locals
<1>2. CASE ~CallsDone
  <2>1. /\ pc \notin {"rotate", "park", "install", "calls", "mirror"}
        /\ UNCHANGED <<kc, live, sess>>
    BY <1>2 DEF SyncRead, Switch, EnsureFresh, Point, PlanRefresh, PlanAuto, PlanClean, Ask,
                RemoveSlot, Label, Save, Release, Calls, Fail, stores
  <2>2. QED
    BY <2>1, EmptyHanded
<1>3. QED
  BY <1>1, <1>2

LEMMA StepReplaces ==
  ASSUME Guarded, Step, ~misled', cmd # "remove", NEW w \in Cred, w \in Held, Good(w),
         FindByAccountUUID(mem, w.acct) # 0
  PROVE  Replaced(w)'
<1>1. CASE EnsureFreshCall \/ \E n \in SlotIds : Call(n)
  BY <1>1, EnsureFreshCallLoses, CallLoses
<1>2. CASE ~(EnsureFreshCall \/ \E n \in SlotIds : Call(n))
  <2>1. pc \notin {"register", "loginSave", "adoptRotate", "adoptWrite", "adoptStore"} /\ cmd \notin {"login", "adopt"}
    BY GuardedFacts
  <2>2. ~(Login \/ Register \/ LoginSave \/ Adopt \/ AdoptRotate \/ AdoptWrite \/ AdoptStore)
    BY <2>1 DEF Login, Register, LoginSave, Adopt, AdoptRotate, AdoptWrite, AdoptStore
  <2>3. w \in Held'
    BY <1>2, <2>2, SyncConfirmLoses, ActivateLoses, StoringLoses, SweepLoses, LeavingLoses DEF Step
  <2>4. UNCHANGED server
    BY <1>2, <2>2 DEF Step, SyncRead, SyncConfirm, Switch, EnsureFresh, EnsureFreshStore, Install,
       Point, PlanRefresh, PlanAuto, PlanClean, Calls, CallsDone, Mirror, ApplyRenewed, ApplyFailed,
       ApplyRejected, Apply, Ask, Sweep, RemoveSlot, Label, Save, Release, Fail
  <2>5. QED
    BY <2>3, <2>4 DEF Replaced, Good, server
<1>3. QED
  BY <1>1, <1>2

\* When storing and deleting an item does not fail, no answer of the service is lost, no
\* account is signed in to beside its chain, no session ends with what only it had and clean
\* meets no deadline but a credential's own, no step of a command but remove loses the last
\* credential of a registered account that works: the renewed one is in hand before the old
\* one is spent, it is written before it goes live, and what is overwritten is older or held
\* by another (EnsureFresh, Refresh, CmdClean, adoptLiveInto, activate).
THEOREM LosesNone ==
  ASSUME Careful
  PROVE  Spec => LosesNoAccount
<1>1. ASSUME IInv, Steady, Traced, Next, Step, ~misled', cmd # "remove", NEW a \in Accounts,
             FindByAccountUUID(mem, a) # 0, Working(a) # {}
      PROVE  Working(a)' # {}
  <2>1. ~misled
    BY <1>1, MisledStays
  <2>2. Guarded
    BY <1>1, <2>1 DEF Careful, Steady, Traced, Ordered, Tracked, Level, Guarded
  <2>3. PICK w \in Held : w.acct = a /\ Good(w)
    BY <1>1 DEF Working
  <2>4. w \in Cred
    <3>1. w \in Issued
      BY <2>2, <2>3, GuardedFacts DEF Sound
    <3>2. w # NoCred
      BY <1>1, <2>3, IdentityAssumption DEF NoCred
    <3>3. QED
      BY <3>1, <3>2, IssuedCred
  <2>5. Replaced(w)'
    BY <1>1, <2>2, <2>3, <2>4, StepReplaces
  <2>6. QED
    BY <2>3, <2>5 DEF Replaced, Working
<1>2. IInv /\ Steady /\ Traced /\ [Next]_vars =>
        [\A a \in Accounts :
           (/\ Step /\ ~misled' /\ cmd # "remove"
            /\ FindByAccountUUID(mem, a) # 0 /\ Working(a) # {}) =>
             Working(a)' # {}]_vars
  BY <1>1
<1>3. QED
  BY <1>2, TracedHolds, PTL DEF Spec, LosesNoAccount

=============================================================================
