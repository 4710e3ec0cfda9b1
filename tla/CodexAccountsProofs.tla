------------------------- MODULE CodexAccountsProofs -------------------------
(***************************************************************************)
(* Theorems about CodexAccounts, for any accounts, slots, sessions and     *)
(* documents and every choice of commands and of what may go wrong.        *)
(***************************************************************************)
EXTENDS CodexAccounts, WellFoundedInduction, TLAPS

-----------------------------------------------------------------------------
(***************************************************************************)
(* What the operations of CodexTable do to a table.                        *)
(***************************************************************************)

\* The absent document is none of the documents that accounts are issued.
LEMMA NoDocIsNoDoc == NoDoc \notin Doc /\ NoDoc \in Docs /\ Doc \subseteq Docs
BY IdentityAssumption DEF NoDoc, Doc, Docs

\* A search through a set of numbers ends at the lowest of them, or at 0.
LEMMA LowestIsMember ==
  ASSUME NEW S \in SUBSET SlotIds
  PROVE  /\ S # {} => Lowest(S) \in S /\ Lowest(S) # 0
         /\ S = {} => Lowest(S) = 0
         /\ Lowest(S) \in SlotIds \union {0}
<1>1. S \subseteq Nat /\ 0 \notin S
  BY CodexTableAssumption DEF SlotIds
<1>2. ASSUME S # {}
      PROVE  \E n \in S : \A m \in S : n <= m
  <2>1. PICK n \in S : \A m \in S : ~(<<m, n>> \in OpToRel(<, Nat))
    BY <1>1, <1>2, NatLessThanWellFounded, WFMin
  <2>2. \A m \in S : ~(m < n)
    BY <1>1, <2>1 DEF OpToRel
  <2>3. QED
    BY <1>1, <2>2
<1>3. CASE S = {}
  BY <1>3 DEF Lowest
<1>4. CASE S # {}
  BY <1>1, <1>2, <1>4 DEF Lowest
<1>5. QED
  BY <1>3, <1>4

\* What is registered in a table is a slot number with a document.
LEMMA RegisteredIsDoc ==
  ASSUME NEW t \in Table, NEW n \in Registered(t)
  PROVE  n \in SlotIds /\ t.slots[n] \in Doc
BY DEF Registered, Table

\* State.Active returns nil or a registered slot.
LEMMA ActiveIsRegistered ==
  ASSUME NEW t \in Table, Active(t) # 0
  PROVE  Active(t) \in Registered(t) /\ Active(t) = t.active
BY DEF Active

\* State.FindByIdentity returns a slot of the document's account, or nil if there
\* is none.
LEMMA FindFindsOwnSlot ==
  ASSUME NEW t \in Table, NEW d
  PROVE  /\ FindByIdentity(t, d) # 0 =>
              /\ FindByIdentity(t, d) \in Registered(t)
              /\ t.slots[FindByIdentity(t, d)].acct = d.acct
         /\ FindByIdentity(t, d) = 0 =>
              \A n \in Registered(t) : t.slots[n].acct # d.acct
<1> DEFINE S == {n \in Registered(t) : t.slots[n].acct = d.acct}
<1>1. S \in SUBSET SlotIds
  BY DEF Registered
<1>2. FindByIdentity(t, d) = Lowest(S)
  BY DEF FindByIdentity
<1>3. /\ S # {} => Lowest(S) \in S /\ Lowest(S) # 0
      /\ S = {} => Lowest(S) = 0
  BY <1>1, LowestIsMember
<1>4. QED
  BY <1>2, <1>3

\* State.Add takes a number that no slot has.
LEMMA FreeNumberIsFree ==
  ASSUME NEW t \in Table, FreeNumber(t) # 0
  PROVE  FreeNumber(t) \in SlotIds /\ FreeNumber(t) \notin Registered(t)
<1>1. SlotIds \ Registered(t) \in SUBSET SlotIds
  OBVIOUS
<1>2. QED
  BY <1>1, LowestIsMember DEF FreeNumber

\* Slot.Apply changes one slot, and registers it if it was not.
LEMMA ApplyChangesOneSlot ==
  ASSUME NEW t \in Table, NEW n \in SlotIds, NEW d \in Doc
  PROVE  /\ Apply(t, n, d) \in Table
         /\ Apply(t, n, d).active = t.active
         /\ \A m \in SlotIds : Apply(t, n, d).slots[m] = IF m = n THEN d ELSE t.slots[m]
         /\ Registered(Apply(t, n, d)) = Registered(t) \union {n}
<1>1. d # NoSlot
  BY CodexTableAssumption
<1>2. /\ Apply(t, n, d).slots = [t.slots EXCEPT ![n] = d]
      /\ Apply(t, n, d).active = t.active
      /\ Apply(t, n, d) \in Table
  BY DEF Apply, Table
<1>3. \A m \in SlotIds : Apply(t, n, d).slots[m] = IF m = n THEN d ELSE t.slots[m]
  BY <1>2 DEF Table
<1>4. QED
  BY <1>1, <1>2, <1>3 DEF Registered

\* Moving the active marker touches no slot.
LEMMA ActivateKeepsSlots ==
  ASSUME NEW t \in Table, NEW n \in SlotIds \union {0}
  PROVE  /\ Activate(t, n) \in Table
         /\ Activate(t, n).active = n
         /\ Activate(t, n).slots = t.slots
         /\ Registered(Activate(t, n)) = Registered(t)
BY DEF Activate, Table, Registered

\* State.Remove drops the slot, keeps the others, and leaves no marker behind.
LEMMA RemoveDropsOneSlot ==
  ASSUME NEW t \in Table, NEW n \in SlotIds
  PROVE  /\ Remove(t, n) \in Table
         /\ Registered(Remove(t, n)) = Registered(t) \ {n}
         /\ \A m \in SlotIds \ {n} : Remove(t, n).slots[m] = t.slots[m]
         /\ Remove(t, n).active # n
BY CodexTableAssumption DEF Remove, Table, Registered, SlotIds

\* The empty table is one.
LEMMA EmptyIsTable == EmptyTable \in Table /\ Registered(EmptyTable) = {}
BY DEF EmptyTable, Table, Registered

-----------------------------------------------------------------------------
(***************************************************************************)
(* The token service, auth.json and the app-server.                        *)
(***************************************************************************)

\* The parts of the type invariant by which the steps of cas are told apart.
LEMMA Types ==
  ASSUME Filing
  PROVE  /\ ServerTypeOK /\ mem \in Table /\ disk \in Table
         /\ parked \in [SlotIds -> Docs] /\ auth \in [Homes -> Docs]
         /\ doc \in Docs /\ prev \in Docs /\ tgt \in SlotIds \union {0}
         /\ todo \subseteq SlotIds /\ dead \subseteq SlotIds
         /\ pc \notin {"verify", "call"} => proc = NoProc
         /\ pc \notin {"call", "mirror"} => auth["temp"] = NoDoc
         /\ answer # NoAnswer => proc = NoProc
BY DEF Filing, TypeOK, ServerTypeOK

\* A consented sign-in gives a document of the account, within the bound.
LEMMA SignInTypes ==
  ASSUME ServerTypeOK, NEW a \in Accounts, SignInAs(a)
  PROVE  /\ NextDoc(a) \in Doc /\ NextDoc(a).acct = a
         /\ issued' \in [Accounts -> Gens \union {0}]
         /\ unspent' \in [Accounts -> SUBSET Gens]
<1>1. NextDoc(a).gen \in Gens
  BY CodexTableAssumption DEF ServerTypeOK, SignInAs, NextDoc, Gens
<1>2. NextDoc(a) \in Doc /\ NextDoc(a).acct = a
  BY <1>1 DEF NextDoc, Doc
<1>3. issued' \in [Accounts -> Gens \union {0}] /\ unspent' \in [Accounts -> SUBSET Gens]
  BY <1>1 DEF ServerTypeOK, SignInAs
<1>4. QED
  BY <1>2, <1>3

\* So does a renewal, whoever asks for it.
LEMMA RotateTypes ==
  ASSUME ServerTypeOK, NEW d \in Docs, Rotate(d)
  PROVE  /\ d \in Doc /\ d.acct \in Accounts
         /\ NextDoc(d.acct) \in Doc /\ NextDoc(d.acct).acct = d.acct
         /\ issued' \in [Accounts -> Gens \union {0}]
         /\ unspent' \in [Accounts -> SUBSET Gens]
<1>1. d \in Doc /\ d.acct \in Accounts
  BY DEF Rotate, Renewable, Working, Docs, Doc
<1>2. issued[d.acct] + 1 \in Gens
  BY <1>1, CodexTableAssumption DEF ServerTypeOK, Rotate, Renewable, Gens
<1>3. NextDoc(d.acct) \in Doc /\ NextDoc(d.acct).acct = d.acct
  BY <1>1, <1>2 DEF Rotate, Renewable, NextDoc, Doc
<1>4. issued' \in [Accounts -> Gens \union {0}] /\ unspent' \in [Accounts -> SUBSET Gens]
  BY <1>1, <1>2 DEF ServerTypeOK, Rotate
<1>5. QED
  BY <1>1, <1>3, <1>4

\* What reading auth.json or a slot gives is nothing, or what is there.
LEMMA ReadsIsDoc ==
  ASSUME NEW d \in Docs, NEW r \in Reads(d)
  PROVE  r \in Docs /\ (r # NoDoc => r = d /\ r \in Doc)
BY NoDocIsNoDoc DEF Reads, Docs

-----------------------------------------------------------------------------
(***************************************************************************)
(* The end of a command, and the table on disk.                            *)
(***************************************************************************)

\* A command that ends leaves what is parked and on disk as it was.
LEMMA ExitKeeps ==
  ASSUME Filing, Exit, UNCHANGED <<service, sess, weather, parked, disk>>, proc' = NoProc,
         auth' \in [Homes -> Docs], auth'["temp"] = NoDoc, putBack' \in BOOLEAN
  PROVE  Filing'
<1>1. TypeOK'
  <2>1. answer' \in Answers
    BY DEF Exit, NoAnswer, Answers
  <2>2. ServerTypeOK'
    BY <2>1 DEF Filing, TypeOK, ServerTypeOK, service
  <2>3. QED
    BY <2>2, EmptyIsTable, NoDocIsNoDoc DEF Filing, TypeOK, Exit
<1>2. SlotsHoldTheirAccount' /\ OneSlotPerAccount'
  BY DEF Filing, SlotsHoldTheirAccount, OneSlotPerAccount, OnePerAccount, Registered
<1>3. Memory' /\ Targets'
  BY EmptyIsTable DEF Exit, Memory, Targets, OnePerAccount
<1>4. QED
  BY <1>1, <1>2, <1>3 DEF Filing

\* A command that has no app-server, and no temporary home, may end at any point.
LEMMA QuitKeeps ==
  ASSUME Filing, Quit, pc \notin {"verify", "call", "mirror"}
  PROVE  Filing'
BY ExitKeeps, Types DEF Quit, outer, Filing, TypeOK

\* cas may die at any point.
LEMMA CrashKeeps ==
  ASSUME Filing, Crash
  PROVE  Filing'
<1>1. auth' \in [Homes -> Docs] /\ auth'["temp"] = NoDoc
  BY Types, NoDocIsNoDoc DEF Crash, Homes
<1>2. QED
  BY <1>1, ExitKeeps DEF Crash, outer, Filing, TypeOK

\* The table in memory may go to disk at any point.
LEMMA SaveAndKeeps ==
  ASSUME Filing, NEW then \in {"act", "codexLogin"}, SaveAnd(then), pc \in {"syncSave", "loginSave"}
  PROVE  Filing'
<1>1. CASE Quit
  BY <1>1, QuitKeeps
<1>2. CASE /\ disk' = mem /\ pc' = then
           /\ UNCHANGED <<serverVars, outer, parked, cmd, locals>>
  <2>1. TypeOK'
    BY <1>2 DEF Filing, TypeOK, ServerTypeOK, serverVars, service, outer, locals
  <2>2. SlotsHoldTheirAccount' /\ OneSlotPerAccount'
    BY <1>2 DEF Filing, Memory, SlotsHoldTheirAccount, OneSlotPerAccount, OnePerAccount, Registered
  <2>3. Memory'
    BY <1>2 DEF Filing, Memory, OnePerAccount, Registered, locals
  <2>4. Targets'
    BY <1>2 DEF Filing, Targets, Registered, locals
  <2>5. QED
    BY <2>1, <2>2, <2>3, <2>4 DEF Filing
<1>3. QED
  BY <1>1, <1>2 DEF SaveAnd

\* The last save.
LEMMA SaveKeeps ==
  ASSUME Filing, Save
  PROVE  Filing'
<1>1. CASE UNCHANGED disk
  BY <1>1, ExitKeeps, Types DEF Save, outer, Filing, TypeOK
<1>2. CASE disk' = mem
  <2>1. /\ pc = "save" /\ Exit /\ UNCHANGED <<service, auth, proc, outer, parked>>
        /\ proc = NoProc /\ auth["temp"] = NoDoc
    BY Types DEF Save
  <2>2. TypeOK'
    <3>1. answer' \in Answers
      BY <2>1 DEF Exit, NoAnswer, Answers
    <3>2. ServerTypeOK'
      BY <2>1, <3>1 DEF Filing, TypeOK, ServerTypeOK, service, outer
    <3>3. QED
      BY <1>2, <2>1, <3>2, EmptyIsTable, NoDocIsNoDoc DEF Filing, TypeOK, Exit, outer
  <2>3. SlotsHoldTheirAccount' /\ OneSlotPerAccount'
    BY <1>2, <2>1 DEF Filing, Memory, SlotsHoldTheirAccount, OneSlotPerAccount, OnePerAccount,
                      Registered
  <2>4. Memory' /\ Targets'
    BY <2>1, EmptyIsTable DEF Exit, Memory, Targets, OnePerAccount
  <2>5. QED
    BY <2>2, <2>3, <2>4 DEF Filing
<1>3. QED
  BY <1>1, <1>2 DEF Save

-----------------------------------------------------------------------------
(***************************************************************************)
(* The effects on the slots.                                               *)
(***************************************************************************)

\* Where document d may be written: a slot of its account, or a new one if the
\* account has none.
Fits(n, d) ==
  /\ n \in SlotIds
  /\ \/ n \in Registered(mem) /\ mem.slots[n].acct = d.acct
     \/ /\ n \notin Registered(mem)
        /\ \A m \in Registered(mem) : mem.slots[m].acct # d.acct

\* A write that fits leaves every slot with the credential of its account, in
\* memory and on disk, also if the table is never saved (WriteCredential, Apply).
LEMMA WriteKeeps ==
  ASSUME Filing, NEW n, NEW d \in Doc, Fits(n, d), Written(n, d), UNCHANGED disk,
         pc \notin {"idle", "sweep", "save"},
         mem' \in {Apply(mem, n, d), Activate(Apply(mem, n, d), n)}
  PROVE  /\ parked' \in [SlotIds -> Docs] /\ mem' \in Table
         /\ Registered(mem') = Registered(mem) \union {n}
         /\ mem'.slots[n].acct = d.acct
         /\ \A m \in Registered(mem) : mem'.slots[m].acct = mem.slots[m].acct
         /\ SlotsHoldTheirAccount' /\ OneSlotPerAccount' /\ Memory'
<1>1. /\ mem \in Table /\ disk \in Table /\ parked \in [SlotIds -> Docs] /\ n \in SlotIds
  BY Types DEF Fits
<1>2. /\ mem' \in Table /\ Registered(mem') = Registered(mem) \union {n}
      /\ \A m \in SlotIds : mem'.slots[m] = IF m = n THEN d ELSE mem.slots[m]
  <2>1. /\ Apply(mem, n, d) \in Table
        /\ Registered(Apply(mem, n, d)) = Registered(mem) \union {n}
        /\ \A m \in SlotIds : Apply(mem, n, d).slots[m] = IF m = n THEN d ELSE mem.slots[m]
    BY <1>1, ApplyChangesOneSlot
  <2>2. /\ Activate(Apply(mem, n, d), n) \in Table
        /\ Activate(Apply(mem, n, d), n).slots = Apply(mem, n, d).slots
        /\ Registered(Activate(Apply(mem, n, d), n)) = Registered(Apply(mem, n, d))
    BY <1>1, <2>1, ActivateKeepsSlots
  <2>3. QED
    BY <2>1, <2>2
<1>3. /\ parked' \in [SlotIds -> Docs]
      /\ \A m \in SlotIds : parked'[m] = IF m = n THEN d ELSE parked[m]
  BY <1>1, NoDocIsNoDoc DEF Written
<1>4. Registered(mem) \subseteq SlotIds /\ Registered(disk) \subseteq SlotIds
  BY DEF Registered
<1>5. \A m \in Registered(mem) : mem'.slots[m].acct = mem.slots[m].acct
  BY <1>2, <1>4 DEF Fits
<1>6. \A m \in Registered(disk) : m \in Registered(mem) /\ mem.slots[m].acct = disk.slots[m].acct
  BY DEF Filing, Memory
<1>7. SlotsHoldTheirAccount'
  <2>1. SUFFICES ASSUME NEW m \in Registered(disk), parked'[m] # NoDoc
                 PROVE  parked'[m].acct = disk.slots[m].acct
    BY DEF SlotsHoldTheirAccount, Registered
  <2>2. CASE m = n
    BY <1>3, <1>4, <1>6, <2>2 DEF Fits
  <2>3. CASE m # n
    BY <1>3, <1>4, <2>1, <2>3 DEF Filing, SlotsHoldTheirAccount
  <2>4. QED
    BY <2>2, <2>3
<1>8. OneSlotPerAccount'
  BY DEF Filing, OneSlotPerAccount, OnePerAccount, Registered
<1>9. OnePerAccount(mem')
  <2>1. SUFFICES ASSUME NEW k \in Registered(mem'), NEW m \in Registered(mem'),
                        mem'.slots[k].acct = mem'.slots[m].acct
                 PROVE  k = m
    BY DEF OnePerAccount
  <2>2. \A j \in Registered(mem') : mem'.slots[j].acct = IF j = n THEN d.acct ELSE mem.slots[j].acct
    BY <1>1, <1>2, <1>4
  <2>3. OnePerAccount(mem)
    BY DEF Filing, Memory
  <2>4. QED
    BY <1>2, <2>1, <2>2, <2>3 DEF OnePerAccount, Fits
<1>10. \A m \in Registered(mem') : parked'[m] # NoDoc => parked'[m].acct = mem'.slots[m].acct
  <2>1. SUFFICES ASSUME NEW m \in Registered(mem'), parked'[m] # NoDoc
                 PROVE  parked'[m].acct = mem'.slots[m].acct
    OBVIOUS
  <2>2. CASE m = n
    BY <1>1, <1>2, <1>3, <2>2
  <2>3. CASE m # n
    <3>1. m \in Registered(mem) /\ m \in SlotIds
      BY <1>2, <1>4, <2>3
    <3>2. parked'[m] = parked[m] /\ mem'.slots[m] = mem.slots[m]
      BY <1>2, <1>3, <2>3, <3>1
    <3>3. QED
      BY <2>1, <3>1, <3>2 DEF Filing, Memory
  <2>4. QED
    BY <2>2, <2>3
<1>11. Memory'
  <2>1. \A m \in Registered(disk') : m \in Registered(mem') /\ mem'.slots[m].acct = disk'.slots[m].acct
    BY <1>2, <1>5, <1>6 DEF Registered
  <2>2. QED
    BY <1>9, <1>10, <2>1 DEF Memory
<1>12. QED
  BY <1>1, <1>2, <1>3, <1>5, <1>7, <1>8, <1>11

\* Nothing written, nothing changed but the active marker.
LEMMA MarkerKeeps ==
  ASSUME Filing, UNCHANGED <<parked, disk>>, pc \notin {"idle", "sweep", "save"},
         NEW n \in SlotIds \union {0}, mem' \in {mem, Activate(mem, n)}
  PROVE  /\ mem' \in Table
         /\ Registered(mem') = Registered(mem) /\ mem'.slots = mem.slots
         /\ SlotsHoldTheirAccount' /\ OneSlotPerAccount' /\ Memory'
<1>1. mem' \in Table /\ Registered(mem') = Registered(mem) /\ mem'.slots = mem.slots
  BY ActivateKeepsSlots, Types
<1>2. SlotsHoldTheirAccount' /\ OneSlotPerAccount'
  BY DEF Filing, SlotsHoldTheirAccount, OneSlotPerAccount, OnePerAccount, Registered
<1>3. \A m \in Registered(disk) : m \in Registered(mem) /\ mem.slots[m].acct = disk.slots[m].acct
  BY DEF Filing, Memory
<1>4. Memory'
  <2>1. Registered(disk') = Registered(disk) /\ Registered(mem)' = Registered(mem)
    BY <1>1 DEF Registered
  <2>2. OnePerAccount(mem)'
    BY <1>1, <2>1 DEF Filing, Memory, OnePerAccount
  <2>3. \A m \in Registered(mem)' : parked'[m] # NoDoc => parked'[m].acct = mem'.slots[m].acct
    BY <1>1, <2>1 DEF Filing, Memory
  <2>4. QED
    BY <1>1, <1>3, <2>1, <2>2, <2>3 DEF Memory
<1>5. QED
  BY <1>1, <1>2, <1>4

\* A slot is taken out of the table when its credential is, or is not, deleted.
LEMMA RemovalKeeps ==
  ASSUME Filing, NEW n \in Registered(mem), Deleted(n), mem' = Remove(mem, n), UNCHANGED disk,
         pc # "idle", pc' \in {"sweep", "save"}
  PROVE  /\ parked' \in [SlotIds -> Docs] /\ mem' \in Table
         /\ Registered(mem') = Registered(mem) \ {n}
         /\ SlotsHoldTheirAccount' /\ OneSlotPerAccount' /\ Memory'
<1>1. mem \in Table /\ parked \in [SlotIds -> Docs] /\ n \in SlotIds
  BY Types DEF Registered
<1>2. /\ mem' \in Table /\ Registered(mem') = Registered(mem) \ {n}
      /\ \A m \in SlotIds \ {n} : mem'.slots[m] = mem.slots[m]
  BY <1>1, RemoveDropsOneSlot
<1>3. /\ parked' \in [SlotIds -> Docs]
      /\ \A m \in SlotIds : parked'[m] \in {parked[m], NoDoc}
  BY <1>1, NoDocIsNoDoc DEF Deleted
<1>4. Registered(mem) \subseteq SlotIds /\ Registered(disk) \subseteq SlotIds
  BY DEF Registered
<1>5. SlotsHoldTheirAccount'
  BY <1>3, <1>4 DEF Filing, SlotsHoldTheirAccount, Registered
<1>6. OneSlotPerAccount'
  BY DEF Filing, OneSlotPerAccount, OnePerAccount, Registered
<1>7. OnePerAccount(mem')
  BY <1>2, <1>4 DEF Filing, Memory, OnePerAccount
<1>8. \A m \in Registered(mem') : parked'[m] # NoDoc => parked'[m].acct = mem'.slots[m].acct
  BY <1>2, <1>3, <1>4 DEF Filing, Memory
<1>9. \A m \in Registered(disk') : m \in Registered(mem') => mem'.slots[m].acct = disk'.slots[m].acct
  BY <1>2, <1>4 DEF Filing, Memory, Registered
<1>10. Memory'
  BY <1>7, <1>8, <1>9 DEF Memory
<1>11. QED
  BY <1>2, <1>3, <1>5, <1>6, <1>10

-----------------------------------------------------------------------------
(***************************************************************************)
(* The steps of the commands.                                              *)
(***************************************************************************)

Places ==
  {"idle", "sync", "syncSave", "act", "install", "start", "verify", "loginSave", "codexLogin",
   "loginRegister", "next", "call", "mirror", "ask", "sweep", "save"}

\* A step that leaves auth.json and the app-server alone, while there is none.
LEMMA QuietTypes ==
  ASSUME Filing, UNCHANGED <<serverVars, outer>>, pc \notin {"verify", "call", "mirror"},
         pc' \in Places, cmd' \in CommandNames \union {"none"},
         parked' \in [SlotIds -> Docs], disk' \in Table, mem' \in Table,
         tgt' \in SlotIds \union {0}, doc' \in Docs, prev' \in Docs,
         todo' \subseteq SlotIds, dead' \subseteq SlotIds
  PROVE  TypeOK'
<1>1. ServerTypeOK' /\ proc' = NoProc /\ auth'["temp"] = NoDoc
  BY Types DEF ServerTypeOK, serverVars, service, outer
<1>2. QED
  BY <1>1 DEF Filing, TypeOK, Places, outer

\* newCodexApp loads the table.
LEMMA BeginKeeps ==
  ASSUME Filing, NEW c \in Commands, NEW n \in SlotIds \union {0}, Begin(c, n)
  PROVE  Filing'
<1>1. /\ pc = "idle" /\ cmd' = c /\ tgt' = n /\ mem' = disk /\ pc' \in {"sync", "act"}
      /\ UNCHANGED <<serverVars, outer, parked, disk, doc, todo, dead>>
  BY DEF Begin
<1>2. prev' \in Docs
  <2>1. auth["live"] \in Docs
    BY Types DEF Homes
  <2>2. QED
    BY <2>1, ReadsIsDoc, NoDocIsNoDoc DEF Begin
<1>3. c \in CommandNames
  BY CodexAccountsAssumption
<1>4. TypeOK'
  BY <1>1, <1>2, <1>3, Types, QuietTypes DEF Places
<1>5. SlotsHoldTheirAccount' /\ OneSlotPerAccount' /\ Memory'
  BY <1>1 DEF Filing, SlotsHoldTheirAccount, OneSlotPerAccount, OnePerAccount, Memory, Registered
<1>6. Targets'
  BY <1>1 DEF Filing, Targets
<1>7. QED
  BY <1>4, <1>5, <1>6 DEF Filing

\* SyncActive.
LEMMA SyncKeeps ==
  ASSUME Filing, Sync
  PROVE  Filing'
<1> DEFINE L == auth["live"]
<1>1. /\ pc = "sync" /\ UNCHANGED <<serverVars, outer, disk, cmd, tgt, doc, prev, todo, dead>>
  BY DEF Sync
<1>2. PICK live \in Reads(L) :
        LET n == Followed(live) IN
        \/ pc' = "act" /\ UNCHANGED <<parked, mem>>
        \/ /\ live # NoDoc /\ n # 0
           /\ Written(n, live) /\ mem' = Activate(Apply(mem, n, live), n) /\ pc' = "syncSave"
        \/ /\ mem' = Activate(mem, 0) /\ pc' \in {"syncSave", "act"}
           /\ UNCHANGED parked
  BY DEF Sync, NotWritten
<1>3. live \in Docs /\ (live # NoDoc => live \in Doc)
  BY ReadsIsDoc, Types DEF Homes
<1>4. /\ todo = {} /\ dead = {} /\ tgt \in SlotIds \union {0} /\ doc \in Docs /\ prev \in Docs
      /\ cmd \in CommandNames \union {"none"} /\ parked \in [SlotIds -> Docs] /\ disk \in Table
  BY <1>1, Types DEF Filing, TypeOK, Targets
<1>5. /\ mem' \in Table /\ parked' \in [SlotIds -> Docs]
      /\ SlotsHoldTheirAccount' /\ OneSlotPerAccount' /\ Memory'
  <2>1. CASE UNCHANGED parked /\ mem' \in {mem, Activate(mem, 0)}
    BY <1>1, <1>4, <2>1, MarkerKeeps
  <2>2. CASE /\ live # NoDoc /\ Followed(live) # 0 /\ Written(Followed(live), live)
             /\ mem' = Activate(Apply(mem, Followed(live), live), Followed(live))
    <3>1. Fits(Followed(live), live)
      BY Types, ActiveIsRegistered, FindFindsOwnSlot, <2>2 DEF Followed, Fits, Registered
    <3>2. QED
      BY <1>1, <1>3, <2>2, <3>1, WriteKeeps
  <2>3. QED
    BY <1>2, <2>1, <2>2
<1>6. TypeOK'
  BY <1>1, <1>2, <1>4, <1>5, QuietTypes DEF Places
<1>7. Targets'
  BY <1>1, <1>2, <1>4 DEF Targets
<1>8. QED
  BY <1>5, <1>6, <1>7 DEF Filing

\* registerLive, in adopt and at both ends of login.
LEMMA RegisterLiveKeeps ==
  ASSUME Filing, NEW live \in Doc, NEW then \in {"save", "loginSave"}, RegisterLive(live, then),
         pc \in {"act", "loginRegister"}
  PROVE  Filing'
<1> DEFINE old == FindByIdentity(mem, live)
           n == IF old # 0 THEN old ELSE FreeNumber(mem)
<1>1. CASE Quit
  BY <1>1, QuitKeeps
<1>2. CASE /\ n # 0 /\ Written(n, live)
           /\ mem' = Activate(Apply(mem, n, live), n) /\ pc' = then
           /\ UNCHANGED <<serverVars, outer, disk, cmd, tgt, doc, prev, todo, dead>>
  <2>1. Fits(n, live)
    BY <1>2, Types, FindFindsOwnSlot, FreeNumberIsFree DEF Fits, Registered
  <2>2. /\ mem' \in Table /\ parked' \in [SlotIds -> Docs]
        /\ SlotsHoldTheirAccount' /\ OneSlotPerAccount' /\ Memory'
    BY <1>2, <2>1, WriteKeeps
  <2>3. /\ todo = {} /\ dead = {} /\ tgt \in SlotIds \union {0} /\ doc \in Docs /\ prev \in Docs
        /\ cmd \in CommandNames \union {"none"} /\ disk \in Table
    BY Types DEF Filing, TypeOK, Targets
  <2>4. TypeOK'
    BY <1>2, <2>2, <2>3, QuietTypes DEF Places
  <2>5. Targets'
    BY <1>2, <2>3 DEF Targets
  <2>6. QED
    BY <2>2, <2>4, <2>5 DEF Filing
<1>3. QED
  BY <1>1, <1>2 DEF RegisterLive

\* A step that only moves on.
LEMMA MovesOn ==
  ASSUME Filing, pc \notin {"idle", "next", "verify", "call", "mirror", "ask", "sweep", "save"},
         pc' \in {"codexLogin", "loginRegister", "save"},
         UNCHANGED <<serverVars, outer, parked, disk, cmd, locals>>
  PROVE  Filing'
<1>1. TypeOK'
  BY Types, QuietTypes DEF Places, locals, Filing, TypeOK
<1>2. SlotsHoldTheirAccount' /\ OneSlotPerAccount' /\ Memory'
  BY MarkerKeeps DEF locals
<1>3. Targets'
  BY DEF Filing, Targets, locals, Registered
<1>4. QED
  BY <1>1, <1>2, <1>3 DEF Filing

\* adopt, and login before and after Codex has its say.
LEMMA RegistrationsKeep ==
  ASSUME Filing, Adopt \/ LoginPreserve \/ LoginRegister
  PROVE  Filing'
<1>1. \A live \in Reads(auth["live"]) : live # NoDoc => live \in Doc
  BY ReadsIsDoc, Types DEF Homes
<1>2. CASE Adopt
  BY <1>1, <1>2, QuitKeeps, RegisterLiveKeeps DEF Adopt
<1>3. CASE LoginPreserve
  <2>1. CASE /\ pc = "act" /\ pc' = "codexLogin"
             /\ UNCHANGED <<serverVars, outer, parked, disk, cmd, locals>>
    BY <2>1, MovesOn
  <2>2. QED
    BY <1>1, <1>3, <2>1, RegisterLiveKeeps DEF LoginPreserve
<1>4. CASE LoginRegister
  BY <1>1, <1>4, QuitKeeps, RegisterLiveKeeps DEF LoginRegister
<1>5. QED
  BY <1>2, <1>3, <1>4

\* `codex login` replaces auth.json, or does not.
LEMMA CodexLoginKeeps ==
  ASSUME Filing, CodexLogin
  PROVE  Filing'
<1>1. CASE Quit
  BY <1>1, QuitKeeps DEF CodexLogin
<1>2. CASE pc' = "loginRegister" /\ UNCHANGED <<serverVars, outer, parked, disk, cmd, locals>>
  BY <1>2, MovesOn DEF CodexLogin
<1>3. CASE /\ \E a \in Accounts : SignInAs(a) /\ Replaced(NextDoc(a))
           /\ pc = "codexLogin" /\ pc' = "loginRegister" /\ prev' = NoDoc
           /\ UNCHANGED <<proc, answer, outer, parked, disk, cmd, mem, tgt, doc, todo, dead>>
  <2>1. PICK a \in Accounts : SignInAs(a) /\ Replaced(NextDoc(a))
    BY <1>3
  <2>2. /\ NextDoc(a) \in Doc
        /\ issued' \in [Accounts -> Gens \union {0}] /\ unspent' \in [Accounts -> SUBSET Gens]
    BY <2>1, Types, SignInTypes
  <2>3. auth' \in [Homes -> Docs] /\ auth'["temp"] = NoDoc
    BY <1>3, <2>1, <2>2, Types, NoDocIsNoDoc DEF Replaced, Homes
  <2>4. TypeOK'
    <3>1. ServerTypeOK' /\ proc' = NoProc
      BY <1>3, <2>2, <2>3, Types DEF ServerTypeOK, outer
    <3>2. QED
      BY <1>3, <2>3, <3>1, NoDocIsNoDoc DEF Filing, TypeOK, outer
  <2>5. SlotsHoldTheirAccount' /\ OneSlotPerAccount' /\ Memory'
    BY <1>3, MarkerKeeps
  <2>6. Targets'
    BY <1>3 DEF Filing, Targets
  <2>7. QED
    BY <2>4, <2>5, <2>6 DEF Filing
<1>4. QED
  BY <1>1, <1>2, <1>3 DEF CodexLogin

\* switch chooses its document.
LEMMA SwitchKeeps ==
  ASSUME Filing, Switch
  PROVE  Filing'
<1>1. CASE Quit
  BY <1>1, QuitKeeps DEF Switch
<1>2. ASSUME NEW d \in (IF tgt \in Registered(mem) THEN Reads(parked[tgt]) ELSE {NoDoc}),
             d # NoDoc, doc' = d, prev' \in Reads(auth["live"]), pc = "act", pc' = "install",
             UNCHANGED <<serverVars, outer, parked, disk, cmd, mem, tgt, todo, dead>>
      PROVE  Filing'
  <2>1. tgt \in Registered(mem) /\ tgt \in SlotIds
    BY <1>2, Types DEF Registered
  <2>2. d \in Docs /\ prev' \in Docs
    BY <1>2, <2>1, ReadsIsDoc, Types DEF Homes
  <2>3. TypeOK'
    BY <1>2, <2>2, Types, QuietTypes DEF Places, Filing, TypeOK
  <2>4. SlotsHoldTheirAccount' /\ OneSlotPerAccount' /\ Memory'
    BY <1>2, MarkerKeeps
  <2>5. Targets'
    BY <1>2, <2>1 DEF Filing, Targets, Registered
  <2>6. QED
    BY <2>3, <2>4, <2>5 DEF Filing
<1>3. QED
  BY <1>1, <1>2 DEF Switch

\* The document is installed.
LEMMA InstallKeeps ==
  ASSUME Filing, Install
  PROVE  Filing'
<1>1. CASE Quit
  BY <1>1, QuitKeeps DEF Install
<1>2. CASE /\ pc = "install" /\ Replaced(doc) /\ pc' = "start"
           /\ UNCHANGED <<service, proc, answer, outer, parked, disk, cmd, locals>>
  <2>1. auth' \in [Homes -> Docs] /\ auth'["temp"] = NoDoc
    BY <1>2, Types DEF Replaced, Homes
  <2>2. TypeOK'
    <3>1. ServerTypeOK' /\ proc' = NoProc
      BY <1>2, <2>1, Types DEF ServerTypeOK, outer, service
    <3>2. QED
      BY <1>2, <2>1, <3>1 DEF Filing, TypeOK, outer, locals
  <2>3. SlotsHoldTheirAccount' /\ OneSlotPerAccount' /\ Memory'
    BY <1>2, MarkerKeeps DEF locals
  <2>4. Targets'
    BY <1>2 DEF Filing, Targets, locals, Registered
  <2>5. QED
    BY <2>2, <2>3, <2>4 DEF Filing
<1>3. QED
  BY <1>1, <1>2 DEF Install

\* An app-server that is started, or cannot be, is on the home it is told.
LEMMA StartServerTypes ==
  ASSUME NEW home \in Homes, NEW ask \in Asks, NEW d \in Doc, StartServer(home, ask, d)
  PROVE  /\ proc' \in Proc \union {NoProc} /\ answer' \in Answers
         /\ proc' # NoProc => answer' = NoAnswer /\ proc'.home = home
<1>1. CASE proc' = [st |-> "up", home |-> home, ask |-> ask, doc |-> d] /\ answer' = NoAnswer
  BY <1>1 DEF Proc, Answers, NoAnswer
<1>2. CASE answer' = Failure("missing") /\ proc' = NoProc
  BY <1>2 DEF Answers
<1>3. QED
  BY <1>1, <1>2 DEF StartServer

\* An app-server is asked who it is.
LEMMA VerifyKeeps ==
  ASSUME Filing, Verify
  PROVE  Filing'
<1>1. /\ pc = "start" /\ pc' = "verify"
      /\ UNCHANGED <<service, auth, outer, parked, disk, cmd, locals>>
  BY DEF Verify
<1>2. /\ proc' \in Proc \union {NoProc} /\ answer' \in Answers
      /\ proc' # NoProc => answer' = NoAnswer /\ proc'.home = "live"
  <2>1. CASE answer' = Failure("unauthorized") /\ UNCHANGED proc
    BY <1>1, <2>1, Types DEF Answers
  <2>2. CASE auth["live"] # NoDoc /\ StartServer("live", "account", auth["live"])
    <3>1. auth["live"] \in Doc
      BY <2>2, Types DEF Homes, Docs
    <3>2. QED
      BY <2>2, <3>1, StartServerTypes DEF Homes, Asks
  <2>3. QED
    BY <2>1, <2>2 DEF Verify
<1>3. TypeOK'
  <2>1. ServerTypeOK' /\ auth'["temp"] = NoDoc
    BY <1>1, <1>2, Types DEF ServerTypeOK, outer, service
  <2>2. QED
    BY <1>1, <1>2, <2>1 DEF Filing, TypeOK, outer, locals
<1>4. SlotsHoldTheirAccount' /\ OneSlotPerAccount' /\ Memory'
  BY <1>1, MarkerKeeps DEF locals
<1>5. Targets'
  BY <1>1 DEF Filing, Targets, locals, Registered
<1>6. QED
  BY <1>3, <1>4, <1>5 DEF Filing

\* It was somebody else: what was live is put back.
LEMMA SwitchBackKeeps ==
  ASSUME Filing, SwitchBack
  PROVE  Filing'
<1>1. /\ pc = "verify" /\ Mismatch /\ Exit
      /\ auth' \in {auth, [auth EXCEPT !["live"] = prev]} /\ putBack' \in {putBack, TRUE}
      /\ UNCHANGED <<service, proc, sess, weather, parked, disk>>
  BY DEF SwitchBack, Replaced
<1>2. proc = NoProc
  BY <1>1, Types DEF Mismatch, NoAnswer, Failure
<1>3. auth' \in [Homes -> Docs] /\ auth'["temp"] = NoDoc
  BY <1>1, Types DEF Homes
<1>4. QED
  BY <1>1, <1>2, <1>3, ExitKeeps DEF Filing, TypeOK

\* It was the right one, or said nothing: the slot is active, and follows auth.json.
LEMMA SwitchedKeeps ==
  ASSUME Filing, Switched
  PROVE  Filing'
<1>1. /\ pc = "verify" /\ answer # NoAnswer /\ pc' = "save" /\ answer' = NoAnswer
      /\ UNCHANGED <<service, auth, proc, outer, disk, cmd, tgt, doc, prev, todo, dead>>
  BY DEF Switched
<1>2. PICK live \in Reads(auth["live"]) :
        \/ /\ live.acct = mem.slots[tgt].acct
           /\ Written(tgt, live) /\ mem' = Activate(Apply(mem, tgt, live), tgt)
        \/ mem' = Activate(mem, tgt) /\ UNCHANGED parked
  BY DEF Switched
<1>3. tgt \in Registered(mem) /\ tgt \in SlotIds /\ mem.slots[tgt] \in Doc
  BY <1>1, Types, RegisteredIsDoc DEF Filing, Targets
<1>4. /\ mem' \in Table /\ parked' \in [SlotIds -> Docs]
      /\ SlotsHoldTheirAccount' /\ OneSlotPerAccount' /\ Memory'
  <2>1. CASE UNCHANGED parked /\ mem' = Activate(mem, tgt)
    BY <1>1, <1>3, <2>1, Types, MarkerKeeps
  <2>2. CASE /\ live.acct = mem.slots[tgt].acct
             /\ Written(tgt, live) /\ mem' = Activate(Apply(mem, tgt, live), tgt)
    <3>1. live \in Docs /\ live # NoDoc
      BY <1>3, <2>2, ReadsIsDoc, Types, IdentityAssumption DEF Homes, Doc, NoDoc
    <3>2. live \in Doc /\ Fits(tgt, live)
      BY <1>3, <2>2, <3>1 DEF Fits, Docs
    <3>3. QED
      BY <1>1, <2>2, <3>2, WriteKeeps
  <2>3. QED
    BY <1>2, <2>1, <2>2
<1>5. proc' = NoProc
  BY <1>1, Types
<1>6. TypeOK'
  <2>1. ServerTypeOK' /\ auth'["temp"] = NoDoc
    BY <1>1, <1>5, Types DEF ServerTypeOK, outer, service, Answers, NoAnswer
  <2>2. QED
    BY <1>1, <1>4, <1>5, <2>1 DEF Filing, TypeOK, outer
<1>7. Targets'
  BY <1>1 DEF Filing, Targets
<1>8. QED
  BY <1>4, <1>6, <1>7 DEF Filing

\* The slots of a loop are chosen.
LEMMA PlanKeeps ==
  ASSUME Filing, Plan
  PROVE  Filing'
<1>1. CASE Quit
  BY <1>1, QuitKeeps DEF Plan
<1>2. CASE /\ pc = "act" /\ pc' = "next" /\ todo' \subseteq Registered(mem)
           /\ UNCHANGED <<serverVars, outer, parked, disk, cmd, mem, tgt, doc, prev, dead>>
  <2>1. TypeOK'
    BY <1>2, Types, QuietTypes DEF Places, Filing, TypeOK, Registered
  <2>2. SlotsHoldTheirAccount' /\ OneSlotPerAccount' /\ Memory'
    BY <1>2, MarkerKeeps
  <2>3. Targets'
    BY <1>2 DEF Filing, Targets, Registered
  <2>4. QED
    BY <2>1, <2>2, <2>3 DEF Filing
<1>3. QED
  BY <1>1, <1>2 DEF Plan

\* The visit of slot n.
VisitOf(n) ==
  /\ pc = "next" /\ todo' = todo \ {n} /\ tgt' = n
  /\ \E d \in Reads(parked[n]) :
       \/ /\ d = NoDoc \/ MaySkip(d)
          /\ dead' = IF d = NoDoc /\ cmd = "clean" THEN dead \union {n} ELSE dead
          /\ UNCHANGED <<auth, proc, answer, pc, doc>>
       \/ /\ d # NoDoc /\ MayCall(d)
          /\ auth' = [auth EXCEPT !["temp"] = d] /\ doc' = d
          /\ StartServer("temp", IF cmd = "limit" THEN "limits" ELSE "refresh", d)
          /\ pc' = "call" /\ UNCHANGED dead
  /\ UNCHANGED <<service, outer, parked, disk, cmd, mem, prev>>

LEMMA VisitsASlot ==
  ASSUME Visit
  PROVE  \E n \in todo : VisitOf(n)
BY DEF Visit, VisitOf

\* The next slot is visited.
LEMMA VisitKeeps ==
  ASSUME Filing, NEW n \in todo, VisitOf(n)
  PROVE  Filing'
<1>1. /\ pc = "next" /\ todo' = todo \ {n} /\ tgt' = n
      /\ UNCHANGED <<service, outer, parked, disk, cmd, mem, prev>>
  BY DEF VisitOf
<1>2. /\ n \in todo /\ n \in SlotIds /\ n \in Registered(mem)
      /\ proc = NoProc /\ auth["temp"] = NoDoc
  BY <1>1, Types DEF Filing, Targets
<1>3. mem.slots[n] \in Doc /\ (parked[n] # NoDoc => parked[n].acct = mem.slots[n].acct)
  BY <1>2, Types, RegisteredIsDoc DEF Filing, Memory
<1>4. SlotsHoldTheirAccount' /\ OneSlotPerAccount' /\ Memory'
  BY <1>1, MarkerKeeps
<1>5. ASSUME dead' = dead \/ (dead' = dead \union {n} /\ cmd = "clean"),
             UNCHANGED <<auth, proc, answer, pc, doc>>
      PROVE  Filing'
  <2>1. ServerTypeOK'
    BY <1>1, <1>5, Types DEF ServerTypeOK, outer, service
  <2>2. TypeOK'
    BY <1>1, <1>2, <1>5, <2>1 DEF Filing, TypeOK, outer
  <2>3. Targets'
    BY <1>1, <1>2, <1>5 DEF Filing, Targets, Registered
  <2>4. QED
    BY <1>4, <2>2, <2>3 DEF Filing
<1>6. ASSUME NEW d \in Reads(parked[n]), d # NoDoc, auth' = [auth EXCEPT !["temp"] = d], doc' = d,
             StartServer("temp", IF cmd = "limit" THEN "limits" ELSE "refresh", d),
             pc' = "call", UNCHANGED dead
      PROVE  Filing'
  <2>1. d \in Doc /\ d \in Docs /\ d = parked[n]
    BY <1>2, <1>6, ReadsIsDoc, Types, NoDocIsNoDoc
  <2>2. /\ proc' \in Proc \union {NoProc} /\ answer' \in Answers
        /\ proc' # NoProc => answer' = NoAnswer /\ proc'.home = "temp"
    BY <1>6, <2>1, StartServerTypes DEF Homes, Asks
  <2>3. auth' \in [Homes -> Docs]
    BY <1>6, <2>1, Types
  <2>4. ServerTypeOK'
    BY <1>1, <2>2, <2>3, Types DEF ServerTypeOK, outer, service
  <2>5. TypeOK'
    BY <1>1, <1>2, <1>6, <2>1, <2>2, <2>4 DEF Filing, TypeOK, outer
  <2>6. Targets'
    BY <1>1, <1>2, <1>3, <1>6, <2>1 DEF Filing, Targets, Registered
  <2>7. QED
    BY <1>4, <2>5, <2>6 DEF Filing
<1>7. QED
  BY <1>5, <1>6 DEF VisitOf

\* A slot is done with, and not written.
LEMMA NextSlotKeeps ==
  ASSUME Filing, pc \in {"call", "mirror"}, proc = NoProc, pc' = "next", doc' = NoDoc,
         answer' = NoAnswer, auth' \in [Homes -> Docs], auth'["temp"] = NoDoc,
         UNCHANGED <<service, proc, outer, parked, disk, cmd, mem, tgt, prev, todo>>,
         dead' \subseteq Registered(mem), dead' # {} => cmd = "clean"
  PROVE  Filing'
<1>1. SlotsHoldTheirAccount' /\ OneSlotPerAccount' /\ Memory'
  BY MarkerKeeps
<1>2. ServerTypeOK'
  BY Types DEF ServerTypeOK, outer, service, Answers, NoAnswer
<1>3. TypeOK'
  BY <1>2, NoDocIsNoDoc DEF Filing, TypeOK, outer, Registered
<1>4. Targets'
  BY DEF Filing, Targets, Registered
<1>5. QED
  BY <1>1, <1>3, <1>4 DEF Filing

\* What the app-server left in the temporary home is kept, if it can be.
LEMMA KeepKeeps ==
  ASSUME Filing, pc = "call", answer # NoAnswer, NEW updated \in Docs, updated.acct = doc.acct,
         Keep(updated),
         UNCHANGED <<service, proc, outer, disk, cmd, tgt, prev, todo, dead>>
  PROVE  Filing'
<1>1. /\ tgt \in Registered(mem) /\ tgt \in SlotIds /\ doc # NoDoc /\ doc \in Doc
      /\ doc.acct = mem.slots[tgt].acct /\ proc = NoProc
  BY Types, RegisteredIsDoc DEF Filing, Targets, Docs
<1>2. updated \in Doc /\ Fits(tgt, updated)
  BY <1>1, IdentityAssumption DEF Docs, Doc, NoDoc, Fits
<1>3. CASE NotWritten /\ NextSlot /\ UNCHANGED mem
  <2>1. auth' \in [Homes -> Docs] /\ auth'["temp"] = NoDoc
    BY <1>3, Types, NoDocIsNoDoc DEF NextSlot, Homes
  <2>2. QED
    BY <1>1, <1>3, <2>1, NextSlotKeeps DEF NextSlot, NotWritten, Filing, Targets
<1>4. CASE Written(tgt, updated) /\ mem' = Apply(mem, tgt, updated)
  <2>1. /\ parked' \in [SlotIds -> Docs] /\ mem' \in Table
        /\ Registered(mem') = Registered(mem)
        /\ mem'.slots[tgt].acct = updated.acct
        /\ SlotsHoldTheirAccount' /\ OneSlotPerAccount' /\ Memory'
    BY <1>1, <1>2, <1>4, WriteKeeps
  <2>2. /\ auth' \in [Homes -> Docs] /\ doc' \in Docs /\ answer' = NoAnswer
        /\ pc' \in {"mirror", "next"} /\ (pc' = "next" => auth'["temp"] = NoDoc)
    BY <1>2, <1>4, Types, NoDocIsNoDoc DEF Keep, NextSlot, Homes, NotWritten
  <2>3. ServerTypeOK'
    BY <1>1, <2>2, Types DEF ServerTypeOK, outer, service, Answers, NoAnswer
  <2>4. TypeOK'
    BY <1>1, <2>1, <2>2, <2>3 DEF Filing, TypeOK, outer
  <2>5. Targets'
    BY <2>1, <2>2 DEF Filing, Targets
  <2>6. QED
    BY <2>1, <2>4, <2>5 DEF Filing
<1>5. QED
  BY <1>3, <1>4 DEF Keep

\* refreshCodexSlot and fetchCodexLimit after their call.
LEMMA CallsKeep ==
  ASSUME Filing, Refreshed \/ Limited
  PROVE  Filing'
<1>1. /\ pc = "call" /\ answer # NoAnswer /\ proc = NoProc /\ tgt \in Registered(mem)
      /\ UNCHANGED <<service, proc, outer, disk, cmd, tgt, prev, todo>>
  BY Types DEF Refreshed, Limited, Filing, Targets
<1>2. ASSUME NextSlot, UNCHANGED <<parked, mem>>,
             dead' = dead \/ (dead' = dead \union {tgt} /\ cmd = "clean")
      PROVE  Filing'
  <2>1. auth' \in [Homes -> Docs] /\ auth'["temp"] = NoDoc
    BY <1>2, Types, NoDocIsNoDoc DEF NextSlot, Homes
  <2>2. dead' \subseteq Registered(mem) /\ (dead' # {} => cmd = "clean")
    BY <1>1, <1>2 DEF Filing, Targets
  <2>3. QED
    BY <1>1, <1>2, <2>1, <2>2, NextSlotKeeps DEF NextSlot
<1>3. ASSUME NEW updated \in Reads(auth["temp"]), updated.acct = doc.acct, Keep(updated), UNCHANGED dead
      PROVE  Filing'
  <2>1. updated \in Docs
    BY <1>3, ReadsIsDoc, Types DEF Homes
  <2>2. QED
    BY <1>1, <1>3, <2>1, KeepKeeps
<1>4. CASE Refreshed
  BY <1>2, <1>3, <1>4 DEF Refreshed
<1>5. CASE Limited
  BY <1>2, <1>3, <1>5 DEF Limited
<1>6. QED
  BY <1>4, <1>5

\* auth.json follows its slot.
LEMMA MirrorKeeps ==
  ASSUME Filing, Mirror
  PROVE  Filing'
<1>1. auth' \in [Homes -> Docs] /\ auth'["temp"] = NoDoc
  <2>1. CASE auth' = [live |-> doc, temp |-> NoDoc]
    BY <2>1, Types, NoDocIsNoDoc DEF Homes
  <2>2. CASE auth' = [auth EXCEPT !["temp"] = NoDoc]
    BY <2>2, Types, NoDocIsNoDoc DEF Homes
  <2>3. QED
    BY <2>1, <2>2 DEF Mirror
<1>2. proc = NoProc /\ dead \subseteq Registered(mem) /\ (dead # {} => cmd = "clean")
  BY Types DEF Mirror, Filing, Targets
<1>3. QED
  BY <1>1, <1>2, NextSlotKeeps DEF Mirror

\* The loop is over.
LEMMA VisitedKeeps ==
  ASSUME Filing, Visited
  PROVE  Filing'
<1>1. /\ pc = "next" /\ todo = {} /\ pc' \in {"save", "ask", "sweep"}
      /\ pc' \in {"ask", "sweep"} => dead # {}
      /\ UNCHANGED <<serverVars, outer, parked, disk, cmd, locals>>
  BY DEF Visited
<1>2. TypeOK'
  BY <1>1, Types, QuietTypes DEF Places, locals, Filing, TypeOK
<1>3. SlotsHoldTheirAccount' /\ OneSlotPerAccount' /\ Memory'
  BY <1>1, MarkerKeeps DEF locals
<1>4. Targets'
  BY <1>1 DEF Filing, Targets, locals, Registered
<1>5. QED
  BY <1>2, <1>3, <1>4 DEF Filing

\* clean and remove take slots out.
LEMMA RemovalsKeep ==
  ASSUME Filing, Sweep \/ RemoveSlot \/ Confirmed
  PROVE  Filing'
<1>1. CASE Quit /\ (RemoveSlot \/ Confirmed)
  BY <1>1, QuitKeeps DEF RemoveSlot, Confirmed
<1>2. ASSUME NEW n \in Registered(mem), Deleted(n), mem' = Remove(mem, n),
             pc \in {"act", "ask", "sweep"}, pc' \in {"save", "sweep"}, dead' = dead \ {n},
             pc' = "sweep" => dead' # {},
             UNCHANGED <<serverVars, outer, disk, cmd, tgt, doc, prev, todo>>
      PROVE  Filing'
  <2>1. /\ parked' \in [SlotIds -> Docs] /\ mem' \in Table
        /\ Registered(mem') = Registered(mem) \ {n}
        /\ SlotsHoldTheirAccount' /\ OneSlotPerAccount' /\ Memory'
    BY <1>2, RemovalKeeps
  <2>2. TypeOK'
    BY <1>2, <2>1, Types, QuietTypes DEF Places, Filing, TypeOK
  <2>3. Targets'
    BY <1>2, <2>1 DEF Filing, Targets
  <2>4. QED
    BY <2>1, <2>2, <2>3 DEF Filing
<1>3. CASE Sweep
  <2>1. Lowest(dead) \in dead /\ Lowest(dead) \in Registered(mem)
    BY <1>3, Types, LowestIsMember DEF Sweep, Filing, Targets
  <2>2. QED
    BY <1>2, <1>3, <2>1 DEF Sweep
<1>4. CASE Removed /\ (RemoveSlot \/ (Confirmed /\ cmd = "remove"))
  <2>1. dead = {} /\ tgt \in Registered(mem) /\ pc \in {"act", "ask"}
    BY <1>4 DEF RemoveSlot, Removed, Confirmed, Quit, Exit, Filing, Targets
  <2>2. QED
    BY <1>2, <1>4, <2>1 DEF Removed
<1>5. CASE /\ RemoveSlot \/ Confirmed
           /\ ~Quit /\ ~(Removed /\ (RemoveSlot \/ (Confirmed /\ cmd = "remove")))
           /\ UNCHANGED <<serverVars, outer, parked, disk, cmd, locals>>
  <2>1. /\ pc \in {"act", "ask"} /\ pc' \in {"ask", "save", "sweep"}
        /\ pc' = "sweep" => dead # {}
        /\ pc' = "ask" => cmd = "remove" /\ tgt \in Registered(mem)
    BY <1>5 DEF RemoveSlot, Confirmed, Filing, Targets
  <2>2. TypeOK'
    BY <1>5, <2>1, Types, QuietTypes DEF Places, locals, Filing, TypeOK
  <2>3. SlotsHoldTheirAccount' /\ OneSlotPerAccount' /\ Memory'
    BY <1>5, <2>1, MarkerKeeps DEF locals
  <2>4. Targets'
    BY <1>5, <2>1 DEF Filing, Targets, locals, Registered
  <2>5. QED
    BY <2>2, <2>3, <2>4 DEF Filing
<1>6. QED
  BY <1>1, <1>3, <1>4, <1>5 DEF RemoveSlot, Confirmed

\* list and label have nothing to write that was not there.
LEMMA ReportsKeep ==
  ASSUME Filing, List \/ Label
  PROVE  Filing'
<1>1. CASE Quit /\ pc = "act"
  BY <1>1, QuitKeeps
<1>2. CASE pc = "act" /\ pc' = "save" /\ UNCHANGED <<serverVars, outer, parked, disk, cmd, locals>>
  BY <1>2, MovesOn
<1>3. QED
  BY <1>1, <1>2 DEF List, Label

-----------------------------------------------------------------------------
(***************************************************************************)
(* What goes on beside cas.                                                *)
(***************************************************************************)

\* What cas has in its hands and on disk does not depend on it.
LEMMA BesideKeeps ==
  ASSUME Filing, UNCHANGED <<parked, disk, pc, cmd, locals>>
  PROVE  SlotsHoldTheirAccount' /\ OneSlotPerAccount' /\ Memory' /\ Targets'
<1>1. Registered(mem)' = Registered(mem) /\ Registered(disk)' = Registered(disk)
  BY DEF Registered, locals
<1>2. SlotsHoldTheirAccount' /\ OneSlotPerAccount'
  BY <1>1 DEF Filing, SlotsHoldTheirAccount, OneSlotPerAccount, OnePerAccount
<1>3. Memory'
  BY <1>1 DEF Filing, Memory, OnePerAccount, locals
<1>4. Targets'
  BY <1>1 DEF Filing, Targets, locals
<1>5. QED
  BY <1>2, <1>3, <1>4

\* The call ends.
LEMMA ClientKeeps ==
  ASSUME Filing, ClientStep
  PROVE  Filing'
<1>1. /\ UNCHANGED <<service, auth, sess, weather, putBack, parked, disk, pc, cmd, locals>>
      /\ proc' = NoProc
  BY DEF ClientStep, Client, Answered, Rejected, SeesNone, CallFails, ReadsAsRefusal, Return,
         Cas, outer
<1>2. answer' \in Answers
  BY DEF ClientStep, Client, Answered, Rejected, SeesNone, CallFails, ReadsAsRefusal, Return, Answers
<1>3. ServerTypeOK'
  BY <1>1, <1>2, Types DEF ServerTypeOK, service
<1>4. TypeOK'
  BY <1>1, <1>3 DEF Filing, TypeOK, locals
<1>5. QED
  BY <1>1, <1>4, BesideKeeps DEF Filing

\* The app-server does its part.
LEMMA ServerKeepsInv ==
  ASSUME Filing, ServerStep
  PROVE  Filing'
<1>1. /\ UNCHANGED <<sess, weather, putBack, parked, disk, pc, cmd, locals, answer>>
      /\ proc.st \in {"up", "renewed"}
  BY DEF ServerStep, Server, ServerRenews, ServerStores, ServerKeeps, Cas, outer
<1>2. /\ proc \in Proc /\ proc # NoProc /\ proc.doc \in Doc /\ proc.home \in Homes
      /\ proc.doc \in Docs
  BY <1>1, Types, NoDocIsNoDoc DEF ServerTypeOK, Proc, NoProc
<1>3. /\ proc' \in Proc /\ proc'.home = proc.home
      /\ issued' \in [Accounts -> Gens \union {0}] /\ unspent' \in [Accounts -> SUBSET Gens]
      /\ auth' \in [Homes -> Docs]
      /\ auth'["temp"] # auth["temp"] => proc.home = "temp"
  <2>1. CASE ServerRenews
    <3>1. /\ NextDoc(proc.doc.acct) \in Doc
          /\ issued' \in [Accounts -> Gens \union {0}] /\ unspent' \in [Accounts -> SUBSET Gens]
      BY <1>2, <2>1, Types, RotateTypes DEF ServerRenews
    <3>2. QED
      BY <1>2, <2>1, <3>1, Types DEF ServerRenews, Proc
  <2>2. CASE ServerStores
    BY <1>2, <2>2, Types DEF ServerStores, Proc, service, ServerTypeOK, Homes
  <2>3. CASE ServerKeeps
    BY <1>2, <2>3, Types DEF ServerKeeps, Proc, service, ServerTypeOK
  <2>4. QED
    BY <2>1, <2>2, <2>3 DEF ServerStep, Server
<1>4. ServerTypeOK'
  BY <1>1, <1>3, Types DEF ServerTypeOK
<1>5. TypeOK'
  BY <1>1, <1>2, <1>3, <1>4 DEF Filing, TypeOK, locals
<1>6. QED
  BY <1>1, <1>5, BesideKeeps DEF Filing

\* Sessions, sign-ins and logouts.
LEMMA CodexKeeps ==
  ASSUME Filing, Codex
  PROVE  Filing'
<1>1. UNCHANGED <<parked, disk, pc, cmd, locals, proc, answer, weather, putBack>>
  BY DEF Codex, Open, Renew, WriteBack, End, Logout, SignIn, Others
<1>2. /\ \A s \in Sessions : sess[s].doc \in Docs
      /\ sess \in [Sessions -> [doc: Docs, dirty: BOOLEAN]]
      /\ auth["live"] \in Docs
  BY Types DEF Filing, TypeOK, Homes
<1>3. /\ issued' \in [Accounts -> Gens \union {0}] /\ unspent' \in [Accounts -> SUBSET Gens]
      /\ auth' \in [Homes -> Docs] /\ auth'["temp"] = auth["temp"]
      /\ sess' \in [Sessions -> [doc: Docs, dirty: BOOLEAN]]
  <2> DEFINE Typed ==
        /\ issued' \in [Accounts -> Gens \union {0}] /\ unspent' \in [Accounts -> SUBSET Gens]
        /\ auth' \in [Homes -> Docs] /\ auth'["temp"] = auth["temp"]
        /\ sess' \in [Sessions -> [doc: Docs, dirty: BOOLEAN]]
  <2>1. ASSUME NEW s \in Sessions, Open(s) \/ End(s)
        PROVE  Typed
    <3>1. UNCHANGED <<service, auth>>
      BY <2>1 DEF Open, End
    <3>2. sess' \in [Sessions -> [doc: Docs, dirty: BOOLEAN]]
      <4>1. CASE Open(s)
        <5>1. sess[s] \in [doc: Docs, dirty: BOOLEAN]
          BY <1>2
        <5>2. [sess[s] EXCEPT !.doc = auth["live"]] \in [doc: Docs, dirty: BOOLEAN]
          BY <1>2, <5>1
        <5>3. sess' = [sess EXCEPT ![s] = [sess[s] EXCEPT !.doc = auth["live"]]]
          BY <4>1, Zenon DEF Open
        <5>4. QED
          BY <1>2, <5>2, <5>3
      <4>2. CASE End(s)
        BY <1>2, <4>2, NoDocIsNoDoc DEF End
      <4>3. QED
        BY <2>1, <4>1, <4>2
    <3>3. QED
      BY <3>1, <3>2, Types DEF service, ServerTypeOK
  <2>2. ASSUME NEW s \in Sessions, Renew(s)
        PROVE  Typed
    <3>1. /\ NextDoc(sess[s].doc.acct) \in Doc
          /\ issued' \in [Accounts -> Gens \union {0}] /\ unspent' \in [Accounts -> SUBSET Gens]
      BY <1>2, <2>2, Types, RotateTypes DEF Renew
    <3>2. QED
      BY <1>2, <2>2, <3>1, Types, NoDocIsNoDoc DEF Renew
  <2>3. ASSUME NEW s \in Sessions, WriteBack(s)
        PROVE  Typed
    BY <1>2, <2>3, Types DEF WriteBack, Replaced, service, ServerTypeOK, Homes
  <2>4. ASSUME Logout
        PROVE  Typed
    BY <1>2, <2>4, Types, NoDocIsNoDoc DEF Logout, Replaced, service, ServerTypeOK, Homes
  <2>5. ASSUME NEW a \in Accounts, SignIn(a)
        PROVE  Typed
    <3>1. /\ NextDoc(a) \in Docs
          /\ issued' \in [Accounts -> Gens \union {0}] /\ unspent' \in [Accounts -> SUBSET Gens]
      BY <2>5, Types, SignInTypes, NoDocIsNoDoc DEF SignIn
    <3>2. QED
      BY <1>2, <2>5, <3>1, Types DEF SignIn, Replaced, Homes
  <2>6. QED
    BY <2>1, <2>2, <2>3, <2>4, <2>5 DEF Codex
<1>4. ServerTypeOK'
  BY <1>1, <1>3, Types DEF ServerTypeOK
<1>5. TypeOK'
  BY <1>1, <1>3, <1>4 DEF Filing, TypeOK, locals
<1>6. QED
  BY <1>1, <1>5, BesideKeeps DEF Filing

-----------------------------------------------------------------------------
(***************************************************************************)
(* Filing is inductive.                                                    *)
(***************************************************************************)

\* Nobody starts with an account twice.
LEMMA InitFiles ==
  ASSUME Init
  PROVE  Filing
<1>1. PICK start \in Starts, a \in Owner :
        LET known == ({a} \union {start[n] : n \in SlotIds}) \ {NoAccount}
        IN /\ issued = [b \in Accounts |-> IF b \in known THEN 1 ELSE 0]
           /\ unspent = [b \in Accounts |-> IF b \in known THEN {1} ELSE {}]
           /\ auth = [h \in Homes |-> IF h = "live" THEN FirstDoc(a) ELSE NoDoc]
           /\ parked = [n \in SlotIds |-> FirstDoc(start[n])]
           /\ disk = [active |-> Lowest({n \in SlotIds : a # NoAccount /\ start[n] = a}),
                      slots  |-> [n \in SlotIds |-> IF start[n] = NoAccount THEN NoSlot
                                                    ELSE FirstDoc(start[n])]]
  BY Zenon DEF Init
<1>2. 1 \in Gens
  BY CodexTableAssumption DEF Gens
<1>3. \A o \in Owner : FirstDoc(o) \in Docs /\ (o # NoAccount => FirstDoc(o) \in Doc /\ FirstDoc(o).acct = o)
  BY <1>2, NoDocIsNoDoc DEF FirstDoc, Owner, Doc
<1>4. start \in [SlotIds -> Owner]
  BY CodexAccountsAssumption
<1>5. disk \in Table /\ parked \in [SlotIds -> Docs] /\ auth \in [Homes -> Docs]
  <2>1. Lowest({n \in SlotIds : a # NoAccount /\ start[n] = a}) \in SlotIds \union {0}
    BY LowestIsMember
  <2>2. \A n \in SlotIds : disk.slots[n] \in Doc \union {NoSlot}
    BY <1>1, <1>3, <1>4
  <2>3. disk.slots \in [SlotIds -> Doc \union {NoSlot}]
    BY <1>1, <2>2
  <2>4. QED
    BY <1>1, <1>3, <1>4, <2>1, <2>3, NoDocIsNoDoc DEF Table
<1>6. \A n \in Registered(disk) : /\ n \in SlotIds /\ start[n] # NoAccount
                                  /\ disk.slots[n] = FirstDoc(start[n])
                                  /\ disk.slots[n].acct = start[n]
  BY <1>1, <1>3, <1>4 DEF Registered
<1>7. TypeOK
  <2>1. issued \in [Accounts -> Gens \union {0}] /\ unspent \in [Accounts -> SUBSET Gens]
    BY <1>1, <1>2
  <2>2. ServerTypeOK
    BY <1>5, <2>1 DEF Init, ServerTypeOK, Answers, NoAnswer
  <2>3. auth["temp"] = NoDoc
    BY <1>1 DEF Homes
  <2>4. sess \in [Sessions -> [doc: Docs, dirty: BOOLEAN]]
    BY NoDocIsNoDoc DEF Init
  <2>5. QED
    BY <1>5, <2>2, <2>3, <2>4, EmptyIsTable, NoDocIsNoDoc DEF Init, TypeOK
<1>8. SlotsHoldTheirAccount
  BY <1>1, <1>6 DEF SlotsHoldTheirAccount
<1>9. OneSlotPerAccount
  BY <1>6, CodexAccountsAssumption DEF OneSlotPerAccount, OnePerAccount
<1>10. Memory /\ Targets
  BY EmptyIsTable DEF Init, Memory, Targets, OnePerAccount
<1>11. QED
  BY <1>7, <1>8, <1>9, <1>10 DEF Filing

\* Every step of cas, of Codex and of the user keeps the invariant.
LEMMA NextKeepsFiling ==
  ASSUME Filing, [Next]_vars
  PROVE  Filing'
<1>1. CASE UNCHANGED vars
  <2>1. TypeOK'
    BY <1>1 DEF Filing, TypeOK, ServerTypeOK, vars, serverVars, service, outer, locals
  <2>2. SlotsHoldTheirAccount' /\ OneSlotPerAccount' /\ Memory' /\ Targets'
    BY <1>1, BesideKeeps DEF vars
  <2>3. QED
    BY <2>1, <2>2 DEF Filing
<1>2. CASE Step
  <2>1. CASE Sync \/ SyncSave \/ Adopt \/ LoginPreserve \/ LoginSave \/ LoginRegister
    BY <2>1, SyncKeeps, SaveAndKeeps, RegistrationsKeep DEF SyncSave, LoginSave
  <2>2. CASE Switch \/ Install \/ Verify \/ SwitchBack \/ Switched
    BY <2>2, SwitchKeeps, InstallKeeps, VerifyKeeps, SwitchBackKeeps, SwitchedKeeps
  <2>3. CASE Plan \/ Visit \/ Refreshed \/ Limited \/ Mirror \/ Visited \/ Sweep
    BY <2>3, PlanKeeps, VisitKeeps, VisitsASlot, CallsKeep, MirrorKeeps, VisitedKeeps, RemovalsKeep
  <2>4. CASE List \/ RemoveSlot \/ Confirmed \/ Label \/ Save
    BY <2>4, ReportsKeep, RemovalsKeep, SaveKeeps
  <2>5. QED
    BY <1>2, <2>1, <2>2, <2>3, <2>4 DEF Step
<1>3. QED
  BY <1>1, <1>2, RemovalsKeep, BeginKeeps, CodexLoginKeeps, ClientKeeps, ServerKeepsInv,
     CrashKeeps, CodexKeeps
     DEF Next

-----------------------------------------------------------------------------
(***************************************************************************)
(* A document that stopped working never works again.                      *)
(***************************************************************************)

\* The service issues documents nobody has, and takes no spent one back.
LEMMA ServiceMoves ==
  ASSUME ServerTypeOK, \A a \in Keys : issued[a] <= 1,
         UNCHANGED service \/ (\E a \in Accounts : SignInAs(a)) \/ (\E d \in Docs : Rotate(d))
  PROVE  /\ \A d \in Issued : d \in Docs /\ (d = NoDoc \/ d.gen <= issued'[d.acct])
         /\ \A a \in Keys : issued'[a] <= 1
         /\ \A d \in Issued : d # NoDoc /\ d.acct \notin Keys /\ d.gen \notin unspent[d.acct] =>
              d.gen \notin unspent'[d.acct]
<1>1. /\ \A d \in Issued : d # NoDoc => /\ d \in Doc /\ d.acct \in Accounts
                                        /\ d.gen \in Nat /\ d.gen <= issued[d.acct]
      /\ \A a \in Accounts : issued[a] \in Nat
      /\ Keys \subseteq Accounts /\ \A d \in Issued : d \in Docs
  BY CodexTableAssumption, AppServerAssumption DEF Issued, Docs, Doc, Gens, ServerTypeOK
<1>2. CASE UNCHANGED service
  BY <1>1, <1>2 DEF service
<1>3. ASSUME NEW a \in Accounts, SignInAs(a)
      PROVE  /\ \A d \in Issued : d = NoDoc \/ d.gen <= issued'[d.acct]
             /\ \A b \in Keys : issued'[b] <= 1
             /\ \A d \in Issued : d # NoDoc /\ d.acct \notin Keys /\ d.gen \notin unspent[d.acct] =>
                  d.gen \notin unspent'[d.acct]
  <2>1. /\ \A b \in Accounts : issued'[b] = IF b # a THEN issued[b]
                                            ELSE IF a \in Keys THEN 1 ELSE issued[a] + 1
        /\ \A b \in Accounts : unspent'[b] = IF b # a THEN unspent[b]
             ELSE unspent[a] \union {IF a \in Keys THEN 1 ELSE issued[a] + 1}
    BY <1>3 DEF SignInAs, NextDoc, ServerTypeOK
  <2>2. \A b \in Keys : issued'[b] <= 1
    BY <1>1, <2>1
  <2>3. \A d \in Issued : d = NoDoc \/ d.gen <= issued'[d.acct]
    BY <1>1, <2>1
  <2>4. \A d \in Issued : d # NoDoc /\ d.acct \notin Keys /\ d.gen \notin unspent[d.acct] =>
                             d.gen \notin unspent'[d.acct]
    BY <1>1, <2>1
  <2>5. QED
    BY <2>2, <2>3, <2>4
<1>4. ASSUME NEW e \in Docs, Rotate(e)
      PROVE  /\ \A d \in Issued : d = NoDoc \/ d.gen <= issued'[d.acct]
             /\ \A b \in Keys : issued'[b] <= 1
             /\ \A d \in Issued : d # NoDoc /\ d.acct \notin Keys /\ d.gen \notin unspent[d.acct] =>
                  d.gen \notin unspent'[d.acct]
  <2>1. e.acct \in Accounts /\ e.acct \notin Keys
    BY <1>4, RotateTypes DEF Rotate, Renewable
  <2>2. /\ \A b \in Accounts : issued'[b] = IF b # e.acct THEN issued[b] ELSE issued[b] + 1
        /\ \A b \in Accounts : unspent'[b] = IF b # e.acct THEN unspent[b]
             ELSE (unspent[b] \ {e.gen}) \union {issued[b] + 1}
    BY <1>4, <2>1 DEF Rotate, ServerTypeOK
  <2>3. \A b \in Keys : issued'[b] <= 1
    BY <1>1, <2>1, <2>2
  <2>4. \A d \in Issued : d = NoDoc \/ d.gen <= issued'[d.acct]
    BY <1>1, <2>2
  <2>5. ASSUME NEW d \in Issued, d # NoDoc, d.gen \notin unspent[d.acct]
        PROVE  d.gen \notin unspent'[d.acct]
    <3>1. d.acct \in Accounts /\ d.gen \in Nat /\ d.gen <= issued[d.acct] /\ issued[d.acct] \in Nat
      BY <1>1, <2>5
    <3>2. d.gen # issued[d.acct] + 1
      BY <3>1
    <3>3. CASE d.acct = e.acct
      BY <2>2, <2>5, <3>1, <3>2, <3>3
    <3>4. CASE d.acct # e.acct
      BY <2>2, <2>5, <3>1, <3>4
    <3>5. QED
      BY <3>3, <3>4
  <2>6. QED
    BY <2>3, <2>4, <2>5
<1>5. QED
  BY <1>1, <1>2, <1>3, <1>4

\* What there is stays, whatever the service does, and what it issues is added.
LEMMA IssuedGrows ==
  ASSUME ServerTypeOK, \A a \in Keys : issued[a] <= 1,
         UNCHANGED service \/ (\E a \in Accounts : SignInAs(a)) \/ (\E d \in Docs : Rotate(d))
  PROVE  /\ Issued \subseteq Issued'
         /\ \A a \in Keys : issued'[a] <= 1
BY ServiceMoves DEF Issued

LEMMA NewIsIssued ==
  ASSUME ServerTypeOK
  PROVE  /\ \A a \in Accounts : SignInAs(a) => NextDoc(a) \in Issued'
         /\ \A d \in Docs : Rotate(d) => NextDoc(d.acct) \in Issued'
<1>1. ASSUME NEW a \in Accounts, SignInAs(a)
      PROVE  NextDoc(a) \in Issued'
  <2>1. NextDoc(a) \in Docs /\ NextDoc(a).acct = a
    BY <1>1, SignInTypes, NoDocIsNoDoc
  <2>2. issued'[a] = NextDoc(a).gen /\ NextDoc(a).gen \in Nat
    BY <1>1, <2>1, CodexTableAssumption DEF SignInAs, ServerTypeOK, NextDoc, Gens
  <2>3. QED
    BY <2>1, <2>2 DEF Issued
<1>2. ASSUME NEW d \in Docs, Rotate(d)
      PROVE  NextDoc(d.acct) \in Issued'
  <2>1. /\ NextDoc(d.acct) \in Docs /\ NextDoc(d.acct).acct = d.acct
        /\ d.acct \in Accounts /\ d.acct \notin Keys
    BY <1>2, RotateTypes, NoDocIsNoDoc DEF Rotate, Renewable
  <2>2. /\ issued'[d.acct] = issued[d.acct] + 1 /\ issued[d.acct] \in Nat
        /\ NextDoc(d.acct).gen = issued[d.acct] + 1
    BY <1>2, <2>1, CodexTableAssumption DEF Rotate, ServerTypeOK, NextDoc, Gens
  <2>3. QED
    BY <2>1, <2>2 DEF Issued
<1>3. QED
  BY <1>1, <1>2

-----------------------------------------------------------------------------
(***************************************************************************)
(* Who holds what: cas, its app-server and Codex pass documents on, and    *)
(* only a sign-in and a renewal make one that nobody held.                 *)
(***************************************************************************)

\* HeldIn(D) after a step, for a D that the step does not change.
HeldNext(D) ==
  /\ parked' \in [SlotIds -> D] /\ auth' \in [Homes -> D]
  /\ mem'.slots \in [SlotIds -> D] /\ disk'.slots \in [SlotIds -> D]
  /\ doc' \in D /\ prev' \in D /\ proc'.doc \in D

LEMMA Holdings ==
  ASSUME NEW D, HeldIn(D)
  PROVE  /\ parked \in [SlotIds -> D] /\ auth \in [Homes -> D]
         /\ auth["live"] \in D /\ auth["temp"] \in D
         /\ mem.slots \in [SlotIds -> D] /\ disk.slots \in [SlotIds -> D]
         /\ doc \in D /\ prev \in D /\ proc.doc \in D /\ NoDoc \in D /\ NoSlot \in D
BY DEF HeldIn, Homes

LEMMA ReadsHolds ==
  ASSUME NEW D, HeldIn(D), NEW d \in D, NEW r \in Reads(d)
  PROVE  r \in D
BY Holdings DEF Reads

\* A slot's document is applied and the slot made the active one.
LEMMA Applied ==
  ASSUME NEW t \in Table, NEW n \in SlotIds, NEW d \in Doc,
         NEW u \in {Apply(t, n, d), Activate(Apply(t, n, d), n)}
  PROVE  /\ u \in Table /\ Registered(u) = Registered(t) \union {n}
         /\ \A m \in SlotIds : u.slots[m] = IF m = n THEN d ELSE t.slots[m]
         /\ \A D : NoSlot \in D /\ d \in D /\ t.slots \in [SlotIds -> D] =>
                    u.slots \in [SlotIds -> D]
<1>1. /\ Apply(t, n, d) \in Table /\ Registered(Apply(t, n, d)) = Registered(t) \union {n}
      /\ \A m \in SlotIds : Apply(t, n, d).slots[m] = IF m = n THEN d ELSE t.slots[m]
  BY ApplyChangesOneSlot
<1>2. /\ u \in Table /\ Registered(u) = Registered(Apply(t, n, d))
      /\ u.slots = Apply(t, n, d).slots
  BY <1>1, ActivateKeepsSlots
<1>3. u.slots \in [SlotIds -> Doc \union {NoSlot}]
  BY <1>2 DEF Table
<1>4. \A m \in SlotIds : u.slots[m] = IF m = n THEN d ELSE t.slots[m]
  BY <1>1, <1>2
<1>5. ASSUME NEW D, NoSlot \in D, d \in D, t.slots \in [SlotIds -> D]
      PROVE  u.slots \in [SlotIds -> D]
  BY <1>3, <1>4, <1>5
<1>6. QED
  BY <1>1, <1>2, <1>4, <1>5

\* The end of a command, and what it does to the slots and to auth.json.
LEMMA EndsHold ==
  ASSUME NEW D, HeldIn(D), Quit \/ Crash \/ Save \/ SwitchBack
  PROVE  HeldNext(D)
<1>1. /\ UNCHANGED parked /\ doc' = NoDoc /\ prev' = NoDoc /\ mem' = EmptyTable
      /\ proc' \in {proc, NoProc} /\ disk' \in {disk, mem}
  BY DEF Quit, Crash, Save, SwitchBack, Exit
<1>2. auth' \in [Homes -> D]
  BY Holdings DEF Quit, Crash, Save, SwitchBack, Replaced
<1>3. proc'.doc \in D /\ mem'.slots \in [SlotIds -> D]
  BY <1>1, Holdings DEF NoProc, EmptyTable
<1>4. QED
  BY <1>1, <1>2, <1>3, Holdings DEF HeldNext

\* Nothing changes hands but, perhaps, the table.
LEMMA IdleHolds ==
  ASSUME NEW D, HeldIn(D), UNCHANGED <<auth, proc, parked, doc, prev>>,
         mem' \in {mem, disk}, disk' \in {mem, disk}
  PROVE  HeldNext(D)
BY Holdings DEF HeldNext

\* A slot's credential is written or deleted, or not.
LEMMA WritesHold ==
  ASSUME NEW D, HeldIn(D), UNCHANGED <<auth, proc, doc, prev, disk>>,
         NEW n, NEW d \in D, parked' \in {parked, [parked EXCEPT ![n] = d]},
         mem'.slots \in [SlotIds -> D]
  PROVE  HeldNext(D)
BY Holdings DEF HeldNext

\* registerLive writes the live document to its account's slot, or to a free one.
LEMMA RegisterCases ==
  ASSUME Filing, NEW live \in Doc, NEW then, RegisterLive(live, then)
  PROVE  \/ Quit
         \/ /\ pc' = then /\ UNCHANGED <<serverVars, outer, disk, cmd, tgt, doc, prev, todo, dead>>
            /\ \E n \in SlotIds :
                 /\ n = (IF FindByIdentity(mem, live) # 0 THEN FindByIdentity(mem, live)
                                                          ELSE FreeNumber(mem))
                 /\ Written(n, live) /\ mem' = Activate(Apply(mem, n, live), n)
<1> DEFINE n == IF FindByIdentity(mem, live) # 0 THEN FindByIdentity(mem, live) ELSE FreeNumber(mem)
<1>1. n # 0 => n \in SlotIds
  BY Types, FindFindsOwnSlot, FreeNumberIsFree DEF Registered
<1>2. QED
  BY <1>1 DEF RegisterLive

LEMMA RegistersHold ==
  ASSUME NEW D, HeldIn(D), Filing, NEW live \in Doc, live \in D, NEW then, RegisterLive(live, then)
  PROVE  HeldNext(D)
<1>1. CASE Quit
  BY <1>1, EndsHold
<1>2. ASSUME NEW n \in SlotIds, Written(n, live), mem' = Activate(Apply(mem, n, live), n),
             UNCHANGED <<serverVars, outer, disk, cmd, tgt, doc, prev, todo, dead>>
      PROVE  HeldNext(D)
  <2>1. mem'.slots \in [SlotIds -> D]
    BY <1>2, Types, Holdings, Applied
  <2>2. QED
    BY <1>2, <2>1, WritesHold DEF Written, serverVars
<1>3. QED
  BY <1>1, <1>2, RegisterCases

\* SyncActive writes the live document to the slot of its account, if at all.
LEMMA SyncCases ==
  ASSUME Filing, Sync
  PROVE  /\ UNCHANGED <<serverVars, outer, disk, cmd, tgt, doc, prev, todo, dead>>
         /\ pc = "sync" /\ pc' \in {"syncSave", "act"} /\ proc = NoProc
         /\ \/ UNCHANGED parked /\ mem' \in {mem, Activate(mem, 0)}
            \/ \E n \in SlotIds : /\ n = Followed(auth["live"]) /\ auth["live"] \in Doc
                                  /\ Written(n, auth["live"])
                                  /\ mem' = Activate(Apply(mem, n, auth["live"]), n)
<1>1. PICK live \in Reads(auth["live"]) :
        LET n == Followed(live) IN
        \/ pc' = "act" /\ UNCHANGED <<parked, mem>>
        \/ /\ live # NoDoc /\ n # 0
           /\ Written(n, live) /\ mem' = Activate(Apply(mem, n, live), n) /\ pc' = "syncSave"
        \/ /\ mem' = Activate(mem, 0) /\ pc' \in {"syncSave", "act"}
           /\ UNCHANGED parked
  BY DEF Sync, NotWritten
<1>2. live # NoDoc => live \in Doc /\ live = auth["live"]
  BY ReadsIsDoc, Types DEF Homes, Reads
<1>3. Followed(live) # 0 => Followed(live) \in SlotIds
  BY Types, ActiveIsRegistered, FindFindsOwnSlot DEF Followed, Registered
<1>4. QED
  BY <1>1, <1>2, <1>3, Types DEF Sync

\* The commands up to a document of their own.
LEMMA CommandsHold ==
  ASSUME NEW D, HeldIn(D), Filing,
         \/ \E c \in Commands, n \in SlotIds \union {0} : Begin(c, n)
         \/ Sync \/ SyncSave \/ Adopt \/ LoginPreserve \/ LoginSave \/ LoginRegister
  PROVE  HeldNext(D)
<1>0. /\ auth["live"] \in D /\ auth["live"] \in Docs
      /\ \A r \in Reads(auth["live"]) : r \in D /\ r \in Docs /\ (r # NoDoc => r \in Doc)
  BY Holdings, Types, ReadsHolds, ReadsIsDoc DEF Homes
<1>1. ASSUME NEW c \in Commands, NEW n \in SlotIds \union {0}, Begin(c, n)
      PROVE  HeldNext(D)
  <2>1. prev' \in D
    BY <1>0, <1>1, Holdings DEF Begin
  <2>2. QED
    BY <1>1, <2>1, Holdings DEF Begin, serverVars, HeldNext
<1>2. CASE Sync
  <2>1. CASE UNCHANGED parked /\ mem' \in {mem, Activate(mem, 0)}
    <3>1. mem'.slots = mem.slots
      BY <2>1, Types, ActivateKeepsSlots
    <3>2. QED
      BY <1>2, <2>1, <3>1, SyncCases, Holdings DEF HeldNext, serverVars
  <2>2. ASSUME NEW n \in SlotIds, auth["live"] \in Doc, Written(n, auth["live"]),
               mem' = Activate(Apply(mem, n, auth["live"]), n)
        PROVE  HeldNext(D)
    <3>1. mem'.slots \in [SlotIds -> D]
      BY <1>0, <2>2, Types, Holdings, Applied
    <3>2. QED
      BY <1>0, <1>2, <2>2, <3>1, SyncCases, WritesHold DEF Written, serverVars
  <2>3. QED
    BY <1>2, <2>1, <2>2, SyncCases
<1>3. CASE SyncSave \/ LoginSave
  BY <1>3, IdleHolds, EndsHold DEF SyncSave, LoginSave, SaveAnd, serverVars, locals
<1>4. CASE Adopt
  BY <1>0, <1>4, EndsHold, RegistersHold DEF Adopt
<1>5. CASE LoginPreserve
  BY <1>0, <1>5, IdleHolds, RegistersHold DEF LoginPreserve, serverVars, locals
<1>6. CASE LoginRegister
  BY <1>0, <1>6, EndsHold, RegistersHold DEF LoginRegister
<1>7. QED
  BY <1>1, <1>2, <1>3, <1>4, <1>5, <1>6

\* switch.
LEMMA SwitchesHold ==
  ASSUME NEW D, HeldIn(D), Filing, Switch \/ Install \/ Verify \/ Switched
  PROVE  HeldNext(D)
<1>1. CASE Quit
  BY <1>1, EndsHold
<1>2. CASE Switch /\ ~Quit
  <2>1. PICK d \in (IF tgt \in Registered(mem) THEN Reads(parked[tgt]) ELSE {NoDoc}) :
          doc' = d /\ prev' \in Reads(auth["live"])
          /\ UNCHANGED <<serverVars, outer, parked, mem, disk>>
    BY <1>2 DEF Switch
  <2>2. d \in D /\ prev' \in D
    BY <2>1, Holdings, ReadsHolds DEF Registered
  <2>3. QED
    BY <2>1, <2>2, Holdings DEF serverVars, HeldNext
<1>3. CASE Install /\ ~Quit
  <2>1. auth' \in [Homes -> D] /\ UNCHANGED <<proc, parked, disk, locals>>
    BY <1>3, Holdings DEF Install, Replaced
  <2>2. QED
    BY <2>1, Holdings DEF locals, HeldNext
<1>4. CASE Verify
  <2>1. proc'.doc \in D
    BY <1>4, Holdings DEF Verify, StartServer
  <2>2. QED
    BY <1>4, <2>1, Holdings DEF Verify, locals, HeldNext
<1>5. CASE Switched
  <2>1. /\ UNCHANGED <<auth, proc, disk, doc, prev>>
        /\ tgt \in SlotIds /\ tgt \in Registered(mem)
    BY <1>5 DEF Switched, Filing, Targets, Registered
  <2>2. PICK live \in Reads(auth["live"]) :
          \/ /\ live.acct = mem.slots[tgt].acct /\ Written(tgt, live)
             /\ mem' = Activate(Apply(mem, tgt, live), tgt)
          \/ mem' = Activate(mem, tgt) /\ UNCHANGED parked
    BY <1>5 DEF Switched
  <2>3. live \in D /\ live \in Docs
    BY <2>2, Holdings, ReadsHolds, Types, ReadsIsDoc DEF Homes
  <2>4. CASE /\ live.acct = mem.slots[tgt].acct /\ Written(tgt, live)
             /\ mem' = Activate(Apply(mem, tgt, live), tgt)
    <3>1. live \in Doc
      <4>1. mem.slots[tgt].acct \in Accounts
        BY <2>1, Types, RegisteredIsDoc DEF Doc
      <4>2. QED
        BY <2>3, <2>4, <4>1, IdentityAssumption DEF Docs, NoDoc
    <3>2. mem'.slots \in [SlotIds -> D]
      BY <2>1, <2>3, <2>4, <3>1, Types, Holdings, Applied
    <3>3. QED
      BY <2>1, <2>3, <2>4, <3>2, WritesHold DEF Written
  <2>5. CASE mem' = Activate(mem, tgt) /\ UNCHANGED parked
    <3>1. mem'.slots = mem.slots
      BY <2>1, <2>5, Types, ActivateKeepsSlots
    <3>2. QED
      BY <2>1, <2>5, <3>1, Holdings DEF HeldNext
  <2>6. QED
    BY <2>2, <2>4, <2>5
<1>6. QED
  BY <1>1, <1>2, <1>3, <1>4, <1>5

\* What an app-server left is written to the slot, and perhaps to auth.json next.
LEMMA KeepCases ==
  ASSUME Filing, pc = "call", NEW updated \in Docs, updated.acct = doc.acct, Keep(updated)
  PROVE  /\ updated \in Doc /\ tgt \in SlotIds
         /\ \/ UNCHANGED <<parked, mem>> /\ NextSlot
            \/ /\ Written(tgt, updated) /\ mem' = Apply(mem, tgt, updated)
               /\ NextSlot \/ (pc' = "mirror" /\ doc' = updated /\ UNCHANGED auth)
<1>1. /\ tgt \in Registered(mem) /\ tgt \in SlotIds /\ doc # NoDoc /\ doc \in Docs
  BY Types DEF Filing, Targets, Registered
<1>2. updated \in Doc
  BY <1>1, IdentityAssumption DEF Docs, Doc, NoDoc
<1>3. QED
  BY <1>1, <1>2 DEF Keep, NotWritten

\* What the loops do after an app-server's call.
LEMMA CallCases ==
  ASSUME Filing, Refreshed \/ Limited
  PROVE  /\ pc = "call" /\ proc = NoProc /\ UNCHANGED <<service, proc, outer, disk, cmd, tgt, prev, todo>>
         /\ \/ UNCHANGED <<parked, mem>> /\ NextSlot
            \/ \E updated \in Reads(auth["temp"]) :
                 updated \in Docs /\ updated.acct = doc.acct /\ Keep(updated)
<1>1. \A updated \in Reads(auth["temp"]) : updated \in Docs
  BY Types, ReadsIsDoc DEF Homes
<1>2. QED
  BY <1>1, Types DEF Refreshed, Limited

\* The loops of refresh, limit and clean.
LEMMA LoopsHold ==
  ASSUME NEW D, HeldIn(D), Filing, Plan \/ Visit \/ Refreshed \/ Limited \/ Mirror \/ Visited
  PROVE  HeldNext(D)
<1>1. CASE Plan \/ Visited
  BY <1>1, EndsHold, IdleHolds DEF Plan, Visited, serverVars, locals
<1>2. CASE Visit
  <2> PICK n \in todo : VisitOf(n)
    BY <1>2, VisitsASlot
  <2>1. parked[n] \in D /\ UNCHANGED <<parked, disk, mem, prev>>
    BY Types, Holdings DEF VisitOf
  <2>2. CASE UNCHANGED <<auth, proc, doc>>
    BY <2>1, <2>2, IdleHolds
  <2>3. ASSUME NEW d \in Reads(parked[n]), auth' = [auth EXCEPT !["temp"] = d], doc' = d,
               StartServer("temp", IF cmd = "limit" THEN "limits" ELSE "refresh", d)
        PROVE  HeldNext(D)
    <3>1. d \in D
      BY <2>1, <2>3, ReadsHolds
    <3>2. proc'.doc \in D
      BY <2>3, <3>1, Holdings DEF StartServer
    <3>3. QED
      BY <2>1, <2>3, <3>1, <3>2, Holdings DEF HeldNext
  <2>4. QED
    BY <2>2, <2>3 DEF VisitOf
<1>3. ASSUME NextSlot, UNCHANGED <<proc, parked, disk, prev>>, mem'.slots \in [SlotIds -> D]
      PROVE  HeldNext(D)
  BY <1>3, Holdings DEF NextSlot, HeldNext
<1>4. CASE Refreshed \/ Limited
  <2>1. ASSUME NEW updated \in Reads(auth["temp"]), updated \in Docs, updated.acct = doc.acct,
               Keep(updated)
        PROVE  HeldNext(D)
    <3>1. updated \in D /\ updated \in Doc /\ tgt \in SlotIds /\ pc = "call"
      BY <1>4, <2>1, Holdings, ReadsHolds, KeepCases, CallCases
    <3>2. CASE UNCHANGED <<parked, mem>> /\ NextSlot
      BY <1>3, <1>4, <3>2, CallCases, Holdings
    <3>3. CASE /\ Written(tgt, updated) /\ mem' = Apply(mem, tgt, updated)
               /\ NextSlot \/ (pc' = "mirror" /\ doc' = updated /\ UNCHANGED auth)
      <4>1. mem'.slots \in [SlotIds -> D] /\ parked' \in [SlotIds -> D]
        BY <3>1, <3>3, Types, Holdings, Applied DEF Written
      <4>2. auth' \in [Homes -> D] /\ doc' \in D
        BY <3>1, <3>3, Holdings DEF NextSlot
      <4>3. QED
        BY <1>4, <4>1, <4>2, CallCases, Holdings DEF HeldNext
    <3>4. QED
      BY <1>4, <2>1, <3>1, <3>2, <3>3, KeepCases
  <2>2. QED
    BY <1>3, <1>4, <2>1, CallCases, Holdings
<1>5. CASE Mirror
  <2>1. auth' \in [Homes -> D] /\ doc' = NoDoc /\ UNCHANGED <<proc, parked, disk, mem, prev>>
    BY <1>5, Holdings DEF Mirror, Homes
  <2>2. QED
    BY <2>1, Holdings DEF HeldNext
<1>6. QED
  BY <1>1, <1>2, <1>4, <1>5

\* Removals and reports.
LEMMA OthersHold ==
  ASSUME NEW D, HeldIn(D), Filing, Sweep \/ RemoveSlot \/ Confirmed \/ List \/ Label
  PROVE  HeldNext(D)
<1>1. CASE Quit
  BY <1>1, EndsHold
<1>2. ASSUME NEW n \in SlotIds, Deleted(n), mem' = Remove(mem, n), UNCHANGED <<serverVars, disk, doc, prev>>
      PROVE  HeldNext(D)
  <2>1. mem'.slots \in [SlotIds -> D]
    BY <1>2, Holdings DEF Remove
  <2>2. QED
    BY <1>2, <2>1, WritesHold, Holdings DEF Deleted, serverVars
<1>3. CASE Sweep
  <2>1. Lowest(dead) \in SlotIds
    BY <1>3, Types, LowestIsMember DEF Sweep, Filing, Targets
  <2>2. QED
    BY <1>2, <1>3, <2>1 DEF Sweep
<1>4. CASE Removed /\ (RemoveSlot \/ (Confirmed /\ cmd = "remove"))
  <2>1. tgt \in SlotIds
    BY <1>4, Types DEF RemoveSlot, Confirmed, Quit, Exit, Filing, Targets, Registered, Removed
  <2>2. QED
    BY <1>2, <1>4, <2>1 DEF Removed
<1>5. CASE UNCHANGED <<serverVars, outer, parked, disk, cmd, locals>>
  BY <1>5, IdleHolds DEF serverVars, locals
<1>6. QED
  BY <1>1, <1>3, <1>4, <1>5 DEF List, Label, RemoveSlot, Confirmed

\* The app-server stores what it holds; its client's call ends.
LEMMA ServersHold ==
  ASSUME NEW D, HeldIn(D), Filing, ClientStep \/ (ServerStep /\ ~ServerRenews)
  PROVE  HeldNext(D)
<1>1. UNCHANGED <<parked, mem, disk, doc, prev>>
  BY DEF ClientStep, ServerStep, Cas, locals
<1>2. proc'.doc \in D
  <2>1. CASE ClientStep
    BY <2>1, Holdings DEF ClientStep, Client, Answered, Rejected, SeesNone, CallFails,
                          ReadsAsRefusal, Return, NoProc
  <2>2. CASE ServerStores \/ ServerKeeps
    <3>1. proc \in Proc
      BY <2>2, Types DEF ServerStores, ServerKeeps, ServerTypeOK, NoProc
    <3>2. proc'.doc = proc.doc
      BY <2>2, <3>1 DEF ServerStores, ServerKeeps, Proc
    <3>3. QED
      BY <3>2, Holdings
  <2>3. QED
    BY <2>1, <2>2 DEF ServerStep, Server
<1>3. auth' \in [Homes -> D]
  BY Holdings DEF ClientStep, Client, Answered, Rejected, SeesNone, CallFails, ReadsAsRefusal, Return,
                  ServerStep, Server, ServerStores, ServerKeeps
<1>4. QED
  BY <1>1, <1>2, <1>3, Holdings DEF HeldNext

\* Every step of cas but a sign-in passes documents on, and leaves the sessions
\* and the service alone.
Passing ==
  \/ \E c \in Commands, n \in SlotIds \union {0} : Begin(c, n)
  \/ Step \/ Confirmed \/ Crash \/ ClientStep \/ (ServerStep /\ ~ServerRenews)
  \/ CodexLogin /\ (Quit \/ UNCHANGED <<serverVars, outer, parked, disk, cmd, locals>>)

LEMMA PassingHolds ==
  ASSUME Filing, Passing
  PROVE  /\ UNCHANGED <<service, sess, weather>>
         /\ \A D : HeldIn(D) => HeldNext(D)
<1>1. ASSUME NEW D, HeldIn(D)
      PROVE  HeldNext(D)
  <2>1. CASE Step \/ Confirmed
    BY <1>1, <2>1, EndsHold, CommandsHold, SwitchesHold, LoopsHold, OthersHold DEF Step
  <2>2. CASE Quit \/ UNCHANGED <<serverVars, outer, parked, disk, cmd, locals>>
    BY <1>1, <2>2, EndsHold, IdleHolds DEF serverVars, locals
  <2>3. QED
    BY <1>1, <2>1, <2>2, EndsHold, CommandsHold, ServersHold DEF Passing
<1>2. UNCHANGED <<service, sess, weather>>
  <2>1. CASE Sync \/ SyncSave \/ Adopt \/ LoginPreserve \/ LoginSave \/ LoginRegister
    BY <2>1 DEF Sync, SyncSave, Adopt, LoginPreserve, LoginSave, LoginRegister, SaveAnd,
                RegisterLive, Quit, outer, serverVars
  <2>2. CASE Switch \/ Install \/ Verify \/ SwitchBack \/ Switched
    BY <2>2 DEF Switch, Install, Verify, SwitchBack, Switched, Quit, outer, serverVars
  <2>3. CASE Plan \/ Visit \/ Refreshed \/ Limited \/ Mirror \/ Visited \/ Sweep
    BY <2>3 DEF Plan, Visit, Refreshed, Limited, Mirror, Visited, Sweep, Quit, outer, serverVars
  <2>4. CASE List \/ RemoveSlot \/ Confirmed \/ Label \/ Save
    BY <2>4 DEF List, RemoveSlot, Removed, Confirmed, Label, Save, Quit, outer, serverVars
  <2>5. CASE ClientStep \/ (ServerStep /\ ~ServerRenews)
    BY <2>5 DEF ClientStep, Client, Answered, Rejected, SeesNone, CallFails, ReadsAsRefusal,
                Return, ServerStep, Server,
                ServerStores, ServerKeeps, Cas, outer
  <2>6. QED
    BY <2>1, <2>2, <2>3, <2>4, <2>5 DEF Passing, Step, Begin, Crash, Quit, serverVars, outer
<1>3. QED
  BY <1>1, <1>2

\* A consented sign-in, by the `codex login` of cas or beside it.
SignsIn(a) ==
  /\ SignInAs(a) /\ Replaced(NextDoc(a))
  /\ UNCHANGED <<proc, answer, outer, parked, disk, cmd, mem, doc>>
  /\ \/ UNCHANGED <<pc, prev>>
     \/ pc = "codexLogin" /\ pc' = "loginRegister" /\ prev' = NoDoc

\* A step of a session, or the user's.
Besides ==
  \/ \E s \in Sessions : Open(s) \/ WriteBack(s) \/ End(s)
  \/ Logout

\* Who makes the step.
LEMMA StepCases ==
  ASSUME Next
  PROVE  \/ Passing
         \/ \E a \in Accounts : SignsIn(a)
         \/ ServerStep /\ ServerRenews
         \/ \E s \in Sessions : Renew(s)
         \/ Besides
<1>1. CASE CodexLogin
  BY <1>1 DEF CodexLogin, SignsIn, Passing
<1>2. CASE Codex
  BY <1>2 DEF Codex, SignIn, SignsIn, Besides, Others, outer, locals
<1>3. QED
  BY <1>1, <1>2 DEF Next, Passing

\* What the step of a session leaves alone.
LEMMA CodexCases ==
  ASSUME Filing, Codex
  PROVE  /\ UNCHANGED <<parked, disk, pc, cmd, locals, proc, answer, weather, putBack>>
         /\ sess \in [Sessions -> [doc: Docs, dirty: BOOLEAN]]
         /\ \A s \in Sessions :
              /\ Open(s) => /\ UNCHANGED <<service, auth>>
                            /\ \A r \in Sessions : sess'[r].dirty = sess[r].dirty
                            /\ sess[s].doc = NoDoc /\ sess'[s].doc = auth["live"]
                            /\ \A r \in Sessions \ {s} : sess'[r].doc = sess[r].doc
              /\ WriteBack(s) => /\ UNCHANGED service /\ Replaced(sess[s].doc) /\ sess[s].dirty
                                 /\ \A r \in Sessions : sess'[r].doc = sess[r].doc
                                 /\ \A r \in Sessions \ {s} : sess'[r].dirty = sess[r].dirty
                                 /\ ~sess'[s].dirty
              /\ End(s) => /\ UNCHANGED <<service, auth>>
                           /\ \A r \in Sessions \ {s} : sess'[r] = sess[r]
                           /\ sess'[s] = [doc |-> NoDoc, dirty |-> FALSE]
<1>1. UNCHANGED <<parked, disk, pc, cmd, locals, proc, answer, weather, putBack>>
  BY DEF Codex, Open, Renew, WriteBack, End, Logout, SignIn, Others
<1>2. sess \in [Sessions -> [doc: Docs, dirty: BOOLEAN]]
  BY DEF Filing, TypeOK
<1>3. ASSUME NEW s \in Sessions, Open(s)
      PROVE  /\ UNCHANGED <<service, auth>>
             /\ \A r \in Sessions : sess'[r].dirty = sess[r].dirty
             /\ sess[s].doc = NoDoc /\ sess'[s].doc = auth["live"]
             /\ \A r \in Sessions \ {s} : sess'[r].doc = sess[r].doc
  <2>1. sess' = [sess EXCEPT ![s] = [sess[s] EXCEPT !.doc = auth["live"]]]
    BY <1>3, Zenon DEF Open
  <2>2. sess[s] \in [doc: Docs, dirty: BOOLEAN]
    BY <1>2
  <2>3. /\ [sess[s] EXCEPT !.doc = auth["live"]].doc = auth["live"]
        /\ [sess[s] EXCEPT !.doc = auth["live"]].dirty = sess[s].dirty
    BY <2>2
  <2>4. QED
    BY <1>2, <1>3, <2>1, <2>3 DEF Open
<1>4. ASSUME NEW s \in Sessions, WriteBack(s)
      PROVE  /\ UNCHANGED service /\ Replaced(sess[s].doc) /\ sess[s].dirty
             /\ \A r \in Sessions : sess'[r].doc = sess[r].doc
             /\ \A r \in Sessions \ {s} : sess'[r].dirty = sess[r].dirty
             /\ ~sess'[s].dirty
  <2>1. sess' = [sess EXCEPT ![s] = [sess[s] EXCEPT !.dirty = FALSE]]
    BY <1>4, Zenon DEF WriteBack
  <2>2. sess[s] \in [doc: Docs, dirty: BOOLEAN]
    BY <1>2
  <2>3. /\ [sess[s] EXCEPT !.dirty = FALSE].doc = sess[s].doc
        /\ ~[sess[s] EXCEPT !.dirty = FALSE].dirty
    BY <2>2
  <2>4. QED
    BY <1>2, <1>4, <2>1, <2>3 DEF WriteBack
<1>5. ASSUME NEW s \in Sessions, End(s)
      PROVE  /\ UNCHANGED <<service, auth>>
             /\ \A r \in Sessions \ {s} : sess'[r] = sess[r]
             /\ sess'[s] = [doc |-> NoDoc, dirty |-> FALSE]
  BY <1>2, <1>5 DEF End
<1>6. QED
  BY <1>1, <1>2, <1>3, <1>4, <1>5

\* What the service issues is not a document that there was.
LEMMA NewIsNew ==
  ASSUME ServerTypeOK
  PROVE  /\ \A a \in Accounts : SignInAs(a) /\ a \notin Keys => NextDoc(a) \notin Issued
         /\ \A d \in Docs : Rotate(d) => NextDoc(d.acct) \notin Issued
<1>1. ASSUME NEW a \in Accounts, a \notin Keys, NextDoc(a) \in Issued
      PROVE  FALSE
  <2>1. NextDoc(a) # NoDoc
    BY IdentityAssumption DEF NextDoc, NoDoc
  <2>2. NextDoc(a).gen <= issued[a]
    BY <1>1, <2>1 DEF Issued, NextDoc
  <2>3. NextDoc(a).gen = issued[a] + 1 /\ issued[a] \in Nat
    BY <1>1, CodexTableAssumption DEF NextDoc, ServerTypeOK, Gens
  <2>4. QED
    BY <2>2, <2>3
<1>2. \A d \in Docs : Rotate(d) => d.acct \in Accounts /\ d.acct \notin Keys
  BY RotateTypes DEF Rotate, Renewable
<1>3. QED
  BY <1>1, <1>2

\* What holds a document holds one that was issued.
LEMMA Holders ==
  ASSUME Filing, AllIssued
  PROVE  /\ NoDoc \in Issued
         /\ parked \in [SlotIds -> Issued] /\ auth \in [Homes -> Issued]
         /\ auth["live"] \in Issued /\ auth["temp"] \in Issued
         /\ \A s \in Sessions : sess[s].doc \in Issued
         /\ doc \in Issued /\ prev \in Issued /\ proc.doc \in Issued
         /\ \A n \in Registered(mem) : mem.slots[n] \in Issued
         /\ \A n \in Registered(disk) : disk.slots[n] \in Issued
<1>1. NoDoc \in Issued
  BY NoDocIsNoDoc DEF Issued
<1>2. \A d \in Docs : d \in Issued \union {NoSlot} => d \in Issued
  BY <1>1, CodexTableAssumption DEF Docs
<1>3. proc.doc \in Docs
  BY Types, NoDocIsNoDoc DEF ServerTypeOK, Proc, NoProc
<1>4. HeldIn(Issued \union {NoSlot})
  BY DEF AllIssued
<1>5. /\ parked \in [SlotIds -> Issued \union {NoSlot}] /\ auth \in [Homes -> Issued \union {NoSlot}]
      /\ mem.slots \in [SlotIds -> Issued \union {NoSlot}]
      /\ disk.slots \in [SlotIds -> Issued \union {NoSlot}]
      /\ doc \in Issued \union {NoSlot} /\ prev \in Issued \union {NoSlot}
      /\ proc.doc \in Issued \union {NoSlot}
  BY <1>4, Holdings
<1>6. parked \in [SlotIds -> Issued] /\ auth \in [Homes -> Issued]
  BY <1>2, <1>5, Types
<1>7. /\ \A n \in Registered(mem) : mem.slots[n] \in Issued
      /\ \A n \in Registered(disk) : disk.slots[n] \in Issued
  BY <1>5 DEF Registered
<1>8. QED
  BY <1>1, <1>2, <1>3, <1>5, <1>6, <1>7, Types DEF AllIssued, Homes

\* Documents are passed on, and some are issued.
LEMMA IssuedNext ==
  ASSUME ServerTypeOK, AllIssued,
         UNCHANGED service \/ (\E a \in Accounts : SignInAs(a)) \/ (\E d \in Docs : Rotate(d)),
         HeldNext(Issued' \union {NoSlot}), \A s \in Sessions : sess'[s].doc \in Issued'
  PROVE  AllIssued'
<1>1. Issued \subseteq Issued' /\ \A a \in Keys : issued'[a] <= 1
  BY IssuedGrows DEF AllIssued
<1>2. NoDoc \in Issued'
  BY NoDocIsNoDoc DEF Issued
<1>3. HeldIn(Issued \union {NoSlot})'
  BY <1>2 DEF HeldIn, HeldNext
<1>4. QED
  BY <1>1, <1>3 DEF AllIssued

LEMMA StaysHeld ==
  ASSUME NEW D, NEW E, D \subseteq E, HeldIn(D),
         UNCHANGED <<auth, parked, disk, mem, doc, prev, proc>>
  PROVE  HeldNext(E)
<1>1. /\ parked' \in [SlotIds -> D] /\ auth' \in [Homes -> D]
      /\ mem'.slots \in [SlotIds -> D] /\ disk'.slots \in [SlotIds -> D]
      /\ doc' \in D /\ prev' \in D /\ proc'.doc \in D
  BY Holdings
<1>2. QED
  BY <1>1 DEF HeldNext

LEMMA SignsInHolds ==
  ASSUME NEW D, NEW E, D \subseteq E, HeldIn(D), NEW a, SignsIn(a), NextDoc(a) \in E
  PROVE  HeldNext(E)
<1>1. /\ auth' = [auth EXCEPT !["live"] = NextDoc(a)] /\ prev' \in {prev, NoDoc}
      /\ UNCHANGED <<parked, disk, mem, doc, proc>>
  BY DEF SignsIn, Replaced
<1>2. auth' \in [Homes -> E]
  BY <1>1, Holdings
<1>3. /\ parked' \in [SlotIds -> E] /\ mem'.slots \in [SlotIds -> E] /\ disk'.slots \in [SlotIds -> E]
  BY <1>1, Holdings
<1>4. doc' \in E /\ prev' \in E /\ proc'.doc \in E
  BY <1>1, Holdings
<1>5. QED
  BY <1>2, <1>3, <1>4 DEF HeldNext

LEMMA NextKeepsIssued ==
  ASSUME Filing, AllIssued, Next
  PROVE  AllIssued'
<1> DEFINE I == Issued \union {NoSlot}
<1>0. /\ HeldIn(I) /\ \A a \in Keys : issued[a] <= 1
      /\ \A s \in Sessions : sess[s].doc \in Issued
  BY DEF AllIssued
<1>1. CASE Passing
  <2>1. UNCHANGED <<service, sess>> /\ HeldNext(I)
    BY <1>0, <1>1, PassingHolds
  <2>2. Issued' = Issued
    BY <2>1 DEF Issued, service
  <2>3. QED
    BY <1>0, <2>1, <2>2, Types, IssuedNext
<1>2. ASSUME NEW a \in Accounts, SignsIn(a)
      PROVE  AllIssued'
  <2>1. Issued \subseteq Issued' /\ NextDoc(a) \in Issued'
    BY <1>0, <1>2, Types, IssuedGrows, NewIsIssued DEF SignsIn
  <2>2. HeldNext(Issued' \union {NoSlot})
    <3>1. I \subseteq Issued' \union {NoSlot}
      BY <2>1
    <3>2. QED
      BY <1>0, <1>2, <2>1, <3>1, SignsInHolds
  <2>3. QED
    BY <1>0, <1>2, <2>1, <2>2, Types, IssuedNext DEF SignsIn, outer
<1>3. CASE ServerStep /\ ServerRenews
  <2>1. proc \in Proc /\ proc.doc \in Docs /\ Rotate(proc.doc)
    BY <1>3, Types, NoDocIsNoDoc DEF ServerRenews, ServerTypeOK, Proc, NoProc
  <2>2. Issued \subseteq Issued' /\ NextDoc(proc.doc.acct) \in Issued'
    BY <1>0, <2>1, Types, IssuedGrows, NewIsIssued
  <2>3. proc'.doc = NextDoc(proc.doc.acct) /\ UNCHANGED <<auth, parked, disk, mem, doc, prev, sess>>
    BY <1>3, <2>1 DEF ServerRenews, Proc, ServerStep, Cas, outer, locals
  <2>4. HeldNext(Issued' \union {NoSlot})
    BY <1>0, <2>2, <2>3, Holdings DEF HeldNext
  <2>5. QED
    BY <1>0, <2>1, <2>2, <2>3, <2>4, Types, IssuedNext
<1>4. ASSUME NEW s \in Sessions, Renew(s)
      PROVE  AllIssued'
  <2>1. /\ sess[s].doc \in Docs /\ Rotate(sess[s].doc)
        /\ UNCHANGED <<auth, parked, disk, mem, doc, prev, proc>>
        /\ sess \in [Sessions -> [doc: Docs, dirty: BOOLEAN]]
    BY <1>4 DEF Renew, Others, locals, Filing, TypeOK
  <2>2. Issued \subseteq Issued' /\ NextDoc(sess[s].doc.acct) \in Issued'
    BY <1>0, <2>1, Types, IssuedGrows, NewIsIssued
  <2>3. \A r \in Sessions : sess'[r].doc \in Issued'
    BY <1>0, <1>4, <2>1, <2>2 DEF Renew
  <2>4. HeldNext(Issued' \union {NoSlot})
    <3>1. I \subseteq Issued' \union {NoSlot}
      BY <2>2
    <3>2. QED
      BY <1>0, <2>1, <3>1, StaysHeld
  <2>5. QED
    BY <2>1, <2>3, <2>4, Types, IssuedNext
<1>5. CASE Besides
  <2>1. Codex /\ UNCHANGED <<service, parked, disk, mem, doc, prev, proc>>
    BY <1>5 DEF Besides, Codex, Open, WriteBack, End, Logout, Others, locals
  <2>2. Issued' = Issued
    BY <2>1 DEF Issued, service
  <2>3. auth' \in [Homes -> I] /\ \A r \in Sessions : sess'[r].doc \in Issued
    <3>1. CASE Logout
      BY <1>0, <3>1, Holdings DEF Logout, Replaced
    <3>2. ASSUME NEW s \in Sessions, Open(s) \/ WriteBack(s) \/ End(s)
          PROVE  auth' \in [Homes -> I] /\ \A r \in Sessions : sess'[r].doc \in Issued
      <4>1. auth' \in {auth, [auth EXCEPT !["live"] = sess[s].doc]}
        BY <2>1, <3>2, CodexCases DEF Replaced
      <4>2. sess'[s].doc \in Issued /\ \A r \in Sessions \ {s} : sess'[r].doc \in Issued
        BY <1>0, <2>1, <3>2, CodexCases, Holders
      <4>3. QED
        BY <1>0, <4>1, <4>2, Holdings
    <3>3. QED
      BY <1>5, <3>1, <3>2 DEF Besides
  <2>4. HeldNext(I)
    BY <1>0, <2>1, <2>3, Holdings DEF HeldNext
  <2>5. QED
    BY <2>1, <2>2, <2>3, <2>4, Types, IssuedNext
<1>6. QED
  BY <1>1, <1>2, <1>3, <1>4, <1>5, StepCases

\* What a session has renewed stays its own until it stores it.
LEMMA UnsharedNext ==
  ASSUME Filing, AllIssued, Unshared, NEW s \in Sessions, sess'[s] = sess[s],
         \/ Passing
         \/ \E a \in Accounts : SignsIn(a)
         \/ ServerStep /\ ServerRenews
         \/ UNCHANGED <<parked, disk, mem, doc, prev, proc>> /\
              \/ UNCHANGED auth
              \/ \E d \in Docs \ {sess[s].doc} : Replaced(d),
         \A r \in Sessions \ {s} : sess[s].dirty /\ sess'[r].doc # sess[r].doc =>
           sess'[r].doc # sess[s].doc
  PROVE  sess'[s].dirty =>
           /\ sess'[s].doc \in Doc /\ sess'[s].doc.acct \notin Keys
           /\ HeldNext((Docs \union {NoSlot}) \ {sess'[s].doc})
           /\ \A r \in Sessions \ {s} : sess'[r].doc # sess'[s].doc
<1> DEFINE d == sess[s].doc
           D == (Docs \union {NoSlot}) \ {d}
<1>1. SUFFICES ASSUME sess[s].dirty
               PROVE  HeldNext(D)
  BY DEF Unshared
<1>2. d \in Doc /\ d.acct \notin Keys /\ HeldIn(D) /\ d \in Issued
  BY <1>1, Holders DEF Unshared
<1>3. CASE Passing
  BY <1>2, <1>3, PassingHolds
<1>4. ASSUME NEW a \in Accounts, SignsIn(a)
      PROVE  HeldNext(D)
  <2>1. NextDoc(a) \in Docs /\ NextDoc(a).acct = a
    BY <1>4, Types, SignInTypes, NoDocIsNoDoc DEF SignsIn
  <2>2. NextDoc(a) # d
    BY <1>2, <1>4, <2>1, Types, NewIsNew DEF SignsIn
  <2>3. QED
    BY <1>2, <1>4, <2>1, <2>2, SignsInHolds
<1>5. CASE ServerStep /\ ServerRenews
  <2>1. proc \in Proc /\ proc.doc \in Docs /\ Rotate(proc.doc)
    BY <1>5, Types, NoDocIsNoDoc DEF ServerRenews, ServerTypeOK, Proc, NoProc
  <2>2. NextDoc(proc.doc.acct) \in Docs /\ NextDoc(proc.doc.acct) # d
    BY <1>2, <2>1, Types, RotateTypes, NewIsNew, NoDocIsNoDoc
  <2>3. proc'.doc = NextDoc(proc.doc.acct) /\ UNCHANGED <<auth, parked, disk, mem, doc, prev>>
    BY <1>5, <2>1 DEF ServerRenews, Proc, ServerStep, Cas, outer, locals
  <2>4. QED
    BY <1>2, <2>2, <2>3, Holdings DEF HeldNext
<1>6. CASE UNCHANGED <<parked, disk, mem, doc, prev, proc>> /\ UNCHANGED auth
  BY <1>2, <1>6, StaysHeld
<1>7. ASSUME UNCHANGED <<parked, disk, mem, doc, prev, proc>>, NEW e \in Docs \ {d}, Replaced(e)
      PROVE  HeldNext(D)
  <2>1. auth' \in [Homes -> D]
    BY <1>2, <1>7, Holdings DEF Replaced
  <2>2. QED
    BY <1>2, <1>7, <2>1, Holdings DEF HeldNext
<1>8. QED
  BY <1>3, <1>4, <1>5, <1>6, <1>7

LEMMA NextKeepsUnshared ==
  ASSUME Filing, AllIssued, Unshared, Next
  PROVE  Unshared'
<1> DEFINE Own(s) == sess'[s].dirty =>
             /\ sess'[s].doc \in Doc /\ sess'[s].doc.acct \notin Keys
             /\ HeldNext((Docs \union {NoSlot}) \ {sess'[s].doc})
             /\ \A r \in Sessions \ {s} : sess'[r].doc # sess'[s].doc
<1>1. SUFFICES \A s \in Sessions : Own(s)
  <2>1. NoDoc \in Docs /\ NoDoc \notin Doc /\ NoSlot \notin Doc
    BY NoDocIsNoDoc, CodexTableAssumption
  <2>2. QED
    BY <2>1 DEF Unshared, HeldIn, HeldNext
<1>2. /\ sess \in [Sessions -> [doc: Docs, dirty: BOOLEAN]]
      /\ auth["live"] \in Docs
  BY Types DEF Filing, TypeOK, Homes
<1>3. CASE Passing \/ (\E a \in Accounts : SignsIn(a)) \/ (ServerStep /\ ServerRenews)
  <2>1. UNCHANGED sess
    BY <1>3, PassingHolds DEF SignsIn, ServerStep, Cas, outer
  <2>2. QED
    BY <1>3, <2>1, UnsharedNext
<1>4. ASSUME NEW s \in Sessions, Renew(s)
      PROVE  \A r \in Sessions : Own(r)
  <2> DEFINE e == NextDoc(sess[s].doc.acct)
  <2>1. /\ sess[s].doc \in Docs /\ Rotate(sess[s].doc)
        /\ UNCHANGED <<auth, parked, disk, mem, doc, prev, proc>>
        /\ sess' = [sess EXCEPT ![s] = [doc |-> e, dirty |-> TRUE]]
    BY <1>2, <1>4 DEF Renew, Others, locals
  <2>2. e \in Doc /\ e \notin Issued /\ e.acct \notin Keys
    BY <2>1, Types, RotateTypes, NewIsNew DEF Rotate, Renewable
  <2>3. \A r \in Sessions : sess[r].doc # e
    BY <2>2, Holders
  <2>4. \A r \in Sessions \ {s} : Own(r)
    <3>1. \A r \in Sessions \ {s} : sess'[r] = sess[r]
      BY <1>2, <2>1
    <3>2. sess'[s].doc = e
      BY <1>2, <2>1
    <3>3. QED
      BY <2>1, <2>3, <3>1, <3>2, UnsharedNext
  <2>5. Own(s)
    <3>1. HeldIn(Issued \union {NoSlot})
      BY DEF AllIssued
    <3>2. Issued \union {NoSlot} \subseteq (Docs \union {NoSlot}) \ {e}
      BY <2>2, CodexTableAssumption DEF Issued
    <3>3. HeldNext((Docs \union {NoSlot}) \ {e})
      BY <2>1, <3>1, <3>2, StaysHeld
    <3>4. /\ sess'[s].doc = e /\ \A r \in Sessions \ {s} : sess'[r].doc = sess[r].doc
      BY <1>2, <2>1
    <3>5. QED
      BY <2>2, <2>3, <3>3, <3>4
  <2>6. QED
    BY <2>4, <2>5
<1>5. CASE Logout
  <2>1. UNCHANGED <<sess, parked, disk, mem, doc, prev, proc>> /\ Replaced(NoDoc)
    BY <1>5 DEF Logout, Others, locals
  <2>2. \A s \in Sessions : sess[s].dirty => NoDoc \in Docs \ {sess[s].doc}
    BY NoDocIsNoDoc DEF Unshared
  <2>3. ASSUME NEW s \in Sessions, sess[s].dirty
        PROVE  Own(s)
    BY <2>1, <2>2, <2>3, UnsharedNext
  <2>4. QED
    BY <2>1, <2>3
<1>6. ASSUME NEW s \in Sessions, Open(s) \/ WriteBack(s) \/ End(s)
      PROVE  \A r \in Sessions : Own(r)
  <2>1. Codex /\ UNCHANGED <<parked, disk, mem, doc, prev, proc>>
    BY <1>6 DEF Codex, Open, WriteBack, End, Others, locals
  <2>2. ~sess'[s].dirty
    <3>1. CASE Open(s)
      <4>1. sess[s].doc = NoDoc /\ sess'[s].dirty = sess[s].dirty
        BY <2>1, <3>1, CodexCases
      <4>2. QED
        BY <4>1, NoDocIsNoDoc DEF Unshared
    <3>2. CASE WriteBack(s) \/ End(s)
      BY <2>1, <3>2, CodexCases
    <3>3. QED
      BY <1>6, <3>1, <3>2
  <2>3. ASSUME NEW r \in Sessions \ {s}, sess[r].dirty, sess'[r].dirty
        PROVE  Own(r)
    <3>1. sess[r].doc \in Doc /\ auth["live"] # sess[r].doc /\ sess[s].doc # sess[r].doc
      <4>1. HeldIn((Docs \union {NoSlot}) \ {sess[r].doc})
        BY <2>3 DEF Unshared
      <4>2. QED
        BY <2>3, <4>1, Holdings DEF Unshared
    <3>2. CASE Open(s)
      <4>1. /\ UNCHANGED auth /\ sess'[r].doc = sess[r].doc /\ sess'[r].dirty = sess[r].dirty
            /\ sess'[s].doc = auth["live"] /\ \A q \in Sessions \ {s} : sess'[q].doc = sess[q].doc
            /\ sess' = [sess EXCEPT ![s] = [sess[s] EXCEPT !.doc = auth["live"]]]
        BY <2>1, <2>3, <3>2, CodexCases, Zenon DEF Open
      <4>2. sess'[r] = sess[r]
        BY <1>2, <2>3, <4>1
      <4>3. QED
        BY <2>1, <2>3, <3>1, <4>1, <4>2, UnsharedNext
    <3>3. CASE WriteBack(s)
      <4>1. /\ Replaced(sess[s].doc) /\ \A q \in Sessions : sess'[q].doc = sess[q].doc
            /\ sess' = [sess EXCEPT ![s] = [sess[s] EXCEPT !.dirty = FALSE]]
        BY <2>1, <3>3, CodexCases, Zenon DEF WriteBack
      <4>2. sess'[r] = sess[r] /\ sess[s].doc \in Docs \ {sess[r].doc}
        BY <1>2, <2>3, <3>1, <4>1
      <4>3. QED
        BY <2>1, <2>3, <4>1, <4>2, UnsharedNext
    <3>4. CASE End(s)
      <4>1. /\ UNCHANGED auth /\ sess'[s].doc = NoDoc /\ \A q \in Sessions \ {s} : sess'[q] = sess[q]
        BY <2>1, <3>4, CodexCases
      <4>2. NoDoc # sess[r].doc
        BY <3>1, NoDocIsNoDoc
      <4>3. QED
        BY <2>1, <2>3, <4>1, <4>2, UnsharedNext
    <3>5. QED
      BY <1>6, <3>2, <3>3, <3>4
  <2>4. \A r \in Sessions \ {s} : sess'[r].dirty = sess[r].dirty
    BY <1>6, <2>1, CodexCases
  <2>5. QED
    BY <2>2, <2>3, <2>4
<1>7. QED
  BY <1>3, <1>4, <1>5, <1>6, StepCases DEF Besides

-----------------------------------------------------------------------------
(***************************************************************************)
(* What is dead stays dead, and what is renewed dies.                      *)
(***************************************************************************)

\* IsDead after a step, of a document that the step does not change.
DeadNext(d) == d = NoDoc \/ (d.acct \notin Keys /\ d.gen \notin unspent'[d.acct])

\* A spent document is never issued again.
LEMMA DeadStaysDead ==
  ASSUME ServerTypeOK, AllIssued,
         UNCHANGED service \/ (\E a \in Accounts : SignInAs(a)) \/ (\E d \in Docs : Rotate(d)),
         NEW d \in Issued, IsDead(d)
  PROVE  DeadNext(d)
<1>1. CASE d = NoDoc
  BY <1>1 DEF DeadNext
<1>2. CASE d # NoDoc
  <2>1. d.acct \notin Keys /\ d.gen \notin unspent[d.acct]
    BY <1>2 DEF IsDead, Working
  <2>2. \A e \in Issued : e # NoDoc /\ e.acct \notin Keys /\ e.gen \notin unspent[e.acct] =>
          e.gen \notin unspent'[e.acct]
    BY ServiceMoves DEF AllIssued
  <2>3. QED
    BY <1>2, <2>1, <2>2 DEF DeadNext
<1>3. QED
  BY <1>1, <1>2

LEMMA RenewedDies ==
  ASSUME ServerTypeOK, NEW d \in Issued, Rotate(d)
  PROVE  DeadNext(d)
<1>1. /\ d \in Docs /\ d.acct \in Accounts /\ d.acct \notin Keys /\ d # NoDoc
      /\ d.gen \in Nat /\ d.gen <= issued[d.acct] /\ issued[d.acct] \in Nat
  BY RotateTypes, CodexTableAssumption DEF Issued, Rotate, Renewable, Working, Docs, Doc, Gens,
                                           ServerTypeOK
<1>2. unspent'[d.acct] = (unspent[d.acct] \ {d.gen}) \union {issued[d.acct] + 1}
  BY <1>1 DEF Rotate, ServerTypeOK
<1>3. QED
  BY <1>1, <1>2 DEF DeadNext

\* The service moves as it can, whoever moves it.
LEMMA NextServes ==
  ASSUME Filing, Next
  PROVE  UNCHANGED service \/ (\E a \in Accounts : SignInAs(a)) \/ (\E d \in Docs : Rotate(d))
<1>1. CASE ServerStep /\ ServerRenews
  <2>1. proc.doc \in Docs /\ Rotate(proc.doc)
    BY <1>1, Types, NoDocIsNoDoc DEF ServerRenews, ServerTypeOK, Proc, NoProc
  <2>2. QED
    BY <2>1
<1>2. ASSUME NEW s \in Sessions, Renew(s)
      PROVE  sess[s].doc \in Docs /\ Rotate(sess[s].doc)
  BY <1>2 DEF Renew, Filing, TypeOK
<1>3. CASE Besides
  BY <1>3 DEF Besides, Open, WriteBack, End, Logout
<1>4. QED
  BY <1>1, <1>2, <1>3, StepCases, PassingHolds DEF SignsIn

\* Only Visit starts a call for a slot.
LEMMA CallsBegin ==
  ASSUME Filing, Next, pc' = "call"
  PROVE  \/ Visit
         \/ /\ ClientStep \/ ServerStep \/ Codex
            /\ UNCHANGED <<pc, doc, parked, tgt>>
<1>1. CASE Sync \/ SyncSave \/ Adopt \/ LoginPreserve \/ LoginSave \/ LoginRegister \/ Crash
           \/ CodexLogin \/ \E c \in Commands, n \in SlotIds \union {0} : Begin(c, n)
  BY <1>1 DEF Sync, SyncSave, Adopt, LoginPreserve, LoginSave, LoginRegister, SaveAnd, RegisterLive,
              Quit, Exit, Crash, CodexLogin, Begin
<1>2. CASE Switch \/ Install \/ Verify \/ SwitchBack \/ Switched
  BY <1>2 DEF Switch, Install, Verify, SwitchBack, Switched, Quit, Exit
<1>3. CASE Plan \/ Refreshed \/ Limited \/ Mirror \/ Visited \/ Sweep
  BY <1>3 DEF Plan, Refreshed, Limited, Keep, NextSlot, Mirror, Visited, Sweep, Quit, Exit
<1>4. CASE List \/ RemoveSlot \/ Confirmed \/ Label \/ Save
  BY <1>4 DEF List, RemoveSlot, Removed, Confirmed, Label, Save, Quit, Exit
<1>5. CASE ClientStep \/ ServerStep
  BY <1>5 DEF ClientStep, ServerStep, Cas, locals
<1>6. CASE Codex
  BY <1>6, CodexCases DEF locals
<1>7. QED
  BY <1>1, <1>2, <1>3, <1>4, <1>5, <1>6 DEF Next, Step

LEMMA NextKeepsCopies ==
  ASSUME Filing, AllIssued, Copies, Next
  PROVE  Copies'
<1>1. SUFFICES ASSUME pc' = "call"
               PROVE  /\ doc' = parked'[tgt'] /\ (proc'.st = "up" => proc'.doc = doc')
                      /\ (auth'["temp"] = doc' /\ proc'.st # "renewed") \/ DeadNext(doc')
  BY DEF Copies, DeadNext, IsDead, Working
<1>2. CASE Visit
  <2> PICK n \in todo : VisitOf(n)
    BY <1>2, VisitsASlot
  <2>1. pc = "next" /\ n \in SlotIds /\ tgt' = n /\ UNCHANGED parked
    BY Types DEF VisitOf
  <2>2. PICK d \in Reads(parked[n]) :
          /\ d # NoDoc /\ auth' = [auth EXCEPT !["temp"] = d] /\ doc' = d
          /\ StartServer("temp", IF cmd = "limit" THEN "limits" ELSE "refresh", d)
    BY <1>1, <2>1 DEF VisitOf
  <2>3. d = parked[n] /\ auth'["temp"] = d
    BY <2>2, Types DEF Reads, Homes
  <2>4. proc'.doc = d \/ proc'.st = "none"
    BY <2>2 DEF StartServer, NoProc
  <2>5. proc'.st \in {"up", "none"}
    BY <2>2 DEF StartServer, NoProc
  <2>6. QED
    BY <2>1, <2>2, <2>3, <2>4, <2>5
<1>3. CASE (ClientStep \/ ServerStep \/ Codex) /\ UNCHANGED <<pc, doc, parked, tgt>>
  <2>1. /\ doc = parked[tgt] /\ (proc.st = "up" => proc.doc = doc)
        /\ (auth["temp"] = doc /\ proc.st # "renewed") \/ IsDead(doc)
    BY <1>1, <1>3 DEF Copies
  <2>2. IsDead(doc) => DeadNext(doc)
    BY <1>3, Types, Holders, NextServes, DeadStaysDead
  <2>3. CASE ClientStep
    <3>1. UNCHANGED auth /\ proc' = NoProc
      BY <2>3 DEF ClientStep, Client, Answered, Rejected, SeesNone, CallFails, ReadsAsRefusal, Return
    <3>2. QED
      BY <1>3, <2>1, <2>2, <3>1 DEF NoProc
  <2>4. CASE ServerStep
    <3>1. proc \in Proc
      <4>1. proc.st \in {"up", "renewed"}
        BY <2>4 DEF ServerStep, Server, ServerRenews, ServerStores, ServerKeeps
      <4>2. QED
        BY <4>1, Types DEF ServerTypeOK, NoProc
    <3>2. CASE ServerRenews
      <4>1. DeadNext(doc) /\ proc'.st = "renewed"
        BY <2>1, <3>1, <3>2, Types, Holders, RenewedDies DEF ServerRenews, Proc
      <4>2. QED
        BY <1>3, <2>1, <4>1
    <3>3. CASE ServerStores
      BY <1>3, <2>1, <2>2, <3>1, <3>3 DEF ServerStores, Proc
    <3>4. CASE ServerKeeps
      BY <1>3, <2>1, <2>2, <3>1, <3>4 DEF ServerKeeps, Proc
    <3>5. QED
      BY <2>4, <3>2, <3>3, <3>4 DEF ServerStep, Server
  <2>5. CASE Codex
    <3>1. UNCHANGED proc
      BY <2>5, CodexCases
    <3>2. auth'["temp"] = auth["temp"]
      BY <2>5, Types DEF Codex, Open, Renew, WriteBack, End, Logout, SignIn, Replaced, Homes
    <3>3. QED
      BY <1>3, <2>1, <2>2, <3>1, <3>2
  <2>6. QED
    BY <1>3, <2>3, <2>4, <2>5
<1>4. QED
  BY <1>1, <1>2, <1>3, CallsBegin

-----------------------------------------------------------------------------
(***************************************************************************)
(* The tag of a slot says what is parked there, wherever it matters.       *)
(***************************************************************************)

\* MayBeLive and TagFits after a step, of a document that the step does not change.
LiveNext(d) ==
  \/ d = auth'["live"]
  \/ \E s \in Sessions : sess'[s].dirty /\ d = sess'[s].doc
  \/ proc'.st = "renewed" /\ d = proc'.doc
  \/ pc' \in {"install", "mirror"} /\ d = doc'
  \/ pc' \in {"install", "start", "verify"} /\ d = prev'

FitsNext(n, tag) == parked'[n] \in {tag, NoDoc} \/ ~LiveNext(tag) \/ DeadNext(tag)

\* d is what slot n was filled from, in memory or on disk.
Tagged(n, d) ==
  \/ n \in Registered(mem) /\ d = mem.slots[n]
  \/ n \in Registered(disk) /\ d = disk.slots[n]

LEMMA TagFacts ==
  ASSUME Filing, AllIssued, Tags, NEW n, NEW d, Tagged(n, d)
  PROVE  /\ n \in SlotIds /\ d \in Doc /\ d \in Issued /\ TagFits(n, d)
         /\ parked[n] # NoDoc => parked[n].acct = d.acct
         /\ d.acct \in Keys => parked[n] \in {d, NoDoc}
<1>1. /\ n \in SlotIds /\ d \in Doc /\ d \in Issued /\ TagFits(n, d)
      /\ parked[n] # NoDoc => parked[n].acct = d.acct
  BY Types, RegisteredIsDoc, Holders DEF Tagged, Tags, TagsFit, Filing, Memory, SlotsHoldTheirAccount
<1>2. ASSUME d.acct \in Keys, parked[n] # NoDoc
      PROVE  parked[n] = d
  <2>1. parked[n] \in Doc /\ parked[n] \in Issued /\ parked[n].acct = d.acct
    BY <1>1, <1>2, Types, Holders DEF Docs
  <2>2. d # NoDoc
    BY <1>1, NoDocIsNoDoc
  <2>3. d.gen <= issued[d.acct] /\ parked[n].gen <= issued[d.acct] /\ issued[d.acct] <= 1
    BY <1>1, <1>2, <2>1, <2>2 DEF Issued, AllIssued
  <2>4. d.gen \in 1..MaxGen /\ parked[n].gen \in 1..MaxGen /\ issued[d.acct] \in Nat
    BY <1>1, <2>1, Types, CodexTableAssumption DEF Doc, Gens, ServerTypeOK
  <2>5. d.gen = parked[n].gen
    BY <2>3, <2>4, CodexTableAssumption
  <2>6. QED
    BY <1>1, <2>1, <2>5 DEF Doc
<1>3. QED
  BY <1>1, <1>2

\* A step that moves tags, and writes no slot but to empty it.
LEMMA QuietTags ==
  ASSUME Filing, AllIssued, Tags, Next,
         \A n \in SlotIds : parked'[n] \in {parked[n], NoDoc},
         \A n \in Registered(mem') : Tagged(n, mem'.slots[n]),
         \A n \in Registered(disk') : Tagged(n, disk'.slots[n]),
         \A n, d : Tagged(n, d) /\ LiveNext(d) => MayBeLive(d) \/ parked[n] \in {d, NoDoc}
  PROVE  TagsFit(mem)' /\ TagsFit(disk)'
<1>1. ASSUME NEW n, NEW d, Tagged(n, d)
      PROVE  FitsNext(n, d)
  <2>1. /\ n \in SlotIds /\ d \in Issued /\ TagFits(n, d)
        /\ parked'[n] \in {parked[n], NoDoc}
    BY <1>1, TagFacts
  <2>2. IsDead(d) => DeadNext(d)
    BY <2>1, Types, NextServes, DeadStaysDead
  <2>3. QED
    BY <1>1, <2>1, <2>2 DEF FitsNext, TagFits
<1>2. /\ \A n \in Registered(mem') : FitsNext(n, mem'.slots[n])
      /\ \A n \in Registered(disk') : FitsNext(n, disk'.slots[n])
  BY <1>1
<1>3. QED
  BY <1>2 DEF TagsFit, TagFits, FitsNext, LiveNext, MayBeLive, DeadNext, IsDead, Working, Registered

\* A step that writes slot n: the tag in memory says so, and the one on disk is not
\* seen live again unless it does, too.
LEMMA WriteTags ==
  ASSUME Filing, AllIssued, Tags, UNCHANGED <<service, disk>>, pc \notin {"idle", "sweep", "save"},
         NEW n \in SlotIds, NEW d \in Doc, Fits(n, d), Written(n, d),
         mem' \in {Apply(mem, n, d), Activate(Apply(mem, n, d), n)},
         \A e \in Doc : LiveNext(e) => MayBeLive(e) \/ e = d,
         n \in Registered(disk) => FitsNext(n, disk.slots[n])
  PROVE  TagsFit(mem)' /\ TagsFit(disk)'
<1>1. /\ Registered(mem') = Registered(mem) \union {n}
      /\ \A m \in SlotIds : mem'.slots[m] = IF m = n THEN d ELSE mem.slots[m]
      /\ \A m \in SlotIds : parked'[m] = IF m = n THEN d ELSE parked[m]
  BY Types, Applied DEF Written
<1>2. ASSUME NEW m, NEW e, Tagged(m, e), m # n
      PROVE  FitsNext(m, e)
  <2>1. m \in SlotIds /\ e \in Doc /\ e \in Issued /\ TagFits(m, e)
    BY <1>2, TagFacts
  <2>2. m \in Registered(mem) /\ e.acct = mem.slots[m].acct
    BY <1>2 DEF Tagged, Filing, Memory
  <2>3. OnePerAccount(mem)
    BY DEF Filing, Memory
  <2>4. e # d
    BY <1>2, <2>2, <2>3 DEF Fits, OnePerAccount
  <2>5. LiveNext(e) => MayBeLive(e)
    BY <2>1, <2>4
  <2>6. IsDead(e) => DeadNext(e)
    BY <2>1, Types, DeadStaysDead
  <2>7. QED
    BY <1>1, <1>2, <2>1, <2>5, <2>6 DEF FitsNext, TagFits
<1>3. FitsNext(n, mem'.slots[n])
  BY <1>1 DEF FitsNext
<1>4. \A m \in Registered(mem') : FitsNext(m, mem'.slots[m])
  BY <1>1, <1>2, <1>3 DEF Tagged, Registered
<1>5. \A m \in Registered(disk') : FitsNext(m, disk'.slots[m])
  BY <1>2 DEF Tagged, Registered
<1>6. QED
  BY <1>4, <1>5 DEF TagsFit, TagFits, FitsNext, LiveNext, MayBeLive, DeadNext, IsDead, Working,
                    Registered

-----------------------------------------------------------------------------
(***************************************************************************)
(* clean judges no slot that lives.                                        *)
(***************************************************************************)

\* A step of anybody but the command that judges.
LEMMA BesideKeepsVerdicts ==
  ASSUME Filing, AllIssued, Verdicts,
         UNCHANGED service \/ (\E a \in Accounts : SignInAs(a)) \/ (\E d \in Docs : Rotate(d)),
         UNCHANGED <<parked, pc, cmd, locals, weather, answer>>,
         proc'.st = "up" => proc' = proc
  PROVE  Verdicts'
<1>1. /\ UNCHANGED <<tgt, todo, dead, doc>> /\ dead \subseteq SlotIds /\ doc \in Issued
      /\ \A n \in dead : parked[n] \in Issued
  BY Types, Holders DEF locals
<1>2. todo' \intersect dead' = {} /\ (pc' \in {"call", "mirror"} => tgt' \notin todo' \union dead')
  BY <1>1 DEF Verdicts
<1>3. ASSUME Telling
      PROVE  /\ \A n \in dead' : IsDead(parked[n])'
             /\ pc' = "call" => answer'.kind \notin {"unauthorized", "missing"}
             /\ pc' = "call" /\ cmd' = "clean" =>
                  /\ doc' = parked'[tgt'] /\ doc'.acct \notin Keys
                  /\ proc'.st = "up" => proc'.doc = doc'
                  /\ answer'.kind = "rejected" => IsDead(doc)'
  <2>1. \A d \in Issued : IsDead(d) => DeadNext(d)
    BY Types, DeadStaysDead
  <2>2. \A n \in dead : IsDead(parked[n])
    BY <1>3 DEF Verdicts
  <2>3. \A n \in dead' : IsDead(parked[n])'
    BY <1>1, <2>1, <2>2 DEF DeadNext, IsDead, Working
  <2>4. pc = "call" /\ cmd = "clean" =>
          /\ doc = parked[tgt] /\ doc.acct \notin Keys
          /\ proc.st = "up" => proc.doc = doc
          /\ answer.kind = "rejected" => IsDead(doc)
    BY <1>3 DEF Verdicts
  <2>5. IsDead(doc) => IsDead(doc)'
    BY <1>1, <2>1 DEF DeadNext, IsDead, Working
  <2>6. pc' = "call" => answer'.kind \notin {"unauthorized", "missing"}
    BY <1>3 DEF Verdicts
  <2>7. QED
    BY <1>1, <2>3, <2>4, <2>5, <2>6
<1>4. QED
  BY <1>2, <1>3 DEF Verdicts, Telling

\* A command that judges nothing, before it begins and after it ends.
LEMMA AwayKeepsVerdicts ==
  ASSUME dead' = {}, pc' \notin {"call", "mirror"}
  PROVE  Verdicts'
BY DEF Verdicts

LEMMA EndsKeepVerdicts ==
  ASSUME Quit \/ Crash \/ Save \/ SwitchBack
  PROVE  Verdicts'
<1>1. dead' = {} /\ pc' = "idle"
  BY DEF Quit, Crash, Save, SwitchBack, Exit
<1>2. QED
  BY <1>1, AwayKeepsVerdicts

LEMMA CommandsKeepVerdicts ==
  ASSUME Filing, Verdicts,
         \/ \E c \in Commands, n \in SlotIds \union {0} : Begin(c, n)
         \/ Sync \/ SyncSave \/ Adopt \/ LoginPreserve \/ LoginSave \/ LoginRegister \/ CodexLogin
         \/ Switch \/ Install \/ Verify \/ Switched \/ Plan
         \/ List \/ RemoveSlot \/ Label
  PROVE  Verdicts'
<1>1. CASE Quit
  BY <1>1, EndsKeepVerdicts
<1>2. CASE ~Quit
  <2>1. pc \notin {"next", "call", "mirror", "sweep", "save"}
    BY DEF Begin, Sync, SyncSave, Adopt, LoginPreserve, LoginSave, LoginRegister, CodexLogin,
           Switch, Install, Verify, Switched, Plan, List, RemoveSlot, Removed, Label
  <2>2. dead = {}
    BY <2>1 DEF Begin, Sync, SyncSave, Adopt, LoginPreserve, LoginSave, LoginRegister, CodexLogin,
               Switch, Install, Verify, Switched, Plan, List, RemoveSlot, Label, Filing, Targets
  <2>3. UNCHANGED dead /\ pc' \notin {"call", "mirror"}
    <3>1. CASE \/ \E c \in Commands, n \in SlotIds \union {0} : Begin(c, n)
               \/ Sync \/ SyncSave \/ Adopt \/ LoginPreserve
      BY <1>2, <3>1 DEF Begin, Sync, SyncSave, SaveAnd, Adopt, RegisterLive, LoginPreserve,
                        outer, locals
    <3>2. CASE LoginSave \/ LoginRegister \/ CodexLogin \/ Switch \/ Install
      BY <1>2, <3>2 DEF LoginSave, SaveAnd, RegisterLive, LoginRegister, CodexLogin, Switch, Install,
                        outer, locals
    <3>3. CASE Verify \/ Switched \/ Plan \/ List \/ RemoveSlot \/ Label
      BY <1>2, <3>3 DEF Verify, Switched, Plan, List, RemoveSlot, Removed, Label, outer, locals
    <3>4. QED
      BY <3>1, <3>2, <3>3
  <2>4. QED
    BY <2>2, <2>3, AwayKeepsVerdicts
<1>3. QED
  BY <1>1, <1>2

\* clean finds a slot dead that is empty, and then no more than that; a slot it
\* is going to judge by an app-server's answer is the one it has copied.
LEMMA VisitKeepsVerdicts ==
  ASSUME Filing, Verdicts, Visit
  PROVE  Verdicts'
<1> PICK n \in todo : VisitOf(n)
  BY VisitsASlot
<1>1. /\ n \in todo /\ todo' = todo \ {n} /\ tgt' = n /\ pc = "next"
      /\ UNCHANGED <<service, weather, parked, cmd>>
  BY Types DEF VisitOf, outer
<1>2. todo \intersect dead = {}
  BY DEF Verdicts
<1>3. ASSUME NEW d \in Reads(parked[n]),
             dead' = IF d = NoDoc /\ cmd = "clean" THEN dead \union {n} ELSE dead,
             UNCHANGED <<pc, answer>>
      PROVE  Verdicts'
  <2>1. todo' \intersect dead' = {} /\ pc' \notin {"call", "mirror"}
    BY <1>1, <1>2, <1>3
  <2>2. ASSUME Telling
        PROVE  \A m \in dead' : IsDead(parked[m])'
    <3>1. d = parked[n]
      BY <1>3, <2>2 DEF Reads, Telling
    <3>2. \A m \in dead : IsDead(parked[m])
      BY <2>2 DEF Verdicts
    <3>3. \A m \in dead' : IsDead(parked[m])
      BY <1>3, <3>1, <3>2 DEF IsDead
    <3>4. QED
      BY <1>1, <1>3, <3>2, <3>3 DEF IsDead, Working, service
  <2>3. QED
    BY <1>1, <2>1, <2>2 DEF Verdicts, Telling
<1>4. ASSUME NEW d \in Reads(parked[n]), MayCall(d), doc' = d, pc' = "call", UNCHANGED dead,
             StartServer("temp", IF cmd = "limit" THEN "limits" ELSE "refresh", d)
      PROVE  Verdicts'
  <2>1. todo' \intersect dead' = {} /\ tgt' \notin todo' \union dead'
    BY <1>1, <1>2, <1>4
  <2>2. ASSUME Telling
        PROVE  /\ \A m \in dead' : IsDead(parked[m])'
               /\ answer'.kind \notin {"unauthorized", "missing"}
               /\ cmd' = "clean" => /\ doc' = parked'[tgt'] /\ doc'.acct \notin Keys
                                    /\ proc'.st = "up" => proc'.doc = doc'
                                    /\ answer'.kind = "rejected" => IsDead(doc)'
    <3>1. d = parked[n] /\ (cmd = "clean" => d.acct \notin Keys)
      BY <1>4, <2>2 DEF Reads, MayCall, Telling
    <3>2. answer'.kind = "none" /\ proc'.doc = d
      BY <1>4, <2>2 DEF StartServer, NoAnswer, Failure, Telling
    <3>3. \A m \in dead : IsDead(parked[m])
      BY <2>2 DEF Verdicts
    <3>4. \A m \in dead' : IsDead(parked[m])'
      BY <1>1, <1>4, <3>3 DEF IsDead, Working, service
    <3>5. QED
      BY <1>1, <1>4, <3>1, <3>2, <3>4
  <2>3. QED
    BY <1>1, <1>4, <2>1, <2>2 DEF Verdicts, Telling
<1>5. QED
  BY <1>3, <1>4 DEF VisitOf

\* The verdict is the token service's, on the slot's own document.
LEMMA CallsKeepVerdicts ==
  ASSUME Filing, Verdicts, Refreshed \/ Limited \/ Mirror
  PROVE  Verdicts'
<1>1. /\ pc \in {"call", "mirror"} /\ pc' \in {"next", "mirror"} /\ answer' = NoAnswer
      /\ UNCHANGED <<service, weather, cmd, tgt, todo>>
  BY DEF Refreshed, Limited, Mirror, Keep, NextSlot, outer
<1>2. todo \intersect dead = {} /\ tgt \notin todo \union dead
  BY <1>1 DEF Verdicts
<1>3. \/ dead' = dead
      \/ /\ pc = "call" /\ cmd = "clean" /\ Definite /\ dead' = dead \union {tgt}
         /\ pc' = "next" /\ UNCHANGED parked
  BY DEF Refreshed, Limited, Mirror, NextSlot
<1>4. \A m \in dead : parked'[m] = parked[m]
  <2>1. PICK d : parked' = parked \/ parked' = [parked EXCEPT ![tgt] = d]
    BY DEF Refreshed, Limited, Mirror, Keep, Written, NotWritten
  <2>2. QED
    BY <1>2, <2>1, Types
<1>5. todo' \intersect dead' = {} /\ (pc' \in {"call", "mirror"} => tgt' \notin todo' \union dead')
  BY <1>1, <1>2, <1>3
<1>6. ASSUME Telling
      PROVE  \A m \in dead' : IsDead(parked[m])'
  <2>1. \A m \in dead : IsDead(parked[m])
    BY <1>6 DEF Verdicts
  <2>2. \A m \in dead : IsDead(parked[m])'
    BY <1>1, <1>4, <2>1 DEF IsDead, Working, service
  <2>3. ASSUME pc = "call", cmd = "clean", Definite, UNCHANGED parked
        PROVE  IsDead(parked[tgt])'
    <3>1. answer.kind \notin {"unauthorized", "missing"}
      BY <1>6, <2>3 DEF Verdicts
    <3>2. doc = parked[tgt] /\ (answer.kind = "rejected" => IsDead(doc))
      BY <1>6, <2>3 DEF Verdicts
    <3>3. IsDead(parked[tgt])
      BY <2>3, <3>1, <3>2 DEF Definite
    <3>4. QED
      BY <1>1, <2>3, <3>3 DEF IsDead, Working, service
  <2>4. QED
    BY <1>1, <1>3, <2>2, <2>3
<1>7. pc' # "call"
  BY <1>1
<1>8. QED
  BY <1>1, <1>5, <1>6, <1>7 DEF Verdicts, Telling

\* What is found dead is removed, one slot after the other.
LEMMA SweepKeepsVerdicts ==
  ASSUME Filing, Verdicts, Visited \/ Sweep \/ (Confirmed /\ ~Quit)
  PROVE  Verdicts'
<1> DEFINE n == Lowest(dead)
<1>1. /\ pc' \in {"save", "ask", "sweep"} /\ UNCHANGED <<service, weather, answer, todo>>
      /\ dead' \subseteq dead /\ (\A m \in dead' : parked'[m] = parked[m])
  <2>1. CASE Visited \/ Sweep
    BY <2>1, Types DEF Visited, Sweep, Deleted, serverVars, outer, locals
  <2>2. CASE Confirmed /\ ~Quit
    <3>1. cmd = "remove" => dead = {}
      BY DEF Filing, Targets
    <3>2. QED
      BY <2>2, <3>1 DEF Confirmed, Removed, serverVars, outer, locals
  <2>3. QED
    BY <2>1, <2>2
<1>2. todo' \intersect dead' = {}
  BY <1>1 DEF Verdicts
<1>3. ASSUME Telling
      PROVE  \A m \in dead' : IsDead(parked[m])'
  <2>1. \A m \in dead : IsDead(parked[m])
    BY <1>3 DEF Verdicts
  <2>2. QED
    BY <1>1, <2>1 DEF IsDead, Working, service
<1>4. QED
  BY <1>1, <1>2, <1>3 DEF Verdicts, Telling

\* The call ends: a rejection says that the slot's document is spent.
LEMMA ClientKeepsVerdicts ==
  ASSUME Filing, Verdicts, ClientStep
  PROVE  Verdicts'
<1>1. /\ UNCHANGED <<service, weather, parked, pc, cmd, tgt, doc, todo, dead>> /\ proc' = NoProc
  BY DEF ClientStep, Client, Answered, Rejected, SeesNone, CallFails, ReadsAsRefusal, Return,
         Cas, outer, locals
<1>2. /\ answer'.kind # "missing" /\ (Telling => answer'.kind # "unauthorized")
      /\ answer'.kind = "rejected" => proc.st = "up" /\ ~Working(proc.doc)
  BY DEF ClientStep, Client, Answered, Rejected, SeesNone, CallFails, ReadsAsRefusal, Return,
         Named, Failure, Telling
<1>3. todo' \intersect dead' = {} /\ (pc' \in {"call", "mirror"} => tgt' \notin todo' \union dead')
  BY <1>1 DEF Verdicts
<1>4. ASSUME Telling
      PROVE  /\ \A m \in dead' : IsDead(parked[m])'
             /\ pc' = "call" /\ cmd' = "clean" =>
                  /\ doc' = parked'[tgt'] /\ doc'.acct \notin Keys
                  /\ proc'.st = "up" => proc'.doc = doc'
                  /\ answer'.kind = "rejected" => IsDead(doc)'
  <2>1. \A m \in dead : IsDead(parked[m])
    BY <1>4 DEF Verdicts
  <2>2. \A m \in dead' : IsDead(parked[m])'
    BY <1>1, <2>1 DEF IsDead, Working, service
  <2>3. proc'.st # "up"
    BY <1>1 DEF NoProc
  <2>4. ASSUME pc = "call", cmd = "clean"
        PROVE  /\ doc = parked[tgt] /\ doc.acct \notin Keys
               /\ proc.st = "up" => proc.doc = doc
    BY <1>4, <2>4 DEF Verdicts
  <2>5. ASSUME pc = "call", cmd = "clean", answer'.kind = "rejected"
        PROVE  IsDead(doc)'
    BY <1>1, <1>2, <2>4, <2>5 DEF IsDead, Working, service
  <2>6. QED
    BY <1>1, <2>2, <2>3, <2>4, <2>5
<1>5. QED
  BY <1>1, <1>2, <1>3, <1>4 DEF Verdicts, Telling

\* The verdicts of the service stay true (Verdicts) when every action does so.
LEMMA NextKeepsVerdicts ==
  ASSUME Filing, AllIssued, Verdicts, Next
  PROVE  Verdicts'
<1>1. CASE ServerStep \/ Codex
  <2>1. UNCHANGED <<parked, pc, cmd, locals, weather, answer>>
    BY <1>1 DEF ServerStep, Server, ServerRenews, ServerStores, ServerKeeps, Cas, outer,
                Codex, Open, Renew, WriteBack, End, Logout, SignIn, Others
  <2>2. proc'.st = "up" => proc' = proc
    <3>1. CASE ServerStep
      <4>1. proc.st \in {"up", "renewed"}
        BY <3>1 DEF ServerStep, Server, ServerRenews, ServerStores, ServerKeeps
      <4>2. proc \in Proc
        BY <4>1, Types DEF ServerTypeOK, NoProc
      <4>3. QED
        BY <3>1, <4>2 DEF ServerStep, Server, ServerRenews, ServerStores, ServerKeeps, Proc
    <3>2. CASE Codex
      BY <3>2, CodexCases
    <3>3. QED
      BY <1>1, <3>1, <3>2
  <2>3. QED
    BY <2>1, <2>2, NextServes, BesideKeepsVerdicts
<1>2. CASE Step
  BY <1>2, EndsKeepVerdicts, CommandsKeepVerdicts, VisitKeepsVerdicts, CallsKeepVerdicts,
     SweepKeepsVerdicts DEF Step
<1>3. QED
  BY <1>1, <1>2, SweepKeepsVerdicts, EndsKeepVerdicts, CommandsKeepVerdicts,
     ClientKeepsVerdicts DEF Next

\* A step after which nothing may be live that might not be before.
Steady ==
  /\ UNCHANGED <<sess, weather>>
  /\ \/ auth'["live"] = auth["live"]
     \/ pc \in {"install", "mirror"} /\ auth'["live"] = doc
     \/ pc = "verify" /\ auth'["live"] = prev
     \/ proc.st = "renewed" /\ auth'["live"] = proc.doc
  /\ proc' = proc \/ proc'.st # "renewed"
  /\ pc' \notin {"install", "mirror"}
  /\ pc' \in {"start", "verify"} => UNCHANGED prev /\ pc \in {"install", "start", "verify"}

LEMMA SteadyLives ==
  ASSUME Steady, NEW d, LiveNext(d)
  PROVE  MayBeLive(d)
BY DEF Steady, LiveNext, MayBeLive

\* Every step of cas is one, but those that have something to install.
LEMMA PassingIsSteady ==
  ASSUME Filing, Passing
  PROVE  Steady \/ (Switch /\ pc' = "install") \/ ((Refreshed \/ Limited) /\ pc' = "mirror")
<1>1. UNCHANGED <<sess, weather>> /\ auth \in [Homes -> Docs]
  BY PassingHolds, Types
<1>2. CASE ClientStep \/ (ServerStep /\ ~ServerRenews)
  <2>1. UNCHANGED <<pc, prev>> /\ proc # NoProc
    BY <1>2 DEF ClientStep, Client, Answered, Rejected, SeesNone, CallFails, ReadsAsRefusal,
                ServerStep, Server, ServerStores,
                ServerKeeps, Cas, locals, NoProc
  <2>2. pc \in {"verify", "call"}
    BY <2>1, Types
  <2>3. proc' = proc \/ proc'.st # "renewed"
    <3>1. CASE ClientStep
      BY <3>1 DEF ClientStep, Client, Answered, Rejected, SeesNone, CallFails, ReadsAsRefusal,
                  Return, NoProc
    <3>2. CASE ServerStores \/ ServerKeeps
      BY <2>1, <3>2, Types DEF ServerStores, ServerKeeps, ServerTypeOK, Proc
    <3>3. QED
      BY <1>2, <3>1, <3>2 DEF ServerStep, Server
  <2>4. auth'["live"] = auth["live"] \/ (proc.st = "renewed" /\ auth'["live"] = proc.doc)
    BY <1>1, <1>2 DEF ClientStep, Client, Answered, Rejected, SeesNone, CallFails,
                      ReadsAsRefusal, Return, ServerStep, Server,
                ServerStores, ServerKeeps, Homes
  <2>5. QED
    BY <1>1, <2>1, <2>2, <2>3, <2>4 DEF Steady
<1>3. CASE Quit \/ Crash
  BY <1>1, <1>3 DEF Quit, Crash, Exit, Steady, NoProc, Homes
<1>4. CASE ~Quit /\ \/ \E c \in Commands, n \in SlotIds \union {0} : Begin(c, n)
                    \/ Sync \/ SyncSave \/ Adopt \/ LoginPreserve \/ LoginSave \/ LoginRegister
  BY <1>1, <1>4 DEF Begin, Sync, SyncSave, Adopt, LoginPreserve, LoginSave, LoginRegister, SaveAnd,
       RegisterLive, serverVars, Steady
<1>5. CASE ~Quit /\ (Switch \/ Install \/ Verify \/ SwitchBack \/ Switched)
  <2>1. CASE Switch
    BY <1>5, <2>1 DEF Switch
  <2>2. CASE Install
    BY <1>1, <1>5, <2>2 DEF Install, Replaced, Homes, locals, Steady
  <2>3. CASE Verify
    BY <1>1, <2>3 DEF Verify, StartServer, locals, Steady
  <2>4. CASE SwitchBack
    BY <1>1, <2>4 DEF SwitchBack, Exit, Replaced, Homes, Steady
  <2>5. CASE Switched
    BY <1>1, <2>5 DEF Switched, Steady
  <2>6. QED
    BY <1>5, <2>1, <2>2, <2>3, <2>4, <2>5
<1>6. CASE ~Quit /\ (Plan \/ Visit \/ Refreshed \/ Limited \/ Mirror \/ Visited \/ Sweep)
  <2>1. CASE Plan \/ Visited \/ Sweep
    BY <1>1, <1>6, <2>1 DEF Plan, Visited, Sweep, serverVars, Steady
  <2>2. CASE Visit
    BY <1>1, <2>2 DEF Visit, StartServer, Homes, Steady
  <2>3. CASE Refreshed \/ Limited
    BY <1>1, <2>3 DEF Refreshed, Limited, Keep, NextSlot, Homes, Steady
  <2>4. CASE Mirror
    BY <1>1, <2>4 DEF Mirror, Homes, Steady
  <2>5. QED
    BY <1>6, <2>1, <2>2, <2>3, <2>4
<1>7. CASE ~Quit /\ (List \/ RemoveSlot \/ Confirmed \/ Label \/ Save)
  BY <1>1, <1>7 DEF List, RemoveSlot, Removed, Confirmed, Label, Save, Exit, serverVars, Steady
<1>8. CASE CodexLogin /\ UNCHANGED <<serverVars, outer, parked, disk, cmd, locals>>
  BY <1>1, <1>8 DEF CodexLogin, Quit, Exit, serverVars, locals, Steady
<1>9. QED
  BY <1>2, <1>3, <1>4, <1>5, <1>6, <1>7, <1>8 DEF Passing, Step

\* What a step of cas does to the slots: nothing, if only the tables move; it
\* takes one out; or it fills one.
Moves ==
  /\ UNCHANGED parked /\ disk' \in {disk, mem}
  /\ mem'.slots \in {mem.slots, EmptyTable.slots} \/ (mem' = disk /\ disk' = disk /\ pc = "idle")
  /\ pc \in {"sweep", "save"} =>
       pc' \in {"sweep", "save"} \/ disk' = mem \/ weather \intersect {"crash", "save"} # {}
  /\ pc \in {"loginSave", "save"} => UNCHANGED pc \/ disk' = mem \/ mem' = EmptyTable

TakesOut(n) ==
  /\ Deleted(n) /\ mem' = Remove(mem, n) /\ UNCHANGED disk
  /\ pc \in {"act", "ask", "sweep"} /\ pc' \in {"sweep", "save"}

Fills(n, d) ==
  /\ Fits(n, d) /\ Written(n, d) /\ mem' \in {Apply(mem, n, d), Activate(Apply(mem, n, d), n)}
  /\ UNCHANGED <<service, disk, sess>> /\ pc \notin {"idle", "loginSave", "sweep", "save"}
  /\ proc' = NoProc /\ auth'["live"] = auth["live"]
  /\ n \in Registered(mem) \/ pc' \in {"loginSave", "save"}
  /\ \/ d = auth["live"] /\ pc' \notin {"install", "start", "verify", "mirror"}
     \/ /\ pc = "call" /\ n = tgt /\ d = auth["temp"]
        /\ pc' = "next" \/ (pc' = "mirror" /\ doc' = d)

\* What fills a slot is live, or what an app-server left for the slot.
LEMMA RegisterFills ==
  ASSUME Filing, NEW live \in Doc, live = auth["live"], NEW then \in {"save", "loginSave"},
         RegisterLive(live, then), ~Quit, pc \in {"act", "loginRegister"}
  PROVE  \E n \in SlotIds, d \in Doc : Fills(n, d)
<1>1. PICK n \in SlotIds :
        /\ n = (IF FindByIdentity(mem, live) # 0 THEN FindByIdentity(mem, live) ELSE FreeNumber(mem))
        /\ Written(n, live) /\ mem' = Activate(Apply(mem, n, live), n)
        /\ pc' = then /\ UNCHANGED <<serverVars, outer, disk, cmd, tgt, doc, prev, todo, dead>>
  BY RegisterCases
<1>2. n # 0
  BY CodexTableAssumption DEF SlotIds
<1>3. Fits(n, live)
  BY <1>1, <1>2, Types, FindFindsOwnSlot, FreeNumberIsFree DEF Fits, Registered
<1>4. proc' = NoProc
  BY <1>1, Types DEF serverVars
<1>5. Fills(n, live)
  BY <1>1, <1>3, <1>4 DEF Fills, serverVars, outer
<1>6. QED
  BY <1>5

LEMMA SyncMoves ==
  ASSUME Filing, Sync
  PROVE  Moves \/ \E n \in SlotIds, d \in Doc : Fills(n, d)
<1>1. /\ UNCHANGED <<serverVars, outer, disk>> /\ pc = "sync" /\ pc' \in {"syncSave", "act"}
      /\ proc = NoProc
  BY SyncCases
<1>2. CASE UNCHANGED parked /\ mem' \in {mem, Activate(mem, 0)}
  <2>1. mem'.slots = mem.slots
    BY <1>2, Types, ActivateKeepsSlots
  <2>2. QED
    BY <1>1, <1>2, <2>1 DEF Moves
<1>3. ASSUME NEW n \in SlotIds, n = Followed(auth["live"]), auth["live"] \in Doc,
             Written(n, auth["live"]), mem' = Activate(Apply(mem, n, auth["live"]), n)
      PROVE  \E m \in SlotIds, d \in Doc : Fills(m, d)
  <2>1. n # 0
    BY CodexTableAssumption DEF SlotIds
  <2>2. Fits(n, auth["live"]) /\ n \in Registered(mem)
    BY <1>3, <2>1, Types, ActiveIsRegistered, FindFindsOwnSlot DEF Followed, Fits, Registered
  <2>3. Fills(n, auth["live"])
    BY <1>1, <1>3, <2>2 DEF Fills, serverVars, outer
  <2>4. QED
    BY <1>3, <2>3
<1>4. QED
  BY <1>2, <1>3, SyncCases

LEMMA SwitchedMoves ==
  ASSUME Filing, Switched
  PROVE  Moves \/ \E n \in SlotIds, d \in Doc : Fills(n, d)
<1>1. /\ pc = "verify" /\ pc' = "save" /\ proc = NoProc
      /\ UNCHANGED <<service, auth, proc, outer, disk>>
      /\ tgt \in SlotIds /\ tgt \in Registered(mem) /\ mem.slots[tgt].acct \in Accounts
  BY Types, RegisteredIsDoc DEF Switched, Filing, Targets, Registered, Doc
<1>2. PICK live \in Reads(auth["live"]) :
        \/ /\ live.acct = mem.slots[tgt].acct
           /\ Written(tgt, live) /\ mem' = Activate(Apply(mem, tgt, live), tgt)
        \/ mem' = Activate(mem, tgt) /\ UNCHANGED parked
  BY DEF Switched
<1>3. CASE mem' = Activate(mem, tgt) /\ UNCHANGED parked
  <2>1. mem'.slots = mem.slots
    BY <1>1, <1>3, Types, ActivateKeepsSlots
  <2>2. QED
    BY <1>1, <1>3, <2>1 DEF Moves
<1>4. CASE /\ live.acct = mem.slots[tgt].acct
           /\ Written(tgt, live) /\ mem' = Activate(Apply(mem, tgt, live), tgt)
  <2>1. live # NoDoc /\ auth["live"] \in Docs
    BY <1>1, <1>4, Types, IdentityAssumption DEF NoDoc, Homes
  <2>2. live \in Doc /\ live = auth["live"]
    BY <2>1, ReadsIsDoc
  <2>3. Fits(tgt, live)
    BY <1>1, <1>4 DEF Fits
  <2>4. Fills(tgt, live)
    BY <1>1, <1>4, <2>2, <2>3 DEF Fills, outer
  <2>5. QED
    BY <1>1, <2>2, <2>4
<1>5. QED
  BY <1>2, <1>3, <1>4

LEMMA CallMoves ==
  ASSUME Filing, Refreshed \/ Limited
  PROVE  (Moves /\ pc' = "next") \/ \E n \in SlotIds, d \in Doc : Fills(n, d)
<1>1. /\ pc = "call" /\ proc = NoProc /\ UNCHANGED <<service, proc, outer, disk>>
      /\ doc # NoDoc /\ doc.acct = mem.slots[tgt].acct /\ tgt \in Registered(mem)
  BY CallCases DEF Filing, Targets
<1>2. CASE UNCHANGED <<parked, mem>> /\ NextSlot
  BY <1>1, <1>2 DEF Moves, NextSlot
<1>3. ASSUME NEW updated \in Reads(auth["temp"]), updated \in Docs, updated.acct = doc.acct,
             Keep(updated), ~(UNCHANGED <<parked, mem>> /\ NextSlot)
      PROVE  \E n \in SlotIds, d \in Doc : Fills(n, d)
  <2>1. /\ updated \in Doc /\ tgt \in SlotIds
        /\ Written(tgt, updated) /\ mem' = Apply(mem, tgt, updated)
        /\ NextSlot \/ (pc' = "mirror" /\ doc' = updated /\ UNCHANGED auth)
    BY <1>1, <1>3, KeepCases
  <2>2. updated = auth["temp"]
    BY <1>3, <2>1, Types, ReadsIsDoc, NoDocIsNoDoc DEF Homes
  <2>3. Fits(tgt, updated)
    BY <1>1, <1>3, <2>1 DEF Fits
  <2>4. auth'["live"] = auth["live"]
    BY <2>1, Types DEF NextSlot, Homes
  <2>5. Fills(tgt, updated)
    BY <1>1, <2>1, <2>2, <2>3, <2>4 DEF Fills, NextSlot, outer
  <2>6. QED
    BY <2>1, <2>5
<1>4. QED
  BY <1>2, <1>3, CallCases

LEMMA PassingMoves ==
  ASSUME Filing, Passing
  PROVE  \/ Moves
         \/ \E n \in SlotIds : TakesOut(n)
         \/ \E n \in SlotIds, d \in Doc : Fills(n, d)
<1>1. CASE (Quit /\ pc \notin {"sweep", "save"}) \/ Crash
  <2>1. /\ UNCHANGED <<parked, disk>> /\ mem' = EmptyTable
        /\ pc \in {"sweep", "save"} => weather \intersect {"crash", "save"} # {}
    BY <1>1 DEF Quit, Crash, Exit
  <2>2. QED
    BY <2>1 DEF Moves
<1>2. CASE ~Quit /\ (Sync \/ Switched \/ Refreshed \/ Limited)
  BY <1>2, SyncMoves, SwitchedMoves, CallMoves
<1>3. CASE ~Quit /\ (Adopt \/ LoginPreserve \/ LoginRegister)
  <2>1. ASSUME NEW live \in Reads(auth["live"]), live # NoDoc
        PROVE  live \in Doc /\ live = auth["live"]
    BY <2>1, Types, ReadsIsDoc DEF Homes
  <2>2. CASE UNCHANGED <<parked, disk, mem>> /\ pc = "act"
    BY <2>2 DEF Moves
  <2>3. ASSUME NEW live \in Reads(auth["live"]), live # NoDoc, NEW then \in {"save", "loginSave"},
               RegisterLive(live, then)
        PROVE  \E n \in SlotIds, d \in Doc : Fills(n, d)
    <3>1. pc \in {"act", "loginRegister"}
      BY <1>3 DEF Adopt, LoginPreserve, LoginRegister
    <3>2. QED
      BY <1>3, <2>1, <2>3, <3>1, RegisterFills
  <2>4. CASE Adopt
    BY <1>3, <2>3, <2>4 DEF Adopt
  <2>5. CASE LoginPreserve
    BY <2>2, <2>3, <2>5 DEF LoginPreserve, locals
  <2>6. CASE LoginRegister
    BY <1>3, <2>3, <2>6 DEF LoginRegister
  <2>7. QED
    BY <1>3, <2>4, <2>5, <2>6
<1>4. CASE ~Quit /\ \/ \E c \in Commands, n \in SlotIds \union {0} : Begin(c, n)
                    \/ SyncSave \/ LoginSave \/ Switch \/ Install \/ Verify \/ SwitchBack
  BY <1>4 DEF Begin, SyncSave, LoginSave, SaveAnd, Switch, Install, Verify, SwitchBack, Exit,
              locals, Moves
<1>5. CASE ~Quit /\ (Plan \/ Visit \/ Mirror \/ Visited \/ List \/ Label)
  BY <1>5 DEF Plan, Visit, Mirror, Visited, List, Label, Exit, locals, Moves
<1>6. CASE Save \/ Sweep \/ (~Quit /\ (RemoveSlot \/ Confirmed))
  <2>1. dead \subseteq SlotIds /\ (Sweep => Lowest(dead) \in SlotIds)
    BY Types, LowestIsMember DEF Sweep, Filing, Targets
  <2>2. CASE Sweep
    BY <2>1, <2>2 DEF Sweep, TakesOut
  <2>3. CASE ~Quit /\ Removed /\ (RemoveSlot \/ (Confirmed /\ cmd = "remove"))
    <3>1. /\ tgt \in SlotIds /\ pc \in {"act", "ask"}
      BY <2>3 DEF RemoveSlot, Removed, Confirmed, Filing, Targets, Registered
    <3>2. Deleted(tgt) /\ mem' = Remove(mem, tgt) /\ pc' = "save" /\ UNCHANGED disk
      BY <2>3 DEF Removed
    <3>3. QED
      BY <3>1, <3>2 DEF TakesOut
  <2>4. CASE Save
    BY <2>4 DEF Save, Exit, Moves
  <2>5. CASE (RemoveSlot \/ Confirmed) /\ UNCHANGED <<serverVars, outer, parked, disk, cmd, locals>>
    BY <2>5 DEF RemoveSlot, Confirmed, locals, Moves
  <2>6. QED
    BY <1>6, <2>2, <2>3, <2>4, <2>5 DEF RemoveSlot, Confirmed
<1>7. CASE ClientStep \/ ServerStep
  <2>1. pc \notin {"sweep", "save"}
    BY <1>7, Types DEF ClientStep, Client, Answered, Rejected, SeesNone, CallFails,
                       ReadsAsRefusal, ServerStep, Server, ServerStores,
                ServerRenews, ServerKeeps, NoProc
  <2>2. QED
    BY <1>7, <2>1 DEF ClientStep, ServerStep, Cas, locals, Moves
<1>8. CASE CodexLogin /\ UNCHANGED <<serverVars, outer, parked, disk, cmd, locals>>
  BY <1>8 DEF CodexLogin, Quit, Exit, locals, Moves
<1>9. pc \in {"sweep", "save"} => Save \/ Sweep \/ Crash \/ ClientStep \/ ServerStep
  <2>1. pc \in {"sweep", "save"} => \A c \in Commands, n \in SlotIds \union {0} : ~Begin(c, n)
    BY DEF Begin
  <2>2. pc \in {"sweep", "save"} => ~(Sync \/ SyncSave \/ Adopt \/ LoginPreserve \/ LoginSave
                                   \/ LoginRegister \/ CodexLogin \/ Switch \/ Install \/ Verify)
    BY DEF Sync, SyncSave, Adopt, LoginPreserve, LoginSave, LoginRegister, CodexLogin, Switch,
           Install, Verify
  <2>3. pc \in {"sweep", "save"} => ~(SwitchBack \/ Switched \/ Plan \/ Visit \/ Refreshed \/ Limited
                                   \/ Mirror \/ Visited \/ List \/ RemoveSlot \/ Confirmed \/ Label)
    BY DEF SwitchBack, Switched, Plan, Visit, Refreshed, Limited, Mirror, Visited, List,
           RemoveSlot, Removed, Confirmed, Label
  <2>4. QED
    BY <2>1, <2>2, <2>3 DEF Passing, Step
<1>10. CASE pc \in {"sweep", "save"}
  BY <1>1, <1>6, <1>7, <1>9, <1>10
<1>11. CASE pc \notin {"sweep", "save"}
  BY <1>1, <1>2, <1>3, <1>4, <1>5, <1>6, <1>7, <1>8, <1>11 DEF Passing, Step
<1>12. QED
  BY <1>10, <1>11

\* A step that fills no slot.
LEMMA MovesTags ==
  ASSUME Filing, AllIssued, Tags, Next, UNCHANGED weather, Moves \/ \E n \in SlotIds : TakesOut(n),
         \A n, d : Tagged(n, d) /\ LiveNext(d) => MayBeLive(d) \/ parked[n] \in {d, NoDoc}
  PROVE  Tags'
<1>1. CASE Moves
  <2>1. \A n \in Registered(mem') : Tagged(n, mem'.slots[n])
    BY <1>1, EmptyIsTable DEF Moves, Tagged, Registered
  <2>2. \A n \in Registered(disk') : Tagged(n, disk'.slots[n])
    BY <1>1 DEF Moves, Tagged
  <2>3. Filled'
    <3>1. SUFFICES ASSUME weather \intersect {"crash", "save"} = {},
                          NEW n \in Registered(mem') \union
                            (IF pc' \in {"sweep", "save"} THEN {} ELSE Registered(disk'))
                   PROVE  parked'[n] # NoDoc
      <4>1. Registered(mem)' = Registered(mem') /\ Registered(disk)' = Registered(disk')
        BY DEF Registered
      <4>2. QED
        BY <4>1 DEF Filled
    <3>2. \A m \in Registered(mem) \union (IF pc \in {"sweep", "save"} THEN {} ELSE Registered(disk)) :
            parked[m] # NoDoc
      BY <3>1 DEF Tags, Filled
    <3>3. Registered(mem') \subseteq Registered(mem) \/ (mem' = disk /\ pc = "idle")
      BY <1>1, EmptyIsTable DEF Moves, Registered
    <3>4. CASE pc \in {"sweep", "save"}
      BY <1>1, <3>1, <3>2, <3>3, <3>4 DEF Moves
    <3>5. CASE pc \notin {"sweep", "save"}
      BY <1>1, <3>1, <3>2, <3>3, <3>5 DEF Moves
    <3>6. QED
      BY <3>4, <3>5
  <2>4. \A n \in SlotIds : parked'[n] \in {parked[n], NoDoc}
    BY <1>1 DEF Moves
  <2>5. TagsFit(mem)' /\ TagsFit(disk)'
    BY <2>1, <2>2, <2>4, QuietTags
  <2>6. QED
    BY <2>3, <2>5 DEF Tags
<1>2. ASSUME NEW k \in SlotIds, TakesOut(k)
      PROVE  Tags'
  <2>1. /\ Registered(mem') = Registered(mem) \ {k} /\ UNCHANGED disk /\ pc' \in {"sweep", "save"}
        /\ \A n \in SlotIds \ {k} : mem'.slots[n] = mem.slots[n] /\ parked'[n] = parked[n]
        /\ parked'[k] \in {parked[k], NoDoc}
    <3>1. mem \in Table /\ parked \in [SlotIds -> Docs]
      BY Types
    <3>2. mem' = Remove(mem, k) /\ UNCHANGED disk /\ pc' \in {"sweep", "save"}
      BY <1>2 DEF TakesOut
    <3>3. /\ Registered(mem') = Registered(mem) \ {k}
          /\ \A n \in SlotIds \ {k} : mem'.slots[n] = mem.slots[n]
      BY <3>1, <3>2, RemoveDropsOneSlot
    <3>4. /\ \A n \in SlotIds \ {k} : parked'[n] = parked[n]
          /\ parked'[k] \in {parked[k], NoDoc}
      BY <1>2, <3>1 DEF TakesOut, Deleted
    <3>5. QED
      BY <3>2, <3>3, <3>4
  <2>2. \A n \in Registered(mem') : Tagged(n, mem'.slots[n])
    BY <2>1 DEF Tagged, Registered
  <2>3. \A n \in Registered(disk') : Tagged(n, disk'.slots[n])
    BY <2>1 DEF Tagged
  <2>4. TagsFit(mem)' /\ TagsFit(disk)'
    <3>1. \A n \in SlotIds : parked'[n] \in {parked[n], NoDoc}
      BY <2>1
    <3>2. QED
      BY <2>2, <2>3, <3>1, QuietTags
  <2>5. Filled'
    <3>1. SUFFICES ASSUME weather \intersect {"crash", "save"} = {}, NEW n \in Registered(mem')
                   PROVE  parked'[n] # NoDoc
      <4>1. Registered(mem)' = Registered(mem')
        BY DEF Registered
      <4>2. QED
        BY <2>1, <4>1 DEF Filled
    <3>2. n \in Registered(mem) /\ n \in SlotIds \ {k}
      BY <2>1 DEF Registered
    <3>3. QED
      BY <2>1, <3>1, <3>2 DEF Tags, Filled
  <2>6. QED
    BY <2>4, <2>5 DEF Tags
<1>3. QED
  BY <1>1, <1>2

\* A step that fills one: what is live, or was left by an app-server, is its new tag,
\* and nothing else may be live than before.
LEMMA FillsTags ==
  ASSUME Filing, AllIssued, Unshared, Copies, Tags, UNCHANGED weather,
         NEW n \in SlotIds, NEW d \in Doc, Fills(n, d)
  PROVE  Tags'
<1>1. /\ UNCHANGED <<service, disk, sess>> /\ pc \notin {"idle", "sweep", "save"}
      /\ proc' = NoProc /\ auth'["live"] = auth["live"]
      /\ Fits(n, d) /\ Written(n, d) /\ mem' \in {Apply(mem, n, d), Activate(Apply(mem, n, d), n)}
  BY DEF Fills
<1>2. /\ parked'[n] = d /\ d # NoDoc
      /\ \A m \in SlotIds \ {n} : parked'[m] = parked[m]
  BY <1>1, Types, NoDocIsNoDoc DEF Written
<1>3. \A e : LiveNext(e) => e = auth["live"] \/ e = d
               \/ \E s \in Sessions : sess[s].dirty /\ e = sess[s].doc
  BY <1>1 DEF Fills, LiveNext, NoProc
<1>4. \A e \in Doc : LiveNext(e) => MayBeLive(e) \/ e = d
  BY <1>3 DEF MayBeLive
<1>5. ASSUME n \in Registered(disk)
      PROVE  FitsNext(n, disk.slots[n])
  <2> DEFINE e == disk.slots[n]
  <2>1. Tagged(n, e)
    BY <1>5 DEF Tagged
  <2>2. e \in Doc /\ e \in Issued /\ TagFits(n, e)
    BY <2>1, TagFacts
  <2>3. \A s \in Sessions : sess[s].dirty => e # sess[s].doc
    <3>1. ASSUME NEW s \in Sessions, sess[s].dirty
          PROVE  e # sess[s].doc
      <4>1. HeldIn((Docs \union {NoSlot}) \ {sess[s].doc})
        BY <3>1 DEF Unshared
      <4>2. QED
        BY <4>1, Holdings
    <3>2. QED
      BY <3>1
  <2>4. LiveNext(e) => e = auth["live"] \/ e = d
    BY <1>3, <2>3
  <2>5. CASE d = auth["live"]
    BY <1>2, <2>4, <2>5 DEF FitsNext
  <2>6. CASE pc = "call" /\ n = tgt /\ d = auth["temp"]
    <3>1. /\ doc = parked[n] /\ doc # NoDoc
          /\ auth["temp"] = doc \/ IsDead(doc)
      BY <2>6 DEF Copies, Filing, Targets
    <3>2. IsDead(e) => DeadNext(e)
      BY <1>1, <2>2, Types, DeadStaysDead
    <3>3. CASE parked[n] = e
      BY <1>2, <2>6, <3>1, <3>2, <3>3 DEF FitsNext
    <3>4. CASE ~MayBeLive(e)
      BY <1>2, <1>4, <2>2, <3>4 DEF FitsNext
    <3>5. CASE IsDead(e)
      BY <3>2, <3>5 DEF FitsNext
    <3>6. QED
      BY <2>2, <3>1, <3>3, <3>4, <3>5 DEF TagFits
  <2>7. QED
    BY <2>5, <2>6 DEF Fills
<1>6. TagsFit(mem)' /\ TagsFit(disk)'
  BY <1>1, <1>4, <1>5, WriteTags
<1>7. Filled'
  <2>1. Registered(mem') = Registered(mem) \union {n} /\ Registered(disk') = Registered(disk)
    BY <1>1, Types, Applied
  <2>2. SUFFICES ASSUME weather \intersect {"crash", "save"} = {},
                        NEW m \in Registered(mem') \union Registered(disk')
                 PROVE  parked'[m] # NoDoc
    <3>1. Registered(mem)' = Registered(mem') /\ Registered(disk)' = Registered(disk')
      BY DEF Registered
    <3>2. QED
      BY <3>1 DEF Filled
  <2>3. m = n \/ (m \in SlotIds \ {n} /\ m \in Registered(mem) \union Registered(disk))
    BY <2>1 DEF Registered
  <2>4. QED
    BY <1>1, <1>2, <2>2, <2>3 DEF Tags, Filled
<1>8. QED
  BY <1>6, <1>7 DEF Tags

\* A document that is issued is no slot's tag, unless it is a key; a session or an
\* app-server stores what might have become live already.
LEMMA BesideTags ==
  ASSUME Filing, AllIssued, Tags, Next,
         \/ \E a \in Accounts : SignsIn(a)
         \/ ServerStep /\ ServerRenews
         \/ \E s \in Sessions : Renew(s)
         \/ Besides
  PROVE  Tags'
<1>1. /\ UNCHANGED <<parked, mem, disk, doc, weather>>
      /\ UNCHANGED <<pc, prev>> \/ (pc = "codexLogin" /\ pc' = "loginRegister")
  <2>1. CASE \E a \in Accounts : SignsIn(a)
    BY <2>1 DEF SignsIn, outer
  <2>2. CASE ServerStep /\ ServerRenews
    BY <2>2 DEF ServerStep, Cas, outer, locals
  <2>3. CASE (\E s \in Sessions : Renew(s)) \/ Besides
    BY <2>3 DEF Renew, Besides, Open, WriteBack, End, Logout, Others, locals
  <2>4. QED
    BY <2>1, <2>2, <2>3
<1>2. ASSUME NEW n, NEW d, Tagged(n, d), LiveNext(d)
      PROVE  MayBeLive(d) \/ parked[n] \in {d, NoDoc}
  <2>1. /\ n \in SlotIds /\ d \in Doc /\ d \in Issued /\ d # NoDoc
        /\ d.acct \in Keys => parked[n] \in {d, NoDoc}
    BY <1>2, TagFacts, NoDocIsNoDoc
  <2>2. CASE \E a \in Accounts : SignsIn(a)
    <3>1. PICK a \in Accounts : SignsIn(a)
      BY <2>2
    <3>2. auth'["live"] = NextDoc(a) /\ UNCHANGED <<proc, sess>>
      BY <3>1, Types DEF SignsIn, Replaced, outer, Homes
    <3>3. CASE d = NextDoc(a)
      <4>1. a \in Keys
        BY <2>1, <3>1, <3>3, Types, NewIsNew DEF SignsIn
      <4>2. QED
        BY <2>1, <3>3, <4>1 DEF NextDoc
    <3>4. CASE d # NextDoc(a)
      BY <1>1, <1>2, <3>2, <3>4 DEF LiveNext, MayBeLive
    <3>5. QED
      BY <3>3, <3>4
  <2>3. CASE ServerStep /\ ServerRenews
    <3>1. proc \in Proc /\ proc.doc \in Docs /\ Rotate(proc.doc)
      BY <2>3, Types, NoDocIsNoDoc DEF ServerRenews, ServerTypeOK, Proc, NoProc
    <3>2. proc'.doc = NextDoc(proc.doc.acct) /\ UNCHANGED <<auth, sess, pc, prev>>
      BY <2>3, <3>1 DEF ServerRenews, Proc, ServerStep, Cas, outer, locals
    <3>3. d # proc'.doc
      BY <2>1, <3>1, <3>2, Types, NewIsNew
    <3>4. QED
      BY <1>1, <1>2, <3>2, <3>3 DEF LiveNext, MayBeLive
  <2>4. ASSUME NEW s \in Sessions, Renew(s)
        PROVE  MayBeLive(d)
    <3>1. /\ sess \in [Sessions -> [doc: Docs, dirty: BOOLEAN]] /\ Rotate(sess[s].doc)
          /\ UNCHANGED <<auth, proc, pc, prev>>
          /\ sess' = [sess EXCEPT ![s] = [doc |-> NextDoc(sess[s].doc.acct), dirty |-> TRUE]]
      BY <2>4 DEF Renew, Others, locals, Filing, TypeOK
    <3>2. sess'[s].doc = NextDoc(sess[s].doc.acct) /\ \A r \in Sessions \ {s} : sess'[r] = sess[r]
      BY <3>1
    <3>3. d # sess'[s].doc
      BY <2>1, <3>1, <3>2, Types, NewIsNew
    <3>4. QED
      BY <1>1, <1>2, <3>1, <3>2, <3>3 DEF LiveNext, MayBeLive
  <2>5. CASE Besides
    <3>1. Codex /\ UNCHANGED <<proc, pc, prev>>
      BY <2>5 DEF Besides, Codex, Open, WriteBack, End, Logout, Others, locals
    <3>2. CASE Logout
      <4>1. auth'["live"] = NoDoc /\ UNCHANGED sess
        BY <3>2, Types DEF Logout, Replaced, Homes
      <4>2. QED
        BY <1>1, <1>2, <2>1, <3>1, <4>1 DEF LiveNext, MayBeLive
    <3>3. ASSUME NEW s \in Sessions, Open(s) \/ WriteBack(s) \/ End(s)
          PROVE  MayBeLive(d)
      <4>1. auth'["live"] = auth["live"] \/ (sess[s].dirty /\ auth'["live"] = sess[s].doc)
        BY <3>1, <3>3, Types, CodexCases DEF Replaced, Homes
      <4>2. \A r \in Sessions : sess'[r].dirty /\ d = sess'[r].doc =>
                                  d = auth["live"] \/ (sess[r].dirty /\ d = sess[r].doc)
        BY <3>1, <3>3, CodexCases
      <4>3. QED
        BY <1>1, <1>2, <3>1, <4>1, <4>2 DEF LiveNext, MayBeLive
    <3>4. QED
      BY <2>5, <3>2, <3>3 DEF Besides
  <2>6. QED
    BY <2>2, <2>3, <2>4, <2>5
<1>3. CASE pc \in {"sweep", "save"} => pc' \in {"sweep", "save"}
  <2>1. Moves
    BY <1>1, <1>3 DEF Moves
  <2>2. QED
    BY <1>1, <1>2, <2>1, MovesTags
<1>4. QED
  BY <1>1, <1>3

\* What switch is going to install is parked where its tag is.
LEMMA NextKeepsTags ==
  ASSUME Filing, AllIssued, Unshared, Copies, Tags, Next
  PROVE  Tags'
<1>1. CASE Passing
  <2>1. UNCHANGED weather
    BY <1>1, PassingHolds
  <2>2. ASSUME NEW n \in SlotIds, NEW d \in Doc, Fills(n, d)
        PROVE  Tags'
    BY <2>1, <2>2, FillsTags
  <2>3. ASSUME Moves \/ (\E n \in SlotIds : TakesOut(n)), ~\E n \in SlotIds, d \in Doc : Fills(n, d)
        PROVE  Tags'
    <3>1. CASE Steady
      BY <2>1, <2>3, <3>1, SteadyLives, MovesTags
    <3>2. CASE Switch /\ pc' = "install"
      <4>1. /\ tgt \in Registered(mem) /\ doc' \in Reads(parked[tgt]) /\ doc' # NoDoc
            /\ prev' \in Reads(auth["live"]) /\ UNCHANGED <<auth, proc, sess>>
        BY <3>2 DEF Switch, Quit, Exit, serverVars, outer
      <4>2. doc' = parked[tgt] /\ prev' \in {auth["live"], NoDoc}
        BY <4>1 DEF Reads
      <4>3. ASSUME NEW n, NEW d, Tagged(n, d), LiveNext(d), d = doc'
            PROVE  n = tgt
        <5>1. n \in Registered(mem) /\ d.acct = mem.slots[n].acct
          BY <3>2, <4>3 DEF Switch, Tagged, Filing, Memory
        <5>2. d.acct = mem.slots[tgt].acct /\ OnePerAccount(mem)
          BY <4>1, <4>2, <4>3 DEF Filing, Memory
        <5>3. QED
          BY <4>1, <5>1, <5>2 DEF OnePerAccount
      <4>4. ASSUME NEW n, NEW d, Tagged(n, d), LiveNext(d)
            PROVE  MayBeLive(d) \/ parked[n] \in {d, NoDoc}
        <5>1. d # NoDoc
          BY <4>4, TagFacts, NoDocIsNoDoc
        <5>2. CASE d = doc'
          BY <4>2, <4>3, <4>4, <5>2
        <5>3. CASE d # doc'
          BY <4>1, <4>2, <4>4, <5>1, <5>3 DEF LiveNext, MayBeLive
        <5>4. QED
          BY <5>2, <5>3
      <4>5. QED
        BY <2>1, <2>3, <4>4, MovesTags
    <3>3. CASE (Refreshed \/ Limited) /\ pc' = "mirror"
      BY <2>3, <3>3, CallMoves
    <3>4. QED
      BY <1>1, <3>1, <3>2, <3>3, PassingIsSteady
  <2>4. QED
    BY <1>1, <2>2, <2>3, PassingMoves
<1>2. QED
  BY <1>1, BesideTags, StepCases

-----------------------------------------------------------------------------
(***************************************************************************)
(* The login that `codex login` replaces is in its slot.                   *)
(***************************************************************************)

\* Nothing is in memory only, but what the next save is for.
LEMMA KeepsRegistered ==
  ASSUME Filing, Logins, Next, pc' \notin {"loginSave", "save"}
  PROVE  Registered(mem') \subseteq Registered(disk')
<1>1. pc \notin {"loginSave", "save"} => Registered(mem) \subseteq Registered(disk)
  BY DEF Logins
<1>2. CASE Passing
  <2>1. CASE Moves
    <3>1. CASE mem' = disk /\ disk' = disk
      BY <3>1
    <3>2. CASE mem'.slots \in {mem.slots, EmptyTable.slots}
      <4>1. Registered(mem') \in {Registered(mem), {}}
        BY <3>2, EmptyIsTable DEF Registered
      <4>2. disk' = mem \/ (disk' = disk /\ pc \notin {"loginSave", "save"}) \/ mem' = EmptyTable
        BY <2>1 DEF Moves
      <4>3. QED
        BY <1>1, <4>1, <4>2, EmptyIsTable
    <3>3. QED
      BY <2>1, <3>1, <3>2 DEF Moves
  <2>2. ASSUME NEW n \in SlotIds, TakesOut(n)
        PROVE  Registered(mem') \subseteq Registered(disk')
    BY <1>1, <2>2, Types, RemoveDropsOneSlot DEF TakesOut
  <2>3. ASSUME NEW n \in SlotIds, NEW d \in Doc, Fills(n, d)
        PROVE  Registered(mem') \subseteq Registered(disk')
    <3>1. /\ Registered(mem') = Registered(mem) \union {n} /\ n \in Registered(mem)
          /\ UNCHANGED disk /\ pc \notin {"loginSave", "save"}
      BY <2>3, Types, Applied DEF Fills
    <3>2. QED
      BY <1>1, <3>1
  <2>4. QED
    BY <1>2, <2>1, <2>2, <2>3, PassingMoves
<1>3. CASE UNCHANGED <<mem, disk>> /\ (UNCHANGED pc \/ pc = "codexLogin")
  BY <1>1, <1>3
<1>4. QED
  BY <1>2, <1>3, StepCases DEF SignsIn, ServerStep, Cas, Renew, Besides, Open, WriteBack, End, Logout,
                               Others, locals

\* Which steps a login makes before `codex login` is done.
LEMMA LoginSteps ==
  ASSUME Filing, Next, pc' \in {"syncSave", "act", "loginSave", "codexLogin"},
         cmd' = "login" \/ pc' \in {"loginSave", "codexLogin"}
  PROVE  /\ UNCHANGED <<cmd, prev, weather>>
         /\ \/ Sync /\ pc' \in {"syncSave", "act"}
            \/ /\ \/ pc = "syncSave" /\ pc' = "act"
                  \/ pc = "loginSave" /\ pc' = "codexLogin"
               /\ UNCHANGED <<service, auth, parked, mem>>
            \/ LoginPreserve /\ pc' \in {"loginSave", "codexLogin"}
            \/ UNCHANGED <<pc, parked, mem>> /\ Codex
<1>1. CASE (Step \/ Confirmed) /\ ~Quit
  <2>1. CASE Sync \/ SyncSave \/ Adopt \/ LoginPreserve \/ LoginSave \/ LoginRegister
    BY <1>1, <2>1 DEF Sync, SyncSave, SaveAnd, Adopt, LoginPreserve, RegisterLive, LoginSave,
                      LoginRegister, serverVars, outer, locals
  <2>2. CASE Switch \/ Install \/ Verify \/ SwitchBack \/ Switched
    BY <1>1, <2>2 DEF Switch, Install, Verify, SwitchBack, Switched, Exit
  <2>3. CASE Plan \/ Refreshed \/ Limited \/ Mirror \/ Visited \/ Sweep
    BY <1>1, <2>3 DEF Plan, Refreshed, Limited, Keep, NextSlot, Mirror, Visited, Sweep
  <2>4. CASE Visit \/ List \/ RemoveSlot \/ Confirmed \/ Label \/ Save
    BY <1>1, <2>4 DEF Visit, List, RemoveSlot, Removed, Confirmed, Label, Save, Exit
  <2>5. QED
    BY <1>1, <2>1, <2>2, <2>3, <2>4 DEF Step
<1>2. CASE Quit \/ Crash \/ \E c \in Commands, n \in SlotIds \union {0} : Begin(c, n)
  BY <1>2 DEF Quit, Crash, Exit, Begin
<1>3. CASE CodexLogin /\ ~Quit
  BY <1>3 DEF CodexLogin
<1>4. CASE ClientStep \/ ServerStep
  <2>1. pc' = pc /\ pc \in {"verify", "call"}
    BY <1>4, Types DEF ClientStep, Client, Answered, Rejected, SeesNone, CallFails,
                       ReadsAsRefusal, ServerStep, Server,
                       ServerRenews, ServerStores, ServerKeeps, NoProc, Cas
  <2>2. QED
    BY <2>1
<1>5. CASE Codex
  BY <1>5, CodexCases DEF locals
<1>6. QED
  BY <1>1, <1>2, <1>3, <1>4, <1>5 DEF Next

\* The active slot's tag is the live document: that is what is parked there.
LEMMA UpToDateIsParked ==
  ASSUME Filing, Tags, weather \intersect {"crash", "save"} = {}, pc = "sync",
         NEW d, ~IsDead(d), d = auth["live"], NEW n \in Registered(mem), mem.slots[n].acct = d.acct,
         UpToDate(d)
  PROVE  parked[n] = d
<1>1. Active(mem) \in Registered(mem) /\ mem.slots[Active(mem)] = d
  BY ActiveIsRegistered, Types DEF UpToDate
<1>2. n = Active(mem)
  BY <1>1 DEF Filing, Memory, OnePerAccount
<1>3. TagFits(n, d)
  BY <1>1, <1>2 DEF Tags, TagsFit
<1>4. parked[n] \in {d, NoDoc}
  BY <1>3 DEF TagFits, MayBeLive
<1>5. parked[n] # NoDoc
  BY DEF Tags, Filled
<1>6. QED
  BY <1>4, <1>5

LEMMA NextKeepsLogins ==
  ASSUME Filing, AllIssued, Unshared, Tags, Logins, Next
  PROVE  Logins'
<1>1. /\ pc' \notin {"loginSave", "save"} => Registered(mem)' \subseteq Registered(disk)'
      /\ pc' \in {"loginSave", "codexLogin"} => cmd' = "login"
  BY KeepsRegistered, LoginSteps DEF Registered, Logins, Sync, LoginPreserve
<1>2. SUFFICES ASSUME cmd' = "login", prev' = auth'["live"], ~DeadNext(prev'),
                      weather' \intersect {"read", "store", "save", "crash", "user"} = {},
                      pc' \in {"syncSave", "act", "loginSave", "codexLogin"}
               PROVE  /\ pc' \in {"syncSave", "act"} =>
                           \A n \in Registered(mem') :
                             mem'.slots[n].acct = prev'.acct => parked'[n] = prev'
                      /\ pc' \in {"loginSave", "codexLogin"} =>
                           \E n \in Registered(mem') : parked'[n] = prev'
  <2>1. Registered(mem)' = Registered(mem')
    BY DEF Registered
  <2>2. IsDead(prev)' <=> DeadNext(prev')
    BY DEF IsDead, DeadNext, Working
  <2>3. QED
    BY <1>1, <1>2, <2>1, <2>2 DEF Logins
<1>3. /\ UNCHANGED <<cmd, prev, weather>> /\ prev \in Docs
      /\ \/ Sync /\ pc' \in {"syncSave", "act"}
         \/ /\ \/ pc = "syncSave" /\ pc' = "act"
               \/ pc = "loginSave" /\ pc' = "codexLogin"
            /\ UNCHANGED <<service, auth, parked, mem>>
         \/ LoginPreserve /\ pc' \in {"loginSave", "codexLogin"}
         \/ UNCHANGED <<pc, parked, mem>> /\ Codex
  BY <1>2, LoginSteps, Types
<1>4. ~IsDead(prev) /\ prev # NoDoc /\ prev \in Doc
  BY <1>2, <1>3, Types, Holders, NextServes, DeadStaysDead DEF IsDead, Docs
<1>5. ASSUME auth["live"] = prev
      PROVE  /\ pc \in {"syncSave", "act"} =>
                  \A n \in Registered(mem) : mem.slots[n].acct = prev.acct => parked[n] = prev
             /\ pc \in {"loginSave", "codexLogin"} => \E n \in Registered(mem) : parked[n] = prev
  BY <1>2, <1>3, <1>4, <1>5 DEF Logins
<1>6. CASE UNCHANGED <<service, auth, parked, mem>>
           /\ \/ pc = "syncSave" /\ pc' = "act"
              \/ pc = "loginSave" /\ pc' = "codexLogin"
  BY <1>2, <1>3, <1>5, <1>6
<1>7. CASE UNCHANGED <<pc, parked, mem>> /\ Codex
  <2>1. CASE \E s \in Sessions : WriteBack(s)
    <3>1. PICK s \in Sessions : WriteBack(s)
      BY <2>1
    <3>2. auth'["live"] = sess[s].doc /\ sess[s].dirty
      BY <1>7, <3>1, CodexCases, Types DEF Replaced, Homes
    <3>3. HeldIn((Docs \union {NoSlot}) \ {sess[s].doc})
      BY <3>2 DEF Unshared
    <3>4. prev # sess[s].doc
      BY <3>3, Holdings
    <3>5. QED
      BY <1>2, <1>3, <3>2, <3>4
  <2>2. CASE ~\E s \in Sessions : WriteBack(s)
    <3>1. auth' = auth
      BY <1>2, <1>3, <1>7, <2>2 DEF Codex, Open, Renew, End, Logout, SignIn
    <3>2. QED
      BY <1>2, <1>3, <1>5, <1>7, <3>1
  <2>3. QED
    BY <2>1, <2>2
<1>8. CASE Sync /\ pc' \in {"syncSave", "act"}
  <2>1. UNCHANGED auth /\ pc = "sync" /\ auth["live"] = prev
    BY <1>2, <1>3, <1>8 DEF Sync, serverVars
  <2>2. PICK live \in Reads(auth["live"]) :
          LET n == Followed(live) IN
          \/ /\ live = NoDoc \/ Registered(mem) = {} \/ UpToDate(live)
             /\ UNCHANGED <<parked, mem>>
          \/ /\ live # NoDoc /\ n # 0 /\ Written(n, live)
             /\ mem' = Activate(Apply(mem, n, live), n)
          \/ /\ live # NoDoc /\ Registered(mem) # {} /\ n = 0
             /\ mem' = Activate(mem, 0) /\ UNCHANGED parked
    BY <1>2, <1>3, <1>8 DEF Sync, NotWritten
  <2>3. live = prev
    BY <1>2, <1>3, <2>1 DEF Reads
  <2>4. SUFFICES ASSUME NEW m \in Registered(mem'), mem'.slots[m].acct = prev.acct
                 PROVE  parked'[m] = prev
    BY <1>3, <1>8
  <2>5. CASE (Registered(mem) = {} \/ UpToDate(prev)) /\ UNCHANGED <<parked, mem>>
    BY <1>2, <1>3, <1>4, <2>1, <2>4, <2>5, UpToDateIsParked
  <2>6. CASE /\ Followed(prev) # 0 /\ Written(Followed(prev), prev)
             /\ mem' = Activate(Apply(mem, Followed(prev), prev), Followed(prev))
    <3> DEFINE n == Followed(prev)
    <3>1. n \in Registered(mem) /\ n \in SlotIds /\ mem.slots[n].acct = prev.acct
      BY <2>6, Types, ActiveIsRegistered, FindFindsOwnSlot DEF Followed, Registered
    <3>2. /\ Registered(mem') = Registered(mem) \union {n}
          /\ \A k \in SlotIds : mem'.slots[k] = IF k = n THEN prev ELSE mem.slots[k]
      BY <1>4, <2>6, <3>1, Types, Applied
    <3>3. m \in Registered(mem) /\ m \in SlotIds /\ mem.slots[m].acct = prev.acct
      BY <2>4, <3>1, <3>2 DEF Registered
    <3>4. m = n
      BY <3>1, <3>3 DEF Filing, Memory, OnePerAccount
    <3>5. QED
      BY <2>6, <3>1, <3>4, Types DEF Written
  <2>7. CASE Followed(prev) = 0 /\ mem' = Activate(mem, 0)
    <3>1. FindByIdentity(mem, prev) = 0
      BY <2>7, Types, ActiveIsRegistered, CodexTableAssumption DEF Followed, Registered, SlotIds
    <3>2. mem'.slots = mem.slots /\ m \in Registered(mem)
      BY <2>4, <2>7, Types, ActivateKeepsSlots
    <3>3. QED
      BY <2>4, <3>1, <3>2, Types, FindFindsOwnSlot
  <2>8. QED
    BY <1>4, <2>2, <2>3, <2>5, <2>6, <2>7
<1>9. CASE LoginPreserve /\ pc' \in {"loginSave", "codexLogin"}
  <2>1. /\ pc = "act" /\ auth["live"] = prev /\ UNCHANGED auth /\ pc' # "idle"
    BY <1>2, <1>3, <1>9 DEF LoginPreserve, RegisterLive, Quit, Exit, serverVars
  <2>2. \/ RegisterLive(prev, "loginSave")
        \/ FindByIdentity(mem, prev) # 0 /\ UNCHANGED <<parked, mem>>
    BY <1>2, <1>3, <1>4, <1>9, <2>1 DEF LoginPreserve, Reads, locals
  <2>3. CASE FindByIdentity(mem, prev) # 0 /\ UNCHANGED <<parked, mem>>
    BY <1>3, <1>5, <1>9, <2>1, <2>3, Types, FindFindsOwnSlot
  <2>4. CASE RegisterLive(prev, "loginSave")
    <3>1. PICK n \in SlotIds : Written(n, prev) /\ mem' = Activate(Apply(mem, n, prev), n)
      BY <1>4, <2>1, <2>4, RegisterCases DEF Quit, Exit
    <3>2. n \in Registered(mem') /\ parked'[n] = prev
      BY <1>4, <3>1, Types, Applied DEF Written
    <3>3. QED
      BY <1>3, <1>9, <3>2
  <2>5. QED
    BY <2>2, <2>3, <2>4
<1>10. QED
  BY <1>3, <1>6, <1>7, <1>8, <1>9

-----------------------------------------------------------------------------
(***************************************************************************)
(* The invariant is inductive.                                             *)
(***************************************************************************)

LEMMA InitEstablishes ==
  ASSUME Init
  PROVE  IInv
<1>1. PICK start \in Starts, a \in Owner :
        LET known == ({a} \union {start[n] : n \in SlotIds}) \ {NoAccount}
            slots == [n \in SlotIds |-> IF start[n] = NoAccount THEN NoSlot ELSE FirstDoc(start[n])]
        IN /\ issued = [b \in Accounts |-> IF b \in known THEN 1 ELSE 0]
           /\ unspent = [b \in Accounts |-> IF b \in known THEN {1} ELSE {}]
           /\ auth = [h \in Homes |-> IF h = "live" THEN FirstDoc(a) ELSE NoDoc]
           /\ parked = [n \in SlotIds |-> FirstDoc(start[n])]
           /\ disk = [active |-> Lowest({n \in SlotIds : a # NoAccount /\ start[n] = a}),
                      slots  |-> slots]
  BY Zenon DEF Init
<1>2. start \in [SlotIds -> Owner] /\ 1 \in Gens
  BY CodexAccountsAssumption, CodexTableAssumption DEF Gens
<1>3. \A o \in Owner : FirstDoc(o) \in Docs /\ (o # NoAccount => FirstDoc(o) = [acct |-> o, gen |-> 1])
  BY <1>2, NoDocIsNoDoc DEF FirstDoc, Owner, Doc
<1>4. \A o \in Owner : o \in {a} \union {start[n] : n \in SlotIds} => FirstDoc(o) \in Issued
  <2>1. ASSUME NEW o \in Owner, o \in {a} \union {start[n] : n \in SlotIds}, o # NoAccount
        PROVE  FirstDoc(o).gen <= issued[FirstDoc(o).acct]
    <3>1. o \in Accounts /\ FirstDoc(o).gen = 1 /\ FirstDoc(o).acct = o
      BY <1>3, <2>1 DEF Owner
    <3>2. issued[o] = 1
      BY <1>1, <2>1, <3>1
    <3>3. QED
      BY <3>1, <3>2
  <2>2. FirstDoc(NoAccount) = NoDoc
    BY DEF FirstDoc
  <2>3. QED
    BY <1>3, <2>1, <2>2 DEF Issued
<1>5. NoDoc \in Issued
  BY NoDocIsNoDoc DEF Issued
<1>6. \A b \in Keys : issued[b] <= 1
  <2>1. \A b \in Accounts : issued[b] \in {0, 1}
    BY <1>1
  <2>2. \A b \in Keys : issued[b] \in {0, 1}
    BY <2>1, AppServerAssumption
  <2>3. QED
    BY <2>2
<1>7. \A n \in SlotIds : /\ parked[n] = FirstDoc(start[n]) /\ parked[n] \in Issued
                         /\ disk.slots[n] = (IF start[n] = NoAccount THEN NoSlot ELSE parked[n])
  BY <1>1, <1>2, <1>4
<1>8. AllIssued
  <2>1. parked \in [SlotIds -> Issued] /\ auth \in [Homes -> Issued]
    BY <1>1, <1>2, <1>4, <1>5
  <2>2. disk.slots \in [SlotIds -> Issued \union {NoSlot}]
    BY <1>1, <1>7
  <2>3. mem.slots \in [SlotIds -> Issued \union {NoSlot}]
    BY DEF Init, EmptyTable
  <2>4. HeldIn(Issued \union {NoSlot})
    BY <1>5, <2>1, <2>2, <2>3 DEF HeldIn, Init, NoProc
  <2>5. QED
    BY <1>5, <1>6, <2>4 DEF Init, AllIssued
<1>9. Unshared /\ Verdicts /\ Copies
  BY DEF Init, Unshared, Verdicts, Copies, NoAnswer, Failure
<1>10. \A n \in Registered(disk) : parked[n] = disk.slots[n] /\ parked[n] # NoDoc
  BY <1>2, <1>3, <1>7, CodexTableAssumption, IdentityAssumption DEF Registered, Owner, NoDoc
<1>11. mem = EmptyTable /\ Registered(mem) = {}
  BY EmptyIsTable DEF Init
<1>12. Tags
  BY <1>10, <1>11 DEF Tags, TagsFit, TagFits, Filled
<1>13. Logins
  BY <1>11 DEF Init, Logins
<1>14. QED
  BY <1>8, <1>9, <1>12, <1>13, InitFiles DEF IInv

LEMMA StutterKeeps ==
  ASSUME IInv, UNCHANGED vars
  PROVE  IInv'
<1>1. Filing'
  BY NextKeepsFiling DEF IInv
<1>2. UNCHANGED <<service, auth, proc, answer, sess, weather, parked, disk, pc, cmd, locals>>
  BY DEF vars, serverVars, outer
<1>3. UNCHANGED <<issued, unspent, mem, tgt, doc, prev, todo, dead>>
  BY <1>2 DEF service, locals
<1>4. AllIssued' /\ Unshared'
  BY <1>2, <1>3 DEF IInv, AllIssued, Unshared, HeldIn, Issued
<1>5. Verdicts' /\ Copies'
  BY <1>2, <1>3 DEF IInv, Verdicts, Telling, Copies, IsDead, Working
<1>6. Registered(mem)' = Registered(mem) /\ Registered(disk)' = Registered(disk)
  BY <1>2, <1>3 DEF Registered
<1>7. Tags'
  BY <1>2, <1>3, <1>6 DEF IInv, Tags, TagsFit, TagFits, Filled, MayBeLive, IsDead, Working
<1>8. Logins'
  BY <1>2, <1>3, <1>6 DEF IInv, Logins, IsDead, Working
<1>9. QED
  BY <1>1, <1>4, <1>5, <1>7, <1>8 DEF IInv

LEMMA NextKeeps ==
  ASSUME IInv, [Next]_vars
  PROVE  IInv'
<1>1. CASE Next
  BY <1>1, NextKeepsFiling, NextKeepsIssued, NextKeepsUnshared, NextKeepsVerdicts, NextKeepsCopies,
     NextKeepsTags, NextKeepsLogins DEF IInv
<1>2. QED
  BY <1>1, StutterKeeps

-----------------------------------------------------------------------------
(***************************************************************************)
(* The theorems.                                                           *)
(***************************************************************************)

\* The inductive invariant holds in every reachable state.
THEOREM InvariantHolds == Spec => []IInv
<1>1. Init => IInv
  BY InitEstablishes
<1>2. IInv /\ [Next]_vars => IInv'
  BY NextKeeps
<1>3. QED
  BY <1>1, <1>2, PTL DEF Spec

\* Every variable has its type, wherever a command is or dies.
THEOREM TypeCorrect == Spec => []TypeOK
<1>1. IInv => TypeOK
  BY DEF IInv, Filing
<1>2. QED
  BY <1>1, InvariantHolds, PTL

\* The credential parked for a registered slot is one of its account, whatever
\* fails and wherever a command dies (SyncActive, registerLive, refreshCodexSlot).
THEOREM SlotsKeepTheirAccount == Spec => []SlotsHoldTheirAccount
<1>1. IInv => SlotsHoldTheirAccount
  BY DEF IInv, Filing
<1>2. QED
  BY <1>1, InvariantHolds, PTL

\* No account is ever registered under two slots (State.FindByIdentity, State.Add).
THEOREM NoAccountTwice == Spec => []OneSlotPerAccount
<1>1. IInv => OneSlotPerAccount
  BY DEF IInv, Filing
<1>2. QED
  BY <1>1, InvariantHolds, PTL

\* clean deletes only documents that are dead, an app-server that fails or times out
\* being no proof, as long as errors tell (cmdCodexClean): definiteCodexAuthFailure goes
\* by the text of an error, so a failing read, no app-server to start, a Codex that
\* sees no account, and a message that reads like a refusal are excluded.
THEOREM CleanSparesTheLiving == Spec => SparesTheLiving
<1>1. ASSUME IInv, [Next]_vars
      PROVE  pc = "sweep" /\ Telling =>
               \A n \in SlotIds : parked'[n] # parked[n] => ~Working(parked[n])
  <2>1. SUFFICES ASSUME pc = "sweep", Telling,
                        NEW n \in SlotIds, parked'[n] # parked[n]
                 PROVE  ~Working(parked[n])
    OBVIOUS
  <2>2. Sweep
    <3>1. parked' # parked
      BY <2>1
    <3>2. CASE Step \/ Confirmed
      BY <2>1, <3>1, <3>2 DEF Step, Sync, SyncSave, Adopt, LoginPreserve, LoginSave, LoginRegister,
           Switch, Install, Verify, SwitchBack, Switched, Plan, Visit, Refreshed, Limited, Mirror,
           Visited, List, RemoveSlot, Removed, Confirmed, Label, Save
    <3>3. CASE ~(Step \/ Confirmed)
      BY <1>1, <2>1, <3>1, <3>3
         DEF Next, Begin, CodexLogin, ClientStep, ServerStep, Cas, Crash, Codex, Open, Renew,
             WriteBack, End, Logout, SignIn, Others, vars
    <3>4. QED
      BY <3>2, <3>3
  <2>3. n = Lowest(dead) /\ dead # {}
    BY <1>1, <2>1, <2>2, Types DEF Sweep, Deleted, IInv, Filing, Targets
  <2>4. n \in dead
    BY <1>1, <2>3, Types, LowestIsMember DEF IInv
  <2>5. IsDead(parked[n])
    BY <1>1, <2>1, <2>4 DEF IInv, Verdicts
  <2>6. QED
    BY <2>5 DEF IsDead, Working
<1>2. QED
  BY <1>1, InvariantHolds, PTL DEF Spec, SparesTheLiving


\* Where SyncActive leaves a slot alone because of its tag, the slot has a working
\* credential if the live one works, unless removing it was never saved (CredentialTag).
THEOREM SkippingLosesNothing == Spec => []SkippingIsSafe
<1>1. ASSUME IInv
      PROVE  SkippingIsSafe
  <2> DEFINE a == Active(mem)
             tag == auth["live"]
  <2>1. SUFFICES ASSUME pc = "sync", a # 0, UpToDate(tag), Working(tag)
                 PROVE  \/ Working(parked[a])
                        \/ parked[a] = NoDoc /\ weather \intersect {"crash", "save"} # {}
    BY DEF SkippingIsSafe
  <2>2. a \in Registered(mem) /\ mem.slots[a] = tag
    BY <1>1, <2>1, Types, ActiveIsRegistered DEF IInv, UpToDate
  <2>3. TagFits(a, tag)
    BY <1>1, <2>2 DEF IInv, Tags, TagsFit
  <2>4. ~IsDead(tag) /\ MayBeLive(tag)
    BY <2>1 DEF IsDead, Working, MayBeLive
  <2>5. parked[a] \in {tag, NoDoc}
    BY <2>3, <2>4 DEF TagFits
  <2>6. parked[a] = NoDoc => weather \intersect {"crash", "save"} # {}
    BY <1>1, <2>2 DEF IInv, Tags, Filled
  <2>7. QED
    BY <2>1, <2>5, <2>6
<1>2. QED
  BY <1>1, InvariantHolds, PTL

\* `codex login` replaces a working login only when a slot of its account has a
\* working one as well (runCodexLogin: registerLive before, SyncActive before that).
THEOREM LoginKeepsTheOld == Spec => LoginPreserves
<1>1. ASSUME IInv, [Next]_vars
      PROVE  (/\ pc = "codexLogin" /\ auth'["live"] # auth["live"] /\ auth["live"] = prev
              /\ weather \intersect {"read", "store", "save", "crash", "user"} = {} /\ Working(prev)) =>
                \E n \in Registered(disk) : parked[n].acct = prev.acct /\ Working(parked[n])
  <2>1. SUFFICES ASSUME pc = "codexLogin", auth["live"] = prev, cmd = "login",
                        weather \intersect {"read", "store", "save", "crash", "user"} = {}, Working(prev)
                 PROVE  \E n \in Registered(disk) : parked[n].acct = prev.acct /\ Working(parked[n])
    BY <1>1 DEF IInv, Logins
  <2>2. ~IsDead(prev)
    BY <2>1 DEF IsDead, Working
  <2>3. PICK n \in Registered(mem) : parked[n] = prev
    BY <1>1, <2>1, <2>2 DEF IInv, Logins
  <2>4. n \in Registered(disk)
    BY <1>1, <2>1, <2>3 DEF IInv, Logins
  <2>5. QED
    BY <2>1, <2>3, <2>4
<1>2. QED
  BY <1>1, InvariantHolds, PTL DEF Spec, LoginPreserves

=============================================================================
