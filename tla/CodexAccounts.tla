---------------------------- MODULE CodexAccounts ----------------------------
(***************************************************************************)
(* `cas codex` (package app: cmd_codex*.go, package codextarget): the      *)
(* commands on the Codex slots, beside the Codex sessions that use         *)
(* auth.json, and the app-servers that cas starts.                         *)
(*                                                                         *)
(* A command holds the flock over ~/.cas from start to exit, so one runs   *)
(* at a time.  Its effects on what outlives it (a slot's credential,       *)
(* auth.json, codex-state.json) are its steps.  A credential of a slot is  *)
(* written and deleted as CodexRegister promises.  Nobody but the command  *)
(* sees the slots, so a look at auth.json and the write of a slot that     *)
(* follows from it are one step.                                           *)
(***************************************************************************)
EXTENDS AppServer

CONSTANTS
  Sessions,    \* the Codex processes of the user
  Commands,    \* the commands that are run
  Starts       \* the accounts that the slots may be registered for at first

CommandNames ==
  {"adopt", "login", "list", "switch", "remove", "label", "refresh", "limit", "clean"}

ASSUME CodexAccountsAssumption ==
  /\ Commands \subseteq CommandNames
  /\ Starts \subseteq [SlotIds -> Owner]
  /\ \A start \in Starts : \A m, n \in SlotIds :
       start[m] = start[n] /\ start[m] # NoAccount => m = n

VARIABLES
  parked,      \* parked[n]: what ReadCredential(n) finds
  disk,        \* the slot table in codex-state.json
  sess,        \* the document each session holds, and whether it has yet to store it
  pc, cmd,     \* where the running command is, and which one it is
  mem,         \* its slot table (codexApp.State)
  tgt,         \* the slot it is about
  doc,         \* the document it is about
  prev,        \* what auth.json held before
  todo,        \* the slots it has yet to visit
  dead,        \* the slots it found dead
  putBack      \* history: a switch has put back what was live

locals == <<mem, tgt, doc, prev, todo, dead>>
outer == <<sess, weather, putBack>>
vars == <<serverVars, outer, parked, disk, pc, cmd, locals>>

TypeOK ==
  /\ ServerTypeOK
  /\ parked \in [SlotIds -> Docs]
  /\ disk \in Table /\ mem \in Table
  /\ sess \in [Sessions -> [doc: Docs, dirty: BOOLEAN]]
  /\ pc \in {"idle", "sync", "syncSave", "act", "install", "start", "verify",
             "loginSave", "codexLogin", "loginRegister",
             "next", "call", "mirror", "ask", "sweep", "save"}
  /\ cmd \in CommandNames \union {"none"}
  /\ tgt \in SlotIds \union {0}
  /\ doc \in Docs /\ prev \in Docs
  /\ putBack \in BOOLEAN
  /\ todo \subseteq SlotIds /\ dead \subseteq SlotIds
  /\ proc # NoProc => answer = NoAnswer /\ pc = (IF proc.home = "live" THEN "verify" ELSE "call")
  /\ auth["temp"] # NoDoc => pc \in {"call", "mirror"}

-----------------------------------------------------------------------------

FirstDoc(a) == IF a = NoAccount THEN NoDoc ELSE [acct |-> a, gen |-> 1]

\* Some slots hold their account's first document, and Codex is signed in to
\* one of these accounts, to another one, or to none.
Init ==
  /\ \E start \in Starts, a \in Owner :
       LET known == ({a} \union {start[n] : n \in SlotIds}) \ {NoAccount}
           slots == [n \in SlotIds |-> IF start[n] = NoAccount THEN NoSlot ELSE FirstDoc(start[n])]
       IN /\ issued = [b \in Accounts |-> IF b \in known THEN 1 ELSE 0]
          /\ unspent = [b \in Accounts |-> IF b \in known THEN {1} ELSE {}]
          /\ auth = [h \in Homes |-> IF h = "live" THEN FirstDoc(a) ELSE NoDoc]
          /\ parked = [n \in SlotIds |-> FirstDoc(start[n])]
          /\ disk = [active |-> Lowest({n \in SlotIds : a # NoAccount /\ start[n] = a}),
                     slots  |-> slots]
  /\ proc = NoProc /\ answer = NoAnswer
  /\ weather \in Weathers
  /\ sess = [s \in Sessions |-> [doc |-> NoDoc, dirty |-> FALSE]]
  /\ pc = "idle" /\ cmd = "none" /\ mem = EmptyTable
  /\ tgt = 0 /\ doc = NoDoc /\ prev = NoDoc /\ todo = {} /\ dead = {}
  /\ putBack = FALSE

-----------------------------------------------------------------------------
(***************************************************************************)
(* Starting and ending a command; the effects it can have.                 *)
(***************************************************************************)

\* What reading a slot or auth.json gives; an error is as good as nothing there.
Reads(d) == {d} \union (IF "read" \in weather THEN {NoDoc} ELSE {})

\* newCodexApp. adopt alone does not sync; login looks at auth.json first.
Begin(c, n) ==
  /\ pc = "idle"
  /\ c \in {"switch", "remove", "label"} <=> n # 0
  /\ cmd' = c /\ tgt' = n /\ mem' = disk
  /\ prev' \in (IF c = "login" THEN Reads(auth["live"]) ELSE {NoDoc})
  /\ pc' = IF c = "adopt" THEN "act" ELSE "sync"
  /\ UNCHANGED <<serverVars, outer, parked, disk, doc, todo, dead>>

\* The process exits, and with it goes what was only in its memory.
Exit ==
  /\ pc' = "idle" /\ cmd' = "none" /\ mem' = EmptyTable
  /\ tgt' = 0 /\ doc' = NoDoc /\ prev' = NoDoc /\ todo' = {} /\ dead' = {}
  /\ answer' = NoAnswer

\* A command ends without a further effect.
Quit == Exit /\ UNCHANGED <<service, auth, proc, outer, parked, disk>>

\* cas dies; its app-server reads the end of its input and goes as well.
Crash ==
  /\ pc # "idle" /\ "crash" \in weather
  /\ Exit
  /\ proc' = NoProc
  /\ auth' = [auth EXCEPT !["temp"] = NoDoc]
  /\ UNCHANGED <<service, outer, parked, disk>>

\* Mutant: nobody looks at the error of the write.
MutWritten(n, d) ==
  \/ parked' = [parked EXCEPT ![n] = d]
  \/ "store" \in weather /\ UNCHANGED parked

\* Store.WriteCredential, and what follows from its result.
Written(n, d) == parked' = [parked EXCEPT ![n] = d]
NotWritten == "store" \in weather /\ UNCHANGED parked

\* Store.DeleteCredential: its error is only a warning.
Deleted(n) ==
  \/ parked' = [parked EXCEPT ![n] = NoDoc]
  \/ "delete" \in weather /\ UNCHANGED parked

\* Target.Write
Replaced(d) == auth' = [auth EXCEPT !["live"] = d]

\* Store.Save at the end of a command.
Save ==
  /\ pc = "save"
  /\ \/ disk' = mem
     \/ "save" \in weather /\ UNCHANGED disk
  /\ Exit
  /\ UNCHANGED <<service, auth, proc, outer, parked>>

\* Save in the middle of one: an error ends it.
SaveAnd(then) ==
  \/ /\ disk' = mem /\ pc' = then
     /\ UNCHANGED <<serverVars, outer, parked, cmd, locals>>
  \/ "save" \in weather /\ Quit

-----------------------------------------------------------------------------
(***************************************************************************)
(* SyncActive                                                              *)
(***************************************************************************)

\* Mutant: the active slot takes whatever is live.
MutFollowed(live) ==
  IF Active(mem) # 0 THEN Active(mem) ELSE FindByIdentity(mem, live)

\* The slot of the live document: the active one if the identity is the same.
Followed(live) ==
  LET a == Active(mem)
  IN IF a # 0 /\ mem.slots[a].acct = live.acct THEN a ELSE FindByIdentity(mem, live)

\* The active slot was filled from this very document (CredentialTag).
UpToDate(live) == Active(mem) # 0 /\ mem.slots[Active(mem)] = live

Sync ==
  /\ pc = "sync"
  /\ \E live \in Reads(auth["live"]) :
       LET n == Followed(live) IN
       \/ /\ live = NoDoc \/ Registered(mem) = {} \/ UpToDate(live)
          /\ pc' = "act" /\ UNCHANGED <<parked, mem>>
       \/ /\ live # NoDoc /\ n # 0 /\ ~UpToDate(live)
          /\ \/ /\ Written(n, live)
                /\ mem' = Activate(Apply(mem, n, live), n) /\ pc' = "syncSave"
             \/ NotWritten /\ pc' = "act" /\ UNCHANGED mem
       \/ /\ live # NoDoc /\ Registered(mem) # {} /\ n = 0
          /\ mem' = Activate(mem, 0)
          /\ pc' = IF mem.active # 0 THEN "syncSave" ELSE "act"
          /\ UNCHANGED parked
  /\ UNCHANGED <<serverVars, outer, disk, cmd, tgt, doc, prev, todo, dead>>

SyncSave == pc = "syncSave" /\ SaveAnd("act")

-----------------------------------------------------------------------------
(***************************************************************************)
(* adopt and login.                                                        *)
(***************************************************************************)

\* registerLive: the slot of the document's account, or a new one.
RegisterLive(live, then) ==
  LET old == FindByIdentity(mem, live)
      n == IF old # 0 THEN old ELSE FreeNumber(mem)
  IN \/ /\ n # 0 /\ Written(n, live)
        /\ mem' = Activate(Apply(mem, n, live), n) /\ pc' = then
        /\ UNCHANGED <<serverVars, outer, disk, cmd, tgt, doc, prev, todo, dead>>
     \/ "store" \in weather /\ Quit

Adopt ==
  /\ pc = "act" /\ cmd = "adopt"
  /\ \E live \in Reads(auth["live"]) :
       IF live = NoDoc THEN Quit ELSE RegisterLive(live, "save")

\* Mutant: a login that is not registered is not kept.
MutLoginPreserve ==
  /\ pc = "act" /\ cmd = "login"
  /\ pc' = "codexLogin"
  /\ UNCHANGED <<serverVars, outer, parked, disk, cmd, locals>>

\* The login that `codex login` is going to replace is registered if it is not.
LoginPreserve ==
  /\ pc = "act" /\ cmd = "login"
  /\ \E live \in Reads(auth["live"]) :
       \/ live # NoDoc /\ FindByIdentity(mem, live) = 0 /\ RegisterLive(live, "loginSave")
       \/ /\ live = NoDoc \/ FindByIdentity(mem, live) # 0
          /\ pc' = "codexLogin"
          /\ UNCHANGED <<serverVars, outer, parked, disk, cmd, locals>>

LoginSave == pc = "loginSave" /\ SaveAnd("codexLogin")

\* The user is done with `codex login`: it replaced auth.json, left it alone and
\* kept the login elsewhere, or failed.
CodexLogin ==
  /\ pc = "codexLogin"
  /\ \/ /\ \E a \in Accounts : SignInAs(a) /\ Replaced(NextDoc(a))
        /\ pc' = "loginRegister" /\ prev' = NoDoc
        /\ UNCHANGED <<proc, answer, outer, parked, disk, cmd, mem, tgt, doc, todo, dead>>
     \/ /\ "keyring" \in weather /\ pc' = "loginRegister"
        /\ UNCHANGED <<serverVars, outer, parked, disk, cmd, locals>>
     \/ Quit

\* An auth.json that was not replaced is an error.
LoginRegister ==
  /\ pc = "loginRegister"
  /\ \E live \in Reads(auth["live"]) :
       IF live \in {NoDoc, prev} THEN Quit ELSE RegisterLive(live, "save")

-----------------------------------------------------------------------------
(***************************************************************************)
(* switch: install the slot's document, see whether a fresh Codex uses it. *)
(***************************************************************************)

Switch ==
  /\ pc = "act" /\ cmd = "switch"
  /\ \E d \in (IF tgt \in Registered(mem) THEN Reads(parked[tgt]) ELSE {NoDoc}) :
       \/ (d = NoDoc \/ tgt = mem.active) /\ Quit
       \/ /\ d # NoDoc /\ tgt # mem.active
          /\ doc' = d /\ prev' \in Reads(auth["live"])
          /\ pc' = "install"
          /\ UNCHANGED <<serverVars, outer, parked, disk, cmd, mem, tgt, todo, dead>>

Install ==
  /\ pc = "install"
  /\ \/ /\ Replaced(doc) /\ pc' = "start"
        /\ UNCHANGED <<service, proc, answer, outer, parked, disk, cmd, locals>>
     \/ "live" \in weather /\ Quit

\* ReadAccount on the live home; without a login there the server names none.
Verify ==
  /\ pc = "start" /\ pc' = "verify"
  /\ IF auth["live"] = NoDoc
     THEN answer' = Failure("unauthorized") /\ UNCHANGED proc
     ELSE StartServer("live", "account", auth["live"])
  /\ UNCHANGED <<service, auth, outer, parked, disk, cmd, locals>>

\* codexAccountMatches fails: the slot is not what Codex uses.
Mismatch == answer.kind = "account" /\ answer.acct # mem.slots[tgt].acct

\* What was live is put back; an error of that is ignored.
SwitchBack ==
  /\ pc = "verify" /\ Mismatch
  /\ \/ prev # NoDoc /\ Replaced(prev) /\ putBack' = TRUE
     \/ (prev = NoDoc \/ "live" \in weather) /\ UNCHANGED <<auth, putBack>>
  /\ Exit
  /\ UNCHANGED <<service, proc, sess, weather, parked, disk>>

\* Verified, or not verifiable. If Codex renewed the document, the slot follows.
Switched ==
  /\ pc = "verify" /\ answer # NoAnswer /\ ~Mismatch
  /\ \E live \in Reads(auth["live"]) :
       \/ /\ live.acct = mem.slots[tgt].acct /\ live # doc
          /\ Written(tgt, live) /\ mem' = Activate(Apply(mem, tgt, live), tgt)
       \/ /\ live.acct # mem.slots[tgt].acct \/ live = doc \/ "store" \in weather
          /\ mem' = Activate(mem, tgt) /\ UNCHANGED parked
  /\ pc' = "save" /\ answer' = NoAnswer
  /\ UNCHANGED <<service, auth, proc, outer, disk, cmd, tgt, doc, prev, todo, dead>>

-----------------------------------------------------------------------------
(***************************************************************************)
(* refresh, limit and clean: one slot after the other, each renewed by an  *)
(* app-server in a temporary home.                                         *)
(***************************************************************************)

\* resolveCodexSlots: the slots named, unless one of the names is no slot's, or all;
\* clean takes no names.
Plan ==
  /\ pc = "act" /\ cmd \in {"refresh", "limit", "clean"}
  /\ \/ (cmd # "clean" \/ Registered(mem) = {}) /\ Quit
     \/ /\ todo' \in (SUBSET Registered(mem)) \ {{}}
        /\ cmd = "clean" => todo' = Registered(mem)
        /\ pc' = "next"
        /\ UNCHANGED <<serverVars, outer, parked, disk, cmd, mem, tgt, doc, prev, dead>>

\* A key is not refreshed, nor, unless forced to, a token that is not yet due; clean
\* reads the slot twice, and the second failure is no reason to call it dead.
MaySkip(d) == cmd # "limit" /\ (d.acct \in Keys \/ cmd = "refresh" \/ "read" \in weather)
MayCall(d) == cmd = "limit" \/ d.acct \notin Keys

\* The next slot, in the order of the names or of the table: unreadable, left alone,
\* or copied to a temporary home.
Visit ==
  /\ pc = "next"
  /\ \E n \in todo :
       /\ cmd = "clean" => n = Lowest(todo)
       /\ todo' = todo \ {n} /\ tgt' = n
       /\ \E d \in Reads(parked[n]) :
            \/ /\ d = NoDoc \/ MaySkip(d)
               /\ dead' = IF d = NoDoc /\ cmd = "clean" THEN dead \union {n} ELSE dead
               /\ UNCHANGED <<auth, proc, answer, pc, doc>>
            \/ /\ d # NoDoc /\ MayCall(d)
               /\ auth' = [auth EXCEPT !["temp"] = d] /\ doc' = d
               /\ StartServer("temp", IF cmd = "limit" THEN "limits" ELSE "refresh", d)
               /\ pc' = "call" /\ UNCHANGED dead
  /\ UNCHANGED <<service, outer, parked, disk, cmd, mem, prev>>

\* The slot is done with, and so is the temporary home.
NextSlot ==
  /\ pc' = "next" /\ doc' = NoDoc /\ answer' = NoAnswer
  /\ auth' = [auth EXCEPT !["temp"] = NoDoc]

\* What the server left in the temporary home is kept; if the slot is active,
\* auth.json comes next.
Keep(updated) ==
  \/ /\ Written(tgt, updated) /\ mem' = Apply(mem, tgt, updated)
     /\ IF tgt = mem.active
        THEN pc' = "mirror" /\ doc' = updated /\ answer' = NoAnswer /\ UNCHANGED auth
        ELSE NextSlot
  \/ NotWritten /\ NextSlot /\ UNCHANGED mem

\* Mutant: any error is the end of a credential.
MutDefinite == answer.kind \in {"rejected", "unauthorized", "missing", "failed"}

\* definiteCodexAuthFailure, which goes by the text of the error.
Definite == answer.kind \in {"rejected", "unauthorized", "missing"}

\* Mutant: a renewal is reported, and only the copy in the temporary home has it.
MutRefreshed ==
  /\ pc = "call" /\ cmd \in {"refresh", "clean"} /\ answer # NoAnswer
  /\ NextSlot
  /\ dead' = IF cmd = "clean" /\ Definite THEN dead \union {tgt} ELSE dead
  /\ UNCHANGED <<service, proc, outer, parked, mem, disk, cmd, tgt, prev, todo>>

\* refreshCodexSlot after the call: any error leaves the slot as it was.
Refreshed ==
  /\ pc = "call" /\ cmd \in {"refresh", "clean"} /\ answer # NoAnswer
  /\ \E updated \in Reads(auth["temp"]) :
       LET renewed == /\ answer = Named(mem.slots[tgt].acct)
                      /\ updated.acct = doc.acct
       IN \/ renewed /\ Keep(updated) /\ UNCHANGED dead
          \/ /\ ~renewed /\ NextSlot /\ UNCHANGED <<parked, mem>>
             /\ dead' = IF cmd = "clean" /\ Definite THEN dead \union {tgt} ELSE dead
  /\ UNCHANGED <<service, proc, outer, disk, cmd, tgt, prev, todo>>

\* fetchCodexLimit after the call: what changed is kept although the call failed.
Limited ==
  /\ pc = "call" /\ cmd = "limit" /\ answer # NoAnswer
  /\ \E updated \in Reads(auth["temp"]) :
       IF updated.acct = doc.acct /\ updated # doc
       THEN Keep(updated)
       ELSE NextSlot /\ UNCHANGED <<parked, mem>>
  /\ UNCHANGED <<service, proc, outer, disk, cmd, tgt, prev, todo, dead>>

\* Mutant: auth.json is left to Codex.
MutMirror ==
  /\ pc = "mirror" /\ NextSlot
  /\ UNCHANGED <<service, proc, outer, parked, disk, cmd, mem, tgt, prev, todo, dead>>

\* The active slot was renewed: auth.json holds a token that is spent.
Mirror ==
  /\ pc = "mirror"
  /\ pc' = "next" /\ doc' = NoDoc /\ answer' = NoAnswer
  /\ \/ auth' = [live |-> doc, temp |-> NoDoc]
     \/ "live" \in weather /\ auth' = [auth EXCEPT !["temp"] = NoDoc]
  /\ UNCHANGED <<service, proc, outer, parked, disk, cmd, mem, tgt, prev, todo, dead>>

\* All slots are visited. clean asks before it removes what it found dead, unless
\* --yes or --dry-run says that for the user.
Visited ==
  /\ pc = "next" /\ todo = {}
  /\ pc' \in {"save"} \union (IF dead # {} THEN {"ask", "sweep"} ELSE {})
  /\ UNCHANGED <<serverVars, outer, parked, disk, cmd, locals>>

Sweep ==
  /\ pc = "sweep"
  /\ LET n == Lowest(dead) IN
       /\ Deleted(n) /\ mem' = Remove(mem, n) /\ dead' = dead \ {n}
       /\ pc' = IF dead = {n} THEN "save" ELSE "sweep"
  /\ UNCHANGED <<serverVars, outer, disk, cmd, tgt, doc, prev, todo>>

-----------------------------------------------------------------------------
(***************************************************************************)
(* The commands without effects of their own on a document.                *)
(***************************************************************************)

\* list, current: print the table.
List == pc = "act" /\ cmd = "list" /\ Quit

\* The slot goes, and its credential with it.
Removed ==
  /\ Deleted(tgt) /\ mem' = Remove(mem, tgt) /\ pc' = "save"
  /\ UNCHANGED <<serverVars, outer, disk, cmd, tgt, doc, prev, todo, dead>>

\* remove: at once with --yes, else the user is asked.
RemoveSlot ==
  /\ pc = "act" /\ cmd = "remove"
  /\ \/ tgt \notin Registered(mem) /\ Quit
     \/ tgt \in Registered(mem) /\ Removed
     \/ /\ tgt \in Registered(mem) /\ pc' = "ask"
        /\ UNCHANGED <<serverVars, outer, parked, disk, cmd, locals>>

\* confirmed: the user says no or yes, however long that takes; the lock is held.
Confirmed ==
  /\ pc = "ask"
  /\ \/ cmd = "remove" /\ (Quit \/ Removed)
     \/ /\ cmd = "clean" /\ pc' \in {"save", "sweep"}
        /\ UNCHANGED <<serverVars, outer, parked, disk, cmd, locals>>

\* label stores the slot's document again, under its new name.
Label ==
  /\ pc = "act" /\ cmd = "label"
  /\ \/ tgt \notin Registered(mem) /\ Quit
     \/ /\ tgt \in Registered(mem) /\ pc' = "save"
        /\ UNCHANGED <<serverVars, outer, parked, disk, cmd, locals>>

-----------------------------------------------------------------------------
(***************************************************************************)
(* Codex and the user (external): a session reads auth.json when it opens; *)
(* it renews its document by itself, and later replaces auth.json with it, *)
(* whatever it holds by then.                                              *)
(***************************************************************************)

Others == <<parked, disk, pc, cmd, locals, proc, answer, weather, putBack>>

Open(s) ==
  /\ sess[s].doc = NoDoc /\ auth["live"] # NoDoc
  /\ sess' = [sess EXCEPT ![s].doc = auth["live"]]
  /\ UNCHANGED <<service, auth, Others>>

Renew(s) ==
  /\ ~sess[s].dirty /\ Rotate(sess[s].doc)
  /\ sess' = [sess EXCEPT ![s] = [doc |-> NextDoc(sess[s].doc.acct), dirty |-> TRUE]]
  /\ UNCHANGED <<auth, Others>>

WriteBack(s) ==
  /\ sess[s].dirty
  /\ sess' = [sess EXCEPT ![s].dirty = FALSE]
  /\ Replaced(sess[s].doc)
  /\ UNCHANGED <<service, Others>>

End(s) ==
  /\ "user" \in weather /\ sess[s].doc # NoDoc
  /\ sess' = [sess EXCEPT ![s] = [doc |-> NoDoc, dirty |-> FALSE]]
  /\ UNCHANGED <<service, auth, Others>>

\* `codex logout`
Logout ==
  /\ "user" \in weather /\ Replaced(NoDoc)
  /\ UNCHANGED <<service, sess, Others>>

\* `codex login` without cas
SignIn(a) ==
  /\ "user" \in weather /\ SignInAs(a) /\ Replaced(NextDoc(a))
  /\ UNCHANGED <<sess, Others>>

Codex ==
  \/ \E s \in Sessions : Open(s) \/ Renew(s) \/ WriteBack(s) \/ End(s)
  \/ \E a \in Accounts : SignIn(a)
  \/ Logout

-----------------------------------------------------------------------------

\* What the command does by itself.
Step ==
  \/ Sync \/ SyncSave \/ Adopt \/ LoginPreserve \/ LoginSave \/ LoginRegister
  \/ Switch \/ Install \/ Verify \/ SwitchBack \/ Switched
  \/ Plan \/ Visit \/ Refreshed \/ Limited \/ Mirror \/ Visited \/ Sweep
  \/ List \/ RemoveSlot \/ Label \/ Save

Cas == <<outer, parked, disk, pc, cmd, locals>>

ClientStep == Client /\ UNCHANGED Cas
ServerStep == Server /\ UNCHANGED Cas

Next ==
  \/ \E c \in Commands, n \in SlotIds \union {0} : Begin(c, n)
  \/ Step
  \/ CodexLogin
  \/ Confirmed
  \/ ClientStep
  \/ ServerStep
  \/ Crash
  \/ Codex

Spec == Init /\ [][Next]_vars

\* A command goes on, and its deadlines pass; an app-server answers unless it
\* hangs. Nothing is promised of the user, who may never finish `codex login`, nor
\* answer whether a slot is to go.
Progress == Step \/ ClientStep \/ ("server" \notin weather /\ ServerStep)

FairSpec == Spec /\ WF_vars(Progress)

-----------------------------------------------------------------------------
(***************************************************************************)
(* What the Codex side promises.                                           *)
(***************************************************************************)

\* Whatever fails, and wherever a command dies, the credential parked for a
\* registered slot is one of the slot's account (SyncActive, registerLive,
\* refreshCodexSlot and fetchCodexLimit write by identity; numbers are reused).
SlotsHoldTheirAccount ==
  \A n \in Registered(disk) : parked[n] # NoDoc => parked[n].acct = disk.slots[n].acct

\* No account is registered under two slots (State.FindByIdentity before Add).
OnePerAccount(t) ==
  \A m, n \in Registered(t) : t.slots[m].acct = t.slots[n].acct => m = n

OneSlotPerAccount == OnePerAccount(disk)

\* The running command's table has one slot per account, too, and is right about
\* what is parked; it and codex-state.json contradict each other about no number,
\* and it lacks a slot only once removing slots is all that is left to do.
Memory ==
  /\ OnePerAccount(mem)
  /\ \A n \in Registered(mem) : parked[n] # NoDoc => parked[n].acct = mem.slots[n].acct
  /\ pc # "idle" =>
       \A n \in Registered(disk) :
         IF n \in Registered(mem) THEN mem.slots[n].acct = disk.slots[n].acct
         ELSE pc \in {"sweep", "save"}

\* What a command is about to write belongs where it is going to.
Targets ==
  /\ pc \in {"install", "start", "verify"} => tgt \in Registered(mem)
  /\ pc = "call" => /\ tgt \in Registered(mem) /\ doc # NoDoc
                    /\ doc.acct = mem.slots[tgt].acct
  /\ pc \notin {"next", "call", "mirror"} => todo = {}
  /\ pc \notin {"next", "call", "mirror", "ask", "sweep", "save"} => dead = {}
  /\ todo \subseteq Registered(mem) /\ dead \subseteq Registered(mem)
  /\ dead # {} => cmd = "clean"
  /\ pc = "sweep" => dead # {}
  /\ pc = "ask" => \/ cmd = "remove" /\ tgt \in Registered(mem)
                   \/ cmd = "clean" /\ dead # {}

\* What SyncActive, registerLive, switch and the loops of refresh, limit and clean
\* rely on between their steps.
Filing == TypeOK /\ SlotsHoldTheirAccount /\ OneSlotPerAccount /\ Memory /\ Targets

\* What the slots, their tags, auth.json, the command and its app-server hold is in D.
HeldIn(D) ==
  /\ parked \in [SlotIds -> D] /\ auth \in [Homes -> D]
  /\ mem.slots \in [SlotIds -> D] /\ disk.slots \in [SlotIds -> D]
  /\ {doc, prev, proc.doc, NoDoc, NoSlot} \subseteq D

\* The documents there are, and no document: every one that anything holds is
\* one of them, so that a document that stopped working never works again.
Issued == {d \in Docs : d = NoDoc \/ d.gen <= issued[d.acct]}

AllIssued ==
  /\ \A a \in Keys : issued[a] <= 1
  /\ HeldIn(Issued \union {NoSlot})
  /\ \A s \in Sessions : sess[s].doc \in Issued

\* What a session has renewed and not stored is its own.
Unshared ==
  \A s \in Sessions : sess[s].dirty =>
    /\ sess[s].doc \in Doc /\ sess[s].doc.acct \notin Keys
    /\ HeldIn((Docs \union {NoSlot}) \ {sess[s].doc})
    /\ \A r \in Sessions \ {s} : sess[r].doc # sess[s].doc

IsDead(d) == d = NoDoc \/ (d.acct \notin Keys /\ ~Working(d))

\* Nothing makes an error look like the end of a credential that is not: no read
\* fails, there is an app-server to start, it sees the document it is given, and
\* its errors do not read like a refusal.
Telling == weather \intersect {"read", "exec", "keyring", "text"} = {}

\* clean finds dead only what is, where the errors tell: what it judges is the
\* slot's own document, and it does not touch a slot again that it has judged.
Verdicts ==
  /\ todo \intersect dead = {}
  /\ pc \in {"call", "mirror"} => tgt \notin todo \union dead
  /\ Telling =>
       /\ \A n \in dead : IsDead(parked[n])
       /\ pc = "call" => answer.kind \notin {"unauthorized", "missing"}
       /\ pc = "call" /\ cmd = "clean" =>
            /\ doc = parked[tgt] /\ doc.acct \notin Keys
            /\ proc.st = "up" => proc.doc = doc
            /\ answer.kind = "rejected" => IsDead(doc)

\* What an app-server leaves in the temporary home is what the slot holds, or
\* succeeds it.
Copies ==
  pc = "call" =>
    /\ doc = parked[tgt] /\ (proc.st = "up" => proc.doc = doc)
    /\ (auth["temp"] = doc /\ proc.st # "renewed") \/ IsDead(doc)

\* d is what auth.json holds, or what it may be made to hold again.
MayBeLive(d) ==
  \/ d = auth["live"]
  \/ \E s \in Sessions : sess[s].dirty /\ d = sess[s].doc
  \/ proc.st = "renewed" /\ d = proc.doc
  \/ pc \in {"install", "mirror"} /\ d = doc
  \/ pc \in {"install", "start", "verify"} /\ d = prev

\* Slot n's tag says what is parked there, or something that is not seen live
\* again, or only when it is dead.
TagFits(n, tag) == parked[n] \in {tag, NoDoc} \/ ~MayBeLive(tag) \/ IsDead(tag)

TagsFit(t) == \A n \in Registered(t) : TagFits(n, t.slots[n])

\* A registered slot has a credential, unless removing it was not saved.
Filled ==
  weather \intersect {"crash", "save"} = {} =>
    \A n \in Registered(mem) \union (IF pc \in {"sweep", "save"} THEN {} ELSE Registered(disk)) :
      parked[n] # NoDoc

Tags == TagsFit(mem) /\ TagsFit(disk) /\ Filled

\* The login that is about to be replaced is not put back once it is gone, and
\* where its account has a slot, SyncActive or registerLive put it there.
Logins ==
  /\ pc \in {"loginSave", "codexLogin"} => cmd = "login"
  /\ pc \notin {"loginSave", "save"} => Registered(mem) \subseteq Registered(disk)
  /\ (/\ cmd = "login" /\ prev = auth["live"] /\ ~IsDead(prev)
      /\ weather \intersect {"read", "store", "save", "crash", "user"} = {}) =>
       /\ pc \in {"syncSave", "act"} =>
            \A n \in Registered(mem) : mem.slots[n].acct = prev.acct => parked[n] = prev
       /\ pc \in {"loginSave", "codexLogin"} => \E n \in Registered(mem) : parked[n] = prev

\* The inductive invariant.
IInv == Filing /\ AllIssued /\ Unshared /\ Verdicts /\ Copies /\ Tags /\ Logins

-----------------------------------------------------------------------------
(***************************************************************************)
(* Why no working login is lost.                                           *)
(***************************************************************************)

\* auth.json is only behind where a session or an app-server has yet to store what it
\* renewed; and nothing fails but a deletion.
Attended ==
  /\ weather \intersect {"read", "store", "live", "user", "server", "text", "crash"} = {}
  /\ ~putBack
Unharmed == weather \subseteq {"delete"} /\ ~putBack

\* What was renewed and is not stored yet works, and nobody else has it; nor has anybody
\* what an app-server left in the temporary home.
Unstored ==
  /\ \A s \in Sessions : sess[s].dirty => Working(sess[s].doc)
  /\ proc.st = "renewed" =>
       /\ Working(proc.doc) /\ proc.doc.acct \notin Keys /\ proc.doc # auth["live"]
       /\ \A s \in Sessions : sess[s].doc # proc.doc
       /\ pc = "call" => proc.doc.acct = doc.acct
  /\ pc = "call" /\ auth["temp"] # doc =>
       /\ Working(auth["temp"]) /\ auth["temp"].acct = doc.acct /\ doc.acct \notin Keys
       /\ auth["temp"] # auth["live"] /\ proc.st \notin {"up", "renewed"}
       /\ \A s \in Sessions : sess[s].doc # auth["temp"]

\* What is installed or mirrored is what its slot holds.
FromSlot ==
  /\ pc = "install" => doc = parked[tgt]
  /\ pc = "mirror" => /\ tgt = mem.active /\ tgt \in Registered(mem)
                      /\ doc = parked[tgt] /\ doc = auth["temp"]

\* The command has synced, and not yet come to what it is for; adopt alone does not sync.
Synced ==
  /\ pc \in {"syncSave", "act", "install", "next", "call", "mirror", "loginSave", "codexLogin"}
  /\ pc = "act" => cmd # "adopt"

\* After the sync, only the active slot holds what auth.json holds, unless it is a key.
Apart ==
  Attended /\ Synced =>
    \A n \in Registered(mem) \ {mem.active} :
      parked[n].acct \in Accounts \ Keys => parked[n] # auth["live"]

\* What slot n holds, and what it is about to get from an app-server.
Coming(n) ==
  {parked[n]} \union
    (IF pc = "call" /\ n = tgt
     THEN {auth["temp"]} \union (IF proc.st = "renewed" THEN {proc.doc} ELSE {}) ELSE {})

\* d works, and auth.json holds another document of the account, which does not.
Outdates(d) ==
  /\ Working(d) /\ auth["live"] # d /\ auth["live"].acct = d.acct
  /\ ~Working(auth["live"])

\* A session or an app-server is about to store a document of account a in auth.json.
Storing(a) ==
  \/ \E s \in Sessions : sess[s].dirty /\ sess[s].doc.acct = a
  \/ proc.st = "renewed" /\ proc.home = "live" /\ proc.doc.acct = a

\* auth.json holds a spent document while a slot of the account has a working one only
\* until what replaces it is stored there.
Followable ==
  Attended =>
    \A n \in Registered(mem) \union Registered(disk) : \A d \in Coming(n) :
      Outdates(d) =>
        \/ Storing(d.acct)
        \/ n = mem.active /\ (pc = "mirror" \/ (pc = "call" /\ n = tgt /\ d # parked[n]))

\* d is in a slot that is named, or in a session.
Kept(d) ==
  \/ \E n \in Registered(mem) \union Registered(disk) : parked[n] = d
  \/ \E s \in Sessions : sess[s].doc = d

\* Where a step may replace what auth.json holds, and it is of a registered account, it
\* is held elsewhere; what an app-server left in the temporary home, the command takes.
Backed ==
  Unharmed =>
    /\ (/\ Synced /\ Working(auth["live"])
        /\ \E n \in Registered(mem) : mem.slots[n].acct = auth["live"].acct) => Kept(auth["live"])
    /\ pc = "verify" /\ proc # NoProc /\ Working(auth["live"]) =>
         auth["live"].acct = proc.doc.acct \/ Kept(auth["live"])
    /\ pc = "call" /\ auth["temp"] # doc =>
         \/ proc.st = "ready" /\ proc.doc = auth["temp"]
         \/ proc = NoProc /\ answer = Named(doc.acct)
    /\ pc = "save" => \/ Registered(mem) \subseteq Registered(disk)
                      \/ Registered(disk) \subseteq Registered(mem)

Lineage == Unstored /\ FromSlot /\ Apart /\ Followable /\ Backed

\* SyncActive leaves a slot alone whose tag is that of the live document: then
\* the slot still has a working credential if the live one works. Only a
\* removal that was not saved may have taken it away.
SkippingIsSafe ==
  LET a == Active(mem) IN
  pc = "sync" /\ a # 0 /\ UpToDate(auth["live"]) /\ Working(auth["live"]) =>
    \/ Working(parked[a])
    \/ parked[a] = NoDoc /\ weather \intersect {"crash", "save"} # {}

\* What SyncActive copies into a slot never replaces a working credential by one
\* that is spent, unless auth.json is behind: a session or an app-server has yet to
\* store what it renewed or ended before it did, a slot or auth.json could not be
\* read or written, or a switch put back what was live when it began.
SyncKeepsWorking ==
  [][(/\ pc = "sync" /\ Attended
      /\ \A s \in Sessions : ~sess[s].dirty) =>
       \A n \in SlotIds :
         parked'[n] # parked[n] /\ Working(parked[n]) => Working(parked'[n])]_vars

\* The documents in the slots that codex-state.json or the running command names.
InSlots == {parked[n] : n \in Registered(mem) \union Registered(disk)}

\* Every document that something still holds; an app-server holds its own until it
\* has stored it.
Held ==
  InSlots \union {auth[h] : h \in Homes} \union {sess[s].doc : s \in Sessions}
    \union (IF proc.st = "renewed" THEN {proc.doc} ELSE {})

StillIn(a) == \E d \in Held : d.acct = a /\ Working(d)

\* As long as nothing fails but a deletion, no step of a command but remove loses the
\* last working document of a registered account (switch, refreshCodexSlot,
\* fetchCodexLimit, registerLive), unless a switch has put back what was live when it began.
LosesNoAccount ==
  [][\A a \in {mem.slots[n].acct : n \in Registered(mem)} :
       (weather \subseteq {"delete"} /\ ~putBack' /\ cmd # "remove" /\ UNCHANGED sess
        /\ StillIn(a)) => StillIn(a)']_vars

\* `codex login` replaces a working login only when its slot has a working one
\* as well ("Preserve an untracked current login before Codex replaces
\* auth.json"), unless Codex or the user changed auth.json since cas looked at it.
LoginPreserves ==
  [][(/\ pc = "codexLogin" /\ auth'["live"] # auth["live"] /\ auth["live"] = prev
      /\ weather \intersect {"read", "store", "save", "crash", "user"} = {} /\ Working(prev)) =>
        \E n \in Registered(disk) : parked[n].acct = prev.acct /\ Working(parked[n])]_vars

\* clean deletes only documents that are dead ("removes only credentials proven dead or
\* missing"), an app-server that fails or times out being no proof, as long as errors
\* tell: definiteCodexAuthFailure takes an error for proof by its text, so a failing
\* read, no app-server, a Codex that sees no account, or a message that happens to
\* read like a refusal costs a login that works.
SparesTheLiving ==
  [][pc = "sweep" /\ Telling =>
       \A n \in SlotIds : parked'[n] # parked[n] => ~Working(parked[n])]_vars

\* The slot that is active once SyncActive has looked at auth.json is the account
\* Codex is signed in to (current "show[s] which Codex account is active"; switch
\* takes the active slot's document for installed). One failing read may hide it.
ActiveIsLive ==
  [][pc = "sync" /\ pc' # pc /\ "read" \notin weather /\ Active(mem') # 0 =>
       auth["live"].acct = mem'.slots[Active(mem')].acct]_vars

\* The command waits for its user: for `codex login`, or for an answer.
Waiting == pc \in {"codexLogin", "ask"}

\* Whatever Codex and its app-servers do, a command comes to its end, and gives the
\* lock back, or to where it waits for its user, and from there to its end again
\* (the contexts of ReadAccount, Refresh and Snapshot; confirmed has none).
CommandsEnd == (pc # "idle" /\ ~Waiting) ~> (pc = "idle" \/ Waiting)

==============================================================================
