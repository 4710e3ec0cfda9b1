---------------------------- MODULE ClaudeSwitch ----------------------------
(***************************************************************************)
(* The Claude side of `cas` (package app: app.go, cmd_switch.go,           *)
(* cmd_login.go, cmd_refresh.go, cmd_clean.go, cmd_list.go, cmd_limit.go)  *)
(* beside the Claude Code sessions that share the live credential with it. *)
(*                                                                         *)
(* A command takes the flock over ~/.cas, loads state.json into memory,    *)
(* runs, may save, and releases the lock when it exits, so one command     *)
(* runs at a time.  Between any two of its effects on something that       *)
(* outlives it (a Keychain item, ~/.claude.json, state.json, a refresh     *)
(* token spent at the service) the sessions go on, time passes, and the    *)
(* command may die.  Those effects are the steps of this specification.    *)
(***************************************************************************)
EXTENDS SlotTable, TokenServer

CONSTANTS
  Sessions,   \* the Claude Code processes
  Commands,   \* the commands the user and the launchd agent run
  Faults,     \* what may go wrong on this machine, see FaultKinds
  Start,      \* Start[n]: the account that slot n is registered for at first
  Outside     \* what Claude Code and time may do, see OutsideKinds

CommandNames ==
  {"switch", "login", "adopt", "remove", "label", "list", "limit", "refresh", "clean"}

\* A Keychain read, a write of a slot's item, of the live item, of
\* ~/.claude.json, of state.json, a deletion of a slot's item; the process dies.
FaultKinds == {"read", "store", "live", "config", "save", "delete", "crash"}

\* A session opens, ends, or renews its credential; `claude /login`;
\* it stores a renewed credential without its deadline; an access token lapses; a
\* refresh token's deadline passes, one that the service set or one that cas guessed.
OutsideKinds == {"open", "end", "renew", "signin", "omit", "lapse", "expire", "guess"}

ASSUME ClaudeSwitchAssumption ==
  /\ Commands \subseteq CommandNames
  /\ Faults \subseteq FaultKinds
  /\ Outside \subseteq OutsideKinds
  /\ Outages \subseteq OutageKinds
  /\ Start \in [SlotIds -> Owner]
  /\ \A m, n \in SlotIds : Start[m] = Start[n] /\ Start[m] # NoAccount => m = n
  /\ 1 \in Gens

VARIABLES
  kc,       \* kc[n]: the item slot-n of the cas-credentials Keychain service
  live,     \* Claude Code's own Keychain item
  config,   \* the account of the oauthAccount block in ~/.claude.json
  disk,     \* the slot table in state.json
  sess,     \* what each session holds in memory, and whether it has yet to store it
  pc, cmd,  \* where the command that holds the lock is, and which one it is
  mem,      \* its slot table (App.State)
  tgt,      \* the slot it is about
  env,      \* the credential it is about to write
  seen,     \* the live credential as SyncActive read it
  who,      \* an account it was told: by the config file, or by a sign-in
  todo,     \* the slots whose refresh call is still running
  got,      \* the outcome of each slot's call, until it is applied
  misled    \* history: a credential was filed on the config file's word, which was wrong

stores == <<kc, live, config, disk>>
locals == <<cmd, tgt, env, seen, who, todo, got>>
vars == <<server, stores, sess, pc, mem, locals, misled, until>>

Steps ==
  {"idle", "dead", "sync", "confirm", "act", "ensure", "rotate", "park", "install",
   "point", "save", "calls", "mirror", "ask", "sweep", "register",
   "loginSave", "adoptRotate", "adoptWrite", "adoptStore"}

NoCalls == [n \in SlotIds |-> Nothing]

TypeOK ==
  /\ ServerTypeOK
  /\ kc \in [SlotIds -> Creds]
  /\ live \in Creds
  /\ config \in Owner
  /\ disk \in Table
  /\ sess \in [Sessions -> [cred: Creds, dirty: BOOLEAN]]
  /\ pc \in Steps
  /\ cmd \in CommandNames \union {"none"}
  /\ mem \in Table
  /\ tgt \in SlotIds \union {0}
  /\ env \in Creds
  /\ seen \in Creds
  /\ who \in Owner
  /\ todo \in SUBSET SlotIds
  /\ got \in [SlotIds -> Outcome]
  /\ misled \in BOOLEAN
  /\ until \in [Cred -> Gens \union {0}]

-----------------------------------------------------------------------------
(***************************************************************************)
(* The start: the accounts of Start are parked under their slots, each     *)
(* with its first credential, and Claude Code is signed in to one account  *)
(* (registered or not) or to none.                                         *)
(***************************************************************************)

FirstCred(a) == IF a = NoAccount THEN NoCred ELSE [acct |-> a, gen |-> 1]

StartTable(signedIn) ==
  LET slots == [n \in SlotIds |->
                  IF Start[n] = NoAccount THEN NoSlot
                  ELSE [uuid |-> Start[n], block |-> Start[n], revoked |-> FALSE]]
  IN [active |-> FindByAccountUUID([active |-> 0, slots |-> slots], signedIn),
      slots  |-> slots]

Init ==
  /\ \E a \in Owner :
       LET known(b) == b = a \/ \E n \in SlotIds : Start[n] = b IN
       /\ live = FirstCred(a)
       /\ config = a
       /\ disk = StartTable(a)
       /\ issued = [b \in Accounts |-> IF known(b) THEN 1 ELSE 0]
       /\ unspent = [b \in Accounts |-> IF known(b) THEN {1} ELSE {}]
  /\ lapsed = [b \in Accounts |-> 0]
  /\ ended = [b \in Accounts |-> 0]
  /\ kc = [n \in SlotIds |-> FirstCred(Start[n])]
  /\ sess = [s \in Sessions |-> [cred |-> NoCred, dirty |-> FALSE]]
  /\ pc = "idle" /\ cmd = "none" /\ mem = EmptyTable
  /\ tgt = 0 /\ env = NoCred /\ seen = NoCred /\ who = NoAccount
  /\ todo = {} /\ got = NoCalls
  /\ misled = FALSE
  /\ until = [c \in Cred |-> c.gen]

-----------------------------------------------------------------------------
(***************************************************************************)
(* Starting and ending a command.                                          *)
(***************************************************************************)

\* New: take the lock, load the table.  Remove, label and adopt do not sync first;
\* refresh and limit may name a slot (n # 0) or mean all.
Begin(c, n) ==
  /\ pc = "idle"
  /\ c \in {"switch", "remove", "label"} => n # 0
  /\ c \in {"login", "adopt", "list", "clean"} => n = 0
  /\ cmd' = c
  /\ tgt' = n
  /\ mem' = disk
  /\ pc' = IF c \in {"remove", "label", "adopt"} THEN "act" ELSE "sync"
  /\ UNCHANGED <<server, stores, sess, env, seen, who, todo, got, misled, until>>

\* The process is gone, and with it whatever was only in memory.
Gone(p) ==
  /\ pc' = p
  /\ cmd' = "none" /\ tgt' = 0 /\ mem' = EmptyTable
  /\ env' = NoCred /\ seen' = NoCred /\ who' = NoAccount
  /\ todo' = {} /\ got' = NoCalls

\* The process exits: the lock is free.
Exit == Gone("idle")

\* A command returns an error before it saved anything.
Fail == Exit /\ UNCHANGED <<server, stores, sess, misled, until>>

\* The process dies wherever it is, and the kernel drops its flock.
Crash ==
  /\ pc \notin {"idle", "dead"} /\ "crash" \in Faults
  /\ Gone("dead")
  /\ UNCHANGED <<server, stores, sess, misled, until>>

Release ==
  /\ pc = "dead"
  /\ pc' = "idle"
  /\ UNCHANGED <<server, stores, sess, mem, locals, misled, until>>

\* App.Save, the last thing a command does; an error is its result.
Save ==
  /\ pc = "save"
  /\ \/ disk' = mem
     \/ "save" \in Faults /\ disk' = disk
  /\ Exit
  /\ UNCHANGED <<server, kc, live, config, sess, misled, until>>

\* What a read of a slot's item, or of the live item, may give: the code treats
\* an item it cannot read like one that is not there.
SlotReads(n) == {kc[n]} \union (IF "read" \in Faults THEN {NoCred} ELSE {})
LiveReads == {live} \union (IF "read" \in Faults THEN {NoCred} ELSE {})

\* AccessExpired(skew): certain once the token has lapsed; before that a
\* credential may or may not be within the skew of its expiry.
MayBeDue(c, due) == Lapsed(c) => due

-----------------------------------------------------------------------------
(***************************************************************************)
(* SyncActive: reconcile the table with the live credential.  The live     *)
(* item, the active slot's item and the config are read first; the owner   *)
(* is asked for, and the slot written, up to ten seconds later.            *)
(***************************************************************************)

SyncRead ==
  /\ pc = "sync"
  /\ \E l \in LiveReads :
       \/ /\ \/ l = NoCred
             \/ Registered(mem) = {}
             \/ Active(mem) # 0 /\ l \in SlotReads(Active(mem))
          /\ pc' = "act"
          /\ UNCHANGED <<seen, who>>
       \/ /\ l # NoCred
          /\ Registered(mem) # {}
          /\ Active(mem) # 0 => SlotReads(Active(mem)) \ {l} # {}
          /\ pc' = "confirm"
          /\ seen' = l
          /\ who' = config
  /\ UNCHANGED <<server, stores, sess, cmd, mem, tgt, env, todo, got, misled, until>>

\* preserveRefreshExpiry(s, c): if c has no deadline it takes on the last one that slot n
\* knew, which is its item's: ApplyCred copies it into the table whenever the item is
\* written.  The copies of a credential are not told apart by who wrote them.
PreserveRefreshExpiry(n, c) ==
  until' = IF until[c] # 0 \/ kc[n] = NoCred THEN until
           ELSE [until EXCEPT ![c] = until[kc[n]]]

\* Mutant: the slot stays marked revoked.
MutAdoptLiveInto(n, t) ==
  /\ kc' = IF kc[n] = seen THEN kc ELSE [kc EXCEPT ![n] = seen]
  /\ mem' = t
  /\ UNCHANGED until

\* adoptLiveInto(s, live, rawAccount) on table t.
AdoptLiveInto(n, t) ==
  \/ /\ kc[n] = seen
     /\ mem' = t
     /\ UNCHANGED <<kc, until>>
  \/ /\ kc[n] # seen \/ "read" \in Faults
     /\ PreserveRefreshExpiry(n, seen)
     /\ kc' = [kc EXCEPT ![n] = seen]
     /\ LET named == who # NoAccount /\ t.slots[n].uuid \in {who, NoAccount}
            s == SetRevoked(t, n, FALSE)
        IN mem' = IF named THEN SetBlock(s, n, who) ELSE s
  \/ /\ kc[n] # seen /\ "store" \in Faults
     /\ mem' = t
     /\ UNCHANGED <<kc, until>>

\* Mutant: the live credential is the active slot's, whoever owns it.
MutSyncTarget(owner) ==
  IF Active(mem) # 0 THEN Active(mem) ELSE FindByAccountUUID(mem, owner)

\* The slot whose credential SyncActive takes the live one to be, when the
\* owner is the given account; 0 for none.
SyncTarget(owner) ==
  LET a == Active(mem)
  IN IF a # 0 /\ (owner = NoAccount \/ mem.slots[a].uuid \in {NoAccount, owner})
     THEN a ELSE FindByAccountUUID(mem, owner)

\* Mutant: the active marker stays where it was.
MutSyncConfirm ==
  /\ pc = "confirm"
  /\ \E answer \in Answers(seen) :
       LET n == SyncTarget(IF answer # NoAccount THEN answer ELSE who)
       IN /\ IF n # 0 THEN AdoptLiveInto(n, mem) ELSE UNCHANGED <<kc, mem, until>>
          /\ misled' = (misled \/ (answer = NoAccount /\ who # seen.acct))
  /\ pc' = "act" /\ seen' = NoCred /\ who' = NoAccount
  /\ UNCHANGED <<server, live, config, disk, sess, cmd, tgt, env, todo, got>>

SyncConfirm ==
  /\ pc = "confirm"
  /\ \E answer \in Answers(seen) :
       LET owner == IF answer # NoAccount THEN answer ELSE who
           n == SyncTarget(owner)
       IN /\ \/ n # 0 /\ AdoptLiveInto(n, Activate(mem, n))
             \/ n = 0 /\ mem' = Activate(mem, 0) /\ UNCHANGED <<kc, until>>
          /\ misled' = (misled \/ (answer = NoAccount /\ who # seen.acct))
  /\ pc' = "act" /\ seen' = NoCred /\ who' = NoAccount
  /\ UNCHANGED <<server, live, config, disk, sess, cmd, tgt, env, todo, got>>

-----------------------------------------------------------------------------
(***************************************************************************)
(* switch, and the activation that a login may end with.                   *)
(***************************************************************************)

\* CmdSwitch after the sync: find the slot.
Switch ==
  /\ pc = "act" /\ cmd = "switch"
  /\ \/ tgt \notin Registered(mem) /\ Fail
     \/ /\ tgt \in Registered(mem)
        /\ pc' = IF tgt = mem.active THEN "save" ELSE "ensure"
        /\ UNCHANGED <<server, stores, sess, mem, locals, misled, until>>

\* EnsureFresh up to its network call.
EnsureFresh ==
  /\ pc = "ensure"
  /\ \E c \in SlotReads(tgt) :
       \/ c = NoCred /\ Fail
       \/ /\ c # NoCred
          /\ \E due \in BOOLEAN :
               /\ MayBeDue(c, due)
               /\ \/ due /\ RefreshExpired(c) /\ Fail
                  \/ /\ ~(due /\ RefreshExpired(c))
                     /\ env' = c
                     /\ pc' = IF due THEN "rotate" ELSE "install"
                     /\ UNCHANGED <<server, stores, sess, cmd, mem, tgt, seen,
                                    who, todo, got, misled, until>>

\* Mutant: any live credential that has not lapsed will do.
MutRecover(n, c, out) ==
  /\ \E l \in LiveReads :
       out = IF l # NoCred /\ l # c /\ ~Lapsed(l) THEN Recovered(l) ELSE Rejected
  /\ UNCHANGED until

\* recoverLiveCredential: what a rejected refresh of slot n's credential c ends
\* with once the live credential was considered in its place.
Recover(n, c, out) ==
  \E l \in LiveReads :
    LET usable == l # NoCred /\ l # c /\ ~Lapsed(l)
    IN \/ /\ usable
          /\ mem.slots[n].uuid # NoAccount
          /\ mem.slots[n].uuid \in Answers(l)
          /\ PreserveRefreshExpiry(n, l)
          /\ out = Recovered(l)
       \/ /\ usable => Answers(l) # {mem.slots[n].uuid}
          /\ out = Rejected
          /\ UNCHANGED until

\* A refresh of slot n's credential c as EnsureFresh and Refresh make it.
RefreshOrRecover(n, c, out) ==
  \/ Refresh(c, out) /\ out # Rejected /\ UNCHANGED until
  \/ Refresh(c, Rejected) /\ Recover(n, c, out)

\* EnsureFresh's network call.
EnsureFreshCall ==
  /\ pc = "rotate"
  /\ \E out \in Outcome :
       /\ RefreshOrRecover(tgt, env, out)
       /\ \/ /\ out.kind \in {"ok", "recovered"}
             /\ env' = out.cred
             /\ pc' = "park"
             /\ UNCHANGED <<cmd, mem, tgt, seen, who, todo, got>>
          \/ /\ out.kind = "failed" /\ ~Lapsed(env)
             /\ pc' = "install"
             /\ UNCHANGED <<mem, locals>>
          \/ /\ out.kind = "rejected" \/ (out.kind = "failed" /\ Lapsed(env))
             /\ Exit
  /\ UNCHANGED <<stores, sess, misled>>

\* EnsureFresh parks the renewed credential in its slot.
EnsureFreshStore ==
  /\ pc = "park"
  /\ \/ /\ kc' = [kc EXCEPT ![tgt] = env]
        /\ mem' = SetRevoked(mem, tgt, FALSE)
        /\ pc' = "install"
        /\ UNCHANGED <<server, live, config, disk, sess, locals, misled, until>>
     \/ "store" \in Faults /\ Fail

\* activate: the outgoing slot keeps its account block, the credential goes live.
Install ==
  /\ pc = "install"
  /\ \/ /\ live' = env
        /\ LET prev == Active(mem)
           IN mem' = IF /\ prev \notin {0, tgt}
                        /\ config # NoAccount
                        /\ mem.slots[prev].uuid \in {config, NoAccount}
                     THEN SetBlock(mem, prev, config) ELSE mem
        /\ pc' = "point"
        /\ env' = NoCred
        /\ UNCHANGED <<server, kc, config, disk, sess, cmd, tgt, seen, who, todo,
                       got, misled, until>>
     \/ "live" \in Faults /\ Fail

\* Mutant: ~/.claude.json goes on naming the account before.
MutPoint ==
  /\ pc = "point" /\ pc' = "save"
  /\ mem' = Activate(mem, tgt)
  /\ UNCHANGED <<server, stores, sess, locals, misled, until>>

\* activate: ~/.claude.json names the new account (a failure is only warned of).
Point ==
  /\ pc = "point"
  /\ LET block == mem.slots[tgt].block
     IN \/ config' = IF block = NoAccount THEN config ELSE block
        \/ "config" \in Faults /\ config' = config
  /\ mem' = Activate(mem, tgt)
  /\ pc' = "save"
  /\ UNCHANGED <<server, kc, live, disk, sess, locals, misled, until>>

-----------------------------------------------------------------------------
(***************************************************************************)
(* App.Refresh, the pass behind refresh, list, limit and clean: one call   *)
(* per due slot, all in flight together, and only when the last one is     *)
(* back (wg.Wait) the writes, one slot after the other.                    *)
(***************************************************************************)

Calls(due, dead) ==
  /\ todo' = due
  /\ got' = [n \in SlotIds |-> IF n \in dead THEN Rejected ELSE Nothing]
  /\ pc' = "calls"
  /\ UNCHANGED <<server, stores, sess, mem, cmd, tgt, env, seen, who, misled, until>>

\* Mutant: the access token's deadline for the refresh token's.
MutExpired(n) == Lapsed(kc[n])

Expired(n) == RefreshExpired(kc[n])

\* CmdRefresh: the slot the user names, or any that are near expiry (or all).
PlanRefresh ==
  /\ pc = "act" /\ cmd = "refresh"
  /\ \/ tgt \notin Registered(mem) \union {0} /\ Fail
     \/ /\ tgt \in Registered(mem) \union {0}
        /\ LET named == IF tgt = 0 THEN Registered(mem) ELSE {tgt}
               present == {n \in named : kc[n] # NoCred}
           IN \E due \in SUBSET present :
                /\ \A n \in present \ due : Lapsed(kc[n]) => "read" \in Faults
                /\ LET dead == {n \in due : Expired(n)} IN Calls(due \ dead, dead)

\* AutoRefresh under list and limit: what is near expiry, unless known to be dead.
PlanAuto ==
  /\ pc = "act" /\ cmd \in {"list", "limit"}
  /\ \/ tgt \notin Registered(mem) \union {0} /\ Fail
     \/ /\ tgt \in Registered(mem) \union {0}
        /\ LET alive == {n \in Registered(mem) :
                           ~mem.slots[n].revoked /\ kc[n] # NoCred /\ ~Expired(n)}
           IN \E due \in SUBSET alive :
                /\ \/ due = {} /\ cmd = "list"        \* --no-refresh
                   \/ \A n \in alive \ due : Lapsed(kc[n]) => "read" \in Faults
                /\ Calls(due, {})

\* checkSlots: a slot without a readable credential is dead, and so is one past
\* its deadline; the others are asked for.
PlanClean ==
  /\ pc = "act" /\ cmd = "clean"
  /\ \E missing \in SUBSET Registered(mem) :
       /\ \A n \in missing : NoCred \in SlotReads(n)
       /\ \A n \in Registered(mem) \ missing : kc[n] # NoCred
       /\ LET dead == missing \union {n \in Registered(mem) \ missing : Expired(n)}
          IN Calls(Registered(mem) \ dead, dead)

\* One goroutine comes back.  clean asks first whether an access token that has not
\* lapsed is still good, and spends the refresh token if it is told no; it tries no
\* recovery.
Call(n) ==
  /\ pc = "calls" /\ n \in todo
  /\ \E out \in Outcome :
       /\ IF cmd = "clean"
          THEN /\ \/ ~Lapsed(kc[n]) /\ out = Nothing /\ UNCHANGED server
                  \/ /\ Lapsed(kc[n]) \/ "invalid" \in Outages
                     /\ Refresh(kc[n], out)
               /\ UNCHANGED until
          ELSE RefreshOrRecover(n, kc[n], out)
       /\ got' = [got EXCEPT ![n] = out]
  /\ todo' = todo \ {n}
  /\ UNCHANGED <<stores, sess, pc, mem, cmd, tgt, env, seen, who, misled>>

\* What is applied next, in slot order: clean leaves its dead to the sweep.
Pending ==
  {n \in SlotIds : got[n].kind \in {"ok", "recovered", "failed"}
                     \/ (got[n].kind = "rejected" /\ cmd # "clean")}

Apply(n) ==
  /\ pc = "calls" /\ todo = {} /\ Pending # {}
  /\ n = Lowest(Pending)
  /\ got' = [got EXCEPT ![n] = Nothing]
  /\ UNCHANGED <<server, live, config, disk, sess, cmd, tgt, seen, who, todo, misled, until>>

\* The slot table after a good refresh of slot n: the response may name the
\* account, --profile also brings its account block; clean looks at neither.
Renamed(n, c) ==
  LET named == Put(mem, n, [mem.slots[n] EXCEPT !.uuid = c.acct])
  IN {mem} \union (IF cmd = "clean" THEN {} ELSE {named})
           \union (IF cmd = "refresh" THEN {SetBlock(named, n, c.acct)} ELSE {})

\* Mutant: only the active slot's new credential is stored.
MutApplyRenewed(n) ==
  /\ Apply(n)
  /\ got[n].kind \in {"ok", "recovered"}
  /\ kc' = IF mem.active = n THEN [kc EXCEPT ![n] = got[n].cred] ELSE kc
  /\ mem' = SetRevoked(mem, n, FALSE)
  /\ IF mem.active = n THEN env' = got[n].cred /\ pc' = "mirror"
     ELSE UNCHANGED <<env, pc>>

ApplyRenewed(n) ==
  /\ Apply(n)
  /\ got[n].kind \in {"ok", "recovered"}
  /\ \E t \in (IF got[n].kind = "ok" THEN Renamed(n, got[n].cred) ELSE {mem}) :
       \/ /\ kc' = [kc EXCEPT ![n] = got[n].cred]
          /\ mem' = SetRevoked(t, n, FALSE)
          /\ IF mem.active = n THEN env' = got[n].cred /\ pc' = "mirror"
             ELSE UNCHANGED <<env, pc>>
       \/ /\ "store" \in Faults
          /\ mem' = t
          /\ UNCHANGED <<kc, env, pc>>

ApplyFailed(n) ==
  /\ Apply(n)
  /\ got[n].kind = "failed"
  /\ UNCHANGED <<kc, mem, env, pc>>

ApplyRejected(n) ==
  /\ Apply(n)
  /\ got[n].kind = "rejected"
  /\ mem' = SetRevoked(mem, n, TRUE)
  /\ UNCHANGED <<kc, env, pc>>

\* Mutant: Claude Code stays on the spent token.
MutMirror ==
  /\ pc = "mirror" /\ pc' = "calls" /\ env' = NoCred
  /\ UNCHANGED <<server, stores, sess, mem, cmd, tgt, seen, who, todo, got, misled, until>>

\* "Keep Claude Code itself on the rotated token"; a failure is only warned of.
Mirror ==
  /\ pc = "mirror"
  /\ live' = env \/ ("live" \in Faults /\ live' = live)
  /\ pc' = "calls" /\ env' = NoCred
  /\ UNCHANGED <<server, kc, config, disk, sess, mem, cmd, tgt, seen, who, todo,
                 got, misled, until>>

Dead == {n \in SlotIds : got[n].kind = "rejected"}

\* The pass is over; clean marks the slots it found dead.
CallsDone ==
  /\ pc = "calls" /\ todo = {} /\ Pending = {}
  /\ mem' = [mem EXCEPT !.slots =
               [n \in SlotIds |-> IF n \in Dead \intersect Registered(mem)
                                  THEN [mem.slots[n] EXCEPT !.revoked = TRUE]
                                  ELSE mem.slots[n]]]
  /\ pc' = IF Dead # {} THEN "ask" ELSE "save"
  /\ UNCHANGED <<server, stores, sess, locals, misled, until>>

-----------------------------------------------------------------------------
(***************************************************************************)
(* Removing slots: clean's sweep, and remove.                              *)
(***************************************************************************)

\* DeleteCred (a failure is only warned of), then State.Remove.
Forget(n) ==
  /\ \/ kc' = [kc EXCEPT ![n] = NoCred]
     \/ "delete" \in Faults /\ UNCHANGED kc
  /\ mem' = Remove(mem, n)

\* CmdClean asks; a dry run, or the user, leaves it at the marks.
Ask ==
  /\ pc = "ask"
  /\ pc' \in {"save", "sweep"}
  /\ UNCHANGED <<server, stores, sess, mem, locals, misled, until>>

\* CmdClean removes the next dead slot.
Sweep(n) ==
  /\ pc = "sweep" /\ Dead # {}
  /\ n = Lowest(Dead)
  /\ Forget(n)
  /\ got' = [got EXCEPT ![n] = Nothing]
  /\ pc' = IF Dead = {n} THEN "save" ELSE "sweep"
  /\ UNCHANGED <<server, live, config, disk, sess, cmd, tgt, env, seen, who,
                 todo, misled, until>>

\* CmdRemove; the user may decline, or the slot may not exist.
RemoveSlot ==
  /\ pc = "act" /\ cmd = "remove"
  /\ \/ Fail
     \/ /\ tgt \in Registered(mem)
        /\ Forget(tgt)
        /\ pc' = "save"
        /\ UNCHANGED <<server, live, config, disk, sess, locals, misled, until>>

\* CmdLabel rewrites the item under its new label, with the same credential.
Label ==
  /\ pc = "act" /\ cmd = "label"
  /\ \/ tgt \notin Registered(mem) /\ Fail
     \/ /\ tgt \in Registered(mem)
        /\ pc' = "save"
        /\ UNCHANGED <<server, stores, sess, mem, locals, misled, until>>

-----------------------------------------------------------------------------
(***************************************************************************)
(* Registering accounts: login, which signs in by itself, and adopt, which *)
(* takes the account that Claude Code is signed in to.                     *)
(***************************************************************************)

\* CmdLogin up to the token exchange: up to five minutes under the lock, after
\* which it knows the account, unless neither response named it.
Login ==
  /\ pc = "act" /\ cmd = "login"
  /\ \/ Fail
     \/ \E a \in Accounts :
          /\ Issue(a)
          /\ env' = NextCred(a)
          /\ who' \in {a} \union (IF "unreachable" \in Outages THEN {NoAccount} ELSE {})
          /\ pc' = "register"
          /\ UNCHANGED <<stores, sess, mem, cmd, tgt, seen, todo, got, misled, until>>

\* CmdLogin files the credential: under the account's slot, or a new one.
Register ==
  LET found == FindByAccountUUID(mem, who)
      n == IF found # 0 THEN found ELSE NextFreeSlot(mem)
      old == IF found # 0 THEN mem.slots[n]
             ELSE [uuid |-> who, block |-> NoAccount, revoked |-> FALSE]
  IN /\ pc = "register"
     /\ \/ n = 0 /\ Fail                        \* the bound MaxSlots
        \/ n # 0 /\ "store" \in Faults /\ Fail
        \/ /\ n # 0
           /\ \E profiled \in BOOLEAN :
                /\ profiled => who # NoAccount
                /\ ~profiled => "unreachable" \in Outages
                /\ mem' = Put(mem, n, [old EXCEPT !.revoked = FALSE,
                                         !.block = IF profiled THEN who ELSE @])
           /\ kc' = [kc EXCEPT ![n] = env]
           /\ tgt' = n
           /\ pc' = "loginSave" /\ env' = NoCred /\ who' = NoAccount
           /\ UNCHANGED <<server, live, config, disk, sess, cmd, seen, todo, got,
                          misled, until>>

\* CmdLogin saves, and goes on to activate the slot if --activate was given or
\* no slot is active.
LoginSave ==
  /\ pc = "loginSave"
  /\ \/ /\ disk' = mem
        /\ \/ pc' = "ensure" /\ UNCHANGED <<mem, locals>>
           \/ mem.active # 0 /\ Exit
        /\ UNCHANGED <<server, kc, live, config, sess, misled, until>>
     \/ "save" \in Faults /\ Fail

\* CmdAdopt reads the live credential, and the config unless it renews first.  The live
\* item may still lack a deadline that the slot's copy was given.
Adopt ==
  /\ pc = "act" /\ cmd = "adopt"
  /\ \E l \in LiveReads :
       \/ l = NoCred /\ Fail
       \/ /\ l # NoCred
          /\ env' = l
          /\ who' = config
          /\ \E due \in BOOLEAN :
               /\ MayBeDue(l, due)
               /\ \/ due /\ (~RefreshExpired(l) \/ until[l] # l.gen) /\ pc' = "adoptRotate"
                  \/ (~due \/ RefreshExpired(l)) /\ pc' = "adoptStore"
          /\ UNCHANGED <<server, stores, sess, mem, cmd, tgt, seen, todo, got, misled, until>>

AdoptRotate ==
  /\ pc = "adoptRotate"
  /\ \E out \in Outcome :
       /\ Refresh(env, out)
       /\ env' = IF out.kind = "ok" THEN out.cred ELSE env
       /\ pc' = IF out.kind = "ok" THEN "adoptWrite" ELSE "adoptStore"
  /\ who' = config
  /\ UNCHANGED <<stores, sess, mem, cmd, tgt, seen, todo, got, misled, until>>

AdoptWrite ==
  /\ pc = "adoptWrite"
  /\ live' = env \/ ("live" \in Faults /\ live' = live)
  /\ who' = config
  /\ pc' = "adoptStore"
  /\ UNCHANGED <<server, kc, config, disk, sess, mem, cmd, tgt, env, seen,
                 todo, got, misled, until>>

\* CmdAdopt files the credential: under the slot of the account the config
\* names, else of the account the profile names, else under a new slot.
AdoptStore ==
  /\ pc = "adoptStore"
  /\ \E answer \in Answers(env) :
       LET byConfig == FindByAccountUUID(mem, who)
           found == IF byConfig # 0 THEN byConfig ELSE FindByAccountUUID(mem, answer)
           n == IF found # 0 THEN found ELSE NextFreeSlot(mem)
           old == IF found # 0 THEN mem.slots[n]
                  ELSE [uuid |-> who, block |-> who, revoked |-> FALSE]
           new == IF answer # NoAccount
                  THEN [uuid |-> answer, block |-> answer, revoked |-> FALSE]
                  ELSE [old EXCEPT !.revoked = FALSE,
                                   !.block = IF @ = NoAccount THEN who ELSE @]
       IN \/ n = 0 /\ Fail                      \* the bound MaxSlots
          \/ n # 0 /\ "store" \in Faults /\ Fail
          \/ /\ n # 0
             /\ kc' = [kc EXCEPT ![n] = env]
             /\ mem' = Activate(Put(mem, n, new), n)
             /\ misled' = (misled \/ who \notin {env.acct, NoAccount})
             /\ pc' = "save" /\ env' = NoCred /\ who' = NoAccount
             /\ UNCHANGED <<server, live, config, disk, sess, cmd, tgt, seen, todo, got,
                            until>>

-----------------------------------------------------------------------------
(***************************************************************************)
(* Claude Code: external.  A session reads the live item when it starts,   *)
(* renews its own copy, and stores the renewed pair back later (the        *)
(* comments of SyncActive and activate, README "Keeping tokens alive").    *)
(***************************************************************************)

Open(s) ==
  /\ "open" \in Outside
  /\ sess[s].cred = NoCred /\ live # NoCred
  /\ sess' = [sess EXCEPT ![s] = [cred |-> live, dirty |-> FALSE]]
  /\ UNCHANGED <<server, stores, pc, mem, locals, misled, until>>

Renew(s) ==
  /\ "renew" \in Outside
  /\ sess[s].cred # NoCred /\ ~sess[s].dirty
  /\ Rotate(sess[s].cred)
  /\ sess' = [sess EXCEPT ![s] = [cred |-> NextCred(sess[s].cred.acct), dirty |-> TRUE]]
  /\ UNCHANGED <<stores, pc, mem, locals, misled, until>>

\* "Claude Code sometimes omits the refresh-token expiry when it persists a rotated
\* credential."
WriteBack(s) ==
  /\ sess[s].dirty
  /\ live' = sess[s].cred
  /\ sess' = [sess EXCEPT ![s].dirty = FALSE]
  /\ \/ UNCHANGED until
     \/ /\ "omit" \in Outside
        /\ until[sess[s].cred] = sess[s].cred.gen
        /\ until' = [until EXCEPT ![sess[s].cred] = 0]
  /\ UNCHANGED <<server, kc, config, disk, pc, mem, locals, misled>>

End(s) ==
  /\ "end" \in Outside
  /\ sess[s].cred # NoCred
  /\ sess' = [sess EXCEPT ![s] = [cred |-> NoCred, dirty |-> FALSE]]
  /\ UNCHANGED <<server, stores, pc, mem, locals, misled, until>>

\* `claude /login`
SignIn(a) ==
  /\ "signin" \in Outside
  /\ Issue(a)
  /\ live' = NextCred(a)
  /\ config' = a
  /\ UNCHANGED <<kc, disk, sess, pc, mem, locals, misled, until>>

TimePasses(a) ==
  /\ \/ "lapse" \in Outside /\ Lapse(a)
     \/ "expire" \in Outside /\ Expire(a)
     \/ "guess" \in Outside /\ Outlast(a)
  /\ UNCHANGED <<stores, sess, pc, mem, locals, misled, until>>

-----------------------------------------------------------------------------

\* The steps of the command that holds the lock.
Step ==
  \/ SyncRead \/ SyncConfirm
  \/ Switch \/ EnsureFresh \/ EnsureFreshCall \/ EnsureFreshStore \/ Install \/ Point
  \/ PlanRefresh \/ PlanAuto \/ PlanClean \/ CallsDone \/ Mirror
  \/ \E n \in SlotIds : Call(n) \/ ApplyRenewed(n) \/ ApplyFailed(n) \/ ApplyRejected(n)
  \/ Ask \/ \E n \in SlotIds : Sweep(n)
  \/ RemoveSlot \/ Label
  \/ Login \/ Register \/ LoginSave
  \/ Adopt \/ AdoptRotate \/ AdoptWrite \/ AdoptStore
  \/ Save \/ Release

ClaudeCode ==
  \/ \E s \in Sessions : Open(s) \/ Renew(s) \/ WriteBack(s) \/ End(s)
  \/ \E a \in Accounts : SignIn(a) \/ TimePasses(a)

Next ==
  \/ \E c \in Commands, n \in SlotIds \union {0} : Begin(c, n)
  \/ Step
  \/ Crash
  \/ ClaudeCode

Spec == Init /\ [][Next]_vars

-----------------------------------------------------------------------------
(***************************************************************************)
(* What the Claude side promises.                                          *)
(***************************************************************************)

\* The credential parked for slot n of table t belongs to the slot's account.
Owns(t, n) ==
  (/\ t.slots[n] # NoSlot
   /\ t.slots[n].uuid # NoAccount
   /\ kc[n] # NoCred) => kc[n].acct = t.slots[n].uuid

\* Unless a credential was ever filed for an account that ~/.claude.json wrongly
\* named, no interleaving of commands, crashes and stale sessions parks one account's
\* credential under another account's slot, in state.json or in memory
\* (SyncActive, adoptLiveInto, Refresh, CmdLogin, CmdAdopt, CmdRemove).
SlotOwnership ==
  ~misled => \A n \in SlotIds : Owns(disk, n) /\ Owns(mem, n)

\* Under the same proviso no account is registered under two slots
\* (CmdLogin and CmdAdopt look for the account's slot before they add one).
OneSlotPerAccount ==
  ~misled =>
    \A m, n \in Registered(disk) :
      disk.slots[m].uuid = disk.slots[n].uuid /\ disk.slots[m].uuid # NoAccount => m = n

\* As long as no session interferes, the three records of who is signed in
\* agree between commands: the active marker, the live item, ~/.claude.json
\* (activate and CmdAdopt write them one after the other, Refresh and checkSlots
\* replace the live item, CmdRemove drops the marker).
SignedInAgrees ==
  pc = "idle" /\ disk.active # 0 /\ ~misled =>
    /\ disk.active \in Registered(disk)
    /\ live.acct = disk.slots[disk.active].uuid
    /\ config = disk.slots[disk.active].uuid

\* The deadline that c bears, if any, is the one that the service set for it: it was
\* not carried forward from an older credential, nor made up by toResult.
Dated(c) == until[c] \in {0, c.gen} /\ "guess" \notin Outside

\* A slot that state.json calls revoked holds a refresh token that really does not
\* work, unless it bears a deadline that is not its own: the flag is cleared whenever a
\* working credential is filed (AutoRefresh never tries a revoked slot again).
RevokedIsDead ==
  pc = "idle" =>
    \A n \in Registered(disk) :
      disk.slots[n].revoked /\ kc[n] # NoCred /\ Dated(kc[n]) => ~Good(kc[n])

\* Everything that holds a credential: the items, the sessions, the command.
Held ==
  {kc[n] : n \in SlotIds} \union {sess[s].cred : s \in Sessions}
    \union {live, env} \union {got[n].cred : n \in SlotIds}

Working(a) == {c \in Held : c.acct = a /\ Good(c)}

\* No step of a command but remove loses the last credential of a registered
\* account whose refresh token still works: it is written before its predecessor goes
\* (Refresh, EnsureFresh, CmdClean, adoptLiveInto, activate).
LosesNoAccount ==
  [][\A a \in Accounts :
       (/\ Step /\ ~misled' /\ cmd # "remove"
        /\ FindByAccountUUID(mem, a) # 0 /\ Working(a) # {}) =>
         Working(a)' # {}]_vars

\* Under the same proviso, what SyncActive folds back replaces an older credential
\* of the account, never a newer one ("copies the live credential into a slot when it
\* is newer").
FoldsBackNewer ==
  [][pc = "confirm" /\ ~misled =>
       \A n \in SlotIds :
         kc'[n] # kc[n] /\ kc'[n].acct = kc[n].acct => kc'[n].gen > kc[n].gen]_vars

\* SyncActive never writes a credential into a slot that is registered for
\* another account ("confirms the owner ... before touching any slot").
ConfirmsOwner ==
  [][pc = "confirm" =>
       \A n \in SlotIds :
         kc'[n] # kc[n] => mem.slots[n].uuid \in {seen.acct, NoAccount}]_vars

\* CmdAdopt registers the account Claude Code is signed in as: it leaves the
\* credential parked for any other account alone.
AdoptsOwnAccount ==
  [][pc = "adoptStore" =>
       \A n \in Registered(mem) :
         kc'[n] # kc[n] => mem.slots[n].uuid \in {env.acct, NoAccount}]_vars

\* CmdClean deletes only credentials that cannot be revived, as long as none bears a
\* deadline that is not its own.
CleansOnlyDead ==
  [][pc = "sweep" =>
       \A n \in SlotIds : kc'[n] # kc[n] /\ Dated(kc[n]) => ~Good(kc[n])]_vars

\* "A slot is removed only when its credential is genuinely unrecoverable" (README,
\* `cas clean`): whatever deadline it bears.
CleansOnlyUnrecoverable ==
  [][pc = "sweep" =>
       \A n \in SlotIds : kc'[n] # kc[n] => ~Good(kc[n])]_vars

-----------------------------------------------------------------------------
(***************************************************************************)
(* Why SlotOwnership holds: the inductive invariant.                       *)
(***************************************************************************)

\* A command writes under a slot number only while its own table has the slot,
\* and its table lacks a slot of state.json only if its work is removing slots.
Bookkeeping ==
  /\ pc \in {"ensure", "rotate", "park", "install", "point", "loginSave"} =>
       tgt \in Registered(mem)
  /\ pc \in {"rotate", "park", "install", "register", "adoptRotate", "adoptWrite",
             "adoptStore"} => env \in Cred
  /\ pc = "confirm" => seen \in Cred
  /\ pc = "register" => cmd = "login"
  /\ pc \in {"adoptRotate", "adoptWrite", "adoptStore"} => cmd = "adopt"
  /\ pc \in {"ask", "sweep"} => cmd = "clean"
  /\ pc # "calls" => todo = {}
  /\ pc \notin {"calls", "mirror", "ask", "sweep", "save"} => got = NoCalls
  /\ \A n \in todo : n \in Registered(mem) /\ kc[n] \in Cred
  /\ \A n \in SlotIds : got[n].kind # "none" => n \in Registered(mem)
  /\ \A n \in SlotIds : got[n].kind = "ok" => got[n].cred.acct = kc[n].acct
  /\ pc \notin {"idle", "dead"} /\ cmd \notin {"remove", "clean"} => Registered(disk) \subseteq Registered(mem)

\* c may be filed under slot n of the command's table.
Fits(c, n) == mem.slots[n].uuid \in {c.acct, NoAccount}

\* The command's table never contradicts state.json about a slot's account, and
\* what it is about to file fits the slot.
Ownership ==
  /\ \A n \in SlotIds : Owns(disk, n) /\ Owns(mem, n)
  /\ \A n \in Registered(disk) \intersect Registered(mem) :
       disk.slots[n].uuid # NoAccount => mem.slots[n].uuid = disk.slots[n].uuid
  /\ pc \in {"rotate", "park"} => Fits(env, tgt)
  /\ pc = "register" => who \in {env.acct, NoAccount}
  /\ \A n \in SlotIds : got[n].kind \in {"ok", "recovered"} => Fits(got[n].cred, n)

IInv == TypeOK /\ Bookkeeping /\ (~misled => Ownership)

-----------------------------------------------------------------------------
(***************************************************************************)
(* Why the other promises hold, as far as they do.                         *)
(***************************************************************************)

\* The service honours only what it has issued, and nothing past a deadline that it set.
ServerSound ==
  \A a \in Accounts :
    /\ ended[a] <= lapsed[a] /\ lapsed[a] <= issued[a]
    /\ unspent[a] \subseteq (IF "guess" \in Outside THEN 1 ELSE ended[a] + 1)..issued[a]

\* The credentials there are: whatever anything holds is one of them, so that one
\* that stopped working never works again.
Issued == {c \in Creds : c = NoCred \/ c.gen <= issued[c.acct]}

\* What clean has found dead stays dead until it has swept it, unless it was taken for
\* dead on a deadline that is not its own.
Judged ==
  cmd = "clean" /\ "read" \notin Faults =>
    \A n \in SlotIds :
      got[n].kind = "rejected" => kc[n] = NoCred \/ ~Good(kc[n]) \/ ~Dated(kc[n])

\* Unless a session leaves it out, every credential bears its own deadline.
OwnDates == "omit" \notin Outside => \A c \in Cred : until[c] = c.gen

Sound == ServerSound /\ Held \union {seen} \subseteq Issued /\ Judged /\ OwnDates

\* The profile endpoint answers, and ~/.claude.json goes with the live item.
Trusted ==
  /\ Outages \intersect {"unreachable", "invalid"} = {}
  /\ Faults \intersect {"config", "crash"} = {}

\* Every slot of t knows its account, which no other slot has, and its block.
Named(t) ==
  /\ \A n \in Registered(t) : t.slots[n].uuid # NoAccount /\ t.slots[n].block = t.slots[n].uuid
  /\ \A m, n \in Registered(t) : t.slots[m].uuid = t.slots[n].uuid => m = n

\* Login and adopt know the account they file, because ~/.claude.json names one as
\* soon as there is a live credential.
Told == pc \in {"register", "adoptRotate", "adoptWrite", "adoptStore"} => who # NoAccount

Signed ==
  config = NoAccount =>
    /\ mem.active = 0 /\ disk.active = 0
    /\ pc \notin {"confirm", "mirror", "adoptRotate", "adoptWrite", "adoptStore"}
    /\ pc # "point" => live = NoCred /\ \A s \in Sessions : sess[s].cred = NoCred

Known == Named(disk) /\ Named(mem) /\ Told /\ Signed

\* Nobody but cas changes who is signed in, and it is told when it fails to save.
Calm == Trusted /\ "save" \notin Faults /\ Sessions = {} /\ "signin" \notin Outside

\* t's active marker and the live item agree on who is signed in.
Agree(t) ==
  t.active # 0 => t.active \in Registered(t) /\ live.acct = t.slots[t.active].uuid

\* ~/.claude.json always tells the truth, and what goes live belongs to the slot
\* that is active or about to be.
Agreed ==
  /\ ~misled
  /\ pc # "point" => Agree(mem) /\ config = live.acct
  /\ pc \notin {"point", "save"} => Agree(disk)
  /\ pc = "confirm" => seen = live /\ who = config
  /\ pc \in {"adoptRotate", "adoptWrite", "adoptStore"} => env.acct = live.acct /\ who = env.acct
  /\ pc \in {"rotate", "park", "install"} => env.acct = mem.slots[tgt].uuid
  /\ pc = "point" => live.acct = mem.slots[tgt].uuid
  /\ pc = "mirror" => env.acct = live.acct

Steady == Sound /\ (Trusted /\ ~misled => Known) /\ (Calm => Agreed)

-----------------------------------------------------------------------------
(***************************************************************************)
(* Why no credential is lost: who holds the newest one of an account.      *)
(***************************************************************************)

\* The commands that reconcile first, without login, which brings its own credential.
Synced == {"switch", "list", "limit", "refresh", "clean"}

\* Which command may be where.
Errand ==
  /\ cmd \in Commands \union {"none"}
  /\ pc \in {"sync", "confirm"} => cmd \in Synced \union {"login"}
  /\ pc \in {"ensure", "rotate", "park", "install", "point"} => cmd \in {"switch", "login"}
  /\ pc = "loginSave" => cmd = "login"
  /\ pc \in {"calls", "mirror"} => cmd \in Synced \ {"switch"}

\* c can still be renewed; slot n holds nothing that can.
Works(c) == c # NoCred /\ Good(c)
Useless(n) == ~Works(kc[n])

\* Every account has one chain of credentials, because nobody signs in beside it,
\* and what a command reads or puts live is never missed.
OneChain ==
  /\ Trusted /\ Faults \intersect {"read", "live"} = {}
  /\ "login" \notin Commands /\ "signin" \notin Outside

\* No step fails after the service has spent a token, no answer is lost, and a session
\* that has stored a credential still holds it; no slot is added, and none is removed on
\* a deadline that is not its credential's own.
Careful ==
  /\ OneChain /\ Faults \intersect {"store", "delete"} = {} /\ "lost" \notin Outages
  /\ "adopt" \notin Commands /\ "end" \notin Outside
  /\ "clean" \in Commands => Outside \intersect {"omit", "guess"} = {}

Newest(c) == c.gen = issued[c.acct]

\* d is not an older credential of c's account; d is a newer one.
UpTo(c, d) == d.acct = c.acct => c.gen <= d.gen
Before(c, d) == d # NoCred /\ d.acct = c.acct => c.gen < d.gen

\* What cas and the live item hold, or are about to.
Copies == {kc[n] : n \in SlotIds} \union {live, env, seen} \union {got[n].cred : n \in SlotIds}

\* Only the newest credential works, and what a session has renewed but not yet
\* stored is the newest, and nobody else has it.
Chained ==
  /\ \A a \in Accounts : unspent[a] \subseteq {issued[a]}
  /\ \A s \in Sessions : sess[s].dirty =>
       /\ sess[s].cred \in Cred /\ Newest(sess[s].cred)
       /\ sess[s].cred \notin Copies
       /\ \A r \in Sessions \ {s} : sess[r].cred # sess[s].cred

\* What the command that runs holds, and where it came from.
InHand ==
  /\ pc \notin {"idle", "dead", "sweep", "save"} => Registered(disk) \subseteq Registered(mem)
  /\ pc \in {"ensure", "rotate", "park", "install"} => tgt # mem.active
  /\ pc \in {"rotate", "install"} => env = kc[tgt]
  /\ pc = "mirror" => /\ mem.active \in Registered(mem) /\ env = kc[mem.active]
                      /\ got[mem.active] = Nothing
  /\ pc \in {"adoptRotate", "adoptStore"} => UpTo(env, live)

\* The live item is never older than what is parked for its account, but for the
\* moment in which the parked one goes live.  From the sync on, what is parked under
\* another slot than the active one is older than what is live.
Ahead ==
  /\ \A n \in Registered(disk) \union Registered(mem) :
       /\ (pc = "mirror" /\ n = mem.active) \/ (pc = "install" /\ n = tgt) \/ UpTo(kc[n], live)
       /\ pc = "confirm" => UpTo(kc[n], seen)
       /\ pc \in {"adoptRotate", "adoptWrite"} => UpTo(kc[n], env)
  /\ pc \in {"act", "ensure", "rotate", "calls"} /\ cmd \in Synced =>
       \A n \in Registered(mem) \ {mem.active} :
         (pc = "calls" => n \in todo) => Before(kc[n], live)
  /\ pc = "confirm" /\ live # seen =>
       UpTo(seen, live) /\ \A n \in Registered(mem) : Before(kc[n], live)

\* A credential that a pass has brought back and not stored.
Brought ==
  \A n \in SlotIds :
    /\ got[n].kind = "ok" =>
         /\ Newest(got[n].cred) /\ got[n].cred # live
         /\ \A m \in SlotIds : got[n].cred # kc[m]
         /\ \A s \in Sessions : got[n].cred # sess[s].cred
         /\ n # mem.active => live.acct # got[n].cred.acct
    /\ got[n].kind = "recovered" => UpTo(got[n].cred, live)
    /\ got[n].kind \in {"ok", "recovered"} => pc \in {"calls", "mirror"}

Ordered == Chained /\ InHand /\ Ahead /\ Brought

\* c is in a slot, or some session has it.
Kept(c) == (\E n \in SlotIds : kc[n] = c) \/ \E s \in Sessions : sess[s].cred = c

\* Nothing is about to be overwritten that works and is held nowhere else.
Backed ==
  /\ pc \in {"act", "ensure", "rotate", "park", "install", "calls", "mirror"} /\ cmd \in Synced
       /\ Works(live) /\ FindByAccountUUID(mem, live.acct) # 0 => Kept(live)
  /\ pc = "confirm" /\ live # seen /\ Works(live) => Kept(live)
  /\ pc \notin {"rotate", "park", "install", "mirror"} => env = NoCred
  /\ pc = "park" => Useless(tgt)
  /\ \A n \in SlotIds : got[n].kind \in {"ok", "recovered"} => n \notin todo /\ Useless(n)

\* The commands here save what their sync has found: they name no slot that does not
\* exist, and do not fail.
Lasting ==
  /\ Faults \intersect {"save", "crash"} = {}
  /\ Commands \subseteq {"adopt", "label", "list", "limit", "refresh"}
  /\ \A n \in SlotIds : Start[n] # NoAccount

\* Slot n holds nothing that works, unless it bears a deadline that is not its own.
Condemned(n) == Useless(n) \/ ~Dated(kc[n])

\* Every slot that t calls revoked is one.
Marked(t) == \A n \in Registered(t) : t.slots[n].revoked => Condemned(n)

Judging ==
  /\ pc # "dead"
  /\ Registered(disk) = SlotIds
  /\ pc # "idle" => Registered(mem) = SlotIds /\ Marked(mem)
  /\ pc = "idle" \/ (cmd \in {"adopt", "label"} /\ pc # "save") => Marked(disk)
  /\ \A n \in SlotIds : got[n].kind = "rejected" => Condemned(n)

Traced ==
  /\ Errand
  /\ Lasting => Judging
  /\ OneChain /\ ~misled => Ordered
  /\ Careful /\ ~misled => Backed

-----------------------------------------------------------------------------
(***************************************************************************)
(* Fairness: a command that runs goes on (its network calls time out), and *)
(* the launchd agent's refresh gets the lock again and again, although     *)
(* other commands take it in between.  The user, the sessions and crashes  *)
(* owe nothing.                                                            *)
(***************************************************************************)

FairSpec == Spec /\ WF_vars(Step) /\ SF_vars(Begin("refresh", 0))

\* Once crashes stop, the active marker comes to name the account that is
\* signed in, however often a stale session or a crash between two writes of
\* activate had made it wrong: each command's SyncActive re-points it. Only a
\* credential filed on the config file's wrong word may be in a wrong slot for good.
MarkerHeals ==
  <>[](pc # "dead") =>
    <>[](pc = "idle" /\ disk.active # 0 /\ ~misled =>
           live.acct = disk.slots[disk.active].uuid)

=============================================================================
