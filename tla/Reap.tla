-------------------------------- MODULE Reap --------------------------------
(***************************************************************************)
(* `cas reap`, `cas codex reap` and the background agents (package app:    *)
(* cmd_sessions.go, cmd_codex_sessions.go, daemon.go, cmd_codex_daemon.go; *)
(* package session): who is closed, beside processes that come, go, and    *)
(* are used.  Both programs reap in the same way; only Codex has           *)
(* app-servers.                                                            *)
(*                                                                         *)
(* Time passes in ticks, and ps, lsof and the dates of files are read in   *)
(* one step.  What the agent's refresh does is ClaudeSwitch's matter, and  *)
(* CodexAccounts's.                                                        *)
(***************************************************************************)
EXTENDS Integers, FiniteSets

CONSTANTS
  Pids,         \* process ids; one is used again once its process is gone
  Terminals,
  Directories,  \* where a process without a terminal may work
  NoPlace,      \* the terminal of what launchd runs; a directory lsof does not tell
  Callers,      \* from where: a terminal, or not; the process cas is run by, or 0
  Flags,        \* the flags a person gives: -idle, -all, -stale, -pid
  Windows,      \* -reap-idle of the agent
  MinIdle,      \* minDaemonReapIdle
  MaxTime,      \* bound: the clock stops here
  MaxEpoch      \* bound: changes of the live account

ASSUME ReapAssumption ==
  /\ NoPlace \notin Terminals \union Directories
  /\ Terminals \intersect Directories = {}
  /\ Callers \subseteq [tty: Terminals \union {NoPlace}, inside: Pids \union {0}]
  /\ Windows \subseteq Nat
  /\ \A f \in Flags : /\ DOMAIN f = {"idle", "all", "stale", "pids"}
                     /\ f.idle \in Nat /\ f.all \in BOOLEAN /\ f.stale \in BOOLEAN
                     /\ f.pids \subseteq Pids
  /\ MinIdle \in Nat /\ MaxTime \in Nat /\ MaxEpoch \in Nat

VARIABLES
  now,
  proc,        \* proc[p]: the process with pid p
  touched,     \* touched[d]: the last time a transcript grew in directory d
  epoch,       \* how often the live account changed
  switchedAt,  \* SwitchedAt in the slot table
  agent,       \* what the agent's run has yet to do
  pc, job,     \* where the holder of the lock is, and what it is
  doomed,      \* the processes it has yet to signal, as it listed them
  listed       \* when that was

world == <<now, proc, touched, epoch, switchedAt>>
listing == <<doomed, listed>>
vars == <<world, agent, pc, job, listing>>

Never == -1
Time == 0..MaxTime
Times == Time \union {Never}

\* place: the terminal, else the directory. used: the last activity of its own.
\* holds: the epoch of the credential it read when it started.
Procs == [kind: {"session", "server"}, place: Terminals \union Directories \union {NoPlace},
          started: Time, used: Time, holds: 0..MaxEpoch]

Gone == [kind |-> "gone", place |-> NoPlace, started |-> 0, used |-> 0, holds |-> 0]

Launchd == [tty |-> NoPlace, inside |-> 0]

\* Who runs cas (launchd, or a person), from where, inside which process (0:
\* none of these), with which flags.
Jobs == [who: {"person", "agent"}, from: Callers \union {Launchd},
         flags: Flags \union [idle: Windows \union {0}, all: {FALSE}, stale: BOOLEAN, pids: {{}}]]

AgentJob(idle, stale) ==
  [who |-> "agent", from |-> Launchd,
   flags |-> [idle |-> idle, all |-> FALSE, stale |-> stale, pids |-> {}]]

NoJob == AgentJob(0, FALSE)

NoList == [p \in {} |-> Gone]

Modes == {"off", "stale", "idle"}

TypeOK ==
  /\ now \in Time
  /\ proc \in [Pids -> Procs \union {Gone}]
  /\ touched \in [Directories -> Times]
  /\ epoch \in 0..MaxEpoch /\ switchedAt \in Times
  /\ agent \in {"asleep", "reap", "refresh"}
  /\ pc \in {"idle", "list", "ask", "signal", "wait", "refresh"}
  /\ job \in Jobs
  /\ DOMAIN doomed \subseteq Pids
  /\ \A p \in DOMAIN doomed : doomed[p] \in Procs
  /\ listed \in Time
  /\ job.who = "agent" /\ pc # "idle" => agent = IF pc = "refresh" THEN "refresh" ELSE "reap"
  /\ doomed # NoList <=> pc \in {"ask", "signal"}

Init ==
  /\ now = 0 /\ epoch = 0 /\ switchedAt = Never
  /\ proc = [p \in Pids |-> Gone] /\ touched = [d \in Directories |-> Never]
  /\ agent = "asleep"
  /\ pc = "idle" /\ job = NoJob
  /\ doomed = NoList /\ listed = 0

Up(p) == proc[p] # Gone

-----------------------------------------------------------------------------
(***************************************************************************)
(* session.List and App.sessions.                                          *)
(***************************************************************************)

\* The last activity on the terminal, or in the directory, of a process.
LastActivity(p) ==
  LET s == proc[p] IN
  IF s.place \in Terminals
  THEN CHOOSE t \in {proc[q].used : q \in {q \in Pids : proc[q].place = s.place}} :
         \A q \in Pids : proc[q].place = s.place => proc[q].used <= t
  ELSE IF s.place \in Directories THEN touched[s.place] ELSE Never

\* Mutant: a session may have been idle for longer than it has existed.
MutIdleOf(p) == IF LastActivity(p) = Never THEN Never ELSE now - LastActivity(p)

\* idleOf, Never when it is not known.
IdleOf(p) ==
  LET idle == now - LastActivity(p)
      uptime == now - proc[p].started
  IN IF LastActivity(p) = Never THEN Never ELSE IF idle > uptime THEN uptime ELSE idle

\* Mutant: a session of the same moment counts as well.
MutStale(p) == switchedAt # Never /\ proc[p].started <= switchedAt

Stale(p) == switchedAt # Never /\ proc[p].started < switchedAt

\* The session runs cas, or shares its terminal.
Ours(p) == p = job.from.inside \/ (job.from.tty # NoPlace /\ proc[p].place = job.from.tty)

Listed == {p \in Pids : Up(p)}

Protected(p) == Ours(p) \/ proc[p].kind = "server"

\* What the flags ask for; unknown idle time is none.
Qualifies(p) ==
  /\ job.flags.all \/ (IdleOf(p) # Never /\ IdleOf(p) >= job.flags.idle)
  /\ job.flags.stale => Stale(p)

\* Mutant: what is named is closed.
MutSelected ==
  {p \in Listed : \/ p \in job.flags.pids
                  \/ job.flags.pids = {} /\ ~Protected(p) /\ Qualifies(p)}

\* selectForReap, selectCodexForReap
Selected ==
  {p \in Listed : /\ ~Protected(p)
                  /\ IF job.flags.pids # {} THEN p \in job.flags.pids ELSE Qualifies(p)}

-----------------------------------------------------------------------------
(***************************************************************************)
(* The commands.  One holds the lock from its start to its end.            *)
(***************************************************************************)

Free == pc' = "idle" /\ job' = NoJob /\ doomed' = NoList /\ listed' = 0

\* What is left of the agent's run when its reap is over, with an error or not.
AgentGoesOn == agent' = IF job.who = "agent" THEN "refresh" ELSE agent

Quit == Free /\ AgentGoesOn /\ UNCHANGED world

\* `cas reap` of a person, from a terminal or not, perhaps in a session.
PersonReaps ==
  /\ pc = "idle" /\ pc' = "list"
  /\ \E j \in Jobs :
       /\ j.who = "person" /\ j.from \in Callers /\ j.flags \in Flags
       /\ j.from.inside # 0 => Up(j.from.inside)
       /\ job' = j
  /\ UNCHANGED <<world, agent, listing>>

\* launchd starts the agent's run.
AgentWakes == agent = "asleep" /\ agent' = "reap" /\ UNCHANGED <<world, pc, job, listing>>

\* The agent's reap is still to come, and not under way.
ReapDue == agent = "reap" /\ ~(job.who = "agent" /\ pc # "idle")

\* Mutant: an error of the reap ends the run.
MutAgentSkips(mode, idle) ==
  /\ ReapDue /\ (mode = "off" \/ idle < MinIdle)
  /\ agent' = IF mode = "off" THEN "refresh" ELSE "asleep"
  /\ UNCHANGED <<world, pc, job, listing>>

\* daemonReap has nothing to do, or is refused: so short a window is not reaped on.
AgentSkips(mode, idle) ==
  /\ ReapDue /\ (mode = "off" \/ idle < MinIdle)
  /\ agent' = "refresh"
  /\ UNCHANGED <<world, pc, job, listing>>

\* Mutant: the refresh does not wait for the reap.
MutAgentReaps(mode, idle) ==
  /\ ReapDue /\ mode # "off" /\ idle >= MinIdle
  /\ pc = "idle" /\ pc' = "list"
  /\ job' = AgentJob(idle, mode = "stale")
  /\ agent' = "refresh"
  /\ UNCHANGED <<world, listing>>

\* daemonReap
AgentReaps(mode, idle) ==
  /\ ReapDue /\ mode # "off" /\ idle >= MinIdle
  /\ pc = "idle" /\ pc' = "list"
  /\ job' = AgentJob(idle, mode = "stale")
  /\ UNCHANGED <<world, agent, listing>>

AgentStarts ==
  \E mode \in Modes, idle \in Windows : AgentSkips(mode, idle) \/ AgentReaps(mode, idle)

\* The list, and what follows from it: an error, a refusal, nothing, the question,
\* or the signals. The agent judges nobody stale before the first switch.
ListSessions ==
  /\ pc = "list"
  /\ \/ Quit
     \/ /\ \/ \E p \in job.flags.pids : p \notin Selected
           \/ Selected = {}
           \/ job.who = "agent" /\ job.flags.stale /\ switchedAt = Never
        /\ Quit
     \/ /\ job.flags.pids \subseteq Selected /\ Selected # {}
        /\ doomed' = [p \in Selected |-> proc[p]] /\ listed' = now
        /\ pc' \in (IF job.who = "agent" THEN {"signal"} ELSE {"ask", "signal"})
        /\ UNCHANGED <<world, agent, job>>

\* The person says yes, or no (as -dry-run does).
Answer ==
  /\ pc = "ask"
  /\ \/ pc' = "signal" /\ UNCHANGED <<world, agent, job, listing>>
     \/ Quit

\* Session.Signal, with SIGTERM or, for a person, SIGKILL; there may be nobody
\* to signal any more. Asked to, a session exits when it likes, if at all.
Signal(p) ==
  /\ pc = "signal" /\ p \in DOMAIN doomed
  /\ doomed' = [q \in DOMAIN doomed \ {p} |-> doomed[q]]
  /\ IF Up(p)
     THEN UNCHANGED proc \/ (job.who = "person" /\ proc' = [proc EXCEPT ![p] = Gone])
     ELSE UNCHANGED proc
  /\ pc' = IF doomed' = NoList THEN "wait" ELSE "signal"
  /\ UNCHANGED <<now, touched, epoch, switchedAt, agent, job, listed>>

\* closeSessions looks five times a second who is still there, for its report,
\* and ends when nobody is, or after five seconds.
Closed == pc = "wait" /\ Quit

\* CmdRefresh of the agent, under a lock of its own.
Refresh ==
  /\ agent = "refresh" /\ pc = "idle" /\ pc' = "refresh"
  /\ job' = NoJob
  /\ UNCHANGED <<world, agent, listing>>

Refreshed == pc = "refresh" /\ Free /\ agent' = "asleep" /\ UNCHANGED world

-----------------------------------------------------------------------------
(***************************************************************************)
(* Everything else (external).                                             *)
(***************************************************************************)

Others == <<agent, pc, job, listing>>

Tick == now < MaxTime /\ now' = now + 1 /\ UNCHANGED <<proc, touched, epoch, switchedAt, Others>>

Start(p) ==
  /\ ~Up(p)
  /\ \E kind \in {"session", "server"}, place \in Terminals \union Directories \union {NoPlace} :
       /\ kind # "session" => place = NoPlace
       /\ proc' = [proc EXCEPT ![p] = [kind |-> kind, place |-> place, started |-> now, used |-> now,
                                      holds |-> epoch]]
  /\ UNCHANGED <<now, touched, epoch, switchedAt, Others>>

\* A terminal shows that it is used, and so does the transcript of a session.
Use(p) ==
  /\ proc[p].kind = "session" /\ proc[p].place # NoPlace
  /\ proc' = [proc EXCEPT ![p].used = now]
  /\ touched' = [d \in Directories |-> IF d = proc[p].place THEN now ELSE touched[d]]
  /\ UNCHANGED <<now, epoch, switchedAt, Others>>

Exit(p) ==
  /\ Up(p) /\ p # job.from.inside
  /\ proc' = [proc EXCEPT ![p] = Gone]
  /\ UNCHANGED <<now, touched, epoch, switchedAt, Others>>

\* A switch by cas, which takes the lock for a moment.
Switch ==
  /\ pc = "idle" /\ epoch < MaxEpoch
  /\ epoch' = epoch + 1 /\ switchedAt' = now
  /\ UNCHANGED <<now, proc, touched, Others>>

-----------------------------------------------------------------------------

\* What goes on by itself: neither the person's answer nor its command.
Step ==
  \/ AgentStarts \/ Refresh \/ Refreshed
  \/ ListSessions \/ (\E p \in Pids : Signal(p)) \/ Closed

Next ==
  \/ PersonReaps \/ Answer
  \/ AgentWakes
  \/ Step
  \/ \E p \in Pids : Start(p) \/ Use(p) \/ Exit(p)
  \/ Tick \/ Switch

Spec == Init /\ [][Next]_vars

\* flock is fair enough for the agent to get its turn.
FairSpec ==
  /\ Spec
  /\ WF_vars(ListSessions \/ (\E p \in Pids : Signal(p)) \/ Closed \/ Refreshed)
  /\ SF_vars(AgentStarts) /\ SF_vars(Refresh)

-----------------------------------------------------------------------------
(***************************************************************************)
(* What reaping promises.                                                  *)
(***************************************************************************)

\* The pids that this step signals.
Signalled == IF pc = "signal" THEN DOMAIN doomed \ DOMAIN doomed' ELSE {}

\* It is still the process that was listed, and nobody has used it since.
Unchanged(p) == proc[p] = doomed[p]

\* A signal never reaches the session cas runs in, one on its terminal, or an
\* app-server, unless the pid changed hands after the list ("not by --all, and
\* not by pid"; CmdReap asks in between).
SparesOurs ==
  [][\A p \in Signalled :
       Up(p) /\ Unchanged(p) => ~Ours(p) /\ proc[p].kind = "session"]_vars

\* Who is closed for being idle did nothing for as long as was asked; what the
\* agent closes, for fifteen minutes ("never acts on a session whose idle time
\* could not be measured"; transcripts "only ever make a session look busier").
SparesTheBusy ==
  [][\A p \in Signalled :
       Up(p) /\ Unchanged(p) /\ ~job.flags.all /\ job.flags.pids = {} =>
         /\ listed - proc[p].used >= job.flags.idle
         /\ job.who = "agent" => listed - proc[p].used >= MinIdle]_vars

\* Narrowed to stale sessions, only such are closed as hold an account that is
\* not live any more ("the ones actually holding the wrong credential").
SparesTheCurrent ==
  [][\A p \in Signalled :
       Up(p) /\ Unchanged(p) /\ job.flags.stale /\ job.flags.pids = {} =>
         proc[p].holds < epoch]_vars

\* The inductive invariant behind the three: nothing is dated in the future; a
\* process was used later than its start only if its directory shows it.
Dated ==
  /\ switchedAt <= now
  /\ \A p \in Pids : Up(p) =>
       /\ proc[p].started <= proc[p].used /\ proc[p].used <= now
       /\ proc[p].place \in Directories /\ proc[p].used # proc[p].started =>
            proc[p].used <= touched[proc[p].place]

\* A process holds what was live when it started.
Epochs ==
  \A p \in Pids : Up(p) =>
    /\ proc[p].holds <= epoch
    /\ proc[p].started < switchedAt => proc[p].holds < epoch

\* The agent reaps with the flags it was installed with.
AgentFlags ==
  job.who = "agent" /\ pc \in {"list", "ask", "signal", "wait"} =>
    job.flags.idle >= MinIdle /\ ~job.flags.all /\ job.flags.pids = {}

\* Who is still to be signalled was rightly chosen when it was listed.
Chosen ==
  \A p \in DOMAIN doomed :
    /\ doomed[p].kind = "session" /\ p # job.from.inside
    /\ job.from.tty # NoPlace => doomed[p].place # job.from.tty
    /\ job.flags.pids = {} =>
         /\ ~job.flags.all => listed - doomed[p].used >= job.flags.idle
         /\ job.flags.stale => doomed[p].holds < epoch

\* Typing, and what the promises about signals rest on: dates, epochs, the
\* agent's flags and the choice (idleOf, Stale, selectForReap).
IInv == TypeOK /\ Dated /\ Epochs /\ AgentFlags /\ Chosen

\* The agent's run gets to its refresh, whatever its reap runs into ("a reap
\* failure must not cost the run its refresh"), unless a person's reap holds the
\* lock with a question nobody answers.
AgentRefreshes == agent = "reap" ~> (pc = "refresh" \/ pc = "ask")

=============================================================================
