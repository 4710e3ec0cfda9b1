----------------------------- MODULE ReapProofs -----------------------------
(***************************************************************************)
(* Theorems about Reap, for any processes, terminals, directories, flags,  *)
(* windows and bounds.                                                     *)
(***************************************************************************)
EXTENDS Reap, WellFoundedInduction, TLAPS

-----------------------------------------------------------------------------
(***************************************************************************)
(* Idle times.                                                             *)
(***************************************************************************)

\* A set of moments has a last one.
LEMMA LastExists ==
  ASSUME NEW S \in SUBSET Time, S # {}
  PROVE  \E t \in S : \A u \in S : u <= t
<1> DEFINE Bounds == {b \in Nat : \A u \in S : u <= b}
<1>1. S \subseteq Nat /\ MaxTime \in Bounds
  BY ReapAssumption DEF Time
<1>2. PICK b \in Bounds : \A c \in Bounds : ~(<<c, b>> \in OpToRel(<, Nat))
  <2>1. Bounds \subseteq Nat /\ Bounds # {}
    BY <1>1
  <2>2. QED
    BY <2>1, NatLessThanWellFounded, WFMin
<1>3. \A c \in Bounds : ~(c < b)
  BY <1>2 DEF OpToRel
<1>4. b \in S
  <2>1. SUFFICES ASSUME b \notin S
                 PROVE  b - 1 \in Bounds
    BY <1>3, <2>1
  <2>2. PICK u \in S : TRUE
    OBVIOUS
  <2>3. \A v \in S : v <= b - 1
    BY <1>1, <2>1
  <2>4. b - 1 \in Nat
    BY <1>1, <2>2, <2>3
  <2>5. QED
    BY <2>3, <2>4
<1>5. QED
  BY <1>4

\* The last activity on a process's terminal is no earlier than its own.
LEMMA TerminalShowsUse ==
  ASSUME TypeOK, NEW p \in Pids, Up(p), proc[p].place \in Terminals
  PROVE  LastActivity(p) \in Time /\ proc[p].used <= LastActivity(p)
<1> DEFINE Sharing == {q \in Pids : proc[q].place = proc[p].place}
           S == {proc[q].used : q \in Sharing}
<1>1. \A q \in Pids : proc[q].used \in Time
  BY ReapAssumption DEF TypeOK, Procs, Gone, Time
<1>2. S \in SUBSET Time /\ proc[p].used \in S
  BY <1>1
<1>3. \E t \in S : \A u \in S : u <= t
  BY <1>2, LastExists
<1>4. \E t \in S : \A q \in Pids : proc[q].place = proc[p].place => proc[q].used <= t
  BY <1>3
<1>5. LastActivity(p) = CHOOSE t \in S : \A q \in Pids : proc[q].place = proc[p].place => proc[q].used <= t
  BY DEF LastActivity
<1>6. LastActivity(p) \in S /\ proc[p].used <= LastActivity(p)
  BY <1>4, <1>5
<1>7. QED
  BY <1>2, <1>6

\* A session is never taken for idle longer than it was (idleOf).
LEMMA IdleIsIdle ==
  ASSUME IInv, NEW p \in Pids, Up(p), IdleOf(p) # Never
  PROVE  IdleOf(p) \in Int /\ IdleOf(p) <= now - proc[p].used
<1> DEFINE last == LastActivity(p)
<1>1. /\ proc[p] \in Procs /\ now \in Int
      /\ proc[p].started \in Int /\ proc[p].used \in Int
  BY DEF IInv, TypeOK, Up, Procs, Time
<1>2. proc[p].started <= proc[p].used
  BY DEF IInv, Dated
<1>3. last # Never
  BY DEF IdleOf
<1>4. CASE proc[p].place \in Terminals
  <2>1. last \in Int /\ proc[p].used <= last
    BY <1>4, TerminalShowsUse DEF IInv, Time
  <2>2. QED
    BY <1>1, <1>3, <2>1 DEF IdleOf
<1>5. CASE proc[p].place \in Directories
  <2>1. last = touched[proc[p].place]
    BY <1>5, ReapAssumption DEF LastActivity
  <2>2. last \in Int
    BY <1>5, <2>1 DEF IInv, TypeOK, Times, Time, Never
  <2>3. proc[p].used # proc[p].started => proc[p].used <= last
    BY <1>5, <2>1 DEF IInv, Dated
  <2>4. QED
    BY <1>1, <1>2, <1>3, <2>2, <2>3 DEF IdleOf
<1>6. CASE proc[p].place \notin Terminals \union Directories
  BY <1>3, <1>6 DEF LastActivity
<1>7. QED
  BY <1>4, <1>5, <1>6

-----------------------------------------------------------------------------
(***************************************************************************)
(* The inductive invariant.                                                *)
(***************************************************************************)

\* What launchd runs is a job, with the window and the mode of the agent.
LEMMA AgentJobIsJob ==
  ASSUME NEW i \in Windows \union {0}, NEW b \in BOOLEAN
  PROVE  AgentJob(i, b) \in Jobs
BY DEF AgentJob, Jobs

\* Every window that a job may have is a number of ticks.
LEMMA WindowIsNat ==
  ASSUME job \in Jobs
  PROVE  job.flags.idle \in Nat
<1>1. CASE job.flags \in Flags
  BY <1>1, ReapAssumption
<1>2. CASE job.flags.idle \in Windows \union {0}
  <2>1. \A i \in Windows \union {0} : i \in Nat
    BY ReapAssumption
  <2>2. QED
    BY <1>2, <2>1
<1>3. QED
  BY <1>1, <1>2 DEF Jobs

\* A step that ends a command leaves no trace of it.
LEMMA FreeIsIdle ==
  ASSUME Free
  PROVE  pc' = "idle" /\ job' \in Jobs /\ doomed' = NoList /\ listed' \in Time
<1>1. NoJob \in Jobs
  BY AgentJobIsJob DEF NoJob
<1>2. QED
  BY <1>1, ReapAssumption DEF Free, Time

\* A new system has nothing to get wrong.
LEMMA InitEstablishes == Init => IInv
<1> SUFFICES ASSUME Init PROVE IInv
  OBVIOUS
<1>1. NoJob \in Jobs
  BY AgentJobIsJob DEF NoJob
<1>2. TypeOK
  BY <1>1, ReapAssumption DEF Init, TypeOK, Time, Times, NoList
<1>3. Dated /\ Epochs /\ AgentFlags /\ Chosen
  BY ReapAssumption DEF Init, Dated, Epochs, AgentFlags, Chosen, Up, NoList, Never
<1>4. QED
  BY <1>2, <1>3 DEF IInv

\* Steps of cas that touch neither the clock, the processes, nor the live account.
LEMMA WorldUnchanged ==
  ASSUME IInv, UNCHANGED world
  PROVE  Dated' /\ Epochs'
BY DEF IInv, Dated, Epochs, world, Up

\* The end of a command keeps the invariant.
LEMMA QuitKeeps ==
  ASSUME IInv, pc # "idle", Free, UNCHANGED world,
         agent' \in {"asleep", "reap", "refresh"}
  PROVE  IInv'
<1>1. pc' = "idle" /\ job' \in Jobs /\ doomed' = NoList /\ listed' \in Time
  BY FreeIsIdle
<1>2. TypeOK'
  BY <1>1 DEF IInv, TypeOK, world, NoList
<1>3. AgentFlags' /\ Chosen'
  BY <1>1 DEF AgentFlags, Chosen, NoList
<1>4. QED
  BY <1>2, <1>3, WorldUnchanged DEF IInv

\* A person's reap begins.
LEMMA PersonReapsKeeps ==
  ASSUME IInv, PersonReaps
  PROVE  IInv'
<1>1. /\ pc = "idle" /\ pc' = "list" /\ job' \in Jobs /\ job'.who = "person"
      /\ UNCHANGED <<world, agent, listing>>
  BY DEF PersonReaps
<1>2. TypeOK'
  BY <1>1 DEF IInv, TypeOK, world, listing
<1>3. doomed = NoList
  BY <1>1 DEF IInv, TypeOK
<1>4. AgentFlags' /\ Chosen'
  BY <1>1, <1>3 DEF AgentFlags, Chosen, NoList, listing
<1>5. QED
  BY <1>1, <1>2, <1>4, WorldUnchanged DEF IInv

\* The agent wakes, and reaps or does not.
LEMMA AgentKeeps ==
  ASSUME IInv, AgentWakes \/ AgentStarts
  PROVE  IInv'
<1>1. UNCHANGED <<world, listing>>
  BY DEF AgentWakes, AgentStarts, AgentSkips, AgentReaps
<1>2. CASE UNCHANGED <<pc, job>>
  <2>1. agent' \in {"asleep", "reap", "refresh"} /\ (job.who = "agent" /\ pc # "idle" => agent' = agent)
    BY <1>2 DEF AgentWakes, AgentStarts, AgentSkips, AgentReaps, ReapDue, IInv, TypeOK
  <2>2. TypeOK'
    BY <1>1, <1>2, <2>1 DEF IInv, TypeOK, world, listing
  <2>3. AgentFlags' /\ Chosen'
    BY <1>1, <1>2 DEF IInv, AgentFlags, Chosen, world, listing
  <2>4. QED
    BY <1>1, <2>2, <2>3, WorldUnchanged DEF IInv
<1>3. ASSUME NEW mode \in Modes, NEW idle \in Windows, AgentReaps(mode, idle)
      PROVE  IInv'
  <2>1. /\ pc = "idle" /\ pc' = "list" /\ idle >= MinIdle
        /\ agent = "reap" /\ agent' = "reap"
        /\ job' = AgentJob(idle, mode = "stale")
    BY <1>3 DEF AgentReaps, ReapDue
  <2>2. job' \in Jobs
    BY <2>1, AgentJobIsJob
  <2>3. TypeOK'
    BY <1>1, <2>1, <2>2 DEF IInv, TypeOK, world, listing
  <2>4. doomed = NoList
    BY <2>1 DEF IInv, TypeOK
  <2>5. AgentFlags' /\ Chosen'
    BY <1>1, <2>1, <2>4 DEF AgentFlags, Chosen, NoList, listing, AgentJob
  <2>6. QED
    BY <1>1, <2>3, <2>5, WorldUnchanged DEF IInv
<1>4. QED
  BY <1>2, <1>3 DEF AgentWakes, AgentStarts, AgentSkips

\* Whoever is selected is nobody's terminal, nobody's caller and no app-server
\* (selectForReap); unless named, it was idle and stale as asked.
LEMMA SelectedAreChosen ==
  ASSUME IInv, NEW p \in Selected
  PROVE  /\ p \in Pids /\ proc[p] \in Procs /\ proc[p].kind = "session"
         /\ p # job.from.inside
         /\ job.from.tty # NoPlace => proc[p].place # job.from.tty
         /\ job.flags.pids = {} =>
              /\ ~job.flags.all => now - proc[p].used >= job.flags.idle
              /\ job.flags.stale => proc[p].holds < epoch
<1>1. p \in Pids /\ Up(p) /\ ~Protected(p)
  BY DEF Selected, Listed
<1>2. proc[p] \in Procs
  BY <1>1 DEF IInv, TypeOK, Up
<1>3. proc[p].kind = "session"
  BY <1>1, <1>2 DEF Protected, Procs
<1>4. p # job.from.inside /\ (job.from.tty # NoPlace => proc[p].place # job.from.tty)
  BY <1>1 DEF Protected, Ours
<1>5. ASSUME job.flags.pids = {}, ~job.flags.all
      PROVE  now - proc[p].used >= job.flags.idle
  <2>1. IdleOf(p) # Never /\ IdleOf(p) >= job.flags.idle
    BY <1>5 DEF Selected, Qualifies
  <2>2. IdleOf(p) \in Int /\ IdleOf(p) <= now - proc[p].used
    BY <1>1, <2>1, IdleIsIdle
  <2>3. now \in Int /\ proc[p].used \in Int /\ job.flags.idle \in Int
    BY <1>2, WindowIsNat DEF IInv, TypeOK, Procs, Time
  <2>4. QED
    BY <2>1, <2>2, <2>3
<1>6. ASSUME job.flags.pids = {}, job.flags.stale
      PROVE  proc[p].holds < epoch
  <2>1. Stale(p)
    BY <1>6 DEF Selected, Qualifies
  <2>2. QED
    BY <1>1, <2>1 DEF IInv, Epochs, Stale
<1>7. QED
  BY <1>1, <1>2, <1>3, <1>4, <1>5, <1>6

\* The list.
LEMMA ListSessionsKeeps ==
  ASSUME IInv, ListSessions
  PROVE  IInv'
<1>1. CASE Quit
  BY <1>1, QuitKeeps DEF Quit, ListSessions, AgentGoesOn, IInv, TypeOK
<1>2. CASE /\ pc = "list" /\ Selected # {}
           /\ doomed' = [p \in Selected |-> proc[p]] /\ listed' = now
           /\ pc' \in (IF job.who = "agent" THEN {"signal"} ELSE {"ask", "signal"})
           /\ UNCHANGED <<world, agent, job>>
  <2>1. /\ DOMAIN doomed' = Selected
        /\ \A p \in Selected : doomed'[p] = proc[p]
        /\ doomed' # NoList
    BY <1>2 DEF NoList
  <2>2. TypeOK'
    <3>1. DOMAIN doomed' \subseteq Pids /\ \A p \in DOMAIN doomed' : doomed'[p] \in Procs
      BY <2>1, SelectedAreChosen
    <3>2. listed' \in Time
      BY <1>2 DEF IInv, TypeOK
    <3>3. QED
      BY <1>2, <2>1, <3>1, <3>2 DEF IInv, TypeOK, world
  <2>3. Chosen'
    BY <1>2, <2>1, SelectedAreChosen DEF Chosen, world
  <2>4. AgentFlags'
    BY <1>2 DEF IInv, AgentFlags
  <2>5. QED
    BY <1>2, <2>2, <2>3, <2>4, WorldUnchanged DEF IInv
<1>3. QED
  BY <1>1, <1>2 DEF ListSessions

\* The person's answer.
LEMMA AnswerKeeps ==
  ASSUME IInv, Answer
  PROVE  IInv'
<1>1. CASE Quit
  BY <1>1, QuitKeeps DEF Quit, Answer, AgentGoesOn, IInv, TypeOK
<1>2. CASE pc = "ask" /\ pc' = "signal" /\ UNCHANGED <<world, agent, job, listing>>
  <2>1. TypeOK'
    BY <1>2 DEF IInv, TypeOK, world, listing
  <2>2. AgentFlags' /\ Chosen'
    BY <1>2 DEF IInv, AgentFlags, Chosen, world, listing
  <2>3. QED
    BY <1>2, <2>1, <2>2, WorldUnchanged DEF IInv
<1>3. QED
  BY <1>1, <1>2 DEF Answer

\* The end of a process spoils nothing.
LEMMA GoneKeeps ==
  ASSUME IInv, NEW p \in Pids, proc' \in {proc, [proc EXCEPT ![p] = Gone]},
         UNCHANGED <<now, touched, epoch, switchedAt>>
  PROVE  proc' \in [Pids -> Procs \union {Gone}] /\ Dated' /\ Epochs'
<1>1. proc \in [Pids -> Procs \union {Gone}]
  BY DEF IInv, TypeOK
<1>2. proc' \in [Pids -> Procs \union {Gone}]
  BY <1>1
<1>3. \A q \in Pids : proc'[q] # Gone => proc'[q] = proc[q] /\ proc[q] # Gone
  BY <1>1
<1>4. QED
  BY <1>2, <1>3 DEF IInv, Dated, Epochs, Up

\* A signal.
LEMMA SignalKeeps ==
  ASSUME IInv, NEW p \in Pids, Signal(p)
  PROVE  IInv'
<1>1. /\ pc = "signal" /\ pc' \in {"wait", "signal"}
      /\ pc' = "wait" <=> doomed' = NoList
      /\ doomed' = [q \in DOMAIN doomed \ {p} |-> doomed[q]]
      /\ proc' \in {proc, [proc EXCEPT ![p] = Gone]}
      /\ UNCHANGED <<now, touched, epoch, switchedAt, agent, job, listed>>
  BY DEF Signal
<1>2. proc' \in [Pids -> Procs \union {Gone}] /\ Dated' /\ Epochs'
  BY <1>1, GoneKeeps
<1>3. TypeOK'
  BY <1>1, <1>2 DEF IInv, TypeOK
<1>4. AgentFlags' /\ Chosen'
  BY <1>1 DEF IInv, AgentFlags, Chosen
<1>5. QED
  BY <1>2, <1>3, <1>4 DEF IInv

\* The last look, and the agent's refresh.
LEMMA LastStepsKeep ==
  ASSUME IInv, Closed \/ Refresh \/ Refreshed
  PROVE  IInv'
<1>1. CASE Closed
  BY <1>1, QuitKeeps DEF Quit, Closed, AgentGoesOn, IInv, TypeOK
<1>2. CASE Refresh
  <2>1. NoJob \in Jobs /\ doomed = NoList
    BY <1>2, AgentJobIsJob DEF NoJob, Refresh, IInv, TypeOK
  <2>2. TypeOK'
    BY <1>2, <2>1 DEF Refresh, IInv, TypeOK, world, listing
  <2>3. AgentFlags' /\ Chosen'
    BY <1>2, <2>1 DEF Refresh, AgentFlags, Chosen, listing, NoList
  <2>4. QED
    BY <1>2, <2>2, <2>3, WorldUnchanged DEF IInv, Refresh
<1>3. CASE Refreshed
  BY <1>3, QuitKeeps DEF Refreshed
<1>4. QED
  BY <1>1, <1>2, <1>3

\* What goes on outside cas leaves its own variables alone.
LEMMA OthersUnchanged ==
  ASSUME IInv, UNCHANGED Others, epoch' >= epoch, epoch \in Int, epoch' \in Int
  PROVE  AgentFlags' /\ Chosen'
<1>1. AgentFlags'
  BY DEF IInv, AgentFlags, Others
<1>2. \A p \in DOMAIN doomed : doomed[p].holds \in Int
  BY DEF IInv, TypeOK, Procs
<1>3. Chosen'
  BY <1>2 DEF IInv, Chosen, Others, listing
<1>4. QED
  BY <1>1, <1>3

\* A process starts.
LEMMA StartKeeps ==
  ASSUME IInv, NEW p \in Pids, Start(p)
  PROVE  IInv'
<1>1. /\ UNCHANGED <<now, touched, epoch, switchedAt, Others>>
      /\ now \in Time /\ epoch \in 0..MaxEpoch /\ switchedAt <= now
      /\ proc \in [Pids -> Procs \union {Gone}]
  BY DEF Start, IInv, TypeOK, Dated
<1>2. PICK s \in Procs : /\ proc' = [proc EXCEPT ![p] = s]
                         /\ s.started = now /\ s.used = now /\ s.holds = epoch
  <2>1. PICK kind \in {"session", "server"}, place \in Terminals \union Directories \union {NoPlace} :
          proc' = [proc EXCEPT ![p] = [kind |-> kind, place |-> place, started |-> now,
                                       used |-> now, holds |-> epoch]]
    BY DEF Start
  <2>2. [kind |-> kind, place |-> place, started |-> now, used |-> now, holds |-> epoch] \in Procs
    BY <1>1 DEF Procs
  <2>3. QED
    BY <2>1, <2>2
<1>3. \A q \in Pids : proc'[q] = IF q = p THEN s ELSE proc[q]
  BY <1>1, <1>2
<1>4. proc' \in [Pids -> Procs \union {Gone}]
  BY <1>1, <1>2
<1>5. TypeOK'
  BY <1>1, <1>4 DEF IInv, TypeOK, Others, listing
<1>6. now \in Int /\ epoch \in Int /\ switchedAt \in Int
  BY <1>1 DEF Time, IInv, TypeOK, Times, Never
<1>7. Dated'
  BY <1>1, <1>2, <1>3, <1>6 DEF IInv, Dated, Up
<1>8. Epochs'
  BY <1>1, <1>2, <1>3, <1>6 DEF IInv, Epochs, Up
<1>9. QED
  BY <1>1, <1>5, <1>6, <1>7, <1>8, OthersUnchanged DEF IInv

\* A session is used.
LEMMA UseKeeps ==
  ASSUME IInv, NEW p \in Pids, Use(p)
  PROVE  IInv'
<1>1. /\ UNCHANGED <<now, epoch, switchedAt, Others>>
      /\ proc[p].kind = "session"
      /\ proc' = [proc EXCEPT ![p].used = now]
      /\ touched' = [d \in Directories |-> IF d = proc[p].place THEN now ELSE touched[d]]
  BY DEF Use
<1>2. /\ now \in Time /\ now \in Int /\ switchedAt <= now /\ epoch \in Int
      /\ proc \in [Pids -> Procs \union {Gone}]
      /\ touched \in [Directories -> Times]
  BY DEF IInv, TypeOK, Dated, Time
<1>3. Up(p) /\ proc[p] \in Procs
  BY <1>1, <1>2 DEF Up, Gone
<1>4. proc'[p] = [proc[p] EXCEPT !.used = now]
  BY <1>1, <1>2
<1>5. /\ proc'[p] \in Procs /\ proc'[p].used = now
      /\ proc'[p].started = proc[p].started /\ proc'[p].place = proc[p].place
      /\ proc'[p].holds = proc[p].holds
  BY <1>2, <1>3, <1>4 DEF Procs
<1>6. \A q \in Pids \ {p} : proc'[q] = proc[q]
  BY <1>1, <1>2
<1>7. proc' \in [Pids -> Procs \union {Gone}] /\ touched' \in [Directories -> Times]
  BY <1>1, <1>2, <1>5 DEF Times
<1>8. TypeOK'
  BY <1>1, <1>7 DEF IInv, TypeOK, Others, listing
<1>9. \A q \in Pids : proc[q] # Gone =>
        proc[q].started \in Int /\ proc[q].used \in Int /\ proc[q].used <= now
  BY <1>2 DEF Procs, Time, IInv, Dated, Up
<1>10. Dated'
  <2>1. ASSUME NEW q \in Pids, proc'[q] # Gone
        PROVE  /\ proc'[q].started <= proc'[q].used /\ proc'[q].used <= now
               /\ proc'[q].place \in Directories /\ proc'[q].used # proc'[q].started =>
                    proc'[q].used <= touched'[proc'[q].place]
    <3>1. CASE q = p
      BY <1>1, <1>2, <1>3, <1>5, <1>9, <3>1 DEF IInv, Dated, Up
    <3>2. CASE q # p
      <4>1. proc'[q] = proc[q]
        BY <1>6, <3>2
      <4>2. QED
        BY <1>1, <1>2, <1>9, <2>1, <4>1 DEF IInv, Dated, Up
    <3>3. QED
      BY <3>1, <3>2
  <2>2. QED
    BY <1>1, <1>2, <2>1 DEF Dated, Up
<1>11. Epochs'
  <2>1. \A q \in Pids : /\ proc'[q] # Gone => proc[q] # Gone
                        /\ proc'[q].started = proc[q].started /\ proc'[q].holds = proc[q].holds
    BY <1>3, <1>5, <1>6 DEF Up
  <2>2. QED
    BY <1>1, <2>1 DEF IInv, Epochs, Up
<1>12. QED
  BY <1>1, <1>2, <1>8, <1>10, <1>11, OthersUnchanged DEF IInv

\* A process ends by itself.
LEMMA ExitKeeps ==
  ASSUME IInv, NEW p \in Pids, Exit(p)
  PROVE  IInv'
<1>1. UNCHANGED <<now, touched, epoch, switchedAt, Others>> /\ epoch \in Int
  BY DEF Exit, IInv, TypeOK
<1>2. proc' \in [Pids -> Procs \union {Gone}] /\ Dated' /\ Epochs'
  BY GoneKeeps DEF Exit
<1>3. TypeOK'
  BY <1>1, <1>2 DEF IInv, TypeOK, Others, listing
<1>4. QED
  BY <1>1, <1>2, <1>3, OthersUnchanged DEF IInv

\* Time passes; somebody switches.
LEMMA TimeKeeps ==
  ASSUME IInv, Tick \/ Switch
  PROVE  IInv'
<1>1. /\ now \in Time /\ now \in Int /\ epoch \in 0..MaxEpoch /\ epoch \in Int
      /\ MaxTime \in Nat /\ MaxEpoch \in Nat
      /\ switchedAt \in Int /\ switchedAt <= now
      /\ \A q \in Pids : proc[q] # Gone =>
           /\ proc[q].used \in Int /\ proc[q].used <= now
           /\ proc[q].holds \in Int /\ proc[q].holds <= epoch
  BY ReapAssumption DEF IInv, TypeOK, Dated, Epochs, Up, Procs, Time, Times, Never
<1>2. CASE Tick
  <2>1. now' \in Time /\ now' = now + 1 /\ UNCHANGED <<proc, touched, epoch, switchedAt, Others>>
    BY <1>1, <1>2 DEF Tick, Time
  <2>2. TypeOK' /\ Epochs'
    BY <2>1 DEF IInv, TypeOK, Epochs, Up, Others, listing
  <2>3. Dated'
    BY <1>1, <2>1 DEF IInv, Dated, Up
  <2>4. QED
    BY <1>1, <2>1, <2>2, <2>3, OthersUnchanged DEF IInv
<1>3. CASE Switch
  <2>1. /\ epoch' \in 0..MaxEpoch /\ epoch' = epoch + 1 /\ switchedAt' = now
        /\ UNCHANGED <<now, proc, touched, Others>>
    BY <1>1, <1>3 DEF Switch
  <2>2. TypeOK'
    BY <1>1, <2>1 DEF IInv, TypeOK, Others, listing, Times
  <2>3. Dated' /\ Epochs'
    BY <1>1, <2>1 DEF IInv, Dated, Epochs, Up
  <2>4. QED
    BY <1>1, <2>1, <2>2, <2>3, OthersUnchanged DEF IInv
<1>4. QED
  BY <1>2, <1>3

\* Whatever happens next keeps the invariant.
LEMMA NextKeeps ==
  ASSUME IInv, [Next]_vars
  PROVE  IInv'
<1>1. CASE UNCHANGED vars
  <2>1. TypeOK'
    BY <1>1 DEF IInv, TypeOK, vars, world, listing
  <2>2. AgentFlags' /\ Chosen'
    BY <1>1 DEF IInv, AgentFlags, Chosen, vars, world, listing
  <2>3. QED
    BY <1>1, <2>1, <2>2, WorldUnchanged DEF IInv, vars
<1>2. CASE Step
  BY <1>2, AgentKeeps, LastStepsKeep, ListSessionsKeeps, SignalKeeps DEF Step
<1>3. QED
  BY <1>1, <1>2, PersonReapsKeeps, AnswerKeeps, AgentKeeps, StartKeeps, UseKeeps, ExitKeeps,
     TimeKeeps DEF Next

-----------------------------------------------------------------------------
(***************************************************************************)
(* What holds of every behaviour.                                          *)
(***************************************************************************)

\* Everything that reaping rests on holds at every moment: dates, epochs, the
\* agent's flags, and that who is still to be signalled was rightly chosen.
THEOREM InvariantHolds == Spec => []IInv
<1>1. Init => IInv
  BY InitEstablishes
<1>2. IInv /\ [Next]_vars => IInv'
  BY NextKeeps
<1>3. QED
  BY <1>1, <1>2, PTL DEF Spec

\* The variables of reaping keep their types.
THEOREM TypeCorrect == Spec => []TypeOK
<1>1. IInv => TypeOK
  BY DEF IInv
<1>2. QED
  BY <1>1, InvariantHolds, PTL

\* A signal is sent to a process of the list, by a job that has not changed since.
LEMMA SignalledAreDoomed ==
  ASSUME IInv, [Next]_vars, NEW p \in Signalled
  PROVE  pc = "signal" /\ p \in DOMAIN doomed /\ p \in Pids
BY DEF Signalled, IInv, TypeOK

\* No signal reaches the session that runs cas, one on its terminal, or an
\* app-server (selectForReap, selectCodexForReap, closeSessions).
THEOREM OursAreSpared == Spec => SparesOurs
<1>1. ASSUME IInv, [Next]_vars, NEW p \in Signalled, Up(p), Unchanged(p)
      PROVE  ~Ours(p) /\ proc[p].kind = "session"
  <2>1. p \in DOMAIN doomed /\ proc[p] = doomed[p]
    BY <1>1, SignalledAreDoomed DEF Unchanged
  <2>2. QED
    BY <1>1, <2>1 DEF IInv, Chosen, Ours
<1>2. IInv /\ [Next]_vars =>
        [\A p \in Signalled : Up(p) /\ Unchanged(p) => ~Ours(p) /\ proc[p].kind = "session"]_vars
  BY <1>1
<1>3. QED
  BY <1>2, InvariantHolds, PTL DEF Spec, SparesOurs

\* Who is closed for being idle was idle for as long as was asked when it was
\* listed, and, by the agent, for at least fifteen minutes (idleOf, daemonReap).
THEOREM TheBusyAreSpared == Spec => SparesTheBusy
<1> DEFINE Idled(p) == /\ listed - proc[p].used >= job.flags.idle
                       /\ job.who = "agent" => listed - proc[p].used >= MinIdle
           Asked(p) == Up(p) /\ Unchanged(p) /\ ~job.flags.all /\ job.flags.pids = {}
<1>1. ASSUME IInv, [Next]_vars, NEW p \in Signalled, Asked(p)
      PROVE  Idled(p)
  <2>1. p \in DOMAIN doomed /\ proc[p] = doomed[p] /\ pc = "signal" /\ p \in Pids
    BY <1>1, SignalledAreDoomed DEF Unchanged
  <2>2. listed - proc[p].used >= job.flags.idle
    BY <1>1, <2>1 DEF IInv, Chosen
  <2>3. job.who = "agent" => job.flags.idle >= MinIdle
    BY <1>1, <2>1 DEF IInv, AgentFlags
  <2>4. listed \in Int /\ proc[p].used \in Int /\ job.flags.idle \in Int /\ MinIdle \in Int
    BY <1>1, <2>1, WindowIsNat, ReapAssumption DEF IInv, TypeOK, Procs, Time
  <2>5. QED
    BY <2>2, <2>3, <2>4
<1>2. IInv /\ [Next]_vars => [\A p \in Signalled : Asked(p) => Idled(p)]_vars
  BY <1>1
<1>3. QED
  BY <1>2, InvariantHolds, PTL DEF Spec, SparesTheBusy

\* Narrowed to stale sessions, reaping closes only those that hold an account
\* that is not live any more (Stale).
THEOREM TheCurrentAreSpared == Spec => SparesTheCurrent
<1> DEFINE Asked(p) == Up(p) /\ Unchanged(p) /\ job.flags.stale /\ job.flags.pids = {}
<1>1. ASSUME IInv, [Next]_vars, NEW p \in Signalled, Asked(p)
      PROVE  proc[p].holds < epoch
  <2>1. p \in DOMAIN doomed /\ proc[p] = doomed[p]
    BY <1>1, SignalledAreDoomed DEF Unchanged
  <2>2. QED
    BY <1>1, <2>1 DEF IInv, Chosen
<1>2. IInv /\ [Next]_vars => [\A p \in Signalled : Asked(p) => proc[p].holds < epoch]_vars
  BY <1>1
<1>3. QED
  BY <1>2, InvariantHolds, PTL DEF Spec, SparesTheCurrent

=============================================================================
