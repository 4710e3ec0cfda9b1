---------------------------- MODULE CodexRegister ----------------------------
(***************************************************************************)
(* What package codexstore promises of one slot's credential: a register   *)
(* that WriteCredential sets, DeleteCredential empties and ReadCredential  *)
(* reads.  However a write or a deletion ends, the register holds the old  *)
(* document or what was asked for; if it reports success, the latter; and  *)
(* a write that fails has replaced nothing.                                *)
(***************************************************************************)
CONSTANTS Docs, None    \* the documents; no document

VARIABLES
  stored,   \* what ReadCredential finds
  asked,    \* what the running operation makes of it, {} when none runs
  result    \* what the last operation reported; "none" while one runs

vars == <<stored, asked, result>>

Contents == Docs \union {None}

Init == stored \in Contents /\ asked = {} /\ result = "none"

Begin(c) == asked = {} /\ asked' = {c} /\ result' = "none" /\ UNCHANGED stored

Refuse == asked = {} /\ result' = "failed" /\ UNCHANGED <<stored, asked>>

\* A deletion takes effect before it is over; a write does so only where there
\* was nothing to lose.
Early ==
  /\ \E c \in asked : stored' = c /\ (stored = None \/ c = None)
  /\ UNCHANGED <<asked, result>>

Succeed == asked # {} /\ asked = {stored'} /\ asked' = {} /\ result' = "ok"

Fail == asked # {} /\ asked' = {} /\ result' = "failed" /\ UNCHANGED stored

Crash == asked # {} /\ asked' = {} /\ UNCHANGED <<stored, result>>

Next == (\E c \in Contents : Begin(c)) \/ Refuse \/ Early \/ Succeed \/ Fail \/ Crash

Spec == Init /\ [][Next]_vars

=============================================================================
