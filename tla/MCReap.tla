------------------------------- MODULE MCReap -------------------------------
EXTENDS Reap

CONSTANT t1

\* On a terminal; in a session that has none.
MCCallers == {[tty |-> t1, inside |-> 0], [tty |-> NoPlace, inside |-> 1]}

\* Idle for a tick; all stale ones; one process, whatever it does.
MCFlags ==
  {[idle |-> 1, all |-> FALSE, stale |-> FALSE, pids |-> {}],
   [idle |-> 1, all |-> TRUE, stale |-> TRUE, pids |-> {}],
   [idle |-> 1, all |-> FALSE, stale |-> FALSE, pids |-> {1}]}

=============================================================================
