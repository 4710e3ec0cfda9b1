---------------------------- MODULE MCCodexStore ----------------------------
EXTENDS CodexStore

CONSTANTS short, long, huge

MCCount == [d \in Docs |-> IF d = short THEN 2 ELSE IF d = long THEN 3 ELSE 4]

=============================================================================
