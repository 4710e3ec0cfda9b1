--------------------------- MODULE MCClaudeSwitch ---------------------------
EXTENDS ClaudeSwitch

CONSTANTS alice, bob

MCTwo == [n \in SlotIds |-> IF n = 1 THEN alice ELSE IF n = 2 THEN bob ELSE NoAccount]

=============================================================================
