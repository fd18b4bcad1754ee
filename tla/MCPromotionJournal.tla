------------------------- MODULE MCPromotionJournal -------------------------
EXTENDS PromotionJournal

AtRest == {"down", "idle", "safe", "refused"}

Crashing == [faults |-> {}, edits |-> {}]
Failing == [faults |-> {"early"}, edits |-> AtRest]
Syncing == [faults |-> {"early", "late"}, edits |-> Points]

AllEnvironments == {Crashing, Failing, Syncing}
=============================================================================
