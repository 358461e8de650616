SPECIFICATION FairSpec
CONSTANT MaxSpend = 2

CHECK_DEADLOCK FALSE
INVARIANT RollupReleased
