SPECIFICATION FairSpec
INVARIANT InterruptArmed
PROPERTIES GoesOnByOwnResponse DmaAfterResponse CommandPhaseEnds
CHECK_DEADLOCK FALSE
