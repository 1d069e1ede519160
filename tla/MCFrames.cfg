SPECIFICATION Spec
CONSTANTS
    Depth = 2
    MaxFrame = 3
    Secondary = {1}
INVARIANT TypeOK
INVARIANT SlotsConserved
INVARIANT NeverPopsEmpty
INVARIANT OnlyCancelledIsLate
INVARIANT OnlyTheRaceStrands
INVARIANT OneVsync
INVARIANT RequestUnderWay
INVARIANT PausesBalanced
