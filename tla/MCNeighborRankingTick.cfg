CONSTANTS
    Keys = {k1, k2, k3}
    MaxTime = 4
    HealthScores = {0, 1}
SPECIFICATION Spec
INVARIANT SortedHeadAsAtOneReading
