\* Half-second units, ticks up to two seconds late, a ring of two, floats that are a
\* third off.
SPECIFICATION HFairSpec
CONSTANTS
    HistorySize = 2
    Period = 2
    Forever = 99
    MaxBytes = 3
    MaxAge = 4
    Accuracy = 3
INVARIANTS TypeOK SpeedsExplainBytes StallShowsInTime
PROPERTIES StallShows SamplerEnds
CHECK_DEADLOCK FALSE
