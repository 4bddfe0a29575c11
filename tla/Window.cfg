\* Two runs of the daemon, edits from both sides, a queue of one event and a
\* history of two, of which one run publishes more.
CONSTANTS
    QueueSize = 1
    HistorySize = 2
    WireSize = 1
    MaxEdits = 2
    MaxRuns = 2
    MaxEvents = 3
    MaxSignals = 2
SPECIFICATION FairSpec
INVARIANTS
    WindowTypeOK
    StreamIsGapless
PROPERTIES
    WindowSettles
    OfflineIsAdmitted
