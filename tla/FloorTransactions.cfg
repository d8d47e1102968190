SPECIFICATION Spec
CONSTANTS
    p1 = p1
    p2 = p2
    p3 = p3
    NoSession = NoSession
    Unwritten = Unwritten
    Seqs <- MCSeqs
    Sessions <- MCSessions
    Calls <- MCCalls
    Scenes <- MCScenes
    MaxCalls = 3
    MaxRuns = 2
    MaxEdits = 1
INVARIANTS
    GapsAnnounced
    DeadlocksNeedOrderFirst
PROPERTIES
    StartedWorkSurvives
    PlanNeverRegresses
    RollUpAgrees
    HoldsLeakOnlyOverlapped
SYMMETRY MCSymmetry
CHECK_DEADLOCK FALSE
