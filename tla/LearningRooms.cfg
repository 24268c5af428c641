SPECIFICATION FairSpec
CONSTANTS
    Kinds = {"intro", "graded", "exercise"}
    MaxChanges = 4
    Evidence = {e1, e2}
    Passing = {e1}
    Keep = 2
    Senders = {s1, s2}
    RepeatableRead = TRUE
    None = None
INVARIANTS
    HistoryIsSound
    LatestChangesRepeatable
    MilestoneIsEarned
PROPERTIES
    FinalIsKept
    MilestonesArrive
CHECK_DEADLOCK FALSE
