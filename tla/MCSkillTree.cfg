SPECIFICATION TreeSpec
CONSTANTS
    Nothing = Nothing
    Skills = {"A", "B", "C", "a1", "a2", "b1"}
    Parent <- MCParent
    FirstSkills = {"A", "B", "C", "a1", "b1"}
    Changing = {"B", "a2"}
    Links <- MCLinks
    Requests = {q1, q2}
    Ids <- MCIds
    Levels <- MCLevels
    Tracks <- MCTracks
    NoLevel = NoLevel
    Teaches <- MCTeaches
    Learners <- MCLearners
INVARIANTS
    TreeIsSound
    DepthsAreChains
    LearnersMoveOn
PROPERTIES
    OldAnswersPass
CHECK_DEADLOCK FALSE
