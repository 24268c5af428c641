SPECIFICATION Spec
CONSTANTS
    None = None
    Learners = {1, 2, 3}
    FirstBoards <- MCFirstBoards
    Limit = 2
    MaxXP = 2
    MaxMoves = 1
    MaxRevision = 2
INVARIANTS
    BoardsAreSound
    PublishedTakePart
    RollbackIsFenced
