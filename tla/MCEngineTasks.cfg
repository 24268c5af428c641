SPECIFICATION Spec
CONSTANTS
    None = None
    Goals = {g1, g2}
    Required = {g1, g2}
    Revisions = {1, 2}
    Bands = 2
    InitialBand = 1
    RaiseAfter <- MCRaise
    LowerAfter <- MCLower
    Plans = {good, bad}
    GoodPlans = {good}
    MaxStarts = 3
    Tasks = {t1, t2}
    LeaseTicks = 1
    RunTicks = 0
    RepeatableRead = FALSE
SYMMETRY Symmetry
INVARIANTS
    SubmissionsAreSound
    VerdictsCountOnce
    LastPassCompletes
