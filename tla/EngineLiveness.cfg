SPECIFICATION FairSpec
CONSTANTS
    None = None
    Goals = {g1}
    Required = {g1}
    Revisions = {1, 2}
    Bands = 2
    InitialBand = 1
    RaiseAfter <- MCRaise
    LowerAfter <- MCLower
    Plans = {good, bad}
    GoodPlans = {good}
    MaxStarts = 2
    Tasks = {t1, t2}
    LeaseTicks = 1
    RunTicks = 1
    RepeatableRead = FALSE
PROPERTIES
    SubmissionsAreJudged
