SPECIFICATION Spec
CONSTANTS
    None = None
    Nothing = Nothing
    Clients = {c1, c2}
    Units <- MCUnits
    EngineUnits = {"lab", "quiz"}
    Lectures <- MCLectures
    Deployments <- MCDeployments
    FirstDeployment <- First
    PlanRequests <- MCPlanRequests
    StepLimit = 2
    ProjectCourses = {"bash", "cloud"}
    ProjectRequests <- MCProjectRequests
    Oversized = "huge"
    KEPT_RECEIPTS = 2
    Works <- MCWorks
INVARIANTS
    AnswersAreTrue
    ShownCanBeSaved
    PagesAreTrue
PROPERTIES
    SavesFollowEachOther
    WithdrawalKeepsDone
CHECK_DEADLOCK FALSE
