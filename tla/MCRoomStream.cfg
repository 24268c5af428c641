SPECIFICATION StreamSpec
CONSTANTS
    Nothing = Nothing
    Paths <- MCPaths
    UnitsOf <- MCUnitsOf
    Requires <- MCRequires
    Teaches <- MCTeaches
    Practices <- MCPractices
    Intros = {"intro"}
    FreePaths = {"basics"}
    Policies = {"daily", "legacy", "unknown"}
    Withholdable = {"exercise"}
INVARIANTS
    OffersAreSound
    EndsAreTrue
    NewBeforeRepeat
PROPERTIES
    LearnersGetOn
