SPECIFICATION Spec
CONSTANTS
    None = None
    a = a
    b = b
    Lessons <- MCLessons
    Sharing = {a, b}
    Free = {}
    Sold = {b}
    Lectured = {b}
    Watched = {}
    Policies <- MCPolicies
    Requests = {r}
    Tasks = {t1, t2}
    MaxLimit = 1
    MaxDay = 2
SYMMETRY Symmetry
INVARIANTS
    StartsAgree
PROPERTIES
    SlotsHold
    BegunIsFree
