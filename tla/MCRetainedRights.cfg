SPECIFICATION Spec
CONSTANTS
    None = None
    Users = {u1, u2, u3}
    Courses = {c}
    Open = {}
    Grants = {g1, g2}
    Tasks = {t1, t2}
SYMMETRY Symmetry
INVARIANTS
    RightsAreSound
    GrantedIsUsable
    PaidIsPreserved
PROPERTIES
    RightsBehaviour
