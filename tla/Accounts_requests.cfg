SPECIFICATION Spec
CONSTANTS
    Request = {p1, p2}
    Name = {"ann"}
    Token = {t1, t2, t3}
    Seeded = TRUE
    Crashes = TRUE
    NoName = NoName
    NoRow = NoRow
    UnknownToken = UnknownToken
SYMMETRY Symmetry
INVARIANTS
    OneAccountPerName
    RoleGranted
    SpentStaysSpent
    UnusedStaysGood
