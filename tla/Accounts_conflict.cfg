SPECIFICATION Spec
CONSTANTS
    Request = {p1, p2}
    Name = {"ann"}
    Token = {t1}
    Seeded = TRUE
    Crashes = FALSE
    NoName = NoName
    NoRow = NoRow
    UnknownToken = UnknownToken
SYMMETRY Symmetry
INVARIANTS
    DuplicateIsConflict
