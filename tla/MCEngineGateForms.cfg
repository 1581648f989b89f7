SPECIFICATION FormsFairSpec
CONSTANTS
    Forms = {f1, f2}
    Jobs = {j1, j2}
    FastCap = 1
    TitleCap = 1
    Attempts = 2
CHECK_DEADLOCK FALSE
PROPERTIES
    FormsEnd
INVARIANTS
    GateTypeOK
