CONSTANTS
    s1 = s1
    s2 = s2
    SessionId = {s1, s2}
    Location <- MCLocation
    Banked = {"a100"}
    Watch = {"w 0070"}
    Condition <- MCCondition
    MaxBreakpoints = 2
    MaxWatchpoints = 2
    KeepsMute = TRUE
    ReadTools = {"mode"}
    OrderTools = {"continue"}
    RawLines = {"mod", "quit"}
    Chunks = 2
    MaxCalls = 3
VIEW MCView
SYMMETRY MCSymmetry
SPECIFICATION Spec
INVARIANTS TypeOK SessionsApart TablesAsTold NoFileLeft
PROPERTIES ListsAsTold ShotIsOwn UsesService
CHECK_DEADLOCK FALSE
