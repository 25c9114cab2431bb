CONSTANTS
    s1 = s1
    s2 = s2
    SessionId = {s1, s2}
    MaxClients = 4
    None = None
SPECIFICATION FairSpec
INVARIANTS TypeOK NoOrphan OneEmulatorPerSession ShutdownLeavesNone
PROPERTIES SessionsEndReaped ToolsEnd
CHECK_DEADLOCK FALSE
