CONSTANTS
    s1 = s1
    s2 = s2
    SessionId = {s1, s2}
    MaxClients = 2
    None = None
SPECIFICATION Spec
INVARIANTS SessionHasEmulator
CHECK_DEADLOCK FALSE
