CONSTANTS
    brk = brk
    wp = wp
    EventKind = {brk}
    MaxCommands = 2
    MaxEvents = 1
    MaxStream = 2
SPECIFICATION FairSpec
PROPERTIES CallsEnd
