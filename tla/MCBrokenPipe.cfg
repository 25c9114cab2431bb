CONSTANTS
    brk = brk
    wp = wp
    EventKind = {brk}
    MaxCommands = 2
    MaxEvents = 1
    MaxStream = 2
SPECIFICATION Spec
INVARIANTS PipeBreakIsX16dbgError
