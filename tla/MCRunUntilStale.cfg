CONSTANTS
    MaxCommands = 2
    MaxEvents = 3
    MaxStream = 2
SPECIFICATION Spec
PROPERTIES RunUntilGetsNextStop
