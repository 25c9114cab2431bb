CONSTANTS
    MaxCommands = 3
    MaxEvents = 3
    MaxStream = 2
SPECIFICATION Spec
INVARIANTS TypeOK KnownMeansStopped
PROPERTIES KnownGetsNextStop NoStopMissed UsesTransport
