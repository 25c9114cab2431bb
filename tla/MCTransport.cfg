CONSTANTS
    brk = brk
    wp = wp
    EventKind = {brk, wp}
    MaxCommands = 3
    MaxEvents = 2
    MaxStream = 3
SPECIFICATION Spec
INVARIANTS TypeOK RepliesInOrder DebtLaw ReplyLag OwnReply EventsAccounted
PROPERTIES EventsNewer ImplementsService
