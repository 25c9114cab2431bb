CONSTANTS
    ChunkSize = 2
    LineCap = 2
    MaxAddr = 2
    Ranges <- MCRanges
    MaxCommands = 4
    MaxStream = 2
SPECIFICATION Spec
INVARIANTS TypeOK WholeChunks ReadsAreCurrent
