CONSTANTS
    x = x
    gt = gt
    t = t
    Byte = {x, gt, t}
    Prompt <- MCPrompt
    Bodies <- CleanBodies
    ReadSize = 4
    MaxRecords = 3
SPECIFICATION FairSpec
INVARIANTS TypeOK BytesConserved BodiesIntact
PROPERTIES ImplementsQueue ReadEnds
