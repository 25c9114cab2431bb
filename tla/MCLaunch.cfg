CONSTANTS
    Present <- MCPresent
    KindsAt <- MCKindsAt
    ResourcePrgs <- MCResourcePrgs
    Environments <- MCEnvironments
    Requests <- MCRequests
    MaxChanges = 1
    None = None
SPECIFICATION Spec
INVARIANTS TypeOK FirstChoice FsrootServed StartsAsAsked
CHECK_DEADLOCK FALSE
