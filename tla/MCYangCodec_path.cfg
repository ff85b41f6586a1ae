CONSTANTS
    nodes <- MCNodes
    roots <- MCRoots
    identities <- MCIdentities
    Requests <- MCRequests
    BITS32 = 6
    BITS64 = 8
    None = None
    Cases = {"choice"}
SPECIFICATION MCCodecSpec
INVARIANT ReEncodes
CHECK_DEADLOCK FALSE
