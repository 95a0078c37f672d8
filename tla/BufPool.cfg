SPECIFICATION FairSpec
CONSTANTS
    BlockSize = 8
    NSplit = 2
    BufSize <- MCBufSize
    Bases <- MCBases
    Requests = {1, 6, 9}
    MaxLinks = 2
    IntrDerefs = FALSE
    NotYet = FALSE
INVARIANTS BufInv 
PROPERTIES OwnedUntouched AddmemRuns
