SPECIFICATION FilesSpec
CONSTANTS
    Op = {"p", "q", "gc"}
    Quota = 3
    FileFaults = 1
    Requests <- MCRequests
    Trees <- MCTrees
INVARIANTS StoreSound
PROPERTIES WritesOwned WorkEnds
