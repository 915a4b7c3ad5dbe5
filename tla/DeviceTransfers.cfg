SPECIFICATION AllSpec
CONSTANTS
    Chunks = 2
    LaneMax = 1
    MaxFaults = 1
    RelayModes = {"move"}
    DirFiles = 2
    DirFaults = 2
    Reqs = {1, 2, 3, 4, 5, 6}
    Owner <- MCOwner
    Lane <- MCLane
    MaxAll = 3
    MaxOwn = 2
    Works = {1, 2, 3}
    Mixes <- MCMixes
    Connections = 2
    UploadQueue = 1
    Parts = 2
    PoolFaults = 1
    RelayChunks = 3
    RelayQueue = 2
    RelayFaults = 2
INVARIANTS NothingLeftOver DirectoryHonest AdmissionExact ConnectionsConserved PoolNotStuck RelayHonest
PROPERTIES AtomicOutcome EverythingEnds
