CONSTANTS
    Clusters <- MCClusters
    EndMarks <- MCEndMarks
    bdb_dir_entries_count = 2
    Geometries <- MCGeometries
    SegmentSectors = 2
    Sectors = 16
    Array = 2
    LowLimit = 7
    MinRoom = 3
    Stage2At = 3
    MaxSector = 14
    MaxArray = 2
    UndoMax = 20
    PartsMax = 3
    Jobs <- MCJobs
    Volumes <- MCVolumes
    MaxReads = 2
    MaxCount = 3
    Machines <- MCMachines
    MaxArrayBlocks = 2
    MaxGptParts = 3
    MaxLogical = 5
    Frags = {"a", "b"}
    Shorts = {"S"}
    Sums = {1, 2}
    MaxSeq = 2
    MaxEntries = 4
    Bpbs <- MCBpbs
    Fat12Most = 4
    Fat16Most = 8
    FatClusters = 4
    ClusterLimit = 9
    MaxChain = 5
    BlockSize = 2
    Paths <- MCPaths
    SectorLen = 3
    MaxDescriptors = 3
    MaxExtents = 3
    Directories <- MCDirectories
    IsoPaths <- MCIsoPaths
    IsoOpens = 2
    PageBytes = 2
    RamPages = 10
    HighPage = 8
    FirstCap = 2
    DoubleBelow = 4
    Chunk = 3
    BlockBytes = 2
    MaxFile = 4
    Foreign <- MCForeign
    Mtu = 3
    MaxRemote = 5
SPECIFICATION MediaSpec
INVARIANTS
    StageTwoRight
    InstallRight
    VolumesRight
    
    ResourcesRight
PROPERTY
    FloppyBootEnds
\* The loaders end in the next stage or wait for a key; a tool that is done stops.
CHECK_DEADLOCK FALSE
