SPECIFICATION LaunchSpec
CONSTANTS
    root = root
    a = a
    b = b
    ac = ac
    acd = acd
    me = me
    rival = rival
    Old = Old
    None = None
    Unknown = Unknown
    Dirs <- MCDirs
    Root = root
    Subdirs <- MCSubdirs
    PathOrder <- MCPathOrder
    MaxDepth = 2
    MaxEntries = 10
    MaxCandidates = 3
    ManyFiles = 5
    MaxChunks = 3
    Writers <- MCWriters
    Main = me
    Installed <- MCInstalled
    Masks <- MCMasks
    GpuLists <- MCGpuLists
    Counts <- MCCounts
INVARIANT
    PlacedOnVisible
