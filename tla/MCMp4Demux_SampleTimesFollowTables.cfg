CONSTANTS
    TrackKinds <- MCTrackKinds
    MaxSamples <- MCMaxSamples
    Deltas <- MCDeltas
    CttsOffsets <- MCCttsOffsets
    Timescales <- MCTimescales
    VideoCodecs = {"H264"}
    Sizes <- MCSizes
    StszForms = {"table"}
    Layouts <- MCLayouts
    ReadUnits = 5
    Feeds = {"reader"}
    ChunkUnits <- MCChunkUnits
SPECIFICATION Spec
CHECK_DEADLOCK FALSE
INVARIANT SampleTimesFollowTables
