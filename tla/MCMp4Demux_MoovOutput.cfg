CONSTANTS
    TrackKinds <- MCTrackKinds
    MaxSamples <- MCMaxSamplesOne
    Deltas <- MCDeltas
    CttsOffsets <- MCCttsOffsets
    Timescales <- MCTimescales
    VideoCodecs = {"H265"}
    Sizes <- MCSizes
    StszForms = {"uniform"}
    Layouts <- MCLayouts
    ReadUnits = 5
    Feeds = {"reader"}
    ChunkUnits <- MCChunkUnits
SPECIFICATION Spec
CHECK_DEADLOCK FALSE
INVARIANT MoovOutputMatchesFile
