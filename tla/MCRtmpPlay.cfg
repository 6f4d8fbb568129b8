CONSTANTS
    MaxMedia <- MCMaxMedia
    MaxWrites <- MCMaxWrites
    MaxSplits <- MCMaxSplits
    Sinkers <- MCSinkers
    MediaContent <- MCMediaContent
SPECIFICATION Spec
CHECK_DEADLOCK FALSE
PROPERTY StopJoinsWhenDrained
PROPERTY StartedSessionPlays
PROPERTY CloseIsFinal
