CONSTANTS
    MaxMedia <- MCMaxMedia
    MaxWrites <- MCMaxWrites
    MaxSplits <- MCMaxSplits
SPECIFICATION Spec
CHECK_DEADLOCK FALSE
INVARIANT ResponsesMatchCommands
