CONSTANTS
    MaxUpdates = 1
    MaxBatch = 1
    MaxDatagram = 2
    MaxDescriptors = 8
SPECIFICATION FairSpec
PROPERTY RecoveryEnds
CHECK_DEADLOCK FALSE
