SPECIFICATION FairSpec
CONSTANTS
    Names = {1, 2}
    MaxMoves = 2
    MaxDrops = 1
    MaxQueue = 1
CHECK_DEADLOCK FALSE
INVARIANTS LeasedAgrees
PROPERTIES RemovedIsVaulted  
