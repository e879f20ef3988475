SPECIFICATION FairSpec
CONSTANTS
    Pids = {p1}
    Switches = {port, pipe}
    MaxPending = 2
    MaxPoll = 1
    OutboxLimit = 2
    MaxStarts = 2
    MaxEvents = 1
    MaxDrops = 1
    MaxFaults = 2
INVARIANTS  OverflowReported OutboxKept
 
