\* A server without traffic is told to stop.
SPECIFICATION FairSpec
CONSTANTS
    MaxPid = 3
    Counts = {1}
    Commands = {"start", "stop_soft"}
    MaxCommands = 2
    Waits = 3
    Faults = {}
PROPERTIES OperatorStopEnds
\* The server may be down for good, and the operator's commands come to an end.
CHECK_DEADLOCK FALSE
