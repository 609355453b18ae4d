\* Every command is finished, given traffic.  Two workers per master: the
\* SIGCHLD of one ends their master's wait for the other.
SPECIFICATION FairTrafficSpec
CONSTANTS
    MaxPid = 11
    Counts = {2}
    Commands = {"start", "stop_soft", "reload_hard"}
    MaxCommands = 3
    Waits = 3
    Faults = {}
PROPERTIES OperatorStopEnds ReloadEnds WorkersEndWithTheirMaster
\* The server may be down for good, and the operator's commands come to an end.
CHECK_DEADLOCK FALSE
