\* Every kind of failure, once each, with one command that does not wait.
SPECIFICATION Spec
CONSTANTS
    MaxPid = 7
    Counts = {1, 2}
    Commands = {"start", "stop_soft", "stop_hard", "reload_soft", "reload_hard"}
    MaxCommands = 2
    Waits = 0
    Faults = {"bind", "count", "config", "fork", "pid_file", "crash"}
INVARIANTS PidFileNamesMaster NoServiceGap
\* The server may be down for good, and the operator's commands come to an end.
CHECK_DEADLOCK FALSE
