\* An operator who lets every command settle; one or two workers.
SPECIFICATION Spec
CONSTANTS
    MaxPid = 11
    Counts = {1, 2}
    Commands = {"start", "stop_soft", "stop_hard", "reload_soft", "reload_hard"}
    MaxCommands = 3
    Waits = 3
    Faults = {}
INVARIANTS PidFileTellsTheServer ReloadWaitsForOldMaster
PROPERTIES PidFileMovesOn ImplementsService
\* The server may be down for good, and the operator's commands come to an end.
CHECK_DEADLOCK FALSE
