--------------------------- MODULE MohicanServer ---------------------------
(***************************************************************************)
(* The life cycle of the mohican master process (project/server): start,   *)
(* soft and hard stop, soft and hard reload, driven by UNIX signals that   *)
(* the script mohican.sh sends to the process named first in the pid file. *)
(*                                                                         *)
(* A reload double-forks a new master (daemonize, RELOAD_SERVER): the old  *)
(* master forks an intermediate child, which forks the new master and      *)
(* exits.  The new master forks its own workers, signals the old master    *)
(* and spins until the old master reports its end with SIGCHLD.  Every     *)
(* fork copies the memory of the process, so the flags below exist once    *)
(* per process: mem[p] is the memory of process p.                         *)
(*                                                                         *)
(* A worker is modelled here only as far as the life cycle sees it: it     *)
(* installs handlers, tests its stop flags, blocks, and exits.             *)
(***************************************************************************)
EXTENDS Integers, Sequences, FiniteSets

CONSTANTS
    MaxPid,         \* bound: processes that can ever be created
    Counts,         \* the values of count_workflows the configuration may hold
    Commands,       \* the mohican.sh commands the operator uses
    MaxCommands,    \* bound: commands the operator issues
    Waits,          \* how many of them are issued only when the server has settled
    Faults          \* the kinds of failure that may happen, each at most once

AllCommands == {"start", "stop_soft", "stop_hard", "reload_soft", "reload_hard"}
StopCommands == {"stop_soft", "stop_hard"}
AllFaults == {"bind", "count", "config", "fork", "pid_file", "crash"}

ASSUME MaxPidAssumption == MaxPid \in Nat \ {0}
ASSUME CountsAssumption == Counts \subseteq Nat \ {0}
ASSUME CommandsAssumption == Commands \subseteq AllCommands
ASSUME MaxCommandsAssumption == MaxCommands \in Nat
ASSUME WaitsAssumption == Waits \in Nat
ASSUME FaultsAssumption == Faults \subseteq AllFaults

Pid == 1 .. MaxPid
Shell == 0                  \* the pid of mohican.sh; also "no process"
Level == {"SOFT", "HARD"}

VARIABLES
    pc,             \* where each process is
    mem,            \* its globals and the members of its MohicanServer
    handlers,       \* whose signal handlers it has installed
    parent,         \* the process that forked it
    loop_i,         \* the index of server_stop's loops over workers_pid
    interrupted,    \* a handler ran while the process was in a waitpid
    next_pid,       \* the kernel's next process identifier
    pid_file,       \* contents of pid_file.txt
    commands,       \* history: how many commands were issued
    issued,         \* history: which commands were issued
    faults          \* history: which kinds of failure happened

vars == <<pc, mem, handlers, parent, loop_i, interrupted, next_pid, pid_file,
          commands, issued, faults>>

operator == <<commands, issued>>

---------------------------------------------------------------------------
(* Memory of a process.                                                    *)

FreshMemory ==
    [process_soft_stop      |-> FALSE,
     process_hard_stop      |-> FALSE,
     process_soft_reload    |-> 0,      \* 2: a reload of this master is on
     process_hard_reload    |-> 0,
     has_old_master_stopped |-> FALSE,
     new_master_pid         |-> 0,      \* the sender of the last stop signal
     old_master_process     |-> 0,
     new_master_process     |-> 0,
     workers_pid            |-> << >>,
     count_workflows        |-> 0,
     level                  |-> "SOFT", \* argument of server_stop / _reload
     is_soft_stop           |-> FALSE,  \* globals of worker_process.cpp
     is_hard_stop           |-> FALSE]

Memory ==
    [process_soft_stop : BOOLEAN, process_hard_stop : BOOLEAN,
     process_soft_reload : 0 .. 2, process_hard_reload : 0 .. 2,
     has_old_master_stopped : BOOLEAN, new_master_pid : {Shell} \cup Pid,
     old_master_process : {Shell} \cup Pid,
     new_master_process : {Shell} \cup Pid,
     workers_pid : Seq(Pid), count_workflows : Nat, level : Level,
     is_soft_stop : BOOLEAN, is_hard_stop : BOOLEAN]

NoFile == [master |-> Shell, workers |-> << >>]

LoopPC == {"test_soft_stop", "test_hard_stop", "test_soft_reload",
           "test_hard_reload"}
WorkerPC == {"worker_setup", "worker_test", "worker_call", "epoll_wait"}
PC == {"unused", "exiting", "exited"} \cup LoopPC \cup WorkerPC \cup
      {"bind_listen_sock", "add_work_processes", "fork_worker",
       "fill_pid_file", "process_setup_signals",
       "server_reload", "mark_reload", "second_fork",
       "kill_old_master", "wait_old_master", "finish_reload",
       "stop_kill", "stop_wait", "stop_end"}

Alive(p) == pc[p] \notin {"unused", "exited"}

(* The first master is its own old_master_process from daemonize() on; a   *)
(* new master becomes so when its reload is finished.                      *)
Reloading(p) == mem[p].old_master_process # p

Init ==
    /\ pc = [p \in Pid |-> "unused"]
    /\ mem = [p \in Pid |-> FreshMemory]
    /\ handlers = [p \in Pid |-> "default"]
    /\ parent = [p \in Pid |-> Shell]
    /\ loop_i = [p \in Pid |-> 1]
    /\ interrupted = [p \in Pid |-> FALSE]
    /\ next_pid = 1
    /\ pid_file = NoFile
    /\ commands = 0
    /\ issued = {}
    /\ faults = {}

---------------------------------------------------------------------------
(* Signals.  A signal is delivered as it is sent: its handler only sets a  *)
(* flag, so that only the moment of the flag matters.                      *)

sighup_handler(m, si_pid) ==
    [m EXCEPT !.process_soft_stop = TRUE, !.new_master_pid = si_pid]

sigint_handler(m, si_pid) ==
    [m EXCEPT !.process_hard_stop = TRUE, !.new_master_pid = si_pid]

(* Slip: counts the requests instead of noting that there is one.          *)
sigpipe_handler_Counts(m) ==
    [m EXCEPT !.process_soft_reload = m.process_soft_reload + 1]

sigpipe_handler(m) == [m EXCEPT !.process_soft_reload = 1]

sigalrm_handler(m) == [m EXCEPT !.process_hard_reload = 1]

sigchld_handler(m) == [m EXCEPT !.has_old_master_stopped = TRUE]

worker_sighup_handler(m) == [m EXCEPT !.is_soft_stop = TRUE]

worker_sigint_handler(m) == [m EXCEPT !.is_hard_stop = TRUE]

(* The memory of q after the handler of sig, if it has one, has run.       *)
Handled(q, sig, si_pid) ==
    CASE handlers[q] = "master" /\ sig = "SIGHUP"  -> sighup_handler(mem[q], si_pid)
      [] handlers[q] = "master" /\ sig = "SIGINT"  -> sigint_handler(mem[q], si_pid)
      [] handlers[q] = "master" /\ sig = "SIGPIPE" -> sigpipe_handler(mem[q])
      [] handlers[q] = "master" /\ sig = "SIGALRM" -> sigalrm_handler(mem[q])
      [] handlers[q] = "master" /\ sig = "SIGCHLD" -> sigchld_handler(mem[q])
      [] handlers[q] = "worker" /\ sig = "SIGHUP"  -> worker_sighup_handler(mem[q])
      [] handlers[q] = "worker" /\ sig = "SIGINT"  -> worker_sigint_handler(mem[q])
      [] OTHER -> mem[q]

(* Without a handler every signal used here but SIGCHLD ends the process.  *)
(* A handled one makes the system call a worker sleeps in return (no       *)
(* SA_RESTART), after which it tests its flags.                            *)
Received(q, sig) ==
    CASE handlers[q] = "default" /\ sig # "SIGCHLD"    -> "exiting"
      [] handlers[q] # "default" /\ pc[q] = "epoll_wait" -> "worker_test"
      [] OTHER -> pc[q]

(* Process p goes on at "next" with memory m and has sent sig to q.        *)
Signal(p, next, m, q, sig) ==
    /\ pc' = [r \in Pid |-> IF r = p THEN next
                            ELSE IF r = q /\ Alive(r) THEN Received(r, sig)
                            ELSE pc[r]]
    /\ mem' = [r \in Pid |-> IF r = p THEN m
                             ELSE IF r = q /\ Alive(r) THEN Handled(r, sig, p)
                             ELSE mem[r]]
    /\ interrupted' = [r \in Pid |->
            \/ interrupted[r] /\ r # p
            \/ r = q /\ r # p /\ pc[r] = "stop_wait" /\ handlers[r] = "master"]

(* Process p goes on at "next" with memory m.                              *)
Move(p, next, m) ==
    /\ pc' = [pc EXCEPT ![p] = next]
    /\ mem' = [mem EXCEPT ![p] = m]

(* Process p goes on at "next" with memory m and has forked a child, which *)
(* inherits the signal handlers, starts at childpc and has memory childm.  *)
Fork(p, next, m, childpc, childm) ==
    /\ next_pid <= MaxPid
    /\ next_pid' = next_pid + 1
    /\ pc' = [pc EXCEPT ![p] = next, ![next_pid] = childpc]
    /\ mem' = [mem EXCEPT ![p] = m, ![next_pid] = childm]
    /\ handlers' = [handlers EXCEPT ![next_pid] = handlers[p]]
    /\ parent' = [parent EXCEPT ![next_pid] = p]

(* A failure of kind k happens now.                                        *)
Fail(k) ==
    /\ k \in Faults \ faults
    /\ faults' = faults \cup {k}

---------------------------------------------------------------------------
(* The operator: mohican.sh.                                               *)

(* Every process is where it stays until a signal or a request arrives.    *)
Settled ==
    \A p \in Pid : Alive(p) =>
        \/ /\ pc[p] \in {"worker_test", "worker_call", "epoll_wait"}
           /\ ~mem[p].is_soft_stop /\ ~mem[p].is_hard_stop
        \/ /\ pc[p] \in LoopPC
           /\ ~mem[p].process_soft_stop /\ ~mem[p].process_hard_stop
           /\ mem[p].process_soft_reload # 1 /\ mem[p].process_hard_reload # 1

Issue(command) ==
    /\ command \in Commands
    /\ commands < MaxCommands
    /\ commands < Waits => Settled
    /\ commands' = commands + 1
    /\ issued' = issued \cup {command}

(* mohican.sh start: refused while any mohican process is alive.  The      *)
(* process it runs reads the configuration, forks the daemon and exits.    *)
Start ==
    /\ Issue("start")
    /\ \A p \in Pid : ~Alive(p)
    /\ next_pid <= MaxPid
    /\ next_pid' = next_pid + 1
    /\ \E count \in Counts \cup {0} :
        /\ IF count = 0 THEN Fail("count") ELSE UNCHANGED faults
        /\ Move(next_pid, "bind_listen_sock",
                [FreshMemory EXCEPT !.old_master_process = next_pid,
                                    !.count_workflows = count])
    /\ UNCHANGED <<handlers, parent, loop_i, interrupted, pid_file>>

(* The other commands signal the first process of the pid file, if there   *)
(* is one, and return at once.                                             *)
SignalMaster(command, sig) ==
    /\ Issue(command)
    /\ \E p \in Pid : Alive(p)
    /\ Signal(Shell, "unused", FreshMemory, pid_file.master, sig)
    /\ UNCHANGED <<handlers, parent, loop_i, next_pid, pid_file, faults>>

StopSoft == SignalMaster("stop_soft", "SIGHUP")

StopHard == SignalMaster("stop_hard", "SIGINT")

ReloadSoft == SignalMaster("reload_soft", "SIGPIPE")

ReloadHard == SignalMaster("reload_hard", "SIGALRM")

---------------------------------------------------------------------------
(* server_start, and the part of it a new master shares (apply_config).    *)

(* What follows a failure: server_start returns and the process exits, but *)
(* a failed server_reload makes the main loop call server_stop(HARD).      *)
GiveUp(p) ==
    IF Reloading(p) \/ pc[p] = "server_reload"
    THEN /\ Move(p, "stop_kill", [mem[p] EXCEPT !.level = "HARD"])
         /\ loop_i' = [loop_i EXCEPT ![p] = 1]
    ELSE /\ Move(p, "exiting", mem[p])
         /\ UNCHANGED loop_i

BindListenSock(p) ==
    /\ pc[p] = "bind_listen_sock"
    /\ \/ Move(p, "add_work_processes", mem[p]) /\ UNCHANGED <<loop_i, faults>>
       \/ Fail("bind") /\ GiveUp(p)
    /\ UNCHANGED <<handlers, parent, interrupted, next_pid, pid_file, operator>>

(* Slip: workers_pid.clear() forgotten.                                    *)
AddWorkProcesses_NoClear(p) ==
    /\ pc[p] = "add_work_processes"
    /\ IF mem[p].count_workflows > 0
       THEN Move(p, "fork_worker", mem[p]) /\ UNCHANGED loop_i
       ELSE GiveUp(p)
    /\ UNCHANGED <<handlers, parent, interrupted, next_pid, pid_file, operator,
                   faults>>

(* The entry of add_work_processes: workers_pid still names the workers of *)
(* the old master when the count is rejected.                              *)
AddWorkProcesses(p) ==
    /\ pc[p] = "add_work_processes"
    /\ IF mem[p].count_workflows > 0
       THEN /\ Move(p, "fork_worker", [mem[p] EXCEPT !.workers_pid = << >>])
            /\ UNCHANGED loop_i
       ELSE GiveUp(p)
    /\ UNCHANGED <<handlers, parent, interrupted, next_pid, pid_file, operator,
                   faults>>

(* One round of its loop.  A worker never reads the master's globals and   *)
(* members, so it starts with a fresh memory.                              *)
ForkWorker(p) ==
    /\ pc[p] = "fork_worker"
    /\ LET pids == Append(mem[p].workers_pid, next_pid)
       IN  Fork(p,
                IF Len(pids) >= mem[p].count_workflows
                    THEN "fill_pid_file" ELSE "fork_worker",
                [mem[p] EXCEPT !.workers_pid = pids],
                "worker_setup", FreshMemory)
    /\ UNCHANGED <<loop_i, interrupted, pid_file, operator, faults>>

ForkWorkerFails(p) ==
    /\ pc[p] = "fork_worker"
    /\ Fail("fork")
    /\ GiveUp(p)
    /\ UNCHANGED <<handlers, parent, interrupted, next_pid, pid_file, operator>>

(* Slip: the workers written before the master.                            *)
OwnPidFile_WorkersFirst(p) ==
    [master |-> Head(mem[p].workers_pid), workers |-> Append(Tail(mem[p].workers_pid), p)]

OwnPidFile(p) == [master |-> p, workers |-> mem[p].workers_pid]

FillPidFile(p) ==
    /\ pc[p] = "fill_pid_file"
    /\ \/ /\ pid_file' = OwnPidFile(p)
          /\ Move(p, IF Reloading(p) THEN "kill_old_master"
                                     ELSE "process_setup_signals", mem[p])
          /\ UNCHANGED <<loop_i, faults>>
       \/ /\ Fail("pid_file")
          /\ GiveUp(p)
          /\ UNCHANGED pid_file
    /\ UNCHANGED <<handlers, parent, interrupted, next_pid, operator>>

ProcessSetupSignals(p) ==
    /\ pc[p] = "process_setup_signals"
    /\ handlers' = [handlers EXCEPT ![p] = "master"]
    /\ Move(p, "test_soft_stop", mem[p])
    /\ UNCHANGED <<parent, loop_i, interrupted, next_pid, pid_file, operator,
                   faults>>

(* The main loop tests the four flags one after the other.                 *)
TestStop(p, here, flag, level, next) ==
    /\ pc[p] = here
    /\ IF flag
       THEN /\ Move(p, "stop_kill", [mem[p] EXCEPT !.level = level])
            /\ loop_i' = [loop_i EXCEPT ![p] = 1]
       ELSE /\ Move(p, next, mem[p])
            /\ UNCHANGED loop_i
    /\ UNCHANGED <<handlers, parent, interrupted, next_pid, pid_file, operator,
                   faults>>

TestReload(p, here, flag, level, next) ==
    /\ pc[p] = here
    /\ IF flag = 1
       THEN Move(p, "server_reload", [mem[p] EXCEPT !.level = level])
       ELSE Move(p, next, mem[p])
    /\ UNCHANGED <<handlers, parent, loop_i, interrupted, next_pid, pid_file,
                   operator, faults>>

TestSoftStop(p) ==
    TestStop(p, "test_soft_stop", mem[p].process_soft_stop, "SOFT", "test_hard_stop")

TestHardStop(p) ==
    TestStop(p, "test_hard_stop", mem[p].process_hard_stop, "HARD", "test_soft_reload")

TestSoftReload(p) ==
    TestReload(p, "test_soft_reload", mem[p].process_soft_reload, "SOFT",
               "test_hard_reload")

TestHardReload(p) ==
    TestReload(p, "test_hard_reload", mem[p].process_hard_reload, "HARD",
               "test_soft_stop")

(* Where the main loop goes on when server_reload has returned.            *)
AfterReload(level) ==
    IF level = "SOFT" THEN "test_hard_reload" ELSE "test_soft_stop"

SetReloadFlag(m, value) ==
    IF m.level = "SOFT" THEN [m EXCEPT !.process_soft_reload = value]
                        ELSE [m EXCEPT !.process_hard_reload = value]

(* Slip: server_stop tests the flag of the other level.                    *)
ReloadFlag_Swapped(m) ==
    IF m.level = "HARD" THEN m.process_soft_reload ELSE m.process_hard_reload

ReloadFlag(m) ==
    IF m.level = "SOFT" THEN m.process_soft_reload ELSE m.process_hard_reload

---------------------------------------------------------------------------
(* server_reload and daemonize(RELOAD_SERVER).                             *)

(* The old master reads the configuration again and forks the intermediate *)
(* child, a copy of itself.                                                *)
ServerReload(p) ==
    /\ pc[p] = "server_reload"
    /\ \E count \in Counts \cup {0} :
        LET m == [mem[p] EXCEPT !.count_workflows = count] IN
        /\ IF count = 0 THEN Fail("count") ELSE UNCHANGED faults
        /\ Fork(p, "mark_reload", m, "second_fork", m)
    /\ UNCHANGED <<loop_i, interrupted, pid_file, operator>>

(* An invalid configuration throws through main and ends the master; a     *)
(* failed fork makes it stop hard.                                         *)
ServerReloadFails(p) ==
    /\ pc[p] = "server_reload"
    /\ \/ Fail("config") /\ Move(p, "exiting", mem[p]) /\ UNCHANGED loop_i
       \/ Fail("fork") /\ GiveUp(p)
    /\ UNCHANGED <<handlers, parent, interrupted, next_pid, pid_file, operator>>

(* Slip: the old master forgets that a reload is on.                       *)
MarkReload_Forgets(p) ==
    /\ pc[p] = "mark_reload"
    /\ Move(p, AfterReload(mem[p].level), SetReloadFlag(mem[p], 0))
    /\ UNCHANGED <<handlers, parent, loop_i, interrupted, next_pid, pid_file,
                   operator, faults>>

MarkReload(p) ==
    /\ pc[p] = "mark_reload"
    /\ Move(p, AfterReload(mem[p].level), SetReloadFlag(mem[p], 2))
    /\ UNCHANGED <<handlers, parent, loop_i, interrupted, next_pid, pid_file,
                   operator, faults>>

(* Slip: the new master signals the old one before it has its workers.     *)
SecondFork_SignalsFirst(p) ==
    /\ pc[p] = "second_fork"
    /\ Fork(p, "exiting", mem[p], "kill_old_master",
            [mem[p] EXCEPT !.new_master_process = next_pid])
    /\ UNCHANGED <<loop_i, interrupted, pid_file, operator, faults>>

(* The intermediate child forks the new master and exits.                  *)
SecondFork(p) ==
    /\ pc[p] = "second_fork"
    /\ Fork(p, "exiting", mem[p], "add_work_processes",
            [mem[p] EXCEPT !.new_master_process = next_pid])
    /\ UNCHANGED <<loop_i, interrupted, pid_file, operator, faults>>

(* Or it fails, and takes itself for the new master in its main loop.      *)
SecondForkFails(p) ==
    /\ pc[p] = "second_fork"
    /\ Fail("fork")
    /\ GiveUp(p)
    /\ UNCHANGED <<handlers, parent, interrupted, next_pid, pid_file, operator>>

KillOldMaster(p) ==
    /\ pc[p] = "kill_old_master"
    /\ Signal(p, "wait_old_master", mem[p], mem[p].old_master_process,
              IF mem[p].level = "HARD" THEN "SIGINT" ELSE "SIGHUP")
    /\ UNCHANGED <<handlers, parent, loop_i, next_pid, pid_file, operator, faults>>

(* Slip: the flag is not reset, and every later master inherits it.        *)
WaitOldMaster_NoReset(p) ==
    /\ pc[p] = "wait_old_master"
    /\ mem[p].has_old_master_stopped
    /\ Move(p, "finish_reload", mem[p])
    /\ UNCHANGED <<handlers, parent, loop_i, interrupted, next_pid, pid_file,
                   operator, faults>>

WaitOldMaster(p) ==
    /\ pc[p] = "wait_old_master"
    /\ mem[p].has_old_master_stopped
    /\ Move(p, "finish_reload", [mem[p] EXCEPT !.has_old_master_stopped = FALSE])
    /\ UNCHANGED <<handlers, parent, loop_i, interrupted, next_pid, pid_file,
                   operator, faults>>

(* The result of this second fill_pid_file is ignored.                     *)
FinishReload(p) ==
    /\ pc[p] = "finish_reload"
    /\ \/ pid_file' = OwnPidFile(p) /\ UNCHANGED faults
       \/ UNCHANGED pid_file /\ Fail("pid_file")
    /\ Move(p, AfterReload(mem[p].level),
            [SetReloadFlag(mem[p], 0) EXCEPT
                !.old_master_process = mem[p].new_master_process,
                !.new_master_process = 0])
    /\ UNCHANGED <<handlers, parent, loop_i, interrupted, next_pid, operator>>

---------------------------------------------------------------------------
(* server_stop: signal every worker, wait for each, then either report to  *)
(* the new master or remove the pid file.                                  *)

(* Slip: the last worker is not signalled.                                *)
StopKill_OneShort(p) ==
    /\ pc[p] = "stop_kill"
    /\ IF loop_i[p] < Len(mem[p].workers_pid)
       THEN /\ Signal(p, "stop_kill", mem[p], mem[p].workers_pid[loop_i[p]],
                      IF mem[p].level = "HARD" THEN "SIGINT" ELSE "SIGHUP")
            /\ loop_i' = [loop_i EXCEPT ![p] = loop_i[p] + 1]
       ELSE /\ Move(p, "stop_wait", mem[p])
            /\ loop_i' = [loop_i EXCEPT ![p] = 1]
            /\ UNCHANGED interrupted
    /\ UNCHANGED <<handlers, parent, next_pid, pid_file, operator, faults>>

StopKill(p) ==
    /\ pc[p] = "stop_kill"
    /\ IF loop_i[p] <= Len(mem[p].workers_pid)
       THEN /\ Signal(p, "stop_kill", mem[p], mem[p].workers_pid[loop_i[p]],
                      IF mem[p].level = "HARD" THEN "SIGINT" ELSE "SIGHUP")
            /\ loop_i' = [loop_i EXCEPT ![p] = loop_i[p] + 1]
       ELSE /\ Move(p, "stop_wait", mem[p])
            /\ loop_i' = [loop_i EXCEPT ![p] = 1]
            /\ UNCHANGED interrupted
    /\ UNCHANGED <<handlers, parent, next_pid, pid_file, operator, faults>>

(* waitpid returns when the child has exited, at once when it is not a     *)
(* child (ECHILD), and with the child still running when a handler ran     *)
(* (EINTR); server_stop looks at no result.                                *)
StopWait(p) ==
    /\ pc[p] = "stop_wait"
    /\ IF loop_i[p] <= Len(mem[p].workers_pid)
       THEN LET child == mem[p].workers_pid[loop_i[p]] IN
            /\ ~Alive(child) \/ parent[child] # p \/ interrupted[p]
            /\ loop_i' = [loop_i EXCEPT ![p] = loop_i[p] + 1]
            /\ interrupted' = [interrupted EXCEPT ![p] = FALSE]
            /\ UNCHANGED <<pc, mem>>
       ELSE /\ Move(p, "stop_end", mem[p])
            /\ UNCHANGED <<loop_i, interrupted>>
    /\ UNCHANGED <<handlers, parent, next_pid, pid_file, operator, faults>>

(* Slip: the pid file is left behind.                                      *)
StopEnd_KeepsFile(p) ==
    /\ pc[p] = "stop_end"
    /\ IF ReloadFlag(mem[p]) = 2
       THEN Signal(p, "exiting", mem[p], mem[p].new_master_pid, "SIGCHLD")
       ELSE Move(p, "exiting", mem[p]) /\ UNCHANGED interrupted
    /\ UNCHANGED <<handlers, parent, loop_i, next_pid, pid_file, operator, faults>>

StopEnd(p) ==
    /\ pc[p] = "stop_end"
    /\ IF ReloadFlag(mem[p]) = 2
       THEN /\ Signal(p, "exiting", mem[p], mem[p].new_master_pid, "SIGCHLD")
            /\ UNCHANGED pid_file
       ELSE /\ pid_file' = NoFile
            /\ Move(p, "exiting", mem[p])
            /\ UNCHANGED interrupted
    /\ UNCHANGED <<handlers, parent, loop_i, next_pid, operator, faults>>

(* The kernel ends a process, frees its memory and tells its parent.       *)
ProcessExit(p) ==
    /\ pc[p] = "exiting"
    /\ Signal(p, "exited", FreshMemory, parent[p], "SIGCHLD")
    /\ loop_i' = [loop_i EXCEPT ![p] = 1]
    /\ UNCHANGED <<handlers, parent, next_pid, pid_file, operator, faults>>

---------------------------------------------------------------------------
(* Workers, as far as the life cycle sees them.                            *)

(* Slip: the worker keeps the handlers it was forked with.                 *)
WorkerSetup_NoHandlers(w) ==
    /\ pc[w] = "worker_setup"
    /\ Move(w, "worker_test", mem[w])
    /\ UNCHANGED <<handlers, parent, loop_i, interrupted, next_pid, pid_file,
                   operator, faults>>

WorkerSetup(w) ==
    /\ pc[w] = "worker_setup"
    /\ handlers' = [handlers EXCEPT ![w] = "worker"]
    /\ Move(w, "worker_test", mem[w])
    /\ UNCHANGED <<parent, loop_i, interrupted, next_pid, pid_file, operator,
                   faults>>

(* The test of the stop flags; with one set the worker drains and exits.   *)
WorkerTest(w) ==
    /\ pc[w] = "worker_test"
    /\ Move(w, IF mem[w].is_soft_stop \/ mem[w].is_hard_stop
               THEN "exiting" ELSE "worker_call", mem[w])
    /\ UNCHANGED <<handlers, parent, loop_i, interrupted, next_pid, pid_file,
                   operator, faults>>

(* It goes to sleep, whatever the flags are by now.                        *)
WorkerBlocks(w) ==
    /\ pc[w] = "worker_call"
    /\ Move(w, "epoll_wait", mem[w])
    /\ UNCHANGED <<handlers, parent, loop_i, interrupted, next_pid, pid_file,
                   operator, faults>>

(* A client's event wakes it up; handling one may throw through main.      *)
Traffic(w) ==
    /\ pc[w] = "epoll_wait"
    /\ \/ Move(w, "worker_test", mem[w]) /\ UNCHANGED faults
       \/ Move(w, "exiting", mem[w]) /\ Fail("crash")
    /\ UNCHANGED <<handlers, parent, loop_i, interrupted, next_pid, pid_file,
                   operator>>

---------------------------------------------------------------------------
Master(p) ==
    \/ BindListenSock(p) \/ AddWorkProcesses(p) \/ ForkWorker(p)
    \/ FillPidFile(p) \/ ProcessSetupSignals(p)
    \/ TestSoftStop(p) \/ TestHardStop(p) \/ TestSoftReload(p) \/ TestHardReload(p)
    \/ ServerReload(p) \/ MarkReload(p) \/ SecondFork(p)
    \/ KillOldMaster(p) \/ WaitOldMaster(p) \/ FinishReload(p)
    \/ StopKill(p) \/ StopWait(p) \/ StopEnd(p)

Failure(p) == ForkWorkerFails(p) \/ ServerReloadFails(p) \/ SecondForkFails(p)

Worker(w) == WorkerSetup(w) \/ WorkerTest(w) \/ WorkerBlocks(w)

Operator == Start \/ StopSoft \/ StopHard \/ ReloadSoft \/ ReloadHard

Next ==
    \/ Operator
    \/ \E p \in Pid : \/ Master(p) \/ Failure(p) \/ Worker(p)
                      \/ ProcessExit(p) \/ Traffic(p)

Spec == Init /\ [][Next]_vars

(* The scheduler runs every process that can run.                          *)
Scheduling == \A p \in Pid : WF_vars(Master(p) \/ Worker(p) \/ ProcessExit(p))

FairSpec == Spec /\ Scheduling

(* Besides, every sleeping worker gets a request some day.                 *)
FairTrafficSpec == FairSpec /\ \A p \in Pid : WF_vars(Traffic(p))

---------------------------------------------------------------------------
(* Correctness.                                                            *)

(* The type invariant: every process has a location and a memory of the    *)
(* right shape, and fresh identifiers are beyond those in use.             *)
TypeOK ==
    /\ pc \in [Pid -> PC]
    /\ mem \in [Pid -> Memory]
    /\ handlers \in [Pid -> {"default", "master", "worker"}]
    /\ parent \in [Pid -> {Shell} \cup Pid]
    /\ loop_i \in [Pid -> Nat \ {0}]
    /\ interrupted \in [Pid -> BOOLEAN]
    /\ next_pid \in 1 .. MaxPid + 1
    /\ pid_file \in [master : {Shell} \cup Pid, workers : Seq(Pid)]
    /\ commands \in 0 .. MaxCommands
    /\ issued \subseteq Commands
    /\ faults \subseteq Faults

(* A worker that accepts connections, or is about to, and was not told to  *)
(* stop.                                                                   *)
Serving(w) ==
    /\ pc[w] \in WorkerPC
    /\ ~mem[w].is_soft_stop /\ ~mem[w].is_hard_stop

(* The first master has forked all its workers.                            *)
Started ==
    pc[1] \notin {"unused", "bind_listen_sock", "add_work_processes", "fork_worker"}

(* A configuration that cannot be parsed and a pid file that cannot be     *)
(* written are the failures the running service survives.                  *)
Contained == faults \subseteq {"config", "pid_file"}

Undisturbed == Contained /\ issued \cap StopCommands = {}

(* However many reloads are asked for and however they overlap, a server   *)
(* nobody stopped always has a worker that serves: server_reload signals   *)
(* the old master only when the new workers exist.                         *)
NoServiceGap == Started /\ Undisturbed => \E w \in Pid : Serving(w)

(* server_stop signals the workers of the stopping master and nobody       *)
(* else's, although every new master is a copy of the old one and carries  *)
(* the old one's workers_pid until add_work_processes clears it.           *)
OnlyOwnWorkers ==
    \A p \in Pid : pc[p] = "stop_kill" =>
        \A i \in 1 .. Len(mem[p].workers_pid) :
            parent[mem[p].workers_pid[i]] = p

SignalsOwnWorkers == Contained => OnlyOwnWorkers

(* The first line of the pid file never leads a command of mohican.sh to a *)
(* worker or to the intermediate child of a reload.                        *)
PidFileNamesMaster ==
    LET m == pid_file.master IN
    m # Shell /\ Alive(m) =>
        pc[m] \notin WorkerPC \cup {"second_fork", "add_work_processes", "fork_worker"}

(* With an operator who lets commands settle, the settled server is what   *)
(* the pid file says: one master in its loop, the listed workers, and no   *)
(* process besides; or no process and no file.                             *)
PidFileTellsTheServer ==
    Settled =>
        LET alive == {p \in Pid : Alive(p)} IN
        IF alive = {} THEN pid_file = NoFile
        ELSE /\ pc[pid_file.master] \in LoopPC
             /\ alive = {pid_file.master} \cup
                        {pid_file.workers[i] : i \in 1 .. Len(pid_file.workers)}

(* A new master finishes its reload only when the old one has done all its *)
(* work: the flag it spins on is not set by anything else.                 *)
ReloadWaitsForOldMaster ==
    \A p \in Pid : pc[p] = "finish_reload" =>
        pc[mem[p].old_master_process] \in {"exiting", "exited"}

(* The pid file goes from one master to a later one, and is removed only   *)
(* by the last master: neither in the loop nor in the last phase of a      *)
(* reload is there another one.                                            *)
PidFileStep ==
    /\ pid_file'.master # Shell => pid_file'.master >= pid_file.master
    /\ pid_file'.master = Shell /\ pid_file.master # Shell =>
          \A p \in Pid : pc[p] \notin LoopPC \cup
                {"kill_old_master", "wait_old_master", "finish_reload"}

PidFileMovesOn == [][PidFileStep]_pid_file

(* To an operator who lets every command settle, the server is one of      *)
(* generations (Service): the workers of a master are a generation, and a  *)
(* reload opens the next one, has the pid file name it, and only then      *)
(* closes the one before; nothing but a stop closes the last one, and no   *)
(* command ends before its work is done.                                   *)
Generation == {p \in Pid : \E w \in Pid : parent[w] = p /\ Serving(w)}

CommandOf(p) ==
    IF p = Shell THEN "nothing"
    ELSE IF Reloading(p) THEN "replace"
    ELSE IF mem[p].process_soft_stop \/ mem[p].process_hard_stop THEN "stop"
    ELSE IF mem[p].process_soft_reload # 0 \/ mem[p].process_hard_reload # 0 THEN "reload"
    ELSE "nothing"

Promise == INSTANCE Service WITH
    Generations <- Pid,
    Nobody      <- Shell,
    asked       <- CommandOf(pid_file.master),
    serving     <- Generation,
    named       <- pid_file.master

ImplementsService == Promise!Spec

(* Once the operator's stop signal has reached a master in its main loop,  *)
(* the server ends: no process is left.                                    *)
OperatorStopEnds ==
    (\E p \in Pid : /\ pc[p] \in LoopPC
                    /\ mem[p].process_soft_stop \/ mem[p].process_hard_stop
                    /\ mem[p].new_master_pid = Shell)
        ~> \A q \in Pid : ~Alive(q)

(* A master that was told to reload ends, and the server is then run by a  *)
(* later master that the pid file names.                                   *)
ReloadEnds ==
    \A p \in Pid :
        (pc[p] \in LoopPC /\ (mem[p].process_soft_reload = 1
                             \/ mem[p].process_hard_reload = 1))
            ~> (~Alive(p) /\ pid_file.master > p /\ Settled)

(* server_stop does not look at what waitpid returns, and the SIGCHLD of   *)
(* one worker ends the wait for another: a master may report its end too   *)
(* early and leave workers behind.  Still these end, too.                  *)
LeftBehind ==
    {w \in Pid : pc[w] \in WorkerPC /\ pc[parent[w]] \in {"stop_end", "exiting", "exited"}}

WorkersEndWithTheirMaster == LeftBehind # {} ~> LeftBehind = {}

---------------------------------------------------------------------------
(* The inductive invariant behind SignalsOwnWorkers and NoServiceGap.      *)

DonePC == {"stop_kill", "stop_wait", "stop_end", "exiting", "exited"}
RunningPC == LoopPC \cup {"server_reload", "mark_reload"}
HandoverPC == {"kill_old_master", "wait_old_master", "finish_reload"}
ReadyPC == RunningPC \cup HandoverPC \cup {"process_setup_signals"}
FormingPC == {"second_fork", "add_work_processes", "fork_worker", "fill_pid_file"}

Told(p) == mem[p].process_soft_stop \/ mem[p].process_hard_stop

(* Identifiers not yet given out belong to no process and no worker list.  *)
PidsAreFresh ==
    /\ \A p \in Pid : p >= next_pid => pc[p] = "unused"
    /\ \A p \in Pid : \A i \in 1 .. Len(mem[p].workers_pid) :
            mem[p].workers_pid[i] < next_pid

CountIsPositive ==
    \A p \in Pid : pc[p] \in {"bind_listen_sock", "add_work_processes", "second_fork"}
        => mem[p].count_workflows > 0

(* A master in its main loop is its own old master; one that is being made *)
(* has an earlier process for it, which is past its start.                 *)
MasterKnowsItself ==
    /\ \A p \in Pid :
          pc[p] \in RunningPC \cup {"bind_listen_sock", "process_setup_signals"}
            => ~Reloading(p)
    /\ \A p \in Pid : pc[p] \in HandoverPC \cup {"second_fork"} => Reloading(p)
    /\ \A p \in Pid : pc[p] \in FormingPC \cup HandoverPC /\ Reloading(p) =>
          /\ mem[p].old_master_process \in 1 .. p - 1
          /\ pc[mem[p].old_master_process] \in RunningPC \cup DonePC
          /\ pc[p] # "second_fork" => mem[p].new_master_process = p

PidFileNamesFormedMaster ==
    pid_file.master # Shell => pc[pid_file.master] \in ReadyPC \cup DonePC

(* The workers a master lists are its children and nothing but workers.    *)
WorkersAreChildren ==
    \A p \in Pid :
        pc[p] \in ReadyPC \cup {"fork_worker", "fill_pid_file", "stop_kill"} =>
            \A i \in 1 .. Len(mem[p].workers_pid) :
                LET w == mem[p].workers_pid[i] IN
                /\ parent[w] = p
                /\ pc[w] \in WorkerPC \cup {"exiting", "exited"}

(* A master that has its workers and does not stop has one that serves.    *)
ReadyServes ==
    \A p \in Pid : pc[p] \in ReadyPC \cup {"fill_pid_file"} =>
        \E w \in Pid : Serving(w) /\ parent[w] = p

(* A master in the making inherits a stop request only from a master that  *)
(* got it and is about to end; the first master has nobody to inherit from. *)
ToldByInheritance ==
    \A p \in Pid :
        pc[p] \in FormingPC \cup {"bind_listen_sock", "kill_old_master"} /\ Told(p) =>
            /\ Reloading(p)
            /\ \/ Told(mem[p].old_master_process)
               \/ pc[mem[p].old_master_process] \in DonePC

(* A master whose workers nobody is going to signal: it was not told to    *)
(* stop, or it is gone without having done so.                             *)
Standing(p) ==
    \/ pc[p] \in {"exiting", "exited"}
    \/ pc[p] \in ReadyPC /\ ~Told(p)
    \/ pc[p] = "fill_pid_file" /\ ~Reloading(p)

SomeoneStands ==
    Started => \E p, w \in Pid : Standing(p) /\ Serving(w) /\ parent[w] = p

Structure ==
    /\ CountIsPositive
    /\ MasterKnowsItself
    /\ PidFileNamesFormedMaster
    /\ WorkersAreChildren
    /\ ReadyServes

ServiceInv ==
    /\ Contained => PidsAreFresh /\ Structure
    /\ Undisturbed => ToldByInheritance /\ SomeoneStands
=============================================================================
