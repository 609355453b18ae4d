------------------------ MODULE MohicanServer_proofs ------------------------
(***************************************************************************)
(* Proofs about MohicanServer, for every value of its constants: the type  *)
(* invariant, and the two safety properties of the service.                *)
(***************************************************************************)
EXTENDS MohicanServer, TLAPS

---------------------------------------------------------------------------
(* Type correctness.                                                       *)

LEMMA FreshMemoryType == FreshMemory \in Memory
<1>1. << >> \in Seq(Pid)
  OBVIOUS
<1> QED
  BY <1>1 DEF FreshMemory, Memory, Shell, Level

(* Each handler turns a memory into a memory.                              *)
LEMMA HandlersType ==
    ASSUME NEW m \in Memory, NEW si_pid \in {Shell} \cup Pid
    PROVE  /\ sighup_handler(m, si_pid) \in Memory
           /\ sigint_handler(m, si_pid) \in Memory
           /\ sigpipe_handler(m) \in Memory
           /\ sigalrm_handler(m) \in Memory
           /\ sigchld_handler(m) \in Memory
           /\ worker_sighup_handler(m) \in Memory
           /\ worker_sigint_handler(m) \in Memory
<1>1. sighup_handler(m, si_pid) \in Memory
  BY DEF Memory, sighup_handler
<1>2. sigint_handler(m, si_pid) \in Memory
  BY DEF Memory, sigint_handler
<1>3. sigpipe_handler(m) \in Memory
  BY DEF Memory, sigpipe_handler
<1>4. sigalrm_handler(m) \in Memory
  BY DEF Memory, sigalrm_handler
<1>5. sigchld_handler(m) \in Memory
  BY DEF Memory, sigchld_handler
<1>6. worker_sighup_handler(m) \in Memory
  BY DEF Memory, worker_sighup_handler
<1>7. worker_sigint_handler(m) \in Memory
  BY DEF Memory, worker_sigint_handler
<1> QED
  BY <1>1, <1>2, <1>3, <1>4, <1>5, <1>6, <1>7

LEMMA HandledType ==
    ASSUME TypeOK, NEW q \in Pid, NEW sig, NEW si_pid \in {Shell} \cup Pid
    PROVE  Handled(q, sig, si_pid) \in Memory
<1>1. mem[q] \in Memory
  BY DEF TypeOK
<1> QED
  BY <1>1, HandlersType DEF Handled

LEMMA ReceivedType ==
    ASSUME TypeOK, NEW q \in Pid, NEW sig
    PROVE  Received(q, sig) \in PC
BY DEF TypeOK, Received, PC, WorkerPC

(* The three ways a process takes a step keep the types.                   *)
LEMMA SignalType ==
    ASSUME TypeOK, NEW p \in {Shell} \cup Pid, NEW next \in PC, NEW m \in Memory,
           NEW q, NEW sig, Signal(p, next, m, q, sig)
    PROVE  /\ pc' \in [Pid -> PC]
           /\ mem' \in [Pid -> Memory]
           /\ interrupted' \in [Pid -> BOOLEAN]
<1>1. \A r \in Pid : Received(r, sig) \in PC
  BY ReceivedType
<1>2. \A r \in Pid : Handled(r, sig, p) \in Memory
  BY HandledType
<1> QED
  BY <1>1, <1>2 DEF TypeOK, Signal

LEMMA MoveType ==
    ASSUME TypeOK, NEW p \in Pid, NEW next \in PC, NEW m \in Memory, Move(p, next, m)
    PROVE  /\ pc' \in [Pid -> PC]
           /\ mem' \in [Pid -> Memory]
BY DEF TypeOK, Move

LEMMA NextPidType ==
    ASSUME TypeOK, next_pid <= MaxPid
    PROVE  /\ next_pid \in Pid
           /\ next_pid + 1 \in 1 .. MaxPid + 1
BY MaxPidAssumption DEF TypeOK, Pid

LEMMA ForkType ==
    ASSUME TypeOK, NEW p \in Pid, NEW next \in PC, NEW m \in Memory,
           NEW childpc \in PC, NEW childm \in Memory, Fork(p, next, m, childpc, childm)
    PROVE  /\ pc' \in [Pid -> PC]
           /\ mem' \in [Pid -> Memory]
           /\ handlers' \in [Pid -> {"default", "master", "worker"}]
           /\ parent' \in [Pid -> {Shell} \cup Pid]
           /\ next_pid' \in 1 .. MaxPid + 1
<1>1. next_pid \in Pid /\ next_pid' \in 1 .. MaxPid + 1
  BY NextPidType DEF Fork
<1>2. pc' \in [Pid -> PC] /\ mem' \in [Pid -> Memory]
  BY <1>1 DEF TypeOK, Fork
<1>3. /\ handlers' \in [Pid -> {"default", "master", "worker"}]
      /\ parent' \in [Pid -> {Shell} \cup Pid]
  BY <1>1 DEF TypeOK, Fork
<1> QED
  BY <1>1, <1>2, <1>3

LEMMA FailType ==
    ASSUME TypeOK, NEW k, Fail(k)
    PROVE  faults' \subseteq Faults
BY DEF TypeOK, Fail

(* What the actions write into a memory fits its type.                     *)
LEMMA UpdatesType ==
    /\ \A m \in Memory, level \in Level : [m EXCEPT !.level = level] \in Memory
    /\ \A m \in Memory, s \in Seq(Pid) : [m EXCEPT !.workers_pid = s] \in Memory
    /\ \A m \in Memory, n \in Nat : [m EXCEPT !.count_workflows = n] \in Memory
    /\ \A m \in Memory, b \in BOOLEAN : [m EXCEPT !.has_old_master_stopped = b] \in Memory
    /\ \A m \in Memory, q \in {Shell} \cup Pid : [m EXCEPT !.old_master_process = q] \in Memory
    /\ \A m \in Memory, q \in {Shell} \cup Pid : [m EXCEPT !.new_master_process = q] \in Memory
    /\ \A m \in Memory, v \in 0 .. 2 : [m EXCEPT !.process_soft_reload = v] \in Memory
    /\ \A m \in Memory, v \in 0 .. 2 : [m EXCEPT !.process_hard_reload = v] \in Memory
<1>1. \A m \in Memory, level \in Level : [m EXCEPT !.level = level] \in Memory
  BY DEF Memory
<1>2. \A m \in Memory, s \in Seq(Pid) : [m EXCEPT !.workers_pid = s] \in Memory
  BY DEF Memory
<1>3. \A m \in Memory, n \in Nat : [m EXCEPT !.count_workflows = n] \in Memory
  BY DEF Memory
<1>4. \A m \in Memory, b \in BOOLEAN : [m EXCEPT !.has_old_master_stopped = b] \in Memory
  BY DEF Memory
<1>5. \A m \in Memory, q \in {Shell} \cup Pid : [m EXCEPT !.old_master_process = q] \in Memory
  BY DEF Memory
<1>6. \A m \in Memory, q \in {Shell} \cup Pid : [m EXCEPT !.new_master_process = q] \in Memory
  BY DEF Memory
<1>7. \A m \in Memory, v \in 0 .. 2 : [m EXCEPT !.process_soft_reload = v] \in Memory
  BY DEF Memory
<1>8. \A m \in Memory, v \in 0 .. 2 : [m EXCEPT !.process_hard_reload = v] \in Memory
  BY DEF Memory
<1> QED
  BY <1>1, <1>2, <1>3, <1>4, <1>5, <1>6, <1>7, <1>8

LEMMA SetReloadFlagType ==
    ASSUME NEW m \in Memory, NEW v \in 0 .. 2
    PROVE  SetReloadFlag(m, v) \in Memory
BY UpdatesType DEF SetReloadFlag

LEMMA GiveUpType ==
    ASSUME TypeOK, NEW p \in Pid, GiveUp(p)
    PROVE  /\ pc' \in [Pid -> PC]
           /\ mem' \in [Pid -> Memory]
           /\ loop_i' \in [Pid -> Nat \ {0}]
<1>1. /\ mem[p] \in Memory
      /\ [mem[p] EXCEPT !.level = "HARD"] \in Memory
  BY UpdatesType DEF TypeOK, Level
<1>2. "stop_kill" \in PC /\ "exiting" \in PC
  BY DEF PC
<1>3. \E next \in PC, m \in Memory : Move(p, next, m)
  BY <1>1, <1>2 DEF GiveUp
<1>4. loop_i' \in [Pid -> Nat \ {0}]
  BY DEF GiveUp, TypeOK
<1> QED
  BY <1>3, <1>4, MoveType

THEOREM InitTypeOK == Init => TypeOK
<1>1. {} \subseteq Commands /\ {} \subseteq Faults
  OBVIOUS
<1>2. Init => NoFile \in [master : {Shell} \cup Pid, workers : Seq(Pid)]
  BY DEF NoFile
<1> QED
  BY <1>1, <1>2, FreshMemoryType, MaxPidAssumption, MaxCommandsAssumption
  DEF Init, TypeOK, PC
LEMMA SignalMasterType ==
    ASSUME TypeOK, NEW command, NEW sig, SignalMaster(command, sig)
    PROVE  TypeOK'
<1>1. "unused" \in PC
  BY DEF PC
<1>2. /\ pc' \in [Pid -> PC]
      /\ mem' \in [Pid -> Memory]
      /\ interrupted' \in [Pid -> BOOLEAN]
  BY <1>1, SignalType, FreshMemoryType DEF SignalMaster
<1>3. commands' \in 0 .. MaxCommands /\ issued' \subseteq Commands
  BY MaxCommandsAssumption DEF SignalMaster, Issue, TypeOK
<1> QED
  BY <1>2, <1>3 DEF SignalMaster, TypeOK

LEMMA StartType ==
    ASSUME TypeOK, Start
    PROVE  TypeOK'
<1>1. next_pid \in Pid /\ next_pid' \in 1 .. MaxPid + 1
  BY NextPidType DEF Start
<1>2. commands' \in 0 .. MaxCommands /\ issued' \subseteq Commands
  BY MaxCommandsAssumption DEF Start, Issue, TypeOK
<1>3. PICK count \in Counts \cup {0} :
         /\ IF count = 0 THEN Fail("count") ELSE UNCHANGED faults
         /\ Move(next_pid, "bind_listen_sock",
                 [FreshMemory EXCEPT !.old_master_process = next_pid,
                                     !.count_workflows = count])
  BY DEF Start
<1>4. faults' \subseteq Faults
  BY <1>3, FailType DEF TypeOK
<1>5. [FreshMemory EXCEPT !.old_master_process = next_pid,
                          !.count_workflows = count] \in Memory
  BY <1>1, FreshMemoryType, UpdatesType, CountsAssumption
<1>6. "bind_listen_sock" \in PC
  BY DEF PC
<1>7. pc' \in [Pid -> PC] /\ mem' \in [Pid -> Memory]
  BY <1>1, <1>3, <1>5, <1>6, MoveType
<1> QED
  BY <1>1, <1>2, <1>4, <1>7 DEF Start, TypeOK

LEMMA BindListenSockType ==
    ASSUME TypeOK, NEW p \in Pid, BindListenSock(p)
    PROVE  TypeOK'
<1>1. mem[p] \in Memory /\ "add_work_processes" \in PC
  BY DEF TypeOK, PC
<1>2. CASE Move(p, "add_work_processes", mem[p]) /\ UNCHANGED <<loop_i, faults>>
  BY <1>1, <1>2, MoveType DEF BindListenSock, operator, TypeOK
<1>3. CASE Fail("bind") /\ GiveUp(p)
  BY <1>3, FailType, GiveUpType DEF BindListenSock, operator, TypeOK
<1> QED
  BY <1>2, <1>3 DEF BindListenSock

LEMMA AddWorkProcessesType ==
    ASSUME TypeOK, NEW p \in Pid, AddWorkProcesses(p)
    PROVE  TypeOK'
<1>1. mem[p] \in Memory /\ << >> \in Seq(Pid) /\ "fork_worker" \in PC
  BY DEF TypeOK, PC
<1>2. CASE mem[p].count_workflows > 0
  <2>1. [mem[p] EXCEPT !.workers_pid = << >>] \in Memory
    BY <1>1, UpdatesType
  <2> QED
    BY <1>1, <1>2, <2>1, MoveType DEF AddWorkProcesses, operator, TypeOK
<1>3. CASE ~(mem[p].count_workflows > 0)
  BY <1>3, GiveUpType DEF AddWorkProcesses, operator, TypeOK
<1> QED
  BY <1>2, <1>3

LEMMA ForkWorkerType ==
    ASSUME TypeOK, NEW p \in Pid, ForkWorker(p)
    PROVE  TypeOK'
<1> DEFINE pids == Append(mem[p].workers_pid, next_pid)
           next == IF Len(pids) >= mem[p].count_workflows
                       THEN "fill_pid_file" ELSE "fork_worker"
<1>1. Fork(p, next, [mem[p] EXCEPT !.workers_pid = pids], "worker_setup", FreshMemory)
  BY DEF ForkWorker
<1>2. next_pid \in Pid
  BY <1>1, NextPidType DEF Fork
<1>3. mem[p] \in Memory /\ mem[p].workers_pid \in Seq(Pid)
  BY DEF TypeOK, Memory
<1>4. pids \in Seq(Pid)
  BY <1>2, <1>3
<1>5. [mem[p] EXCEPT !.workers_pid = pids] \in Memory
  BY <1>3, <1>4, UpdatesType
<1>6. next \in PC /\ "worker_setup" \in PC
  BY DEF PC, WorkerPC
<1> QED
  BY <1>1, <1>5, <1>6, ForkType, FreshMemoryType DEF ForkWorker, operator, TypeOK

LEMMA FillPidFileType ==
    ASSUME TypeOK, NEW p \in Pid, FillPidFile(p)
    PROVE  TypeOK'
<1>1. mem[p] \in Memory /\ mem[p].workers_pid \in Seq(Pid)
  BY DEF TypeOK, Memory
<1>2. OwnPidFile(p) \in [master : {Shell} \cup Pid, workers : Seq(Pid)]
  BY <1>1 DEF OwnPidFile
<1>3. "kill_old_master" \in PC /\ "process_setup_signals" \in PC
  BY DEF PC
<1>4. CASE pid_file' = OwnPidFile(p)
           /\ Move(p, IF Reloading(p) THEN "kill_old_master"
                                      ELSE "process_setup_signals", mem[p])
           /\ UNCHANGED <<loop_i, faults>>
  BY <1>1, <1>2, <1>3, <1>4, MoveType DEF FillPidFile, operator, TypeOK
<1>5. CASE Fail("pid_file") /\ GiveUp(p) /\ UNCHANGED pid_file
  BY <1>5, FailType, GiveUpType DEF FillPidFile, operator, TypeOK
<1> QED
  BY <1>4, <1>5 DEF FillPidFile

LEMMA ProcessSetupSignalsType ==
    ASSUME TypeOK, NEW p \in Pid, ProcessSetupSignals(p)
    PROVE  TypeOK'
<1>1. mem[p] \in Memory /\ "test_soft_stop" \in PC
  BY DEF TypeOK, PC, LoopPC
<1> QED
  BY <1>1, MoveType DEF ProcessSetupSignals, operator, TypeOK

LEMMA TestStopType ==
    ASSUME TypeOK, NEW p \in Pid, NEW here, NEW flag \in BOOLEAN,
           NEW level \in Level, NEW next \in PC, TestStop(p, here, flag, level, next)
    PROVE  TypeOK'
<1>1. mem[p] \in Memory /\ "stop_kill" \in PC
  BY DEF TypeOK, PC
<1>2. [mem[p] EXCEPT !.level = level] \in Memory
  BY <1>1, UpdatesType
<1>3. pc' \in [Pid -> PC] /\ mem' \in [Pid -> Memory]
  BY <1>1, <1>2, MoveType DEF TestStop
<1>4. loop_i' = [loop_i EXCEPT ![p] = 1] \/ loop_i' = loop_i
  BY DEF TestStop
<1>5. loop_i' \in [Pid -> Nat \ {0}]
  BY <1>4 DEF TypeOK
<1> QED
  BY <1>3, <1>5 DEF TestStop, operator, TypeOK

LEMMA TestReloadType ==
    ASSUME TypeOK, NEW p \in Pid, NEW here, NEW flag, NEW level \in Level,
           NEW next \in PC, TestReload(p, here, flag, level, next)
    PROVE  TypeOK'
<1>1. mem[p] \in Memory /\ "server_reload" \in PC
  BY DEF TypeOK, PC
<1>2. [mem[p] EXCEPT !.level = level] \in Memory
  BY <1>1, UpdatesType
<1>3. pc' \in [Pid -> PC] /\ mem' \in [Pid -> Memory]
  BY <1>1, <1>2, MoveType DEF TestReload
<1> QED
  BY <1>3 DEF TestReload, operator, TypeOK

LEMMA ServerReloadType ==
    ASSUME TypeOK, NEW p \in Pid, ServerReload(p)
    PROVE  TypeOK'
<1>1. PICK count \in Counts \cup {0} :
        LET m == [mem[p] EXCEPT !.count_workflows = count] IN
        /\ IF count = 0 THEN Fail("count") ELSE UNCHANGED faults
        /\ Fork(p, "mark_reload", m, "second_fork", m)
  BY DEF ServerReload
<1>2. mem[p] \in Memory /\ "mark_reload" \in PC /\ "second_fork" \in PC
  BY DEF TypeOK, PC
<1>3. [mem[p] EXCEPT !.count_workflows = count] \in Memory
  BY <1>2, UpdatesType, CountsAssumption
<1>4. faults' \subseteq Faults
  BY <1>1, FailType DEF TypeOK
<1> QED
  BY <1>1, <1>2, <1>3, <1>4, ForkType DEF ServerReload, operator, TypeOK

LEMMA FailureType ==
    ASSUME TypeOK, NEW p \in Pid, Failure(p)
    PROVE  TypeOK'
<1>1. mem[p] \in Memory /\ "exiting" \in PC
  BY DEF TypeOK, PC
<1>2. CASE ForkWorkerFails(p)
  BY <1>2, FailType, GiveUpType DEF ForkWorkerFails, operator, TypeOK
<1>3. CASE SecondForkFails(p)
  BY <1>3, FailType, GiveUpType DEF SecondForkFails, operator, TypeOK
<1>4. CASE ServerReloadFails(p)
  <2>1. CASE Fail("config") /\ Move(p, "exiting", mem[p]) /\ UNCHANGED loop_i
    BY <1>1, <1>4, <2>1, FailType, MoveType DEF ServerReloadFails, operator, TypeOK
  <2>2. CASE Fail("fork") /\ GiveUp(p)
    BY <1>4, <2>2, FailType, GiveUpType DEF ServerReloadFails, operator, TypeOK
  <2> QED
    BY <1>4, <2>1, <2>2 DEF ServerReloadFails
<1> QED
  BY <1>2, <1>3, <1>4 DEF Failure
LEMMA MarkReloadType ==
    ASSUME TypeOK, NEW p \in Pid, MarkReload(p)
    PROVE  TypeOK'
<1>1. mem[p] \in Memory /\ AfterReload(mem[p].level) \in PC
  BY DEF TypeOK, AfterReload, PC, LoopPC
<1>2. SetReloadFlag(mem[p], 2) \in Memory
  BY <1>1, SetReloadFlagType
<1> QED
  BY <1>1, <1>2, MoveType DEF MarkReload, operator, TypeOK

LEMMA SecondForkType ==
    ASSUME TypeOK, NEW p \in Pid, SecondFork(p)
    PROVE  TypeOK'
<1>1. mem[p] \in Memory /\ "exiting" \in PC /\ "add_work_processes" \in PC
  BY DEF TypeOK, PC
<1>2. next_pid \in Pid
  BY NextPidType DEF SecondFork, Fork
<1>3. [mem[p] EXCEPT !.new_master_process = next_pid] \in Memory
  BY <1>1, <1>2, UpdatesType
<1> QED
  BY <1>1, <1>3, ForkType DEF SecondFork, operator, TypeOK

LEMMA KillOldMasterType ==
    ASSUME TypeOK, NEW p \in Pid, KillOldMaster(p)
    PROVE  TypeOK'
<1>1. mem[p] \in Memory /\ "wait_old_master" \in PC
  BY DEF TypeOK, PC
<1> QED
  BY <1>1, SignalType DEF KillOldMaster, operator, TypeOK

LEMMA WaitOldMasterType ==
    ASSUME TypeOK, NEW p \in Pid, WaitOldMaster(p)
    PROVE  TypeOK'
<1>1. mem[p] \in Memory /\ "finish_reload" \in PC
  BY DEF TypeOK, PC
<1>2. [mem[p] EXCEPT !.has_old_master_stopped = FALSE] \in Memory
  BY <1>1, UpdatesType
<1> QED
  BY <1>1, <1>2, MoveType DEF WaitOldMaster, operator, TypeOK

LEMMA FinishReloadType ==
    ASSUME TypeOK, NEW p \in Pid, FinishReload(p)
    PROVE  TypeOK'
<1>1. mem[p] \in Memory /\ AfterReload(mem[p].level) \in PC
  BY DEF TypeOK, AfterReload, PC, LoopPC
<1>2. /\ mem[p].workers_pid \in Seq(Pid)
      /\ mem[p].new_master_process \in {Shell} \cup Pid
      /\ 0 \in {Shell} \cup Pid
  BY <1>1 DEF Memory, Shell
<1>3. OwnPidFile(p) \in [master : {Shell} \cup Pid, workers : Seq(Pid)]
  BY <1>2 DEF OwnPidFile
<1>4. SetReloadFlag(mem[p], 0) \in Memory
  BY <1>1, SetReloadFlagType
<1>5. [SetReloadFlag(mem[p], 0) EXCEPT
          !.old_master_process = mem[p].new_master_process,
          !.new_master_process = 0] \in Memory
  BY <1>2, <1>4, UpdatesType
<1>6. pc' \in [Pid -> PC] /\ mem' \in [Pid -> Memory]
  BY <1>1, <1>5, MoveType DEF FinishReload
<1>7. faults' \subseteq Faults
  BY FailType DEF FinishReload, TypeOK
<1> QED
  BY <1>3, <1>6, <1>7 DEF FinishReload, operator, TypeOK

LEMMA StopKillType ==
    ASSUME TypeOK, NEW p \in Pid, StopKill(p)
    PROVE  TypeOK'
<1>1. mem[p] \in Memory /\ "stop_kill" \in PC /\ "stop_wait" \in PC
  BY DEF TypeOK, PC
<1>2. CASE loop_i[p] <= Len(mem[p].workers_pid)
  <2>1. loop_i' \in [Pid -> Nat \ {0}]
    BY <1>2 DEF StopKill, TypeOK
  <2> QED
    BY <1>1, <1>2, <2>1, SignalType DEF StopKill, operator, TypeOK
<1>3. CASE ~(loop_i[p] <= Len(mem[p].workers_pid))
  <2>1. loop_i' = [loop_i EXCEPT ![p] = 1]
    BY <1>3 DEF StopKill
  <2>2. loop_i' \in [Pid -> Nat \ {0}]
    BY <2>1 DEF TypeOK
  <2> QED
    BY <1>1, <1>3, <2>2, MoveType DEF StopKill, operator, TypeOK
<1> QED
  BY <1>2, <1>3

LEMMA StopWaitType ==
    ASSUME TypeOK, NEW p \in Pid, StopWait(p)
    PROVE  TypeOK'
<1>1. mem[p] \in Memory /\ "stop_end" \in PC
  BY DEF TypeOK, PC
<1>2. CASE loop_i[p] <= Len(mem[p].workers_pid)
  <2>1. /\ loop_i' = [loop_i EXCEPT ![p] = loop_i[p] + 1]
        /\ interrupted' = [interrupted EXCEPT ![p] = FALSE]
        /\ UNCHANGED <<pc, mem>>
    BY <1>2 DEF StopWait
  <2>2. loop_i' \in [Pid -> Nat \ {0}] /\ interrupted' \in [Pid -> BOOLEAN]
    BY <2>1 DEF TypeOK
  <2> QED
    BY <2>1, <2>2 DEF StopWait, operator, TypeOK
<1>3. CASE ~(loop_i[p] <= Len(mem[p].workers_pid))
  BY <1>1, <1>3, MoveType DEF StopWait, operator, TypeOK
<1> QED
  BY <1>2, <1>3

LEMMA StopEndType ==
    ASSUME TypeOK, NEW p \in Pid, StopEnd(p)
    PROVE  TypeOK'
<1>1. mem[p] \in Memory /\ "exiting" \in PC
  BY DEF TypeOK, PC
<1>2. NoFile \in [master : {Shell} \cup Pid, workers : Seq(Pid)]
  BY DEF NoFile
<1>3. CASE ReloadFlag(mem[p]) = 2
  BY <1>1, <1>3, SignalType DEF StopEnd, operator, TypeOK
<1>4. CASE ReloadFlag(mem[p]) # 2
  BY <1>1, <1>2, <1>4, MoveType DEF StopEnd, operator, TypeOK
<1> QED
  BY <1>3, <1>4

LEMMA ProcessExitType ==
    ASSUME TypeOK, NEW p \in Pid, ProcessExit(p)
    PROVE  TypeOK'
<1>1. "exited" \in PC
  BY DEF PC
<1>2. /\ pc' \in [Pid -> PC]
      /\ mem' \in [Pid -> Memory]
      /\ interrupted' \in [Pid -> BOOLEAN]
  BY <1>1, SignalType, FreshMemoryType DEF ProcessExit
<1>3. loop_i' \in [Pid -> Nat \ {0}]
  BY DEF ProcessExit, TypeOK
<1> QED
  BY <1>2, <1>3 DEF ProcessExit, operator, TypeOK

LEMMA WorkerType ==
    ASSUME TypeOK, NEW w \in Pid, Worker(w) \/ Traffic(w)
    PROVE  TypeOK'
<1>1. mem[w] \in Memory
  BY DEF TypeOK
<1>2. /\ "worker_test" \in PC /\ "worker_call" \in PC /\ "epoll_wait" \in PC
      /\ "exiting" \in PC
  BY DEF PC, WorkerPC
<1>3. CASE WorkerSetup(w)
  BY <1>1, <1>2, <1>3, MoveType DEF WorkerSetup, operator, TypeOK
<1>4. CASE WorkerTest(w)
  BY <1>1, <1>2, <1>4, MoveType DEF WorkerTest, operator, TypeOK
<1>5. CASE WorkerBlocks(w)
  BY <1>1, <1>2, <1>5, MoveType DEF WorkerBlocks, operator, TypeOK
<1>6. CASE Traffic(w)
  <2>1. pc' \in [Pid -> PC] /\ mem' \in [Pid -> Memory]
    BY <1>1, <1>2, <1>6, MoveType DEF Traffic
  <2>2. faults' \subseteq Faults
    BY <1>6, FailType DEF Traffic, TypeOK
  <2> QED
    BY <1>6, <2>1, <2>2 DEF Traffic, operator, TypeOK
<1> QED
  BY <1>3, <1>4, <1>5, <1>6 DEF Worker

LEMMA MasterType ==
    ASSUME TypeOK, NEW p \in Pid, Master(p)
    PROVE  TypeOK'
<1>1. "SOFT" \in Level /\ "HARD" \in Level
  BY DEF Level
<1>2. /\ LoopPC \subseteq PC
      /\ mem[p].process_soft_stop \in BOOLEAN /\ mem[p].process_hard_stop \in BOOLEAN
  BY DEF TypeOK, Memory, PC
<1>3. CASE TestSoftStop(p)
  BY <1>1, <1>2, <1>3, TestStopType DEF TestSoftStop, LoopPC
<1>4. CASE TestHardStop(p)
  BY <1>1, <1>2, <1>4, TestStopType DEF TestHardStop, LoopPC
<1>5. CASE TestSoftReload(p)
  BY <1>1, <1>2, <1>5, TestReloadType DEF TestSoftReload, LoopPC
<1>6. CASE TestHardReload(p)
  BY <1>1, <1>2, <1>6, TestReloadType DEF TestHardReload, LoopPC
<1> QED
  BY <1>3, <1>4, <1>5, <1>6, BindListenSockType, AddWorkProcessesType,
     ForkWorkerType, FillPidFileType, ProcessSetupSignalsType, ServerReloadType,
     MarkReloadType, SecondForkType, KillOldMasterType, WaitOldMasterType,
     FinishReloadType, StopKillType, StopWaitType, StopEndType
  DEF Master

LEMMA NextTypeOK == TypeOK /\ [Next]_vars => TypeOK'
<1> SUFFICES ASSUME TypeOK, [Next]_vars PROVE TypeOK'
  OBVIOUS
<1>1. CASE Operator
  BY <1>1, StartType, SignalMasterType
  DEF Operator, StopSoft, StopHard, ReloadSoft, ReloadHard
<1>2. ASSUME NEW p \in Pid,
             Master(p) \/ Failure(p) \/ Worker(p) \/ ProcessExit(p) \/ Traffic(p)
      PROVE  TypeOK'
  BY <1>2, MasterType, FailureType, WorkerType, ProcessExitType
<1>3. CASE UNCHANGED vars
  BY <1>3 DEF vars, TypeOK
<1> QED
  BY <1>1, <1>2, <1>3 DEF Next

(* Type correctness of every behaviour: each process always is at a known  *)
(* location with a well-formed memory, and identifiers stay in range.      *)
THEOREM TypeCorrect == Spec => []TypeOK
<1>1. Init => TypeOK
  BY InitTypeOK
<1>2. TypeOK /\ [Next]_vars => TypeOK'
  BY NextTypeOK
<1> QED
  BY <1>1, <1>2, PTL DEF Spec
=============================================================================
