----------------------- MODULE MohicanService_proofs -----------------------
(***************************************************************************)
(* Proof that ServiceInv is an invariant of MohicanServer, and with it     *)
(* SignalsOwnWorkers and NoServiceGap, and last that the pid file names a  *)
(* master that has had its workers, for every number of processes, workers *)
(* and commands.                                                           *)
(*                                                                         *)
(* Most steps are quiet: one process p changes its location and its own    *)
(* memory, and at most signals another one.  Quiet(p) lists what such a    *)
(* step may do; QuietKeepsStructure and QuietKeepsService show once that   *)
(* this preserves the invariant, and one lemma per action shows that the   *)
(* action is quiet.  The three forks, the start of the server and the      *)
(* signal that ends the old master are treated one by one.                 *)
(***************************************************************************)
EXTENDS MohicanServer_proofs

---------------------------------------------------------------------------
(* What a step leaves of a memory.                                         *)

SameMaster(n, m) ==
    /\ n.workers_pid = m.workers_pid
    /\ n.count_workflows = m.count_workflows
    /\ n.old_master_process = m.old_master_process
    /\ n.new_master_process = m.new_master_process

SameStops(n, m) ==
    /\ n.process_soft_stop = m.process_soft_stop
    /\ n.process_hard_stop = m.process_hard_stop

SameWorker(n, m) ==
    /\ n.is_soft_stop = m.is_soft_stop
    /\ n.is_hard_stop = m.is_hard_stop

(* A handler touches neither the workers nor the identity of a master, the *)
(* stop flags only for a stop signal, and never takes a request back.      *)
LEMMA HandledKeeps ==
    ASSUME TypeOK, NEW q \in Pid, NEW sig, NEW si_pid \in {Shell} \cup Pid
    PROVE  LET n == Handled(q, sig, si_pid) IN
           /\ SameMaster(n, mem[q])
           /\ mem[q].process_soft_stop => n.process_soft_stop
           /\ mem[q].process_hard_stop => n.process_hard_stop
           /\ sig \notin {"SIGHUP", "SIGINT"} =>
                SameStops(n, mem[q]) /\ SameWorker(n, mem[q])
<1> DEFINE m == mem[q]
<1>1. m \in Memory
  BY DEF TypeOK
<1> HIDE DEF m
<1>2. /\ SameMaster(sighup_handler(m, si_pid), m)
      /\ sighup_handler(m, si_pid).process_soft_stop = TRUE
      /\ sighup_handler(m, si_pid).process_hard_stop = m.process_hard_stop
  BY <1>1 DEF Memory, sighup_handler, SameMaster
<1>3. /\ SameMaster(sigint_handler(m, si_pid), m)
      /\ sigint_handler(m, si_pid).process_hard_stop = TRUE
      /\ sigint_handler(m, si_pid).process_soft_stop = m.process_soft_stop
  BY <1>1 DEF Memory, sigint_handler, SameMaster
<1>4. /\ SameMaster(sigpipe_handler(m), m)
      /\ SameStops(sigpipe_handler(m), m)
      /\ SameWorker(sigpipe_handler(m), m)
  BY <1>1 DEF Memory, sigpipe_handler, SameMaster, SameStops, SameWorker
<1>5. /\ SameMaster(sigalrm_handler(m), m)
      /\ SameStops(sigalrm_handler(m), m)
      /\ SameWorker(sigalrm_handler(m), m)
  BY <1>1 DEF Memory, sigalrm_handler, SameMaster, SameStops, SameWorker
<1>6. /\ SameMaster(sigchld_handler(m), m)
      /\ SameStops(sigchld_handler(m), m)
      /\ SameWorker(sigchld_handler(m), m)
  BY <1>1 DEF Memory, sigchld_handler, SameMaster, SameStops, SameWorker
<1>7. /\ SameMaster(worker_sighup_handler(m), m)
      /\ SameStops(worker_sighup_handler(m), m)
  BY <1>1 DEF Memory, worker_sighup_handler, SameMaster, SameStops
<1>8. /\ SameMaster(worker_sigint_handler(m), m)
      /\ SameStops(worker_sigint_handler(m), m)
  BY <1>1 DEF Memory, worker_sigint_handler, SameMaster, SameStops
<1>9. SameMaster(m, m) /\ SameStops(m, m) /\ SameWorker(m, m)
  BY DEF SameMaster, SameStops, SameWorker
<1>a. Handled(q, sig, si_pid) =
        CASE handlers[q] = "master" /\ sig = "SIGHUP"  -> sighup_handler(m, si_pid)
          [] handlers[q] = "master" /\ sig = "SIGINT"  -> sigint_handler(m, si_pid)
          [] handlers[q] = "master" /\ sig = "SIGPIPE" -> sigpipe_handler(m)
          [] handlers[q] = "master" /\ sig = "SIGALRM" -> sigalrm_handler(m)
          [] handlers[q] = "master" /\ sig = "SIGCHLD" -> sigchld_handler(m)
          [] handlers[q] = "worker" /\ sig = "SIGHUP"  -> worker_sighup_handler(m)
          [] handlers[q] = "worker" /\ sig = "SIGINT"  -> worker_sigint_handler(m)
          [] OTHER -> m
  BY DEF Handled, m
<1> HIDE DEF SameMaster, SameWorker
<1> QED
  BY <1>2, <1>3, <1>4, <1>5, <1>6, <1>7, <1>8, <1>9, <1>a DEF SameStops, m

LEMMA UpdatesKeep ==
    ASSUME NEW m \in Memory, NEW level, NEW value
    PROVE  /\ SameMaster([m EXCEPT !.level = level], m)
           /\ SameStops([m EXCEPT !.level = level], m)
           /\ SameMaster([m EXCEPT !.has_old_master_stopped = FALSE], m)
           /\ SameStops([m EXCEPT !.has_old_master_stopped = FALSE], m)
           /\ SameMaster(SetReloadFlag(m, value), m)
           /\ SameStops(SetReloadFlag(m, value), m)
<1>1. /\ SameMaster([m EXCEPT !.level = level], m)
      /\ SameStops([m EXCEPT !.level = level], m)
  BY DEF Memory, SameMaster, SameStops
<1>2. /\ SameMaster([m EXCEPT !.has_old_master_stopped = FALSE], m)
      /\ SameStops([m EXCEPT !.has_old_master_stopped = FALSE], m)
  BY DEF Memory, SameMaster, SameStops
<1>3. /\ SameMaster([m EXCEPT !.process_soft_reload = value], m)
      /\ SameStops([m EXCEPT !.process_soft_reload = value], m)
  BY DEF Memory, SameMaster, SameStops
<1>4. /\ SameMaster([m EXCEPT !.process_hard_reload = value], m)
      /\ SameStops([m EXCEPT !.process_hard_reload = value], m)
  BY DEF Memory, SameMaster, SameStops
<1> QED
  BY <1>1, <1>2, <1>3, <1>4 DEF SetReloadFlag

---------------------------------------------------------------------------
(* Quiet steps.                                                            *)

CountPC == {"bind_listen_sock", "add_work_processes", "second_fork"}
OwnerPC == ReadyPC \cup {"fork_worker", "fill_pid_file", "stop_kill"}
PreStartPC == {"unused", "bind_listen_sock", "add_work_processes", "fork_worker"}
GonePC == {"exiting", "exited"}

(* What may happen to a process that does not take the step; p = Shell     *)
(* stands for the operator, who has no location here.                      *)
Kept(r) ==
    /\ SameMaster(mem'[r], mem[r])
    /\ \/ pc'[r] = pc[r]
       \/ pc[r] \in ReadyPC \cup DonePC \cup WorkerPC /\ Alive(r) /\ pc'[r] = "exiting"
       \/ pc[r] = "epoll_wait" /\ pc'[r] = "worker_test"
    /\ parent'[r] = parent[r]

(* Where the step may take its process.                                    *)
OwnLocation(p) ==
    /\ pc[p] # "unused"
    /\ pc[p] \in RunningPC \cup DonePC => pc'[p] \in RunningPC \cup DonePC
    /\ pc[p] \in ReadyPC \cup DonePC => pc'[p] \in ReadyPC \cup DonePC
    /\ pc[p] \in DonePC => pc'[p] \in DonePC
    /\ pc[p] \in WorkerPC \cup GonePC => pc'[p] \in WorkerPC \cup GonePC
    /\ pc[p] \in PreStartPC => pc'[p] \in PreStartPC
    /\ pc'[p] \in ReadyPC \cup {"fill_pid_file"} =>
         pc[p] \in ReadyPC \cup {"fill_pid_file"}
    /\ pc'[p] \in FormingPC \cup {"kill_old_master"} =>
         pc[p] \in FormingPC \cup {"bind_listen_sock"}
    /\ pc'[p] # "bind_listen_sock"

(* What the step may do to the memory of its process.                      *)
OwnMemory(p) ==
    /\ pc'[p] \in CountPC =>
         pc[p] \in CountPC /\ mem'[p].count_workflows = mem[p].count_workflows
    /\ pc'[p] \in RunningPC \cup {"bind_listen_sock", "process_setup_signals"} =>
         mem'[p].old_master_process = p
    /\ pc'[p] \in HandoverPC \cup {"second_fork"} => mem'[p].old_master_process # p
    /\ pc'[p] \in FormingPC \cup HandoverPC /\ mem'[p].old_master_process # p =>
         /\ pc[p] \in FormingPC \cup HandoverPC /\ pc[p] # "second_fork"
         /\ mem'[p].old_master_process = mem[p].old_master_process
         /\ mem'[p].new_master_process = mem[p].new_master_process
    /\ pc'[p] \in FormingPC \cup {"kill_old_master"} =>
         mem'[p].old_master_process = mem[p].old_master_process
    /\ pc'[p] \in OwnerPC =>
         \/ mem'[p].workers_pid = << >>
         \/ pc[p] \in OwnerPC /\ mem'[p].workers_pid = mem[p].workers_pid
    /\ mem'[p].workers_pid = << >> \/ mem'[p].workers_pid = mem[p].workers_pid

OwnPidFileStep(p) ==
    \/ pid_file' = pid_file
    \/ pid_file'.master = Shell
    \/ p \in Pid /\ pid_file'.master = p /\ pc'[p] \in ReadyPC

Quiet(p) ==
    /\ \A r \in Pid \ {p} : Kept(r)
    /\ parent' = parent
    /\ next_pid' = next_pid
    /\ p \in Pid => OwnLocation(p) /\ OwnMemory(p)
    /\ OwnPidFileStep(p)
    /\ \A w \in Pid : Serving(w) =>
         \/ Serving(w)'
         \/ p \in Pid /\ parent[w] = p /\ pc[p] = "stop_kill"

LEMMA QuietKeepsFresh ==
    ASSUME TypeOK, PidsAreFresh, NEW p \in {Shell} \cup Pid, Quiet(p)
    PROVE  PidsAreFresh'
<1>1. \A r \in Pid : r >= next_pid => pc'[r] = "unused"
  BY DEF PidsAreFresh, Quiet, Kept, OwnLocation, ReadyPC, RunningPC, HandoverPC,
         LoopPC, DonePC, WorkerPC
<1>2. \A r \in Pid : mem'[r].workers_pid = << >>
                     \/ mem'[r].workers_pid = mem[r].workers_pid
  BY DEF Quiet, Kept, OwnMemory, SameMaster
<1> QED
  BY <1>1, <1>2 DEF PidsAreFresh, Quiet

LEMMA QuietKeepsStructure ==
    ASSUME TypeOK, TypeOK', PidsAreFresh, Structure, Contained,
           NEW p \in {Shell} \cup Pid, Quiet(p)
    PROVE  Structure'
<1>1. /\ CountIsPositive /\ MasterKnowsItself /\ PidFileNamesFormedMaster
      /\ WorkersAreChildren /\ ReadyServes
  BY DEF Structure
<1>2. CountIsPositive'
  BY <1>1 DEF CountIsPositive, Quiet, Kept, OwnMemory, CountPC, SameMaster
<1>3. MasterKnowsItself'
  <2>1. \A r \in Pid :
          pc'[r] \in RunningPC \cup {"bind_listen_sock", "process_setup_signals"}
            => mem'[r].old_master_process = r
    BY <1>1 DEF MasterKnowsItself, Reloading, Quiet, Kept, OwnMemory, SameMaster,
         RunningPC, LoopPC
  <2>2. \A r \in Pid :
          pc'[r] \in HandoverPC \cup {"second_fork"} => mem'[r].old_master_process # r
    BY <1>1 DEF MasterKnowsItself, Reloading, Quiet, Kept, OwnMemory, SameMaster,
         HandoverPC
  <2>3. \A o \in Pid : pc[o] \in RunningPC \cup DonePC => pc'[o] \in RunningPC \cup DonePC
    BY DEF Quiet, Kept, OwnLocation, DonePC, RunningPC, LoopPC
  <2>4. \A r \in Pid :
          pc'[r] \in FormingPC \cup HandoverPC /\ mem'[r].old_master_process # r =>
            /\ pc[r] \in FormingPC \cup HandoverPC /\ Reloading(r)
            /\ pc'[r] # "second_fork" => pc[r] # "second_fork"
            /\ mem'[r].old_master_process = mem[r].old_master_process
            /\ mem'[r].new_master_process = mem[r].new_master_process
    BY DEF Reloading, Quiet, Kept, OwnMemory, SameMaster, FormingPC, HandoverPC
  <2>5. \A r \in Pid :
          pc'[r] \in FormingPC \cup HandoverPC /\ mem'[r].old_master_process # r =>
            /\ mem'[r].old_master_process \in 1 .. r - 1
            /\ pc'[mem'[r].old_master_process] \in RunningPC \cup DonePC
            /\ pc'[r] # "second_fork" => mem'[r].new_master_process = r
    <3>1. SUFFICES ASSUME NEW r \in Pid, pc'[r] \in FormingPC \cup HandoverPC,
                          mem'[r].old_master_process # r
                   PROVE  /\ mem'[r].old_master_process \in 1 .. r - 1
                          /\ pc'[mem'[r].old_master_process] \in RunningPC \cup DonePC
                          /\ pc'[r] # "second_fork" => mem'[r].new_master_process = r
      OBVIOUS
    <3>2. /\ mem[r].old_master_process \in 1 .. r - 1
          /\ pc[mem[r].old_master_process] \in RunningPC \cup DonePC
          /\ pc'[r] # "second_fork" => mem[r].new_master_process = r
      BY <1>1, <2>4, <3>1 DEF MasterKnowsItself
    <3>3. mem[r].old_master_process \in Pid
      BY <3>2, MaxPidAssumption DEF Pid
    <3> QED
      BY <2>3, <2>4, <3>1, <3>2, <3>3
  <2> QED
    BY <2>1, <2>2, <2>5 DEF MasterKnowsItself, Reloading
<1>4. PidFileNamesFormedMaster'
  <2>1. \A o \in Pid : pc[o] \in ReadyPC \cup DonePC => pc'[o] \in ReadyPC \cup DonePC
    BY DEF Quiet, Kept, OwnLocation, DonePC, ReadyPC, RunningPC, HandoverPC, LoopPC
  <2>2. pid_file.master \in {Shell} \cup Pid
    BY DEF TypeOK
  <2> QED
    BY <1>1, <2>1, <2>2 DEF PidFileNamesFormedMaster, Quiet, OwnPidFileStep
<1>5. WorkersAreChildren'
  <2>1. \A w \in Pid : pc[w] \in WorkerPC \cup GonePC => pc'[w] \in WorkerPC \cup GonePC
    BY DEF Quiet, Kept, OwnLocation, WorkerPC, GonePC
  <2>2. \A r \in Pid : pc'[r] \in OwnerPC =>
          \/ mem'[r].workers_pid = << >>
          \/ pc[r] \in OwnerPC /\ mem'[r].workers_pid = mem[r].workers_pid
    BY DEF Quiet, Kept, OwnMemory, SameMaster, OwnerPC, ReadyPC, RunningPC,
           HandoverPC, LoopPC
  <2>3. \A r \in Pid : mem[r].workers_pid \in Seq(Pid)
    BY DEF TypeOK, Memory
  <2>4. SUFFICES ASSUME NEW r \in Pid, pc'[r] \in OwnerPC,
                        NEW i \in 1 .. Len(mem'[r].workers_pid)
                 PROVE  /\ parent'[mem'[r].workers_pid[i]] = r
                        /\ pc'[mem'[r].workers_pid[i]] \in WorkerPC \cup GonePC
    BY DEF WorkersAreChildren, OwnerPC, GonePC
  <2>5. pc[r] \in OwnerPC /\ mem'[r].workers_pid = mem[r].workers_pid
    BY <2>2, <2>4
  <2>6. mem[r].workers_pid[i] \in Pid
    BY <2>3, <2>5
  <2>7. /\ parent[mem[r].workers_pid[i]] = r
        /\ pc[mem[r].workers_pid[i]] \in WorkerPC \cup GonePC
    BY <1>1, <2>5 DEF WorkersAreChildren, OwnerPC, GonePC
  <2> QED
    BY <2>1, <2>5, <2>6, <2>7 DEF Quiet
<1>6. ReadyServes'
  <2>1. SUFFICES ASSUME NEW r \in Pid, pc'[r] \in ReadyPC \cup {"fill_pid_file"}
                 PROVE  \E w \in Pid : Serving(w)' /\ parent'[w] = r
    BY DEF ReadyServes
  <2>2. pc[r] \in ReadyPC \cup {"fill_pid_file"}
    BY <2>1 DEF Quiet, Kept, OwnLocation, ReadyPC, RunningPC, HandoverPC, LoopPC
  <2>3. PICK w \in Pid : Serving(w) /\ parent[w] = r
    BY <1>1, <2>2 DEF ReadyServes
  <2>4. ~(parent[w] = p /\ pc[p] = "stop_kill")
    BY <2>2, <2>3 DEF ReadyPC, RunningPC, HandoverPC, LoopPC
  <2> QED
    BY <2>3, <2>4 DEF Quiet
<1> QED
  BY <1>2, <1>3, <1>4, <1>5, <1>6 DEF Structure
---------------------------------------------------------------------------
(* The part of the invariant that needs an operator who asks for no stop.  *)

(* Stop requests reach only masters in their loop, and stay; a master that *)
(* stands still stands.                                                    *)
KeepsRequests ==
    \A r \in Pid :
        /\ Told(r)' => Told(r) \/ pc[r] \in RunningPC \cup DonePC \cup WorkerPC
        /\ Told(r) => Told(r)' \/ pc'[r] \in DonePC

KeepsStanding == \A r \in Pid : Standing(r) => Standing(r)'

(* The same for the process that takes the step.                           *)
OwnCalm(p) ==
    /\ Told(p)' => Told(p)
    /\ Told(p) => Told(p)' \/ pc'[p] \in DonePC
    /\ Standing(p) => Standing(p)'

LEMMA QuietKeepsInheritance ==
    ASSUME TypeOK, MasterKnowsItself, ToldByInheritance, KeepsRequests,
           NEW p \in {Shell} \cup Pid, Quiet(p)
    PROVE  ToldByInheritance'
<1>1. SUFFICES ASSUME NEW r \in Pid, Told(r)',
                      pc'[r] \in FormingPC \cup {"bind_listen_sock", "kill_old_master"}
               PROVE  /\ Reloading(r)'
                      /\ \/ Told(mem[r].old_master_process)'
                         \/ pc'[mem'[r].old_master_process] \in DonePC
  BY DEF ToldByInheritance
<1>2. /\ pc[r] \in FormingPC \cup {"bind_listen_sock", "kill_old_master"}
      /\ mem'[r].old_master_process = mem[r].old_master_process
      /\ pc'[r] = "bind_listen_sock" => pc[r] = "bind_listen_sock"
  BY <1>1 DEF Quiet, Kept, OwnMemory, OwnLocation, SameMaster, FormingPC
<1>3. Told(r)
  BY <1>1, <1>2 DEF KeepsRequests, FormingPC, RunningPC, LoopPC, DonePC, WorkerPC
<1>4. Reloading(r) /\ Reloading(r)'
  BY <1>2, <1>3 DEF ToldByInheritance, Reloading
<1>5. mem[r].old_master_process \in Pid
  <2>1. pc[r] # "bind_listen_sock"
    BY <1>4 DEF MasterKnowsItself
  <2>2. mem[r].old_master_process \in 1 .. r - 1
    BY <1>2, <1>4, <2>1 DEF MasterKnowsItself, HandoverPC
  <2> QED
    BY <2>2, MaxPidAssumption DEF Pid
<1>6. \/ Told(mem[r].old_master_process)
      \/ pc[mem[r].old_master_process] \in DonePC
  BY <1>2, <1>3 DEF ToldByInheritance
<1>7. \A o \in Pid : pc[o] \in DonePC => pc'[o] \in DonePC
  BY DEF Quiet, Kept, OwnLocation, DonePC
<1>8. \A o \in Pid : Told(o) \/ pc[o] \in DonePC => Told(o)' \/ pc'[o] \in DonePC
  BY <1>7 DEF KeepsRequests
<1> QED
  BY <1>2, <1>4, <1>5, <1>6, <1>8 DEF Told

(* The server does not become started in a quiet step.                     *)
LEMMA QuietKeepsStarted ==
    ASSUME TypeOK, NEW p \in {Shell} \cup Pid, Quiet(p), Started'
    PROVE  Started
<1>1. 1 \in Pid
  BY MaxPidAssumption DEF Pid
<1> QED
  BY <1>1 DEF Started, Quiet, Kept, OwnLocation, PreStartPC, ReadyPC, RunningPC,
     HandoverPC, LoopPC, DonePC, WorkerPC, Alive

LEMMA QuietKeepsSomeoneStands ==
    ASSUME TypeOK, SomeoneStands, KeepsStanding,
           NEW p \in {Shell} \cup Pid, Quiet(p)
    PROVE  SomeoneStands'
<1>1. SUFFICES ASSUME Started'
               PROVE  \E s, w \in Pid : Standing(s)' /\ Serving(w)' /\ parent'[w] = s
  BY DEF SomeoneStands
<1>2. PICK s \in Pid, w \in Pid : Standing(s) /\ Serving(w) /\ parent[w] = s
  BY <1>1, QuietKeepsStarted DEF SomeoneStands
<1>3. pc[s] # "stop_kill"
  BY <1>2 DEF Standing, ReadyPC, RunningPC, HandoverPC, LoopPC
<1> QED
  BY <1>2, <1>3 DEF Quiet, KeepsStanding

---------------------------------------------------------------------------
(* How a step of one process is seen to be quiet.                          *)

LEMMA MoveIsQuiet ==
    ASSUME TypeOK, NEW p \in Pid, NEW next, NEW m, Move(p, next, m),
           parent' = parent, next_pid' = next_pid,
           OwnLocation(p), OwnMemory(p), OwnPidFileStep(p),
           Serving(p) => Serving(p)'
    PROVE  Quiet(p)
<1>1. \A r \in Pid \ {p} : pc'[r] = pc[r] /\ mem'[r] = mem[r]
  BY DEF Move, TypeOK
<1>2. \A r \in Pid \ {p} : Kept(r)
  BY <1>1 DEF Kept, SameMaster
<1>3. \A w \in Pid : Serving(w) => Serving(w)'
  BY <1>1 DEF Serving
<1> QED
  BY <1>2, <1>3 DEF Quiet

LEMMA MoveIsCalm ==
    ASSUME TypeOK, NEW p \in Pid, NEW next, NEW m, Move(p, next, m), OwnCalm(p)
    PROVE  KeepsRequests /\ KeepsStanding
<1>1. \A r \in Pid \ {p} : pc'[r] = pc[r] /\ mem'[r] = mem[r]
  BY DEF Move, TypeOK
<1>2. \A r \in Pid \ {p} : Told(r)' = Told(r) /\ Reloading(r)' = Reloading(r)
  BY <1>1 DEF Told, Reloading
<1>3. KeepsRequests
  BY <1>2 DEF KeepsRequests, OwnCalm
<1>4. KeepsStanding
  BY <1>1, <1>2 DEF KeepsStanding, Standing, OwnCalm
<1> QED
  BY <1>3, <1>4

(* What a signal does to the processes that did not send it.               *)
LEMMA SignalFrame ==
    ASSUME TypeOK, NEW p \in {Shell} \cup Pid, NEW next, NEW m, NEW q, NEW sig,
           Signal(p, next, m, q, sig), NEW r \in Pid \ {p}
    PROVE  /\ r # q \/ ~Alive(r) => pc'[r] = pc[r] /\ mem'[r] = mem[r]
           /\ SameMaster(mem'[r], mem[r])
           /\ \/ pc'[r] = pc[r]
              \/ Alive(r) /\ sig # "SIGCHLD" /\ pc'[r] = "exiting"
              \/ pc[r] = "epoll_wait" /\ pc'[r] = "worker_test"
           /\ Told(r) => Told(r)'
           /\ sig \notin {"SIGHUP", "SIGINT"} =>
                SameStops(mem'[r], mem[r]) /\ SameWorker(mem'[r], mem[r])
<1>1. pc'[r] = IF r = q /\ Alive(r) THEN Received(r, sig) ELSE pc[r]
  BY DEF Signal
<1>2. mem'[r] = IF r = q /\ Alive(r) THEN Handled(r, sig, p) ELSE mem[r]
  BY DEF Signal
<1>3. CASE r = q /\ Alive(r)
  <2>1. mem'[r] = Handled(r, sig, p) /\ pc'[r] = Received(r, sig)
    BY <1>1, <1>2, <1>3
  <2>2. /\ SameMaster(mem'[r], mem[r])
        /\ mem[r].process_soft_stop => mem'[r].process_soft_stop
        /\ mem[r].process_hard_stop => mem'[r].process_hard_stop
        /\ sig \notin {"SIGHUP", "SIGINT"} =>
             SameStops(mem'[r], mem[r]) /\ SameWorker(mem'[r], mem[r])
    BY <2>1, HandledKeeps
  <2>3. \/ pc'[r] = pc[r]
        \/ sig # "SIGCHLD" /\ pc'[r] = "exiting"
        \/ pc[r] = "epoll_wait" /\ pc'[r] = "worker_test"
    BY <2>1 DEF Received
  <2> QED
    BY <1>3, <2>2, <2>3 DEF Told
<1>4. CASE ~(r = q /\ Alive(r))
  BY <1>1, <1>2, <1>4 DEF SameMaster, SameStops, SameWorker, Told
<1> QED
  BY <1>3, <1>4

LEMMA SignalIsQuiet ==
    ASSUME TypeOK, NEW p \in {Shell} \cup Pid, NEW next, NEW m, NEW q, NEW sig,
           Signal(p, next, m, q, sig), parent' = parent, next_pid' = next_pid,
           p \in Pid => OwnLocation(p) /\ OwnMemory(p) /\ ~Serving(p),
           OwnPidFileStep(p),
           \/ sig = "SIGCHLD"
           \/ q \notin Pid
           \/ pc[q] \in ReadyPC \cup DonePC
           \/ pc[q] \in WorkerPC /\ p \in Pid /\ parent[q] = p /\ pc[p] = "stop_kill"
    PROVE  Quiet(p)
<1>1. \A r \in Pid \ {p} : Kept(r)
  BY SignalFrame DEF Kept
<1>2. \A w \in Pid \ {p} : Serving(w) =>
        \/ Serving(w)'
        \/ p \in Pid /\ parent[w] = p /\ pc[p] = "stop_kill"
  <2>1. SUFFICES ASSUME NEW w \in Pid \ {p}, Serving(w)
                 PROVE  \/ Serving(w)'
                        \/ p \in Pid /\ parent[w] = p /\ pc[p] = "stop_kill"
    OBVIOUS
  <2>2. CASE sig = "SIGCHLD"
    BY <2>1, <2>2, SignalFrame DEF Serving, SameWorker, WorkerPC
  <2>3. CASE w # q
    BY <2>1, <2>3, SignalFrame DEF Serving
  <2>4. CASE w = q /\ sig # "SIGCHLD"
    BY <2>1, <2>4 DEF Serving, WorkerPC, ReadyPC, RunningPC, HandoverPC, LoopPC, DonePC
  <2> QED
    BY <2>2, <2>3, <2>4
<1> QED
  BY <1>1, <1>2 DEF Quiet

LEMMA SignalIsCalm ==
    ASSUME TypeOK, NEW p \in {Shell} \cup Pid, NEW next, NEW m, NEW q, NEW sig,
           Signal(p, next, m, q, sig), p \in Pid => OwnCalm(p),
           \/ sig \notin {"SIGHUP", "SIGINT"}
           \/ q \notin Pid
           \/ pc[q] \in WorkerPC \cup GonePC
    PROVE  KeepsRequests /\ KeepsStanding
<1>1. \A r \in Pid \ {p} : Told(r)' => Told(r) \/ pc[r] \in WorkerPC \cup GonePC
  BY SignalFrame DEF Told, SameStops
<1>2. KeepsRequests
  BY <1>1, SignalFrame DEF KeepsRequests, OwnCalm, GonePC, DonePC
<1>3. \A r \in Pid \ {p} : Standing(r) => Standing(r)'
  <2>1. SUFFICES ASSUME NEW r \in Pid \ {p}, Standing(r)
                 PROVE  Standing(r)'
    OBVIOUS
  <2>2. pc'[r] = pc[r] \/ pc'[r] = "exiting"
    BY <2>1, SignalFrame DEF Standing, ReadyPC, RunningPC, HandoverPC, LoopPC
  <2>3. pc[r] \in GonePC \/ (Told(r)' => Told(r))
    BY <1>1, <2>1 DEF Standing, ReadyPC, RunningPC, HandoverPC, LoopPC, WorkerPC, GonePC
  <2>4. Reloading(r)' => Reloading(r)
    BY SignalFrame DEF Reloading, SameMaster
  <2> QED
    BY <2>1, <2>2, <2>3, <2>4 DEF Standing, GonePC
<1> QED
  BY <1>2, <1>3 DEF KeepsStanding, OwnCalm
---------------------------------------------------------------------------
(* The quiet actions.                                                      *)

(* A master in its loop, or on its way out of it, changes nothing that the *)
(* invariant speaks about.                                                 *)
LEMMA RunningMove ==
    ASSUME TypeOK, MasterKnowsItself, NEW p \in Pid,
           NEW next \in RunningPC \cup {"stop_kill", "exiting"}, NEW m, Move(p, next, m),
           pc[p] \in RunningPC, next = "stop_kill" => Told(p),
           SameMaster(m, mem[p]), SameStops(m, mem[p]),
           parent' = parent, next_pid' = next_pid, pid_file' = pid_file
    PROVE  Quiet(p) /\ KeepsRequests /\ KeepsStanding
<1>1. pc'[p] = next /\ mem'[p] = m
  BY DEF Move, TypeOK
<1>2. mem[p].old_master_process = p
  BY DEF MasterKnowsItself, Reloading
<1>3. OwnLocation(p)
  BY <1>1 DEF OwnLocation, ReadyPC, RunningPC, HandoverPC, LoopPC, DonePC, WorkerPC,
              GonePC, PreStartPC, FormingPC
<1>4. OwnMemory(p)
  BY <1>1, <1>2 DEF OwnMemory, SameMaster, CountPC, OwnerPC, ReadyPC, RunningPC,
                    HandoverPC, LoopPC, FormingPC
<1>5. OwnCalm(p)
  BY <1>1, <1>2 DEF OwnCalm, Told, Standing, SameStops, ReadyPC, RunningPC, LoopPC
<1>6. ~Serving(p)
  BY DEF Serving, RunningPC, LoopPC, WorkerPC
<1> QED
  BY <1>3, <1>4, <1>5, <1>6, MoveIsQuiet, MoveIsCalm DEF OwnPidFileStep

LEMMA TestStopQuiet ==
    ASSUME TypeOK, MasterKnowsItself, NEW p \in Pid, NEW here \in LoopPC,
           NEW flag \in BOOLEAN, NEW level \in Level, NEW next \in LoopPC,
           TestStop(p, here, flag, level, next), flag => Told(p)
    PROVE  Quiet(p) /\ KeepsRequests /\ KeepsStanding
<1>1. mem[p] \in Memory /\ pc[p] \in RunningPC
  BY DEF TypeOK, TestStop, RunningPC
<1>2. CASE flag
  BY <1>1, <1>2, RunningMove, UpdatesKeep DEF TestStop
<1>3. CASE ~flag
  <2>1. SameMaster(mem[p], mem[p]) /\ SameStops(mem[p], mem[p])
    BY DEF SameMaster, SameStops
  <2>2. next \in RunningPC /\ next # "stop_kill"
    BY DEF RunningPC, LoopPC
  <2> QED
    BY <1>1, <1>3, <2>1, <2>2, RunningMove DEF TestStop
<1> QED
  BY <1>2, <1>3

LEMMA TestReloadQuiet ==
    ASSUME TypeOK, MasterKnowsItself, NEW p \in Pid, NEW here \in LoopPC,
           NEW flag, NEW level \in Level, NEW next \in LoopPC,
           TestReload(p, here, flag, level, next)
    PROVE  Quiet(p) /\ KeepsRequests /\ KeepsStanding
<1>1. mem[p] \in Memory /\ pc[p] \in RunningPC
  BY DEF TypeOK, TestReload, RunningPC
<1>2. CASE flag = 1
  <2>1. "server_reload" \in RunningPC \cup {"stop_kill", "exiting"}
    BY DEF RunningPC
  <2>2. Move(p, "server_reload", [mem[p] EXCEPT !.level = level])
    BY <1>2 DEF TestReload
  <2>3. /\ SameMaster([mem[p] EXCEPT !.level = level], mem[p])
        /\ SameStops([mem[p] EXCEPT !.level = level], mem[p])
    BY <1>1, UpdatesKeep
  <2>4. parent' = parent /\ next_pid' = next_pid /\ pid_file' = pid_file
    BY DEF TestReload
  <2> QED
    BY <1>1, <2>1, <2>2, <2>3, <2>4, RunningMove
<1>3. CASE flag # 1
  <2>1. SameMaster(mem[p], mem[p]) /\ SameStops(mem[p], mem[p])
    BY DEF SameMaster, SameStops
  <2>2. next \in RunningPC /\ next # "stop_kill"
    BY DEF RunningPC, LoopPC
  <2> QED
    BY <1>1, <1>3, <2>1, <2>2, RunningMove DEF TestReload
<1> QED
  BY <1>2, <1>3

LEMMA LoopQuiet ==
    ASSUME TypeOK, MasterKnowsItself, NEW p \in Pid,
           TestSoftStop(p) \/ TestHardStop(p) \/ TestSoftReload(p) \/ TestHardReload(p)
    PROVE  Quiet(p) /\ KeepsRequests /\ KeepsStanding
<1>1. /\ "SOFT" \in Level /\ "HARD" \in Level
      /\ mem[p].process_soft_stop \in BOOLEAN /\ mem[p].process_hard_stop \in BOOLEAN
  BY DEF Level, TypeOK, Memory
<1>2. CASE TestSoftStop(p)
  BY <1>1, <1>2, TestStopQuiet DEF TestSoftStop, LoopPC, Told
<1>3. CASE TestHardStop(p)
  BY <1>1, <1>3, TestStopQuiet DEF TestHardStop, LoopPC, Told
<1>4. CASE TestSoftReload(p)
  BY <1>1, <1>4, TestReloadQuiet DEF TestSoftReload, LoopPC
<1>5. CASE TestHardReload(p)
  BY <1>1, <1>5, TestReloadQuiet DEF TestHardReload, LoopPC
<1> QED
  BY <1>2, <1>3, <1>4, <1>5

LEMMA MarkReloadQuiet ==
    ASSUME TypeOK, MasterKnowsItself, NEW p \in Pid, MarkReload(p)
    PROVE  Quiet(p) /\ KeepsRequests /\ KeepsStanding
<1>1. mem[p] \in Memory /\ pc[p] \in RunningPC
  BY DEF TypeOK, MarkReload, RunningPC
<1>2. AfterReload(mem[p].level) \in RunningPC /\ AfterReload(mem[p].level) # "stop_kill"
  BY DEF AfterReload, RunningPC, LoopPC
<1> QED
  BY <1>1, <1>2, RunningMove, UpdatesKeep DEF MarkReload

(* Of the failures of the old master only a bad configuration is contained. *)
LEMMA FailureQuiet ==
    ASSUME TypeOK, MasterKnowsItself, NEW p \in Pid, Failure(p), Contained'
    PROVE  Quiet(p) /\ KeepsRequests /\ KeepsStanding
<1>1. ~Fail("fork")
  BY DEF Fail, Contained
<1>2. /\ pc[p] = "server_reload" /\ Move(p, "exiting", mem[p])
      /\ UNCHANGED <<parent, next_pid, pid_file>>
  BY <1>1 DEF Failure, ForkWorkerFails, SecondForkFails, ServerReloadFails
<1>3. SameMaster(mem[p], mem[p]) /\ SameStops(mem[p], mem[p]) /\ pc[p] \in RunningPC
  BY <1>2 DEF SameMaster, SameStops, RunningPC
<1> QED
  BY <1>2, <1>3, RunningMove

(* A process on its way out, and one that starts up without having formed. *)
LEMMA DoneMove ==
    ASSUME TypeOK, NEW p \in Pid, NEW next \in {"stop_wait", "stop_end", "exiting"},
           NEW m, Move(p, next, m), pc[p] \in {"stop_kill", "stop_wait", "stop_end"},
           SameMaster(m, mem[p]), SameStops(m, mem[p]),
           parent' = parent, next_pid' = next_pid, OwnPidFileStep(p)
    PROVE  Quiet(p) /\ KeepsRequests /\ KeepsStanding
<1>1. pc'[p] = next /\ mem'[p] = m
  BY DEF Move, TypeOK
<1>2. OwnLocation(p)
  BY <1>1 DEF OwnLocation, ReadyPC, RunningPC, HandoverPC, LoopPC, DonePC, WorkerPC,
              GonePC, PreStartPC, FormingPC
<1>3. OwnMemory(p)
  BY <1>1 DEF OwnMemory, SameMaster, CountPC, OwnerPC, ReadyPC, RunningPC,
              HandoverPC, LoopPC, FormingPC
<1>4. OwnCalm(p)
  BY <1>1 DEF OwnCalm, Told, Standing, SameStops, DonePC, ReadyPC, RunningPC,
              HandoverPC, LoopPC
<1>5. ~Serving(p)
  BY DEF Serving, WorkerPC
<1> QED
  BY <1>2, <1>3, <1>4, <1>5, MoveIsQuiet, MoveIsCalm

LEMMA StopWaitQuiet ==
    ASSUME TypeOK, NEW p \in Pid, StopWait(p)
    PROVE  Quiet(p) /\ KeepsRequests /\ KeepsStanding
<1>1. SameMaster(mem[p], mem[p]) /\ SameStops(mem[p], mem[p])
  BY DEF SameMaster, SameStops
<1>2. CASE UNCHANGED <<pc, mem>>
  <2>1. OwnLocation(p)
    BY <1>2 DEF StopWait, OwnLocation, FormingPC, ReadyPC, RunningPC, HandoverPC, LoopPC
  <2>2. OwnMemory(p)
    BY <1>2 DEF StopWait, OwnMemory, CountPC, OwnerPC, ReadyPC, RunningPC,
                HandoverPC, LoopPC, FormingPC
  <2>3. KeepsRequests /\ KeepsStanding
    BY <1>2 DEF KeepsRequests, KeepsStanding, Told, Standing, Reloading
  <2>4. \A r \in Pid : Kept(r) /\ (Serving(r) => Serving(r)')
    BY <1>2 DEF StopWait, Kept, SameMaster, Serving
  <2> QED
    BY <2>1, <2>2, <2>3, <2>4 DEF Quiet, StopWait, OwnPidFileStep
<1>3. CASE Move(p, "stop_end", mem[p])
  BY <1>1, <1>3, DoneMove DEF StopWait, OwnPidFileStep
<1> QED
  BY <1>2, <1>3 DEF StopWait
(* A master that is being made, or in the last phase of its reload.        *)
LEMMA BindListenSockQuiet ==
    ASSUME TypeOK, MasterKnowsItself, NEW p \in Pid, BindListenSock(p), Contained'
    PROVE  Quiet(p) /\ KeepsRequests /\ KeepsStanding
<1>1. pc[p] = "bind_listen_sock" /\ Move(p, "add_work_processes", mem[p])
  BY DEF BindListenSock, Fail, Contained
<1>2. pc'[p] = "add_work_processes" /\ mem'[p] = mem[p]
  BY <1>1 DEF Move, TypeOK
<1>3. mem[p].old_master_process = p
  BY <1>1 DEF MasterKnowsItself, Reloading
<1>4. OwnLocation(p)
  BY <1>1, <1>2 DEF OwnLocation, ReadyPC, RunningPC, HandoverPC, LoopPC, DonePC,
              WorkerPC, GonePC, PreStartPC, FormingPC
<1>5. OwnMemory(p)
  BY <1>1, <1>2, <1>3 DEF OwnMemory, CountPC, OwnerPC, ReadyPC, RunningPC,
                    HandoverPC, LoopPC, FormingPC
<1>6. OwnCalm(p)
  BY <1>1, <1>2 DEF OwnCalm, Told, Standing, ReadyPC, RunningPC, HandoverPC, LoopPC
<1>7. ~Serving(p)
  BY <1>1 DEF Serving, WorkerPC
<1>8. parent' = parent /\ next_pid' = next_pid /\ OwnPidFileStep(p)
  BY DEF BindListenSock, OwnPidFileStep
<1> QED
  BY <1>1, <1>4, <1>5, <1>6, <1>7, <1>8, MoveIsQuiet, MoveIsCalm

LEMMA AddWorkProcessesQuiet ==
    ASSUME TypeOK, CountIsPositive, NEW p \in Pid, AddWorkProcesses(p)
    PROVE  Quiet(p) /\ KeepsRequests /\ KeepsStanding
<1> DEFINE m == [mem[p] EXCEPT !.workers_pid = << >>]
<1>1. pc[p] = "add_work_processes" /\ Move(p, "fork_worker", m)
  BY DEF AddWorkProcesses, CountIsPositive
<1>2. /\ m.old_master_process = mem[p].old_master_process
      /\ m.new_master_process = mem[p].new_master_process
      /\ m.workers_pid = << >>
      /\ SameStops(m, mem[p])
  BY DEF TypeOK, Memory, SameStops
<1>3. pc'[p] = "fork_worker" /\ mem'[p] = m
  BY <1>1 DEF Move, TypeOK
<1> HIDE DEF m
<1>4. OwnLocation(p)
  BY <1>1, <1>3 DEF OwnLocation, ReadyPC, RunningPC, HandoverPC, LoopPC, DonePC,
              WorkerPC, GonePC, PreStartPC, FormingPC
<1>5. OwnMemory(p)
  BY <1>1, <1>2, <1>3 DEF OwnMemory, CountPC, OwnerPC, ReadyPC, RunningPC,
                    HandoverPC, LoopPC, FormingPC
<1>6. OwnCalm(p)
  BY <1>1, <1>2, <1>3 DEF OwnCalm, Told, Standing, SameStops, ReadyPC, RunningPC,
                          HandoverPC, LoopPC
<1>7. ~Serving(p)
  BY <1>1 DEF Serving, WorkerPC
<1>8. parent' = parent /\ next_pid' = next_pid /\ OwnPidFileStep(p)
  BY DEF AddWorkProcesses, OwnPidFileStep
<1> QED
  BY <1>1, <1>4, <1>5, <1>6, <1>7, <1>8, MoveIsQuiet, MoveIsCalm

(* After a failure to write the pid file the first master exits and leaves *)
(* its workers behind; a new master ends and stops its own.                *)
LEMMA FillPidFileQuiet ==
    ASSUME TypeOK, MasterKnowsItself, NEW p \in Pid, FillPidFile(p),
           Undisturbed => ToldByInheritance
    PROVE  Quiet(p) /\ (Undisturbed => KeepsRequests /\ KeepsStanding)
<1>1. pc[p] = "fill_pid_file"
  BY DEF FillPidFile
<1>2. PICK next, m : Move(p, next, m)
                /\ \/ next = "kill_old_master" /\ Reloading(p) /\ m = mem[p]
                   \/ next = "process_setup_signals" /\ ~Reloading(p) /\ m = mem[p]
                   \/ next = "exiting" /\ ~Reloading(p) /\ m = mem[p]
                   \/ next = "stop_kill" /\ Reloading(p) /\ m = [mem[p] EXCEPT !.level = "HARD"]
  BY <1>1 DEF FillPidFile, GiveUp
<1>3. SameMaster(m, mem[p]) /\ SameStops(m, mem[p])
  <2>1. SameMaster(mem[p], mem[p]) /\ SameStops(mem[p], mem[p])
    BY DEF SameMaster, SameStops
  <2>2. mem[p] \in Memory
    BY DEF TypeOK
  <2>3. m = mem[p] \/ m = [mem[p] EXCEPT !.level = "HARD"]
    BY <1>2
  <2>4. SameMaster([mem[p] EXCEPT !.level = "HARD"], mem[p])
        /\ SameStops([mem[p] EXCEPT !.level = "HARD"], mem[p])
    BY <2>2, UpdatesKeep
  <2> QED
    BY <2>1, <2>3, <2>4
<1>4. pc'[p] = next /\ mem'[p] = m
  BY <1>2 DEF Move, TypeOK
<1>5. Reloading(p)' = Reloading(p)
  BY <1>3, <1>4 DEF Reloading, SameMaster
<1>6. OwnLocation(p)
  BY <1>1, <1>2, <1>4 DEF OwnLocation, ReadyPC, RunningPC, HandoverPC, LoopPC, DonePC,
              WorkerPC, GonePC, PreStartPC, FormingPC
<1>7. OwnMemory(p)
  BY <1>1, <1>2, <1>3, <1>4 DEF OwnMemory, SameMaster, Reloading, CountPC, OwnerPC,
                    ReadyPC, RunningPC, HandoverPC, LoopPC, FormingPC
<1>8. ASSUME Undisturbed PROVE OwnCalm(p)
  <2>1. Told(p)' = Told(p)
    BY <1>3, <1>4 DEF Told, SameStops
  <2>2. ~Reloading(p) => ~Told(p)
    BY <1>1, <1>8 DEF ToldByInheritance, FormingPC
  <2> QED
    BY <1>1, <1>2, <1>4, <1>5, <2>1, <2>2
    DEF OwnCalm, Standing, ReadyPC, RunningPC, HandoverPC, LoopPC
<1>9. ~Serving(p)
  BY <1>1 DEF Serving, WorkerPC
<1>a. parent' = parent /\ next_pid' = next_pid
  BY DEF FillPidFile
<1>b. OwnPidFileStep(p)
  <2>1. CASE pid_file' = OwnPidFile(p) /\ Move(p, IF Reloading(p) THEN "kill_old_master"
                                     ELSE "process_setup_signals", mem[p])
    <3>1. pid_file'.master = p
      BY <2>1 DEF OwnPidFile
    <3>2. pc'[p] = IF Reloading(p) THEN "kill_old_master" ELSE "process_setup_signals"
      BY <2>1 DEF Move, TypeOK
    <3> QED
      BY <3>1, <3>2 DEF OwnPidFileStep, ReadyPC, HandoverPC
  <2>2. CASE UNCHANGED pid_file
    BY <2>2 DEF OwnPidFileStep
  <2> QED
    BY <2>1, <2>2 DEF FillPidFile
<1> QED
  BY <1>2, <1>6, <1>7, <1>8, <1>9, <1>a, <1>b, MoveIsQuiet, MoveIsCalm

(* A move within the ready locations that leaves a master its identity.    *)
LEMMA ReadyMove ==
    ASSUME TypeOK, NEW p \in Pid, NEW next \in LoopPC \cup {"finish_reload"}, NEW m,
           Move(p, next, m),
           pc[p] \in HandoverPC \cup {"process_setup_signals"},
           m.workers_pid = mem[p].workers_pid, SameStops(m, mem[p]),
           \/ next \in LoopPC /\ m.old_master_process = p
           \/ /\ next = "finish_reload" /\ SameMaster(m, mem[p])
              /\ pc[p] = "wait_old_master" /\ Reloading(p),
           parent' = parent, next_pid' = next_pid, OwnPidFileStep(p)
    PROVE  Quiet(p) /\ KeepsRequests /\ KeepsStanding
<1>1. pc'[p] = next /\ mem'[p] = m
  BY DEF Move, TypeOK
<1>2. OwnLocation(p)
  BY <1>1 DEF OwnLocation, ReadyPC, RunningPC, HandoverPC, LoopPC, DonePC, WorkerPC,
              GonePC, PreStartPC, FormingPC
<1>3. OwnMemory(p)
  BY <1>1 DEF OwnMemory, SameMaster, Reloading, CountPC, OwnerPC, ReadyPC, RunningPC,
              HandoverPC, LoopPC, FormingPC
<1>4. OwnCalm(p)
  BY <1>1 DEF OwnCalm, Told, Standing, SameStops, ReadyPC, RunningPC, HandoverPC, LoopPC
<1>5. ~Serving(p)
  BY DEF Serving, HandoverPC, WorkerPC
<1> QED
  BY <1>2, <1>3, <1>4, <1>5, MoveIsQuiet, MoveIsCalm

LEMMA ProcessSetupSignalsQuiet ==
    ASSUME TypeOK, MasterKnowsItself, NEW p \in Pid, ProcessSetupSignals(p)
    PROVE  Quiet(p) /\ KeepsRequests /\ KeepsStanding
<1>1. /\ pc[p] = "process_setup_signals" /\ Move(p, "test_soft_stop", mem[p])
      /\ parent' = parent /\ next_pid' = next_pid /\ OwnPidFileStep(p)
  BY DEF ProcessSetupSignals, OwnPidFileStep
<1>2. mem[p].old_master_process = p
  BY <1>1 DEF MasterKnowsItself, Reloading
<1>3. SameStops(mem[p], mem[p]) /\ "test_soft_stop" \in LoopPC
  BY DEF SameStops, LoopPC
<1> QED
  BY <1>1, <1>2, <1>3, ReadyMove

LEMMA WaitOldMasterQuiet ==
    ASSUME TypeOK, MasterKnowsItself, NEW p \in Pid, WaitOldMaster(p)
    PROVE  Quiet(p) /\ KeepsRequests /\ KeepsStanding
<1> DEFINE m == [mem[p] EXCEPT !.has_old_master_stopped = FALSE]
<1>1. /\ pc[p] = "wait_old_master" /\ Move(p, "finish_reload", m)
      /\ parent' = parent /\ next_pid' = next_pid /\ OwnPidFileStep(p)
  BY DEF WaitOldMaster, OwnPidFileStep
<1>2. mem[p] \in Memory /\ Reloading(p) /\ pc[p] \in HandoverPC
  BY <1>1 DEF TypeOK, MasterKnowsItself, HandoverPC
<1>3. SameMaster(m, mem[p]) /\ SameStops(m, mem[p])
  BY <1>2, UpdatesKeep
<1>4. m.workers_pid = mem[p].workers_pid
  BY <1>3 DEF SameMaster
<1> HIDE DEF m
<1> QED
  BY <1>1, <1>2, <1>3, <1>4, ReadyMove

LEMMA FinishReloadQuiet ==
    ASSUME TypeOK, MasterKnowsItself, NEW p \in Pid, FinishReload(p)
    PROVE  Quiet(p) /\ KeepsRequests /\ KeepsStanding
<1> DEFINE n == SetReloadFlag(mem[p], 0)
           m == [n EXCEPT !.old_master_process = mem[p].new_master_process,
                          !.new_master_process = 0]
           next == AfterReload(mem[p].level)
<1>1. /\ pc[p] = "finish_reload" /\ Move(p, next, m)
      /\ parent' = parent /\ next_pid' = next_pid
      /\ pid_file' = OwnPidFile(p) \/ UNCHANGED pid_file
  BY DEF FinishReload
<1>2. mem[p] \in Memory
  BY DEF TypeOK
<1>3. mem[p].new_master_process = p
  BY <1>1 DEF MasterKnowsItself, HandoverPC
<1>4. next \in LoopPC
  BY DEF AfterReload, LoopPC
<1>5. n \in Memory /\ SameMaster(n, mem[p]) /\ SameStops(n, mem[p])
  <2>1. n \in Memory
    BY <1>2, SetReloadFlagType, 0 \in 0 .. 2
  <2> HIDE DEF n
  <2>2. SameMaster(n, mem[p]) /\ SameStops(n, mem[p])
    BY <1>2, UpdatesKeep DEF n
  <2> QED
    BY <2>1, <2>2
<1> HIDE DEF n, next
<1>6. /\ m.workers_pid = n.workers_pid
      /\ m.old_master_process = p
      /\ SameStops(m, n)
  BY <1>3, <1>5 DEF Memory, SameStops
<1> HIDE DEF m
<1>7. m.workers_pid = mem[p].workers_pid /\ SameStops(m, mem[p])
  BY <1>5, <1>6 DEF SameMaster, SameStops
<1>8. OwnPidFileStep(p)
  <2>1. pc'[p] = next
    BY <1>1 DEF Move, TypeOK
  <2> QED
    BY <1>1, <1>4, <2>1 DEF OwnPidFileStep, OwnPidFile, ReadyPC, RunningPC
<1> QED
  BY <1>1, <1>4, <1>6, <1>7, <1>8, ReadyMove DEF HandoverPC
(* server_stop signals only workers of the stopping master.                *)
LEMMA StopKillQuiet ==
    ASSUME TypeOK, WorkersAreChildren, NEW p \in Pid, StopKill(p)
    PROVE  Quiet(p) /\ KeepsRequests /\ KeepsStanding
<1> DEFINE q == mem[p].workers_pid[loop_i[p]]
           sig == IF mem[p].level = "HARD" THEN "SIGINT" ELSE "SIGHUP"
<1>1. /\ pc[p] = "stop_kill" /\ parent' = parent /\ next_pid' = next_pid
      /\ OwnPidFileStep(p)
  BY DEF StopKill, OwnPidFileStep
<1>2. CASE loop_i[p] <= Len(mem[p].workers_pid)
  <2>1. Signal(p, "stop_kill", mem[p], q, sig)
    BY <1>2 DEF StopKill
  <2>2. loop_i[p] \in 1 .. Len(mem[p].workers_pid) /\ mem[p].workers_pid \in Seq(Pid)
    BY <1>2 DEF TypeOK, Memory
  <2>3. q \in Pid /\ parent[q] = p /\ pc[q] \in WorkerPC \cup GonePC
    BY <1>1, <2>2 DEF WorkersAreChildren, GonePC
  <2> HIDE DEF q, sig
  <2>4. pc'[p] = "stop_kill" /\ mem'[p] = mem[p]
    BY <2>1 DEF Signal
  <2>5. OwnLocation(p)
    BY <1>1, <2>4 DEF OwnLocation, FormingPC, ReadyPC, RunningPC, HandoverPC, LoopPC
  <2>6. OwnMemory(p)
    BY <1>1, <2>4 DEF OwnMemory, CountPC, OwnerPC, ReadyPC, RunningPC,
                HandoverPC, LoopPC, FormingPC
  <2>7. OwnCalm(p)
    BY <1>1, <2>4 DEF OwnCalm, Told, Standing, ReadyPC, RunningPC, HandoverPC, LoopPC
  <2>8. ~Serving(p)
    BY <1>1 DEF Serving, WorkerPC
  <2>9. Quiet(p)
    BY <1>1, <2>1, <2>3, <2>5, <2>6, <2>8, SignalIsQuiet DEF DonePC, GonePC
  <2>a. KeepsRequests /\ KeepsStanding
    BY <2>1, <2>3, <2>7, SignalIsCalm
  <2> QED
    BY <2>9, <2>a
<1>3. CASE ~(loop_i[p] <= Len(mem[p].workers_pid))
  <2>1. SameMaster(mem[p], mem[p]) /\ SameStops(mem[p], mem[p])
    BY DEF SameMaster, SameStops
  <2>2. Move(p, "stop_wait", mem[p])
    BY <1>3 DEF StopKill
  <2> QED
    BY <1>1, <2>1, <2>2, DoneMove
<1> QED
  BY <1>2, <1>3

LEMMA StopEndQuiet ==
    ASSUME TypeOK, NEW p \in Pid, StopEnd(p)
    PROVE  Quiet(p) /\ KeepsRequests /\ KeepsStanding
<1>1. /\ pc[p] = "stop_end" /\ parent' = parent /\ next_pid' = next_pid
      /\ OwnPidFileStep(p)
  BY DEF StopEnd, OwnPidFileStep, NoFile
<1>2. CASE ReloadFlag(mem[p]) = 2
  <2>1. Signal(p, "exiting", mem[p], mem[p].new_master_pid, "SIGCHLD")
    BY <1>2 DEF StopEnd
  <2>2. pc'[p] = "exiting" /\ mem'[p] = mem[p]
    BY <2>1 DEF Signal
  <2>3. OwnLocation(p)
    BY <1>1, <2>2 DEF OwnLocation, FormingPC, ReadyPC, RunningPC, HandoverPC, LoopPC,
                      DonePC, WorkerPC, GonePC, PreStartPC
  <2>4. OwnMemory(p)
    BY <1>1, <2>2 DEF OwnMemory, CountPC, OwnerPC, ReadyPC, RunningPC,
                HandoverPC, LoopPC, FormingPC
  <2>5. OwnCalm(p)
    BY <1>1, <2>2 DEF OwnCalm, Told, Standing
  <2>6. ~Serving(p)
    BY <1>1 DEF Serving, WorkerPC
  <2>7. Quiet(p)
    BY <1>1, <2>1, <2>3, <2>4, <2>6, SignalIsQuiet
  <2>8. KeepsRequests /\ KeepsStanding
    BY <2>1, <2>5, SignalIsCalm
  <2> QED
    BY <2>7, <2>8
<1>3. CASE ReloadFlag(mem[p]) # 2
  <2>1. SameMaster(mem[p], mem[p]) /\ SameStops(mem[p], mem[p])
    BY DEF SameMaster, SameStops
  <2>2. Move(p, "exiting", mem[p])
    BY <1>3 DEF StopEnd
  <2> QED
    BY <1>1, <2>1, <2>2, DoneMove
<1> QED
  BY <1>2, <1>3

LEMMA ProcessExitQuiet ==
    ASSUME TypeOK, NEW p \in Pid, ProcessExit(p)
    PROVE  Quiet(p) /\ KeepsRequests /\ KeepsStanding
<1>1. /\ pc[p] = "exiting" /\ parent' = parent /\ next_pid' = next_pid
      /\ OwnPidFileStep(p)
      /\ Signal(p, "exited", FreshMemory, parent[p], "SIGCHLD")
  BY DEF ProcessExit, OwnPidFileStep
<1>2. pc'[p] = "exited" /\ mem'[p] = FreshMemory
  BY <1>1 DEF Signal
<1>3. OwnLocation(p)
  BY <1>1, <1>2 DEF OwnLocation, FormingPC, ReadyPC, RunningPC, HandoverPC, LoopPC,
                    DonePC, WorkerPC, GonePC, PreStartPC
<1>4. OwnMemory(p)
  BY <1>2 DEF OwnMemory, CountPC, OwnerPC, ReadyPC, RunningPC,
              HandoverPC, LoopPC, FormingPC, FreshMemory
<1>5. OwnCalm(p)
  BY <1>1, <1>2 DEF OwnCalm, Told, Standing, FreshMemory, DonePC
<1>6. ~Serving(p)
  BY <1>1 DEF Serving, WorkerPC
<1>7. Quiet(p)
  BY <1>1, <1>3, <1>4, <1>6, SignalIsQuiet
<1>8. KeepsRequests /\ KeepsStanding
  BY <1>1, <1>5, SignalIsCalm
<1> QED
  BY <1>7, <1>8

(* A worker leaves its loop only when it was told to.                      *)
LEMMA WorkerQuiet ==
    ASSUME TypeOK, NEW w \in Pid, Worker(w) \/ Traffic(w), Contained'
    PROVE  Quiet(w) /\ KeepsRequests /\ KeepsStanding
<1>1. PICK next \in WorkerPC \cup {"exiting"} :
        /\ pc[w] \in WorkerPC /\ Move(w, next, mem[w])
        /\ Serving(w) => next \in WorkerPC
        /\ parent' = parent /\ next_pid' = next_pid /\ OwnPidFileStep(w)
  <2>1. CASE WorkerSetup(w)
    BY <2>1 DEF WorkerSetup, WorkerPC, OwnPidFileStep
  <2>2. CASE WorkerTest(w)
    <3>1. CASE mem[w].is_soft_stop \/ mem[w].is_hard_stop
      <4>1. Move(w, "exiting", mem[w]) /\ ~Serving(w) /\ pc[w] \in WorkerPC
        BY <2>2, <3>1 DEF WorkerTest, Serving, WorkerPC
      <4> QED
        BY <2>2, <4>1 DEF WorkerTest, OwnPidFileStep
    <3>2. CASE ~(mem[w].is_soft_stop \/ mem[w].is_hard_stop)
      <4>1. Move(w, "worker_call", mem[w]) /\ pc[w] \in WorkerPC
        BY <2>2, <3>2 DEF WorkerTest, WorkerPC
      <4>2. "worker_call" \in WorkerPC
        BY DEF WorkerPC
      <4> QED
        BY <2>2, <4>1, <4>2 DEF WorkerTest, OwnPidFileStep
    <3> QED
      BY <3>1, <3>2
  <2>3. CASE WorkerBlocks(w)
    BY <2>3 DEF WorkerBlocks, WorkerPC, OwnPidFileStep
  <2>4. CASE Traffic(w)
    BY <2>4 DEF Traffic, Fail, Contained, WorkerPC, OwnPidFileStep
  <2> QED
    BY <2>1, <2>2, <2>3, <2>4 DEF Worker
<1>2. pc'[w] = next /\ mem'[w] = mem[w]
  BY <1>1 DEF Move, TypeOK
<1>3. OwnLocation(w)
  BY <1>1, <1>2 DEF OwnLocation, FormingPC, ReadyPC, RunningPC, HandoverPC, LoopPC,
                    DonePC, WorkerPC, GonePC, PreStartPC
<1>4. OwnMemory(w)
  BY <1>1, <1>2 DEF OwnMemory, CountPC, OwnerPC, ReadyPC, RunningPC,
                    HandoverPC, LoopPC, FormingPC, WorkerPC
<1>5. OwnCalm(w)
  BY <1>1, <1>2 DEF OwnCalm, Told, Standing, ReadyPC, RunningPC, HandoverPC, LoopPC,
                    WorkerPC
<1>6. Serving(w) => Serving(w)'
  BY <1>1, <1>2 DEF Serving
<1> QED
  BY <1>1, <1>3, <1>4, <1>5, <1>6, MoveIsQuiet, MoveIsCalm

(* The operator's signals reach masters that have formed, or nobody.       *)
LEMMA SignalMasterQuiet ==
    ASSUME TypeOK, PidFileNamesFormedMaster, NEW command, NEW sig,
           SignalMaster(command, sig)
    PROVE  /\ Quiet(Shell)
           /\ sig \notin {"SIGHUP", "SIGINT"} => KeepsRequests /\ KeepsStanding
<1>1. /\ Signal(Shell, "unused", FreshMemory, pid_file.master, sig)
      /\ parent' = parent /\ next_pid' = next_pid /\ OwnPidFileStep(Shell)
  BY DEF SignalMaster, OwnPidFileStep
<1>2. /\ pid_file.master \notin Pid \/ pc[pid_file.master] \in ReadyPC \cup DonePC
      /\ Shell \notin Pid
  BY DEF PidFileNamesFormedMaster, TypeOK, Pid, Shell
<1>3. Quiet(Shell)
  BY <1>1, <1>2, SignalIsQuiet
<1>4. sig \notin {"SIGHUP", "SIGINT"} => KeepsRequests /\ KeepsStanding
  BY <1>1, <1>2, SignalIsCalm
<1> QED
  BY <1>3, <1>4
---------------------------------------------------------------------------
(* The signal that ends the old master.                                    *)

LEMMA KillOldMasterQuiet ==
    ASSUME TypeOK, MasterKnowsItself, NEW p \in Pid, KillOldMaster(p)
    PROVE  /\ Quiet(p) /\ KeepsRequests
           /\ \A r \in Pid : Standing(r) => Standing(r)' \/ r = mem[p].old_master_process
<1> DEFINE o == mem[p].old_master_process
           sig == IF mem[p].level = "HARD" THEN "SIGINT" ELSE "SIGHUP"
<1>1. /\ pc[p] = "kill_old_master" /\ parent' = parent /\ next_pid' = next_pid
      /\ Signal(p, "wait_old_master", mem[p], o, sig) /\ OwnPidFileStep(p)
  BY DEF KillOldMaster, OwnPidFileStep
<1>2. /\ Reloading(p) /\ o \in 1 .. p - 1 /\ pc[o] \in RunningPC \cup DonePC
      /\ mem[p].new_master_process = p
  BY <1>1 DEF MasterKnowsItself, HandoverPC
<1>3. o \in Pid /\ o # p
  BY <1>2, MaxPidAssumption DEF Pid
<1> HIDE DEF o, sig
<1>4. pc'[p] = "wait_old_master" /\ mem'[p] = mem[p]
  BY <1>1 DEF Signal
<1>5. OwnLocation(p)
  BY <1>1, <1>4 DEF OwnLocation, FormingPC, ReadyPC, RunningPC, HandoverPC, LoopPC,
                    DonePC, WorkerPC, GonePC, PreStartPC
<1>6. OwnMemory(p)
  BY <1>1, <1>2, <1>4 DEF OwnMemory, Reloading, CountPC, OwnerPC, ReadyPC, RunningPC,
                    HandoverPC, LoopPC, FormingPC
<1>7. OwnCalm(p)
  BY <1>1, <1>4 DEF OwnCalm, Told, Standing, ReadyPC, RunningPC, HandoverPC, LoopPC
<1>8. ~Serving(p)
  BY <1>1 DEF Serving, WorkerPC
<1>9. Quiet(p)
  BY <1>1, <1>2, <1>5, <1>6, <1>8, SignalIsQuiet DEF ReadyPC
<1>a. \A r \in Pid \ {p, o} : pc'[r] = pc[r] /\ mem'[r] = mem[r]
  BY <1>1, SignalFrame
<1>b. KeepsRequests
  <2>1. \A r \in Pid \ {p, o} : Told(r)' = Told(r)
    BY <1>a DEF Told
  <2>2. \A r \in Pid \ {p} : Told(r) => Told(r)'
    BY <1>1, SignalFrame
  <2>3. \A r \in Pid \ {p} :
          Told(r)' => Told(r) \/ pc[r] \in RunningPC \cup DonePC
    BY <1>2, <2>1
  <2> QED
    BY <1>7, <2>2, <2>3 DEF KeepsRequests, OwnCalm
<1>c. \A r \in Pid \ {o} : Standing(r) => Standing(r)'
  BY <1>7, <1>a DEF OwnCalm, Standing, Told, Reloading
<1> QED
  BY <1>9, <1>b, <1>c DEF o

(* When the old master is told to stop, the new one stands in its place.   *)
LEMMA KillOldMasterHandsOver ==
    ASSUME TypeOK, MasterKnowsItself, ReadyServes, ToldByInheritance, SomeoneStands,
           NEW p \in Pid, KillOldMaster(p)
    PROVE  SomeoneStands'
<1> DEFINE o == mem[p].old_master_process
<1>1. pc[p] = "kill_old_master" /\ pc'[p] = "wait_old_master" /\ mem'[p] = mem[p]
  BY DEF KillOldMaster, Signal
<1>2. Quiet(p)
  BY KillOldMasterQuiet
<1>3. SUFFICES ASSUME Started'
               PROVE  \E s, w \in Pid : Standing(s)' /\ Serving(w)' /\ parent'[w] = s
  BY DEF SomeoneStands
<1>4. PICK s \in Pid, w \in Pid : Standing(s) /\ Serving(w) /\ parent[w] = s
  BY <1>2, <1>3, QuietKeepsStarted DEF SomeoneStands
<1>5. \A x \in Pid : Serving(x) => Serving(x)' /\ parent'[x] = parent[x]
  BY <1>1, <1>2 DEF Quiet
<1>6. CASE Standing(s)'
  BY <1>4, <1>5, <1>6
<1>7. CASE ~Standing(s)'
  <2>1. s = o
    BY <1>4, <1>7, KillOldMasterQuiet
  <2>2. pc[s] \notin GonePC
    BY <1>2, <1>4, <1>7 DEF Standing, GonePC, Quiet, OwnLocation, Kept, DonePC, ReadyPC,
                       RunningPC, HandoverPC, LoopPC, WorkerPC
  <2>3. ~Told(s) /\ pc[s] \notin DonePC
    <3>1. pc[s] \in RunningPC \cup DonePC
      BY <1>1, <2>1 DEF MasterKnowsItself, HandoverPC
    <3> QED
      BY <1>4, <2>2, <3>1 DEF Standing, GonePC, ReadyPC, RunningPC, HandoverPC, LoopPC, DonePC
  <2>4. ~Told(p)
    BY <1>1, <2>1, <2>3 DEF ToldByInheritance
  <2>5. Standing(p)'
    BY <1>1, <2>4 DEF Standing, Told, ReadyPC, HandoverPC
  <2>6. PICK x \in Pid : Serving(x) /\ parent[x] = p
    BY <1>1 DEF ReadyServes, ReadyPC, HandoverPC
  <2> QED
    BY <1>5, <2>5, <2>6
<1> QED
  BY <1>6, <1>7

---------------------------------------------------------------------------
(* The three forks.                                                        *)

(* A fork takes a fresh identifier, which no process and no list mentions. *)
LEMMA ForkFrame ==
    ASSUME TypeOK, PidsAreFresh, NEW p \in Pid, pc[p] # "unused",
           NEW next, NEW m, NEW childpc, NEW childm, Fork(p, next, m, childpc, childm)
    PROVE  /\ next_pid \in Pid /\ p < next_pid /\ pc[next_pid] = "unused"
           /\ next_pid' = next_pid + 1
           /\ pc'[p] = next /\ mem'[p] = m /\ parent'[p] = parent[p]
           /\ pc'[next_pid] = childpc /\ mem'[next_pid] = childm
           /\ parent'[next_pid] = p
           /\ \A r \in Pid \ {p, next_pid} :
                pc'[r] = pc[r] /\ mem'[r] = mem[r] /\ parent'[r] = parent[r]
<1>1. next_pid \in Pid /\ next_pid' = next_pid + 1
  BY DEF Fork, TypeOK, Pid
<1>2. pc[next_pid] = "unused" /\ p < next_pid
  BY <1>1, MaxPidAssumption DEF PidsAreFresh, Pid
<1>3. p # next_pid
  BY <1>2
<1> QED
  BY <1>1, <1>2, <1>3 DEF Fork, TypeOK

LEMMA ForkKeepsFresh ==
    ASSUME TypeOK, PidsAreFresh, NEW p \in Pid, pc[p] # "unused",
           NEW next, NEW m, NEW childpc, NEW childm, Fork(p, next, m, childpc, childm),
           \A i \in 1 .. Len(m.workers_pid) : m.workers_pid[i] <= next_pid,
           \A i \in 1 .. Len(childm.workers_pid) : childm.workers_pid[i] <= next_pid,
           m.workers_pid \in Seq(Pid), childm.workers_pid \in Seq(Pid)
    PROVE  PidsAreFresh'
<1>1. next_pid \in Nat /\ next_pid' = next_pid + 1 /\ p < next_pid /\ next_pid \in Pid
  BY ForkFrame, MaxPidAssumption DEF Pid
<1>2. ASSUME NEW r \in Pid, r >= next_pid'
      PROVE  pc'[r] = "unused"
  <2>1. r >= next_pid /\ r \notin {p, next_pid}
    BY <1>1, <1>2 DEF Pid
  <2>2. pc'[r] = pc[r]
    BY <2>1, ForkFrame
  <2> QED
    BY <2>1, <2>2 DEF PidsAreFresh
<1>3. ASSUME NEW r \in Pid, NEW i \in 1 .. Len(mem'[r].workers_pid)
      PROVE  mem'[r].workers_pid[i] < next_pid'
  <2>1. CASE r = p
    <3>1. mem'[r] = m
      BY <2>1, ForkFrame
    <3>2. m.workers_pid[i] \in Pid /\ m.workers_pid[i] <= next_pid
      BY <1>3, <3>1
    <3> QED
      BY <1>1, <3>1, <3>2 DEF Pid
  <2>2. CASE r = next_pid
    <3>1. mem'[r] = childm
      BY <2>2, ForkFrame
    <3>2. childm.workers_pid[i] \in Pid /\ childm.workers_pid[i] <= next_pid
      BY <1>3, <3>1
    <3> QED
      BY <1>1, <3>1, <3>2 DEF Pid
  <2>3. CASE r \notin {p, next_pid}
    <3>1. mem'[r] = mem[r]
      BY <2>3, ForkFrame
    <3>2. mem[r].workers_pid \in Seq(Pid)
      BY DEF TypeOK, Memory
    <3>3. mem[r].workers_pid[i] \in Pid /\ mem[r].workers_pid[i] < next_pid
      BY <1>3, <3>1, <3>2 DEF PidsAreFresh
    <3> QED
      BY <1>1, <3>1, <3>3 DEF Pid
  <2> QED
    BY <2>1, <2>2, <2>3
<1> QED
  BY <1>2, <1>3 DEF PidsAreFresh

(* What the three forks have in common: a master of one of these locations *)
(* goes on, with what it knows of itself unchanged, and its child is       *)
(* either a worker or a master that is being made.                         *)
ForkOf(p, next, m, childpc, childm) ==
    /\ Fork(p, next, m, childpc, childm)
    /\ pid_file' = pid_file
    /\ \/ pc[p] = "server_reload" /\ next = "mark_reload" /\ childpc = "second_fork"
       \/ pc[p] = "second_fork" /\ next = "exiting" /\ childpc = "add_work_processes"
       \/ pc[p] = "fork_worker" /\ next \in {"fork_worker", "fill_pid_file"}
                                /\ childpc = "worker_setup"
    /\ m.old_master_process = mem[p].old_master_process
    /\ m.new_master_process = mem[p].new_master_process
    /\ SameStops(m, mem[p])
    /\ childpc # "worker_setup" => SameStops(childm, mem[p])

(* The identity a new master gets.                                         *)
NewMaster(p, childpc, childm) ==
    childpc # "worker_setup" =>
        /\ childm.count_workflows > 0
        /\ childm.old_master_process = mem[p].old_master_process
        /\ childpc = "add_work_processes" => childm.new_master_process = next_pid

LEMMA ForkKeepsIdentity ==
    ASSUME TypeOK, PidsAreFresh, MasterKnowsItself, CountIsPositive, NEW p \in Pid,
           NEW next, NEW m, NEW childpc, NEW childm,
           ForkOf(p, next, m, childpc, childm), NewMaster(p, childpc, childm)
    PROVE  MasterKnowsItself' /\ CountIsPositive'
<1>1. pc[p] \in {"server_reload", "second_fork", "fork_worker"}
  BY DEF ForkOf
<1>2. Fork(p, next, m, childpc, childm) /\ pc[p] # "unused"
  BY <1>1 DEF ForkOf
<1> DEFINE c == next_pid
<1>3. /\ c \in Pid /\ p < c /\ pc[c] = "unused" /\ p # c
      /\ pc'[p] = next /\ mem'[p] = m
      /\ pc'[c] = childpc /\ mem'[c] = childm
      /\ \A r \in Pid \ {p, c} : pc'[r] = pc[r] /\ mem'[r] = mem[r]
  <2>1. c \in Pid /\ p < c
    BY <1>2, ForkFrame
  <2> QED
    BY <1>2, <2>1, ForkFrame, MaxPidAssumption DEF Pid
<1> HIDE DEF c
<1>4. CountIsPositive'
  <2>1. next \notin CountPC
    BY DEF ForkOf, CountPC
  <2>2. childpc \in CountPC => childm.count_workflows > 0
    BY DEF NewMaster, CountPC
  <2>3. \A r \in Pid : r = p \/ r = c \/ r \in Pid \ {p, c}
    OBVIOUS
  <2> QED
    BY <1>3, <2>1, <2>2, <2>3 DEF CountIsPositive, CountPC
<1>5. \A o \in Pid : pc[o] \in RunningPC \cup DonePC => pc'[o] \in RunningPC \cup DonePC
  <2>1. pc[p] \in RunningPC \cup DonePC => next \in RunningPC \cup DonePC
    BY DEF ForkOf, RunningPC, LoopPC, DonePC
  <2>2. pc[c] \notin RunningPC \cup DonePC
    BY <1>3 DEF RunningPC, LoopPC, DonePC
  <2> QED
    BY <1>3, <2>1, <2>2
<1>6. ASSUME NEW r \in Pid,
             pc'[r] \in RunningPC \cup {"bind_listen_sock", "process_setup_signals"}
      PROVE  mem'[r].old_master_process = r
  <2>1. CASE r = p
    <3>1. pc[p] \in RunningPC
      BY <1>3, <1>6, <2>1 DEF ForkOf, RunningPC, LoopPC
    <3> QED
      BY <1>3, <2>1, <3>1 DEF MasterKnowsItself, Reloading, ForkOf
  <2>2. CASE r = c
    BY <1>3, <1>6, <2>2 DEF ForkOf, RunningPC, LoopPC
  <2>3. CASE r \notin {p, c}
    BY <1>3, <1>6, <2>3 DEF MasterKnowsItself, Reloading
  <2> QED
    BY <2>1, <2>2, <2>3
<1>7. \* The child of a fork, if a master, has an earlier one for old master.
      ASSUME childpc \in {"second_fork", "add_work_processes"}
      PROVE  /\ childm.old_master_process \in 1 .. c - 1
             /\ childm.old_master_process # c
             /\ pc'[childm.old_master_process] \in RunningPC \cup DonePC
             /\ childpc # "second_fork" => childm.new_master_process = c
  <2>1. childm.old_master_process = mem[p].old_master_process
    BY <1>7 DEF NewMaster
  <2>2. CASE pc[p] = "server_reload"
    <3>1. mem[p].old_master_process = p
      BY <2>2 DEF MasterKnowsItself, Reloading, RunningPC
    <3>2. next = "mark_reload"
      BY <2>2 DEF ForkOf
    <3> QED
      BY <1>3, <2>1, <2>2, <3>1, <3>2 DEF RunningPC, ForkOf, Pid
  <2>3. CASE pc[p] = "second_fork"
    <3>1. /\ mem[p].old_master_process \in 1 .. p - 1
          /\ pc[mem[p].old_master_process] \in RunningPC \cup DonePC
      BY <2>3 DEF MasterKnowsItself, FormingPC
    <3>2. mem[p].old_master_process \in Pid /\ mem[p].old_master_process \in 1 .. c - 1
      BY <1>3, <3>1, MaxPidAssumption DEF Pid
    <3>3. pc'[mem[p].old_master_process] \in RunningPC \cup DonePC
      BY <1>5, <3>1, <3>2
    <3> QED
      BY <1>3, <1>7, <2>1, <2>3, <3>2, <3>3 DEF NewMaster, ForkOf, c, Pid
  <2> QED
    BY <1>1, <1>7, <2>2, <2>3 DEF ForkOf
<1>8. ASSUME NEW r \in Pid, pc'[r] \in FormingPC \cup HandoverPC
      PROVE  /\ pc'[r] \in HandoverPC \cup {"second_fork"} => mem'[r].old_master_process # r
             /\ mem'[r].old_master_process # r =>
                  /\ mem'[r].old_master_process \in 1 .. r - 1
                  /\ pc'[mem'[r].old_master_process] \in RunningPC \cup DonePC
                  /\ pc'[r] # "second_fork" => mem'[r].new_master_process = r
  <2>1. CASE r = c
    <3>1. childpc \in {"second_fork", "add_work_processes"}
      BY <1>3, <1>8, <2>1 DEF ForkOf, FormingPC, HandoverPC
    <3> QED
      BY <1>3, <1>7, <2>1, <3>1
  <2>2. CASE r # c
    <3>1. /\ pc[r] \in FormingPC \cup HandoverPC
          /\ mem'[r].old_master_process = mem[r].old_master_process
          /\ mem'[r].new_master_process = mem[r].new_master_process
          /\ pc'[r] # "second_fork" => pc[r] # "second_fork"
          /\ pc'[r] \in HandoverPC \cup {"second_fork"} => pc[r] = pc'[r]
      BY <1>3, <1>8, <2>2 DEF ForkOf, FormingPC, HandoverPC
    <3>2. mem[r].old_master_process # r =>
            /\ mem[r].old_master_process \in 1 .. r - 1
            /\ mem[r].old_master_process \in Pid
            /\ pc[mem[r].old_master_process] \in RunningPC \cup DonePC
            /\ pc[r] # "second_fork" => mem[r].new_master_process = r
      BY <3>1, MaxPidAssumption DEF MasterKnowsItself, Reloading, Pid
    <3>3. pc'[r] \in HandoverPC \cup {"second_fork"} => mem[r].old_master_process # r
      BY <3>1 DEF MasterKnowsItself, Reloading
    <3> QED
      BY <1>5, <3>1, <3>2, <3>3
  <2> QED
    BY <2>1, <2>2
<1>9. MasterKnowsItself'
  BY <1>6, <1>8 DEF MasterKnowsItself, Reloading, FormingPC
<1> QED
  BY <1>4, <1>9
(* The workers listed by the forking master are its children.              *)
LEMMA ForkKeepsStructure ==
    ASSUME TypeOK, TypeOK', PidsAreFresh, Structure, Contained, NEW p \in Pid,
           NEW next, NEW m, NEW childpc, NEW childm,
           ForkOf(p, next, m, childpc, childm), NewMaster(p, childpc, childm),
           m.workers_pid = IF childpc = "worker_setup"
                           THEN Append(mem[p].workers_pid, next_pid)
                           ELSE mem[p].workers_pid,
           childpc = "worker_setup" => childm = FreshMemory
    PROVE  Structure'
<1>1. /\ CountIsPositive /\ MasterKnowsItself /\ PidFileNamesFormedMaster
      /\ WorkersAreChildren /\ ReadyServes
  BY DEF Structure
<1>2. pc[p] \in {"server_reload", "second_fork", "fork_worker"}
  BY DEF ForkOf
<1>3. Fork(p, next, m, childpc, childm) /\ pc[p] # "unused"
  BY <1>2 DEF ForkOf
<1>4. PICK c \in Pid :
      /\ c = next_pid /\ p < c /\ pc[c] = "unused" /\ p # c
      /\ pc'[p] = next /\ mem'[p] = m /\ parent'[p] = parent[p]
      /\ pc'[c] = childpc /\ mem'[c] = childm /\ parent'[c] = p
      /\ \A r \in Pid \ {p, c} :
           pc'[r] = pc[r] /\ mem'[r] = mem[r] /\ parent'[r] = parent[r]
  <2>1. next_pid \in Pid /\ p < next_pid
    BY <1>3, ForkFrame
  <2> QED
    BY <1>3, <2>1, ForkFrame, MaxPidAssumption DEF Pid
<1>5. MasterKnowsItself' /\ CountIsPositive'
  BY <1>1, ForkKeepsIdentity
<1>6. PidFileNamesFormedMaster'
  <2>1. next \in ReadyPC \cup DonePC \/ pc[p] \notin ReadyPC \cup DonePC
    BY DEF ForkOf, ReadyPC, RunningPC, HandoverPC, LoopPC, DonePC
  <2>2. pc[c] \notin ReadyPC \cup DonePC
    BY <1>4 DEF ReadyPC, RunningPC, HandoverPC, LoopPC, DonePC
  <2>3. pid_file' = pid_file /\ pid_file.master \in {Shell} \cup Pid
    BY DEF ForkOf, TypeOK
  <2> QED
    BY <1>1, <1>4, <2>1, <2>2, <2>3 DEF PidFileNamesFormedMaster
<1>7. WorkersAreChildren'
  <2>1. SUFFICES ASSUME NEW r \in Pid, pc'[r] \in OwnerPC,
                        NEW i \in 1 .. Len(mem'[r].workers_pid)
                 PROVE  /\ parent'[mem'[r].workers_pid[i]] = r
                        /\ pc'[mem'[r].workers_pid[i]] \in WorkerPC \cup GonePC
    BY DEF WorkersAreChildren, OwnerPC, GonePC
  <2>2. mem[r].workers_pid \in Seq(Pid)
    BY DEF TypeOK, Memory
  <2>3. \A w \in Pid : pc[w] \in WorkerPC \cup GonePC =>
          pc'[w] = pc[w] /\ parent'[w] = parent[w]
    BY <1>2, <1>4 DEF WorkerPC, GonePC
  <2>4. ASSUME pc[r] \in OwnerPC, i \in 1 .. Len(mem[r].workers_pid),
               mem'[r].workers_pid[i] = mem[r].workers_pid[i]
        PROVE  /\ parent'[mem'[r].workers_pid[i]] = r
               /\ pc'[mem'[r].workers_pid[i]] \in WorkerPC \cup GonePC
    <3>1. /\ parent[mem[r].workers_pid[i]] = r
          /\ pc[mem[r].workers_pid[i]] \in WorkerPC \cup GonePC
      BY <1>1, <2>4 DEF WorkersAreChildren, OwnerPC, GonePC
    <3>2. mem[r].workers_pid[i] \in Pid
      BY <2>2, <2>4
    <3> QED
      BY <2>3, <2>4, <3>1, <3>2
  <2>5. r # c
    BY <1>4, <2>1 DEF ForkOf, OwnerPC, ReadyPC, RunningPC, HandoverPC, LoopPC
  <2>6. CASE r # p
    BY <1>4, <2>1, <2>4, <2>5, <2>6
  <2>7. CASE r = p /\ childpc # "worker_setup"
    <3>1. pc[p] \in OwnerPC
      BY <1>4, <2>1, <2>7 DEF ForkOf, OwnerPC, ReadyPC, RunningPC, HandoverPC, LoopPC
    <3> QED
      BY <1>4, <2>1, <2>4, <2>7, <3>1
  <2>8. CASE r = p /\ childpc = "worker_setup"
    <3>1. mem'[r].workers_pid = Append(mem[r].workers_pid, c) /\ pc[r] \in OwnerPC
      BY <1>4, <2>8 DEF ForkOf, OwnerPC
    <3>2. CASE i \in 1 .. Len(mem[r].workers_pid)
      BY <2>2, <2>4, <3>1, <3>2
    <3>3. CASE i \notin 1 .. Len(mem[r].workers_pid)
      <4>1. mem'[r].workers_pid[i] = c
        BY <1>4, <2>1, <2>2, <3>1, <3>3
      <4> QED
        BY <1>4, <2>8, <4>1 DEF WorkerPC
    <3> QED
      BY <3>2, <3>3
  <2> QED
    BY <2>6, <2>7, <2>8
<1>8. ReadyServes'
  <2>1. SUFFICES ASSUME NEW r \in Pid, pc'[r] \in ReadyPC \cup {"fill_pid_file"}
                 PROVE  \E w \in Pid : Serving(w)' /\ parent'[w] = r
    BY DEF ReadyServes
  <2>2. CASE pc[r] \in ReadyPC \cup {"fill_pid_file"}
    <3>1. PICK w \in Pid : Serving(w) /\ parent[w] = r
      BY <1>1, <2>2 DEF ReadyServes
    <3>2. w # p /\ w # c
      BY <1>2, <1>4, <3>1 DEF Serving, WorkerPC
    <3> QED
      BY <1>4, <3>1, <3>2 DEF Serving
  <2>3. CASE pc[r] \notin ReadyPC \cup {"fill_pid_file"}
    <3>1. r # c
      BY <1>4, <2>1 DEF ForkOf, ReadyPC, RunningPC, HandoverPC, LoopPC
    <3>2. r = p
      BY <1>4, <2>1, <2>3, <3>1
    <3>3. childpc = "worker_setup"
      BY <1>4, <2>1, <2>3, <3>2 DEF ForkOf, ReadyPC, RunningPC, HandoverPC, LoopPC
    <3>4. Serving(c)' /\ parent'[c] = r
      BY <1>4, <3>2, <3>3 DEF Serving, WorkerPC, FreshMemory
    <3> QED
      BY <1>4, <3>4
  <2> QED
    BY <2>2, <2>3
<1> QED
  BY <1>5, <1>6, <1>7, <1>8 DEF Structure

LEMMA ForkKeepsInheritance ==
    ASSUME TypeOK, PidsAreFresh, MasterKnowsItself, CountIsPositive, ToldByInheritance,
           NEW p \in Pid, NEW next, NEW m, NEW childpc, NEW childm,
           ForkOf(p, next, m, childpc, childm), NewMaster(p, childpc, childm)
    PROVE  ToldByInheritance'
<1>1. pc[p] \in {"server_reload", "second_fork", "fork_worker"}
  BY DEF ForkOf
<1>2. Fork(p, next, m, childpc, childm) /\ pc[p] # "unused"
  BY <1>1 DEF ForkOf
<1>3. PICK c \in Pid :
      /\ c = next_pid /\ p < c /\ pc[c] = "unused" /\ p # c
      /\ pc'[p] = next /\ mem'[p] = m
      /\ pc'[c] = childpc /\ mem'[c] = childm
      /\ \A r \in Pid \ {p, c} : pc'[r] = pc[r] /\ mem'[r] = mem[r]
  <2>1. next_pid \in Pid /\ p < next_pid
    BY <1>2, ForkFrame
  <2> QED
    BY <1>2, <2>1, ForkFrame, MaxPidAssumption DEF Pid
<1>4. \A r \in Pid \ {c} :
        /\ Told(r)' = Told(r)
        /\ Reloading(r)' = Reloading(r)
        /\ mem'[r].old_master_process = mem[r].old_master_process
        /\ pc[r] \in DonePC => pc'[r] \in DonePC
        /\ pc'[r] \in FormingPC \cup {"bind_listen_sock", "kill_old_master"} =>
             pc[r] \in FormingPC \cup {"bind_listen_sock", "kill_old_master"}
  BY <1>1, <1>3 DEF ForkOf, SameStops, Told, Reloading, DonePC, FormingPC
<1>5. ASSUME NEW r \in Pid \ {c}, Told(r),
             pc[r] \in FormingPC \cup {"bind_listen_sock", "kill_old_master"}
      PROVE  /\ Reloading(r) /\ mem[r].old_master_process \in Pid \ {c}
             /\ \/ Told(mem[r].old_master_process)'
                \/ pc'[mem[r].old_master_process] \in DonePC
  <2>1. Reloading(r)
    BY <1>5 DEF ToldByInheritance
  <2>2. pc[r] # "bind_listen_sock"
    BY <2>1 DEF MasterKnowsItself
  <2>3. /\ mem[r].old_master_process \in 1 .. r - 1
        /\ pc[mem[r].old_master_process] \in RunningPC \cup DonePC
    BY <1>5, <2>1, <2>2 DEF MasterKnowsItself, HandoverPC
  <2>4. mem[r].old_master_process \in Pid \ {c}
    BY <1>3, <2>3, MaxPidAssumption DEF Pid, RunningPC, LoopPC, DonePC
  <2>5. \A o \in Pid \ {c} : Told(o) \/ pc[o] \in DonePC => Told(o)' \/ pc'[o] \in DonePC
    BY <1>4
  <2>6. Told(mem[r].old_master_process) \/ pc[mem[r].old_master_process] \in DonePC
    BY <1>5 DEF ToldByInheritance
  <2> QED
    BY <1>4, <2>1, <2>4, <2>5, <2>6 DEF Told
<1>6. ASSUME NEW r \in Pid, Told(r)',
             pc'[r] \in FormingPC \cup {"bind_listen_sock", "kill_old_master"}
      PROVE  /\ Reloading(r)'
             /\ \/ Told(mem[r].old_master_process)'
                \/ pc'[mem'[r].old_master_process] \in DonePC
  <2>1. CASE r # c
    BY <1>4, <1>5, <1>6, <2>1 DEF Told, Reloading
  <2>2. CASE r = c
    <3>1. childpc \in {"second_fork", "add_work_processes"}
      BY <1>3, <1>6, <2>2 DEF ForkOf, FormingPC
    <3>2. Told(p) /\ Told(p)'
      BY <1>3, <1>6, <2>2, <3>1 DEF Told, ForkOf, SameStops
    <3>3. mem'[c].old_master_process = mem[p].old_master_process
      BY <1>3, <3>1 DEF NewMaster
    <3>4. CASE pc[p] = "server_reload"
      <4>1. mem[p].old_master_process = p
        BY <3>4 DEF MasterKnowsItself, Reloading, RunningPC
      <4> QED
        BY <1>3, <2>2, <3>2, <3>3, <4>1 DEF Reloading, Told
    <3>5. CASE pc[p] = "second_fork"
      <4>1. /\ mem[p].old_master_process \in Pid \ {c}
            /\ \/ Told(mem[p].old_master_process)'
               \/ pc'[mem[p].old_master_process] \in DonePC
        BY <1>3, <1>5, <3>2, <3>5 DEF FormingPC
      <4> QED
        BY <1>3, <1>4, <2>2, <3>3, <4>1 DEF Reloading, Told
    <3> QED
      BY <1>1, <3>1, <3>4, <3>5 DEF ForkOf
  <2> QED
    BY <2>1, <2>2
<1> QED
  BY <1>6 DEF ToldByInheritance

(* A fork takes no worker away; the last fork of the first master is what  *)
(* makes the server started, with the new worker there.                    *)
LEMMA ForkKeepsSomeoneStands ==
    ASSUME TypeOK, PidsAreFresh, MasterKnowsItself, SomeoneStands,
           NEW p \in Pid, NEW next, NEW m, NEW childpc, NEW childm,
           ForkOf(p, next, m, childpc, childm),
           childpc = "worker_setup" => childm = FreshMemory
    PROVE  SomeoneStands'
<1>1. pc[p] \in {"server_reload", "second_fork", "fork_worker"}
  BY DEF ForkOf
<1>2. Fork(p, next, m, childpc, childm) /\ pc[p] # "unused"
  BY <1>1 DEF ForkOf
<1>3. PICK c \in Pid :
      /\ c = next_pid /\ p < c /\ pc[c] = "unused" /\ p # c
      /\ pc'[p] = next /\ mem'[p] = m /\ parent'[p] = parent[p]
      /\ pc'[c] = childpc /\ mem'[c] = childm /\ parent'[c] = p
      /\ \A r \in Pid \ {p, c} :
           pc'[r] = pc[r] /\ mem'[r] = mem[r] /\ parent'[r] = parent[r]
  <2>1. next_pid \in Pid /\ p < next_pid
    BY <1>2, ForkFrame
  <2> QED
    BY <1>2, <2>1, ForkFrame, MaxPidAssumption DEF Pid
<1>4. SUFFICES ASSUME Started'
               PROVE  \E s, w \in Pid : Standing(s)' /\ Serving(w)' /\ parent'[w] = s
  BY DEF SomeoneStands
<1>5. CASE Started
  <2>1. PICK s \in Pid, w \in Pid : Standing(s) /\ Serving(w) /\ parent[w] = s
    BY <1>5 DEF SomeoneStands
  <2>2. w # p /\ w # c /\ s # c
    BY <1>1, <1>3, <2>1 DEF Serving, WorkerPC, Standing, ReadyPC, RunningPC,
                            HandoverPC, LoopPC
  <2>3. Serving(w)' /\ parent'[w] = s
    BY <1>3, <2>1, <2>2 DEF Serving
  <2>4. CASE s # p
    <3>1. Standing(s)'
      BY <1>3, <2>1, <2>2, <2>4 DEF Standing, Told, Reloading
    <3> QED
      BY <2>3, <3>1
  <2>5. CASE s = p
    <3>1. pc[p] = "server_reload" /\ ~Told(p)
      BY <1>1, <2>1, <2>5 DEF Standing, ReadyPC, RunningPC, HandoverPC, LoopPC
    <3>2. next = "mark_reload" /\ ~Told(p)'
      BY <1>3, <3>1 DEF ForkOf, SameStops, Told
    <3>3. Standing(s)'
      BY <1>3, <2>5, <3>2 DEF Standing, ReadyPC, RunningPC
    <3> QED
      BY <2>3, <3>3
  <2> QED
    BY <2>4, <2>5
<1>6. CASE ~Started
  <2>1. 1 \in Pid /\ c # 1
    BY <1>3, MaxPidAssumption DEF Pid
  <2>2. p = 1
    BY <1>3, <1>4, <1>6, <2>1 DEF Started
  <2>3. pc[p] = "fork_worker"
    BY <1>1, <1>6, <2>2 DEF Started
  <2>4. next = "fill_pid_file" /\ childpc = "worker_setup"
    BY <1>3, <1>4, <2>2, <2>3 DEF ForkOf, Started
  <2>5. ~Reloading(p)
    BY <2>2, <2>3 DEF MasterKnowsItself, FormingPC
  <2>6. Standing(p)'
    BY <1>3, <2>4, <2>5 DEF Standing, Reloading, ForkOf
  <2>7. Serving(c)'
    BY <1>3, <2>4 DEF Serving, WorkerPC, FreshMemory
  <2> QED
    BY <1>3, <2>6, <2>7
<1> QED
  BY <1>5, <1>6
LEMMA ServerReloadForks ==
    ASSUME TypeOK, MasterKnowsItself, NEW p \in Pid, ServerReload(p), Contained'
    PROVE  \E m \in Memory :
              /\ ForkOf(p, "mark_reload", m, "second_fork", m)
              /\ NewMaster(p, "second_fork", m)
              /\ m.workers_pid = mem[p].workers_pid
<1>1. PICK count \in Counts :
        Fork(p, "mark_reload", [mem[p] EXCEPT !.count_workflows = count],
             "second_fork", [mem[p] EXCEPT !.count_workflows = count])
  BY DEF ServerReload, Fail, Contained
<1> DEFINE m == [mem[p] EXCEPT !.count_workflows = count]
<1>2. count \in Nat \ {0}
  BY CountsAssumption
<1>3. mem[p] \in Memory
  BY DEF TypeOK
<1>4. m \in Memory
  BY <1>2, <1>3 DEF Memory
<1>5. /\ m.old_master_process = mem[p].old_master_process
      /\ m.new_master_process = mem[p].new_master_process
      /\ m.workers_pid = mem[p].workers_pid
      /\ m.count_workflows = count
      /\ SameStops(m, mem[p])
  BY <1>3 DEF Memory, SameStops
<1> HIDE DEF m
<1>6. pc[p] = "server_reload" /\ pid_file' = pid_file
  BY DEF ServerReload
<1>7. Fork(p, "mark_reload", m, "second_fork", m)
  BY <1>1 DEF m
<1>8. ForkOf(p, "mark_reload", m, "second_fork", m)
  BY <1>5, <1>6, <1>7 DEF ForkOf
<1>9. NewMaster(p, "second_fork", m)
  BY <1>2, <1>5 DEF NewMaster
<1> QED
  BY <1>4, <1>5, <1>8, <1>9

LEMMA SecondForkForks ==
    ASSUME TypeOK, CountIsPositive, NEW p \in Pid, SecondFork(p)
    PROVE  \E childm \in Memory :
              /\ ForkOf(p, "exiting", mem[p], "add_work_processes", childm)
              /\ NewMaster(p, "add_work_processes", childm)
              /\ childm.workers_pid = mem[p].workers_pid
<1> DEFINE childm == [mem[p] EXCEPT !.new_master_process = next_pid]
<1>1. /\ pc[p] = "second_fork" /\ pid_file' = pid_file
      /\ Fork(p, "exiting", mem[p], "add_work_processes", childm)
      /\ mem[p] \in Memory /\ next_pid \in Pid
  BY MaxPidAssumption DEF SecondFork, Fork, TypeOK, Pid
<1>2. childm \in Memory
  BY <1>1 DEF Memory
<1>3. /\ childm.old_master_process = mem[p].old_master_process
      /\ childm.new_master_process = next_pid
      /\ childm.workers_pid = mem[p].workers_pid
      /\ childm.count_workflows = mem[p].count_workflows
      /\ SameStops(childm, mem[p])
  BY <1>1 DEF Memory, SameStops
<1> HIDE DEF childm
<1>4. mem[p].count_workflows > 0
  BY <1>1 DEF CountIsPositive
<1>5. ForkOf(p, "exiting", mem[p], "add_work_processes", childm)
  BY <1>1, <1>3 DEF ForkOf, SameStops
<1>6. NewMaster(p, "add_work_processes", childm)
  BY <1>3, <1>4 DEF NewMaster
<1> QED
  BY <1>2, <1>3, <1>5, <1>6

LEMMA ForkWorkerForks ==
    ASSUME TypeOK, NEW p \in Pid, ForkWorker(p)
    PROVE  \E next, m :
              /\ ForkOf(p, next, m, "worker_setup", FreshMemory)
              /\ NewMaster(p, "worker_setup", FreshMemory)
              /\ m.workers_pid = Append(mem[p].workers_pid, next_pid)
<1> DEFINE pids == Append(mem[p].workers_pid, next_pid)
           m == [mem[p] EXCEPT !.workers_pid = pids]
           next == IF Len(pids) >= mem[p].count_workflows
                   THEN "fill_pid_file" ELSE "fork_worker"
<1>1. /\ pc[p] = "fork_worker" /\ pid_file' = pid_file
      /\ Fork(p, next, m, "worker_setup", FreshMemory)
      /\ mem[p] \in Memory
  BY DEF ForkWorker, TypeOK
<1> HIDE DEF pids
<1>2. /\ m.old_master_process = mem[p].old_master_process
      /\ m.new_master_process = mem[p].new_master_process
      /\ m.workers_pid = pids
      /\ SameStops(m, mem[p])
  BY <1>1 DEF Memory, SameStops
<1>3. next \in {"fork_worker", "fill_pid_file"}
  OBVIOUS
<1> HIDE DEF m, next
<1>4. ForkOf(p, next, m, "worker_setup", FreshMemory)
  BY <1>1, <1>2, <1>3 DEF ForkOf
<1>5. NewMaster(p, "worker_setup", FreshMemory)
  BY DEF NewMaster
<1> QED
  BY <1>2, <1>4, <1>5 DEF pids

(* Every fork keeps the invariant.                                         *)
LEMMA ForksKeepServiceInv ==
    ASSUME TypeOK, TypeOK', ServiceInv, Contained, Contained', Undisturbed' => Undisturbed,
           NEW p \in Pid, ServerReload(p) \/ SecondFork(p) \/ ForkWorker(p)
    PROVE  ServiceInv'
<1>1. PidsAreFresh /\ Structure /\ MasterKnowsItself /\ CountIsPositive
  BY DEF ServiceInv, Structure
<1>2. PICK next, m, childpc, childm :
        /\ ForkOf(p, next, m, childpc, childm)
        /\ NewMaster(p, childpc, childm)
        /\ m.workers_pid = IF childpc = "worker_setup"
                           THEN Append(mem[p].workers_pid, next_pid)
                           ELSE mem[p].workers_pid
        /\ childpc = "worker_setup" => childm = FreshMemory
        /\ childm.workers_pid \in {<< >>, mem[p].workers_pid}
  <2>1. CASE ServerReload(p)
    BY <1>1, <2>1, ServerReloadForks
  <2>2. CASE SecondFork(p)
    BY <1>1, <2>2, SecondForkForks
  <2>3. CASE ForkWorker(p)
    <3>1. FreshMemory.workers_pid = << >>
      BY DEF FreshMemory
    <3> QED
      BY <2>3, <3>1, ForkWorkerForks
  <2> QED
    BY <2>1, <2>2, <2>3
<1>3. Structure'
  BY <1>1, <1>2, ForkKeepsStructure
<1>4. PidsAreFresh'
  <2>1. Fork(p, next, m, childpc, childm) /\ pc[p] # "unused"
    BY <1>2 DEF ForkOf
  <2>2. next_pid \in Pid /\ mem[p].workers_pid \in Seq(Pid)
    BY <1>1, <2>1, ForkFrame DEF TypeOK, Memory
  <2>3. \A i \in 1 .. Len(mem[p].workers_pid) :
          mem[p].workers_pid[i] \in Pid /\ mem[p].workers_pid[i] <= next_pid
    BY <1>1, <2>2, MaxPidAssumption DEF PidsAreFresh, Pid
  <2>4. /\ m.workers_pid \in Seq(Pid)
        /\ \A i \in 1 .. Len(m.workers_pid) : m.workers_pid[i] <= next_pid
    <3>1. CASE m.workers_pid = mem[p].workers_pid
      BY <2>2, <2>3, <3>1
    <3>2. CASE m.workers_pid = Append(mem[p].workers_pid, next_pid)
      <4>1. m.workers_pid \in Seq(Pid)
        BY <2>2, <3>2
      <4>2. ASSUME NEW i \in 1 .. Len(m.workers_pid)
            PROVE  m.workers_pid[i] <= next_pid
        <5>1. CASE i \in 1 .. Len(mem[p].workers_pid)
          BY <2>2, <2>3, <3>2, <5>1
        <5>2. CASE i = Len(mem[p].workers_pid) + 1
          BY <2>2, <3>2, <5>2, MaxPidAssumption DEF Pid
        <5> QED
          BY <2>2, <3>2, <4>2, <5>1, <5>2
      <4> QED
        BY <4>1, <4>2
    <3> QED
      BY <1>2, <3>1, <3>2
  <2>5. /\ childm.workers_pid \in Seq(Pid)
        /\ \A i \in 1 .. Len(childm.workers_pid) : childm.workers_pid[i] <= next_pid
    <3>1. CASE childm.workers_pid = << >>
      BY <3>1
    <3>2. CASE childm.workers_pid = mem[p].workers_pid
      BY <2>2, <2>3, <3>2
    <3> QED
      BY <1>2, <3>1, <3>2
  <2> QED
    BY <1>1, <2>1, <2>4, <2>5, ForkKeepsFresh
<1>5. ASSUME Undisturbed' PROVE ToldByInheritance' /\ SomeoneStands'
  <2>1. ToldByInheritance /\ SomeoneStands
    BY <1>5 DEF ServiceInv
  <2> QED
    BY <1>1, <1>2, <2>1, ForkKeepsInheritance, ForkKeepsSomeoneStands
<1> QED
  BY <1>3, <1>4, <1>5 DEF ServiceInv
---------------------------------------------------------------------------
(* The start of the server, and the induction.                             *)

(* Nothing is alive when the server is started, so that the only claims    *)
(* the invariant makes are about the new process.                          *)
LEMMA StartKeepsServiceInv ==
    ASSUME TypeOK, TypeOK', ServiceInv, Contained, Contained', Undisturbed' => Undisturbed,
           Start
    PROVE  ServiceInv'
<1>1. PidsAreFresh /\ Structure
  BY DEF ServiceInv
<1>2. \A r \in Pid : pc[r] \in {"unused", "exited"}
  BY DEF Start, Alive
<1>3. PICK c \in Pid, count \in Counts :
        /\ c = next_pid /\ next_pid' = c + 1
        /\ Move(c, "bind_listen_sock", [FreshMemory EXCEPT !.old_master_process = c,
                                                           !.count_workflows = count])
        /\ UNCHANGED <<parent, pid_file>>
  <2>1. next_pid \in Pid
    BY MaxPidAssumption DEF Start, TypeOK, Pid
  <2> QED
    BY <2>1 DEF Start, Fail, Contained
<1> DEFINE m == [FreshMemory EXCEPT !.old_master_process = c, !.count_workflows = count]
<1>4. /\ m.old_master_process = c /\ m.count_workflows = count
      /\ m.workers_pid = << >>
      /\ m.process_soft_stop = FALSE /\ m.process_hard_stop = FALSE
  BY DEF FreshMemory
<1> HIDE DEF m
<1>5. /\ pc'[c] = "bind_listen_sock" /\ mem'[c] = m
      /\ \A r \in Pid \ {c} : pc'[r] = pc[r] /\ mem'[r] = mem[r]
  BY <1>3 DEF Move, TypeOK, m
<1>6. pc[c] = "unused"
  BY <1>1, <1>3 DEF PidsAreFresh, Pid
<1>7. PidsAreFresh'
  <2>1. \A r \in Pid : r >= next_pid' => pc'[r] = "unused"
    BY <1>1, <1>3, <1>5 DEF PidsAreFresh, Pid
  <2>2. ASSUME NEW r \in Pid, NEW i \in 1 .. Len(mem'[r].workers_pid)
        PROVE  mem'[r].workers_pid[i] < next_pid'
    <3>1. r # c
      BY <1>4, <1>5, <2>2
    <3>2. mem'[r] = mem[r] /\ mem[r].workers_pid \in Seq(Pid)
      BY <1>5, <3>1 DEF TypeOK, Memory
    <3>3. mem[r].workers_pid[i] \in Pid /\ mem[r].workers_pid[i] < next_pid
      BY <1>1, <2>2, <3>2 DEF PidsAreFresh
    <3> QED
      BY <1>3, <3>2, <3>3 DEF Pid
  <2> QED
    BY <2>1, <2>2 DEF PidsAreFresh
<1>8. Structure'
  <2>1. CountIsPositive'
    <3>1. count > 0
      BY CountsAssumption
    <3> QED
      BY <1>2, <1>4, <1>5, <3>1 DEF CountIsPositive
  <2>2. \A r \in Pid : pc'[r] \in {"unused", "exited"} \/ (r = c /\ pc'[r] = "bind_listen_sock")
    BY <1>2, <1>5
  <2>3. MasterKnowsItself'
    BY <1>4, <1>5, <2>2 DEF MasterKnowsItself, Reloading, RunningPC, HandoverPC, LoopPC,
                            FormingPC
  <2>4. PidFileNamesFormedMaster'
    <3>1. pid_file.master \in {Shell} \cup Pid
      BY DEF TypeOK
    <3>2. pc[c] \notin ReadyPC \cup DonePC
      BY <1>6 DEF ReadyPC, RunningPC, HandoverPC, LoopPC, DonePC
    <3> QED
      BY <1>1, <1>3, <1>5, <3>1, <3>2 DEF Structure, PidFileNamesFormedMaster
  <2>5. WorkersAreChildren' /\ ReadyServes'
    BY <2>2 DEF WorkersAreChildren, ReadyServes, ReadyPC, RunningPC, HandoverPC, LoopPC
  <2> QED
    BY <2>1, <2>3, <2>4, <2>5 DEF Structure
<1>9. ASSUME Undisturbed' PROVE ToldByInheritance' /\ SomeoneStands'
  <2>1. ToldByInheritance'
    BY <1>2, <1>4, <1>5 DEF ToldByInheritance, Told, FormingPC
  <2>2. ~Started'
    <3>1. SomeoneStands
      BY <1>9 DEF ServiceInv
    <3>2. \A w \in Pid : ~Serving(w)
      BY <1>2 DEF Serving, WorkerPC
    <3>3. ~Started
      BY <3>1, <3>2 DEF SomeoneStands
    <3>4. 1 \in Pid
      BY MaxPidAssumption DEF Pid
    <3> QED
      BY <1>5, <3>3, <3>4 DEF Started
  <2> QED
    BY <2>1, <2>2 DEF SomeoneStands
<1> QED
  BY <1>7, <1>8, <1>9 DEF ServiceInv

LEMMA QuietKeepsServiceInv ==
    ASSUME TypeOK, TypeOK', ServiceInv, Contained, Undisturbed' => Undisturbed,
           NEW p \in {Shell} \cup Pid, Quiet(p),
           Undisturbed' => KeepsRequests /\ KeepsStanding
    PROVE  ServiceInv'
<1>1. PidsAreFresh /\ Structure /\ MasterKnowsItself
  BY DEF ServiceInv, Structure
<1>2. PidsAreFresh' /\ Structure'
  BY <1>1, QuietKeepsFresh, QuietKeepsStructure
<1>3. ASSUME Undisturbed' PROVE ToldByInheritance' /\ SomeoneStands'
  BY <1>1, <1>3, QuietKeepsInheritance, QuietKeepsSomeoneStands DEF ServiceInv
<1> QED
  BY <1>2, <1>3 DEF ServiceInv

LEMMA MasterKeepsServiceInv ==
    ASSUME TypeOK, TypeOK', ServiceInv, Contained, Contained', Undisturbed' => Undisturbed,
           NEW p \in Pid, Master(p)
    PROVE  ServiceInv'
<1>1. /\ CountIsPositive /\ MasterKnowsItself /\ WorkersAreChildren /\ ReadyServes
      /\ PidsAreFresh /\ Structure
  BY DEF ServiceInv, Structure
<1>2. CASE ServerReload(p) \/ SecondFork(p) \/ ForkWorker(p)
  BY <1>2, ForksKeepServiceInv
<1>3. CASE KillOldMaster(p)
  <2>1. Quiet(p) /\ KeepsRequests
    BY <1>1, <1>3, KillOldMasterQuiet
  <2>2. PidsAreFresh' /\ Structure'
    BY <1>1, <2>1, QuietKeepsFresh, QuietKeepsStructure
  <2>3. ASSUME Undisturbed' PROVE ToldByInheritance' /\ SomeoneStands'
    <3>1. ToldByInheritance /\ SomeoneStands
      BY <2>3 DEF ServiceInv
    <3> QED
      BY <1>1, <1>3, <2>1, <3>1, QuietKeepsInheritance, KillOldMasterHandsOver
  <2> QED
    BY <2>2, <2>3 DEF ServiceInv
<1>4. CASE FillPidFile(p)
  <2>1. Undisturbed => ToldByInheritance
    BY DEF ServiceInv
  <2> QED
    BY <1>1, <1>4, <2>1, FillPidFileQuiet, QuietKeepsServiceInv
<1>5. CASE ~(\/ ServerReload(p) \/ SecondFork(p) \/ ForkWorker(p)
             \/ KillOldMaster(p) \/ FillPidFile(p))
  <2>1. Quiet(p) /\ KeepsRequests /\ KeepsStanding
    BY <1>1, <1>5, BindListenSockQuiet, AddWorkProcessesQuiet, ProcessSetupSignalsQuiet,
       LoopQuiet, MarkReloadQuiet, WaitOldMasterQuiet, FinishReloadQuiet, StopKillQuiet,
       StopWaitQuiet, StopEndQuiet
    DEF Master
  <2> QED
    BY <2>1, QuietKeepsServiceInv
<1> QED
  BY <1>2, <1>3, <1>4, <1>5

LEMMA OperatorKeepsServiceInv ==
    ASSUME TypeOK, TypeOK', ServiceInv, Contained, Contained', Undisturbed' => Undisturbed,
           Operator
    PROVE  ServiceInv'
<1>1. PidFileNamesFormedMaster
  BY DEF ServiceInv, Structure
<1>2. CASE Start
  BY <1>2, StartKeepsServiceInv
<1>3. CASE StopSoft \/ StopHard
  <2>1. PICK command \in StopCommands, sig \in {"SIGHUP", "SIGINT"} : SignalMaster(command, sig)
    BY <1>3 DEF StopSoft, StopHard, StopCommands
  <2>2. Quiet(Shell)
    BY <1>1, <2>1, SignalMasterQuiet
  <2>3. ~Undisturbed'
    BY <2>1 DEF SignalMaster, Issue, Undisturbed
  <2> QED
    BY <2>2, <2>3, QuietKeepsServiceInv
<1>4. CASE ReloadSoft \/ ReloadHard
  <2>1. PICK command \in Commands, sig \in {"SIGPIPE", "SIGALRM"} : SignalMaster(command, sig)
    BY <1>4 DEF ReloadSoft, ReloadHard, SignalMaster, Issue
  <2>2. Quiet(Shell) /\ KeepsRequests /\ KeepsStanding
    BY <1>1, <2>1, SignalMasterQuiet
  <2> QED
    BY <2>2, QuietKeepsServiceInv
<1> QED
  BY <1>2, <1>3, <1>4 DEF Operator

(* What happened, happened: the histories only grow.                       *)
LEMMA HistoriesGrow ==
    ASSUME TypeOK, [Next]_vars
    PROVE  faults \subseteq faults' /\ issued \subseteq issued'
<1>1. CASE Operator
  BY <1>1 DEF Operator, Start, StopSoft, StopHard, ReloadSoft, ReloadHard, SignalMaster,
              Issue, Fail
<1>2. ASSUME NEW p \in Pid, Master(p)
      PROVE  faults \subseteq faults' /\ issued \subseteq issued'
  <2>1. CASE BindListenSock(p) \/ AddWorkProcesses(p) \/ ForkWorker(p) \/ FillPidFile(p)
             \/ ProcessSetupSignals(p)
    BY <2>1 DEF BindListenSock, AddWorkProcesses, ForkWorker, FillPidFile,
                ProcessSetupSignals, Fail, operator
  <2>2. CASE TestSoftStop(p) \/ TestHardStop(p) \/ TestSoftReload(p) \/ TestHardReload(p)
    BY <2>2 DEF TestSoftStop, TestHardStop, TestSoftReload, TestHardReload, TestStop,
                TestReload, operator
  <2>3. CASE ServerReload(p) \/ MarkReload(p) \/ SecondFork(p)
    BY <2>3 DEF ServerReload, MarkReload, SecondFork, Fail, operator
  <2>4. CASE KillOldMaster(p) \/ WaitOldMaster(p) \/ FinishReload(p)
    BY <2>4 DEF KillOldMaster, WaitOldMaster, FinishReload, Fail, operator
  <2>5. CASE StopKill(p) \/ StopWait(p) \/ StopEnd(p)
    BY <2>5 DEF StopKill, StopWait, StopEnd, operator
  <2> QED
    BY <1>2, <2>1, <2>2, <2>3, <2>4, <2>5 DEF Master
<1>3. ASSUME NEW p \in Pid, Failure(p) \/ Worker(p) \/ ProcessExit(p) \/ Traffic(p)
      PROVE  faults \subseteq faults' /\ issued \subseteq issued'
  BY <1>3 DEF Failure, ForkWorkerFails, ServerReloadFails, SecondForkFails, Worker,
              WorkerSetup, WorkerTest, WorkerBlocks, ProcessExit, Traffic, Fail, operator
<1>4. CASE UNCHANGED vars
  BY <1>4 DEF vars
<1> QED
  BY <1>1, <1>2, <1>3, <1>4 DEF Next

LEMMA NextKeepsServiceInv == TypeOK /\ TypeOK' /\ ServiceInv /\ [Next]_vars => ServiceInv'
<1> SUFFICES ASSUME TypeOK, TypeOK', ServiceInv, [Next]_vars PROVE ServiceInv'
  OBVIOUS
<1>1. (Contained' => Contained) /\ (Undisturbed' => Undisturbed)
  BY HistoriesGrow DEF Contained, Undisturbed
<1>2. CASE ~Contained'
  BY <1>2 DEF ServiceInv, Undisturbed
<1>3. CASE Contained' /\ Operator
  BY <1>1, <1>3, OperatorKeepsServiceInv
<1>4. ASSUME NEW p \in Pid, Contained',
             Master(p) \/ Failure(p) \/ Worker(p) \/ ProcessExit(p) \/ Traffic(p)
      PROVE  ServiceInv'
  <2>1. CASE Master(p)
    BY <1>1, <1>4, <2>1, MasterKeepsServiceInv
  <2>2. CASE ~Master(p)
    <3>1. MasterKnowsItself
      BY <1>1, <1>4 DEF ServiceInv, Structure
    <3>2. Quiet(p) /\ KeepsRequests /\ KeepsStanding
      BY <1>4, <2>2, <3>1, FailureQuiet, WorkerQuiet, ProcessExitQuiet
    <3> QED
      BY <1>1, <1>4, <3>2, QuietKeepsServiceInv
  <2> QED
    BY <2>1, <2>2
<1>5. CASE UNCHANGED vars
  BY <1>5 DEF vars, ServiceInv, Contained, Undisturbed, PidsAreFresh, Structure,
     CountIsPositive, MasterKnowsItself, Reloading, PidFileNamesFormedMaster,
     WorkersAreChildren, ReadyServes, Serving, ToldByInheritance, Told, SomeoneStands,
     Started, Standing
<1> QED
  BY <1>2, <1>3, <1>4, <1>5 DEF Next

LEMMA InitServiceInv == Init => ServiceInv
<1> SUFFICES ASSUME Init PROVE ServiceInv
  OBVIOUS
<1>1. \A p \in Pid : pc[p] = "unused" /\ mem[p].workers_pid = << >>
  BY DEF Init, FreshMemory
<1>2. PidsAreFresh
  BY <1>1 DEF PidsAreFresh
<1>3. Structure
  BY <1>1 DEF Init, NoFile, Structure, CountIsPositive, MasterKnowsItself,
     PidFileNamesFormedMaster, WorkersAreChildren, ReadyServes, ReadyPC, RunningPC,
     HandoverPC, LoopPC, FormingPC
<1>4. ToldByInheritance
  BY <1>1 DEF ToldByInheritance, FormingPC
<1>5. SomeoneStands
  <2>1. 1 \in Pid
    BY MaxPidAssumption DEF Pid
  <2> QED
    BY <1>1, <2>1 DEF SomeoneStands, Started
<1> QED
  BY <1>2, <1>3, <1>4, <1>5 DEF ServiceInv

(* The inductive invariant of the master's life cycle.                     *)
THEOREM ServiceCorrect == Spec => []ServiceInv
<1>1. Init => ServiceInv
  BY InitServiceInv
<1>2. TypeOK /\ TypeOK' /\ ServiceInv /\ [Next]_vars => ServiceInv'
  BY NextKeepsServiceInv
<1> QED
  BY <1>1, <1>2, TypeCorrect, PTL DEF Spec

(* server_stop never signals a process that is not a worker of the master  *)
(* it stops, as long as only the configuration or the pid file fail.       *)
THEOREM StopsOnlyOwnWorkers == Spec => []SignalsOwnWorkers
<1>1. ServiceInv => SignalsOwnWorkers
  BY DEF ServiceInv, Structure, WorkersAreChildren, SignalsOwnWorkers, OnlyOwnWorkers
<1> QED
  BY <1>1, ServiceCorrect, PTL

(* A started server that nobody asked to stop always has a worker that     *)
(* serves, whatever reloads are asked for and however they overlap.        *)
THEOREM ServiceNeverGaps == Spec => []NoServiceGap
<1>1. ServiceInv => NoServiceGap
  BY DEF ServiceInv, SomeoneStands, NoServiceGap
<1> QED
  BY <1>1, ServiceCorrect, PTL
---------------------------------------------------------------------------
(* What the pid file says, whatever fails.  The inductive invariant is     *)
(* small: a process identifier not yet given out has no process, and the   *)
(* process that the pid file names has had its workers.  A step takes its  *)
(* own process from one location to another, ends a process with a signal, *)
(* or forks; none of these takes a formed master back.                     *)

FormedPC == ReadyPC \cup DonePC

NamesFresh == \A p \in Pid : p >= next_pid => pc[p] = "unused"

NamingInv == NamesFresh /\ PidFileNamesFormedMaster

(* What every step leaves as it is: a formed master stays one, or ends; an *)
(* identifier not given out stays so; and who writes the pid file is       *)
(* formed and names itself.                                                *)
StaysFormed == \A r \in Pid : pc[r] \in FormedPC => pc'[r] \in FormedPC

WritesOwnName ==
    \/ pid_file'.master = pid_file.master
    \/ pid_file'.master = Shell
    \/ pid_file'.master \in Pid /\ pc'[pid_file'.master] \in ReadyPC

KeepsNames == NamesFresh' /\ StaysFormed /\ WritesOwnName

LEMMA KeepsNamesKeepsNaming ==
    ASSUME TypeOK, NamingInv, KeepsNames
    PROVE  NamingInv'
<1>1. pid_file.master \in {Shell} \cup Pid
  BY DEF TypeOK
<1>2. PidFileNamesFormedMaster'
  BY <1>1 DEF NamingInv, KeepsNames, StaysFormed, WritesOwnName, FormedPC,
              PidFileNamesFormedMaster
<1> QED
  BY <1>2 DEF NamingInv, KeepsNames

(* A step of one process to a location of its own.                         *)
LEMMA MoveKeepsNames ==
    ASSUME TypeOK, NamingInv, NEW p \in Pid, NEW next, NEW m, Move(p, next, m),
           next_pid' = next_pid, pc[p] # "unused",
           pc[p] \in FormedPC => next \in FormedPC, WritesOwnName
    PROVE  KeepsNames
BY DEF TypeOK, NamingInv, NamesFresh, Move, KeepsNames, StaysFormed

LEMMA SignalKeepsNames ==
    ASSUME TypeOK, NamingInv, NEW p \in {Shell} \cup Pid, NEW next, NEW m, NEW q, NEW sig,
           Signal(p, next, m, q, sig), next_pid' = next_pid,
           p \in Pid => pc[p] # "unused",
           p \in Pid /\ pc[p] \in FormedPC => next \in FormedPC, WritesOwnName
    PROVE  KeepsNames
<1>1. \A r \in Pid \ {p} : \/ pc'[r] = pc[r]
                           \/ Alive(r) /\ pc'[r] = "exiting"
                           \/ pc[r] = "epoll_wait" /\ pc'[r] = "worker_test"
  BY SignalFrame
<1>2. p \in Pid => pc'[p] = next
  BY DEF Signal
<1>3. NamesFresh'
  BY <1>1, <1>2 DEF NamingInv, NamesFresh, Alive
<1>4. StaysFormed
  BY <1>1, <1>2 DEF StaysFormed, FormedPC, ReadyPC, RunningPC, HandoverPC, LoopPC, DonePC
<1> QED
  BY <1>3, <1>4 DEF KeepsNames

LEMMA ForkKeepsNames ==
    ASSUME TypeOK, NamingInv, NEW p \in Pid, NEW next, NEW m, NEW childpc, NEW childm,
           Fork(p, next, m, childpc, childm), pc[p] # "unused",
           pc[p] \in FormedPC => next \in FormedPC, pid_file' = pid_file
    PROVE  KeepsNames
<1>1. next_pid \in Pid /\ pc[next_pid] = "unused"
  BY NextPidType DEF Fork, NamingInv, NamesFresh, TypeOK
<1>2. \A r \in Pid : pc'[r] = IF r = next_pid THEN childpc
                              ELSE IF r = p THEN next ELSE pc[r]
  BY <1>1 DEF Fork, TypeOK
<1>3. next_pid \in Int /\ \A r \in Pid : r \in Int
  BY DEF TypeOK, Pid
<1>4. \A r \in Pid : r >= next_pid' => r >= next_pid /\ r # next_pid
  BY <1>3 DEF Fork
<1>5. NamesFresh'
  BY <1>2, <1>4 DEF NamingInv, NamesFresh
<1>6. StaysFormed
  BY <1>1, <1>2 DEF StaysFormed, FormedPC, ReadyPC, RunningPC, HandoverPC, LoopPC, DonePC
<1> QED
  BY <1>5, <1>6 DEF KeepsNames, WritesOwnName

LEMMA GiveUpKeepsNames ==
    ASSUME TypeOK, NamingInv, NEW p \in Pid, GiveUp(p),
           next_pid' = next_pid, pc[p] # "unused", pid_file' = pid_file
    PROVE  KeepsNames
<1>1. \E next \in {"stop_kill", "exiting"} : \E m : Move(p, next, m)
  BY DEF GiveUp
<1>2. \A next \in {"stop_kill", "exiting"} : next \in FormedPC
  BY DEF FormedPC, DonePC
<1>3. WritesOwnName
  BY DEF WritesOwnName
<1> QED
  BY <1>1, <1>2, <1>3, MoveKeepsNames

LEMMA MasterKeepsNames ==
    ASSUME TypeOK, NamingInv, NEW p \in Pid, Master(p)
    PROVE  KeepsNames
<1> USE DEF FormedPC, ReadyPC, RunningPC, HandoverPC, LoopPC, DonePC
<1>0. pid_file' = pid_file => WritesOwnName
  BY DEF WritesOwnName
<1>1. CASE BindListenSock(p) \/ AddWorkProcesses(p)
  <2>1. /\ pc[p] \in {"bind_listen_sock", "add_work_processes"}
        /\ next_pid' = next_pid /\ pid_file' = pid_file
    BY <1>1 DEF BindListenSock, AddWorkProcesses
  <2>2. GiveUp(p) \/ \E next, m : Move(p, next, m)
    BY <1>1 DEF BindListenSock, AddWorkProcesses
  <2> QED
    BY <1>0, <2>1, <2>2, GiveUpKeepsNames, MoveKeepsNames
<1>2. CASE ForkWorker(p) \/ ServerReload(p) \/ SecondFork(p)
  <2>1. /\ pc[p] \in {"fork_worker", "server_reload", "second_fork"}
        /\ pid_file' = pid_file
    BY <1>2 DEF ForkWorker, ServerReload, SecondFork
  <2>2. \E next, m, childpc, childm :
            Fork(p, next, m, childpc, childm) /\ (pc[p] \in FormedPC => next \in FormedPC)
    BY <1>2 DEF ForkWorker, ServerReload, SecondFork
  <2> QED
    BY <2>1, <2>2, ForkKeepsNames
<1>3. CASE FillPidFile(p)
  <2>1. pc[p] = "fill_pid_file" /\ next_pid' = next_pid
    BY <1>3 DEF FillPidFile
  <2>2. CASE GiveUp(p) /\ pid_file' = pid_file
    BY <2>1, <2>2, GiveUpKeepsNames
  <2>3. CASE /\ pid_file' = OwnPidFile(p)
             /\ Move(p, IF Reloading(p) THEN "kill_old_master"
                                        ELSE "process_setup_signals", mem[p])
    <3>1. pc'[p] \in ReadyPC /\ pid_file'.master = p
      BY <2>3 DEF OwnPidFile, Move, TypeOK
    <3>2. WritesOwnName
      BY <3>1 DEF WritesOwnName
    <3> QED
      BY <2>1, <2>3, <3>2, MoveKeepsNames
  <2> QED
    BY <1>3, <2>2, <2>3 DEF FillPidFile
<1>4. CASE \/ ProcessSetupSignals(p) \/ MarkReload(p) \/ WaitOldMaster(p)
           \/ TestSoftStop(p) \/ TestHardStop(p) \/ TestSoftReload(p) \/ TestHardReload(p)
  <2>1. \E next, m : Move(p, next, m) /\ next \in FormedPC
    BY <1>4 DEF ProcessSetupSignals, MarkReload, WaitOldMaster, AfterReload, TestSoftStop,
                TestHardStop, TestSoftReload, TestHardReload, TestStop, TestReload
  <2>2. pc[p] # "unused" /\ next_pid' = next_pid /\ pid_file' = pid_file
    BY <1>4 DEF ProcessSetupSignals, MarkReload, WaitOldMaster, TestSoftStop,
                TestHardStop, TestSoftReload, TestHardReload, TestStop, TestReload
  <2> QED
    BY <1>0, <2>1, <2>2, MoveKeepsNames
<1>5. CASE FinishReload(p)
  <2>1. /\ pc[p] = "finish_reload" /\ next_pid' = next_pid
        /\ pid_file' = pid_file \/ pid_file' = OwnPidFile(p)
    BY <1>5 DEF FinishReload
  <2>2. PICK next, m : Move(p, next, m) /\ next \in LoopPC
    BY <1>5 DEF FinishReload, AfterReload
  <2>3. pid_file' = OwnPidFile(p) => WritesOwnName
    BY <2>2 DEF Move, TypeOK, OwnPidFile, WritesOwnName
  <2> QED
    BY <1>0, <2>1, <2>2, <2>3, MoveKeepsNames
<1>6. CASE KillOldMaster(p)
  <2>1. /\ pc[p] = "kill_old_master" /\ next_pid' = next_pid /\ pid_file' = pid_file
        /\ \E m, q, sig : Signal(p, "wait_old_master", m, q, sig)
    BY <1>6 DEF KillOldMaster
  <2> QED
    BY <1>0, <2>1, SignalKeepsNames
<1>7. CASE StopKill(p)
  <2>1. /\ pc[p] = "stop_kill" /\ next_pid' = next_pid /\ pid_file' = pid_file
        /\ \/ \E m, q, sig : Signal(p, "stop_kill", m, q, sig)
           \/ \E m : Move(p, "stop_wait", m)
    BY <1>7 DEF StopKill
  <2> QED
    BY <1>0, <2>1, SignalKeepsNames, MoveKeepsNames
<1>8. CASE StopWait(p)
  <2>1. /\ pc[p] = "stop_wait" /\ next_pid' = next_pid /\ pid_file' = pid_file
        /\ pc' = pc \/ \E m : Move(p, "stop_end", m)
    BY <1>8 DEF StopWait
  <2>2. CASE pc' = pc
    BY <1>0, <2>1, <2>2 DEF KeepsNames, StaysFormed, NamingInv, NamesFresh
  <2> QED
    BY <1>0, <2>1, <2>2, MoveKeepsNames
<1>9. CASE StopEnd(p)
  <2>1. /\ pc[p] = "stop_end" /\ next_pid' = next_pid
        /\ pid_file' = pid_file \/ pid_file' = NoFile
        /\ \/ \E m, q, sig : Signal(p, "exiting", m, q, sig)
           \/ \E m : Move(p, "exiting", m)
    BY <1>9 DEF StopEnd
  <2>2. WritesOwnName
    BY <1>0, <2>1 DEF NoFile, WritesOwnName
  <2> QED
    BY <2>1, <2>2, SignalKeepsNames, MoveKeepsNames
<1> QED
  BY <1>1, <1>2, <1>3, <1>4, <1>5, <1>6, <1>7, <1>8, <1>9 DEF Master

LEMMA OthersKeepNames ==
    ASSUME TypeOK, NamingInv, NEW p \in Pid,
           Failure(p) \/ Worker(p) \/ ProcessExit(p) \/ Traffic(p)
    PROVE  KeepsNames
<1> USE DEF FormedPC, ReadyPC, RunningPC, HandoverPC, LoopPC, DonePC
<1>0. pid_file' = pid_file => WritesOwnName
  BY DEF WritesOwnName
<1>1. CASE Failure(p)
  <2>1. /\ pc[p] \in {"fork_worker", "server_reload", "second_fork"}
        /\ next_pid' = next_pid /\ pid_file' = pid_file
        /\ GiveUp(p) \/ \E m : Move(p, "exiting", m)
    BY <1>1 DEF Failure, ForkWorkerFails, ServerReloadFails, SecondForkFails
  <2> QED
    BY <1>0, <2>1, GiveUpKeepsNames, MoveKeepsNames
<1>2. CASE Worker(p) \/ Traffic(p)
  <2>1. /\ pc[p] \in WorkerPC
        /\ next_pid' = next_pid /\ pid_file' = pid_file
        /\ \E next, m : Move(p, next, m)
    BY <1>2 DEF Worker, WorkerSetup, WorkerTest, WorkerBlocks, Traffic, WorkerPC
  <2>2. pc[p] # "unused" /\ pc[p] \notin FormedPC
    BY <2>1 DEF WorkerPC
  <2> QED
    BY <1>0, <2>1, <2>2, MoveKeepsNames
<1>3. CASE ProcessExit(p)
  <2>1. /\ pc[p] = "exiting" /\ next_pid' = next_pid /\ pid_file' = pid_file
        /\ \E m, q, sig : Signal(p, "exited", m, q, sig)
    BY <1>3 DEF ProcessExit
  <2> QED
    BY <1>0, <2>1, SignalKeepsNames
<1> QED
  BY <1>1, <1>2, <1>3

LEMMA OperatorKeepsNames ==
    ASSUME TypeOK, NamingInv, Operator
    PROVE  KeepsNames
<1>1. CASE Start
  <2>1. /\ next_pid <= MaxPid /\ next_pid' = next_pid + 1 /\ pid_file' = pid_file
        /\ \E m : Move(next_pid, "bind_listen_sock", m)
    BY <1>1 DEF Start
  <2>2. next_pid \in Pid /\ pc[next_pid] = "unused"
    BY <2>1, NextPidType DEF NamingInv, NamesFresh, TypeOK
  <2>3. \A r \in Pid : r # next_pid => pc'[r] = pc[r]
    BY <2>1 DEF Move, TypeOK
  <2>4. next_pid \in Int /\ \A r \in Pid : r \in Int
    BY DEF TypeOK, Pid
  <2>5. \A r \in Pid : r >= next_pid' => r >= next_pid /\ r # next_pid
    BY <2>1, <2>4
  <2>6. NamesFresh'
    BY <2>3, <2>5 DEF NamingInv, NamesFresh
  <2>7. StaysFormed
    BY <2>2, <2>3 DEF StaysFormed, FormedPC, ReadyPC, RunningPC, HandoverPC, LoopPC, DonePC
  <2> QED
    BY <2>1, <2>6, <2>7 DEF KeepsNames, WritesOwnName
<1>2. CASE ~Start
  <2>1. /\ next_pid' = next_pid /\ pid_file' = pid_file
        /\ \E m, q, sig : Signal(Shell, "unused", m, q, sig)
    BY <1>2 DEF Operator, StopSoft, StopHard, ReloadSoft, ReloadHard, SignalMaster
  <2>2. Shell \notin Pid
    BY DEF Shell, Pid
  <2> QED
    BY <2>1, <2>2, SignalKeepsNames DEF WritesOwnName
<1> QED
  BY <1>1, <1>2

LEMMA NextKeepsNaming == TypeOK /\ NamingInv /\ [Next]_vars => NamingInv'
<1> SUFFICES ASSUME TypeOK, NamingInv, [Next]_vars PROVE NamingInv'
  OBVIOUS
<1>1. CASE Next
  BY <1>1, OperatorKeepsNames, MasterKeepsNames, OthersKeepNames, KeepsNamesKeepsNaming
     DEF Next
<1>2. CASE UNCHANGED vars
  BY <1>2 DEF vars, NamingInv, NamesFresh, PidFileNamesFormedMaster
<1> QED
  BY <1>1, <1>2

THEOREM PidFileNamesFormed == Spec => []NamingInv
<1>1. Init => NamingInv
  BY DEF Init, NoFile, NamingInv, NamesFresh, PidFileNamesFormedMaster
<1> QED
  BY <1>1, NextKeepsNaming, TypeCorrect, PTL DEF Spec

(* Whatever fails, the first line of the pid file never leads a command of *)
(* mohican.sh to a worker or to a process that is still being made.        *)
THEOREM PidFileNamesAMaster == Spec => []PidFileNamesMaster
<1>1. NamingInv => PidFileNamesMaster
  BY DEF NamingInv, PidFileNamesFormedMaster, PidFileNamesMaster, ReadyPC, RunningPC,
         HandoverPC, LoopPC, DonePC, WorkerPC
<1> QED
  BY <1>1, PidFileNamesFormed, PTL
=============================================================================
