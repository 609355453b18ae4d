----------------------- MODULE MohicanCommands_proofs -----------------------
(***************************************************************************)
(* Proof that an operator who lets every command settle, on a system where *)
(* nothing fails, finds in the pid file what there is, that a new master   *)
(* waits for the end of the old one, that the pid file moves on, and that  *)
(* the server is one of generations (Service).                             *)
(*                                                                         *)
(* The invariant names the cast of a command: the master p in charge and   *)
(* the process n that is to replace it, each of them possibly Shell, which *)
(* is nobody.  Phase(p, n) says how far the command is; all other          *)
(* processes are bystanders.  Most steps are of one of the cast and leave  *)
(* the bystanders alone; the lemmas Staffed- and UnstaffedStep show this   *)
(* once, and one lemma per action shows which phase it leads to.           *)
(***************************************************************************)
EXTENDS MohicanService_proofs

PatientOperator == MaxCommands <= Waits /\ Faults = {}

StartPC == {"bind_listen_sock", "add_work_processes", "fork_worker", "fill_pid_file",
            "process_setup_signals"}
StopPC == {"stop_kill", "stop_wait", "stop_end"}
AsleepPC == {"worker_test", "worker_call", "epoll_wait"}
StaffedPC == ReadyPC \cup {"fork_worker", "fill_pid_file"}

---------------------------------------------------------------------------
(* What a master was asked for.                                            *)

NotTold(m) == ~m.process_soft_stop /\ ~m.process_hard_stop

ToldBy(m, level) ==
    /\ m.process_soft_stop = (level = "SOFT")
    /\ m.process_hard_stop = (level = "HARD")

NoReload(m) == m.process_soft_reload = 0 /\ m.process_hard_reload = 0

ReloadIs(m, level, value) ==
    /\ m.process_soft_reload = IF level = "SOFT" THEN value ELSE 0
    /\ m.process_hard_reload = IF level = "HARD" THEN value ELSE 0

---------------------------------------------------------------------------
(* The phases of the commands.                                             *)

\* a master past its start, which stands for itself and gets its signals
InCharge(p) == handlers[p] = "master" /\ mem[p].old_master_process = p

\* every listed worker has installed its own handlers
Heard(p) ==
    \A i \in 1 .. Len(mem[p].workers_pid) : handlers[mem[p].workers_pid[i]] = "worker"

Down == pid_file = NoFile

Starting(p) ==
    /\ pc[p] \in StartPC
    /\ mem[p].old_master_process = p
    /\ NotTold(mem[p]) /\ NoReload(mem[p]) /\ ~mem[p].has_old_master_stopped
    /\ pid_file = IF pc[p] = "process_setup_signals" THEN OwnPidFile(p) ELSE NoFile

Idle(p) ==
    /\ pc[p] \in LoopPC /\ InCharge(p) /\ pid_file = OwnPidFile(p)
    /\ NotTold(mem[p]) /\ NoReload(mem[p]) /\ ~mem[p].has_old_master_stopped

ToReload(p) ==
    /\ InCharge(p) /\ Heard(p) /\ pid_file = OwnPidFile(p)
    /\ NotTold(mem[p]) /\ ~mem[p].has_old_master_stopped
    /\ \E level \in Level :
         /\ pc[p] \in LoopPC \/ (pc[p] = "server_reload" /\ mem[p].level = level)
         /\ ReloadIs(mem[p], level, 1)

ToStop(p) ==
    /\ InCharge(p) /\ Heard(p) /\ pid_file = OwnPidFile(p)
    /\ NoReload(mem[p])
    /\ \E level \in Level :
         /\ pc[p] \in LoopPC \/ (pc[p] \in StopPC /\ mem[p].level = level)
         /\ ToldBy(mem[p], level)

\* the old master has forked and goes back to its loop
Reloads(p, level) ==
    \/ pc[p] = "mark_reload" /\ mem[p].level = level /\ ReloadIs(mem[p], level, 1)
    \/ pc[p] \in LoopPC /\ ReloadIs(mem[p], level, 2)

\* a copy of a master that was asked to reload
New(n) ==
    /\ handlers[n] = "master" /\ NotTold(mem[n]) /\ ReloadIs(mem[n], mem[n].level, 1)
    /\ pc[n] # "second_fork" => mem[n].new_master_process = n

Growing(p, n) ==
    /\ InCharge(p) /\ Heard(p) /\ Reloads(p, mem[n].level) /\ NotTold(mem[p])
    /\ New(n) /\ mem[n].old_master_process = p /\ ~mem[n].has_old_master_stopped
    /\ pc[n] \in FormingPC \cup {"kill_old_master"}
    /\ pid_file = IF pc[n] = "kill_old_master" THEN OwnPidFile(n) ELSE OwnPidFile(p)

HandingOver(p, n) ==
    /\ InCharge(p) /\ Heard(p)
    /\ \/ Reloads(p, mem[n].level)
       \/ pc[p] \in StopPC /\ mem[p].level = mem[n].level /\ ReloadIs(mem[p], mem[n].level, 2)
    /\ ToldBy(mem[p], mem[n].level) /\ mem[p].new_master_pid = n
    /\ New(n) /\ mem[n].old_master_process = p /\ ~mem[n].has_old_master_stopped
    /\ pc[n] = "wait_old_master" /\ pid_file = OwnPidFile(n)

Succeeding(n) ==
    /\ New(n) /\ pc[n] \in {"wait_old_master", "finish_reload"}
    /\ pc[n] = "finish_reload" => ~mem[n].has_old_master_stopped
    /\ mem[n].old_master_process \in Pid /\ pc[mem[n].old_master_process] \in GonePC
    /\ pid_file = OwnPidFile(n)

Alone(p) == Starting(p) \/ Idle(p) \/ ToReload(p) \/ ToStop(p)

Both(p, n) == Growing(p, n) \/ HandingOver(p, n)

Phase(p, n) ==
    \/ p = Shell /\ n = Shell /\ Down
    \/ p \in Pid /\ n = Shell /\ Alone(p)
    \/ p \in Pid /\ n \in Pid /\ Both(p, n)
    \/ p = Shell /\ n \in Pid /\ Succeeding(n)

---------------------------------------------------------------------------
(* The processes of a command.                                             *)

\* q has r among the workers it has not signalled
Lists(q, r) ==
    /\ pc[q] \in StaffedPC \cup {"stop_kill"}
    /\ \E i \in 1 .. Len(mem[q].workers_pid) :
          mem[q].workers_pid[i] = r /\ (pc[q] = "stop_kill" => i >= loop_i[q])

\* r is about to end, and its end misleads nobody
Leaves(r, p, n) ==
    /\ pc[r] = "exiting" \/ (pc[r] \in WorkerPC /\ ~Serving(r))
    /\ parent[r] \in Pid => pc[parent[r]] \in DonePC \/ (parent[r] = p /\ n \in Pid)

Bystander(r, p, n) ==
    \/ pc[r] \in {"unused", "exited"}
    \/ Leaves(r, p, n)
    \/ Serving(r) /\ parent[r] \in Pid /\ parent[r] \in {p, n} /\ Lists(parent[r], r)

\* the workers and the parent of one of the cast
Staffed(q) ==
    /\ pc[q] \in StaffedPC =>
         \A i \in 1 .. Len(mem[q].workers_pid) : Serving(mem[q].workers_pid[i])
    /\ pc[q] # "second_fork" /\ parent[q] \in Pid => pc[parent[q]] \in GonePC
    /\ pc[q] = "second_fork" => parent[q] = mem[q].old_master_process

Cast(p, n) ==
    /\ Phase(p, n)
    /\ \A r \in Pid \ {p, n} : Bystander(r, p, n)
    /\ \A q \in {p, n} \cap Pid : Staffed(q)

Known ==
    \A r \in Pid : /\ pc[r] \in AsleepPC => handlers[r] = "worker"
                   /\ pc[r] = "unused" => parent[r] = Shell

CommandInv == Known /\ \E p, n \in {Shell} \cup Pid : Cast(p, n)

---------------------------------------------------------------------------
(* Who is who.                                                             *)

LEMMA ShellIsNobody == Shell \notin Pid /\ \A q \in Pid : q \in Nat
BY DEF Shell, Pid

(* Whoever is not a worker, not done and not unused belongs to the cast.   *)
LEMMA Actors ==
    ASSUME NEW p, NEW n, Cast(p, n), NEW a \in Pid,
           pc[a] \notin WorkerPC \cup GonePC \cup {"unused"}
    PROVE  a \in {p, n}
<1>1. ~Bystander(a, p, n)
  BY DEF Bystander, Leaves, Serving, GonePC
<1> QED
  BY <1>1 DEF Cast

(* Where the two of the cast can be.                                       *)
LEMMA Locations ==
    ASSUME NEW p \in {Shell} \cup Pid, NEW n \in {Shell} \cup Pid, Phase(p, n)
    PROVE  /\ p \in Pid => pc[p] \in StartPC \cup RunningPC \cup StopPC
           /\ n \in Pid => pc[n] \in FormingPC \cup HandoverPC
           /\ n \in Pid /\ pc[n] \in FormingPC \cup {"kill_old_master"} =>
                p \in Pid /\ Growing(p, n)
           /\ p \in Pid /\ n \in Pid => pc[p] \in RunningPC \cup StopPC /\ p # n
<1> USE ShellIsNobody DEF RunningPC, LoopPC, FormingPC, HandoverPC, StartPC, StopPC
<1>1. CASE p = Shell /\ n = Shell /\ Down
  BY <1>1
<1>2. CASE p \in Pid /\ n = Shell /\ Alone(p)
  BY <1>2 DEF Alone, Starting, Idle, ToReload, ToStop
<1>3. CASE p \in Pid /\ n \in Pid /\ Growing(p, n)
  BY <1>3 DEF Growing, Reloads
<1>4. CASE p \in Pid /\ n \in Pid /\ HandingOver(p, n)
  BY <1>4 DEF HandingOver, Reloads
<1>5. CASE p = Shell /\ n \in Pid /\ Succeeding(n)
  BY <1>5 DEF Succeeding
<1> QED
  BY <1>1, <1>2, <1>3, <1>4, <1>5 DEF Phase, Both

---------------------------------------------------------------------------
(* Steps of one of the cast.                                               *)

\* process a takes the step; no worker is told anything
Steps(a) ==
    /\ parent' = parent
    /\ \A r \in Pid \ {a} :
          /\ pc'[r] = pc[r] /\ loop_i'[r] = loop_i[r]
          /\ SameMaster(mem'[r], mem[r]) /\ (Serving(r)' <=> Serving(r))

\* the new cast after a step of a: the same, or the new master takes over, or
\* the old one goes
Recast(p, n, p2, n2, a) ==
    \/ p2 = p /\ n2 = n
    \/ p = Shell /\ n = a /\ p2 = a /\ n2 = Shell
    \/ p = a /\ p2 = Shell /\ n2 = n /\ pc'[a] = "exiting"

LEMMA BystandersStay ==
    ASSUME NEW p \in {Shell} \cup Pid, NEW n \in {Shell} \cup Pid, NEW a \in Pid, a \in {p, n},
           NEW p2, NEW n2, Recast(p, n, p2, n2, a), Steps(a), p # n,
           pc[a] \notin GonePC, pc'[a] \in DonePC \/ pc[a] \notin DonePC,
           \A r : Lists(a, r) => Lists(a, r)' /\ pc'[a] # "exiting",
           NEW r \in Pid, r \notin {p, n}, Bystander(r, p, n)
    PROVE  Bystander(r, p2, n2)'
<1>1. /\ pc'[r] = pc[r] /\ parent'[r] = parent[r] /\ (Serving(r)' <=> Serving(r))
  BY DEF Steps
<1>2. CASE pc[r] \in {"unused", "exited"}
  BY <1>1, <1>2 DEF Bystander
<1>3. CASE Leaves(r, p, n)
  <2>1. pc'[r] = "exiting" \/ (pc'[r] \in WorkerPC /\ ~Serving(r)')
    BY <1>1, <1>3 DEF Leaves
  <2> SUFFICES ASSUME parent[r] \in Pid
               PROVE  pc'[parent[r]] \in DonePC \/ (parent[r] = p2 /\ n2 \in Pid)
    BY <1>1, <2>1 DEF Bystander, Leaves
  <2>2. CASE pc[parent[r]] \in DonePC
    BY <2>2 DEF Steps
  <2>3. CASE parent[r] = p /\ n \in Pid
    BY <2>3, ShellIsNobody DEF Recast, DonePC
  <2> QED
    BY <1>3, <2>2, <2>3 DEF Leaves
<1>4. CASE Serving(r) /\ parent[r] \in Pid /\ parent[r] \in {p, n} /\ Lists(parent[r], r)
  <2>1. Lists(parent[r], r)'
    <3>1. CASE parent[r] = a
      BY <1>1, <1>4, <3>1
    <3>2. CASE parent[r] # a
      BY <1>1, <1>4, <3>2 DEF Steps, Lists, SameMaster
    <3> QED
      BY <3>1, <3>2
  <2>2. parent[r] \in {p2, n2}
    BY <1>4, ShellIsNobody DEF Recast
  <2> QED
    BY <1>1, <1>4, <2>1, <2>2 DEF Bystander
<1> QED
  BY <1>2, <1>3, <1>4 DEF Bystander

(* The one of the cast that does not take the step.                        *)
LEMMA OtherStaffed ==
    ASSUME NEW a \in Pid, pc[a] \notin WorkerPC \cup GonePC, Steps(a), TypeOK,
           NEW q \in Pid, q # a, Staffed(q),
           \A i \in 1 .. Len(mem[q].workers_pid) : mem[q].workers_pid[i] \in Pid
    PROVE  Staffed(q)'
<1>1. /\ pc'[q] = pc[q] /\ parent'[q] = parent[q]
      /\ mem'[q].workers_pid = mem[q].workers_pid
      /\ mem'[q].old_master_process = mem[q].old_master_process
  BY DEF Steps, SameMaster
<1>2. \A w \in Pid : Serving(w) => Serving(w)'
  BY DEF Steps, Serving
<1>3. \A w \in Pid : pc[w] \in GonePC => pc'[w] \in GonePC
  BY DEF Steps
<1> QED
  BY <1>1, <1>2, <1>3 DEF Staffed

LEMMA ListsPids ==
    ASSUME TypeOK, NEW q \in Pid
    PROVE  /\ mem[q].workers_pid \in Seq(Pid) /\ Len(mem[q].workers_pid) \in Nat
           /\ \A i \in 1 .. Len(mem[q].workers_pid) : mem[q].workers_pid[i] \in Pid
<1>1. mem[q].workers_pid \in Seq(Pid)
  BY DEF TypeOK, Memory
<1> QED
  BY <1>1

(* A step that leads from one phase to another, with the workers of its    *)
(* process taken care of.                                                  *)
LEMMA CastSteps ==
    ASSUME TypeOK, NEW p \in {Shell} \cup Pid, NEW n \in {Shell} \cup Pid, Cast(p, n),
           NEW a \in Pid, a \in {p, n}, pc[a] \notin WorkerPC \cup GonePC,
           NEW p2, NEW n2, Recast(p, n, p2, n2, a), Steps(a),
           pc'[a] \in DonePC \/ pc[a] \notin DonePC,
           pc[a] # "second_fork",
           \A r : Lists(a, r) => Lists(a, r)' /\ pc'[a] # "exiting",
           Phase(p2, n2)', Staffed(a)'
    PROVE  Cast(p2, n2)'
<1>1. Phase(p, n)
  BY DEF Cast
<1>2. p # n
  BY <1>1, Locations, ShellIsNobody DEF Phase
<1>3. ASSUME NEW r \in Pid, r \notin {p2, n2}
      PROVE  Bystander(r, p2, n2)'
  <2>1. CASE r \notin {p, n}
    <3>1. Bystander(r, p, n)
      BY <2>1 DEF Cast
    <3>2. pc[a] \notin GonePC
      OBVIOUS
    <3> QED
      BY <1>2, <2>1, <3>1, <3>2, BystandersStay
  <2>2. CASE r \in {p, n}
    <3>1. r = a /\ pc'[a] = "exiting"
      BY <1>3, <2>2, ShellIsNobody DEF Recast
    <3>2. parent[a] \in Pid => pc[parent[a]] \in GonePC
      BY DEF Cast, Staffed
    <3>3. parent[a] \in Pid => pc'[parent[a]] \in DonePC
      BY <3>2 DEF Steps, GonePC, DonePC
    <3>4. parent'[a] = parent[a]
      BY DEF Steps
    <3> QED
      BY <3>1, <3>3, <3>4 DEF Bystander, Leaves
  <2> QED
    BY <2>1, <2>2
<1>4. ASSUME NEW q \in Pid, q \in {p2, n2}
      PROVE  Staffed(q)'
  <2>1. CASE q = a
    BY <2>1
  <2>2. CASE q # a
    <3>1. q \in {p, n}
      BY <1>4, <2>2, ShellIsNobody DEF Recast
    <3>2. Staffed(q)
      BY <3>1 DEF Cast
    <3> QED
      BY <2>2, <3>2, ListsPids, OtherStaffed
  <2> QED
    BY <2>1, <2>2
<1> QED
  BY <1>3, <1>4 DEF Cast

(* A process that keeps its workers, or is about to tell them to stop.     *)
LEMMA StaffedStep ==
    ASSUME TypeOK, NEW p \in {Shell} \cup Pid, NEW n \in {Shell} \cup Pid, Cast(p, n),
           NEW a \in Pid, a \in {p, n}, pc[a] \in StaffedPC,
           NEW p2, NEW n2, Recast(p, n, p2, n2, a), Steps(a),
           pc'[a] \in StaffedPC \/ (pc'[a] = "stop_kill" /\ loop_i'[a] = 1),
           mem'[a].workers_pid = mem[a].workers_pid,
           Phase(p2, n2)'
    PROVE  Cast(p2, n2)'
<1> USE DEF StaffedPC, ReadyPC, RunningPC, LoopPC, HandoverPC
<1>1. pc[a] \notin WorkerPC \cup GonePC \cup DonePC /\ pc[a] # "second_fork"
  BY DEF WorkerPC, GonePC, DonePC
<1>2. Staffed(a)
  BY DEF Cast
<1>3. \A i \in 1 .. Len(mem[a].workers_pid) : Serving(mem[a].workers_pid[i])
  BY <1>2 DEF Staffed
<1>4. \A i \in 1 .. Len(mem[a].workers_pid) : Serving(mem[a].workers_pid[i])'
  <2> SUFFICES ASSUME NEW i \in 1 .. Len(mem[a].workers_pid)
               PROVE  Serving(mem[a].workers_pid[i])'
    OBVIOUS
  <2>1. mem[a].workers_pid[i] \in Pid \ {a}
    BY <1>1, <1>3, ListsPids DEF Serving
  <2> QED
    BY <1>3, <2>1 DEF Steps
<1>5. Staffed(a)'
  <2>1. parent'[a] = parent[a] /\ (parent[a] \in Pid => pc'[parent[a]] \in GonePC)
    BY <1>1, <1>2 DEF Steps, Staffed
  <2>2. pc'[a] # "second_fork"
    OBVIOUS
  <2> QED
    BY <1>4, <2>1, <2>2 DEF Staffed
<1>6. pc'[a] \in StaffedPC \cup {"stop_kill"} /\ pc'[a] # "exiting"
  OBVIOUS
<1>7. ASSUME NEW r, Lists(a, r)
      PROVE  Lists(a, r)'
  <2>1. PICK i \in 1 .. Len(mem[a].workers_pid) : mem[a].workers_pid[i] = r
    BY <1>7 DEF Lists
  <2>2. pc'[a] = "stop_kill" => i >= loop_i'[a]
    OBVIOUS
  <2> QED
    BY <1>6, <2>1, <2>2 DEF Lists
<1> QED
  BY <1>1, <1>5, <1>6, <1>7, CastSteps

(* A process that has no workers yet, or none to look after any more.      *)
LEMMA UnstaffedStep ==
    ASSUME TypeOK, NEW p \in {Shell} \cup Pid, NEW n \in {Shell} \cup Pid, Cast(p, n),
           NEW a \in Pid, a \in {p, n}, pc[a] \notin WorkerPC \cup GonePC,
           pc[a] # "second_fork", pc'[a] # "second_fork",
           NEW p2, NEW n2, Recast(p, n, p2, n2, a), Steps(a),
           pc'[a] \in DonePC \/ pc[a] \notin DonePC,
           \A r : ~Lists(a, r),
           pc'[a] \in StaffedPC => mem'[a].workers_pid = << >>,
           Phase(p2, n2)'
    PROVE  Cast(p2, n2)'
<1>1. Staffed(a)
  BY DEF Cast
<1>2. parent'[a] = parent[a] /\ (parent[a] \in Pid => pc'[parent[a]] \in GonePC)
  BY <1>1 DEF Steps, Staffed
<1>3. Staffed(a)'
  BY <1>2 DEF Staffed
<1> QED
  BY <1>3, CastSteps

LEMMA NoFailure == ASSUME Faults = {} PROVE \A k : ~Fail(k)
BY DEF Fail

LEMMA MoveSteps ==
    ASSUME TypeOK, NEW a \in Pid, NEW next, NEW m, Move(a, next, m), parent' = parent,
           \A r \in Pid \ {a} : loop_i'[r] = loop_i[r]
    PROVE  /\ Steps(a) /\ pc'[a] = next /\ mem'[a] = m
           /\ \A r \in Pid \ {a} : pc'[r] = pc[r] /\ mem'[r] = mem[r]
<1>1. /\ pc'[a] = next /\ mem'[a] = m
      /\ \A r \in Pid \ {a} : pc'[r] = pc[r] /\ mem'[r] = mem[r]
  BY DEF TypeOK, Move
<1>2. \A r \in Pid \ {a} : SameMaster(mem'[r], mem[r]) /\ (Serving(r)' <=> Serving(r))
  BY <1>1 DEF SameMaster, Serving
<1> QED
  BY <1>1, <1>2 DEF Steps

---------------------------------------------------------------------------
(* The first master and the new one until they have their workers.         *)

(* A first master in the making is alone.                                  *)
LEMMA StartsAlone ==
    ASSUME NEW p \in {Shell} \cup Pid, NEW n \in {Shell} \cup Pid, Phase(p, n),
           NEW a \in Pid, a \in {p, n},
           \/ pc[a] \in {"bind_listen_sock", "process_setup_signals"}
           \/ pc[a] \in StartPC /\ ~Reloading(a)
    PROVE  a = p /\ n = Shell /\ Starting(p)
<1> USE DEF StartPC, RunningPC, LoopPC, StopPC, FormingPC, HandoverPC
<1>1. a # n
  BY Locations, ShellIsNobody DEF Growing, Reloading
<1>2. n = Shell /\ Alone(p)
  BY <1>1, Locations, ShellIsNobody DEF Phase
<1> QED
  BY <1>1, <1>2 DEF Alone, Idle, ToReload, ToStop

LEMMA BindListenSockCast ==
    ASSUME TypeOK, Faults = {}, NEW p \in {Shell} \cup Pid, NEW n \in {Shell} \cup Pid,
           Cast(p, n), NEW a \in Pid, BindListenSock(a)
    PROVE  Cast(p, n)'
<1>1. /\ pc[a] = "bind_listen_sock" /\ Move(a, "add_work_processes", mem[a])
      /\ UNCHANGED <<loop_i, parent, pid_file>>
  BY NoFailure DEF BindListenSock
<1>2. a \in {p, n} /\ Phase(p, n)
  BY <1>1, Actors DEF WorkerPC, GonePC, Cast
<1>3. a = p /\ n = Shell /\ Starting(p)
  BY <1>1, <1>2, StartsAlone
<1>4. Steps(a) /\ pc'[a] = "add_work_processes" /\ mem'[a] = mem[a]
  BY <1>1, MoveSteps
<1>5. Starting(p)'
  BY <1>1, <1>3, <1>4 DEF Starting, StartPC
<1>6. Phase(p, n)'
  BY <1>3, <1>5 DEF Phase, Alone
<1>7. Recast(p, n, p, n, a)
  BY DEF Recast
<1> QED
  BY <1>1, <1>2, <1>4, <1>6, <1>7, UnstaffedStep
  DEF WorkerPC, GonePC, DonePC, StaffedPC, ReadyPC, RunningPC, LoopPC, HandoverPC, Lists

LEMMA ProcessSetupSignalsCast ==
    ASSUME TypeOK, Faults = {}, NEW p \in {Shell} \cup Pid, NEW n \in {Shell} \cup Pid,
           Cast(p, n), NEW a \in Pid, ProcessSetupSignals(a)
    PROVE  Cast(p, n)'
<1>1. /\ pc[a] = "process_setup_signals" /\ Move(a, "test_soft_stop", mem[a])
      /\ handlers' = [handlers EXCEPT ![a] = "master"]
      /\ UNCHANGED <<loop_i, parent, pid_file>>
  BY DEF ProcessSetupSignals
<1>2. a \in {p, n} /\ Phase(p, n)
  BY <1>1, Actors DEF WorkerPC, GonePC, Cast
<1>3. a = p /\ n = Shell /\ Starting(p)
  BY <1>1, <1>2, StartsAlone
<1>4. Steps(a) /\ pc'[a] = "test_soft_stop" /\ mem'[a] = mem[a]
  BY <1>1, MoveSteps
<1>5. handlers'[a] = "master"
  BY <1>1 DEF TypeOK
<1>6. Idle(p)'
  BY <1>1, <1>3, <1>4, <1>5 DEF Starting, Idle, InCharge, LoopPC, OwnPidFile
<1>7. Phase(p, n)'
  BY <1>3, <1>6 DEF Phase, Alone
<1>8. Recast(p, n, p, n, a)
  BY DEF Recast
<1> QED
  BY <1>1, <1>2, <1>4, <1>7, <1>8, StaffedStep
  DEF StaffedPC, ReadyPC, RunningPC, LoopPC, HandoverPC

(* A master that has no workers yet: the first one, or one that grows.     *)
LEMMA MakingIsNew ==
    ASSUME NEW p \in {Shell} \cup Pid, NEW n \in {Shell} \cup Pid, Phase(p, n),
           NEW a \in Pid, a \in {p, n},
           pc[a] \in {"add_work_processes", "fork_worker", "fill_pid_file"}
    PROVE  \/ a = p /\ n = Shell /\ Starting(p) /\ ~Reloading(a)
           \/ a = n /\ p \in Pid /\ p # n /\ Growing(p, n) /\ Reloading(a)
<1>1. CASE ~Reloading(a)
  BY <1>1, StartsAlone DEF StartPC
<1>2. CASE Reloading(a)
  <2>1. a = n
    <3>1. ASSUME a = p, a # n PROVE FALSE
      <4>1. pc[p] \notin RunningPC \cup StopPC
        BY <3>1 DEF RunningPC, LoopPC, StopPC
      <4>2. n = Shell /\ Alone(p)
        BY <3>1, <4>1, Locations, ShellIsNobody DEF Phase
      <4>3. mem[p].old_master_process = p
        BY <4>2 DEF Alone, Starting, Idle, ToReload, ToStop, InCharge
      <4> QED
        BY <1>2, <3>1, <4>3 DEF Reloading
    <3> QED
      BY <3>1
  <2>2. p \in Pid /\ Growing(p, n)
    BY <2>1, Locations DEF FormingPC
  <2> QED
    BY <1>2, <2>1, <2>2, Locations
<1> QED
  BY <1>1, <1>2

LEMMA AddWorkProcessesCast ==
    ASSUME TypeOK, Structure, Faults = {}, NEW p \in {Shell} \cup Pid,
           NEW n \in {Shell} \cup Pid, Cast(p, n), NEW a \in Pid, AddWorkProcesses(a)
    PROVE  Cast(p, n)'
<1> DEFINE m == [mem[a] EXCEPT !.workers_pid = << >>]
<1>1. /\ pc[a] = "add_work_processes" /\ Move(a, "fork_worker", m)
      /\ UNCHANGED <<handlers, loop_i, parent, pid_file>>
  BY DEF AddWorkProcesses, Structure, CountIsPositive
<1>2. a \in {p, n} /\ Phase(p, n)
  BY <1>1, Actors DEF WorkerPC, GonePC, Cast
<1>3. mem[a] \in Memory
  BY DEF TypeOK
<1>4. /\ m.workers_pid = << >> /\ m.level = mem[a].level
      /\ NotTold(m) = NotTold(mem[a]) /\ NoReload(m) = NoReload(mem[a])
      /\ \A level, value : ReloadIs(m, level, value) = ReloadIs(mem[a], level, value)
      /\ m.has_old_master_stopped = mem[a].has_old_master_stopped
      /\ m.old_master_process = mem[a].old_master_process
      /\ m.new_master_process = mem[a].new_master_process
  BY <1>3 DEF Memory, NotTold, NoReload, ReloadIs
<1> HIDE DEF m
<1>5. /\ Steps(a) /\ pc'[a] = "fork_worker" /\ mem'[a] = m
      /\ \A r \in Pid \ {a} : pc'[r] = pc[r] /\ mem'[r] = mem[r]
  BY <1>1, MoveSteps
<1>6. ASSUME a = p /\ n = Shell /\ Starting(p)
      PROVE  Phase(p, n)'
  <2>1. Starting(p)'
    BY <1>1, <1>4, <1>5, <1>6 DEF Starting, StartPC
  <2> QED
    BY <1>6, <2>1 DEF Phase, Alone
<1>7. ASSUME a = n /\ p \in Pid /\ p # n /\ Growing(p, n)
      PROVE  Phase(p, n)'
  <2>1. New(n)'
    BY <1>1, <1>4, <1>5, <1>7 DEF Growing, New
  <2>2. /\ pc'[p] = pc[p] /\ mem'[p] = mem[p] /\ pid_file' = pid_file
        /\ handlers' = handlers
    BY <1>1, <1>5, <1>7
  <2>3. InCharge(p)' /\ Heard(p)' /\ Reloads(p, mem[n].level)' /\ NotTold(mem[p])'
    BY <1>4, <1>5, <1>7, <2>2 DEF Growing, InCharge, Heard, Reloads
  <2>4. Growing(p, n)'
    BY <1>1, <1>4, <1>5, <1>7, <2>1, <2>2, <2>3 DEF Growing, OwnPidFile, FormingPC
  <2> QED
    BY <1>7, <2>4 DEF Phase, Both
<1>8. Phase(p, n)'
  BY <1>1, <1>2, <1>6, <1>7, MakingIsNew
<1>9. Recast(p, n, p, n, a)
  BY DEF Recast
<1> QED
  BY <1>1, <1>2, <1>4, <1>5, <1>8, <1>9, UnstaffedStep
  DEF WorkerPC, GonePC, DonePC, StaffedPC, ReadyPC, RunningPC, LoopPC, HandoverPC, Lists

LEMMA FillPidFileCast ==
    ASSUME TypeOK, Faults = {}, NEW p \in {Shell} \cup Pid,
           NEW n \in {Shell} \cup Pid, Cast(p, n), NEW a \in Pid, FillPidFile(a)
    PROVE  Cast(p, n)'
<1>1. /\ pc[a] = "fill_pid_file" /\ pid_file' = OwnPidFile(a)
      /\ Move(a, IF Reloading(a) THEN "kill_old_master" ELSE "process_setup_signals", mem[a])
      /\ UNCHANGED <<handlers, loop_i, parent>>
  BY NoFailure DEF FillPidFile
<1>2. a \in {p, n} /\ Phase(p, n)
  BY <1>1, Actors DEF WorkerPC, GonePC, Cast
<1>3. /\ Steps(a) /\ mem'[a] = mem[a]
      /\ pc'[a] = IF Reloading(a) THEN "kill_old_master" ELSE "process_setup_signals"
      /\ \A r \in Pid \ {a} : pc'[r] = pc[r] /\ mem'[r] = mem[r]
  BY <1>1, MoveSteps
<1>4. ASSUME a = p /\ n = Shell /\ Starting(p) /\ ~Reloading(a)
      PROVE  Phase(p, n)'
  <2>1. Starting(p)'
    BY <1>1, <1>3, <1>4 DEF Starting, StartPC, OwnPidFile
  <2> QED
    BY <1>4, <2>1 DEF Phase, Alone
<1>5. ASSUME a = n /\ p \in Pid /\ p # n /\ Growing(p, n) /\ Reloading(a)
      PROVE  Phase(p, n)'
  <2>1. New(n)'
    BY <1>1, <1>3, <1>5 DEF Growing, New
  <2>2. /\ pc'[p] = pc[p] /\ mem'[p] = mem[p] /\ handlers' = handlers
    BY <1>1, <1>3, <1>5
  <2>3. InCharge(p)' /\ Heard(p)' /\ Reloads(p, mem[n].level)' /\ NotTold(mem[p])'
    BY <1>3, <1>5, <2>2 DEF Growing, InCharge, Heard, Reloads
  <2>4. Growing(p, n)'
    BY <1>1, <1>3, <1>5, <2>1, <2>3 DEF Growing, OwnPidFile
  <2> QED
    BY <1>5, <2>4 DEF Phase, Both
<1>6. Phase(p, n)'
  BY <1>1, <1>2, <1>4, <1>5, MakingIsNew
<1>7. Recast(p, n, p, n, a)
  BY DEF Recast
<1> QED
  BY <1>1, <1>2, <1>3, <1>6, <1>7, StaffedStep
  DEF StaffedPC, ReadyPC, RunningPC, LoopPC, HandoverPC

(* A new master that waits for the old one.                                *)
LEMMA WaitOldMasterCast ==
    ASSUME TypeOK, NEW p \in {Shell} \cup Pid, NEW n \in {Shell} \cup Pid, Cast(p, n),
           NEW a \in Pid, WaitOldMaster(a)
    PROVE  Cast(p, n)'
<1> DEFINE m == [mem[a] EXCEPT !.has_old_master_stopped = FALSE]
<1>1. /\ pc[a] = "wait_old_master" /\ mem[a].has_old_master_stopped
      /\ Move(a, "finish_reload", m)
      /\ UNCHANGED <<handlers, loop_i, parent, pid_file>>
  BY DEF WaitOldMaster
<1>2. a \in {p, n} /\ Phase(p, n)
  BY <1>1, Actors DEF WorkerPC, GonePC, Cast
<1>3. a = n
  BY <1>1, <1>2, Locations DEF StartPC, RunningPC, LoopPC, StopPC
<1>4. p = Shell /\ Succeeding(n)
  BY <1>1, <1>2, <1>3, ShellIsNobody DEF Phase, Both, Growing, HandingOver, FormingPC
<1>5. mem[a] \in Memory
  BY DEF TypeOK
<1>6. /\ m.workers_pid = mem[a].workers_pid /\ m.level = mem[a].level
      /\ NotTold(m) = NotTold(mem[a])
      /\ \A level, value : ReloadIs(m, level, value) = ReloadIs(mem[a], level, value)
      /\ ~m.has_old_master_stopped
      /\ m.old_master_process = mem[a].old_master_process
      /\ m.new_master_process = mem[a].new_master_process
  BY <1>5 DEF Memory, NotTold, ReloadIs
<1> HIDE DEF m
<1>7. /\ Steps(a) /\ pc'[a] = "finish_reload" /\ mem'[a] = m
      /\ \A r \in Pid \ {a} : pc'[r] = pc[r] /\ mem'[r] = mem[r]
  BY <1>1, MoveSteps
<1>8. New(n)'
  BY <1>1, <1>3, <1>4, <1>6, <1>7 DEF Succeeding, New
<1>9. Succeeding(n)'
  BY <1>1, <1>3, <1>4, <1>6, <1>7, <1>8 DEF Succeeding, OwnPidFile, GonePC
<1>a. Phase(p, n)'
  BY <1>3, <1>4, <1>9 DEF Phase
<1>b. Recast(p, n, p, n, a)
  BY DEF Recast
<1> QED
  BY <1>1, <1>2, <1>6, <1>7, <1>a, <1>b, StaffedStep
  DEF StaffedPC, ReadyPC, RunningPC, LoopPC, HandoverPC

(* The new master takes the place of the old one.                          *)
LEMMA FinishReloadCast ==
    ASSUME TypeOK, Faults = {}, NEW p \in {Shell} \cup Pid, NEW n \in {Shell} \cup Pid,
           Cast(p, n), NEW a \in Pid, FinishReload(a)
    PROVE  Cast(n, Shell)'
<1> DEFINE m == [SetReloadFlag(mem[a], 0) EXCEPT
                   !.old_master_process = mem[a].new_master_process,
                   !.new_master_process = 0]
<1>1. /\ pc[a] = "finish_reload" /\ Move(a, AfterReload(mem[a].level), m)
      /\ pid_file' = OwnPidFile(a)
      /\ UNCHANGED <<handlers, loop_i, parent>>
  BY NoFailure DEF FinishReload
<1>2. a \in {p, n} /\ Phase(p, n)
  BY <1>1, Actors DEF WorkerPC, GonePC, Cast
<1>3. a = n
  BY <1>1, <1>2, Locations DEF StartPC, RunningPC, LoopPC, StopPC
<1>4. p = Shell /\ Succeeding(n)
  BY <1>1, <1>2, <1>3, ShellIsNobody DEF Phase, Both, Growing, HandingOver, FormingPC
<1>5. mem[a] \in Memory
  BY DEF TypeOK
<1>6. ReloadIs(mem[a], mem[a].level, 1) /\ NotTold(mem[a]) /\ handlers[a] = "master"
      /\ mem[a].new_master_process = a /\ ~mem[a].has_old_master_stopped
  BY <1>1, <1>3, <1>4 DEF Succeeding, New
<1>7. /\ m.workers_pid = mem[a].workers_pid /\ NotTold(m) /\ NoReload(m)
      /\ ~m.has_old_master_stopped /\ m.old_master_process = a
  BY <1>5, <1>6 DEF Memory, Level, NotTold, NoReload, ReloadIs, SetReloadFlag
<1> HIDE DEF m
<1>8. AfterReload(mem[a].level) \in LoopPC
  BY DEF AfterReload, LoopPC
<1>9. Steps(a) /\ pc'[a] = AfterReload(mem[a].level) /\ mem'[a] = m
  BY <1>1, MoveSteps
<1>a. Idle(n)'
  BY <1>1, <1>3, <1>6, <1>7, <1>8, <1>9 DEF Idle, InCharge, OwnPidFile
<1>b. Phase(n, Shell)'
  BY <1>3, <1>a DEF Phase, Alone
<1>c. Recast(p, n, n, Shell, a)
  BY <1>3, <1>4 DEF Recast
<1> QED
  BY <1>1, <1>2, <1>7, <1>8, <1>9, <1>b, <1>c, StaffedStep
  DEF StaffedPC, ReadyPC, RunningPC, HandoverPC

---------------------------------------------------------------------------
(* The master in charge, in its loop.                                      *)

\* what a master keeps while it goes round its loop
SameOld(m, o) ==
    /\ m.workers_pid = o.workers_pid
    /\ m.old_master_process = o.old_master_process
    /\ m.new_master_pid = o.new_master_pid
    /\ m.has_old_master_stopped = o.has_old_master_stopped
    /\ SameStops(m, o)

SameReloads(m, o) ==
    /\ m.process_soft_reload = o.process_soft_reload
    /\ m.process_hard_reload = o.process_hard_reload

LEMMA SameReads ==
    ASSUME NEW m, NEW o
    PROVE  /\ SameStops(m, o) => /\ NotTold(m) = NotTold(o)
                                 /\ \A level : ToldBy(m, level) = ToldBy(o, level)
           /\ SameReloads(m, o) =>
                /\ NoReload(m) = NoReload(o)
                /\ \A level, value : ReloadIs(m, level, value) = ReloadIs(o, level, value)
BY DEF SameStops, SameReloads, NotTold, ToldBy, NoReload, ReloadIs

LEMMA LevelSame ==
    ASSUME NEW o \in Memory, NEW level
    PROVE  LET m == [o EXCEPT !.level = level] IN
           SameOld(m, o) /\ SameReloads(m, o) /\ m.level = level
BY DEF Memory, SameOld, SameStops, SameReloads

(* What a step of the old master leaves as it is.                          *)
LEMMA OldMasterFrame ==
    ASSUME TypeOK, NEW p \in Pid, NEW next, NEW m, Move(p, next, m),
           SameOld(m, mem[p]), UNCHANGED <<handlers, parent, pid_file>>
    PROVE  /\ InCharge(p) => InCharge(p)'
           /\ Heard(p) => Heard(p)'
           /\ OwnPidFile(p)' = OwnPidFile(p)
           /\ mem'[p] = m /\ pc'[p] = next
           /\ \A n \in Pid \ {p} :
                /\ mem'[n] = mem[n] /\ pc'[n] = pc[n]
                /\ New(n) => New(n)'
                /\ OwnPidFile(n)' = OwnPidFile(n)
<1>1. mem'[p] = m /\ pc'[p] = next
  BY DEF TypeOK, Move
<1>2. \A n \in Pid \ {p} : mem'[n] = mem[n] /\ pc'[n] = pc[n]
  BY DEF TypeOK, Move
<1>3. InCharge(p) => InCharge(p)'
  BY <1>1 DEF InCharge, SameOld
<1>4. (Heard(p) => Heard(p)') /\ OwnPidFile(p)' = OwnPidFile(p)
  BY <1>1 DEF Heard, OwnPidFile, SameOld
<1>5. \A n \in Pid \ {p} : (New(n) => New(n)') /\ OwnPidFile(n)' = OwnPidFile(n)
  BY <1>2 DEF New, OwnPidFile
<1> QED
  BY <1>1, <1>2, <1>3, <1>4, <1>5

(* Whoever is in the loop, or stops, is in charge.                         *)
LEMMA LoopsInCharge ==
    ASSUME NEW p \in {Shell} \cup Pid, NEW n \in {Shell} \cup Pid, Phase(p, n),
           NEW a \in Pid, a \in {p, n}, pc[a] \in RunningPC \cup StopPC
    PROVE  /\ a = p /\ p # n /\ ~Starting(p)
           /\ \/ n = Shell /\ (Idle(p) \/ ToReload(p) \/ ToStop(p))
              \/ n \in Pid /\ Both(p, n)
<1> USE DEF StartPC, RunningPC, LoopPC, StopPC, FormingPC, HandoverPC
<1>1. a # n
  BY Locations
<1>2. a = p /\ p # n /\ ~Starting(p)
  BY <1>1, Locations DEF Starting
<1> QED
  BY <1>2, ShellIsNobody DEF Phase, Alone

(* Round the loop: a flag that is not set leads to the next test.          *)
LEMMA LoopMoveCast ==
    ASSUME TypeOK, NEW p \in {Shell} \cup Pid, NEW n \in {Shell} \cup Pid, Cast(p, n),
           NEW a \in Pid, pc[a] \in LoopPC, NEW next \in LoopPC, Move(a, next, mem[a]),
           UNCHANGED <<handlers, parent, loop_i, pid_file>>
    PROVE  Cast(p, n)'
<1>1. a \in {p, n} /\ Phase(p, n)
  BY Actors DEF LoopPC, WorkerPC, GonePC, Cast
<1>2. /\ a = p /\ p # n
      /\ \/ n = Shell /\ (Idle(p) \/ ToReload(p) \/ ToStop(p))
         \/ n \in Pid /\ Both(p, n)
  BY <1>1, LoopsInCharge DEF RunningPC
<1>3. /\ InCharge(p) => InCharge(p)'
      /\ Heard(p) => Heard(p)'
      /\ OwnPidFile(p)' = OwnPidFile(p)
      /\ mem'[p] = mem[p] /\ pc'[p] = next
      /\ \A r \in Pid \ {p} :
           /\ mem'[r] = mem[r] /\ pc'[r] = pc[r]
           /\ New(r) => New(r)'
           /\ OwnPidFile(r)' = OwnPidFile(r)
  BY <1>2, OldMasterFrame DEF SameOld, SameStops
<1>4. pid_file' = pid_file
  OBVIOUS
<1>5. ASSUME n = Shell, Idle(p) PROVE Idle(p)'
  BY <1>3, <1>4, <1>5 DEF Idle
<1>6. ASSUME n = Shell, ToReload(p) PROVE ToReload(p)'
  BY <1>2, <1>3, <1>4, <1>6 DEF ToReload, LoopPC
<1>7. ASSUME n = Shell, ToStop(p) PROVE ToStop(p)'
  BY <1>2, <1>3, <1>4, <1>7 DEF ToStop, LoopPC, StopPC
<1>8. \A level : Reloads(p, level) => Reloads(p, level)'
  BY <1>2, <1>3 DEF Reloads, LoopPC
<1>9. ASSUME n \in Pid, Growing(p, n) PROVE Growing(p, n)'
  BY <1>2, <1>3, <1>4, <1>8, <1>9 DEF Growing
<1>a. ASSUME n \in Pid, HandingOver(p, n) PROVE HandingOver(p, n)'
  <2>1. Reloads(p, mem[n].level)
    BY <1>2, <1>a DEF HandingOver, LoopPC, StopPC
  <2> QED
    BY <1>2, <1>3, <1>4, <1>8, <1>a, <2>1 DEF HandingOver
<1>b. Phase(p, n)'
  BY <1>2, <1>5, <1>6, <1>7, <1>9, <1>a DEF Phase, Alone, Both
<1>c. Steps(a)
  BY MoveSteps
<1>d. Recast(p, n, p, n, a)
  BY DEF Recast
<1> QED
  BY <1>1, <1>2, <1>3, <1>b, <1>c, <1>d, StaffedStep DEF StaffedPC, ReadyPC, RunningPC

(* A stop flag that is set leads to server_stop with its level.            *)
LEMMA TestStopCast ==
    ASSUME TypeOK, NEW p \in {Shell} \cup Pid, NEW n \in {Shell} \cup Pid, Cast(p, n),
           NEW a \in Pid, NEW here \in LoopPC, NEW flag \in BOOLEAN, NEW level \in Level,
           NEW next \in LoopPC, TestStop(a, here, flag, level, next),
           flag => /\ ~NotTold(mem[a])
                   /\ \A other \in Level : ToldBy(mem[a], other) => other = level
    PROVE  Cast(p, n)'
<1>1. pc[a] = here /\ UNCHANGED <<handlers, parent, pid_file>>
  BY DEF TestStop
<1>2. CASE ~flag
  BY <1>1, <1>2, LoopMoveCast DEF TestStop
<1>3. CASE flag
  <2> DEFINE m == [mem[a] EXCEPT !.level = level]
  <2>1. Move(a, "stop_kill", m) /\ loop_i' = [loop_i EXCEPT ![a] = 1]
    BY <1>3 DEF TestStop
  <2>2. a \in {p, n} /\ Phase(p, n)
    BY <1>1, Actors DEF LoopPC, WorkerPC, GonePC, Cast
  <2>3. /\ a = p /\ p # n
        /\ \/ n = Shell /\ (Idle(p) \/ ToReload(p) \/ ToStop(p))
           \/ n \in Pid /\ Both(p, n)
    BY <1>1, <2>2, LoopsInCharge DEF RunningPC
  <2>4. SameOld(m, mem[a]) /\ SameReloads(m, mem[a]) /\ m.level = level
    BY LevelSame DEF TypeOK
  <2> HIDE DEF m
  <2>5. /\ InCharge(p) => InCharge(p)'
        /\ Heard(p) => Heard(p)'
        /\ OwnPidFile(p)' = OwnPidFile(p)
        /\ mem'[p] = m /\ pc'[p] = "stop_kill"
        /\ \A r \in Pid \ {p} :
             /\ mem'[r] = mem[r] /\ pc'[r] = pc[r]
             /\ New(r) => New(r)'
             /\ OwnPidFile(r)' = OwnPidFile(r)
    BY <1>1, <2>1, <2>3, <2>4, OldMasterFrame
  <2>6. /\ NotTold(m) = NotTold(mem[p]) /\ NoReload(m) = NoReload(mem[p])
        /\ \A other : ToldBy(m, other) = ToldBy(mem[p], other)
        /\ \A other, value : ReloadIs(m, other, value) = ReloadIs(mem[p], other, value)
        /\ m.new_master_pid = mem[p].new_master_pid
    BY <2>3, <2>4, SameReads DEF SameOld
  <2>7. pid_file' = pid_file
    BY <1>1
  <2>8. ASSUME n = Shell PROVE Phase(p, n)'
    <3>1. ToStop(p)
      BY <1>3, <2>3, <2>8, ShellIsNobody DEF Idle, ToReload
    <3>2. ToldBy(mem[p], level)
      BY <1>3, <2>3, <3>1 DEF ToStop
    <3>3. ToStop(p)'
      BY <2>4, <2>5, <2>6, <2>7, <3>1, <3>2 DEF ToStop, StopPC
    <3>4. Phase(p, n)'
      BY <2>3, <2>8, <3>3 DEF Phase, Alone
    <3> QED
      BY <3>4
  <2>9. ASSUME n \in Pid PROVE Phase(p, n)'
    <3>1. HandingOver(p, n)
      BY <1>3, <2>3, <2>9, ShellIsNobody DEF Both, Growing
    <3>2. mem[n].level = level /\ mem'[n] = mem[n]
      BY <1>3, <2>3, <2>5, <2>9, <3>1 DEF HandingOver, TypeOK, Memory
    <3>3. ReloadIs(mem[p], level, 2)
      BY <1>1, <2>3, <3>1, <3>2 DEF HandingOver, Reloads, LoopPC, StopPC
    <3>4. HandingOver(p, n)'
      BY <2>3, <2>4, <2>5, <2>6, <2>7, <2>9, <3>1, <3>2, <3>3 DEF HandingOver, StopPC
    <3> QED
      BY <2>3, <2>9, <3>4 DEF Phase, Both
  <2>a. Phase(p, n)'
    BY <2>8, <2>9
  <2>b. Steps(a) /\ loop_i'[a] = 1
    BY <1>1, <2>1, MoveSteps DEF TypeOK
  <2>c. Recast(p, n, p, n, a)
    BY DEF Recast
  <2>d. pc[a] \in StaffedPC /\ mem'[a].workers_pid = mem[a].workers_pid
    BY <1>1, <2>3, <2>4, <2>5 DEF SameOld, StaffedPC, ReadyPC, RunningPC
  <2> QED
    BY <2>2, <2>3, <2>5, <2>a, <2>b, <2>c, <2>d, StaffedStep
<1> QED
  BY <1>2, <1>3

(* A reload flag that is 1 leads to server_reload with its level.          *)
LEMMA TestReloadCast ==
    ASSUME TypeOK, NEW p \in {Shell} \cup Pid, NEW n \in {Shell} \cup Pid, Cast(p, n),
           NEW a \in Pid, NEW here \in LoopPC, NEW flag, NEW level \in Level,
           NEW next \in LoopPC, TestReload(a, here, flag, level, next),
           flag = 1 => /\ ~NoReload(mem[a])
                       /\ \A other \in Level : /\ ReloadIs(mem[a], other, 1) => other = level
                                               /\ ~ReloadIs(mem[a], other, 2)
    PROVE  Cast(p, n)'
<1>1. pc[a] = here /\ UNCHANGED <<handlers, parent, loop_i, pid_file>>
  BY DEF TestReload
<1>2. CASE flag # 1
  BY <1>1, <1>2, LoopMoveCast DEF TestReload
<1>3. CASE flag = 1
  <2> DEFINE m == [mem[a] EXCEPT !.level = level]
  <2>1. Move(a, "server_reload", m)
    BY <1>3 DEF TestReload
  <2>2. a \in {p, n} /\ Phase(p, n)
    BY <1>1, Actors DEF LoopPC, WorkerPC, GonePC, Cast
  <2>3. /\ a = p /\ p # n
        /\ \/ n = Shell /\ (Idle(p) \/ ToReload(p) \/ ToStop(p))
           \/ n \in Pid /\ Both(p, n)
    BY <1>1, <2>2, LoopsInCharge DEF RunningPC
  <2>4. SameOld(m, mem[a]) /\ SameReloads(m, mem[a]) /\ m.level = level
    BY LevelSame DEF TypeOK
  <2> HIDE DEF m
  <2>5. /\ InCharge(p) => InCharge(p)'
        /\ Heard(p) => Heard(p)'
        /\ OwnPidFile(p)' = OwnPidFile(p)
        /\ mem'[p] = m /\ pc'[p] = "server_reload"
    BY <1>1, <2>1, <2>3, <2>4, OldMasterFrame
  <2>6. /\ NotTold(m) = NotTold(mem[p])
        /\ \A other, value : ReloadIs(m, other, value) = ReloadIs(mem[p], other, value)
        /\ m.has_old_master_stopped = mem[p].has_old_master_stopped
    BY <2>3, <2>4, SameReads DEF SameOld
  <2>7. \A r \in Pid : mem[r].level \in Level
    BY DEF TypeOK, Memory
  <2>8. n = Shell
    BY <1>1, <1>3, <2>3, <2>7, ShellIsNobody
    DEF Both, Growing, HandingOver, Reloads, LoopPC, StopPC
  <2>9. ToReload(p)
    BY <1>3, <2>3, <2>8, ShellIsNobody DEF Idle, ToStop
  <2>a. ReloadIs(mem[p], level, 1)
    BY <1>3, <2>3, <2>9 DEF ToReload
  <2>b. ToReload(p)'
    BY <1>1, <2>4, <2>5, <2>6, <2>9, <2>a DEF ToReload
  <2>c. Phase(p, n)'
    BY <2>3, <2>8, <2>b DEF Phase, Alone
  <2>d. Steps(a)
    BY <1>1, <2>1, MoveSteps
  <2>e. Recast(p, n, p, n, a)
    BY DEF Recast
  <2>f. /\ pc[a] \in StaffedPC /\ pc'[a] \in StaffedPC
        /\ mem'[a].workers_pid = mem[a].workers_pid
    BY <1>1, <2>3, <2>4, <2>5 DEF SameOld, StaffedPC, ReadyPC, RunningPC
  <2> QED
    BY <2>2, <2>c, <2>d, <2>e, <2>f, StaffedStep
<1> QED
  BY <1>2, <1>3

LEMMA LoopCast ==
    ASSUME TypeOK, NEW p \in {Shell} \cup Pid, NEW n \in {Shell} \cup Pid, Cast(p, n),
           NEW a \in Pid,
           TestSoftStop(a) \/ TestHardStop(a) \/ TestSoftReload(a) \/ TestHardReload(a)
    PROVE  Cast(p, n)'
<1>1. /\ {"test_soft_stop", "test_hard_stop", "test_soft_reload", "test_hard_reload"} = LoopPC
      /\ "SOFT" \in Level /\ "HARD" \in Level
  BY DEF LoopPC, Level
<1>2. mem[a].process_soft_stop \in BOOLEAN /\ mem[a].process_hard_stop \in BOOLEAN
  BY DEF TypeOK, Memory
<1>3. CASE TestSoftStop(a)
  <2>1. mem[a].process_soft_stop =>
          /\ ~NotTold(mem[a])
          /\ \A other \in Level : ToldBy(mem[a], other) => other = "SOFT"
    BY DEF NotTold, ToldBy
  <2> QED
    BY <1>1, <1>2, <1>3, <2>1, TestStopCast DEF TestSoftStop
<1>4. CASE TestHardStop(a)
  <2>1. mem[a].process_hard_stop =>
          /\ ~NotTold(mem[a])
          /\ \A other \in Level : ToldBy(mem[a], other) => other = "HARD"
    BY DEF NotTold, ToldBy
  <2> QED
    BY <1>1, <1>2, <1>4, <2>1, TestStopCast DEF TestHardStop
<1>5. CASE TestSoftReload(a)
  <2>1. mem[a].process_soft_reload = 1 =>
          /\ ~NoReload(mem[a])
          /\ \A other \in Level : /\ ReloadIs(mem[a], other, 1) => other = "SOFT"
                                  /\ ~ReloadIs(mem[a], other, 2)
    BY DEF NoReload, ReloadIs, Level
  <2> QED
    BY <1>1, <1>5, <2>1, TestReloadCast DEF TestSoftReload
<1>6. CASE TestHardReload(a)
  <2>1. mem[a].process_hard_reload = 1 =>
          /\ ~NoReload(mem[a])
          /\ \A other \in Level : /\ ReloadIs(mem[a], other, 1) => other = "HARD"
                                  /\ ~ReloadIs(mem[a], other, 2)
    BY DEF NoReload, ReloadIs, Level
  <2> QED
    BY <1>1, <1>6, <2>1, TestReloadCast DEF TestHardReload
<1> QED
  BY <1>3, <1>4, <1>5, <1>6

(* The old master notes that its reload is on.                             *)
LEMMA MarkReloadCast ==
    ASSUME TypeOK, NEW p \in {Shell} \cup Pid, NEW n \in {Shell} \cup Pid, Cast(p, n),
           NEW a \in Pid, MarkReload(a)
    PROVE  Cast(p, n)'
<1> DEFINE m == SetReloadFlag(mem[a], 2)
<1>1. /\ pc[a] = "mark_reload" /\ Move(a, AfterReload(mem[a].level), m)
      /\ UNCHANGED <<handlers, parent, loop_i, pid_file>>
  BY DEF MarkReload
<1>2. a \in {p, n} /\ Phase(p, n)
  BY <1>1, Actors DEF WorkerPC, GonePC, Cast
<1>3. /\ a = p /\ p # n
      /\ \/ n = Shell /\ (Idle(p) \/ ToReload(p) \/ ToStop(p))
         \/ n \in Pid /\ Both(p, n)
  BY <1>1, <1>2, LoopsInCharge DEF RunningPC
<1>4. n \in Pid /\ Both(p, n)
  BY <1>1, <1>3 DEF Idle, ToReload, ToStop, LoopPC, StopPC
<1>5. mem[a] \in Memory /\ mem[n] \in Memory
  BY <1>4 DEF TypeOK
<1>6. mem[p].level = mem[n].level /\ ReloadIs(mem[p], mem[n].level, 1)
  BY <1>1, <1>3, <1>4 DEF Both, Growing, HandingOver, Reloads, LoopPC, StopPC
<1>7. SameOld(m, mem[a]) /\ m.level = mem[a].level /\ ReloadIs(m, mem[n].level, 2)
  BY <1>3, <1>5, <1>6 DEF Memory, Level, SetReloadFlag, SameOld, SameStops, ReloadIs
<1> HIDE DEF m
<1>8. AfterReload(mem[a].level) \in LoopPC
  BY DEF AfterReload, LoopPC
<1>9. /\ InCharge(p) => InCharge(p)'
      /\ Heard(p) => Heard(p)'
      /\ OwnPidFile(p)' = OwnPidFile(p)
      /\ mem'[p] = m /\ pc'[p] = AfterReload(mem[a].level)
      /\ mem'[n] = mem[n] /\ pc'[n] = pc[n]
      /\ New(n) => New(n)'
      /\ OwnPidFile(n)' = OwnPidFile(n)
  BY <1>1, <1>3, <1>4, <1>7, OldMasterFrame
<1>a. /\ NotTold(m) = NotTold(mem[p])
      /\ \A other : ToldBy(m, other) = ToldBy(mem[p], other)
      /\ m.new_master_pid = mem[p].new_master_pid
  BY <1>3, <1>7, SameReads DEF SameOld
<1>b. Reloads(p, mem[n].level)'
  BY <1>7, <1>8, <1>9 DEF Reloads
<1>c. pid_file' = pid_file
  BY <1>1
<1>d. ASSUME Growing(p, n) PROVE Growing(p, n)'
  BY <1>9, <1>a, <1>b, <1>c, <1>d DEF Growing
<1>e. ASSUME HandingOver(p, n) PROVE HandingOver(p, n)'
  BY <1>9, <1>a, <1>b, <1>c, <1>e DEF HandingOver
<1>f. Phase(p, n)'
  BY <1>3, <1>4, <1>d, <1>e DEF Phase, Both
<1>g. Steps(a)
  BY <1>1, MoveSteps
<1>h. Recast(p, n, p, n, a)
  BY DEF Recast
<1>i. /\ pc[a] \in StaffedPC /\ pc'[a] \in StaffedPC
      /\ mem'[a].workers_pid = mem[a].workers_pid
  BY <1>1, <1>3, <1>7, <1>8, <1>9 DEF SameOld, StaffedPC, ReadyPC, RunningPC
<1> QED
  BY <1>2, <1>f, <1>g, <1>h, <1>i, StaffedStep

---------------------------------------------------------------------------
(* The end of the old master: it is told, tells its workers, and reports.  *)

(* What the signals of the operator and of a new master do to the memory   *)
(* of a master.                                                            *)
LEMMA StopSignalled ==
    ASSUME NEW o \in Memory, NEW level \in Level, NEW from \in {Shell} \cup Pid, NotTold(o)
    PROVE  LET m == IF level = "HARD" THEN sigint_handler(o, from)
                                      ELSE sighup_handler(o, from) IN
           /\ ToldBy(m, level) /\ m.new_master_pid = from
           /\ SameReloads(m, o) /\ SameMaster(m, o)
           /\ m.level = o.level /\ m.has_old_master_stopped = o.has_old_master_stopped
BY DEF Memory, Level, NotTold, ToldBy, SameReloads, SameMaster, sigint_handler, sighup_handler

LEMMA KillOldMasterCast ==
    ASSUME TypeOK, NEW p \in {Shell} \cup Pid, NEW n \in {Shell} \cup Pid, Cast(p, n),
           NEW a \in Pid, KillOldMaster(a)
    PROVE  Cast(p, n)'
<1> DEFINE sig == IF mem[a].level = "HARD" THEN "SIGINT" ELSE "SIGHUP"
<1>1. /\ pc[a] = "kill_old_master"
      /\ Signal(a, "wait_old_master", mem[a], mem[a].old_master_process, sig)
      /\ UNCHANGED <<handlers, parent, loop_i, pid_file>>
  BY DEF KillOldMaster
<1>2. a \in {p, n} /\ Phase(p, n)
  BY <1>1, Actors DEF WorkerPC, GonePC, Cast
<1>3. a = n
  BY <1>1, <1>2, Locations DEF StartPC, RunningPC, LoopPC, StopPC
<1>4. p \in Pid /\ p # n /\ Growing(p, n)
  BY <1>1, <1>2, <1>3, Locations
<1>5. mem[p] \in Memory /\ mem[n].level \in Level /\ mem[n].old_master_process = p
  BY <1>3, <1>4 DEF TypeOK, Memory, Growing
<1>6. pc[p] \in LoopPC \cup {"mark_reload"} /\ handlers[p] = "master" /\ Alive(p)
  BY <1>4 DEF Growing, Reloads, InCharge, Alive, LoopPC
<1>7. pc'[p] = pc[p]
  BY <1>1, <1>3, <1>4, <1>5, <1>6 DEF Signal, Received, LoopPC
<1>8. mem'[p] = IF mem[n].level = "HARD" THEN sigint_handler(mem[p], n)
                                         ELSE sighup_handler(mem[p], n)
  BY <1>1, <1>3, <1>4, <1>5, <1>6 DEF Signal, Handled
<1>9. /\ ToldBy(mem'[p], mem[n].level) /\ mem'[p].new_master_pid = n
      /\ SameReloads(mem'[p], mem[p]) /\ SameMaster(mem'[p], mem[p])
      /\ mem'[p].level = mem[p].level
  BY <1>4, <1>5, <1>8, StopSignalled DEF Growing
<1>a. pc'[n] = "wait_old_master" /\ mem'[n] = mem[n]
  BY <1>1, <1>3 DEF Signal
<1>b. New(n)'
  BY <1>1, <1>4, <1>3, <1>a DEF Growing, New
<1>c. InCharge(p)' /\ Heard(p)' /\ Reloads(p, mem[n].level)'
  <2>1. Reloads(p, mem[n].level)'
    BY <1>4, <1>7, <1>9, <1>a, SameReads DEF Growing, Reloads
  <2> QED
    BY <1>1, <1>4, <1>9, <2>1 DEF Growing, InCharge, Heard, SameMaster
<1>d. HandingOver(p, n)'
  BY <1>1, <1>3, <1>4, <1>9, <1>a, <1>b, <1>c DEF Growing, HandingOver, OwnPidFile
<1>e. Phase(p, n)'
  BY <1>3, <1>4, <1>d DEF Phase, Both
<1>f. Steps(a)
  <2>1. ASSUME NEW r \in Pid \ {a}
        PROVE  /\ pc'[r] = pc[r] /\ SameMaster(mem'[r], mem[r])
               /\ (Serving(r)' <=> Serving(r))
    <3>1. CASE r = p
      BY <1>6, <1>7, <1>9, <3>1 DEF Serving, WorkerPC, LoopPC
    <3>2. CASE r # p
      BY <1>1, <1>3, <1>5, <3>2 DEF Signal, SameMaster, Serving
    <3> QED
      BY <3>1, <3>2
  <2> QED
    BY <1>1, <2>1 DEF Steps
<1>g. Recast(p, n, p, n, a)
  BY DEF Recast
<1> QED
  BY <1>1, <1>2, <1>3, <1>a, <1>e, <1>f, <1>g, StaffedStep
  DEF StaffedPC, ReadyPC, RunningPC, LoopPC, HandoverPC

(* Who stops, and what a stopping master and the one that waits for it     *)
(* keep while its workers are told and waited for.                         *)
LEMMA StopsInCharge ==
    ASSUME NEW p \in {Shell} \cup Pid, NEW n \in {Shell} \cup Pid, Phase(p, n),
           NEW a \in Pid, a \in {p, n}, pc[a] \in StopPC
    PROVE  /\ a = p /\ p # n
           /\ \/ n = Shell /\ ToStop(p)
              \/ n \in Pid /\ HandingOver(p, n)
BY LoopsInCharge, ShellIsNobody
DEF Idle, ToReload, Both, Growing, Reloads, LoopPC, StopPC

LEMMA StopsOn ==
    ASSUME NEW p \in {Shell} \cup Pid, NEW n \in {Shell} \cup Pid, Phase(p, n),
           NEW a \in Pid, a \in {p, n}, pc[a] \in StopPC, pc'[a] \in StopPC,
           mem'[a] = mem[a], n \in Pid => pc'[n] = pc[n] /\ mem'[n] = mem[n],
           UNCHANGED <<handlers, pid_file>>
    PROVE  Phase(p, n)'
<1>1. /\ a = p /\ p # n
      /\ \/ n = Shell /\ ToStop(p)
         \/ n \in Pid /\ HandingOver(p, n)
  BY StopsInCharge
<1>2. InCharge(p) => InCharge(p)'
  BY <1>1 DEF InCharge
<1>3. (Heard(p) => Heard(p)') /\ OwnPidFile(p)' = OwnPidFile(p)
  BY <1>1 DEF Heard, OwnPidFile
<1>4. ASSUME n = Shell, ToStop(p) PROVE ToStop(p)'
  BY <1>1, <1>2, <1>3, <1>4 DEF ToStop, StopPC, LoopPC
<1>5. ASSUME n \in Pid, HandingOver(p, n) PROVE HandingOver(p, n)'
  <2>1. New(n)' /\ OwnPidFile(n)' = OwnPidFile(n)
    BY <1>5 DEF HandingOver, New, OwnPidFile
  <2>2. mem[p].level = mem[n].level /\ ReloadIs(mem[p], mem[n].level, 2)
    BY <1>1, <1>5 DEF HandingOver, Reloads, StopPC, LoopPC
  <2>3. pc'[n] = pc[n] /\ mem'[n] = mem[n] /\ pc'[p] \in StopPC /\ mem'[p] = mem[p]
    BY <1>1, <1>5
  <2>4. InCharge(p)' /\ Heard(p)' /\ pid_file' = pid_file
    BY <1>2, <1>3, <1>5 DEF HandingOver
  <2> QED
    BY <1>5, <2>1, <2>2, <2>3, <2>4 DEF HandingOver
<1> QED
  BY <1>1, <1>4, <1>5 DEF Phase, Alone, Both

(* One of server_stop's loops is over.                                     *)
LEMMA LoopIsOverCast ==
    ASSUME TypeOK, NEW p \in {Shell} \cup Pid, NEW n \in {Shell} \cup Pid, Cast(p, n),
           NEW a \in Pid, pc[a] \in StopPC, NEW next \in {"stop_wait", "stop_end"},
           Move(a, next, mem[a]), \A r : ~Lists(a, r),
           UNCHANGED <<handlers, parent, pid_file>>,
           \A r \in Pid \ {a} : loop_i'[r] = loop_i[r]
    PROVE  Cast(p, n)'
<1> USE DEF StopPC
<1>1. a \in {p, n} /\ Phase(p, n)
  BY Actors DEF WorkerPC, GonePC, Cast
<1>2. /\ Steps(a) /\ pc'[a] = next /\ mem'[a] = mem[a]
      /\ \A r \in Pid \ {a} : pc'[r] = pc[r] /\ mem'[r] = mem[r]
  BY MoveSteps
<1>3. a = p /\ p # n
  BY <1>1, StopsInCharge
<1>4. Phase(p, n)'
  BY <1>1, <1>2, <1>3, StopsOn
<1>5. Recast(p, n, p, n, a)
  BY DEF Recast
<1> QED
  BY <1>1, <1>2, <1>4, <1>5, UnstaffedStep
  DEF WorkerPC, GonePC, DonePC, StaffedPC, ReadyPC, RunningPC, LoopPC, HandoverPC

LEMMA StopWaitCast ==
    ASSUME TypeOK, NEW p \in {Shell} \cup Pid, NEW n \in {Shell} \cup Pid, Cast(p, n),
           NEW a \in Pid, StopWait(a)
    PROVE  Cast(p, n)'
<1>1. pc[a] = "stop_wait" /\ UNCHANGED <<handlers, parent, pid_file>>
  BY DEF StopWait
<1>2. \A r : ~Lists(a, r)
  BY <1>1 DEF Lists, StaffedPC, ReadyPC, RunningPC, LoopPC, HandoverPC
<1>3. CASE loop_i[a] > Len(mem[a].workers_pid)
  <2>1. Move(a, "stop_end", mem[a]) /\ loop_i' = loop_i
    BY <1>3, ListsPids DEF StopWait, TypeOK
  <2> QED
    BY <1>1, <1>2, <2>1, LoopIsOverCast DEF StopPC
<1>4. CASE loop_i[a] <= Len(mem[a].workers_pid)
  <2>1. pc' = pc /\ mem' = mem /\ loop_i' = [loop_i EXCEPT ![a] = loop_i[a] + 1]
    BY <1>4 DEF StopWait
  <2>2. a \in {p, n} /\ Phase(p, n)
    BY <1>1, Actors DEF WorkerPC, GonePC, Cast
  <2>3. Steps(a)
    BY <1>1, <2>1 DEF Steps, SameMaster, Serving, TypeOK
  <2>4. Phase(p, n)'
    BY <1>1, <2>1, <2>2, StopsOn DEF StopPC
  <2>5. Recast(p, n, p, n, a)
    BY DEF Recast
  <2> QED
    BY <1>1, <1>2, <2>1, <2>2, <2>3, <2>4, <2>5, UnstaffedStep
    DEF WorkerPC, GonePC, DonePC, StaffedPC, ReadyPC, RunningPC, LoopPC, HandoverPC
<1>5. loop_i[a] \in Nat /\ Len(mem[a].workers_pid) \in Nat
  BY ListsPids DEF TypeOK
<1> QED
  BY <1>3, <1>4, <1>5

(* What a stop signal does to a worker that has its handlers, or is gone.  *)
LEMMA WorkerTold ==
    ASSUME TypeOK, NEW w \in Pid, pc[w] \in WorkerPC => handlers[w] = "worker",
           pc[w] \in WorkerPC \cup GonePC, NEW sig \in {"SIGHUP", "SIGINT"},
           NEW a \in Pid, a # w, NEW next, NEW m, Signal(a, next, m, w, sig)
    PROVE  /\ pc[w] = "exited" => pc'[w] = "exited"
           /\ pc[w] = "exiting" => pc'[w] = "exiting"
           /\ pc[w] \in WorkerPC => pc'[w] \in WorkerPC /\ ~Serving(w)'
<1> USE DEF GonePC, WorkerPC
<1>1. /\ pc'[w] = IF Alive(w) THEN Received(w, sig) ELSE pc[w]
      /\ mem'[w] = IF Alive(w) THEN Handled(w, sig, a) ELSE mem[w]
  BY DEF Signal
<1>2. sig # "SIGCHLD"
  OBVIOUS
<1>3. CASE pc[w] \in GonePC
  BY <1>1, <1>3 DEF Alive, Received
<1>4. CASE pc[w] \in WorkerPC
  <2>1. Alive(w) /\ handlers[w] = "worker"
    BY <1>4 DEF Alive
  <2>2. pc'[w] \in WorkerPC
    BY <1>1, <1>4, <2>1 DEF Received
  <2>3. mem[w] \in Memory
    BY DEF TypeOK
  <2>4. mem'[w].is_soft_stop \/ mem'[w].is_hard_stop
    BY <1>1, <1>2, <2>1, <2>3
    DEF Handled, worker_sighup_handler, worker_sigint_handler, Memory
  <2> QED
    BY <1>4, <2>2, <2>4 DEF Serving
<1> QED
  BY <1>3, <1>4

LEMMA StopKillCast ==
    ASSUME TypeOK, Structure, NEW p \in {Shell} \cup Pid, NEW n \in {Shell} \cup Pid,
           Cast(p, n), NEW a \in Pid, StopKill(a)
    PROVE  Cast(p, n)'
<1>1. pc[a] = "stop_kill" /\ UNCHANGED <<handlers, parent, pid_file>>
  BY DEF StopKill
<1>2. a \in {p, n} /\ Phase(p, n)
  BY <1>1, Actors DEF WorkerPC, GonePC, Cast
<1>3. /\ a = p /\ p # n
      /\ \/ n = Shell /\ ToStop(p)
         \/ n \in Pid /\ HandingOver(p, n)
  BY <1>1, <1>2, StopsInCharge DEF StopPC
<1>4. loop_i[a] \in Nat \ {0} /\ Len(mem[a].workers_pid) \in Nat
  BY ListsPids DEF TypeOK
<1>5. CASE loop_i[a] > Len(mem[a].workers_pid)
  <2>1. Move(a, "stop_wait", mem[a]) /\ loop_i' = [loop_i EXCEPT ![a] = 1]
    BY <1>4, <1>5 DEF StopKill
  <2>2. \A r : ~Lists(a, r)
    BY <1>1, <1>4, <1>5 DEF Lists
  <2>3. \A r \in Pid \ {a} : loop_i'[r] = loop_i[r]
    BY <2>1 DEF TypeOK
  <2> QED
    BY <1>1, <2>1, <2>2, <2>3, LoopIsOverCast DEF StopPC
<1>6. CASE loop_i[a] <= Len(mem[a].workers_pid)
  <2>1. PICK w \in Pid, sig \in {"SIGHUP", "SIGINT"} :
           /\ w = mem[a].workers_pid[loop_i[a]]
           /\ Signal(a, "stop_kill", mem[a], w, sig)
           /\ loop_i' = [loop_i EXCEPT ![a] = loop_i[a] + 1]
    <3>1. mem[a].workers_pid[loop_i[a]] \in Pid
      BY <1>4, <1>6, ListsPids
    <3> QED
      BY <1>6, <3>1 DEF StopKill
  <2>2. w \in Pid
    OBVIOUS
  <2>3. /\ parent[w] = a /\ pc[w] \in WorkerPC \cup GonePC
        /\ handlers[w] = "worker"
    <3>1. Heard(a)
      BY <1>3 DEF ToStop, HandingOver
    <3> QED
      BY <1>1, <1>4, <1>6, <2>1, <3>1 DEF Structure, WorkersAreChildren, Heard, GonePC
  <2>4. w # a /\ w # n
    BY <1>1, <1>3, <2>2, <2>3, ShellIsNobody DEF WorkerPC, GonePC, HandingOver
  <2>5. /\ pc[w] = "exited" => pc'[w] = "exited"
        /\ pc[w] = "exiting" => pc'[w] = "exiting"
        /\ pc[w] \in WorkerPC => pc'[w] \in WorkerPC /\ ~Serving(w)'
    BY <2>1, <2>3, <2>4, WorkerTold
  <2>6. \A r \in Pid \ {w} : pc'[r] = pc[r] /\ mem'[r] = mem[r]
    BY <1>1, <2>1 DEF Signal
  <2>7. Phase(p, n)'
    BY <1>1, <1>2, <1>3, <2>4, <2>6, StopsOn DEF StopPC
  <2>8. /\ \A r \in Pid : pc[r] \in DonePC => pc'[r] \in DonePC
        /\ \A r \in Pid : pc[r] \in GonePC => pc'[r] \in GonePC
    BY <2>3, <2>5, <2>6 DEF DonePC, GonePC, WorkerPC
  <2>9. ASSUME NEW r \in Pid \ {p, n} PROVE Bystander(r, p, n)'
    <3>1. CASE r = w
      <4>1. pc'[w] \in {"exited", "exiting"} \/ (pc'[w] \in WorkerPC /\ ~Serving(w)')
        BY <2>3, <2>5 DEF GonePC
      <4>2. pc'[parent'[w]] \in DonePC
        BY <1>1, <2>3, <2>4, <2>6 DEF DonePC
      <4>3. Bystander(w, p, n)'
        BY <4>1, <4>2 DEF Bystander, Leaves
      <4> QED
        BY <3>1, <4>3
    <3>2. CASE r # w
      <4>1. /\ pc'[r] = pc[r] /\ parent'[r] = parent[r] /\ (Serving(r)' <=> Serving(r))
            /\ Bystander(r, p, n)
        BY <1>1, <2>6, <3>2 DEF Serving, Cast
      <4>2. Leaves(r, p, n) => Leaves(r, p, n)'
        BY <2>8, <4>1 DEF Leaves
      <4>3. ASSUME parent[r] \in Pid, parent[r] \in {p, n}, Lists(parent[r], r)
            PROVE  Lists(parent[r], r)'
        <5>1. CASE parent[r] = a
          <6>1. PICK i \in 1 .. Len(mem[a].workers_pid) :
                   mem[a].workers_pid[i] = r /\ i >= loop_i[a]
            BY <1>1, <4>3, <5>1 DEF Lists
          <6>2. i # loop_i[a]
            BY <2>1, <3>2, <6>1
          <6>3. i >= loop_i'[a]
            BY <1>4, <2>1, <6>1, <6>2 DEF TypeOK
          <6>4. mem'[a] = mem[a] /\ pc'[a] = pc[a]
            BY <2>4, <2>6
          <6> QED
            BY <5>1, <6>1, <6>3, <6>4, <1>1 DEF Lists
        <5>2. CASE parent[r] # a
          <6>1. parent[r] = n /\ n \in Pid
            BY <1>3, <4>3, <5>2
          <6>2. pc'[n] = pc[n] /\ mem'[n] = mem[n] /\ loop_i'[n] = loop_i[n]
            BY <1>3, <2>1, <2>4, <2>6, <6>1 DEF TypeOK
          <6>3. Lists(n, r)'
            BY <4>3, <6>1, <6>2 DEF Lists
          <6> QED
            BY <4>1, <6>1, <6>3
        <5> QED
          BY <5>1, <5>2
      <4> QED
        BY <4>1, <4>2, <4>3 DEF Bystander
    <3> QED
      BY <3>1, <3>2
  <2>a. ASSUME NEW q \in {p, n} \cap Pid PROVE Staffed(q)'
    <3>1. Staffed(q) /\ pc'[q] = pc[q] /\ mem'[q] = mem[q] /\ parent'[q] = parent[q]
      BY <1>1, <1>3, <2>4, <2>6 DEF Cast
    <3>2. ASSUME pc[q] \in StaffedPC, NEW i \in 1 .. Len(mem[q].workers_pid)
          PROVE  Serving(mem[q].workers_pid[i])'
      <4>1. q = n
        BY <1>1, <1>3, <3>2 DEF StaffedPC, ReadyPC, RunningPC, LoopPC, HandoverPC
      <4>2. Serving(mem[q].workers_pid[i]) /\ mem[q].workers_pid[i] \in Pid
        BY <3>1, <3>2, ListsPids DEF Staffed
      <4>3. parent[mem[q].workers_pid[i]] = q
        BY <3>2 DEF Structure, WorkersAreChildren, StaffedPC
      <4>4. mem[q].workers_pid[i] # w
        BY <1>3, <2>3, <4>1, <4>3
      <4> QED
        BY <2>6, <3>1, <4>2, <4>4 DEF Serving
    <3>3. pc[q] # "second_fork" /\ parent[q] \in Pid => pc'[parent[q]] \in GonePC
      BY <2>8, <3>1 DEF Staffed
    <3> QED
      BY <3>1, <3>2, <3>3 DEF Staffed
  <2> QED
    BY <2>7, <2>9, <2>a DEF Cast
<1> QED
  BY <1>4, <1>5, <1>6

(* The last step of server_stop: nobody is left in charge, and either the  *)
(* pid file goes or the new master is told.                                *)
LEMMA StopEndCast ==
    ASSUME TypeOK, NEW p \in {Shell} \cup Pid, NEW n \in {Shell} \cup Pid,
           Cast(p, n), NEW a \in Pid, StopEnd(a)
    PROVE  Cast(Shell, n)'
<1>1. /\ pc[a] = "stop_end" /\ UNCHANGED <<handlers, parent, loop_i>>
  BY DEF StopEnd
<1>2. a \in {p, n} /\ Phase(p, n)
  BY <1>1, Actors DEF WorkerPC, GonePC, Cast
<1>3. /\ a = p /\ p # n
      /\ \/ n = Shell /\ ToStop(p)
         \/ n \in Pid /\ HandingOver(p, n)
  BY <1>1, <1>2, StopsInCharge DEF StopPC
<1>4. mem[a] \in Memory /\ mem[a].level \in Level
  BY DEF TypeOK, Memory
<1>5. \A r : ~Lists(a, r)
  BY <1>1 DEF Lists, StaffedPC, ReadyPC, RunningPC, LoopPC, HandoverPC
<1>6. ASSUME n = Shell PROVE Phase(Shell, n)' /\ Steps(a) /\ pc'[a] = "exiting"
  <2>1. ReloadFlag(mem[a]) # 2
    BY <1>3, <1>6, ShellIsNobody DEF ToStop, NoReload, ReloadFlag
  <2>2. pid_file' = NoFile /\ Move(a, "exiting", mem[a])
    BY <2>1 DEF StopEnd
  <2>3. Steps(a) /\ pc'[a] = "exiting"
    BY <1>1, <2>2, MoveSteps
  <2> QED
    BY <1>6, <2>2, <2>3 DEF Phase, Down
<1>7. ASSUME n \in Pid PROVE Phase(Shell, n)' /\ Steps(a) /\ pc'[a] = "exiting"
  <2>1. HandingOver(p, n)
    BY <1>3, <1>7, ShellIsNobody
  <2>2. ReloadFlag(mem[a]) = 2
    BY <1>1, <1>3, <1>4, <2>1 DEF HandingOver, Reloads, ReloadIs, ReloadFlag, LoopPC, Level
  <2>3. Signal(a, "exiting", mem[a], n, "SIGCHLD") /\ pid_file' = pid_file
    BY <1>3, <2>1, <2>2 DEF StopEnd, HandingOver
  <2>4. handlers[n] = "master" /\ pc[n] = "wait_old_master"
    BY <2>1 DEF HandingOver, New
  <2>5. pc'[n] = "wait_old_master" /\ mem'[n] = sigchld_handler(mem[n])
    BY <1>3, <1>7, <2>3, <2>4 DEF Signal, Alive, Received, Handled
  <2>6. /\ pc'[a] = "exiting"
        /\ \A r \in Pid \ {a, n} : pc'[r] = pc[r] /\ mem'[r] = mem[r]
    BY <2>3 DEF Signal
  <2>7. mem[n] \in Memory
    BY <1>7 DEF TypeOK
  <2>8. LET m == sigchld_handler(mem[n]) IN
        /\ SameMaster(m, mem[n]) /\ SameStops(m, mem[n]) /\ SameReloads(m, mem[n])
        /\ m.level = mem[n].level
    BY <2>7 DEF Memory, sigchld_handler, SameMaster, SameStops, SameReloads
  <2>9. New(n)'
    BY <1>1, <2>1, <2>5, <2>8, SameReads DEF HandingOver, New, SameMaster
  <2>a. Succeeding(n)'
    BY <1>3, <2>1, <2>3, <2>5, <2>6, <2>8, <2>9
    DEF HandingOver, Succeeding, OwnPidFile, SameMaster, GonePC
  <2>b. Steps(a)
    <3>1. ASSUME NEW r \in Pid \ {a}
          PROVE  /\ pc'[r] = pc[r] /\ SameMaster(mem'[r], mem[r])
                 /\ (Serving(r)' <=> Serving(r))
      <4>1. CASE r = n
        BY <2>4, <2>5, <2>8, <4>1 DEF Serving, WorkerPC
      <4>2. CASE r # n
        BY <2>6, <4>2 DEF Serving, SameMaster
      <4> QED
        BY <4>1, <4>2
    <3> QED
      BY <1>1, <3>1 DEF Steps
  <2> QED
    BY <1>7, <2>6, <2>a, <2>b DEF Phase
<1>8. Phase(Shell, n)' /\ Steps(a) /\ pc'[a] = "exiting"
  BY <1>6, <1>7
<1>9. Recast(p, n, Shell, n, a)
  BY <1>3, <1>8 DEF Recast
<1> QED
  BY <1>1, <1>2, <1>5, <1>8, <1>9, UnstaffedStep
  DEF WorkerPC, GonePC, DonePC, StaffedPC, ReadyPC, RunningPC, LoopPC, HandoverPC

---------------------------------------------------------------------------
(* Steps of bystanders.                                                    *)

\* what a step of a bystander leaves of the memory of another process
SameCommand(m, o) ==
    /\ SameMaster(m, o) /\ SameStops(m, o) /\ SameReloads(m, o)
    /\ m.level = o.level /\ m.new_master_pid = o.new_master_pid

\* a bystander takes a step: it may tell the old master, or one that stops,
\* that a child has ended
Aside(a, p, n) ==
    /\ parent' = parent /\ pid_file' = pid_file
    /\ \A r \in Pid \ {a} :
          /\ pc'[r] = pc[r] /\ loop_i'[r] = loop_i[r] /\ handlers'[r] = handlers[r]
          /\ SameCommand(mem'[r], mem[r]) /\ (Serving(r)' <=> Serving(r))
          /\ r \in {p, n} =>
                \/ mem'[r].has_old_master_stopped = mem[r].has_old_master_stopped
                \/ r = p /\ (n \in Pid \/ pc[p] \in StopPC)
    /\ handlers[a] = "worker" => handlers'[a] = "worker"
    /\ pc[a] \in DonePC => pc'[a] \in DonePC
    /\ pc[a] \in GonePC => pc'[a] \in GonePC
    /\ Serving(a) => Serving(a)'

LEMMA AsidePhase ==
    ASSUME NEW p \in {Shell} \cup Pid, NEW n \in {Shell} \cup Pid, Phase(p, n), TypeOK,
           NEW a \in Pid, a \notin {p, n}, Aside(a, p, n)
    PROVE  Phase(p, n)'
<1>1. ASSUME NEW r \in {p, n} \cap Pid
      PROVE  /\ pc'[r] = pc[r] /\ handlers'[r] = handlers[r]
             /\ NotTold(mem'[r]) = NotTold(mem[r]) /\ NoReload(mem'[r]) = NoReload(mem[r])
             /\ \A level : ToldBy(mem'[r], level) = ToldBy(mem[r], level)
             /\ \A level, value :
                  ReloadIs(mem'[r], level, value) = ReloadIs(mem[r], level, value)
             /\ mem'[r].level = mem[r].level
             /\ mem'[r].old_master_process = mem[r].old_master_process
             /\ mem'[r].new_master_process = mem[r].new_master_process
             /\ mem'[r].new_master_pid = mem[r].new_master_pid
             /\ mem'[r].workers_pid = mem[r].workers_pid
             /\ \/ mem'[r].has_old_master_stopped = mem[r].has_old_master_stopped
                \/ r = p /\ (n \in Pid \/ pc[p] \in StopPC)
             /\ OwnPidFile(r)' = OwnPidFile(r)
             /\ InCharge(r)' = InCharge(r) /\ (Heard(r) => Heard(r)') /\ (New(r) => New(r)')
  <2>1. /\ pc'[r] = pc[r] /\ handlers'[r] = handlers[r] /\ SameCommand(mem'[r], mem[r])
        /\ \/ mem'[r].has_old_master_stopped = mem[r].has_old_master_stopped
           \/ r = p /\ (n \in Pid \/ pc[p] \in StopPC)
    BY DEF Aside
  <2>2. /\ NotTold(mem'[r]) = NotTold(mem[r]) /\ NoReload(mem'[r]) = NoReload(mem[r])
        /\ \A level : ToldBy(mem'[r], level) = ToldBy(mem[r], level)
        /\ \A level, value : ReloadIs(mem'[r], level, value) = ReloadIs(mem[r], level, value)
    BY <2>1, SameReads DEF SameCommand
  <2>3. /\ mem'[r].level = mem[r].level
        /\ mem'[r].old_master_process = mem[r].old_master_process
        /\ mem'[r].new_master_process = mem[r].new_master_process
        /\ mem'[r].new_master_pid = mem[r].new_master_pid
        /\ mem'[r].workers_pid = mem[r].workers_pid
    BY <2>1 DEF SameCommand, SameMaster
  <2>4. Heard(r) => Heard(r)'
    <3>1. ASSUME NEW w \in Pid, handlers[w] = "worker" PROVE handlers'[w] = "worker"
      BY <3>1 DEF Aside
    <3> QED
      BY <2>3, <3>1, ListsPids DEF Heard
  <2>5. OwnPidFile(r)' = OwnPidFile(r) /\ InCharge(r)' = InCharge(r)
    BY <2>1, <2>3 DEF OwnPidFile, InCharge
  <2>6. New(r) => New(r)'
    BY <2>1, <2>2, <2>3 DEF New
  <2> QED
    BY <2>1, <2>2, <2>3, <2>4, <2>5, <2>6
<1>2. pid_file' = pid_file
  BY DEF Aside
<1>3. CASE p = Shell /\ n = Shell /\ Down
  BY <1>2, <1>3 DEF Phase, Down
<1>4. CASE p \in Pid /\ n = Shell /\ Alone(p)
  <2>1. ASSUME Starting(p) PROVE Starting(p)'
    BY <1>1, <1>2, <1>4, <2>1, ShellIsNobody DEF Starting, StartPC, StopPC
  <2>2. ASSUME Idle(p) PROVE Idle(p)'
    BY <1>1, <1>2, <1>4, <2>2, ShellIsNobody DEF Idle, LoopPC, StopPC
  <2>3. ASSUME ToReload(p) PROVE ToReload(p)'
    BY <1>1, <1>2, <1>4, <2>3, ShellIsNobody DEF ToReload, LoopPC, StopPC
  <2>4. ASSUME ToStop(p) PROVE ToStop(p)'
    BY <1>1, <1>2, <1>4, <2>4 DEF ToStop
  <2> QED
    BY <1>4, <2>1, <2>2, <2>3, <2>4 DEF Phase, Alone
<1>5. CASE p \in Pid /\ n \in Pid /\ Both(p, n)
  <2>1. p # n
    BY <1>5, Locations
  <2>2. \A level : Reloads(p, level) => Reloads(p, level)'
    BY <1>1, <1>5 DEF Reloads
  <2>3. ASSUME Growing(p, n) PROVE Growing(p, n)'
    BY <1>1, <1>2, <1>5, <2>1, <2>2, <2>3 DEF Growing
  <2>4. ASSUME HandingOver(p, n) PROVE HandingOver(p, n)'
    BY <1>1, <1>2, <1>5, <2>1, <2>2, <2>4 DEF HandingOver
  <2> QED
    BY <1>5, <2>3, <2>4 DEF Phase, Both
<1>6. CASE p = Shell /\ n \in Pid /\ Succeeding(n)
  <2>1. /\ New(n)' /\ pc'[n] = pc[n] /\ OwnPidFile(n)' = OwnPidFile(n)
        /\ mem'[n].has_old_master_stopped = mem[n].has_old_master_stopped
        /\ mem'[n].old_master_process = mem[n].old_master_process
    BY <1>1, <1>6, ShellIsNobody DEF Succeeding
  <2>2. \A r \in Pid : pc[r] \in GonePC => pc'[r] \in GonePC
    BY DEF Aside
  <2>3. Succeeding(n)'
    BY <1>2, <1>6, <2>1, <2>2 DEF Succeeding
  <2> QED
    BY <1>6, <2>3 DEF Phase
<1> QED
  BY <1>3, <1>4, <1>5, <1>6 DEF Phase

LEMMA AsideCast ==
    ASSUME TypeOK, NEW p \in {Shell} \cup Pid, NEW n \in {Shell} \cup Pid, Cast(p, n),
           NEW a \in Pid, a \notin {p, n}, Aside(a, p, n), Bystander(a, p, n)'
    PROVE  Cast(p, n)'
<1>1. Phase(p, n)'
  BY AsidePhase DEF Cast
<1>2. /\ \A r \in Pid : pc[r] \in DonePC => pc'[r] \in DonePC
      /\ \A r \in Pid : pc[r] \in GonePC => pc'[r] \in GonePC
      /\ \A r \in Pid : Serving(r) => Serving(r)'
      /\ parent' = parent
  BY DEF Aside
<1>3. \A q \in {p, n} \cap Pid :
         /\ pc'[q] = pc[q] /\ loop_i'[q] = loop_i[q]
         /\ mem'[q].workers_pid = mem[q].workers_pid
         /\ mem'[q].old_master_process = mem[q].old_master_process
  BY DEF Aside, SameCommand, SameMaster
<1>4. ASSUME NEW r \in Pid \ {p, n} PROVE Bystander(r, p, n)'
  <2>1. CASE r = a
    BY <2>1
  <2>2. CASE r # a
    <3>1. pc'[r] = pc[r] /\ (Serving(r)' <=> Serving(r)) /\ Bystander(r, p, n)
      BY <2>2 DEF Aside, Cast
    <3>2. Leaves(r, p, n) => Leaves(r, p, n)'
      BY <1>2, <3>1 DEF Leaves
    <3>3. ASSUME parent[r] \in {p, n} \cap Pid, Lists(parent[r], r)
          PROVE  Lists(parent[r], r)'
      BY <1>2, <1>3, <3>3 DEF Lists
    <3> QED
      BY <1>2, <3>1, <3>2, <3>3 DEF Bystander
  <2> QED
    BY <2>1, <2>2
<1>5. ASSUME NEW q \in {p, n} \cap Pid PROVE Staffed(q)'
  <2>1. Staffed(q)
    BY DEF Cast
  <2> QED
    BY <1>2, <1>3, <2>1, ListsPids DEF Staffed
<1> QED
  BY <1>1, <1>4, <1>5 DEF Cast

(* A worker goes its way; with Faults empty none of them crashes.          *)
LEMMA WorkerCast ==
    ASSUME TypeOK, Faults = {}, NEW p \in {Shell} \cup Pid, NEW n \in {Shell} \cup Pid,
           Cast(p, n), NEW a \in Pid, Worker(a) \/ Traffic(a)
    PROVE  Cast(p, n)'
<1>1. /\ pc[a] \in WorkerPC
      /\ UNCHANGED <<parent, loop_i, pid_file>>
      /\ handlers' = handlers \/ handlers' = [handlers EXCEPT ![a] = "worker"]
  BY DEF Worker, WorkerSetup, WorkerTest, WorkerBlocks, Traffic, WorkerPC
<1>2. PICK next \in WorkerPC \cup {"exiting"} :
         Move(a, next, mem[a]) /\ (Serving(a) => next \in WorkerPC)
  <2>1. CASE Worker(a)
    BY <2>1 DEF Worker, WorkerSetup, WorkerTest, WorkerBlocks, WorkerPC, Serving
  <2>2. CASE Traffic(a)
    BY <2>2, NoFailure DEF Traffic, WorkerPC
  <2> QED
    BY <2>1, <2>2
<1>3. /\ pc'[a] = next /\ mem'[a] = mem[a]
      /\ \A r \in Pid \ {a} : pc'[r] = pc[r] /\ mem'[r] = mem[r]
  BY <1>2 DEF Move, TypeOK
<1>4. a \notin {p, n} /\ Bystander(a, p, n)
  <2>1. a \notin {p, n}
    BY <1>1, Locations
    DEF Cast, StartPC, RunningPC, LoopPC, StopPC, FormingPC, HandoverPC, WorkerPC
  <2> QED
    BY <2>1 DEF Cast
<1>5. Serving(a) => Serving(a)'
  BY <1>2, <1>3 DEF Serving
<1>6. Aside(a, p, n)
  <2>1. \A r \in Pid \ {a} : handlers'[r] = handlers[r]
    BY <1>1 DEF TypeOK
  <2>2. handlers[a] = "worker" => handlers'[a] = "worker"
    BY <1>1 DEF TypeOK
  <2>3. pc[a] \notin DonePC \cup GonePC
    BY <1>1 DEF WorkerPC, DonePC, GonePC
  <2>4. \A r \in Pid \ {a} : SameCommand(mem'[r], mem[r]) /\ (Serving(r)' <=> Serving(r))
    BY <1>3 DEF SameCommand, SameMaster, SameStops, SameReloads, Serving
  <2> QED
    BY <1>1, <1>3, <1>5, <2>1, <2>2, <2>3, <2>4 DEF Aside
<1>7. Bystander(a, p, n)'
  <2>1. pc[a] \notin {"unused", "exited", "exiting"} \cup DonePC
    BY <1>1 DEF WorkerPC, DonePC
  <2>2. CASE Leaves(a, p, n)
    <3>1. ~Serving(a) /\ (parent[a] \in Pid => pc[parent[a]] \in DonePC
                                               \/ (parent[a] = p /\ n \in Pid))
      BY <2>1, <2>2 DEF Leaves
    <3>2. pc'[a] = "exiting" \/ (pc'[a] \in WorkerPC /\ ~Serving(a)')
      BY <1>1, <1>2, <1>3, <3>1 DEF Serving
    <3>3. parent'[a] \in Pid => pc'[parent'[a]] \in DonePC
                                \/ (parent'[a] = p /\ n \in Pid)
      BY <1>1, <1>3, <2>1, <3>1
    <3> QED
      BY <3>2, <3>3 DEF Bystander, Leaves
  <2>3. CASE Serving(a) /\ parent[a] \in Pid /\ parent[a] \in {p, n} /\ Lists(parent[a], a)
    <3>1. Lists(parent[a], a)'
      BY <1>1, <1>3, <1>4, <2>3 DEF Lists
    <3> QED
      BY <1>1, <1>5, <2>3, <3>1 DEF Bystander
  <2> QED
    BY <1>4, <2>1, <2>2, <2>3 DEF Bystander
<1> QED
  BY <1>4, <1>6, <1>7, AsideCast

(* A process has ended: its parent hears of it, if it is there and has a   *)
(* handler, and takes it for the end of an old master.                     *)
LEMMA ChildEnded ==
    ASSUME TypeOK, NEW q \in Pid, NEW a
    PROVE  LET m == Handled(q, "SIGCHLD", a) IN
           /\ SameCommand(m, mem[q]) /\ SameWorker(m, mem[q])
           /\ m = mem[q] \/ handlers[q] = "master"
<1>1. mem[q] \in Memory
  BY DEF TypeOK
<1>2. Handled(q, "SIGCHLD", a) = IF handlers[q] = "master" THEN sigchld_handler(mem[q])
                                                           ELSE mem[q]
  BY DEF Handled
<1>3. /\ SameCommand(sigchld_handler(mem[q]), mem[q])
      /\ SameWorker(sigchld_handler(mem[q]), mem[q])
  BY <1>1 DEF Memory, sigchld_handler, SameCommand, SameMaster, SameStops, SameReloads,
              SameWorker
<1>4. SameCommand(mem[q], mem[q]) /\ SameWorker(mem[q], mem[q])
  BY DEF SameCommand, SameMaster, SameStops, SameReloads, SameWorker
<1> QED
  BY <1>2, <1>3, <1>4

LEMMA ProcessExitCast ==
    ASSUME TypeOK, NEW p \in {Shell} \cup Pid, NEW n \in {Shell} \cup Pid,
           Cast(p, n), NEW a \in Pid, ProcessExit(a)
    PROVE  Cast(p, n)'
<1>1. /\ pc[a] = "exiting" /\ Signal(a, "exited", FreshMemory, parent[a], "SIGCHLD")
      /\ loop_i' = [loop_i EXCEPT ![a] = 1]
      /\ UNCHANGED <<handlers, parent, pid_file>>
  BY DEF ProcessExit
<1>2. a \notin {p, n} /\ Bystander(a, p, n)
  <2>1. a \notin {p, n}
    BY <1>1, Locations
    DEF Cast, StartPC, RunningPC, LoopPC, StopPC, FormingPC, HandoverPC
  <2> QED
    BY <2>1 DEF Cast
<1>3. parent[a] \in Pid => pc[parent[a]] \in DonePC \/ (parent[a] = p /\ n \in Pid)
  BY <1>1, <1>2 DEF Bystander, Leaves, Serving, WorkerPC
<1>4. pc'[a] = "exited"
  BY <1>1 DEF Signal
<1>5. ASSUME NEW r \in Pid \ {a}
      PROVE  /\ pc'[r] = pc[r] /\ SameCommand(mem'[r], mem[r])
             /\ (Serving(r)' <=> Serving(r))
             /\ \/ mem'[r] = mem[r]
                \/ r = parent[a] /\ handlers[r] = "master"
  <2>1. CASE r = parent[a] /\ Alive(r)
    <3>1. pc'[r] = Received(r, "SIGCHLD") /\ mem'[r] = Handled(r, "SIGCHLD", a)
      BY <1>1, <2>1 DEF Signal
    <3>2. /\ SameCommand(mem'[r], mem[r]) /\ SameWorker(mem'[r], mem[r])
          /\ mem'[r] = mem[r] \/ handlers[r] = "master"
      BY <3>1, ChildEnded
    <3>3. pc[r] # "epoll_wait"
      BY <1>3, <2>1, Locations, ShellIsNobody
      DEF Cast, DonePC, StartPC, RunningPC, LoopPC, StopPC
    <3>4. pc'[r] = pc[r]
      BY <3>1, <3>3 DEF Received
    <3> QED
      BY <2>1, <3>2, <3>4 DEF Serving, SameWorker
  <2>2. CASE ~(r = parent[a] /\ Alive(r))
    <3>1. pc'[r] = pc[r] /\ mem'[r] = mem[r]
      BY <1>1, <2>2 DEF Signal
    <3> QED
      BY <3>1 DEF SameCommand, SameMaster, SameStops, SameReloads, Serving
  <2> QED
    BY <2>1, <2>2
<1>6. ASSUME NEW r \in {p, n} \cap Pid
      PROVE  \/ mem'[r] = mem[r]
             \/ r = p /\ (n \in Pid \/ pc[p] \in StopPC)
  <2>1. CASE r = p
    <3>1. pc[p] \in DonePC => pc[p] \in StopPC
      BY <2>1, Locations
      DEF Cast, DonePC, StartPC, RunningPC, LoopPC, StopPC
    <3> QED
      BY <1>2, <1>3, <1>5, <2>1, <3>1
  <2>2. CASE r # p
    <3>1. r = n /\ pc[n] \notin DonePC
      BY <2>2, Locations DEF Cast, DonePC, FormingPC, HandoverPC
    <3> QED
      BY <1>2, <1>3, <1>5, <2>2, <3>1
  <2> QED
    BY <2>1, <2>2
<1>7. Aside(a, p, n)
  <2>1. \A r \in Pid \ {a} : loop_i'[r] = loop_i[r]
    BY <1>1 DEF TypeOK
  <2>2. pc'[a] \in DonePC /\ pc'[a] \in GonePC /\ ~Serving(a)
    BY <1>1, <1>4 DEF DonePC, GonePC, Serving, WorkerPC
  <2> QED
    BY <1>1, <1>5, <1>6, <2>1, <2>2 DEF Aside
<1>8. Bystander(a, p, n)'
  BY <1>4 DEF Bystander
<1> QED
  BY <1>2, <1>7, <1>8, AsideCast

---------------------------------------------------------------------------
(* The forks of a reload, and those of the workers.                        *)

(* The bystanders of a fork, whoever of the cast is the parent.            *)
LEMMA ForkBystanders ==
    ASSUME TypeOK, PidsAreFresh, NEW p \in {Shell} \cup Pid, NEW n \in {Shell} \cup Pid,
           Cast(p, n), NEW a \in Pid, a \in {p, n},
           pc[a] \in {"server_reload", "second_fork", "fork_worker"},
           NEW next, NEW m, NEW childpc, NEW childm, Fork(a, next, m, childpc, childm),
           UNCHANGED loop_i,
           \A w : Lists(a, w) => Lists(a, w)',
           NEW n2, n2 = n \/ (n2 = next_pid /\ (n = Shell \/ pc[n] = "second_fork")),
           NEW r \in Pid \ {p, n, next_pid}
    PROVE  Bystander(r, p, n2)'
<1>1. /\ next_pid \in Pid /\ a < next_pid /\ pc[next_pid] = "unused"
      /\ \A q \in Pid \ {a, next_pid} :
           pc'[q] = pc[q] /\ mem'[q] = mem[q] /\ parent'[q] = parent[q]
  BY ForkFrame
<1>2. /\ pc'[r] = pc[r] /\ parent'[r] = parent[r] /\ (Serving(r)' <=> Serving(r))
      /\ Bystander(r, p, n)
  BY <1>1 DEF Serving, Cast
<1>3. CASE pc[r] \in {"unused", "exited"}
  BY <1>2, <1>3 DEF Bystander
<1>4. CASE Leaves(r, p, n)
  <2>1. pc'[r] = "exiting" \/ (pc'[r] \in WorkerPC /\ ~Serving(r)')
    BY <1>2, <1>4 DEF Leaves
  <2>2. ASSUME parent[r] \in Pid, pc[parent[r]] \in DonePC
        PROVE  pc'[parent[r]] \in DonePC
    <3>1. parent[r] \notin {a, next_pid}
      BY <1>1, <2>2 DEF DonePC
    <3> QED
      BY <1>1, <2>2, <3>1
  <2>3. n \in Pid => n2 \in Pid
    BY <1>1
  <2> QED
    BY <1>2, <1>4, <2>1, <2>2, <2>3 DEF Bystander, Leaves
<1>5. CASE Serving(r) /\ parent[r] \in Pid /\ parent[r] \in {p, n} /\ Lists(parent[r], r)
  <2>1. pc[parent[r]] \notin {"unused", "second_fork"}
    BY <1>5 DEF Lists, StaffedPC, ReadyPC, RunningPC, LoopPC, HandoverPC
  <2>2. parent[r] # next_pid /\ parent[r] \in {p, n2}
    BY <1>1, <1>5, <2>1, ShellIsNobody
  <2>3. Lists(parent[r], r)'
    <3>1. CASE parent[r] = a
      BY <1>2, <1>5, <3>1
    <3>2. CASE parent[r] # a
      BY <1>1, <1>2, <1>5, <2>2, <3>2 DEF Lists
    <3> QED
      BY <3>1, <3>2
  <2> QED
    BY <1>2, <1>5, <2>2, <2>3 DEF Bystander
<1> QED
  BY <1>2, <1>3, <1>4, <1>5 DEF Bystander

(* A process that is not the parent keeps its workers.                     *)
LEMMA ForkStaffed ==
    ASSUME TypeOK, PidsAreFresh, NEW a \in Pid,
           pc[a] \in {"server_reload", "second_fork", "fork_worker"},
           NEW next, NEW m, NEW childpc, NEW childm, Fork(a, next, m, childpc, childm),
           NEW q \in Pid \ {next_pid}, Staffed(q)
    PROVE  /\ pc[q] \in StaffedPC =>
                \A i \in 1 .. Len(mem[q].workers_pid) :
                    LET w == mem[q].workers_pid[i] IN
                    w \in Pid \ {a, next_pid} /\ pc'[w] \in WorkerPC /\
                    ~mem'[w].is_soft_stop /\ ~mem'[w].is_hard_stop
           /\ parent'[q] = parent[q]
           /\ pc[q] # "second_fork" /\ parent[q] \in Pid => pc'[parent[q]] \in GonePC
           /\ q # a => Staffed(q)'
<1>1. /\ next_pid \in Pid /\ a < next_pid /\ pc[next_pid] = "unused"
      /\ parent'[a] = parent[a]
      /\ \A r \in Pid \ {a, next_pid} :
           pc'[r] = pc[r] /\ mem'[r] = mem[r] /\ parent'[r] = parent[r]
  BY ForkFrame
<1>2. ASSUME pc[q] \in StaffedPC, NEW i \in 1 .. Len(mem[q].workers_pid)
      PROVE  LET w == mem[q].workers_pid[i] IN
             w \in Pid \ {a, next_pid} /\ pc'[w] \in WorkerPC /\
             ~mem'[w].is_soft_stop /\ ~mem'[w].is_hard_stop
  <2>1. PICK w \in Pid : w = mem[q].workers_pid[i] /\ Serving(w)
    BY <1>2, ListsPids DEF Staffed
  <2>2. w \notin {a, next_pid}
    BY <1>1, <2>1 DEF Serving, WorkerPC
  <2> QED
    BY <1>1, <2>1, <2>2 DEF Serving
<1>3. parent'[q] = parent[q]
  BY <1>1
<1>4. ASSUME pc[q] # "second_fork", parent[q] \in Pid
      PROVE  pc'[parent[q]] \in GonePC
  <2>1. pc[parent[q]] \in GonePC
    BY <1>4 DEF Staffed
  <2>2. parent[q] \notin {a, next_pid}
    BY <1>1, <2>1 DEF GonePC
  <2> QED
    BY <1>1, <1>4, <2>1, <2>2
<1>5. ASSUME q # a PROVE Staffed(q)'
  <2>1. pc'[q] = pc[q] /\ mem'[q] = mem[q]
    BY <1>1, <1>5
  <2>2. ASSUME pc[q] \in StaffedPC, NEW i \in 1 .. Len(mem[q].workers_pid)
        PROVE  Serving(mem[q].workers_pid[i])'
    BY <1>2, <2>1, <2>2 DEF Serving
  <2>3. pc[q] = "second_fork" => parent[q] = mem[q].old_master_process
    BY DEF Staffed
  <2> QED
    BY <1>3, <1>4, <2>1, <2>2, <2>3 DEF Staffed
<1> QED
  BY <1>2, <1>3, <1>4, <1>5

(* The old master forks: the intermediate child is now the new process.    *)
LEMMA ServerReloadCast ==
    ASSUME TypeOK, PidsAreFresh, Faults = {}, NEW p \in {Shell} \cup Pid,
           NEW n \in {Shell} \cup Pid, Cast(p, n), NEW a \in Pid, ServerReload(a)
    PROVE  \E c \in Pid : Cast(p, c)'
<1>1. pc[a] = "server_reload" /\ UNCHANGED <<loop_i, pid_file>>
  BY DEF ServerReload
<1>2. PICK count : Fork(a, "mark_reload", [mem[a] EXCEPT !.count_workflows = count],
                        "second_fork", [mem[a] EXCEPT !.count_workflows = count])
  BY DEF ServerReload
<1> DEFINE m == [mem[a] EXCEPT !.count_workflows = count]
<1>3. a \in {p, n} /\ Phase(p, n)
  BY <1>1, Actors DEF WorkerPC, GonePC, Cast
<1>4. a = p /\ n = Shell /\ ToReload(p)
  <2>1. /\ a = p
        /\ \/ n = Shell /\ (Idle(p) \/ ToReload(p) \/ ToStop(p))
           \/ n \in Pid /\ Both(p, n)
    BY <1>1, <1>3, LoopsInCharge DEF RunningPC
  <2> QED
    BY <1>1, <2>1 DEF Idle, ToStop, Both, Growing, HandingOver, Reloads, LoopPC, StopPC
<1>5. /\ next_pid \in Pid /\ a < next_pid /\ pc[next_pid] = "unused"
      /\ pc'[a] = "mark_reload" /\ mem'[a] = m /\ parent'[a] = parent[a]
      /\ pc'[next_pid] = "second_fork" /\ mem'[next_pid] = m /\ parent'[next_pid] = a
      /\ \A r \in Pid \ {a, next_pid} :
           pc'[r] = pc[r] /\ mem'[r] = mem[r] /\ parent'[r] = parent[r]
  BY <1>1, <1>2, ForkFrame
<1>6. /\ handlers'[next_pid] = handlers[a]
      /\ \A r \in Pid \ {next_pid} : handlers'[r] = handlers[r]
  BY <1>2, <1>5 DEF Fork, TypeOK
<1>7. PICK c \in Pid : c = next_pid
  BY <1>5
<1>8. PICK level \in Level : mem[a].level = level /\ ReloadIs(mem[a], level, 1)
  BY <1>1, <1>4 DEF ToReload, LoopPC
<1>9. /\ m.workers_pid = mem[a].workers_pid /\ m.level = level
      /\ NotTold(m) = NotTold(mem[a]) /\ ReloadIs(m, level, 1)
      /\ m.has_old_master_stopped = mem[a].has_old_master_stopped
      /\ m.old_master_process = mem[a].old_master_process
  <2>1. mem[a] \in Memory
    BY DEF TypeOK
  <2> QED
    BY <1>8, <2>1 DEF Memory, NotTold, ReloadIs
<1> HIDE DEF m
<1>a. Heard(a)'
  <2>1. \A w \in Pid : handlers[w] = "worker" =>
           handlers'[w] = "worker" \/ w = next_pid
    BY <1>6
  <2>2. Heard(a)
    BY <1>4 DEF ToReload
  <2>3. \A i \in 1 .. Len(mem[a].workers_pid) :
           mem[a].workers_pid[i] \in Pid /\ mem[a].workers_pid[i] < next_pid
    BY ListsPids DEF PidsAreFresh
  <2>4. \A i \in 1 .. Len(mem[a].workers_pid) : mem[a].workers_pid[i] # next_pid
    BY <2>3, <1>5, ShellIsNobody
  <2> QED
    BY <1>5, <1>9, <2>1, <2>2, <2>3, <2>4 DEF Heard
<1>b. Growing(a, c)'
  <2>1. InCharge(a)' /\ Reloads(a, level)' /\ NotTold(mem[a])'
    BY <1>4, <1>5, <1>6, <1>8, <1>9 DEF ToReload, InCharge, Reloads
  <2>2. New(c)' /\ mem'[c].level = level
    BY <1>4, <1>5, <1>6, <1>7, <1>9 DEF ToReload, InCharge, New
  <2>3. /\ pc'[c] = "second_fork" /\ mem'[c].old_master_process = a
        /\ ~mem'[c].has_old_master_stopped
    BY <1>4, <1>5, <1>7, <1>9 DEF ToReload, InCharge
  <2>4. pid_file' = OwnPidFile(a)'
    BY <1>1, <1>4, <1>5, <1>9 DEF ToReload, OwnPidFile
  <2> QED
    BY <1>a, <2>1, <2>2, <2>3, <2>4 DEF Growing, FormingPC
<1>c. Phase(p, c)'
  BY <1>4, <1>b DEF Phase, Both
<1>d. ASSUME NEW r \in Pid \ {p, c} PROVE Bystander(r, p, c)'
  <2>1. r \in Pid \ {p, n, next_pid}
    BY <1>4, <1>7, <1>d, ShellIsNobody
  <2>2. \A w : Lists(a, w) => Lists(a, w)'
    BY <1>5, <1>9 DEF Lists, StaffedPC, ReadyPC, RunningPC
  <2> QED
    BY <1>1, <1>2, <1>3, <1>4, <1>7, <2>1, <2>2, ForkBystanders
<1>e. Staffed(a)'
  <2>1. Staffed(a) /\ a # next_pid
    BY <1>3, <1>5 DEF Cast, Pid
  <2>2. /\ pc[a] \in StaffedPC =>
             \A i \in 1 .. Len(mem[a].workers_pid) :
                 LET w == mem[a].workers_pid[i] IN
                 w \in Pid \ {a, next_pid} /\ pc'[w] \in WorkerPC /\
                 ~mem'[w].is_soft_stop /\ ~mem'[w].is_hard_stop
        /\ pc[a] # "second_fork" /\ parent[a] \in Pid => pc'[parent[a]] \in GonePC
    BY <1>1, <1>2, <2>1, ForkStaffed
  <2>3. pc[a] \in StaffedPC
    BY <1>1 DEF StaffedPC, ReadyPC, RunningPC
  <2> QED
    BY <1>1, <1>5, <1>9, <2>2, <2>3 DEF Staffed, Serving
<1>f. Staffed(c)'
  <2>1. pc'[c] \notin StaffedPC
    BY <1>5, <1>7 DEF StaffedPC, ReadyPC, RunningPC, LoopPC, HandoverPC
  <2>2. mem'[c].old_master_process = a /\ parent'[c] = a /\ pc'[c] = "second_fork"
    BY <1>4, <1>5, <1>7, <1>9 DEF ToReload, InCharge
  <2> QED
    BY <2>1, <2>2 DEF Staffed
<1>g. Cast(p, c)'
  BY <1>4, <1>c, <1>d, <1>e, <1>f DEF Cast
<1> QED
  BY <1>g

(* The intermediate child forks the new master and is about to exit.       *)
LEMMA SecondForkCast ==
    ASSUME TypeOK, PidsAreFresh, NEW p \in {Shell} \cup Pid,
           NEW n \in {Shell} \cup Pid, Cast(p, n), NEW a \in Pid, SecondFork(a)
    PROVE  \E c \in Pid : Cast(p, c)'
<1> DEFINE m == [mem[a] EXCEPT !.new_master_process = next_pid]
<1>1. /\ pc[a] = "second_fork" /\ UNCHANGED <<loop_i, pid_file>>
      /\ Fork(a, "exiting", mem[a], "add_work_processes", m)
  BY DEF SecondFork
<1>2. a \in {p, n} /\ Phase(p, n)
  BY <1>1, Actors DEF WorkerPC, GonePC, Cast
<1>3. a = n /\ p \in Pid /\ p # n /\ Growing(p, n)
  <2>1. a # p
    BY <1>1, <1>2, Locations DEF StartPC, RunningPC, LoopPC, StopPC
  <2> QED
    BY <1>1, <1>2, <2>1, Locations DEF FormingPC
<1>4. /\ next_pid \in Pid /\ a < next_pid /\ pc[next_pid] = "unused"
      /\ pc'[a] = "exiting" /\ mem'[a] = mem[a] /\ parent'[a] = parent[a]
      /\ pc'[next_pid] = "add_work_processes" /\ mem'[next_pid] = m
      /\ parent'[next_pid] = a
      /\ \A r \in Pid \ {a, next_pid} :
           pc'[r] = pc[r] /\ mem'[r] = mem[r] /\ parent'[r] = parent[r]
  BY <1>1, ForkFrame
<1>5. /\ handlers'[next_pid] = handlers[a]
      /\ \A r \in Pid \ {next_pid} : handlers'[r] = handlers[r]
  BY <1>1, <1>4 DEF Fork, TypeOK
<1>6. PICK c \in Pid : c = next_pid
  BY <1>4
<1>7. /\ m.level = mem[a].level /\ NotTold(m) = NotTold(mem[a])
      /\ \A level, value : ReloadIs(m, level, value) = ReloadIs(mem[a], level, value)
      /\ m.has_old_master_stopped = mem[a].has_old_master_stopped
      /\ m.old_master_process = mem[a].old_master_process
      /\ m.new_master_process = c
  <2>1. mem[a] \in Memory
    BY DEF TypeOK
  <2> QED
    BY <1>6, <2>1 DEF Memory, NotTold, ReloadIs
<1> HIDE DEF m
<1>8. /\ p # c /\ a # c
      /\ pc'[p] = pc[p] /\ mem'[p] = mem[p] /\ parent'[p] = parent[p]
      /\ handlers'[p] = handlers[p]
  <2>1. p # c
    BY <1>3, <1>4, <1>6 DEF Growing, Reloads, LoopPC
  <2>2. a # c
    BY <1>1, <1>4, <1>6
  <2> QED
    BY <1>3, <1>4, <1>5, <1>6, <2>1, <2>2
<1>9. InCharge(p)' /\ Heard(p)' /\ Reloads(p, mem[n].level) /\ NotTold(mem[p])'
  <2>1. InCharge(p) /\ Heard(p) /\ Reloads(p, mem[n].level) /\ NotTold(mem[p])
    BY <1>3 DEF Growing
  <2>2. \A i \in 1 .. Len(mem[p].workers_pid) :
           mem[p].workers_pid[i] \in Pid /\ mem[p].workers_pid[i] < next_pid
    BY <1>3, ListsPids DEF PidsAreFresh
  <2>3. \A i \in 1 .. Len(mem[p].workers_pid) : mem[p].workers_pid[i] # next_pid
    BY <2>2, <1>4, ShellIsNobody
  <2> QED
    BY <1>5, <1>8, <2>1, <2>2, <2>3 DEF InCharge, Heard
<1>a. Growing(p, c)'
  <2>1. Reloads(p, mem[c].level)'
    BY <1>3, <1>4, <1>6, <1>7, <1>8, <1>9 DEF Reloads
  <2>2. New(c)'
    BY <1>3, <1>4, <1>5, <1>6, <1>7 DEF Growing, New
  <2>3. /\ pc'[c] = "add_work_processes" /\ mem'[c].old_master_process = p
        /\ ~mem'[c].has_old_master_stopped
    BY <1>3, <1>4, <1>6, <1>7 DEF Growing
  <2>4. pid_file' = OwnPidFile(p)'
    BY <1>1, <1>3, <1>8 DEF Growing, OwnPidFile
  <2> QED
    BY <1>9, <2>1, <2>2, <2>3, <2>4 DEF Growing, FormingPC
<1>b. Phase(p, c)'
  BY <1>3, <1>a DEF Phase, Both
<1>c. ASSUME NEW r \in Pid \ {p, c} PROVE Bystander(r, p, c)'
  <2>1. CASE r = n
    <3>1. parent[n] = p
      BY <1>1, <1>3 DEF Cast, Staffed, Growing
    <3> QED
      BY <1>3, <1>4, <2>1, <3>1 DEF Bystander, Leaves
  <2>2. CASE r # n
    <3>1. \A w : ~Lists(a, w)
      BY <1>1 DEF Lists, StaffedPC, ReadyPC, RunningPC, LoopPC, HandoverPC
    <3>2. r \in Pid \ {p, n, next_pid} /\ (c = next_pid /\ pc[n] = "second_fork")
      BY <1>1, <1>3, <1>6, <2>2
    <3> QED
      BY <1>1, <1>2, <3>1, <3>2, ForkBystanders
  <2> QED
    BY <2>1, <2>2
<1>d. Staffed(p)'
  <2>1. Staffed(p) /\ p \in Pid \ {next_pid} /\ p # a
    BY <1>3, <1>6, <1>8 DEF Cast
  <2> QED
    BY <1>1, <2>1, ForkStaffed
<1>e. Staffed(c)'
  <2>1. pc'[c] = "add_work_processes" /\ parent'[c] = a /\ pc'[a] \in GonePC
    BY <1>4, <1>6 DEF GonePC
  <2> QED
    BY <2>1 DEF Staffed, StaffedPC, ReadyPC, RunningPC, LoopPC, HandoverPC
<1> QED
  BY <1>3, <1>b, <1>c, <1>d, <1>e DEF Cast

(* A master forks one of its workers.                                      *)
LEMMA ForkWorkerCast ==
    ASSUME TypeOK, PidsAreFresh, NEW p \in {Shell} \cup Pid,
           NEW n \in {Shell} \cup Pid, Cast(p, n), NEW a \in Pid, ForkWorker(a)
    PROVE  Cast(p, n)'
<1> DEFINE pids == Append(mem[a].workers_pid, next_pid)
           m == [mem[a] EXCEPT !.workers_pid = pids]
<1>1. /\ pc[a] = "fork_worker" /\ UNCHANGED <<loop_i, pid_file>>
  BY DEF ForkWorker
<1>2. PICK next \in {"fork_worker", "fill_pid_file"} :
         Fork(a, next, m, "worker_setup", FreshMemory)
  BY DEF ForkWorker
<1>3. a \in {p, n} /\ Phase(p, n)
  BY <1>1, Actors DEF WorkerPC, GonePC, Cast
<1>4. /\ next_pid \in Pid /\ a < next_pid /\ pc[next_pid] = "unused"
      /\ pc'[a] = next /\ mem'[a] = m /\ parent'[a] = parent[a]
      /\ pc'[next_pid] = "worker_setup" /\ mem'[next_pid] = FreshMemory
      /\ parent'[next_pid] = a
      /\ \A r \in Pid \ {a, next_pid} :
           pc'[r] = pc[r] /\ mem'[r] = mem[r] /\ parent'[r] = parent[r]
  BY <1>1, <1>2, ForkFrame
<1>5. \A r \in Pid \ {next_pid} : handlers'[r] = handlers[r]
  BY <1>2, <1>4 DEF Fork, TypeOK
<1>6. PICK c \in Pid : c = next_pid
  BY <1>4
<1>7. /\ m.level = mem[a].level /\ NotTold(m) = NotTold(mem[a])
      /\ NoReload(m) = NoReload(mem[a])
      /\ \A level, value : ReloadIs(m, level, value) = ReloadIs(mem[a], level, value)
      /\ m.has_old_master_stopped = mem[a].has_old_master_stopped
      /\ m.old_master_process = mem[a].old_master_process
      /\ m.new_master_process = mem[a].new_master_process
      /\ m.workers_pid = pids
  <2>1. mem[a] \in Memory
    BY DEF TypeOK
  <2> QED
    BY <2>1 DEF Memory, NotTold, NoReload, ReloadIs
<1>8. /\ Len(m.workers_pid) = Len(mem[a].workers_pid) + 1
      /\ m.workers_pid[Len(mem[a].workers_pid) + 1] = next_pid
      /\ \A i \in 1 .. Len(mem[a].workers_pid) :
           m.workers_pid[i] = mem[a].workers_pid[i]
      /\ Len(mem[a].workers_pid) \in Nat
  BY <1>4, <1>7, ListsPids
<1> HIDE DEF m, pids
<1>9. c \notin {p, n}
  BY <1>3, <1>4, <1>6, Locations, ShellIsNobody
  DEF StartPC, RunningPC, LoopPC, StopPC, FormingPC, HandoverPC
<1>a. ASSUME a = p /\ n = Shell /\ Starting(p)
      PROVE  Phase(p, n)'
  <2>1. Starting(p)'
    BY <1>1, <1>4, <1>7, <1>a DEF Starting, StartPC
  <2> QED
    BY <1>a, <2>1 DEF Phase, Alone
<1>b. ASSUME a = n /\ p \in Pid /\ p # n /\ Growing(p, n)
      PROVE  Phase(p, n)'
  <2>1. /\ pc'[p] = pc[p] /\ mem'[p] = mem[p] /\ handlers'[p] = handlers[p]
        /\ handlers'[n] = handlers[n]
    BY <1>4, <1>5, <1>6, <1>9, <1>b
  <2>2. InCharge(p)' /\ Heard(p)' /\ Reloads(p, mem[n].level)' /\ NotTold(mem[p])'
    <3>1. \A i \in 1 .. Len(mem[p].workers_pid) :
             mem[p].workers_pid[i] \in Pid /\ mem[p].workers_pid[i] < next_pid
      BY <1>b, ListsPids DEF PidsAreFresh
    <3>2. \A i \in 1 .. Len(mem[p].workers_pid) : mem[p].workers_pid[i] # next_pid
      BY <3>1, <1>4, ShellIsNobody
    <3>3. Heard(p)'
      BY <1>5, <1>b, <2>1, <3>1, <3>2 DEF Growing, Heard
    <3>4. mem'[n].level = mem[n].level
      BY <1>4, <1>7, <1>b
    <3> QED
      BY <1>b, <2>1, <3>3, <3>4 DEF Growing, InCharge, Reloads
  <2>3. New(n)'
    BY <1>1, <1>4, <1>7, <1>b, <2>1 DEF Growing, New
  <2>4. Growing(p, n)'
    BY <1>1, <1>4, <1>7, <1>b, <2>1, <2>2, <2>3 DEF Growing, OwnPidFile, FormingPC
  <2> QED
    BY <1>b, <2>4 DEF Phase, Both
<1>c. Phase(p, n)'
  BY <1>1, <1>3, <1>a, <1>b, MakingIsNew
<1>d. pc[a] \in StaffedPC /\ pc'[a] \in StaffedPC /\ pc'[a] # "stop_kill" /\ pc'[a] # "second_fork"
  BY <1>1, <1>4 DEF StaffedPC, ReadyPC, RunningPC, LoopPC, HandoverPC
<1>e. Serving(c)'
  BY <1>4, <1>6 DEF Serving, WorkerPC, FreshMemory
<1>f. ASSUME NEW r \in Pid \ {p, n} PROVE Bystander(r, p, n)'
  <2>1. CASE r = c
    <3>1. Lists(a, c)'
      <4>1. Len(mem[a].workers_pid) + 1 \in 1 .. Len(mem'[a].workers_pid)
        BY <1>4, <1>8
      <4> QED
        BY <1>4, <1>6, <1>8, <1>d, <4>1 DEF Lists
    <3> QED
      BY <1>3, <1>4, <1>6, <1>e, <2>1, <3>1 DEF Bystander
  <2>2. CASE r # c
    <3>1. \A w : Lists(a, w) => Lists(a, w)'
      <4> SUFFICES ASSUME NEW w, Lists(a, w)
                   PROVE  Lists(a, w)'
        OBVIOUS
      <4>1. PICK i \in 1 .. Len(mem[a].workers_pid) : mem[a].workers_pid[i] = w
        BY DEF Lists
      <4>2. i \in 1 .. Len(mem'[a].workers_pid) /\ mem'[a].workers_pid[i] = w
        BY <1>4, <1>8, <4>1
      <4> QED
        BY <1>d, <4>2 DEF Lists
    <3>2. r \in Pid \ {p, n, next_pid}
      BY <1>6, <1>f, <2>2
    <3> QED
      BY <1>1, <1>2, <1>3, <3>1, <3>2, ForkBystanders
  <2> QED
    BY <2>1, <2>2
<1>g. ASSUME NEW q \in {p, n} \cap Pid PROVE Staffed(q)'
  <2>1. Staffed(q) /\ q # next_pid
    BY <1>6, <1>9 DEF Cast
  <2>2. CASE q # a
    BY <1>1, <1>2, <2>1, <2>2, ForkStaffed
  <2>3. CASE q = a
    <3>1. /\ pc[a] \in StaffedPC =>
               \A i \in 1 .. Len(mem[a].workers_pid) :
                   LET w == mem[a].workers_pid[i] IN
                   w \in Pid \ {a, next_pid} /\ pc'[w] \in WorkerPC /\
                   ~mem'[w].is_soft_stop /\ ~mem'[w].is_hard_stop
          /\ pc[a] # "second_fork" /\ parent[a] \in Pid => pc'[parent[a]] \in GonePC
      BY <1>1, <1>2, <2>1, <2>3, ForkStaffed
    <3>2. ASSUME NEW i \in 1 .. Len(mem'[a].workers_pid)
          PROVE  Serving(mem[a].workers_pid[i])'
      <4>1. CASE i = Len(mem[a].workers_pid) + 1
        BY <1>4, <1>6, <1>8, <1>e, <4>1 DEF Serving
      <4>2. CASE i \in 1 .. Len(mem[a].workers_pid)
        BY <1>4, <1>8, <1>d, <3>1, <4>2 DEF Serving
      <4> QED
        BY <1>4, <1>8, <4>1, <4>2
    <3>3. parent'[a] = parent[a] /\ (parent[a] \in Pid => pc'[parent[a]] \in GonePC)
      BY <1>1, <1>4, <3>1
    <3> QED
      BY <1>d, <2>3, <3>2, <3>3 DEF Staffed
  <2> QED
    BY <2>2, <2>3
<1> QED
  BY <1>c, <1>f, <1>g DEF Cast

---------------------------------------------------------------------------
(* The operator.                                                           *)

(* When everything has settled, no command is on: there is a master in its *)
(* loop and its workers, or nobody.                                        *)
LEMMA SettledPhase ==
    ASSUME NEW p \in {Shell} \cup Pid, NEW n \in {Shell} \cup Pid, Cast(p, n), Settled
    PROVE  /\ n = Shell
           /\ p \in Pid => Idle(p)
           /\ p = Shell => Down
           /\ \A r \in Pid \ {p} :
                \/ ~Alive(r)
                \/ /\ p \in Pid /\ Serving(r) /\ pc[r] \in AsleepPC
                   /\ \E i \in 1 .. Len(mem[p].workers_pid) : mem[p].workers_pid[i] = r
<1> USE ShellIsNobody
<1>1. /\ Phase(p, n)
      /\ p \in Pid => pc[p] \in StartPC \cup RunningPC \cup StopPC
      /\ n \in Pid => pc[n] \in FormingPC \cup HandoverPC
  BY Locations DEF Cast
<1>2. n = Shell
  <2>1. ASSUME n \in Pid PROVE FALSE
    <3>1. Alive(n) /\ pc[n] \notin LoopPC \cup AsleepPC
      BY <1>1, <2>1 DEF Alive, FormingPC, HandoverPC, LoopPC, AsleepPC
    <3> QED
      BY <2>1, <3>1 DEF Settled, AsleepPC
  <2> QED
    BY <2>1
<1>3. ASSUME p \in Pid PROVE Idle(p)
  <2>1. Alive(p) /\ pc[p] \notin AsleepPC
    BY <1>1, <1>3 DEF Alive, StartPC, RunningPC, StopPC, LoopPC, AsleepPC
  <2>2. /\ pc[p] \in LoopPC
        /\ ~mem[p].process_soft_stop /\ ~mem[p].process_hard_stop
        /\ mem[p].process_soft_reload # 1 /\ mem[p].process_hard_reload # 1
    BY <1>3, <2>1 DEF Settled, AsleepPC
  <2>3. ~Starting(p)
    BY <2>2 DEF Starting, StartPC, LoopPC
  <2>4. ~ToReload(p)
    BY <2>2 DEF ToReload, ReloadIs, Level
  <2>5. ~ToStop(p)
    BY <2>2 DEF ToStop, ToldBy, Level
  <2> QED
    BY <1>1, <1>2, <1>3, <2>3, <2>4, <2>5 DEF Phase, Alone
<1>4. ASSUME p = Shell PROVE Down
  BY <1>1, <1>2, <1>4 DEF Phase
<1>5. ASSUME NEW r \in Pid \ {p}, Alive(r)
      PROVE  /\ p \in Pid /\ Serving(r) /\ pc[r] \in AsleepPC
             /\ \E i \in 1 .. Len(mem[p].workers_pid) : mem[p].workers_pid[i] = r
  <2>1. Bystander(r, p, n) /\ pc[r] \notin {"unused", "exited"}
    BY <1>2, <1>5 DEF Cast, Alive
  <2>2. ~Leaves(r, p, n)
    BY <1>5 DEF Leaves, Settled, Serving, WorkerPC, LoopPC
  <2>3. Serving(r) /\ p \in Pid /\ Lists(p, r)
    BY <1>2, <2>1, <2>2 DEF Bystander
  <2>4. pc[r] \in AsleepPC
    BY <1>5, <2>3 DEF Settled, Serving, AsleepPC, WorkerPC, LoopPC
  <2> QED
    BY <2>3, <2>4 DEF Lists
<1> QED
  BY <1>2, <1>3, <1>4, <1>5

(* mohican.sh start, when no process is there.                             *)
LEMMA StartCast ==
    ASSUME TypeOK, PidsAreFresh, Known, NEW p \in {Shell} \cup Pid,
           NEW n \in {Shell} \cup Pid, Cast(p, n), Start
    PROVE  \E c \in Pid : Cast(c, Shell)'
<1>1. /\ \A r \in Pid : pc[r] \in {"unused", "exited"}
      /\ UNCHANGED <<handlers, parent, loop_i, pid_file>> /\ next_pid <= MaxPid
  BY DEF Start, Alive
<1>2. PICK count : Move(next_pid, "bind_listen_sock",
                        [FreshMemory EXCEPT !.old_master_process = next_pid,
                                            !.count_workflows = count])
  BY DEF Start
<1>3. next_pid \in Pid
  BY <1>1 DEF TypeOK, Pid
<1>4. PICK c \in Pid : c = next_pid
  BY <1>3
<1> DEFINE m == [FreshMemory EXCEPT !.old_master_process = c, !.count_workflows = count]
<1>5. /\ pc'[c] = "bind_listen_sock" /\ mem'[c] = m
      /\ \A r \in Pid \ {c} : pc'[r] = pc[r] /\ mem'[r] = mem[r]
  BY <1>2, <1>4 DEF Move, TypeOK
<1>6. m.old_master_process = c /\ NotTold(m) /\ NoReload(m) /\ ~m.has_old_master_stopped
  BY DEF FreshMemory, NotTold, NoReload
<1>7. pid_file = NoFile
  <2>1. p = Shell /\ n = Shell
    BY <1>1, Locations
    DEF Cast, StartPC, RunningPC, LoopPC, StopPC, FormingPC, HandoverPC
  <2> QED
    BY <2>1, ShellIsNobody DEF Cast, Phase, Down
<1> HIDE DEF m
<1>8. Starting(c)'
  BY <1>1, <1>5, <1>6, <1>7 DEF Starting, StartPC
<1>9. Phase(c, Shell)'
  BY <1>8 DEF Phase, Alone
<1>a. \A r \in Pid \ {c} : Bystander(r, c, Shell)'
  BY <1>1, <1>5 DEF Bystander
<1>b. Staffed(c)'
  <2>1. parent'[c] \notin Pid
    <3>1. pc[c] = "unused"
      BY <1>4 DEF PidsAreFresh, Pid
    <3> QED
      BY <1>1, <3>1, ShellIsNobody DEF Known
  <2> QED
    BY <1>5, <2>1 DEF Staffed, StaffedPC, ReadyPC, RunningPC, LoopPC, HandoverPC
<1> QED
  BY <1>9, <1>a, <1>b, ShellIsNobody DEF Cast

(* A signal of mohican.sh reaches a master that has settled.               *)
LEMMA MasterSignalled ==
    ASSUME TypeOK, NEW p \in Pid, Idle(p), NEW sig,
           sig \in {"SIGHUP", "SIGINT", "SIGPIPE", "SIGALRM"}
    PROVE  LET m == Handled(p, sig, Shell) IN
           /\ SameMaster(m, mem[p]) /\ ~m.has_old_master_stopped
           /\ \/ NoReload(m) /\ \E level \in Level : ToldBy(m, level)
              \/ NotTold(m) /\ \E level \in Level : ReloadIs(m, level, 1)
<1>1. mem[p] \in Memory
  BY DEF TypeOK
<1>2. /\ NotTold(mem[p]) /\ NoReload(mem[p]) /\ ~mem[p].has_old_master_stopped
      /\ handlers[p] = "master"
  BY DEF Idle, InCharge
<1>3. "SOFT" \in Level /\ "HARD" \in Level
  BY DEF Level
<1>4. CASE sig = "SIGHUP"
  <2>1. Handled(p, sig, Shell) = sighup_handler(mem[p], Shell)
    BY <1>2, <1>4 DEF Handled
  <2>2. ToldBy(sighup_handler(mem[p], Shell), "SOFT")
    BY <1>1, <1>2 DEF Memory, sighup_handler, ToldBy, NotTold
  <2> QED
    BY <1>1, <1>2, <1>3, <2>1, <2>2 DEF Memory, sighup_handler, NoReload, SameMaster
<1>5. CASE sig = "SIGINT"
  <2>1. Handled(p, sig, Shell) = sigint_handler(mem[p], Shell)
    BY <1>2, <1>5 DEF Handled
  <2>2. ToldBy(sigint_handler(mem[p], Shell), "HARD")
    BY <1>1, <1>2 DEF Memory, sigint_handler, ToldBy, NotTold
  <2> QED
    BY <1>1, <1>2, <1>3, <2>1, <2>2 DEF Memory, sigint_handler, NoReload, SameMaster
<1>6. CASE sig = "SIGPIPE"
  <2>1. Handled(p, sig, Shell) = sigpipe_handler(mem[p])
    BY <1>2, <1>6 DEF Handled
  <2>2. ReloadIs(sigpipe_handler(mem[p]), "SOFT", 1)
    BY <1>1, <1>2 DEF Memory, sigpipe_handler, ReloadIs, NoReload
  <2> QED
    BY <1>1, <1>2, <1>3, <2>1, <2>2 DEF Memory, sigpipe_handler, NotTold, SameMaster
<1>7. CASE sig = "SIGALRM"
  <2>1. Handled(p, sig, Shell) = sigalrm_handler(mem[p])
    BY <1>2, <1>7 DEF Handled
  <2>2. ReloadIs(sigalrm_handler(mem[p]), "HARD", 1)
    BY <1>1, <1>2 DEF Memory, sigalrm_handler, ReloadIs, NoReload
  <2> QED
    BY <1>1, <1>2, <1>3, <2>1, <2>2 DEF Memory, sigalrm_handler, NotTold, SameMaster
<1> QED
  BY <1>4, <1>5, <1>6, <1>7

LEMMA SignalMasterCast ==
    ASSUME TypeOK, PatientOperator, Known, NEW p \in {Shell} \cup Pid,
           NEW n \in {Shell} \cup Pid, Cast(p, n), NEW command, NEW sig,
           sig \in {"SIGHUP", "SIGINT", "SIGPIPE", "SIGALRM"}, SignalMaster(command, sig)
    PROVE  Cast(p, n)'
<1>1. /\ Settled /\ \E r \in Pid : Alive(r)
      /\ Signal(Shell, "unused", FreshMemory, pid_file.master, sig)
      /\ UNCHANGED <<handlers, parent, loop_i, pid_file>>
  BY MaxCommandsAssumption, WaitsAssumption
  DEF SignalMaster, Issue, PatientOperator, TypeOK
<1>2. /\ n = Shell
      /\ p \in Pid => Idle(p)
      /\ \A r \in Pid \ {p} :
           \/ ~Alive(r)
           \/ p \in Pid /\ Serving(r) /\ pc[r] \in AsleepPC
  BY <1>1, SettledPhase
<1>3. p \in Pid /\ Idle(p)
  BY <1>1, <1>2
<1>4. pid_file = OwnPidFile(p) /\ pc[p] \in LoopPC /\ InCharge(p)
  BY <1>3 DEF Idle
<1>5. pid_file.master = p
  BY <1>4 DEF OwnPidFile
<1>6. Alive(p) /\ p # Shell /\ handlers[p] = "master" /\ pc[p] # "epoll_wait"
  BY <1>3, <1>4, ShellIsNobody DEF Alive, LoopPC, InCharge
<1>7. pc'[p] = pc[p] /\ mem'[p] = Handled(p, sig, Shell)
  <2>1. pc'[p] = Received(p, sig) /\ mem'[p] = Handled(p, sig, Shell)
    BY <1>1, <1>3, <1>5, <1>6 DEF Signal
  <2> QED
    BY <1>6, <2>1 DEF Received
<1>8. /\ SameMaster(mem'[p], mem[p]) /\ ~mem'[p].has_old_master_stopped
      /\ \/ NoReload(mem'[p]) /\ \E level \in Level : ToldBy(mem'[p], level)
         \/ NotTold(mem'[p]) /\ \E level \in Level : ReloadIs(mem'[p], level, 1)
  BY <1>3, <1>7, MasterSignalled
<1>9. \A r \in Pid \ {p} : pc'[r] = pc[r] /\ mem'[r] = mem[r]
  BY <1>1, <1>5, ShellIsNobody DEF Signal
<1>a. pc[p] \in StaffedPC
  BY <1>4 DEF StaffedPC, ReadyPC, RunningPC
<1>b. Heard(p)'
  <2>1. \A i \in 1 .. Len(mem[p].workers_pid) :
          mem[p].workers_pid[i] \in Pid /\ Serving(mem[p].workers_pid[i])
    BY <1>3, <1>a, ListsPids DEF Cast, Staffed
  <2>2. \A w \in Pid : Serving(w) => handlers[w] = "worker"
    <3> SUFFICES ASSUME NEW w \in Pid, Serving(w) PROVE handlers[w] = "worker"
      OBVIOUS
    <3>1. Alive(w) /\ w # p
      BY <1>4 DEF Serving, Alive, WorkerPC, LoopPC
    <3> QED
      BY <1>2, <3>1 DEF Known
  <2> QED
    BY <1>1, <1>8, <2>1, <2>2 DEF Heard, SameMaster
<1>c. InCharge(p)' /\ pid_file' = OwnPidFile(p)'
  BY <1>1, <1>4, <1>8 DEF InCharge, OwnPidFile, SameMaster
<1>d. ToReload(p)' \/ ToStop(p)'
  BY <1>4, <1>7, <1>8, <1>b, <1>c DEF ToReload, ToStop
<1>e. Phase(p, n)'
  BY <1>2, <1>3, <1>d DEF Phase, Alone
<1>f. Steps(p)
  BY <1>1, <1>9 DEF Steps, SameMaster, Serving
<1>g. Recast(p, n, p, n, p)
  BY DEF Recast
<1>h. pc'[p] \in StaffedPC /\ mem'[p].workers_pid = mem[p].workers_pid
  BY <1>7, <1>8, <1>a DEF SameMaster
<1> QED
  BY <1>3, <1>a, <1>e, <1>f, <1>g, <1>h, StaffedStep

---------------------------------------------------------------------------
(* Handlers and parents.                                                   *)

\* what a step may do to the handlers and the parent of a process
KeepsKnown ==
    \A r \in Pid :
        /\ pc'[r] \in AsleepPC =>
              handlers'[r] = "worker" \/ (pc[r] \in AsleepPC /\ handlers'[r] = handlers[r])
        /\ pc'[r] = "unused" => pc[r] = "unused" /\ parent'[r] = parent[r]

LEMMA MoveKeepsKnown ==
    ASSUME TypeOK, NEW a \in Pid, NEW next, NEW m, Move(a, next, m), parent' = parent,
           \A r \in Pid \ {a} : handlers'[r] = handlers[r],
           next # "unused", next \in AsleepPC => handlers'[a] = "worker", Known
    PROVE  KeepsKnown
BY DEF TypeOK, Move, KeepsKnown, Known

LEMMA SignalKeepsKnown ==
    ASSUME TypeOK, NEW a \in {Shell} \cup Pid, NEW next, NEW m, NEW q, NEW sig,
           Signal(a, next, m, q, sig), UNCHANGED <<handlers, parent>>,
           next \notin AsleepPC, a \in Pid => next # "unused", Known
    PROVE  KeepsKnown
<1>1. \A r \in Pid : \/ r = a /\ pc'[r] = next
                     \/ pc'[r] = pc[r]
                     \/ pc'[r] = "exiting"
                     \/ pc'[r] = "worker_test" /\ pc[r] = "epoll_wait"
  BY DEF Signal, Received
<1> QED
  BY <1>1 DEF KeepsKnown, Known, AsleepPC

LEMMA ForkKeepsKnown ==
    ASSUME TypeOK, PidsAreFresh, NEW a \in Pid, pc[a] # "unused",
           NEW next, NEW m, NEW childpc, NEW childm, Fork(a, next, m, childpc, childm),
           next \notin AsleepPC \cup {"unused"}, childpc \notin AsleepPC \cup {"unused"},
           Known
    PROVE  KeepsKnown
<1>1. /\ next_pid \in Pid /\ pc'[a] = next /\ pc'[next_pid] = childpc
      /\ \A r \in Pid \ {a, next_pid} : pc'[r] = pc[r] /\ parent'[r] = parent[r]
  BY ForkFrame
<1>2. \A r \in Pid \ {next_pid} : handlers'[r] = handlers[r]
  BY <1>1 DEF Fork, TypeOK
<1> QED
  BY <1>1, <1>2 DEF KeepsKnown, Known

LEMMA MasterKeepsKnown ==
    ASSUME TypeOK, PidsAreFresh, Structure, Faults = {}, Known, NEW a \in Pid, Master(a)
    PROVE  KeepsKnown
<1> DEFINE moves == \E next, m :
             /\ Move(a, next, m) /\ parent' = parent
             /\ \A r \in Pid \ {a} : handlers'[r] = handlers[r]
             /\ next \notin AsleepPC \cup {"unused"}
           signals == \E next, m, q, sig :
             /\ Signal(a, next, m, q, sig) /\ UNCHANGED <<handlers, parent>>
             /\ next \notin AsleepPC \cup {"unused"}
           forks == \E next, m, childpc, childm :
             /\ Fork(a, next, m, childpc, childm) /\ pc[a] # "unused"
             /\ next \notin AsleepPC \cup {"unused"}
             /\ childpc \notin AsleepPC \cup {"unused"}
<1> USE DEF AsleepPC
<1>1. ASSUME moves \/ signals \/ forks PROVE KeepsKnown
  <2>1. CASE moves
    BY <2>1, MoveKeepsKnown
  <2>2. CASE signals
    BY <2>2, SignalKeepsKnown
  <2>3. CASE forks
    BY <2>3, ForkKeepsKnown
  <2> QED
    BY <1>1, <2>1, <2>2, <2>3
<1>2. CASE BindListenSock(a)
  <2>1. moves
    BY <1>2, NoFailure DEF BindListenSock
  <2> QED
    BY <1>1, <2>1
<1>3. CASE AddWorkProcesses(a)
  <2>1. moves
    BY <1>3 DEF AddWorkProcesses, Structure, CountIsPositive
  <2> QED
    BY <1>1, <2>1
<1>4. CASE FillPidFile(a)
  <2>1. moves
    BY <1>4, NoFailure DEF FillPidFile
  <2> QED
    BY <1>1, <2>1
<1>5. CASE ProcessSetupSignals(a)
  <2>1. \A r \in Pid \ {a} : handlers'[r] = handlers[r]
    BY <1>5 DEF ProcessSetupSignals, TypeOK
  <2>2. Move(a, "test_soft_stop", mem[a]) /\ parent' = parent
    BY <1>5 DEF ProcessSetupSignals
  <2>3. moves
    BY <2>1, <2>2
  <2> QED
    BY <1>1, <2>3
<1>6. CASE TestSoftStop(a) \/ TestHardStop(a)
  <2>1. moves
    BY <1>6 DEF TestSoftStop, TestHardStop, TestStop
  <2> QED
    BY <1>1, <2>1
<1>7. CASE TestSoftReload(a) \/ TestHardReload(a)
  <2>1. moves
    BY <1>7 DEF TestSoftReload, TestHardReload, TestReload
  <2> QED
    BY <1>1, <2>1
<1>8. CASE MarkReload(a) \/ WaitOldMaster(a) \/ FinishReload(a)
  <2>1. \A level : AfterReload(level) \in LoopPC
    BY DEF AfterReload, LoopPC
  <2>2. LoopPC \cap (AsleepPC \cup {"unused"}) = {}
    BY DEF LoopPC
  <2>3. moves
    BY <1>8, <2>1, <2>2 DEF MarkReload, WaitOldMaster, FinishReload
  <2> QED
    BY <1>1, <2>3
<1>9. CASE KillOldMaster(a)
  <2>1. signals
    BY <1>9 DEF KillOldMaster
  <2> QED
    BY <1>1, <2>1
<1>a. CASE StopKill(a)
  <2>1. moves \/ signals
    BY <1>a DEF StopKill
  <2> QED
    BY <1>1, <2>1
<1>b. CASE StopWait(a)
  <2>1. CASE pc' = pc
    BY <1>b, <2>1 DEF StopWait, KeepsKnown, Known
  <2>2. CASE Move(a, "stop_end", mem[a])
    <3>1. moves
      BY <1>b, <2>2 DEF StopWait
    <3> QED
      BY <1>1, <3>1
  <2> QED
    BY <1>b, <2>1, <2>2 DEF StopWait
<1>c. CASE StopEnd(a)
  <2>1. moves \/ signals
    BY <1>c DEF StopEnd
  <2> QED
    BY <1>1, <2>1
<1>d. CASE ServerReload(a)
  <2>1. forks
    BY <1>d DEF ServerReload
  <2> QED
    BY <1>1, <2>1
<1>e. CASE SecondFork(a)
  <2>1. forks
    BY <1>e DEF SecondFork
  <2> QED
    BY <1>1, <2>1
<1>f. CASE ForkWorker(a)
  <2>1. forks
    BY <1>f DEF ForkWorker
  <2> QED
    BY <1>1, <2>1
<1> QED
  BY <1>2, <1>3, <1>4, <1>5, <1>6, <1>7, <1>8, <1>9, <1>a, <1>b, <1>c, <1>d, <1>e, <1>f
  DEF Master

LEMMA OthersKeepKnown ==
    ASSUME TypeOK, Known, NEW a \in Pid, Worker(a) \/ ProcessExit(a) \/ Traffic(a)
    PROVE  KeepsKnown
<1> USE DEF AsleepPC
<1>1. CASE WorkerSetup(a)
  <2>1. handlers'[a] = "worker" /\ \A r \in Pid \ {a} : handlers'[r] = handlers[r]
    BY <1>1 DEF WorkerSetup, TypeOK
  <2> QED
    BY <1>1, <2>1, MoveKeepsKnown DEF WorkerSetup
<1>2. CASE WorkerTest(a) \/ WorkerBlocks(a) \/ Traffic(a)
  <2>1. /\ handlers[a] = "worker" /\ UNCHANGED <<handlers, parent>>
        /\ \E next \in AsleepPC \cup {"exiting"} : Move(a, next, mem[a])
    BY <1>2 DEF WorkerTest, WorkerBlocks, Traffic, Known
  <2> QED
    BY <2>1, MoveKeepsKnown
<1>3. CASE ProcessExit(a)
  BY <1>3, SignalKeepsKnown DEF ProcessExit
<1> QED
  BY <1>1, <1>2, <1>3 DEF Worker

LEMMA OperatorKeepsKnown ==
    ASSUME TypeOK, Known, Operator
    PROVE  KeepsKnown
<1>1. CASE Start
  <2>1. next_pid \in Pid /\ UNCHANGED <<handlers, parent>>
    BY <1>1 DEF Start, TypeOK, Pid
  <2>2. PICK m : Move(next_pid, "bind_listen_sock", m)
    BY <1>1 DEF Start
  <2> QED
    BY <2>1, <2>2, MoveKeepsKnown DEF AsleepPC
<1>2. ASSUME NEW command, NEW sig, SignalMaster(command, sig) PROVE KeepsKnown
  BY <1>2, SignalKeepsKnown, ShellIsNobody DEF SignalMaster, AsleepPC
<1> QED
  BY <1>1, <1>2 DEF Operator, StopSoft, StopHard, ReloadSoft, ReloadHard

LEMMA NextKeepsKnown ==
    ASSUME TypeOK, PidsAreFresh, Structure, Faults = {}, Known, [Next]_vars
    PROVE  Known'
<1>1. KeepsKnown
  <2>1. CASE vars' = vars
    BY <2>1 DEF vars, KeepsKnown, Known
  <2>2. ASSUME NEW a \in Pid, Failure(a) PROVE FALSE
    BY <2>2, NoFailure DEF Failure, ForkWorkerFails, ServerReloadFails, SecondForkFails
  <2> QED
    BY <2>1, <2>2, MasterKeepsKnown, OthersKeepKnown, OperatorKeepsKnown DEF Next
<1> QED
  BY <1>1 DEF KeepsKnown, Known

---------------------------------------------------------------------------
(* The invariant.                                                          *)

LEMMA MasterCast ==
    ASSUME TypeOK, PidsAreFresh, Structure, Faults = {}, NEW p \in {Shell} \cup Pid,
           NEW n \in {Shell} \cup Pid, Cast(p, n), NEW a \in Pid, Master(a)
    PROVE  \E p2, n2 \in {Shell} \cup Pid : Cast(p2, n2)'
<1>1. CASE BindListenSock(a) \/ AddWorkProcesses(a) \/ ForkWorker(a) \/ FillPidFile(a)
           \/ ProcessSetupSignals(a)
  BY <1>1, BindListenSockCast, AddWorkProcessesCast, ForkWorkerCast, FillPidFileCast,
     ProcessSetupSignalsCast
<1>2. CASE TestSoftStop(a) \/ TestHardStop(a) \/ TestSoftReload(a) \/ TestHardReload(a)
  BY <1>2, LoopCast
<1>3. CASE ServerReload(a) \/ SecondFork(a)
  BY <1>3, ServerReloadCast, SecondForkCast
<1>4. CASE MarkReload(a) \/ KillOldMaster(a) \/ WaitOldMaster(a) \/ FinishReload(a)
  BY <1>4, MarkReloadCast, KillOldMasterCast, WaitOldMasterCast, FinishReloadCast
<1>5. CASE StopKill(a) \/ StopWait(a) \/ StopEnd(a)
  BY <1>5, StopKillCast, StopWaitCast, StopEndCast
<1> QED
  BY <1>1, <1>2, <1>3, <1>4, <1>5 DEF Master

LEMMA OperatorCast ==
    ASSUME TypeOK, PidsAreFresh, PatientOperator, Known, NEW p \in {Shell} \cup Pid,
           NEW n \in {Shell} \cup Pid, Cast(p, n), Operator
    PROVE  \E p2, n2 \in {Shell} \cup Pid : Cast(p2, n2)'
<1>1. CASE Start
  BY <1>1, StartCast
<1>2. CASE StopSoft \/ StopHard \/ ReloadSoft \/ ReloadHard
  BY <1>2, SignalMasterCast DEF StopSoft, StopHard, ReloadSoft, ReloadHard
<1> QED
  BY <1>1, <1>2 DEF Operator

LEMMA StutterCast ==
    ASSUME NEW p, NEW n, Cast(p, n), vars' = vars
    PROVE  Cast(p, n)'
<1> USE DEF vars
<1>1. /\ Starting(p)' = Starting(p) /\ Idle(p)' = Idle(p) /\ ToReload(p)' = ToReload(p)
      /\ ToStop(p)' = ToStop(p) /\ Growing(p, n)' = Growing(p, n)
      /\ HandingOver(p, n)' = HandingOver(p, n) /\ Succeeding(n)' = Succeeding(n)
      /\ Down' = Down
  BY DEF Starting, Idle, ToReload, ToStop, Growing, HandingOver, Succeeding, Down,
         InCharge, Heard, Reloads, New, OwnPidFile
<1>2. Phase(p, n)'
  BY <1>1 DEF Cast, Phase, Alone, Both
<1>3. \A r \in Pid \ {p, n} : Bystander(r, p, n)'
  BY DEF Cast, Bystander, Leaves, Serving, Lists
<1>4. \A q \in {p, n} \cap Pid : Staffed(q)'
  BY DEF Cast, Staffed, Serving
<1> QED
  BY <1>2, <1>3, <1>4 DEF Cast

LEMMA NextKeepsCommandInv ==
    ASSUME TypeOK, PidsAreFresh, Structure, PatientOperator, CommandInv, [Next]_vars
    PROVE  CommandInv'
<1>1. Known' /\ Faults = {} /\ Known
  BY NextKeepsKnown DEF CommandInv, PatientOperator
<1>2. PICK p \in {Shell} \cup Pid, n \in {Shell} \cup Pid : Cast(p, n)
  BY DEF CommandInv
<1>3. \E p2, n2 \in {Shell} \cup Pid : Cast(p2, n2)'
  <2>1. CASE vars' = vars
    BY <1>2, <2>1, StutterCast
  <2>2. CASE Operator
    BY <1>1, <1>2, <2>2, OperatorCast
  <2>3. ASSUME NEW a \in Pid, Master(a)
        PROVE  \E p2, n2 \in {Shell} \cup Pid : Cast(p2, n2)'
    BY <1>1, <1>2, <2>3, MasterCast
  <2>4. ASSUME NEW a \in Pid, Failure(a) PROVE FALSE
    BY <1>1, <2>4, NoFailure
    DEF Failure, ForkWorkerFails, ServerReloadFails, SecondForkFails
  <2>5. ASSUME NEW a \in Pid, Worker(a) \/ ProcessExit(a) \/ Traffic(a)
        PROVE  \E p2, n2 \in {Shell} \cup Pid : Cast(p2, n2)'
    BY <1>1, <1>2, <2>5, WorkerCast, ProcessExitCast
  <2> QED
    BY <2>1, <2>2, <2>3, <2>4, <2>5 DEF Next
<1> QED
  BY <1>1, <1>3 DEF CommandInv

LEMMA InitCommandInv == ASSUME Init PROVE CommandInv
<1>1. Known
  BY DEF Init, Known, AsleepPC
<1>2. Phase(Shell, Shell)
  BY DEF Init, Phase, Down
<1>3. \A r \in Pid : Bystander(r, Shell, Shell)
  BY DEF Init, Bystander
<1>4. Cast(Shell, Shell)
  BY <1>2, <1>3, ShellIsNobody DEF Cast
<1> QED
  BY <1>1, <1>4 DEF CommandInv

(* The structure that holds while at most contained failures happen holds  *)
(* here, where none can.                                                   *)
LEMMA NothingFails ==
    ASSUME TypeOK, ServiceInv, PatientOperator
    PROVE  PidsAreFresh /\ Structure
BY DEF TypeOK, ServiceInv, PatientOperator, Contained

(* With an operator who lets each command settle, and nothing that fails,  *)
(* the server always is in one phase of one command.                       *)
THEOREM CommandsCorrect == ASSUME PatientOperator PROVE Spec => []CommandInv
<1>1. Init => CommandInv
  BY InitCommandInv
<1>2. TypeOK /\ ServiceInv /\ CommandInv /\ [Next]_vars => CommandInv'
  BY NextKeepsCommandInv, NothingFails
<1> QED
  BY <1>1, <1>2, TypeCorrect, ServiceCorrect, PTL DEF Spec

---------------------------------------------------------------------------
(* What the invariant is for.                                              *)

(* Whenever the server has settled, the pid file tells what there is: one  *)
(* master in its loop and the workers it lists, or no process and no file. *)
THEOREM PidFileTellsTruth == ASSUME PatientOperator PROVE Spec => []PidFileTellsTheServer
<1>1. ASSUME TypeOK, CommandInv PROVE PidFileTellsTheServer
  <2> SUFFICES ASSUME Settled
               PROVE  LET alive == {p \in Pid : Alive(p)} IN
                      IF alive = {} THEN pid_file = NoFile
                      ELSE /\ pc[pid_file.master] \in LoopPC
                           /\ alive = {pid_file.master} \cup
                                {pid_file.workers[i] : i \in 1 .. Len(pid_file.workers)}
    BY DEF PidFileTellsTheServer
  <2>1. PICK p \in {Shell} \cup Pid, n \in {Shell} \cup Pid : Cast(p, n)
    BY <1>1 DEF CommandInv
  <2>2. /\ p \in Pid => Idle(p)
        /\ p = Shell => Down
        /\ \A r \in Pid \ {p} :
             \/ ~Alive(r)
             \/ /\ p \in Pid
                /\ \E i \in 1 .. Len(mem[p].workers_pid) : mem[p].workers_pid[i] = r
    BY <2>1, SettledPhase
  <2>3. CASE p = Shell
    BY <2>2, <2>3, ShellIsNobody DEF Down
  <2>4. CASE p \in Pid
    <3>1. /\ pid_file.master = p /\ pid_file.workers = mem[p].workers_pid
          /\ pc[p] \in LoopPC /\ Alive(p)
      BY <2>2, <2>4 DEF Idle, OwnPidFile, Alive, LoopPC
    <3>2. ASSUME NEW i \in 1 .. Len(mem[p].workers_pid)
          PROVE  mem[p].workers_pid[i] \in Pid /\ Alive(mem[p].workers_pid[i])
      <4>1. Serving(mem[p].workers_pid[i])
        BY <2>1, <2>4, <3>1 DEF Cast, Staffed, StaffedPC, ReadyPC, RunningPC
      <4> QED
        BY <1>1, <2>4, <4>1, ListsPids DEF Serving, Alive, WorkerPC
    <3> QED
      BY <2>2, <2>4, <3>1, <3>2
  <2> QED
    BY <2>3, <2>4
<1> QED
  BY <1>1, TypeCorrect, CommandsCorrect, PTL

(* A new master finishes its reload only when the old one has done all its *)
(* work, although every child that ends sets the flag it waits for.        *)
THEOREM NewMasterWaits == ASSUME PatientOperator PROVE Spec => []ReloadWaitsForOldMaster
<1>1. ASSUME CommandInv, NEW a \in Pid, pc[a] = "finish_reload"
      PROVE  pc[mem[a].old_master_process] \in {"exiting", "exited"}
  <2>1. PICK p \in {Shell} \cup Pid, n \in {Shell} \cup Pid : Cast(p, n)
    BY <1>1 DEF CommandInv
  <2>2. a \in {p, n} /\ Phase(p, n)
    BY <1>1, <2>1, Actors DEF WorkerPC, GonePC, Cast
  <2>3. a = n
    BY <1>1, <2>2, Locations DEF StartPC, RunningPC, LoopPC, StopPC
  <2>4. Succeeding(n)
    BY <1>1, <2>2, <2>3, ShellIsNobody DEF Phase, Both, Growing, HandingOver, FormingPC
  <2> QED
    BY <2>3, <2>4 DEF Succeeding, GonePC
<1>2. CommandInv => ReloadWaitsForOldMaster
  BY <1>1 DEF ReloadWaitsForOldMaster
<1> QED
  BY <1>2, CommandsCorrect, PTL

(* Who writes the pid file.                                                *)
LEMMA PidFileWriters ==
    ASSUME Faults = {}, [Next]_vars, pid_file' # pid_file
    PROVE  \E a \in Pid : FillPidFile(a) \/ FinishReload(a) \/ StopEnd(a)
<1>1. CASE UNCHANGED vars
  BY <1>1 DEF vars
<1>2. CASE Operator
  BY <1>2 DEF Operator, Start, StopSoft, StopHard, ReloadSoft, ReloadHard, SignalMaster
<1>3. ASSUME NEW a \in Pid, Master(a)
      PROVE  FillPidFile(a) \/ FinishReload(a) \/ StopEnd(a)
  BY <1>3 DEF Master, BindListenSock, AddWorkProcesses, ForkWorker, ProcessSetupSignals,
     TestSoftStop, TestHardStop, TestSoftReload, TestHardReload, TestStop, TestReload,
     ServerReload, MarkReload, SecondFork, KillOldMaster, WaitOldMaster, StopKill, StopWait
<1>4. ASSUME NEW a \in Pid, Failure(a) PROVE FALSE
  BY <1>4, NoFailure DEF Failure, ForkWorkerFails, ServerReloadFails, SecondForkFails
<1>5. ASSUME NEW a \in Pid, Worker(a) \/ ProcessExit(a) \/ Traffic(a) PROVE FALSE
  BY <1>5 DEF Worker, WorkerSetup, WorkerTest, WorkerBlocks, ProcessExit, Traffic
<1> QED
  BY <1>1, <1>2, <1>3, <1>4, <1>5 DEF Next

(* The pid file goes from one master to a later one, and nobody but the    *)
(* last master removes it.                                                 *)
THEOREM PidFileGoesOn == ASSUME PatientOperator PROVE Spec => PidFileMovesOn
<1>1. ASSUME TypeOK, PidsAreFresh, Structure, CommandInv, [Next]_vars, pid_file' # pid_file
      PROVE  PidFileStep
  <2>1. Faults = {}
    BY DEF PatientOperator
  <2>2. PICK p \in {Shell} \cup Pid, n \in {Shell} \cup Pid : Cast(p, n)
    BY <1>1 DEF CommandInv
  <2>3. PICK a \in Pid : FillPidFile(a) \/ FinishReload(a) \/ StopEnd(a)
    BY <1>1, <2>1, PidFileWriters
  <2>4. a \in {p, n} /\ Phase(p, n)
    BY <2>2, <2>3, Actors DEF FillPidFile, FinishReload, StopEnd, WorkerPC, GonePC, Cast
  <2>5. CASE FillPidFile(a)
    <3>1. pc[a] = "fill_pid_file" /\ pid_file' = OwnPidFile(a)
      BY <2>1, <2>5, NoFailure DEF FillPidFile
    <3>2. pid_file'.master = a
      BY <3>1 DEF OwnPidFile
    <3>3. CASE Starting(a)
      <4>1. pid_file.master = 0
        BY <3>1, <3>3 DEF Starting, NoFile, Shell
      <4> QED
        BY <3>2, <4>1, ShellIsNobody DEF PidFileStep
    <3>4. CASE a = n /\ p \in Pid /\ Growing(p, n) /\ Reloading(a)
      <4>1. pid_file.master = p /\ mem[a].old_master_process = p
        BY <3>1, <3>4 DEF Growing, OwnPidFile
      <4>2. mem[a].old_master_process \in 1 .. a - 1
        BY <1>1, <3>1, <3>4 DEF Structure, MasterKnowsItself, FormingPC
      <4> QED
        BY <3>2, <4>1, <4>2, ShellIsNobody DEF PidFileStep
    <3> QED
      BY <2>4, <3>1, <3>3, <3>4, MakingIsNew
  <2>6. CASE FinishReload(a)
    <3>1. pc[a] = "finish_reload" /\ pid_file' = OwnPidFile(a)
      BY <2>1, <2>6, NoFailure DEF FinishReload
    <3>2. a = n
      BY <2>4, <3>1, Locations DEF StartPC, RunningPC, LoopPC, StopPC
    <3>3. Succeeding(n)
      BY <2>4, <3>1, <3>2, ShellIsNobody
      DEF Phase, Both, Growing, HandingOver, FormingPC
    <3> QED
      BY <1>1, <3>1, <3>2, <3>3 DEF Succeeding
  <2>7. CASE StopEnd(a)
    <3>1. pc[a] = "stop_end" /\ pid_file' = NoFile
      BY <1>1, <2>7 DEF StopEnd
    <3>2. /\ a = p /\ p # n
          /\ \/ n = Shell /\ ToStop(p)
             \/ n \in Pid /\ HandingOver(p, n)
      BY <2>4, <3>1, StopsInCharge DEF StopPC
    <3>3. n = Shell
      <4>1. ASSUME HandingOver(p, n) PROVE ReloadFlag(mem[a]) = 2
        <5>1. mem[a].level \in Level
          BY <1>1 DEF TypeOK, Memory
        <5> QED
          BY <3>1, <3>2, <4>1, <5>1
          DEF HandingOver, Reloads, ReloadIs, ReloadFlag, LoopPC, Level
      <4> QED
        BY <1>1, <2>7, <3>2, <4>1 DEF StopEnd
    <3>4. ASSUME NEW r \in Pid,
                 pc[r] \in LoopPC \cup {"kill_old_master", "wait_old_master", "finish_reload"}
          PROVE  FALSE
      <4>1. r \in {p, n}
        BY <2>2, <3>4, Actors DEF LoopPC, WorkerPC, GonePC
      <4> QED
        BY <3>1, <3>2, <3>3, <3>4, <4>1, ShellIsNobody DEF LoopPC
    <3>5. pid_file'.master = Shell
      BY <3>1 DEF NoFile
    <3> QED
      BY <3>4, <3>5 DEF PidFileStep
  <2> QED
    BY <2>3, <2>5, <2>6, <2>7
<1>2. TypeOK /\ ServiceInv /\ CommandInv /\ [Next]_vars => [PidFileStep]_pid_file
  BY <1>1, NothingFails
<1> QED
  BY <1>2, TypeCorrect, ServiceCorrect, CommandsCorrect, PTL DEF Spec, PidFileMovesOn

---------------------------------------------------------------------------
(* The server is one of generations.                                       *)

\* the same command is being carried out
SameAsked(m, o) ==
    /\ m.old_master_process = o.old_master_process
    /\ SameStops(m, o)
    /\ (m.process_soft_reload = 0) = (o.process_soft_reload = 0)
    /\ (m.process_hard_reload = 0) = (o.process_hard_reload = 0)

(* The generations that serve are those of the cast that have workers and  *)
(* have not told all of them to stop.                                      *)
GenerationsFit ==
    \A p, n \in {Shell} \cup Pid : Structure /\ Cast(p, n) =>
        /\ Generation \subseteq {p, n} \cap Pid
        /\ \A q \in Pid : pc[q] \in ReadyPC \cup {"fill_pid_file"} => q \in Generation
        /\ \A q \in Generation : pc[q] \in StaffedPC \cup {"stop_kill"}

LEMMA GenerationsAre == GenerationsFit
<1> SUFFICES ASSUME NEW p \in {Shell} \cup Pid, NEW n \in {Shell} \cup Pid,
                    Structure, Cast(p, n)
             PROVE  /\ Generation \subseteq {p, n} \cap Pid
                    /\ \A q \in Pid : pc[q] \in ReadyPC \cup {"fill_pid_file"} =>
                         q \in Generation
                    /\ \A q \in Generation : pc[q] \in StaffedPC \cup {"stop_kill"}
  BY DEF GenerationsFit
<1>1. ASSUME NEW w \in Pid, Serving(w)
      PROVE  parent[w] \in {p, n} \cap Pid /\ Lists(parent[w], w)
  <2>1. w \notin {p, n}
    BY <1>1, Locations
    DEF Cast, Serving, WorkerPC, StartPC, RunningPC, LoopPC, StopPC, FormingPC, HandoverPC
  <2>2. Bystander(w, p, n)
    BY <2>1 DEF Cast
  <2>3. pc[w] \notin {"unused", "exited", "exiting"}
    BY <1>1 DEF Serving, WorkerPC
  <2> QED
    BY <1>1, <2>2, <2>3 DEF Bystander, Leaves
<1>2. ASSUME NEW q \in Generation
      PROVE  q \in {p, n} \cap Pid /\ pc[q] \in StaffedPC \cup {"stop_kill"}
  <2>1. PICK w \in Pid : parent[w] = q /\ Serving(w)
    BY DEF Generation
  <2> QED
    BY <1>1, <2>1 DEF Lists
<1>3. ASSUME NEW q \in Pid, pc[q] \in ReadyPC \cup {"fill_pid_file"}
      PROVE  q \in Generation
  BY <1>3 DEF Structure, ReadyServes, Generation
<1> QED
  BY <1>2, <1>3

(* What a step must leave for nobody to see it.                            *)
LEMMA GenerationKept ==
    ASSUME \A w \in Pid : /\ Serving(w)' <=> Serving(w)
                          /\ Serving(w) => parent'[w] = parent[w]
    PROVE  Generation' = Generation
BY DEF Generation

LEMMA CommandKept ==
    ASSUME pid_file'.master = pid_file.master,
           pid_file.master # Shell => SameAsked(mem'[pid_file.master], mem[pid_file.master])
    PROVE  CommandOf(pid_file.master)' = CommandOf(pid_file.master)
BY DEF CommandOf, Reloading, SameAsked, SameStops

LEMMA PromiseKept ==
    ASSUME CommandOf(pid_file.master)' = CommandOf(pid_file.master),
           Generation' = Generation, pid_file'.master = pid_file.master
    PROVE  UNCHANGED Promise!vars
BY DEF Promise!vars

(* A step that only moves its process on.                                  *)
LEMMA MoveKeepsPromise ==
    ASSUME TypeOK, NEW a \in Pid, NEW next, NEW m, Move(a, next, m),
           UNCHANGED <<parent, pid_file>>, Serving(a)' <=> Serving(a), SameAsked(m, mem[a])
    PROVE  UNCHANGED Promise!vars
<1>1. mem'[a] = m /\ \A r \in Pid \ {a} : pc'[r] = pc[r] /\ mem'[r] = mem[r]
  BY DEF TypeOK, Move
<1>2. \A w \in Pid \ {a} : Serving(w)' <=> Serving(w)
  BY <1>1 DEF Serving
<1>3. Generation' = Generation
  BY <1>2, GenerationKept
<1>4. \A r \in Pid : SameAsked(mem'[r], mem[r])
  BY <1>1 DEF SameAsked, SameStops
<1>5. pid_file.master \in {Shell} \cup Pid
  BY DEF TypeOK
<1> QED
  BY <1>3, <1>4, <1>5, CommandKept, PromiseKept

(* The assignments that change nothing of what a master was asked for.     *)
LEMMA SameAskedMemory ==
    ASSUME NEW o \in Memory
    PROVE  /\ SameAsked(o, o)
           /\ \A level : SameAsked([o EXCEPT !.level = level], o)
           /\ \A pids : SameAsked([o EXCEPT !.workers_pid = pids], o)
           /\ SameAsked([o EXCEPT !.has_old_master_stopped = FALSE], o)
           /\ \A count : SameAsked([o EXCEPT !.count_workflows = count], o)
           /\ ReloadFlag(o) # 0 => SameAsked(SetReloadFlag(o, 2), o)
<1>1. SameAsked(o, o) /\ \A level : SameAsked([o EXCEPT !.level = level], o)
  BY DEF Memory, SameAsked, SameStops
<1>2. /\ \A pids : SameAsked([o EXCEPT !.workers_pid = pids], o)
      /\ SameAsked([o EXCEPT !.has_old_master_stopped = FALSE], o)
      /\ \A count : SameAsked([o EXCEPT !.count_workflows = count], o)
  BY DEF Memory, SameAsked, SameStops
<1>3. ASSUME ReloadFlag(o) # 0 PROVE SameAsked(SetReloadFlag(o, 2), o)
  BY <1>3 DEF Memory, SameAsked, SameStops, SetReloadFlag, ReloadFlag
<1> QED
  BY <1>1, <1>2, <1>3

(* The steps of a master that nobody sees.                                 *)
LEMMA QuietMasterKeepsPromise ==
    ASSUME TypeOK, Structure, Faults = {}, NEW p \in {Shell} \cup Pid,
           NEW n \in {Shell} \cup Pid, Cast(p, n), NEW a \in Pid,
           \/ BindListenSock(a) \/ AddWorkProcesses(a) \/ ProcessSetupSignals(a)
           \/ TestSoftStop(a) \/ TestHardStop(a) \/ TestSoftReload(a) \/ TestHardReload(a)
           \/ MarkReload(a) \/ WaitOldMaster(a) \/ StopWait(a)
    PROVE  UNCHANGED Promise!vars
<1> USE DEF WorkerPC
<1>1. mem[a] \in Memory
  BY DEF TypeOK
<1>2. ASSUME NEW m, NEW next \in PC \ WorkerPC, Move(a, next, m), pc[a] \notin WorkerPC,
             UNCHANGED <<parent, pid_file>>, SameAsked(m, mem[a])
      PROVE  UNCHANGED Promise!vars
  <2>1. pc'[a] = next
    BY <1>2 DEF Move, TypeOK
  <2>2. ~Serving(a) /\ ~Serving(a)'
    BY <1>2, <2>1 DEF Serving
  <2> QED
    BY <1>2, <2>2, MoveKeepsPromise
<1>3. CASE BindListenSock(a)
  <2>1. Move(a, "add_work_processes", mem[a]) /\ UNCHANGED <<parent, pid_file>>
        /\ pc[a] = "bind_listen_sock"
    BY <1>3, NoFailure DEF BindListenSock
  <2> QED
    BY <1>1, <1>2, <2>1, SameAskedMemory DEF PC
<1>4. CASE AddWorkProcesses(a)
  <2>1. pc[a] = "add_work_processes" /\ UNCHANGED <<parent, pid_file>>
    BY <1>4 DEF AddWorkProcesses
  <2>2. Move(a, "fork_worker", [mem[a] EXCEPT !.workers_pid = << >>])
    BY <1>4, <2>1 DEF AddWorkProcesses, Structure, CountIsPositive
  <2> QED
    BY <1>1, <1>2, <2>1, <2>2, SameAskedMemory DEF PC
<1>5. CASE ProcessSetupSignals(a)
  <2>1. Move(a, "test_soft_stop", mem[a]) /\ UNCHANGED <<parent, pid_file>>
        /\ pc[a] = "process_setup_signals"
    BY <1>5 DEF ProcessSetupSignals
  <2> QED
    BY <1>1, <1>2, <2>1, SameAskedMemory DEF PC, LoopPC
<1>6. ASSUME NEW here \in LoopPC, NEW flag, NEW level, NEW next \in LoopPC,
             TestStop(a, here, flag, level, next)
      PROVE  UNCHANGED Promise!vars
  <2>1. pc[a] \in LoopPC /\ UNCHANGED <<parent, pid_file>>
    BY <1>6 DEF TestStop
  <2>2. \/ Move(a, "stop_kill", [mem[a] EXCEPT !.level = level])
        \/ Move(a, next, mem[a])
    BY <1>6 DEF TestStop
  <2> QED
    BY <1>1, <1>2, <2>1, <2>2, SameAskedMemory DEF PC, LoopPC
<1>7. ASSUME NEW here \in LoopPC, NEW flag, NEW level, NEW next \in LoopPC,
             TestReload(a, here, flag, level, next)
      PROVE  UNCHANGED Promise!vars
  <2>1. pc[a] \in LoopPC /\ UNCHANGED <<parent, pid_file>>
    BY <1>7 DEF TestReload
  <2>2. \/ Move(a, "server_reload", [mem[a] EXCEPT !.level = level])
        \/ Move(a, next, mem[a])
    BY <1>7 DEF TestReload
  <2> QED
    BY <1>1, <1>2, <2>1, <2>2, SameAskedMemory DEF PC, LoopPC
<1>8. CASE TestSoftStop(a) \/ TestHardStop(a) \/ TestSoftReload(a) \/ TestHardReload(a)
  BY <1>6, <1>7, <1>8
  DEF TestSoftStop, TestHardStop, TestSoftReload, TestHardReload, LoopPC
<1>9. CASE MarkReload(a)
  <2>1. /\ pc[a] = "mark_reload" /\ UNCHANGED <<parent, pid_file>>
        /\ Move(a, AfterReload(mem[a].level), SetReloadFlag(mem[a], 2))
    BY <1>9 DEF MarkReload
  <2>2. a \in {p, n} /\ Phase(p, n)
    BY <2>1, Actors DEF WorkerPC, GonePC, Cast
  <2>3. a = p /\ n \in Pid /\ Both(p, n)
    BY <2>1, <2>2, LoopsInCharge
    DEF RunningPC, Idle, ToReload, ToStop, LoopPC, StopPC
  <2>4. \E level \in Level : Reloads(a, level)
    <3>1. mem[n].level \in Level
      BY <2>3 DEF TypeOK, Memory
    <3> QED
      BY <2>1, <2>3, <3>1 DEF Both, Growing, HandingOver, StopPC
  <2>5. ReloadFlag(mem[a]) # 0
    BY <2>1, <2>4 DEF Reloads, LoopPC, ReloadIs, ReloadFlag, Level
  <2>6. AfterReload(mem[a].level) \in PC \ WorkerPC
    BY DEF AfterReload, PC, LoopPC
  <2> QED
    BY <1>1, <1>2, <2>1, <2>5, <2>6, SameAskedMemory
<1>a. CASE WaitOldMaster(a)
  <2>1. /\ pc[a] = "wait_old_master" /\ UNCHANGED <<parent, pid_file>>
        /\ Move(a, "finish_reload", [mem[a] EXCEPT !.has_old_master_stopped = FALSE])
    BY <1>a DEF WaitOldMaster
  <2> QED
    BY <1>1, <1>2, <2>1, SameAskedMemory DEF PC
<1>b. CASE StopWait(a)
  <2>1. pc[a] = "stop_wait" /\ UNCHANGED <<parent, pid_file>>
    BY <1>b DEF StopWait
  <2>2. CASE Move(a, "stop_end", mem[a])
    BY <1>1, <1>2, <2>1, <2>2, SameAskedMemory DEF PC
  <2>3. CASE UNCHANGED <<pc, mem>>
    BY <2>1, <2>3, GenerationKept, PromiseKept DEF Serving, CommandOf, Reloading
  <2> QED
    BY <1>b, <2>2, <2>3 DEF StopWait
<1> QED
  BY <1>3, <1>4, <1>5, <1>8, <1>9, <1>a, <1>b

(* A new master, or the first one, is named when it has its workers.       *)
LEMMA FillPidFileNames ==
    ASSUME TypeOK, Structure, Faults = {}, NEW p \in {Shell} \cup Pid,
           NEW n \in {Shell} \cup Pid, Cast(p, n), NEW a \in Pid, FillPidFile(a)
    PROVE  Promise!Name(a)
<1>1. /\ pc[a] = "fill_pid_file" /\ pid_file' = OwnPidFile(a) /\ parent' = parent
      /\ \E next \in {"kill_old_master", "process_setup_signals"} : Move(a, next, mem[a])
  BY NoFailure DEF FillPidFile
<1>2. a \in {p, n} /\ Phase(p, n)
  BY <1>1, Actors DEF WorkerPC, GonePC, Cast
<1>3. pid_file'.master = a
  BY <1>1 DEF OwnPidFile
<1>4. /\ mem' = mem /\ pc'[a] \in {"kill_old_master", "process_setup_signals"}
      /\ \A r \in Pid \ {a} : pc'[r] = pc[r]
  BY <1>1 DEF Move, TypeOK
<1>5. Generation' = Generation
  BY <1>1, <1>4, GenerationKept DEF Serving, WorkerPC
<1>6. \A q \in Pid : pc[q] \in ReadyPC \cup {"fill_pid_file"} => q \in Generation
  BY GenerationsAre DEF GenerationsFit
<1>7. a \in Generation
  BY <1>1, <1>6
<1>8. CASE Starting(a) /\ ~Reloading(a)
  <2>1. pid_file.master = Shell
    BY <1>1, <1>8 DEF Starting, NoFile
  <2>2. CommandOf(pid_file.master) = "nothing" /\ a # Shell
    BY <2>1, ShellIsNobody DEF CommandOf
  <2>3. CommandOf(pid_file.master)' = "nothing"
    BY <1>3, <1>4, <1>8, <2>2 DEF CommandOf, Reloading, Starting, NotTold, NoReload
  <2> QED
    BY <1>3, <1>5, <1>7, <2>1, <2>2, <2>3 DEF Promise!Name
<1>9. CASE a = n /\ p \in Pid /\ p # n /\ Growing(p, n) /\ Reloading(a)
  <2>1. pid_file.master = p
    BY <1>1, <1>9 DEF Growing, OwnPidFile
  <2>2. p \in Generation
    BY <1>6, <1>9 DEF Growing, Reloads, ReadyPC, RunningPC
  <2>3. CommandOf(p) = "reload"
    <3>1. mem[n].level \in Level
      BY <1>9 DEF TypeOK, Memory
    <3>2. mem[p].process_soft_reload # 0 \/ mem[p].process_hard_reload # 0
      BY <1>9, <3>1 DEF Growing, Reloads, ReloadIs, Level
    <3> QED
      BY <1>9, <3>2, ShellIsNobody DEF CommandOf, Growing, InCharge, Reloading, NotTold
  <2>4. CommandOf(pid_file.master)' = "replace"
    BY <1>3, <1>4, <1>9, ShellIsNobody DEF CommandOf, Reloading
  <2> QED
    BY <1>3, <1>5, <1>7, <1>9, <2>1, <2>2, <2>3, <2>4 DEF Promise!Name
<1> QED
  BY <1>1, <1>2, <1>8, <1>9, MakingIsNew

(* A reload is over when the new master has found the old one gone.        *)
LEMMA FinishReloadIsDone ==
    ASSUME TypeOK, Structure, Faults = {}, NEW p \in {Shell} \cup Pid,
           NEW n \in {Shell} \cup Pid, Cast(p, n), NEW a \in Pid, FinishReload(a)
    PROVE  Promise!ReloadDone
<1>1. /\ pc[a] = "finish_reload" /\ pid_file' = OwnPidFile(a) /\ parent' = parent
      /\ Move(a, AfterReload(mem[a].level),
              [SetReloadFlag(mem[a], 0) EXCEPT
                  !.old_master_process = mem[a].new_master_process,
                  !.new_master_process = 0])
  BY NoFailure DEF FinishReload
<1>2. a \in {p, n} /\ Phase(p, n)
  BY <1>1, Actors DEF WorkerPC, GonePC, Cast
<1>3. a = n
  BY <1>1, <1>2, Locations DEF StartPC, RunningPC, LoopPC, StopPC
<1>4. p = Shell /\ Succeeding(n)
  BY <1>1, <1>2, <1>3, ShellIsNobody DEF Phase, Both, Growing, HandingOver, FormingPC
<1>5. pid_file.master = a /\ pid_file'.master = a
  BY <1>1, <1>3, <1>4 DEF Succeeding, OwnPidFile
<1>6. mem[a] \in Memory /\ mem[a].level \in Level
  BY DEF TypeOK, Memory
<1>7. mem[a].old_master_process # a
  BY <1>1, <1>3, <1>4 DEF Succeeding, GonePC
<1>8. CommandOf(pid_file.master) = "replace"
  BY <1>5, <1>7, ShellIsNobody DEF CommandOf, Reloading
<1>9. /\ mem'[a].old_master_process = a
      /\ ~mem'[a].process_soft_stop /\ ~mem'[a].process_hard_stop
      /\ mem'[a].process_soft_reload = 0 /\ mem'[a].process_hard_reload = 0
  <2>1. mem'[a] = [SetReloadFlag(mem[a], 0) EXCEPT
                      !.old_master_process = mem[a].new_master_process,
                      !.new_master_process = 0]
    BY <1>1 DEF Move, TypeOK
  <2>2. NotTold(mem[a]) /\ ReloadIs(mem[a], mem[a].level, 1) /\ mem[a].new_master_process = a
    BY <1>1, <1>3, <1>4 DEF Succeeding, New
  <2> QED
    BY <1>6, <2>1, <2>2 DEF SetReloadFlag, NotTold, ReloadIs, Memory, Level
<1>a. CommandOf(pid_file.master)' = "nothing"
  BY <1>5, <1>9 DEF CommandOf, Reloading
<1>b. Generation = {a}
  BY <1>1, <1>3, <1>4, GenerationsAre, ShellIsNobody
  DEF GenerationsFit, ReadyPC, HandoverPC
<1>c. Generation' = Generation
  <2>1. /\ pc'[a] \in LoopPC
        /\ \A r \in Pid \ {a} : pc'[r] = pc[r] /\ mem'[r] = mem[r]
    BY <1>1 DEF Move, TypeOK, AfterReload, LoopPC
  <2> QED
    BY <1>1, <2>1, GenerationKept DEF Serving, WorkerPC, LoopPC
<1> QED
  BY <1>5, <1>8, <1>a, <1>b, <1>c DEF Promise!ReloadDone

(* The first worker opens the generation of its master, the others join.   *)
LEMMA ForkWorkerOpens ==
    ASSUME TypeOK, PidsAreFresh, Structure, NEW p \in {Shell} \cup Pid,
           NEW n \in {Shell} \cup Pid, Cast(p, n), NEW a \in Pid, ForkWorker(a)
    PROVE  Promise!Open(a) \/ UNCHANGED Promise!vars
<1>1. PICK next, pids :
        /\ pc[a] = "fork_worker" /\ pid_file' = pid_file
        /\ next \in {"fill_pid_file", "fork_worker"}
        /\ Fork(a, next, [mem[a] EXCEPT !.workers_pid = pids], "worker_setup", FreshMemory)
  BY DEF ForkWorker
<1>2. PICK c \in Pid :
      /\ c = next_pid /\ pc[c] = "unused" /\ a # c
      /\ pc' = [pc EXCEPT ![a] = next, ![c] = "worker_setup"]
      /\ mem' = [mem EXCEPT ![a] = [mem[a] EXCEPT !.workers_pid = pids],
                            ![c] = FreshMemory]
      /\ parent' = [parent EXCEPT ![c] = a]
  <2>1. next_pid \in Pid /\ pc[next_pid] = "unused" /\ a # next_pid
    BY <1>1 DEF Fork, TypeOK, PidsAreFresh, Pid
  <2> QED
    BY <1>1, <2>1 DEF Fork
<1>3. /\ pc'[a] = next /\ mem'[a] = [mem[a] EXCEPT !.workers_pid = pids]
      /\ pc'[c] = "worker_setup" /\ mem'[c] = FreshMemory
      /\ parent'[c] = a
      /\ \A r \in Pid \ {a, c} : pc'[r] = pc[r] /\ mem'[r] = mem[r]
      /\ \A r \in Pid \ {c} : parent'[r] = parent[r]
  BY <1>2 DEF TypeOK
<1>4. a \in {p, n} /\ Phase(p, n)
  BY <1>1, Actors DEF WorkerPC, GonePC, Cast
<1>5. /\ ~Serving(c) /\ ~Serving(a) /\ ~Serving(a)'
      /\ Serving(c)'
      /\ \A r \in Pid \ {a, c} : (Serving(r)' <=> Serving(r))
  <2>1. ~Serving(c) /\ ~Serving(a)
    BY <1>1, <1>2 DEF Serving, WorkerPC
  <2>2. ~Serving(a)'
    BY <1>1, <1>3 DEF Serving, WorkerPC
  <2>3. pc'[c] \in WorkerPC /\ ~mem'[c].is_soft_stop
        /\ ~mem'[c].is_hard_stop
    BY <1>3 DEF WorkerPC, FreshMemory
  <2>4. \A r \in Pid \ {a, c} : (Serving(r)' <=> Serving(r))
    BY <1>3 DEF Serving
  <2> QED
    BY <2>1, <2>2, <2>3, <2>4 DEF Serving
<1>6. Generation' = Generation \cup {a}
  <2>1. \A w \in Pid \ {c} : (Serving(w)' <=> Serving(w)) /\ parent'[w] = parent[w]
    BY <1>3, <1>5
  <2>2. ASSUME NEW q \in Pid
        PROVE  (\E w \in Pid : parent[w] = q /\ Serving(w))'
               <=> (\E w \in Pid : parent[w] = q /\ Serving(w)) \/ q = a
    <3>1. ASSUME NEW w \in Pid, parent'[w] = q, Serving(w)'
          PROVE  (\E v \in Pid : parent[v] = q /\ Serving(v)) \/ q = a
      BY <1>3, <2>1, <3>1
    <3>2. ASSUME NEW w \in Pid, parent[w] = q, Serving(w)
          PROVE  (\E v \in Pid : parent[v] = q /\ Serving(v))'
      BY <1>5, <2>1, <3>2
    <3>3. q = a => (\E v \in Pid : parent[v] = q /\ Serving(v))'
      BY <1>2, <1>3, <1>5
    <3> QED
      BY <3>1, <3>2, <3>3
  <2> QED
    BY <2>2 DEF Generation
<1>7. pid_file.master # c
  <2>1. c # p /\ c # n
    BY <1>2, <1>4, Locations DEF StartPC, RunningPC, LoopPC, StopPC, FormingPC, HandoverPC
  <2>2. pid_file.master \in {Shell, p}
    BY <1>1, <1>4, MakingIsNew DEF Starting, NoFile, Growing, OwnPidFile
  <2> QED
    BY <1>2, <2>1, <2>2, ShellIsNobody
<1>8. CommandOf(pid_file.master)' = CommandOf(pid_file.master)
  <2>1. mem[a] \in Memory /\ pid_file.master \in {Shell} \cup Pid
    BY DEF TypeOK
  <2>2. \A r \in Pid \ {c} : SameAsked(mem'[r], mem[r])
    <3>1. SameAsked(mem'[a], mem[a])
      <4>1. SameAsked([mem[a] EXCEPT !.workers_pid = pids], mem[a])
        BY <2>1, SameAskedMemory
      <4> QED
        BY <1>3, <4>1
    <3>2. \A r \in Pid \ {a, c} : SameAsked(mem'[r], mem[r])
      BY <1>3 DEF SameAsked, SameStops
    <3> QED
      BY <3>1, <3>2
  <2> QED
    BY <1>1, <1>7, <2>1, <2>2, CommandKept
<1>9. CASE a \in Generation
  BY <1>1, <1>6, <1>8, <1>9, PromiseKept
<1>a. CASE a \notin Generation
  <2>1. /\ Generation \subseteq {p, n} \cap Pid
        /\ \A q \in Pid : pc[q] \in ReadyPC => q \in Generation
    BY GenerationsAre DEF GenerationsFit
  <2>2. CASE a = p /\ n = Shell /\ Starting(p)
    <3>1. pid_file.master = Shell /\ CommandOf(Shell) = "nothing"
      BY <1>1, <2>2 DEF Starting, NoFile, CommandOf
    <3>2. Generation = {}
      BY <1>a, <2>1, <2>2, ShellIsNobody
    <3> QED
      BY <1>1, <1>6, <1>8, <1>a, <3>1, <3>2 DEF Promise!Open
  <2>3. CASE a = n /\ p \in Pid /\ p # n /\ Growing(p, n) /\ Reloading(a)
    <3>1. pid_file.master = p
      BY <1>1, <2>3 DEF Growing, OwnPidFile
    <3>2. a > p
      BY <1>1, <2>3, ShellIsNobody
      DEF Growing, Structure, MasterKnowsItself, FormingPC
    <3>3. Generation = {p}
      BY <1>a, <2>1, <2>3 DEF Growing, Reloads, ReadyPC, RunningPC
    <3>4. CommandOf(p) = "reload"
      <4>1. mem[n].level \in Level
        BY <2>3 DEF TypeOK, Memory
      <4>2. mem[p].process_soft_reload # 0 \/ mem[p].process_hard_reload # 0
        BY <2>3, <4>1 DEF Growing, Reloads, ReloadIs, Level
      <4> QED
        BY <2>3, <4>2, ShellIsNobody DEF CommandOf, Growing, InCharge, Reloading, NotTold
    <3> QED
      BY <1>1, <1>6, <1>8, <1>a, <3>1, <3>2, <3>3, <3>4 DEF Promise!Open
  <2> QED
    BY <1>1, <1>4, <2>2, <2>3, MakingIsNew
<1> QED
  BY <1>9, <1>a

(* The forks of a reload and of a start are not seen either.               *)
LEMMA ForkKeepsPromise ==
    ASSUME TypeOK, PidsAreFresh, NEW a \in Pid, NEW next, NEW m, NEW childpc, NEW childm,
           Fork(a, next, m, childpc, childm), pid_file' = pid_file,
           pc[a] \notin WorkerPC \cup {"unused"}, next \notin WorkerPC, childpc \notin WorkerPC,
           SameAsked(m, mem[a]),
           pid_file.master # Shell => pc[pid_file.master] # "unused"
    PROVE  UNCHANGED Promise!vars
<1>1. PICK c \in Pid :
      /\ c = next_pid /\ pc[c] = "unused" /\ a # c
      /\ pc' = [pc EXCEPT ![a] = next, ![c] = childpc]
      /\ mem' = [mem EXCEPT ![a] = m, ![c] = childm]
      /\ parent' = [parent EXCEPT ![c] = a]
  <2>1. next_pid \in Pid /\ pc[next_pid] = "unused" /\ a # next_pid
    BY DEF Fork, TypeOK, PidsAreFresh, Pid
  <2> QED
    BY <2>1 DEF Fork
<1>2. /\ pc'[a] = next /\ mem'[a] = m /\ pc'[c] = childpc
      /\ \A r \in Pid \ {a, c} : pc'[r] = pc[r] /\ mem'[r] = mem[r]
      /\ \A r \in Pid \ {c} : parent'[r] = parent[r]
  BY <1>1 DEF TypeOK
<1>3. ~Serving(c) /\ ~Serving(a) /\ ~Serving(c)' /\ ~Serving(a)'
  <2>1. ~Serving(c) /\ ~Serving(a)
    BY <1>1 DEF Serving, WorkerPC
  <2>2. ~Serving(c)' /\ ~Serving(a)'
    BY <1>2 DEF Serving
  <2> QED
    BY <2>1, <2>2
<1>4. Generation' = Generation
  <2>1. \A r \in Pid \ {a, c} : (Serving(r)' <=> Serving(r))
    BY <1>2 DEF Serving
  <2>2. \A r \in Pid : (Serving(r)' <=> Serving(r)) /\ (Serving(r) => parent'[r] = parent[r])
    BY <1>2, <1>3, <2>1
  <2> QED
    BY <2>2, GenerationKept
<1>5. \A r \in Pid \ {c} : SameAsked(mem'[r], mem[r])
  BY <1>2 DEF SameAsked, SameStops
<1>6. pid_file.master \in {Shell} \cup Pid /\ pid_file.master # c
  BY <1>1, ShellIsNobody DEF TypeOK
<1> QED
  BY <1>4, <1>5, <1>6, CommandKept, PromiseKept

(* The process the pid file names is one of the cast.                      *)
LEMMA NamedIsThere ==
    ASSUME NEW p \in {Shell} \cup Pid, NEW n \in {Shell} \cup Pid, Phase(p, n),
           pid_file.master # Shell
    PROVE  pid_file.master \in {p, n} /\ pc[pid_file.master] # "unused"
<1>1. pid_file.master \in {p, n}
  BY ShellIsNobody
  DEF Phase, Down, NoFile, Alone, Both, Starting, Idle, ToReload, ToStop, Growing,
      HandingOver, Succeeding, OwnPidFile
<1> QED
  BY <1>1, Locations DEF StartPC, RunningPC, LoopPC, StopPC, FormingPC, HandoverPC

LEMMA ReloadForksKeepPromise ==
    ASSUME TypeOK, PidsAreFresh, Faults = {}, NEW p \in {Shell} \cup Pid,
           NEW n \in {Shell} \cup Pid, Cast(p, n), NEW a \in Pid,
           ServerReload(a) \/ SecondFork(a)
    PROVE  UNCHANGED Promise!vars
<1>1. pid_file.master # Shell => pc[pid_file.master] # "unused"
  BY NamedIsThere DEF Cast
<1>2. mem[a] \in Memory
  BY DEF TypeOK
<1>3. CASE ServerReload(a)
  <2>1. PICK count :
          LET m == [mem[a] EXCEPT !.count_workflows = count] IN
          Fork(a, "mark_reload", m, "second_fork", m)
    BY <1>3 DEF ServerReload
  <2> DEFINE m == [mem[a] EXCEPT !.count_workflows = count]
  <2>2. pc[a] = "server_reload" /\ pid_file' = pid_file
    BY <1>3 DEF ServerReload
  <2>3. Fork(a, "mark_reload", m, "second_fork", m) /\ SameAsked(m, mem[a])
    BY <1>2, <2>1, SameAskedMemory
  <2>4. {"mark_reload", "second_fork", "server_reload", "unused"} \cap WorkerPC = {}
    BY DEF WorkerPC
  <2> HIDE DEF m
  <2> QED
    BY <1>1, <2>2, <2>3, <2>4, ForkKeepsPromise
<1>4. CASE SecondFork(a)
  <2>1. /\ pc[a] = "second_fork" /\ pid_file' = pid_file
        /\ Fork(a, "exiting", mem[a], "add_work_processes",
                [mem[a] EXCEPT !.new_master_process = next_pid])
    BY <1>4 DEF SecondFork
  <2> DEFINE m == [mem[a] EXCEPT !.new_master_process = next_pid]
  <2>2. Fork(a, "exiting", mem[a], "add_work_processes", m) /\ SameAsked(mem[a], mem[a])
    BY <1>2, <2>1, SameAskedMemory
  <2>3. {"exiting", "add_work_processes", "second_fork", "unused"} \cap WorkerPC = {}
    BY DEF WorkerPC
  <2> HIDE DEF m
  <2> QED
    BY <1>1, <2>1, <2>2, <2>3, ForkKeepsPromise
<1> QED
  BY <1>3, <1>4

(* The new master is named already when it signals the old one.            *)
LEMMA KillOldMasterKeepsPromise ==
    ASSUME TypeOK, NEW p \in {Shell} \cup Pid, NEW n \in {Shell} \cup Pid, Cast(p, n),
           NEW a \in Pid, KillOldMaster(a)
    PROVE  UNCHANGED Promise!vars
<1> DEFINE sig == IF mem[a].level = "HARD" THEN "SIGINT" ELSE "SIGHUP"
<1>1. /\ pc[a] = "kill_old_master"
      /\ Signal(a, "wait_old_master", mem[a], mem[a].old_master_process, sig)
      /\ UNCHANGED <<handlers, parent, loop_i, pid_file>>
  BY DEF KillOldMaster
<1>2. a \in {p, n} /\ Phase(p, n)
  BY <1>1, Actors DEF WorkerPC, GonePC, Cast
<1>3. a = n
  BY <1>1, <1>2, Locations DEF StartPC, RunningPC, LoopPC, StopPC
<1>4. p \in Pid /\ p # n /\ Growing(p, n)
  BY <1>1, <1>2, <1>3, Locations
<1>5. mem[n].old_master_process = p /\ pid_file.master = a
  BY <1>1, <1>3, <1>4 DEF Growing, OwnPidFile
<1>6. pc[p] \in LoopPC \cup {"mark_reload"} /\ handlers[p] = "master" /\ Alive(p)
  BY <1>4 DEF Growing, Reloads, InCharge, Alive, LoopPC
<1>7. pc'[p] = pc[p]
  BY <1>1, <1>3, <1>4, <1>5, <1>6 DEF Signal, Received, LoopPC
<1>8. pc'[a] = "wait_old_master" /\ mem'[a] = mem[a]
  BY <1>1, <1>3 DEF Signal
<1>9. ASSUME NEW r \in Pid PROVE Serving(r)' <=> Serving(r)
  <2>1. CASE r = p
    BY <1>6, <1>7, <2>1 DEF Serving, WorkerPC, LoopPC
  <2>2. CASE r = a
    BY <1>1, <1>8, <2>2 DEF Serving, WorkerPC
  <2>3. CASE r \notin {p, a}
    BY <1>1, <1>3, <1>5, <2>3 DEF Signal, Serving
  <2> QED
    BY <2>1, <2>2, <2>3
<1>a. Generation' = Generation
  BY <1>1, <1>9, GenerationKept
<1> QED
  BY <1>1, <1>5, <1>8, <1>a, CommandKept, PromiseKept DEF SameAsked, SameStops

(* A generation closes when its master has signalled its last worker.      *)
LEMMA StopKillCloses ==
    ASSUME TypeOK, Structure, NEW p \in {Shell} \cup Pid,
           NEW n \in {Shell} \cup Pid, Cast(p, n), NEW a \in Pid, StopKill(a)
    PROVE  Promise!Close(a) \/ UNCHANGED Promise!vars
<1>1. pc[a] = "stop_kill" /\ UNCHANGED <<handlers, parent, pid_file>>
  BY DEF StopKill
<1>2. a \in {p, n} /\ Phase(p, n)
  BY <1>1, Actors DEF WorkerPC, GonePC, Cast
<1>3. /\ a = p /\ p # n
      /\ \/ n = Shell /\ ToStop(p)
         \/ n \in Pid /\ HandingOver(p, n)
  BY <1>1, <1>2, StopsInCharge DEF StopPC
<1>4. loop_i[a] \in Nat \ {0} /\ Len(mem[a].workers_pid) \in Nat
  BY ListsPids DEF TypeOK
<1>5. CASE loop_i[a] > Len(mem[a].workers_pid)
  <2>1. Move(a, "stop_wait", mem[a])
    BY <1>4, <1>5 DEF StopKill
  <2>2. mem[a] \in Memory
    BY DEF TypeOK
  <2>3. pc'[a] = "stop_wait"
    BY <2>1 DEF Move, TypeOK
  <2>4. Serving(a)' <=> Serving(a)
    BY <1>1, <2>3 DEF Serving, WorkerPC
  <2> QED
    BY <1>1, <2>1, <2>2, <2>4, SameAskedMemory, MoveKeepsPromise
<1>6. CASE loop_i[a] <= Len(mem[a].workers_pid)
  <2>1. PICK w \in Pid, sig \in {"SIGHUP", "SIGINT"} :
           /\ w = mem[a].workers_pid[loop_i[a]]
           /\ Signal(a, "stop_kill", mem[a], w, sig)
    <3>1. mem[a].workers_pid[loop_i[a]] \in Pid
      BY <1>4, <1>6, ListsPids
    <3> QED
      BY <1>6, <3>1 DEF StopKill
  <2>2. /\ parent[w] = a /\ pc[w] \in WorkerPC \cup GonePC
        /\ handlers[w] = "worker"
    <3>1. Heard(a)
      BY <1>3 DEF ToStop, HandingOver
    <3> QED
      BY <1>1, <1>4, <1>6, <2>1, <3>1 DEF Structure, WorkersAreChildren, Heard, GonePC
  <2>3. w # a /\ w # n
    BY <1>1, <1>3, <2>2, ShellIsNobody DEF WorkerPC, GonePC, HandingOver
  <2>4. ~Serving(w)'
    <3>1. /\ pc[w] \in WorkerPC => ~Serving(w)'
          /\ pc[w] \in GonePC => pc'[w] \in GonePC
      BY <2>1, <2>2, <2>3, WorkerTold DEF GonePC
    <3> QED
      BY <2>2, <3>1 DEF Serving, WorkerPC, GonePC
  <2>5. \A r \in Pid \ {w} : pc'[r] = pc[r] /\ mem'[r] = mem[r]
    BY <1>1, <2>1 DEF Signal
  <2>6. \A r \in Pid \ {w} : (Serving(r)' <=> Serving(r))
    BY <2>5 DEF Serving
  <2>7. pid_file.master = IF n = Shell THEN a ELSE n
    BY <1>3, ShellIsNobody DEF ToStop, HandingOver, OwnPidFile
  <2>8. pid_file.master \in Pid \ {w}
    BY <1>3, <2>3, <2>7
  <2>9. CommandOf(pid_file.master)' = CommandOf(pid_file.master)
    BY <1>1, <2>5, <2>8, CommandKept DEF SameAsked, SameStops
  <2>a. Generation' \subseteq Generation /\ Generation \ {a} \subseteq Generation'
    <3>1. ASSUME NEW q \in Generation' PROVE q \in Generation
      <4>1. PICK v \in Pid : parent[v] = q /\ Serving(v)'
        BY <1>1, <3>1 DEF Generation
      <4>2. Serving(v)
        BY <2>4, <2>6, <4>1
      <4> QED
        BY <3>1, <4>1, <4>2 DEF Generation
    <3>2. ASSUME NEW q \in Generation, q # a PROVE q \in Generation'
      <4>1. PICK v \in Pid : parent[v] = q /\ Serving(v)
        BY DEF Generation
      <4>2. v # w
        BY <2>2, <3>2, <4>1
      <4>3. Serving(v)'
        BY <2>6, <4>1, <4>2
      <4> QED
        BY <1>1, <4>1, <4>3 DEF Generation
    <3> QED
      BY <3>1, <3>2
  <2>b. CASE Generation' = Generation
    BY <1>1, <2>9, <2>b, PromiseKept
  <2>c. CASE Generation' # Generation
    <3>1. a \in Generation /\ Generation' = Generation \ {a}
      BY <2>a, <2>c
    <3>2. \/ CommandOf(pid_file.master) = "replace" /\ a # pid_file.master
          \/ CommandOf(pid_file.master) = "stop"
      <4>1. CASE n = Shell /\ ToStop(p)
        <5>1. Told(a) /\ ~Reloading(a)
          BY <1>3, <4>1 DEF ToStop, ToldBy, Told, InCharge, Reloading, Level
        <5> QED
          BY <1>3, <2>7, <4>1, <5>1, ShellIsNobody DEF CommandOf, Told
      <4>2. CASE n \in Pid /\ HandingOver(p, n)
        BY <1>3, <2>7, <4>2, ShellIsNobody DEF CommandOf, Reloading, HandingOver
      <4> QED
        BY <1>3, <4>1, <4>2
    <3> QED
      BY <1>1, <2>9, <3>1, <3>2 DEF Promise!Close
  <2> QED
    BY <2>b, <2>c
<1> QED
  BY <1>4, <1>5, <1>6

(* The last step of a stop; that of a replaced master is not seen.         *)
LEMMA StopEndIsDone ==
    ASSUME TypeOK, Structure, NEW p \in {Shell} \cup Pid,
           NEW n \in {Shell} \cup Pid, Cast(p, n), NEW a \in Pid, StopEnd(a)
    PROVE  Promise!StopDone \/ UNCHANGED Promise!vars
<1>1. pc[a] = "stop_end" /\ UNCHANGED <<handlers, parent>>
  BY DEF StopEnd
<1>2. a \in {p, n} /\ Phase(p, n)
  BY <1>1, Actors DEF WorkerPC, GonePC, Cast
<1>3. /\ a = p /\ p # n
      /\ \/ n = Shell /\ ToStop(p)
         \/ n \in Pid /\ HandingOver(p, n)
  BY <1>1, <1>2, StopsInCharge DEF StopPC
<1>4. mem[a] \in Memory /\ mem[a].level \in Level
  BY DEF TypeOK, Memory
<1>5. a \notin Generation
  BY <1>1, GenerationsAre
  DEF GenerationsFit, StaffedPC, ReadyPC, RunningPC, LoopPC, HandoverPC
<1>6. CASE n = Shell /\ ToStop(p)
  <2>1. ReloadFlag(mem[a]) # 2
    BY <1>3, <1>6 DEF ToStop, NoReload, ReloadFlag
  <2>2. pid_file' = NoFile /\ Move(a, "exiting", mem[a])
    BY <2>1 DEF StopEnd
  <2>3. pid_file.master = a /\ Told(a) /\ ~Reloading(a)
    BY <1>3, <1>6 DEF ToStop, OwnPidFile, ToldBy, Told, InCharge, Reloading, Level
  <2>4. CommandOf(pid_file.master) = "stop"
    BY <2>3, ShellIsNobody DEF CommandOf, Told
  <2>5. CommandOf(pid_file.master)' = "nothing" /\ pid_file'.master = Shell
    BY <2>2 DEF CommandOf, NoFile
  <2>6. Generation = {}
    BY <1>3, <1>5, <1>6, GenerationsAre, ShellIsNobody DEF GenerationsFit
  <2>7. pc'[a] = "exiting" /\ \A r \in Pid \ {a} : pc'[r] = pc[r] /\ mem'[r] = mem[r]
    BY <2>2 DEF Move, TypeOK
  <2>8. Generation' = Generation
    BY <1>1, <2>7, GenerationKept DEF Serving, WorkerPC
  <2> QED
    BY <2>4, <2>5, <2>6, <2>8 DEF Promise!StopDone
<1>7. CASE n \in Pid /\ HandingOver(p, n)
  <2>1. ReloadFlag(mem[a]) = 2 /\ mem[a].new_master_pid = n
    BY <1>1, <1>3, <1>4, <1>7
    DEF HandingOver, Reloads, LoopPC, ReloadIs, ReloadFlag, Level
  <2>2. Signal(a, "exiting", mem[a], n, "SIGCHLD") /\ pid_file' = pid_file
    BY <2>1 DEF StopEnd
  <2>3. pid_file.master = n /\ pc[n] = "wait_old_master" /\ Alive(n) /\ n # a
    BY <1>3, <1>7 DEF HandingOver, OwnPidFile, Alive
  <2>4. /\ pc'[n] = Received(n, "SIGCHLD") /\ mem'[n] = Handled(n, "SIGCHLD", a)
        /\ pc'[a] = "exiting"
        /\ \A r \in Pid \ {a, n} : pc'[r] = pc[r] /\ mem'[r] = mem[r]
    BY <1>7, <2>2, <2>3 DEF Signal
  <2>5. pc'[n] = "wait_old_master"
    BY <2>3, <2>4 DEF Received
  <2>6. SameCommand(mem'[n], mem[n])
    BY <1>7, <2>4, ChildEnded
  <2>7. SameAsked(mem'[n], mem[n])
    BY <2>6 DEF SameCommand, SameMaster, SameAsked, SameReloads
  <2>8. \A r \in Pid : (Serving(r)' <=> Serving(r))
    BY <1>1, <2>3, <2>4, <2>5 DEF Serving, WorkerPC
  <2>9. Generation' = Generation
    BY <1>1, <2>8, GenerationKept
  <2> QED
    BY <2>2, <2>3, <2>7, <2>9, CommandKept, PromiseKept
<1> QED
  BY <1>3, <1>6, <1>7

(* Workers, and processes that end.                                        *)
LEMMA BystandersKeepPromise ==
    ASSUME TypeOK, Faults = {}, NEW p \in {Shell} \cup Pid, NEW n \in {Shell} \cup Pid,
           Cast(p, n), NEW a \in Pid, Worker(a) \/ Traffic(a) \/ ProcessExit(a)
    PROVE  UNCHANGED Promise!vars
<1>1. CASE Worker(a) \/ Traffic(a)
  <2>1. PICK next \in WorkerPC \cup {"exiting"} :
           Move(a, next, mem[a]) /\ (Serving(a) => next \in WorkerPC)
    <3>1. CASE Worker(a)
      BY <3>1 DEF Worker, WorkerSetup, WorkerTest, WorkerBlocks, WorkerPC, Serving
    <3>2. CASE Traffic(a)
      BY <3>2, NoFailure DEF Traffic, WorkerPC
    <3> QED
      BY <1>1, <3>1, <3>2
  <2>2. pc[a] \in WorkerPC /\ UNCHANGED <<parent, pid_file>>
    BY <1>1 DEF Worker, WorkerSetup, WorkerTest, WorkerBlocks, Traffic, WorkerPC
  <2>3. pc'[a] = next /\ mem'[a] = mem[a] /\ mem[a] \in Memory
    BY <2>1 DEF Move, TypeOK
  <2>4. Serving(a)' <=> Serving(a)
    BY <2>1, <2>2, <2>3 DEF Serving
  <2> QED
    BY <2>1, <2>2, <2>3, <2>4, SameAskedMemory, MoveKeepsPromise
<1>2. CASE ProcessExit(a)
  <2>1. /\ pc[a] = "exiting" /\ Signal(a, "exited", FreshMemory, parent[a], "SIGCHLD")
        /\ UNCHANGED <<parent, pid_file>>
    BY <1>2 DEF ProcessExit
  <2>2. pc'[a] = "exited"
    BY <2>1 DEF Signal
  <2>3. ASSUME NEW r \in Pid \ {a}
        PROVE  (Serving(r)' <=> Serving(r)) /\ SameAsked(mem'[r], mem[r])
    <3>1. CASE r = parent[a] /\ Alive(r)
      <4>1. pc'[r] = Received(r, "SIGCHLD") /\ mem'[r] = Handled(r, "SIGCHLD", a)
        BY <2>1, <3>1 DEF Signal
      <4>2. SameCommand(mem'[r], mem[r]) /\ SameWorker(mem'[r], mem[r])
        BY <4>1, ChildEnded
      <4>3. pc'[r] \in WorkerPC <=> pc[r] \in WorkerPC
        BY <4>1 DEF Received, WorkerPC
      <4> QED
        BY <4>2, <4>3
        DEF Serving, SameWorker, SameCommand, SameMaster, SameReloads, SameAsked
    <3>2. CASE ~(r = parent[a] /\ Alive(r))
      <4>1. pc'[r] = pc[r] /\ mem'[r] = mem[r]
        BY <2>1, <3>2 DEF Signal
      <4> QED
        BY <4>1 DEF Serving, SameAsked, SameStops
    <3> QED
      BY <3>1, <3>2
  <2>4. ~Serving(a) /\ ~Serving(a)'
    BY <2>1, <2>2 DEF Serving, WorkerPC
  <2>5. Generation' = Generation
    BY <2>1, <2>3, <2>4, GenerationKept
  <2>6. pid_file.master \in {Shell} \cup Pid
    BY DEF TypeOK
  <2>7. pid_file.master # a
    BY <2>1, Locations, NamedIsThere, ShellIsNobody
    DEF Cast, StartPC, RunningPC, LoopPC, StopPC, FormingPC, HandoverPC
  <2> QED
    BY <2>1, <2>3, <2>5, <2>6, <2>7, CommandKept, PromiseKept
<1> QED
  BY <1>1, <1>2

(* A command to a server that has settled.                                 *)
LEMMA SignalMasterAsks ==
    ASSUME TypeOK, Structure, PatientOperator, NEW p \in {Shell} \cup Pid,
           NEW n \in {Shell} \cup Pid, Cast(p, n), NEW command, NEW sig,
           sig \in {"SIGHUP", "SIGINT", "SIGPIPE", "SIGALRM"}, SignalMaster(command, sig)
    PROVE  Promise!Ask
<1>1. /\ Settled /\ \E r \in Pid : Alive(r)
      /\ Signal(Shell, "unused", FreshMemory, pid_file.master, sig)
      /\ UNCHANGED <<handlers, parent, pid_file>>
  BY MaxCommandsAssumption, WaitsAssumption
  DEF SignalMaster, Issue, PatientOperator, TypeOK
<1>2. n = Shell /\ p \in Pid /\ Idle(p)
  BY <1>1, SettledPhase
<1>3. /\ pid_file.master = p /\ pc[p] \in LoopPC /\ InCharge(p)
      /\ NotTold(mem[p]) /\ NoReload(mem[p])
  BY <1>2 DEF Idle, OwnPidFile
<1>4. Alive(p) /\ p # Shell /\ handlers[p] = "master" /\ pc[p] # "epoll_wait"
  BY <1>2, <1>3, ShellIsNobody DEF Alive, LoopPC, InCharge
<1>5. pc'[p] = pc[p] /\ mem'[p] = Handled(p, sig, Shell)
  <2>1. pc'[p] = Received(p, sig) /\ mem'[p] = Handled(p, sig, Shell)
    BY <1>1, <1>2, <1>3, <1>4 DEF Signal
  <2> QED
    BY <1>4, <2>1 DEF Received
<1>6. /\ mem'[p].old_master_process = p
      /\ \/ NoReload(mem'[p]) /\ \E level \in Level : ToldBy(mem'[p], level)
         \/ NotTold(mem'[p]) /\ \E level \in Level : ReloadIs(mem'[p], level, 1)
  BY <1>2, <1>3, <1>5, MasterSignalled DEF SameMaster, InCharge
<1>7. CommandOf(pid_file.master) = "nothing"
  BY <1>3, <1>4 DEF CommandOf, Reloading, InCharge, NotTold, NoReload
<1>8. CommandOf(pid_file.master)' \in {"reload", "stop"}
  <2>1. \/ mem'[p].process_soft_stop \/ mem'[p].process_hard_stop
        \/ mem'[p].process_soft_reload # 0 \/ mem'[p].process_hard_reload # 0
    <3>1. ASSUME NEW level \in Level, ToldBy(mem'[p], level)
          PROVE  mem'[p].process_soft_stop \/ mem'[p].process_hard_stop
      BY <3>1 DEF ToldBy, Level
    <3>2. ASSUME NEW level \in Level, ReloadIs(mem'[p], level, 1)
          PROVE  mem'[p].process_soft_reload # 0 \/ mem'[p].process_hard_reload # 0
      BY <3>2 DEF ReloadIs, Level
    <3> QED
      BY <1>6, <3>1, <3>2
  <2> QED
    BY <1>1, <1>3, <1>4, <1>6, <2>1 DEF CommandOf, Reloading
<1>9. Generation = {p}
  BY <1>2, <1>3, GenerationsAre, ShellIsNobody
  DEF GenerationsFit, ReadyPC, RunningPC
<1>a. \A r \in Pid \ {p} : pc'[r] = pc[r] /\ mem'[r] = mem[r]
  BY <1>1, <1>3, ShellIsNobody DEF Signal
<1>b. Generation' = Generation
  <2>1. ~Serving(p) /\ ~Serving(p)'
    BY <1>3, <1>5 DEF Serving, WorkerPC, LoopPC
  <2>2. \A r \in Pid \ {p} : (Serving(r)' <=> Serving(r))
    BY <1>a DEF Serving
  <2> QED
    BY <1>1, <2>1, <2>2, GenerationKept
<1> QED
  BY <1>1, <1>3, <1>4, <1>7, <1>8, <1>9, <1>b DEF Promise!Ask

(* A start is not seen before there is a worker.                           *)
LEMMA StartKeepsPromise ==
    ASSUME TypeOK, PidsAreFresh, NEW p \in {Shell} \cup Pid, NEW n \in {Shell} \cup Pid,
           Cast(p, n), Start
    PROVE  UNCHANGED Promise!vars
<1>1. PICK c \in Pid : /\ c = next_pid /\ \E m : Move(c, "bind_listen_sock", m)
                       /\ UNCHANGED <<parent, pid_file>>
  <2>1. next_pid \in Pid
    BY DEF Start, TypeOK, Pid
  <2> QED
    BY <2>1 DEF Start
<1>2. pc[c] = "unused"
  BY <1>1 DEF PidsAreFresh, Pid
<1>3. /\ pc'[c] = "bind_listen_sock"
      /\ \A r \in Pid \ {c} : pc'[r] = pc[r] /\ mem'[r] = mem[r]
  BY <1>1 DEF Move, TypeOK
<1>4. ~Serving(c) /\ ~Serving(c)' /\ \A r \in Pid \ {c} : (Serving(r)' <=> Serving(r))
  BY <1>2, <1>3 DEF Serving, WorkerPC
<1>5. Generation' = Generation
  BY <1>1, <1>4, GenerationKept
<1>6. pid_file.master \in {Shell} \cup Pid /\ pid_file.master # c
  BY <1>1, <1>2, NamedIsThere, ShellIsNobody DEF TypeOK, Cast
<1>7. \A r \in Pid \ {c} : SameAsked(mem'[r], mem[r])
  BY <1>3 DEF SameAsked, SameStops
<1> QED
  BY <1>1, <1>5, <1>6, <1>7, CommandKept, PromiseKept

LEMMA PromiseInit == ASSUME Init PROVE Promise!Init
<1>1. Generation = {}
  BY DEF Init, Generation, Serving, WorkerPC
<1>2. pid_file.master = Shell /\ CommandOf(pid_file.master) = "nothing"
  BY DEF Init, NoFile, CommandOf
<1> QED
  BY <1>1, <1>2 DEF Promise!Init

LEMMA MasterKeepsPromise ==
    ASSUME TypeOK, PidsAreFresh, Structure, Faults = {}, NEW p \in {Shell} \cup Pid,
           NEW n \in {Shell} \cup Pid, Cast(p, n), NEW a \in Pid, Master(a)
    PROVE  [Promise!Next]_Promise!vars
<1>1. CASE \/ BindListenSock(a) \/ AddWorkProcesses(a) \/ ProcessSetupSignals(a)
           \/ TestSoftStop(a) \/ TestHardStop(a) \/ TestSoftReload(a) \/ TestHardReload(a)
           \/ MarkReload(a) \/ WaitOldMaster(a) \/ StopWait(a)
  BY <1>1, QuietMasterKeepsPromise
<1>2. CASE ServerReload(a) \/ SecondFork(a) \/ KillOldMaster(a)
  BY <1>2, ReloadForksKeepPromise, KillOldMasterKeepsPromise
<1>3. CASE ForkWorker(a)
  BY <1>3, ForkWorkerOpens DEF Promise!Next
<1>4. CASE FillPidFile(a)
  BY <1>4, FillPidFileNames DEF Promise!Next
<1>5. CASE StopKill(a)
  BY <1>5, StopKillCloses DEF Promise!Next
<1>6. CASE FinishReload(a)
  BY <1>6, FinishReloadIsDone DEF Promise!Next
<1>7. CASE StopEnd(a)
  BY <1>7, StopEndIsDone DEF Promise!Next
<1> QED
  BY <1>1, <1>2, <1>3, <1>4, <1>5, <1>6, <1>7 DEF Master

LEMMA PromiseStep ==
    ASSUME TypeOK, PidsAreFresh, Structure, PatientOperator, CommandInv, [Next]_vars
    PROVE  [Promise!Next]_Promise!vars
<1>1. Faults = {}
  BY DEF PatientOperator
<1>2. PICK p \in {Shell} \cup Pid, n \in {Shell} \cup Pid : Cast(p, n)
  BY DEF CommandInv
<1>3. CASE UNCHANGED vars
  BY <1>3, GenerationKept, PromiseKept DEF vars, Serving, CommandOf, Reloading
<1>4. CASE Start
  BY <1>2, <1>4, StartKeepsPromise
<1>5. CASE StopSoft \/ StopHard \/ ReloadSoft \/ ReloadHard
  <2>1. Promise!Ask
    BY <1>2, <1>5, SignalMasterAsks DEF StopSoft, StopHard, ReloadSoft, ReloadHard
  <2> QED
    BY <2>1 DEF Promise!Next
<1>6. ASSUME NEW a \in Pid, Master(a) PROVE [Promise!Next]_Promise!vars
  BY <1>1, <1>2, <1>6, MasterKeepsPromise
<1>7. ASSUME NEW a \in Pid, Failure(a) PROVE FALSE
  BY <1>1, <1>7, NoFailure DEF Failure, ForkWorkerFails, ServerReloadFails, SecondForkFails
<1>8. ASSUME NEW a \in Pid, Worker(a) \/ ProcessExit(a) \/ Traffic(a)
      PROVE  UNCHANGED Promise!vars
  BY <1>1, <1>2, <1>8, BystandersKeepPromise
<1> QED
  BY <1>3, <1>4, <1>5, <1>6, <1>7, <1>8 DEF Next, Operator

(* To an operator who lets every command settle, where nothing fails, the  *)
(* server is one of generations, for every number of processes, workers    *)
(* and commands: a reload opens the next generation, names it, and closes  *)
(* the one before, in this order, and only a stop leaves none.             *)
THEOREM ServerIsOneOfGenerations == ASSUME PatientOperator PROVE Spec => ImplementsService
<1>1. Init => Promise!Init
  BY PromiseInit
<1>2. TypeOK /\ ServiceInv /\ CommandInv /\ [Next]_vars => [Promise!Next]_Promise!vars
  BY PromiseStep, NothingFails
<1> QED
  BY <1>1, <1>2, TypeCorrect, ServiceCorrect, CommandsCorrect, PTL
  DEF Spec, ImplementsService, Promise!Spec
=============================================================================
