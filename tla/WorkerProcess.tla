--------------------------- MODULE WorkerProcess ---------------------------
(***************************************************************************)
(* WorkerProcess::run(): the worker processes that share one listening     *)
(* socket, each with an epoll instance of its own, and the clients they    *)
(* serve.                                                                  *)
(*                                                                         *)
(* The listening socket is blocking and level-triggered in every worker's  *)
(* epoll instance: a new client wakes them all, one accept() takes it and  *)
(* the others block.  A client's socket is edge-triggered, for input only: *)
(* an event that a worker has been told of and does not handle is not told *)
(* again.  An upstream's socket stays registered for output, level-        *)
(* triggered: it is always ready.  (Asking for its input later is a second *)
(* EPOLL_CTL_ADD of the same descriptor, which fails.)                     *)
(*                                                                         *)
(* Signals are delivered when they are sent: a blocked call is interrupted *)
(* (EINTR) unless the signal came just before it.                          *)
(***************************************************************************)
EXTENDS ClientConnection, FiniteSets

CONSTANTS
  Workers, Clients,
  ListenSock,     \* the event that names the listening socket
  Nobody,         \* the owner of a client that no worker has accepted
  Kinds,          \* the kinds of request the clients make
  Habits,         \* what clients do besides asking and reading: extra, shut, close
  Stops,          \* the signals the workers may get: soft (SIGHUP), hard (SIGINT)
  Descriptors     \* descriptors a worker may have open for its clients

ASSUME ListenSockAssumption == ListenSock \notin Clients
ASSUME NobodyAssumption == Nobody \notin Workers
ASSUME KindsAssumption == Kinds \subseteq RequestKind /\ Kinds # {}
ASSUME HabitsAssumption == Habits \subseteq {"extra", "shut", "close"}
ASSUME StopsAssumption == Stops \subseteq {"soft", "hard"}
ASSUME DescriptorsAssumption == Descriptors \in Nat \ {0}

VARIABLES
  conn,           \* each client's session
  backlog,        \* clients that have connected and are not accepted, oldest first
  owner,          \* the worker that accepted a client
  outcome,        \* how a client's connection was closed, "none" while it is not
  watch,          \* the socket of a connection that is in its worker's epoll instance
  edge,           \* a client's socket has an event its worker was not told of
  wpc,            \* where a worker is in run()
  batch,          \* events epoll_wait() gave a worker and it has not looked at yet
  is_soft_stop, is_hard_stop,
  owed            \* history: requests a worker had received in full when told to stop

clientVars == <<conn, backlog, owner, outcome, watch, edge>>
workerVars == <<wpc, batch>>
stopVars == <<is_soft_stop, is_hard_stop, owed>>
vars == <<clientVars, workerVars, stopVars>>

Stopped == {"exited", "crashed"}

TypeOK ==
  /\ conn \in [Clients -> Session]
  /\ backlog \in Seq(Clients)
  /\ owner \in [Clients -> Workers \union {Nobody}]
  /\ outcome \in [Clients -> ClosingStatus \union {"none", "reset"}]
  /\ watch \in [Clients -> {"none", "client", "upstream"}]
  /\ edge \in [Clients -> BOOLEAN]
  /\ wpc \in [Workers -> {"test", "epoll_wait", "event", "accept", "drain_wait", "drain"}
                           \union Stopped]
  /\ batch \in [Workers -> SUBSET (Clients \union {ListenSock})]
  /\ is_soft_stop \in [Workers -> BOOLEAN]
  /\ is_hard_stop \in [Workers -> BOOLEAN]
  /\ owed \in [Workers -> SUBSET Clients]

Init ==
  /\ conn \in [Clients -> {NewSession(k) : k \in Kinds}]
  /\ backlog = <<>>
  /\ owner = [c \in Clients |-> Nobody]
  /\ outcome = [c \in Clients |-> "none"]
  /\ watch = [c \in Clients |-> "none"]
  /\ edge = [c \in Clients |-> FALSE]
  /\ wpc = [w \in Workers |-> "test"]
  /\ batch = [w \in Workers |-> {}]
  /\ is_soft_stop = [w \in Workers |-> FALSE]
  /\ is_hard_stop = [w \in Workers |-> FALSE]
  /\ owed = [w \in Workers |-> {}]

\* the connections a worker keeps an object for
Live(w) == {c \in Clients : owner[c] = w /\ outcome[c] = "none"}

\* sockets of live connections, files and upstream sockets: nothing closes the last two
OpenDescriptors(w) ==
  LET mine == {c \in Clients : owner[c] = w}
  IN  Cardinality(Live(w))
      + Cardinality({c \in mine : conn[c].file_fd \notin {"none", "bad"}})
      + Cardinality({c \in mine : conn[c].proxy_sock # "none"})

Spare(w) == OpenDescriptors(w) < Descriptors

\* what epoll_wait() would give a worker now
Ready(w) ==
  {c \in Clients : owner[c] = w /\ (watch[c] = "upstream" \/ (watch[c] = "client" /\ edge[c]))}
  \union {s \in {ListenSock} : backlog # <<>>}

-----------------------------------------------------------------------------
(***************************************************************************)
(* Clients and upstreams.                                                  *)
(***************************************************************************)
\* a client whose connection was closed does nothing more
Open(c) == conn[c].peer = "open" /\ outcome[c] = "none"

\* something arrives on a client's socket
Arrives(c, s) ==
  /\ conn' = [conn EXCEPT ![c] = s]
  /\ edge' = [edge EXCEPT ![c] = (watch[c] = "client")]
  /\ UNCHANGED <<backlog, owner, outcome, watch, workerVars, stopVars>>

Connect(c) ==
  /\ conn[c].peer = "away"
  /\ conn' = [conn EXCEPT ![c].peer = "open"]
  /\ backlog' = Append(backlog, c)
  /\ UNCHANGED <<owner, outcome, watch, edge, workerVars, stopVars>>

Ask(c) ==
  /\ Open(c)
  /\ conn[c].sent < LastSegment + (IF "extra" \in Habits THEN 1 ELSE 0)
  /\ Arrives(c, [conn[c] EXCEPT !.sent = @ + 1])

Shut(c) ==
  /\ "shut" \in Habits
  /\ Open(c)
  /\ Arrives(c, [conn[c] EXCEPT !.peer = "shut"])

Close(c) ==
  /\ "close" \in Habits
  /\ conn[c].peer \in {"open", "shut"} /\ outcome[c] = "none"
  /\ Arrives(c, [conn[c] EXCEPT !.peer = "gone"])

\* makes room in the socket; nobody has asked epoll to be told
Read(c) ==
  /\ conn[c].peer # "gone" /\ outcome[c] = "none"
  /\ conn[c].unread > 0
  /\ conn' = [conn EXCEPT ![c].unread = 0]
  /\ UNCHANGED <<backlog, owner, outcome, watch, edge, workerVars, stopVars>>

UpstreamActs(c, act) ==
  /\ conn[c].proxy_sock = "silent" /\ outcome[c] = "none"
  /\ conn' = [conn EXCEPT ![c].proxy_sock = act]
  /\ UNCHANGED <<backlog, owner, outcome, watch, edge, workerVars, stopVars>>

ClientStep(c) ==
  Connect(c) \/ Ask(c) \/ Shut(c) \/ Close(c) \/ Read(c)
  \/ UpstreamActs(c, "replied") \/ UpstreamActs(c, "shut")

-----------------------------------------------------------------------------
(***************************************************************************)
(* Signals.  EINTR ends epoll_wait() with no events and accept() with no   *)
(* client; a signal that came before the call leaves it blocked.           *)
(***************************************************************************)
AfterEINTR ==
  [epoll_wait |-> "test", accept |-> "event", drain_wait |-> "drain"]

Interrupt(w) ==
  /\ \/ wpc' = wpc
     \/ /\ wpc[w] \in DOMAIN AfterEINTR
        /\ wpc' = [wpc EXCEPT ![w] = AfterEINTR[wpc[w]]]
  /\ UNCHANGED <<clientVars, batch>>

sighup_handler(w) ==
  /\ "soft" \in Stops
  /\ wpc[w] \notin Stopped
  /\ ~is_soft_stop[w]
  /\ is_soft_stop' = [is_soft_stop EXCEPT ![w] = TRUE]
  /\ owed' = [owed EXCEPT ![w] = {c \in Live(w) : WholeRequest(conn[c])}]
  /\ Interrupt(w)
  /\ UNCHANGED is_hard_stop

sigint_handler(w) ==
  /\ "hard" \in Stops
  /\ wpc[w] \notin Stopped
  /\ ~is_hard_stop[w]
  /\ is_hard_stop' = [is_hard_stop EXCEPT ![w] = TRUE]
  /\ Interrupt(w)
  /\ UNCHANGED <<is_soft_stop, owed>>

-----------------------------------------------------------------------------
(***************************************************************************)
(* The worker.                                                             *)
(***************************************************************************)
MoveTo(w, pc) == wpc' = [wpc EXCEPT ![w] = pc]

\* the kernel closes everything the process had
Die(w, pc) ==
  /\ MoveTo(w, pc)
  /\ batch' = [batch EXCEPT ![w] = {}]
  /\ outcome' = [c \in Clients |-> IF c \in Live(w) THEN "reset" ELSE outcome[c]]
  /\ watch' = [c \in Clients |-> IF owner[c] = w THEN "none" ELSE watch[c]]
  /\ edge' = [c \in Clients |-> edge[c] /\ owner[c] # w]
  /\ UNCHANGED <<backlog, owner, stopVars>>

\* Slip: run() returns instead of exit(0), and the process keeps its sockets
Exit_Returns(w) ==
  /\ MoveTo(w, "exited")
  /\ batch' = [batch EXCEPT ![w] = {}]
  /\ UNCHANGED <<clientVars, stopVars>>

Exit(w) == Die(w, "exited") /\ UNCHANGED conn

\* an uncaught exception, or the memory of a deleted object used again
Crash(w) == Die(w, "crashed")

\* while (!is_hard_stop && !is_soft_stop), and what follows the loop
Test(w) ==
  /\ wpc[w] = "test"
  /\ \/ /\ ~is_soft_stop[w] /\ ~is_hard_stop[w]
        /\ MoveTo(w, "epoll_wait")
        /\ UNCHANGED <<clientVars, batch, stopVars>>
     \/ /\ is_soft_stop[w]
        /\ MoveTo(w, "drain_wait")
        /\ UNCHANGED <<clientVars, batch, stopVars>>
     \/ /\ is_hard_stop[w] /\ ~is_soft_stop[w]
        /\ Exit(w)

\* epoll_wait() tells of the events in `told`, each edge once
Told(w, told) ==
  /\ batch' = [batch EXCEPT ![w] = told]
  /\ edge' = [c \in Clients |-> edge[c] /\ c \notin told]
  /\ UNCHANGED <<conn, backlog, owner, outcome, watch, stopVars>>

EpollWait(w) ==
  /\ wpc[w] = "epoll_wait"
  /\ Ready(w) # {}
  /\ Told(w, Ready(w))
  /\ MoveTo(w, "event")

\* Slip: one event of each batch is handled
EndOfBatch_AfterOne(w) ==
  /\ wpc[w] = "event"
  /\ MoveTo(w, "test")
  /\ batch' = [batch EXCEPT ![w] = {}]
  /\ UNCHANGED <<clientVars, stopVars>>

\* the for loop is over, or left because of a stop; what is left of the batch is forgotten
EndOfBatch(w) ==
  /\ wpc[w] = "event"
  /\ batch[w] = {} \/ is_soft_stop[w] \/ is_hard_stop[w]
  /\ MoveTo(w, "test")
  /\ batch' = [batch EXCEPT ![w] = {}]
  /\ UNCHANGED <<clientVars, stopVars>>

\* Slip: the accepted socket is not put into the epoll instance
Accept_Unwatched(w) ==
  LET c == Head(backlog)
  IN  /\ backlog # <<>>
      /\ backlog' = Tail(backlog)
      /\ owner' = [owner EXCEPT ![c] = w]
      /\ MoveTo(w, "event")
      /\ UNCHANGED <<conn, outcome, watch, edge, stopVars>>

\* EPOLL_CTL_ADD of a socket that has input already gives an event at once
Accept(w) ==
  LET c == Head(backlog)
  IN  /\ backlog # <<>>
      /\ backlog' = Tail(backlog)
      /\ owner' = [owner EXCEPT ![c] = w]
      /\ watch' = [watch EXCEPT ![c] = "client"]
      /\ edge' = [edge EXCEPT ![c] = (conn[c].sent > 0 \/ conn[c].peer # "open")]
      /\ MoveTo(w, "event")
      /\ UNCHANGED <<conn, outcome, stopVars>>

\* Slip: the loop over the batch does not look at is_hard_stop
Looking_SoftOnly(w) == wpc[w] = "event" /\ ~is_soft_stop[w]

Looking(w) == wpc[w] = "event" /\ ~is_soft_stop[w] /\ ~is_hard_stop[w]

ListenEvent(w) ==
  /\ Looking(w)
  /\ ListenSock \in batch[w]
  /\ batch' = [batch EXCEPT ![w] = @ \ {ListenSock}]
  /\ \/ Spare(w) /\ Accept(w)
     \/ /\ Spare(w) /\ backlog = <<>>
        /\ MoveTo(w, "accept")
        /\ UNCHANGED <<clientVars, stopVars>>
     \/ ~Spare(w) /\ UNCHANGED <<clientVars, wpc, stopVars>>

AcceptReturns(w) ==
  /\ wpc[w] = "accept"
  /\ Accept(w)
  /\ UNCHANGED batch

\* Slip: a closed connection stays in the epoll instance
Closed_Registered(c, status) ==
  /\ outcome' = [outcome EXCEPT ![c] = status]
  /\ edge' = [edge EXCEPT ![c] = FALSE]
  /\ UNCHANGED watch

(***************************************************************************)
(* What the loop does with the status.  A closed connection leaves epoll   *)
(* with its client's socket; an upstream's socket does not, and its event  *)
(* keeps pointing at the deleted object.                                   *)
(***************************************************************************)
Closed(c, status) ==
  /\ outcome' = [outcome EXCEPT ![c] = status]
  /\ watch' = [watch EXCEPT ![c] = IF @ = "client" THEN "none" ELSE @]
  /\ edge' = [edge EXCEPT ![c] = FALSE]

Checkout(c) ==
  /\ watch' = [watch EXCEPT ![c] = "upstream"]
  /\ edge' = [edge EXCEPT ![c] = FALSE]
  /\ UNCHANGED outcome

\* Slip: every status but a checkout closes the connection
Process_ClosesAlways(w, e, c, statusHandled) ==
  \E r \in connection_processing(conn[c], Spare(w)) :
    /\ conn' = [conn EXCEPT ![c] = r.session]
    /\ r.status \notin CheckoutStatus
    /\ batch' = [batch EXCEPT ![w] = @ \ {e}]
    /\ Closed(c, r.status)
    /\ UNCHANGED <<backlog, owner, wpc, stopVars>>

\* connection_processing() of client c while worker w handles event e
Process(w, e, c, statusHandled) ==
  \E r \in connection_processing(conn[c], Spare(w)) :
    /\ conn' = [conn EXCEPT ![c] = r.session]
    /\ \/ /\ r.status = "uncaught"
          /\ Crash(w)
       \/ /\ r.status # "uncaught"
          /\ batch' = [batch EXCEPT ![w] = @ \ {e}]
          /\ \/ r.status \in ClosingStatus /\ Closed(c, r.status)
             \/ r.status \in CheckoutStatus /\ statusHandled /\ Checkout(c)
             \/ /\ \/ r.status = "CONNECTION_PROCESSING"
                   \/ r.status \in CheckoutStatus /\ ~statusHandled
                /\ UNCHANGED <<outcome, watch, edge>>
          /\ UNCHANGED <<backlog, owner, wpc, stopVars>>

(***************************************************************************)
(* The event's pointer: the connection, or one deleted before.  Then the   *)
(* object is deleted a second time, which ends the process, or its memory  *)
(* belongs by now to another connection of this worker.                    *)
(***************************************************************************)
Handle(w, e, statusHandled) ==
  \/ e \in Live(w) /\ Process(w, e, e, statusHandled)
  \/ /\ e \notin Live(w)
     /\ \/ Crash(w) /\ UNCHANGED conn
        \/ \E c \in Live(w) : Process(w, e, c, statusHandled)

ClientEvent(w) ==
  /\ Looking(w)
  /\ \E e \in batch[w] \ {ListenSock} : Handle(w, e, TRUE)

\* the pass after the loop: one epoll_wait() of at most a millisecond, without the listening socket
DrainWait(w) ==
  /\ wpc[w] = "drain_wait"
  /\ Told(w, Ready(w) \ {ListenSock})
  /\ MoveTo(w, "drain")

Drain(w) ==
  /\ wpc[w] = "drain"
  /\ \/ \E e \in batch[w] : Handle(w, e, FALSE)
     \/ batch[w] = {} /\ Exit(w)

WorkerStep(w) ==
  Test(w) \/ EpollWait(w) \/ EndOfBatch(w) \/ ListenEvent(w) \/ AcceptReturns(w)
  \/ ClientEvent(w) \/ DrainWait(w) \/ Drain(w)

Next ==
  \/ \E c \in Clients : ClientStep(c)
  \/ \E w \in Workers : sighup_handler(w) \/ sigint_handler(w) \/ WorkerStep(w)

Spec == Init /\ [][Next]_vars

\* the scheduler runs every worker that can run
FairSpec == Spec /\ \A w \in Workers : WF_vars(WorkerStep(w))

-----------------------------------------------------------------------------
(***************************************************************************)
(* No event outlives its connection: whatever a worker's epoll instance or *)
(* its batch still names is a connection it has, and the worker runs --    *)
(* unless the socket of an upstream was left behind in that instance.      *)
(* (The loop closes and removes the client's socket before it deletes the  *)
(* object; an event of the same batch must not name it any more.)          *)
(***************************************************************************)
EventsAreLive ==
  \A w \in Workers, c \in Clients :
    c \in batch[w] \/ (owner[c] = w /\ watch[c] # "none") =>
      /\ owner[c] = w
      /\ wpc[w] \notin Stopped
      /\ \/ outcome[c] = "none"
         \/ \E d \in Clients : owner[d] = w /\ watch[d] = "upstream"

(***************************************************************************)
(* Nobody is forgotten: a client whose connection is not closed is in the  *)
(* backlog, once, or belongs to a running worker that has its socket, or   *)
(* the upstream's, in epoll.  (Two workers race for it; a worker may be    *)
(* stopped, or die, at any point.)                                         *)
(***************************************************************************)
NobodyIsForgotten ==
  \A c \in Clients :
    LET places == {i \in 1 .. Len(backlog) : backlog[i] = c}
    IN  conn[c].peer # "away" /\ outcome[c] = "none" =>
          \/ owner[c] = Nobody /\ Cardinality(places) = 1
          \/ /\ owner[c] \in Workers /\ places = {}
             /\ wpc[owner[c]] \notin Stopped
             /\ watch[c] # "none"

(***************************************************************************)
(* A worker only closes the connection of a client that is still there     *)
(* when it has answered: with the file, all of it and in order, or with    *)
(* the 404 page.  For the requests a worker serves itself.                 *)
(***************************************************************************)
ClosedMeansAnswered ==
  \A c \in Clients :
    /\ outcome[c] \in ClosingStatus
    /\ conn[c].peer = "open"
    /\ conn[c].kind \in {"file", "absent", "nowhere"}
    => /\ outcome[c] = "CONNECTION_FINISHED"
       /\ conn[c].answer = (IF conn[c].kind = "file" THEN "200" ELSE "404")
       /\ WholeFile(conn[c])

(***************************************************************************)
(* A worker dies of an exception, or of a deleted connection, only when it *)
(* was asked for something it cannot do: requests for files, directories   *)
(* and unknown urls never kill it.                                         *)
(***************************************************************************)
DeathsHaveACause ==
  \A w \in Workers :
    wpc[w] = "crashed" =>
      \E c \in Clients :
        owner[c] = w /\ conn[c].kind \in {"unsupported", "garbled", "proxied", "posted"}

(***************************************************************************)
(* A hard stop interrupts: once a worker has its SIGINT and no SIGHUP, it  *)
(* does nothing more for a connection it has, and closes none of them but  *)
(* by exiting.                                                             *)
(***************************************************************************)
HardStopInterrupts ==
  [][\A w \in Workers :
       is_hard_stop[w] /\ ~is_soft_stop[w] =>
         \A c \in Live(w) :
           /\ conn'[c].stage = conn[c].stage
           /\ conn'[c].got = conn[c].got
           /\ outcome'[c] \in {"none", "reset"}]_vars

(***************************************************************************)
(* Whatever a full socket makes send_file lose, a client gets no buffer of *)
(* the file twice and none before an earlier one.                          *)
(***************************************************************************)
NothingSentTwice ==
  \A c \in Clients :
    \A i, j \in 1 .. Len(conn[c].got) : i < j => conn[c].got[i] < conn[c].got[j]

(***************************************************************************)
(* All the workers together are one queue of clients (ClientQueue): each   *)
(* client is taken in its turn, by one worker, is settled by that worker   *)
(* and only once, also when events of deleted connections are handled,     *)
(* and none is left open by a worker that has ended.                       *)
(***************************************************************************)
Queue == INSTANCE ClientQueue WITH
  Results <- ClosingStatus,
  waiting <- backlog,
  holder  <- owner,
  result  <- outcome,
  running <- [w \in Workers |-> wpc[w] \notin Stopped]

ImplementsClientQueue == Queue!Spec

(***************************************************************************)
(* Every request that has arrived in full is answered, with two exceptions *)
(* only: a line behind its end was read along with it and threw, or its    *)
(* worker has lost a race for another client and sleeps in accept() for    *)
(* good.                                                                   *)
(***************************************************************************)
RequestsAreAnswered ==
  \A c \in Clients :
    WholeRequest(conn[c]) ~>
      \/ outcome[c] = "CONNECTION_FINISHED"
      \/ conn[c].stage = "BAD_REQUEST" /\ conn[c].seen > LastSegment
      \/ [](owner[c] \in Workers /\ wpc[owner[c]] = "accept")

-----------------------------------------------------------------------------
(***************************************************************************)
(* What the documentation and the comments say, and the code does not do.  *)
(***************************************************************************)
\* "the server processes the old connections received" (.help/.stop.txt:16)
SoftStopServesOld ==
  \A w \in Workers :
    wpc[w] = "exited" /\ ~is_hard_stop[w] =>
      \A c \in owed[w] : outcome[c] = "CONNECTION_FINISHED"
=============================================================================
