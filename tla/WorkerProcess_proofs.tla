------------------------ MODULE WorkerProcess_proofs ------------------------
(***************************************************************************)
(* Proofs about the workers, for any number of them and of clients, for    *)
(* every kind of request, habit and signal, and every size of requests,    *)
(* files, sockets and tables of descriptors.                               *)
(*                                                                         *)
(* The invariant is WorkerInv.  Every step is one of five: a client        *)
(* connects, a session changes (Talks), a worker goes on without touching  *)
(* a connection (Turns), accepts one, serves one (Serves), or ends (Ends). *)
(* StepKinds shows this once; the invariant, the hard stop and the         *)
(* refinement of ClientQueue are proved from the five.  The last part adds *)
(* an invariant for loads without surprises, under which a connection is   *)
(* closed only when it has been answered.                                  *)
(***************************************************************************)
EXTENDS WorkerProcess, ClientConnection_proofs, FiniteSetTheorems

-----------------------------------------------------------------------------
(***************************************************************************)
(* The inductive invariant.                                                *)
(***************************************************************************)
Running(w) == wpc[w] \notin Stopped

Waiting(c) == \E i \in 1 .. Len(backlog) : backlog[i] = c

\* the clients nobody has accepted are in the backlog, once each
InLine ==
  /\ \A i, j \in 1 .. Len(backlog) : backlog[i] = backlog[j] => i = j
  /\ \A c \in Clients :
       /\ Waiting(c) <=> owner[c] = Nobody /\ conn[c].peer # "away"
       /\ conn[c].peer = "away" => owner[c] = Nobody
       /\ owner[c] = Nobody => outcome[c] = "none"

\* an accepted one that is not closed is registered, and only with a running worker
Registered ==
  \A c \in Clients :
    /\ owner[c] # Nobody /\ outcome[c] = "none" => watch[c] # "none" /\ Running(owner[c])
    /\ watch[c] # "none" => owner[c] # Nobody /\ Running(owner[c])
    /\ watch[c] = "client" => outcome[c] = "none"
    /\ watch[c] = "upstream" => conn[c].kind \in Forwarded

\* an upstream's socket is in w's epoll instance, perhaps one of a deleted connection
HasUpstream(w) == \E d \in Clients : owner[d] = w /\ watch[d] = "upstream"

Batches ==
  \A w \in Workers, c \in Clients :
    c \in batch[w] =>
      /\ owner[c] = w /\ Running(w)
      /\ outcome[c] = "none" \/ HasUpstream(w)

BetweenBatches == {"test", "epoll_wait", "drain_wait"}

\* what the location of a worker says of its batch and of its flags
Places ==
  \A w \in Workers :
    /\ wpc[w] \in BetweenBatches => batch[w] = {}
    /\ wpc[w] = "drain" => ListenSock \notin batch[w]
    /\ wpc[w] \in {"drain_wait", "drain"} => is_soft_stop[w]

Causes == {"unsupported", "garbled"} \union Forwarded

HasCause(w) == \E c \in Clients : owner[c] = w /\ conn[c].kind \in Causes

WorkerInv ==
  /\ TypeOK
  /\ \A c \in Clients : SessionInv(conn[c])
  /\ InLine
  /\ Registered
  /\ Batches
  /\ Places
  /\ \A w \in Workers : wpc[w] = "crashed" => HasCause(w)

-----------------------------------------------------------------------------
(***************************************************************************)
(* The kinds of step.  What a step leaves of a session:                    *)
(***************************************************************************)
Same(c, t) ==
  /\ SessionInv(t)
  /\ t.kind = conn[c].kind
  /\ t.peer = "away" <=> conn[c].peer = "away"

\* what a client, or an upstream, does leaves what the worker did
Untouched(c, t) ==
  /\ Same(c, t)
  /\ t.stage = conn[c].stage /\ t.got = conn[c].got
  /\ t.answer = conn[c].answer /\ t.pos = conn[c].pos /\ t.file_fd = conn[c].file_fd
  /\ t.unread \in {0, conn[c].unread}
  /\ t.peer = "open" => conn[c].peer = "open"
  /\ \/ t.sent = conn[c].sent
     \/ t.sent > conn[c].sent /\ ("extra" \notin Habits => t.sent <= LastSegment)

\* there is something to read, or the end of the input
Readable(s) == s.peer # "away" /\ (s.sent > 0 \/ s.peer # "open")

\* a client or an upstream does something, and perhaps its socket has an event
Talks(c) ==
  /\ outcome[c] = "none"
  /\ \E t : /\ conn' = [conn EXCEPT ![c] = t] /\ Untouched(c, t)
            /\ edge' = edge \/ (Readable(t) /\ \E v \in BOOLEAN : edge' = [edge EXCEPT ![c] = v])
  /\ UNCHANGED <<backlog, owner, outcome, watch, workerVars, stopVars>>

\* a signal sets flags, and clears none
Flags ==
  /\ is_soft_stop' \in [Workers -> BOOLEAN]
  /\ is_hard_stop' \in [Workers -> BOOLEAN]
  /\ owed' \in [Workers -> SUBSET Clients]
  /\ \A w \in Workers : is_soft_stop[w] => is_soft_stop'[w]

WorkerLoop == {"test", "epoll_wait", "event", "accept", "drain_wait", "drain"}

\* a worker goes on, is told of events or forgets them; no connection is touched
Turns(w) ==
  /\ Running(w)
  /\ \E pc \in WorkerLoop, b \in SUBSET (batch[w] \union Ready(w)) :
       /\ wpc' = [wpc EXCEPT ![w] = pc]
       /\ batch' = [batch EXCEPT ![w] = b]
       /\ pc \in BetweenBatches => b = {}
       /\ pc = "drain" => ListenSock \notin b
       /\ pc \in {"drain_wait", "drain"} => is_soft_stop'[w]
  /\ Flags
  /\ edge' \in [Clients -> BOOLEAN] /\ \A c \in Clients : edge'[c] => edge[c]
  /\ UNCHANGED <<conn, backlog, owner, outcome, watch>>

\* a worker that is not told to stop takes the client that has waited longest
Accepts(w) ==
  /\ wpc[w] \in {"event", "accept"}
  /\ Accept(w)
  /\ \E b \in SUBSET batch[w] : batch' = [batch EXCEPT ![w] = b]

\* a worker that looks at events, in the loop or in the pass after it
Looks(w) == Looking(w) \/ wpc[w] = "drain"

\* connection_processing() of c, and what run() does with its status
Serves(w, c) ==
  /\ Looks(w)
  /\ c \in Live(w)
  /\ c \in batch[w] \/ HasUpstream(w)
  /\ \E b \in SUBSET batch[w] :
       /\ batch' = [batch EXCEPT ![w] = b]
       /\ c \in b /\ outcome'[c] # "none" => HasUpstream(w)
  /\ \E r \in connection_processing(conn[c], Spare(w)) :
       /\ conn' = [conn EXCEPT ![c] = r.session] /\ Same(c, r.session)
       /\ \/ r.status \in ClosingStatus /\ Closed(c, r.status)
          \/ conn[c].kind \in Forwarded /\ Checkout(c)
          \/ r.status \notin ClosingStatus /\ UNCHANGED <<outcome, watch, edge>>
  /\ UNCHANGED <<backlog, owner, wpc, stopVars>>

\* a worker exits, or crashes while it serves c
Ends(w, pc) ==
  /\ Running(w) /\ pc \in Stopped
  /\ pc = "crashed" => HasCause(w) /\ Looks(w)
  /\ Die(w, pc)
  /\ \/ UNCHANGED conn
     \/ \E c \in Live(w) : \E t :
          pc = "crashed" /\ conn' = [conn EXCEPT ![c] = t] /\ Same(c, t)

-----------------------------------------------------------------------------
(***************************************************************************)
(* The actions, one by one.                                                *)
(***************************************************************************)
LEMMA ArrivesTalks ==
  ASSUME WorkerInv, NEW c \in Clients, NEW t, outcome[c] = "none",
         Untouched(c, t), Readable(t), Arrives(c, t)
  PROVE  Talks(c)
<1>1. (watch[c] = "client") \in BOOLEAN /\ edge' = [edge EXCEPT ![c] = (watch[c] = "client")]
  BY DEF Arrives
<1> QED
  BY <1>1, Zenon DEF Arrives, Talks

LEMMA ClientTalks ==
  ASSUME WorkerInv, NEW c \in Clients, ClientStep(c), ~Connect(c)
  PROVE  Talks(c)
<1> DEFINE s == conn[c]
<1>1. SessionInv(s) /\ s.sent \in Nat
  BY DEF WorkerInv, SessionInv, Session
<1>2. ASSUME NEW t, Beside(s, t), t.peer = "away" <=> s.peer = "away",
             t.unread \in {0, s.unread}, t.peer = "open" => s.peer = "open",
             \/ t.sent = s.sent
             \/ t.sent > s.sent /\ ("extra" \notin Habits => t.sent <= LastSegment)
      PROVE  Untouched(c, t)
  BY <1>2 DEF Beside, Same, Untouched
<1>3. CASE Ask(c)
  <2> DEFINE t == [s EXCEPT !.sent = s.sent + 1]
  <2>1. Arrives(c, t) /\ outcome[c] = "none"
    BY <1>3 DEF Ask, Open
  <2>2. Beside(s, t)
    <3>1. s.sent + 1 \in Nat
      BY <1>1
    <3> QED
      BY <1>1, <3>1, OthersAct
  <2>5. /\ s.peer = "open"
        /\ s.sent < LastSegment + (IF "extra" \in Habits THEN 1 ELSE 0)
    BY <1>3 DEF Ask, Open
  <2>3. t.peer = s.peer /\ t.unread = s.unread /\ t.sent = s.sent + 1
    BY <1>1 DEF SessionInv, Session
  <2> HIDE DEF t
  <2>4. /\ t.sent > s.sent /\ t.sent > 0
        /\ "extra" \notin Habits => t.sent <= LastSegment
    BY <1>1, <2>3, <2>5, LastSegmentAssumption
  <2> QED
    BY <1>2, <2>1, <2>2, <2>3, <2>4, <2>5, ArrivesTalks DEF Readable
<1>4. CASE Shut(c)
  <2> DEFINE t == [s EXCEPT !.peer = "shut"]
  <2>1. s.peer = "open" /\ Arrives(c, t) /\ outcome[c] = "none"
    BY <1>4 DEF Shut, Open
  <2>2. Beside(s, t) /\ t.peer = "shut"
    BY <1>1, OthersAct
  <2>3. t.unread = s.unread /\ t.sent = s.sent
    BY <1>1 DEF SessionInv, Session
  <2> HIDE DEF t
  <2> QED
    BY <1>2, <2>1, <2>2, <2>3, ArrivesTalks DEF Readable
<1>5. CASE Close(c)
  <2> DEFINE t == [s EXCEPT !.peer = "gone"]
  <2>1. s.peer # "away" /\ Arrives(c, t) /\ outcome[c] = "none"
    BY <1>5 DEF Close
  <2>2. Beside(s, t) /\ t.peer = "gone"
    BY <1>1, OthersAct
  <2>3. t.unread = s.unread /\ t.sent = s.sent
    BY <1>1 DEF SessionInv, Session
  <2> HIDE DEF t
  <2> QED
    BY <1>2, <2>1, <2>2, <2>3, ArrivesTalks DEF Readable
<1>6. CASE Read(c)
  <2> DEFINE t == [s EXCEPT !.unread = 0]
  <2>1. Beside(s, t)
    BY <1>1, OthersAct
  <2>2. t.peer = s.peer /\ t.unread = 0 /\ t.sent = s.sent
    BY <1>1 DEF SessionInv, Session
  <2>3. /\ conn' = [conn EXCEPT ![c] = t] /\ edge' = edge /\ outcome[c] = "none"
        /\ UNCHANGED <<backlog, owner, outcome, watch, workerVars, stopVars>>
    BY <1>6 DEF Read
  <2> HIDE DEF t
  <2>4. Untouched(c, t)
    BY <1>2, <2>1, <2>2
  <2> QED
    BY <2>3, <2>4 DEF Talks
<1>7. ASSUME NEW act \in {"replied", "shut"}, UpstreamActs(c, act)
      PROVE  Talks(c)
  <2> DEFINE t == [s EXCEPT !.proxy_sock = act]
  <2>1. /\ s.proxy_sock = "silent" /\ conn' = [conn EXCEPT ![c] = t] /\ edge' = edge
        /\ outcome[c] = "none"
        /\ UNCHANGED <<backlog, owner, outcome, watch, workerVars, stopVars>>
    BY <1>7 DEF UpstreamActs
  <2>2. Beside(s, t)
    BY <1>1, <2>1, OthersAct
  <2>3. t.peer = s.peer /\ t.unread = s.unread /\ t.sent = s.sent
    BY <1>1 DEF SessionInv, Session
  <2> HIDE DEF t
  <2>4. Untouched(c, t)
    BY <1>2, <2>2, <2>3
  <2> QED
    BY <2>1, <2>4 DEF Talks
<1> QED
  BY <1>3, <1>4, <1>5, <1>6, <1>7 DEF ClientStep

\* the parts of TypeOK that a worker's own steps are about
LEMMA WorkerTypes ==
  ASSUME WorkerInv, NEW w \in Workers
  PROVE  /\ wpc[w] \in WorkerLoop \union Stopped
         /\ wpc = [wpc EXCEPT ![w] = wpc[w]]
         /\ batch = [batch EXCEPT ![w] = batch[w]]
         /\ is_soft_stop \in [Workers -> BOOLEAN]
         /\ is_hard_stop \in [Workers -> BOOLEAN]
         /\ owed \in [Workers -> SUBSET Clients]
         /\ edge \in [Clients -> BOOLEAN]
BY DEF WorkerInv, TypeOK, WorkerLoop

LEMMA InterruptTurns ==
  ASSUME WorkerInv, NEW w \in Workers, Running(w), Flags, Interrupt(w)
  PROVE  Turns(w)
<1>1. /\ wpc[w] \in WorkerLoop /\ wpc = [wpc EXCEPT ![w] = wpc[w]]
      /\ batch = [batch EXCEPT ![w] = batch[w]] /\ edge \in [Clients -> BOOLEAN]
  BY WorkerTypes DEF Running
<1>2. /\ UNCHANGED clientVars /\ batch' = batch
      /\ \/ wpc' = wpc
         \/ /\ wpc[w] \in DOMAIN AfterEINTR
            /\ wpc' = [wpc EXCEPT ![w] = AfterEINTR[wpc[w]]]
  BY DEF Interrupt
<1>3. /\ wpc[w] \in BetweenBatches => batch[w] = {}
      /\ wpc[w] = "drain" => ListenSock \notin batch[w]
      /\ wpc[w] \in {"drain_wait", "drain"} => is_soft_stop'[w]
  BY DEF WorkerInv, Places, Flags
<1>4. \E pc \in WorkerLoop :
        /\ wpc' = [wpc EXCEPT ![w] = pc]
        /\ pc \in BetweenBatches => batch[w] = {}
        /\ pc = "drain" => ListenSock \notin batch[w]
        /\ pc \in {"drain_wait", "drain"} => is_soft_stop'[w]
  <2>1. CASE wpc' = wpc
    BY <1>1, <1>3, <2>1
  <2>2. CASE /\ wpc[w] \in DOMAIN AfterEINTR
             /\ wpc' = [wpc EXCEPT ![w] = AfterEINTR[wpc[w]]]
    <3>1. \/ wpc[w] = "epoll_wait" /\ AfterEINTR[wpc[w]] = "test"
          \/ wpc[w] = "accept" /\ AfterEINTR[wpc[w]] = "event"
          \/ wpc[w] = "drain_wait" /\ AfterEINTR[wpc[w]] = "drain"
      BY <2>2 DEF AfterEINTR
    <3> QED
      BY <1>3, <2>2, <3>1 DEF BetweenBatches, WorkerLoop
  <2> QED
    BY <1>2, <2>1, <2>2
<1>5. batch[w] \in SUBSET (batch[w] \union Ready(w))
  OBVIOUS
<1> QED
  BY <1>1, <1>2, <1>4, <1>5 DEF Turns, clientVars

LEMMA SignalTurns ==
  ASSUME WorkerInv, NEW w \in Workers, sighup_handler(w) \/ sigint_handler(w)
  PROVE  Turns(w)
<1>1. Running(w) /\ Interrupt(w)
  BY DEF sighup_handler, sigint_handler, Running
<1>2. CASE sighup_handler(w)
  <2>1. \A v \in Workers : is_soft_stop[v] => [is_soft_stop EXCEPT ![w] = TRUE][v]
    BY WorkerTypes, Zenon
  <2>2. {c \in Live(w) : WholeRequest(conn[c])} \subseteq Clients
    BY DEF Live
  <2>3. Flags
    BY <1>2, <2>1, <2>2, WorkerTypes DEF sighup_handler, Flags
  <2> QED
    BY <1>1, <2>3, InterruptTurns
<1>3. CASE sigint_handler(w)
  <2>1. Flags
    BY <1>3, WorkerTypes DEF sigint_handler, Flags
  <2> QED
    BY <1>1, <2>1, InterruptTurns
<1> QED
  BY <1>2, <1>3

LEMMA StopsUnchanged ==
  ASSUME WorkerInv, UNCHANGED stopVars
  PROVE  Flags /\ is_soft_stop' = is_soft_stop
BY DEF stopVars, Flags, WorkerInv, TypeOK

(***************************************************************************)
(* A step of the loop: pc is where the worker goes on, b its batch then.   *)
(***************************************************************************)
LEMMA MoveTurns ==
  ASSUME WorkerInv, NEW w \in Workers, Running(w),
         NEW pc \in WorkerLoop, NEW b \in SUBSET (batch[w] \union Ready(w)),
         wpc' = [wpc EXCEPT ![w] = pc], batch' = [batch EXCEPT ![w] = b],
         pc \in BetweenBatches => b = {},
         pc = "drain" => ListenSock \notin b,
         pc \in {"drain_wait", "drain"} => is_soft_stop[w],
         edge' \in [Clients -> BOOLEAN], \A c \in Clients : edge'[c] => edge[c],
         UNCHANGED <<conn, backlog, owner, outcome, watch, stopVars>>
  PROVE  Turns(w)
BY StopsUnchanged DEF Turns

LEMMA TestTurns ==
  ASSUME WorkerInv, NEW w \in Workers, Test(w)
  PROVE  Turns(w) \/ Ends(w, "exited")
<1>1. Running(w) /\ batch[w] = {} /\ edge \in [Clients -> BOOLEAN]
      /\ batch = [batch EXCEPT ![w] = {}]
  BY WorkerTypes DEF Test, WorkerInv, Places, BetweenBatches, Running, Stopped
<1>2. "epoll_wait" \in WorkerLoop /\ "drain_wait" \in WorkerLoop /\ "exited" \in Stopped
  BY DEF WorkerLoop, Stopped
<1>3. CASE MoveTo(w, "epoll_wait") /\ UNCHANGED <<clientVars, batch, stopVars>>
  BY <1>1, <1>2, <1>3, MoveTurns DEF MoveTo, clientVars
<1>4. CASE is_soft_stop[w] /\ MoveTo(w, "drain_wait") /\ UNCHANGED <<clientVars, batch, stopVars>>
  BY <1>1, <1>2, <1>4, MoveTurns DEF MoveTo, clientVars
<1>5. CASE Exit(w)
  BY <1>1, <1>2, <1>5 DEF Exit, Ends
<1> QED
  BY <1>3, <1>4, <1>5 DEF Test

LEMMA ToldTurns ==
  ASSUME WorkerInv, NEW w \in Workers, EpollWait(w) \/ DrainWait(w)
  PROVE  Turns(w)
<1>1. ASSUME NEW told, Told(w, told)
      PROVE  /\ batch' = [batch EXCEPT ![w] = told]
             /\ edge' \in [Clients -> BOOLEAN] /\ \A c \in Clients : edge'[c] => edge[c]
             /\ UNCHANGED <<conn, backlog, owner, outcome, watch, stopVars>>
  BY <1>1, Zenon DEF Told
<1>2. CASE EpollWait(w)
  <2>1. /\ Running(w) /\ "event" \in WorkerLoop \ (BetweenBatches \union {"drain", "drain_wait"})
        /\ Told(w, Ready(w)) /\ wpc' = [wpc EXCEPT ![w] = "event"]
    BY <1>2 DEF EpollWait, MoveTo, Running, Stopped, WorkerLoop, BetweenBatches
  <2> QED
    BY <1>1, <2>1, MoveTurns
<1>3. CASE DrainWait(w)
  <2>1. /\ Running(w) /\ "drain" \in WorkerLoop \ BetweenBatches
        /\ Told(w, Ready(w) \ {ListenSock}) /\ wpc' = [wpc EXCEPT ![w] = "drain"]
        /\ is_soft_stop[w]
    BY <1>3 DEF DrainWait, MoveTo, Running, Stopped, WorkerLoop, BetweenBatches, WorkerInv, Places
  <2> QED
    BY <1>1, <2>1, MoveTurns
<1> QED
  BY <1>2, <1>3

LEMMA EndOfBatchTurns ==
  ASSUME WorkerInv, NEW w \in Workers, EndOfBatch(w)
  PROVE  Turns(w)
<1>1. Running(w) /\ "test" \in WorkerLoop \ {"drain", "drain_wait"} /\ edge \in [Clients -> BOOLEAN]
  BY WorkerTypes DEF EndOfBatch, Running, Stopped, WorkerLoop
<1> QED
  BY <1>1, MoveTurns DEF EndOfBatch, MoveTo, clientVars

LEMMA ListenEventTurns ==
  ASSUME WorkerInv, NEW w \in Workers, ListenEvent(w)
  PROVE  Turns(w) \/ Accepts(w)
<1>1. /\ wpc[w] = "event" /\ Running(w) /\ edge \in [Clients -> BOOLEAN]
      /\ wpc = [wpc EXCEPT ![w] = "event"]
      /\ batch' = [batch EXCEPT ![w] = batch[w] \ {ListenSock}]
  BY WorkerTypes DEF ListenEvent, Looking, Running, Stopped
<1>2. {"event", "accept"} \subseteq WorkerLoop \ (BetweenBatches \union {"drain", "drain_wait"})
  BY DEF WorkerLoop, BetweenBatches
<1>3. CASE Accept(w)
  BY <1>1, <1>3 DEF Accepts
<1>4. CASE MoveTo(w, "accept") /\ UNCHANGED <<clientVars, stopVars>>
  BY <1>1, <1>2, <1>4, MoveTurns DEF MoveTo, clientVars
<1>5. CASE UNCHANGED <<clientVars, wpc, stopVars>>
  BY <1>1, <1>2, <1>5, MoveTurns DEF clientVars
<1> QED
  BY <1>3, <1>4, <1>5 DEF ListenEvent

LEMMA AcceptReturnsAccepts ==
  ASSUME WorkerInv, NEW w \in Workers, AcceptReturns(w)
  PROVE  Accepts(w)
BY WorkerTypes DEF AcceptReturns, Accepts

\* the outcomes of connection_processing() as run() tells them apart
LEMMA ProcessCases ==
  ASSUME NEW w, NEW e, NEW c, NEW statusHandled, Process(w, e, c, statusHandled)
  PROVE  \E r \in connection_processing(conn[c], Spare(w)) :
           /\ conn' = [conn EXCEPT ![c] = r.session]
           /\ \/ r.status = "uncaught" /\ Crash(w)
              \/ /\ batch' = [batch EXCEPT ![w] = batch[w] \ {e}]
                 /\ \/ r.status \in ClosingStatus /\ Closed(c, r.status)
                    \/ r.status \in CheckoutStatus /\ Checkout(c)
                    \/ /\ r.status \in CheckoutStatus \union {"CONNECTION_PROCESSING"}
                       /\ UNCHANGED <<outcome, watch, edge>>
                 /\ UNCHANGED <<backlog, owner, wpc, stopVars>>
BY Zenon DEF Process

LEMMA LiveType ==
  ASSUME NEW w, NEW c \in Live(w)
  PROVE  c \in Clients /\ owner[c] = w /\ outcome[c] = "none"
BY DEF Live

LEMMA ProcessServes ==
  ASSUME WorkerInv, NEW w \in Workers, Looks(w), NEW e \in batch[w], NEW c \in Live(w),
         e = c \/ HasUpstream(w), NEW statusHandled, Process(w, e, c, statusHandled)
  PROVE  Serves(w, c) \/ Ends(w, "crashed")
<1>1. PICK r \in connection_processing(conn[c], Spare(w)) :
        /\ conn' = [conn EXCEPT ![c] = r.session]
        /\ \/ r.status = "uncaught" /\ Crash(w)
           \/ /\ batch' = [batch EXCEPT ![w] = batch[w] \ {e}]
              /\ \/ r.status \in ClosingStatus /\ Closed(c, r.status)
                 \/ r.status \in CheckoutStatus /\ Checkout(c)
                 \/ /\ r.status \in CheckoutStatus \union {"CONNECTION_PROCESSING"}
                    /\ UNCHANGED <<outcome, watch, edge>>
              /\ UNCHANGED <<backlog, owner, wpc, stopVars>>
  BY ProcessCases
<1>2. c \in Clients /\ owner[c] = w
  BY LiveType
<1>3. SessionInv(conn[c])
  BY <1>2 DEF WorkerInv
<1>4. Spare(w) \in BOOLEAN
  BY DEF Spare
<1>5. Follows(conn[c], r)
  BY <1>3, <1>4, ConnectionProcessingFollows
<1>6. Same(c, r.session)
  BY <1>5 DEF Follows, Same
<1>7. CASE r.status = "uncaught" /\ Crash(w)
  <2>1. HasCause(w)
    BY <1>2, <1>5, <1>7 DEF Follows, HasCause, Causes
  <2>2. Running(w) /\ "crashed" \in Stopped
    BY DEF Looks, Looking, Running, Stopped
  <2> QED
    BY <1>1, <1>6, <1>7, <2>1, <2>2 DEF Ends, Crash
<1>8. CASE /\ batch' = [batch EXCEPT ![w] = batch[w] \ {e}]
           /\ \/ r.status \in ClosingStatus /\ Closed(c, r.status)
              \/ r.status \in CheckoutStatus /\ Checkout(c)
              \/ /\ r.status \in CheckoutStatus \union {"CONNECTION_PROCESSING"}
                 /\ UNCHANGED <<outcome, watch, edge>>
           /\ UNCHANGED <<backlog, owner, wpc, stopVars>>
  <2>1. r.status \in CheckoutStatus => conn[c].kind \in Forwarded
    BY <1>5 DEF Follows
  <2>2. c \in batch[w] \ {e} => HasUpstream(w)
    OBVIOUS
  <2>3. batch[w] \ {e} \in SUBSET batch[w]
    OBVIOUS
  <2>4. \/ r.status \in ClosingStatus /\ Closed(c, r.status)
        \/ conn[c].kind \in Forwarded /\ Checkout(c)
        \/ r.status \notin ClosingStatus /\ UNCHANGED <<outcome, watch, edge>>
    BY <1>8, <2>1 DEF ClosingStatus, CheckoutStatus
  <2> QED
    BY <1>1, <1>6, <1>8, <2>2, <2>3, <2>4 DEF Serves
<1> QED
  BY <1>1, <1>7, <1>8

LEMMA HandleServes ==
  ASSUME WorkerInv, NEW w \in Workers, Looks(w),
         NEW e \in batch[w], e # ListenSock, NEW statusHandled, Handle(w, e, statusHandled)
  PROVE  (\E c \in Clients : Serves(w, c)) \/ Ends(w, "crashed")
<1>1. e \in Clients /\ owner[e] = w /\ (outcome[e] = "none" \/ HasUpstream(w))
  <2>1. e \in Clients
    BY DEF WorkerInv, TypeOK
  <2> QED
    BY <2>1 DEF WorkerInv, Batches
<1>2. CASE e \in Live(w) /\ Process(w, e, e, statusHandled)
  BY <1>1, <1>2, ProcessServes
<1>3. CASE e \notin Live(w)
  <2>1. PICK d \in Clients : owner[d] = w /\ watch[d] = "upstream"
    BY <1>1, <1>3 DEF Live, HasUpstream
  <2>2. HasUpstream(w) /\ HasCause(w)
    BY <2>1 DEF HasUpstream, HasCause, WorkerInv, Registered, Causes
  <2>3. CASE Crash(w) /\ UNCHANGED conn
    <3>1. Running(w) /\ "crashed" \in Stopped
      BY DEF Looks, Looking, Running, Stopped
    <3> QED
      BY <2>2, <2>3, <3>1 DEF Ends, Crash
  <2>4. ASSUME NEW c \in Live(w), Process(w, e, c, statusHandled)
        PROVE  (\E b \in Clients : Serves(w, b)) \/ Ends(w, "crashed")
    BY <2>2, <2>4, ProcessServes, LiveType
  <2> QED
    BY <1>3, <2>3, <2>4, Zenon DEF Handle
<1> QED
  BY <1>2, <1>3, Zenon DEF Handle

LEMMA ClientEventServes ==
  ASSUME WorkerInv, NEW w \in Workers, ClientEvent(w)
  PROVE  (\E c \in Clients : Serves(w, c)) \/ Ends(w, "crashed")
<1>1. PICK e \in batch[w] \ {ListenSock} : Handle(w, e, TRUE)
  BY Zenon DEF ClientEvent
<1>2. Looks(w)
  BY DEF ClientEvent, Looks
<1> QED
  BY <1>1, <1>2, HandleServes

LEMMA DrainServes ==
  ASSUME WorkerInv, NEW w \in Workers, Drain(w)
  PROVE  (\E c \in Clients : Serves(w, c)) \/ \E pc \in Stopped : Ends(w, pc)
<1>1. wpc[w] = "drain" /\ Looks(w) /\ Running(w) /\ ListenSock \notin batch[w]
      /\ Stopped = {"exited", "crashed"}
  BY DEF Drain, Looks, Running, Stopped, WorkerInv, Places
<1>2. CASE \E e \in batch[w] : Handle(w, e, FALSE)
  <2>1. PICK e \in batch[w] : Handle(w, e, FALSE)
    BY <1>2
  <2> QED
    BY <1>1, <2>1, HandleServes
<1>3. CASE Exit(w)
  <2>1. Ends(w, "exited")
    BY <1>1, <1>3 DEF Exit, Ends
  <2> QED
    BY <1>1, <2>1
<1> QED
  BY <1>2, <1>3, Zenon DEF Drain

(***************************************************************************)
(* Every step is one of these.                                             *)
(***************************************************************************)
LEMMA StepKinds ==
  ASSUME WorkerInv, Next
  PROVE  \/ \E c \in Clients : Connect(c) \/ Talks(c)
         \/ \E w \in Workers :
              \/ Turns(w)
              \/ Accepts(w)
              \/ \E c \in Clients : Serves(w, c)
              \/ \E pc \in Stopped : Ends(w, pc)
<1>1. ASSUME NEW c \in Clients, ClientStep(c)
      PROVE  Connect(c) \/ Talks(c)
  BY <1>1, ClientTalks
<1>2. Stopped = {"exited", "crashed"}
  BY DEF Stopped
<1>3. ASSUME NEW w \in Workers, WorkerStep(w)
      PROVE  \/ Turns(w) \/ Accepts(w)
             \/ \E c \in Clients : Serves(w, c)
             \/ \E pc \in Stopped : Ends(w, pc)
  <2>1. ASSUME Test(w) PROVE Turns(w) \/ Ends(w, "exited")
    BY <2>1, TestTurns
  <2>2. ASSUME EpollWait(w) \/ DrainWait(w) PROVE Turns(w)
    BY <2>2, ToldTurns
  <2>3. ASSUME EndOfBatch(w) PROVE Turns(w)
    BY <2>3, EndOfBatchTurns
  <2>4. ASSUME ListenEvent(w) PROVE Turns(w) \/ Accepts(w)
    BY <2>4, ListenEventTurns
  <2>5. ASSUME AcceptReturns(w) PROVE Accepts(w)
    BY <2>5, AcceptReturnsAccepts
  <2>6. ASSUME ClientEvent(w)
        PROVE  (\E c \in Clients : Serves(w, c)) \/ Ends(w, "crashed")
    BY <2>6, ClientEventServes
  <2>7. ASSUME Drain(w)
        PROVE  (\E c \in Clients : Serves(w, c)) \/ \E pc \in Stopped : Ends(w, pc)
    BY <2>7, DrainServes
  <2> QED
    BY <1>2, <1>3, <2>1, <2>2, <2>3, <2>4, <2>5, <2>6, <2>7 DEF WorkerStep
<1>4. ASSUME NEW w \in Workers, sighup_handler(w) \/ sigint_handler(w)
      PROVE  Turns(w)
  BY <1>4, SignalTurns
<1> QED
  BY <1>1, <1>3, <1>4 DEF Next

-----------------------------------------------------------------------------
(***************************************************************************)
(* A queue without repetitions.                                            *)
(***************************************************************************)
Distinct(q) == \A i, j \in 1 .. Len(q) : q[i] = q[j] => i = j

In(q, c) == \E i \in 1 .. Len(q) : q[i] = c

LEMMA AppendDistinct ==
  ASSUME NEW S, NEW q \in Seq(S), NEW c \in S, Distinct(q), ~In(q, c)
  PROVE  /\ Append(q, c) \in Seq(S) /\ Distinct(Append(q, c))
         /\ \A d : In(Append(q, c), d) <=> d = c \/ In(q, d)
<1> DEFINE n == Len(q)
           a == Append(q, c)
<1>1. /\ n \in Nat /\ a \in Seq(S) /\ Len(a) = n + 1
      /\ \A i \in 1 .. n : a[i] = q[i]
      /\ a[n + 1] = c
  BY AppendProperties, LenProperties
<1>2. \A i \in 1 .. n + 1 : i = n + 1 \/ i \in 1 .. n
  BY <1>1
<1>3. \A i \in 1 .. n : i \in 1 .. n + 1
  BY <1>1
<1>4. n + 1 \in 1 .. n + 1
  BY <1>1
<1> HIDE DEF a
<1>5. Distinct(a)
  <2> SUFFICES ASSUME NEW i \in 1 .. n + 1, NEW j \in 1 .. n + 1, a[i] = a[j] PROVE i = j
    BY <1>1 DEF Distinct
  <2>1. CASE i \in 1 .. n /\ j \in 1 .. n
    BY <1>1, <2>1 DEF Distinct
  <2>2. CASE i = n + 1 /\ j \in 1 .. n
    BY <1>1, <2>2 DEF In
  <2>3. CASE i \in 1 .. n /\ j = n + 1
    BY <1>1, <2>3 DEF In
  <2> QED
    BY <1>2, <2>1, <2>2, <2>3
<1>6. \A d : In(a, d) <=> d = c \/ In(q, d)
  BY <1>1, <1>2, <1>3, <1>4, Zenon DEF In
<1> QED
  BY <1>1, <1>5, <1>6 DEF a

LEMMA TailDistinct ==
  ASSUME NEW S, NEW q \in Seq(S), q # <<>>, Distinct(q)
  PROVE  /\ Head(q) \in S /\ In(q, Head(q))
         /\ Tail(q) \in Seq(S) /\ Distinct(Tail(q))
         /\ \A d : In(Tail(q), d) <=> d # Head(q) /\ In(q, d)
<1> DEFINE n == Len(q)
           r == Tail(q)
<1>1. /\ n \in Nat \ {0} /\ Head(q) = q[1] /\ Head(q) \in S
      /\ r \in Seq(S) /\ Len(r) = n - 1
      /\ \A i \in 1 .. n - 1 : r[i] = q[i + 1]
  BY HeadTailProperties, EmptySeq, LenProperties
<1> HIDE DEF r
<1>2. /\ 1 \in 1 .. n
      /\ \A i \in 1 .. n - 1 : i + 1 \in 1 .. n /\ i + 1 # 1
      /\ \A i \in 1 .. n : i = 1 \/ (i - 1 \in 1 .. n - 1 /\ (i - 1) + 1 = i)
  BY <1>1
<1>3. Distinct(r)
  <2> SUFFICES ASSUME NEW i \in 1 .. n - 1, NEW j \in 1 .. n - 1, r[i] = r[j] PROVE i = j
    BY <1>1 DEF Distinct
  <2>1. i + 1 = j + 1
    BY <1>1, <1>2 DEF Distinct
  <2> QED
    BY <1>1, <2>1
<1>4. ASSUME NEW d, In(r, d)
      PROVE  d # Head(q) /\ In(q, d)
  <2>1. PICK i \in 1 .. n - 1 : r[i] = d
    BY <1>1, <1>4 DEF In
  <2>2. q[i + 1] = d /\ i + 1 \in 1 .. n /\ i + 1 # 1
    BY <1>1, <1>2, <2>1
  <2> QED
    BY <1>1, <1>2, <2>2 DEF In, Distinct
<1>5. ASSUME NEW d, d # Head(q), In(q, d)
      PROVE  In(r, d)
  <2>1. PICK i \in 1 .. n : q[i] = d
    BY <1>5 DEF In
  <2>2. i - 1 \in 1 .. n - 1 /\ r[i - 1] = d
    BY <1>1, <1>2, <1>5, <2>1
  <2> QED
    BY <1>1, <2>2 DEF In
<1>6. In(q, Head(q))
  BY <1>1, <1>2 DEF In
<1> QED
  BY <1>1, <1>3, <1>4, <1>5, <1>6 DEF r

-----------------------------------------------------------------------------
(***************************************************************************)
(* Each kind of step preserves the invariant.                              *)
(***************************************************************************)
SessionsAlike ==
  /\ conn' \in [Clients -> Session]
  /\ \A d \in Clients :
       /\ SessionInv(conn'[d])
       /\ conn'[d].kind = conn[d].kind
       /\ conn'[d].peer = "away" <=> conn[d].peer = "away"

LEMMA SessionsKept ==
  ASSUME WorkerInv, NEW c \in Clients, NEW t, conn' = [conn EXCEPT ![c] = t], Same(c, t)
  PROVE  SessionsAlike
<1>1. conn \in [Clients -> Session] /\ \A d \in Clients : SessionInv(conn[d])
  BY DEF WorkerInv, TypeOK
<1>2. t \in Session
  BY DEF Same, SessionInv
<1>3. \A d \in Clients : conn'[d] = IF d = c THEN t ELSE conn[d]
  BY <1>1
<1>4. conn' \in [Clients -> Session]
  BY <1>1, <1>2
<1> QED
  BY <1>1, <1>3, <1>4, Zenon DEF SessionsAlike, Same

LEMMA SessionsUnchanged ==
  ASSUME WorkerInv, UNCHANGED conn
  PROVE  SessionsAlike
BY Zenon DEF SessionsAlike, WorkerInv, TypeOK

\* InLine in the terms of the lemmas on queues
LEMMA InLineIs ==
  InLine <=> /\ Distinct(backlog)
             /\ \A c \in Clients :
                  /\ In(backlog, c) <=> owner[c] = Nobody /\ conn[c].peer # "away"
                  /\ conn[c].peer = "away" => owner[c] = Nobody
                  /\ owner[c] = Nobody => outcome[c] = "none"
BY Zenon DEF InLine, Distinct, In, Waiting

LEMMA CausesKept ==
  ASSUME SessionsAlike, UNCHANGED owner, NEW w, HasCause(w)
  PROVE  HasCause(w)'
BY Zenon DEF HasCause, SessionsAlike

LEMMA InLineKept ==
  ASSUME InLine, SessionsAlike, UNCHANGED <<backlog, owner>>,
         \A c \in Clients : owner[c] = Nobody => outcome'[c] = outcome[c]
  PROVE  InLine'
<1>1. backlog' = backlog /\ owner' = owner
  OBVIOUS
<1>2. ASSUME NEW c \in Clients
      PROVE  /\ In(backlog', c) <=> owner'[c] = Nobody /\ conn'[c].peer # "away"
             /\ conn'[c].peer = "away" => owner'[c] = Nobody
             /\ owner'[c] = Nobody => outcome'[c] = "none"
  BY <1>1, InLineIs DEF SessionsAlike
<1>3. Distinct(backlog')
  BY <1>1, InLineIs
<1> QED
  BY <1>2, <1>3, Zenon DEF InLine, Distinct, In, Waiting

LEMMA TalksInv ==
  ASSUME WorkerInv, NEW c \in Clients, Talks(c)
  PROVE  WorkerInv'
<1>1. SessionsAlike
  BY SessionsKept DEF Talks, Untouched
<1>2. /\ edge' \in [Clients -> BOOLEAN]
      /\ UNCHANGED <<backlog, owner, outcome, watch, workerVars, stopVars>>
  BY DEF Talks, WorkerInv, TypeOK
<1>3. TypeOK'
  BY <1>1, <1>2 DEF WorkerInv, TypeOK, SessionsAlike, workerVars, stopVars
<1>4. \A d \in Clients : SessionInv(conn[d])'
  BY <1>1 DEF SessionsAlike
<1>5. InLine'
  BY <1>1, <1>2, InLineKept DEF WorkerInv
<1>6. Registered'
  BY <1>1, <1>2 DEF WorkerInv, Registered, SessionsAlike, Running, workerVars
<1>7. Batches'
  BY <1>2 DEF WorkerInv, Batches, HasUpstream, Running, workerVars
<1>8. Places'
  BY <1>2, Zenon DEF WorkerInv, Places, workerVars, stopVars
<1>9. ASSUME NEW w \in Workers, wpc'[w] = "crashed" PROVE HasCause(w)'
  BY <1>1, <1>2, <1>9, CausesKept DEF WorkerInv, workerVars
<1> QED
  BY <1>3, <1>4, <1>5, <1>6, <1>7, <1>8, <1>9 DEF WorkerInv

LEMMA ConnectInv ==
  ASSUME WorkerInv, NEW c \in Clients, Connect(c)
  PROVE  WorkerInv'
<1> DEFINE t == [conn[c] EXCEPT !.peer = "open"]
<1>1. /\ conn \in [Clients -> Session] /\ SessionInv(conn[c]) /\ conn[c].peer = "away"
      /\ backlog \in Seq(Clients)
  BY DEF Connect, WorkerInv, TypeOK
<1>2. Beside(conn[c], t) /\ t.peer = "open" /\ t \in Session
  BY <1>1, OthersAct DEF Beside, SessionInv
<1>3. conn' = [conn EXCEPT ![c] = t]
  BY DEF Connect
<1> HIDE DEF t
<1>4. /\ conn' \in [Clients -> Session]
      /\ \A d \in Clients : conn'[d] = IF d = c THEN t ELSE conn[d]
  BY <1>1, <1>2, <1>3
<1>5. \A d \in Clients : SessionInv(conn'[d]) /\ conn'[d].kind = conn[d].kind
  BY <1>2, <1>4, Zenon DEF WorkerInv, Beside
<1>6. /\ backlog' = Append(backlog, c)
      /\ UNCHANGED <<owner, outcome, watch, edge, workerVars, stopVars>>
  BY DEF Connect
<1>7. Distinct(backlog) /\ ~In(backlog, c) /\ owner[c] = Nobody
  BY <1>1, InLineIs DEF WorkerInv
<1>8. /\ backlog' \in Seq(Clients) /\ Distinct(backlog')
      /\ \A d : In(backlog', d) <=> d = c \/ In(backlog, d)
  BY <1>1, <1>6, <1>7, AppendDistinct
<1>9. TypeOK'
  BY <1>4, <1>6, <1>8 DEF WorkerInv, TypeOK, workerVars, stopVars
<1>10. InLine'
  <2>1. ASSUME NEW d \in Clients
        PROVE  /\ In(backlog', d) <=> owner'[d] = Nobody /\ conn'[d].peer # "away"
               /\ conn'[d].peer = "away" => owner'[d] = Nobody
               /\ owner'[d] = Nobody => outcome'[d] = "none"
    <3>1. /\ In(backlog, d) <=> owner[d] = Nobody /\ conn[d].peer # "away"
          /\ conn[d].peer = "away" => owner[d] = Nobody
          /\ owner[d] = Nobody => outcome[d] = "none"
      BY InLineIs DEF WorkerInv
    <3>2. CASE d = c
      BY <1>2, <1>4, <1>6, <1>7, <1>8, <3>1, <3>2
    <3>3. CASE d # c
      BY <1>4, <1>6, <1>8, <3>1, <3>3
    <3> QED
      BY <3>2, <3>3
  <2> QED
    BY <1>8, <2>1, Zenon DEF InLine, Distinct, In, Waiting
<1>11. Registered'
  BY <1>5, <1>6 DEF WorkerInv, Registered, Running, workerVars
<1>12. Batches'
  BY <1>6 DEF WorkerInv, Batches, HasUpstream, Running, workerVars
<1>13. Places'
  BY <1>6, Zenon DEF WorkerInv, Places, workerVars, stopVars
<1>14. ASSUME NEW w \in Workers, wpc'[w] = "crashed" PROVE HasCause(w)'
  BY <1>5, <1>6, <1>14 DEF WorkerInv, HasCause, workerVars
<1> QED
  BY <1>5, <1>9, <1>10, <1>11, <1>12, <1>13, <1>14 DEF WorkerInv

LEMMA TurnsInv ==
  ASSUME WorkerInv, NEW w \in Workers, Turns(w)
  PROVE  WorkerInv'
<1>1. SessionsAlike
  BY SessionsUnchanged DEF Turns
<1>2. PICK pc \in WorkerLoop, b \in SUBSET (batch[w] \union Ready(w)) :
        /\ wpc' = [wpc EXCEPT ![w] = pc]
        /\ batch' = [batch EXCEPT ![w] = b]
        /\ pc \in BetweenBatches => b = {}
        /\ pc = "drain" => ListenSock \notin b
        /\ pc \in {"drain_wait", "drain"} => is_soft_stop'[w]
  BY Zenon DEF Turns
<1>3. /\ Running(w) /\ Flags /\ edge' \in [Clients -> BOOLEAN]
      /\ UNCHANGED <<conn, backlog, owner, outcome, watch>>
  BY DEF Turns
<1>4. /\ \A v \in Workers : wpc'[v] = IF v = w THEN pc ELSE wpc[v]
      /\ \A v \in Workers : batch'[v] = IF v = w THEN b ELSE batch[v]
  BY <1>2 DEF WorkerInv, TypeOK
<1>5. pc \notin Stopped /\ wpc[w] \notin Stopped
  BY <1>3 DEF WorkerLoop, Stopped, Running
<1>6. \A v : v \in Workers => (Running(v)' <=> Running(v))
  BY <1>4, <1>5 DEF Running
<1>7. TypeOK'
  <2>1. batch[w] \union Ready(w) \subseteq Clients \union {ListenSock}
    BY DEF WorkerInv, TypeOK, Ready
  <2>2. batch' \in [Workers -> SUBSET (Clients \union {ListenSock})]
    BY <1>2, <2>1 DEF WorkerInv, TypeOK
  <2>3. wpc' \in [Workers -> WorkerLoop \union Stopped]
    BY <1>2 DEF WorkerInv, TypeOK, WorkerLoop
  <2> QED
    BY <1>3, <2>2, <2>3 DEF WorkerInv, TypeOK, WorkerLoop, Flags
<1>8. \A d \in Clients : SessionInv(conn[d])'
  BY <1>1 DEF SessionsAlike
<1>9. InLine'
  BY <1>1, <1>3, InLineKept DEF WorkerInv
<1>10. Registered'
  <2>1. \A d \in Clients : owner[d] \in Workers \union {Nobody}
    BY DEF WorkerInv, TypeOK
  <2> QED
    BY <1>3, <1>6, <2>1 DEF WorkerInv, Registered
<1>11. Batches'
  <2> SUFFICES ASSUME NEW v \in Workers, NEW d \in Clients, d \in batch'[v]
               PROVE  /\ owner[d] = v /\ Running(v)
                      /\ outcome[d] = "none" \/ HasUpstream(v)
    BY <1>3, <1>6 DEF Batches, HasUpstream
  <2>1. CASE d \in batch[v]
    BY <2>1 DEF WorkerInv, Batches
  <2>2. CASE v = w /\ d \in Ready(w)
    <3>1. owner[d] = w /\ (watch[d] = "upstream" \/ watch[d] = "client")
      BY <2>2, ListenSockAssumption DEF Ready
    <3> QED
      BY <1>3, <2>2, <3>1 DEF WorkerInv, Registered, HasUpstream
  <2> QED
    BY <1>4, <2>1, <2>2
<1>12. Places'
  <2> SUFFICES ASSUME NEW v \in Workers
               PROVE  /\ wpc'[v] \in BetweenBatches => batch'[v] = {}
                      /\ wpc'[v] = "drain" => ListenSock \notin batch'[v]
                      /\ wpc'[v] \in {"drain_wait", "drain"} => is_soft_stop'[v]
    BY Zenon DEF Places
  <2>1. CASE v = w
    BY <1>2, <1>4, <2>1
  <2>2. CASE v # w
    BY <1>3, <1>4, <2>2 DEF WorkerInv, Places, Flags
  <2> QED
    BY <2>1, <2>2
<1>13. ASSUME NEW v \in Workers, wpc'[v] = "crashed" PROVE HasCause(v)'
  <2>1. wpc[v] = "crashed"
    BY <1>4, <1>5, <1>13 DEF Stopped
  <2> QED
    BY <1>1, <1>3, <2>1, CausesKept DEF WorkerInv
<1> QED
  BY <1>7, <1>8, <1>9, <1>10, <1>11, <1>12, <1>13 DEF WorkerInv

LEMMA AcceptsInv ==
  ASSUME WorkerInv, NEW w \in Workers, Accepts(w)
  PROVE  WorkerInv'
<1> DEFINE c == Head(backlog)
<1>1. /\ backlog # <<>> /\ backlog' = Tail(backlog)
      /\ owner' = [owner EXCEPT ![c] = w]
      /\ watch' = [watch EXCEPT ![c] = "client"]
      /\ edge' = [edge EXCEPT ![c] = (conn[c].sent > 0 \/ conn[c].peer # "open")]
      /\ wpc' = [wpc EXCEPT ![w] = "event"]
      /\ UNCHANGED <<conn, outcome, stopVars>>
      /\ wpc[w] \in {"event", "accept"}
  BY DEF Accepts, Accept, MoveTo
<1>2. PICK b \in SUBSET batch[w] : batch' = [batch EXCEPT ![w] = b]
  BY DEF Accepts
<1>3. SessionsAlike
  BY <1>1, SessionsUnchanged
<1>4. backlog \in Seq(Clients) /\ Distinct(backlog)
  BY InLineIs DEF WorkerInv, TypeOK
<1>5. /\ c \in Clients /\ In(backlog, c)
      /\ backlog' \in Seq(Clients) /\ Distinct(backlog')
      /\ \A d : In(backlog', d) <=> d # c /\ In(backlog, d)
  BY <1>1, <1>4, TailDistinct
<1> HIDE DEF c
<1>6. owner[c] = Nobody /\ conn[c].peer # "away" /\ outcome[c] = "none" /\ w # Nobody
  BY <1>5, InLineIs, NobodyAssumption DEF WorkerInv
<1>7. /\ \A d \in Clients : owner'[d] = IF d = c THEN w ELSE owner[d]
      /\ \A d \in Clients : watch'[d] = IF d = c THEN "client" ELSE watch[d]
      /\ \A v \in Workers : wpc'[v] = IF v = w THEN "event" ELSE wpc[v]
      /\ \A v \in Workers : batch'[v] = IF v = w THEN b ELSE batch[v]
  BY <1>1, <1>2 DEF WorkerInv, TypeOK
<1>8. /\ "event" \notin Stopped \union BetweenBatches \union {"drain", "drain_wait"}
      /\ "event" # "crashed" /\ Running(w)
  BY <1>1 DEF Stopped, BetweenBatches, Running
<1>9. \A v : v \in Workers => (Running(v)' <=> Running(v))
  BY <1>7, <1>8 DEF Running
<1>10. TypeOK'
  BY <1>1, <1>2, <1>5 DEF WorkerInv, TypeOK, stopVars
<1>11. \A d \in Clients : SessionInv(conn[d])'
  BY <1>3 DEF SessionsAlike
<1>12. InLine'
  <2>1. ASSUME NEW d \in Clients
        PROVE  /\ In(backlog', d) <=> owner'[d] = Nobody /\ conn'[d].peer # "away"
               /\ conn'[d].peer = "away" => owner'[d] = Nobody
               /\ owner'[d] = Nobody => outcome'[d] = "none"
    <3>1. /\ In(backlog, d) <=> owner[d] = Nobody /\ conn[d].peer # "away"
          /\ conn[d].peer = "away" => owner[d] = Nobody
          /\ owner[d] = Nobody => outcome[d] = "none"
      BY InLineIs DEF WorkerInv
    <3>2. conn'[d] = conn[d] /\ outcome'[d] = outcome[d]
      BY <1>1
    <3>3. CASE d = c
      BY <1>5, <1>6, <1>7, <3>2, <3>3
    <3>4. CASE d # c
      BY <1>5, <1>7, <3>1, <3>2, <3>4
    <3> QED
      BY <3>3, <3>4
  <2> QED
    BY <1>5, <2>1, Zenon DEF InLine, Distinct, In, Waiting
<1>13. \A v \in Workers : HasUpstream(v) => HasUpstream(v)'
  <2> SUFFICES ASSUME NEW v \in Workers, HasUpstream(v) PROVE HasUpstream(v)'
    OBVIOUS
  <2>1. PICK d \in Clients : owner[d] = v /\ watch[d] = "upstream"
    BY DEF HasUpstream
  <2>2. d # c
    BY <1>6, <2>1, NobodyAssumption
  <2> QED
    BY <1>7, <2>1, <2>2 DEF HasUpstream
<1>14. Registered'
  <2> SUFFICES ASSUME NEW d \in Clients
               PROVE  /\ owner'[d] # Nobody /\ outcome[d] = "none" =>
                           watch'[d] # "none" /\ wpc'[owner'[d]] \notin Stopped
                      /\ watch'[d] # "none" => owner'[d] # Nobody /\ wpc'[owner'[d]] \notin Stopped
                      /\ watch'[d] = "client" => outcome[d] = "none"
                      /\ watch'[d] = "upstream" => conn[d].kind \in Forwarded
    BY <1>1, Zenon DEF Registered, Running
  <2>1. owner[d] \in Workers \union {Nobody}
    BY DEF WorkerInv, TypeOK
  <2>2. CASE d = c
    BY <1>6, <1>7, <1>8, <1>9, <2>2 DEF Running
  <2>3. CASE d # c
    BY <1>7, <1>9, <2>1, <2>3 DEF WorkerInv, Registered, Running
  <2> QED
    BY <2>2, <2>3
<1>15. Batches'
  <2> SUFFICES ASSUME NEW v \in Workers, NEW d \in Clients, d \in batch'[v]
               PROVE  /\ owner'[d] = v /\ Running(v)'
                      /\ outcome[d] = "none" \/ HasUpstream(v)'
    BY <1>1 DEF Batches
  <2>1. d \in batch[v]
    BY <1>7
  <2>2. owner[d] = v /\ Running(v) /\ (outcome[d] = "none" \/ HasUpstream(v))
    BY <2>1 DEF WorkerInv, Batches
  <2>3. d # c
    BY <1>6, <2>2, NobodyAssumption
  <2> QED
    BY <1>7, <1>9, <1>13, <2>2, <2>3
<1>16. Places'
  <2> SUFFICES ASSUME NEW v \in Workers
               PROVE  /\ wpc'[v] \in BetweenBatches => batch'[v] = {}
                      /\ wpc'[v] = "drain" => ListenSock \notin batch'[v]
                      /\ wpc'[v] \in {"drain_wait", "drain"} => is_soft_stop'[v]
    BY Zenon DEF Places
  <2>1. CASE v = w
    BY <1>7, <1>8, <2>1
  <2>2. CASE v # w
    BY <1>1, <1>7, <2>2 DEF WorkerInv, Places, stopVars
  <2> QED
    BY <2>1, <2>2
<1>17. ASSUME NEW v \in Workers, wpc'[v] = "crashed" PROVE HasCause(v)'
  <2>1. PICK d \in Clients : owner[d] = v /\ conn[d].kind \in Causes
    BY <1>7, <1>8, <1>17 DEF WorkerInv, HasCause
  <2>2. d # c
    BY <1>6, <2>1, NobodyAssumption
  <2> QED
    BY <1>1, <1>7, <2>1, <2>2 DEF HasCause
<1> QED
  BY <1>10, <1>11, <1>12, <1>14, <1>15, <1>16, <1>17 DEF WorkerInv

(***************************************************************************)
(* What serving a client changes: its outcome and its registration only.   *)
(* An upstream's socket stays where it is.                                 *)
(***************************************************************************)
LEMMA ServedClient ==
  ASSUME WorkerInv, NEW w \in Workers, NEW c \in Clients, Serves(w, c)
  PROVE  /\ owner[c] = w /\ outcome[c] = "none" /\ Running(w) /\ watch[c] # "none"
         /\ \A d \in Clients : d # c => outcome'[d] = outcome[d] /\ watch'[d] = watch[d]
         /\ watch[c] = "upstream" => watch'[c] = "upstream"
         /\ \/ outcome'[c] \in ClosingStatus /\ watch'[c] \in {"none", "upstream"}
            \/ outcome'[c] = "none" /\ watch'[c] # "none"
         /\ watch'[c] = "upstream" => conn[c].kind \in Forwarded
         /\ outcome' \in [Clients -> ClosingStatus \union {"none", "reset"}]
         /\ watch' \in [Clients -> {"none", "client", "upstream"}]
         /\ edge' \in [Clients -> BOOLEAN]
<1>1. /\ owner[c] = w /\ outcome[c] = "none" /\ w # Nobody
  BY LiveType, NobodyAssumption DEF Serves
<1>2. /\ Running(w) /\ watch[c] # "none"
      /\ watch[c] = "upstream" => conn[c].kind \in Forwarded
  BY <1>1 DEF WorkerInv, Registered
<1>3. /\ outcome \in [Clients -> ClosingStatus \union {"none", "reset"}]
      /\ watch \in [Clients -> {"none", "client", "upstream"}]
      /\ edge \in [Clients -> BOOLEAN]
  BY DEF WorkerInv, TypeOK
<1>4. CASE \E status \in ClosingStatus : Closed(c, status)
  <2>1. PICK status \in ClosingStatus : Closed(c, status)
    BY <1>4
  <2>2. /\ outcome' = [outcome EXCEPT ![c] = status]
        /\ watch' = [watch EXCEPT ![c] = IF watch[c] = "client" THEN "none" ELSE watch[c]]
        /\ edge' = [edge EXCEPT ![c] = FALSE]
    BY <2>1 DEF Closed
  <2> QED
    BY <1>1, <1>2, <1>3, <2>2
<1>5. CASE conn[c].kind \in Forwarded /\ Checkout(c)
  <2>1. /\ watch' = [watch EXCEPT ![c] = "upstream"]
        /\ edge' = [edge EXCEPT ![c] = FALSE] /\ outcome' = outcome
    BY <1>5 DEF Checkout
  <2> QED
    BY <1>1, <1>2, <1>3, <1>5, <2>1
<1>6. CASE UNCHANGED <<outcome, watch, edge>>
  BY <1>1, <1>2, <1>3, <1>6
<1> QED
  BY <1>4, <1>5, <1>6 DEF Serves

LEMMA ServesInv ==
  ASSUME WorkerInv, NEW w \in Workers, NEW c \in Clients, Serves(w, c)
  PROVE  WorkerInv'
<1>1. SessionsAlike
  BY SessionsKept, Zenon DEF Serves
<1>2. PICK b \in SUBSET batch[w] :
        /\ batch' = [batch EXCEPT ![w] = b]
        /\ c \in b /\ outcome'[c] # "none" => HasUpstream(w)
  BY Zenon DEF Serves
<1>3. UNCHANGED <<backlog, owner, wpc, stopVars>>
  BY DEF Serves
<1>4. /\ owner[c] = w /\ outcome[c] = "none" /\ Running(w) /\ w # Nobody
      /\ \A d \in Clients : d # c => outcome'[d] = outcome[d] /\ watch'[d] = watch[d]
      /\ watch[c] = "upstream" => watch'[c] = "upstream"
      /\ \/ outcome'[c] # "none" /\ watch'[c] \in {"none", "upstream"}
         \/ outcome'[c] = "none" /\ watch'[c] # "none"
      /\ watch'[c] = "upstream" => conn[c].kind \in Forwarded
  BY ServedClient, NobodyAssumption DEF ClosingStatus
<1>5. batch' \in [Workers -> SUBSET (Clients \union {ListenSock})]
      /\ \A v \in Workers : batch'[v] \subseteq batch[v]
  BY <1>2 DEF WorkerInv, TypeOK
<1>6. TypeOK'
  BY <1>1, <1>3, <1>5, ServedClient DEF WorkerInv, TypeOK, SessionsAlike, stopVars
<1>7. \A d \in Clients : SessionInv(conn[d])'
  BY <1>1 DEF SessionsAlike
<1>8. InLine'
  BY <1>1, <1>3, <1>4, InLineKept DEF WorkerInv
<1>9. \A v : HasUpstream(v) => HasUpstream(v)'
  BY <1>3, <1>4 DEF HasUpstream
<1>10. Registered'
  <2> SUFFICES ASSUME NEW d \in Clients
               PROVE  /\ owner[d] # Nobody /\ outcome'[d] = "none" =>
                           watch'[d] # "none" /\ wpc[owner[d]] \notin Stopped
                      /\ watch'[d] # "none" => owner[d] # Nobody /\ wpc[owner[d]] \notin Stopped
                      /\ watch'[d] = "client" => outcome'[d] = "none"
                      /\ watch'[d] = "upstream" => conn'[d].kind \in Forwarded
    BY <1>3, Zenon DEF Registered, Running
  <2>1. conn'[d].kind = conn[d].kind
    BY <1>1 DEF SessionsAlike
  <2>2. CASE d = c
    BY <1>4, <2>1, <2>2 DEF Running
  <2>3. CASE d # c
    BY <1>4, <2>1, <2>3 DEF WorkerInv, Registered, Running
  <2> QED
    BY <2>2, <2>3
<1>11. Batches'
  <2> SUFFICES ASSUME NEW v \in Workers, NEW d \in Clients, d \in batch'[v]
               PROVE  /\ owner[d] = v /\ wpc[v] \notin Stopped
                      /\ outcome'[d] = "none" \/ HasUpstream(v)'
    BY <1>3, Zenon DEF Batches, Running
  <2>1. d \in batch[v]
    BY <1>5
  <2>2. owner[d] = v /\ wpc[v] \notin Stopped /\ (outcome[d] = "none" \/ HasUpstream(v))
    BY <2>1 DEF WorkerInv, Batches, Running
  <2>3. CASE d # c
    BY <1>4, <1>9, <2>2, <2>3
  <2>4. CASE d = c
    <3>1. v = w
      BY <1>4, <2>2, <2>4
    <3>2. batch'[w] = b
      BY <1>2 DEF WorkerInv, TypeOK
    <3> QED
      BY <1>2, <1>9, <2>2, <2>4, <3>1, <3>2
  <2> QED
    BY <2>3, <2>4
<1>12. Places'
  <2> SUFFICES ASSUME NEW v \in Workers
               PROVE  /\ wpc[v] \in BetweenBatches => batch'[v] = {}
                      /\ wpc[v] = "drain" => ListenSock \notin batch'[v]
                      /\ wpc[v] \in {"drain_wait", "drain"} => is_soft_stop[v]
    BY <1>3, Zenon DEF Places, stopVars
  <2> QED
    BY <1>5 DEF WorkerInv, Places
<1>13. ASSUME NEW v \in Workers, wpc'[v] = "crashed" PROVE HasCause(v)'
  BY <1>1, <1>3, <1>13, CausesKept DEF WorkerInv
<1> QED
  BY <1>6, <1>7, <1>8, <1>10, <1>11, <1>12, <1>13 DEF WorkerInv

\* what a worker that ends leaves: none of its clients open, nothing registered
LEMMA EndedWorker ==
  ASSUME WorkerInv, NEW w \in Workers, NEW pc \in Stopped, Ends(w, pc)
  PROVE  /\ \A v \in Workers : wpc'[v] = IF v = w THEN pc ELSE wpc[v]
         /\ \A v \in Workers : batch'[v] = IF v = w THEN {} ELSE batch[v]
         /\ \A c \in Clients :
              outcome'[c] = IF owner[c] = w /\ outcome[c] = "none" THEN "reset" ELSE outcome[c]
         /\ \A c \in Clients : watch'[c] = IF owner[c] = w THEN "none" ELSE watch[c]
         /\ UNCHANGED <<backlog, owner, stopVars>>
         /\ SessionsAlike
<1>1. SessionsAlike
  <2>1. CASE UNCHANGED conn
    BY <2>1, SessionsUnchanged
  <2>2. CASE \E c \in Live(w) : \E t :
               pc = "crashed" /\ conn' = [conn EXCEPT ![c] = t] /\ Same(c, t)
    BY <2>2, SessionsKept, LiveType
  <2> QED
    BY <2>1, <2>2 DEF Ends
<1>2. /\ wpc' = [wpc EXCEPT ![w] = pc]
      /\ batch' = [batch EXCEPT ![w] = {}]
      /\ outcome' = [c \in Clients |-> IF c \in Live(w) THEN "reset" ELSE outcome[c]]
      /\ watch' = [c \in Clients |-> IF owner[c] = w THEN "none" ELSE watch[c]]
      /\ UNCHANGED <<backlog, owner, stopVars>>
  BY DEF Ends, Die, MoveTo
<1>3. /\ wpc' = [v \in Workers |-> IF v = w THEN pc ELSE wpc[v]]
      /\ batch' = [v \in Workers |-> IF v = w THEN {} ELSE batch[v]]
  BY <1>2 DEF WorkerInv, TypeOK
<1> QED
  BY <1>1, <1>2, <1>3 DEF Live

LEMMA EndsInv ==
  ASSUME WorkerInv, NEW w \in Workers, NEW pc \in Stopped, Ends(w, pc)
  PROVE  WorkerInv'
<1>1. /\ \A v \in Workers : wpc'[v] = IF v = w THEN pc ELSE wpc[v]
      /\ \A v \in Workers : batch'[v] = IF v = w THEN {} ELSE batch[v]
      /\ \A c \in Clients :
           outcome'[c] = IF owner[c] = w /\ outcome[c] = "none" THEN "reset" ELSE outcome[c]
      /\ \A c \in Clients : watch'[c] = IF owner[c] = w THEN "none" ELSE watch[c]
      /\ UNCHANGED <<backlog, owner, stopVars>>
      /\ SessionsAlike
  BY EndedWorker
<1>2. w # Nobody /\ \A c \in Clients : owner[c] \in Workers \union {Nobody}
  BY NobodyAssumption DEF WorkerInv, TypeOK
<1>3. TypeOK'
  <2>1. /\ wpc' \in [Workers -> WorkerLoop \union Stopped]
        /\ batch' \in [Workers -> SUBSET (Clients \union {ListenSock})]
    BY DEF Ends, Die, MoveTo, WorkerInv, TypeOK, WorkerLoop
  <2>2. /\ outcome' \in [Clients -> ClosingStatus \union {"none", "reset"}]
        /\ watch' \in [Clients -> {"none", "client", "upstream"}]
    BY DEF Ends, Die, WorkerInv, TypeOK
  <2>3. edge' \in [Clients -> BOOLEAN]
    BY DEF Ends, Die
  <2> QED
    BY <1>1, <2>1, <2>2, <2>3 DEF WorkerInv, TypeOK, WorkerLoop, SessionsAlike, stopVars
<1>4. \A d \in Clients : SessionInv(conn[d])'
  BY <1>1 DEF SessionsAlike
<1>5. InLine'
  BY <1>1, <1>2, InLineKept DEF WorkerInv
<1>6. Registered'
  <2> SUFFICES ASSUME NEW d \in Clients
               PROVE  /\ owner[d] # Nobody /\ outcome'[d] = "none" =>
                           watch'[d] # "none" /\ wpc'[owner[d]] \notin Stopped
                      /\ watch'[d] # "none" => owner[d] # Nobody /\ wpc'[owner[d]] \notin Stopped
                      /\ watch'[d] = "client" => outcome'[d] = "none"
                      /\ watch'[d] = "upstream" => conn'[d].kind \in Forwarded
    BY <1>1, Zenon DEF Registered, Running
  <2>1. conn'[d].kind = conn[d].kind
    BY <1>1 DEF SessionsAlike
  <2>2. CASE owner[d] = w
    BY <1>1, <1>2, <2>2
  <2>3. CASE owner[d] # w
    BY <1>1, <1>2, <2>1, <2>3 DEF WorkerInv, Registered, Running
  <2> QED
    BY <2>2, <2>3
<1>7. Batches'
  <2> SUFFICES ASSUME NEW v \in Workers, NEW d \in Clients, d \in batch'[v]
               PROVE  /\ owner[d] = v /\ wpc'[v] \notin Stopped
                      /\ outcome'[d] = "none" \/ HasUpstream(v)'
    BY <1>1, Zenon DEF Batches, Running
  <2>1. v # w /\ d \in batch[v]
    BY <1>1
  <2>2. owner[d] = v /\ wpc[v] \notin Stopped /\ (outcome[d] = "none" \/ HasUpstream(v))
    BY <2>1 DEF WorkerInv, Batches, Running
  <2>3. HasUpstream(v) => HasUpstream(v)'
    BY <1>1, <2>1 DEF HasUpstream
  <2> QED
    BY <1>1, <2>1, <2>2, <2>3
<1>8. Places'
  <2> SUFFICES ASSUME NEW v \in Workers
               PROVE  /\ wpc'[v] \in BetweenBatches => batch'[v] = {}
                      /\ wpc'[v] = "drain" => ListenSock \notin batch'[v]
                      /\ wpc'[v] \in {"drain_wait", "drain"} => is_soft_stop[v]
    BY <1>1, Zenon DEF Places, stopVars
  <2>1. CASE v = w
    BY <1>1, <2>1 DEF Stopped
  <2>2. CASE v # w
    BY <1>1, <2>2 DEF WorkerInv, Places
  <2> QED
    BY <2>1, <2>2
<1>9. ASSUME NEW v \in Workers, wpc'[v] = "crashed" PROVE HasCause(v)'
  <2>1. HasCause(v)
    <3>1. CASE v = w
      BY <1>1, <1>9, <3>1 DEF Ends
    <3>2. CASE v # w
      BY <1>1, <1>9, <3>2 DEF WorkerInv
    <3> QED
      BY <3>1, <3>2
  <2> QED
    BY <1>1, <2>1, CausesKept
<1> QED
  BY <1>3, <1>4, <1>5, <1>6, <1>7, <1>8, <1>9 DEF WorkerInv

-----------------------------------------------------------------------------
(***************************************************************************)
(* The invariant holds at the start, and every step preserves it.          *)
(***************************************************************************)
LEMMA InitInv ==
  ASSUME Init
  PROVE  WorkerInv
<1>1. \A c \in Clients : \E k \in RequestKind : conn[c] = NewSession(k)
  BY KindsAssumption DEF Init
<1>2. ASSUME NEW c \in Clients
      PROVE  SessionInv(conn[c]) /\ conn[c].peer = "away" /\ conn[c] \in Session
  <2>1. PICK k \in RequestKind : conn[c] = NewSession(k)
    BY <1>1
  <2>2. SessionInv(NewSession(k)) /\ NewSession(k).peer = "away"
    BY NewSessionInv DEF NewSession
  <2> QED
    BY <2>1, <2>2 DEF SessionInv
<1>3. conn \in [Clients -> Session]
  BY <1>2 DEF Init
<1>4. /\ backlog \in Seq(Clients) /\ Len(backlog) = 0
  BY DEF Init
<1>5. TypeOK
  BY <1>3, <1>4 DEF Init, TypeOK
<1>6. InLine
  BY <1>2, <1>4 DEF Init, InLine, Waiting
<1>7. Registered /\ Batches
  BY DEF Init, Registered, Batches
<1>8. Places /\ \A w \in Workers : wpc[w] # "crashed"
  BY DEF Init, Places, BetweenBatches
<1> QED
  BY <1>2, <1>5, <1>6, <1>7, <1>8 DEF WorkerInv

LEMMA NextInv ==
  ASSUME WorkerInv, [Next]_vars
  PROVE  WorkerInv'
<1>1. CASE Next
  BY <1>1, StepKinds, ConnectInv, TalksInv, TurnsInv, AcceptsInv, ServesInv, EndsInv
<1>2. CASE UNCHANGED vars
  <2>1. UNCHANGED <<conn, backlog, owner, outcome, watch, edge, wpc, batch,
                    is_soft_stop, is_hard_stop, owed>>
    BY <1>2 DEF vars, clientVars, workerVars, stopVars
  <2>2. SessionsAlike
    BY <2>1, SessionsUnchanged
  <2>3. TypeOK' /\ Registered' /\ Batches' /\ Places'
    <3>1. TypeOK'
      BY <2>1 DEF WorkerInv, TypeOK
    <3>2. Registered'
      BY <2>1 DEF WorkerInv, Registered, Running
    <3>3. Batches'
      BY <2>1 DEF WorkerInv, Batches, HasUpstream, Running
    <3>4. Places'
      BY <2>1, Zenon DEF WorkerInv, Places
    <3> QED
      BY <3>1, <3>2, <3>3, <3>4
  <2>4. InLine'
    BY <2>1, <2>2, InLineKept DEF WorkerInv
  <2>5. \A d \in Clients : SessionInv(conn[d])'
    BY <2>2 DEF SessionsAlike
  <2>6. ASSUME NEW w \in Workers, wpc'[w] = "crashed" PROVE HasCause(w)'
    BY <2>1, <2>2, <2>6, CausesKept DEF WorkerInv
  <2> QED
    BY <2>3, <2>4, <2>5, <2>6 DEF WorkerInv
<1> QED
  BY <1>1, <1>2

(***************************************************************************)
(* WorkerInv is an invariant of the workers: the backlog, the owners, the  *)
(* registrations, the batches and the sessions agree in every state.       *)
(***************************************************************************)
THEOREM WorkersCorrect == Spec => []WorkerInv
<1>1. Init => WorkerInv
  BY InitInv
<1>2. WorkerInv /\ [Next]_vars => WorkerInv'
  BY NextInv
<1> QED
  BY <1>1, <1>2, PTL DEF Spec

(***************************************************************************)
(* Type correctness of the workers, their clients and their sessions.      *)
(***************************************************************************)
THEOREM WorkersTypeCorrect == Spec => []TypeOK
<1>1. WorkerInv => TypeOK
  BY DEF WorkerInv
<1> QED
  BY <1>1, WorkersCorrect, PTL

(***************************************************************************)
(* A client whose connection is not closed is in the backlog exactly once, *)
(* or a running worker has it registered: whatever races for clients and   *)
(* stops and deaths of workers there are.                                  *)
(***************************************************************************)
THEOREM NobodyForgotten == Spec => []NobodyIsForgotten
<1>1. ASSUME WorkerInv PROVE NobodyIsForgotten
  <2> SUFFICES ASSUME NEW c \in Clients, conn[c].peer # "away", outcome[c] = "none"
               PROVE  LET places == {i \in 1 .. Len(backlog) : backlog[i] = c} IN
                      \/ owner[c] = Nobody /\ Cardinality(places) = 1
                      \/ /\ owner[c] \in Workers /\ places = {}
                         /\ wpc[owner[c]] \notin Stopped
                         /\ watch[c] # "none"
    BY DEF NobodyIsForgotten
  <2> DEFINE places == {i \in 1 .. Len(backlog) : backlog[i] = c}
  <2>1. /\ Waiting(c) <=> owner[c] = Nobody
        /\ \A i, j \in 1 .. Len(backlog) : backlog[i] = backlog[j] => i = j
        /\ owner[c] \in Workers \union {Nobody}
    BY <1>1 DEF WorkerInv, InLine, TypeOK
  <2>2. CASE owner[c] = Nobody
    <3>1. PICK i \in 1 .. Len(backlog) : backlog[i] = c
      BY <2>1, <2>2 DEF Waiting
    <3>2. places = {i}
      BY <2>1, <3>1
    <3> QED
      BY <2>2, <3>2, FS_Singleton
  <2>3. CASE owner[c] # Nobody
    <3>1. places = {}
      BY <2>1, <2>3 DEF Waiting
    <3>2. watch[c] # "none" /\ wpc[owner[c]] \notin Stopped
      BY <1>1, <2>3 DEF WorkerInv, Registered, Running
    <3> QED
      BY <2>1, <2>3, <3>1, <3>2
  <2> QED
    BY <2>2, <2>3
<1> QED
  BY <1>1, WorkersCorrect, PTL

(***************************************************************************)
(* Whatever a batch or an epoll instance names belongs to its worker,      *)
(* which runs, and is open unless an upstream's socket was left there.     *)
(***************************************************************************)
THEOREM EventsLive == Spec => []EventsAreLive
<1>1. ASSUME WorkerInv PROVE EventsAreLive
  <2> SUFFICES ASSUME NEW w \in Workers, NEW c \in Clients,
                      c \in batch[w] \/ (owner[c] = w /\ watch[c] # "none")
               PROVE  /\ owner[c] = w /\ wpc[w] \notin Stopped
                      /\ outcome[c] = "none" \/ HasUpstream(w)
    BY Zenon DEF EventsAreLive, HasUpstream
  <2>1. CASE c \in batch[w]
    <3>1. Batches
      BY <1>1 DEF WorkerInv
    <3> QED
      BY <2>1, <3>1 DEF Batches, Running
  <2>2. CASE owner[c] = w /\ watch[c] # "none"
    <3>1. watch[c] = "client" \/ watch[c] = "upstream"
      BY <1>1, <2>2 DEF WorkerInv, TypeOK
    <3> QED
      BY <1>1, <2>2, <3>1 DEF WorkerInv, Registered, Running, HasUpstream
  <2> QED
    BY <2>1, <2>2
<1> QED
  BY <1>1, WorkersCorrect, PTL

(***************************************************************************)
(* A worker crashes only if one of its clients asked for something it      *)
(* cannot do, whatever the order of events and of stops.                   *)
(***************************************************************************)
THEOREM DeathsCaused == Spec => []DeathsHaveACause
<1>1. WorkerInv => DeathsHaveACause
  BY DEF WorkerInv, DeathsHaveACause, HasCause, Causes, Forwarded
<1> QED
  BY <1>1, WorkersCorrect, PTL

(***************************************************************************)
(* No client gets a buffer of a file twice, or before an earlier one, for  *)
(* files and sockets of any size and any order of reads and writes.        *)
(***************************************************************************)
THEOREM SentOnce == Spec => []NothingSentTwice
<1>1. WorkerInv => NothingSentTwice
  BY DEF WorkerInv, SessionInv, InOrder, NothingSentTwice
<1> QED
  BY <1>1, WorkersCorrect, PTL

-----------------------------------------------------------------------------
(***************************************************************************)
(* The hard stop.  Only the worker that has a connection changes it, and   *)
(* one with a SIGINT and no SIGHUP looks at no event: not in the loop, and *)
(* it never gets to the pass after the loop.                               *)
(***************************************************************************)
LEMMA NotLooking ==
  ASSUME WorkerInv, NEW w \in Workers, is_hard_stop[w], ~is_soft_stop[w]
  PROVE  ~Looks(w)
BY DEF Looks, Looking, WorkerInv, Places

Interrupted(c) ==
  /\ conn'[c].stage = conn[c].stage
  /\ conn'[c].got = conn[c].got
  /\ outcome'[c] \in {"none", "reset"}

LEMMA NextInterrupted ==
  ASSUME WorkerInv, Next, NEW w \in Workers, is_hard_stop[w], ~is_soft_stop[w],
         NEW c \in Live(w)
  PROVE  Interrupted(c)
<1>1. c \in Clients /\ owner[c] = w /\ outcome[c] = "none"
  BY LiveType
<1>2. conn \in [Clients -> Session] /\ SessionInv(conn[c])
  BY <1>1 DEF WorkerInv, TypeOK
<1>3. ~Looks(w)
  BY NotLooking
<1>4. ASSUME NEW d \in Clients, Connect(d) PROVE Interrupted(c)
  <2>1. outcome' = outcome /\ conn' = [conn EXCEPT ![d] = [conn[d] EXCEPT !.peer = "open"]]
    BY <1>4 DEF Connect
  <2>2. CASE d = c
    <3>1. Beside(conn[c], [conn[c] EXCEPT !.peer = "open"])
      BY <1>2, OthersAct
    <3> QED
      BY <1>1, <1>2, <2>1, <2>2, <3>1 DEF Beside, Interrupted
  <2>3. CASE d # c
    BY <1>1, <1>2, <2>1, <2>3 DEF Interrupted
  <2> QED
    BY <2>2, <2>3
<1>5. ASSUME NEW d \in Clients, Talks(d) PROVE Interrupted(c)
  <2>1. PICK t : /\ conn' = [conn EXCEPT ![d] = t]
                 /\ t.stage = conn[d].stage /\ t.got = conn[d].got
    BY <1>5 DEF Talks, Untouched
  <2>2. outcome' = outcome
    BY <1>5 DEF Talks
  <2> QED
    BY <1>1, <1>2, <2>1, <2>2 DEF Interrupted
<1>6. ASSUME NEW v \in Workers, Turns(v) \/ Accepts(v) PROVE Interrupted(c)
  <2>1. conn' = conn /\ outcome' = outcome
    BY <1>6 DEF Turns, Accepts, Accept
  <2> QED
    BY <1>1, <2>1 DEF Interrupted
<1>7. ASSUME NEW v \in Workers, NEW d \in Clients, Serves(v, d) PROVE Interrupted(c)
  <2>1. PICK t : conn' = [conn EXCEPT ![d] = t]
    BY <1>7 DEF Serves
  <2>2. owner[d] = v /\ Looks(v)
    BY <1>7, LiveType DEF Serves
  <2>3. d # c
    BY <1>1, <1>3, <2>2
  <2>4. outcome'[c] = outcome[c]
    BY <1>1, <1>7, <2>3, ServedClient
  <2> QED
    BY <1>1, <1>2, <2>1, <2>3, <2>4 DEF Interrupted
<1>8. ASSUME NEW v \in Workers, NEW pc \in Stopped, Ends(v, pc) PROVE Interrupted(c)
  <2>1. outcome'[c] \in {"none", "reset"}
    BY <1>1, <1>8, EndedWorker
  <2>2. CASE UNCHANGED conn
    BY <2>1, <2>2 DEF Interrupted
  <2>3. ASSUME NEW d \in Live(v), NEW t, pc = "crashed", conn' = [conn EXCEPT ![d] = t]
        PROVE  Interrupted(c)
    <3>1. Looks(v) /\ owner[d] = v
      BY <1>8, <2>3, LiveType DEF Ends
    <3>2. d # c
      BY <1>1, <1>3, <3>1
    <3> QED
      BY <1>1, <1>2, <2>1, <2>3, <3>2 DEF Interrupted
  <2> QED
    BY <1>8, <2>2, <2>3 DEF Ends
<1> QED
  BY <1>4, <1>5, <1>6, <1>7, <1>8, StepKinds

(***************************************************************************)
(* A worker that has its SIGINT and no SIGHUP does nothing more for its    *)
(* connections, and closes none of them but by ending.                     *)
(***************************************************************************)
THEOREM HardStopProved == Spec => HardStopInterrupts
<1> DEFINE A == \A w \in Workers :
                  is_hard_stop[w] /\ ~is_soft_stop[w] =>
                    \A c \in Live(w) :
                      /\ conn'[c].stage = conn[c].stage
                      /\ conn'[c].got = conn[c].got
                      /\ outcome'[c] \in {"none", "reset"}
<1>1. ASSUME WorkerInv, [Next]_vars PROVE [A]_vars
  <2>1. CASE Next
    <3>1. ASSUME NEW w \in Workers, is_hard_stop[w], ~is_soft_stop[w], NEW c \in Live(w)
          PROVE  Interrupted(c)
      BY <1>1, <2>1, <3>1, NextInterrupted
    <3> QED
      BY <3>1, Zenon DEF Interrupted
  <2>2. CASE UNCHANGED vars
    BY <2>2
  <2> QED
    BY <1>1, <2>1, <2>2
<1> QED
  BY <1>1, WorkersCorrect, PTL DEF Spec, HardStopInterrupts

-----------------------------------------------------------------------------
(***************************************************************************)
(* The refinement of ClientQueue: who connects arrives in the queue, an    *)
(* accept takes the first one, a status that closes the connection settles *)
(* it, the end of a worker drops what it holds, and every other step is    *)
(* none of the queue's.                                                    *)
(***************************************************************************)
LEMMA QueueUnchanged ==
  ASSUME UNCHANGED <<backlog, owner, outcome>>,
         \A w \in Workers : wpc'[w] \in Stopped <=> wpc[w] \in Stopped
  PROVE  UNCHANGED Queue!vars
<1>1. [w \in Workers |-> wpc'[w] \notin Stopped] = [w \in Workers |-> wpc[w] \notin Stopped]
  OBVIOUS
<1> QED
  BY <1>1 DEF Queue!vars

LEMMA QueueInit ==
  ASSUME Init
  PROVE  Queue!Init
<1>1. [w \in Workers |-> wpc[w] \notin Stopped] = [w \in Workers |-> TRUE]
  BY DEF Init, Stopped
<1> QED
  BY <1>1 DEF Init, Queue!Init

LEMMA ConnectArrives ==
  ASSUME WorkerInv, NEW c \in Clients, Connect(c)
  PROVE  Queue!Arrive(c)
<1>1. /\ conn[c].peer = "away" /\ backlog' = Append(backlog, c)
      /\ UNCHANGED <<owner, outcome, wpc>>
  BY DEF Connect, workerVars
<1>2. owner[c] = Nobody /\ ~Waiting(c)
  BY <1>1 DEF WorkerInv, InLine
<1>3. [w \in Workers |-> wpc'[w] \notin Stopped] = [w \in Workers |-> wpc[w] \notin Stopped]
  BY <1>1
<1> QED
  BY <1>1, <1>2, <1>3 DEF Queue!Arrive, Queue!Waits, Waiting

LEMMA AcceptsTakes ==
  ASSUME WorkerInv, NEW w \in Workers, Accepts(w)
  PROVE  Queue!Take(w)
<1>1. /\ backlog # <<>> /\ backlog' = Tail(backlog)
      /\ owner' = [owner EXCEPT ![Head(backlog)] = w]
      /\ outcome' = outcome
      /\ wpc' = [wpc EXCEPT ![w] = "event"] /\ wpc[w] \in {"event", "accept"}
  BY DEF Accepts, Accept, MoveTo
<1>2. \A v \in Workers : wpc'[v] \in Stopped <=> wpc[v] \in Stopped
  BY <1>1 DEF WorkerInv, TypeOK, Stopped
<1>3. [v \in Workers |-> wpc'[v] \notin Stopped] = [v \in Workers |-> wpc[v] \notin Stopped]
  BY <1>2
<1>4. [v \in Workers |-> wpc[v] \notin Stopped][w]
  BY <1>1 DEF Stopped
<1> QED
  BY <1>1, <1>3, <1>4 DEF Queue!Take

LEMMA ServesSettles ==
  ASSUME WorkerInv, NEW w \in Workers, NEW c \in Clients, Serves(w, c)
  PROVE  Queue!Settle(w, c) \/ UNCHANGED Queue!vars
<1>1. UNCHANGED <<backlog, owner, wpc>> /\ owner[c] = w /\ outcome[c] = "none" /\ Running(w)
  BY ServedClient DEF Serves
<1>2. CASE \E status \in ClosingStatus : Closed(c, status)
  <2>1. PICK status \in ClosingStatus : outcome' = [outcome EXCEPT ![c] = status]
    BY <1>2 DEF Closed
  <2>2. [v \in Workers |-> wpc'[v] \notin Stopped] = [v \in Workers |-> wpc[v] \notin Stopped]
    BY <1>1
  <2>3. [v \in Workers |-> wpc[v] \notin Stopped][w]
    BY <1>1 DEF Running
  <2> QED
    BY <1>1, <2>1, <2>2, <2>3 DEF Queue!Settle, Queue!Holds
<1>3. CASE outcome' = outcome
  BY <1>1, <1>3, QueueUnchanged
<1> QED
  BY <1>2, <1>3 DEF Serves, Checkout

LEMMA EndsEnds ==
  ASSUME WorkerInv, NEW w \in Workers, NEW pc \in Stopped, Ends(w, pc)
  PROVE  Queue!End(w)
<1> DEFINE alive == [v \in Workers |-> wpc[v] \notin Stopped]
<1>1. /\ \A v \in Workers : wpc'[v] = IF v = w THEN pc ELSE wpc[v]
      /\ UNCHANGED <<backlog, owner>>
  BY EndedWorker
<1>2. outcome' = [c \in Clients |-> IF owner[c] = w /\ outcome[c] = "none"
                                      THEN "reset" ELSE outcome[c]]
  BY DEF Ends, Die, Live
<1>3. [v \in Workers |-> wpc'[v] \notin Stopped] = [alive EXCEPT ![w] = FALSE]
  BY <1>1
<1>4. alive[w]
  BY DEF Ends, Running
<1> QED
  BY <1>1, <1>2, <1>3, <1>4 DEF Queue!End, Queue!Holds

LEMMA QueueStep ==
  ASSUME WorkerInv, [Next]_vars
  PROVE  [Queue!Next]_Queue!vars
<1>1. ASSUME NEW c \in Clients, Connect(c) PROVE Queue!Next
  BY <1>1, ConnectArrives DEF Queue!Next
<1>2. ASSUME NEW c \in Clients, Talks(c) PROVE UNCHANGED Queue!vars
  <2>1. UNCHANGED <<backlog, owner, outcome, wpc>>
    BY <1>2 DEF Talks, workerVars
  <2> QED
    BY <2>1, QueueUnchanged
<1>3. ASSUME NEW w \in Workers, Turns(w) PROVE UNCHANGED Queue!vars
  <2>1. UNCHANGED <<backlog, owner, outcome>> /\ wpc[w] \notin Stopped
    BY <1>3 DEF Turns, Running
  <2>2. PICK pc \in WorkerLoop : wpc' = [wpc EXCEPT ![w] = pc]
    BY <1>3 DEF Turns
  <2>3. \A v \in Workers : wpc'[v] \in Stopped <=> wpc[v] \in Stopped
    BY <2>1, <2>2 DEF WorkerInv, TypeOK, WorkerLoop, Stopped
  <2> QED
    BY <2>1, <2>3, QueueUnchanged
<1>4. ASSUME NEW w \in Workers, Accepts(w) PROVE Queue!Next
  BY <1>4, AcceptsTakes DEF Queue!Next
<1>5. ASSUME NEW w \in Workers, NEW c \in Clients, Serves(w, c)
      PROVE  Queue!Next \/ UNCHANGED Queue!vars
  BY <1>5, ServesSettles DEF Queue!Next
<1>6. ASSUME NEW w \in Workers, NEW pc \in Stopped, Ends(w, pc) PROVE Queue!Next
  BY <1>6, EndsEnds DEF Queue!Next
<1>7. CASE UNCHANGED vars
  <2>1. UNCHANGED <<backlog, owner, outcome, wpc>>
    BY <1>7 DEF vars, clientVars, workerVars
  <2> QED
    BY <2>1, QueueUnchanged
<1>8. CASE Next
  BY <1>1, <1>2, <1>3, <1>4, <1>5, <1>6, <1>8, StepKinds
<1> QED
  BY <1>7, <1>8

(***************************************************************************)
(* All the workers together implement one queue of clients, for any number *)
(* of both, whoever stops, crashes or handles events of deleted            *)
(* connections.                                                            *)
(***************************************************************************)
THEOREM WorkersAreOneQueue == Spec => ImplementsClientQueue
<1>1. Init => Queue!Init
  BY QueueInit
<1>2. WorkerInv /\ [Next]_vars => [Queue!Next]_Queue!vars
  BY QueueStep
<1> QED
  BY <1>1, <1>2, WorkersCorrect, PTL DEF Spec, ImplementsClientQueue, Queue!Spec

-----------------------------------------------------------------------------
(***************************************************************************)
(* Closed means answered.  A worker closes the connection of a client that *)
(* is still there only when it has answered, under the conditions without  *)
(* which the code breaks that promise (the README's list of deviations): a *)
(* request arrives in one segment and nothing follows it, a client's       *)
(* socket holds a whole file, nothing may be forwarded to an upstream, and *)
(* open() finds a descriptor.                                              *)
(***************************************************************************)
EasyLoad ==
  /\ LastSegment = 1 /\ "extra" \notin Habits
  /\ FileSize <= Window
  /\ Kinds \intersect Forwarded = {}
  /\ IsFiniteSet(Clients) /\ 2 * Cardinality(Clients) <= Descriptors

(***************************************************************************)
(* The invariant: a worker only has events of clients that have something  *)
(* to read; so the first event of a client that stays finds its request,   *)
(* and nothing has been done for it before.                                *)
(***************************************************************************)
AnswersAt(c) ==
  /\ conn[c].kind \in Kinds
  /\ outcome[c] = "none" => conn[c].sent <= LastSegment
  /\ edge[c] => Readable(conn[c])
  /\ \A w \in Workers : c \in batch[w] => Readable(conn[c])
  /\ /\ outcome[c] = "none" /\ conn[c].peer \in {"away", "open"}
     /\ conn[c].kind \in Served
     => Fresh(conn[c])
  /\ outcome[c] \in ClosingStatus /\ conn[c].peer = "open" /\ conn[c].kind \in Served
     => outcome[c] = "CONNECTION_FINISHED" /\ Answered(conn[c])

AnswerInv == \A c \in Clients : AnswersAt(c)

-----------------------------------------------------------------------------
(***************************************************************************)
(* A worker that handles an event of a connection has a descriptor for its *)
(* file: other connections have at most one socket and one file each.      *)
(***************************************************************************)
LEMMA NoUpstream ==
  ASSUME EasyLoad, WorkerInv, AnswerInv, NEW c \in Clients
  PROVE  /\ conn[c].proxy_sock = "none"
         /\ watch[c] # "upstream"
         /\ conn[c].kind \notin Forwarded
<1>1. conn[c].kind \in Kinds
  BY DEF AnswerInv, AnswersAt
<1>2. conn[c].kind \notin Forwarded
  BY <1>1 DEF EasyLoad
<1> QED
  BY <1>2 DEF WorkerInv, SessionInv, Registered

LEMMA HasSpare ==
  ASSUME EasyLoad, WorkerInv, AnswerInv, NEW w \in Workers, NEW c \in Clients,
         conn[c].file_fd = "none"
  PROVE  Spare(w) = TRUE
<1> DEFINE mine == {d \in Clients : owner[d] = w}
           files == {d \in mine : conn[d].file_fd \notin {"none", "bad"}}
           socks == {d \in mine : conn[d].proxy_sock # "none"}
           n == Cardinality(Clients)
<1>1. IsFiniteSet(Clients) /\ n \in Nat /\ 2 * n <= Descriptors /\ Descriptors \in Nat
  BY FS_CardinalityType, DescriptorsAssumption DEF EasyLoad
<1>2. Cardinality(Live(w)) \in Nat /\ Cardinality(Live(w)) <= n
  <2>1. Live(w) \subseteq Clients
    BY DEF Live
  <2> QED
    BY <1>1, <2>1, FS_Subset, FS_CardinalityType
<1>3. Cardinality(files) \in Nat /\ Cardinality(files) < n
  <2>1. files \subseteq Clients /\ files # Clients
    OBVIOUS
  <2>2. IsFiniteSet(files) /\ Cardinality(files) <= n /\ Cardinality(files) # n
    BY <1>1, <2>1, FS_Subset
  <2> QED
    BY <1>1, <2>2, FS_CardinalityType
<1>4. Cardinality(socks) = 0
  <2>1. socks = {}
    BY NoUpstream
  <2> QED
    BY <2>1, FS_EmptySet
<1>5. OpenDescriptors(w) = Cardinality(Live(w)) + Cardinality(files) + Cardinality(socks)
  BY DEF OpenDescriptors
<1> HIDE DEF files, socks, n
<1>6. OpenDescriptors(w) < Descriptors
  BY <1>1, <1>2, <1>3, <1>4, <1>5
<1> QED
  BY <1>6, Zenon DEF Spare

\* a worker is never told of a client that has nothing to read
LEMMA ReadyReadable ==
  ASSUME EasyLoad, WorkerInv, AnswerInv, NEW w \in Workers, NEW c \in Clients, c \in Ready(w)
  PROVE  Readable(conn[c])
<1>1. edge[c]
  BY NoUpstream, ListenSockAssumption DEF Ready
<1> QED
  BY <1>1 DEF AnswerInv, AnswersAt

\* events of live connections only
LEMMA BatchLive ==
  ASSUME EasyLoad, WorkerInv, AnswerInv, NEW w \in Workers
  PROVE  ~HasUpstream(w)
BY NoUpstream DEF HasUpstream

-----------------------------------------------------------------------------
(***************************************************************************)
(* Each kind of step preserves the invariant.                              *)
(***************************************************************************)
LEMMA NothingNew ==
  ASSUME NEW d \in Clients, AnswersAt(d), conn'[d] = conn[d], outcome'[d] = outcome[d],
         edge'[d] => Readable(conn[d]),
         \A v \in Workers : d \in batch'[v] => Readable(conn[d])
  PROVE  AnswersAt(d)'
BY Zenon DEF AnswersAt

\* a reset client, of which nothing is in epoll any more
LEMMA NothingLeft ==
  ASSUME NEW d \in Clients, conn'[d].kind \in Kinds, outcome'[d] = "reset",
         ~edge'[d], \A v \in Workers : d \notin batch'[v]
  PROVE  AnswersAt(d)'
<1>1. "reset" \notin ClosingStatus /\ "reset" # "none"
  BY DEF ClosingStatus
<1> QED
  BY <1>1, Zenon DEF AnswersAt

LEMMA ConnectAnswers ==
  ASSUME EasyLoad, WorkerInv, AnswerInv, NEW c \in Clients, Connect(c)
  PROVE  AnswerInv'
<1> DEFINE t == [conn[c] EXCEPT !.peer = "open"]
<1>1. /\ conn' = [conn EXCEPT ![c] = t] /\ conn[c].peer = "away"
      /\ UNCHANGED <<owner, outcome, watch, edge, batch>>
  BY DEF Connect, workerVars
<1>2. conn \in [Clients -> Session] /\ SessionInv(conn[c]) /\ outcome[c] = "none"
  BY <1>1 DEF WorkerInv, TypeOK, InLine
<1>3. Beside(conn[c], t) /\ t.peer = "open"
  BY <1>2, OthersAct
<1>4. t.unread = conn[c].unread /\ t.sent = conn[c].sent
  BY <1>2 DEF SessionInv, Session
<1> HIDE DEF t
<1>5. conn'[c] = t /\ \A d \in Clients : d # c => conn'[d] = conn[d]
  BY <1>1, <1>2
<1>6. AnswersAt(c)'
  <2>1. ~Readable(conn[c])
    BY <1>1 DEF Readable
  <2>2. AnswersAt(c)
    BY DEF AnswerInv
  <2>3. ~edge'[c] /\ \A v \in Workers : c \notin batch'[v]
    BY <1>1, <2>1, <2>2 DEF AnswersAt
  <2>4. conn[c].kind \in Served => Fresh(conn[c])
    BY <1>1, <1>2, <2>2 DEF AnswersAt
  <2>5. conn[c].kind \in Served => Fresh(t)
    BY <1>3, <1>4, <2>4 DEF Fresh, Beside
  <2>6. outcome'[c] = "none" /\ "none" \notin ClosingStatus /\ conn'[c].kind = conn[c].kind
    BY <1>1, <1>2, <1>3, <1>5 DEF ClosingStatus, Beside
  <2> QED
    BY <1>2, <1>4, <1>5, <2>2, <2>3, <2>5, <2>6 DEF AnswersAt
<1>7. ASSUME NEW d \in Clients, d # c PROVE AnswersAt(d)'
  <2>1. AnswersAt(d)
    BY DEF AnswerInv
  <2>2. conn'[d] = conn[d] /\ outcome'[d] = outcome[d] /\ edge'[d] = edge[d] /\ batch' = batch
    BY <1>1, <1>5, <1>7
  <2>3. /\ edge'[d] => Readable(conn[d])
        /\ \A v \in Workers : d \in batch'[v] => Readable(conn[d])
    BY <2>1, <2>2 DEF AnswersAt
  <2> QED
    BY <2>1, <2>2, <2>3, NothingNew
<1> QED
  BY <1>6, <1>7 DEF AnswerInv

LEMMA TalksAnswers ==
  ASSUME EasyLoad, WorkerInv, AnswerInv, NEW c \in Clients, Talks(c)
  PROVE  AnswerInv'
<1>1. PICK t : /\ conn' = [conn EXCEPT ![c] = t] /\ Untouched(c, t)
               /\ edge' = edge \/ (Readable(t) /\ \E v \in BOOLEAN : edge' = [edge EXCEPT ![c] = v])
  BY DEF Talks
<1>2. outcome[c] = "none" /\ UNCHANGED <<outcome, batch>>
  BY DEF Talks, workerVars
<1>3. /\ conn \in [Clients -> Session] /\ edge \in [Clients -> BOOLEAN]
      /\ SessionInv(conn[c])
  BY DEF WorkerInv, TypeOK
<1>4. /\ conn'[c] = t /\ \A d \in Clients : d # c => conn'[d] = conn[d]
      /\ \A d \in Clients : d # c => edge'[d] = edge[d]
  BY <1>1, <1>3
<1>5. AnswersAt(c)'
  <2>1. AnswersAt(c)
    BY DEF AnswerInv
  <2>2. Readable(conn[c]) => Readable(t)
    <3>1. t.sent \in Nat /\ conn[c].sent \in Nat
      BY <1>1, <1>3 DEF Untouched, Same, SessionInv, Session
    <3> QED
      BY <1>1, <3>1 DEF Readable, Untouched, Same
  <2>3. edge'[c] => Readable(t)
    BY <1>1, <2>1, <2>2 DEF AnswersAt
  <2>4. \A v \in Workers : c \in batch'[v] => Readable(t)
    BY <1>2, <2>1, <2>2 DEF AnswersAt
  <2>5. t.kind = conn[c].kind /\ (t.peer \in {"away", "open"} => conn[c].peer \in {"away", "open"})
    BY <1>1 DEF Untouched, Same
  <2>6. t.peer \in {"away", "open"} /\ t.kind \in Served => Fresh(t)
    BY <1>1, <1>2, <2>1, <2>5 DEF AnswersAt, Fresh, Untouched
  <2>7. outcome'[c] = "none" /\ "none" \notin ClosingStatus
    BY <1>2 DEF ClosingStatus
  <2>8. t.sent <= LastSegment
    BY <1>1, <1>2, <2>1 DEF AnswersAt, Untouched, EasyLoad
  <2> QED
    BY <1>4, <2>1, <2>3, <2>4, <2>5, <2>6, <2>7, <2>8 DEF AnswersAt
<1>6. ASSUME NEW d \in Clients, d # c PROVE AnswersAt(d)'
  <2>1. AnswersAt(d)
    BY DEF AnswerInv
  <2>2. conn'[d] = conn[d] /\ outcome'[d] = outcome[d] /\ edge'[d] = edge[d] /\ batch' = batch
    BY <1>2, <1>4, <1>6
  <2>3. /\ edge'[d] => Readable(conn[d])
        /\ \A v \in Workers : d \in batch'[v] => Readable(conn[d])
    BY <2>1, <2>2 DEF AnswersAt
  <2> QED
    BY <2>1, <2>2, <2>3, NothingNew
<1> QED
  BY <1>5, <1>6 DEF AnswerInv

LEMMA TurnsAnswers ==
  ASSUME EasyLoad, WorkerInv, AnswerInv, NEW w \in Workers, Turns(w)
  PROVE  AnswerInv'
<1>1. /\ UNCHANGED <<conn, outcome>> /\ \A c \in Clients : edge'[c] => edge[c]
  BY DEF Turns
<1>2. PICK b \in SUBSET (batch[w] \union Ready(w)) : batch' = [batch EXCEPT ![w] = b]
  BY DEF Turns
<1>3. \A v \in Workers : batch'[v] \subseteq batch[v] \union Ready(v)
  BY <1>2 DEF WorkerInv, TypeOK
<1>4. ASSUME NEW d \in Clients PROVE AnswersAt(d)'
  <2>1. AnswersAt(d)
    BY DEF AnswerInv
  <2>2. edge'[d] => Readable(conn[d])
    BY <1>1, <2>1 DEF AnswersAt
  <2>3. \A v \in Workers : d \in batch'[v] => Readable(conn[d])
    BY <1>3, <2>1, ReadyReadable DEF AnswersAt
  <2> QED
    BY <1>1, <2>1, <2>2, <2>3, NothingNew
<1> QED
  BY <1>4 DEF AnswerInv

LEMMA AcceptsAnswers ==
  ASSUME EasyLoad, WorkerInv, AnswerInv, NEW w \in Workers, Accepts(w)
  PROVE  AnswerInv'
<1> DEFINE c == Head(backlog)
<1>1. /\ backlog # <<>> /\ UNCHANGED <<conn, outcome>>
      /\ edge' = [edge EXCEPT ![c] = (conn[c].sent > 0 \/ conn[c].peer # "open")]
  BY DEF Accepts, Accept
<1>2. PICK b \in SUBSET batch[w] : batch' = [batch EXCEPT ![w] = b]
  BY DEF Accepts
<1>3. backlog \in Seq(Clients) /\ Distinct(backlog)
  BY InLineIs DEF WorkerInv, TypeOK
<1>4. c \in Clients /\ In(backlog, c)
  BY <1>1, <1>3, TailDistinct
<1> HIDE DEF c
<1>5. conn[c].peer # "away"
  BY <1>4, InLineIs DEF WorkerInv
<1>6. edge \in [Clients -> BOOLEAN] /\ \A v \in Workers : batch'[v] \subseteq batch[v]
  BY <1>2 DEF WorkerInv, TypeOK
<1>7. ASSUME NEW d \in Clients PROVE edge'[d] => edge[d] \/ Readable(conn[d])
  <2>1. CASE d = c
    BY <1>1, <1>5, <1>6, <2>1, Zenon DEF Readable
  <2>2. CASE d # c
    BY <1>1, <1>6, <2>2
  <2> QED
    BY <2>1, <2>2
<1>8. ASSUME NEW d \in Clients PROVE AnswersAt(d)'
  <2>1. AnswersAt(d)
    BY DEF AnswerInv
  <2>2. edge'[d] => Readable(conn[d])
    BY <1>7, <2>1 DEF AnswersAt
  <2>3. \A v \in Workers : d \in batch'[v] => Readable(conn[d])
    BY <1>6, <2>1 DEF AnswersAt
  <2> QED
    BY <1>1, <2>1, <2>2, <2>3, NothingNew
<1> QED
  BY <1>8 DEF AnswerInv

LEMMA EndsAnswers ==
  ASSUME EasyLoad, WorkerInv, AnswerInv, NEW w \in Workers, NEW pc \in Stopped, Ends(w, pc)
  PROVE  AnswerInv'
<1>1. /\ \A v \in Workers : batch'[v] = IF v = w THEN {} ELSE batch[v]
      /\ \A c \in Clients :
           outcome'[c] = IF owner[c] = w /\ outcome[c] = "none" THEN "reset" ELSE outcome[c]
      /\ SessionsAlike
  BY EndedWorker
<1>2. \A c \in Clients : edge'[c] => edge[c] /\ owner[c] # w
  BY Zenon DEF Ends, Die
<1>3. ASSUME NEW d \in Clients PROVE AnswersAt(d)'
  <2>1. AnswersAt(d)
    BY DEF AnswerInv
  <2>2. CASE d \in Live(w)
    <3>1. owner[d] = w /\ outcome[d] = "none"
      BY <2>2, LiveType
    <3>2. outcome'[d] = "reset" /\ ~edge'[d]
      BY <1>1, <1>2, <3>1
    <3>3. \A v \in Workers : d \notin batch'[v]
      BY <1>1, <3>1 DEF WorkerInv, Batches
    <3>4. conn'[d].kind \in Kinds
      BY <1>1, <2>1 DEF SessionsAlike, AnswersAt
    <3> QED
      BY <3>2, <3>3, <3>4, NothingLeft
  <2>3. CASE d \notin Live(w)
    <3>1. outcome'[d] = outcome[d]
      BY <1>1, <2>3 DEF Live
    <3>2. conn'[d] = conn[d]
      <4>1. CASE UNCHANGED conn
        BY <4>1
      <4>2. CASE \E c \in Live(w) : \E t : conn' = [conn EXCEPT ![c] = t]
        BY <2>3, <4>2 DEF WorkerInv, TypeOK
      <4> QED
        BY <4>1, <4>2 DEF Ends
    <3>3. edge'[d] => Readable(conn[d])
      BY <1>2, <2>1 DEF AnswersAt
    <3>4. \A v \in Workers : d \in batch'[v] => Readable(conn[d])
      BY <1>1, <2>1 DEF AnswersAt
    <3> QED
      BY <2>1, <3>1, <3>2, <3>3, <3>4, NothingNew
  <2> QED
    BY <2>2, <2>3
<1> QED
  BY <1>3 DEF AnswerInv

LEMMA ServesAnswers ==
  ASSUME EasyLoad, WorkerInv, AnswerInv, NEW w \in Workers, NEW c \in Clients, Serves(w, c)
  PROVE  AnswerInv'
<1>1. PICK r \in connection_processing(conn[c], Spare(w)) :
        /\ conn' = [conn EXCEPT ![c] = r.session] /\ Same(c, r.session)
        /\ \/ r.status \in ClosingStatus /\ Closed(c, r.status)
           \/ conn[c].kind \in Forwarded /\ Checkout(c)
           \/ r.status \notin ClosingStatus /\ UNCHANGED <<outcome, watch, edge>>
  BY DEF Serves
<1>2. \/ r.status \in ClosingStatus /\ Closed(c, r.status)
      \/ r.status \notin ClosingStatus /\ UNCHANGED <<outcome, watch, edge>>
  BY <1>1, NoUpstream
<1>3. /\ conn \in [Clients -> Session] /\ SessionInv(conn[c])
      /\ outcome \in [Clients -> ClosingStatus \union {"none", "reset"}]
      /\ edge \in [Clients -> BOOLEAN]
  BY DEF WorkerInv, TypeOK
<1>4. Spare(w) \in BOOLEAN
  BY DEF Spare
<1>5. Follows(conn[c], r)
  BY <1>3, <1>4, ConnectionProcessingFollows
<1>6. /\ r.session.kind = conn[c].kind /\ r.session.peer = conn[c].peer
      /\ r.session.sent = conn[c].sent
  BY <1>5 DEF Follows
<1>7. Readable(r.session) <=> Readable(conn[c])
  BY <1>6 DEF Readable
<1>8. /\ outcome[c] = "none" /\ owner[c] = w /\ c \in batch[w]
      /\ \A v \in Workers : batch'[v] \subseteq batch[v]
  <2>1. c \in batch[w] /\ c \in Live(w)
    BY BatchLive DEF Serves
  <2>2. PICK b \in SUBSET batch[w] : batch' = [batch EXCEPT ![w] = b]
    BY DEF Serves
  <2>3. \A v \in Workers : batch'[v] \subseteq batch[v]
    BY <2>2 DEF WorkerInv, TypeOK
  <2> QED
    BY <2>1, <2>3, LiveType
<1>9. /\ conn'[c] = r.session /\ \A d \in Clients : d # c => conn'[d] = conn[d]
      /\ \A d \in Clients : d # c => outcome'[d] = outcome[d]
      /\ \A d \in Clients : edge'[d] => edge[d]
  <2>1. \A d \in Clients : edge'[d] => edge[d]
    BY <1>2, <1>3 DEF Closed
  <2>2. \A d \in Clients : d # c => outcome'[d] = outcome[d]
    BY <1>2, <1>3 DEF Closed
  <2> QED
    BY <1>1, <1>3, <2>1, <2>2
<1>10. AnswersAt(c)'
  <2>1. AnswersAt(c)
    BY DEF AnswerInv
  <2>2. Readable(conn[c])
    BY <1>8, <2>1 DEF AnswersAt
  <2>5. conn[c].sent <= LastSegment /\ conn'[c].sent = conn[c].sent
    BY <1>6, <1>8, <1>9, <2>1, Zenon DEF AnswersAt
  <2>3. CASE conn[c].kind \in Served /\ conn[c].peer = "open"
    <3>1. Fresh(conn[c])
      BY <1>8, <2>1, <2>3 DEF AnswersAt
    <3>2. WholeRequest(conn[c])
      BY <1>3, <2>2, <2>3 DEF WholeRequest, EasyLoad, Readable, SessionInv, Session
    <3>3. Spare(w) = TRUE
      BY <3>1, HasSpare DEF Fresh
    <3>4. r.status = "CONNECTION_FINISHED" /\ Answered(r.session)
      <4>1. conn[c].sent \in Nat /\ ~(conn[c].sent > LastSegment)
        BY <1>3, <2>5, LastSegmentAssumption DEF SessionInv, Session
      <4>2. r \in connection_processing(conn[c], TRUE)
        BY <3>3, Zenon
      <4>3. \/ r.status = "CONNECTION_FINISHED" /\ Answered(r.session)
            \/ conn[c].sent > LastSegment
        BY <1>3, <2>3, <3>1, <3>2, <4>2, AnswersInOneCall DEF EasyLoad
      <4> QED
        BY <4>1, <4>3
    <3>5. outcome'[c] = "CONNECTION_FINISHED"
      BY <1>2, <1>3, <3>4 DEF Closed, ClosingStatus
    <3>6. "CONNECTION_FINISHED" # "none"
      OBVIOUS
    <3> QED
      BY <1>6, <1>7, <1>9, <2>1, <2>2, <2>5, <3>4, <3>5, <3>6, Zenon DEF AnswersAt
  <2>4. CASE ~(conn[c].kind \in Served /\ conn[c].peer = "open")
    <3>1. conn[c].peer # "away"
      BY <2>2 DEF Readable
    <3>2. r.session.kind \in Served => r.session.peer \notin {"away", "open"}
      BY <1>6, <2>4, <3>1
    <3> QED
      BY <1>6, <1>7, <1>9, <2>1, <2>2, <2>5, <3>2 DEF AnswersAt
  <2> QED
    BY <2>3, <2>4
<1>11. ASSUME NEW d \in Clients, d # c PROVE AnswersAt(d)'
  <2>1. AnswersAt(d)
    BY DEF AnswerInv
  <2>2. edge'[d] => Readable(conn[d])
    BY <1>9, <2>1 DEF AnswersAt
  <2>3. \A v \in Workers : d \in batch'[v] => Readable(conn[d])
    BY <1>8, <2>1 DEF AnswersAt
  <2> QED
    BY <1>9, <1>11, <2>1, <2>2, <2>3, NothingNew
<1> QED
  BY <1>10, <1>11 DEF AnswerInv

LEMMA InitAnswers ==
  ASSUME Init
  PROVE  AnswerInv
<1> SUFFICES ASSUME NEW c \in Clients PROVE AnswersAt(c)
  BY DEF AnswerInv
<1>1. PICK k \in Kinds : conn[c] = NewSession(k)
  BY DEF Init
<1>2. /\ NewSession(k).kind = k /\ Fresh(NewSession(k))
  BY DEF NewSession, Fresh
<1>3. ~edge[c] /\ outcome[c] = "none" /\ \A w \in Workers : batch[w] = {}
  BY DEF Init
<1>4. conn[c].sent <= LastSegment
  BY <1>1, LastSegmentAssumption DEF NewSession
<1> QED
  BY <1>1, <1>2, <1>3, <1>4 DEF AnswersAt, ClosingStatus

LEMMA NextAnswers ==
  ASSUME EasyLoad, WorkerInv, AnswerInv, [Next]_vars
  PROVE  AnswerInv'
<1>1. CASE Next
  BY <1>1, StepKinds, ConnectAnswers, TalksAnswers, TurnsAnswers, AcceptsAnswers,
     ServesAnswers, EndsAnswers
<1>2. CASE UNCHANGED vars
  <2>1. UNCHANGED <<conn, outcome, edge, batch>>
    BY <1>2 DEF vars, clientVars, workerVars
  <2>2. ASSUME NEW d \in Clients PROVE AnswersAt(d)'
    <3>1. AnswersAt(d)
      BY DEF AnswerInv
    <3>2. /\ edge'[d] => Readable(conn[d])
          /\ \A v \in Workers : d \in batch'[v] => Readable(conn[d])
      BY <2>1, <3>1 DEF AnswersAt
    <3> QED
      BY <2>1, <3>1, <3>2, NothingNew
  <2> QED
    BY <2>2 DEF AnswerInv
<1> QED
  BY <1>1, <1>2

(***************************************************************************)
(* Under an easy load, for any number of workers and clients, whatever the *)
(* clients do besides asking and whichever stops the workers get: a worker *)
(* closes the connection of a client that is still there only when the     *)
(* client has the right header and its whole file, or the 404 page.        *)
(***************************************************************************)
THEOREM ClosedWhenAnswered ==
  ASSUME EasyLoad
  PROVE  Spec => []ClosedMeansAnswered
<1>1. Init => AnswerInv
  BY InitAnswers
<1>2. WorkerInv /\ AnswerInv /\ [Next]_vars => AnswerInv'
  BY NextAnswers
<1>3. AnswerInv => ClosedMeansAnswered
  <2> SUFFICES ASSUME AnswerInv, NEW c \in Clients,
                      outcome[c] \in ClosingStatus, conn[c].peer = "open",
                      conn[c].kind \in {"file", "absent", "nowhere"}
               PROVE  /\ outcome[c] = "CONNECTION_FINISHED"
                      /\ conn[c].answer = (IF conn[c].kind = "file" THEN "200" ELSE "404")
                      /\ WholeFile(conn[c])
    BY DEF ClosedMeansAnswered
  <2> QED
    BY DEF AnswerInv, AnswersAt, Served, Answered
<1> QED
  BY <1>1, <1>2, <1>3, WorkersCorrect, PTL DEF Spec
=============================================================================
