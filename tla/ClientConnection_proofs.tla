---------------------- MODULE ClientConnection_proofs ----------------------
(***************************************************************************)
(* What one call of connection_processing() can do to a session, for every *)
(* size of requests, files and sockets.                                    *)
(***************************************************************************)
EXTENDS ClientConnection, SequenceTheorems, TLAPS

(***************************************************************************)
(* The requests that may be passed on to an upstream, and the stages only  *)
(* they get to.  One that does not parse is among them: its url is kept    *)
(* before the rest of the line is refused.                                 *)
(***************************************************************************)
Forwarded == {"proxied", "posted", "garbled"}

ProxyStages == {"PASS_TO_PROXY", "SEND_HEADER_TO_PROXY",
                "GET_BODY_OR_NOT_FROM_CLIENT", "GET_RESPONSE_FROM_PROXY"}

\* no buffer twice, none before an earlier one, and none that was not read
InOrder(s) ==
  /\ \A i \in 1 .. Len(s.got) : s.got[i] <= s.pos
  /\ \A i, j \in 1 .. Len(s.got) : i < j => s.got[i] < s.got[j]

SessionInv(s) ==
  /\ s \in Session
  /\ s.stage \in ProxyStages \/ s.proxy_sock # "none" => s.kind \in Forwarded
  /\ s.unread <= Window
  /\ InOrder(s)

\* what may come of a session in one block, or in all of them
Follows(s, r) ==
  /\ SessionInv(r.session)
  /\ r.session.kind = s.kind /\ r.session.peer = s.peer /\ r.session.sent = s.sent
  /\ r.status \in connection_status_t \union {"onwards"}
  /\ r.status \in CheckoutStatus => s.kind \in Forwarded
  /\ r.status = "uncaught" => s.kind \in {"unsupported", "garbled"} \union Forwarded

(***************************************************************************)
(* The facts about a new session, and about one that a block leaves alone. *)
(***************************************************************************)
LEMMA NewSessionInv ==
  ASSUME NEW k \in RequestKind
  PROVE  SessionInv(NewSession(k))
<1>1. <<>> \in Seq(Nat) /\ Len(<<>>) = 0
  OBVIOUS
<1>2. NewSession(k) \in Session
  BY <1>1 DEF NewSession, Session, connection_stages_t
<1> QED
  BY <1>1, <1>2, WindowAssumption DEF SessionInv, NewSession, InOrder, ProxyStages

\* a session that keeps to its kind, its peer and what that has sent
Keeps(s, t) ==
  /\ SessionInv(t)
  /\ t.kind = s.kind /\ t.peer = s.peer /\ t.sent = s.sent

\* statuses any request may give
Harmless == (connection_status_t \ (CheckoutStatus \union {"uncaught"})) \union {"onwards"}

LEMMA ReturnFollows ==
  ASSUME NEW s, NEW t, Keeps(s, t), NEW status \in Harmless
  PROVE  Follows(s, Return(t, status))
<1>1. Return(t, status).session = t /\ Return(t, status).status = status
  BY DEF Return
<1>2. /\ status \in connection_status_t \union {"onwards"}
      /\ status \notin CheckoutStatus /\ status # "uncaught"
  BY DEF Harmless, CheckoutStatus
<1> QED
  BY <1>1, <1>2 DEF Follows, Keeps

LEMMA HarmlessStatus ==
  /\ ClosingStatus \union {"CONNECTION_PROCESSING", "onwards"} \subseteq Harmless
  /\ {"CONNECTION_FINISHED", "CONNECTION_TIMEOUT_ERROR",
      "ERROR_WHILE_CONNECTION_PROCESSING"} \subseteq ClosingStatus
BY DEF Harmless, connection_status_t, ClosingStatus, CheckoutStatus

LEMMA FallThroughFollows ==
  ASSUME NEW s, NEW t, Keeps(s, t)
  PROVE  Follows(s, FallThrough(t))
BY ReturnFollows, HarmlessStatus DEF FallThrough

LEMMA FollowsOn ==
  ASSUME NEW s, NEW q, Follows(s, q), NEW r, Follows(q.session, r)
  PROVE  Follows(s, r)
BY DEF Follows

(***************************************************************************)
(* A stage is set without anything else.                                   *)
(***************************************************************************)
LEMMA StageKept ==
  ASSUME NEW s, NEW t, Keeps(s, t), NEW stage \in connection_stages_t,
         stage \in ProxyStages => s.kind \in Forwarded
  PROVE  Keeps(s, [t EXCEPT !.stage = stage])
BY DEF Keeps, SessionInv, Session, InOrder

\* the stages at which a connection is given up
LEMMA ErrorStages ==
  {"ERROR_STAGE", "BAD_REQUEST", "PROXY_TIMEOUT", "FAILED_TO_CONNECT"}
    \subseteq connection_stages_t \ ProxyStages
BY DEF connection_stages_t, ProxyStages

LEMMA KeepsItself == ASSUME NEW s, SessionInv(s) PROVE Keeps(s, s)
BY DEF Keeps

(***************************************************************************)
(* What the client and the upstream do to a session on their own.          *)
(***************************************************************************)
Beside(s, t) ==
  /\ SessionInv(t)
  /\ t.kind = s.kind /\ t.stage = s.stage /\ t.got = s.got
  /\ t.answer = s.answer /\ t.pos = s.pos /\ t.file_fd = s.file_fd

LEMMA OthersAct ==
  ASSUME NEW s, SessionInv(s)
  PROVE  /\ \A n \in Nat : Beside(s, [s EXCEPT !.sent = n])
         /\ Beside(s, [s EXCEPT !.unread = 0])
         /\ \A p \in {"open", "shut", "gone"} :
              Beside(s, [s EXCEPT !.peer = p]) /\ [s EXCEPT !.peer = p].peer = p
         /\ s.proxy_sock # "none" =>
              \A k \in {"replied", "shut"} : Beside(s, [s EXCEPT !.proxy_sock = k])
<1>1. s \in Session
  BY DEF SessionInv
<1>2. ASSUME NEW n \in Nat PROVE Beside(s, [s EXCEPT !.sent = n])
  BY <1>1 DEF SessionInv, Session, InOrder, Beside
<1>3. 0 \in Nat /\ 0 <= Window
  BY WindowAssumption
<1>4. Beside(s, [s EXCEPT !.unread = 0])
  BY <1>1, <1>3 DEF SessionInv, Session, InOrder, Beside
<1>5. ASSUME NEW p \in {"open", "shut", "gone"}
      PROVE  Beside(s, [s EXCEPT !.peer = p]) /\ [s EXCEPT !.peer = p].peer = p
  BY <1>1 DEF SessionInv, Session, InOrder, Beside
<1>6. ASSUME NEW k \in {"replied", "shut"}, s.proxy_sock # "none"
      PROVE  Beside(s, [s EXCEPT !.proxy_sock = k])
  BY <1>1, <1>6 DEF SessionInv, Session, InOrder, Beside
<1> QED
  BY <1>2, <1>4, <1>5, <1>6

LEMMA LateFollows ==
  ASSUME NEW s, NEW r, Keeps(s, r.s), NEW t \in ReturnIfLate(r)
  PROVE  Follows(s, t)
<1>1. t = Return(r.s, "CONNECTION_TIMEOUT_ERROR") \/ t = FallThrough(r.s)
  BY Zenon DEF ReturnIfLate
<1> QED
  BY <1>1, ReturnFollows, FallThroughFollows, HarmlessStatus

LEMMA StopWaitingFollows ==
  ASSUME NEW s, NEW r, Keeps(s, r.s), NEW t \in StopWaiting(r)
  PROVE  Follows(s, t)
<1>1. t = FallThrough([r.s EXCEPT !.stage = "PROXY_TIMEOUT"]) \/ t = FallThrough(r.s)
  BY Zenon DEF StopWaiting
<1>2. Keeps(s, [r.s EXCEPT !.stage = "PROXY_TIMEOUT"])
  BY StageKept, ErrorStages
<1> QED
  BY <1>1, <1>2, FallThroughFollows

(***************************************************************************)
(* The functions.                                                          *)
(***************************************************************************)
LEMMA ResultIs == \A s, ok, fresh : Result(s, ok, fresh).s = s /\ Result(s, ok, fresh).ok = ok
BY DEF Result

LEMMA GetRequestKeeps ==
  ASSUME NEW s, SessionInv(s), NEW r \in get_request(s)
  PROVE  Keeps(s, r.s)
<1> DEFINE t == [s EXCEPT !.seen = s.sent]
<1>1. Keeps(s, t)
  BY DEF Keeps, SessionInv, Session, InOrder
<1>2. Keeps(s, [t EXCEPT !.stage = "BAD_REQUEST"]) /\ Keeps(s, [t EXCEPT !.stage = "ERROR_STAGE"])
  BY <1>1, StageKept, ErrorStages
<1>3. \E ok, fresh : \/ r = Result(t, ok, fresh)
                     \/ r = Result([t EXCEPT !.stage = "BAD_REQUEST"], ok, fresh)
                     \/ r = Result([t EXCEPT !.stage = "ERROR_STAGE"], ok, fresh)
  BY Zenon DEF get_request
<1> QED
  BY <1>1, <1>2, <1>3, ResultIs

LEMMA MakeResponseHeaderKeeps ==
  ASSUME NEW s, SessionInv(s), NEW spare \in BOOLEAN, NEW h \in make_response_header(s, spare)
  PROVE  Keeps(s, h)
<1>1. ASSUME NEW answer \in {"200", "404"}, NEW fd \in {"file", "directory", "page", "bad"}
      PROVE  Keeps(s, [s EXCEPT !.answer = answer, !.file_fd = fd])
  BY DEF Keeps, SessionInv, Session, InOrder
<1>2. FileAsked(s) \subseteq {"file", "directory", "none"}
  BY DEF FileAsked
<1>3. PICK file \in FileAsked(s) :
        h = IF s.stage = "ROOT_FOUND" /\ file # "none" /\ spare
              THEN [s EXCEPT !.answer = "200", !.file_fd = file]
              ELSE [s EXCEPT !.answer = "404", !.file_fd = IF spare THEN "page" ELSE "bad"]
  BY Zenon DEF make_response_header
<1>4. \E answer \in {"200", "404"}, fd \in {"file", "directory", "page", "bad"} :
        h = [s EXCEPT !.answer = answer, !.file_fd = fd]
  BY <1>2, <1>3
<1> QED
  BY <1>1, <1>4

LEMMA SendHeaderKeeps ==
  ASSUME NEW s, SessionInv(s), NEW closed, NEW r \in send_header(s, closed)
  PROVE  Keeps(s, r.s)
<1>1. Keeps(s, s) /\ Keeps(s, [s EXCEPT !.stage = "ERROR_STAGE"])
  BY KeepsItself, StageKept, ErrorStages
<1>2. \E ok, fresh : r = Result(s, ok, fresh) \/ r = Result([s EXCEPT !.stage = "ERROR_STAGE"], ok, fresh)
  BY Zenon DEF send_header
<1> QED
  BY <1>1, <1>2, ResultIs

LEMMA FileLengthType == ASSUME NEW s PROVE FileLength(s) \in Nat
BY FileSizeAssumption DEF FileLength

\* what fits the socket and is left of the file
LEMMA BuffersTakenType ==
  ASSUME NEW s, SessionInv(s), s.pos <= FileLength(s), NEW n \in BuffersTaken(s)
  PROVE  /\ n \in Nat
         /\ s.unread + n <= Window
         /\ s.pos + n <= FileLength(s)
BY FileLengthType, WindowAssumption DEF BuffersTaken, SessionInv, Session

LEMMA BuffersType ==
  ASSUME NEW s, SessionInv(s), NEW n \in Nat
  PROVE  /\ Buffers(s, n) \in Seq(Nat)
         /\ Len(Buffers(s, n)) = n
         /\ \A i \in 1 .. n : Buffers(s, n)[i] = s.pos + i
<1>1. s.pos \in Nat
  BY DEF SessionInv, Session
<1> QED
  BY <1>1 DEF Buffers

\* what is written goes on where the file was read up to
LEMMA GoesOn ==
  ASSUME NEW g \in Seq(Nat), NEW h \in Seq(Nat), NEW m \in Nat, NEW pos \in Nat,
         m + Len(h) <= pos,
         \A i \in 1 .. Len(g) : g[i] <= m,
         \A i, j \in 1 .. Len(g) : i < j => g[i] < g[j],
         \A i \in 1 .. Len(h) : h[i] = m + i
  PROVE  /\ g \o h \in Seq(Nat)
         /\ \A i \in 1 .. Len(g \o h) : (g \o h)[i] <= pos
         /\ \A i, j \in 1 .. Len(g \o h) : i < j => (g \o h)[i] < (g \o h)[j]
<1> DEFINE f == g \o h
<1>1. Len(g) \in Nat /\ Len(h) \in Nat
  BY LenProperties
<1>2. \A i \in 1 .. Len(g) : g[i] \in Nat
  BY ElementOfSeq
<1>3. /\ f \in Seq(Nat) /\ Len(f) = Len(g) + Len(h)
      /\ \A i \in 1 .. Len(g) + Len(h) :
           f[i] = IF i <= Len(g) THEN g[i] ELSE h[i - Len(g)]
  BY ConcatProperties
<1> HIDE DEF f
<1>4. \A i \in 1 .. Len(f) : \/ i \in 1 .. Len(g) /\ f[i] = g[i]
                             \/ ~(i <= Len(g)) /\ f[i] = m + (i - Len(g))
  <2> TAKE i \in 1 .. Len(f)
  <2>1. CASE i <= Len(g)
    BY <1>1, <1>3, <2>1
  <2>2. CASE ~(i <= Len(g))
    <3>1. i - Len(g) \in 1 .. Len(h) /\ f[i] = h[i - Len(g)]
      BY <1>1, <1>3, <2>2
    <3> QED
      BY <2>2, <3>1
  <2> QED
    BY <2>1, <2>2
<1>5. \A i \in 1 .. Len(g) : g[i] \in Nat /\ g[i] <= m
  BY <1>2
<1>6. \A i \in 1 .. Len(f) : f[i] \in Nat /\ f[i] <= pos
  <2> TAKE i \in 1 .. Len(f)
  <2>1. CASE i \in 1 .. Len(g) /\ f[i] = g[i]
    BY <1>1, <1>5, <2>1
  <2>2. CASE ~(i <= Len(g)) /\ f[i] = m + (i - Len(g))
    BY <1>1, <1>3, <2>2
  <2> QED
    BY <1>4, <2>1, <2>2
<1>7. ASSUME NEW i \in 1 .. Len(f), NEW j \in 1 .. Len(f), i < j
      PROVE  f[i] < f[j]
  <2>1. CASE j <= Len(g)
    <3>1. f[i] = g[i] /\ f[j] = g[j] /\ i \in 1 .. Len(g) /\ j \in 1 .. Len(g)
      BY <1>1, <1>3, <1>4, <1>7, <2>1
    <3> QED
      BY <1>7, <3>1
  <2>2. CASE ~(j <= Len(g))
    <3>1. f[j] = m + (j - Len(g)) /\ j - Len(g) \in Nat \ {0}
      BY <1>1, <1>3, <1>4, <2>2
    <3>2. CASE i \in 1 .. Len(g) /\ f[i] = g[i]
      BY <1>1, <1>5, <3>1, <3>2
    <3>3. CASE ~(i <= Len(g)) /\ f[i] = m + (i - Len(g))
      BY <1>1, <1>3, <1>7, <3>1, <3>3
    <3> QED
      BY <1>4, <3>2, <3>3
  <2> QED
    BY <2>1, <2>2
<1> QED
  BY <1>3, <1>6, <1>7 DEF f

\* n more buffers, and perhaps one that is lost
LEMMA WrittenKeeps ==
  ASSUME NEW s, SessionInv(s), NEW n \in Nat, s.unread + n <= Window,
         NEW pos \in Nat, s.pos + n <= pos
  PROVE  Keeps(s, [Written(s, n) EXCEPT !.pos = pos])
<1> DEFINE got == s.got \o Buffers(s, n)
           unread == s.unread + n
           t == [s EXCEPT !.got = got, !.unread = unread, !.pos = pos]
<1>1. s \in Session /\ s.got \in Seq(Nat) /\ s.pos \in Nat /\ s.unread \in Nat
  BY DEF SessionInv, Session
<1>2. /\ got \in Seq(Nat)
      /\ \A i \in 1 .. Len(got) : got[i] <= pos
      /\ \A i, j \in 1 .. Len(got) : i < j => got[i] < got[j]
  <2>1. /\ Buffers(s, n) \in Seq(Nat) /\ Len(Buffers(s, n)) = n
        /\ \A i \in 1 .. n : Buffers(s, n)[i] = s.pos + i
    BY BuffersType
  <2>2. /\ \A i \in 1 .. Len(s.got) : s.got[i] <= s.pos
        /\ \A i, j \in 1 .. Len(s.got) : i < j => s.got[i] < s.got[j]
    BY DEF SessionInv, InOrder
  <2> QED
    BY <1>1, <2>1, <2>2, GoesOn
<1>3. [Written(s, n) EXCEPT !.pos = pos] = t
  BY <1>1 DEF Written, Session
<1>6. unread \in Nat /\ unread <= Window
  BY <1>1
<1> HIDE DEF got, unread
<1>4. /\ t \in Session
      /\ t.got = got /\ t.pos = pos /\ t.unread = unread /\ t.stage = s.stage
      /\ t.kind = s.kind /\ t.peer = s.peer /\ t.sent = s.sent /\ t.proxy_sock = s.proxy_sock
  BY <1>1, <1>2, <1>6 DEF Session
<1> HIDE DEF t
<1>5. Keeps(s, t)
  BY <1>1, <1>2, <1>4, <1>6 DEF Keeps, SessionInv, InOrder
<1> QED
  BY <1>3, <1>5

LEMMA SendFileKeeps ==
  ASSUME NEW s, SessionInv(s), NEW r \in send_file(s)
  PROVE  Keeps(s, r.s)
<1>1. s.pos \in Nat /\ FileLength(s) \in Nat
  BY FileLengthType DEF SessionInv, Session
<1>2. CASE s.pos >= FileLength(s)
  <2>1. Keeps(s, s) /\ Keeps(s, [s EXCEPT !.stage = "ERROR_STAGE"])
    BY KeepsItself, StageKept, ErrorStages
  <2>2. \E ok, fresh : \/ r = Result([s EXCEPT !.stage = "ERROR_STAGE"], ok, fresh)
                       \/ r = Result(s, ok, fresh)
    BY <1>2, Zenon DEF send_file
  <2> QED
    BY <2>1, <2>2, ResultIs
<1>3. CASE ~(s.pos >= FileLength(s))
  <2>1. PICK n \in BuffersTaken(s) :
          r = IF s.pos + n = FileLength(s)
                THEN Result([Written(s, n) EXCEPT !.pos = FileLength(s)], TRUE, FALSE)
                ELSE Result([Written(s, n) EXCEPT !.pos = s.pos + n + 1], FALSE, n > 0)
    BY <1>3, Zenon DEF send_file
  <2>2. n \in Nat /\ s.unread + n <= Window /\ s.pos + n <= FileLength(s)
    BY <1>1, <1>3, BuffersTakenType
  <2>3. Keeps(s, [Written(s, n) EXCEPT !.pos = FileLength(s)])
    BY <1>1, <2>2, WrittenKeeps
  <2>4. Keeps(s, [Written(s, n) EXCEPT !.pos = s.pos + n + 1])
    BY <1>1, <2>2, WrittenKeeps
  <2>5. \E ok, fresh : \/ r = Result([Written(s, n) EXCEPT !.pos = FileLength(s)], ok, fresh)
                       \/ r = Result([Written(s, n) EXCEPT !.pos = s.pos + n + 1], ok, fresh)
    BY <2>1, Zenon
  <2> QED
    BY <2>3, <2>4, <2>5, ResultIs
<1> QED
  BY <1>2, <1>3

LEMMA ConnectKeeps ==
  ASSUME NEW s, SessionInv(s), s.kind \in Forwarded, NEW spare,
         NEW r \in connect_to_upstream(s, spare)
  PROVE  Keeps(s, r.s)
<1>1. Keeps(s, [s EXCEPT !.proxy_sock = "silent"])
  BY DEF Keeps, SessionInv, Session, InOrder
<1>2. \E ok, fresh : r = Result(s, ok, fresh) \/ r = Result([s EXCEPT !.proxy_sock = "silent"], ok, fresh)
  BY Zenon DEF connect_to_upstream
<1> QED
  BY <1>1, <1>2, ResultIs, KeepsItself

LEMMA GetProxyHeaderKeeps ==
  ASSUME NEW s, SessionInv(s), NEW r \in get_proxy_header(s)
  PROVE  Keeps(s, r.s)
<1>1. Keeps(s, s) /\ Keeps(s, [s EXCEPT !.stage = "ERROR_STAGE"])
  BY KeepsItself, StageKept, ErrorStages
<1>2. \E ok, fresh : r = Result(s, ok, fresh) \/ r = Result([s EXCEPT !.stage = "ERROR_STAGE"], ok, fresh)
  BY Zenon DEF get_proxy_header
<1> QED
  BY <1>1, <1>2, ResultIs

(***************************************************************************)
(* The blocks: each leaves a session that satisfies the invariant, and     *)
(* gives up the worker, or turns to an upstream, only for the requests     *)
(* that may do so.                                                         *)
(***************************************************************************)
LEMMA GetRequestBlockFollows ==
  ASSUME NEW s, SessionInv(s), NEW q \in GetRequestBlock(s)
  PROVE  Follows(s, q)
<1>1. CASE s.stage # "GET_REQUEST"
  BY <1>1, KeepsItself, FallThroughFollows DEF GetRequestBlock
<1>2. CASE s.stage = "GET_REQUEST"
  <2>1. PICK r \in get_request(s) :
          \/ \E stage \in process_location(r.s) : q = FallThrough([r.s EXCEPT !.stage = stage])
          \/ q \in ReturnIfLate(r)
    BY <1>2, Zenon DEF GetRequestBlock
  <2>2. Keeps(s, r.s)
    BY GetRequestKeeps
  <2>3. ASSUME NEW stage \in process_location(r.s)
        PROVE  /\ stage \in connection_stages_t
               /\ stage \in ProxyStages => s.kind \in Forwarded
    BY <2>2 DEF process_location, get_location, connection_stages_t, ProxyStages,
                Forwarded, Keeps
  <2> QED
    BY <2>1, <2>2, <2>3, StageKept, FallThroughFollows, LateFollows
<1> QED
  BY <1>1, <1>2

LEMMA RootBlockFollows ==
  ASSUME NEW s, SessionInv(s), NEW spare \in BOOLEAN, NEW q \in RootBlock(s, spare)
  PROVE  Follows(s, q)
<1>1. CASE s.stage \notin {"ROOT_FOUND", "ROOT_NOT_FOUND"}
  BY <1>1, KeepsItself, FallThroughFollows DEF RootBlock
<1>2. CASE s.stage \in {"ROOT_FOUND", "ROOT_NOT_FOUND"}
  <2>1. "SEND_HTTP_HEADER_RESPONSE" \in connection_stages_t \ ProxyStages
    BY DEF connection_stages_t, ProxyStages
  <2>2. ASSUME NEW h \in make_response_header(s, spare)
        PROVE  Keeps(s, [h EXCEPT !.stage = "SEND_HTTP_HEADER_RESPONSE"])
    BY <2>1, MakeResponseHeaderKeeps, StageKept
  <2>3. PICK throws \in http_handler_throws(s) :
          IF throws THEN q = Return(s, "uncaught")
          ELSE \E h \in make_response_header(s, spare) :
                 q = FallThrough([h EXCEPT !.stage = "SEND_HTTP_HEADER_RESPONSE"])
    BY <1>2, Zenon DEF RootBlock
  <2>4. CASE throws
    <3>1. s.kind \in {"unsupported", "garbled"}
      BY <2>3, <2>4, Zenon DEF http_handler_throws
    <3>2. q.session = s /\ q.status = "uncaught"
      BY <2>3, <2>4 DEF Return
    <3> QED
      BY <3>1, <3>2 DEF Follows, connection_status_t, CheckoutStatus
  <2>5. CASE ~throws
    BY <2>2, <2>3, <2>5, FallThroughFollows
  <2> QED
    BY <2>4, <2>5
<1> QED
  BY <1>1, <1>2

\* a status that only forwarded requests give
LEMMA ForwardedFollows ==
  ASSUME NEW s, NEW t, Keeps(s, t), s.kind \in Forwarded,
         NEW status \in CheckoutStatus \union {"uncaught"}
  PROVE  Follows(s, Return(t, status))
<1>1. Return(t, status).session = t /\ Return(t, status).status = status
  BY DEF Return
<1> QED
  BY <1>1 DEF Follows, Keeps, connection_status_t

LEMMA PassToProxyBlockFollows ==
  ASSUME NEW s, SessionInv(s), NEW spare, NEW q \in PassToProxyBlock(s, spare)
  PROVE  Follows(s, q)
<1>1. CASE s.stage # "PASS_TO_PROXY"
  BY <1>1, KeepsItself, FallThroughFollows DEF PassToProxyBlock
<1>2. CASE s.stage = "PASS_TO_PROXY"
  <2>1. s.kind \in Forwarded
    BY <1>2 DEF SessionInv, ProxyStages
  <2>2. PICK r \in connect_to_upstream(s, spare) :
          \/ q = Return([r.s EXCEPT !.stage = "SEND_HEADER_TO_PROXY"],
                        "CHECKOUT_PROXY_FOR_WRITE")
          \/ q = FallThrough([r.s EXCEPT !.stage = "FAILED_TO_CONNECT"])
    BY <1>2, Zenon DEF PassToProxyBlock
  <2>3. Keeps(s, r.s)
    BY <2>1, ConnectKeeps
  <2>4. "SEND_HEADER_TO_PROXY" \in connection_stages_t
    BY DEF connection_stages_t
  <2>5. /\ Keeps(s, [r.s EXCEPT !.stage = "SEND_HEADER_TO_PROXY"])
        /\ Keeps(s, [r.s EXCEPT !.stage = "FAILED_TO_CONNECT"])
    BY <2>1, <2>3, <2>4, StageKept, ErrorStages
  <2> QED
    BY <2>1, <2>2, <2>5, ForwardedFollows, FallThroughFollows DEF CheckoutStatus
<1> QED
  BY <1>1, <1>2

LEMMA SendHeaderToProxyBlockFollows ==
  ASSUME NEW s, SessionInv(s), NEW q \in SendHeaderToProxyBlock(s)
  PROVE  Follows(s, q)
<1>1. CASE s.stage # "SEND_HEADER_TO_PROXY"
  BY <1>1, KeepsItself, FallThroughFollows DEF SendHeaderToProxyBlock
<1>2. CASE s.stage = "SEND_HEADER_TO_PROXY"
  <2>1. s.kind \in Forwarded
    BY <1>2 DEF SessionInv, ProxyStages
  <2>2. PICK r \in send_header(s, s.proxy_sock = "shut") :
          \/ q = FallThrough([r.s EXCEPT !.stage = "GET_BODY_OR_NOT_FROM_CLIENT"])
          \/ q \in StopWaiting(r)
    BY <1>2, Zenon DEF SendHeaderToProxyBlock
  <2>3. Keeps(s, r.s)
    BY SendHeaderKeeps
  <2>4. "GET_BODY_OR_NOT_FROM_CLIENT" \in connection_stages_t
    BY DEF connection_stages_t
  <2> QED
    BY <2>1, <2>2, <2>3, <2>4, StageKept, FallThroughFollows, StopWaitingFollows
<1> QED
  BY <1>1, <1>2

LEMMA GetBodyOrNotBlockFollows ==
  ASSUME NEW s, SessionInv(s), NEW q \in GetBodyOrNotBlock(s)
  PROVE  Follows(s, q)
<1>1. CASE s.stage # "GET_BODY_OR_NOT_FROM_CLIENT"
  BY <1>1, KeepsItself, FallThroughFollows DEF GetBodyOrNotBlock
<1>2. CASE s.stage = "GET_BODY_OR_NOT_FROM_CLIENT"
  <2>1. s.kind \in Forwarded
    BY <1>2 DEF SessionInv, ProxyStages
  <2>2. \/ q = Return([s EXCEPT !.stage = "GET_RESPONSE_FROM_PROXY"], "CHECKOUT_PROXY_FOR_READ")
        \/ q = Return(s, "uncaught")
    BY <1>2, Zenon DEF GetBodyOrNotBlock
  <2>3. "GET_RESPONSE_FROM_PROXY" \in connection_stages_t
    BY DEF connection_stages_t
  <2>4. Keeps(s, s) /\ Keeps(s, [s EXCEPT !.stage = "GET_RESPONSE_FROM_PROXY"])
    BY <2>1, <2>3, KeepsItself, StageKept
  <2> QED
    BY <2>1, <2>2, <2>4, ForwardedFollows DEF CheckoutStatus
<1> QED
  BY <1>1, <1>2

LEMMA GetResponseBlockFollows ==
  ASSUME NEW s, SessionInv(s), NEW q \in GetResponseBlock(s)
  PROVE  Follows(s, q)
<1>1. CASE s.stage # "GET_RESPONSE_FROM_PROXY"
  BY <1>1, KeepsItself, FallThroughFollows DEF GetResponseBlock
<1>2. CASE s.stage = "GET_RESPONSE_FROM_PROXY"
  <2>1. s.kind \in Forwarded
    BY <1>2 DEF SessionInv, ProxyStages
  <2>2. PICK r \in get_proxy_header(s) : q = Return(r.s, "uncaught") \/ q \in StopWaiting(r)
    BY <1>2, Zenon DEF GetResponseBlock
  <2> QED
    BY <2>1, <2>2, GetProxyHeaderKeeps, ForwardedFollows, StopWaitingFollows
<1> QED
  BY <1>1, <1>2

LEMMA SendHttpHeaderBlockFollows ==
  ASSUME NEW s, SessionInv(s), NEW q \in SendHttpHeaderBlock(s)
  PROVE  Follows(s, q)
<1>1. CASE s.stage # "SEND_HTTP_HEADER_RESPONSE"
  BY <1>1, KeepsItself, FallThroughFollows DEF SendHttpHeaderBlock
<1>2. CASE s.stage = "SEND_HTTP_HEADER_RESPONSE"
  <2>1. PICK r \in send_header(s, s.peer = "gone") :
          q = FallThrough([r.s EXCEPT !.stage = "SEND_FILE"]) \/ q \in ReturnIfLate(r)
    BY <1>2, Zenon DEF SendHttpHeaderBlock
  <2>2. "SEND_FILE" \in connection_stages_t \ ProxyStages
    BY DEF connection_stages_t, ProxyStages
  <2> QED
    BY <2>1, <2>2, SendHeaderKeeps, StageKept, FallThroughFollows, LateFollows
<1> QED
  BY <1>1, <1>2

LEMMA SendFileBlockFollows ==
  ASSUME NEW s, SessionInv(s), NEW q \in SendFileBlock(s)
  PROVE  Follows(s, q)
<1>1. CASE s.stage # "SEND_FILE"
  BY <1>1, KeepsItself, FallThroughFollows DEF SendFileBlock
<1>2. CASE s.stage = "SEND_FILE"
  <2>1. PICK r \in send_file(s) :
          q = Return(r.s, "CONNECTION_FINISHED") \/ q \in ReturnIfLate(r)
    BY <1>2, Zenon DEF SendFileBlock
  <2> QED
    BY <2>1, SendFileKeeps, ReturnFollows, LateFollows, HarmlessStatus
<1> QED
  BY <1>1, <1>2

(***************************************************************************)
(* One call of connection_processing(): a session that satisfies the       *)
(* invariant is left as one that does, of the same client; only a request  *)
(* that is forwarded turns to an upstream, and only one that is forwarded, *)
(* does not parse or is refused ends the worker.                           *)
(***************************************************************************)
THEOREM ConnectionProcessingFollows ==
  ASSUME NEW s, SessionInv(s), NEW spare \in BOOLEAN,
         NEW r \in connection_processing(s, spare)
  PROVE  Follows(s, r) /\ r.status \in connection_status_t
<1>1. CASE s.stage = "ERROR_STAGE"
  <2>1. r = Return(s, "ERROR_WHILE_CONNECTION_PROCESSING")
    BY <1>1 DEF connection_processing
  <2>2. r.status \in connection_status_t
    BY <2>1 DEF Return, connection_status_t, ClosingStatus
  <2> QED
    BY <2>1, <2>2, KeepsItself, ReturnFollows, HarmlessStatus
<1>2. CASE s.stage # "ERROR_STAGE"
  <2> DEFINE Root(t) == RootBlock(t, spare)
             PassToProxy(t) == PassToProxyBlock(t, spare)
             Processing(t) == {Return(t, "CONNECTION_PROCESSING")}
             rooted == Then(GetRequestBlock(s), Root)
             answered == Then(rooted, PassToProxy)
             headed == Then(answered, SendHeaderToProxyBlock)
             asked == Then(headed, GetBodyOrNotBlock)
             replied == Then(asked, GetResponseBlock)
             header == Then(replied, SendHttpHeaderBlock)
             sent == Then(header, SendFileBlock)
  <2>1. \A q \in GetRequestBlock(s) : Follows(s, q)
    BY GetRequestBlockFollows
  <2>2. \A q \in rooted : Follows(s, q)
    <3> SUFFICES ASSUME NEW q \in rooted PROVE Follows(s, q)
      OBVIOUS
    <3>1. PICK p \in GetRequestBlock(s) : q = p \/ q \in RootBlock(p.session, spare)
      BY Zenon DEF Then
    <3>2. Follows(s, p) /\ SessionInv(p.session)
      BY <2>1 DEF Follows
    <3> QED
      BY <3>1, <3>2, RootBlockFollows, FollowsOn
  <2>3. \A q \in answered : Follows(s, q)
    <3> SUFFICES ASSUME NEW q \in answered PROVE Follows(s, q)
      OBVIOUS
    <3>1. PICK p \in rooted : q = p \/ q \in PassToProxyBlock(p.session, spare)
      BY Zenon DEF Then
    <3>2. Follows(s, p) /\ SessionInv(p.session)
      BY <2>2 DEF Follows
    <3> QED
      BY <3>1, <3>2, PassToProxyBlockFollows, FollowsOn
  <2>4. \A q \in headed : Follows(s, q)
    <3> SUFFICES ASSUME NEW q \in headed PROVE Follows(s, q)
      OBVIOUS
    <3>1. PICK p \in answered : q = p \/ q \in SendHeaderToProxyBlock(p.session)
      BY Zenon DEF Then
    <3>2. Follows(s, p) /\ SessionInv(p.session)
      BY <2>3 DEF Follows
    <3> QED
      BY <3>1, <3>2, SendHeaderToProxyBlockFollows, FollowsOn
  <2>5. \A q \in asked : Follows(s, q)
    <3> SUFFICES ASSUME NEW q \in asked PROVE Follows(s, q)
      OBVIOUS
    <3>1. PICK p \in headed : q = p \/ q \in GetBodyOrNotBlock(p.session)
      BY Zenon DEF Then
    <3>2. Follows(s, p) /\ SessionInv(p.session)
      BY <2>4 DEF Follows
    <3> QED
      BY <3>1, <3>2, GetBodyOrNotBlockFollows, FollowsOn
  <2>6. \A q \in replied : Follows(s, q)
    <3> SUFFICES ASSUME NEW q \in replied PROVE Follows(s, q)
      OBVIOUS
    <3>1. PICK p \in asked : q = p \/ q \in GetResponseBlock(p.session)
      BY Zenon DEF Then
    <3>2. Follows(s, p) /\ SessionInv(p.session)
      BY <2>5 DEF Follows
    <3> QED
      BY <3>1, <3>2, GetResponseBlockFollows, FollowsOn
  <2>7. \A q \in header : Follows(s, q)
    <3> SUFFICES ASSUME NEW q \in header PROVE Follows(s, q)
      OBVIOUS
    <3>1. PICK p \in replied : q = p \/ q \in SendHttpHeaderBlock(p.session)
      BY Zenon DEF Then
    <3>2. Follows(s, p) /\ SessionInv(p.session)
      BY <2>6 DEF Follows
    <3> QED
      BY <3>1, <3>2, SendHttpHeaderBlockFollows, FollowsOn
  <2>8. \A q \in sent : Follows(s, q)
    <3> SUFFICES ASSUME NEW q \in sent PROVE Follows(s, q)
      OBVIOUS
    <3>1. PICK p \in header : q = p \/ q \in SendFileBlock(p.session)
      BY Zenon DEF Then
    <3>2. Follows(s, p) /\ SessionInv(p.session)
      BY <2>7 DEF Follows
    <3> QED
      BY <3>1, <3>2, SendFileBlockFollows, FollowsOn
  <2>9. PICK q \in sent : \/ q.status # "onwards" /\ r = q
                          \/ r = Return(q.session, "CONNECTION_PROCESSING")
    BY <1>2, Zenon DEF connection_processing, Then
  <2>10. Follows(s, q) /\ Keeps(q.session, q.session)
    BY <2>8, KeepsItself DEF Follows
  <2>11. CASE q.status # "onwards" /\ r = q
    BY <2>10, <2>11 DEF Follows
  <2>12. CASE r = Return(q.session, "CONNECTION_PROCESSING")
    <3>1. r.status \in connection_status_t
      BY <2>12 DEF Return, connection_status_t
    <3>2. Follows(q.session, r)
      BY <2>10, <2>12, ReturnFollows, HarmlessStatus
    <3> QED
      BY <2>10, <3>1, <3>2, FollowsOn
  <2> QED
    BY <2>9, <2>11, <2>12
<1> QED
  BY <1>1, <1>2

-----------------------------------------------------------------------------
(***************************************************************************)
(* The requests a worker serves itself, and a session in which nothing has *)
(* been done yet.                                                          *)
(***************************************************************************)
Served == {"file", "absent", "nowhere"}

Fresh(s) ==
  /\ s.stage = "GET_REQUEST" /\ s.answer = "none" /\ s.file_fd = "none"
  /\ s.pos = 0 /\ s.got = <<>> /\ s.unread = 0

\* the answer a served request should get, and all of it
Answered(s) ==
  /\ s.answer = (IF s.kind = "file" THEN "200" ELSE "404")
  /\ WholeFile(s)

\* nothing of the answer is sent yet, and the client is there to take it
Unsent(s) ==
  /\ SessionInv(s) /\ s.kind \in Served /\ s.peer = "open"
  /\ s.pos = 0 /\ s.got = <<>> /\ s.unread = 0

\* the header is made, and the file behind it is open
Prepared(s) ==
  /\ Unsent(s)
  /\ s.answer = (IF s.kind = "file" THEN "200" ELSE "404")
  /\ s.file_fd = (IF s.kind = "file" THEN "file" ELSE "page")

\* the request has more behind its end, and a line of that was refused
Refused(q) ==
  /\ q.session.sent > LastSegment /\ q.session.stage = "BAD_REQUEST"
  /\ q.status \in {"onwards", "CONNECTION_TIMEOUT_ERROR"}

LEMMA GetRequestAsked ==
  ASSUME NEW s, Unsent(s), s.stage = "GET_REQUEST", WholeRequest(s), NEW q \in GetRequestBlock(s)
  PROVE  \/ /\ q.status = "onwards" /\ Unsent(q.session) /\ q.session.kind = s.kind
            /\ q.session.stage = (IF s.kind = "nowhere" THEN "ROOT_NOT_FOUND" ELSE "ROOT_FOUND")
         \/ Refused(q) /\ q.session.sent = s.sent
<1> DEFINE t == [s EXCEPT !.seen = s.sent]
           bad == [t EXCEPT !.stage = "BAD_REQUEST"]
           stage == IF s.kind = "nowhere" THEN "ROOT_NOT_FOUND" ELSE "ROOT_FOUND"
<1>1. s \in Session /\ s.kind \in Served
  BY DEF Unsent, SessionInv
<1>2. Keeps(s, t)
  BY DEF Unsent, Keeps, SessionInv, Session, InOrder
<1>3. Keeps(s, bad)
  BY <1>2, StageKept, ErrorStages
<1>4. stage \in connection_stages_t \ ProxyStages
  BY DEF connection_stages_t, ProxyStages
<1>5. ASSUME NEW u \in {t, bad}
      PROVE  /\ process_location(u) = {stage}
             /\ Unsent([u EXCEPT !.stage = stage])
             /\ [u EXCEPT !.stage = stage].stage = stage /\ [u EXCEPT !.stage = stage].kind = s.kind
  <2>1. Keeps(s, u)
    BY <1>2, <1>3
  <2>2. u.pos = s.pos /\ u.got = s.got /\ u.unread = s.unread
    BY <1>1 DEF Session
  <2>3. u \in Session
    BY <2>1 DEF Keeps, SessionInv
  <2> HIDE DEF t, bad
  <2>4. process_location(u) = {stage}
    <3>1. u.kind = s.kind
      BY <2>1 DEF Keeps
    <3>2. CASE s.kind = "nowhere"
      <4>1. get_location(u) = {"none"}
        BY <3>1, <3>2 DEF get_location
      <4> QED
        BY <3>2, <4>1 DEF process_location
    <3>3. CASE s.kind # "nowhere"
      <4>1. get_location(u) = {"root"}
        BY <1>1, <3>1, <3>3 DEF get_location, Served
      <4> QED
        BY <3>3, <4>1 DEF process_location
    <3> QED
      BY <3>2, <3>3
  <2>5. Keeps(s, [u EXCEPT !.stage = stage])
    BY <1>4, <2>1, StageKept
  <2>6. /\ [u EXCEPT !.stage = stage].pos = u.pos /\ [u EXCEPT !.stage = stage].got = u.got
        /\ [u EXCEPT !.stage = stage].unread = u.unread
        /\ [u EXCEPT !.stage = stage].stage = stage
    BY <2>3 DEF Session
  <2> QED
    BY <2>2, <2>4, <2>5, <2>6 DEF Keeps, Unsent
<1>6. PICK r \in get_request(s) :
        IF r.ok THEN \E location \in process_location(r.s) :
                       q = FallThrough([r.s EXCEPT !.stage = location])
        ELSE q \in ReturnIfLate(r)
  BY Zenon DEF GetRequestBlock
<1>7. \/ r = Result(t, TRUE, FALSE)
      \/ s.sent > LastSegment /\ \E ok \in BOOLEAN : r = Result(bad, ok, FALSE)
  <2>1. PICK throws \in add_line_throws(s) :
          r \in IF throws THEN {Result(bad, ok, FALSE) : ok \in BOOLEAN}
                ELSE {Result(t, TRUE, FALSE) : failed \in read_fails(s)}
    BY Zenon DEF get_request
  <2>2. throws => s.sent > LastSegment
    BY <1>1 DEF add_line_throws, Served
  <2> QED
    BY <2>1, <2>2, Zenon
<1>10. (r.ok = TRUE /\ r.s = t) \/ (s.sent > LastSegment /\ r.s = bad)
  <2> HIDE DEF t, bad
  <2>1. CASE r = Result(t, TRUE, FALSE)
    BY <2>1, ResultIs
  <2>2. CASE s.sent > LastSegment /\ \E ok \in BOOLEAN : r = Result(bad, ok, FALSE)
    <3>1. PICK ok \in BOOLEAN : r = Result(bad, ok, FALSE)
      BY <2>2
    <3>2. r.s = bad
      BY <3>1 DEF Result
    <3> QED
      BY <2>2, <3>2
  <2> QED
    BY <1>7, <2>1, <2>2
<1>8. CASE r.ok
  <2>1. r.s \in {t, bad}
    BY <1>10
  <2>2. q = FallThrough([r.s EXCEPT !.stage = stage])
    BY <1>5, <1>6, <1>8, <2>1
  <2>3. q.status = "onwards" /\ q.session = [r.s EXCEPT !.stage = stage]
    BY <2>2 DEF FallThrough, Return
  <2> QED
    BY <1>5, <2>1, <2>3
<1>9. CASE ~r.ok
  <2>1. s.sent > LastSegment /\ r.s = bad
    BY <1>9, <1>10
  <2>2. bad.sent = s.sent /\ bad.stage = "BAD_REQUEST"
    BY <1>1 DEF Session
  <2>3. q = Return(bad, "CONNECTION_TIMEOUT_ERROR") \/ q = FallThrough(bad)
    BY <1>6, <1>9, <2>1, Zenon DEF ReturnIfLate
  <2> HIDE DEF bad
  <2>4. q.session = bad /\ q.status \in {"CONNECTION_TIMEOUT_ERROR", "onwards"}
    BY <2>3 DEF FallThrough, Return
  <2> QED
    BY <2>1, <2>2, <2>4 DEF Refused
<1> QED
  BY <1>8, <1>9

LEMMA RootPrepared ==
  ASSUME NEW s, Unsent(s),
         s.stage = (IF s.kind = "nowhere" THEN "ROOT_NOT_FOUND" ELSE "ROOT_FOUND"),
         NEW q \in RootBlock(s, TRUE)
  PROVE  /\ q.status = "onwards" /\ Prepared(q.session) /\ q.session.kind = s.kind
         /\ q.session.stage = "SEND_HTTP_HEADER_RESPONSE"
<1> DEFINE answer == IF s.kind = "file" THEN "200" ELSE "404"
           fd == IF s.kind = "file" THEN "file" ELSE "page"
           h == [s EXCEPT !.answer = answer, !.file_fd = fd]
           t == [h EXCEPT !.stage = "SEND_HTTP_HEADER_RESPONSE"]
<1>1. http_handler_throws(s) = {FALSE}
  BY DEF http_handler_throws, Unsent, Served
<1>3. make_response_header(s, TRUE) = {h}
  <2>1. CASE s.kind = "file"
    <3>1. FileAsked(s) = {"file"}
      BY <2>1 DEF FileAsked
    <3> QED
      BY <2>1, <3>1 DEF make_response_header
  <2>2. CASE s.kind # "file"
    <3>1. FileAsked(s) = {"none"}
      BY <2>2 DEF FileAsked, Unsent, Served
    <3> QED
      BY <2>2, <3>1 DEF make_response_header
  <2> QED
    BY <2>1, <2>2
<1>2. q = FallThrough(t)
  <2>1. PICK throws \in http_handler_throws(s) :
          q \in IF throws THEN {Return(s, "uncaught")}
               ELSE {FallThrough([g EXCEPT !.stage = "SEND_HTTP_HEADER_RESPONSE"])
                     : g \in make_response_header(s, TRUE)}
    BY Zenon DEF RootBlock
  <2> HIDE DEF h
  <2>2. throws = FALSE
    BY <1>1, <2>1
  <2>3. \E g \in {h} : q = FallThrough([g EXCEPT !.stage = "SEND_HTTP_HEADER_RESPONSE"])
    BY <1>3, <2>1, <2>2, Zenon
  <2> QED
    BY <2>3
<1>4. Keeps(s, h)
  BY <1>3, MakeResponseHeaderKeeps DEF Unsent
<1>5. "SEND_HTTP_HEADER_RESPONSE" \in connection_stages_t \ ProxyStages
  BY DEF connection_stages_t, ProxyStages
<1>6. Keeps(s, t)
  BY <1>4, <1>5, StageKept
<1>7. s \in Session /\ h \in Session
  BY <1>4 DEF Unsent, Keeps, SessionInv
<1>8. h.answer = answer /\ h.file_fd = fd /\ h.pos = s.pos /\ h.got = s.got /\ h.unread = s.unread
  BY <1>7 DEF Session
<1> HIDE DEF h
<1>9. /\ t.answer = h.answer /\ t.file_fd = h.file_fd /\ t.pos = h.pos /\ t.got = h.got
      /\ t.unread = h.unread /\ t.stage = "SEND_HTTP_HEADER_RESPONSE"
  BY <1>7 DEF Session
<1>10. q.status = "onwards" /\ q.session = t
  BY <1>2 DEF FallThrough, Return
<1> HIDE DEF t
<1> QED
  BY <1>6, <1>8, <1>9, <1>10 DEF Keeps, Prepared, Unsent

LEMMA HeaderSent ==
  ASSUME NEW s, Prepared(s), s.stage = "SEND_HTTP_HEADER_RESPONSE",
         NEW q \in SendHttpHeaderBlock(s)
  PROVE  /\ q.status = "onwards" /\ Prepared(q.session) /\ q.session.kind = s.kind
         /\ q.session.stage = "SEND_FILE"
<1> DEFINE t == [s EXCEPT !.stage = "SEND_FILE"]
<1>1. s.peer # "gone" /\ SessionInv(s)
  BY DEF Prepared, Unsent
<1>2. send_header(s, s.peer = "gone") = {Result(s, TRUE, FALSE)}
  BY <1>1, Zenon DEF send_header
<1>3. Result(s, TRUE, FALSE).ok = TRUE /\ Result(s, TRUE, FALSE).s = s
  BY ResultIs
<1>4. q = FallThrough(t)
  BY <1>2, <1>3, Zenon DEF SendHttpHeaderBlock
<1>5. "SEND_FILE" \in connection_stages_t \ ProxyStages
  BY DEF connection_stages_t, ProxyStages
<1>6. Keeps(s, t)
  BY <1>1, <1>5, KeepsItself, StageKept
<1>7. /\ t.answer = s.answer /\ t.file_fd = s.file_fd /\ t.pos = s.pos /\ t.got = s.got
      /\ t.unread = s.unread /\ t.stage = "SEND_FILE"
  BY <1>1 DEF SessionInv, Session
<1>8. q.status = "onwards" /\ q.session = t
  BY <1>4 DEF FallThrough, Return
<1> HIDE DEF t
<1> QED
  BY <1>6, <1>7, <1>8 DEF Keeps, Prepared, Unsent

\* an empty socket that holds the whole file takes all of it
LEMMA FileSent ==
  ASSUME NEW s, Prepared(s), s.stage = "SEND_FILE", s.kind = "file" => FileSize <= Window,
         NEW q \in SendFileBlock(s)
  PROVE  /\ q.status = "CONNECTION_FINISHED"
         /\ q.session.kind = s.kind /\ Answered(q.session)
<1> DEFINE n == FileLength(s)
           w == Written(s, n)
           t == [w EXCEPT !.pos = n]
<1>1. s \in Session /\ s.peer # "gone" /\ s.pos = 0 /\ s.got = <<>> /\ s.unread = 0
  BY DEF Prepared, Unsent, SessionInv
<1>2. n \in Nat \ {0} /\ n <= Window
  BY FileSizeAssumption, WindowAssumption DEF FileLength, Prepared
<1> HIDE DEF n
<1>3. BuffersTaken(s) = {n}
  BY <1>1, <1>2, WindowAssumption DEF BuffersTaken, n
<1>4. ~(s.pos >= FileLength(s)) /\ s.pos + n = FileLength(s)
  BY <1>1, <1>2 DEF n
<1>5. send_file(s) = {Result(t, TRUE, FALSE)}
  BY <1>3, <1>4, Zenon DEF send_file, n
<1>6. Result(t, TRUE, FALSE).ok = TRUE /\ Result(t, TRUE, FALSE).s = t
  BY ResultIs
<1>7. q = Return(t, "CONNECTION_FINISHED")
  <2>1. PICK r \in send_file(s) : r.ok => q = Return(r.s, "CONNECTION_FINISHED")
    BY Zenon DEF SendFileBlock
  <2>2. r = Result(t, TRUE, FALSE)
    BY <1>5, <2>1
  <2> QED
    BY <1>6, <2>1, <2>2, Zenon
<1>8. s.got \o Buffers(s, n) = [i \in 1 .. n |-> i]
  <2>1. [i \in 1 .. n |-> s.pos + i] = [i \in 1 .. n |-> i]
    BY <1>1, <1>2
  <2>2. Buffers(s, n) = [i \in 1 .. n |-> i] /\ Buffers(s, n) \in Seq(Nat)
    BY <2>1, <1>2 DEF Buffers
  <2> QED
    BY <1>1, <2>2, ConcatEmptySeq
<1>9. /\ w.got = [i \in 1 .. n |-> i] /\ w.kind = s.kind /\ w.answer = s.answer
      /\ w.file_fd = s.file_fd
  BY <1>1, <1>8 DEF Written, Session
<1>10. DOMAIN w = DOMAIN s
  BY DEF Written
<1> HIDE DEF w
<1>11. t.got = w.got /\ t.kind = w.kind /\ t.answer = w.answer /\ t.file_fd = w.file_fd
  OBVIOUS
<1> HIDE DEF t
<1>12. FileLength(t) = n
  BY <1>9, <1>11 DEF FileLength, n
<1>13. q.status = "CONNECTION_FINISHED" /\ q.session = t
  BY <1>7 DEF Return
<1> QED
  BY <1>9, <1>11, <1>12, <1>13 DEF Answered, WholeFile, Prepared

\* the blocks pass a refused request by
LEMMA RefusedFallsThrough ==
  ASSUME NEW q, Refused(q), NEW p,
         IF q.status = "onwards"
           THEN p \in UNION {RootBlock(q.session, TRUE), PassToProxyBlock(q.session, TRUE),
                             SendHeaderToProxyBlock(q.session), GetBodyOrNotBlock(q.session),
                             GetResponseBlock(q.session), SendHttpHeaderBlock(q.session),
                             SendFileBlock(q.session)}
           ELSE p = q
  PROVE  Refused(p) /\ p.session = q.session
<1>1. CASE q.status = "onwards"
  <2>1. p = FallThrough(q.session)
    BY <1>1 DEF Refused, RootBlock, PassToProxyBlock, SendHeaderToProxyBlock,
                GetBodyOrNotBlock, GetResponseBlock, SendHttpHeaderBlock, SendFileBlock
  <2> QED
    BY <2>1 DEF Refused, FallThrough, Return
<1> QED
  BY <1>1

(***************************************************************************)
(* One call of connection_processing() answers a request that has arrived  *)
(* in full, if the worker serves it itself, has a descriptor for the file  *)
(* and the client's socket holds the file: whatever the uninitialized      *)
(* variables and the clock are, the connection is finished and the client  *)
(* has the right header and the whole file.  Only if the client sent more  *)
(* than the request may it end in BAD_REQUEST instead, unanswered.         *)
(***************************************************************************)
THEOREM AnswersInOneCall ==
  ASSUME NEW s, SessionInv(s), Fresh(s), s.kind \in Served, s.peer = "open", WholeRequest(s),
         s.kind = "file" => FileSize <= Window,
         NEW r \in connection_processing(s, TRUE)
  PROVE  \/ r.status = "CONNECTION_FINISHED" /\ Answered(r.session)
         \/ /\ s.sent > LastSegment /\ r.session.stage = "BAD_REQUEST"
            /\ r.status \in {"CONNECTION_PROCESSING", "CONNECTION_TIMEOUT_ERROR"}
<1> DEFINE Root(t) == RootBlock(t, TRUE)
           PassToProxy(t) == PassToProxyBlock(t, TRUE)
           Processing(t) == {Return(t, "CONNECTION_PROCESSING")}
           rooted == Then(GetRequestBlock(s), Root)
           answered == Then(rooted, PassToProxy)
           headed == Then(answered, SendHeaderToProxyBlock)
           asked == Then(headed, GetBodyOrNotBlock)
           replied == Then(asked, GetResponseBlock)
           header == Then(replied, SendHttpHeaderBlock)
           sent == Then(header, SendFileBlock)
           Ready(q) == /\ q.status = "onwards" /\ q.session.kind = s.kind
                       /\ Prepared(q.session)
                       /\ q.session.stage = "SEND_HTTP_HEADER_RESPONSE"
           Bad(q) == Refused(q) /\ q.session.sent = s.sent
<1>1. \A q \in rooted : Ready(q) \/ Bad(q)
  <2> SUFFICES ASSUME NEW q \in rooted PROVE Ready(q) \/ Bad(q)
    OBVIOUS
  <2>1. Unsent(s) /\ s.stage = "GET_REQUEST"
    BY DEF Unsent, Fresh
  <2>2. PICK p \in GetRequestBlock(s) :
          IF p.status = "onwards" THEN q \in RootBlock(p.session, TRUE) ELSE q = p
    BY Zenon DEF Then
  <2>3. \/ /\ p.status = "onwards" /\ Unsent(p.session) /\ p.session.kind = s.kind
           /\ p.session.stage = (IF s.kind = "nowhere" THEN "ROOT_NOT_FOUND" ELSE "ROOT_FOUND")
        \/ Bad(p)
    BY <2>1, GetRequestAsked
  <2>4. CASE Bad(p)
    BY <2>2, <2>4, RefusedFallsThrough
  <2>5. CASE ~Bad(p)
    BY <2>2, <2>3, <2>5, RootPrepared
  <2> QED
    BY <2>4, <2>5
<1>2. \A q \in answered : Ready(q) \/ Bad(q)
  <2> SUFFICES ASSUME NEW q \in answered PROVE Ready(q) \/ Bad(q)
    OBVIOUS
  <2>1. PICK p \in rooted :
          IF p.status = "onwards" THEN q \in PassToProxyBlock(p.session, TRUE) ELSE q = p
    BY Zenon DEF Then
  <2>2. CASE Ready(p)
    <3>1. q = FallThrough(p.session)
      BY <2>1, <2>2 DEF PassToProxyBlock
    <3> QED
      BY <2>2, <3>1 DEF FallThrough, Return
  <2>3. CASE Bad(p)
    BY <2>1, <2>3, RefusedFallsThrough
  <2> QED
    BY <1>1, <2>2, <2>3
<1>3. \A q \in headed : Ready(q) \/ Bad(q)
  <2> SUFFICES ASSUME NEW q \in headed PROVE Ready(q) \/ Bad(q)
    OBVIOUS
  <2>1. PICK p \in answered :
          IF p.status = "onwards" THEN q \in SendHeaderToProxyBlock(p.session) ELSE q = p
    BY Zenon DEF Then
  <2>2. CASE Ready(p)
    <3>1. q = FallThrough(p.session)
      BY <2>1, <2>2 DEF SendHeaderToProxyBlock
    <3> QED
      BY <2>2, <3>1 DEF FallThrough, Return
  <2>3. CASE Bad(p)
    BY <2>1, <2>3, RefusedFallsThrough
  <2> QED
    BY <1>2, <2>2, <2>3
<1>4. \A q \in asked : Ready(q) \/ Bad(q)
  <2> SUFFICES ASSUME NEW q \in asked PROVE Ready(q) \/ Bad(q)
    OBVIOUS
  <2>1. PICK p \in headed :
          IF p.status = "onwards" THEN q \in GetBodyOrNotBlock(p.session) ELSE q = p
    BY Zenon DEF Then
  <2>2. CASE Ready(p)
    <3>1. q = FallThrough(p.session)
      BY <2>1, <2>2 DEF GetBodyOrNotBlock
    <3> QED
      BY <2>2, <3>1 DEF FallThrough, Return
  <2>3. CASE Bad(p)
    BY <2>1, <2>3, RefusedFallsThrough
  <2> QED
    BY <1>3, <2>2, <2>3
<1>5. \A q \in replied : Ready(q) \/ Bad(q)
  <2> SUFFICES ASSUME NEW q \in replied PROVE Ready(q) \/ Bad(q)
    OBVIOUS
  <2>1. PICK p \in asked :
          IF p.status = "onwards" THEN q \in GetResponseBlock(p.session) ELSE q = p
    BY Zenon DEF Then
  <2>2. CASE Ready(p)
    <3>1. q = FallThrough(p.session)
      BY <2>1, <2>2 DEF GetResponseBlock
    <3> QED
      BY <2>2, <3>1 DEF FallThrough, Return
  <2>3. CASE Bad(p)
    BY <2>1, <2>3, RefusedFallsThrough
  <2> QED
    BY <1>4, <2>2, <2>3
<1>6. \A q \in header : \/ /\ q.status = "onwards" /\ q.session.kind = s.kind
                           /\ Prepared(q.session) /\ q.session.stage = "SEND_FILE"
                        \/ Bad(q)
  <2> SUFFICES ASSUME NEW q \in header
               PROVE  \/ /\ q.status = "onwards" /\ q.session.kind = s.kind
                         /\ Prepared(q.session) /\ q.session.stage = "SEND_FILE"
                      \/ Bad(q)
    OBVIOUS
  <2>1. PICK p \in replied :
          IF p.status = "onwards" THEN q \in SendHttpHeaderBlock(p.session) ELSE q = p
    BY Zenon DEF Then
  <2>2. CASE Ready(p)
    BY <2>1, <2>2, HeaderSent
  <2>3. CASE Bad(p)
    BY <2>1, <2>3, RefusedFallsThrough
  <2> QED
    BY <1>5, <2>2, <2>3
<1>7. \A q \in sent : (q.status = "CONNECTION_FINISHED" /\ Answered(q.session)) \/ Bad(q)
  <2> SUFFICES ASSUME NEW q \in sent
               PROVE  (q.status = "CONNECTION_FINISHED" /\ Answered(q.session)) \/ Bad(q)
    OBVIOUS
  <2>1. PICK p \in header :
          IF p.status = "onwards" THEN q \in SendFileBlock(p.session) ELSE q = p
    BY Zenon DEF Then
  <2>2. CASE Bad(p)
    BY <2>1, <2>2, RefusedFallsThrough
  <2>3. CASE ~Bad(p)
    <3>1. /\ p.status = "onwards" /\ p.session.kind = s.kind
          /\ Prepared(p.session) /\ p.session.stage = "SEND_FILE"
      BY <1>6, <2>3
    <3> QED
      BY <2>1, <3>1, FileSent
  <2> QED
    BY <2>2, <2>3
<1>8. s.stage # "ERROR_STAGE"
  BY DEF Fresh
<1>9. PICK q \in sent : IF q.status = "onwards" THEN r \in Processing(q.session) ELSE r = q
  BY <1>8, Zenon DEF connection_processing, Then
<1>10. CASE Bad(q)
  <2>1. r.session = q.session
    BY <1>9 DEF Return
  <2>2. r.status \in {"CONNECTION_PROCESSING", "CONNECTION_TIMEOUT_ERROR"}
    BY <1>9, <1>10 DEF Return, Refused
  <2> QED
    BY <1>10, <2>1, <2>2 DEF Refused
<1>11. CASE ~Bad(q)
  BY <1>7, <1>9, <1>11
<1> QED
  BY <1>10, <1>11
=============================================================================
