-------------------------- MODULE ClientConnection --------------------------
(***************************************************************************)
(* One client's connection: what ClientConnection::connection_processing() *)
(* does with it each time its worker has an event for it.                  *)
(*                                                                         *)
(* A session holds what the client has put on the wire, the object the     *)
(* worker keeps for it and what has been sent back.  The operators below   *)
(* carry the names of the member functions they stand for; each gives the  *)
(* SET of the outcomes the function may have, because reads of             *)
(* uninitialized variables (is_succeeded, write_result, is_something,      *)
(* timeout) and the behaviour of the peers are choices.                    *)
(*                                                                         *)
(* Data is counted, not spelt out: a request is LastSegment segments of    *)
(* input, whatever follows them is extra; a file is FileSize buffers of    *)
(* MAX_FILE_READ bytes, numbered from 1; a response header always fits the *)
(* socket buffer, of which Window buffers of file are free.                *)
(***************************************************************************)
EXTENDS Naturals, Sequences

CONSTANTS
  LastSegment,    \* segments of input that make a whole request
  FileSize,       \* buffers a file is read in
  Window          \* buffers a client's socket takes before write() gives EAGAIN

ASSUME LastSegmentAssumption == LastSegment \in Nat \ {0}
ASSUME FileSizeAssumption == FileSize \in Nat \ {0}
ASSUME WindowAssumption == Window \in Nat \ {0}

(***************************************************************************)
(* What a request asks for: a file that is there, one that is not, a       *)
(* directory (every "GET /"), an url that no location block matches, a     *)
(* request http_handler refuses (its version, or a method other than GET   *)
(* and HEAD), one whose first line does not parse, and a GET or a POST     *)
(* under a location with a proxy_path.                                     *)
(***************************************************************************)
RequestKind == {"file", "absent", "directory", "nowhere", "unsupported",
                "garbled", "proxied", "posted"}

connection_stages_t ==
  {"GET_REQUEST", "ROOT_FOUND", "ROOT_NOT_FOUND", "SEND_HTTP_HEADER_RESPONSE",
   "SEND_FILE", "BAD_REQUEST", "PASS_TO_PROXY", "SEND_HEADER_TO_PROXY",
   "GET_BODY_OR_NOT_FROM_CLIENT", "GET_RESPONSE_FROM_PROXY",
   "FAILED_TO_CONNECT", "PROXY_TIMEOUT", "ERROR_STAGE"}

ClosingStatus == {"CONNECTION_FINISHED", "CONNECTION_TIMEOUT_ERROR",
                  "ERROR_WHILE_CONNECTION_PROCESSING"}

CheckoutStatus == {"CHECKOUT_PROXY_FOR_READ", "CHECKOUT_PROXY_FOR_WRITE"}

connection_status_t ==
  ClosingStatus \union CheckoutStatus \union {"CONNECTION_PROCESSING", "uncaught"}

(***************************************************************************)
(* peer: the client's end, "away" before it connects, "open", "shut" once  *)
(* it will send nothing more, "gone" once it has closed.  sent, seen: the  *)
(* segments it sent and the ones read.  unread: buffers of the answer it   *)
(* has not read yet.  answer: the response header that was made.  file_fd: *)
(* what the descriptor stands for, "bad" is -1.  pos: buffers read from    *)
(* the file, got: buffers written to the client.  proxy_sock: "none" until *)
(* there is one, then "silent", "replied" or "shut", as the upstream is.   *)
(***************************************************************************)
Session ==
  [kind : RequestKind, peer : {"away", "open", "shut", "gone"},
   sent : Nat, seen : Nat, unread : Nat,
   stage : connection_stages_t, answer : {"none", "200", "404"},
   file_fd : {"none", "file", "directory", "page", "bad"},
   pos : Nat, got : Seq(Nat),
   proxy_sock : {"none", "silent", "replied", "shut"}]

NewSession(kind) ==
  [kind |-> kind, peer |-> "away", sent |-> 0, seen |-> 0, unread |-> 0,
   stage |-> "GET_REQUEST", answer |-> "none", file_fd |-> "none",
   pos |-> 0, got |-> <<>>, proxy_sock |-> "none"]

WholeRequest(s) == s.sent >= LastSegment

FileLength(s) == CASE s.file_fd = "file" -> FileSize
                   [] s.file_fd = "page" -> 1
                   [] OTHER -> 0

\* every buffer of the file, in order
WholeFile(s) == s.got = [i \in 1 .. FileLength(s) |-> i]

-----------------------------------------------------------------------------
(***************************************************************************)
(* The functions connection_processing() calls.  A result is the session   *)
(* it leaves, the value returned, and whether the member `timeout` has     *)
(* just been set from the clock.                                           *)
(***************************************************************************)
Result(s, ok, fresh) == [s |-> s, ok |-> ok, fresh |-> fresh]

(***************************************************************************)
(* `timeout` is not initialized, and the clock is the processor time of    *)
(* the worker: anything may come out, except right after it was set.       *)
(***************************************************************************)
is_timeout(r) == IF r.fresh THEN {FALSE} ELSE BOOLEAN

(***************************************************************************)
(* Whether a line read now throws.  A line of a garbled request does, one  *)
(* of those that make it whole.  What follows a whole request goes through *)
(* add_line like a header, and throws unless it is one, or an empty line,  *)
(* or no line yet.                                                         *)
(***************************************************************************)
add_line_throws(s) ==
  IF s.sent = s.seen THEN {FALSE}
  ELSE IF s.kind = "garbled" /\ WholeRequest(s) THEN {TRUE}
  ELSE IF s.kind = "garbled" \/ s.sent > LastSegment THEN BOOLEAN
  ELSE {FALSE}

\* whether the last read() gives -1 (EAGAIN, or ECONNRESET) and not 0
read_fails(s) ==
  CASE s.peer = "open" -> {TRUE}
    [] s.peer = "gone" -> BOOLEAN
    [] OTHER -> {FALSE}

(***************************************************************************)
(* Reads until read() has nothing more to give.  A whole request succeeds; *)
(* otherwise EAGAIN, -1 like any error, puts the connection into           *)
(* ERROR_STAGE, and the end of the input leaves it where it is.  When      *)
(* add_line throws, is_succeeded stays uninitialized.                      *)
(***************************************************************************)
get_request(s) ==
  LET t == [s EXCEPT !.seen = s.sent]
      Threw(ok) == Result([t EXCEPT !.stage = "BAD_REQUEST"], ok, FALSE)
      Ended(failed) ==
        IF WholeRequest(s) THEN Result(t, TRUE, FALSE)
        ELSE IF failed THEN Result([t EXCEPT !.stage = "ERROR_STAGE"], FALSE, FALSE)
        ELSE Result(t, FALSE, s.sent > s.seen)
  IN  UNION {IF throws THEN {Threw(ok) : ok \in BOOLEAN}
             ELSE {Ended(failed) : failed \in read_fails(s)}
             : throws \in add_line_throws(s)}

(***************************************************************************)
(* The location block an url leads to.  add_first_line keeps the url of a  *)
(* line before it finds the rest of it bad.                                *)
(***************************************************************************)
get_location(s) ==
  CASE s.kind = "nowhere" -> {"none"}
    [] s.kind \in {"proxied", "posted"}  -> {"proxy_path"}
    [] s.kind = "garbled" -> {"none", "proxy_path", "root"}
    [] OTHER -> {"root"}

process_location(s) ==
  {CASE location = "none" -> "ROOT_NOT_FOUND"
     [] location = "proxy_path" -> "PASS_TO_PROXY"
     [] location = "root" -> "ROOT_FOUND"
   : location \in get_location(s)}

\* Slip: the content type of a directory is an error, too
http_handler_throws_Directory(s) ==
  CASE s.kind \in {"unsupported", "directory"} -> {TRUE}
    [] s.kind = "garbled" -> BOOLEAN
    [] OTHER -> {FALSE}

\* whether http_handler throws; a request line that did not parse leaves the version unset
http_handler_throws(s) ==
  CASE s.kind = "unsupported" -> {TRUE}
    [] s.kind = "garbled" -> BOOLEAN
    [] OTHER -> {FALSE}

\* what an url leads to below the root of its location
FileAsked(s) ==
  CASE s.kind \in {"file", "directory"} -> {s.kind}
    [] s.kind = "garbled" -> {"file", "directory", "none"}
    [] OTHER -> {"none"}

(***************************************************************************)
(* The response header and the file behind it: 404.html when the file      *)
(* cannot be opened, nothing at all when that cannot be opened either.     *)
(* `spare`: the worker has a descriptor left for open().                   *)
(***************************************************************************)
make_response_header(s, spare) ==
  {IF s.stage = "ROOT_FOUND" /\ file # "none" /\ spare
     THEN [s EXCEPT !.answer = "200", !.file_fd = file]
     ELSE [s EXCEPT !.answer = "404", !.file_fd = IF spare THEN "page" ELSE "bad"]
   : file \in FileAsked(s)}

\* byte by byte; fails only when the other end has closed
send_header(s, closed) ==
  {Result(s, TRUE, FALSE)} \union
  {t \in {Result([s EXCEPT !.stage = "ERROR_STAGE"], FALSE, FALSE)} : closed}

(***************************************************************************)
(* Copies the file to the client until a read gives nothing or a write     *)
(* fails.  `write_result = write(...) > 0` stores 0 for a failed write, so *)
(* a failure is never seen as one: FALSE is returned, the buffer just read *)
(* from the file stays unsent, and the next call starts after it.  When    *)
(* the first read gives nothing, write_result is uninitialized: it may     *)
(* happen to be -1.                                                        *)
(***************************************************************************)
Buffers(s, n) == [i \in 1 .. n |-> s.pos + i]

Written(s, n) == [s EXCEPT !.got = s.got \o Buffers(s, n), !.unread = s.unread + n]

\* how many buffers the writes of one call may get through
BuffersTaken(s) ==
  LET room == Window - s.unread
      left == FileLength(s) - s.pos
      most == IF room < left THEN room ELSE left
  IN  IF s.peer = "gone" THEN 0 .. most ELSE {most}

\* Slip: `if` for `while`
send_file_Once(s) ==
  {Result([Written(s, n) EXCEPT !.pos = s.pos + n], n > 0, FALSE)
   : n \in {m \in BuffersTaken(s) \union {1} : m <= 1}}

\* Slip: after a write that gives up, the file is read from the same place again
send_file_Rereads(s) ==
  IF s.pos >= FileLength(s)
    THEN {Result(s, TRUE, FALSE)}
    ELSE {IF s.pos + n = FileLength(s)
            THEN Result([Written(s, n) EXCEPT !.pos = FileLength(s)], TRUE, FALSE)
            ELSE Result(Written(s, n), FALSE, n > 0)
          : n \in BuffersTaken(s)}

send_file(s) ==
  IF s.pos >= FileLength(s)
    THEN {Result([s EXCEPT !.stage = "ERROR_STAGE"], FALSE, FALSE),
          Result(s, s.file_fd \in {"file", "page"}, FALSE)}
    ELSE {IF s.pos + n = FileLength(s)
            THEN Result([Written(s, n) EXCEPT !.pos = FileLength(s)], TRUE, FALSE)
            ELSE Result([Written(s, n) EXCEPT !.pos = s.pos + n + 1], FALSE, n > 0)
          : n \in BuffersTaken(s)}

\* the call of connect() blocks; it works or it does not
connect_to_upstream(s, spare) ==
  {Result(s, FALSE, FALSE)} \union
  {t \in {Result([s EXCEPT !.proxy_sock = "silent"], ok, FALSE) : ok \in BOOLEAN} : spare}

(***************************************************************************)
(* Nothing to read yet is -1, an error.  A reply with a body may have a    *)
(* line without a colon: add_line throws and is_something stays            *)
(* uninitialized.  An upstream that closes without a reply gives 0, or -1  *)
(* if it resets the connection.                                            *)
(***************************************************************************)
get_proxy_header(s) ==
  CASE s.proxy_sock = "silent"  -> {Result([s EXCEPT !.stage = "ERROR_STAGE"], FALSE, FALSE)}
    [] s.proxy_sock = "replied" -> {Result(s, ok, FALSE) : ok \in BOOLEAN}
    [] OTHER -> {Result(s, FALSE, FALSE),
                 Result([s EXCEPT !.stage = "ERROR_STAGE"], FALSE, FALSE)}

-----------------------------------------------------------------------------
(***************************************************************************)
(* connection_processing(): one `if (stage == ...)` after the other.  Each *)
(* block returns a status or falls through to the next one.                *)
(***************************************************************************)
Return(s, status) == [session |-> s, status |-> status]

FallThrough(s) == Return(s, "onwards")

\* the tail of a block whose function gave FALSE
ReturnIfLate(r) ==
  {IF late THEN Return(r.s, "CONNECTION_TIMEOUT_ERROR") ELSE FallThrough(r.s)
   : late \in is_timeout(r)}

GetRequestBlock(s) ==
  IF s.stage # "GET_REQUEST" THEN {FallThrough(s)}
  ELSE UNION {IF r.ok
                THEN {FallThrough([r.s EXCEPT !.stage = stage]) : stage \in process_location(r.s)}
                ELSE ReturnIfLate(r)
              : r \in get_request(s)}

RootBlock(s, spare) ==
  IF s.stage \notin {"ROOT_FOUND", "ROOT_NOT_FOUND"} THEN {FallThrough(s)}
  ELSE UNION {IF throws THEN {Return(s, "uncaught")}
              ELSE {FallThrough([t EXCEPT !.stage = "SEND_HTTP_HEADER_RESPONSE"])
                    : t \in make_response_header(s, spare)}
              : throws \in http_handler_throws(s)}

PassToProxyBlock(s, spare) ==
  IF s.stage # "PASS_TO_PROXY" THEN {FallThrough(s)}
  ELSE {IF r.ok
          THEN Return([r.s EXCEPT !.stage = "SEND_HEADER_TO_PROXY"],
                      "CHECKOUT_PROXY_FOR_WRITE")
          ELSE FallThrough([r.s EXCEPT !.stage = "FAILED_TO_CONNECT"])
        : r \in connect_to_upstream(s, spare)}

\* a late answer only changes the stage here
StopWaiting(r) ==
  {FallThrough(IF late THEN [r.s EXCEPT !.stage = "PROXY_TIMEOUT"] ELSE r.s)
   : late \in is_timeout(r)}

SendHeaderToProxyBlock(s) ==
  IF s.stage # "SEND_HEADER_TO_PROXY" THEN {FallThrough(s)}
  ELSE UNION {IF r.ok
                THEN {FallThrough([r.s EXCEPT !.stage = "GET_BODY_OR_NOT_FROM_CLIENT"])}
                ELSE StopWaiting(r)
              : r \in send_header(s, s.proxy_sock = "shut")}

method_is_GET(s) ==
  CASE s.kind = "proxied" -> {TRUE}
    [] s.kind = "posted"  -> {FALSE}
    [] OTHER -> BOOLEAN

\* header names are kept in lower case, so "Content-Length" is not found and stoul("") throws
GetBodyOrNotBlock(s) ==
  IF s.stage # "GET_BODY_OR_NOT_FROM_CLIENT" THEN {FallThrough(s)}
  ELSE {IF get
          THEN Return([s EXCEPT !.stage = "GET_RESPONSE_FROM_PROXY"], "CHECKOUT_PROXY_FOR_READ")
          ELSE Return(s, "uncaught")
        : get \in method_is_GET(s)}

GetResponseBlock(s) ==
  IF s.stage # "GET_RESPONSE_FROM_PROXY" THEN {FallThrough(s)}
  ELSE UNION {IF r.ok THEN {Return(r.s, "uncaught")} ELSE StopWaiting(r)
              : r \in get_proxy_header(s)}

SendHttpHeaderBlock(s) ==
  IF s.stage # "SEND_HTTP_HEADER_RESPONSE" THEN {FallThrough(s)}
  ELSE UNION {IF r.ok
                THEN {FallThrough([r.s EXCEPT !.stage = "SEND_FILE"])}
                ELSE ReturnIfLate(r)
              : r \in send_header(s, s.peer = "gone")}

SendFileBlock(s) ==
  IF s.stage # "SEND_FILE" THEN {FallThrough(s)}
  ELSE UNION {IF r.ok
                THEN {Return(r.s, "CONNECTION_FINISHED")}
                ELSE ReturnIfLate(r)
              : r \in send_file(s)}

\* the results of a block, and of the next one where it fell through
Then(results, Block(_)) ==
  UNION {IF r.status = "onwards" THEN Block(r.session) ELSE {r} : r \in results}

connection_processing(s, spare) ==
  IF s.stage = "ERROR_STAGE"
    THEN {Return(s, "ERROR_WHILE_CONNECTION_PROCESSING")}
    ELSE LET Root(t) == RootBlock(t, spare)
             PassToProxy(t) == PassToProxyBlock(t, spare)
             answered == Then(Then(GetRequestBlock(s), Root), PassToProxy)
             asked == Then(Then(answered, SendHeaderToProxyBlock), GetBodyOrNotBlock)
             replied == Then(asked, GetResponseBlock)
             sent == Then(Then(replied, SendHttpHeaderBlock), SendFileBlock)
             Processing(t) == {Return(t, "CONNECTION_PROCESSING")}
         IN  Then(sent, Processing)
=============================================================================
