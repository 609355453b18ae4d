---------------------------- MODULE HttpExchange ----------------------------
(***************************************************************************)
(* One exchange of a connection, seen from its bytes: the lines get_request*)
(* reads in one call and HttpRequest makes of them, the location of the    *)
(* url, the header and the file make_response_header answers with, or the  *)
(* request passed on and the reply HttpResponse makes of an upstream's     *)
(* lines.  ClientConnection has the stages around it.                      *)
(*                                                                         *)
(* Files come and go while the header is made: the file is opened twice.   *)
(* A line is what is left up to and with '\n'; "lone" is "\n" itself, which*)
(* get_request keeps in line_, and get_proxy_header in upstream_buffer, and*)
(* puts before the next line.                                              *)
(***************************************************************************)
EXTENDS ServerSettings

CONSTANTS
  Configs,        \* the lists of locations of the servers
  Listed,         \* the locations a file may list
  MaxListed,      \* bound: how many of them get_location is checked with
  Lines,          \* what a client may send
  Replies,        \* what an upstream may send
  FileSystems,    \* the sizes of what the paths may lead to
  types,          \* the extensions with a content type
  LowerCase,      \* names in lower case, where they are not
  MaxLines,       \* bound: lines of a request
  MaxReplyLines,  \* bound: lines of a reply
  MaxChanges      \* bound: files that change during an exchange

\* the versions that matter: any other is like 2.0
AnyVersion == {"1.0", "1.1", "2.0"}

\* the url of a location has a '/' in it, and no location is kept without a root
ASSUME ListedAssumption ==
  /\ \A config \in Configs : config \in Seq(Listed)
  /\ \A l \in Listed : /\ l.type \in location_type_t
                       /\ {l.location.url, l.location.root} \subseteq Seq(STRING) \ {<<>>}

ASSUME LinesAssumption ==
  /\ \A l \in Lines :
       /\ l.t \in {"request", "unversioned", "one_space", "word", "header", "blank", "short",
                   "lone"}
       /\ l.t \in {"request", "unversioned"} => l.url \in Seq(STRING)
       /\ l.t = "request" => l.version \in AnyVersion
  /\ \A l \in Replies : l.t \in {"status", "header", "word", "blank", "lone"}
  /\ \A name \in DOMAIN LowerCase : LowerCase[name] \notin DOMAIN LowerCase
  /\ "Content-Length" \in DOMAIN LowerCase

ASSUME BoundsAssumption == {MaxLines, MaxReplyLines, MaxChanges} \subseteq Nat

VARIABLES
  server,     \* the ServerSettings
  files,      \* the size of what a path leads to, a file or a directory
  stage,      \* of the connection; "uncaught" when an exception ends the worker
  pc,         \* the function that is running, "done" after connection_processing
  line_,      \* whether it holds a lone "\n" of the client
  upstream_buffer,    \* whether it holds a lone "\n" of the upstream
  request_, response_,
  location_,
  file_fd,    \* the file the answer is read from: its path, PAGE_404 or None
  sent, replied, changes   \* history

vars == <<server, files, stage, pc, line_, upstream_buffer, request_, response_, location_,
          file_fd, sent, replied, changes>>

\* Slip: names are kept as they are sent
string_to_lower_Kept(name) == name

string_to_lower(name) == IF name \in DOMAIN LowerCase THEN LowerCase[name] ELSE name

None == <<>>
PAGE_404 == <<"404.html">>
NoSize == -2

\* the version members have no initializer
Versions == {"1.1", "2.0"}

NewRequest(garbage) ==
  [method |-> <<>>, url |-> <<>>, version |-> garbage, headers |-> <<>>,
   first_line_added |-> FALSE, headers_read |-> FALSE, ended |-> FALSE]

NewResponse ==
  [status |-> 0, message |-> "", headers |-> <<>>, content_length |-> NoSize,
   first_line_added |-> FALSE, headers_read |-> FALSE, ended |-> FALSE]

Configured(config) ==
  FoldLeft(LAMBDA s, l : add_location(s, l.type, l.location), NewServer, config)

Init ==
  /\ \E config \in Configs : server = Configured(config)
  /\ files \in FileSystems
  /\ stage = "GET_REQUEST" /\ pc = "get_request"
  /\ line_ = FALSE /\ upstream_buffer = FALSE
  /\ \E garbage \in Versions : request_ = NewRequest(garbage)
  /\ response_ = NewResponse
  /\ location_ = NoLocation
  /\ file_fd = None
  /\ sent = <<>> /\ replied = <<>> /\ changes = 0

-----------------------------------------------------------------------------
(***************************************************************************)
(* HttpRequest and HttpResponse: a line is added, or throws.  `lf`: the    *)
(* line begins with a lone "\n".                                           *)
(***************************************************************************)
Added(message) == [message |-> message, throws |-> FALSE]
Thrown(message) == [message |-> message, throws |-> TRUE]

\* the method and the url are kept before the rest of the line is looked at
request_add_first_line(r, line, lf) ==
  LET word == IF line.t = "header" THEN line.name ELSE line.method
      method == IF lf THEN <<"\n", word>> ELSE <<word>>
  IN  CASE line.t = "request" ->
             Added([r EXCEPT !.method = method, !.url = line.url, !.version = line.version,
                             !.first_line_added = TRUE])
        [] line.t = "unversioned" -> Thrown([r EXCEPT !.method = method, !.url = line.url])
        [] line.t \in {"one_space", "header"} -> Thrown([r EXCEPT !.method = method])
        [] OTHER -> Thrown(r)

\* a line that begins with "\n" ends the headers, and is not looked at
add_header(m, line, lf, value) ==
  CASE lf -> Added([m EXCEPT !.headers_read = TRUE])
    [] ~lf /\ line.t = "header" ->
         Added([m EXCEPT !.headers = Put(@, string_to_lower(line.name), value)])
    [] OTHER -> Thrown(m)

\* Slip: the first line is read again and again
request_add_line_FirstAgain(r, line, lf) ==
  CASE line.t = "blank" \/ (line.t = "short" /\ ~lf) -> Added([r EXCEPT !.ended = TRUE])
    [] line.t = "request" -> request_add_first_line(r, line, lf)
    [] OTHER -> add_header(r, line, lf, string_to_lower(line.value))

\* an empty line, or three characters of which the second or the first is '\r'
request_add_line(r, line, lf) ==
  LET empty == line.t = "blank" \/ (line.t = "short" /\ ~lf)
  IN  CASE empty \/ (r.first_line_added /\ r.headers_read) -> Added([r EXCEPT !.ended = TRUE])
        [] ~empty /\ ~r.first_line_added -> request_add_first_line(r, line, lf)
        [] OTHER -> add_header(r, line, lf, string_to_lower(line.value))

\* the message is what is behind the last space
response_add_first_line(r, line, lf) ==
  IF line.t = "status" /\ ~lf
    THEN Added([r EXCEPT !.status = line.status, !.message = Last(line.message),
                         !.first_line_added = TRUE])
    ELSE Thrown(r)

\* Slip: values are made lower case, like a request's
response_add_line_LowerCase(r, line, lf) ==
  CASE line.t = "blank" /\ ~lf -> Added([r EXCEPT !.ended = TRUE])
    [] ~r.first_line_added -> response_add_first_line(r, line, lf)
    [] OTHER -> add_header(r, line, lf, string_to_lower(line.value))

response_add_line(r, line, lf) ==
  CASE line.t = "blank" /\ ~lf -> Added([r EXCEPT !.ended = TRUE])
    [] ~(line.t = "blank" /\ ~lf) /\ ~r.first_line_added -> response_add_first_line(r, line, lf)
    [] ~(line.t = "blank" /\ ~lf) /\ r.first_line_added /\ ~r.headers_read ->
         add_header(r, line, lf, line.value)
    [] OTHER -> Added(r)

-----------------------------------------------------------------------------
(***************************************************************************)
(* get_request(), and process_location() when it is through.               *)
(***************************************************************************)
process_location(url) ==
  LET found == get_location(server, url)
  IN  /\ location_' = found
      /\ CASE found = NoLocation -> stage' = "ROOT_NOT_FOUND" /\ pc' = "page"
           [] found # NoLocation /\ server.locations[found.type][found.place].is_proxy ->
                stage' = "PASS_TO_PROXY" /\ pc' = "connect_to_upstream"
           [] OTHER -> stage' = "ROOT_FOUND" /\ pc' = "header"

Stay(s) == stage' = s /\ pc' = "done" /\ UNCHANGED location_

\* "\n" alone stays in line_, unless it is the second one
ReadLine ==
  /\ pc = "get_request"
  /\ Len(sent) < MaxLines
  /\ \E line \in Lines :
       /\ sent' = Append(sent, line)
       /\ \/ /\ line.t = "lone" /\ ~line_
             /\ line_' = TRUE
             /\ UNCHANGED <<stage, pc, request_, location_>>
          \/ /\ line.t # "lone" \/ line_
             /\ line_' = FALSE
             /\ LET r == request_add_line(request_, line, line_)
                IN  /\ request_' = r.message
                    /\ \/ ~r.throws /\ UNCHANGED <<stage, pc, location_>>
                       \* is_succeeded is not initialized
                       \/ r.throws /\ Stay("BAD_REQUEST")
                       \/ r.throws /\ process_location(r.message.url)
  /\ UNCHANGED <<server, files, upstream_buffer, response_, file_fd, replied, changes>>

\* read() gives no more: -1, or 0 from a client that has shut down its output
EndOfRequest ==
  /\ pc = "get_request"
  /\ \/ request_.ended /\ process_location(request_.url)
     \/ ~request_.ended /\ Stay("ERROR_STAGE")
     \/ ~request_.ended /\ Stay("GET_REQUEST")
  /\ UNCHANGED <<server, files, line_, upstream_buffer, request_, response_, file_fd, sent,
                 replied, changes>>

-----------------------------------------------------------------------------
(***************************************************************************)
(* make_response_header(): http_handler opens the file and closes it; the  *)
(* file that is sent is opened once more; if it is gone the answer is made *)
(* again, for the 404 page.                                                *)
(***************************************************************************)
Path == server.locations[location_.type][location_.place].root \o request_.url

Size(path) == IF path \in DOMAIN files THEN files[path] ELSE NoSize

get_content_type_throws(url) ==
  LET dot == SelectLastInSeq(url, LAMBDA c : c = ".")
      slash == SelectLastInSeq(url, LAMBDA c : c = "/")
  IN  dot > slash /\ SubSeq(url, dot + 1, Len(url)) \notin types

Uncaught == stage' = "uncaught" /\ pc' = "done" /\ UNCHANGED response_

WrongVersion == request_.version \notin {"1.0", "1.1"}

Status(s, length) ==
  response_' = [NewResponse EXCEPT !.status = s, !.content_length = length]

\* the default page for "/" goes to a copy of the url
http_handler ==
  IF WrongVersion \/ request_.method \notin {<<"GET">>, <<"HEAD">>}
    THEN Uncaught
    ELSE /\ pc' = "open" /\ UNCHANGED stage
         /\ \/ Size(Path) = NoSize /\ Status(404, NoSize)
            \/ /\ Size(Path) # NoSize
               /\ IF get_content_type_throws(request_.url) THEN Status(415, NoSize)
                  ELSE Status(200, Size(Path))

MakeHeader ==
  /\ pc = "header"
  /\ http_handler
  /\ UNCHANGED <<server, files, line_, upstream_buffer, request_, location_, file_fd, sent,
                 replied, changes>>

\* Slip: the 404 page goes with the header made for the file
OpenFile_KeepsHeader ==
  /\ pc = "open"
  /\ pc' = "done" /\ stage' = "SEND_HTTP_HEADER_RESPONSE"
  /\ file_fd' = IF Size(Path) = NoSize THEN PAGE_404 ELSE Path
  /\ line_' = FALSE
  /\ UNCHANGED <<server, files, upstream_buffer, request_, response_, location_, sent, replied,
                 changes>>

OpenFile ==
  /\ pc = "open"
  /\ \/ /\ Size(Path) = NoSize
        /\ stage' = "ROOT_NOT_FOUND" /\ pc' = "page"
        /\ UNCHANGED <<file_fd, line_>>
     \/ /\ Size(Path) # NoSize
        /\ file_fd' = Path
        /\ stage' = "SEND_HTTP_HEADER_RESPONSE" /\ pc' = "done"
        /\ line_' = FALSE
  /\ UNCHANGED <<server, files, upstream_buffer, request_, response_, location_, sent, replied,
                 changes>>

Page ==
  /\ pc = "page"
  /\ file_fd' = PAGE_404
  /\ \/ /\ WrongVersion
        /\ Uncaught
        /\ UNCHANGED line_
     \/ /\ ~WrongVersion
        /\ Status(404, NoSize)
        /\ stage' = "SEND_HTTP_HEADER_RESPONSE" /\ pc' = "done"
        /\ line_' = FALSE
  /\ UNCHANGED <<server, files, upstream_buffer, request_, location_, sent, replied, changes>>

-----------------------------------------------------------------------------
(***************************************************************************)
(* The request is passed on, and the reply read, if the upstream is there. *)
(* The length of a body is looked up under "Content-Length".               *)
(***************************************************************************)
stoul_throws(headers) == "Content-Length" \notin DOMAIN headers

PassToProxy ==
  /\ pc = "connect_to_upstream"
  /\ \/ stage' = "FAILED_TO_CONNECT" /\ pc' = "done"
     \/ /\ request_.method = <<"GET">>
        /\ stage' = "GET_RESPONSE_FROM_PROXY" /\ pc' = "get_proxy_header"
     \/ /\ request_.method # <<"GET">>
        /\ stage' = IF stoul_throws(request_.headers) THEN "uncaught" ELSE "GET_BODY_FROM_CLIENT"
        /\ pc' = "done"
  /\ UNCHANGED <<server, files, line_, upstream_buffer, request_, response_, location_, file_fd,
                 sent, replied, changes>>

PassReply(response) ==
  /\ stage' = IF stoul_throws(response.headers) THEN "uncaught"
              ELSE "SEND_PROXY_RESPONSE_TO_CLIENT"
  /\ pc' = "done"

ReadReplyLine ==
  /\ pc = "get_proxy_header"
  /\ Len(replied) < MaxReplyLines
  /\ \E line \in Replies :
       /\ replied' = Append(replied, line)
       /\ \/ /\ line.t = "lone" /\ ~upstream_buffer
             /\ upstream_buffer' = TRUE
             /\ UNCHANGED <<stage, pc, response_>>
          \/ /\ line.t # "lone" \/ upstream_buffer
             /\ upstream_buffer' = FALSE
             /\ LET r == response_add_line(response_, line, upstream_buffer)
                IN  /\ response_' = r.message
                    /\ \/ ~r.throws /\ UNCHANGED <<stage, pc>>
                       \* is_something is not initialized
                       \/ r.throws /\ PassReply(r.message)
                       \/ r.throws /\ pc' = "done" /\ UNCHANGED stage
  /\ UNCHANGED <<server, files, line_, request_, location_, file_fd, sent, changes>>

EndOfReply ==
  /\ pc = "get_proxy_header"
  /\ \/ response_.ended /\ PassReply(response_)
     \/ ~response_.ended /\ stage' = "ERROR_STAGE" /\ pc' = "done"
     \/ ~response_.ended /\ pc' = "done" /\ UNCHANGED stage
  /\ UNCHANGED <<server, files, line_, upstream_buffer, request_, response_, location_, file_fd,
                 sent, replied, changes>>

\* somebody writes, adds or removes a file
ChangeFile ==
  /\ pc \in {"header", "open"}
  /\ changes < MaxChanges
  /\ changes' = changes + 1
  /\ files' \in FileSystems \ {files}
  /\ UNCHANGED <<server, stage, pc, line_, upstream_buffer, request_, response_, location_,
                 file_fd, sent, replied>>

Next ==
  \/ ReadLine \/ EndOfRequest
  \/ MakeHeader \/ OpenFile \/ Page
  \/ PassToProxy \/ ReadReplyLine \/ EndOfReply
  \/ ChangeFile

Spec == Init /\ [][Next]_vars

-----------------------------------------------------------------------------
Stages == {"GET_REQUEST", "BAD_REQUEST", "ERROR_STAGE", "ROOT_FOUND", "ROOT_NOT_FOUND",
           "PASS_TO_PROXY", "FAILED_TO_CONNECT", "GET_RESPONSE_FROM_PROXY",
           "GET_BODY_FROM_CLIENT", "SEND_PROXY_RESPONSE_TO_CLIENT",
           "SEND_HTTP_HEADER_RESPONSE", "uncaught"}

\* Header tables have one entry for a name, however it was written.
TypeOK ==
  /\ stage \in Stages
  /\ pc \in {"get_request", "header", "open", "page", "connect_to_upstream",
             "get_proxy_header", "done"}
  /\ files \in FileSystems /\ {line_, upstream_buffer} \subseteq BOOLEAN
  /\ request_.version \in AnyVersion
  /\ \A m \in {request_, response_} : DOMAIN m.headers \cap DOMAIN LowerCase = {}
  /\ response_.status \in {0, 200, 404, 415}
                         \union {l.status : l \in {r \in Replies : r.t = "status"}}
  /\ location_.type \in location_type_t \union {"none"}

(***************************************************************************)
(* The location of an url: an exact match comes before a preferential      *)
(* prefix, that before a pattern, that before a prefix, and among those of *)
(* a kind the one listed first (the longest prefix has no advantage).  A   *)
(* pattern that does not compile hides all that comes after it.  Said of   *)
(* every list of locations, where an exchange begins.                      *)
(***************************************************************************)
LocationIsTheFirstFit ==
  pc = "get_request" /\ sent = <<>> =>
  \A config \in SeqOf(Listed, MaxListed), url \in Urls :
    LET Rank(i) == CASE config[i].type = "EXACT_MATCH" -> 1
                     [] config[i].type = "PREFERENTIAL_PREFIX" -> 2
                     [] config[i].type = "REGEX_MATCH" -> 3
                     [] config[i].type = "PREFIX_MATCH" -> 4
        IsBad(i) == Rank(i) = 3 /\ config[i].location.url \in BadPatterns
        fitting == {i \in DOMAIN config :
                      IsBad(i) \/ Matches(config[i].type, url, config[i].location)}
        first == CHOOSE i \in fitting :
                   \A j \in fitting \ {i} : Rank(i) < Rank(j) \/ (Rank(i) = Rank(j) /\ i < j)
    IN  get_location(Configured(config), url) =
          IF fitting = {} \/ IsBad(first) THEN NoLocation
          ELSE [type |-> config[first].type,
                place |-> Cardinality({i \in 1 .. first : config[i].type = config[first].type})]

\* the first k lines are a request, with nothing before it
OrderlyHead(k) ==
  /\ k > 1 /\ sent[1].t = "request"
  /\ \A i \in 2 .. k - 1 : sent[i].t = "header"
  /\ sent[k].t \in {"blank", "short"}

AsItIs(value) == value

HeadersSent(lines, Value(_)) ==
  FoldLeft(LAMBDA table, l : Put(table, string_to_lower(l.name), Value(l.value)), <<>>, lines)

Answered(status, length, file) ==
  /\ stage = "SEND_HTTP_HEADER_RESPONSE"
  /\ response_.status = status /\ response_.content_length = length /\ file_fd = file

(***************************************************************************)
(* What is passed on has every header of the request, whose lines end at   *)
(* the k-th, and any other header, or value, comes from a line behind it.  *)
(***************************************************************************)
HeadersPassed(k) ==
  LET own == HeadersSent(SubSeq(sent, 2, k - 1), string_to_lower)
  IN  /\ DOMAIN own \subseteq DOMAIN request_.headers
      /\ \A name \in DOMAIN request_.headers :
           \/ name \in DOMAIN own /\ request_.headers[name] = own[name]
           \/ \E i \in k + 1 .. Len(sent) :
                /\ sent[i].t = "header" /\ string_to_lower(sent[i].name) = name
                /\ request_.headers[name] = string_to_lower(sent[i].value)

(***************************************************************************)
(* What follows a request, a body or another request, never changes its    *)
(* method, its url or its version.  If no line of it throws (BAD_REQUEST), *)
(* the request gets the file it asks for, or the 404 page; or it is passed *)
(* on, with its headers, which only header lines behind it add to or       *)
(* change.  The worker ends only over a version that it does not know or,  *)
(* for a file, a method that is not GET or HEAD; and under a proxy_path,   *)
(* over a method that is not GET, or over lines of the upstream's reply.   *)
(***************************************************************************)
AnswersTheFirstRequest ==
  \A k \in DOMAIN sent :
    OrderlyHead(k) /\ pc = "done" /\ changes = 0 =>
      LET first == sent[1]
          found == get_location(server, first.url)
          location == server.locations[found.type][found.place]
          path == location.root \o first.url
          ofVersion == first.version \in {"1.0", "1.1"}
          isFile == ofVersion /\ first.method \in {"GET", "HEAD"}
          unknown == \E i \in DOMAIN first.url :
                       /\ first.url[i] = "."
                       /\ \A j \in i + 1 .. Len(first.url) : first.url[j] \notin {".", "/"}
                       /\ SubSeq(first.url, i + 1, Len(first.url)) \notin types
      IN  \/ stage = "BAD_REQUEST" /\ k < Len(sent)
          \/ found = NoLocation /\ ~ofVersion /\ stage = "uncaught"
          \/ found = NoLocation /\ ofVersion /\ Answered(404, NoSize, PAGE_404)
          \/ /\ found # NoLocation /\ location.is_proxy
             /\ request_.method = <<first.method>> /\ request_.url = first.url
             /\ request_.version = first.version
             /\ HeadersPassed(k)
             /\ \/ stage = "FAILED_TO_CONNECT"
                \/ first.method = "GET" /\ stage \in {"GET_RESPONSE_FROM_PROXY", "ERROR_STAGE"}
                \/ stage = "uncaught" /\ (first.method = "GET" => replied # <<>>)
          \/ /\ found # NoLocation /\ ~location.is_proxy
             /\ \/ ~isFile /\ stage = "uncaught"
                \/ isFile /\ Size(path) = NoSize /\ Answered(404, NoSize, PAGE_404)
                \/ /\ isFile /\ Size(path) # NoSize
                   /\ IF unknown THEN Answered(415, NoSize, path)
                      ELSE Answered(200, Size(path), path)

(***************************************************************************)
(* Files may change between the open() of http_handler and the next one:   *)
(* still the 404 page goes with a 404 header and no length, and a file     *)
(* goes with one only if it has just appeared.  A header of 200 has the    *)
(* length of the file that goes with it, unless the file has changed.      *)
(***************************************************************************)
HeaderGoesWithTheFile ==
  stage = "SEND_HTTP_HEADER_RESPONSE" =>
    /\ file_fd = PAGE_404 => response_.status = 404 /\ response_.content_length = NoSize
    /\ file_fd # PAGE_404 =>
         /\ file_fd = Path
         /\ response_.status = 404 => changes > 0
         /\ response_.status = 200 => changes > 0 \/ response_.content_length = Size(Path)

(***************************************************************************)
(* The reply of an upstream is kept as it was sent: its status and its     *)
(* headers, the values in their own case and only the names in lower case. *)
(***************************************************************************)
RepliesAreKept ==
  \A k \in DOMAIN replied :
    /\ k = Len(replied) /\ k > 1 /\ pc = "done"
    /\ replied[1].t = "status" /\ replied[k].t = "blank"
    /\ \A i \in 2 .. k - 1 : replied[i].t = "header"
    => /\ response_.ended
       /\ response_.status = replied[1].status
       /\ response_.headers = HeadersSent(SubSeq(replied, 2, k - 1), AsItIs)
=============================================================================
