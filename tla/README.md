# A verification project for mohican

mohican is a pre-forking web server in C++. A *master* process forks *workers*
that share one listening socket; each worker runs an epoll loop. The script
`mohican.sh` controls the server with UNIX signals sent to the process the first
line of `pid_file.txt` names. A reload makes the master fork a *new master*,
which forks its own workers and then stops the old one.

Paths below are relative to `src/`.

## 1. The system

| Component | Where | State | Operations |
|---|---|---|---|
| Master process | `project/server` | flags set by handlers (`process_soft_stop`, ... , `has_old_master_stopped`, `new_master_pid`), `old_/new_master_process`, `workers_pid`, count of workflows | `server_start`, `daemonize`, `add_work_processes`, `fill_pid_file`, main loop, `server_stop`, `server_reload`, `apply_config`, handlers |
| Command line tool | `mohican.sh` | `pid_file.txt` | start, stop, reload, status, build, help, create config |
| Worker process | `project/workers/worker_process.*` | stop flags, epoll instance, batch of events, live connections | `run`: accept, client event, drain; handlers |
| Client connection | `project/workers/client_connection.*` | `stage`, request, response, `file_fd`, upstream socket, `timeout` | `connection_processing` and the functions it calls |
| HTTP messages | `project/http` | what has been read of a message, its header table | `add_line` of request and response, `http_handler` |
| Configuration parser | `project/config` | stage of the table, `is_server_adding`, the settings being built | `parse_config`, `parse_location`, `parse_upstreams`, `set_property` |
| Location matching | `project/config/src/server_settings.cpp` | four lists of locations | `get_location` |
| Upstream balancing | `balancing_to_add.cpp` | none | a draft no build file compiles |
| Logs, statistics | `project/logs`, `statistics.py` | none | output only |

**How they interact.** Operator → master, and master → master: signals (SIGHUP
soft stop, SIGINT hard stop, SIGPIPE soft reload, SIGALRM hard reload, SIGCHLD
"the old master has ended"). Master → worker: SIGHUP and SIGINT. Kernel →
master: SIGCHLD of every child. fork copies the memory and the handlers of a
process. A master parses the configuration file when it starts and when it
reloads; a worker gets the settings as a copy, and asks them for the location of
every request. The workers of a master, and while a reload is on the workers of two,
race for clients on one listening socket. A worker and its clients, and a worker
and an upstream, interact by sockets and epoll events.

**What is hard in it.**

* Signals that overwrite one another's flags; a flag tested, then a call that
  blocks; the same SIGCHLD sent by the kernel and by the old master.
* Forked copies of flags, of `workers_pid` and of handlers.
* Reloads that overlap one another or a stop; a failure half way through one.
* Several workers woken for one client, on a blocking listening socket.
* Edge-triggered events that are told once; events that outlive the object they
  point to; a stop in the middle of a batch.
* Uninitialized results; exceptions that end a worker with all its clients.
* A parser that is a table, a flag and two nested loops: what it takes for a name,
  a value or a brace depends on all three.
* Lines that come after the end of a request, without its beginning, or with a
  lone line feed; a file that changes between the two times it is opened.

**What makes each component correct.**

* Master: a server nobody stopped always has a serving worker; a master stops
  its own workers only; the pid file leads a command to a master; a reload
  waits for the old master; stops and reloads end.
* Worker: no client is forgotten or served twice; no event outlives its
  connection; stops interrupt or serve as documented; whole requests are
  answered; only requests it cannot serve kill it.
* Connection: it is closed when, and only when, it has been answered in full.
* Parser: the settings, locations and upstreams are those the text spells out,
  every brace closes the block it belongs to, or there is an error.
* Matching: the location is the one the order of kinds, and the order of the
  file, promise.
* HTTP messages: the first request of a stream is the one that is answered; the
  header belongs to the file it goes with; a message's headers are kept.

## 2. The modules

| Module | Models | Composes |
|---|---|---|
| `MohicanServer` | the life cycle: `mohican_server.cpp`, the commands of `mohican.sh`, a worker as far as the life cycle sees it | |
| `MohicanServer_proofs` | `Spec => []TypeOK` | extends `MohicanServer` |
| `Service` | the abstract specification: a server of generations of workers | instantiated by `MohicanServer` |
| `MohicanService_proofs` | the service invariant and what follows; the pid file | extends `MohicanServer_proofs` |
| `MohicanCommands_proofs` | commands that wait for one another: the phases, what follows, and the refinement of `Service` | extends `MohicanService_proofs` |
| `ClientConnection` | `connection_processing()` as operators: a session, and the set of its possible results | |
| `WorkerProcess` | `run()` of several workers, the clients, the upstreams, the accept backlog, epoll | extends `ClientConnection` |
| `MCWorkerProcess` | symmetry of workers and clients for TLC | extends `WorkerProcess` |
| `ClientQueue` | the abstract specification: one queue of clients | instantiated by `WorkerProcess` |
| `ServerSettings` | `ServerSettings` and `UpstreamSettings`: properties, upstreams, the lists of locations, `get_location` | |
| `ConfigParser` | `parse_config()` over every file of small blocks | extends `ServerSettings` |
| `HttpExchange` | one exchange, seen from its lines: the request, its location, the header and file it is answered with, or the reply of an upstream | extends `ServerSettings` |
| `MCConfigParser`, `MCHttpExchange` | small files, locations, lines and file systems for TLC | extend the module they are named for |
| `ClientConnection_proofs` | what one call of `connection_processing` can do to a session | extends `ClientConnection` |
| `WorkerProcess_proofs` | the invariant of all workers, what follows, the refinement of `ClientQueue`, and that a closed connection has been answered | extends `WorkerProcess`, `ClientConnection_proofs` |
| `ConfigParser_proofs` | the parser's invariants, for files of any length | extends `ConfigParser` |
| `HttpExchange_proofs` | the first fit, and the invariant of an exchange | extends `HttpExchange` |
| `FoldLemmas` | what `FoldLeft` computes, for any operator | instantiated by the proofs of the parser and of the exchange |

### MohicanServer

`pc[p]` is where process `p` is, `mem[p]` its copy of the globals and members,
`handlers[p]` whose signal handlers it has. One action per step another process
can see: each test of a flag in the main loop, each fork, each `kill`, each
`waitpid`, each write of the pid file. `Signal`, `Fork` and `ProcessExit` stand
for the kernel. The flags keep the code's values: `process_soft_reload` is 0, 1
(asked for) or 2 (this master is being replaced).

Abstractions:

* A signal is delivered as it is sent. Its handler only sets flags, so only the
  moment of the flag matters; signals of one kind coalesce in the flag.
* Process identifiers are not reused, and the pid file is written in one step.
* `daemonize(START_SERVER)` with its launcher is one step, and so are
  `process_setup_signals` and a worker's `setup_sighandlers`.
* A worker's location "epoll_wait" stands for the blocking `accept`, too; the
  drain of a soft stop is part of its exit.
* The configuration is `count_workflows`; "config" is the failure to parse it.
* A worker never reads the master's flags, so it starts with fresh memory.

`Service` says what an operator who lets every command settle is promised, without
processes, forks, flags or signals: generations of workers, of which the pid file
names one. A reload opens the next generation beside the one that serves, names it,
closes the one before and is over when the new one serves alone; a stop closes the
one there is. `MohicanServer` implements it under the conditions of
`MohicanServer_patient`, with the masters that have a serving worker in the place of
`serving`, the first line of the pid file in that of `named`, and the flags of the
master it names in that of `asked` (`CommandOf`). All other steps of masters and
workers must be none of the abstract server: a worker that is told too early, a stop
that ends while somebody serves, or a reload that ends with both generations, would
show.

### ClientConnection and WorkerProcess

`conn[c]` is a client's session: what it asked for, what is on the wire, the
object's `stage`, `file_fd`, upstream socket and what was sent back. The results
of a function are a *set*: reads of uninitialized variables (`is_succeeded`,
`write_result`, `is_something`, `timeout`) and the clock are choices. A block of
`connection_processing` is an operator that returns a status or falls through.

`WorkerProcess` adds `backlog`, `owner`, the registration of a connection in
its worker's epoll instance (`watch`), edges not told yet (`edge`) and the
events `epoll_wait` gave and nobody has looked at (`batch`). The listening
socket is level-triggered and blocking; a client's is edge-triggered; an
upstream's stays registered for output, since the second `EPOLL_CTL_ADD` fails.

Abstractions:

* `connection_processing()` is one step: nothing else in the process runs then.
  `connect()` to an upstream succeeds or fails at once.
* What is read behind the end of a request is one more segment. Whether a line of
  it throws, as one without a colon does, is a choice (`add_line_throws`). A
  "garbled" request is one whose first line throws; its url may have been kept, so
  that it may be served, or passed on, all the same (`get_location`).
* The last `read()` of a client that is gone gives 0 or ECONNRESET (`read_fails`).
* A response header always fits the socket; a buffer of file is written whole
  or not at all (a partial write loses the rest of a buffer in the same way).
* The processor time `is_timeout` compares is arbitrary.
* An event of a deleted connection crashes the worker, or acts on another live
  connection of that worker that was given its memory.
* `is_soft_reload` is left out: nobody sends SIGPOLL. The stages behind a reply
  of an upstream and behind a request's body are left out: an exception ends
  the worker before the code gets there (`HttpExchange` shows it: their tables
  never have the name that is looked up).

`ClientQueue` says what the workers promise together, without epoll, flags or
stages: one queue, the client that has waited longest is taken first, by a
running worker, which alone settles it, once; a worker that ends resets all it
holds at that moment. `WorkerProcess` implements it with `backlog`, `owner` and
`outcome` in the place of `waiting`, `holder` and `result`, and a worker that has
not ended as a running one. Every step of a worker must be one step of the queue
or none: an accept that also settles another client, an event of a deleted
connection that settles somebody else's client or a settled one again, or an end
that forgets a client, would show.

### ServerSettings and ConfigParser

The file is chosen while it is read, one *item* at a time. An item is what one
call of `get_lexem()` looks at: a keyword, a brace, an end of line, a name with
its colon, a name that ends its line ("bare"), a value with its semicolon; or
the head of a location up to its brace; or one upstream. `get_lexem` and the
table `stages` are the code's, and so is the list of names the current block
gives them. `pc` says which of the three loops reads, `state` and
`is_server_adding` are the variables of `parse_config()`, `location` those of
`parse_location()`. A parse ends "accepted", "invalid" (InvalidConfigException),
or "uncaught" (an exception of the library). `text` keeps what was read, for the
properties: they read it again by its braces alone, without table or flag.

Abstractions:

* Blanks and the characters of names are not modelled. A value is a
  name, and `Spelling` says what it is made of where the code looks at it: runs
  of digits, full stops, the rest. Values with a colon in them (whose lexeme is
  another one) and signed numbers are left out.
* A path is the sequence of the strings it was put together from; a pointer to an
  upstream is its key in the map. An url is spelt out in characters.
* The end of the file is an item nobody expects, and so is any text the current
  loop does not understand. A missing file is an empty one.

### HttpExchange

One call of `get_request` with all that `read` gives it, then the function the
location leads to. `request_` and `response_` are the objects, as far as lines
have been added to them; `line_` and `upstream_buffer` tell whether a lone "\n"
of the client, or of the upstream, is kept; `stage` is the connection's.
`MakeHeader`, `OpenFile` and `Page` are the steps of `make_response_header`,
apart because the file is opened twice and `ChangeFile` may come between.
`is_succeeded` and `is_something` are not initialized when a line throws: every
outcome is possible. So are both outcomes of a read that gives no more.

Abstractions: a line is a record of its words ("unversioned", "one_space" and
"word" are the ways a first line may be cut short, "short" is three characters
that are taken for the end); a header's value is a name; a file is its size; the
text of a header that is sent (dates, lengths, content types) is formatting.

## 3. The runs

| Run | Question | Bounds |
|---|---|---|
| `MohicanServer_overlap` | A reload overlapped by another reload, or by a stop, at any moment: is there always a serving worker, are only own workers stopped, are the flags well typed? | 3 commands, 1 worker per master, 8 processes |
| `MohicanServer_patient` | Commands one after the other: does the pid file describe the settled server and move on only, does a reload wait, is the whole one `Service`? | 3 commands, 1 or 2 workers, 11 processes |
| `MohicanServer_faults` | Each failure once: does the pid file ever lead to a worker, is the service kept through those it can survive? | 2 commands, 7 processes |
| `MohicanServer_live` | Do stops and reloads end, for commands that wait for one another, and is no worker left behind for good when the SIGCHLD of another one cuts short its master's wait? | 3 commands of 3 kinds, 2 workers per master, 11 processes |
| `WorkerProcess_serving` | Races for clients, stops of both kinds, clients that leave: nobody forgotten, answers whole, hard stop prompt, all workers one `ClientQueue` | 2 workers, 2 clients |
| `WorkerProcess_anything` | Every kind of request, in pieces, socket of one buffer, soft stop: events, deaths, order of the file | 1 worker, 2 clients, 3 descriptors |
| `WorkerProcess_answers` | Is every whole request answered, whatever is behind it and whoever wins the race for its client? | 2 workers, 2 clients, no stops |
| `ConfigParser_files` | Are the settings, locations and upstreams those the text spells out; do blocks nest? | 3 blocks inside http, 3 names or upstreams |
| `HttpExchange_lines` | Which location, which answer, which file, which headers? | 4 lines of a request (`GET /` and lines without a colon among them), 4 of a reply, 2 changes of files; lists of 3 locations |

**Why the bounds are enough.** The hazards of the life cycle need a master, its
successor, the successor's successor, and a stop: three commands and eight
processes (a reload with one worker creates three). Two workers are needed where
the order in which they end matters (`patient`) and where the end of one
interrupts the `waitpid` for the other (`live`): there a master does report its
end while a worker of its own is alive, which one worker per master cannot show.
Eleven processes are a start and two reloads with two workers each. `live` has a
soft stop and a hard reload only: the other two kinds are the same code with flags
of their own, and the safety runs have them.

In a worker, a race needs two workers and one client; a stale event or a lost
edge needs two clients of one worker; in `answers` two workers and two clients
let the loser of one race sleep in `accept` while it owns the other client.
Three descriptors are too few for two clients and their files: `open` fails,
too. (That `accept` itself fails needs a third client and is in the model only.)
Two buffers tell a whole file from a part; three show one lost in the middle.
`Waits` says how many of the operator's commands wait for a settled server: all
of them, all but the last (`overlap`), or none (`faults`, where commands reach a
server that is still starting).
`MaxPid` and `MaxCommands` bound the two counters of `MohicanServer`.
`CHECK_DEADLOCK FALSE` stands where the system may rest: the server is stopped,
the clients have nothing more to say, the file or the exchange is at its end.

A file with three blocks has a server block twice, a location in one of them or
upstreams between them: two blocks are needed for a flag that is not taken back,
a third for what follows. Three names are enough for one that is written twice
and one in between, or for a root before a location, in it and after it. The
values and addresses are the kinds `stoi` and `set_upstream_address` tell apart. In
`HttpExchange`, a request of three lines is the shortest with a header; the
fourth line is what comes behind its end, or before it. The 3.2 million states
of the run are these sequences of lines. `LocationIsTheFirstFit`
is about a function: it is evaluated for every list of up to three of seven
locations, of all four kinds and both cases and with a pattern that does not
compile, and for every url of `Urls`. Two changes of files let one come, and go
again, between the two times it is opened. `MaxBlocks`, `MaxItems`, `MaxLines`,
`MaxReplyLines`, `MaxChanges` and `MaxListed` are these bounds.

**Fairness.** `FairSpec` of both specifications assumes that the scheduler runs
every process that can run: weak fairness of all steps of a process together,
none of the operator, the clients, or failures. `FairTrafficSpec` adds that a
sleeping worker gets an event some day. It is an assumption on the clients, not
the code; `MohicanServer_quiet` shows what happens without it.

### Runs that show a disagreement

| Run | What happens | What is written |
|---|---|---|
| `MohicanServer_quiet` | a stop signal between a worker's flag test and `epoll_wait` (no timeout) is not noticed until a client comes | `.help/.stop.txt:17-18` |
| `WorkerProcess_soft_stop` | requests in hand are dropped by the `break`; the drain makes one pass | `.help/.stop.txt:16` |
| `ConfigParser_refused` | a port that is no number ends the parse in the middle, and what was read so far is accepted as the configuration | `parse_functions.cpp:428`, `server_settings.cpp:49` |

### Deviations the models contain and no run is devoted to

Life cycle and workers:

* A stop that overtakes a reload: the old master ends and the operator takes its
  end for the server's, but the new master stays (`mohican_server.cpp:305`;
  `.help/.stop.txt:17-18`). `OperatorStopEnds` is therefore about commands that
  wait for a settled server.
* SIGCHLD of one worker interrupts the `waitpid` for another, and the master
  reports its end before it (`mohican_server.cpp:302`; `.help/.reload.txt:19-20`).
  `WorkersEndWithTheirMaster` says what is left of the promise.
* A command that comes before the master has its handlers kills it
  (`mohican_server.cpp:182`), and a fork that fails leaves the workers forked
  before it (`mohican_server.cpp:143`): both leave workers that no later command
  reaches.
* The loser of a race for a client blocks in `accept` while its own clients wait
  (`worker_process.cpp:55`), and a line behind the end of a request that is read
  along with it and throws may leave the whole request in BAD_REQUEST, unanswered
  (`client_connection.cpp:45-56`). These are the two exceptions
  `RequestsAreAnswered` makes, the first only for a worker that stays in `accept`
  for good.
* A worker that crashed before a reload has set `has_old_master_stopped`; the new
  master inherits it and does not wait (`mohican_server.cpp:236`; the "crash"
  failure; `ReloadWaitsForOldMaster` is therefore checked without failures).
* `count_workflows <= 0` on reload is refused before `workers_pid` is cleared,
  and the failed new master stops the old one's workers (`mohican_server.cpp:134`;
  the reason for `Contained` in `SignalsOwnWorkers`).
* A request in two segments is refused after the first: EAGAIN is an error for
  `get_request` (`client_connection.cpp:228`).
* A silent client is never timed out (`worker_process.cpp:42`).
* A write that would block loses the buffer read before it, and the connection
  is later reported as finished (`client_connection.cpp:299`; `NothingSentTwice`
  says what is left of the promise).
* A proxied request ends its worker by an exception, `stoul("")` on a header
  stored in lower case, or by an upstream's event on a deleted connection.
* `file_fd` and the upstream's socket are never closed (`client_connection.cpp:244`).

Messages and locations:

* `GET /` opens the directory: the default page is assigned to a copy
  (`http_handle.cpp:28`).
* A file of an unknown type gets a header of 415, and is sent with it
  (`http_handle.cpp:44`). HEAD is answered with the file, like GET.
* A method other than GET and HEAD for a file, or a version other than 1.0 and
  1.1, throws where nobody catches it, and ends the worker.
* A "\n" of its own before the request line is put in front of the method, which
  is then another one. Lines behind the end of a request (a body, or the next
  request) are parsed as its headers, and mostly make it a bad one; when they are
  headers they go to the upstream with a request that is passed on, and may
  replace its own. Its method, url and version stay (`AnswersTheFirstRequest`).
* A first line whose version does not parse throws after its url was kept
  (`http_request.cpp:116-126`), and the uninitialized `is_succeeded` may let the
  request be served or passed on.
* Names of headers are kept in lower case and "Content-Length" is looked up as it
  stands here, so that no body and no reply of an upstream is ever passed on; the
  worker ends instead. The values of a forwarded request are in lower case, too.
* The message of a reply's first line is its last word only.
* A location that ignores case and has an upper-case letter matches an url only
  if it is written the same way. The longest of several prefixes has no advantage.

Configuration:

* Every `server` block is written into the one server. Without `listen` its port
  is indeterminate, as are a location's log switches it does not set.
* The logs of the http block replace the server's when they come later, and are
  replaced when they come first (`main_server_settings.cpp:52`).
* A location takes the server's root as it is at the location's beginning; a
  location for a proxy is refused, too, if it has none (`parse_functions.cpp:155`).
* `servername` in the http block begins with the word `server`, and is one. The
  template `.mohican.conf` is itself refused.
* `weight=` without a number, an address "1.2.3." or a number beyond an int throw
  an exception of the library that nobody catches.

## 4. What is proved

For every value of the constants, from the named assumptions on them only. Each
inductive invariant was checked by TLC on a run's instance before its proof.

| Theorem | Property |
|---|---|
| `TypeCorrect` | `TypeOK` of `MohicanServer` |
| `StopsOnlyOwnWorkers`, `ServiceNeverGaps` (from `ServiceCorrect`) | `SignalsOwnWorkers`, `NoServiceGap` |
| `PidFileNamesAMaster` (from `PidFileNamesFormed`) | `PidFileNamesMaster` |
| `PidFileTellsTruth`, `NewMasterWaits`, `PidFileGoesOn` (from `CommandsCorrect`) | `PidFileTellsTheServer`, `ReloadWaitsForOldMaster`, `PidFileMovesOn` |
| `ServerIsOneOfGenerations` | `ImplementsService` |
| `ConnectionProcessingFollows`, `AnswersInOneCall` | about one call of `connection_processing` |
| `WorkersTypeCorrect`, `NobodyForgotten`, `EventsLive`, `DeathsCaused`, `SentOnce`, `HardStopProved` (from `WorkersCorrect`) | `TypeOK`, `NobodyIsForgotten`, `EventsAreLive`, `DeathsHaveACause`, `NothingSentTwice`, `HardStopInterrupts` |
| `WorkersAreOneQueue` | `ImplementsClientQueue` |
| `ClosedWhenAnswered` | `ClosedMeansAnswered` |
| `ParserTypeCorrect`, `LocationsServable` (from `ParserCorrect`) | `TypeOK`, `LocationsCanBeServed` of `ConfigParser` |
| `NestingCorrect`, `SettingsCorrect`, `UpstreamsCorrect`, `LocationsCorrect` | `NestingIsKept`, `SettingsAreTheLastGiven`, `UpstreamsAreAsWritten`, `LocationsAreAsWritten` |
| `FirstFitIsFound` | `LocationIsTheFirstFit` |
| `ExchangeTypeCorrect`, `FirstRequestAnswered`, `HeadersFit`, `RepliesKept` (from `ExchangeCorrect`) | `TypeOK`, `AnswersTheFirstRequest`, `HeaderGoesWithTheFile`, `RepliesAreKept` |
| `FoldedAlong`, `FoldedAppend` | about `FoldLeft`, for any operator |

**The life cycle.** `NoServiceGap` is not inductive: that some worker serves says
nothing of whose it is or who may stop it. `ServiceInv` adds

* `PidsAreFresh`: a fork's child is in nobody's `workers_pid`;
* `Structure`: a process in the main loop is its own old master, one in the
  making has an earlier one that is past its start; `workers_pid` lists only
  children that are workers; a master that has its workers and does not stop has
  one that serves;
* `ToldByInheritance`: a master in the making carries a stop flag only when the
  master it copied had it;
* `SomeoneStands`: there is a master that nobody has told to stop, or that died
  without stopping its workers, with a worker that serves. When a new master
  signals its old one, the new one takes over this role.

`Structure` is preserved whenever a step is *quiet* (it leaves the roles as they
are or moves a process on along its way); the lemmas of `MohicanService_proofs`
show each action quiet, or a fork, or the hand-over of `KillOldMaster`. The pid
file needs less: `NamingInv` says that identifiers not given out have no process
and that the process the file names has had its workers. It holds whatever
fails, and no step takes a process back to where it has none.

**The commands.** The theorems of `MohicanCommands_proofs` have the hypothesis
`PatientOperator`: every command waits for a settled server, and nothing fails. It is
what the run `MohicanServer_patient` is configured to; the numbers of processes,
workers and commands are any. Without it the properties are false, as TLC shows
on the configurations of `MohicanServer_overlap` and `MohicanServer_faults`: two
reloads at once leave two masters that have settled, and the second new master
inherits the flag that the end of the first one's intermediate child has set; a
reload overtaken by a stop loses the pid file of a master that goes on; a command
that comes before the handlers kills its master, and the file goes on naming it.
None of the properties is inductive: that the file tells the truth when the
server has settled says nothing of the steps in between. `CommandInv` describes
these. It names the *cast* of the command that is carried out:
the master `p` in charge and the process `n` that is to replace it, each possibly
nobody. `Phase(p, n)` says how far the command is: `Down`, `Starting`, `Idle`,
`ToReload`, `ToStop` for one master alone; `Growing` (the new one gets its workers)
and `HandingOver` (the old one has been told) for both; `Succeeding` when the old one
is gone. Each phase fixes locations, flags, handlers and the pid file. The workers of
the cast that it still lists serve (`Staffed`), and everybody else is a `Bystander`:
unused, gone, about to leave, or such a worker. That the end of a bystander sets the
flag a new master spins on is harmless only because its parent is then done, or is the
old master; this is a part of `Leaves`. Most steps are of one of the cast and leave
the bystanders alone, which is shown once (`StaffedStep`, `UnstaffedStep`); a lemma
per action shows which phase it leads to.

For `ImplementsService`, `GenerationsFit` reads off the cast which generations serve:
those of its masters that have workers and have not signalled all of them. Most actions
of a master, its forks and all steps of bystanders are no step of `Service`; each of the
others is the one its lemma names (`ForkWorkerOpens`, `FillPidFileNames`,
`StopKillCloses`, `FinishReloadIsDone`, `StopEndIsDone`, `SignalMasterAsks`).

**The workers.** `connection_processing` is a function on sessions, so most of the
work is done once and without time: `SessionInv` holds of what each of its blocks
returns, and `Follows` says what a session may become in one block, or in any
sequence of them (no buffer twice or out of order; the kind of request and what
the client does stay; an exception only for requests that can have one).
`WorkerInv` adds the places of things: a client is in the backlog, once, or has an owner;
an accepted one that is not settled is watched by a running worker
(`Registered`); events in hand are of connections the worker watches, unless an
upstream's socket is in the set (`Batches`); a worker is in its loop where its
batch says (`Places`). Every step is one of five kinds (`StepKinds`): a client
connects, a session changes, a worker turns, accepts or serves one, or ends. The
invariant, the hard stop and the refinement of `ClientQueue` go through these
five, and each of them is one step of the queue, or none.

`AnswersInOneCall` is about one call for a whole request that a worker serves
itself: it answers; with input behind the request's end it may leave BAD_REQUEST
instead. `HardStopProved` is about connections a worker has: an `accept` in
progress may still take a client after the SIGINT, which is then not served.

`ClosedWhenAnswered` has the hypothesis `EasyLoad`: requests come in one segment
with nothing behind it, a file fits the socket, no request can be passed on to an
upstream (which leaves out the garbled ones, too), and the table of descriptors is
large enough for all clients. It is what the run `WorkerProcess_serving`, which
checks the property, is configured to; the conditions exclude deviations of
section 3. `AnswerInv` is the strengthening: an event in hand is of a client that
has something to read, and nothing has been done for a client that waits.

**The parser.** The properties compare the state with a reading of the text that
knows braces and names only, a fold (`Reading`) over the items. `ReadingGrows`
moves it on by one item, and each invariant says what the state is in terms of it:

* `ParserInv`: the types; what a location that is being built has already of
  `LocationsCanBeServed`. Its root may still be missing, which is why the property
  is not inductive by itself.
* `NestingInv`: the open blocks are those of `pc`, `is_server_adding` and `state`
  together, and which states go with which function.
* `SettingsInv`: the values of the text agree with the settings, and the number
  that waits for a value is that of the name read last.
* `UpstreamsInv`: the addresses are those of the text, each with its last line. That
  `set_upstream_address` takes exactly four numbers up to 255 for an address is a
  lemma about every spelling (`IpIsFourNumbers`).
* `LocationsInv`: the lists agree with the complete locations (`ListsAgree`); the
  one that is being built is as far as it is written (`Building`); blocks are
  numbered in their order (`CountsGrow`), so that no value goes to a location
  that is complete.

**The exchange.** `FirstFitIsFound`: `FirstOf` returns the first place that
matches or stops the search, and `get_location` the first such place of the first
pass that has one; the lists are what a fold of `add_location` makes of the
file. `ExchangeInv` has four parts: the types, what the lines of the client have
made of the request (`SentInv`), which location and header each phase has and
what they say of the file now and then (`PhaseInv`), and what the lines of the
upstream have made of the response (`ReplyInv`), which begins with an empty
`upstream_buffer` whatever the client has left in `line_`. Header tables are again
folds over the lines. `FirstRequestAnswered` needs two facts about them: a line
more only adds to the table or replaces a value (`PassedGrows`), and no table has
a "Content-Length", so that every body and every reply ends the worker
(`NoLength`).

**Folds.** The library defines `FoldLeft` by a function on sets of places. That it
follows the operator step by step is proved in `FoldLemmas` without an induction
theorem (which would need an operator as a parameter): the least place at which a
claim fails exists because `<` is well-founded on the naturals.

**Assumptions.** Those on constants are types of what the configuration of a run
gives, with these exceptions, which the code justifies: `SpellingAssumption` takes
runs of digits to be maximal (two numbers with nothing between them are one
number); `HeadsAssumption` and `EntriesAssumption` say what the head of a location
and the line of an upstream can be, `ListedAssumption` that a location in a list
has an url and a root (the latter is `LocationsCanBeServed`), and
`LinesAssumption` which kinds of line `add_line` tells apart, that a name in
lower case stays as it is in lower case, and that "Content-Length" is not one.

**What the proofs showed of the models.** Two definitions could not be reasoned
about as they stood: CASE expressions with overlapping guards (`http_handler`,
`NestingIsKept`) choose one arbitrarily, and partial functions (`stages`,
`PlainLexem`) say nothing outside their domain. They are IF expressions and total
functions now. That an address counts as one exactly if it is a dotted quad is
false when a number may be spelt as two runs of digits, which no text has: this is
`SpellingAssumption`. `LocationsAreAsWritten` was stated with `SelectSeq`,
which the prover cannot expand; it is stated with sets of places and their order
now.

**Only model-checked**:

* Liveness (`WorkersEndWithTheirMaster`, `RequestsAreAnswered`, `OperatorStopEnds`,
  `ReloadEnds`): temporal reasoning with fairness and ENABLED is out of the
  prover's reach.

## 5. Not modelled

* Output: the logs, dates, the text of headers and content types, `statistics.py`.
* `status`, `help`, `build` and `create config` of `mohican.sh`, and `kill.sh`:
  they print, compile, write a template or kill by name.
* Code nobody reaches: `is_banned_upstream` is never called (it takes a status
  modulo 100 where the hundreds are meant), SIGPOLL is never sent, the
  constructor of `HttpRequest` from a whole text is called by nobody, the stages
  behind a parsed reply or body end before they begin, `balancing_to_add.cpp` is
  compiled by no build file; and code that is commented out.
* The memory of copied `ServerSettings`: locations keep pointers into the map of
  upstreams of the object they were built in (`server_settings.cpp:134`).
  `ClientConnection` makes the outcome of such a connection a choice.
* The characters of the configuration file and of a header, below items and
  lines.

## 6. Plan

Done, in this order: `MohicanServer` (the most important behaviour: reload and
stop), its proofs, `ClientConnection`, `WorkerProcess`, `ServerSettings`,
`ConfigParser`, `HttpExchange`, `ClientQueue` and its refinement; then the proofs
of the pid file, the connection, the workers and the queue, the folds, the
exchange and the parser.

Last came the commands that wait for one another, `Service`, and its refinement.

Left: what the code promises an operator who does not wait, or whose system fails, is
only `NoServiceGap`, `SignalsOwnWorkers` and `PidFileNamesMaster`. An abstract server
that covers overlapping reloads would have to allow every deviation of section 3, and
say little.
