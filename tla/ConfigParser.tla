---------------------------- MODULE ConfigParser ----------------------------
(***************************************************************************)
(* parse_config(): the configuration file read from its beginning to the   *)
(* end, with the functions it calls for the blocks of a location and of    *)
(* the upstreams.                                                          *)
(*                                                                         *)
(* The file is chosen while it is read, one item at a time; an item is     *)
(* what one call of get_lexem() looks at ("name:", "value;", a keyword, a  *)
(* brace, an end of line), the head of a location up to its brace, or one  *)
(* upstream.  Whether a piece of a line is a name or a value is decided by *)
(* which of ':' and ';' comes first, never by its place.  The file may end *)
(* at any item: its end is a "word", like any text nobody expects.         *)
(***************************************************************************)
EXTENDS ServerSettings

CONSTANTS
  Names,          \* the property names the file uses
  Heads,          \* what may stand between "location" and its brace
  Values,         \* the values it gives its properties
  Entries,        \* what may stand in a block of upstreams
  MaxBlocks,      \* bound: blocks inside http
  MaxItems        \* bound: names and upstreams in them

ASSUME ValuesAssumption == Values \subseteq DOMAIN Spelling

\* url, case_sensitive and type as written, or malformed: no '/' or no brace
ASSUME HeadsAssumption ==
  \A h \in Heads : h.malformed \/ (h.type \in location_type_t /\ h.case_sensitive \in BOOLEAN)

(***************************************************************************)
(* weight and port are -1 where they are not given.  malformed: no         *)
(* semicolon where one must be; no_number: an '=' without a number behind  *)
(* it, or with one beyond an int.                                          *)
(***************************************************************************)
ASSUME EntriesAssumption ==
  \A e \in Entries : /\ e.address \in DOMAIN Spelling
                     /\ {e.weight, e.port} \subseteq Nat \union {-1}
                     /\ e.form \in {"plain", "malformed", "no_number"}

ASSUME BoundsAssumption == MaxBlocks \in Nat /\ MaxItems \in Nat

\* a "bare" name is one of its block and ends its line, which is skipped like a colon
Item ==
  [t : {"http", "{", "}", "newline", "server", "bare", "word"}]
  \union [t : {"name"}, name : Names]
  \union [t : {"value"}, value : Values]
  \union [t : {"location"}, head : Heads]
  \union [t : {"upstreams"}, brace : BOOLEAN]
  \union [t : {"upstream"}, entry : Entries]

-----------------------------------------------------------------------------
state_t == {"S_START", "S_BRACE_OPEN", "S_KEY", "S_VALUE", "S_UPSTREAM",
            "S_SERVER_START", "S_LOCATION", "S_ERR", "S_END"}

lexem_t == {"L_PROTOCOL", "L_BRACE_OPEN", "L_BRACE_CLOSE", "L_NEW_LINE", "L_KEY",
            "L_VALUE", "L_SERVER_START", "L_LOCATION", "L_END_LOCATION",
            "L_SERVER_END", "L_UPSTREAM", "L_END_UPSTREAM", "L_ERR"}

\* the entries of the table that are not S_ERR
Edges ==
  {<<"S_START", "L_PROTOCOL", "S_BRACE_OPEN">>,
   <<"S_START", "L_NEW_LINE", "S_START">>,
   <<"S_BRACE_OPEN", "L_BRACE_OPEN", "S_KEY">>,
   <<"S_BRACE_OPEN", "L_NEW_LINE", "S_BRACE_OPEN">>,
   <<"S_KEY", "L_BRACE_CLOSE", "S_END">>,
   <<"S_KEY", "L_NEW_LINE", "S_KEY">>,
   <<"S_KEY", "L_KEY", "S_VALUE">>,
   <<"S_KEY", "L_SERVER_START", "S_SERVER_START">>,
   <<"S_KEY", "L_LOCATION", "S_LOCATION">>,
   <<"S_KEY", "L_SERVER_END", "S_KEY">>,
   <<"S_KEY", "L_UPSTREAM", "S_UPSTREAM">>,
   <<"S_VALUE", "L_VALUE", "S_KEY">>,
   <<"S_UPSTREAM", "L_END_UPSTREAM", "S_KEY">>,
   <<"S_SERVER_START", "L_BRACE_OPEN", "S_KEY">>,
   <<"S_SERVER_START", "L_NEW_LINE", "S_SERVER_START">>,
   <<"S_LOCATION", "L_END_LOCATION", "S_KEY">>}

stages ==
  [sl \in state_t \X lexem_t |->
     IF \E n \in state_t : <<sl[1], sl[2], n>> \in Edges
       THEN CHOOSE n \in state_t : <<sl[1], sl[2], n>> \in Edges
       ELSE "S_ERR"]

main_valid_properties ==
  <<"http", "count_workflows", "access_log", "error_log", "server", "upstreams">>

KeywordLexem == [server |-> "L_SERVER_START", location |-> "L_LOCATION",
                 upstreams |-> "L_UPSTREAM"]

PlainLexem ==
  [t \in {"http", "newline", "value", "bare", "{", "}"} |->
     CASE t = "http" -> "L_PROTOCOL"   [] t = "newline" -> "L_NEW_LINE"
       [] t = "value" -> "L_VALUE"     [] t = "bare" -> "L_KEY"
       [] t = "{" -> "L_BRACE_OPEN"    [] t = "}" -> "L_BRACE_CLOSE"]

\* a name, and a keyword, are known only in the block they belong to
get_lexem(item, valid) ==
  CASE item.t \in DOMAIN PlainLexem -> PlainLexem[item.t]
    [] item.t = "name" /\ Contains(valid, item.name) -> "L_KEY"
    [] item.t \in DOMAIN KeywordLexem /\ Contains(valid, item.t) -> KeywordLexem[item.t]
    [] OTHER -> "L_ERR"

VARIABLES
  pc,                 \* the function that reads, "done" after it returned or threw
  state,              \* of parse_config, S_LOCATION and S_UPSTREAM while another reads
  is_server_adding,
  property_number,
  main,               \* MainServerSettings, without its server
  server,
  location,           \* what parse_location is building: state, type, property_number, location
  result,             \* "reading", "accepted", "invalid" (InvalidConfigException), "uncaught"
  refused,            \* history: a value was refused, and the exception caught
  text                \* history: the items read and understood, without ends of lines

parserVars == <<pc, state, is_server_adding, property_number, location>>
vars == <<parserVars, main, server, result, refused, text>>

NoRoot == <<"\n">>

\* location_t has no constructor
NewLocation(head) ==
  [state |-> "S_KEY", type |-> head.type, property_number |-> -1,
   location |-> [url |-> head.url, case_sensitive |-> head.case_sensitive,
                 root |-> IF server.is_root THEN server.root ELSE NoRoot,
                 upstreams |-> <<>>, is_proxy |-> FALSE,
                 is_access_log |-> "indeterminate", is_error_log |-> "indeterminate"]]

NotInLocation == [state |-> "S_END"]

Init ==
  /\ pc = "parse_config" /\ state = "S_START"
  /\ is_server_adding = FALSE /\ property_number = -1
  /\ main = [count_workflows |-> "4", access_log_file |-> "", error_log_file |-> ""]
  /\ server = NewServer
  /\ location = NotInLocation
  /\ result = "reading" /\ refused = FALSE /\ text = <<>>

-----------------------------------------------------------------------------
(***************************************************************************)
(* Ends of the parser.                                                     *)
(***************************************************************************)
Return(r) == pc' = "done" /\ result' = r

\* state is S_ERR after the loop
Invalid ==
  /\ Return("invalid")
  /\ state' = "S_ERR"
  /\ UNCHANGED <<is_server_adding, property_number, location, main, server, refused, text>>

\* an exception nobody catches
Throw ==
  /\ Return("uncaught")
  /\ UNCHANGED <<state, is_server_adding, property_number, location, main, server,
                 refused, text>>

Understood(item) ==
  text' = IF item.t = "newline" THEN text ELSE Append(text, item)

GoOn(item) == Understood(item) /\ UNCHANGED <<result, refused>>

-----------------------------------------------------------------------------
(***************************************************************************)
(* parse_config()                                                          *)
(***************************************************************************)
valid == IF is_server_adding THEN valid_properties ELSE main_valid_properties

\* the item is the lexeme l, and the table has a place for it
Lexed(item, l) ==
  /\ pc = "parse_config"
  /\ get_lexem(item, valid) = l
  /\ stages[<<state, l>>] # "S_ERR"

Unexpected(item) ==
  /\ pc = "parse_config"
  /\ stages[<<state, get_lexem(item, valid)>>] = "S_ERR"
  /\ Invalid

Opening(item) ==
  \E l \in {"L_PROTOCOL", "L_BRACE_OPEN", "L_NEW_LINE"} :
    /\ Lexed(item, l)
    /\ state' = stages[<<state, l>>]
    /\ GoOn(item)
    /\ UNCHANGED <<pc, is_server_adding, property_number, location, main, server>>

\* the name is cut out together with the character behind it: only a colon is taken off
NumberOf(item, names) == IF item.t = "bare" THEN -1 ELSE get_number_of_property(names, item.name)

Key(item) ==
  /\ Lexed(item, "L_KEY")
  /\ \/ NumberOf(item, valid) = -1 /\ Invalid
     \/ /\ NumberOf(item, valid) # -1
        /\ property_number' = NumberOf(item, valid)
        /\ state' = "S_VALUE"
        /\ GoOn(item)
        /\ UNCHANGED <<pc, is_server_adding, location, main, server>>

\* the exception is printed and the loop left; state is not S_ERR
Refuse ==
  /\ refused' = TRUE
  /\ Return("accepted")
  /\ UNCHANGED <<state, is_server_adding, property_number, location, main, server, text>>

ServerValue(item) ==
  /\ Lexed(item, "L_VALUE")
  /\ is_server_adding
  /\ \/ set_property_throws(property_number, item.value) /\ Refuse
     \/ /\ ~set_property_throws(property_number, item.value)
        /\ server' = set_property(server, property_number, item.value)
        /\ state' = "S_KEY"
        /\ GoOn(item)
        /\ UNCHANGED <<pc, is_server_adding, property_number, location, main>>

main_numbers == [COUNT_WORKFLOWS_NUMBER |-> 1, ACCESS_LOG_NUMBER |-> 2, ERROR_LOG_NUMBER |-> 3]

main_set_property_throws(number, value) ==
  number = main_numbers.COUNT_WORKFLOWS_NUMBER /\ stoi_throws(Spelling[value])

\* Slip: the logs of the http block do not replace the server's
main_set_property_ServersFirst(number, value) ==
  LET Both(field) ==
        /\ main' = [main EXCEPT ![field] = value]
        /\ server' = [server EXCEPT ![field] = IF @ = "" THEN value ELSE @]
  IN  CASE number = main_numbers.COUNT_WORKFLOWS_NUMBER ->
             main' = [main EXCEPT !.count_workflows = value] /\ UNCHANGED server
        [] number = main_numbers.ACCESS_LOG_NUMBER -> Both("access_log_file")
        [] number = main_numbers.ERROR_LOG_NUMBER  -> Both("error_log_file")
        [] OTHER -> UNCHANGED <<main, server>>

\* the logs of the http block are the server's, too, whatever it had
main_set_property(number, value) ==
  LET Both(field, name) ==
        /\ main' = [main EXCEPT ![field] = value]
        /\ server' = set_property(server, get_number_of_property(valid_properties, name), value)
  IN  CASE number = main_numbers.COUNT_WORKFLOWS_NUMBER ->
             main' = [main EXCEPT !.count_workflows = value] /\ UNCHANGED server
        [] number = main_numbers.ACCESS_LOG_NUMBER -> Both("access_log_file", "access_log")
        [] number = main_numbers.ERROR_LOG_NUMBER  -> Both("error_log_file", "error_log")
        [] OTHER -> UNCHANGED <<main, server>>

MainValue(item) ==
  /\ Lexed(item, "L_VALUE")
  /\ ~is_server_adding
  /\ \/ main_set_property_throws(property_number, item.value) /\ Refuse
     \/ /\ ~main_set_property_throws(property_number, item.value)
        /\ main_set_property(property_number, item.value)
        /\ state' = "S_KEY"
        /\ GoOn(item)
        /\ UNCHANGED <<pc, is_server_adding, property_number, location>>

\* every server block goes to the one server
ServerStart(item) ==
  /\ Lexed(item, "L_SERVER_START")
  /\ is_server_adding' = TRUE
  /\ state' = "S_SERVER_START"
  /\ GoOn(item)
  /\ UNCHANGED <<pc, property_number, location, main, server>>

\* Slip: the flag is not taken back
BraceClose_StaysInServer(item) ==
  /\ Lexed(item, "L_BRACE_CLOSE")
  /\ state' = stages[<<state, "L_SERVER_END">>]
  /\ GoOn(item)
  /\ UNCHANGED <<pc, is_server_adding, property_number, location, main, server>>

BraceClose(item) ==
  /\ Lexed(item, "L_BRACE_CLOSE")
  /\ is_server_adding' = FALSE
  /\ Understood(item)
  /\ \/ /\ is_server_adding
        /\ state' = stages[<<state, "L_SERVER_END">>]
        /\ UNCHANGED <<pc, result>>
     \/ /\ ~is_server_adding
        /\ state' = "S_END"
        /\ Return("accepted")
  /\ UNCHANGED <<property_number, location, main, server, refused>>

LocationStart(item) ==
  /\ Lexed(item, "L_LOCATION")
  /\ \/ item.head.malformed /\ Invalid
     \/ /\ ~item.head.malformed
        /\ pc' = "parse_location" /\ state' = "S_LOCATION"
        /\ location' = NewLocation(item.head)
        /\ GoOn(item)
        /\ UNCHANGED <<is_server_adding, property_number, main, server>>

UpstreamsStart(item) ==
  /\ Lexed(item, "L_UPSTREAM")
  /\ \/ ~item.brace /\ Invalid
     \/ /\ item.brace
        /\ pc' = "parse_upstreams" /\ state' = "S_UPSTREAM"
        /\ GoOn(item)
        /\ UNCHANGED <<is_server_adding, property_number, location, main, server>>

-----------------------------------------------------------------------------
(***************************************************************************)
(* parse_location(): its own loop, with two states.  Names it does not     *)
(* find have the number -1, whose values are dropped.                      *)
(***************************************************************************)
InLocation(item, l, s) ==
  /\ pc = "parse_location"
  /\ get_lexem(item, valid_location_properties) = l
  /\ location.state = s

LocationUnexpected(item) ==
  /\ pc = "parse_location"
  /\ <<get_lexem(item, valid_location_properties), location.state>> \notin
       {<<"L_NEW_LINE", "S_KEY">>, <<"L_KEY", "S_KEY">>, <<"L_VALUE", "S_VALUE">>,
        <<"L_BRACE_CLOSE", "S_KEY">>}
  /\ Invalid

LocationGoesOn(item, loc) ==
  /\ location' = loc
  /\ GoOn(item)
  /\ UNCHANGED <<pc, state, is_server_adding, property_number, main, server>>

LocationNewLine(item) ==
  InLocation(item, "L_NEW_LINE", "S_KEY") /\ LocationGoesOn(item, location)

LocationKey(item) ==
  /\ InLocation(item, "L_KEY", "S_KEY")
  /\ LocationGoesOn(item,
       [location EXCEPT !.state = "S_VALUE",
                        !.property_number = NumberOf(item, valid_location_properties)])

LocationValue(item) ==
  /\ InLocation(item, "L_VALUE", "S_VALUE")
  /\ LET n == location.property_number
     IN  \/ set_location_property_throws(server, n, item.value) /\ Invalid
         \/ /\ ~set_location_property_throws(server, n, item.value)
            /\ LocationGoesOn(item,
                 [location EXCEPT
                    !.state = "S_KEY",
                    !.location = set_location_property(server, n, item.value, @)])

\* Slip: the root is not looked at
LocationEnd_AnyRoot(item) ==
  /\ InLocation(item, "L_BRACE_CLOSE", "S_KEY")
  /\ pc' = "parse_config" /\ state' = stages[<<state, "L_END_LOCATION">>]
  /\ server' = add_location(server, location.type, location.location)
  /\ location' = NotInLocation
  /\ GoOn(item)
  /\ UNCHANGED <<is_server_adding, property_number, main>>

LocationEnd(item) ==
  /\ InLocation(item, "L_BRACE_CLOSE", "S_KEY")
  /\ \/ location.location.root = NoRoot /\ Invalid
     \/ /\ location.location.root # NoRoot
        /\ pc' = "parse_config" /\ state' = stages[<<state, "L_END_LOCATION">>]
        /\ server' = add_location(server, location.type, location.location)
        /\ location' = NotInLocation
        /\ GoOn(item)
        /\ UNCHANGED <<is_server_adding, property_number, main>>

-----------------------------------------------------------------------------
(***************************************************************************)
(* parse_upstreams(): upstreams up to a brace.                             *)
(***************************************************************************)
Default(number, default) == IF number = -1 THEN default ELSE number

UpstreamEntry(item) ==
  /\ pc = "parse_upstreams"
  /\ item.t = "upstream"
  /\ LET e == item.entry
     IN  \/ e.form = "malformed" /\ Invalid
         \/ /\ \/ e.form = "no_number"
               \/ e.form = "plain" /\ set_upstream_address(Spelling[e.address]).throws
            /\ Throw
         \/ /\ e.form = "plain" /\ ~set_upstream_address(Spelling[e.address]).throws
            /\ server' = add_upstream(server, e.address, Default(e.weight, 1),
                                      Default(e.port, 80))
            /\ GoOn(item)
            /\ UNCHANGED <<parserVars, main>>

UpstreamsNewLine(item) ==
  /\ pc = "parse_upstreams"
  /\ item.t = "newline"
  /\ GoOn(item)
  /\ UNCHANGED <<parserVars, main, server>>

UpstreamsEnd(item) ==
  /\ pc = "parse_upstreams"
  /\ item.t = "}"
  /\ pc' = "parse_config" /\ state' = stages[<<state, "L_END_UPSTREAM">>]
  /\ GoOn(item)
  /\ UNCHANGED <<is_server_adding, property_number, location, main, server>>

UpstreamsUnexpected(item) ==
  /\ pc = "parse_upstreams"
  /\ item.t \notin {"upstream", "newline", "}"}
  /\ Invalid

-----------------------------------------------------------------------------
Blocks == {"server", "location", "upstreams"}
Inside == {"upstream", "name", "bare"}

\* an upstream without settings reads like a value: the block tells them apart
MayFollow(item) ==
  /\ item.t = "value" => pc # "parse_upstreams"
  /\ item.t = "upstream" => pc = "parse_upstreams"
  /\ item.t \in Blocks => Len(SelectSeq(text, LAMBDA i : i.t \in Blocks)) < MaxBlocks
  /\ item.t \in Inside => Len(SelectSeq(text, LAMBDA i : i.t \in Inside)) < MaxItems

Next ==
  \E item \in Item :
    /\ MayFollow(item)
    /\ \/ Unexpected(item) \/ Opening(item) \/ Key(item)
       \/ ServerValue(item) \/ MainValue(item)
       \/ ServerStart(item) \/ BraceClose(item)
       \/ LocationStart(item) \/ UpstreamsStart(item)
       \/ LocationUnexpected(item) \/ LocationNewLine(item)
       \/ LocationKey(item) \/ LocationValue(item) \/ LocationEnd(item)
       \/ UpstreamEntry(item) \/ UpstreamsNewLine(item)
       \/ UpstreamsEnd(item) \/ UpstreamsUnexpected(item)

Spec == Init /\ [][Next]_vars

-----------------------------------------------------------------------------
(***************************************************************************)
(* What the text says, read without the parser's flags: the blocks that    *)
(* are open, the name that waits for its value, and all that was given.    *)
(* Blocks are numbered in the order of their openings.                     *)
(***************************************************************************)
OpensBlock == {"http", "server", "location", "upstreams"}

NothingRead == [open |-> <<>>, count |-> 0, name |-> "nothing", given |-> <<>>]

ReadOne(r, i) ==
  CASE i.t \in OpensBlock -> [r EXCEPT !.open = Append(@, i.t), !.count = @ + 1]
    [] i.t = "}"    -> [r EXCEPT !.open = Front(@)]
    [] i.t = "name" -> [r EXCEPT !.name = i.name]
    [] i.t = "bare" -> [r EXCEPT !.name = "nothing"]
    [] i.t = "value" ->
         [r EXCEPT !.given = Append(@, [block |-> Last(r.open), number |-> r.count,
                                        name |-> r.name, value |-> i.value])]
    [] OTHER -> r

Reading(items) == FoldLeft(ReadOne, NothingRead, items)

\* where a name was given a value for the last time in blocks of these kinds, 0 if nowhere
LastPlaceOf(given, blocks, name) ==
  SelectLastInSeq(given, LAMBDA g : g.block \in blocks /\ g.name = name)

LastGiven(given, blocks, name, default) ==
  LET last == LastPlaceOf(given, blocks, name)
  IN  IF last = 0 THEN default ELSE given[last].value

\* the settings of a file that is refused are thrown away
Read == result \in {"reading", "accepted"}

TypeOK ==
  /\ pc \in {"parse_config", "parse_location", "parse_upstreams", "done"}
  /\ state \in state_t /\ location.state \in {"S_KEY", "S_VALUE", "S_END"}
  /\ is_server_adding \in BOOLEAN /\ refused \in BOOLEAN
  /\ property_number \in -1 .. 5
  /\ pc = "parse_location" => location.property_number \in -1 .. 4
  /\ result \in {"reading", "accepted", "invalid", "uncaught"}
  /\ (pc = "done") = (result # "reading")
  /\ main.count_workflows \in Values \union {"4"}
  /\ server.port \in Values \union {"indeterminate"}
  /\ DOMAIN server.locations = location_type_t
  /\ \A e \in DOMAIN server.upstreams : server.upstreams[e].is_ip \in BOOLEAN

(***************************************************************************)
(* One flag and a state stand for the blocks that are open: they always    *)
(* agree with the braces of the text.  A file that is accepted to its end  *)
(* has closed every block.                                                 *)
(***************************************************************************)
NestingIsKept ==
  Read => Reading(text).open =
    IF pc = "parse_location" THEN <<"http", "server", "location">>
    ELSE IF pc = "parse_upstreams" THEN <<"http", "upstreams">>
    ELSE IF is_server_adding THEN <<"http", "server">>
    ELSE IF state \in {"S_START", "S_END"} THEN <<>>
    ELSE <<"http">>

(***************************************************************************)
(* Each property has the last value the file gave it in its own block.     *)
(* The log files of a server are the exception: there the http block       *)
(* counts as well, and whichever of the two comes later wins.              *)
(***************************************************************************)
SettingsAreTheLastGiven ==
  LET given == Reading(text).given
      root == LastPlaceOf(given, {"server"}, "root")
  IN  Read =>
      /\ server.port = LastGiven(given, {"server"}, "listen", "indeterminate")
      /\ server.servername = LastGiven(given, {"server"}, "servername", "")
      /\ server.is_root = (root # 0)
      /\ server.root = IF root = 0 THEN <<>> ELSE <<STATICS_FOLDER_PATH, given[root].value>>
      /\ main.count_workflows = LastGiven(given, {"http"}, "count_workflows", "4")
      /\ main.access_log_file = LastGiven(given, {"http"}, "access_log", "")
      /\ main.error_log_file = LastGiven(given, {"http"}, "error_log", "")
      /\ server.access_log_file = LastGiven(given, {"http", "server"}, "access_log", "")
      /\ server.error_log_file = LastGiven(given, {"http", "server"}, "error_log", "")

\* the places in the text of the locations that are complete
Written ==
  {i \in DOMAIN text : text[i].t = "location" /\ \E j \in i .. Len(text) : text[j].t = "}"}

WrittenAs(type) == {i \in Written : text[i].head.type = type}

\* the numbers of a set, in their order
InOrder(S) ==
  [k \in 1 .. Cardinality(S) |-> Min({i \in S : Cardinality({j \in S : j <= i}) = k})]

\* where the location with this number gave values to these names
OwnPlaces(given, number, names) ==
  {p \in DOMAIN given : /\ given[p].block = "location" /\ given[p].number = number
                        /\ given[p].name \in names}

OwnValue(given, number, name) ==
  LET places == OwnPlaces(given, number, {name})
  IN  IF places = {} THEN "indeterminate" ELSE given[Max(places)].value

ServersRoot(given) ==
  LET last == LastPlaceOf(given, {"server"}, "root")
  IN  IF last = 0 THEN <<>> ELSE <<STATICS_FOLDER_PATH, given[last].value>>

OwnRoot(given, number, servers) ==
  LET places == OwnPlaces(given, number, {"root", "add_root"})
      last == given[Max(places)]
  IN  IF places = {} THEN IF servers = <<>> THEN NoRoot ELSE servers
      ELSE IF last.name = "root" THEN <<STATICS_FOLDER_PATH, last.value>>
      ELSE Append(servers, last.value)

\* the location with this head, where this was read up to its brace, and this was given in all
WrittenLocation(head, read, given) ==
  LET proxies == OwnPlaces(given, read.count, {"proxy_path"})
  IN  [url |-> head.url, case_sensitive |-> head.case_sensitive,
       root |-> OwnRoot(given, read.count, ServersRoot(read.given)),
       upstreams |-> [k \in 1 .. Cardinality(proxies) |-> given[InOrder(proxies)[k]].value],
       is_proxy |-> proxies # {},
       is_access_log |-> OwnValue(given, read.count, "access_log"),
       is_error_log |-> OwnValue(given, read.count, "error_log")]

(***************************************************************************)
(* The four lists hold the locations of the file, each as it is written    *)
(* there: its root is the last one it names, and add_root adds to what the *)
(* server's root was when the location began; a location without either    *)
(* has that root, whatever the server's becomes later.                     *)
(***************************************************************************)
LocationsAreAsWritten ==
  LET Location(i) ==
        WrittenLocation(text[i].head, Reading(SubSeq(text, 1, i)), Reading(text).given)
  IN  Read => \A t \in location_type_t :
        server.locations[t] =
          [k \in 1 .. Cardinality(WrittenAs(t)) |-> Location(InOrder(WrittenAs(t))[k])]

(***************************************************************************)
(* "check that each location block will correspond to some root"           *)
(* (parse_functions.cpp:157): every location that is kept has a root, its  *)
(* own or the server's, and the upstreams it names are defined.            *)
(***************************************************************************)
LocationsCanBeServed ==
  \A t \in location_type_t : \A k \in DOMAIN server.locations[t] :
    LET l == server.locations[t][k]
    IN  /\ l.root \notin {NoRoot, <<>>}
        /\ ToSet(l.upstreams) \subseteq DOMAIN server.upstreams

(***************************************************************************)
(* An upstream has the settings its last line gives it, 1 and 80 by        *)
(* default, and counts as an ip address exactly if it is four numbers up   *)
(* to 255 with full stops between them.                                    *)
(***************************************************************************)
UpstreamsAreAsWritten ==
  LET lines == {k \in DOMAIN text : text[k].t = "upstream"}
      LineOf(a) ==
        text[SelectLastInSeq(text, LAMBDA i : i.t = "upstream" /\ i.entry.address = a)].entry
      IsDottedQuad(v) == /\ Len(v) = 7
                         /\ \A i \in {1, 3, 5, 7} : v[i] \in 0 .. 255
                         /\ \A i \in {2, 4, 6} : v[i] = Dot
  IN  Read =>
      /\ DOMAIN server.upstreams = {text[k].entry.address : k \in lines}
      /\ \A a \in DOMAIN server.upstreams :
           server.upstreams[a] =
             [weight |-> IF LineOf(a).weight = -1 THEN 1 ELSE LineOf(a).weight,
              port |-> IF LineOf(a).port = -1 THEN 80 ELSE LineOf(a).port,
              is_ip |-> IsDottedQuad(Spelling[a])]

(***************************************************************************)
(* "Invalid config file" (parse_functions.cpp:428) and the exception       *)
(* "listen port can be only integer" (server_settings.cpp:49): a           *)
(* configuration with a value that is refused is not accepted.             *)
(***************************************************************************)
RefusedMeansInvalid == refused => result # "accepted"
=============================================================================
