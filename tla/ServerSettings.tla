--------------------------- MODULE ServerSettings ---------------------------
(***************************************************************************)
(* The settings of a server: their properties and how they are set, the    *)
(* upstreams, the four lists of locations, and get_location(), which finds *)
(* the location of an url.                                                 *)
(*                                                                         *)
(* A property's name stands for itself.  A value is a name, too, and       *)
(* Spelling says what it is made of: runs of digits are numbers (Huge when *)
(* they are beyond an int), Dot is a full stop, Letter anything else.  An  *)
(* url is a sequence of characters.  A path is the sequence of the strings *)
(* it was put together from.                                               *)
(***************************************************************************)
EXTENDS Integers, SequencesExt

CONSTANTS
  Spelling,       \* what the values a file may give are made of
  BadPatterns,    \* the urls std::regex does not compile
  Urls            \* the urls clients ask for

Dot == -1
Letter == -2
Huge == -3

\* a run of digits ends where there are no more digits
ASSUME SpellingAssumption ==
  \A v \in DOMAIN Spelling :
    /\ Spelling[v] \in Seq(Nat \union {Dot, Letter, Huge})
    /\ \A i \in 1 .. Len(Spelling[v]) - 1 :
         Spelling[v][i] \in Nat \union {Huge} => Spelling[v][i + 1] \in {Dot, Letter}

\* std::stoi(): a number at the beginning will do
stoi_throws(text) == text = <<>> \/ Head(text) \in {Dot, Letter, Huge}

-----------------------------------------------------------------------------
(***************************************************************************)
(* Upstreams.                                                              *)
(***************************************************************************)
NotIp == -1

\* how much of the text is a number up to 255 with a full stop after it
is_sub_ip_num(text) ==
  IF text # <<>> /\ Head(text) \in 0 .. 255 /\ Len(text) > 1 /\ text[2] = Dot
    THEN 2 ELSE NotIp

\* Slip: three numbers with a full stop are enough
set_upstream_address_Prefix(text) ==
  LET At(i) == SubSeq(text, i, Len(text))
  IN  [is_ip |-> \A i \in {1, 3, 5} : is_sub_ip_num(At(i)) # NotIp, throws |-> FALSE]

(***************************************************************************)
(* Three times a number and its full stop, then nothing but digits.  The   *)
(* last number may be missing, which stoi does not take; nor does it take  *)
(* one beyond an int, wherever it stands.                                  *)
(***************************************************************************)
set_upstream_address(text) ==
  LET At(i) == SubSeq(text, i, Len(text))
      Reached(i) == \A j \in {1, 3, 5} : j < i => is_sub_ip_num(At(j)) # NotIp
      last == At(7)
      digits == \A i \in 1 .. Len(last) : last[i] \in Nat \union {Huge}
  IN  [is_ip |-> Reached(7) /\ digits /\ ~stoi_throws(last) /\ Head(last) \in 0 .. 255,
       throws |-> \/ \E i \in {1, 3, 5} : Reached(i) /\ At(i) # <<>> /\ Head(At(i)) = Huge
                  \/ Reached(7) /\ digits /\ stoi_throws(last)]

UpstreamSettings(address, weight, port) ==
  [weight |-> weight, port |-> port,
   is_ip |-> set_upstream_address(Spelling[address]).is_ip]

-----------------------------------------------------------------------------
(***************************************************************************)
(* Properties.  A property's number is its place in the vector of names,   *)
(* from 0; the enumerations repeat those numbers.                          *)
(***************************************************************************)
valid_properties ==
  <<"listen", "root", "access_log", "error_log", "location", "servername">>

valid_location_properties ==
  <<"root", "add_root", "access_log", "error_log", "proxy_path">>

numbers_of_properties ==
  [LISTEN_NUMBER |-> 0, ROOT_NUMBER |-> 1, ACCESS_LOG_NUMBER |-> 2,
   ERROR_LOG_NUMBER |-> 3, SERVERNAME_NUMBER |-> 5]

numbers_of_location_properties ==
  [ROOT_LOCATION_NUMBER |-> 0, ADD_ROOT_NUMBER |-> 1, ACCESS_LOG_LOCATION_NUMBER |-> 2,
   ERROR_LOG_LOCATION_NUMBER |-> 3, PROXY_PATH_LOCATION_NUMBER |-> 4]

\* Slip: counted from 1
get_number_of_property_FromOne(names, name) == SelectInSeq(names, LAMBDA n : n = name)

\* -1 for a name that is not there
get_number_of_property(names, name) == SelectInSeq(names, LAMBDA n : n = name) - 1

STATICS_FOLDER_PATH == "static"

location_type_t == {"EXACT_MATCH", "PREFERENTIAL_PREFIX", "REGEX_MATCH", "PREFIX_MATCH"}

\* what was never set is "", and "indeterminate" where the class has no initializer
NewServer ==
  [port |-> "indeterminate", servername |-> "", access_log_file |-> "",
   error_log_file |-> "", root |-> <<>>, is_root |-> FALSE,
   locations |-> [t \in location_type_t |-> <<>>], upstreams |-> <<>>]

set_property_throws(number, value) ==
  number = numbers_of_properties.LISTEN_NUMBER /\ stoi_throws(Spelling[value])

set_property(server, number, value) ==
  LET num == numbers_of_properties
  IN  CASE number = num.LISTEN_NUMBER     -> [server EXCEPT !.port = value]
        [] number = num.ACCESS_LOG_NUMBER -> [server EXCEPT !.access_log_file = value]
        [] number = num.ERROR_LOG_NUMBER  -> [server EXCEPT !.error_log_file = value]
        [] number = num.ROOT_NUMBER       ->
             [server EXCEPT !.root = <<STATICS_FOLDER_PATH, value>>, !.is_root = TRUE]
        [] number = num.SERVERNAME_NUMBER -> [server EXCEPT !.servername = value]
        [] OTHER -> server

set_location_property_throws(server, number, value) ==
  LET num == numbers_of_location_properties
  IN  \/ /\ number \in {num.ACCESS_LOG_LOCATION_NUMBER, num.ERROR_LOG_LOCATION_NUMBER}
         /\ value \notin {"on", "off"}
      \/ /\ number = num.PROXY_PATH_LOCATION_NUMBER
         /\ value \notin DOMAIN server.upstreams

\* Slip: add_root adds to the location's own root
set_location_property_OwnRoot(server, number, value, location) ==
  LET num == numbers_of_location_properties
  IN  CASE number = num.ROOT_LOCATION_NUMBER ->
             [location EXCEPT !.root = <<STATICS_FOLDER_PATH, value>>]
        [] number = num.ADD_ROOT_NUMBER -> [location EXCEPT !.root = Append(@, value)]
        [] number = num.PROXY_PATH_LOCATION_NUMBER ->
             [location EXCEPT !.is_proxy = TRUE, !.upstreams = Append(@, value)]
        [] OTHER -> location

\* a pointer to an upstream is the key of its node in the map
set_location_property(server, number, value, location) ==
  LET num == numbers_of_location_properties
  IN  CASE number = num.ROOT_LOCATION_NUMBER ->
             [location EXCEPT !.root = <<STATICS_FOLDER_PATH, value>>]
        [] number = num.ADD_ROOT_NUMBER ->
             [location EXCEPT !.root = Append(server.root, value)]
        [] number = num.ACCESS_LOG_LOCATION_NUMBER -> [location EXCEPT !.is_access_log = value]
        [] number = num.ERROR_LOG_LOCATION_NUMBER  -> [location EXCEPT !.is_error_log = value]
        [] number = num.PROXY_PATH_LOCATION_NUMBER ->
             [location EXCEPT !.is_proxy = TRUE, !.upstreams = Append(@, value)]
        [] OTHER -> location

\* table[key] = value of a std::map
Put(table, key, value) ==
  [k \in {key} \union DOMAIN table |-> IF k = key THEN value ELSE table[k]]

add_upstream(server, address, weight, port) ==
  [server EXCEPT !.upstreams = Put(@, address, UpstreamSettings(address, weight, port))]

\* add_exact_match_url and the like
add_location(server, type, location) ==
  [server EXCEPT !.locations[type] = Append(@, location)]

-----------------------------------------------------------------------------
(***************************************************************************)
(* Finding the location of an url.                                         *)
(***************************************************************************)
tolower(url) == [i \in 1 .. Len(url) |-> IF url[i] = "A" THEN "a" ELSE url[i]]

\* "." is any character
regex_match(url, pattern) ==
  /\ Len(url) = Len(pattern)
  /\ \A i \in 1 .. Len(url) : pattern[i] \in {".", url[i]}

Fits(type, url, location) ==
  CASE type = "EXACT_MATCH" -> url = location.url
    [] type = "REGEX_MATCH" -> regex_match(url, location.url)
    [] OTHER -> IsPrefix(location.url, url)

\* the url in lower case is tried first where case does not count
Matches(type, url, location) ==
  \/ ~location.case_sensitive /\ Fits(type, tolower(url), location)
  \/ Fits(type, url, location)

\* the first location of a list that matches, or whose pattern makes std::regex throw
FirstOf(server, type, url) ==
  SelectInSeq(server.locations[type],
              LAMBDA l : \/ type = "REGEX_MATCH" /\ l.url \in BadPatterns
                         \/ Matches(type, url, l))

\* Slip: patterns are tried after prefixes
Passes_RegexLast == <<"EXACT_MATCH", "PREFERENTIAL_PREFIX", "PREFIX_MATCH", "REGEX_MATCH">>

Passes == <<"EXACT_MATCH", "PREFERENTIAL_PREFIX", "REGEX_MATCH", "PREFIX_MATCH">>

NoLocation == [type |-> "none", place |-> 0]

\* the list and the place in it; NoLocation when an exception says there is none
get_location(server, url) ==
  LET pass == SelectInSeq(Passes, LAMBDA t : FirstOf(server, t, url) # 0)
      type == Passes[pass]
      place == FirstOf(server, type, url)
  IN  IF \/ pass = 0
         \/ type = "REGEX_MATCH" /\ server.locations[type][place].url \in BadPatterns
        THEN NoLocation
        ELSE [type |-> type, place |-> place]
=============================================================================
