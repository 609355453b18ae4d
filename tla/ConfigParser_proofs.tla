------------------------ MODULE ConfigParser_proofs ------------------------
(***************************************************************************)
(* Proofs about ConfigParser, for files of any length: the type invariant; *)
(* that every location the parser keeps can be served; that its flags and  *)
(* states agree with the braces of the text; that the settings are those   *)
(* given last; and that the upstreams and the locations are those written. *)
(*                                                                         *)
(* ParserInv is the inductive invariant of the parser alone: it gives the  *)
(* settings their types, and says of the location that is being built what *)
(* LocationsCanBeServed says of those that are kept, but for the root that *)
(* is still to come.  NestingInv, SettingsInv, UpstreamsInv and            *)
(* LocationsInv relate the parser's state to the reading of the text, a    *)
(* fold that one item more moves on by one step (ReadingGrows).            *)
(***************************************************************************)
EXTENDS ConfigParser, FiniteSetTheorems, SequenceTheorems, TLAPS

\* the reading of the text, as a fold
Reader == INSTANCE FoldLemmas WITH Op <- ReadOne, Base <- NothingRead

(* A set of numbers that is not empty has a least one, and one of places a *)
(* greatest.                                                               *)
LEMMA LeastOf ==
    ASSUME NEW I \in SUBSET Nat, I # {}
    PROVE  Min(I) \in I /\ \A j \in I : Min(I) <= j
BY Reader!LeastOf DEF Min, Reader!Min

LEMMA GreatestOf ==
    ASSUME NEW n \in Nat, NEW I \in SUBSET (1 .. n), I # {}
    PROVE  Max(I) \in I /\ \A j \in I : Max(I) >= j
BY Reader!GreatestOf DEF Max, Reader!Max

---------------------------------------------------------------------------
(* The operators the parser is built from.                                 *)

(* The number of a property is its place in the list, or -1.               *)
LEMMA NumberIsAPlace ==
    ASSUME NEW n \in Nat, NEW names, Len(names) = n, NEW name
    PROVE  /\ get_number_of_property(names, name) \in -1 .. n - 1
           /\ Contains(names, name) => get_number_of_property(names, name) >= 0
<1> DEFINE I == {i \in 1 .. Len(names) : names[i] = name}
<1>1. get_number_of_property(names, name) = (IF I # {} THEN Min(I) ELSE 0) - 1
  BY DEF get_number_of_property, SelectInSeq
<1>2. I \in SUBSET Nat /\ I \subseteq 1 .. Len(names)
  OBVIOUS
<1>3. Contains(names, name) <=> I # {}
  BY DEF Contains
<1> HIDE DEF I
<1>4. CASE I # {}
  <2>1. Min(I) \in I
    BY <1>2, <1>4, LeastOf
  <2>2. Min(I) \in 1 .. Len(names)
    BY <1>2, <2>1
  <2> QED
    BY <1>1, <1>4, <2>2
<1> QED
  BY <1>1, <1>3, <1>4

(* Which items are the lexemes that carry something.                       *)
LEMMA LexemesOfItems ==
    ASSUME NEW item \in Item, NEW names
    PROVE  LET l == get_lexem(item, names) IN
           /\ l \in lexem_t
           /\ l = "L_VALUE" => item.t = "value" /\ item.value \in Values
           /\ l = "L_KEY" => \/ item.t = "bare"
                             \/ item.t = "name" /\ Contains(names, item.name)
           /\ l = "L_LOCATION" => item.t = "location" /\ item.head \in Heads
<1>1. /\ DOMAIN PlainLexem = {"http", "newline", "value", "bare", "{", "}"}
      /\ PlainLexem["http"] = "L_PROTOCOL" /\ PlainLexem["newline"] = "L_NEW_LINE"
      /\ PlainLexem["value"] = "L_VALUE" /\ PlainLexem["bare"] = "L_KEY"
      /\ PlainLexem["{"] = "L_BRACE_OPEN" /\ PlainLexem["}"] = "L_BRACE_CLOSE"
  BY DEF PlainLexem
<1>2. /\ DOMAIN KeywordLexem = {"server", "location", "upstreams"}
      /\ KeywordLexem["server"] = "L_SERVER_START"
      /\ KeywordLexem["location"] = "L_LOCATION"
      /\ KeywordLexem["upstreams"] = "L_UPSTREAM"
  BY DEF KeywordLexem
<1>3. /\ item.t = "value" => item.value \in Values
      /\ item.t = "location" => item.head \in Heads
  BY DEF Item
<1> HIDE DEF Item
<1>4. CASE item.t \in DOMAIN PlainLexem
  <2>0. item.t # "name" /\ item.t \notin DOMAIN KeywordLexem
    BY <1>1, <1>2, <1>4
  <2>1. get_lexem(item, names) = PlainLexem[item.t]
    BY <2>0, <1>4 DEF get_lexem
  <2> QED
    BY <1>1, <1>3, <1>4, <2>1 DEF lexem_t
<1>5. CASE item.t = "name" /\ Contains(names, item.name)
  <2>1. get_lexem(item, names) = "L_KEY"
    BY <1>1, <1>2, <1>5 DEF get_lexem
  <2> QED
    BY <1>5, <2>1 DEF lexem_t
<1>6. CASE item.t \in DOMAIN KeywordLexem /\ Contains(names, item.t)
  <2>1. get_lexem(item, names) = KeywordLexem[item.t]
    BY <1>1, <1>2, <1>6 DEF get_lexem
  <2> QED
    BY <1>2, <1>3, <1>6, <2>1 DEF lexem_t
<1>7. CASE /\ item.t \notin DOMAIN PlainLexem
           /\ ~(item.t = "name" /\ Contains(names, item.name))
           /\ ~(item.t \in DOMAIN KeywordLexem /\ Contains(names, item.t))
  <2>1. get_lexem(item, names) = "L_ERR"
    BY <1>7 DEF get_lexem
  <2> QED
    BY <2>1 DEF lexem_t
<1> QED
  BY <1>4, <1>5, <1>6, <1>7

---------------------------------------------------------------------------
(* The types of what the parser builds.                                    *)

Path == Seq(Values \cup {STATICS_FOLDER_PATH, "\n"})

GoodHeads == {h \in Heads : ~h.malformed}

LocationType ==
    [url : {h.url : h \in GoodHeads}, case_sensitive : BOOLEAN, root : Path,
     upstreams : Seq(Values), is_proxy : BOOLEAN,
     is_access_log : Values \cup {"indeterminate"},
     is_error_log : Values \cup {"indeterminate"}]

BuildingType ==
    [state : {"S_KEY", "S_VALUE"}, type : location_type_t,
     property_number : -1 .. 4, location : LocationType]

UpstreamType == [weight : Nat, port : Nat, is_ip : BOOLEAN]

ServerType ==
    [port : Values \cup {"indeterminate"}, servername : Values \cup {""},
     access_log_file : Values \cup {""}, error_log_file : Values \cup {""},
     root : Path, is_root : BOOLEAN,
     locations : [location_type_t -> Seq(LocationType)],
     upstreams : UNION {[S -> UpstreamType] : S \in SUBSET DOMAIN Spelling}]

MainType ==
    [count_workflows : Values \cup {"4"}, access_log_file : Values \cup {""},
     error_log_file : Values \cup {""}]

ParserTyped ==
    /\ pc \in {"parse_config", "parse_location", "parse_upstreams", "done"}
    /\ state \in state_t
    /\ is_server_adding \in BOOLEAN /\ refused \in BOOLEAN
    /\ property_number \in -1 .. 5
    /\ main \in MainType
    /\ server \in ServerType
    /\ location \in BuildingType \cup {NotInLocation}
    /\ pc = "parse_location" => location \in BuildingType
    /\ result \in {"reading", "accepted", "invalid", "uncaught"}
    /\ (pc = "done") = (result # "reading")

---------------------------------------------------------------------------
(* The inductive invariant.                                                *)

(* The upstreams a location names are those of server s.                   *)
NamesUpstreamsOf(l, s) == \A i \in 1 .. Len(l.upstreams) : l.upstreams[i] \in DOMAIN s.upstreams

CanBeServed(l, s) == l.root \notin {NoRoot, <<>>} /\ NamesUpstreamsOf(l, s)

ServerServes(s) ==
    /\ s.is_root => s.root # <<>>
    /\ \A t \in location_type_t : \A k \in 1 .. Len(s.locations[t]) :
          CanBeServed(s.locations[t][k], s)

ParserInv ==
    /\ ParserTyped
    /\ ServerServes(server)
    /\ pc = "parse_location" =>
          location.location.root # <<>> /\ NamesUpstreamsOf(location.location, server)

(* Every change of the server's settings keeps what there is.              *)
Extends(s, old) ==
    /\ s.locations = old.locations
    /\ DOMAIN old.upstreams \subseteq DOMAIN s.upstreams
    /\ s.is_root => s.root # <<>>

LEMMA ExtendsServes ==
    ASSUME NEW s, NEW old, Extends(s, old), ServerServes(old)
    PROVE  /\ ServerServes(s)
           /\ \A l : NamesUpstreamsOf(l, old) => NamesUpstreamsOf(l, s)
BY DEF Extends, ServerServes, CanBeServed, NamesUpstreamsOf

LEMMA SetPropertyType ==
    ASSUME NEW s \in ServerType, ServerServes(s), NEW number, NEW value \in Values
    PROVE  /\ set_property(s, number, value) \in ServerType
           /\ Extends(set_property(s, number, value), s)
<1> DEFINE root == <<STATICS_FOLDER_PATH, value>>
<1>1. root \in Path /\ root # <<>>
  BY DEF Path
<1>2. s.is_root => s.root # <<>>
  BY DEF ServerServes
<1> HIDE DEF root
<1>3. /\ [s EXCEPT !.port = value] \in ServerType
      /\ Extends([s EXCEPT !.port = value], s)
  BY <1>2 DEF ServerType, Extends
<1>4. /\ [s EXCEPT !.access_log_file = value] \in ServerType
      /\ Extends([s EXCEPT !.access_log_file = value], s)
  BY <1>2 DEF ServerType, Extends
<1>5. /\ [s EXCEPT !.error_log_file = value] \in ServerType
      /\ Extends([s EXCEPT !.error_log_file = value], s)
  BY <1>2 DEF ServerType, Extends
<1>6. /\ [s EXCEPT !.root = root, !.is_root = TRUE] \in ServerType
      /\ Extends([s EXCEPT !.root = root, !.is_root = TRUE], s)
  BY <1>1 DEF ServerType, Extends
<1>7. /\ [s EXCEPT !.servername = value] \in ServerType
      /\ Extends([s EXCEPT !.servername = value], s)
  BY <1>2 DEF ServerType, Extends
<1>8. s \in ServerType /\ Extends(s, s)
  BY <1>2 DEF Extends
<1>9. \/ set_property(s, number, value) = [s EXCEPT !.port = value]
      \/ set_property(s, number, value) = [s EXCEPT !.access_log_file = value]
      \/ set_property(s, number, value) = [s EXCEPT !.error_log_file = value]
      \/ set_property(s, number, value) = [s EXCEPT !.root = root, !.is_root = TRUE]
      \/ set_property(s, number, value) = [s EXCEPT !.servername = value]
      \/ set_property(s, number, value) = s
  BY DEF set_property, numbers_of_properties, root
<1> QED
  BY <1>3, <1>4, <1>5, <1>6, <1>7, <1>8, <1>9

LEMMA AddUpstreamType ==
    ASSUME NEW s \in ServerType, ServerServes(s), NEW address \in DOMAIN Spelling,
           NEW weight \in Nat, NEW port \in Nat
    PROVE  /\ add_upstream(s, address, weight, port) \in ServerType
           /\ Extends(add_upstream(s, address, weight, port), s)
<1> DEFINE u == UpstreamSettings(address, weight, port)
           table == Put(s.upstreams, address, u)
<1>1. u \in UpstreamType
  BY DEF UpstreamSettings, UpstreamType, set_upstream_address
<1>2. PICK S \in SUBSET DOMAIN Spelling : s.upstreams \in [S -> UpstreamType]
  BY DEF ServerType
<1> HIDE DEF u
<1>3. table \in [{address} \cup S -> UpstreamType] /\ S \subseteq DOMAIN table
  BY <1>1, <1>2 DEF Put
<1>4. table \in UNION {[T -> UpstreamType] : T \in SUBSET DOMAIN Spelling}
  BY <1>3
<1>5. add_upstream(s, address, weight, port) = [s EXCEPT !.upstreams = table]
  BY DEF add_upstream, u
<1> HIDE DEF table
<1>6. [s EXCEPT !.upstreams = table] \in ServerType
  BY <1>4 DEF ServerType
<1>7. Extends([s EXCEPT !.upstreams = table], s)
  BY <1>2, <1>3 DEF Extends, ServerServes, ServerType
<1> QED
  BY <1>5, <1>6, <1>7

LEMMA AddLocationType ==
    ASSUME NEW s \in ServerType, ServerServes(s), NEW t \in location_type_t,
           NEW l \in LocationType, CanBeServed(l, s)
    PROVE  /\ add_location(s, t, l) \in ServerType
           /\ ServerServes(add_location(s, t, l))
<1> DEFINE list == Append(s.locations[t], l)
           lists == [s.locations EXCEPT ![t] = list]
<1>1. s.locations \in [location_type_t -> Seq(LocationType)]
  BY DEF ServerType
<1>2. /\ list \in Seq(LocationType) /\ Len(list) = Len(s.locations[t]) + 1
      /\ Len(s.locations[t]) \in Nat
      /\ \A k \in 1 .. Len(s.locations[t]) : list[k] = s.locations[t][k]
      /\ list[Len(s.locations[t]) + 1] = l
  BY <1>1, AppendProperties, LenProperties
<1>3. \A k \in 1 .. Len(list) : CanBeServed(list[k], s)
  BY <1>2 DEF ServerServes
<1>4. add_location(s, t, l) = [s EXCEPT !.locations = lists]
  BY DEF add_location, ServerType
<1> HIDE DEF list
<1>5. lists \in [location_type_t -> Seq(LocationType)]
  BY <1>1, <1>2
<1>6. \A r \in location_type_t : lists[r] = IF r = t THEN list ELSE s.locations[r]
  BY <1>1
<1> HIDE DEF lists
<1>7. [s EXCEPT !.locations = lists] \in ServerType
  BY <1>5 DEF ServerType
<1> DEFINE z == [s EXCEPT !.locations = lists]
<1>8. z.locations = lists /\ z.upstreams = s.upstreams /\ z.is_root = s.is_root /\ z.root = s.root
  BY DEF ServerType
<1> HIDE DEF z
<1>9. \A n : CanBeServed(n, s) => CanBeServed(n, z)
  BY <1>8 DEF CanBeServed, NamesUpstreamsOf
<1>10. ServerServes(z)
  <2> SUFFICES ASSUME NEW r \in location_type_t, NEW k \in 1 .. Len(z.locations[r])
               PROVE  CanBeServed(z.locations[r][k], z)
    BY <1>8 DEF ServerServes
  <2>1. CASE r = t
    <3>1. z.locations[r] = list
      BY <1>6, <1>8, <2>1
    <3> QED
      BY <1>3, <1>9, <3>1
  <2>2. CASE r # t
    <3>1. z.locations[r] = s.locations[r]
      BY <1>6, <1>8, <2>2
    <3>2. CanBeServed(s.locations[r][k], s)
      BY <3>1 DEF ServerServes
    <3> QED
      BY <1>9, <3>1, <3>2
  <2> QED
    BY <2>1, <2>2
<1> QED
  BY <1>4, <1>7, <1>10 DEF z

LEMMA SetLocationPropertyType ==
    ASSUME NEW s \in ServerType, NEW number, NEW value \in Values, NEW l \in LocationType,
           ~set_location_property_throws(s, number, value),
           l.root # <<>>, NamesUpstreamsOf(l, s)
    PROVE  LET n == set_location_property(s, number, value, l) IN
           n \in LocationType /\ n.root # <<>> /\ NamesUpstreamsOf(n, s)
<1> DEFINE root == <<STATICS_FOLDER_PATH, value>>
           longer == Append(s.root, value)
           list == Append(l.upstreams, value)
<1>1. root \in Path /\ root # <<>>
  BY DEF Path
<1>2. longer \in Path /\ longer # <<>>
  <2>1. s.root \in Path
    BY DEF ServerType
  <2>2. \A S : \A q \in Seq(S), e \in S : Append(q, e) \in Seq(S) /\ Append(q, e) # <<>>
    BY AppendProperties
  <2>3. value \in Values \cup {STATICS_FOLDER_PATH, "\n"}
    OBVIOUS
  <2> HIDE DEF longer
  <2>4. longer = Append(s.root, value)
    BY DEF longer
  <2> QED
    BY <2>1, <2>2, <2>3, <2>4 DEF Path
<1>3. /\ list \in Seq(Values) /\ Len(list) = Len(l.upstreams) + 1
      /\ Len(l.upstreams) \in Nat
      /\ \A i \in 1 .. Len(l.upstreams) : list[i] = l.upstreams[i]
      /\ list[Len(l.upstreams) + 1] = value
  BY AppendProperties, LenProperties DEF LocationType
<1> HIDE DEF root, longer, list
<1>4. LET n == [l EXCEPT !.root = root] IN
      n \in LocationType /\ n.root # <<>> /\ NamesUpstreamsOf(n, s)
  BY <1>1 DEF LocationType, NamesUpstreamsOf
<1>5. LET n == [l EXCEPT !.root = longer] IN
      n \in LocationType /\ n.root # <<>> /\ NamesUpstreamsOf(n, s)
  BY <1>2 DEF LocationType, NamesUpstreamsOf
<1>6. LET n == [l EXCEPT !.is_access_log = value] IN
      n \in LocationType /\ n.root # <<>> /\ NamesUpstreamsOf(n, s)
  BY DEF LocationType, NamesUpstreamsOf
<1>7. LET n == [l EXCEPT !.is_error_log = value] IN
      n \in LocationType /\ n.root # <<>> /\ NamesUpstreamsOf(n, s)
  BY DEF LocationType, NamesUpstreamsOf
<1>8. number = numbers_of_location_properties.PROXY_PATH_LOCATION_NUMBER
        => value \in DOMAIN s.upstreams
  BY DEF set_location_property_throws
<1>9. value \in DOMAIN s.upstreams =>
      LET n == [l EXCEPT !.is_proxy = TRUE, !.upstreams = list] IN
      n \in LocationType /\ n.root # <<>> /\ NamesUpstreamsOf(n, s)
  <2>1. value \in DOMAIN s.upstreams =>
          \A i \in 1 .. Len(list) : list[i] \in DOMAIN s.upstreams
    BY <1>3 DEF NamesUpstreamsOf
  <2> QED
    BY <1>3, <2>1 DEF LocationType, NamesUpstreamsOf
<1>a. LET n == set_location_property(s, number, value, l) IN
      \/ n = [l EXCEPT !.root = root]
      \/ n = [l EXCEPT !.root = longer]
      \/ n = [l EXCEPT !.is_access_log = value]
      \/ n = [l EXCEPT !.is_error_log = value]
      \/ /\ n = [l EXCEPT !.is_proxy = TRUE, !.upstreams = list]
         /\ value \in DOMAIN s.upstreams
      \/ n = l
  <2>1. [l EXCEPT !.is_proxy = TRUE, !.upstreams = Append(@, value)]
          = [l EXCEPT !.is_proxy = TRUE, !.upstreams = list]
    BY DEF LocationType, list
  <2> QED
    BY <1>8, <2>1 DEF set_location_property, numbers_of_location_properties, root, longer
<1> QED
  BY <1>4, <1>5, <1>6, <1>7, <1>9, <1>a

---------------------------------------------------------------------------
(* The steps of the parser.                                                *)

LEMMA StagesType ==
    ASSUME NEW s \in state_t, NEW l \in lexem_t
    PROVE  stages[<<s, l>>] \in state_t
<1>1. "S_ERR" \in state_t
  BY DEF state_t
<1>2. stages[<<s, l>>] = IF \E n \in state_t : <<s, l, n>> \in Edges
                         THEN CHOOSE n \in state_t : <<s, l, n>> \in Edges
                         ELSE "S_ERR"
  BY DEF stages
<1> QED
  BY <1>1, <1>2

LEMMA InitParserInv == Init => ParserInv
<1> SUFFICES ASSUME Init PROVE ParserInv
  OBVIOUS
<1>1. NewServer \in ServerType
  <2>1. <<>> \in [{} -> UpstreamType]
    OBVIOUS
  <2>2. <<>> \in UNION {[S -> UpstreamType] : S \in SUBSET DOMAIN Spelling}
    BY <2>1
  <2>3. <<>> \in Path
    BY DEF Path
  <2>4. [t \in location_type_t |-> <<>>] \in [location_type_t -> Seq(LocationType)]
    OBVIOUS
  <2> QED
    BY <2>2, <2>3, <2>4 DEF NewServer, ServerType
<1>2. ServerServes(NewServer)
  BY DEF ServerServes, NewServer
<1>3. main \in MainType
  BY DEF Init, MainType
<1> QED
  <2>1. /\ pc = "parse_config" /\ state = "S_START" /\ is_server_adding = FALSE
        /\ refused = FALSE /\ property_number = -1 /\ location = NotInLocation
        /\ result = "reading" /\ server = NewServer
    BY Zenon DEF Init
  <2>2. state \in state_t /\ is_server_adding \in BOOLEAN /\ refused \in BOOLEAN
    BY <2>1 DEF state_t
  <2>3. property_number \in -1 .. 5
    BY <2>1
  <2>4. ParserTyped
    BY <1>1, <1>3, <2>1, <2>2, <2>3 DEF ParserTyped
  <2> QED
    BY <1>2, <2>1, <2>4 DEF ParserInv

(* The ends of the parser leave the settings alone.                        *)
LEMMA EndsKeep ==
    ASSUME ParserInv, Invalid \/ Throw \/ Refuse
    PROVE  ParserInv'
<1>1. /\ pc' = "done" /\ result' \in {"invalid", "uncaught", "accepted"}
      /\ state' = state \/ state' = "S_ERR"
      /\ refused' = refused \/ refused' = TRUE
      /\ UNCHANGED <<is_server_adding, property_number, location, main, server>>
  BY DEF Invalid, Throw, Refuse, Return
<1>2. "S_ERR" \in state_t
  BY DEF state_t
<1>3. ParserTyped'
  BY <1>1, <1>2 DEF ParserInv, ParserTyped
<1> QED
  BY <1>1, <1>3 DEF ParserInv

(* A step of parse_config, or of parse_upstreams, that only moves on.      *)
LEMMA ConfigMoves ==
    ASSUME ParserInv, pc' \in {"parse_config", "parse_upstreams"}, pc # "done",
           state' \in state_t, is_server_adding' \in BOOLEAN, property_number' \in -1 .. 5,
           main' \in MainType, server' \in ServerType, ServerServes(server'),
           location' \in {location, NotInLocation}, UNCHANGED <<result, refused>>
    PROVE  ParserInv'
<1>1. ParserTyped'
  BY DEF ParserInv, ParserTyped
<1> QED
  BY <1>1 DEF ParserInv

LEMMA ConfigKeeps ==
    ASSUME ParserInv, NEW item \in Item,
           Opening(item) \/ ServerStart(item) \/ BraceClose(item) \/ UpstreamsStart(item)
    PROVE  ParserInv'
<1>1. pc = "parse_config" /\ state \in state_t /\ result = "reading"
  BY DEF ParserInv, ParserTyped, Opening, ServerStart, BraceClose, UpstreamsStart, Lexed
<1>2. \A l \in lexem_t : stages[<<state, l>>] \in state_t
  BY <1>1, StagesType
<1>3. /\ "S_SERVER_START" \in state_t /\ "S_UPSTREAM" \in state_t /\ "S_END" \in state_t
      /\ "L_SERVER_END" \in lexem_t
      /\ {"L_PROTOCOL", "L_BRACE_OPEN", "L_NEW_LINE"} \subseteq lexem_t
  BY DEF state_t, lexem_t
<1>4. /\ is_server_adding \in BOOLEAN /\ property_number \in -1 .. 5 /\ main \in MainType
      /\ server \in ServerType /\ ServerServes(server)
  BY DEF ParserInv, ParserTyped
<1>5. CASE Opening(item)
  BY <1>1, <1>2, <1>3, <1>4, <1>5, ConfigMoves DEF Opening, GoOn
<1>6. CASE ServerStart(item)
  BY <1>1, <1>3, <1>4, <1>6, ConfigMoves DEF ServerStart, GoOn
<1>7. CASE BraceClose(item)
  <2>1. /\ is_server_adding' = FALSE
        /\ UNCHANGED <<property_number, location, main, server, refused>>
    BY <1>7 DEF BraceClose
  <2>2. CASE is_server_adding
    BY <1>1, <1>2, <1>3, <1>4, <1>7, <2>1, <2>2, ConfigMoves DEF BraceClose
  <2>3. CASE ~is_server_adding
    <3>1. pc' = "done" /\ result' = "accepted" /\ state' = "S_END"
      BY <1>7, <2>3 DEF BraceClose, Return
    <3>2. ParserTyped'
      BY <1>3, <2>1, <3>1 DEF ParserInv, ParserTyped
    <3> QED
      BY <2>1, <3>1, <3>2 DEF ParserInv
  <2> QED
    BY <2>2, <2>3
<1>8. CASE UpstreamsStart(item)
  BY <1>1, <1>3, <1>4, <1>8, EndsKeep, ConfigMoves DEF UpstreamsStart, GoOn
<1> QED
  BY <1>5, <1>6, <1>7, <1>8

LEMMA KeyKeeps ==
    ASSUME ParserInv, NEW item \in Item, Key(item)
    PROVE  ParserInv'
<1>1. pc = "parse_config" /\ state \in state_t /\ result = "reading"
  BY DEF ParserInv, ParserTyped, Key, Lexed
<1>2. /\ is_server_adding \in BOOLEAN /\ main \in MainType
      /\ server \in ServerType /\ ServerServes(server)
  BY DEF ParserInv, ParserTyped
<1>3. Len(valid) = 6
  BY DEF valid, valid_properties, main_valid_properties
<1>4. NumberOf(item, valid) \in -1 .. 5
  <2>1. get_number_of_property(valid, item.name) \in -1 .. 6 - 1
    BY <1>3, NumberIsAPlace
  <2> QED
    BY <1>3, <2>1 DEF NumberOf
<1>5. "S_VALUE" \in state_t
  BY DEF state_t
<1> QED
  BY <1>1, <1>2, <1>4, <1>5, EndsKeep, ConfigMoves DEF Key, GoOn

LEMMA ValueKeeps ==
    ASSUME ParserInv, NEW item \in Item, ServerValue(item) \/ MainValue(item)
    PROVE  ParserInv'
<1>1. pc = "parse_config" /\ state \in state_t /\ result = "reading"
  BY DEF ParserInv, ParserTyped, ServerValue, MainValue, Lexed
<1>2. /\ is_server_adding \in BOOLEAN /\ property_number \in -1 .. 5 /\ main \in MainType
      /\ server \in ServerType /\ ServerServes(server)
  BY DEF ParserInv, ParserTyped
<1>3. item.value \in Values
  BY LexemesOfItems DEF ServerValue, MainValue, Lexed
<1>4. "S_KEY" \in state_t
  BY DEF state_t
<1>5. \A number : /\ set_property(server, number, item.value) \in ServerType
                  /\ ServerServes(set_property(server, number, item.value))
  BY <1>2, <1>3, SetPropertyType, ExtendsServes
<1>6. CASE ServerValue(item)
  BY <1>1, <1>2, <1>4, <1>5, <1>6, EndsKeep, ConfigMoves DEF ServerValue, GoOn
<1>7. CASE MainValue(item)
  <2>1. CASE Refuse
    BY <2>1, EndsKeep
  <2>2. CASE main_set_property(property_number, item.value) /\ state' = "S_KEY" /\ GoOn(item)
             /\ UNCHANGED <<pc, is_server_adding, property_number, location>>
    <3>1. /\ [main EXCEPT !.count_workflows = item.value] \in MainType
          /\ [main EXCEPT !.access_log_file = item.value] \in MainType
          /\ [main EXCEPT !.error_log_file = item.value] \in MainType
      BY <1>2, <1>3 DEF MainType
    <3>2. main' \in MainType /\ server' \in ServerType /\ ServerServes(server')
      BY <1>2, <1>5, <2>2, <3>1 DEF main_set_property, main_numbers
    <3> QED
      BY <1>1, <1>2, <1>4, <2>2, <3>2, ConfigMoves DEF GoOn
  <2> QED
    BY <1>7, <2>1, <2>2 DEF MainValue
<1> QED
  BY <1>6, <1>7

LEMMA LocationStartKeeps ==
    ASSUME ParserInv, NEW item \in Item, LocationStart(item)
    PROVE  ParserInv'
<1>1. pc = "parse_config" /\ state \in state_t /\ result = "reading"
  BY DEF ParserInv, ParserTyped, LocationStart, Lexed
<1>2. /\ server \in ServerType /\ ServerServes(server)
  BY DEF ParserInv, ParserTyped
<1>3. item.head \in Heads
  BY LexemesOfItems DEF LocationStart, Lexed
<1>4. CASE Invalid
  BY <1>4, EndsKeep
<1>5. CASE /\ ~item.head.malformed
           /\ pc' = "parse_location" /\ state' = "S_LOCATION"
           /\ location' = NewLocation(item.head)
           /\ GoOn(item)
           /\ UNCHANGED <<is_server_adding, property_number, main, server>>
  <2> DEFINE root == IF server.is_root THEN server.root ELSE NoRoot
             l == NewLocation(item.head)
  <2>1. item.head.type \in location_type_t /\ item.head.case_sensitive \in BOOLEAN
    BY <1>3, <1>5, HeadsAssumption
  <2>2. item.head.url \in {h.url : h \in GoodHeads}
    BY <1>3, <1>5 DEF GoodHeads
  <2>3. NoRoot \in Path /\ NoRoot # <<>>
    BY DEF NoRoot, Path
  <2>4. root \in Path /\ root # <<>>
    BY <1>2, <2>3 DEF ServerType, ServerServes
  <2>5. <<>> \in Seq(Values) /\ Len(<<>>) = 0
    OBVIOUS
  <2> HIDE DEF root
  <2>6. l = [state |-> "S_KEY", type |-> item.head.type, property_number |-> -1,
             location |-> [url |-> item.head.url, case_sensitive |-> item.head.case_sensitive,
                           root |-> root, upstreams |-> <<>>, is_proxy |-> FALSE,
                           is_access_log |-> "indeterminate",
                           is_error_log |-> "indeterminate"]]
    BY DEF NewLocation, root
  <2> HIDE DEF l
  <2>7. /\ l \in BuildingType /\ l.location.root # <<>> /\ l.location.upstreams = <<>>
    BY <2>1, <2>2, <2>4, <2>5, <2>6 DEF BuildingType, LocationType
  <2>8. location' = l /\ UNCHANGED server
    BY <1>5 DEF l
  <2>9. ParserTyped'
    BY <1>1, <1>5, <2>7, <2>8 DEF ParserInv, ParserTyped, GoOn, state_t
  <2> QED
    BY <1>2, <2>7, <2>8, <2>9 DEF ParserInv, NamesUpstreamsOf
<1> QED
  BY <1>4, <1>5 DEF LocationStart

(* A step of parse_location that stays in the block.                       *)
LEMMA LocationMoves ==
    ASSUME ParserInv, NEW item \in Item, NEW loc \in BuildingType, pc = "parse_location",
           loc.location.root # <<>>, NamesUpstreamsOf(loc.location, server),
           LocationGoesOn(item, loc)
    PROVE  ParserInv'
<1>1. ParserTyped'
  BY DEF ParserInv, ParserTyped, LocationGoesOn, GoOn
<1> QED
  BY <1>1 DEF ParserInv, LocationGoesOn

LEMMA LocationKeeps ==
    ASSUME ParserInv, NEW item \in Item,
           LocationNewLine(item) \/ LocationKey(item) \/ LocationValue(item)
    PROVE  ParserInv'
<1>1. /\ pc = "parse_location" /\ location \in BuildingType
      /\ location.location.root # <<>> /\ NamesUpstreamsOf(location.location, server)
      /\ server \in ServerType
  BY DEF ParserInv, ParserTyped, LocationNewLine, LocationKey, LocationValue, InLocation
<1>2. CASE LocationNewLine(item)
  BY <1>1, <1>2, LocationMoves DEF LocationNewLine
<1>3. CASE LocationKey(item)
  <2> DEFINE n == NumberOf(item, valid_location_properties)
             loc == [location EXCEPT !.state = "S_VALUE", !.property_number = n]
  <2>1. n \in -1 .. 4
    <3>1. Len(valid_location_properties) = 5
      BY DEF valid_location_properties
    <3>2. get_number_of_property(valid_location_properties, item.name) \in -1 .. 5 - 1
      BY <3>1, NumberIsAPlace
    <3> QED
      BY <3>2 DEF NumberOf
  <2> HIDE DEF n
  <2>2. loc \in BuildingType /\ loc.location = location.location
    BY <1>1, <2>1 DEF BuildingType
  <2>3. LocationGoesOn(item, loc)
    BY <1>3 DEF LocationKey, n
  <2> HIDE DEF loc
  <2> QED
    BY <1>1, <2>2, <2>3, LocationMoves
<1>4. CASE LocationValue(item)
  <2> DEFINE n == location.property_number
             l == set_location_property(server, n, item.value, location.location)
             loc == [location EXCEPT !.state = "S_KEY", !.location = l]
  <2>1. item.value \in Values
    BY <1>4, LexemesOfItems DEF LocationValue, InLocation
  <2>2. CASE Invalid
    BY <2>2, EndsKeep
  <2>3. CASE ~set_location_property_throws(server, n, item.value) /\ ~Invalid
    <3>1. location.location \in LocationType
      BY <1>1 DEF BuildingType
    <3>2. l \in LocationType /\ l.root # <<>> /\ NamesUpstreamsOf(l, server)
      BY <1>1, <2>1, <2>3, <3>1, SetLocationPropertyType
    <3>3. LocationGoesOn(item, loc)
      BY <1>4, <2>3 DEF LocationValue
    <3> HIDE DEF l
    <3>4. loc \in BuildingType /\ loc.location = l
      BY <1>1, <3>2 DEF BuildingType
    <3> HIDE DEF loc
    <3> QED
      BY <1>1, <3>2, <3>3, <3>4, LocationMoves
  <2> QED
    BY <1>4, <2>2, <2>3 DEF LocationValue
<1> QED
  BY <1>2, <1>3, <1>4

LEMMA LocationEndKeeps ==
    ASSUME ParserInv, NEW item \in Item, LocationEnd(item)
    PROVE  ParserInv'
<1>1. /\ pc = "parse_location" /\ location \in BuildingType
      /\ location.location.root # <<>> /\ NamesUpstreamsOf(location.location, server)
      /\ server \in ServerType /\ ServerServes(server) /\ state \in state_t
      /\ is_server_adding \in BOOLEAN /\ property_number \in -1 .. 5 /\ main \in MainType
  BY DEF ParserInv, ParserTyped, LocationEnd, InLocation
<1>2. CASE Invalid
  BY <1>2, EndsKeep
<1>3. CASE location.location.root # NoRoot /\ ~Invalid
  <2>1. location.type \in location_type_t /\ location.location \in LocationType
    BY <1>1 DEF BuildingType
  <2>2. CanBeServed(location.location, server)
    BY <1>1, <1>3 DEF CanBeServed
  <2>3. /\ add_location(server, location.type, location.location) \in ServerType
        /\ ServerServes(add_location(server, location.type, location.location))
    BY <1>1, <2>1, <2>2, AddLocationType
  <2>4. stages[<<state, "L_END_LOCATION">>] \in state_t
    BY <1>1, StagesType DEF lexem_t
  <2> QED
    BY <1>1, <1>3, <2>3, <2>4, ConfigMoves DEF LocationEnd, GoOn
<1> QED
  BY <1>2, <1>3 DEF LocationEnd

LEMMA UpstreamsKeep ==
    ASSUME ParserInv, NEW item \in Item,
           UpstreamEntry(item) \/ UpstreamsNewLine(item) \/ UpstreamsEnd(item)
    PROVE  ParserInv'
<1>1. /\ pc = "parse_upstreams" /\ state \in state_t
      /\ server \in ServerType /\ ServerServes(server)
      /\ is_server_adding \in BOOLEAN /\ property_number \in -1 .. 5 /\ main \in MainType
  BY DEF ParserInv, ParserTyped, UpstreamEntry, UpstreamsNewLine, UpstreamsEnd
<1>2. CASE UpstreamEntry(item)
  <2> DEFINE e == item.entry
             s == add_upstream(server, e.address, Default(e.weight, 1), Default(e.port, 80))
  <2>1. CASE Invalid \/ Throw
    BY <2>1, EndsKeep
  <2>2. CASE /\ server' = s
             /\ GoOn(item)
             /\ UNCHANGED <<parserVars, main>>
    <3>1. e \in Entries
      BY <1>2 DEF UpstreamEntry, Item
    <3>2. /\ e.address \in DOMAIN Spelling
          /\ e.weight \in Nat \cup {-1} /\ e.port \in Nat \cup {-1}
      BY <3>1, EntriesAssumption
    <3>3. Default(e.weight, 1) \in Nat /\ Default(e.port, 80) \in Nat
      BY <3>2 DEF Default
    <3>4. s \in ServerType /\ ServerServes(s)
      BY <1>1, <3>2, <3>3, AddUpstreamType, ExtendsServes
    <3> HIDE DEF s
    <3> QED
      BY <1>1, <2>2, <3>4, ConfigMoves DEF GoOn, parserVars
  <2> QED
    BY <1>2, <2>1, <2>2 DEF UpstreamEntry
<1>3. CASE UpstreamsNewLine(item)
  BY <1>1, <1>3, ConfigMoves DEF UpstreamsNewLine, GoOn, parserVars
<1>4. CASE UpstreamsEnd(item)
  <2>1. stages[<<state, "L_END_UPSTREAM">>] \in state_t
    BY <1>1, StagesType DEF lexem_t
  <2> QED
    BY <1>1, <1>4, <2>1, ConfigMoves DEF UpstreamsEnd, GoOn
<1> QED
  BY <1>2, <1>3, <1>4

LEMMA NextKeepsParserInv == ParserInv /\ [Next]_vars => ParserInv'
<1> SUFFICES ASSUME ParserInv, [Next]_vars PROVE ParserInv'
  OBVIOUS
<1>1. CASE UNCHANGED vars
  <2>1. UNCHANGED <<pc, state, is_server_adding, property_number, location, main, server,
                    result, refused>>
    BY <1>1 DEF vars, parserVars
  <2> QED
    BY <2>1 DEF ParserInv, ParserTyped
<1>2. CASE Next
  <2>1. PICK item \in Item :
          \/ Unexpected(item) \/ Opening(item) \/ Key(item)
          \/ ServerValue(item) \/ MainValue(item)
          \/ ServerStart(item) \/ BraceClose(item)
          \/ LocationStart(item) \/ UpstreamsStart(item)
          \/ LocationUnexpected(item) \/ LocationNewLine(item)
          \/ LocationKey(item) \/ LocationValue(item) \/ LocationEnd(item)
          \/ UpstreamEntry(item) \/ UpstreamsNewLine(item)
          \/ UpstreamsEnd(item) \/ UpstreamsUnexpected(item)
    BY <1>2 DEF Next
  <2>2. Unexpected(item) \/ LocationUnexpected(item) \/ UpstreamsUnexpected(item) => Invalid
    BY DEF Unexpected, LocationUnexpected, UpstreamsUnexpected
  <2> QED
    BY <2>1, <2>2, EndsKeep, ConfigKeeps, KeyKeeps, ValueKeeps, LocationStartKeeps,
       LocationKeeps, LocationEndKeeps, UpstreamsKeep
<1> QED
  BY <1>1, <1>2

(* Whatever the file, the parser's state and the settings it builds have   *)
(* their types, and what it keeps can be served.                           *)
THEOREM ParserCorrect == Spec => []ParserInv
BY InitParserInv, NextKeepsParserInv, PTL DEF Spec

(* The type invariant of the parser, for every file.                       *)
THEOREM ParserTypeCorrect == Spec => []TypeOK
<1>1. ParserInv => TypeOK
  <2> SUFFICES ASSUME ParserInv PROVE TypeOK
    OBVIOUS
  <2>1. ParserTyped
    BY DEF ParserInv
  <2>2. location.state \in {"S_KEY", "S_VALUE", "S_END"}
    BY <2>1 DEF ParserTyped, BuildingType, NotInLocation
  <2>3. pc = "parse_location" => location.property_number \in -1 .. 4
    BY <2>1 DEF ParserTyped, BuildingType
  <2>4. /\ server.port \in Values \cup {"indeterminate"}
        /\ DOMAIN server.locations = location_type_t
    BY <2>1 DEF ParserTyped, ServerType
  <2>5. main.count_workflows \in Values \cup {"4"}
    BY <2>1 DEF ParserTyped, MainType
  <2>6. \A e \in DOMAIN server.upstreams : server.upstreams[e].is_ip \in BOOLEAN
    <3>1. PICK S \in SUBSET DOMAIN Spelling : server.upstreams \in [S -> UpstreamType]
      BY <2>1 DEF ParserTyped, ServerType
    <3> QED
      BY <3>1 DEF UpstreamType
  <2> QED
    BY <2>1, <2>2, <2>3, <2>4, <2>5, <2>6 DEF TypeOK, ParserTyped
<1> QED
  BY <1>1, ParserCorrect, PTL

(* Every location that parse_location keeps has a root, its own or the     *)
(* server's, and every upstream it names is defined, whatever the file     *)
(* and however it ends.                                                    *)
THEOREM LocationsServable == Spec => []LocationsCanBeServed
<1>1. ParserInv => LocationsCanBeServed
  <2> SUFFICES ASSUME ParserInv, NEW t \in location_type_t,
                      NEW k \in DOMAIN server.locations[t]
               PROVE  LET l == server.locations[t][k] IN
                      /\ l.root \notin {NoRoot, <<>>}
                      /\ ToSet(l.upstreams) \subseteq DOMAIN server.upstreams
    BY DEF LocationsCanBeServed
  <2>1. server.locations[t] \in Seq(LocationType)
    BY DEF ParserInv, ParserTyped, ServerType
  <2>2. k \in 1 .. Len(server.locations[t]) /\ server.locations[t][k] \in LocationType
    BY <2>1
  <2>3. CanBeServed(server.locations[t][k], server)
    BY <2>2 DEF ParserInv, ServerServes
  <2>4. DOMAIN server.locations[t][k].upstreams = 1 .. Len(server.locations[t][k].upstreams)
    BY <2>2 DEF LocationType
  <2> QED
    BY <2>3, <2>4 DEF CanBeServed, NamesUpstreamsOf, ToSet
<1> QED
  BY <1>1, ParserCorrect, PTL

---------------------------------------------------------------------------
(* The text, read by its braces.                                           *)

GivenType ==
    [block : OpensBlock, number : Nat, name : Names \cup {"nothing"}, value : Values]

ReadingType ==
    [open : Seq(OpensBlock), count : Nat, name : Names \cup {"nothing"},
     given : Seq(GivenType)]

(* One item more is read after those before it.                            *)
LEMMA ReadingGrows ==
    ASSUME NEW S, NEW items \in Seq(S), NEW item \in S
    PROVE  Reading(Append(items, item)) = ReadOne(Reading(items), item)
<1>1. \A list : Reading(list) = Reader!Folded(list)
  BY DEF Reading, Reader!Folded, FoldLeft, Reader!FoldLeft, MapThenFoldSet,
         Reader!MapThenFoldSet, Max, Reader!Max
<1>2. Reader!Folded(Append(items, item)) = ReadOne(Reader!Folded(items), item)
  BY Reader!FoldedAppend
<1> QED
  BY <1>1, <1>2

LEMMA ReadingOfNothing == Reading(<<>>) = NothingRead
<1>1. Reading(<<>>) = Reader!Folded(<<>>)
  BY DEF Reading, Reader!Folded, FoldLeft, Reader!FoldLeft, MapThenFoldSet,
         Reader!MapThenFoldSet, Max, Reader!Max
<1> QED
  BY <1>1, Reader!FoldedEmpty

(* What each kind of item adds to what was read.                           *)
LEMMA ReadOneIs ==
    ASSUME NEW r \in ReadingType, NEW i
    PROVE  LET n == ReadOne(r, i) IN
           /\ i.t \in OpensBlock => n = [r EXCEPT !.open = Append(r.open, i.t),
                                                  !.count = r.count + 1]
           /\ i.t = "}" => n = [r EXCEPT !.open = Front(r.open)]
           /\ i.t = "name" => n = [r EXCEPT !.name = i.name]
           /\ i.t = "bare" => n = [r EXCEPT !.name = "nothing"]
           /\ i.t = "value" =>
                n = [r EXCEPT !.given =
                       Append(r.given, [block |-> Last(r.open), number |-> r.count,
                                        name |-> r.name, value |-> i.value])]
           /\ i.t \in {"{", "upstream"} => n = r
BY DEF ReadOne, ReadingType, OpensBlock

(* Which blocks are open behind an item.                                   *)
LEMMA ReadOneOpens ==
    ASSUME NEW r \in ReadingType, NEW i,
           i.t \in OpensBlock \cup {"}", "name", "bare", "value", "{", "upstream"}
    PROVE  ReadOne(r, i).open = IF i.t \in OpensBlock THEN Append(r.open, i.t)
                                ELSE IF i.t = "}" THEN Front(r.open) ELSE r.open
<1>1. CASE i.t \in OpensBlock
  BY <1>1 DEF ReadOne, ReadingType, OpensBlock
<1>2. CASE i.t = "}"
  BY <1>2 DEF ReadOne, ReadingType, OpensBlock
<1>3. CASE i.t = "name"
  BY <1>3 DEF ReadOne, ReadingType, OpensBlock
<1>4. CASE i.t = "bare"
  BY <1>4 DEF ReadOne, ReadingType, OpensBlock
<1>5. CASE i.t = "value"
  BY <1>5 DEF ReadOne, ReadingType, OpensBlock
<1>6. CASE i.t \in {"{", "upstream"}
  BY <1>6 DEF ReadOne, ReadingType, OpensBlock
<1> QED
  BY <1>1, <1>2, <1>3, <1>4, <1>5, <1>6

(* Which items are the lexemes of blocks.                                  *)
LEMMA BlockLexemes ==
    ASSUME NEW item, NEW names
    PROVE  LET l == get_lexem(item, names) IN
           /\ l = "L_PROTOCOL" => item.t = "http"
           /\ l = "L_NEW_LINE" => item.t = "newline"
           /\ l = "L_BRACE_OPEN" => item.t = "{"
           /\ l = "L_BRACE_CLOSE" => item.t = "}"
           /\ l = "L_SERVER_START" => item.t = "server" /\ Contains(names, "server")
           /\ l = "L_LOCATION" => item.t = "location" /\ Contains(names, "location")
           /\ l = "L_UPSTREAM" => item.t = "upstreams" /\ Contains(names, "upstreams")
           /\ l \notin {"L_SERVER_END", "L_END_LOCATION", "L_END_UPSTREAM"}
<1>1. /\ DOMAIN PlainLexem = {"http", "newline", "value", "bare", "{", "}"}
      /\ PlainLexem["http"] = "L_PROTOCOL" /\ PlainLexem["newline"] = "L_NEW_LINE"
      /\ PlainLexem["value"] = "L_VALUE" /\ PlainLexem["bare"] = "L_KEY"
      /\ PlainLexem["{"] = "L_BRACE_OPEN" /\ PlainLexem["}"] = "L_BRACE_CLOSE"
  BY DEF PlainLexem
<1>2. /\ DOMAIN KeywordLexem = {"server", "location", "upstreams"}
      /\ KeywordLexem["server"] = "L_SERVER_START"
      /\ KeywordLexem["location"] = "L_LOCATION"
      /\ KeywordLexem["upstreams"] = "L_UPSTREAM"
  BY DEF KeywordLexem
<1>3. CASE item.t \in DOMAIN PlainLexem
  <2>1. item.t # "name" /\ item.t \notin DOMAIN KeywordLexem
    BY <1>1, <1>2, <1>3
  <2>2. get_lexem(item, names) = PlainLexem[item.t]
    BY <2>1, <1>3 DEF get_lexem
  <2> QED
    BY <1>1, <1>3, <2>2
<1>4. CASE item.t = "name" /\ Contains(names, item.name)
  <2>1. get_lexem(item, names) = "L_KEY"
    BY <1>1, <1>2, <1>4 DEF get_lexem
  <2> QED
    BY <2>1
<1>5. CASE item.t \in DOMAIN KeywordLexem /\ Contains(names, item.t)
  <2>1. get_lexem(item, names) = KeywordLexem[item.t]
    BY <1>1, <1>2, <1>5 DEF get_lexem
  <2> QED
    BY <1>2, <1>5, <2>1
<1>6. CASE /\ item.t \notin DOMAIN PlainLexem
           /\ ~(item.t = "name" /\ Contains(names, item.name))
           /\ ~(item.t \in DOMAIN KeywordLexem /\ Contains(names, item.t))
  <2>1. get_lexem(item, names) = "L_ERR"
    BY <1>6 DEF get_lexem
  <2> QED
    BY <2>1
<1> QED
  BY <1>3, <1>4, <1>5, <1>6

(* The keywords of a block are looked for in that block only.              *)
LEMMA Keywords ==
    /\ ~Contains(valid_properties, "server") /\ ~Contains(valid_properties, "upstreams")
    /\ ~Contains(main_valid_properties, "location")
BY DEF Contains, valid_properties, main_valid_properties

---------------------------------------------------------------------------
(* Nesting.                                                                *)

(* An entry of the table that is not an error is one of its edges.         *)
LEMMA StagesAreEdges ==
    ASSUME NEW s \in state_t, NEW l \in lexem_t
    PROVE  /\ stages[<<s, l>>] # "S_ERR" => <<s, l, stages[<<s, l>>]>> \in Edges
           /\ \A n \in state_t : <<s, l, n>> \in Edges => stages[<<s, l>>] = n
<1>1. stages[<<s, l>>] = IF \E n \in state_t : <<s, l, n>> \in Edges
                         THEN CHOOSE n \in state_t : <<s, l, n>> \in Edges
                         ELSE "S_ERR"
  BY DEF stages
<1>2. \A n, m : <<s, l, n>> \in Edges /\ <<s, l, m>> \in Edges => n = m
  BY DEF Edges
<1> QED
  BY <1>1, <1>2

(* What the table says of each lexeme.                                     *)
LEMMA StagesAre ==
    ASSUME NEW s \in state_t
    PROVE  /\ stages[<<s, "L_PROTOCOL">>] # "S_ERR" =>
                s = "S_START" /\ stages[<<s, "L_PROTOCOL">>] = "S_BRACE_OPEN"
           /\ stages[<<s, "L_BRACE_OPEN">>] # "S_ERR" =>
                s \in {"S_BRACE_OPEN", "S_SERVER_START"} /\ stages[<<s, "L_BRACE_OPEN">>] = "S_KEY"
           /\ stages[<<s, "L_NEW_LINE">>] # "S_ERR" => stages[<<s, "L_NEW_LINE">>] = s
           /\ \A l \in {"L_KEY", "L_SERVER_START", "L_LOCATION", "L_UPSTREAM", "L_BRACE_CLOSE"} :
                stages[<<s, l>>] # "S_ERR" => s = "S_KEY"
           /\ stages[<<s, "L_VALUE">>] # "S_ERR" => s = "S_VALUE"
           /\ stages[<<"S_KEY", "L_SERVER_END">>] = "S_KEY"
           /\ stages[<<"S_LOCATION", "L_END_LOCATION">>] = "S_KEY"
           /\ stages[<<"S_UPSTREAM", "L_END_UPSTREAM">>] = "S_KEY"
<1>1. /\ {"L_PROTOCOL", "L_BRACE_OPEN", "L_NEW_LINE", "L_VALUE", "L_KEY", "L_SERVER_START",
          "L_LOCATION", "L_UPSTREAM", "L_BRACE_CLOSE", "L_SERVER_END", "L_END_LOCATION",
          "L_END_UPSTREAM"} \subseteq lexem_t
      /\ {"S_KEY", "S_LOCATION", "S_UPSTREAM"} \subseteq state_t
  BY DEF lexem_t, state_t
<1>2. \A l \in lexem_t : stages[<<s, l>>] # "S_ERR" => <<s, l, stages[<<s, l>>]>> \in Edges
  BY StagesAreEdges
<1>3. \A n :
        /\ <<s, "L_PROTOCOL", n>> \in Edges => s = "S_START" /\ n = "S_BRACE_OPEN"
        /\ <<s, "L_BRACE_OPEN", n>> \in Edges =>
             s \in {"S_BRACE_OPEN", "S_SERVER_START"} /\ n = "S_KEY"
        /\ <<s, "L_NEW_LINE", n>> \in Edges => n = s
        /\ \A l \in {"L_KEY", "L_SERVER_START", "L_LOCATION", "L_UPSTREAM", "L_BRACE_CLOSE"} :
             <<s, l, n>> \in Edges => s = "S_KEY"
        /\ <<s, "L_VALUE", n>> \in Edges => s = "S_VALUE"
  BY DEF Edges
<1>4. /\ <<"S_KEY", "L_SERVER_END", "S_KEY">> \in Edges
      /\ <<"S_LOCATION", "L_END_LOCATION", "S_KEY">> \in Edges
      /\ <<"S_UPSTREAM", "L_END_UPSTREAM", "S_KEY">> \in Edges
  BY DEF Edges
<1>5. /\ stages[<<"S_KEY", "L_SERVER_END">>] = "S_KEY"
      /\ stages[<<"S_LOCATION", "L_END_LOCATION">>] = "S_KEY"
      /\ stages[<<"S_UPSTREAM", "L_END_UPSTREAM">>] = "S_KEY"
  BY <1>1, <1>4, StagesAreEdges
<1>6. /\ stages[<<s, "L_PROTOCOL">>] # "S_ERR" =>
           s = "S_START" /\ stages[<<s, "L_PROTOCOL">>] = "S_BRACE_OPEN"
      /\ stages[<<s, "L_BRACE_OPEN">>] # "S_ERR" =>
           s \in {"S_BRACE_OPEN", "S_SERVER_START"} /\ stages[<<s, "L_BRACE_OPEN">>] = "S_KEY"
  BY <1>1, <1>2, <1>3
<1>7. /\ stages[<<s, "L_NEW_LINE">>] # "S_ERR" => stages[<<s, "L_NEW_LINE">>] = s
      /\ stages[<<s, "L_VALUE">>] # "S_ERR" => s = "S_VALUE"
  BY <1>1, <1>2, <1>3
<1>8. \A l \in {"L_KEY", "L_SERVER_START", "L_LOCATION", "L_UPSTREAM", "L_BRACE_CLOSE"} :
        stages[<<s, l>>] # "S_ERR" => s = "S_KEY"
  BY <1>1, <1>2, <1>3
<1> QED
  BY <1>5, <1>6, <1>7, <1>8

(* The states in which a lexeme is accepted, one lexeme at a time.         *)
LEMMA ValueStates ==
    ASSUME NEW s \in state_t, stages[<<s, "L_VALUE">>] # "S_ERR"
    PROVE  s = "S_VALUE"
BY StagesAre

LEMMA BraceStates ==
    ASSUME NEW s \in state_t, stages[<<s, "L_BRACE_OPEN">>] # "S_ERR"
    PROVE  s \in {"S_BRACE_OPEN", "S_SERVER_START"} /\ stages[<<s, "L_BRACE_OPEN">>] = "S_KEY"
BY StagesAre

LEMMA NewLineStates ==
    ASSUME NEW s \in state_t, stages[<<s, "L_NEW_LINE">>] # "S_ERR"
    PROVE  stages[<<s, "L_NEW_LINE">>] = s
BY StagesAre

LEMMA KeyStates ==
    ASSUME NEW s \in state_t,
           NEW l \in {"L_KEY", "L_SERVER_START", "L_BRACE_CLOSE", "L_LOCATION", "L_UPSTREAM"},
           stages[<<s, l>>] # "S_ERR"
    PROVE  s = "S_KEY"
<1>1. l \in lexem_t
  BY DEF lexem_t
<1>2. <<s, l, stages[<<s, l>>]>> \in Edges
  BY <1>1, StagesAreEdges
<1> QED
  BY <1>2 DEF Edges

(* The blocks that are open where the parser is.                           *)
OpenAt(p, adding, s) ==
    IF p = "parse_location" THEN <<"http", "server", "location">>
    ELSE IF p = "parse_upstreams" THEN <<"http", "upstreams">>
    ELSE IF adding THEN <<"http", "server">>
    ELSE IF s \in {"S_START", "S_END"} THEN <<>>
    ELSE <<"http">>

(* Which states the flag and the function that reads go with.              *)
StateFits(p, adding, s) ==
    /\ p = "parse_location" => adding /\ s = "S_LOCATION"
    /\ p = "parse_upstreams" => ~adding /\ s = "S_UPSTREAM"
    /\ p \notin {"parse_location", "parse_upstreams"} =>
         s \in {"S_KEY", "S_VALUE"} \cup
               IF adding THEN {"S_SERVER_START"} ELSE {"S_START", "S_END", "S_BRACE_OPEN"}

NestingInv ==
    /\ text \in Seq(Item)
    /\ Reading(text) \in ReadingType
    /\ Read => /\ Reading(text).open = OpenAt(pc, is_server_adding, state)
               /\ StateFits(pc, is_server_adding, state)

LEMMA InitNestingInv == Init => NestingInv
<1> SUFFICES ASSUME Init PROVE NestingInv
  OBVIOUS
<1>1. /\ pc = "parse_config" /\ state = "S_START" /\ is_server_adding = FALSE /\ text = <<>>
  BY Zenon DEF Init
<1>2. text \in Seq(Item)
  BY <1>1
<1>3. Reading(text) = NothingRead
  BY <1>1, ReadingOfNothing
<1>4. NothingRead \in ReadingType /\ NothingRead.open = <<>>
  BY DEF NothingRead, ReadingType
<1>5. OpenAt(pc, is_server_adding, state) = <<>> /\ StateFits(pc, is_server_adding, state)
  BY <1>1 DEF OpenAt, StateFits
<1> QED
  BY <1>2, <1>3, <1>4, <1>5 DEF NestingInv

LEMMA Successor == \A c \in Nat : c + 1 \in Nat
OBVIOUS

(* The blocks there are, and what is open around the innermost of them.    *)
LEMMA BlocksAre ==
    /\ <<>> \in Seq(OpensBlock) /\ <<"http">> \in Seq(OpensBlock)
    /\ <<"http", "server">> \in Seq(OpensBlock)
    /\ "http" \in OpensBlock /\ "server" \in OpensBlock
    /\ "location" \in OpensBlock /\ "upstreams" \in OpensBlock
BY DEF OpensBlock

LEMMA OpenAtIs ==
    ASSUME NEW p, NEW adding \in BOOLEAN, NEW s
    PROVE  \/ OpenAt(p, adding, s) = <<>>
           \/ OpenAt(p, adding, s) = Append(<<>>, "http")
           \/ OpenAt(p, adding, s) = Append(<<"http">>, "server")
           \/ OpenAt(p, adding, s) = Append(<<"http">>, "upstreams")
           \/ OpenAt(p, adding, s) = Append(<<"http", "server">>, "location")
<1>1. /\ <<"http">> = Append(<<>>, "http")
      /\ <<"http", "server">> = Append(<<"http">>, "server")
      /\ <<"http", "upstreams">> = Append(<<"http">>, "upstreams")
      /\ <<"http", "server", "location">> = Append(<<"http", "server">>, "location")
  OBVIOUS
<1> QED
  BY <1>1, Zenon DEF OpenAt

(* The last element of a sequence, and what is before it.                  *)
LEMMA FrontAndLast ==
    ASSUME NEW S, NEW seq \in Seq(S), NEW x \in S
    PROVE  Front(Append(seq, x)) = seq /\ Last(Append(seq, x)) = x
<1> DEFINE n == Len(seq)
           longer == Append(seq, x)
<1>1. /\ longer \in Seq(S) /\ Len(longer) = n + 1 /\ longer[n + 1] = x /\ n \in Nat
      /\ \A k \in 1 .. n : longer[k] = seq[k]
  OBVIOUS
<1> HIDE DEF longer
<1>2. Last(longer) = x
  BY <1>1 DEF Last
<1>3. Front(longer) = SubSeq(longer, 1, n)
  BY <1>1 DEF Front
<1>4. Front(longer) \in Seq(S) /\ Len(Front(longer)) = n
      /\ \A k \in 1 .. n : Front(longer)[k] = longer[k]
  BY <1>1, <1>3
<1>5. Front(longer) = seq
  BY <1>1, <1>4, SeqEqual
<1> QED
  BY <1>2, <1>5 DEF longer

LEMMA InnermostBlock ==
    /\ Front(<<"http">>) = <<>> /\ Last(<<"http">>) = "http"
    /\ Front(<<"http", "server">>) = <<"http">> /\ Last(<<"http", "server">>) = "server"
    /\ Front(<<"http", "upstreams">>) = <<"http">>
    /\ Front(<<"http", "server", "location">>) = <<"http", "server">>
    /\ Last(<<"http", "server", "location">>) = "location"
<1>1. /\ <<>> \in Seq(OpensBlock) /\ <<"http">> \in Seq(OpensBlock)
      /\ <<"http", "server">> \in Seq(OpensBlock)
      /\ "http" \in OpensBlock /\ "server" \in OpensBlock
      /\ "location" \in OpensBlock /\ "upstreams" \in OpensBlock
  BY DEF OpensBlock
<1>2. /\ <<"http">> = Append(<<>>, "http")
      /\ <<"http", "server">> = Append(<<"http">>, "server")
      /\ <<"http", "upstreams">> = Append(<<"http">>, "upstreams")
      /\ <<"http", "server", "location">> = Append(<<"http", "server">>, "location")
  OBVIOUS
<1>3. Front(Append(<<>>, "http")) = <<>> /\ Last(Append(<<>>, "http")) = "http"
  BY <1>1, FrontAndLast, Zenon
<1>4. /\ Front(Append(<<"http">>, "server")) = <<"http">>
      /\ Last(Append(<<"http">>, "server")) = "server"
  BY <1>1, FrontAndLast, Zenon
<1>5. Front(Append(<<"http">>, "upstreams")) = <<"http">>
  BY <1>1, FrontAndLast, Zenon
<1>6. /\ Front(Append(<<"http", "server">>, "location")) = <<"http", "server">>
      /\ Last(Append(<<"http", "server">>, "location")) = "location"
  BY <1>1, FrontAndLast, Zenon
<1> QED
  BY <1>2, <1>3, <1>4, <1>5, <1>6, Zenon

(* The item a step understands is read after those before it.              *)
LEMMA TextGrows ==
    ASSUME NestingInv, NEW item \in Item, Understood(item)
    PROVE  /\ text' \in Seq(Item)
           /\ item.t = "newline" => text' = text
           /\ item.t # "newline" => Reading(text') = ReadOne(Reading(text), item)
BY ReadingGrows DEF NestingInv, Understood

(* What is read keeps its types, with blocks open where one is closed or a *)
(* value is given.                                                         *)
LEMMA ReadingTyped ==
    ASSUME NEW r \in ReadingType, NEW item \in Item, NEW q \in Seq(OpensBlock),
           NEW b \in OpensBlock,
           item.t \in {"}", "value"} => r.open = Append(q, b)
    PROVE  item.t # "word" => ReadOne(r, item) \in ReadingType
<1>1. Front(Append(q, b)) = q /\ Last(Append(q, b)) = b
  BY FrontAndLast
<1>2. /\ r.open \in Seq(OpensBlock) /\ r.count \in Nat
      /\ r.name \in Names \cup {"nothing"} /\ r.given \in Seq(GivenType)
  BY DEF ReadingType
<1>3. /\ \A o \in Seq(OpensBlock) : [r EXCEPT !.open = o] \in ReadingType
      /\ \A o \in Seq(OpensBlock), c \in Nat :
            [r EXCEPT !.open = o, !.count = c] \in ReadingType
      /\ \A n \in Names \cup {"nothing"} : [r EXCEPT !.name = n] \in ReadingType
      /\ \A list \in Seq(GivenType) : [r EXCEPT !.given = list] \in ReadingType
  BY DEF ReadingType
<1>4. CASE item.t \in OpensBlock
  <2>1. Append(r.open, item.t) \in Seq(OpensBlock)
    BY <1>2, <1>4, AppendProperties, Zenon
  <2>0. r.count + 1 \in Nat
    BY <1>2, Successor, Zenon
  <2>2. ReadOne(r, item) = [r EXCEPT !.open = Append(r.open, item.t), !.count = r.count + 1]
    BY <1>4, ReadOneIs
  <2>3. \A o \in Seq(OpensBlock), c \in Nat : [r EXCEPT !.open = o, !.count = c] \in ReadingType
    BY <1>3, Zenon
  <2>4. [r EXCEPT !.open = Append(r.open, item.t), !.count = r.count + 1] \in ReadingType
    BY <2>0, <2>1, <2>3, Zenon
  <2> QED
    BY <2>2, <2>4
<1>5. CASE item.t = "}"
  <2>1. ReadOne(r, item) = [r EXCEPT !.open = q]
    BY <1>1, <1>5, ReadOneIs
  <2> QED
    BY <1>3, <2>1
<1>6. CASE item.t = "name"
  <2>1. item.name \in Names
    BY <1>6 DEF Item
  <2>2. ReadOne(r, item) = [r EXCEPT !.name = item.name]
    BY <1>6, ReadOneIs
  <2> QED
    BY <1>3, <2>1, <2>2
<1>7. CASE item.t = "bare"
  <2>1. ReadOne(r, item) = [r EXCEPT !.name = "nothing"]
    BY <1>7, ReadOneIs
  <2> QED
    BY <1>3, <2>1
<1>8. CASE item.t = "value"
  <2> DEFINE g == [block |-> Last(r.open), number |-> r.count, name |-> r.name,
                   value |-> item.value]
  <2>1. item.value \in Values
    BY <1>8 DEF Item
  <2>2. g \in GivenType
    BY <1>1, <1>2, <1>8, <2>1 DEF GivenType
  <2>3. ReadOne(r, item) = [r EXCEPT !.given = Append(r.given, g)]
    BY <1>8, ReadOneIs
  <2> HIDE DEF g
  <2>4. Append(r.given, g) \in Seq(GivenType)
    BY <1>2, <2>2, AppendProperties
  <2> QED
    BY <1>3, <2>3, <2>4
<1>9. CASE item.t \in {"{", "upstream"}
  BY <1>9, ReadOneIs
<1>a. CASE item.t = "newline"
  BY <1>a DEF ReadOne, OpensBlock
<1>b. item.t \in OpensBlock \cup {"}", "name", "bare", "value", "{", "upstream", "newline", "word"}
  BY DEF Item, OpensBlock
<1> QED
  BY <1>4, <1>5, <1>6, <1>7, <1>8, <1>9, <1>a, <1>b

(* A step that understands its item keeps the nesting if it moves between  *)
(* the parser's places as the item moves between the blocks.               *)
LEMMA NestingMoves ==
    ASSUME NestingInv, is_server_adding \in BOOLEAN, Read, Read', NEW item \in Item, Understood(item), item.t # "word",
           item.t \in {"}", "value"} => Reading(text).open # <<>>,
           OpenAt(pc, is_server_adding, state)' =
             IF item.t \in OpensBlock
               THEN Append(OpenAt(pc, is_server_adding, state), item.t)
             ELSE IF item.t = "}" THEN Front(OpenAt(pc, is_server_adding, state))
             ELSE OpenAt(pc, is_server_adding, state),
           StateFits(pc, is_server_adding, state)'
    PROVE  NestingInv'
<1> DEFINE r == Reading(text)
<1>1. r \in ReadingType /\ r.open = OpenAt(pc, is_server_adding, state)
  BY DEF NestingInv
<1>2. text' \in Seq(Item) /\ Reading(text') = IF item.t = "newline" THEN r ELSE ReadOne(r, item)
  BY TextGrows
<1>3. ReadOne(r, item) \in ReadingType
  <2>1. CASE r.open = <<>>
    <3>1. item.t \notin {"}", "value"}
      BY <2>1
    <3> HIDE DEF r
    <3> QED
      BY <1>1, <3>1, BlocksAre, ReadingTyped, Zenon
  <2>2. CASE r.open # <<>>
    <3>1. \/ r.open = Append(<<>>, "http")
          \/ r.open = Append(<<"http">>, "server")
          \/ r.open = Append(<<"http">>, "upstreams")
          \/ r.open = Append(<<"http", "server">>, "location")
      BY <1>1, <2>2, OpenAtIs, Zenon
    <3> HIDE DEF r
    <3> QED
      BY <1>1, <3>1, BlocksAre, ReadingTyped, Zenon
  <2> QED
    BY <2>1, <2>2
<1>4. Reading(text').open = OpenAt(pc, is_server_adding, state)'
  <2>1. CASE item.t = "newline"
    BY <1>1, <1>2, <2>1 DEF OpensBlock
  <2>2. CASE item.t # "newline"
    <3>1. item.t \in OpensBlock \cup {"}", "name", "bare", "value", "{", "upstream"}
      BY <2>2 DEF Item, OpensBlock
    <3>2. ReadOne(r, item).open = IF item.t \in OpensBlock THEN Append(r.open, item.t)
                                  ELSE IF item.t = "}" THEN Front(r.open) ELSE r.open
      BY <1>1, <3>1, ReadOneOpens
    <3> QED
      BY <1>1, <1>2, <2>2, <3>2
  <2> QED
    BY <2>1, <2>2
<1> QED
  BY <1>2, <1>3, <1>4, <1>1 DEF NestingInv

(* A parse that ended otherwise than "accepted" has nothing to agree with. *)
LEMMA NestingEnds ==
    ASSUME NestingInv, UNCHANGED text, Invalid \/ Throw
    PROVE  NestingInv'
BY DEF NestingInv, Read, Invalid, Throw, Return

(* The steps of the upstreams and of a location.                           *)
LEMMA BlocksNest ==
    ASSUME NestingInv, ParserInv, NEW item \in Item,
           \/ LocationNewLine(item) \/ LocationKey(item) \/ LocationValue(item)
           \/ LocationEnd(item) \/ UpstreamEntry(item) \/ UpstreamsNewLine(item)
           \/ UpstreamsEnd(item)
    PROVE  NestingInv'
<1> DEFINE o == OpenAt(pc, is_server_adding, state)
<1>1. is_server_adding \in BOOLEAN /\ state \in state_t /\ (pc = "done" <=> result # "reading")
  BY DEF ParserInv, ParserTyped
<1>2. CASE Invalid \/ Throw
  BY <1>2, NestingEnds DEF Invalid, Throw
<1>3. CASE pc = "parse_location" /\ ~Invalid /\ ~Throw
  <2>1. /\ Read /\ o = <<"http", "server", "location">> /\ Reading(text).open = o
        /\ is_server_adding /\ state = "S_LOCATION"
    BY <1>1, <1>3 DEF NestingInv, OpenAt, StateFits, Read
  <2>2. Reading(text).open # <<>>
    BY <2>1
  <2>3. CASE LocationGoesOn(item, location') /\ item.t \in {"newline", "name", "bare", "value"}
    <3>1. /\ Read' /\ Understood(item)
          /\ UNCHANGED <<pc, state, is_server_adding>>
      BY <2>1, <2>3 DEF LocationGoesOn, GoOn, Read
    <3>2. (OpenAt(pc, is_server_adding, state))' = o /\ StateFits(pc, is_server_adding, state)'
      BY <1>3, <2>1, <3>1 DEF OpenAt, StateFits
    <3> HIDE DEF o
    <3> QED
      BY <1>1, <2>1, <2>2, <2>3, <3>1, <3>2, NestingMoves DEF OpensBlock, o
  <2>4. CASE LocationEnd(item)
    <3>1. /\ Read' /\ Understood(item) /\ item.t = "}"
          /\ pc' = "parse_config" /\ state' = "S_KEY" /\ UNCHANGED is_server_adding
      <4>1. item.t = "}"
        BY <2>4, BlockLexemes DEF LocationEnd, InLocation
      <4>2. /\ pc' = "parse_config" /\ state' = stages[<<state, "L_END_LOCATION">>]
            /\ GoOn(item) /\ UNCHANGED is_server_adding
        BY <1>3, <2>4 DEF LocationEnd
      <4>3. stages[<<state, "L_END_LOCATION">>] = "S_KEY"
        BY <1>1, <2>1, StagesAre
      <4> QED
        BY <2>1, <4>1, <4>2, <4>3 DEF GoOn, Read
    <3>2. OpenAt(pc, is_server_adding, state)' = Front(o) /\ StateFits(pc, is_server_adding, state)'
      BY <2>1, <3>1, InnermostBlock DEF OpenAt, StateFits
    <3> HIDE DEF o
    <3> QED
      BY <1>1, <2>1, <2>2, <3>1, <3>2, NestingMoves DEF OpensBlock, o
  <2>5. \/ LocationEnd(item)
        \/ LocationGoesOn(item, location') /\ item.t \in {"newline", "name", "bare", "value"}
    <3>1. LocationNewLine(item) => item.t = "newline" /\ LocationGoesOn(item, location')
      BY BlockLexemes DEF LocationNewLine, InLocation, LocationGoesOn
    <3>2. LocationKey(item) => item.t \in {"name", "bare"} /\ LocationGoesOn(item, location')
      BY LexemesOfItems DEF LocationKey, InLocation, LocationGoesOn
    <3>3. LocationValue(item) => item.t = "value" /\ LocationGoesOn(item, location')
      BY <1>3, LexemesOfItems DEF LocationValue, InLocation, LocationGoesOn
    <3> QED
      BY <1>3, <3>1, <3>2, <3>3 DEF UpstreamEntry, UpstreamsNewLine, UpstreamsEnd
  <2> QED
    BY <2>3, <2>4, <2>5
<1>4. CASE pc = "parse_upstreams" /\ ~Invalid /\ ~Throw
  <2>1. /\ Read /\ o = <<"http", "upstreams">> /\ Reading(text).open = o
        /\ ~is_server_adding /\ state = "S_UPSTREAM"
    BY <1>1, <1>4 DEF NestingInv, OpenAt, StateFits, Read
  <2>2. Reading(text).open # <<>>
    BY <2>1
  <2>3. CASE UpstreamEntry(item) \/ UpstreamsNewLine(item)
    <3>1. /\ Read' /\ Understood(item) /\ item.t \in {"upstream", "newline"}
          /\ UNCHANGED <<pc, state, is_server_adding>>
      BY <1>4, <2>1, <2>3 DEF UpstreamEntry, UpstreamsNewLine, GoOn, Read, parserVars
    <3>2. (OpenAt(pc, is_server_adding, state))' = o /\ StateFits(pc, is_server_adding, state)'
      BY <1>4, <2>1, <3>1 DEF OpenAt, StateFits
    <3> HIDE DEF o
    <3> QED
      BY <1>1, <2>1, <2>2, <3>1, <3>2, NestingMoves DEF OpensBlock, o
  <2>4. CASE UpstreamsEnd(item)
    <3>1. /\ Read' /\ Understood(item) /\ item.t = "}"
          /\ pc' = "parse_config" /\ state' = "S_KEY" /\ UNCHANGED is_server_adding
      BY <1>1, <2>1, <2>4, StagesAre DEF UpstreamsEnd, GoOn, Read
    <3>2. OpenAt(pc, is_server_adding, state)' = Front(o) /\ StateFits(pc, is_server_adding, state)'
      BY <2>1, <3>1, InnermostBlock DEF OpenAt, StateFits
    <3> HIDE DEF o
    <3> QED
      BY <1>1, <2>1, <2>2, <3>1, <3>2, NestingMoves DEF OpensBlock, o
  <2> QED
    BY <1>4, <2>3, <2>4 DEF LocationNewLine, LocationKey, LocationValue, LocationEnd, InLocation
<1> QED
  BY <1>2, <1>3, <1>4 DEF LocationNewLine, LocationKey, LocationValue, LocationEnd,
     InLocation, UpstreamEntry, UpstreamsNewLine, UpstreamsEnd

(* The steps of parse_config itself.                                       *)
LEMMA OpeningNests ==
    ASSUME NestingInv, ParserInv, NEW item \in Item, Opening(item)
    PROVE  NestingInv'
<1> DEFINE o == OpenAt(pc, is_server_adding, state)
<1>1. PICK l \in {"L_PROTOCOL", "L_BRACE_OPEN", "L_NEW_LINE"} :
        /\ Lexed(item, l) /\ state' = stages[<<state, l>>] /\ GoOn(item)
        /\ UNCHANGED <<pc, is_server_adding>>
  BY DEF Opening
<1>2. /\ pc = "parse_config" /\ Read /\ Read' /\ Understood(item)
      /\ is_server_adding \in BOOLEAN /\ state \in state_t
      /\ Reading(text).open = o /\ StateFits(pc, is_server_adding, state)
  BY <1>1 DEF Lexed, GoOn, ParserInv, ParserTyped, Read, NestingInv
<1>3. /\ stages[<<state, l>>] # "S_ERR" /\ get_lexem(item, valid) = l
  BY <1>1 DEF Lexed
<1>4. \/ l = "L_PROTOCOL" /\ item.t = "http" /\ state = "S_START" /\ state' = "S_BRACE_OPEN"
      \/ /\ l = "L_BRACE_OPEN" /\ item.t = "{"
         /\ state \in {"S_BRACE_OPEN", "S_SERVER_START"} /\ state' = "S_KEY"
      \/ l = "L_NEW_LINE" /\ item.t = "newline" /\ state' = state
  <2>1. CASE l = "L_PROTOCOL"
    <3>1. item.t = "http"
      BY <1>3, <2>1, BlockLexemes
    <3>2. state = "S_START" /\ state' = "S_BRACE_OPEN"
      <4>1. stages[<<state, "L_PROTOCOL">>] # "S_ERR" /\ state' = stages[<<state, "L_PROTOCOL">>]
        BY <1>1, <1>3, <2>1
      <4>2. state \in state_t
        BY <1>2
      <4> QED
        BY <4>1, <4>2, StagesAre
    <3> QED
      BY <2>1, <3>1, <3>2
  <2>2. CASE l = "L_BRACE_OPEN"
    <3>1. item.t = "{"
      BY <1>3, <2>2, BlockLexemes
    <3>2. state \in {"S_BRACE_OPEN", "S_SERVER_START"} /\ state' = "S_KEY"
      <4>1. stages[<<state, "L_BRACE_OPEN">>] # "S_ERR" /\ state' = stages[<<state, "L_BRACE_OPEN">>]
        BY <1>1, <1>3, <2>2
      <4>2. state \in state_t
        BY <1>2
      <4> QED
        BY <4>1, <4>2, BraceStates
    <3> QED
      BY <2>2, <3>1, <3>2
  <2>3. CASE l = "L_NEW_LINE"
    <3>1. item.t = "newline"
      BY <1>3, <2>3, BlockLexemes
    <3>2. state' = state
      <4>1. stages[<<state, "L_NEW_LINE">>] # "S_ERR" /\ state' = stages[<<state, "L_NEW_LINE">>]
        BY <1>1, <1>3, <2>3
      <4>2. state \in state_t
        BY <1>2
      <4> QED
        BY <4>1, <4>2, NewLineStates
    <3> QED
      BY <2>3, <3>1, <3>2
  <2> QED
    BY <2>1, <2>2, <2>3
<1>5. StateFits(pc, is_server_adding, state)'
  BY <1>1, <1>2, <1>4 DEF StateFits
<1>6. OpenAt(pc, is_server_adding, state)' =
        IF item.t \in OpensBlock THEN Append(o, item.t)
        ELSE IF item.t = "}" THEN Front(o) ELSE o
  <2>1. CASE item.t = "http"
    <3>1. o = <<>> /\ OpenAt(pc, is_server_adding, state)' = <<"http">>
      BY <1>1, <1>2, <1>4, <2>1 DEF OpenAt, StateFits
    <3> HIDE DEF o
    <3> QED
      BY <2>1, <3>1 DEF OpensBlock
  <2>2. CASE item.t # "http"
    <3>1. item.t \in {"{", "newline"} /\ OpenAt(pc, is_server_adding, state)' = o
      BY <1>1, <1>2, <1>4, <2>2 DEF OpenAt, StateFits
    <3> HIDE DEF o
    <3> QED
      BY <3>1 DEF OpensBlock
  <2> QED
    BY <2>1, <2>2
<1>7. item.t \notin {"}", "value", "word"}
  BY <1>4
<1> HIDE DEF o
<1> QED
  BY <1>2, <1>5, <1>6, <1>7, NestingMoves DEF o

LEMMA KeysNest ==
    ASSUME NestingInv, ParserInv, NEW item \in Item,
           Key(item) \/ ServerValue(item) \/ MainValue(item), ~Invalid, ~Refuse
    PROVE  NestingInv'
<1> DEFINE o == OpenAt(pc, is_server_adding, state)
<1>1. /\ pc = "parse_config" /\ Read /\ is_server_adding \in BOOLEAN /\ state \in state_t
      /\ Reading(text).open = o /\ StateFits(pc, is_server_adding, state)
  BY DEF Key, ServerValue, MainValue, Lexed, ParserInv, ParserTyped, Read, NestingInv
<1>2. /\ UNCHANGED <<pc, is_server_adding>> /\ GoOn(item)
      /\ state' \in {"S_KEY", "S_VALUE"} /\ state \in {"S_KEY", "S_VALUE"}
      /\ item.t \in {"bare", "name", "value"}
  <2>1. CASE Key(item)
    <3>1. /\ UNCHANGED <<pc, is_server_adding>> /\ GoOn(item) /\ state' = "S_VALUE"
      BY <2>1 DEF Key
    <3>2. stages[<<state, "L_KEY">>] # "S_ERR" /\ get_lexem(item, valid) = "L_KEY"
      BY <2>1 DEF Key, Lexed
    <3>3. state = "S_KEY"
      BY <1>1, <3>2, KeyStates
    <3>4. item.t \in {"bare", "name"}
      BY <3>2, LexemesOfItems
    <3> QED
      BY <3>1, <3>3, <3>4
  <2>2. CASE ServerValue(item) \/ MainValue(item)
    <3>1. /\ UNCHANGED <<pc, is_server_adding>> /\ GoOn(item) /\ state' = "S_KEY"
      BY <2>2 DEF ServerValue, MainValue
    <3>2. stages[<<state, "L_VALUE">>] # "S_ERR" /\ get_lexem(item, valid) = "L_VALUE"
      BY <2>2 DEF ServerValue, MainValue, Lexed
    <3>3. state = "S_VALUE"
      BY <1>1, <3>2, ValueStates
    <3>4. item.t = "value"
      BY <3>2, LexemesOfItems
    <3> QED
      BY <3>1, <3>3, <3>4
  <2> QED
    BY <2>1, <2>2
<1>3. Read' /\ Understood(item)
  BY <1>1, <1>2 DEF GoOn, Read
<1>4. StateFits(pc, is_server_adding, state)'
  BY <1>1, <1>2 DEF StateFits
<1>5. OpenAt(pc, is_server_adding, state)' = o /\ o # <<>>
  BY <1>1, <1>2 DEF OpenAt
<1>6. item.t \notin OpensBlock \cup {"}", "word"}
  BY <1>2 DEF OpensBlock
<1> HIDE DEF o
<1> QED
  BY <1>1, <1>3, <1>4, <1>5, <1>6, NestingMoves DEF o

LEMMA RefusedNests ==
    ASSUME NestingInv, ParserInv, Refuse, pc = "parse_config"
    PROVE  NestingInv'
<1>1. Read /\ UNCHANGED <<text, is_server_adding, state>> /\ pc' = "done"
  BY DEF ParserInv, ParserTyped, Read, Refuse, Return
<1>2. OpenAt(pc, is_server_adding, state)' = OpenAt(pc, is_server_adding, state)
  BY <1>1 DEF OpenAt
<1>3. StateFits(pc, is_server_adding, state)'
  BY <1>1 DEF StateFits, NestingInv
<1> QED
  BY <1>1, <1>2, <1>3 DEF NestingInv

LEMMA BracesNest ==
    ASSUME NestingInv, ParserInv, NEW item \in Item,
           ServerStart(item) \/ BraceClose(item) \/ LocationStart(item) \/ UpstreamsStart(item),
           ~Invalid
    PROVE  NestingInv'
<1> DEFINE o == OpenAt(pc, is_server_adding, state)
<1>1. /\ pc = "parse_config" /\ Read /\ is_server_adding \in BOOLEAN /\ state \in state_t
      /\ Reading(text).open = o /\ StateFits(pc, is_server_adding, state)
  BY DEF ServerStart, BraceClose, LocationStart, UpstreamsStart, Lexed, ParserInv, ParserTyped,
         Read, NestingInv
<1>2. state = "S_KEY"
  <2>1. \E l \in {"L_SERVER_START", "L_BRACE_CLOSE", "L_LOCATION", "L_UPSTREAM"} :
          stages[<<state, l>>] # "S_ERR"
    BY DEF ServerStart, BraceClose, LocationStart, UpstreamsStart, Lexed
  <2>2. state \in state_t
    BY <1>1
  <2> QED
    BY <2>1, <2>2, KeyStates
<1>3. o = IF is_server_adding THEN <<"http", "server">> ELSE <<"http">>
  BY <1>1, <1>2 DEF OpenAt
<1> DEFINE after == OpenAt(pc, is_server_adding, state)'
<1>4. /\ Read' /\ Understood(item) /\ StateFits(pc, is_server_adding, state)'
      /\ \/ item.t = "}" /\ after = Front(o)
         \/ item.t \in OpensBlock /\ after = Append(o, item.t)
  <2>1. CASE ServerStart(item)
    <3>1. item.t = "server" /\ Contains(valid, "server")
      BY <2>1, BlockLexemes DEF ServerStart, Lexed
    <3>2. ~is_server_adding
      BY <3>1, Keywords DEF valid
    <3>3. UNCHANGED pc /\ is_server_adding' /\ state' = "S_SERVER_START" /\ GoOn(item)
      BY <2>1 DEF ServerStart
    <3>4. after = <<"http", "server">> /\ StateFits(pc, is_server_adding, state)'
      BY <1>1, <3>3 DEF OpenAt, StateFits
    <3>5. item.t \in OpensBlock /\ <<"http", "server">> = Append(<<"http">>, item.t)
      BY <3>1 DEF OpensBlock
    <3> QED
      BY <1>1, <1>3, <3>2, <3>3, <3>4, <3>5 DEF GoOn, Read
  <2>2. CASE BraceClose(item)
    <3>1. item.t = "}" /\ is_server_adding' = FALSE /\ Understood(item)
      BY <2>2, BlockLexemes DEF BraceClose, Lexed
    <3>2. CASE is_server_adding
      <4>1. state' = "S_KEY" /\ UNCHANGED <<pc, result>>
        BY <1>1, <1>2, <2>2, <3>2, StagesAre DEF BraceClose
      <4>2. after = <<"http">> /\ StateFits(pc, is_server_adding, state)'
        BY <1>1, <3>1, <4>1 DEF OpenAt, StateFits
      <4> QED
        BY <1>1, <1>3, <3>1, <3>2, <4>1, <4>2, InnermostBlock DEF Read
    <3>3. CASE ~is_server_adding
      <4>1. state' = "S_END" /\ pc' = "done" /\ result' = "accepted"
        BY <2>2, <3>3 DEF BraceClose, Return
      <4>2. after = <<>> /\ StateFits(pc, is_server_adding, state)'
        BY <3>1, <4>1 DEF OpenAt, StateFits
      <4> QED
        BY <1>3, <3>1, <3>3, <4>1, <4>2, InnermostBlock DEF Read
    <3> QED
      BY <3>2, <3>3
  <2>3. CASE LocationStart(item)
    <3>1. item.t = "location" /\ Contains(valid, "location")
      BY <2>3, BlockLexemes DEF LocationStart, Lexed
    <3>2. is_server_adding
      BY <1>1, <3>1, Keywords DEF valid
    <3>3. /\ pc' = "parse_location" /\ UNCHANGED is_server_adding /\ state' = "S_LOCATION"
          /\ GoOn(item)
      BY <2>3 DEF LocationStart
    <3>4. after = <<"http", "server", "location">> /\ StateFits(pc, is_server_adding, state)'
      BY <3>2, <3>3 DEF OpenAt, StateFits
    <3>5. item.t \in OpensBlock
          /\ <<"http", "server", "location">> = Append(<<"http", "server">>, item.t)
      BY <3>1 DEF OpensBlock
    <3> QED
      BY <1>1, <1>3, <3>2, <3>3, <3>4, <3>5 DEF GoOn, Read
  <2>4. CASE UpstreamsStart(item)
    <3>1. item.t = "upstreams" /\ Contains(valid, "upstreams")
      BY <2>4, BlockLexemes DEF UpstreamsStart, Lexed
    <3>2. ~is_server_adding
      BY <3>1, Keywords DEF valid
    <3>3. /\ pc' = "parse_upstreams" /\ UNCHANGED is_server_adding /\ state' = "S_UPSTREAM"
          /\ GoOn(item)
      BY <2>4 DEF UpstreamsStart
    <3>4. after = <<"http", "upstreams">> /\ StateFits(pc, is_server_adding, state)'
      BY <3>2, <3>3 DEF OpenAt, StateFits
    <3>5. item.t \in OpensBlock /\ <<"http", "upstreams">> = Append(<<"http">>, item.t)
      BY <3>1 DEF OpensBlock
    <3> QED
      BY <1>1, <1>3, <3>2, <3>3, <3>4, <3>5 DEF GoOn, Read
  <2> QED
    BY <2>1, <2>2, <2>3, <2>4
<1>5. o # <<>>
  BY <1>3
<1> HIDE DEF o, after
<1>6. item.t # "word" /\ ("}" \notin OpensBlock)
  BY <1>4 DEF OpensBlock
<1>7. OpenAt(pc, is_server_adding, state)' = after
  BY DEF after
<1> QED
  BY <1>1, <1>4, <1>5, <1>6, <1>7, NestingMoves DEF o

LEMMA NextKeepsNestingInv ==
    ParserInv /\ NestingInv /\ [Next]_vars => NestingInv'
<1> SUFFICES ASSUME ParserInv, NestingInv, [Next]_vars PROVE NestingInv'
  OBVIOUS
<1>1. CASE UNCHANGED vars
  BY <1>1 DEF vars, parserVars, NestingInv, Read
<1>2. CASE Next
  <2>1. PICK item \in Item :
          \/ Unexpected(item) \/ Opening(item) \/ Key(item)
          \/ ServerValue(item) \/ MainValue(item)
          \/ ServerStart(item) \/ BraceClose(item)
          \/ LocationStart(item) \/ UpstreamsStart(item)
          \/ LocationUnexpected(item) \/ LocationNewLine(item)
          \/ LocationKey(item) \/ LocationValue(item) \/ LocationEnd(item)
          \/ UpstreamEntry(item) \/ UpstreamsNewLine(item)
          \/ UpstreamsEnd(item) \/ UpstreamsUnexpected(item)
    BY <1>2 DEF Next
  <2>2. Unexpected(item) \/ LocationUnexpected(item) \/ UpstreamsUnexpected(item) => Invalid
    BY DEF Unexpected, LocationUnexpected, UpstreamsUnexpected
  <2>3. Invalid => UNCHANGED text
    BY DEF Invalid
  <2>4. ServerValue(item) \/ MainValue(item) => pc = "parse_config"
    BY DEF ServerValue, MainValue, Lexed
  <2>5. ~(Key(item) /\ Refuse)  \/ Invalid \/ ~Refuse
    BY DEF Key, Refuse, Return, Lexed, GoOn, ParserInv, ParserTyped
  <2> QED
    BY <2>1, <2>2, <2>3, <2>4, <2>5, NestingEnds, OpeningNests, KeysNest, RefusedNests,
       BracesNest, BlocksNest
<1> QED
  BY <1>1, <1>2

(* The parser's flag and state agree with the braces of the text, whatever *)
(* the file; a file that is read to its end has closed every block.        *)
THEOREM NestingCorrect == Spec => []NestingIsKept
<1>1. NestingInv => NestingIsKept
  BY DEF NestingInv, NestingIsKept, OpenAt
<1> QED
  BY <1>1, InitParserInv, InitNestingInv, NextKeepsParserInv, NextKeepsNestingInv, PTL DEF Spec

---------------------------------------------------------------------------
(* The settings.                                                           *)

(* One value more is the last one of its name, and of no other.            *)
LEMMA OneGivenMore ==
    ASSUME NEW S, NEW given \in Seq(S), NEW g \in S, NEW blocks, NEW name
    PROVE  /\ LastPlaceOf(given, blocks, name) \in 0 .. Len(given)
           /\ LastPlaceOf(Append(given, g), blocks, name) =
                IF g.block \in blocks /\ g.name = name THEN Len(given) + 1
                ELSE LastPlaceOf(given, blocks, name)
<1> DEFINE Good(h) == h.block \in blocks /\ h.name = name
           n == Len(given)
           longer == Append(given, g)
           I == {i \in 1 .. n : Good(given[i])}
           J == {i \in 1 .. n + 1 : Good(longer[i])}
<1>1. n \in Nat /\ Len(longer) = n + 1 /\ longer[n + 1] = g
      /\ \A i \in 1 .. n : longer[i] = given[i]
  OBVIOUS
<1>2. LastPlaceOf(given, blocks, name) = IF I # {} THEN Max(I) ELSE 0
  BY DEF LastPlaceOf, SelectLastInSeq
<1>3. LastPlaceOf(longer, blocks, name) = IF J # {} THEN Max(J) ELSE 0
  BY <1>1 DEF LastPlaceOf, SelectLastInSeq
<1> HIDE DEF Good, longer
<1>4. J = I \cup (IF Good(g) THEN {n + 1} ELSE {})
  <2>1. \A i \in 1 .. n + 1 : i \in 1 .. n \/ i = n + 1
    BY <1>1
  <2>2. \A i \in 1 .. n : i \in 1 .. n + 1 /\ i # n + 1
    BY <1>1
  <2>3. n + 1 \in 1 .. n + 1
    BY <1>1
  <2> HIDE DEF n
  <2> QED
    BY <1>1, <2>1, <2>2, <2>3
<1>5. I \in SUBSET (1 .. n) /\ J \in SUBSET (1 .. n + 1)
  OBVIOUS
<1> HIDE DEF I, J, n
<1>6. LastPlaceOf(given, blocks, name) \in 0 .. n
  <2>1. I # {} => Max(I) \in I
    BY <1>1, <1>5, GreatestOf
  <2>2. I # {} => Max(I) \in 1 .. n
    BY <1>5, <2>1
  <2> QED
    BY <1>1, <1>2, <2>2
<1>7. LastPlaceOf(longer, blocks, name) =
        IF Good(g) THEN n + 1 ELSE LastPlaceOf(given, blocks, name)
  <2>1. CASE Good(g)
    <3>1. n + 1 \in J /\ J # {} /\ n + 1 \in Nat
      BY <1>1, <1>4, <2>1
    <3>2. Max(J) \in J /\ \A j \in J : Max(J) >= j
      BY <1>5, <3>1, GreatestOf
    <3>3. Max(J) \in 1 .. n + 1 /\ Max(J) >= n + 1
      BY <1>5, <3>1, <3>2
    <3>4. Max(J) = n + 1
      BY <1>1, <3>3
    <3> QED
      BY <1>3, <2>1, <3>1, <3>4
  <2>2. CASE ~Good(g)
    BY <1>2, <1>3, <1>4, <2>2
  <2> QED
    BY <2>1, <2>2
<1> QED
  BY <1>6, <1>7 DEF Good, n, longer

LEMMA LastGivenMore ==
    ASSUME NEW S, NEW given \in Seq(S), NEW g \in S, NEW blocks, NEW name, NEW default
    PROVE  LastGiven(Append(given, g), blocks, name, default) =
             IF g.block \in blocks /\ g.name = name THEN g.value
             ELSE LastGiven(given, blocks, name, default)
<1> DEFINE n == Len(given)
           longer == Append(given, g)
<1>1. n \in Nat /\ longer[n + 1] = g /\ \A i \in 1 .. n : longer[i] = given[i]
  OBVIOUS
<1>2. /\ LastPlaceOf(given, blocks, name) \in 0 .. n
      /\ LastPlaceOf(longer, blocks, name) =
           IF g.block \in blocks /\ g.name = name THEN n + 1
           ELSE LastPlaceOf(given, blocks, name)
  BY OneGivenMore
<1> HIDE DEF n, longer
<1>3. n + 1 # 0
  BY <1>1
<1>4. LastPlaceOf(given, blocks, name) # 0 =>
        longer[LastPlaceOf(given, blocks, name)] = given[LastPlaceOf(given, blocks, name)]
  BY <1>1, <1>2
<1> QED
  BY <1>1, <1>2, <1>3, <1>4 DEF LastGiven, longer

(* The number of a name in a list without repetitions.                     *)
Distinct(names, n) == \A i, j \in 1 .. n : names[i] = names[j] => i = j

LEMMA NumberIs ==
    ASSUME NEW names, Len(names) \in Nat, Distinct(names, Len(names)), NEW name
    PROVE  /\ \A i \in 1 .. Len(names) : name = names[i] => get_number_of_property(names, name) = i - 1
           /\ get_number_of_property(names, name) # -1 =>
                /\ get_number_of_property(names, name) + 1 \in 1 .. Len(names)
                /\ name = names[get_number_of_property(names, name) + 1]
<1> DEFINE n == Len(names)
           I == {i \in 1 .. Len(names) : names[i] = name}
<1>1. get_number_of_property(names, name) = (IF I # {} THEN Min(I) ELSE 0) - 1
  BY DEF get_number_of_property, SelectInSeq
<1>2. I \in SUBSET Nat /\ \A i \in I : i \in 1 .. n /\ names[i] = name
  OBVIOUS
<1>3. \A i \in 1 .. n : name = names[i] => i \in I
  OBVIOUS
<1> HIDE DEF I
<1>4. CASE I # {}
  <2>1. Min(I) \in I
    BY <1>2, <1>4, LeastOf
  <2>2. Min(I) \in 1 .. n /\ names[Min(I)] = name
    BY <1>2, <2>1
  <2>3. \A i \in 1 .. n : name = names[i] => i = Min(I)
    BY <2>2 DEF Distinct
  <2>4. get_number_of_property(names, name) = Min(I) - 1
    BY <1>1, <1>4
  <2>5. get_number_of_property(names, name) + 1 = Min(I)
    BY <2>2, <2>4
  <2> QED
    BY <2>2, <2>3, <2>4, <2>5
<1>5. CASE I = {}
  BY <1>1, <1>3, <1>5
<1> QED
  BY <1>4, <1>5

(* The numbers of the properties of a server.                              *)
LEMMA ServerNumbers ==
    ASSUME NEW name
    PROVE  LET k == get_number_of_property(valid_properties, name)
           IN  /\ k \in -1 .. 5
               /\ k = 0 <=> name = "listen"
               /\ k = 1 <=> name = "root"
               /\ k = 2 <=> name = "access_log"
               /\ k = 3 <=> name = "error_log"
               /\ k = 5 <=> name = "servername"
<1> DEFINE k == get_number_of_property(valid_properties, name)
<1>0. 6 \in Nat
  OBVIOUS
<1>1. /\ Len(valid_properties) = 6
      /\ valid_properties[1] = "listen" /\ valid_properties[2] = "root"
      /\ valid_properties[3] = "access_log" /\ valid_properties[4] = "error_log"
      /\ valid_properties[5] = "location" /\ valid_properties[6] = "servername"
  BY DEF valid_properties
<1>2. \A i \in 1 .. 6 : i = 1 \/ i = 2 \/ i = 3 \/ i = 4 \/ i = 5 \/ i = 6
  OBVIOUS
<1>3. Distinct(valid_properties, 6)
  BY <1>1, <1>2 DEF Distinct
<1>4. /\ \A i \in 1 .. 6 : name = valid_properties[i] => k = i - 1
      /\ k # -1 => k + 1 \in 1 .. 6 /\ name = valid_properties[k + 1]
  <2>1. Len(valid_properties) = 6
    BY <1>1
  <2>2. Len(valid_properties) \in Nat /\ Distinct(valid_properties, Len(valid_properties))
    BY <1>0, <1>3, <2>1
  <2>3. /\ \A i \in 1 .. Len(valid_properties) : name = valid_properties[i] => get_number_of_property(valid_properties, name) = i - 1
        /\ get_number_of_property(valid_properties, name) # -1 =>
             /\ get_number_of_property(valid_properties, name) + 1 \in 1 .. Len(valid_properties)
             /\ name = valid_properties[get_number_of_property(valid_properties, name) + 1]
    BY <2>2, NumberIs, Zenon
  <2> QED
    BY <2>1, <2>3
<1>5. k \in -1 .. 5
  <2>1. k \in -1 .. 6 - 1
    BY <1>0, <1>1, NumberIsAPlace, Zenon
  <2> HIDE DEF k
  <2> QED
    BY <2>1
<1> HIDE DEF k
<1>6. /\ name = "listen" => k = 0
      /\ name = "root" => k = 1
      /\ name = "access_log" => k = 2
      /\ name = "error_log" => k = 3
      /\ name = "servername" => k = 5
  BY <1>1, <1>4
<1>7. /\ k = 0 => name = "listen"
      /\ k = 1 => name = "root"
      /\ k = 2 => name = "access_log"
      /\ k = 3 => name = "error_log"
      /\ k = 5 => name = "servername"
  BY <1>1, <1>4
<1> QED
  BY <1>5, <1>6, <1>7 DEF k

(* The numbers of the properties of the http block.                        *)
LEMMA MainNumbers ==
    ASSUME NEW name
    PROVE  LET k == get_number_of_property(main_valid_properties, name)
           IN  /\ k \in -1 .. 5
               /\ k = 1 <=> name = "count_workflows"
               /\ k = 2 <=> name = "access_log"
               /\ k = 3 <=> name = "error_log"
<1> DEFINE k == get_number_of_property(main_valid_properties, name)
<1>0. 6 \in Nat
  OBVIOUS
<1>1. /\ Len(main_valid_properties) = 6
      /\ main_valid_properties[1] = "http" /\ main_valid_properties[2] = "count_workflows"
      /\ main_valid_properties[3] = "access_log" /\ main_valid_properties[4] = "error_log"
      /\ main_valid_properties[5] = "server" /\ main_valid_properties[6] = "upstreams"
  BY DEF main_valid_properties
<1>2. \A i \in 1 .. 6 : i = 1 \/ i = 2 \/ i = 3 \/ i = 4 \/ i = 5 \/ i = 6
  OBVIOUS
<1>3. Distinct(main_valid_properties, 6)
  BY <1>1, <1>2 DEF Distinct
<1>4. /\ \A i \in 1 .. 6 : name = main_valid_properties[i] => k = i - 1
      /\ k # -1 => k + 1 \in 1 .. 6 /\ name = main_valid_properties[k + 1]
  <2>1. Len(main_valid_properties) = 6
    BY <1>1
  <2>2. Len(main_valid_properties) \in Nat /\ Distinct(main_valid_properties, Len(main_valid_properties))
    BY <1>0, <1>3, <2>1
  <2>3. /\ \A i \in 1 .. Len(main_valid_properties) : name = main_valid_properties[i] => get_number_of_property(main_valid_properties, name) = i - 1
        /\ get_number_of_property(main_valid_properties, name) # -1 =>
             /\ get_number_of_property(main_valid_properties, name) + 1 \in 1 .. Len(main_valid_properties)
             /\ name = main_valid_properties[get_number_of_property(main_valid_properties, name) + 1]
    BY <2>2, NumberIs, Zenon
  <2> QED
    BY <2>1, <2>3
<1>5. k \in -1 .. 5
  <2>1. k \in -1 .. 6 - 1
    BY <1>0, <1>1, NumberIsAPlace, Zenon
  <2> HIDE DEF k
  <2> QED
    BY <2>1
<1> HIDE DEF k
<1>6. /\ name = "count_workflows" => k = 1
      /\ name = "access_log" => k = 2
      /\ name = "error_log" => k = 3
  BY <1>1, <1>4
<1>7. /\ k = 1 => name = "count_workflows"
      /\ k = 2 => name = "access_log"
      /\ k = 3 => name = "error_log"
  BY <1>1, <1>4
<1> QED
  BY <1>5, <1>6, <1>7 DEF k

(* What the values that were given say of the settings.                    *)
RootIsGiven(given, s) ==
    LET root == LastPlaceOf(given, {"server"}, "root")
    IN  /\ s.is_root = (root # 0)
        /\ s.root = IF root = 0 THEN <<>> ELSE <<STATICS_FOLDER_PATH, given[root].value>>

LogsAreGiven(given, s) ==
    /\ s.access_log_file = LastGiven(given, {"http", "server"}, "access_log", "")
    /\ s.error_log_file = LastGiven(given, {"http", "server"}, "error_log", "")

ServerIsGiven(given, s) ==
    /\ s.port = LastGiven(given, {"server"}, "listen", "indeterminate")
    /\ s.servername = LastGiven(given, {"server"}, "servername", "")

MainIsGiven(given, m) ==
    /\ m.count_workflows = LastGiven(given, {"http"}, "count_workflows", "4")
    /\ m.access_log_file = LastGiven(given, {"http"}, "access_log", "")
    /\ m.error_log_file = LastGiven(given, {"http"}, "error_log", "")

Agrees(given, m, s) ==
    /\ RootIsGiven(given, s) /\ LogsAreGiven(given, s)
    /\ ServerIsGiven(given, s) /\ MainIsGiven(given, m)

(* The values that count after one value more of a block.                  *)
SameBut(given, longer, block, name, default, g) ==
    LastGiven(longer, {block}, name, default) =
      IF g.block = block /\ g.name = name THEN g.value
      ELSE LastGiven(given, {block}, name, default)

LogSameBut(given, longer, name, g) ==
    LastGiven(longer, {"http", "server"}, name, "") =
      IF g.block \in {"http", "server"} /\ g.name = name THEN g.value
      ELSE LastGiven(given, {"http", "server"}, name, "")

LEMMA ValuesGivenMore ==
    ASSUME NEW given \in Seq(GivenType), NEW g \in GivenType,
           NEW longer, longer = Append(given, g)
    PROVE  /\ SameBut(given, longer, "server", "listen", "indeterminate", g)
           /\ SameBut(given, longer, "server", "servername", "", g)
           /\ SameBut(given, longer, "http", "count_workflows", "4", g)
           /\ SameBut(given, longer, "http", "access_log", "", g)
           /\ SameBut(given, longer, "http", "error_log", "", g)
           /\ LogSameBut(given, longer, "access_log", g)
           /\ LogSameBut(given, longer, "error_log", g)
<1>1. \A block, name, default : SameBut(given, longer, block, name, default, g)
  <2> SUFFICES ASSUME NEW block, NEW name, NEW default
               PROVE  SameBut(given, longer, block, name, default, g)
    OBVIOUS
  <2>1. LastGiven(longer, {block}, name, default) =
          IF g.block \in {block} /\ g.name = name THEN g.value
          ELSE LastGiven(given, {block}, name, default)
    BY LastGivenMore
  <2> QED
    BY <2>1 DEF SameBut
<1>2. \A name : LogSameBut(given, longer, name, g)
  <2> SUFFICES ASSUME NEW name PROVE LogSameBut(given, longer, name, g)
    OBVIOUS
  <2>1. \A blocks, default :
          LastGiven(longer, blocks, name, default) =
            IF g.block \in blocks /\ g.name = name THEN g.value
            ELSE LastGiven(given, blocks, name, default)
    BY LastGivenMore
  <2> QED
    BY <2>1 DEF LogSameBut
<1> QED
  BY <1>1, <1>2

(* The root a server has after one value more.                             *)
LEMMA RootGivenMore ==
    ASSUME NEW given \in Seq(GivenType), NEW g \in GivenType, NEW s, NEW t,
           RootIsGiven(given, s),
           IF g.block = "server" /\ g.name = "root"
             THEN t.is_root = TRUE /\ t.root = <<STATICS_FOLDER_PATH, g.value>>
             ELSE t.is_root = s.is_root /\ t.root = s.root
    PROVE  RootIsGiven(Append(given, g), t)
<1> DEFINE n == Len(given)
           longer == Append(given, g)
           old == LastPlaceOf(given, {"server"}, "root")
<1>1. n \in Nat /\ longer[n + 1] = g /\ \A i \in 1 .. n : longer[i] = given[i]
  OBVIOUS
<1>2. /\ old \in 0 .. n
      /\ LastPlaceOf(longer, {"server"}, "root") =
           IF g.block \in {"server"} /\ g.name = "root" THEN n + 1 ELSE old
  BY OneGivenMore
<1> HIDE DEF n, longer, old
<1>3. n + 1 # 0 /\ (old # 0 => longer[old] = given[old])
  BY <1>1, <1>2
<1>4. /\ s.is_root = (old # 0)
      /\ s.root = IF old = 0 THEN <<>> ELSE <<STATICS_FOLDER_PATH, given[old].value>>
  BY DEF RootIsGiven, old
<1>5. CASE g.block = "server" /\ g.name = "root"
  <2>1. LastPlaceOf(longer, {"server"}, "root") = n + 1
    BY <1>2, <1>5
  <2> QED
    BY <1>1, <1>3, <1>5, <2>1 DEF RootIsGiven, longer
<1>6. CASE ~(g.block = "server" /\ g.name = "root")
  <2>1. LastPlaceOf(longer, {"server"}, "root") = old
    BY <1>2, <1>6
  <2> QED
    BY <1>3, <1>4, <1>6, <2>1 DEF RootIsGiven, longer
<1> QED
  BY <1>5, <1>6

(* A value of a server block: it is set under its name, and nothing else.  *)
LEMMA ServerValueAgrees ==
    ASSUME NEW given \in Seq(GivenType), NEW g \in GivenType, g.block = "server",
           NEW m, NEW s \in ServerType, Agrees(given, m, s),
           NEW k, k = get_number_of_property(valid_properties, g.name)
    PROVE  Agrees(Append(given, g), m, set_property(s, k, g.value))
<1> DEFINE t == set_property(s, k, g.value)
           longer == Append(given, g)
<1>1. /\ k \in -1 .. 5
      /\ k = 0 <=> g.name = "listen"
      /\ k = 1 <=> g.name = "root"
      /\ k = 2 <=> g.name = "access_log"
      /\ k = 3 <=> g.name = "error_log"
      /\ k = 5 <=> g.name = "servername"
  BY ServerNumbers
<1>2. /\ t.port = IF k = 0 THEN g.value ELSE s.port
      /\ t.is_root = IF k = 1 THEN TRUE ELSE s.is_root
      /\ t.root = IF k = 1 THEN <<STATICS_FOLDER_PATH, g.value>> ELSE s.root
      /\ t.access_log_file = IF k = 2 THEN g.value ELSE s.access_log_file
      /\ t.error_log_file = IF k = 3 THEN g.value ELSE s.error_log_file
      /\ t.servername = IF k = 5 THEN g.value ELSE s.servername
  <2>1. /\ numbers_of_properties.LISTEN_NUMBER = 0 /\ numbers_of_properties.ROOT_NUMBER = 1
        /\ numbers_of_properties.ACCESS_LOG_NUMBER = 2
        /\ numbers_of_properties.ERROR_LOG_NUMBER = 3
        /\ numbers_of_properties.SERVERNAME_NUMBER = 5
    BY DEF numbers_of_properties
  <2>8. {"port", "servername", "access_log_file", "error_log_file", "root", "is_root"}
          \subseteq DOMAIN s
    BY DEF ServerType
  <2>2. CASE k = 0
    <3>1. t = [s EXCEPT !.port = g.value]
      BY <2>1, <2>2 DEF set_property
    <3> HIDE DEF t
    <3> QED
      BY <2>2, <2>8, <3>1
  <2>3. CASE k = 1
    <3>1. t = [s EXCEPT !.root = <<STATICS_FOLDER_PATH, g.value>>, !.is_root = TRUE]
      BY <2>1, <2>3 DEF set_property
    <3> HIDE DEF t
    <3> QED
      BY <2>3, <2>8, <3>1
  <2>4. CASE k = 2
    <3>1. t = [s EXCEPT !.access_log_file = g.value]
      BY <2>1, <2>4 DEF set_property
    <3> HIDE DEF t
    <3> QED
      BY <2>4, <2>8, <3>1
  <2>5. CASE k = 3
    <3>1. t = [s EXCEPT !.error_log_file = g.value]
      BY <2>1, <2>5 DEF set_property
    <3> HIDE DEF t
    <3> QED
      BY <2>5, <2>8, <3>1
  <2>6. CASE k = 5
    <3>1. t = [s EXCEPT !.servername = g.value]
      BY <2>1, <2>6 DEF set_property
    <3> HIDE DEF t
    <3> QED
      BY <2>6, <2>8, <3>1
  <2>7. CASE k \notin {0, 1, 2, 3, 5}
    <3>1. t = s
      BY <2>1, <2>7 DEF set_property
    <3> QED
      BY <2>7, <3>1
  <2> QED
    BY <2>2, <2>3, <2>4, <2>5, <2>6, <2>7
<1>3. /\ SameBut(given, longer, "server", "listen", "indeterminate", g)
      /\ SameBut(given, longer, "server", "servername", "", g)
      /\ SameBut(given, longer, "http", "count_workflows", "4", g)
      /\ SameBut(given, longer, "http", "access_log", "", g)
      /\ SameBut(given, longer, "http", "error_log", "", g)
      /\ LogSameBut(given, longer, "access_log", g)
      /\ LogSameBut(given, longer, "error_log", g)
  BY ValuesGivenMore
<1> HIDE DEF t, longer
<1>4. RootIsGiven(longer, t)
  BY <1>1, <1>2, RootGivenMore DEF Agrees, longer
<1>5. LogsAreGiven(longer, t) /\ ServerIsGiven(longer, t) /\ MainIsGiven(longer, m)
  BY <1>1, <1>2, <1>3 DEF Agrees, LogsAreGiven, ServerIsGiven, MainIsGiven, SameBut, LogSameBut
<1> QED
  BY <1>4, <1>5 DEF Agrees, t, longer

(* A value of the http block; its log files are the server's, too.         *)
LEMMA MainValueAgrees ==
    ASSUME NEW given \in Seq(GivenType), NEW g \in GivenType, g.block = "http",
           NEW m, NEW s, NEW n, NEW t, Agrees(given, m, s),
           NEW k, k = get_number_of_property(main_valid_properties, g.name),
           n.count_workflows = IF k = 1 THEN g.value ELSE m.count_workflows,
           n.access_log_file = IF k = 2 THEN g.value ELSE m.access_log_file,
           n.error_log_file = IF k = 3 THEN g.value ELSE m.error_log_file,
           t.access_log_file = IF k = 2 THEN g.value ELSE s.access_log_file,
           t.error_log_file = IF k = 3 THEN g.value ELSE s.error_log_file,
           t.port = s.port, t.servername = s.servername, t.root = s.root,
           t.is_root = s.is_root
    PROVE  Agrees(Append(given, g), n, t)
<1> DEFINE longer == Append(given, g)
<1>1. /\ k = 1 <=> g.name = "count_workflows"
      /\ k = 2 <=> g.name = "access_log"
      /\ k = 3 <=> g.name = "error_log"
  BY MainNumbers
<1>2. /\ SameBut(given, longer, "server", "listen", "indeterminate", g)
      /\ SameBut(given, longer, "server", "servername", "", g)
      /\ SameBut(given, longer, "http", "count_workflows", "4", g)
      /\ SameBut(given, longer, "http", "access_log", "", g)
      /\ SameBut(given, longer, "http", "error_log", "", g)
      /\ LogSameBut(given, longer, "access_log", g)
      /\ LogSameBut(given, longer, "error_log", g)
  BY ValuesGivenMore
<1> HIDE DEF longer
<1>3. RootIsGiven(longer, t)
  BY RootGivenMore DEF Agrees, longer
<1>4. LogsAreGiven(longer, t) /\ ServerIsGiven(longer, t) /\ MainIsGiven(longer, n)
  BY <1>1, <1>2 DEF Agrees, LogsAreGiven, ServerIsGiven, MainIsGiven, SameBut, LogSameBut
<1> QED
  BY <1>3, <1>4 DEF Agrees, longer

(* A value of a location says nothing of the server or of http.            *)
LEMMA LocationValueAgrees ==
    ASSUME NEW given \in Seq(GivenType), NEW g \in GivenType, g.block = "location",
           NEW m, NEW s, Agrees(given, m, s)
    PROVE  Agrees(Append(given, g), m, s)
<1> DEFINE longer == Append(given, g)
<1>1. /\ SameBut(given, longer, "server", "listen", "indeterminate", g)
      /\ SameBut(given, longer, "server", "servername", "", g)
      /\ SameBut(given, longer, "http", "count_workflows", "4", g)
      /\ SameBut(given, longer, "http", "access_log", "", g)
      /\ SameBut(given, longer, "http", "error_log", "", g)
      /\ LogSameBut(given, longer, "access_log", g)
      /\ LogSameBut(given, longer, "error_log", g)
  BY ValuesGivenMore
<1> HIDE DEF longer
<1>2. RootIsGiven(longer, s)
  BY RootGivenMore DEF Agrees, longer
<1>3. LogsAreGiven(longer, s) /\ ServerIsGiven(longer, s) /\ MainIsGiven(longer, m)
  BY <1>1 DEF Agrees, LogsAreGiven, ServerIsGiven, MainIsGiven, SameBut, LogSameBut
<1> QED
  BY <1>2, <1>3 DEF Agrees, longer

(* Locations and upstreams are not looked at.                              *)
LEMMA OtherFieldsAgree ==
    ASSUME NEW given, NEW m, NEW s \in ServerType, Agrees(given, m, s), NEW x
    PROVE  /\ Agrees(given, m, [s EXCEPT !.locations = x])
           /\ Agrees(given, m, [s EXCEPT !.upstreams = x])
BY DEF Agrees, RootIsGiven, LogsAreGiven, ServerIsGiven, ServerType

(* The number that is set goes with the name that was read before.         *)
SettingsInv ==
    Read => /\ Agrees(Reading(text).given, main, server)
            /\ pc = "parse_config" /\ state = "S_VALUE" =>
                 property_number = get_number_of_property(valid, Reading(text).name)

LEMMA InitSettingsInv == Init => SettingsInv
<1> SUFFICES ASSUME Init PROVE SettingsInv
  OBVIOUS
<1>1. /\ state = "S_START" /\ text = <<>> /\ server = NewServer
      /\ main = [count_workflows |-> "4", access_log_file |-> "", error_log_file |-> ""]
  BY Zenon DEF Init
<1>2. Reading(text).given = <<>>
  <2>1. Reading(text) = NothingRead
    BY <1>1, ReadingOfNothing, Zenon
  <2> QED
    BY <2>1 DEF NothingRead
<1>3. \A blocks, name : LastPlaceOf(<<>>, blocks, name) = 0
  BY DEF LastPlaceOf, SelectLastInSeq
<1>4. \A blocks, name, default : LastGiven(<<>>, blocks, name, default) = default
  BY <1>3 DEF LastGiven
<1>5. MainIsGiven(<<>>, main)
  <2>1. /\ main.count_workflows = "4" /\ main.access_log_file = "" /\ main.error_log_file = ""
    BY <1>1
  <2>2. /\ LastGiven(<<>>, {"http"}, "count_workflows", "4") = "4"
        /\ LastGiven(<<>>, {"http"}, "access_log", "") = ""
        /\ LastGiven(<<>>, {"http"}, "error_log", "") = ""
    BY <1>4, Zenon
  <2> QED
    BY <2>1, <2>2 DEF MainIsGiven
<1>6. RootIsGiven(<<>>, server) /\ LogsAreGiven(<<>>, server) /\ ServerIsGiven(<<>>, server)
  <2>1. /\ server.port = "indeterminate" /\ server.servername = ""
        /\ server.access_log_file = "" /\ server.error_log_file = ""
        /\ server.root = <<>> /\ server.is_root = FALSE
    BY <1>1 DEF NewServer
  <2>2. RootIsGiven(<<>>, server)
    BY <1>3, <2>1 DEF RootIsGiven
  <2>3. /\ LastGiven(<<>>, {"http", "server"}, "access_log", "") = ""
        /\ LastGiven(<<>>, {"http", "server"}, "error_log", "") = ""
        /\ LastGiven(<<>>, {"server"}, "listen", "indeterminate") = "indeterminate"
        /\ LastGiven(<<>>, {"server"}, "servername", "") = ""
    BY <1>4, Zenon
  <2>4. LogsAreGiven(<<>>, server)
    BY <2>1, <2>3 DEF LogsAreGiven
  <2>5. ServerIsGiven(<<>>, server)
    BY <2>1, <2>3 DEF ServerIsGiven
  <2> QED
    BY <2>2, <2>4, <2>5
<1> QED
  BY <1>1, <1>2, <1>5, <1>6 DEF SettingsInv, Agrees

(* What one item more adds to the values, and to the name.                 *)
LEMMA GivenGrows ==
    ASSUME NestingInv, NEW item \in Item, Understood(item), item.t # "word"
    PROVE  LET r == Reading(text)
               n == Reading(text')
           IN  /\ item.t # "value" => n.given = r.given
               /\ item.t = "name" => n.name = item.name
               /\ item.t = "value" =>
                    n.given = Append(r.given, [block |-> Last(r.open), number |-> r.count,
                                               name |-> r.name, value |-> item.value])
<1> DEFINE r == Reading(text)
<1>1. r \in ReadingType
  BY DEF NestingInv
<1>2. Reading(text') = IF item.t = "newline" THEN r ELSE ReadOne(r, item)
  BY TextGrows
<1>3. item.t \in OpensBlock \cup {"}", "name", "bare", "value", "{", "upstream", "newline"}
  BY DEF Item, OpensBlock
<1>4. {"open", "count", "name", "given"} \subseteq DOMAIN r
  BY <1>1 DEF ReadingType
<1> HIDE DEF r
<1>5. CASE item.t \in OpensBlock
  BY <1>2, <1>4, <1>5 DEF ReadOne, OpensBlock, r
<1>6. CASE item.t = "}"
  BY <1>2, <1>4, <1>6 DEF ReadOne, OpensBlock, r
<1>7. CASE item.t = "name"
  BY <1>2, <1>4, <1>7 DEF ReadOne, OpensBlock, r
<1>8. CASE item.t = "bare"
  BY <1>2, <1>4, <1>8 DEF ReadOne, OpensBlock, r
<1>9. CASE item.t = "value"
  <2>1. ReadOne(r, item) =
          [r EXCEPT !.given = Append(r.given, [block |-> Last(r.open), number |-> r.count,
                                               name |-> r.name, value |-> item.value])]
    BY <1>1, <1>9, ReadOneIs
  <2> QED
    BY <1>2, <1>4, <1>9, <2>1 DEF r
<1>a. CASE item.t \in {"{", "upstream", "newline"}
  BY <1>2, <1>4, <1>a DEF ReadOne, OpensBlock, r
<1> QED
  BY <1>3, <1>5, <1>6, <1>7, <1>8, <1>9, <1>a

(* Steps that set nothing.                                                 *)
LEMMA SettingsStay ==
    ASSUME NestingInv, SettingsInv, Read, NEW item \in Item, Understood(item),
           item.t \notin {"word", "value"}, UNCHANGED <<main, server>>,
           pc' = "parse_config" => state' # "S_VALUE"
    PROVE  SettingsInv'
<1>1. Reading(text').given = Reading(text).given
  BY GivenGrows
<1> QED
  BY <1>1 DEF SettingsInv

LEMMA SettingsEnd ==
    ASSUME SettingsInv, UNCHANGED text, Invalid \/ Throw
    PROVE  SettingsInv'
BY DEF SettingsInv, Read, Invalid, Throw, Return

LEMMA SettingsRefuse ==
    ASSUME SettingsInv, Refuse, Read
    PROVE  SettingsInv'
BY DEF SettingsInv, Read, Refuse, Return

LEMMA KeySettings ==
    ASSUME NestingInv, ParserInv, SettingsInv, NEW item \in Item, Key(item), ~Invalid
    PROVE  SettingsInv'
<1>1. /\ Read /\ Read' /\ Understood(item)
      /\ UNCHANGED <<pc, is_server_adding, main, server>>
      /\ property_number' = NumberOf(item, valid) /\ NumberOf(item, valid) # -1
      /\ get_lexem(item, valid) = "L_KEY"
  BY DEF Key, Lexed, GoOn, Read, ParserInv, ParserTyped
<1>2. item.t = "name" /\ property_number' = get_number_of_property(valid, item.name)
  BY <1>1, LexemesOfItems DEF NumberOf
<1>3. Reading(text').given = Reading(text).given /\ Reading(text').name = item.name
  BY <1>1, <1>2, GivenGrows
<1>4. valid' = valid
  BY <1>1 DEF valid
<1> QED
  BY <1>1, <1>2, <1>3, <1>4 DEF SettingsInv

(* A value of parse_config goes where the name before it says.             *)
LEMMA ValueSettings ==
    ASSUME NestingInv, ParserInv, SettingsInv, NEW item \in Item,
           ServerValue(item) \/ MainValue(item), ~Refuse
    PROVE  SettingsInv'
<1> DEFINE r == Reading(text)
           g == [block |-> Last(r.open), number |-> r.count, name |-> r.name,
                 value |-> item.value]
<1>1. /\ pc = "parse_config" /\ Read /\ is_server_adding \in BOOLEAN /\ state \in state_t
      /\ GoOn(item) /\ state' = "S_KEY"
      /\ get_lexem(item, valid) = "L_VALUE" /\ stages[<<state, "L_VALUE">>] # "S_ERR"
      /\ server \in ServerType /\ main \in MainType
  BY DEF ServerValue, MainValue, Lexed, ParserInv, ParserTyped, Read
<1>2. item.t = "value" /\ item.value \in Values
  BY <1>1, LexemesOfItems
<1>3. state = "S_VALUE"
  BY <1>1, ValueStates
<1>4. /\ r \in ReadingType /\ r.open = IF is_server_adding THEN <<"http", "server">> ELSE <<"http">>
  BY <1>1, <1>3 DEF NestingInv, OpenAt
<1>5. Last(r.open) = IF is_server_adding THEN "server" ELSE "http"
  <2> HIDE DEF r
  <2> QED
    BY <1>4, InnermostBlock
<1>6. /\ Agrees(r.given, main, server)
      /\ property_number = get_number_of_property(valid, r.name)
  BY <1>1, <1>3 DEF SettingsInv
<1>7. Reading(text').given = Append(r.given, g)
  BY <1>1, <1>2, GivenGrows DEF GoOn
<1> HIDE DEF r
<1>8. g \in GivenType /\ r.given \in Seq(GivenType)
      /\ g.name = r.name /\ g.block = Last(r.open) /\ g.value = item.value
  BY <1>2, <1>4, <1>5 DEF GivenType, ReadingType, OpensBlock
<1> HIDE DEF g
<1>9. CASE ServerValue(item)
  <2>1. is_server_adding /\ server' = set_property(server, property_number, item.value)
        /\ UNCHANGED main
    BY <1>9 DEF ServerValue
  <2>2. g.block = "server" /\ property_number = get_number_of_property(valid_properties, g.name)
    BY <1>5, <1>6, <1>8, <2>1 DEF valid
  <2>3. Agrees(Append(r.given, g), main, set_property(server, property_number, g.value))
    BY <1>1, <1>6, <1>8, <2>2, ServerValueAgrees
  <2> QED
    BY <1>1, <1>7, <1>8, <2>1, <2>3 DEF SettingsInv
<1>a. CASE MainValue(item)
  <2> DEFINE k == property_number
  <2>1. ~is_server_adding /\ main_set_property(k, item.value)
    BY <1>a DEF MainValue
  <2>2. g.block = "http" /\ k = get_number_of_property(main_valid_properties, g.name)
    BY <1>5, <1>6, <1>8, <2>1 DEF valid
  <2> HIDE DEF k
  <2>3. /\ {"count_workflows", "access_log_file", "error_log_file"} \subseteq DOMAIN main
        /\ {"port", "servername", "access_log_file", "error_log_file", "root", "is_root"}
             \subseteq DOMAIN server
    BY <1>1 DEF ServerType, MainType
  <2>4. /\ set_property(server, 2, item.value) = [server EXCEPT !.access_log_file = item.value]
        /\ set_property(server, 3, item.value) = [server EXCEPT !.error_log_file = item.value]
    BY DEF set_property, numbers_of_properties
  <2>5. /\ get_number_of_property(valid_properties, "access_log") = 2
        /\ get_number_of_property(valid_properties, "error_log") = 3
    BY ServerNumbers
  <2>6. /\ k = 1 => main' = [main EXCEPT !.count_workflows = item.value] /\ UNCHANGED server
        /\ k = 2 => /\ main' = [main EXCEPT !.access_log_file = item.value]
                    /\ server' = [server EXCEPT !.access_log_file = item.value]
        /\ k = 3 => /\ main' = [main EXCEPT !.error_log_file = item.value]
                    /\ server' = [server EXCEPT !.error_log_file = item.value]
        /\ k \notin {1, 2, 3} => UNCHANGED <<main, server>>
    BY <2>1, <2>4, <2>5 DEF main_set_property, main_numbers
  <2>7. /\ main'.count_workflows = IF k = 1 THEN g.value ELSE main.count_workflows
        /\ main'.access_log_file = IF k = 2 THEN g.value ELSE main.access_log_file
        /\ main'.error_log_file = IF k = 3 THEN g.value ELSE main.error_log_file
    BY <1>8, <2>3, <2>6
  <2>8. /\ server'.access_log_file = IF k = 2 THEN g.value ELSE server.access_log_file
        /\ server'.error_log_file = IF k = 3 THEN g.value ELSE server.error_log_file
        /\ server'.port = server.port /\ server'.servername = server.servername
        /\ server'.root = server.root /\ server'.is_root = server.is_root
    BY <1>8, <2>3, <2>6
  <2>9. Agrees(Append(r.given, g), main', server')
    BY <1>6, <1>8, <2>2, <2>7, <2>8, MainValueAgrees
  <2> QED
    BY <1>1, <1>7, <2>9 DEF SettingsInv
<1> QED
  BY <1>9, <1>a

(* The other blocks leave what SettingsInv is about alone.                 *)
LEMMA BlockSettings ==
    ASSUME NestingInv, ParserInv, SettingsInv, NEW item \in Item,
           \/ LocationNewLine(item) \/ LocationKey(item) \/ LocationValue(item)
           \/ LocationEnd(item) \/ UpstreamEntry(item) \/ UpstreamsNewLine(item)
           \/ UpstreamsEnd(item), ~Invalid, ~Throw
    PROVE  SettingsInv'
<1> DEFINE r == Reading(text)
<1>1. /\ Read /\ server \in ServerType /\ state \in state_t /\ Agrees(r.given, main, server)
  BY DEF LocationNewLine, LocationKey, LocationValue, LocationEnd, InLocation, UpstreamEntry,
         UpstreamsNewLine, UpstreamsEnd, ParserInv, ParserTyped, Read, SettingsInv
<1>2. CASE LocationNewLine(item) \/ LocationKey(item)
  <2>1. item.t \notin {"word", "value"}
    BY <1>2, BlockLexemes, LexemesOfItems DEF LocationNewLine, LocationKey, InLocation
  <2>2. Understood(item) /\ UNCHANGED <<pc, main, server>> /\ pc = "parse_location"
    BY <1>2 DEF LocationNewLine, LocationKey, InLocation, LocationGoesOn, GoOn
  <2> QED
    BY <1>1, <2>1, <2>2, SettingsStay
<1>3. CASE LocationValue(item)
  <2> DEFINE g == [block |-> Last(r.open), number |-> r.count, name |-> r.name,
                   value |-> item.value]
  <2>1. item.t = "value" /\ item.value \in Values
    BY <1>3, LexemesOfItems DEF LocationValue, InLocation
  <2>2. Understood(item) /\ UNCHANGED <<pc, main, server>> /\ pc = "parse_location"
    BY <1>3 DEF LocationValue, InLocation, LocationGoesOn, GoOn
  <2>3. r \in ReadingType /\ Last(r.open) = "location"
    BY <1>1, <2>2, InnermostBlock DEF NestingInv, OpenAt
  <2>4. Reading(text').given = Append(r.given, g)
    BY <2>1, <2>2, GivenGrows
  <2> HIDE DEF r
  <2>5. g \in GivenType /\ r.given \in Seq(GivenType) /\ g.block = "location"
    BY <2>1, <2>3 DEF GivenType, ReadingType, OpensBlock
  <2> HIDE DEF g
  <2>6. Agrees(Append(r.given, g), main, server)
    BY <1>1, <2>5, LocationValueAgrees
  <2> QED
    BY <2>2, <2>4, <2>6 DEF SettingsInv
<1>4. CASE LocationEnd(item)
  <2>1. item.t = "}"
    BY <1>4, BlockLexemes DEF LocationEnd, InLocation
  <2>2. /\ Understood(item) /\ pc = "parse_location" /\ UNCHANGED main
        /\ state' = stages[<<state, "L_END_LOCATION">>]
        /\ server' = add_location(server, location.type, location.location)
    BY <1>4 DEF LocationEnd, InLocation, GoOn
  <2>3. state = "S_LOCATION"
    BY <1>1, <2>2 DEF NestingInv, StateFits
  <2>4. state' = "S_KEY"
    BY <1>1, <2>2, <2>3, StagesAre
  <2>5. Reading(text').given = r.given
    BY <2>1, <2>2, GivenGrows
  <2>6. Agrees(r.given, main, server')
    BY <1>1, <2>2, OtherFieldsAgree DEF add_location
  <2> QED
    BY <2>2, <2>4, <2>5, <2>6 DEF SettingsInv
<1>5. CASE UpstreamEntry(item)
  <2>1. item.t = "upstream" /\ pc = "parse_upstreams"
    BY <1>5 DEF UpstreamEntry
  <2>2. /\ Understood(item) /\ UNCHANGED <<main, pc>>
        /\ server' = add_upstream(server, item.entry.address, Default(item.entry.weight, 1),
                                  Default(item.entry.port, 80))
    BY <1>5 DEF UpstreamEntry, GoOn, parserVars
  <2>3. Reading(text').given = r.given
    BY <2>1, <2>2, GivenGrows
  <2>4. Agrees(r.given, main, server')
    BY <1>1, <2>2, OtherFieldsAgree DEF add_upstream
  <2> QED
    BY <2>1, <2>2, <2>3, <2>4 DEF SettingsInv
<1>6. CASE UpstreamsNewLine(item)
  <2>1. item.t = "newline" /\ pc = "parse_upstreams"
    BY <1>6 DEF UpstreamsNewLine
  <2>2. Understood(item) /\ UNCHANGED <<main, server, pc>>
    BY <1>6 DEF UpstreamsNewLine, GoOn, parserVars
  <2> QED
    BY <1>1, <2>1, <2>2, SettingsStay
<1>7. CASE UpstreamsEnd(item)
  <2>1. item.t = "}" /\ pc = "parse_upstreams"
    BY <1>7 DEF UpstreamsEnd
  <2>2. /\ Understood(item) /\ UNCHANGED <<main, server>>
        /\ state' = stages[<<state, "L_END_UPSTREAM">>]
    BY <1>7 DEF UpstreamsEnd, GoOn
  <2>3. state = "S_UPSTREAM"
    BY <1>1, <2>1 DEF NestingInv, StateFits
  <2>4. state' = "S_KEY"
    BY <1>1, <2>2, <2>3, StagesAre
  <2> QED
    BY <1>1, <2>1, <2>2, <2>4, SettingsStay
<1> QED
  BY <1>2, <1>3, <1>4, <1>5, <1>6, <1>7

LEMMA ConfigSettings ==
    ASSUME NestingInv, ParserInv, SettingsInv, NEW item \in Item,
           \/ Opening(item) \/ ServerStart(item) \/ BraceClose(item)
           \/ LocationStart(item) \/ UpstreamsStart(item), ~Invalid
    PROVE  SettingsInv'
<1>1. pc = "parse_config" /\ Read /\ state \in state_t
  BY DEF Opening, ServerStart, BraceClose, LocationStart, UpstreamsStart, Lexed, ParserInv,
         ParserTyped, Read
<1>2. Understood(item) /\ UNCHANGED <<main, server>>
  BY DEF Opening, ServerStart, BraceClose, LocationStart, UpstreamsStart, GoOn
<1>3. item.t \notin {"word", "value"}
  <2>1. \E l \in {"L_PROTOCOL", "L_BRACE_OPEN", "L_NEW_LINE", "L_SERVER_START", "L_BRACE_CLOSE",
                  "L_LOCATION", "L_UPSTREAM"} : get_lexem(item, valid) = l
    BY DEF Opening, ServerStart, BraceClose, LocationStart, UpstreamsStart, Lexed
  <2> QED
    BY <2>1, BlockLexemes
<1>4. pc' = "parse_config" => state' # "S_VALUE"
  <2>1. CASE Opening(item)
    <3>1. PICK l \in {"L_PROTOCOL", "L_BRACE_OPEN", "L_NEW_LINE"} :
            stages[<<state, l>>] # "S_ERR" /\ state' = stages[<<state, l>>]
      BY <2>1 DEF Opening, Lexed
    <3>2. l \in lexem_t
      BY DEF lexem_t
    <3>3. <<state, l, state'>> \in Edges
      BY <1>1, <3>1, <3>2, StagesAreEdges
    <3> QED
      BY <3>3 DEF Edges
  <2>2. CASE BraceClose(item)
    <3>1. stages[<<state, "L_BRACE_CLOSE">>] # "S_ERR"
      BY <2>2 DEF BraceClose, Lexed
    <3>2. state = "S_KEY"
      BY <1>1, <3>1, KeyStates
    <3>3. state' \in {"S_KEY", "S_END"}
      BY <1>1, <2>2, <3>2, StagesAre DEF BraceClose
    <3> QED
      BY <3>3
  <2>3. CASE ServerStart(item) \/ LocationStart(item) \/ UpstreamsStart(item)
    BY <2>3 DEF ServerStart, LocationStart, UpstreamsStart
  <2> QED
    BY <2>1, <2>2, <2>3
<1> QED
  BY <1>1, <1>2, <1>3, <1>4, SettingsStay

LEMMA NextKeepsSettingsInv ==
    ParserInv /\ NestingInv /\ SettingsInv /\ [Next]_vars => SettingsInv'
<1> SUFFICES ASSUME ParserInv, NestingInv, SettingsInv, [Next]_vars PROVE SettingsInv'
  OBVIOUS
<1>1. CASE UNCHANGED vars
  BY <1>1 DEF vars, parserVars, SettingsInv, Read, valid
<1>2. CASE Next
  <2>1. PICK item \in Item :
          \/ Unexpected(item) \/ Opening(item) \/ Key(item)
          \/ ServerValue(item) \/ MainValue(item)
          \/ ServerStart(item) \/ BraceClose(item)
          \/ LocationStart(item) \/ UpstreamsStart(item)
          \/ LocationUnexpected(item) \/ LocationNewLine(item)
          \/ LocationKey(item) \/ LocationValue(item) \/ LocationEnd(item)
          \/ UpstreamEntry(item) \/ UpstreamsNewLine(item)
          \/ UpstreamsEnd(item) \/ UpstreamsUnexpected(item)
    BY <1>2 DEF Next
  <2>2. Unexpected(item) \/ LocationUnexpected(item) \/ UpstreamsUnexpected(item) => Invalid
    BY DEF Unexpected, LocationUnexpected, UpstreamsUnexpected
  <2>3. Invalid \/ Throw => UNCHANGED text
    BY DEF Invalid, Throw
  <2>4. ServerValue(item) \/ MainValue(item) => Read
    BY DEF ServerValue, MainValue, Lexed, ParserInv, ParserTyped, Read
  <2> QED
    BY <2>1, <2>2, <2>3, <2>4, SettingsEnd, SettingsRefuse, KeySettings, ValueSettings,
       BlockSettings, ConfigSettings
<1> QED
  BY <1>1, <1>2

(* Every setting of the server and of the http block is the last one the   *)
(* file gave it in its own block, or, for the log files of the server, in  *)
(* either of the two.                                                      *)
THEOREM SettingsCorrect == Spec => []SettingsAreTheLastGiven
<1>1. SettingsInv => SettingsAreTheLastGiven
  BY DEF SettingsInv, SettingsAreTheLastGiven, Agrees, RootIsGiven, LogsAreGiven,
         ServerIsGiven, MainIsGiven
<1> QED
  BY <1>1, InitParserInv, InitNestingInv, InitSettingsInv, NextKeepsParserInv,
     NextKeepsNestingInv, NextKeepsSettingsInv, PTL DEF Spec

---------------------------------------------------------------------------
(* The upstreams.                                                          *)

IsDottedQuad(v) ==
    /\ Len(v) = 7
    /\ \A i \in {1, 3, 5, 7} : v[i] \in 0 .. 255
    /\ \A i \in {2, 4, 6} : v[i] = Dot

LEMMA BytesAreNumbers == \A x \in 0 .. 255 : x \in Nat /\ x \notin {Dot, Letter, Huge}
BY DEF Dot, Letter, Huge

(* What is left of a text from a place on.                                 *)
LEMMA RestOf ==
    ASSUME NEW S, NEW v \in Seq(S), NEW i \in Nat \ {0}, i =< Len(v) + 1
    PROVE  LET rest == SubSeq(v, i, Len(v))
           IN  /\ rest \in Seq(S) /\ Len(rest) = Len(v) - i + 1
               /\ \A j \in 1 .. Len(v) - i + 1 : rest[j] = v[i + j - 1]
<1> DEFINE n == Len(v)
<1>1. n \in Nat /\ \A j \in i .. n : v[j] \in S
  OBVIOUS
<1>2. i \in 1 .. n + 1
  BY <1>1
<1> QED
  BY <1>1, <1>2, SubSeqProperties

(* An address counts as an ip address exactly if it is four numbers up to  *)
(* 255 with full stops between them.                                       *)
LEMMA IpIsFourNumbers ==
    ASSUME NEW v \in Seq(Nat \cup {Dot, Letter, Huge}),
           \A i \in 1 .. Len(v) - 1 : v[i] \in Nat \cup {Huge} => v[i + 1] \in {Dot, Letter}
    PROVE  set_upstream_address(v).is_ip <=> IsDottedQuad(v)
<1> DEFINE n == Len(v)
           At(i) == SubSeq(v, i, n)
           Sub(i) == is_sub_ip_num(At(i)) # NotIp
           last == At(7)
           digits == \A i \in 1 .. Len(last) : last[i] \in Nat \cup {Huge}
<1>1. n \in Nat /\ Dot \notin Nat \cup {Huge} /\ Letter \notin Nat \cup {Huge} /\ Huge \notin Nat
  BY DEF Dot, Letter, Huge
<1>2. set_upstream_address(v).is_ip <=>
        /\ \A j \in {1, 3, 5} : j < 7 => Sub(j)
        /\ digits /\ ~stoi_throws(last) /\ Head(last) \in 0 .. 255
  BY DEF set_upstream_address
<1>3. ASSUME NEW i \in {1, 3, 5, 7}, i =< n + 1
      PROVE  /\ At(i) \in Seq(Nat \cup {Dot, Letter, Huge}) /\ Len(At(i)) = n - i + 1
             /\ \A j \in 1 .. n - i + 1 : At(i)[j] = v[i + j - 1]
  BY <1>1, <1>3, RestOf
<1>4. ASSUME NEW i \in {1, 3, 5, 7}, i =< n
      PROVE  At(i) # <<>> /\ Head(At(i)) = v[i]
  <2>1. Len(At(i)) = n - i + 1 /\ 1 \in 1 .. n - i + 1
    BY <1>1, <1>3, <1>4
  <2>2. At(i)[1] = v[i + 1 - 1] /\ i + 1 - 1 = i
    BY <1>3, <1>4, <2>1
  <2> HIDE DEF At
  <2> QED
    BY <1>1, <1>4, <2>1, <2>2
<1>5. ASSUME NEW i \in {1, 3, 5}, i < n
      PROVE  Sub(i) <=> v[i] \in 0 .. 255 /\ v[i + 1] = Dot
  <2>1. Len(At(i)) = n - i + 1 /\ 2 \in 1 .. n - i + 1 /\ At(i)[2] = v[i + 2 - 1]
        /\ i + 2 - 1 = i + 1
    BY <1>1, <1>3, <1>5
  <2>2. At(i) # <<>> /\ Head(At(i)) = v[i]
    BY <1>1, <1>4, <1>5
  <2>3. Len(At(i)) > 1
    BY <1>1, <1>5, <2>1
  <2> HIDE DEF At
  <2> QED
    BY <2>1, <2>2, <2>3 DEF is_sub_ip_num, NotIp
<1>6. ASSUME NEW i \in {1, 3, 5}, i = n \/ i = n + 1
      PROVE  ~Sub(i)
  <2>1. Len(At(i)) = n - i + 1
    BY <1>1, <1>3, <1>6
  <2>2. ~(Len(At(i)) > 1)
    BY <1>1, <1>6, <2>1
  <2> HIDE DEF At
  <2> QED
    BY <2>2 DEF is_sub_ip_num, NotIp
<1> HIDE DEF At
<1>7. ASSUME IsDottedQuad(v)
      PROVE  set_upstream_address(v).is_ip
  <2>1. n = 7 /\ v[7] \in 0 .. 255
        /\ \A j \in {1, 3, 5} : v[j] \in 0 .. 255 /\ v[j + 1] = Dot
    BY <1>7 DEF IsDottedQuad
  <2>2. \A j \in {1, 3, 5} : Sub(j)
    <3> HIDE DEF Sub, n
    <3> QED
      BY <1>5, <2>1
  <2>3. last # <<>> /\ Head(last) = v[7] /\ Len(last) = 1 /\ last[1] = v[7]
    <3>1. 7 =< n /\ 7 =< n + 1 /\ n - 7 + 1 = 1 /\ 1 \in 1 .. n - 7 + 1 /\ 7 + 1 - 1 = 7
      BY <2>1
    <3> HIDE DEF n
    <3> QED
      BY <1>3, <1>4, <3>1
  <2> HIDE DEF last, n, Sub
  <2>4. digits
    <3>1. \A i \in 1 .. Len(last) : i = 1
      BY <2>3
    <3>2. v[7] \in Nat
      BY <2>1, BytesAreNumbers, Zenon
    <3> QED
      BY <2>3, <3>1, <3>2
  <2>5. ~stoi_throws(last)
    <3>1. v[7] \notin {Dot, Letter, Huge}
      BY <2>1, BytesAreNumbers, Zenon
    <3> QED
      BY <2>3, <3>1 DEF stoi_throws
  <2> QED
    BY <1>2, <2>1, <2>2, <2>3, <2>4, <2>5
<1>8. ASSUME set_upstream_address(v).is_ip
      PROVE  IsDottedQuad(v)
  <2>1. /\ Sub(1) /\ Sub(3) /\ Sub(5)
        /\ digits /\ ~stoi_throws(last) /\ Head(last) \in 0 .. 255
    BY <1>2, <1>8
  <2> HIDE DEF Sub, n
  <2>2. n > 1
    BY <1>1, <1>6, <2>1
  <2>3. n > 3
    <3>1. v[2] = Dot
      BY <1>5, <2>1, <2>2
    <3>2. n # 2
      <4>1. n = 2 => 3 = n + 1
        OBVIOUS
      <4> QED
        BY <1>6, <2>1, <4>1
    <3>3. n # 3
      BY <1>6, <2>1
    <3> QED
      BY <1>1, <2>2, <3>2, <3>3
  <2>4. n > 5
    <3>1. n # 4 /\ n # 5
      BY <1>6, <2>1
    <3> QED
      BY <1>1, <2>3, <3>1
  <2>5. \A j \in {1, 3, 5} : v[j] \in 0 .. 255 /\ v[j + 1] = Dot
    <3>1. \A j \in {1, 3, 5} : j < n
      BY <1>1, <2>4
    <3>2. \A j \in {1, 3, 5} : Sub(j)
      BY <2>1
    <3> QED
      BY <1>5, <3>1, <3>2
  <2>6. n # 6
    <3> SUFFICES ASSUME n = 6 PROVE FALSE
      OBVIOUS
    <3>1. Len(last) = 0 /\ last \in Seq(Nat \cup {Dot, Letter, Huge})
      BY <1>3
    <3>2. last = <<>>
      BY <3>1
    <3> QED
      BY <2>1, <3>2 DEF stoi_throws
  <2>7. Len(last) = n - 6 /\ \A j \in 1 .. n - 6 : last[j] = v[6 + j]
    <3>1. 7 =< n + 1 /\ n - 7 + 1 = n - 6 /\ \A j \in 1 .. n - 6 : 7 + j - 1 = 6 + j
      BY <1>1, <2>4
    <3> QED
      BY <1>3, <3>1
  <2>8. v[7] \in 0 .. 255
    BY <1>1, <1>4, <2>1, <2>4, <2>6
  <2>9. n = 7
    <3> SUFFICES ASSUME n # 7 PROVE FALSE
      OBVIOUS
    <3>1. 1 \in 1 .. n - 6 /\ 2 \in 1 .. n - 6 /\ 7 \in 1 .. n - 1
      BY <1>1, <2>4, <2>6
    <3>2. v[7] \in Nat \cup {Huge} /\ v[8] \in Nat \cup {Huge}
      <4>1. last[1] = v[6 + 1] /\ last[2] = v[6 + 2]
        BY <2>7, <3>1
      <4>2. last[1] \in Nat \cup {Huge} /\ last[2] \in Nat \cup {Huge}
        BY <2>1, <2>7, <3>1
      <4>3. 6 + 1 = 7 /\ 6 + 2 = 8
        OBVIOUS
      <4> QED
        BY <4>1, <4>2, <4>3
    <3>3. v[7 + 1] \in {Dot, Letter} /\ 7 + 1 = 8
      BY <3>1, <3>2 DEF n
    <3> QED
      BY <1>1, <3>2, <3>3
  <2> QED
    BY <2>5, <2>8, <2>9 DEF IsDottedQuad, n
<1> QED
  BY <1>7, <1>8

(* The upstreams a text writes down, and the last line of each.            *)
Addresses(items) ==
    {items[k].entry.address : k \in {j \in DOMAIN items : items[j].t = "upstream"}}

LastLine(items, a) == SelectLastInSeq(items, LAMBDA i : i.t = "upstream" /\ i.entry.address = a)

LEMMA LinesMore ==
    ASSUME NEW items \in Seq(Item), NEW x \in Item
    PROVE  LET longer == Append(items, x)
           IN  /\ x.t # "upstream" => Addresses(longer) = Addresses(items)
               /\ x.t = "upstream" =>
                    Addresses(longer) = Addresses(items) \cup {x.entry.address}
               /\ \A a : x.t = "upstream" /\ x.entry.address = a =>
                           longer[LastLine(longer, a)] = x
               /\ \A a \in Addresses(items) :
                    ~(x.t = "upstream" /\ x.entry.address = a) =>
                       longer[LastLine(longer, a)] = items[LastLine(items, a)]
<1> DEFINE n == Len(items)
           longer == Append(items, x)
<1>1. /\ n \in Nat /\ Len(longer) = n + 1 /\ longer[n + 1] = x
      /\ \A i \in 1 .. n : longer[i] = items[i]
      /\ DOMAIN items = 1 .. n /\ DOMAIN longer = 1 .. n + 1
  OBVIOUS
<1> HIDE DEF n, longer
<1>2. \A i \in 1 .. n + 1 : i \in 1 .. n \/ i = n + 1
  BY <1>1
<1>3. /\ \A i \in 1 .. n : i \in 1 .. n + 1 /\ i # n + 1
      /\ n + 1 \in 1 .. n + 1 /\ n + 1 \in Nat /\ n + 1 # 0
  BY <1>1
<1>4. Addresses(longer) = Addresses(items) \cup
                          (IF x.t = "upstream" THEN {x.entry.address} ELSE {})
  BY <1>1, <1>2, <1>3 DEF Addresses
<1>5. ASSUME NEW a
      PROVE  /\ x.t = "upstream" /\ x.entry.address = a => longer[LastLine(longer, a)] = x
             /\ a \in Addresses(items) /\ ~(x.t = "upstream" /\ x.entry.address = a) =>
                   longer[LastLine(longer, a)] = items[LastLine(items, a)]
  <2> DEFINE Good(i) == i.t = "upstream" /\ i.entry.address = a
             I == {i \in 1 .. n : Good(items[i])}
             J == {i \in 1 .. n + 1 : Good(longer[i])}
  <2>1. LastLine(items, a) = IF I # {} THEN Max(I) ELSE 0
    BY DEF LastLine, SelectLastInSeq, n
  <2>2. LastLine(longer, a) = IF J # {} THEN Max(J) ELSE 0
    BY <1>1 DEF LastLine, SelectLastInSeq
  <2>3. a \in Addresses(items) => I # {}
    BY <1>1 DEF Addresses
  <2> HIDE DEF Good
  <2>4. J = I \cup (IF Good(x) THEN {n + 1} ELSE {})
    BY <1>1, <1>2, <1>3
  <2>5. I \in SUBSET (1 .. n) /\ J \in SUBSET (1 .. n + 1)
    OBVIOUS
  <2> HIDE DEF I, J
  <2>6. CASE Good(x)
    <3>1. n + 1 \in J /\ J # {}
      BY <2>4, <2>6
    <3>2. Max(J) \in J /\ \A j \in J : Max(J) >= j
      BY <1>3, <2>5, <3>1, GreatestOf
    <3>3. Max(J) \in 1 .. n + 1 /\ Max(J) >= n + 1
      BY <2>5, <3>1, <3>2
    <3>4. Max(J) = n + 1
      BY <1>1, <3>3
    <3> QED
      BY <1>1, <2>2, <2>6, <3>1, <3>4 DEF Good
  <2>7. CASE ~Good(x)
    <3>1. J = I
      BY <2>4, <2>7
    <3>2. I # {} => Max(I) \in 1 .. n
      <4>1. I # {} => Max(I) \in I
        BY <1>1, <2>5, GreatestOf
      <4> QED
        BY <2>5, <4>1
    <3>3. I # {} => longer[LastLine(longer, a)] = items[LastLine(items, a)]
      BY <1>1, <2>1, <2>2, <3>1, <3>2
    <3> QED
      BY <2>3, <2>7, <3>3 DEF Good
  <2> QED
    BY <2>6, <2>7
<1> QED
  BY <1>4, <1>5 DEF longer

(* Each upstream has the settings of its last line.                        *)
SettingsOf(e) ==
    [weight |-> IF e.weight = -1 THEN 1 ELSE e.weight,
     port |-> IF e.port = -1 THEN 80 ELSE e.port,
     is_ip |-> set_upstream_address(Spelling[e.address]).is_ip]

UpstreamsSaid(items, table) ==
    /\ DOMAIN table = Addresses(items)
    /\ \A a \in DOMAIN table :
         /\ a \in DOMAIN Spelling
         /\ items[LastLine(items, a)].entry.address = a
         /\ table[a] = SettingsOf(items[LastLine(items, a)].entry)

UpstreamsInv == Read => UpstreamsSaid(text, server.upstreams)

LEMMA InitUpstreamsInv == Init => UpstreamsInv
<1> SUFFICES ASSUME Init PROVE UpstreamsInv
  OBVIOUS
<1>1. text = <<>> /\ server.upstreams = <<>>
  BY Zenon DEF Init, NewServer
<1>2. DOMAIN <<>> = {}
  OBVIOUS
<1>3. Addresses(text) = {} /\ DOMAIN server.upstreams = {}
  BY <1>1, <1>2 DEF Addresses
<1> QED
  BY <1>3 DEF UpstreamsInv, UpstreamsSaid

(* An item that is no upstream, read by a step that adds none.             *)
LEMMA UpstreamsStay ==
    ASSUME NestingInv, UpstreamsInv, Read, NEW item \in Item, Understood(item),
           item.t # "upstream", UNCHANGED server.upstreams
    PROVE  UpstreamsInv'
<1>1. CASE item.t = "newline"
  <2>1. text' = text
    BY <1>1 DEF Understood
  <2> QED
    BY <2>1 DEF UpstreamsInv
<1>2. CASE item.t # "newline"
  <2>1. text \in Seq(Item) /\ text' = Append(text, item)
    BY <1>2 DEF NestingInv, Understood
  <2> DEFINE longer == Append(text, item)
  <2>2. /\ Addresses(longer) = Addresses(text)
        /\ \A a \in Addresses(text) : longer[LastLine(longer, a)] = text[LastLine(text, a)]
    BY <1>2, <2>1, LinesMore
  <2>3. text' = longer
    BY <2>1
  <2> HIDE DEF longer
  <2> QED
    BY <2>2, <2>3 DEF UpstreamsInv, UpstreamsSaid
<1> QED
  BY <1>1, <1>2

(* A line of an upstream is its last one.                                  *)
LEMMA UpstreamAdds ==
    ASSUME NestingInv, ParserInv, UpstreamsInv, NEW item \in Item, UpstreamEntry(item),
           ~Invalid, ~Throw
    PROVE  UpstreamsInv'
<1> DEFINE e == item.entry
           old == server.upstreams
           new == Put(old, e.address, SettingsOf(e))
<1>1. item.t = "upstream" /\ Read /\ Understood(item)
      /\ server' = add_upstream(server, e.address, Default(e.weight, 1), Default(e.port, 80))
      /\ server \in ServerType
  BY DEF UpstreamEntry, GoOn, ParserInv, ParserTyped, Read
<1>2. e \in Entries
  BY <1>1 DEF Item
<1>3. e.address \in DOMAIN Spelling
  BY <1>2, EntriesAssumption
<1>4. UpstreamSettings(e.address, Default(e.weight, 1), Default(e.port, 80)) = SettingsOf(e)
  BY DEF UpstreamSettings, Default, SettingsOf
<1>5. server'.upstreams = new
  <2>1. "upstreams" \in DOMAIN server
    BY <1>1 DEF ServerType
  <2> QED
    BY <1>1, <1>4, <2>1 DEF add_upstream
<1>6. text \in Seq(Item) /\ text' = Append(text, item)
  BY <1>1 DEF NestingInv, Understood
<1> DEFINE longer == Append(text, item)
<1>7. /\ Addresses(longer) = Addresses(text) \cup {e.address}
      /\ longer[LastLine(longer, e.address)] = item
      /\ \A a \in Addresses(text) :
            a # e.address => longer[LastLine(longer, a)] = text[LastLine(text, a)]
  BY <1>1, <1>6, LinesMore
<1>b. text' = longer
  BY <1>6
<1> HIDE DEF longer
<1>8. UpstreamsSaid(text, old)
  BY <1>1 DEF UpstreamsInv
<1> HIDE DEF old, new
<1>9. /\ DOMAIN new = {e.address} \cup DOMAIN old /\ new[e.address] = SettingsOf(e)
      /\ \A a \in DOMAIN old : a # e.address => new[a] = old[a]
  BY DEF new, Put
<1>a. UpstreamsSaid(longer, new)
  BY <1>3, <1>7, <1>8, <1>9 DEF UpstreamsSaid
<1> QED
  BY <1>5, <1>a, <1>b DEF UpstreamsInv

(* Only parse_upstreams reads upstreams, and only it adds them.            *)
LEMMA NoLexem ==
    ASSUME NEW item, NEW names, item.t = "upstream"
    PROVE  get_lexem(item, names) = "L_ERR"
<1>1. item.t \notin DOMAIN PlainLexem /\ item.t # "name" /\ item.t \notin DOMAIN KeywordLexem
  BY DEF PlainLexem, KeywordLexem
<1> QED
  BY <1>1 DEF get_lexem

LEMMA OthersAddNone ==
    ASSUME ParserInv, NEW item \in Item, ~Invalid, ~Refuse,
           \/ Opening(item) \/ Key(item) \/ ServerValue(item) \/ MainValue(item)
           \/ ServerStart(item) \/ BraceClose(item) \/ LocationStart(item)
           \/ UpstreamsStart(item) \/ LocationNewLine(item) \/ LocationKey(item)
           \/ LocationValue(item) \/ LocationEnd(item) \/ UpstreamsNewLine(item)
           \/ UpstreamsEnd(item)
    PROVE  /\ Read /\ Understood(item)
           /\ item.t # "upstream" /\ UNCHANGED server.upstreams
<1>1. Read /\ server \in ServerType
  BY DEF Opening, Key, ServerValue, MainValue, ServerStart, BraceClose, LocationStart,
         UpstreamsStart, Lexed, LocationNewLine, LocationKey, LocationValue, LocationEnd,
         InLocation, UpstreamsNewLine, UpstreamsEnd, ParserInv, ParserTyped, Read
<1>2. Understood(item)
  BY DEF Opening, Key, ServerValue, MainValue, ServerStart, BraceClose, LocationStart,
         UpstreamsStart, GoOn, LocationNewLine, LocationKey, LocationValue, LocationEnd,
         LocationGoesOn, UpstreamsNewLine, UpstreamsEnd
<1>3. item.t # "upstream"
  BY NoLexem DEF Opening, Key, ServerValue, MainValue, ServerStart, BraceClose, LocationStart,
         UpstreamsStart, Lexed, LocationNewLine, LocationKey, LocationValue, LocationEnd,
         InLocation, UpstreamsNewLine, UpstreamsEnd
<1>4. {"port", "servername", "access_log_file", "error_log_file", "root", "is_root",
       "locations", "upstreams"} \subseteq DOMAIN server
  BY <1>1 DEF ServerType
<1>5. \A k, x : set_property(server, k, x).upstreams = server.upstreams
  BY <1>4 DEF set_property
<1>6. \A t, x : add_location(server, t, x).upstreams = server.upstreams
  BY <1>4 DEF add_location
<1>7. UNCHANGED server.upstreams
  <2>1. CASE ServerValue(item)
    BY <1>5, <2>1 DEF ServerValue
  <2>2. CASE MainValue(item)
    BY <1>5, <2>2 DEF MainValue, main_set_property
  <2>3. CASE LocationEnd(item)
    BY <1>6, <2>3 DEF LocationEnd
  <2>4. CASE \/ Opening(item) \/ Key(item) \/ ServerStart(item) \/ BraceClose(item)
             \/ LocationStart(item) \/ UpstreamsStart(item) \/ LocationNewLine(item)
             \/ LocationKey(item) \/ LocationValue(item) \/ UpstreamsNewLine(item)
             \/ UpstreamsEnd(item)
    BY <2>4 DEF Opening, Key, ServerStart, BraceClose, LocationStart, UpstreamsStart,
           LocationNewLine, LocationKey, LocationValue, LocationGoesOn, UpstreamsNewLine,
           UpstreamsEnd
  <2> QED
    BY <2>1, <2>2, <2>3, <2>4
<1> QED
  BY <1>1, <1>2, <1>3, <1>7

LEMMA UpstreamsEndOrRefuse ==
    ASSUME UpstreamsInv, ParserInv,
           \/ Invalid \/ Throw
           \/ Refuse /\ pc = "parse_config"
    PROVE  UpstreamsInv'
BY DEF UpstreamsInv, Read, Invalid, Throw, Refuse, Return, ParserInv, ParserTyped

LEMMA NextKeepsUpstreamsInv ==
    ParserInv /\ NestingInv /\ UpstreamsInv /\ [Next]_vars => UpstreamsInv'
<1> SUFFICES ASSUME ParserInv, NestingInv, UpstreamsInv, [Next]_vars PROVE UpstreamsInv'
  OBVIOUS
<1>1. CASE UNCHANGED vars
  BY <1>1 DEF vars, parserVars, UpstreamsInv, Read
<1>2. CASE Next
  <2>1. PICK item \in Item :
          \/ Unexpected(item) \/ Opening(item) \/ Key(item)
          \/ ServerValue(item) \/ MainValue(item)
          \/ ServerStart(item) \/ BraceClose(item)
          \/ LocationStart(item) \/ UpstreamsStart(item)
          \/ LocationUnexpected(item) \/ LocationNewLine(item)
          \/ LocationKey(item) \/ LocationValue(item) \/ LocationEnd(item)
          \/ UpstreamEntry(item) \/ UpstreamsNewLine(item)
          \/ UpstreamsEnd(item) \/ UpstreamsUnexpected(item)
    BY <1>2 DEF Next
  <2>2. Unexpected(item) \/ LocationUnexpected(item) \/ UpstreamsUnexpected(item) => Invalid
    BY DEF Unexpected, LocationUnexpected, UpstreamsUnexpected
  <2>3. CASE Invalid \/ Throw
    BY <2>3, UpstreamsEndOrRefuse
  <2>4. CASE Refuse /\ pc = "parse_config"
    BY <2>4, UpstreamsEndOrRefuse
  <2>5. CASE UpstreamEntry(item) /\ ~Invalid /\ ~Throw
    BY <2>5, UpstreamAdds
  <2>6. CASE pc # "parse_config" /\ ~UpstreamEntry(item) /\ Refuse
    BY <2>1, <2>2, <2>6, EndsKeep DEF Refuse, Return, LocationNewLine, LocationKey, LocationValue,
       LocationEnd, LocationGoesOn, UpstreamsNewLine, UpstreamsEnd, GoOn, Opening, Key,
       ServerValue, MainValue, ServerStart, BraceClose, LocationStart, UpstreamsStart, Lexed,
       Invalid, UpstreamsInv, Read, ParserInv, ParserTyped
  <2>7. CASE ~Invalid /\ ~Refuse /\ ~UpstreamEntry(item)
    BY <2>1, <2>2, <2>7, OthersAddNone, UpstreamsStay
  <2> QED
    BY <2>3, <2>4, <2>5, <2>6, <2>7
<1> QED
  BY <1>1, <1>2

(* The upstreams that are kept are those of the text, each with the        *)
(* settings of its last line, and its address counts as an ip address      *)
(* exactly if it is four numbers up to 255 with full stops between them.   *)
THEOREM UpstreamsCorrect == Spec => []UpstreamsAreAsWritten
<1>1. UpstreamsInv => UpstreamsAreAsWritten
  <2> SUFFICES ASSUME UpstreamsInv, Read PROVE UpstreamsAreAsWritten
    BY DEF UpstreamsAreAsWritten
  <2> DEFINE table == server.upstreams
             LineOf(a) == text[LastLine(text, a)].entry
  <2>1. UpstreamsSaid(text, table)
    BY DEF UpstreamsInv
  <2>2. ASSUME NEW a \in DOMAIN table
        PROVE  table[a] = [weight |-> IF LineOf(a).weight = -1 THEN 1 ELSE LineOf(a).weight,
                           port |-> IF LineOf(a).port = -1 THEN 80 ELSE LineOf(a).port,
                           is_ip |-> IsDottedQuad(Spelling[a])]
    <3>1. /\ a \in DOMAIN Spelling /\ LineOf(a).address = a
          /\ table[a] = SettingsOf(LineOf(a))
      BY <2>1, <2>2 DEF UpstreamsSaid
    <3>2. set_upstream_address(Spelling[a]).is_ip <=> IsDottedQuad(Spelling[a])
      BY <3>1, SpellingAssumption, IpIsFourNumbers
    <3>3. set_upstream_address(Spelling[a]).is_ip \in BOOLEAN /\ IsDottedQuad(Spelling[a]) \in BOOLEAN
      BY DEF set_upstream_address, IsDottedQuad
    <3>4. set_upstream_address(Spelling[a]).is_ip = IsDottedQuad(Spelling[a])
      BY <3>2, <3>3
    <3> HIDE DEF table, LineOf
    <3> QED
      BY <3>1, <3>4 DEF SettingsOf
  <2>3. DOMAIN table = Addresses(text)
    BY <2>1 DEF UpstreamsSaid
  <2> QED
    BY <2>2, <2>3 DEF UpstreamsAreAsWritten, Addresses, LastLine, IsDottedQuad
<1> QED
  BY <1>1, InitParserInv, InitNestingInv, InitUpstreamsInv, NextKeepsParserInv,
     NextKeepsNestingInv, NextKeepsUpstreamsInv, PTL DEF Spec
---------------------------------------------------------------------------
(* The numbers of a set in their order.                                    *)

LEMMA FiniteOf ==
    ASSUME NEW n \in Nat, NEW S \in SUBSET (1 .. n)
    PROVE  IsFiniteSet(S) /\ Cardinality(S) \in Nat
<1>1. IsFiniteSet(1 .. n)
  BY FS_Interval
<1>2. IsFiniteSet(S)
  BY <1>1, FS_Subset, Zenon
<1> QED
  BY <1>2, FS_CardinalityType, Zenon

LEMMA OneAtTheEnd ==
    ASSUME NEW n \in Nat, NEW S \in SUBSET (1 .. n)
    PROVE  /\ S \cup {n + 1} \in SUBSET (1 .. n + 1)
           /\ n + 1 \notin S /\ \A i \in S : i \in Nat /\ i <= n + 1 /\ i < n + 1
OBVIOUS

(* One number more at the end of the set is one more at the end of the     *)
(* sequence.                                                               *)
LEMMA InOrderMore ==
    ASSUME NEW n \in Nat, NEW S \in SUBSET (1 .. n)
    PROVE  /\ Cardinality(S \cup {n + 1}) = Cardinality(S) + 1
           /\ InOrder(S \cup {n + 1}) =
                [k \in 1 .. Cardinality(S) + 1 |->
                   IF k = Cardinality(S) + 1 THEN n + 1 ELSE InOrder(S)[k]]
<1> DEFINE c == Cardinality(S)
           T == S \cup {n + 1}
           Below(U, i) == {j \in U : j <= i}
           Of(U, k) == {i \in U : Cardinality(Below(U, i)) = k}
<1>1. c \in Nat /\ IsFiniteSet(S)
  BY FiniteOf
<1>2. /\ n + 1 \notin S /\ \A i \in S : i \in Nat /\ i <= n + 1 /\ ~(n + 1 <= i)
  BY OneAtTheEnd
<1>3. Cardinality(T) = c + 1
  BY <1>1, <1>2, FS_AddElement
<1>4. \A i \in S : Below(T, i) = Below(S, i)
  BY <1>2
<1>5. Below(T, n + 1) = T
  <2>1. \A j \in T : j <= n + 1
    BY <1>2
  <2> HIDE DEF T
  <2> QED
    BY <2>1
<1>6. \A i \in S : Cardinality(Below(S, i)) <= c
  <2> SUFFICES ASSUME NEW i \in S PROVE Cardinality(Below(S, i)) <= c
    OBVIOUS
  <2>1. Below(S, i) \in SUBSET S
    OBVIOUS
  <2> HIDE DEF Below
  <2> QED
    BY <1>1, <2>1, FS_Subset
<1>7. \A i \in S : Cardinality(Below(S, i)) \in Nat
  <2> SUFFICES ASSUME NEW i \in S PROVE Cardinality(Below(S, i)) \in Nat
    OBVIOUS
  <2>1. Below(S, i) \in SUBSET (1 .. n)
    OBVIOUS
  <2> HIDE DEF Below
  <2> QED
    BY <2>1, FiniteOf
<1> HIDE DEF c, Below
<1>8. \A k \in 1 .. c : Of(T, k) = Of(S, k)
  <2> SUFFICES ASSUME NEW k \in 1 .. c PROVE Of(T, k) = Of(S, k)
    OBVIOUS
  <2>1. Cardinality(Below(T, n + 1)) # k
    <3>1. c + 1 # k
      BY <1>1
    <3> QED
      BY <1>3, <1>5, <3>1, Zenon
  <2> QED
    BY <1>2, <1>4, <2>1
<1>9. Of(T, c + 1) = {n + 1}
  <2>1. \A i \in S : Cardinality(Below(T, i)) # c + 1
    BY <1>1, <1>4, <1>6, <1>7
  <2>2. Cardinality(Below(T, n + 1)) = c + 1
    BY <1>3, <1>5
  <2> QED
    BY <2>1, <2>2
<1>a. Min({n + 1}) = n + 1
  <2>1. {n + 1} \in SUBSET Nat /\ {n + 1} # {}
    OBVIOUS
  <2> QED
    BY <2>1, LeastOf
<1>b. InOrder(S) = [k \in 1 .. c |-> Min(Of(S, k))]
  BY DEF InOrder, c, Below
<1>c. InOrder(T) = [k \in 1 .. c + 1 |-> Min(Of(T, k))]
  BY <1>3 DEF InOrder, c, Below
<1> HIDE DEF Of, T
<1>d. \A k \in 1 .. c + 1 : k = c + 1 \/ k \in 1 .. c
  BY <1>1
<1>e. \A k \in 1 .. c + 1 :
        Min(Of(T, k)) = IF k = c + 1 THEN n + 1 ELSE InOrder(S)[k]
  BY <1>1, <1>8, <1>9, <1>a, <1>b, <1>d
<1>f. InOrder(T) = [k \in 1 .. c + 1 |-> IF k = c + 1 THEN n + 1 ELSE InOrder(S)[k]]
  BY <1>c, <1>e
<1> QED
  BY <1>3, <1>f DEF T, c

LEMMA NothingInOrder == Cardinality({}) = 0 /\ InOrder({}) = <<>>
<1>1. Cardinality({}) = 0 /\ 1 .. 0 = {}
  BY FS_EmptySet
<1> QED
  BY <1>1 DEF InOrder

(* The sequence is one of numbers of the set.                              *)
LEMMA InOrderIn ==
    \A n \in Nat : \A S \in SUBSET (1 .. n) : \A k \in 1 .. Cardinality(S) : InOrder(S)[k] \in S
<1> DEFINE Good(n) == \A S \in SUBSET (1 .. n) :
                        \A k \in 1 .. Cardinality(S) : InOrder(S)[k] \in S
           Bad == {n \in Nat : ~Good(n)}
<1>1. Good(0)
  <2> SUFFICES ASSUME NEW S \in SUBSET (1 .. 0), NEW k \in 1 .. Cardinality(S)
               PROVE  FALSE
    OBVIOUS
  <2>1. S = {}
    OBVIOUS
  <2>2. Cardinality(S) = 0
    BY <2>1, NothingInOrder
  <2> QED
    BY <2>2
<1>2. ASSUME NEW n \in Nat, Good(n)
      PROVE  Good(n + 1)
  <2> SUFFICES ASSUME NEW S \in SUBSET (1 .. n + 1), NEW k \in 1 .. Cardinality(S)
               PROVE  InOrder(S)[k] \in S
    OBVIOUS
  <2> DEFINE T == S \ {n + 1}
  <2>1. T \in SUBSET (1 .. n)
    OBVIOUS
  <2>2. CASE n + 1 \notin S
    <3>1. S \in SUBSET (1 .. n)
      BY <2>1, <2>2
    <3> QED
      BY <1>2, <3>1
  <2>3. CASE n + 1 \in S
    <3>1. S = T \cup {n + 1}
      BY <2>3
    <3> HIDE DEF T
    <3>2. /\ Cardinality(S) = Cardinality(T) + 1 /\ Cardinality(T) \in Nat
          /\ InOrder(S)[k] = IF k = Cardinality(T) + 1 THEN n + 1 ELSE InOrder(T)[k]
      <4>1. Cardinality(T) \in Nat
        BY <2>1, FiniteOf, Zenon
      <4>2. /\ Cardinality(S) = Cardinality(T) + 1
            /\ InOrder(S) = [h \in 1 .. Cardinality(T) + 1 |->
                              IF h = Cardinality(T) + 1 THEN n + 1 ELSE InOrder(T)[h]]
        BY <2>1, <3>1, InOrderMore, Zenon
      <4> QED
        BY <4>1, <4>2
    <3>3. k # Cardinality(T) + 1 => k \in 1 .. Cardinality(T)
      BY <3>2
    <3>4. k # Cardinality(T) + 1 => InOrder(T)[k] \in T
      BY <1>2, <2>1, <3>3
    <3> QED
      BY <2>3, <3>1, <3>2, <3>4
  <2> QED
    BY <2>2, <2>3
<1> HIDE DEF Good
<1>3. Bad = {}
  <2> SUFFICES ASSUME Bad # {} PROVE FALSE
    OBVIOUS
  <2> DEFINE m == Min(Bad)
  <2>1. m \in Bad /\ \A j \in Bad : m <= j
    BY LeastOf
  <2>2. m \in Nat /\ ~Good(m) /\ m # 0
    BY <1>1, <2>1
  <2> HIDE DEF m
  <2>3. m - 1 \in Nat /\ (m - 1) + 1 = m /\ ~(m <= m - 1)
    BY <2>2
  <2>4. Good(m - 1)
    BY <2>1, <2>3
  <2> QED
    BY <1>2, <2>2, <2>3, <2>4
<1> QED
  BY <1>3 DEF Good

---------------------------------------------------------------------------
(* What one value more makes of a location.                                *)

OwnsOf(g, number, names) == g.block = "location" /\ g.number = number /\ g.name \in names

LEMMA OwnPlacesIn ==
    ASSUME NEW given \in Seq(GivenType), NEW number, NEW names
    PROVE  /\ OwnPlaces(given, number, names) \in SUBSET (1 .. Len(given))
           /\ IsFiniteSet(OwnPlaces(given, number, names))
           /\ Cardinality(OwnPlaces(given, number, names)) \in Nat
<1> DEFINE P == OwnPlaces(given, number, names)
<1>1. P \in SUBSET (1 .. Len(given)) /\ Len(given) \in Nat
  BY DEF OwnPlaces
<1> HIDE DEF P
<1>2. IsFiniteSet(P) /\ Cardinality(P) \in Nat
  BY <1>1, FiniteOf, Zenon
<1> QED
  BY <1>1, <1>2 DEF P

LEMMA OwnPlacesMore ==
    ASSUME NEW given \in Seq(GivenType), NEW g \in GivenType, NEW number, NEW names
    PROVE  OwnPlaces(Append(given, g), number, names) =
             OwnPlaces(given, number, names)
               \cup IF OwnsOf(g, number, names) THEN {Len(given) + 1} ELSE {}
<1> DEFINE n == Len(given)
           longer == Append(given, g)
<1>1. /\ n \in Nat /\ DOMAIN longer = 1 .. n + 1 /\ DOMAIN given = 1 .. n
      /\ longer[n + 1] = g /\ \A i \in 1 .. n : longer[i] = given[i]
  OBVIOUS
<1> HIDE DEF n, longer
<1>2. /\ \A i \in 1 .. n + 1 : i \in 1 .. n \/ i = n + 1
      /\ \A i \in 1 .. n : i \in 1 .. n + 1 /\ i # n + 1
      /\ n + 1 \in 1 .. n + 1
  BY <1>1
<1>3. OwnPlaces(given, number, names) = {p \in 1 .. n : OwnsOf(given[p], number, names)}
  BY <1>1 DEF OwnPlaces, OwnsOf
<1>4. OwnPlaces(longer, number, names) = {p \in 1 .. n + 1 : OwnsOf(longer[p], number, names)}
  BY <1>1 DEF OwnPlaces, OwnsOf
<1>5. {p \in 1 .. n + 1 : OwnsOf(longer[p], number, names)} =
        {p \in 1 .. n : OwnsOf(given[p], number, names)}
          \cup IF OwnsOf(g, number, names) THEN {n + 1} ELSE {}
  <2>1. CASE OwnsOf(g, number, names)
    BY <1>1, <1>2, <2>1
  <2>2. CASE ~OwnsOf(g, number, names)
    BY <1>1, <1>2, <2>2
  <2> QED
    BY <2>1, <2>2
<1> QED
  BY <1>3, <1>4, <1>5 DEF n, longer

(* The last of them.                                                       *)
LEMMA LastOwnMore ==
    ASSUME NEW given \in Seq(GivenType), NEW g \in GivenType, NEW number, NEW names
    PROVE  LET old == OwnPlaces(given, number, names)
               new == OwnPlaces(Append(given, g), number, names)
           IN  IF OwnsOf(g, number, names)
                 THEN new # {} /\ Append(given, g)[Max(new)] = g
                 ELSE /\ new = old
                      /\ old # {} => Append(given, g)[Max(old)] = given[Max(old)]
<1> DEFINE n == Len(given)
           longer == Append(given, g)
           old == OwnPlaces(given, number, names)
           new == OwnPlaces(longer, number, names)
<1>1. n \in Nat /\ n + 1 \in Nat /\ longer[n + 1] = g /\ \A i \in 1 .. n : longer[i] = given[i]
  OBVIOUS
<1>2. new = old \cup IF OwnsOf(g, number, names) THEN {n + 1} ELSE {}
  BY OwnPlacesMore
<1>3. old \in SUBSET (1 .. n)
  BY OwnPlacesIn
<1> HIDE DEF n, longer, old, new
<1>4. CASE OwnsOf(g, number, names)
  <2>1. new \in SUBSET (1 .. n + 1) /\ n + 1 \in new
    BY <1>1, <1>2, <1>3, <1>4, OneAtTheEnd
  <2>2. Max(new) \in new /\ \A j \in new : Max(new) >= j
    BY <1>1, <2>1, GreatestOf
  <2>3. Max(new) \in 1 .. n + 1 /\ Max(new) >= n + 1
    BY <2>1, <2>2
  <2>4. Max(new) = n + 1
    BY <1>1, <2>3
  <2> QED
    BY <1>1, <1>4, <2>1, <2>4 DEF longer, new
<1>5. CASE ~OwnsOf(g, number, names)
  <2>1. new = old
    BY <1>2, <1>5
  <2>2. old # {} => Max(old) \in 1 .. n
    BY <1>1, <1>3, GreatestOf
  <2>3. old # {} => longer[Max(old)] = given[Max(old)]
    BY <1>1, <2>2
  <2> QED
    BY <1>5, <2>1, <2>3 DEF longer, old, new
<1> QED
  BY <1>4, <1>5

LEMMA OwnValueMore ==
    ASSUME NEW given \in Seq(GivenType), NEW g \in GivenType, NEW number, NEW name
    PROVE  OwnValue(Append(given, g), number, name) =
             IF OwnsOf(g, number, {name}) THEN g.value ELSE OwnValue(given, number, name)
<1> DEFINE longer == Append(given, g)
           old == OwnPlaces(given, number, {name})
           new == OwnPlaces(longer, number, {name})
<1>1. IF OwnsOf(g, number, {name})
        THEN new # {} /\ longer[Max(new)] = g
        ELSE new = old /\ (old # {} => longer[Max(old)] = given[Max(old)])
  <2>1. \A names :
          IF OwnsOf(g, number, names)
            THEN /\ OwnPlaces(longer, number, names) # {}
                 /\ longer[Max(OwnPlaces(longer, number, names))] = g
            ELSE /\ OwnPlaces(longer, number, names) = OwnPlaces(given, number, names)
                 /\ OwnPlaces(given, number, names) # {} =>
                      longer[Max(OwnPlaces(given, number, names))]
                        = given[Max(OwnPlaces(given, number, names))]
    BY LastOwnMore
  <2> QED
    BY <2>1
<1>2. /\ OwnValue(given, number, name) = IF old = {} THEN "indeterminate" ELSE given[Max(old)].value
      /\ OwnValue(longer, number, name) = IF new = {} THEN "indeterminate" ELSE longer[Max(new)].value
  BY DEF OwnValue
<1> HIDE DEF longer, old, new
<1> QED
  BY <1>1, <1>2 DEF longer

LEMMA OwnRootMore ==
    ASSUME NEW given \in Seq(GivenType), NEW g \in GivenType, NEW number, NEW servers
    PROVE  OwnRoot(Append(given, g), number, servers) =
             IF OwnsOf(g, number, {"root", "add_root"})
               THEN IF g.name = "root" THEN <<STATICS_FOLDER_PATH, g.value>>
                    ELSE Append(servers, g.value)
               ELSE OwnRoot(given, number, servers)
<1> DEFINE longer == Append(given, g)
           names == {"root", "add_root"}
           old == OwnPlaces(given, number, names)
           new == OwnPlaces(longer, number, names)
           Root(places, last) == IF places = {} THEN IF servers = <<>> THEN NoRoot ELSE servers
                                 ELSE IF last.name = "root" THEN <<STATICS_FOLDER_PATH, last.value>>
                                 ELSE Append(servers, last.value)
<1>1. IF OwnsOf(g, number, names)
        THEN new # {} /\ longer[Max(new)] = g
        ELSE new = old /\ (old # {} => longer[Max(old)] = given[Max(old)])
  <2>1. \A some :
          IF OwnsOf(g, number, some)
            THEN /\ OwnPlaces(longer, number, some) # {}
                 /\ longer[Max(OwnPlaces(longer, number, some))] = g
            ELSE /\ OwnPlaces(longer, number, some) = OwnPlaces(given, number, some)
                 /\ OwnPlaces(given, number, some) # {} =>
                      longer[Max(OwnPlaces(given, number, some))]
                        = given[Max(OwnPlaces(given, number, some))]
    BY LastOwnMore
  <2> QED
    BY <2>1
<1>2. /\ OwnRoot(given, number, servers) = Root(old, given[Max(old)])
      /\ OwnRoot(longer, number, servers) = Root(new, longer[Max(new)])
  BY DEF OwnRoot
<1>3. \A last : Root({}, last) = IF servers = <<>> THEN NoRoot ELSE servers
  OBVIOUS
<1>4. \A S : S # {} => Root(S, g) = IF g.name = "root" THEN <<STATICS_FOLDER_PATH, g.value>>
                                    ELSE Append(servers, g.value)
  OBVIOUS
<1> HIDE DEF longer, old, new, Root
<1>5. CASE OwnsOf(g, number, names)
  BY <1>1, <1>2, <1>4, <1>5 DEF longer
<1>6. CASE ~OwnsOf(g, number, names)
  <2>1. CASE old = {}
    <3>1. new = {}
      BY <1>1, <1>6, <2>1
    <3>2. Root(old, given[Max(old)]) = Root(new, longer[Max(new)])
      BY <1>3, <2>1, <3>1, Zenon
    <3> QED
      BY <1>2, <1>6, <3>2, Zenon DEF longer
  <2>2. CASE old # {}
    BY <1>1, <1>2, <1>6, <2>2 DEF longer
  <2> QED
    BY <2>1, <2>2
<1> QED
  BY <1>5, <1>6

(* The values in their order.                                              *)
ValuesAt(given, S) == [k \in 1 .. Cardinality(S) |-> given[InOrder(S)[k]].value]

LEMMA ValuesAtMore ==
    ASSUME NEW given \in Seq(GivenType), NEW g \in GivenType, NEW S \in SUBSET (1 .. Len(given))
    PROVE  /\ ValuesAt(given, S) \in Seq(Values)
           /\ ValuesAt(Append(given, g), S) = ValuesAt(given, S)
           /\ ValuesAt(Append(given, g), S \cup {Len(given) + 1}) =
                Append(ValuesAt(given, S), g.value)
<1> DEFINE n == Len(given)
           longer == Append(given, g)
           c == Cardinality(S)
           T == S \cup {n + 1}
           v == ValuesAt(given, S)
<1>1. /\ n \in Nat /\ longer[n + 1] = g /\ \A i \in 1 .. n : longer[i] = given[i]
      /\ \A i \in 1 .. n : given[i].value \in Values
      /\ g.value \in Values
  <2>1. /\ n \in Nat /\ longer[n + 1] = g /\ \A i \in 1 .. n : longer[i] = given[i]
        /\ \A i \in 1 .. n : given[i] \in GivenType
    OBVIOUS
  <2>2. \A h \in GivenType : h.value \in Values
    BY DEF GivenType
  <2> HIDE DEF n, longer
  <2> QED
    BY <2>1, <2>2
<1>2. c \in Nat
  BY <1>1, FiniteOf
<1>3. \A k \in 1 .. c : InOrder(S)[k] \in 1 .. n
  BY <1>1, InOrderIn
<1>4. /\ Cardinality(T) = c + 1
      /\ InOrder(T) = [k \in 1 .. c + 1 |-> IF k = c + 1 THEN n + 1 ELSE InOrder(S)[k]]
  BY <1>1, InOrderMore
<1>5. /\ v = [k \in 1 .. c |-> given[InOrder(S)[k]].value]
      /\ ValuesAt(longer, S) = [k \in 1 .. c |-> longer[InOrder(S)[k]].value]
      /\ ValuesAt(longer, T) = [k \in 1 .. c + 1 |-> longer[InOrder(T)[k]].value]
  BY <1>4 DEF ValuesAt
<1> HIDE DEF n, longer, c, T, v
<1>6. \A k \in 1 .. c : given[InOrder(S)[k]].value \in Values
  BY <1>1, <1>3
<1>7. v \in Seq(Values) /\ Len(v) = c /\ DOMAIN v = 1 .. c
  BY <1>2, <1>5, <1>6
<1>8. ValuesAt(longer, S) = v
  <2>1. \A k \in 1 .. c : longer[InOrder(S)[k]] = given[InOrder(S)[k]]
    BY <1>1, <1>3
  <2> QED
    BY <1>5, <2>1
<1>9. ValuesAt(longer, T) = Append(v, g.value)
  <2>1. Append(v, g.value) = [k \in 1 .. c + 1 |-> IF k = c + 1 THEN g.value ELSE v[k]]
    BY <1>7, <1>2
  <2>2. \A k \in 1 .. c + 1 : k = c + 1 \/ k \in 1 .. c
    BY <1>2
  <2>3. \A k \in 1 .. c : k # c + 1 /\ k \in 1 .. c + 1
    BY <1>2
  <2>4. \A k \in 1 .. c + 1 :
          longer[InOrder(T)[k]].value = IF k = c + 1 THEN g.value ELSE v[k]
    <3> SUFFICES ASSUME NEW k \in 1 .. c + 1
                 PROVE  longer[InOrder(T)[k]].value = IF k = c + 1 THEN g.value ELSE v[k]
      OBVIOUS
    <3>1. InOrder(T)[k] = IF k = c + 1 THEN n + 1 ELSE InOrder(S)[k]
      BY <1>4
    <3>2. CASE k = c + 1
      BY <1>1, <3>1, <3>2
    <3>3. CASE k # c + 1
      <4>1. k \in 1 .. c
        BY <2>2, <3>3
      <4>2. longer[InOrder(S)[k]] = given[InOrder(S)[k]]
        BY <1>1, <1>3, <4>1
      <4>3. v[k] = given[InOrder(S)[k]].value
        BY <1>5, <4>1
      <4> QED
        BY <3>1, <3>3, <4>2, <4>3
    <3> QED
      BY <3>2, <3>3
  <2> QED
    BY <1>5, <2>1, <2>4
<1> QED
  BY <1>7, <1>8, <1>9 DEF n, longer, T, v

(* The numbers of the properties of a location.                            *)
LEMMA LocationNumbers ==
    ASSUME NEW name
    PROVE  LET k == get_number_of_property(valid_location_properties, name)
           IN  /\ k = 0 <=> name = "root"
               /\ k = 1 <=> name = "add_root"
               /\ k = 2 <=> name = "access_log"
               /\ k = 3 <=> name = "error_log"
               /\ k = 4 <=> name = "proxy_path"
               /\ name = "nothing" => k = -1
<1> DEFINE k == get_number_of_property(valid_location_properties, name)
<1>0. 5 \in Nat
  OBVIOUS
<1>1. /\ Len(valid_location_properties) = 5
      /\ valid_location_properties[1] = "root" /\ valid_location_properties[2] = "add_root"
      /\ valid_location_properties[3] = "access_log"
      /\ valid_location_properties[4] = "error_log"
      /\ valid_location_properties[5] = "proxy_path"
  BY DEF valid_location_properties
<1>2. \A i \in 1 .. 5 : i = 1 \/ i = 2 \/ i = 3 \/ i = 4 \/ i = 5
  OBVIOUS
<1>3. Distinct(valid_location_properties, 5)
  BY <1>1, <1>2 DEF Distinct
<1>4. /\ \A i \in 1 .. 5 : name = valid_location_properties[i] => k = i - 1
      /\ k # -1 => k + 1 \in 1 .. 5 /\ name = valid_location_properties[k + 1]
  <2>1. Len(valid_location_properties) = 5
    BY <1>1
  <2>2. /\ Len(valid_location_properties) \in Nat
        /\ Distinct(valid_location_properties, Len(valid_location_properties))
    BY <1>0, <1>3, <2>1
  <2>3. /\ \A i \in 1 .. Len(valid_location_properties) :
             name = valid_location_properties[i] =>
               get_number_of_property(valid_location_properties, name) = i - 1
        /\ get_number_of_property(valid_location_properties, name) # -1 =>
             /\ get_number_of_property(valid_location_properties, name) + 1
                  \in 1 .. Len(valid_location_properties)
             /\ name = valid_location_properties[
                         get_number_of_property(valid_location_properties, name) + 1]
    BY <2>2, NumberIs, Zenon
  <2> QED
    BY <2>1, <2>3
<1> HIDE DEF k
<1>5. /\ name = "root" => k = 0
      /\ name = "add_root" => k = 1
      /\ name = "access_log" => k = 2
      /\ name = "error_log" => k = 3
      /\ name = "proxy_path" => k = 4
  BY <1>1, <1>4
<1>6. /\ k = 0 => name = "root"
      /\ k = 1 => name = "add_root"
      /\ k = 2 => name = "access_log"
      /\ k = 3 => name = "error_log"
      /\ k = 4 => name = "proxy_path"
  BY <1>1, <1>4
<1>7. name = "nothing" => k = -1
  BY <1>1, <1>2, <1>4
<1> QED
  BY <1>5, <1>6, <1>7 DEF k

LEMMA WrittenLocationIs ==
    ASSUME NEW head, NEW read, NEW given
    PROVE  WrittenLocation(head, read, given) =
             [url |-> head.url, case_sensitive |-> head.case_sensitive,
              root |-> OwnRoot(given, read.count, ServersRoot(read.given)),
              upstreams |-> ValuesAt(given, OwnPlaces(given, read.count, {"proxy_path"})),
              is_proxy |-> OwnPlaces(given, read.count, {"proxy_path"}) # {},
              is_access_log |-> OwnValue(given, read.count, "access_log"),
              is_error_log |-> OwnValue(given, read.count, "error_log")]
BY DEF WrittenLocation, ValuesAt

(* A value of another block, or of another location, changes nothing.      *)
LEMMA OthersValueMore ==
    ASSUME NEW given \in Seq(GivenType), NEW g \in GivenType, NEW head, NEW read,
           g.block # "location" \/ g.number # read.count
    PROVE  WrittenLocation(head, read, Append(given, g)) = WrittenLocation(head, read, given)
<1> DEFINE n == read.count
           longer == Append(given, g)
           servers == ServersRoot(read.given)
<1>1. \A names : ~OwnsOf(g, n, names)
  BY DEF OwnsOf
<1> HIDE DEF n
<1>2. OwnRoot(longer, n, servers) = OwnRoot(given, n, servers)
  BY <1>1, OwnRootMore
<1>3. /\ OwnValue(longer, n, "access_log") = OwnValue(given, n, "access_log")
      /\ OwnValue(longer, n, "error_log") = OwnValue(given, n, "error_log")
  <2>1. \A name : OwnValue(longer, n, name) =
                    IF OwnsOf(g, n, {name}) THEN g.value ELSE OwnValue(given, n, name)
    BY OwnValueMore
  <2> QED
    BY <1>1, <2>1
<1> DEFINE P == OwnPlaces(given, n, {"proxy_path"})
<1>4. OwnPlaces(longer, n, {"proxy_path"}) = P
  <2>1. \A names : OwnPlaces(longer, n, names) =
                     OwnPlaces(given, n, names)
                       \cup IF OwnsOf(g, n, names) THEN {Len(given) + 1} ELSE {}
    BY OwnPlacesMore
  <2> QED
    BY <1>1, <2>1
<1>5. P \in SUBSET (1 .. Len(given))
  <2>1. \A names : OwnPlaces(given, n, names) \in SUBSET (1 .. Len(given))
    BY OwnPlacesIn
  <2> QED
    BY <2>1
<1> HIDE DEF P
<1>6. ValuesAt(longer, P) = ValuesAt(given, P)
  BY <1>5, ValuesAtMore
<1> HIDE DEF longer, servers
<1>7. \A list : WrittenLocation(head, read, list) =
             [url |-> head.url, case_sensitive |-> head.case_sensitive,
              root |-> OwnRoot(list, n, servers),
              upstreams |-> ValuesAt(list, OwnPlaces(list, n, {"proxy_path"})),
              is_proxy |-> OwnPlaces(list, n, {"proxy_path"}) # {},
              is_access_log |-> OwnValue(list, n, "access_log"),
              is_error_log |-> OwnValue(list, n, "error_log")]
  BY WrittenLocationIs DEF n, servers
<1>8. WrittenLocation(head, read, longer) = WrittenLocation(head, read, given)
  BY <1>2, <1>3, <1>4, <1>6, <1>7 DEF P
<1> QED
  BY <1>8 DEF longer

(* A value of its own is set as set_location_property sets it.             *)
LEMMA OwnValueSets ==
    ASSUME NEW given \in Seq(GivenType), NEW g \in GivenType, NEW head, NEW read,
           g.block = "location", g.number = read.count,
           NEW s, s.root = ServersRoot(read.given),
           NEW k, k = get_number_of_property(valid_location_properties, g.name)
    PROVE  WrittenLocation(head, read, Append(given, g)) =
             set_location_property(s, k, g.value, WrittenLocation(head, read, given))
<1> DEFINE n == read.count
           longer == Append(given, g)
           servers == ServersRoot(read.given)
           P == OwnPlaces(given, n, {"proxy_path"})
           Q == OwnPlaces(longer, n, {"proxy_path"})
           l == WrittenLocation(head, read, given)
           m == WrittenLocation(head, read, longer)
<1>1. /\ k = 0 <=> g.name = "root"
      /\ k = 1 <=> g.name = "add_root"
      /\ k = 2 <=> g.name = "access_log"
      /\ k = 3 <=> g.name = "error_log"
      /\ k = 4 <=> g.name = "proxy_path"
  BY LocationNumbers
<1>2. \A names : OwnsOf(g, n, names) <=> g.name \in names
  BY DEF OwnsOf
<1>3. OwnRoot(longer, n, servers) = IF k = 0 THEN <<STATICS_FOLDER_PATH, g.value>>
                                    ELSE IF k = 1 THEN Append(servers, g.value)
                                    ELSE OwnRoot(given, n, servers)
  <2>1. \A i, x : OwnRoot(longer, i, x) =
                  IF OwnsOf(g, i, {"root", "add_root"})
                    THEN IF g.name = "root" THEN <<STATICS_FOLDER_PATH, g.value>>
                         ELSE Append(x, g.value)
                    ELSE OwnRoot(given, i, x)
    BY OwnRootMore
  <2> HIDE DEF longer, n, servers
  <2>2. OwnRoot(longer, n, servers) =
          IF g.name \in {"root", "add_root"}
            THEN IF g.name = "root" THEN <<STATICS_FOLDER_PATH, g.value>>
                 ELSE Append(servers, g.value)
            ELSE OwnRoot(given, n, servers)
    BY <1>2, <2>1
  <2> QED
    BY <1>1, <2>2
<1>4. /\ OwnValue(longer, n, "access_log") =
           IF k = 2 THEN g.value ELSE OwnValue(given, n, "access_log")
      /\ OwnValue(longer, n, "error_log") =
           IF k = 3 THEN g.value ELSE OwnValue(given, n, "error_log")
  <2>1. \A name : OwnValue(longer, n, name) =
                    IF OwnsOf(g, n, {name}) THEN g.value ELSE OwnValue(given, n, name)
    BY OwnValueMore
  <2>2. /\ OwnsOf(g, n, {"access_log"}) <=> k = 2
        /\ OwnsOf(g, n, {"error_log"}) <=> k = 3
    BY <1>1, <1>2
  <2> HIDE DEF n, longer
  <2> QED
    BY <2>1, <2>2
<1>5. Q = IF k = 4 THEN P \cup {Len(given) + 1} ELSE P
  <2>1. \A names : OwnPlaces(longer, n, names) =
                     OwnPlaces(given, n, names)
                       \cup IF OwnsOf(g, n, names) THEN {Len(given) + 1} ELSE {}
    BY OwnPlacesMore
  <2>2. OwnsOf(g, n, {"proxy_path"}) <=> k = 4
    BY <1>1, <1>2
  <2> HIDE DEF n, longer
  <2> QED
    BY <2>1, <2>2
<1>6. P \in SUBSET (1 .. Len(given))
  <2>1. \A names : OwnPlaces(given, n, names) \in SUBSET (1 .. Len(given))
    BY OwnPlacesIn
  <2> QED
    BY <2>1
<1>7. /\ \A list : WrittenLocation(head, read, list) =
             [url |-> head.url, case_sensitive |-> head.case_sensitive,
              root |-> OwnRoot(list, n, servers),
              upstreams |-> ValuesAt(list, OwnPlaces(list, n, {"proxy_path"})),
              is_proxy |-> OwnPlaces(list, n, {"proxy_path"}) # {},
              is_access_log |-> OwnValue(list, n, "access_log"),
              is_error_log |-> OwnValue(list, n, "error_log")]
  BY WrittenLocationIs
<1> HIDE DEF P, n, servers, longer
<1>8. /\ ValuesAt(longer, P) = ValuesAt(given, P)
      /\ ValuesAt(longer, P \cup {Len(given) + 1}) = Append(ValuesAt(given, P), g.value)
  BY <1>6, ValuesAtMore DEF longer
<1>9. l = [url |-> head.url, case_sensitive |-> head.case_sensitive,
           root |-> OwnRoot(given, n, servers),
           upstreams |-> ValuesAt(given, P),
           is_proxy |-> P # {},
           is_access_log |-> OwnValue(given, n, "access_log"),
           is_error_log |-> OwnValue(given, n, "error_log")]
  BY <1>7 DEF P
<1>a. m = [url |-> head.url, case_sensitive |-> head.case_sensitive,
           root |-> OwnRoot(longer, n, servers),
           upstreams |-> ValuesAt(longer, Q),
           is_proxy |-> Q # {},
           is_access_log |-> OwnValue(longer, n, "access_log"),
           is_error_log |-> OwnValue(longer, n, "error_log")]
  BY <1>7
<1>b. P \cup {Len(given) + 1} # {}
  OBVIOUS
<1>c. s.root = servers
  BY DEF servers
<1> DEFINE t == set_location_property(s, k, g.value, l)
           own == <<STATICS_FOLDER_PATH, g.value>>
           added == Append(servers, g.value)
           more == Append(ValuesAt(given, P), g.value)
<1>d. /\ k = 0 => t = [l EXCEPT !.root = own]
      /\ k = 1 => t = [l EXCEPT !.root = added]
      /\ k = 2 => t = [l EXCEPT !.is_access_log = g.value]
      /\ k = 3 => t = [l EXCEPT !.is_error_log = g.value]
      /\ k = 4 => t = [l EXCEPT !.is_proxy = TRUE, !.upstreams = more]
      /\ k \notin {0, 1, 2, 3, 4} => t = l
  <2>1. /\ k = 0 => t = [l EXCEPT !.root = own]
        /\ k = 1 => t = [l EXCEPT !.root = added]
        /\ k = 2 => t = [l EXCEPT !.is_access_log = g.value]
        /\ k = 3 => t = [l EXCEPT !.is_error_log = g.value]
        /\ k = 4 => t = [l EXCEPT !.is_proxy = TRUE, !.upstreams = Append(@, g.value)]
        /\ k \notin {0, 1, 2, 3, 4} => t = l
    BY <1>c DEF set_location_property, numbers_of_location_properties
  <2>2. [l EXCEPT !.is_proxy = TRUE, !.upstreams = Append(@, g.value)] =
          [l EXCEPT !.is_proxy = TRUE, !.upstreams = more]
    BY <1>9
  <2> QED
    BY <2>1, <2>2
<1>e. /\ OwnRoot(longer, n, servers) = IF k = 0 THEN own ELSE IF k = 1 THEN added
                                       ELSE OwnRoot(given, n, servers)
      /\ ValuesAt(longer, Q) = IF k = 4 THEN more ELSE ValuesAt(given, P)
      /\ (Q # {}) = IF k = 4 THEN TRUE ELSE P # {}
  BY <1>3, <1>5, <1>8, <1>b
<1> HIDE DEF Q, l, m, t, own, added, more
<1>f. m = t
  <2>1. CASE k = 0
    BY <1>4, <1>9, <1>a, <1>d, <1>e, <2>1
  <2>2. CASE k = 1
    BY <1>4, <1>9, <1>a, <1>d, <1>e, <2>2
  <2>3. CASE k = 2
    BY <1>4, <1>9, <1>a, <1>d, <1>e, <2>3
  <2>4. CASE k = 3
    BY <1>4, <1>9, <1>a, <1>d, <1>e, <2>4
  <2>5. CASE k = 4
    BY <1>4, <1>9, <1>a, <1>d, <1>e, <2>5
  <2>6. CASE k \notin {0, 1, 2, 3, 4}
    <3>1. /\ OwnRoot(longer, n, servers) = OwnRoot(given, n, servers)
          /\ ValuesAt(longer, Q) = ValuesAt(given, P) /\ (Q # {}) = (P # {})
      BY <1>e, <2>6
    <3>2. /\ OwnValue(longer, n, "access_log") = OwnValue(given, n, "access_log")
          /\ OwnValue(longer, n, "error_log") = OwnValue(given, n, "error_log")
      BY <1>4, <2>6
    <3>3. m = l
      BY <1>9, <1>a, <3>1, <3>2
    <3>4. t = l
      BY <1>d, <2>6
    <3> QED
      BY <3>3, <3>4
  <2> QED
    BY <2>1, <2>2, <2>3, <2>4, <2>5, <2>6
<1> QED
  BY <1>f DEF longer, m, t, l

---------------------------------------------------------------------------
(* The locations of a text.                                                *)

(* Which places of the text are complete locations.                        *)
WrittenIn(items) ==
    {i \in DOMAIN items : items[i].t = "location"
                          /\ \E j \in i .. Len(items) : items[j].t = "}"}

OfType(items, S, type) == {i \in S : items[i].head.type = type}

ReadUpTo(items, i) == Reading(SubSeq(items, 1, i))

LocationAt(items, i) ==
    WrittenLocation(items[i].head, ReadUpTo(items, i), Reading(items).given)

ListOf(items, S) ==
    [k \in 1 .. Cardinality(S) |-> LocationAt(items, InOrder(S)[k])]

(* One item more.                                                          *)
LEMMA ItemsMore ==
    ASSUME NEW items \in Seq(Item), NEW item \in Item
    PROVE  LET n == Len(items)
               longer == Append(items, item)
           IN  /\ n \in Nat /\ Len(longer) = n + 1 /\ DOMAIN longer = 1 .. n + 1
               /\ DOMAIN items = 1 .. n /\ longer[n + 1] = item
               /\ \A i \in 1 .. n : longer[i] = items[i]
               /\ \A i \in 1 .. n : i \in 1 .. n + 1 /\ i # n + 1
               /\ \A i \in 1 .. n + 1 : i \in 1 .. n \/ i = n + 1
OBVIOUS

LEMMA ReadUpToMore ==
    ASSUME NEW items \in Seq(Item), NEW item \in Item
    PROVE  /\ \A i \in 1 .. Len(items) : ReadUpTo(Append(items, item), i) = ReadUpTo(items, i)
           /\ ReadUpTo(Append(items, item), Len(items) + 1) = Reading(Append(items, item))
<1> DEFINE n == Len(items)
           longer == Append(items, item)
<1>1. /\ n \in Nat /\ longer \in Seq(Item) /\ Len(longer) = n + 1
      /\ \A i \in 1 .. n : longer[i] = items[i]
  OBVIOUS
<1> HIDE DEF longer
<1>2. \A i \in 1 .. n : SubSeq(longer, 1, i) = SubSeq(items, 1, i)
  <2> SUFFICES ASSUME NEW i \in 1 .. n PROVE SubSeq(longer, 1, i) = SubSeq(items, 1, i)
    OBVIOUS
  <2> DEFINE a == SubSeq(longer, 1, i)
             b == SubSeq(items, 1, i)
  <2>1. /\ a \in Seq(Item) /\ Len(a) = i /\ \A k \in 1 .. i : a[k] = longer[k]
        /\ b \in Seq(Item) /\ Len(b) = i /\ \A k \in 1 .. i : b[k] = items[k]
    BY <1>1
  <2>2. \A k \in 1 .. i : k \in 1 .. n
    BY <1>1
  <2> HIDE DEF a, b
  <2>3. a = b
    BY <1>1, <2>1, <2>2, SeqEqual
  <2> QED
    BY <2>3 DEF a, b
<1>3. SubSeq(longer, 1, n + 1) = longer
  <2> DEFINE a == SubSeq(longer, 1, n + 1)
  <2>1. a \in Seq(Item) /\ Len(a) = n + 1 /\ \A k \in 1 .. n + 1 : a[k] = longer[k]
    BY <1>1
  <2> HIDE DEF a
  <2>2. a = longer
    BY <1>1, <2>1, SeqEqual
  <2> QED
    BY <2>2 DEF a
<1> QED
  BY <1>2, <1>3 DEF ReadUpTo, longer

(* A closing brace completes the locations before it.                      *)
LEMMA WrittenMore ==
    ASSUME NEW items \in Seq(Item), NEW item \in Item
    PROVE  /\ WrittenIn(items) \in SUBSET (1 .. Len(items))
           /\ WrittenIn(Append(items, item)) =
                IF item.t = "}" THEN {i \in 1 .. Len(items) : items[i].t = "location"}
                ELSE WrittenIn(items)
<1> DEFINE n == Len(items)
           longer == Append(items, item)
<1>1. /\ n \in Nat /\ Len(longer) = n + 1 /\ DOMAIN longer = 1 .. n + 1
      /\ DOMAIN items = 1 .. n /\ longer[n + 1] = item
      /\ \A i \in 1 .. n : longer[i] = items[i]
  BY ItemsMore
<1>2. /\ \A i \in 1 .. n : i \in 1 .. n + 1 /\ i # n + 1
      /\ \A i \in 1 .. n + 1 : i \in 1 .. n \/ i = n + 1
  BY <1>1, ItemsMore
<1>3. /\ \A i \in 1 .. n : \A j \in i .. n : j \in i .. n + 1 /\ j \in 1 .. n
      /\ \A i \in 1 .. n : \A j \in i .. n + 1 : j \in i .. n \/ j = n + 1
      /\ \A i \in 1 .. n : n + 1 \in i .. n + 1
      /\ \A j \in n + 1 .. n + 1 : j = n + 1
  BY <1>1
<1> HIDE DEF n, longer
<1>4. WrittenIn(longer) = {i \in 1 .. n + 1 : longer[i].t = "location"
                             /\ \E j \in i .. n + 1 : longer[j].t = "}"}
  BY <1>1 DEF WrittenIn
<1>5. WrittenIn(items) = {i \in 1 .. n : items[i].t = "location"
                            /\ \E j \in i .. n : items[j].t = "}"}
  BY <1>1 DEF WrittenIn, n
<1>6. ~(longer[n + 1].t = "location" /\ \E j \in n + 1 .. n + 1 : longer[j].t = "}")
  BY <1>3
<1>7. CASE item.t = "}"
  <2>1. \A i \in 1 .. n : (longer[i].t = "location" /\ \E j \in i .. n + 1 : longer[j].t = "}")
                            <=> items[i].t = "location"
    BY <1>1, <1>3, <1>7
  <2>2. WrittenIn(longer) = {i \in 1 .. n : items[i].t = "location"}
    BY <1>2, <1>4, <1>6, <2>1
  <2> QED
    BY <1>5, <1>7, <2>2 DEF n, longer
<1>8. CASE item.t # "}"
  <2>1. \A i \in 1 .. n : (longer[i].t = "location" /\ \E j \in i .. n + 1 : longer[j].t = "}")
                            <=> (items[i].t = "location" /\ \E j \in i .. n : items[j].t = "}")
    BY <1>1, <1>3, <1>8
  <2> DEFINE Complete(i) == longer[i].t = "location" /\ \E j \in i .. n + 1 : longer[j].t = "}"
             Was(i) == items[i].t = "location" /\ \E j \in i .. n : items[j].t = "}"
  <2>2. /\ WrittenIn(longer) = {i \in 1 .. n + 1 : Complete(i)}
        /\ WrittenIn(items) = {i \in 1 .. n : Was(i)}
        /\ ~Complete(n + 1)
        /\ \A i \in 1 .. n : Complete(i) <=> Was(i)
    BY <1>4, <1>5, <1>6, <2>1
  <2> HIDE DEF Complete, Was
  <2>3. WrittenIn(longer) = WrittenIn(items)
    BY <1>2, <2>2
  <2> QED
    BY <1>5, <1>8, <2>3 DEF n, longer
<1> QED
  BY <1>7, <1>8

(* Which of them are of a type does not depend on what follows.            *)
LEMMA OfTypeMore ==
    ASSUME NEW items \in Seq(Item), NEW item \in Item, NEW S \in SUBSET (1 .. Len(items)), NEW type
    PROVE  OfType(Append(items, item), S, type) = OfType(items, S, type)
           /\ OfType(items, S, type) \in SUBSET (1 .. Len(items))
<1>1. \A i \in 1 .. Len(items) : Append(items, item)[i] = items[i]
  OBVIOUS
<1> QED
  BY <1>1 DEF OfType

(* A list stays as it is when its locations do.                            *)
LEMMA ListsSame ==
    ASSUME NEW n \in Nat, NEW S \in SUBSET (1 .. n), NEW items, NEW longer,
           \A i \in S : LocationAt(longer, i) = LocationAt(items, i)
    PROVE  ListOf(longer, S) = ListOf(items, S)
<1>1. \A k \in 1 .. Cardinality(S) : InOrder(S)[k] \in S
  BY InOrderIn
<1> QED
  BY <1>1 DEF ListOf

LEMMA AppendIs ==
    ASSUME NEW S, NEW list \in Seq(S), NEW c \in Nat, Len(list) = c, NEW x \in S
    PROVE  Append(list, x) = [k \in 1 .. c + 1 |-> IF k = c + 1 THEN x ELSE list[k]]
<1> DEFINE a == Append(list, x)
           b == [k \in 1 .. c + 1 |-> IF k = c + 1 THEN x ELSE list[k]]
<1>1. /\ a \in Seq(S) /\ Len(a) = c + 1 /\ a[c + 1] = x
      /\ \A k \in 1 .. c : a[k] = list[k]
  OBVIOUS
<1>2. \A k \in 1 .. c + 1 : k = c + 1 \/ k \in 1 .. c
  OBVIOUS
<1>3. \A k \in 1 .. c + 1 : b[k] = a[k] /\ b[k] \in S
  BY <1>1, <1>2
<1>4. b \in Seq(S) /\ Len(b) = c + 1
  BY <1>3
<1> HIDE DEF a, b
<1>5. a = b
  BY <1>1, <1>3, <1>4, SeqEqual
<1> QED
  BY <1>5 DEF a, b

(* The list with one location more at the end of the text.                 *)
LEMMA ListMore ==
    ASSUME NEW p \in Nat, p > 0, NEW S \in SUBSET (1 .. p - 1), NEW items,
           NEW list \in Seq(LocationType), list = ListOf(items, S),
           LocationAt(items, p) \in LocationType
    PROVE  Append(list, LocationAt(items, p)) = ListOf(items, S \cup {p})
<1> DEFINE c == Cardinality(S)
           T == S \cup {p}
           x == LocationAt(items, p)
<1>0. x \in LocationType
  OBVIOUS
<1>1. p - 1 \in Nat /\ (p - 1) + 1 = p
  OBVIOUS
<1>2. c \in Nat
  BY <1>1, FiniteOf
<1>3. /\ Cardinality(T) = c + 1
      /\ InOrder(T) = [k \in 1 .. c + 1 |-> IF k = c + 1 THEN p ELSE InOrder(S)[k]]
  <2>1. \A m \in Nat : \A U \in SUBSET (1 .. m) :
          /\ Cardinality(U \cup {m + 1}) = Cardinality(U) + 1
          /\ InOrder(U \cup {m + 1}) =
               [k \in 1 .. Cardinality(U) + 1 |->
                  IF k = Cardinality(U) + 1 THEN m + 1 ELSE InOrder(U)[k]]
    BY InOrderMore
  <2> QED
    BY <1>1, <2>1
<1>4. list = [k \in 1 .. c |-> LocationAt(items, InOrder(S)[k])]
  BY DEF ListOf
<1>5. ListOf(items, T) = [k \in 1 .. c + 1 |-> LocationAt(items, InOrder(T)[k])]
  BY <1>3 DEF ListOf
<1> HIDE DEF c, T, x
<1>6. DOMAIN list = 1 .. c /\ Len(list) = c
  BY <1>2, <1>4
<1>7. Append(list, x) = [k \in 1 .. c + 1 |-> IF k = c + 1 THEN x ELSE list[k]]
  BY <1>2, <1>6, <1>0, AppendIs
<1>8. \A k \in 1 .. c + 1 : LocationAt(items, InOrder(T)[k]) = IF k = c + 1 THEN x ELSE list[k]
  <2> SUFFICES ASSUME NEW k \in 1 .. c + 1
               PROVE  LocationAt(items, InOrder(T)[k]) = IF k = c + 1 THEN x ELSE list[k]
    OBVIOUS
  <2>1. InOrder(T)[k] = IF k = c + 1 THEN p ELSE InOrder(S)[k]
    BY <1>3
  <2>2. k = c + 1 \/ k \in 1 .. c
    BY <1>2
  <2>3. CASE k = c + 1
    BY <2>1, <2>3 DEF x
  <2>4. CASE k # c + 1
    <3>1. list[k] = LocationAt(items, InOrder(S)[k])
      BY <1>4, <2>2, <2>4
    <3> QED
      BY <2>1, <2>4, <3>1
  <2> QED
    BY <2>3, <2>4
<1>9. Append(list, x) = ListOf(items, T)
  BY <1>5, <1>7, <1>8
<1> QED
  BY <1>9 DEF x, T

(* A location nothing was given to yet.                                    *)
LEMMA FreshLocation ==
    ASSUME NEW given \in Seq(GivenType), NEW head, NEW read,
           \A k \in 1 .. Len(given) : given[k].number # read.count
    PROVE  WrittenLocation(head, read, given) =
             [url |-> head.url, case_sensitive |-> head.case_sensitive,
              root |-> IF ServersRoot(read.given) = <<>> THEN NoRoot ELSE ServersRoot(read.given),
              upstreams |-> <<>>, is_proxy |-> FALSE,
              is_access_log |-> "indeterminate", is_error_log |-> "indeterminate"]
<1>1. \A names : OwnPlaces(given, read.count, names) = {}
  <2>1. DOMAIN given = 1 .. Len(given)
    OBVIOUS
  <2> QED
    BY <2>1 DEF OwnPlaces
<1>2. OwnRoot(given, read.count, ServersRoot(read.given)) =
        IF ServersRoot(read.given) = <<>> THEN NoRoot ELSE ServersRoot(read.given)
  BY <1>1 DEF OwnRoot
<1>3. \A name : OwnValue(given, read.count, name) = "indeterminate"
  BY <1>1 DEF OwnValue
<1>4. ValuesAt(given, {}) = <<>>
  <2>1. 1 .. 0 = {}
    OBVIOUS
  <2>2. ValuesAt(given, {}) = [k \in {} |-> given[InOrder({})[k]].value]
    BY <2>1, NothingInOrder DEF ValuesAt
  <2> QED
    BY <2>2
<1>5. /\ OwnValue(given, read.count, "access_log") = "indeterminate"
      /\ OwnValue(given, read.count, "error_log") = "indeterminate"
      /\ OwnPlaces(given, read.count, {"proxy_path"}) = {}
  BY <1>1, <1>3
<1>6. WrittenLocation(head, read, given) =
             [url |-> head.url, case_sensitive |-> head.case_sensitive,
              root |-> OwnRoot(given, read.count, ServersRoot(read.given)),
              upstreams |-> ValuesAt(given, OwnPlaces(given, read.count, {"proxy_path"})),
              is_proxy |-> OwnPlaces(given, read.count, {"proxy_path"}) # {},
              is_access_log |-> OwnValue(given, read.count, "access_log"),
              is_error_log |-> OwnValue(given, read.count, "error_log")]
  BY WrittenLocationIs
<1> QED
  BY <1>2, <1>4, <1>5, <1>6

---------------------------------------------------------------------------
(* The locations and the text.                                             *)

ListsAgree(items, lists) ==
    \A t \in location_type_t : lists[t] = ListOf(items, OfType(items, WrittenIn(items), t))

(* Blocks are numbered in their order.                                     *)
CountsGrow(items) ==
    LET r == Reading(items) IN
    /\ \A i \in 1 .. Len(items) :
         items[i].t = "location" =>
           ReadUpTo(items, i).count \in Nat /\ ReadUpTo(items, i).count <= r.count
    /\ \A k \in 1 .. Len(r.given) : r.given[k].number <= r.count

AllComplete(items) ==
    \A i \in 1 .. Len(items) : items[i].t = "location" => i \in WrittenIn(items)

(* The location at p is the one that is being built: nothing has been      *)
(* closed since, and it is as far as it is written.                        *)
Building(items, p, root, loc) ==
    LET r == Reading(items) IN
    /\ items[p].t = "location"
    /\ \A j \in p .. Len(items) : items[j].t # "}"
    /\ \A i \in 1 .. Len(items) : items[i].t = "location" => i = p \/ i \in WrittenIn(items)
    /\ ReadUpTo(items, p).count = r.count
    /\ \A i \in WrittenIn(items) : ReadUpTo(items, i).count < r.count
    /\ ServersRoot(ReadUpTo(items, p).given) = root
    /\ loc.type = items[p].head.type
    /\ loc.location = LocationAt(items, p)
    /\ loc.state = "S_VALUE" =>
         loc.property_number = get_number_of_property(valid_location_properties, r.name)

LocationsInv ==
    Read => /\ ListsAgree(text, server.locations)
            /\ CountsGrow(text)
            /\ IF pc = "parse_location"
                 THEN \E p \in 1 .. Len(text) : Building(text, p, server.root, location)
                 ELSE AllComplete(text)

LEMMA InitLocationsInv == Init => LocationsInv
<1> SUFFICES ASSUME Init PROVE LocationsInv
  OBVIOUS
<1>1. pc = "parse_config" /\ text = <<>> /\ server = NewServer
  BY Zenon DEF Init
<1>2. Len(<<>>) = 0 /\ DOMAIN <<>> = {} /\ 1 .. 0 = {}
  OBVIOUS
<1>3. Reading(text).given = <<>>
  <2>1. Reading(text) = NothingRead
    BY <1>1, ReadingOfNothing, Zenon
  <2> QED
    BY <2>1 DEF NothingRead
<1>4. \A t : OfType(text, WrittenIn(text), t) = {}
  BY <1>1, <1>2 DEF OfType, WrittenIn
<1>5. ListOf(text, {}) = <<>>
  <2>1. ListOf(text, {}) = [k \in {} |-> LocationAt(text, InOrder({})[k])]
    BY <1>2, NothingInOrder DEF ListOf
  <2> QED
    BY <2>1
<1>6. ListsAgree(text, server.locations)
  BY <1>1, <1>4, <1>5 DEF ListsAgree, NewServer
<1>7. CountsGrow(text) /\ AllComplete(text)
  BY <1>1, <1>2, <1>3 DEF CountsGrow, AllComplete
<1> QED
  BY <1>1, <1>6, <1>7 DEF LocationsInv

(* Nothing is read, or an end of line.                                     *)
LEMMA SameText ==
    ASSUME LocationsInv, Read, UNCHANGED <<text, location>>,
           server'.locations = server.locations, server'.root = server.root,
           (pc' = "parse_location") <=> (pc = "parse_location")
    PROVE  LocationsInv'
<1>1. /\ ListsAgree(text, server.locations) /\ CountsGrow(text)
      /\ IF pc = "parse_location"
           THEN \E p \in 1 .. Len(text) : Building(text, p, server.root, location)
           ELSE AllComplete(text)
  BY DEF LocationsInv
<1>2. /\ ListsAgree(text', server'.locations) /\ CountsGrow(text')
  BY <1>1
<1>3. IF pc' = "parse_location"
        THEN \E p \in 1 .. Len(text') : Building(text', p, server'.root, location')
        ELSE AllComplete(text')
  BY <1>1
<1> QED
  BY <1>2, <1>3 DEF LocationsInv

LEMMA LocationsEnd ==
    ASSUME LocationsInv, UNCHANGED text, Invalid \/ Throw
    PROVE  LocationsInv'
BY DEF LocationsInv, Read, Invalid, Throw, Return

(* The number of a block is the number of blocks up to it.                 *)
LEMMA CountMore ==
    ASSUME NestingInv, NEW item \in Item, Understood(item), item.t \notin {"word", "newline"}
    PROVE  /\ text' = Append(text, item) /\ text \in Seq(Item)
           /\ Reading(text') = ReadOne(Reading(text), item)
           /\ Reading(text).count \in Nat /\ Reading(text).given \in Seq(GivenType)
           /\ Reading(text').count = IF item.t \in OpensBlock THEN Reading(text).count + 1
                                     ELSE Reading(text).count
<1> DEFINE r == Reading(text)
<1>1. r \in ReadingType /\ text' = Append(text, item) /\ text \in Seq(Item)
  BY DEF NestingInv, Understood
<1>2. Reading(text') = ReadOne(r, item)
  BY TextGrows
<1>3. item.t \in OpensBlock \cup {"}", "name", "bare", "value", "{", "upstream"}
  BY DEF Item, OpensBlock
<1>4. {"open", "count", "name", "given"} \subseteq DOMAIN r /\ r.count \in Nat
      /\ r.given \in Seq(GivenType)
  BY <1>1 DEF ReadingType
<1> HIDE DEF r
<1>5. ReadOne(r, item).count = IF item.t \in OpensBlock THEN r.count + 1 ELSE r.count
  <2>1. CASE item.t \in OpensBlock
    <3>1. ReadOne(r, item) = [r EXCEPT !.open = Append(r.open, item.t), !.count = r.count + 1]
      BY <1>1, <2>1, ReadOneIs
    <3> QED
      BY <1>4, <2>1, <3>1
  <2>2. CASE item.t = "}"
    BY <1>4, <2>2 DEF ReadOne, OpensBlock
  <2>3. CASE item.t = "name"
    BY <1>4, <2>3 DEF ReadOne, OpensBlock
  <2>4. CASE item.t = "bare"
    BY <1>4, <2>4 DEF ReadOne, OpensBlock
  <2>5. CASE item.t = "value"
    <3>1. ReadOne(r, item) =
            [r EXCEPT !.given = Append(r.given, [block |-> Last(r.open), number |-> r.count,
                                                 name |-> r.name, value |-> item.value])]
      BY <1>1, <2>5, ReadOneIs
    <3> QED
      BY <1>4, <2>5, <3>1 DEF OpensBlock
  <2>6. CASE item.t \in {"{", "upstream"}
    BY <1>4, <2>6 DEF ReadOne, OpensBlock
  <2> QED
    BY <1>3, <2>1, <2>2, <2>3, <2>4, <2>5, <2>6
<1> QED
  BY <1>1, <1>2, <1>4, <1>5 DEF r

(* The value an item gives.                                                *)
GivenBy(r, item) ==
    [block |-> Last(r.open), number |-> r.count, name |-> r.name, value |-> item.value]

LEMMA GivenMore ==
    ASSUME NestingInv, NEW item \in Item, Understood(item), item.t \notin {"word", "newline"},
           item.t = "value" => Last(Reading(text).open) \in OpensBlock
    PROVE  LET r == Reading(text)
               g == GivenBy(r, item)
           IN  IF item.t = "value"
                 THEN /\ Reading(text').given = Append(r.given, g) /\ g \in GivenType
                      /\ g.block = Last(r.open) /\ g.number = r.count
                      /\ g.name = r.name /\ g.value = item.value
                 ELSE Reading(text').given = r.given
<1> DEFINE r == Reading(text)
           g == GivenBy(r, item)
<1>1. r \in ReadingType
  BY DEF NestingInv
<1>2. IF item.t = "value" THEN Reading(text').given = Append(r.given, g)
      ELSE Reading(text').given = r.given
  BY GivenGrows DEF GivenBy
<1>3. item.t = "value" => item.value \in Values
  BY DEF Item
<1> HIDE DEF r
<1>4. item.t = "value" => g \in GivenType
  BY <1>1, <1>3 DEF GivenBy, GivenType, ReadingType, r
<1>5. /\ g.block = Last(r.open) /\ g.number = r.count
      /\ g.name = r.name /\ g.value = item.value
  BY DEF GivenBy
<1> QED
  BY <1>2, <1>4, <1>5 DEF r

(* A location stays as it is written when the item is not a value of its   *)
(* own.                                                                    *)
LEMMA LocationStays ==
    ASSUME NestingInv, NEW item \in Item, Understood(item), item.t \notin {"word", "newline"},
           item.t = "value" => Last(Reading(text).open) \in OpensBlock,
           NEW i \in 1 .. Len(text),
           item.t = "value" => \/ Last(Reading(text).open) # "location"
                               \/ Reading(text).count # ReadUpTo(text, i).count
    PROVE  /\ LocationAt(text', i) = LocationAt(text, i)
           /\ ReadUpTo(text', i) = ReadUpTo(text, i)
           /\ text'[i] = text[i]
<1> DEFINE r == Reading(text)
           g == GivenBy(r, item)
<1>1. /\ text' = Append(text, item) /\ text \in Seq(Item) /\ r.given \in Seq(GivenType)
  BY CountMore
<1>2. text'[i] = text[i]
  BY <1>1, ItemsMore
<1>3. ReadUpTo(text', i) = ReadUpTo(text, i)
  BY <1>1, ReadUpToMore
<1>4. IF item.t = "value"
        THEN /\ Reading(text').given = Append(r.given, g) /\ g \in GivenType
             /\ g.block = Last(r.open) /\ g.number = r.count
        ELSE Reading(text').given = r.given
  BY GivenMore
<1> HIDE DEF r, g
<1>5. item.t = "value" => g.block # "location" \/ g.number # ReadUpTo(text, i).count
  BY <1>4 DEF r
<1>6. WrittenLocation(text[i].head, ReadUpTo(text, i), Reading(text').given) =
        WrittenLocation(text[i].head, ReadUpTo(text, i), r.given)
  <2>1. CASE item.t = "value"
    <3>1. Reading(text').given = Append(r.given, g) /\ g \in GivenType
      BY <1>4, <2>1
    <3>2. g.block # "location" \/ g.number # ReadUpTo(text, i).count
      BY <1>5, <2>1
    <3> QED
      BY <1>1, <3>1, <3>2, OthersValueMore
  <2>2. CASE item.t # "value"
    BY <1>4, <2>2
  <2> QED
    BY <2>1, <2>2
<1> QED
  BY <1>2, <1>3, <1>6 DEF LocationAt, r

(* A step that understands its item, and has a block to give a value to.   *)
ReadsItem(item) ==
    /\ NestingInv /\ Understood(item) /\ item.t \notin {"word", "newline"}
    /\ item.t = "value" => Last(Reading(text).open) \in OpensBlock

LEMMA UpToNext ==
    ASSUME NEW n \in Nat
    PROVE  /\ n + 1 \in 1 .. n + 1
           /\ \A i \in 1 .. n + 1 : i \in 1 .. n \/ i = n + 1
           /\ \A i \in 1 .. n : i \in 1 .. n + 1
OBVIOUS

LEMMA AppendHas ==
    \A S : \A list \in Seq(S) :
      /\ Len(list) \in Nat /\ \A k \in 1 .. Len(list) : list[k] \in S
      /\ \A x \in S :
           /\ Len(Append(list, x)) = Len(list) + 1
           /\ Append(list, x)[Len(list) + 1] = x
           /\ \A k \in 1 .. Len(list) : Append(list, x)[k] = list[k]
OBVIOUS

(* Blocks stay numbered in their order.                                    *)
LEMMA CountsGoOn ==
    ASSUME NEW item \in Item, ReadsItem(item), CountsGrow(text)
    PROVE  CountsGrow(text')
<1> DEFINE r == Reading(text)
           m == Reading(text')
           n == Len(text)
           g == GivenBy(r, item)
<1>1. /\ text' = Append(text, item) /\ text \in Seq(Item)
      /\ r.count \in Nat /\ r.given \in Seq(GivenType)
      /\ m.count = IF item.t \in OpensBlock THEN r.count + 1 ELSE r.count
  BY CountMore DEF ReadsItem
<1>2. /\ n \in Nat /\ Len(text') = n + 1
      /\ \A i \in 1 .. n : text'[i] = text[i] /\ ReadUpTo(text', i) = ReadUpTo(text, i)
      /\ ReadUpTo(text', n + 1) = m
  BY <1>1, ItemsMore, ReadUpToMore
<1>3. IF item.t = "value"
        THEN m.given = Append(r.given, g) /\ g \in GivenType /\ g.number = r.count
        ELSE m.given = r.given
  BY GivenMore DEF ReadsItem
<1>4. /\ \A i \in 1 .. n : text[i].t = "location" =>
             ReadUpTo(text, i).count \in Nat /\ ReadUpTo(text, i).count <= r.count
      /\ \A k \in 1 .. Len(r.given) : r.given[k].number <= r.count
  BY DEF CountsGrow
<1> HIDE DEF r, m, n, g
<1>5. m.count \in Nat /\ r.count <= m.count
  BY <1>1
<1>6. \A i \in 1 .. n + 1 : text'[i].t = "location" =>
        ReadUpTo(text', i).count \in Nat /\ ReadUpTo(text', i).count <= m.count
  <2> SUFFICES ASSUME NEW i \in 1 .. n + 1, text'[i].t = "location"
               PROVE  ReadUpTo(text', i).count \in Nat /\ ReadUpTo(text', i).count <= m.count
    OBVIOUS
  <2>1. CASE i = n + 1
    BY <1>2, <1>5, <2>1
  <2>2. CASE i \in 1 .. n
    <3>1. ReadUpTo(text', i).count \in Nat /\ ReadUpTo(text', i).count <= r.count
      BY <1>2, <1>4, <2>2
    <3> QED
      BY <1>1, <1>5, <3>1
  <2> QED
    BY <1>2, <2>1, <2>2, UpToNext
<1>7. \A k \in 1 .. Len(m.given) : m.given[k].number <= m.count
  <2>0. \A k \in 1 .. Len(r.given) : r.given[k].number \in Nat /\ r.given[k].number <= m.count
    <3>0. \A k \in 1 .. Len(r.given) : r.given[k] \in GivenType
      BY <1>1, AppendHas, Zenon
    <3>1. \A k \in 1 .. Len(r.given) : r.given[k].number \in Nat
      BY <3>0 DEF GivenType
    <3> QED
      BY <1>1, <1>4, <1>5, <3>1
  <2>1. CASE item.t = "value"
    <3>1. /\ Len(m.given) = Len(r.given) + 1 /\ m.given[Len(r.given) + 1] = g
          /\ \A k \in 1 .. Len(r.given) : m.given[k] = r.given[k]
          /\ Len(r.given) \in Nat
      <4>1. r.given \in Seq(GivenType) /\ g \in GivenType /\ m.given = Append(r.given, g)
        BY <1>1, <1>3, <2>1
      <4>2. /\ Len(r.given) \in Nat
            /\ Len(Append(r.given, g)) = Len(r.given) + 1
            /\ Append(r.given, g)[Len(r.given) + 1] = g
            /\ \A k \in 1 .. Len(r.given) : Append(r.given, g)[k] = r.given[k]
        BY <4>1, AppendHas
      <4> QED
        BY <4>1, <4>2
    <3>2. g.number <= m.count
      BY <1>3, <1>5, <2>1
    <3> QED
      BY <2>0, <3>1, <3>2, UpToNext
  <2>2. CASE item.t # "value"
    BY <1>3, <2>0, <2>2
  <2> QED
    BY <2>1, <2>2
<1> QED
  BY <1>2, <1>6, <1>7 DEF CountsGrow, m, n

(* What is complete stays as it is unless it is completed, or the value is *)
(* its own.                                                                *)
LEMMA ListsStay ==
    ASSUME NEW item \in Item, ReadsItem(item), ListsAgree(text, server.locations),
           item.t = "}" => AllComplete(text),
           item.t = "value" =>
             \/ Last(Reading(text).open) # "location"
             \/ \A i \in WrittenIn(text) : Reading(text).count # ReadUpTo(text, i).count,
           server'.locations = server.locations
    PROVE  /\ ListsAgree(text', server'.locations)
           /\ WrittenIn(text') = WrittenIn(text)
<1> DEFINE W == WrittenIn(text)
           n == Len(text)
<1>0. text' = Append(text, item) /\ text \in Seq(Item)
  BY CountMore DEF ReadsItem
<1>1. text' = Append(text, item) /\ text \in Seq(Item) /\ n \in Nat
  <2>1. Len(text) \in Nat
    BY <1>0, AppendHas, Zenon
  <2> QED
    BY <1>0, <2>1
<1>2. /\ W \in SUBSET (1 .. n)
      /\ WrittenIn(text') = IF item.t = "}" THEN {i \in 1 .. n : text[i].t = "location"} ELSE W
  BY <1>1, WrittenMore
<1>3. WrittenIn(text') = W
  <2>1. CASE item.t = "}"
    <3>1. \A i \in 1 .. n : text[i].t = "location" => i \in W
      BY <2>1 DEF AllComplete
    <3>2. \A i \in W : text[i].t = "location"
      BY DEF WrittenIn
    <3> QED
      BY <1>2, <2>1, <3>1, <3>2
  <2> QED
    BY <1>2, <2>1
<1>4. \A i \in W : LocationAt(text', i) = LocationAt(text, i)
  <2> SUFFICES ASSUME NEW i \in W PROVE LocationAt(text', i) = LocationAt(text, i)
    OBVIOUS
  <2>1. i \in 1 .. Len(text)
    BY <1>2
  <2> QED
    BY <2>1, LocationStays DEF ReadsItem
<1> HIDE DEF W, n
<1>5. ASSUME NEW t \in location_type_t
      PROVE  server'.locations[t] = ListOf(text', OfType(text', W, t))
  <2>1. /\ OfType(text', W, t) = OfType(text, W, t)
        /\ OfType(text, W, t) \in SUBSET (1 .. n)
    BY <1>1, <1>2, OfTypeMore DEF n
  <2>2. \A i \in OfType(text, W, t) : i \in W
    BY DEF OfType
  <2>3. ListOf(text', OfType(text, W, t)) = ListOf(text, OfType(text, W, t))
    <3>1. \A longer : (\A i \in OfType(text, W, t) : LocationAt(longer, i) = LocationAt(text, i))
                        => ListOf(longer, OfType(text, W, t)) = ListOf(text, OfType(text, W, t))
      BY <1>1, <2>1, ListsSame
    <3> QED
      BY <1>4, <2>2, <3>1
  <2>4. server.locations[t] = ListOf(text, OfType(text, W, t))
    BY DEF ListsAgree, W
  <2> QED
    BY <2>1, <2>3, <2>4
<1> QED
  BY <1>3, <1>5 DEF ListsAgree, W

LEMMA AllCompleteMore ==
    ASSUME NEW item \in Item, ReadsItem(item), AllComplete(text),
           item.t # "location", WrittenIn(text') = WrittenIn(text)
    PROVE  AllComplete(text')
<1>1. text' = Append(text, item) /\ text \in Seq(Item)
  BY CountMore DEF ReadsItem
<1>2. /\ Len(text) \in Nat /\ Len(text') = Len(text) + 1 /\ text'[Len(text) + 1] = item
      /\ \A i \in 1 .. Len(text) : text'[i] = text[i]
  BY <1>1, ItemsMore
<1> QED
  BY <1>2, UpToNext DEF AllComplete

(* Items outside of locations.                                             *)
LEMMA OutsideLocations ==
    ASSUME LocationsInv, Read, NEW item \in Item, ReadsItem(item), item.t # "location",
           pc # "parse_location", pc' # "parse_location",
           item.t = "value" => Last(Reading(text).open) # "location",
           server'.locations = server.locations
    PROVE  LocationsInv'
<1>1. ListsAgree(text, server.locations) /\ CountsGrow(text) /\ AllComplete(text)
  BY DEF LocationsInv
<1>2. ListsAgree(text', server'.locations) /\ WrittenIn(text') = WrittenIn(text)
  BY <1>1, ListsStay
<1>3. CountsGrow(text')
  BY <1>1, CountsGoOn
<1>4. AllComplete(text')
  BY <1>1, <1>2, AllCompleteMore
<1> QED
  BY <1>2, <1>3, <1>4 DEF LocationsInv

(* A location begins with what the server's root is then.                  *)
LEMMA LocationBegins ==
    ASSUME LocationsInv, SettingsInv, Read, NEW item \in Item, ReadsItem(item),
           item.t = "location", pc # "parse_location", pc' = "parse_location",
           location' = NewLocation(item.head), UNCHANGED server
    PROVE  LocationsInv'
<1> DEFINE r == Reading(text)
           m == Reading(text')
           p == Len(text) + 1
<1>1. ListsAgree(text, server.locations) /\ CountsGrow(text) /\ AllComplete(text)
  BY DEF LocationsInv
<1>2. ListsAgree(text', server'.locations) /\ WrittenIn(text') = WrittenIn(text)
  BY <1>1, ListsStay
<1>3. CountsGrow(text')
  BY <1>1, CountsGoOn
<1>4. /\ text' = Append(text, item) /\ text \in Seq(Item)
      /\ r.count \in Nat /\ r.given \in Seq(GivenType) /\ m.count = r.count + 1
  BY CountMore DEF ReadsItem, OpensBlock
<1>5. m.given = r.given
  BY GivenMore DEF ReadsItem
<1>6. /\ Len(text) \in Nat /\ Len(text') = p /\ text'[p] = item
      /\ \A i \in 1 .. Len(text) : text'[i] = text[i] /\ ReadUpTo(text', i) = ReadUpTo(text, i)
      /\ ReadUpTo(text', p) = m
  BY <1>4, ItemsMore, ReadUpToMore
<1>7. RootIsGiven(r.given, server)
  BY DEF SettingsInv, Agrees
<1> HIDE DEF r, m
<1>8. /\ ServersRoot(r.given) = server.root
      /\ server.is_root <=> server.root # <<>>
  <2> DEFINE last == LastPlaceOf(r.given, {"server"}, "root")
  <2>1. /\ server.is_root = (last # 0)
        /\ server.root = IF last = 0 THEN <<>> ELSE <<STATICS_FOLDER_PATH, r.given[last].value>>
        /\ ServersRoot(r.given) =
             IF last = 0 THEN <<>> ELSE <<STATICS_FOLDER_PATH, r.given[last].value>>
    BY <1>7 DEF RootIsGiven, ServersRoot
  <2>2. \A v : <<STATICS_FOLDER_PATH, v>> # <<>>
    OBVIOUS
  <2> HIDE DEF last
  <2> QED
    BY <2>1, <2>2
<1>9. \A k \in 1 .. Len(r.given) : r.given[k].number # m.count
  <2>1. \A k \in 1 .. Len(r.given) : r.given[k].number <= r.count
    BY <1>1 DEF CountsGrow, r
  <2>2. \A k \in 1 .. Len(r.given) : r.given[k] \in GivenType
    BY <1>4, AppendHas
  <2>3. \A k \in 1 .. Len(r.given) : r.given[k].number \in Nat
    BY <2>2 DEF GivenType
  <2> QED
    BY <1>4, <2>1, <2>3
<1>a. location'.type = item.head.type /\ location'.state = "S_KEY"
      /\ location'.location = LocationAt(text', p)
  <2>1. WrittenLocation(item.head, m, r.given) =
             [url |-> item.head.url, case_sensitive |-> item.head.case_sensitive,
              root |-> IF ServersRoot(m.given) = <<>> THEN NoRoot ELSE ServersRoot(m.given),
              upstreams |-> <<>>, is_proxy |-> FALSE,
              is_access_log |-> "indeterminate", is_error_log |-> "indeterminate"]
    <3>1. \A read : (\A k \in 1 .. Len(r.given) : r.given[k].number # read.count) =>
            WrittenLocation(item.head, read, r.given) =
             [url |-> item.head.url, case_sensitive |-> item.head.case_sensitive,
              root |-> IF ServersRoot(read.given) = <<>> THEN NoRoot ELSE ServersRoot(read.given),
              upstreams |-> <<>>, is_proxy |-> FALSE,
              is_access_log |-> "indeterminate", is_error_log |-> "indeterminate"]
      BY <1>4, FreshLocation
    <3> QED
      BY <1>9, <3>1
  <2>2. LocationAt(text', p) = WrittenLocation(item.head, m, r.given)
    BY <1>5, <1>6 DEF LocationAt, m
  <2>3. (IF ServersRoot(m.given) = <<>> THEN NoRoot ELSE ServersRoot(m.given)) =
          IF server.is_root THEN server.root ELSE NoRoot
    BY <1>5, <1>8
  <2>4. location'.type = item.head.type /\ location'.state = "S_KEY"
        /\ location'.location =
             [url |-> item.head.url, case_sensitive |-> item.head.case_sensitive,
              root |-> IF server.is_root THEN server.root ELSE NoRoot,
              upstreams |-> <<>>, is_proxy |-> FALSE,
              is_access_log |-> "indeterminate", is_error_log |-> "indeterminate"]
    BY DEF NewLocation
  <2> QED
    BY <2>1, <2>2, <2>3, <2>4
<1>b. \A i \in 1 .. p : text'[i].t = "location" => i = p \/ i \in WrittenIn(text')
  BY <1>1, <1>2, <1>6, UpToNext DEF AllComplete
<1>c. \A i \in WrittenIn(text') : ReadUpTo(text', i).count < m.count
  <2> SUFFICES ASSUME NEW i \in WrittenIn(text) PROVE ReadUpTo(text', i).count < m.count
    BY <1>2
  <2>0. DOMAIN text = 1 .. Len(text)
    BY <1>4
  <2>1. i \in 1 .. Len(text) /\ text[i].t = "location"
    BY <2>0 DEF WrittenIn
  <2>2. ReadUpTo(text, i).count \in Nat /\ ReadUpTo(text, i).count <= r.count
    BY <1>1, <2>1 DEF CountsGrow, r
  <2> QED
    BY <1>4, <1>6, <2>1, <2>2
<1>d. p \in 1 .. p /\ \A j \in p .. p : j = p
  BY <1>6
<1>e. ServersRoot(ReadUpTo(text', p).given) = server'.root
  BY <1>5, <1>6, <1>8
<1> HIDE DEF p
<1>f. Building(text', p, server'.root, location')
  BY <1>6, <1>a, <1>b, <1>c, <1>d, <1>e DEF Building, m
<1>g. p \in 1 .. Len(text')
  BY <1>6, <1>d
<1> QED
  BY <1>2, <1>3, <1>f, <1>g DEF LocationsInv

(* A name, or a value, of the location that is being built.                *)
LEMMA LocationGrows ==
    ASSUME LocationsInv, Read, NEW item \in Item, ReadsItem(item),
           item.t \in {"name", "bare", "value"},
           pc = "parse_location", pc' = "parse_location", UNCHANGED server,
           NEW p \in 1 .. Len(text), Building(text, p, server.root, location),
           location'.type = location.type,
           location'.location = LocationAt(text', p),
           location'.state = "S_VALUE" =>
             location'.property_number =
               get_number_of_property(valid_location_properties, Reading(text').name)
    PROVE  LocationsInv'
<1> DEFINE r == Reading(text)
           m == Reading(text')
           n == Len(text)
<1>1. /\ ListsAgree(text, server.locations) /\ CountsGrow(text)
      /\ text[p].t = "location" /\ \A j \in p .. n : text[j].t # "}"
      /\ \A i \in 1 .. n : text[i].t = "location" => i = p \/ i \in WrittenIn(text)
      /\ ReadUpTo(text, p).count = r.count
      /\ \A i \in WrittenIn(text) : ReadUpTo(text, i).count < r.count
      /\ ServersRoot(ReadUpTo(text, p).given) = server.root
      /\ location.type = text[p].head.type
  BY DEF LocationsInv, Building
<1>2. /\ text' = Append(text, item) /\ text \in Seq(Item) /\ r.count \in Nat /\ m.count = r.count
  BY CountMore DEF ReadsItem, OpensBlock
<1>3. \A i \in WrittenIn(text) : i \in 1 .. n /\ ReadUpTo(text, i).count # r.count
  <2> SUFFICES ASSUME NEW i \in WrittenIn(text)
               PROVE  i \in 1 .. n /\ ReadUpTo(text, i).count # r.count
    OBVIOUS
  <2>1. DOMAIN text = 1 .. n
    BY <1>2
  <2>2. i \in 1 .. n /\ text[i].t = "location"
    BY <2>1 DEF WrittenIn
  <2>3. ReadUpTo(text, i).count \in Nat
    BY <1>1, <2>2 DEF CountsGrow
  <2>4. ReadUpTo(text, i).count < r.count
    BY <1>1
  <2> HIDE DEF r, n
  <2> QED
    BY <1>2, <2>2, <2>3, <2>4
<1>4. ListsAgree(text', server'.locations) /\ WrittenIn(text') = WrittenIn(text)
  BY <1>1, <1>3, ListsStay
<1>5. CountsGrow(text')
  BY <1>1, CountsGoOn
<1>6. /\ n \in Nat /\ Len(text') = n + 1 /\ text'[n + 1] = item
      /\ \A i \in 1 .. n : text'[i] = text[i] /\ ReadUpTo(text', i) = ReadUpTo(text, i)
  BY <1>2, ItemsMore, ReadUpToMore
<1> HIDE DEF r, m, n
<1>7. \A i \in 1 .. n + 1 : text'[i].t = "location" => i = p \/ i \in WrittenIn(text')
  BY <1>1, <1>4, <1>6, UpToNext
<1>8. \A j \in p .. n + 1 : text'[j].t # "}"
  <2>1. \A j \in p .. n + 1 : j = n + 1 \/ (j \in p .. n /\ j \in 1 .. n)
    BY <1>6 DEF n
  <2> QED
    BY <1>1, <1>6, <2>1
<1>9. \A i \in WrittenIn(text') : ReadUpTo(text', i).count < m.count
  BY <1>1, <1>2, <1>3, <1>4, <1>6
<1>a. p \in 1 .. n /\ p \in 1 .. n + 1
  BY <1>6 DEF n
<1>b. Building(text', p, server'.root, location')
  BY <1>1, <1>2, <1>6, <1>7, <1>8, <1>9, <1>a DEF Building, m
<1> QED
  BY <1>4, <1>5, <1>6, <1>a, <1>b DEF LocationsInv

LEMMA LocationKeyWritten ==
    ASSUME ParserInv, NestingInv, LocationsInv, NEW item \in Item, LocationKey(item)
    PROVE  LocationsInv'
<1>1. /\ pc = "parse_location" /\ Read /\ GoOn(item) /\ UNCHANGED <<pc, server>>
      /\ location \in BuildingType
      /\ location' = [location EXCEPT !.state = "S_VALUE",
                        !.property_number = NumberOf(item, valid_location_properties)]
      /\ get_lexem(item, valid_location_properties) = "L_KEY"
  BY DEF LocationKey, InLocation, LocationGoesOn, ParserInv, ParserTyped, Read
<1>2. item.t \in {"name", "bare"}
  BY <1>1, LexemesOfItems
<1>3. ReadsItem(item)
  BY <1>1, <1>2 DEF ReadsItem, GoOn
<1>4. PICK p \in 1 .. Len(text) : Building(text, p, server.root, location)
  BY <1>1 DEF LocationsInv
<1>5. /\ location'.type = location.type /\ location'.location = location.location
      /\ location'.property_number = NumberOf(item, valid_location_properties)
  BY <1>1 DEF BuildingType
<1>6. LocationAt(text', p) = LocationAt(text, p)
  BY <1>2, <1>3, LocationStays DEF ReadsItem
<1>7. location'.location = LocationAt(text', p)
  BY <1>4, <1>5, <1>6 DEF Building
<1>8. NumberOf(item, valid_location_properties) =
        get_number_of_property(valid_location_properties, Reading(text').name)
  <2>1. CASE item.t = "name"
    <3>1. Reading(text').name = item.name
      BY <2>1, <1>3, GivenGrows DEF ReadsItem
    <3> QED
      BY <2>1, <3>1 DEF NumberOf
  <2>2. CASE item.t = "bare"
    <3>1. Reading(text') = ReadOne(Reading(text), item) /\ Reading(text) \in ReadingType
      BY <1>3, CountMore DEF ReadsItem, NestingInv
    <3>2. ReadOne(Reading(text), item) = [Reading(text) EXCEPT !.name = "nothing"]
      BY <2>2, <3>1, ReadOneIs
    <3>3. Reading(text').name = "nothing"
      BY <3>1, <3>2 DEF ReadingType
    <3>4. get_number_of_property(valid_location_properties, "nothing") = -1
      BY LocationNumbers
    <3> QED
      BY <2>2, <3>3, <3>4 DEF NumberOf
  <2> QED
    BY <1>2, <2>1, <2>2
<1> QED
  BY <1>1, <1>2, <1>3, <1>4, <1>5, <1>7, <1>8, LocationGrows

LEMMA LocationValueWritten ==
    ASSUME ParserInv, NestingInv, LocationsInv, NEW item \in Item, LocationValue(item), ~Invalid
    PROVE  LocationsInv'
<1> DEFINE r == Reading(text)
           k == location.property_number
           l == set_location_property(server, k, item.value, location.location)
           g == GivenBy(r, item)
<1>1. /\ pc = "parse_location" /\ Read /\ GoOn(item) /\ UNCHANGED <<pc, server>>
      /\ location \in BuildingType /\ location.state = "S_VALUE"
      /\ location' = [location EXCEPT !.state = "S_KEY", !.location = l]
      /\ get_lexem(item, valid_location_properties) = "L_VALUE"
  BY DEF LocationValue, InLocation, LocationGoesOn, ParserInv, ParserTyped, Read
<1>2. item.t = "value" /\ item.value \in Values
  BY <1>1, LexemesOfItems
<1>3. r.open = <<"http", "server", "location">>
  BY <1>1 DEF NestingInv, OpenAt
<1>4. Last(r.open) = "location" /\ "location" \in OpensBlock
  BY <1>3, InnermostBlock DEF OpensBlock
<1>5. ReadsItem(item)
  BY <1>1, <1>2, <1>4 DEF ReadsItem, GoOn
<1>6. PICK p \in 1 .. Len(text) : Building(text, p, server.root, location)
  BY <1>1 DEF LocationsInv
<1>7. /\ Reading(text').given = Append(r.given, g) /\ g \in GivenType
      /\ g.block = "location" /\ g.number = r.count /\ g.name = r.name /\ g.value = item.value
  BY <1>2, <1>4, <1>5, GivenMore DEF ReadsItem
<1>8. /\ text' = Append(text, item) /\ text \in Seq(Item) /\ r.given \in Seq(GivenType)
  BY <1>5, CountMore DEF ReadsItem
<1>9. ReadUpTo(text', p) = ReadUpTo(text, p) /\ text'[p] = text[p]
  BY <1>8, ItemsMore, ReadUpToMore
<1>a. /\ ReadUpTo(text, p).count = r.count
      /\ ServersRoot(ReadUpTo(text, p).given) = server.root
      /\ location.location = LocationAt(text, p)
      /\ k = get_number_of_property(valid_location_properties, r.name)
  BY <1>1, <1>6 DEF Building
<1> HIDE DEF r, g
<1>b. WrittenLocation(text[p].head, ReadUpTo(text, p), Append(r.given, g)) =
        set_location_property(server, k, g.value,
                              WrittenLocation(text[p].head, ReadUpTo(text, p), r.given))
  BY <1>7, <1>8, <1>a, OwnValueSets
<1>c. l = LocationAt(text', p)
  BY <1>7, <1>9, <1>a, <1>b DEF LocationAt, r
<1> HIDE DEF l, k
<1>d. /\ location'.type = location.type /\ location'.location = l /\ location'.state = "S_KEY"
  BY <1>1 DEF BuildingType
<1> QED
  BY <1>1, <1>2, <1>5, <1>6, <1>c, <1>d, LocationGrows

(* The closing brace puts the location into its list.                      *)
LEMMA LocationEndWritten ==
    ASSUME ParserInv, NestingInv, LocationsInv, NEW item \in Item, LocationEnd(item), ~Invalid
    PROVE  LocationsInv'
<1> DEFINE n == Len(text)
           W == WrittenIn(text)
           lists == server.locations
           type == location.type
<1>1. /\ pc = "parse_location" /\ Read /\ GoOn(item) /\ pc' = "parse_config"
      /\ location \in BuildingType /\ server \in ServerType
      /\ server' = add_location(server, location.type, location.location)
      /\ get_lexem(item, valid_location_properties) = "L_BRACE_CLOSE"
  BY DEF LocationEnd, InLocation, ParserInv, ParserTyped, Read
<1>2. item.t = "}"
  BY <1>1, BlockLexemes
<1>3. ReadsItem(item)
  BY <1>1, <1>2 DEF ReadsItem, GoOn
<1>4. PICK p \in 1 .. n : Building(text, p, server.root, location)
  BY <1>1 DEF LocationsInv
<1>5. /\ text[p].t = "location" /\ \A j \in p .. n : text[j].t # "}"
      /\ \A i \in 1 .. n : text[i].t = "location" => i = p \/ i \in W
      /\ type = text[p].head.type
      /\ location.location = LocationAt(text, p)
  BY <1>4 DEF Building
<1>6. text' = Append(text, item) /\ text \in Seq(Item)
  BY <1>3, CountMore DEF ReadsItem
<1>7. /\ n \in Nat /\ Len(text') = n + 1 /\ text'[n + 1] = item
      /\ \A i \in 1 .. n : text'[i] = text[i]
      /\ DOMAIN text = 1 .. n
  BY <1>6, ItemsMore
<1>8. /\ W \in SUBSET (1 .. n)
      /\ WrittenIn(text') = {i \in 1 .. n : text[i].t = "location"}
  BY <1>2, <1>6, WrittenMore
<1>9. \A i \in W : text[i].t = "location" /\ \E j \in i .. n : text[j].t = "}"
  BY DEF WrittenIn
<1>a. \A i \in 1 .. n : LocationAt(text', i) = LocationAt(text, i)
  BY <1>2, <1>3, LocationStays DEF ReadsItem
<1>b. ListsAgree(text, lists) /\ CountsGrow(text)
  BY <1>1 DEF LocationsInv
<1>c. CountsGrow(text')
  BY <1>3, <1>b, CountsGoOn
<1>d. /\ type \in location_type_t /\ location.location \in LocationType
      /\ lists \in [location_type_t -> Seq(LocationType)]
  BY <1>1 DEF BuildingType, ServerType
<1>e. server'.locations = [lists EXCEPT ![type] = Append(lists[type], location.location)]
  BY <1>1, <1>d DEF add_location, ServerType
<1> HIDE DEF n, W, lists, type
<1>f. p > 0 /\ p \in Nat /\ \A S : S \in SUBSET (1 .. n) /\ (\A i \in S : i < p) => S \in SUBSET (1 .. p - 1)
  BY <1>7
<1>g. \A i \in W : i < p
  <2> SUFFICES ASSUME NEW i \in W PROVE i < p
    OBVIOUS
  <2>1. PICK j \in i .. n : text[j].t = "}"
    BY <1>9
  <2>2. i \in 1 .. n /\ p \in 1 .. n
    BY <1>8
  <2>3. j \notin p .. n
    BY <1>5, <2>1
  <2> QED
    BY <1>7, <2>2, <2>3
<1>h. WrittenIn(text') = W \cup {p}
  BY <1>5, <1>8, <1>9
<1>i. ASSUME NEW t \in location_type_t
      PROVE  server'.locations[t] = ListOf(text', OfType(text', WrittenIn(text'), t))
  <2> DEFINE S == OfType(text, W, t)
  <2>1. S \in SUBSET (1 .. n) /\ (\A i \in S : i < p) /\ lists[t] = ListOf(text, S)
    BY <1>8, <1>b, <1>g DEF OfType, ListsAgree, W
  <2>2. OfType(text', WrittenIn(text'), t) = IF t = type THEN S \cup {p} ELSE S
    <3>1. WrittenIn(text') \in SUBSET (1 .. n)
      BY <1>8
    <3>2. OfType(text', WrittenIn(text'), t) = {i \in W \cup {p} : text[i].head.type = t}
      BY <1>7, <1>h, <3>1 DEF OfType
    <3>3. S = {i \in W : text[i].head.type = t} /\ text[p].head.type = type
      BY <1>5 DEF OfType, type
    <3> HIDE DEF S
    <3> QED
      BY <3>2, <3>3
  <2> HIDE DEF S
  <2>3. ListOf(text', S) = ListOf(text, S)
    <3>1. \A longer : (\A i \in S : LocationAt(longer, i) = LocationAt(text, i))
                        => ListOf(longer, S) = ListOf(text, S)
      BY <1>7, <2>1, ListsSame
    <3> QED
      BY <1>a, <2>1, <3>1
  <2>4. CASE t = type
    <3>1. S \in SUBSET (1 .. p - 1)
      BY <1>f, <2>1
    <3>2. lists[t] \in Seq(LocationType)
      BY <1>d
    <3>3. LocationAt(text', p) = location.location
      BY <1>5, <1>a DEF n
    <3>4. \A items : lists[t] = ListOf(items, S) /\ LocationAt(items, p) \in LocationType =>
            Append(lists[t], LocationAt(items, p)) = ListOf(items, S \cup {p})
      BY <1>f, <3>1, <3>2, ListMore
    <3>5. Append(lists[t], LocationAt(text', p)) = ListOf(text', S \cup {p})
      BY <1>d, <2>1, <2>3, <3>3, <3>4
    <3>6. server'.locations[t] = Append(lists[t], location.location)
      BY <1>d, <1>e, <2>4
    <3> QED
      BY <2>2, <2>4, <3>3, <3>5, <3>6
  <2>5. CASE t # type
    <3>1. server'.locations[t] = lists[t]
      BY <1>d, <1>e, <2>5
    <3> QED
      BY <2>1, <2>2, <2>3, <2>5, <3>1
  <2> QED
    BY <2>4, <2>5
<1>j. AllComplete(text')
  BY <1>2, <1>7, <1>8, UpToNext DEF AllComplete
<1>k. ListsAgree(text', server'.locations)
  BY <1>i DEF ListsAgree
<1> QED
  BY <1>1, <1>c, <1>j, <1>k DEF LocationsInv

(* What setting a value leaves alone.                                      *)
LEMMA ValuesKeepLocations ==
    ASSUME ParserInv, NEW item \in Item, ServerValue(item) \/ MainValue(item), ~Refuse
    PROVE  server'.locations = server.locations
<1>1. {"port", "servername", "access_log_file", "error_log_file", "root", "is_root",
       "locations", "upstreams"} \subseteq DOMAIN server
  BY DEF ParserInv, ParserTyped, ServerType
<1>2. \A k, x : set_property(server, k, x).locations = server.locations
  BY <1>1 DEF set_property
<1>3. CASE ServerValue(item)
  BY <1>2, <1>3 DEF ServerValue
<1>4. CASE MainValue(item)
  BY <1>2, <1>4 DEF MainValue, main_set_property
<1> QED
  BY <1>3, <1>4

LEMMA ConfigLocations ==
    ASSUME ParserInv, NestingInv, SettingsInv, LocationsInv, NEW item \in Item,
           \/ Opening(item) \/ Key(item) \/ ServerValue(item) \/ MainValue(item)
           \/ ServerStart(item) \/ BraceClose(item) \/ UpstreamsStart(item), ~Invalid,
           ServerValue(item) \/ MainValue(item) => ~Refuse
    PROVE  LocationsInv'
<1>1. pc = "parse_config" /\ Read /\ state \in state_t /\ Understood(item)
  BY DEF Opening, Key, ServerValue, MainValue, ServerStart, BraceClose, UpstreamsStart, Lexed,
         GoOn, ParserInv, ParserTyped, Read
<1>2. pc' # "parse_location"
  BY <1>1 DEF Opening, Key, ServerValue, MainValue, ServerStart, BraceClose, UpstreamsStart,
         Return
<1>3. server'.locations = server.locations
  BY ValuesKeepLocations DEF Opening, Key, ServerStart, BraceClose, UpstreamsStart
<1>4. item.t \notin {"word", "location"}
  <2>1. \E l \in {"L_PROTOCOL", "L_BRACE_OPEN", "L_NEW_LINE", "L_SERVER_START", "L_BRACE_CLOSE",
                  "L_UPSTREAM", "L_KEY", "L_VALUE"} : get_lexem(item, valid) = l
    BY DEF Opening, Key, ServerValue, MainValue, ServerStart, BraceClose, UpstreamsStart, Lexed
  <2> QED
    BY <2>1, BlockLexemes, LexemesOfItems
<1>5. item.t = "value" => Last(Reading(text).open) \in OpensBlock \ {"location"}
  <2> SUFFICES ASSUME item.t = "value" PROVE Last(Reading(text).open) \in OpensBlock \ {"location"}
    OBVIOUS
  <2>1. ServerValue(item) \/ MainValue(item)
    <3>1. ~Key(item)
      BY LexemesOfItems DEF Key, Lexed
    <3>2. ~(Opening(item) \/ ServerStart(item) \/ BraceClose(item) \/ UpstreamsStart(item))
      BY BlockLexemes DEF Opening, ServerStart, BraceClose, UpstreamsStart, Lexed
    <3> QED
      BY <3>1, <3>2
  <2>2. stages[<<state, "L_VALUE">>] # "S_ERR"
    BY <2>1 DEF ServerValue, MainValue, Lexed
  <2>3. state = "S_VALUE"
    BY <1>1, <2>2, ValueStates
  <2>4. Reading(text).open \in {<<"http", "server">>, <<"http">>}
    BY <1>1, <2>3 DEF NestingInv, OpenAt
  <2> QED
    BY <2>4, InnermostBlock DEF OpensBlock
<1>6. CASE item.t = "newline"
  <2>1. Opening(item) \/ Key(item)
    <3>1. ~ServerValue(item) /\ ~MainValue(item)
      BY <1>6, LexemesOfItems DEF ServerValue, MainValue, Lexed
    <3>2. ~ServerStart(item) /\ ~BraceClose(item) /\ ~UpstreamsStart(item)
      BY <1>6, BlockLexemes DEF ServerStart, BraceClose, UpstreamsStart, Lexed
    <3> QED
      BY <3>1, <3>2
  <2>2. UNCHANGED <<text, location, server>>
    BY <1>1, <1>6, <2>1 DEF Opening, Key, Understood
  <2> QED
    BY <1>1, <1>2, <2>2, SameText
<1>7. CASE item.t # "newline"
  <2>1. ReadsItem(item)
    BY <1>1, <1>4, <1>5, <1>7 DEF ReadsItem
  <2> QED
    BY <1>1, <1>2, <1>3, <1>4, <1>5, <2>1, OutsideLocations
<1> QED
  BY <1>6, <1>7

LEMMA LocationStartWritten ==
    ASSUME ParserInv, NestingInv, SettingsInv, LocationsInv, NEW item \in Item,
           LocationStart(item), ~Invalid
    PROVE  LocationsInv'
<1>1. /\ pc = "parse_config" /\ pc' = "parse_location" /\ Read /\ Understood(item)
      /\ location' = NewLocation(item.head) /\ UNCHANGED server
  BY DEF LocationStart, Lexed, GoOn, ParserInv, ParserTyped, Read
<1>2. item.t = "location"
  BY BlockLexemes DEF LocationStart, Lexed
<1>3. ReadsItem(item)
  BY <1>1, <1>2 DEF ReadsItem
<1> QED
  BY <1>1, <1>2, <1>3, LocationBegins

LEMMA UpstreamLocations ==
    ASSUME ParserInv, NestingInv, LocationsInv, NEW item \in Item,
           UpstreamEntry(item) \/ UpstreamsNewLine(item) \/ UpstreamsEnd(item), ~Invalid, ~Throw
    PROVE  LocationsInv'
<1>1. /\ pc = "parse_upstreams" /\ Read /\ Understood(item) /\ UNCHANGED location
      /\ pc' \in {"parse_upstreams", "parse_config"} /\ server \in ServerType
  BY DEF UpstreamEntry, UpstreamsNewLine, UpstreamsEnd, GoOn, parserVars, ParserInv, ParserTyped,
         Read
<1>2. item.t \in {"upstream", "newline", "}"}
  BY DEF UpstreamEntry, UpstreamsNewLine, UpstreamsEnd
<1>3. server'.locations = server.locations /\ server'.root = server.root
  <2>1. {"locations", "root", "upstreams"} \subseteq DOMAIN server
    BY <1>1 DEF ServerType
  <2>2. \A a, w, q : /\ add_upstream(server, a, w, q).locations = server.locations
                     /\ add_upstream(server, a, w, q).root = server.root
    BY <2>1 DEF add_upstream
  <2>3. CASE UpstreamEntry(item)
    <3>1. server' = add_upstream(server, item.entry.address, Default(item.entry.weight, 1),
                                 Default(item.entry.port, 80))
      BY <2>3 DEF UpstreamEntry
    <3> QED
      BY <2>2, <3>1, Zenon
  <2>4. CASE UpstreamsNewLine(item) \/ UpstreamsEnd(item)
    BY <2>4 DEF UpstreamsNewLine, UpstreamsEnd
  <2> QED
    BY <2>3, <2>4
<1>4. CASE item.t = "newline"
  <2>1. UNCHANGED text
    BY <1>1, <1>4 DEF Understood
  <2> QED
    BY <1>1, <1>3, <2>1, SameText
<1>5. CASE item.t # "newline"
  <2>1. ReadsItem(item)
    BY <1>1, <1>2, <1>5 DEF ReadsItem
  <2> QED
    BY <1>1, <1>2, <1>3, <2>1, OutsideLocations
<1> QED
  BY <1>4, <1>5

LEMMA NextKeepsLocationsInv ==
    ParserInv /\ NestingInv /\ SettingsInv /\ LocationsInv /\ [Next]_vars => LocationsInv'
<1> SUFFICES ASSUME ParserInv, NestingInv, SettingsInv, LocationsInv, [Next]_vars
             PROVE  LocationsInv'
  OBVIOUS
<1>1. CASE UNCHANGED vars
  <2>1. UNCHANGED <<text, location, server, pc, result>>
    BY <1>1 DEF vars, parserVars
  <2> QED
    BY <2>1 DEF LocationsInv, Read
<1>2. CASE Next
  <2>1. PICK item \in Item :
          \/ Unexpected(item) \/ Opening(item) \/ Key(item)
          \/ ServerValue(item) \/ MainValue(item)
          \/ ServerStart(item) \/ BraceClose(item)
          \/ LocationStart(item) \/ UpstreamsStart(item)
          \/ LocationUnexpected(item) \/ LocationNewLine(item)
          \/ LocationKey(item) \/ LocationValue(item) \/ LocationEnd(item)
          \/ UpstreamEntry(item) \/ UpstreamsNewLine(item)
          \/ UpstreamsEnd(item) \/ UpstreamsUnexpected(item)
    BY <1>2 DEF Next
  <2>2. Unexpected(item) \/ LocationUnexpected(item) \/ UpstreamsUnexpected(item) => Invalid
    BY DEF Unexpected, LocationUnexpected, UpstreamsUnexpected
  <2>3. Invalid \/ Throw => UNCHANGED text
    BY DEF Invalid, Throw
  <2>4. CASE Invalid \/ Throw
    BY <2>3, <2>4, LocationsEnd
  <2>5. CASE Refuse /\ (ServerValue(item) \/ MainValue(item))
    <3>1. pc = "parse_config" /\ Read
      BY <2>5 DEF ServerValue, MainValue, Lexed, ParserInv, ParserTyped, Read
    <3>2. UNCHANGED <<text, location, server>> /\ pc' = "done"
      BY <2>5 DEF Refuse, Return
    <3> QED
      BY <3>1, <3>2, SameText
  <2>6. CASE LocationNewLine(item)
    <3>1. item.t = "newline"
      BY <2>6, BlockLexemes DEF LocationNewLine, InLocation
    <3>2. Read /\ UNCHANGED <<text, location, server, pc>>
      BY <2>6, <3>1 DEF LocationNewLine, InLocation, LocationGoesOn, GoOn, Understood, ParserInv,
         ParserTyped, Read
    <3> QED
      BY <3>2, SameText
  <2> QED
    BY <2>1, <2>2, <2>4, <2>5, <2>6, ConfigLocations, LocationStartWritten,
       LocationKeyWritten, LocationValueWritten, LocationEndWritten, UpstreamLocations
<1> QED
  BY <1>1, <1>2

(* The four lists hold the complete locations of the file in their order,  *)
(* each as it is written there: the last root, and the last setting of     *)
(* each log, it names itself, the upstreams it names in their order, and   *)
(* the server's root of the time of its opening where it names none or     *)
(* adds to it.                                                             *)
THEOREM LocationsCorrect == Spec => []LocationsAreAsWritten
<1>1. LocationsInv => LocationsAreAsWritten
  BY DEF LocationsInv, ListsAgree, ListOf, LocationAt, ReadUpTo, OfType, WrittenIn,
         LocationsAreAsWritten, WrittenAs, Written
<1> QED
  BY <1>1, InitParserInv, InitNestingInv, InitSettingsInv, InitLocationsInv, NextKeepsParserInv,
     NextKeepsNestingInv, NextKeepsSettingsInv, NextKeepsLocationsInv, PTL DEF Spec
=============================================================================
