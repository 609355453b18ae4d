--------------------------- MODULE MCHttpExchange ---------------------------
(***************************************************************************)
(* A small server for HttpExchange: its locations and files, and the lines *)
(* of its clients and of its upstream.  An url is spelt out in characters. *)
(***************************************************************************)
EXTENDS HttpExchange

Place(type, case_sensitive, url) ==
  [type |-> type,
   location |-> [url |-> url, case_sensitive |-> case_sensitive, root |-> <<"static">>,
                 upstreams |-> <<>>, is_proxy |-> FALSE]]

Proxied == <<"/", "p">>

ProxyPlace == [Place("EXACT_MATCH", TRUE, Proxied)
                 EXCEPT !.location.is_proxy = TRUE, !.location.upstreams = <<"ip">>]

MCListed ==
  {Place("EXACT_MATCH", TRUE, <<"/", "a">>),
   Place("PREFERENTIAL_PREFIX", TRUE, <<"/", "A">>),
   Place("PREFERENTIAL_PREFIX", TRUE, <<"/">>),
   Place("REGEX_MATCH", FALSE, <<"/", ".">>),
   Place("REGEX_MATCH", TRUE, <<"/", "[">>),
   Place("PREFIX_MATCH", FALSE, <<"/", "a">>),
   Place("PREFIX_MATCH", TRUE, <<"/">>), ProxyPlace}

MCSpelling == [ip |-> <<10, Dot, 0, Dot, 0, Dot, 1>>]
MCBadPatterns == {<<"/", "[">>}
MCUrls == {<<"/">>, <<"/", "a">>, <<"/", "A">>, <<"/", "a", "b">>}

Known == <<"/", "a", ".", "c">>
Unknown == <<"/", "a", ".", "x">>
Plain == <<"/", "d", ".", "x", "/", "a">>
Nowhere == <<"q">>
Root == <<"/">>     \* a directory, whose size is a size

Config == <<Place("PREFIX_MATCH", TRUE, <<"/">>), ProxyPlace>>

MCConfigs == {Config}

At(url) == <<"static">> \o url

MCFileSystems ==
  {(At(Known) :> 2) @@ (At(Unknown) :> 1) @@ (At(Plain) :> 3) @@ (At(Root) :> 9),
   (At(Known) :> 4) @@ (At(Plain) :> 3), At(Unknown) :> 1}

MCtypes == {<<"c">>}
MCLowerCase == [Host |-> "host", A |-> "a", B |-> "b"] @@ ("Content-Length" :> "content-length")

Request(method, url, version) ==
  [t |-> "request", method |-> method, url |-> url, version |-> version]

Header(name, value) == [t |-> "header", name |-> name, value |-> value]

MCLines ==
  {Request("GET", Known, "1.1"), Request("HEAD", Unknown, "1.0"), Request("GET", Plain, "1.1"),
   Request("GET", Proxied, "1.1"), Request("POST", Proxied, "1.1"),
   Request("GET", Root, "1.1"), Request("POST", Known, "1.1"), Request("GET", Known, "2.0"), Request("GET", Nowhere, "1.1"),
   [t |-> "unversioned", method |-> "GET", url |-> Known], [t |-> "one_space", method |-> "GET"],
   Header("Host", "A"), Header("Host", "B"), Header("Content-Length", "1"),
   [t |-> "word"], [t |-> "blank"], [t |-> "short"], [t |-> "lone"]}

MCReplies ==
  {[t |-> "status", status |-> 404, message |-> <<"not", "found">>],
   Header("Host", "A"), Header("host", "B"), Header("Content-Length", "1"),
   [t |-> "word"], [t |-> "blank"], [t |-> "lone"]}
=============================================================================
