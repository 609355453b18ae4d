--------------------------- MODULE MCConfigParser ---------------------------
(***************************************************************************)
(* Small files for ConfigParser: what its values are made of, the heads of *)
(* locations and the upstreams that may stand in them.                     *)
(***************************************************************************)
EXTENDS ConfigParser

MCSpelling ==
  [n8080 |-> <<8080>>, on |-> <<Letter>>,
   ip |-> <<10, Dot, 0, Dot, 0, Dot, 1>>,
   three |-> <<10, Dot, 0, Dot, 0>>,
   four_and_stop |-> <<10, Dot, 0, Dot, 0, Dot>>,
   beyond |-> <<10, Dot, 0, Dot, 0, Dot, 256>>,
   five |-> <<10, Dot, 0, Dot, 0, Dot, 1, Dot, 5>>,
   huge |-> <<10, Dot, Huge>>,
   host |-> <<Letter, Dot, Letter>>]

Head1(type, case_sensitive, url) ==
  [malformed |-> FALSE, type |-> type, case_sensitive |-> case_sensitive, url |-> url]

MCHeads ==
  {Head1("EXACT_MATCH", TRUE, <<"/", "a">>), Head1("PREFIX_MATCH", FALSE, <<"/">>),
   [malformed |-> TRUE]}

Upstream(address, weight, port) ==
  [address |-> address, weight |-> weight, port |-> port, form |-> "plain"]

MCEntries ==
  {Upstream(a, -1, -1) : a \in DOMAIN MCSpelling \ {"on", "n8080", "three", "five", "host"}}
  \union {Upstream("ip", 2, 8080),
          [Upstream("host", -1, -1) EXCEPT !.form = "malformed"],
          [Upstream("host", -1, -1) EXCEPT !.form = "no_number"]}

MCBadPatterns == {<<"/", "[">>}

MCUrls == {<<"/">>, <<"/", "a">>, <<"/", "A">>, <<"/", "a", "b">>}
=============================================================================
