------------------------------ MODULE Service ------------------------------
(***************************************************************************)
(* What an operator who lets every command settle sees of the server,      *)
(* without processes, forks, flags or signals: generations of workers, of  *)
(* which the pid file names one.  A reload opens the next generation       *)
(* before it closes the one before; there are never more than two, and it  *)
(* is over when the new one serves alone.  Only a stop leaves nobody.      *)
(***************************************************************************)
EXTENDS Naturals

CONSTANTS
    Generations,    \* numbers, in the order in which generations may open
    Nobody          \* named when there is no server

VARIABLES
    asked,          \* the command that is being carried out
    serving,        \* the generations that accept connections
    named           \* the generation the next command goes to

vars == <<asked, serving, named>>

Init ==
    /\ asked = "nothing"
    /\ serving = {}
    /\ named = Nobody

(* The operator asks a server that has settled.                            *)
Ask ==
    /\ asked = "nothing"
    /\ named # Nobody /\ serving = {named}
    /\ asked' \in {"reload", "stop"}
    /\ UNCHANGED <<serving, named>>

(* A first generation of a server that is down, or the successor of one.   *)
Open(g) ==
    /\ g \notin serving
    /\ \/ named = Nobody /\ serving = {} /\ asked = "nothing"
       \/ g > named /\ serving = {named} /\ asked = "reload"
    /\ serving' = serving \cup {g}
    /\ UNCHANGED <<asked, named>>

(* Commands go to the new generation from here on.                         *)
Name(g) ==
    /\ g \in serving /\ g # named
    /\ \/ named = Nobody /\ UNCHANGED asked
       \/ named \in serving /\ asked = "reload" /\ asked' = "replace"
    /\ named' = g
    /\ UNCHANGED serving

(* A generation ends because a later one is there, or there shall be none. *)
Close(g) ==
    /\ g \in serving
    /\ \/ asked = "replace" /\ g # named
       \/ asked = "stop"
    /\ serving' = serving \ {g}
    /\ UNCHANGED <<asked, named>>

ReloadDone ==
    /\ asked = "replace" /\ serving = {named}
    /\ asked' = "nothing"
    /\ UNCHANGED <<serving, named>>

StopDone ==
    /\ asked = "stop" /\ serving = {}
    /\ asked' = "nothing" /\ named' = Nobody
    /\ UNCHANGED serving

Next ==
    \/ Ask \/ ReloadDone \/ StopDone
    \/ \E g \in Generations : Open(g) \/ Name(g) \/ Close(g)

Spec == Init /\ [][Next]_vars
=============================================================================
