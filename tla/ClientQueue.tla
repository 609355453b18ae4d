---------------------------- MODULE ClientQueue ----------------------------
(***************************************************************************)
(* What the workers together promise a client, without epoll, batches,     *)
(* flags or stages: clients wait in one queue, a running worker takes the  *)
(* one that has waited longest, that worker alone settles it, once, and a  *)
(* worker that ends drops all the clients it holds at the same moment.     *)
(***************************************************************************)
EXTENDS Naturals, Sequences

CONSTANTS
  Workers, Clients,
  Nobody,         \* the holder of a client no worker has taken
  Results         \* how a worker may settle a client

VARIABLES
  waiting,        \* clients not taken yet, oldest first
  holder,         \* the worker that took a client
  result,         \* how a client was settled, "none" before, "reset" if its worker ended
  running         \* is a worker alive?

vars == <<waiting, holder, result, running>>

Waits(c) == \E i \in 1 .. Len(waiting) : waiting[i] = c

Holds(w, c) == holder[c] = w /\ result[c] = "none"

Init ==
  /\ waiting = <<>>
  /\ holder = [c \in Clients |-> Nobody]
  /\ result = [c \in Clients |-> "none"]
  /\ running = [w \in Workers |-> TRUE]

Arrive(c) ==
  /\ holder[c] = Nobody /\ ~Waits(c)
  /\ waiting' = Append(waiting, c)
  /\ UNCHANGED <<holder, result, running>>

Take(w) ==
  /\ running[w]
  /\ waiting # <<>>
  /\ holder' = [holder EXCEPT ![Head(waiting)] = w]
  /\ waiting' = Tail(waiting)
  /\ UNCHANGED <<result, running>>

Settle(w, c) ==
  /\ running[w]
  /\ Holds(w, c)
  /\ \E r \in Results : result' = [result EXCEPT ![c] = r]
  /\ UNCHANGED <<waiting, holder, running>>

End(w) ==
  /\ running[w]
  /\ running' = [running EXCEPT ![w] = FALSE]
  /\ result' = [c \in Clients |-> IF Holds(w, c) THEN "reset" ELSE result[c]]
  /\ UNCHANGED <<waiting, holder>>

Next ==
  \/ \E c \in Clients : Arrive(c)
  \/ \E w \in Workers : Take(w) \/ End(w) \/ \E c \in Clients : Settle(w, c)

Spec == Init /\ [][Next]_vars
=============================================================================
