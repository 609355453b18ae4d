-------------------------- MODULE MCWorkerProcess --------------------------
(***************************************************************************)
(* WorkerProcess for TLC: workers are interchangeable, and so are clients. *)
(***************************************************************************)
EXTENDS WorkerProcess, TLC

Symmetry == Permutations(Workers) \union Permutations(Clients)
=============================================================================
