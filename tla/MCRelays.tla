------------------------------ MODULE MCRelays ------------------------------
(* Small plants for Relays. *)
EXTENDS Relays, TLC

\* Interfaces and transaction ids are interchangeable.
MCSymmetry == Permutations(Gi) \cup Permutations(Xid)
=============================================================================
