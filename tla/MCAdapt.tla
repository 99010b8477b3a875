------------------------------ MODULE MCAdapt ------------------------------
(* A small plant for Adapt, and for Relays under a steady clock. *)
EXTENDS Adapt, TLC

\* Transaction ids are interchangeable.
MCSymmetry == Permutations(Xid)

MCEnough == <<3, 4>>
=============================================================================
