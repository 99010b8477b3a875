----------------------------- MODULE MCCounters -----------------------------
(* A small plant for Counters: two kinds of packet and two flows.  *)
EXTENDS Counters

MCFlows == {1, 2}
=============================================================================
