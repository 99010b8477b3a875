----------------------------- MODULE MCExchange -----------------------------
(***************************************************************************)
(* Two modems: one behind a relay that asks once, one without a relay.      *)
(***************************************************************************)
EXTENDS Exchange, TLC

CONSTANTS m1, m2, g1

MCWay == (m1 :> "relayed4") @@ (m2 :> "direct6")
MCInterface == [m \in Modems |-> g1]

\* A trunk, a wholesale hand-off, and extension headers.
MCWrappings == {[tags |-> 0, extensions |-> 0], [tags |-> 2, extensions |-> 8]}
=============================================================================
