--------------------------- MODULE SlidingWindow ---------------------------
(***************************************************************************)
(* What counters.rs promises, with nothing of how it keeps the promise: a   *)
(* count of each kind of packet and a list of flows over the last Window    *)
(* seconds, where time is an age.  Every second the specification holds the *)
(* packets of the last Window seconds exactly; Counters, which forgets      *)
(* lazily and keeps one bucket per busy second, is checked to implement it. *)
(***************************************************************************)
EXTENDS Naturals, Functions

CONSTANTS
  Kinds,     \* the kinds of packet that are told apart
  Flows,     \* who may be talking to whom
  Window     \* how many seconds are remembered, at least 1

VARIABLES
  recent,    \* recent[k][a]: packets of kind k seen exactly a seconds ago
  quietFor,  \* quietFor[f]: seconds since flow f spoke; Window when forgotten
  answer,    \* the counts last handed to a caller
  listed     \* the flows last handed to a caller

vars == <<recent, quietFor, answer, listed>>

Ages == 0 .. Window - 1

TypeOK ==
  /\ recent \in [Kinds -> [Ages -> Nat]]
  /\ quietFor \in [Flows -> 0 .. Window]
  /\ answer \in [Kinds -> Nat]
  /\ listed \subseteq Flows

Init ==
  /\ recent = [k \in Kinds |-> [a \in Ages |-> 0]]
  /\ quietFor = [f \in Flows |-> Window]
  /\ answer = [k \in Kinds |-> 0]
  /\ listed = {}

Packet(k, f) ==
  /\ recent' = [recent EXCEPT ![k][0] = @ + 1]
  /\ quietFor' = [quietFor EXCEPT ![f] = 0]
  /\ UNCHANGED <<answer, listed>>

\* Time passes: every packet is d seconds older, and those that reach Window
\* seconds are gone.
Pass(d) ==
  /\ recent' = [k \in Kinds |-> [a \in Ages |->
                  IF a >= d THEN recent[k][a - d] ELSE 0]]
  /\ quietFor' = [f \in Flows |->
                  IF quietFor[f] + d < Window THEN quietFor[f] + d ELSE Window]
  /\ UNCHANGED <<answer, listed>>

AskCounts ==
  /\ answer' = [k \in Kinds |-> SumFunction(recent[k])]
  /\ UNCHANGED <<recent, quietFor, listed>>

AskFlows ==
  /\ listed' = {f \in Flows : quietFor[f] < Window}
  /\ UNCHANGED <<recent, quietFor, answer>>

Next ==
  \/ \E k \in Kinds, f \in Flows : Packet(k, f)
  \/ \E d \in 1 .. Window : Pass(d)
  \/ AskCounts
  \/ AskFlows

Spec == Init /\ [][Next]_vars
=============================================================================
