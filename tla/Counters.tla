------------------------------ MODULE Counters ------------------------------
(***************************************************************************)
(* counters.rs: what has been seen lately, and where it was going.          *)
(*                                                                          *)
(* A vector of one-second buckets, a map of flows and the totals since      *)
(* start-up.  Nothing forgets on its own: expire runs at the head of add,   *)
(* window and by_flow, and between two of them stale buckets stay put.      *)
(*                                                                          *)
(* `now` is the machine's clock in seconds and belongs to the environment;  *)
(* the component only reads it.  A flow is a number, so that the derived    *)
(* order on Flow is <.                                                      *)
(***************************************************************************)
EXTENDS Integers, SequencesExt

CONSTANTS
  Kinds,       \* packet::Kind, or the part of it a model counts
  Flows,       \* the (source, destination, gi-address) triples on the wire
  Window,      \* cfg.window, after Counters::new has raised it to at least 1
  MaxTime,     \* bound: the last second of a behaviour
  MaxStep,     \* bound: the most seconds that pass at once
  MaxPackets   \* bound: the most packets of one kind

ASSUME CountersAssumption ==
  /\ IsFiniteSet(Kinds) /\ Flows \subseteq Nat
  /\ Window \in Nat \ {0}
  /\ MaxTime \in Nat \ {0} /\ MaxStep \in Nat /\ MaxPackets \in Nat

VARIABLES
  now,         \* the clock, in seconds
  buckets,     \* Counters.buckets: a sequence of [at, counts]
  flows,       \* Counters.flows: flow -> [counts, last]
  total,       \* Counters.total
  answer,      \* the Window the last call of window() returned
  listed       \* the flows the last call of by_flow() returned, in order

store == <<buckets, flows, total>>
vars == <<now, buckets, flows, total, answer, listed>>

NoCounts == [k \in Kinds |-> 0]
One(k) == [NoCounts EXCEPT ![k] = 1]

(***************************************************************************)
(* Counters::expire                                                         *)
(***************************************************************************)
Cutoff == IF now > Window THEN now - Window ELSE 0

\* Slips: the second at the cutoff kept; only the buckets expired.
BucketsKeptAtCutoff == SelectSeq(buckets, LAMBDA b : b.at >= Cutoff)
FlowsNeverExpired == flows

KeptUpTo[n \in 0 .. Len(buckets)] ==
  IF n = 0 THEN <<>>
  ELSE IF buckets[n].at > Cutoff THEN Append(KeptUpTo[n - 1], buckets[n])
                                 ELSE KeptUpTo[n - 1]
KeptBuckets == KeptUpTo[Len(buckets)]
KeptFlows == [f \in {g \in DOMAIN flows : flows[g].last > Cutoff} |-> flows[f]]

(***************************************************************************)
(* Counters::add                                                            *)
(***************************************************************************)
\* Slip: the second's bucket looked for at the latest second counted, where a
\* clock that was set back does not find it.
CountedAtLatest(bs, k) ==
  IF bs # <<>> /\ Last(bs).at = now /\ \A i \in DOMAIN bs : bs[i].at <= now
  THEN [bs EXCEPT ![Len(bs)].counts[k] = @ + 1]
  ELSE Append(bs, [at |-> now, counts |-> One(k)])

CountedIn(bs, k) ==
  IF bs # <<>> /\ Last(bs).at = now
  THEN [bs EXCEPT ![Len(bs)].counts[k] = @ + 1]
  ELSE Append(bs, [at |-> now, counts |-> One(k)])

\* Slips: a flow stamped when it is made and never again; stamped with the
\* clock rounded up.
FlowWith(fs, k, f, last) ==
  [g \in DOMAIN fs \cup {f} |->
     IF g # f THEN fs[g]
     ELSE [counts |-> IF f \in DOMAIN fs THEN [fs[f].counts EXCEPT ![k] = @ + 1]
                                         ELSE One(k),
           last |-> last]]
StampedOnlyWhenNew(fs, k, f) ==
  FlowWith(fs, k, f, IF f \in DOMAIN fs THEN fs[f].last ELSE now)
StampedAhead(fs, k, f) == FlowWith(fs, k, f, now + 1)

OnFlow(fs, k, f) ==
  LET before == IF f \in DOMAIN fs THEN fs[f].counts ELSE NoCounts
  IN  [g \in DOMAIN fs \cup {f} |->
         IF g = f THEN [counts |-> [before EXCEPT ![k] = @ + 1], last |-> now]
                  ELSE fs[g]]

Add(k, f) ==
  /\ buckets' = CountedIn(KeptBuckets, k)
  /\ flows' = OnFlow(KeptFlows, k, f)
  /\ total' = [total EXCEPT ![k] = @ + 1]

Expire ==
  /\ buckets' = KeptBuckets
  /\ flows' = KeptFlows
  /\ UNCHANGED total

(***************************************************************************)
(* Counters::window and Counters::by_flow                                   *)
(***************************************************************************)
SumOf(bs, k) == SumFunction([i \in DOMAIN bs |-> bs[i].counts[k]])

ReadWindow ==
  /\ Expire
  /\ answer' = [k \in Kinds |-> SumOf(KeptBuckets, k)]

FlowTotal(f) == SumFunction(flows[f].counts)
BusierFirst(f, g) ==
  FlowTotal(f) > FlowTotal(g) \/ (FlowTotal(f) = FlowTotal(g) /\ f < g)

ByFlow ==
  /\ Expire
  /\ LET kept == DOMAIN KeptFlows IN
     \E order \in [1 .. Cardinality(kept) -> kept] :
       /\ \A i, j \in DOMAIN order : i < j => BusierFirst(order[i], order[j])
       /\ listed' = order

(***************************************************************************)
(* The component with its clock.                                            *)
(***************************************************************************)
InitStore ==
  /\ buckets = <<>>
  /\ flows = [f \in {} |-> 0]
  /\ total = NoCounts

Init ==
  /\ now = 1
  /\ InitStore
  /\ answer = NoCounts
  /\ listed = <<>>

Packet ==
  \E k \in Kinds, f \in Flows :
    /\ total[k] < MaxPackets
    /\ Add(k, f)
    /\ UNCHANGED <<now, answer, listed>>

Tick ==
  /\ \E d \in 1 .. MaxStep : now + d <= MaxTime /\ now' = now + d
  /\ UNCHANGED <<buckets, flows, total, answer, listed>>

AskCounts == ReadWindow /\ UNCHANGED <<now, listed>>
AskFlows == ByFlow /\ UNCHANGED <<now, answer>>

Next == Packet \/ Tick \/ AskCounts \/ AskFlows

Spec == Init /\ [][Next]_vars

-----------------------------------------------------------------------------
(***************************************************************************)
(* Properties                                                               *)
(***************************************************************************)

\* Every variable has its shape, and no bucket or flow is stamped later than
\* the clock (counters.rs:26-73).
TypeOK ==
  /\ now \in 1 .. MaxTime
  /\ buckets \in Seq([at : 1 .. now, counts : [Kinds -> Nat]])
  /\ DOMAIN flows \subseteq Flows
  /\ \A f \in DOMAIN flows : flows[f] \in [counts : [Kinds -> Nat], last : 1 .. now]
  /\ total \in [Kinds -> Nat]
  /\ answer \in [Kinds -> Nat]
  /\ listed \in Seq(Flows)

\* The memory the window costs does not depend on the traffic: however many
\* packets arrive, and however long it is since anything expired, there is at
\* most one bucket per second of the window ("a list that grows with traffic
\* is a monitor that eventually becomes the outage", counters.rs:9-11).
OneBucketPerSecond ==
  /\ Len(buckets) <= Window
  /\ \A i, j \in DOMAIN buckets : i < j => buckets[i].at < buckets[j].at

\* The two structures add and expire maintain side by side agree: every flow
\* kept was last heard in a second whose bucket is kept, and every packet the
\* buckets hold is also held by some flow that is kept, so that the list of
\* flows under a report accounts for all of the counts above it.
FlowsAccountForWindow ==
  /\ \A f \in DOMAIN flows : \E i \in DOMAIN buckets :
       /\ buckets[i].at = flows[f].last
       /\ \E k \in Kinds : buckets[i].counts[k] > 0 /\ flows[f].counts[k] > 0
  /\ \A k \in Kinds :
       SumOf(buckets, k)
         <= SumFunction([f \in DOMAIN flows |-> flows[f].counts[k]])

(***************************************************************************)
(* The refinement: a bucket a seconds old holds what SlidingWindow remembers *)
(* of a seconds ago, and what is stale but not yet expired is nothing.      *)
(***************************************************************************)
SecondsAgo(k, a) ==
  SumFunctionOnSet([i \in DOMAIN buckets |-> buckets[i].counts[k]],
                   {i \in DOMAIN buckets : buckets[i].at + a = now})

SW == INSTANCE SlidingWindow WITH
        recent <- [k \in Kinds |-> [a \in 0 .. Window - 1 |-> SecondsAgo(k, a)]],
        quietFor <- [f \in Flows |->
                       IF f \in DOMAIN flows /\ now - flows[f].last < Window
                       THEN now - flows[f].last ELSE Window],
        listed <- ToSet(listed)

\* Counters implements SlidingWindow: what window() returns is exactly the
\* packets of the last Window seconds, and what by_flow() returns is exactly
\* the flows heard in them, although expiry is lazy (counters.rs:146-173).
WindowIsExact == SW!Spec
=============================================================================
