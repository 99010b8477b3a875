------------------------------- MODULE Relays -------------------------------
(***************************************************************************)
(* relays.rs: what each relay interface is doing, and how well it is being  *)
(* answered.                                                                *)
(*                                                                          *)
(* One row per gi-address, made the first time the address is seen and      *)
(* never removed, one row for everything without a gi-address (the source   *)
(* keeps it in a field of its own, here it is rows[NoGi]), and the table    *)
(* of requests awaiting an answer, keyed by transaction id alone.           *)
(*                                                                          *)
(* `clock` is the machine's clock in milliseconds.  It belongs to the       *)
(* environment, and it is SystemTime: it may be set back.                   *)
(***************************************************************************)
EXTENDS Integers, FiniteSets, FiniteSetsExt

CONSTANTS
  Gi,            \* the gi-addresses on the plant
  NoGi,          \* a packet with no gi-address; also the unrelayed row
  Xid,           \* transaction ids
  NoXid,         \* a packet too short to carry one
  Never,         \* None, of last_request and last_reply
  Second,        \* milliseconds in a second (1000)
  PendingFor,    \* PENDING_FOR_MS (30 000)
  SweepEvery,    \* SWEEP_EVERY_MS (1 000)
  MaxPending,    \* MAX_PENDING (50 000)
  MaxClock,      \* bound: the last millisecond of a behaviour
  MaxStep,       \* bound: the most milliseconds that pass at once
  MaxPackets     \* bound: the most packets of a behaviour

ASSUME RelaysAssumption ==
  /\ NoGi \notin Gi
  /\ NoXid \notin Xid
  /\ Never \notin Nat
  /\ Second \in Nat \ {0}
  /\ PendingFor \in Nat \ {0}
  /\ SweepEvery \in Nat
  /\ MaxPending \in Nat
  /\ MaxClock \in Nat
  /\ MaxStep \in Nat
  /\ MaxPackets \in Nat

VARIABLES
  clock,         \* the machine's clock, in milliseconds
  rows,          \* Relays.by_gi and Relays.unrelayed: gi-address -> Relay
  pending,       \* Relays.pending: transaction id -> [atMs, gi]
  sweptMs        \* Relays.swept_ms

vars == <<clock, rows, pending, sweptMs>>

Now == clock \div Second

\* u64::saturating_sub and Ord::max
Less(a, b) == IF a > b THEN a - b ELSE 0
Larger(a, b) == IF a > b THEN a ELSE b

\* BTreeMap::insert
With(map, key, value) ==
  [k \in DOMAIN map \cup {key} |-> IF k = key THEN value ELSE map[k]]

Relay ==
  [requests : Nat, replies : Nat, tftpRequests : Nat, tftpSends : Nat,
   lastRequest : Nat \cup {Never}, lastReply : Nat \cup {Never},
   firstSeen : Nat, longestGap : Nat,
   answered : Nat, answerMsTotal : Nat, answerMsWorst : Nat]

Blank ==
  [requests |-> 0, replies |-> 0, tftpRequests |-> 0, tftpSends |-> 0,
   lastRequest |-> Never, lastReply |-> Never,
   firstSeen |-> 0, longestGap |-> 0,
   answered |-> 0, answerMsTotal |-> 0, answerMsWorst |-> 0]

\* Relays::each: the rows that are judged and reported on.
Each == DOMAIN rows \ {NoGi}

\* Relay::idle_for
IdleFor(gi) ==
  IF rows[gi].lastRequest = Never THEN Never
                                  ELSE Less(Now, rows[gi].lastRequest)

(***************************************************************************)
(* Relays::entry: the row, stamped if this is the first time it is used.    *)
(***************************************************************************)
Entry(gi) ==
  CASE gi \notin DOMAIN rows -> [Blank EXCEPT !.firstSeen = Now]
    [] gi = NoGi /\ rows[gi].firstSeen = 0 -> [rows[gi] EXCEPT !.firstSeen = Now]
    [] OTHER -> rows[gi]

(***************************************************************************)
(* Relays::expire_pending: at most once per SweepEvery.                     *)
(***************************************************************************)
SweepDue == Less(clock, sweptMs) >= SweepEvery

\* Slips: what is exactly PendingFor old kept; a sweep that is only stamped.
UnexpiredAtCutoff == {x \in DOMAIN pending : pending[x].atMs >= Less(clock, PendingFor)}
KeptAll == DOMAIN pending

Unexpired == {x \in DOMAIN pending : pending[x].atMs > Less(clock, PendingFor)}
Kept == IF SweepDue THEN Unexpired ELSE DOMAIN pending
Swept == [x \in Kept |-> pending[x]]

(***************************************************************************)
(* Relays::request.  A retry replaces what was remembered of the first      *)
(* attempt; at a full table it is not remembered at all.                    *)
(***************************************************************************)
\* Slip: the latest gap for the longest.
AskingLatestGap(r) ==
  [r EXCEPT !.requests = @ + 1,
            !.longestGap = IF r.lastRequest = Never THEN @ ELSE Less(Now, r.lastRequest),
            !.lastRequest = Now]

Asking(r) ==
  [r EXCEPT !.requests = @ + 1,
            !.longestGap = IF r.lastRequest = Never THEN @
                           ELSE Larger(@, Less(Now, r.lastRequest)),
            !.lastRequest = Now]

\* Slip: one too many at the limit.
AwaitPastLimit(gi, x) ==
  IF Cardinality(Kept) <= MaxPending
  THEN With(Swept, x, [atMs |-> clock, gi |-> gi])
  ELSE Swept

Await(gi, x) ==
  IF Cardinality(Kept) < MaxPending
  THEN With(Swept, x, [atMs |-> clock, gi |-> gi])
  ELSE Swept

\* Slip: a request with no transaction id remembered too.
RequestAlwaysAwaited(gi, x) ==
  /\ rows' = With(rows, gi, Asking(Entry(gi)))
  /\ pending' = Await(gi, x)
  /\ sweptMs' = IF SweepDue THEN clock ELSE sweptMs

Request(gi, x) ==
  /\ rows' = With(rows, gi, Asking(Entry(gi)))
  /\ IF x = NoXid
     THEN UNCHANGED <<pending, sweptMs>>
     ELSE /\ pending' = Await(gi, x)
          /\ sweptMs' = IF SweepDue THEN clock ELSE sweptMs

(***************************************************************************)
(* Relays::reply.  The answer belongs to the interface that asked, when one *)
(* is known, and to the reply's own gi-address otherwise.                   *)
(***************************************************************************)
Owner(gi, x) ==
  IF x \in DOMAIN pending /\ pending[x].gi # NoGi THEN pending[x].gi ELSE gi

Replied(r) == [r EXCEPT !.replies = @ + 1, !.lastReply = Now]

\* Slip: the latest answer for the worst.
TimedLatest(r, took) ==
  [r EXCEPT !.answered = @ + 1, !.answerMsTotal = @ + took, !.answerMsWorst = took]

Timed(r, took) ==
  [r EXCEPT !.answered = @ + 1,
            !.answerMsTotal = @ + took,
            !.answerMsWorst = Larger(@, took)]

\* Slip: the request looked up and not removed.
ReplyStillAwaited(gi, x) ==
  LET owner == Owner(gi, x)
      row == Replied(Entry(owner))
  IN  /\ IF x \in DOMAIN pending
         THEN rows' = With(rows, owner, Timed(row, Less(clock, pending[x].atMs)))
         ELSE rows' = With(rows, owner, row)
      /\ UNCHANGED <<pending, sweptMs>>

Reply(gi, x) ==
  LET owner == Owner(gi, x)
      row == Replied(Entry(owner))
  IN  /\ IF x \in DOMAIN pending
         THEN rows' = With(rows, owner, Timed(row, Less(clock, pending[x].atMs)))
         ELSE rows' = With(rows, owner, row)
      /\ pending' = [y \in DOMAIN pending \ {x} |-> pending[y]]
      /\ UNCHANGED sweptMs

(***************************************************************************)
(* Relays::tftp_request and Relays::tftp_send                               *)
(***************************************************************************)
TftpRequest ==
  /\ rows' = With(rows, NoGi, [Entry(NoGi) EXCEPT !.tftpRequests = @ + 1])
  /\ UNCHANGED <<pending, sweptMs>>

TftpSend ==
  /\ rows' = With(rows, NoGi, [Entry(NoGi) EXCEPT !.tftpSends = @ + 1])
  /\ UNCHANGED <<pending, sweptMs>>

(***************************************************************************)
(* The component with its clock and the plant around it.  The bounds are    *)
(* here, not in the operations.  A reply may carry any gi-address and any   *)
(* transaction id: duplicates, late answers and collisions included.        *)
(***************************************************************************)
InitStore ==
  /\ rows = [g \in {NoGi} |-> Blank]
  /\ pending = [x \in {} |-> Blank]
  /\ sweptMs = 0

Init == clock = Second /\ InitStore

PacketsSeen ==
  MapThenSumSet(LAMBDA gi : rows[gi].requests + rows[gi].replies
                              + rows[gi].tftpRequests + rows[gi].tftpSends,
                DOMAIN rows)

Asked ==
  \E gi \in Gi \cup {NoGi}, x \in Xid \cup {NoXid} :
    PacketsSeen < MaxPackets /\ Request(gi, x) /\ UNCHANGED clock

Answered ==
  \E gi \in Gi \cup {NoGi}, x \in Xid \cup {NoXid} :
    PacketsSeen < MaxPackets /\ Reply(gi, x) /\ UNCHANGED clock

Tftp ==
  PacketsSeen < MaxPackets /\ (TftpRequest \/ TftpSend) /\ UNCHANGED clock

Tick ==
  /\ \E d \in 1 .. MaxStep : clock + d <= MaxClock /\ clock' = clock + d
  /\ UNCHANGED <<rows, pending, sweptMs>>

\* The clock is set back: an NTP step, or somebody with a date command.
SetBack ==
  /\ \E t \in Second .. MaxClock : t < clock /\ clock' = t
  /\ UNCHANGED <<rows, pending, sweptMs>>

Steady == Asked \/ Answered \/ Tftp \/ Tick
Next == Steady \/ SetBack

\* Any clock, and a clock that is never set back.
Spec == Init /\ [][Next]_vars
SteadySpec == Init /\ [][Steady]_vars

-----------------------------------------------------------------------------
(***************************************************************************)
(* Properties                                                               *)
(***************************************************************************)

\* Every variable has its shape: the unrelayed row always exists, and only
\* requests with a transaction id are remembered (relays.rs:46-123).
TypeOK ==
  /\ clock \in Nat
  /\ sweptMs \in Nat
  /\ NoGi \in DOMAIN rows
  /\ DOMAIN rows \subseteq Gi \cup {NoGi}
  /\ rows \in [DOMAIN rows -> Relay]
  /\ DOMAIN pending \subseteq Xid
  /\ pending \in [DOMAIN pending -> [atMs : Nat, gi : Gi \cup {NoGi}]]

\* However many requests go unanswered, and whatever the clock does to the
\* sweep (a clock set back stops the sweeping until it has caught up), no more
\* than MAX_PENDING are remembered (relays.rs:38-43, 137).
PendingBounded ==
  /\ IsFiniteSet(DOMAIN pending)
  /\ Cardinality(DOMAIN pending) <= MaxPending

\* Requests the interface gi, or a client with no relay, is still waiting on.
WaitingFor(gis) == {x \in DOMAIN pending : pending[x].gi \in gis}

AnsweredOf(gi) == IF gi \in DOMAIN rows THEN rows[gi].answered ELSE 0
RequestsOf(gi) == IF gi \in DOMAIN rows THEN rows[gi].requests ELSE 0

\* One request is answered at most once, whatever replies arrive: duplicated,
\* with another relay's gi-address, or with a transaction id two relays share
\* (relays.rs:148-165).  Clients with no relay never get more answers than they
\* asked for, and an interface never gets more than it and they asked for,
\* counting what is still awaited; "and they" because the answer to an
\* unrelayed request is filed under the gi-address the reply carries.
AnswersEarned ==
  /\ AnsweredOf(NoGi) + Cardinality(WaitingFor({NoGi})) <= RequestsOf(NoGi)
  /\ \A gi \in Gi :
       AnsweredOf(gi) + AnsweredOf(NoGi) + Cardinality(WaitingFor({gi, NoGi}))
         <= RequestsOf(gi) + RequestsOf(NoGi)

\* The answer times printed for an interface are consistent with each other
\* (relays.rs:74-77, 159-164): the mean never exceeds the worst, the worst is
\* part of the total, and nothing is timed that is not also counted as a reply.
TimesOf(r) ==
  /\ r.answered <= r.replies
  /\ r.answerMsWorst <= r.answerMsTotal
  /\ r.answerMsTotal <= r.answered * r.answerMsWorst

TimesAddUp == \A gi \in DOMAIN rows : TimesOf(rows[gi])

\* The longest silence is one the interface really had (relays.rs:130-133):
\* it fits between the first packet and the last request, and when every packet
\* of the row was a request the silences, none longer, add up to the whole span.
GapFitsSpan ==
  \A gi \in DOMAIN rows :
    LET r == rows[gi] IN
    IF r.lastRequest = Never
    THEN r.longestGap = 0
    ELSE /\ r.longestGap <= r.lastRequest - r.firstSeen
         /\ gi # NoGi /\ r.replies = 0 =>
              r.lastRequest - r.firstSeen <= r.longestGap * (r.requests - 1)

\* What is remembered was fresh when the table was last swept, so a request can
\* be remembered longer than PENDING_FOR_MS only by the time since that sweep
\* (relays.rs:196-203).
PendingFresh ==
  \A x \in DOMAIN pending :
    /\ pending[x].atMs <= clock
    /\ pending[x].atMs > sweptMs - PendingFor

\* No answer is timed at PENDING_FOR_MS or more beyond the time since the last
\* sweep: that is all the lazy sweep can add to an answer time.
AnswerTimesBounded ==
  [][ \A gi \in DOMAIN rows :
        rows'[gi].answerMsWorst # rows[gi].answerMsWorst
          => rows'[gi].answerMsWorst < PendingFor + (clock - sweptMs) ]_vars

\* "A reply arriving half a minute late answered a request nobody is waiting on
\* any more" (relays.rs:346, and 30-36): no answer takes longer than
\* PENDING_FOR_MS, give or take the second between two sweeps.
LateAnswersAreNotTimed ==
  \A gi \in DOMAIN rows : rows[gi].answerMsWorst <= PendingFor + SweepEvery
=============================================================================
