------------------------------ MODULE Monitor ------------------------------
(***************************************************************************)
(* capture.rs: the loop that reads frames, counts them, and says something   *)
(* every report_every seconds.                                              *)
(*                                                                          *)
(* One thread runs it, over the state of Counters, Relays and Alarm.  Only   *)
(* two of its calls wait: rx.next(), for at most READ_TIMEOUT, and the       *)
(* sends.  So time passes in ReadWaits and in Send and nowhere else, and the *)
(* clock counts whole seconds (a second is two reads that time out).         *)
(*                                                                          *)
(* Frames reach the capture socket whatever the loop is doing, and are lost  *)
(* when it has no room.  `wire` is its buffer; `spoke` remembers when each    *)
(* interface really sent its last request, and `reached` when it sent the    *)
(* last that the socket took.  The program learns of a request by reading it. *)
(* The clock may be set back; `back` is by how much, so that clock + back is *)
(* the time that has really passed, which the program has no way to learn.   *)
(***************************************************************************)
EXTENDS Integers, Sequences, FiniteSets

CONSTANTS
  Gi, NoGi, Xid, NoXid, Never, Unsaid,
  Frames,        \* what packet::read makes of the frames: [kind, flow, gi, xid]
  Flows,         \* the flows of those frames
  Window,        \* cfg.window
  ReportEvery,   \* cfg.report_every.max(1)
  Allowed,       \* cfg.per_relay.idle_seconds: gi-address -> seconds
  MinRequests, Enough, ResendAfter,
  Receivers,     \* cfg.snmp.targets in order, then cfg.mail() if there is one
  Adaptations,   \* whether there are --adaptation runs, or others, or both
  AdaptFor,      \* the deadline of an adaptation run, in seconds
  RunFor,        \* the deadline of any other run, or Never
  PendingFor, SweepEvery, MaxPending,
  MaxBlock,      \* the most seconds one send waits for a resolver or a relay
  Backlog,       \* frames the socket has room for
  MaxPackets,    \* bound: frames the socket takes in a behaviour
  LastArrival,   \* bound: the last second a frame arrives in
  MaxClock,      \* bound: the last second of a behaviour
  MaxBack        \* bound: how far the clock is set back, all told

ASSUME MonitorAssumption ==
  /\ Frames \subseteq [kind : {"ClientRequest", "ServerReply", "TftpRequest", "TftpReply"},
                       flow : Flows, gi : Gi \cup {NoGi}, xid : Xid \cup {NoXid}]
  /\ ReportEvery \in Nat \ {0}
  /\ Allowed \in [Gi -> Nat]
  /\ Adaptations \subseteq BOOLEAN
  /\ AdaptFor \in Nat
  /\ RunFor \in Nat \cup {Never}
  /\ Receivers \in Seq({Receivers[i] : i \in DOMAIN Receivers})
  /\ MaxBlock \in Nat /\ MaxBack \in Nat

VARIABLES
  adaptation,                               \* the parameter of run; it never changes
  clock, back,                              \* the machine's clock, and its error
  held,                                     \* how long the sends have waited
  wire, spoke, reached,                     \* the capture socket and the plant
  rows, pending, sweptMs,                   \* Relays
  buckets, flows, total, answer, listed,    \* Counters, and w and flows of report
  last, judged,                             \* Repeats, and state of report
  pc,                                       \* where the loop is
  nextReport,                               \* next_report
  unsent,                                   \* receivers this report has yet to try
  outcome,                                  \* how each of the others fared
  given                                     \* what each was last sent without an error

time == <<clock, back, held>>
plant == <<wire, spoke, reached>>
relays == <<rows, pending, sweptMs>>
counts == <<buckets, flows, total>>
said == <<answer, listed, last, judged>>
outbox == <<unsent, outcome, given>>
vars == <<adaptation, time, plant, relays, counts, said, pc, nextReport, outbox>>

Kinds == {"ClientRequest", "ServerReply", "TftpRequest", "TftpReply"}
Everyone == {Receivers[i] : i \in DOMAIN Receivers}
Began == 1

R == INSTANCE Relays WITH Second <- 1, MaxStep <- 1
C == INSTANCE Counters WITH now <- clock, MaxTime <- MaxClock, MaxStep <- 1
A == INSTANCE Alarm WITH now <- clock, MaxNow <- MaxClock

\* What the parts assume of their constants.
ASSUME PartsAssumption ==
  /\ R!RelaysAssumption /\ C!CountersAssumption
  /\ A!JudgementAssumption /\ A!AlarmAssumption

Nothing == [r \in {} |-> "ok"]

Init ==
  /\ adaptation \in Adaptations
  /\ clock = Began /\ back = 0 /\ held = 0
  /\ wire = <<>>
  /\ spoke = [g \in Gi |-> Never] /\ reached = spoke
  /\ R!InitStore
  /\ C!InitStore
  /\ answer = C!NoCounts /\ listed = <<>>
  /\ last = Unsaid /\ judged = [state |-> "Working", when |-> 0]
  /\ pc = "read"
  /\ nextReport = Began + ReportEvery
  /\ unsent = <<>> /\ outcome = Nothing
  /\ given = [r \in Everyone |-> "Working"]

(***************************************************************************)
(* The plant: a frame reaches the socket while the loop waits or sends, or   *)
(* is lost because those the loop has not read leave no room for it.         *)
(***************************************************************************)
Noted(times, f) ==
  IF f.kind = "ClientRequest" /\ f.gi # NoGi
  THEN [times EXCEPT ![f.gi] = clock + back] ELSE times

FrameComes(f) ==
  /\ pc \in {"read", "sending"}
  /\ clock + back <= LastArrival
  /\ spoke' = Noted(spoke, f)
  /\ UNCHANGED <<adaptation, time, relays, counts, said, pc, nextReport, outbox>>

Arrive(f) ==
  /\ FrameComes(f)
  /\ Len(wire) < Backlog
  /\ R!PacketsSeen + Len(wire) < MaxPackets
  /\ wire' = Append(wire, f)
  /\ reached' = Noted(reached, f)

Overflow(f) ==
  /\ FrameComes(f)
  /\ Len(wire) = Backlog
  /\ UNCHANGED <<wire, reached>>

\* Somebody, or a time server, sets the clock back.
SetBack ==
  /\ pc \in {"read", "sending"}
  /\ \E d \in 1 .. MaxBack - back :
       clock - d >= Began /\ clock' = clock - d /\ back' = back + d
  /\ UNCHANGED <<adaptation, held, plant, relays, counts, said, pc, nextReport, outbox>>

(***************************************************************************)
(* The top of the loop: the deadline, then rx.next().                       *)
(***************************************************************************)
Deadline == IF adaptation THEN AdaptFor ELSE RunFor

\* Slip: the deadline counted from the last report.
PastDeadlineSinceReport ==
  Deadline # Never /\ clock - (nextReport - ReportEvery) >= Deadline

PastDeadline == Deadline # Never /\ clock - Began >= Deadline

Stop ==
  /\ pc = "read" /\ PastDeadline
  /\ pc' = "done"
  /\ UNCHANGED <<adaptation, time, plant, relays, counts, said, nextReport, outbox>>

\* One frame, counted twice over: by flow and by interface.
\* Slip: what carries no gi-address left out of the rows.
CountRelayedOnly(f) ==
  /\ C!Add(f.kind, f.flow)
  /\ IF f.gi = NoGi THEN UNCHANGED relays
     ELSE IF f.kind = "ClientRequest" THEN R!Request(f.gi, f.xid)
                                      ELSE R!Reply(f.gi, f.xid)

Count(f) ==
  /\ C!Add(f.kind, f.flow)
  /\ CASE f.kind = "ClientRequest" -> R!Request(f.gi, f.xid)
       [] f.kind = "ServerReply" -> R!Reply(f.gi, f.xid)
       [] f.kind = "TftpRequest" -> R!TftpRequest
       [] f.kind = "TftpReply" -> R!TftpSend

ReadFrame ==
  /\ pc = "read" /\ ~PastDeadline
  /\ wire # <<>>
  /\ Count(Head(wire))
  /\ wire' = Tail(wire)
  /\ pc' = "due"
  /\ UNCHANGED <<adaptation, time, spoke, reached, said, nextReport, outbox>>

\* The read times out or fails, or returns frames packet::read has no use for,
\* until the second is over.  At the bound the clock stays where it is.
\* Slip: no READ_TIMEOUT, so that the loop waits for traffic.
ReadWaitsForTraffic ==
  /\ pc = "read" /\ ~PastDeadline
  /\ wire = <<>>
  /\ clock' = IF clock < MaxClock THEN clock + 1 ELSE clock
  /\ UNCHANGED <<adaptation, back, held, plant, relays, counts, said, pc, nextReport, outbox>>

ReadWaits ==
  /\ pc = "read" /\ ~PastDeadline
  /\ wire = <<>>
  /\ clock' = IF clock < MaxClock THEN clock + 1 ELSE clock
  /\ pc' = "due"
  /\ UNCHANGED <<adaptation, back, held, plant, relays, counts, said, nextReport, outbox>>

(***************************************************************************)
(* The end of an iteration: is a report due?                                *)
(***************************************************************************)
NotDue ==
  /\ pc = "due" /\ clock < nextReport
  /\ pc' = "read"
  /\ UNCHANGED <<adaptation, time, plant, relays, counts, said, nextReport, outbox>>

\* judge_each
Verdict(g) == A!JudgeRelay(rows[g].requests, rows[g].replies, R!IdleFor(g), Allowed[g])
Verdicts == {Verdict(g) : g \in R!Each}

\* should_tell, and the messages it leads to.  With nobody to tell, Repeats is
\* not consulted.
\* Slip: only trouble passed to should_send.
TellTroubleOnly(state) ==
  IF Receivers = <<>> \/ ~A!IsTrouble(state)
  THEN /\ judged' = [state |-> state, when |-> clock]
       /\ pc' = "read" /\ UNCHANGED <<last, outbox>>
  ELSE /\ A!ShouldSend(state)
       /\ IF A!Due(state)
          THEN /\ pc' = "sending" /\ unsent' = Receivers /\ outcome' = Nothing
               /\ UNCHANGED given
          ELSE pc' = "read" /\ UNCHANGED outbox

Tell(state) ==
  IF Receivers = <<>>
  THEN /\ judged' = [state |-> state, when |-> clock]
       /\ pc' = "read" /\ UNCHANGED <<last, outbox>>
  ELSE /\ A!ShouldSend(state)
       /\ IF A!Due(state)
          THEN /\ pc' = "sending" /\ unsent' = Receivers /\ outcome' = Nothing
               /\ UNCHANGED given
          ELSE pc' = "read" /\ UNCHANGED outbox

\* report, or progress on an adaptation run.
Report ==
  /\ pc = "due" /\ clock >= nextReport
  /\ nextReport' = clock + ReportEvery
  /\ C!ReadWindow
  /\ IF adaptation
     THEN pc' = "read" /\ UNCHANGED <<listed, last, judged, outbox>>
     ELSE C!ByFlow /\ Tell(A!Worst(Verdicts))
  /\ UNCHANGED <<adaptation, time, plant, relays>>

\* One trap or the mail: it may wait and it may fail, and a failure is only
\* logged.
Tried(result) ==
  [r \in DOMAIN outcome \cup {Head(unsent)} |->
     IF r = Head(unsent) THEN result ELSE outcome[r]]
GivenIf(result) ==
  IF result = "ok" THEN [given EXCEPT ![Head(unsent)] = judged.state] ELSE given

\* Slip: giving up at the first failure.
SentUntilFailure(result) ==
  LET left == IF result = "failed" THEN <<>> ELSE Tail(unsent)
  IN  /\ outcome' = Tried(result) /\ given' = GivenIf(result) /\ unsent' = left
      /\ pc' = IF left = <<>> THEN "read" ELSE "sending"

Sent(result) ==
  /\ outcome' = Tried(result)
  /\ given' = GivenIf(result)
  /\ unsent' = Tail(unsent)
  /\ pc' = IF Tail(unsent) = <<>> THEN "read" ELSE "sending"

Send ==
  /\ pc = "sending"
  /\ \E result \in {"ok", "failed"} : Sent(result)
  /\ \E d \in 0 .. MaxBlock :
       clock + d <= MaxClock /\ clock' = clock + d /\ held' = held + d
  /\ UNCHANGED <<adaptation, back, plant, relays, counts, said, nextReport>>

Loop == Stop \/ ReadFrame \/ ReadWaits \/ NotDue \/ Report \/ Send

Next == (\E f \in Frames : Arrive(f) \/ Overflow(f)) \/ SetBack \/ Loop

\* The loop is a thread of its own, and every call it makes returns: the reads
\* after READ_TIMEOUT, the sends when the resolver or the relay gives up.
Spec == Init /\ [][Next]_vars /\ WF_vars(Loop)

-----------------------------------------------------------------------------
(***************************************************************************)
(* Properties                                                               *)
(***************************************************************************)

SilentFor(g) == clock + back - spoke[g]
TellsSomebody == Receivers # <<>> /\ ~adaptation

\* The last message failed at receiver r.
Failed(r) == r \in DOMAIN outcome /\ outcome[r] = "failed"

\* `state` is what was last decided on, and every receiver has been sent it but
\* one whose send failed.
PassedOn(state) ==
  /\ A!Decided = state
  /\ \A r \in Everyone : given[r] = state \/ Failed(r)

\* An interface that stops sending is told about in time: by the time it has
\* been silent for what it is allowed and one report interval more, every
\* receiver has been sent the news that the plant is quiet, but for those whose
\* send failed (capture.rs:154-199, 263-316).  The whole chain has to work for
\* it: the read that comes back empty, the report that falls due without
\* traffic, the row that is kept, the judgement, the memory of what was said and
\* the sends.  Two things delay it: a clock that is set back, the report that
\* falls due included, and sends that wait, in which nothing is read and no
\* report is made; and never by more than the one and the other together.  One
\* thing prevents it: that not one request of the interface reached the socket.
SilenceToldInTime ==
  \A g \in Gi :
    TellsSomebody /\ pc = "read" /\ reached[g] # Never
      /\ SilentFor(g) >= Allowed[g] + ReportEvery + back + held
      => PassedOn("Quiet")

\* A step that makes a report.
Reports == nextReport' # nextReport

\* A request of g is in the socket and the loop has not read it.
Unread(g) == \E i \in DOMAIN wire : wire[i].kind = "ClientRequest" /\ wire[i].gi = g

\* What g sent last is not known to the loop: it waits in the socket since a
\* send has waited, or the socket had no room for it.
Hidden(g) == (held > 0 /\ Unread(g)) \/ spoke[g] # reached[g]

\* The plant is reported quiet only when some interface has in truth sent
\* nothing for longer than it is allowed (README.md:34-35), or when what it sent
\* is hidden; and always when it has for longer than that and what the clock and
\* the sends may hide: never hidden by another interface's state, and never
\* because of the clock.
QuietIsTrue ==
  [][ Reports /\ ~adaptation =>
        /\ judged'.state = "Quiet" =>
             \E g \in Gi : /\ reached[g] # Never
                           /\ SilentFor(g) > Allowed[g] \/ Hidden(g)
        /\ (\E g \in Gi : reached[g] # Never /\ SilentFor(g) > Allowed[g] + back + held) =>
             judged'.state = "Quiet" ]_vars

\* A clock that goes back makes seconds happen twice and leaves buckets that are
\* ahead of it, out of order (counters.rs:129-137).  The window still costs no
\* more than one bucket for each of its seconds and for each second that was
\* repeated; the one the clock was set back from may be split as well.
WindowStaysSmall == Len(buckets) <= Window + 2 * back

\* Whatever a report finds, every receiver knows it, or its turn is still to
\* come, or the send to it has failed (capture.rs:263-316): nobody is left with
\* an older state, recovery from trouble included, by a report that saw no need
\* to speak, by another's failure or by a send that waited.
ReadersAreCurrent ==
  TellsSomebody =>
    \A r \in Everyone :
      \/ given[r] = judged.state
      \/ \E i \in DOMAIN unsent : unsent[i] = r
      \/ Failed(r)

\* One receiver's failure never costs another its message (capture.rs:287-316):
\* when the loop returns to reading, each was tried since the last message was
\* decided on.  And nobody is on an adaptation run: "This raises no alarms"
\* (main.rs:91), and it does not use up the memory of what was said.
EveryReceiverTried ==
  /\ pc = "read" /\ last # Unsaid =>
       DOMAIN outcome = Everyone
  /\ adaptation => last = Unsaid /\ unsent = <<>> /\ outcome = Nothing

\* The two counts of one frame agree (capture.rs:166-184): the totals since
\* start-up that end the log are what the interface rows add up to, and no
\* window holds more than the total.
RowSum(field) == C!SumFunction([g \in DOMAIN rows |-> rows[g][field]])
CountsAgree ==
  /\ total["ClientRequest"] = RowSum("requests")
  /\ total["ServerReply"] = RowSum("replies")
  /\ total["TftpRequest"] = RowSum("tftpRequests")
  /\ total["TftpReply"] = RowSum("tftpSends")
  /\ \A k \in Kinds : answer[k] <= total[k]

\* Silence is always passed on in the end: a report decides to tell of it, and
\* every receiver is tried with it, however long the sends wait.  One whose send
\* fails is the only one that is not sent it.
SilenceIsTold ==
  \A g \in Gi : (TellsSomebody /\ reached[g] # Never) ~> PassedOn("Quiet")

\* A run with a deadline ends, without traffic and with a backlog alike.
RunEnds == (Deadline # Never) ~> (pc = "done")

\* "A judgement is made over the last `window` seconds" (counters.rs:4): when
\* the window holds enough requests to judge and not one reply, the plant is
\* not reported working.
OutageInWindowIsJudged ==
  [][ Reports /\ ~adaptation =>
        (answer'["ClientRequest"] >= MinRequests /\ answer'["ServerReply"] = 0
           => judged'.state # "Working") ]_vars

\* "A failed send is logged with the subject, [...] and the next window tries
\* again" (README.md:136-138; email.rs:25-26): when nobody received the last message
\* and the next report finds the same state, it is sent again.
FailedSendTriesAgain ==
  [][ Reports /\ TellsSomebody /\ last # Unsaid /\ judged'.state = last.state
        /\ (\A r \in DOMAIN outcome : outcome[r] = "failed")
        => pc' = "sending" ]_vars
=============================================================================
