----------------------------- MODULE Judgement -----------------------------
(***************************************************************************)
(* alarm.rs: judging one interface, and the plant by its worst interface.    *)
(*                                                                          *)
(* The ratio of two counts against min_answered is compared in integers,     *)
(* min_answered being the fraction Enough[1] / Enough[2].                    *)
(***************************************************************************)
EXTENDS Integers

CONSTANTS
  Never,        \* None: no request has ever come from an interface
  MinRequests,  \* the requests a ratio is judged on (5, alarm.rs:58)
  Enough        \* min_answered, as <<numerator, denominator>>

ASSUME JudgementAssumption ==
  /\ Never \notin Nat
  /\ MinRequests \in Nat
  /\ Enough \in Nat \X (Nat \ {0}) /\ Enough[1] <= Enough[2]

States == {"Working", "Quiet", "Unanswered"}
IsTrouble(state) == state # "Working"

(***************************************************************************)
(* judge_relay and answered: one interface, on its own terms.               *)
(***************************************************************************)
TooFewAnswered(requests, replies) ==
  requests > 0 /\ replies * Enough[2] < Enough[1] * requests

\* Slips: quiet a second early; a quiet interface judged on its ratio first;
\* nothing judged on few requests, silence included.
JudgeRelayEarly(requests, replies, idleFor, allowed) ==
  IF idleFor = Never THEN "Working"
  ELSE IF idleFor >= allowed THEN "Quiet"
  ELSE IF requests >= MinRequests /\ TooFewAnswered(requests, replies)
       THEN "Unanswered"
  ELSE "Working"
JudgeRelayRatioFirst(requests, replies, idleFor, allowed) ==
  IF requests >= MinRequests /\ TooFewAnswered(requests, replies) THEN "Unanswered"
  ELSE IF idleFor # Never /\ idleFor > allowed THEN "Quiet" ELSE "Working"
JudgeRelayNeedsMany(requests, replies, idleFor, allowed) ==
  IF idleFor = Never \/ requests < MinRequests THEN "Working"
  ELSE IF idleFor > allowed THEN "Quiet"
  ELSE IF TooFewAnswered(requests, replies) THEN "Unanswered" ELSE "Working"

JudgeRelay(requests, replies, idleFor, allowed) ==
  IF idleFor = Never THEN "Working"
  ELSE IF idleFor > allowed THEN "Quiet"
  ELSE IF requests >= MinRequests /\ TooFewAnswered(requests, replies)
       THEN "Unanswered"
  ELSE "Working"

(***************************************************************************)
(* worst: the plant's state is that of its worst interface.                 *)
(***************************************************************************)
Worst(states) ==
  IF "Quiet" \in states THEN "Quiet"
  ELSE IF "Unanswered" \in states THEN "Unanswered"
  ELSE "Working"
=============================================================================
