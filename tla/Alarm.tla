------------------------------- MODULE Alarm -------------------------------
(***************************************************************************)
(* alarm.rs: deciding whether what was counted is trouble, and whether it    *)
(* has been said already.                                                   *)
(*                                                                          *)
(* The judgements are the operators of Judgement; Repeats, the memory of     *)
(* what was said, is the state.                                             *)
(***************************************************************************)
EXTENDS Judgement

CONSTANTS
  ResendAfter,  \* cfg.thresholds.resend_after
  Unsaid,       \* None, of Repeats.last
  MaxNow        \* bound: the last second of the clock

ASSUME AlarmAssumption ==
  /\ ResendAfter \in Nat
  /\ Unsaid \notin [state : {"Working", "Quiet", "Unanswered"}, when : Nat]
  /\ MaxNow \in Nat

-----------------------------------------------------------------------------
VARIABLES
  now,      \* the machine's clock in seconds, which may be set back
  last,     \* Repeats.last: Unsaid, or what was said and when
  judged    \* the last call of should_send: the state passed, and when

vars == <<now, last, judged>>

(***************************************************************************)
(* Repeats::should_send.  Remembering happens here, before anything is sent  *)
(* and whatever becomes of the sending.                                     *)
(***************************************************************************)
\* ResendAfter has passed since something was last said.
Rested ==
  last # Unsaid /\ (IF now > last.when THEN now - last.when ELSE 0) >= ResendAfter

\* Slips: a change held back by resend_after; recovery repeated; a reminder a
\* second late.
DueOnlyWhenRested(state) ==
  (last = Unsaid /\ IsTrouble(state)) \/ (Rested /\ (IsTrouble(state) \/ last.state # state))
DueRepeatsRecovery(state) ==
  (last = Unsaid /\ IsTrouble(state)) \/ (last # Unsaid /\ last.state # state) \/ Rested
DueLate(state) ==
  \/ last = Unsaid /\ IsTrouble(state)
  \/ last # Unsaid /\ last.state # state
  \/ Rested /\ IsTrouble(state) /\ now - last.when # ResendAfter

Due(state) ==
  \/ last = Unsaid /\ IsTrouble(state)
  \/ last # Unsaid /\ last.state # state
  \/ Rested /\ last.state = state /\ IsTrouble(state)

\* Slip: back-dated, so that the first reminder comes at once.
ShouldSendBackDated(state) ==
  /\ last' = IF Due(state) THEN [state |-> state, when |-> now - ResendAfter] ELSE last
  /\ judged' = [state |-> state, when |-> now]

ShouldSend(state) ==
  /\ last' = IF Due(state) THEN [state |-> state, when |-> now] ELSE last
  /\ judged' = [state |-> state, when |-> now]

Init ==
  /\ now \in 0 .. MaxNow
  /\ last = Unsaid
  /\ judged = [state |-> "Working", when |-> 0]

Judgement == \E state \in States : ShouldSend(state) /\ UNCHANGED now

Clock ==
  /\ \E t \in 0 .. MaxNow : now' = t
  /\ UNCHANGED <<last, judged>>

Next == Judgement \/ Clock

Spec == Init /\ [][Next]_vars

-----------------------------------------------------------------------------
(***************************************************************************)
(* Properties                                                               *)
(***************************************************************************)

\* Every variable has its shape (alarm.rs:80-113).
TypeOK ==
  /\ now \in Nat
  /\ last \in {Unsaid} \cup [state : States, when : Nat]
  /\ judged \in [state : States, when : Nat]

\* What was last decided to say of the plant; before anything, that it works.
Decided == IF last = Unsaid THEN "Working" ELSE last.state

\* What is decided is never out of date at a judgement: what was last said, or
\* "working" when nothing has been, is what was last judged (alarm.rs:121-136),
\* however quickly states follow one another and however the clock moves.
DecisionIsCurrent == Decided = judged.state

\* Saying the same again is for trouble that has lasted: a repeat follows the
\* message before it by at least resend_after (alarm.rs:107-108), and recovery
\* is said once.
RepeatsAreSpaced ==
  [][ last # Unsaid /\ last' # last /\ last'.state = last.state
        => /\ IsTrouble(last.state)
           /\ last'.when >= last.when + ResendAfter \/ ResendAfter = 0 ]_vars

Reader == INSTANCE Bulletin WITH
  Working <- "Working", Interval <- ResendAfter,
  time <- now, believed <- Decided,
  toldAt <- IF last = Unsaid THEN 0 ELSE last.when

\* Repeats implements Bulletin for a reader who is sent all that it decides to
\* say: having said nothing yet is the same as having said that the plant works.
ReaderIsTold == Reader!Spec

\* At least as bad.
NoBetter(a, b) == Worst({a, b}) = a

\* The judgement of an interface moves the way its inputs do (alarm.rs:46-66):
\* more silence or more requests never make it better, more replies never make
\* it worse, and a laxer threshold never makes it worse either.  No interface
\* has been silent for longer than the clock has run.
JudgementIsMonotone ==
  \A requests, replies, allowed, more \in 0 .. MaxNow, idle \in 0 .. now :
    LET verdict == JudgeRelay(requests, replies, idle, allowed) IN
    /\ NoBetter(JudgeRelay(requests + more, replies, idle, allowed), verdict)
    /\ NoBetter(JudgeRelay(requests, replies, idle + more, allowed), verdict)
    /\ NoBetter(verdict, JudgeRelay(requests, replies + more, idle, allowed))
    /\ NoBetter(verdict, JudgeRelay(requests, replies, idle, allowed + more))
=============================================================================
