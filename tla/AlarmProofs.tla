---------------------------- MODULE AlarmProofs ----------------------------
(***************************************************************************)
(* Theorems about Alarm, for every threshold, interval and clock.           *)
(***************************************************************************)
EXTENDS Alarm, TLAPS

-----------------------------------------------------------------------------
(***************************************************************************)
(* The invariant: the shapes, and that Repeats is never behind the judge.    *)
(***************************************************************************)
IInv == TypeOK /\ DecisionIsCurrent

\* A judgement passed to should_send leaves what was said equal to it: this is
\* where the four cases of the match (alarm.rs:127-131) are shown to leave none
\* out.
LEMMA ShouldSendTells ==
  ASSUME IInv, NEW s \in States, ShouldSend(s)
  PROVE  /\ judged' = [state |-> s, when |-> now]
         /\ Decided' = s
         /\ last' \in {Unsaid} \cup [state : States, when : Nat]
<1>. USE AlarmAssumption, JudgementAssumption DEF IInv, TypeOK, States, IsTrouble, ShouldSend
<1>1. judged' = [state |-> s, when |-> now]
  OBVIOUS
<1>2. CASE Due(s)
  <2>1. last' = [state |-> s, when |-> now]
    BY <1>2
  <2>2. last' # Unsaid
    BY <2>1
  <2>. QED  BY <1>1, <2>1, <2>2 DEF Decided
<1>3. CASE ~Due(s)
  <2>1. last' = last
    BY <1>3
  <2>2. last = Unsaid => s = "Working"
    BY <1>3 DEF Due
  <2>3. last # Unsaid => last.state = s
    BY <1>3 DEF Due
  <2>. QED  BY <1>1, <2>1, <2>2, <2>3 DEF Decided
<1>. QED  BY <1>2, <1>3

LEMMA InitHolds == Init => IInv
  BY AlarmAssumption, JudgementAssumption DEF Init, IInv, TypeOK, DecisionIsCurrent, Decided, States

LEMMA StepHolds == IInv /\ [Next]_vars => IInv'
<1>. SUFFICES ASSUME IInv, [Next]_vars
              PROVE  IInv'
  OBVIOUS
<1>. USE AlarmAssumption, JudgementAssumption
<1>1. CASE Judgement
  <2>1. PICK s \in States : ShouldSend(s) /\ now' = now
    BY <1>1 DEF Judgement
  <2>. QED  BY <2>1, ShouldSendTells DEF IInv, TypeOK, DecisionIsCurrent
<1>2. CASE Clock
  BY <1>2 DEF Clock, IInv, TypeOK, DecisionIsCurrent, Decided
<1>3. CASE UNCHANGED vars
  BY <1>3 DEF vars, IInv, TypeOK, DecisionIsCurrent, Decided
<1>. QED  BY <1>1, <1>2, <1>3 DEF Next

\* The shapes of the variables, for every configuration.
THEOREM TypeCorrect == Spec => []TypeOK
<1>1. Spec => []IInv
  BY InitHolds, StepHolds, PTL DEF Spec
<1>2. IInv => TypeOK
  BY DEF IInv
<1>. QED  BY <1>1, <1>2, PTL

\* What was last decided to say is what was last judged, whatever the sequence of
\* states, the interval and the clock (alarm.rs:121-136).
THEOREM DecisionAlwaysCurrent == Spec => []DecisionIsCurrent
<1>1. Spec => []IInv
  BY InitHolds, StepHolds, PTL DEF Spec
<1>2. IInv => DecisionIsCurrent
  BY DEF IInv
<1>. QED  BY <1>1, <1>2, PTL

-----------------------------------------------------------------------------
(***************************************************************************)
(* Repeats                                                                  *)
(***************************************************************************)

\* The same thing is said again only of trouble, and only when resend_after
\* seconds separate the two on the machine's own clock.
THEOREM RepeatsAlwaysSpaced == Spec => RepeatsAreSpaced
<1>. DEFINE Spaced ==
       last # Unsaid /\ last' # last /\ last'.state = last.state
         => /\ IsTrouble(last.state)
            /\ last'.when >= last.when + ResendAfter \/ ResendAfter = 0
<1>1. IInv /\ [Next]_vars => [Spaced]_vars
  <2>. SUFFICES ASSUME IInv, Next, last # Unsaid, last' # last,
                       last'.state = last.state
                PROVE  /\ IsTrouble(last.state)
                       /\ last'.when >= last.when + ResendAfter \/ ResendAfter = 0
    BY DEF vars
  <2>. USE AlarmAssumption, JudgementAssumption DEF IInv, TypeOK
  <2>1. PICK s \in States : ShouldSend(s)
    BY DEF Next, Judgement, Clock
  <2>2. Due(s) /\ last' = [state |-> s, when |-> now]
    BY <2>1 DEF ShouldSend
  <2>3. last.state = s /\ last'.when = now
    BY <2>2
  <2>4. /\ IsTrouble(s)
        /\ (IF now > last.when THEN now - last.when ELSE 0) >= ResendAfter
    BY <2>2, <2>3 DEF Due, Rested
  <2>5. last.when \in Nat /\ now \in Nat
    OBVIOUS
  <2>. QED  BY <2>3, <2>4, <2>5
<1>. QED  BY InitHolds, StepHolds, <1>1, PTL DEF Spec, RepeatsAreSpaced

-----------------------------------------------------------------------------
(***************************************************************************)
(* The judgement of one interface                                           *)
(***************************************************************************)

\* How NoBetter orders the states: working, unanswered, quiet.
LEMMA Severity ==
  ASSUME NEW a \in States, NEW b \in States
  PROVE  NoBetter(a, b) <=> a = "Quiet" \/ b = "Working" \/ a = b
  BY DEF States, NoBetter, Worst

LEMMA JudgementIsAState ==
  ASSUME NEW requests, NEW replies, NEW idleFor, NEW allowed
  PROVE  JudgeRelay(requests, replies, idleFor, allowed) \in States
  BY DEF JudgeRelay, States

\* More silence, more requests, fewer replies or a tighter threshold never
\* turn a judgement into a better one, for all counts.
THEOREM JudgementMonotone ==
  ASSUME NEW requests \in Nat, NEW replies \in Nat, NEW idle \in Nat,
         NEW allowed \in Nat, NEW more \in Nat
  PROVE  LET verdict == JudgeRelay(requests, replies, idle, allowed) IN
         /\ NoBetter(JudgeRelay(requests + more, replies, idle, allowed), verdict)
         /\ NoBetter(JudgeRelay(requests, replies, idle + more, allowed), verdict)
         /\ NoBetter(verdict, JudgeRelay(requests, replies + more, idle, allowed))
         /\ NoBetter(verdict, JudgeRelay(requests, replies, idle, allowed + more))
<1>0. Enough[1] \in Nat /\ Enough[2] \in Nat \ {0} /\ Enough[1] <= Enough[2]
  BY AlarmAssumption, JudgementAssumption
<1>1. TooFewAnswered(requests, replies) => TooFewAnswered(requests + more, replies)
  <2>1. Enough[1] * (requests + more) = Enough[1] * requests + Enough[1] * more
    BY <1>0
  <2>2. /\ Enough[1] * more \in Nat /\ Enough[1] * requests \in Nat
        /\ replies * Enough[2] \in Nat
    BY <1>0
  <2>. QED  BY <2>1, <2>2 DEF TooFewAnswered
<1>2. TooFewAnswered(requests, replies + more) => TooFewAnswered(requests, replies)
  <2>1. (replies + more) * Enough[2] = replies * Enough[2] + more * Enough[2]
    BY <1>0
  <2>2. /\ more * Enough[2] \in Nat /\ Enough[1] * requests \in Nat
        /\ replies * Enough[2] \in Nat
    BY <1>0
  <2>. QED  BY <2>1, <2>2 DEF TooFewAnswered
<1>3. idle # Never /\ idle + more # Never /\ MinRequests \in Nat
  BY AlarmAssumption, JudgementAssumption
<1>. DEFINE verdict == JudgeRelay(requests, replies, idle, allowed)
<1>4. NoBetter(JudgeRelay(requests + more, replies, idle, allowed), verdict)
  <2>1. \/ JudgeRelay(requests + more, replies, idle, allowed) = verdict
        \/ verdict = "Working"
    BY <1>1, <1>3 DEF JudgeRelay
  <2>. QED  BY <2>1, Severity, JudgementIsAState
<1>5. NoBetter(JudgeRelay(requests, replies, idle + more, allowed), verdict)
  <2>1. CASE idle + more > allowed
    <3>1. JudgeRelay(requests, replies, idle + more, allowed) = "Quiet"
      BY <1>3, <2>1 DEF JudgeRelay
    <3>. QED  BY <3>1, Severity, JudgementIsAState
  <2>2. CASE ~(idle + more > allowed)
    <3>1. ~(idle > allowed)
      BY <2>2
    <3>2. JudgeRelay(requests, replies, idle + more, allowed) = verdict
      BY <1>3, <2>2, <3>1 DEF JudgeRelay
    <3>. QED  BY <3>2, Severity, JudgementIsAState
  <2>. QED  BY <2>1, <2>2
<1>6. NoBetter(verdict, JudgeRelay(requests, replies + more, idle, allowed))
  <2>1. \/ JudgeRelay(requests, replies + more, idle, allowed) = verdict
        \/ JudgeRelay(requests, replies + more, idle, allowed) = "Working"
    BY <1>2, <1>3 DEF JudgeRelay
  <2>. QED  BY <2>1, Severity, JudgementIsAState
<1>7. NoBetter(verdict, JudgeRelay(requests, replies, idle, allowed + more))
  <2>1. CASE idle > allowed
    <3>1. verdict = "Quiet"
      BY <1>3, <2>1 DEF JudgeRelay
    <3>. QED  BY <3>1, Severity, JudgementIsAState
  <2>2. CASE ~(idle > allowed)
    <3>1. ~(idle > allowed + more)
      BY <2>2
    <3>2. JudgeRelay(requests, replies, idle, allowed + more) = verdict
      BY <1>3, <2>2, <3>1 DEF JudgeRelay
    <3>. QED  BY <3>2, Severity, JudgementIsAState
  <2>. QED  BY <2>1, <2>2
<1>. QED  BY <1>4, <1>5, <1>6, <1>7

\* The same of the bounded statement a run checks.
THEOREM JudgementAlwaysMonotone == Spec => []JudgementIsMonotone
<1>1. TypeOK => JudgementIsMonotone
  <2>1. TypeOK => 0 .. MaxNow \subseteq Nat /\ 0 .. now \subseteq Nat
    BY AlarmAssumption, JudgementAssumption DEF TypeOK
  <2>. QED  BY <2>1, JudgementMonotone DEF JudgementIsMonotone
<1>. QED  BY <1>1, TypeCorrect, PTL

-----------------------------------------------------------------------------
(***************************************************************************)
(* Repeats implements Bulletin                                              *)
(***************************************************************************)

\* What an operator is told by should_send is a behaviour of Bulletin, for
\* every interval and every clock.
THEOREM RepeatsImplementsBulletin == Spec => ReaderIsTold
<1>. USE AlarmAssumption, JudgementAssumption
<1>. DEFINE toldAt == IF last = Unsaid THEN 0 ELSE last.when
<1>1. Init => Reader!Init
  BY DEF Init, Reader!Init, Decided
<1>2. IInv /\ [Next]_vars => [Reader!Next]_Reader!vars
  <2>. SUFFICES ASSUME IInv, [Next]_vars
                PROVE  Reader!Next \/ UNCHANGED Reader!vars
    OBVIOUS
  <2>. USE DEF IInv, TypeOK
  <2>1. ASSUME NEW s \in States, ShouldSend(s), now' = now
        PROVE  Reader!Tell(s) \/ Reader!SayNothing(s)
    <3>1. judged' = [state |-> s, when |-> now] /\ Decided' = s
      BY <2>1, ShouldSendTells
    <3>2. CASE Due(s)
      <4>1. last' = [state |-> s, when |-> now] /\ last' # Unsaid
        BY <2>1, <3>2 DEF ShouldSend, States
      <4>2. s # Decided \/ (s # "Working" /\ Reader!ReminderDue)
        <5>1. CASE last = Unsaid
          BY <3>2, <5>1 DEF Due, Rested, IsTrouble, Decided
        <5>2. CASE last # Unsaid
          <6>1. last.when \in Nat /\ now \in Nat /\ ResendAfter \in Nat
            BY <5>2
          <6>2. CASE last.state # s
            BY <5>2, <6>2 DEF Decided
          <6>3. CASE last.state = s
            BY <3>2, <5>2, <6>1, <6>3 DEF Due, Rested, IsTrouble, Decided, Reader!ReminderDue
          <6>. QED  BY <6>2, <6>3
        <5>. QED  BY <5>1, <5>2
      <4>. QED  BY <2>1, <3>1, <4>1, <4>2 DEF Reader!Tell
    <3>3. CASE ~Due(s)
      <4>1. last' = last
        BY <2>1, <3>3 DEF ShouldSend
      <4>2. s = Decided
        BY <3>1, <4>1 DEF Decided
      <4>3. s = "Working" \/ ~Reader!ReminderDue
        <5>1. CASE last = Unsaid
          BY <4>2, <5>1 DEF Decided
        <5>2. CASE last # Unsaid
          <6>1. last.when \in Nat /\ now \in Nat /\ ResendAfter \in Nat
            BY <5>2
          <6>. QED  BY <3>3, <4>2, <5>2, <6>1
                    DEF Due, Rested, IsTrouble, Decided, Reader!ReminderDue
        <5>. QED  BY <5>1, <5>2
      <4>. QED  BY <2>1, <3>1, <4>1, <4>2, <4>3 DEF Reader!SayNothing, Decided
    <3>. QED  BY <3>2, <3>3
  <2>2. CASE Judgement
    BY <2>1, <2>2 DEF Judgement, Reader!Next
  <2>3. CASE Clock
    BY <2>3 DEF Clock, Reader!Next, Reader!ClockMoves, Decided
  <2>4. CASE UNCHANGED vars
    BY <2>4 DEF vars, Reader!vars, Decided
  <2>. QED  BY <2>2, <2>3, <2>4 DEF Next
<1>. QED
  BY <1>1, <1>2, InitHolds, StepHolds, PTL DEF Spec, ReaderIsTold, Reader!Spec
=============================================================================
