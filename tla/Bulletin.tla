------------------------------ MODULE Bulletin ------------------------------
(***************************************************************************)
(* What alarm::Repeats promises whoever is told.  The reader starts from the *)
(* belief that the plant works and is always right about the last judgement: *)
(* a change is told at the judgement that finds it, however recently         *)
(* something was said.  Of trouble that lasts the reader is reminded when    *)
(* the interval is over and not before; of a working plant, never.          *)
(***************************************************************************)
EXTENDS Naturals

CONSTANTS
  States,    \* what a plant can be judged
  Working,   \* the one that is not trouble
  Interval   \* seconds between reminders; 0 reminds at every judgement

VARIABLES
  time,      \* the clock the reminders are measured on, which may be set back
  judged,    \* the last judgement, [state, when]
  believed,  \* what the reader was last told, Working before anything
  toldAt     \* when; 0 before anything

vars == <<time, judged, believed, toldAt>>

Init ==
  /\ time \in Nat
  /\ judged = [state |-> Working, when |-> 0]
  /\ believed = Working
  /\ toldAt = 0

ReminderDue == Interval = 0 \/ time >= toldAt + Interval

Tell(s) ==
  /\ s # believed \/ (s # Working /\ ReminderDue)
  /\ judged' = [state |-> s, when |-> time]
  /\ believed' = s
  /\ toldAt' = time
  /\ UNCHANGED time

SayNothing(s) ==
  /\ s = believed
  /\ s = Working \/ ~ReminderDue
  /\ judged' = [state |-> s, when |-> time]
  /\ UNCHANGED <<time, believed, toldAt>>

ClockMoves ==
  /\ time' \in Nat
  /\ UNCHANGED <<judged, believed, toldAt>>

Next == (\E s \in States : Tell(s) \/ SayNothing(s)) \/ ClockMoves

Spec == Init /\ [][Next]_vars
=============================================================================
