------------------------------ MODULE Delivery ------------------------------
(***************************************************************************)
(* The end of capture.rs's report: one trap, built once and handed to each   *)
(* receiver in turn, and then the mail.                                     *)
(*                                                                          *)
(* The trap lives as long as the block that sends it.  A receiver is outside *)
(* src/: the datagram handed over is what it would read.                    *)
(***************************************************************************)
EXTENDS Smtp, Snmp

CONSTANTS
  Targets,      \* cfg.snmp.targets: their communities
  Traps,        \* what the traps say
  NoTrap, NoDatagram

ASSUME DeliveryAssumption == Targets \in Seq(Seq(Nat)) /\ Traps \subseteq AnyTrap

VARIABLES
  trap,       \* the trap being sent
  targets,    \* the targets that have not been tried
  datagram    \* the last one handed over: its community and its octets

traps == <<trap, targets, datagram>>
deliveryVars == <<vars, traps>>

\* What each target would be sent; a constant, which TLC works out once.
Encoded == [c \in ToSet(Targets) |-> [t \in Traps |-> Encode(c, t)]]

\* snmp::send: the name may not resolve, the socket may not be had, the kernel
\* may refuse the datagram; a failure is logged and the next target tried.
SendTrap ==
  /\ targets # <<>>
  /\ LET community == Head(targets) IN
     datagram' \in {NoDatagram, [to |-> community, octets |-> Encoded[community][trap]]}
  /\ targets' = Tail(targets)
  /\ UNCHANGED <<vars, trap>>

BeginMail ==
  /\ targets = <<>> /\ trap # NoTrap
  /\ trap' = NoTrap /\ datagram' = NoDatagram
  /\ UNCHANGED <<vars, targets>>

Mailing(step) == trap = NoTrap /\ step /\ UNCHANGED traps

DeliveryInit == Init /\ trap \in Traps /\ targets = Targets /\ datagram = NoDatagram

Report == SendTrap \/ BeginMail \/ Mailing(Client)

DeliveryNext == Report \/ Mailing(Tick) \/ Mailing(Relay)

\* The thread that reports goes on, and so does the clock of its reads.
DeliverySpec ==
  /\ DeliveryInit /\ [][DeliveryNext]_deliveryVars
  /\ WF_deliveryVars(Report) /\ WF_deliveryVars(Mailing(Tick))

-----------------------------------------------------------------------------
(***************************************************************************)
(* Properties                                                               *)
(***************************************************************************)

\* What was handed over is a trap that a receiver can read, and reads as it was
\* meant (snmp.rs:10-20, 149-194): every length in the form its size calls for,
\* no number taken for a negative one, no arc split, the two bindings that must
\* come first in their place, and what does not fit in 32 bits at the limit.
ReadsAsSaid ==
  datagram # NoDatagram => Receive(datagram.octets) = Said(datagram.to, trap)

\* The dialogue with a relay is one send of Message: ok only when taken, by
\* everybody or nobody, and nothing untaken after ok (email.rs:102-140).
M == INSTANCE Message WITH Everybody <- ToSet(To)
SmtpIsOneSend == M!Spec
=============================================================================
