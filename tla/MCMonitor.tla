----------------------------- MODULE MCMonitor -----------------------------
(***************************************************************************)
(* Small plants for Monitor.                                                *)
(***************************************************************************)
EXTENDS Monitor

CONSTANTS g1, g2, x1

MCAllowed == [g \in Gi |-> IF g = g1 THEN 2 ELSE 3]
MCPatient == [g \in Gi |-> 3]
MCEnough == <<3, 4>>
MCHalf == <<1, 2>>

Ask(gi, flow, x) == [kind |-> "ClientRequest", flow |-> flow, gi |-> gi, xid |-> x]
Answer(gi, flow, x) == [kind |-> "ServerReply", flow |-> flow, gi |-> gi, xid |-> x]
Fetch(flow) == [kind |-> "TftpRequest", flow |-> flow, gi |-> NoGi, xid |-> NoXid]
Data(flow) == [kind |-> "TftpReply", flow |-> flow, gi |-> NoGi, xid |-> NoXid]

\* Two interfaces that only ask, and are never answered.
AskingPlant == {Ask(g1, 1, NoXid), Ask(g2, 1, NoXid)}

\* One interface, asking and answered, and a modem fetching its file.
BusyPlant == {Ask(g1, 1, x1), Answer(g1, 2, x1), Fetch(3), Data(4)}

\* One interface, asking and answered.
AnsweredPlant == {Ask(g1, 1, x1), Answer(g1, 2, x1)}

TrapAndMail == <<"trap", "mail">>
MailOnly == <<"mail">>
=============================================================================
