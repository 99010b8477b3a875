----------------------------- MODULE MCDelivery -----------------------------
(***************************************************************************)
(* Octets of four bits, and traps that differ from an ordinary one in one    *)
(* place: a text of any length up to 40, a count or an uptime around every   *)
(* power of two that matters.                                               *)
(***************************************************************************)
EXTENDS Delivery

MCTo == <<"noc", "manager">>
MCEnterprise == <<1, 3, 6, 1, 4, 1, 99999>>
MCWord == [Working |-> <<7, 0>>, Quiet |-> <<1>>, Unanswered |-> <<15, 8, 4>>]

Text(n) == [i \in 1 .. n |-> (i * 7) % Octet]
Edges == {0, 1, 7, 8, 15, 16, 127, 128, 255, 256, 2047, 2048, 4095, 4096, 32767, 32768, 65535, 65536, 100000}
Window(n) == [requests |-> n, replies |-> 5, tftp_reads |-> 0]

MCTraps ==
  {Build(Text(2), Text(3), "Quiet", Window(9), 300, 1, Text(n)) : n \in 0 .. 40}
    \cup {Build(Text(n), Text(3), "Quiet", Window(9), 300, 1, Text(1)) : n \in 6 .. 9}
    \cup {Build(Text(2), Text(3), "Unanswered", Window(n), 300, 1, Text(1)) : n \in Edges}
    \cup {Build(Text(2), Text(3), "Working", Window(9), 300, n, Text(1)) :
             n \in {0, 2, 327, 328, 655, 656, 1000}}

\* A community of ordinary length, and one that needs the long form.
MCTargets == <<Text(6), Text(8)>>
=============================================================================
