------------------------------- MODULE Packet -------------------------------
(***************************************************************************)
(* packet.rs: reading a captured frame far enough to say what it is.        *)
(*                                                                          *)
(* A frame is a record of what its headers say.  `tags` VLAN tags and        *)
(* `extensions` IPv6 extension headers are stepped over, `version` is 4, 6   *)
(* or 0 for anything else, `protocol` is what IP says it carries, and        *)
(* `laterFragment` is an IPv4 fragment that is not the first.  A body is empty, or has a `code` (the DHCPv4 op, the      *)
(* DHCPv6 message type, the TFTP opcode), the transaction id found where     *)
(* its protocol puts one, and the gi-address; the addresses and the length   *)
(* are not modelled, nothing depends on them.                               *)
(***************************************************************************)
EXTENDS Naturals

CONSTANTS
  NoGi,     \* None: no gi-address, or 0.0.0.0
  NoXid,    \* None: no transaction id
  Empty,    \* a body with no byte in it
  Unread    \* None: a frame that is none of this program's business

DHCP_SERVER == 67
DHCP_CLIENT == 68
DHCP6_CLIENT == 546
DHCP6_SERVER == 547
TFTP == 69
Ephemeral == 50000

Dhcp4 == {DHCP_SERVER, DHCP_CLIENT}
Dhcp6 == {DHCP6_SERVER, DHCP6_CLIENT}

(***************************************************************************)
(* ethernet, ipv4, ipv6 and udp: whether there is a UDP header to be found.  *)
(***************************************************************************)
MaxTags == 2
MaxExtensions == 8
UDP == 17

HasUdp(frame) ==
  /\ frame.tags <= MaxTags
  /\ frame.protocol = UDP
  /\ \/ frame.version = 4 /\ ~frame.laterFragment
     \/ frame.version = 6 /\ frame.extensions <= MaxExtensions

(***************************************************************************)
(* classify: the direction comes from the message, not from the ports, which *)
(* are the same both ways when a relay is involved.                         *)
(***************************************************************************)
TftpKind(body) ==
  IF body = Empty THEN Unread
  ELSE IF body.code \in {1, 2} THEN "TftpRequest"
  ELSE IF body.code \in {3, 5, 6} THEN "TftpReply"
  ELSE Unread

PortDirection(sport, dport) ==
  IF sport \in {DHCP_SERVER, DHCP6_SERVER} /\ dport \in {DHCP_CLIENT, DHCP6_CLIENT}
  THEN "ServerReply" ELSE "ClientRequest"

Direction(sport, dport, body, serverCodes) ==
  IF body = Empty THEN PortDirection(sport, dport)
  ELSE IF body.code \in serverCodes THEN "ServerReply" ELSE "ClientRequest"

\* Slip: the direction from the ports.
ClassifyByPort(sport, dport, body) ==
  IF dport = TFTP THEN "TftpRequest"
  ELSE IF sport = TFTP THEN "TftpReply"
  ELSE IF {sport, dport} \subseteq Dhcp4 \/ {sport, dport} \subseteq Dhcp6
       THEN PortDirection(sport, dport)
  ELSE Unread

Classify(sport, dport, body) ==
  IF TFTP \in {sport, dport} THEN TftpKind(body)
  ELSE IF {sport, dport} \subseteq Dhcp4 THEN Direction(sport, dport, body, {2})
  ELSE IF {sport, dport} \subseteq Dhcp6
       THEN Direction(sport, dport, body, {2, 7, 10, 13})
  ELSE Unread

(***************************************************************************)
(* giaddr, xid and read                                                     *)
(***************************************************************************)
GiAddr(sport, dport, body) ==
  IF {sport, dport} \subseteq Dhcp4 /\ body # Empty THEN body.gi ELSE NoGi

\* Slip: DHCPv6 forgotten.
XidOfDhcp4Only(sport, dport, body) ==
  IF body # Empty /\ {sport, dport} \subseteq Dhcp4 THEN body.xid ELSE NoXid

XidOf(sport, dport, body) ==
  IF body # Empty /\ ({sport, dport} \subseteq Dhcp4 \/ {sport, dport} \subseteq Dhcp6)
  THEN body.xid ELSE NoXid

\* packet::Kind
Kinds == {"ClientRequest", "ServerReply", "TftpRequest", "TftpReply"}

Read(frame) ==
  LET kind == Classify(frame.sport, frame.dport, frame.body) IN
  IF ~HasUdp(frame) \/ kind = Unread THEN Unread
  ELSE [kind |-> kind,
        gi |-> GiAddr(frame.sport, frame.dport, frame.body),
        xid |-> XidOf(frame.sport, frame.dport, frame.body)]
=============================================================================
