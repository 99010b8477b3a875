-------------------------------- MODULE Snmp --------------------------------
(***************************************************************************)
(* snmp.rs, and what capture.rs puts into a trap: one SNMPv2c datagram, in   *)
(* BER.                                                                     *)
(*                                                                          *)
(* The encoding is written for octets of any size, 256 in the code: what is  *)
(* hard about it (lengths that outgrow the short form, numbers whose high    *)
(* bit is set, arcs of several digits, counters that saturate) happens at    *)
(* the same multiples of a small one.  Text is a sequence of octets.         *)
(*                                                                          *)
(* Receive is the other side, RFC 3416 and the basic encoding rules, as a    *)
(* receiver reads them; the program has no such code.                       *)
(***************************************************************************)
EXTENDS Integers, Sequences, SequencesExt

CONSTANTS
  Octet,        \* how many values an octet has
  Enterprise,   \* ENTERPRISE, an arc that is not configurable
  Word          \* State::word: state -> text

\* What BER can write as an object identifier: its first two arcs share a number.
ObjectIds ==
  {oid \in Seq(Nat) : Len(oid) > 1 /\ oid[1] \in 0 .. 2 /\ (oid[1] < 2 => oid[2] < 40)}

ASSUME SnmpAssumption ==
  /\ Octet \in {2 * n : n \in 2 .. 128}
  /\ Enterprise \in ObjectIds

High == Octet \div 2                           \* the high bit, 0x80
U32Max == Octet * Octet * Octet * Octet - 1    \* u32::MAX
Lesser(m, n) == IF m <= n THEN m ELSE n

\* n in a base, most significant digit first, no leading zeroes but for 0.
Digits(n, base) ==
  LET d[k \in Nat] == IF k < base THEN <<k>> ELSE Append(d[k \div base], k % base)
  IN  d[n]

Number(digits, base) == FoldLeft(LAMBDA n, d : n * base + d, 0, digits)

(***************************************************************************)
(* BER                                                                      *)
(***************************************************************************)
INTEGER == 2
OCTETS == 4
OID == 6
SEQUENCE == 48       \* 0x30
COUNTER == 65        \* 0x41, Counter32
TICKS == 67          \* 0x43, TimeTicks
TRAP == 167          \* 0xA7, SNMPv2-Trap-PDU

\* Slip: the short form one length too far.
LengthShortTooFar(n) ==
  IF n <= High THEN <<n>>
  ELSE LET d == Digits(n, Octet) IN <<High + Len(d)>> \o d

Length(n) ==
  IF n < High THEN <<n>>
  ELSE LET d == Digits(n, Octet) IN <<High + Len(d)>> \o d

TLV(tag, body) == <<tag>> \o Length(Len(body)) \o body

\* A first digit with the high bit set would be read as a sign.
Padded(v) ==
  LET d == Digits(v, Octet) IN IF d[1] >= High THEN <<0>> \o d ELSE d

\* integer, for the naturals it is called with.
Integer(v) == TLV(INTEGER, Padded(v))

Unsigned(tag, v) == TLV(tag, Padded(Lesser(v, U32Max)))

OctetString(octets) == TLV(OCTETS, octets)

Base128(arc) ==
  LET d == Digits(arc, High)
  IN  [i \in DOMAIN d |-> IF i < Len(d) THEN High + d[i] ELSE d[i]]

Oid(arcs) ==
  LET packed == <<40 * arcs[1] + arcs[2]>> \o SubSeq(arcs, 3, Len(arcs))
  IN  TLV(OID, FlattenSeq([i \in DOMAIN packed |-> Base128(packed[i])]))

(***************************************************************************)
(* The trap                                                                 *)
(***************************************************************************)
Str(octets) == [is |-> "Str", of |-> octets]
Count(n) == [is |-> "Count", of |-> n]
Arcs(oid) == [is |-> "Oid", of |-> oid]
Ticks(n) == [is |-> "Ticks", of |-> n]

Values ==
  [is : {"Str"}, of : Seq(Nat)] \cup [is : {"Count", "Ticks"}, of : Nat]
    \cup [is : {"Oid"}, of : ObjectIds]

AnyTrap == [uptime : Nat, which : Nat, bindings : Seq(ObjectIds \X Values)]

Value(v) ==
  CASE v.is = "Str" -> OctetString(v.of)
    [] v.is = "Count" -> Unsigned(COUNTER, v.of)
    [] v.is = "Ticks" -> Unsigned(TICKS, v.of)
    [] v.is = "Oid" -> Oid(v.of)

VarBind(name, v) == TLV(SEQUENCE, Oid(name) \o Value(v))

SysUpTime == <<1, 3, 6, 1, 2, 1, 1, 3, 0>>
TrapOid == <<1, 3, 6, 1, 6, 3, 1, 1, 4, 1, 0>>

Field(n) == Enterprise \o <<1, n>>

\* The two mandatory varbinds first.
Contents(t) ==
  <<<<SysUpTime, Ticks(t.uptime)>>, <<TrapOid, Arcs(Append(Enterprise, t.which))>>>>
    \o t.bindings

RequestId(t) == t.uptime % ((U32Max + 1) \div 2)

Encode(community, t) ==
  LET bindings == [i \in DOMAIN Contents(t) |-> VarBind(Contents(t)[i][1], Contents(t)[i][2])]
      pdu == Integer(RequestId(t)) \o Integer(0) \o Integer(0)
               \o TLV(SEQUENCE, FlattenSeq(bindings))
  IN  TLV(SEQUENCE, Integer(1) \o OctetString(community) \o TLV(TRAP, pdu))

\* capture::build: what the loop knows, in the order receivers expect it.
Which(state) == CASE state = "Working" -> 3 [] state = "Quiet" -> 1 [] state = "Unanswered" -> 2

Build(host, interface, state, w, window, running, busiest) ==
  [uptime |-> running * 100,
   which |-> Which(state),
   bindings |->
     <<<<Field(1), Str(host)>>, <<Field(2), Str(interface)>>, <<Field(3), Str(Word[state])>>,
       <<Field(4), Count(w.requests)>>, <<Field(5), Count(w.replies)>>,
       <<Field(6), Count(w.tftp_reads)>>, <<Field(7), Count(window)>>,
       <<Field(8), Str(busiest)>>>>]

(***************************************************************************)
(* A receiver                                                               *)
(***************************************************************************)
Junk == [tag |-> 0, body |-> <<>>]

\* The items a body consists of: a tag, a length in either form, a body.
Items[s \in Seq(Nat)] ==
  LET digits == IF s[2] < High THEN 0 ELSE s[2] - High
      size == IF s[2] < High THEN s[2] ELSE Number(SubSeq(s, 3, 2 + digits), Octet)
      to == 2 + digits + size
  IN  IF s = <<>> THEN <<>>
      ELSE IF Len(s) = 1 \/ Len(s) < 2 + digits \/ Len(s) < to THEN <<Junk>>
      ELSE <<[tag |-> s[1], body |-> SubSeq(s, 3 + digits, to)]>>
             \o Items[SubSeq(s, to + 1, Len(s))]

TagsOf(items) == [i \in DOMAIN items |-> items[i].tag]

\* Two's complement.
ReadNumber(body) ==
  LET n == Number(body, Octet)
  IN  IF body[1] < High THEN n
      ELSE n - Number([i \in 1 .. Len(body) + 1 |-> IF i = 1 THEN 1 ELSE 0], Octet)

ReadArcs(body) ==
  LET read(a, o) ==
        IF o < High
        THEN [arcs |-> Append(a.arcs, a.part * High + o), part |-> 0]
        ELSE [a EXCEPT !.part = @ * High + o - High]
      arcs == FoldLeft(read, [arcs |-> <<>>, part |-> 0], body).arcs
  IN  IF arcs = <<>> THEN <<>>
      ELSE IF arcs[1] < 80 THEN <<arcs[1] \div 40, arcs[1] % 40>> \o Tail(arcs)
      ELSE <<2, arcs[1] - 80>> \o Tail(arcs)

ReadValue(item) ==
  CASE item.tag = OCTETS -> Str(item.body)
    [] item.tag = COUNTER -> Count(ReadNumber(item.body))
    [] item.tag = TICKS -> Ticks(ReadNumber(item.body))
    [] item.tag = OID -> Arcs(ReadArcs(item.body))
    [] OTHER -> Junk

ReadBinding(item) ==
  LET parts == Items[item.body]
  IN  IF Len(parts) # 2 THEN <<>> ELSE <<ReadArcs(parts[1].body), ReadValue(parts[2])>>

Unreadable == [version |-> 0]

Receive(datagram) ==
  LET whole == Items[datagram]
      parts == Items[whole[1].body]
      pdu == Items[parts[3].body]
      bindings == Items[pdu[4].body]
  IN  IF TagsOf(whole) # <<SEQUENCE>> \/ TagsOf(parts) # <<INTEGER, OCTETS, TRAP>> THEN Unreadable
      ELSE IF TagsOf(pdu) # <<INTEGER, INTEGER, INTEGER, SEQUENCE>> THEN Unreadable
      ELSE [version |-> ReadNumber(parts[1].body),
            community |-> parts[2].body,
            id |-> ReadNumber(pdu[1].body),
            status |-> <<ReadNumber(pdu[2].body), ReadNumber(pdu[3].body)>>,
            bindings |-> [i \in DOMAIN bindings |-> ReadBinding(bindings[i])]]

(***************************************************************************)
(* What a receiver must read: version 2c, no error, sysUpTime and the trap's *)
(* name first and in this order, then every binding; a number too large for  *)
(* 32 bits as the largest there is.                                         *)
(***************************************************************************)
Clamped(v) == IF v.is \in {"Count", "Ticks"} THEN [v EXCEPT !.of = Lesser(@, U32Max)] ELSE v

Said(community, t) ==
  [version |-> 1,
   community |-> community,
   id |-> t.uptime % ((U32Max + 1) \div 2),
   status |-> <<0, 0>>,
   bindings |->
     <<<<SysUpTime, Ticks(Lesser(t.uptime, U32Max))>>,
       <<TrapOid, Arcs(Enterprise \o <<t.which>>)>>>>
       \o [i \in DOMAIN t.bindings |-> <<t.bindings[i][1], Clamped(t.bindings[i][2])>>]]
=============================================================================
