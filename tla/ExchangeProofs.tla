--------------------------- MODULE ExchangeProofs ---------------------------
(***************************************************************************)
(* Theorems about Exchange, for every plant: any number of modems, behind    *)
(* any interfaces, over any tags and extension headers, and however often    *)
(* they ask and are answered.                                               *)
(***************************************************************************)
EXTENDS Exchange, Sums

Addresses == Gi \cup {NoGi}
Stages == Exchanges \cup {"off", "offered", "bound"}

-----------------------------------------------------------------------------
(***************************************************************************)
(* The invariants                                                           *)
(***************************************************************************)

Boots ==
  [stage : Stages, since : Nat \cup {Never},
   asked : [Exchanges -> Nat], owed : [Exchanges -> Nat],
   served : Nat, answered : Nat, tookMs : Nat]

Transfers == {"off", "asked", "sent", "acked", "over"}
Fetches == [stage : Transfers, reads : Nat, sends : Nat]

Typed ==
  /\ clock \in 1 .. MaxClock
  /\ R!TypeOK
  /\ IsFiniteSet(DOMAIN rows)
  /\ boot \in [Modems -> Boots]
  /\ fetch \in [Modems -> Fetches]
  /\ \A m \in Modems : boot[m].stage \in Exchanges => boot[m].since \in 1 .. clock

\* What a field of the rows counts, as it really was, modem by modem.
Really(F) ==
  CASE F = "requests" -> Asks
    [] F = "replies" -> [m \in Modems |-> boot[m].served]
    [] F = "tftpRequests" -> [m \in Modems |-> fetch[m].reads]
    [] F = "tftpSends" -> SeenSends
    [] F = "answered" -> [m \in Modems |-> boot[m].answered]
    [] F = "answerMsTotal" -> [m \in Modems |-> boot[m].tookMs]

Had(g, F) == IF g \in DOMAIN rows THEN rows[g][F] ELSE 0

\* A field is true in each row, over all rows, or in the unrelayed row alone.
TrueByRow(F) == \A gi \in Addresses : Had(gi, F) = SumFunctionOnSet(Really(F), Behind(gi))
TrueInAll(F) ==
  SumFunction([gi \in DOMAIN rows |-> rows[gi][F]]) = SumFunctionOnSet(Really(F), Modems)
TrueUnrelayed(F) == Had(NoGi, F) = SumFunctionOnSet(Really(F), Modems)

CInv ==
  /\ TrueByRow("requests") /\ TrueInAll("replies")
  /\ TrueUnrelayed("tftpRequests") /\ TrueUnrelayed("tftpSends")

\* A DHCPv4 client that asked twice could take the second answer to its DISCOVER
\* for the answer to its REQUEST: both carry the one transaction id it has.
OneIdPerExchange == \A m \in Modems \ Patient : Way[m] = "direct6"

Waiting == {m \in Modems : boot[m].stage \in Exchanges}
XidOf(m) == XidOn(m, boot[m].stage)

\* Relays remembers what is unanswered and nothing else: for each modem that
\* waits, its last message and when it was sent.
TableIsTrue ==
  /\ DOMAIN pending = {XidOf(m) : m \in Waiting}
  /\ \A m \in Waiting : pending[XidOf(m)] = [atMs |-> boot[m].since, gi |-> RowOf(m)]

\* A modem that asks once is owed the answer it waits for, and no other.
PatientOwed ==
  \A m \in Patient \cap Modems, e \in Exchanges :
    boot[m].owed[e] > 0 => boot[m].stage = e /\ boot[m].owed[e] = 1

TInv == TableIsTrue /\ PatientOwed /\ TrueByRow("answered") /\ TrueByRow("answerMsTotal")

-----------------------------------------------------------------------------
(***************************************************************************)
(* Every frame of the plant is read for what it is                          *)
(***************************************************************************)

LEMMA Given ==
  /\ NoGi \notin Gi /\ NoXid \notin Xid /\ Never \notin Nat
  /\ \A m \in Modems, e \in Exchanges : XidOn(m, e) \in Xid /\ RowOf(m) \in Addresses
  /\ \A m \in Modems : Interface[m] \in Gi
  /\ IsFiniteSet(Modems)
  BY ExchangeAssumption, MarkersAssumption DEF Xid, XidOn, RowOf, Addresses

\* A body is not an empty one, and what is read of it is not nothing.
LEMMA BodyIs ==
  ASSUME NEW code \in Nat, NEW xid \in Xid \cup {NoXid}, NEW gi \in Addresses
  PROVE  /\ Body(code, xid, gi) # Empty
         /\ \A kind \in P!Kinds : kind # Unread /\ [kind |-> kind, gi |-> gi, xid |-> xid] # Unread
<1>1. Body(code, xid, gi) \in [code : Nat, xid : Xid \cup {NoXid}, gi : Gi \cup {NoGi}]
  BY DEF Body, Addresses
<1>2. \A kind \in P!Kinds :
        [kind |-> kind, gi |-> gi, xid |-> xid]
          \in [kind : P!Kinds, gi : Gi \cup {NoGi}, xid : Xid \cup {NoXid}]
  BY DEF Addresses
<1>. QED  BY <1>1, <1>2, MarkersAssumption

LEMMA FrameHasUdp ==
  ASSUME NEW w \in Wrappings, NEW version \in {4, 6}, NEW sport, NEW dport, NEW body
  PROVE  P!HasUdp(Frame(w, version, sport, dport, body))
<1>1. w.tags <= 2 /\ w.extensions <= 8
  BY ExchangeAssumption
<1>. QED  BY <1>1 DEF Frame, P!HasUdp, P!MaxTags, P!MaxExtensions, P!UDP

LEMMA FrameIsRead ==
  ASSUME NEW w \in Wrappings, NEW version \in {4, 6}, NEW sport, NEW dport,
         NEW b, NEW kind \in P!Kinds, kind # Unread, P!Classify(sport, dport, b) = kind
  PROVE  P!Read(Frame(w, version, sport, dport, b)) =
           [kind |-> kind, gi |-> P!GiAddr(sport, dport, b), xid |-> P!XidOf(sport, dport, b)]
<1>. DEFINE f == Frame(w, version, sport, dport, b)
<1>1. f.sport = sport /\ f.dport = dport /\ f.body = b
  BY DEF Frame
<1>2. P!HasUdp(f)
  BY FrameHasUdp
<1>. HIDE DEF f
<1>3. P!Read(f) =
        [kind |-> kind, gi |-> P!GiAddr(sport, dport, b), xid |-> P!XidOf(sport, dport, b)]
  BY <1>1, <1>2 DEF P!Read
<1>. QED  BY <1>3 DEF f

\* The ports the two protocols and TFTP use, and what is made of them.
LEMMA PortsAreRead ==
  ASSUME NEW b, b # Empty
  PROVE  /\ \A s, d \in {67, 68} :
              /\ P!Classify(s, d, b) = IF b.code = 2 THEN "ServerReply" ELSE "ClientRequest"
              /\ P!GiAddr(s, d, b) = b.gi /\ P!XidOf(s, d, b) = b.xid
         /\ \A s, d \in {546, 547} :
              /\ P!Classify(s, d, b) = IF b.code \in {2, 7, 10, 13} THEN "ServerReply"
                                       ELSE "ClientRequest"
              /\ P!GiAddr(s, d, b) = NoGi /\ P!XidOf(s, d, b) = b.xid
         /\ P!Classify(P!Ephemeral, P!TFTP, b) = P!TftpKind(b)
         /\ P!Classify(P!TFTP, P!Ephemeral, b) = P!TftpKind(b)
         /\ P!Classify(P!Ephemeral, P!Ephemeral, b) = Unread
  BY DEF P!Classify, P!Direction, P!GiAddr, P!XidOf, P!TFTP, P!Dhcp4, P!Dhcp6,
         P!DHCP_SERVER, P!DHCP_CLIENT, P!DHCP6_SERVER, P!DHCP6_CLIENT, P!Ephemeral

LEMMA AskIsRead ==
  ASSUME NEW m \in Modems, NEW e \in Exchanges, NEW w \in Wrappings
  PROVE  P!Read(AskFrame(w, m, e)) =
           [kind |-> "ClientRequest", gi |-> RowOf(m), xid |-> XidOn(m, e)]
<1>. DEFINE x == XidOn(m, e)
<1>0. /\ x \in Xid \cup {NoXid} /\ Interface[m] \in Addresses /\ NoGi \in Addresses
      /\ "ClientRequest" \in P!Kinds
  BY Given DEF Addresses, P!Kinds
<1>. HIDE DEF x
<1>1. ASSUME NEW s \in {67, 68}, NEW d \in {67, 68}, NEW g \in Addresses
      PROVE  P!Read(Frame(w, 4, s, d, Body(1, x, g))) =
               [kind |-> "ClientRequest", gi |-> g, xid |-> x]
  <2>. DEFINE b == Body(1, x, g)
  <2>1. b # Empty /\ b.code = 1 /\ b.xid = x /\ b.gi = g /\ "ClientRequest" # Unread
    BY <1>0, BodyIs DEF Body
  <2>. HIDE DEF b
  <2>2. P!Classify(s, d, b) = "ClientRequest" /\ P!GiAddr(s, d, b) = g /\ P!XidOf(s, d, b) = x
    BY <2>1, PortsAreRead
  <2>3. P!Read(Frame(w, 4, s, d, b)) =
          [kind |-> "ClientRequest", gi |-> P!GiAddr(s, d, b), xid |-> P!XidOf(s, d, b)]
    BY <1>0, <2>1, <2>2, FrameIsRead
  <2>. QED  BY <2>2, <2>3 DEF b
<1>2. ASSUME NEW code \in {1, 3}
      PROVE  P!Read(Frame(w, 6, 546, 547, Body(code, x, NoGi))) =
               [kind |-> "ClientRequest", gi |-> NoGi, xid |-> x]
  <2>. DEFINE b == Body(code, x, NoGi)
  <2>1. b # Empty /\ b.code = code /\ b.xid = x /\ "ClientRequest" # Unread
    BY <1>0, BodyIs DEF Body
  <2>. HIDE DEF b
  <2>2. /\ P!Classify(546, 547, b) = "ClientRequest"
        /\ P!GiAddr(546, 547, b) = NoGi /\ P!XidOf(546, 547, b) = x
    BY <2>1, PortsAreRead
  <2>3. P!Read(Frame(w, 6, 546, 547, b)) =
          [kind |-> "ClientRequest", gi |-> P!GiAddr(546, 547, b), xid |-> P!XidOf(546, 547, b)]
    BY <1>0, <2>1, <2>2, FrameIsRead
  <2>. QED  BY <2>2, <2>3 DEF b
<1>3. CASE Way[m] = "relayed4"
  <2>1. AskFrame(w, m, e) = Frame(w, 4, 67, 67, Body(1, x, Interface[m]))
    BY <1>3 DEF AskFrame, x, P!DHCP_SERVER
  <2>2. P!Read(AskFrame(w, m, e)) = [kind |-> "ClientRequest", gi |-> Interface[m], xid |-> x]
    BY <1>0, <1>1, <2>1
  <2>. QED  BY <1>3, <2>2 DEF RowOf, x
<1>4. CASE Way[m] = "direct4"
  <2>1. AskFrame(w, m, e) = Frame(w, 4, 68, 67, Body(1, x, NoGi))
    BY <1>4 DEF AskFrame, x, P!DHCP_SERVER, P!DHCP_CLIENT
  <2>2. P!Read(AskFrame(w, m, e)) = [kind |-> "ClientRequest", gi |-> NoGi, xid |-> x]
    BY <1>0, <1>1, <2>1
  <2>. QED  BY <1>4, <2>2 DEF RowOf, x
<1>5. CASE Way[m] = "direct6"
  <2>1. PICK code \in {1, 3} : AskFrame(w, m, e) = Frame(w, 6, 546, 547, Body(code, x, NoGi))
    BY <1>5 DEF AskFrame, x, P!DHCP6_SERVER, P!DHCP6_CLIENT
  <2>2. P!Read(AskFrame(w, m, e)) = [kind |-> "ClientRequest", gi |-> NoGi, xid |-> x]
    BY <1>0, <1>2, <2>1
  <2>. QED  BY <1>5, <2>2 DEF RowOf, x
<1>. QED  BY <1>3, <1>4, <1>5, ExchangeAssumption

\* What a server may put in an answer as the gi-address, and how it is read.
Stamps(m) == {Interface[m], NoGi}
Stamped(m, gi) == IF Way[m] = "relayed4" THEN gi ELSE NoGi

LEMMA AnswerIsRead ==
  ASSUME NEW m \in Modems, NEW e \in Exchanges, NEW w \in Wrappings,
         NEW gi \in Stamps(m)
  PROVE  P!Read(AnswerFrame(w, m, e, gi)) =
           [kind |-> "ServerReply", gi |-> Stamped(m, gi), xid |-> XidOn(m, e)]
<1>. DEFINE x == XidOn(m, e)
<1>0. /\ x \in Xid \cup {NoXid} /\ gi \in Addresses /\ NoGi \in Addresses
      /\ "ServerReply" \in P!Kinds
  BY Given DEF Addresses, P!Kinds, Stamps
<1>. HIDE DEF x
<1>1. ASSUME NEW s \in {67, 68}, NEW d \in {67, 68}, NEW g \in Addresses
      PROVE  P!Read(Frame(w, 4, s, d, Body(2, x, g))) =
               [kind |-> "ServerReply", gi |-> g, xid |-> x]
  <2>. DEFINE b == Body(2, x, g)
  <2>1. b # Empty /\ b.code = 2 /\ b.xid = x /\ b.gi = g /\ "ServerReply" # Unread
    BY <1>0, BodyIs DEF Body
  <2>. HIDE DEF b
  <2>2. P!Classify(s, d, b) = "ServerReply" /\ P!GiAddr(s, d, b) = g /\ P!XidOf(s, d, b) = x
    BY <2>1, PortsAreRead
  <2>3. P!Read(Frame(w, 4, s, d, b)) =
          [kind |-> "ServerReply", gi |-> P!GiAddr(s, d, b), xid |-> P!XidOf(s, d, b)]
    BY <1>0, <2>1, <2>2, FrameIsRead
  <2>. QED  BY <2>2, <2>3 DEF b
<1>2. ASSUME NEW code \in {2, 7}
      PROVE  P!Read(Frame(w, 6, 547, 546, Body(code, x, NoGi))) =
               [kind |-> "ServerReply", gi |-> NoGi, xid |-> x]
  <2>. DEFINE b == Body(code, x, NoGi)
  <2>1. b # Empty /\ b.code = code /\ b.xid = x /\ "ServerReply" # Unread
    BY <1>0, BodyIs DEF Body
  <2>. HIDE DEF b
  <2>2. /\ P!Classify(547, 546, b) = "ServerReply"
        /\ P!GiAddr(547, 546, b) = NoGi /\ P!XidOf(547, 546, b) = x
    BY <2>1, PortsAreRead
  <2>3. P!Read(Frame(w, 6, 547, 546, b)) =
          [kind |-> "ServerReply", gi |-> P!GiAddr(547, 546, b), xid |-> P!XidOf(547, 546, b)]
    BY <1>0, <2>1, <2>2, FrameIsRead
  <2>. QED  BY <2>2, <2>3 DEF b
<1>3. CASE Way[m] = "relayed4"
  <2>1. PICK d \in {67, 68} : AnswerFrame(w, m, e, gi) = Frame(w, 4, 67, d, Body(2, x, gi))
    BY <1>3 DEF AnswerFrame, x, P!DHCP_SERVER, P!DHCP_CLIENT
  <2>2. P!Read(AnswerFrame(w, m, e, gi)) = [kind |-> "ServerReply", gi |-> gi, xid |-> x]
    BY <1>0, <1>1, <2>1
  <2>. QED  BY <1>3, <2>2 DEF Stamped, x
<1>4. CASE Way[m] = "direct4"
  <2>1. AnswerFrame(w, m, e, gi) = Frame(w, 4, 67, 68, Body(2, x, NoGi))
    BY <1>4 DEF AnswerFrame, x, P!DHCP_SERVER, P!DHCP_CLIENT
  <2>2. P!Read(AnswerFrame(w, m, e, gi)) = [kind |-> "ServerReply", gi |-> NoGi, xid |-> x]
    BY <1>0, <1>1, <2>1
  <2>. QED  BY <1>4, <2>2 DEF Stamped, x
<1>5. CASE Way[m] = "direct6"
  <2>1. PICK code \in {2, 7} :
          AnswerFrame(w, m, e, gi) = Frame(w, 6, 547, 546, Body(code, x, NoGi))
    BY <1>5 DEF AnswerFrame, x, P!DHCP6_SERVER, P!DHCP6_CLIENT
  <2>2. P!Read(AnswerFrame(w, m, e, gi)) = [kind |-> "ServerReply", gi |-> NoGi, xid |-> x]
    BY <1>0, <1>2, <2>1
  <2>. QED  BY <1>5, <2>2 DEF Stamped, x
<1>. QED  BY <1>3, <1>4, <1>5, ExchangeAssumption

LEMMA TftpIsRead ==
  ASSUME NEW w \in Wrappings
  PROVE  /\ P!Read(TftpFrame(w, 1, P!Ephemeral, P!TFTP)) =
              [kind |-> "TftpRequest", gi |-> NoGi, xid |-> NoXid]
         /\ \A code \in {3, 5, 6} :
              P!Read(TftpFrame(w, code, P!TFTP, P!Ephemeral)) =
                [kind |-> "TftpReply", gi |-> NoGi, xid |-> NoXid]
         /\ P!Read(TftpFrame(w, 4, P!Ephemeral, P!TFTP)) = Unread
         /\ \A code \in {3, 4, 5, 6} :
              P!Read(TftpFrame(w, code, P!Ephemeral, P!Ephemeral)) = Unread
         /\ \A kind \in P!Kinds : [kind |-> kind, gi |-> NoGi, xid |-> NoXid] # Unread
<1>. DEFINE b(code) == Body(code, NoXid, NoGi)
<1>1. \A code \in Nat : b(code) # Empty /\ b(code).code = code
  BY BodyIs DEF Body, Addresses
<1>2. /\ "TftpRequest" # Unread /\ "TftpReply" # Unread
      /\ \A kind \in P!Kinds : [kind |-> kind, gi |-> NoGi, xid |-> NoXid] # Unread
      /\ "TftpRequest" \in P!Kinds /\ "TftpReply" \in P!Kinds
  BY BodyIs DEF Addresses, P!Kinds
<1>3. \A code, s, d : TftpFrame(w, code, s, d) = Frame(w, 4, s, d, b(code))
  BY DEF TftpFrame
<1>. HIDE DEF b
<1>4. /\ P!Classify(P!Ephemeral, P!TFTP, b(1)) = "TftpRequest" /\ P!Classify(P!Ephemeral, P!TFTP, b(4)) = Unread
      /\ \A code \in {3, 5, 6} : P!Classify(P!TFTP, P!Ephemeral, b(code)) = "TftpReply"
  BY <1>1, PortsAreRead DEF P!TftpKind
<1>5. \A code : /\ P!GiAddr(P!Ephemeral, P!TFTP, b(code)) = NoGi /\ P!XidOf(P!Ephemeral, P!TFTP, b(code)) = NoXid
                /\ P!GiAddr(P!TFTP, P!Ephemeral, b(code)) = NoGi /\ P!XidOf(P!TFTP, P!Ephemeral, b(code)) = NoXid
  BY DEF P!GiAddr, P!XidOf, P!Dhcp4, P!Dhcp6, P!DHCP_SERVER, P!DHCP_CLIENT,
         P!DHCP6_SERVER, P!DHCP6_CLIENT, P!Ephemeral, P!TFTP
<1>6. P!Read(Frame(w, 4, P!Ephemeral, P!TFTP, b(1))) =
        [kind |-> "TftpRequest", gi |-> NoGi, xid |-> NoXid]
  BY <1>2, <1>4, <1>5, FrameIsRead
<1>7. ASSUME NEW code \in {3, 5, 6}
      PROVE  P!Read(Frame(w, 4, P!TFTP, P!Ephemeral, b(code))) =
               [kind |-> "TftpReply", gi |-> NoGi, xid |-> NoXid]
  <2>1. P!Classify(P!TFTP, P!Ephemeral, b(code)) = "TftpReply"
    BY <1>4
  <2>. QED  BY <1>2, <1>5, <2>1, FrameIsRead
<1>8. P!Read(Frame(w, 4, P!Ephemeral, P!TFTP, b(4))) = Unread
  <2>. DEFINE f == Frame(w, 4, P!Ephemeral, P!TFTP, b(4))
  <2>1. f.sport = P!Ephemeral /\ f.dport = P!TFTP /\ f.body = b(4)
    BY DEF Frame
  <2>. HIDE DEF f
  <2>2. P!Read(f) = Unread
    BY <1>4, <2>1 DEF P!Read
  <2>. QED  BY <2>2 DEF f
<1>9. ASSUME NEW code \in {3, 4, 5, 6}
      PROVE  P!Read(Frame(w, 4, P!Ephemeral, P!Ephemeral, b(code))) = Unread
  <2>. DEFINE f == Frame(w, 4, P!Ephemeral, P!Ephemeral, b(code))
  <2>1. f.sport = P!Ephemeral /\ f.dport = P!Ephemeral /\ f.body = b(code)
    BY DEF Frame
  <2>2. P!Classify(P!Ephemeral, P!Ephemeral, b(code)) = Unread
    BY <1>1, PortsAreRead
  <2>. HIDE DEF f
  <2>3. P!Read(f) = Unread
    BY <2>1, <2>2 DEF P!Read
  <2>. QED  BY <2>3 DEF f
<1>. QED  BY <1>2, <1>3, <1>6, <1>7, <1>8, <1>9

\* Whatever is no UDP datagram is left unread, its bytes notwithstanding.
LEMMA StraysAreUnread ==
  ASSUME NEW w \in Wrappings, NEW frame \in Strays(w)
  PROVE  P!Read(frame) = Unread
<1>. DEFINE f == Frame(w, 4, P!DHCP_SERVER, P!DHCP_SERVER, Body(1, NoXid, NoGi))
<1>1. f = [tags |-> f.tags, extensions |-> f.extensions, version |-> 4, protocol |-> 17,
           laterFragment |-> FALSE, sport |-> f.sport, dport |-> f.dport, body |-> f.body]
  BY DEF Frame, P!UDP
<1>2. frame \in {[f EXCEPT !.protocol = 6], [f EXCEPT !.laterFragment = TRUE],
                [f EXCEPT !.version = 0], [f EXCEPT !.tags = 3],
                [f EXCEPT !.version = 6, !.extensions = 9]}
  BY DEF Strays, P!MaxTags, P!MaxExtensions
<1>. HIDE DEF f
<1>3. ~P!HasUdp(frame)
  <2>1. CASE frame = [f EXCEPT !.protocol = 6]
    BY <1>1, <2>1 DEF P!HasUdp, P!UDP
  <2>2. CASE frame = [f EXCEPT !.laterFragment = TRUE]
    BY <1>1, <2>2 DEF P!HasUdp
  <2>3. CASE frame = [f EXCEPT !.version = 0]
    BY <1>1, <2>3 DEF P!HasUdp
  <2>4. CASE frame = [f EXCEPT !.tags = 3]
    BY <1>1, <2>4 DEF P!HasUdp, P!MaxTags
  <2>5. CASE frame = [f EXCEPT !.version = 6, !.extensions = 9]
    BY <1>1, <2>5 DEF P!HasUdp, P!MaxExtensions
  <2>. QED  BY <1>2, <2>1, <2>2, <2>3, <2>4, <2>5
<1>. QED  BY <1>3 DEF P!Read

-----------------------------------------------------------------------------
(***************************************************************************)
(* What a frame adds to the rows                                            *)
(***************************************************************************)

\* The fields of a row that only grow by what a frame adds.
Fields == {"requests", "replies", "tftpRequests", "tftpSends", "answered", "answerMsTotal"}

\* One row is stored, with d[F] more of each field.
Adds(k, d) ==
  /\ DOMAIN rows' = DOMAIN rows \cup {k}
  /\ \A h \in DOMAIN rows \ {k} : rows'[h] = rows[h]
  /\ \A F \in Fields : rows'[k][F] = Had(k, F) + d[F]

Counted == Fields \ {"answered", "answerMsTotal"}

OneMore(field) == [F \in Fields |-> IF F = field THEN 1 ELSE 0]
Answered(took) ==
  [F \in Fields |-> IF F \in {"replies", "answered"} THEN 1
                    ELSE IF F = "answerMsTotal" THEN took ELSE 0]

LEMMA RelayHas ==
  ASSUME NEW r \in R!Relay, NEW F \in Fields
  PROVE  r[F] \in Nat
  BY DEF R!Relay, Fields

LEMMA EntryIs ==
  ASSUME R!TypeOK, NEW g \in Addresses
  PROVE  /\ R!Entry(g) \in R!Relay
         /\ \A F \in Fields : R!Entry(g)[F] = Had(g, F) /\ Had(g, F) \in Nat
<1>0. R!Now \in Nat
  BY DEF R!TypeOK, R!Now
<1>1. R!Blank \in R!Relay /\ \A F \in Fields : R!Blank[F] = 0
  BY DEF R!Blank, R!Relay, Fields
<1>2. CASE g \notin DOMAIN rows
  <2>1. R!Entry(g) = [R!Blank EXCEPT !.firstSeen = R!Now]
    BY <1>2 DEF R!Entry, R!TypeOK
  <2>2. R!Entry(g) \in R!Relay /\ \A F \in Fields : R!Entry(g)[F] = R!Blank[F]
    BY <1>0, <1>1, <2>1 DEF R!Relay, Fields
  <2>. QED  BY <1>1, <1>2, <2>2 DEF Had
<1>3. CASE g \in DOMAIN rows
  <2>1. rows[g] \in R!Relay
    BY <1>3 DEF R!TypeOK
  <2>2. \/ R!Entry(g) = [rows[g] EXCEPT !.firstSeen = R!Now]
        \/ R!Entry(g) = rows[g]
    BY <1>3 DEF R!Entry
  <2>3. R!Entry(g) \in R!Relay /\ \A F \in Fields : R!Entry(g)[F] = rows[g][F]
    BY <1>0, <2>1, <2>2 DEF R!Relay, Fields
  <2>. QED  BY <1>3, <2>1, <2>3, RelayHas DEF Had
<1>. QED  BY <1>2, <1>3

LEMMA StoreAdds ==
  ASSUME Typed, NEW k \in Addresses, NEW r \in R!Relay, rows' = R!With(rows, k, r),
         NEW d, \A F \in Fields : r[F] = R!Entry(k)[F] + d[F]
  PROVE  /\ NoGi \in DOMAIN rows' /\ DOMAIN rows' \subseteq Addresses
         /\ rows' \in [DOMAIN rows' -> R!Relay]
         /\ IsFiniteSet(DOMAIN rows')
         /\ Adds(k, d)
<1>0. R!TypeOK /\ IsFiniteSet(DOMAIN rows)
  BY DEF Typed
<1>1. /\ DOMAIN rows' = DOMAIN rows \cup {k} /\ rows'[k] = r
      /\ \A h \in DOMAIN rows \ {k} : rows'[h] = rows[h]
      /\ rows' = [h \in DOMAIN rows' |-> rows'[h]]
  BY DEF R!With
<1>2. \A h \in DOMAIN rows : rows[h] \in R!Relay
  BY <1>0 DEF R!TypeOK
<1>3. NoGi \in DOMAIN rows /\ DOMAIN rows \subseteq Addresses
  BY <1>0 DEF R!TypeOK, Addresses
<1>4. IsFiniteSet(DOMAIN rows')
  BY <1>0, <1>1, FS_AddElement
<1>5. \A F \in Fields : rows'[k][F] = Had(k, F) + d[F]
  BY <1>0, <1>1, EntryIs
<1>. QED  BY <1>1, <1>2, <1>3, <1>4, <1>5 DEF Adds

LEMMA RequestAdds ==
  ASSUME Typed, NEW g \in Addresses, NEW x \in Xid, R!Request(g, x), UNCHANGED clock
  PROVE  R!TypeOK' /\ IsFiniteSet(DOMAIN rows') /\ Adds(g, OneMore("requests"))
<1>. DEFINE r == R!Entry(g)
            gap == IF r.lastRequest = Never THEN r.longestGap
                   ELSE R!Larger(r.longestGap, R!Less(R!Now, r.lastRequest))
            asked == r.requests + 1
            a == R!Asking(r)
<1>0. clock \in Nat /\ R!Now = clock /\ sweptMs \in Nat /\ R!TypeOK
  BY DEF Typed, R!TypeOK, R!Now
<1>1. r \in R!Relay
  BY <1>0, EntryIs
<1>2. rows' = R!With(rows, g, a) /\ x # NoXid
  BY Given DEF R!Request
<1>3. gap \in Nat /\ asked \in Nat
  BY <1>0, <1>1 DEF R!Relay, R!Larger, R!Less
<1>4. a = [r EXCEPT !.requests = asked, !.longestGap = gap, !.lastRequest = clock]
  BY <1>0 DEF R!Asking
<1>5. a \in R!Relay /\ \A F \in Fields : a[F] = IF F = "requests" THEN asked ELSE r[F]
  <2>. HIDE DEF gap, asked, r, a
  <2>. QED  BY <1>0, <1>1, <1>3, <1>4 DEF R!Relay, Fields
<1>6. \A F \in Fields : a[F] = r[F] + OneMore("requests")[F]
  <2>. HIDE DEF r, a
  <2>. QED  BY <1>1, <1>5, RelayHas DEF OneMore, asked
<1>7. /\ NoGi \in DOMAIN rows' /\ DOMAIN rows' \subseteq Addresses
      /\ rows' \in [DOMAIN rows' -> R!Relay]
      /\ IsFiniteSet(DOMAIN rows') /\ Adds(g, OneMore("requests"))
  <2>. HIDE DEF a
  <2>. QED  BY <1>2, <1>5, <1>6, StoreAdds
<1>8. /\ DOMAIN pending' \subseteq Xid
      /\ pending' \in [DOMAIN pending' -> [atMs : Nat, gi : Addresses]]
      /\ sweptMs' \in Nat
  <2>1. pending' = R!Await(g, x) /\ sweptMs' \in {clock, sweptMs}
    BY <1>2 DEF R!Request
  <2>2. /\ R!Kept \subseteq DOMAIN pending /\ DOMAIN pending \subseteq Xid
        /\ \A y \in DOMAIN pending : pending[y] \in [atMs : Nat, gi : Addresses]
    BY <1>0 DEF R!Kept, R!Unexpired, R!TypeOK, Addresses
  <2>3. R!Swept = [y \in R!Kept |-> pending[y]]
    BY DEF R!Swept
  <2>4. CASE pending' = R!Swept
    BY <1>0, <2>1, <2>2, <2>3, <2>4
  <2>5. CASE pending' = R!With(R!Swept, x, [atMs |-> clock, gi |-> g])
    <3>1. pending' = [y \in R!Kept \cup {x} |->
                        IF y = x THEN [atMs |-> clock, gi |-> g] ELSE pending[y]]
      BY <2>3, <2>5 DEF R!With
    <3>2. [atMs |-> clock, gi |-> g] \in [atMs : Nat, gi : Addresses]
      BY <1>0
    <3>. QED  BY <1>0, <2>1, <2>2, <3>1, <3>2
  <2>. QED  BY <2>1, <2>4, <2>5 DEF R!Await
<1>9. R!TypeOK'
  BY <1>0, <1>7, <1>8 DEF R!TypeOK, Addresses
<1>. QED  BY <1>7, <1>9

\* A reply that nothing awaited is one more of them; one that was awaited is an
\* answer to it besides.
LEMMA ReplyAdds ==
  ASSUME Typed, NEW g \in Addresses, NEW x \in Xid, R!Reply(g, x), UNCHANGED clock
  PROVE  /\ R!TypeOK' /\ IsFiniteSet(DOMAIN rows') /\ R!Owner(g, x) \in Addresses
         /\ Adds(R!Owner(g, x), IF x \in DOMAIN pending
                                THEN Answered(R!Less(clock, pending[x].atMs))
                                ELSE OneMore("replies"))
<1>. DEFINE o == R!Owner(g, x)
            r == R!Entry(o)
            d == R!Replied(r)
            took == R!Less(clock, pending[x].atMs)
            n == IF x \in DOMAIN pending THEN Answered(took) ELSE OneMore("replies")
<1>0. clock \in Nat /\ R!Now = clock /\ R!TypeOK
  BY DEF Typed, R!TypeOK, R!Now
<1>1. o \in Addresses
  BY <1>0 DEF R!Owner, R!TypeOK, Addresses
<1>2. r \in R!Relay
  BY <1>0, <1>1, EntryIs
<1>3. d \in R!Relay /\ \A F \in Fields : d[F] = r[F] + OneMore("replies")[F]
  <2>. DEFINE more == r.replies + 1
  <2>1. d = [r EXCEPT !.replies = more, !.lastReply = clock]
    BY <1>0 DEF R!Replied
  <2>2. more \in Nat
    BY <1>2 DEF R!Relay
  <2>. HIDE DEF r, d, more
  <2>3. d \in R!Relay /\ \A F \in Fields : d[F] = IF F = "replies" THEN more ELSE r[F]
    BY <1>0, <1>2, <2>1, <2>2 DEF R!Relay, Fields
  <2>. QED  BY <1>2, <2>3, RelayHas DEF OneMore, more
<1>4. ASSUME x \in DOMAIN pending
      PROVE  /\ R!Timed(d, took) \in R!Relay
             /\ \A F \in Fields : R!Timed(d, took)[F] = r[F] + Answered(took)[F]
  <2>1. took \in Nat
    BY <1>0, <1>4 DEF R!TypeOK, R!Less
  <2>. DEFINE worst == R!Larger(d.answerMsWorst, took)
              sum == d.answerMsTotal + took
              more == d.answered + 1
  <2>2. worst \in Nat /\ sum \in Nat /\ more \in Nat
    BY <1>3, <2>1 DEF R!Larger, R!Relay
  <2>3. R!Timed(d, took) = [d EXCEPT !.answered = more,
                                     !.answerMsTotal = sum, !.answerMsWorst = worst]
    BY DEF R!Timed
  <2>. HIDE DEF r, d, worst, sum, more, took
  <2>4. /\ R!Timed(d, took) \in R!Relay
        /\ \A F \in Fields : R!Timed(d, took)[F] =
              IF F = "answered" THEN more ELSE IF F = "answerMsTotal" THEN sum ELSE d[F]
    BY <1>3, <2>2, <2>3 DEF R!Relay, Fields
  <2>5. \A F \in Fields : r[F] \in Nat
    BY <1>2, RelayHas
  <2>. QED  BY <1>3, <2>1, <2>4, <2>5 DEF OneMore, Answered, Fields, more, sum
<1>5. PICK row \in R!Relay : /\ rows' = R!With(rows, o, row)
                             /\ \A F \in Fields : row[F] = r[F] + n[F]
  <2>1. CASE x \in DOMAIN pending
    <3>1. rows' = R!With(rows, o, R!Timed(d, took))
      BY <2>1 DEF R!Reply
    <3>. HIDE DEF r, d, o, took
    <3>. QED  BY <1>4, <2>1, <3>1
  <2>2. CASE x \notin DOMAIN pending
    <3>1. rows' = R!With(rows, o, d)
      BY <2>2 DEF R!Reply
    <3>. HIDE DEF r, d, o, took
    <3>. QED  BY <1>3, <2>2, <3>1
  <2>. QED  BY <2>1, <2>2
<1>6. /\ NoGi \in DOMAIN rows' /\ DOMAIN rows' \subseteq Addresses
      /\ rows' \in [DOMAIN rows' -> R!Relay]
      /\ IsFiniteSet(DOMAIN rows') /\ Adds(o, n)
  <2>. HIDE DEF o, n
  <2>. QED  BY <1>1, <1>5, StoreAdds DEF r
<1>7. pending' = [y \in DOMAIN pending \ {x} |-> pending[y]] /\ sweptMs' = sweptMs
  BY DEF R!Reply
<1>8. R!TypeOK'
  BY <1>0, <1>6, <1>7 DEF R!TypeOK, Addresses
<1>. QED  BY <1>1, <1>6, <1>8

LEMMA TftpAdds ==
  ASSUME Typed, UNCHANGED clock, NEW F \in {"tftpRequests", "tftpSends"},
         IF F = "tftpRequests" THEN R!TftpRequest ELSE R!TftpSend
  PROVE  R!TypeOK' /\ IsFiniteSet(DOMAIN rows') /\ Adds(NoGi, OneMore(F)) /\ pending' = pending
<1>. DEFINE r == R!Entry(NoGi)
            more == r[F] + 1
<1>0. R!TypeOK /\ NoGi \in Addresses /\ F \in Fields
  BY DEF Typed, Addresses, Fields
<1>1. r \in R!Relay
  BY <1>0, EntryIs
<1>2. PICK row : /\ rows' = R!With(rows, NoGi, row)
                 /\ row = [r EXCEPT ![F] = more]
  BY DEF R!TftpRequest, R!TftpSend
<1>3. more \in Nat
  BY <1>0, <1>1, RelayHas
<1>. HIDE DEF r, more
<1>4. row \in R!Relay /\ \A G \in Fields : row[G] = IF G = F THEN more ELSE r[G]
  BY <1>0, <1>1, <1>2, <1>3 DEF R!Relay, Fields
<1>5. \A G \in Fields : row[G] = r[G] + OneMore(F)[G]
  BY <1>0, <1>1, <1>4, RelayHas DEF OneMore, more
<1>6. /\ NoGi \in DOMAIN rows' /\ DOMAIN rows' \subseteq Addresses
      /\ rows' \in [DOMAIN rows' -> R!Relay]
      /\ IsFiniteSet(DOMAIN rows') /\ Adds(NoGi, OneMore(F))
  BY <1>0, <1>2, <1>4, <1>5, StoreAdds DEF r
<1>7. UNCHANGED <<pending, sweptMs>>
  BY DEF R!TftpRequest, R!TftpSend
<1>8. R!TypeOK'
  BY <1>0, <1>6, <1>7 DEF R!TypeOK, Addresses
<1>. QED  BY <1>6, <1>7, <1>8

-----------------------------------------------------------------------------
(***************************************************************************)
(* What a step adds to the rows and to the truth                            *)
(***************************************************************************)

\* The truth about modem m and the row k get the same.
Steps(m, k, d, Fs) ==
  /\ Typed' /\ Adds(k, d) /\ d \in [Fields -> Nat]
  /\ \A F \in Fs, n \in Modems :
       Really(F)'[n] = Really(F)[n] + (IF n = m THEN d[F] ELSE 0)

LEMMA ReallyNat ==
  ASSUME Typed, NEW F \in Fields
  PROVE  \A m \in Modems : Really(F)[m] \in Nat
<1>1. \A m \in Modems : boot[m] \in Boots /\ fetch[m] \in Fetches
  BY DEF Typed
<1>2. \A m \in Modems : Asks[m] \in Nat
  BY <1>1 DEF Asks, Boots, Exchanges
<1>. QED  BY <1>1, <1>2 DEF Really, Fields, Boots, Fetches, SeenSends

LEMMA KeepsByRow ==
  ASSUME Typed, NEW m \in Modems, NEW k \in Addresses, NEW d, NEW F \in Fields,
         Steps(m, k, d, {F}), d[F] = 0 \/ k = RowOf(m), TrueByRow(F)
  PROVE  TrueByRow(F)'
<1>1. SUFFICES ASSUME NEW gi \in Addresses
               PROVE  Had(gi, F)' = SumFunctionOnSet(Really(F), Behind(gi))'
  BY DEF TrueByRow
<1>. DEFINE S == Behind(gi)
            f == Really(F)
            g == Really(F)'
            n == d[F]
<1>2. IsFiniteSet(S) /\ S \subseteq Modems
  BY Given, FS_Subset DEF Behind
<1>3. n \in Nat /\ \A y \in S : f[y] \in Nat /\ g[y] = f[y] + (IF y = m THEN n ELSE 0)
  BY <1>2, ReallyNat DEF Steps
<1>4. /\ SumFunctionOnSet(f, S) \in Nat
      /\ SumFunctionOnSet(g, S) = SumFunctionOnSet(f, S) + (IF m \in S THEN n ELSE 0)
  <2>. HIDE DEF S, f, g, n
  <2>. QED  BY <1>2, <1>3, SumAdds
<1>5. Had(gi, F)' = Had(gi, F) + (IF gi = k THEN n ELSE 0) /\ Had(gi, F) \in Nat
  <2>1. Had(gi, F) \in Nat
    BY EntryIs DEF Typed
  <2>. QED  BY <2>1 DEF Steps, Adds, Had
<1>6. m \in S <=> gi = RowOf(m)
  BY DEF Behind
<1>7. SumFunctionOnSet(Really(F), Behind(gi))' = SumFunctionOnSet(g, S)
  BY DEF SumFunctionOnSet, FoldFunctionOnSet, MapThenFoldSet, Behind, RowOf
<1>8. Had(gi, F) = SumFunctionOnSet(f, S)
  BY DEF TrueByRow
<1>. HIDE DEF S, f, g, n
<1>. QED  BY <1>3, <1>4, <1>5, <1>6, <1>7, <1>8 DEF n

LEMMA KeepsInAll ==
  ASSUME Typed, NEW m \in Modems, NEW k \in Addresses, NEW d, NEW F \in Fields,
         Steps(m, k, d, {F}), TrueInAll(F)
  PROVE  TrueInAll(F)'
<1>. DEFINE f == Really(F)
            g == Really(F)'
            n == d[F]
            S == DOMAIN rows
            a == [h \in S |-> rows[h][F]]
            b == [h \in DOMAIN rows' |-> rows'[h][F]]
<1>1. IsFiniteSet(Modems) /\ IsFiniteSet(S)
  BY Given DEF Typed
<1>2. n \in Nat /\ \A y \in Modems : f[y] \in Nat /\ g[y] = f[y] + (IF y = m THEN n ELSE 0)
  BY ReallyNat DEF Steps
<1>3. /\ SumFunctionOnSet(f, Modems) \in Nat
      /\ SumFunctionOnSet(g, Modems) = SumFunctionOnSet(f, Modems) + n
  <2>. HIDE DEF f, g, n
  <2>. QED  BY <1>1, <1>2, SumAdds
<1>4. /\ DOMAIN rows' = S \cup {k}
      /\ \A h \in S \ {k} : b[h] = a[h]
      /\ b[k] = Had(k, F) + n /\ Had(k, F) \in Nat
      /\ Had(k, F) = IF k \in S THEN a[k] ELSE 0
      /\ \A h \in S : a[h] \in Nat
  <2>1. Had(k, F) \in Nat
    BY EntryIs DEF Typed
  <2>2. \A h \in S : rows[h] \in R!Relay /\ rows[h][F] \in Nat
    BY RelayHas DEF Typed, R!TypeOK
  <2>. QED  BY <2>1, <2>2 DEF Steps, Adds, Had
<1>5. SumFunction(a) = SumFunctionOnSet(a, S) /\ SumFunction(b) = SumFunctionOnSet(b, S \cup {k})
  <2>1. DOMAIN a = S /\ DOMAIN b = S \cup {k}
    BY <1>4
  <2>. HIDE DEF a, b
  <2>. QED  BY <2>1 DEF SumFunction
<1>6. TrueInAll(F) <=> SumFunction(a) = SumFunctionOnSet(f, Modems)
  BY DEF TrueInAll
<1>7. TrueInAll(F)' <=> SumFunction(b) = SumFunctionOnSet(g, Modems)
  BY DEF TrueInAll, SumFunction, SumFunctionOnSet, FoldFunctionOnSet, MapThenFoldSet
<1>. HIDE DEF a, b, f, g, n, S
<1>8. IsFiniteSet(S) /\ b[k] \in Nat /\ (\A h \in S : a[h] \in Nat) /\ \A h \in S \ {k} : b[h] = a[h]
  BY <1>1, <1>2, <1>4
<1>9. SumFunctionOnSet(b, S \cup {k}) =
        b[k] + (SumFunctionOnSet(a, S) - (IF k \in S THEN a[k] ELSE 0))
  BY ONLY <1>8, SumChanges
<1>. QED  BY <1>2, <1>3, <1>4, <1>5, <1>6, <1>7, <1>9

LEMMA KeepsUnrelayed ==
  ASSUME Typed, NEW m \in Modems, NEW k \in Addresses, NEW d, NEW F \in Fields,
         Steps(m, k, d, {F}), d[F] = 0 \/ k = NoGi, TrueUnrelayed(F)
  PROVE  TrueUnrelayed(F)'
<1>. DEFINE f == Really(F)
            g == Really(F)'
            n == d[F]
<1>1. n \in Nat /\ \A y \in Modems : f[y] \in Nat /\ g[y] = f[y] + (IF y = m THEN n ELSE 0)
  BY ReallyNat DEF Steps
<1>2. /\ SumFunctionOnSet(f, Modems) \in Nat
      /\ SumFunctionOnSet(g, Modems) = SumFunctionOnSet(f, Modems) + n
  <2>1. IsFiniteSet(Modems)
    BY Given
  <2>. HIDE DEF f, g, n
  <2>. QED  BY <1>1, <2>1, SumAdds
<1>3. Had(NoGi, F)' = Had(NoGi, F) + n
  <2>1. Had(NoGi, F) \in Nat
    BY EntryIs DEF Typed, Addresses
  <2>. QED  BY <1>1, <2>1 DEF Steps, Adds, Had
<1>4. SumFunctionOnSet(Really(F), Modems)' = SumFunctionOnSet(g, Modems)
  BY DEF SumFunctionOnSet, FoldFunctionOnSet, MapThenFoldSet
<1>. HIDE DEF f, g, n
<1>. QED  BY <1>2, <1>3, <1>4 DEF TrueUnrelayed, f

-----------------------------------------------------------------------------
(***************************************************************************)
(* The steps of the plant                                                   *)
(***************************************************************************)

LEMMA AskIs ==
  ASSUME Typed, NEW m \in Modems, NEW e \in Exchanges, NEW w \in Wrappings, Ask(m, e, w)
  PROVE  /\ R!Request(RowOf(m), XidOn(m, e)) /\ UNCHANGED <<clock, fetch>>
         /\ boot' \in [Modems -> Boots] /\ \A n \in Modems \ {m} : boot'[n] = boot[n]
         /\ boot'[m].stage = e /\ boot'[m].since = clock
         /\ boot'[m].asked = [boot[m].asked EXCEPT ![e] = boot[m].asked[e] + 1]
         /\ boot'[m].owed = [boot[m].owed EXCEPT ![e] = boot[m].owed[e] + 1]
         /\ boot'[m].served = boot[m].served /\ boot'[m].answered = boot[m].answered
         /\ boot'[m].tookMs = boot[m].tookMs
<1>1. P!Read(AskFrame(w, m, e)) =
        [kind |-> "ClientRequest", gi |-> RowOf(m), xid |-> XidOn(m, e)]
  BY AskIsRead
<1>2. [kind |-> "ClientRequest", gi |-> RowOf(m), xid |-> XidOn(m, e)] # Unread
  BY Given, BodyIs DEF P!Kinds
<1>3. Captured(AskFrame(w, m, e)) <=> R!Request(RowOf(m), XidOn(m, e))
  BY <1>1, <1>2 DEF Captured
<1>. DEFINE a == [boot[m].asked EXCEPT ![e] = boot[m].asked[e] + 1]
            o == [boot[m].owed EXCEPT ![e] = boot[m].owed[e] + 1]
            b == [boot[m] EXCEPT !.stage = e, !.since = clock, !.asked = a, !.owed = o]
<1>4. boot \in [Modems -> Boots] /\ boot[m] \in Boots /\ clock \in Nat
  BY DEF Typed
<1>5. boot' = [boot EXCEPT ![m] = b]
  BY <1>4 DEF Ask, Boots
<1>6. a \in [Exchanges -> Nat] /\ o \in [Exchanges -> Nat] /\ e \in Stages
  BY <1>4 DEF Boots, Stages
<1>. HIDE DEF a, o
<1>7. /\ b \in Boots /\ b.stage = e /\ b.since = clock /\ b.asked = a /\ b.owed = o
      /\ b.served = boot[m].served /\ b.answered = boot[m].answered
      /\ b.tookMs = boot[m].tookMs
  BY <1>4, <1>6 DEF Boots
<1>. HIDE DEF b
<1>8. boot' \in [Modems -> Boots] /\ boot'[m] = b /\ \A n \in Modems \ {m} : boot'[n] = boot[n]
  BY <1>4, <1>5, <1>7
<1>. QED  BY <1>3, <1>7, <1>8 DEF Ask, a, o

LEMMA AnswerIs ==
  ASSUME Typed, NEW m \in Modems, NEW e \in Exchanges, NEW w \in Wrappings,
         NEW gi \in Stamps(m), Answer(m, e, w, gi)
  PROVE  /\ R!Reply(Stamped(m, gi), XidOn(m, e)) /\ UNCHANGED <<clock, fetch>>
         /\ boot' \in [Modems -> Boots] /\ \A n \in Modems \ {m} : boot'[n] = boot[n]
         /\ boot[m].owed[e] > 0
         /\ boot'[m].owed = [boot[m].owed EXCEPT ![e] = boot[m].owed[e] - 1]
         /\ boot'[m].asked = boot[m].asked /\ boot'[m].served = boot[m].served + 1
         /\ boot[m].stage # e =>
              /\ boot'[m].stage = boot[m].stage /\ boot'[m].since = boot[m].since
              /\ boot'[m].answered = boot[m].answered /\ boot'[m].tookMs = boot[m].tookMs
         /\ boot[m].stage = e =>
              /\ boot'[m].stage = (IF e = "first" THEN "offered" ELSE "bound")
              /\ boot'[m].answered = boot[m].answered + 1
              /\ boot'[m].tookMs = boot[m].tookMs + (clock - boot[m].since)
<1>1. P!Read(AnswerFrame(w, m, e, gi)) =
        [kind |-> "ServerReply", gi |-> Stamped(m, gi), xid |-> XidOn(m, e)]
  BY AnswerIsRead
<1>2. Stamped(m, gi) \in Addresses
  BY Given DEF Stamped, Stamps, Addresses
<1>3. [kind |-> "ServerReply", gi |-> Stamped(m, gi), xid |-> XidOn(m, e)] # Unread
  BY <1>2, Given, BodyIs DEF P!Kinds
<1>4. Captured(AnswerFrame(w, m, e, gi)) <=> R!Reply(Stamped(m, gi), XidOn(m, e))
  BY <1>1, <1>3 DEF Captured
<1>. DEFINE o == [boot[m].owed EXCEPT ![e] = boot[m].owed[e] - 1]
            s == IF e = "first" THEN "offered" ELSE "bound"
            more == boot[m].served + 1
            many == boot[m].answered + 1
            took == boot[m].tookMs + (clock - boot[m].since)
            late == [boot[m] EXCEPT !.owed = o, !.served = more]
            b == [boot[m] EXCEPT !.stage = s, !.owed = o, !.served = more,
                                 !.answered = many, !.tookMs = took]
<1>5. boot \in [Modems -> Boots] /\ boot[m] \in Boots /\ clock \in Nat
  BY DEF Typed
<1>6. boot' = [boot EXCEPT ![m] = IF boot[m].stage = e THEN b ELSE late]
  BY <1>5 DEF Answer, Boots
<1>7. /\ o \in [Exchanges -> Nat] /\ s \in Stages /\ more \in Nat /\ many \in Nat
      /\ boot[m].owed[e] > 0
  <2>1. boot[m].owed \in [Exchanges -> Nat] /\ boot[m].owed[e] > 0
    BY <1>5 DEF Boots, Answer
  <2>. QED  BY <1>5, <2>1 DEF Boots, Stages
<1>8. boot[m].stage = e => took \in Nat
  BY <1>5 DEF Typed, Boots
<1>. HIDE DEF o, s, more, many, took
<1>9. late \in Boots
  BY <1>5, <1>7 DEF Boots
<1>10. boot[m].stage = e => b \in Boots
  BY <1>5, <1>7, <1>8 DEF Boots
<1>11. /\ late.stage = boot[m].stage /\ late.since = boot[m].since /\ late.owed = o
       /\ late.asked = boot[m].asked /\ late.served = more
       /\ late.answered = boot[m].answered /\ late.tookMs = boot[m].tookMs
  BY <1>5 DEF Boots
<1>12. /\ b.stage = s /\ b.owed = o /\ b.asked = boot[m].asked /\ b.served = more
       /\ b.answered = many /\ b.tookMs = took
  BY <1>5 DEF Boots
<1>. HIDE DEF b, late
<1>13. /\ boot' \in [Modems -> Boots]
       /\ boot'[m] = IF boot[m].stage = e THEN b ELSE late
       /\ \A n \in Modems \ {m} : boot'[n] = boot[n]
  BY <1>5, <1>6, <1>9, <1>10
<1>. QED  BY <1>4, <1>7, <1>11, <1>12, <1>13 DEF Answer, o, s, more, many, took

LEMMA AskSteps ==
  ASSUME Typed, NEW m \in Modems, NEW e \in Exchanges, NEW w \in Wrappings, Ask(m, e, w)
  PROVE  Steps(m, RowOf(m), OneMore("requests"), Fields)
<1>. DEFINE d == OneMore("requests")
<1>1. RowOf(m) \in Addresses /\ XidOn(m, e) \in Xid
  BY Given
<1>2. R!TypeOK' /\ IsFiniteSet(DOMAIN rows') /\ Adds(RowOf(m), d)
  BY <1>1, AskIs, RequestAdds
<1>3. Typed'
  <2>1. \A n \in Modems : (boot[n].stage \in Exchanges => boot[n].since \in 1 .. clock)'
    <3>1. /\ boot'[m].since = clock /\ clock' = clock
          /\ \A n \in Modems \ {m} : boot'[n] = boot[n]
      BY AskIs
    <3>. QED  BY <3>1 DEF Typed
  <2>2. clock' = clock /\ fetch' = fetch /\ boot' \in [Modems -> Boots]
    BY AskIs
  <2>. QED  BY <1>2, <2>1, <2>2 DEF Typed
<1>4. d \in [Fields -> Nat] /\ \A F \in Fields : d[F] = IF F = "requests" THEN 1 ELSE 0
  BY DEF OneMore
<1>5. Asks'[m] = Asks[m] + 1 /\ \A n \in Modems \ {m} : Asks'[n] = Asks[n]
  <2>1. /\ boot[m].asked \in [Exchanges -> Nat]
        /\ boot'[m].asked = [boot[m].asked EXCEPT ![e] = boot[m].asked[e] + 1]
        /\ \A n \in Modems \ {m} : boot'[n] = boot[n]
    BY AskIs DEF Typed, Boots
  <2>2. boot'[m].asked["first"] + boot'[m].asked["second"]
          = boot[m].asked["first"] + boot[m].asked["second"] + 1
    BY <2>1 DEF Exchanges
  <2>. QED  BY <2>1, <2>2 DEF Asks
<1>6. \A F \in Fields \ {"requests"}, n \in Modems : Really(F)'[n] = Really(F)[n]
  BY AskIs DEF Really, Fields, SeenSends
<1>7. \A n \in Modems : Really("requests")'[n] = Asks'[n] /\ Really("requests")[n] = Asks[n]
  BY DEF Really
<1>8. \A F \in Fields, n \in Modems : Really(F)[n] \in Nat
  BY ReallyNat
<1>. HIDE DEF d
<1>9. \A F \in Fields, n \in Modems :
        Really(F)'[n] = Really(F)[n] + (IF n = m THEN d[F] ELSE 0)
  BY <1>4, <1>5, <1>6, <1>7, <1>8
<1>. QED  BY <1>2, <1>3, <1>4, <1>9 DEF Steps, d

Credit(x) ==
  IF x \in DOMAIN pending THEN Answered(R!Less(clock, pending[x].atMs)) ELSE OneMore("replies")

LEMMA AnswerSteps ==
  ASSUME Typed, NEW m \in Modems, NEW e \in Exchanges, NEW w \in Wrappings,
         NEW gi \in Stamps(m), Answer(m, e, w, gi)
  PROVE  LET x == XidOn(m, e)
             k == R!Owner(Stamped(m, gi), x)
         IN  k \in Addresses /\ Steps(m, k, Credit(x), Counted)
<1>. DEFINE x == XidOn(m, e)
            g == Stamped(m, gi)
            k == R!Owner(g, x)
            d == Credit(x)
<1>0. /\ R!Reply(g, x) /\ UNCHANGED <<clock, fetch>>
      /\ boot' \in [Modems -> Boots] /\ \A n \in Modems \ {m} : boot'[n] = boot[n]
      /\ boot'[m].asked = boot[m].asked /\ boot'[m].served = boot[m].served + 1
      /\ boot[m].stage # e =>
           boot'[m].stage = boot[m].stage /\ boot'[m].since = boot[m].since
      /\ boot[m].stage = e =>
           boot'[m].stage = (IF e = "first" THEN "offered" ELSE "bound")
  BY AnswerIs, Zenon
<1>1. x \in Xid /\ g \in Addresses /\ R!Reply(g, x) /\ UNCHANGED <<clock, fetch>>
  BY <1>0, Given DEF Stamped, Stamps, Addresses
<1>2. R!TypeOK' /\ IsFiniteSet(DOMAIN rows') /\ k \in Addresses /\ Adds(k, d)
  <2>. HIDE DEF x, g
  <2>. QED  BY <1>1, ReplyAdds DEF Credit
<1>3. Typed'
  <2>1. \A n \in Modems : (boot[n].stage \in Exchanges => boot[n].since \in 1 .. clock)'
    <3>1. /\ clock' = clock /\ \A n \in Modems \ {m} : boot'[n] = boot[n]
          /\ boot[m].stage # e =>
               boot'[m].stage = boot[m].stage /\ boot'[m].since = boot[m].since
          /\ boot[m].stage = e => boot'[m].stage \notin Exchanges
      BY <1>0 DEF Exchanges
    <3>. QED  BY <3>1 DEF Typed
  <2>2. clock' = clock /\ fetch' = fetch /\ boot' \in [Modems -> Boots]
    BY <1>0
  <2>. QED  BY <1>2, <2>1, <2>2 DEF Typed
<1>4. /\ d \in [Fields -> Nat]
      /\ \A F \in Counted : d[F] = IF F = "replies" THEN 1 ELSE 0
  <2>1. x \in DOMAIN pending => R!Less(clock, pending[x].atMs) \in Nat
    BY DEF Typed, R!TypeOK, R!Less
  <2>. QED  BY <2>1 DEF Credit, Answered, OneMore, Fields, Counted
<1>5. \A F \in Counted \ {"replies"}, n \in Modems : Really(F)'[n] = Really(F)[n]
  <2>1. boot'[m].asked = boot[m].asked /\ fetch' = fetch /\ \A n \in Modems \ {m} : boot'[n] = boot[n]
    BY <1>0
  <2>. QED  BY <2>1 DEF Really, Fields, Counted, Asks, SeenSends
<1>6. \A n \in Modems : Really("replies")'[n] = Really("replies")[n] + (IF n = m THEN 1 ELSE 0)
  <2>1. \A n \in Modems : Really("replies")'[n] = boot'[n].served /\ Really("replies")[n] = boot[n].served
    BY DEF Really
  <2>2. \A n \in Modems : boot[n].served \in Nat
    BY DEF Typed, Boots
  <2>3. boot'[m].served = boot[m].served + 1 /\ \A n \in Modems \ {m} : boot'[n] = boot[n]
    BY <1>0
  <2>. QED  BY <2>1, <2>2, <2>3
<1>7. \A F \in Fields, n \in Modems : Really(F)[n] \in Nat
  BY ReallyNat
<1>. HIDE DEF d, k
<1>8. \A F \in Counted, n \in Modems :
        Really(F)'[n] = Really(F)[n] + (IF n = m THEN d[F] ELSE 0)
  BY <1>4, <1>5, <1>6, <1>7 DEF Counted
<1>. QED  BY <1>2, <1>3, <1>4, <1>8 DEF Steps, d, k

LEMMA FetchIs ==
  ASSUME Typed, NEW m \in Modems, NEW s \in Transfers,
         NEW i \in Nat, NEW j \in Nat,
         fetch' = [fetch EXCEPT ![m].stage = s, ![m].reads = @ + i, ![m].sends = @ + j]
  PROVE  /\ fetch' \in [Modems -> Fetches]
         /\ \A n \in Modems : /\ fetch'[n].reads = fetch[n].reads + (IF n = m THEN i ELSE 0)
                              /\ fetch'[n].sends = fetch[n].sends + (IF n = m THEN j ELSE 0)
<1>1. fetch \in [Modems -> Fetches] /\ \A n \in Modems : fetch[n] \in Fetches
  BY DEF Typed
<1>. DEFINE f == [fetch[m] EXCEPT !.stage = s, !.reads = fetch[m].reads + i,
                                  !.sends = fetch[m].sends + j]
<1>2. fetch' = [fetch EXCEPT ![m] = f]
  BY <1>1 DEF Fetches
<1>3. f \in Fetches /\ f.reads = fetch[m].reads + i /\ f.sends = fetch[m].sends + j
  <2>. DEFINE r == fetch[m].reads + i
              u == fetch[m].sends + j
  <2>1. r \in Nat /\ u \in Nat
    BY <1>1 DEF Fetches
  <2>2. f = [fetch[m] EXCEPT !.stage = s, !.reads = r, !.sends = u]
    OBVIOUS
  <2>. HIDE DEF f, r, u
  <2>3. f \in Fetches /\ f.reads = r /\ f.sends = u
    BY <1>1, <2>1, <2>2 DEF Fetches
  <2>. QED  BY <2>3 DEF r, u
<1>. HIDE DEF f
<1>4. \A n \in Modems : fetch[n].reads \in Nat /\ fetch[n].sends \in Nat
  BY <1>1 DEF Fetches
<1>5. fetch'[m] = f /\ \A n \in Modems \ {m} : fetch'[n] = fetch[n]
  BY <1>1, <1>2
<1>6. fetch' \in [Modems -> Fetches]
  BY <1>1, <1>2, <1>3
<1>. QED  BY <1>3, <1>4, <1>5, <1>6

LEMMA ReadFileIs ==
  ASSUME NEW m \in Modems, NEW w \in Wrappings, ReadFile(m, w)
  PROVE  /\ R!TftpRequest /\ UNCHANGED <<clock, boot>>
         /\ fetch' = [fetch EXCEPT ![m].stage = "asked", ![m].reads = @ + 1]
<1>1. /\ P!Read(TftpFrame(w, 1, P!Ephemeral, P!TFTP)) =
           [kind |-> "TftpRequest", gi |-> NoGi, xid |-> NoXid]
      /\ [kind |-> "TftpRequest", gi |-> NoGi, xid |-> NoXid] # Unread
  BY TftpIsRead DEF P!Kinds
<1>2. Captured(TftpFrame(w, 1, P!Ephemeral, P!TFTP)) <=> R!TftpRequest
  <2>. DEFINE f == TftpFrame(w, 1, P!Ephemeral, P!TFTP)
  <2>1. P!Read(f) # Unread /\ P!Read(f).kind = "TftpRequest"
    BY <1>1
  <2>. HIDE DEF f
  <2>2. Captured(f) <=> R!TftpRequest
    BY ONLY <2>1, SMTT(30) DEF Captured
  <2>. QED  BY <2>2 DEF f
<1>. QED  BY <1>2 DEF ReadFile

LEMMA SendFileIs ==
  ASSUME NEW m \in Modems, NEW w \in Wrappings, SendFile(m, w), m \notin Movers
  PROVE  /\ R!TftpSend /\ UNCHANGED <<clock, boot>>
         /\ \E s \in Transfers :
              fetch' = [fetch EXCEPT ![m].stage = s, ![m].sends = @ + 1]
<1>1. PICK code \in {3, 5, 6} :
        /\ fetch' = [fetch EXCEPT ![m].stage = IF code = 5 THEN "over" ELSE "sent",
                                  ![m].sends = @ + 1]
        /\ Captured(TftpFrame(w, code, P!TFTP, P!Ephemeral))
  BY DEF SendFile, ServerPort
<1>2. /\ P!Read(TftpFrame(w, code, P!TFTP, P!Ephemeral)) =
           [kind |-> "TftpReply", gi |-> NoGi, xid |-> NoXid]
      /\ [kind |-> "TftpReply", gi |-> NoGi, xid |-> NoXid] # Unread
  BY TftpIsRead DEF P!Kinds
<1>3. Captured(TftpFrame(w, code, P!TFTP, P!Ephemeral)) <=> R!TftpSend
  BY <1>2 DEF Captured
<1>. QED  BY <1>1, <1>3 DEF SendFile, Transfers

\* The steps of a transfer that are heard, and those that are not.
Heard(m, w) == ReadFile(m, w) \/ (m \notin Movers /\ SendFile(m, w))
Unheard(m, w) == AckFile(m, w) \/ (m \in Movers /\ SendFile(m, w))

LEMMA FileSteps ==
  ASSUME Typed, NEW m \in Modems, NEW w \in Wrappings
  PROVE  /\ ReadFile(m, w) => Steps(m, NoGi, OneMore("tftpRequests"), Fields)
         /\ m \notin Movers /\ SendFile(m, w) => Steps(m, NoGi, OneMore("tftpSends"), Fields)
         /\ Heard(m, w) => UNCHANGED <<clock, boot, pending>>
<1>1. ASSUME NEW F \in {"tftpRequests", "tftpSends"}, UNCHANGED <<clock, boot>>,
             F = "tftpRequests" \/ m \notin Movers,
             IF F = "tftpRequests" THEN R!TftpRequest ELSE R!TftpSend,
             NEW s \in Transfers,
             fetch' = [fetch EXCEPT ![m].stage = s,
                                    ![m].reads = @ + (IF F = "tftpRequests" THEN 1 ELSE 0),
                                    ![m].sends = @ + (IF F = "tftpSends" THEN 1 ELSE 0)]
      PROVE  Steps(m, NoGi, OneMore(F), Fields) /\ pending' = pending
  <2>. DEFINE i == IF F = "tftpRequests" THEN 1 ELSE 0
              j == IF F = "tftpSends" THEN 1 ELSE 0
  <2>1. R!TypeOK' /\ IsFiniteSet(DOMAIN rows') /\ Adds(NoGi, OneMore(F)) /\ pending' = pending
    BY <1>1, TftpAdds
  <2>2. i \in Nat /\ j \in Nat
    OBVIOUS
  <2>3. /\ fetch' \in [Modems -> Fetches]
        /\ \A n \in Modems : /\ fetch'[n].reads = fetch[n].reads + (IF n = m THEN i ELSE 0)
                             /\ fetch'[n].sends = fetch[n].sends + (IF n = m THEN j ELSE 0)
    <3>1. fetch' = [fetch EXCEPT ![m].stage = s, ![m].reads = @ + i, ![m].sends = @ + j]
      BY <1>1
    <3>. HIDE DEF i, j
    <3>. QED  BY <2>2, <3>1, FetchIs
  <2>4. Typed'
    BY <1>1, <2>1, <2>3 DEF Typed
  <2>5. OneMore(F) \in [Fields -> Nat] /\ \A G \in Fields : OneMore(F)[G] = IF G = F THEN 1 ELSE 0
    BY DEF OneMore
  <2>6. \A n \in Modems :
          /\ Really("tftpRequests")'[n] = Really("tftpRequests")[n] + (IF n = m THEN i ELSE 0)
          /\ Really("tftpSends")'[n] = Really("tftpSends")[n] + (IF n = m THEN j ELSE 0)
    <3>1. \A n \in Modems : fetch[n].sends \in Nat
      BY DEF Typed, Fetches
    <3>2. j = 0 \/ m \notin Movers
      BY <1>1
    <3>. HIDE DEF i, j
    <3>. QED  BY <2>2, <2>3, <3>1, <3>2 DEF Really, SeenSends
  <2>7. \A G \in Fields \ {"tftpRequests", "tftpSends"}, n \in Modems :
          Really(G)'[n] = Really(G)[n]
    BY <1>1 DEF Really, Fields, Asks, SeenSends
  <2>8. \A G \in Fields, n \in Modems : Really(G)[n] \in Nat
    BY ReallyNat
  <2>9. \A G \in Fields, n \in Modems :
          Really(G)'[n] = Really(G)[n] + (IF n = m THEN OneMore(F)[G] ELSE 0)
    BY <2>5, <2>6, <2>7, <2>8
  <2>. QED  BY <2>1, <2>4, <2>5, <2>9 DEF Steps
<1>2. ASSUME ReadFile(m, w)
      PROVE  Steps(m, NoGi, OneMore("tftpRequests"), Fields) /\ UNCHANGED <<clock, boot, pending>>
  <2>1. /\ R!TftpRequest /\ UNCHANGED <<clock, boot>>
        /\ fetch' = [fetch EXCEPT ![m].stage = "asked", ![m].reads = @ + 1]
    BY <1>2, ReadFileIs
  <2>2. fetch' = [fetch EXCEPT ![m].stage = "asked", ![m].reads = @ + 1, ![m].sends = @ + 0]
    <3>1. fetch \in [Modems -> Fetches] /\ fetch[m].sends \in Nat
      BY DEF Typed, Fetches
    <3>. QED  BY <2>1, <3>1 DEF Fetches
  <2>. QED  BY <1>1, <2>1, <2>2 DEF Transfers
<1>3. ASSUME SendFile(m, w), m \notin Movers
      PROVE  Steps(m, NoGi, OneMore("tftpSends"), Fields) /\ UNCHANGED <<clock, boot, pending>>
  <2>1. PICK s \in Transfers :
          /\ R!TftpSend /\ UNCHANGED <<clock, boot>>
          /\ fetch' = [fetch EXCEPT ![m].stage = s, ![m].sends = @ + 1]
    BY <1>3, SendFileIs
  <2>2. fetch' = [fetch EXCEPT ![m].stage = s, ![m].reads = @ + 0, ![m].sends = @ + 1]
    <3>1. fetch \in [Modems -> Fetches] /\ fetch[m].reads \in Nat
      BY DEF Typed, Fetches
    <3>. QED  BY <2>1, <3>1 DEF Fetches
  <2>. QED  BY <1>1, <1>3, <2>1, <2>2
<1>. QED  BY <1>2, <1>3 DEF Heard

Nothing == [F \in Fields |-> 0]

\* An acknowledgement is nothing to the monitor, and neither is a block that
\* comes from another port than 69.
LEMMA UnheardSteps ==
  ASSUME Typed, NEW m \in Modems, NEW w \in Wrappings, Unheard(m, w)
  PROVE  Steps(m, NoGi, Nothing, Fields) /\ UNCHANGED <<clock, boot, relays>>
<1>1. PICK s \in Transfers, j \in {0, 1} :
        /\ fetch' = [fetch EXCEPT ![m].stage = s, ![m].reads = @ + 0, ![m].sends = @ + j]
        /\ j = 1 => m \in Movers
        /\ UNCHANGED <<clock, boot, relays>>
  <2>0. fetch \in [Modems -> Fetches] /\ fetch[m] \in Fetches
    BY DEF Typed
  <2>1. CASE AckFile(m, w)
    <3>. DEFINE f == TftpFrame(w, 4, P!Ephemeral, ServerPort(m))
    <3>1. P!Read(f) = Unread
      BY TftpIsRead DEF ServerPort
    <3>2. /\ fetch' = [fetch EXCEPT ![m].stage = "acked"] /\ Captured(f)
          /\ UNCHANGED <<clock, boot>>
      BY <2>1 DEF AckFile
    <3>. HIDE DEF f
    <3>3. UNCHANGED relays
      BY <3>1, <3>2 DEF Captured
    <3>4. fetch' = [fetch EXCEPT ![m].stage = "acked", ![m].reads = @ + 0, ![m].sends = @ + 0]
      <4>1. fetch[m].reads + 0 = fetch[m].reads /\ fetch[m].sends + 0 = fetch[m].sends
        BY <2>0 DEF Fetches
      <4>2. fetch' = [fetch EXCEPT ![m].stage = "acked", ![m].reads = fetch[m].reads,
                                   ![m].sends = fetch[m].sends]
        BY <2>0, <3>2 DEF Fetches
      <4>. QED  BY <2>0, <4>1, <4>2
    <3>5. "acked" \in Transfers
      BY DEF Transfers
    <3>6. UNCHANGED <<clock, boot, relays>>
      BY <3>2, <3>3
    <3>7. 0 \in {0, 1} /\ (0 = 1 => m \in Movers)
      OBVIOUS
    <3>. QED  BY ONLY <3>4, <3>5, <3>6, <3>7, Zenon
  <2>2. CASE m \in Movers /\ SendFile(m, w)
    <3>1. PICK code \in {3, 5, 6} :
            /\ fetch' = [fetch EXCEPT ![m].stage = IF code = 5 THEN "over" ELSE "sent",
                                      ![m].sends = @ + 1]
            /\ Captured(TftpFrame(w, code, P!Ephemeral, P!Ephemeral))
            /\ UNCHANGED <<clock, boot>>
      BY <2>2 DEF SendFile, ServerPort
    <3>2. UNCHANGED relays
      <4>1. P!Read(TftpFrame(w, code, P!Ephemeral, P!Ephemeral)) = Unread
        BY TftpIsRead
      <4>. QED  BY <3>1, <4>1 DEF Captured
    <3>. DEFINE s == IF code = 5 THEN "over" ELSE "sent"
    <3>3. s \in Transfers
      BY DEF Transfers
    <3>4. fetch' = [fetch EXCEPT ![m].stage = s, ![m].sends = @ + 1]
      BY <3>1
    <3>. HIDE DEF s
    <3>5. fetch' = [fetch EXCEPT ![m].stage = s, ![m].reads = @ + 0, ![m].sends = @ + 1]
      BY <2>0, <3>4 DEF Fetches
    <3>. QED  BY <2>2, <3>1, <3>2, <3>3, <3>5
  <2>. QED  BY <2>1, <2>2 DEF Unheard
<1>3. /\ fetch' \in [Modems -> Fetches]
      /\ \A n \in Modems : /\ fetch'[n].reads = fetch[n].reads + (IF n = m THEN 0 ELSE 0)
                           /\ fetch'[n].sends = fetch[n].sends + (IF n = m THEN j ELSE 0)
  <2>1. 0 \in Nat /\ j \in Nat
    BY <1>1
  <2>. QED  BY <1>1, <2>1, FetchIs
<1>4. /\ \A n \in Modems : fetch'[n].reads = fetch[n].reads
      /\ \A n \in Modems \ Movers : fetch'[n].sends = fetch[n].sends
  <2>1. \A n \in Modems : fetch[n].reads \in Nat /\ fetch[n].sends \in Nat
    BY DEF Typed, Fetches
  <2>. QED  BY <1>1, <1>3, <2>1
<1>5. Typed'
  BY <1>1, <1>3 DEF Typed, relays, R!TypeOK
<1>6. Adds(NoGi, Nothing)
  <2>1. rows' = rows /\ NoGi \in DOMAIN rows /\ \A F \in Fields : Had(NoGi, F) \in Nat
    BY <1>1, EntryIs DEF relays, Typed, R!TypeOK, Addresses
  <2>. QED  BY <2>1 DEF Adds, Had, Nothing
<1>7. \A F \in Fields, n \in Modems : Really(F)'[n] = Really(F)[n]
  BY <1>1, <1>4 DEF Really, Fields, Asks, SeenSends
<1>8. \A F \in Fields, n \in Modems :
        Really(F)'[n] = Really(F)[n] + (IF n = m THEN Nothing[F] ELSE 0)
  BY <1>7, ReallyNat DEF Nothing
<1>. QED  BY <1>1, <1>5, <1>6, <1>8 DEF Steps, Nothing

-----------------------------------------------------------------------------
(***************************************************************************)
(* The counts are true                                                      *)
(***************************************************************************)

LEMMA CountsKept ==
  ASSUME Typed, CInv, NEW m \in Modems, NEW k \in Addresses, NEW d,
         Steps(m, k, d, Counted),
         d["requests"] = 0 \/ k = RowOf(m),
         (d["tftpRequests"] = 0 /\ d["tftpSends"] = 0) \/ k = NoGi
  PROVE  CInv'
<1>1. /\ "requests" \in Counted /\ "replies" \in Counted
      /\ "tftpRequests" \in Counted /\ "tftpSends" \in Counted
      /\ \A F \in Counted : F \in Fields /\ Steps(m, k, d, {F})
  BY DEF Counted, Fields, Steps
<1>2. TrueByRow("requests")'
  BY <1>1, KeepsByRow DEF CInv
<1>3. TrueInAll("replies")'
  BY <1>1, KeepsInAll DEF CInv
<1>4. TrueUnrelayed("tftpRequests")'
  BY <1>1, KeepsUnrelayed DEF CInv
<1>5. TrueUnrelayed("tftpSends")'
  BY <1>1, KeepsUnrelayed DEF CInv
<1>. QED  BY <1>2, <1>3, <1>4, <1>5 DEF CInv

\* A step that none of it sees.
LEMMA Unseen ==
  ASSUME Typed, UNCHANGED <<relays, boot, fetch>>, clock' \in clock .. MaxClock
  PROVE  /\ Typed' /\ (CInv => CInv')
         /\ \A F \in Fields : TrueByRow(F) => TrueByRow(F)'
<1>1. Typed'
  BY DEF Typed, relays, R!TypeOK
<1>2. \A F \in Fields : Really(F)' = Really(F)
  BY DEF Really, Fields, Asks, SeenSends
<1>3. ASSUME NEW F \in Fields
      PROVE  /\ TrueByRow(F) => TrueByRow(F)'
             /\ TrueInAll(F) => TrueInAll(F)'
             /\ TrueUnrelayed(F) => TrueUnrelayed(F)'
  <2>1. \A gi : Behind(gi)' = Behind(gi) /\ Had(gi, F)' = Had(gi, F)
    BY DEF Behind, RowOf, Had, relays
  <2>2. \A S : SumFunctionOnSet(Really(F), S)' = SumFunctionOnSet(Really(F)', S)
    BY DEF SumFunctionOnSet, FoldFunctionOnSet, MapThenFoldSet
  <2>3. \A gi : SumFunctionOnSet(Really(F), Behind(gi))' = SumFunctionOnSet(Really(F)', Behind(gi))
    BY DEF SumFunctionOnSet, FoldFunctionOnSet, MapThenFoldSet, Behind, RowOf
  <2>. DEFINE a == [gi \in DOMAIN rows |-> rows[gi][F]]
  <2>4. SumFunction(a)' = SumFunction(a')
    BY DEF SumFunction, SumFunctionOnSet, FoldFunctionOnSet, MapThenFoldSet
  <2>5. a' = a
    BY DEF relays
  <2>6. TrueInAll(F) <=> SumFunction(a) = SumFunctionOnSet(Really(F), Modems)
    BY DEF TrueInAll
  <2>7. TrueInAll(F)' <=> SumFunction(a)' = SumFunctionOnSet(Really(F), Modems)'
    BY DEF TrueInAll
  <2>. HIDE DEF a
  <2>8. TrueInAll(F) => TrueInAll(F)'
    BY <1>2, <2>2, <2>4, <2>5, <2>6, <2>7
  <2>9. TrueUnrelayed(F) => TrueUnrelayed(F)'
    BY <1>2, <2>1, <2>2 DEF TrueUnrelayed
  <2>10. TrueByRow(F) => TrueByRow(F)'
    BY <1>2, <2>1, <2>3 DEF TrueByRow
  <2>. QED  BY <2>8, <2>9, <2>10
<1>. QED  BY <1>1, <1>3 DEF CInv, Fields

\* Next, taken apart.
LEMMA NextIs ==
  ASSUME [Next]_vars, Typed
  PROVE  \/ \E m \in Modems, e \in Exchanges, w \in Wrappings : Ask(m, e, w)
         \/ \E m \in Modems, e \in Exchanges, w \in Wrappings :
              \E gi \in Stamps(m) : Answer(m, e, w, gi)
         \/ \E m \in Modems, w \in Wrappings : Heard(m, w) \/ Unheard(m, w)
         \/ UNCHANGED <<relays, boot, fetch>> /\ clock' \in clock .. MaxClock
<1>1. CASE UNCHANGED vars
  BY <1>1 DEF vars, Typed
<1>2. CASE Tick
  BY <1>2, ExchangeAssumption DEF Tick, Typed
<1>3. CASE \E m \in Modems, w \in Wrappings :
             \/ \E e \in Exchanges : Ask(m, e, w)
             \/ \E e \in Exchanges, gi \in {Interface[m], NoGi} : Answer(m, e, w, gi)
             \/ ReadFile(m, w)
             \/ SendFile(m, w)
             \/ AckFile(m, w)
  BY <1>3, Zenon DEF Stamps, Heard, Unheard
<1>4. CASE \E w \in Wrappings : Noise(w)
  <2>1. UNCHANGED <<relays, clock, boot, fetch>>
    BY <1>4, StraysAreUnread DEF Noise, Captured
  <2>. QED  BY <2>1 DEF Typed
<1>. QED  BY <1>1, <1>2, <1>3, <1>4, Zenon DEF Next

LEMMA CountsStep == Typed /\ CInv /\ [Next]_vars => (Typed /\ CInv)'
<1>. SUFFICES ASSUME Typed, CInv, [Next]_vars PROVE (Typed /\ CInv)'
  OBVIOUS
<1>1. ASSUME NEW m \in Modems, NEW k \in Addresses, NEW d, Steps(m, k, d, Fields) PROVE Steps(m, k, d, Counted)
  BY <1>1 DEF Steps, Counted
<1>2. ASSUME NEW m \in Modems, NEW e \in Exchanges, NEW w \in Wrappings, Ask(m, e, w)
      PROVE  (Typed /\ CInv)'
  <2>. DEFINE d == OneMore("requests")
  <2>1. Steps(m, RowOf(m), d, Fields) /\ RowOf(m) \in Addresses
    BY <1>2, AskSteps, Given
  <2>2. d["tftpRequests"] = 0 /\ d["tftpSends"] = 0
    BY DEF OneMore, Fields
  <2>. HIDE DEF d
  <2>3. Steps(m, RowOf(m), d, Counted)
    BY <1>1, <2>1
  <2>4. CInv'
    BY <2>1, <2>2, <2>3, CountsKept
  <2>. QED  BY <2>1, <2>4 DEF Steps
<1>3. ASSUME NEW m \in Modems, NEW e \in Exchanges, NEW w \in Wrappings,
             NEW gi \in Stamps(m), Answer(m, e, w, gi)
      PROVE  (Typed /\ CInv)'
  <2>. DEFINE x == XidOn(m, e)
              k == R!Owner(Stamped(m, gi), x)
              d == Credit(x)
  <2>1. k \in Addresses /\ Steps(m, k, d, Counted)
    BY <1>3, AnswerSteps
  <2>2. d["requests"] = 0 /\ d["tftpRequests"] = 0 /\ d["tftpSends"] = 0
    BY DEF OneMore, Answered, Credit, Fields
  <2>. HIDE DEF d, k
  <2>3. CInv'
    BY <2>1, <2>2, CountsKept
  <2>. QED  BY <2>1, <2>3 DEF Steps
<1>4. ASSUME NEW m \in Modems, NEW w \in Wrappings, Heard(m, w)
      PROVE  (Typed /\ CInv)'
  <2>1. PICK F \in Fields : Steps(m, NoGi, OneMore(F), Fields) /\ F # "requests"
    BY <1>4, FileSteps DEF Fields, Heard
  <2>. DEFINE d == OneMore(F)
  <2>2. d["requests"] = 0 /\ NoGi \in Addresses
    BY <2>1 DEF OneMore, Fields, Addresses
  <2>. HIDE DEF d
  <2>3. Steps(m, NoGi, d, Counted)
    BY <1>1, <2>1, <2>2 DEF d
  <2>4. CInv'
    BY <2>2, <2>3, CountsKept
  <2>. QED  BY <2>1, <2>4 DEF Steps
<1>5. ASSUME NEW m \in Modems, NEW w \in Wrappings, Unheard(m, w)
      PROVE  (Typed /\ CInv)'
  <2>1. Steps(m, NoGi, Nothing, Fields)
    BY <1>5, UnheardSteps
  <2>2. Nothing["requests"] = 0 /\ NoGi \in Addresses
    BY DEF Nothing, Fields, Addresses
  <2>3. Steps(m, NoGi, Nothing, Counted)
    BY <1>1, <2>1, <2>2
  <2>4. CInv'
    BY <2>2, <2>3, CountsKept
  <2>. QED  BY <2>1, <2>4 DEF Steps
<1>6. CASE UNCHANGED <<relays, boot, fetch>> /\ clock' \in clock .. MaxClock
  BY <1>6, Unseen
<1>. QED  BY <1>2, <1>3, <1>4, <1>5, <1>6, NextIs

LEMMA InitHolds ==
  Init => Typed /\ CInv /\ TrueByRow("answered") /\ TrueByRow("answerMsTotal")
<1>. SUFFICES ASSUME Init PROVE Typed /\ CInv /\ TrueByRow("answered") /\ TrueByRow("answerMsTotal")
  OBVIOUS
<1>1. rows = [g \in {NoGi} |-> R!Blank] /\ pending = [x \in {} |-> R!Blank] /\ sweptMs = 0 /\ clock = 1
  BY DEF Init, R!InitStore
<1>2. R!Blank \in R!Relay /\ \A F \in Fields : R!Blank[F] = 0
  BY Given DEF R!Blank, R!Relay, Fields
<1>3. DOMAIN rows = {NoGi} /\ \A gi \in Addresses, F \in Fields : Had(gi, F) = 0
  BY <1>1, <1>2 DEF Had
<1>4. IsFiniteSet(DOMAIN rows)
  BY <1>3, FS_Singleton
<1>5. boot \in [Modems -> Boots] /\ fetch \in [Modems -> Fetches]
      /\ \A m \in Modems : boot[m].stage \notin Exchanges
  BY DEF Init, Boots, Fetches, Stages, Transfers, Exchanges
<1>6. R!TypeOK
  BY <1>1, <1>2 DEF R!TypeOK
<1>7. Typed
  BY <1>1, <1>4, <1>5, <1>6, ExchangeAssumption DEF Typed
<1>8. \A F \in Fields, m \in Modems : Really(F)[m] = 0
  BY DEF Init, Really, Fields, Asks, SeenSends, Exchanges
<1>9. \A F \in Fields, S \in SUBSET Modems : SumFunctionOnSet(Really(F), S) = 0
  BY <1>8, Given, FS_Subset, SumOfZeros
<1>10. \A F \in Fields : TrueByRow(F) /\ TrueUnrelayed(F)
  BY <1>3, <1>9 DEF TrueByRow, TrueUnrelayed, Behind, Addresses
<1>11. TrueInAll("replies")
  <2>. DEFINE a == [gi \in DOMAIN rows |-> rows[gi]["replies"]]
  <2>1. DOMAIN a = DOMAIN rows /\ \A gi \in DOMAIN rows : a[gi] = 0
    BY <1>1, <1>2 DEF Fields
  <2>. HIDE DEF a
  <2>2. SumFunction(a) = 0
    BY <1>4, <2>1, SumOfZeros DEF SumFunction
  <2>. QED  BY <1>9, <2>2 DEF TrueInAll, Fields, a
<1>. QED  BY <1>7, <1>10, <1>11 DEF CInv, Fields

\* Whatever tags, extension headers and gi-addresses the frames carry, whatever
\* else crosses the interface, and however often modems repeat themselves and
\* servers answer, the counts are the true ones, of a transfer that leaves port
\* 69 the read requests alone (packet.rs:226-262, 284-303; relays.rs:126-180).
THEOREM CountsAlwaysTrue == Spec => []CountsAreTrue
<1>1. Init => Typed /\ CInv
  BY InitHolds
<1>2. Typed /\ CInv => CountsAreTrue
  <2>. SUFFICES ASSUME Typed, CInv PROVE CountsAreTrue
    OBVIOUS
  <2>1. NoGi \in DOMAIN rows
    BY DEF Typed, R!TypeOK
  <2>2. \A gi \in Gi \cup {NoGi} : R!RequestsOf(gi) = SumFunctionOnSet(Asks, Behind(gi))
    BY DEF CInv, TrueByRow, Had, Really, R!RequestsOf, Addresses
  <2>3. ASSUME NEW f, DOMAIN f = Modems PROVE SumFunction(f) = SumFunctionOnSet(f, Modems)
    BY <2>3 DEF SumFunction
  <2>4. \A F \in Fields \ {"requests"} : DOMAIN Really(F) = Modems
    BY DEF Really, Fields, SeenSends
  <2>5. SumFunction([gi \in DOMAIN rows |-> rows[gi].replies])
          = SumFunction([m \in Modems |-> boot[m].served])
    BY <2>3 DEF CInv, TrueInAll, Really
  <2>6. rows[NoGi].tftpRequests = SumFunction([m \in Modems |-> fetch[m].reads])
    BY <2>1, <2>3 DEF CInv, TrueUnrelayed, Had, Really
  <2>7. rows[NoGi].tftpSends = SumFunction(SeenSends)
    <3>1. DOMAIN SeenSends = Modems
      BY DEF SeenSends
    <3>2. SumFunction(SeenSends) = SumFunctionOnSet(SeenSends, Modems)
      BY <2>3, <3>1
    <3>. QED  BY <2>1, <3>2 DEF CInv, TrueUnrelayed, Had, Really
  <2>. QED  BY <2>2, <2>5, <2>6, <2>7 DEF CountsAreTrue
<1>. QED  BY <1>1, <1>2, CountsStep, PTL DEF Spec

-----------------------------------------------------------------------------
(***************************************************************************)
(* The answer times are true                                                *)
(***************************************************************************)

LEMMA XidsDiffer ==
  ASSUME NEW m \in Modems, NEW n \in Modems, NEW e \in Exchanges, NEW f \in Exchanges,
         XidOn(m, e) = XidOn(n, f)
  PROVE  m = n /\ (Way[m] = "direct6" => e = f)
<1>1. \A k \in Modems, l \in Modems, g \in Exchanges : k # <<l, g>>
  BY MarkersAssumption
<1>. QED  BY <1>1 DEF XidOn

LEMMA SameCardinality == \A S : R!Cardinality(S) = Cardinality(S)
  BY DEF R!Cardinality, Cardinality

\* No sweep is due, and there is always room: no modem waits with two of its ids.
LEMMA RoomToWait ==
  ASSUME Typed, TableIsTrue, NEW m \in Modems
  PROVE  /\ R!Kept = DOMAIN pending /\ R!Swept = pending
         /\ Cardinality(DOMAIN pending) < Cardinality(Xid)
<1>1. ~R!SweepDue
  BY ExchangeAssumption DEF Typed, R!TypeOK, R!SweepDue, R!Less
<1>2. R!Kept = DOMAIN pending
  BY <1>1 DEF R!Kept
<1>3. R!Swept = pending
  BY <1>2 DEF R!Swept, Typed, R!TypeOK
<1>4. IsFiniteSet(Xid)
  <2>1. IsFiniteSet(Exchanges)
    <3>1. IsFiniteSet({"first"})
      BY FS_Singleton
    <3>2. IsFiniteSet({"first"} \cup {"second"})
      BY <3>1, FS_AddElement
    <3>3. Exchanges = {"first"} \cup {"second"}
      BY DEF Exchanges
    <3>. QED  BY <3>2, <3>3
  <2>. QED  BY <2>1, Given, FS_Product, FS_Union DEF Xid
<1>5. DOMAIN pending \subseteq Xid
  BY DEF Typed, R!TypeOK
<1>6. DOMAIN pending # Xid
  <2>. DEFINE y == IF Way[m] = "direct6" THEN m ELSE <<m, "first">>
  <2>1. y \in Xid
    BY DEF Xid, Exchanges
  <2>2. \A n \in Modems, e \in Exchanges : XidOn(n, e) # y
    <3>1. \A k \in Modems, l \in Modems, g \in Exchanges : k # <<l, g>>
      BY MarkersAssumption
    <3>. QED  BY <3>1 DEF XidOn, Exchanges
  <2>. HIDE DEF y
  <2>3. y \notin DOMAIN pending
    BY <2>2 DEF TableIsTrue, Waiting, XidOf
  <2>. QED  BY <2>1, <2>3
<1>7. Cardinality(DOMAIN pending) < Cardinality(Xid)
  BY <1>4, <1>5, <1>6, FS_Subset, FS_CardinalityType
<1>. QED  BY <1>2, <1>3, <1>7

\* What an invariant of the times needs of a step: the two counts, row by row.
LEMMA TimesKept ==
  ASSUME Typed, TInv, NEW m \in Modems, NEW k \in Addresses, NEW d,
         Steps(m, k, d, {"answered", "answerMsTotal"}),
         (d["answered"] = 0 /\ d["answerMsTotal"] = 0) \/ k = RowOf(m)
  PROVE  TrueByRow("answered")' /\ TrueByRow("answerMsTotal")'
<1>1. /\ "answered" \in Fields /\ "answerMsTotal" \in Fields
      /\ Steps(m, k, d, {"answered"}) /\ Steps(m, k, d, {"answerMsTotal"})
  BY DEF Fields, Steps
<1>2. TrueByRow("answered")'
  BY <1>1, KeepsByRow DEF TInv
<1>3. TrueByRow("answerMsTotal")'
  BY <1>1, KeepsByRow DEF TInv
<1>. QED  BY <1>2, <1>3

\* A step that is no business of the table's.
LEMMA TableKept ==
  ASSUME Typed, TableIsTrue, PatientOwed, UNCHANGED <<boot, pending>>
  PROVE  TableIsTrue' /\ PatientOwed'
  BY ZenonT(30) DEF TableIsTrue, PatientOwed, Waiting, XidOf, RowOf, XidOn

LEMMA AskTimes ==
  ASSUME Typed, TInv, OneIdPerExchange,
         NEW m \in Modems, NEW e \in Exchanges, NEW w \in Wrappings, Ask(m, e, w)
  PROVE  TInv'
<1>. DEFINE x == XidOn(m, e)
            y == [atMs |-> clock, gi |-> RowOf(m)]
            d == OneMore("requests")
<1>1. /\ boot \in [Modems -> Boots] /\ boot' \in [Modems -> Boots]
      /\ boot'[m].stage = e /\ boot'[m].since = clock
      /\ boot'[m].owed = [boot[m].owed EXCEPT ![e] = boot[m].owed[e] + 1]
      /\ \A n \in Modems \ {m} : boot'[n] = boot[n]
  BY AskIs DEF Typed
<1>2. \/ boot[m].stage \notin Exchanges
      \/ boot[m].stage = e /\ m \notin Patient
  BY DEF Ask, MayAsk, Exchanges
<1>3. pending' = R!With(pending, x, y)
  <2>1. R!Request(RowOf(m), x)
    BY AskIs
  <2>2. x # NoXid
    BY Given
  <2>3. pending' = R!Await(RowOf(m), x)
    BY <2>1, <2>2 DEF R!Request
  <2>4. R!Kept = DOMAIN pending /\ R!Swept = pending
        /\ Cardinality(DOMAIN pending) < Cardinality(Xid)
    BY RoomToWait DEF TInv
  <2>5. pending' = R!With(pending, x, y)
    <3>. HIDE DEF x
    <3>. QED  BY <2>3, <2>4, SameCardinality DEF R!Await
  <2>. QED  BY <2>5
<1>4. /\ DOMAIN pending' = DOMAIN pending \cup {x} /\ pending'[x] = y
      /\ \A z \in DOMAIN pending \ {x} : pending'[z] = pending[z]
  BY <1>3 DEF R!With
<1>5. \A n \in Modems \ {m} : XidOf(n)' = XidOf(n) /\ (n \in Waiting' <=> n \in Waiting)
  BY <1>1 DEF XidOf, Waiting, XidOn
<1>6. m \in Waiting' /\ XidOf(m)' = x /\ (m \in Waiting => XidOf(m) = x)
  BY <1>1, <1>2 DEF XidOf, Waiting, XidOn
<1>7. \A n \in Waiting \ {m} : XidOf(n) # x
  BY XidsDiffer DEF Waiting, XidOf
<1>8. TableIsTrue'
  <2>1. Waiting \subseteq Modems /\ Waiting' \subseteq Modems
    BY DEF Waiting
  <2>2. DOMAIN pending = {XidOf(n) : n \in Waiting}
        /\ \A n \in Waiting : pending[XidOf(n)] = [atMs |-> boot[n].since, gi |-> RowOf(n)]
    BY DEF TInv, TableIsTrue
  <2>3. DOMAIN pending' = {XidOf(n)' : n \in Waiting'}
    BY <1>4, <1>5, <1>6, <2>1, <2>2
  <2>4. ASSUME NEW n \in Waiting'
        PROVE  pending'[XidOf(n)'] = [atMs |-> boot'[n].since, gi |-> RowOf(n)]
    <3>1. CASE n = m
      BY <1>1, <1>4, <1>6, <3>1
    <3>2. CASE n # m
      <4>1. n \in Waiting /\ XidOf(n)' = XidOf(n) /\ boot'[n] = boot[n]
        BY <1>1, <1>5, <2>1, <3>2
      <4>2. XidOf(n) \in DOMAIN pending \ {x}
        BY <1>7, <2>2, <3>2, <4>1
      <4>. QED  BY <1>4, <2>2, <4>1, <4>2
    <3>. QED  BY <3>1, <3>2
  <2>. QED  BY <2>3, <2>4 DEF TableIsTrue, RowOf
<1>9. PatientOwed'
  <2>1. SUFFICES ASSUME NEW n \in Patient \cap Modems, NEW f \in Exchanges, boot'[n].owed[f] > 0
                 PROVE  boot'[n].stage = f /\ boot'[n].owed[f] = 1
    BY DEF PatientOwed
  <2>2. CASE n # m
    BY <1>1, <2>1, <2>2 DEF TInv, PatientOwed
  <2>3. CASE n = m
    <3>1. boot[m].owed \in [Exchanges -> Nat]
      BY <1>1 DEF Boots
    <3>2. \A g \in Exchanges : boot[m].owed[g] = 0
      BY <1>2, <2>3, <3>1 DEF TInv, PatientOwed
    <3>. QED  BY <1>1, <2>1, <2>3, <3>1, <3>2
  <2>. QED  BY <2>2, <2>3
<1>10. TrueByRow("answered")' /\ TrueByRow("answerMsTotal")'
  <2>1. Steps(m, RowOf(m), d, Fields) /\ RowOf(m) \in Addresses
    BY AskSteps, Given
  <2>2. Steps(m, RowOf(m), d, {"answered", "answerMsTotal"})
    BY <2>1 DEF Steps, Fields
  <2>. HIDE DEF d
  <2>. QED  BY <2>1, <2>2, TimesKept
<1>. QED  BY <1>8, <1>9, <1>10 DEF TInv

LEMMA AnswerTimes ==
  ASSUME Typed, TInv, OneIdPerExchange,
         NEW m \in Modems, NEW e \in Exchanges, NEW w \in Wrappings,
         NEW gi \in Stamps(m), Answer(m, e, w, gi)
  PROVE  TInv'
<1>. DEFINE x == XidOn(m, e)
            k == R!Owner(Stamped(m, gi), x)
            d == Credit(x)
            Times == {"answered", "answerMsTotal"}
<1>1. /\ R!Reply(Stamped(m, gi), x) /\ UNCHANGED <<clock, fetch>>
      /\ boot \in [Modems -> Boots] /\ boot' \in [Modems -> Boots]
      /\ \A n \in Modems \ {m} : boot'[n] = boot[n]
      /\ boot[m].owed[e] > 0
      /\ boot'[m].owed = [boot[m].owed EXCEPT ![e] = boot[m].owed[e] - 1]
      /\ boot[m].stage # e =>
           /\ boot'[m].stage = boot[m].stage /\ boot'[m].since = boot[m].since
           /\ boot'[m].answered = boot[m].answered /\ boot'[m].tookMs = boot[m].tookMs
      /\ boot[m].stage = e =>
           /\ boot'[m].stage \notin Exchanges
           /\ boot'[m].answered = boot[m].answered + 1
           /\ boot'[m].tookMs = boot[m].tookMs + (clock - boot[m].since)
  <2>1. (IF e = "first" THEN "offered" ELSE "bound") \notin Exchanges
    BY DEF Exchanges
  <2>. QED  BY <2>1, AnswerIs DEF Typed
<1>2. /\ DOMAIN pending' = DOMAIN pending \ {x}
      /\ \A z \in DOMAIN pending \ {x} : pending'[z] = pending[z]
  BY <1>1 DEF R!Reply
<1>3. /\ DOMAIN pending = {XidOf(n) : n \in Waiting} /\ Waiting \subseteq Modems
      /\ \A n \in Waiting : pending[XidOf(n)] = [atMs |-> boot[n].since, gi |-> RowOf(n)]
  BY DEF TInv, TableIsTrue, Waiting
<1>4. \A n \in Waiting \ {m} : XidOf(n) # x
  BY XidsDiffer DEF Waiting, XidOf
<1>5. boot[m].stage = e => m \in Waiting /\ XidOf(m) = x
  BY DEF Waiting, XidOf
<1>6. boot[m].stage # e => x \notin DOMAIN pending
  <2>1. SUFFICES ASSUME boot[m].stage # e, m \in Waiting, XidOf(m) = x PROVE FALSE
    BY <1>3, <1>4
  <2>2. m \notin Patient
    BY <1>1, <2>1 DEF TInv, PatientOwed
  <2>3. Way[m] = "direct6" /\ boot[m].stage \in Exchanges
    BY <2>1, <2>2 DEF OneIdPerExchange, Waiting
  <2>. QED  BY <2>1, <2>3, XidsDiffer DEF XidOf
<1>7. \A n \in Modems \ {m} : XidOf(n)' = XidOf(n) /\ (n \in Waiting' <=> n \in Waiting)
  BY <1>1 DEF XidOf, Waiting, XidOn
<1>8. /\ boot[m].stage = e => m \notin Waiting'
      /\ boot[m].stage # e => XidOf(m)' = XidOf(m) /\ (m \in Waiting' <=> m \in Waiting)
  BY <1>1 DEF XidOf, Waiting, XidOn
<1>9. TableIsTrue'
  <2>1. Waiting' \subseteq Modems
    BY DEF Waiting
  <2>2. \A n \in Waiting' :
          /\ n \in Waiting /\ XidOf(n)' = XidOf(n) /\ XidOf(n) \in DOMAIN pending \ {x}
          /\ boot'[n].since = boot[n].since
    BY <1>1, <1>3, <1>4, <1>6, <1>7, <1>8, <2>1
  <2>3. \A n \in Waiting : XidOf(n) # x => n \in Waiting'
    BY <1>3, <1>5, <1>7, <1>8
  <2>4. DOMAIN pending' = {XidOf(n)' : n \in Waiting'}
    BY <1>2, <1>3, <2>2, <2>3
  <2>5. \A n \in Waiting' : pending'[XidOf(n)'] = [atMs |-> boot'[n].since, gi |-> RowOf(n)]
    BY <1>2, <1>3, <2>2
  <2>. QED  BY <2>4, <2>5 DEF TableIsTrue, RowOf
<1>10. PatientOwed'
  <2>1. SUFFICES ASSUME NEW n \in Patient \cap Modems, NEW f \in Exchanges, boot'[n].owed[f] > 0
                 PROVE  boot'[n].stage = f /\ boot'[n].owed[f] = 1
    BY DEF PatientOwed
  <2>2. CASE n # m
    BY <1>1, <2>1, <2>2 DEF TInv, PatientOwed
  <2>3. CASE n = m
    <3>1. boot[m].owed \in [Exchanges -> Nat]
      BY <1>1 DEF Boots
    <3>2. boot[m].stage = e /\ boot[m].owed[e] = 1
      BY <1>1, <2>3 DEF TInv, PatientOwed
    <3>3. \A g \in Exchanges : boot'[m].owed[g] = 0
      BY <1>1, <2>3, <3>1, <3>2 DEF TInv, PatientOwed
    <3>. QED  BY <2>1, <2>3, <3>3
  <2>. QED  BY <2>2, <2>3
<1>11. k \in Addresses /\ Steps(m, k, d, Counted)
  BY AnswerSteps
<1>12. /\ boot[m].stage = e => d["answered"] = 1 /\ d["answerMsTotal"] = clock - boot[m].since /\ k = RowOf(m)
       /\ boot[m].stage # e => d["answered"] = 0 /\ d["answerMsTotal"] = 0
  <2>1. CASE boot[m].stage = e
    <3>1. x \in DOMAIN pending /\ pending[x].atMs = boot[m].since /\ pending[x].gi = RowOf(m)
      <4>1. x \in DOMAIN pending /\ pending[x] = [atMs |-> boot[m].since, gi |-> RowOf(m)]
        <5>. HIDE DEF x
        <5>. QED  BY <1>3, <1>5, <2>1
      <4>. HIDE DEF x
      <4>. QED  BY <4>1
    <3>2. clock \in Nat /\ boot[m].since \in 1 .. clock
      BY <2>1 DEF Typed
    <3>3. R!Less(clock, pending[x].atMs) = clock - boot[m].since
      BY <3>1, <3>2 DEF R!Less
    <3>4. k = RowOf(m)
      <4>. HIDE DEF x
      <4>. QED  BY <3>1, Given DEF R!Owner, RowOf, Stamped
    <3>. QED  BY <2>1, <3>1, <3>3, <3>4 DEF Credit, Answered, Fields
  <2>2. CASE boot[m].stage # e
    BY <1>6, <2>2 DEF Credit, OneMore, Fields
  <2>. QED  BY <2>1, <2>2
<1>13. \A n \in Modems :
         /\ Really("answered")'[n] = boot'[n].answered /\ Really("answered")[n] = boot[n].answered
         /\ Really("answerMsTotal")'[n] = boot'[n].tookMs /\ Really("answerMsTotal")[n] = boot[n].tookMs
         /\ boot[n].answered \in Nat /\ boot[n].tookMs \in Nat
  BY <1>1 DEF Really, Boots
<1>. HIDE DEF k, d, x
<1>14. \A F \in Times, n \in Modems :
         Really(F)'[n] = Really(F)[n] + (IF n = m THEN d[F] ELSE 0)
  BY <1>1, <1>12, <1>13
<1>15. Steps(m, k, d, Times)
  BY <1>11, <1>14 DEF Steps
<1>16. TrueByRow("answered")' /\ TrueByRow("answerMsTotal")'
  BY <1>11, <1>12, <1>15, TimesKept
<1>. QED  BY <1>9, <1>10, <1>16 DEF TInv

LEMMA TimesStep == OneIdPerExchange /\ Typed /\ TInv /\ [Next]_vars => (Typed /\ TInv)'
<1>. SUFFICES ASSUME OneIdPerExchange, Typed, TInv, [Next]_vars PROVE (Typed /\ TInv)'
  OBVIOUS
<1>. DEFINE Times == {"answered", "answerMsTotal"}
<1>1. ASSUME NEW m \in Modems, NEW e \in Exchanges, NEW w \in Wrappings, Ask(m, e, w)
      PROVE  (Typed /\ TInv)'
  BY <1>1, AskSteps, AskTimes DEF Steps
<1>2. ASSUME NEW m \in Modems, NEW e \in Exchanges, NEW w \in Wrappings,
             NEW gi \in Stamps(m), Answer(m, e, w, gi)
      PROVE  (Typed /\ TInv)'
  BY <1>2, AnswerSteps, AnswerTimes DEF Steps
<1>3. ASSUME NEW m \in Modems, NEW d, Steps(m, NoGi, d, Fields), UNCHANGED <<boot, pending>>,
             d["answered"] = 0 /\ d["answerMsTotal"] = 0
      PROVE  (Typed /\ TInv)'
  <2>1. Steps(m, NoGi, d, Times) /\ NoGi \in Addresses
    BY <1>3 DEF Steps, Fields, Addresses
  <2>2. TrueByRow("answered")' /\ TrueByRow("answerMsTotal")'
    BY <1>3, <2>1, TimesKept
  <2>3. TableIsTrue' /\ PatientOwed'
    BY <1>3, TableKept DEF TInv
  <2>. QED  BY <2>1, <2>2, <2>3 DEF TInv, Steps
<1>4. ASSUME NEW m \in Modems, NEW w \in Wrappings, Heard(m, w)
      PROVE  (Typed /\ TInv)'
  <2>1. PICK F \in {"tftpRequests", "tftpSends"} :
          Steps(m, NoGi, OneMore(F), Fields) /\ UNCHANGED <<clock, boot, pending>>
    BY <1>4, FileSteps DEF Heard
  <2>2. OneMore(F)["answered"] = 0 /\ OneMore(F)["answerMsTotal"] = 0
    BY <2>1 DEF OneMore, Fields
  <2>. QED  BY <1>3, <2>1, <2>2
<1>5. ASSUME NEW m \in Modems, NEW w \in Wrappings, Unheard(m, w)
      PROVE  (Typed /\ TInv)'
  <2>1. Steps(m, NoGi, Nothing, Fields) /\ UNCHANGED <<boot, pending>>
    BY <1>5, UnheardSteps DEF relays
  <2>2. Nothing["answered"] = 0 /\ Nothing["answerMsTotal"] = 0
    BY DEF Nothing, Fields
  <2>. QED  BY <1>3, <2>1, <2>2
<1>6. CASE UNCHANGED <<relays, boot, fetch>> /\ clock' \in clock .. MaxClock
  <2>1. Typed' /\ TrueByRow("answered")' /\ TrueByRow("answerMsTotal")'
    BY <1>6, Unseen DEF TInv, Fields
  <2>2. TableIsTrue' /\ PatientOwed'
    BY <1>6, TableKept DEF TInv, relays
  <2>. QED  BY <2>1, <2>2 DEF TInv
<1>. QED  BY <1>1, <1>2, <1>4, <1>5, <1>6, NextIs

\* An interface is credited with the exchanges of its modems that were answered
\* and with the time they took, however its requests are repeated and whatever
\* gi-address the answers carry, as long as an answer says by its transaction id
\* which exchange it ends (relays.rs:132-142, 157-180).
THEOREM AnswerTimesAlwaysTrue ==
  ASSUME OneIdPerExchange
  PROVE  Spec => []AnswerTimesAreTrue
<1>1. Init => Typed /\ TInv
  <2>. SUFFICES ASSUME Init PROVE Typed /\ TInv
    OBVIOUS
  <2>1. Typed /\ TrueByRow("answered") /\ TrueByRow("answerMsTotal")
    BY InitHolds
  <2>2. /\ DOMAIN pending = {}
        /\ \A m \in Modems : boot[m].stage = "off" /\ \A e \in Exchanges : boot[m].owed[e] = 0
    BY DEF Init, R!InitStore
  <2>3. Waiting = {} /\ PatientOwed
    BY <2>2 DEF Waiting, PatientOwed, Exchanges
  <2>. QED  BY <2>1, <2>2, <2>3 DEF TInv, TableIsTrue
<1>2. Typed /\ TInv => AnswerTimesAreTrue
  <2>. SUFFICES ASSUME Typed, TInv PROVE AnswerTimesAreTrue
    OBVIOUS
  <2>1. DOMAIN rows \subseteq Addresses
    BY DEF Typed, R!TypeOK, Addresses
  <2>2. \A gi \in DOMAIN rows :
          rows[gi].answered = SumFunctionOnSet([m \in Modems |-> boot[m].answered], Behind(gi))
    BY <2>1 DEF TInv, TrueByRow, Had, Really
  <2>3. \A gi \in DOMAIN rows :
          rows[gi].answerMsTotal = SumFunctionOnSet([m \in Modems |-> boot[m].tookMs], Behind(gi))
    BY <2>1 DEF TInv, TrueByRow, Had, Really
  <2>. QED  BY <2>2, <2>3 DEF AnswerTimesAreTrue
<1>3. Typed /\ TInv /\ [Next]_vars => (Typed /\ TInv)'
  BY TimesStep
<1>. QED  BY <1>1, <1>2, <1>3, PTL DEF Spec
=============================================================================
