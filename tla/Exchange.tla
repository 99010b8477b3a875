------------------------------ MODULE Exchange ------------------------------
(***************************************************************************)
(* The conversations the monitor overhears, and what it makes of them.      *)
(*                                                                          *)
(* Modems boot: a first exchange (DISCOVER and OFFER, SOLICIT and            *)
(* ADVERTISE), a second (REQUEST and its answer), then the configuration     *)
(* file over TFTP.  The plant is the environment, standing outside src/;     *)
(* every message of it is a frame that packet::read reads and the loop of    *)
(* capture.rs hands to Relays.  What really happened is kept beside it, in   *)
(* `boot` and `fetch`, so that the two can be compared.                     *)
(*                                                                          *)
(* A modem that gets no answer may ask again, the server may answer every    *)
(* message it was sent, early or late, or none of them.                     *)
(***************************************************************************)
EXTENDS Integers, FiniteSets, Functions

CONSTANTS
  Modems,
  Way,          \* modem -> "relayed4", "direct4" or "direct6"
  Interface,    \* modem -> the gi-address its CMTS stamps on relayed requests
  Patient,      \* the modems that never ask twice
  Movers,       \* the modems whose TFTP server sends from a port of its own
  Wrappings,    \* how frames arrive: [tags, extensions]
  Gi, NoGi, NoXid, Never, Empty, Unread,
  MaxClock,     \* bound: the last millisecond
  MaxAsks       \* bound: the messages one modem sends in one exchange

ASSUME ExchangeAssumption ==
  /\ IsFiniteSet(Modems)
  /\ Way \in [Modems -> {"relayed4", "direct4", "direct6"}]
  /\ Interface \in [Modems -> Gi]
  /\ Movers \subseteq Modems
  /\ Wrappings \subseteq [tags : 0 .. 2, extensions : 0 .. 8]
  /\ MaxClock \in Nat \ {0} /\ MaxAsks \in Nat

VARIABLES
  clock, rows, pending, sweptMs,   \* Relays
  boot,    \* modem -> where it is, what is unanswered, and the true times
  fetch    \* modem -> where the transfer is, and what was really sent

relays == <<rows, pending, sweptMs>>
vars == <<clock, relays, boot, fetch>>

Exchanges == {"first", "second"}

P == INSTANCE Packet

\* A DHCPv4 client keeps one transaction id for a whole boot (RFC 2131); a
\* DHCPv6 client takes a new one for each exchange (RFC 8415).
Xid == Modems \cup (Modems \X Exchanges)
XidOn(m, e) == IF Way[m] = "direct6" THEN <<m, e>> ELSE m

\* None is not a value: of an address, an id, a time, a body or a frame.
ASSUME MarkersAssumption ==
  /\ Modems \cap (Modems \X Exchanges) = {}
  /\ NoGi \notin Gi /\ NoXid \notin Xid /\ Never \notin Nat
  /\ Empty \notin [code : Nat, xid : Xid \cup {NoXid}, gi : Gi \cup {NoGi}]
  /\ Unread \notin P!Kinds
  /\ Unread \notin [kind : P!Kinds, gi : Gi \cup {NoGi}, xid : Xid \cup {NoXid}]

\* No sweep and no full table in these runs: both are Relays' own subject.
R == INSTANCE Relays WITH
       Second <- 1, PendingFor <- MaxClock + 1, SweepEvery <- MaxClock + 1,
       MaxPending <- Cardinality(Xid), MaxStep <- 1, MaxPackets <- 0

(***************************************************************************)
(* The frames                                                               *)
(***************************************************************************)
Frame(w, version, sport, dport, body) ==
  [tags |-> w.tags, extensions |-> w.extensions, version |-> version,
   protocol |-> P!UDP, laterFragment |-> FALSE, sport |-> sport, dport |-> dport, body |-> body]

Body(code, xid, gi) == [code |-> code, xid |-> xid, gi |-> gi]

AskFrame(w, m, e) ==
  CASE Way[m] = "relayed4" ->
         Frame(w, 4, P!DHCP_SERVER, P!DHCP_SERVER, Body(1, XidOn(m, e), Interface[m]))
    [] Way[m] = "direct4" ->
         Frame(w, 4, P!DHCP_CLIENT, P!DHCP_SERVER, Body(1, XidOn(m, e), NoGi))
    [] Way[m] = "direct6" ->
         Frame(w, 6, P!DHCP6_CLIENT, P!DHCP6_SERVER,
               Body(IF e = "first" THEN 1 ELSE 3, XidOn(m, e), NoGi))

\* A server need not copy the gi-address into an answer it sends straight to
\* the client.
AnswerFrame(w, m, e, gi) ==
  CASE Way[m] = "relayed4" ->
         Frame(w, 4, P!DHCP_SERVER,
               IF gi = NoGi THEN P!DHCP_CLIENT ELSE P!DHCP_SERVER,
               Body(2, XidOn(m, e), gi))
    [] Way[m] = "direct4" ->
         Frame(w, 4, P!DHCP_SERVER, P!DHCP_CLIENT, Body(2, XidOn(m, e), NoGi))
    [] Way[m] = "direct6" ->
         Frame(w, 6, P!DHCP6_SERVER, P!DHCP6_CLIENT,
               Body(IF e = "first" THEN 2 ELSE 7, XidOn(m, e), NoGi))

TftpFrame(w, code, sport, dport) == Frame(w, 4, sport, dport, Body(code, NoXid, NoGi))

\* The port a server sends a file from: "This server keeps port 69 for the whole
\* transfer" (packet.rs:288); any other moves it "to an ephemeral port on both
\* ends" (packet.rs:24-25).
ServerPort(m) == IF m \in Movers THEN P!Ephemeral ELSE P!TFTP

\* Traffic that carries the bytes and the ports of a request and is none: not
\* UDP, no first fragment, not IP, or under more headers than are stepped over.
Strays(w) ==
  LET f == Frame(w, 4, P!DHCP_SERVER, P!DHCP_SERVER, Body(1, NoXid, NoGi)) IN
  {[f EXCEPT !.protocol = 6], [f EXCEPT !.laterFragment = TRUE], [f EXCEPT !.version = 0],
   [f EXCEPT !.tags = P!MaxTags + 1],
   [f EXCEPT !.version = 6, !.extensions = P!MaxExtensions + 1]}

(***************************************************************************)
(* What the loop of capture.rs does with a frame                            *)
(***************************************************************************)
Captured(frame) ==
  LET seen == P!Read(frame) IN
  IF seen = Unread THEN UNCHANGED relays
  ELSE CASE seen.kind = "ClientRequest" -> R!Request(seen.gi, seen.xid)
         [] seen.kind = "ServerReply" -> R!Reply(seen.gi, seen.xid)
         [] seen.kind = "TftpRequest" -> R!TftpRequest
         [] seen.kind = "TftpReply" -> R!TftpSend

(***************************************************************************)
(* The plant                                                                *)
(***************************************************************************)
Init ==
  /\ clock = 1
  /\ R!InitStore
  /\ boot = [m \in Modems |->
               [stage |-> "off", since |-> Never,
                asked |-> [e \in Exchanges |-> 0], owed |-> [e \in Exchanges |-> 0],
                served |-> 0, answered |-> 0, tookMs |-> 0]]
  /\ fetch = [m \in Modems |-> [stage |-> "off", reads |-> 0, sends |-> 0]]

\* The exchange m may send a message of: the next one, or again the one that is
\* not answered yet.
MayAsk(m, e) ==
  /\ boot[m].asked[e] < MaxAsks
  /\ \/ boot[m].stage = (IF e = "first" THEN "off" ELSE "offered")
     \/ boot[m].stage = e /\ m \notin Patient

Ask(m, e, w) ==
  /\ MayAsk(m, e)
  /\ boot' = [boot EXCEPT ![m].stage = e, ![m].since = clock,
                          ![m].asked[e] = @ + 1, ![m].owed[e] = @ + 1]
  /\ Captured(AskFrame(w, m, e))
  /\ UNCHANGED <<clock, fetch>>

\* The server answers one of the messages it was sent.  It settles the modem's
\* exchange if the modem is still waiting on that exchange.
Answer(m, e, w, gi) ==
  /\ boot[m].owed[e] > 0
  /\ boot' = IF boot[m].stage = e
             THEN [boot EXCEPT ![m].stage = IF e = "first" THEN "offered" ELSE "bound",
                               ![m].owed[e] = @ - 1, ![m].served = @ + 1,
                               ![m].answered = @ + 1,
                               ![m].tookMs = @ + (clock - boot[m].since)]
             ELSE [boot EXCEPT ![m].owed[e] = @ - 1, ![m].served = @ + 1]
  /\ Captured(AnswerFrame(w, m, e, gi))
  /\ UNCHANGED <<clock, fetch>>

\* The file: a read request, which may be repeated, then an option
\* acknowledgement or blocks of data, or an error, each acknowledged.
ReadFile(m, w) ==
  /\ boot[m].stage = "bound"
  /\ fetch[m].stage = "off" \/ (fetch[m].stage = "asked" /\ m \notin Patient)
  /\ fetch[m].reads < MaxAsks
  /\ fetch' = [fetch EXCEPT ![m].stage = "asked", ![m].reads = @ + 1]
  /\ Captured(TftpFrame(w, 1, P!Ephemeral, P!TFTP))
  /\ UNCHANGED <<clock, boot>>

SendFile(m, w) ==
  /\ fetch[m].stage \in {"asked", "acked"} /\ fetch[m].sends < MaxAsks
  /\ \E code \in {3, 5, 6} :
       /\ fetch' = [fetch EXCEPT ![m].stage = IF code = 5 THEN "over" ELSE "sent",
                                 ![m].sends = @ + 1]
       /\ Captured(TftpFrame(w, code, ServerPort(m), P!Ephemeral))
  /\ UNCHANGED <<clock, boot>>

AckFile(m, w) ==
  /\ fetch[m].stage = "sent"
  /\ fetch' = [fetch EXCEPT ![m].stage = "acked"]
  /\ Captured(TftpFrame(w, 4, P!Ephemeral, ServerPort(m)))
  /\ UNCHANGED <<clock, boot>>

\* The rest of what crosses the interface.
Noise(w) ==
  /\ \E frame \in Strays(w) : Captured(frame)
  /\ UNCHANGED <<clock, boot, fetch>>

Tick ==
  /\ clock < MaxClock /\ clock' = clock + 1
  /\ UNCHANGED <<relays, boot, fetch>>

Next ==
  \/ \E m \in Modems, w \in Wrappings :
       \/ \E e \in Exchanges : Ask(m, e, w)
       \/ \E e \in Exchanges, gi \in {Interface[m], NoGi} : Answer(m, e, w, gi)
       \/ ReadFile(m, w)
       \/ SendFile(m, w)
       \/ AckFile(m, w)
  \/ \E w \in Wrappings : Noise(w)
  \/ Tick

Spec == Init /\ [][Next]_vars

-----------------------------------------------------------------------------
(***************************************************************************)
(* Properties                                                               *)
(***************************************************************************)

\* The row the requests of a modem belong to.
RowOf(m) == IF Way[m] = "relayed4" THEN Interface[m] ELSE NoGi
Behind(gi) == {m \in Modems : RowOf(m) = gi}
Asks == [m \in Modems |-> boot[m].asked["first"] + boot[m].asked["second"]]

\* What the server of a modem sends from port 69, the one port of it that is
\* watched.
SeenSends == [m \in Modems |-> IF m \in Movers THEN 0 ELSE fetch[m].sends]

\* The counts mean what the report says they mean, whatever tags, extension
\* headers and gi-addresses the frames carry and whatever else crosses the
\* interface (packet.rs:226-262, 284-303): requests are the messages clients
\* really sent, by interface, with a relay's one pair of ports both ways;
\* replies are the server's; tftp reads are how often modems asked for a
\* configuration, so that neither an acknowledgement nor a second block is
\* another read, wherever the transfer moves to; and tftp sends are what
\* servers that keep port 69 sent.
CountsAreTrue ==
  /\ \A gi \in Gi \cup {NoGi} : R!RequestsOf(gi) = SumFunctionOnSet(Asks, Behind(gi))
  /\ SumFunction([gi \in DOMAIN rows |-> rows[gi].replies])
       = SumFunction([m \in Modems |-> boot[m].served])
  /\ rows[NoGi].tftpRequests = SumFunction([m \in Modems |-> fetch[m].reads])
  /\ rows[NoGi].tftpSends = SumFunction(SeenSends)

\* "A request and its reply are matched on their transaction id and the gap
\* between them is the server's response time as the CMTS experiences it"
\* (README.md:53-55): an interface is credited with the exchanges of its modems
\* that were answered, and with the time they took, from the last message of
\* each exchange to the first answer to it.
AnswerTimesAreTrue ==
  \A gi \in DOMAIN rows :
    /\ rows[gi].answered = SumFunctionOnSet([m \in Modems |-> boot[m].answered], Behind(gi))
    /\ rows[gi].answerMsTotal = SumFunctionOnSet([m \in Modems |-> boot[m].tookMs], Behind(gi))
=============================================================================
