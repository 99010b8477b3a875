--------------------------- MODULE MonitorProofs ---------------------------
(***************************************************************************)
(* Theorems about Monitor, for every plant, interval, threshold and list of  *)
(* receivers, every clock that may be set back and sends that wait however   *)
(* long.                                                                    *)
(***************************************************************************)
EXTENDS Monitor, Sums

Addresses == Gi \cup {NoGi}
Ids == Xid \cup {NoXid}
StillToTry == {unsent[i] : i \in DOMAIN unsent}

-----------------------------------------------------------------------------
(***************************************************************************)
(* The invariant                                                            *)
(***************************************************************************)

\* The shapes of the variables the theorems are about.
Typed ==
  /\ clock \in Nat /\ back \in Nat /\ held \in Nat /\ nextReport \in Nat
  /\ adaptation \in BOOLEAN
  /\ wire \in Seq(Frames)
  /\ spoke \in [Gi -> Nat \cup {Never}] /\ reached \in [Gi -> Nat \cup {Never}]
  /\ R!TypeOK /\ A!TypeOK
  /\ pc \in {"read", "due", "sending", "done"}
  /\ unsent \in Seq(Everyone) /\ DOMAIN given = Everyone

\* What really happened is in the past: the last requests of an interface, and
\* the report before the next one, whatever the clock said at the time.
Past ==
  /\ \A g \in Gi : reached[g] # Never =>
       spoke[g] # Never /\ reached[g] <= spoke[g] /\ spoke[g] <= clock + back
  /\ nextReport <= clock + back + ReportEvery

\* What waits in the socket has waited only while a send did.
UnreadIsRecent ==
  \A g \in Gi : Unread(g) =>
    reached[g] # Never /\ clock + back <= reached[g] + held

\* Once it is read, the row says when the interface's last request reached the
\* socket, but for what the clock was set back and what a send kept it waiting.
RowsKnow ==
  /\ \A g \in Gi : reached[g] # Never /\ ~Unread(g) =>
       /\ g \in DOMAIN rows /\ rows[g].lastRequest # Never
       /\ reached[g] <= rows[g].lastRequest + back
       /\ rows[g].lastRequest <= reached[g] + held
  /\ \A g \in Gi \cap DOMAIN rows :
       rows[g].lastRequest # Never => reached[g] # Never

\* The report is made the second it is due, but for the sends since the last
\* one: `was` is what sends had waited when it was made.  And it was made when
\* every interface, if it found none quiet, had been heard recently enough.
OnTime(was) ==
  /\ pc \in {"read", "sending"} => clock < nextReport + (held - was)
  /\ pc = "due" => clock <= nextReport + (held - was)
  /\ ~adaptation /\ judged.state # "Quiet" =>
       \A g \in Gi : reached[g] # Never =>
         nextReport <= Allowed[g] + reached[g] + was + ReportEvery

ReportsOnTime == \E was \in 0 .. held : OnTime(was)

\* While no send has waited, a report that is due finds nothing unread.
NothingUnread ==
  pc = "due" /\ held = 0 /\ clock >= nextReport => wire = <<>>

\* A message is with some receivers and on its way to the others.
RoundIsWhole ==
  /\ pc = "sending" <=> unsent # <<>>
  /\ last # Unsaid => DOMAIN outcome \cup StillToTry = Everyone
  /\ adaptation => last = Unsaid /\ unsent = <<>> /\ outcome = Nothing

\* What was last decided is what was last judged, and whoever was not sent it is
\* still to be tried or has failed.
DecisionIsCurrent == TellsSomebody => A!Decided = judged.state
EachIsServed ==
  last # Unsaid => \A r \in Everyone \ StillToTry : given[r] = last.state \/ Failed(r)
EachIsFresh == last = Unsaid => \A r \in Everyone : given[r] = "Working"
EachKnows == DecisionIsCurrent /\ EachIsServed /\ EachIsFresh

IInv ==
  /\ Typed /\ Past /\ UnreadIsRecent /\ RowsKnow
  /\ ReportsOnTime /\ NothingUnread /\ RoundIsWhole
  /\ EachKnows

-----------------------------------------------------------------------------
(***************************************************************************)
(* What a frame does to the rows                                            *)
(***************************************************************************)

\* Every row that was there still says when its interface last asked, and a
\* new one that it has not.
OthersKept(asking) ==
  /\ DOMAIN rows \subseteq DOMAIN rows'
  /\ \A g \in DOMAIN rows' \ asking :
       rows'[g].lastRequest =
         IF g \in DOMAIN rows THEN rows[g].lastRequest ELSE Never

LEMMA EntryIs ==
  ASSUME R!TypeOK, NEW g \in Addresses
  PROVE  /\ R!Entry(g) \in R!Relay
         /\ R!Entry(g).lastRequest =
              IF g \in DOMAIN rows THEN rows[g].lastRequest ELSE Never
<1>0. R!Now \in Nat
  BY DEF R!TypeOK, R!Now
<1>1. R!Blank \in R!Relay /\ R!Blank.lastRequest = Never
  BY DEF R!Blank, R!Relay
<1>2. CASE g \notin DOMAIN rows
  <2>1. R!Entry(g) = [R!Blank EXCEPT !.firstSeen = R!Now]
    BY <1>2 DEF R!Entry, R!TypeOK
  <2>. QED  BY <1>0, <1>1, <1>2, <2>1 DEF R!Relay
<1>3. CASE g \in DOMAIN rows
  <2>1. rows[g] \in R!Relay
    BY <1>3 DEF R!TypeOK
  <2>2. \/ R!Entry(g) = [rows[g] EXCEPT !.firstSeen = R!Now]
        \/ R!Entry(g) = rows[g]
    BY <1>3 DEF R!Entry
  <2>. QED  BY <1>0, <1>3, <2>1, <2>2 DEF R!Relay
<1>. QED  BY <1>2, <1>3

LEMMA StoreRow ==
  ASSUME R!TypeOK, NEW g \in Addresses, NEW r \in R!Relay, rows' = R!With(rows, g, r)
  PROVE  /\ NoGi \in DOMAIN rows' /\ DOMAIN rows' = DOMAIN rows \cup {g}
         /\ DOMAIN rows' \subseteq Addresses /\ rows' \in [DOMAIN rows' -> R!Relay]
         /\ rows'[g] = r
         /\ \A h \in DOMAIN rows : h # g => rows'[h] = rows[h]
<1>1. rows' = [h \in DOMAIN rows \cup {g} |-> IF h = g THEN r ELSE rows[h]]
  BY DEF R!With
<1>2. \A h \in DOMAIN rows : rows[h] \in R!Relay
  BY DEF R!TypeOK
<1>. QED  BY <1>1, <1>2 DEF R!TypeOK, Addresses

LEMMA AwaitIs ==
  ASSUME R!TypeOK, NEW g \in Addresses, NEW x \in Xid, pending' = R!Await(g, x)
  PROVE  /\ DOMAIN pending' \subseteq Xid
         /\ pending' \in [DOMAIN pending' -> [atMs : Nat, gi : Addresses]]
<1>1. /\ R!Kept \subseteq DOMAIN pending /\ DOMAIN pending \subseteq Xid
      /\ \A y \in DOMAIN pending : pending[y] \in [atMs : Nat, gi : Addresses]
      /\ clock \in Nat
  BY DEF R!Kept, R!Unexpired, R!TypeOK, Addresses
<1>2. R!Swept = [y \in R!Kept |-> pending[y]]
  BY DEF R!Swept
<1>3. CASE pending' = R!Swept
  BY <1>1, <1>2, <1>3
<1>4. CASE pending' = R!With(R!Swept, x, [atMs |-> clock, gi |-> g])
  <2>1. pending' = [y \in R!Kept \cup {x} |->
                      IF y = x THEN [atMs |-> clock, gi |-> g] ELSE pending[y]]
    BY <1>2, <1>4 DEF R!With
  <2>2. [atMs |-> clock, gi |-> g] \in [atMs : Nat, gi : Addresses]
    BY <1>1
  <2>. QED  BY <1>1, <2>1, <2>2
<1>. QED  BY <1>3, <1>4 DEF R!Await

LEMMA RequestIs ==
  ASSUME R!TypeOK, NEW g \in Addresses, NEW x \in Ids, R!Request(g, x), UNCHANGED clock
  PROVE  /\ R!TypeOK' /\ OthersKept({g})
         /\ g \in DOMAIN rows' /\ rows'[g].lastRequest = clock
<1>. DEFINE r == R!Entry(g)
<1>0. clock \in Nat /\ R!Now = clock /\ sweptMs \in Nat
  BY DEF R!TypeOK, R!Now
<1>1. r \in R!Relay
  BY EntryIs
<1>2. R!Asking(r) \in R!Relay /\ R!Asking(r).lastRequest = clock
  <2>. DEFINE gap == IF r.lastRequest = Never THEN r.longestGap
                     ELSE R!Larger(r.longestGap, R!Less(R!Now, r.lastRequest))
              asked == r.requests + 1
  <2>1. gap \in Nat /\ asked \in Nat
    BY <1>0, <1>1 DEF R!Relay, R!Larger, R!Less
  <2>2. R!Asking(r) = [r EXCEPT !.requests = asked, !.longestGap = gap,
                                !.lastRequest = clock]
    BY <1>0 DEF R!Asking
  <2>. HIDE DEF gap, asked, r
  <2>. QED  BY <1>0, <1>1, <2>1, <2>2 DEF R!Relay
<1>3. rows' = R!With(rows, g, R!Asking(r))
  BY DEF R!Request
<1>4. /\ NoGi \in DOMAIN rows' /\ DOMAIN rows' = DOMAIN rows \cup {g}
      /\ DOMAIN rows' \subseteq Addresses /\ rows' \in [DOMAIN rows' -> R!Relay]
      /\ rows'[g] = R!Asking(r)
      /\ \A h \in DOMAIN rows : h # g => rows'[h] = rows[h]
  BY <1>2, <1>3, StoreRow
<1>5. /\ DOMAIN pending' \subseteq Xid
      /\ pending' \in [DOMAIN pending' -> [atMs : Nat, gi : Addresses]]
      /\ sweptMs' \in Nat
  <2>1. CASE x = NoXid
    BY <1>0, <2>1 DEF R!Request, R!TypeOK, Addresses
  <2>2. CASE x # NoXid
    <3>1. x \in Xid /\ pending' = R!Await(g, x)
      BY <2>2 DEF R!Request, Ids
    <3>. QED  BY <1>0, <2>2, <3>1, AwaitIs DEF R!Request
  <2>. QED  BY <2>1, <2>2
<1>6. R!TypeOK'
  BY <1>0, <1>4, <1>5 DEF R!TypeOK, Addresses
<1>. QED  BY <1>2, <1>4, <1>6 DEF OthersKept

LEMMA ReplyIs ==
  ASSUME R!TypeOK, NEW g \in Addresses, NEW x \in Ids, R!Reply(g, x), UNCHANGED clock
  PROVE  R!TypeOK' /\ OthersKept({})
<1>. DEFINE o == R!Owner(g, x)
            r == R!Entry(o)
            d == R!Replied(r)
            took == R!Less(clock, pending[x].atMs)
<1>0. clock \in Nat /\ R!Now = clock
  BY DEF R!TypeOK, R!Now
<1>1. o \in Addresses
  BY DEF R!Owner, R!TypeOK, Addresses
<1>2. r \in R!Relay /\ r.lastRequest =
        (IF o \in DOMAIN rows THEN rows[o].lastRequest ELSE Never)
  BY <1>1, EntryIs
<1>3. d \in R!Relay /\ d.lastRequest = r.lastRequest
  <2>. DEFINE more == r.replies + 1
  <2>1. d = [r EXCEPT !.replies = more, !.lastReply = clock]
    BY <1>0 DEF R!Replied
  <2>2. more \in Nat
    BY <1>2 DEF R!Relay
  <2>. HIDE DEF r, d, more
  <2>. QED  BY <1>0, <1>2, <2>1, <2>2 DEF R!Relay
<1>4. x \in DOMAIN pending =>
        R!Timed(d, took) \in R!Relay /\ R!Timed(d, took).lastRequest = r.lastRequest
  <2>. SUFFICES ASSUME x \in DOMAIN pending
                PROVE  R!Timed(d, took) \in R!Relay /\ R!Timed(d, took).lastRequest = d.lastRequest
    BY <1>3
  <2>1. took \in Nat
    BY <1>0 DEF R!TypeOK, R!Less
  <2>. DEFINE worst == R!Larger(d.answerMsWorst, took)
              sum == d.answerMsTotal + took
              more == d.answered + 1
  <2>2. worst \in Nat /\ sum \in Nat /\ more \in Nat
    BY <1>3, <2>1 DEF R!Larger, R!Relay
  <2>3. R!Timed(d, took) = [d EXCEPT !.answered = more,
                                     !.answerMsTotal = sum, !.answerMsWorst = worst]
    BY DEF R!Timed
  <2>. HIDE DEF d, worst, sum, more, took
  <2>. QED  BY <1>3, <2>2, <2>3 DEF R!Relay
<1>5. \E row \in R!Relay : /\ rows' = R!With(rows, o, row)
                          /\ row.lastRequest = r.lastRequest
  BY <1>3, <1>4 DEF R!Reply
<1>6. PICK row \in R!Relay : /\ rows' = R!With(rows, o, row)
                             /\ row.lastRequest = r.lastRequest
  BY <1>5
<1>7. /\ NoGi \in DOMAIN rows' /\ DOMAIN rows' = DOMAIN rows \cup {o}
      /\ DOMAIN rows' \subseteq Addresses /\ rows' \in [DOMAIN rows' -> R!Relay]
      /\ rows'[o] = row
      /\ \A h \in DOMAIN rows : h # o => rows'[h] = rows[h]
  <2>. HIDE DEF o
  <2>. QED  BY <1>1, <1>6, StoreRow
<1>8. pending' = [y \in DOMAIN pending \ {x} |-> pending[y]] /\ sweptMs' = sweptMs
  BY DEF R!Reply
<1>9. R!TypeOK'
  BY <1>0, <1>7, <1>8 DEF R!TypeOK, Addresses
<1>10. OthersKept({})
  <2>. HIDE DEF o, r
  <2>. QED  BY <1>2, <1>6, <1>7 DEF OthersKept
<1>. QED  BY <1>9, <1>10

LEMMA TftpIs ==
  ASSUME R!TypeOK, R!TftpRequest \/ R!TftpSend, UNCHANGED clock
  PROVE  R!TypeOK' /\ OthersKept({})
<1>. DEFINE r == R!Entry(NoGi)
<1>0. NoGi \in Addresses /\ NoGi \in DOMAIN rows
  BY DEF Addresses, R!TypeOK
<1>1. r \in R!Relay /\ r.lastRequest = rows[NoGi].lastRequest
  BY <1>0, EntryIs
<1>2. PICK row : rows' = R!With(rows, NoGi, row)
                 /\ \/ row = [r EXCEPT !.tftpRequests = r.tftpRequests + 1]
                    \/ row = [r EXCEPT !.tftpSends = r.tftpSends + 1]
  BY DEF R!TftpRequest, R!TftpSend
<1>3. row \in R!Relay /\ row.lastRequest = rows[NoGi].lastRequest
  <2>. HIDE DEF r
  <2>. QED  BY <1>1, <1>2 DEF R!Relay
<1>4. /\ NoGi \in DOMAIN rows' /\ DOMAIN rows' = DOMAIN rows \cup {NoGi}
      /\ DOMAIN rows' \subseteq Addresses /\ rows' \in [DOMAIN rows' -> R!Relay]
      /\ rows'[NoGi] = row
      /\ \A h \in DOMAIN rows : h # NoGi => rows'[h] = rows[h]
  BY <1>0, <1>2, <1>3, StoreRow
<1>5. R!TypeOK'
  <2>1. UNCHANGED <<pending, sweptMs>>
    BY DEF R!TftpRequest, R!TftpSend
  <2>. QED  BY <1>4, <2>1 DEF R!TypeOK, Addresses
<1>. QED  BY <1>0, <1>3, <1>4, <1>5 DEF OthersKept

-----------------------------------------------------------------------------
(***************************************************************************)
(* The steps                                                                *)
(***************************************************************************)

LEMMA Given ==
  /\ Never \notin Nat /\ NoGi \notin Gi
  /\ Unsaid \notin [state : A!States, when : Nat]
  /\ ReportEvery \in Nat /\ ReportEvery > 0
  /\ Allowed \in [Gi -> Nat] /\ MaxBack \in Nat /\ MaxBlock \in Nat
  /\ \A f \in Frames : f.kind \in Kinds /\ f.gi \in Addresses /\ f.xid \in Ids
  BY MonitorAssumption, PartsAssumption
  DEF R!RelaysAssumption, A!AlarmAssumption, A!States, Kinds, Addresses, Ids

Asks(f, g) == f.kind = "ClientRequest" /\ f.gi = g

LEMMA UnreadAfterArrival ==
  ASSUME wire \in Seq(Frames), NEW f \in Frames, wire' = Append(wire, f), NEW g \in Gi
  PROVE  Unread(g)' <=> Unread(g) \/ Asks(f, g)
<1>1. /\ DOMAIN wire' = 1 .. Len(wire) + 1 /\ DOMAIN wire = 1 .. Len(wire)
      /\ Len(wire) \in Nat
      /\ \A i \in 1 .. Len(wire) : wire'[i] = wire[i]
      /\ wire'[Len(wire) + 1] = f
  OBVIOUS
<1>2. Unread(g)' => Unread(g) \/ Asks(f, g)
  <2>. SUFFICES ASSUME NEW i \in DOMAIN wire', Asks(wire'[i], g)
                PROVE  Unread(g) \/ Asks(f, g)
    BY DEF Unread, Asks
  <2>1. CASE i = Len(wire) + 1
    BY <1>1, <2>1
  <2>2. CASE i \in 1 .. Len(wire)
    BY <1>1, <2>2 DEF Unread, Asks
  <2>. QED  BY <1>1, <2>1, <2>2
<1>3. Unread(g) => Unread(g)'
  BY <1>1 DEF Unread
<1>4. Asks(f, g) => Unread(g)'
  <2>. SUFFICES ASSUME Asks(f, g) PROVE Unread(g)'
    OBVIOUS
  <2>1. Len(wire) + 1 \in DOMAIN wire'
    BY <1>1
  <2>. QED  BY <1>1, <2>1 DEF Unread, Asks
<1>. QED  BY <1>2, <1>3, <1>4

LEMMA UnreadAfterRead ==
  ASSUME wire \in Seq(Frames), wire # <<>>, wire' = Tail(wire), NEW g \in Gi
  PROVE  Unread(g) <=> Unread(g)' \/ Asks(Head(wire), g)
<1>1. /\ DOMAIN wire = 1 .. Len(wire) /\ DOMAIN wire' = 1 .. Len(wire) - 1
      /\ Len(wire) \in Nat /\ Len(wire) > 0
      /\ \A i \in 1 .. Len(wire) - 1 : wire'[i] = wire[i + 1]
      /\ Head(wire) = wire[1]
  OBVIOUS
<1>2. Unread(g)' => Unread(g)
  <2>. SUFFICES ASSUME NEW i \in DOMAIN wire', Asks(wire'[i], g)
                PROVE  Unread(g)
    BY DEF Unread, Asks
  <2>1. i + 1 \in DOMAIN wire /\ wire[i + 1] = wire'[i]
    BY <1>1
  <2>. QED  BY <2>1 DEF Unread, Asks
<1>3. Asks(Head(wire), g) => Unread(g)
  <2>. SUFFICES ASSUME Asks(Head(wire), g) PROVE Unread(g)
    OBVIOUS
  <2>1. 1 \in DOMAIN wire
    BY <1>1
  <2>. QED  BY <1>1, <2>1 DEF Unread, Asks
<1>4. Unread(g) => Unread(g)' \/ Asks(Head(wire), g)
  <2>. SUFFICES ASSUME NEW i \in DOMAIN wire, Asks(wire[i], g), i # 1
                PROVE  Unread(g)'
    BY <1>1 DEF Unread, Asks
  <2>1. i - 1 \in DOMAIN wire' /\ wire'[i - 1] = wire[i]
    BY <1>1
  <2>. QED  BY <2>1 DEF Unread, Asks
<1>. QED  BY <1>2, <1>3, <1>4

\* While nothing is said and nothing sent, everybody knows what they knew.
LEMMA SameKnowledge ==
  ASSUME EachKnows, UNCHANGED <<last, judged, adaptation, unsent, outcome, given>>
  PROVE  EachKnows'
BY DEF EachKnows, DecisionIsCurrent, EachIsServed, EachIsFresh, Failed, StillToTry,
       TellsSomebody, A!Decided

LEMMA InitHolds == Init => IInv
<1>. SUFFICES ASSUME Init PROVE IInv
  OBVIOUS
<1>. USE Given DEF Init, Began
<1>1. Typed
  <2>1. R!Blank \in R!Relay
    BY DEF R!Blank, R!Relay
  <2>2. R!TypeOK
    BY <2>1 DEF R!TypeOK, R!InitStore
  <2>3. A!TypeOK
    BY DEF A!TypeOK, A!States
  <2>. QED  BY <2>2, <2>3, MonitorAssumption DEF Typed
<1>2. Past /\ NothingUnread
  BY DEF Past, NothingUnread
<1>3. UnreadIsRecent
  BY DEF UnreadIsRecent, Unread
<1>4. RowsKnow
  BY DEF RowsKnow, R!InitStore
<1>5. ReportsOnTime
  <2>1. 0 \in 0 .. held /\ OnTime(0)
    BY DEF OnTime
  <2>. QED  BY <2>1 DEF ReportsOnTime
<1>6. RoundIsWhole /\ EachKnows
  BY DEF RoundIsWhole, EachKnows, DecisionIsCurrent, EachIsServed, EachIsFresh, A!Decided
<1>. QED  BY <1>1, <1>2, <1>3, <1>4, <1>5, <1>6 DEF IInv

\* A frame on its way moves the last request of its interface to now.
LEMMA NotedIs ==
  ASSUME NEW times \in [Gi -> Nat \cup {Never}], NEW f \in Frames, clock \in Nat, back \in Nat
  PROVE  /\ Noted(times, f) \in [Gi -> Nat \cup {Never}]
         /\ \A g \in Gi : Noted(times, f)[g] = IF Asks(f, g) THEN clock + back ELSE times[g]
<1>1. f.gi \in Addresses /\ NoGi \notin Gi
  BY Given
<1>2. CASE f.kind = "ClientRequest" /\ f.gi # NoGi
  <2>1. Noted(times, f) = [times EXCEPT ![f.gi] = clock + back] /\ f.gi \in Gi
    BY <1>1, <1>2 DEF Noted, Addresses
  <2>. QED  BY <1>2, <2>1 DEF Asks
<1>3. CASE ~(f.kind = "ClientRequest" /\ f.gi # NoGi)
  <2>1. Noted(times, f) = times /\ \A g \in Gi : ~Asks(f, g)
    BY <1>1, <1>3 DEF Noted, Asks
  <2>. QED  BY <2>1
<1>. QED  BY <1>2, <1>3

\* What is the same whether the socket takes the frame or not.
LEMMA FrameHolds ==
  ASSUME IInv, NEW f \in Frames, FrameComes(f)
  PROVE  /\ clock' = clock /\ back' = back /\ held' = held
         /\ \A g \in Gi : spoke'[g] = IF Asks(f, g) THEN clock + back ELSE spoke[g]
         /\ reached' \in [Gi -> Nat \cup {Never}] /\ wire' \in Seq(Frames) => Typed'
         /\ NothingUnread' /\ RoundIsWhole' /\ EachKnows'
<1>. USE DEF FrameComes, time, relays, said, outbox
<1>1. Typed /\ clock \in Nat /\ back \in Nat /\ spoke \in [Gi -> Nat \cup {Never}]
  BY DEF IInv, Typed
<1>2. /\ spoke' \in [Gi -> Nat \cup {Never}]
      /\ \A g \in Gi : spoke'[g] = IF Asks(f, g) THEN clock + back ELSE spoke[g]
  <2>1. spoke' = Noted(spoke, f)
    OBVIOUS
  <2>. QED  BY <1>1, <2>1, NotedIs
<1>3. R!TypeOK' /\ A!TypeOK'
  BY <1>1 DEF Typed, R!TypeOK, A!TypeOK
<1>4. NothingUnread' /\ RoundIsWhole' /\ EachKnows'
  BY SameKnowledge DEF IInv, NothingUnread, RoundIsWhole, StillToTry
<1>. QED  BY <1>1, <1>2, <1>3, <1>4 DEF Typed

LEMMA ArriveHolds ==
  ASSUME IInv, NEW f \in Frames, Arrive(f)
  PROVE  IInv'
<1>0. /\ clock \in Nat /\ back \in Nat /\ held \in Nat /\ nextReport \in Nat
      /\ wire \in Seq(Frames) /\ wire' = Append(wire, f)
      /\ reached \in [Gi -> Nat \cup {Never}] /\ reached' = Noted(reached, f)
      /\ spoke \in [Gi -> Nat \cup {Never}]
      /\ UNCHANGED <<rows, adaptation, judged, nextReport, pc>>
  BY DEF IInv, Typed, Arrive, FrameComes, relays, said
<1>1. /\ clock' = clock /\ back' = back /\ held' = held
      /\ \A g \in Gi : spoke'[g] = IF Asks(f, g) THEN clock + back ELSE spoke[g]
      /\ reached' \in [Gi -> Nat \cup {Never}] /\ wire' \in Seq(Frames) => Typed'
      /\ NothingUnread' /\ RoundIsWhole' /\ EachKnows'
  BY FrameHolds DEF Arrive
<1>2. /\ reached' \in [Gi -> Nat \cup {Never}]
      /\ \A g \in Gi : /\ reached'[g] = IF Asks(f, g) THEN clock + back ELSE reached[g]
                       /\ Unread(g)' <=> Unread(g) \/ Asks(f, g)
  BY <1>0, NotedIs, UnreadAfterArrival
<1>3. Typed'
  BY <1>0, <1>1, <1>2
<1>4. Past'
  <2>1. ASSUME NEW g \in Gi, reached'[g] # Never
        PROVE  /\ spoke'[g] # Never /\ reached'[g] <= spoke'[g]
               /\ spoke'[g] <= clock' + back'
    <3>1. CASE Asks(f, g)
      <4>1. /\ spoke'[g] = clock + back /\ reached'[g] = clock + back
            /\ clock' + back' = clock + back /\ clock + back \in Nat
        BY <1>0, <1>1, <1>2, <3>1
      <4>. QED  BY <4>1, Given
    <3>2. CASE ~Asks(f, g)
      BY <1>0, <1>1, <1>2, <2>1, <3>2 DEF IInv, Past
    <3>. QED  BY <3>1, <3>2
  <2>. QED  BY <1>0, <1>1, <2>1 DEF IInv, Past
<1>5. UnreadIsRecent'
  BY <1>0, <1>1, <1>2, Given DEF IInv, UnreadIsRecent
<1>6. RowsKnow'
  BY <1>0, <1>1, <1>2, Given DEF IInv, RowsKnow
<1>7. ReportsOnTime'
  <2>1. PICK was \in 0 .. held : OnTime(was)
    BY DEF IInv, ReportsOnTime
  <2>2. OnTime(was)'
    BY <1>0, <1>1, <1>2, <2>1, Given DEF OnTime, IInv, Past
  <2>. QED  BY <1>0, <1>1, <2>1, <2>2 DEF ReportsOnTime
<1>. QED  BY <1>1, <1>3, <1>4, <1>5, <1>6, <1>7 DEF IInv

LEMMA OverflowHolds ==
  ASSUME IInv, NEW f \in Frames, Overflow(f)
  PROVE  IInv'
<1>0. /\ clock \in Nat /\ back \in Nat /\ held \in Nat /\ nextReport \in Nat
      /\ wire \in Seq(Frames) /\ reached \in [Gi -> Nat \cup {Never}]
      /\ spoke \in [Gi -> Nat \cup {Never}]
      /\ UNCHANGED <<wire, reached, rows, adaptation, judged, nextReport, pc>>
  BY DEF IInv, Typed, Overflow, FrameComes, relays, said
<1>1. /\ clock' = clock /\ back' = back /\ held' = held
      /\ \A g \in Gi : spoke'[g] = IF Asks(f, g) THEN clock + back ELSE spoke[g]
      /\ reached' \in [Gi -> Nat \cup {Never}] /\ wire' \in Seq(Frames) => Typed'
      /\ NothingUnread' /\ RoundIsWhole' /\ EachKnows'
  BY FrameHolds DEF Overflow
<1>2. Past'
  BY <1>0, <1>1, Given DEF IInv, Past
<1>3. UnreadIsRecent' /\ RowsKnow'
  BY <1>0, <1>1 DEF IInv, UnreadIsRecent, RowsKnow, Unread
<1>4. ReportsOnTime'
  BY <1>0, <1>1 DEF IInv, ReportsOnTime, OnTime
<1>. QED  BY <1>0, <1>1, <1>2, <1>3, <1>4 DEF IInv

LEMMA SetBackHolds ==
  ASSUME IInv, SetBack
  PROVE  IInv'
<1>. USE Given DEF SetBack, plant, relays, said, outbox
<1>0. /\ Typed /\ held' = held
      /\ clock \in Nat /\ back \in Nat /\ held \in Nat /\ nextReport \in Nat
      /\ spoke \in [Gi -> Nat \cup {Never}] /\ reached \in [Gi -> Nat \cup {Never}]
  BY DEF IInv, Typed
<1>1. PICK d \in 1 .. MaxBack - back :
        clock - d >= Began /\ clock' = clock - d /\ back' = back + d
  OBVIOUS
<1>2. /\ d \in Nat /\ clock' + back' = clock + back
      /\ clock' \in Nat /\ clock' <= clock /\ back' \in Nat /\ back' >= back
  BY <1>0, <1>1 DEF Began
<1>3. Typed'
  BY <1>0, <1>2 DEF Typed, R!TypeOK, A!TypeOK
<1>4. Past' /\ UnreadIsRecent' /\ NothingUnread'
  BY <1>0, <1>2 DEF IInv, Past, UnreadIsRecent, Unread, NothingUnread
<1>5. RowsKnow'
  <2>1. \A g \in Gi \cap DOMAIN rows : rows[g].lastRequest \in Nat \cup {Never}
    BY <1>0 DEF Typed, R!TypeOK, R!Relay
  <2>. QED  BY <1>0, <1>2, <2>1 DEF IInv, RowsKnow, Unread
<1>6. ReportsOnTime'
  <2>1. PICK was \in 0 .. held : OnTime(was)
    BY DEF IInv, ReportsOnTime
  <2>2. OnTime(was)'
    BY <1>0, <1>2, <2>1 DEF OnTime
  <2>. QED  BY <1>0, <2>1, <2>2 DEF ReportsOnTime
<1>7. RoundIsWhole' /\ EachKnows'
  BY SameKnowledge DEF IInv, RoundIsWhole, StillToTry
<1>. QED  BY <1>3, <1>4, <1>5, <1>6, <1>7 DEF IInv

LEMMA StopHolds ==
  ASSUME IInv, Stop
  PROVE  IInv'
<1>. USE DEF Stop, time, plant, relays, said, outbox
<1>1. Typed'
  BY DEF IInv, Typed, R!TypeOK, A!TypeOK
<1>2. Past' /\ UnreadIsRecent' /\ RowsKnow' /\ NothingUnread'
  BY DEF IInv, Past, UnreadIsRecent, RowsKnow, Unread, NothingUnread
<1>3. ReportsOnTime'
  BY DEF IInv, ReportsOnTime, OnTime
<1>4. RoundIsWhole' /\ EachKnows'
  BY SameKnowledge DEF IInv, RoundIsWhole, StillToTry
<1>. QED  BY <1>1, <1>2, <1>3, <1>4 DEF IInv

LEMMA NotDueHolds ==
  ASSUME IInv, NotDue
  PROVE  IInv'
<1>. USE DEF NotDue, time, plant, relays, said, outbox
<1>1. Typed'
  BY DEF IInv, Typed, R!TypeOK, A!TypeOK
<1>2. Past' /\ UnreadIsRecent' /\ RowsKnow' /\ NothingUnread'
  BY DEF IInv, Past, UnreadIsRecent, RowsKnow, Unread, NothingUnread
<1>3. ReportsOnTime'
  <2>1. PICK was \in 0 .. held : OnTime(was)
    BY DEF IInv, ReportsOnTime
  <2>2. OnTime(was)'
    BY <2>1 DEF OnTime, IInv, Typed
  <2>. QED  BY <2>1, <2>2 DEF ReportsOnTime
<1>4. RoundIsWhole' /\ EachKnows'
  BY SameKnowledge DEF IInv, RoundIsWhole, StillToTry
<1>. QED  BY <1>1, <1>2, <1>3, <1>4 DEF IInv

LEMMA ReadWaitsHolds ==
  ASSUME IInv, ReadWaits
  PROVE  IInv'
<1>. USE DEF ReadWaits, plant, relays, said, outbox
<1>0. /\ Typed /\ clock \in Nat /\ back \in Nat /\ held \in Nat /\ nextReport \in Nat
      /\ spoke \in [Gi -> Nat \cup {Never}] /\ reached \in [Gi -> Nat \cup {Never}]
      /\ clock' \in {clock, clock + 1} /\ back' = back /\ held' = held
  BY DEF IInv, Typed
<1>1. Typed'
  BY <1>0 DEF Typed, R!TypeOK, A!TypeOK
<1>2. Past'
  BY <1>0, Given DEF IInv, Past
<1>3. UnreadIsRecent' /\ NothingUnread'
  BY DEF UnreadIsRecent, Unread, NothingUnread
<1>4. RowsKnow'
  BY <1>0 DEF IInv, RowsKnow, Unread
<1>5. ReportsOnTime'
  <2>1. PICK was \in 0 .. held : OnTime(was)
    BY DEF IInv, ReportsOnTime
  <2>2. OnTime(was)'
    BY <1>0, <2>1 DEF OnTime
  <2>. QED  BY <1>0, <2>1, <2>2 DEF ReportsOnTime
<1>6. RoundIsWhole' /\ EachKnows'
  BY SameKnowledge DEF IInv, RoundIsWhole, StillToTry
<1>. QED  BY <1>1, <1>2, <1>3, <1>4, <1>5, <1>6 DEF IInv

LEMMA ReadFrameHolds ==
  ASSUME IInv, ReadFrame
  PROVE  IInv'
<1>. USE DEF ReadFrame, time, said, outbox
<1>. DEFINE f == Head(wire)
<1>0. /\ Typed /\ clock' = clock /\ back' = back /\ held' = held
      /\ clock \in Nat /\ back \in Nat /\ held \in Nat /\ nextReport \in Nat
      /\ wire \in Seq(Frames) /\ wire # <<>> /\ wire' = Tail(wire)
      /\ spoke \in [Gi -> Nat \cup {Never}] /\ reached \in [Gi -> Nat \cup {Never}] /\ reached' = reached /\ spoke' = spoke
      /\ R!TypeOK
  BY DEF IInv, Typed
<1>1. f \in Frames /\ f.kind \in Kinds /\ f.gi \in Addresses /\ f.xid \in Ids
  BY <1>0, Given
<1>2. /\ R!TypeOK'
      /\ IF f.kind = "ClientRequest"
         THEN /\ OthersKept({f.gi})
              /\ f.gi \in DOMAIN rows' /\ rows'[f.gi].lastRequest = clock
         ELSE OthersKept({})
  <2>0. clock' = clock /\ Count(f)
    BY <1>0
  <2>. HIDE DEF f
  <2>1. CASE f.kind = "ClientRequest"
    BY <1>0, <1>1, <2>0, <2>1, RequestIs DEF Count
  <2>2. CASE f.kind = "ServerReply"
    BY <1>0, <1>1, <2>0, <2>2, ReplyIs DEF Count
  <2>3. CASE f.kind \in {"TftpRequest", "TftpReply"}
    BY <1>0, <2>0, <2>3, TftpIs DEF Count
  <2>. QED  BY <1>1, <2>1, <2>2, <2>3 DEF Kinds
<1>3. \A g \in Gi : Unread(g) <=> Unread(g)' \/ Asks(f, g)
  BY <1>0, UnreadAfterRead
<1>. HIDE DEF f
<1>4. Typed'
  BY <1>0, <1>2 DEF Typed, A!TypeOK
<1>5. Past'
  BY <1>0 DEF IInv, Past
<1>6. UnreadIsRecent'
  BY <1>0, <1>3 DEF IInv, UnreadIsRecent
<1>7. RowsKnow'
  <2>1. ASSUME NEW g \in Gi, reached[g] # Never, ~Unread(g)'
        PROVE  /\ g \in DOMAIN rows' /\ rows'[g].lastRequest # Never
               /\ reached[g] <= rows'[g].lastRequest + back
               /\ rows'[g].lastRequest <= reached[g] + held
    <3>1. CASE Asks(f, g)
      <4>1. Unread(g) /\ clock + back <= reached[g] + held /\ reached[g] <= clock + back
        <5>1. /\ reached[g] # Never /\ spoke[g] # Never
              /\ reached[g] <= spoke[g] /\ spoke[g] <= clock + back
          BY <1>0, <2>1 DEF IInv, Past
        <5>2. reached[g] \in Nat /\ spoke[g] \in Nat
          BY <1>0, <5>1
        <5>. QED  BY <1>0, <1>3, <2>1, <3>1, <5>1, <5>2 DEF IInv, UnreadIsRecent
      <4>2. g \in DOMAIN rows' /\ rows'[g].lastRequest = clock
        BY <1>2, <3>1 DEF Asks
      <4>. QED  BY <1>0, <2>1, <4>1, <4>2, Given
    <3>2. CASE ~Asks(f, g)
      <4>1. ~Unread(g)
        BY <1>3, <2>1, <3>2
      <4>2. g \in DOMAIN rows
        BY <2>1, <4>1 DEF IInv, RowsKnow
      <4>3. g \in DOMAIN rows' /\ rows'[g].lastRequest = rows[g].lastRequest
        BY <1>2, <3>2, <4>2 DEF OthersKept, Asks
      <4>. QED  BY <2>1, <4>1, <4>3 DEF IInv, RowsKnow
    <3>. QED  BY <3>1, <3>2
  <2>2. ASSUME NEW g \in Gi \cap DOMAIN rows', rows'[g].lastRequest # Never
        PROVE  reached[g] # Never
    <3>1. CASE Asks(f, g)
      BY <1>3, <3>1 DEF IInv, UnreadIsRecent
    <3>2. CASE ~Asks(f, g)
      BY <1>2, <2>2, <3>2 DEF OthersKept, Asks, IInv, RowsKnow
    <3>. QED  BY <3>1, <3>2
  <2>. QED  BY <1>0, <2>1, <2>2 DEF RowsKnow
<1>8. ReportsOnTime' /\ NothingUnread'
  <2>1. PICK was \in 0 .. held : OnTime(was)
    BY DEF IInv, ReportsOnTime
  <2>2. OnTime(was)'
    BY <1>0, <2>1 DEF OnTime
  <2>3. held = 0 => clock < nextReport
    BY <1>0, <2>1 DEF OnTime
  <2>. QED  BY <1>0, <2>1, <2>2, <2>3 DEF ReportsOnTime, NothingUnread
<1>9. RoundIsWhole' /\ EachKnows'
  BY SameKnowledge DEF IInv, RoundIsWhole, StillToTry
<1>. QED  BY <1>4, <1>5, <1>6, <1>7, <1>8, <1>9 DEF IInv

LEMMA SendHolds ==
  ASSUME IInv, Send
  PROVE  IInv'
<1>. USE DEF Send, plant, relays, counts, said
<1>0. /\ Typed /\ clock \in Nat /\ back \in Nat /\ held \in Nat /\ nextReport \in Nat
      /\ spoke \in [Gi -> Nat \cup {Never}] /\ reached \in [Gi -> Nat \cup {Never}] /\ unsent \in Seq(Everyone)
      /\ unsent # <<>>
  BY DEF IInv, Typed, RoundIsWhole
<1>1. PICK d \in 0 .. MaxBlock : clock' = clock + d /\ held' = held + d
  OBVIOUS
<1>2. PICK result \in {"ok", "failed"} : Sent(result)
  OBVIOUS
<1>3. /\ d \in Nat /\ clock' \in Nat /\ held' \in Nat /\ back' = back
      /\ clock' = clock + d /\ held' = held + d
  BY <1>0, <1>1, Given
<1>4. Typed'
  <2>1. /\ unsent' \in Seq(Everyone) /\ pc' \in {"read", "sending"}
        /\ DOMAIN given' = DOMAIN given
    BY <1>0, <1>2 DEF Sent, GivenIf
  <2>. QED  BY <1>0, <1>3, <2>1 DEF Typed, R!TypeOK, A!TypeOK
<1>5. Past' /\ UnreadIsRecent'
  <2>1. Past'
    BY <1>0, <1>3, Given DEF IInv, Past
  <2>2. UnreadIsRecent'
    BY <1>0, <1>3, Given, SMTT(30) DEF IInv, UnreadIsRecent, Unread
  <2>. QED  BY <2>1, <2>2
<1>6. RowsKnow'
  <2>1. \A g \in Gi \cap DOMAIN rows : rows[g].lastRequest \in Nat \cup {Never}
    BY <1>0 DEF Typed, R!TypeOK, R!Relay
  <2>. QED  BY <1>0, <1>3, <2>1, SMTT(30) DEF IInv, RowsKnow, Unread
<1>7. ReportsOnTime' /\ NothingUnread'
  <2>1. PICK was \in 0 .. held : OnTime(was)
    BY DEF IInv, ReportsOnTime
  <2>2. pc' \in {"read", "sending"}
    BY <1>2 DEF Sent
  <2>3. OnTime(was)'
    BY <1>0, <1>3, <2>1, <2>2 DEF OnTime
  <2>4. was \in 0 .. held'
    BY <1>0, <1>3
  <2>. QED  BY <2>2, <2>3, <2>4 DEF ReportsOnTime, NothingUnread
<1>8. /\ unsent' = Tail(unsent) /\ outcome' = Tried(result) /\ given' = GivenIf(result)
      /\ StillToTry = {Head(unsent)} \cup StillToTry' /\ Head(unsent) \in Everyone
  <2>1. unsent' = Tail(unsent) /\ outcome' = Tried(result) /\ given' = GivenIf(result)
    BY <1>2 DEF Sent
  <2>2. /\ DOMAIN unsent = 1 .. Len(unsent) /\ DOMAIN unsent' = 1 .. Len(unsent) - 1
        /\ Len(unsent) \in Nat /\ Len(unsent) > 0 /\ Head(unsent) = unsent[1]
        /\ \A i \in 1 .. Len(unsent) - 1 : unsent'[i] = unsent[i + 1]
    BY <1>0, <2>1
  <2>3. ASSUME NEW i \in DOMAIN unsent, i # 1
        PROVE  unsent[i] \in StillToTry'
    <3>1. i - 1 \in DOMAIN unsent' /\ unsent'[i - 1] = unsent[i]
      BY <2>2, <2>3
    <3>. QED  BY <3>1 DEF StillToTry
  <2>4. ASSUME NEW i \in DOMAIN unsent'
        PROVE  unsent'[i] \in StillToTry
    <3>1. i + 1 \in DOMAIN unsent /\ unsent'[i] = unsent[i + 1]
      BY <2>2
    <3>. QED  BY <3>1 DEF StillToTry
  <2>5. Head(unsent) \in StillToTry /\ Head(unsent) \in Everyone
    BY <1>0, <2>2 DEF StillToTry
  <2>. QED  BY <2>1, <2>2, <2>3, <2>4, <2>5 DEF StillToTry
<1>9. RoundIsWhole'
  <2>1. DOMAIN outcome' = DOMAIN outcome \cup {Head(unsent)}
    BY <1>8 DEF Tried
  <2>2. ~adaptation
    BY <1>0 DEF IInv, RoundIsWhole
  <2>3. pc' = "sending" <=> unsent' # <<>>
    BY <1>2 DEF Sent
  <2>. QED  BY <1>8, <2>1, <2>2, <2>3 DEF IInv, RoundIsWhole
<1>10. EachKnows'
  <2>0. PICK h : h = Head(unsent)
    OBVIOUS
  <2>1. TellsSomebody
    BY <1>0, <1>8 DEF IInv, RoundIsWhole, TellsSomebody, Everyone
  <2>2. A!Decided = judged.state /\ DecisionIsCurrent /\ EachIsServed /\ EachIsFresh
    BY <2>1 DEF IInv, EachKnows, DecisionIsCurrent
  <2>3. /\ DOMAIN given = Everyone
        /\ \A r \in Everyone : given'[r] = IF r = h /\ result = "ok"
                                           THEN judged.state ELSE given[r]
    BY <1>8, <2>0 DEF IInv, Typed, GivenIf
  <2>4. /\ result = "failed" => Failed(h)'
        /\ \A r \in Everyone \ {h} : Failed(r) => Failed(r)'
    <3>1. outcome' = [r \in DOMAIN outcome \cup {h} |-> IF r = h THEN result ELSE outcome[r]]
      BY <1>8, <2>0 DEF Tried
    <3>2. /\ DOMAIN outcome' = DOMAIN outcome \cup {h} /\ outcome'[h] = result
          /\ \A r \in DOMAIN outcome \ {h} : outcome'[r] = outcome[r]
      BY <3>1
    <3>. QED  BY <3>2 DEF Failed
  <2>5. DecisionIsCurrent'
    BY <2>2 DEF DecisionIsCurrent, TellsSomebody, A!Decided
  <2>6. EachIsServed'
    <3>. SUFFICES ASSUME last # Unsaid, NEW r \in Everyone, r \notin StillToTry'
                  PROVE  given'[r] = last.state \/ Failed(r)'
      BY DEF EachIsServed
    <3>1. last.state = judged.state
      BY <2>2 DEF A!Decided
    <3>2. CASE r = h
      <4>1. CASE result = "ok"
        BY <2>3, <3>1, <3>2, <4>1
      <4>2. CASE result = "failed"
        BY <2>4, <3>2, <4>2
      <4>. QED  BY <4>1, <4>2
    <3>3. CASE r # h
      <4>1. given[r] = last.state \/ Failed(r)
        BY <1>8, <2>0, <2>2, <3>3 DEF EachIsServed
      <4>. QED  BY <2>3, <2>4, <3>3, <4>1
    <3>. QED  BY <3>2, <3>3
  <2>7. EachIsFresh'
    BY <2>2, <2>3 DEF EachIsFresh, A!Decided
  <2>. QED  BY <2>5, <2>6, <2>7 DEF EachKnows
<1>. QED  BY <1>4, <1>5, <1>6, <1>7, <1>9, <1>10 DEF IInv

-----------------------------------------------------------------------------
(***************************************************************************)
(* The report: what is judged against what is true.                         *)
(***************************************************************************)

VerdictOf == A!Worst(Verdicts)

\* A verdict of "Quiet" rests on an interface that is silent, or hidden.
LEMMA QuietHasACause ==
  ASSUME IInv, pc = "due", clock >= nextReport, VerdictOf = "Quiet"
  PROVE  \E g \in Gi : reached[g] # Never /\ (SilentFor(g) > Allowed[g] \/ Hidden(g))
<1>0. /\ clock \in Nat /\ back \in Nat /\ held \in Nat
      /\ spoke \in [Gi -> Nat \cup {Never}] /\ reached \in [Gi -> Nat \cup {Never}]
      /\ DOMAIN rows \subseteq Addresses
      /\ \A g \in DOMAIN rows : rows[g].lastRequest \in Nat \cup {Never}
  BY DEF IInv, Typed, R!TypeOK, R!Relay, Addresses
<1>1. "Quiet" \in Verdicts
  BY DEF VerdictOf, A!Worst
<1>2. PICK g \in R!Each : Verdict(g) = "Quiet"
  BY <1>1 DEF Verdicts
<1>3. g \in Gi /\ g \in DOMAIN rows
  BY <1>0, <1>2 DEF R!Each, Addresses
<1>4. R!IdleFor(g) # Never /\ R!IdleFor(g) > Allowed[g]
  BY <1>2 DEF Verdict, A!JudgeRelay
<1>5. rows[g].lastRequest # Never /\ rows[g].lastRequest \in Nat
  BY <1>0, <1>3, <1>4 DEF R!IdleFor
<1>6. clock - rows[g].lastRequest > Allowed[g]
  <2>1. R!IdleFor(g) = R!Less(clock, rows[g].lastRequest)
    BY <1>0, <1>5 DEF R!IdleFor, R!Now
  <2>. QED  BY <1>0, <1>3, <1>4, <1>5, <2>1, Given DEF R!Less
<1>7. reached[g] # Never /\ reached[g] \in Nat
  BY <1>0, <1>3, <1>5 DEF IInv, RowsKnow
<1>8. CASE Unread(g)
  <2>1. wire # <<>>
    BY <1>8 DEF Unread
  <2>2. Hidden(g)
    BY <1>0, <1>8, <2>1 DEF IInv, NothingUnread, Hidden
  <2>. QED  BY <1>3, <1>7, <2>2
<1>9. CASE ~Unread(g)
  <2>1. reached[g] <= rows[g].lastRequest + back
    BY <1>3, <1>7, <1>9 DEF IInv, RowsKnow
  <2>2. Allowed[g] \in Nat
    BY <1>3, Given
  <2>3. SilentFor(g) > Allowed[g] \/ Hidden(g)
    BY <1>0, <1>5, <1>6, <1>7, <2>1, <2>2 DEF SilentFor, Hidden
  <2>. QED  BY <1>3, <1>7, <2>3
<1>. QED  BY <1>8, <1>9

\* Any other verdict bounds the silence of every interface.
LEMMA SilenceIsJudged ==
  ASSUME IInv, VerdictOf # "Quiet", NEW g \in Gi, reached[g] # Never
  PROVE  clock <= Allowed[g] + reached[g] + held
<1>0. /\ clock \in Nat /\ back \in Nat /\ held \in Nat
      /\ reached[g] \in Nat /\ Allowed[g] \in Nat
  BY Given DEF IInv, Typed
<1>1. CASE Unread(g)
  BY <1>0, <1>1 DEF IInv, UnreadIsRecent
<1>2. CASE ~Unread(g)
  <2>1. /\ g \in DOMAIN rows /\ rows[g].lastRequest # Never
        /\ rows[g].lastRequest <= reached[g] + held
    BY <1>2 DEF IInv, RowsKnow
  <2>2. rows[g].lastRequest \in Nat
    BY <2>1 DEF IInv, Typed, R!TypeOK, R!Relay
  <2>3. R!IdleFor(g) = R!Less(clock, rows[g].lastRequest)
    BY <1>0, <2>1 DEF R!IdleFor, R!Now
  <2>4. R!IdleFor(g) \in Nat
    BY <1>0, <2>2, <2>3 DEF R!Less
  <2>5. Verdict(g) # "Quiet"
    <3>1. g \in R!Each
      BY <2>1, Given DEF R!Each
    <3>2. Verdict(g) \in Verdicts
      BY <3>1 DEF Verdicts
    <3>. QED  BY <3>2 DEF VerdictOf, A!Worst
  <2>6. R!IdleFor(g) <= Allowed[g]
    BY <1>0, <2>4, <2>5, Given DEF Verdict, A!JudgeRelay
  <2>. QED  BY <1>0, <2>1, <2>2, <2>3, <2>6 DEF R!Less
<1>. QED  BY <1>1, <1>2

\* What a report judges is what is decided on, whatever was said before it.
LEMMA ReportDecides ==
  ASSUME IInv, Report
  PROVE  /\ A!TypeOK'
         /\ DecisionIsCurrent'
         /\ ~adaptation => judged'.state = VerdictOf
<1>0. /\ clock \in Nat /\ clock' = clock /\ adaptation' = adaptation
      /\ A!TypeOK /\ DecisionIsCurrent
  BY DEF IInv, EachKnows, Typed, Report, time
<1>1. VerdictOf \in A!States
  BY DEF VerdictOf, A!Worst, A!States
<1>2. CASE adaptation
  BY <1>0, <1>2 DEF Report, A!TypeOK, DecisionIsCurrent, TellsSomebody
<1>3. CASE ~adaptation /\ Receivers = <<>>
  <2>1. judged' = [state |-> VerdictOf, when |-> clock] /\ last' = last
    BY <1>3 DEF Report, Tell, VerdictOf
  <2>2. judged'.state = VerdictOf
    BY <2>1
  <2>. QED  BY <1>0, <1>1, <1>3, <2>1, <2>2 DEF A!TypeOK, DecisionIsCurrent, TellsSomebody
<1>4. CASE ~adaptation /\ Receivers # <<>>
  <2>1. A!ShouldSend(VerdictOf) /\ DecisionIsCurrent /\ A!Decided = judged.state
    BY <1>0, <1>4 DEF Report, Tell, VerdictOf, DecisionIsCurrent, TellsSomebody
  <2>2. judged' = [state |-> VerdictOf, when |-> clock] /\ judged'.state = VerdictOf
    BY <2>1 DEF A!ShouldSend
  <2>3. CASE A!Due(VerdictOf)
    <3>1. last' = [state |-> VerdictOf, when |-> clock]
      BY <2>1, <2>3 DEF A!ShouldSend
    <3>2. last' \in [state : A!States, when : Nat]
      BY <1>0, <1>1, <3>1
    <3>3. A!Decided' = VerdictOf
      BY <3>1, <3>2, Given DEF A!Decided
    <3>. QED  BY <1>0, <1>1, <2>2, <3>2, <3>3 DEF A!TypeOK, DecisionIsCurrent
  <2>4. CASE ~A!Due(VerdictOf)
    <3>1. last' = last
      BY <2>1, <2>4 DEF A!ShouldSend
    <3>2. last = Unsaid => VerdictOf = "Working"
      BY <2>4 DEF A!Due, A!IsTrouble
    <3>3. last # Unsaid => last.state = VerdictOf
      BY <2>4 DEF A!Due
    <3>4. A!Decided' = VerdictOf
      BY <3>1, <3>2, <3>3 DEF A!Decided
    <3>. QED  BY <1>0, <1>1, <2>2, <3>1, <3>4 DEF A!TypeOK, DecisionIsCurrent
  <2>. QED  BY <2>2, <2>3, <2>4
<1>. QED  BY <1>2, <1>3, <1>4 DEF Report

LEMMA ReportStartsARound ==
  ASSUME IInv, Report
  PROVE  /\ RoundIsWhole' /\ unsent' \in Seq(Everyone) /\ given' = given
         /\ EachIsServed' /\ EachIsFresh'
         /\ pc' \in {"read", "sending"}
<1>0. /\ RoundIsWhole /\ EachIsServed /\ EachIsFresh /\ unsent = <<>> /\ unsent \in Seq(Everyone)
      /\ adaptation' = adaptation /\ Receivers \in Seq(Everyone)
  BY MonitorAssumption DEF IInv, EachKnows, Typed, RoundIsWhole, Report, Everyone
<1>1. CASE pc' = "read" /\ UNCHANGED <<last, outbox>>
  BY <1>0, <1>1 DEF RoundIsWhole, EachIsServed, EachIsFresh, Failed, StillToTry, outbox
<1>2. CASE ~adaptation /\ Receivers # <<>> /\ ~A!Due(VerdictOf)
  <2>1. pc' = "read" /\ UNCHANGED <<last, outbox>>
    BY <1>2 DEF Report, Tell, VerdictOf, A!ShouldSend
  <2>. QED  BY <1>1, <2>1
<1>3. CASE ~adaptation /\ Receivers # <<>> /\ A!Due(VerdictOf)
  <2>1. /\ pc' = "sending" /\ unsent' = Receivers /\ outcome' = Nothing /\ given' = given
        /\ last' = [state |-> VerdictOf, when |-> clock]
    BY <1>3 DEF Report, Tell, VerdictOf, A!ShouldSend
  <2>2. DOMAIN Nothing = {} /\ StillToTry' = Everyone
    BY <2>1 DEF Nothing, StillToTry, Everyone
  <2>3. last' # Unsaid
    <3>1. VerdictOf \in A!States /\ clock \in Nat
      BY DEF VerdictOf, A!Worst, A!States, IInv, Typed
    <3>. QED  BY <2>1, <3>1, Given
  <2>. QED  BY <1>0, <1>3, <2>1, <2>2, <2>3 DEF RoundIsWhole, EachIsServed, EachIsFresh
<1>. QED  BY <1>1, <1>2, <1>3 DEF Report, Tell, VerdictOf, outbox

LEMMA ReportHolds ==
  ASSUME IInv, Report
  PROVE  IInv'
<1>0. /\ Typed /\ clock \in Nat /\ back \in Nat /\ held \in Nat /\ nextReport \in Nat
      /\ pc = "due" /\ clock >= nextReport /\ nextReport' = clock + ReportEvery
      /\ clock' = clock /\ back' = back /\ held' = held /\ adaptation' = adaptation
      /\ UNCHANGED <<wire, spoke, reached, relays>>
      /\ spoke \in [Gi -> Nat \cup {Never}] /\ reached \in [Gi -> Nat \cup {Never}]
  BY DEF IInv, Typed, Report, time, plant
<1>1. /\ A!TypeOK' /\ DecisionIsCurrent'
      /\ ~adaptation => judged'.state = VerdictOf
  BY ReportDecides
<1>2. /\ RoundIsWhole' /\ unsent' \in Seq(Everyone) /\ given' = given
      /\ EachIsServed' /\ EachIsFresh'
      /\ pc' \in {"read", "sending"}
  BY ReportStartsARound
<1>3. Typed'
  BY <1>0, <1>1, <1>2, Given DEF Typed, R!TypeOK, relays
<1>4. Past' /\ UnreadIsRecent' /\ RowsKnow' /\ NothingUnread'
  BY <1>0, <1>2, Given DEF IInv, Past, UnreadIsRecent, RowsKnow, Unread, NothingUnread, relays
<1>5. ReportsOnTime'
  <2>1. held \in 0 .. held'
    BY <1>0
  <2>2. ASSUME ~adaptation, judged'.state # "Quiet", NEW g \in Gi, reached[g] # Never
        PROVE  clock + ReportEvery <= Allowed[g] + reached[g] + held + ReportEvery
    <3>1. clock <= Allowed[g] + reached[g] + held
      BY <1>1, <2>2, SilenceIsJudged
    <3>. QED  BY <1>0, <2>2, <3>1, Given
  <2>3. OnTime(held)'
    BY <1>0, <1>2, <2>2, Given DEF OnTime
  <2>. QED  BY <1>0, <2>1, <2>3 DEF ReportsOnTime
<1>. QED  BY <1>1, <1>2, <1>3, <1>4, <1>5 DEF IInv, EachKnows

LEMMA StepHolds == IInv /\ [Next]_vars => IInv'
<1>. SUFFICES ASSUME IInv, [Next]_vars PROVE IInv'
  OBVIOUS
<1>1. ASSUME NEW f \in Frames, Arrive(f) \/ Overflow(f) PROVE IInv'
  BY <1>1, ArriveHolds, OverflowHolds
<1>2. CASE SetBack
  BY <1>2, SetBackHolds
<1>3. CASE Loop
  BY <1>3, StopHolds, ReadFrameHolds, ReadWaitsHolds, NotDueHolds, ReportHolds, SendHolds
  DEF Loop
<1>4. CASE UNCHANGED vars
  <2>. USE <1>4 DEF vars, time, plant, relays, said, outbox
  <2>1. Typed'
    BY DEF IInv, Typed, R!TypeOK, A!TypeOK
  <2>2. Past' /\ UnreadIsRecent' /\ RowsKnow' /\ NothingUnread'
    BY DEF IInv, Past, UnreadIsRecent, RowsKnow, Unread, NothingUnread
  <2>3. ReportsOnTime'
    BY DEF IInv, ReportsOnTime, OnTime
  <2>4. RoundIsWhole' /\ EachKnows'
    BY SameKnowledge DEF IInv, RoundIsWhole, StillToTry
  <2>. QED  BY <2>1, <2>2, <2>3, <2>4 DEF IInv
<1>. QED  BY <1>1, <1>2, <1>3, <1>4 DEF Next

LEMMA AlwaysIInv == Spec => []IInv
  BY InitHolds, StepHolds, PTL DEF Spec

-----------------------------------------------------------------------------
(***************************************************************************)
(* The theorems                                                             *)
(***************************************************************************)

\* The rows and the table of unanswered requests keep their shapes under the
\* loop (relays.rs:46-123), and so does the memory of what was said.
THEOREM PartsTyped == Spec => [](R!TypeOK /\ A!TypeOK)
<1>1. IInv => R!TypeOK /\ A!TypeOK
  BY DEF IInv, Typed
<1>. QED  BY <1>1, AlwaysIInv, PTL

\* Whatever the traffic, the clock and the sends do, every receiver was sent what
\* was last judged, or is still to be tried with it, or the send to it failed
\* (capture.rs:263-316).  For the one whose send failed nothing is claimed: it may
\* be left with an older state until the next message.
THEOREM ReadersAlwaysCurrent == Spec => []ReadersAreCurrent
<1>1. IInv => ReadersAreCurrent
  <2>. SUFFICES ASSUME IInv, TellsSomebody, NEW r \in Everyone, r \notin StillToTry
                PROVE  given[r] = judged.state \/ Failed(r)
    BY DEF ReadersAreCurrent, StillToTry
  <2>1. A!Decided = judged.state
    BY DEF IInv, EachKnows, DecisionIsCurrent
  <2>. QED  BY <2>1 DEF IInv, EachKnows, EachIsServed, EachIsFresh, A!Decided
<1>. QED  BY <1>1, AlwaysIInv, PTL

\* However many receivers there are and whichever of them fail, each is tried
\* for every message (capture.rs:287-316), and an adaptation run raises no
\* alarm (main.rs:91).
THEOREM EveryReceiverAlwaysTried == Spec => []EveryReceiverTried
<1>1. IInv => EveryReceiverTried
  <2>. SUFFICES ASSUME IInv, pc = "read", last # Unsaid
                PROVE  DOMAIN outcome = Everyone
    BY DEF IInv, RoundIsWhole, EveryReceiverTried, Everyone
  <2>1. unsent = <<>> /\ DOMAIN outcome \cup StillToTry = Everyone
    BY DEF IInv, RoundIsWhole
  <2>2. StillToTry = {}
    BY <2>1 DEF StillToTry
  <2>. QED  BY <2>1, <2>2
<1>. QED  BY <1>1, AlwaysIInv, PTL

\* When the loop is reading, what was decided on has been passed on.
LEMMA QuietIsPassedOn ==
  ASSUME IInv, pc = "read", A!Decided = "Quiet"
  PROVE  PassedOn("Quiet")
<1>1. StillToTry = {}
  BY DEF IInv, RoundIsWhole, StillToTry
<1>2. last # Unsaid /\ last.state = "Quiet"
  BY DEF A!Decided
<1>. QED  BY <1>1, <1>2 DEF IInv, EachKnows, EachIsServed, PassedOn

\* By what an interface is allowed, one report interval, what the clock was set
\* back and what sends waited after its last request, the plant has been decided
\* to be quiet, and every receiver has been sent that unless the send to it failed
\* (capture.rs:154-199, 263-316), for every plant and every traffic of which the
\* socket took one request.
THEOREM SilenceAlwaysToldInTime == Spec => []SilenceToldInTime
<1>1. IInv => SilenceToldInTime
  <2>. SUFFICES ASSUME IInv, NEW g \in Gi, TellsSomebody, pc = "read", reached[g] # Never,
                       SilentFor(g) >= Allowed[g] + ReportEvery + back + held,
                       A!Decided # "Quiet"
                PROVE  FALSE
    BY QuietIsPassedOn DEF SilenceToldInTime
  <2>1. /\ clock \in Nat /\ back \in Nat /\ held \in Nat /\ nextReport \in Nat
        /\ reached[g] \in Nat /\ Allowed[g] \in Nat /\ ReportEvery \in Nat
    BY Given DEF IInv, Typed
  <2>2. ~adaptation /\ judged.state # "Quiet"
    BY DEF IInv, EachKnows, DecisionIsCurrent, TellsSomebody
  <2>3. PICK was \in 0 .. held : OnTime(was)
    BY DEF IInv, ReportsOnTime
  <2>4. /\ clock < nextReport + (held - was)
        /\ nextReport <= Allowed[g] + reached[g] + was + ReportEvery
    BY <2>2, <2>3 DEF OnTime
  <2>5. clock + back - reached[g] >= Allowed[g] + ReportEvery + back + held
    <3>1. reached[g] <= spoke[g] /\ spoke[g] \in Nat
      BY <2>1, Given DEF IInv, Typed, Past
    <3>. QED  BY <2>1, <3>1 DEF SilentFor
  <2>. QED  BY <2>1, <2>3, <2>4, <2>5
<1>. QED  BY <1>1, AlwaysIInv, PTL

\* A report calls the plant quiet for a reason: an interface is silent, or a
\* send has waited and what it sent is unread, or what it sent last was lost to a
\* full socket.  And it never misses a silence that the clock and the sends cannot
\* hide.
THEOREM QuietIsAlwaysTrue == Spec => QuietIsTrue
<1>. DEFINE Justified ==
       Reports /\ ~adaptation =>
         /\ judged'.state = "Quiet" =>
              \E g \in Gi : /\ reached[g] # Never
                            /\ SilentFor(g) > Allowed[g] \/ Hidden(g)
         /\ (\E g \in Gi : reached[g] # Never /\ SilentFor(g) > Allowed[g] + back + held) =>
              judged'.state = "Quiet"
<1>1. IInv /\ [Next]_vars => [Justified]_vars
  <2>. SUFFICES ASSUME IInv, Next, Reports, ~adaptation
                PROVE  /\ judged'.state = "Quiet" =>
                            \E g \in Gi :
                              /\ reached[g] # Never
                              /\ SilentFor(g) > Allowed[g] \/ Hidden(g)
                       /\ (\E g \in Gi : /\ reached[g] # Never
                                         /\ SilentFor(g) > Allowed[g] + back + held) =>
                            judged'.state = "Quiet"
    BY DEF vars
  <2>1. Report
    BY DEF Reports, Next, Arrive, Overflow, FrameComes, SetBack, Loop, Stop, ReadFrame, ReadWaits, NotDue, Send
  <2>2. pc = "due" /\ clock >= nextReport /\ judged'.state = VerdictOf
    BY <2>1, ReportDecides DEF Report
  <2>3. judged'.state = "Quiet" =>
          \E g \in Gi : /\ reached[g] # Never
                        /\ SilentFor(g) > Allowed[g] \/ Hidden(g)
    BY <2>2, QuietHasACause
  <2>4. ASSUME NEW g \in Gi, reached[g] # Never, SilentFor(g) > Allowed[g] + back + held,
               judged'.state # "Quiet"
        PROVE  FALSE
    <3>1. /\ clock \in Nat /\ back \in Nat /\ held \in Nat
          /\ reached[g] \in Nat /\ Allowed[g] \in Nat
      BY <2>4, Given DEF IInv, Typed
    <3>2. clock <= Allowed[g] + reached[g] + held
      BY <2>2, <2>4, SilenceIsJudged
    <3>3. reached[g] <= spoke[g] /\ spoke[g] \in Nat
      BY <2>4, <3>1, Given DEF IInv, Typed, Past
    <3>. QED  BY <2>4, <3>1, <3>2, <3>3 DEF SilentFor
  <2>. QED  BY <2>3, <2>4
<1>. QED  BY InitHolds, StepHolds, <1>1, PTL DEF Spec, QuietIsTrue

-----------------------------------------------------------------------------
(***************************************************************************)
(* The two counts of one frame                                              *)
(***************************************************************************)

Fields == {"requests", "replies", "tftpRequests", "tftpSends"}
FieldOf(kind) ==
  CASE kind = "ClientRequest" -> "requests"
    [] kind = "ServerReply" -> "replies"
    [] kind = "TftpRequest" -> "tftpRequests"
    [] kind = "TftpReply" -> "tftpSends"

Counts == [Kinds -> Nat]
Bucket == [at : Nat, counts : Counts]

\* What the buckets bs hold of kind k, stale or not.
CountsOf(bs, k) == [i \in DOMAIN bs |-> bs[i].counts[k]]
Tally(bs, k) == SumFunctionOnSet(CountsOf(bs, k), DOMAIN bs)

\* The rows add up to the totals, and no window is more than the buckets that
\* are left, stale ones included, which are never more than the totals.
RowsAgree ==
  /\ IsFiniteSet(DOMAIN rows)
  /\ \A k \in Kinds : total[k] = RowSum(FieldOf(k))
BucketsAgree ==
  /\ total \in Counts /\ answer \in Counts /\ buckets \in Seq(Bucket)
  /\ \A k \in Kinds : Tally(buckets, k) <= total[k] /\ answer[k] <= total[k]

-----------------------------------------------------------------------------
LEMMA SameSums ==
  /\ \A f, S : C!SumFunctionOnSet(f, S) = SumFunctionOnSet(f, S)
  /\ \A f : C!SumFunction(f) = SumFunctionOnSet(f, DOMAIN f)
<1>1. \A f, S : C!SumFunctionOnSet(f, S) = SumFunctionOnSet(f, S)
  BY Zenon DEF C!SumFunctionOnSet, SumFunctionOnSet, C!FoldFunctionOnSet, FoldFunctionOnSet,
     C!MapThenFoldSet, MapThenFoldSet
<1>. QED  BY <1>1, Zenon DEF C!SumFunction

LEMMA CountsAre ==
  ASSUME NEW c \in Counts, NEW k \in Kinds
  PROVE  /\ c[k] \in Nat
         /\ [c EXCEPT ![k] = @ + 1] \in Counts /\ [c EXCEPT ![k] = @ + 1][k] = c[k] + 1
         /\ \A l \in Kinds \ {k} : [c EXCEPT ![k] = @ + 1][l] = c[l]
  BY DEF Counts

LEMMA BucketsHave ==
  ASSUME NEW bs \in Seq(Bucket)
  PROVE  /\ Len(bs) \in Nat /\ DOMAIN bs = 1 .. Len(bs) /\ IsFiniteSet(DOMAIN bs)
         /\ \A i \in 1 .. Len(bs) : bs[i] \in Bucket /\ bs[i].counts \in Counts
<1>1. Len(bs) \in Nat /\ DOMAIN bs = 1 .. Len(bs) /\ \A i \in 1 .. Len(bs) : bs[i] \in Bucket
  OBVIOUS
<1>2. \A b \in Bucket : b.counts \in Counts
  BY DEF Bucket
<1>3. IsFiniteSet(1 .. Len(bs))
  BY <1>1, FS_Interval
<1>. QED  BY <1>1, <1>2, <1>3

LEMMA TallyIs ==
  ASSUME NEW bs \in Seq(Bucket), NEW k \in Kinds
  PROVE  /\ \A i \in DOMAIN bs : CountsOf(bs, k)[i] = bs[i].counts[k] /\ bs[i].counts[k] \in Nat
         /\ Tally(bs, k) \in Nat /\ C!SumOf(bs, k) = Tally(bs, k)
<1>1. \A i \in DOMAIN bs : CountsOf(bs, k)[i] = bs[i].counts[k]
  BY DEF CountsOf
<1>2. \A i \in DOMAIN bs : bs[i].counts[k] \in Nat
  BY BucketsHave, CountsAre, ZenonT(30)
<1>3. Tally(bs, k) \in Nat
  BY <1>1, <1>2, BucketsHave, SumIsNat DEF Tally
<1>4. C!SumOf(bs, k) = Tally(bs, k)
  <2>1. DOMAIN CountsOf(bs, k) = DOMAIN bs
    BY DEF CountsOf
  <2>2. C!SumOf(bs, k) = C!SumFunction(CountsOf(bs, k))
    BY DEF C!SumOf, CountsOf
  <2>. QED  BY <2>1, <2>2, SameSums DEF Tally
<1>. QED  BY <1>1, <1>2, <1>3, <1>4

LEMMA TallyAppends ==
  ASSUME NEW bs \in Seq(Bucket), NEW b \in Bucket, NEW k \in Kinds
  PROVE  Append(bs, b) \in Seq(Bucket) /\ Tally(Append(bs, b), k) = Tally(bs, k) + b.counts[k]
<1>. DEFINE n == Len(bs)
            cs == Append(bs, b)
            f == CountsOf(bs, k)
            g == CountsOf(cs, k)
<1>1. /\ cs \in Seq(Bucket) /\ n \in Nat /\ DOMAIN bs = 1 .. n /\ DOMAIN cs = 1 .. n + 1
      /\ \A i \in 1 .. n : cs[i] = bs[i]
      /\ cs[n + 1] = b
  OBVIOUS
<1>2. /\ \A i \in 1 .. n : f[i] = bs[i].counts[k] /\ f[i] \in Nat
  BY <1>1, TallyIs
<1>. HIDE DEF cs, n
<1>3. /\ \A i \in 1 .. n + 1 : g[i] = cs[i].counts[k] /\ g[i] \in Nat
  BY <1>1, TallyIs
<1>4. \A i \in 1 .. n : i \in 1 .. n + 1
  BY <1>1
<1>5. \A i \in 1 .. n : f[i] \in Nat /\ g[i] = f[i]
  BY <1>1, <1>2, <1>3, <1>4
<1>6. n + 1 \in 1 .. n + 1
  BY <1>1
<1>7. g[n + 1] \in Nat /\ g[n + 1] = b.counts[k]
  BY <1>1, <1>3, <1>6
<1>. HIDE DEF f, g
<1>8. SumFunctionOnSet(g, 1 .. n + 1) = SumFunctionOnSet(f, 1 .. n) + g[n + 1]
  BY <1>1, <1>5, <1>7, SumAppends
<1>. QED  BY <1>1, <1>7, <1>8 DEF Tally, f, g, cs

LEMMA TallyGrows ==
  ASSUME NEW bs \in Seq(Bucket), bs # <<>>, NEW k \in Kinds, NEW l \in Kinds
  PROVE  LET cs == [bs EXCEPT ![Len(bs)].counts[k] = @ + 1]
         IN  cs \in Seq(Bucket) /\ Tally(cs, l) = Tally(bs, l) + (IF l = k THEN 1 ELSE 0)
<1>. DEFINE cs == [bs EXCEPT ![Len(bs)].counts[k] = @ + 1]
            n == Len(bs)
            b == bs[n]
            new == [b EXCEPT !.counts[k] = @ + 1]
            more == [b.counts EXCEPT ![k] = @ + 1]
            f == CountsOf(bs, l)
            g == CountsOf(cs, l)
            one == IF l = k THEN 1 ELSE 0
<1>1. n \in Nat /\ n > 0 /\ DOMAIN bs = 1 .. n /\ n \in 1 .. n /\ \A i \in 1 .. n : bs[i] \in Bucket
  OBVIOUS
<1>2. cs = [bs EXCEPT ![n] = new]
  OBVIOUS
<1>. HIDE DEF cs
<1>3. new = [b EXCEPT !.counts = more]
  BY Zenon
<1>4. b \in Bucket /\ b.counts \in Counts
  BY <1>1, BucketsHave
<1>5. more \in Counts /\ more[l] = b.counts[l] + one
  <2>. DEFINE c == b.counts
  <2>1. c \in Counts /\ c[l] \in Nat
    BY <1>4, CountsAre
  <2>. HIDE DEF c
  <2>2. /\ [c EXCEPT ![k] = @ + 1] \in Counts /\ [c EXCEPT ![k] = @ + 1][k] = c[k] + 1
        /\ \A m \in Kinds \ {k} : [c EXCEPT ![k] = @ + 1][m] = c[m]
    BY <2>1, CountsAre
  <2>3. [c EXCEPT ![k] = @ + 1][l] = c[l] + one
    BY <2>1, <2>2
  <2>. QED  BY <2>2, <2>3 DEF c
<1>. HIDE DEF b, more, one
<1>6. new \in Bucket /\ new.counts = more
  BY <1>3, <1>4, <1>5 DEF Bucket
<1>. HIDE DEF new
<1>7. /\ cs \in Seq(Bucket) /\ DOMAIN cs = 1 .. n /\ cs[n] = new
      /\ \A i \in (1 .. n) \ {n} : cs[i] = bs[i]
  <2>1. cs \in Seq(Bucket) /\ Len(cs) = n
    BY <1>1, <1>2, <1>6
  <2>2. DOMAIN cs = 1 .. n
    BY <2>1
  <2>3. cs[n] = new /\ \A i \in (1 .. n) \ {n} : cs[i] = bs[i]
    BY <1>1, <1>2
  <2>. QED  BY <2>1, <2>2, <2>3
<1>. HIDE DEF n
<1>8. /\ \A i \in 1 .. n : f[i] = bs[i].counts[l] /\ f[i] \in Nat
      /\ \A i \in 1 .. n : g[i] = cs[i].counts[l] /\ g[i] \in Nat
  <2>1. \A i \in 1 .. n : f[i] = bs[i].counts[l] /\ f[i] \in Nat
    BY <1>1, TallyIs
  <2>2. \A i \in DOMAIN cs : g[i] = cs[i].counts[l] /\ cs[i].counts[l] \in Nat
    BY <1>7, TallyIs
  <2>. QED  BY <1>7, <2>1, <2>2
<1>9. /\ \A i \in (1 .. n) \ {n} : g[i] = f[i]
      /\ g[n] \in Nat /\ g[n] = f[n] + one
  BY <1>1, <1>5, <1>6, <1>7, <1>8 DEF b
<1>10. IsFiniteSet(1 .. n) /\ (1 .. n) \cup {n} = 1 .. n /\ \A i \in 1 .. n : f[i] \in Nat
  <2>1. IsFiniteSet(1 .. n)
    BY <1>1, FS_Interval
  <2>. HIDE DEF f
  <2>. QED  BY <1>1, <1>8, <2>1
<1>. HIDE DEF f, g
<1>11. SumFunctionOnSet(g, (1 .. n) \cup {n}) =
         g[n] + (SumFunctionOnSet(f, 1 .. n) - (IF n \in 1 .. n THEN f[n] ELSE 0))
  BY <1>9, <1>10, SumChanges
<1>12. SumFunctionOnSet(f, 1 .. n) \in Nat
  BY <1>10, SumIsNat
<1>13. f[n] \in Nat /\ one \in Nat
  BY <1>1, <1>10 DEF one
<1>14. SumFunctionOnSet(g, 1 .. n) = SumFunctionOnSet(f, 1 .. n) + one
  <2>1. SumFunctionOnSet(g, 1 .. n) = g[n] + (SumFunctionOnSet(f, 1 .. n) - f[n])
    BY <1>1, <1>10, <1>11
  <2>. QED  BY <1>9, <1>12, <1>13, <2>1
<1>. QED  BY <1>1, <1>7, <1>14 DEF Tally, f, g, one, cs

LEMMA KeptUnfolds ==
  ASSUME Len(buckets) \in Nat
  PROVE  /\ C!KeptUpTo[0] = <<>>
         /\ \A i \in 1 .. Len(buckets) :
              C!KeptUpTo[i] = IF buckets[i].at > C!Cutoff
                              THEN Append(C!KeptUpTo[i - 1], buckets[i]) ELSE C!KeptUpTo[i - 1]
<1>1. IsChosen(C!KeptUpTo, buckets, C!Cutoff, Len(buckets))
  <2>1. PICK g : IsChosen(g, buckets, C!Cutoff, Len(buckets))
    BY ChoiceExists
  <2>. QED  BY <2>1 DEF C!KeptUpTo, IsChosen
<1>2. ASSUME NEW g, IsChosen(g, buckets, C!Cutoff, Len(buckets)), NEW i \in 0 .. Len(buckets)
      PROVE  g[i] = IF i = 0 THEN <<>>
                    ELSE IF buckets[i].at > C!Cutoff THEN Append(g[i - 1], buckets[i]) ELSE g[i - 1]
  BY <1>2 DEF IsChosen
<1>3. 0 \in 0 .. Len(buckets) /\ \A i \in 1 .. Len(buckets) : i \in 0 .. Len(buckets) /\ i # 0
  OBVIOUS
<1>. QED  BY <1>1, <1>2, <1>3

LEMMA KeptTally ==
  ASSUME buckets \in Seq(Bucket), NEW k \in Kinds
  PROVE  C!KeptBuckets \in Seq(Bucket) /\ Tally(C!KeptBuckets, k) <= Tally(buckets, k)
<1>. DEFINE L == Len(buckets)
            f == CountsOf(buckets, k)
            Fits(n) == /\ C!KeptUpTo[n] \in Seq(Bucket)
                       /\ Tally(C!KeptUpTo[n], k) <= SumFunctionOnSet(f, 1 .. n)
            B == {n \in 0 .. L : ~Fits(n)}
<1>1. /\ L \in Nat /\ DOMAIN buckets = 1 .. L
      /\ \A i \in 1 .. L : buckets[i] \in Bucket /\ f[i] = buckets[i].counts[k] /\ f[i] \in Nat
  BY BucketsHave, TallyIs
<1>2. /\ C!KeptUpTo[0] = <<>>
      /\ \A i \in 1 .. L :
           C!KeptUpTo[i] = IF buckets[i].at > C!Cutoff
                           THEN Append(C!KeptUpTo[i - 1], buckets[i]) ELSE C!KeptUpTo[i - 1]
  BY <1>1, KeptUnfolds
<1>. HIDE DEF f, L
<1>3. Fits(0)
  <2>1. <<>> \in Seq(Bucket) /\ DOMAIN <<>> = {}
    OBVIOUS
  <2>2. Tally(<<>>, k) = 0
    BY <2>1, SumOfNone DEF Tally
  <2>3. 1 .. 0 = {}
    OBVIOUS
  <2>4. SumFunctionOnSet(f, 1 .. 0) = 0
    BY <2>3, SumOfNone
  <2>. QED  BY <1>2, <2>1, <2>2, <2>4
<1>4. ASSUME NEW n \in 1 .. L, Fits(n - 1) PROVE Fits(n)
  <2>. DEFINE was == C!KeptUpTo[n - 1]
              m == n - 1
  <2>1. m \in Nat /\ m + 1 = n /\ n \in Nat
    BY <1>1
  <2>2. /\ \A i \in 1 .. m : f[i] \in Nat /\ f[i] = f[i]
        /\ f[m + 1] \in Nat
    BY <1>1, <2>1
  <2>3. SumFunctionOnSet(f, 1 .. m + 1) = SumFunctionOnSet(f, 1 .. m) + f[m + 1]
    <3>. HIDE DEF m
    <3>. QED  BY <2>1, <2>2, SumAppends
  <2>4. SumFunctionOnSet(f, 1 .. m) \in Nat
    <3>1. IsFiniteSet(1 .. m)
      BY <2>1, FS_Interval
    <3>. QED  BY <2>2, <3>1, SumIsNat
  <2>5. was \in Seq(Bucket) /\ Tally(was, k) <= SumFunctionOnSet(f, 1 .. m)
    BY <1>4
  <2>6. Tally(was, k) \in Nat
    BY <2>5, TallyIs
  <2>. HIDE DEF was, m
  <2>7. CASE buckets[n].at > C!Cutoff
    <3>1. C!KeptUpTo[n] = Append(was, buckets[n])
      BY <1>2, <2>7 DEF was
    <3>2. buckets[n] \in Bucket /\ buckets[n].counts[k] = f[n]
      BY <1>1
    <3>3. /\ Append(was, buckets[n]) \in Seq(Bucket)
          /\ Tally(Append(was, buckets[n]), k) = Tally(was, k) + buckets[n].counts[k]
      BY <2>5, <3>2, TallyAppends
    <3>4. /\ C!KeptUpTo[n] \in Seq(Bucket)
          /\ Tally(C!KeptUpTo[n], k) = Tally(was, k) + f[n]
      BY <3>1, <3>2, <3>3
    <3>. QED  BY <2>1, <2>2, <2>3, <2>4, <2>5, <2>6, <3>4
  <2>8. CASE ~(buckets[n].at > C!Cutoff)
    <3>1. C!KeptUpTo[n] = was
      BY <1>2, <2>8 DEF was
    <3>. QED  BY <2>1, <2>2, <2>3, <2>4, <2>5, <2>6, <3>1
  <2>. QED  BY <2>7, <2>8
<1>. HIDE DEF Fits
<1>5. B = {}
  <2>. SUFFICES ASSUME B # {} PROVE FALSE
    OBVIOUS
  <2>1. PICK n \in B : \A l \in B : n <= l
    <3>1. B \in SUBSET Nat
      BY <1>1
    <3>. HIDE DEF B
    <3>. QED  BY <3>1, Least
  <2>2. n \in 0 .. L /\ ~Fits(n) /\ n # 0
    BY <1>3, <2>1
  <2>3. n \in 1 .. L /\ n - 1 \in 0 .. L /\ n - 1 < n
    BY <1>1, <2>2
  <2>4. Fits(n - 1)
    <3>1. n - 1 \notin B
      <4>. HIDE DEF B
      <4>. QED  BY <2>1, <2>3
    <3>. QED  BY <2>3, <3>1
  <2>. QED  BY <1>4, <2>2, <2>3, <2>4
<1>6. Fits(L)
  <2>1. L \in 0 .. L
    BY <1>1
  <2>. QED  BY <1>5, <2>1
<1>. QED  BY <1>1, <1>6 DEF Fits, L, f, C!KeptBuckets, Tally

LEMMA CountedTally ==
  ASSUME clock \in Nat, NEW bs \in Seq(Bucket), NEW k \in Kinds, NEW l \in Kinds
  PROVE  /\ C!CountedIn(bs, k) \in Seq(Bucket)
         /\ Tally(C!CountedIn(bs, k), l) = Tally(bs, l) + (IF l = k THEN 1 ELSE 0)
<1>1. CASE bs # <<>> /\ C!Last(bs).at = clock
  <2>1. C!CountedIn(bs, k) = [bs EXCEPT ![Len(bs)].counts[k] = @ + 1]
    BY <1>1 DEF C!CountedIn
  <2>. DEFINE cs == [bs EXCEPT ![Len(bs)].counts[k] = @ + 1]
  <2>2. cs \in Seq(Bucket) /\ Tally(cs, l) = Tally(bs, l) + (IF l = k THEN 1 ELSE 0)
    BY <1>1, TallyGrows, Zenon
  <2>. HIDE DEF cs
  <2>. QED  BY <2>1, <2>2 DEF cs
<1>2. CASE ~(bs # <<>> /\ C!Last(bs).at = clock)
  <2>. DEFINE new == [at |-> clock, counts |-> C!One(k)]
  <2>1. C!CountedIn(bs, k) = Append(bs, new)
    BY <1>2 DEF C!CountedIn
  <2>2. C!One(k) \in Counts /\ C!One(k)[l] = IF l = k THEN 1 ELSE 0
    BY DEF C!One, C!NoCounts, Counts
  <2>3. new \in Bucket /\ new.counts = C!One(k)
    BY <2>2 DEF Bucket
  <2>. HIDE DEF new
  <2>4. /\ Append(bs, new) \in Seq(Bucket)
        /\ Tally(Append(bs, new), l) = Tally(bs, l) + new.counts[l]
    BY <2>3, TallyAppends
  <2>. QED  BY <2>1, <2>2, <2>3, <2>4
<1>. QED  BY <1>1, <1>2

-----------------------------------------------------------------------------
Had(g, field) == IF g \in DOMAIN rows THEN rows[g][field] ELSE 0

LEMMA RelayHas ==
  ASSUME NEW r \in R!Relay, NEW field \in Fields
  PROVE  r[field] \in Nat
  BY DEF R!Relay, Fields

LEMMA EntryHas ==
  ASSUME R!TypeOK, NEW g \in Addresses, NEW field \in Fields
  PROVE  R!Entry(g)[field] = Had(g, field) /\ Had(g, field) \in Nat
<1>1. R!Blank \in R!Relay /\ R!Blank[field] = 0
  BY DEF R!Blank, R!Relay, Fields
<1>2. CASE g \notin DOMAIN rows
  <2>1. R!Entry(g) = [R!Blank EXCEPT !.firstSeen = R!Now]
    BY <1>2 DEF R!Entry, R!TypeOK
  <2>2. R!Entry(g)[field] = R!Blank[field]
    BY <1>1, <2>1 DEF R!Relay, Fields
  <2>. QED  BY <1>1, <1>2, <2>2 DEF Had
<1>3. CASE g \in DOMAIN rows
  <2>1. rows[g] \in R!Relay
    BY <1>3 DEF R!TypeOK
  <2>2. \/ R!Entry(g) = [rows[g] EXCEPT !.firstSeen = R!Now]
        \/ R!Entry(g) = rows[g]
    BY <1>3 DEF R!Entry
  <2>3. R!Entry(g)[field] = rows[g][field]
    BY <2>1, <2>2 DEF R!Relay, Fields
  <2>. QED  BY <1>3, <2>1, <2>3, RelayHas DEF Had
<1>. QED  BY <1>2, <1>3

\* One frame adds one to one field of one row.
RowCounts(field) ==
  \E g \in Addresses :
    /\ DOMAIN rows' = DOMAIN rows \cup {g}
    /\ \A h \in DOMAIN rows \ {g} : rows'[h] = rows[h]
    /\ \A F \in Fields : rows'[g][F] = Had(g, F) + (IF F = field THEN 1 ELSE 0)

LEMMA StoreCounts ==
  ASSUME R!TypeOK, NEW g \in Addresses, NEW field \in Fields, NEW r, rows' = R!With(rows, g, r),
         \A F \in Fields : r[F] = R!Entry(g)[F] + (IF F = field THEN 1 ELSE 0)
  PROVE  RowCounts(field)
<1>1. /\ DOMAIN rows' = DOMAIN rows \cup {g} /\ rows'[g] = r
      /\ \A h \in DOMAIN rows \ {g} : rows'[h] = rows[h]
  BY DEF R!With
<1>2. \A F \in Fields : rows'[g][F] = Had(g, F) + (IF F = field THEN 1 ELSE 0)
  BY <1>1, EntryHas
<1>. QED  BY <1>1, <1>2 DEF RowCounts

LEMMA FrameCounts ==
  ASSUME R!TypeOK, NEW f \in Frames, Count(f), UNCHANGED clock
  PROVE  RowCounts(FieldOf(f.kind))
<1>. DEFINE g == f.gi
            x == f.xid
            o == R!Owner(g, x)
<1>0. /\ f.kind \in Kinds /\ g \in Addresses /\ x \in Ids /\ NoGi \in Addresses
      /\ clock \in Nat /\ R!Now = clock
  BY Given DEF R!TypeOK, R!Now, Addresses
<1>1. ASSUME NEW h \in Addresses PROVE R!Entry(h) \in R!Relay
  BY EntryIs
<1>2. CASE f.kind = "ClientRequest"
  <2>. DEFINE r == R!Entry(g)
  <2>1. rows' = R!With(rows, g, R!Asking(r)) /\ FieldOf(f.kind) = "requests"
    BY <1>2 DEF Count, R!Request, FieldOf
  <2>2. r \in R!Relay
    BY <1>0, <1>1
  <2>. HIDE DEF r
  <2>3. \A F \in Fields : R!Asking(r)[F] = r[F] + (IF F = "requests" THEN 1 ELSE 0)
    <3>. DEFINE gap == IF r.lastRequest = Never THEN r.longestGap
                       ELSE R!Larger(r.longestGap, R!Less(R!Now, r.lastRequest))
                asked == r.requests + 1
    <3>1. R!Asking(r) = [r EXCEPT !.requests = asked, !.longestGap = gap,
                                  !.lastRequest = clock]
      BY <1>0 DEF R!Asking
    <3>. HIDE DEF gap, asked
    <3>2. \A F \in Fields :
            R!Asking(r)[F] = IF F = "requests" THEN asked ELSE r[F]
      BY <2>2, <3>1 DEF R!Relay, Fields
    <3>. QED  BY <2>2, <3>2, RelayHas DEF asked
  <2>4. "requests" \in Fields
    BY DEF Fields
  <2>. QED  BY <1>0, <2>1, <2>3, <2>4, StoreCounts DEF r
<1>3. CASE f.kind = "ServerReply"
  <2>. DEFINE r == R!Entry(o)
              d == R!Replied(r)
              took == R!Less(clock, pending[x].atMs)
  <2>0. o \in Addresses
    BY <1>0 DEF R!Owner, R!TypeOK, Addresses
  <2>1. /\ \/ rows' = R!With(rows, o, d)
           \/ rows' = R!With(rows, o, R!Timed(d, took))
        /\ FieldOf(f.kind) = "replies"
    BY <1>3 DEF Count, R!Reply, FieldOf
  <2>2. r \in R!Relay
    BY <1>1, <2>0
  <2>. HIDE DEF r, took, o
  <2>3. /\ d \in R!Relay
        /\ \A F \in Fields : d[F] = r[F] + (IF F = "replies" THEN 1 ELSE 0)
    <3>. DEFINE more == r.replies + 1
    <3>1. d = [r EXCEPT !.replies = more, !.lastReply = clock]
      BY <1>0 DEF R!Replied
    <3>2. more \in Nat
      BY <2>2 DEF R!Relay
    <3>. HIDE DEF d, more
    <3>3. d \in R!Relay
      BY <1>0, <2>2, <3>1, <3>2 DEF R!Relay
    <3>4. \A F \in Fields : d[F] = IF F = "replies" THEN more ELSE r[F]
      BY <2>2, <3>1 DEF R!Relay, Fields
    <3>. QED  BY <2>2, <3>3, <3>4, RelayHas DEF more
  <2>. HIDE DEF d
  <2>4. \A F \in Fields : R!Timed(d, took)[F] = d[F]
    <3>. DEFINE worst == R!Larger(d.answerMsWorst, took)
                sum == d.answerMsTotal + took
                more == d.answered + 1
    <3>1. R!Timed(d, took) = [d EXCEPT !.answered = more,
                                       !.answerMsTotal = sum, !.answerMsWorst = worst]
      BY DEF R!Timed
    <3>. HIDE DEF worst, sum, more
    <3>. QED  BY <2>3, <3>1 DEF R!Relay, Fields
  <2>5. "replies" \in Fields
    BY DEF Fields
  <2>. QED  BY <2>0, <2>1, <2>3, <2>4, <2>5, StoreCounts DEF r
<1>4. CASE f.kind = "TftpRequest"
  <2>. DEFINE r == R!Entry(NoGi)
              more == r.tftpRequests + 1
  <2>1. rows' = R!With(rows, NoGi, [r EXCEPT !.tftpRequests = more])
    BY <1>4 DEF Count, R!TftpRequest
  <2>2. r \in R!Relay /\ "tftpRequests" \in Fields
    BY <1>0, <1>1 DEF Fields
  <2>. HIDE DEF r
  <2>3. \A F \in Fields :
          [r EXCEPT !.tftpRequests = more][F] = r[F] + (IF F = "tftpRequests" THEN 1 ELSE 0)
    BY <2>2 DEF R!Relay, Fields
  <2>4. FieldOf(f.kind) = "tftpRequests"
    BY <1>4 DEF FieldOf
  <2>. QED  BY <1>0, <2>1, <2>2, <2>3, <2>4, StoreCounts DEF r
<1>5. CASE f.kind = "TftpReply"
  <2>. DEFINE r == R!Entry(NoGi)
              more == r.tftpSends + 1
  <2>1. rows' = R!With(rows, NoGi, [r EXCEPT !.tftpSends = more])
    BY <1>5 DEF Count, R!TftpSend
  <2>2. r \in R!Relay /\ "tftpSends" \in Fields
    BY <1>0, <1>1 DEF Fields
  <2>. HIDE DEF r
  <2>3. \A F \in Fields :
          [r EXCEPT !.tftpSends = more][F] = r[F] + (IF F = "tftpSends" THEN 1 ELSE 0)
    BY <2>2 DEF R!Relay, Fields
  <2>4. FieldOf(f.kind) = "tftpSends"
    BY <1>5 DEF FieldOf
  <2>. QED  BY <1>0, <2>1, <2>2, <2>3, <2>4, StoreCounts DEF r
<1>. QED  BY <1>0, <1>2, <1>3, <1>4, <1>5 DEF Kinds

LEMMA RowSumCounts ==
  ASSUME R!TypeOK, IsFiniteSet(DOMAIN rows), NEW field \in Fields, NEW F \in Fields,
         RowCounts(field)
  PROVE  /\ IsFiniteSet(DOMAIN rows')
         /\ RowSum(F) \in Nat
         /\ RowSum(F)' = RowSum(F) + (IF F = field THEN 1 ELSE 0)
<1>1. PICK g \in Addresses :
        /\ DOMAIN rows' = DOMAIN rows \cup {g}
        /\ \A h \in DOMAIN rows \ {g} : rows'[h] = rows[h]
        /\ rows'[g][F] = Had(g, F) + (IF F = field THEN 1 ELSE 0)
  BY DEF RowCounts
<1>. DEFINE S == DOMAIN rows
            T == DOMAIN rows'
            c == [h \in S |-> rows[h][F]]
            d == [h \in T |-> rows'[h][F]]
            one == IF F = field THEN 1 ELSE 0
<1>2. IsFiniteSet(T)
  BY <1>1, FS_AddElement
<1>3. \A h \in S : c[h] \in Nat /\ c[h] = rows[h][F]
  BY RelayHas DEF R!TypeOK
<1>4. RowSum(F) = SumFunctionOnSet(c, S)
  <2>1. DOMAIN c = S
    OBVIOUS
  <2>2. RowSum(F) = C!SumFunction(c)
    BY DEF RowSum
  <2>. HIDE DEF c
  <2>. QED  BY <2>1, <2>2, SameSums
<1>5. RowSum(F)' = SumFunctionOnSet(d, T)
  <2>1. DOMAIN d = T
    OBVIOUS
  <2>2. RowSum(F)' = C!SumFunction(d)
    BY DEF RowSum, C!SumFunction, C!SumFunctionOnSet, C!FoldFunctionOnSet, C!MapThenFoldSet
  <2>. HIDE DEF d
  <2>. QED  BY <2>1, <2>2, SameSums
<1>6. Had(g, F) \in Nat /\ one \in Nat /\ (g \in S => Had(g, F) = c[g]) /\ (g \notin S => Had(g, F) = 0)
  BY <1>3 DEF Had
<1>7. \A h \in S \ {g} : d[h] = c[h]
  BY <1>1, <1>3
<1>8. d[g] = Had(g, F) + one
  BY <1>1
<1>9. T = S \cup {g}
  BY <1>1
<1>10. IsFiniteSet(S)
  OBVIOUS
<1>. HIDE DEF c, d, one, S, T
<1>11. d[g] \in Nat /\ \A h \in S : c[h] \in Nat
  BY <1>3, <1>6, <1>8
<1>12. SumFunctionOnSet(d, S \cup {g}) =
         d[g] + (SumFunctionOnSet(c, S) - (IF g \in S THEN c[g] ELSE 0))
  BY <1>7, <1>10, <1>11, SumChanges
<1>13. SumFunctionOnSet(c, S) \in Nat
  BY <1>10, <1>11, SumIsNat
<1>14. SumFunctionOnSet(d, T) = SumFunctionOnSet(c, S) + one
  BY <1>6, <1>8, <1>9, <1>12, <1>13
<1>. QED  BY <1>2, <1>4, <1>5, <1>13, <1>14 DEF one, T

CInv == RowsAgree /\ BucketsAgree

LEMMA CountsStart == Init => CInv
<1>. SUFFICES ASSUME Init PROVE CInv
  OBVIOUS
<1>. USE DEF Init
<1>1. \A k \in Kinds : C!NoCounts[k] = 0
  BY DEF C!NoCounts
<1>2. C!NoCounts \in Counts
  BY DEF C!NoCounts, Counts
<1>3. DOMAIN rows = {NoGi} /\ rows[NoGi] = R!Blank
  BY DEF R!InitStore
<1>4. ASSUME NEW F \in Fields PROVE RowSum(F) = 0
  <2>. DEFINE c == [h \in DOMAIN rows |-> rows[h][F]]
  <2>a. R!Blank[F] = 0
    BY DEF R!Blank, Fields
  <2>b. DOMAIN c = {NoGi} /\ c[NoGi] = rows[NoGi][F]
    BY <1>3
  <2>c. IsFiniteSet({NoGi})
    BY FS_Singleton
  <2>2. RowSum(F) = C!SumFunction(c)
    BY DEF RowSum
  <2>. HIDE DEF c
  <2>1. DOMAIN c = {NoGi} /\ c[NoGi] = 0 /\ {NoGi} \ {NoGi} = {} /\ IsFiniteSet({NoGi})
    BY <1>3, <2>a, <2>b, <2>c
  <2>3. RowSum(F) = SumFunctionOnSet(c, {NoGi})
    BY <2>1, <2>2, SameSums
  <2>4. \A h \in {NoGi} : c[h] \in Nat
    BY <2>1
  <2>5. SumFunctionOnSet(c, {NoGi}) = c[NoGi] + SumFunctionOnSet(c, {NoGi} \ {NoGi})
    BY <2>1, <2>4, SumTakes
  <2>6. SumFunctionOnSet(c, {NoGi} \ {NoGi}) = 0
    BY <2>1, SumOfNone
  <2>. QED  BY <2>1, <2>3, <2>5, <2>6
<1>5. \A k \in Kinds : FieldOf(k) \in Fields
  BY DEF Kinds, FieldOf, Fields
<1>6. RowsAgree
  BY <1>1, <1>3, <1>4, <1>5, FS_Singleton DEF RowsAgree, C!InitStore
<1>7. buckets = <<>> /\ <<>> \in Seq(Bucket) /\ DOMAIN <<>> = {}
  BY DEF C!InitStore
<1>8. \A k \in Kinds : Tally(<<>>, k) = 0
  BY <1>7, SumOfNone DEF Tally
<1>9. BucketsAgree
  BY <1>1, <1>2, <1>7, <1>8 DEF BucketsAgree, C!InitStore
<1>. QED  BY <1>6, <1>9 DEF CInv

LEMMA ReadFrameCounts ==
  ASSUME IInv, CInv, ReadFrame
  PROVE  CInv'
<1>. DEFINE f == Head(wire)
            k == f.kind
<1>0. /\ R!TypeOK /\ clock \in Nat /\ clock' = clock /\ answer' = answer
      /\ f \in Frames /\ Count(f) /\ k \in Kinds
      /\ total \in Counts /\ answer \in Counts /\ buckets \in Seq(Bucket)
  <2>1. f \in Frames
    BY DEF IInv, Typed, ReadFrame
  <2>2. clock' = clock /\ answer' = answer /\ Count(f)
    BY DEF ReadFrame, time, said
  <2>. HIDE DEF f
  <2>. QED  BY <2>1, <2>2, Given DEF IInv, Typed, CInv, BucketsAgree
<1>. HIDE DEF f
<1>1. /\ buckets' = C!CountedIn(C!KeptBuckets, k)
      /\ total' = [total EXCEPT ![k] = @ + 1]
  BY <1>0 DEF Count, C!Add
<1>2. RowCounts(FieldOf(k))
  BY <1>0, FrameCounts
<1>. HIDE DEF k
<1>3. \A l \in Kinds : /\ FieldOf(l) \in Fields
                       /\ FieldOf(l) = FieldOf(k) <=> l = k
  BY <1>0 DEF Kinds, FieldOf, Fields
<1>4. /\ total' \in Counts
      /\ \A l \in Kinds : total'[l] = total[l] + (IF l = k THEN 1 ELSE 0)
  <2>1. /\ total' \in Counts /\ total'[k] = total[k] + 1
        /\ \A l \in Kinds \ {k} : total'[l] = total[l]
    <3>. DEFINE more == [total EXCEPT ![k] = @ + 1]
    <3>1. /\ more \in Counts /\ more[k] = total[k] + 1
          /\ \A l \in Kinds \ {k} : more[l] = total[l]
      BY <1>0, CountsAre, Zenon
    <3>. HIDE DEF more
    <3>2. total' = more
      BY <1>1 DEF more
    <3>. QED  BY <3>1, <3>2
  <2>2. \A l \in Kinds : total[l] \in Nat
    BY <1>0, CountsAre
  <2>. QED  BY <2>1, <2>2
<1>5. RowsAgree'
  <2>1. IsFiniteSet(DOMAIN rows) /\ \A l \in Kinds : total[l] = RowSum(FieldOf(l))
    BY DEF CInv, RowsAgree
  <2>2. ASSUME NEW l \in Kinds
        PROVE  RowSum(FieldOf(l))' = RowSum(FieldOf(l)) + (IF FieldOf(l) = FieldOf(k) THEN 1 ELSE 0)
    BY <1>0, <1>2, <1>3, <2>1, RowSumCounts
  <2>3. IsFiniteSet(DOMAIN rows')
    BY <1>0, <1>2, <1>3, <2>1, RowSumCounts
  <2>4. \A l \in Kinds : total'[l] = RowSum(FieldOf(l))'
    BY <1>3, <1>4, <2>1, <2>2
  <2>. QED  BY <2>3, <2>4 DEF RowsAgree
<1>6. BucketsAgree'
  <2>1. \A l \in Kinds : /\ C!KeptBuckets \in Seq(Bucket)
                         /\ Tally(C!KeptBuckets, l) <= Tally(buckets, l)
    BY <1>0, KeptTally
  <2>2. C!KeptBuckets \in Seq(Bucket)
    BY <1>0, <2>1
  <2>3. ASSUME NEW l \in Kinds PROVE Tally(buckets', l) <= total'[l] /\ answer'[l] <= total'[l]
    <3>1. /\ Tally(C!KeptBuckets, l) \in Nat /\ Tally(buckets, l) \in Nat
          /\ total[l] \in Nat /\ answer[l] \in Nat
      BY <1>0, <2>2, TallyIs, CountsAre
    <3>2. Tally(buckets', l) = Tally(C!KeptBuckets, l) + (IF l = k THEN 1 ELSE 0)
      BY <1>0, <1>1, <2>2, CountedTally
    <3>3. Tally(buckets, l) <= total[l] /\ answer[l] <= total[l]
      BY DEF CInv, BucketsAgree
    <3>. QED  BY <1>0, <1>4, <2>1, <3>1, <3>2, <3>3
  <2>4. buckets' \in Seq(Bucket)
    BY <1>0, <1>1, <2>2, CountedTally
  <2>. QED  BY <1>0, <1>4, <2>3, <2>4 DEF BucketsAgree, Tally, CountsOf
<1>. QED  BY <1>5, <1>6 DEF CInv

LEMMA ReportCounts ==
  ASSUME IInv, CInv, Report
  PROVE  CInv'
<1>1. /\ buckets' = C!KeptBuckets /\ total' = total /\ rows' = rows
      /\ answer' = [k \in Kinds |-> C!SumOf(C!KeptBuckets, k)]
  BY DEF Report, C!ReadWindow, C!Expire, relays
<1>2. total \in Counts /\ buckets \in Seq(Bucket)
  BY DEF CInv, BucketsAgree
<1>3. RowsAgree'
  BY <1>1 DEF CInv, RowsAgree, RowSum
<1>4. \A k \in Kinds : /\ C!KeptBuckets \in Seq(Bucket)
                       /\ Tally(C!KeptBuckets, k) <= Tally(buckets, k)
  BY <1>2, KeptTally
<1>5. C!KeptBuckets \in Seq(Bucket)
  BY <1>4 DEF Kinds
<1>6. \A k \in Kinds : answer'[k] = Tally(buckets', k) /\ answer'[k] \in Nat
  BY <1>1, <1>5, TallyIs
<1>7. answer' \in Counts
  BY <1>1, <1>6 DEF Counts
<1>8. ASSUME NEW k \in Kinds PROVE Tally(buckets', k) <= total'[k] /\ answer'[k] <= total'[k]
  <2>1. /\ Tally(buckets', k) \in Nat /\ Tally(buckets, k) \in Nat /\ total[k] \in Nat
        /\ Tally(buckets, k) <= total[k]
    BY <1>1, <1>2, <1>5, TallyIs, CountsAre DEF CInv, BucketsAgree
  <2>. QED  BY <1>1, <1>4, <1>6, <2>1
<1>9. BucketsAgree'
  BY <1>1, <1>2, <1>5, <1>7, <1>8 DEF BucketsAgree, Tally, CountsOf
<1>. QED  BY <1>3, <1>9 DEF CInv

LEMMA CountsStep == IInv /\ CInv /\ [Next]_vars => CInv'
<1>. SUFFICES ASSUME IInv, CInv, [Next]_vars PROVE CInv'
  OBVIOUS
<1>1. CASE UNCHANGED <<rows, buckets, total, answer>>
  BY <1>1 DEF CInv, RowsAgree, RowSum, BucketsAgree, Tally, CountsOf
<1>2. CASE ReadFrame \/ Report
  BY <1>2, ReadFrameCounts, ReportCounts
<1>3. CASE ~(ReadFrame \/ Report)
  <2>1. UNCHANGED <<relays, counts, said>>
    BY <1>3 DEF Next, Loop, Arrive, Overflow, FrameComes, SetBack, Stop, ReadWaits, NotDue, Send, vars
  <2>. QED  BY <1>1, <2>1 DEF relays, counts, said
<1>. QED  BY <1>2, <1>3

\* The totals since start-up are what the interface rows add up to, and no
\* window holds more than the totals: the two counts of a frame never drift
\* apart (capture.rs:166-184), whatever the clock does to the window.
THEOREM CountsAlwaysAgree == Spec => []CountsAgree
<1>1. CInv => CountsAgree
  BY DEF CInv, RowsAgree, BucketsAgree, CountsAgree, Kinds, FieldOf
<1>2. IInv /\ CInv /\ [Next]_vars => CInv'
  BY CountsStep
<1>. QED  BY <1>1, <1>2, CountsStart, AlwaysIInv, PTL DEF Spec

-----------------------------------------------------------------------------
(***************************************************************************)
(* The size of the window                                                   *)
(*                                                                          *)
(* A bucket made at the second t, when the clock has been set back by b in   *)
(* all, has the key t + 2 * b: a second that passes and a second that is     *)
(* repeated both make the key larger, so the keys of the buckets ascend      *)
(* although their stamps do not, and only a bucket stamped now can have the  *)
(* key of now.  The keys are nowhere in the program; that there are some is  *)
(* what the invariant says.                                                 *)
(***************************************************************************)

KeysFit(bs, key, now, top) ==
  /\ \A i \in 1 .. Len(bs) :
       /\ bs[i].at <= key[i] /\ key[i] \in Nat /\ key[i] <= top
       /\ key[i] = top => bs[i].at = now
  /\ \A i, j \in 1 .. Len(bs) : i < j => key[i] < key[j]

NoneStale(bs) == \A i \in 1 .. Len(bs) : bs[i].at > C!Cutoff

Top == clock + back + back

WInv ==
  /\ clock >= Began
  /\ \E key : KeysFit(buckets, key, clock, Top)
  /\ Len(buckets) <= Window + 2 * back

LEMMA CutoffIs ==
  ASSUME clock \in Nat, clock >= Began
  PROVE  C!Cutoff \in Nat /\ C!Cutoff < clock /\ clock - C!Cutoff <= Window /\ Window \in Nat
  BY PartsAssumption DEF C!CountersAssumption, C!Cutoff, Began

\* Keys that ascend, between the cutoff and now, are no more than these.
LEMMA FewKeys ==
  ASSUME clock \in Nat, clock >= Began, back \in Nat, NEW bs \in Seq(Bucket),
         NEW key, KeysFit(bs, key, clock, Top), NoneStale(bs)
  PROVE  Len(bs) <= Window + 2 * back
<1>. DEFINE L == Len(bs)
            low == C!Cutoff + 1
            high == Top
            f == [i \in 1 .. L |-> key[i]]
<1>1. /\ L \in Nat /\ low \in Nat /\ high \in Nat /\ Window \in Nat
      /\ low <= high /\ high - low + 1 <= Window + 2 * back
  BY CutoffIs DEF Top
<1>2. \A i \in 1 .. L : bs[i].at \in Nat
  BY BucketsHave DEF Bucket
<1>3. \A i \in 1 .. L : key[i] \in low .. high
  <2>. SUFFICES ASSUME NEW i \in 1 .. L PROVE key[i] \in low .. high
    OBVIOUS
  <2>1. key[i] \in Nat /\ bs[i].at <= key[i] /\ key[i] <= high /\ bs[i].at > C!Cutoff
    BY DEF KeysFit, NoneStale
  <2>2. \A c, a, k, h \in Nat : c < a /\ a <= k /\ k <= h => k \in c + 1 .. h
    OBVIOUS
  <2>3. C!Cutoff \in Nat /\ bs[i].at \in Nat /\ high \in Nat
    BY <1>1, <1>2, CutoffIs
  <2>. HIDE DEF high
  <2>. QED  BY ONLY <2>1, <2>2, <2>3
<1>4. \A i, j \in 1 .. L : i < j => key[i] < key[j]
  BY DEF KeysFit
<1>. HIDE DEF L, low, high
<1>5. f \in [1 .. L -> low .. high]
  BY <1>3
<1>6. \A i, j \in 1 .. L : f[i] = f[j] => i = j
  <2>. SUFFICES ASSUME NEW i \in 1 .. L, NEW j \in 1 .. L, f[i] = f[j], i # j PROVE FALSE
    OBVIOUS
  <2>1. key[i] = key[j] /\ key[i] \in Int
    BY <1>1, <1>3
  <2>2. i < j \/ j < i
    BY <1>1
  <2>. QED  BY <1>4, <2>1, <2>2
<1>. HIDE DEF f
<1>7. /\ IsFiniteSet(1 .. L) /\ Cardinality(1 .. L) = L
      /\ IsFiniteSet(low .. high) /\ Cardinality(low .. high) = high - low + 1
  <2>1. \A a, b \in Int : /\ IsFiniteSet(a .. b)
                          /\ Cardinality(a .. b) = IF a > b THEN 0 ELSE b - a + 1
    BY FS_Interval
  <2>2. Cardinality(1 .. L) = (IF 1 > L THEN 0 ELSE L - 1 + 1) /\ IsFiniteSet(1 .. L)
    BY <1>1, <2>1
  <2>3. /\ Cardinality(low .. high) = (IF low > high THEN 0 ELSE high - low + 1)
        /\ IsFiniteSet(low .. high)
    BY <1>1, <2>1
  <2>. QED  BY <1>1, <2>2, <2>3
<1>8. ~(Cardinality(1 .. L) > Cardinality(low .. high))
  <2>1. Cardinality(1 .. L) > Cardinality(low .. high) =>
          \E i, j \in 1 .. L : i # j /\ f[i] = f[j]
    BY <1>5, <1>7, FS_PigeonHole
  <2>. QED  BY <1>6, <2>1
<1>9. L <= high - low + 1
  BY <1>1, <1>7, <1>8
<1>10. L <= Window + 2 * back
  BY <1>1, <1>9
<1>. QED  BY <1>10 DEF L

\* A key for a bucket put at the end.
LEMMA KeyForNew ==
  ASSUME NEW bs \in Seq(Bucket), NEW b \in Bucket, NEW key, NEW now \in Nat, NEW top \in Nat,
         KeysFit(bs, key, now, top), NEW k \in Nat,
         b.at <= k, k <= top, k = top => b.at = now,
         \A i \in 1 .. Len(bs) : key[i] < k
  PROVE  \E new : /\ KeysFit(Append(bs, b), new, now, top)
                  /\ \A i \in 1 .. Len(Append(bs, b)) : new[i] <= k
<1>. DEFINE L == Len(bs)
            cs == Append(bs, b)
            new == [i \in 1 .. L + 1 |-> IF i = L + 1 THEN k ELSE key[i]]
<1>1. /\ L \in Nat /\ Len(cs) = L + 1 /\ cs[L + 1] = b
      /\ \A i \in 1 .. L : cs[i] = bs[i]
  OBVIOUS
<1>2. /\ \A i \in 1 .. L : /\ bs[i].at <= key[i] /\ key[i] \in Nat /\ key[i] <= top
                           /\ key[i] = top => bs[i].at = now
                           /\ key[i] < k
      /\ \A i, j \in 1 .. L : i < j => key[i] < key[j]
  BY DEF KeysFit
<1>. HIDE DEF L, cs
<1>3. new[L + 1] = k /\ \A i \in 1 .. L : new[i] = key[i]
  BY <1>1
<1>. HIDE DEF new
<1>4. \A i \in 1 .. L + 1 : i = L + 1 \/ i \in 1 .. L
  BY <1>1
<1>5. ASSUME NEW i \in 1 .. L + 1
      PROVE  /\ cs[i].at <= new[i] /\ new[i] \in Nat /\ new[i] <= top /\ new[i] <= k
             /\ new[i] = top => cs[i].at = now
  <2>1. CASE i = L + 1
    BY <1>1, <1>3, <2>1
  <2>2. CASE i \in 1 .. L
    BY <1>1, <1>2, <1>3, <2>2
  <2>. QED  BY <1>4, <2>1, <2>2
<1>6. ASSUME NEW i \in 1 .. L + 1, NEW j \in 1 .. L + 1, i < j PROVE new[i] < new[j]
  <2>1. i \in 1 .. L
    BY <1>1, <1>6
  <2>. QED  BY <1>2, <1>3, <1>4, <1>6, <2>1
<1>7. KeysFit(cs, new, now, top)
  BY <1>1, <1>5, <1>6 DEF KeysFit
<1>. QED  BY <1>1, <1>5, <1>7 DEF cs

\* What expire keeps has keys still.
LEMMA KeptKeys ==
  ASSUME clock \in Nat, back \in Nat, buckets \in Seq(Bucket),
         \E key : KeysFit(buckets, key, clock, Top)
  PROVE  /\ C!KeptBuckets \in Seq(Bucket) /\ NoneStale(C!KeptBuckets)
         /\ \E key : KeysFit(C!KeptBuckets, key, clock, Top)
<1>1. PICK K : KeysFit(buckets, K, clock, Top)
  OBVIOUS
<1>. DEFINE L == Len(buckets)
            Below(bs, key, n) == \A i \in 1 .. Len(bs), j \in n + 1 .. L : key[i] < K[j]
            Fits(n) == /\ C!KeptUpTo[n] \in Seq(Bucket) /\ NoneStale(C!KeptUpTo[n])
                       /\ \E key : /\ KeysFit(C!KeptUpTo[n], key, clock, Top)
                                   /\ Below(C!KeptUpTo[n], key, n)
            B == {n \in 0 .. L : ~Fits(n)}
<1>2. /\ L \in Nat /\ Top \in Nat
      /\ \A i \in 1 .. L : buckets[i] \in Bucket
      /\ \A i \in 1 .. L : /\ buckets[i].at <= K[i] /\ K[i] \in Nat /\ K[i] <= Top
                           /\ K[i] = Top => buckets[i].at = clock
      /\ \A i, j \in 1 .. L : i < j => K[i] < K[j]
  BY <1>1, BucketsHave DEF KeysFit, Top
<1>3. /\ C!KeptUpTo[0] = <<>>
      /\ \A i \in 1 .. L :
           C!KeptUpTo[i] = IF buckets[i].at > C!Cutoff
                           THEN Append(C!KeptUpTo[i - 1], buckets[i]) ELSE C!KeptUpTo[i - 1]
  BY <1>2, KeptUnfolds
<1>. HIDE DEF L
<1>4. Fits(0)
  <2>1. <<>> \in Seq(Bucket) /\ Len(<<>>) = 0 /\ 1 .. 0 = {}
    OBVIOUS
  <2>2. NoneStale(<<>>) /\ KeysFit(<<>>, K, clock, Top) /\ Below(<<>>, K, 0)
    BY <2>1 DEF NoneStale, KeysFit
  <2>. QED  BY <1>3, <2>1, <2>2
<1>5. ASSUME NEW n \in 1 .. L, Fits(n - 1) PROVE Fits(n)
  <2>. DEFINE was == C!KeptUpTo[n - 1]
              b == buckets[n]
  <2>1. /\ n - 1 + 1 = n /\ n \in n .. L /\ n \in Nat
        /\ \A j \in n + 1 .. L : j \in n .. L /\ j \in 1 .. L /\ n < j
    BY <1>2
  <2>2. was \in Seq(Bucket) /\ NoneStale(was)
    BY <1>5
  <2>3. PICK key : KeysFit(was, key, clock, Top) /\ Below(was, key, n - 1)
    BY <1>5
  <2>4. \A i \in 1 .. Len(was), j \in n .. L : key[i] < K[j]
    BY <2>1, <2>3
  <2>. HIDE DEF was
  <2>5. CASE b.at > C!Cutoff
    <3>. DEFINE cs == Append(was, b)
    <3>1. C!KeptUpTo[n] = cs
      BY <1>3, <2>5 DEF was
    <3>2. /\ b \in Bucket /\ b.at <= K[n] /\ K[n] \in Nat /\ K[n] <= Top
          /\ K[n] = Top => b.at = clock
      BY <1>2
    <3>3. \A i \in 1 .. Len(was) : key[i] < K[n]
      BY <2>1, <2>4
    <3>4. cs \in Seq(Bucket) /\ NoneStale(cs)
      <4>1. /\ cs \in Seq(Bucket) /\ Len(was) \in Nat /\ Len(cs) = Len(was) + 1
            /\ cs[Len(was) + 1] = b /\ \A i \in 1 .. Len(was) : cs[i] = was[i]
        BY <2>2, <3>2
      <4>. HIDE DEF cs, b
      <4>. QED  BY <2>2, <2>5, <4>1 DEF NoneStale
    <3>. HIDE DEF b
    <3>5. PICK new : /\ KeysFit(cs, new, clock, Top)
                     /\ \A i \in 1 .. Len(cs) : new[i] <= K[n]
      <4>1. KeysFit(was, key, clock, Top)
        BY <2>3
      <4>. QED  BY <1>2, <2>2, <3>2, <3>3, <4>1, KeyForNew
    <3>. HIDE DEF cs
    <3>6. Below(cs, new, n)
      <4>. SUFFICES ASSUME NEW i \in 1 .. Len(cs), NEW j \in n + 1 .. L PROVE new[i] < K[j]
        OBVIOUS
      <4>1. K[n] < K[j] /\ K[n] \in Nat /\ K[j] \in Nat
        BY <1>2, <2>1
      <4>2. new[i] \in Nat /\ new[i] <= K[n]
        BY <3>5 DEF KeysFit
      <4>. QED  BY <4>1, <4>2
    <3>. QED  BY <3>1, <3>4, <3>5, <3>6
  <2>6. CASE ~(b.at > C!Cutoff)
    <3>1. C!KeptUpTo[n] = was
      BY <1>3, <2>6 DEF was
    <3>2. Below(was, key, n)
      BY <2>1, <2>4
    <3>. QED  BY <2>2, <2>3, <3>1, <3>2
  <2>. QED  BY <2>5, <2>6
<1>. HIDE DEF Fits
<1>6. B = {}
  <2>. SUFFICES ASSUME B # {} PROVE FALSE
    OBVIOUS
  <2>1. PICK n \in B : \A l \in B : n <= l
    <3>1. B \in SUBSET Nat
      BY <1>2
    <3>. HIDE DEF B
    <3>. QED  BY <3>1, Least
  <2>2. n \in 0 .. L /\ ~Fits(n) /\ n # 0
    BY <1>4, <2>1
  <2>3. n \in 1 .. L /\ n - 1 \in 0 .. L /\ n - 1 < n
    BY <1>2, <2>2
  <2>4. Fits(n - 1)
    <3>1. n - 1 \notin B
      <4>. HIDE DEF B
      <4>. QED  BY <2>1, <2>3
    <3>. QED  BY <2>3, <3>1
  <2>. QED  BY <1>5, <2>2, <2>3, <2>4
<1>7. Fits(L)
  <2>1. L \in 0 .. L
    BY <1>2
  <2>. QED  BY <1>6, <2>1
<1>. QED  BY <1>7 DEF Fits, L, C!KeptBuckets

\* A packet counted makes no bucket when the last one is of this second, and
\* one with the largest key otherwise.
LEMMA CountedKeys ==
  ASSUME clock \in Nat, clock >= Began, back \in Nat, NEW bs \in Seq(Bucket), NoneStale(bs),
         NEW k \in Kinds, \E key : KeysFit(bs, key, clock, Top)
  PROVE  /\ C!CountedIn(bs, k) \in Seq(Bucket) /\ NoneStale(C!CountedIn(bs, k))
         /\ \E key : KeysFit(C!CountedIn(bs, k), key, clock, Top)
<1>1. PICK key : KeysFit(bs, key, clock, Top)
  OBVIOUS
<1>. DEFINE L == Len(bs)
            cs == C!CountedIn(bs, k)
<1>2. /\ L \in Nat /\ Top \in Nat /\ clock <= Top /\ clock > C!Cutoff
      /\ \A i \in 1 .. L : bs[i] \in Bucket
  BY CutoffIs, BucketsHave DEF Top
<1>3. cs \in Seq(Bucket)
  <2>1. k \in Kinds
    OBVIOUS
  <2>. QED  BY <2>1, CountedTally
<1>4. CASE bs # <<>> /\ C!Last(bs).at = clock
  <2>1. cs = [bs EXCEPT ![L].counts[k] = @ + 1]
    BY <1>4 DEF C!CountedIn
  <2>2. Len(cs) = L /\ \A i \in 1 .. L : cs[i].at = bs[i].at
    <3>. DEFINE new == [bs[L] EXCEPT !.counts[k] = @ + 1]
    <3>1. cs = [bs EXCEPT ![L] = new]
      BY <2>1
    <3>2. new.at = bs[L].at
      <4>1. L \in 1 .. L
        BY <1>2, <1>4
      <4>2. bs[L] \in Bucket
        BY <1>2, <4>1
      <4>. QED  BY <4>2 DEF Bucket
    <3>. HIDE DEF cs, new
    <3>. QED  BY <3>1, <3>2
  <2>. HIDE DEF cs, L
  <2>3. KeysFit(cs, key, clock, Top) /\ NoneStale(cs)
    BY <1>1, <2>2 DEF KeysFit, NoneStale, L
  <2>. QED  BY <1>3, <2>3 DEF cs
<1>5. CASE ~(bs # <<>> /\ C!Last(bs).at = clock)
  <2>. DEFINE b == [at |-> clock, counts |-> C!One(k)]
  <2>1. cs = Append(bs, b)
    BY <1>5 DEF C!CountedIn
  <2>2. b \in Bucket /\ b.at = clock
    BY DEF C!One, C!NoCounts, Counts, Bucket
  <2>3. \A i \in 1 .. L : key[i] < Top
    <3>. SUFFICES ASSUME NEW i \in 1 .. L PROVE key[i] < Top
      OBVIOUS
    <3>1. /\ key[i] \in Nat /\ key[i] <= Top
          /\ key[L] \in Nat /\ key[L] <= Top
          /\ key[L] = Top => bs[L].at = clock
          /\ i = L \/ key[i] < key[L]
      <4>1. L \in 1 .. L /\ (i = L \/ i < L)
        BY <1>2
      <4>. QED  BY <1>1, <4>1 DEF KeysFit
    <3>2. bs # <<>> /\ C!Last(bs) = bs[L]
      BY <1>2 DEF C!Last
    <3>3. key[L] # Top
      BY <1>5, <3>1, <3>2
    <3>. QED  BY <1>2, <3>1, <3>3
  <2>. HIDE DEF b
  <2>4. \E new : KeysFit(Append(bs, b), new, clock, Top)
    <3>1. KeysFit(bs, key, clock, Top) /\ b.at <= Top /\ (Top = Top => b.at = clock)
      BY <1>1, <1>2, <2>2
    <3>2. \A i \in 1 .. Len(bs) : key[i] < Top
      BY <2>3
    <3>. HIDE DEF L
    <3>3. Top \in Nat
      BY <1>2
    <3>4. \E new : /\ KeysFit(Append(bs, b), new, clock, Top)
                   /\ \A i \in 1 .. Len(Append(bs, b)) : new[i] <= Top
      <4>. DEFINE t == Top
      <4>1. t \in Nat /\ t <= t /\ KeysFit(bs, key, clock, t) /\ b.at <= t
        BY <3>1, <3>3
      <4>2. b.at = clock /\ b \in Bucket /\ \A i \in 1 .. Len(bs) : key[i] < t
        BY <2>2, <3>2
      <4>. HIDE DEF t
      <4>3. \E new : /\ KeysFit(Append(bs, b), new, clock, t)
                     /\ \A i \in 1 .. Len(Append(bs, b)) : new[i] <= t
        BY <4>1, <4>2, KeyForNew
      <4>. QED  BY <4>3 DEF t
    <3>. QED  BY <3>4
  <2>5. NoneStale(Append(bs, b))
    <3>1. /\ Len(Append(bs, b)) = L + 1 /\ Append(bs, b)[L + 1] = b
          /\ \A i \in 1 .. L : Append(bs, b)[i] = bs[i]
      OBVIOUS
    <3>. DEFINE ds == Append(bs, b)
    <3>2. Len(ds) = L + 1 /\ ds[L + 1] = b /\ \A i \in 1 .. L : ds[i] = bs[i]
      BY <3>1
    <3>. HIDE DEF ds, L
    <3>3. \A i \in 1 .. L : bs[i].at > C!Cutoff
      BY DEF NoneStale, L
    <3>4. NoneStale(ds)
      BY <1>2, <2>2, <3>2, <3>3 DEF NoneStale
    <3>. QED  BY <3>4 DEF ds
  <2>. QED  BY <1>3, <2>1, <2>4, <2>5
<1>. QED  BY <1>4, <1>5

LEMMA WindowStarts == Init => WInv
<1>. SUFFICES ASSUME Init PROVE WInv
  OBVIOUS
<1>1. clock = Began /\ back = 0 /\ buckets = <<>> /\ Len(<<>>) = 0 /\ 1 .. 0 = {}
  BY DEF Init, C!InitStore
<1>2. Window \in Nat
  BY PartsAssumption DEF C!CountersAssumption
<1>3. KeysFit(buckets, buckets, clock, Top)
  BY <1>1 DEF KeysFit
<1>. QED  BY <1>1, <1>2, <1>3 DEF WInv, Began

\* Whatever else happens, time does not go back but for what is added to back.
LEMMA TimePasses ==
  ASSUME IInv, WInv, [Next]_vars
  PROVE  /\ clock \in Nat /\ back \in Nat /\ clock' \in Nat /\ back' \in Nat
         /\ clock' >= Began /\ back' >= back
         /\ (clock' = clock /\ back' = back) \/ Top' > Top
<1>1. clock \in Nat /\ back \in Nat /\ clock >= Began /\ MaxBack \in Int /\ MaxBlock \in Nat
  BY MonitorAssumption DEF IInv, Typed, WInv
<1>2. CASE SetBack
  <2>1. PICK d \in 1 .. MaxBack - back :
          clock - d >= Began /\ clock' = clock - d /\ back' = back + d
    BY <1>2 DEF SetBack
  <2>2. d \in Nat /\ d > 0
    BY <1>1, <2>1
  <2>3. Top = clock + back + back /\ Top' = clock' + back' + back'
    BY DEF Top
  <2>4. Top' = clock - d + (back + d) + (back + d)
    BY <2>1, <2>3
  <2>5. Top' = Top + d
    BY <1>1, <2>2, <2>3, <2>4
  <2>6. Top' > Top
    BY <1>1, <2>2, <2>3, <2>5
  <2>. QED  BY <1>1, <2>1, <2>2, <2>6 DEF Began
<1>3. CASE ReadWaits
  <2>1. back' = back /\ (clock' = clock + 1 \/ clock' = clock)
    BY <1>3 DEF ReadWaits
  <2>2. Top = clock + back + back /\ Top' = clock' + back' + back'
    BY DEF Top
  <2>. QED  BY <1>1, <2>1, <2>2 DEF Began
<1>4. CASE Send
  <2>1. PICK d \in 0 .. MaxBlock : clock' = clock + d
    BY <1>4 DEF Send
  <2>2. back' = back
    BY <1>4 DEF Send
  <2>3. d \in Nat
    BY <1>1
  <2>4. Top = clock + back + back /\ Top' = clock' + back' + back'
    BY DEF Top
  <2>. QED  BY <1>1, <2>1, <2>2, <2>3, <2>4 DEF Began
<1>5. CASE ~(SetBack \/ ReadWaits \/ Send)
  <2>1. clock' = clock /\ back' = back
    BY <1>5 DEF Next, Loop, Arrive, Overflow, FrameComes, Stop, ReadFrame, NotDue, Report, vars, time
  <2>. QED  BY <1>1, <2>1
<1>. QED  BY <1>2, <1>3, <1>4, <1>5

LEMMA WindowStep == IInv /\ CInv /\ WInv /\ [Next]_vars => WInv'
<1>. SUFFICES ASSUME IInv, CInv, WInv, [Next]_vars PROVE WInv'
  OBVIOUS
<1>1. /\ clock \in Nat /\ back \in Nat /\ clock' \in Nat /\ back' \in Nat
      /\ clock >= Began /\ clock' >= Began /\ back' >= back
      /\ (clock' = clock /\ back' = back) \/ Top' > Top
      /\ buckets \in Seq(Bucket)
  BY TimePasses DEF WInv, CInv, BucketsAgree
<1>2. ASSUME NEW bs \in Seq(Bucket), NoneStale(bs), \E key : KeysFit(bs, key, clock, Top),
             buckets' = bs, clock' = clock, back' = back
      PROVE  WInv'
  <2>1. PICK key : KeysFit(bs, key, clock, Top)
    BY <1>2
  <2>2. Len(bs) <= Window + 2 * back
    BY <1>1, <1>2, <2>1, FewKeys
  <2>3. Top' = Top
    BY <1>2 DEF Top
  <2>. QED  BY <1>1, <1>2, <2>1, <2>2, <2>3 DEF WInv, KeysFit
<1>3. /\ C!KeptBuckets \in Seq(Bucket) /\ NoneStale(C!KeptBuckets)
      /\ \E key : KeysFit(C!KeptBuckets, key, clock, Top)
  BY <1>1, KeptKeys DEF WInv
<1>4. CASE ReadFrame
  <2>1. PICK k \in Kinds : buckets' = C!CountedIn(C!KeptBuckets, k)
    <3>1. Head(wire) \in Frames
      BY <1>4 DEF IInv, Typed, ReadFrame
    <3>. QED  BY <1>4, <3>1, Given DEF ReadFrame, Count, C!Add
  <2>2. clock' = clock /\ back' = back
    BY <1>4 DEF ReadFrame, time
  <2>3. /\ buckets' \in Seq(Bucket) /\ NoneStale(C!CountedIn(C!KeptBuckets, k))
        /\ \E key : KeysFit(C!CountedIn(C!KeptBuckets, k), key, clock, Top)
    BY <1>1, <1>3, <2>1, CountedKeys
  <2>. QED  BY <1>2, <2>1, <2>2, <2>3
<1>5. CASE Report
  <2>1. buckets' = C!KeptBuckets /\ clock' = clock /\ back' = back
    BY <1>5 DEF Report, C!ReadWindow, C!Expire, time
  <2>. QED  BY <1>2, <1>3, <2>1
<1>6. CASE ~(ReadFrame \/ Report)
  <2>1. buckets' = buckets
    BY <1>6 DEF Next, Loop, Arrive, Overflow, FrameComes, SetBack, Stop, ReadWaits, NotDue, Send, vars, counts
  <2>2. PICK key : KeysFit(buckets, key, clock, Top)
    BY DEF WInv
  <2>3. KeysFit(buckets, key, clock', Top')
    <3>1. CASE clock' = clock /\ back' = back
      BY <2>2, <3>1 DEF Top
    <3>2. CASE Top' > Top
      <4>1. Top \in Nat /\ Top' \in Nat
        <5>1. \A t, b \in Nat : t + b + b \in Nat
          OBVIOUS
        <5>2. clock + back + back \in Nat /\ clock' + back' + back' \in Nat
          BY <1>1, <5>1, Zenon
        <5>. QED  BY <5>2 DEF Top
      <4>2. \A i \in 1 .. Len(buckets) : key[i] \in Nat /\ key[i] <= Top
        BY <2>2 DEF KeysFit
      <4>3. \A i \in 1 .. Len(buckets) : key[i] <= Top' /\ key[i] # Top'
        BY <3>2, <4>1, <4>2
      <4>. QED  BY <2>2, <4>3 DEF KeysFit
    <3>. QED  BY <1>1, <3>1, <3>2
  <2>4. Len(buckets) <= Window + 2 * back'
    <3>1. /\ Window \in Nat /\ Len(buckets) \in Nat
          /\ Len(buckets) <= Window + 2 * back
      BY <1>1, CutoffIs DEF WInv
    <3>. QED  BY <1>1, <3>1
  <2>. QED  BY <1>1, <2>1, <2>3, <2>4 DEF WInv, KeysFit
<1>. QED  BY <1>4, <1>5, <1>6

\* The window costs one bucket for each of its seconds and two for each second
\* the clock was set back (counters.rs:129-137), whatever the traffic, and it
\* does so while the clock is behind its own buckets.
THEOREM WindowAlwaysSmall == Spec => []WindowStaysSmall
<1>1. WInv => WindowStaysSmall
  BY DEF WInv, WindowStaysSmall
<1>2. IInv /\ CInv /\ WInv /\ [Next]_vars => (CInv /\ WInv)'
  BY CountsStep, WindowStep
<1>3. Init => CInv /\ WInv
  BY CountsStart, WindowStarts
<1>. QED  BY <1>1, <1>2, <1>3, AlwaysIInv, PTL DEF Spec
=============================================================================
