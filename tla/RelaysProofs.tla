---------------------------- MODULE RelaysProofs ----------------------------
(***************************************************************************)
(* Theorems about Relays, for every plant, every clock and every size of    *)
(* the pending table, and about Adapt, which reads its rows.                 *)
(***************************************************************************)
EXTENDS Adapt, FiniteSetTheorems, TLAPS

Addresses == Gi \cup {NoGi}
Ids == Xid \cup {NoXid}

-----------------------------------------------------------------------------
(***************************************************************************)
(* The helpers                                                              *)
(***************************************************************************)

LEMMA NowNat == TypeOK => Now \in Nat
  BY RelaysAssumption DEF TypeOK, Now

\* What entry() hands out is a row, and apart from the stamp it is the row
\* that was there, or a blank one.
LEMMA EntryIs ==
  ASSUME TypeOK, NEW gi \in Addresses
  PROVE  LET was == IF gi \in DOMAIN rows THEN rows[gi] ELSE Blank
         IN  /\ was \in Relay
             /\ \E t \in Nat : Entry(gi) = [was EXCEPT !.firstSeen = t]
<1>1. Blank \in Relay
  BY DEF Blank, Relay
<1>2. CASE gi \notin DOMAIN rows
  <2>1. Entry(gi) = [Blank EXCEPT !.firstSeen = Now]
    BY <1>2 DEF Entry, TypeOK
  <2>. QED  BY <1>1, <1>2, <2>1, NowNat
<1>3. CASE gi \in DOMAIN rows
  <2>1. rows[gi] \in Relay
    BY <1>3 DEF TypeOK
  <2>2. CASE gi = NoGi /\ rows[gi].firstSeen = 0
    BY <1>3, <2>1, <2>2, NowNat DEF Entry
  <2>3. CASE ~(gi = NoGi /\ rows[gi].firstSeen = 0)
    <3>1. Entry(gi) = rows[gi]
      BY <1>3, <2>3 DEF Entry
    <3>2. rows[gi] = [rows[gi] EXCEPT !.firstSeen = rows[gi].firstSeen]
      BY <2>1 DEF Relay
    <3>. QED  BY <1>3, <2>1, <3>1, <3>2 DEF Relay
  <2>. QED  BY <2>2, <2>3
<1>. QED  BY <1>2, <1>3

\* The facts about that row the steps below rely on.
LEMMA EntryKeeps ==
  ASSUME TypeOK, TimesAddUp, NEW gi \in Addresses
  PROVE  /\ Entry(gi) \in Relay
         /\ TimesOf(Entry(gi))
         /\ Entry(gi).requests = RequestsOf(gi)
         /\ Entry(gi).answered = AnsweredOf(gi)
<1>. DEFINE was == IF gi \in DOMAIN rows THEN rows[gi] ELSE Blank
<1>1. was \in Relay
  BY EntryIs
<1>2. TimesOf(was)
  BY DEF TimesAddUp, TimesOf, Blank
<1>3. was.requests = RequestsOf(gi) /\ was.answered = AnsweredOf(gi)
  BY DEF RequestsOf, AnsweredOf, Blank
<1>4. PICK t \in Nat : Entry(gi) = [was EXCEPT !.firstSeen = t]
  BY EntryIs
<1>. HIDE DEF was
<1>5. /\ Entry(gi) \in Relay
      /\ Entry(gi).requests = was.requests
      /\ Entry(gi).replies = was.replies
      /\ Entry(gi).answered = was.answered
      /\ Entry(gi).answerMsTotal = was.answerMsTotal
      /\ Entry(gi).answerMsWorst = was.answerMsWorst
  BY <1>1, <1>4 DEF Relay
<1>. QED  BY <1>2, <1>3, <1>5 DEF TimesOf

-----------------------------------------------------------------------------
(***************************************************************************)
(* What an operation does to the row it stores                              *)
(***************************************************************************)

LEMMA StoreRow ==
  ASSUME TypeOK, TimesAddUp, NEW gi \in Addresses,
         NEW r \in Relay, TimesOf(r), rows' = With(rows, gi, r)
  PROVE  /\ NoGi \in DOMAIN rows'
         /\ DOMAIN rows' \subseteq Addresses
         /\ rows' \in [DOMAIN rows' -> Relay]
         /\ TimesAddUp'
         /\ AnsweredOf(gi)' = r.answered
         /\ RequestsOf(gi)' = r.requests
         /\ \A h \in Addresses \ {gi} :
              AnsweredOf(h)' = AnsweredOf(h) /\ RequestsOf(h)' = RequestsOf(h)
<1>1. /\ DOMAIN rows' = DOMAIN rows \cup {gi}
      /\ rows'[gi] = r
      /\ \A h \in DOMAIN rows \ {gi} : rows'[h] = rows[h]
  BY DEF With
<1>2. rows' = [h \in DOMAIN rows' |-> rows'[h]]
  BY DEF With
<1>3. \A h \in DOMAIN rows' : rows'[h] \in Relay /\ TimesOf(rows'[h])
  BY <1>1 DEF TypeOK, TimesAddUp
<1>. QED
  BY <1>1, <1>2, <1>3 DEF TypeOK, Addresses, TimesAddUp, TimesOf, AnsweredOf, RequestsOf

LEMMA AskingIs ==
  ASSUME TypeOK, NEW r \in Relay, TimesOf(r)
  PROVE  /\ Asking(r) \in Relay
         /\ TimesOf(Asking(r))
         /\ Asking(r).requests = r.requests + 1
         /\ Asking(r).answered = r.answered
<1>. DEFINE gap == IF r.lastRequest = Never THEN r.longestGap
                   ELSE Larger(r.longestGap, Less(Now, r.lastRequest))
            asked == r.requests + 1
<1>1. r.requests \in Nat /\ r.longestGap \in Nat /\ r.lastRequest \in Nat \cup {Never}
  BY DEF Relay
<1>2. gap \in Nat /\ asked \in Nat
  BY <1>1, NowNat DEF Less, Larger
<1>3. Asking(r) = [r EXCEPT !.requests = asked, !.longestGap = gap,
                            !.lastRequest = Now]
  BY DEF Asking
<1>. HIDE DEF gap, asked
<1>4. [r EXCEPT !.requests = asked, !.longestGap = gap, !.lastRequest = Now] \in Relay
  BY <1>2, NowNat DEF Relay
<1>5. /\ Asking(r).requests = asked
      /\ Asking(r).replies = r.replies
      /\ Asking(r).answered = r.answered
      /\ Asking(r).answerMsTotal = r.answerMsTotal
      /\ Asking(r).answerMsWorst = r.answerMsWorst
  BY <1>3, Zenon DEF Relay
<1>. QED  BY <1>3, <1>4, <1>5 DEF TimesOf, asked

LEMMA RepliedIs ==
  ASSUME TypeOK, NEW r \in Relay, TimesOf(r)
  PROVE  /\ Replied(r) \in Relay
         /\ TimesOf(Replied(r))
         /\ Replied(r).requests = r.requests
         /\ Replied(r).answered = r.answered
         /\ Replied(r).answered < Replied(r).replies
<1>. DEFINE more == r.replies + 1
<1>1. more \in Nat /\ r.replies \in Nat /\ r.answered \in Nat
  BY DEF Relay
<1>2. Replied(r) = [r EXCEPT !.replies = more, !.lastReply = Now]
  BY DEF Replied
<1>. HIDE DEF more
<1>3. [r EXCEPT !.replies = more, !.lastReply = Now] \in Relay
  BY <1>1, NowNat DEF Relay
<1>4. /\ Replied(r).requests = r.requests
      /\ Replied(r).replies = more
      /\ Replied(r).answered = r.answered
      /\ Replied(r).answerMsTotal = r.answerMsTotal
      /\ Replied(r).answerMsWorst = r.answerMsWorst
  BY <1>2, Zenon DEF Relay
<1>. QED  BY <1>1, <1>2, <1>3, <1>4 DEF TimesOf, more

\* A timed answer keeps the mean below the worst.
LEMMA TimedIs ==
  ASSUME NEW r \in Relay, TimesOf(r), r.answered < r.replies, NEW took \in Nat
  PROVE  /\ Timed(r, took) \in Relay
         /\ TimesOf(Timed(r, took))
         /\ Timed(r, took).requests = r.requests
         /\ Timed(r, took).answered = r.answered + 1
<1>. DEFINE worst == Larger(r.answerMsWorst, took)
            sum == r.answerMsTotal + took
            n == r.answered + 1
<1>1. /\ r.answered \in Nat /\ r.replies \in Nat
      /\ r.answerMsTotal \in Nat /\ r.answerMsWorst \in Nat
  BY DEF Relay
<1>2. /\ worst \in Nat /\ worst >= r.answerMsWorst /\ worst >= took
      /\ worst = r.answerMsWorst \/ worst = took
      /\ sum \in Nat /\ n \in Nat
  BY <1>1 DEF Larger
<1>3. Timed(r, took) = [r EXCEPT !.answered = n, !.answerMsTotal = sum,
                                 !.answerMsWorst = worst]
  BY DEF Timed
<1>. HIDE DEF worst
<1>4. sum <= n * worst
  <2>1. \A k, v, w \in Nat : v <= w => k * v <= k * w
    BY Z3
  <2>2. r.answered * r.answerMsWorst <= r.answered * worst
    BY <1>1, <1>2, <2>1
  <2>3. n * worst = r.answered * worst + worst
    BY <1>1, <1>2
  <2>4. r.answered * worst \in Nat /\ r.answered * r.answerMsWorst \in Nat
    BY <1>1, <1>2
  <2>5. r.answerMsTotal <= r.answered * r.answerMsWorst
    BY DEF TimesOf
  <2>. QED  BY <1>1, <1>2, <2>2, <2>3, <2>4, <2>5
<1>5. worst <= sum
  BY <1>1, <1>2 DEF TimesOf
<1>6. n <= r.replies
  BY <1>1
<1>. HIDE DEF sum, n
<1>7. [r EXCEPT !.answered = n, !.answerMsTotal = sum, !.answerMsWorst = worst] \in Relay
  BY <1>2 DEF Relay
<1>8. /\ Timed(r, took).requests = r.requests
      /\ Timed(r, took).replies = r.replies
      /\ Timed(r, took).answered = n
      /\ Timed(r, took).answerMsTotal = sum
      /\ Timed(r, took).answerMsWorst = worst
  BY <1>3, Zenon DEF Relay
<1>. QED  BY <1>3, <1>4, <1>5, <1>6, <1>7, <1>8 DEF TimesOf, n

-----------------------------------------------------------------------------
(***************************************************************************)
(* What an operation does to the table of requests awaiting an answer       *)
(***************************************************************************)

PendingTyped ==
  /\ DOMAIN pending \subseteq Xid
  /\ pending \in [DOMAIN pending -> [atMs : Nat, gi : Addresses]]

LEMMA WaitingFinite ==
  ASSUME PendingBounded, NEW gis
  PROVE  /\ IsFiniteSet(WaitingFor(gis))
         /\ Cardinality(WaitingFor(gis)) \in Nat
<1>1. WaitingFor(gis) \subseteq DOMAIN pending
  BY DEF WaitingFor
<1>. QED  BY <1>1, FS_Subset, FS_CardinalityType DEF PendingBounded

LEMMA OneMore ==
  ASSUME NEW S, IsFiniteSet(S), NEW x
  PROVE  /\ IsFiniteSet(S \cup {x})
         /\ Cardinality(S \cup {x}) \in Nat
         /\ Cardinality(S \cup {x}) <= Cardinality(S) + 1
<1>1. IsFiniteSet(S \cup {x}) /\ Cardinality(S) \in Nat
  BY FS_AddElement, FS_CardinalityType
<1>2. Cardinality(S \cup {x}) = Cardinality(S) \/ Cardinality(S \cup {x}) = Cardinality(S) + 1
  BY FS_AddElement, Zenon
<1>. QED  BY <1>1, <1>2

\* A request remembered is one more to wait for, at most, and only where it
\* was asked; the sweep and the full table never add any.
LEMMA AwaitIs ==
  ASSUME TypeOK, PendingBounded, NEW gi \in Addresses, NEW x \in Xid,
         pending' = Await(gi, x)
  PROVE  /\ PendingTyped'
         /\ PendingBounded'
         /\ \A gis \in SUBSET Addresses :
              Cardinality(WaitingFor(gis)')
                <= Cardinality(WaitingFor(gis)) + (IF gi \in gis THEN 1 ELSE 0)
<1>1. /\ Kept \subseteq DOMAIN pending
      /\ IsFiniteSet(Kept) /\ Cardinality(Kept) \in Nat
      /\ Cardinality(Kept) <= MaxPending
  <2>1. Kept \subseteq DOMAIN pending
    BY DEF Kept, Unexpired
  <2>2. IsFiniteSet(Kept) /\ Cardinality(Kept) <= Cardinality(DOMAIN pending)
    BY <2>1, FS_Subset DEF PendingBounded
  <2>3. Cardinality(Kept) \in Nat /\ Cardinality(DOMAIN pending) \in Nat
    BY <2>2, FS_CardinalityType DEF PendingBounded
  <2>. QED  BY <2>1, <2>2, <2>3, RelaysAssumption DEF PendingBounded
<1>2. CASE Cardinality(Kept) < MaxPending
  <2>1. pending' = [k \in Kept \cup {x} |->
                      IF k = x THEN [atMs |-> clock, gi |-> gi] ELSE pending[k]]
    BY <1>2 DEF Await, With, Swept
  <2>2. /\ IsFiniteSet(Kept \cup {x})
        /\ Cardinality(Kept \cup {x}) <= Cardinality(Kept) + 1
    BY <1>1, OneMore
  <2>3. PendingBounded'
    <3>1. DOMAIN pending' = Kept \cup {x}
      BY <2>1
    <3>2. Cardinality(Kept \cup {x}) \in Nat
      BY <2>2, FS_CardinalityType
    <3>. QED  BY <1>1, <1>2, <2>2, <3>1, <3>2, RelaysAssumption DEF PendingBounded
  <2>4. PendingTyped'
    BY <1>1, <2>1 DEF TypeOK, PendingTyped, Addresses
  <2>5. ASSUME NEW gis \in SUBSET Addresses
        PROVE  Cardinality(WaitingFor(gis)')
                 <= Cardinality(WaitingFor(gis)) + (IF gi \in gis THEN 1 ELSE 0)
    <3>1. /\ IsFiniteSet(WaitingFor(gis)) /\ Cardinality(WaitingFor(gis)) \in Nat
          /\ IsFiniteSet(WaitingFor(gis)') /\ Cardinality(WaitingFor(gis)') \in Nat
      <4>1. WaitingFor(gis)' \subseteq DOMAIN pending'
        BY DEF WaitingFor
      <4>. QED
        BY <2>3, <4>1, WaitingFinite, FS_Subset, FS_CardinalityType DEF PendingBounded
    <3>2. CASE gi \in gis
      <4>1. WaitingFor(gis)' \subseteq WaitingFor(gis) \cup {x}
        BY <1>1, <2>1 DEF WaitingFor
      <4>2. /\ IsFiniteSet(WaitingFor(gis) \cup {x})
            /\ Cardinality(WaitingFor(gis) \cup {x}) <= Cardinality(WaitingFor(gis)) + 1
        BY <3>1, OneMore
      <4>3. Cardinality(WaitingFor(gis)') <= Cardinality(WaitingFor(gis) \cup {x})
        BY <4>1, <4>2, FS_Subset
      <4>. QED  BY <3>1, <3>2, <4>2, <4>3, FS_CardinalityType
    <3>3. CASE gi \notin gis
      <4>1. WaitingFor(gis)' \subseteq WaitingFor(gis)
        BY <1>1, <2>1, <3>3 DEF WaitingFor
      <4>2. Cardinality(WaitingFor(gis)') <= Cardinality(WaitingFor(gis))
        BY <3>1, <4>1, FS_Subset
      <4>. QED  BY <3>1, <3>3, <4>2
    <3>. QED  BY <3>2, <3>3
  <2>. QED  BY <2>3, <2>4, <2>5
<1>3. CASE ~(Cardinality(Kept) < MaxPending)
  <2>1. pending' = [k \in Kept |-> pending[k]]
    BY <1>3 DEF Await, Swept
  <2>2. PendingBounded' /\ PendingTyped'
    BY <1>1, <2>1 DEF PendingBounded, PendingTyped, TypeOK, Addresses
  <2>3. ASSUME NEW gis \in SUBSET Addresses
        PROVE  Cardinality(WaitingFor(gis)')
                 <= Cardinality(WaitingFor(gis)) + (IF gi \in gis THEN 1 ELSE 0)
    <3>1. WaitingFor(gis)' \subseteq WaitingFor(gis)
      BY <1>1, <2>1 DEF WaitingFor
    <3>2. Cardinality(WaitingFor(gis)') <= Cardinality(WaitingFor(gis))
      BY <3>1, WaitingFinite, FS_Subset
    <3>3. Cardinality(WaitingFor(gis)') \in Nat /\ Cardinality(WaitingFor(gis)) \in Nat
      BY <3>1, WaitingFinite, FS_Subset, FS_CardinalityType
    <3>. QED  BY <3>2, <3>3
  <2>. QED  BY <2>2, <2>3
<1>. QED  BY <1>2, <1>3

\* An answer settles one request, if it settles any.
LEMMA SettledIs ==
  ASSUME TypeOK, PendingBounded, NEW x \in Ids,
         pending' = [y \in DOMAIN pending \ {x} |-> pending[y]]
  PROVE  /\ PendingTyped'
         /\ PendingBounded'
         /\ \A gis \in SUBSET Addresses :
              Cardinality(WaitingFor(gis)') =
                Cardinality(WaitingFor(gis))
                  - (IF x \in DOMAIN pending /\ pending[x].gi \in gis THEN 1 ELSE 0)
<1>1. DOMAIN pending' = DOMAIN pending \ {x}
  OBVIOUS
<1>2. PendingTyped'
  BY DEF TypeOK, PendingTyped, Addresses
<1>3. PendingBounded'
  <2>1. /\ IsFiniteSet(DOMAIN pending \ {x})
        /\ Cardinality(DOMAIN pending \ {x}) <= Cardinality(DOMAIN pending)
    BY FS_Subset DEF PendingBounded
  <2>2. Cardinality(DOMAIN pending \ {x}) \in Nat /\ Cardinality(DOMAIN pending) \in Nat
    BY <2>1, FS_CardinalityType DEF PendingBounded
  <2>. QED  BY <1>1, <2>1, <2>2, RelaysAssumption DEF PendingBounded
<1>4. ASSUME NEW gis \in SUBSET Addresses
      PROVE  Cardinality(WaitingFor(gis)') =
               Cardinality(WaitingFor(gis))
                 - (IF x \in DOMAIN pending /\ pending[x].gi \in gis THEN 1 ELSE 0)
  <2>1. WaitingFor(gis)' = WaitingFor(gis) \ {x}
    BY <1>1 DEF WaitingFor
  <2>2. x \in WaitingFor(gis) <=> x \in DOMAIN pending /\ pending[x].gi \in gis
    BY DEF WaitingFor
  <2>3. IsFiniteSet(WaitingFor(gis)) /\ Cardinality(WaitingFor(gis)) \in Nat
    BY WaitingFinite
  <2>4. Cardinality(WaitingFor(gis) \ {x}) =
          Cardinality(WaitingFor(gis)) - (IF x \in WaitingFor(gis) THEN 1 ELSE 0)
    BY <2>3, FS_RemoveElement
  <2>. QED  BY <2>1, <2>2, <2>4
<1>. QED  BY <1>2, <1>3, <1>4

-----------------------------------------------------------------------------
(***************************************************************************)
(* The inductive invariant.  The four parts need each other: that nobody is  *)
(* answered more than he asked rests on the table being finite, and that a   *)
(* row's times add up on the row being a row.                               *)
(***************************************************************************)

IInv == TypeOK /\ PendingBounded /\ AnswersEarned /\ TimesAddUp

LEMMA CountsNat ==
  ASSUME TypeOK, NEW gi \in Addresses
  PROVE  AnsweredOf(gi) \in Nat /\ RequestsOf(gi) \in Nat
<1>1. CASE gi \in DOMAIN rows
  <2>1. rows[gi] \in Relay
    BY <1>1 DEF TypeOK
  <2>2. rows[gi].answered \in Nat /\ rows[gi].requests \in Nat
    BY <2>1 DEF Relay
  <2>. QED  BY <1>1, <2>2 DEF AnsweredOf, RequestsOf
<1>2. CASE gi \notin DOMAIN rows
  BY <1>2 DEF AnsweredOf, RequestsOf
<1>. QED  BY <1>1, <1>2

LEMMA InitHolds == Init => IInv
<1>. SUFFICES ASSUME Init PROVE IInv
  OBVIOUS
<1>. USE DEF Init, InitStore
<1>1. Blank \in Relay /\ TimesOf(Blank)
  BY DEF Blank, Relay, TimesOf
<1>2. TypeOK
  BY <1>1, RelaysAssumption DEF TypeOK
<1>3. PendingBounded
  BY FS_EmptySet, RelaysAssumption DEF PendingBounded
<1>4. TimesAddUp
  BY <1>1 DEF TimesAddUp
<1>5. AnswersEarned
  <2>1. \A gi \in Addresses : AnsweredOf(gi) = 0 /\ RequestsOf(gi) = 0
    BY DEF AnsweredOf, RequestsOf, Blank
  <2>2. \A gis : WaitingFor(gis) = {}
    BY DEF WaitingFor
  <2>3. \A gis : Cardinality(WaitingFor(gis)) = 0
    BY <2>2, FS_EmptySet, Zenon
  <2>. QED  BY <2>1, <2>3 DEF AnswersEarned, Addresses
<1>. QED  BY <1>2, <1>3, <1>4, <1>5 DEF IInv

LEMMA AskedHolds ==
  ASSUME IInv, NEW gi \in Addresses, NEW x \in Ids, Request(gi, x), UNCHANGED clock
  PROVE  IInv'
<1>. USE DEF IInv
<1>1. /\ Entry(gi) \in Relay /\ TimesOf(Entry(gi))
      /\ Entry(gi).requests = RequestsOf(gi) /\ Entry(gi).answered = AnsweredOf(gi)
  BY EntryKeeps
<1>2. /\ Asking(Entry(gi)) \in Relay /\ TimesOf(Asking(Entry(gi)))
      /\ Asking(Entry(gi)).requests = RequestsOf(gi) + 1
      /\ Asking(Entry(gi)).answered = AnsweredOf(gi)
  BY <1>1, AskingIs
<1>3. rows' = With(rows, gi, Asking(Entry(gi)))
  BY DEF Request
<1>4. /\ NoGi \in DOMAIN rows' /\ DOMAIN rows' \subseteq Addresses
      /\ rows' \in [DOMAIN rows' -> Relay]
      /\ TimesAddUp'
      /\ AnsweredOf(gi)' = AnsweredOf(gi)
      /\ RequestsOf(gi)' = RequestsOf(gi) + 1
      /\ \A h \in Addresses \ {gi} :
           AnsweredOf(h)' = AnsweredOf(h) /\ RequestsOf(h)' = RequestsOf(h)
  BY <1>2, <1>3, StoreRow
<1>5. /\ PendingTyped' /\ PendingBounded'
      /\ \A gis \in SUBSET Addresses :
           Cardinality(WaitingFor(gis)')
             <= Cardinality(WaitingFor(gis)) + (IF gi \in gis THEN 1 ELSE 0)
  <2>1. CASE x = NoXid
    <3>1. pending' = pending
      BY <2>1 DEF Request
    <3>2. \A gis : Cardinality(WaitingFor(gis)) \in Nat
      BY WaitingFinite
    <3>3. \A gis : WaitingFor(gis)' = WaitingFor(gis)
      BY <3>1 DEF WaitingFor
    <3>4. \A gis : Cardinality(WaitingFor(gis)')
                     <= Cardinality(WaitingFor(gis)) + (IF gi \in gis THEN 1 ELSE 0)
      BY <3>2, <3>3
    <3>. QED  BY <3>1, <3>4 DEF PendingTyped, PendingBounded, TypeOK, Addresses
  <2>2. CASE x # NoXid
    <3>1. x \in Xid /\ pending' = Await(gi, x)
      BY <2>2 DEF Request, Ids
    <3>. QED  BY <3>1, AwaitIs
  <2>. QED  BY <2>1, <2>2
<1>6. TypeOK'
  <2>1. sweptMs' \in Nat
    BY DEF Request, TypeOK
  <2>. QED  BY <1>4, <1>5, <2>1 DEF TypeOK, PendingTyped, Addresses
<1>7. AnswersEarned'
  <2>1. \A h \in Addresses : AnsweredOf(h)' = AnsweredOf(h)
    BY <1>4
  <2>2. \A h \in Addresses :
          RequestsOf(h)' = RequestsOf(h) + (IF h = gi THEN 1 ELSE 0)
    BY <1>4, CountsNat
  <2>3. \A gis : Cardinality(WaitingFor(gis)) \in Nat
    BY WaitingFinite
  <2>4. \A gis : Cardinality(WaitingFor(gis)') \in Nat
    <3>1. ASSUME NEW gis PROVE Cardinality(WaitingFor(gis)') \in Nat
      <4>1. WaitingFor(gis)' \subseteq DOMAIN pending'
        BY DEF WaitingFor
      <4>. QED  BY <1>5, <4>1, FS_Subset, FS_CardinalityType DEF PendingBounded
    <3>. QED  BY <3>1
  <2>5. AnsweredOf(NoGi)' + Cardinality(WaitingFor({NoGi})') <= RequestsOf(NoGi)'
    <3>1. NoGi \in Addresses /\ {NoGi} \in SUBSET Addresses
      BY DEF Addresses
    <3>2. AnsweredOf(NoGi) + Cardinality(WaitingFor({NoGi})) <= RequestsOf(NoGi)
      BY DEF AnswersEarned
    <3>3. Cardinality(WaitingFor({NoGi})')
            <= Cardinality(WaitingFor({NoGi})) + (IF NoGi = gi THEN 1 ELSE 0)
      BY <1>5, <3>1
    <3>. QED  BY <2>1, <2>2, <2>3, <2>4, <3>1, <3>2, <3>3, CountsNat
  <2>6. ASSUME NEW h \in Gi
        PROVE  AnsweredOf(h)' + AnsweredOf(NoGi)' + Cardinality(WaitingFor({h, NoGi})')
                 <= RequestsOf(h)' + RequestsOf(NoGi)'
    <3>1. h \in Addresses /\ NoGi \in Addresses /\ {h, NoGi} \in SUBSET Addresses /\ h # NoGi
      BY RelaysAssumption DEF Addresses
    <3>2. AnsweredOf(h) + AnsweredOf(NoGi) + Cardinality(WaitingFor({h, NoGi}))
            <= RequestsOf(h) + RequestsOf(NoGi)
      BY DEF AnswersEarned
    <3>3. Cardinality(WaitingFor({h, NoGi})')
            <= Cardinality(WaitingFor({h, NoGi}))
                 + (IF h = gi \/ NoGi = gi THEN 1 ELSE 0)
      BY <1>5, <3>1
    <3>. QED  BY <2>1, <2>2, <2>3, <2>4, <3>1, <3>2, <3>3, CountsNat
  <2>. QED  BY <2>5, <2>6 DEF AnswersEarned
<1>. QED  BY <1>4, <1>5, <1>6, <1>7

LEMMA AnsweredHolds ==
  ASSUME IInv, NEW gi \in Addresses, NEW x \in Ids, Reply(gi, x), UNCHANGED clock
  PROVE  IInv'
<1>. USE DEF IInv
<1>. DEFINE settled == IF x \in DOMAIN pending THEN 1 ELSE 0
<1>1. PICK owner \in Addresses :
        /\ owner = Owner(gi, x)
        /\ x \in DOMAIN pending => pending[x].gi \in {owner, NoGi}
        /\ x \in DOMAIN pending => pending[x].atMs \in Nat
        /\ clock \in Nat
  BY DEF Owner, TypeOK, Addresses
<1>2. /\ Entry(owner) \in Relay /\ TimesOf(Entry(owner))
      /\ Entry(owner).requests = RequestsOf(owner)
      /\ Entry(owner).answered = AnsweredOf(owner)
  BY <1>1, EntryKeeps
<1>3. /\ Replied(Entry(owner)) \in Relay /\ TimesOf(Replied(Entry(owner)))
      /\ Replied(Entry(owner)).requests = RequestsOf(owner)
      /\ Replied(Entry(owner)).answered = AnsweredOf(owner)
      /\ Replied(Entry(owner)).answered < Replied(Entry(owner)).replies
  BY <1>2, RepliedIs
<1>4. PICK r \in Relay :
        /\ TimesOf(r) /\ rows' = With(rows, owner, r)
        /\ r.requests = RequestsOf(owner)
        /\ r.answered = AnsweredOf(owner) + settled
  <2>1. CASE x \in DOMAIN pending
    <3>. DEFINE took == Less(clock, pending[x].atMs)
    <3>1. took \in Nat
      BY <1>1, <2>1 DEF Less
    <3>2. rows' = With(rows, owner, Timed(Replied(Entry(owner)), took))
      BY <1>1, <2>1 DEF Reply
    <3>. HIDE DEF took
    <3>3. LET r == Timed(Replied(Entry(owner)), took)
          IN  /\ r \in Relay /\ TimesOf(r)
              /\ r.requests = RequestsOf(owner)
              /\ r.answered = AnsweredOf(owner) + 1
      BY <1>3, <3>1, TimedIs
    <3>. QED  BY <2>1, <3>2, <3>3
  <2>2. CASE x \notin DOMAIN pending
    <3>1. rows' = With(rows, owner, Replied(Entry(owner)))
      BY <1>1, <2>2 DEF Reply
    <3>2. AnsweredOf(owner) = AnsweredOf(owner) + settled
      BY <1>1, <2>2, CountsNat
    <3>. QED  BY <1>3, <3>1, <3>2
  <2>. QED  BY <2>1, <2>2
<1>5. /\ NoGi \in DOMAIN rows' /\ DOMAIN rows' \subseteq Addresses
      /\ rows' \in [DOMAIN rows' -> Relay]
      /\ TimesAddUp'
      /\ AnsweredOf(owner)' = AnsweredOf(owner) + settled
      /\ RequestsOf(owner)' = RequestsOf(owner)
      /\ \A h \in Addresses \ {owner} :
           AnsweredOf(h)' = AnsweredOf(h) /\ RequestsOf(h)' = RequestsOf(h)
  BY <1>1, <1>4, StoreRow
<1>6. /\ PendingTyped' /\ PendingBounded'
      /\ \A gis \in SUBSET Addresses :
           Cardinality(WaitingFor(gis)') =
             Cardinality(WaitingFor(gis))
               - (IF x \in DOMAIN pending /\ pending[x].gi \in gis THEN 1 ELSE 0)
  BY SettledIs DEF Reply
<1>7. TypeOK'
  BY <1>5, <1>6 DEF Reply, TypeOK, PendingTyped, Addresses
<1>8. AnswersEarned'
  <2>1. \A h \in Addresses :
          /\ RequestsOf(h)' = RequestsOf(h)
          /\ AnsweredOf(h)' = AnsweredOf(h) + (IF h = owner THEN settled ELSE 0)
    BY <1>1, <1>5, CountsNat
  <2>2. \A gis : Cardinality(WaitingFor(gis)) \in Nat
    BY WaitingFinite
  <2>3. AnsweredOf(NoGi)' + Cardinality(WaitingFor({NoGi})') <= RequestsOf(NoGi)'
    <3>1. NoGi \in Addresses /\ {NoGi} \in SUBSET Addresses
      BY DEF Addresses
    <3>2. AnsweredOf(NoGi) + Cardinality(WaitingFor({NoGi})) <= RequestsOf(NoGi)
      BY DEF AnswersEarned
    <3>3. Cardinality(WaitingFor({NoGi})') =
            Cardinality(WaitingFor({NoGi}))
              - (IF x \in DOMAIN pending /\ pending[x].gi = NoGi THEN 1 ELSE 0)
      BY <1>6, <3>1
    <3>4. NoGi = owner /\ x \in DOMAIN pending => pending[x].gi = NoGi
      BY <1>1
    <3>. QED  BY <2>1, <2>2, <3>1, <3>2, <3>3, <3>4, CountsNat
  <2>4. ASSUME NEW h \in Gi
        PROVE  AnsweredOf(h)' + AnsweredOf(NoGi)' + Cardinality(WaitingFor({h, NoGi})')
                 <= RequestsOf(h)' + RequestsOf(NoGi)'
    <3>1. h \in Addresses /\ NoGi \in Addresses /\ {h, NoGi} \in SUBSET Addresses /\ h # NoGi
      BY RelaysAssumption DEF Addresses
    <3>2. AnsweredOf(h) + AnsweredOf(NoGi) + Cardinality(WaitingFor({h, NoGi}))
            <= RequestsOf(h) + RequestsOf(NoGi)
      BY DEF AnswersEarned
    <3>3. Cardinality(WaitingFor({h, NoGi})') =
            Cardinality(WaitingFor({h, NoGi}))
              - (IF x \in DOMAIN pending /\ pending[x].gi \in {h, NoGi} THEN 1 ELSE 0)
      BY <1>6, <3>1
    <3>4. owner \in {h, NoGi} /\ x \in DOMAIN pending => pending[x].gi \in {h, NoGi}
      BY <1>1
    <3>. QED  BY <2>1, <2>2, <3>1, <3>2, <3>3, <3>4, CountsNat
  <2>. QED  BY <2>3, <2>4 DEF AnswersEarned
<1>. QED  BY <1>5, <1>6, <1>7, <1>8

\* What the steps that leave the DHCP counts alone have in common.
LEMMA SameCounts ==
  ASSUME IInv, UNCHANGED pending,
         \A h \in Addresses :
           AnsweredOf(h)' = AnsweredOf(h) /\ RequestsOf(h)' = RequestsOf(h)
  PROVE  PendingBounded' /\ AnswersEarned'
<1>1. \A gis : WaitingFor(gis)' = WaitingFor(gis)
  BY DEF WaitingFor
<1>. QED  BY <1>1 DEF IInv, PendingBounded, AnswersEarned, Addresses

LEMMA TftpHolds ==
  ASSUME IInv, TftpRequest \/ TftpSend, UNCHANGED clock
  PROVE  IInv'
<1>. USE DEF IInv
<1>1. /\ NoGi \in Addresses
      /\ Entry(NoGi) \in Relay /\ TimesOf(Entry(NoGi))
      /\ Entry(NoGi).requests = RequestsOf(NoGi)
      /\ Entry(NoGi).answered = AnsweredOf(NoGi)
  BY EntryKeeps DEF Addresses
<1>2. ASSUME NEW n \in Nat
      PROVE  LET r == [Entry(NoGi) EXCEPT !.tftpRequests = n]
                 q == [Entry(NoGi) EXCEPT !.tftpSends = n]
             IN  /\ r \in Relay /\ TimesOf(r)
                 /\ r.requests = RequestsOf(NoGi) /\ r.answered = AnsweredOf(NoGi)
                 /\ q \in Relay /\ TimesOf(q)
                 /\ q.requests = RequestsOf(NoGi) /\ q.answered = AnsweredOf(NoGi)
  BY <1>1 DEF Relay, TimesOf
<1>3. /\ Entry(NoGi).tftpRequests + 1 \in Nat
      /\ Entry(NoGi).tftpSends + 1 \in Nat
  BY <1>1 DEF Relay
<1>4. PICK r \in Relay :
        /\ TimesOf(r) /\ rows' = With(rows, NoGi, r)
        /\ r.requests = RequestsOf(NoGi) /\ r.answered = AnsweredOf(NoGi)
  BY <1>2, <1>3 DEF TftpRequest, TftpSend
<1>5. /\ NoGi \in DOMAIN rows' /\ DOMAIN rows' \subseteq Addresses
      /\ rows' \in [DOMAIN rows' -> Relay]
      /\ TimesAddUp'
      /\ \A h \in Addresses :
           AnsweredOf(h)' = AnsweredOf(h) /\ RequestsOf(h)' = RequestsOf(h)
  BY <1>1, <1>4, StoreRow
<1>6. UNCHANGED <<pending, sweptMs>>
  BY DEF TftpRequest, TftpSend
<1>7. TypeOK'
  BY <1>5, <1>6 DEF TypeOK, Addresses
<1>. QED  BY <1>5, <1>6, <1>7, SameCounts

LEMMA StepHolds == IInv /\ [Next]_vars => IInv'
<1>. SUFFICES ASSUME IInv, [Next]_vars PROVE IInv'
  OBVIOUS
<1>1. CASE Asked
  BY <1>1, AskedHolds DEF Asked, Addresses, Ids
<1>2. CASE Answered
  BY <1>2, AnsweredHolds DEF Answered, Addresses, Ids
<1>3. CASE Tftp
  BY <1>3, TftpHolds DEF Tftp
<1>4. CASE Tick \/ SetBack \/ UNCHANGED vars
  <2>1. UNCHANGED <<rows, pending, sweptMs>> /\ clock' \in Nat
    BY <1>4, RelaysAssumption DEF Tick, SetBack, vars, IInv, TypeOK
  <2>2. \A h \in Addresses :
          AnsweredOf(h)' = AnsweredOf(h) /\ RequestsOf(h)' = RequestsOf(h)
    BY <2>1 DEF AnsweredOf, RequestsOf
  <2>3. PendingBounded' /\ AnswersEarned'
    BY <2>1, <2>2, SameCounts
  <2>. QED  BY <2>1, <2>3 DEF IInv, TypeOK, TimesAddUp
<1>. QED  BY <1>1, <1>2, <1>3, <1>4 DEF Next, Steady

LEMMA AlwaysIInv == Spec => []IInv
  BY InitHolds, StepHolds, PTL DEF Spec

-----------------------------------------------------------------------------
(***************************************************************************)
(* The theorems                                                             *)
(***************************************************************************)

\* Every variable keeps its shape, whatever the clock does.
THEOREM TypeCorrect == Spec => []TypeOK
  BY AlwaysIInv, PTL DEF IInv

\* The table of unanswered requests never outgrows MAX_PENDING
\* (relays.rs:38-43, 137), whatever traffic arrives and even while a clock that
\* was set back keeps it from being swept.
THEOREM PendingAlwaysBounded == Spec => []PendingBounded
  BY AlwaysIInv, PTL DEF IInv

\* A request is answered at most once, whatever the replies carry
\* (relays.rs:148-165).
THEOREM AnswersAlwaysEarned == Spec => []AnswersEarned
  BY AlwaysIInv, PTL DEF IInv

\* The mean of the answer times never exceeds the worst, and nothing is timed
\* that is not also counted as a reply (relays.rs:74-77, 159-164).
THEOREM TimesAlwaysAddUp == Spec => []TimesAddUp
  BY AlwaysIInv, PTL DEF IInv

-----------------------------------------------------------------------------
(***************************************************************************)
(* A clock that is never set back: how old what is remembered can be.       *)
(***************************************************************************)

Fresh == TypeOK /\ PendingFresh /\ sweptMs <= clock

LEMMA FreshInit == Init => Fresh
  BY InitHolds, RelaysAssumption
  DEF IInv, TypeOK, Fresh, PendingFresh, Init, InitStore

LEMMA FreshStep == IInv /\ Fresh /\ [Steady]_vars => Fresh'
<1>. SUFFICES ASSUME IInv, Fresh, [Steady]_vars PROVE Fresh'
  OBVIOUS
<1>1. TypeOK'
  BY StepHolds DEF IInv, Next
<1>2. /\ clock \in Nat /\ sweptMs \in Nat
      /\ \A x \in DOMAIN pending :
           /\ pending[x].atMs \in Nat /\ pending[x].atMs <= clock
           /\ pending[x].atMs > sweptMs - PendingFor
  BY DEF Fresh, PendingFresh, TypeOK
<1>3. ASSUME NEW gi \in Addresses, NEW x \in Ids, Request(gi, x), UNCHANGED clock
      PROVE  PendingFresh' /\ sweptMs' <= clock'
  <2>1. CASE x = NoXid
    BY <1>2, <1>3, <2>1 DEF Request, PendingFresh, Fresh
  <2>2. CASE x # NoXid
    <3>1. \A y \in DOMAIN pending' :
            \/ pending'[y].atMs = clock
            \/ y \in Kept /\ pending'[y] = pending[y]
      <4>1. pending' = IF Cardinality(Kept) < MaxPending
                       THEN [k \in Kept \cup {x} |->
                               IF k = x THEN [atMs |-> clock, gi |-> gi] ELSE pending[k]]
                       ELSE [k \in Kept |-> pending[k]]
        BY <1>3, <2>2 DEF Request, Await, With, Swept
      <4>. QED  BY <4>1
    <3>2. \A y \in Kept : y \in DOMAIN pending
                          /\ (SweepDue => pending[y].atMs > clock - PendingFor)
      BY <1>2, RelaysAssumption DEF Kept, Unexpired, Less
    <3>3. sweptMs' = IF SweepDue THEN clock ELSE sweptMs
      BY <1>3, <2>2 DEF Request
    <3>4. sweptMs' <= clock' /\ sweptMs' \in Nat
      BY <1>2, <1>3, <3>3 DEF Fresh
    <3>5. \A y \in DOMAIN pending' :
            pending'[y].atMs <= clock' /\ pending'[y].atMs > sweptMs' - PendingFor
      BY <1>2, <1>3, <3>1, <3>2, <3>3, <3>4, RelaysAssumption
    <3>. QED  BY <3>4, <3>5 DEF PendingFresh
  <2>. QED  BY <2>1, <2>2
<1>4. CASE Asked
  BY <1>1, <1>3, <1>4 DEF Asked, Addresses, Ids, Fresh
<1>5. CASE Answered
  BY <1>1, <1>5 DEF Answered, Reply, Fresh, PendingFresh
<1>6. CASE Tftp
  BY <1>1, <1>6 DEF Tftp, TftpRequest, TftpSend, Fresh, PendingFresh
<1>7. CASE Tick
  BY <1>1, <1>2, <1>7 DEF Tick, Fresh, PendingFresh
<1>8. CASE UNCHANGED vars
  BY <1>1, <1>8 DEF vars, Fresh, PendingFresh
<1>. QED  BY <1>4, <1>5, <1>6, <1>7, <1>8 DEF Steady

\* Only an answer to something remembered changes the worst answer time of a
\* row, and then to the time that answer took.
LEMMA WorstMoves ==
  ASSUME IInv, Fresh, [Steady]_vars, NEW g \in DOMAIN rows,
         rows'[g].answerMsWorst # rows[g].answerMsWorst
  PROVE  rows'[g].answerMsWorst < PendingFor + (clock - sweptMs)
<1>1. rows[g] \in Relay
  BY DEF IInv, TypeOK
<1>2. \A h \in Addresses : Entry(h) \in Relay
                           /\ (h \in DOMAIN rows =>
                                 Entry(h).answerMsWorst = rows[h].answerMsWorst)
  <2>1. ASSUME NEW h \in Addresses, h \in DOMAIN rows
        PROVE  Entry(h).answerMsWorst = rows[h].answerMsWorst
    <3>1. rows[h] \in Relay
      BY <2>1 DEF IInv, TypeOK
    <3>2. PICK t \in Nat : Entry(h) = [rows[h] EXCEPT !.firstSeen = t]
      BY <2>1, EntryIs DEF IInv
    <3>. QED  BY <3>1, <3>2, Zenon DEF Relay
  <2>. QED  BY <2>1, EntryKeeps DEF IInv
<1>3. ASSUME NEW h \in Addresses, NEW r, rows' = With(rows, h, r),
             r.answerMsWorst = Entry(h).answerMsWorst
      PROVE  FALSE
  BY <1>2, <1>3 DEF With
<1>4. CASE Asked
  <2>1. PICK h \in Addresses : rows' = With(rows, h, Asking(Entry(h)))
    BY <1>4 DEF Asked, Request, Addresses
  <2>2. Entry(h) \in Relay
    BY <1>2
  <2>3. Asking(Entry(h)).answerMsWorst = Entry(h).answerMsWorst
    BY <2>2, Zenon DEF Asking, Relay
  <2>. QED  BY <1>3, <2>1, <2>3
<1>5. CASE Tftp
  <2>1. \E r : rows' = With(rows, NoGi, r) /\ r.answerMsWorst = Entry(NoGi).answerMsWorst
    <3>1. Entry(NoGi) \in Relay
      BY <1>2 DEF Addresses
    <3>2. \A n : /\ [Entry(NoGi) EXCEPT !.tftpRequests = n].answerMsWorst
                      = Entry(NoGi).answerMsWorst
                 /\ [Entry(NoGi) EXCEPT !.tftpSends = n].answerMsWorst
                      = Entry(NoGi).answerMsWorst
      BY <3>1, Zenon DEF Relay
    <3>. QED  BY <1>5, <3>2 DEF Tftp, TftpRequest, TftpSend
  <2>. QED  BY <1>3, <2>1 DEF Addresses
<1>6. CASE Answered
  <2>1. PICK gi \in Addresses, x \in Ids : Reply(gi, x)
    BY <1>6 DEF Answered, Addresses, Ids
  <2>2. PICK owner \in Addresses : owner = Owner(gi, x)
    BY DEF Owner, IInv, TypeOK, Addresses
  <2>3. Entry(owner) \in Relay
    BY <1>2
  <2>4. /\ Replied(Entry(owner)) \in Relay
        /\ Replied(Entry(owner)).answerMsWorst = Entry(owner).answerMsWorst
    <3>1. Replied(Entry(owner)) \in Relay
      BY RepliedIs, EntryKeeps DEF IInv
    <3>2. Replied(Entry(owner)).answerMsWorst = Entry(owner).answerMsWorst
      BY <2>3, Zenon DEF Replied, Relay
    <3>. QED  BY <3>1, <3>2
  <2>5. CASE x \notin DOMAIN pending
    <3>1. rows' = With(rows, owner, Replied(Entry(owner)))
      BY <2>1, <2>2, <2>5 DEF Reply
    <3>. QED  BY <1>3, <2>4, <3>1
  <2>6. CASE x \in DOMAIN pending
    <3>. DEFINE took == Less(clock, pending[x].atMs)
                base == Replied(Entry(owner))
    <3>1. /\ took \in Nat
          /\ took < PendingFor + (clock - sweptMs)
      BY <2>6, RelaysAssumption DEF Less, Fresh, PendingFresh, TypeOK
    <3>2. rows' = With(rows, owner, Timed(base, took))
      BY <2>1, <2>2, <2>6 DEF Reply
    <3>. HIDE DEF took, base
    <3>3. Timed(base, took).answerMsWorst = Larger(base.answerMsWorst, took)
      BY <2>4, Zenon DEF Timed, Relay, base
    <3>4. \/ Larger(base.answerMsWorst, took) = base.answerMsWorst
          \/ Larger(base.answerMsWorst, took) = took
      BY DEF Larger
    <3>5. Timed(base, took).answerMsWorst # took => FALSE
      BY <1>3, <2>4, <3>2, <3>3, <3>4 DEF base
    <3>6. g = owner => rows'[g].answerMsWorst = took
      BY <3>2, <3>5 DEF With
    <3>7. g # owner => rows'[g] = rows[g]
      BY <3>2 DEF With
    <3>. QED  BY <3>1, <3>6, <3>7
  <2>. QED  BY <2>5, <2>6
<1>7. CASE Tick \/ UNCHANGED vars
  BY <1>7 DEF Tick, vars
<1>. QED  BY <1>4, <1>5, <1>6, <1>7 DEF Steady

\* Nothing older than PENDING_FOR_MS survives a sweep, so nothing remembered is
\* older than that and the time since the last sweep (relays.rs:196-203).
THEOREM PendingAlwaysFresh == SteadySpec => []PendingFresh
<1>1. IInv /\ Fresh /\ [Steady]_vars => (IInv /\ Fresh)'
  BY FreshStep, StepHolds DEF Next
<1>2. Init => IInv /\ Fresh
  BY InitHolds, FreshInit
<1>. QED  BY <1>1, <1>2, PTL DEF SteadySpec, Fresh

\* No answer is timed at more than the lazy sweep can add to PENDING_FOR_MS
\* (relays.rs:112-117, 156-164).
THEOREM AnswerTimesAlwaysBounded == SteadySpec => AnswerTimesBounded
<1>1. IInv /\ Fresh /\ [Steady]_vars => (IInv /\ Fresh)'
  BY FreshStep, StepHolds DEF Next
<1>2. Init => IInv /\ Fresh
  BY InitHolds, FreshInit
<1>3. IInv /\ Fresh /\ [Steady]_vars =>
        [ \A gi \in DOMAIN rows :
            rows'[gi].answerMsWorst # rows[gi].answerMsWorst
              => rows'[gi].answerMsWorst < PendingFor + (clock - sweptMs) ]_vars
  BY WorstMoves
<1>. QED  BY <1>1, <1>2, <1>3, PTL DEF SteadySpec, AnswerTimesBounded

-----------------------------------------------------------------------------
(***************************************************************************)
(* A clock that is never set back: the longest silence of a row.            *)
(***************************************************************************)

\* The silences of a row, none longer than the longest, lie between its first
\* packet and its last request, and fill that span if nothing else was seen.
SpanOf(g, r) ==
  /\ r.firstSeen <= Now
  /\ IF r.lastRequest = Never
     THEN r.longestGap = 0
     ELSE /\ r.firstSeen <= r.lastRequest /\ r.lastRequest <= Now
          /\ r.requests >= 1
          /\ r.longestGap <= r.lastRequest - r.firstSeen
          /\ g # NoGi /\ r.replies = 0 =>
               r.lastRequest - r.firstSeen <= r.longestGap * (r.requests - 1)

\* A row is stamped by the packet that makes it, and the unrelayed row, which is
\* there from the start, by the first packet it counts.
StampOf(g, r) ==
  IF g = NoGi THEN r.firstSeen = 0 => r.lastRequest = Never
              ELSE r.lastRequest = Never => r.replies > 0

Spans ==
  /\ Now >= 1
  /\ \A g \in DOMAIN rows : SpanOf(g, rows[g]) /\ StampOf(g, rows[g])

LEMMA DivisionGrows ==
  ASSUME NEW m \in Nat, NEW n \in Nat, m <= n, NEW s \in Nat \ {0}
  PROVE  m \div s <= n \div s
  BY Z3

LEMMA OneSecondIn == ASSUME NEW s \in Nat \ {0} PROVE s \div s = 1
  BY Z3

\* entry() hands out a row stamped no later than now, and just now if nothing
\* was seen of it.
LEMMA EntrySpan ==
  ASSUME TypeOK, Spans, NEW g \in Addresses
  PROVE  /\ Entry(g) \in Relay /\ SpanOf(g, Entry(g))
         /\ g = NoGi => Entry(g).firstSeen # 0
         /\ Entry(g).lastRequest = Never /\ g # NoGi /\ Entry(g).replies = 0 =>
              Entry(g).firstSeen = Now
<1>1. Now \in Nat /\ Now >= 1 /\ Never \notin Nat
  BY NowNat, RelaysAssumption DEF Spans
<1>2. CASE g \notin DOMAIN rows
  <2>1. Entry(g) = [Blank EXCEPT !.firstSeen = Now]
    BY <1>2 DEF Entry, TypeOK
  <2>. QED  BY <1>1, <2>1 DEF Blank, Relay, SpanOf
<1>3. CASE g \in DOMAIN rows /\ g = NoGi /\ rows[g].firstSeen = 0
  <2>1. Entry(g) = [rows[g] EXCEPT !.firstSeen = Now]
    BY <1>3 DEF Entry
  <2>2. rows[g] \in Relay /\ rows[g].lastRequest = Never /\ rows[g].longestGap = 0
    BY <1>3 DEF TypeOK, Spans, SpanOf, StampOf
  <2>3. /\ Entry(g) \in Relay /\ Entry(g).firstSeen = Now
        /\ Entry(g).lastRequest = Never /\ Entry(g).longestGap = 0
    BY <1>1, <2>1, <2>2 DEF Relay
  <2>. QED  BY <1>1, <1>3, <2>3 DEF SpanOf
<1>4. CASE g \in DOMAIN rows /\ ~(g = NoGi /\ rows[g].firstSeen = 0)
  <2>1. Entry(g) = rows[g]
    BY <1>4 DEF Entry
  <2>2. rows[g] \in Relay /\ SpanOf(g, rows[g]) /\ StampOf(g, rows[g])
    BY <1>4 DEF TypeOK, Spans
  <2>. QED  BY <1>4, <2>1, <2>2 DEF StampOf, Relay
<1>. QED  BY <1>2, <1>3, <1>4

LEMMA StoreSpan ==
  ASSUME Spans, UNCHANGED clock, NEW g \in Addresses, NEW r,
         rows' = With(rows, g, r), SpanOf(g, r), StampOf(g, r)
  PROVE  Spans'
<1>1. Now' = Now
  BY DEF Now
<1>2. /\ DOMAIN rows' = DOMAIN rows \cup {g} /\ rows'[g] = r
      /\ \A h \in DOMAIN rows \ {g} : rows'[h] = rows[h]
  BY DEF With
<1>3. ASSUME NEW h \in DOMAIN rows' PROVE SpanOf(h, rows'[h]) /\ StampOf(h, rows'[h])
  <2>1. CASE h = g
    BY <1>2, <2>1
  <2>2. CASE h # g
    BY <1>2, <2>2 DEF Spans
  <2>. QED  BY <2>1, <2>2
<1>. QED  BY <1>1, <1>3 DEF Spans, SpanOf, StampOf

\* The silence that ends with this request is at most the longest one, so a row
\* of requests alone is filled by one silence more.
LEMMA AskingSpan ==
  ASSUME TypeOK, Spans, NEW g \in Addresses
  PROVE  SpanOf(g, Asking(Entry(g))) /\ StampOf(g, Asking(Entry(g)))
<1>. DEFINE e == Entry(g)
            gap == IF e.lastRequest = Never THEN e.longestGap
                   ELSE Larger(e.longestGap, Less(Now, e.lastRequest))
            asked == e.requests + 1
            a == Asking(e)
<1>1. /\ e \in Relay /\ SpanOf(g, e) /\ (g = NoGi => e.firstSeen # 0)
      /\ e.lastRequest = Never /\ g # NoGi /\ e.replies = 0 => e.firstSeen = Now
  BY EntrySpan
<1>2. /\ e.requests \in Nat /\ e.longestGap \in Nat /\ e.lastRequest \in Nat \cup {Never}
      /\ e.firstSeen \in Nat /\ Now \in Nat /\ Never \notin Nat
  BY <1>1, NowNat, RelaysAssumption DEF Relay
<1>3. a = [e EXCEPT !.requests = asked, !.longestGap = gap, !.lastRequest = Now]
  BY DEF Asking
<1>. HIDE DEF e, gap, asked, a
<1>4. /\ a.requests = asked /\ a.longestGap = gap /\ a.lastRequest = Now
      /\ a.firstSeen = e.firstSeen /\ a.replies = e.replies
  BY <1>1, <1>3, Zenon DEF Relay
<1>5. e.firstSeen <= Now /\ asked >= 1 /\ asked \in Nat
  BY <1>1, <1>2 DEF SpanOf, asked
<1>6. CASE e.lastRequest = Never
  <2>1. gap = 0
    BY <1>1, <1>6 DEF gap, SpanOf
  <2>2. 0 * (asked - 1) = 0
    BY <1>5
  <2>3. Now # Never /\ Now - e.firstSeen >= 0
    BY <1>2, <1>5
  <2>4. g # NoGi /\ e.replies = 0 => Now - e.firstSeen <= gap * (asked - 1)
    BY <1>1, <1>2, <1>6, <2>1, <2>2
  <2>5. SpanOf(g, a)
    BY <1>2, <1>4, <1>5, <2>1, <2>3, <2>4 DEF SpanOf
  <2>. QED  BY <1>1, <1>2, <1>4, <2>3, <2>5 DEF StampOf, a, e
<1>7. CASE e.lastRequest # Never
  <2>. DEFINE last == e.lastRequest
              first == e.firstSeen
              long == e.longestGap
              n == e.requests
  <2>1. /\ last \in Nat /\ first \in Nat /\ long \in Nat /\ n \in Nat /\ n >= 1
        /\ first <= last /\ last <= Now /\ long <= last - first
        /\ g # NoGi /\ e.replies = 0 => last - first <= long * (n - 1)
    BY <1>1, <1>2, <1>7 DEF SpanOf
  <2>2. gap = Larger(long, Less(Now, last)) /\ asked = n + 1
    BY <1>7 DEF gap, asked
  <2>. HIDE DEF last, first, long, n
  <2>3. /\ gap \in Nat /\ long <= gap /\ Now - last <= gap
        /\ gap = long \/ gap = Now - last
    BY <1>2, <2>1, <2>2 DEF Larger, Less
  <2>4. gap <= Now - first
    BY <1>2, <2>1, <2>3
  <2>5. g # NoGi /\ e.replies = 0 => Now - first <= gap * (asked - 1)
    <3>. SUFFICES ASSUME g # NoGi, e.replies = 0 PROVE Now - first <= gap * (asked - 1)
      OBVIOUS
    <3>1. \A k, v, w \in Nat : v <= w => v * k <= w * k
      BY Z3
    <3>2. n - 1 \in Nat
      BY <2>1
    <3>3. long * (n - 1) <= gap * (n - 1)
      BY <2>1, <2>3, <3>1, <3>2
    <3>4. gap * (asked - 1) = gap * (n - 1) + gap
      BY <2>1, <2>2, <2>3
    <3>5. gap * (n - 1) \in Int /\ long * (n - 1) \in Int
      BY <2>1, <2>3
    <3>6. last - first <= long * (n - 1)
      BY <2>1
    <3>. HIDE DEF asked
    <3>. QED  BY <1>2, <2>1, <2>3, <3>3, <3>4, <3>5, <3>6
  <2>6. Now # Never
    BY <1>2
  <2>7. SpanOf(g, a)
    BY <1>2, <1>4, <1>5, <2>4, <2>5, <2>6 DEF SpanOf, first
  <2>. QED  BY <1>1, <1>2, <1>4, <2>6, <2>7, <1>7 DEF SpanOf, StampOf, a, e
<1>. QED  BY <1>6, <1>7

\* What an answer or a TFTP packet changes is no part of the span.
LEMMA SpanKept ==
  ASSUME NEW g \in Addresses, NEW e \in Relay, SpanOf(g, e), NEW r \in Relay,
         r.firstSeen = e.firstSeen, r.lastRequest = e.lastRequest,
         r.longestGap = e.longestGap, r.requests = e.requests,
         r.replies = 0 => e.replies = 0
  PROVE  SpanOf(g, r)
  BY DEF SpanOf

LEMMA SpansInit == Init => Spans
<1>. SUFFICES ASSUME Init PROVE Spans
  OBVIOUS
<1>1. Now = 1
  BY OneSecondIn, RelaysAssumption DEF Init, Now
<1>. QED  BY <1>1 DEF Init, InitStore, Spans, SpanOf, StampOf, Blank

LEMMA SpansStep == IInv /\ Spans /\ [Steady]_vars => Spans'
<1>. SUFFICES ASSUME IInv, Spans, [Steady]_vars PROVE Spans'
  OBVIOUS
<1>. USE DEF IInv
<1>1. CASE Asked
  <2>1. PICK g \in Addresses : rows' = With(rows, g, Asking(Entry(g)))
    BY <1>1 DEF Asked, Request, Addresses
  <2>2. UNCHANGED clock
    BY <1>1 DEF Asked
  <2>. QED  BY <2>1, <2>2, AskingSpan, StoreSpan
<1>2. CASE Answered
  <2>1. PICK gi \in Addresses, x \in Ids : Reply(gi, x) /\ UNCHANGED clock
    BY <1>2 DEF Answered, Addresses, Ids
  <2>2. PICK g \in Addresses : g = Owner(gi, x)
    BY DEF Owner, TypeOK, Addresses
  <2>. DEFINE e == Entry(g)
              row == Replied(e)
  <2>3. /\ e \in Relay /\ TimesOf(e) /\ SpanOf(g, e)
        /\ g = NoGi => e.firstSeen # 0
    BY EntryKeeps, EntrySpan
  <2>4. row \in Relay /\ TimesOf(row) /\ row.answered < row.replies
    BY <2>3, RepliedIs
  <2>5. /\ row.firstSeen = e.firstSeen /\ row.lastRequest = e.lastRequest
        /\ row.longestGap = e.longestGap /\ row.requests = e.requests
    BY <2>3, Zenon DEF Replied, Relay
  <2>. HIDE DEF row, e
  <2>6. row.replies > 0
    BY <2>4 DEF Relay
  <2>7. CASE x \notin DOMAIN pending
    <3>1. rows' = With(rows, g, row)
      BY <2>1, <2>2, <2>7 DEF Reply, row, e
    <3>2. SpanOf(g, row) /\ StampOf(g, row)
      <4>1. SpanOf(g, row)
        BY <2>3, <2>4, <2>5, <2>6, SpanKept
      <4>. QED  BY <2>3, <2>5, <2>6, <4>1 DEF StampOf
    <3>. QED  BY <2>1, <3>1, <3>2, StoreSpan
  <2>8. CASE x \in DOMAIN pending
    <3>. DEFINE took == Less(clock, pending[x].atMs)
    <3>1. took \in Nat
      BY <2>8 DEF Less, TypeOK
    <3>2. rows' = With(rows, g, Timed(row, took))
      BY <2>1, <2>2, <2>8 DEF Reply, row, e
    <3>. HIDE DEF took
    <3>3. Timed(row, took) \in Relay
      BY <2>4, <3>1, TimedIs
    <3>4. /\ Timed(row, took).firstSeen = e.firstSeen
          /\ Timed(row, took).lastRequest = e.lastRequest
          /\ Timed(row, took).longestGap = e.longestGap
          /\ Timed(row, took).requests = e.requests
          /\ Timed(row, took).replies = row.replies
      BY <2>4, <2>5, Zenon DEF Timed, Relay
    <3>5. SpanOf(g, Timed(row, took)) /\ StampOf(g, Timed(row, took))
      <4>1. SpanOf(g, Timed(row, took))
        BY <2>3, <2>6, <3>3, <3>4, SpanKept
      <4>. QED  BY <2>3, <2>6, <3>4, <4>1 DEF StampOf
    <3>. QED  BY <2>1, <3>2, <3>5, StoreSpan
  <2>. QED  BY <2>7, <2>8
<1>3. CASE Tftp
  <2>1. /\ Entry(NoGi) \in Relay /\ SpanOf(NoGi, Entry(NoGi)) /\ Entry(NoGi).firstSeen # 0
        /\ UNCHANGED clock
    BY <1>3, EntrySpan DEF Addresses, Tftp
  <2>2. ASSUME NEW r, rows' = With(rows, NoGi, r),
               r.firstSeen = Entry(NoGi).firstSeen, r.lastRequest = Entry(NoGi).lastRequest,
               r.longestGap = Entry(NoGi).longestGap, r.requests = Entry(NoGi).requests,
               r.replies = Entry(NoGi).replies
        PROVE  Spans'
    <3>1. SpanOf(NoGi, r) /\ StampOf(NoGi, r)
      BY <2>1, <2>2 DEF SpanOf, StampOf
    <3>. QED  BY <2>1, <2>2, <3>1, StoreSpan DEF Addresses
  <2>3. \E r : /\ rows' = With(rows, NoGi, r)
               /\ r.firstSeen = Entry(NoGi).firstSeen /\ r.lastRequest = Entry(NoGi).lastRequest
               /\ r.longestGap = Entry(NoGi).longestGap /\ r.requests = Entry(NoGi).requests
               /\ r.replies = Entry(NoGi).replies
    <3>. DEFINE Same(r) ==
              /\ r.firstSeen = Entry(NoGi).firstSeen /\ r.lastRequest = Entry(NoGi).lastRequest
              /\ r.longestGap = Entry(NoGi).longestGap /\ r.requests = Entry(NoGi).requests
              /\ r.replies = Entry(NoGi).replies
    <3>1. \A n : /\ Same([Entry(NoGi) EXCEPT !.tftpRequests = n])
                 /\ Same([Entry(NoGi) EXCEPT !.tftpSends = n])
      BY <2>1, Zenon DEF Relay
    <3>. HIDE DEF Same
    <3>2. \E r : rows' = With(rows, NoGi, r) /\ Same(r)
      BY <1>3, <3>1 DEF Tftp, TftpRequest, TftpSend
    <3>. QED  BY <3>2, Zenon DEF Same
  <2>. QED  BY <2>2, <2>3
<1>4. CASE Tick
  <2>1. clock \in Nat /\ clock' \in Nat /\ clock <= clock' /\ rows' = rows
    BY <1>4 DEF Tick, TypeOK
  <2>2. Now <= Now' /\ Now \in Nat /\ Now' \in Nat
    <3>1. clock \div Second <= clock' \div Second
      BY <2>1, DivisionGrows, RelaysAssumption
    <3>2. \A n \in Nat : n \div Second \in Nat
      BY RelaysAssumption
    <3>. QED  BY <2>1, <3>1, <3>2 DEF Now
  <2>3. \A g \in DOMAIN rows : rows[g].firstSeen \in Nat /\ rows[g].lastRequest \in Nat \cup {Never}
    BY DEF TypeOK, Relay
  <2>4. \A g \in DOMAIN rows : SpanOf(g, rows[g])' /\ StampOf(g, rows[g])'
    BY <2>1, <2>2, <2>3 DEF Spans, SpanOf, StampOf
  <2>. QED  BY <2>1, <2>2, <2>4 DEF Spans
<1>5. CASE UNCHANGED vars
  BY <1>5 DEF vars, Spans, SpanOf, StampOf, Now
<1>. QED  BY <1>1, <1>2, <1>3, <1>4, <1>5 DEF Steady

\* The longest silence fits between the first packet and the last request, and
\* where every packet was a request the silences fill what lies between them
\* (relays.rs:130-133).
THEOREM GapAlwaysFitsSpan == SteadySpec => []GapFitsSpan
<1>1. IInv /\ Spans /\ [Steady]_vars => (IInv /\ Spans)'
  BY SpansStep, StepHolds DEF Next
<1>2. Init => IInv /\ Spans
  BY InitHolds, SpansInit
<1>3. Spans => GapFitsSpan
  BY DEF Spans, SpanOf, GapFitsSpan
<1>. QED  BY <1>1, <1>2, <1>3, PTL DEF SteadySpec

-----------------------------------------------------------------------------
(***************************************************************************)
(* Adapt, for every choice of floor, ceiling and headroom: what a step does  *)
(* to the evidence of one row                                               *)
(***************************************************************************)

\* The evidence is untouched, or one more request is in it.
Unasked(was, is) ==
  is.requests = was.requests /\ is.longestGap = was.longestGap
    /\ is.lastRequest = was.lastRequest

AskedOnce(was, is) ==
  /\ is.requests = was.requests + 1
  /\ is.longestGap = IF was.lastRequest = Never THEN was.longestGap
                     ELSE Larger(was.longestGap, Less(Now, was.lastRequest))

Was(h) == IF h \in DOMAIN rows THEN rows[h] ELSE Blank

LEMMA EntryUnasked ==
  ASSUME TypeOK, NEW h \in Addresses
  PROVE  Entry(h) \in Relay /\ Was(h) \in Relay /\ Unasked(Was(h), Entry(h))
<1>1. Was(h) \in Relay
  BY EntryIs DEF Was
<1>2. PICK t \in Nat : Entry(h) = [Was(h) EXCEPT !.firstSeen = t]
  BY EntryIs DEF Was
<1>3. [Was(h) EXCEPT !.firstSeen = t] \in Relay
  BY <1>1 DEF Relay
<1>. QED  BY <1>1, <1>2, <1>3, Zenon DEF Unasked, Relay

\* Every operation stores one row.
LEMMA StepStores ==
  ASSUME IInv, [Next]_vars
  PROVE  \/ rows' = rows
         \/ \E k \in Addresses, r \in Relay :
              /\ rows' = With(rows, k, r)
              /\ Unasked(Was(k), r) \/ AskedOnce(Was(k), r)
<1>. USE DEF IInv
<1>1. CASE Asked
  <2>1. PICK k \in Addresses : rows' = With(rows, k, Asking(Entry(k)))
    BY <1>1 DEF Asked, Request, Addresses
  <2>2. Entry(k) \in Relay /\ TimesOf(Entry(k)) /\ Unasked(Was(k), Entry(k))
    BY EntryUnasked, EntryKeeps
  <2>3. Asking(Entry(k)) \in Relay /\ Asking(Entry(k)).requests = Entry(k).requests + 1
    BY <2>2, AskingIs
  <2>4. Asking(Entry(k)).longestGap
          = IF Entry(k).lastRequest = Never THEN Entry(k).longestGap
            ELSE Larger(Entry(k).longestGap, Less(Now, Entry(k).lastRequest))
    BY <2>2, Zenon DEF Asking, Relay
  <2>. QED  BY <2>1, <2>2, <2>3, <2>4 DEF AskedOnce, Unasked
<1>2. CASE Answered
  <2>1. PICK gi \in Addresses, x \in Ids : Reply(gi, x)
    BY <1>2 DEF Answered, Addresses, Ids
  <2>2. PICK k \in Addresses : k = Owner(gi, x)
    BY DEF Owner, TypeOK, Addresses
  <2>. DEFINE row == Replied(Entry(k))
  <2>3. Entry(k) \in Relay /\ TimesOf(Entry(k)) /\ Unasked(Was(k), Entry(k))
    BY EntryUnasked, EntryKeeps
  <2>4. row \in Relay /\ TimesOf(row) /\ row.answered < row.replies
    BY <2>3, RepliedIs
  <2>5. Unasked(Entry(k), row)
    BY <2>3, Zenon DEF Replied, Unasked, Relay
  <2>6. CASE x \notin DOMAIN pending
    <3>1. rows' = With(rows, k, row)
      BY <2>1, <2>2, <2>6 DEF Reply
    <3>. QED  BY <2>3, <2>4, <2>5, <3>1 DEF Unasked
  <2>7. CASE x \in DOMAIN pending
    <3>. DEFINE took == Less(clock, pending[x].atMs)
    <3>1. took \in Nat
      BY <2>7 DEF Less, TypeOK
    <3>2. rows' = With(rows, k, Timed(row, took))
      BY <2>1, <2>2, <2>7 DEF Reply
    <3>. HIDE DEF took, row
    <3>3. Timed(row, took) \in Relay
      BY <2>4, <3>1, TimedIs
    <3>4. Unasked(row, Timed(row, took))
      BY <2>4, Zenon DEF Timed, Unasked, Relay
    <3>. QED  BY <2>3, <2>5, <3>2, <3>3, <3>4 DEF Unasked
  <2>. QED  BY <2>6, <2>7
<1>3. CASE Tftp
  <2>1. Entry(NoGi) \in Relay /\ Unasked(Was(NoGi), Entry(NoGi))
    BY EntryUnasked DEF Addresses
  <2>2. ASSUME NEW n \in Nat
        PROVE  /\ [Entry(NoGi) EXCEPT !.tftpRequests = n] \in Relay
               /\ Unasked(Entry(NoGi), [Entry(NoGi) EXCEPT !.tftpRequests = n])
               /\ [Entry(NoGi) EXCEPT !.tftpSends = n] \in Relay
               /\ Unasked(Entry(NoGi), [Entry(NoGi) EXCEPT !.tftpSends = n])
    BY <2>1 DEF Relay, Unasked
  <2>3. Entry(NoGi).tftpRequests + 1 \in Nat /\ Entry(NoGi).tftpSends + 1 \in Nat
    BY <2>1 DEF Relay
  <2>4. PICK r \in Relay : rows' = With(rows, NoGi, r) /\ Unasked(Entry(NoGi), r)
    BY <1>3, <2>2, <2>3 DEF Tftp, TftpRequest, TftpSend
  <2>. QED  BY <2>1, <2>4 DEF Unasked, Addresses
<1>4. CASE Tick \/ SetBack \/ UNCHANGED vars
  BY <1>4 DEF Tick, SetBack, vars
<1>. QED  BY <1>1, <1>2, <1>3, <1>4 DEF Next, Steady

\* So no row is lost, and the evidence of a row is Unasked or AskedOnce.
LEMMA RowMoves ==
  ASSUME IInv, [Next]_vars
  PROVE  /\ DOMAIN rows \subseteq DOMAIN rows'
         /\ \A h \in DOMAIN rows' :
              /\ Was(h) \in Relay /\ rows'[h] \in Relay
              /\ Unasked(Was(h), rows'[h]) \/ AskedOnce(Was(h), rows'[h])
<1>1. \A h \in Addresses : Was(h) \in Relay
  BY EntryUnasked DEF IInv
<1>2. TypeOK
  BY DEF IInv
<1>3. CASE rows' = rows
  BY <1>1, <1>2, <1>3 DEF TypeOK, Addresses, Was, Unasked
<1>4. CASE \E k \in Addresses, r \in Relay :
             /\ rows' = With(rows, k, r)
             /\ Unasked(Was(k), r) \/ AskedOnce(Was(k), r)
  <2>1. PICK k \in Addresses, r \in Relay :
          /\ rows' = With(rows, k, r)
          /\ Unasked(Was(k), r) \/ AskedOnce(Was(k), r)
    BY <1>4
  <2>2. /\ DOMAIN rows' = DOMAIN rows \cup {k}
        /\ rows'[k] = r
        /\ \A h \in DOMAIN rows \ {k} : rows'[h] = rows[h]
    BY <2>1 DEF With
  <2>3. ASSUME NEW h \in DOMAIN rows', h # k
        PROVE  Was(h) = rows'[h] /\ Was(h) \in Relay /\ Unasked(Was(h), rows'[h])
    BY <1>2, <2>2, <2>3 DEF Was, Unasked, TypeOK
  <2>. QED  BY <1>1, <2>1, <2>2, <2>3
<1>. QED  BY <1>3, <1>4, StepStores

-----------------------------------------------------------------------------
(***************************************************************************)
(* What the evidence suggests                                               *)
(***************************************************************************)

LEMMA ClampIs ==
  ASSUME NEW n \in Nat
  PROVE  /\ Clamp(n, Floor, Ceiling) \in Nat
         /\ n <= Ceiling => Clamp(n, Floor, Ceiling) >= n
         /\ \A m \in Nat : m >= n => Clamp(m, Floor, Ceiling) >= Clamp(n, Floor, Ceiling)
  BY AdaptAssumption DEF Clamp

LEMMA RoomGrows ==
  ASSUME NEW a \in Nat, NEW b \in Nat, a <= b
  PROVE  /\ a * Headroom \in Nat /\ b * Headroom \in Nat
         /\ a * Headroom <= b * Headroom
<1>1. Headroom \in Nat
  BY AdaptAssumption
<1>2. PICK d \in Nat : b = a + d
  <2>1. b - a \in Nat /\ b = a + (b - a)
    OBVIOUS
  <2>. QED  BY <2>1
<1>3. b * Headroom = a * Headroom + d * Headroom
  BY <1>1, <1>2
<1>4. a * Headroom \in Nat /\ d * Headroom \in Nat
  BY <1>1
<1>. QED  BY <1>3, <1>4

\* More requests and a longer gap never suggest less.
LEMMA JudgeGrows ==
  ASSUME NEW was \in Relay, NEW is \in Relay, NEW s, NEW t,
         is.requests >= was.requests, is.longestGap >= was.longestGap,
         Judge(was.requests, s, was.longestGap) # NoSuggestion
  PROVE  /\ Judge(is.requests, t, is.longestGap) # NoSuggestion
         /\ Judge(is.requests, t, is.longestGap) >= Judge(was.requests, s, was.longestGap)
<1>1. /\ was.requests \in Nat /\ was.longestGap \in Nat
      /\ is.requests \in Nat /\ is.longestGap \in Nat
  BY DEF Relay
<1>2. was.requests >= 2 /\ is.requests >= 2
  BY <1>1 DEF Judge
<1>3. /\ was.longestGap * Headroom \in Nat /\ is.longestGap * Headroom \in Nat
      /\ was.longestGap * Headroom <= is.longestGap * Headroom
  BY <1>1, RoomGrows
<1>4. /\ Clamp(is.longestGap * Headroom, Floor, Ceiling) \in Nat
      /\ Clamp(is.longestGap * Headroom, Floor, Ceiling)
           >= Clamp(was.longestGap * Headroom, Floor, Ceiling)
  BY <1>3, ClampIs
<1>5. /\ Judge(was.requests, s, was.longestGap)
           = Clamp(was.longestGap * Headroom, Floor, Ceiling)
      /\ Judge(is.requests, t, is.longestGap)
           = Clamp(is.longestGap * Headroom, Floor, Ceiling)
  BY <1>1, <1>2 DEF Judge
<1>. QED  BY <1>4, <1>5, AdaptAssumption

-----------------------------------------------------------------------------
(***************************************************************************)
(* The theorems                                                             *)
(***************************************************************************)

\* Whatever happens during the rest of the watch, and whatever the clock does,
\* no suggestion is withdrawn or tightened (relays.rs:130-133, adapt.rs:104).
THEOREM SuggestionsAlwaysLoosen == Spec => SuggestionsOnlyLoosen
<1>. DEFINE Loosens == \A gi \in DOMAIN AsConfig :
               gi \in DOMAIN AsConfig' /\ AsConfig'[gi] >= AsConfig[gi]
<1>1. IInv /\ [Next]_vars => Loosens
  <2>. SUFFICES ASSUME IInv, [Next]_vars, NEW gi \in DOMAIN AsConfig
                PROVE  gi \in DOMAIN AsConfig' /\ AsConfig'[gi] >= AsConfig[gi]
    OBVIOUS
  <2>1. gi \in DOMAIN rows \ {NoGi} /\ Suggested(gi) # NoSuggestion
    BY DEF AsConfig, Each
  <2>2. gi \in DOMAIN rows' \ {NoGi}
    BY <2>1, RowMoves
  <2>3. /\ rows[gi] \in Relay /\ rows'[gi] \in Relay
        /\ Unasked(rows[gi], rows'[gi]) \/ AskedOnce(rows[gi], rows'[gi])
    BY <2>1, <2>2, RowMoves DEF Was
  <2>4. rows[gi].requests \in Nat /\ rows[gi].longestGap \in Nat
    BY <2>3 DEF Relay
  <2>5. /\ rows'[gi].requests >= rows[gi].requests
        /\ rows'[gi].longestGap >= rows[gi].longestGap
    <3>1. rows[gi].lastRequest # Never => Less(Now, rows[gi].lastRequest) \in Nat
      BY <2>3, NowNat DEF Less, Relay, IInv
    <3>. QED  BY <2>3, <2>4, <3>1 DEF Unasked, AskedOnce, Larger
  <2>6. /\ Suggested(gi)' # NoSuggestion
        /\ Suggested(gi)' >= Suggested(gi)
    BY <2>1, <2>3, <2>5, JudgeGrows DEF Suggested
  <2>. QED  BY <2>1, <2>2, <2>6 DEF AsConfig, Each
<1>. QED
  BY <1>1, InitHolds, StepHolds, PTL DEF Spec, SuggestionsOnlyLoosen

\* An interface that has asked is one that has been counted.
Counted == \A h \in DOMAIN rows : rows[h].lastRequest # Never => rows[h].requests >= 1

LEMMA CountedHolds ==
  /\ Init => Counted
  /\ IInv /\ Counted /\ [Next]_vars => Counted'
<1>1. Init => Counted
  BY DEF Init, InitStore, Counted, Blank
<1>2. ASSUME IInv, Counted, [Next]_vars, NEW h \in DOMAIN rows',
             rows'[h].lastRequest # Never
      PROVE  rows'[h].requests >= 1
  <2>1. /\ Was(h) \in Relay
        /\ Unasked(Was(h), rows'[h]) \/ AskedOnce(Was(h), rows'[h])
    BY <1>2, RowMoves
  <2>2. Was(h).lastRequest # Never => Was(h).requests >= 1
    BY <1>2 DEF Counted, Was, Blank
  <2>3. Was(h).requests \in Nat
    BY <2>1 DEF Relay
  <2>. QED  BY <1>2, <2>1, <2>2, <2>3 DEF Unasked, AskedOnce
<1>. QED  BY <1>1, <1>2 DEF Counted

\* The block pasted from a watch lets every interface be silent for Headroom
\* times what it was seen to be, up to the ceiling (adapt.rs:13-14, 104).
THEOREM SuggestionsAlwaysHaveRoom == Spec => SuggestionHasRoom
<1>. DEFINE HasRoom == \A gi \in Each : Breaks(gi) /\ Headroom * IdleFor(gi) <= Ceiling =>
        J!JudgeRelay(rows'[gi].requests, rows'[gi].requests,
                     Headroom * IdleFor(gi), IdleSeconds(AsConfig', gi)) # "Quiet"
<1>1. IInv /\ Counted /\ [Next]_vars => HasRoom
  <2>. SUFFICES ASSUME IInv, Counted, [Next]_vars, NEW gi \in Each, Breaks(gi),
                       Headroom * IdleFor(gi) <= Ceiling
                PROVE  J!JudgeRelay(rows'[gi].requests, rows'[gi].requests,
                         Headroom * IdleFor(gi), IdleSeconds(AsConfig', gi)) # "Quiet"
    OBVIOUS
  <2>. DEFINE silence == IdleFor(gi)
  <2>1. gi \in DOMAIN rows /\ gi \in DOMAIN rows' /\ gi # NoGi
    BY RowMoves DEF Each
  <2>2. rows[gi] \in Relay /\ rows'[gi] \in Relay /\ AskedOnce(rows[gi], rows'[gi])
    BY <2>1, RowMoves DEF Was, Unasked, Breaks
  <2>3. /\ silence = Less(Now, rows[gi].lastRequest)
        /\ silence \in Nat
    BY <2>2, NowNat DEF IdleFor, Breaks, Less, Relay, IInv
  <2>4. /\ rows'[gi].requests \in Nat /\ rows'[gi].requests >= 2
        /\ rows'[gi].longestGap \in Nat /\ silence <= rows'[gi].longestGap
    <3>1. rows[gi].requests >= 1 /\ rows[gi].requests \in Nat /\ rows[gi].longestGap \in Nat
      BY <2>1, <2>2 DEF Counted, Breaks, Relay
    <3>. HIDE DEF silence
    <3>. QED  BY <2>2, <2>3, <3>1 DEF AskedOnce, Breaks, Larger
  <2>. DEFINE room == rows'[gi].longestGap * Headroom
  <2>5. /\ room \in Nat /\ silence * Headroom \in Nat /\ silence * Headroom <= room
        /\ Headroom * silence = silence * Headroom
    <3>. HIDE DEF silence
    <3>1. silence * Headroom \in Nat /\ room \in Nat /\ silence * Headroom <= room
      BY <2>3, <2>4, RoomGrows
    <3>2. Headroom * silence = silence * Headroom
      BY <2>3, AdaptAssumption
    <3>. QED  BY <3>1, <3>2
  <2>6. Suggested(gi)' = Clamp(room, Floor, Ceiling)
    BY <2>4 DEF Suggested, Judge
  <2>. HIDE DEF room, silence
  <2>7. Clamp(room, Floor, Ceiling) \in Nat /\ Clamp(room, Floor, Ceiling) >= Headroom * silence
    <3>1. Clamp(silence * Headroom, Floor, Ceiling) >= silence * Headroom
      BY <2>5, ClampIs DEF silence
    <3>2. /\ Clamp(room, Floor, Ceiling) \in Nat
          /\ Clamp(silence * Headroom, Floor, Ceiling) \in Nat
          /\ Clamp(room, Floor, Ceiling) >= Clamp(silence * Headroom, Floor, Ceiling)
      BY <2>5, ClampIs
    <3>. QED  BY <2>5, <3>1, <3>2
  <2>8. IdleSeconds(AsConfig', gi) = Clamp(room, Floor, Ceiling)
    <3>1. Suggested(gi)' # NoSuggestion
      BY <2>6, <2>7, AdaptAssumption
    <3>. QED  BY <2>1, <2>6, <3>1 DEF IdleSeconds, AsConfig, Each
  <2>. QED  BY <2>5, <2>7, <2>8 DEF J!JudgeRelay, silence
<1>2. Init => IInv /\ Counted
  BY InitHolds, CountedHolds
<1>3. IInv /\ Counted /\ [Next]_vars => (IInv /\ Counted)'
  BY StepHolds, CountedHolds
<1>. QED
  BY <1>1, <1>2, <1>3, PTL DEF Spec, SuggestionHasRoom
=============================================================================
