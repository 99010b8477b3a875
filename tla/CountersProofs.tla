--------------------------- MODULE CountersProofs ---------------------------
(***************************************************************************)
(* Theorems about Counters, for every set of kinds and flows, every window   *)
(* and every traffic.                                                       *)
(***************************************************************************)
EXTENDS Counters, Sums

-----------------------------------------------------------------------------
(***************************************************************************)
(* The invariant                                                            *)
(***************************************************************************)

Counts == [Kinds -> Nat]
Bucket == [at : Nat, counts : Counts]

\* The shapes, in parts.
BucketsTyped ==
  /\ buckets \in Seq(Bucket)
  /\ \A i \in DOMAIN buckets : buckets[i].at \in 1 .. now
Entry == [counts : Counts, last : Nat]
FlowsAre(fs) ==
  /\ DOMAIN fs \subseteq Flows /\ IsFiniteSet(DOMAIN fs)
  /\ \A f \in DOMAIN fs : fs[f] \in Entry /\ fs[f].last \in 1 .. now
FlowsTyped == FlowsAre(flows)
RestTyped ==
  /\ now \in 1 .. MaxTime
  /\ total \in Counts /\ answer \in Counts /\ listed \in Seq(Flows)

Sorted == \A i, j \in DOMAIN buckets : i < j => buckets[i].at < buckets[j].at

\* Nothing that add has seen expire is as old as the window.
Narrow == \A i, j \in DOMAIN buckets : buckets[j].at - buckets[i].at < Window

\* What bs holds of kind k for the seconds in A, and what the flows fs hold
\* that were last heard in them.
CountsOf(bs, k) == [i \in DOMAIN bs |-> bs[i].counts[k]]
During(bs, A) == {i \in DOMAIN bs : bs[i].at \in A}
Held(bs, k, A) == SumFunctionOnSet(CountsOf(bs, k), During(bs, A))

FlowCounts(fs, k) == [f \in DOMAIN fs |-> fs[f].counts[k]]
HeardIn(fs, A) == {f \in DOMAIN fs : fs[f].last \in A}
FlowSum(fs, k, A) == SumFunctionOnSet(FlowCounts(fs, k), HeardIn(fs, A))

\* Since any second, the flows account for what the buckets hold: the sum over
\* the whole window is not enough, because expire may drop any part of it.
After(T) == {t \in Nat : t > T}
Covers(bs, fs) ==
  \A T \in Nat, k \in Kinds : Held(bs, k, After(T)) <= FlowSum(fs, k, After(T))

\* A flow's last second has its bucket.
Backed(bs, fs) ==
  \A f \in DOMAIN fs : \E i \in DOMAIN bs, k \in Kinds :
    bs[i].at = fs[f].last /\ bs[i].counts[k] > 0 /\ fs[f].counts[k] > 0

Accounted == Covers(buckets, flows) /\ Backed(buckets, flows)

IInv == BucketsTyped /\ FlowsTyped /\ RestTyped /\ Sorted /\ Narrow /\ Accounted

-----------------------------------------------------------------------------
LEMMA SeqIs ==
  ASSUME NEW S, NEW s \in Seq(S)
  PROVE  Len(s) \in Nat /\ DOMAIN s = 1 .. Len(s) /\ \A i \in 1 .. Len(s) : s[i] \in S
  OBVIOUS

LEMMA BucketsAre ==
  ASSUME BucketsTyped
  PROVE  /\ Len(buckets) \in Nat /\ DOMAIN buckets = 1 .. Len(buckets)
         /\ \A i \in 1 .. Len(buckets) :
              /\ buckets[i] \in Bucket /\ buckets[i].at \in Nat /\ buckets[i].counts \in Counts
              /\ buckets[i].at \in 1 .. now
<1>1. buckets \in Seq(Bucket)
  BY DEF BucketsTyped
<1>2. /\ Len(buckets) \in Nat /\ DOMAIN buckets = 1 .. Len(buckets)
      /\ \A i \in 1 .. Len(buckets) : buckets[i] \in Bucket
  BY <1>1, SeqIs
<1>3. \A b \in Bucket : b.at \in Nat /\ b.counts \in Counts
  BY DEF Bucket
<1>. QED  BY <1>2, <1>3 DEF BucketsTyped

-----------------------------------------------------------------------------
(***************************************************************************)
(* What expire keeps                                                        *)
(***************************************************************************)

LEMMA KeptUnfolds ==
  ASSUME Len(buckets) \in Nat
  PROVE  /\ KeptUpTo[0] = <<>>
         /\ \A i \in 1 .. Len(buckets) :
              KeptUpTo[i] = IF buckets[i].at > Cutoff
                            THEN Append(KeptUpTo[i - 1], buckets[i]) ELSE KeptUpTo[i - 1]
<1>1. IsChosen(KeptUpTo, buckets, Cutoff, Len(buckets))
  <2>1. PICK g : IsChosen(g, buckets, Cutoff, Len(buckets))
    BY ChoiceExists
  <2>. QED  BY <2>1 DEF KeptUpTo, IsChosen
<1>2. ASSUME NEW g, IsChosen(g, buckets, Cutoff, Len(buckets)), NEW i \in 0 .. Len(buckets)
      PROVE  g[i] = IF i = 0 THEN <<>>
                    ELSE IF buckets[i].at > Cutoff THEN Append(g[i - 1], buckets[i]) ELSE g[i - 1]
  BY <1>2 DEF IsChosen
<1>3. 0 \in 0 .. Len(buckets) /\ \A i \in 1 .. Len(buckets) : i \in 0 .. Len(buckets) /\ i # 0
  OBVIOUS
<1>. QED  BY <1>1, <1>2, <1>3

LEMMA CutoffIs ==
  ASSUME now \in Nat
  PROVE  Cutoff \in Nat /\ \A t \in 1 .. now : t > Cutoff <=> now - t < Window
  BY CountersAssumption DEF Cutoff

\* Where the buckets are in order, what is kept is the end of them.
LEMMA KeptIs ==
  ASSUME BucketsTyped, RestTyped, Sorted
  PROVE  \E m \in 0 .. Len(buckets) :
           /\ KeptBuckets = [i \in 1 .. Len(buckets) - m |-> buckets[m + i]]
           /\ \A i \in 1 .. m : ~(buckets[i].at > Cutoff)
           /\ \A i \in m + 1 .. Len(buckets) : buckets[i].at > Cutoff
<1>. DEFINE L == Len(buckets)
<1>1. /\ L \in Nat /\ DOMAIN buckets = 1 .. L /\ Cutoff \in Nat
      /\ \A i \in 1 .. L : buckets[i].at \in Nat /\ buckets[i] \in Bucket
  <2>1. now \in Nat
    BY DEF RestTyped
  <2>2. Cutoff \in Nat
    BY <2>1, CutoffIs
  <2>. QED  BY <2>2, BucketsAre
<1>. HIDE DEF L
<1>. DEFINE S == {n \in 0 .. L : \A i \in n + 1 .. L : buckets[i].at > Cutoff}
<1>2. PICK m \in S : \A n \in S : m <= n
  <2>1. S \in SUBSET Nat /\ L \in S
    BY <1>1
  <2>. HIDE DEF S
  <2>. QED  BY <2>1, Least
<1>3. \A i \in 1 .. m : ~(buckets[i].at > Cutoff)
  <2>. SUFFICES ASSUME NEW i \in 1 .. m PROVE ~(buckets[i].at > Cutoff)
    OBVIOUS
  <2>1. m \in 1 .. L /\ m - 1 \notin S /\ m - 1 \in 0 .. L
    <3>1. m \in 1 .. L /\ m - 1 \in 0 .. L /\ m - 1 < m
      BY <1>1, <1>2
    <3>. HIDE DEF S
    <3>. QED  BY <1>2, <3>1
  <2>2. ~(buckets[m].at > Cutoff)
    <3>1. \A j \in (m - 1) + 1 .. L : j = m \/ j \in m + 1 .. L
      BY <1>1, <2>1
    <3>. QED  BY <2>1, <3>1
  <2>3. i = m \/ buckets[i].at < buckets[m].at
    BY <1>1, <2>1 DEF Sorted
  <2>. QED  BY <1>1, <2>1, <2>2, <2>3
<1>. DEFINE Suffix(n) == [i \in 1 .. n - m |-> buckets[m + i]]
            B == {n \in m .. L : KeptUpTo[n] # Suffix(n)}
<1>4. \A n \in 0 .. m : KeptUpTo[n] = <<>>
  <2>. DEFINE C == {n \in 0 .. m : KeptUpTo[n] # <<>>}
  <2>1. CASE C = {}
    BY <2>1
  <2>2. CASE C # {}
    <3>1. PICK n \in C : \A l \in C : n <= l
      <4>1. C \in SUBSET Nat
        BY <1>1
      <4>. HIDE DEF C
      <4>. QED  BY <2>2, <4>1, Least
    <3>2. n # 0
      BY <1>1, KeptUnfolds
    <3>3. n - 1 \in 0 .. m /\ n - 1 \notin C /\ n \in 1 .. L /\ n \in 1 .. m
      BY <1>1, <3>1, <3>2
    <3>4. KeptUpTo[n] = KeptUpTo[n - 1]
      BY <1>1, <1>3, <3>3, KeptUnfolds
    <3>. QED  BY <3>3, <3>4
  <2>. QED  BY <2>1, <2>2
<1>5. B = {}
  <2>. SUFFICES ASSUME B # {} PROVE FALSE
    OBVIOUS
  <2>1. PICK n \in B : \A l \in B : n <= l
    <3>1. B \in SUBSET Nat
      BY <1>1
    <3>. HIDE DEF B
    <3>. QED  BY <3>1, Least
  <2>2. n # m
    <3>1. Suffix(m) = <<>>
      BY <1>1
    <3>. QED  BY <1>1, <1>4, <3>1
  <2>3. n - 1 \in m .. L /\ n - 1 \notin B /\ n \in 1 .. L /\ n \in m + 1 .. L
    <3>1. n - 1 \in m .. L /\ n \in 1 .. L /\ n \in m + 1 .. L /\ n - 1 < n
      BY <1>1, <2>1, <2>2
    <3>. HIDE DEF B
    <3>. QED  BY <2>1, <3>1
  <2>4. KeptUpTo[n] = Append(Suffix(n - 1), buckets[n])
    <3>1. KeptUpTo[n] = Append(KeptUpTo[n - 1], buckets[n])
      BY <1>1, <1>2, <2>3, KeptUnfolds DEF L
    <3>. QED  BY <2>3, <3>1
  <2>5. Append(Suffix(n - 1), buckets[n]) = Suffix(n)
    <3>1. /\ Suffix(n - 1) \in Seq(Bucket) /\ Len(Suffix(n - 1)) = (n - 1) - m
          /\ \A i \in 1 .. (n - 1) - m : Suffix(n - 1)[i] = buckets[m + i]
      <4>1. \A i \in 1 .. (n - 1) - m : m + i \in 1 .. L
        BY <1>1, <2>3
      <4>. QED  BY <1>1, <2>3, <4>1
    <3>. QED  BY <1>1, <2>3, <3>1
  <2>. QED  BY <2>4, <2>5
<1>6. KeptBuckets = Suffix(L)
  <2>1. L \in m .. L
    BY <1>1
  <2>. QED  BY <1>5, <2>1 DEF KeptBuckets, L
<1>7. m \in 0 .. L /\ \A i \in m + 1 .. L : buckets[i].at > Cutoff
  BY <1>2
<1>. HIDE DEF S, B
<1>. QED  BY <1>3, <1>6, <1>7 DEF L

-----------------------------------------------------------------------------
(***************************************************************************)
(* Buckets, and what they hold of the packets of some seconds               *)
(***************************************************************************)

Lasting(bs) ==
  /\ bs \in Seq(Bucket)
  /\ \A i \in 1 .. Len(bs) : bs[i].at \in 1 .. now /\ now - bs[i].at < Window
  /\ \A i, j \in 1 .. Len(bs) : i < j => bs[i].at < bs[j].at

LEMMA HeldIsNat ==
  ASSUME NEW bs \in Seq(Bucket), NEW k \in Kinds, NEW A
  PROVE  /\ IsFiniteSet(DOMAIN bs) /\ IsFiniteSet(During(bs, A))
         /\ \A i \in DOMAIN bs : CountsOf(bs, k)[i] \in Nat
         /\ Held(bs, k, A) \in Nat
<1>1. Len(bs) \in Nat /\ DOMAIN bs = 1 .. Len(bs) /\ \A i \in 1 .. Len(bs) : bs[i] \in Bucket
  BY SeqIs
<1>2. IsFiniteSet(DOMAIN bs)
  BY <1>1, FS_Interval
<1>3. IsFiniteSet(During(bs, A))
  BY <1>2, FS_Subset DEF During
<1>4. \A b \in Bucket : b.counts[k] \in Nat
  BY DEF Bucket, Counts
<1>5. \A i \in DOMAIN bs : CountsOf(bs, k)[i] \in Nat
  BY <1>1, <1>4 DEF CountsOf
<1>6. \A i \in During(bs, A) : CountsOf(bs, k)[i] \in Nat
  BY <1>5 DEF During
<1>. QED  BY <1>2, <1>3, <1>5, <1>6, SumIsNat DEF Held

LEMMA KeptLast ==
  ASSUME IInv
  PROVE  Lasting(KeptBuckets)
<1>. DEFINE L == Len(buckets)
            K == KeptBuckets
<1>1. /\ L \in Nat
      /\ \A i \in 1 .. L : buckets[i] \in Bucket /\ buckets[i].at \in 1 .. now
      /\ \A i, j \in 1 .. L : i < j => buckets[i].at < buckets[j].at
  BY BucketsAre DEF IInv, Sorted
<1>2. PICK m \in 0 .. L :
        /\ K = [i \in 1 .. L - m |-> buckets[m + i]]
        /\ \A i \in m + 1 .. L : buckets[i].at > Cutoff
  BY KeptIs DEF IInv
<1>3. \A t \in 1 .. now : t > Cutoff => now - t < Window
  BY CutoffIs DEF IInv, RestTyped
<1>. HIDE DEF K, L
<1>4. \A i \in 1 .. L - m : m + i \in 1 .. L /\ m + i \in m + 1 .. L
  BY <1>1
<1>5. K \in Seq(Bucket) /\ Len(K) = L - m
  BY <1>1, <1>2, <1>4
<1>6. \A i \in 1 .. L - m : K[i] = buckets[m + i]
  BY <1>2
<1>7. \A i, j \in 1 .. L - m : i < j => m + i < m + j
  BY <1>1
<1>. QED  BY <1>1, <1>2, <1>3, <1>4, <1>5, <1>6, <1>7 DEF Lasting, K

\* What expire drops is of no second later than the cutoff.
LEMMA KeptHolds ==
  ASSUME IInv, NEW k \in Kinds, NEW A
  PROVE  Held(KeptBuckets, k, A) = Held(buckets, k, {t \in A : t > Cutoff})
<1>. DEFINE L == Len(buckets)
            K == KeptBuckets
            R == {t \in A : t > Cutoff}
<1>1. /\ L \in Nat /\ DOMAIN buckets = 1 .. L /\ buckets \in Seq(Bucket)
      /\ \A i \in 1 .. L : buckets[i].at \in 1 .. now
  BY BucketsAre DEF IInv, BucketsTyped
<1>2. PICK m \in 0 .. L :
        /\ K = [i \in 1 .. L - m |-> buckets[m + i]]
        /\ \A i \in 1 .. m : ~(buckets[i].at > Cutoff)
        /\ \A i \in m + 1 .. L : buckets[i].at > Cutoff
  BY KeptIs DEF IInv
<1>. DEFINE h == [i \in 1 .. L - m |-> m + i]
            f == CountsOf(K, k)
            g == CountsOf(buckets, k)
            S == During(K, A)
<1>3. K \in Seq(Bucket)
  BY KeptLast DEF Lasting
<1>4. /\ IsFiniteSet(S) /\ \A i \in S : f[i] \in Nat /\ i \in 1 .. L - m
  BY <1>2, <1>3, HeldIsNat DEF During
<1>5. \A i \in 1 .. L - m : h[i] \in m + 1 .. L /\ h[i] \in 1 .. L /\ K[i] = buckets[h[i]]
  BY <1>1, <1>2
<1>6. \A i \in S : g[h[i]] = f[i]
  BY <1>1, <1>2, <1>4, <1>5 DEF CountsOf
<1>7. \A i, j \in S : h[i] = h[j] => i = j
  BY <1>1, <1>4
<1>8. {h[i] : i \in S} = During(buckets, R)
  <2>1. \A i \in S : h[i] \in During(buckets, R)
    BY <1>1, <1>2, <1>4, <1>5 DEF During
  <2>2. ASSUME NEW j \in During(buckets, R) PROVE \E i \in S : h[i] = j
    <3>1. j \in 1 .. L /\ buckets[j].at \in A /\ buckets[j].at > Cutoff
      BY <1>1, <2>2 DEF During
    <3>2. j \in m + 1 .. L
      BY <1>1, <1>2, <3>1
    <3>3. j - m \in 1 .. L - m /\ m + (j - m) = j
      BY <1>1, <3>2
    <3>4. j - m \in S /\ h[j - m] = j
      BY <1>2, <3>1, <3>3 DEF During
    <3>. QED  BY <3>4
  <2>. HIDE DEF h, S, R
  <2>. QED  BY <2>1, <2>2
<1>. HIDE DEF h, f, g, S, R
<1>9. SumFunctionOnSet(f, S) = SumFunctionOnSet(g, {h[i] : i \in S})
  <2>1. IsFiniteSet(S)
    BY <1>4
  <2>2. \A i \in S : f[i] \in Nat /\ g[h[i]] = f[i]
    BY <1>4, <1>6
  <2>3. \A i, j \in S : h[i] = h[j] => i = j
    BY <1>7
  <2>. QED  BY <2>1, <2>2, <2>3, SumRenames
<1>. QED  BY <1>8, <1>9 DEF Held, f, g, S, R, K

LEMMA OneIs == ASSUME NEW k \in Kinds PROVE One(k) \in Counts /\ One(k)[k] = 1
                 /\ \A l \in Kinds \ {k} : One(k)[l] = 0
  BY DEF One, NoCounts, Counts

LEMMA CountsMore ==
  ASSUME NEW c \in Counts, NEW k \in Kinds
  PROVE  /\ [c EXCEPT ![k] = @ + 1] \in Counts /\ [c EXCEPT ![k] = @ + 1][k] = c[k] + 1
         /\ \A l \in Kinds \ {k} : [c EXCEPT ![k] = @ + 1][l] = c[l]
  BY DEF Counts

\* The bucket a packet is counted in is the last one, n, and no other changes.
LEMMA CountedIs ==
  ASSUME RestTyped, NEW bs, Lasting(bs), NEW k \in Kinds
  PROVE  \E n \in {Len(bs), Len(bs) + 1} :
           /\ n \in Nat \ {0} /\ CountedIn(bs, k) \in Seq(Bucket) /\ Len(CountedIn(bs, k)) = n
           /\ \A i \in 1 .. n - 1 : CountedIn(bs, k)[i] = bs[i]
           /\ CountedIn(bs, k)[n].at = now
           /\ n = Len(bs) => bs[n].at = now
           /\ n # Len(bs) => \A i \in 1 .. Len(bs) : bs[i].at < now
           /\ \A l \in Kinds :
                CountedIn(bs, k)[n].counts[l] =
                  (IF n = Len(bs) THEN bs[n].counts[l] ELSE 0) + (IF l = k THEN 1 ELSE 0)
<1>. DEFINE L == Len(bs)
            c == CountedIn(bs, k)
<1>1. /\ bs \in Seq(Bucket) /\ L \in Nat /\ DOMAIN bs = 1 .. L /\ now \in Nat
      /\ \A i \in 1 .. L : bs[i] \in Bucket
  BY SeqIs DEF Lasting, RestTyped
<1>2. CASE bs # <<>> /\ Last(bs).at = now
  <2>1. L \in 1 .. L /\ bs[L].at = now
    BY <1>1, <1>2 DEF Last
  <2>. DEFINE b == bs[L]
              new == [b EXCEPT !.counts[k] = @ + 1]
              more == [b.counts EXCEPT ![k] = @ + 1]
  <2>2. c = [bs EXCEPT ![L] = new]
    BY <1>2 DEF CountedIn
  <2>3. b \in Bucket /\ b.counts \in Counts /\ b.at = now
    BY <1>1, <2>1 DEF Bucket
  <2>4. new = [b EXCEPT !.counts = more]
    BY Zenon
  <2>5. /\ more \in Counts /\ more[k] = b.counts[k] + 1
        /\ \A l \in Kinds \ {k} : more[l] = b.counts[l]
    BY <2>3, CountsMore
  <2>6. \A l \in Kinds : b.counts[l] \in Nat
    BY <2>3 DEF Counts
  <2>. HIDE DEF more
  <2>7. new \in Bucket /\ new.at = now /\ new.counts = more
    BY <2>3, <2>4, <2>5 DEF Bucket
  <2>. HIDE DEF new, b
  <2>8. /\ c \in Seq(Bucket) /\ Len(c) = L /\ c[L] = new
        /\ \A i \in 1 .. L - 1 : c[i] = bs[i]
    BY <1>1, <2>1, <2>2, <2>7
  <2>9. \A l \in Kinds : c[L].counts[l] = bs[L].counts[l] + (IF l = k THEN 1 ELSE 0)
    BY <2>5, <2>6, <2>7, <2>8 DEF b
  <2>10. L \in Nat \ {0} /\ L \in {Len(bs), Len(bs) + 1}
    BY <1>1, <2>1
  <2>11. c[L].at = now /\ bs[L].at = now
    BY <2>1, <2>7, <2>8
  <2>. HIDE DEF c
  <2>. QED  BY <2>8, <2>9, <2>10, <2>11 DEF L, c
<1>3. CASE ~(bs # <<>> /\ Last(bs).at = now)
  <2>. DEFINE new == [at |-> now, counts |-> One(k)]
              n == L + 1
  <2>1. c = Append(bs, new)
    BY <1>3 DEF CountedIn
  <2>2. new \in Bucket /\ new.at = now /\ new.counts = One(k)
    BY <1>1, OneIs DEF Bucket
  <2>. HIDE DEF new
  <2>3. /\ c \in Seq(Bucket) /\ Len(c) = n /\ c[n] = new
        /\ \A i \in 1 .. n - 1 : c[i] = bs[i]
    BY <1>1, <2>1, <2>2
  <2>4. \A l \in Kinds : c[n].counts[l] = IF l = k THEN 1 ELSE 0
    BY <2>2, <2>3, OneIs
  <2>5. n \in Nat \ {0} /\ n # Len(bs) /\ n \in {Len(bs), Len(bs) + 1} /\ c[n].at = now
    <3>1. c[n].at = now
      BY <2>2, <2>3
    <3>2. L \in Nat
      BY <1>1
    <3>. HIDE DEF L
    <3>3. n \in Nat \ {0} /\ n # L /\ n \in {L, L + 1}
      BY <3>2
    <3>. QED  BY <3>1, <3>3 DEF L
  <2>6. \A l \in Kinds : c[n].counts[l] = 0 + (IF l = k THEN 1 ELSE 0)
    BY <2>4
  <2>7. \A i \in 1 .. L : bs[i].at < now
    <3>1. /\ \A i \in 1 .. L : bs[i].at \in Nat /\ bs[i].at <= now
          /\ \A i, j \in 1 .. L : i < j => bs[i].at < bs[j].at
      BY <1>1 DEF Lasting
    <3>2. ASSUME NEW i \in 1 .. L PROVE bs[i].at < now
      <4>1. L \in 1 .. L /\ bs[L].at # now
        BY <1>1, <1>3 DEF Last
      <4>2. CASE i = L
        BY <1>1, <3>1, <4>1, <4>2
      <4>3. CASE i # L
        <5>1. i < L
          <6>1. L \in Nat
            BY <1>1
          <6>. HIDE DEF L
          <6>. QED  BY <4>3, <6>1
        <5>2. bs[i].at < bs[L].at
          BY <3>1, <4>1, <5>1
        <5>3. bs[i].at \in Nat /\ bs[L].at \in Nat /\ bs[L].at <= now
          BY <3>1, <4>1
        <5>. QED  BY <1>1, <5>2, <5>3
      <4>. QED  BY <4>2, <4>3
    <3>. QED  BY <3>2
  <2>. HIDE DEF c, n
  <2>. QED  BY <2>3, <2>5, <2>6, <2>7 DEF c, L
<1>. QED  BY <1>2, <1>3

LEMMA CountedLasts ==
  ASSUME RestTyped, NEW bs, Lasting(bs), NEW k \in Kinds
  PROVE  Lasting(CountedIn(bs, k))
<1>. DEFINE c == CountedIn(bs, k)
<1>1. PICK n \in {Len(bs), Len(bs) + 1} :
        /\ n \in Nat \ {0} /\ c \in Seq(Bucket) /\ Len(c) = n
        /\ \A i \in 1 .. n - 1 : c[i] = bs[i]
        /\ c[n].at = now
        /\ n = Len(bs) => bs[n].at = now
        /\ n # Len(bs) => \A i \in 1 .. Len(bs) : bs[i].at < now
  BY CountedIs
<1>2. /\ Len(bs) \in Nat
      /\ \A i \in 1 .. Len(bs) : bs[i].at \in 1 .. now /\ now - bs[i].at < Window
      /\ \A i, j \in 1 .. Len(bs) : i < j => bs[i].at < bs[j].at
  BY SeqIs DEF Lasting
<1>3. now \in 1 .. now /\ now \in Nat /\ now - now < Window
  BY CountersAssumption DEF RestTyped
<1>4. bs \in Seq(Bucket) /\ \A i \in 1 .. n - 1 : i \in 1 .. Len(bs)
  BY <1>1, <1>2 DEF Lasting
<1>. HIDE DEF c
<1>5. \A i \in 1 .. n : c[i].at \in 1 .. now /\ now - c[i].at < Window
  <2>. SUFFICES ASSUME NEW i \in 1 .. n PROVE c[i].at \in 1 .. now /\ now - c[i].at < Window
    OBVIOUS
  <2>1. CASE i = n
    BY <1>1, <1>3, <2>1
  <2>2. CASE i # n
    <3>1. i \in 1 .. n - 1
      BY <1>1, <2>2
    <3>. QED  BY <1>1, <1>2, <1>4, <3>1
  <2>. QED  BY <2>1, <2>2
<1>6. ASSUME NEW i \in 1 .. n, NEW j \in 1 .. n, i < j PROVE c[i].at < c[j].at
  <2>1. i \in 1 .. n - 1 /\ c[i] = bs[i] /\ i \in 1 .. Len(bs)
    BY <1>1, <1>4, <1>6
  <2>2. CASE j = n
    <3>1. n = Len(bs) => n \in 1 .. Len(bs)
      BY <1>1
    <3>2. CASE n = Len(bs)
      BY <1>1, <1>2, <1>6, <2>1, <2>2, <3>1, <3>2
    <3>3. CASE n # Len(bs)
      BY <1>1, <2>1, <2>2, <3>3
    <3>. QED  BY <3>2, <3>3
  <2>3. CASE j # n
    <3>1. j \in 1 .. n - 1 /\ c[j] = bs[j] /\ j \in 1 .. Len(bs)
      BY <1>1, <1>4, <2>3
    <3>. QED  BY <1>2, <1>6, <2>1, <3>1
  <2>. QED  BY <2>2, <2>3
<1>. QED  BY <1>1, <1>5, <1>6 DEF Lasting, c

LEMMA CountedHolds ==
  ASSUME RestTyped, NEW bs, Lasting(bs), NEW k \in Kinds, NEW l \in Kinds, NEW A
  PROVE  Held(CountedIn(bs, k), l, A) = Held(bs, l, A) + (IF l = k /\ now \in A THEN 1 ELSE 0)
<1>. DEFINE c == CountedIn(bs, k)
            f == CountsOf(bs, l)
            g == CountsOf(c, l)
            S == During(bs, A)
            one == IF l = k THEN 1 ELSE 0
<1>1. PICK n \in {Len(bs), Len(bs) + 1} :
        /\ n \in Nat \ {0} /\ c \in Seq(Bucket) /\ Len(c) = n
        /\ \A i \in 1 .. n - 1 : c[i] = bs[i]
        /\ c[n].at = now
        /\ n = Len(bs) => bs[n].at = now
        /\ c[n].counts[l] = (IF n = Len(bs) THEN bs[n].counts[l] ELSE 0) + one
  BY CountedIs
<1>2. bs \in Seq(Bucket) /\ Len(bs) \in Nat /\ DOMAIN bs = 1 .. Len(bs)
  BY SeqIs DEF Lasting
<1>3. IsFiniteSet(S) /\ \A i \in S : f[i] \in Nat /\ i \in 1 .. Len(bs)
  BY <1>2, HeldIsNat DEF During
<1>4. /\ DOMAIN c = 1 .. n
      /\ \A i \in DOMAIN c : g[i] \in Nat
  BY <1>1, SeqIs, HeldIsNat
<1>5. Held(bs, l, A) \in Nat
  BY <1>2, HeldIsNat
<1>. HIDE DEF c
<1>6. \A i \in 1 .. Len(bs) : f[i] = bs[i].counts[l]
  BY <1>2 DEF CountsOf
<1>7. \A i \in 1 .. n : g[i] = c[i].counts[l]
  BY <1>4 DEF CountsOf
<1>8. /\ \A i \in 1 .. Len(bs) : i # n => i \in 1 .. n - 1 /\ i \in 1 .. n
      /\ \A i \in 1 .. n : i = n \/ (i \in 1 .. n - 1 /\ i \in 1 .. Len(bs))
      /\ n \in 1 .. n /\ (n \in 1 .. Len(bs) <=> n = Len(bs))
  <2>. DEFINE L == Len(bs)
  <2>1. L \in Nat /\ n \in {L, L + 1} /\ n \in Nat \ {0}
    BY <1>1, <1>2
  <2>. HIDE DEF L
  <2>2. /\ \A i \in 1 .. L : i # n => i \in 1 .. n - 1 /\ i \in 1 .. n
        /\ \A i \in 1 .. n : i = n \/ (i \in 1 .. n - 1 /\ i \in 1 .. L)
        /\ n \in 1 .. n /\ (n \in 1 .. L <=> n = L)
    BY <2>1
  <2>. QED  BY <2>2 DEF L
<1>9. \A i \in S \ {n} : g[i] = f[i]
  BY <1>1, <1>3, <1>6, <1>7, <1>8
<1>10. CASE now \in A
  <2>1. During(c, A) = S \cup {n}
    <3>1. n \in DOMAIN c /\ c[n].at \in A
      BY <1>1, <1>4, <1>10
    <3>2. \A i \in DOMAIN c : i = n \/ (i \in 1 .. n - 1 /\ i \in DOMAIN bs)
      BY <1>2, <1>4, <1>8
    <3>3. \A i \in S : i # n => i \in DOMAIN c /\ c[i] = bs[i]
      BY <1>1, <1>3, <1>4, <1>8
    <3>. QED  BY <1>1, <3>1, <3>2, <3>3 DEF During
  <2>2. g[n] \in Nat
    BY <1>1, <1>4
  <2>. HIDE DEF f, g, S, one
  <2>3. SumFunctionOnSet(g, S \cup {n}) =
          g[n] + (SumFunctionOnSet(f, S) - (IF n \in S THEN f[n] ELSE 0))
    BY <1>3, <1>9, <2>2, SumChanges
  <2>4. n \in S <=> n = Len(bs)
    <3>1. n \in S => n \in 1 .. Len(bs)
      BY <1>2 DEF S, During
    <3>2. n = Len(bs) => n \in DOMAIN bs /\ bs[n].at \in A
      BY <1>1, <1>2, <1>8, <1>10
    <3>. QED  BY <1>8, <3>1, <3>2 DEF S, During
  <2>5. g[n] = (IF n \in S THEN f[n] ELSE 0) + one
    <3>1. n \in 1 .. n /\ (n = Len(bs) => n \in 1 .. Len(bs))
      BY <1>1
    <3>. QED  BY <1>1, <1>6, <1>7, <2>4, <3>1
  <2>6. (IF n \in S THEN f[n] ELSE 0) \in Nat /\ one \in Nat /\ SumFunctionOnSet(f, S) \in Nat
    BY <1>3, <1>5 DEF one, Held, f, S
  <2>7. SumFunctionOnSet(g, S \cup {n}) = SumFunctionOnSet(f, S) + one
    BY <2>3, <2>5, <2>6
  <2>. QED  BY <1>10, <2>1, <2>7 DEF Held, f, g, S, one, c
<1>11. CASE now \notin A
  <2>1. During(c, A) = S
    <3>1. c[n].at \notin A
      BY <1>1, <1>11
    <3>2. n \notin S
      BY <1>1, <1>2, <1>8, <1>11 DEF During
    <3>3. \A i \in DOMAIN c : i = n \/ (i \in 1 .. n - 1 /\ i \in DOMAIN bs)
      BY <1>2, <1>4, <1>8
    <3>4. \A i \in S : i # n => i \in DOMAIN c /\ c[i] = bs[i]
      BY <1>1, <1>3, <1>4, <1>8
    <3>. QED  BY <1>1, <3>1, <3>2, <3>3, <3>4 DEF During
  <2>2. n \notin S
    BY <1>1, <1>2, <1>8, <1>11 DEF During
  <2>3. \A i \in S : f[i] \in Nat /\ f[i] = g[i]
    BY <1>3, <1>9, <2>2
  <2>. HIDE DEF f, g, S
  <2>4. SumFunctionOnSet(f, S) = SumFunctionOnSet(g, S)
    BY <1>3, <2>3, SumSame
  <2>5. Held(c, l, A) = Held(bs, l, A)
    BY <2>1, <2>4 DEF Held, f, g, S
  <2>. QED  BY <1>5, <1>11, <2>5 DEF c
<1>. QED  BY <1>10, <1>11

-----------------------------------------------------------------------------
(***************************************************************************)
(* Flows, and what they hold of the packets of those heard in some seconds  *)
(***************************************************************************)

Had(fs, f, k) == IF f \in DOMAIN fs THEN fs[f].counts[k] ELSE 0

LEMMA FlowSumIsNat ==
  ASSUME NEW fs, FlowsAre(fs), NEW k \in Kinds, NEW A
  PROVE  /\ IsFiniteSet(HeardIn(fs, A)) /\ HeardIn(fs, A) \subseteq DOMAIN fs
         /\ \A f \in DOMAIN fs : fs[f].counts \in Counts /\ fs[f].counts[k] \in Nat
         /\ \A f \in DOMAIN fs : FlowCounts(fs, k)[f] = fs[f].counts[k]
         /\ FlowSum(fs, k, A) \in Nat
<1>1. HeardIn(fs, A) \subseteq DOMAIN fs
  BY DEF HeardIn
<1>2. IsFiniteSet(HeardIn(fs, A))
  BY <1>1, FS_Subset DEF FlowsAre
<1>3. \A e \in Entry : e.counts \in Counts /\ e.counts[k] \in Nat
  BY DEF Entry, Counts
<1>4. \A f \in DOMAIN fs : fs[f].counts \in Counts /\ fs[f].counts[k] \in Nat
  BY <1>3 DEF FlowsAre
<1>5. \A f \in DOMAIN fs : FlowCounts(fs, k)[f] = fs[f].counts[k]
  BY DEF FlowCounts
<1>6. \A f \in HeardIn(fs, A) : FlowCounts(fs, k)[f] \in Nat
  BY <1>1, <1>4, <1>5
<1>. QED  BY <1>1, <1>2, <1>4, <1>5, <1>6, SumIsNat DEF FlowSum

LEMMA KeptFlowsAre ==
  ASSUME FlowsTyped
  PROVE  /\ FlowsAre(KeptFlows)
         /\ DOMAIN KeptFlows = {f \in DOMAIN flows : flows[f].last > Cutoff}
         /\ \A f \in DOMAIN KeptFlows : KeptFlows[f] = flows[f]
<1>1. /\ DOMAIN KeptFlows = {f \in DOMAIN flows : flows[f].last > Cutoff}
      /\ \A f \in DOMAIN KeptFlows : KeptFlows[f] = flows[f]
  BY DEF KeptFlows
<1>2. DOMAIN KeptFlows \subseteq DOMAIN flows
  BY <1>1
<1>3. IsFiniteSet(DOMAIN KeptFlows)
  BY <1>2, FS_Subset DEF FlowsTyped, FlowsAre
<1>. QED  BY <1>1, <1>2, <1>3 DEF FlowsTyped, FlowsAre

LEMMA KeptFlowSum ==
  ASSUME FlowsTyped, NEW k \in Kinds, NEW A
  PROVE  FlowSum(KeptFlows, k, A) = FlowSum(flows, k, {t \in A : t > Cutoff})
<1>. DEFINE R == {t \in A : t > Cutoff}
            c == FlowCounts(KeptFlows, k)
            d == FlowCounts(flows, k)
            S == HeardIn(KeptFlows, A)
<1>1. S = HeardIn(flows, R)
  BY KeptFlowsAre DEF HeardIn
<1>2. IsFiniteSet(S) /\ \A f \in S : c[f] \in Nat /\ c[f] = KeptFlows[f].counts[k]
  BY KeptFlowsAre, FlowSumIsNat
<1>3. \A f \in S : f \in DOMAIN flows /\ KeptFlows[f] = flows[f]
  BY KeptFlowsAre DEF HeardIn
<1>4. \A f \in DOMAIN flows : d[f] = flows[f].counts[k]
  BY FlowSumIsNat DEF FlowsTyped
<1>5. \A f \in S : c[f] \in Nat /\ c[f] = d[f]
  BY <1>2, <1>3, <1>4
<1>. HIDE DEF c, d, S
<1>6. SumFunctionOnSet(c, S) = SumFunctionOnSet(d, S)
  BY <1>2, <1>5, SumSame
<1>. QED  BY <1>1, <1>6 DEF FlowSum, c, d, S

LEMMA OnFlowIs ==
  ASSUME RestTyped, NEW fs, FlowsAre(fs), NEW k \in Kinds, NEW f \in Flows
  PROVE  /\ FlowsAre(OnFlow(fs, k, f)) /\ DOMAIN OnFlow(fs, k, f) = DOMAIN fs \cup {f}
         /\ \A g \in DOMAIN fs \ {f} : OnFlow(fs, k, f)[g] = fs[g]
         /\ OnFlow(fs, k, f)[f].last = now
         /\ \A l \in Kinds :
              OnFlow(fs, k, f)[f].counts[l] =
                Had(fs, f, l) + (IF l = k THEN 1 ELSE 0)
<1>. DEFINE before == IF f \in DOMAIN fs THEN fs[f].counts ELSE NoCounts
            more == [before EXCEPT ![k] = @ + 1]
            new == [counts |-> more, last |-> now]
            gs == OnFlow(fs, k, f)
<1>1. gs = [g \in DOMAIN fs \cup {f} |-> IF g = f THEN new ELSE fs[g]]
  BY DEF OnFlow
<1>2. before \in Counts
  <2>1. NoCounts \in Counts
    BY DEF NoCounts, Counts
  <2>. QED  BY <2>1, FlowSumIsNat
<1>3. \A l \in Kinds : before[l] = Had(fs, f, l)
  BY DEF NoCounts, Had
<1>4. /\ more \in Counts
      /\ \A l \in Kinds : more[l] = before[l] + (IF l = k THEN 1 ELSE 0)
  <2>. HIDE DEF before
  <2>1. /\ more \in Counts /\ more[k] = before[k] + 1
        /\ \A l \in Kinds \ {k} : more[l] = before[l]
    BY <1>2, CountsMore
  <2>2. \A l \in Kinds : before[l] \in Nat
    BY <1>2 DEF Counts
  <2>. QED  BY <2>1, <2>2
<1>. HIDE DEF before, more
<1>5. new.counts = more /\ new.last = now /\ new \in Entry /\ now \in 1 .. now
  BY <1>4 DEF Entry, RestTyped
<1>. HIDE DEF new, gs
<1>6. /\ DOMAIN gs = DOMAIN fs \cup {f} /\ gs[f] = new
      /\ \A g \in DOMAIN fs \ {f} : gs[g] = fs[g]
  BY <1>1
<1>7. IsFiniteSet(DOMAIN gs)
  BY <1>6, FS_AddElement DEF FlowsAre
<1>8. FlowsAre(gs)
  BY <1>5, <1>6, <1>7 DEF FlowsAre
<1>. QED  BY <1>3, <1>4, <1>5, <1>6, <1>8 DEF gs

LEMMA OnFlowSum ==
  ASSUME RestTyped, NEW fs, FlowsAre(fs), NEW k \in Kinds, NEW f \in Flows, NEW l \in Kinds,
         NEW A, now \in A
  PROVE  FlowSum(fs, l, A) + (IF l = k THEN 1 ELSE 0) <= FlowSum(OnFlow(fs, k, f), l, A)
<1>. DEFINE gs == OnFlow(fs, k, f)
            c == FlowCounts(fs, l)
            d == FlowCounts(gs, l)
            S == HeardIn(fs, A)
            one == IF l = k THEN 1 ELSE 0
            old == Had(fs, f, l)
<1>1. /\ FlowsAre(gs) /\ DOMAIN gs = DOMAIN fs \cup {f}
      /\ \A g \in DOMAIN fs \ {f} : gs[g] = fs[g]
      /\ gs[f].last = now /\ gs[f].counts[l] = old + one
  <2>1. \A m \in Kinds : gs[f].counts[m] = Had(fs, f, m) + (IF m = k THEN 1 ELSE 0)
    BY OnFlowIs
  <2>2. /\ FlowsAre(gs) /\ DOMAIN gs = DOMAIN fs \cup {f}
        /\ \A g \in DOMAIN fs \ {f} : gs[g] = fs[g]
        /\ gs[f].last = now
    BY OnFlowIs
  <2>. HIDE DEF gs
  <2>. QED  BY <2>1, <2>2
<1>. HIDE DEF gs
<1>2. /\ IsFiniteSet(S) /\ S \subseteq DOMAIN fs /\ FlowSum(fs, l, A) \in Nat
      /\ \A g \in DOMAIN fs : c[g] = fs[g].counts[l] /\ c[g] \in Nat
  BY FlowSumIsNat
<1>3. \A g \in DOMAIN gs : d[g] = gs[g].counts[l] /\ d[g] \in Nat
  BY <1>1, FlowSumIsNat
<1>4. HeardIn(gs, A) = S \cup {f}
  BY <1>1 DEF HeardIn
<1>5. \A g \in S \ {f} : d[g] = c[g]
  BY <1>1, <1>2, <1>3
<1>6. d[f] \in Nat /\ d[f] = old + one
  BY <1>1, <1>3
<1>7. old \in Nat /\ one \in Nat /\ (f \in S => old = c[f])
  BY <1>2 DEF Had
<1>. HIDE DEF c, d, S, one, old
<1>8. \A g \in S : c[g] \in Nat
  BY <1>2
<1>9. SumFunctionOnSet(d, S \cup {f}) =
        d[f] + (SumFunctionOnSet(c, S) - (IF f \in S THEN c[f] ELSE 0))
  <2>1. IsFiniteSet(S) /\ d[f] \in Nat
    BY <1>2, <1>6
  <2>. QED  BY <1>5, <1>8, <2>1, SumChanges
<1>10. SumFunctionOnSet(c, S) \in Nat
  BY <1>2 DEF FlowSum, c, S
<1>11. SumFunctionOnSet(c, S) + one <= SumFunctionOnSet(d, S \cup {f})
  BY <1>6, <1>7, <1>9, <1>10
<1>. QED  BY <1>4, <1>11 DEF FlowSum, c, d, S, one, gs

-----------------------------------------------------------------------------
(***************************************************************************)
(* The flows account for the window, through expire and through add         *)
(***************************************************************************)

LEMMA KeptCovers ==
  ASSUME IInv
  PROVE  Covers(KeptBuckets, KeptFlows)
<1>. SUFFICES ASSUME NEW T \in Nat, NEW k \in Kinds
     PROVE  Held(KeptBuckets, k, After(T)) <= FlowSum(KeptFlows, k, After(T))
  BY DEF Covers
<1>. DEFINE R == {t \in After(T) : t > Cutoff}
            U == IF T > Cutoff THEN T ELSE Cutoff
<1>1. Cutoff \in Nat
  BY CutoffIs DEF IInv, RestTyped
<1>2. U \in Nat /\ R = After(U)
  BY <1>1 DEF After
<1>. HIDE DEF U
<1>3. Held(buckets, k, R) <= FlowSum(flows, k, R)
  BY <1>2 DEF IInv, Accounted, Covers
<1>4. Held(KeptBuckets, k, After(T)) = Held(buckets, k, R)
  BY KeptHolds
<1>5. FlowSum(KeptFlows, k, After(T)) = FlowSum(flows, k, R)
  BY KeptFlowSum DEF IInv
<1>. QED  BY <1>3, <1>4, <1>5

LEMMA KeptBacks ==
  ASSUME IInv
  PROVE  Backed(KeptBuckets, KeptFlows)
<1>. DEFINE L == Len(buckets)
            K == KeptBuckets
<1>. SUFFICES ASSUME NEW f \in DOMAIN KeptFlows
     PROVE  \E i \in DOMAIN K, k \in Kinds :
              K[i].at = KeptFlows[f].last /\ K[i].counts[k] > 0 /\ KeptFlows[f].counts[k] > 0
  BY DEF Backed
<1>1. f \in DOMAIN flows /\ flows[f].last > Cutoff /\ KeptFlows[f] = flows[f]
  BY KeptFlowsAre DEF IInv
<1>2. PICK j \in DOMAIN buckets, k \in Kinds :
        buckets[j].at = flows[f].last /\ buckets[j].counts[k] > 0 /\ flows[f].counts[k] > 0
  BY <1>1 DEF IInv, Accounted, Backed
<1>3. L \in Nat /\ DOMAIN buckets = 1 .. L
  BY BucketsAre DEF IInv
<1>4. PICK m \in 0 .. L :
        /\ K = [i \in 1 .. L - m |-> buckets[m + i]]
        /\ \A i \in 1 .. m : ~(buckets[i].at > Cutoff)
  BY KeptIs DEF IInv
<1>5. j \notin 1 .. m
  BY <1>1, <1>2, <1>4
<1>. HIDE DEF L, K
<1>6. j - m \in 1 .. L - m /\ m + (j - m) = j
  BY <1>2, <1>3, <1>4, <1>5
<1>7. j - m \in DOMAIN K /\ K[j - m] = buckets[j]
  BY <1>4, <1>6
<1>. QED  BY <1>1, <1>2, <1>7

LEMMA AddCovers ==
  ASSUME RestTyped, NEW bs, Lasting(bs), NEW fs, FlowsAre(fs), Covers(bs, fs),
         NEW k \in Kinds, NEW f \in Flows
  PROVE  Covers(CountedIn(bs, k), OnFlow(fs, k, f))
<1>. DEFINE cs == CountedIn(bs, k)
            gs == OnFlow(fs, k, f)
<1>. SUFFICES ASSUME NEW T \in Nat, NEW l \in Kinds
     PROVE  Held(cs, l, After(T)) <= FlowSum(gs, l, After(T))
  BY DEF Covers
<1>. DEFINE one == IF l = k THEN 1 ELSE 0
<1>1. /\ Held(bs, l, After(T)) \in Nat /\ FlowSum(fs, l, After(T)) \in Nat
      /\ Held(bs, l, After(T)) <= FlowSum(fs, l, After(T))
  BY HeldIsNat, FlowSumIsNat DEF Covers, Lasting
<1>2. FlowsAre(gs) /\ FlowSum(gs, l, After(T)) \in Nat
  <2>1. FlowsAre(gs)
    BY OnFlowIs
  <2>. HIDE DEF gs
  <2>. QED  BY <2>1, FlowSumIsNat
<1>3. CASE now \in After(T)
  <2>1. Held(cs, l, After(T)) = Held(bs, l, After(T)) + one
    BY <1>3, CountedHolds
  <2>2. FlowSum(fs, l, After(T)) + one <= FlowSum(gs, l, After(T))
    BY <1>3, OnFlowSum
  <2>3. one \in Nat
    OBVIOUS
  <2>. HIDE DEF cs, gs, one
  <2>. QED  BY <1>1, <1>2, <2>1, <2>2, <2>3
<1>4. CASE now \notin After(T)
  <2>1. Lasting(cs)
    BY CountedLasts
  <2>. HIDE DEF cs, gs
  <2>2. \A i \in DOMAIN cs : cs[i].at \in Nat /\ cs[i].at <= now
    BY <2>1, SeqIs DEF Lasting, RestTyped
  <2>3. \A t \in Nat : t <= now => t \notin After(T)
    BY <1>4 DEF After, RestTyped
  <2>4. During(cs, After(T)) = {}
    BY <2>2, <2>3 DEF During
  <2>5. Held(cs, l, After(T)) = 0
    BY <2>4, SumOfNone DEF Held
  <2>. QED  BY <1>2, <2>5
<1>. QED  BY <1>3, <1>4

LEMMA AddBacks ==
  ASSUME RestTyped, NEW bs, Lasting(bs), NEW fs, FlowsAre(fs), Backed(bs, fs),
         NEW k \in Kinds, NEW f \in Flows
  PROVE  Backed(CountedIn(bs, k), OnFlow(fs, k, f))
<1>. DEFINE cs == CountedIn(bs, k)
            gs == OnFlow(fs, k, f)
<1>1. PICK n \in {Len(bs), Len(bs) + 1} :
        /\ n \in Nat \ {0} /\ cs \in Seq(Bucket) /\ Len(cs) = n
        /\ \A i \in 1 .. n - 1 : cs[i] = bs[i]
        /\ cs[n].at = now
        /\ n = Len(bs) => bs[n].at = now
        /\ \A l \in Kinds :
             cs[n].counts[l] =
               (IF n = Len(bs) THEN bs[n].counts[l] ELSE 0) + (IF l = k THEN 1 ELSE 0)
  BY CountedIs
<1>2. /\ DOMAIN gs = DOMAIN fs \cup {f} /\ gs[f].last = now
      /\ \A g \in DOMAIN fs \ {f} : gs[g] = fs[g]
  BY OnFlowIs
<1>3. \A l \in Kinds : gs[f].counts[l] = Had(fs, f, l) + (IF l = k THEN 1 ELSE 0)
  BY OnFlowIs
<1>4. Had(fs, f, k) \in Nat
  BY FlowSumIsNat DEF Had
<1>5. DOMAIN bs = 1 .. Len(bs) /\ Len(bs) \in Nat /\ \A i \in 1 .. Len(bs) : bs[i] \in Bucket
  BY SeqIs DEF Lasting
<1>6. \A b \in Bucket, l \in Kinds : b.counts[l] \in Nat
  BY DEF Bucket, Counts
<1>7. DOMAIN cs = 1 .. n /\ n \in DOMAIN cs
  BY <1>1, SeqIs
<1>8. n = Len(bs) => \A l \in Kinds : bs[n].counts[l] \in Nat
  BY <1>1, <1>5, <1>6
<1>. HIDE DEF cs, gs
<1>9. cs[n].counts[k] > 0 /\ gs[f].counts[k] > 0
  BY <1>1, <1>3, <1>4, <1>8
<1>10. ASSUME NEW g \in DOMAIN fs, g # f
       PROVE  \E i \in DOMAIN cs, l \in Kinds :
                cs[i].at = gs[g].last /\ cs[i].counts[l] > 0 /\ gs[g].counts[l] > 0
  <2>1. PICK i \in DOMAIN bs, l \in Kinds :
          bs[i].at = fs[g].last /\ bs[i].counts[l] > 0 /\ fs[g].counts[l] > 0
    BY DEF Backed
  <2>2. gs[g] = fs[g]
    BY <1>2, <1>10
  <2>3. CASE i = n
    <3>1. n = Len(bs)
      <4>. DEFINE L == Len(bs)
      <4>1. L \in Nat /\ n \in {L, L + 1} /\ n \in 1 .. L
        BY <1>1, <1>5, <2>1, <2>3
      <4>. HIDE DEF L
      <4>2. n = L
        BY <4>1
      <4>. QED  BY <4>2 DEF L
    <3>2. cs[n].counts[l] > 0
      BY <1>1, <1>8, <2>1, <2>3, <3>1
    <3>3. cs[n].at = bs[n].at
      BY <1>1, <3>1
    <3>. QED  BY <1>7, <2>1, <2>2, <2>3, <3>2, <3>3
  <2>4. CASE i # n
    <3>1. i \in 1 .. n - 1 /\ i \in 1 .. n
      BY <1>1, <1>5, <2>1, <2>4
    <3>. QED  BY <1>1, <1>7, <2>1, <2>2, <3>1
  <2>. QED  BY <2>3, <2>4
<1>. QED  BY <1>1, <1>2, <1>7, <1>9, <1>10 DEF Backed, cs, gs

-----------------------------------------------------------------------------
(***************************************************************************)
(* The invariant holds                                                      *)
(***************************************************************************)

LEMMA Starts == Init => IInv
<1>. SUFFICES ASSUME Init PROVE IInv
  OBVIOUS
<1>. USE DEF Init, InitStore
<1>1. NoCounts \in Counts
  BY DEF NoCounts, Counts
<1>2. RestTyped
  BY <1>1, CountersAssumption DEF RestTyped
<1>3. BucketsTyped /\ Sorted /\ Narrow /\ DOMAIN buckets = {}
  BY DEF BucketsTyped, Sorted, Narrow
<1>4. FlowsTyped /\ DOMAIN flows = {}
  BY FS_EmptySet DEF FlowsTyped, FlowsAre
<1>5. Covers(buckets, flows)
  <2>1. \A A : During(buckets, A) = {} /\ HeardIn(flows, A) = {}
    BY <1>3, <1>4 DEF During, HeardIn
  <2>2. \A k, A : Held(buckets, k, A) = 0 /\ FlowSum(flows, k, A) = 0
    BY <2>1, SumOfNone DEF Held, FlowSum
  <2>. QED  BY <2>2 DEF Covers
<1>6. Backed(buckets, flows)
  BY <1>4 DEF Backed
<1>. QED  BY <1>2, <1>3, <1>4, <1>5, <1>6 DEF IInv, Accounted

LEMMA LastingMeans ==
  ASSUME RestTyped, now' = now, Lasting(buckets')
  PROVE  BucketsTyped' /\ Sorted' /\ Narrow'
<1>. DEFINE bs == buckets'
<1>1. /\ bs \in Seq(Bucket) /\ DOMAIN bs = 1 .. Len(bs) /\ now \in Nat
      /\ \A i \in DOMAIN bs : bs[i].at \in 1 .. now /\ now - bs[i].at < Window
      /\ \A i, j \in DOMAIN bs : i < j => bs[i].at < bs[j].at
  <2>1. Lasting(bs)
    OBVIOUS
  <2>. HIDE DEF bs
  <2>2. bs \in Seq(Bucket)
    BY <2>1 DEF Lasting
  <2>3. DOMAIN bs = 1 .. Len(bs)
    BY <2>2
  <2>. QED  BY <2>1, <2>2, <2>3 DEF Lasting, RestTyped
<1>. HIDE DEF bs
<1>2. Window \in Nat
  BY CountersAssumption
<1>3. \A i, j \in DOMAIN bs : bs[j].at - bs[i].at < Window
  <2>1. \A x, y \in 1 .. now : now - x < Window => y - x < Window
    BY <1>1, <1>2
  <2>. QED  BY <1>1, <2>1
<1>. QED  BY <1>1, <1>3 DEF BucketsTyped, Sorted, Narrow, bs

\* Whatever a step puts in place of the buckets and the flows, if it lasts and
\* accounts, the invariant holds of it.
LEMMA StorePreserves ==
  ASSUME IInv, now' = now, RestTyped', Lasting(buckets'), FlowsAre(flows'),
         Covers(buckets', flows'), Backed(buckets', flows')
  PROVE  IInv'
<1>1. BucketsTyped' /\ Sorted' /\ Narrow'
  BY LastingMeans DEF IInv
<1>2. FlowsTyped'
  BY DEF FlowsTyped, FlowsAre
<1>3. Accounted'
  BY DEF Accounted, Covers, Backed, Held, During, CountsOf, FlowSum, FlowCounts, HeardIn, After
<1>. QED  BY <1>1, <1>2, <1>3 DEF IInv

LEMMA ExpirePreserves ==
  ASSUME IInv, Expire, now' = now, RestTyped'
  PROVE  IInv'
<1>1. buckets' = KeptBuckets /\ flows' = KeptFlows
  BY DEF Expire
<1>2. Lasting(KeptBuckets) /\ FlowsAre(KeptFlows)
  BY KeptLast, KeptFlowsAre DEF IInv
<1>3. Covers(KeptBuckets, KeptFlows) /\ Backed(KeptBuckets, KeptFlows)
  BY KeptCovers, KeptBacks
<1>4. /\ Lasting(buckets') /\ FlowsAre(flows')
      /\ Covers(buckets', flows') /\ Backed(buckets', flows')
  BY <1>1, <1>2, <1>3
<1>. QED  BY <1>4, StorePreserves

LEMMA SumOfIsHeld ==
  ASSUME NEW bs \in Seq(Bucket), NEW k \in Kinds, NEW A, \A i \in DOMAIN bs : bs[i].at \in A
  PROVE  SumOf(bs, k) = Held(bs, k, A)
<1>1. During(bs, A) = DOMAIN bs
  BY DEF During
<1>2. DOMAIN CountsOf(bs, k) = DOMAIN bs
  BY DEF CountsOf
<1>. QED  BY <1>1, <1>2 DEF SumOf, SumFunction, Held, CountsOf

LEMMA Preserved == IInv /\ [Next]_vars => IInv'
<1>. SUFFICES ASSUME IInv, [Next]_vars PROVE IInv'
  OBVIOUS
<1>0. RestTyped /\ FlowsTyped /\ Lasting(KeptBuckets) /\ FlowsAre(KeptFlows)
  BY KeptLast, KeptFlowsAre DEF IInv
<1>1. CASE Packet
  <2>1. PICK k \in Kinds, f \in Flows : Add(k, f) /\ UNCHANGED <<now, answer, listed>>
    BY <1>1 DEF Packet
  <2>2. /\ buckets' = CountedIn(KeptBuckets, k) /\ flows' = OnFlow(KeptFlows, k, f)
        /\ total' = [total EXCEPT ![k] = @ + 1] /\ now' = now
    BY <2>1 DEF Add
  <2>3. total' \in Counts
    BY <1>0, <2>2, CountsMore DEF RestTyped
  <2>4. RestTyped'
    BY <1>0, <2>1, <2>3 DEF RestTyped
  <2>5. Lasting(CountedIn(KeptBuckets, k)) /\ FlowsAre(OnFlow(KeptFlows, k, f))
    BY <1>0, CountedLasts, OnFlowIs
  <2>6. Covers(KeptBuckets, KeptFlows) /\ Backed(KeptBuckets, KeptFlows)
    BY KeptCovers, KeptBacks
  <2>7. /\ Covers(CountedIn(KeptBuckets, k), OnFlow(KeptFlows, k, f))
        /\ Backed(CountedIn(KeptBuckets, k), OnFlow(KeptFlows, k, f))
    BY <1>0, <2>6, AddCovers, AddBacks
  <2>8. /\ Lasting(buckets') /\ FlowsAre(flows')
        /\ Covers(buckets', flows') /\ Backed(buckets', flows')
    BY <2>2, <2>5, <2>7
  <2>. QED  BY <2>2, <2>4, <2>8, StorePreserves
<1>2. CASE Tick
  <2>1. /\ now' \in 1 .. MaxTime /\ now \in 1 .. MaxTime /\ now <= now'
        /\ UNCHANGED <<buckets, flows, total, answer, listed>>
    <3>1. PICK d \in 1 .. MaxStep : now + d <= MaxTime /\ now' = now + d
      BY <1>2 DEF Tick
    <3>2. now \in 1 .. MaxTime /\ MaxTime \in Nat /\ MaxStep \in Nat
      BY <1>0, CountersAssumption DEF RestTyped
    <3>. QED  BY <1>2, <3>1, <3>2 DEF Tick
  <2>2. \A t \in 1 .. now : t \in 1 .. now'
    BY <2>1
  <2>3. BucketsTyped'
    BY <2>1, <2>2 DEF IInv, BucketsTyped
  <2>4. FlowsTyped'
    BY <2>1, <2>2 DEF IInv, FlowsTyped, FlowsAre
  <2>5. RestTyped' /\ Sorted' /\ Narrow'
    BY <2>1 DEF IInv, RestTyped, Sorted, Narrow
  <2>6. Accounted'
    BY <2>1 DEF IInv, Accounted, Covers, Backed, Held, During, CountsOf, FlowSum, FlowCounts,
                HeardIn, After
  <2>. QED  BY <2>3, <2>4, <2>5, <2>6 DEF IInv
<1>3. CASE AskCounts
  <2>1. /\ Expire /\ UNCHANGED <<now, listed, total>>
        /\ answer' = [k \in Kinds |-> SumOf(KeptBuckets, k)]
    BY <1>3 DEF AskCounts, ReadWindow, Expire
  <2>2. ASSUME NEW k \in Kinds PROVE SumOf(KeptBuckets, k) \in Nat
    <3>1. KeptBuckets \in Seq(Bucket) /\ DOMAIN KeptBuckets = 1 .. Len(KeptBuckets)
      BY <1>0, SeqIs DEF Lasting
    <3>2. \A i \in DOMAIN KeptBuckets : KeptBuckets[i].at \in 1 .. now
      BY <1>0, <3>1 DEF Lasting
    <3>. QED  BY <3>1, <3>2, SumOfIsHeld, HeldIsNat
  <2>3. answer' \in Counts
    BY <2>1, <2>2 DEF Counts
  <2>4. RestTyped'
    BY <1>0, <2>1, <2>3 DEF RestTyped
  <2>. QED  BY <2>1, <2>4, ExpirePreserves
<1>4. CASE AskFlows
  <2>. DEFINE kept == DOMAIN KeptFlows
  <2>1. /\ Expire /\ UNCHANGED <<now, answer, total>>
        /\ listed' \in [1 .. Cardinality(kept) -> kept]
    BY <1>4 DEF AskFlows, ByFlow, Expire
  <2>2. Cardinality(kept) \in Nat /\ kept \subseteq Flows
    BY <1>0, FS_CardinalityType DEF FlowsAre
  <2>. HIDE DEF kept
  <2>3. listed' \in Seq(Flows)
    BY <2>1, <2>2
  <2>4. RestTyped'
    BY <1>0, <2>1, <2>3 DEF RestTyped
  <2>. QED  BY <2>1, <2>4, ExpirePreserves
<1>5. CASE UNCHANGED vars
  BY <1>5 DEF vars, IInv, BucketsTyped, FlowsTyped, FlowsAre, RestTyped, Sorted, Narrow, Accounted,
              Covers, Backed, Held, During, CountsOf, FlowSum, FlowCounts, HeardIn, After
<1>. QED  BY <1>1, <1>2, <1>3, <1>4, <1>5 DEF Next

LEMMA Invariant == Spec => []IInv
  BY Starts, Preserved, PTL DEF Spec

\* Every variable has its shape, and no bucket or flow is stamped later than
\* the clock.
THEOREM CountersTyped == Spec => []TypeOK
<1>1. IInv => TypeOK
  <2>. SUFFICES ASSUME IInv PROVE TypeOK
    OBVIOUS
  <2>1. /\ buckets \in Seq(Bucket) /\ DOMAIN buckets = 1 .. Len(buckets)
        /\ \A i \in DOMAIN buckets : buckets[i].at \in 1 .. now /\ buckets[i] \in Bucket
    BY BucketsAre DEF IInv, BucketsTyped
  <2>. DEFINE Stamped == [at : 1 .. now, counts : [Kinds -> Nat]]
  <2>2. \A b \in Bucket : b.at \in 1 .. now => b \in Stamped
    BY DEF Bucket, Counts
  <2>3. \A i \in 1 .. Len(buckets) : buckets[i] \in Stamped
    BY <2>1, <2>2
  <2>. HIDE DEF Stamped
  <2>4. buckets \in Seq(Stamped)
    BY <2>1, <2>3
  <2>5. \A e \in Entry : e.last \in 1 .. now => e \in [counts : [Kinds -> Nat], last : 1 .. now]
    BY DEF Entry, Counts
  <2>6. /\ DOMAIN flows \subseteq Flows
        /\ \A f \in DOMAIN flows : flows[f] \in [counts : [Kinds -> Nat], last : 1 .. now]
    BY <2>5 DEF IInv, FlowsTyped, FlowsAre
  <2>7. now \in 1 .. MaxTime /\ total \in [Kinds -> Nat] /\ answer \in [Kinds -> Nat]
    BY DEF IInv, RestTyped, Counts
  <2>8. listed \in Seq(Flows)
    BY DEF IInv, RestTyped
  <2>. QED  BY <2>4, <2>6, <2>7, <2>8 DEF TypeOK, Stamped
<1>. QED  BY <1>1, Invariant, PTL

\* The window costs one bucket per second, whatever the traffic and however
\* long it is since anything expired.
THEOREM OneBucketAlways == Spec => []OneBucketPerSecond
<1>1. IInv => OneBucketPerSecond
  <2>. SUFFICES ASSUME IInv PROVE OneBucketPerSecond
    OBVIOUS
  <2>. DEFINE L == Len(buckets)
              at == [i \in 1 .. L |-> buckets[i].at - buckets[1].at]
  <2>1. /\ L \in Nat /\ DOMAIN buckets = 1 .. L
        /\ \A i \in 1 .. L : buckets[i].at \in Nat
        /\ \A i, j \in 1 .. L : i < j => buckets[i].at < buckets[j].at
        /\ \A i, j \in 1 .. L : buckets[j].at - buckets[i].at < Window
    BY BucketsAre DEF IInv, Sorted, Narrow
  <2>2. Window \in Nat \ {0}
    BY CountersAssumption
  <2>. HIDE DEF L
  <2>3. at \in [1 .. L -> 0 .. Window - 1]
    <3>1. ASSUME NEW i \in 1 .. L PROVE buckets[i].at - buckets[1].at \in 0 .. Window - 1
      <4>1. 1 \in 1 .. L /\ (i = 1 \/ 1 < i)
        BY <2>1
      <4>2. buckets[1].at <= buckets[i].at /\ buckets[i].at - buckets[1].at < Window
        BY <2>1, <4>1
      <4>3. buckets[1].at \in Nat /\ buckets[i].at \in Nat
        BY <2>1, <4>1
      <4>. QED  BY <2>2, <4>2, <4>3
    <3>. QED  BY <3>1
  <2>4. \A i, j \in 1 .. L : at[i] = at[j] => i = j
    <3>. SUFFICES ASSUME NEW i \in 1 .. L, NEW j \in 1 .. L, at[i] = at[j], i # j PROVE FALSE
      OBVIOUS
    <3>1. 1 \in 1 .. L /\ buckets[1].at \in Nat /\ buckets[i].at \in Nat /\ buckets[j].at \in Nat
      BY <2>1
    <3>2. buckets[i].at = buckets[j].at
      BY <3>1
    <3>3. i < j \/ j < i
      BY <2>1
    <3>. QED  BY <2>1, <3>1, <3>2, <3>3
  <2>. HIDE DEF at
  <2>5. /\ IsFiniteSet(1 .. L) /\ Cardinality(1 .. L) = L
        /\ IsFiniteSet(0 .. Window - 1) /\ Cardinality(0 .. Window - 1) = Window
    <3>1. \A a, b \in Int : /\ IsFiniteSet(a .. b)
                            /\ Cardinality(a .. b) = IF a > b THEN 0 ELSE b - a + 1
      BY FS_Interval
    <3>2. Cardinality(1 .. L) = (IF 1 > L THEN 0 ELSE L - 1 + 1) /\ IsFiniteSet(1 .. L)
      BY <2>1, <3>1
    <3>3. /\ Cardinality(0 .. Window - 1) = (IF 0 > Window - 1 THEN 0 ELSE Window - 1 - 0 + 1)
          /\ IsFiniteSet(0 .. Window - 1)
      BY <2>2, <3>1
    <3>. QED  BY <2>1, <2>2, <3>2, <3>3
  <2>6. ~(L > Window)
    <3>1. /\ IsFiniteSet(1 .. L) /\ IsFiniteSet(0 .. Window - 1)
          /\ at \in [1 .. L -> 0 .. Window - 1]
      BY <2>3, <2>5
    <3>2. Cardinality(1 .. L) > Cardinality(0 .. Window - 1) =>
            \E i, j \in 1 .. L : i # j /\ at[i] = at[j]
      BY <3>1, FS_PigeonHole
    <3>. QED  BY <2>4, <2>5, <3>2
  <2>. QED  BY <2>1, <2>2, <2>6 DEF OneBucketPerSecond, L
<1>. QED  BY <1>1, Invariant, PTL

\* The flows kept account for every packet the window holds, and each of them
\* was last heard in a second the window holds.
THEOREM FlowsAlwaysAccount == Spec => []FlowsAccountForWindow
<1>1. IInv => FlowsAccountForWindow
  <2>. SUFFICES ASSUME IInv PROVE FlowsAccountForWindow
    OBVIOUS
  <2>1. \A f \in DOMAIN flows : \E i \in DOMAIN buckets :
          /\ buckets[i].at = flows[f].last
          /\ \E k \in Kinds : buckets[i].counts[k] > 0 /\ flows[f].counts[k] > 0
    BY DEF IInv, Accounted, Backed
  <2>2. ASSUME NEW k \in Kinds
        PROVE  SumOf(buckets, k) <= SumFunction([f \in DOMAIN flows |-> flows[f].counts[k]])
    <3>1. \A t \in 1 .. now : t \in After(0)
      BY DEF IInv, RestTyped, After
    <3>2. /\ buckets \in Seq(Bucket) /\ \A i \in DOMAIN buckets : buckets[i].at \in After(0)
      BY <3>1 DEF IInv, BucketsTyped
    <3>3. SumOf(buckets, k) = Held(buckets, k, After(0))
      BY <3>2, SumOfIsHeld
    <3>4. HeardIn(flows, After(0)) = DOMAIN flows
      BY <3>1 DEF IInv, FlowsTyped, FlowsAre, HeardIn
    <3>5. DOMAIN FlowCounts(flows, k) = DOMAIN flows
      BY DEF FlowCounts
    <3>6. SumFunction([f \in DOMAIN flows |-> flows[f].counts[k]]) = FlowSum(flows, k, After(0))
      BY <3>4, <3>5 DEF SumFunction, FlowSum, FlowCounts
    <3>7. Held(buckets, k, After(0)) <= FlowSum(flows, k, After(0))
      BY DEF IInv, Accounted, Covers
    <3>. QED  BY <3>3, <3>6, <3>7
  <2>. QED  BY <2>1, <2>2 DEF FlowsAccountForWindow
<1>. QED  BY <1>1, Invariant, PTL

-----------------------------------------------------------------------------
(***************************************************************************)
(* The window is exact: Counters implements SlidingWindow                   *)
(***************************************************************************)

Ages == 0 .. Window - 1
QuietOf(fs, f) ==
  IF f \in DOMAIN fs /\ now - fs[f].last < Window THEN now - fs[f].last ELSE Window

\* The refinement mapping, as SW has it.
Recent == [k \in Kinds |-> [a \in Ages |-> SecondsAgo(k, a)]]
QuietFor == [f \in Flows |-> QuietOf(flows, f)]

LEMMA AgoIsHeld ==
  ASSUME BucketsTyped, RestTyped, NEW k \in Kinds, NEW a \in Nat
  PROVE  SecondsAgo(k, a) = Held(buckets, k, {now - a}) /\ SecondsAgo(k, a) \in Nat
<1>1. \A i \in DOMAIN buckets : buckets[i].at + a = now <=> buckets[i].at \in {now - a}
  <2>1. now \in Nat /\ \A i \in DOMAIN buckets : buckets[i].at \in Nat
    BY BucketsAre DEF RestTyped
  <2>2. \A t \in Nat : t + a = now <=> t = now - a
    BY <2>1
  <2>. QED  BY <2>1, <2>2
<1>2. {i \in DOMAIN buckets : buckets[i].at + a = now} = During(buckets, {now - a})
  BY <1>1 DEF During
<1>3. Held(buckets, k, {now - a}) \in Nat
  BY HeldIsNat DEF BucketsTyped
<1>. QED  BY <1>2, <1>3 DEF SecondsAgo, Held, CountsOf

\* What expire drops was of no second that is remembered.
LEMMA ExpireUnseen ==
  ASSUME IInv, NEW k \in Kinds, NEW a \in Ages
  PROVE  Held(KeptBuckets, k, {now - a}) = SecondsAgo(k, a)
<1>1. now \in Nat /\ Window \in Nat \ {0} /\ a \in Nat /\ a < Window
  BY CountersAssumption DEF IInv, RestTyped, Ages
<1>2. now - a > Cutoff \/ now - a <= 0
  BY <1>1 DEF Cutoff
<1>3. \A i \in DOMAIN buckets : buckets[i].at \in 1 .. now
  BY DEF IInv, BucketsTyped
<1>4. Cutoff \in Nat
  BY <1>1, CutoffIs
<1>5. \A i \in DOMAIN buckets :
        buckets[i].at \in {now - a} <=> buckets[i].at \in {t \in {now - a} : t > Cutoff}
  BY <1>1, <1>2, <1>3, <1>4
<1>6. During(buckets, {now - a}) = During(buckets, {t \in {now - a} : t > Cutoff})
  BY <1>5 DEF During
<1>7. Held(KeptBuckets, k, {now - a}) = Held(buckets, k, {t \in {now - a} : t > Cutoff})
  BY KeptHolds
<1>8. SecondsAgo(k, a) = Held(buckets, k, {now - a})
  BY <1>1, AgoIsHeld DEF IInv
<1>. QED  BY <1>6, <1>7, <1>8 DEF Held

LEMMA QuietUnchanged ==
  ASSUME IInv, NEW f
  PROVE  QuietOf(KeptFlows, f) = QuietOf(flows, f)
<1>1. \A g \in DOMAIN flows : flows[g].last > Cutoff <=> now - flows[g].last < Window
  BY CutoffIs DEF IInv, FlowsTyped, FlowsAre, RestTyped
<1>. QED  BY <1>1, KeptFlowsAre DEF QuietOf, IInv

\* In the kept buckets a second has at most one bucket.
LEMMA OneSecondOf ==
  ASSUME RestTyped, NEW bs, Lasting(bs), NEW k \in Kinds, NEW i \in DOMAIN bs
  PROVE  Held(bs, k, {bs[i].at}) = bs[i].counts[k]
<1>1. /\ bs \in Seq(Bucket) /\ DOMAIN bs = 1 .. Len(bs) /\ Len(bs) \in Nat
      /\ \A j \in DOMAIN bs : bs[j].at \in Nat
      /\ \A j, l \in DOMAIN bs : j < l => bs[j].at < bs[l].at
  <2>1. bs \in Seq(Bucket)
    BY DEF Lasting
  <2>2. DOMAIN bs = 1 .. Len(bs) /\ Len(bs) \in Nat
    BY <2>1
  <2>. QED  BY <2>1, <2>2 DEF Lasting, RestTyped
<1>2. \A j \in DOMAIN bs : bs[j].at = bs[i].at => j = i
  <2>. SUFFICES ASSUME NEW j \in DOMAIN bs, bs[j].at = bs[i].at, j # i PROVE FALSE
    OBVIOUS
  <2>1. j < i \/ i < j
    BY <1>1
  <2>2. bs[j].at < bs[i].at \/ bs[i].at < bs[j].at
    BY <1>1, <2>1
  <2>. QED  BY <1>1, <2>2
<1>3. During(bs, {bs[i].at}) = {i}
  BY <1>2 DEF During
<1>. DEFINE f == CountsOf(bs, k)
<1>4. /\ \A j \in {i} : f[j] \in Nat
      /\ f[i] = bs[i].counts[k]
  BY <1>1, HeldIsNat DEF CountsOf
<1>. HIDE DEF f
<1>5. IsFiniteSet({i}) /\ {i} \ {i} = {} /\ i \in {i}
  BY FS_Singleton
<1>6. SumFunctionOnSet(f, {i}) = f[i] + SumFunctionOnSet(f, {i} \ {i})
  BY <1>4, <1>5, SumTakes
<1>7. SumFunctionOnSet(f, {i}) = f[i]
  BY <1>4, <1>5, <1>6, SumOfNone
<1>. QED  BY <1>3, <1>4, <1>7 DEF Held, f

LEMMA RefinesInit ==
  ASSUME Init
  PROVE  /\ Recent = [k \in Kinds |-> [a \in Ages |-> 0]]
         /\ QuietFor = [f \in Flows |-> Window]
         /\ ToSet(listed) = {}
<1>1. IInv /\ DOMAIN flows = {} /\ DOMAIN buckets = {} /\ DOMAIN listed = {}
  BY Starts DEF Init, InitStore
<1>2. \A k \in Kinds, a \in Ages : SecondsAgo(k, a) = 0
  <2>. SUFFICES ASSUME NEW k \in Kinds, NEW a \in Ages PROVE SecondsAgo(k, a) = 0
    OBVIOUS
  <2>1. {i \in DOMAIN buckets : buckets[i].at + a = now} = {}
    BY <1>1
  <2>. QED  BY <2>1, SumOfNone DEF SecondsAgo
<1>3. \A f \in Flows : QuietOf(flows, f) = Window
  BY <1>1 DEF QuietOf
<1>. QED  BY <1>1, <1>2, <1>3 DEF Recent, QuietFor, ToSet

LEMMA RefinesPacket ==
  ASSUME IInv, NEW k \in Kinds, NEW f \in Flows, Add(k, f), UNCHANGED <<now, answer, listed>>
  PROVE  /\ Recent' = [Recent EXCEPT ![k][0] = @ + 1]
         /\ QuietFor' = [QuietFor EXCEPT ![f] = 0]
<1>0. /\ RestTyped /\ FlowsTyped /\ Lasting(KeptBuckets) /\ FlowsAre(KeptFlows)
      /\ buckets' = CountedIn(KeptBuckets, k) /\ flows' = OnFlow(KeptFlows, k, f) /\ now' = now
  BY KeptLast, KeptFlowsAre DEF IInv, Add
<1>1. ASSUME NEW l \in Kinds, NEW a \in Ages
      PROVE  SecondsAgo(l, a)' = SecondsAgo(l, a) + (IF l = k /\ a = 0 THEN 1 ELSE 0)
  <2>1. now \in Nat /\ a \in Nat
    BY <1>0 DEF RestTyped, Ages
  <2>2. now \in {now - a} <=> a = 0
    BY <2>1
  <2>3. Held(CountedIn(KeptBuckets, k), l, {now - a})
          = Held(KeptBuckets, l, {now - a}) + (IF l = k /\ now \in {now - a} THEN 1 ELSE 0)
    BY <1>0, CountedHolds
  <2>4. Held(KeptBuckets, l, {now - a}) = SecondsAgo(l, a)
    BY ExpireUnseen
  <2>5. SecondsAgo(l, a)' = Held(buckets', l, {now - a})
    <3>1. Lasting(buckets')
      BY <1>0, CountedLasts
    <3>2. \A i \in DOMAIN buckets' : buckets'[i].at \in 1 .. now
      BY <3>1, SeqIs DEF Lasting
    <3>3. \A i \in DOMAIN buckets' : buckets'[i].at + a = now <=> buckets'[i].at \in {now - a}
      BY <2>1, <3>2
    <3>4. {i \in DOMAIN buckets' : buckets'[i].at + a = now'} = During(buckets', {now - a})
      BY <1>0, <3>3 DEF During
    <3>. QED  BY <3>4 DEF SecondsAgo, Held, CountsOf
  <2>6. Held(buckets', l, {now - a}) = Held(CountedIn(KeptBuckets, k), l, {now - a})
    BY <1>0
  <2>. QED  BY <2>2, <2>3, <2>4, <2>5, <2>6
<1>2. ASSUME NEW g \in Flows
      PROVE  QuietOf(flows, g)' = IF g = f THEN 0 ELSE QuietOf(flows, g)
  <2>1. /\ DOMAIN flows' = DOMAIN KeptFlows \cup {f} /\ flows'[f].last = now
        /\ \A e \in DOMAIN KeptFlows \ {f} : flows'[e] = KeptFlows[e]
    <3>. DEFINE fs == KeptFlows
                gs == OnFlow(fs, k, f)
    <3>1. FlowsAre(fs)
      BY <1>0
    <3>. HIDE DEF fs
    <3>2. DOMAIN gs = DOMAIN fs \cup {f} /\ gs[f].last = now
      BY <1>0, <3>1, OnFlowIs
    <3>3. \A e \in DOMAIN fs \ {f} : gs[e] = fs[e]
      BY <1>0, <3>1, OnFlowIs
    <3>. HIDE DEF gs
    <3>. QED  BY <1>0, <3>2, <3>3 DEF fs, gs
  <2>2. QuietOf(KeptFlows, g) = QuietOf(flows, g)
    BY QuietUnchanged
  <2>3. CASE g = f
    <3>1. now - now = 0 /\ 0 < Window
      BY <1>0, CountersAssumption DEF RestTyped
    <3>. QED  BY <1>0, <2>1, <2>3, <3>1 DEF QuietOf
  <2>4. CASE g # f
    <3>1. QuietOf(flows, g)' = QuietOf(KeptFlows, g)
      BY <1>0, <2>1, <2>4 DEF QuietOf
    <3>. QED  BY <2>2, <2>4, <3>1
  <2>. QED  BY <2>3, <2>4
<1>3. Recent' = [Recent EXCEPT ![k][0] = @ + 1]
  <2>1. 0 \in Ages
    BY CountersAssumption DEF Ages
  <2>2. Recent' = [l \in Kinds |-> [a \in Ages |-> SecondsAgo(l, a)']]
    BY DEF Recent, Ages
  <2>3. Recent' = [l \in Kinds |-> [a \in Ages |->
                     SecondsAgo(l, a) + (IF l = k /\ a = 0 THEN 1 ELSE 0)]]
    BY <1>1, <2>2
  <2>4. \A l \in Kinds, a \in Ages : SecondsAgo(l, a) \in Nat /\ Recent[l][a] = SecondsAgo(l, a)
    <3>1. \A a \in Ages : a \in Nat
      BY DEF Ages
    <3>2. \A l \in Kinds, a \in Ages : SecondsAgo(l, a) \in Nat
      BY <1>0, <3>1, AgoIsHeld DEF IInv
    <3>. QED  BY <3>2 DEF Recent
  <2>5. /\ DOMAIN Recent = Kinds /\ \A l \in Kinds : DOMAIN Recent[l] = Ages
        /\ Recent = [l \in Kinds |-> Recent[l]]
        /\ \A l \in Kinds : Recent[l] = [a \in Ages |-> Recent[l][a]]
    BY DEF Recent
  <2>. DEFINE was == [Recent[k] EXCEPT ![0] = @ + 1]
  <2>6. was = [a \in Ages |-> SecondsAgo(k, a) + (IF a = 0 THEN 1 ELSE 0)]
    BY <2>1, <2>4, <2>5
  <2>7. [Recent EXCEPT ![k][0] = @ + 1] = [Recent EXCEPT ![k] = was]
    BY Zenon
  <2>8. \A l \in Kinds \ {k} : Recent[l] = [a \in Ages |-> SecondsAgo(l, a) + 0]
    BY <2>4, <2>5
  <2>. HIDE DEF was
  <2>9. \A l \in Kinds : [Recent EXCEPT ![k] = was][l] = Recent'[l]
    BY <2>3, <2>5, <2>6, <2>8
  <2>10. [Recent EXCEPT ![k] = was] = [l \in Kinds |-> [Recent EXCEPT ![k] = was][l]]
    BY <2>5
  <2>11. Recent' = [l \in Kinds |-> Recent'[l]]
    BY <2>2
  <2>12. Recent' = [Recent EXCEPT ![k] = was]
    <3>. DEFINE X == [Recent EXCEPT ![k] = was]
    <3>. HIDE DEF X
    <3>. QED  BY <2>9, <2>10, <2>11, Zenon DEF X
  <2>. QED  BY <2>7, <2>12
<1>4. QuietFor' = [QuietFor EXCEPT ![f] = 0]
  <2>1. QuietFor' = [g \in Flows |-> QuietOf(flows, g)']
    BY DEF QuietFor
  <2>. QED  BY <1>2, <2>1 DEF QuietFor
<1>. QED  BY <1>3, <1>4

LEMMA RefinesTick ==
  ASSUME IInv, Tick
  PROVE  \E d \in 1 .. Window :
           /\ Recent' = [k \in Kinds |-> [a \in Ages |->
                           IF a >= d THEN Recent[k][a - d] ELSE 0]]
           /\ QuietFor' = [f \in Flows |->
                           IF QuietFor[f] + d < Window THEN QuietFor[f] + d ELSE Window]
<1>1. PICK s \in 1 .. MaxStep :
        now' = now + s /\ UNCHANGED <<buckets, flows, total, answer, listed>>
  BY DEF Tick
<1>2. /\ now \in Nat /\ s \in Nat \ {0} /\ Window \in Nat \ {0}
      /\ BucketsTyped /\ FlowsTyped /\ RestTyped
  BY <1>1, CountersAssumption DEF IInv, RestTyped
<1>. DEFINE d == IF s < Window THEN s ELSE Window
<1>3. d \in 1 .. Window /\ (d # s => d = Window /\ s > Window)
  BY <1>2
<1>. HIDE DEF d
<1>4. \A i \in DOMAIN buckets : buckets[i].at \in Nat /\ buckets[i].at <= now
  BY <1>2 DEF BucketsTyped
<1>5. ASSUME NEW k \in Kinds, NEW a \in Ages
      PROVE  SecondsAgo(k, a)' = IF a >= d THEN Recent[k][a - d] ELSE 0
  <2>0. a \in Nat /\ a < Window
    BY <1>2 DEF Ages
  <2>1. CASE a >= d
    <3>1. d = s /\ a - d \in Ages
      BY <1>2, <1>3, <2>0, <2>1 DEF Ages
    <3>2. \A i \in DOMAIN buckets :
            buckets[i].at + a = now + s <=> buckets[i].at + (a - d) = now
      BY <1>2, <1>4, <2>0, <3>1
    <3>3. {i \in DOMAIN buckets : buckets[i].at + a = now + s}
            = {i \in DOMAIN buckets : buckets[i].at + (a - d) = now}
      BY <3>2
    <3>4. SecondsAgo(k, a)' = SecondsAgo(k, a - d)
      BY <1>1, <3>3 DEF SecondsAgo
    <3>. QED  BY <2>1, <3>1, <3>4 DEF Recent
  <2>2. CASE ~(a >= d)
    <3>1. \A i \in DOMAIN buckets : buckets[i].at + a # now + s
      BY <1>2, <1>3, <1>4, <2>0, <2>2
    <3>2. {i \in DOMAIN buckets : buckets[i].at + a = now + s} = {}
      BY <3>1
    <3>3. SecondsAgo(k, a)' = 0
      BY <1>1, <3>2, SumOfNone DEF SecondsAgo
    <3>. QED  BY <2>2, <3>3
  <2>. QED  BY <2>1, <2>2
<1>6. ASSUME NEW f \in Flows
      PROVE  QuietOf(flows, f)' =
               IF QuietFor[f] + d < Window THEN QuietFor[f] + d ELSE Window
  <2>1. QuietFor[f] = QuietOf(flows, f)
    BY DEF QuietFor
  <2>2. CASE f \in DOMAIN flows
    <3>. DEFINE last == flows[f].last
    <3>1. last \in Nat /\ last <= now
      BY <1>2, <2>2 DEF FlowsTyped, FlowsAre
    <3>. DEFINE since(t, u) == IF t - u < Window THEN t - u ELSE Window
                q == QuietOf(flows, f)
    <3>2. q = since(now, last)
      BY <2>2 DEF QuietOf
    <3>3. q' = since(now', flows'[f].last)
      <4>1. f \in DOMAIN flows'
        BY <1>1, <2>2
      <4>. QED  BY <4>1 DEF QuietOf
    <3>4. now' = now + s /\ flows'[f].last = last
      BY <1>1
    <3>5. q' = since(now + s, last)
      <4>. DEFINE r == q'
      <4>. HIDE DEF since, last, r
      <4>. QED  BY <3>3, <3>4, Zenon DEF r
    <3>6. since(now + s, last) =
            IF since(now, last) + d < Window THEN since(now, last) + d ELSE Window
      <4>. HIDE DEF last
      <4>. QED  BY <1>2, <1>3, <3>1
    <3>7. q' = IF q + d < Window THEN q + d ELSE Window
      <4>. DEFINE r == q'
                  clipped(v) == IF v + d < Window THEN v + d ELSE Window
      <4>1. since(now + s, last) = clipped(since(now, last))
        BY <3>6
      <4>. HIDE DEF since, last, q, clipped, r
      <4>2. r = clipped(q)
        BY <3>2, <3>5, <4>1 DEF r
      <4>. QED  BY <4>2 DEF r, clipped
    <3>. QED  BY <2>1, <3>7
  <2>3. CASE f \notin DOMAIN flows
    <3>1. QuietOf(flows, f) = Window /\ QuietOf(flows, f)' = Window
      BY <1>1, <2>3 DEF QuietOf
    <3>2. ~(Window + d < Window)
      BY <1>2, <1>3
    <3>. QED  BY <2>1, <3>1, <3>2
  <2>. QED  BY <2>2, <2>3
<1>7. Recent' = [k \in Kinds |-> [a \in Ages |-> IF a >= d THEN Recent[k][a - d] ELSE 0]]
  <2>1. Recent' = [k \in Kinds |-> [a \in Ages |-> SecondsAgo(k, a)']]
    BY DEF Recent, Ages
  <2>. QED  BY <1>5, <2>1
<1>8. QuietFor' = [f \in Flows |->
                    IF QuietFor[f] + d < Window THEN QuietFor[f] + d ELSE Window]
  <2>1. QuietFor' = [f \in Flows |-> QuietOf(flows, f)']
    BY DEF QuietFor
  <2>. QED  BY <1>6, <2>1
<1>. QED  BY <1>3, <1>7, <1>8

\* A step that only expires is not seen.
LEMMA RefinesExpire ==
  ASSUME IInv, IInv', Expire, now' = now
  PROVE  Recent' = Recent /\ QuietFor' = QuietFor
<1>1. buckets' = KeptBuckets /\ flows' = KeptFlows
  BY DEF Expire
<1>2. ASSUME NEW k \in Kinds, NEW a \in Ages
      PROVE  SecondsAgo(k, a)' = SecondsAgo(k, a)
  <2>1. now \in Nat /\ a \in Nat
    BY DEF IInv, RestTyped, Ages
  <2>2. \A i \in DOMAIN buckets' : buckets'[i].at \in 1 .. now
    BY DEF IInv, BucketsTyped
  <2>3. \A i \in DOMAIN buckets' : buckets'[i].at + a = now <=> buckets'[i].at \in {now - a}
    BY <2>1, <2>2
  <2>4. {i \in DOMAIN buckets' : buckets'[i].at + a = now'} = During(buckets', {now - a})
    BY <2>3 DEF During
  <2>5. SecondsAgo(k, a)' = Held(buckets', k, {now - a})
    BY <2>4 DEF SecondsAgo, Held, CountsOf
  <2>6. Held(KeptBuckets, k, {now - a}) = SecondsAgo(k, a)
    BY ExpireUnseen
  <2>. QED  BY <1>1, <2>5, <2>6
<1>3. Recent' = Recent
  <2>1. Recent' = [k \in Kinds |-> [a \in Ages |-> SecondsAgo(k, a)']]
    BY DEF Recent, Ages
  <2>. QED  BY <1>2, <2>1 DEF Recent
<1>4. \A f \in Flows : QuietOf(flows, f)' = QuietOf(flows, f)
  <2>1. \A f \in Flows : QuietOf(flows, f)' = QuietOf(KeptFlows, f)
    BY <1>1 DEF QuietOf
  <2>. QED  BY <2>1, QuietUnchanged
<1>5. QuietFor' = [f \in Flows |-> QuietOf(flows, f)']
  BY DEF QuietFor
<1>. QED  BY <1>3, <1>4, <1>5 DEF QuietFor

\* What the kept buckets add up to is what each remembered second adds up to.
LEMMA RefinesCounts ==
  ASSUME IInv, NEW k \in Kinds
  PROVE  SumOf(KeptBuckets, k) = SumFunction(Recent[k])
<1>. DEFINE K == KeptBuckets
            f == CountsOf(K, k)
            g == [a \in Ages |-> SecondsAgo(k, a)]
            h == [i \in DOMAIN K |-> now - K[i].at]
<1>0. RestTyped /\ Lasting(K) /\ now \in Nat /\ Window \in Nat
  BY KeptLast, CountersAssumption DEF IInv, RestTyped
<1>1. \A a \in Ages : g[a] = Held(K, k, {now - a})
  BY ExpireUnseen
<1>. HIDE DEF K
<1>2. K \in Seq(Bucket) /\ DOMAIN K = 1 .. Len(K) /\ Len(K) \in Nat
  <2>1. K \in Seq(Bucket)
    BY <1>0 DEF Lasting
  <2>. QED  BY <2>1
<1>3. /\ \A i \in DOMAIN K : K[i].at \in 1 .. now /\ now - K[i].at < Window
      /\ \A i, j \in DOMAIN K : i < j => K[i].at < K[j].at
  BY <1>0, <1>2 DEF Lasting
<1>4. \A i \in DOMAIN K : h[i] \in Ages /\ now - h[i] = K[i].at
  BY <1>0, <1>3 DEF Ages
<1>5. \A i, j \in DOMAIN K : h[i] = h[j] => i = j
  <2>. SUFFICES ASSUME NEW i \in DOMAIN K, NEW j \in DOMAIN K, h[i] = h[j], i # j PROVE FALSE
    OBVIOUS
  <2>1. K[i].at = K[j].at
    BY <1>4
  <2>2. i < j \/ j < i
    BY <1>2
  <2>3. K[i].at \in Nat /\ K[j].at \in Nat /\ (K[i].at < K[j].at \/ K[j].at < K[i].at)
    BY <1>3, <2>2
  <2>. QED  BY <2>1, <2>3
<1>6. IsFiniteSet(DOMAIN K) /\ \A i \in DOMAIN K : f[i] \in Nat
  BY <1>2, HeldIsNat
<1>7. \A i \in DOMAIN K : g[h[i]] = f[i]
  <2>. SUFFICES ASSUME NEW i \in DOMAIN K PROVE g[h[i]] = f[i]
    OBVIOUS
  <2>1. g[h[i]] = Held(K, k, {K[i].at})
    <3>. HIDE DEF g, h
    <3>. QED  BY <1>1, <1>4
  <2>2. Held(K, k, {K[i].at}) = K[i].counts[k]
    BY <1>0, OneSecondOf
  <2>. QED  BY <2>1, <2>2 DEF CountsOf
<1>8. DOMAIN g = Ages /\ DOMAIN f = DOMAIN K
  BY DEF CountsOf
<1>9. \A a \in Ages : g[a] \in Nat
  <2>. HIDE DEF g
  <2>. QED  BY <1>1, <1>2, HeldIsNat
<1>10. ASSUME NEW a \in Ages, a \notin {h[i] : i \in DOMAIN K} PROVE g[a] = 0
  <2>0. a \in Nat
    BY DEF Ages
  <2>1. \A i \in DOMAIN K : K[i].at # now - a
    <3>1. \A i \in DOMAIN K : K[i].at = now - a => h[i] = a
      BY <1>0, <1>3, <2>0
    <3>. HIDE DEF h
    <3>. QED  BY <1>10, <3>1
  <2>2. During(K, {now - a}) = {}
    BY <2>1 DEF During
  <2>3. Held(K, k, {now - a}) = 0
    BY <2>2, SumOfNone DEF Held
  <2>. QED  BY <1>1, <2>3
<1>11. SumOf(K, k) = SumFunctionOnSet(f, DOMAIN K)
  BY <1>8 DEF SumOf, SumFunction, CountsOf
<1>12. SumFunction(g) = SumFunctionOnSet(g, Ages)
  BY <1>8 DEF SumFunction
<1>. HIDE DEF f, g, h
<1>13. SumFunctionOnSet(f, DOMAIN K) = SumFunctionOnSet(g, {h[i] : i \in DOMAIN K})
  <2>1. \A i \in DOMAIN K : f[i] \in Nat /\ g[h[i]] = f[i]
    BY <1>6, <1>7
  <2>. QED  BY <1>5, <1>6, <2>1, SumRenames
<1>14. SumFunctionOnSet(g, Ages) = SumFunctionOnSet(g, {h[i] : i \in DOMAIN K})
  <2>. DEFINE T == {h[i] : i \in DOMAIN K}
  <2>1. T \in SUBSET Ages /\ \A a \in Ages \ T : g[a] = 0
    BY <1>4, <1>10
  <2>2. IsFiniteSet(Ages)
    BY <1>0, FS_Interval DEF Ages
  <2>. HIDE DEF T
  <2>3. SumFunctionOnSet(g, Ages) = SumFunctionOnSet(g, T)
    BY <1>9, <2>1, <2>2, SumSkips
  <2>. QED  BY <2>3 DEF T
<1>15. Recent[k] = g
  BY DEF Recent, g
<1>. QED  BY <1>11, <1>12, <1>13, <1>14, <1>15 DEF K

\* A flow cannot come before itself, so the list names every kept flow once.
LEMMA ListIsWhole ==
  ASSUME IInv, ByFlow
  PROVE  ToSet(listed') = DOMAIN KeptFlows
<1>. DEFINE kept == DOMAIN KeptFlows
            n == Cardinality(kept)
<1>1. /\ listed' \in [1 .. n -> kept]
      /\ \A i, j \in DOMAIN listed' : i < j => BusierFirst(listed'[i], listed'[j])
  BY DEF ByFlow
<1>2. /\ IsFiniteSet(kept) /\ kept \subseteq Flows /\ n \in Nat
      /\ \A f \in kept : f \in DOMAIN flows
  BY KeptFlowsAre, FS_CardinalityType DEF IInv, FlowsAre
<1>. HIDE DEF kept
<1>3. ASSUME NEW f \in kept PROVE ~BusierFirst(f, f)
  <2>1. flows[f].counts \in Counts
    BY <1>2, FlowSumIsNat DEF IInv, FlowsTyped, FlowsAre, Entry
  <2>2. DOMAIN flows[f].counts = Kinds /\ \A k \in Kinds : flows[f].counts[k] \in Nat
    BY <2>1 DEF Counts
  <2>3. FlowTotal(f) \in Nat
    BY <2>2, SumIsNat, CountersAssumption DEF FlowTotal, SumFunction
  <2>4. f \in Nat
    BY <1>2, CountersAssumption
  <2>. QED  BY <2>3, <2>4 DEF BusierFirst
<1>. HIDE DEF n
<1>4. \A i, j \in 1 .. n : listed'[i] = listed'[j] => i = j
  <2>. SUFFICES ASSUME NEW i \in 1 .. n, NEW j \in 1 .. n, listed'[i] = listed'[j], i # j PROVE FALSE
    OBVIOUS
  <2>1. i < j \/ j < i
    BY <1>2
  <2>2. BusierFirst(listed'[i], listed'[j]) \/ BusierFirst(listed'[j], listed'[i])
    BY <1>1, <2>1
  <2>3. listed'[i] \in kept
    BY <1>1
  <2>. QED  BY <1>3, <2>2, <2>3
<1>5. listed' \in Injection(1 .. n, kept)
  BY <1>1, <1>4 DEF Injection, IsInjective
<1>6. IsFiniteSet(1 .. n) /\ Cardinality(1 .. n) = n
  <2>1. /\ IsFiniteSet(1 .. n) /\ Cardinality(1 .. n) = (IF 1 > n THEN 0 ELSE n - 1 + 1)
    BY <1>2, FS_Interval
  <2>. QED  BY <1>2, <2>1
<1>7. listed' \in Surjection(1 .. n, kept)
  BY <1>2, <1>5, <1>6, FS_Injection DEF n
<1>8. \A f \in kept : \E i \in 1 .. n : listed'[i] = f
  BY <1>7 DEF Surjection
<1>. QED  BY <1>1, <1>8 DEF ToSet, kept

LEMMA RefinesFlows ==
  ASSUME IInv, ByFlow
  PROVE  ToSet(listed') = {f \in Flows : QuietFor[f] < Window}
<1>1. now \in Nat /\ Window \in Nat
  BY CountersAssumption DEF IInv, RestTyped
<1>2. \A f \in DOMAIN flows :
        /\ f \in Flows /\ flows[f].last \in 1 .. now
        /\ flows[f].last > Cutoff <=> now - flows[f].last < Window
  BY CutoffIs, <1>1 DEF IInv, FlowsTyped, FlowsAre
<1>3. DOMAIN KeptFlows = {f \in DOMAIN flows : now - flows[f].last < Window}
  BY <1>2, KeptFlowsAre DEF IInv
<1>4. \A f \in Flows : QuietFor[f] < Window <=> f \in DOMAIN flows /\ now - flows[f].last < Window
  BY <1>1 DEF QuietFor, QuietOf
<1>5. DOMAIN KeptFlows = {f \in Flows : QuietFor[f] < Window}
  BY <1>2, <1>3, <1>4
<1>. QED  BY <1>5, ListIsWhole

\* Counters implements SlidingWindow: window() returns exactly the packets of
\* the last Window seconds and by_flow() exactly the flows heard in them,
\* although stale buckets and flows stay until something expires them.
THEOREM WindowIsAlwaysExact == Spec => WindowIsExact
<1>. DEFINE Heard == ToSet(listed)
<1>1. Init => SW!Init
  BY RefinesInit, Zenon DEF SW!Init, SW!Ages, Init, InitStore, NoCounts, Recent, QuietFor, QuietOf,
     Ages
<1>2. IInv /\ IInv' /\ [Next]_vars => [SW!Next]_(SW!vars)
  <2>. SUFFICES ASSUME IInv, IInv', [Next]_vars PROVE [SW!Next]_(SW!vars)
    OBVIOUS
  <2>1. CASE Packet
    <3>1. PICK k \in Kinds, f \in Flows : Add(k, f) /\ UNCHANGED <<now, answer, listed>>
      BY <2>1 DEF Packet
    <3>2. /\ Recent' = [Recent EXCEPT ![k][0] = @ + 1]
          /\ QuietFor' = [QuietFor EXCEPT ![f] = 0]
      BY <3>1, RefinesPacket
    <3>3. UNCHANGED <<answer, Heard>>
      BY <3>1 DEF ToSet
    <3>4. SW!Packet(k, f)
      BY <3>2, <3>3, Zenon DEF SW!Packet, Recent, QuietFor, QuietOf, Ages
    <3>. QED  BY <3>4 DEF SW!Next
  <2>2. CASE Tick
    <3>1. PICK d \in 1 .. Window :
            /\ Recent' = [k \in Kinds |-> [a \in Ages |->
                            IF a >= d THEN Recent[k][a - d] ELSE 0]]
            /\ QuietFor' = [f \in Flows |->
                            IF QuietFor[f] + d < Window THEN QuietFor[f] + d ELSE Window]
      BY <2>2, RefinesTick
    <3>2. UNCHANGED <<answer, Heard>>
      BY <2>2 DEF Tick, ToSet
    <3>3. SW!Pass(d)
      BY <3>1, <3>2, Zenon DEF SW!Pass, SW!Ages, Recent, QuietFor, QuietOf, Ages
    <3>. QED  BY <3>3 DEF SW!Next
  <2>3. CASE AskCounts
    <3>1. /\ Expire /\ UNCHANGED <<now, listed>>
          /\ answer' = [k \in Kinds |-> SumOf(KeptBuckets, k)]
      BY <2>3 DEF AskCounts, ReadWindow
    <3>2. Recent' = Recent /\ QuietFor' = QuietFor
      BY <3>1, RefinesExpire
    <3>3. answer' = [k \in Kinds |-> SumFunction(Recent[k])]
      BY <3>1, RefinesCounts
    <3>4. Heard' = Heard
      BY <3>1 DEF ToSet
    <3>5. SW!AskCounts
      <4>1. \A f : SW!SumFunction(f) = SumFunction(f)
        BY Zenon DEF SW!SumFunction, SumFunction, SW!SumFunctionOnSet, SumFunctionOnSet,
           SW!FoldFunctionOnSet, FoldFunctionOnSet, SW!MapThenFoldSet, MapThenFoldSet
      <4>. QED  BY <3>2, <3>3, <3>4, <4>1, Zenon
                DEF SW!AskCounts, Recent, QuietFor, QuietOf, Ages
    <3>. QED  BY <3>5 DEF SW!Next
  <2>4. CASE AskFlows
    <3>1. ByFlow /\ Expire /\ UNCHANGED <<now, answer>>
      BY <2>4 DEF AskFlows, ByFlow
    <3>2. Recent' = Recent /\ QuietFor' = QuietFor
      BY <3>1, RefinesExpire
    <3>3. Heard' = {f \in Flows : QuietFor[f] < Window}
      BY <3>1, RefinesFlows DEF ToSet
    <3>4. SW!AskFlows
      BY <3>1, <3>2, <3>3, Zenon DEF SW!AskFlows, Recent, QuietFor, QuietOf, Ages
    <3>. QED  BY <3>4 DEF SW!Next
  <2>5. CASE UNCHANGED vars
    <3>1. /\ now' = now /\ buckets' = buckets /\ flows' = flows
          /\ answer' = answer /\ listed' = listed
      BY <2>5 DEF vars
    <3>2. Recent' = Recent /\ QuietFor' = QuietFor /\ Heard' = Heard
      BY <3>1 DEF Recent, QuietFor, QuietOf, SecondsAgo, Ages, ToSet
    <3>. QED  BY <3>1, <3>2, Zenon DEF SW!vars, Recent, QuietFor, QuietOf, Ages
  <2>. QED  BY <2>1, <2>2, <2>3, <2>4, <2>5 DEF Next
<1>. QED  BY <1>1, <1>2, Invariant, PTL DEF Spec, WindowIsExact, SW!Spec
=============================================================================
