-------------------------------- MODULE Sums --------------------------------
(***************************************************************************)
(* What the theorems rest on: sums of a function over a finite set, which is *)
(* SumFunctionOnSet of the community modules, in whatever order its         *)
(* fold takes the elements; and that a recursive definition whose argument   *)
(* gets smaller defines something.                                          *)
(*                                                                          *)
(* Nothing here is about the program.  The argument by induction is put as   *)
(* one by a least counterexample, which needs no operator for a parameter.   *)
(***************************************************************************)
EXTENDS Integers, Sequences, FiniteSets, Functions, FiniteSetTheorems,
        WellFoundedInduction, NaturalsInduction, TLAPS

-----------------------------------------------------------------------------
(***************************************************************************)
(* Least counterexamples                                                    *)
(***************************************************************************)

LEMMA Least ==
  ASSUME NEW S \in SUBSET Nat, S # {}
  PROVE  \E n \in S : \A m \in S : n <= m
<1>1. PICK n \in S : \A m \in S : ~(<<m, n>> \in OpToRel(<, Nat))
  BY WFMin, NatLessThanWellFounded
<1>2. \A m \in S : ~(m < n)
  BY <1>1 DEF OpToRel
<1>. QED  BY <1>2

LEMMA Smallest ==
  ASSUME NEW S, IsFiniteSet(S), NEW B, \A T \in B : T \subseteq S, B # {}
  PROVE  \E T \in B : IsFiniteSet(T) /\ \A U \in B : U \subseteq T => U = T
<1>1. \A T \in B : T \in SUBSET S /\ IsFiniteSet(T) /\ Cardinality(T) \in Nat
  BY FS_Subset, FS_CardinalityType
<1>. DEFINE sizes == {Cardinality(T) : T \in B}
<1>2. \E n \in sizes : \A m \in sizes : n <= m
  <2>1. sizes \subseteq Nat /\ sizes # {}
    BY <1>1
  <2>. HIDE DEF sizes
  <2>. QED  BY <2>1, Least
<1>3. PICK T \in B : \A m \in sizes : Cardinality(T) <= m
  BY <1>2
<1>4. ASSUME NEW U \in B, U \subseteq T PROVE U = T
  <2>1. Cardinality(T) <= Cardinality(U) /\ Cardinality(U) <= Cardinality(T)
    BY <1>1, <1>3, <1>4, FS_Subset
  <2>2. Cardinality(U) = Cardinality(T)
    BY <1>1, <2>1
  <2>. QED  BY <1>1, <1>4, <2>2, FS_Subset
<1>. QED  BY <1>1, <1>4

-----------------------------------------------------------------------------
(***************************************************************************)
(* The fold is a sum                                                        *)
(***************************************************************************)

\* The element the fold takes next, and what it leaves.
Taken(s) == CHOOSE x \in s : TRUE
Left(s) == s \ {Taken(s)}

\* g is the fold of f over every subset of S.
IsFold(f, S, g) ==
  g = [s \in SUBSET S |-> IF s = {} THEN 0 ELSE f[Taken(s)] + g[Left(s)]]

LEMMA LeftIs == ASSUME NEW s, s # {} PROVE Taken(s) \in s /\ Left(s) \subseteq s /\ Left(s) # s
  BY DEF Taken, Left

LEMMA FoldsAgree ==
  ASSUME NEW f, NEW S, NEW g, IsFold(f, S, g), NEW T, NEW h, IsFold(f, T, h),
         IsFiniteSet(S), NEW s, s \subseteq S, s \subseteq T
  PROVE  g[s] = h[s]
<1>. DEFINE B == {u \in SUBSET s : g[u] # h[u]}
<1>0. \A u \in B : u \subseteq s
  OBVIOUS
<1>1. IsFiniteSet(s)
  BY FS_Subset
<1>2. CASE B = {}
  BY <1>2
<1>3. CASE B # {}
  <2>. HIDE DEF B
  <2>0. \E u \in B : \A v \in B : v \subseteq u => v = u
    BY <1>1, <1>3, <1>0, Smallest
  <2>. USE DEF B
  <2>1. PICK u \in B : \A v \in B : v \subseteq u => v = u
    BY <2>0
  <2>2. u \subseteq S /\ u \subseteq T
    OBVIOUS
  <2>3. u # {}
    BY <2>2 DEF IsFold
  <2>4. g[Left(u)] = h[Left(u)]
    BY <2>1, <2>3, LeftIs
  <2>. QED  BY <2>2, <2>3, <2>4 DEF IsFold
<1>. QED  BY <1>2, <1>3

LEMMA FoldExists ==
  ASSUME NEW f, NEW S, IsFiniteSet(S)
  PROVE  \E g : IsFold(f, S, g)
<1>. DEFINE B == {T \in SUBSET S : ~ \E g : IsFold(f, T, g)}
<1>0. \A T \in B : T \subseteq S
  OBVIOUS
<1>1. CASE B = {}
  BY <1>1
<1>2. CASE B # {}
  <2>. HIDE DEF B
  <2>0. \E T \in B : \A U \in B : U \subseteq T => U = T
    BY <1>2, <1>0, Smallest
  <2>. USE DEF B
  <2>1. PICK T \in B : \A U \in B : U \subseteq T => U = T
    BY <2>0
  <2>2. \A U : U \subseteq T /\ U # T => (\E g : IsFold(f, U, g)) /\ IsFiniteSet(U)
    BY <2>1, FS_Subset
  <2>. DEFINE F(U) == CHOOSE g : IsFold(f, U, g)
              Total(s) == IF s = {} THEN 0 ELSE f[Taken(s)] + F(Left(s))[Left(s)]
              g == [s \in SUBSET T |-> Total(s)]
  <2>3. \A U : U \subseteq T /\ U # T => IsFold(f, U, F(U))
    BY <2>2
  <2>. HIDE DEF F
  <2>4. ASSUME NEW s, s \subseteq T, s # T PROVE F(s)[s] = Total(s)
    <3>1. CASE s = {}
      BY <2>3, <2>4, <3>1 DEF IsFold
    <3>2. CASE s # {}
      <4>1. Left(s) \subseteq s /\ Left(s) # s /\ Left(s) \subseteq T /\ Left(s) # T
        BY <2>4, <3>2, LeftIs
      <4>2. IsFold(f, s, F(s)) /\ IsFold(f, Left(s), F(Left(s))) /\ IsFiniteSet(s)
        BY <2>2, <2>3, <2>4, <4>1
      <4>3. F(s)[Left(s)] = F(Left(s))[Left(s)]
        BY <4>1, <4>2, FoldsAgree
      <4>4. F(s)[s] = f[Taken(s)] + F(s)[Left(s)]
        BY <3>2, <4>2 DEF IsFold
      <4>. QED  BY <3>2, <4>3, <4>4
    <3>. QED  BY <3>1, <3>2
  <2>5. \A s : s \subseteq T /\ s # {} => g[Left(s)] = F(Left(s))[Left(s)]
    <3>1. \A s : s \subseteq T /\ s # {} => Left(s) \subseteq T /\ Left(s) # T
      BY LeftIs
    <3>. QED  BY <2>4, <3>1
  <2>6. IsFold(f, T, g)
    BY <2>5 DEF IsFold
  <2>. QED  BY <2>6
<1>. QED  BY <1>1, <1>2

LEMMA SumUnfolds ==
  ASSUME NEW f, NEW S, IsFiniteSet(S)
  PROVE  SumFunctionOnSet(f, S) =
           IF S = {} THEN 0 ELSE f[Taken(S)] + SumFunctionOnSet(f, Left(S))
<1>. DEFINE F(T) == CHOOSE g : IsFold(f, T, g)
<1>1. \A T : SumFunctionOnSet(f, T) = F(T)[T]
  BY DEF SumFunctionOnSet, FoldFunctionOnSet, MapThenFoldSet, IsFold, Taken, Left
<1>2. \A T \in SUBSET S : IsFold(f, T, F(T))
  BY FoldExists, FS_Subset
<1>. HIDE DEF F
<1>3. CASE S = {}
  BY <1>1, <1>2, <1>3 DEF IsFold
<1>4. CASE S # {}
  <2>1. Left(S) \subseteq S
    BY <1>4, LeftIs
  <2>2. F(S)[Left(S)] = F(Left(S))[Left(S)]
    BY <1>2, <2>1, FoldsAgree
  <2>3. F(S)[S] = f[Taken(S)] + F(S)[Left(S)]
    BY <1>2, <1>4 DEF IsFold
  <2>. QED  BY <1>1, <1>4, <2>2, <2>3
<1>. QED  BY <1>3, <1>4

LEMMA SumOfNone == ASSUME NEW f PROVE SumFunctionOnSet(f, {}) = 0
  BY SumUnfolds, FS_EmptySet

LEMMA SumIsNat ==
  ASSUME NEW S, IsFiniteSet(S), NEW f, \A x \in S : f[x] \in Nat
  PROVE  SumFunctionOnSet(f, S) \in Nat
<1>. DEFINE B == {T \in SUBSET S : SumFunctionOnSet(f, T) \notin Nat}
<1>0. \A T \in B : T \subseteq S
  OBVIOUS
<1>1. CASE B = {}
  BY <1>1
<1>2. CASE B # {}
  <2>. HIDE DEF B
  <2>0. \E T \in B : IsFiniteSet(T) /\ \A U \in B : U \subseteq T => U = T
    BY <1>2, <1>0, Smallest
  <2>. USE DEF B
  <2>1. PICK T \in B : IsFiniteSet(T) /\ \A U \in B : U \subseteq T => U = T
    BY <2>0
  <2>2. T # {}
    BY SumOfNone
  <2>3. Taken(T) \in S /\ SumFunctionOnSet(f, Left(T)) \in Nat
    BY <2>1, <2>2, LeftIs
  <2>. QED  BY <2>1, <2>2, <2>3, SumUnfolds
<1>. QED  BY <1>1, <1>2

-----------------------------------------------------------------------------
(***************************************************************************)
(* What a sum is when its parts change                                      *)
(***************************************************************************)

\* The order does not matter: any element can be taken first.
LEMMA SumTakes ==
  ASSUME NEW S, IsFiniteSet(S), NEW f, \A x \in S : f[x] \in Nat, NEW x \in S
  PROVE  SumFunctionOnSet(f, S) = f[x] + SumFunctionOnSet(f, S \ {x})
<1>. DEFINE Sum(T) == SumFunctionOnSet(f, T)
            B == {T \in SUBSET S : \E y \in T : Sum(T) # f[y] + Sum(T \ {y})}
<1>0. \A T \in B : T \subseteq S
  OBVIOUS
<1>1. CASE B = {}
  BY <1>1
<1>2. CASE B # {}
  <2>. HIDE DEF B
  <2>0. \E T \in B : IsFiniteSet(T) /\ \A U \in B : U \subseteq T => U = T
    BY <1>2, <1>0, Smallest
  <2>. USE DEF B
  <2>1. PICK T \in B : IsFiniteSet(T) /\ \A U \in B : U \subseteq T => U = T
    BY <2>0
  <2>2. PICK y \in T : Sum(T) # f[y] + Sum(T \ {y})
    OBVIOUS
  <2>. DEFINE z == Taken(T)
  <2>3. z \in T /\ T # {} /\ Left(T) = T \ {z}
    BY LeftIs DEF Left
  <2>4. Sum(T) = f[z] + Sum(T \ {z})
    BY <2>1, <2>3, SumUnfolds
  <2>5. \A U \in SUBSET S : Sum(U) \in Nat
    BY SumIsNat, FS_Subset
  <2>. HIDE DEF Sum, z
  <2>6. y # z
    BY <2>2, <2>4
  <2>. DEFINE rest == (T \ {y}) \ {z}
  <2>7. Sum(T \ {z}) = f[y] + Sum(rest)
    <3>1. T \ {z} \notin B /\ T \ {z} \in SUBSET S /\ y \in T \ {z}
      BY <2>1, <2>3, <2>6
    <3>2. (T \ {z}) \ {y} = rest
      OBVIOUS
    <3>. QED  BY <3>1, <3>2
  <2>8. Sum(T \ {y}) = f[z] + Sum(rest)
    <3>1. T \ {y} \notin B /\ T \ {y} \in SUBSET S /\ z \in T \ {y}
      BY <2>1, <2>3, <2>6
    <3>. QED  BY <3>1
  <2>9. f[y] \in Nat /\ f[z] \in Nat /\ Sum(rest) \in Nat
    BY <2>3, <2>5
  <2>. QED  BY <2>2, <2>4, <2>7, <2>8, <2>9
<1>. QED  BY <1>1, <1>2

\* A sum grows with its parts.
LEMMA SumGrows ==
  ASSUME NEW S, IsFiniteSet(S), NEW f, NEW g,
         \A x \in S : f[x] \in Nat /\ g[x] \in Nat /\ f[x] <= g[x]
  PROVE  SumFunctionOnSet(f, S) <= SumFunctionOnSet(g, S)
<1>. DEFINE B == {T \in SUBSET S : ~(SumFunctionOnSet(f, T) <= SumFunctionOnSet(g, T))}
<1>0. \A T \in B : T \subseteq S
  OBVIOUS
<1>1. CASE B = {}
  BY <1>1
<1>2. CASE B # {}
  <2>. HIDE DEF B
  <2>0. \E T \in B : IsFiniteSet(T) /\ \A U \in B : U \subseteq T => U = T
    BY <1>2, <1>0, Smallest
  <2>. USE DEF B
  <2>1. PICK T \in B : IsFiniteSet(T) /\ \A U \in B : U \subseteq T => U = T
    BY <2>0
  <2>2. T # {}
    BY SumOfNone
  <2>3. /\ Taken(T) \in S
        /\ SumFunctionOnSet(f, Left(T)) <= SumFunctionOnSet(g, Left(T))
    BY <2>1, <2>2, LeftIs
  <2>4. SumFunctionOnSet(f, Left(T)) \in Nat /\ SumFunctionOnSet(g, Left(T)) \in Nat
    <3>1. Left(T) \subseteq S /\ IsFiniteSet(Left(T))
      BY <2>1, <2>2, LeftIs, FS_Subset
    <3>. QED  BY <3>1, SumIsNat
  <2>. QED  BY <2>1, <2>2, <2>3, <2>4, SumUnfolds
<1>. QED  BY <1>1, <1>2

LEMMA SumSame ==
  ASSUME NEW S, IsFiniteSet(S), NEW f, NEW g, \A x \in S : f[x] \in Nat /\ f[x] = g[x]
  PROVE  SumFunctionOnSet(f, S) = SumFunctionOnSet(g, S)
<1>1. SumFunctionOnSet(f, S) \in Nat /\ SumFunctionOnSet(g, S) \in Nat
  BY SumIsNat
<1>2. /\ SumFunctionOnSet(f, S) <= SumFunctionOnSet(g, S)
      /\ SumFunctionOnSet(g, S) <= SumFunctionOnSet(f, S)
  BY SumGrows
<1>. QED  BY <1>1, <1>2

\* One part changes, or is new.
LEMMA SumChanges ==
  ASSUME NEW S, IsFiniteSet(S), NEW f, \A y \in S : f[y] \in Nat,
         NEW x, NEW g, \A y \in S \ {x} : g[y] = f[y], g[x] \in Nat
  PROVE  SumFunctionOnSet(g, S \cup {x}) =
           g[x] + (SumFunctionOnSet(f, S) - (IF x \in S THEN f[x] ELSE 0))
<1>1. IsFiniteSet(S \ {x}) /\ IsFiniteSet(S \cup {x})
  BY FS_AddElement, FS_RemoveElement
<1>2. SumFunctionOnSet(g, S \cup {x}) = g[x] + SumFunctionOnSet(g, S \ {x})
  <2>1. (S \cup {x}) \ {x} = S \ {x} /\ \A y \in S \cup {x} : g[y] \in Nat
    OBVIOUS
  <2>. QED  BY <1>1, <2>1, SumTakes
<1>3. SumFunctionOnSet(g, S \ {x}) = SumFunctionOnSet(f, S \ {x})
  BY <1>1, SumSame
<1>4. SumFunctionOnSet(f, S \ {x}) \in Nat
  BY <1>1, SumIsNat
<1>5. CASE x \in S
  <2>1. SumFunctionOnSet(f, S) = f[x] + SumFunctionOnSet(f, S \ {x})
    BY <1>5, SumTakes
  <2>. QED  BY <1>2, <1>3, <1>4, <1>5, <2>1
<1>6. CASE x \notin S
  <2>1. S \ {x} = S
    BY <1>6
  <2>2. SumFunctionOnSet(g, S \cup {x}) = g[x] + SumFunctionOnSet(f, S)
    BY <1>2, <1>3, <2>1
  <2>3. SumFunctionOnSet(f, S) \in Nat
    BY <1>4, <2>1
  <2>. QED  BY <1>6, <2>2, <2>3
<1>. QED  BY <1>5, <1>6

\* One part grows, or one that is not in the sum.
LEMMA SumAdds ==
  ASSUME NEW S, IsFiniteSet(S), NEW f, \A y \in S : f[y] \in Nat, NEW x, NEW n \in Nat,
         NEW g, \A y \in S : g[y] = f[y] + (IF y = x THEN n ELSE 0)
  PROVE  /\ SumFunctionOnSet(f, S) \in Nat
         /\ SumFunctionOnSet(g, S) = SumFunctionOnSet(f, S) + (IF x \in S THEN n ELSE 0)
<1>1. SumFunctionOnSet(f, S) \in Nat
  BY SumIsNat
<1>2. CASE x \in S
  <2>1. S \cup {x} = S /\ f[x] \in Nat /\ g[x] = f[x] + n /\ g[x] \in Nat
    BY <1>2
  <2>2. \A y \in S \ {x} : g[y] = f[y]
    OBVIOUS
  <2>3. SumFunctionOnSet(g, S \cup {x}) =
          g[x] + (SumFunctionOnSet(f, S) - (IF x \in S THEN f[x] ELSE 0))
    BY <2>1, <2>2, SumChanges
  <2>4. SumFunctionOnSet(g, S) = g[x] + (SumFunctionOnSet(f, S) - f[x])
    BY <1>2, <2>1, <2>3
  <2>. QED  BY <1>1, <1>2, <2>1, <2>4
<1>3. CASE x \notin S
  <2>1. \A y \in S : f[y] \in Nat /\ f[y] = g[y]
    BY <1>3
  <2>2. SumFunctionOnSet(f, S) = SumFunctionOnSet(g, S)
    BY <2>1, SumSame
  <2>. QED  BY <1>1, <1>3, <2>2
<1>. QED  BY <1>2, <1>3

\* What is nothing adds nothing.
LEMMA SumSkips ==
  ASSUME NEW S, IsFiniteSet(S), NEW f, \A x \in S : f[x] \in Nat,
         NEW T \in SUBSET S, \A x \in S \ T : f[x] = 0
  PROVE  SumFunctionOnSet(f, S) = SumFunctionOnSet(f, T)
<1>. DEFINE B == {U \in SUBSET S : SumFunctionOnSet(f, U) # SumFunctionOnSet(f, U \cap T)}
<1>0. \A U \in B : U \subseteq S
  OBVIOUS
<1>1. CASE B = {}
  <2>1. S \notin B /\ S \cap T = T
    BY <1>1
  <2>. QED  BY <2>1
<1>2. CASE B # {}
  <2>. HIDE DEF B
  <2>0. \E U \in B : IsFiniteSet(U) /\ \A V \in B : V \subseteq U => V = U
    BY <1>0, <1>2, Smallest
  <2>. USE DEF B
  <2>1. PICK U \in B : IsFiniteSet(U) /\ \A V \in B : V \subseteq U => V = U
    BY <2>0
  <2>2. U # {}
    OBVIOUS
  <2>3. PICK x \in U : TRUE
    BY <2>2
  <2>4. \A V \in SUBSET S : SumFunctionOnSet(f, V) \in Nat
    BY SumIsNat, FS_Subset
  <2>5. SumFunctionOnSet(f, U \ {x}) = SumFunctionOnSet(f, (U \ {x}) \cap T)
    BY <2>1, <2>3
  <2>6. SumFunctionOnSet(f, U) = f[x] + SumFunctionOnSet(f, U \ {x})
    BY <2>1, <2>3, SumTakes
  <2>7. CASE x \in T
    <3>1. IsFiniteSet(U \cap T) /\ x \in U \cap T /\ \A y \in U \cap T : f[y] \in Nat
      BY <2>1, <2>3, <2>7, FS_Subset
    <3>2. SumFunctionOnSet(f, U \cap T) = f[x] + SumFunctionOnSet(f, (U \cap T) \ {x})
      BY <3>1, SumTakes
    <3>3. (U \cap T) \ {x} = (U \ {x}) \cap T
      OBVIOUS
    <3>. QED  BY <2>1, <2>5, <2>6, <3>2, <3>3
  <2>8. CASE x \notin T
    <3>1. (U \ {x}) \cap T = U \cap T /\ f[x] = 0 /\ U \ {x} \in SUBSET S
      BY <2>3, <2>8
    <3>2. SumFunctionOnSet(f, U) = SumFunctionOnSet(f, U \ {x})
      BY <2>4, <2>6, <3>1
    <3>. QED  BY <2>1, <2>5, <3>1, <3>2
  <2>. QED  BY <2>7, <2>8
<1>. QED  BY <1>1, <1>2

LEMMA SumOfZeros ==
  ASSUME NEW S, IsFiniteSet(S), NEW f, \A x \in S : f[x] = 0
  PROVE  SumFunctionOnSet(f, S) = 0
<1>1. SumFunctionOnSet(f, S) = SumFunctionOnSet(f, {})
  BY SumSkips
<1>. QED  BY <1>1, SumOfNone

\* The same parts under other names.
LEMMA SumRenames ==
  ASSUME NEW S, IsFiniteSet(S), NEW h, \A x, y \in S : h[x] = h[y] => x = y,
         NEW f, NEW g, \A x \in S : f[x] \in Nat /\ g[h[x]] = f[x]
  PROVE  SumFunctionOnSet(f, S) = SumFunctionOnSet(g, {h[x] : x \in S})
<1>. DEFINE Image(U) == {h[x] : x \in U}
            B == {U \in SUBSET S : SumFunctionOnSet(f, U) # SumFunctionOnSet(g, Image(U))}
<1>0. \A U \in B : U \subseteq S
  OBVIOUS
<1>1. CASE B = {}
  <2>1. S \notin B
    BY <1>1
  <2>. QED  BY <2>1
<1>2. CASE B # {}
  <2>. HIDE DEF B
  <2>0. \E U \in B : IsFiniteSet(U) /\ \A V \in B : V \subseteq U => V = U
    BY <1>0, <1>2, Smallest
  <2>. USE DEF B
  <2>1. PICK U \in B : IsFiniteSet(U) /\ \A V \in B : V \subseteq U => V = U
    BY <2>0
  <2>2. U # {}
    BY SumOfNone
  <2>3. PICK x \in U : TRUE
    BY <2>2
  <2>4. SumFunctionOnSet(f, U \ {x}) = SumFunctionOnSet(g, Image(U \ {x}))
    BY <2>1, <2>3
  <2>5. SumFunctionOnSet(f, U) = f[x] + SumFunctionOnSet(f, U \ {x})
    BY <2>1, <2>3, SumTakes
  <2>6. SumFunctionOnSet(g, Image(U)) = g[h[x]] + SumFunctionOnSet(g, Image(U) \ {h[x]})
    <3>1. IsFiniteSet(Image(U))
      <4>1. [u \in U |-> h[u]] \in Surjection(U, Image(U))
        BY DEF Surjection
      <4>. QED  BY <2>1, <4>1, FS_Surjection
    <3>2. h[x] \in Image(U) /\ \A v \in Image(U) : g[v] \in Nat
      BY <2>1, <2>3
    <3>. HIDE DEF Image
    <3>. QED  BY <3>1, <3>2, SumTakes
  <2>7. Image(U) \ {h[x]} = Image(U \ {x})
    BY <2>1, <2>3
  <2>. QED  BY <2>1, <2>3, <2>4, <2>5, <2>6, <2>7
<1>. QED  BY <1>1, <1>2

-----------------------------------------------------------------------------
(***************************************************************************)
(* Choosing from a sequence, as Counters::expire does                       *)
(***************************************************************************)

\* g[n] is what is later than c of the first n elements of s.
IsChosen(g, s, c, n) ==
  g = [i \in 0 .. n |->
         IF i = 0 THEN <<>>
         ELSE IF s[i].at > c THEN Append(g[i - 1], s[i]) ELSE g[i - 1]]

LEMMA ChoiceExists ==
  ASSUME NEW s, NEW c, NEW n \in Nat
  PROVE  \E g : IsChosen(g, s, c, n)
<1>. DEFINE B == {m \in Nat : ~ \E g : IsChosen(g, s, c, m)}
<1>1. CASE B = {}
  BY <1>1
<1>2. CASE B # {}
  <2>1. PICK m \in B : \A l \in B : m <= l
    <3>1. B \in SUBSET Nat
      OBVIOUS
    <3>. HIDE DEF B
    <3>. QED  BY <1>2, <3>1, Least
  <2>2. CASE m = 0
    <3>1. IsChosen([i \in 0 .. 0 |-> <<>>], s, c, 0)
      BY DEF IsChosen
    <3>. QED  BY <2>2, <3>1
  <2>3. CASE m # 0
    <3>1. m - 1 \in Nat /\ m - 1 \notin B
      BY <2>1, <2>3
    <3>2. PICK g : IsChosen(g, s, c, m - 1)
      BY <3>1
    <3>. DEFINE h == [i \in 0 .. m |->
                        IF i < m THEN g[i]
                        ELSE IF s[m].at > c THEN Append(g[m - 1], s[m])
                                          ELSE g[m - 1]]
    <3>3. ASSUME NEW i \in 0 .. m
          PROVE  h[i] = IF i = 0 THEN <<>>
                        ELSE IF s[i].at > c THEN Append(h[i - 1], s[i])
                                               ELSE h[i - 1]
      <4>1. CASE i = m
        <5>1. m - 1 \in 0 .. m /\ m - 1 < m /\ m \in 0 .. m
          BY <3>1
        <5>. QED  BY <2>3, <4>1, <5>1
      <4>2. CASE i # m
        <5>1. i \in 0 .. m - 1 /\ i < m /\ (i # 0 => i - 1 \in 0 .. m /\ i - 1 < m)
          BY <3>1, <4>2
        <5>2. g[i] = IF i = 0 THEN <<>>
                     ELSE IF s[i].at > c THEN Append(g[i - 1], s[i])
                                              ELSE g[i - 1]
          BY <3>2, <5>1 DEF IsChosen
        <5>. QED  BY <5>1, <5>2
      <4>. QED  BY <4>1, <4>2
    <3>4. h = [i \in 0 .. m |-> h[i]]
      OBVIOUS
    <3>. HIDE DEF h
    <3>. QED  BY <3>3, <3>4 DEF IsChosen
  <2>. QED  BY <2>2, <2>3
<1>. QED  BY <1>1, <1>2

LEMMA SumAppends ==
  ASSUME NEW n \in Nat, NEW f, NEW g,
         \A i \in 1 .. n : f[i] \in Nat /\ g[i] = f[i], g[n + 1] \in Nat
  PROVE  SumFunctionOnSet(g, 1 .. n + 1) = SumFunctionOnSet(f, 1 .. n) + g[n + 1]
<1>1. /\ IsFiniteSet(1 .. n) /\ n + 1 \notin 1 .. n
      /\ 1 .. n + 1 = (1 .. n) \cup {n + 1}
  <2>1. IsFiniteSet(1 .. n)
    BY FS_Interval
  <2>. QED  BY <2>1
<1>2. \A i \in (1 .. n) \ {n + 1} : g[i] = f[i]
  OBVIOUS
<1>3. \A i \in 1 .. n : f[i] \in Nat
  OBVIOUS
<1>4. SumFunctionOnSet(g, (1 .. n) \cup {n + 1}) =
        g[n + 1] + (SumFunctionOnSet(f, 1 .. n) - (IF n + 1 \in 1 .. n THEN f[n + 1] ELSE 0))
  BY <1>1, <1>2, <1>3, SumChanges
<1>5. SumFunctionOnSet(f, 1 .. n) \in Nat
  BY <1>1, <1>3, SumIsNat
<1>6. SumFunctionOnSet(g, 1 .. n + 1) = g[n + 1] + (SumFunctionOnSet(f, 1 .. n) - 0)
  BY <1>1, <1>4
<1>. QED  BY <1>5, <1>6

-----------------------------------------------------------------------------
(***************************************************************************)
(* Recursive definitions define something                                   *)
(***************************************************************************)

\* A function defined at x by its value at h[x], where a measure is smaller.
Recursion(X, A, Stop, mu, h, c, H) ==
  /\ Stop \in SUBSET X /\ mu \in [X -> Nat] /\ h \in [X -> X]
  /\ \A x \in X \ Stop : mu[h[x]] < mu[x]
  /\ c \in [X -> A] /\ H \in [X \X A -> A]

LEMMA RecursionExists ==
  ASSUME NEW X, NEW A, NEW Stop, NEW mu, NEW h, NEW c, NEW H,
         Recursion(X, A, Stop, mu, h, c, H)
  PROVE  \E f \in [X -> A] : \A x \in X : f[x] = IF x \in Stop THEN c[x] ELSE H[<<x, f[h[x]]>>]
<1>0. /\ Stop \in SUBSET X /\ mu \in [X -> Nat] /\ h \in [X -> X]
      /\ \A x \in X \ Stop : mu[h[x]] < mu[x]
      /\ c \in [X -> A] /\ H \in [X \X A -> A]
  BY DEF Recursion
<1>. USE <1>0
<1>. DEFINE Below(n) == {x \in X : mu[x] < n}
            Good(f, n) == /\ f \in [Below(n) -> A]
                          /\ \A x \in Below(n) : f[x] = IF x \in Stop THEN c[x] ELSE H[<<x, f[h[x]]>>]
<1>1. ASSUME NEW n \in Nat, NEW m \in Nat, NEW f, NEW g, Good(f, n), Good(g, m),
             NEW y \in Below(n) \cap Below(m)
      PROVE  f[y] = g[y]
  <2>. DEFINE B == {k \in Nat : \E x \in Below(n) \cap Below(m) : mu[x] = k /\ f[x] # g[x]}
  <2>1. CASE B = {}
    BY <2>1
  <2>2. CASE B # {}
    <3>1. B \in SUBSET Nat
      OBVIOUS
    <3>. HIDE DEF B
    <3>2. \E k \in B : \A l \in B : k <= l
      BY <2>2, <3>1, Least
    <3>. USE DEF B
    <3>3. PICK k \in B : \A l \in B : k <= l
      BY <3>2
    <3>4. PICK x \in Below(n) \cap Below(m) : mu[x] = k /\ f[x] # g[x]
      OBVIOUS
    <3>5. x \notin Stop
      BY <1>1, <3>4
    <3>6. h[x] \in X /\ mu[h[x]] \in Nat /\ mu[h[x]] < mu[x] /\ mu[x] < n /\ mu[x] < m /\ mu[x] \in Nat
      BY <3>5
    <3>7. h[x] \in Below(n) \cap Below(m)
      BY <3>6
    <3>8. f[h[x]] = g[h[x]]
      BY <3>3, <3>4, <3>6, <3>7
    <3>. QED  BY <1>1, <3>4, <3>5, <3>8
  <2>. QED  BY <2>1, <2>2
<1>2. ASSUME NEW n \in Nat
      PROVE  \E f : Good(f, n)
  <2>. DEFINE B == {k \in Nat : ~ \E f : Good(f, k)}
  <2>1. CASE B = {}
    BY <2>1
  <2>2. CASE B # {}
    <3>1. B \in SUBSET Nat
      OBVIOUS
    <3>. HIDE DEF B
    <3>2. \E k \in B : \A l \in B : k <= l
      BY <2>2, <3>1, Least
    <3>. USE DEF B
    <3>3. PICK k \in B : \A l \in B : k <= l
      BY <3>2
    <3>4. k # 0
      <4>1. Below(0) = {}
        OBVIOUS
      <4>2. Good([x \in {} |-> x], 0)
        BY <4>1
      <4>. HIDE DEF Good
      <4>3. 0 \notin B
        BY <4>2
      <4>. QED  BY <4>3
    <3>5. k - 1 \in Nat /\ k - 1 \notin B
      <4>. HIDE DEF B
      <4>. QED  BY <3>1, <3>3, <3>4
    <3>6. PICK f : Good(f, k - 1)
      <4>. HIDE DEF Good
      <4>. QED  BY <3>5
    <3>. DEFINE g == [x \in Below(k) |->
                        IF x \in Below(k - 1) THEN f[x]
                        ELSE IF x \in Stop THEN c[x] ELSE H[<<x, f[h[x]]>>]]
    <3>7. \A x \in Below(k) \ Stop : h[x] \in Below(k - 1) /\ h[x] \in Below(k)
      <4>1. \A x \in Below(k) \ Stop : h[x] \in X /\ mu[h[x]] \in Nat /\ mu[x] \in Nat /\ mu[h[x]] < mu[x]
        OBVIOUS
      <4>. QED  BY <3>5, <4>1
    <3>8. \A x \in Below(k) \ Stop : g[h[x]] = f[h[x]] /\ f[h[x]] \in A
      BY <3>6, <3>7
    <3>9. \A x \in Below(k) : g[x] = IF x \in Stop THEN c[x] ELSE H[<<x, g[h[x]]>>]
      <4>1. \A x \in Below(k - 1) : f[x] = IF x \in Stop THEN c[x] ELSE H[<<x, f[h[x]]>>]
        BY <3>6
      <4>. QED  BY <3>8, <4>1
    <3>10. \A x \in Below(k) : g[x] \in A
      <4>. HIDE DEF g
      <4>. QED  BY <3>8, <3>9
    <3>11. Good(g, k)
      <4>1. g \in [Below(k) -> A]
        BY <3>10
      <4>. HIDE DEF g
      <4>. QED  BY <3>9, <4>1
    <3>. QED  BY <3>11
  <2>. QED  BY <2>1, <2>2
<1>. DEFINE F(n) == CHOOSE f : Good(f, n)
            f == [x \in X |-> F(mu[x] + 1)[x]]
<1>3. \A n \in Nat : Good(F(n), n)
  BY <1>2
<1>4. \A x \in X : mu[x] \in Nat /\ x \in Below(mu[x] + 1)
  OBVIOUS
<1>. HIDE DEF F
<1>5. ASSUME NEW n \in Nat, NEW x \in Below(n)
      PROVE  /\ F(n)[x] \in A
             /\ F(n)[x] = IF x \in Stop THEN c[x] ELSE H[<<x, F(n)[h[x]]>>]
  BY <1>3
<1>6. ASSUME NEW x \in X
      PROVE  f[x] \in A /\ f[x] = IF x \in Stop THEN c[x] ELSE H[<<x, f[h[x]]>>]
  <2>. DEFINE n == mu[x] + 1
              m == mu[h[x]] + 1
  <2>1. /\ n \in Nat /\ x \in Below(n) /\ h[x] \in X /\ m \in Nat /\ h[x] \in Below(m)
        /\ f[x] = F(n)[x] /\ f[h[x]] = F(m)[h[x]]
    BY <1>4
  <2>2. x \notin Stop => h[x] \in Below(n)
    BY <1>4
  <2>. HIDE DEF n, m, f
  <2>3. x \notin Stop => F(n)[h[x]] = F(m)[h[x]]
    <3>1. Good(F(n), n) /\ Good(F(m), m)
      BY <1>3, <2>1
    <3>. HIDE DEF Good, Below
    <3>. QED  BY <1>1, <2>1, <2>2, <3>1
  <2>4. /\ F(n)[x] \in A
        /\ F(n)[x] = IF x \in Stop THEN c[x] ELSE H[<<x, F(n)[h[x]]>>]
    BY <1>5, <2>1
  <2>. QED  BY <2>1, <2>3, <2>4
<1>7. f \in [X -> A]
  BY <1>6
<1>. QED  BY <1>6, <1>7
=============================================================================
