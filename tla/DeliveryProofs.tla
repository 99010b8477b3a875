--------------------------- MODULE DeliveryProofs ---------------------------
(***************************************************************************)
(* Theorems about Delivery.  The SMTP dialogue in it, for every list of      *)
(* recipients, with and without authentication, and for every relay; and the *)
(* traps that go before it, read back by a receiver, for every trap, every   *)
(* community and octets of every size.                                      *)
(***************************************************************************)
EXTENDS Delivery, Sums, SequenceTheorems

-----------------------------------------------------------------------------
(***************************************************************************)
(* Sequences                                                                *)
(***************************************************************************)

LEMMA Concat ==
  ASSUME NEW S, NEW p \in Seq(S), NEW q \in Seq(S)
  PROVE  /\ p \o q \in Seq(S) /\ Len(p \o q) = Len(p) + Len(q)
         /\ \A i \in 1 .. Len(p) : (p \o q)[i] = p[i]
         /\ \A i \in 1 .. Len(q) : (p \o q)[Len(p) + i] = q[i]
<1>. DEFINE s == p \o q
            m == Len(p)
            n == Len(q)
<1>1. /\ s \in Seq(S) /\ Len(s) = m + n /\ m \in Nat /\ n \in Nat
      /\ \A i \in 1 .. m + n : s[i] = IF i <= m THEN p[i] ELSE q[i - m]
  BY ConcatProperties
<1>. HIDE DEF s, m, n
<1>2. \A i \in 1 .. n : m + i \in 1 .. m + n /\ ~(m + i <= m) /\ (m + i) - m = i
  BY <1>1
<1>3. \A i \in 1 .. m : i \in 1 .. m + n /\ i <= m
  BY <1>1
<1>4. /\ \A i \in 1 .. m : s[i] = p[i]
      /\ \A i \in 1 .. n : s[m + i] = q[i]
  BY <1>1, <1>2, <1>3
<1>. QED  BY <1>1, <1>4 DEF s, m, n

\* An element appended is a sequence of one joined.
LEMMA Appended ==
  ASSUME NEW S, NEW p \in Seq(S), NEW a \in S
  PROVE  p \o <<a>> = Append(p, a)
<1>. DEFINE q == <<a>>
            s == p \o q
            t == Append(p, a)
            n == Len(p)
<1>1. n \in Nat /\ q \in Seq(S) /\ Len(q) = 1 /\ q[1] = a
  OBVIOUS
<1>2. t \in Seq(S) /\ Len(t) = n + 1 /\ t[n + 1] = a /\ \A i \in 1 .. n : t[i] = p[i]
  OBVIOUS
<1>. HIDE DEF q, t
<1>3. s \in Seq(S) /\ Len(s) = Len(p) + Len(q)
      /\ (\A i \in 1 .. Len(p) : s[i] = p[i]) /\ \A i \in 1 .. Len(q) : s[Len(p) + i] = q[i]
  <2>1. p \in Seq(S) /\ q \in Seq(S)
    BY <1>1
  <2>. QED  BY ONLY <2>1, Concat
<1>. HIDE DEF s, n
<1>4. s[n + 1] = a
  <2>1. 1 \in 1 .. Len(q)
    BY <1>1
  <2>. QED  BY <1>1, <1>3, <2>1 DEF n
<1>5. \A i \in 1 .. n + 1 : s[i] = t[i]
  <2>1. \A i \in 1 .. n + 1 : i # n + 1 => i \in 1 .. n
    BY <1>1
  <2>. QED  BY <1>2, <1>3, <1>4, <2>1 DEF n
<1>6. s = t
  <2>1. Len(s) = n + 1
    BY <1>1, <1>3 DEF n
  <2>. QED  BY <1>2, <1>3, <1>5, <2>1, SeqEqual
<1>. QED  BY <1>6 DEF s, t, q

LEMMA Both ==
  ASSUME NEW S, NEW a \in S, NEW b \in S
  PROVE  <<a>> \o <<b>> = <<a, b>> /\ <<a, b>> \in Seq(S)
<1>. DEFINE p == <<a>>
            q == <<b>>
            s == p \o q
            t == <<a, b>>
<1>1. p \in Seq(S) /\ Len(p) = 1 /\ p[1] = a /\ q \in Seq(S) /\ Len(q) = 1 /\ q[1] = b
  OBVIOUS
<1>2. t \in Seq(S) /\ Len(t) = 2 /\ t[1] = a /\ t[2] = b
  OBVIOUS
<1>. HIDE DEF p, q, t
<1>3. s \in Seq(S) /\ Len(s) = Len(p) + Len(q)
      /\ (\A i \in 1 .. Len(p) : s[i] = p[i]) /\ \A i \in 1 .. Len(q) : s[Len(p) + i] = q[i]
  <2>1. p \in Seq(S) /\ q \in Seq(S)
    BY <1>1
  <2>. QED  BY ONLY <2>1, Concat
<1>. HIDE DEF s
<1>4. Len(s) = 2 /\ s[1] = a /\ s[2] = b
  <2>1. 1 \in 1 .. Len(p) /\ 1 \in 1 .. Len(q) /\ Len(p) + 1 = 2
    BY <1>1
  <2>. QED  BY <1>1, <1>3, <2>1
<1>5. s = t
  BY <1>2, <1>3, <1>4, SeqEqual
<1>. QED  BY <1>2, <1>5 DEF p, q, s, t

\* Growing a front by the element that follows it.
LEMMA FrontGrows ==
  ASSUME NEW S, NEW t \in Seq(S), NEW i \in 1 .. Len(t)
  PROVE  /\ SubSeq(t, 1, i - 1) \in Seq(S) /\ SubSeq(t, 1, i) \in Seq(S)
         /\ SubSeq(t, 1, i) = Append(SubSeq(t, 1, i - 1), t[i])
<1>. DEFINE a == SubSeq(t, 1, i - 1)
            b == SubSeq(t, 1, i)
            c == Append(a, t[i])
<1>1. i \in Nat /\ i > 0 /\ i <= Len(t) /\ Len(t) \in Nat /\ \A j \in 1 .. Len(t) : t[j] \in S
  OBVIOUS
<1>2. a \in Seq(S) /\ Len(a) = i - 1 /\ \A j \in 1 .. i - 1 : a[j] = t[j]
  <2>1. \A j \in 1 .. i - 1 : t[j] \in S
    BY <1>1
  <2>2. /\ a \in Seq(S) /\ Len(a) = IF 1 <= i - 1 THEN (i - 1) - 1 + 1 ELSE 0
        /\ \A j \in 1 .. (i - 1) - 1 + 1 : a[j] = t[1 + j - 1]
    BY <1>1, <2>1, SubSeqProperties
  <2>3. (i - 1) - 1 + 1 = i - 1 /\ \A j \in 1 .. i - 1 : 1 + j - 1 = j
    BY <1>1
  <2>. HIDE DEF a
  <2>. QED  BY <1>1, <2>2, <2>3
<1>3. b \in Seq(S) /\ Len(b) = i /\ \A j \in 1 .. i : b[j] = t[j]
  <2>1. \A j \in 1 .. i : t[j] \in S
    BY <1>1
  <2>2. /\ b \in Seq(S) /\ Len(b) = IF 1 <= i THEN i - 1 + 1 ELSE 0
        /\ \A j \in 1 .. i - 1 + 1 : b[j] = t[1 + j - 1]
    BY <1>1, <2>1, SubSeqProperties
  <2>3. i - 1 + 1 = i /\ \A j \in 1 .. i : 1 + j - 1 = j
    BY <1>1
  <2>. HIDE DEF b
  <2>. QED  BY <1>1, <2>2, <2>3
<1>. HIDE DEF a, b
<1>4. c \in Seq(S) /\ Len(c) = i /\ \A j \in 1 .. i : c[j] = IF j = i THEN t[i] ELSE a[j]
  BY <1>1, <1>2
<1>. HIDE DEF c
<1>5. \A j \in 1 .. i : b[j] = c[j]
  <2>1. \A j \in 1 .. i : j # i => j \in 1 .. i - 1
    BY <1>1
  <2>. QED  BY <1>2, <1>3, <1>4, <2>1
<1>6. b = c
  BY ONLY <1>3, <1>4, <1>5, SeqEqual
<1>. QED  BY <1>2, <1>3, <1>6 DEF a, b, c

\* A sequence from its first two elements and what is after them.
LEMMA FirstTwo ==
  ASSUME NEW S, NEW f \in Seq(S), NEW m \in Nat, Len(f) = 2 + m
  PROVE  f = <<f[1], f[2]>> \o [i \in 1 .. m |-> f[2 + i]]
<1>. DEFINE p == <<f[1], f[2]>>
            q == [i \in 1 .. m |-> f[2 + i]]
            s == p \o q
<1>1. f[1] \in S /\ f[2] \in S
  OBVIOUS
<1>2. p \in Seq(S) /\ Len(p) = 2 /\ p[1] = f[1] /\ p[2] = f[2]
  BY <1>1
<1>3. q \in Seq(S) /\ Len(q) = m /\ \A i \in 1 .. m : q[i] = f[2 + i]
  <2>1. \A i \in 1 .. m : f[2 + i] \in S
    OBVIOUS
  <2>. QED  BY <2>1
<1>. HIDE DEF p, q
<1>4. s \in Seq(S) /\ Len(s) = Len(p) + Len(q)
      /\ (\A i \in 1 .. Len(p) : s[i] = p[i]) /\ \A i \in 1 .. Len(q) : s[Len(p) + i] = q[i]
  <2>1. p \in Seq(S) /\ q \in Seq(S)
    BY <1>2, <1>3
  <2>. QED  BY ONLY <2>1, Concat
<1>. HIDE DEF s
<1>5. Len(s) = 2 + m /\ s[1] = f[1] /\ s[2] = f[2] /\ \A i \in 1 .. m : s[2 + i] = f[2 + i]
  <2>1. 1 \in 1 .. Len(p) /\ 2 \in 1 .. Len(p)
    BY <1>2
  <2>. QED  BY <1>2, <1>3, <1>4, <2>1
<1>6. \A i \in 1 .. Len(f) : f[i] = s[i]
  <2>1. \A i \in 1 .. Len(f) : i = 1 \/ i = 2 \/ (i - 2 \in 1 .. m /\ 2 + (i - 2) = i)
    OBVIOUS
  <2>. QED  BY <1>5, <2>1
<1>7. f = s
  BY <1>4, <1>5, <1>6, SeqEqual
<1>. QED  BY <1>7 DEF s, p, q

-----------------------------------------------------------------------------
(***************************************************************************)
(* The invariant                                                            *)
(***************************************************************************)

End == Len(Script)
Rcpts(n) == {Script[j].rcpt : j \in {i \in 1 .. n - 1 : Script[i].verb = "RCPT"}}

\* What the relay has done if it answered the client's command as it wanted.
Granted ==
  /\ Script[at].verb = "RCPT" => Script[at].rcpt \in envelope
  /\ Script[at].verb = "message" => taken = ToSet(To)

\* The relay answers the command the client is at, once, and what is left of
\* another answer never mixes with it.
OneAnswer ==
  /\ heard # 0 => heard = at /\ lines = <<>> /\ replying = 0
  /\ result = "none" /\ ~waiting => heard = 0 /\ lines = <<>> /\ (up => replying = 0)
  /\ at = 0 => ~waiting /\ heard = 0 /\ lines = <<>> /\ replying = 0

\* Every line of an answer has its digit, and the last one ends it.
AnswerIsHonest ==
  result = "none" /\ waiting =>
    /\ \A i \in DOMAIN lines :
         /\ lines[i].digit = Script[at].want => Granted
         /\ ~lines[i].more => i = Len(lines) /\ (up => replying = 0)
    /\ up /\ replying = Script[at].want => Granted

\* The client goes past a recipient only when the relay has accepted it.
EnvelopeIsComplete == at > 0 => Rcpts(at) \subseteq envelope

\* The message is taken once, at the end, for everybody; and ok means taken.
TakenOnce ==
  /\ taken # {} => /\ taken = ToSet(To) /\ at = End /\ heard = 0
                   /\ waiting \/ result # "none"
  /\ result = "ok" => taken = ToSet(To)

\* The shapes, in parts.
Places ==
  /\ at \in 0 .. End /\ heard \in 0 .. End
  /\ idle \in 0 .. Step /\ pieces \in 0 .. MaxPieces
Flags ==
  /\ waiting \in BOOLEAN /\ up \in BOOLEAN
  /\ result \in {"none", "ok", "failed"} /\ replying \in {0, 2, 3, 5}
Lines == [digit : {2, 3, 5}, more : BOOLEAN]
LinesTyped == lines \in Seq(Lines)
People == envelope \subseteq ToSet(To) /\ taken \subseteq ToSet(To)

Typed == Places /\ Flags /\ LinesTyped /\ People

IInv ==
  Typed /\ OneAnswer /\ AnswerIsHonest /\ EnvelopeIsComplete /\ TakenOnce

-----------------------------------------------------------------------------
(***************************************************************************)
(* The script                                                               *)
(***************************************************************************)

Verbs == {"connect", "EHLO", "AUTH", "MAIL", "RCPT", "DATA", "message"}
Commands == [verb : Verbs, rcpt : ToSet(To) \cup {NoOne}, want : {2, 3}]

LEMMA CommandIs ==
  ASSUME NEW v \in Verbs, NEW r \in ToSet(To) \cup {NoOne}, NEW w \in {2, 3}
  PROVE  /\ Command(v, r, w) \in Commands
         /\ Command(v, r, w).verb = v /\ Command(v, r, w).rcpt = r
  BY DEF Command, Commands

LEMMA ToIs ==
  /\ To \in Seq(ToSet(To)) /\ Len(To) \in Nat /\ Len(To) > 0 /\ DOMAIN To = 1 .. Len(To)
  /\ \A i \in DOMAIN To : To[i] \in ToSet(To)
  /\ Auth \in BOOLEAN /\ Step \in Nat /\ Step > 0 /\ MaxPieces \in Nat
<1>1. To \in Seq(ToSet(To)) /\ To # <<>>
  BY SmtpAssumption
<1>. QED  BY <1>1, SmtpAssumption DEF ToSet

\* Who is written to is settled before the message is said, which is said last.
LEMMA ScriptIs ==
  /\ Script \in Seq(Commands) /\ End \in Nat /\ End > 1
  /\ \A j \in 1 .. End : /\ Script[j] \in Commands
                         /\ Script[j].verb = "RCPT" => Script[j].rcpt \in ToSet(To)
                         /\ Script[j].verb = "message" <=> j = End
  /\ Rcpts(1) = {}
  /\ Rcpts(End) = ToSet(To)
<1>. DEFINE O == Opening
            E == [i \in DOMAIN To |-> Command("RCPT", To[i], 2)]
            B == <<Command("MAIL", NoOne, 2)>>
            T == Transfer
            n == Len(To)
            a == Len(O)
<1>0. n \in Nat /\ n > 0
  BY ToIs
<1>1. O \in Seq(Commands) /\ a \in {2, 3} /\ \A j \in 1 .. a : O[j].verb \in {"connect", "EHLO", "AUTH"}
  <2>. DEFINE c1 == Command("connect", NoOne, 2)
              c2 == Command("EHLO", NoOne, 2)
              c3 == Command("AUTH", NoOne, 2)
  <2>1. /\ c1 \in Commands /\ c2 \in Commands /\ c3 \in Commands
        /\ c1.verb = "connect" /\ c2.verb = "EHLO" /\ c3.verb = "AUTH"
    BY CommandIs DEF Verbs
  <2>2. O = IF Auth THEN <<c1, c2>> \o <<c3>> ELSE <<c1, c2>> \o <<>>
    BY ToIs DEF Opening
  <2>. HIDE DEF c1, c2, c3, O
  <2>3. CASE Auth
    <3>. DEFINE p == <<c1, c2>>
                q == <<c3>>
    <3>1. /\ p \in Seq(Commands) /\ Len(p) = 2 /\ p[1] = c1 /\ p[2] = c2
          /\ q \in Seq(Commands) /\ Len(q) = 1 /\ q[1] = c3 /\ O = p \o q
      BY <2>1, <2>2, <2>3
    <3>. HIDE DEF p, q
    <3>2. /\ O \in Seq(Commands) /\ Len(O) = 3
          /\ O[1] = c1 /\ O[2] = c2 /\ O[3] = c3
      BY <3>1, ConcatProperties
    <3>. QED  BY <2>1, <3>2 DEF a
  <2>4. CASE ~Auth
    <3>1. O = <<c1, c2>>
      BY <2>2, <2>4
    <3>. QED  BY <2>1, <3>1 DEF a
  <2>. QED  BY <2>3, <2>4
<1>2. /\ E \in Seq(Commands) /\ Len(E) = n
      /\ \A j \in 1 .. n : E[j].verb = "RCPT" /\ E[j].rcpt = To[j]
  <2>1. \A j \in 1 .. n : /\ Command("RCPT", To[j], 2) \in Commands
                          /\ Command("RCPT", To[j], 2).verb = "RCPT"
                          /\ Command("RCPT", To[j], 2).rcpt = To[j]
    BY ToIs, CommandIs DEF Verbs
  <2>2. E = [i \in 1 .. n |-> Command("RCPT", To[i], 2)]
    BY ToIs
  <2>. QED  BY <1>0, <2>1, <2>2
<1>3. B \in Seq(Commands) /\ Len(B) = 1 /\ B[1].verb = "MAIL"
  <2>1. Command("MAIL", NoOne, 2) \in Commands /\ Command("MAIL", NoOne, 2).verb = "MAIL"
    BY CommandIs DEF Verbs
  <2>. QED  BY <2>1
<1>4. /\ T \in Seq(Commands) /\ Len(T) = 2
      /\ T[1].verb = "DATA" /\ T[2].verb = "message"
  <2>1. /\ Command("DATA", NoOne, 3) \in Commands /\ Command("DATA", NoOne, 3).verb = "DATA"
        /\ Command("message", NoOne, 2) \in Commands /\ Command("message", NoOne, 2).verb = "message"
    BY CommandIs DEF Verbs
  <2>. QED  BY <2>1 DEF Transfer
<1>5. Script = O \o (B \o E) \o T
  BY DEF Script, Envelope
<1>. HIDE DEF O, E, B, T, n, a
<1>. DEFINE BE == B \o E
            P == O \o BE
<1>6. /\ BE \in Seq(Commands) /\ Len(BE) = 1 + n
      /\ BE[1] = B[1] /\ \A j \in 1 .. n : BE[1 + j] = E[j]
  <2>1. /\ BE \in Seq(Commands) /\ Len(BE) = Len(B) + Len(E)
        /\ \A i \in 1 .. Len(B) : BE[i] = B[i]
        /\ \A i \in 1 .. Len(E) : BE[Len(B) + i] = E[i]
    <3>1. B \in Seq(Commands) /\ E \in Seq(Commands)
      BY <1>2, <1>3
    <3>. QED  BY <3>1, Concat
  <2>. HIDE DEF BE
  <2>. QED  BY <1>0, <1>2, <1>3, <2>1
<1>. HIDE DEF BE
<1>7. /\ P \in Seq(Commands) /\ Len(P) = a + (1 + n)
      /\ \A j \in 1 .. a : P[j] = O[j]
      /\ \A j \in 1 .. 1 + n : P[a + j] = BE[j]
  <2>1. /\ P \in Seq(Commands) /\ Len(P) = Len(O) + Len(BE)
        /\ \A i \in 1 .. Len(O) : P[i] = O[i]
        /\ \A i \in 1 .. Len(BE) : P[Len(O) + i] = BE[i]
    <3>1. O \in Seq(Commands) /\ BE \in Seq(Commands)
      BY <1>1, <1>6
    <3>. QED  BY <3>1, Concat
  <2>. HIDE DEF P
  <2>. QED  BY <1>1, <1>6, <2>1 DEF a
<1>. HIDE DEF P
<1>8. /\ Script \in Seq(Commands) /\ Len(Script) = a + (1 + n) + 2
      /\ \A j \in 1 .. a + (1 + n) : Script[j] = P[j]
      /\ \A i \in 1 .. 2 : Script[(a + (1 + n)) + i] = T[i]
  <2>1. Script = P \o T
    BY <1>5 DEF P, BE
  <2>2. /\ Script \in Seq(Commands) /\ Len(Script) = Len(P) + Len(T)
        /\ \A i \in 1 .. Len(P) : Script[i] = P[i]
        /\ \A i \in 1 .. Len(T) : Script[Len(P) + i] = T[i]
    <3>1. P \in Seq(Commands) /\ T \in Seq(Commands)
      BY <1>4, <1>7
    <3>. QED  BY <3>1, Concat, <2>1
  <2>. QED  BY <1>4, <1>7, <2>2
<1>9. a \in Nat /\ a >= 2
  BY <1>1
<1>10. /\ \A j \in 1 .. a : Script[j] = O[j]
       /\ Script[a + 1] = B[1]
       /\ \A j \in 1 .. n : Script[a + (1 + j)] = E[j]
       /\ Script[a + n + 2] = T[1] /\ Script[a + n + 3] = T[2]
  <2>1. \A j \in 1 .. a : Script[j] = O[j]
    BY <1>0, <1>7, <1>8, <1>9
  <2>2. Script[a + 1] = B[1]
    <3>1. a + 1 \in 1 .. a + (1 + n) /\ 1 \in 1 .. 1 + n
      BY <1>0, <1>9
    <3>. QED  BY <1>6, <1>7, <1>8, <3>1
  <2>3. ASSUME NEW j \in 1 .. n PROVE Script[a + (1 + j)] = E[j]
    <3>1. a + (1 + j) \in 1 .. a + (1 + n) /\ 1 + j \in 1 .. 1 + n
      BY <1>0, <1>9
    <3>. QED  BY <1>6, <1>7, <1>8, <3>1
  <2>4. Script[a + n + 2] = T[1] /\ Script[a + n + 3] = T[2]
    <3>1. (a + (1 + n)) + 1 = a + n + 2 /\ (a + (1 + n)) + 2 = a + n + 3
      BY <1>0, <1>9
    <3>2. 1 \in 1 .. 2 /\ 2 \in 1 .. 2
      OBVIOUS
    <3>. QED  BY <1>8, <3>1, <3>2
  <2>. QED  BY <2>1, <2>2, <2>3, <2>4
<1>11. End = a + n + 3 /\ End \in Nat /\ End > 1 /\ a \in Nat
  BY <1>0, <1>8, <1>9 DEF End
<1>12. ASSUME NEW j \in 1 .. End
      PROVE  /\ Script[j] \in Commands
             /\ Script[j].verb = "RCPT" <=> j \in a + 2 .. a + n + 1
             /\ Script[j].verb = "message" <=> j = End
  <2>0. Script[j] \in Commands
    BY <1>11, <1>8 DEF End
  <2>1. CASE j \in 1 .. a
    <3>1. Script[j].verb \in {"connect", "EHLO", "AUTH"}
      BY <1>1, <1>10, <2>1
    <3>2. j \notin a + 2 .. a + n + 1 /\ j # End
      BY <1>0, <1>11, <2>1
    <3>. QED  BY <2>0, <3>1, <3>2
  <2>2. CASE j = a + 1
    BY <1>0, <1>3, <1>11, <1>10, <2>0, <2>2
  <2>3. CASE j \in a + 2 .. a + n + 1
    <3>1. j - (a + 1) \in 1 .. n /\ Script[j] = E[j - (a + 1)]
      <4>1. j - (a + 1) \in 1 .. n /\ a + (1 + (j - (a + 1))) = j
        BY <1>0, <1>11, <2>3
      <4>. QED  BY <1>10, <4>1
    <3>. QED  BY <1>0, <1>2, <1>11, <2>0, <2>3, <3>1
  <2>4. CASE j = a + n + 2
    BY <1>0, <1>4, <1>11, <1>10, <2>0, <2>4
  <2>5. CASE j = a + n + 3
    BY <1>0, <1>4, <1>11, <1>10, <2>0, <2>5
  <2>. QED  BY <1>0, <1>11, <2>1, <2>2, <2>3, <2>4, <2>5
<1>13. \A j \in a + 2 .. a + n + 1 : /\ j - (a + 1) \in 1 .. n
                                   /\ Script[j].rcpt = To[j - (a + 1)]
  <2>. TAKE j \in a + 2 .. a + n + 1
  <2>1. j - (a + 1) \in 1 .. n /\ Script[j] = E[j - (a + 1)]
    <3>1. j - (a + 1) \in 1 .. n /\ a + (1 + (j - (a + 1))) = j
      BY <1>0, <1>11
    <3>. QED  BY <1>10, <3>1
  <2>. QED  BY <1>2, <2>1
<1>14. ToSet(To) = {To[i] : i \in 1 .. n}
  BY ToIs DEF ToSet, n
<1>15. \A j \in 1 .. End : Script[j].verb = "RCPT" => Script[j].rcpt \in ToSet(To)
  BY <1>12, <1>13, <1>14
<1>16. Rcpts(End) = ToSet(To)
  <2>1. Rcpts(End) \subseteq ToSet(To)
    BY <1>11, <1>15 DEF Rcpts
  <2>2. ASSUME NEW i \in 1 .. n
        PROVE  To[i] \in Rcpts(End)
    <3>1. a + 1 + i \in 1 .. End - 1 /\ a + 1 + i \in a + 2 .. a + n + 1
      BY <1>0, <1>11
    <3>2. Script[a + 1 + i].verb = "RCPT" /\ Script[a + 1 + i].rcpt = To[i]
      <4>1. a + 1 + i \in 1 .. End /\ (a + 1 + i) - (a + 1) = i
        BY <1>0, <1>11
      <4>. QED  BY <1>12, <1>13, <3>1, <4>1
    <3>. QED  BY <3>1, <3>2 DEF Rcpts
  <2>. QED  BY <1>14, <2>1, <2>2
<1>17. Rcpts(1) = {}
  BY DEF Rcpts
<1>. QED  BY <1>11, <1>12, <1>8, <1>15, <1>16, <1>17

-----------------------------------------------------------------------------
(***************************************************************************)
(* The dialogue                                                             *)
(***************************************************************************)

LEMMA WantIs ==
  ASSUME NEW i \in 1 .. End
  PROVE  Script[i].want \in {2, 3}
  BY ScriptIs DEF Commands

\* Going past a command that was granted.
LEMMA NextRcpts ==
  ASSUME NEW n \in 1 .. End
  PROVE  Rcpts(n + 1) = Rcpts(n) \cup (IF Script[n].verb = "RCPT" THEN {Script[n].rcpt} ELSE {})
<1>1. 1 .. (n + 1) - 1 = (1 .. n - 1) \cup {n}
  BY ScriptIs
<1>. QED  BY <1>1 DEF Rcpts

LEMMA Bounds ==
  /\ Len(Script) = End /\ End \in Nat /\ End > 1
  /\ Step \in Nat /\ Step > 0 /\ MaxPieces \in Nat
<1>1. End \in Nat /\ End > 1
  BY ScriptIs
<1>. QED  BY <1>1, SmtpAssumption DEF End

LEMMA InitHolds == Init => IInv
<1>. SUFFICES ASSUME Init PROVE IInv
  OBVIOUS
<1>. USE DEF Init
<1>1. Typed
  <2>1. Places
    BY Bounds DEF Typed, Places
  <2>2. Flags
    BY Bounds DEF Typed, Flags
  <2>3. LinesTyped /\ People
    BY Bounds DEF Typed, LinesTyped, People
  <2>. QED  BY <2>1, <2>2, <2>3 DEF Typed
<1>2. OneAnswer /\ AnswerIsHonest
  BY DEF OneAnswer, AnswerIsHonest
<1>3. EnvelopeIsComplete /\ TakenOnce
  BY DEF EnvelopeIsComplete, TakenOnce
<1>. QED  BY <1>1, <1>2, <1>3 DEF IInv

LEMMA ConnectHolds == ASSUME IInv, Connect PROVE IInv'
<1>. USE DEF Connect, Fail
<1>1. Typed'
  <2>1. Places'
    BY Bounds DEF IInv, Typed, Places
  <2>2. Flags'
    BY Bounds DEF IInv, Typed, Flags
  <2>3. LinesTyped' /\ People'
    BY Bounds DEF IInv, Typed, LinesTyped, People
  <2>. QED  BY <2>1, <2>2, <2>3 DEF Typed
<1>2. OneAnswer' /\ AnswerIsHonest'
  <2>1. lines' = <<>> /\ replying' = 0 /\ lines = <<>> /\ replying = 0 /\ heard = 0
    BY DEF IInv, OneAnswer
  <2>2. Script[1].want # 0
    BY Bounds, WantIs
  <2>3. OneAnswer'
    BY <2>1 DEF OneAnswer
  <2>4. AnswerIsHonest'
    BY <2>1, <2>2 DEF AnswerIsHonest
  <2>. QED  BY <2>3, <2>4
<1>3. EnvelopeIsComplete'
  BY ScriptIs DEF EnvelopeIsComplete
<1>4. TakenOnce'
  BY ScriptIs DEF IInv, Typed, Places, Flags, OneAnswer, TakenOnce
<1>. QED  BY <1>1, <1>2, <1>3, <1>4 DEF IInv

LEMMA SayHolds == ASSUME IInv, Say PROVE IInv'
<1>. USE DEF Say, Fail
<1>1. Typed'
  <2>1. Places'
    BY Bounds DEF IInv, Typed, Places
  <2>2. Flags'
    BY Bounds DEF IInv, Typed, Flags
  <2>3. LinesTyped' /\ People'
    BY Bounds DEF IInv, Typed, LinesTyped, People
  <2>. QED  BY <2>1, <2>2, <2>3 DEF Typed
<1>2. OneAnswer'
  BY DEF IInv, OneAnswer, Typed, Places, Flags
<1>3. AnswerIsHonest'
  <2>1. at \in 1 .. End
    BY Bounds DEF IInv, Typed, Places, Flags
  <2>2. lines' = <<>> /\ (up' => replying' = 0) /\ at' = at
    BY DEF IInv, OneAnswer
  <2>3. Script[at].want # 0
    BY <2>1, WantIs
  <2>. QED  BY <2>2, <2>3 DEF AnswerIsHonest
<1>4. EnvelopeIsComplete'
  BY DEF IInv, EnvelopeIsComplete
<1>5. TakenOnce'
  BY DEF IInv, TakenOnce
<1>. QED  BY <1>1, <1>2, <1>3, <1>4, <1>5 DEF IInv

LEMMA GiveUpHolds == ASSUME IInv, GiveUp PROVE IInv'
<1>. USE DEF GiveUp, Fail, relay
<1>1. Typed' /\ OneAnswer' /\ AnswerIsHonest'
  <2>1. Places'
    BY DEF IInv, Typed, Places
  <2>2. Flags'
    BY DEF IInv, Typed, Flags
  <2>3. LinesTyped' /\ People'
    BY DEF IInv, Typed, LinesTyped, People
  <2>4. OneAnswer'
    BY DEF IInv, Typed, Places, Flags, OneAnswer
  <2>5. AnswerIsHonest'
    BY DEF IInv, AnswerIsHonest
  <2>. QED  BY <2>1, <2>2, <2>3, <2>4, <2>5 DEF Typed
<1>2. EnvelopeIsComplete' /\ TakenOnce'
  BY DEF IInv, EnvelopeIsComplete, TakenOnce
<1>. QED  BY <1>1, <1>2 DEF IInv

LEMMA TickHolds == ASSUME IInv, Tick PROVE IInv'
<1>. USE DEF Tick, client, relay
<1>1. Typed'
  <2>1. Places'
    BY Bounds DEF IInv, Typed, Places
  <2>2. Flags'
    BY Bounds DEF IInv, Typed, Flags
  <2>3. LinesTyped' /\ People'
    BY Bounds DEF IInv, Typed, LinesTyped, People
  <2>. QED  BY <2>1, <2>2, <2>3 DEF Typed
<1>2. OneAnswer' /\ AnswerIsHonest' /\ EnvelopeIsComplete' /\ TakenOnce'
  BY DEF IInv, OneAnswer, AnswerIsHonest, Granted, EnvelopeIsComplete, TakenOnce
<1>. QED  BY <1>1, <1>2 DEF IInv

LEMMA ReadLineHolds == ASSUME IInv, ReadLine PROVE IInv'
<1>. DEFINE line == Head(lines)
<1>. USE DEF ReadLine, relay
<1>0. /\ Typed /\ at \in 1 .. End /\ lines \in Seq(Lines)
      /\ lines # <<>> /\ lines' = Tail(lines) /\ heard = 0
      /\ Len(lines) \in Nat /\ Len(lines) > 0
  <2>1. at \in 1 .. End /\ heard = 0
    BY Bounds DEF IInv, Typed, Places, OneAnswer
  <2>2. lines \in Seq(Lines)
    BY DEF IInv, Typed, LinesTyped
  <2>3. Len(lines) \in Nat /\ Len(lines) > 0
    BY <2>2
  <2>. QED  BY <2>1, <2>2, <2>3 DEF IInv
<1>1. lines' \in Seq(Lines) /\ 1 \in DOMAIN lines /\ line = lines[1]
  BY <1>0
<1>2. /\ line.digit = Script[at].want => Granted
      /\ ~line.more => Len(lines) = 1 /\ (up => replying = 0)
  BY <1>1 DEF IInv, AnswerIsHonest
<1>. HIDE DEF line
<1>3. CASE Fail
  <2>1. Typed' /\ OneAnswer' /\ AnswerIsHonest'
    <3>1. Places'
      BY <1>0, <1>1, <1>3, Bounds DEF IInv, Typed, Places, Fail
    <3>2. Flags'
      BY <1>0, <1>1, <1>3, Bounds DEF IInv, Typed, Flags, Fail
    <3>3. LinesTyped' /\ People'
      BY <1>0, <1>1, <1>3, Bounds DEF IInv, Typed, LinesTyped, People, Fail
    <3>4. OneAnswer'
      BY <1>0, <1>1, <1>3, Bounds DEF IInv, Typed, Places, Flags, OneAnswer, Fail
    <3>5. AnswerIsHonest'
      BY <1>0, <1>1, <1>3, Bounds DEF IInv, AnswerIsHonest, Fail
    <3>. QED  BY <3>1, <3>2, <3>3, <3>4, <3>5 DEF Typed
  <2>2. EnvelopeIsComplete' /\ TakenOnce'
    BY <1>3 DEF Fail, IInv, EnvelopeIsComplete, TakenOnce
  <2>. QED  BY <2>1, <2>2 DEF IInv
<1>4. CASE line.more /\ UNCHANGED client
  <2>1. Typed' /\ OneAnswer'
    <3>1. Places'
      BY <1>0, <1>1, <1>4, Bounds DEF IInv, Typed, Places, client
    <3>2. Flags'
      BY <1>0, <1>1, <1>4, Bounds DEF IInv, Typed, Flags, client
    <3>3. LinesTyped' /\ People'
      BY <1>0, <1>1, <1>4, Bounds DEF IInv, Typed, LinesTyped, People, client
    <3>4. OneAnswer'
      BY <1>0, <1>1, <1>4, Bounds DEF IInv, Typed, Places, Flags, OneAnswer, client
    <3>. QED  BY <3>1, <3>2, <3>3, <3>4 DEF Typed
  <2>2. \A i \in DOMAIN lines' : /\ i + 1 \in DOMAIN lines /\ lines'[i] = lines[i + 1]
                                /\ (i + 1 = Len(lines) => i = Len(lines'))
    BY <1>0
  <2>3. AnswerIsHonest'
    BY <1>4, <2>2 DEF client, IInv, AnswerIsHonest, Granted
  <2>4. EnvelopeIsComplete' /\ TakenOnce'
    BY <1>4 DEF client, IInv, EnvelopeIsComplete, TakenOnce
  <2>. QED  BY <2>1, <2>3, <2>4 DEF IInv
<1>5. CASE line.digit = Script[at].want /\ ~line.more /\ Answered
  <2>1. Granted /\ lines' = <<>> /\ (up => replying = 0)
    BY <1>0, <1>2, <1>5
  <2>2. CASE at = End
    <3>1. result' = "ok" /\ waiting' = FALSE /\ at' = at
      BY <1>5, <2>2, Bounds DEF Answered
    <3>2. taken = ToSet(To)
      BY <1>0, <2>1, <2>2, ScriptIs DEF Granted
    <3>3. Typed' /\ OneAnswer' /\ AnswerIsHonest'
      <4>1. Places'
        BY <1>0, <2>1, <3>1, Bounds DEF IInv, Typed, Places
      <4>2. Flags'
        BY <1>0, <2>1, <3>1, Bounds DEF IInv, Typed, Flags
      <4>3. LinesTyped' /\ People'
        BY <1>0, <2>1, <3>1, Bounds DEF IInv, Typed, LinesTyped, People
      <4>4. OneAnswer'
        BY <1>0, <2>1, <3>1, Bounds DEF IInv, Typed, Places, Flags, OneAnswer
      <4>5. AnswerIsHonest'
        BY <1>0, <2>1, <3>1, Bounds DEF IInv, AnswerIsHonest
      <4>. QED  BY <4>1, <4>2, <4>3, <4>4, <4>5 DEF Typed
    <3>4. EnvelopeIsComplete' /\ TakenOnce'
      BY <1>0, <2>2, <3>1, <3>2 DEF IInv, EnvelopeIsComplete, TakenOnce
    <3>. QED  BY <3>3, <3>4 DEF IInv
  <2>3. CASE at # End
    <3>1. at' = at + 1 /\ waiting' = FALSE /\ result' = result /\ at' \in 1 .. End
      BY <1>0, <1>5, <2>3, Bounds DEF Answered
    <3>2. Typed' /\ OneAnswer' /\ AnswerIsHonest'
      <4>1. Places'
        BY <1>0, <2>1, <3>1, Bounds DEF IInv, Typed, Places
      <4>2. Flags'
        BY <1>0, <2>1, <3>1, Bounds DEF IInv, Typed, Flags
      <4>3. LinesTyped' /\ People'
        BY <1>0, <2>1, <3>1, Bounds DEF IInv, Typed, LinesTyped, People
      <4>4. OneAnswer'
        BY <1>0, <2>1, <3>1, Bounds DEF IInv, Typed, Places, Flags, OneAnswer
      <4>5. AnswerIsHonest'
        BY <1>0, <2>1, <3>1, Bounds DEF IInv, AnswerIsHonest
      <4>. QED  BY <4>1, <4>2, <4>3, <4>4, <4>5 DEF Typed
    <3>3. EnvelopeIsComplete'
      BY <1>0, <2>1, <3>1, NextRcpts DEF Granted, IInv, EnvelopeIsComplete
    <3>4. TakenOnce'
      BY <1>0, <2>3, <3>1 DEF IInv, TakenOnce
    <3>. QED  BY <3>2, <3>3, <3>4 DEF IInv
  <2>. QED  BY <2>2, <2>3
<1>. QED  BY <1>3, <1>4, <1>5 DEF Hear, line

-----------------------------------------------------------------------------
(***************************************************************************)
(* The relay                                                                *)
(***************************************************************************)

LEMMA LineIs ==
  ASSUME NEW d \in {2, 3, 5}, NEW m \in BOOLEAN, lines \in Seq(Lines),
         lines' = Append(lines, Line(d, m))
  PROVE  /\ lines' \in Seq(Lines) /\ Len(lines') = Len(lines) + 1 /\ Len(lines) \in Nat
         /\ DOMAIN lines' = 1 .. Len(lines) + 1 /\ DOMAIN lines = 1 .. Len(lines)
         /\ \A i \in DOMAIN lines : lines'[i] = lines[i]
         /\ lines'[Len(lines) + 1].digit = d /\ lines'[Len(lines) + 1].more = m
<1>1. Line(d, m) \in Lines /\ Line(d, m).digit = d /\ Line(d, m).more = m
  BY DEF Line, Lines
<1>. QED  BY <1>1

\* The first line of an answer, with the digit d; granted, if it is the one the
\* client wants.
LEMMA RepliesHolds ==
  ASSUME IInv, up, heard > 0, heard' = 0, NEW d \in {2, 3, 5}, Replies(d),
         UNCHANGED pieces,
         d = Script[at].want => Granted',
         envelope \subseteq envelope', envelope' \subseteq ToSet(To),
         taken' = taken \/ (taken' = ToSet(To) /\ at = End)
  PROVE  IInv'
<1>. USE DEF Replies, client
<1>0. /\ heard = at /\ lines = <<>> /\ replying = 0 /\ at \in 1 .. End
      /\ at' = at /\ result' = result /\ waiting' = waiting /\ up' = up /\ idle' = 0
  BY Bounds DEF IInv, Typed, Places, OneAnswer
<1>1. PICK more \in BOOLEAN : /\ lines' = Append(lines, Line(d, more))
                             /\ replying' = IF more THEN d ELSE 0
  OBVIOUS
<1>2. /\ lines' \in Seq(Lines) /\ Len(lines') = 1 /\ DOMAIN lines' = 1 .. 1
      /\ lines'[1].digit = d /\ lines'[1].more = more
  <2>1. lines \in Seq(Lines) /\ Len(lines) = 0
    BY <1>0
  <2>. QED  BY <1>1, <2>1, LineIs
<1>3. Typed'
  <2>1. Places'
    BY <1>0, Bounds DEF IInv, Typed, Places
  <2>2. Flags'
    BY <1>0, <1>1 DEF IInv, Typed, Flags
  <2>3. LinesTyped' /\ People'
    BY <1>2 DEF IInv, Typed, LinesTyped, People
  <2>. QED  BY <2>1, <2>2, <2>3 DEF Typed
<1>4. result = "none" => waiting
  BY <1>0 DEF IInv, OneAnswer
<1>5. OneAnswer'
  BY <1>0, <1>4, Bounds DEF OneAnswer
<1>6. AnswerIsHonest'
  <2>1. Script[at].want # 0
    BY <1>0, WantIs
  <2>. QED  BY <1>0, <1>1, <1>2, <2>1 DEF AnswerIsHonest
<1>7. EnvelopeIsComplete'
  BY <1>0 DEF IInv, EnvelopeIsComplete
<1>8. TakenOnce'
  <2>1. taken = {} /\ result # "ok"
    BY <1>0, ToIs DEF IInv, TakenOnce
  <2>. QED  BY <1>0, <1>4, <2>1 DEF TakenOnce
<1>. QED  BY <1>3, <1>5, <1>6, <1>7, <1>8 DEF IInv

LEMMA RefuseHolds == ASSUME IInv, Refuse PROVE IInv'
<1>1. 5 \in {2, 3, 5} /\ Script[at].want # 5
  <2>1. at \in 1 .. End
    BY Bounds DEF Refuse, IInv, Typed, Places, OneAnswer
  <2>. QED  BY <2>1, WantIs
<1>2. /\ up /\ heard > 0 /\ heard' = 0 /\ Replies(5)
      /\ envelope' = envelope /\ taken' = taken /\ pieces' = pieces
  BY DEF Refuse
<1>3. envelope \subseteq envelope' /\ envelope' \subseteq ToSet(To)
  BY <1>2 DEF IInv, Typed, People
<1>. QED  BY <1>1, <1>2, <1>3, RepliesHolds

LEMMA AcceptHolds == ASSUME IInv, Accept PROVE IInv'
<1>. DEFINE command == Script[heard]
<1>1. /\ up /\ heard > 0 /\ heard' = 0 /\ Replies(command.want) /\ pieces' = pieces
      /\ envelope' = IF command.verb = "RCPT" THEN envelope \cup {command.rcpt} ELSE envelope
      /\ taken' = IF command.verb = "message" THEN envelope ELSE taken
  BY DEF Accept
<1>2. heard = at /\ at \in 1 .. End /\ at' = at
  BY <1>1, Bounds DEF IInv, Typed, Places, OneAnswer, Replies, client
<1>3. /\ command.want \in {2, 3, 5}
      /\ command.verb = "RCPT" => command.rcpt \in ToSet(To)
      /\ command.verb = "message" <=> at = End
  BY <1>2, ScriptIs, WantIs
<1>. HIDE DEF command
<1>4. envelope \subseteq envelope' /\ envelope' \subseteq ToSet(To)
  BY <1>1, <1>3 DEF IInv, Typed, People
<1>5. command.verb = "message" => taken' = ToSet(To)
  <2>. SUFFICES ASSUME command.verb = "message" PROVE envelope = ToSet(To)
    BY <1>1
  <2>1. at = End /\ at > 0
    BY <1>2, <1>3
  <2>2. Rcpts(End) \subseteq envelope
    BY <2>1 DEF IInv, EnvelopeIsComplete
  <2>3. envelope \subseteq ToSet(To)
    BY DEF IInv, Typed, People
  <2>. QED  BY <2>2, <2>3, ScriptIs
<1>6. Granted'
  <2>1. /\ command.verb = "RCPT" => command.rcpt \in envelope'
        /\ command.verb = "message" => taken' = ToSet(To)
    BY <1>1, <1>5
  <2>. QED  BY <1>2, <2>1 DEF Granted, command
<1>7. taken' = taken \/ (taken' = ToSet(To) /\ at = End)
  BY <1>1, <1>3, <1>5
<1>. QED  BY <1>1, <1>3, <1>4, <1>6, <1>7, RepliesHolds

LEMMA GoOnHolds == ASSUME IInv, GoOn PROVE IInv'
<1>. USE DEF GoOn, client
<1>0. /\ at' = at /\ result' = result /\ waiting' = waiting /\ up' = up /\ up /\ heard' = heard
      /\ envelope' = envelope /\ taken' = taken /\ idle' = 0 /\ replying > 0
      /\ pieces' = pieces + 1 /\ pieces < MaxPieces
  OBVIOUS
<1>1. /\ heard = 0 /\ at # 0 /\ (result = "none" => waiting)
      /\ replying \in {2, 3, 5} /\ lines \in Seq(Lines)
  BY <1>0 DEF IInv, Typed, Flags, LinesTyped, OneAnswer
<1>2. EnvelopeIsComplete' /\ TakenOnce'
  BY <1>0 DEF IInv, EnvelopeIsComplete, TakenOnce
<1>3. Places' /\ People'
  BY <1>0, Bounds DEF IInv, Typed, Places, People
<1>4. CASE UNCHANGED <<lines, replying>>
  <2>1. Flags' /\ LinesTyped' /\ OneAnswer' /\ AnswerIsHonest'
    BY <1>0, <1>4 DEF IInv, Typed, Flags, LinesTyped, OneAnswer, AnswerIsHonest, Granted
  <2>. QED  BY <1>2, <1>3, <2>1 DEF IInv, Typed
<1>5. CASE \E more \in BOOLEAN :
             /\ lines' = Append(lines, Line(replying, more))
             /\ replying' = IF more THEN replying ELSE 0
  <2>1. PICK more \in BOOLEAN :
             /\ lines' = Append(lines, Line(replying, more))
             /\ replying' = IF more THEN replying ELSE 0
    BY <1>5
  <2>2. /\ lines' \in Seq(Lines) /\ Len(lines') = Len(lines) + 1 /\ Len(lines) \in Nat
        /\ DOMAIN lines' = 1 .. Len(lines) + 1 /\ DOMAIN lines = 1 .. Len(lines)
        /\ \A i \in DOMAIN lines : lines'[i] = lines[i]
        /\ lines'[Len(lines) + 1].digit = replying /\ lines'[Len(lines) + 1].more = more
    BY <1>1, <2>1, LineIs
  <2>3. replying' \in {0, 2, 3, 5}
    BY <1>1, <2>1
  <2>4. Flags'
    BY <1>0, <2>3 DEF IInv, Typed, Flags
  <2>5. OneAnswer' /\ LinesTyped'
    BY <1>0, <1>1, <2>2 DEF OneAnswer, LinesTyped
  <2>6. AnswerIsHonest'
    <3>. SUFFICES ASSUME result = "none"
                  PROVE  /\ \A i \in DOMAIN lines' :
                              /\ lines'[i].digit = Script[at].want => Granted
                              /\ ~lines'[i].more => i = Len(lines') /\ replying' = 0
                         /\ replying' = Script[at].want => Granted
      BY <1>0 DEF AnswerIsHonest, Granted
    <3>1. /\ \A i \in DOMAIN lines : /\ lines[i].digit = Script[at].want => Granted
                                    /\ lines[i].more
          /\ replying = Script[at].want => Granted
      BY <1>0, <1>1 DEF IInv, AnswerIsHonest
    <3>2. Script[at].want # 0
      BY <1>1, Bounds, WantIs DEF IInv, Typed, Places
    <3>3. replying' = Script[at].want => Granted
      BY <2>1, <3>1, <3>2
    <3>4. ~more => replying' = 0
      BY <2>1
    <3>5. ASSUME NEW i \in DOMAIN lines'
          PROVE  /\ lines'[i].digit = Script[at].want => Granted
                 /\ ~lines'[i].more => i = Len(lines') /\ replying' = 0
      <4>1. CASE i \in DOMAIN lines
        BY <2>2, <3>1, <4>1
      <4>2. CASE i = Len(lines) + 1
        BY <2>2, <3>1, <3>4, <4>2
      <4>. QED  BY <2>2, <3>5, <4>1, <4>2
    <3>. QED  BY <3>3, <3>5
  <2>. QED  BY <1>2, <1>3, <2>4, <2>5, <2>6 DEF IInv, Typed
<1>. QED  BY <1>4, <1>5

LEMMA HangUpHolds == ASSUME IInv, HangUp PROVE IInv'
<1>. USE DEF HangUp, client
<1>0. /\ at' = at /\ result' = result /\ waiting' = waiting /\ up /\ up' = FALSE
      /\ heard' = heard /\ replying' = replying /\ idle' = idle /\ pieces' = pieces
      /\ envelope' = envelope /\ taken' = taken /\ lines \in Seq(Lines) /\ at # 0
  BY DEF IInv, Typed, LinesTyped
<1>1. EnvelopeIsComplete' /\ TakenOnce'
  BY <1>0 DEF IInv, EnvelopeIsComplete, TakenOnce
<1>2. Places' /\ People' /\ Flags'
  BY <1>0 DEF IInv, Typed, Places, People, Flags
<1>3. CASE lines' = lines
  <2>1. LinesTyped' /\ OneAnswer' /\ AnswerIsHonest'
    BY <1>0, <1>3 DEF LinesTyped, IInv, OneAnswer, AnswerIsHonest, Granted
  <2>. QED  BY <1>1, <1>2, <2>1 DEF IInv, Typed
<1>4. CASE lines' = <<>>
  <2>1. LinesTyped' /\ OneAnswer' /\ AnswerIsHonest'
    BY <1>0, <1>4 DEF LinesTyped, IInv, OneAnswer, AnswerIsHonest
  <2>. QED  BY <1>1, <1>2, <2>1 DEF IInv, Typed
<1>5. CASE replying > 0 /\ lines' = Append(lines, Line(replying, FALSE))
  <2>1. replying \in {2, 3, 5} /\ heard = 0 /\ (result = "none" => waiting)
    BY <1>0, <1>5 DEF IInv, Typed, Flags, OneAnswer
  <2>2. /\ lines' \in Seq(Lines) /\ Len(lines') = Len(lines) + 1 /\ Len(lines) \in Nat
        /\ DOMAIN lines' = 1 .. Len(lines) + 1 /\ DOMAIN lines = 1 .. Len(lines)
        /\ \A i \in DOMAIN lines : lines'[i] = lines[i]
        /\ lines'[Len(lines) + 1].digit = replying /\ lines'[Len(lines) + 1].more = FALSE
    BY <1>0, <1>5, <2>1, LineIs
  <2>3. LinesTyped' /\ OneAnswer'
    BY <1>0, <2>1, <2>2 DEF LinesTyped, OneAnswer
  <2>4. AnswerIsHonest'
    <3>. SUFFICES ASSUME result = "none"
                  PROVE  \A i \in DOMAIN lines' :
                              /\ lines'[i].digit = Script[at].want => Granted
                              /\ ~lines'[i].more => i = Len(lines')
      BY <1>0 DEF AnswerIsHonest, Granted
    <3>1. /\ \A i \in DOMAIN lines : /\ lines[i].digit = Script[at].want => Granted
                                    /\ lines[i].more
          /\ replying = Script[at].want => Granted
      BY <1>0, <1>5, <2>1 DEF IInv, AnswerIsHonest
    <3>. QED  BY <2>2, <3>1
  <2>. QED  BY <1>1, <1>2, <2>3, <2>4 DEF IInv, Typed
<1>. QED  BY <1>3, <1>4, <1>5

LEMMA StepHolds == IInv /\ [Next]_vars => IInv'
<1>. SUFFICES ASSUME IInv, [Next]_vars PROVE IInv'
  OBVIOUS
<1>1. CASE Client
  BY <1>1, ConnectHolds, SayHolds, ReadLineHolds, GiveUpHolds DEF Client
<1>2. CASE Relay
  BY <1>2, AcceptHolds, RefuseHolds, GoOnHolds, HangUpHolds DEF Relay
<1>3. CASE Tick
  BY <1>3, TickHolds
<1>4. CASE UNCHANGED vars
  <2>. USE <1>4 DEF vars, client, relay
  <2>1. Typed'
    BY DEF IInv, Typed, Places, Flags, LinesTyped, People
  <2>2. OneAnswer' /\ AnswerIsHonest'
    BY DEF IInv, OneAnswer, AnswerIsHonest, Granted
  <2>3. EnvelopeIsComplete' /\ TakenOnce'
    BY DEF IInv, EnvelopeIsComplete, TakenOnce
  <2>. QED  BY <2>1, <2>2, <2>3 DEF IInv
<1>. QED  BY <1>1, <1>2, <1>3, <1>4 DEF Next

-----------------------------------------------------------------------------
(***************************************************************************)
(* What the invariant shows                                                 *)
(***************************************************************************)

\* The traps go before, and touch nothing of the dialogue.
LEMMA DialogueOnly == [DeliveryNext]_deliveryVars => [Next]_vars
<1>1. SendTrap => UNCHANGED vars
  BY Zenon DEF SendTrap
<1>. QED  BY <1>1 DEF DeliveryNext, deliveryVars, Report, BeginMail, Mailing, Next

LEMMA AlwaysIInv == DeliverySpec => []IInv
<1>1. DeliveryInit => IInv
  BY InitHolds DEF DeliveryInit
<1>2. IInv /\ [DeliveryNext]_deliveryVars => IInv'
  BY DialogueOnly, StepHolds
<1>. QED  BY <1>1, <1>2, PTL DEF DeliverySpec

LEMMA TypeHolds == IInv => TypeOK
<1>. SUFFICES ASSUME IInv PROVE TypeOK
  OBVIOUS
<1>1. Places /\ Flags /\ LinesTyped /\ People
  BY DEF IInv, Typed
<1>. QED  BY <1>1 DEF Places, Flags, LinesTyped, Lines, People, End, TypeOK

\* The client's place stays in its script, and the relay's, the lines between
\* them and the people written to keep their shape (email.rs:56-144).
THEOREM DialogueTyped == DeliverySpec => []TypeOK
  BY AlwaysIInv, TypeHolds, PTL

\* After a failure the message can have been taken only if it had been said, and
\* its answer was what was waited for (email.rs:133-138).
THEOREM DoubtOnlyEverAtTheEnd == DeliverySpec => []DoubtOnlyAtTheEnd
<1>1. IInv => DoubtOnlyAtTheEnd
  <2>1. 1 <= End /\ End \in 1 .. End
    BY ScriptIs
  <2>2. Script[End].verb = "message"
    BY <2>1, ScriptIs
  <2>. QED  BY <2>2 DEF IInv, TakenOnce, DoubtOnlyAtTheEnd
<1>. QED  BY <1>1, AlwaysIInv, PTL

-----------------------------------------------------------------------------
(***************************************************************************)
(* The dialogue is one send of Message                                      *)
(***************************************************************************)

\* A step of the client returns ok only when everybody's message is taken; and
\* only the relay's answer to the message itself takes it.
LEMMA OneSendStep == IInv /\ IInv' /\ [Next]_vars => [M!Next]_<<result, taken>>
<1>. SUFFICES ASSUME IInv, IInv', [Next]_vars PROVE [M!Next]_<<result, taken>>
  OBVIOUS
<1>1. CASE Client
  <2>1. taken' = taken /\ result = "none"
    BY <1>1 DEF Client, Connect, Say, ReadLine, GiveUp, relay
  <2>2. result' \in {"none", "ok", "failed"} /\ (result' = "ok" => taken' = ToSet(To))
    BY DEF IInv, Typed, Flags, TakenOnce
  <2>. QED  BY <2>1, <2>2 DEF M!Next, M!Return
<1>2. CASE Tick \/ Refuse \/ GoOn \/ HangUp \/ UNCHANGED vars
  BY <1>2 DEF Tick, Refuse, Replies, GoOn, HangUp, vars, client, relay
<1>3. CASE Accept
  <2>1. result' = result /\ heard # 0
    BY <1>3 DEF Accept, Replies, client, IInv, Typed, Places
  <2>2. taken = {} /\ result # "ok"
    <3>1. ToSet(To) # {}
      BY ToIs
    <3>2. heard = at
      BY <2>1 DEF IInv, OneAnswer
    <3>. QED  BY <2>1, <3>1 DEF IInv, TakenOnce
  <2>3. taken' = {} \/ taken' = ToSet(To)
    BY DEF IInv, TakenOnce
  <2>. QED  BY <2>1, <2>2, <2>3 DEF M!Next, M!Take
<1>. QED  BY <1>1, <1>2, <1>3 DEF Next, Relay

\* send is ok only when the relay has taken the message for everybody configured,
\* takes it for everybody or nobody, and nothing is taken after ok
\* (email.rs:102-140): the dialogue, whatever the relay does, is one send of
\* Message.
THEOREM DialogueIsOneSend == DeliverySpec => SmtpIsOneSend
<1>1. DeliveryInit => M!Init
  BY DEF DeliveryInit, Init, M!Init
<1>2. IInv /\ IInv' /\ [DeliveryNext]_deliveryVars => [M!Next]_<<result, taken>>
  BY DialogueOnly, OneSendStep
<1>. QED  BY <1>1, <1>2, AlwaysIInv, PTL DEF DeliverySpec, SmtpIsOneSend, M!Spec

-----------------------------------------------------------------------------
(***************************************************************************)
(* Numbers and their digits                                                 *)
(***************************************************************************)

LEMMA DivMod ==
  ASSUME NEW n \in Nat, NEW b \in Nat, b > 1
  PROVE  /\ n \div b \in Nat /\ n % b \in 0 .. b - 1
         /\ n = (n \div b) * b + (n % b)
         /\ n >= b => n \div b < n /\ n \div b > 0
  OBVIOUS

LEMMA DigitsUnfold ==
  ASSUME NEW n \in Nat, NEW b \in Nat, b > 1
  PROVE  Digits(n, b) = IF n < b THEN <<n>> ELSE Append(Digits(n \div b, b), n % b)
<1>. DEFINE IsIt(d) == d = [k \in Nat |-> IF k < b THEN <<k>> ELSE Append(d[k \div b], k % b)]
            d == CHOOSE d : IsIt(d)
<1>1. \A k \in Nat : Digits(k, b) = d[k]
  BY DEF Digits
<1>2. \E f : IsIt(f)
  <2>. DEFINE A == Seq(Nat)
              Stop == {k \in Nat : k < b}
              mu == [k \in Nat |-> k]
              h == [k \in Nat |-> k \div b]
              c == [k \in Nat |-> <<k>>]
              H == [x \in Nat \X A |-> Append(x[2], x[1] % b)]
  <2>0. \A k \in Nat : k \div b \in Nat /\ k % b \in Nat /\ (k >= b => k \div b < k)
    BY DivMod
  <2>1. /\ Stop \in SUBSET Nat /\ mu \in [Nat -> Nat] /\ h \in [Nat -> Nat]
        /\ \A k \in Nat \ Stop : mu[h[k]] < mu[k]
    BY ONLY <2>0, b \in Nat
  <2>2. c \in [Nat -> A] /\ H \in [Nat \X A -> A]
    BY ONLY <2>0
  <2>3. \A k \in Nat, a \in A : H[<<k, a>>] = Append(a, k % b)
    OBVIOUS
  <2>4. \A k \in Nat : h[k] = k \div b /\ c[k] = <<k>> /\ (k \in Stop <=> k < b) /\ k \div b \in Nat
    BY ONLY <2>0
  <2>. HIDE DEF A, Stop, mu, h, c, H
  <2>5. Recursion(Nat, A, Stop, mu, h, c, H)
    BY <2>1, <2>2 DEF Recursion
  <2>6. PICK f \in [Nat -> A] :
          \A k \in Nat : f[k] = IF k \in Stop THEN c[k] ELSE H[<<k, f[h[k]]>>]
    BY ONLY <2>5, RecursionExists
  <2>7. \A k \in Nat : f[k] = IF k < b THEN <<k>> ELSE Append(f[k \div b], k % b)
    BY <2>3, <2>4, <2>6
  <2>8. IsIt(f)
    BY <2>6, <2>7
  <2>. QED  BY <2>8
<1>3. IsIt(d)
  <2>. HIDE DEF IsIt
  <2>. QED  BY <1>2
<1>. HIDE DEF d
<1>4. d[n] = IF n < b THEN <<n>> ELSE Append(d[n \div b], n % b)
  BY <1>3
<1>. QED  BY <1>1, <1>4, DivMod

\* The folds of SequencesExt go by the greatest index that is left.
LEMMA MaxIs ==
  ASSUME NEW n \in Nat, NEW s \in SUBSET (1 .. n), s # {}
  PROVE  Max(s) \in s /\ \A x \in s : Max(s) >= x
<1>. DEFINE B == {n - x : x \in s}
<1>1. B \in SUBSET Nat /\ B # {}
  <2>1. \A x \in s : x \in 1 .. n /\ n - x \in Nat
    OBVIOUS
  <2>. QED  BY <2>1
<1>. HIDE DEF B
<1>2. \E k \in B : \A l \in B : k <= l
  BY <1>1, Least
<1>. USE DEF B
<1>3. PICK k \in B : \A l \in B : k <= l
  BY <1>2
<1>4. PICK x \in s : k = n - x
  OBVIOUS
<1>5. \A y \in s : n - x <= n - y /\ y \in 1 .. n /\ x \in 1 .. n
  BY <1>3, <1>4
<1>6. \A y \in s : x >= y
  BY <1>5
<1>. QED  BY <1>6 DEF Max

LEMMA MaxUpTo ==
  ASSUME NEW i \in Nat, i > 0
  PROVE  Max(1 .. i) = i /\ (1 .. i) \ {i} = 1 .. i - 1
<1>0. 1 .. i \in SUBSET (1 .. i) /\ i \in 1 .. i /\ 1 .. i # {}
  OBVIOUS
<1>1. Max(1 .. i) \in 1 .. i /\ Max(1 .. i) >= i
  BY <1>0, MaxIs
<1>. QED  BY <1>1

Folding(n, A, a, G) == n \in Nat /\ a \in A /\ G \in [(1 .. n) \X A -> A]
Folded(n, A, a, G, g) ==
  /\ g \in [SUBSET (1 .. n) -> A]
  /\ \A s \in SUBSET (1 .. n) : g[s] = IF s = {} THEN a ELSE G[<<Max(s), g[s \ {Max(s)}]>>]

LEMMA FoldAlong ==
  ASSUME NEW n, NEW A, NEW a, NEW G, Folding(n, A, a, G)
  PROVE  \E g : Folded(n, A, a, G, g)
<1>. DEFINE X == SUBSET (1 .. n)
            Stop == {{}}
            mu == [s \in X |-> Cardinality(s)]
            h == [s \in X |-> s \ {Max(s)}]
            c == [s \in X |-> a]
            H == [x \in X \X A |-> IF x[1] = {} THEN a ELSE G[<<Max(x[1]), x[2]>>]]
<1>0. n \in Nat /\ a \in A /\ G \in [(1 .. n) \X A -> A]
  BY DEF Folding
<1>. USE <1>0
<1>1. \A s \in X : IsFiniteSet(s) /\ Cardinality(s) \in Nat
  <2>1. IsFiniteSet(1 .. n)
    BY FS_Interval
  <2>. QED  BY <2>1, FS_Subset, FS_CardinalityType
<1>2. \A s \in X \ Stop : Max(s) \in s /\ Max(s) \in 1 .. n
  BY MaxIs
<1>3. \A s \in X : s \ {Max(s)} \in X
  OBVIOUS
<1>4. \A s \in X \ Stop : Cardinality(s \ {Max(s)}) < Cardinality(s)
  BY <1>1, <1>2, <1>3, FS_RemoveElement
<1>5. Stop \in SUBSET X /\ mu \in [X -> Nat] /\ h \in [X -> X] /\ c \in [X -> A]
  BY <1>1
<1>6. \A s \in X \ Stop : mu[h[s]] < mu[s]
  BY <1>3, <1>4
<1>7. \A s \in X \ Stop, b \in A : G[<<Max(s), b>>] \in A
  BY <1>2
<1>8. H \in [X \X A -> A]
  BY <1>7
<1>9. /\ \A s \in X, b \in A : s # {} => H[<<s, b>>] = G[<<Max(s), b>>]
      /\ \A s \in X : c[s] = a /\ h[s] = s \ {Max(s)} /\ (s \in Stop <=> s = {})
  OBVIOUS
<1>. HIDE DEF X, Stop, mu, h, c, H
<1>10. Recursion(X, A, Stop, mu, h, c, H)
  BY <1>5, <1>6, <1>8 DEF Recursion
<1>11. PICK g \in [X -> A] : \A s \in X : g[s] = IF s \in Stop THEN c[s] ELSE H[<<s, g[h[s]]>>]
  BY ONLY <1>10, RecursionExists
<1>12. \A s \in X : g[s] = IF s = {} THEN a ELSE G[<<Max(s), g[s \ {Max(s)}]>>]
  <2>1. \A s \in X : h[s] \in X /\ g[h[s]] \in A
    BY <1>5, <1>11
  <2>. TAKE s \in X
  <2>2. CASE s = {}
    BY <1>9, <1>11, <2>2
  <2>3. CASE s # {}
    <3>1. g[s] = H[<<s, g[h[s]]>>]
      BY <1>9, <1>11, <2>3
    <3>2. H[<<s, g[h[s]]>>] = G[<<Max(s), g[h[s]]>>]
      BY <1>9, <2>1, <2>3
    <3>3. h[s] = s \ {Max(s)}
      BY <1>9
    <3>. QED  BY <2>3, <3>1, <3>2, <3>3
  <2>. QED  BY <2>2, <2>3
<1>. QED  BY <1>11, <1>12 DEF X, Folded

\* A number, digit by digit.
IsNumber(v, s, b) == v[0] = 0 /\ \A i \in 1 .. Len(s) : v[i] = v[i - 1] * b + s[i]

LEMMA NumberIs ==
  ASSUME NEW s \in Seq(Nat), NEW b \in Nat
  PROVE  \E v \in [0 .. Len(s) -> Nat] : IsNumber(v, s, b) /\ Number(s, b) = v[Len(s)]
<1>. DEFINE n == Len(s)
            IsIt(g) == g = [t \in SUBSET (1 .. n) |->
                             IF t = {} THEN 0 ELSE g[t \ {Max(t)}] * b + s[Max(t)]]
            g == CHOOSE g : IsIt(g)
<1>1. n \in Nat /\ DOMAIN s = 1 .. n /\ \A i \in 1 .. n : s[i] \in Nat
  OBVIOUS
<1>2. Number(s, b) = g[1 .. n]
  <2>1. Number(s, b) = (CHOOSE f : f = [t \in SUBSET (DOMAIN s) |->
                             IF t = {} THEN 0 ELSE f[t \ {Max(t)}] * b + s[Max(t)]])[DOMAIN s]
    BY Zenon DEF Number, FoldLeft, MapThenFoldSet
  <2>. HIDE DEF n
  <2>. QED  BY <1>1, <2>1
<1>3. \E f : IsIt(f)
  <2>. DEFINE G == [x \in (1 .. n) \X Nat |-> x[2] * b + s[x[1]]]
  <2>0. \A i \in 1 .. n, m \in Nat : m * b + s[i] \in Nat
    BY <1>1
  <2>1. G \in [(1 .. n) \X Nat -> Nat] /\ \A i \in 1 .. n, m \in Nat : G[<<i, m>>] = m * b + s[i]
    BY <2>0
  <2>. HIDE DEF G, n
  <2>2. PICK f : Folded(n, Nat, 0, G, f)
    <3>1. Folding(n, Nat, 0, G)
      BY <1>1, <2>1 DEF Folding
    <3>. QED  BY ONLY <3>1, FoldAlong
  <2>3. \A t \in SUBSET (1 .. n) : t # {} => Max(t) \in 1 .. n /\ t \ {Max(t)} \in SUBSET (1 .. n)
    BY <1>1, MaxIs
  <2>4. \A t \in SUBSET (1 .. n) : f[t] = IF t = {} THEN 0 ELSE f[t \ {Max(t)}] * b + s[Max(t)]
    BY <2>1, <2>2, <2>3 DEF Folded
  <2>. QED  BY <2>2, <2>4 DEF Folded
<1>4. IsIt(g)
  <2>. HIDE DEF IsIt
  <2>. QED  BY <1>3
<1>. HIDE DEF g, n
<1>. DEFINE v == [i \in 0 .. n |-> g[1 .. i]]
<1>5. v[0] = 0 /\ v[n] = g[1 .. n]
  <2>1. 1 .. 0 = {} /\ 0 \in 0 .. n /\ n \in 0 .. n
    BY <1>1
  <2>. QED  BY <1>4, <2>1
<1>6. \A i \in 1 .. n : v[i] = v[i - 1] * b + s[i]
  <2>. TAKE i \in 1 .. n
  <2>1. /\ i \in Nat /\ i > 0 /\ i - 1 \in 0 .. n /\ i \in 0 .. n /\ 1 .. i # {}
        /\ 1 .. i \in SUBSET (1 .. n)
    <3>1. i \in Nat /\ i > 0 /\ i - 1 \in 0 .. n /\ i \in 0 .. n /\ i <= n
      BY <1>1
    <3>2. 1 \in 1 .. i
      BY <3>1
    <3>3. \A j \in 1 .. i : j \in 1 .. n
      BY <1>1, <3>1
    <3>. QED  BY <3>1, <3>2, <3>3
  <2>2. Max(1 .. i) = i /\ (1 .. i) \ {i} = 1 .. i - 1
    BY <2>1, MaxUpTo
  <2>3. g[1 .. i] = g[(1 .. i) \ {Max(1 .. i)}] * b + s[Max(1 .. i)]
    BY <1>4, <2>1
  <2>. QED  BY <2>1, <2>2, <2>3
<1>7. \A i \in 0 .. n : v[i] \in Nat
  <2>. DEFINE B == {i \in 0 .. n : v[i] \notin Nat}
  <2>1. CASE B = {}
    BY <2>1
  <2>2. CASE B # {}
    <3>1. B \in SUBSET Nat
      BY <1>1
    <3>. HIDE DEF B
    <3>2. \E i \in B : \A l \in B : i <= l
      BY <2>2, <3>1, Least
    <3>. USE DEF B
    <3>3. PICK i \in B : \A l \in B : i <= l
      BY <3>2
    <3>4. i \in 0 .. n /\ v[i] \notin Nat /\ \A l \in 0 .. n : v[l] \notin Nat => i <= l
      BY <3>3
    <3>. HIDE DEF v, B
    <3>5. i # 0 /\ i \in 1 .. n /\ i - 1 \in 0 .. n
      BY <1>1, <1>5, <3>4
    <3>6. v[i - 1] \in Nat
      BY <3>4, <3>5
    <3>7. s[i] \in Nat /\ v[i] = v[i - 1] * b + s[i]
      BY <1>1, <1>6, <3>5
    <3>8. v[i - 1] * b \in Nat
      BY <3>6
    <3>. QED  BY <3>4, <3>7, <3>8
  <2>. QED  BY <2>1, <2>2
<1>8. v \in [0 .. n -> Nat]
  BY <1>7
<1>9. IsNumber(v, s, b)
  BY <1>5, <1>6 DEF IsNumber, n
<1>. QED  BY <1>2, <1>5, <1>8, <1>9 DEF n

LEMMA NumberIsThat ==
  ASSUME NEW s \in Seq(Nat), NEW b \in Nat, NEW v, IsNumber(v, s, b)
  PROVE  v[Len(s)] = Number(s, b) /\ Number(s, b) \in Nat
<1>1. PICK w \in [0 .. Len(s) -> Nat] : IsNumber(w, s, b) /\ Number(s, b) = w[Len(s)]
  BY NumberIs
<1>. DEFINE n == Len(s)
            B == {i \in 0 .. n : v[i] # w[i]}
<1>2. n \in Nat /\ n \in 0 .. n
  OBVIOUS
<1>3. CASE B = {}
  BY <1>1, <1>2, <1>3
<1>4. CASE B # {}
  <2>1. B \in SUBSET Nat
    BY <1>2
  <2>. HIDE DEF B
  <2>2. \E i \in B : \A l \in B : i <= l
    BY <1>4, <2>1, Least
  <2>. USE DEF B
  <2>3. PICK i \in B : \A l \in B : i <= l
    BY <2>2
  <2>4. i \in 0 .. n /\ v[i] # w[i] /\ \A l \in 0 .. n : v[l] # w[l] => i <= l
    BY <2>3
  <2>. HIDE DEF B
  <2>5. i # 0
    BY <1>1, <2>4 DEF IsNumber
  <2>6. i \in 1 .. n /\ i - 1 \in 0 .. n
    BY <1>2, <2>4, <2>5
  <2>7. v[i - 1] = w[i - 1]
    BY <2>4, <2>6
  <2>8. v[i] = v[i - 1] * b + s[i] /\ w[i] = w[i - 1] * b + s[i]
    BY <1>1, <2>6 DEF IsNumber
  <2>. QED  BY <2>4, <2>7, <2>8
<1>. QED  BY <1>3, <1>4

LEMMA NumberGrows ==
  ASSUME NEW s \in Seq(Nat), NEW b \in Nat, NEW d \in Nat
  PROVE  /\ Number(<<>>, b) = 0
         /\ Number(Append(s, d), b) = Number(s, b) * b + d
         /\ Number(<<0>> \o s, b) = Number(s, b)
<1>. DEFINE n == Len(s)
            t == Append(s, d)
            z == <<0>> \o s
<1>1. n \in Nat
  OBVIOUS
<1>2. t \in Seq(Nat) /\ Len(t) = n + 1 /\ t[n + 1] = d /\ \A i \in 1 .. n : t[i] = s[i]
  OBVIOUS
<1>3. z \in Seq(Nat) /\ Len(z) = n + 1 /\ z[1] = 0 /\ \A i \in 1 .. n : z[i + 1] = s[i]
  <2>1. <<0>> \in Seq(Nat) /\ Len(<<0>>) = 1 /\ <<0>>[1] = 0
    OBVIOUS
  <2>2. z \in Seq(Nat) /\ Len(z) = 1 + n /\ \A i \in 1 .. 1 + n : z[i] = IF i <= 1 THEN <<0>>[i] ELSE s[i - 1]
    BY <2>1, ConcatProperties
  <2>3. \A i \in 1 .. n : i + 1 \in 1 .. 1 + n /\ ~(i + 1 <= 1) /\ (i + 1) - 1 = i
    BY <1>1
  <2>4. 1 \in 1 .. 1 + n
    BY <1>1
  <2>. HIDE DEF z, n
  <2>. QED  BY <1>1, <2>1, <2>2, <2>3, <2>4
<1>. HIDE DEF n, t, z
<1>4. Number(<<>>, b) = 0
  <2>1. <<>> \in Seq(Nat) /\ Len(<<>>) = 0
    OBVIOUS
  <2>2. PICK v : IsNumber(v, <<>>, b) /\ Number(<<>>, b) = v[Len(<<>>)]
    BY <2>1, NumberIs
  <2>. QED  BY <2>1, <2>2 DEF IsNumber
<1>5. Number(t, b) = Number(s, b) * b + d
  <2>1. PICK v \in [0 .. n + 1 -> Nat] : IsNumber(v, t, b) /\ Number(t, b) = v[n + 1]
    BY <1>2, NumberIs
  <2>2. v[n + 1] = v[n] * b + d
    <3>1. n + 1 \in 1 .. n + 1 /\ (n + 1) - 1 = n
      BY <1>1
    <3>. QED  BY <1>2, <2>1, <3>1 DEF IsNumber
  <2>3. IsNumber(v, s, b)
    <3>1. \A i \in 1 .. n : i \in 1 .. n + 1
      BY <1>1
    <3>. QED  BY <1>2, <2>1, <3>1 DEF IsNumber, n
  <2>4. v[n] = Number(s, b)
    BY <2>3, NumberIsThat DEF n
  <2>. QED  BY <2>1, <2>2, <2>4
<1>6. Number(z, b) = Number(s, b)
  <2>1. PICK v \in [0 .. n + 1 -> Nat] : IsNumber(v, z, b) /\ Number(z, b) = v[n + 1]
    BY <1>3, NumberIs
  <2>. DEFINE u == [i \in 0 .. n |-> v[i + 1]]
  <2>2. v[1] = 0
    <3>1. 1 \in 1 .. n + 1 /\ 1 - 1 = 0 /\ v[0] = 0
      BY <1>1, <2>1 DEF IsNumber
    <3>2. v[1] = v[1 - 1] * b + z[1]
      BY <1>3, <2>1, <3>1 DEF IsNumber
    <3>. QED  BY <1>3, <3>1, <3>2
  <2>3. \A i \in 1 .. n : v[i + 1] = v[i] * b + s[i]
    <3>1. \A i \in 1 .. n : i + 1 \in 1 .. n + 1 /\ (i + 1) - 1 = i
      BY <1>1
    <3>. QED  BY <1>3, <2>1, <3>1 DEF IsNumber
  <2>4. u[0] = 0 /\ u[n] = v[n + 1] /\ \A i \in 1 .. n : u[i] = v[i + 1] /\ u[i - 1] = v[i]
    <3>1. 0 \in 0 .. n /\ n \in 0 .. n /\ \A i \in 1 .. n : i \in 0 .. n /\ i - 1 \in 0 .. n /\ (i - 1) + 1 = i
      BY <1>1
    <3>. QED  BY <2>2, <3>1
  <2>. HIDE DEF u
  <2>5. IsNumber(u, s, b)
    BY <2>3, <2>4 DEF IsNumber, n
  <2>6. u[n] = Number(s, b)
    BY <2>5, NumberIsThat DEF n
  <2>. QED  BY <2>1, <2>4, <2>6
<1>. QED  BY <1>4, <1>5, <1>6 DEF t, z

\* The digits of a number are digits, and the number can be read from them.
LEMMA DigitsAre ==
  ASSUME NEW n \in Nat, NEW b \in Nat, b > 1
  PROVE  /\ Digits(n, b) \in Seq(0 .. b - 1) /\ Len(Digits(n, b)) > 0
         /\ Number(Digits(n, b), b) = n
<1>. DEFINE Fine(k) == /\ Digits(k, b) \in Seq(0 .. b - 1) /\ Len(Digits(k, b)) > 0
                       /\ Number(Digits(k, b), b) = k
            B == {k \in Nat : ~Fine(k)}
<1>1. CASE B = {}
  BY <1>1
<1>2. CASE B # {}
  <2>1. B \in SUBSET Nat
    OBVIOUS
  <2>. HIDE DEF B
  <2>2. \E k \in B : \A l \in B : k <= l
    BY <1>2, <2>1, Least
  <2>. USE DEF B
  <2>3. PICK k \in B : \A l \in B : k <= l
    BY <2>2
  <2>. HIDE DEF Fine
  <2>4. k \in Nat /\ ~Fine(k) /\ \A l \in Nat : ~Fine(l) => k <= l
    BY <2>3
  <2>. HIDE DEF B
  <2>5. \A s \in Seq(0 .. b - 1) : s \in Seq(Nat)
    OBVIOUS
  <2>6. CASE k < b
    <3>. DEFINE d == Append(<<>>, k)
    <3>1. Digits(k, b) = d
      BY <2>4, <2>6, DigitsUnfold
    <3>2. d \in Seq(0 .. b - 1) /\ Len(d) = 1 /\ <<>> \in Seq(Nat)
      BY <2>4, <2>6
    <3>3. Number(d, b) = Number(<<>>, b) * b + k /\ Number(<<>>, b) = 0
      BY <2>4, <3>2, NumberGrows
    <3>4. 0 * b = 0
      OBVIOUS
    <3>. HIDE DEF d
    <3>. QED  BY <2>4, <3>1, <3>2, <3>3, <3>4 DEF Fine
  <2>7. CASE ~(k < b)
    <3>. DEFINE l == k \div b
                r == k % b
                q == Digits(l, b)
                d == Append(q, r)
    <3>1. l \in Nat /\ r \in 0 .. b - 1 /\ k = l * b + r /\ l < k
      <4>1. k \in Nat /\ k >= b
        BY <2>4, <2>7
      <4>. QED  BY ONLY <4>1, b \in Nat, b > 1, DivMod, Zenon
    <3>2. Digits(k, b) = d
      BY <2>4, <2>7, DigitsUnfold
    <3>. HIDE DEF l, r
    <3>3. q \in Seq(0 .. b - 1) /\ Len(q) > 0 /\ Number(q, b) = l
      <4>1. Fine(l)
        BY <2>4, <3>1
      <4>. QED  BY <4>1 DEF Fine
    <3>. HIDE DEF q
    <3>4. d \in Seq(0 .. b - 1) /\ Len(d) > 0
      BY <3>1, <3>3
    <3>5. Number(d, b) = Number(q, b) * b + r
      BY <2>5, <3>1, <3>3, NumberGrows
    <3>. QED  BY <2>4, <3>1, <3>2, <3>3, <3>4, <3>5 DEF Fine
  <2>. QED  BY <2>6, <2>7
<1>. QED  BY <1>1, <1>2

-----------------------------------------------------------------------------
(***************************************************************************)
(* Items                                                                    *)
(***************************************************************************)

Associates(S) == \A p, q, r \in Seq(S) : (p \o q) \o r = p \o (q \o r)

LEMMA AllAssociate == \A S : Associates(S)
BY ConcatAssociative, Zenon DEF Associates

LEMMA Regroup == \A p, q, r \in Seq(Nat) : (p \o q) \o r = p \o (q \o r)
<1>1. Associates(Nat)
  BY AllAssociate
<1>. QED  BY <1>1, Zenon DEF Associates

LEMMA Octets == /\ Octet \in Nat /\ Octet > 1 /\ High \in Nat /\ High > 1 /\ Octet = 2 * High
<1>1. PICK n \in 2 .. 128 : Octet = 2 * n
  BY SnmpAssumption
<1>. QED  BY <1>1 DEF High

LEMMA Middle ==
  ASSUME NEW p \in Seq(Nat), NEW q \in Seq(Nat), NEW r \in Seq(Nat)
  PROVE  /\ (p \o q) \o r \in Seq(Nat) /\ Len((p \o q) \o r) = Len(p) + Len(q) + Len(r)
         /\ SubSeq((p \o q) \o r, Len(p) + 1, Len(p) + Len(q)) = q
<1>. DEFINE pq == p \o q
            s == pq \o r
            a == Len(p)
            b == Len(q)
            c == Len(r)
            t == SubSeq(s, a + 1, a + b)
<1>1. /\ a \in Nat /\ b \in Nat /\ c \in Nat
  OBVIOUS
<1>2. /\ pq \in Seq(Nat) /\ Len(pq) = a + b /\ \A i \in 1 .. b : pq[a + i] = q[i]
  BY Concat
<1>. HIDE DEF pq
<1>3. /\ s \in Seq(Nat) /\ Len(s) = Len(pq) + c /\ \A i \in 1 .. Len(pq) : s[i] = pq[i]
  <2>1. pq \in Seq(Nat) /\ r \in Seq(Nat)
    BY <1>2
  <2>. QED  BY ONLY <2>1, Concat
<1>. HIDE DEF s, a, b, c
<1>4. \A i \in 1 .. b : a + i \in 1 .. a + b /\ a + i \in 1 .. Len(s) /\ s[a + i] = q[i]
  <2>. TAKE i \in 1 .. b
  <2>1. a + i \in 1 .. a + b /\ a + i \in 1 .. (a + b) + c
    BY ONLY <1>1
  <2>2. Len(pq) = a + b /\ Len(s) = (a + b) + c /\ pq[a + i] = q[i]
    BY <1>2, <1>3
  <2>3. s[a + i] = pq[a + i]
    BY ONLY <1>3, <2>1, <2>2
  <2>. QED  BY ONLY <2>1, <2>2, <2>3
<1>5. \A i \in a + 1 .. a + b : s[i] \in Nat
  BY <1>1, <1>2, <1>3
<1>6. /\ t \in Seq(Nat) /\ Len(t) = b
      /\ \A i \in 1 .. b : t[i] = s[a + i]
  <2>1. a + 1 \in Int /\ a + b \in Int
    BY <1>1
  <2>2. /\ t \in Seq(Nat) /\ Len(t) = IF a + 1 <= a + b THEN (a + b) - (a + 1) + 1 ELSE 0
        /\ \A i \in 1 .. (a + b) - (a + 1) + 1 : t[i] = s[(a + 1) + i - 1]
    BY <1>5, <2>1, SubSeqProperties
  <2>3. (a + b) - (a + 1) + 1 = b /\ \A i \in 1 .. b : (a + 1) + i - 1 = a + i
    BY <1>1
  <2>. HIDE DEF t
  <2>. QED  BY <1>1, <2>2, <2>3
<1>7. t = q
  <2>. HIDE DEF t
  <2>1. Len(t) = Len(q) /\ \A i \in 1 .. Len(t) : t[i] = q[i]
    BY <1>4, <1>6 DEF b
  <2>. QED  BY <1>6, <2>1, SeqEqual
<1>. QED  BY <1>2, <1>3, <1>7 DEF s, pq, a, b, c

\* How a receiver takes a sequence of octets apart.
SizeDigits(s) == IF s[2] < High THEN 0 ELSE s[2] - High
Size(s) == IF s[2] < High THEN s[2] ELSE Number(SubSeq(s, 3, 2 + SizeDigits(s)), Octet)
ItemEnd(s) == 2 + SizeDigits(s) + Size(s)
Broken(s) == Len(s) = 1 \/ Len(s) < 2 + SizeDigits(s) \/ Len(s) < ItemEnd(s)
Item(s) == [tag |-> s[1], body |-> SubSeq(s, 3 + SizeDigits(s), ItemEnd(s))]
Rest(s) == SubSeq(s, ItemEnd(s) + 1, Len(s))

TheItems == [tag : Nat, body : Seq(Nat)]

LEMMA RegroupItems == \A p, q, r \in Seq(TheItems) : (p \o q) \o r = p \o (q \o r)
<1>1. Associates(TheItems)
  BY AllAssociate
<1>. QED  BY <1>1, Zenon DEF Associates

LEMMA Parts ==
  ASSUME NEW s \in Seq(Nat), s # <<>>, ~Broken(s)
  PROVE  /\ Item(s) \in TheItems /\ Rest(s) \in Seq(Nat) /\ Len(Rest(s)) < Len(s)
<1>. DEFINE k == SizeDigits(s)
            z == Size(s)
            to == ItemEnd(s)
            n == Len(s)
<1>1. n \in Nat /\ n > 1 /\ \A i \in 1 .. n : s[i] \in Nat
  <2>1. Len(s) \in Nat /\ \A i \in 1 .. Len(s) : s[i] \in Nat
    OBVIOUS
  <2>2. Len(s) # 0
    BY EmptySeq
  <2>3. Len(s) # 1
    BY DEF Broken
  <2>. QED  BY <2>1, <2>2, <2>3, SMTT(30)
<1>2. s[1] \in Nat /\ s[2] \in Nat
  BY <1>1
<1>3. k \in Nat /\ 2 + k <= n /\ to = 2 + k + z /\ ~(n < to)
  BY <1>1, <1>2, Octets DEF SizeDigits, Broken, ItemEnd
<1>4. z \in Nat
  <2>1. SubSeq(s, 3, 2 + k) \in Seq(Nat)
    <3>1. \A i \in 3 .. 2 + k : s[i] \in Nat
      BY <1>1, <1>3
    <3>. HIDE DEF k
    <3>. QED  BY <1>3, <3>1, SubSeqProperties
  <2>2. Number(SubSeq(s, 3, 2 + k), Octet) \in Nat
    <3>. DEFINE t == SubSeq(s, 3, 2 + k)
    <3>1. t \in Seq(Nat)
      BY <2>1
    <3>. HIDE DEF t
    <3>2. PICK v : IsNumber(v, t, Octet)
      BY <3>1, Octets, NumberIs
    <3>3. Number(t, Octet) \in Nat
      BY <3>1, <3>2, Octets, NumberIsThat
    <3>. QED  BY <3>3 DEF t
  <2>. QED  BY <1>2, <2>2 DEF Size
<1>. HIDE DEF k, z, to, n
<1>5. to \in Nat /\ to >= 2 /\ to <= n
  BY <1>1, <1>3, <1>4
<1>6. SubSeq(s, 3 + k, to) \in Seq(Nat)
  <2>1. \A i \in 3 + k .. to : s[i] \in Nat
    BY <1>1, <1>3, <1>5
  <2>. QED  BY <1>3, <1>5, <2>1, SubSeqProperties
<1>7. SubSeq(s, to + 1, n) \in Seq(Nat) /\ Len(SubSeq(s, to + 1, n)) < n
  <2>1. \A i \in to + 1 .. n : s[i] \in Nat
    BY <1>1, <1>5
  <2>2. to + 1 \in Int /\ n \in Int
    BY <1>1, <1>5
  <2>3. /\ SubSeq(s, to + 1, n) \in Seq(Nat)
        /\ Len(SubSeq(s, to + 1, n)) = IF to + 1 <= n THEN n - (to + 1) + 1 ELSE 0
    BY <2>1, <2>2, SubSeqProperties
  <2>. QED  BY <1>1, <1>5, <2>3
<1>. QED  BY <1>2, <1>6, <1>7 DEF Item, Rest, TheItems, k, to, n

LEMMA ItemsUnfold ==
  ASSUME NEW s \in Seq(Nat)
  PROVE  Items[s] = IF s = <<>> THEN <<>> ELSE IF Broken(s) THEN <<Junk>>
                    ELSE <<Item(s)>> \o Items[Rest(s)]
<1>. DEFINE IsIt(g) == g = [t \in Seq(Nat) |->
                             IF t = <<>> THEN <<>> ELSE IF Broken(t) THEN <<Junk>>
                             ELSE <<Item(t)>> \o g[Rest(t)]]
<1>1. \E g : IsIt(g)
  <2>. DEFINE X == Seq(Nat)
              A == Seq(TheItems)
              Stop == {t \in X : t = <<>> \/ Broken(t)}
              mu == [t \in X |-> Len(t)]
              h == [t \in X |-> IF t \in Stop THEN t ELSE Rest(t)]
              c == [t \in X |-> IF t = <<>> THEN <<>> ELSE <<Junk>>]
              H == [x \in X \X A |-> IF x[1] \in Stop THEN <<>> ELSE <<Item(x[1])>> \o x[2]]
  <2>0. Stop \in SUBSET X
    OBVIOUS
  <2>1. \A t \in X \ Stop : Item(t) \in TheItems /\ Rest(t) \in X /\ Len(Rest(t)) < Len(t)
    BY Parts
  <2>2. \A t \in X : Len(t) \in Nat
    OBVIOUS
  <2>3. Junk \in TheItems
    BY DEF Junk, TheItems
  <2>4. \A i \in TheItems, a \in A : <<i>> \o a \in A
    OBVIOUS
  <2>5. mu \in [X -> Nat] /\ \A t \in X : mu[t] = Len(t)
    BY <2>2
  <2>6. h \in [X -> X] /\ \A t \in X \ Stop : h[t] = Rest(t)
    <3>. HIDE DEF X, Stop
    <3>. QED  BY <2>1
  <2>7. c \in [X -> A]
    BY <2>3
  <2>8. /\ H \in [X \X A -> A]
        /\ \A t \in X \ Stop, a \in A : H[<<t, a>>] = <<Item(t)>> \o a
    <3>1. <<>> \in A
      OBVIOUS
    <3>. HIDE DEF X, A, Stop
    <3>. QED  BY <2>1, <2>4, <3>1
  <2>9. \A t \in X \ Stop : mu[h[t]] < mu[t]
    <3>. HIDE DEF X, Stop, mu, h
    <3>. QED  BY <2>1, <2>5, <2>6
  <2>10. \A t \in X : /\ t \in Stop <=> t = <<>> \/ Broken(t)
                      /\ c[t] = IF t = <<>> THEN <<>> ELSE <<Junk>>
    OBVIOUS
  <2>. HIDE DEF A, Stop, mu, h, c, H, X
  <2>11. Recursion(X, A, Stop, mu, h, c, H)
    BY <2>0, <2>5, <2>6, <2>7, <2>8, <2>9 DEF Recursion
  <2>12. PICK g \in [X -> A] : \A t \in X : g[t] = IF t \in Stop THEN c[t] ELSE H[<<t, g[h[t]]>>]
    BY ONLY <2>11, RecursionExists
  <2>13. \A t \in X : g[t] = IF t = <<>> THEN <<>> ELSE IF Broken(t) THEN <<Junk>>
                             ELSE <<Item(t)>> \o g[Rest(t)]
    <3>. TAKE t \in X
    <3>1. CASE t \in Stop
      BY <2>10, <2>12, <3>1
    <3>2. CASE t \notin Stop
      <4>1. g[t] = H[<<t, g[h[t]]>>] /\ h[t] = Rest(t) /\ g[h[t]] \in A
        BY <2>1, <2>6, <2>12, <3>2
      <4>. QED  BY <2>8, <2>10, <3>2, <4>1
    <3>. QED  BY <3>1, <3>2
  <2>14. IsIt(g)
    BY <2>12, <2>13 DEF X
  <2>. QED  BY <2>14
<1>2. IsIt(Items)
  <2>1. PICK g : IsIt(g)
    BY <1>1
  <2>. QED  BY <2>1 DEF Items, Item, Rest, Broken, ItemEnd, Size, SizeDigits
<1>. QED  BY <1>2

\* The form of a length: itself, or its digits and how many they are.
LEMMA LengthIs ==
  ASSUME NEW n \in Nat
  PROVE  /\ n < High => Length(n) = <<n>>
         /\ n >= High => /\ Length(n) = <<High + Len(Digits(n, Octet))>> \o Digits(n, Octet)
                         /\ Digits(n, Octet) \in Seq(Nat) /\ Len(Digits(n, Octet)) \in Nat
                         /\ Number(Digits(n, Octet), Octet) = n
<1>1. Digits(n, Octet) \in Seq(0 .. Octet - 1) /\ Number(Digits(n, Octet), Octet) = n
  BY Octets, DigitsAre
<1>2. \A q \in Seq(0 .. Octet - 1) : q \in Seq(Nat) /\ Len(q) \in Nat
  BY Octets
<1>3. Digits(n, Octet) \in Seq(Nat) /\ Len(Digits(n, Octet)) \in Nat
  BY <1>1, <1>2
<1>. HIDE <1>1, <1>2
<1>4. ~(n < High /\ n >= High)
  BY Octets
<1>. QED  BY <1>1, <1>3, <1>4 DEF Length

\* The head, the body and what follows, each found where it is.
Heading(tag, body) == <<tag>> \o Length(Len(body))

LEMMA HeadingIs ==
  ASSUME NEW tag \in Nat, NEW body \in Seq(Nat), NEW rest \in Seq(Nat)
  PROVE  LET s == TLV(tag, body) \o rest
             k == Len(Heading(tag, body)) - 2
         IN  /\ Heading(tag, body) \in Seq(Nat) /\ k \in Nat /\ s \in Seq(Nat)
             /\ s = (Heading(tag, body) \o body) \o rest
             /\ s[1] = tag /\ SizeDigits(s) = k /\ Size(s) = Len(body)
             /\ Len(s) = 2 + k + Len(body) + Len(rest)
<1>. DEFINE n == Len(body)
            L == Length(n)
            h == Heading(tag, body)
            s == TLV(tag, body) \o rest
            k == Len(h) - 2
            d == Digits(n, Octet)
<1>1. n \in Nat /\ <<tag>> \in Seq(Nat) /\ Len(<<tag>>) = 1 /\ <<tag>>[1] = tag
  OBVIOUS
<1>2. L \in Seq(Nat) /\ Len(L) \in Nat /\ Len(L) > 0
      /\ (n < High => Len(L) = 1 /\ L[1] = n)
      /\ (n >= High => Len(L) = 1 + Len(d) /\ L[1] = High + Len(d) /\ Len(d) \in Nat)
  <2>. HIDE DEF n, d
  <2>1. CASE n < High
    <3>1. L = <<n>>
      BY <1>1, <2>1, LengthIs
    <3>2. ~(n >= High)
      BY <1>1, <2>1, Octets
    <3>. QED  BY <1>1, <2>1, <3>1, <3>2
  <2>2. CASE n >= High
    <3>1. L = <<High + Len(d)>> \o d /\ d \in Seq(Nat) /\ Len(d) \in Nat
      BY <1>1, <2>2, LengthIs DEF d
    <3>2. <<High + Len(d)>> \in Seq(Nat) /\ Len(<<High + Len(d)>>) = 1 /\ <<High + Len(d)>>[1] = High + Len(d)
      BY <3>1, Octets
    <3>3. L \in Seq(Nat) /\ Len(L) = 1 + Len(d) /\ L[1] = High + Len(d)
      <4>. DEFINE p == <<High + Len(d)>>
      <4>1. p \in Seq(Nat) /\ d \in Seq(Nat) /\ L = p \o d /\ Len(p) = 1 /\ p[1] = High + Len(d)
        BY <3>1, <3>2
      <4>. HIDE DEF p, L
      <4>2. p \o d \in Seq(Nat) /\ Len(p \o d) = Len(p) + Len(d) /\ (p \o d)[1] = p[1]
        <5>1. 1 \in 1 .. Len(p)
          BY <4>1
        <5>2. p \in Seq(Nat) /\ d \in Seq(Nat)
          BY <4>1
        <5>. QED  BY ONLY <5>1, <5>2, Concat
      <4>. QED  BY <4>1, <4>2
    <3>4. ~(n < High)
      BY <1>1, <2>2, Octets
    <3>. HIDE DEF L
    <3>. QED  BY <3>1, <3>3, <3>4
  <2>. QED  BY <1>1, <2>1, <2>2, Octets
<1>. HIDE DEF L, n, d
<1>3. h = <<tag>> \o L /\ h \in Seq(Nat) /\ Len(h) = 1 + Len(L) /\ h[1] = tag
      /\ \A i \in 1 .. Len(L) : h[1 + i] = L[i]
  <2>1. h = <<tag>> \o L
    BY DEF Heading, L, n
  <2>. DEFINE p == <<tag>>
  <2>2. p \in Seq(Nat) /\ Len(p) = 1 /\ p[1] = tag /\ 1 \in 1 .. Len(p)
    BY <1>1
  <2>. HIDE DEF p, h
  <2>3. p \o L \in Seq(Nat) /\ Len(p \o L) = Len(p) + Len(L) /\ (p \o L)[1] = p[1]
        /\ \A i \in 1 .. Len(L) : (p \o L)[Len(p) + i] = L[i]
    <3>1. p \in Seq(Nat) /\ L \in Seq(Nat) /\ 1 \in 1 .. Len(p)
      BY <1>2, <2>2
    <3>. QED  BY ONLY <3>1, Concat
  <2>. QED  BY <2>1, <2>2, <2>3 DEF p
<1>. HIDE DEF h
<1>4. s = (h \o body) \o rest
  BY DEF TLV, h, Heading
<1>. HIDE DEF s
<1>5. s \in Seq(Nat) /\ Len(s) = Len(h) + n + Len(rest)
  BY <1>3, <1>4, Middle DEF n
<1>6. \A i \in 1 .. Len(h) : s[i] = h[i]
  <2>1. h \o body \in Seq(Nat) /\ Len(h \o body) = Len(h) + n /\ \A i \in 1 .. Len(h) : (h \o body)[i] = h[i]
    BY <1>3, Concat DEF n
  <2>. DEFINE hb == h \o body
  <2>. HIDE DEF hb
  <2>2. \A i \in 1 .. Len(hb) : (hb \o rest)[i] = hb[i]
    BY <2>1, Concat DEF hb
  <2>3. \A i \in 1 .. Len(h) : i \in 1 .. Len(hb)
    BY <1>1, <1>3, <1>2, <2>1 DEF hb
  <2>. QED  BY <1>4, <2>1, <2>2, <2>3 DEF hb
<1>7. s[1] = tag /\ s[2] = L[1] /\ k \in Nat
  <2>1. 1 \in 1 .. Len(h) /\ 2 \in 1 .. Len(h) /\ 1 \in 1 .. Len(L) /\ 2 = 1 + 1
    BY <1>2, <1>3
  <2>. QED  BY <1>2, <1>3, <1>6, <2>1
<1>8. SizeDigits(s) = k /\ Size(s) = n
  <2>1. CASE n < High
    <3>1. Len(L) = 1 /\ L[1] = n
      BY <1>2, <2>1
    <3>2. s[2] = n /\ s[2] < High
      BY <1>7, <2>1, <3>1
    <3>3. k = 0
      BY <1>3, <3>1
    <3>. HIDE DEF k
    <3>. QED  BY <3>2, <3>3 DEF SizeDigits, Size
  <2>2. CASE n >= High
    <3>1. s[2] = High + Len(d) /\ ~(s[2] < High) /\ s[2] - High = Len(d) /\ k = Len(d)
      BY <1>2, <1>3, <1>7, <2>2, Octets
    <3>2. SizeDigits(s) = k
      BY <3>1 DEF SizeDigits
    <3>3. SubSeq(s, 3, 2 + k) = d
      <4>. DEFINE p == <<tag, High + Len(d)>>
                  r == body \o rest
      <4>1. p \in Seq(Nat) /\ Len(p) = 2 /\ d \in Seq(Nat) /\ r \in Seq(Nat)
        <5>1. d \in Seq(Nat)
          BY <1>1, <2>2, LengthIs DEF n, d
        <5>. QED  BY <1>2, <2>2, <5>1, Octets
      <4>2. s = (p \o d) \o r
        <5>1. L = <<High + Len(d)>> \o d
          BY <1>1, <2>2, LengthIs DEF L, n, d
        <5>2. h = p \o d
          <6>1. <<tag>> \in Seq(Nat) /\ <<High + Len(d)>> \in Seq(Nat)
            BY <1>2, <2>2, Octets
          <6>2. p = <<tag>> \o <<High + Len(d)>>
            BY <6>1
          <6>3. <<tag>> \o (<<High + Len(d)>> \o d) = (<<tag>> \o <<High + Len(d)>>) \o d
            BY ONLY <4>1, <6>1, Regroup
          <6>. QED  BY <1>3, <5>1, <6>2, <6>3
        <5>3. p \o d \in Seq(Nat) /\ r = body \o rest
          BY <4>1
        <5>. HIDE DEF p, r
        <5>4. ((p \o d) \o body) \o rest = (p \o d) \o r
          <6>. DEFINE q == p \o d
          <6>1. q \in Seq(Nat) /\ body \in Seq(Nat) /\ rest \in Seq(Nat) /\ r = body \o rest
            BY <5>3
          <6>. HIDE DEF q
          <6>2. (q \o body) \o rest = q \o (body \o rest)
            BY ONLY <6>1, Regroup
          <6>. QED  BY <6>1, <6>2 DEF q
        <5>. QED  BY <1>4, <5>2, <5>4
      <4>. HIDE DEF p, r
      <4>3. SubSeq((p \o d) \o r, Len(p) + 1, Len(p) + Len(d)) = d
        BY <4>1, Middle
      <4>4. 3 = Len(p) + 1 /\ 2 + k = Len(p) + Len(d)
        BY <3>1, <4>1
      <4>. QED  BY ONLY <4>2, <4>3, <4>4
    <3>4. Number(d, Octet) = n
      BY <1>1, <2>2, LengthIs DEF d, n
    <3>. QED  BY <3>1, <3>2, <3>3, <3>4 DEF Size
  <2>. QED  BY <1>1, <2>1, <2>2, Octets
<1>. QED  BY <1>1, <1>3, <1>4, <1>5, <1>7, <1>8 DEF s, h, n

LEMMA ItemsOfNone == Items[<<>>] = <<>>
<1>1. <<>> \in Seq(Nat)
  OBVIOUS
<1>. QED  BY <1>1, ItemsUnfold

\* What is encoded is the first item of what it begins.
LEMMA ItemsOfTLV ==
  ASSUME NEW tag \in Nat, NEW body \in Seq(Nat), NEW rest \in Seq(Nat)
  PROVE  /\ TLV(tag, body) \in Seq(Nat) /\ TLV(tag, body) \o rest \in Seq(Nat)
         /\ Items[TLV(tag, body) \o rest] = <<[tag |-> tag, body |-> body]>> \o Items[rest]
<1>. DEFINE h == Heading(tag, body)
            s == TLV(tag, body) \o rest
            k == Len(h) - 2
            n == Len(body)
            m == Len(rest)
            hb == h \o body
<1>0. n \in Nat /\ m \in Nat /\ Len(h) \in Nat
  <2>1. h \in Seq(Nat)
    BY HeadingIs
  <2>. HIDE DEF h
  <2>. QED  BY <2>1
<1>1. /\ h \in Seq(Nat) /\ k \in Nat /\ s \in Seq(Nat)
      /\ s = hb \o rest /\ s[1] = tag /\ SizeDigits(s) = k /\ Size(s) = n
      /\ Len(s) = 2 + k + n + m
  BY HeadingIs
<1>2. TLV(tag, body) = hb
  BY DEF TLV, Heading
<1>. HIDE DEF h, s
<1>3. Len(h) = 2 + k
  BY <1>0
<1>. HIDE DEF k, n, m, hb
<1>4. ItemEnd(s) = 2 + k + n
  BY <1>1 DEF ItemEnd
<1>5. ~Broken(s) /\ s # <<>>
  <2>1. Len(s) # 0 /\ Len(s) # 1 /\ ~(Len(s) < 2 + k) /\ ~(Len(s) < 2 + k + n)
    BY <1>0, <1>1
  <2>2. s # <<>>
    BY <2>1, EmptySeq
  <2>. QED  BY <1>1, <1>4, <2>1, <2>2 DEF Broken
<1>6. hb \in Seq(Nat) /\ Len(hb) = 2 + k + n
  <2>1. h \o body \in Seq(Nat) /\ Len(h \o body) = Len(h) + Len(body)
    BY <1>1, Concat
  <2>. QED  BY <1>3, <2>1 DEF hb, n
<1>7. SubSeq(s, 3 + k, 2 + k + n) = body
  <2>1. SubSeq((h \o body) \o rest, Len(h) + 1, Len(h) + Len(body)) = body
    BY <1>1, Middle
  <2>2. Len(h) + 1 = 3 + k /\ Len(h) + Len(body) = 2 + k + n
    BY <1>0, <1>1, <1>3 DEF n
  <2>. QED  BY <1>1, <2>1, <2>2 DEF hb
<1>8. SubSeq(s, 2 + k + n + 1, Len(s)) = rest
  <2>. DEFINE e == <<>>
  <2>1. e \in Seq(Nat) /\ (hb \o rest) \o e = hb \o rest
    <3>1. hb \o rest \in Seq(Nat)
      BY <1>1
    <3>. QED  BY <3>1
  <2>. HIDE DEF e
  <2>2. SubSeq((hb \o rest) \o e, Len(hb) + 1, Len(hb) + Len(rest)) = rest
    BY <1>6, <2>1, Middle
  <2>. QED  BY <1>1, <1>6, <2>1, <2>2 DEF m
<1>9. Item(s) = [tag |-> tag, body |-> body] /\ Rest(s) = rest
  BY <1>1, <1>4, <1>7, <1>8 DEF Item, Rest
<1>10. Items[s] = <<Item(s)>> \o Items[Rest(s)]
  BY <1>1, <1>5, ItemsUnfold
<1>. QED  BY <1>1, <1>2, <1>6, <1>9, <1>10 DEF s

-----------------------------------------------------------------------------
(***************************************************************************)
(* A list of sequences, joined                                              *)
(***************************************************************************)

\* What has been joined after the first so many.
Joins(f, ss) ==
  /\ f \in [1 .. Len(ss) -> Seq(Nat)]
  /\ \A i \in 1 .. Len(ss) : f[i] = IF i = 1 THEN ss[i] ELSE f[i - 1] \o ss[i]

LEMMA FlattenIs ==
  ASSUME NEW ss \in Seq(Seq(Nat)), ss # <<>>
  PROVE  \E f : Joins(f, ss) /\ FlattenSeq(ss) = f[Len(ss)]
<1>. DEFINE n == Len(ss)
            IsIt(f) == f = [i \in 1 .. n |-> IF i = 1 THEN ss[i] ELSE f[i - 1] \o ss[i]]
            flatten == CHOOSE f : IsIt(f)
<1>1. n \in Nat /\ n > 0 /\ \A i \in 1 .. n : ss[i] \in Seq(Nat)
  <2>1. n # 0
    BY EmptySeq
  <2>. QED  BY <2>1
<1>2. FlattenSeq(ss) = flatten[n]
  <2>1. Len(ss) # 0
    BY <1>1
  <2>. QED  BY <2>1, Zenon DEF FlattenSeq
<1>3. \E f \in [1 .. n -> Seq(Nat)] : IsIt(f)
  <2>. DEFINE X == 1 .. n
              A == Seq(Nat)
              Stop == {1}
              mu == [i \in X |-> i]
              h == [i \in X |-> IF i = 1 THEN 1 ELSE i - 1]
              c == [i \in X |-> ss[i]]
              H == [x \in X \X A |-> x[2] \o ss[x[1]]]
  <2>1. /\ Stop \in SUBSET X /\ mu \in [X -> Nat] /\ h \in [X -> X]
        /\ \A i \in X \ Stop : mu[h[i]] < mu[i]
    BY ONLY <1>1
  <2>2. c \in [X -> A]
    BY <1>1
  <2>3. /\ H \in [X \X A -> A]
        /\ \A i \in X, a \in A : H[<<i, a>>] = a \o ss[i]
    <3>1. \A i \in X, a \in A : a \o ss[i] \in A
      BY <1>1
    <3>. HIDE DEF X, A
    <3>. QED  BY <3>1
  <2>4. \A i \in X : h[i] = (IF i = 1 THEN 1 ELSE i - 1) /\ h[i] \in X /\ c[i] = ss[i] /\ (i \in Stop <=> i = 1)
    BY <1>1, <2>1
  <2>. HIDE DEF X, A, Stop, mu, h, c, H
  <2>5. Recursion(X, A, Stop, mu, h, c, H)
    BY <2>1, <2>2, <2>3 DEF Recursion
  <2>6. PICK f \in [X -> A] : \A i \in X : f[i] = IF i \in Stop THEN c[i] ELSE H[<<i, f[h[i]]>>]
    BY ONLY <2>5, RecursionExists
  <2>7. \A i \in X : f[i] = IF i = 1 THEN ss[i] ELSE f[i - 1] \o ss[i]
    <3>. TAKE i \in X
    <3>1. CASE i = 1
      <4>1. i \in Stop /\ c[i] = ss[i] /\ f[i] = IF i \in Stop THEN c[i] ELSE H[<<i, f[h[i]]>>]
        BY <2>4, <2>6, <3>1
      <4>. QED  BY ONLY <3>1, <4>1
    <3>2. CASE i # 1
      <4>1. f[i] = H[<<i, f[h[i]]>>] /\ h[i] = i - 1 /\ f[h[i]] \in A
        BY <2>4, <2>6, <3>2
      <4>. QED  BY <2>3, <3>2, <4>1
    <3>. QED  BY <3>1, <3>2
  <2>. QED  BY <2>6, <2>7 DEF X, A
<1>4. PICK g \in [1 .. n -> Seq(Nat)] : IsIt(g)
  BY <1>3
<1>5. IsIt(flatten)
  <2>. HIDE DEF IsIt
  <2>. QED  BY <1>4
<1>. HIDE DEF flatten
<1>6. \A i \in 1 .. n : flatten[i] \in Seq(Nat)
  <2>. DEFINE B == {i \in 1 .. n : flatten[i] \notin Seq(Nat)}
  <2>1. CASE B = {}
    BY <2>1
  <2>2. CASE B # {}
    <3>1. B \in SUBSET Nat
      BY <1>1
    <3>. HIDE DEF B
    <3>2. \E i \in B : \A l \in B : i <= l
      BY <2>2, <3>1, Least
    <3>. USE DEF B
    <3>3. PICK i \in B : \A l \in B : i <= l
      BY <3>2
    <3>4. i \in 1 .. n /\ flatten[i] \notin Seq(Nat) /\ \A l \in 1 .. n : flatten[l] \notin Seq(Nat) => i <= l
      BY <3>3
    <3>. HIDE DEF B
    <3>5. ss[i] \in Seq(Nat) /\ ss[1] \in Seq(Nat)
      BY <1>1, <3>4
    <3>6. i # 1 => i - 1 \in 1 .. n /\ ~(i <= i - 1)
      BY <1>1, <3>4
    <3>7. i # 1 => flatten[i - 1] \in Seq(Nat)
      BY <3>4, <3>6
    <3>8. flatten[i] = IF i = 1 THEN ss[i] ELSE flatten[i - 1] \o ss[i]
      BY <1>5, <3>4
    <3>. QED  BY <3>4, <3>5, <3>7, <3>8
  <2>. QED  BY <2>1, <2>2
<1>7. Joins(flatten, ss)
  BY <1>5, <1>6 DEF Joins
<1>. QED  BY <1>2, <1>7

\* The items of joined items are all of them, in their order.
TLVs(ts) == [i \in DOMAIN ts |-> TLV(ts[i].tag, ts[i].body)]

LEMMA ItemsOfJoined ==
  ASSUME NEW ts \in Seq(TheItems), ts # <<>>
  PROVE  FlattenSeq(TLVs(ts)) \in Seq(Nat) /\ Items[FlattenSeq(TLVs(ts))] = ts
<1>. DEFINE n == Len(ts)
            ss == TLVs(ts)
            item(i) == [tag |-> ts[i].tag, body |-> ts[i].body]
<1>1. n \in Nat /\ n > 0 /\ DOMAIN ts = 1 .. n /\ \A i \in 1 .. n : ts[i] \in TheItems
  <2>1. n # 0
    BY EmptySeq
  <2>. QED  BY <2>1
<1>2. \A i \in 1 .. n : ts[i].tag \in Nat /\ ts[i].body \in Seq(Nat) /\ item(i) = ts[i]
  BY <1>1 DEF TheItems
<1>3. \A i \in 1 .. n : TLV(ts[i].tag, ts[i].body) \in Seq(Nat)
  <2>. TAKE i \in 1 .. n
  <2>. DEFINE e == <<>>
  <2>1. e \in Seq(Nat)
    OBVIOUS
  <2>. HIDE DEF e, n
  <2>2. ts[i].tag \in Nat /\ ts[i].body \in Seq(Nat) /\ e \in Seq(Nat)
    BY <1>2, <2>1
  <2>. QED  BY ONLY <2>2, ItemsOfTLV
<1>4. /\ ss \in Seq(Seq(Nat)) /\ Len(ss) = n /\ ss # <<>>
      /\ \A i \in 1 .. n : ss[i] = TLV(ts[i].tag, ts[i].body)
  <2>. HIDE DEF n
  <2>1. ss = [i \in 1 .. n |-> TLV(ts[i].tag, ts[i].body)]
    BY <1>1 DEF TLVs
  <2>. HIDE DEF ss
  <2>2. ss \in Seq(Seq(Nat)) /\ Len(ss) = n
    BY <1>1, <1>3, <2>1
  <2>3. ss # <<>>
    BY <1>1, <2>2
  <2>. QED  BY <2>1, <2>2, <2>3
<1>. HIDE DEF ss, n
<1>5. PICK f : Joins(f, ss) /\ FlattenSeq(ss) = f[Len(ss)]
  BY <1>4, FlattenIs
<1>6. /\ f \in [1 .. n -> Seq(Nat)]
      /\ \A i \in 1 .. n : f[i] = IF i = 1 THEN ss[i] ELSE f[i - 1] \o ss[i]
  BY <1>4, <1>5 DEF Joins
<1>. DEFINE Fine(i) == \A r \in Seq(Nat) : Items[r] \in Seq(TheItems) =>
                         Items[f[i] \o r] = SubSeq(ts, 1, i) \o Items[r]
            B == {i \in 1 .. n : ~Fine(i)}
<1>7. B = {}
  <2>. SUFFICES ASSUME B # {} PROVE FALSE
    OBVIOUS
  <2>1. B \in SUBSET Nat
    BY <1>1
  <2>. HIDE DEF B
  <2>2. \E i \in B : \A l \in B : i <= l
    BY <2>1, Least
  <2>. USE DEF B
  <2>3. PICK i \in B : \A l \in B : i <= l
    BY <2>2
  <2>. HIDE DEF Fine
  <2>4. i \in 1 .. n /\ ~Fine(i) /\ \A l \in 1 .. n : ~Fine(l) => i <= l
    BY <2>3
  <2>. HIDE DEF B
  <2>5. ASSUME NEW r \in Seq(Nat)
        PROVE  /\ ss[i] \o r \in Seq(Nat) /\ ss[i] \in Seq(Nat)
               /\ Items[ss[i] \o r] = <<ts[i]>> \o Items[r]
    <3>1. ts[i].tag \in Nat /\ ts[i].body \in Seq(Nat) /\ item(i) = ts[i] /\ ss[i] = TLV(ts[i].tag, ts[i].body)
      BY <1>2, <1>4, <2>4
    <3>. DEFINE a == ts[i].tag
                b == ts[i].body
    <3>2. a \in Nat /\ b \in Seq(Nat) /\ r \in Seq(Nat)
      BY <3>1
    <3>. HIDE DEF a, b
    <3>3. /\ TLV(a, b) \in Seq(Nat) /\ TLV(a, b) \o r \in Seq(Nat)
          /\ Items[TLV(a, b) \o r] = <<[tag |-> a, body |-> b]>> \o Items[r]
      BY ONLY <3>2, ItemsOfTLV
    <3>. QED  BY <3>1, <3>3 DEF a, b
  <2>6. CASE i = 1
    <3>1. f[i] = ss[i]
      BY <1>6, <2>4, <2>6
    <3>2. SubSeq(ts, 1, 1) = <<ts[1]>>
      <4>1. \A j \in 1 .. 1 : ts[j] \in TheItems
        BY <1>1
      <4>2. SubSeq(ts, 1, 1) \in Seq(TheItems) /\ Len(SubSeq(ts, 1, 1)) = 1 /\ SubSeq(ts, 1, 1)[1] = ts[1]
        BY <4>1, SubSeqProperties
      <4>. DEFINE a == SubSeq(ts, 1, 1)
                  b == <<ts[1]>>
      <4>3. b \in Seq(TheItems) /\ Len(b) = 1 /\ b[1] = ts[1]
        BY <4>1
      <4>4. a \in Seq(TheItems) /\ Len(a) = 1 /\ a[1] = ts[1]
        BY <4>2
      <4>. HIDE DEF a, b
      <4>5. Len(a) = Len(b) /\ \A j \in 1 .. Len(a) : a[j] = b[j]
        BY <4>3, <4>4
      <4>6. a = b
        BY ONLY <4>3, <4>4, <4>5, SeqEqual
      <4>. QED  BY <4>6 DEF a, b
    <3>. QED  BY <2>4, <2>5, <2>6, <3>1, <3>2 DEF Fine
  <2>7. CASE i # 1
    <3>1. i - 1 \in 1 .. n /\ ~(i <= i - 1)
      BY <1>1, <2>4, <2>7
    <3>2. f[i] = f[i - 1] \o ss[i] /\ f[i - 1] \in Seq(Nat)
      BY <1>6, <2>4, <2>7, <3>1
    <3>3. Fine(i - 1)
      BY <2>4, <3>1
    <3>4. ASSUME NEW r \in Seq(Nat), Items[r] \in Seq(TheItems)
          PROVE  Items[f[i] \o r] = SubSeq(ts, 1, i) \o Items[r]
      <4>. DEFINE q == f[i - 1]
                  p == ss[i]
      <4>1. q \in Seq(Nat) /\ p \in Seq(Nat) /\ p \o r \in Seq(Nat)
        BY <2>5, <3>2
      <4>2. f[i] = q \o p
        BY <3>2
      <4>. HIDE DEF p, q
      <4>3. (q \o p) \o r = q \o (p \o r)
        BY <3>4, <4>1, Regroup
      <4>4. /\ Items[p \o r] = <<ts[i]>> \o Items[r] /\ <<ts[i]>> \in Seq(TheItems)
            /\ Items[p \o r] \in Seq(TheItems)
        <5>1. Items[p \o r] = <<ts[i]>> \o Items[r]
          BY <2>5 DEF p
        <5>2. <<ts[i]>> \in Seq(TheItems)
          BY <1>1, <2>4
        <5>3. <<ts[i]>> \o Items[r] \in Seq(TheItems)
          BY ONLY <3>4, <5>2, ConcatProperties
        <5>. QED  BY <5>1, <5>2, <5>3
      <4>5. Items[q \o (p \o r)] = SubSeq(ts, 1, i - 1) \o Items[p \o r]
        BY <3>3, <4>1, <4>4 DEF Fine, q
      <4>6. SubSeq(ts, 1, i - 1) \o <<ts[i]>> = SubSeq(ts, 1, i)
        <5>1. i \in Nat /\ n \in Nat /\ i - 1 \in Nat /\ 1 <= i /\ i <= n
          BY <1>1, <2>4
        <5>. QED  BY <1>1, <5>1 DEF n
      <4>7. SubSeq(ts, 1, i - 1) \in Seq(TheItems)
        <5>1. \A j \in 1 .. i - 1 : ts[j] \in TheItems
          BY <1>1, <2>4
        <5>. QED  BY <1>1, <2>4, <3>1, <5>1, SubSeqProperties
      <4>8. SubSeq(ts, 1, i - 1) \o (<<ts[i]>> \o Items[r])
              = (SubSeq(ts, 1, i - 1) \o <<ts[i]>>) \o Items[r]
        <5>. DEFINE a == SubSeq(ts, 1, i - 1)
                    b == <<ts[i]>>
                    c == Items[r]
        <5>1. a \in Seq(TheItems) /\ b \in Seq(TheItems) /\ c \in Seq(TheItems)
          BY <3>4, <4>4, <4>7
        <5>. HIDE DEF a, b, c
        <5>2. a \o (b \o c) = (a \o b) \o c
          BY ONLY <5>1, RegroupItems, SMTT(30)
        <5>. QED  BY <5>2 DEF a, b, c
      <4>. QED  BY <4>2, <4>3, <4>4, <4>5, <4>6, <4>8
    <3>. QED  BY <2>4, <3>4 DEF Fine
  <2>. QED  BY <2>6, <2>7
<1>8. Fine(n) /\ n \in 1 .. n
  <2>1. n \in 1 .. n
    BY <1>1
  <2>. HIDE DEF Fine
  <2>. QED  BY <1>7, <2>1
<1>. HIDE DEF B
<1>. DEFINE e == <<>>
<1>9. Items[f[n] \o e] = SubSeq(ts, 1, n) \o Items[e] /\ e \in Seq(Nat)
  <2>1. e \in Seq(Nat)
    OBVIOUS
  <2>2. Items[e] \in Seq(TheItems)
    BY ItemsOfNone
  <2>. HIDE DEF e
  <2>. QED  BY <1>8, <2>1, <2>2
<1>10. f[n] \in Seq(Nat) /\ f[n] \o e = f[n]
  <2>1. f[n] \in Seq(Nat)
    BY <1>6, <1>8
  <2>. QED  BY <2>1
<1>11. SubSeq(ts, 1, n) \o Items[e] = ts
  <2>1. SubSeq(ts, 1, n) = ts
    BY <1>1 DEF n
  <2>. QED  BY <2>1, ItemsOfNone
<1>. QED  BY <1>4, <1>5, <1>9, <1>10, <1>11 DEF ss

-----------------------------------------------------------------------------
(***************************************************************************)
(* Numbers                                                                  *)
(***************************************************************************)

\* What is padded reads as the number it stands for, and never as a negative one.
LEMMA NumberRead ==
  ASSUME NEW v \in Nat
  PROVE  Padded(v) \in Seq(Nat) /\ ReadNumber(Padded(v)) = v
<1>. DEFINE d == Digits(v, Octet)
            z == <<0>> \o d
<1>1. d \in Seq(0 .. Octet - 1) /\ Len(d) > 0 /\ Number(d, Octet) = v
  BY Octets, DigitsAre
<1>2. d \in Seq(Nat) /\ d[1] \in Nat
  BY <1>1, Octets
<1>3. Number(z, Octet) = v
  BY <1>1, <1>2, Octets, NumberGrows
<1>4. z \in Seq(Nat) /\ z[1] = 0
  BY <1>2
<1>. HIDE DEF d, z
<1>5. Padded(v) = IF d[1] >= High THEN z ELSE d
  BY DEF Padded, d, z
<1>6. 0 < High /\ (~(d[1] >= High) => d[1] < High)
  BY <1>2, Octets
<1>. QED  BY <1>1, <1>2, <1>3, <1>4, <1>5, <1>6 DEF ReadNumber

\* The limit, and what is below it.
LEMMA LesserIs ==
  ASSUME NEW m \in Nat
  PROVE  U32Max \in Nat /\ Lesser(m, U32Max) \in Nat
<1>1. Octet * Octet \in Nat /\ Octet * Octet > 0
  BY Octets
<1>2. (Octet * Octet) * Octet \in Nat /\ (Octet * Octet) * Octet > 0
  BY <1>1, Octets
<1>3. ((Octet * Octet) * Octet) * Octet \in Nat /\ ((Octet * Octet) * Octet) * Octet > 0
  BY <1>2, Octets
<1>4. U32Max \in Nat
  BY <1>3 DEF U32Max
<1>. QED  BY <1>4 DEF Lesser

\* Tags that are in use, as numbers.
LEMMA Tags == {0, INTEGER, OCTETS, OID, SEQUENCE, COUNTER, TICKS, TRAP} \subseteq Nat
BY DEF INTEGER, OCTETS, OID, SEQUENCE, COUNTER, TICKS, TRAP

-----------------------------------------------------------------------------
(***************************************************************************)
(* Object identifiers                                                       *)
(***************************************************************************)

\* What the receiver has after so many of the octets it folds over.
Reads(f, s) ==
  /\ f[0] = [arcs |-> <<>>, part |-> 0]
  /\ \A i \in 1 .. Len(s) :
       f[i] = IF s[i] < High
              THEN [arcs |-> Append(f[i - 1].arcs, f[i - 1].part * High + s[i]), part |-> 0]
              ELSE [arcs |-> f[i - 1].arcs, part |-> f[i - 1].part * High + s[i] - High]

Progress == [arcs : Seq(Nat), part : Nat]

\* Two arcs from the first number, and the others as they are.
Unpacked(arcs) ==
  IF arcs = <<>> THEN <<>>
  ELSE IF arcs[1] < 80 THEN <<arcs[1] \div 40, arcs[1] % 40>> \o Tail(arcs)
  ELSE <<2, arcs[1] - 80>> \o Tail(arcs)

LEMMA ArcsAreRead ==
  ASSUME NEW s \in Seq(Nat)
  PROVE  \E f \in [0 .. Len(s) -> Progress] : Reads(f, s) /\ ReadArcs(s) = Unpacked(f[Len(s)].arcs)
<1>. DEFINE n == Len(s)
            start == [arcs |-> <<>>, part |-> 0]
            step(a, o) == IF o < High
                          THEN [arcs |-> Append(a.arcs, a.part * High + o), part |-> 0]
                          ELSE [a EXCEPT !.part = @ * High + o - High]
            IsIt(g) == g = [t \in SUBSET (1 .. n) |->
                             IF t = {} THEN start ELSE step(g[t \ {Max(t)}], s[Max(t)])]
            g == CHOOSE g : IsIt(g)
<1>1. n \in Nat /\ DOMAIN s = 1 .. n /\ \A i \in 1 .. n : s[i] \in Nat
  OBVIOUS
<1>2. ReadArcs(s) = Unpacked(g[1 .. n].arcs)
  <2>1. ReadArcs(s) = Unpacked((CHOOSE f : f = [t \in SUBSET (DOMAIN s) |->
                             IF t = {} THEN start ELSE step(f[t \ {Max(t)}], s[Max(t)])])[DOMAIN s].arcs)
    BY Zenon DEF ReadArcs, Unpacked, FoldLeft, MapThenFoldSet
  <2>. HIDE DEF n, step
  <2>. QED  BY <1>1, <2>1
<1>3. \A a \in Progress, o \in Nat :
        /\ step(a, o) \in Progress
        /\ step(a, o) = IF o < High
              THEN [arcs |-> Append(a.arcs, a.part * High + o), part |-> 0]
              ELSE [arcs |-> a.arcs, part |-> a.part * High + o - High]
  <2>. TAKE a \in Progress, o \in Nat
  <2>1. a.arcs \in Seq(Nat) /\ a.part \in Nat /\ a = [arcs |-> a.arcs, part |-> a.part]
    BY DEF Progress
  <2>2. a.part * High \in Nat
    BY <2>1, Octets
  <2>3. a.part * High + o \in Nat /\ (~(o < High) => a.part * High + o - High \in Nat)
    BY <2>2, Octets
  <2>4. Append(a.arcs, a.part * High + o) \in Seq(Nat)
    BY <2>1, <2>3
  <2>5. [a EXCEPT !.part = a.part * High + o - High] = [arcs |-> a.arcs, part |-> a.part * High + o - High]
    BY ONLY <2>1
  <2>. QED  BY <2>1, <2>3, <2>4, <2>5 DEF Progress
<1>. HIDE DEF step
<1>4. start \in Progress
  BY DEF Progress
<1>5. \E f \in [SUBSET (1 .. n) -> Progress] : IsIt(f)
  <2>. DEFINE G == [x \in (1 .. n) \X Progress |-> step(x[2], s[x[1]])]
  <2>0. \A i \in 1 .. n, m \in Progress : step(m, s[i]) \in Progress
    BY <1>1, <1>3
  <2>1. G \in [(1 .. n) \X Progress -> Progress] /\ \A i \in 1 .. n, m \in Progress : G[<<i, m>>] = step(m, s[i])
    BY <2>0
  <2>. HIDE DEF G, n, start
  <2>2. PICK f : Folded(n, Progress, start, G, f)
    <3>1. Folding(n, Progress, start, G)
      BY <1>1, <1>4, <2>1 DEF Folding
    <3>. QED  BY ONLY <3>1, FoldAlong
  <2>3. \A t \in SUBSET (1 .. n) : t # {} => Max(t) \in 1 .. n /\ t \ {Max(t)} \in SUBSET (1 .. n)
    BY <1>1, MaxIs
  <2>4. \A t \in SUBSET (1 .. n) : f[t] = IF t = {} THEN start ELSE step(f[t \ {Max(t)}], s[Max(t)])
    BY <2>1, <2>2, <2>3 DEF Folded
  <2>. QED  BY <2>2, <2>4 DEF Folded
<1>6. IsIt(g)
  <2>1. \E f : IsIt(f)
    BY <1>5
  <2>. HIDE DEF IsIt
  <2>. QED  BY <2>1
<1>. HIDE DEF g, n, start
<1>. DEFINE v == [i \in 0 .. n |-> g[1 .. i]]
<1>7. v[0] = start /\ v[n] = g[1 .. n]
  <2>1. 1 .. 0 = {} /\ 0 \in 0 .. n /\ n \in 0 .. n
    BY <1>1
  <2>. QED  BY <1>6, <2>1
<1>8. \A i \in 1 .. n : v[i] = step(v[i - 1], s[i])
  <2>. TAKE i \in 1 .. n
  <2>1. /\ i \in Nat /\ i > 0 /\ i - 1 \in 0 .. n /\ i \in 0 .. n /\ 1 .. i # {}
        /\ 1 .. i \in SUBSET (1 .. n)
    <3>1. i \in Nat /\ i > 0 /\ i - 1 \in 0 .. n /\ i \in 0 .. n /\ i <= n
      BY <1>1
    <3>2. 1 \in 1 .. i
      BY <3>1
    <3>3. \A j \in 1 .. i : j \in 1 .. n
      BY <1>1, <3>1
    <3>. QED  BY <3>1, <3>2, <3>3
  <2>2. Max(1 .. i) = i /\ (1 .. i) \ {i} = 1 .. i - 1
    BY <2>1, MaxUpTo
  <2>3. g[1 .. i] = step(g[(1 .. i) \ {Max(1 .. i)}], s[Max(1 .. i)])
    BY <1>6, <2>1
  <2>. QED  BY <2>1, <2>2, <2>3
<1>9. \A i \in 0 .. n : v[i] \in Progress
  <2>. DEFINE B == {i \in 0 .. n : v[i] \notin Progress}
  <2>1. CASE B = {}
    BY <2>1
  <2>2. CASE B # {}
    <3>1. B \in SUBSET Nat
      BY <1>1
    <3>. HIDE DEF B
    <3>2. \E i \in B : \A l \in B : i <= l
      BY <2>2, <3>1, Least
    <3>. USE DEF B
    <3>3. PICK i \in B : \A l \in B : i <= l
      BY <3>2
    <3>4. i \in 0 .. n /\ v[i] \notin Progress /\ \A l \in 0 .. n : v[l] \notin Progress => i <= l
      BY <3>3
    <3>. HIDE DEF v, B
    <3>5. i # 0 /\ i \in 1 .. n /\ i - 1 \in 0 .. n
      BY <1>1, <1>4, <1>7, <3>4
    <3>6. v[i - 1] \in Progress
      BY <3>4, <3>5
    <3>7. s[i] \in Nat /\ v[i] = step(v[i - 1], s[i])
      BY <1>1, <1>8, <3>5
    <3>. QED  BY <1>3, <3>4, <3>6, <3>7
  <2>. QED  BY <2>1, <2>2
<1>10. v \in [0 .. n -> Progress]
  BY <1>9
<1>11. Reads(v, s)
  <2>. HIDE DEF v
  <2>1. \A i \in 1 .. n : i - 1 \in 0 .. n
    BY <1>1
  <2>2. \A i \in 1 .. n : v[i] = IF s[i] < High
              THEN [arcs |-> Append(v[i - 1].arcs, v[i - 1].part * High + s[i]), part |-> 0]
              ELSE [arcs |-> v[i - 1].arcs, part |-> v[i - 1].part * High + s[i] - High]
    BY <1>1, <1>3, <1>8, <1>10, <2>1
  <2>. QED  BY <1>7, <2>2 DEF Reads, n, start
<1>. QED  BY <1>2, <1>7, <1>10, <1>11 DEF n

\* The octets of one arc, wherever they are, are read as that arc.
LEMMA OctetsOfArc ==
  ASSUME NEW arc \in Nat
  PROVE  LET d == Digits(arc, High)
         IN  /\ d \in Seq(Nat) /\ Len(d) \in Nat /\ Len(d) > 0
             /\ Base128(arc) \in Seq(Nat) /\ Len(Base128(arc)) = Len(d)
             /\ \A j \in 1 .. Len(d) :
                  d[j] \in 0 .. High - 1 /\ Base128(arc)[j] = IF j < Len(d) THEN High + d[j] ELSE d[j]
<1>. DEFINE d == Digits(arc, High)
            m == Len(d)
            b == [j \in 1 .. m |-> IF j < m THEN High + d[j] ELSE d[j]]
<1>1. d \in Seq(0 .. High - 1) /\ m > 0
  BY Octets, DigitsAre
<1>2. d \in Seq(Nat) /\ m \in Nat /\ DOMAIN d = 1 .. m /\ \A j \in 1 .. m : d[j] \in 0 .. High - 1
  BY <1>1, Octets
<1>3. Base128(arc) = b
  BY <1>2 DEF Base128
<1>. HIDE DEF d, m
<1>4. \A j \in 1 .. m : (IF j < m THEN High + d[j] ELSE d[j]) \in Nat
  BY <1>2, Octets
<1>5. b \in Seq(Nat) /\ Len(b) = m
  BY <1>2, <1>4
<1>. QED  BY <1>1, <1>2, <1>3, <1>5 DEF d, m

AtArc(s, f, k, arc) ==
  /\ s \in Seq(Nat) /\ f \in [0 .. Len(s) -> Progress] /\ Reads(f, s)
  /\ arc \in Nat /\ k \in Nat /\ k + Len(Base128(arc)) <= Len(s) /\ f[k].part = 0
  /\ \A j \in 1 .. Len(Base128(arc)) : s[k + j] = Base128(arc)[j]
PastArc(f, k, arc) == f[k + Len(Base128(arc))] = [arcs |-> Append(f[k].arcs, arc), part |-> 0]

LEMMA ArcRead ==
  ASSUME NEW s, NEW f, NEW k, NEW arc, AtArc(s, f, k, arc)
  PROVE  PastArc(f, k, arc)
<1>0. /\ s \in Seq(Nat) /\ f \in [0 .. Len(s) -> Progress] /\ Reads(f, s)
      /\ arc \in Nat /\ k \in Nat /\ k + Len(Base128(arc)) <= Len(s) /\ f[k].part = 0
      /\ \A j \in 1 .. Len(Base128(arc)) : s[k + j] = Base128(arc)[j]
  BY DEF AtArc
<1>. USE <1>0
<1>. DEFINE d == Digits(arc, High)
            m == Len(d)
            n == Len(s)
<1>1. /\ d \in Seq(Nat) /\ m \in Nat /\ m > 0 /\ Len(Base128(arc)) = m
      /\ \A j \in 1 .. m :
           d[j] \in 0 .. High - 1 /\ Base128(arc)[j] = IF j < m THEN High + d[j] ELSE d[j]
  BY OctetsOfArc
<1>2. PICK v \in [0 .. m -> Nat] : IsNumber(v, d, High) /\ v[m] = arc
  <2>1. Number(d, High) = arc
    BY Octets, DigitsAre
  <2>2. d \in Seq(Nat) /\ High \in Nat
    BY <1>1, Octets
  <2>. HIDE DEF d
  <2>3. \E v \in [0 .. Len(d) -> Nat] : IsNumber(v, d, High) /\ Number(d, High) = v[Len(d)]
    BY ONLY <2>2, NumberIs
  <2>. QED  BY <2>1, <2>3
<1>. HIDE DEF d, m
<1>3. n \in Nat /\ k + m <= n
  BY <1>1
<1>. HIDE DEF n
<1>4. \A j \in 1 .. m : /\ k + j \in 1 .. n /\ (k + j) - 1 = k + (j - 1) /\ k + (j - 1) \in 0 .. n
                        /\ j - 1 \in 0 .. m
                        /\ s[k + j] = IF j < m THEN High + d[j] ELSE d[j]
  <2>1. \A j \in 1 .. m : /\ k + j \in 1 .. n /\ (k + j) - 1 = k + (j - 1) /\ k + (j - 1) \in 0 .. n
                          /\ j - 1 \in 0 .. m
    BY <1>1, <1>3
  <2>2. \A j \in 1 .. m : s[k + j] = Base128(arc)[j]
    BY <1>1
  <2>. QED  BY <1>1, <2>1, <2>2
<1>5. \A j \in 1 .. m :
        f[k + j] = IF s[k + j] < High
              THEN [arcs |-> Append(f[k + (j - 1)].arcs, f[k + (j - 1)].part * High + s[k + j]), part |-> 0]
              ELSE [arcs |-> f[k + (j - 1)].arcs, part |-> f[k + (j - 1)].part * High + s[k + j] - High]
  BY <1>4, ZenonT(30) DEF Reads, n
<1>6. \A j \in 1 .. m : v[j] = v[j - 1] * High + d[j]
  BY <1>2 DEF IsNumber, m
<1>. DEFINE Fine(j) == f[k + j] = [arcs |-> f[k].arcs, part |-> v[j]]
            B == {j \in 0 .. m - 1 : ~Fine(j)}
<1>7. B = {}
  <2>. SUFFICES ASSUME B # {} PROVE FALSE
    OBVIOUS
  <2>1. B \in SUBSET Nat
    BY <1>1
  <2>. HIDE DEF B
  <2>2. \E j \in B : \A l \in B : j <= l
    BY <2>1, Least
  <2>. USE DEF B
  <2>3. PICK j \in B : \A l \in B : j <= l
    BY <2>2
  <2>. HIDE DEF Fine
  <2>4. j \in 0 .. m - 1 /\ ~Fine(j) /\ \A l \in 0 .. m - 1 : ~Fine(l) => j <= l
    BY <2>3
  <2>. HIDE DEF B
  <2>5. CASE j = 0
    <3>1. k + 0 = k /\ v[0] = 0 /\ k \in 0 .. n
      BY <1>2, <1>3, <1>1 DEF IsNumber
    <3>2. f[k] = [arcs |-> f[k].arcs, part |-> 0]
      BY <3>1 DEF Progress, n
    <3>. QED  BY <2>4, <2>5, <3>1, <3>2 DEF Fine
  <2>6. CASE j # 0
    <3>1. j \in 1 .. m /\ j - 1 \in 0 .. m - 1 /\ j < m /\ ~(j <= j - 1)
      BY <1>1, <2>4, <2>6
    <3>2. f[k + (j - 1)] = [arcs |-> f[k].arcs, part |-> v[j - 1]]
      BY <2>4, <3>1 DEF Fine
    <3>3. s[k + j] = High + d[j] /\ d[j] \in Nat
      BY <1>1, <1>4, <3>1, Octets
    <3>4. ~(s[k + j] < High)
      BY <3>3, Octets
    <3>. DEFINE u == v[j - 1] * High
    <3>5. u \in Nat /\ v[j] = u + d[j]
      <4>1. v[j - 1] \in Nat
        BY <1>2, <1>4, <3>1
      <4>. QED  BY <1>6, <3>1, <4>1, Octets
    <3>6. f[k + j] = [arcs |-> f[k].arcs, part |-> u + s[k + j] - High]
      <4>1. f[k + (j - 1)].arcs = f[k].arcs /\ f[k + (j - 1)].part = v[j - 1]
        BY <3>2
      <4>2. f[k + j] = [arcs |-> f[k + (j - 1)].arcs, part |-> f[k + (j - 1)].part * High + s[k + j] - High]
        BY ONLY <1>5, <3>1, <3>4
      <4>. QED  BY ONLY <4>1, <4>2 DEF u
    <3>. HIDE DEF u
    <3>7. u + s[k + j] - High = v[j]
      BY <3>3, <3>5, Octets
    <3>. QED  BY <2>4, <3>6, <3>7 DEF Fine
  <2>. QED  BY <2>5, <2>6
<1>8. m \in 1 .. m /\ m - 1 \in 0 .. m - 1
  BY <1>1
<1>9. f[k + (m - 1)] = [arcs |-> f[k].arcs, part |-> v[m - 1]]
  BY <1>7, <1>8
<1>10. s[k + m] = d[m] /\ s[k + m] < High
  <2>1. s[k + m] = d[m] /\ d[m] \in 0 .. High - 1
    BY <1>1, <1>4, <1>8
  <2>. QED  BY <2>1, Octets
<1>11. f[k + m] = [arcs |-> Append(f[k].arcs, v[m - 1] * High + d[m]), part |-> 0]
  <2>1. f[k + (m - 1)].arcs = f[k].arcs /\ f[k + (m - 1)].part = v[m - 1]
    BY <1>9
  <2>2. f[k + m] = [arcs |-> Append(f[k + (m - 1)].arcs, f[k + (m - 1)].part * High + s[k + m]), part |-> 0]
    BY ONLY <1>5, <1>8, <1>10
  <2>. QED  BY ONLY <1>10, <2>1, <2>2
<1>12. v[m - 1] * High + d[m] = arc
  BY <1>2, <1>6, <1>8
<1>. QED  BY <1>1, <1>11, <1>12 DEF PastArc

\* The arcs that are written, read one after another.
LEMMA ArcsOfJoined ==
  ASSUME NEW packed \in Seq(Nat), packed # <<>>
  PROVE  LET s == FlattenSeq([i \in DOMAIN packed |-> Base128(packed[i])])
         IN  s \in Seq(Nat) /\ ReadArcs(s) = Unpacked(packed)
<1>. DEFINE n == Len(packed)
            ss == [i \in DOMAIN packed |-> Base128(packed[i])]
<1>1. n \in Nat /\ n > 0 /\ DOMAIN packed = 1 .. n /\ \A i \in 1 .. n : packed[i] \in Nat
  <2>1. n # 0
    BY EmptySeq
  <2>. QED  BY <2>1
<1>. HIDE DEF n
<1>2. /\ ss \in Seq(Seq(Nat)) /\ Len(ss) = n /\ ss # <<>>
      /\ \A i \in 1 .. n : ss[i] = Base128(packed[i]) /\ ss[i] \in Seq(Nat) /\ Len(ss[i]) \in Nat
  <2>1. \A i \in 1 .. n : Base128(packed[i]) \in Seq(Nat) /\ Len(Base128(packed[i])) \in Nat
    BY <1>1, OctetsOfArc
  <2>2. ss = [i \in 1 .. n |-> Base128(packed[i])]
    BY <1>1
  <2>. HIDE DEF ss
  <2>3. ss \in Seq(Seq(Nat)) /\ Len(ss) = n
    BY <1>1, <2>1, <2>2
  <2>4. ss # <<>>
    BY <1>1, <2>3
  <2>. QED  BY <2>1, <2>2, <2>3, <2>4
<1>. HIDE DEF ss
<1>3. PICK F : Joins(F, ss) /\ FlattenSeq(ss) = F[Len(ss)]
  BY <1>2, FlattenIs
<1>4. /\ F \in [1 .. n -> Seq(Nat)]
      /\ \A i \in 1 .. n : F[i] = IF i = 1 THEN ss[i] ELSE F[i - 1] \o ss[i]
  BY <1>2, <1>3 DEF Joins
<1>. DEFINE Read(i, s, f) == s \in Seq(Nat) /\ f \in [0 .. Len(s) -> Progress] /\ Reads(f, s)
            Fine(i) == \A r \in Seq(Nat) : \A f : Read(i, F[i] \o r, f) =>
                         f[Len(F[i])] = [arcs |-> SubSeq(packed, 1, i), part |-> 0]
            B == {i \in 1 .. n : ~Fine(i)}
\* One more arc, after what has been read.
<1>5. ASSUME NEW i \in 1 .. n, NEW p \in Seq(Nat), NEW r \in Seq(Nat), NEW f,
             Read(i, (p \o ss[i]) \o r, f),
             f[Len(p)] = [arcs |-> SubSeq(packed, 1, i - 1), part |-> 0]
      PROVE  f[Len(p \o ss[i])] = [arcs |-> SubSeq(packed, 1, i), part |-> 0]
  <2>. DEFINE q == ss[i]
              s == (p \o q) \o r
              k == Len(p)
              arc == packed[i]
  <2>1. q \in Seq(Nat) /\ q = Base128(arc) /\ arc \in Nat /\ k \in Nat /\ Len(q) \in Nat /\ Len(r) \in Nat
    BY <1>1, <1>2
  <2>. HIDE DEF q, arc
  <2>2. s \in Seq(Nat) /\ Len(s) = k + Len(q) + Len(r)
    BY <2>1, Middle
  <2>3. \A j \in 1 .. Len(q) : s[k + j] = q[j]
    <3>. DEFINE pq == p \o q
    <3>1. pq \in Seq(Nat) /\ Len(pq) = k + Len(q) /\ \A j \in 1 .. Len(q) : pq[k + j] = q[j]
      BY <2>1, Concat
    <3>. HIDE DEF pq
    <3>2. \A j \in 1 .. Len(pq) : (pq \o r)[j] = pq[j]
      <4>1. pq \in Seq(Nat) /\ r \in Seq(Nat)
        BY <3>1
      <4>. QED  BY ONLY <4>1, Concat
    <3>. HIDE DEF k
    <3>3. \A j \in 1 .. Len(q) : k + j \in 1 .. Len(pq)
      BY <2>1, <3>1
    <3>4. \A j \in 1 .. Len(q) : (pq \o r)[k + j] = q[j]
      BY ONLY <3>1, <3>2, <3>3
    <3>. QED  BY ONLY <3>4 DEF pq
  <2>4. f \in [0 .. Len(s) -> Progress] /\ Reads(f, s)
    BY <1>5 DEF q
  <2>. HIDE DEF s, k
  <2>5. AtArc(s, f, k, arc)
    <3>1. k + Len(q) <= Len(s)
      BY <2>1, <2>2
    <3>2. f[k].part = 0
      BY <1>5 DEF k
    <3>. QED  BY <2>1, <2>2, <2>3, <2>4, <3>1, <3>2 DEF AtArc
  <2>6. f[k + Len(q)] = [arcs |-> Append(f[k].arcs, arc), part |-> 0]
    <3>1. PastArc(f, k, arc)
      BY ONLY <2>5, ArcRead
    <3>. QED  BY <2>1, <3>1 DEF PastArc
  <2>7. Len(p \o q) = k + Len(q)
    BY <2>1, Concat DEF k
  <2>8. f[k].arcs = SubSeq(packed, 1, i - 1)
    BY <1>5 DEF k
  <2>9. SubSeq(packed, 1, i) = Append(SubSeq(packed, 1, i - 1), arc)
    BY <1>1, FrontGrows DEF n, arc
  <2>. QED  BY <2>6, <2>7, <2>8, <2>9 DEF q
<1>6. B = {}
  <2>. SUFFICES ASSUME B # {} PROVE FALSE
    OBVIOUS
  <2>1. B \in SUBSET Nat
    BY <1>1
  <2>. HIDE DEF B
  <2>2. \E i \in B : \A l \in B : i <= l
    BY <2>1, Least
  <2>. USE DEF B
  <2>3. PICK i \in B : \A l \in B : i <= l
    BY <2>2
  <2>. HIDE DEF Fine
  <2>4. i \in 1 .. n /\ ~Fine(i) /\ \A l \in 1 .. n : ~Fine(l) => i <= l
    BY <2>3
  <2>. HIDE DEF B
  <2>5. CASE i = 1
    <3>1. F[i] = ss[i] /\ ss[i] \in Seq(Nat)
      BY <1>2, <1>4, <2>4, <2>5
    <3>2. ASSUME NEW r \in Seq(Nat), NEW f, Read(i, F[i] \o r, f)
          PROVE  f[Len(F[i])] = [arcs |-> SubSeq(packed, 1, i), part |-> 0]
      <4>. DEFINE p == <<>>
      <4>1. p \in Seq(Nat) /\ Len(p) = 0 /\ p \o ss[i] = F[i]
        BY <3>1
      <4>2. f[Len(p)] = [arcs |-> SubSeq(packed, 1, i - 1), part |-> 0]
        <5>1. f[0] = [arcs |-> <<>>, part |-> 0]
          BY <3>2 DEF Reads
        <5>2. SubSeq(packed, 1, i - 1) = <<>>
          BY <2>5, SubSeqProperties
        <5>. QED  BY <4>1, <5>1, <5>2
      <4>. HIDE DEF p
      <4>3. Read(i, (p \o ss[i]) \o r, f)
        BY <3>2, <4>1
      <4>. HIDE DEF Read
      <4>4. f[Len(p \o ss[i])] = [arcs |-> SubSeq(packed, 1, i), part |-> 0]
        BY <1>5, <2>4, <4>1, <4>2, <4>3, ZenonT(30)
      <4>. QED  BY <4>1, <4>4
    <3>. QED  BY <2>4, <3>2 DEF Fine
  <2>6. CASE i # 1
    <3>1. i - 1 \in 1 .. n /\ ~(i <= i - 1)
      BY <1>1, <2>4, <2>6
    <3>2. F[i] = F[i - 1] \o ss[i] /\ F[i - 1] \in Seq(Nat) /\ ss[i] \in Seq(Nat)
      BY <1>2, <1>4, <2>4, <2>6, <3>1
    <3>3. Fine(i - 1)
      BY <2>4, <3>1
    <3>4. ASSUME NEW r \in Seq(Nat), NEW f, Read(i, F[i] \o r, f)
          PROVE  f[Len(F[i])] = [arcs |-> SubSeq(packed, 1, i), part |-> 0]
      <4>. DEFINE p == F[i - 1]
                  q == ss[i]
      <4>1. p \in Seq(Nat) /\ q \in Seq(Nat) /\ F[i] = p \o q
        BY <3>2
      <4>. HIDE DEF p, q
      <4>2. (p \o q) \o r = p \o (q \o r) /\ q \o r \in Seq(Nat)
        <5>1. p \in Seq(Nat) /\ q \in Seq(Nat) /\ r \in Seq(Nat)
          BY <4>1
        <5>2. (p \o q) \o r = p \o (q \o r)
          BY ONLY <5>1, Regroup
        <5>3. q \o r \in Seq(Nat)
          BY ONLY <5>1, Concat
        <5>. QED  BY <5>2, <5>3
      <4>3. Read(i - 1, p \o (q \o r), f)
        BY <3>4, <4>1, <4>2
      <4>4. Read(i, (p \o q) \o r, f)
        BY <3>4, <4>1
      <4>. HIDE DEF Read
      <4>5. f[Len(p)] = [arcs |-> SubSeq(packed, 1, i - 1), part |-> 0]
        BY <3>3, <4>2, <4>3 DEF Fine, p
      <4>6. f[Len(p \o ss[i])] = [arcs |-> SubSeq(packed, 1, i), part |-> 0]
        BY <1>5, <2>4, <4>1, <4>4, <4>5 DEF q
      <4>. QED  BY <4>1, <4>6 DEF q
    <3>. QED  BY <2>4, <3>4 DEF Fine
  <2>. QED  BY <2>5, <2>6
<1>7. n \in 1 .. n
  BY <1>1
<1>8. Fine(n)
  <2>. HIDE DEF Fine
  <2>. QED  BY <1>6, <1>7
<1>. HIDE DEF B
<1>. DEFINE s == F[n]
            e == <<>>
<1>9. s \in Seq(Nat) /\ e \in Seq(Nat) /\ s \o e = s
  <2>1. s \in Seq(Nat)
    BY <1>4, <1>7
  <2>. QED  BY <2>1
<1>10. PICK f \in [0 .. Len(s) -> Progress] : Reads(f, s) /\ ReadArcs(s) = Unpacked(f[Len(s)].arcs)
  <2>. HIDE DEF s
  <2>. QED  BY <1>9, ArcsAreRead
<1>11. f[Len(s)] = [arcs |-> SubSeq(packed, 1, n), part |-> 0]
  <2>1. Read(n, s \o e, f)
    BY <1>9, <1>10
  <2>. HIDE DEF Read, e
  <2>. QED  BY <1>8, <1>9, <2>1 DEF Fine
<1>12. SubSeq(packed, 1, n) = packed
  BY <1>1 DEF n
<1>13. FlattenSeq(ss) = s /\ ReadArcs(s) = Unpacked(packed)
  <2>1. FlattenSeq(ss) = s
    BY <1>2, <1>3
  <2>2. f[Len(s)].arcs = packed
    BY <1>11, <1>12
  <2>. QED  BY <1>10, <2>1, <2>2
<1>14. FlattenSeq(ss) \in Seq(Nat) /\ ReadArcs(FlattenSeq(ss)) = Unpacked(packed)
  <2>. HIDE DEF s
  <2>. QED  BY <1>9, <1>13
<1>. QED  BY <1>14 DEF ss

LEMMA OidIs ==
  ASSUME NEW arcs \in ObjectIds
  PROVE  \E body \in Seq(Nat) : Oid(arcs) = TLV(OID, body) /\ ReadArcs(body) = arcs
<1>. DEFINE n == Len(arcs)
            first == 40 * arcs[1] + arcs[2]
            others == SubSeq(arcs, 3, n)
            packed == <<first>> \o others
            body == FlattenSeq([i \in DOMAIN packed |-> Base128(packed[i])])
<1>1. /\ arcs \in Seq(Nat) /\ n \in Nat /\ n > 1 /\ \A i \in 1 .. n : arcs[i] \in Nat
      /\ arcs[1] \in 0 .. 2 /\ (arcs[1] < 2 => arcs[2] < 40)
  BY DEF ObjectIds
<1>2. arcs[2] \in Nat /\ first \in Nat
  <2>1. arcs[2] \in Nat /\ arcs[1] \in Nat
    BY <1>1
  <2>. QED  BY <2>1
<1>3. others \in Seq(Nat)
  <2>1. \A i \in 3 .. n : arcs[i] \in Nat
    BY <1>1
  <2>. QED  BY <1>1, <2>1, SubSeqProperties
<1>. HIDE DEF first, others, n
<1>4. packed \in Seq(Nat) /\ packed # <<>> /\ packed[1] = first /\ Tail(packed) = others
  BY <1>2, <1>3, SMTT(30)
<1>5. Oid(arcs) = TLV(OID, body)
  BY DEF Oid, first, others, n
<1>. HIDE DEF packed
<1>6. body \in Seq(Nat) /\ ReadArcs(body) = Unpacked(packed)
  BY <1>4, ArcsOfJoined
<1>7. Unpacked(packed) = <<arcs[1], arcs[2]>> \o others
  <2>1. CASE arcs[1] = 2
    <3>1. first = 80 + arcs[2] /\ ~(first < 80) /\ first - 80 = arcs[2]
      BY <1>2, <2>1 DEF first
    <3>. QED  BY <1>4, <2>1, <3>1 DEF Unpacked
  <2>2. CASE arcs[1] # 2
    <3>1. arcs[1] \in 0 .. 1 /\ arcs[2] < 40
      BY <1>1, <2>2
    <3>2. first < 80 /\ first \div 40 = arcs[1] /\ first % 40 = arcs[2]
      BY <1>2, <3>1 DEF first
    <3>. QED  BY <1>4, <3>2 DEF Unpacked
  <2>. QED  BY <2>1, <2>2
<1>8. <<arcs[1], arcs[2]>> \o others = arcs
  <2>. DEFINE a == SubSeq(arcs, 1, 2)
              p == <<arcs[1], arcs[2]>>
              q == p \o others
  <2>1. p \in Seq(Nat) /\ Len(p) = 2 /\ p[1] = arcs[1] /\ p[2] = arcs[2]
    BY <1>1, <1>2
  <2>2. Len(others) = n - 2 /\ \A i \in 1 .. n - 2 : others[i] = arcs[i + 2]
    <3>1. \A i \in 3 .. n : arcs[i] \in Nat
      BY <1>1
    <3>2. /\ Len(others) = IF 3 <= n THEN n - 3 + 1 ELSE 0
          /\ \A i \in 1 .. n - 3 + 1 : others[i] = arcs[3 + i - 1]
      BY <1>1, <3>1, SubSeqProperties DEF others
    <3>3. n - 3 + 1 = n - 2 /\ \A i \in 1 .. n - 2 : 3 + i - 1 = i + 2
      BY <1>1
    <3>. QED  BY <1>1, <3>2, <3>3
  <2>. HIDE DEF p
  <2>3. /\ q \in Seq(Nat) /\ Len(q) = n
        /\ \A i \in 1 .. 2 : q[i] = p[i]
        /\ \A i \in 1 .. n - 2 : q[2 + i] = others[i]
    <3>1. /\ q \in Seq(Nat) /\ Len(q) = Len(p) + Len(others)
          /\ \A i \in 1 .. Len(p) : q[i] = p[i]
          /\ \A i \in 1 .. Len(others) : q[Len(p) + i] = others[i]
      <4>1. p \in Seq(Nat) /\ others \in Seq(Nat)
        BY <1>3, <2>1
      <4>. QED  BY ONLY <4>1, Concat
    <3>. HIDE DEF q
    <3>. QED  BY <1>1, <2>1, <2>2, <3>1
  <2>. HIDE DEF q
  <2>4. \A i \in 1 .. n : q[i] = arcs[i]
    <3>. TAKE i \in 1 .. n
    <3>1. CASE i \in 1 .. 2
      BY <2>1, <2>3, <3>1
    <3>2. CASE i \notin 1 .. 2
      <4>1. i - 2 \in 1 .. n - 2 /\ 2 + (i - 2) = i /\ (i - 2) + 2 = i
        BY <1>1, <3>2
      <4>. QED  BY <2>2, <2>3, <4>1
    <3>. QED  BY <3>1, <3>2
  <2>5. q = arcs
    BY <1>1, <2>3, <2>4, SeqEqual DEF n
  <2>. QED  BY <2>5 DEF q, p
<1>9. body \in Seq(Nat) /\ ReadArcs(body) = arcs
  BY <1>6, <1>7, <1>8
<1>. QED  BY <1>5, <1>9

-----------------------------------------------------------------------------
(***************************************************************************)
(* Sequences of items                                                       *)
(***************************************************************************)

\* p begins whatever it begins with these items.
HasItems(p, items) ==
  /\ p \in Seq(Nat) /\ items \in Seq(TheItems)
  /\ \A r \in Seq(Nat) : Items[r] \in Seq(TheItems) => Items[p \o r] = items \o Items[r]

LEMMA OneItem ==
  ASSUME NEW tag \in Nat, NEW body \in Seq(Nat)
  PROVE  HasItems(TLV(tag, body), <<[tag |-> tag, body |-> body]>>)
<1>1. <<>> \in Seq(Nat)
  OBVIOUS
<1>2. TLV(tag, body) \in Seq(Nat)
  <2>. DEFINE e == <<>>
  <2>1. e \in Seq(Nat)
    OBVIOUS
  <2>. HIDE DEF e
  <2>. QED  BY <2>1, ItemsOfTLV
<1>3. \A r \in Seq(Nat) : Items[TLV(tag, body) \o r] = <<[tag |-> tag, body |-> body]>> \o Items[r]
  BY ItemsOfTLV
<1>4. <<[tag |-> tag, body |-> body]>> \in Seq(TheItems)
  BY DEF TheItems
<1>. QED  BY <1>2, <1>3, <1>4 DEF HasItems

LEMMA MoreItems ==
  ASSUME NEW p, NEW a, NEW q, NEW b, HasItems(p, a), HasItems(q, b)
  PROVE  HasItems(p \o q, a \o b)
<1>1. p \in Seq(Nat) /\ q \in Seq(Nat) /\ a \in Seq(TheItems) /\ b \in Seq(TheItems)
  BY DEF HasItems
<1>2. p \o q \in Seq(Nat) /\ a \o b \in Seq(TheItems)
  BY <1>1, ConcatProperties
<1>3. ASSUME NEW r \in Seq(Nat), Items[r] \in Seq(TheItems)
      PROVE  Items[(p \o q) \o r] = (a \o b) \o Items[r]
  <2>. DEFINE c == Items[r]
  <2>1. q \o r \in Seq(Nat) /\ (p \o q) \o r = p \o (q \o r)
    <3>1. p \in Seq(Nat) /\ q \in Seq(Nat) /\ r \in Seq(Nat)
      BY <1>1
    <3>2. q \o r \in Seq(Nat)
      BY ONLY <3>1, Concat
    <3>3. (p \o q) \o r = p \o (q \o r)
      BY ONLY <3>1, Regroup
    <3>. QED  BY <3>2, <3>3
  <2>2. Items[q \o r] = b \o c /\ c \in Seq(TheItems)
    BY <1>3 DEF HasItems
  <2>. HIDE DEF c
  <2>3. b \o c \in Seq(TheItems) /\ (a \o b) \o c = a \o (b \o c)
    BY <1>1, <2>2, RegroupItems, ConcatProperties
  <2>4. Items[p \o (q \o r)] = a \o Items[q \o r]
    BY <2>1, <2>2, <2>3 DEF HasItems
  <2>. QED  BY <2>1, <2>2, <2>3, <2>4 DEF c
<1>. QED  BY <1>2, <1>3 DEF HasItems

LEMMA TheseItems ==
  ASSUME NEW p, NEW items, HasItems(p, items)
  PROVE  p \in Seq(Nat) /\ Items[p] = items
<1>. DEFINE e == <<>>
<1>1. p \in Seq(Nat) /\ items \in Seq(TheItems)
  BY DEF HasItems
<1>2. e \in Seq(Nat) /\ Items[e] = <<>> /\ <<>> \in Seq(TheItems)
  BY ItemsOfNone
<1>3. p \o e = p /\ items \o <<>> = items
  BY <1>1
<1>. HIDE DEF e
<1>4. Items[p \o e] = items \o Items[e]
  BY <1>2 DEF HasItems
<1>. QED  BY <1>1, <1>2, <1>3, <1>4

-----------------------------------------------------------------------------
(***************************************************************************)
(* The trap, read                                                           *)
(***************************************************************************)

\* A tag and a body that encode this value, and read as it is meant.
Says(tag, body, v) ==
  /\ tag \in Nat /\ body \in Seq(Nat) /\ Value(v) = TLV(tag, body)
  /\ ReadValue([tag |-> tag, body |-> body]) = Clamped(v)

LEMMA ReadBy ==
  ASSUME NEW item
  PROVE  /\ item.tag = OCTETS => ReadValue(item) = Str(item.body)
         /\ item.tag = COUNTER => ReadValue(item) = Count(ReadNumber(item.body))
         /\ item.tag = TICKS => ReadValue(item) = Ticks(ReadNumber(item.body))
         /\ item.tag = OID => ReadValue(item) = Arcs(ReadArcs(item.body))
BY DEF ReadValue, OCTETS, COUNTER, TICKS, OID

LEMMA ValueIs ==
  ASSUME NEW v \in Values
  PROVE  \E tag, body : Says(tag, body, v)
<1>1. CASE v \in [is : {"Str"}, of : Seq(Nat)]
  <2>1. v.is = "Str" /\ v.of \in Seq(Nat) /\ v = [is |-> v.is, of |-> v.of]
    BY <1>1
  <2>2. Value(v) = TLV(OCTETS, v.of) /\ Clamped(v) = v
    BY <2>1 DEF Value, OctetString, Clamped
  <2>3. ReadValue([tag |-> OCTETS, body |-> v.of]) = v
    BY <2>1, ReadBy DEF Str
  <2>. QED  BY <2>1, <2>2, <2>3, Tags DEF Says
<1>2. CASE v \in [is : {"Count"}, of : Nat]
  <2>. DEFINE n == Lesser(v.of, U32Max)
  <2>1. v.is = "Count" /\ v.of \in Nat /\ v = [is |-> v.is, of |-> v.of]
    BY <1>2
  <2>2. n \in Nat
    BY <2>1, LesserIs
  <2>3. Clamped(v) = Count(n)
    BY <2>1 DEF Clamped, Count
  <2>4. Value(v) = TLV(COUNTER, Padded(n))
    BY <2>1 DEF Value, Unsigned
  <2>. HIDE DEF n
  <2>5. Padded(n) \in Seq(Nat) /\ ReadNumber(Padded(n)) = n
    BY <2>2, NumberRead
  <2>6. ReadValue([tag |-> COUNTER, body |-> Padded(n)]) = Count(n)
    BY <2>5, ReadBy
  <2>. QED  BY <2>3, <2>4, <2>5, <2>6, Tags DEF Says
<1>3. CASE v \in [is : {"Ticks"}, of : Nat]
  <2>. DEFINE n == Lesser(v.of, U32Max)
  <2>1. v.is = "Ticks" /\ v.of \in Nat /\ v = [is |-> v.is, of |-> v.of]
    BY <1>3
  <2>2. n \in Nat
    BY <2>1, LesserIs
  <2>3. Clamped(v) = Ticks(n)
    BY <2>1 DEF Clamped, Ticks
  <2>4. Value(v) = TLV(TICKS, Padded(n))
    BY <2>1 DEF Value, Unsigned
  <2>. HIDE DEF n
  <2>5. Padded(n) \in Seq(Nat) /\ ReadNumber(Padded(n)) = n
    BY <2>2, NumberRead
  <2>6. ReadValue([tag |-> TICKS, body |-> Padded(n)]) = Ticks(n)
    BY <2>5, ReadBy
  <2>. QED  BY <2>3, <2>4, <2>5, <2>6, Tags DEF Says
<1>4. CASE v \in [is : {"Oid"}, of : ObjectIds]
  <2>1. v.is = "Oid" /\ v.of \in ObjectIds /\ v = [is |-> v.is, of |-> v.of]
    BY <1>4
  <2>2. PICK body \in Seq(Nat) : Oid(v.of) = TLV(OID, body) /\ ReadArcs(body) = v.of
    BY <2>1, OidIs
  <2>3. Value(v) = TLV(OID, body) /\ Clamped(v) = v
    BY <2>1, <2>2 DEF Value, Clamped
  <2>4. ReadValue([tag |-> OID, body |-> body]) = v
    BY <2>1, <2>2, ReadBy DEF Arcs
  <2>. QED  BY <2>2, <2>3, <2>4, Tags DEF Says
<1>. QED  BY <1>1, <1>2, <1>3, <1>4 DEF Values

\* A binding, as an item that reads as what it binds.
Binds(item, name, v) ==
  /\ item \in TheItems /\ item.tag = SEQUENCE
  /\ VarBind(name, v) = TLV(item.tag, item.body)
  /\ ReadBinding(item) = <<name, Clamped(v)>>

LEMMA VarBindIs ==
  ASSUME NEW name \in ObjectIds, NEW v \in Values
  PROVE  \E item : Binds(item, name, v)
<1>1. PICK arcs \in Seq(Nat) : Oid(name) = TLV(OID, arcs) /\ ReadArcs(arcs) = name
  BY OidIs
<1>2. PICK tag, body : Says(tag, body, v)
  BY ValueIs
<1>. DEFINE i == [tag |-> OID, body |-> arcs]
            j == [tag |-> tag, body |-> body]
            p == Oid(name) \o Value(v)
            item == [tag |-> SEQUENCE, body |-> p]
<1>3. HasItems(Oid(name), <<i>>) /\ HasItems(Value(v), <<j>>)
  BY <1>1, <1>2, OneItem, Tags DEF Says
<1>4. HasItems(p, <<i>> \o <<j>>)
  <2>. HIDE DEF i, j
  <2>. QED  BY ONLY <1>3, MoreItems
<1>5. p \in Seq(Nat) /\ Items[p] = <<i>> \o <<j>>
  <2>. HIDE DEF p, i, j
  <2>. QED  BY ONLY <1>4, TheseItems
<1>6. <<i>> \o <<j>> = <<i, j>>
  <2>1. i \in TheItems /\ j \in TheItems
    BY <1>1, <1>2, Tags DEF Says, TheItems
  <2>. HIDE DEF i, j
  <2>. QED  BY ONLY <2>1, Both
<1>. HIDE DEF p
<1>7. item \in TheItems /\ item.tag = SEQUENCE /\ item.body = p
  BY <1>5, Tags DEF TheItems
<1>8. VarBind(name, v) = TLV(SEQUENCE, p)
  BY DEF VarBind, p
<1>. DEFINE parts == Items[p]
<1>9. Len(parts) = 2 /\ parts[1] = i /\ parts[2] = j
  BY <1>5, <1>6
<1>. HIDE DEF parts
<1>10. ReadArcs(parts[1].body) = name /\ ReadValue(parts[2]) = Clamped(v)
  BY <1>1, <1>2, <1>9 DEF Says
<1>11. ReadBinding(item) = <<ReadArcs(parts[1].body), ReadValue(parts[2])>>
  BY <1>7, <1>9 DEF ReadBinding, parts
<1>. HIDE DEF item
<1>12. Binds(item, name, v)
  BY <1>7, <1>8, <1>10, <1>11 DEF Binds
<1>. QED  BY <1>12

LEMMA ContentsAre ==
  ASSUME NEW t \in AnyTrap
  PROVE  /\ Contents(t) \in Seq(ObjectIds \X Values) /\ Len(Contents(t)) = 2 + Len(t.bindings)
         /\ Len(t.bindings) \in Nat
         /\ Contents(t)[1] = <<SysUpTime, Ticks(t.uptime)>>
         /\ Contents(t)[2] = <<TrapOid, Arcs(Enterprise \o <<t.which>>)>>
         /\ \A i \in 1 .. Len(t.bindings) : Contents(t)[2 + i] = t.bindings[i]
<1>. DEFINE S == ObjectIds \X Values
            own == Append(Enterprise, t.which)
            one == <<SysUpTime, Ticks(t.uptime)>>
            two == <<TrapOid, Arcs(own)>>
            p == <<one, two>>
            q == t.bindings
<1>1. t.uptime \in Nat /\ t.which \in Nat /\ q \in Seq(S) /\ Len(q) \in Nat
  BY DEF AnyTrap
<1>2. own \in ObjectIds /\ own = Enterprise \o <<t.which>>
  <2>1. Enterprise \in Seq(Nat) /\ Len(Enterprise) > 1 /\ Enterprise[1] \in 0 .. 2
        /\ (Enterprise[1] < 2 => Enterprise[2] < 40)
    BY SnmpAssumption DEF ObjectIds
  <2>2. /\ own \in Seq(Nat) /\ Len(own) > 1 /\ own[1] = Enterprise[1] /\ own[2] = Enterprise[2]
        /\ own = Enterprise \o <<t.which>>
    <3>1. own = Enterprise \o <<t.which>>
      BY <1>1, <2>1, Appended
    <3>. QED  BY <1>1, <2>1, <3>1
  <2>. QED  BY <2>1, <2>2 DEF ObjectIds
<1>3. SysUpTime \in ObjectIds /\ TrapOid \in ObjectIds
  BY DEF SysUpTime, TrapOid, ObjectIds
<1>4. Ticks(t.uptime) \in Values /\ Arcs(own) \in Values
  BY <1>1, <1>2 DEF Ticks, Arcs, Values
<1>5. one \in S /\ two \in S
  BY <1>2, <1>3, <1>4
<1>. HIDE DEF S
<1>6. Contents(t) = p \o q
  BY DEF Contents
<1>. HIDE DEF one, two, q
<1>7. p \in Seq(S) /\ Len(p) = 2 /\ p[1] = one /\ p[2] = two
  BY <1>5
<1>. HIDE DEF p
<1>8. /\ p \o q \in Seq(S) /\ Len(p \o q) = Len(p) + Len(q)
      /\ \A i \in 1 .. Len(p) : (p \o q)[i] = p[i]
      /\ \A i \in 1 .. Len(q) : (p \o q)[Len(p) + i] = q[i]
  <2>1. p \in Seq(S) /\ q \in Seq(S)
    BY <1>1, <1>7
  <2>. QED  BY ONLY <2>1, Concat
<1>9. 1 \in 1 .. Len(p) /\ 2 \in 1 .. Len(p)
  BY <1>7
<1>10. two = <<TrapOid, Arcs(Enterprise \o <<t.which>>)>>
  BY <1>2 DEF two
<1>. QED  BY <1>1, <1>6, <1>7, <1>8, <1>9, <1>10 DEF S, one, q

LEMMA NextItem ==
  ASSUME NEW p, NEW items, HasItems(p, items), NEW tag \in Nat, NEW body \in Seq(Nat)
  PROVE  HasItems(p \o TLV(tag, body), Append(items, [tag |-> tag, body |-> body]))
<1>. DEFINE i == [tag |-> tag, body |-> body]
            q == TLV(tag, body)
<1>1. i \in TheItems /\ items \in Seq(TheItems)
  BY DEF TheItems, HasItems
<1>2. HasItems(q, <<i>>)
  BY OneItem
<1>. HIDE DEF i, q
<1>3. HasItems(p \o q, items \o <<i>>)
  BY ONLY HasItems(p, items), <1>2, MoreItems
<1>4. items \o <<i>> = Append(items, i)
  BY ONLY <1>1, Appended
<1>. QED  BY <1>3, <1>4 DEF i, q

\* The bindings of a trap, as items that read as what they say.
BindingsOf(t) == [i \in DOMAIN Contents(t) |-> VarBind(Contents(t)[i][1], Contents(t)[i][2])]
SaidBindings(t) ==
  <<<<SysUpTime, Ticks(Lesser(t.uptime, U32Max))>>, <<TrapOid, Arcs(Enterprise \o <<t.which>>)>>>>
    \o [i \in DOMAIN t.bindings |-> <<t.bindings[i][1], Clamped(t.bindings[i][2])>>]

LEMMA BindingsRead ==
  ASSUME NEW t \in AnyTrap
  PROVE  \E items \in Seq(TheItems) :
           /\ FlattenSeq(BindingsOf(t)) \in Seq(Nat) /\ Items[FlattenSeq(BindingsOf(t))] = items
           /\ [i \in DOMAIN items |-> ReadBinding(items[i])] = SaidBindings(t)
<1>. DEFINE C == Contents(t)
            b == t.bindings
            m == Len(b)
            n == 2 + m
            I == [i \in 1 .. n |-> CHOOSE item : Binds(item, C[i][1], C[i][2])]
            R(i) == <<C[i][1], Clamped(C[i][2])>>
            f == [i \in 1 .. n |-> R(i)]
            S == {R(i) : i \in 1 .. n}
<1>1. /\ C \in Seq(ObjectIds \X Values) /\ Len(C) = n /\ m \in Nat
      /\ C[1] = <<SysUpTime, Ticks(t.uptime)>> /\ C[2] = <<TrapOid, Arcs(Enterprise \o <<t.which>>)>>
      /\ \A i \in 1 .. m : C[2 + i] = b[i]
  BY ContentsAre
<1>2. DOMAIN b = 1 .. m
  BY DEF AnyTrap
<1>. HIDE DEF C, m, b
<1>3. \A i \in 1 .. n : C[i][1] \in ObjectIds /\ C[i][2] \in Values
  <2>1. \A i \in 1 .. n : C[i] \in ObjectIds \X Values
    BY <1>1
  <2>. QED  BY <2>1
<1>4. \A i \in 1 .. n : Binds(I[i], C[i][1], C[i][2])
  <2>1. \A i \in 1 .. n : \E item : Binds(item, C[i][1], C[i][2])
    BY <1>3, VarBindIs
  <2>. QED  BY <2>1
<1>5. \A i \in 1 .. n : I[i] \in TheItems
  <2>. HIDE DEF I
  <2>. QED  BY <1>4 DEF Binds
<1>6. I \in Seq(TheItems) /\ Len(I) = n /\ DOMAIN I = 1 .. n
  <2>1. n \in Nat /\ I = [i \in 1 .. n |-> I[i]]
    BY <1>1
  <2>. HIDE DEF I, n
  <2>. QED  BY ONLY <1>5, <2>1
<1>. HIDE DEF I
<1>7. I # <<>>
  BY <1>1, <1>6
<1>8. TLVs(I) = BindingsOf(t)
  <2>1. DOMAIN C = 1 .. n
    BY <1>1
  <2>2. \A i \in 1 .. n : TLV(I[i].tag, I[i].body) = VarBind(C[i][1], C[i][2])
    BY <1>4 DEF Binds
  <2>. QED  BY <1>6, <2>1, <2>2 DEF TLVs, BindingsOf, C
<1>9. FlattenSeq(BindingsOf(t)) \in Seq(Nat) /\ Items[FlattenSeq(BindingsOf(t))] = I
  BY <1>6, <1>7, <1>8, ItemsOfJoined
<1>10. [i \in DOMAIN I |-> ReadBinding(I[i])] = f
  BY <1>4, <1>6 DEF Binds
<1>11. f = <<f[1], f[2]>> \o [i \in 1 .. m |-> f[2 + i]]
  <2>1. \A i \in 1 .. n : R(i) \in S
    OBVIOUS
  <2>. HIDE DEF S
  <2>2. f \in Seq(S) /\ Len(f) = 2 + m
    BY <1>1, <2>1
  <2>. HIDE DEF f
  <2>. QED  BY <1>1, <2>2, FirstTwo
<1>12. \A i \in 1 .. n : f[i] = <<C[i][1], Clamped(C[i][2])>>
  OBVIOUS
<1>. HIDE DEF f
<1>13. 1 \in 1 .. n /\ 2 \in 1 .. n /\ \A i \in 1 .. m : 2 + i \in 1 .. n
  BY <1>1
<1>14. f[1] = <<SysUpTime, Ticks(Lesser(t.uptime, U32Max))>>
  BY <1>1, <1>12, <1>13 DEF Clamped, Ticks
<1>15. f[2] = <<TrapOid, Arcs(Enterprise \o <<t.which>>)>>
  <2>1. \A a : Clamped(Arcs(a)) = Arcs(a)
    BY DEF Clamped, Arcs
  <2>2. C[2][1] = TrapOid /\ C[2][2] = Arcs(Enterprise \o <<t.which>>)
    BY <1>1
  <2>. QED  BY <1>12, <1>13, <2>1, <2>2
<1>16. [i \in 1 .. m |-> f[2 + i]] = [i \in DOMAIN b |-> <<b[i][1], Clamped(b[i][2])>>]
  BY <1>1, <1>2, <1>12, <1>13
<1>17. f = SaidBindings(t)
  BY <1>11, <1>14, <1>15, <1>16 DEF SaidBindings, b
<1>. QED  BY <1>6, <1>9, <1>10, <1>17

LEMMA RequestIdIs == ASSUME NEW t \in AnyTrap PROVE RequestId(t) \in Nat
<1>. DEFINE k == U32Max + 1
            h == k \div 2
<1>1. Octet * Octet \in Nat /\ Octet * Octet > 1
  BY Octets
<1>2. (Octet * Octet) * Octet \in Nat /\ (Octet * Octet) * Octet > 1
  BY <1>1, Octets
<1>3. ((Octet * Octet) * Octet) * Octet \in Nat /\ ((Octet * Octet) * Octet) * Octet > 1
  BY <1>2, Octets
<1>4. k \in Nat /\ k > 1
  BY <1>3 DEF U32Max
<1>. HIDE DEF k
<1>5. h \in Nat /\ h > 0
  BY <1>4
<1>6. t.uptime \in Nat
  BY DEF AnyTrap
<1>. HIDE DEF h
<1>7. t.uptime % h \in Nat
  BY <1>5, <1>6
<1>. QED  BY <1>7 DEF RequestId, h, k

\* What is sent, as a receiver takes it apart.
Levels(community, t, said, body, pdu) ==
  /\ Items[Encode(community, t)] = <<[tag |-> SEQUENCE, body |-> body]>>
  /\ Items[body] = Append(Append(<<[tag |-> INTEGER, body |-> Padded(1)]>>,
                                 [tag |-> OCTETS, body |-> community]),
                          [tag |-> TRAP, body |-> pdu])
  /\ Items[pdu] = Append(Append(Append(<<[tag |-> INTEGER, body |-> Padded(RequestId(t))]>>,
                                       [tag |-> INTEGER, body |-> Padded(0)]),
                                [tag |-> INTEGER, body |-> Padded(0)]),
                         [tag |-> SEQUENCE, body |-> said])

LEMMA LevelsAre ==
  ASSUME NEW community \in Seq(Nat), NEW t \in AnyTrap,
         NEW said \in Seq(Nat), FlattenSeq(BindingsOf(t)) = said
  PROVE  \E pdu \in Seq(Nat), body \in Seq(Nat) : Levels(community, t, said, body, pdu)
<1>. DEFINE id == RequestId(t)
            p1 == Integer(id)
            p2 == p1 \o Integer(0)
            p3 == p2 \o Integer(0)
            pdu == p3 \o TLV(SEQUENCE, said)
            b1 == Integer(1)
            b2 == b1 \o OctetString(community)
            body == b2 \o TLV(TRAP, pdu)
            i1 == <<[tag |-> INTEGER, body |-> Padded(id)]>>
            zero == [tag |-> INTEGER, body |-> Padded(0)]
            i4 == Append(Append(Append(i1, zero), zero), [tag |-> SEQUENCE, body |-> said])
            j1 == <<[tag |-> INTEGER, body |-> Padded(1)]>>
            j3 == Append(Append(j1, [tag |-> OCTETS, body |-> community]), [tag |-> TRAP, body |-> pdu])
<1>1. /\ INTEGER \in Nat /\ OCTETS \in Nat /\ SEQUENCE \in Nat /\ TRAP \in Nat
      /\ Padded(id) \in Seq(Nat) /\ Padded(0) \in Seq(Nat) /\ Padded(1) \in Seq(Nat)
  BY RequestIdIs, NumberRead, Tags
<1>2. \A v : Integer(v) = TLV(INTEGER, Padded(v))
  BY DEF Integer
<1>. HIDE DEF id
<1>3. HasItems(p1, i1) /\ HasItems(b1, j1)
  BY <1>1, <1>2, OneItem
<1>. HIDE DEF p1, b1, i1, j1
<1>4. HasItems(p2, Append(i1, zero))
  BY <1>1, <1>2, <1>3, NextItem
<1>. HIDE DEF p2
<1>5. HasItems(p3, Append(Append(i1, zero), zero))
  BY <1>1, <1>2, <1>4, NextItem
<1>. HIDE DEF p3
<1>6. HasItems(pdu, i4)
  BY <1>1, <1>5, NextItem
<1>7. pdu \in Seq(Nat) /\ Items[pdu] = i4
  <2>. HIDE DEF pdu, i4
  <2>. QED  BY ONLY <1>6, TheseItems
<1>. HIDE DEF pdu, i4
<1>8. HasItems(b2, Append(j1, [tag |-> OCTETS, body |-> community]))
  BY <1>1, <1>3, NextItem DEF OctetString
<1>. HIDE DEF b2
<1>9. HasItems(body, j3)
  BY <1>1, <1>7, <1>8, NextItem
<1>10. body \in Seq(Nat) /\ Items[body] = j3
  <2>. HIDE DEF body, j3
  <2>. QED  BY ONLY <1>9, TheseItems
<1>. HIDE DEF body
<1>11. HasItems(TLV(SEQUENCE, body), <<[tag |-> SEQUENCE, body |-> body]>>)
  BY <1>1, <1>10, OneItem
<1>12. Items[TLV(SEQUENCE, body)] = <<[tag |-> SEQUENCE, body |-> body]>>
  BY ONLY <1>11, TheseItems
<1>13. Encode(community, t) = TLV(SEQUENCE, body)
  BY DEF Encode, BindingsOf, body, b2, b1, pdu, p3, p2, p1, id
<1>. QED  BY <1>7, <1>10, <1>12, <1>13 DEF Levels, i4, i1, j1, id

\* The tags of items that are there one after another.
Three(s, a, b, c) ==
  /\ s \in Seq(TheItems) /\ Len(s) = 3 /\ s[1] = a /\ s[2] = b /\ s[3] = c
  /\ TagsOf(s) = <<a.tag, b.tag, c.tag>>
Four(s, a, b, c, d) ==
  s[1] = a /\ s[2] = b /\ s[3] = c /\ s[4] = d /\ TagsOf(s) = <<a.tag, b.tag, c.tag, d.tag>>

LEMMA ThreeTags ==
  ASSUME NEW a \in TheItems, NEW b \in TheItems, NEW c \in TheItems
  PROVE  Three(Append(Append(<<a>>, b), c), a, b, c)
<1>. DEFINE s == Append(Append(<<a>>, b), c)
<1>1. s \in Seq(TheItems) /\ Len(s) = 3 /\ s[1] = a /\ s[2] = b /\ s[3] = c /\ DOMAIN s = 1 .. 3
  OBVIOUS
<1>. HIDE DEF s
<1>2. TagsOf(s) = [i \in 1 .. 3 |-> s[i].tag]
  BY <1>1 DEF TagsOf
<1>3. [i \in 1 .. 3 |-> s[i].tag] = <<s[1].tag, s[2].tag, s[3].tag>>
  OBVIOUS
<1>4. Three(s, a, b, c)
  BY <1>1, <1>2, <1>3 DEF Three
<1>. QED  BY <1>4 DEF s

LEMMA FourTags ==
  ASSUME NEW a \in TheItems, NEW b \in TheItems, NEW c \in TheItems, NEW d \in TheItems
  PROVE  Four(Append(Append(Append(<<a>>, b), c), d), a, b, c, d)
<1>. DEFINE r == Append(Append(<<a>>, b), c)
            s == Append(r, d)
<1>1. r \in Seq(TheItems) /\ Len(r) = 3 /\ r[1] = a /\ r[2] = b /\ r[3] = c
  BY ThreeTags DEF Three
<1>. HIDE DEF r
<1>2. /\ Len(s) = Len(r) + 1 /\ s[Len(r) + 1] = d /\ DOMAIN s = 1 .. Len(r) + 1
      /\ \A i \in 1 .. Len(r) : s[i] = r[i]
  <2>1. r \in Seq(TheItems)
    BY <1>1
  <2>. QED  BY ONLY <2>1, d \in TheItems
<1>. HIDE DEF s
<1>3. 1 \in 1 .. Len(r) /\ 2 \in 1 .. Len(r) /\ 3 \in 1 .. Len(r) /\ Len(r) + 1 = 4
  BY <1>1
<1>4. s[1] = a /\ s[2] = b /\ s[3] = c /\ s[4] = d /\ DOMAIN s = 1 .. 4
  BY <1>1, <1>2, <1>3
<1>5. TagsOf(s) = [i \in 1 .. 4 |-> s[i].tag]
  BY <1>4 DEF TagsOf
<1>6. [i \in 1 .. 4 |-> s[i].tag] = <<s[1].tag, s[2].tag, s[3].tag, s[4].tag>>
  OBVIOUS
<1>7. Four(s, a, b, c, d)
  BY <1>4, <1>5, <1>6 DEF Four
<1>. QED  BY <1>7 DEF s, r

\* What a receiver reads of an encoded trap is what the trap says: every length
\* in the form its size calls for, every number natural, every arc whole and the
\* bindings all there and in order (encode, snmp.rs:85-115, and what it calls).
THEOREM EncodedIsRead ==
  ASSUME NEW community \in Seq(Nat), NEW t \in AnyTrap
  PROVE  Receive(Encode(community, t)) = Said(community, t)
<1>1. PICK items \in Seq(TheItems) :
        /\ FlattenSeq(BindingsOf(t)) \in Seq(Nat) /\ Items[FlattenSeq(BindingsOf(t))] = items
        /\ [i \in DOMAIN items |-> ReadBinding(items[i])] = SaidBindings(t)
  BY BindingsRead
<1>. DEFINE said == FlattenSeq(BindingsOf(t))
            d == Encode(community, t)
            id == RequestId(t)
            a == [tag |-> INTEGER, body |-> Padded(1)]
            b == [tag |-> OCTETS, body |-> community]
            i == [tag |-> INTEGER, body |-> Padded(id)]
            z == [tag |-> INTEGER, body |-> Padded(0)]
            v == [tag |-> SEQUENCE, body |-> said]
<1>2. said \in Seq(Nat) /\ Items[said] = items
  BY <1>1
<1>. HIDE DEF said
<1>3. PICK pdu \in Seq(Nat), body \in Seq(Nat) :
        /\ Items[d] = <<[tag |-> SEQUENCE, body |-> body]>>
        /\ Items[body] = Append(Append(<<a>>, b), [tag |-> TRAP, body |-> pdu])
        /\ Items[pdu] = Append(Append(Append(<<i>>, z), z), v)
  <2>1. said \in Seq(Nat) /\ FlattenSeq(BindingsOf(t)) = said
    BY <1>2 DEF said
  <2>2. \E pdu \in Seq(Nat), body \in Seq(Nat) : Levels(community, t, said, body, pdu)
    BY ONLY <2>1, community \in Seq(Nat), t \in AnyTrap, LevelsAre
  <2>. QED  BY <2>2 DEF Levels
<1>. DEFINE w == [tag |-> SEQUENCE, body |-> body]
            c == [tag |-> TRAP, body |-> pdu]
<1>4. /\ Padded(id) \in Seq(Nat) /\ ReadNumber(Padded(id)) = id
      /\ Padded(0) \in Seq(Nat) /\ ReadNumber(Padded(0)) = 0
      /\ Padded(1) \in Seq(Nat) /\ ReadNumber(Padded(1)) = 1
  BY RequestIdIs, NumberRead
<1>5. /\ a \in TheItems /\ a.tag = INTEGER /\ a.body = Padded(1)
      /\ b \in TheItems /\ b.tag = OCTETS /\ b.body = community
      /\ c \in TheItems /\ c.tag = TRAP /\ c.body = pdu
      /\ i \in TheItems /\ i.tag = INTEGER /\ i.body = Padded(id)
      /\ z \in TheItems /\ z.tag = INTEGER /\ z.body = Padded(0)
      /\ v \in TheItems /\ v.tag = SEQUENCE /\ v.body = said
      /\ w.tag = SEQUENCE /\ w.body = body
  BY <1>2, <1>4, Tags DEF TheItems
<1>. HIDE DEF a, b, c, i, z, v, w, d, id
<1>. DEFINE whole == Items[d]
            parts == Items[body]
            inner == Items[pdu]
<1>6. TagsOf(whole) = <<SEQUENCE>> /\ whole[1].body = body
  BY <1>3, <1>5 DEF TagsOf
<1>7. TagsOf(parts) = <<INTEGER, OCTETS, TRAP>> /\ parts[1] = a /\ parts[2] = b /\ parts[3] = c
  <2>1. Three(parts, a, b, c)
    BY <1>3, <1>5, ThreeTags DEF c
  <2>. QED  BY <1>5, <2>1 DEF Three
<1>8. TagsOf(inner) = <<INTEGER, INTEGER, INTEGER, SEQUENCE>>
      /\ inner[1] = i /\ inner[2] = z /\ inner[3] = z /\ inner[4] = v
  <2>1. Four(inner, i, z, z, v)
    BY <1>3, <1>5, FourTags
  <2>. QED  BY <1>5, <2>1 DEF Four
<1>. HIDE DEF whole, parts, inner
<1>9. parts = Items[whole[1].body] /\ inner = Items[parts[3].body] /\ items = Items[inner[4].body]
  BY <1>2, <1>5, <1>6, <1>7, <1>8 DEF parts, inner
<1>10. Receive(d) = [version |-> ReadNumber(parts[1].body), community |-> parts[2].body,
                     id |-> ReadNumber(inner[1].body),
                     status |-> <<ReadNumber(inner[2].body), ReadNumber(inner[3].body)>>,
                     bindings |-> [k \in DOMAIN items |-> ReadBinding(items[k])]]
  BY <1>6, <1>7, <1>8, <1>9 DEF Receive, whole
<1>11. Receive(d) = [version |-> 1, community |-> community, id |-> id, status |-> <<0, 0>>,
                     bindings |-> SaidBindings(t)]
  BY <1>1, <1>4, <1>5, <1>7, <1>8, <1>10
<1>. QED  BY <1>11 DEF Said, SaidBindings, RequestId, d, id

-----------------------------------------------------------------------------
(***************************************************************************)
(* What is handed over                                                      *)
(***************************************************************************)

\* The trap lives while there are targets, and what was handed over last is that
\* trap in the octets it is encoded in, for one of them.
TrapLives == targets # <<>> => trap \in Traps
Handed ==
  datagram # NoDatagram =>
    \E c \in ToSet(Targets) :
      trap \in Traps /\ datagram = [to |-> c, octets |-> Encode(c, trap)]
TargetsLeft == targets \in Seq(ToSet(Targets))

DInv == TrapLives /\ Handed /\ TargetsLeft

LEMMA DInvHolds == DInv /\ [DeliveryNext]_deliveryVars => DInv'
<1>. SUFFICES ASSUME DInv, [DeliveryNext]_deliveryVars PROVE DInv'
  OBVIOUS
<1>1. CASE SendTrap
  <2>. DEFINE c == Head(targets)
  <2>1. targets # <<>> /\ trap \in Traps /\ targets' = Tail(targets) /\ trap' = trap
    BY <1>1 DEF SendTrap, DInv, TrapLives
  <2>2. c \in ToSet(Targets) /\ targets' \in Seq(ToSet(Targets))
    BY <2>1 DEF DInv, TargetsLeft
  <2>3. datagram' \in {NoDatagram, [to |-> c, octets |-> Encoded[c][trap]]}
    BY <1>1 DEF SendTrap
  <2>4. Encoded[c][trap] = Encode(c, trap)
    BY <2>1, <2>2 DEF Encoded
  <2>. HIDE DEF c
  <2>5. Handed'
    BY <2>1, <2>2, <2>3, <2>4 DEF Handed
  <2>. QED  BY <2>1, <2>2, <2>5 DEF DInv, TrapLives, TargetsLeft
<1>2. CASE BeginMail
  BY <1>2 DEF BeginMail, DInv, TrapLives, Handed, TargetsLeft
<1>3. CASE UNCHANGED traps
  BY <1>3 DEF traps, DInv, TrapLives, Handed, TargetsLeft
<1>. QED  BY <1>1, <1>2, <1>3 DEF DeliveryNext, Report, Mailing, deliveryVars

\* Whatever is handed over is a trap that a receiver can read, and reads as it
\* was meant (snmp.rs:10-20, 149-194), for every community, every trap and every
\* size of an octet.
THEOREM TrapsReadAsSaid == DeliverySpec => []ReadsAsSaid
<1>1. DeliveryInit => DInv
  <2>1. Targets \in Seq(ToSet(Targets))
    BY DeliveryAssumption DEF ToSet
  <2>. QED  BY <2>1 DEF DeliveryInit, DInv, TrapLives, Handed, TargetsLeft
<1>2. DInv => ReadsAsSaid
  <2>. SUFFICES ASSUME DInv, datagram # NoDatagram
                PROVE  Receive(datagram.octets) = Said(datagram.to, trap)
    BY DEF ReadsAsSaid
  <2>1. PICK c \in ToSet(Targets) : trap \in Traps /\ datagram = [to |-> c, octets |-> Encode(c, trap)]
    BY DEF DInv, Handed
  <2>2. c \in Seq(Nat) /\ trap \in AnyTrap
    BY <2>1, DeliveryAssumption DEF ToSet
  <2>3. Receive(Encode(c, trap)) = Said(c, trap)
    BY <2>2, EncodedIsRead
  <2>4. datagram.octets = Encode(c, trap) /\ datagram.to = c
    BY <2>1
  <2>. QED  BY <2>3, <2>4
<1>. QED  BY <1>1, <1>2, DInvHolds, PTL DEF DeliverySpec
=============================================================================
