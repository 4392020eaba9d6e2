--------------------------- MODULE ContentProofs ---------------------------
(***************************************************************************)
(* Theorems about what the components do with contents: how a text is cut  *)
(* into chunks, what of it leaves for the providers, what their verdicts   *)
(* decide, which archives are accepted, and what the panel shows of an     *)
(* answer.                                                                 *)
(***************************************************************************)
EXTENDS Chunking, OutboundGuard, Archive, AssistantPanel, FiniteSetTheorems,
        FunctionTheorems, SequenceTheorems, WellFoundedInduction, TLAPS

-----------------------------------------------------------------------------
(***************************************************************************)
(* Numbers, sequences and finite sets                                      *)
(***************************************************************************)

\* A set of numbers has a least one.
LEMMA LeastExists ==
  ASSUME NEW S, S \subseteq Nat, S # {}
  PROVE  \E i \in S : \A j \in S : i <= j
<1>1. PICK i \in S : \A j \in S : ~(<<j, i>> \in OpToRel(<, Nat))
  BY NatLessThanWellFounded, WFMin
<1>2. \A j \in S : ~(j < i)
  BY <1>1 DEF OpToRel
<1>3. QED
  BY <1>2

\* A set of numbers up to a bound has a greatest one.
LEMMA GreatestExists ==
  ASSUME NEW n \in Nat, NEW S, S \subseteq 0..n, S # {}
  PROVE  \E i \in S : \A j \in S : j <= i
<1> DEFINE T == {n - i : i \in S}
<1>1. T \subseteq Nat /\ T # {}
  <2>1. \A i \in S : n - i \in Nat
    OBVIOUS
  <2>2. QED
    BY <2>1
<1>2. PICK x \in T : \A y \in T : x <= y
  BY <1>1, LeastExists
<1>3. PICK i \in S : x = n - i
  OBVIOUS
<1>4. \A j \in S : j <= i
  <2>1. SUFFICES ASSUME NEW j \in S PROVE j <= i
    OBVIOUS
  <2>2. n - j \in T
    OBVIOUS
  <2>3. n - i <= n - j
    BY <1>2, <1>3, <2>2
  <2>4. QED
    BY <2>3
<1>5. QED
  BY <1>4

\* A set of indices that is not empty has its maximum.
LEMMA MaximumExists ==
  ASSUME NEW n \in Nat, NEW I, I \subseteq 1..n, I # {}
  PROVE  Max(I) \in I
<1>1. I \subseteq 0..n
  OBVIOUS
<1>2. PICK i \in I : \A j \in I : j <= i
  BY <1>1, GreatestExists
<1>3. \A j \in I : i >= j
  BY <1>2
<1> QED BY <1>3 DEF Max

\* Division with remainder, there and back.
LEMMA Division ==
  ASSUME NEW b \in Nat, b > 0, NEW x \in Nat
  PROVE  /\ x \div b \in Nat /\ x % b \in 0..(b - 1)
         /\ x = b * (x \div b) + (x % b)
  OBVIOUS

LEMMA DivisionOfSum ==
  ASSUME NEW b \in Nat, b > 0, NEW q \in Nat, NEW r \in 0..(b - 1)
  PROVE  (q * b + r) \div b = q /\ (q * b + r) % b = r
  OBVIOUS

\* A sequence of any values.
IsSequence(s) == Len(s) \in Nat /\ DOMAIN s = 1..Len(s) /\ s \in Seq({s[k] : k \in DOMAIN s})

LEMMA TuplesAreSequences ==
  ASSUME NEW n \in Nat, NEW s, s = [k \in 1..n |-> s[k]]
  PROVE  IsSequence(s) /\ Len(s) = n
<1> DEFINE T == {s[k] : k \in 1..n}
<1>1. s \in [1..n -> T]
  OBVIOUS
<1>2. s \in Seq(T) /\ Len(s) = n /\ DOMAIN s = 1..n
  BY <1>1
<1>3. QED
  BY <1>2 DEF IsSequence

\* A sequence is the concatenation of two others if it has their elements.
LEMMA Concatenation ==
  ASSUME NEW s, NEW t, NEW u, IsSequence(s), IsSequence(t), IsSequence(u),
         Len(u) = Len(s) + Len(t),
         \A k \in 1..Len(u) : u[k] = IF k <= Len(s) THEN s[k] ELSE t[k - Len(s)]
  PROVE  u = s \o t
<1> DEFINE T == {s[k] : k \in DOMAIN s} \cup {t[k] : k \in DOMAIN t} \cup {u[k] : k \in DOMAIN u}
<1>1. s \in Seq(T) /\ t \in Seq(T) /\ u \in Seq(T)
  BY DEF IsSequence
<1> HIDE DEF T
<1>2. s \o t \in Seq(T) /\ Len(s \o t) = Len(s) + Len(t)
  BY <1>1
<1>3. \A k \in 1..Len(u) : (s \o t)[k] = IF k <= Len(s) THEN s[k] ELSE t[k - Len(s)]
  BY <1>1
<1>4. \A k \in 1..Len(u) : (s \o t)[k] = u[k]
  BY <1>3
<1>5. QED
  BY <1>1, <1>2, <1>4, SeqEqual

\* Batches that are full except for the last, one after the other: each
\* element is at the place its batch and its index in the batch say.
InBatches(s, n, size) ==
  /\ n \in Nat \ {0} /\ size \in Nat \ {0} /\ IsSequence(s) /\ Len(s) = n
  /\ \A i \in 1..n : IsSequence(s[i]) /\ Len(s[i]) <= size
  /\ \A i \in 1..(n - 1) : Len(s[i]) = size

LEMMA FlattenBatches ==
  ASSUME NEW n, NEW size, NEW s, InBatches(s, n, size)
  PROVE  \A i \in 1..n : \A j \in 1..Len(s[i]) :
            FlattenSeq(s)[size * (i - 1) + j] = s[i][j]
<1> USE DEF InBatches
<1>0. /\ n \in Nat /\ n > 0 /\ size \in Nat /\ size > 0 /\ 1 \in 1..n
      /\ \A i \in 1..n : IsSequence(s[i]) /\ Len(s[i]) \in 0..size
      /\ \A i \in 1..n : i - 1 \in Nat /\ size * (i - 1) \in Nat
  <2>1. ASSUME NEW i \in 1..n PROVE IsSequence(s[i]) /\ Len(s[i]) \in 0..size
    <3>1. IsSequence(s[i]) /\ Len(s[i]) <= size
      OBVIOUS
    <3>2. Len(s[i]) \in Nat
      BY <3>1 DEF IsSequence
    <3>3. QED
      BY <3>1, <3>2
  <2>2. \A i \in 1..n : i - 1 \in Nat /\ size * (i - 1) \in Nat
    OBVIOUS
  <2>3. QED
    BY <2>1, <2>2
<1> DEFINE G(i) == [k \in 1..(size * (i - 1) + Len(s[i])) |->
                      s[1 + (k - 1) \div size][1 + ((k - 1) % size)]]
           g == [i \in 1..n |-> G(i)]
           Step(f) == [i \in 1..Len(s) |-> IF i = 1 THEN s[i] ELSE f[i - 1] \o s[i]]
           h == CHOOSE f : f = Step(f)
<1>1. ASSUME NEW i \in 1..n
      PROVE  /\ IsSequence(G(i)) /\ Len(G(i)) = size * (i - 1) + Len(s[i])
             /\ \A k \in 1..(size * (i - 1) + Len(s[i])) :
                  G(i)[k] = s[1 + (k - 1) \div size][1 + ((k - 1) % size)]
  <2> DEFINE m == size * (i - 1) + Len(s[i])
             u == G(i)
  <2>1. m \in Nat
    BY <1>0
  <2>2. /\ u = [k \in 1..m |-> u[k]]
        /\ \A k \in 1..m : u[k] = s[1 + (k - 1) \div size][1 + ((k - 1) % size)]
    OBVIOUS
  <2> HIDE DEF m, u
  <2>3. IsSequence(u) /\ Len(u) = m
    BY <2>1, <2>2, TuplesAreSequences
  <2>4. QED
    BY <2>2, <2>3 DEF m, u
<1>2. ASSUME NEW i \in 1..n, NEW j \in 1..Len(s[i])
      PROVE  /\ size * (i - 1) + j \in 1..(size * (i - 1) + Len(s[i]))
             /\ 1 + (size * (i - 1) + j - 1) \div size = i
             /\ 1 + ((size * (i - 1) + j - 1) % size) = j
  <2>1. /\ i - 1 \in Nat /\ size * (i - 1) \in Nat /\ j - 1 \in 0..(size - 1) /\ j \in Nat
        /\ Len(s[i]) \in Nat
    BY <1>0
  <2>2. /\ ((i - 1) * size + (j - 1)) \div size = i - 1
        /\ ((i - 1) * size + (j - 1)) % size = j - 1
    BY <1>0, <2>1, DivisionOfSum
  <2>3. size * (i - 1) + j - 1 = (i - 1) * size + (j - 1)
    BY <2>1
  <2> DEFINE p == size * (i - 1)
  <2> HIDE DEF p
  <2>4. p + j \in 1..(p + Len(s[i]))
    BY <2>1 DEF p
  <2>5. QED
    BY <2>1, <2>2, <2>3, <2>4 DEF p
<1> HIDE DEF G
<1>3. G(1) = s[1]
  <2>1. \A k \in 1..Len(s[1]) : G(1)[k] = s[1][k]
    <3>1. SUFFICES ASSUME NEW k \in 1..Len(s[1]) PROVE G(1)[k] = s[1][k]
      OBVIOUS
    <3>2. size * (1 - 1) + k = k /\ size * (1 - 1) + Len(s[1]) = Len(s[1])
      BY <1>0
    <3>3. k - 1 \in 0..(size - 1) /\ 0 * size + (k - 1) = k - 1 /\ k \in Nat
      BY <1>0
    <3>4. (k - 1) \div size = 0 /\ (k - 1) % size = k - 1
      <4>1. (0 * size + (k - 1)) \div size = 0 /\ (0 * size + (k - 1)) % size = k - 1
        BY <1>0, <3>3, DivisionOfSum
      <4> QED BY <3>3, <4>1
    <3>7. k \in 1..(size * (1 - 1) + Len(s[1])) /\ 1 + (k - 1) \div size = 1 /\ 1 + ((k - 1) % size) = k
      <4>1. k \in 1..(size * (1 - 1) + Len(s[1]))
        <5> DEFINE x == size * (1 - 1) + Len(s[1])
        <5>1. x = Len(s[1])
          BY <3>2
        <5> HIDE DEF x
        <5>2. k \in 1..x
          BY <5>1
        <5> QED BY <5>2 DEF x
      <4> DEFINE y == (k - 1) \div size
                 z == (k - 1) % size
      <4>2. y = 0 /\ z = k - 1
        BY <3>4
      <4> HIDE DEF y, z
      <4>3. 1 + y = 1 /\ 1 + z = k
        BY <3>3, <4>2
      <4> QED BY <4>1, <4>3 DEF y, z
    <3>5. G(1)[k] = s[1 + (k - 1) \div size][1 + ((k - 1) % size)]
      BY <1>0, <1>1, <3>7
    <3>6. QED
      BY <3>5, <3>7
  <2>2. size * (1 - 1) + Len(s[1]) = Len(s[1]) /\ 1 \in 1..n
    BY <1>0
  <2>3. IsSequence(G(1)) /\ Len(G(1)) = Len(s[1]) /\ IsSequence(s[1])
    BY <1>1, <2>2
  <2> DEFINE T == {s[1][k] : k \in DOMAIN s[1]} \cup {G(1)[k] : k \in DOMAIN G(1)}
  <2>4. G(1) \in Seq(T) /\ s[1] \in Seq(T)
    BY <2>3 DEF IsSequence
  <2> HIDE DEF T
  <2>5. QED
    BY <2>1, <2>3, <2>4, SeqEqual
<1>4. ASSUME NEW i \in 2..n PROVE G(i) = G(i - 1) \o s[i]
  <2>1. /\ i - 1 \in 1..(n - 1) /\ i - 1 \in 1..n /\ i \in 1..n
        /\ Len(s[i]) \in Nat /\ Len(s[i - 1]) = size
    BY <1>0
  <2>2. size * ((i - 1) - 1) + size = size * (i - 1) /\ size * (i - 1) \in Nat
    BY <1>0, <2>1
  <2>3. /\ Len(G(i - 1)) = size * (i - 1) /\ Len(G(i)) = size * (i - 1) + Len(s[i])
        /\ IsSequence(G(i - 1)) /\ IsSequence(G(i)) /\ IsSequence(s[i])
    BY <1>1, <2>1, <2>2
  <2>4. ASSUME NEW k \in 1..Len(G(i))
        PROVE  G(i)[k] = IF k <= Len(G(i - 1)) THEN G(i - 1)[k]
                         ELSE s[i][k - Len(G(i - 1))]
    <3>1. CASE k <= Len(G(i - 1))
      <4>1. k \in 1..(size * ((i - 1) - 1) + Len(s[i - 1]))
        BY <2>1, <2>2, <2>3, <3>1
      <4>2. k \in 1..(size * (i - 1) + Len(s[i]))
        BY <2>3
      <4>3. G(i - 1)[k] = s[1 + (k - 1) \div size][1 + ((k - 1) % size)]
        BY <1>1, <2>1, <4>1
      <4>4. G(i)[k] = s[1 + (k - 1) \div size][1 + ((k - 1) % size)]
        BY <1>1, <2>1, <4>2
      <4>5. QED
        BY <3>1, <4>3, <4>4
    <3>2. CASE ~(k <= Len(G(i - 1)))
      <4> DEFINE j == k - size * (i - 1)
      <4>1. j \in 1..Len(s[i]) /\ k = size * (i - 1) + j
        BY <2>1, <2>2, <2>3, <3>2
      <4> HIDE DEF j
      <4>2. /\ k \in 1..(size * (i - 1) + Len(s[i]))
            /\ 1 + (k - 1) \div size = i /\ 1 + ((k - 1) % size) = j
        BY <1>2, <2>1, <4>1
      <4>3. G(i)[k] = s[1 + (k - 1) \div size][1 + ((k - 1) % size)]
        BY <1>1, <2>1, <4>2
      <4>5. G(i)[k] = s[i][j]
        BY <4>2, <4>3
      <4>4. QED
        BY <2>3, <3>2, <4>5 DEF j
    <3>3. QED
      BY <3>1, <3>2
  <2>5. Len(G(i)) = Len(G(i - 1)) + Len(s[i])
    BY <2>3
  <2>6. QED
    BY <2>3, <2>4, <2>5, Concatenation
<1>5. g = Step(g)
  <2>1. ASSUME NEW i \in 1..n PROVE g[i] = Step(g)[i]
    <3>1. CASE i = 1
      BY <1>3, <3>1
    <3>2. CASE i # 1
      <4>1. i \in 2..n /\ i - 1 \in 1..n
        BY <3>2
      <4>2. QED
        BY <1>4, <3>2, <4>1
    <3>3. QED
      BY <3>1, <3>2
  <2>2. QED
    BY <2>1
<1>6. h = Step(h)
  BY <1>5
<1>7. FlattenSeq(s) = h[n]
  BY <1>0, Zenon DEF FlattenSeq
<1> HIDE DEF g, h
<1>8. /\ h[1] = s[1]
      /\ \A i \in 2..n : h[i] = h[i - 1] \o s[i]
  <2>1. /\ \A i \in 1..n : h[i] = IF i = 1 THEN s[i] ELSE h[i - 1] \o s[i]
    BY <1>6
  <2>2. h[1] = s[1]
    BY <1>0, <2>1
  <2>3. ASSUME NEW i \in 2..n PROVE h[i] = h[i - 1] \o s[i]
    <3>1. i \in 1..n /\ i # 1
      OBVIOUS
    <3>2. QED
      BY <2>1, <3>1
  <2>4. QED
    BY <2>2, <2>3
<1>9. \A i \in 1..n : h[i] = G(i)
  <2> DEFINE Different == {i \in 1..n : h[i] # G(i)}
  <2>1. SUFFICES ASSUME Different # {} PROVE FALSE
    OBVIOUS
  <2>7. Different \subseteq Nat
    OBVIOUS
  <2>2. PICK i \in Different : \A l \in Different : i <= l
    <3> HIDE DEF Different
    <3>1. QED
      BY <2>1, <2>7, LeastExists
  <2>3. i \in 1..n /\ h[i] # G(i) /\ \A l \in 1..n : l < i => h[l] = G(l)
    BY <2>2
  <2> HIDE DEF Different
  <2>4. CASE i = 1
    BY <1>3, <1>8, <2>3, <2>4
  <2>5. CASE i > 1
    <3>1. i \in 2..n /\ i - 1 \in 1..n /\ i - 1 < i
      BY <2>3, <2>5
    <3>2. QED
      BY <1>4, <1>8, <2>3, <3>1
  <2>6. QED
    BY <2>3, <2>4, <2>5
<1>10. SUFFICES ASSUME NEW i \in 1..n, NEW j \in 1..Len(s[i])
                PROVE  G(n)[size * (i - 1) + j] = s[i][j]
  BY <1>0, <1>7, <1>9
<1>11. size * (i - 1) + j \in 1..(size * (n - 1) + Len(s[n]))
  <2>1. i - 1 \in Nat /\ n - 1 \in Nat /\ j \in Nat /\ j > 0 /\ j <= Len(s[i]) /\ Len(s[i]) \in Nat /\ Len(s[n]) \in Nat
    BY <1>0
  <2>2. CASE i = n
    BY <1>2, <2>2
  <2>3. CASE i < n
    <3>1. size * i <= size * (n - 1) /\ size * i = size * (i - 1) + size
      BY <1>0, <2>3
    <3>2. j <= size
      BY <1>0, <2>1
    <3>3. size * (i - 1) \in Nat /\ size * (n - 1) \in Nat
      BY <1>0, <2>1
    <3> DEFINE p == size * (i - 1)
               q == size * (n - 1)
    <3>4. p + size <= q /\ p \in Nat /\ q \in Nat
      BY <3>1, <3>3
    <3> HIDE DEF p, q
    <3>5. p + j \in 1..(q + Len(s[n]))
      BY <1>0, <2>1, <3>2, <3>4
    <3>6. QED
      BY <3>5 DEF p, q
  <2>4. QED
    BY <1>0, <2>2, <2>3
<1>12. \A k \in 1..(size * (n - 1) + Len(s[n])) :
         G(n)[k] = s[1 + (k - 1) \div size][1 + ((k - 1) % size)]
  <2>1. n \in 1..n
    BY <1>0
  <2>2. QED
    BY <1>1, <2>1
<1> DEFINE p == size * (i - 1) + j
<1>13. 1 + (p - 1) \div size = i /\ 1 + ((p - 1) % size) = j
  BY <1>2
<1>14. p \in 1..(size * (n - 1) + Len(s[n]))
  BY <1>11
<1> HIDE DEF p
<1>15. G(n)[p] = s[i][j]
  BY <1>12, <1>13, <1>14
<1>16. QED
  BY <1>15 DEF p

\* The enumeration of a finite set has each of its elements once.
LEMMA Enumeration ==
  ASSUME NEW S, IsFiniteSet(S)
  PROVE  /\ Cardinality(S) \in Nat /\ IsSequence(SetToSeq(S))
         /\ Len(SetToSeq(S)) = Cardinality(S)
         /\ \A k \in 1..Cardinality(S) : SetToSeq(S)[k] \in S
         /\ \A x \in S : \E k \in 1..Cardinality(S) : SetToSeq(S)[k] = x
         /\ \A k, l \in 1..Cardinality(S) : SetToSeq(S)[k] = SetToSeq(S)[l] => k = l
<1> DEFINE n == Cardinality(S)
           s == SetToSeq(S)
<1>1. n \in Nat /\ ExistsBijection(1..n, S)
  BY FS_CardinalityType
<1>2. \E f \in [1..n -> S] : IsInjective(f)
  BY <1>1 DEF ExistsBijection, Bijection, Injection
<1>3. s \in [1..n -> S] /\ IsInjective(s)
  BY <1>2 DEF SetToSeq
<1>4. s \in Injection(1..n, S)
  BY <1>3 DEF Injection
<1> HIDE DEF n, s
<1>5. IsFiniteSet(1..n) /\ Cardinality(1..n) = n
  BY <1>1, FS_Interval
<1>6. s \in Surjection(1..n, S)
  BY <1>4, <1>5, FS_Injection DEF n
<1>7. /\ \A x \in S : \E k \in 1..n : s[k] = x
      /\ \A k, l \in 1..n : s[k] = s[l] => k = l
  BY <1>3, <1>6 DEF Surjection, IsInjective
<1>8. IsSequence(s) /\ Len(s) = n
  BY <1>1, <1>3, TuplesAreSequences
<1>9. QED
  BY <1>1, <1>3, <1>7, <1>8 DEF n, s

-----------------------------------------------------------------------------
(***************************************************************************)
(* Chunking, for any text and options                                      *)
(*                                                                         *)
(* What lies before the window is in the chunks, and the window moves on   *)
(* with every cut.                                                         *)
(***************************************************************************)

Unit == [charStart : Nat, charEnd : Nat]

ChunkType ==
  /\ text \in Seq(BOOLEAN) /\ Len(text) > 0
  /\ maxChunks \in Nat \ {0}
  /\ start \in Nat /\ coveredEnd \in Nat
  /\ chunks \in Seq(Unit)
  /\ outcome \in {"cutting", "done", "refused"}

\* The loop is inside the text, and its next window begins inside what is
\* covered, at most the overlap before its end.
WindowInside ==
  /\ start <= coveredEnd /\ coveredEnd <= Len(text)
  /\ outcome = "cutting" =>
       start < Len(text) /\ coveredEnd <= start + Overlap /\ coveredEnd < Len(text)
  /\ outcome = "done" => coveredEnd = Len(text)

\* What is covered is in a unit, unless it ends a paragraph.
CoveredIsCut ==
  \A k \in 1..coveredEnd : text[k] \/
    \E c \in DOMAIN chunks : k \in (chunks[c].charStart + 1)..chunks[c].charEnd

\* The units are behind the window, of admissible length and in order.
UnitsInOrder ==
  /\ Len(chunks) <= maxChunks
  /\ outcome = "refused" => Len(chunks) = maxChunks
  /\ \A c \in DOMAIN chunks :
       /\ chunks[c].charEnd <= coveredEnd
       /\ outcome = "cutting" => chunks[c].charStart < start
       /\ chunks[c].charEnd - chunks[c].charStart \in 1..Maximum
       /\ c > 1 => /\ chunks[c].charStart > chunks[c - 1].charStart
                   /\ chunks[c].charEnd > chunks[c - 1].charEnd

ChunkInv == ChunkType /\ WindowInside /\ CoveredIsCut /\ UnitsInOrder

\* A cut ends behind its beginning and behind everything that was covered.
LEMMA CutAdvances ==
  ASSUME ChunkType, start < Len(text)
  PROVE  /\ End \in Nat /\ start < End /\ End <= Len(text) /\ End <= start + Maximum
         /\ coveredEnd <= start + Overlap /\ coveredEnd < Len(text) => coveredEnd < End
         /\ End < Len(text) => End - Overlap \in Nat
<1> USE OptionsAssumption
<1>1. /\ ProposedEnd \in Nat /\ start < ProposedEnd
      /\ ProposedEnd <= Len(text) /\ ProposedEnd <= start + Maximum
      /\ ProposedEnd = Len(text) \/ ProposedEnd = start + Maximum
  BY DEF ProposedEnd, Smaller, ChunkType
<1>2. ParagraphEnds # {} => ParagraphEnd \in 0..ProposedEnd
  <2>1. SUFFICES ASSUME ParagraphEnds # {} PROVE ParagraphEnd \in 0..ProposedEnd
    OBVIOUS
  <2>2. ParagraphEnds \subseteq 0..ProposedEnd
    BY DEF ParagraphEnds
  <2>3. \E i \in ParagraphEnds : \A j \in ParagraphEnds : j <= i
    BY <1>1, <2>1, <2>2, GreatestExists
  <2>4. ParagraphEnd \in ParagraphEnds
    BY <2>3 DEF ParagraphEnd
  <2>5. QED
    BY <2>2, <2>4
<1>3. \/ End = ProposedEnd
      \/ End \in 0..ProposedEnd /\ End > start + ShortestCut
  BY <1>2 DEF End
<1>4. start \in Nat /\ coveredEnd \in Nat /\ Len(text) \in Nat
  BY DEF ChunkType
<1>5. QED
  BY <1>1, <1>3, <1>4

LEMMA InitChunk == ChunkInit => ChunkInv
<1> SUFFICES ASSUME ChunkInit PROVE ChunkInv
  OBVIOUS
<1>1. PICK n \in 1..MaxLength : text \in [1..n -> BOOLEAN]
  BY DEF ChunkInit
<1>2. text \in Seq(BOOLEAN) /\ Len(text) = n
  BY <1>1, OptionsAssumption
<1>3. QED
  BY <1>2, OptionsAssumption
  DEF ChunkInit, ChunkInv, ChunkType, WindowInside, CoveredIsCut, UnitsInOrder, Unit

\* A cut covers what lies between the end of the one before and its own.
LEMMA CutStep == ASSUME ChunkInv, Cut PROVE ChunkInv'
<1> USE OptionsAssumption
<1>1. /\ outcome = "cutting" /\ start < Len(text) /\ Len(chunks) < maxChunks
      /\ coveredEnd' = End /\ text' = text /\ maxChunks' = maxChunks
      /\ \/ HasText(start, End) /\
              chunks' = Append(chunks, [charStart |-> start, charEnd |-> End])
         \/ ~HasText(start, End) /\ chunks' = chunks
      /\ \/ End >= Len(text) /\ outcome' = "done" /\ start' = start
         \/ /\ End < Len(text) /\ outcome' = outcome
            /\ start' = Larger(start + 1, (End - Overlap))
  <2>1. End \in Nat /\ Len(text) \in Nat
    BY CutAdvances DEF ChunkInv, ChunkType, Cut
  <2>2. /\ outcome = "cutting" /\ start < Len(text) /\ Len(chunks) < maxChunks
        /\ coveredEnd' = End /\ text' = text /\ maxChunks' = maxChunks
    BY DEF Cut, Covered
  <2>3. chunks' = IF HasText(start, End)
                  THEN Append(chunks, [charStart |-> start, charEnd |-> End]) ELSE chunks
    BY DEF Cut
  <2>4. IF End >= Len(text)
        THEN outcome' = "done" /\ start' = start
        ELSE start' = Larger(start + 1, (End - Overlap)) /\ outcome' = outcome
    BY DEF Cut
  <2>5. QED
    BY <2>1, <2>2, <2>3, <2>4
<1>2. /\ End \in Nat /\ start < End /\ End <= Len(text) /\ End <= start + Maximum
      /\ coveredEnd < End
      /\ End < Len(text) => End - Overlap \in Nat
  BY <1>1, CutAdvances DEF ChunkInv, WindowInside
<1>3. /\ start \in Nat /\ coveredEnd \in Nat /\ Len(text) \in Nat /\ Len(text) > 0
      /\ maxChunks \in Nat \ {0} /\ text \in Seq(BOOLEAN) /\ chunks \in Seq(Unit)
  BY DEF ChunkInv, ChunkType
<1>4. /\ start' \in Nat /\ start' <= End
      /\ outcome' = "cutting" => start' < Len(text) /\ End <= start' + Overlap /\ start < start'
  BY <1>1, <1>2, <1>3 DEF Larger
<1> DEFINE u == [charStart |-> start, charEnd |-> End]
<1>5. u \in Unit /\ u.charStart = start /\ u.charEnd = End
  BY <1>2, <1>3 DEF Unit
<1> HIDE DEF u
<1>6. \/ chunks' = Append(chunks, u) /\ Len(chunks') = Len(chunks) + 1
      \/ ~HasText(start, End) /\ chunks' = chunks
  BY <1>1, <1>3, <1>5 DEF u
<1>7. ChunkType'
  BY <1>1, <1>2, <1>3, <1>4, <1>5, <1>6 DEF ChunkType
<1>8. WindowInside'
  <2>1. start' <= coveredEnd' /\ coveredEnd' <= Len(text')
    BY <1>1, <1>2, <1>4
  <2>2. outcome' = "done" => End = Len(text)
    BY <1>1, <1>2, <1>3
  <2>3. outcome' = "cutting" => End < Len(text)
    BY <1>1
  <2>4. QED
    BY <1>1, <1>4, <2>1, <2>2, <2>3 DEF WindowInside
<1>9. CoveredIsCut'
  <2>1. SUFFICES ASSUME NEW k \in 1..End, ~text[k]
                 PROVE  \E c \in DOMAIN chunks' :
                          k \in (chunks'[c].charStart + 1)..chunks'[c].charEnd
    BY <1>1 DEF CoveredIsCut
  <2>2. CASE k <= coveredEnd
    <3>1. PICK c \in DOMAIN chunks : k \in (chunks[c].charStart + 1)..chunks[c].charEnd
      BY <1>3, <2>1, <2>2 DEF ChunkInv, CoveredIsCut
    <3>2. c \in DOMAIN chunks' /\ chunks'[c] = chunks[c]
      BY <1>3, <1>5, <1>6
    <3>3. QED
      BY <3>1, <3>2
  <2>3. CASE k > coveredEnd
    <3>1. k \in (start + 1)..End
      BY <1>2, <1>3, <2>1, <2>3 DEF ChunkInv, WindowInside
    <3>2. HasText(start, End)
      BY <2>1, <3>1 DEF HasText
    <3>3. chunks' = Append(chunks, u) /\ chunks'[Len(chunks) + 1] = u
      BY <1>3, <1>5, <1>6, <3>2
    <3>4. Len(chunks) + 1 \in DOMAIN chunks'
      BY <1>3, <3>3
    <3>5. QED
      BY <1>5, <3>1, <3>3, <3>4
  <2>4. QED
    BY <1>3, <2>1, <2>2, <2>3
<1>10. UnitsInOrder'
  <2>1. Len(chunks') <= maxChunks' /\ outcome' # "refused"
    BY <1>1, <1>3, <1>6
  <2>2. SUFFICES ASSUME NEW c \in DOMAIN chunks'
                 PROVE  /\ chunks'[c].charEnd <= End
                        /\ outcome' = "cutting" => chunks'[c].charStart < start'
                        /\ chunks'[c].charEnd - chunks'[c].charStart \in 1..Maximum
                        /\ c > 1 => /\ chunks'[c].charStart > chunks'[c - 1].charStart
                                    /\ chunks'[c].charEnd > chunks'[c - 1].charEnd
    BY <1>1, <2>1 DEF UnitsInOrder
  <2>3. \A d \in DOMAIN chunks :
          /\ chunks'[d] = chunks[d] /\ chunks[d].charStart \in Nat /\ chunks[d].charEnd \in Nat
          /\ chunks[d].charEnd <= coveredEnd /\ chunks[d].charStart < start
          /\ chunks[d].charEnd - chunks[d].charStart \in 1..Maximum
          /\ d > 1 => /\ chunks[d].charStart > chunks[d - 1].charStart
                      /\ chunks[d].charEnd > chunks[d - 1].charEnd
    <3>1. \A d \in DOMAIN chunks : chunks[d] \in Unit /\ chunks'[d] = chunks[d]
      BY <1>3, <1>5, <1>6
    <3>2. QED
      BY <1>1, <3>1 DEF ChunkInv, UnitsInOrder, Unit
  <2>4. CASE c \in DOMAIN chunks
    <3>1. c > 1 => c - 1 \in DOMAIN chunks
      BY <1>3, <2>4
    <3>2. chunks'[c] = chunks[c] /\ (c > 1 => chunks'[c - 1] = chunks[c - 1])
      BY <2>3, <2>4, <3>1
    <3>3. chunks[c].charEnd <= End
      BY <1>2, <1>3, <2>3, <2>4
    <3>4. outcome' = "cutting" => chunks[c].charStart < start'
      BY <1>3, <1>4, <2>3, <2>4
    <3>5. QED
      BY <2>3, <2>4, <3>2, <3>3, <3>4
  <2>5. CASE c \notin DOMAIN chunks
    <3>1. c = Len(chunks) + 1 /\ chunks'[c] = u
      BY <1>3, <1>5, <1>6, <2>2, <2>5
    <3>2. c > 1 => c - 1 \in DOMAIN chunks
      BY <1>3, <3>1
    <3>3. u.charEnd <= End /\ u.charEnd - u.charStart \in 1..Maximum
      BY <1>2, <1>3, <1>5
    <3>4. outcome' = "cutting" => u.charStart < start'
      BY <1>4, <1>5
    <3>5. c > 1 => /\ u.charStart > chunks'[c - 1].charStart
                   /\ u.charEnd > chunks'[c - 1].charEnd
      <4>1. SUFFICES ASSUME c > 1 PROVE /\ u.charStart > chunks'[c - 1].charStart
                                        /\ u.charEnd > chunks'[c - 1].charEnd
        OBVIOUS
      <4>2. PICK d \in DOMAIN chunks : d = c - 1
        BY <3>2, <4>1
      <4>3. chunks'[d].charStart < start /\ chunks'[d].charEnd <= coveredEnd
            /\ chunks'[d].charStart \in Nat /\ chunks'[d].charEnd \in Nat
        BY <2>3
      <4>4. QED
        BY <1>2, <1>3, <1>5, <4>2, <4>3
    <3>6. QED
      BY <3>1, <3>3, <3>4, <3>5
  <2>6. QED
    BY <2>4, <2>5
<1>11. QED
  BY <1>7, <1>8, <1>9, <1>10 DEF ChunkInv

LEMMA StopStep == ASSUME ChunkInv, Stop PROVE ChunkInv'
<1>1. /\ outcome = "cutting" /\ Len(chunks) >= maxChunks
      /\ outcome' = IF coveredEnd < Len(text) THEN "refused" ELSE "done"
      /\ text' = text /\ maxChunks' = maxChunks /\ start' = start
      /\ coveredEnd' = coveredEnd /\ chunks' = chunks
  BY DEF Stop
<1>2. outcome' = "refused"
  BY <1>1 DEF ChunkInv, WindowInside
<1>3. Len(chunks) = maxChunks
  BY <1>1 DEF ChunkInv, ChunkType, UnitsInOrder
<1>4. QED
  BY <1>1, <1>2, <1>3
  DEF ChunkInv, ChunkType, WindowInside, CoveredIsCut, UnitsInOrder

\* chunking.ts:44: a text that is cut to its end is in the chunks, for any length
\* and options: every character that is not blank is in one, the chunks are in
\* order, none is too long and there are no more than allowed.
THEOREM NoTextIsLost == ChunkSpec => []NothingIsLost
<1>1. ChunkInv /\ [ChunkNext]_chunkVars => ChunkInv'
  <2>1. ASSUME ChunkInv, UNCHANGED chunkVars PROVE ChunkInv'
    BY <2>1 DEF chunkVars, ChunkInv, ChunkType, WindowInside, CoveredIsCut, UnitsInOrder
  <2>2. QED
    BY <2>1, CutStep, StopStep DEF ChunkNext
<1>2. ChunkInv => NothingIsLost
  <2> SUFFICES ASSUME ChunkInv PROVE NothingIsLost
    OBVIOUS
  <2>1. DOMAIN text = 1..Len(text)
    BY DEF ChunkInv, ChunkType
  <2>2. outcome = "done" => 1..coveredEnd = DOMAIN text
    BY <2>1 DEF ChunkInv, WindowInside
  <2>3. outcome = "done" =>
          \A k \in DOMAIN text : text[k] \/
            \E c \in DOMAIN chunks : k \in (chunks[c].charStart + 1)..chunks[c].charEnd
    BY <2>2, Zenon DEF ChunkInv, CoveredIsCut
  <2>4. QED
    BY <2>3 DEF ChunkInv, UnitsInOrder, NothingIsLost
<1>3. QED
  BY <1>1, <1>2, InitChunk, PTL DEF ChunkSpec

-----------------------------------------------------------------------------
(***************************************************************************)
(* OutboundGuard, for any number of items, fields, senders and versions of the classifier *)
(*                                                                         *)
(* What a stage waits for was protected before it was asked; a sender      *)
(* waits for a batch of its own, and its answer is stored at the index of  *)
(* that batch.                                                             *)
(***************************************************************************)

\* As many batches as a number of texts fills.
BatchesOf(n) == (n + BatchSize - 1) \div BatchSize

LEMMA BatchesCover ==
  ASSUME NEW n \in Nat
  PROVE  /\ BatchesOf(n) \in Nat /\ n <= BatchSize * BatchesOf(n)
         /\ BatchSize * BatchesOf(n) < n + BatchSize
         /\ n > 0 => BatchesOf(n) > 0
         /\ \A m \in Nat : m <= n => BatchesOf(m) <= BatchesOf(n)
<1>1. ASSUME NEW m \in Nat
      PROVE  /\ BatchesOf(m) \in Nat /\ m <= BatchSize * BatchesOf(m)
             /\ BatchSize * BatchesOf(m) < m + BatchSize
  <2> DEFINE x == m + BatchSize - 1
             y == BatchSize * (x \div BatchSize)
  <2>1. BatchSize \in Nat /\ BatchSize > 0 /\ x \in Nat
    BY NumberingAssumption
  <2>2. x \div BatchSize \in Nat /\ x % BatchSize \in 0..(BatchSize - 1) /\ x = y + (x % BatchSize)
    <3> HIDE DEF x
    <3> QED BY <2>1, Division
  <2>3. y \in Nat
    BY <2>1, <2>2
  <2>4. BatchesOf(m) = x \div BatchSize
    BY DEF BatchesOf
  <2> DEFINE z == x % BatchSize
  <2>5. m <= y /\ y < m + BatchSize
    <3>1. z \in 0..(BatchSize - 1) /\ m + BatchSize - 1 = y + z
      BY <2>2
    <3> HIDE DEF y, z
    <3> QED BY <2>1, <2>3, <3>1
  <2> QED BY <2>2, <2>4, <2>5
<1>2. n > 0 => BatchesOf(n) > 0
  <2>1. BatchesOf(n) \in Nat /\ n <= BatchSize * BatchesOf(n)
    BY <1>1
  <2>2. BatchSize * 0 = 0
    BY NumberingAssumption
  <2>3. ASSUME BatchesOf(n) = 0 PROVE n <= 0
    BY <2>1, <2>2, <2>3
  <2> QED BY <2>1, <2>3
<1>3. ASSUME NEW m \in Nat, m <= n PROVE BatchesOf(m) <= BatchesOf(n)
  <2> DEFINE p == BatchesOf(n)
             q == BatchesOf(m)
  <2>1. p \in Nat /\ q \in Nat /\ n <= BatchSize * p /\ BatchSize * q < m + BatchSize
    BY <1>1
  <2>2. BatchSize \in Nat
    BY NumberingAssumption
  <2> HIDE DEF p, q
  <2>3. SUFFICES ASSUME p + 1 <= q PROVE FALSE
    BY <2>1 DEF p, q
  <2>4. BatchSize * (p + 1) <= BatchSize * q
    BY <2>1, <2>2, <2>3
  <2>5. QED
    BY <1>3, <2>1, <2>2, <2>4
<1>4. QED
  BY <1>1, <1>2, <1>3

\* The batches lie inside the texts, and every text is in one of them.
LEMMA BatchesAreInside ==
  ASSUME IsSequence(outbound), Len(outbound) > 0, NEW b \in 1..Batches
  PROVE  /\ BatchRange(b) \subseteq DOMAIN outbound
         /\ Cardinality(BatchRange(b)) \in Nat
         /\ \A j \in 1..Cardinality(BatchRange(b)) :
              BatchSize * (b - 1) + j \in DOMAIN outbound
         /\ Cardinality(BatchRange(b)) <= BatchSize
         /\ Cardinality(BatchRange(b)) =
              (IF b = Batches THEN Len(outbound) ELSE BatchSize * b) - BatchSize * (b - 1)
<1> DEFINE n == Len(outbound)
           last == IF b = Batches THEN n ELSE BatchSize * b
<1>1. n \in Nat /\ DOMAIN outbound = 1..n /\ BatchSize \in Nat \ {0} /\ b \in Nat /\ b > 0
  BY NumberingAssumption DEF IsSequence
<1>2. Batches = BatchesOf(n)
  BY DEF Batches, BatchesOf
<1>3. Batches \in Nat /\ BatchSize * Batches < n + BatchSize
  BY <1>1, <1>2, BatchesCover
<1>4. BatchSize * (Batches - 1) < n
  BY <1>1, <1>3
<1>5. b < Batches => BatchSize * b <= BatchSize * (Batches - 1)
  BY <1>1, <1>3
<1>6. BatchSize * (b - 1) \in Nat /\ BatchSize * (b - 1) <= BatchSize * (Batches - 1)
  BY <1>1, <1>3
<1>7. BatchSize * b = BatchSize * (b - 1) + BatchSize
  BY <1>1
<1> DEFINE before == BatchSize * (b - 1)
<1>8. last \in Nat /\ last <= n /\ before < last /\ before \in Nat
  BY <1>1, <1>3, <1>4, <1>5, <1>6, <1>7
<1>9. BatchRange(b) = (before + 1)..last
  BY DEF BatchRange
<1> HIDE DEF before, last, n
<1>10. Cardinality((before + 1)..last) = last - before
  BY <1>8, FS_Interval
<1>11. last <= before + BatchSize
  <2>1. b < Batches => last <= before + BatchSize
    BY <1>1, <1>7 DEF last, before
  <2>2. b = Batches => last <= before + BatchSize
    BY <1>1, <1>2, <1>7, BatchesCover DEF last, before, n
  <2>3. QED
    BY <1>3, <2>1, <2>2
<1>12. Cardinality(BatchRange(b)) = last - before
  BY <1>9, <1>10
<1>13. \A j \in 1..(last - before) : before + j \in 1..n
  BY <1>1, <1>8
<1>14. (before + 1)..last \subseteq 1..n
  BY <1>1, <1>8
<1>15. last - before \in Nat /\ last - before <= BatchSize
  BY <1>1, <1>8, <1>11
<1>16. QED
  BY <1>1, <1>9, <1>12, <1>13, <1>14, <1>15 DEF before, last, n

\* The tenant has allowed the provider.
Approved == setting.enabled /\ "provider" \in setting.allowed

HasNone(texts, mark) == \A k \in DOMAIN texts : mark \notin texts[k]

\* What the local patterns protect, and what the DLP service protects as well.
LocallyProtected(texts) == setting.mode # "ALLOW" => HasNone(texts, "pii")
Sendable(texts) ==
  setting.mode # "ALLOW" => HasNone(texts, "pii") /\ (External => HasNone(texts, "name"))

\* Protection takes personal data away and leaves instructions alone.
SameInstructions(texts, others) ==
  /\ DOMAIN texts = DOMAIN others
  /\ \A k \in DOMAIN texts, mark \in {"order", "lure"} :
       mark \in texts[k] <=> mark \in others[k]

IsClean(i) ==
  \A f \in Fields :
    /\ "order" \notin setting.content.items[i][f]
    /\ External => "lure" \notin setting.content.items[i][f]

GuardType ==
  /\ setting \in Settings
  /\ stage \in {"query", "fields", "chunks", "classify"} \cup Ended
  /\ asked \in BOOLEAN /\ next \in Nat \ {0} /\ sending \in [Senders -> Nat]
  /\ IsSequence(outbound)
  /\ stage # "done" => released = {}

\* Nobody classifies anything before the fields are protected.
BeforeClassification ==
  /\ stage = "query" => setting.purpose = "retrieval"
  /\ stage \in {"query", "fields"} =>
       results = <<>> /\ next = 1 /\ \A w \in Senders : sending[w] = 0

\* The DLP service is shown what the local patterns have protected.
Asking ==
  asked =>
    /\ stage \in {"query", "fields", "chunks"} /\ External
    /\ Approved /\ LocallyProtected(outbound) /\ SameInstructions(outbound, Texts)
    /\ Len(outbound) > 0
    /\ stage = "chunks" => Len(outbound) = Cardinality(Items)

\* An answer is at the index of its batch, and of a batch that was taken.
AnswerIsOwn(b) ==
  results[b] # <<>> =>
    /\ b < next
    /\ results[b].lures = [j \in 1..Cardinality(BatchRange(b)) |->
                             "lure" \in outbound[BatchSize * (b - 1) + j]]

Classifying ==
  stage = "classify" =>
    /\ Approved /\ Sendable(outbound) /\ SameInstructions(outbound, AllFields)
    /\ Len(outbound) > 0
    /\ DOMAIN results = 1..Batches
    /\ \A b \in 1..Batches : AnswerIsOwn(b)
    /\ \A w \in Senders : sending[w] \in 1..Batches => sending[w] < next

\* Senders that go on after the failure of another send what was protected.
LateSenders ==
  stage = "failed" /\ External /\ results # <<>> /\ next <= Batches =>
    Approved /\ Sendable(outbound) /\ Len(outbound) > 0

\* A document is embedded after all of its batches were taken, and there are no
\* more batches of chunks than of fields.
Embedding ==
  stage = "chunks" =>
    /\ setting.purpose = "ingestion" /\ \A i \in Items : IsClean(i)
    /\ External => next > Batches /\ next > BatchesOf(Cardinality(Items))

\* A sender waits for a batch of its own that has no answer, and nobody waits
\* once all of them have one.
Waiting ==
  /\ stage \in {"chunks", "done", "blocked"} =>
       \A w \in Senders : sending[w] \notin 1..Batches
  /\ stage = "chunks" =>
       \A w \in Senders : sending[w] \notin 1..BatchesOf(Cardinality(Items))
  /\ ~External => \A w \in Senders : sending[w] = 0
  /\ stage = "classify" =>
       \A w \in Senders : sending[w] \in 1..Batches =>
         /\ results[sending[w]] = <<>>
         /\ \A v \in Senders \ {w} : sending[v] # sending[w]

GuardInv ==
  /\ GuardType
  /\ BeforeClassification /\ Asking /\ Classifying /\ LateSenders /\ Embedding /\ Waiting
  /\ NothingUnprotectedLeaves /\ JudgedByItsOwnFields

-----------------------------------------------------------------------------

LEMMA SettingFacts ==
  ASSUME setting \in Settings
  PROVE  /\ setting.purpose \in {"retrieval", "ingestion"}
         /\ setting.environment \in {"development", "production", "overridden"}
         /\ setting.mode \in {"BLOCK", "REDACT", "ALLOW"}
         /\ setting.eligible \subseteq Items
         /\ setting.purpose = "ingestion" => setting.eligible = Items
  BY DEF Settings

LEMMA InitGuard == GuardInit => GuardInv
<1> SUFFICES ASSUME GuardInit PROVE GuardInv
  OBVIOUS
<1>1. setting.purpose \in {"retrieval", "ingestion"}
  BY SettingFacts DEF GuardInit
<1>2. IsSequence(<<>>)
  BY DEF IsSequence
<1>3. /\ stage \in {"query", "fields"}
      /\ stage = "query" => setting.purpose = "retrieval"
      /\ outbound = <<>> /\ ~asked /\ next = 1 /\ results = <<>> /\ released = {} /\ sent = {}
      /\ setting \in Settings
      /\ \A w \in Senders : sending[w] = 0
      /\ sending \in [Senders -> Nat] /\ asked \in BOOLEAN
  BY <1>1 DEF GuardInit
<1>4. IsSequence(outbound)
  BY <1>2, <1>3, Zenon
<1>5. GuardType
  BY <1>3, <1>4 DEF GuardType
<1>6. BeforeClassification
  BY <1>3 DEF BeforeClassification
<1>7. Asking /\ Classifying /\ LateSenders /\ Embedding /\ Waiting
  BY <1>3 DEF Asking, Classifying, LateSenders, Embedding, Waiting
<1>8. NothingUnprotectedLeaves
  BY <1>3 DEF NothingUnprotectedLeaves
<1>9. JudgedByItsOwnFields
  BY <1>3 DEF JudgedByItsOwnFields
<1>10. QED
  BY <1>5, <1>6, <1>7, <1>8, <1>9 DEF GuardInv

\* The fields of the eligible items are enumerated, each at its position.
LEMMA FieldsInSequence ==
  ASSUME setting \in Settings
  PROVE  /\ IsSequence(AllFields)
         /\ Len(AllFields) = Cardinality(setting.eligible) * Cardinality(Fields)
         /\ Cardinality(setting.eligible) \in Nat
         /\ \A i \in setting.eligible, f \in Fields :
              /\ PositionOf(i, f) \in DOMAIN AllFields
              /\ AllFields[PositionOf(i, f)] = setting.content.items[i][f]
         /\ \A k \in DOMAIN AllFields : \E i \in setting.eligible, f \in Fields :
              AllFields[k] = setting.content.items[i][f]
<1> DEFINE m == Cardinality(Fields)
           n == Cardinality(setting.eligible)
<1>1. IsFiniteSet(setting.eligible)
  BY SettingFacts, NumberingAssumption, FS_Subset
<1>2. /\ n \in Nat /\ IsSequence(Eligible) /\ Len(Eligible) = n
      /\ \A k \in 1..n : Eligible[k] \in setting.eligible
      /\ \A i \in setting.eligible : \E k \in 1..n : Eligible[k] = i
      /\ \A k, l \in 1..n : Eligible[k] = Eligible[l] => k = l
  BY <1>1, Enumeration DEF Eligible
<1>3. m \in Nat \ {0} /\ Fields = 1..m
  BY NumberingAssumption, FS_CardinalityType
<1>4. n * m \in Nat
  BY <1>2, <1>3
<1>5. /\ DOMAIN AllFields = 1..(n * m)
      /\ AllFields = [k \in 1..(n * m) |-> AllFields[k]]
      /\ \A k \in 1..(n * m) : AllFields[k] =
           setting.content.items[Eligible[1 + (k - 1) \div m]][1 + ((k - 1) % m)]
  BY <1>2 DEF AllFields
<1> HIDE DEF m, n
<1>6. IsSequence(AllFields) /\ Len(AllFields) = n * m
  BY <1>4, <1>5, TuplesAreSequences
<1>7. ASSUME NEW i \in setting.eligible, NEW f \in Fields
      PROVE  /\ PositionOf(i, f) \in DOMAIN AllFields
             /\ AllFields[PositionOf(i, f)] = setting.content.items[i][f]
  <2>1. PICK e \in 1..n : Eligible[e] = i
    BY <1>2
  <2>2. DOMAIN Eligible = 1..n
    BY <1>2 DEF IsSequence
  <2>3. (CHOOSE k \in DOMAIN Eligible : Eligible[k] = i) = e
    BY <1>2, <2>1, <2>2
  <2>4. PositionOf(i, f) = (e - 1) * m + f
    BY <2>3 DEF PositionOf, m
  <2>5. e - 1 \in Nat /\ f \in Nat /\ f - 1 \in 0..(m - 1) /\ n \in Nat /\ m \in Nat \ {0}
    BY <1>2, <1>3, <2>1
  <2>6. (e - 1) * m \in Nat /\ (e - 1) * m <= (n - 1) * m /\ (n - 1) * m = n * m - m
    BY <1>2, <2>1, <2>5
  <2>7. (e - 1) * m + f \in 1..(n * m)
    BY <1>4, <2>5, <2>6
  <2>8. /\ ((e - 1) * m + (f - 1)) \div m = e - 1
        /\ ((e - 1) * m + (f - 1)) % m = f - 1
    BY <2>5
  <2> DEFINE p == (e - 1) * m + f
  <2>9. p - 1 = (e - 1) * m + (f - 1)
    BY <2>5, <2>6
  <2>10. p \in 1..(n * m) /\ PositionOf(i, f) = p
    BY <2>4, <2>7
  <2> HIDE DEF p
  <2>11. 1 + (p - 1) \div m = e /\ 1 + ((p - 1) % m) = f
    BY <2>1, <2>5, <2>8, <2>9
  <2>12. AllFields[p] = setting.content.items[Eligible[e]][f]
    BY <1>5, <2>10, <2>11
  <2>13. QED
    BY <1>5, <2>1, <2>10, <2>12
<1>8. ASSUME NEW k \in DOMAIN AllFields
      PROVE  \E i \in setting.eligible, f \in Fields :
               AllFields[k] = setting.content.items[i][f]
  <2> DEFINE q == (k - 1) \div m
             r == (k - 1) % m
  <2>1. k - 1 \in Nat /\ k - 1 < n * m /\ n \in Nat /\ m \in Nat \ {0}
    BY <1>2, <1>3, <1>4, <1>5
  <2>2. q \in Nat /\ r \in 0..(m - 1) /\ k - 1 = m * q + r
    BY <2>1
  <2> HIDE DEF q, r
  <2>3. q < n
    <3>1. SUFFICES ASSUME n <= q PROVE FALSE
      BY <2>1, <2>2
    <3>2. m * n <= m * q /\ m * n = n * m
      BY <2>1, <2>2, <3>1
    <3>3. QED
      BY <1>4, <2>1, <2>2, <3>2
  <2>4. Eligible[1 + q] \in setting.eligible /\ 1 + r \in Fields
    BY <1>2, <1>3, <2>1, <2>2, <2>3
  <2>5. QED
    BY <1>5, <2>4 DEF q, r
<1>9. QED
  BY <1>2, <1>6, <1>7, <1>8 DEF m, n

\* What is protected is a sequence, and not one of more chunks than items.
LEMMA TextsInSequence ==
  ASSUME setting \in Settings, stage \in {"query", "fields", "chunks"}
  PROVE  /\ IsSequence(Texts)
         /\ stage = "query" => Len(Texts) = 1
         /\ stage = "fields" => Texts = AllFields
         /\ stage = "chunks" => Len(Texts) = Cardinality(Items)
<1>1. CASE stage = "query"
  <2>1. Texts = <<setting.content.query>>
    BY <1>1 DEF Texts
  <2>2. Texts = [k \in 1..1 |-> Texts[k]]
    BY <2>1
  <2>3. QED
    BY <1>1, <2>2, TuplesAreSequences
<1>2. CASE stage = "fields"
  BY <1>2, FieldsInSequence DEF Texts
<1>3. CASE stage = "chunks"
  <2>1. Texts = [i \in 1..Cardinality(Items) |-> setting.content.items[i][1]]
    BY <1>3 DEF Texts
  <2>2. Texts = [i \in 1..Cardinality(Items) |-> Texts[i]]
    BY <2>1
  <2>3. QED
    BY <1>3, <2>2, NumberingAssumption, FS_CardinalityType, TuplesAreSequences
<1>4. QED
  BY <1>1, <1>2, <1>3

\* The local patterns under the tenant's policy.
LEMMA LocalProtection ==
  ASSUME setting \in Settings, IsSequence(Texts), ~Refused(Texts), NEW t,
         t = [k \in DOMAIN Texts |-> ProtectAiOutbound(Texts[k])]
  PROVE  /\ IsSequence(t) /\ Len(t) = Len(Texts)
         /\ Approved /\ LocallyProtected(t) /\ SameInstructions(t, Texts)
<1>1. setting.mode \in {"BLOCK", "REDACT", "ALLOW"}
  BY SettingFacts
<1>2. DOMAIN Texts = 1..Len(Texts) /\ Len(Texts) \in Nat
  BY DEF IsSequence
<1>3. t = [k \in 1..Len(Texts) |-> t[k]]
  BY <1>2
<1>4. IsSequence(t) /\ Len(t) = Len(Texts)
  BY <1>2, <1>3, TuplesAreSequences
<1>5. Approved /\ LocallyProtected(t)
  BY <1>1 DEF Refused, Approved, LocallyProtected, HasNone, ProtectAiOutbound, RedactPii,
              ContainsPii
<1>6. SameInstructions(t, Texts)
  BY DEF SameInstructions, ProtectAiOutbound, RedactPii
<1>7. QED
  BY <1>4, <1>5, <1>6

\* What the DLP service adds to it.
LEMMA DlpProtection ==
  ASSUME setting \in Settings, Asking, asked, IsSequence(outbound),
         ~(setting.mode = "BLOCK" /\ \E k \in DOMAIN outbound : DlpFinds(outbound[k])),
         NEW t, t = [k \in DOMAIN outbound |-> AfterDlp(outbound[k])]
  PROVE  /\ IsSequence(t) /\ Len(t) = Len(outbound)
         /\ Sendable(t) /\ SameInstructions(t, Texts)
<1>1. setting.mode \in {"BLOCK", "REDACT", "ALLOW"}
  BY SettingFacts
<1>2. DOMAIN outbound = 1..Len(outbound) /\ Len(outbound) \in Nat
  BY DEF IsSequence
<1>3. t = [k \in 1..Len(outbound) |-> t[k]]
  BY <1>2
<1>4. IsSequence(t) /\ Len(t) = Len(outbound)
  BY <1>2, <1>3, TuplesAreSequences
<1>5. Sendable(t)
  BY <1>1 DEF Sendable, HasNone, AfterDlp, DlpFinds, DlpRedacts, ProtectAiOutbound, RedactPii
<1>6. SameInstructions(t, outbound)
  BY DEF SameInstructions, AfterDlp, DlpRedacts, ProtectAiOutbound, RedactPii
<1>7. SameInstructions(outbound, Texts)
  BY DEF Asking
<1>8. SameInstructions(t, Texts)
  BY <1>6, <1>7 DEF SameInstructions
<1>9. QED
  BY <1>4, <1>5, <1>8

LEMMA SendKeeps ==
  ASSUME NothingUnprotectedLeaves, setting' = setting, NEW to, NEW texts, Send(to, texts),
         Approved, to \in setting.allowed,
         \A k \in DOMAIN texts : setting.mode # "ALLOW" =>
           "pii" \notin texts[k] /\ (External /\ to # "dlp" => "name" \notin texts[k])
  PROVE  NothingUnprotectedLeaves'
<1> SUFFICES ASSUME NEW message \in sent'
             PROVE  /\ setting.enabled /\ {"provider", message.to} \subseteq setting.allowed
                    /\ setting.mode # "ALLOW" => "pii" \notin message.text
                    /\ setting.mode # "ALLOW" /\ External /\ message.to # "dlp" =>
                         "name" \notin message.text
  BY DEF NothingUnprotectedLeaves, External
<1>1. CASE message \in sent
  BY <1>1 DEF NothingUnprotectedLeaves
<1>2. CASE message \notin sent
  <2>1. PICK k \in DOMAIN texts : message = [to |-> to, text |-> texts[k]]
    BY <1>2 DEF Send
  <2>2. message.to = to /\ message.text = texts[k]
    BY <2>1
  <2>3. QED
    BY <2>2 DEF Approved
<1>3. QED
  BY <1>1, <1>2

\* A stage before the classification ends in failure.
LEMMA FailStep ==
  ASSUME GuardInv, stage \in {"query", "fields", "chunks"}, Fail,
         UNCHANGED <<setting, next, sending>>
  PROVE  GuardInv'
<1>1. /\ stage' = "failed" /\ asked' = FALSE
      /\ UNCHANGED <<setting, next, sending, outbound, results, released, sent>>
  BY DEF Fail
<1>2. GuardType'
  BY <1>1 DEF GuardInv, GuardType, Ended
<1>3. External /\ results # <<>> => stage = "chunks" /\ ~(next <= Batches)
  <2>1. next \in Nat /\ Batches \in Nat
    BY BatchesCover DEF GuardInv, GuardType, IsSequence, Batches, BatchesOf
  <2>2. QED
    BY <2>1 DEF GuardInv, BeforeClassification, Embedding
<1>4. LateSenders'
  BY <1>1, <1>3 DEF LateSenders, Batches, External
<1>5. NothingUnprotectedLeaves'
  BY <1>1 DEF GuardInv, NothingUnprotectedLeaves, External
<1>6. (BeforeClassification /\ Asking /\ Classifying /\ Embedding /\ Waiting)'
  BY <1>1 DEF GuardInv, BeforeClassification, Asking, Classifying, Embedding, Waiting, External
<1>7. JudgedByItsOwnFields'
  BY <1>1 DEF JudgedByItsOwnFields
<1>8. QED
  BY <1>2, <1>4, <1>5, <1>6, <1>7 DEF GuardInv

\* A document passes, with or without embeddings, after none of its items was
\* found suspicious.
LEMMA DoneAfterChunks ==
  ASSUME GuardInv, stage = "chunks", stage' = "done", asked' = FALSE, released' = Items,
         UNCHANGED <<setting, next, sending, outbound>>, NothingUnprotectedLeaves'
  PROVE  GuardInv'
<1>1. GuardType'
  BY DEF GuardInv, GuardType, Ended
<1>2. (BeforeClassification /\ Asking /\ Classifying /\ LateSenders /\ Embedding /\ Waiting)'
  BY DEF GuardInv, BeforeClassification, Asking, Classifying, LateSenders, Embedding, Waiting,
         Batches, External
<1>3. setting.eligible = Items /\ \A i \in Items : IsClean(i)
  BY SettingFacts DEF GuardInv, GuardType, Embedding
<1>4. JudgedByItsOwnFields'
  BY <1>3 DEF JudgedByItsOwnFields, IsClean, External
<1>5. QED
  BY <1>1, <1>2, <1>4 DEF GuardInv

\* What is protected goes on: to the provider or to the classification.
LEMMA ProtectedStep ==
  ASSUME GuardInv, stage \in {"query", "fields", "chunks"}, NEW t, Protected(t),
         IsSequence(t), Len(t) > 0, Approved, Sendable(t), SameInstructions(t, Texts),
         UNCHANGED <<setting, next, sending>>
  PROVE  GuardInv'
<1>1. asked' = FALSE
  BY DEF Protected
<1>2. Send("provider", t) => NothingUnprotectedLeaves'
  <2> SUFFICES ASSUME Send("provider", t) PROVE NothingUnprotectedLeaves'
    OBVIOUS
  <2>1. /\ NothingUnprotectedLeaves /\ setting' = setting /\ "provider" \in setting.allowed
        /\ \A k \in DOMAIN t : setting.mode # "ALLOW" =>
             "pii" \notin t[k] /\ (External /\ "provider" # "dlp" => "name" \notin t[k])
    BY DEF GuardInv, Approved, Sendable, HasNone
  <2>2. QED
    BY <2>1, SendKeeps
<1>3. CASE stage = "query"
  <2>1. /\ stage' = "fields" /\ Send("provider", t)
        /\ UNCHANGED <<outbound, results, released>>
    BY <1>3 DEF Protected
  <2>2. GuardType'
    BY <1>1, <1>3, <2>1 DEF GuardInv, GuardType, Ended
  <2>3. BeforeClassification'
    BY <1>3, <2>1 DEF GuardInv, BeforeClassification
  <2>4. (Asking /\ Classifying /\ LateSenders /\ Embedding /\ Waiting)'
    BY <1>1, <2>1 DEF GuardInv, Asking, Classifying, LateSenders, Embedding, Waiting, External
  <2>5. JudgedByItsOwnFields'
    BY <2>1 DEF JudgedByItsOwnFields
  <2>6. QED
    BY <1>2, <2>1, <2>2, <2>3, <2>4, <2>5 DEF GuardInv
<1>4. CASE stage = "chunks"
  BY <1>1, <1>2, <1>4, DoneAfterChunks DEF Protected
<1>5. CASE stage = "fields" /\ setting.environment = "overridden"
  <2>1. Fail
    BY <1>1, <1>5 DEF Protected, Fail
  <2>2. QED
    BY <2>1, FailStep
<1>6. CASE stage = "fields" /\ setting.environment # "overridden"
  <2>1. /\ stage' = "classify" /\ outbound' = t /\ results' = NoAnswers(t)
        /\ UNCHANGED <<released, sent>>
    BY <1>6 DEF Protected
  <2>2. GuardType'
    <3>1. IsSequence(outbound)'
      BY <2>1 DEF IsSequence
    <3>2. QED
      BY <1>1, <1>6, <2>1, <3>1 DEF GuardInv, GuardType
  <2>3. /\ DOMAIN results' = 1..BatchesOf(Len(t))
        /\ \A b \in 1..BatchesOf(Len(t)) : results'[b] = <<>>
    BY <2>1 DEF NoAnswers, BatchesOf
  <2>4. Batches' = BatchesOf(Len(t))
    BY <2>1 DEF Batches, BatchesOf
  <2>5. Texts = AllFields
    BY <1>6, TextsInSequence DEF GuardInv, GuardType
  <2>6. AllFields' = AllFields
    BY DEF AllFields, Eligible
  <2>7. \A w \in Senders : sending'[w] = 0
    BY <1>6 DEF GuardInv, BeforeClassification
  <2>8. Classifying'
    <3>1. Approved' /\ Sendable(outbound)' /\ Len(outbound') > 0
      BY <2>1 DEF Approved, Sendable, HasNone, External
    <3>2. SameInstructions(outbound, AllFields)'
      BY <2>1, <2>5, <2>6 DEF SameInstructions
    <3>3. \A b \in 1..Batches' : AnswerIsOwn(b)'
      BY <2>3, <2>4 DEF AnswerIsOwn
    <3>4. QED
      BY <2>3, <2>4, <2>7, <3>1, <3>2, <3>3 DEF Classifying
  <2>9. (BeforeClassification /\ Asking /\ LateSenders /\ Embedding /\ Waiting)'
    BY <1>1, <2>1, <2>7
    DEF BeforeClassification, Asking, LateSenders, Embedding, Waiting
  <2>10. NothingUnprotectedLeaves' /\ JudgedByItsOwnFields'
    BY <2>1 DEF GuardInv, NothingUnprotectedLeaves, JudgedByItsOwnFields, External
  <2>11. QED
    BY <2>2, <2>8, <2>9, <2>10 DEF GuardInv
<1>7. QED
  BY <1>3, <1>4, <1>5, <1>6

LEMMA ProtectStep == ASSUME GuardInv, Protect PROVE GuardInv'
<1>1. /\ stage \in {"query", "fields", "chunks"} /\ ~asked
      /\ UNCHANGED <<setting, next, sending>>
  BY DEF Protect
<1>2. setting \in Settings
  BY DEF GuardInv, GuardType
<1>3. IsSequence(Texts)
  BY <1>1, <1>2, TextsInSequence
<1>4. Texts # <<>> => Len(Texts) > 0
  BY <1>3 DEF IsSequence
<1> DEFINE t == [k \in DOMAIN Texts |-> ProtectAiOutbound(Texts[k])]
<1>5. CASE Texts = <<>>
  <2>1. stage' = "done" /\ UNCHANGED <<outbound, asked, results, released, sent>>
    BY <1>5 DEF Protect
  <2>2. stage # "query"
    BY <1>2, <1>5, TextsInSequence
  <2>3. setting.eligible = {}
    <3>1. /\ Cardinality(setting.eligible) * Cardinality(Fields) = 0 \/ Cardinality(Items) = 0
      BY <1>1, <1>2, <1>5, <2>2, TextsInSequence, FieldsInSequence
    <3>2. Cardinality(Fields) \in Nat \ {0} /\ Cardinality(Items) \in Nat
      BY NumberingAssumption, FS_CardinalityType
    <3>3. Cardinality(setting.eligible) \in Nat
      BY <1>2, FieldsInSequence
    <3>4. CASE Cardinality(Items) = 0
      BY <1>2, <3>4, NumberingAssumption, SettingFacts
    <3>5. CASE Cardinality(setting.eligible) * Cardinality(Fields) = 0
      <4>1. Cardinality(setting.eligible) = 0
        BY <3>2, <3>3, <3>5
      <4>2. IsFiniteSet(setting.eligible)
        BY <1>2, SettingFacts, NumberingAssumption, FS_Subset
      <4>3. QED
        BY <4>1, <4>2, FS_EmptySet
    <3>6. QED
      BY <3>1, <3>4, <3>5
  <2>4. released = {}
    BY <1>1 DEF GuardInv, GuardType
  <2>5. GuardType'
    BY <1>1, <2>1 DEF GuardInv, GuardType, Ended
  <2>6. (BeforeClassification /\ Asking /\ Classifying /\ LateSenders /\ Embedding)'
    BY <1>1, <2>1 DEF BeforeClassification, Asking, Classifying, LateSenders, Embedding
  <2>10. Waiting'
    BY <1>1, <2>1, <2>2
    DEF GuardInv, BeforeClassification, Waiting, Batches, External
  <2>7. NothingUnprotectedLeaves'
    BY <1>1, <2>1 DEF GuardInv, NothingUnprotectedLeaves, External
  <2>8. JudgedByItsOwnFields'
    BY <1>1, <2>1, <2>3, <2>4 DEF JudgedByItsOwnFields
  <2>9. QED
    BY <2>5, <2>6, <2>7, <2>8, <2>10 DEF GuardInv
<1>6. CASE Texts # <<>> /\ Forbidden
  BY <1>1, <1>6, FailStep DEF Protect
<1>7. CASE Texts # <<>> /\ ~Forbidden
  <2>1. /\ IsSequence(t) /\ Len(t) > 0
        /\ Approved /\ LocallyProtected(t) /\ SameInstructions(t, Texts)
    BY <1>2, <1>3, <1>4, <1>7, LocalProtection DEF Forbidden
  <2>2. CASE External
    <3>1. /\ asked' = TRUE /\ outbound' = t /\ Send("dlp", t)
          /\ UNCHANGED <<stage, results, released>>
      BY <1>7, <2>2 DEF Protect
    <3> HIDE DEF t
    <3>2. "dlp" \in setting.allowed
      BY <1>7, <2>2 DEF Forbidden
    <3>3. NothingUnprotectedLeaves'
      <4>1. \A k \in DOMAIN t : setting.mode # "ALLOW" =>
              "pii" \notin t[k] /\ (External /\ "dlp" # "dlp" => "name" \notin t[k])
        BY <2>1 DEF LocallyProtected, HasNone
      <4>2. QED
        BY <1>1, <2>1, <3>1, <3>2, <4>1, SendKeeps DEF GuardInv
    <3>4. GuardType'
      <4>1. IsSequence(outbound)'
        BY <2>1, <3>1 DEF IsSequence
      <4>2. QED
        BY <1>1, <3>1, <4>1 DEF GuardInv, GuardType
    <3>5. Texts' = Texts
      BY <1>1, <3>1 DEF Texts, AllFields, Eligible
    <3>6. Asking'
      <4>1. (Approved /\ External)' /\ LocallyProtected(outbound)'
        BY <1>1, <2>1, <2>2, <3>1 DEF Approved, External, LocallyProtected, HasNone
      <4>2. SameInstructions(outbound, Texts)'
        BY <2>1, <3>1, <3>5 DEF SameInstructions
      <4>3. stage = "chunks" => Len(t) = Cardinality(Items)
        BY <1>2, <1>3, <1>7, LocalProtection, TextsInSequence DEF Forbidden, t
      <4>4. QED
        BY <1>1, <2>1, <3>1, <4>1, <4>2, <4>3 DEF Asking
    <3>7. Embedding' /\ Waiting'
      <4>1. stage = "chunks" => Batches' = BatchesOf(Cardinality(Items))
        <5>1. stage = "chunks" => Len(t) = Cardinality(Items)
          BY <1>2, <1>3, <1>7, LocalProtection, TextsInSequence DEF Forbidden, t
        <5>2. QED
          BY <3>1, <5>1 DEF Batches, BatchesOf
      <4>2. QED
        BY <1>1, <3>1, <4>1
        DEF GuardInv, Embedding, Waiting, IsClean, External, BatchesOf
    <3>8. (BeforeClassification /\ Classifying /\ LateSenders)'
      BY <1>1, <3>1 DEF GuardInv, BeforeClassification, Classifying, LateSenders
    <3>9. JudgedByItsOwnFields'
      BY <1>1, <3>1 DEF JudgedByItsOwnFields
    <3>10. QED
      BY <3>3, <3>4, <3>6, <3>7, <3>8, <3>9 DEF GuardInv
  <2>3. CASE ~External
    <3>1. Protected(t)
      BY <1>7, <2>3 DEF Protect
    <3>2. Sendable(t)
      BY <2>1, <2>3 DEF Sendable, LocallyProtected
    <3> HIDE DEF t
    <3>3. QED
      BY <1>1, <2>1, <3>1, <3>2, ProtectedStep
  <2>4. QED
    BY <2>2, <2>3
<1>8. QED
  BY <1>5, <1>6, <1>7

LEMMA AnswerDlpStep == ASSUME GuardInv, AnswerDlp \/ DlpUnavailable PROVE GuardInv'
<1>1. asked /\ UNCHANGED <<setting, next, sending>>
  BY DEF AnswerDlp, DlpUnavailable
<1>2. /\ stage \in {"query", "fields", "chunks"} /\ Approved /\ Len(outbound) > 0
      /\ setting \in Settings /\ IsSequence(outbound)
  BY <1>1 DEF GuardInv, GuardType, Asking
<1> DEFINE t == [k \in DOMAIN outbound |-> AfterDlp(outbound[k])]
<1>3. CASE Fail
  BY <1>1, <1>2, <1>3, FailStep
<1>4. CASE RefusedForPii /\ stage = "chunks"
  <2>1. /\ stage' = "done" /\ released' = Items /\ asked' = FALSE
        /\ UNCHANGED <<outbound, results, sent>>
    BY <1>4 DEF RefusedForPii
  <2>2. NothingUnprotectedLeaves'
    BY <1>1, <2>1 DEF GuardInv, NothingUnprotectedLeaves, External
  <2>3. QED
    BY <1>1, <1>4, <2>1, <2>2, DoneAfterChunks
<1>5. CASE /\ ~(setting.mode = "BLOCK" /\ \E k \in DOMAIN outbound : DlpFinds(outbound[k]))
           /\ Protected(t)
  <2>1. IsSequence(t) /\ Len(t) > 0 /\ Sendable(t) /\ SameInstructions(t, Texts)
    BY <1>1, <1>2, <1>5, DlpProtection DEF GuardInv
  <2> HIDE DEF t
  <2>2. QED
    BY <1>1, <1>2, <1>5, <2>1, ProtectedStep
<1>6. QED
  BY <1>3, <1>4, <1>5 DEF AnswerDlp, DlpUnavailable, RefusedForPii

\* What a sender takes was protected.
LEMMA TakeBatchStep == ASSUME GuardInv, NEW w \in Senders, TakeBatch(w) PROVE GuardInv'
<1>1. /\ External /\ stage \in {"classify", "failed"} /\ results # <<>> /\ next <= Batches
      /\ sending' = [sending EXCEPT ![w] = next] /\ next' = next + 1
      /\ UNCHANGED <<setting, stage, outbound, asked, results, released>>
  BY DEF TakeBatch
<1>2. /\ next \in Nat \ {0} /\ sending \in [Senders -> Nat] /\ IsSequence(outbound)
  BY DEF GuardInv, GuardType
<1>3. Batches \in Nat
  BY <1>2, BatchesCover DEF IsSequence, Batches, BatchesOf
<1>4. Approved /\ Sendable(outbound) /\ Len(outbound) > 0
  BY <1>1 DEF GuardInv, Classifying, LateSenders
<1>5. next \in 1..Batches
  BY <1>1, <1>2, <1>3
<1> DEFINE t == [k \in BatchRange(next) |-> outbound[k]]
<1>6. NothingUnprotectedLeaves'
  <2>1. CASE EndpointAllowed
    <3>1. Send("classifier", t) /\ "classifier" \in setting.allowed
      BY <1>1, <2>1 DEF TakeBatch, EndpointAllowed
    <3>2. BatchRange(next) \subseteq DOMAIN outbound
      BY <1>2, <1>4, <1>5, BatchesAreInside
    <3>3. \A k \in DOMAIN t : setting.mode # "ALLOW" =>
            "pii" \notin t[k] /\ (External /\ "classifier" # "dlp" => "name" \notin t[k])
      BY <1>4, <3>2 DEF Sendable, HasNone
    <3> HIDE DEF t
    <3>4. QED
      BY <1>1, <1>4, <3>1, <3>3, SendKeeps DEF GuardInv
  <2>2. CASE ~EndpointAllowed
    BY <1>1, <2>2 DEF TakeBatch, GuardInv, NothingUnprotectedLeaves, External
  <2>3. QED
    BY <2>1, <2>2
<1>7. GuardType'
  <2>1. next' \in Nat \ {0} /\ sending' \in [Senders -> Nat]
    BY <1>1, <1>2
  <2>2. QED
    BY <1>1, <2>1 DEF GuardInv, GuardType
<1>8. Batches' = Batches /\ AllFields' = AllFields
  BY <1>1 DEF Batches, AllFields, Eligible
<1>9. LateSenders'
  BY <1>1, <1>2, <1>3, <1>4, <1>8 DEF LateSenders, Approved, Sendable, HasNone, External
<1>10. Classifying'
  <2>1. SUFFICES ASSUME stage = "classify" PROVE Classifying'
    BY <1>1 DEF Classifying
  <2>2. /\ SameInstructions(outbound, AllFields) /\ DOMAIN results = 1..Batches
        /\ \A b \in 1..Batches : AnswerIsOwn(b)
        /\ \A v \in Senders : sending[v] \in 1..Batches => sending[v] < next
    BY <2>1 DEF GuardInv, Classifying
  <2>3. \A b \in 1..Batches : AnswerIsOwn(b)'
    <3>1. ASSUME NEW b \in 1..Batches PROVE AnswerIsOwn(b)'
      <4>1. AnswerIsOwn(b) /\ b \in Nat
        BY <1>3, <2>2
      <4>2. BatchRange(b)' = BatchRange(b)
        BY <1>1, <1>8 DEF BatchRange
      <4>3. QED
        BY <1>1, <1>2, <4>1, <4>2 DEF AnswerIsOwn
    <3>2. QED
      BY <3>1
  <2>4. \A v \in Senders : sending'[v] \in 1..Batches => sending'[v] < next'
    BY <1>1, <1>2, <2>2
  <2>5. (Approved /\ Len(outbound) > 0)' /\ Sendable(outbound)'
    BY <1>1, <1>4 DEF Approved, Sendable, HasNone, External
  <2>6. SameInstructions(outbound, AllFields)'
    BY <1>1, <1>8, <2>2 DEF SameInstructions
  <2>7. QED
    BY <1>1, <1>8, <2>2, <2>3, <2>4, <2>5, <2>6 DEF Classifying
<1>11. (BeforeClassification /\ Embedding /\ Waiting)'
  <2>1. Waiting'
    <3>1. SUFFICES ASSUME stage = "classify", NEW v \in Senders, sending'[v] \in 1..Batches
                   PROVE  /\ results[sending'[v]] = <<>>
                          /\ \A u \in Senders \ {v} : sending'[u] # sending'[v]
      BY <1>1, <1>8 DEF Waiting, External
    <3>2. /\ results[next] = <<>>
          /\ \A u \in Senders : sending[u] \in 1..Batches => sending[u] # next
      <4>1. AnswerIsOwn(next) /\ ~(next < next)
        BY <1>2, <1>5, <3>1 DEF GuardInv, Classifying
      <4>2. \A u \in Senders : sending[u] \in 1..Batches => sending[u] < next
        BY <3>1 DEF GuardInv, Classifying
      <4>3. QED
        BY <1>2, <4>1, <4>2 DEF AnswerIsOwn
    <3>3. \A u \in Senders : sending'[u] = IF u = w THEN next ELSE sending[u]
      BY <1>1, <1>2
    <3>4. QED
      BY <1>5, <3>1, <3>2, <3>3 DEF GuardInv, Waiting
  <2>2. QED
    BY <1>1, <2>1 DEF BeforeClassification, Embedding
<1>12. Asking'
  BY <1>1 DEF GuardInv, Asking
<1>13. JudgedByItsOwnFields'
  BY <1>1 DEF JudgedByItsOwnFields, GuardInv
<1>14. QED
  BY <1>6, <1>7, <1>9, <1>10, <1>11, <1>12, <1>13 DEF GuardInv

\* An answer is stored where its batch was taken from.
LEMMA AnswerBatchStep == ASSUME GuardInv, NEW w \in Senders, AnswerBatch(w) PROVE GuardInv'
<1> DEFINE b == sending[w]
<1>1. PICK model \in Models :
        results' = [results EXCEPT ![b] =
          [ model |-> model,
            lures |-> [j \in 1..Cardinality(BatchRange(b)) |->
                         "lure" \in outbound[BatchSize * (b - 1) + j]] ]]
  BY DEF AnswerBatch, Slot
<1>2. /\ b \in 1..Batches /\ sending' = [sending EXCEPT ![w] = 0]
      /\ UNCHANGED <<setting, stage, outbound, asked, next, released, sent>>
  BY DEF AnswerBatch
<1> HIDE DEF b
<1>3. GuardType'
  <2>1. sending' \in [Senders -> Nat] /\ IsSequence(outbound)'
    BY <1>2 DEF GuardInv, GuardType, IsSequence
  <2>2. QED
    BY <1>2, <2>1 DEF GuardInv, GuardType
<1>4. Batches' = Batches /\ AllFields' = AllFields
  BY <1>2 DEF Batches, AllFields, Eligible
<1>5. Classifying'
  <2>1. SUFFICES ASSUME stage = "classify" PROVE Classifying'
    BY <1>2 DEF Classifying
  <2>2. /\ Approved /\ Sendable(outbound) /\ Len(outbound) > 0
        /\ SameInstructions(outbound, AllFields) /\ DOMAIN results = 1..Batches
        /\ \A c \in 1..Batches : AnswerIsOwn(c)
        /\ \A v \in Senders : sending[v] \in 1..Batches => sending[v] < next
    BY <2>1 DEF GuardInv, Classifying
  <2>3. DOMAIN results' = 1..Batches
    BY <1>1, <2>2
  <2>4. ASSUME NEW c \in 1..Batches PROVE AnswerIsOwn(c)'
    <3>1. BatchRange(c)' = BatchRange(c)
      BY <1>2, <1>4 DEF BatchRange
    <3>2. CASE c = b
      <4>1. b < next
        BY <1>2, <2>2 DEF b
      <4>2. results'[c].lures = [j \in 1..Cardinality(BatchRange(c)) |->
                                   "lure" \in outbound[BatchSize * (c - 1) + j]]
        BY <1>1, <2>2, <3>2
      <4>3. QED
        BY <1>2, <3>1, <3>2, <4>1, <4>2 DEF AnswerIsOwn
    <3>3. CASE c # b
      <4>1. results'[c] = results[c]
        BY <1>1, <2>2, <3>3
      <4>2. QED
        BY <1>2, <2>2, <3>1, <4>1 DEF AnswerIsOwn
    <3>4. QED
      BY <3>2, <3>3
  <2>5. \A v \in Senders : sending'[v] \in 1..Batches => sending'[v] < next'
    BY <1>2, <2>2 DEF GuardInv, GuardType
  <2>6. (Approved /\ Len(outbound) > 0)' /\ Sendable(outbound)'
    BY <1>2, <2>2 DEF Approved, Sendable, HasNone, External
  <2>7. SameInstructions(outbound, AllFields)'
    BY <1>2, <1>4, <2>2 DEF SameInstructions
  <2>8. QED
    BY <1>2, <1>4, <2>3, <2>4, <2>5, <2>6, <2>7 DEF Classifying
<1>6. results = <<>> => results' = <<>>
  BY <1>1
<1>7. BeforeClassification'
  <2>1. SUFFICES ASSUME stage \in {"query", "fields"}
                 PROVE  results' = <<>> /\ \A v \in Senders : sending'[v] = 0
    BY <1>2 DEF GuardInv, BeforeClassification
  <2>2. QED
    BY <1>2, <1>6, <2>1 DEF GuardInv, GuardType, BeforeClassification
<1>8. LateSenders'
  BY <1>2, <1>4, <1>6
  DEF GuardInv, LateSenders, Approved, Sendable, HasNone, External
<1>9. (Asking /\ Embedding)'
  <2>1. Texts' = Texts
    BY <1>2, <1>4 DEF Texts
  <2>2. Asking'
    BY <1>2, <2>1
    DEF GuardInv, Asking, Approved, LocallyProtected, HasNone, External, SameInstructions
  <2>3. Embedding'
    BY <1>2, <1>4 DEF GuardInv, Embedding, IsClean, External, BatchesOf
  <2>4. QED
    BY <2>2, <2>3
<1>10. NothingUnprotectedLeaves' /\ JudgedByItsOwnFields'
  BY <1>2 DEF GuardInv, NothingUnprotectedLeaves, JudgedByItsOwnFields, External
<1>11. Waiting'
  <2>1. \A v \in Senders : sending'[v] = IF v = w THEN 0 ELSE sending[v]
    BY <1>2 DEF GuardInv, GuardType
  <2>2. \A c : c # b => results'[c] = results[c]
    BY <1>1
  <2>3. stage = "classify" => \A v \in Senders \ {w} : sending[v] # b
    BY <1>2 DEF GuardInv, Waiting, b
  <2>4. QED
    BY <1>2, <1>4, <2>1, <2>2, <2>3 DEF GuardInv, Waiting, External
<1>12. QED
  BY <1>3, <1>5, <1>7, <1>8, <1>9, <1>10, <1>11 DEF GuardInv

\* A batch that fails is never answered, and its sender takes no other.
LEMMA BatchFailsStep == ASSUME GuardInv, NEW w \in Senders, BatchFails(w) PROVE GuardInv'
<1>1. /\ sending[w] \in 1..Batches /\ sending' = [sending EXCEPT ![w] = Batches + 1]
      /\ stage' = "failed"
      /\ UNCHANGED <<setting, outbound, asked, next, results, released, sent>>
  BY DEF BatchFails
<1>2. /\ stage \in {"classify", "failed"} /\ External
      /\ sending \in [Senders -> Nat]
  BY <1>1 DEF GuardInv, GuardType, BeforeClassification, Waiting, Ended
<1>3. Batches \in Nat /\ Batches' = Batches
  BY <1>1, BatchesCover DEF GuardInv, GuardType, IsSequence, Batches, BatchesOf
<1>4. GuardType'
  <2>1. sending' \in [Senders -> Nat] /\ IsSequence(outbound)'
    BY <1>1, <1>2, <1>3 DEF GuardInv, GuardType, IsSequence
  <2>2. QED
    BY <1>1, <1>2, <2>1 DEF GuardInv, GuardType, Ended
<1>5. (BeforeClassification /\ Classifying /\ Embedding)'
  BY <1>1 DEF BeforeClassification, Classifying, Embedding
<1>6. Asking' /\ Waiting'
  BY <1>1, <1>2 DEF GuardInv, Asking, Waiting, External
<1>7. LateSenders'
  BY <1>1, <1>2, <1>3
  DEF GuardInv, Classifying, LateSenders, Approved, Sendable, HasNone, External
<1>8. NothingUnprotectedLeaves' /\ JudgedByItsOwnFields'
  BY <1>1 DEF GuardInv, NothingUnprotectedLeaves, JudgedByItsOwnFields, External
<1>9. QED
  BY <1>4, <1>5, <1>6, <1>7, <1>8 DEF GuardInv

\* The answers in the order of the batches are those to the texts in theirs.
LEMMA CombinedIsOwn ==
  ASSUME IsSequence(outbound), Len(outbound) > 0,
         \A b \in 1..Batches :
           results[b].lures = [j \in 1..Cardinality(BatchRange(b)) |->
                                 "lure" \in outbound[BatchSize * (b - 1) + j]]
  PROVE  \A k \in DOMAIN outbound : Combined[k] = ("lure" \in outbound[k])
<1> DEFINE n == Len(outbound)
           s == [b \in 1..Batches |-> results[b].lures]
           Size(b) == Cardinality(BatchRange(b))
<1>1. /\ n \in Nat /\ n > 0 /\ DOMAIN outbound = 1..n
      /\ BatchSize \in Nat \ {0} /\ BatchSize \in Nat /\ BatchSize > 0
  BY NumberingAssumption DEF IsSequence
<1>2. Batches = BatchesOf(n)
  BY DEF Batches, BatchesOf
<1>3. Batches \in Nat \ {0} /\ n <= BatchSize * Batches
  BY <1>1, <1>2, BatchesCover
<1>4. ASSUME NEW b \in 1..Batches
      PROVE  /\ Size(b) \in Nat /\ Size(b) <= BatchSize
             /\ Size(b) = (IF b = Batches THEN n ELSE BatchSize * b) - BatchSize * (b - 1)
  BY BatchesAreInside
<1>5. IsSequence(s) /\ Len(s) = Batches
  <2>1. s = [b \in 1..Batches |-> s[b]]
    OBVIOUS
  <2> HIDE DEF s
  <2>2. QED
    BY <1>3, <2>1, TuplesAreSequences
<1>6. ASSUME NEW b \in 1..Batches
      PROVE  /\ IsSequence(s[b]) /\ Len(s[b]) = Size(b)
             /\ \A j \in 1..Size(b) :
                  s[b][j] = ("lure" \in outbound[BatchSize * (b - 1) + j])
  <2>1. s[b] = [j \in 1..Size(b) |-> "lure" \in outbound[BatchSize * (b - 1) + j]]
    OBVIOUS
  <2> HIDE DEF s, Size
  <2>2. /\ s[b] = [j \in 1..Size(b) |-> s[b][j]]
        /\ \A j \in 1..Size(b) :
             s[b][j] = ("lure" \in outbound[BatchSize * (b - 1) + j])
    BY <2>1
  <2>3. QED
    BY <1>4, <2>2, TuplesAreSequences
<1> HIDE DEF s, Size, n
<1>7. \A b \in 1..(Batches - 1) : Size(b) = BatchSize
  <2>1. SUFFICES ASSUME NEW b \in 1..(Batches - 1) PROVE Size(b) = BatchSize
    OBVIOUS
  <2>2. b \in 1..Batches /\ b # Batches /\ b \in Nat
    BY <1>3
  <2>3. Size(b) = BatchSize * b - BatchSize * (b - 1)
    BY <1>4, <2>2
  <2>4. QED
    BY <1>1, <2>2, <2>3
<1>8. \A b \in 1..Batches : \A j \in 1..Size(b) :
        FlattenSeq(s)[BatchSize * (b - 1) + j] = s[b][j]
  <2>1. \A b \in 1..Batches : IsSequence(s[b]) /\ Len(s[b]) <= BatchSize
    BY <1>4, <1>6
  <2>2. \A b \in 1..(Batches - 1) : Len(s[b]) = BatchSize
    BY <1>3, <1>6, <1>7
  <2>3. \A b \in 1..Batches : \A j \in 1..Len(s[b]) :
          FlattenSeq(s)[BatchSize * (b - 1) + j] = s[b][j]
    <3>1. InBatches(s, Batches, BatchSize)
      BY <1>1, <1>3, <1>5, <2>1, <2>2 DEF InBatches
    <3>2. QED
      BY <3>1, FlattenBatches
  <2>4. QED
    BY <1>6, <2>3
<1>9. Combined = FlattenSeq(s)
  BY DEF Combined, s
<1>10. ASSUME NEW k \in 1..n PROVE Combined[k] = ("lure" \in outbound[k])
  <2> DEFINE q == (k - 1) \div BatchSize
             r == (k - 1) % BatchSize
             b == q + 1
             j == r + 1
  <2>0. k - 1 \in Nat
    BY <1>1
  <2>9. q \in Nat /\ r \in 0..(BatchSize - 1) /\ k - 1 = BatchSize * q + r
    BY <1>1, <2>0, Division
  <2> HIDE DEF q, r
  <2>1. /\ b - 1 \in Nat /\ j - 1 \in 0..(BatchSize - 1) /\ b \in Nat /\ j \in Nat
        /\ k - 1 = BatchSize * (b - 1) + (j - 1)
    BY <1>1, <2>9
  <2> HIDE DEF b, j
  <2>2. b \in Nat /\ b > 0 /\ j \in Nat /\ j > 0 /\ BatchSize * (b - 1) \in Nat /\ k \in Nat
    BY <1>1, <2>1
  <2>3. k = BatchSize * (b - 1) + j
    BY <2>1, <2>2
  <2>4. b <= Batches
    <3>1. SUFFICES ASSUME Batches <= b - 1 PROVE FALSE
      BY <1>3, <2>2
    <3>2. BatchSize * Batches <= BatchSize * (b - 1)
      BY <1>1, <1>3, <2>1, <3>1
    <3>3. QED
      BY <1>1, <1>3, <2>2, <2>3, <3>2
  <2>5. b \in 1..Batches
    BY <1>3, <2>2, <2>4
  <2>6. j \in 1..Size(b)
    <3>1. CASE b = Batches
      <4>1. Size(b) = n - BatchSize * (b - 1)
        BY <1>4, <2>5, <3>1
      <4> DEFINE before == BatchSize * (b - 1)
      <4>2. before \in Nat /\ k = before + j /\ k <= n /\ Size(b) = n - before
        BY <1>1, <2>2, <2>3, <4>1
      <4> HIDE DEF before
      <4>3. QED
        BY <1>1, <2>2, <4>2
    <3>2. CASE b # Batches
      BY <1>1, <1>3, <1>7, <2>1, <2>2, <2>5, <3>2
    <3>3. QED
      BY <3>1, <3>2
  <2>7. FlattenSeq(s)[BatchSize * (b - 1) + j] =
          ("lure" \in outbound[BatchSize * (b - 1) + j])
    BY <1>6, <1>8, <2>5, <2>6
  <2>8. QED
    BY <1>9, <2>3, <2>7
<1>11. QED
  BY <1>1, <1>10

\* A field is suspicious by what it contains itself.
LEMMA SuspicionIsOwn ==
  ASSUME GuardInv, stage = "classify", External => \A b \in 1..Batches : results[b] # <<>>
  PROVE  /\ DOMAIN outbound = DOMAIN AllFields
         /\ \A k \in DOMAIN AllFields :
              Suspicious(k) <=> \/ "order" \in AllFields[k]
                                \/ External /\ "lure" \in AllFields[k]
         /\ \A i \in setting.eligible :
              IsClean(i) <=> \A f \in Fields : ~Suspicious(PositionOf(i, f))
<1>1. /\ IsSequence(outbound) /\ Len(outbound) > 0 /\ setting \in Settings
      /\ SameInstructions(outbound, AllFields)
      /\ \A b \in 1..Batches : AnswerIsOwn(b)
  BY DEF GuardInv, GuardType, Classifying
<1>2. External => \A k \in DOMAIN outbound : Combined[k] = ("lure" \in outbound[k])
  <2>1. SUFFICES ASSUME External
                 PROVE  \A k \in DOMAIN outbound : Combined[k] = ("lure" \in outbound[k])
    OBVIOUS
  <2>2. \A b \in 1..Batches :
          results[b].lures = [j \in 1..Cardinality(BatchRange(b)) |->
                                "lure" \in outbound[BatchSize * (b - 1) + j]]
    BY <1>1, <2>1 DEF AnswerIsOwn
  <2>3. QED
    BY <1>1, <2>2, CombinedIsOwn
<1>3. DOMAIN outbound = DOMAIN AllFields
  BY <1>1 DEF SameInstructions
<1>4. ASSUME NEW k \in DOMAIN AllFields
      PROVE  Suspicious(k) <=> \/ "order" \in AllFields[k]
                               \/ External /\ "lure" \in AllFields[k]
  <2>1. /\ "order" \in outbound[k] <=> "order" \in AllFields[k]
        /\ "lure" \in outbound[k] <=> "lure" \in AllFields[k]
    BY <1>1, <1>3 DEF SameInstructions
  <2>2. External => Combined[k] = ("lure" \in outbound[k])
    BY <1>2, <1>3
  <2>3. QED
    BY <2>1, <2>2, Zenon DEF Suspicious, DetectUntrustedSourceInstruction
<1>5. ASSUME NEW i \in setting.eligible
      PROVE  IsClean(i) <=> \A f \in Fields : ~Suspicious(PositionOf(i, f))
  <2>1. \A f \in Fields :
          /\ PositionOf(i, f) \in DOMAIN AllFields
          /\ AllFields[PositionOf(i, f)] = setting.content.items[i][f]
    BY <1>1, FieldsInSequence
  <2>2. QED
    BY <1>4, <2>1, Zenon DEF IsClean
<1>6. QED
  BY <1>3, <1>4, <1>5

\* When all batches are answered, evidence is judged by its own fields.
LEMMA JudgeStep == ASSUME GuardInv, Judge PROVE GuardInv'
<1>1. /\ stage = "classify" /\ (External => \A b \in 1..Batches : results[b] # <<>>)
      /\ UNCHANGED <<setting, outbound, asked, next, sending, results, sent>>
  BY DEF Judge
<1>2. /\ IsSequence(outbound) /\ Len(outbound) > 0 /\ setting \in Settings
      /\ Approved /\ Sendable(outbound) /\ SameInstructions(outbound, AllFields)
      /\ \A b \in 1..Batches : AnswerIsOwn(b)
      /\ next \in Nat \ {0} /\ sending \in [Senders -> Nat]
  BY <1>1 DEF GuardInv, GuardType, Classifying
<1>3. /\ DOMAIN outbound = DOMAIN AllFields
      /\ \A k \in DOMAIN AllFields :
           Suspicious(k) <=> \/ "order" \in AllFields[k]
                             \/ External /\ "lure" \in AllFields[k]
      /\ \A i \in setting.eligible :
           IsClean(i) <=> \A f \in Fields : ~Suspicious(PositionOf(i, f))
  BY <1>1, SuspicionIsOwn
<1>4. Batches' = Batches /\ External' = External /\ \A i : IsClean(i)' = IsClean(i)
  BY <1>1 DEF Batches, External, IsClean
<1>5. Len(outbound) \in Nat /\ Batches = BatchesOf(Len(outbound)) /\ Batches \in Nat \ {0}
  <2>1. Len(outbound) \in Nat /\ Batches = BatchesOf(Len(outbound))
    BY <1>2 DEF IsSequence, Batches, BatchesOf
  <2>2. QED
    BY <1>2, <2>1, BatchesCover
<1>6. \A w \in Senders : sending[w] \notin 1..Batches
  BY <1>1, <1>5 DEF GuardInv, Waiting
<1>7. NothingUnprotectedLeaves'
  BY <1>1, <1>4 DEF GuardInv, NothingUnprotectedLeaves
<1>8. /\ stage' \in {"done", "failed", "blocked", "chunks"}
      /\ stage' # "done" => released' = {}
  <2>1. released = {}
    BY <1>1 DEF GuardInv, GuardType
  <2>2. QED
    BY <2>1 DEF Judge
<1>9. GuardType'
  <2>1. IsSequence(outbound)'
    BY <1>1, <1>2 DEF IsSequence
  <2>2. asked \in BOOLEAN
    BY DEF GuardInv, GuardType
  <2>3. QED
    BY <1>1, <1>2, <1>8, <2>1, <2>2 DEF GuardType, Ended
<1>10. Asking' /\ BeforeClassification' /\ Classifying'
  BY <1>1, <1>8 DEF GuardInv, Asking, BeforeClassification, Classifying
<1>11. LateSenders'
  BY <1>1, <1>2, <1>4 DEF LateSenders, Approved, Sendable, HasNone
<1>12. CASE ModelChanged
  <2>1. stage' = "failed"
    BY <1>12 DEF Judge
  <2>2. Embedding' /\ Waiting' /\ JudgedByItsOwnFields'
    BY <1>1, <1>4, <2>1 DEF GuardInv, Embedding, Waiting, JudgedByItsOwnFields
  <2>3. QED
    BY <1>7, <1>9, <1>10, <1>11, <2>2 DEF GuardInv
<1>13. CASE ~ModelChanged /\ setting.purpose = "retrieval"
  <2>1. /\ stage' = "done"
        /\ released' = {i \in setting.eligible : \A f \in Fields : ~Suspicious(PositionOf(i, f))}
    BY <1>13 DEF Judge
  <2>2. Embedding' /\ Waiting'
    BY <1>1, <1>4, <1>6, <2>1 DEF GuardInv, Embedding, Waiting
  <2>3. JudgedByItsOwnFields'
    <3>1. released' = {i \in setting.eligible : IsClean(i)}
      BY <1>3, <2>1
    <3>2. released' = {i \in setting'.eligible : IsClean(i)'}
      BY <1>1, <1>4, <3>1
    <3>3. QED
      BY <2>1, <3>2 DEF JudgedByItsOwnFields, IsClean
  <2>4. QED
    BY <1>7, <1>9, <1>10, <1>11, <2>2, <2>3 DEF GuardInv
<1>14. CASE ~ModelChanged /\ setting.purpose # "retrieval"
  <2> DEFINE Found == \/ \E k \in DOMAIN outbound : Suspicious(k)
                      \/ \E k \in DOMAIN AllFields :
                           DetectUntrustedSourceInstruction(AllFields[k])
  <2>1. stage' = IF Found THEN "blocked" ELSE "chunks"
    BY <1>14 DEF Judge
  <2>2. setting.purpose = "ingestion" /\ setting.eligible = Items
    BY <1>2, <1>14, SettingFacts
  <2>3. CASE Found
    <3>1. PICK k \in DOMAIN AllFields :
            \/ "order" \in AllFields[k]
            \/ External /\ "lure" \in AllFields[k]
      BY <1>3, <2>3 DEF DetectUntrustedSourceInstruction
    <3>2. PICK i \in Items, f \in Fields : AllFields[k] = setting.content.items[i][f]
      BY <1>2, <2>2, FieldsInSequence
    <3>3. ~IsClean(i)
      BY <3>1, <3>2 DEF IsClean
    <3>4. stage' = "blocked"
      BY <2>1, <2>3
    <3>5. JudgedByItsOwnFields'
      <4>1. ~IsClean(i)'
        BY <1>4, <3>3
      <4>2. QED
        BY <3>4, <4>1 DEF JudgedByItsOwnFields, IsClean
    <3>6. Embedding' /\ Waiting'
      BY <1>1, <1>4, <1>6, <3>4 DEF GuardInv, Embedding, Waiting
    <3>7. QED
      BY <1>7, <1>9, <1>10, <1>11, <3>5, <3>6 DEF GuardInv
  <2>4. CASE ~Found
    <3>1. stage' = "chunks"
      BY <2>1, <2>4
    <3>2. \A i \in Items : IsClean(i)
      <4>1. \A i \in Items, f \in Fields : PositionOf(i, f) \in DOMAIN outbound
        BY <1>2, <1>3, <2>2, FieldsInSequence
      <4>2. QED
        BY <1>3, <2>2, <2>4, <4>1
    <3>3. BatchesOf(Cardinality(Items)) <= Batches /\ BatchesOf(Cardinality(Items)) \in Nat
      <4> DEFINE n == Cardinality(Items)
                 m == Cardinality(Fields)
      <4>1. n \in Nat /\ m \in Nat \ {0}
        BY NumberingAssumption, FS_CardinalityType
      <4>2. Len(outbound) = n * m
        BY <1>2, <1>3, <2>2, FieldsInSequence DEF IsSequence
      <4> HIDE DEF n, m
      <4>3. n <= Len(outbound)
        BY <4>1, <4>2
      <4>4. BatchesOf(n) \in Nat /\ BatchesOf(n) <= BatchesOf(Len(outbound))
        BY <1>5, <4>1, <4>3, BatchesCover
      <4>5. QED
        BY <1>5, <4>4 DEF n
    <3>4. External => next > Batches
      <4>1. Batches \in 1..Batches
        BY <1>5
      <4>2. External => Batches < next
        BY <1>1, <1>2, <4>1 DEF AnswerIsOwn
      <4>3. QED
        BY <1>2, <1>5, <4>2
    <3>5. BatchesOf(Cardinality(Items))' = BatchesOf(Cardinality(Items))
      BY DEF BatchesOf
    <3>6. Embedding'
      BY <1>1, <1>2, <1>4, <1>5, <2>2, <3>1, <3>2, <3>3, <3>4, <3>5 DEF Embedding
    <3>7. Waiting'
      <4>1. \A w \in Senders : sending[w] \notin 1..BatchesOf(Cardinality(Items))
        BY <1>2, <1>5, <1>6, <3>3
      <4>2. QED
        BY <1>1, <1>4, <1>6, <3>1, <3>5, <4>1 DEF GuardInv, Waiting
    <3>8. JudgedByItsOwnFields'
      BY <3>1 DEF JudgedByItsOwnFields
    <3>9. QED
      BY <1>7, <1>9, <1>10, <1>11, <3>6, <3>7, <3>8 DEF GuardInv
  <2>5. QED
    BY <2>3, <2>4
<1>15. QED
  BY <1>12, <1>13, <1>14

LEMMA GuardStep == GuardInv /\ [GuardNext]_guardVars => GuardInv'
<1> SUFFICES ASSUME GuardInv, [GuardNext]_guardVars PROVE GuardInv'
  OBVIOUS
<1>1. CASE Protect
  BY <1>1, ProtectStep
<1>2. CASE AnswerDlp \/ DlpUnavailable
  BY <1>2, AnswerDlpStep
<1>3. CASE Judge
  BY <1>3, JudgeStep
<1>4. CASE \E w \in Senders : TakeBatch(w) \/ AnswerBatch(w) \/ BatchFails(w)
  BY <1>4, TakeBatchStep, AnswerBatchStep, BatchFailsStep
<1>5. CASE UNCHANGED guardVars
  <2>1. UNCHANGED <<setting, stage, outbound, asked, next, sending, results, released, sent>>
    BY <1>5 DEF guardVars
  <2>2. /\ Texts' = Texts /\ AllFields' = AllFields /\ Batches' = Batches
        /\ External' = External /\ Approved' = Approved
    BY <2>1 DEF Texts, AllFields, Eligible, Batches, External, Approved
  <2>3. \A b : AnswerIsOwn(b)' = AnswerIsOwn(b)
    BY <2>1 DEF AnswerIsOwn, BatchRange, Batches
  <2>4. /\ Sendable(outbound)' = Sendable(outbound)
        /\ LocallyProtected(outbound)' = LocallyProtected(outbound)
    BY <2>1, <2>2 DEF Sendable, LocallyProtected, HasNone
  <2>5. /\ SameInstructions(outbound, Texts)' = SameInstructions(outbound, Texts)
        /\ SameInstructions(outbound, AllFields)' = SameInstructions(outbound, AllFields)
    BY <2>1, <2>2 DEF SameInstructions
  <2>6. GuardType' /\ BeforeClassification'
    <3>1. IsSequence(outbound)' = IsSequence(outbound)
      BY <2>1 DEF IsSequence
    <3>2. QED
      BY <2>1, <3>1 DEF GuardInv, GuardType, BeforeClassification
  <2>7. Asking'
    BY <2>1, <2>2, <2>4, <2>5 DEF GuardInv, Asking
  <2>8. Classifying'
    BY <2>1, <2>2, <2>3, <2>4, <2>5 DEF GuardInv, Classifying
  <2>9. LateSenders'
    BY <2>1, <2>2, <2>4 DEF GuardInv, LateSenders
  <2>10. Embedding' /\ Waiting'
    BY <2>1, <2>2 DEF GuardInv, Embedding, Waiting, IsClean, BatchesOf
  <2>11. NothingUnprotectedLeaves' /\ JudgedByItsOwnFields'
    BY <2>1, <2>2 DEF GuardInv, NothingUnprotectedLeaves, JudgedByItsOwnFields
  <2>12. QED
    BY <2>6, <2>7, <2>8, <2>9, <2>10, <2>11 DEF GuardInv
<1>6. QED
  BY <1>1, <1>2, <1>3, <1>4, <1>5 DEF GuardNext

LEMMA GuardInvariance == GuardSpec => []GuardInv
  BY InitGuard, GuardStep, PTL DEF GuardSpec

\* Whatever a tenant's policy, the DLP service's answers and the order of the
\* senders, protectAiOutboundBatch (ai-policy.ts) and the classification let
\* nothing leave that the policy keeps: no personal data under BLOCK or REDACT,
\* nothing to a region that is not allowed, and this also after a failure.
THEOREM ProtectedOnlyLeaves == GuardSpec => []NothingUnprotectedLeaves
<1>1. GuardInv => NothingUnprotectedLeaves
  BY DEF GuardInv
<1>2. QED
  BY <1>1, GuardInvariance, PTL

\* For any number of items, fields and senders and any size of the batches,
\* classifyUntrustedSourceBatch (injection-classifier.ts) attributes each answer
\* to the text it is about: evidence is shown exactly if none of its own fields
\* carries an instruction, and a document is blocked only if one does.
THEOREM JudgedByOwn == GuardSpec => []JudgedByItsOwnFields
<1>1. GuardInv => JudgedByItsOwnFields
  BY DEF GuardInv
<1>2. QED
  BY <1>1, GuardInvariance, PTL

-----------------------------------------------------------------------------
(***************************************************************************)
(* Archive, for any records, offsets and sizes                             *)
(*                                                                         *)
(* The records accepted so far have names of their own, and their cells do *)
(* not overlap.                                                            *)
(***************************************************************************)

\* The records accepted so far have names of their own and cells of their own,
\* before the central directory; what was accepted as a whole has its parts.
Apart(r, s) == LocalEnd(r) <= s.offset \/ LocalEnd(s) <= r.offset

ArchiveInv ==
  /\ entries \in Seq(Records) /\ declared \in Nat
  /\ \A k \in 1..Len(entries) : LocalEnd(entries[k]) <= CentralOffset
  /\ \A k \in 1..Len(entries) : \A l \in 1..Len(entries) :
       k # l => entries[k].name # entries[l].name /\ Apart(entries[k], entries[l])
  /\ inspection = "accepted" /\ kind = "office" =>
       Required \subseteq NamesRead /\ TotalExpanded <= MaxTotal

LEMMA LocalEnds ==
  ASSUME NEW r \in Records
  PROVE  r.offset \in Nat /\ LocalEnd(r) \in Nat /\ r.offset < LocalEnd(r)
  BY ArchiveAssumption DEF Records, LocalEnd

LEMMA ReadArchive ==
  ASSUME ArchiveInv, ReadRecord PROVE ArchiveInv'
<1> USE DEF ArchiveInv
<1>1. inspection = "reading" /\ UNCHANGED <<kind, declared>>
  BY DEF ReadRecord
<1>2. PICK r \in Records :
        IF \/ r.flaw # "none"
           \/ r.name \in NamesRead
           \/ LocalEnd(r) > CentralOffset
           \/ Overlaps(r)
        THEN inspection' = "refused" /\ UNCHANGED entries
        ELSE entries' = Append(entries, r) /\ UNCHANGED inspection
  BY DEF ReadRecord
<1>3. CASE UNCHANGED entries /\ inspection' = "refused"
  BY <1>1, <1>3 DEF LocalEnd, Apart
<1>4. CASE /\ entries' = Append(entries, r) /\ UNCHANGED inspection
           /\ r.name \notin NamesRead /\ ~(LocalEnd(r) > CentralOffset) /\ ~Overlaps(r)
  <2> DEFINE n == Len(entries)
  <2>1. /\ n \in Nat /\ DOMAIN entries = 1..n
        /\ entries' \in Seq(Records) /\ Len(entries') = n + 1 /\ entries'[n + 1] = r
        /\ \A k \in 1..n : entries'[k] = entries[k] /\ entries[k] \in Records
    BY <1>4
  <2>2. \A k \in 1..n : entries[k].name # r.name
    BY <1>4, <2>1 DEF NamesRead
  <2>3. LocalEnd(r) <= CentralOffset
    BY <1>4, LocalEnds, ArchiveAssumption
  <2>4. \A k \in 1..n : Apart(entries[k], r) /\ Apart(r, entries[k])
    <3> SUFFICES ASSUME NEW k \in 1..n PROVE Apart(entries[k], r) /\ Apart(r, entries[k])
      OBVIOUS
    <3>1. ~(r.offset < LocalEnd(entries[k]) /\ LocalEnd(r) > entries[k].offset)
      BY <1>4, <2>1 DEF Overlaps
    <3> QED BY <2>1, <3>1, LocalEnds DEF Apart
  <2>5. \A k \in 1..(n + 1) : k \in 1..n \/ k = n + 1
    BY <2>1
  <2>6. \A k \in 1..n : LocalEnd(entries[k]) <= CentralOffset
    OBVIOUS
  <2>7. \A k \in 1..n : \A l \in 1..n :
          k # l => entries[k].name # entries[l].name /\ Apart(entries[k], entries[l])
    OBVIOUS
  <2> HIDE DEF n
  <2>8. \A k \in 1..(n + 1) : LocalEnd(entries'[k]) <= CentralOffset
    BY <2>1, <2>3, <2>5, <2>6
  <2>9. ASSUME NEW k \in 1..(n + 1), NEW l \in 1..(n + 1), k # l
        PROVE  entries'[k].name # entries'[l].name /\ Apart(entries'[k], entries'[l])
    <3>1. CASE k \in 1..n /\ l \in 1..n
      BY <2>1, <2>7, <2>9, <3>1
    <3>2. CASE k \in 1..n /\ l = n + 1
      BY <2>1, <2>2, <2>4, <3>2
    <3>3. CASE k = n + 1 /\ l \in 1..n
      BY <2>1, <2>2, <2>4, <3>3
    <3> QED BY <2>5, <2>9, <3>1, <3>2, <3>3
  <2> QED BY <1>1, <1>4, <2>1, <2>8, <2>9 DEF LocalEnd, Apart
<1> QED BY <1>2, <1>3, <1>4

LEMMA ArchiveStep == ArchiveInv /\ [ArchiveNext]_archiveVars => ArchiveInv'
<1> SUFFICES ASSUME ArchiveInv, [ArchiveNext]_archiveVars PROVE ArchiveInv'
  OBVIOUS
<1>1. ASSUME UNCHANGED <<kind, declared, entries>>,
             inspection' = "accepted" /\ kind = "office" =>
               \/ inspection = "accepted"
               \/ Required \subseteq NamesRead /\ TotalExpanded <= MaxTotal
      PROVE  ArchiveInv'
  <2>1. NamesRead' = NamesRead
    BY <1>1 DEF NamesRead
  <2>2. TotalExpanded' = TotalExpanded
    BY <1>1 DEF TotalExpanded
  <2> QED BY <1>1, <2>1, <2>2 DEF ArchiveInv, LocalEnd, Apart
<1>2. CASE OpenArchive
  BY <1>1, <1>2 DEF OpenArchive
<1>3. CASE DirectoryEnds
  BY <1>1, <1>3 DEF DirectoryEnds
<1>4. CASE Conclude
  BY <1>1, <1>4 DEF Conclude
<1>5. CASE UNCHANGED archiveVars
  BY <1>1, <1>5 DEF archiveVars
<1> QED BY <1>2, <1>3, <1>4, <1>5, ReadArchive DEF ArchiveNext

\* Cells that are apart are different, and names that differ are as many as the
\* records.
LEMMA OneWayOnly == ArchiveInv => AcceptedReadsOneWay
<1> SUFFICES ASSUME ArchiveInv PROVE AcceptedReadsOneWay
  OBVIOUS
<1> DEFINE n == Len(entries)
           Cells(k) == entries[k].offset..(LocalEnd(entries[k]) - 1)
<1>1. n \in Nat /\ DOMAIN entries = 1..n /\ \A k \in 1..n : entries[k] \in Records
  BY DEF ArchiveInv
<1>2. \A k \in 1..n : Cells(k) \subseteq 0..(CentralOffset - 1)
  BY <1>1, LocalEnds, ArchiveAssumption DEF ArchiveInv
<1>3. ASSUME NEW k \in 1..n, NEW l \in 1..n, k # l PROVE Cells(k) \cap Cells(l) = {}
  <2>1. LocalEnd(entries[k]) <= entries[l].offset \/ LocalEnd(entries[l]) <= entries[k].offset
    BY <1>3 DEF ArchiveInv, Apart
  <2> QED BY <1>1, <2>1, LocalEnds
<1>4. IsFiniteSet(NamesRead) /\ Cardinality(NamesRead) = n
  <2> DEFINE name == [k \in 1..n |-> entries[k].name]
  <2>1. name \in Bijection(1..n, NamesRead)
    <3>1. name \in [1..n -> NamesRead]
      BY <1>1 DEF NamesRead
    <3>2. \A k, l \in 1..n : name[k] = name[l] => k = l
      BY DEF ArchiveInv
    <3>3. \A x \in NamesRead : \E k \in 1..n : name[k] = x
      BY <1>1 DEF NamesRead
    <3> HIDE DEF name, n
    <3> QED BY <3>1, <3>2, <3>3, Fun_IsBij
  <2>2. ExistsBijection(1..n, NamesRead)
    BY <2>1 DEF ExistsBijection
  <2> HIDE DEF n
  <2> QED BY <1>1, <2>2, FS_CountingElements, FS_NatBijection
<1> QED BY <1>1, <1>2, <1>3, <1>4 DEF ArchiveInv, AcceptedReadsOneWay

\* A document processor that unpacks an accepted office file reads the same
\* parts whichever way it goes: no cell belongs to two entries, every part is
\* there once, and together they are no larger than allowed, for any names,
\* sizes and offsets.
THEOREM AcceptedIsUnambiguous == ArchiveSpec => []AcceptedReadsOneWay
<1>1. ArchiveInit => ArchiveInv
  <2> SUFFICES ASSUME ArchiveInit PROVE ArchiveInv
    OBVIOUS
  <2>1. entries = <<>> /\ declared \in 0..(MaxEntries + 1) /\ inspection = "none"
    BY Zenon DEF ArchiveInit
  <2>2. entries \in Seq(Records) /\ Len(entries) = 0
    BY <2>1, EmptySeq
  <2>3. declared \in Nat
    BY <2>1, ArchiveAssumption
  <2> QED BY <2>1, <2>2, <2>3 DEF ArchiveInv
<1> QED BY <1>1, ArchiveStep, OneWayOnly, PTL DEF ArchiveSpec

-----------------------------------------------------------------------------
(***************************************************************************)
(* AssistantPanel, for any sources, questions and number of turns          *)
(*                                                                         *)
(* What is shown of an answer and what is still to come fit together:      *)
(* evidence is of the question asked, and all of it arrives before the     *)
(* answer is called verified.                                              *)
(***************************************************************************)

\* Which parts there are, and the messages: an answer follows a question.
Excerpt == [id : Sources, question : Nat]
Stages == {"RETRIEVE", "DRAFT", "AWAITING_REVIEW"}
Statuses == {"verified", "needs-review"}
Parts ==
  [type : {"data-workflow"}, stage : Stages] \cup [type : {"data-evidence"}, excerpt : Excerpt]
    \cup [type : {"data-verification"}, status : Statuses]
    \cup [type : {"text", "tool-abstain", "tool-independentReview"}]
    \cup [type : Outcomes, evidenceIds : SUBSET Sources, evidence : SUBSET Excerpt]
Message == [role : {"user", "assistant"}, parts : Seq(Parts)]

PanelTypes ==
  /\ messages \in Seq(Message) /\ streaming \in Seq(Parts)
  /\ questions \in Nat /\ found \in Seq(SUBSET Sources) /\ Len(found) = questions
  /\ messages # <<>> => questions > 0
  /\ busy => messages # <<>>
  /\ \A k \in 1..Len(messages) :
       messages[k].role = "assistant" => k > 1 /\ messages[k - 1].role = "user"

\* What is shown and what is still to come of one answer: evidence is of this
\* question; the outcome of the agent brings all that it cites and comes alone;
\* before an answer is called verified all the evidence of the claims arrives.
Verified(p) == p.type = "data-verification" /\ p.status = "verified"
Sound(p, ids, question) ==
  /\ p.type = "data-evidence" => p.excerpt \in Excerpts(ids, question)
  /\ p.type \in Outcomes => /\ p.evidence \subseteq Excerpts(ids, question)
                            /\ p.evidenceIds = {e.id : e \in p.evidence}
                            /\ p.evidenceIds # {}
Alone(p, r) ==
  p.type \in Outcomes => /\ r.type \notin {"data-evidence", "data-verification"}
                         /\ r.type \in Outcomes => r = p
Fits(shown, coming, ids, question) ==
  /\ \A p \in ToSet(shown) \cup ToSet(coming) : Sound(p, ids, question)
  /\ \A p \in ToSet(shown) \cup ToSet(coming) :
       \A r \in ToSet(shown) \cup ToSet(coming) : Alone(p, r)
  /\ \A p \in ToSet(shown) : Verified(p) =>
       \A e \in Excerpts(Reconciled, question) : Evidence(e) \in ToSet(shown)
  /\ \A i \in 1..Len(coming) : Verified(coming[i]) =>
       \A e \in Excerpts(Reconciled, question) :
         Evidence(e) \in ToSet(shown) \/ \E j \in 1..(i - 1) : coming[j] = Evidence(e)

PanelInv ==
  /\ PanelTypes
  /\ messages # <<>> => Fits(LatestParts, streaming, found[questions], questions)

LEMMA PartTypes ==
  /\ \A name \in Stages : Stage(name) \in Parts /\ Stage(name).type = "data-workflow"
  /\ \A e \in Excerpt : /\ Evidence(e) \in Parts /\ Evidence(e).type = "data-evidence"
                        /\ Evidence(e).excerpt = e
  /\ \A status \in Statuses : /\ Verification(status) \in Parts
                            /\ Verification(status).type = "data-verification"
                            /\ Verification(status).status = status
  /\ \A ids \in SUBSET Sources : \A question \in Nat : Excerpts(ids, question) \subseteq Excerpt
  BY DEF Parts, Stage, Evidence, Verification, Excerpts, Excerpt, Stages, Statuses

LEMMA ElementsOf ==
  ASSUME NEW T, NEW s \in Seq(T)
  PROVE  /\ Len(s) \in Nat /\ ToSet(s) = {s[k] : k \in 1..Len(s)} /\ ToSet(s) \subseteq T
  BY DEF ToSet

\* The excerpts are as many as the evidence ids.
LEMMA ExcerptsCount ==
  ASSUME NEW ids \in SUBSET Sources, NEW question
  PROVE  /\ IsFiniteSet(Excerpts(ids, question))
         /\ Cardinality(Excerpts(ids, question)) = Cardinality(ids) /\ Cardinality(ids) \in Nat
<1> DEFINE E == Excerpts(ids, question)
           f == [s \in ids |-> [id |-> s, question |-> question]]
<1>1. IsFiniteSet(ids) /\ Cardinality(ids) \in Nat
  BY SourcesAssumption, FS_Subset, FS_CardinalityType
<1>2. f \in [ids -> E] /\ (\A s, t \in ids : f[s] = f[t] => s = t) /\ (\A e \in E : \E s \in ids : f[s] = e)
  <2>1. f \in [ids -> E] /\ \A e \in E : \E s \in ids : f[s] = e
    BY DEF Excerpts
  <2>2. \A s \in ids : f[s].id = s
    OBVIOUS
  <2> HIDE DEF f
  <2> QED BY <2>1, <2>2
<1> HIDE DEF f, E
<1>3. f \in Bijection(ids, E)
  BY <1>2, Fun_IsBij
<1>4. ExistsBijection(ids, E)
  BY <1>3 DEF ExistsBijection
<1>5. IsFiniteSet(E) /\ Cardinality(E) = Cardinality(ids)
  BY <1>1, <1>4, FS_Bijection
<1> QED BY <1>1, <1>5 DEF E

\* Every answer fits before any of it is shown.
LEMMA DemoFits ==
  ASSUME NEW ids \in SUBSET Sources, NEW question \in Nat, NEW reconciliation \in BOOLEAN
  PROVE  /\ DemoAnswer(ids, question, reconciliation) \in Seq(Parts)
         /\ Fits(<<>>, DemoAnswer(ids, question, reconciliation), ids, question)
<1> DEFINE E == Excerpts(ids, question)
           n == Cardinality(ids)
           verified == reconciliation /\ ids = Reconciled
           a == <<Stage("RETRIEVE")>>
           b == [k \in 1..n |-> Evidence(SetToSeq(E)[k])]
           verdict == IF verified THEN "verified" ELSE "needs-review"
           c == <<Stage("DRAFT"), [type |-> "text"], Verification(verdict), Stage("AWAITING_REVIEW")>>
           ab == a \o b
           d == ab \o c
<1>1. n \in Nat /\ IsFiniteSet(E) /\ Cardinality(E) = n /\ E \subseteq Excerpt
  BY ExcerptsCount, PartTypes
<1>2. /\ \A k \in 1..n : SetToSeq(E)[k] \in E
      /\ \A e \in E : \E k \in 1..n : SetToSeq(E)[k] = e
  BY <1>1, Enumeration
<1>0. /\ Stage("RETRIEVE") \in Parts /\ Stage("DRAFT") \in Parts
      /\ Stage("AWAITING_REVIEW") \in Parts
      /\ Stage("RETRIEVE").type = "data-workflow" /\ Stage("DRAFT").type = "data-workflow"
      /\ Stage("AWAITING_REVIEW").type = "data-workflow"
  BY PartTypes DEF Stages
<1>13. verdict \in Statuses /\ Verification(verdict) \in Parts
  BY PartTypes DEF Statuses
<1> HIDE DEF verdict, E, n
<1>3. a \in Seq(Parts) /\ Len(a) = 1 /\ a[1] = Stage("RETRIEVE")
  BY <1>0
<1>4. [type |-> "text"] \in Parts /\ [type |-> "text"].type = "text"
  BY DEF Parts
<1>5. /\ c \in Seq(Parts) /\ Len(c) = 4 /\ c[1] = Stage("DRAFT") /\ c[2] = [type |-> "text"]
      /\ c[3] = Verification(verdict) /\ c[4] = Stage("AWAITING_REVIEW")
  BY <1>0, <1>4, <1>13
<1>6. b \in Seq(Parts) /\ Len(b) = n /\ \A k \in 1..n : b[k] = Evidence(SetToSeq(E)[k])
  BY <1>1, <1>2, PartTypes
<1>7. DemoAnswer(ids, question, reconciliation) = d
  BY Zenon DEF DemoAnswer, verdict, E, n
<1> HIDE DEF a, b, c
<1>8. /\ ab \in Seq(Parts) /\ Len(ab) = Len(a) + Len(b)
      /\ \A k \in 1..(Len(a) + Len(b)) : ab[k] = IF k <= Len(a) THEN a[k] ELSE b[k - Len(a)]
  BY <1>3, <1>6, ConcatProperties
<1>9. Len(ab) = n + 1 /\ \A k \in 1..(n + 1) : ab[k] = IF k = 1 THEN a[1] ELSE b[k - 1]
  <2> HIDE DEF ab
  <2> QED BY <1>1, <1>3, <1>6, <1>8
<1>18. /\ d \in Seq(Parts) /\ Len(d) = Len(ab) + Len(c)
       /\ \A k \in 1..(Len(ab) + Len(c)) : d[k] = IF k <= Len(ab) THEN ab[k] ELSE c[k - Len(ab)]
  <2>1. ab \in Seq(Parts) /\ c \in Seq(Parts)
    BY <1>5, <1>8
  <2> HIDE DEF ab
  <2> QED BY <2>1, ConcatProperties
<1> HIDE DEF ab, d
<1>10. /\ d \in Seq(Parts) /\ Len(d) = n + 5
       /\ \A k \in 1..(n + 5) : d[k] = IF k <= n + 1 THEN ab[k] ELSE c[k - (n + 1)]
  BY <1>1, <1>5, <1>9, <1>18
<1>11. /\ d[1] = Stage("RETRIEVE") /\ \A k \in 1..n : d[k + 1] = Evidence(SetToSeq(E)[k])
       /\ d[n + 2] = Stage("DRAFT") /\ d[n + 3] = [type |-> "text"]
       /\ d[n + 4] = Verification(verdict) /\ d[n + 5] = Stage("AWAITING_REVIEW")
  <2>1. d[1] = Stage("RETRIEVE")
    BY <1>1, <1>3, <1>9, <1>10
  <2>2. ASSUME NEW k \in 1..n PROVE d[k + 1] = Evidence(SetToSeq(E)[k])
    <3>1. k + 1 \in 1..(n + 5) /\ k + 1 <= n + 1 /\ k + 1 \in 1..(n + 1) /\ k + 1 # 1 /\ (k + 1) - 1 = k
      BY <1>1
    <3> QED BY <1>6, <1>9, <1>10, <3>1
  <2>3. ASSUME NEW i \in 1..4 PROVE d[n + 1 + i] = c[i]
    <3>1. n + 1 + i \in 1..(n + 5) /\ ~(n + 1 + i <= n + 1) /\ (n + 1 + i) - (n + 1) = i
      BY <1>1
    <3> QED BY <1>10, <3>1
  <2>4. d[n + 1 + 1] = c[1] /\ d[n + 1 + 2] = c[2] /\ d[n + 1 + 3] = c[3] /\ d[n + 1 + 4] = c[4]
    BY <2>3
  <2>5. n + 1 + 1 = n + 2 /\ n + 1 + 2 = n + 3 /\ n + 1 + 3 = n + 4 /\ n + 1 + 4 = n + 5
    BY <1>1
  <2> QED BY <1>5, <2>1, <2>2, <2>4, <2>5
<1>12. ASSUME NEW i \in 1..(n + 5)
       PROVE  \/ d[i].type \in {"data-workflow", "text"}
              \/ \E k \in 1..n : d[i] = Evidence(SetToSeq(E)[k])
              \/ i = n + 4 /\ d[i] = Verification(verdict)
  <2>1. \/ i = 1 \/ i \in 2..(n + 1) \/ i = n + 2 \/ i = n + 3 \/ i = n + 4 \/ i = n + 5
    BY <1>1
  <2>2. CASE i \in 2..(n + 1)
    <3>1. i - 1 \in 1..n /\ (i - 1) + 1 = i
      BY <1>1, <2>2
    <3> QED BY <1>11, <3>1
  <2>4. CASE i # n + 4 /\ i \notin 2..(n + 1)
    BY <1>0, <1>4, <1>11, <2>1, <2>4
  <2> QED BY <1>11, <2>1, <2>2, <2>4
<1>14. ToSet(d) = {d[k] : k \in 1..(n + 5)} /\ ToSet(<<>>) = {}
  <2>1. ToSet(<<>>) = {}
    BY DEF ToSet
  <2> QED BY <1>10, <2>1, ElementsOf
<1>15. ASSUME NEW p \in ToSet(d) PROVE Sound(p, ids, question) /\ p.type \notin Outcomes
  <2>1. \/ p.type \in {"data-workflow", "text"}
        \/ \E k \in 1..n : p = Evidence(SetToSeq(E)[k])
        \/ p = Verification(verdict)
    BY <1>12, <1>14, <1>15 DEF E
  <2>2. CASE p.type \in {"data-workflow", "text"}
    BY <2>2 DEF Sound, Outcomes
  <2>3. CASE p = Verification(verdict)
    <3>1. p.type = "data-verification"
      BY <1>13, <2>3, PartTypes
    <3> QED BY <3>1 DEF Sound, Outcomes, E
  <2>4. ASSUME NEW k \in 1..n, p = Evidence(SetToSeq(E)[k]) PROVE Sound(p, ids, question) /\ p.type \notin Outcomes
    <3>1. p.type = "data-evidence" /\ p.excerpt \in E
      BY <1>1, <1>2, <2>4, PartTypes
    <3> QED BY <3>1 DEF Sound, Outcomes, E
  <2> QED BY <2>1, <2>2, <2>3, <2>4
<1>16. ASSUME NEW i \in 1..(n + 5), Verified(d[i]), NEW e \in Excerpts(Reconciled, question)
       PROVE  \E j \in 1..(i - 1) : d[j] = Evidence(e)
  <2>1. d[i].type = "data-verification" /\ d[i].status = "verified"
    BY <1>16 DEF Verified
  <2>2. \A k \in 1..n : Evidence(SetToSeq(E)[k]).type = "data-evidence"
    BY <1>1, <1>2, PartTypes
  <2>3. i = n + 4 /\ d[i] = Verification(verdict)
    BY <1>12, <2>1, <2>2
  <2>4. verdict = "verified"
    BY <1>13, <2>1, <2>3, PartTypes
  <2>5. Excerpts(Reconciled, question) = E
    BY <2>4 DEF verdict, E
  <2>6. PICK k \in 1..n : SetToSeq(E)[k] = e
    BY <1>2, <2>5
  <2>7. k + 1 \in 1..(i - 1)
    BY <1>1, <2>3
  <2> QED BY <1>11, <2>6, <2>7
<1>17. Fits(<<>>, d, ids, question)
  BY <1>10, <1>14, <1>15, <1>16 DEF Fits, Alone, E
<1> QED BY <1>7, <1>10, <1>17

LEMMA AgentFits ==
  ASSUME NEW ids \in SUBSET Sources, NEW question \in Nat, NEW cited \in SUBSET ids,
         NEW tool \in Outcomes
  PROVE  /\ AgentAnswer(tool, cited, question) \in Seq(Parts)
         /\ Fits(<<>>, AgentAnswer(tool, cited, question), ids, question)
<1> DEFINE s == AgentAnswer(tool, cited, question)
           E == Excerpts(cited, question)
           last == [type |-> tool, evidenceIds |-> cited, evidence |-> E]
<1>1. E \subseteq Excerpt /\ E \subseteq Excerpts(ids, question) /\ {e.id : e \in E} = cited
  <2>1. E \subseteq Excerpt
    BY PartTypes
  <2>2. E \subseteq Excerpts(ids, question)
    BY DEF Excerpts
  <2>3. \A x \in cited : [id |-> x, question |-> question].id = x
    OBVIOUS
  <2>4. {e.id : e \in E} = cited
    BY <2>3 DEF Excerpts
  <2> QED BY <2>1, <2>2, <2>4
<1> HIDE DEF E
<1>2. /\ last \in Parts /\ last.type \in Outcomes
      /\ last.evidenceIds = cited /\ last.evidence = E
  BY <1>1 DEF Parts
<1> HIDE DEF last
<1>3. /\ [type |-> "tool-abstain"] \in Parts /\ [type |-> "tool-independentReview"] \in Parts
      /\ [type |-> "tool-abstain"].type = "tool-abstain"
      /\ [type |-> "tool-independentReview"].type = "tool-independentReview"
  BY DEF Parts
<1>4. CASE cited = {}
  <2>1. s = <<[type |-> "tool-abstain"]>>
    BY <1>4 DEF AgentAnswer
  <2>2. s \in Seq(Parts) /\ Len(s) = 1 /\ s[1].type = "tool-abstain"
    BY <1>3, <2>1
  <2> HIDE DEF s
  <2>3. ToSet(s) = {s[1]} /\ ToSet(<<>>) = {}
    BY <2>2 DEF ToSet
  <2>4. Fits(<<>>, s, ids, question)
    BY <2>2, <2>3 DEF Fits, Sound, Alone, Verified, Outcomes
  <2> QED BY <2>2, <2>4 DEF s
<1>5. CASE cited # {}
  <2>1. s = <<[type |-> "tool-independentReview"], last>>
    BY <1>5 DEF AgentAnswer, last, E
  <2>2. s \in Seq(Parts) /\ Len(s) = 2 /\ s[1].type = "tool-independentReview" /\ s[2] = last
    BY <1>2, <1>3, <2>1
  <2> HIDE DEF s
  <2>3. ToSet(s) = {s[1], s[2]} /\ ToSet(<<>>) = {}
    BY <2>2 DEF ToSet
  <2>4. \A p \in ToSet(s) : p.type = "tool-independentReview" \/ p = last
    BY <2>2, <2>3
  <2>5. \A p \in ToSet(s) : Sound(p, ids, question) /\ ~Verified(p)
    BY <1>1, <1>2, <1>5, <2>4 DEF Sound, Verified, Outcomes
  <2>6. \A p \in ToSet(s) : \A r \in ToSet(s) : Alone(p, r)
    BY <1>2, <2>4 DEF Alone, Outcomes
  <2>7. \A i \in 1..Len(s) : s[i] \in ToSet(s)
    BY <2>2, <2>3
  <2>8. Fits(<<>>, s, ids, question)
    BY <2>3, <2>5, <2>6, <2>7 DEF Fits
  <2> QED BY <2>2, <2>8 DEF s
<1> QED BY <1>4, <1>5

\* A part that arrives is there, and only a workflow part can go for it.
LEMMA UpdatedParts ==
  ASSUME NEW s \in Seq(Parts), NEW p \in Parts
  PROVE  /\ Update(s, p) \in Seq(Parts) /\ p \in ToSet(Update(s, p))
         /\ \A x \in ToSet(Update(s, p)) : x \in ToSet(s) \/ x = p
         /\ \A x \in ToSet(s) : x.type # "data-workflow" => x \in ToSet(Update(s, p))
<1> DEFINE I == {i \in 1..Len(s) : s[i].type = p.type}
           k == SelectInSeq(s, LAMBDA x : x.type = p.type)
<1>1. k = IF I # {} THEN Min(I) ELSE 0
  BY DEF SelectInSeq
<1>2. I # {} => Min(I) \in I
  <2>1. I \subseteq Nat
    OBVIOUS
  <2> HIDE DEF I
  <2>2. I # {} => \E i \in I : \A j \in I : i <= j
    BY <2>1, LeastExists
  <2> QED BY <2>2 DEF Min
<1>3. Len(s) \in Nat /\ DOMAIN s = 1..Len(s)
  OBVIOUS
<1>4. CASE p.type = "data-workflow" /\ k # 0
  <2>1. k \in 1..Len(s) /\ s[k].type = "data-workflow"
    BY <1>1, <1>2, <1>4
  <2>2. Update(s, p) = [s EXCEPT ![k] = p]
    BY <1>4 DEF Update, ReplaceAt
  <2> HIDE DEF k
  <2>3. /\ Update(s, p) \in Seq(Parts) /\ DOMAIN Update(s, p) = 1..Len(s)
        /\ \A i \in 1..Len(s) : Update(s, p)[i] = IF i = k THEN p ELSE s[i]
    BY <1>3, <2>1, <2>2
  <2> QED BY <1>3, <2>1, <2>3 DEF ToSet
<1>5. CASE ~(p.type = "data-workflow" /\ k # 0)
  <2>1. Update(s, p) = Append(s, p)
    BY <1>5 DEF Update
  <2>2. /\ Append(s, p) \in Seq(Parts) /\ DOMAIN Append(s, p) = 1..(Len(s) + 1)
        /\ Append(s, p)[Len(s) + 1] = p /\ \A i \in 1..Len(s) : Append(s, p)[i] = s[i]
    BY <1>3
  <2>3. \A i \in 1..(Len(s) + 1) : i \in 1..Len(s) \/ i = Len(s) + 1
    BY <1>3
  <2>4. Len(s) + 1 \in 1..(Len(s) + 1) /\ 1..Len(s) \subseteq 1..(Len(s) + 1)
    BY <1>3
  <2> QED BY <1>3, <2>1, <2>2, <2>3, <2>4 DEF ToSet
<1> QED BY <1>4, <1>5

\* What fits goes on to fit as the next part arrives, and when nothing more comes.
LEMMA FitsAfterPart ==
  ASSUME NEW shown \in Seq(Parts), NEW coming \in Seq(Parts), coming # <<>>, NEW new \in Seq(Parts),
         NEW ids, NEW question, Fits(shown, coming, ids, question),
         Head(coming) \in ToSet(new),
         \A x \in ToSet(new) : x \in ToSet(shown) \/ x = Head(coming),
         \A x \in ToSet(shown) : x.type # "data-workflow" => x \in ToSet(new)
  PROVE  Fits(new, Tail(coming), ids, question)
<1> DEFINE p == Head(coming)
           t == Tail(coming)
           n == Len(coming)
           E == Excerpts(Reconciled, question)
<1>1. /\ n \in Nat /\ n > 0 /\ p = coming[1] /\ Len(t) = n - 1 /\ t \in Seq(Parts)
      /\ \A i \in 1..(n - 1) : t[i] = coming[i + 1]
  BY HeadTailProperties, EmptySeq
<1>2. ToSet(coming) = {coming[i] : i \in 1..n} /\ ToSet(t) = {t[i] : i \in 1..(n - 1)}
  BY <1>1, ElementsOf
<1> HIDE DEF p, t, n, E
<1>3. p \in ToSet(coming)
  BY <1>1, <1>2
<1>4. ToSet(t) \subseteq ToSet(coming)
  <2>1. \A i \in 1..(n - 1) : i + 1 \in 1..n
    BY <1>1
  <2> QED BY <1>1, <1>2, <2>1
<1>5. \A x \in ToSet(new) \cup ToSet(t) : x \in ToSet(shown) \cup ToSet(coming)
  BY <1>3, <1>4 DEF p
<1>6. \A e : Evidence(e) \in ToSet(shown) => Evidence(e) \in ToSet(new)
  <2>1. \A e : Evidence(e).type # "data-workflow"
    BY DEF Evidence
  <2> QED BY <2>1
<1>7. \A i \in 1..n : Verified(coming[i]) =>
        \A e \in E : Evidence(e) \in ToSet(shown) \/ \E j \in 1..(i - 1) : coming[j] = Evidence(e)
  BY DEF Fits, E, n
<1>8. ASSUME NEW x \in ToSet(new), Verified(x), NEW e \in E PROVE Evidence(e) \in ToSet(new)
  <2>1. CASE x \in ToSet(shown)
    BY <1>6, <1>8, <2>1 DEF Fits, E
  <2>2. CASE x = p
    <3>1. 1 \in 1..n /\ 1..(1 - 1) = {}
      BY <1>1
    <3>2. Evidence(e) \in ToSet(shown)
      BY <1>1, <1>7, <1>8, <2>2, <3>1
    <3> QED BY <1>6, <3>2
  <2> QED BY <1>8, <2>1, <2>2 DEF p
<1>9. ASSUME NEW i \in 1..(n - 1), Verified(t[i]), NEW e \in E
      PROVE  Evidence(e) \in ToSet(new) \/ \E j \in 1..(i - 1) : t[j] = Evidence(e)
  <2>1. i + 1 \in 1..n /\ (i + 1) - 1 = i /\ t[i] = coming[i + 1]
    BY <1>1
  <2>2. Evidence(e) \in ToSet(shown) \/ \E j \in 1..i : coming[j] = Evidence(e)
    BY <1>7, <1>9, <2>1
  <2>3. ASSUME NEW j \in 1..i, coming[j] = Evidence(e)
        PROVE  Evidence(e) \in ToSet(new) \/ \E k \in 1..(i - 1) : t[k] = Evidence(e)
    <3>1. CASE j = 1
      BY <1>1, <2>3, <3>1 DEF p
    <3>2. CASE j # 1
      <4>1. j - 1 \in 1..(i - 1) /\ j - 1 \in 1..(n - 1) /\ (j - 1) + 1 = j
        BY <1>1, <3>2
      <4>2. t[j - 1] = Evidence(e)
        BY <1>1, <2>3, <4>1
      <4> QED BY <4>1, <4>2
    <3> QED BY <3>1, <3>2
  <2> QED BY <1>6, <2>2, <2>3
<1>10. \A x \in ToSet(new) \cup ToSet(t) : Sound(x, ids, question)
  BY <1>5 DEF Fits
<1>11. \A x \in ToSet(new) \cup ToSet(t) : \A r \in ToSet(new) \cup ToSet(t) : Alone(x, r)
  BY <1>5 DEF Fits
<1>12. Fits(new, t, ids, question)
  <2>1. Len(t) = n - 1
    BY <1>1
  <2> QED BY <1>8, <1>9, <1>10, <1>11, <2>1 DEF Fits, E
<1> QED BY <1>12 DEF t

LEMMA FitsAtEnd ==
  ASSUME NEW shown \in Seq(Parts), NEW coming \in Seq(Parts), NEW ids, NEW question,
         Fits(shown, coming, ids, question)
  PROVE  Fits(shown, <<>>, ids, question)
<1>1. ToSet(<<>>) = {} /\ Len(<<>>) = 0 /\ 1..0 = {}
  BY DEF ToSet
<1>2. /\ \A x \in ToSet(shown) \cup {} : Sound(x, ids, question)
      /\ \A x \in ToSet(shown) \cup {} : \A r \in ToSet(shown) \cup {} : Alone(x, r)
  BY DEF Fits
<1> QED BY <1>1, <1>2 DEF Fits

LEMMA LatestPartsType ==
  ASSUME PanelTypes PROVE LatestParts \in Seq(Parts)
<1>1. CASE messages # <<>> /\ Last(messages).role = "assistant"
  <2>1. Last(messages) \in Message
    BY <1>1, EmptySeq DEF PanelTypes, Last
  <2> QED BY <1>1, <2>1 DEF LatestParts, Message
<1>2. CASE ~(messages # <<>> /\ Last(messages).role = "assistant")
  BY <1>2, EmptySeq DEF LatestParts
<1> QED BY <1>1, <1>2

\* An answer to come is for the last question, which is the user's.
LEMMA SubmitFits ==
  ASSUME PanelTypes, NEW history \in Seq(Message), Len(history) > 0,
         history[Len(history)].role = "user",
         \A k \in 1..Len(history) :
           history[k].role = "assistant" => k > 1 /\ history[k - 1].role = "user",
         Submit(history)
  PROVE  PanelInv'
<1> PICK ids \in SUBSET Sources :
      /\ questions' = questions + 1
      /\ found' = Append(found, ids)
      /\ messages' = history
      /\ busy' = TRUE
      /\ \/ \E reconciliation \in BOOLEAN :
              streaming' = DemoAnswer(ids, questions', reconciliation)
         \/ \E cited \in SUBSET ids, tool \in Outcomes :
              streaming' = AgentAnswer(tool, cited, questions')
  BY DEF Submit
<1>1. questions \in Nat /\ questions' \in Nat /\ questions' = questions + 1
  BY DEF PanelTypes
<1>2. /\ found' \in Seq(SUBSET Sources) /\ Len(found') = questions'
      /\ found'[questions'] = ids
  BY <1>1, AppendProperties DEF PanelTypes
<1>3. streaming' \in Seq(Parts) /\ Fits(<<>>, streaming', ids, questions')
  BY <1>1, DemoFits, AgentFits
<1>4. messages' # <<>> /\ Last(messages').role # "assistant"
  BY DEF Last
<1>5. LatestParts' = <<>>
  BY <1>4 DEF LatestParts
<1>6. PanelTypes'
  BY <1>1, <1>2, <1>3, <1>4 DEF PanelTypes
<1> QED BY <1>2, <1>3, <1>5, <1>6 DEF PanelInv

LEMMA AskStep ==
  ASSUME PanelInv, Ask PROVE PanelInv'
<1> DEFINE m == [role |-> "user", parts |-> <<>>]
           h == Append(messages, m)
           n == Len(messages)
<1>1. m \in Message /\ m.role = "user"
  BY EmptySeq DEF Message
<1> HIDE DEF m
<1>2. /\ n \in Nat /\ h \in Seq(Message) /\ Len(h) = n + 1 /\ h[n + 1] = m
      /\ \A k \in 1..n : h[k] = messages[k]
  BY <1>1, AppendProperties DEF PanelInv, PanelTypes
<1>3. PanelTypes /\ Submit(h)
  BY DEF Ask, PanelInv, m
<1> HIDE DEF h
<1>4. ASSUME NEW k \in 1..Len(h), h[k].role = "assistant" PROVE k > 1 /\ h[k - 1].role = "user"
  <2>1. k \in 1..n
    BY <1>1, <1>2, <1>4
  <2>2. k > 1 /\ messages[k - 1].role = "user"
    BY <1>2, <1>3, <1>4, <2>1 DEF PanelTypes
  <2>3. k - 1 \in 1..n
    BY <1>2, <2>1, <2>2
  <2> QED BY <1>2, <2>2, <2>3
<1>5. Len(h) > 0 /\ h[Len(h)].role = "user"
  BY <1>1, <1>2
<1> QED BY <1>2, <1>3, <1>4, <1>5, SubmitFits

LEMMA RegenerateStep ==
  ASSUME PanelInv, Regenerate PROVE PanelInv'
<1> DEFINE n == Len(messages)
           h == IF Last(messages).role = "assistant" THEN Front(messages) ELSE messages
<1>1. /\ n \in Nat /\ n > 0 /\ messages \in Seq(Message)
      /\ \A k \in 1..n : messages[k] \in Message
      /\ \A k \in 1..n : messages[k].role = "assistant" => k > 1 /\ messages[k - 1].role = "user"
  BY EmptySeq DEF PanelInv, PanelTypes, Regenerate
<1>2. PanelTypes /\ Submit(h)
  BY DEF Regenerate, PanelInv
<1>3. CASE Last(messages).role = "assistant"
  <2>1. messages[n].role = "assistant"
    BY <1>3 DEF Last
  <2>2. n > 1 /\ messages[n - 1].role = "user" /\ n - 1 \in 0..n
    BY <1>1, <2>1
  <2>3. h = SubSeq(messages, 1, n - 1)
    BY <1>3 DEF Front
  <2> HIDE DEF h
  <2>4. /\ h \in Seq(Message) /\ Len(h) = n - 1
        /\ \A k \in 1..(n - 1) : h[k] = messages[k]
    BY <1>1, <2>2, <2>3
  <2>5. \A k \in 1..(n - 1) : h[k].role = "assistant" => k > 1 /\ h[k - 1].role = "user"
    <3> SUFFICES ASSUME NEW k \in 1..(n - 1), h[k].role = "assistant"
                 PROVE  k > 1 /\ h[k - 1].role = "user"
      OBVIOUS
    <3>1. k \in 1..n /\ messages[k].role = "assistant"
      BY <1>1, <2>4
    <3>2. k > 1 /\ messages[k - 1].role = "user"
      BY <1>1, <3>1
    <3>3. k - 1 \in 1..(n - 1)
      BY <1>1, <3>1, <3>2
    <3> QED BY <2>4, <3>2, <3>3
  <2>6. Len(h) > 0 /\ h[Len(h)].role = "user"
    BY <1>1, <2>2, <2>4
  <2> QED BY <1>2, <2>4, <2>5, <2>6, SubmitFits
<1>4. CASE Last(messages).role # "assistant"
  <2>1. h = messages
    BY <1>4
  <2>2. messages[n].role = "user"
    <3>1. messages[n] \in Message /\ messages[n].role # "assistant"
      BY <1>1, <1>4 DEF Last
    <3> QED BY <3>1 DEF Message
  <2> HIDE DEF h
  <2> QED BY <1>1, <1>2, <2>1, <2>2, SubmitFits
<1> QED BY <1>3, <1>4

LEMMA ReceiveStep ==
  ASSUME PanelInv, Receive PROVE PanelInv'
<1> DEFINE n == Len(messages)
           part == Head(streaming)
           new == LatestParts'
<1>1. /\ n \in Nat /\ n > 0 /\ messages \in Seq(Message) /\ messages[n] \in Message
      /\ messages # <<>> /\ streaming \in Seq(Parts) /\ streaming # <<>>
      /\ part \in Parts /\ streaming' = Tail(streaming) /\ streaming' \in Seq(Parts)
      /\ UNCHANGED <<questions, found, busy>>
  BY EmptySeq, HeadTailProperties DEF PanelInv, PanelTypes, Receive
<1>2. \A k \in 1..n : messages[k].role = "assistant" => k > 1 /\ messages[k - 1].role = "user"
  BY DEF PanelInv, PanelTypes
<1>3. Fits(LatestParts, streaming, found[questions], questions) /\ LatestParts \in Seq(Parts)
  BY <1>1, LatestPartsType DEF PanelInv
<1>4. CASE Last(messages).role = "user"
  <2> DEFINE m == [role |-> "assistant", parts |-> <<part>>]
  <2>1. messages' = Append(messages, m)
    BY <1>4 DEF Receive
  <2>2. m \in Message /\ m.role = "assistant" /\ m.parts = <<part>> /\ <<part>> \in Seq(Parts)
        /\ ToSet(<<part>>) = {part}
    <3>1. <<part>> \in Seq(Parts) /\ ToSet(<<part>>) = {part}
      BY <1>1 DEF ToSet
    <3> HIDE DEF part
    <3> QED BY <3>1 DEF Message
  <2> HIDE DEF m, part
  <2>3. /\ messages' \in Seq(Message) /\ Len(messages') = n + 1 /\ messages'[n + 1] = m
        /\ \A k \in 1..n : messages'[k] = messages[k]
    BY <1>1, <2>1, <2>2, AppendProperties
  <2>4. messages' # <<>> /\ Last(messages') = m
    BY <1>1, <2>3, EmptySeq DEF Last
  <2>5. new = <<part>> /\ LatestParts = <<>>
    <3>1. new = <<part>>
      BY <2>2, <2>4 DEF LatestParts
    <3>2. LatestParts = <<>>
      BY <1>4 DEF LatestParts
    <3> QED BY <3>1, <3>2
  <2>6. \A k \in 1..(n + 1) :
          messages'[k].role = "assistant" => k > 1 /\ messages'[k - 1].role = "user"
    <3> SUFFICES ASSUME NEW k \in 1..(n + 1), messages'[k].role = "assistant"
                 PROVE  k > 1 /\ messages'[k - 1].role = "user"
      OBVIOUS
    <3>1. CASE k = n + 1
      BY <1>1, <1>4, <2>3, <3>1 DEF Last
    <3>2. CASE k \in 1..n
      <4>1. k > 1 /\ messages[k - 1].role = "user"
        BY <1>2, <2>3, <3>2
      <4>2. k - 1 \in 1..n
        BY <1>1, <3>2, <4>1
      <4> QED BY <2>3, <4>1, <4>2
    <3> QED BY <1>1, <3>1, <3>2
  <2>7. PanelTypes'
    BY <1>1, <2>3, <2>4, <2>6 DEF PanelInv, PanelTypes
  <2>8. ToSet(<<>>) = {}
    BY DEF ToSet
  <2>9. Fits(new, Tail(streaming), found[questions], questions)
    BY <1>1, <1>3, <2>2, <2>5, <2>8, FitsAfterPart DEF part
  <2> QED BY <1>1, <2>7, <2>9 DEF PanelInv
<1>5. CASE Last(messages).role # "user"
  <2> DEFINE m == [Last(messages) EXCEPT !.parts = Update(@, part)]
  <2>1. messages' = [messages EXCEPT ![n] = m]
    BY <1>5 DEF Receive, ReplaceAt
  <2>2. /\ messages[n].role = "assistant" /\ Last(messages) = messages[n]
        /\ messages[n].parts \in Seq(Parts) /\ LatestParts = messages[n].parts
    BY <1>1, <1>5 DEF Last, Message, LatestParts
  <2> HIDE DEF part
  <2>3. /\ Update(LatestParts, part) \in Seq(Parts) /\ part \in ToSet(Update(LatestParts, part))
        /\ \A x \in ToSet(Update(LatestParts, part)) : x \in ToSet(LatestParts) \/ x = part
        /\ \A x \in ToSet(LatestParts) :
             x.type # "data-workflow" => x \in ToSet(Update(LatestParts, part))
    BY <1>1, <1>3, UpdatedParts
  <2>4. m \in Message /\ m.role = "assistant" /\ m.parts = Update(LatestParts, part)
    BY <1>1, <2>2, <2>3 DEF Message
  <2> HIDE DEF m
  <2>5. /\ messages' \in Seq(Message) /\ Len(messages') = n /\ messages'[n] = m
        /\ \A k \in 1..n : messages'[k].role = messages[k].role
    <3>1. /\ messages' \in Seq(Message) /\ Len(messages') = n
          /\ \A k \in 1..n : messages'[k] = IF k = n THEN m ELSE messages[k]
      BY <1>1, <2>1, <2>4
    <3> QED BY <1>1, <2>2, <2>4, <3>1
  <2>6. messages' # <<>> /\ Last(messages') = m
    BY <1>1, <2>5, EmptySeq DEF Last
  <2>7. new = Update(LatestParts, part)
    BY <2>4, <2>6 DEF LatestParts
  <2>8. \A k \in 1..n :
          messages'[k].role = "assistant" => k > 1 /\ messages'[k - 1].role = "user"
    <3> SUFFICES ASSUME NEW k \in 1..n, messages'[k].role = "assistant"
                 PROVE  k > 1 /\ messages'[k - 1].role = "user"
      OBVIOUS
    <3>1. k > 1 /\ messages[k - 1].role = "user"
      BY <1>2, <2>5
    <3>2. k - 1 \in 1..n
      BY <1>1, <3>1
    <3> QED BY <2>5, <3>1, <3>2
  <2>9. PanelTypes'
    BY <1>1, <2>5, <2>6, <2>8 DEF PanelInv, PanelTypes
  <2>10. Fits(new, Tail(streaming), found[questions], questions)
    BY <1>1, <1>3, <2>3, <2>7, FitsAfterPart DEF part
  <2> QED BY <1>1, <2>9, <2>10 DEF PanelInv
<1> QED BY <1>4, <1>5

LEMMA PanelStep == PanelInv /\ [PanelNext]_panelVars => PanelInv'
<1> SUFFICES ASSUME PanelInv, [PanelNext]_panelVars PROVE PanelInv'
  OBVIOUS
<1>1. CASE StreamEnds
  <2>1. UNCHANGED <<messages, questions, found>> /\ streaming' = <<>> /\ ~busy'
    BY <1>1 DEF StreamEnds
  <2>2. PanelTypes'
    BY <2>1, EmptySeq DEF PanelInv, PanelTypes
  <2>3. LatestParts' = LatestParts
    BY <2>1 DEF LatestParts
  <2>4. messages # <<>> => Fits(LatestParts, <<>>, found[questions], questions)
    BY LatestPartsType, FitsAtEnd DEF PanelInv, PanelTypes
  <2> QED BY <2>1, <2>2, <2>3, <2>4 DEF PanelInv
<1>2. CASE UNCHANGED panelVars
  <2>1. UNCHANGED <<messages, questions, found, streaming, busy>>
    BY <1>2 DEF panelVars
  <2>2. PanelTypes'
    BY <2>1 DEF PanelInv, PanelTypes
  <2>3. LatestParts' = LatestParts
    BY <2>1 DEF LatestParts
  <2> QED BY <2>1, <2>2, <2>3 DEF PanelInv
<1> QED BY <1>1, <1>2, AskStep, RegenerateStep, ReceiveStep DEF PanelNext

\* What the panel derives from parts that fit.
LEMMA PanelFollows == PanelInv => PanelShowsLatestAnswer
<1> SUFFICES ASSUME PanelInv, messages # <<>>
             PROVE  /\ PanelEvidence \subseteq Excerpts(found[questions], questions)
                    /\ \A part \in ToSet(LatestParts) :
                         part.type \in Outcomes => PanelEvidence = part.evidence
                    /\ LatestAssistantVerification = "verified" =>
                         Excerpts(Reconciled, questions) \subseteq PanelEvidence
  BY DEF PanelShowsLatestAnswer
<1> DEFINE L == LatestParts
           ids == found[questions]
           streamed == StreamedAssistantEvidence
           cited == ExtractCitedEvidenceIds
           I == {i \in 1..Len(L) : L[i].type \in Outcomes}
           k == SelectLastInSeq(L, LAMBDA p : p.type \in Outcomes)
           V == {i \in 1..Len(L) : L[i].type = "data-verification"}
           v == SelectLastInSeq(L, LAMBDA p : p.type = "data-verification")
<1>1. /\ L \in Seq(Parts) /\ Len(L) \in Nat /\ ToSet(L) = {L[i] : i \in 1..Len(L)}
  BY LatestPartsType, ElementsOf DEF PanelInv
<1>2. Fits(L, streaming, ids, questions)
  BY DEF PanelInv
<1>3. \A p \in ToSet(L) : Sound(p, ids, questions) /\ \A r \in ToSet(L) : Alone(p, r)
  BY <1>2 DEF Fits
<1>4. streamed = UNION { IF p.type = "data-evidence" THEN {p.excerpt}
                         ELSE IF p.type \in Outcomes THEN p.evidence ELSE {} : p \in ToSet(L) }
  BY DEF StreamedAssistantEvidence, PanelParts
<1>5. /\ (k = 0 <=> I = {}) /\ (k # 0 => k \in I)
      /\ cited = IF k = 0 THEN {} ELSE L[k].evidenceIds
  <2>1. k = IF I # {} THEN Max(I) ELSE 0
    BY DEF SelectLastInSeq
  <2>2. cited = IF k = 0 THEN {} ELSE L[k].evidenceIds
    BY DEF ExtractCitedEvidenceIds, PanelParts
  <2>3. I \subseteq 1..Len(L)
    OBVIOUS
  <2> HIDE DEF I, k
  <2>4. I # {} => Max(I) \in I
    BY <1>1, <2>3, MaximumExists
  <2>5. \A i \in I : i # 0
    BY <1>1, <2>3
  <2> QED BY <2>1, <2>2, <2>4, <2>5
<1>6. LatestAssistantVerification = "verified" => \E i \in 1..Len(L) : Verified(L[i])
  <2> SUFFICES ASSUME LatestAssistantVerification = "verified" PROVE \E i \in 1..Len(L) : Verified(L[i])
    OBVIOUS
  <2>1. v = IF V # {} THEN Max(V) ELSE 0
    BY DEF SelectLastInSeq
  <2>2. LatestAssistantVerification = IF v = 0 THEN "none" ELSE L[v].status
    BY DEF LatestAssistantVerification, PanelParts
  <2>3. V \subseteq 1..Len(L)
    OBVIOUS
  <2>4. v # 0 /\ L[v].status = "verified"
    BY <2>2
  <2>5. v \in V
    <3> HIDE DEF V, v
    <3> QED BY <1>1, <2>1, <2>3, <2>4, MaximumExists
  <2> HIDE DEF v
  <2> QED BY <2>4, <2>5 DEF Verified
<1>7. PanelEvidence = IF cited # {} THEN {e \in streamed : e.id \in cited} ELSE streamed
  BY Zenon DEF PanelEvidence
<1> HIDE DEF k, v, cited, streamed, L, ids
<1>8. ASSUME NEW p \in ToSet(L), p.type \in Outcomes PROVE PanelEvidence = p.evidence
  <2>1. PICK i \in 1..Len(L) : p = L[i]
    BY <1>1
  <2>2. k # 0 /\ k \in I
    BY <1>5, <1>8, <2>1
  <2>3. L[k] \in ToSet(L) /\ L[k].type \in Outcomes
    BY <1>1, <2>2
  <2>4. L[k] = p
    BY <1>3, <1>8, <2>3 DEF Alone
  <2>5. cited = p.evidenceIds /\ cited # {} /\ cited = {e.id : e \in p.evidence}
    BY <1>3, <1>5, <1>8, <2>2, <2>4 DEF Sound
  <2>6. \A r \in ToSet(L) : r.type # "data-evidence" /\ (r.type \in Outcomes => r = p)
    BY <1>3, <1>8 DEF Alone
  <2>7. streamed = p.evidence
    <3>1. \A e \in streamed : e \in p.evidence
      BY <1>4, <2>6
    <3>2. \A e \in p.evidence : e \in streamed
      BY <1>4, <1>8, <2>6
    <3> QED BY <3>1, <3>2
  <2> QED BY <1>7, <2>5, <2>7
<1>9. streamed \subseteq Excerpts(ids, questions)
  <2> SUFFICES ASSUME NEW e \in streamed PROVE e \in Excerpts(ids, questions)
    OBVIOUS
  <2>1. PICK p \in ToSet(L) : \/ p.type = "data-evidence" /\ e = p.excerpt
                              \/ p.type \in Outcomes /\ e \in p.evidence
    BY <1>4
  <2> QED BY <1>3, <2>1 DEF Sound
<1>10. PanelEvidence \subseteq Excerpts(ids, questions)
  BY <1>7, <1>9
<1>11. ASSUME LatestAssistantVerification = "verified", NEW e \in Excerpts(Reconciled, questions)
       PROVE  e \in PanelEvidence
  <2>1. PICK i \in 1..Len(L) : Verified(L[i])
    BY <1>6, <1>11
  <2>2. L[i] \in ToSet(L) /\ L[i].type = "data-verification"
    BY <1>1, <2>1 DEF Verified
  <2>3. Evidence(e) \in ToSet(L)
    BY <1>2, <1>11, <2>1, <2>2 DEF Fits
  <2>4. Evidence(e).type = "data-evidence" /\ Evidence(e).excerpt = e
    BY DEF Evidence
  <2>5. e \in streamed
    BY <1>4, <2>3, <2>4
  <2>6. \A p \in ToSet(L) : p.type \notin Outcomes
    BY <1>3, <2>2 DEF Alone
  <2>7. cited = {}
    <3>1. I = {}
      BY <1>1, <2>6
    <3> QED BY <1>5, <3>1
  <2> QED BY <1>7, <2>5, <2>7
<1> QED BY <1>8, <1>10, <1>11 DEF L, ids

\* Whatever was stopped, repeated or broken off before, the page shows evidence
\* of the latest question, all of what its answer cites, and never calls an
\* answer verified without the evidence its claims rest on, for any evidence,
\* any claims and any number of questions.
THEOREM PanelIsOfLatest == PanelSpec => []PanelShowsLatestAnswer
<1>1. PanelInit => PanelInv
  <2> SUFFICES ASSUME PanelInit PROVE PanelInv
    OBVIOUS
  <2>1. messages = <<>> /\ Len(messages) = 0 /\ 1..0 = {} /\ ~busy /\ questions = 0
        /\ messages \in Seq(Message) /\ streaming \in Seq(Parts)
        /\ found \in Seq(SUBSET Sources) /\ Len(found) = 0
    BY EmptySeq DEF PanelInit
  <2> QED BY <2>1 DEF PanelInv, PanelTypes
<1> QED BY <1>1, PanelStep, PanelFollows, PTL DEF PanelSpec
=============================================================================
