---------------------------- MODULE SequenceFacts ----------------------------
(***************************************************************************)
(* Facts about queues that the proofs of the components share: which       *)
(* elements appending, taking from the front, joining and splitting leave, *)
(* whether they remain distinct, and how often an element occurs.          *)
(***************************************************************************)
EXTENDS Integers, Sequences, SequencesExt, FiniteSets, FiniteSetTheorems, SequenceTheorems, TLAPS

LEMMA ElementsOf ==
    ASSUME NEW S, NEW q \in Seq(S)
    PROVE  /\ DOMAIN q = 1..Len(q) /\ Len(q) \in Nat
           /\ \A e : e \in ToSet(q) <=> \E i \in 1..Len(q) : q[i] = e
           /\ ToSet(q) \subseteq S
BY DEF ToSet

LEMMA NoElements == ToSet(<<>>) = {} /\ IsInjective(<<>>)
BY DEF ToSet, IsInjective

LEMMA AppendFacts ==
    ASSUME NEW S, NEW q \in Seq(S), NEW e \in S
    PROVE  /\ Append(q, e) \in Seq(S) /\ Len(Append(q, e)) = Len(q) + 1
           /\ \A i \in 1..Len(q) + 1 : Append(q, e)[i] = IF i = Len(q) + 1 THEN e ELSE q[i]
           /\ ToSet(Append(q, e)) = ToSet(q) \cup {e}
           /\ IsInjective(q) /\ e \notin ToSet(q) => IsInjective(Append(q, e))
<1>1. /\ Append(q, e) \in Seq(S) /\ Len(Append(q, e)) = Len(q) + 1 /\ Len(q) \in Nat
      /\ DOMAIN q = 1..Len(q) /\ DOMAIN Append(q, e) = 1..Len(q) + 1
      /\ \A i \in 1..Len(q) + 1 : Append(q, e)[i] = IF i = Len(q) + 1 THEN e ELSE q[i]
  OBVIOUS
<1>2. ToSet(Append(q, e)) = ToSet(q) \cup {e}
  <2>1. \A x : x \in ToSet(Append(q, e)) => x \in ToSet(q) \cup {e}
    BY <1>1 DEF ToSet
  <2>2. e \in ToSet(Append(q, e))
    BY <1>1 DEF ToSet
  <2>3. \A x : x \in ToSet(q) => x \in ToSet(Append(q, e))
    BY <1>1 DEF ToSet
  <2> QED
    BY <2>1, <2>2, <2>3
<1>3. IsInjective(q) /\ e \notin ToSet(q) => IsInjective(Append(q, e))
  BY <1>1 DEF ToSet, IsInjective
<1> QED
  BY <1>1, <1>2, <1>3

LEMMA ConcatFacts ==
    ASSUME NEW S, NEW a \in Seq(S), NEW b \in Seq(S)
    PROVE  /\ a \o b \in Seq(S) /\ Len(a \o b) = Len(a) + Len(b)
           /\ \A i \in 1..Len(a) : (a \o b)[i] = a[i]
           /\ \A i \in 1..Len(b) : (a \o b)[Len(a) + i] = b[i]
           /\ \A i \in 1..Len(a) + Len(b) :
                 (a \o b)[i] = IF i <= Len(a) THEN a[i] ELSE b[i - Len(a)]
           /\ ToSet(a \o b) = ToSet(a) \cup ToSet(b)
           /\ IsInjective(a \o b) <=>
                 IsInjective(a) /\ IsInjective(b) /\ ToSet(a) \cap ToSet(b) = {}
<1>1. /\ a \o b \in Seq(S) /\ Len(a \o b) = Len(a) + Len(b)
      /\ \A i \in 1..Len(a) + Len(b) :
            (a \o b)[i] = IF i <= Len(a) THEN a[i] ELSE b[i - Len(a)]
  BY ConcatProperties
<1>2. /\ Len(a) \in Nat /\ Len(b) \in Nat
      /\ DOMAIN a = 1..Len(a) /\ DOMAIN b = 1..Len(b) /\ DOMAIN (a \o b) = 1..Len(a) + Len(b)
  BY <1>1
<1>3. /\ \A i \in 1..Len(a) : (a \o b)[i] = a[i]
      /\ \A i \in 1..Len(b) : (a \o b)[Len(a) + i] = b[i]
  BY <1>1, <1>2
<1>4. ToSet(a \o b) = ToSet(a) \cup ToSet(b)
  <2>1. \A i \in 1..Len(a) + Len(b) : (a \o b)[i] \in ToSet(a) \cup ToSet(b)
    BY <1>1, <1>2 DEF ToSet
  <2>2. ToSet(a) \subseteq ToSet(a \o b)
    BY <1>2, <1>3 DEF ToSet
  <2>3. ToSet(b) \subseteq ToSet(a \o b)
    <3> SUFFICES ASSUME NEW i \in 1..Len(b) PROVE b[i] \in ToSet(a \o b)
      BY <1>2 DEF ToSet
    <3>1. Len(a) + i \in DOMAIN (a \o b) /\ (a \o b)[Len(a) + i] = b[i]
      BY <1>2, <1>3
    <3> QED
      BY <3>1 DEF ToSet
  <2> QED
    BY <1>2, <2>1, <2>2, <2>3 DEF ToSet
<1>5. ASSUME IsInjective(a), IsInjective(b), ToSet(a) \cap ToSet(b) = {}
      PROVE  IsInjective(a \o b)
  <2> SUFFICES ASSUME NEW i \in 1..Len(a) + Len(b), NEW j \in 1..Len(a) + Len(b),
                      (a \o b)[i] = (a \o b)[j]
               PROVE  i = j
    BY <1>2 DEF IsInjective
  <2>1. CASE i <= Len(a) /\ j <= Len(a)
    BY <1>1, <1>2, <1>5, <2>1 DEF IsInjective
  <2>2. CASE i > Len(a) /\ j > Len(a)
    <3>1. i - Len(a) \in DOMAIN b /\ j - Len(a) \in DOMAIN b /\ b[i - Len(a)] = b[j - Len(a)]
      BY <1>1, <1>2, <2>2
    <3> QED
      BY <1>2, <1>5, <3>1 DEF IsInjective
  <2>3. CASE i <= Len(a) /\ j > Len(a)
    <3>1. a[i] \in ToSet(a) /\ b[j - Len(a)] \in ToSet(b) /\ a[i] = b[j - Len(a)]
      BY SMTT(30), <1>1, <1>2, <2>3 DEF ToSet
    <3> QED
      BY <1>5, <3>1
  <2>4. CASE i > Len(a) /\ j <= Len(a)
    <3>1. a[j] \in ToSet(a) /\ b[i - Len(a)] \in ToSet(b) /\ a[j] = b[i - Len(a)]
      BY <1>1, <1>2, <2>4 DEF ToSet
    <3> QED
      BY <1>5, <3>1
  <2> QED
    BY <1>2, <2>1, <2>2, <2>3, <2>4
<1>6. ASSUME IsInjective(a \o b)
      PROVE  IsInjective(a) /\ IsInjective(b) /\ ToSet(a) \cap ToSet(b) = {}
  <2>1. IsInjective(a)
    BY <1>2, <1>3, <1>6 DEF IsInjective
  <2>2. IsInjective(b)
    <3> SUFFICES ASSUME NEW i \in 1..Len(b), NEW j \in 1..Len(b), b[i] = b[j] PROVE i = j
      BY <1>2 DEF IsInjective
    <3>1. /\ Len(a) + i \in DOMAIN (a \o b) /\ Len(a) + j \in DOMAIN (a \o b)
          /\ (a \o b)[Len(a) + i] = (a \o b)[Len(a) + j]
      BY <1>2, <1>3
    <3>2. Len(a) + i = Len(a) + j
      BY <1>6, <3>1 DEF IsInjective
    <3> QED
      BY <1>2, <3>2
  <2>3. ASSUME NEW i \in 1..Len(a), NEW j \in 1..Len(b), a[i] = b[j] PROVE FALSE
    <3>1. /\ i \in DOMAIN (a \o b) /\ Len(a) + j \in DOMAIN (a \o b)
          /\ (a \o b)[i] = (a \o b)[Len(a) + j]
      BY <1>2, <1>3, <2>3
    <3>2. i = Len(a) + j
      BY <1>6, <3>1 DEF IsInjective
    <3> QED
      BY <1>2, <3>2
  <2> QED
    BY <1>2, <2>1, <2>2, <2>3 DEF ToSet
<1> QED
  BY <1>1, <1>3, <1>4, <1>5, <1>6

LEMMA HeadTailFacts ==
    ASSUME NEW S, NEW q \in Seq(S), q # <<>>
    PROVE  /\ Head(q) = q[1] /\ Head(q) \in S /\ Tail(q) \in Seq(S)
           /\ Len(q) >= 1 /\ Len(Tail(q)) = Len(q) - 1
           /\ \A i \in 1..Len(q) - 1 : Tail(q)[i] = q[i + 1]
           /\ q = <<Head(q)>> \o Tail(q)
           /\ ToSet(q) = {Head(q)} \cup ToSet(Tail(q))
           /\ IsInjective(q) => IsInjective(Tail(q)) /\ Head(q) \notin ToSet(Tail(q))
<1>1. /\ Head(q) = q[1] /\ Head(q) \in S /\ Tail(q) \in Seq(S) /\ Len(q) \in Nat
      /\ Len(q) >= 1 /\ Len(Tail(q)) = Len(q) - 1
      /\ \A i \in 1..Len(q) - 1 : Tail(q)[i] = q[i + 1]
  OBVIOUS
<1>2. <<Head(q)>> \in Seq(S) /\ ToSet(<<Head(q)>>) = {Head(q)} /\ Len(<<Head(q)>>) = 1
  BY <1>1 DEF ToSet
<1>3. q = <<Head(q)>> \o Tail(q)
  BY <1>1, <1>2
<1>4. /\ ToSet(<<Head(q)>> \o Tail(q)) = ToSet(<<Head(q)>>) \cup ToSet(Tail(q))
      /\ IsInjective(<<Head(q)>> \o Tail(q)) =>
            IsInjective(Tail(q)) /\ ToSet(<<Head(q)>>) \cap ToSet(Tail(q)) = {}
  BY <1>1, <1>2, ConcatFacts
<1> QED
  BY <1>1, <1>2, <1>3, <1>4

\* Cutting a queue in two, and handing its first element on to another one.
LEMMA SplitFacts ==
    ASSUME NEW S, NEW q \in Seq(S), NEW n \in 0..Len(q)
    PROVE  /\ SubSeq(q, 1, n) \in Seq(S) /\ SubSeq(q, n + 1, Len(q)) \in Seq(S)
           /\ Len(SubSeq(q, 1, n)) = n /\ Len(SubSeq(q, n + 1, Len(q))) = Len(q) - n
           /\ q = SubSeq(q, 1, n) \o SubSeq(q, n + 1, Len(q))
<1>1. Len(q) \in Nat
  OBVIOUS
<1>2. /\ SubSeq(q, 1, n) \in Seq(S) /\ SubSeq(q, n + 1, Len(q)) \in Seq(S)
      /\ Len(SubSeq(q, 1, n)) = n /\ Len(SubSeq(q, n + 1, Len(q))) = Len(q) - n
  BY <1>1
<1>3. SubSeq(q, 1, n) \o SubSeq(q, n + 1, Len(q)) = SubSeq(q, 1, Len(q))
  <2>1. 1 \in 1..Len(q) + 1 /\ n \in 1 - 1..Len(q) /\ Len(q) \in n..Len(q)
    BY <1>1
  <2> QED
    BY <2>1, ConcatAdjacentSubSeq
<1> QED
  BY <1>2, <1>3, SubSeqFull

\* A piece from the middle.
\* What is left of a sequence when its last element, if any, is cut off.
LEMMA FrontFacts ==
    ASSUME NEW S, NEW q \in Seq(S)
    PROVE  /\ Front(q) \in Seq(S) /\ ToSet(Front(q)) \subseteq ToSet(q)
           /\ IsInjective(q) => IsInjective(Front(q))
<1>1. CASE q = <<>>
  <2>1. Front(q) = <<>>
    BY <1>1 DEF Front
  <2> QED
    BY <1>1, <2>1
<1>2. CASE q # <<>>
  <2>1. PICK n \in Nat : n = Len(q) - 1 /\ n + 1 = Len(q)
    BY <1>2
  <2>2. Front(q) = SubSeq(q, 1, n)
    BY <2>1 DEF Front
  <2>3. /\ Front(q) \in Seq(S) /\ DOMAIN Front(q) = 1..n
        /\ \A k \in 1..n : Front(q)[k] = q[k]
    BY <2>1, <2>2
  <2>4. 1..n \subseteq DOMAIN q
    BY <2>1
  <2> QED
    BY <2>3, <2>4 DEF ToSet, IsInjective
<1> QED
  BY <1>1, <1>2

LEMMA PieceFacts ==
    ASSUME NEW S, NEW q \in Seq(S), NEW j \in Nat, NEW m \in Nat, j <= m, m <= Len(q)
    PROVE  /\ SubSeq(q, j + 1, m) \in Seq(S) /\ Len(SubSeq(q, j + 1, m)) = m - j
           /\ \A k \in 1..m - j : SubSeq(q, j + 1, m)[k] = q[j + k] /\ j + k \in 1..m
           /\ \A e : e \in ToSet(SubSeq(q, j + 1, m)) <=> \E k \in j + 1..m : q[k] = e
<1>1. /\ SubSeq(q, j + 1, m) \in Seq(S) /\ Len(SubSeq(q, j + 1, m)) = m - j
      /\ \A k \in 1..m - j : SubSeq(q, j + 1, m)[k] = q[j + k]
  <2>1. Len(q) \in Nat /\ m - j \in Nat
    OBVIOUS
  <2> QED
    BY <2>1
<1>2. \A k \in 1..m - j : j + k \in 1..m
  OBVIOUS
<1>3. ASSUME NEW e PROVE e \in ToSet(SubSeq(q, j + 1, m)) <=> \E k \in j + 1..m : q[k] = e
  <2>1. ASSUME NEW k \in 1..m - j, SubSeq(q, j + 1, m)[k] = e PROVE \E i \in j + 1..m : q[i] = e
    <3>1. j + k \in j + 1..m
      OBVIOUS
    <3> QED
      BY <1>1, <2>1, <3>1
  <2>2. ASSUME NEW k \in j + 1..m, q[k] = e
        PROVE  \E i \in 1..m - j : SubSeq(q, j + 1, m)[i] = e
    <3>1. k - j \in 1..m - j /\ j + (k - j) = k
      OBVIOUS
    <3> QED
      BY <1>1, <2>2, <3>1
  <2> QED
    BY ZenonT(30), <1>1, <2>1, <2>2, ElementsOf
<1> QED
  BY <1>1, <1>2, <1>3

LEMMA PieceGrows ==
    ASSUME NEW S, NEW q \in Seq(S), NEW j \in Nat, NEW m \in Nat, j < m, m <= Len(q)
    PROVE  Append(SubSeq(q, j + 1, m - 1), q[m]) = SubSeq(q, j + 1, m)
<1>1. /\ SubSeq(q, j + 1, m) \in Seq(S) /\ Len(SubSeq(q, j + 1, m)) = m - j
      /\ \A k \in 1..m - j : SubSeq(q, j + 1, m)[k] = q[j + k]
  BY PieceFacts
<1>2. m - 1 \in Nat /\ j <= m - 1 /\ m - 1 <= Len(q) /\ Len(q) \in Nat /\ m \in 1..Len(q)
  OBVIOUS
<1>3. /\ SubSeq(q, j + 1, m - 1) \in Seq(S) /\ Len(SubSeq(q, j + 1, m - 1)) = (m - 1) - j
      /\ \A k \in 1..(m - 1) - j : SubSeq(q, j + 1, m - 1)[k] = q[j + k]
  BY <1>2, PieceFacts
<1>4. PICK p \in Seq(S) : p = SubSeq(q, j + 1, m - 1)
  BY <1>3
<1>5. q[m] \in S
  BY <1>2
<1>6. /\ Append(p, q[m]) \in Seq(S) /\ Len(Append(p, q[m])) = m - j
      /\ \A k \in 1..m - j : Append(p, q[m])[k] = IF k = m - j THEN q[m] ELSE p[k]
  <2>1. Len(p) + 1 = m - j
    BY <1>2, <1>3, <1>4
  <2> QED
    BY <1>5, <2>1, AppendFacts
<1>7. ASSUME NEW k \in 1..m - j PROVE Append(p, q[m])[k] = SubSeq(q, j + 1, m)[k]
  <2>1. CASE k = m - j
    <3>1. j + k = m
      BY <2>1
    <3> QED
      BY <1>1, <1>6, <2>1, <3>1
  <2>2. CASE k # m - j
    <3>1. k \in 1..(m - 1) - j
      BY <2>2
    <3> QED
      BY <1>1, <1>3, <1>4, <1>6, <2>2, <3>1
  <2> QED
    BY <2>1, <2>2
<1>8. \A a, b \in Seq(S) : Len(a) = Len(b) /\ (\A k \in 1..Len(a) : a[k] = b[k]) => a = b
  OBVIOUS
<1> QED
  BY <1>1, <1>4, <1>6, <1>7, <1>8

LEMMA PieceOfLonger ==
    ASSUME NEW S, NEW q \in Seq(S), NEW e \in S, NEW j \in Nat, j <= Len(q)
    PROVE  SubSeq(Append(q, e), j + 1, Len(q)) = SubSeq(q, j + 1, Len(q))
<1>1. PICK m \in Nat : m = Len(q)
  OBVIOUS
<1>2. /\ Append(q, e) \in Seq(S) /\ Len(Append(q, e)) = m + 1
      /\ \A k \in 1..m : Append(q, e)[k] = q[k]
  BY <1>1, AppendFacts
<1>3. /\ SubSeq(q, j + 1, m) \in Seq(S) /\ Len(SubSeq(q, j + 1, m)) = m - j
      /\ \A k \in 1..m - j : SubSeq(q, j + 1, m)[k] = q[j + k] /\ j + k \in 1..m
  BY <1>1, PieceFacts
<1>4. /\ SubSeq(Append(q, e), j + 1, m) \in Seq(S) /\ Len(SubSeq(Append(q, e), j + 1, m)) = m - j
      /\ \A k \in 1..m - j : SubSeq(Append(q, e), j + 1, m)[k] = Append(q, e)[j + k]
  BY <1>1, <1>2, PieceFacts
<1>5. \A a, b \in Seq(S) : Len(a) = Len(b) /\ (\A k \in 1..Len(a) : a[k] = b[k]) => a = b
  OBVIOUS
<1> QED
  BY <1>1, <1>2, <1>3, <1>4, <1>5

LEMMA HandOver ==
    ASSUME NEW S, NEW a \in Seq(S), NEW b \in Seq(S), b # <<>>
    PROVE  Append(a, Head(b)) \o Tail(b) = a \o b
<1>1. /\ Head(b) \in S /\ Tail(b) \in Seq(S) /\ <<Head(b)>> \in Seq(S)
      /\ b = <<Head(b)>> \o Tail(b) /\ Append(a, Head(b)) = a \o <<Head(b)>>
  BY HeadTailFacts, AppendIsConcat
<1>2. (a \o <<Head(b)>>) \o Tail(b) = a \o (<<Head(b)>> \o Tail(b))
  BY <1>1, ConcatAssociative
<1> QED
  BY <1>1, <1>2
-----------------------------------------------------------------------------
(* Where in a queue there is something of E, and how often.                  *)
PositionsOf(q, E) == {i \in DOMAIN q : q[i] \in E}

LEMMA PlacesAreFinite ==
    ASSUME NEW S, NEW q \in Seq(S), NEW E
    PROVE  IsFiniteSet(PositionsOf(q, E)) /\ Cardinality(PositionsOf(q, E)) \in Nat
<1>1. IsFiniteSet(1..Len(q)) /\ PositionsOf(q, E) \in SUBSET (1..Len(q))
  BY FS_Interval DEF PositionsOf
<1> QED
  BY <1>1, FS_Subset, FS_CardinalityType

LEMMA PlacesShort ==
    ASSUME NEW E
    PROVE  PositionsOf(<<>>, E) = {} /\ Cardinality(PositionsOf(<<>>, E)) = 0
BY FS_EmptySet DEF PositionsOf

LEMMA PlacesAppended ==
    ASSUME NEW S, NEW q \in Seq(S), NEW e \in S, NEW E
    PROVE  /\ PositionsOf(Append(q, e), E) = PositionsOf(q, E) \cup (IF e \in E THEN {Len(q) + 1} ELSE {})
           /\ Cardinality(PositionsOf(Append(q, e), E))
                 = Cardinality(PositionsOf(q, E)) + IF e \in E THEN 1 ELSE 0
<1>1. /\ DOMAIN q = 1..Len(q) /\ DOMAIN Append(q, e) = 1..Len(q) + 1 /\ Len(q) \in Nat
      /\ \A i \in 1..Len(q) + 1 : Append(q, e)[i] = IF i = Len(q) + 1 THEN e ELSE q[i]
  BY AppendFacts
<1>2. PositionsOf(Append(q, e), E) = PositionsOf(q, E) \cup (IF e \in E THEN {Len(q) + 1} ELSE {})
  BY <1>1 DEF PositionsOf
<1>3. Len(q) + 1 \notin PositionsOf(q, E)
  BY <1>1 DEF PositionsOf
<1>4. IsFiniteSet(PositionsOf(q, E)) /\ Cardinality(PositionsOf(q, E)) \in Nat
  BY PlacesAreFinite
<1>5. Cardinality(PositionsOf(q, E) \cup {Len(q) + 1}) = Cardinality(PositionsOf(q, E)) + 1
  BY <1>3, <1>4, FS_AddElement
<1>6. PositionsOf(q, E) \cup {} = PositionsOf(q, E) /\ Cardinality(PositionsOf(q, E)) + 0 = Cardinality(PositionsOf(q, E))
  BY <1>4
<1> QED
  BY <1>2, <1>5, <1>6

\* All but the first place move one to the front.
LEMMA PlacesTaken ==
    ASSUME NEW S, NEW q \in Seq(S), q # <<>>, NEW E
    PROVE  Cardinality(PositionsOf(q, E))
              = Cardinality(PositionsOf(Tail(q), E)) + IF Head(q) \in E THEN 1 ELSE 0
<1> DEFINE A == PositionsOf(Tail(q), E)
           B == PositionsOf(q, E) \ {1}
<1>1. /\ DOMAIN q = 1..Len(q) /\ DOMAIN Tail(q) = 1..Len(q) - 1 /\ Len(q) \in Nat /\ Len(q) >= 1
      /\ \A i \in 1..Len(q) - 1 : Tail(q)[i] = q[i + 1]
      /\ Head(q) = q[1] /\ Tail(q) \in Seq(S)
  BY HeadTailFacts
<1>2. IsFiniteSet(A) /\ Cardinality(A) \in Nat /\ IsFiniteSet(PositionsOf(q, E))
      /\ Cardinality(PositionsOf(q, E)) \in Nat
  BY <1>1, PlacesAreFinite
<1>3. Cardinality(B) = Cardinality(A)
  <2>1. A \subseteq Nat /\ B \subseteq Nat /\ \A i \in Nat : i \in A <=> i + 1 \in B
    <3>1. A \subseteq Nat /\ B \subseteq Nat
      BY <1>1 DEF PositionsOf
    <3>2. ASSUME NEW i \in 1..Len(q) - 1 PROVE i \in A <=> i + 1 \in B
      <4>1. i + 1 \in 1..Len(q) /\ i + 1 # 1
        BY <1>1
      <4> QED
        BY <1>1, <4>1 DEF PositionsOf
    <3>3. ASSUME NEW i \in Nat, i \notin 1..Len(q) - 1 PROVE i \notin A /\ i + 1 \notin B
      <4>1. i + 1 \notin 1..Len(q) \/ i + 1 = 1
        BY <1>1, <3>3
      <4> QED
        BY <1>1, <3>3, <4>1 DEF PositionsOf
    <3> QED
      BY <3>1, <3>2, <3>3
  <2>2. PICK f : f = [i \in A |-> i + 1]
    OBVIOUS
  <2>3. f \in [A -> B] /\ \A i, j \in A : f[i] = f[j] => i = j
    BY <2>1, <2>2
  <2>4. ASSUME NEW k \in B PROVE \E i \in A : f[i] = k
    <3>1. k \in Nat /\ k # 0 /\ k - 1 \in Nat /\ (k - 1) + 1 = k
      BY <1>1, <2>1 DEF PositionsOf
    <3>2. k - 1 \in A
      BY <2>1, <3>1
    <3> QED
      BY <2>2, <3>1, <3>2
  <2> HIDE DEF A, B
  <2>5. f \in Bijection(A, B)
    BY <2>3, <2>4 DEF Bijection, Injection, Surjection, IsInjective
  <2> QED
    BY <1>2, <2>5, FS_Bijection DEF ExistsBijection
<1>4. Cardinality(B) = IF 1 \in PositionsOf(q, E) THEN Cardinality(PositionsOf(q, E)) - 1
                       ELSE Cardinality(PositionsOf(q, E))
  BY <1>2, FS_RemoveElement
<1>5. 1 \in PositionsOf(q, E) <=> Head(q) \in E
  BY <1>1 DEF PositionsOf
<1> HIDE DEF A, B
<1> QED
  BY <1>2, <1>3, <1>4, <1>5 DEF A
-----------------------------------------------------------------------------
\* The places of one element in a queue of distinct ones.
LEMMA OnePosition ==
    ASSUME NEW S, NEW q \in Seq(S), IsInjective(q), NEW e
    PROVE  /\ e \in ToSet(q) => \E i \in DOMAIN q : {j \in DOMAIN q : q[j] = e} = {i}
           /\ e \notin ToSet(q) => {j \in DOMAIN q : q[j] = e} = {}
BY DEF ToSet, IsInjective
-----------------------------------------------------------------------------
(* Queues in which only the elements of E are distinct.                      *)
OnceIn(q, E) == \A i, j \in DOMAIN q : q[i] = q[j] /\ q[i] \in E => i = j

LEMMA OncePosition ==
    ASSUME NEW S, NEW q \in Seq(S), NEW E, OnceIn(q, E), NEW e \in E
    PROVE  /\ e \in ToSet(q) => \E i \in DOMAIN q : {j \in DOMAIN q : q[j] = e} = {i}
           /\ e \notin ToSet(q) => {j \in DOMAIN q : q[j] = e} = {}
BY DEF ToSet, OnceIn

LEMMA OnceShort == ASSUME NEW E PROVE OnceIn(<<>>, E)
BY DEF OnceIn

LEMMA OnceAppended ==
    ASSUME NEW S, NEW q \in Seq(S), NEW E, OnceIn(q, E), NEW e \in S,
           e \in E => e \notin ToSet(q)
    PROVE  OnceIn(Append(q, e), E)
<1>1. /\ DOMAIN q = 1..Len(q) /\ DOMAIN Append(q, e) = 1..Len(q) + 1 /\ Len(q) \in Nat
      /\ \A i \in 1..Len(q) + 1 : Append(q, e)[i] = IF i = Len(q) + 1 THEN e ELSE q[i]
  BY AppendFacts
<1> QED
  BY <1>1 DEF OnceIn, ToSet

LEMMA OnceTaken ==
    ASSUME NEW S, NEW q \in Seq(S), q # <<>>, NEW E, OnceIn(q, E)
    PROVE  OnceIn(Tail(q), E) /\ (Head(q) \in E => Head(q) \notin ToSet(Tail(q)))
<1>1. /\ DOMAIN q = 1..Len(q) /\ Len(q) \in Nat /\ Len(q) >= 1 /\ Head(q) = q[1]
      /\ DOMAIN Tail(q) = 1..Len(q) - 1
      /\ \A i \in 1..Len(q) - 1 : Tail(q)[i] = q[i + 1]
  BY HeadTailFacts
<1>2. OnceIn(Tail(q), E)
  <2> SUFFICES ASSUME NEW i \in 1..Len(q) - 1, NEW j \in 1..Len(q) - 1,
                      Tail(q)[i] = Tail(q)[j], Tail(q)[i] \in E
               PROVE  i = j
    BY <1>1 DEF OnceIn
  <2>1. i + 1 \in DOMAIN q /\ j + 1 \in DOMAIN q /\ q[i + 1] = q[j + 1] /\ q[i + 1] \in E
    BY <1>1
  <2>2. i + 1 = j + 1
    BY <2>1 DEF OnceIn
  <2> QED
    BY <2>2
<1>3. ASSUME Head(q) \in E, NEW i \in 1..Len(q) - 1, Tail(q)[i] = Head(q) PROVE FALSE
  <2>1. i + 1 \in DOMAIN q /\ 1 \in DOMAIN q /\ q[i + 1] = q[1] /\ q[1] \in E
    BY <1>1, <1>3
  <2>2. i + 1 = 1
    BY <2>1 DEF OnceIn
  <2> QED
    BY <2>2
<1> QED
  BY <1>1, <1>2, <1>3 DEF ToSet

\* The arrangements of a finite set hold its elements, each once.
LEMMA ArrangementFacts ==
    ASSUME NEW S, IsFiniteSet(S), NEW q \in SetToSeqs(S)
    PROVE  q \in Seq(S) /\ ToSet(q) = S /\ IsInjective(q)
<1> DEFINE D == 1..Cardinality(S)
<1>1. Cardinality(S) \in Nat /\ IsFiniteSet(D) /\ Cardinality(D) = Cardinality(S)
  <2>1. Cardinality(S) \in Nat
    BY FS_CardinalityType
  <2> QED
    BY <2>1, FS_Interval
<1>2. q \in [D -> S] /\ \A i, j \in D : i # j => q[i] # q[j]
  BY DEF SetToSeqs
<1>3. q \in Seq(S)
  BY <1>1, <1>2, IsASeq
<1>4. IsInjective(q)
  BY <1>2 DEF IsInjective
<1>5. q \in Surjection(D, S)
  <2>1. q \in Injection(D, S)
    BY <1>2, <1>4 DEF Injection
  <2> QED
    BY <1>1, <2>1, FS_Injection
<1>6. ToSet(q) = S
  <2>1. \A x \in S : \E i \in D : q[i] = x
    BY <1>5 DEF Surjection
  <2> QED
    BY <1>2, <2>1 DEF ToSet
<1> QED
  BY <1>3, <1>4, <1>6
-----------------------------------------------------------------------------
(* Queues that follow the order of another one, a.                           *)
Before(a, d, e) == \E m, n \in DOMAIN a : m < n /\ a[m] = d /\ a[n] = e

Follows(q, a) == \A i, j \in DOMAIN q : i < j => Before(a, q[i], q[j])

LEMMA BeforeGrows ==
    ASSUME NEW S, NEW a \in Seq(S), NEW x \in S
    PROVE  /\ \A d, e : Before(a, d, e) => Before(Append(a, x), d, e)
           /\ \A d \in ToSet(a) : Before(Append(a, x), d, x)
           /\ \A q : Follows(q, a) => Follows(q, Append(a, x))
<1>1. /\ DOMAIN Append(a, x) = 1..Len(a) + 1 /\ DOMAIN a = 1..Len(a) /\ Len(a) \in Nat
      /\ \A i \in DOMAIN a : Append(a, x)[i] = a[i]
      /\ Append(a, x)[Len(a) + 1] = x
  BY AppendFacts
<1>2. \A d, e : Before(a, d, e) => Before(Append(a, x), d, e)
  BY <1>1 DEF Before
<1>3. ASSUME NEW d \in ToSet(a) PROVE Before(Append(a, x), d, x)
  <2>1. PICK i \in 1..Len(a) : a[i] = d
    BY <1>1 DEF ToSet
  <2>2. i \in DOMAIN Append(a, x) /\ Len(a) + 1 \in DOMAIN Append(a, x) /\ i < Len(a) + 1
    BY <1>1
  <2> QED
    BY <1>1, <2>1, <2>2 DEF Before
<1> QED
  BY <1>2, <1>3 DEF Follows

LEMMA FollowsJoined ==
    ASSUME NEW S, NEW p \in Seq(S), NEW q \in Seq(S), NEW a
    PROVE  Follows(p \o q, a) <=>
              /\ Follows(p, a) /\ Follows(q, a)
              /\ \A d \in ToSet(p), e \in ToSet(q) : Before(a, d, e)
<1>1. /\ Len(p) \in Nat /\ Len(q) \in Nat
      /\ DOMAIN p = 1..Len(p) /\ DOMAIN q = 1..Len(q) /\ DOMAIN (p \o q) = 1..Len(p) + Len(q)
      /\ \A i \in 1..Len(p) : (p \o q)[i] = p[i]
      /\ \A i \in 1..Len(q) : (p \o q)[Len(p) + i] = q[i]
      /\ \A i \in 1..Len(p) + Len(q) : (p \o q)[i] = IF i <= Len(p) THEN p[i] ELSE q[i - Len(p)]
  BY ConcatFacts, ElementsOf
<1>2. ASSUME Follows(p \o q, a)
      PROVE  /\ Follows(p, a) /\ Follows(q, a)
             /\ \A d \in ToSet(p), e \in ToSet(q) : Before(a, d, e)
  <2>1. Follows(p, a)
    BY <1>1, <1>2 DEF Follows
  <2>2. Follows(q, a)
    <3> SUFFICES ASSUME NEW i \in 1..Len(q), NEW j \in 1..Len(q), i < j
                 PROVE  Before(a, q[i], q[j])
      BY <1>1 DEF Follows
    <3>1. Len(p) + i \in DOMAIN (p \o q) /\ Len(p) + j \in DOMAIN (p \o q) /\ Len(p) + i < Len(p) + j
      BY <1>1
    <3>2. Before(a, (p \o q)[Len(p) + i], (p \o q)[Len(p) + j])
      BY <1>2, <3>1 DEF Follows
    <3> QED
      BY <1>1, <3>2
  <2>3. ASSUME NEW i \in 1..Len(p), NEW j \in 1..Len(q) PROVE Before(a, p[i], q[j])
    <3>1. i \in DOMAIN (p \o q) /\ Len(p) + j \in DOMAIN (p \o q) /\ i < Len(p) + j
      BY <1>1
    <3>2. Before(a, (p \o q)[i], (p \o q)[Len(p) + j])
      BY <1>2, <3>1 DEF Follows
    <3> QED
      BY <1>1, <3>2
  <2> QED
    BY <1>1, <2>1, <2>2, <2>3 DEF ToSet
<1>3. ASSUME Follows(p, a), Follows(q, a), \A d \in ToSet(p), e \in ToSet(q) : Before(a, d, e)
      PROVE  Follows(p \o q, a)
  <2> SUFFICES ASSUME NEW i \in 1..Len(p) + Len(q), NEW j \in 1..Len(p) + Len(q), i < j
               PROVE  Before(a, (p \o q)[i], (p \o q)[j])
    BY <1>1 DEF Follows
  <2>1. CASE j <= Len(p)
    <3>1. (p \o q)[i] = p[i] /\ (p \o q)[j] = p[j] /\ i \in DOMAIN p /\ j \in DOMAIN p
      BY <1>1, <2>1
    <3> QED
      BY <1>3, <3>1 DEF Follows
  <2>2. CASE i > Len(p)
    <3>1. /\ (p \o q)[i] = q[i - Len(p)] /\ (p \o q)[j] = q[j - Len(p)]
          /\ i - Len(p) \in DOMAIN q /\ j - Len(p) \in DOMAIN q /\ i - Len(p) < j - Len(p)
      BY <1>1, <2>2
    <3> QED
      BY <1>3, <3>1 DEF Follows
  <2>3. CASE i <= Len(p) /\ j > Len(p)
    <3>1. /\ (p \o q)[i] = p[i] /\ (p \o q)[j] = q[j - Len(p)]
          /\ i \in DOMAIN p /\ j - Len(p) \in DOMAIN q
      BY <1>1, <2>3
    <3> QED
      BY <1>3, <3>1 DEF ToSet
  <2> QED
    BY <1>1, <2>1, <2>2, <2>3
<1> QED
  BY <1>2, <1>3

LEMMA FollowsShort ==
    ASSUME NEW a
    PROVE  Follows(<<>>, a) /\ \A e : Follows(<<e>>, a)
BY DEF Follows
=============================================================================
