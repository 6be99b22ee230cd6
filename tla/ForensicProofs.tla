--------------------------- MODULE ForensicProofs --------------------------
(***************************************************************************)
(* For any stream of filesystem events and any capacities: the timeline's  *)
(* indices answer with the kept events, its creations and deletions are    *)
(* those of the stream, what the correlation rules report is there too,    *)
(* the graph's map knows the graph's nodes, and its subgraphs stay near.   *)
(* For any log, table and journal of a volume in use: the ghosts are the   *)
(* records the journal lacks, as often as they are come by, and the two    *)
(* ways of matching the table with the journal agree about what was left   *)
(* alone.                                                                  *)
(***************************************************************************)
EXTENDS FilesystemHistory, VolumeForensics, SequenceFacts, WellFoundedInduction

LEMMA LeastIs ==
    ASSUME NEW S, S \subseteq Nat, S # {}
    PROVE  Min(S) \in S /\ \A n \in S : Min(S) <= n
<1>1. IsWellFoundedOn(OpToRel(<, Nat), Nat)
  BY NatLessThanWellFounded
<1>2. \E m \in S : \A k \in S : <<k, m>> \notin OpToRel(<, Nat)
  BY <1>1, WFMin
<1>3. \A k, m \in Nat : k < m => <<k, m>> \in OpToRel(<, Nat)
  BY DEF OpToRel
<1>4. PICK m \in S : \A k \in S : <<k, m>> \notin OpToRel(<, Nat)
  BY <1>2
<1>5. ASSUME NEW k \in S PROVE m <= k
  <2>1. ~(k < m)
    BY <1>3, <1>4
  <2> QED
    BY <2>1
<1>6. \E x \in S : \A y \in S : x <= y
  BY <1>5
<1> QED
  BY <1>6 DEF Min

LEMMA GreatestIs ==
    ASSUME NEW b \in Nat, NEW S, S \subseteq 0..b, S # {}
    PROVE  Max(S) \in S /\ \A n \in S : Max(S) >= n
<1> DEFINE T == {k \in 0..b : b - k \in S}
<1>1. T \subseteq Nat /\ T # {}
  <2>1. PICK n \in 0..b : n \in S
    OBVIOUS
  <2>2. b - n \in 0..b /\ b - (b - n) = n
    OBVIOUS
  <2> QED
    BY <2>1, <2>2
<1>2. PICK m \in T : \A k \in T : m <= k
  BY <1>1, LeastIs
<1>3. b - m \in S
  BY <1>2
<1>4. ASSUME NEW n \in S PROVE b - m >= n
  <2>1. n \in 0..b /\ b - n \in 0..b /\ b - (b - n) = n
    OBVIOUS
  <2>2. m <= b - n /\ m \in 0..b
    BY <1>2, <2>1
  <2> QED
    BY <2>1, <2>2
<1>5. \E x \in S : \A y \in S : x >= y
  BY <1>3, <1>4
<1> QED
  BY <1>5 DEF Max

-----------------------------------------------------------------------------
(* Positions in order.                                                       *)
Rank(S, i) == Cardinality({j \in S : j <= i})

LEMMA RankFacts ==
    ASSUME NEW n \in Nat, NEW S \in SUBSET (1..n)
    PROVE  /\ IsFiniteSet(S) /\ Cardinality(S) \in Nat
           /\ \A i \in S : Rank(S, i) \in 1..Cardinality(S)
           /\ \A i, j \in S : i < j => Rank(S, i) < Rank(S, j)
           /\ \A k \in 1..Cardinality(S) : \E i \in S : Rank(S, i) = k
<1>0. \A i \in S : i \in Int
  OBVIOUS
<1>1. /\ IsFiniteSet(S) /\ Cardinality(S) \in Nat
      /\ \A i \in Int : IsFiniteSet({j \in S : j <= i}) /\ Rank(S, i) \in Nat /\ Rank(S, i) <= Cardinality(S)
  <2>1. IsFiniteSet(S) /\ Cardinality(S) \in Nat
    <3>1. IsFiniteSet(1..n)
      BY FS_Interval
    <3>2. IsFiniteSet(S)
      BY <3>1, FS_Subset
    <3> QED
      BY <3>2, FS_CardinalityType
  <2>2. ASSUME NEW i \in Int
        PROVE  IsFiniteSet({j \in S : j <= i}) /\ Rank(S, i) \in Nat /\ Rank(S, i) <= Cardinality(S)
    <3>1. {j \in S : j <= i} \in SUBSET S
      OBVIOUS
    <3> QED
      BY <2>1, <3>1, FS_Subset, FS_CardinalityType DEF Rank
  <2> QED
    BY <2>1, <2>2
<1>2. ASSUME NEW i \in S, NEW j \in S, i < j PROVE Rank(S, i) < Rank(S, j)
  <2> DEFINE A == {k \in S : k <= i}
  <2>1. IsFiniteSet(A) /\ j \notin A /\ A \cup {j} \in SUBSET {k \in S : k <= j} /\ j \in Int
    <3>1. i \in Int /\ j \in Int
      BY <1>0
    <3>2. IsFiniteSet(A)
      BY <1>1, <3>1
    <3>3. j \notin A
      BY <1>2, <3>1
    <3>4. \A k \in A \cup {j} : k \in S /\ k <= j
      BY <1>0, <1>2, <3>1
    <3> QED
      BY <3>1, <3>2, <3>3, <3>4
  <2>2. Cardinality(A \cup {j}) = Cardinality(A) + 1
    BY <2>1, FS_AddElement
  <2>3. IsFiniteSet({k \in S : k <= j})
    BY <1>1, <2>1
  <2>4. Cardinality(A \cup {j}) <= Rank(S, j)
    BY <2>1, <2>3, FS_Subset DEF Rank
  <2> QED
    BY <1>1, <2>2, <2>4 DEF Rank
<1>3. ASSUME NEW i \in S PROVE Rank(S, i) \in 1..Cardinality(S)
  <2>1. {j \in S : j <= i} # {} /\ i \in Int
    BY <1>0
  <2>2. Rank(S, i) # 0
    BY <1>1, <2>1, FS_EmptySet DEF Rank
  <2>3. Rank(S, i) \in Nat /\ Rank(S, i) <= Cardinality(S) /\ Cardinality(S) \in Nat
    BY <1>1, <2>1
  <2> QED
    BY <2>2, <2>3
<1>4. \A k \in 1..Cardinality(S) : \E i \in S : Rank(S, i) = k
  <2> DEFINE rank == [i \in S |-> Rank(S, i)]
             D == 1..Cardinality(S)
  <2>1. rank \in Injection(S, D)
    <3>1. rank \in [S -> D]
      BY <1>3
    <3>2. ASSUME NEW i \in S, NEW j \in S, rank[i] = rank[j] PROVE i = j
      <4>1. ~(i < j) /\ ~(j < i)
        BY <1>2, <1>3, <3>2
      <4> QED
        BY <4>1
    <3> QED
      BY <3>1, <3>2 DEF Injection, IsInjective
  <2>2. IsFiniteSet(D) /\ Cardinality(D) = Cardinality(S)
    BY <1>1, FS_Interval
  <2>3. rank \in Surjection(S, D)
    BY <2>1, <2>2, FS_Injection
  <2> QED
    BY <2>3 DEF Surjection
<1> QED
  BY <1>1, <1>2, <1>3, <1>4

LEMMA InOrderFacts ==
    ASSUME NEW n \in Nat, NEW S \in SUBSET (1..n)
    PROVE  /\ InOrder(S) \in Seq(S) /\ Len(InOrder(S)) = Cardinality(S)
           /\ DOMAIN InOrder(S) = 1..Cardinality(S) /\ Cardinality(S) \in Nat
           /\ \A k \in DOMAIN InOrder(S) : InOrder(S)[k] \in S /\ Rank(S, InOrder(S)[k]) = k
           /\ \A k, l \in DOMAIN InOrder(S) : k < l => InOrder(S)[k] < InOrder(S)[l]
           /\ \A i \in S : Rank(S, i) \in DOMAIN InOrder(S) /\ InOrder(S)[Rank(S, i)] = i
<1> DEFINE N == Cardinality(S)
           q == InOrder(S)
<1>1. /\ N \in Nat /\ \A i \in S : Rank(S, i) \in 1..N
      /\ \A i, j \in S : i < j => Rank(S, i) < Rank(S, j)
      /\ \A k \in 1..N : \E i \in S : Rank(S, i) = k
  BY RankFacts
<1>2. DOMAIN q = 1..N /\ \A k \in 1..N : q[k] = CHOOSE i \in S : Rank(S, i) = k
  BY DEF InOrder, Rank
<1>3. \A k \in 1..N : q[k] \in S /\ Rank(S, q[k]) = k
  BY <1>1, <1>2
<1>4. q \in Seq(S) /\ Len(q) = N
  <2>1. q \in [1..N -> S]
    <3>1. q = [k \in 1..N |-> q[k]]
      BY DEF InOrder
    <3> QED
      BY <1>3, <3>1
  <2> QED
    BY <1>1, <2>1, IsASeq
<1>5. ASSUME NEW i \in S, NEW j \in S, Rank(S, i) = Rank(S, j) PROVE i = j
  <2>1. ~(i < j) /\ ~(j < i)
    BY <1>1, <1>5
  <2> QED
    BY <2>1
<1>6. ASSUME NEW k \in 1..N, NEW l \in 1..N, k < l PROVE q[k] < q[l]
  <2>1. q[k] \in S /\ q[l] \in S /\ Rank(S, q[k]) = k /\ Rank(S, q[l]) = l
    BY <1>3
  <2>2. ~(q[l] < q[k]) /\ q[l] # q[k]
    <3>1. q[l] < q[k] => l < k
      BY <1>1, <2>1
    <3> QED
      BY <1>6, <2>1, <3>1
  <2>3. q[k] \in Int /\ q[l] \in Int
    <3>1. \A i \in S : i \in Int
      OBVIOUS
    <3> QED
      BY <2>1, <3>1
  <2> QED
    BY <2>2, <2>3
<1>7. ASSUME NEW i \in S PROVE q[Rank(S, i)] = i
  BY <1>1, <1>3, <1>5
<1> QED
  BY <1>1, <1>2, <1>3, <1>4, <1>6, <1>7

LEMMA InOrderGrows ==
    ASSUME NEW n \in Nat, NEW S \in SUBSET (1..n)
    PROVE  InOrder(S \cup {n + 1}) = Append(InOrder(S), n + 1)
<1> DEFINE T == S \cup {n + 1}
           q == InOrder(S)
           r == InOrder(T)
           N == Cardinality(S)
<1>1. /\ q \in Seq(S) /\ Len(q) = N /\ DOMAIN q = 1..N /\ N \in Nat
      /\ \A k \in 1..N : q[k] \in S /\ Rank(S, q[k]) = k
      /\ \A i \in S : Rank(S, i) \in 1..N /\ q[Rank(S, i)] = i
  BY InOrderFacts
<1>2. T \in SUBSET (1..n + 1) /\ n + 1 \in Nat /\ n + 1 \notin S /\ IsFiniteSet(S) /\ \A i \in S : i \in Int /\ i <= n
  <2>1. \A i \in S : i \in 1..n
    OBVIOUS
  <2>2. \A i \in T : i \in 1..n + 1
    BY <2>1
  <2> QED
    <3>1. IsFiniteSet(S)
      BY RankFacts
    <3>2. T \in SUBSET (1..n + 1)
      BY <2>2
    <3> QED
      BY <2>1, <3>1, <3>2
<1>3. Cardinality(T) = N + 1
  BY <1>2, FS_AddElement
<1>4. /\ r \in Seq(T) /\ Len(r) = N + 1 /\ DOMAIN r = 1..N + 1
      /\ \A k \in 1..N + 1 : r[k] \in T /\ Rank(T, r[k]) = k
      /\ \A i \in T : Rank(T, i) \in 1..N + 1 /\ r[Rank(T, i)] = i
  <2>1. n + 1 \in Nat
    OBVIOUS
  <2> HIDE DEF T, r
  <2>2. /\ InOrder(T) \in Seq(T) /\ Len(InOrder(T)) = Cardinality(T)
        /\ DOMAIN InOrder(T) = 1..Cardinality(T)
        /\ \A k \in DOMAIN InOrder(T) : InOrder(T)[k] \in T /\ Rank(T, InOrder(T)[k]) = k
        /\ \A i \in T : Rank(T, i) \in DOMAIN InOrder(T) /\ InOrder(T)[Rank(T, i)] = i
    BY <1>2, <2>1, InOrderFacts
  <2> QED
    BY <1>3, <2>2 DEF r
<1>5. \A i \in S : Rank(T, i) = Rank(S, i)
  <2> SUFFICES ASSUME NEW i \in S PROVE {j \in T : j <= i} = {j \in S : j <= i}
    BY DEF Rank
  <2>1. i \in Int /\ i <= n
    BY <1>2
  <2> QED
    BY <2>1
<1>6. Rank(T, n + 1) = N + 1
  <2>1. \A j \in T : j <= n + 1
    BY <1>2
  <2>2. {j \in T : j <= n + 1} = T
    BY <2>1
  <2> QED
    BY <1>3, <2>2 DEF Rank
<1>7. r[N + 1] = n + 1
  BY <1>4, <1>6
<1>8. ASSUME NEW k \in 1..N PROVE r[k] = q[k]
  <2>1. q[k] \in S /\ Rank(T, q[k]) = k
    BY <1>1, <1>5
  <2> QED
    BY <1>4, <2>1
<1>9. /\ Append(q, n + 1) \in Seq(T) /\ Len(Append(q, n + 1)) = N + 1
      /\ \A k \in 1..N + 1 : Append(q, n + 1)[k] = IF k = N + 1 THEN n + 1 ELSE q[k]
  <2>1. q \in Seq(T) /\ n + 1 \in T
    BY <1>1, <1>4, SeqMonotonic
  <2> QED
    BY <1>1, <2>1, AppendFacts
<1>10. \A k \in 1..N + 1 : r[k] = Append(q, n + 1)[k]
  <2> SUFFICES ASSUME NEW k \in 1..N + 1 PROVE r[k] = Append(q, n + 1)[k]
    OBVIOUS
  <2>1. CASE k = N + 1
    BY <1>7, <1>9, <2>1
  <2>2. CASE k # N + 1
    <3>1. k \in 1..N
      BY <1>1, <2>2
    <3> QED
      BY <1>8, <1>9, <2>2, <3>1
  <2> QED
    BY <2>1, <2>2
<1> HIDE DEF T, r, q
<1>11. r = Append(q, n + 1)
  BY <1>4, <1>9, <1>10, SeqEqual
<1> QED
  BY <1>11 DEF T, r, q
-----------------------------------------------------------------------------
(* The timeline's indices.                                                   *)
FileEvent == [frn : Files, parent : Directories, name : Names, reason : SUBSET Reasons,
          pid : Pids \cup {NoPid}, usn : Nat, time : Int]

OfFile(f) == {x \in FileEvent : x.frn = f}
OfDirectory(d) == {x \in FileEvent : x.parent = d}
OfName(n) == {x \in FileEvent : x.name = n}
At(q, E) == InOrder(PositionsOf(q, E))

IndexInv ==
    /\ events \in Seq(FileEvent)
    /\ DOMAIN byFrn = Files /\ \A f \in Files : byFrn[f] = At(events, OfFile(f))
    /\ DOMAIN byParent = Directories /\ \A d \in Directories : byParent[d] = At(events, OfDirectory(d))
    /\ DOMAIN byPath = Names /\ \A n \in Names : byPath[n] = At(events, OfName(n))

LEMMA AtFacts ==
    ASSUME NEW S, NEW q \in Seq(S), NEW E
    PROVE  /\ At(q, E) \in Seq(1..Len(q)) /\ Len(q) \in Nat
           /\ DOMAIN At(q, E) = 1..Len(At(q, E)) /\ Len(At(q, E)) \in Nat
           /\ \A k \in DOMAIN At(q, E) : At(q, E)[k] \in 1..Len(q) /\ q[At(q, E)[k]] \in E
           /\ \A k, l \in DOMAIN At(q, E) : k < l => At(q, E)[k] < At(q, E)[l]
           /\ \A i \in 1..Len(q) : q[i] \in E => \E k \in DOMAIN At(q, E) : At(q, E)[k] = i
<1> DEFINE P == PositionsOf(q, E)
<1>1. Len(q) \in Nat /\ P \in SUBSET (1..Len(q)) /\ \A i \in 1..Len(q) : i \in P <=> q[i] \in E
  BY DEF PositionsOf
<1> HIDE DEF P
<1>2. /\ InOrder(P) \in Seq(P) /\ Len(InOrder(P)) = Cardinality(P) /\ Cardinality(P) \in Nat
      /\ DOMAIN InOrder(P) = 1..Cardinality(P)
      /\ \A k \in DOMAIN InOrder(P) : InOrder(P)[k] \in P
      /\ \A k, l \in DOMAIN InOrder(P) : k < l => InOrder(P)[k] < InOrder(P)[l]
      /\ \A i \in P : \E k \in DOMAIN InOrder(P) : InOrder(P)[k] = i
  <2>1. \A i \in P : Rank(P, i) \in DOMAIN InOrder(P) /\ InOrder(P)[Rank(P, i)] = i
    BY <1>1, InOrderFacts
  <2>2. /\ InOrder(P) \in Seq(P) /\ Len(InOrder(P)) = Cardinality(P) /\ Cardinality(P) \in Nat
        /\ DOMAIN InOrder(P) = 1..Cardinality(P)
    BY <1>1, InOrderFacts
  <2>3. /\ \A k \in DOMAIN InOrder(P) : InOrder(P)[k] \in P
        /\ \A k, l \in DOMAIN InOrder(P) : k < l => InOrder(P)[k] < InOrder(P)[l]
    BY <1>1, InOrderFacts
  <2> QED
    BY <2>1, <2>2, <2>3
<1>3. InOrder(P) \in Seq(1..Len(q))
  BY <1>1, <1>2, SeqMonotonic
<1>4. At(q, E) = InOrder(P)
  BY DEF At, P
<1> QED
  BY <1>1, <1>2, <1>3, <1>4

LEMMA AtGrows ==
    ASSUME NEW S, NEW q \in Seq(S), NEW e \in S, NEW E
    PROVE  At(Append(q, e), E) = IF e \in E THEN Append(At(q, E), Len(q) + 1) ELSE At(q, E)
<1>1. Len(q) \in Nat /\ PositionsOf(q, E) \in SUBSET (1..Len(q))
  BY DEF PositionsOf
<1>2. PositionsOf(Append(q, e), E) = PositionsOf(q, E) \cup (IF e \in E THEN {Len(q) + 1} ELSE {})
  BY PlacesAppended
<1>3. CASE e \in E
  BY <1>1, <1>2, <1>3, InOrderGrows DEF At
<1>4. CASE e \notin E
  BY <1>2, <1>4 DEF At
<1> QED
  BY <1>3, <1>4

\* The positions a query goes through, as the engine writes them.
LEMMA PositionsAre ==
    ASSUME NEW q \in Seq(FileEvent)
    PROVE  /\ \A f \in Files : Positions(q, LAMBDA x : x.frn = f) = At(q, OfFile(f))
           /\ \A d \in Directories : Positions(q, LAMBDA x : x.parent = d) = At(q, OfDirectory(d))
           /\ \A n \in Names : Positions(q, LAMBDA x : x.name = n) = At(q, OfName(n))
<1>1. \A i \in DOMAIN q : q[i] \in FileEvent
  OBVIOUS
<1>2. ASSUME NEW f \in Files PROVE {i \in DOMAIN q : q[i].frn = f} = PositionsOf(q, OfFile(f))
  BY <1>1 DEF PositionsOf, OfFile
<1>3. ASSUME NEW d \in Directories PROVE {i \in DOMAIN q : q[i].parent = d} = PositionsOf(q, OfDirectory(d))
  BY <1>1 DEF PositionsOf, OfDirectory
<1>4. ASSUME NEW n \in Names PROVE {i \in DOMAIN q : q[i].name = n} = PositionsOf(q, OfName(n))
  BY <1>1 DEF PositionsOf, OfName
<1> QED
  BY <1>2, <1>3, <1>4 DEF Positions, At

LEMMA KeptIs ==
    ASSUME events \in Seq(FileEvent)
    PROVE  Kept \in Seq(FileEvent) /\ Len(Kept) \in Nat /\ (~Full => Kept = events)
<1> DEFINE room == (MaxCapacity * 3) \div 4
<1>1. Len(events) \in Nat /\ MaxCapacity \in Nat /\ room \in Nat /\ room <= MaxCapacity
  BY MaxCapacityAssumption
<1>2. CASE Full
  <2>1. Len(events) - room \in Nat /\ Len(events) - room <= Len(events)
    BY <1>1, <1>2 DEF Full
  <2>2. SubSeq(events, (Len(events) - room) + 1, Len(events)) \in Seq(FileEvent)
    BY <1>1, <2>1, PieceFacts
  <2> QED
    BY <1>2, <2>2 DEF Kept
<1>3. CASE ~Full
  BY <1>1, <1>3 DEF Kept
<1> QED
  BY <1>2, <1>3

LEMMA IngestKeepsIndex ==
    ASSUME IndexInv, NEW e \in FileEvent, IngestOne(e)
    PROVE  IndexInv'
<1>1. /\ Kept \in Seq(FileEvent) /\ (~Full => Kept = events)
      /\ events' = Append(Kept, e) /\ events' \in Seq(FileEvent) /\ Position = Len(Kept) + 1
  <2>1. events \in Seq(FileEvent) /\ events' = Append(Kept, e)
    BY DEF IndexInv, IngestOne
  <2>2. Kept \in Seq(FileEvent) /\ (~Full => Kept = events)
    BY <2>1, KeptIs
  <2>3. Append(Kept, e) \in Seq(FileEvent)
    BY <2>2, AppendFacts
  <2> QED
    BY <2>1, <2>2, <2>3 DEF Position
<1>2. e.frn \in Files /\ e.parent \in Directories /\ e.name \in Names
  BY DEF FileEvent
<1>3. DOMAIN byFrn' = Files /\ \A f \in Files : byFrn'[f] = At(events', OfFile(f))
  <2> DEFINE base == IF Full THEN [k \in DOMAIN byFrn |-> Positions(Kept, LAMBDA x : x.frn = k)] ELSE byFrn
  <2>1. byFrn' = [base EXCEPT ![e.frn] = Append(@, Len(Kept) + 1)]
    BY <1>1 DEF IngestOne, Indexed
  <2>2. DOMAIN base = Files /\ \A f \in Files : base[f] = At(Kept, OfFile(f))
    <3>1. CASE Full
      BY <1>1, <3>1, PositionsAre DEF IndexInv
    <3>2. CASE ~Full
      BY <1>1, <3>2 DEF IndexInv
    <3> QED
      BY <3>1, <3>2
  <2> HIDE DEF base
  <2>3. ASSUME NEW f \in Files PROVE byFrn'[f] = At(events', OfFile(f))
    <3>1. At(events', OfFile(f)) = IF e \in OfFile(f) THEN Append(At(Kept, OfFile(f)), Len(Kept) + 1)
                                    ELSE At(Kept, OfFile(f))
      BY <1>1, AtGrows
    <3>2. e \in OfFile(f) <=> e.frn = f
      BY DEF OfFile
    <3> QED
      BY <1>2, <2>1, <2>2, <3>1, <3>2
  <2> QED
    BY <1>2, <2>1, <2>2, <2>3
<1>4. DOMAIN byParent' = Directories /\ \A d \in Directories : byParent'[d] = At(events', OfDirectory(d))
  <2> DEFINE base == IF Full THEN [k \in DOMAIN byParent |-> Positions(Kept, LAMBDA x : x.parent = k)] ELSE byParent
  <2>1. byParent' = [base EXCEPT ![e.parent] = Append(@, Len(Kept) + 1)]
    BY <1>1 DEF IngestOne, Indexed
  <2>2. DOMAIN base = Directories /\ \A d \in Directories : base[d] = At(Kept, OfDirectory(d))
    <3>1. CASE Full
      BY <1>1, <3>1, PositionsAre DEF IndexInv
    <3>2. CASE ~Full
      BY <1>1, <3>2 DEF IndexInv
    <3> QED
      BY <3>1, <3>2
  <2> HIDE DEF base
  <2>3. ASSUME NEW d \in Directories PROVE byParent'[d] = At(events', OfDirectory(d))
    <3>1. At(events', OfDirectory(d)) = IF e \in OfDirectory(d) THEN Append(At(Kept, OfDirectory(d)), Len(Kept) + 1)
                                    ELSE At(Kept, OfDirectory(d))
      BY <1>1, AtGrows
    <3>2. e \in OfDirectory(d) <=> e.parent = d
      BY DEF OfDirectory
    <3> QED
      BY <1>2, <2>1, <2>2, <3>1, <3>2
  <2> QED
    BY <1>2, <2>1, <2>2, <2>3
<1>5. DOMAIN byPath' = Names /\ \A n \in Names : byPath'[n] = At(events', OfName(n))
  <2> DEFINE base == IF Full THEN [k \in DOMAIN byPath |-> Positions(Kept, LAMBDA x : x.name = k)] ELSE byPath
  <2>1. byPath' = [base EXCEPT ![e.name] = Append(@, Len(Kept) + 1)]
    BY <1>1 DEF IngestOne, Indexed
  <2>2. DOMAIN base = Names /\ \A n \in Names : base[n] = At(Kept, OfName(n))
    <3>1. CASE Full
      BY <1>1, <3>1, PositionsAre DEF IndexInv
    <3>2. CASE ~Full
      BY <1>1, <3>2 DEF IndexInv
    <3> QED
      BY <3>1, <3>2
  <2> HIDE DEF base
  <2>3. ASSUME NEW n \in Names PROVE byPath'[n] = At(events', OfName(n))
    <3>1. At(events', OfName(n)) = IF e \in OfName(n) THEN Append(At(Kept, OfName(n)), Len(Kept) + 1)
                                    ELSE At(Kept, OfName(n))
      BY <1>1, AtGrows
    <3>2. e \in OfName(n) <=> e.name = n
      BY DEF OfName
    <3> QED
      BY <1>2, <2>1, <2>2, <3>1, <3>2
  <2> QED
    BY <1>2, <2>1, <2>2, <2>3
<1> QED
  BY <1>1, <1>3, <1>4, <1>5 DEF IndexInv

-----------------------------------------------------------------------------
(* The replay of a directory: the names whose last event up to t left them.  *)
Step(names, e, t) ==
    LET added == IF e.reason \cap Adds # {} THEN {e.name} ELSE {}
        removed == IF e.reason \cap Removes # {} THEN {e.name} ELSE {}
    IN  IF e.time <= t THEN (names \cup added) \ removed ELSE names
IsReplay(g, q, t, n) ==
    g = [k \in 0..n |-> IF k = 0 THEN {} ELSE Step(g[k - 1], events[q[k]], t)]

LEMMA ReplayExists ==
    ASSUME NEW q, NEW t, NEW n \in Nat
    PROVE  \E g : IsReplay(g, q, t, n)
<1> DEFINE S == {m \in Nat : ~ \E g : IsReplay(g, q, t, m)}
<1>1. ASSUME S # {} PROVE FALSE
  <2>1. PICK m \in S : \A k \in S : m <= k
    BY <1>1, LeastIs
  <2>2. m # 0
    <3> DEFINE g == [k \in 0..0 |-> {}]
    <3>1. IsReplay(g, q, t, 0)
      BY DEF IsReplay
    <3> QED
      BY <3>1
  <2>3. m - 1 \in Nat /\ m - 1 \notin S
    BY <2>1, <2>2
  <2>4. PICK g : IsReplay(g, q, t, m - 1)
    BY <2>3
  <2> DEFINE h == [k \in 0..m |-> IF k = m THEN Step(g[m - 1], events[q[m]], t) ELSE g[k]]
  <2>5. \A k \in 0..m - 1 : g[k] = IF k = 0 THEN {} ELSE Step(g[k - 1], events[q[k]], t)
    BY <2>4 DEF IsReplay
  <2>6. \A k \in 0..m : h[k] = IF k = 0 THEN {} ELSE Step(h[k - 1], events[q[k]], t)
    <3> SUFFICES ASSUME NEW k \in 0..m
                 PROVE  h[k] = IF k = 0 THEN {} ELSE Step(h[k - 1], events[q[k]], t)
      OBVIOUS
    <3>1. CASE k = m
      BY <2>1, <2>2, <2>3, <3>1
    <3>2. CASE k # m
      <4>1. k \in 0..m - 1 /\ h[k] = g[k] /\ (k # 0 => k - 1 \in 0..m - 1 /\ h[k - 1] = g[k - 1])
        BY <2>1, <2>3, <3>2
      <4> QED
        BY <2>5, <4>1
    <3> QED
      BY <3>1, <3>2
  <2>7. IsReplay(h, q, t, m)
    BY <2>6 DEF IsReplay
  <2> QED
    BY <2>1, <2>7
<1> QED
  BY <1>1

\* The positions among the first k that say whether the name is there.
Touches(q, t, k, name) ==
    {m \in 1..k : /\ events[q[m]].name = name /\ events[q[m]].time <= t
                  /\ events[q[m]].reason \cap (Adds \cup Removes) # {}}
StaysAfter(q, t, k) ==
    {name \in Names : \E m \in Touches(q, t, k, name) :
        /\ \A l \in Touches(q, t, k, name) : l <= m
        /\ events[q[m]].reason \cap Removes = {}}

LEMMA ReplayStep ==
    ASSUME NEW q, NEW t, NEW k \in Nat, events[q[k + 1]] \in FileEvent
    PROVE  StaysAfter(q, t, k + 1) = Step(StaysAfter(q, t, k), events[q[k + 1]], t)
<1>1. PICK e \in FileEvent : e = events[q[k + 1]]
  OBVIOUS
<1> DEFINE touched == e.time <= t /\ e.reason \cap (Adds \cup Removes) # {}
<1>2. ASSUME NEW name
      PROVE  Touches(q, t, k + 1, name)
             = Touches(q, t, k, name) \cup (IF touched /\ e.name = name THEN {k + 1} ELSE {})
  BY <1>1 DEF Touches
<1>3. ASSUME NEW name \in Names, ~(touched /\ e.name = name)
      PROVE  name \in StaysAfter(q, t, k + 1) <=> name \in StaysAfter(q, t, k)
  BY <1>2, <1>3 DEF StaysAfter
<1>4. ASSUME NEW name \in Names, touched, e.name = name
      PROVE  name \in StaysAfter(q, t, k + 1) <=> e.reason \cap Removes = {}
  <2>1. k + 1 \in Touches(q, t, k + 1, name) /\ \A l \in Touches(q, t, k + 1, name) : l <= k + 1
    BY <1>2, <1>4 DEF Touches
  <2>2. \A m \in Touches(q, t, k + 1, name) : k + 1 <= m => m = k + 1
    BY DEF Touches
  <2> QED
    BY <1>1, <2>1, <2>2 DEF StaysAfter
<1>5. ASSUME NEW name \in Names
      PROVE  name \in StaysAfter(q, t, k + 1) <=> name \in Step(StaysAfter(q, t, k), e, t)
  <2>1. CASE ~(touched /\ e.name = name)
    <3>1. name \in Step(StaysAfter(q, t, k), e, t) <=> name \in StaysAfter(q, t, k)
      BY <2>1 DEF Step
    <3> QED
      BY <1>3, <2>1, <3>1
  <2>2. CASE touched /\ e.name = name
    <3>1. name \in Step(StaysAfter(q, t, k), e, t) <=> e.reason \cap Removes = {}
      BY <2>2 DEF Step
    <3> QED
      BY <1>4, <2>2, <3>1
  <2> QED
    BY <2>1, <2>2
<1>6. e.name \in Names
  BY DEF FileEvent
<1>7. StaysAfter(q, t, k + 1) \subseteq Names /\ Step(StaysAfter(q, t, k), e, t) \subseteq Names
  BY <1>6 DEF StaysAfter, Step
<1> QED
  BY <1>1, <1>5, <1>7

LEMMA ReplayIs ==
    ASSUME NEW q, NEW t, NEW n \in Nat, \A k \in 1..n : events[q[k]] \in FileEvent,
           NEW g, IsReplay(g, q, t, n)
    PROVE  g[n] = StaysAfter(q, t, n)
<1> DEFINE S == {k \in Nat : k <= n /\ g[k] # StaysAfter(q, t, k)}
<1>1. \A k \in 0..n : g[k] = IF k = 0 THEN {} ELSE Step(g[k - 1], events[q[k]], t)
  BY DEF IsReplay
<1>2. ASSUME S # {} PROVE FALSE
  <2>1. PICK m \in S : \A k \in S : m <= k
    BY <1>2, LeastIs
  <2>2. m # 0
    <3>1. g[0] = {}
      BY <1>1
    <3>2. StaysAfter(q, t, 0) = {}
      BY DEF StaysAfter, Touches
    <3> QED
      BY <2>1, <3>1, <3>2
  <2>3. PICK k \in Nat : m = k + 1 /\ k <= n
    <3>1. m - 1 \in Nat /\ m = (m - 1) + 1 /\ m - 1 <= n
      BY <2>1, <2>2
    <3> QED
      BY <3>1
  <2>4. g[k] = StaysAfter(q, t, k)
    BY <2>1, <2>3
  <2>5. g[k + 1] = Step(g[k], events[q[k + 1]], t)
    BY <1>1, <2>1, <2>3
  <2>6. events[q[k + 1]] \in FileEvent
    BY <2>1, <2>3
  <2> QED
    BY <2>1, <2>3, <2>4, <2>5, <2>6, ReplayStep
<1> QED
  BY <1>2

LEMMA StaysIsThere ==
    ASSUME IndexInv, NEW d \in Directories, NEW t \in Int
    PROVE  StaysAfter(byParent[d], t, Len(byParent[d])) = There(d, t)
<1>1. PICK q \in Seq(FileEvent) : q = events
  BY DEF IndexInv
<1>2. PICK p : p = byParent[d]
  OBVIOUS
<1>3. /\ Len(q) \in Nat /\ Len(p) \in Nat /\ DOMAIN q = 1..Len(q) /\ DOMAIN p = 1..Len(p)
      /\ \A k \in 1..Len(p) : p[k] \in 1..Len(q) /\ q[p[k]].parent = d
      /\ \A k, l \in 1..Len(p) : k < l => p[k] < p[l]
      /\ \A i \in 1..Len(q) : q[i].parent = d => \E k \in 1..Len(p) : p[k] = i
  <2>1. p = At(q, OfDirectory(d))
    BY <1>1, <1>2 DEF IndexInv
  <2>2. \A i \in 1..Len(q) : q[i] \in FileEvent /\ (q[i] \in OfDirectory(d) <=> q[i].parent = d)
    BY DEF OfDirectory
  <2> QED
    BY <2>1, <2>2, AtFacts
<1>4. ASSUME NEW n \in Names
      PROVE  n \in StaysAfter(p, t, Len(p)) <=> n \in There(d, t)
  <2> DEFINE T == Touches(p, t, Len(p), n)
             A == TouchesOf(d, n, t)
  <2>1. \A m \in 1..Len(p) : m \in T <=> p[m] \in A
    BY <1>1, <1>3 DEF Touches, TouchesOf
  <2>2. \A i \in A : \E m \in T : p[m] = i
    BY <1>1, <1>3 DEF Touches, TouchesOf
  <2>3. T \subseteq 1..Len(p) /\ A \subseteq 0..Len(q) /\ \A i \in A : i \in Int
    BY <1>1, <1>3 DEF Touches, TouchesOf
  <2> HIDE DEF T, A
  <2>4. \A l, m \in 1..Len(p) : p[l] <= p[m] <=> l <= m
    <3> SUFFICES ASSUME NEW l \in 1..Len(p), NEW m \in 1..Len(p) PROVE p[l] <= p[m] <=> l <= m
      OBVIOUS
    <3>1. p[l] \in Int /\ p[m] \in Int
      BY <1>3
    <3>2. CASE l < m
      BY <1>3, <3>1, <3>2
    <3>3. CASE m < l
      BY <1>3, <3>1, <3>3
    <3>4. CASE l = m
      BY <3>1, <3>4
    <3> QED
      BY <3>2, <3>3, <3>4
  <2>5. ASSUME NEW m \in T, \A l \in T : l <= m PROVE A # {} /\ Max(A) = p[m]
    <3>1. p[m] \in A /\ \A i \in A : i <= p[m]
      BY <2>1, <2>2, <2>3, <2>4, <2>5
    <3>2. Max(A) \in A /\ \A i \in A : Max(A) >= i
      BY <1>3, <2>3, <3>1, GreatestIs
    <3>3. Max(A) \in Int /\ p[m] \in Int
      BY <2>3, <3>1, <3>2
    <3>4. Max(A) <= p[m] /\ Max(A) >= p[m]
      BY <3>1, <3>2
    <3> QED
      BY <3>1, <3>3, <3>4
  <2>6. ASSUME A # {} PROVE \E m \in T : \A l \in T : l <= m
    <3>1. Max(A) \in A /\ \A i \in A : Max(A) >= i
      BY <1>3, <2>3, <2>6, GreatestIs
    <3>2. PICK m \in T : p[m] = Max(A)
      BY <2>2, <3>1
    <3>3. ASSUME NEW l \in T PROVE l <= m
      <4>1. p[l] \in A /\ Max(A) >= p[l] /\ p[l] \in Int /\ p[m] \in Int
        BY <2>1, <2>3, <3>1
      <4> QED
        BY <2>3, <2>4, <3>2, <4>1
    <3> QED
      BY <3>3
  <2>7. n \in There(d, t) <=> A # {} /\ q[Max(A)].reason \cap Removes = {}
    BY <1>1 DEF There, A
  <2>8. n \in StaysAfter(p, t, Len(p)) <=>
           \E m \in T : (\A l \in T : l <= m) /\ q[p[m]].reason \cap Removes = {}
    BY <1>1 DEF StaysAfter, T
  <2> QED
    BY <2>5, <2>6, <2>7, <2>8
<1>5. StaysAfter(p, t, Len(p)) \subseteq Names /\ There(d, t) \subseteq Names
  BY DEF StaysAfter, There
<1> QED
  BY <1>2, <1>4, <1>5

LEMMA DirectoryStateIs ==
    ASSUME IndexInv, NEW d \in Directories, NEW t \in Int
    PROVE  DirectoryStateAt(d, t) = There(d, t)
<1>1. PICK q : q = byParent[d]
  OBVIOUS
<1>2. Len(q) \in Nat /\ \A k \in 1..Len(q) : events[q[k]] \in FileEvent
  <2>1. events \in Seq(FileEvent) /\ q = At(events, OfDirectory(d))
    BY <1>1 DEF IndexInv
  <2>2. Len(q) \in Nat /\ \A k \in 1..Len(q) : q[k] \in 1..Len(events)
    BY <2>1, AtFacts
  <2> QED
    BY <2>1, <2>2
<1> DEFINE present == CHOOSE g : IsReplay(g, q, t, Len(q))
<1>3. IsReplay(present, q, t, Len(q))
  <2>1. \E g : IsReplay(g, q, t, Len(q))
    BY <1>2, ReplayExists
  <2> QED
    BY <2>1
<1>4. DirectoryStateAt(d, t) = present[Len(q)]
  BY <1>1 DEF DirectoryStateAt, IsReplay, Step, Adds, Removes
<1> HIDE DEF present
<1>5. present[Len(q)] = StaysAfter(q, t, Len(q))
  BY <1>2, <1>3, ReplayIs
<1> QED
  BY <1>1, <1>4, <1>5, StaysIsThere

LEMMA IndexIsInRange ==
    ASSUME IndexInv
    PROVE  /\ \A k \in DOMAIN byFrn : {byFrn[k][i] : i \in DOMAIN byFrn[k]} \subseteq DOMAIN events
           /\ \A k \in DOMAIN byParent : {byParent[k][i] : i \in DOMAIN byParent[k]} \subseteq DOMAIN events
           /\ \A k \in DOMAIN byPath : {byPath[k][i] : i \in DOMAIN byPath[k]} \subseteq DOMAIN events
<1>1. events \in Seq(FileEvent) /\ DOMAIN events = 1..Len(events)
  BY DEF IndexInv
<1>2. ASSUME NEW E PROVE {At(events, E)[i] : i \in DOMAIN At(events, E)} \subseteq DOMAIN events
  BY <1>1, AtFacts
<1> QED
  BY <1>2 DEF IndexInv

LEMMA IndexedQueriesAgree ==
    ASSUME IndexInv
    PROVE  QueriesAgree
<1>1. events \in Seq(FileEvent) /\ \A i \in DOMAIN events : events[i].time \in Int
  <2>1. events \in Seq(FileEvent)
    BY DEF IndexInv
  <2>2. \A i \in DOMAIN events : events[i] \in FileEvent
    BY <2>1
  <2> QED
    BY <2>1, <2>2 DEF FileEvent
<1>2. ASSUME NEW f \in Files
      PROVE  [i \in DOMAIN byFrn[f] |-> events[byFrn[f][i]]] = Selected(events, LAMBDA e : e.frn = f)
  BY <1>1, PositionsAre DEF Selected, IndexInv
<1>3. ASSUME NEW n \in Names
      PROVE  EventsForPath(n) = Selected(events, LAMBDA e : e.name = n)
  BY <1>1, PositionsAre DEF Selected, IndexInv, EventsForPath
<1>4. ASSUME NEW f \in Files
      PROVE  LET Own == Selected(events, LAMBDA e : e.frn = f)
             IN  /\ FileLifecycle(f).modifications = SelectSeq(Own, Modifies)
                 /\ FileLifecycle(f).filenames = {Own[i].name : i \in DOMAIN Own}
  <2> DEFINE own == [i \in DOMAIN byFrn[f] |-> events[byFrn[f][i]]]
  <2>1. own = Selected(events, LAMBDA e : e.frn = f)
    BY <1>2
  <2>2. FileLifecycle(f).modifications = SelectSeq(own, Modifies)
    BY DEF FileLifecycle
  <2>3. FileLifecycle(f).filenames = {own[i].name : i \in DOMAIN own}
    BY DEF FileLifecycle
  <2> HIDE DEF own
  <2> QED
    BY <2>1, <2>2, <2>3
<1>5. ASSUME NEW d \in Directories, NEW t \in {events[i].time : i \in DOMAIN events}
      PROVE  DirectoryStateAt(d, t) = There(d, t)
  BY <1>1, DirectoryStateIs
<1> QED
  BY <1>3, <1>4, <1>5, IndexIsInRange DEF QueriesAgree

-----------------------------------------------------------------------------
(* The stream and what the timeline keeps of it for good.                    *)

\* Among positions that p lists in order, those with a property are the ones
\* listed at the places whose position has it.
Increasing(p, m, n) ==
    (\A k \in 1..m : p[k] \in 1..n) /\ (\A k, l \in 1..m : k < l => p[k] < p[l])
Lists(p, m, A) == \A i \in A : \E k \in 1..m : p[k] = i
Listed(p, m, A) == {k \in 1..m : p[k] \in A}

LEMMA LastAndFirst ==
    ASSUME NEW n \in Nat, NEW m \in Nat, NEW p, Increasing(p, m, n), NEW A, Lists(p, m, A)
    PROVE  /\ Listed(p, m, A) # {} <=> A # {}
           /\ A # {} => /\ Max(Listed(p, m, A)) \in 1..m /\ p[Max(Listed(p, m, A))] = Max(A) /\ Max(A) \in A
                        /\ Min(Listed(p, m, A)) \in 1..m /\ p[Min(Listed(p, m, A))] = Min(A) /\ Min(A) \in A
<1> DEFINE T == Listed(p, m, A)
<1>0. /\ \A k \in 1..m : p[k] \in 1..n
      /\ \A k, l \in 1..m : k < l => p[k] < p[l]
      /\ \A i \in A : \E k \in 1..m : p[k] = i
      /\ A \in SUBSET (1..n)
  BY DEF Increasing, Lists
<1>1. T # {} <=> A # {}
  BY <1>0 DEF Listed
<1> SUFFICES ASSUME A # {}
             PROVE  /\ Max(T) \in 1..m /\ p[Max(T)] = Max(A) /\ Max(A) \in A
                    /\ Min(T) \in 1..m /\ p[Min(T)] = Min(A) /\ Min(A) \in A
  BY <1>1
<1>2. /\ \A i \in A : i \in Int
      /\ (\A k \in T : k \in 1..m /\ p[k] \in A) /\ (\A i \in A : \E k \in T : p[k] = i)
      /\ A \subseteq 0..n /\ A \subseteq Nat /\ T \subseteq 0..m /\ T \subseteq Nat /\ T # {}
  BY <1>0, <1>1 DEF Listed
<1> HIDE DEF T
<1>3. /\ Max(A) \in A /\ Min(A) \in A /\ \A i \in A : Max(A) >= i /\ Min(A) <= i
      /\ Max(T) \in T /\ Min(T) \in T /\ \A k \in T : Max(T) >= k /\ Min(T) <= k
  BY <1>2, GreatestIs, LeastIs
<1>4. ASSUME NEW k \in T, NEW l \in T, k <= l PROVE p[k] <= p[l]
  <2>1. k \in 1..m /\ l \in 1..m /\ p[k] \in Int /\ p[l] \in Int
    BY <1>2
  <2>2. CASE k = l
    BY <2>1, <2>2
  <2>3. CASE k < l
    BY <1>0, <2>1, <2>3
  <2> QED
    BY <1>4, <2>1, <2>2, <2>3
<1>5. PICK k \in T, l \in T : p[k] = Max(A) /\ p[l] = Min(A)
  BY <1>2, <1>3
<1>6. p[Max(T)] = Max(A)
  <2>1. p[Max(T)] \in A /\ p[k] <= p[Max(T)]
    BY <1>2, <1>3, <1>4
  <2>2. p[Max(T)] <= Max(A) /\ Max(A) <= p[Max(T)] /\ p[Max(T)] \in Int /\ Max(A) \in Int
    BY <1>2, <1>3, <1>5, <2>1
  <2> QED
    BY <2>2
<1>7. p[Min(T)] = Min(A)
  <2>1. p[Min(T)] \in A /\ p[Min(T)] <= p[l]
    BY <1>2, <1>3, <1>4
  <2>2. p[Min(T)] <= Min(A) /\ Min(A) <= p[Min(T)] /\ p[Min(T)] \in Int /\ Min(A) \in Int
    BY <1>2, <1>3, <1>5, <2>1
  <2> QED
    BY <2>2
<1> QED
  BY <1>2, <1>3, <1>6, <1>7 DEF T

LEMMA LastAndFirstAt ==
    ASSUME NEW S, NEW q \in Seq(S), NEW E, NEW A \in SUBSET PositionsOf(q, E)
    PROVE  LET m == Len(At(q, E))
               T == Listed(At(q, E), m, A)
           IN  /\ T # {} <=> A # {}
               /\ A # {} => /\ Max(T) \in 1..m /\ At(q, E)[Max(T)] = Max(A)
                            /\ Min(T) \in 1..m /\ At(q, E)[Min(T)] = Min(A)
<1>0. PICK p : p = At(q, E)
  OBVIOUS
<1>1. PICK n \in Nat, m \in Nat : n = Len(q) /\ m = Len(p)
  BY <1>0, AtFacts
<1>2. Increasing(p, m, n)
  <2>1. /\ DOMAIN p = 1..Len(p)
        /\ (\A k \in DOMAIN p : p[k] \in 1..Len(q)) /\ (\A k, l \in DOMAIN p : k < l => p[k] < p[l])
    BY <1>0, AtFacts
  <2> QED
    BY <1>1, <2>1 DEF Increasing
<1>3. Lists(p, m, A)
  <2>1. DOMAIN p = 1..Len(p) /\ \A i \in 1..Len(q) : q[i] \in E => \E k \in DOMAIN p : p[k] = i
    BY <1>0, AtFacts
  <2> QED
    BY <1>1, <2>1 DEF Lists, PositionsOf
<1>4. /\ Listed(p, m, A) # {} <=> A # {}
      /\ A # {} => /\ Max(Listed(p, m, A)) \in 1..m /\ p[Max(Listed(p, m, A))] = Max(A)
                   /\ Min(Listed(p, m, A)) \in 1..m /\ p[Min(Listed(p, m, A))] = Min(A)
  BY <1>2, <1>3, LastAndFirst
<1> QED
  BY <1>0, <1>1, <1>4

Creations == {x \in FileEvent : Has(x, "FILE_CREATE")}
Deletions == {x \in FileEvent : Has(x, "FILE_DELETE")}

\* The creations of the file of event j up to it, and how long after the last j came.
CreatedUpTo(q, j) == {i \in 1..j : q[i].frn = q[j].frn /\ Has(q[i], "FILE_CREATE")}
AgeAt(q, j) == Seconds(q[j].time - q[Max(CreatedUpTo(q, j))].time)
DeletionOf(q, j) ==
    [frn |-> q[j].frn, time |-> q[j].time, pid |-> q[j].pid, recent |-> CreatedUpTo(q, j) # {},
     seconds |-> IF CreatedUpTo(q, j) # {} THEN AgeAt(q, j) ELSE 0]
DeletionRecord == [frn : Files, time : Int, pid : Pids \cup {NoPid}, recent : BOOLEAN, seconds : Int]

AreCreations(c, q) ==
    /\ c \in Seq(FileEvent) /\ Len(c) = Len(At(q, Creations))
    /\ \A k \in 1..Len(c) : c[k] = q[At(q, Creations)[k]]
KeptForGood ==
    /\ ingested \in Seq(FileEvent)
    /\ AreCreations(createEvents, ingested)
    /\ deleteEvents \in Seq(DeletionRecord) /\ Len(deleteEvents) = Len(At(ingested, Deletions))
    /\ \A k \in 1..Len(deleteEvents) : deleteEvents[k] = DeletionOf(ingested, At(ingested, Deletions)[k])

LEMMA SecondsIs ==
    ASSUME NEW i \in Int
    PROVE  Seconds(i) \in Int
BY TicksAssumption DEF Seconds

LEMMA CreatedUpToFacts ==
    ASSUME NEW q \in Seq(FileEvent), NEW j \in 1..Len(q)
    PROVE  /\ CreatedUpTo(q, j) \in SUBSET (1..j)
           /\ CreatedUpTo(q, j) # {} =>
                 /\ Max(CreatedUpTo(q, j)) \in CreatedUpTo(q, j) /\ Max(CreatedUpTo(q, j)) \in 1..Len(q)
                 /\ AgeAt(q, j) \in Int
           /\ DeletionOf(q, j) \in DeletionRecord
<1> DEFINE C == CreatedUpTo(q, j)
<1>1. C \in SUBSET (1..j) /\ C \subseteq 0..j /\ j \in Nat /\ j <= Len(q)
  BY DEF CreatedUpTo
<1> HIDE DEF C
<1>2. \A i \in 1..Len(q) : q[i] \in FileEvent
  OBVIOUS
<1>3. \A i \in 1..Len(q) : q[i].time \in Int /\ q[i].frn \in Files /\ q[i].pid \in Pids \cup {NoPid}
  BY <1>2 DEF FileEvent
<1>4. ASSUME C # {} PROVE Max(C) \in C /\ Max(C) \in 1..Len(q) /\ AgeAt(q, j) \in Int
  <2>1. Max(C) \in C
    BY <1>1, <1>4, GreatestIs
  <2>2. Max(C) \in 1..Len(q)
    <3>1. \A i \in C : i \in 1..Len(q)
      BY <1>1
    <3> QED
      BY <2>1, <3>1
  <2>3. PICK i : i \in Int /\ i = q[j].time - q[Max(C)].time
    BY <1>3, <2>2
  <2>4. AgeAt(q, j) = Seconds(i)
    BY <2>3 DEF AgeAt, C
  <2> QED
    BY <2>1, <2>2, <2>3, <2>4, SecondsIs
<1>5. DeletionOf(q, j) \in DeletionRecord
  BY <1>3, <1>4 DEF DeletionOf, DeletionRecord, C
<1> QED
  BY <1>1, <1>4, <1>5 DEF C

\* What came before does not change with what is added.
LEMMA DeletionStays ==
    ASSUME NEW q \in Seq(FileEvent), NEW e \in FileEvent, NEW j \in 1..Len(q)
    PROVE  /\ CreatedUpTo(Append(q, e), j) = CreatedUpTo(q, j)
           /\ CreatedUpTo(q, j) # {} => AgeAt(Append(q, e), j) = AgeAt(q, j)
           /\ DeletionOf(Append(q, e), j) = DeletionOf(q, j)
<1>1. \A i \in 1..Len(q) : Append(q, e)[i] = q[i]
  BY AppendFacts
<1>2. \A i \in 1..j : i \in 1..Len(q)
  OBVIOUS
<1>3. CreatedUpTo(Append(q, e), j) = CreatedUpTo(q, j)
  BY <1>1, <1>2 DEF CreatedUpTo
<1>4. CreatedUpTo(q, j) # {} => AgeAt(Append(q, e), j) = AgeAt(q, j)
  BY <1>1, <1>3, CreatedUpToFacts DEF AgeAt
<1>5. Append(q, e)[j] = q[j]
  BY <1>1
<1> QED
  BY <1>3, <1>4, <1>5 DEF DeletionOf

\* The last creation of a file among those kept is the last one of the stream.
CreationsOf(q, f) == {i \in 1..Len(q) : q[i].frn = f /\ Has(q[i], "FILE_CREATE")}

LEMMA LastCreateIs ==
    ASSUME NEW q \in Seq(FileEvent), NEW c, AreCreations(c, q), NEW f
    PROVE  /\ CreationsOf(q, f) # {} <=> LastCreate(c, f) # 0
           /\ CreationsOf(q, f) # {} =>
                 LastCreate(c, f) \in 1..Len(c) /\ c[LastCreate(c, f)] = q[Max(CreationsOf(q, f))]
<1>0. /\ c \in Seq(FileEvent) /\ Len(c) = Len(At(q, Creations))
      /\ \A k \in 1..Len(c) : c[k] = q[At(q, Creations)[k]]
  BY DEF AreCreations
<1>1. \A i \in 1..Len(q) : q[i] \in FileEvent
  OBVIOUS
<1>2. CreationsOf(q, f) \in SUBSET PositionsOf(q, Creations)
  BY <1>1 DEF Creations, CreationsOf, PositionsOf
<1> DEFINE T == Listed(At(q, Creations), Len(At(q, Creations)), CreationsOf(q, f))
<1>3. T = {k \in 1..Len(c) : c[k].frn = f}
  <2>1. \A k \in 1..Len(c) : At(q, Creations)[k] \in 1..Len(q) /\ c[k] \in Creations
    BY <1>0, AtFacts
  <2> QED
    BY <1>0, <2>1 DEF Listed, Creations, CreationsOf
<1>4. LastCreate(c, f) = IF T # {} THEN Max(T) ELSE 0
  BY <1>3 DEF LastCreate, SelectLastInSeq
<1>5. /\ T # {} <=> CreationsOf(q, f) # {}
      /\ CreationsOf(q, f) # {} =>
            Max(T) \in 1..Len(c) /\ At(q, Creations)[Max(T)] = Max(CreationsOf(q, f))
  BY <1>0, <1>2, LastAndFirstAt
<1> HIDE DEF T
<1> QED
  BY <1>0, <1>4, <1>5

LEMMA CreationsKept ==
    ASSUME KeptForGood, NEW e \in FileEvent, IngestOne(e), ingested' = Append(ingested, e)
    PROVE  ingested' \in Seq(FileEvent) /\ AreCreations(createEvents', ingested')
<1>1. PICK q \in Seq(FileEvent), c \in Seq(FileEvent) : q = ingested /\ c = createEvents
  BY DEF KeptForGood, AreCreations
<1>2. PICK p : p = At(q, Creations)
  OBVIOUS
<1>3. /\ Len(c) = Len(p) /\ \A k \in 1..Len(c) : c[k] = q[p[k]] /\ p[k] \in 1..Len(q)
      /\ p \in Seq(1..Len(q)) /\ Len(q) \in Nat /\ Len(c) \in Nat
  <2>1. Len(c) = Len(p) /\ \A k \in 1..Len(c) : c[k] = q[p[k]]
    BY <1>1, <1>2 DEF KeptForGood, AreCreations
  <2>2. /\ p \in Seq(1..Len(q)) /\ Len(q) \in Nat /\ DOMAIN p = 1..Len(p)
        /\ \A k \in DOMAIN p : p[k] \in 1..Len(q)
    BY <1>2, AtFacts
  <2> QED
    BY <2>1, <2>2
<1>4. /\ Append(q, e) \in Seq(FileEvent) /\ Append(c, e) \in Seq(FileEvent)
      /\ \A i \in 1..Len(q) : Append(q, e)[i] = q[i]
      /\ Append(q, e)[Len(q) + 1] = e
      /\ Len(Append(c, e)) = Len(c) + 1
      /\ \A k \in 1..Len(c) + 1 : Append(c, e)[k] = IF k = Len(c) + 1 THEN e ELSE c[k]
  BY <1>3, AppendFacts
<1>5. e \in Creations <=> Has(e, "FILE_CREATE")
  BY DEF Creations
<1>6. At(Append(q, e), Creations) = IF e \in Creations THEN Append(p, Len(q) + 1) ELSE p
  BY <1>2, AtGrows
<1>7. CASE e \in Creations
  <2>1. createEvents' = Append(c, e) /\ At(ingested', Creations) = Append(p, Len(q) + 1)
    BY <1>1, <1>5, <1>6, <1>7 DEF IngestOne
  <2>2. p \in Seq(Nat) /\ Len(q) + 1 \in Nat
    <3>1. \A i \in 1..Len(q) : i \in Nat
      OBVIOUS
    <3> QED
      BY <1>3, <3>1, SeqMonotonic
  <2>3. /\ Len(Append(p, Len(q) + 1)) = Len(p) + 1
        /\ \A k \in 1..Len(p) + 1 : Append(p, Len(q) + 1)[k] = IF k = Len(p) + 1 THEN Len(q) + 1 ELSE p[k]
    BY <2>2, AppendFacts
  <2>4. ASSUME NEW k \in 1..Len(c) + 1
        PROVE  Append(c, e)[k] = Append(q, e)[Append(p, Len(q) + 1)[k]]
    <3>1. CASE k = Len(c) + 1
      BY <1>3, <1>4, <2>3, <3>1
    <3>2. CASE k # Len(c) + 1
      <4>1. k \in 1..Len(c)
        BY <1>3, <3>2
      <4> QED
        BY <1>3, <1>4, <2>3, <3>2, <4>1
    <3> QED
      BY <3>1, <3>2
  <2> QED
    BY <1>1, <1>3, <1>4, <2>1, <2>3, <2>4 DEF AreCreations
<1>8. CASE e \notin Creations
  <2>1. createEvents' = c /\ At(ingested', Creations) = p
    BY <1>1, <1>5, <1>6, <1>8 DEF IngestOne
  <2> QED
    BY <1>1, <1>3, <1>4, <2>1 DEF AreCreations
<1> QED
  BY <1>7, <1>8

\* What ingest_one writes down of a deletion is what the stream says of it.
LEMMA DeletionWritten ==
    ASSUME KeptForGood, NEW e \in FileEvent, IngestOne(e), ingested' = Append(ingested, e)
    PROVE  DeleteEvent(e, createEvents') = DeletionOf(ingested', Len(ingested'))
<1>1. PICK q \in Seq(FileEvent), c \in Seq(FileEvent) :
          q = ingested' /\ c = createEvents' /\ AreCreations(c, q)
  BY CreationsKept DEF AreCreations, KeptForGood
<1>2. Len(q) \in Nat /\ Len(q) \in 1..Len(q) /\ q[Len(q)] = e
  <2>1. ingested \in Seq(FileEvent)
    BY DEF KeptForGood
  <2> QED
    BY <1>1, <2>1, AppendFacts
<1>3. CreationsOf(q, e.frn) = CreatedUpTo(q, Len(q))
  BY <1>2 DEF CreationsOf, CreatedUpTo
<1>4. /\ CreatedUpTo(q, Len(q)) # {} <=> LastCreate(c, e.frn) # 0
      /\ CreatedUpTo(q, Len(q)) # {} =>
            c[LastCreate(c, e.frn)] = q[Max(CreatedUpTo(q, Len(q)))]
  <2>1. ASSUME NEW f
        PROVE  /\ CreationsOf(q, f) # {} <=> LastCreate(c, f) # 0
               /\ CreationsOf(q, f) # {} => c[LastCreate(c, f)] = q[Max(CreationsOf(q, f))]
    <3>1. q \in Seq(FileEvent) /\ AreCreations(c, q)
      BY <1>1
    <3> QED
      BY <3>1, LastCreateIs
  <2> QED
    BY <1>3, <2>1
<1>5. DeleteEvent(e, c) = DeletionOf(q, Len(q))
  BY <1>2, <1>4 DEF DeleteEvent, DeletionOf, AgeAt
<1> QED
  BY <1>1, <1>5

LEMMA IngestKeepsRecord ==
    ASSUME KeptForGood, NEW e \in FileEvent, IngestOne(e), ingested' = Append(ingested, e)
    PROVE  KeptForGood'
<1>1. PICK q \in Seq(FileEvent), d \in Seq(DeletionRecord) : q = ingested /\ d = deleteEvents
  BY DEF KeptForGood
<1>2. PICK p : p = At(q, Deletions)
  OBVIOUS
<1>3. /\ Len(d) = Len(p) /\ \A k \in 1..Len(d) : d[k] = DeletionOf(q, p[k]) /\ p[k] \in 1..Len(q)
      /\ p \in Seq(1..Len(q)) /\ Len(q) \in Nat /\ Len(d) \in Nat
  <2>1. Len(d) = Len(p) /\ \A k \in 1..Len(d) : d[k] = DeletionOf(q, p[k])
    BY <1>1, <1>2 DEF KeptForGood
  <2>2. /\ p \in Seq(1..Len(q)) /\ Len(q) \in Nat /\ DOMAIN p = 1..Len(p)
        /\ \A k \in DOMAIN p : p[k] \in 1..Len(q)
    BY <1>2, AtFacts
  <2> QED
    BY <2>1, <2>2
<1>4. /\ Append(q, e) \in Seq(FileEvent) /\ Len(Append(q, e)) = Len(q) + 1
      /\ Len(q) + 1 \in 1..Len(Append(q, e))
      /\ \A j \in 1..Len(q) : DeletionOf(Append(q, e), j) = DeletionOf(q, j)
  <2>1. /\ Append(q, e) \in Seq(FileEvent) /\ Len(Append(q, e)) = Len(q) + 1
        /\ Len(q) + 1 \in 1..Len(Append(q, e))
    BY <1>3, AppendFacts
  <2>2. \A j \in 1..Len(q) : DeletionOf(Append(q, e), j) = DeletionOf(q, j)
    BY DeletionStays
  <2> QED
    BY <2>1, <2>2
<1>5. e \in Deletions <=> Has(e, "FILE_DELETE")
  BY DEF Deletions
<1>6. At(Append(q, e), Deletions) = IF e \in Deletions THEN Append(p, Len(q) + 1) ELSE p
  BY <1>2, AtGrows
<1>7. PICK r : r = DeletionOf(Append(q, e), Len(q) + 1)
  OBVIOUS
<1>8. r \in DeletionRecord /\ DeleteEvent(e, createEvents') = r
  BY <1>1, <1>4, <1>7, CreatedUpToFacts, DeletionWritten
<1>9. CASE e \in Deletions
  <2>1. deleteEvents' = Append(d, r) /\ At(ingested', Deletions) = Append(p, Len(q) + 1)
    BY <1>1, <1>5, <1>6, <1>8, <1>9 DEF IngestOne
  <2>2. p \in Seq(Nat) /\ Len(q) + 1 \in Nat
    <3>1. \A i \in 1..Len(q) : i \in Nat
      OBVIOUS
    <3> QED
      BY <1>3, <3>1, SeqMonotonic
  <2>3. /\ Len(Append(p, Len(q) + 1)) = Len(p) + 1
        /\ \A k \in 1..Len(p) + 1 : Append(p, Len(q) + 1)[k] = IF k = Len(p) + 1 THEN Len(q) + 1 ELSE p[k]
    BY <2>2, AppendFacts
  <2>4. /\ Append(d, r) \in Seq(DeletionRecord) /\ Len(Append(d, r)) = Len(d) + 1
        /\ \A k \in 1..Len(d) + 1 : Append(d, r)[k] = IF k = Len(d) + 1 THEN r ELSE d[k]
    BY <1>8, AppendFacts
  <2>5. ASSUME NEW k \in 1..Len(d) + 1
        PROVE  Append(d, r)[k] = DeletionOf(Append(q, e), Append(p, Len(q) + 1)[k])
    <3>1. CASE k = Len(d) + 1
      BY <1>3, <1>7, <2>3, <2>4, <3>1
    <3>2. CASE k # Len(d) + 1
      <4>1. k \in 1..Len(d)
        BY <1>3, <3>2
      <4> QED
        BY <1>3, <1>4, <2>3, <2>4, <3>2, <4>1
    <3> QED
      BY <3>1, <3>2
  <2> QED
    BY <1>1, <1>3, <2>1, <2>3, <2>4, <2>5, CreationsKept DEF KeptForGood
<1>10. CASE e \notin Deletions
  <2>1. deleteEvents' = d /\ At(ingested', Deletions) = p
    BY <1>1, <1>5, <1>6, <1>10 DEF IngestOne
  <2> QED
    BY <1>1, <1>3, <1>4, <2>1, CreationsKept DEF KeptForGood
<1> QED
  BY <1>9, <1>10

\* The deletions of a file that followed its creation within the window.
ShortLived(q, f) ==
    {j \in DOMAIN q : /\ q[j].frn = f /\ Has(q[j], "FILE_DELETE")
                      /\ CreatedUpTo(q, j) # {} /\ AgeAt(q, j) \in 0..RapidWindow}

LEMMA DeletionFields ==
    ASSUME NEW q, NEW j
    PROVE  /\ DeletionOf(q, j).frn = q[j].frn
           /\ CreatedUpTo(q, j) # {} => /\ DeletionOf(q, j).recent = TRUE
                                        /\ DeletionOf(q, j).seconds = AgeAt(q, j)
           /\ CreatedUpTo(q, j) = {} => DeletionOf(q, j).recent = FALSE
BY DEF DeletionOf

LEMMA RapidIs ==
    ASSUME NEW D, D.recent = TRUE, D.seconds \in Int
    PROVE  Rapid(D, RapidWindow) <=> D.seconds \in 0..RapidWindow
<1>1. PICK s \in Int : D.seconds = s
  OBVIOUS
<1>2. s \in 0..60 <=> s >= 0 /\ s <= 60
  OBVIOUS
<1>3. Rapid(D, RapidWindow) <=> s >= 0 /\ s <= 60
  BY <1>1 DEF Rapid, RapidWindow
<1> QED
  BY <1>1, <1>2, <1>3 DEF RapidWindow

LEMMA RapidAre ==
    ASSUME NEW q \in Seq(FileEvent), NEW d \in Seq(DeletionRecord), Len(d) = Len(At(q, Deletions)),
           \A k \in 1..Len(d) : d[k] = DeletionOf(q, At(q, Deletions)[k]),
           NEW f
    PROVE  LET T == {k \in 1..Len(d) : d[k].frn = f /\ Rapid(d[k], RapidWindow)}
           IN  /\ T # {} <=> ShortLived(q, f) # {}
               /\ T # {} => /\ Min(T) \in T /\ d[Min(T)].seconds = AgeAt(q, Min(ShortLived(q, f)))
<1>1. \A i \in 1..Len(q) : q[i] \in FileEvent
  OBVIOUS
<1>2. ShortLived(q, f) \in SUBSET PositionsOf(q, Deletions)
  BY <1>1 DEF Deletions, ShortLived, PositionsOf
<1> DEFINE T == Listed(At(q, Deletions), Len(At(q, Deletions)), ShortLived(q, f))
<1>3. ASSUME NEW j \in 1..Len(q), q[j] \in Deletions
      PROVE  j \in ShortLived(q, f) <=> DeletionOf(q, j).frn = f /\ Rapid(DeletionOf(q, j), RapidWindow)
  <2>1. CreatedUpTo(q, j) # {} => AgeAt(q, j) \in Int
    BY CreatedUpToFacts
  <2>2. j \in ShortLived(q, f) <=> q[j].frn = f /\ CreatedUpTo(q, j) # {} /\ AgeAt(q, j) \in 0..RapidWindow
    BY <1>3 DEF ShortLived, Deletions
  <2>3. PICK D, age : D = DeletionOf(q, j) /\ age = AgeAt(q, j)
    OBVIOUS
  <2>5. CASE CreatedUpTo(q, j) # {}
    <3>1. D.frn = q[j].frn /\ D.recent = TRUE /\ D.seconds = age /\ age \in Int
      BY <2>1, <2>3, <2>5, DeletionFields
    <3>2. Rapid(D, RapidWindow) <=> age \in 0..RapidWindow
      BY <3>1, RapidIs
    <3> QED
      BY <2>2, <2>3, <2>5, <3>1, <3>2
  <2>6. CASE CreatedUpTo(q, j) = {}
    <3>1. D.recent = FALSE
      BY <2>3, <2>6, DeletionFields
    <3>2. ~Rapid(D, RapidWindow)
      BY <3>1 DEF Rapid
    <3> QED
      BY <2>2, <2>3, <2>6, <3>2
  <2> QED
    BY <2>5, <2>6
<1>4. \A k \in 1..Len(d) : At(q, Deletions)[k] \in 1..Len(q) /\ q[At(q, Deletions)[k]] \in Deletions
  BY AtFacts
<1>5. T = {k \in 1..Len(d) : d[k].frn = f /\ Rapid(d[k], RapidWindow)}
  BY <1>3, <1>4 DEF Listed
<1>6. /\ T # {} <=> ShortLived(q, f) # {}
      /\ T # {} => Min(T) \in 1..Len(d) /\ At(q, Deletions)[Min(T)] = Min(ShortLived(q, f))
  BY <1>2, LastAndFirstAt
<1>7. T \subseteq Nat /\ (T # {} => Min(T) \in T)
  <2>1. T \subseteq Nat
    BY DEF Listed
  <2> HIDE DEF T
  <2> QED
    BY <2>1, LeastIs
<1>8. ASSUME T # {} PROVE d[Min(T)].seconds = AgeAt(q, Min(ShortLived(q, f)))
  <2>1. PICK k \in 1..Len(d) : k = Min(T) /\ k \in T
    BY <1>6, <1>7, <1>8
  <2>2. PICK j : j = At(q, Deletions)[k]
    OBVIOUS
  <2>3. j = Min(ShortLived(q, f)) /\ d[k] = DeletionOf(q, j) /\ Rapid(d[k], RapidWindow)
    BY <1>5, <1>6, <1>8, <2>1, <2>2
  <2>4. d[k].seconds = AgeAt(q, j)
    <3>1. j \in ShortLived(q, f)
      BY <2>1, <2>2 DEF Listed
    <3> QED
      BY <2>3, <3>1, DeletionFields DEF ShortLived
  <2> QED
    BY <2>1, <2>3, <2>4
<1> HIDE DEF T
<1> QED
  BY <1>5, <1>6, <1>7, <1>8

LEMMA AttackChainsAre ==
    ASSUME KeptForGood
    PROVE  /\ {c.frn : c \in AttackChains(RapidWindow)} = {f \in Files : ShortLived(ingested, f) # {}}
           /\ \A c \in AttackChains(RapidWindow) : c.duration = AgeAt(ingested, Min(ShortLived(ingested, c.frn)))
<1>1. PICK q \in Seq(FileEvent), d \in Seq(DeletionRecord) :
         /\ q = ingested /\ d = deleteEvents /\ Len(d) = Len(At(q, Deletions))
         /\ \A k \in 1..Len(d) : d[k] = DeletionOf(q, At(q, Deletions)[k])
  BY DEF KeptForGood
<1> DEFINE T(f) == {k \in 1..Len(d) : d[k].frn = f /\ Rapid(d[k], RapidWindow)}
           F == {x.frn : x \in {y \in ToSet(d) : Rapid(y, RapidWindow)}}
<1>2. \A f : /\ T(f) # {} <=> ShortLived(q, f) # {}
             /\ T(f) # {} => Min(T(f)) \in T(f) /\ d[Min(T(f))].seconds = AgeAt(q, Min(ShortLived(q, f)))
  BY <1>1, RapidAre
<1>3. \A f : SelectInSeq(d, LAMBDA x : x.frn = f /\ Rapid(x, RapidWindow))
             = IF T(f) # {} THEN Min(T(f)) ELSE 0
  BY DEF SelectInSeq
<1>4. \A f : f \in F <=> T(f) # {}
  BY ElementsOf
<1>5. \A f : f \in F => f \in Files
  <2>1. \A k \in 1..Len(d) : d[k] \in DeletionRecord
    OBVIOUS
  <2>2. \A k \in 1..Len(d) : d[k].frn \in Files
    BY <2>1 DEF DeletionRecord
  <2> QED
    BY <1>4, <2>2
<1> DEFINE First(f) == d[SelectInSeq(d, LAMBDA x : x.frn = f /\ Rapid(x, RapidWindow))]
           Create(f) == createEvents[LastCreate(createEvents, f)]
           R(f) == [frn |-> f, created |-> Create(f).time, deleted |-> First(f).time,
                    duration |-> First(f).seconds,
                    process |-> IF First(f).pid # NoPid THEN First(f).pid ELSE Create(f).pid]
<1>6. AttackChains(RapidWindow) = {R(f) : f \in F} /\ \A f : R(f).frn = f /\ R(f).duration = First(f).seconds
  BY <1>1 DEF AttackChains
<1> HIDE DEF R
<1>8. {c.frn : c \in AttackChains(RapidWindow)} = F
  <2> HIDE DEF F
  <2>1. \A c \in AttackChains(RapidWindow) : c.frn \in F
    BY <1>6
  <2>2. \A f \in F : R(f) \in AttackChains(RapidWindow) /\ R(f).frn = f
    BY <1>6
  <2> QED
    BY <2>1, <2>2
<1> HIDE DEF T, F, First
<1>7. \A c \in AttackChains(RapidWindow) : c.duration = AgeAt(q, Min(ShortLived(q, c.frn)))
  <2> SUFFICES ASSUME NEW c \in AttackChains(RapidWindow)
               PROVE  c.duration = AgeAt(q, Min(ShortLived(q, c.frn)))
    OBVIOUS
  <2>1. PICK f \in F : f = c.frn /\ c.duration = First(f).seconds
    BY <1>6
  <2>2. First(f) = d[Min(T(f))]
    BY <1>3, <1>4 DEF First
  <2> QED
    BY <1>2, <1>4, <2>1, <2>2
<1> QED
  BY <1>1, <1>2, <1>4, <1>5, <1>7, <1>8

LEMMA ReportedChainsAreReal ==
    ASSUME KeptForGood
    PROVE  ChainsAreReal
BY AttackChainsAre DEF ChainsAreReal, ShortLived, AgeAt, CreatedUpTo

-----------------------------------------------------------------------------
(* Sequences of whatever elements.                                           *)
IsSeq(q) == q \in Seq(ToSet(q))

LEMMA SeqFacts ==
    /\ \A S, q : q \in Seq(S) => IsSeq(q)
    /\ \A q : IsSeq(q) => DOMAIN q = 1..Len(q) /\ Len(q) \in Nat
    /\ \A q, n : n \in Nat /\ DOMAIN q = 1..n /\ q = [i \in 1..n |-> q[i]] => IsSeq(q)
    /\ \A p, q : IsSeq(p) /\ IsSeq(q) => IsSeq(p \o q)
    /\ \A e : IsSeq(<<e>>) /\ IsSeq(<<>>)
    /\ \A q, e : IsSeq(q) => IsSeq(Append(q, e))
<1>1. ASSUME NEW q, NEW n \in Nat, DOMAIN q = 1..n, q = [i \in 1..n |-> q[i]] PROVE IsSeq(q)
  <2>1. \A i \in 1..n : q[i] \in ToSet(q)
    BY <1>1 DEF ToSet
  <2>2. q \in [1..n -> ToSet(q)]
    BY <1>1, <2>1
  <2> QED
    BY <2>2, IsASeq DEF IsSeq
<1>2. ASSUME NEW S, NEW q \in Seq(S) PROVE IsSeq(q)
  <2>1. Len(q) \in Nat /\ DOMAIN q = 1..Len(q) /\ q = [i \in 1..Len(q) |-> q[i]]
    OBVIOUS
  <2> QED
    BY <1>1, <2>1
<1>3. \A q : IsSeq(q) => DOMAIN q = 1..Len(q) /\ Len(q) \in Nat
  BY DEF IsSeq
<1>4. ASSUME NEW p, NEW q, IsSeq(p), IsSeq(q) PROVE IsSeq(p \o q)
  <2> DEFINE U == ToSet(p) \cup ToSet(q)
  <2>1. p \in Seq(U) /\ q \in Seq(U)
    BY <1>4, SeqMonotonic DEF IsSeq
  <2>2. p \o q \in Seq(U)
    BY <2>1, ConcatFacts
  <2> QED
    BY <1>2, <2>2
<1>5. ASSUME NEW e PROVE IsSeq(<<e>>) /\ IsSeq(<<>>)
  <2>1. <<e>> \in Seq({e}) /\ <<>> \in Seq({e})
    OBVIOUS
  <2> QED
    BY <1>2, <2>1
<1>6. ASSUME NEW q, NEW e, IsSeq(q) PROVE IsSeq(Append(q, e))
  <2>1. q \in Seq(ToSet(q) \cup {e}) /\ e \in ToSet(q) \cup {e}
    BY <1>6, SeqMonotonic DEF IsSeq
  <2>2. Append(q, e) \in Seq(ToSet(q) \cup {e})
    BY <2>1, AppendFacts
  <2> QED
    BY <1>2, <2>2
<1> QED
  BY <1>1, <1>2, <1>3, <1>4, <1>5, <1>6

LEMMA PickedIs ==
    ASSUME NEW s, NEW n \in Nat, NEW S \in SUBSET (1..n)
    PROVE  IsSeq([k \in DOMAIN InOrder(S) |-> s[InOrder(S)[k]]])
<1> DEFINE q == [k \in DOMAIN InOrder(S) |-> s[InOrder(S)[k]]]
<1>1. PICK m \in Nat : DOMAIN InOrder(S) = 1..m
  BY InOrderFacts
<1>2. DOMAIN q = 1..m /\ q = [k \in 1..m |-> q[k]]
  BY <1>1
<1> HIDE DEF q
<1>3. IsSeq(q)
  BY <1>2, SeqFacts
<1> QED
  BY <1>3 DEF q

-----------------------------------------------------------------------------
(* What the correlation rules report of a batch.                             *)
LEMMA SetToSeqArranges ==
    ASSUME NEW S, IsFiniteSet(S)
    PROVE  SetToSeq(S) \in SetToSeqs(S)
<1>1. \E f \in [1..Cardinality(S) -> S] : IsInjective(f)
  <2>1. PICK f : f \in Bijection(1..Cardinality(S), S)
    BY FS_CardinalityType DEF ExistsBijection
  <2> QED
    BY <2>1 DEF Bijection, Injection, IsInjective
<1>2. SetToSeq(S) \in [1..Cardinality(S) -> S] /\ IsInjective(SetToSeq(S))
  BY <1>1 DEF SetToSeq
<1> QED
  BY <1>2 DEF SetToSeqs, IsInjective

LEMMA ArrangedIn ==
    ASSUME NEW S, IsFiniteSet(S), NEW U, S \subseteq U
    PROVE  SetToSeq(S) \in Seq(U)
<1>1. SetToSeq(S) \in Seq(S)
  BY SetToSeqArranges, ArrangementFacts
<1> QED
  BY <1>1, SeqMonotonic

LEMMA ImageIsFinite ==
    ASSUME NEW f, IsFiniteSet(DOMAIN f)
    PROVE  IsFiniteSet({f[x] : x \in DOMAIN f})
<1> DEFINE T == {f[x] : x \in DOMAIN f}
           g == [x \in DOMAIN f |-> f[x]]
<1>1. g \in Surjection(DOMAIN f, T)
  BY DEF Surjection
<1> QED
  BY <1>1, FS_Surjection

LEMMA KeysAreFinite ==
    IsFiniteSet(Files) /\ IsFiniteSet(Pids \cup {NoPid}) /\ IsFiniteSet({0})
BY HistoryAssumption, FS_AddElement, FS_Singleton

\* Every rule but the first makes one chain for each of finitely many groups.
LEMMA DropperIs ==
    ASSUME NEW b, IsSeq(b)
    PROVE  IsFiniteSet(Dropper(b)) /\ \A c \in Dropper(b) : IsSeq(c.events) /\ c.rule = "dropper_pattern"
<1>0. PICK All : All = Pids \cup {NoPid} /\ IsFiniteSet(All)
  BY KeysAreFinite
<1> DEFINE Created(e) == Has(e, "FILE_CREATE")
           f == [k \in All |-> Selected(b, LAMBDA e : Created(e) /\ e.pid = k)]
           G == Groups(b, All, LAMBDA e : e.pid, Created, 3)
<1> DEFINE Of(k) == {i \in DOMAIN b : Created(b[i]) /\ b[i].pid = k}
<1>9. \A k \in DOMAIN f : IsSeq(f[k])
  <2> SUFFICES ASSUME NEW k \in DOMAIN f PROVE IsSeq(f[k])
    OBVIOUS
  <2>1. DOMAIN b = 1..Len(b) /\ Len(b) \in Nat
    BY SeqFacts
  <2>2. Of(k) \in SUBSET (1..Len(b))
    BY <2>1
  <2>3. f[k] = [n \in DOMAIN InOrder(Of(k)) |-> b[InOrder(Of(k))[n]]]
    BY DEF Selected, Positions
  <2> HIDE DEF Of
  <2> QED
    BY <2>1, <2>2, <2>3, PickedIs
<1>1. IsFiniteSet({f[x] : x \in DOMAIN f})
  BY <1>0, ImageIsFinite
<1>2. G = {g \in {Selected(b, LAMBDA e : Created(e) /\ e.pid = k) : k \in All} : Len(g) >= 3}
  BY DEF Groups
<1>3. {Selected(b, LAMBDA e : Created(e) /\ e.pid = k) : k \in All} = {f[x] : x \in DOMAIN f}
  OBVIOUS
<1>4. IsFiniteSet(G)
  BY <1>1, <1>2, <1>3, FS_Subset
<1>10. \A g \in G : IsSeq(g)
  BY <1>2, <1>3, <1>9
<1> HIDE DEF G
<1> DEFINE h == [g \in G |-> Chain("dropper_pattern", g, 80)]
<1>5. IsFiniteSet({h[x] : x \in DOMAIN h})
  BY <1>4, ImageIsFinite
<1>6. Dropper(b) \in SUBSET {h[x] : x \in DOMAIN h}
  BY <1>0 DEF Dropper, G
<1>7. IsFiniteSet(Dropper(b))
  BY <1>5, <1>6, FS_Subset
<1>8. \A g \in G : h[g].events = g /\ h[g].rule = "dropper_pattern"
  BY DEF Chain
<1> QED
  BY <1>6, <1>7, <1>8, <1>10

LEMMA SuspiciousRenameIs ==
    ASSUME NEW b, IsSeq(b)
    PROVE  IsFiniteSet(SuspiciousRename(b)) /\ \A c \in SuspiciousRename(b) : IsSeq(c.events) /\ c.rule = "suspicious_rename_chain"
<1> DEFINE f == [k \in Files |-> Selected(b, LAMBDA e : IsRename(e) /\ e.frn = k)]
           G == Groups(b, Files, LAMBDA e : e.frn, IsRename, 3)
<1> DEFINE Of(k) == {i \in DOMAIN b : IsRename(b[i]) /\ b[i].frn = k}
<1>9. \A k \in DOMAIN f : IsSeq(f[k])
  <2> SUFFICES ASSUME NEW k \in DOMAIN f PROVE IsSeq(f[k])
    OBVIOUS
  <2>1. DOMAIN b = 1..Len(b) /\ Len(b) \in Nat
    BY SeqFacts
  <2>2. Of(k) \in SUBSET (1..Len(b))
    BY <2>1
  <2>3. f[k] = [n \in DOMAIN InOrder(Of(k)) |-> b[InOrder(Of(k))[n]]]
    BY DEF Selected, Positions
  <2> HIDE DEF Of
  <2> QED
    BY <2>1, <2>2, <2>3, PickedIs
<1>1. IsFiniteSet({f[x] : x \in DOMAIN f})
  BY KeysAreFinite, ImageIsFinite
<1>2. G = {g \in {Selected(b, LAMBDA e : IsRename(e) /\ e.frn = k) : k \in Files} : Len(g) >= 3}
  BY DEF Groups
<1>3. {Selected(b, LAMBDA e : IsRename(e) /\ e.frn = k) : k \in Files} = {f[x] : x \in DOMAIN f}
  OBVIOUS
<1>4. IsFiniteSet(G)
  BY <1>1, <1>2, <1>3, FS_Subset
<1>10. \A g \in G : IsSeq(g)
  BY <1>2, <1>3, <1>9
<1> HIDE DEF G
<1> DEFINE h == [g \in G |-> Chain("suspicious_rename_chain", g, 75)]
<1>5. IsFiniteSet({h[x] : x \in DOMAIN h})
  BY <1>4, ImageIsFinite
<1>6. SuspiciousRename(b) \in SUBSET {h[x] : x \in DOMAIN h}
  BY DEF SuspiciousRename, G
<1>7. IsFiniteSet(SuspiciousRename(b))
  BY <1>5, <1>6, FS_Subset
<1>8. \A g \in G : h[g].events = g /\ h[g].rule = "suspicious_rename_chain"
  BY DEF Chain
<1> QED
  BY <1>6, <1>7, <1>8, <1>10

LEMMA StagingIs ==
    ASSUME NEW b, IsSeq(b)
    PROVE  IsFiniteSet(Staging(b)) /\ \A c \in Staging(b) : IsSeq(c.events) /\ c.rule = "staging_pattern"
<1> DEFINE Staged(e) == Has(e, "FILE_CREATE") /\ "user" \in Traits[e.name]
                        /\ Traits[e.name] \cap {"exe", "script"} # {}
           f == [k \in {0} |-> Selected(b, LAMBDA e : Staged(e) /\ 0 = k)]
           G == Groups(b, {0}, LAMBDA e : 0, Staged, 2)
<1> DEFINE Of(k) == {i \in DOMAIN b : Staged(b[i]) /\ 0 = k}
<1>9. \A k \in DOMAIN f : IsSeq(f[k])
  <2> SUFFICES ASSUME NEW k \in DOMAIN f PROVE IsSeq(f[k])
    OBVIOUS
  <2>1. DOMAIN b = 1..Len(b) /\ Len(b) \in Nat
    BY SeqFacts
  <2>2. Of(k) \in SUBSET (1..Len(b))
    BY <2>1
  <2>3. f[k] = [n \in DOMAIN InOrder(Of(k)) |-> b[InOrder(Of(k))[n]]]
    BY DEF Selected, Positions
  <2> HIDE DEF Of
  <2> QED
    BY <2>1, <2>2, <2>3, PickedIs
<1>1. IsFiniteSet({f[x] : x \in DOMAIN f})
  BY KeysAreFinite, ImageIsFinite
<1>2. G = {g \in {Selected(b, LAMBDA e : Staged(e) /\ 0 = k) : k \in {0}} : Len(g) >= 2}
  BY DEF Groups
<1>3. {Selected(b, LAMBDA e : Staged(e) /\ 0 = k) : k \in {0}} = {f[x] : x \in DOMAIN f}
  OBVIOUS
<1>4. IsFiniteSet(G)
  BY <1>1, <1>2, <1>3, FS_Subset
<1>10. \A g \in G : IsSeq(g)
  BY <1>2, <1>3, <1>9
<1> HIDE DEF G
<1> DEFINE h == [g \in G |-> Chain("staging_pattern", g, 70)]
<1>5. IsFiniteSet({h[x] : x \in DOMAIN h})
  BY <1>4, ImageIsFinite
<1>6. Staging(b) \in SUBSET {h[x] : x \in DOMAIN h}
  BY DEF Staging, G
<1>7. IsFiniteSet(Staging(b))
  BY <1>5, <1>6, FS_Subset
<1>8. \A g \in G : h[g].events = g /\ h[g].rule = "staging_pattern"
  BY DEF Chain
<1> QED
  BY <1>6, <1>7, <1>8, <1>10

LEMMA MassModificationIs ==
    ASSUME NEW b, IsSeq(b)
    PROVE  IsFiniteSet(MassModification(b)) /\ \A c \in MassModification(b) : IsSeq(c.events) /\ c.rule = "mass_modification"
<1>0. PICK All : All = Pids \cup {NoPid} /\ IsFiniteSet(All)
  BY KeysAreFinite
<1> DEFINE f == [k \in All |-> Selected(b, LAMBDA e : Modifies(e) /\ e.pid = k)]
           G == Groups(b, All, LAMBDA e : e.pid, Modifies, MassThreshold)
<1> DEFINE Of(k) == {i \in DOMAIN b : Modifies(b[i]) /\ b[i].pid = k}
<1>9. \A k \in DOMAIN f : IsSeq(f[k])
  <2> SUFFICES ASSUME NEW k \in DOMAIN f PROVE IsSeq(f[k])
    OBVIOUS
  <2>1. DOMAIN b = 1..Len(b) /\ Len(b) \in Nat
    BY SeqFacts
  <2>2. Of(k) \in SUBSET (1..Len(b))
    BY <2>1
  <2>3. f[k] = [n \in DOMAIN InOrder(Of(k)) |-> b[InOrder(Of(k))[n]]]
    BY DEF Selected, Positions
  <2> HIDE DEF Of
  <2> QED
    BY <2>1, <2>2, <2>3, PickedIs
<1>1. IsFiniteSet({f[x] : x \in DOMAIN f})
  BY <1>0, ImageIsFinite
<1>2. G = {g \in {Selected(b, LAMBDA e : Modifies(e) /\ e.pid = k) : k \in All} : Len(g) >= MassThreshold}
  BY DEF Groups
<1>3. {Selected(b, LAMBDA e : Modifies(e) /\ e.pid = k) : k \in All} = {f[x] : x \in DOMAIN f}
  OBVIOUS
<1>4. IsFiniteSet(G)
  BY <1>1, <1>2, <1>3, FS_Subset
<1>10. \A g \in G : IsSeq(g)
  BY <1>2, <1>3, <1>9
<1> HIDE DEF G
<1> DEFINE h == [g \in G |-> Chain("mass_modification", g, IF Len(g) >= 100 THEN 95 ELSE 90)]
<1>5. IsFiniteSet({h[x] : x \in DOMAIN h})
  BY <1>4, ImageIsFinite
<1>6. MassModification(b) \in SUBSET {h[x] : x \in DOMAIN h}
  BY <1>0 DEF MassModification, G
<1>7. IsFiniteSet(MassModification(b))
  BY <1>5, <1>6, FS_Subset
<1>8. \A g \in G : h[g].events = g /\ h[g].rule = "mass_modification"
  BY DEF Chain
<1> QED
  BY <1>6, <1>7, <1>8, <1>10

LEMMA TimestampManipulationIs ==
    ASSUME NEW b, IsSeq(b)
    PROVE  IsFiniteSet(TimestampManipulation(b)) /\ \A c \in TimestampManipulation(b) : IsSeq(c.events) /\ c.rule = "timestamp_manipulation"
<1> DEFINE Changed(e) == Has(e, "BASIC_INFO_CHANGE") \/ Has(e, "SECURITY_CHANGE")
           f == [k \in Files |-> Selected(b, LAMBDA e : Changed(e) /\ e.frn = k)]
           G == Groups(b, Files, LAMBDA e : e.frn, Changed, 3)
<1> DEFINE Of(k) == {i \in DOMAIN b : Changed(b[i]) /\ b[i].frn = k}
<1>9. \A k \in DOMAIN f : IsSeq(f[k])
  <2> SUFFICES ASSUME NEW k \in DOMAIN f PROVE IsSeq(f[k])
    OBVIOUS
  <2>1. DOMAIN b = 1..Len(b) /\ Len(b) \in Nat
    BY SeqFacts
  <2>2. Of(k) \in SUBSET (1..Len(b))
    BY <2>1
  <2>3. f[k] = [n \in DOMAIN InOrder(Of(k)) |-> b[InOrder(Of(k))[n]]]
    BY DEF Selected, Positions
  <2> HIDE DEF Of
  <2> QED
    BY <2>1, <2>2, <2>3, PickedIs
<1>1. IsFiniteSet({f[x] : x \in DOMAIN f})
  BY KeysAreFinite, ImageIsFinite
<1>2. G = {g \in {Selected(b, LAMBDA e : Changed(e) /\ e.frn = k) : k \in Files} : Len(g) >= 3}
  BY DEF Groups
<1>3. {Selected(b, LAMBDA e : Changed(e) /\ e.frn = k) : k \in Files} = {f[x] : x \in DOMAIN f}
  OBVIOUS
<1>4. IsFiniteSet(G)
  BY <1>1, <1>2, <1>3, FS_Subset
<1>10. \A g \in G : IsSeq(g)
  BY <1>2, <1>3, <1>9
<1> HIDE DEF G
<1> DEFINE h == [g \in G |-> Chain("timestamp_manipulation", g, 65)]
<1>5. IsFiniteSet({h[x] : x \in DOMAIN h})
  BY <1>4, ImageIsFinite
<1>6. TimestampManipulation(b) \in SUBSET {h[x] : x \in DOMAIN h}
  BY DEF TimestampManipulation, G
<1>7. IsFiniteSet(TimestampManipulation(b))
  BY <1>5, <1>6, FS_Subset
<1>8. \A g \in G : h[g].events = g /\ h[g].rule = "timestamp_manipulation"
  BY DEF Chain
<1> QED
  BY <1>6, <1>7, <1>8, <1>10

\* The rest of a stream from some point on.
IsRest(b, q) == \E n \in Nat : n <= Len(q) /\ b = SubSeq(q, n + 1, Len(q))

LEMMA RapidReported ==
    ASSUME NEW q \in Seq(FileEvent), NEW b, IsRest(b, q)
    PROVE  LET r == RapidCreateDelete(b)
           IN  /\ r \in Seq(ToSet(r))
               /\ \A c \in ToSet(r) : IsSeq(c.events) /\ ShortLived(q, c.events[1].frn) # {}
<1>1. PICK n \in Nat : n <= Len(q) /\ b = SubSeq(q, n + 1, Len(q))
  BY DEF IsRest
<1>2. /\ b \in Seq(FileEvent) /\ Len(q) \in Nat /\ Len(b) = Len(q) - n /\ DOMAIN b = 1..Len(b) /\ Len(b) \in Nat
      /\ \A k \in 1..Len(b) : b[k] = q[n + k] /\ n + k \in 1..Len(q)
  BY <1>1, PieceFacts
<1> DEFINE Created(j) == {i \in 1..j :
                /\ b[i].frn = b[j].frn /\ Has(b[i], "FILE_CREATE")
                /\ \A k \in i..j : b[k].frn = b[i].frn =>
                      /\ k > i => ~Has(b[k], "FILE_CREATE")
                      /\ k < j => ~Has(b[k], "FILE_DELETE")}
           Creation(j) == b[CHOOSE i \in Created(j) : TRUE]
           Secs(j) == Seconds(b[j].time - Creation(j).time)
           S == {j \in DOMAIN b : /\ Has(b[j], "FILE_DELETE") /\ Created(j) # {}
                                  /\ Secs(j) \in 0..RapidWindow}
           r == RapidCreateDelete(b)
<1>3. r = [m \in DOMAIN InOrder(S) |->
              Chain("rapid_create_delete", <<Creation(InOrder(S)[m]), b[InOrder(S)[m]]>>,
                    RapidConfidence(Secs(InOrder(S)[m])))]
  BY SMTT(30), ZenonT(30) DEF RapidCreateDelete
<1>4. ASSUME NEW j \in S
      PROVE  /\ j \in 1..Len(b) /\ Creation(j).frn = q[n + j].frn
             /\ n + j \in ShortLived(q, q[n + j].frn)
  <2>1. PICK i \in 1..j : /\ i \in Created(j) /\ Creation(j) = b[i]
    <3>1. Created(j) # {} /\ (CHOOSE i \in Created(j) : TRUE) \in Created(j)
      OBVIOUS
    <3> QED
      BY <3>1
  <2>2. j \in 1..Len(b) /\ i \in 1..Len(b) /\ b[j] = q[n + j] /\ b[i] = q[n + i]
        /\ n + j \in 1..Len(q) /\ n + i \in 1..n + j
    <3>1. j \in 1..Len(b)
      BY <1>2
    <3>2. i \in 1..Len(b) /\ n + i \in 1..n + j
      <4>1. PICK m \in Nat : m = Len(b)
        BY <1>2
      <4>2. j \in 1..m /\ i \in 1..j
        BY <3>1, <4>1
      <4>3. i \in 1..m /\ n + i \in 1..n + j
        BY <4>2
      <4> QED
        BY <4>1, <4>3
    <3> QED
      BY <1>2, <3>1, <3>2
  <2>3. n + i \in CreatedUpTo(q, n + j)
    BY <2>1, <2>2 DEF CreatedUpTo
  <2>4. ASSUME NEW k \in CreatedUpTo(q, n + j) PROVE k <= n + i
    <3> SUFFICES ASSUME k > n + i PROVE FALSE
      BY <2>2 DEF CreatedUpTo
    <3>1. k \in 1..n + j /\ q[k].frn = q[n + j].frn /\ Has(q[k], "FILE_CREATE")
      BY DEF CreatedUpTo
    <3>2. k - n \in i..j /\ k - n > i /\ k - n \in 1..Len(b) /\ n + (k - n) = k
      BY <2>2, <3>1
    <3>3. b[k - n] = q[k]
      BY <1>2, <3>2
    <3>4. b[i].frn = b[j].frn /\ (b[k - n].frn = b[i].frn => ~Has(b[k - n], "FILE_CREATE"))
      BY <2>1, <3>2
    <3> QED
      BY <2>2, <3>1, <3>3, <3>4
  <2>5. Max(CreatedUpTo(q, n + j)) = n + i
    <3>0. PICK m \in Nat : m = n + j
      BY <2>2
    <3>1. PICK C : C = CreatedUpTo(q, n + j) /\ C \subseteq 0..m
      <4>1. CreatedUpTo(q, n + j) \subseteq 0..m
        BY <3>0 DEF CreatedUpTo
      <4> QED
        BY <4>1
    <3>2. Max(C) \in C /\ \A k \in C : Max(C) >= k
      BY <2>3, <3>1, GreatestIs
    <3>3. Max(C) <= n + i /\ Max(C) >= n + i /\ Max(C) \in Int
      <4>1. Max(C) \in CreatedUpTo(q, n + j) /\ n + i \in C
        BY <2>3, <3>1, <3>2
      <4>2. Max(C) <= n + i
        BY <2>4, <4>1
      <4>3. Max(C) >= n + i /\ Max(C) \in Int
        BY <3>1, <3>2, <4>1
      <4> QED
        BY <4>2, <4>3
    <3> QED
      BY <3>1, <3>3
  <2>6. AgeAt(q, n + j) = Secs(j)
    BY <2>1, <2>2, <2>5 DEF AgeAt
  <2>7. Has(b[j], "FILE_DELETE") /\ Secs(j) \in 0..RapidWindow
    OBVIOUS
  <2>8. n + j \in ShortLived(q, q[n + j].frn)
    <3> HIDE DEF S, Secs, Creation, Created
    <3>1. PICK m : m = n + j
      OBVIOUS
    <3>2. m \in DOMAIN q /\ Has(q[m], "FILE_DELETE") /\ CreatedUpTo(q, m) # {} /\ AgeAt(q, m) \in 0..RapidWindow
      BY <2>2, <2>3, <2>6, <2>7, <3>1
    <3> QED
      BY <3>1, <3>2 DEF ShortLived
  <2>9. Creation(j).frn = q[n + j].frn
    <3>1. b[i].frn = b[j].frn
      BY <2>1
    <3> QED
      BY <2>1, <2>2, <3>1
  <2> QED
    BY <2>2, <2>8, <2>9
<1>5. S \in SUBSET (1..Len(b))
  BY <1>2
<1> HIDE DEF S, Creation, Secs, r
<1>6. /\ DOMAIN InOrder(S) = 1..Cardinality(S) /\ Cardinality(S) \in Nat
      /\ \A m \in DOMAIN InOrder(S) : InOrder(S)[m] \in S
  BY <1>2, <1>5, InOrderFacts
<1>7. DOMAIN r = 1..Cardinality(S)
  BY <1>3, <1>6
<1>8. r \in Seq(ToSet(r))
  <2>1. r = [m \in 1..Cardinality(S) |-> r[m]] /\ \A m \in 1..Cardinality(S) : r[m] \in ToSet(r)
    BY <1>3, <1>7 DEF ToSet
  <2>2. r \in [1..Cardinality(S) -> ToSet(r)]
    BY <2>1
  <2> QED
    BY <1>6, <2>2, IsASeq
<1>9. ASSUME NEW m \in 1..Cardinality(S)
      PROVE  IsSeq(r[m].events) /\ ShortLived(q, r[m].events[1].frn) # {}
  <2>1. PICK j \in S : j = InOrder(S)[m]
    BY <1>6
  <2>2. r[m].events = <<Creation(j), b[j]>>
    BY <1>3, <1>6, <2>1 DEF Chain
  <2>3. r[m].events[1].frn = q[n + j].frn
    BY <1>4, <2>2
  <2>4. r[m].events \in Seq({Creation(j), b[j]})
    BY <2>2
  <2>5. IsSeq(r[m].events)
    BY <2>4, SeqFacts
  <2> QED
    BY <1>4, <2>3, <2>5
<1>10. \A c \in ToSet(r) : IsSeq(c.events) /\ ShortLived(q, c.events[1].frn) # {}
  BY <1>7, <1>9 DEF ToSet
<1> QED
  BY <1>8, <1>10 DEF r

LEMMA EvaluateIs ==
    ASSUME NEW q \in Seq(FileEvent), NEW b, IsRest(b, q)
    PROVE  \E U : /\ Evaluate(b) \in Seq(U)
                  /\ \A c \in U : IsSeq(c.events)
                  /\ \A c \in U : c.rule = "rapid_create_delete" => ShortLived(q, c.events[1].frn) # {}
<1> DEFINE r == RapidCreateDelete(b)
           U == ToSet(r) \cup Dropper(b) \cup SuspiciousRename(b) \cup Staging(b)
                \cup MassModification(b) \cup TimestampManipulation(b)
<1>0. IsSeq(b)
  <2>1. PICK n \in Nat : n <= Len(q) /\ b = SubSeq(q, n + 1, Len(q))
    BY DEF IsRest
  <2>2. b \in Seq(FileEvent)
    BY <2>1, PieceFacts
  <2> QED
    BY <2>2, SeqFacts
<1>1. r \in Seq(ToSet(r)) /\ \A c \in ToSet(r) : IsSeq(c.events) /\ ShortLived(q, c.events[1].frn) # {}
  BY RapidReported
<1>2. \A c \in U : IsSeq(c.events) /\ (c.rule = "rapid_create_delete" => ShortLived(q, c.events[1].frn) # {})
  BY <1>0, <1>1, DropperIs, SuspiciousRenameIs, StagingIs, MassModificationIs, TimestampManipulationIs
<1>3. ToSet(r) \subseteq U /\ Dropper(b) \subseteq U /\ SuspiciousRename(b) \subseteq U /\ Staging(b) \subseteq U
      /\ MassModification(b) \subseteq U /\ TimestampManipulation(b) \subseteq U
  OBVIOUS
<1> HIDE DEF U, r
<1>4. r \in Seq(U)
  BY <1>1, <1>3, SeqMonotonic
<1>5. SetToSeq(Dropper(b)) \in Seq(U) /\ SetToSeq(SuspiciousRename(b)) \in Seq(U)
  BY <1>0, <1>3, DropperIs, SuspiciousRenameIs, ArrangedIn
<1>6. SetToSeq(Staging(b)) \in Seq(U) /\ SetToSeq(MassModification(b)) \in Seq(U)
  BY <1>0, <1>3, StagingIs, MassModificationIs, ArrangedIn
<1>7. SetToSeq(TimestampManipulation(b)) \in Seq(U)
  BY <1>0, <1>3, TimestampManipulationIs, ArrangedIn
<1>8. \A x, y \in Seq(U) : x \o y \in Seq(U)
  BY ConcatFacts
<1>9. Evaluate(b) \in Seq(U)
  BY <1>4, <1>5, <1>6, <1>7, <1>8 DEF Evaluate, r
<1> QED
  BY <1>2, <1>9

-----------------------------------------------------------------------------
(* What the anti-forensic checks report is a sequence.                       *)
LEMMA StreamFindingsIs ==
    ASSUME NEW b
    PROVE  IsFiniteSet(StreamFindings(b))
<1> DEFINE Streamed(e) == Has(e, "STREAM_CHANGE") \/ Has(e, "NAMED_DATA_OVERWRITE")
           f == [k \in Files |-> Selected(b, LAMBDA e : Streamed(e) /\ e.frn = k)]
           G == Groups(b, Files, LAMBDA e : e.frn, Streamed, 3)
<1>1. IsFiniteSet({f[x] : x \in DOMAIN f})
  BY KeysAreFinite, ImageIsFinite
<1>2. G = {g \in {Selected(b, LAMBDA e : Streamed(e) /\ e.frn = k) : k \in Files} : Len(g) >= 3}
  BY DEF Groups
<1>3. {Selected(b, LAMBDA e : Streamed(e) /\ e.frn = k) : k \in Files} = {f[x] : x \in DOMAIN f}
  OBVIOUS
<1>4. IsFiniteSet(G)
  BY <1>1, <1>2, <1>3, FS_Subset
<1> HIDE DEF G
<1> DEFINE h == [g \in G |-> Finding("AdsAbuse", "Suspicious", Head(g).frn)]
<1>5. IsFiniteSet({h[x] : x \in DOMAIN h})
  BY <1>4, ImageIsFinite
<1>6. StreamFindings(b) \in SUBSET {h[x] : x \in DOMAIN h}
  BY DEF StreamFindings, G
<1> QED
  BY <1>5, <1>6, FS_Subset

LEMMA JournalFindingsIs == IsSeq(JournalFindings)
<1> DEFINE Against(P(_), type, severity) ==
              IF \E prev \in snapshots : P(prev) THEN <<Finding(type, severity, "journal")>> ELSE <<>>
           p == Against(LAMBDA prev : prev.journalId # Volume.journalId, "JournalRecreated", "Critical")
           q == Against(LAMBDA prev : Volume.next < prev.next, "JournalTruncated", "Critical")
           r == Against(LAMBDA prev : Volume.size < prev.size, "JournalMaxSizeChanged", "Warning")
           s == IF Volume.next - Volume.first < 100
                THEN <<Finding("JournalWiped", "Critical", "journal")>> ELSE <<>>
<1>1. JournalFindings = p \o q \o r \o s
  BY DEF JournalFindings
<1>2. IsSeq(p) /\ IsSeq(q) /\ IsSeq(r) /\ IsSeq(s)
  BY SeqFacts
<1> HIDE DEF p, q, r, s
<1> QED
  BY <1>1, <1>2, SeqFacts

LEMMA AnalyzeAllIs ==
    ASSUME NEW b \in Seq(FileEvent), NEW residual
    PROVE  Len(AnalyzeAll(b, residual)) \in Nat
<1> DEFINE PerEvent(s, type, severity) == [i \in DOMAIN s |-> Finding(type, severity, s[i].frn)]
           v == ReparseFindings(b)
           w == HiddenExecutables(b)
           x == PerEvent(v, "ReparsePointAbuse", "Warning")
           y == PerEvent(w, "HiddenExecutable", "Suspicious")
           all == JournalFindings \o SetToSeq(StreamFindings(b)) \o x \o y \o ContinuityFindings(b) \o SlackFindings(residual)
           Ranked(n) == {i \in DOMAIN all : SeverityOrder[all[i].severity] = n}
           OfSeverity(n) == [k \in DOMAIN InOrder(Ranked(n)) |-> all[InOrder(Ranked(n))[k]]]
<1>1. IsSeq(v) /\ IsSeq(w)
  <2>1. Len(b) \in Nat /\ DOMAIN b = 1..Len(b)
    OBVIOUS
  <2>2. PICK S \in SUBSET (1..Len(b)) : S = {i \in DOMAIN b : Has(b[i], "REPARSE_POINT_CHANGE")}
    BY <2>1
  <2>3. v = [k \in DOMAIN InOrder(S) |-> b[InOrder(S)[k]]]
    BY <2>2 DEF ReparseFindings, Selected, Positions
  <2>4. PICK T \in SUBSET (1..Len(b)) :
            T = {i \in DOMAIN b : Has(b[i], "FILE_CREATE") /\ {"temp", "exe"} \subseteq Traits[b[i].name]}
    BY <2>1
  <2>5. w = [k \in DOMAIN InOrder(T) |-> b[InOrder(T)[k]]]
    BY <2>4 DEF HiddenExecutables, Selected, Positions
  <2>6. ASSUME NEW R \in SUBSET (1..Len(b)) PROVE IsSeq([k \in DOMAIN InOrder(R) |-> b[InOrder(R)[k]]])
    BY <2>1, PickedIs
  <2> HIDE DEF v, w
  <2> QED
    BY <2>3, <2>5, <2>6
<1> HIDE DEF v, w
<1>2. IsSeq(x) /\ IsSeq(y)
  <2>1. DOMAIN v = 1..Len(v) /\ Len(v) \in Nat /\ DOMAIN w = 1..Len(w) /\ Len(w) \in Nat
    BY <1>1, SeqFacts
  <2>2. DOMAIN x = 1..Len(v) /\ x = [i \in 1..Len(v) |-> x[i]]
    BY <2>1
  <2>3. DOMAIN y = 1..Len(w) /\ y = [i \in 1..Len(w) |-> y[i]]
    BY <2>1
  <2> HIDE DEF x, y
  <2> QED
    BY <2>1, <2>2, <2>3, SeqFacts
<1>3. IsSeq(SetToSeq(StreamFindings(b))) /\ IsSeq(ContinuityFindings(b))
      /\ IsSeq(SlackFindings(residual))
  <2>1. SetToSeq(StreamFindings(b)) \in Seq(StreamFindings(b))
    BY StreamFindingsIs, ArrangedIn
  <2>2. IsSeq(ContinuityFindings(b))
    BY SeqFacts DEF ContinuityFindings
  <2>3. IsSeq(SlackFindings(residual))
    BY SeqFacts DEF SlackFindings
  <2> QED
    BY <2>1, <2>2, <2>3, SeqFacts
<1> HIDE DEF x, y
<1>4. IsSeq(all)
  BY <1>2, <1>3, JournalFindingsIs, SeqFacts
<1>5. AnalyzeAll(b, residual) = OfSeverity(0) \o OfSeverity(1) \o OfSeverity(2) \o OfSeverity(3)
  BY DEF AnalyzeAll, Selected, Positions, x, y, v, w
<1> HIDE DEF all
<1>6. ASSUME NEW n PROVE IsSeq(OfSeverity(n))
  <2>1. DOMAIN all = 1..Len(all) /\ Len(all) \in Nat
    BY <1>4, SeqFacts
  <2>2. Ranked(n) \in SUBSET (1..Len(all))
    BY <2>1
  <2> HIDE DEF Ranked
  <2> QED
    BY <2>1, <2>2, PickedIs
<1> HIDE DEF OfSeverity
<1>7. IsSeq(AnalyzeAll(b, residual))
  BY <1>5, <1>6, SeqFacts
<1> QED
  BY <1>7, SeqFacts

-----------------------------------------------------------------------------
(* The graph's map and vector.                                               *)
GoodGraph(g) ==
    /\ IsSeq(g.nodes) /\ IsSeq(g.edges) /\ DOMAIN g.nodeMap = ToSet(g.nodes)
    /\ IsInjective(g.nodes) /\ Len(g.nodes) <= MaxNodes
    /\ \A id \in DOMAIN g.nodeMap : g.nodeMap[id] \in 1..Len(g.nodes)
    /\ g = [nodes |-> g.nodes, nodeMap |-> g.nodeMap, edges |-> g.edges]

LEMMA EdgesAreFree ==
    ASSUME NEW g, GoodGraph(g), NEW x, IsSeq(x)
    PROVE  GoodGraph([g EXCEPT !.edges = x])
BY DEF GoodGraph

\* A graph that has room for one more node, whose map may point just past the end.
HasRoom(g) ==
    /\ IsSeq(g.nodes) /\ IsSeq(g.edges) /\ DOMAIN g.nodeMap = ToSet(g.nodes)
    /\ IsInjective(g.nodes) /\ Len(g.nodes) < MaxNodes
    /\ \A id \in DOMAIN g.nodeMap : g.nodeMap[id] \in 1..Len(g.nodes) + 1
    /\ g = [nodes |-> g.nodes, nodeMap |-> g.nodeMap, edges |-> g.edges]

LEMMA InsertKeeps ==
    ASSUME NEW g, HasRoom(g), NEW id, id \notin DOMAIN g.nodeMap
    PROVE  GoodGraph(Insert(g, id)) /\ DOMAIN Insert(g, id).nodeMap = DOMAIN g.nodeMap \cup {id}
<1>1. PICK q, m : q = g.nodes /\ m = g.nodeMap
  OBVIOUS
<1>2. /\ IsSeq(q) /\ DOMAIN m = ToSet(q) /\ IsInjective(q) /\ Len(q) < MaxNodes /\ Len(q) \in Nat
      /\ \A x \in DOMAIN m : m[x] \in 1..Len(q) + 1
  BY <1>1, SeqFacts DEF HasRoom
<1>3. /\ Append(q, id) \in Seq(ToSet(q) \cup {id}) /\ Len(Append(q, id)) = Len(q) + 1
      /\ ToSet(Append(q, id)) = ToSet(q) \cup {id} /\ IsInjective(Append(q, id))
  <2>1. q \in Seq(ToSet(q) \cup {id}) /\ id \in ToSet(q) \cup {id} /\ id \notin ToSet(q)
    BY <1>1, <1>2, SeqMonotonic DEF IsSeq
  <2> QED
    BY <1>2, <2>1, AppendFacts
<1>4. PICK r : r = [x \in DOMAIN m \cup {id} |-> IF x = id THEN Len(q) + 1 ELSE m[x]]
  OBVIOUS
<1>5. DOMAIN r = DOMAIN m \cup {id} /\ \A x \in DOMAIN r : r[x] = IF x = id THEN Len(q) + 1 ELSE m[x]
  BY <1>4
<1>6. \A x \in DOMAIN r : r[x] \in 1..Len(q) + 1
  BY <1>2, <1>5
<1>7. Insert(g, id) = [nodes |-> Append(q, id), nodeMap |-> r, edges |-> g.edges]
  <2>1. PICK s : g = [nodes |-> q, nodeMap |-> m, edges |-> s]
    BY <1>1 DEF HasRoom
  <2>2. Insert(g, id) = [g EXCEPT !.nodes = Append(q, id), !.nodeMap = r]
    BY <1>1, <1>4 DEF Insert
  <2> QED
    BY <2>1, <2>2
<1>8. Len(q) + 1 <= MaxNodes
  BY <1>2, MaxNodesAssumption
<1>9. IsSeq(Append(q, id))
  BY <1>3, SeqFacts
<1>10. GoodGraph(Insert(g, id))
  <2>1. PICK h, s : h = Insert(g, id) /\ h = [nodes |-> Append(q, id), nodeMap |-> r, edges |-> s] /\ IsSeq(s)
    BY <1>7 DEF HasRoom
  <2>2. Len(h.nodes) <= MaxNodes /\ \A x \in DOMAIN h.nodeMap : h.nodeMap[x] \in 1..Len(h.nodes)
    BY <1>2, <1>3, <1>6, <1>8, <2>1
  <2>3. IsSeq(h.nodes) /\ IsInjective(h.nodes) /\ DOMAIN h.nodeMap = ToSet(h.nodes)
    BY <1>2, <1>3, <1>5, <1>9, <2>1
  <2> QED
    BY <2>1, <2>2, <2>3 DEF GoodGraph
<1> QED
  BY <1>1, <1>5, <1>7, <1>10

LEMMA EvictMakesRoom ==
    ASSUME NEW g, GoodGraph(g), Len(g.nodes) >= MaxNodes
    PROVE  HasRoom(EvictOldest(g)) /\ DOMAIN EvictOldest(g).nodeMap \subseteq DOMAIN g.nodeMap
<1>1. PICK q, m : q = g.nodes /\ m = g.nodeMap
  OBVIOUS
<1>2. /\ q \in Seq(ToSet(q)) /\ DOMAIN m = ToSet(q) /\ IsInjective(q) /\ Len(q) = MaxNodes
      /\ Len(q) \in Nat \ {0} /\ q # <<>>
      /\ \A x \in DOMAIN m : m[x] \in 1..Len(q)
  <2>1. /\ IsSeq(q) /\ DOMAIN m = ToSet(q) /\ IsInjective(q) /\ Len(q) = MaxNodes
        /\ \A x \in DOMAIN m : m[x] \in 1..Len(q)
    <3>1. Len(q) \in Nat /\ Len(q) <= MaxNodes /\ Len(q) >= MaxNodes
      BY <1>1, SeqFacts DEF GoodGraph
    <3> QED
      BY <1>1, <3>1, MaxNodesAssumption DEF GoodGraph
  <2> QED
    BY <2>1, MaxNodesAssumption DEF IsSeq
<1>3. PICK r : r = Restrict(m, DOMAIN m \ {Head(q)})
  OBVIOUS
<1>4. DOMAIN r = ToSet(q) \ {Head(q)} /\ \A x \in DOMAIN r : r[x] = m[x]
  BY <1>2, <1>3 DEF Restrict
<1>5. /\ Tail(q) \in Seq(ToSet(q)) /\ Len(Tail(q)) = Len(q) - 1
      /\ ToSet(Tail(q)) = ToSet(q) \ {Head(q)} /\ IsInjective(Tail(q))
  <2>1. PICK S : S = ToSet(q) /\ q \in Seq(S) /\ IsInjective(q) /\ q # <<>>
    BY <1>2
  <2>2. /\ Tail(q) \in Seq(S) /\ Len(Tail(q)) = Len(q) - 1
        /\ ToSet(q) = {Head(q)} \cup ToSet(Tail(q)) /\ IsInjective(Tail(q)) /\ Head(q) \notin ToSet(Tail(q))
    BY <2>1, HeadTailFacts
  <2>3. ToSet(Tail(q)) = ToSet(q) \ {Head(q)}
    BY <2>2
  <2> QED
    BY <2>1, <2>2, <2>3
<1>6. PICK s : EvictOldest(g) = [nodes |-> Tail(q), nodeMap |-> r, edges |-> s] /\ IsSeq(s)
  <2> DEFINE Left == {i \in DOMAIN g.edges : Head(g.nodes) \notin {g.edges[i].source, g.edges[i].target}}
             s == [k \in DOMAIN InOrder(Left) |-> g.edges[InOrder(Left)[k]]]
  <2>1. DOMAIN g.edges = 1..Len(g.edges) /\ Len(g.edges) \in Nat
    BY SeqFacts DEF GoodGraph
  <2>2. Left \in SUBSET (1..Len(g.edges))
    BY <2>1
  <2>3. EvictOldest(g) = [nodes |-> Tail(q), nodeMap |-> r, edges |-> s]
    BY <1>1, <1>3 DEF EvictOldest, Selected, Positions
  <2> HIDE DEF Left
  <2>4. IsSeq(s)
    BY <2>1, <2>2, PickedIs
  <2> QED
    BY <2>3, <2>4
<1>7. IsSeq(Tail(q)) /\ Len(Tail(q)) < MaxNodes
  <2>1. IsSeq(Tail(q))
    BY <1>5, SeqFacts
  <2>2. Len(Tail(q)) < MaxNodes
    BY <1>2, <1>5, MaxNodesAssumption
  <2> QED
    BY <2>1, <2>2
<1>8. \A x \in DOMAIN r : r[x] \in 1..Len(Tail(q)) + 1
  BY <1>2, <1>4, <1>5
<1> QED
  BY <1>1, <1>2, <1>4, <1>5, <1>6, <1>7, <1>8 DEF HasRoom

LEMMA EnsureNodeKeeps ==
    ASSUME NEW g, GoodGraph(g), NEW id
    PROVE  GoodGraph(EnsureNode(g, id)) /\ id \in DOMAIN EnsureNode(g, id).nodeMap
<1>1. CASE id \in DOMAIN g.nodeMap
  BY <1>1 DEF EnsureNode
<1>2. CASE id \notin DOMAIN g.nodeMap /\ Len(g.nodes) >= MaxNodes
  <2>1. HasRoom(EvictOldest(g)) /\ id \notin DOMAIN EvictOldest(g).nodeMap
    BY <1>2, EvictMakesRoom
  <2>2. EnsureNode(g, id) = Insert(EvictOldest(g), id)
    BY <1>2 DEF EnsureNode
  <2> QED
    BY <2>1, <2>2, InsertKeeps
<1>3. CASE id \notin DOMAIN g.nodeMap /\ ~(Len(g.nodes) >= MaxNodes)
  <2>1. HasRoom(g)
    <3>1. Len(g.nodes) \in Nat
      BY SeqFacts DEF GoodGraph
    <3>2. Len(g.nodes) < MaxNodes
      BY <1>3, <3>1, MaxNodesAssumption
    <3>3. \A x \in DOMAIN g.nodeMap : g.nodeMap[x] \in 1..Len(g.nodes) + 1
      BY <3>1 DEF GoodGraph
    <3> QED
      BY <3>2, <3>3 DEF HasRoom, GoodGraph
  <2>2. EnsureNode(g, id) = Insert(g, id)
    BY <1>3 DEF EnsureNode
  <2> QED
    BY <1>3, <2>1, <2>2, InsertKeeps
<1> QED
  BY <1>1, <1>2, <1>3

LEMMA LinkKeeps ==
    ASSUME NEW g, GoodGraph(g)
    PROVE  /\ \A edge : GoodGraph(AddEdge(g, edge))
           /\ \A id, target, type : GoodGraph(Link(g, id, target, type))
<1>1. ASSUME NEW h, GoodGraph(h), NEW edge PROVE GoodGraph(AddEdge(h, edge))
  <2>1. IsSeq(h.edges)
    BY <1>1 DEF GoodGraph
  <2>2. IsSeq(Append(h.edges, edge))
    BY <2>1, SeqFacts
  <2> QED
    BY <1>1, <2>2, EdgesAreFree DEF AddEdge
<1>2. ASSUME NEW id, NEW target, NEW type PROVE GoodGraph(Link(g, id, target, type))
  BY <1>1, EnsureNodeKeeps DEF Link
<1> QED
  BY <1>1, <1>2

LEMMA WithEventKeeps ==
    ASSUME NEW g, GoodGraph(g), NEW e
    PROVE  GoodGraph(WithEvent(g, e))
<1> DEFINE file == NodeId("file", e.frn)
           process == NodeId("process", e.pid)
           known == e.pid # NoPid
           contained == Link(EnsureNode(g, file), NodeId("dir", e.parent), file, "Contains")
           created == IF Has(e, "FILE_CREATE") /\ known
                      THEN Link(contained, process, file, "CreatedBy") ELSE contained
           deleted == IF Has(e, "FILE_DELETE") /\ known
                      THEN Link(created, process, file, "DeletedBy") ELSE created
           renamed == IF Renames(e)
                      THEN Link(deleted, NodeId("prev", <<e.frn, e.usn - 1>>), file, "Renamed")
                      ELSE deleted
<1>1. WithEvent(g, e) = IF Modifies(e) /\ known THEN AddEdge(renamed, Edge(process, file, "ModifiedBy"))
                        ELSE renamed
  BY DEF WithEvent
<1>2. GoodGraph(contained)
  BY EnsureNodeKeeps, LinkKeeps
<1> HIDE DEF contained
<1>3. GoodGraph(created)
  BY <1>2, LinkKeeps
<1> HIDE DEF created
<1>4. GoodGraph(deleted)
  BY <1>3, LinkKeeps
<1> HIDE DEF deleted
<1>5. GoodGraph(renamed)
  BY <1>4, LinkKeeps
<1> HIDE DEF renamed
<1> QED
  BY <1>1, <1>5, LinkKeeps

LEMMA WithFindingKeeps ==
    ASSUME NEW g, GoodGraph(g), NEW number, NEW affected
    PROVE  GoodGraph(WithFinding(g, number, affected))
<1> DEFINE h == EnsureNode(g, NodeId("finding", number))
           i == EnsureNode(h, NodeId("artifact", affected))
<1>1. GoodGraph(h)
  BY EnsureNodeKeeps
<1> HIDE DEF h
<1>2. GoodGraph(i)
  BY <1>1, EnsureNodeKeeps
<1> HIDE DEF i
<1>3. \A edge : GoodGraph(AddEdge(i, edge))
  BY <1>2, LinkKeeps
<1> QED
  BY <1>3 DEF WithFinding, h, i

IsAdding(f, g, found, known, n) ==
    f = [k \in 0..n |-> IF k = 0 THEN g ELSE WithFinding(f[k - 1], known + k, found[k].affected)]

LEMMA AddingExists ==
    ASSUME NEW g, NEW found, NEW known, NEW n \in Nat
    PROVE  \E f : IsAdding(f, g, found, known, n)
<1> DEFINE S == {m \in Nat : ~ \E f : IsAdding(f, g, found, known, m)}
           F(f, k) == WithFinding(f[k - 1], known + k, found[k].affected)
<1>1. ASSUME S # {} PROVE FALSE
  <2>1. PICK m \in S : \A k \in S : m <= k
    BY <1>1, LeastIs
  <2>2. m # 0
    <3> DEFINE f == [k \in 0..0 |-> g]
    <3>1. f = [k \in 0..0 |-> IF k = 0 THEN g ELSE F(f, k)]
      OBVIOUS
    <3>2. IsAdding(f, g, found, known, 0)
      BY <3>1 DEF IsAdding
    <3> QED
      BY <3>2
  <2>3. m - 1 \in Nat /\ m - 1 \notin S
    BY <2>1, <2>2
  <2>4. PICK f : IsAdding(f, g, found, known, m - 1)
    BY <2>3
  <2> DEFINE h == [k \in 0..m |-> IF k = m THEN F(f, m) ELSE f[k]]
  <2>5. \A k \in 0..m - 1 : f[k] = IF k = 0 THEN g ELSE F(f, k)
    BY <2>4 DEF IsAdding
  <2>6. \A k \in 0..m : h[k] = IF k = 0 THEN g ELSE F(h, k)
    <3> SUFFICES ASSUME NEW k \in 0..m PROVE h[k] = IF k = 0 THEN g ELSE F(h, k)
      OBVIOUS
    <3>1. CASE k = m
      BY <2>1, <2>2, <2>3, <3>1
    <3>2. CASE k # m
      <4>1. k \in 0..m - 1 /\ h[k] = f[k] /\ (k # 0 => k - 1 \in 0..m - 1 /\ h[k - 1] = f[k - 1])
        BY <2>1, <2>3, <3>2
      <4> QED
        BY <2>5, <4>1
    <3> QED
      BY <3>1, <3>2
  <2>7. IsAdding(h, g, found, known, m)
    BY <2>6 DEF IsAdding
  <2> QED
    BY <2>1, <2>7
<1> QED
  BY <1>1

LEMMA WithFindingsKeeps ==
    ASSUME NEW g, GoodGraph(g), NEW found, Len(found) \in Nat, NEW known
    PROVE  GoodGraph(WithFindings(g, found, known))
<1> DEFINE after == CHOOSE f : IsAdding(f, g, found, known, Len(found))
           S == {k \in Nat : k <= Len(found) /\ ~GoodGraph(after[k])}
<1>1. IsAdding(after, g, found, known, Len(found))
  <2>1. \E f : IsAdding(f, g, found, known, Len(found))
    BY AddingExists
  <2> QED
    BY <2>1
<1>2. WithFindings(g, found, known) = after[Len(found)]
  BY DEF WithFindings, IsAdding
<1> HIDE DEF after
<1>3. \A k \in 0..Len(found) :
         after[k] = IF k = 0 THEN g ELSE WithFinding(after[k - 1], known + k, found[k].affected)
  BY <1>1 DEF IsAdding
<1>4. ASSUME S # {} PROVE FALSE
  <2>1. PICK m \in S : \A k \in S : m <= k
    BY <1>4, LeastIs
  <2>2. m # 0
    BY <1>3, <2>1
  <2>3. m - 1 \in Nat /\ m - 1 <= Len(found) /\ GoodGraph(after[m - 1])
    BY <2>1, <2>2
  <2>4. after[m] = WithFinding(after[m - 1], known + m, found[m].affected)
    BY <1>3, <2>1, <2>2
  <2> QED
    BY <2>1, <2>3, <2>4, WithFindingKeeps
<1> QED
  BY <1>2, <1>4

LinksOf(chain) ==
    [i \in DOMAIN chain.events |->
        Edge(NodeId("chain", chain.rule), NodeId("file", chain.events[i].frn), "Correlated")]
IsJoining(f, first, found, n) ==
    f = [k \in 0..n |-> IF k = 0 THEN first ELSE f[k - 1] \o LinksOf(found[k])]

LEMMA JoiningExists ==
    ASSUME NEW first, NEW found, NEW n \in Nat
    PROVE  \E f : IsJoining(f, first, found, n)
<1> DEFINE S == {m \in Nat : ~ \E f : IsJoining(f, first, found, m)}
           F(f, k) == f[k - 1] \o LinksOf(found[k])
<1>1. ASSUME S # {} PROVE FALSE
  <2>1. PICK m \in S : \A k \in S : m <= k
    BY <1>1, LeastIs
  <2>2. m # 0
    <3> DEFINE f == [k \in 0..0 |-> first]
    <3>1. f = [k \in 0..0 |-> IF k = 0 THEN first ELSE F(f, k)]
      OBVIOUS
    <3>2. IsJoining(f, first, found, 0)
      BY <3>1 DEF IsJoining
    <3> QED
      BY <3>2
  <2>3. m - 1 \in Nat /\ m - 1 \notin S
    BY <2>1, <2>2
  <2>4. PICK f : IsJoining(f, first, found, m - 1)
    BY <2>3
  <2> DEFINE h == [k \in 0..m |-> IF k = m THEN F(f, m) ELSE f[k]]
  <2>5. \A k \in 0..m - 1 : f[k] = IF k = 0 THEN first ELSE F(f, k)
    BY <2>4 DEF IsJoining
  <2>6. \A k \in 0..m : h[k] = IF k = 0 THEN first ELSE F(h, k)
    <3> SUFFICES ASSUME NEW k \in 0..m PROVE h[k] = IF k = 0 THEN first ELSE F(h, k)
      OBVIOUS
    <3>1. CASE k = m
      BY <2>1, <2>2, <2>3, <3>1
    <3>2. CASE k # m
      <4>1. k \in 0..m - 1 /\ h[k] = f[k] /\ (k # 0 => k - 1 \in 0..m - 1 /\ h[k - 1] = f[k - 1])
        BY <2>1, <2>3, <3>2
      <4> QED
        BY <2>5, <4>1
    <3> QED
      BY <3>1, <3>2
  <2>7. IsJoining(h, first, found, m)
    BY <2>6 DEF IsJoining
  <2> QED
    BY <2>1, <2>7
<1> QED
  BY <1>1

LEMMA WithChainsKeeps ==
    ASSUME NEW g, GoodGraph(g), NEW found, IsSeq(found), \A c \in ToSet(found) : IsSeq(c.events)
    PROVE  GoodGraph(WithChains(g, found))
<1> DEFINE after == CHOOSE f : IsJoining(f, g.edges, found, Len(found))
           S == {k \in Nat : k <= Len(found) /\ ~IsSeq(after[k])}
<1>0. Len(found) \in Nat /\ DOMAIN found = 1..Len(found)
  BY SeqFacts
<1>1. IsJoining(after, g.edges, found, Len(found))
  <2>1. \E f : IsJoining(f, g.edges, found, Len(found))
    BY <1>0, JoiningExists
  <2> QED
    BY <2>1
<1>2. WithChains(g, found) = [g EXCEPT !.edges = after[Len(found)]]
  BY DEF WithChains, IsJoining, LinksOf
<1> HIDE DEF after
<1>3. \A k \in 0..Len(found) :
         after[k] = IF k = 0 THEN g.edges ELSE after[k - 1] \o LinksOf(found[k])
  BY <1>1 DEF IsJoining
<1>4. ASSUME S # {} PROVE FALSE
  <2>1. PICK m \in S : \A k \in S : m <= k
    BY <1>4, LeastIs
  <2>2. m # 0
    <3>1. after[0] = g.edges
      BY <1>0, <1>3
    <3> QED
      BY <2>1, <3>1 DEF GoodGraph
  <2>3. m - 1 \in Nat /\ m \in 1..Len(found) /\ IsSeq(after[m - 1])
    BY <1>0, <2>1, <2>2
  <2>4. after[m] = after[m - 1] \o LinksOf(found[m])
    <3>1. m \in 0..Len(found) /\ m # 0
      BY <1>0, <2>1, <2>2
    <3> QED
      BY <1>3, <3>1
  <2>5. IsSeq(LinksOf(found[m]))
    <3>1. found[m] \in ToSet(found)
      BY <1>0, <2>3 DEF ToSet
    <3>2. IsSeq(found[m].events)
      BY <3>1
    <3>3. DOMAIN found[m].events = 1..Len(found[m].events) /\ Len(found[m].events) \in Nat
      BY <3>2, SeqFacts
    <3>4. PICK q : q = LinksOf(found[m])
      OBVIOUS
    <3>5. DOMAIN q = 1..Len(found[m].events) /\ q = [i \in 1..Len(found[m].events) |-> q[i]]
      BY <3>3, <3>4 DEF LinksOf
    <3> QED
      BY <3>3, <3>4, <3>5, SeqFacts
  <2>6. IsSeq(after[m])
    BY <2>3, <2>4, <2>5, SeqFacts
  <2> QED
    BY <2>1, <2>6
<1>5. IsSeq(after[Len(found)])
  BY <1>0, <1>4
<1> QED
  BY <1>2, <1>5, EdgesAreFree

\* What a run of the rules makes of the graph.
LEMMA ReportKeeps ==
    ASSUME NEW g, GoodGraph(g), NEW c, IsSeq(c), \A x \in ToSet(c) : IsSeq(x.events),
           NEW found, Len(found) \in Nat, NEW known
    PROVE  GoodGraph(WithFindings(WithChains(g, c), found, known))
<1>1. GoodGraph(WithChains(g, c))
  BY WithChainsKeeps
<1> QED
  BY <1>1, WithFindingsKeeps
-----------------------------------------------------------------------------
(* The walk from a file.                                                     *)
IsNear(f, file, depth) == f = [k \in 0..depth |-> IF k = 0 THEN {file} ELSE Adjacent(f[k - 1])]

LEMMA NearExists ==
    ASSUME NEW file, NEW depth \in Nat
    PROVE  \E f : IsNear(f, file, depth)
<1> DEFINE S == {m \in Nat : ~ \E f : IsNear(f, file, m)}
<1>1. ASSUME S # {} PROVE FALSE
  <2>1. PICK m \in S : \A k \in S : m <= k
    BY <1>1, LeastIs
  <2>2. m # 0
    <3> DEFINE f == [k \in 0..0 |-> {file}]
    <3>1. f = [k \in 0..0 |-> IF k = 0 THEN {file} ELSE Adjacent(f[k - 1])]
      OBVIOUS
    <3>2. IsNear(f, file, 0)
      BY <3>1 DEF IsNear
    <3> QED
      BY <3>2
  <2>3. m - 1 \in Nat /\ m - 1 \notin S
    BY <2>1, <2>2
  <2>4. PICK f : IsNear(f, file, m - 1)
    BY <2>3
  <2> DEFINE h == [k \in 0..m |-> IF k = m THEN Adjacent(f[m - 1]) ELSE f[k]]
  <2>5. \A k \in 0..m - 1 : f[k] = IF k = 0 THEN {file} ELSE Adjacent(f[k - 1])
    BY <2>4 DEF IsNear
  <2>6. \A k \in 0..m : h[k] = IF k = 0 THEN {file} ELSE Adjacent(h[k - 1])
    <3> SUFFICES ASSUME NEW k \in 0..m PROVE h[k] = IF k = 0 THEN {file} ELSE Adjacent(h[k - 1])
      OBVIOUS
    <3>1. CASE k = m
      BY <2>1, <2>2, <2>3, <3>1
    <3>2. CASE k # m
      <4>1. k \in 0..m - 1 /\ h[k] = f[k] /\ (k # 0 => k - 1 \in 0..m - 1 /\ h[k - 1] = f[k - 1])
        BY <2>1, <2>3, <3>2
      <4> QED
        BY <2>5, <4>1
    <3> QED
      BY <3>1, <3>2
  <2>7. IsNear(h, file, m)
    BY <2>6 DEF IsNear
  <2> QED
    BY <2>1, <2>7
<1> QED
  BY <1>1

\* What is near at a depth is near at every greater one.
LEMMA NearGrows ==
    ASSUME NEW f, NEW depth \in Nat
    PROVE  \E near : /\ Near(f, depth) = near[depth] /\ near[0] = {NodeId("file", f)}
                     /\ \A k \in 1..depth : near[k] = Adjacent(near[k - 1])
                     /\ \A k \in 0..depth : near[k] \subseteq near[depth]
<1> DEFINE file == NodeId("file", f)
           near == CHOOSE g : IsNear(g, file, depth)
           S == {k \in Nat : k <= depth /\ ~(near[depth - k] \subseteq near[depth])}
<1>1. IsNear(near, file, depth)
  <2>1. \E g : IsNear(g, file, depth)
    BY NearExists
  <2> QED
    BY <2>1
<1>2. Near(f, depth) = near[depth]
  BY DEF Near, IsNear
<1> HIDE DEF near
<1>3. \A k \in 0..depth : near[k] = IF k = 0 THEN {file} ELSE Adjacent(near[k - 1])
  BY <1>1 DEF IsNear
<1>4. near[0] = {file} /\ \A k \in 1..depth : near[k] = Adjacent(near[k - 1])
  <2>1. \A k \in 1..depth : k \in 0..depth /\ k # 0
    OBVIOUS
  <2> QED
    BY <1>3, <2>1
<1>5. ASSUME S # {} PROVE FALSE
  <2>1. PICK m \in S : \A k \in S : m <= k
    BY <1>5, LeastIs
  <2>2. m # 0 /\ m \in Nat /\ m <= depth
    BY <2>1
  <2>3. m - 1 \in Nat /\ near[depth - (m - 1)] \subseteq near[depth]
    BY <2>1, <2>2
  <2>4. depth - m + 1 \in 1..depth /\ depth - (m - 1) = depth - m + 1 /\ (depth - m + 1) - 1 = depth - m
    BY <2>2
  <2>5. near[depth - m + 1] = Adjacent(near[depth - m])
    BY <1>4, <2>4
  <2>6. near[depth - m] \subseteq near[depth - m + 1]
    BY <2>5 DEF Adjacent
  <2> QED
    BY <2>1, <2>3, <2>4, <2>6
<1>6. ASSUME NEW k \in 0..depth PROVE near[k] \subseteq near[depth]
  <2>1. depth - k \in Nat /\ depth - k <= depth /\ depth - (depth - k) = k
    OBVIOUS
  <2> QED
    BY <1>5, <2>1
<1> QED
  BY <1>2, <1>4, <1>6

\* A walk whose stack holds indices of nodes at the depth at which they are near, and
\* which has visited only nodes near at the greatest depth.
Entries == (1..Len(nodes)) \X Nat
IsNearWalk(w, near, depth) ==
    /\ w.stack \in Seq(Entries) /\ w.visited \subseteq 1..Len(nodes)
    /\ w = [stack |-> w.stack, visited |-> w.visited, seen |-> w.seen]
    /\ \A e \in ToSet(w.stack) : e[2] <= depth => nodes[e[1]] \in near[e[2]]
    /\ \A k \in w.visited : nodes[k] \in near[depth]

LEMMA WalkPops ==
    ASSUME NEW q \in Seq(Entries), q # <<>>
    PROVE  /\ Front(q) \in Seq(Entries) /\ Last(q) \in ToSet(q) /\ ToSet(Front(q)) \subseteq ToSet(q)
           /\ Last(q) \in Entries
<1>1. /\ Len(q) \in Nat \ {0} /\ DOMAIN q = 1..Len(q) /\ \A i \in 1..Len(q) : q[i] \in Entries
  OBVIOUS
<1>2. Last(q) = q[Len(q)] /\ Len(q) \in DOMAIN q
  BY <1>1 DEF Last
<1>3. /\ Front(q) \in Seq(Entries) /\ DOMAIN Front(q) = 1..Len(q) - 1
      /\ \A i \in 1..Len(q) - 1 : Front(q)[i] = q[i]
  BY <1>1 DEF Front
<1>4. \A i \in 1..Len(q) - 1 : i \in DOMAIN q
  BY <1>1
<1> QED
  BY <1>1, <1>2, <1>3, <1>4 DEF ToSet

\* What a walk takes from a node, and where it goes from there.
FreshEdges(w, id) == {i \in DOMAIN edges \ w.seen : id \in {edges[i].source, edges[i].target}}
OtherEnd(id, i) == IF edges[i].source = id THEN edges[i].target ELSE edges[i].source
NextEdges(w, id) == InOrder({i \in FreshEdges(w, id) : OtherEnd(id, i) \in DOMAIN nodeMap})
Pushed(w, top) ==
    [k \in DOMAIN NextEdges(w, nodes[top[1]]) |->
        <<nodeMap[OtherEnd(nodes[top[1]], NextEdges(w, nodes[top[1]])[k])], top[2] + 1>>]

LEMMA PushedAre ==
    ASSUME IsSeq(edges), NEW w, NEW top \in Entries, DOMAIN nodeMap = ToSet(nodes),
           \A id \in DOMAIN nodeMap : nodeMap[id] \in 1..Len(nodes),
           NEW near, NEW depth \in Nat, \A i \in DOMAIN nodes : nodeMap[nodes[i]] = i,
           nodes[top[1]] \in near[top[2]], top[2] <= depth,
           \A k \in 1..depth : near[k] = Adjacent(near[k - 1])
    PROVE  /\ Pushed(w, top) \in Seq(Entries)
           /\ \A e \in ToSet(Pushed(w, top)) : e[2] <= depth => nodes[e[1]] \in near[e[2]]
<1> DEFINE id == nodes[top[1]]
           T == {i \in FreshEdges(w, id) : OtherEnd(id, i) \in DOMAIN nodeMap}
           at == InOrder(T)
<1>1. /\ DOMAIN at = 1..Cardinality(T) /\ Cardinality(T) \in Nat
      /\ \A k \in DOMAIN at : at[k] \in T
  <2>1. T \in SUBSET (1..Len(edges)) /\ Len(edges) \in Nat
    BY SeqFacts DEF FreshEdges
  <2> HIDE DEF T
  <2> QED
    BY <2>1, InOrderFacts
<1>2. NextEdges(w, id) = at
  BY DEF NextEdges
<1>3. Pushed(w, top) = [k \in DOMAIN at |-> <<nodeMap[OtherEnd(id, at[k])], top[2] + 1>>]
  BY <1>2 DEF Pushed
<1> HIDE DEF at
<1>4. ASSUME NEW k \in DOMAIN at
      PROVE  /\ Pushed(w, top)[k] \in Entries
             /\ Pushed(w, top)[k][2] <= depth =>
                   nodes[Pushed(w, top)[k][1]] \in near[Pushed(w, top)[k][2]]
  <2>1. PICK i, other : /\ i = at[k] /\ other = OtherEnd(id, i) /\ i \in DOMAIN edges /\ other \in DOMAIN nodeMap
                        /\ id \in {edges[i].source, edges[i].target}
    BY <1>1, <1>4 DEF FreshEdges
  <2>2. Pushed(w, top)[k] = <<nodeMap[other], top[2] + 1>>
    BY <1>3, <1>4, <2>1
  <2>3. nodeMap[other] \in 1..Len(nodes) /\ top[2] + 1 \in Nat /\ top[2] \in Nat
    BY <2>1 DEF Entries
  <2>4. nodes[nodeMap[other]] = other
    <3>1. PICK j \in DOMAIN nodes : nodes[j] = other
      BY <2>1 DEF ToSet
    <3> QED
      BY <3>1
  <2>5. ASSUME top[2] + 1 <= depth PROVE other \in near[top[2] + 1]
    <3>1. top[2] + 1 \in 1..depth /\ (top[2] + 1) - 1 = top[2]
      BY <2>3, <2>5
    <3>2. near[top[2] + 1] = Adjacent(near[top[2]])
      BY <3>1
    <3>3. \/ edges[i].source = other /\ edges[i].target = id
          \/ edges[i].target = other /\ edges[i].source = id
      BY <2>1 DEF OtherEnd
    <3> QED
      BY <2>1, <3>2, <3>3 DEF Adjacent
  <2> QED
    BY <2>2, <2>3, <2>4, <2>5 DEF Entries
<1>5. DOMAIN Pushed(w, top) = DOMAIN at
  BY <1>3
<1>6. Pushed(w, top) \in [1..Cardinality(T) -> Entries]
  BY <1>1, <1>3, <1>4
<1> HIDE DEF T
<1>7. Pushed(w, top) \in Seq(Entries)
  BY <1>1, <1>6, IsASeq
<1> QED
  BY <1>4, <1>5, <1>7 DEF ToSet

\* Every step goes on from a node that is near, and forgets none.
LEMMA WalkKeeps ==
    ASSUME IsSeq(edges), NEW w, DOMAIN nodeMap = ToSet(nodes),
           \A id \in DOMAIN nodeMap : nodeMap[id] \in 1..Len(nodes),
           NEW near, NEW depth \in Nat, \A i \in DOMAIN nodes : nodeMap[nodes[i]] = i,
           \A k \in 1..depth : near[k] = Adjacent(near[k - 1]),
           \A k \in 0..depth : near[k] \subseteq near[depth],
           IsNearWalk(w, near, depth)
    PROVE  IsNearWalk(WalkStep(w, depth), near, depth) /\ w.visited \subseteq WalkStep(w, depth).visited
<1>1. CASE w.stack = <<>>
  BY <1>1 DEF WalkStep
<1>2. CASE w.stack # <<>>
  <2>0. PICK q \in Seq(Entries) : q = w.stack /\ q # <<>>
    BY <1>2 DEF IsNearWalk
  <2>1. PICK top, rest : /\ top = Last(q) /\ rest = Front(q) /\ top \in Entries /\ rest \in Seq(Entries)
                         /\ top \in ToSet(q) /\ ToSet(rest) \subseteq ToSet(q)
    BY <2>0, WalkPops
  <2>2. top[2] \in Nat /\ top[1] \in 1..Len(nodes)
    BY <2>1 DEF Entries
  <2>3. \A e \in ToSet(q) : e[2] <= depth => nodes[e[1]] \in near[e[2]]
    BY <2>0 DEF IsNearWalk
  <2>4. w = [stack |-> q, visited |-> w.visited, seen |-> w.seen]
    BY <2>0 DEF IsNearWalk
  <2>5. CASE TooDeep(top[2], depth) \/ top[1] \in w.visited
    <3>1. WalkStep(w, depth) = [w EXCEPT !.stack = rest]
      BY <2>0, <2>1, <2>5 DEF WalkStep
    <3>2. WalkStep(w, depth) = [stack |-> rest, visited |-> w.visited, seen |-> w.seen]
      BY <2>4, <3>1
    <3> QED
      BY <2>1, <2>3, <3>2 DEF IsNearWalk
  <2>6. CASE ~(TooDeep(top[2], depth) \/ top[1] \in w.visited)
    <3>1. WalkStep(w, depth) = [stack |-> rest \o Pushed(w, top), visited |-> w.visited \cup {top[1]},
                                seen |-> w.seen \cup FreshEdges(w, nodes[top[1]])]
      BY <2>0, <2>1, <2>6 DEF WalkStep, Pushed, FreshEdges, OtherEnd, NextEdges
    <3>2. top[2] <= depth /\ nodes[top[1]] \in near[top[2]] /\ nodes[top[1]] \in near[depth]
      BY <2>1, <2>2, <2>3, <2>6 DEF TooDeep
    <3>3. /\ Pushed(w, top) \in Seq(Entries)
          /\ \A e \in ToSet(Pushed(w, top)) : e[2] <= depth => nodes[e[1]] \in near[e[2]]
      BY <2>1, <3>2, PushedAre
    <3>4. PICK p \in Seq(Entries) : p = rest \o Pushed(w, top) /\ ToSet(p) = ToSet(rest) \cup ToSet(Pushed(w, top))
      <4>1. ASSUME NEW a \in Seq(Entries), NEW b \in Seq(Entries)
            PROVE  a \o b \in Seq(Entries) /\ ToSet(a \o b) = ToSet(a) \cup ToSet(b)
        BY ConcatFacts
      <4> QED
        BY <2>1, <3>3, <4>1
    <3>5. \A e \in ToSet(p) : e[2] <= depth => nodes[e[1]] \in near[e[2]]
      BY <2>1, <2>3, <3>3, <3>4
    <3>6. PICK after : after = WalkStep(w, depth)
      OBVIOUS
    <3>7. /\ after.stack = p /\ after.visited = w.visited \cup {top[1]}
          /\ after = [stack |-> after.stack, visited |-> after.visited, seen |-> after.seen]
      BY <3>1, <3>4, <3>6
    <3>8. /\ w.visited \cup {top[1]} \subseteq 1..Len(nodes)
          /\ \A k \in w.visited \cup {top[1]} : nodes[k] \in near[depth]
      BY <2>2, <3>2 DEF IsNearWalk
    <3>9. IsNearWalk(after, near, depth)
      BY <3>5, <3>7, <3>8 DEF IsNearWalk
    <3> QED
      BY <3>6, <3>7, <3>9
  <2> QED
    BY <2>5, <2>6
<1> QED
  BY <1>1, <1>2

IsWalking(g, start, depth, pops) ==
    g = [n \in 0..pops |-> IF n = 0 THEN start ELSE WalkStep(g[n - 1], depth)]

LEMMA WalkingExists ==
    ASSUME NEW start, NEW depth, NEW pops \in Nat
    PROVE  \E g : IsWalking(g, start, depth, pops)
<1> DEFINE S == {m \in Nat : ~ \E g : IsWalking(g, start, depth, m)}
<1>1. ASSUME S # {} PROVE FALSE
  <2>1. PICK m \in S : \A k \in S : m <= k
    BY <1>1, LeastIs
  <2>2. m # 0
    <3> DEFINE g == [k \in 0..0 |-> start]
    <3>1. g = [k \in 0..0 |-> IF k = 0 THEN start ELSE WalkStep(g[k - 1], depth)]
      OBVIOUS
    <3>2. IsWalking(g, start, depth, 0)
      BY <3>1 DEF IsWalking
    <3> QED
      BY <3>2
  <2>3. m - 1 \in Nat /\ m - 1 \notin S
    BY <2>1, <2>2
  <2>4. PICK g : IsWalking(g, start, depth, m - 1)
    BY <2>3
  <2> DEFINE h == [k \in 0..m |-> IF k = m THEN WalkStep(g[m - 1], depth) ELSE g[k]]
  <2>5. \A k \in 0..m - 1 : g[k] = IF k = 0 THEN start ELSE WalkStep(g[k - 1], depth)
    BY <2>4 DEF IsWalking
  <2>6. \A k \in 0..m : h[k] = IF k = 0 THEN start ELSE WalkStep(h[k - 1], depth)
    <3> SUFFICES ASSUME NEW k \in 0..m PROVE h[k] = IF k = 0 THEN start ELSE WalkStep(h[k - 1], depth)
      OBVIOUS
    <3>1. CASE k = m
      BY <2>1, <2>2, <2>3, <3>1
    <3>2. CASE k # m
      <4>1. k \in 0..m - 1 /\ h[k] = g[k] /\ (k # 0 => k - 1 \in 0..m - 1 /\ h[k - 1] = g[k - 1])
        BY <2>1, <2>3, <3>2
      <4> QED
        BY <2>5, <4>1
    <3> QED
      BY <3>1, <3>2
  <2>7. IsWalking(h, start, depth, m)
    BY <2>6 DEF IsWalking
  <2> QED
    BY <2>1, <2>7
<1> QED
  BY <1>1

\* For every depth, not only the one the run asks for.
SubgraphsAreNear ==
    (\A i \in DOMAIN nodes : nodeMap[nodes[i]] = i) =>
        \A f \in Files, depth \in Nat : NodeId("file", f) \in DOMAIN nodeMap =>
            /\ NodeId("file", f) \in SubgraphForFile(f, depth)
            /\ SubgraphForFile(f, depth) \subseteq Near(f, depth)

LEMMA SubgraphsShow == GoodGraph(graph) => SubgraphsAreNear
<1> SUFFICES ASSUME GoodGraph(graph), \A i \in DOMAIN nodes : nodeMap[nodes[i]] = i,
                    NEW f \in Files, NEW depth \in Nat, NodeId("file", f) \in DOMAIN nodeMap
             PROVE  /\ NodeId("file", f) \in SubgraphForFile(f, depth)
                    /\ SubgraphForFile(f, depth) \subseteq Near(f, depth)
  BY DEF SubgraphsAreNear
<1>1. /\ IsSeq(nodes) /\ IsSeq(edges) /\ DOMAIN nodeMap = ToSet(nodes)
      /\ \A id \in DOMAIN nodeMap : nodeMap[id] \in 1..Len(nodes)
  BY DEF GoodGraph, graph
<1>2. PICK near : /\ Near(f, depth) = near[depth] /\ near[0] = {NodeId("file", f)}
                  /\ \A k \in 1..depth : near[k] = Adjacent(near[k - 1])
                  /\ \A k \in 0..depth : near[k] \subseteq near[depth]
  BY NearGrows
<1> DEFINE file == NodeId("file", f)
           start == [stack |-> << <<nodeMap[file], 0>> >>, visited |-> {}, seen |-> {}]
           pops == Len(edges) + 1
           walk == CHOOSE g : IsWalking(g, start, depth, pops)
<1>3. pops \in Nat /\ pops >= 1
  BY <1>1, SeqFacts
<1>4. IsWalking(walk, start, depth, pops)
  <2>1. \E g : IsWalking(g, start, depth, pops)
    BY <1>3, WalkingExists
  <2> QED
    BY <2>1
<1>5. SubgraphForFile(f, depth) = {nodes[i] : i \in walk[pops].visited}
  BY DEF SubgraphForFile, IsWalking
<1> HIDE DEF walk
<1>6. \A k \in 0..pops : walk[k] = IF k = 0 THEN start ELSE WalkStep(walk[k - 1], depth)
  BY <1>4 DEF IsWalking
<1> HIDE DEF pops
<1>7. nodeMap[file] \in 1..Len(nodes) /\ nodes[nodeMap[file]] = file
  <2>1. PICK j \in DOMAIN nodes : nodes[j] = file
    BY <1>1 DEF ToSet
  <2> QED
    BY <1>1, <2>1
<1>8. IsNearWalk(start, near, depth)
  <2>1. PICK e \in Entries : e = <<nodeMap[file], 0>> /\ e[1] = nodeMap[file] /\ e[2] = 0
    <3>1. PICK a \in 1..Len(nodes) : a = nodeMap[file]
      BY <1>7
    <3>2. <<a, 0>> \in Entries /\ <<a, 0>>[1] = a /\ <<a, 0>>[2] = 0
      BY DEF Entries
    <3> QED
      BY <3>1, <3>2
  <2>2. <<e>> \in Seq(Entries) /\ ToSet(<<e>>) = {e}
    BY DEF ToSet
  <2>3. start.stack = <<e>> /\ start.visited = {} /\ start = [stack |-> <<e>>, visited |-> {}, seen |-> start.seen]
    BY <2>1
  <2> HIDE DEF start
  <2> QED
    BY <1>2, <1>7, <2>1, <2>2, <2>3 DEF IsNearWalk
<1>9. WalkStep(start, depth).visited = {nodeMap[file]}
  <2>1. PICK e : e = <<nodeMap[file], 0>> /\ e[1] = nodeMap[file] /\ e[2] = 0
    <3>1. PICK a : a = nodeMap[file]
      OBVIOUS
    <3>2. <<a, 0>>[1] = a /\ <<a, 0>>[2] = 0
      OBVIOUS
    <3> QED
      BY <3>1, <3>2
  <2>2. start.stack = <<e>> /\ start.visited = {} /\ start.stack # <<>> /\ Last(start.stack) = e
    BY <2>1 DEF Last
  <2>3. ~(TooDeep(e[2], depth) \/ e[1] \in start.visited)
    BY <2>1, <2>2 DEF TooDeep
  <2> HIDE DEF start
  <2> QED
    BY <2>1, <2>2, <2>3 DEF WalkStep
<1> DEFINE Good(k) == IsNearWalk(walk[k], near, depth) /\ (k # 0 => nodeMap[file] \in walk[k].visited)
           S == {k \in Nat : k <= pops /\ ~Good(k)}
<1>10. Good(0)
  <2>1. walk[0] = start
    BY <1>3, <1>6
  <2> QED
    BY <1>8, <2>1
<1> HIDE DEF start
<1>11. ASSUME S # {} PROVE FALSE
  <2>1. PICK m \in S : \A k \in S : m <= k
    BY <1>11, LeastIs
  <2>2. m # 0
    BY <1>10, <2>1
  <2>3. m - 1 \in Nat /\ Good(m - 1) /\ m \in 0..pops /\ m \in Nat
    <3>1. m \in Nat /\ m <= pops /\ m - 1 \in Nat /\ m - 1 <= pops /\ ~(m <= m - 1)
      BY <1>3, <2>1, <2>2
    <3> HIDE DEF Good
    <3>2. m - 1 \notin S
      BY <2>1, <3>1
    <3> QED
      BY <1>3, <3>1, <3>2
  <2>4. walk[m] = WalkStep(walk[m - 1], depth)
    BY <1>6, <2>2, <2>3
  <2>5. IsNearWalk(walk[m], near, depth) /\ walk[m - 1].visited \subseteq walk[m].visited
    <3>1. PICK w : w = walk[m - 1] /\ IsNearWalk(w, near, depth)
      BY <2>3
    <3>2. IsNearWalk(WalkStep(w, depth), near, depth) /\ w.visited \subseteq WalkStep(w, depth).visited
      BY <1>1, <1>2, <3>1, WalkKeeps
    <3> QED
      BY <2>4, <3>1, <3>2
  <2>6. nodeMap[file] \in walk[m].visited
    <3>1. CASE m = 1
      <4>1. walk[0] = start
        BY <1>3, <1>6
      <4> QED
        BY <1>9, <2>4, <3>1, <4>1
    <3>2. CASE m # 1
      BY <2>2, <2>3, <2>5, <3>2
    <3> QED
      BY <3>1, <3>2
  <2> QED
    BY <2>1, <2>5, <2>6
<1>12. Good(pops)
  BY <1>3, <1>11
<1>13. \A i \in walk[pops].visited : nodes[i] \in near[depth]
  BY <1>12 DEF IsNearWalk
<1>14. nodeMap[file] \in walk[pops].visited
  BY <1>3, <1>12
<1> QED
  BY <1>2, <1>5, <1>7, <1>13, <1>14
-----------------------------------------------------------------------------
(* The whole history.                                                        *)
ChainsHold ==
    /\ IsSeq(chains)
    /\ \A c \in ToSet(chains) : c.rule = "rapid_create_delete" =>
          ShortLived(ingested, c.events[1].frn) # {}

HistoryInv ==
    /\ IndexInv /\ KeptForGood
    /\ IsRest(batch, ingested) /\ ChainsHold
    /\ GoodGraph(graph)

LEMMA ShortLivedGrows ==
    ASSUME NEW q \in Seq(FileEvent), NEW e \in FileEvent, NEW f
    PROVE  ShortLived(q, f) \subseteq ShortLived(Append(q, e), f)
<1> SUFFICES ASSUME NEW j \in ShortLived(q, f) PROVE j \in ShortLived(Append(q, e), f)
  OBVIOUS
<1>1. j \in 1..Len(q) /\ q[j].frn = f /\ Has(q[j], "FILE_DELETE") /\ CreatedUpTo(q, j) # {}
      /\ AgeAt(q, j) \in 0..RapidWindow
  BY DEF ShortLived
<1>2. j \in DOMAIN Append(q, e) /\ Append(q, e)[j] = q[j]
  BY <1>1, AppendFacts
<1>3. CreatedUpTo(Append(q, e), j) = CreatedUpTo(q, j) /\ AgeAt(Append(q, e), j) = AgeAt(q, j)
  BY <1>1, DeletionStays
<1> QED
  BY <1>1, <1>2, <1>3 DEF ShortLived

LEMMA RestGrows ==
    ASSUME NEW q \in Seq(FileEvent), NEW b, IsRest(b, q), NEW e \in FileEvent
    PROVE  IsRest(Append(b, e), Append(q, e))
<1>1. PICK n \in Nat : n <= Len(q) /\ b = SubSeq(q, n + 1, Len(q))
  BY DEF IsRest
<1>2. PICK p \in Seq(FileEvent) : p = Append(q, e) /\ Len(p) = Len(q) + 1 /\ p[Len(p)] = e
  <2>1. Append(q, e) \in Seq(FileEvent) /\ Len(Append(q, e)) = Len(q) + 1 /\ Append(q, e)[Len(q) + 1] = e
    OBVIOUS
  <2> QED
    BY <2>1
<1>3. PICK m \in Nat : m = Len(p) /\ m - 1 = Len(q) /\ n < m
  BY <1>1, <1>2
<1>4. SubSeq(p, n + 1, m - 1) = b
  BY <1>1, <1>2, <1>3, PieceOfLonger
<1>5. Append(SubSeq(p, n + 1, m - 1), p[m]) = SubSeq(p, n + 1, m)
  BY <1>3, PieceGrows
<1>6. n <= Len(p) /\ Append(b, e) = SubSeq(p, n + 1, Len(p))
  BY <1>1, <1>2, <1>3, <1>4, <1>5
<1>7. IsRest(Append(b, e), p)
  BY <1>6 DEF IsRest
<1> QED
  BY <1>2, <1>7

LEMMA HistoryStarts == InitHistory => HistoryInv
<1> SUFFICES ASSUME InitHistory PROVE HistoryInv
  OBVIOUS
<1>1. /\ <<>> \in Seq(FileEvent) /\ <<>> \in Seq(DeletionRecord) /\ Len(<<>>) = 0
      /\ ToSet(<<>>) = {} /\ IsInjective(<<>>) /\ IsSeq(<<>>)
  <2>1. <<>> \in Seq(FileEvent) /\ <<>> \in Seq(DeletionRecord) /\ Len(<<>>) = 0
    OBVIOUS
  <2> QED
    BY <2>1, NoElements, SeqFacts
<1>2. \A E : At(<<>>, E) = <<>>
  <2>1. \A E : PositionsOf(<<>>, E) = {}
    BY PlacesShort
  <2>2. InOrder({}) = <<>>
    BY FS_EmptySet DEF InOrder
  <2> QED
    BY <2>1, <2>2 DEF At
<1>3. IndexInv
  BY <1>1, <1>2 DEF InitHistory, InitTimeline, IndexInv
<1>4. KeptForGood
  BY <1>1, <1>2 DEF InitHistory, InitTimeline, KeptForGood, AreCreations
<1>5. IsRest(batch, ingested)
  <2>1. batch = <<>> /\ ingested = <<>> /\ SubSeq(<<>>, 0 + 1, Len(<<>>)) = <<>>
    BY DEF InitHistory
  <2> QED
    BY <1>1, <2>1 DEF IsRest
<1>6. ChainsHold
  BY <1>1 DEF InitHistory, InitFindings, ChainsHold
<1>7. GoodGraph(graph)
  <2>1. nodes = <<>> /\ nodeMap = [id \in {} |-> 0] /\ edges = <<>>
    BY DEF InitHistory, InitGraph, EmptyGraph
  <2>2. /\ graph.nodes = nodes /\ graph.nodeMap = nodeMap /\ graph.edges = edges
        /\ graph = [nodes |-> nodes, nodeMap |-> nodeMap, edges |-> edges]
    BY DEF graph
  <2> QED
    BY <1>1, <2>1, <2>2, MaxNodesAssumption DEF GoodGraph
<1> QED
  BY <1>3, <1>4, <1>5, <1>6, <1>7 DEF HistoryInv

LEMMA IngestKeepsHistory ==
    ASSUME HistoryInv, NEW t \in Templates, NEW pause \in Pauses, Ingest(t, pause)
    PROVE  HistoryInv'
<1> DEFINE e == [frn |-> t.frn, parent |-> t.parent, name |-> t.name, reason |-> t.reason,
                 pid |-> t.pid, usn |-> 2 * Len(ingested) + 1, time |-> Now + pause]
<1>1. ingested \in Seq(FileEvent) /\ Len(ingested) \in Nat
  BY DEF HistoryInv, KeptForGood
<1>2. e \in FileEvent
  <2>1. Now \in Int
    <3>1. CASE ingested = <<>>
      BY <3>1 DEF Now
    <3>2. CASE ingested # <<>>
      <4>1. Len(ingested) \in 1..Len(ingested) /\ Last(ingested) = ingested[Len(ingested)]
        BY <1>1, <3>2 DEF Last
      <4>2. Last(ingested) \in FileEvent
        BY <1>1, <4>1
      <4> QED
        BY <3>2, <4>2 DEF Now, FileEvent
    <3> QED
      BY <3>1, <3>2
  <2>2. Now + pause \in Int /\ 2 * Len(ingested) + 1 \in Nat
    BY <1>1, <2>1, HistoryAssumption
  <2>3. t \in [frn : Files, parent : Directories, name : Names, reason : SUBSET Reasons,
               pid : Pids \cup {NoPid}]
    BY HistoryAssumption
  <2> QED
    BY <2>2, <2>3 DEF FileEvent
<1>3. /\ IngestOne(e) /\ Becomes(WithEvent(graph, e))
      /\ batch' = Append(batch, e) /\ ingested' = Append(ingested, e) /\ chains' = chains
  BY DEF Ingest, findingsVars
<1> HIDE DEF e
<1>4. IndexInv'
  BY <1>2, <1>3, IngestKeepsIndex DEF HistoryInv
<1>5. KeptForGood'
  BY <1>2, <1>3, IngestKeepsRecord DEF HistoryInv
<1>6. IsRest(batch', ingested')
  BY <1>1, <1>2, <1>3, RestGrows DEF HistoryInv
<1>7. ChainsHold'
  <2>1. ASSUME NEW f PROVE ShortLived(ingested, f) \subseteq ShortLived(ingested', f)
    BY <1>1, <1>2, <1>3, ShortLivedGrows
  <2>2. ASSUME NEW c \in ToSet(chains), c.rule = "rapid_create_delete"
        PROVE  ShortLived(ingested', c.events[1].frn) # {}
    <3>1. ShortLived(ingested, c.events[1].frn) # {}
      BY <2>2 DEF HistoryInv, ChainsHold
    <3> QED
      BY <2>1, <3>1
  <2> QED
    BY <1>3, <2>2 DEF HistoryInv, ChainsHold
<1>8. GoodGraph(graph')
  <2>1. PICK g : g = WithEvent(graph, e) /\ GoodGraph(g)
    BY WithEventKeeps DEF HistoryInv
  <2>2. graph' = g
    BY <1>3, <2>1 DEF Becomes, graph, GoodGraph
  <2> QED
    BY <2>1, <2>2
<1> QED
  BY <1>4, <1>5, <1>6, <1>7, <1>8 DEF HistoryInv

LEMMA RulesKeepHistory ==
    ASSUME HistoryInv, RunRules
    PROVE  HistoryInv'
<1>1. /\ chains' = SubSeq(chains \o Evaluate(batch),
                         Max({1, Len(chains \o Evaluate(batch)) - MaxChains + 1}),
                         Len(chains \o Evaluate(batch)))
      /\ \E residual \in BOOLEAN :
            Becomes(WithFindings(WithChains(graph, Evaluate(batch)), AnalyzeAll(batch, residual), findings))
      /\ batch' = <<>> /\ ingested' = ingested /\ UNCHANGED timelineVars
  BY DEF RunRules, Correlate
<1>2. PICK q \in Seq(FileEvent), b \in Seq(FileEvent) : q = ingested /\ b = batch /\ IsRest(b, q)
  <2>1. PICK n \in Nat : n <= Len(ingested) /\ batch = SubSeq(ingested, n + 1, Len(ingested))
    BY DEF HistoryInv, IsRest
  <2>2. ingested \in Seq(FileEvent) /\ batch \in Seq(FileEvent)
    BY <2>1, PieceFacts DEF HistoryInv, KeptForGood
  <2> QED
    BY <2>2 DEF HistoryInv
<1>3. IndexInv' /\ KeptForGood'
  BY <1>1 DEF timelineVars, HistoryInv, IndexInv, KeptForGood
<1>4. IsRest(batch', ingested')
  <2>1. SubSeq(q, Len(q) + 1, Len(q)) = <<>> /\ Len(q) \in Nat
    OBVIOUS
  <2>2. batch' = <<>> /\ ingested' = q
    BY <1>1, <1>2
  <2>3. IsRest(<<>>, q)
    <3>1. Len(q) <= Len(q)
      BY <2>1
    <3> QED
      BY <2>1, <3>1 DEF IsRest
  <2> QED
    BY ONLY <2>2, <2>3 DEF IsRest
<1>5. ChainsHold'
  <2> DEFINE Holds(c) == c.rule = "rapid_create_delete" => ShortLived(q, c.events[1].frn) # {}
  <2>1. PICK U : Evaluate(b) \in Seq(U) /\ \A c \in U : Holds(c)
    BY <1>2, EvaluateIs
  <2>2. PICK V : V = U \cup ToSet(chains) /\ chains \in Seq(V) /\ Evaluate(b) \in Seq(V)
    <3>1. chains \in Seq(U \cup ToSet(chains)) /\ Evaluate(b) \in Seq(U \cup ToSet(chains))
      BY <2>1, SeqMonotonic DEF HistoryInv, ChainsHold, IsSeq
    <3> QED
      BY <3>1
  <2>3. \A c \in V : Holds(c)
    BY <1>2, <2>1, <2>2 DEF HistoryInv, ChainsHold
  <2>4. PICK all \in Seq(V) : all = chains \o Evaluate(b)
    BY <2>2, ConcatFacts
  <2>5. PICK j \in Nat : j <= Len(all) /\ chains' = SubSeq(all, j + 1, Len(all))
    <3>1. PICK m \in Int : m = Len(all) - MaxChains + 1
      BY FindingsAssumption
    <3>2. Max({1, m}) \in {1, m} /\ Max({1, m}) >= 1
      <4>1. \E x \in {1, m} : \A y \in {1, m} : x >= y
        BY <3>1
      <4> QED
        BY <4>1 DEF Max
    <3>3. chains' = SubSeq(all, Max({1, m}), Len(all))
      BY <1>1, <1>2, <2>4, <3>1
    <3>4. Max({1, m}) - 1 \in Nat /\ Max({1, m}) - 1 <= Len(all) /\ (Max({1, m}) - 1) + 1 = Max({1, m})
      BY <3>1, <3>2, FindingsAssumption
    <3> QED
      BY <3>3, <3>4
  <2>6. chains' \in Seq(V)
    BY <2>5, PieceFacts
  <2>7. IsSeq(chains') /\ ToSet(chains') \subseteq V
    BY <2>6, SeqFacts, ElementsOf
  <2> QED
    BY <1>1, <1>2, <2>3, <2>7 DEF ChainsHold
<1>6. GoodGraph(graph')
  <2>0. PICK residual \in BOOLEAN :
            Becomes(WithFindings(WithChains(graph, Evaluate(batch)), AnalyzeAll(batch, residual), findings))
    BY <1>1
  <2>1. Len(AnalyzeAll(b, residual)) \in Nat
    BY AnalyzeAllIs
  <2>2. PICK g : g = WithFindings(WithChains(graph, Evaluate(b)), AnalyzeAll(b, residual), findings) /\ GoodGraph(g)
    <3>1. PICK c : c = Evaluate(b) /\ IsSeq(c) /\ \A x \in ToSet(c) : IsSeq(x.events)
      <4>1. PICK U : Evaluate(b) \in Seq(U) /\ \A x \in U : IsSeq(x.events)
        BY <1>2, EvaluateIs
      <4> QED
        BY <4>1, SeqFacts, ElementsOf
    <3> QED
      BY <2>1, <3>1, ReportKeeps DEF HistoryInv
  <2>3. graph' = g
    BY <1>2, <2>0, <2>2 DEF Becomes, graph, GoodGraph
  <2> QED
    BY <2>2, <2>3
<1> QED
  BY <1>3, <1>4, <1>5, <1>6 DEF HistoryInv

LEMMA HistoryRests ==
    ASSUME HistoryInv, UNCHANGED historyVars
    PROVE  HistoryInv'
BY DEF historyVars, timelineVars, graphVars, findingsVars, HistoryInv, IndexInv, KeptForGood,
       ChainsHold, graph

LEMMA HistoryKeeps ==
    ASSUME HistoryInv, NextHistory
    PROVE  HistoryInv'
<1>1. ASSUME Clear PROVE HistoryInv'
  <2>1. /\ UNCHANGED timelineVars /\ batch' = batch /\ ingested' = ingested /\ chains' = chains
        /\ nodes' = <<>> /\ nodeMap' = [id \in {} |-> 0] /\ edges' = <<>>
    BY <1>1 DEF Clear, ClearGraph, Becomes, EmptyGraph, findingsVars
  <2>2. IndexInv' /\ KeptForGood' /\ IsRest(batch', ingested') /\ ChainsHold'
    BY <2>1 DEF timelineVars, HistoryInv, IndexInv, KeptForGood, ChainsHold
  <2>3. GoodGraph(graph')
    <3>1. PICK g : g = graph'
      OBVIOUS
    <3>2. g = [nodes |-> <<>>, nodeMap |-> [id \in {} |-> 0], edges |-> <<>>]
      BY <2>1, <3>1 DEF graph
    <3>3. /\ Len(<<>>) = 0 /\ ToSet(<<>>) = {} /\ IsInjective(<<>>) /\ IsSeq(<<>>)
      BY NoElements, SeqFacts
    <3>4. GoodGraph(g)
      BY <3>2, <3>3, MaxNodesAssumption DEF GoodGraph
    <3> QED
      BY <3>1, <3>4
  <2> QED
    BY <2>2, <2>3 DEF HistoryInv
<1> QED
  BY <1>1, IngestKeepsHistory, RulesKeepHistory DEF NextHistory

LEMMA HistoryShows ==
    ASSUME HistoryInv
    PROVE  /\ QueriesAgree /\ ChainsAreReal /\ DetectorsAgree /\ MapKnowsTheNodes
           /\ SubgraphIsNear /\ SubgraphsAreNear
<1>1. QueriesAgree /\ ChainsAreReal
  BY IndexedQueriesAgree, ReportedChainsAreReal DEF HistoryInv
<1>2. DetectorsAgree
  <2> SUFFICES ASSUME NEW i \in DOMAIN chains, chains[i].rule = "rapid_create_delete"
               PROVE  \E c \in AttackChains(RapidWindow) : c.frn = chains[i].events[1].frn
    BY DEF DetectorsAgree
  <2>1. PICK f : f = chains[i].events[1].frn /\ ShortLived(ingested, f) # {}
    BY DEF HistoryInv, ChainsHold, ToSet
  <2>2. f \in Files
    <3>1. PICK j \in DOMAIN ingested : ingested[j].frn = f /\ ingested[j] \in FileEvent
      BY <2>1 DEF ShortLived, HistoryInv, KeptForGood
    <3> QED
      BY <3>1 DEF FileEvent
  <2>3. f \in {c.frn : c \in AttackChains(RapidWindow)}
    BY <2>1, <2>2, AttackChainsAre DEF HistoryInv
  <2> QED
    BY <2>1, <2>3
<1>3. MapKnowsTheNodes
  <2>1. /\ IsSeq(nodes) /\ DOMAIN nodeMap = ToSet(nodes)
        /\ IsInjective(nodes) /\ Len(nodes) <= MaxNodes
        /\ \A id \in DOMAIN nodeMap : nodeMap[id] \in 1..Len(nodes)
    BY DEF HistoryInv, GoodGraph, graph
  <2>2. DOMAIN nodes = 1..Len(nodes)
    BY <2>1, SeqFacts
  <2> QED
    BY <2>1, <2>2 DEF MapKnowsTheNodes, ToSet
<1>4. SubgraphIsNear /\ SubgraphsAreNear
  <2>1. SubgraphsAreNear
    BY SubgraphsShow DEF HistoryInv
  <2> QED
    BY <2>1 DEF SubgraphsAreNear, SubgraphIsNear
<1> QED
  BY <1>1, <1>2, <1>3, <1>4

LEMMA HistoryInvariant == InitHistory /\ [][NextHistory]_historyVars => []HistoryInv
<1>1. HistoryInv /\ [NextHistory]_historyVars => HistoryInv'
  BY HistoryKeeps, HistoryRests
<1> QED
  BY <1>1, HistoryStarts, PTL

(* However many events have been evicted, and their successors renumbered, the *)
(* three indices of the timeline answer for a path, a directory at a time and  *)
(* a file with exactly the kept events of that key, in order.                  *)
THEOREM QueriesAreExact == InitHistory /\ [][NextHistory]_historyVars => []QueriesAgree
<1>1. HistoryInv => QueriesAgree
  BY HistoryShows
<1> QED
  BY <1>1, HistoryInvariant, PTL

(* attack_chains pairs the two vectors it keeps: the files it reports are those *)
(* of whose deletions in the whole stream some lay within the window after the  *)
(* file's last creation before it, though the events are evicted, and a clock   *)
(* that goes back is not taken for a short life.                                *)
THEOREM ReportedFilesWereShortLived ==
    InitHistory /\ [][NextHistory]_historyVars => []ChainsAreReal
<1>1. HistoryInv => ChainsAreReal
  BY HistoryShows
<1> QED
  BY <1>1, HistoryInvariant, PTL

(* What the correlation engine finds with its map over a batch, whatever pieces *)
(* of the stream the batches are, the timeline finds in what it keeps of the    *)
(* whole stream.                                                                *)
THEOREM EnginesAgree == InitHistory /\ [][NextHistory]_historyVars => []DetectorsAgree
<1>1. HistoryInv => DetectorsAgree
  BY HistoryShows
<1> QED
  BY <1>1, HistoryInvariant, PTL

(* Through every event, chain and finding, for any bound on the nodes and       *)
(* evictions of the oldest: the graph's map knows the nodes of the vector and   *)
(* no others, no identifier is there twice, the bound holds, and no position    *)
(* in the map is past the end of the vector.                                    *)
THEOREM GraphKnowsItsNodes == InitHistory /\ [][NextHistory]_historyVars => []MapKnowsTheNodes
<1>1. HistoryInv => MapKnowsTheNodes
  BY HistoryShows
<1> QED
  BY <1>1, HistoryInvariant, PTL

(* The walk from a file, whatever its stack and the order of the edges: until a *)
(* node has been evicted, it finds the file and only nodes within the depth     *)
(* asked for, for every depth, although it goes depth first and takes each edge *)
(* once.                                                                        *)
THEOREM SubgraphsStayNear ==
    InitHistory /\ [][NextHistory]_historyVars => [](SubgraphIsNear /\ SubgraphsAreNear)
<1>1. HistoryInv => SubgraphIsNear /\ SubgraphsAreNear
  BY HistoryShows
<1> QED
  BY <1>1, HistoryInvariant, PTL
-----------------------------------------------------------------------------
\* What a selection by a set of positions holds.
Picked(s, S) == [k \in DOMAIN InOrder(S) |-> s[InOrder(S)[k]]]

LEMMA PickedAre ==
    ASSUME NEW n \in Nat, NEW S \in SUBSET (1..n), NEW s
    PROVE  /\ Len(Picked(s, S)) \in Nat /\ DOMAIN Picked(s, S) = 1..Len(Picked(s, S))
           /\ ToSet(Picked(s, S)) = {s[i] : i \in S}
<1> DEFINE at == InOrder(S)
           q == [k \in DOMAIN at |-> s[at[k]]]
<1>0. Picked(s, S) = q
  BY DEF Picked
<1>1. /\ DOMAIN at = 1..Cardinality(S) /\ Cardinality(S) \in Nat
      /\ \A k \in DOMAIN at : at[k] \in S
      /\ \A i \in S : Rank(S, i) \in DOMAIN at /\ at[Rank(S, i)] = i
  BY InOrderFacts
<1> HIDE DEF at
<1>2. DOMAIN q = 1..Cardinality(S) /\ Len(q) = Cardinality(S)
  BY <1>1
<1>3. ToSet(q) = {s[i] : i \in S}
  <2>1. \A k \in DOMAIN q : q[k] \in {s[i] : i \in S}
    BY <1>1
  <2>2. ASSUME NEW i \in S PROVE s[i] \in ToSet(q)
    <3>1. q[Rank(S, i)] = s[i] /\ Rank(S, i) \in DOMAIN q
      BY <1>1
    <3> QED
      BY <3>1 DEF ToSet
  <2> QED
    BY <2>1, <2>2 DEF ToSet
<1> QED
  BY <1>0, <1>1, <1>2, <1>3

-----------------------------------------------------------------------------
(* The volume.                                                               *)
Usns == {records[i].usn : i \in DOMAIN records}
FileReferences == [number : Nat, seq : Nat]

ExaminationTypes ==
    /\ Len(records) \in Nat /\ DOMAIN records = 1..Len(records)
    /\ \A i \in DOMAIN records : records[i].frn \in FileReferences
    /\ disk.offset \in Nat /\ disk = [offset |-> disk.offset, slots |-> disk.slots]
    /\ logFile \in LogFiles /\ position \in Nat
    /\ IsSeq(entries) /\ IsSeq(matched.orphans) /\ IsSeq(matched.sequenceAnomalies)
    /\ stage \in {"reading", "parsed", "panicked", "listed", "known", "matched", "reported"}

LogIsParsed == stage \notin {"reading", "panicked"} => log = Parse(logFile, Usns)

\* The numbers whose record the second pass has read.
Passed ==
    {n \in Nat : \/ (stage = "listed" /\ n < position)
                \/ (stage \in {"known", "matched", "reported"} /\ n < disk.offset)}

\* Of a record that was left alone: what an entry and a known reference say of it.
EntriesAreRead ==
    \A r \in ToSet(entries) :
        /\ r.number \in Nat
        /\ r.number \notin disturbed => r = ReadRecord(disk, r.number) /\ r # None /\ r.number < disk.offset
KnownAreRead ==
    \A f \in mftFrns :
        /\ f.number \in Nat
        /\ f.number \notin disturbed => ReadRecord(disk, f.number) # None /\ ReadRecord(disk, f.number).seq = f.seq
ReadAreKnown ==
    \A n \in Passed :
        n \notin disturbed /\ ReadRecord(disk, n) # None
        => [number |-> n, seq |-> ReadRecord(disk, n).seq] \in mftFrns

MatchedIsExact ==
    /\ stage \notin {"known", "matched", "reported"} => matched = NoMatch
    /\ \A e \in ToSet(matched.orphans) : e.frn \in FileReferences /\ e.frn \notin mftFrns
    /\ \A e \in ToSet(matched.sequenceAnomalies) :
          /\ e.frn.number \in Nat /\ (e.frn \notin mftFrns => e \in ToSet(matched.orphans))
          /\ e.frn.number \notin disturbed =>
                ReadRecord(disk, e.frn.number) # None /\ ReadRecord(disk, e.frn.number).seq # e.frn.seq

TableInv == EntriesAreRead /\ KnownAreRead /\ ReadAreKnown /\ MatchedIsExact

VolumeInv == ExaminationTypes /\ LogIsParsed /\ TableInv

LEMMA VolumeStarts == InitVolume => VolumeInv
<1> SUFFICES ASSUME InitVolume PROVE VolumeInv
  OBVIOUS
<1>1. disk.offset \in Nat /\ disk = [offset |-> disk.offset, slots |-> disk.slots] /\ logFile \in LogFiles
  BY VolumeAssumption DEF InitVolume
<1>2. ExaminationTypes /\ LogIsParsed
  <2>1. IsSeq(<<>>) /\ NoMatch.orphans = <<>> /\ NoMatch.sequenceAnomalies = <<>>
    BY SeqFacts DEF NoMatch
  <2>2. Len(records) = 0 /\ DOMAIN records = {} /\ position = 0
    BY DEF InitVolume
  <2>3. ExaminationTypes
    BY <1>1, <2>1, <2>2 DEF InitVolume, ExaminationTypes
  <2> QED
    BY <2>3 DEF InitVolume, LogIsParsed
<1>3. TableInv
  BY NoElements DEF InitVolume, TableInv, EntriesAreRead, KnownAreRead, ReadAreKnown, MatchedIsExact, Passed, NoMatch
<1> QED
  BY <1>2, <1>3 DEF VolumeInv

\* Records that are left alone read as before.
Undisturbed ==
    \A n \in Nat : n \notin disturbed' => n \notin disturbed /\ ReadRecord(disk', n) = ReadRecord(disk, n)

LEMMA ReadRecordSays ==
    ASSUME NEW d, NEW n, ReadRecord(d, n) # None
    PROVE  ReadRecord(d, n).number = n
BY DEF ReadRecord, ParseRecord, TableRecord

LEMMA ReadsAre ==
    ASSUME NEW n, NEW r, Reads(n, r), UNCHANGED disk
    PROVE  /\ Undisturbed
           /\ n \notin disturbed' => r = ReadRecord(disk, n)
           /\ r # None => r = ReadRecord(disk, n) /\ r.number = n
BY ReadRecordSays DEF Reads, Undisturbed

LEMMA AppendedAre ==
    ASSUME NEW q, NEW e, IsSeq(q)
    PROVE  IsSeq(Append(q, e)) /\ ToSet(Append(q, e)) = ToSet(q) \cup {e}
<1>1. q \in Seq(ToSet(q) \cup {e})
  BY SeqMonotonic DEF IsSeq
<1> QED
  BY <1>1, AppendFacts, SeqFacts

LEMMA ReadJournalKeeps ==
    ASSUME VolumeInv, NEW t \in RecordTemplates, NEW pause, ReadJournal(t, pause)
    PROVE  VolumeInv'
<1>1. PICK e : records' = Append(records, e) /\ e.frn = t.frn
  BY DEF ReadJournal
<1>2. /\ stage = "reading" /\ stage' = "reading"
      /\ UNCHANGED <<disk, logFile, disturbed, log, entries, mftFrns, matched, position>>
  BY DEF ReadJournal
<1>3. /\ Len(records') = Len(records) + 1 /\ DOMAIN records' = 1..Len(records) + 1
      /\ \A i \in 1..Len(records) + 1 : records'[i] = IF i = Len(records) + 1 THEN e ELSE records[i]
  BY <1>1 DEF VolumeInv, ExaminationTypes
<1>4. \A i \in DOMAIN records' : records'[i].frn \in FileReferences
  BY <1>1, <1>3, VolumeAssumption DEF VolumeInv, ExaminationTypes, FileReferences
<1>5. ExaminationTypes' /\ LogIsParsed'
  BY <1>2, <1>3, <1>4 DEF VolumeInv, ExaminationTypes, LogIsParsed
<1>6. TableInv'
  BY <1>2 DEF VolumeInv, TableInv, EntriesAreRead, KnownAreRead, ReadAreKnown, MatchedIsExact, Passed
<1> QED
  BY <1>5, <1>6 DEF VolumeInv

LEMMA ListNextKeeps ==
    ASSUME VolumeInv, ListNext
    PROVE  VolumeInv'
<1>1. PICK r : Reads(position, r) /\ entries' = WithRecord(entries, r)
  BY DEF ListNext
<1>2. /\ stage = "parsed" /\ position < disk.offset /\ position' = position + 1
      /\ UNCHANGED <<disk, logFile, records, log, mftFrns, matched, stage>>
  BY DEF ListNext, TotalRecords
<1>3. /\ Undisturbed
      /\ r # None => r = ReadRecord(disk, position) /\ r.number = position
  BY <1>1, <1>2, ReadsAre
<1>4. IsSeq(entries) /\ position \in Nat /\ disk.offset \in Nat
  BY DEF VolumeInv, ExaminationTypes
<1>5. IsSeq(entries') /\ \A x \in ToSet(entries') : x \in ToSet(entries) \/ (x = r /\ r # None)
  BY <1>1, <1>4, AppendedAre DEF WithRecord
<1>6. ExaminationTypes' /\ LogIsParsed'
  BY <1>2, <1>4, <1>5 DEF VolumeInv, ExaminationTypes, LogIsParsed, Usns
<1>7. EntriesAreRead'
  BY <1>2, <1>3, <1>4, <1>5 DEF VolumeInv, TableInv, EntriesAreRead, Undisturbed
<1>8. KnownAreRead' /\ ReadAreKnown'
  BY <1>2, <1>3 DEF VolumeInv, TableInv, KnownAreRead, ReadAreKnown, Passed, Undisturbed
<1>9. MatchedIsExact'
  BY <1>2, <1>3 DEF VolumeInv, TableInv, MatchedIsExact, Undisturbed
<1> QED
  BY <1>6, <1>7, <1>8, <1>9 DEF VolumeInv, TableInv

LEMMA KnowNextKeeps ==
    ASSUME VolumeInv, KnowNext
    PROVE  VolumeInv'
<1>1. PICK r : Reads(position, r) /\ mftFrns' = Know(mftFrns, r)
  BY DEF KnowNext
<1>2. /\ stage = "listed" /\ position < disk.offset /\ position' = position + 1
      /\ UNCHANGED <<disk, logFile, records, log, entries, matched, stage>>
  BY DEF KnowNext, TotalRecords
<1>3. /\ Undisturbed
      /\ position \notin disturbed' => r = ReadRecord(disk, position)
      /\ r # None => r = ReadRecord(disk, position) /\ r.number = position
  BY <1>1, <1>2, ReadsAre
<1>4. position \in Nat /\ disk.offset \in Nat
  BY DEF VolumeInv, ExaminationTypes
<1>5. /\ mftFrns \subseteq mftFrns'
      /\ \A f \in mftFrns' : f \in mftFrns \/ (r # None /\ f = [number |-> r.number, seq |-> r.seq])
      /\ r # None => [number |-> r.number, seq |-> r.seq] \in mftFrns'
  BY <1>1 DEF Know
<1>6. ExaminationTypes' /\ LogIsParsed'
  BY <1>2, <1>4 DEF VolumeInv, ExaminationTypes, LogIsParsed, Usns
<1>7. EntriesAreRead'
  BY <1>2, <1>3 DEF VolumeInv, TableInv, EntriesAreRead, Undisturbed
<1>8. KnownAreRead'
  <2> SUFFICES ASSUME NEW f \in mftFrns', f.number \notin disturbed'
               PROVE  ReadRecord(disk', f.number) # None /\ ReadRecord(disk', f.number).seq = f.seq
    <3>1. \A f \in mftFrns' : f.number \in Nat
      BY <1>3, <1>4, <1>5 DEF VolumeInv, TableInv, KnownAreRead
    <3> QED
      BY <3>1 DEF KnownAreRead
  <2>1. CASE f \in mftFrns
    BY <1>3, <2>1 DEF VolumeInv, TableInv, KnownAreRead, Undisturbed
  <2>2. CASE r # None /\ f = [number |-> r.number, seq |-> r.seq]
    <3>1. f.number = position /\ f.seq = r.seq /\ r = ReadRecord(disk, position)
      BY <1>3, <2>2
    <3> QED
      BY <1>2, <2>2, <3>1
  <2> QED
    BY <1>5, <2>1, <2>2
<1>9. ReadAreKnown'
  <2> SUFFICES ASSUME NEW n \in Passed', n \notin disturbed', ReadRecord(disk', n) # None
               PROVE  [number |-> n, seq |-> ReadRecord(disk', n).seq] \in mftFrns'
    BY DEF ReadAreKnown
  <2>1. n \in Nat /\ (n < position \/ n = position)
    BY <1>2, <1>4 DEF Passed
  <2>2. CASE n < position
    <3>1. n \in Passed
      BY <1>2, <2>1, <2>2 DEF Passed
    <3>2. n \notin disturbed /\ ReadRecord(disk', n) = ReadRecord(disk, n)
      BY <1>3, <2>1 DEF Undisturbed
    <3>3. [number |-> n, seq |-> ReadRecord(disk, n).seq] \in mftFrns
      BY <3>1, <3>2 DEF VolumeInv, TableInv, ReadAreKnown
    <3> QED
      BY <1>5, <3>2, <3>3
  <2>3. CASE n = position
    BY <1>2, <1>3, <1>5, <2>3
  <2> QED
    BY <2>1, <2>2, <2>3
<1>10. MatchedIsExact'
  <2>1. matched = NoMatch
    BY <1>2 DEF VolumeInv, TableInv, MatchedIsExact
  <2> QED
    BY <1>2, <2>1, NoElements DEF MatchedIsExact, NoMatch
<1> QED
  BY <1>6, <1>7, <1>8, <1>9, <1>10 DEF VolumeInv, TableInv

LEMMA MatchNextKeeps ==
    ASSUME VolumeInv, MatchNext
    PROVE  VolumeInv'
<1> DEFINE e == records[position + 1]
<1>1. PICK r : Reads(e.frn.number, r) /\ matched' = MatchEvent(matched, mftFrns, e, r)
  BY DEF MatchNext
<1>2. /\ stage = "known" /\ position < Len(records) /\ position' = position + 1
      /\ UNCHANGED <<disk, logFile, records, log, entries, mftFrns, stage>>
  BY DEF MatchNext
<1>3. /\ Undisturbed
      /\ r # None => r = ReadRecord(disk, e.frn.number)
  BY <1>1, <1>2, ReadsAre
<1>4. /\ position \in Nat /\ e.frn \in FileReferences
      /\ IsSeq(matched.orphans) /\ IsSeq(matched.sequenceAnomalies)
  BY <1>2 DEF VolumeInv, ExaminationTypes
<1> HIDE DEF e
<1>5. /\ matched'.orphans = IF e.frn \notin mftFrns THEN Append(matched.orphans, e) ELSE matched.orphans
      /\ matched'.sequenceAnomalies = IF r # None /\ r.seq # e.frn.seq THEN Append(matched.sequenceAnomalies, e)
                                      ELSE matched.sequenceAnomalies
  BY <1>1 DEF MatchEvent
<1>6. /\ IsSeq(matched'.orphans) /\ ToSet(matched.orphans) \subseteq ToSet(matched'.orphans)
      /\ \A x \in ToSet(matched'.orphans) : x \in ToSet(matched.orphans) \/ (x = e /\ e.frn \notin mftFrns)
      /\ e.frn \notin mftFrns => e \in ToSet(matched'.orphans)
  BY <1>4, <1>5, AppendedAre
<1>7. /\ IsSeq(matched'.sequenceAnomalies)
      /\ \A x \in ToSet(matched'.sequenceAnomalies) :
            x \in ToSet(matched.sequenceAnomalies) \/ (x = e /\ r # None /\ r.seq # e.frn.seq)
  BY <1>4, <1>5, AppendedAre
<1>8. ExaminationTypes' /\ LogIsParsed'
  BY <1>2, <1>4, <1>6, <1>7 DEF VolumeInv, ExaminationTypes, LogIsParsed, Usns
<1>9. EntriesAreRead' /\ KnownAreRead' /\ ReadAreKnown'
  BY <1>2, <1>3 DEF VolumeInv, TableInv, EntriesAreRead, KnownAreRead, ReadAreKnown, Passed, Undisturbed
<1>10. MatchedIsExact'
  <2>1. \A x \in ToSet(matched'.orphans) : x.frn \in FileReferences /\ x.frn \notin mftFrns'
    BY <1>2, <1>4, <1>6 DEF VolumeInv, TableInv, MatchedIsExact
  <2>2. ASSUME NEW x \in ToSet(matched'.sequenceAnomalies)
        PROVE  /\ x.frn.number \in Nat /\ (x.frn \notin mftFrns' => x \in ToSet(matched'.orphans))
               /\ x.frn.number \notin disturbed' =>
                     ReadRecord(disk', x.frn.number) # None /\ ReadRecord(disk', x.frn.number).seq # x.frn.seq
    <3>1. CASE x \in ToSet(matched.sequenceAnomalies)
      BY <1>2, <1>3, <1>6, <3>1 DEF VolumeInv, TableInv, MatchedIsExact, Undisturbed
    <3>2. CASE x = e /\ r # None /\ r.seq # e.frn.seq
      BY <1>2, <1>3, <1>4, <1>6, <3>2 DEF FileReferences
    <3> QED
      BY <1>7, <3>1, <3>2
  <2> QED
    BY <1>2, <2>1, <2>2 DEF MatchedIsExact
<1> QED
  BY <1>8, <1>9, <1>10 DEF VolumeInv, TableInv

LEMMA EndLoopKeeps ==
    ASSUME VolumeInv, EndLoop
    PROVE  VolumeInv'
<1>1. /\ stage \in {"parsed", "listed", "known"} /\ stage' \in {"listed", "known", "matched"}
      /\ stage' = "listed" => stage = "parsed"
      /\ stage' = "known" => stage = "listed" /\ position = disk.offset
      /\ stage' = "matched" => stage = "known"
      /\ position' = 0
      /\ UNCHANGED <<disk, logFile, disturbed, records, log, entries, mftFrns, matched>>
  BY DEF EndLoop, TotalRecords
<1>2. ExaminationTypes' /\ LogIsParsed'
  BY <1>1 DEF VolumeInv, ExaminationTypes, LogIsParsed, Usns
<1>3. Passed' \subseteq Passed
  BY <1>1 DEF Passed
<1>4. EntriesAreRead' /\ KnownAreRead' /\ ReadAreKnown'
  BY <1>1, <1>3 DEF VolumeInv, TableInv, EntriesAreRead, KnownAreRead, ReadAreKnown
<1>5. MatchedIsExact'
  BY <1>1 DEF VolumeInv, TableInv, MatchedIsExact
<1> QED
  BY <1>2, <1>4, <1>5 DEF VolumeInv, TableInv

LEMMA RewriteKeeps ==
    ASSUME VolumeInv, NEW n \in NumbersRead, NEW slot \in Rewrites, Rewrite(n, slot)
    PROVE  VolumeInv'
<1>1. /\ disk' = [disk EXCEPT !.slots[disk.offset + n + 1] = slot] /\ disturbed' = disturbed \cup {n}
      /\ UNCHANGED <<logFile, records, log, entries, mftFrns, matched, position, stage>>
  BY DEF Rewrite
<1>2. disk.offset \in Nat /\ disk = [offset |-> disk.offset, slots |-> disk.slots]
  BY DEF VolumeInv, ExaminationTypes
<1>3. n \in Nat
  BY <1>2, VolumeAssumption DEF NumbersRead, TotalRecords
<1>4. /\ disk'.offset = disk.offset /\ disk' = [offset |-> disk'.offset, slots |-> disk'.slots]
      /\ disk'.slots = [disk.slots EXCEPT ![disk.offset + n + 1] = slot]
  BY <1>1, <1>2
<1>5. Undisturbed
  <2> SUFFICES ASSUME NEW m \in Nat, m # n PROVE ReadRecord(disk', m) = ReadRecord(disk, m)
    BY <1>1 DEF Undisturbed
  <2> DEFINE k == disk.offset + m + 1
  <2>1. DOMAIN disk'.slots = DOMAIN disk.slots
    BY <1>4
  <2>2. k # disk.offset + n + 1
    BY <1>2, <1>3
  <2>3. k \in DOMAIN disk.slots => disk'.slots[k] = disk.slots[k]
    BY <1>4, <2>2
  <2> QED
    BY <1>4, <2>1, <2>3 DEF ReadRecord
<1>6. ExaminationTypes' /\ LogIsParsed'
  BY <1>1, <1>2, <1>4 DEF VolumeInv, ExaminationTypes, LogIsParsed, Usns
<1>7. EntriesAreRead' /\ KnownAreRead' /\ ReadAreKnown'
  BY <1>1, <1>4, <1>5 DEF VolumeInv, TableInv, EntriesAreRead, KnownAreRead, ReadAreKnown, Passed, Undisturbed
<1>8. MatchedIsExact'
  BY <1>1, <1>5 DEF VolumeInv, TableInv, MatchedIsExact, Undisturbed
<1> QED
  BY <1>6, <1>7, <1>8 DEF VolumeInv, TableInv

LEMMA VolumeKeeps ==
    ASSUME VolumeInv, [NextVolume]_volumeVars
    PROVE  VolumeInv'
<1>1. CASE \E t \in RecordTemplates, pause \in RecordPauses : ReadJournal(t, pause)
  BY <1>1, ReadJournalKeeps
<1>2. CASE ParseLogFile
  <2>1. /\ stage = "reading" /\ stage' \in {"panicked", "parsed"} /\ (stage' = "parsed" => log' = Parse(logFile, Usns))
        /\ UNCHANGED <<disk, logFile, disturbed, records, entries, mftFrns, matched, position>>
    BY <1>2 DEF ParseLogFile, Usns
  <2>2. ExaminationTypes' /\ LogIsParsed'
    BY <2>1 DEF VolumeInv, ExaminationTypes, LogIsParsed, Usns
  <2>3. TableInv'
    BY <2>1 DEF VolumeInv, TableInv, EntriesAreRead, KnownAreRead, ReadAreKnown, MatchedIsExact, Passed
  <2> QED
    BY <2>2, <2>3 DEF VolumeInv
<1>3. CASE ListNext \/ KnowNext \/ MatchNext \/ EndLoop
  BY <1>3, ListNextKeeps, KnowNextKeeps, MatchNextKeeps, EndLoopKeeps
<1>4. CASE \E n \in NumbersRead, slot \in Rewrites : Rewrite(n, slot)
  BY <1>4, RewriteKeeps
<1>5. CASE Judge
  <2>1. /\ stage = "matched" /\ stage' = "reported"
        /\ UNCHANGED <<disk, logFile, disturbed, records, log, entries, mftFrns, matched, position>>
    BY <1>5 DEF Judge
  <2> QED
    BY <2>1 DEF VolumeInv, ExaminationTypes, LogIsParsed, Usns, TableInv, EntriesAreRead, KnownAreRead, ReadAreKnown,
                MatchedIsExact, Passed
<1>6. CASE UNCHANGED volumeVars
  BY <1>6 DEF volumeVars, VolumeInv, ExaminationTypes, LogIsParsed, Usns, TableInv, EntriesAreRead, KnownAreRead,
              ReadAreKnown, MatchedIsExact, Passed
<1> QED
  BY <1>1, <1>2, <1>3, <1>4, <1>5, <1>6 DEF NextVolume

LEMMA AnomaliesShow == VolumeInv => AnomaliesAreOrphans
<1> SUFFICES ASSUME VolumeInv PROVE AnomaliesAreOrphans
  OBVIOUS
<1>1. ASSUME NEW e \in ToSet(matched.sequenceAnomalies), e.frn.number \notin disturbed
      PROVE  e \in ToSet(matched.orphans)
  <2>1. e.frn \notin mftFrns
    BY <1>1 DEF VolumeInv, TableInv, MatchedIsExact, KnownAreRead
  <2> QED
    BY <2>1 DEF VolumeInv, TableInv, MatchedIsExact
<1>2. ASSUME NEW e \in ToSet(matched.orphans), NEW r \in ToSet(entries),
             r.number = e.frn.number, r.number \notin disturbed, r.seq = e.frn.seq
      PROVE  FALSE
  <2>1. stage \in {"known", "matched", "reported"}
    BY NoElements DEF VolumeInv, TableInv, MatchedIsExact, NoMatch
  <2>2. r = ReadRecord(disk, r.number) /\ r # None /\ r.number \in Passed
    BY <1>2, <2>1 DEF VolumeInv, TableInv, EntriesAreRead, Passed
  <2>3. [number |-> r.number, seq |-> r.seq] \in mftFrns
    BY <1>2, <2>2 DEF VolumeInv, TableInv, ReadAreKnown
  <2>4. e.frn \in FileReferences /\ e.frn \notin mftFrns
    BY DEF VolumeInv, TableInv, MatchedIsExact
  <2>5. e.frn = [number |-> e.frn.number, seq |-> e.frn.seq]
    BY <2>4 DEF FileReferences
  <2> QED
    BY <1>2, <2>3, <2>4, <2>5
<1> QED
  BY <1>1, <1>2 DEF AnomaliesAreOrphans
-----------------------------------------------------------------------------
(* The transaction log.                                                      *)
Ghosts == [usn : Nat, time : Int \cup {LogNow}, source : {"redo", "slack"}]
UsnsOf(ghosts) == {g.usn : g \in ToSet(ghosts)}

LEMMA DisjointUnion ==
    ASSUME NEW S, NEW T, IsFiniteSet(S), IsFiniteSet(T), S \cap T = {}
    PROVE  /\ IsFiniteSet(S \cup T) /\ Cardinality(S \cup T) \in Nat
           /\ Cardinality(S \cup T) = Cardinality(S) + Cardinality(T)
<1>1. Cardinality(S \cap T) = 0
  BY FS_EmptySet
<1>2. IsFiniteSet(S \cup T) /\ Cardinality(S \cup T) = Cardinality(S) + Cardinality(T) - Cardinality(S \cap T)
  BY FS_Union
<1>3. Cardinality(S) \in Nat /\ Cardinality(T) \in Nat
  BY FS_CardinalityType
<1> QED
  BY <1>1, <1>2, <1>3

LEMMA JoinedUsns ==
    ASSUME NEW p \in Seq(Ghosts), NEW q \in Seq(Ghosts)
    PROVE  p \o q \in Seq(Ghosts) /\ Len(p \o q) = Len(p) + Len(q) /\ UsnsOf(p \o q) = UsnsOf(p) \cup UsnsOf(q)
<1>1. ToSet(p \o q) = ToSet(p) \cup ToSet(q)
  BY ConcatFacts
<1>2. UsnsOf(p \o q) = UsnsOf(p) \cup UsnsOf(q)
  BY <1>1 DEF UsnsOf
<1> QED
  BY <1>2, ConcatFacts

\* The ghosts made of some items of a page.
LEMMA GhostsOf ==
    ASSUME NEW page \in LogPages, NEW S \in SUBSET DOMAIN page.items, \A k \in S : page.items[k] \in InLogFile,
           NEW q, NEW source \in {"redo", "slack"},
           LET at == InOrder(S)
           IN  \/ q = [i \in DOMAIN at |-> Ghost(page.items[at[i]].usn, page.items[at[i]].time, source)]
               \/ q = [i \in DOMAIN at |-> Ghost(page.items[at[i]].usn, LogNow, source)]
    PROVE  /\ q \in Seq(Ghosts) /\ Len(q) = Cardinality(S) /\ IsFiniteSet(S)
           /\ UsnsOf(q) = {page.items[k].usn : k \in S}
<1> DEFINE at == InOrder(S)
           items == page.items
<1>1. Len(items) \in Nat /\ DOMAIN items = 1..Len(items)
  BY DEF LogPages
<1>2. /\ DOMAIN at = 1..Cardinality(S) /\ Cardinality(S) \in Nat
      /\ \A i \in DOMAIN at : at[i] \in S
      /\ \A k \in S : \E i \in DOMAIN at : at[i] = k
  BY <1>1, InOrderFacts
<1>3. IsFiniteSet(S)
  <2>1. IsFiniteSet(1..Len(items)) /\ S \in SUBSET (1..Len(items))
    BY <1>1, FS_Interval
  <2> QED
    BY <2>1, FS_Subset
<1> HIDE DEF at
<1>4. DOMAIN q = 1..Cardinality(S) /\ q = [i \in 1..Cardinality(S) |-> q[i]]
  BY <1>2 DEF at
<1>5. \A i \in 1..Cardinality(S) : q[i] \in Ghosts /\ q[i].usn = items[at[i]].usn
  BY <1>2 DEF at, Ghost, Ghosts, InLogFile
<1>6. q \in Seq(Ghosts) /\ Len(q) = Cardinality(S)
  <2>1. q \in [1..Cardinality(S) -> Ghosts]
    BY <1>4, <1>5
  <2> QED
    BY <1>2, <1>4, <2>1, IsASeq
<1>7. UsnsOf(q) = {items[k].usn : k \in S}
  <2>1. UsnsOf(q) = {q[i].usn : i \in DOMAIN q}
    BY DEF UsnsOf, ToSet
  <2>2. UsnsOf(q) = {items[at[i]].usn : i \in DOMAIN at}
    BY <1>2, <1>4, <1>5, <2>1
  <2> QED
    BY <1>2, <2>2
<1> QED
  BY <1>3, <1>6, <1>7

LEMMA PageGhosts ==
    ASSUME NEW page \in LogPages, NEW allocated
    PROVE  LET new == Redo(page, allocated) \o Slack(page, allocated)
           IN  /\ new \in Seq(Ghosts) /\ Len(new) = Cardinality(Absent(page, allocated))
               /\ IsFiniteSet(Absent(page, allocated)) /\ Cardinality(Absent(page, allocated)) \in Nat
               /\ UsnsOf(new) = {page.items[k].usn : k \in Absent(page, allocated)}
<1> DEFINE R == Missing(page, InRedo(page), allocated)
           S == Missing(page, InSlack(page), allocated)
           redo == Redo(page, allocated)
           slack == Slack(page, allocated)
<1>1. /\ DOMAIN page.items = 1..Len(page.items) /\ Len(page.items) \in Nat
      /\ \A k \in DOMAIN page.items : page.items[k] \in InLogFile \/ page.items[k] = Stop
      /\ \A x \in InLogFile : x.kind \in {"redo", "other", "bare"} /\ x.version \in 2..4 /\ x # Stop
      /\ Stop.kind = "stop"
  BY DEF LogPages, InLogFile, Stop
<1>2. /\ R \in SUBSET DOMAIN page.items /\ S \in SUBSET DOMAIN page.items /\ R \cap S = {}
      /\ \A k \in R \cup S : page.items[k] \in InLogFile
  BY <1>1 DEF Missing, InRedo, InSlack, Walked
<1>3. R \cup S = Absent(page, allocated)
  <2> SUFFICES ASSUME NEW k \in DOMAIN page.items PROVE k \in R \cup S <=> k \in Absent(page, allocated)
    BY <1>2 DEF Absent
  <2>1. k \in Walked(page) <=> ~ \E j \in 1..k : page.items[j].kind = "stop"
    <3>1. \A j \in 1..k : j \in DOMAIN page.items
      BY <1>1
    <3> QED
      BY <1>1, <3>1 DEF Walked
  <2>2. page.items[k] # Stop <=> page.items[k].kind # "stop"
    BY <1>1
  <2>3. page.items[k] # Stop => (page.items[k].version <= 3 <=> page.items[k].version # 4)
    BY <1>1
  <2>4. k \in Walked(page) => page.items[k].kind # "stop"
    BY <1>1, <2>1
  <2> QED
    BY <2>1, <2>2, <2>3, <2>4 DEF Missing, InRedo, InSlack, Absent
<1>4. /\ redo \in Seq(Ghosts) /\ Len(redo) = Cardinality(R) /\ IsFiniteSet(R)
      /\ UsnsOf(redo) = {page.items[k].usn : k \in R}
  <2>1. \A k \in R : page.items[k] \in InLogFile
    BY <1>2
  <2> QED
    BY <1>2, <2>1, GhostsOf DEF Redo
<1>5. /\ slack \in Seq(Ghosts) /\ Len(slack) = Cardinality(S) /\ IsFiniteSet(S)
      /\ UsnsOf(slack) = {page.items[k].usn : k \in S}
  <2>1. \A k \in S : page.items[k] \in InLogFile
    BY <1>2
  <2> QED
    BY <1>2, <2>1, GhostsOf DEF Slack
<1> HIDE DEF R, S, redo, slack
<1>6. /\ IsFiniteSet(R \cup S) /\ Cardinality(R \cup S) \in Nat
      /\ Cardinality(R \cup S) = Cardinality(R) + Cardinality(S)
  BY <1>2, <1>4, <1>5, DisjointUnion
<1>7. redo \o slack \in Seq(Ghosts) /\ Len(redo \o slack) = Len(redo) + Len(slack)
      /\ UsnsOf(redo \o slack) = UsnsOf(redo) \cup UsnsOf(slack)
  BY <1>4, <1>5, JoinedUsns
<1> QED
  BY <1>3, <1>4, <1>5, <1>6, <1>7 DEF redo, slack

-----------------------------------------------------------------------------
\* What is found at some of the visits, and a result so far: it counts its ghosts, and
\* they are these.
FindsAt(file, V, allocated) == UNION {{v} \X Absent(Visited(file, v), allocated) : v \in V}
IsParsed(r, file, V, allocated) ==
    LET finds == FindsAt(file, V, allocated)
    IN  /\ r.ghosts \in Seq(Ghosts) /\ r.found = Len(r.ghosts)
        /\ IsFiniteSet(finds) /\ Len(r.ghosts) = Cardinality(finds)
        /\ UsnsOf(r.ghosts) = {Visited(file, f[1]).items[f[2]].usn : f \in finds}

LEMMA PairedCardinality ==
    ASSUME NEW v, NEW K, IsFiniteSet(K)
    PROVE  IsFiniteSet({v} \X K) /\ Cardinality({v} \X K) = Cardinality(K)
<1> DEFINE f == [k \in K |-> <<v, k>>]
<1> DEFINE P == {v} \X K
<1>1. /\ f \in [K -> P] /\ \A a, b \in K : f[a] = f[b] => a = b
      /\ \A p \in P : \E a \in K : f[a] = p
  <2>1. \A a \in K : f[a] = <<v, a>> /\ f[a] \in P
    OBVIOUS
  <2>2. \A p \in P : p[2] \in K /\ p = <<v, p[2]>>
    OBVIOUS
  <2> QED
    BY <2>1, <2>2
<1> HIDE DEF f, P
<1>2. f \in Surjection(K, P)
  BY <1>1 DEF Surjection
<1>3. f \in Injection(K, P)
  BY <1>1 DEF Injection, IsInjective
<1>4. IsFiniteSet(P) /\ Cardinality(P) = Cardinality(K)
  BY <1>2, <1>3, FS_Surjection
<1> QED
  BY <1>4 DEF P

LEMMA RecordPageKeeps ==
    ASSUME NEW file, NEW V, NEW allocated, NEW r, IsParsed(r, file, V, allocated),
           NEW v, v \notin V, Visited(file, v) \in LogPages
    PROVE  IsParsed(ProcessRcrdPage(r, Visited(file, v), allocated), file, V \cup {v}, allocated)
<1> DEFINE page == Visited(file, v)
           new == Redo(page, allocated) \o Slack(page, allocated)
           after == ProcessRcrdPage(r, page, allocated)
           old == FindsAt(file, V, allocated)
           more == {v} \X Absent(page, allocated)
           Usn(f) == Visited(file, f[1]).items[f[2]].usn
<1>1. /\ new \in Seq(Ghosts) /\ Len(new) = Cardinality(Absent(page, allocated))
      /\ IsFiniteSet(Absent(page, allocated)) /\ Cardinality(Absent(page, allocated)) \in Nat
      /\ UsnsOf(new) = {page.items[k].usn : k \in Absent(page, allocated)}
  BY PageGhosts
<1>2. after.ghosts = r.ghosts \o new /\ after.found = r.found + Len(new)
  BY DEF ProcessRcrdPage
<1>3. /\ r.ghosts \in Seq(Ghosts) /\ r.found = Len(r.ghosts)
      /\ IsFiniteSet(old) /\ Len(r.ghosts) = Cardinality(old)
      /\ UsnsOf(r.ghosts) = {Usn(f) : f \in old}
  BY DEF IsParsed
<1>4. FindsAt(file, V \cup {v}, allocated) = old \cup more
  BY DEF FindsAt
<1>5. old \cap more = {}
  BY DEF FindsAt
<1>6. IsFiniteSet(more) /\ Cardinality(more) = Cardinality(Absent(page, allocated))
  BY <1>1, PairedCardinality
<1>7. {Usn(f) : f \in more} = {page.items[k].usn : k \in Absent(page, allocated)}
  <2> DEFINE K == Absent(page, allocated)
  <2>1. \A f \in more : f[1] = v /\ f[2] \in K
    OBVIOUS
  <2>2. \A k \in K : <<v, k>> \in more /\ <<v, k>>[1] = v /\ <<v, k>>[2] = k
    OBVIOUS
  <2>3. \A f : f[1] = v => Usn(f) = page.items[f[2]].usn
    OBVIOUS
  <2> HIDE DEF Usn, more, page, K
  <2>4. \A f \in more : Usn(f) \in {page.items[k].usn : k \in K}
    BY <2>1, <2>3
  <2>5. ASSUME NEW k \in K PROVE page.items[k].usn \in {Usn(f) : f \in more}
    <3>1. <<v, k>> \in more /\ Usn(<<v, k>>) = page.items[k].usn
      <4>1. <<v, k>>[1] = v /\ <<v, k>>[2] = k /\ <<v, k>> \in more
        BY <2>2
      <4>2. Usn(<<v, k>>) = page.items[<<v, k>>[2]].usn
        BY <2>3, <4>1
      <4> QED
        BY <4>1, <4>2
    <3> QED
      BY <3>1
  <2> QED
    BY <2>4, <2>5 DEF K
<1> HIDE DEF new, after, old, more, Usn, page
<1>8. /\ after.ghosts \in Seq(Ghosts) /\ Len(after.ghosts) = Len(r.ghosts) + Len(new) /\ after.found = Len(after.ghosts)
      /\ UsnsOf(after.ghosts) = UsnsOf(r.ghosts) \cup UsnsOf(new)
  BY <1>1, <1>2, <1>3, JoinedUsns
<1>9. IsFiniteSet(old \cup more) /\ Cardinality(old \cup more) = Cardinality(old) + Cardinality(more)
  BY <1>3, <1>5, <1>6, DisjointUnion
<1>10. UsnsOf(after.ghosts) = {Usn(f) : f \in old \cup more}
  BY <1>1, <1>3, <1>7, <1>8
<1>11. IsParsed(after, file, V \cup {v}, allocated)
  BY <1>1, <1>3, <1>4, <1>6, <1>8, <1>9, <1>10 DEF IsParsed, Usn
<1> QED
  BY <1>11 DEF after, page

\* The same of the pages a restart page refers to, and of all pages.
IsFollowing(f, r, file, page, allocated, n) ==
    f = [k \in 0..n |->
            CASE k = 0 -> r
              [] k > 0 /\ Refers(file, page, k) -> ProcessRcrdPage(f[k - 1], PageAt(file, page.refs[k]), allocated)
              [] OTHER -> f[k - 1]]
IsScan(f, file, allocated, n) ==
    f = [k \in 0..n |-> IF k = 0 THEN EmptyResult ELSE ScanPage(f[k - 1], file, file.pages[k], allocated)]

LEMMA FollowingExists ==
    ASSUME NEW r, NEW file, NEW page, NEW allocated, NEW n \in Nat
    PROVE  \E f : IsFollowing(f, r, file, page, allocated, n)
<1> DEFINE S == {m \in Nat : ~ \E f : IsFollowing(f, r, file, page, allocated, m)}
           F(f, k) == CASE k = 0 -> r
                        [] k > 0 /\ Refers(file, page, k) -> ProcessRcrdPage(f[k - 1], PageAt(file, page.refs[k]), allocated)
                        [] OTHER -> f[k - 1]
<1>1. ASSUME S # {} PROVE FALSE
  <2>1. PICK m \in S : \A k \in S : m <= k
    BY <1>1, LeastIs
  <2>2. m # 0
    <3> DEFINE f == [k \in 0..0 |-> r]
    <3>1. f = [k \in 0..0 |-> F(f, k)]
      OBVIOUS
    <3>2. IsFollowing(f, r, file, page, allocated, 0)
      BY <3>1 DEF IsFollowing
    <3> QED
      BY <3>2
  <2>3. m - 1 \in Nat /\ m - 1 \notin S
    BY <2>1, <2>2
  <2>4. PICK f : IsFollowing(f, r, file, page, allocated, m - 1)
    BY <2>3
  <2> DEFINE h == [k \in 0..m |-> IF k = m THEN F(f, m) ELSE f[k]]
  <2>5. \A k \in 0..m - 1 : f[k] = F(f, k)
    BY <2>4 DEF IsFollowing
  <2>6. \A k \in 0..m : h[k] = F(h, k)
    <3> SUFFICES ASSUME NEW k \in 0..m PROVE h[k] = F(h, k)
      OBVIOUS
    <3>1. k # 0 => h[k - 1] = f[k - 1]
      BY <2>1, <2>3
    <3>2. F(h, k) = F(f, k)
      BY <3>1
    <3>3. CASE k = m
      BY <3>2, <3>3
    <3>4. CASE k # m
      BY <2>3, <2>5, <3>2, <3>4
    <3> QED
      BY <3>3, <3>4
  <2>7. IsFollowing(h, r, file, page, allocated, m)
    <3> HIDE DEF h
    <3>1. h = [k \in 0..m |-> h[k]]
      BY DEF h
    <3>2. h = [k \in 0..m |-> F(h, k)]
      BY <2>6, <3>1
    <3> QED
      BY <3>2 DEF IsFollowing
  <2> QED
    BY <2>1, <2>7
<1> QED
  BY <1>1

LEMMA ScanExists ==
    ASSUME NEW file, NEW allocated, NEW n \in Nat
    PROVE  \E f : IsScan(f, file, allocated, n)
<1> DEFINE S == {m \in Nat : ~ \E f : IsScan(f, file, allocated, m)}
           F(f, k) == ScanPage(f[k - 1], file, file.pages[k], allocated)
<1>1. ASSUME S # {} PROVE FALSE
  <2>1. PICK m \in S : \A k \in S : m <= k
    BY <1>1, LeastIs
  <2>2. m # 0
    <3> DEFINE f == [k \in 0..0 |-> EmptyResult]
    <3>1. f = [k \in 0..0 |-> IF k = 0 THEN EmptyResult ELSE F(f, k)]
      OBVIOUS
    <3>2. IsScan(f, file, allocated, 0)
      BY <3>1 DEF IsScan
    <3> QED
      BY <3>2
  <2>3. m - 1 \in Nat /\ m - 1 \notin S
    BY <2>1, <2>2
  <2>4. PICK f : IsScan(f, file, allocated, m - 1)
    BY <2>3
  <2> DEFINE h == [k \in 0..m |-> IF k = m THEN F(f, m) ELSE f[k]]
  <2>5. \A k \in 0..m - 1 : f[k] = IF k = 0 THEN EmptyResult ELSE F(f, k)
    BY <2>4 DEF IsScan
  <2>6. \A k \in 0..m : h[k] = IF k = 0 THEN EmptyResult ELSE F(h, k)
    <3> SUFFICES ASSUME NEW k \in 0..m PROVE h[k] = IF k = 0 THEN EmptyResult ELSE F(h, k)
      OBVIOUS
    <3>1. CASE k = m
      BY <2>1, <2>2, <2>3, <3>1
    <3>2. CASE k # m
      <4>1. k \in 0..m - 1 /\ h[k] = f[k] /\ (k # 0 => k - 1 \in 0..m - 1 /\ h[k - 1] = f[k - 1])
        BY <2>1, <2>3, <3>2
      <4> QED
        BY <2>5, <4>1
    <3> QED
      BY <3>1, <3>2
  <2>7. IsScan(h, file, allocated, m)
    BY <2>6 DEF IsScan
  <2> QED
    BY <2>1, <2>7
<1> QED
  BY <1>1

\* What is at the places the parser comes to.
LEMMA VisitsAre ==
    ASSUME NEW file \in LogFiles
    PROVE  /\ \A v \in Visits(file) : v = <<v[1], v[2]>> /\ v[1] \in 1..Len(file.pages) /\ v[2] \in Nat
           /\ \A i \in 1..Len(file.pages) :
                 /\ file.pages[i] \in LogPages /\ Len(file.pages[i].refs) \in Nat
                 /\ \A n \in Nat : <<i, n>> \in Visits(file) <=>
                       \/ file.pages[i].signature = "RCRD" /\ n = 0
                       \/ /\ file.pages[i].signature = "RSTR" /\ n \in 1..Len(file.pages[i].refs)
                          /\ Refers(file, file.pages[i], n)
<1>1. /\ Len(file.pages) \in Nat /\ DOMAIN file.pages = 1..Len(file.pages)
      /\ \A i \in 1..Len(file.pages) : file.pages[i] \in LogPages
  BY DEF LogFiles
<1>2. \A i \in 1..Len(file.pages) :
          Len(file.pages[i].refs) \in Nat /\ DOMAIN file.pages[i].refs = 1..Len(file.pages[i].refs)
  BY <1>1 DEF LogPages
<1>3. \A v \in Visits(file) : v = <<v[1], v[2]>> /\ v[1] \in 1..Len(file.pages) /\ v[2] \in Nat
  BY <1>1, <1>2 DEF Visits
<1>4. ASSUME NEW i \in 1..Len(file.pages), NEW n \in Nat
      PROVE  <<i, n>> \in Visits(file) <=>
                \/ file.pages[i].signature = "RCRD" /\ n = 0
                \/ /\ file.pages[i].signature = "RSTR" /\ n \in 1..Len(file.pages[i].refs)
                   /\ Refers(file, file.pages[i], n)
  <2> DEFINE S == {p \in DOMAIN file.pages : file.pages[p].signature = "RCRD"}
             T == {p \in DOMAIN file.pages : file.pages[p].signature = "RSTR"}
             K(p) == {k \in DOMAIN file.pages[p].refs : Refers(file, file.pages[p], k)}
  <2>1. <<i, n>> \in {<<p, 0>> : p \in S} <=> i \in S /\ n = 0
    OBVIOUS
  <2>2. <<i, n>> \in UNION {{<<p, k>> : k \in K(p)} : p \in T} <=> i \in T /\ n \in K(i)
    OBVIOUS
  <2>3. Visits(file) = {<<p, 0>> : p \in S} \cup UNION {{<<p, k>> : k \in K(p)} : p \in T}
    BY DEF Visits
  <2> QED
    BY <1>1, <1>2, <2>1, <2>2, <2>3
<1> QED
  BY <1>1, <1>2, <1>3, <1>4

LEMMA ReferredAre ==
    ASSUME NEW file \in LogFiles, NEW page \in LogPages, NEW n \in 1..Len(page.refs), Refers(file, page, n)
    PROVE  PageAt(file, page.refs[n]) \in LogPages
<1>1. /\ file.pages \in Seq(LogPages) /\ file.inner \in Seq(LogPages) /\ page.refs[n] \in Nat
  BY DEF LogFiles, LogPages
<1> DEFINE all == file.pages \o file.inner
<1>2. all \in Seq(LogPages) /\ Len(all) = Len(file.pages) + Len(file.inner)
  BY <1>1
<1>3. page.refs[n] + 1 \in 1..Len(all)
  BY <1>2 DEF Refers
<1> HIDE DEF all
<1> DEFINE k == page.refs[n] + 1
<1>4. k \in 1..Len(all)
  BY <1>3
<1> HIDE DEF k
<1>5. all[k] \in LogPages
  BY <1>2, <1>4, ElementOfSeq
<1> QED
  BY <1>5 DEF PageAt, all, k

\* The visits up to a page, and those of the page up to a reference.
UpTo(file, i, n) == {v \in Visits(file) : v[1] < i \/ (v[1] = i /\ v[2] <= n)}

LEMMA RestartPageKeeps ==
    ASSUME NEW file \in LogFiles, NEW allocated, NEW r, NEW i \in 1..Len(file.pages),
           file.pages[i].signature = "RSTR", IsParsed(r, file, UpTo(file, i, 0), allocated)
    PROVE  IsParsed(ProcessRstrPage(r, file, file.pages[i], allocated), file,
                    UpTo(file, i, Len(file.pages[i].refs)), allocated)
<1> DEFINE page == file.pages[i]
           n == Len(page.refs)
           f == CHOOSE g : IsFollowing(g, r, file, page, allocated, n)
           S == {k \in Nat : k <= n /\ ~IsParsed(f[k], file, UpTo(file, i, k), allocated)}
<1>1. n \in Nat /\ page \in LogPages /\ i \in Nat
  BY VisitsAre
<1>2. IsFollowing(f, r, file, page, allocated, n)
  <2>1. \E g : IsFollowing(g, r, file, page, allocated, n)
    BY <1>1, FollowingExists
  <2> QED
    BY <2>1
<1>3. ProcessRstrPage(r, file, page, allocated) = f[n]
  BY DEF ProcessRstrPage, IsFollowing
<1> HIDE DEF f, n
<1>4. \A k \in 0..n : f[k] = CASE k = 0 -> r
                               [] k > 0 /\ Refers(file, page, k) ->
                                     ProcessRcrdPage(f[k - 1], PageAt(file, page.refs[k]), allocated)
                               [] OTHER -> f[k - 1]
  BY <1>2 DEF IsFollowing
<1>5. ASSUME S # {} PROVE FALSE
  <2>1. PICK m \in S : \A k \in S : m <= k
    BY <1>5, LeastIs
  <2>2. m # 0
    <3>1. f[0] = r
      BY <1>1, <1>4
    <3> QED
      BY <2>1, <3>1
  <2>3. m - 1 \in Nat /\ m \in 1..n /\ IsParsed(f[m - 1], file, UpTo(file, i, m - 1), allocated)
    BY <2>1, <2>2, <1>1
  <2>4. f[m] = IF Refers(file, page, m) THEN ProcessRcrdPage(f[m - 1], PageAt(file, page.refs[m]), allocated)
               ELSE f[m - 1]
    BY <1>4, <2>1, <2>2, <1>1
  <2>5. \A v \in Visits(file) : v[1] \in Nat /\ v[2] \in Nat /\ v = <<v[1], v[2]>>
    BY VisitsAre
  <2>6. <<i, m>> \in Visits(file) <=> Refers(file, page, m)
    BY <1>1, <2>3, VisitsAre DEF n
  <2>7. CASE Refers(file, page, m)
    <3> DEFINE v == <<i, m>>
    <3>1. UpTo(file, i, m) = UpTo(file, i, m - 1) \cup {v} /\ v \notin UpTo(file, i, m - 1)
      BY <1>1, <2>3, <2>5, <2>6, <2>7 DEF UpTo
    <3>2. Visited(file, v) = PageAt(file, page.refs[m])
      BY <2>3 DEF Visited
    <3>3. Visited(file, v) \in LogPages
      BY <1>1, <2>3, <2>7, <3>2, ReferredAre DEF n
    <3>4. IsParsed(f[m], file, UpTo(file, i, m - 1) \cup {v}, allocated)
      BY <2>3, <2>4, <2>7, <3>1, <3>2, <3>3, RecordPageKeeps
    <3> QED
      BY <2>1, <3>1, <3>4
  <2>8. CASE ~Refers(file, page, m)
    <3>1. UpTo(file, i, m) = UpTo(file, i, m - 1)
      BY <1>1, <2>3, <2>5, <2>6, <2>8 DEF UpTo
    <3> QED
      BY <2>1, <2>3, <2>4, <2>8, <3>1
  <2> QED
    BY <2>7, <2>8
<1> QED
  BY <1>1, <1>3, <1>5 DEF n

LEMMA ParseFinds ==
    ASSUME NEW file \in LogFiles, NEW allocated
    PROVE  IsParsed(Parse(file, allocated), file, Visits(file), allocated)
<1> DEFINE n == Len(file.pages)
           f == CHOOSE g : IsScan(g, file, allocated, n)
           S == {k \in Nat : k <= n /\ ~IsParsed(f[k], file, UpTo(file, k + 1, -1), allocated)}
<1>1. n \in Nat
  BY DEF LogFiles
<1>2. IsScan(f, file, allocated, n)
  <2>1. \E g : IsScan(g, file, allocated, n)
    BY <1>1, ScanExists
  <2> QED
    BY <2>1
<1>3. Parse(file, allocated) = f[n]
  BY DEF Parse, IsScan
<1> HIDE DEF f, n
<1>4. \A k \in 0..n : f[k] = IF k = 0 THEN EmptyResult ELSE ScanPage(f[k - 1], file, file.pages[k], allocated)
  BY <1>2 DEF IsScan
<1>5. \A v \in Visits(file) : v[1] \in 1..n /\ v[2] \in Nat /\ v = <<v[1], v[2]>>
  BY VisitsAre DEF n
<1>6. ASSUME S # {} PROVE FALSE
  <2>1. PICK m \in S : \A k \in S : m <= k
    BY <1>6, LeastIs
  <2>2. m # 0
    <3>1. f[0] = EmptyResult
      BY <1>1, <1>4
    <3>2. UpTo(file, 1, -1) = {}
      BY <1>1, <1>5 DEF UpTo
    <3>3. FindsAt(file, {}, allocated) = {}
      BY DEF FindsAt
    <3>4. IsParsed(EmptyResult, file, {}, allocated)
      <4>1. UsnsOf(<<>>) = {} /\ <<>> \in Seq(Ghosts) /\ Len(<<>>) = 0
        BY NoElements DEF UsnsOf
      <4>2. EmptyResult.ghosts = <<>> /\ EmptyResult.found = 0
        BY DEF EmptyResult
      <4>3. IsFiniteSet({}) /\ Cardinality({}) = 0
        BY FS_EmptySet
      <4> QED
        BY <3>3, <4>1, <4>2, <4>3 DEF IsParsed
    <3> QED
      BY <2>1, <3>1, <3>2, <3>4
  <2>3. m - 1 \in Nat /\ m \in 1..n /\ m \in Nat /\ IsParsed(f[m - 1], file, UpTo(file, m, -1), allocated)
    <3>1. m - 1 \in Nat /\ m \in 1..n /\ (m - 1) + 1 = m /\ m - 1 \notin S
      BY <2>1, <2>2, <1>1
    <3> QED
      BY <1>1, <2>1, <3>1
  <2>4. f[m] = ScanPage(f[m - 1], file, file.pages[m], allocated)
    BY <1>4, <2>3
  <2> DEFINE page == file.pages[m]
  <2>5. page \in LogPages /\ Len(page.refs) \in Nat
    BY <2>3, VisitsAre DEF n
  <2>6. \A k \in Nat : <<m, k>> \in Visits(file) <=>
            \/ page.signature = "RCRD" /\ k = 0
            \/ page.signature = "RSTR" /\ k \in 1..Len(page.refs) /\ Refers(file, page, k)
    BY <2>3, VisitsAre DEF n
  <2>7. CASE page.signature = "RCRD"
    <3> DEFINE v == <<m, 0>>
    <3>1. UpTo(file, m + 1, -1) = UpTo(file, m, -1) \cup {v} /\ v \notin UpTo(file, m, -1)
      BY <1>1, <1>5, <2>3, <2>6, <2>7 DEF UpTo
    <3>2. Visited(file, v) = page
      BY DEF Visited
    <3>3. f[m] = ProcessRcrdPage(f[m - 1], Visited(file, v), allocated)
      BY <2>4, <2>7, <3>2 DEF ScanPage
    <3>4. IsParsed(f[m], file, UpTo(file, m, -1) \cup {v}, allocated)
      BY <2>3, <2>5, <3>1, <3>2, <3>3, RecordPageKeeps
    <3> QED
      BY <2>1, <3>1, <3>4
  <2>8. CASE page.signature = "RSTR"
    <3>1. UpTo(file, m, -1) = UpTo(file, m, 0) /\ UpTo(file, m, Len(page.refs)) = UpTo(file, m + 1, -1)
      BY <1>1, <1>5, <2>3, <2>5, <2>6, <2>8 DEF UpTo
    <3>2. f[m] = ProcessRstrPage(f[m - 1], file, page, allocated)
      BY <2>4, <2>8 DEF ScanPage
    <3>3. IsParsed(f[m], file, UpTo(file, m, Len(page.refs)), allocated)
      BY <2>3, <2>8, <3>1, <3>2, RestartPageKeeps DEF n
    <3> QED
      BY <2>1, <3>1, <3>3
  <2>9. CASE page.signature \notin {"RCRD", "RSTR"}
    <3>1. UpTo(file, m, -1) = UpTo(file, m + 1, -1)
      BY <1>1, <1>5, <2>3, <2>6, <2>9 DEF UpTo
    <3>2. f[m] = f[m - 1]
      BY <2>4, <2>9 DEF ScanPage
    <3> QED
      BY <2>1, <2>3, <3>1, <3>2
  <2> QED
    BY <2>7, <2>8, <2>9
<1>7. IsParsed(f[n], file, UpTo(file, n + 1, -1), allocated)
  BY <1>1, <1>6
<1>8. UpTo(file, n + 1, -1) = Visits(file)
  BY <1>1, <1>5 DEF UpTo
<1> QED
  BY <1>3, <1>7, <1>8

LEMMA GhostsShow == VolumeInv => GhostsAreWhatIsMissing
<1> SUFFICES ASSUME VolumeInv, stage \notin {"reading", "panicked"} PROVE GhostsAreWhatIsMissing
  BY DEF GhostsAreWhatIsMissing
<1>1. log = Parse(logFile, Usns) /\ logFile \in LogFiles
  BY DEF VolumeInv, ExaminationTypes, LogIsParsed
<1>2. IsParsed(log, logFile, Visits(logFile), Usns)
  BY <1>1, ParseFinds
<1>3. Usns = {r.usn : r \in ToSet(records)}
  BY DEF Usns, ToSet
<1>4. FindsAt(logFile, Visits(logFile), Usns) = Finds(logFile, Usns)
  BY DEF FindsAt, Finds
<1> QED
  BY <1>2, <1>3, <1>4 DEF GhostsAreWhatIsMissing, IsParsed, UsnsOf

LEMMA VolumeInvariant == InitVolume /\ [][NextVolume]_volumeVars => []VolumeInv
<1>1. InitVolume => VolumeInv
  BY VolumeStarts
<1>2. VolumeInv /\ [NextVolume]_volumeVars => VolumeInv'
  BY VolumeKeeps
<1> QED
  BY <1>1, <1>2, PTL

(* For any log file and any journal records: the ghosts are exactly the records *)
(* in redo data and behind a stop that the journal lacks, on the pages the scan *)
(* and the restart pages come to, and each is there as often as its page is     *)
(* come to.                                                                     *)
THEOREM GhostsAreExact == InitVolume /\ [][NextVolume]_volumeVars => []GhostsAreWhatIsMissing
<1>1. VolumeInv => GhostsAreWhatIsMissing
  BY GhostsShow
<1> QED
  BY <1>1, VolumeInvariant, PTL

(* For any table, any journal records, any rewriting of records of the table    *)
(* between two reads and any failure of reads: of an event whose record was     *)
(* left alone, a sequence anomaly is an orphan, and an orphan's record was not  *)
(* listed under the event's sequence number.                                    *)
THEOREM MatchesAgree == InitVolume /\ [][NextVolume]_volumeVars => []AnomaliesAreOrphans
<1>1. VolumeInv => AnomaliesAreOrphans
  BY AnomaliesShow
<1> QED
  BY <1>1, VolumeInvariant, PTL
=============================================================================
