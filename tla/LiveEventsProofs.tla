------------------------- MODULE LiveEventsProofs -------------------------
(***************************************************************************)
(* For any events, channel sizes, subscriptions and investigations: what   *)
(* the views of the fabric lack is what total_dropped says, a timeline is  *)
(* what the consumer took, a copy for the UI is consistent, and what a     *)
(* stream of the router shows is in order and what its subscriber asked    *)
(* for, with counters that say what it was not given.                      *)
(***************************************************************************)
EXTENDS Platform, FrontendRouter, SequenceFacts

(* The event fabric and its views.                                          *)
FabricTypes ==
    /\ flow \in Seq(FlowSamples) /\ totalDropped \in Nat /\ subscribed \subseteq Views
    /\ fanout \in [event : Nat, toTry : SUBSET Views, dropped : BOOLEAN]
    /\ channel \in [Views -> Seq(Nat)] /\ since \in [Views -> Nat]
    /\ shown \in Seq(Nat) /\ consumed \in Seq(Nat)

FanoutRules ==
    /\ fanout.toTry \subseteq subscribed
    /\ fanout # Settled => fanout.event = emittedCount /\ emittedCount >= 1

\* What a view was given is in order and what was emitted since; who is still to be tried
\* has not got the event in hand.
ViewRow(v) ==
    /\ since[v] <= emittedCount
    /\ Rising(Given(v)) /\ ToSet(Given(v)) \subseteq Due(v)
    /\ v \notin subscribed => Given(v) = <<>>
    /\ v \in fanout.toTry => since[v] < emittedCount /\ emittedCount \notin ToSet(Given(v))

\* The events whose fan-out is over, and those of them that some view lacks.
FannedOut == IF fanout = Settled THEN emittedCount ELSE emittedCount - 1
LostToSome == UNION {Lacks(v) \cap 1..FannedOut : v \in subscribed}

DropsCounted ==
    /\ totalDropped = Cardinality(LostToSome)
    /\ fanout # Settled =>
          (fanout.dropped <=> \E v \in subscribed \ fanout.toTry : emittedCount \in Lacks(v))

FabricInv ==
    /\ FabricTypes /\ FanoutRules
    /\ \A v \in Views : ViewRow(v)
    /\ DropsCounted
-----------------------------------------------------------------------------
(* The fan-out.                                                              *)

LEMMA GivenTypes ==
    ASSUME FabricTypes, NEW v \in Views
    PROVE  /\ Given(v) \in Seq(Nat) /\ channel[v] \in Seq(Nat) /\ since[v] \in Nat
           /\ emittedCount \in Nat
           /\ DOMAIN Given(v) = 1..Len(Given(v)) /\ Len(Given(v)) \in Nat
<1>1. (IF v = "consumer" THEN consumed ELSE shown) \in Seq(Nat) /\ channel[v] \in Seq(Nat)
  BY DEF FabricTypes
<1>2. Given(v) \in Seq(Nat)
  BY <1>1, ConcatFacts DEF Given
<1> QED
  BY <1>1, <1>2 DEF FabricTypes, emittedCount

\* A number greater than all the others may be appended.
LEMMA RisingAppended ==
    ASSUME NEW q \in Seq(Nat), Rising(q), NEW n \in Nat, \A x \in ToSet(q) : x < n
    PROVE  Rising(Append(q, n)) /\ ToSet(Append(q, n)) = ToSet(q) \cup {n}
<1>1. /\ DOMAIN q = 1..Len(q) /\ Len(q) \in Nat
      /\ DOMAIN Append(q, n) = 1..Len(q) + 1
      /\ \A j \in 1..Len(q) : Append(q, n)[j] = q[j] /\ q[j] < n
      /\ Append(q, n)[Len(q) + 1] = n
  BY AppendFacts, ElementsOf
<1> QED
  BY <1>1, AppendFacts DEF Rising

LEMMA LossesAreFinite ==
    ASSUME FabricInv
    PROVE  IsFiniteSet(LostToSome) /\ FannedOut \in Int /\ LostToSome \subseteq 1..FannedOut
<1>1. FannedOut \in Int
  BY DEF FabricInv, FabricTypes, FannedOut, emittedCount
<1>2. LostToSome \in SUBSET (1..FannedOut)
  BY DEF LostToSome
<1>3. IsFiniteSet(1..FannedOut)
  BY <1>1, FS_Interval
<1> QED
  BY <1>1, <1>2, <1>3, FS_Subset

\* A step of somebody else, or one that moves what a view was given.
LEMMA FabricStays ==
    ASSUME FabricInv, FabricTypes', UNCHANGED <<flow, fanout, totalDropped, subscribed, since>>,
           \A v \in Views : Given(v)' = Given(v)
    PROVE  FabricInv'
<1>1. emittedCount' = emittedCount /\ FannedOut' = FannedOut
  BY DEF emittedCount, FannedOut
<1>2. \A v \in Views : Due(v)' = Due(v) /\ Lacks(v)' = Lacks(v)
  BY <1>1 DEF Due, Lacks
<1>3. FanoutRules'
  BY <1>1 DEF FabricInv, FanoutRules
<1>4. \A v \in Views : ViewRow(v)'
  BY <1>1, <1>2 DEF FabricInv, ViewRow
<1>5. LostToSome' = LostToSome
  BY <1>1, <1>2 DEF LostToSome, FabricInv, FabricTypes
<1>6. DropsCounted'
  BY <1>1, <1>2, <1>5 DEF FabricInv, DropsCounted, FabricTypes
<1> QED
  BY <1>3, <1>4, <1>6 DEF FabricInv

LEMMA FabricStarts == InitPlatform => FabricInv
<1> SUFFICES ASSUME InitPlatform PROVE FabricInv
  OBVIOUS
<1> USE DEF InitPlatform, InitFabric
<1>1. FabricTypes
  BY DEF FabricTypes, Settled
<1>2. emittedCount = 0 /\ FanoutRules
  BY DEF FanoutRules, emittedCount, Settled
<1>3. ASSUME NEW v \in Views PROVE ViewRow(v)
  <2>1. Given(v) = <<>>
    BY DEF Given
  <2> QED
    BY <1>2, <2>1 DEF ViewRow, Rising, ToSet, Settled
<1>4. LostToSome = {}
  BY DEF LostToSome
<1>5. DropsCounted
  BY <1>4, FS_EmptySet DEF DropsCounted
<1> QED
  BY <1>1, <1>2, <1>3, <1>5 DEF FabricInv

LEMMA EmitKeeps ==
    ASSUME FabricInv, NEW e \in FlowSamples, Emit(e), UNCHANGED consumed
    PROVE  FabricInv'
<1>1. PICK n \in Nat : n = emittedCount
  BY GivenTypes DEF FabricInv, FabricTypes, emittedCount
<1>2. /\ fanout = Settled /\ flow' = Append(flow, e) /\ flow \in Seq(FlowSamples)
      /\ fanout' = [event |-> Len(flow'), toTry |-> subscribed, dropped |-> FALSE]
      /\ UNCHANGED <<totalDropped, subscribed, channel, shown, since, consumed>>
  BY DEF Emit, FabricInv, FabricTypes
<1>3. /\ flow' \in Seq(FlowSamples) /\ emittedCount' = n + 1
      /\ fanout' # Settled /\ fanout'.event = n + 1 /\ fanout'.toTry = subscribed /\ ~fanout'.dropped
      /\ FannedOut = n /\ FannedOut' = n
  BY <1>1, <1>2 DEF emittedCount, Settled, FannedOut
<1>4. FabricTypes' /\ FanoutRules'
  BY <1>1, <1>2, <1>3 DEF FabricInv, FabricTypes, FanoutRules
<1>5. ASSUME NEW v \in Views
      PROVE  ViewRow(v)' /\ Lacks(v)' \cap 1..n = Lacks(v) \cap 1..n
  <2>1. since[v] \in Nat /\ since[v] <= n /\ Given(v)' = Given(v) /\ since'[v] = since[v]
    BY <1>1, <1>2, GivenTypes DEF FabricInv, ViewRow, Given
  <2>2. Due(v) = since[v] + 1..n /\ Due(v)' = since[v] + 1..n + 1
    BY <1>1, <1>3, <2>1 DEF Due
  <2>3. Due(v)' = Due(v) \cup {n + 1} /\ n + 1 \notin Due(v) /\ n + 1 \notin 1..n
    BY <1>1, <2>1, <2>2
  <2>4. Lacks(v)' \cap 1..n = Lacks(v) \cap 1..n
    BY <2>1, <2>3 DEF Lacks
  <2> QED
    BY <1>1, <1>2, <1>3, <2>1, <2>3, <2>4 DEF FabricInv, ViewRow
<1>6. LostToSome' = LostToSome
  BY <1>2, <1>3, <1>5 DEF LostToSome, FabricInv, FabricTypes
<1>7. DropsCounted'
  BY <1>2, <1>3, <1>6 DEF FabricInv, DropsCounted
<1> QED
  BY <1>4, <1>5, <1>7 DEF FabricInv

\* A view that comes lacks nothing but perhaps the event in hand.
LEMMA SubscribeKeeps ==
    ASSUME FabricInv, NEW v \in Views, Subscribe(v), UNCHANGED consumed
    PROVE  FabricInv'
<1>1. PICK n \in Nat : n = emittedCount
  BY GivenTypes DEF FabricInv, FabricTypes, emittedCount
<1>2. /\ v \notin subscribed /\ subscribed' = subscribed \cup {v}
      /\ UNCHANGED <<flow, totalDropped, channel, shown, consumed>>
      /\ emittedCount' = n /\ since \in [Views -> Nat]
      /\ fanout \in [event : Nat, toTry : SUBSET Views, dropped : BOOLEAN]
      /\ fanout # Settled => n >= 1 /\ fanout.event = n
  BY <1>1 DEF Subscribe, emittedCount, FabricInv, FabricTypes, FanoutRules
<1>3. PICK m \in Nat :
          /\ since' = [since EXCEPT ![v] = m] /\ m <= n
          /\ \/ m = n /\ fanout' = fanout
             \/ /\ m = n - 1 /\ n >= 1 /\ fanout # Settled
                /\ fanout' = [fanout EXCEPT !.toTry = @ \cup {v}]
  <2>1. CASE since' = [since EXCEPT ![v] = emittedCount] /\ UNCHANGED fanout
    <3>1. since' = [since EXCEPT ![v] = n] /\ n <= n
      BY <1>1, <2>1
    <3> QED
      BY <2>1, <3>1
  <2>2. CASE /\ fanout # Settled
             /\ fanout' = [fanout EXCEPT !.toTry = @ \cup {v}]
             /\ since' = [since EXCEPT ![v] = emittedCount - 1]
    <3>1. n - 1 \in Nat /\ n - 1 <= n /\ n >= 1
      BY <1>1, <1>2, <2>2
    <3>2. since' = [since EXCEPT ![v] = n - 1]
      BY <1>1, <2>2
    <3> QED
      BY <2>2, <3>1, <3>2
  <2> QED
    BY <2>1, <2>2 DEF Subscribe
<1>4. /\ fanout'.event = fanout.event /\ fanout'.dropped = fanout.dropped
      /\ fanout'.toTry = IF m = n THEN fanout.toTry ELSE fanout.toTry \cup {v}
      /\ fanout' \in [event : Nat, toTry : SUBSET Views, dropped : BOOLEAN]
      /\ (fanout' = Settled) <=> (fanout = Settled)
      /\ FannedOut' = FannedOut /\ FannedOut \in Int /\ (m < n => FannedOut < n)
  <2>1. CASE m = n /\ fanout' = fanout
    BY <1>1, <1>2, <2>1 DEF FannedOut
  <2>2. CASE m # n
    <3>1. fanout' = [fanout EXCEPT !.toTry = @ \cup {v}] /\ fanout # Settled /\ n >= 1
      BY <1>3, <2>2
    <3>2. fanout'.event = n /\ Settled.event = 0
      BY <1>2, <3>1 DEF Settled
    <3>3. fanout' # Settled
      <4>1. n # 0
        BY <1>1, <3>1
      <4> QED
        BY <3>2, <4>1, Zenon
    <3> QED
      BY <1>1, <1>2, <1>3, <2>2, <3>1, <3>3 DEF FannedOut
  <2>3. m = n => fanout' = fanout
    BY <1>1, <1>3
  <2> QED
    BY <2>1, <2>2, <2>3
<1>5. FabricTypes' /\ FanoutRules'
  <2>1. subscribed' \subseteq Views /\ since' \in [Views -> Nat]
    BY <1>2, <1>3 DEF FabricInv, FabricTypes
  <2>2. FabricTypes'
    BY <1>2, <1>4, <2>1 DEF FabricInv, FabricTypes
  <2>3. FanoutRules'
    BY <1>1, <1>2, <1>4 DEF FabricInv, FanoutRules
  <2> QED
    BY <2>2, <2>3
<1>6. ASSUME NEW w \in Views, w # v
      PROVE  ViewRow(w)' /\ Lacks(w)' = Lacks(w)
  <2>1. since'[w] = since[w] /\ Given(w)' = Given(w)
    BY <1>2, <1>3, <1>6 DEF Given
  <2>2. Due(w)' = Due(w) /\ Lacks(w)' = Lacks(w)
    BY <1>1, <1>2, <2>1 DEF Due, Lacks
  <2> QED
    BY <1>1, <1>2, <1>4, <1>6, <2>1, <2>2 DEF FabricInv, ViewRow
<1>7. ViewRow(v)' /\ Lacks(v)' = (IF m = n THEN {} ELSE {n}) /\ v \notin fanout.toTry
  <2>1. Given(v)' = <<>> /\ since'[v] = m /\ v \notin fanout.toTry
    BY <1>2, <1>3 DEF Given, FabricInv, ViewRow, FanoutRules
  <2>2. ToSet(<<>>) = {} /\ Rising(<<>>)
    BY NoElements DEF Rising
  <2>3. Due(v)' = IF m = n THEN {} ELSE {n}
    <3>1. Due(v)' = m + 1..n /\ (m = n \/ m = n - 1)
      BY <1>1, <1>2, <1>3, <2>1 DEF Due
    <3>2. CASE m = n
      BY <1>1, <3>1, <3>2
    <3>3. CASE m # n
      <4>1. m + 1 = n
        BY <1>1, <3>1, <3>3
      <4>2. n..n = {n}
        BY <1>1
      <4> QED
        BY <3>1, <3>3, <4>1, <4>2
    <3> QED
      BY <3>2, <3>3
  <2> QED
    BY <1>1, <1>2, <1>3, <1>4, <2>1, <2>2, <2>3 DEF ViewRow, Lacks
<1>8. LostToSome' = LostToSome
  <2>1. Lacks(v)' \cap 1..FannedOut = {}
    BY <1>3, <1>4, <1>7
  <2>2. \A w \in subscribed : Lacks(w)' = Lacks(w)
    BY <1>2, <1>6 DEF FabricInv, FabricTypes
  <2>3. LostToSome' = UNION {Lacks(w)' \cap 1..FannedOut : w \in subscribed \cup {v}}
    BY <1>2, <1>4 DEF LostToSome
  <2>4. LostToSome' = (UNION {Lacks(w)' \cap 1..FannedOut : w \in subscribed})
                      \cup (Lacks(v)' \cap 1..FannedOut)
    BY <2>3
  <2> QED
    BY <2>1, <2>2, <2>4 DEF LostToSome
<1>9. DropsCounted'
  <2>1. fanout # Settled =>
          (fanout'.dropped <=> \E w \in subscribed' \ fanout'.toTry : n \in Lacks(w)')
    <3>1. fanout # Settled => (fanout.dropped <=> \E w \in subscribed \ fanout.toTry : n \in Lacks(w))
      BY <1>1 DEF FabricInv, DropsCounted
    <3>2. v \in fanout'.toTry \/ n \notin Lacks(v)'
      BY <1>4, <1>7
    <3>3. \A w \in subscribed : w \in Views /\ w # v
      BY <1>2 DEF FabricInv, FabricTypes
    <3>4. \A w \in subscribed : w \in fanout'.toTry <=> w \in fanout.toTry
      BY <1>4, <3>3
    <3> QED
      BY <1>2, <1>4, <1>6, <3>1, <3>2, <3>3, <3>4
  <2> QED
    BY <1>2, <1>4, <1>8, <2>1 DEF FabricInv, DropsCounted
<1> QED
  BY <1>5, <1>6, <1>7, <1>9 DEF FabricInv

\* The event in hand is given to a view, or some view lacks it.
LEMMA TrySendKeeps ==
    ASSUME FabricInv, NEW v \in Views, TrySend(v), UNCHANGED consumed
    PROVE  FabricInv'
<1>1. PICK n \in Nat : n = emittedCount
  BY GivenTypes DEF FabricInv, FabricTypes, emittedCount
<1> DEFINE room == Len(channel[v]) < ViewCapacity
<1>2. /\ v \in fanout.toTry /\ v \in subscribed
      /\ fanout' = [fanout EXCEPT !.toTry = @ \ {v}, !.dropped = @ \/ ~room]
      /\ channel' = [channel EXCEPT ![v] = IF room THEN Append(@, fanout.event) ELSE @]
      /\ UNCHANGED <<flow, totalDropped, subscribed, shown, since, consumed>>
  BY DEF TrySend, FabricInv, FanoutRules
<1>3. /\ fanout # Settled /\ fanout.event = n /\ n >= 1 /\ emittedCount' = n
      /\ fanout \in [event : Nat, toTry : SUBSET Views, dropped : BOOLEAN]
      /\ channel \in [Views -> Seq(Nat)] /\ channel[v] \in Seq(Nat) /\ subscribed \subseteq Views
  <2>1. fanout # Settled
    BY <1>2 DEF Settled
  <2> QED
    BY <1>1, <1>2, <2>1 DEF emittedCount, FabricInv, FabricTypes, FanoutRules
<1>4. /\ channel'[v] = IF room THEN Append(channel[v], n) ELSE channel[v]
      /\ channel' \in [Views -> Seq(Nat)]
      /\ \A w \in Views : w # v => channel'[w] = channel[w]
  <2>1. Append(channel[v], n) \in Seq(Nat)
    BY <1>1, <1>3, AppendFacts
  <2> QED
    BY <1>2, <1>3, <2>1
<1> HIDE DEF room
<1>5. /\ fanout'.event = n /\ fanout'.toTry = fanout.toTry \ {v}
      /\ fanout'.dropped <=> (fanout.dropped \/ ~room)
      /\ fanout' \in [event : Nat, toTry : SUBSET Views, dropped : BOOLEAN]
  <2>1. (fanout.dropped \/ ~room) \in BOOLEAN
    OBVIOUS
  <2>2. fanout' \in [event : Nat, toTry : SUBSET Views, dropped : BOOLEAN]
    BY <1>2, <1>3, <2>1
  <2>3. fanout'.event = n /\ fanout'.toTry = fanout.toTry \ {v}
    BY <1>2, <1>3
  <2>4. fanout'.dropped = (fanout.dropped \/ ~room)
    BY <1>2, <1>3
  <2> QED
    BY <2>2, <2>3, <2>4
<1>6. fanout' # Settled /\ FannedOut' = FannedOut /\ FannedOut = n - 1
  <2>1. fanout' # Settled
    BY <1>3, <1>5 DEF Settled
  <2> QED
    BY <1>1, <1>3, <2>1 DEF FannedOut
<1>7. FabricTypes' /\ FanoutRules'
  <2>1. FabricTypes'
    BY <1>2, <1>4, <1>5 DEF FabricInv, FabricTypes
  <2>2. FanoutRules'
    BY <1>2, <1>3, <1>5 DEF FabricInv, FanoutRules
  <2> QED
    BY <2>1, <2>2
<1>8. ASSUME NEW w \in Views PROVE Due(w)' = Due(w)
  BY <1>1, <1>2, <1>3 DEF Due
<1>9. ASSUME NEW w \in Views, w # v
      PROVE  Given(w)' = Given(w) /\ Lacks(w)' = Lacks(w) /\ ViewRow(w)'
  <2>1. Given(w)' = Given(w)
    BY <1>2, <1>4, <1>9 DEF Given
  <2>2. Lacks(w)' = Lacks(w)
    BY <1>8, <2>1 DEF Lacks
  <2> QED
    BY <1>1, <1>2, <1>3, <1>5, <1>8, <1>9, <2>1, <2>2 DEF FabricInv, ViewRow
<1>10. /\ ViewRow(v) /\ since[v] < n /\ n \notin ToSet(Given(v)) /\ n \in Due(v)
       /\ Given(v) \in Seq(Nat) /\ Due(v) \subseteq 1..n /\ \A x \in ToSet(Given(v)) : x < n
  <2>1. ViewRow(v) /\ since[v] < n /\ n \notin ToSet(Given(v))
    BY <1>1, <1>2 DEF FabricInv, ViewRow
  <2>2. since[v] \in Nat /\ Due(v) = since[v] + 1..n /\ Given(v) \in Seq(Nat)
    BY <1>1, GivenTypes DEF Due, FabricInv
  <2>3. n \in Due(v) /\ Due(v) \subseteq 1..n
    BY <1>1, <2>1, <2>2
  <2>4. ASSUME NEW x \in ToSet(Given(v)) PROVE x < n
    <3>1. x \in 1..n /\ x # n
      BY <2>1, <2>3, <2>4 DEF ViewRow
    <3> QED
      BY <1>1, <3>1
  <2> QED
    BY <2>1, <2>2, <2>3, <2>4
<1>11. /\ ViewRow(v)' /\ Lacks(v)' \cap 1..n - 1 = Lacks(v) \cap 1..n - 1
       /\ (n \in Lacks(v)') <=> ~room
  <2>1. CASE room
    <3>1. Given(v)' = Append(Given(v), n)
      <4>1. PICK had \in Seq(Nat) : had = IF v = "consumer" THEN consumed ELSE shown
        BY DEF FabricInv, FabricTypes
      <4>2. \A a, b \in Seq(Nat) : a \o Append(b, n) = Append(a \o b, n)
        BY <1>1
      <4>3. Given(v) = had \o channel[v] /\ Given(v)' = had \o channel'[v]
        BY <1>2, <4>1 DEF Given
      <4>4. channel'[v] = Append(channel[v], n)
        BY <1>4, <2>1
      <4> QED
        BY <1>3, <4>1, <4>2, <4>3, <4>4
    <3>2. Rising(Given(v)') /\ ToSet(Given(v)') = ToSet(Given(v)) \cup {n}
      BY <1>1, <1>10, <3>1, RisingAppended DEF ViewRow
    <3>3. Lacks(v)' = Lacks(v) \ {n} /\ n \notin 1..n - 1
      BY <1>1, <1>8, <3>2 DEF Lacks
    <3>4. ViewRow(v)'
      <4>1. since'[v] <= emittedCount' /\ v \in subscribed'
        BY <1>1, <1>2, <1>3, <1>10 DEF ViewRow
      <4>2. ToSet(Given(v)') \subseteq Due(v)'
        BY <1>8, <1>10, <3>2 DEF ViewRow
      <4>3. v \notin fanout'.toTry
        BY <1>5
      <4> QED
        BY <3>2, <4>1, <4>2, <4>3 DEF ViewRow
    <3> QED
      BY <2>1, <3>3, <3>4
  <2>2. CASE ~room
    <3>1. Given(v)' = Given(v) /\ Lacks(v)' = Lacks(v)
      BY <1>2, <1>4, <1>8, <2>2 DEF Given, Lacks
    <3>2. ViewRow(v)'
      BY <1>1, <1>2, <1>3, <1>5, <1>8, <1>10, <3>1 DEF ViewRow
    <3> QED
      BY <1>10, <2>2, <3>1, <3>2 DEF Lacks
  <2> QED
    BY <2>1, <2>2
<1>12. LostToSome' = LostToSome
  <2>1. \A w \in subscribed : Lacks(w)' \cap 1..n - 1 = Lacks(w) \cap 1..n - 1
    BY <1>3, <1>9, <1>11
  <2> QED
    BY <1>2, <1>6, <2>1 DEF LostToSome
<1>13. DropsCounted'
  <2>1. fanout.dropped <=> \E w \in subscribed \ fanout.toTry : n \in Lacks(w)
    BY <1>1, <1>3 DEF FabricInv, DropsCounted
  <2>2. \A w \in subscribed : w # v => Lacks(w)' = Lacks(w)
    BY <1>3, <1>9
  <2>3. fanout'.dropped <=> \E w \in subscribed \ fanout'.toTry : n \in Lacks(w)'
    BY <1>2, <1>5, <1>11, <2>1, <2>2
  <2> QED
    BY <1>2, <1>3, <1>12, <2>3 DEF FabricInv, DropsCounted
<1> QED
  BY <1>7, <1>9, <1>11, <1>13 DEF FabricInv

\* emit counts the event once, whoever lacks it.
LEMMA ReturnKeeps ==
    ASSUME FabricInv, EmitReturns, UNCHANGED consumed
    PROVE  FabricInv'
<1>1. PICK n \in Nat : n = emittedCount
  BY GivenTypes DEF FabricInv, FabricTypes, emittedCount
<1>2. /\ fanout # Settled /\ fanout.toTry = {} /\ fanout' = Settled
      /\ totalDropped' = IF fanout.dropped THEN totalDropped + 1 ELSE totalDropped
      /\ UNCHANGED <<flow, subscribed, channel, shown, since, consumed>>
      /\ emittedCount' = n /\ n >= 1 /\ totalDropped \in Nat
      /\ Settled.toTry = {} /\ Settled \in [event : Nat, toTry : SUBSET Views, dropped : BOOLEAN]
  BY <1>1 DEF EmitReturns, emittedCount, FabricInv, FabricTypes, FanoutRules, Settled
<1>3. FabricTypes' /\ FanoutRules'
  <2>1. FabricTypes'
    BY <1>2 DEF FabricInv, FabricTypes
  <2>2. FanoutRules'
    BY <1>2 DEF FabricInv, FanoutRules
  <2> QED
    BY <2>1, <2>2
<1>4. ASSUME NEW v \in Views
      PROVE  Given(v)' = Given(v) /\ Due(v)' = Due(v) /\ Lacks(v)' = Lacks(v) /\ ViewRow(v)'
  <2>1. Given(v)' = Given(v) /\ Due(v)' = Due(v) /\ Lacks(v)' = Lacks(v)
    BY <1>1, <1>2 DEF Given, Due, Lacks
  <2> QED
    BY <1>1, <1>2, <2>1 DEF FabricInv, ViewRow
<1>5. FannedOut = n - 1 /\ FannedOut' = n /\ subscribed \subseteq Views
  BY <1>1, <1>2 DEF FannedOut, FabricInv, FabricTypes
<1>6. 1..n = (1..n - 1) \cup {n} /\ n \notin 1..n - 1
  BY <1>1, <1>2
<1>7. LostToSome' = UNION {Lacks(v) \cap 1..n : v \in subscribed}
  BY <1>2, <1>4, <1>5 DEF LostToSome
<1>8. LostToSome' = LostToSome \cup (IF fanout.dropped THEN {n} ELSE {})
  <2>1. fanout.dropped <=> \E v \in subscribed : n \in Lacks(v)
    BY <1>1, <1>2 DEF FabricInv, DropsCounted
  <2>2. LostToSome = UNION {Lacks(v) \cap 1..n - 1 : v \in subscribed}
    BY <1>5 DEF LostToSome
  <2> QED
    BY <1>6, <1>7, <2>1, <2>2
<1>9. DropsCounted'
  <2>1. IsFiniteSet(LostToSome) /\ n \notin LostToSome
    BY <1>5, <1>6, LossesAreFinite
  <2>2. Cardinality(LostToSome') = IF fanout.dropped THEN Cardinality(LostToSome) + 1
                                                     ELSE Cardinality(LostToSome)
    BY <1>8, <2>1, FS_AddElement
  <2> QED
    BY <1>2, <2>2 DEF FabricInv, DropsCounted
<1> QED
  BY <1>3, <1>4, <1>9 DEF FabricInv

\* Taking moves an event to where the view has it.
LEMMA TakeKeeps ==
    ASSUME FabricInv, NEW v \in Views, TakeFrom(v),
           consumed' = IF v = "consumer" THEN Append(consumed, Head(channel[v])) ELSE consumed
    PROVE  FabricInv'
<1>1. /\ channel \in [Views -> Seq(Nat)] /\ channel[v] \in Seq(Nat) /\ channel[v] # <<>>
      /\ channel' = [channel EXCEPT ![v] = Tail(@)]
      /\ shown' = IF v = "streamer" THEN Append(shown, Head(channel[v])) ELSE shown
      /\ UNCHANGED <<flow, fanout, totalDropped, subscribed, since>>
      /\ shown \in Seq(Nat) /\ consumed \in Seq(Nat)
  BY DEF TakeFrom, FabricInv, FabricTypes
<1>2. Head(channel[v]) \in Nat /\ Tail(channel[v]) \in Seq(Nat)
  BY <1>1, HeadTailFacts
<1>3. FabricTypes'
  BY <1>1, <1>2 DEF FabricInv, FabricTypes
<1>4. Given(v)' = Given(v)
  <2>1. /\ Append(consumed, Head(channel[v])) \o Tail(channel[v]) = consumed \o channel[v]
        /\ Append(shown, Head(channel[v])) \o Tail(channel[v]) = shown \o channel[v]
    BY <1>1, HandOver
  <2> QED
    BY <1>1, <2>1 DEF Given, Views
<1>5. ASSUME NEW w \in Views, w # v PROVE Given(w)' = Given(w)
  <2>1. channel'[w] = channel[w]
    BY <1>1, <1>5
  <2>2. CASE w = "consumer"
    BY <1>5, <2>1, <2>2 DEF Given
  <2>3. CASE w = "streamer"
    BY <1>1, <1>5, <2>1, <2>3 DEF Given
  <2> QED
    BY <2>2, <2>3 DEF Views
<1> QED
  BY <1>1, <1>3, <1>4, <1>5, FabricStays

LEMMA FabricKeeps ==
    ASSUME FabricInv, NextPlatform
    PROVE  FabricInv'
<1>1. CASE NextFabric /\ UNCHANGED consumed
  <2>1. ASSUME NEW v \in Views, v = "streamer", TakeFrom(v) PROVE FabricInv'
    BY <1>1, <2>1, TakeKeeps
  <2> QED
    BY <1>1, <2>1, EmitKeeps, SubscribeKeeps, TrySendKeeps, ReturnKeeps DEF NextFabric, Views
<1>2. CASE Consume
  <2>1. ASSUME NEW v \in Views, v = "consumer" PROVE FabricInv'
    BY <1>2, <2>1, TakeKeeps DEF Consume
  <2> QED
    BY <2>1 DEF Views
<1>3. CASE UNCHANGED <<fabricVars, consumed>>
  <2>1. FabricTypes' /\ \A v \in Views : Given(v)' = Given(v)
    BY <1>3 DEF FabricInv, FabricTypes, Given, fabricVars
  <2> QED
    BY <1>3, <2>1, FabricStays DEF fabricVars
<1> QED
  BY <1>1, <1>2, <1>3 DEF NextPlatform

LEMMA FabricShows ==
    ASSUME FabricInv
    PROVE  ViewsDifferByDrops
<1> SUFFICES ASSUME fanout = Settled
             PROVE  /\ totalDropped = Cardinality(UNION {Lacks(v) : v \in subscribed})
                    /\ \A v \in subscribed : Rising(Given(v)) /\ ToSet(Given(v)) \subseteq Due(v)
  BY DEF ViewsDifferByDrops
<1>1. subscribed \subseteq Views /\ FannedOut = emittedCount
  BY DEF FabricInv, FabricTypes, FannedOut
<1>2. ASSUME NEW v \in subscribed PROVE Lacks(v) \cap 1..FannedOut = Lacks(v)
  <2>1. Lacks(v) \subseteq since[v] + 1..emittedCount /\ since[v] \in Nat /\ emittedCount \in Nat
    BY <1>1, GivenTypes DEF Lacks, Due, FabricInv
  <2> QED
    BY <1>1, <2>1
<1>3. LostToSome = UNION {Lacks(v) : v \in subscribed}
  BY <1>2 DEF LostToSome
<1> QED
  BY <1>1, <1>3 DEF FabricInv, DropsCounted, ViewRow
-----------------------------------------------------------------------------
(* The pass over the investigations.                                         *)

CaseTypes ==
    /\ \E k \in 0..MaxInvestigations : investigations = 1..k
    /\ timeline \in [Cases -> Seq(Nat)] /\ evidence \in [Cases -> Seq(Nat)]
    /\ joined \in [Cases -> Nat]
    /\ routing \in [event : Nat, toVisit : SUBSET Cases, attaching : Nat]
    /\ uiReader \in [case : Nat, copied : 0..2, evidence : Seq(Nat), timeline : Seq(Nat)]

\* The event of a pass is the latest that was consumed.
PassRules ==
    /\ routing.toVisit \subseteq investigations
    /\ routing.attaching \in investigations \cup {Nobody}
    /\ routing # AtRest => consumed # <<>> /\ routing.event = consumed[Len(consumed)]

CaseRow(i) ==
    /\ joined[i] + Pending(i) <= Len(consumed)
    /\ timeline[i] = SubSeq(consumed, joined[i] + 1, Len(consumed) - Pending(i))
    /\ Rising(evidence[i] \o Attaching(i))
    /\ ToSet(evidence[i] \o Attaching(i)) = Deserving(timeline[i], flow)

\* An investigation to come has nothing yet.
CaseRows ==
    /\ \A i \in investigations : CaseRow(i)
    /\ \A i \in Cases \ investigations : timeline[i] = <<>> /\ evidence[i] = <<>>

\* The evidence is copied first, and evidence is on the timeline before it is evidence.
CopyRules ==
    /\ uiReader.copied > 0 => uiReader.case # Nobody
    /\ uiReader.case \in investigations \cup {Nobody}
    /\ uiReader.copied = 1 => IsBeginning(uiReader.evidence, Deserving(timeline[uiReader.case], flow))
    /\ uiReader.copied = 2 =>
          /\ ToSet(uiReader.timeline) \subseteq 1..Len(flow)
          /\ IsBeginning(uiReader.evidence, Deserving(uiReader.timeline, flow))

CasesInv == CaseTypes /\ PassRules /\ CaseRows /\ CopyRules

PlatformInv == FabricInv /\ CasesInv
-----------------------------------------------------------------------------
\* The first part of a rising sequence is a beginning of it.
LEMMA BeginningOfConcat ==
    ASSUME NEW a \in Seq(Nat), NEW b \in Seq(Nat), Rising(a \o b)
    PROVE  IsBeginning(a, ToSet(a \o b))
<1>1. /\ Len(a) \in Nat /\ Len(b) \in Nat /\ DOMAIN a = 1..Len(a) /\ DOMAIN b = 1..Len(b)
      /\ DOMAIN (a \o b) = 1..Len(a) + Len(b)
      /\ \A i \in 1..Len(a) : (a \o b)[i] = a[i]
      /\ \A i \in 1..Len(b) : (a \o b)[Len(a) + i] = b[i]
      /\ ToSet(a \o b) = ToSet(a) \cup ToSet(b)
  BY ConcatFacts, ElementsOf
<1>2. Rising(a) /\ ToSet(a) \subseteq ToSet(a \o b)
  <2>1. \A i \in 1..Len(a) : i \in DOMAIN (a \o b)
    BY <1>1
  <2>2. Rising(a)
    <3> SUFFICES ASSUME NEW i \in 1..Len(a), NEW j \in 1..Len(a), i < j PROVE a[i] < a[j]
      BY <1>1 DEF Rising
    <3>1. i \in DOMAIN (a \o b) /\ j \in DOMAIN (a \o b)
      BY <2>1
    <3>2. (a \o b)[i] < (a \o b)[j]
      BY <3>1 DEF Rising
    <3>3. (a \o b)[i] = a[i] /\ (a \o b)[j] = a[j]
      BY <1>1
    <3> QED
      BY <3>2, <3>3
  <2> QED
    BY <1>1, <2>2
<1>3. ASSUME NEW m \in ToSet(a), NEW n \in ToSet(b) PROVE m < n
  <2>1. PICK i \in 1..Len(a), j \in 1..Len(b) : a[i] = m /\ b[j] = n
    <3>1. \E i \in 1..Len(a) : a[i] = m
      BY <1>3, ElementsOf
    <3>2. \E j \in 1..Len(b) : b[j] = n
      BY <1>3, ElementsOf
    <3> QED
      BY <3>1, <3>2
  <2>2. /\ i \in DOMAIN (a \o b) /\ Len(a) + j \in DOMAIN (a \o b) /\ i < Len(a) + j
    BY <1>1
  <2>3. (a \o b)[i] = m /\ (a \o b)[Len(a) + j] = n
    BY <1>1, <2>1
  <2> QED
    BY <2>2, <2>3 DEF Rising
<1> QED
  BY <1>1, <1>2, <1>3 DEF IsBeginning

\* What the consumer took is in order and was emitted.
LEMMA ConsumedFacts ==
    ASSUME FabricInv
    PROVE  /\ consumed \in Seq(Nat) /\ flow \in Seq(FlowSamples) /\ Rising(consumed)
           /\ ToSet(consumed) \subseteq 1..Len(flow)
           /\ Len(consumed) \in Nat /\ DOMAIN consumed = 1..Len(consumed) /\ Len(flow) \in Nat
<1> DEFINE v == "consumer"
<1>1. /\ consumed \in Seq(Nat) /\ flow \in Seq(FlowSamples) /\ v \in Views /\ ViewRow(v)
      /\ channel[v] \in Seq(Nat) /\ since[v] \in Nat /\ Given(v) = consumed \o channel[v]
  BY GivenTypes DEF FabricInv, FabricTypes, Views, Given
<1>2. /\ DOMAIN consumed = 1..Len(consumed) /\ Len(consumed) \in Nat /\ Len(channel[v]) \in Nat
      /\ DOMAIN Given(v) = 1..Len(consumed) + Len(channel[v])
      /\ \A j \in 1..Len(consumed) : Given(v)[j] = consumed[j]
      /\ ToSet(Given(v)) = ToSet(consumed) \cup ToSet(channel[v])
  <2>1. PICK a, b \in Seq(Nat) : a = consumed /\ b = channel[v]
    BY <1>1
  <2>2. /\ a \o b \in Seq(Nat) /\ Len(a \o b) = Len(a) + Len(b) /\ Len(a) \in Nat /\ Len(b) \in Nat
        /\ DOMAIN a = 1..Len(a) /\ DOMAIN (a \o b) = 1..Len(a \o b)
        /\ \A j \in 1..Len(a) : (a \o b)[j] = a[j]
        /\ ToSet(a \o b) = ToSet(a) \cup ToSet(b)
    BY ConcatFacts, ElementsOf
  <2> QED
    BY <1>1, <2>1, <2>2
<1>3. Rising(consumed)
  <2>1. PICK a, b \in Seq(Nat) : a = consumed /\ b = channel[v]
    BY <1>1
  <2>2. Rising(a \o b)
    BY <1>1, <2>1 DEF ViewRow
  <2> QED
    BY <2>1, <2>2, BeginningOfConcat DEF IsBeginning
<1>4. Due(v) \subseteq 1..Len(flow) /\ Len(flow) \in Nat
  BY <1>1 DEF Due, emittedCount
<1>5. ToSet(consumed) \subseteq 1..Len(flow)
  BY <1>1, <1>2, <1>4 DEF ViewRow
<1> QED
  BY <1>1, <1>2, <1>3, <1>5

LEMMA InPiece ==
    ASSUME NEW q \in Seq(Nat), NEW j \in Nat, NEW m \in Nat, j <= m, m <= Len(q), NEW e
    PROVE  e \in ToSet(SubSeq(q, j + 1, m)) <=> \E k \in j + 1..m : q[k] = e
BY SMTT(60), PieceFacts

\* Those of an investigation's timeline, and that the latest event is greater.
LEMMA RowFacts ==
    ASSUME FabricInv, CaseTypes, NEW i \in investigations, CaseRow(i)
    PROVE  /\ i \in Cases /\ i \in Nat /\ i # Nobody /\ joined[i] \in Nat /\ Pending(i) \in {0, 1}
           /\ timeline[i] \in Seq(Nat) /\ evidence[i] \in Seq(Nat) /\ Attaching(i) \in Seq(Nat)
           /\ ToSet(timeline[i]) \subseteq ToSet(consumed)
           /\ Pending(i) = 1 => \A x \in ToSet(timeline[i]) : x < consumed[Len(consumed)]
<1>1. /\ i \in Cases /\ i \in Nat /\ i # Nobody
      /\ joined[i] \in Nat /\ Pending(i) \in {0, 1}
      /\ timeline[i] \in Seq(Nat) /\ evidence[i] \in Seq(Nat) /\ routing.event \in Nat
  BY InvestigationsAssumption DEF CaseTypes, Cases, Nobody, Pending
<1>2. Attaching(i) \in Seq(Nat)
  BY <1>1 DEF Attaching
<1>3. PICK j, p, m \in Nat : j = joined[i] /\ p = Pending(i) /\ m = Len(consumed)
  BY <1>1, ConsumedFacts
<1>4. /\ j + p <= m /\ timeline[i] = SubSeq(consumed, j + 1, m - p)
      /\ consumed \in Seq(Nat) /\ DOMAIN consumed = 1..m /\ Rising(consumed)
  BY <1>3, ConsumedFacts DEF CaseRow
<1>6. ASSUME NEW x \in ToSet(timeline[i])
      PROVE  x \in ToSet(consumed) /\ (p = 1 => x < consumed[m])
  <2>1. PICK k \in j + 1..m - p : consumed[k] = x
    <3>0. j + p <= m
      BY <1>4
    <3>1. PICK d \in Nat : d = m - p /\ j <= d /\ d <= m
      BY <3>0
    <3>2. consumed \in Seq(Nat) /\ d <= Len(consumed) /\ x \in ToSet(SubSeq(consumed, j + 1, d))
      BY <1>3, <1>4, <1>6, <3>1
    <3>3. x \in ToSet(SubSeq(consumed, j + 1, d)) <=> \E k \in j + 1..d : consumed[k] = x
      <4>1. consumed \in Seq(Nat) /\ j \in Nat /\ d \in Nat /\ j <= d /\ d <= Len(consumed)
        BY <3>1, <3>2
      <4> QED
        BY SMTT(60), <4>1, InPiece
    <3>4. \E k \in j + 1..d : consumed[k] = x
      BY <3>2, <3>3
    <3> QED
      BY <3>1, <3>4
  <2>2. k \in 1..m
    BY <1>3
  <2>3. x \in ToSet(consumed)
    BY <1>4, <2>1, <2>2 DEF ToSet
  <2>4. p = 1 => k < m /\ m \in 1..m
    BY <1>3
  <2> QED
    BY <1>3, <1>4, <2>1, <2>2, <2>3, <2>4 DEF Rising
<1> QED
  BY <1>1, <1>2, <1>3, <1>6

\* What an event deserves does not change when others come.
LEMMA DeservingStays ==
    ASSUME NEW q, NEW f, NEW g, \A n \in ToSet(q) : g[n] = f[n]
    PROVE  Deserving(q, g) = Deserving(q, f)
BY DEF Deserving

LEMMA FlowGrows ==
    ASSUME FabricInv, NextPlatform
    PROVE  \A n \in 1..Len(flow) : n \in 1..Len(flow') /\ flow'[n] = flow[n]
<1>1. flow \in Seq(FlowSamples)
  BY DEF FabricInv, FabricTypes
<1>2. CASE UNCHANGED flow
  BY <1>2
<1>3. ASSUME NEW e \in FlowSamples, flow' = Append(flow, e)
      PROVE  \A n \in 1..Len(flow) : n \in 1..Len(flow') /\ flow'[n] = flow[n]
  BY <1>1, <1>3, AppendFacts
<1> QED
  BY <1>2, <1>3 DEF NextPlatform, NextFabric, Emit, Subscribe, TrySend, EmitReturns, TakeFrom,
                    Consume, fabricVars

LEMMA CasesStart == InitPlatform => CasesInv
<1> SUFFICES ASSUME InitPlatform PROVE CasesInv
  OBVIOUS
<1> USE DEF InitPlatform, InitInvestigations
<1>1. CaseTypes
  <2>1. 1..0 = {} /\ 0 \in 0..MaxInvestigations
    BY InvestigationsAssumption
  <2>2. <<>> \in Seq(Nat)
    OBVIOUS
  <2> QED
    BY <2>1, <2>2 DEF CaseTypes, AtRest, NothingRead, Nobody
<1>2. PassRules /\ CaseRows /\ CopyRules
  BY DEF PassRules, CaseRows, CopyRules, AtRest, NothingRead, Nobody
<1> QED
  BY <1>1, <1>2 DEF CasesInv

\* Steps that leave the pass alone: the fabric's, the UI's that read, the sessions'.
LEMMA RowsUntouched ==
    ASSUME PlatformInv, FabricInv', NextPlatform,
           UNCHANGED <<investigations, timeline, evidence, joined, routing, consumed>>
    PROVE  /\ CaseRows' /\ PassRules'
           /\ \A i \in investigations : Deserving(timeline[i], flow') = Deserving(timeline[i], flow)
           /\ ToSet(uiReader.timeline) \subseteq 1..Len(flow) =>
                 Deserving(uiReader.timeline, flow') = Deserving(uiReader.timeline, flow)
<1>1. \A n \in 1..Len(flow) : flow'[n] = flow[n]
  BY FlowGrows DEF PlatformInv
<1>2. ASSUME NEW i \in investigations
      PROVE  Deserving(timeline[i], flow') = Deserving(timeline[i], flow) /\ CaseRow(i)'
  <2>1. CaseRow(i) /\ ToSet(timeline[i]) \subseteq 1..Len(flow)
    BY RowFacts, ConsumedFacts DEF PlatformInv, CasesInv, CaseRows
  <2>2. Deserving(timeline[i], flow') = Deserving(timeline[i], flow)
    BY <1>1, <2>1, DeservingStays
  <2> QED
    BY <2>1, <2>2 DEF CaseRow, Pending, Attaching
<1>3. ToSet(uiReader.timeline) \subseteq 1..Len(flow) =>
         Deserving(uiReader.timeline, flow') = Deserving(uiReader.timeline, flow)
  BY <1>1, DeservingStays
<1>4. CaseRows' /\ PassRules'
  BY <1>2 DEF PlatformInv, CasesInv, CaseRows, PassRules
<1> QED
  BY <1>2, <1>3, <1>4

LEMMA PassUntouched ==
    ASSUME PlatformInv, FabricInv', NextPlatform,
           UNCHANGED <<investigations, timeline, evidence, joined, routing, consumed, uiReader>>
    PROVE  CasesInv'
<1>1. CaseTypes'
  BY DEF PlatformInv, CasesInv, CaseTypes
<1>2. Len(flow') >= Len(flow) /\ Len(flow) \in Nat /\ Len(flow') \in Nat
  <2>1. Len(flow) \in Nat /\ Len(flow') \in Nat
    BY DEF PlatformInv, FabricInv, FabricTypes
  <2>2. Len(flow) # 0 => Len(flow) \in 1..Len(flow')
    BY <2>1, FlowGrows DEF PlatformInv
  <2> QED
    BY <2>1, <2>2
<1>3. CopyRules'
  <2>1. uiReader.copied = 1 => uiReader.case \in investigations
    BY DEF PlatformInv, CasesInv, CopyRules
  <2>2. ToSet(uiReader.timeline) \subseteq 1..Len(flow) => ToSet(uiReader.timeline) \subseteq 1..Len(flow')
    BY <1>2
  <2> QED
    BY <2>1, <2>2, RowsUntouched DEF PlatformInv, CasesInv, CopyRules
<1> QED
  BY <1>1, <1>3, RowsUntouched DEF CasesInv

\* A copy stays a beginning when its investigation's timeline stays.
LEMMA CopyStays ==
    ASSUME CopyRules, UNCHANGED <<uiReader, flow>>, investigations \subseteq investigations',
           \A i \in investigations : timeline'[i] = timeline[i]
    PROVE  CopyRules'
<1>1. uiReader.copied = 1 =>
         /\ uiReader.case \in investigations
         /\ IsBeginning(uiReader.evidence, Deserving(timeline[uiReader.case], flow))
  BY DEF CopyRules
<1>2. uiReader.copied = 1 =>
         IsBeginning(uiReader.evidence, Deserving(timeline'[uiReader.case], flow))
  BY <1>1
<1> QED
  BY <1>2 DEF CopyRules

LEMMA NothingAttached ==
    ASSUME CaseTypes, NEW i \in investigations
    PROVE  /\ routing = AtRest => Pending(i) = 0
           /\ routing.attaching = Nobody => Attaching(i) = <<>>
           /\ evidence[i] \o <<>> = evidence[i]
<1>1. i # 0 /\ evidence[i] \in Seq(Nat)
  BY InvestigationsAssumption DEF CaseTypes, Cases
<1>2. evidence[i] \o <<>> = evidence[i]
  BY <1>1, ConcatEmptySeq
<1> QED
  BY <1>1, <1>2 DEF Pending, Attaching, AtRest, Nobody

LEMMA ConsumeKeepsCases ==
    ASSUME PlatformInv, Consume
    PROVE  CasesInv'
<1>1. PICK n \in Nat :
          /\ n = Head(channel["consumer"]) /\ consumed' = Append(consumed, n)
          /\ routing = AtRest
          /\ routing' = [event |-> n, toVisit |-> investigations, attaching |-> Nobody]
          /\ UNCHANGED <<investigations, timeline, evidence, uiReader, joined, flow>>
  <2>1. channel["consumer"] \in Seq(Nat) /\ channel["consumer"] # <<>>
    BY DEF Consume, PlatformInv, FabricInv, FabricTypes, Views
  <2>2. Head(channel["consumer"]) \in Nat
    BY <2>1, HeadTailFacts
  <2> QED
    BY <2>2 DEF Consume, BeginRouting, TakeFrom
<1>2. /\ CaseTypes /\ consumed \in Seq(Nat) /\ Len(consumed) \in Nat
      /\ Len(consumed') = Len(consumed) + 1 /\ consumed'[Len(consumed')] = n
      /\ consumed' # <<>> /\ Nobody \in Nat
      /\ routing'.event = n /\ routing'.toVisit = investigations /\ routing'.attaching = Nobody
  <2>1. consumed \in Seq(Nat) /\ CaseTypes
    BY ConsumedFacts DEF PlatformInv, CasesInv
  <2> QED
    BY <1>1, <2>1, AppendFacts DEF Nobody
<1>3. CaseTypes' /\ PassRules'
  <2>1. investigations \subseteq Cases
    BY <1>2, InvestigationsAssumption DEF CaseTypes, Cases
  <2>2. CaseTypes'
    BY <1>1, <1>2, <2>1 DEF CaseTypes
  <2> QED
    BY <1>1, <1>2, <2>2 DEF PassRules
<1>4. ASSUME NEW i \in investigations PROVE CaseRow(i)'
  <2>1. /\ CaseRow(i) /\ joined[i] \in Nat /\ i # Nobody /\ Pending(i) = 0 /\ Attaching(i) = <<>>
    BY <1>1, <1>2, RowFacts, NothingAttached DEF PlatformInv, CasesInv, CaseRows, AtRest
  <2>2. Pending(i)' = 1 /\ Attaching(i)' = <<>>
    BY <1>2, <2>1 DEF Pending, Attaching
  <2>3. joined[i] <= Len(consumed) /\ timeline[i] = SubSeq(consumed, joined[i] + 1, Len(consumed))
    BY <1>2, <2>1 DEF CaseRow
  <2>4. timeline[i] = SubSeq(consumed', joined[i] + 1, Len(consumed') - 1)
    <3>1. SubSeq(Append(consumed, n), joined[i] + 1, Len(consumed)) = timeline[i]
      BY <1>2, <2>1, <2>3, PieceOfLonger
    <3>2. Len(consumed') - 1 = Len(consumed)
      BY <1>2
    <3> QED
      BY <1>1, <3>1, <3>2
  <2>5. joined[i] + 1 <= Len(consumed')
    BY <1>2, <2>1, <2>3
  <2> QED
    BY <1>1, <1>2, <2>1, <2>2, <2>4, <2>5 DEF CaseRow
<1>5. CaseRows'
  BY <1>1, <1>4 DEF PlatformInv, CasesInv, CaseRows
<1>6. CopyRules'
  BY <1>1, CopyStays DEF PlatformInv, CasesInv
<1> QED
  BY <1>3, <1>5, <1>6 DEF CasesInv

\* An investigation that comes during a pass may be met by it.
LEMMA CreateKeepsCases ==
    ASSUME PlatformInv, CreateFromEvent(Len(consumed)), UNCHANGED <<flow, consumed>>
    PROVE  CasesInv'
<1>1. PICK k \in 0..MaxInvestigations : investigations = 1..k
  BY DEF PlatformInv, CasesInv, CaseTypes
<1>2. PICK id \in Nat : id = k + 1
  BY <1>1, InvestigationsAssumption
<1>3. /\ Cardinality(investigations) + 1 = id /\ id \in Cases /\ id \notin investigations
      /\ investigations' = investigations \cup {id} /\ investigations' = 1..id
      /\ id \in 0..MaxInvestigations /\ id # Nobody
  <2>1. Cardinality(1..k) = k
    BY <1>1, InvestigationsAssumption, FS_Interval
  <2> QED
    BY <1>1, <1>2, <2>1, InvestigationsAssumption DEF CreateFromEvent, Cases, Nobody
<1>4. /\ CaseTypes /\ PassRules /\ consumed \in Seq(Nat) /\ Len(consumed) \in Nat
      /\ UNCHANGED <<timeline, evidence, uiReader>>
  BY ConsumedFacts DEF PlatformInv, CasesInv, CreateFromEvent
<1>5. PICK m \in Nat :
          /\ joined' = [joined EXCEPT ![id] = m]
          /\ \/ m = Len(consumed) /\ routing' = routing
             \/ /\ m + 1 = Len(consumed) /\ routing # AtRest
                /\ routing' = [routing EXCEPT !.toVisit = @ \cup {id}]
  <2>1. CASE joined' = [joined EXCEPT ![id] = Len(consumed)] /\ UNCHANGED routing
    BY <1>4, <2>1
  <2>2. CASE /\ routing # AtRest
             /\ routing' = [routing EXCEPT !.toVisit = @ \cup {id}]
             /\ joined' = [joined EXCEPT ![id] = Len(consumed) - 1]
    <3>1. Len(consumed) # 0
      BY <1>4, <2>2 DEF PassRules
    <3>2. Len(consumed) - 1 \in Nat /\ (Len(consumed) - 1) + 1 = Len(consumed)
      BY <1>4, <3>1
    <3> QED
      BY <2>2, <3>2
  <2> QED
    BY <1>3, <2>1, <2>2 DEF CreateFromEvent
<1>6. /\ routing'.event = routing.event /\ routing'.attaching = routing.attaching
      /\ routing'.toVisit = IF m = Len(consumed) THEN routing.toVisit ELSE routing.toVisit \cup {id}
      /\ routing' \in [event : Nat, toVisit : SUBSET Cases, attaching : Nat]
      /\ routing' # AtRest => routing # AtRest
  <2>1. CASE m = Len(consumed)
    <3>1. routing' = routing
      BY <1>4, <1>5, <2>1
    <3> QED
      BY <1>4, <2>1, <3>1 DEF CaseTypes
  <2>2. CASE m # Len(consumed)
    <3>1. routing # AtRest /\ routing' = [routing EXCEPT !.toVisit = @ \cup {id}]
      BY <1>5, <2>2
    <3> QED
      BY <1>3, <1>4, <2>2, <3>1 DEF CaseTypes
  <2> QED
    BY <2>1, <2>2
<1>7. CaseTypes'
  BY <1>3, <1>4, <1>5, <1>6 DEF CaseTypes
<1>8. PassRules'
  BY <1>3, <1>4, <1>6 DEF PassRules
<1>9. ASSUME NEW i \in investigations PROVE CaseRow(i)'
  <2>1. i # id /\ CaseRow(i) /\ joined'[i] = joined[i]
    BY <1>3, <1>4, <1>5 DEF PlatformInv, CasesInv, CaseRows, CaseTypes
  <2>2. Pending(i)' = Pending(i) /\ Attaching(i)' = Attaching(i)
    BY <1>6, <2>1 DEF Pending, Attaching
  <2> QED
    BY <1>4, <2>1, <2>2 DEF CaseRow
<1>10. CaseRow(id)'
  <2>1. timeline'[id] = <<>> /\ evidence'[id] = <<>> /\ joined'[id] = m
    BY <1>3, <1>4, <1>5 DEF PlatformInv, CasesInv, CaseRows, CaseTypes
  <2>2. Attaching(id)' = <<>> /\ id \notin routing.toVisit
    BY <1>3, <1>4, <1>6 DEF Attaching, PassRules
  <2>3. Pending(id)' = IF m = Len(consumed) THEN 0 ELSE 1
    BY <1>6, <2>2 DEF Pending
  <2>4. /\ m + Pending(id)' = Len(consumed)
        /\ Len(consumed) - Pending(id)' = m
    BY <1>4, <1>5, <2>3
  <2>5. SubSeq(consumed, m + 1, m) = <<>>
    <3>1. m <= Len(consumed)
      BY <1>4, <1>5
    <3>2. SubSeq(consumed, m + 1, m) \in Seq(Nat) /\ Len(SubSeq(consumed, m + 1, m)) = 0
      BY <1>4, <3>1, PieceFacts
    <3> QED
      BY <3>2
  <2>6. <<>> \o <<>> = <<>> /\ Rising(<<>>) /\ Deserving(<<>>, flow) = {} /\ ToSet(<<>>) = {}
    BY NoElements DEF Rising, Deserving
  <2> QED
    <3>1. joined'[id] + Pending(id)' <= Len(consumed')
      BY <1>4, <2>1, <2>4
    <3>2. timeline'[id] = SubSeq(consumed', joined'[id] + 1, Len(consumed') - Pending(id)')
      BY <2>1, <2>4, <2>5
    <3>3. Rising((evidence[id] \o Attaching(id))')
      BY <2>1, <2>2, <2>6
    <3>4. ToSet((evidence[id] \o Attaching(id))') = Deserving(timeline[id], flow)'
      BY <2>1, <2>2, <2>6
    <3> QED
      BY <3>1, <3>2, <3>3, <3>4 DEF CaseRow
<1>11. CaseRows'
  BY <1>3, <1>4, <1>9, <1>10 DEF PlatformInv, CasesInv, CaseRows
<1>12. CopyRules'
  BY <1>3, <1>4, CopyStays DEF PlatformInv, CasesInv
<1> QED
  BY <1>7, <1>8, <1>11, <1>12 DEF CasesInv

\* What is added to the timeline deserves it or not; the copy in progress lacks it.
LEMMA EntryKeepsCases ==
    ASSUME PlatformInv, NEW i \in Cases, AddTimelineEntry(i, flow[routing.event]),
           UNCHANGED <<flow, consumed>>
    PROVE  CasesInv'
<1>1. /\ routing.attaching = Nobody /\ i \in routing.toVisit
      /\ i \in investigations /\ routing # AtRest
      /\ UNCHANGED <<investigations, evidence, uiReader, joined>>
      /\ CaseTypes /\ PassRules /\ CaseRow(i)
  BY DEF AddTimelineEntry, PlatformInv, CasesInv, PassRules, CaseRows, AtRest
<1>2. PICK x, m \in Nat :
          /\ m = Len(consumed) /\ m >= 1 /\ x = routing.event /\ x = consumed[m]
  <2>1. consumed # <<>> /\ routing.event = consumed[Len(consumed)] /\ routing.event \in Nat
    BY <1>1 DEF PassRules, CaseTypes
  <2>2. consumed \in Seq(Nat) /\ Len(consumed) \in Nat
    BY ConsumedFacts DEF PlatformInv
  <2>3. Len(consumed) >= 1
    BY <2>1, <2>2
  <2> QED
    BY <2>1, <2>2, <2>3
<1> DEFINE high == HighRisk(flow[x])
<1>3. /\ timeline' = [timeline EXCEPT ![i] = Append(@, x)]
      /\ routing' = [routing EXCEPT !.toVisit = @ \ {i},
                                    !.attaching = IF high THEN i ELSE Nobody]
  BY <1>2 DEF AddTimelineEntry
<1>4. /\ i \in Nat /\ i # Nobody /\ joined[i] \in Nat
      /\ timeline[i] \in Seq(Nat) /\ evidence[i] \in Seq(Nat)
      /\ Pending(i) = 1 /\ Attaching(i) = <<>> /\ evidence[i] \o <<>> = evidence[i]
      /\ \A y \in ToSet(timeline[i]) : y < x
  BY <1>1, <1>2, RowFacts, NothingAttached DEF PlatformInv, Pending
<1>5. /\ routing'.event = x /\ routing'.toVisit = routing.toVisit \ {i}
      /\ routing'.attaching = IF high THEN i ELSE Nobody
      /\ routing' \in [event : Nat, toVisit : SUBSET Cases, attaching : Nat]
      /\ timeline' \in [Cases -> Seq(Nat)] /\ timeline'[i] = Append(timeline[i], x)
      /\ \A j \in Cases : j # i => timeline'[j] = timeline[j]
  <2>1. Append(timeline[i], x) \in Seq(Nat)
    BY <1>2, <1>4, AppendFacts
  <2>2. (IF high THEN i ELSE Nobody) \in Nat
    BY <1>4 DEF Nobody
  <2>3. timeline \in [Cases -> Seq(Nat)]
        /\ routing \in [event : Nat, toVisit : SUBSET Cases, attaching : Nat]
    BY <1>1 DEF CaseTypes
  <2> HIDE DEF high
  <2>4. /\ routing'.event = x /\ routing'.toVisit = routing.toVisit \ {i}
        /\ routing'.attaching = IF high THEN i ELSE Nobody
        /\ routing' \in [event : Nat, toVisit : SUBSET Cases, attaching : Nat]
    BY <1>2, <1>3, <2>2, <2>3
  <2>5. /\ timeline' \in [Cases -> Seq(Nat)] /\ timeline'[i] = Append(timeline[i], x)
        /\ \A j \in Cases : j # i => timeline'[j] = timeline[j]
    BY <1>3, <2>1, <2>3
  <2> QED
    BY <2>4, <2>5
<1> HIDE DEF high
<1>6. CaseTypes' /\ PassRules'
  <2>1. CaseTypes'
    BY <1>1, <1>5 DEF CaseTypes
  <2>2. PassRules'
    BY <1>1, <1>2, <1>5 DEF PassRules
  <2> QED
    BY <2>1, <2>2
<1>7. Deserving(timeline'[i], flow) = Deserving(timeline[i], flow) \cup (IF high THEN {x} ELSE {})
  <2>1. ToSet(timeline'[i]) = ToSet(timeline[i]) \cup {x}
    BY <1>2, <1>4, <1>5, AppendFacts
  <2> QED
    BY <2>1 DEF Deserving, high
<1>8. ASSUME NEW j \in investigations, j # i PROVE CaseRow(j)'
  <2>1. CaseRow(j) /\ j \in Cases /\ j # Nobody /\ Attaching(j) = <<>>
    BY <1>1, RowFacts, NothingAttached DEF PlatformInv, CasesInv, CaseRows
  <2>2. Pending(j)' = Pending(j) /\ Attaching(j)' = Attaching(j) /\ timeline'[j] = timeline[j]
    BY <1>5, <1>8, <2>1 DEF Pending, Attaching
  <2> QED
    BY <1>1, <2>1, <2>2 DEF CaseRow
<1>9. CaseRow(i)'
  <2>1. Pending(i)' = 0 /\ Attaching(i)' = IF high THEN <<x>> ELSE <<>>
    BY <1>4, <1>5 DEF Pending, Attaching
  <2>2. joined[i] + 1 <= m /\ timeline[i] = SubSeq(consumed, joined[i] + 1, m - 1)
    BY <1>1, <1>2, <1>4 DEF CaseRow
  <2>3. joined[i] < m /\ consumed \in Seq(Nat)
    BY <1>2, <1>4, <2>2, ConsumedFacts DEF PlatformInv
  <2>4. timeline'[i] = SubSeq(consumed, joined[i] + 1, m)
    <3>1. PICK j \in Nat : j = joined[i]
      BY <1>4
    <3>2. Append(SubSeq(consumed, j + 1, m - 1), consumed[m]) = SubSeq(consumed, j + 1, m)
      <4>1. j < m /\ m <= Len(consumed) /\ consumed \in Seq(Nat)
        BY <1>2, <2>3, <3>1
      <4> QED
        BY <4>1, PieceGrows
    <3>3. SubSeq(consumed, j + 1, m - 1) = timeline[i]
      BY <2>2, <3>1
    <3>4. Append(timeline[i], x) = SubSeq(consumed, j + 1, m)
      BY <1>2, <3>2, <3>3
    <3> QED
      BY <1>5, <3>1, <3>4
  <2>5. Rising(evidence[i]) /\ ToSet(evidence[i]) = Deserving(timeline[i], flow)
    BY <1>1, <1>4 DEF CaseRow
  <2>6. /\ Rising(evidence[i] \o Attaching(i)')
        /\ ToSet(evidence[i] \o Attaching(i)') = Deserving(timeline'[i], flow)
    <3>1. CASE high
      <4>1. evidence[i] \o <<x>> = Append(evidence[i], x)
        BY <1>2, <1>4, AppendIsConcat
      <4>2. \A y \in ToSet(evidence[i]) : y < x
        BY <1>4, <2>5 DEF Deserving
      <4>3. /\ Rising(Append(evidence[i], x))
            /\ ToSet(Append(evidence[i], x)) = ToSet(evidence[i]) \cup {x}
        BY <1>2, <1>4, <2>5, <4>2, RisingAppended
      <4> QED
        BY <1>7, <2>1, <2>5, <3>1, <4>1, <4>3
    <3>2. CASE ~high
      BY <1>4, <1>7, <2>1, <2>5, <3>2
    <3> QED
      BY <3>1, <3>2
  <2>7. joined[i] + 0 <= m /\ m - 0 = m
    BY <1>2, <1>4, <2>3
  <2> QED
    BY <1>1, <1>2, <2>1, <2>4, <2>6, <2>7 DEF CaseRow
<1>10. CaseRows'
  BY <1>1, <1>5, <1>8, <1>9 DEF PlatformInv, CasesInv, CaseRows
<1>11. CopyRules'
  <2>1. CASE uiReader.copied = 1 /\ uiReader.case = i
    <3>1. IsBeginning(uiReader.evidence, Deserving(timeline[i], flow))
      BY <2>1 DEF PlatformInv, CasesInv, CopyRules
    <3>2. \A y \in ToSet(uiReader.evidence) : y < x
      BY <1>4, <3>1 DEF IsBeginning, Deserving
    <3>3. IsBeginning(uiReader.evidence, Deserving(timeline'[i], flow))
      BY <1>7, <3>1, <3>2 DEF IsBeginning
    <3> QED
      BY <1>1, <2>1, <3>3 DEF PlatformInv, CasesInv, CopyRules
  <2>2. CASE ~(uiReader.copied = 1 /\ uiReader.case = i)
    <3>1. uiReader.copied = 1 => uiReader.case \in Cases /\ uiReader.case # i
      BY <2>2, RowFacts DEF PlatformInv, CasesInv, CopyRules, CaseRows
    <3> QED
      BY <1>1, <1>5, <3>1 DEF PlatformInv, CasesInv, CopyRules
  <2> QED
    BY <2>1, <2>2
<1> QED
  BY <1>6, <1>10, <1>11 DEF CasesInv

LEMMA EvidenceKeepsCases ==
    ASSUME PlatformInv, AddEvidence, UNCHANGED <<flow, consumed>>
    PROVE  CasesInv'
<1>1. PICK a \in investigations : a = routing.attaching
  BY DEF AddEvidence, PlatformInv, CasesInv, PassRules
<1>2. PICK x \in Nat : x = routing.event
  BY DEF PlatformInv, CasesInv, CaseTypes
<1>3. /\ evidence' = [evidence EXCEPT ![a] = Append(@, x)]
      /\ routing' = [routing EXCEPT !.attaching = Nobody]
      /\ UNCHANGED <<investigations, timeline, uiReader, joined>>
      /\ CaseTypes /\ PassRules /\ CaseRow(a)
      /\ a \in Cases /\ a \in Nat /\ a # Nobody /\ evidence[a] \in Seq(Nat)
  BY <1>1, <1>2, RowFacts DEF AddEvidence, PlatformInv, CasesInv, CaseRows
<1>4. Append(evidence[a], x) \in Seq(Nat)
  BY <1>2, <1>3, AppendFacts
<1>5. /\ routing'.event = x /\ routing'.toVisit = routing.toVisit /\ routing'.attaching = Nobody
      /\ routing' \in [event : Nat, toVisit : SUBSET Cases, attaching : Nat]
      /\ routing # AtRest
  <2>1. routing \in [event : Nat, toVisit : SUBSET Cases, attaching : Nat] /\ Nobody \in Nat
    BY <1>3 DEF CaseTypes, Nobody
  <2>2. /\ routing'.event = x /\ routing'.toVisit = routing.toVisit /\ routing'.attaching = Nobody
        /\ routing' \in [event : Nat, toVisit : SUBSET Cases, attaching : Nat]
    BY <1>2, <1>3, <2>1
  <2>3. AtRest.attaching = Nobody
    BY DEF AtRest
  <2> QED
    BY <1>1, <1>3, <2>2, <2>3
<1>6. /\ evidence' \in [Cases -> Seq(Nat)] /\ evidence'[a] = Append(evidence[a], x)
      /\ \A i \in Cases : i # a => evidence'[i] = evidence[i]
  BY <1>3, <1>4 DEF CaseTypes
<1>7. CaseTypes' /\ PassRules'
  BY <1>2, <1>3, <1>5, <1>6 DEF CaseTypes, PassRules
<1>8. ASSUME NEW i \in investigations PROVE CaseRow(i)'
  <2>1. CaseRow(i) /\ i \in Cases /\ i # Nobody
    BY <1>3, RowFacts DEF PlatformInv, CasesInv, CaseRows
  <2>2. Pending(i)' = Pending(i) /\ Attaching(i)' = <<>>
    BY <1>5, <2>1 DEF Pending, Attaching
  <2>3. evidence'[i] \o <<>> = evidence[i] \o Attaching(i)
    <3>1. CASE i = a
      <4>1. Attaching(i) = <<x>>
        BY <1>1, <1>2, <3>1 DEF Attaching
      <4>2. evidence[a] \o <<x>> = Append(evidence[a], x)
        BY <1>2, <1>3, AppendIsConcat
      <4>3. Append(evidence[a], x) \o <<>> = Append(evidence[a], x)
        BY <1>4, ConcatEmptySeq
      <4> QED
        BY <1>6, <3>1, <4>1, <4>2, <4>3
    <3>2. CASE i # a
      <4>1. Attaching(i) = <<>>
        BY <1>1, <3>2 DEF Attaching
      <4> QED
        BY <1>6, <2>1, <3>2, <4>1
    <3> QED
      BY <3>1, <3>2
  <2> QED
    BY <1>3, <2>1, <2>2, <2>3 DEF CaseRow
<1>9. CaseRows'
  BY <1>3, <1>6, <1>8 DEF PlatformInv, CasesInv, CaseRows
<1>10. CopyRules'
  BY <1>3, CopyStays DEF PlatformInv, CasesInv
<1> QED
  BY <1>7, <1>9, <1>10 DEF CasesInv

LEMMA EndKeepsCases ==
    ASSUME PlatformInv, EndRouting, UNCHANGED <<flow, consumed>>
    PROVE  CasesInv'
<1>1. /\ routing.toVisit = {} /\ routing.attaching = Nobody /\ routing' = AtRest
      /\ UNCHANGED <<investigations, timeline, evidence, uiReader, joined>>
      /\ CaseTypes
  BY DEF EndRouting, PlatformInv, CasesInv
<1>2. CaseTypes' /\ PassRules'
  <2>1. AtRest \in [event : Nat, toVisit : SUBSET Cases, attaching : Nat]
    BY DEF AtRest, Nobody
  <2>2. AtRest.toVisit = {} /\ AtRest.attaching = Nobody
    BY DEF AtRest
  <2> QED
    BY <1>1, <2>1, <2>2 DEF CaseTypes, PassRules
<1>3. ASSUME NEW i \in investigations PROVE CaseRow(i)'
  <2>1. CaseRow(i) /\ i # Nobody
    BY <1>1, RowFacts DEF PlatformInv, CasesInv, CaseRows
  <2>2. Pending(i)' = Pending(i) /\ Attaching(i)' = Attaching(i)
    BY <1>1, <2>1 DEF Pending, Attaching, AtRest
  <2> QED
    BY <1>1, <2>1, <2>2 DEF CaseRow
<1>4. CaseRows'
  BY <1>1, <1>3 DEF PlatformInv, CasesInv, CaseRows
<1>5. CopyRules'
  BY <1>1, CopyStays DEF PlatformInv, CasesInv
<1> QED
  BY <1>2, <1>4, <1>5 DEF CasesInv

\* The UI begins, copies the evidence, copies the timeline.
LEMMA ReadKeepsCases ==
    ASSUME PlatformInv, FabricInv', NextPlatform, UNCHANGED <<flow, consumed>>,
           (\E i \in Cases : OpenDetail(i)) \/ CopyNext
    PROVE  CasesInv'
<1>1. /\ UNCHANGED <<investigations, timeline, evidence, routing, joined>> /\ CaseTypes
      /\ CaseRows' /\ PassRules'
  BY RowsUntouched DEF OpenDetail, CopyNext, PlatformInv, CasesInv
<1>2. ASSUME NEW i \in Cases, OpenDetail(i) PROVE CaseTypes' /\ CopyRules'
  <2>1. /\ i \in investigations /\ uiReader' = [NothingRead EXCEPT !.case = i]
        /\ i \in Nat /\ i # Nobody
    BY <1>2, InvestigationsAssumption DEF OpenDetail, Cases, Nobody
  <2>2. /\ uiReader' \in [case : Nat, copied : 0..2, evidence : Seq(Nat), timeline : Seq(Nat)]
        /\ uiReader'.case = i /\ uiReader'.copied = 0
    <3>1. /\ NothingRead \in [case : Nat, copied : 0..2, evidence : Seq(Nat), timeline : Seq(Nat)]
          /\ NothingRead.copied = 0
      <4>1. <<>> \in Seq(Nat) /\ 0 \in 0..2 /\ 0 \in Nat
        OBVIOUS
      <4> QED
        BY <4>1 DEF NothingRead, Nobody
    <3> QED
      BY <2>1, <3>1
  <2> QED
    BY <1>1, <2>1, <2>2 DEF CaseTypes, CopyRules
<1>3. ASSUME CopyNext PROVE CaseTypes' /\ CopyRules'
  <2>1. PICK c \in investigations : c = uiReader.case
    BY <1>3 DEF CopyNext, PlatformInv, CasesInv, CopyRules
  <2>2. /\ c \in Cases /\ c \in Nat /\ c # Nobody /\ CaseRow(c)
        /\ uiReader \in [case : Nat, copied : 0..2, evidence : Seq(Nat), timeline : Seq(Nat)]
        /\ evidence[c] \in Seq(Nat) /\ timeline[c] \in Seq(Nat) /\ Attaching(c) \in Seq(Nat)
        /\ ToSet(timeline[c]) \subseteq 1..Len(flow)
    BY <1>1, RowFacts, ConsumedFacts DEF PlatformInv, CasesInv, CaseRows, CaseTypes
  <2>3. Len(CopyOrder) = 2 /\ CopyOrder[1] = "evidence" /\ CopyOrder[2] = "timeline"
    BY DEF CopyOrder
  <2>4. uiReader.copied \in {0, 1}
    BY <1>3, <2>2, <2>3 DEF CopyNext
  <2>5. CASE uiReader.copied = 0
    <3>1. CopyOrder[uiReader.copied + 1] = "evidence"
      BY <2>3, <2>5
    <3>2. uiReader' = [uiReader EXCEPT !.copied = uiReader.copied + 1,
                          !.evidence = evidence[c], !.timeline = uiReader.timeline]
      BY <1>3, <2>1, <3>1 DEF CopyNext
    <3>3. uiReader.copied + 1 = 1 /\ 1 \in 0..2
      BY <2>5
    <3>4. /\ uiReader' \in [case : Nat, copied : 0..2, evidence : Seq(Nat), timeline : Seq(Nat)]
          /\ uiReader'.case = c /\ uiReader'.copied = 1 /\ uiReader'.evidence = evidence[c]
      BY <2>1, <2>2, <3>2, <3>3
    <3>5. IsBeginning(evidence[c], Deserving(timeline[c], flow))
      <4>1. PICK a, b \in Seq(Nat) : a = evidence[c] /\ b = Attaching(c)
        BY <2>2
      <4>2. Rising(a \o b) /\ ToSet(a \o b) = Deserving(timeline[c], flow)
        BY <2>2, <4>1 DEF CaseRow
      <4> QED
        BY <4>1, <4>2, BeginningOfConcat
    <3>6. CaseTypes'
      BY <1>1, <3>4 DEF CaseTypes
    <3>7. CopyRules'
      <4>1. ~(uiReader'.copied = 2) /\ c \in investigations'
        BY <1>1, <3>4
      <4> QED
        BY <1>1, <1>3, <2>2, <3>4, <3>5, <4>1 DEF CopyRules
    <3> QED
      BY <3>6, <3>7
  <2>6. CASE uiReader.copied = 1
    <3>1. CopyOrder[uiReader.copied + 1] = "timeline"
      BY <2>3, <2>6
    <3>2. uiReader' = [uiReader EXCEPT !.copied = uiReader.copied + 1,
                          !.evidence = uiReader.evidence, !.timeline = timeline[c]]
      BY <1>3, <2>1, <3>1 DEF CopyNext
    <3>3. uiReader.copied + 1 = 2 /\ 2 \in 0..2
      BY <2>6
    <3>4. /\ uiReader' \in [case : Nat, copied : 0..2, evidence : Seq(Nat), timeline : Seq(Nat)]
          /\ uiReader'.case = c /\ uiReader'.copied = 2
          /\ uiReader'.evidence = uiReader.evidence /\ uiReader'.timeline = timeline[c]
      BY <2>1, <2>2, <3>2, <3>3
    <3>5. IsBeginning(uiReader.evidence, Deserving(timeline[c], flow))
      BY <2>1, <2>6 DEF PlatformInv, CasesInv, CopyRules
    <3>6. CaseTypes'
      BY <1>1, <3>4 DEF CaseTypes
    <3>7. CopyRules'
      <4>1. ~(uiReader'.copied = 1) /\ c \in investigations'
        BY <1>1, <3>4
      <4> QED
        BY <1>1, <1>3, <2>2, <3>4, <3>5, <4>1 DEF CopyRules
    <3> QED
      BY <3>6, <3>7
  <2> QED
    BY <2>4, <2>5, <2>6
<1> QED
  BY <1>1, <1>2, <1>3 DEF CasesInv

LEMMA CasesKeep ==
    ASSUME PlatformInv, FabricInv', NextPlatform
    PROVE  CasesInv'
<1>1. CASE NextFabric /\ UNCHANGED <<live, caseVars, consumed>>
  BY <1>1, PassUntouched DEF caseVars
<1>2. CASE Consume
  BY <1>2, ConsumeKeepsCases
<1>3. CASE Commands /\ UNCHANGED <<fabricVars, live, consumed>>
  <2>1. UNCHANGED <<flow, consumed>>
    BY <1>3 DEF fabricVars
  <2>2. CASE CreateFromEvent(Len(consumed))
    BY <2>1, <2>2, CreateKeepsCases
  <2>3. CASE (\E i \in Cases : OpenDetail(i)) \/ CopyNext
    BY <2>1, <2>3, ReadKeepsCases
  <2>4. CASE OpenSession \/ \E id \in 1..MaxOpened : CloseSession(id) \/ UpdateSession(id)
    <3>1. UNCHANGED <<investigations, timeline, evidence, joined, routing, uiReader>>
      BY <2>4 DEF OpenSession, CloseSession, UpdateSession
    <3> QED
      BY <2>1, <3>1, PassUntouched
  <2> QED
    BY <1>3, <2>2, <2>3, <2>4 DEF Commands
<1>4. CASE Route /\ UNCHANGED <<fabricVars, live, consumed>>
  <2>1. UNCHANGED <<flow, consumed>>
    BY <1>4 DEF fabricVars
  <2> QED
    BY <1>4, <2>1, EntryKeepsCases, EvidenceKeepsCases, EndKeepsCases DEF Route
<1> QED
  BY <1>1, <1>2, <1>3, <1>4 DEF NextPlatform
-----------------------------------------------------------------------------
LEMMA CasesShow ==
    ASSUME PlatformInv
    PROVE  TimelineIsComplete /\ DetailsAreConsistent
<1>1. TimelineIsComplete
  BY DEF PlatformInv, CasesInv, CaseRows, CaseRow, TimelineIsComplete
<1>2. Len(CopyOrder) = 2
  BY DEF CopyOrder
<1>3. DetailsAreConsistent
  BY <1>2 DEF PlatformInv, CasesInv, CopyRules, DetailsAreConsistent, DetailIsConsistent
<1> QED
  BY <1>1, <1>3

\* The graph is no part of it.
LEMMA PlatformStays ==
    ASSUME PlatformInv, UNCHANGED <<fabricVars, caseVars, consumed>>
    PROVE  PlatformInv'
<1>1. FabricInv'
  <2>1. FabricTypes' /\ \A v \in Views : Given(v)' = Given(v)
    BY DEF fabricVars, PlatformInv, FabricInv, FabricTypes, Given
  <2> QED
    BY <2>1, FabricStays DEF fabricVars, PlatformInv
<1>2. CasesInv'
  <2>1. UNCHANGED <<investigations, timeline, evidence, routing, uiReader, joined, consumed, flow>>
    BY DEF fabricVars, caseVars
  <2>2. CaseTypes' /\ PassRules' /\ CopyRules'
    BY <2>1 DEF PlatformInv, CasesInv, CaseTypes, PassRules, CopyRules
  <2>3. CaseRows'
    BY <2>1 DEF PlatformInv, CasesInv, CaseRows, CaseRow, Pending, Attaching
  <2> QED
    BY <2>2, <2>3 DEF CasesInv
<1> QED
  BY <1>1, <1>2 DEF PlatformInv

LEMMA PlatformKeeps ==
    ASSUME PlatformInv, [NextPlatform]_platformVars
    PROVE  PlatformInv'
<1>1. CASE NextPlatform
  <2>1. FabricInv'
    BY <1>1, FabricKeeps DEF PlatformInv
  <2> QED
    BY <1>1, <2>1, CasesKeep DEF PlatformInv
<1>2. CASE UNCHANGED platformVars
  BY <1>2, PlatformStays DEF platformVars
<1> QED
  BY <1>1, <1>2

LEMMA PlatformInvariant == InitPlatform /\ [][NextPlatform]_platformVars => []PlatformInv
<1>1. InitPlatform => PlatformInv
  BY FabricStarts, CasesStart DEF PlatformInv
<1>2. PlatformInv /\ [NextPlatform]_platformVars => PlatformInv'
  BY PlatformKeeps
<1> QED
  BY <1>1, <1>2, PTL

(* Whatever the number of events, the sizes of the channels and the order of   *)
(* the steps: when no event is being fanned out, what each of the two views of *)
(* the fabric was given rises, is of what was emitted since it subscribed, and *)
(* total_dropped counts the events that some view lacks, each once.            *)
THEOREM ViewsAreExact == InitPlatform /\ [][NextPlatform]_platformVars => []ViewsDifferByDrops
<1>1. PlatformInv => ViewsDifferByDrops
  BY FabricShows DEF PlatformInv
<1> QED
  BY <1>1, PlatformInvariant, PTL

(* For any number of investigations, created before, between or during the     *)
(* passes of the consumer, each timeline holds every event consumed since the  *)
(* investigation was met, in order, once, and its evidence is the high-risk    *)
(* events of its timeline, but for what the pass is just handing out.          *)
THEOREM TimelinesAreComplete ==
    InitPlatform /\ [][NextPlatform]_platformVars => []TimelineIsComplete
<1>1. PlatformInv => TimelineIsComplete
  BY CasesShow
<1> QED
  BY <1>1, PlatformInvariant, PTL

(* get_investigation copies two tables without a lock over both: because the   *)
(* evidence is copied first and an event is on the timeline before it is       *)
(* evidence, no copy shows evidence that its timeline lacks, and none skips    *)
(* evidence but at its end.                                                    *)
THEOREM DetailsConsistent ==
    InitPlatform /\ [][NextPlatform]_platformVars => []DetailsAreConsistent
<1>1. PlatformInv => DetailsAreConsistent
  BY CasesShow
<1> QED
  BY <1>1, PlatformInvariant, PTL

-----------------------------------------------------------------------------
(* The router of the frontend.                                              *)
Listener ==
    [spec : Listeners, queue : Seq(Nat), delivered : Nat, dropped : Nat,
     uncounted : {"none", "delivered", "dropped"}, batch : Seq(Nat),
     shown : Seq(Nat), shutdown : BOOLEAN, ended : BOOLEAN, joined : Nat]

RouterTypes ==
    /\ source \in Seq(Nat) /\ ahead \in Seq(Nat) /\ turn \in Nat /\ anyDropped \in BOOLEAN
    /\ listeners \in Seq(Listener)
    /\ routed \in Nat /\ routedDropped \in Nat /\ routedFiltered \in Nat
    /\ produced \in Seq(RouterSamples)

\* The worker goes through the envelopes in the order of their numbers.
NumbersInOrder ==
    /\ \A k \in 1..Len(ahead) : ahead[k] = routed + k
    /\ \A k \in 1..Len(source) : source[k] = routed + Len(ahead) + k
    /\ Len(produced) = routed + Len(ahead) + Len(source)
    /\ turn <= Len(listeners) + 1 /\ (turn > 0 => ahead # <<>>)

\* A subscriber's row of the property.
Fits(i) ==
    /\ listeners[i].joined <= routed
    /\ Rising(Accepted(i)) /\ ToSet(Accepted(i)) \subseteq Wanted(i)
    /\ Delivered(listeners[i]) = Len(Accepted(i)) /\ Dropped(listeners[i]) = Cardinality(Missed(i))
    /\ (listeners[i].spec.policy = "Block" /\ ~listeners[i].ended) => Missed(i) = {}

AllFit == \A i \in DOMAIN listeners : Fits(i)

\* What some subscriber missed of the envelopes whose route is over.
Lost == UNION {Missed(i) \cap 1..routed : i \in DOMAIN listeners}

Counted ==
    /\ routedFiltered = Cardinality(Spared)
    /\ routedDropped = Cardinality(Lost)
    /\ turn > 0 => (anyDropped <=> \E i \in DOMAIN listeners : routed + 1 \in Missed(i))

RouterInv == RouterTypes /\ NumbersInOrder /\ AllFit /\ Counted
-----------------------------------------------------------------------------
(* What a subscriber has been offered.                                       *)

LEMMA AcceptedTypes ==
    ASSUME NEW l \in Listener
    PROVE  AcceptedBy(l) \in Seq(Nat)
<1>1. l.shown \in Seq(Nat) /\ l.batch \in Seq(Nat) /\ l.queue \in Seq(Nat)
  BY DEF Listener
<1>2. l.shown \o l.batch \in Seq(Nat)
  BY <1>1, ConcatFacts
<1> QED
  BY <1>1, <1>2, ConcatFacts DEF AcceptedBy

LEMMA ListenerTypes ==
    ASSUME RouterTypes, NEW i \in DOMAIN listeners
    PROVE  /\ listeners[i] \in Listener /\ Accepted(i) \in Seq(Nat) /\ i \in Nat /\ i >= 1
           /\ DOMAIN listeners = 1..Len(listeners) /\ Len(listeners) \in Nat
<1>1. /\ listeners[i] \in Listener /\ i \in Nat /\ i >= 1
      /\ DOMAIN listeners = 1..Len(listeners) /\ Len(listeners) \in Nat
  BY DEF RouterTypes
<1>2. AcceptedBy(listeners[i]) \in Seq(Nat)
  BY <1>1, AcceptedTypes
<1> QED
  BY <1>1, <1>2 DEF Accepted

\* Envelopes that were offered were produced, and there are finitely many of them.
LEMMA PastFacts ==
    ASSUME RouterTypes, NumbersInOrder, NEW i \in DOMAIN listeners, listeners[i].joined <= routed
    PROVE  /\ Past(i) \subseteq DOMAIN produced /\ Past(i) \subseteq 1..routed + 1
           /\ routed + 1 \in Past(i) <=> i < turn
           /\ IsFiniteSet(Past(i)) /\ IsFiniteSet(Wanted(i)) /\ IsFiniteSet(Missed(i))
           /\ Missed(i) \subseteq Past(i)
<1>1. listeners[i].joined \in Nat /\ i \in Nat /\ routed \in Nat /\ turn \in Nat
  BY ListenerTypes DEF RouterTypes, Listener
<1>2. DOMAIN produced = 1..Len(produced) /\ Len(produced) \in Nat /\ Len(source) \in Nat /\ Len(ahead) \in Nat
  BY DEF RouterTypes
<1>3. i < turn => Len(ahead) > 0
  BY <1>1, <1>2 DEF NumbersInOrder, RouterTypes
<1>4. Past(i) \subseteq 1..routed + 1 /\ (routed + 1 \in Past(i) <=> i < turn)
  BY <1>1 DEF Past
<1>5. Past(i) \subseteq DOMAIN produced
  BY <1>1, <1>2, <1>3 DEF Past, NumbersInOrder
<1>6. IsFiniteSet(Past(i))
  <2>1. listeners[i].joined + 1 \in Int /\ (IF i < turn THEN routed + 1 ELSE routed) \in Int
    BY <1>1
  <2> QED
    BY <2>1, FS_Interval DEF Past
<1>7. Wanted(i) \in SUBSET Past(i) /\ Missed(i) \in SUBSET Past(i)
  BY DEF Wanted, Missed
<1> QED
  BY <1>4, <1>5, <1>6, <1>7, FS_Subset

\* Finitely many pairs and losses.
LEMMA CountsAreFinite ==
    ASSUME RouterInv
    PROVE  IsFiniteSet(Spared) /\ IsFiniteSet(Lost)
<1>1. /\ IsFiniteSet(DOMAIN listeners) /\ IsFiniteSet(DOMAIN produced)
      /\ IsFiniteSet(1..routed)
  <2>1. /\ DOMAIN listeners = 1..Len(listeners) /\ DOMAIN produced = 1..Len(produced)
        /\ Len(listeners) \in Nat /\ Len(produced) \in Nat /\ routed \in Nat
    BY DEF RouterInv, RouterTypes
  <2> QED
    BY <2>1, FS_Interval
<1>2. IsFiniteSet((DOMAIN listeners) \X (DOMAIN produced))
  BY <1>1, FS_Product
<1>3. Spared \in SUBSET ((DOMAIN listeners) \X (DOMAIN produced)) /\ Lost \in SUBSET (1..routed)
  BY DEF Spared, Lost
<1> QED
  BY <1>1, <1>2, <1>3, FS_Subset

\* A step that leaves alone what subscribers accepted and what they were offered; a
\* stream may end.
LEMMA StillFits ==
    ASSUME AllFit, DOMAIN listeners' = DOMAIN listeners, routed' >= routed, routed \in Nat, routed' \in Nat,
           RouterTypes,
           \A i \in DOMAIN listeners :
              /\ Accepted(i)' = Accepted(i) /\ Wanted(i)' = Wanted(i)
              /\ listeners'[i].spec = listeners[i].spec /\ listeners'[i].joined = listeners[i].joined
              /\ Delivered(listeners'[i]) = Delivered(listeners[i])
              /\ Dropped(listeners'[i]) = Dropped(listeners[i])
              /\ listeners[i].ended => listeners'[i].ended
    PROVE  AllFit' /\ \A i \in DOMAIN listeners : Missed(i)' = Missed(i)
<1>1. \A i \in DOMAIN listeners : Missed(i)' = Missed(i)
  BY DEF Missed
<1>2. ASSUME NEW i \in DOMAIN listeners PROVE Fits(i)'
  <2>1. Fits(i) /\ listeners[i].joined \in Nat
    BY ListenerTypes DEF AllFit, Listener
  <2> QED
    BY <1>1, <2>1 DEF Fits
<1> QED
  BY <1>1, <1>2 DEF AllFit

LEMMA StillCounted ==
    ASSUME RouterInv, DOMAIN listeners' = DOMAIN listeners, DOMAIN produced \subseteq DOMAIN produced',
           UNCHANGED <<turn, anyDropped, routerCounts>>,
           \A i \in DOMAIN listeners :
              Past(i)' = Past(i) /\ Wanted(i)' = Wanted(i) /\ Missed(i)' = Missed(i)
    PROVE  Counted'
<1>1. \A i \in DOMAIN listeners : Past(i) \subseteq DOMAIN produced
  BY PastFacts DEF RouterInv, AllFit, Fits
<1>2. Spared' = Spared
  <2>1. ASSUME NEW p, p \in Spared' PROVE p \in Spared
    BY <1>1, <2>1 DEF Spared
  <2>2. ASSUME NEW p, p \in Spared PROVE p \in Spared'
    BY <2>2 DEF Spared
  <2> QED
    BY <2>1, <2>2
<1>3. Lost' = Lost /\ routed' = routed
  BY DEF Lost, routerCounts
<1> QED
  BY <1>2, <1>3 DEF RouterInv, Counted, routerCounts
-----------------------------------------------------------------------------
(* The streams.                                                              *)

\* Another row for listener i, with what it accepted in other places.
LEMMA RowChanges ==
    ASSUME RouterInv, NEW i \in DOMAIN listeners, NEW r \in Listener,
           listeners' = [listeners EXCEPT ![i] = r],
           UNCHANGED <<source, ahead, turn, anyDropped, routerCounts, produced>>,
           AcceptedBy(r) = Accepted(i), r.spec = listeners[i].spec, r.joined = listeners[i].joined,
           Delivered(r) = Delivered(listeners[i]), Dropped(r) = Dropped(listeners[i]),
           listeners[i].ended => r.ended
    PROVE  RouterInv'
<1>1. /\ listeners' \in Seq(Listener) /\ DOMAIN listeners' = DOMAIN listeners
      /\ Len(listeners') = Len(listeners)
      /\ \A j \in DOMAIN listeners : listeners'[j] = IF j = i THEN r ELSE listeners[j]
  BY DEF RouterInv, RouterTypes
<1>2. RouterTypes' /\ NumbersInOrder'
  BY <1>1 DEF RouterInv, RouterTypes, NumbersInOrder, routerCounts
<1>3. \A j \in DOMAIN listeners :
          /\ Accepted(j)' = Accepted(j)
          /\ listeners'[j].spec = listeners[j].spec /\ listeners'[j].joined = listeners[j].joined
          /\ Delivered(listeners'[j]) = Delivered(listeners[j])
          /\ Dropped(listeners'[j]) = Dropped(listeners[j])
          /\ listeners[j].ended => listeners'[j].ended
  BY <1>1 DEF Accepted
<1>4. \A j \in DOMAIN listeners : Past(j)' = Past(j) /\ Wanted(j)' = Wanted(j)
  BY <1>3 DEF Past, Wanted, routerCounts
<1>5. AllFit' /\ \A j \in DOMAIN listeners : Missed(j)' = Missed(j)
  <2>1. routed' >= routed /\ routed \in Nat /\ routed' \in Nat
    BY DEF RouterInv, RouterTypes, routerCounts
  <2> QED
    BY <1>1, <1>3, <1>4, <2>1, StillFits DEF RouterInv
<1>6. Counted'
  BY <1>1, <1>4, <1>5, StillCounted
<1> QED
  BY <1>2, <1>5, <1>6 DEF RouterInv

\* Showing the batch, and taking one envelope into it.
LEMMA FlushedRow ==
    ASSUME NEW l \in Listener
    PROVE  /\ Flushed(l) \in Listener /\ AcceptedBy(Flushed(l)) = AcceptedBy(l)
           /\ Flushed(l).spec = l.spec /\ Flushed(l).joined = l.joined /\ Flushed(l).ended = l.ended
           /\ Delivered(Flushed(l)) = Delivered(l) /\ Dropped(Flushed(l)) = Dropped(l)
<1>1. l.shown \in Seq(Nat) /\ l.batch \in Seq(Nat) /\ l.queue \in Seq(Nat)
  BY DEF Listener
<1>2. l.shown \o l.batch \in Seq(Nat) /\ <<>> \in Seq(Nat)
  BY <1>1, ConcatFacts
<1>3. /\ Flushed(l) \in Listener
      /\ Flushed(l).shown = l.shown \o l.batch /\ Flushed(l).batch = <<>> /\ Flushed(l).queue = l.queue
      /\ Flushed(l).spec = l.spec /\ Flushed(l).joined = l.joined /\ Flushed(l).ended = l.ended
      /\ Delivered(Flushed(l)) = Delivered(l) /\ Dropped(Flushed(l)) = Dropped(l)
  BY <1>1, <1>2 DEF Flushed, Listener, Delivered, Dropped
<1>4. (l.shown \o l.batch) \o <<>> = l.shown \o l.batch
  BY <1>2, ConcatEmptySeq
<1> QED
  BY <1>3, <1>4 DEF AcceptedBy

LEMMA TakenRow ==
    ASSUME NEW l \in Listener, l.queue # <<>>
    PROVE  LET more == [l EXCEPT !.queue = Tail(@), !.batch = Append(@, Head(l.queue))]
           IN  /\ more \in Listener /\ AcceptedBy(more) = AcceptedBy(l)
               /\ more.spec = l.spec /\ more.joined = l.joined /\ more.ended = l.ended
               /\ Delivered(more) = Delivered(l) /\ Dropped(more) = Dropped(l)
<1> DEFINE more == [l EXCEPT !.queue = Tail(@), !.batch = Append(@, Head(l.queue))]
<1>1. l.shown \in Seq(Nat) /\ l.batch \in Seq(Nat) /\ l.queue \in Seq(Nat)
  BY DEF Listener
<1>2. Head(l.queue) \in Nat /\ Tail(l.queue) \in Seq(Nat) /\ Append(l.batch, Head(l.queue)) \in Seq(Nat)
  BY <1>1, HeadTailFacts, AppendFacts
<1>3. /\ more \in Listener
      /\ more.shown = l.shown /\ more.batch = Append(l.batch, Head(l.queue)) /\ more.queue = Tail(l.queue)
      /\ more.spec = l.spec /\ more.joined = l.joined /\ more.ended = l.ended
      /\ Delivered(more) = Delivered(l) /\ Dropped(more) = Dropped(l)
  <2>1. PICK q \in Seq(Nat), b \in Seq(Nat) : q = Tail(l.queue) /\ b = Append(l.batch, Head(l.queue))
    BY <1>2
  <2>2. PICK m : m = [l EXCEPT !.queue = q, !.batch = b]
    OBVIOUS
  <2>3. /\ m \in Listener /\ m.shown = l.shown /\ m.batch = b /\ m.queue = q
        /\ m.spec = l.spec /\ m.joined = l.joined /\ m.ended = l.ended
        /\ Delivered(m) = Delivered(l) /\ Dropped(m) = Dropped(l)
    BY <2>2 DEF Listener, Delivered, Dropped
  <2>4. more = m
    BY <2>1, <2>2 DEF Listener
  <2> HIDE DEF more
  <2> QED
    BY <2>1, <2>3, <2>4
<1>0. \A a, b, c \in Seq(Nat) : (a \o b) \o c = a \o (b \o c)
  BY SMTT(60), ConcatAssociative
<1>4. (l.shown \o Append(l.batch, Head(l.queue))) \o Tail(l.queue)
        = l.shown \o (Append(l.batch, Head(l.queue)) \o Tail(l.queue))
  BY <1>0, <1>1, <1>2
<1>5. Append(l.batch, Head(l.queue)) \o Tail(l.queue) = l.batch \o l.queue
  BY <1>1, HandOver
<1>6. l.shown \o (l.batch \o l.queue) = (l.shown \o l.batch) \o l.queue
  BY <1>0, <1>1
<1> HIDE DEF more
<1>7. AcceptedBy(more) = AcceptedBy(l)
  BY <1>3, <1>4, <1>5, <1>6 DEF AcceptedBy
<1> QED
  BY <1>3, <1>7 DEF more

LEMMA StreamSteps ==
    ASSUME RouterInv, NEW i \in DOMAIN listeners,
           StreamTakes(i) \/ StreamIdles(i) \/ ShutDown(i) \/ StreamEnds(i) \/ CountRouted(i)
    PROVE  RouterInv'
<1> DEFINE l == listeners[i]
<1>1. l \in Listener
  BY ListenerTypes DEF RouterInv
<1>2. CASE StreamTakes(i)
  <2> DEFINE more == [l EXCEPT !.queue = Tail(@), !.batch = Append(@, Head(l.queue))]
  <2>1. /\ more \in Listener /\ AcceptedBy(more) = AcceptedBy(l)
        /\ more.spec = l.spec /\ more.joined = l.joined /\ more.ended = l.ended
        /\ Delivered(more) = Delivered(l) /\ Dropped(more) = Dropped(l)
    BY <1>1, <1>2, TakenRow DEF StreamTakes
  <2>2. \E r \in {more, Flushed(more)} : listeners' = [listeners EXCEPT ![i] = r]
    BY <1>2 DEF StreamTakes
  <2>3. UNCHANGED <<source, ahead, turn, anyDropped, routerCounts, produced>>
    BY <1>2 DEF StreamTakes
  <2> HIDE DEF more
  <2>4. /\ Flushed(more) \in Listener /\ AcceptedBy(Flushed(more)) = AcceptedBy(l)
        /\ Flushed(more).spec = l.spec /\ Flushed(more).joined = l.joined /\ Flushed(more).ended = l.ended
        /\ Delivered(Flushed(more)) = Delivered(l) /\ Dropped(Flushed(more)) = Dropped(l)
    BY <2>1, FlushedRow
  <2> QED
    BY <2>1, <2>2, <2>3, <2>4, RowChanges DEF Accepted
<1>3. CASE StreamIdles(i)
  <2>1. listeners' = [listeners EXCEPT ![i] = Flushed(l)]
    BY <1>3 DEF StreamIdles
  <2> QED
    BY <1>1, <1>3, <2>1, FlushedRow, RowChanges DEF StreamIdles, Accepted
<1>4. CASE ShutDown(i)
  <2> DEFINE r == [l EXCEPT !.shutdown = TRUE]
  <2>1. /\ r \in Listener /\ AcceptedBy(r) = AcceptedBy(l)
        /\ r.spec = l.spec /\ r.joined = l.joined /\ r.ended = l.ended
        /\ Delivered(r) = Delivered(l) /\ Dropped(r) = Dropped(l)
    BY <1>1 DEF Listener, AcceptedBy, Delivered, Dropped
  <2>2. listeners' = [listeners EXCEPT ![i] = r]
    BY <1>4 DEF ShutDown
  <2> HIDE DEF r
  <2> QED
    BY <1>4, <2>1, <2>2, RowChanges DEF ShutDown, Accepted
<1>5. CASE StreamEnds(i)
  <2> DEFINE r == [Flushed(l) EXCEPT !.ended = TRUE]
  <2>1. /\ Flushed(l) \in Listener /\ AcceptedBy(Flushed(l)) = AcceptedBy(l)
        /\ Flushed(l).spec = l.spec /\ Flushed(l).joined = l.joined
        /\ Delivered(Flushed(l)) = Delivered(l) /\ Dropped(Flushed(l)) = Dropped(l)
    BY <1>1, FlushedRow
  <2>2. /\ r \in Listener /\ AcceptedBy(r) = AcceptedBy(Flushed(l)) /\ r.ended
        /\ r.spec = Flushed(l).spec /\ r.joined = Flushed(l).joined
        /\ Delivered(r) = Delivered(Flushed(l)) /\ Dropped(r) = Dropped(Flushed(l))
    BY <2>1 DEF Listener, AcceptedBy, Delivered, Dropped
  <2>3. listeners' = [listeners EXCEPT ![i] = r]
    BY <1>5 DEF StreamEnds
  <2> HIDE DEF r
  <2>4. /\ AcceptedBy(r) = Accepted(i) /\ r.spec = l.spec /\ r.joined = l.joined
        /\ Delivered(r) = Delivered(l) /\ Dropped(r) = Dropped(l)
    BY <2>1, <2>2 DEF Accepted
  <2>5. UNCHANGED <<source, ahead, turn, anyDropped, routerCounts, produced>>
    BY <1>5 DEF StreamEnds
  <2> QED
    BY <2>2, <2>3, <2>4, <2>5, RowChanges
<1>6. CASE CountRouted(i)
  <2> DEFINE r == [l EXCEPT !.delivered = Delivered(l), !.dropped = Dropped(l), !.uncounted = "none"]
  <2>1. Delivered(l) \in Nat /\ Dropped(l) \in Nat
    BY <1>1 DEF Listener, Delivered, Dropped
  <2>2. PICK d \in Nat, n \in Nat : d = Delivered(l) /\ n = Dropped(l)
    BY <2>1
  <2>3. PICK x : x = [l EXCEPT !.delivered = d, !.dropped = n, !.uncounted = "none"]
    OBVIOUS
  <2>4. /\ x \in Listener /\ AcceptedBy(x) = AcceptedBy(l)
        /\ x.spec = l.spec /\ x.joined = l.joined /\ x.ended = l.ended
        /\ Delivered(x) = d /\ Dropped(x) = n
    <3>1. /\ x \in Listener /\ x.delivered = d /\ x.dropped = n /\ x.uncounted = "none"
          /\ x.spec = l.spec /\ x.joined = l.joined /\ x.ended = l.ended
          /\ x.shown = l.shown /\ x.batch = l.batch /\ x.queue = l.queue
      BY <1>1, <2>3 DEF Listener
    <3>2. AcceptedBy(x) = AcceptedBy(l)
      BY <3>1 DEF AcceptedBy
    <3>3. Delivered(x) = d /\ Dropped(x) = n
      BY <3>1 DEF Delivered, Dropped
    <3> QED
      BY <3>1, <3>2, <3>3
  <2>5. r = x
    BY <2>2, <2>3
  <2>6. /\ listeners' = [listeners EXCEPT ![i] = r]
        /\ UNCHANGED <<source, ahead, turn, anyDropped, routerCounts, produced>>
    BY <1>6 DEF CountRouted
  <2> HIDE DEF r
  <2> QED
    BY <2>2, <2>4, <2>5, <2>6, RowChanges DEF Accepted
<1> QED
  BY <1>2, <1>3, <1>4, <1>5, <1>6
-----------------------------------------------------------------------------
(* The worker.                                                               *)

LEMMA InitRow == InitRouter => RouterInv
<1> SUFFICES ASSUME InitRouter PROVE RouterInv
  OBVIOUS
<1> USE DEF InitRouter
<1>1. RouterTypes
  <2>1. \A S : <<>> \in Seq(S)
    OBVIOUS
  <2> QED
    BY <2>1 DEF RouterTypes
<1>4. NumbersInOrder
  BY DEF NumbersInOrder
<1>5. AllFit
  BY DEF AllFit
<1>2. Spared = {} /\ Lost = {}
  BY DEF Spared, Lost
<1>3. Counted
  BY <1>2, FS_EmptySet DEF Counted
<1> QED
  BY <1>1, <1>3, <1>4, <1>5 DEF RouterInv

\* Nothing of the subscribers changes.
LEMMA RowsStay ==
    ASSUME RouterInv, UNCHANGED <<listeners, routerCounts>>, anyDropped' \in BOOLEAN,
           RouterTypes', NumbersInOrder',
           \A n \in DOMAIN produced : n \in DOMAIN produced' /\ produced'[n] = produced[n],
           \/ UNCHANGED <<turn, anyDropped>>
           \/ turn = 0 /\ turn' = 1 /\ ~anyDropped'
    PROVE  RouterInv'
<1>1. ASSUME NEW i \in DOMAIN listeners
      PROVE  /\ Past(i)' = Past(i) /\ Wanted(i)' = Wanted(i) /\ Accepted(i)' = Accepted(i)
             /\ Missed(i)' = Missed(i)
             /\ turn = 0 => routed + 1 \notin Past(i)
  <2>1. Past(i) \subseteq DOMAIN produced /\ (routed + 1 \in Past(i) <=> i < turn)
    BY PastFacts DEF RouterInv, AllFit, Fits
  <2>2. i \in Nat /\ i >= 1 /\ turn \in Nat
    BY ListenerTypes DEF RouterInv, RouterTypes
  <2>3. Past(i)' = Past(i)
    BY <2>2 DEF Past, routerCounts
  <2> QED
    BY <2>1, <2>2, <2>3 DEF Wanted, Accepted, Missed
<1>2. AllFit'
  BY <1>1, StillFits DEF RouterInv, RouterTypes, routerCounts
<1>3. Counted'
  <2>1. CASE UNCHANGED <<turn, anyDropped>>
    BY <1>1, <2>1, StillCounted
  <2>2. CASE turn = 0 /\ turn' = 1 /\ ~anyDropped'
    <3>1. Spared' = Spared
      <4>1. \A i \in DOMAIN listeners : Past(i) \subseteq DOMAIN produced
        BY PastFacts DEF RouterInv, AllFit, Fits
      <4>2. ASSUME NEW p, p \in Spared' PROVE p \in Spared
        BY <1>1, <4>1, <4>2 DEF Spared
      <4>3. ASSUME NEW p, p \in Spared PROVE p \in Spared'
        BY <1>1, <4>3 DEF Spared
      <4> QED
        BY <4>2, <4>3
    <3>2. Lost' = Lost /\ routed' = routed
      BY <1>1 DEF Lost, routerCounts
    <3>3. \A i \in DOMAIN listeners : routed + 1 \notin Missed(i)
      BY <1>1, <2>2, PastFacts DEF RouterInv, AllFit, Fits
    <3> QED
      BY <1>1, <2>2, <3>1, <3>2, <3>3 DEF RouterInv, Counted, routerCounts
  <2> QED
    BY <2>1, <2>2
<1> QED
  BY <1>2, <1>3 DEF RouterInv

LEMMA ProduceStep ==
    ASSUME RouterInv, NEW e \in RouterSamples, Produce(e)
    PROVE  RouterInv'
<1>1. /\ produced \in Seq(RouterSamples) /\ source \in Seq(Nat)
      /\ produced' = Append(produced, e) /\ source' = Append(source, Len(produced'))
      /\ UNCHANGED <<ahead, turn, anyDropped, listeners, routerCounts>>
  BY DEF RouterInv, RouterTypes, Produce
<1>2. /\ produced' \in Seq(RouterSamples) /\ Len(produced') = Len(produced) + 1
      /\ \A n \in DOMAIN produced : n \in DOMAIN produced' /\ produced'[n] = produced[n]
  BY <1>1
<1>3. /\ source' \in Seq(Nat) /\ Len(source') = Len(source) + 1
      /\ \A k \in 1..Len(source) + 1 :
            source'[k] = IF k = Len(source) + 1 THEN Len(produced) + 1 ELSE source[k]
  BY <1>1, <1>2, AppendFacts
<1>4. RouterTypes'
  BY <1>1, <1>2, <1>3 DEF RouterInv, RouterTypes, routerCounts
<1>5. NumbersInOrder'
  <2>1. /\ routed \in Nat /\ Len(ahead) \in Nat /\ Len(source) \in Nat
        /\ Len(produced) = routed + Len(ahead) + Len(source)
        /\ \A k \in 1..Len(source) : source[k] = routed + Len(ahead) + k
    BY DEF RouterInv, RouterTypes, NumbersInOrder
  <2>2. ASSUME NEW k \in 1..Len(source) + 1 PROVE source'[k] = routed + Len(ahead) + k
    <3>1. CASE k = Len(source) + 1
      BY <1>3, <2>1, <3>1
    <3>2. CASE k # Len(source) + 1
      <4>1. k \in 1..Len(source)
        BY <2>1, <3>2
      <4> QED
        BY <1>3, <2>1, <3>2, <4>1
    <3> QED
      BY <3>1, <3>2
  <2>3. Len(produced') = routed + Len(ahead) + Len(source')
    BY <1>2, <1>3, <2>1
  <2> QED
    BY <1>1, <1>3, <2>2, <2>3 DEF RouterInv, NumbersInOrder, routerCounts
<1> QED
  BY <1>1, <1>2, <1>4, <1>5, RowsStay DEF RouterTypes

LEMMA TakeStep ==
    ASSUME RouterInv, TakeBatch
    PROVE  RouterInv'
<1> DEFINE n == IF Len(source) < WorkerBatch THEN Len(source) ELSE WorkerBatch
<1>1. /\ source \in Seq(Nat) /\ Len(source) \in Nat /\ n \in 0..Len(source)
      /\ ahead = <<>> /\ turn = 0
  BY RouterAssumption DEF RouterInv, RouterTypes, NumbersInOrder, TakeBatch
<1>2. /\ ahead' = SubSeq(source, 1, n) /\ source' = SubSeq(source, n + 1, Len(source))
      /\ UNCHANGED <<turn, anyDropped, listeners, routerCounts, produced>>
  BY DEF TakeBatch
<1> HIDE DEF n
<1>3. /\ ahead' \in Seq(Nat) /\ source' \in Seq(Nat)
      /\ Len(ahead') = n /\ Len(source') = Len(source) - n
      /\ \A k \in 1..n : ahead'[k] = source[k]
      /\ \A k \in 1..Len(source) - n : source'[k] = source[n + k]
  BY SMTT(30), <1>1, <1>2
<1>4. RouterTypes'
  BY <1>2, <1>3 DEF RouterInv, RouterTypes, routerCounts
<1>5. NumbersInOrder'
  <2>1. Len(ahead) = 0 /\ routed \in Nat /\ n \in Nat /\ n <= Len(source)
    BY <1>1 DEF RouterInv, RouterTypes
  <2>2. \A k \in 1..Len(source) : source[k] = routed + k
    BY <2>1 DEF RouterInv, NumbersInOrder
  <2>3. \A k \in 1..n : ahead'[k] = routed' + k
    BY <1>1, <1>2, <1>3, <2>1, <2>2 DEF routerCounts
  <2>4. ASSUME NEW k \in 1..Len(source') PROVE source'[k] = routed' + Len(ahead') + k
    <3>1. Len(source') = Len(source) - n /\ Len(source) \in Nat
      BY <1>1, <1>3
    <3>2. routed' = routed /\ Len(ahead') = n
      BY <1>2, <1>3 DEF routerCounts
    <3>3. k \in 1..Len(source) - n /\ k \in Nat
      BY <2>1, <3>1
    <3>4. /\ n + k \in 1..Len(source) /\ k \in 1..Len(source) - n
          /\ routed' = routed /\ Len(ahead') = n /\ k \in Nat
      BY <2>1, <3>1, <3>2, <3>3
    <3>5. source'[k] = source[n + k] /\ source[n + k] = routed + (n + k)
      BY <1>3, <2>2, <3>4
    <3> QED
      BY <2>1, <3>4, <3>5
  <2>5. Len(produced') = routed' + Len(ahead') + Len(source')
    <3>1. /\ Len(produced) = routed + Len(ahead) + Len(source) /\ produced' = produced
          /\ routed' = routed /\ Len(source) \in Nat
      BY <1>1, <1>2 DEF RouterInv, NumbersInOrder, routerCounts
    <3>2. Len(produced') = routed + Len(source)
      BY <2>1, <3>1
    <3>3. Len(ahead') = n /\ Len(source') = Len(source) - n
      BY <1>3
    <3> QED
      BY <2>1, <3>1, <3>2, <3>3
  <2>6. turn' <= Len(listeners') + 1 /\ ~(turn' > 0)
    BY <1>1, <1>2 DEF RouterInv, NumbersInOrder
  <2> QED
    BY <2>3, <2>4, <2>5, <2>6, <1>3 DEF NumbersInOrder
<1> QED
  BY <1>2, <1>4, <1>5, RowsStay DEF RouterTypes

LEMMA BeginStep ==
    ASSUME RouterInv, BeginRoute
    PROVE  RouterInv'
<1>1. RouterTypes'
  BY DEF RouterInv, RouterTypes, BeginRoute, routerCounts
<1>2. NumbersInOrder'
  <2>1. Len(listeners) \in Nat
    BY DEF RouterInv, RouterTypes
  <2> QED
    BY <2>1 DEF RouterInv, NumbersInOrder, BeginRoute, routerCounts
<1> QED
  BY <1>1, <1>2, RowsStay DEF BeginRoute

\* A subscriber that comes has been offered nothing.
LEMMA SubscribeStep ==
    ASSUME RouterInv, NEW spec \in Listeners, SubscribeTo(spec)
    PROVE  RouterInv'
<1> DEFINE new == [spec |-> spec, queue |-> <<>>, delivered |-> 0, dropped |-> 0, uncounted |-> "none",
                   batch |-> <<>>, shown |-> <<>>, shutdown |-> FALSE, ended |-> FALSE, joined |-> routed]
<1>0. PICK m \in Nat : m = Len(listeners) + 1
  BY DEF RouterInv, RouterTypes
<1>1. new \in Listener /\ AcceptedBy(new) = <<>>
  <2>1. <<>> \in Seq(Nat) /\ routed \in Nat
    BY DEF RouterInv, RouterTypes
  <2>2. new \in Listener
    BY <2>1 DEF Listener
  <2>3. (<<>> \o <<>>) \o <<>> = <<>>
    BY <2>1, ConcatEmptySeq
  <2> QED
    BY <2>2, <2>3 DEF AcceptedBy
<1>2. /\ turn = 0 /\ listeners' = Append(listeners, new)
      /\ UNCHANGED <<source, ahead, turn, anyDropped, routerCounts, produced>>
      /\ listeners \in Seq(Listener) /\ Len(listeners) \in Nat /\ routed \in Nat
  BY DEF SubscribeTo, RouterInv, RouterTypes
<1>3. new.joined = routed /\ Delivered(new) = 0 /\ Dropped(new) = 0
  BY DEF Delivered, Dropped
<1> HIDE DEF new
<1>4. /\ listeners' \in Seq(Listener) /\ DOMAIN listeners' = DOMAIN listeners \cup {m}
      /\ DOMAIN listeners = 1..Len(listeners) /\ Len(listeners') = m
      /\ listeners'[m] = new /\ \A i \in DOMAIN listeners : listeners'[i] = listeners[i]
  BY <1>0, <1>1, <1>2
<1>5. RouterTypes' /\ NumbersInOrder'
  <2>1. RouterTypes'
    BY <1>2, <1>4 DEF RouterInv, RouterTypes, routerCounts
  <2> QED
    BY <1>0, <1>2, <1>4, <2>1 DEF RouterInv, NumbersInOrder, routerCounts
<1>6. \A i \in DOMAIN listeners :
          /\ Past(i)' = Past(i) /\ Wanted(i)' = Wanted(i) /\ Accepted(i)' = Accepted(i)
          /\ Missed(i)' = Missed(i)
  BY <1>2, <1>4 DEF Past, Wanted, Accepted, Missed, routerCounts
<1>7. Past(m)' = {} /\ Wanted(m)' = {} /\ Accepted(m)' = <<>> /\ Missed(m)' = {}
  <2>1. Past(m)' = {}
    BY <1>2, <1>3, <1>4 DEF Past, routerCounts
  <2> QED
    BY <1>1, <1>4, <2>1 DEF Wanted, Accepted, Missed
<1>8. AllFit'
  <2>1. Fits(m)'
    BY <1>2, <1>3, <1>4, <1>7, NoElements, FS_EmptySet DEF Fits, Rising, routerCounts
  <2>2. \A i \in DOMAIN listeners : Fits(i)'
    BY <1>2, <1>4, <1>6 DEF RouterInv, AllFit, Fits, routerCounts
  <2> QED
    BY <1>4, <2>1, <2>2 DEF AllFit
<1>9. Spared' = Spared
  <2> DEFINE D == DOMAIN listeners
             P == DOMAIN produced
  <2>1. Spared' = {p \in (D \cup {m}) \X P : p[2] \in Past(p[1])' \ Wanted(p[1])'}
    BY <1>2, <1>4 DEF Spared
  <2>2. Spared = {p \in D \X P : p[2] \in Past(p[1]) \ Wanted(p[1])}
    BY DEF Spared
  <2> HIDE DEF D, P
  <2>3. \A i \in D : Past(i)' = Past(i) /\ Wanted(i)' = Wanted(i)
    BY <1>6 DEF D
  <2>4. ASSUME NEW p, p \in Spared' PROVE p \in Spared
    BY <1>7, <2>1, <2>2, <2>3, <2>4
  <2>5. ASSUME NEW p, p \in Spared PROVE p \in Spared'
    BY <2>1, <2>2, <2>3, <2>5
  <2> QED
    BY <2>4, <2>5
<1>10. Lost' = Lost
  BY <1>2, <1>4, <1>6, <1>7 DEF Lost, routerCounts
<1>11. Counted'
  BY <1>2, <1>9, <1>10 DEF RouterInv, Counted, routerCounts
<1> QED
  BY <1>5, <1>8, <1>11 DEF RouterInv

\* The end of a route: every subscriber has been offered the envelope.
LEMMA EndStep ==
    ASSUME RouterInv, EndRoute
    PROVE  RouterInv'
<1>1. /\ turn > Len(listeners) /\ turn > 0 /\ turn' = 0 /\ ahead' = Tail(ahead) /\ routed' = routed + 1
      /\ UNCHANGED <<source, anyDropped, listeners, routedFiltered, produced>>
      /\ routedDropped' = IF anyDropped THEN routedDropped + 1 ELSE routedDropped
      /\ ahead \in Seq(Nat) /\ ahead # <<>> /\ routed \in Nat /\ turn \in Nat /\ Len(listeners) \in Nat
  BY DEF RouterInv, RouterTypes, NumbersInOrder, EndRoute
<1>2. /\ ahead' \in Seq(Nat) /\ Len(ahead) \in Nat /\ Len(ahead) >= 1 /\ Len(ahead') = Len(ahead) - 1
      /\ \A k \in 1..Len(ahead) - 1 : ahead'[k] = ahead[k + 1]
  BY <1>1, HeadTailFacts
<1>3. RouterTypes'
  BY <1>1, <1>2 DEF RouterInv, RouterTypes
<1>4. NumbersInOrder'
  <2>1. ASSUME NEW k \in 1..Len(ahead') PROVE ahead'[k] = routed' + k
    <3>1. k + 1 \in 1..Len(ahead) /\ k \in 1..Len(ahead) - 1 /\ k \in Nat
      BY <1>2
    <3>2. ahead[k + 1] = routed + (k + 1)
      BY <3>1 DEF RouterInv, NumbersInOrder
    <3> QED
      BY <1>1, <1>2, <3>1, <3>2
  <2>2. \A k \in 1..Len(source') : source'[k] = routed' + Len(ahead') + k
    BY <1>1, <1>2 DEF RouterInv, NumbersInOrder
  <2>3. Len(produced') = routed' + Len(ahead') + Len(source')
    <3>1. Len(source) \in Nat
      BY DEF RouterInv, RouterTypes
    <3>2. \A r, a, b \in Nat : a >= 1 => (r + 1) + (a - 1) + b = r + a + b
      OBVIOUS
    <3>3. Len(produced) = routed + Len(ahead) + Len(source)
      BY DEF RouterInv, NumbersInOrder
    <3> QED
      BY <1>1, <1>2, <3>1, <3>2, <3>3
  <2>4. turn' <= Len(listeners') + 1 /\ ~(turn' > 0)
    BY <1>1
  <2> QED
    BY <2>1, <2>2, <2>3, <2>4 DEF NumbersInOrder
<1>5. ASSUME NEW i \in DOMAIN listeners
      PROVE  /\ Past(i)' = Past(i) /\ Wanted(i)' = Wanted(i) /\ Accepted(i)' = Accepted(i)
             /\ Missed(i) \subseteq 1..routed + 1 /\ Past(i) \subseteq DOMAIN produced
  <2>1. i < turn /\ i \in Nat
    BY <1>1, ListenerTypes DEF RouterInv
  <2>2. Past(i)' = Past(i)
    BY <1>1, <2>1 DEF Past
  <2> QED
    BY <1>1, <2>2, PastFacts DEF Wanted, Accepted, RouterInv, AllFit, Fits
<1>6. AllFit' /\ \A i \in DOMAIN listeners : Missed(i)' = Missed(i)
  BY <1>1, <1>5, StillFits DEF RouterInv
<1>7. Spared' = Spared
  <2>1. ASSUME NEW p, p \in Spared' PROVE p \in Spared
    BY <1>1, <1>5, <2>1 DEF Spared
  <2>2. ASSUME NEW p, p \in Spared PROVE p \in Spared'
    BY <1>1, <1>5, <2>2 DEF Spared
  <2> QED
    BY <2>1, <2>2
<1>8. Cardinality(Lost') = IF anyDropped THEN Cardinality(Lost) + 1 ELSE Cardinality(Lost)
  <2>1. 1..routed + 1 = (1..routed) \cup {routed + 1} /\ routed + 1 \notin 1..routed
    BY <1>1
  <2>2. routed + 1 \notin Lost /\ IsFiniteSet(Lost)
    BY <2>1, CountsAreFinite DEF Lost
  <2>3. Lost' = UNION {Missed(i) \cap 1..routed + 1 : i \in DOMAIN listeners}
    BY <1>1, <1>6 DEF Lost
  <2>4. CASE anyDropped
    <3>1. Lost' = Lost \cup {routed + 1}
      BY <1>1, <2>1, <2>3, <2>4 DEF Lost, RouterInv, Counted
    <3> QED
      BY <2>2, <2>4, <3>1, FS_AddElement
  <2>5. CASE ~anyDropped
    <3>1. \A i \in DOMAIN listeners : Missed(i) \cap 1..routed + 1 = Missed(i) \cap 1..routed
      BY <1>1, <2>1, <2>5 DEF RouterInv, Counted
    <3>2. Lost' = Lost
      BY <2>3, <3>1 DEF Lost
    <3> QED
      BY <2>5, <3>2
  <2> QED
    BY <2>4, <2>5
<1>9. Counted'
  BY <1>1, <1>7, <1>8 DEF RouterInv, Counted
<1> QED
  BY <1>3, <1>4, <1>6, <1>9 DEF RouterInv
-----------------------------------------------------------------------------
(* One subscriber of the route.                                              *)

\* The envelope is the next one, and it has not been past the subscriber.
LEMMA RouteFacts ==
    ASSUME RouterInv, RouteTo
    PROVE  /\ turn \in DOMAIN listeners /\ turn' = turn + 1
           /\ UNCHANGED <<source, ahead, routed, routedDropped, produced>>
           /\ Head(ahead) = routed + 1 /\ routed + 1 \in DOMAIN produced
           /\ turn \in Nat /\ turn > 0 /\ routed \in Nat
           /\ routed + 1 \notin Past(turn) /\ Past(turn) \subseteq 1..routed
           /\ turn' <= Len(listeners) + 1
<1>1. /\ turn \in DOMAIN listeners /\ turn' = turn + 1
      /\ UNCHANGED <<source, ahead, routed, routedDropped, produced>>
      /\ turn \in Nat /\ turn > 0 /\ routed \in Nat /\ turn <= Len(listeners) /\ Len(listeners) \in Nat
  BY SMTT(30), ListenerTypes DEF RouteTo, RouterInv, RouterTypes
<1>2. ahead \in Seq(Nat) /\ ahead # <<>> /\ Len(ahead) \in Nat /\ Len(ahead) >= 1 /\ Head(ahead) = ahead[1]
  BY <1>1, HeadTailFacts DEF RouterInv, RouterTypes, NumbersInOrder
<1>3. Head(ahead) = routed + 1
  BY <1>2 DEF RouterInv, NumbersInOrder
<1>4. routed + 1 \in DOMAIN produced
  BY <1>1, <1>2 DEF RouterInv, RouterTypes, NumbersInOrder
<1>5. routed + 1 \notin Past(turn) /\ Past(turn) \subseteq 1..routed + 1
  BY <1>1, PastFacts DEF RouterInv, AllFit, Fits
<1>6. Past(turn) \subseteq 1..routed
  BY <1>1, <1>5
<1> QED
  BY <1>1, <1>3, <1>4, <1>5, <1>6

\* The row of the subscriber and the counts that follow from it.
LEMMA RowRouted ==
    ASSUME RouterInv, RouteTo, NEW k, k = turn, NEW row \in Listener,
           listeners' = [listeners EXCEPT ![k] = row],
           row.spec = listeners[k].spec, row.joined = listeners[k].joined
    PROVE  /\ DOMAIN listeners' = DOMAIN listeners /\ listeners'[k] = row
           /\ listeners' \in Seq(Listener) /\ Len(listeners') = Len(listeners)
           /\ \A i \in DOMAIN listeners \ {k} :
                 /\ listeners'[i] = listeners[i] /\ Past(i)' = Past(i) /\ Wanted(i)' = Wanted(i)
                 /\ Accepted(i)' = Accepted(i) /\ Missed(i)' = Missed(i) /\ Fits(i)'
           /\ Past(k)' = Past(k) \cup {routed + 1}
           /\ Wanted(k)' = IF Matches(listeners[k].spec.filter, produced[routed + 1])
                           THEN Wanted(k) \cup {routed + 1} ELSE Wanted(k)
           /\ Accepted(k)' = AcceptedBy(row)
<1>1. /\ k \in DOMAIN listeners /\ turn' = k + 1 /\ k \in Nat
      /\ UNCHANGED <<source, ahead, routed, routedDropped, produced>>
      /\ routed \in Nat /\ routed + 1 \notin Past(k)
  BY RouteFacts
<1>2. /\ listeners' \in Seq(Listener) /\ DOMAIN listeners' = DOMAIN listeners
      /\ Len(listeners') = Len(listeners) /\ listeners'[k] = row
      /\ \A i \in DOMAIN listeners \ {k} : listeners'[i] = listeners[i]
  BY <1>1 DEF RouterInv, RouterTypes
<1>3. ASSUME NEW i \in DOMAIN listeners \ {k}
      PROVE  /\ Past(i)' = Past(i) /\ Wanted(i)' = Wanted(i)
             /\ Accepted(i)' = Accepted(i) /\ Missed(i)' = Missed(i) /\ Fits(i)'
  <2>1. i \in Nat /\ (i < turn' <=> i < turn)
    BY <1>1, ListenerTypes DEF RouterInv
  <2>2. Past(i)' = Past(i)
    BY <1>1, <1>2, <2>1 DEF Past
  <2>3. Wanted(i)' = Wanted(i) /\ Accepted(i)' = Accepted(i)
    BY <1>1, <1>2, <2>2 DEF Wanted, Accepted
  <2>4. Missed(i)' = Missed(i)
    BY <2>3 DEF Missed
  <2> QED
    BY <1>1, <1>2, <2>2, <2>3, <2>4 DEF RouterInv, AllFit, Fits
<1>4. Past(k)' = Past(k) \cup {routed + 1}
  <2>1. listeners[k].joined \in Nat /\ listeners[k].joined <= routed /\ ~(k < turn) /\ k < turn'
    BY SMTT(30), <1>1, ListenerTypes DEF RouterInv, AllFit, Fits, Listener
  <2>2. Past(k) = listeners[k].joined + 1 .. routed /\ Past(k)' = listeners[k].joined + 1 .. routed + 1
    BY <1>1, <1>2, <2>1 DEF Past
  <2> QED
    BY <1>1, <2>1, <2>2
<1>5. Wanted(k)' = IF Matches(listeners[k].spec.filter, produced[routed + 1])
                   THEN Wanted(k) \cup {routed + 1} ELSE Wanted(k)
  <2> DEFINE F(n) == Matches(listeners[k].spec.filter, produced[n])
  <2>1. Wanted(k) = {n \in Past(k) : F(n)}
    BY DEF Wanted
  <2>2. Wanted(k)' = {n \in Past(k)' : F(n)}
    BY <1>1, <1>2 DEF Wanted
  <2> HIDE DEF F
  <2>3. Wanted(k)' = IF F(routed + 1) THEN Wanted(k) \cup {routed + 1} ELSE Wanted(k)
    BY <1>4, <2>1, <2>2
  <2> QED
    BY <2>3 DEF F
<1> QED
  BY <1>2, <1>3, <1>4, <1>5 DEF Accepted

\* What is common to the three outcomes.
LEMMA RoutedTypes ==
    ASSUME RouterInv, RouteTo, anyDropped' \in BOOLEAN, routedFiltered' \in Nat,
           listeners' \in Seq(Listener), Len(listeners') = Len(listeners)
    PROVE  RouterTypes' /\ NumbersInOrder'
<1>1. RouterTypes'
  BY RouteFacts DEF RouterInv, RouterTypes
<1>2. NumbersInOrder'
  BY RouteFacts DEF RouterInv, NumbersInOrder
<1> QED
  BY <1>1, <1>2

\* The envelope is none the subscriber asked for.
LEMMA SparedStep ==
    ASSUME RouterInv, RouteTo, ~Matches(listeners[turn].spec.filter, produced[Head(ahead)])
    PROVE  RouterInv'
<1>1. PICK k \in DOMAIN listeners : k = turn
  BY RouteFacts
<1>2. PICK n \in Nat : n = routed + 1 /\ n = Head(ahead)
  BY RouteFacts
<1>3. /\ listeners' = listeners /\ anyDropped' = anyDropped /\ routedFiltered' = routedFiltered + 1
      /\ listeners[k] \in Listener /\ listeners' = [listeners EXCEPT ![k] = listeners[k]]
      /\ UNCHANGED <<routed, routedDropped, produced>>
      /\ n \notin Past(k) /\ n \in DOMAIN produced /\ turn > 0 /\ turn' > 0
  BY <1>1, <1>2, ListenerTypes, RouteFacts DEF RouteTo, RouterInv, RouterTypes
<1>4. /\ \A i \in DOMAIN listeners \ {k} :
             Past(i)' = Past(i) /\ Wanted(i)' = Wanted(i) /\ Missed(i)' = Missed(i) /\ Fits(i)'
      /\ Past(k)' = Past(k) \cup {n} /\ Wanted(k)' = Wanted(k) /\ Accepted(k)' = Accepted(k)
  BY <1>1, <1>2, <1>3, RowRouted DEF Accepted
<1>5. Missed(k)' = Missed(k) /\ Fits(k)'
  <2>1. Missed(k)' = Missed(k)
    BY <1>4 DEF Missed
  <2>2. Fits(k)
    BY DEF RouterInv, AllFit
  <2>3. /\ Wanted(k)' = Wanted(k) /\ Accepted(k)' = Accepted(k)
        /\ listeners'[k] = listeners[k] /\ routed' = routed
    BY <1>3, <1>4
  <2> QED
    <3>1. PICK m, w, a, l, r :
              /\ m = Missed(k) /\ w = Wanted(k) /\ a = Accepted(k) /\ l = listeners[k] /\ r = routed
              /\ m = Missed(k)' /\ w = Wanted(k)' /\ a = Accepted(k)' /\ l = listeners'[k] /\ r = routed'
      BY <2>1, <2>3
    <3>2. /\ l.joined <= r /\ Rising(a) /\ ToSet(a) \subseteq w
          /\ Delivered(l) = Len(a) /\ Dropped(l) = Cardinality(m)
          /\ (l.spec.policy = "Block" /\ ~l.ended) => m = {}
      BY <2>2, <3>1 DEF Fits
    <3> QED
      BY <2>1, <3>1, <3>2 DEF Fits
<1>6. RouterTypes' /\ NumbersInOrder'
  BY <1>3, RoutedTypes DEF RouterInv, RouterTypes
<1>7. Cardinality(Spared') = Cardinality(Spared) + 1
  <2>1. n \notin Wanted(k) /\ <<k, n>> \notin Spared
    BY <1>3 DEF Wanted, Spared
  <2>2. ASSUME NEW p, p \in Spared' PROVE p \in Spared \cup {<<k, n>>}
    BY <1>3, <1>4, <2>2 DEF Spared
  <2>3. ASSUME NEW p, p \in Spared \cup {<<k, n>>} PROVE p \in Spared'
    <3>1. CASE p = <<k, n>>
      BY <1>3, <1>4, <2>1, <3>1 DEF Spared
    <3>2. CASE p \in Spared
      BY <1>3, <1>4, <3>2 DEF Spared
    <3> QED
      BY <2>3, <3>1, <3>2
  <2>4. Spared' = Spared \cup {<<k, n>>}
    BY <2>2, <2>3
  <2> QED
    BY <2>1, <2>4, CountsAreFinite, FS_AddElement
<1>8. Lost' = Lost
  BY <1>3, <1>4, <1>5 DEF Lost
<1>9. Counted'
  BY <1>3, <1>4, <1>5, <1>7, <1>8 DEF RouterInv, Counted
<1> QED
  BY <1>3, <1>4, <1>5, <1>6, <1>9 DEF RouterInv, AllFit

\* The subscriber asked for it: its channel takes it, or it is counted as dropped.
LEMMA OfferedStep ==
    ASSUME RouterInv, RouteTo, Matches(listeners[turn].spec.filter, produced[Head(ahead)])
    PROVE  RouterInv'
<1>1. PICK k \in DOMAIN listeners : k = turn
  BY RouteFacts
<1>2. PICK n \in Nat : n = routed + 1 /\ n = Head(ahead)
  BY RouteFacts
<1> DEFINE l == listeners[k]
           refused == l.ended \/ QueueFull(l)
           dropping == [l EXCEPT !.uncounted = "dropped"]
           taking == [l EXCEPT !.queue = Append(@, n), !.uncounted = "delivered"]
<1>3. /\ ~Waits(l) /\ anyDropped' = (anyDropped \/ refused) /\ routedFiltered' = routedFiltered
      /\ listeners' = [listeners EXCEPT ![k] = IF refused THEN dropping ELSE taking]
      /\ UNCHANGED <<routed, routedDropped, produced>>
      /\ n \notin Past(k) /\ Past(k) \subseteq 1..routed /\ turn > 0 /\ turn' > 0 /\ routed \in Nat
      /\ l \in Listener /\ l.uncounted = "none"
  <2>1. /\ UNCHANGED <<routed, routedDropped, produced>>
        /\ n \notin Past(k) /\ Past(k) \subseteq 1..routed /\ turn > 0 /\ turn' > 0 /\ routed \in Nat
        /\ l \in Listener
    BY <1>1, <1>2, ListenerTypes, RouteFacts DEF RouterInv
  <2>3. l.uncounted = "none"
    BY DEF RouteTo, AllCounted
  <2>2. /\ ~Waits(l) /\ anyDropped' = (anyDropped \/ refused) /\ routedFiltered' = routedFiltered
        /\ listeners' = [listeners EXCEPT ![k] = IF refused THEN dropping ELSE taking]
    <3>1. ~Waits(l) /\ routedFiltered' = routedFiltered
      BY <1>1, <1>2 DEF RouteTo
    <3>2. anyDropped' = (anyDropped \/ refused)
      BY <1>1, <1>2, Zenon DEF RouteTo
    <3>3. listeners' = [listeners EXCEPT ![k] = IF refused THEN dropping ELSE taking]
      BY <1>1, <1>2 DEF RouteTo
    <3> QED
      BY <3>1, <3>2, <3>3
  <2> QED
    BY <2>1, <2>2, <2>3
<1>0. /\ Dropped(l) \in Nat /\ Dropped(l) + 1 \in Nat /\ Delivered(l) \in Nat /\ Delivered(l) + 1 \in Nat
      /\ l.shown \in Seq(Nat) /\ l.batch \in Seq(Nat) /\ l.queue \in Seq(Nat)
      /\ Append(l.queue, n) \in Seq(Nat)
  BY <1>3 DEF Listener, Delivered, Dropped
<1>4. /\ dropping \in Listener /\ AcceptedBy(dropping) = AcceptedBy(l)
      /\ dropping.spec = l.spec /\ dropping.joined = l.joined /\ dropping.ended = l.ended
      /\ Dropped(dropping) = Dropped(l) + 1 /\ Delivered(dropping) = Delivered(l)
  <2>1. dropping \in Listener
    BY <1>0, <1>3 DEF Listener
  <2>2. /\ dropping.spec = l.spec /\ dropping.joined = l.joined /\ dropping.ended = l.ended
        /\ Dropped(dropping) = Dropped(l) + 1 /\ Delivered(dropping) = Delivered(l)
        /\ dropping.shown = l.shown /\ dropping.batch = l.batch /\ dropping.queue = l.queue
    BY <1>3 DEF Listener, Delivered, Dropped
  <2> QED
    BY <2>1, <2>2 DEF AcceptedBy
<1>5. /\ taking \in Listener /\ AcceptedBy(taking) = Append(AcceptedBy(l), n)
      /\ taking.spec = l.spec /\ taking.joined = l.joined /\ taking.ended = l.ended
      /\ Dropped(taking) = Dropped(l) /\ Delivered(taking) = Delivered(l) + 1
  <2>1. l.shown \in Seq(Nat) /\ l.batch \in Seq(Nat) /\ l.queue \in Seq(Nat)
    BY <1>3 DEF Listener
  <2>2. Append(l.queue, n) \in Seq(Nat) /\ l.shown \o l.batch \in Seq(Nat)
    BY <2>1, ConcatFacts
  <2>3. \A a, b \in Seq(Nat) : a \o Append(b, n) = Append(a \o b, n)
    OBVIOUS
  <2>6. taking \in Listener
    BY <1>0, <1>3 DEF Listener
  <2>4. /\ taking.shown = l.shown /\ taking.batch = l.batch
        /\ taking.queue = Append(l.queue, n)
        /\ taking.spec = l.spec /\ taking.joined = l.joined /\ taking.ended = l.ended
        /\ Dropped(taking) = Dropped(l) /\ Delivered(taking) = Delivered(l) + 1
    BY <1>3 DEF Listener, Delivered, Dropped
  <2> HIDE DEF taking
  <2>5. AcceptedBy(taking) = Append(AcceptedBy(l), n)
    BY ZenonT(30), <2>1, <2>2, <2>3, <2>4 DEF AcceptedBy
  <2> QED
    BY <2>4, <2>5, <2>6
<1> HIDE DEF dropping, taking, refused
<1>6. PICK row \in Listener :
          /\ row = IF refused THEN dropping ELSE taking
          /\ listeners' = [listeners EXCEPT ![k] = row]
          /\ row.spec = l.spec /\ row.joined = l.joined /\ row.ended = l.ended
  BY <1>3, <1>4, <1>5
<1>7. /\ DOMAIN listeners' = DOMAIN listeners /\ listeners'[k] = row
      /\ listeners' \in Seq(Listener) /\ Len(listeners') = Len(listeners)
      /\ \A i \in DOMAIN listeners \ {k} :
             Past(i)' = Past(i) /\ Wanted(i)' = Wanted(i) /\ Missed(i)' = Missed(i) /\ Fits(i)'
      /\ Past(k)' = Past(k) \cup {n} /\ Wanted(k)' = Wanted(k) \cup {n}
      /\ Accepted(k)' = AcceptedBy(row)
  BY <1>1, <1>2, <1>6, RowRouted
<1>8. /\ Fits(k) /\ n \notin Wanted(k) /\ n \notin ToSet(Accepted(k)) /\ n \notin Missed(k)
      /\ Accepted(k) \in Seq(Nat) /\ IsFiniteSet(Missed(k)) /\ l.joined <= routed
      /\ \A x \in ToSet(Accepted(k)) : x < n
  <2>1. Fits(k) /\ n \notin Wanted(k)
    BY <1>3 DEF RouterInv, AllFit, Wanted
  <2>2. ToSet(Accepted(k)) \subseteq Past(k) /\ l.joined <= routed
    BY <2>1 DEF Fits, Wanted
  <2>3. n \notin Missed(k)
    BY <2>1 DEF Missed
  <2>4. Accepted(k) \in Seq(Nat) /\ IsFiniteSet(Missed(k))
    BY <2>2, ListenerTypes, PastFacts DEF RouterInv
  <2>5. n \notin ToSet(Accepted(k)) /\ \A x \in ToSet(Accepted(k)) : x < n
    <3>1. \A x \in 1..routed : x < n
      BY <1>2, <1>3
    <3> QED
      BY <1>3, <2>2, <3>1
  <2> QED
    BY <2>1, <2>2, <2>3, <2>4, <2>5
<1>9. Spared' = Spared
  <2>1. Past(k)' \ Wanted(k)' = Past(k) \ Wanted(k)
    BY <1>3, <1>7
  <2>2. ASSUME NEW p, p \in Spared' PROVE p \in Spared
    BY <1>3, <1>7, <2>1, <2>2 DEF Spared
  <2>3. ASSUME NEW p, p \in Spared PROVE p \in Spared'
    BY <1>3, <1>7, <2>1, <2>3 DEF Spared
  <2> QED
    BY <2>2, <2>3
<1>10. /\ Fits(k)' /\ Missed(k)' \cap 1..routed = Missed(k) \cap 1..routed
       /\ refused => n \in Missed(k)'
       /\ ~refused => Missed(k)' = Missed(k)
  <2>1. CASE refused
    <3>1. /\ Accepted(k)' = Accepted(k) /\ Missed(k)' = Missed(k) \cup {n}
          /\ Dropped(row) = Dropped(l) + 1 /\ Delivered(row) = Delivered(l)
      BY <1>4, <1>6, <1>7, <1>8, <2>1 DEF Missed, Accepted
    <3>2. ~(row.spec.policy = "Block" /\ ~row.ended)
      BY <1>3, <1>6, <2>1 DEF Waits, refused
    <3>3. Cardinality(Missed(k)') = Cardinality(Missed(k)) + 1
      BY <1>8, <3>1, FS_AddElement
    <3>4. Fits(k)'
      BY <1>3, <1>6, <1>7, <1>8, <3>1, <3>2, <3>3 DEF Fits
    <3> QED
      BY <1>2, <1>3, <2>1, <3>1, <3>4
  <2>2. CASE ~refused
    <3>1. /\ Accepted(k)' = Append(Accepted(k), n)
          /\ Dropped(row) = Dropped(l) /\ Delivered(row) = Delivered(l) + 1
      BY <1>5, <1>6, <1>7, <2>2 DEF Accepted
    <3>2. /\ ToSet(Append(Accepted(k), n)) = ToSet(Accepted(k)) \cup {n}
          /\ Len(Append(Accepted(k), n)) = Len(Accepted(k)) + 1
      BY <1>8, AppendFacts
    <3>3. Missed(k)' = Missed(k)
      BY <1>7, <1>8, <3>1, <3>2 DEF Missed
    <3>4. Rising(Append(Accepted(k), n))
      <4>1. /\ DOMAIN Accepted(k) = 1..Len(Accepted(k)) /\ Len(Accepted(k)) \in Nat
            /\ DOMAIN Append(Accepted(k), n) = 1..Len(Accepted(k)) + 1
            /\ \A j \in 1..Len(Accepted(k)) : Append(Accepted(k), n)[j] = Accepted(k)[j]
            /\ Append(Accepted(k), n)[Len(Accepted(k)) + 1] = n
            /\ \A j \in 1..Len(Accepted(k)) : Accepted(k)[j] < n
        BY <1>8, AppendFacts, ElementsOf
      <4>2. Rising(Accepted(k))
        BY <1>8 DEF Fits
      <4> QED
        BY <4>1, <4>2 DEF Rising
    <3>5. ToSet(Accepted(k))' \subseteq Wanted(k)'
      BY <1>7, <1>8, <3>1, <3>2 DEF Fits
    <3>6. (row.spec.policy = "Block" /\ ~row.ended) => Missed(k) = {}
      BY <1>6, <1>8 DEF Fits
    <3>7. Fits(k)'
      BY <1>3, <1>6, <1>7, <1>8, <3>1, <3>2, <3>3, <3>4, <3>5, <3>6 DEF Fits
    <3> QED
      BY <2>2, <3>3, <3>7
  <2> QED
    BY <2>1, <2>2
<1>11. Lost' = Lost
  <2>1. \A i \in DOMAIN listeners : Missed(i)' \cap 1..routed = Missed(i) \cap 1..routed
    BY <1>7, <1>10
  <2> QED
    BY <1>3, <1>7, <2>1 DEF Lost
<1>12. anyDropped' <=> \E i \in DOMAIN listeners' : routed' + 1 \in Missed(i)'
  <2>1. anyDropped <=> \E i \in DOMAIN listeners : n \in Missed(i)
    BY <1>2, <1>3 DEF RouterInv, Counted
  <2>2. \A i \in DOMAIN listeners : n \in Missed(i)' <=> (n \in Missed(i) \/ (i = k /\ refused))
    BY <1>7, <1>8, <1>10
  <2> QED
    BY <1>2, <1>3, <1>7, <2>1, <2>2
<1>13. Counted'
  BY <1>3, <1>9, <1>11, <1>12 DEF RouterInv, Counted
<1>14. RouterTypes' /\ NumbersInOrder'
  <2>1. anyDropped' \in BOOLEAN /\ routedFiltered' \in Nat
    BY <1>3 DEF RouterInv, RouterTypes
  <2> QED
    BY <1>7, <2>1, RoutedTypes
<1> QED
  BY <1>7, <1>10, <1>13, <1>14 DEF RouterInv, AllFit
-----------------------------------------------------------------------------
LEMMA RouterStays ==
    ASSUME RouterInv, [NextRouter]_routerVars
    PROVE  RouterInv'
<1>1. ASSUME NEW e \in RouterSamples, Produce(e) PROVE RouterInv'
  BY <1>1, ProduceStep
<1>2. ASSUME NEW spec \in Listeners, SubscribeTo(spec) PROVE RouterInv'
  BY <1>2, SubscribeStep
<1>3. CASE TakeBatch
  BY <1>3, TakeStep
<1>4. CASE BeginRoute
  BY <1>4, BeginStep
<1>5. CASE RouteTo
  BY <1>5, SparedStep, OfferedStep
<1>6. CASE EndRoute
  BY <1>6, EndStep
<1>7. ASSUME NEW i \in DOMAIN listeners,
             StreamTakes(i) \/ StreamIdles(i) \/ ShutDown(i) \/ StreamEnds(i) \/ CountRouted(i)
      PROVE  RouterInv'
  BY <1>7, StreamSteps
<1>8. CASE UNCHANGED routerVars
  <2>1. /\ UNCHANGED <<source, ahead, turn, anyDropped, listeners, produced>>
        /\ UNCHANGED <<routed, routedDropped, routedFiltered>>
    BY <1>8 DEF routerVars, routerCounts
  <2>2. RouterTypes' /\ NumbersInOrder'
    BY <2>1 DEF RouterInv, RouterTypes, NumbersInOrder
  <2>3. anyDropped' \in BOOLEAN
    BY <2>1 DEF RouterInv, RouterTypes
  <2> QED
    BY <2>1, <2>2, <2>3, RowsStay DEF routerCounts
<1> QED
  BY <1>1, <1>2, <1>3, <1>4, <1>5, <1>6, <1>7, <1>8 DEF NextRouter

\* Between two routes nobody has been offered more than was routed.
LEMMA RouterInvShows ==
    ASSUME RouterInv
    PROVE  StreamExact
<1>1. \A i \in DOMAIN listeners :
          LET l == listeners[i]
          IN  /\ Rising(Accepted(i)) /\ ToSet(Accepted(i)) \subseteq Wanted(i)
              /\ Delivered(l) = Len(Accepted(i)) /\ Dropped(l) = Cardinality(Missed(i))
              /\ (l.spec.policy = "Block" /\ ~l.ended) => Missed(i) = {}
  BY DEF RouterInv, AllFit, Fits
<1>2. ASSUME turn = 0 PROVE Lost = UNION {Missed(i) : i \in DOMAIN listeners}
  <2>1. ASSUME NEW i \in DOMAIN listeners PROVE Missed(i) \cap 1..routed = Missed(i)
    <3>1. /\ Missed(i) \subseteq Past(i) /\ Past(i) \subseteq 1..routed + 1
          /\ (routed + 1 \in Past(i) <=> i < turn)
      BY PastFacts DEF RouterInv, AllFit, Fits
    <3>2. i \in Nat /\ routed \in Nat /\ ~(i < turn)
      BY <1>2, ListenerTypes DEF RouterInv, RouterTypes
    <3> QED
      BY <3>1, <3>2
  <2> QED
    BY <2>1 DEF Lost
<1> QED
  BY <1>1, <1>2 DEF StreamExact, RouterInv, Counted

(* However routes, streams and shutdowns interleave, and whatever the sizes of   *)
(* the channels and batches: what a stream shows is what its subscriber accepted, *)
(* in order and each once, and what it did not accept is what TelemetryRouter     *)
(* counts.                                                                        *)
THEOREM StreamsAreExact == InitRouter /\ [][NextRouter]_routerVars => []StreamExact
<1>1. InitRouter => RouterInv
  BY InitRow
<1>2. RouterInv /\ [NextRouter]_routerVars => RouterInv'
  BY RouterStays
<1>3. RouterInv => StreamExact
  BY RouterInvShows
<1> QED
  BY <1>1, <1>2, <1>3, PTL
=============================================================================
