--------------------------- MODULE EventBusProofs ---------------------------
(***************************************************************************)
(* For any emitters, subscribers and events, any channel capacity and any  *)
(* batch sizes: the event bus is type correct, every subscriber receives   *)
(* in the one order in which the lock was taken, what the storage actor    *)
(* was due is in one place and nothing of it is unaccounted for, the       *)
(* watermark passes no row that was not replayed, and what is emitted is   *)
(* journaled once or known not to be.                                      *)
(***************************************************************************)
EXTENDS EventBus, SequenceFacts

\* Whoever walks the subscriber list holds its lock and has the newest ticket.
LockHeld ==
    /\ \A t \in Threads : pc[t] = "deliver" <=> lock = t
    /\ \A t \in Threads : pc[t] = "deliver" =>
          ticket[t] = Len(order) /\ Len(order) \in Nat \ {0} /\ next[t] \in Nat \ {0}
    /\ \A t \in Threads : pc[t] # "idle" => hand[t] \in Events
    /\ \A i, j \in DOMAIN subscribed : subscribed[i] = subscribed[j] => i = j

\* A subscriber the walk has still to reach has seen older tickets only.
TicketIsNew ==
    \A t \in Threads, s \in Subscribers : Awaits(s, t) =>
        /\ lastTaken[s] < ticket[t]
        /\ \A i \in DOMAIN channel[s] : channel[s][i] < ticket[t]
        /\ s = Storage => ticket[t] \notin missed

ChannelInOrder ==
    \A s \in Subscribers :
        /\ Increasing(channel[s])
        /\ \A i \in DOMAIN channel[s] : lastTaken[s] < channel[s][i]

\* Written tickets precede those of the batch, which precede those to come.
StorageInOrder ==
    /\ Increasing(batch)
    /\ \A i \in DOMAIN batch : batch[i] <= lastTaken[Storage]
    /\ \A n \in written : n <= lastTaken[Storage] /\ \A i \in DOMAIN batch : n < batch[i]
    /\ missed \cap written = {}
    /\ \A i \in DOMAIN batch : batch[i] \notin missed
    /\ \A i \in DOMAIN channel[Storage] : channel[Storage][i] \notin missed

\* The replay has broadcast the rows behind it, but for the one in its hands.
ReplayProgress ==
    /\ pc[Main] # "idle" => replay = "broadcast" /\ replayNext > 1
    /\ replay = "broadcast" =>
          /\ 0 < replayNext /\ replayNext <= replayUntil + 1
          /\ \A i \in 1..(replayNext - 1) :
                i \in replayed \/ (i = replayNext - 1 /\ pc[Main] # "idle")

\* The tickets on their way to storage, and all that were due there.
Coming == {ticket[t] : t \in {u \in Threads : Awaits(Storage, u)}}
Accounted ==
    due = Coming \cup ToSet(batch) \cup ToSet(channel[Storage]) \cup written \cup missed

IInv == /\ TypeOK /\ LockHeld /\ TicketIsNew /\ ChannelInOrder /\ StorageInOrder
        /\ ReplayProgress /\ WatermarkCovers
-----------------------------------------------------------------------------
(* The parts of the invariant give the properties.                           *)

LEMMA InOrderTogether ==
    ASSUME NEW a \in Seq(Nat), NEW b \in Seq(Nat), Increasing(a), Increasing(b),
           \A i \in DOMAIN a, j \in DOMAIN b : a[i] < b[j]
    PROVE  Increasing(a \o b)
<1> SUFFICES ASSUME NEW i \in DOMAIN (a \o b), NEW j \in DOMAIN (a \o b), i < j
             PROVE  (a \o b)[i] < (a \o b)[j]
  BY DEF Increasing
<1>1. CASE j <= Len(a)
  BY <1>1 DEF Increasing
<1>2. CASE i <= Len(a) /\ j > Len(a)
  <2>1. (a \o b)[i] = a[i] /\ (a \o b)[j] = b[j - Len(a)] /\ i \in DOMAIN a /\ j - Len(a) \in DOMAIN b
    BY <1>2
  <2> QED
    BY <2>1
<1>3. CASE i > Len(a)
  <2>1. /\ (a \o b)[i] = b[i - Len(a)] /\ (a \o b)[j] = b[j - Len(a)]
        /\ i - Len(a) \in DOMAIN b /\ j - Len(a) \in DOMAIN b /\ i - Len(a) < j - Len(a)
    BY <1>3
  <2> QED
    BY <2>1 DEF Increasing
<1> QED
  BY <1>1, <1>2, <1>3

LEMMA AppendInOrder ==
    ASSUME NEW q \in Seq(Nat), NEW n \in Nat, Increasing(q), \A i \in DOMAIN q : q[i] < n
    PROVE  /\ Increasing(Append(q, n))
           /\ \A i \in DOMAIN Append(q, n) :
                 (i \in DOMAIN q /\ Append(q, n)[i] = q[i]) \/ Append(q, n)[i] = n
<1>1. \A i \in DOMAIN Append(q, n) :
          \/ i \in DOMAIN q /\ Append(q, n)[i] = q[i]
          \/ i = Len(q) + 1 /\ Append(q, n)[i] = n
  OBVIOUS
<1>2. ASSUME NEW i \in DOMAIN Append(q, n), NEW j \in DOMAIN Append(q, n), i < j
      PROVE  Append(q, n)[i] < Append(q, n)[j]
  <2>1. i \in DOMAIN q /\ Append(q, n)[i] = q[i]
    BY <1>1, <1>2
  <2> QED
    BY <1>1, <1>2, <2>1 DEF Increasing
<1> QED
  BY <1>1, <1>2 DEF Increasing

LEMMA HeadAndTail ==
    ASSUME NEW S, NEW q \in Seq(S), q # <<>>
    PROVE  /\ Head(q) = q[1] /\ 1 \in DOMAIN q /\ Head(q) \in S /\ Tail(q) \in Seq(S)
           /\ \A i \in DOMAIN Tail(q) : i + 1 \in DOMAIN q /\ Tail(q)[i] = q[i + 1]
<1>1. Len(q) \in Nat /\ Len(q) > 0 /\ DOMAIN q = 1..Len(q)
  OBVIOUS
<1>2. Tail(q) \in Seq(S) /\ Len(Tail(q)) = Len(q) - 1 /\ DOMAIN Tail(q) = 1..(Len(q) - 1)
  BY <1>1
<1>3. ASSUME NEW i \in DOMAIN Tail(q) PROVE i + 1 \in DOMAIN q /\ Tail(q)[i] = q[i + 1]
  BY <1>1, <1>2
<1> QED
  BY <1>1, <1>2, <1>3

LEMMA TailInOrder ==
    ASSUME NEW q \in Seq(Nat), q # <<>>, Increasing(q)
    PROVE  Increasing(Tail(q)) /\ \A i \in DOMAIN Tail(q) : Head(q) < Tail(q)[i]
<1>1. /\ Head(q) = q[1] /\ 1 \in DOMAIN q
      /\ \A i \in DOMAIN Tail(q) : i \in Nat /\ i > 0 /\ i + 1 \in DOMAIN q /\ Tail(q)[i] = q[i + 1]
  BY HeadAndTail
<1> QED
  BY <1>1 DEF Increasing

LEMMA OrderIsOne ==
    ASSUME TypeOK, ChannelInOrder
    PROVE  OneOrder
<1> SUFFICES ASSUME NEW s \in Subscribers
             PROVE  Increasing(<<lastTaken[s]>> \o channel[s])
  BY DEF OneOrder
<1>1. lastTaken[s] \in Nat /\ channel[s] \in Seq(Nat)
  BY DEF TypeOK, BusTypeOK, StorageTypeOK
<1>2. <<lastTaken[s]>> \in Seq(Nat) /\ Increasing(<<lastTaken[s]>>)
  BY <1>1 DEF Increasing
<1>3. \A i \in DOMAIN <<lastTaken[s]>>, j \in DOMAIN channel[s] : <<lastTaken[s]>>[i] < channel[s][j]
  BY DEF ChannelInOrder
<1> QED
  BY <1>1, <1>2, <1>3, InOrderTogether DEF ChannelInOrder

LEMMA StorageIsExact ==
    ASSUME TypeOK, ChannelInOrder, StorageInOrder, Accounted
    PROVE  StorageExact
<1> DEFINE c == channel[Storage]
           w == batch \o c
<1>1. /\ batch \in Seq(Nat) /\ c \in Seq(Nat) /\ lastTaken[Storage] \in Nat
      /\ written \subseteq Nat
  BY BusAssumption DEF TypeOK, BusTypeOK, StorageTypeOK
<1>2. \A i \in DOMAIN batch, j \in DOMAIN c : batch[i] < c[j]
  <2> SUFFICES ASSUME NEW i \in DOMAIN batch, NEW j \in DOMAIN c PROVE batch[i] < c[j]
    OBVIOUS
  <2>1. batch[i] <= lastTaken[Storage] /\ lastTaken[Storage] < c[j] /\ batch[i] \in Nat /\ c[j] \in Nat
    BY <1>1, BusAssumption DEF StorageInOrder, ChannelInOrder
  <2> QED
    BY <2>1, <1>1
<1>3. Increasing(w)
  BY <1>1, <1>2, InOrderTogether, BusAssumption DEF StorageInOrder, ChannelInOrder
<1>4. ASSUME NEW i \in DOMAIN w
      PROVE  (\E j \in DOMAIN batch : w[i] = batch[j]) \/ (\E j \in DOMAIN c : w[i] = c[j])
  <2>1. CASE i <= Len(batch)
    BY <2>1, <1>1
  <2>2. CASE i > Len(batch)
    <3>1. i - Len(batch) \in DOMAIN c /\ w[i] = c[i - Len(batch)]
      BY <2>2, <1>1
    <3> QED
      BY <3>1
  <2> QED
    BY <2>1, <2>2, <1>1
<1>5. ASSUME NEW n \in written, NEW i \in DOMAIN w PROVE n < w[i]
  <2>1. CASE \E j \in DOMAIN batch : w[i] = batch[j]
    BY <2>1 DEF StorageInOrder
  <2>2. CASE \E j \in DOMAIN c : w[i] = c[j]
    <3>1. PICK j \in DOMAIN c : w[i] = c[j]
      BY <2>2
    <3>2. n <= lastTaken[Storage] /\ lastTaken[Storage] < c[j] /\ n \in Nat /\ c[j] \in Nat
      BY <1>1, BusAssumption DEF StorageInOrder, ChannelInOrder
    <3> QED
      BY <3>1, <3>2, <1>1
  <2> QED
    BY <2>1, <2>2, <1>4
<1>6. missed \cap (written \cup ToSet(w)) = {}
  BY <1>4 DEF StorageInOrder, ToSet
<1>7. due = Coming \cup ToSet(w) \cup written \cup missed
  <2>1. ToSet(w) = ToSet(batch) \cup ToSet(c)
    BY <1>1, ConcatFacts
  <2> QED
    BY <2>1 DEF Accounted
<1> QED
  BY <1>3, <1>5, <1>6, <1>7 DEF StorageExact, Coming
-----------------------------------------------------------------------------
(* What a step that leaves a part of the state alone keeps.                  *)

LEMMA BusUntouched ==
    ASSUME IInv, UNCHANGED <<bus, lastTaken, missed, batch, written>>
    PROVE  LockHeld' /\ TicketIsNew' /\ ChannelInOrder' /\ StorageInOrder'
<1>1. LockHeld'
  BY DEF IInv, LockHeld, bus
<1>2. TicketIsNew'
  BY DEF IInv, TicketIsNew, Awaits, bus
<1>3. ChannelInOrder'
  BY DEF IInv, ChannelInOrder, Increasing, bus
<1>4. StorageInOrder'
  BY DEF IInv, StorageInOrder, Increasing, bus
<1> QED
  BY <1>1, <1>2, <1>3, <1>4

LEMMA ReplayUntouched ==
    ASSUME IInv, UNCHANGED <<pc[Main], replaying, replayed>>
    PROVE  ReplayProgress' /\ WatermarkCovers'
BY DEF IInv, ReplayProgress, WatermarkCovers, replaying

LEMMA StorageUntouched ==
    ASSUME IInv, UNCHANGED <<channel, lastTaken, missed, batch, written>>
    PROVE  ChannelInOrder' /\ StorageInOrder'
BY DEF IInv, ChannelInOrder, StorageInOrder, Increasing

LEMMA JournalTyped ==
    ASSUME IInv, UNCHANGED <<journal, replaying, emitted, replayed>>
    PROVE  JournalTypeOK'
BY DEF IInv, TypeOK, JournalTypeOK, journal, replaying

LEMMA StorageTyped ==
    ASSUME IInv, UNCHANGED <<order, storing, missed>>
    PROVE  StorageTypeOK'
BY DEF IInv, TypeOK, StorageTypeOK, storing

LEMMA BusTyped ==
    ASSUME IInv, UNCHANGED <<up, sessions, bus, lastTaken>>
    PROVE  BusTypeOK'
BY DEF IInv, TypeOK, BusTypeOK, bus

LEMMA ToSetOfSeq ==
    ASSUME NEW S, NEW q \in Seq(S)
    PROVE  ToSet(q) \subseteq S
BY DEF ToSet

LEMMA InitInvariant == Init => IInv
<1> SUFFICES ASSUME Init PROVE IInv
  OBVIOUS
<1> USE BusAssumption DEF Init, NoEvents, Zeros
<1>1. TypeOK
  <2>1. order \in Seq(Events) /\ 0..Len(order) = {0} /\ due \subseteq 1..Len(order)
    OBVIOUS
  <2>2. /\ ticket \in [Threads -> 0..Len(order)] /\ next \in [Threads -> Nat]
        /\ lastTaken \in [Subscribers -> 0..Len(order)]
        /\ channel \in [Subscribers -> Seq(1..Len(order))]
    BY <2>1
  <2>3. BusTypeOK
    <3>1. /\ pc \in [Threads -> {"idle", "lock", "deliver"}] /\ hand \in [Threads -> Events \cup {Free}]
          /\ subscribed \in Seq(Subscribers) /\ up \in BOOLEAN /\ sessions \in 0..MaxSessions
      <4>1. up \in BOOLEAN /\ sessions \in 0..MaxSessions
        <5>1. up \in BOOLEAN
          BY Zenon DEF Init
        <5>2. sessions \in 0..MaxSessions
          OBVIOUS
        <5> QED
          BY <5>1, <5>2
      <4>2. subscribed \in Seq(Subscribers)
        OBVIOUS
      <4>3. pc \in [Threads -> {"idle", "lock", "deliver"}]
        OBVIOUS
      <4>4. hand \in [Threads -> Events \cup {Free}]
        OBVIOUS
      <4> QED
        BY <4>1, <4>2, <4>3, <4>4
    <3>2. lock \in Threads \cup {Free}
      OBVIOUS
    <3> QED
      BY <2>1, <2>2, <3>1, <3>2 DEF BusTypeOK
  <2>4. JournalTypeOK
    BY DEF JournalTypeOK
  <2>5. StorageTypeOK
    BY DEF StorageTypeOK
  <2> QED
    BY <2>3, <2>4, <2>5 DEF TypeOK
<1>2. LockHeld
  BY DEF LockHeld, Threads
<1>3. TicketIsNew
  BY DEF TicketIsNew, Awaits
<1>4. ChannelInOrder
  BY DEF ChannelInOrder, Increasing
<1>5. StorageInOrder
  BY DEF StorageInOrder, Increasing
<1>6. ReplayProgress
  BY DEF ReplayProgress, Threads
<1>7. WatermarkCovers
  BY DEF WatermarkCovers
<1> QED
  BY <1>1, <1>2, <1>3, <1>4, <1>5, <1>6, <1>7 DEF IInv
-----------------------------------------------------------------------------
(* The steps inside the bus.                                                 *)

LEMMA SubscribeKeeps ==
    ASSUME IInv, NEW s \in Subscribers, Subscribe(s)
    PROVE  IInv'
<1> USE DEF Subscribe
<1>1. TypeOK'
  <2>1. BusTypeOK'
    BY DEF IInv, TypeOK, BusTypeOK
  <2> QED
    BY <2>1, JournalTyped, StorageTyped DEF TypeOK
<1>2. LockHeld'
  <2>1. \A i \in DOMAIN subscribed : subscribed[i] # s
    BY DEF ToSet
  <2>2. subscribed \in Seq(Subscribers)
    BY DEF IInv, TypeOK, BusTypeOK, StorageTypeOK
  <2>3. \A i, j \in DOMAIN subscribed' : subscribed'[i] = subscribed'[j] => i = j
    BY <2>1, <2>2 DEF IInv, LockHeld
  <2> QED
    BY <2>3 DEF IInv, LockHeld
<1>3. TicketIsNew'
  BY BusAssumption DEF IInv, LockHeld, TicketIsNew, Awaits, Threads
<1>4. ChannelInOrder' /\ StorageInOrder'
  BY StorageUntouched DEF storing
<1>5. ReplayProgress' /\ WatermarkCovers'
  BY ReplayUntouched
<1> QED
  BY <1>1, <1>2, <1>3, <1>4, <1>5 DEF IInv

LEMMA EmitKeeps ==
    ASSUME IInv, NEW t \in Emitters, NEW e \in Events, Emit(t, e)
    PROVE  IInv'
<1> USE DEF Emit
<1>0. t \in Threads /\ t # Main
  BY BusAssumption DEF Threads
<1>1. TypeOK'
  <2>1. BusTypeOK'
    BY <1>0 DEF IInv, TypeOK, BusTypeOK
  <2>2. journalChannel' \in Seq(Events) /\ unjournaled' \subseteq Events
    <3>1. journalChannel \in Seq(Events) /\ unjournaled \subseteq Events
      BY DEF IInv, TypeOK, JournalTypeOK
    <3> QED
      BY <3>1
  <2>3. JournalTypeOK'
    BY <2>2 DEF IInv, TypeOK, JournalTypeOK, replaying
  <2> QED
    BY <2>1, <2>3, StorageTyped DEF TypeOK
<1>2. LockHeld'
  BY <1>0 DEF IInv, TypeOK, BusTypeOK, StorageTypeOK, LockHeld
<1>3. TicketIsNew'
  BY <1>0 DEF IInv, TypeOK, BusTypeOK, StorageTypeOK, TicketIsNew, Awaits
<1>4. ChannelInOrder' /\ StorageInOrder'
  BY StorageUntouched DEF storing
<1>5. ReplayProgress' /\ WatermarkCovers'
  <2>1. pc'[Main] = pc[Main]
    BY <1>0 DEF IInv, TypeOK, BusTypeOK
  <2> QED
    BY <2>1, ReplayUntouched
<1> QED
  BY <1>1, <1>2, <1>3, <1>4, <1>5 DEF IInv

LEMMA LockKeeps ==
    ASSUME IInv, NEW t \in Threads, Lock(t)
    PROVE  IInv'
<1> USE DEF Lock
<1>1. TypeOK'
  <2>1. order' \in Seq(Events) /\ Len(order') = Len(order) + 1 /\ Len(order) \in Nat
    BY DEF IInv, TypeOK, BusTypeOK, StorageTypeOK, LockHeld
  <2>2. 1..Len(order) \subseteq 1..Len(order') /\ 0..Len(order) \subseteq 0..Len(order')
    BY <2>1
  <2>3. /\ ticket' \in [Threads -> 0..Len(order')]
        /\ channel' \in [Subscribers -> Seq(1..Len(order'))]
        /\ lastTaken' \in [Subscribers -> 0..Len(order')]
        /\ batch' \in Seq(1..Len(order'))
        /\ written' \subseteq 1..Len(order') /\ missed' \subseteq 1..Len(order')
    BY <2>1, <2>2 DEF IInv, TypeOK, BusTypeOK, StorageTypeOK, storing
  <2>6. due' \subseteq 1..Len(order')
    <3>1. due \subseteq 1..Len(order) /\ due' \subseteq due \cup {Len(order) + 1}
      BY DEF IInv, TypeOK, BusTypeOK
    <3>2. Len(order) + 1 \in 1..Len(order')
      BY <2>1
    <3> QED
      BY <2>2, <3>1, <3>2
  <2>4. BusTypeOK'
    BY <2>1, <2>3, <2>6 DEF IInv, TypeOK, BusTypeOK
  <2>5. StorageTypeOK'
    BY <2>3 DEF IInv, TypeOK, StorageTypeOK, storing
  <2> QED
    BY <2>4, <2>5, JournalTyped DEF TypeOK
<1>2. LockHeld'
  BY BusAssumption DEF IInv, TypeOK, BusTypeOK, StorageTypeOK, LockHeld, Threads
<1>3. TicketIsNew'
  <2>1. \A u \in Threads : pc'[u] = "deliver" => u = t
    BY BusAssumption DEF IInv, TypeOK, BusTypeOK, StorageTypeOK, LockHeld, Threads
  <2>2. ticket'[t] = Len(order) + 1 /\ Len(order) \in Nat
    BY DEF IInv, TypeOK, BusTypeOK, StorageTypeOK
  <2>3. ASSUME NEW s \in Subscribers
        PROVE  /\ lastTaken[s] < Len(order) + 1
               /\ \A i \in DOMAIN channel[s] : channel[s][i] < Len(order) + 1
    BY <2>2 DEF IInv, TypeOK, BusTypeOK, StorageTypeOK
  <2>4. Len(order) + 1 \notin missed
    BY <2>2 DEF IInv, TypeOK, BusTypeOK, StorageTypeOK
  <2> QED
    BY <2>1, <2>2, <2>3, <2>4 DEF TicketIsNew, Awaits
<1>4. ChannelInOrder' /\ StorageInOrder'
  BY StorageUntouched DEF storing
<1>5. ReplayProgress' /\ WatermarkCovers'
  BY DEF IInv, TypeOK, BusTypeOK, JournalTypeOK, ReplayProgress, WatermarkCovers, replaying
<1> QED
  BY <1>1, <1>2, <1>3, <1>4, <1>5 DEF IInv

LEMMA DeliverKeeps ==
    ASSUME IInv, NEW t \in Threads, Deliver(t)
    PROVE  IInv'
<1>1. /\ next[t] \in DOMAIN subscribed /\ next[t] \in Nat \ {0}
      /\ subscribed[next[t]] \in Subscribers
      /\ ticket[t] = Len(order) /\ ticket[t] \in 1..Len(order)
  <2>1. pc[t] = "deliver" /\ subscribed \in Seq(Subscribers) /\ next[t] <= Len(subscribed)
    BY DEF IInv, TypeOK, BusTypeOK, Deliver
  <2>2. ticket[t] = Len(order) /\ Len(order) \in Nat \ {0} /\ next[t] \in Nat \ {0}
    BY <2>1 DEF IInv, LockHeld
  <2> QED
    BY <2>1, <2>2
<1>2. PICK s \in Subscribers : s = subscribed[next[t]]
  BY <1>1
<1>3. /\ channel[s] \in Seq(1..Len(order)) /\ channel \in [Subscribers -> Seq(1..Len(order))]
      /\ Len(channel[s]) \in Nat /\ missed \subseteq 1..Len(order)
      /\ channel[s] \in Seq(Nat) /\ ticket[t] \in Nat /\ lastTaken[s] \in Nat
  BY SMTT(30), <1>1, <1>2 DEF IInv, TypeOK, BusTypeOK, StorageTypeOK
<1>4. \/ channel' = [channel EXCEPT ![s] = Append(@, ticket[t])] /\ missed' = missed
      \/ channel' = channel /\ missed' = IF s = Storage THEN missed \cup {ticket[t]} ELSE missed
  BY <1>2 DEF Deliver
<1>5. pc[t] = "deliver" /\ Awaits(s, t)
  BY <1>1, <1>2 DEF Deliver, Awaits
<1>6. /\ \A i \in DOMAIN channel[s] : channel[s][i] < ticket[t]
      /\ lastTaken[s] < ticket[t] /\ (s = Storage => ticket[t] \notin missed)
  BY <1>5 DEF IInv, TicketIsNew
<1>7. next' = [next EXCEPT ![t] = next[t] + 1] /\ next \in [Threads -> Nat]
  BY DEF Deliver, IInv, TypeOK, BusTypeOK
<1>8. UNCHANGED <<up, sessions, subscribed, lock, pc, hand, ticket, order, due, lastTaken, journal,
                  replaying, storing, emitted, replayed>>
  BY DEF Deliver
<1>9. TypeOK'
  <2>1. channel' \in [Subscribers -> Seq(1..Len(order))] /\ missed' \subseteq 1..Len(order)
    <3>1. Append(channel[s], ticket[t]) \in Seq(1..Len(order))
      BY <1>1, <1>3
    <3> QED
      BY <1>1, <1>3, <1>4, <3>1
  <2>2. BusTypeOK'
    BY SMTT(30), <1>7, <1>8, <2>1 DEF IInv, TypeOK, BusTypeOK
  <2>3. StorageTypeOK'
    BY <1>8, <2>1 DEF IInv, TypeOK, StorageTypeOK, storing
  <2> QED
    BY <1>8, <2>2, <2>3, JournalTyped DEF TypeOK
<1>10. LockHeld'
  <2>1. next'[t] \in Nat \ {0} /\ \A u \in Threads \ {t} : next'[u] = next[u]
    BY <1>1, <1>7
  <2> QED
    BY <1>8, <2>1 DEF IInv, LockHeld
<1>11. TicketIsNew'
  <2> SUFFICES ASSUME NEW u \in Threads, NEW r \in Subscribers, Awaits(r, u)'
               PROVE  /\ lastTaken[r] < ticket[u]
                      /\ \A i \in DOMAIN channel'[r] : channel'[r][i] < ticket[u]
                      /\ r = Storage => ticket[u] \notin missed'
    BY <1>8 DEF TicketIsNew
  <2>1. u = t
    <3>1. pc[u] = "deliver"
      BY <1>8 DEF Awaits
    <3> QED
      BY <1>5, <3>1 DEF IInv, LockHeld
  <2>2. r # s /\ Awaits(r, t)
    <3>1. PICK j \in DOMAIN subscribed : next[t] + 1 <= j /\ subscribed[j] = r
      BY <1>7, <1>8, <2>1 DEF Awaits
    <3>2. j \in Nat /\ j # next[t] /\ next[t] <= j
      <4>1. subscribed \in Seq(Subscribers)
        BY DEF IInv, TypeOK, BusTypeOK
      <4>2. j \in Nat
        BY <4>1
      <4> QED
        BY <1>1, <3>1, <4>2
    <3>3. r # s
      BY <1>1, <1>2, <3>1, <3>2 DEF IInv, LockHeld
    <3> QED
      BY <1>5, <3>1, <3>2, <3>3 DEF Awaits
  <2>3. channel'[r] = channel[r] /\ (r = Storage => missed' = missed)
    BY <1>3, <1>4, <2>2
  <2> QED
    BY <2>1, <2>2, <2>3 DEF IInv, TicketIsNew
<1>12. ReplayProgress' /\ WatermarkCovers'
  BY <1>8, ReplayUntouched
<1>13. CASE channel' = [channel EXCEPT ![s] = Append(@, ticket[t])] /\ missed' = missed
  <2>1. channel'[s] = Append(channel[s], ticket[t]) /\ \A r \in Subscribers \ {s} : channel'[r] = channel[r]
    BY <1>3, <1>13
  <2>2. Increasing(channel[s]) /\ \A i \in DOMAIN channel[s] : lastTaken[s] < channel[s][i]
    BY DEF IInv, ChannelInOrder
  <2>3. /\ Increasing(channel'[s])
        /\ \A i \in DOMAIN channel'[s] :
              (i \in DOMAIN channel[s] /\ channel'[s][i] = channel[s][i]) \/ channel'[s][i] = ticket[t]
    BY <1>3, <1>6, <2>1, <2>2, AppendInOrder
  <2>4. \A i \in DOMAIN channel'[s] : lastTaken[s] < channel'[s][i]
    BY <1>6, <2>2, <2>3
  <2>5. ChannelInOrder'
    BY <1>8, <2>1, <2>3, <2>4 DEF IInv, ChannelInOrder, Increasing
  <2>6. \A i \in DOMAIN channel'[Storage] : channel'[Storage][i] \notin missed
    BY <1>6, <2>1, <2>3, BusAssumption DEF IInv, StorageInOrder
  <2>7. StorageInOrder'
    BY <1>8, <1>13, <2>6 DEF IInv, StorageInOrder, Increasing, storing
  <2> QED
    BY <1>9, <1>10, <1>11, <1>12, <2>5, <2>7 DEF IInv
<1>14. CASE channel' = channel /\ s = Storage /\ missed' = missed \cup {ticket[t]}
  <2>1. ChannelInOrder'
    BY <1>8, <1>14 DEF IInv, ChannelInOrder, Increasing
  <2>2. batch \in Seq(Nat) /\ written \subseteq Nat /\ channel[Storage] \in Seq(Nat)
    BY <1>3, <1>14 DEF IInv, TypeOK, StorageTypeOK
  <2>3. /\ \A i \in DOMAIN batch : batch[i] # ticket[t]
        /\ \A n \in written : n # ticket[t]
        /\ \A i \in DOMAIN channel[Storage] : channel[Storage][i] # ticket[t]
    BY <1>3, <1>6, <1>14, <2>2 DEF IInv, StorageInOrder
  <2>4. StorageInOrder'
    BY <1>8, <1>14, <2>3 DEF IInv, StorageInOrder, Increasing, storing
  <2> QED
    BY <1>9, <1>10, <1>11, <1>12, <2>1, <2>4 DEF IInv
<1>15. CASE channel' = channel /\ missed' = missed
  BY <1>8, <1>9, <1>10, <1>11, <1>12, <1>15, StorageUntouched DEF IInv, storing
<1> QED
  BY <1>4, <1>13, <1>14, <1>15

LEMMA UnlockKeeps ==
    ASSUME IInv, NEW t \in Threads, Unlock(t)
    PROVE  IInv'
<1> USE DEF Unlock
<1>1. TypeOK'
  <2>1. replayed' \subseteq 1..Len(rows)
    BY DEF IInv, TypeOK, JournalTypeOK, ReplayProgress
  <2>2. BusTypeOK'
    BY DEF IInv, TypeOK, BusTypeOK
  <2>3. JournalTypeOK'
    BY <2>1 DEF IInv, TypeOK, JournalTypeOK, journal, replaying
  <2> QED
    BY <2>2, <2>3, StorageTyped DEF TypeOK
<1>2. LockHeld'
  BY BusAssumption DEF IInv, TypeOK, BusTypeOK, StorageTypeOK, LockHeld, Threads
<1>3. TicketIsNew'
  BY BusAssumption DEF IInv, TypeOK, BusTypeOK, StorageTypeOK, LockHeld, TicketIsNew, Awaits
<1>4. ChannelInOrder' /\ StorageInOrder'
  BY StorageUntouched DEF storing
<1>5. ReplayProgress' /\ WatermarkCovers'
  <2>1. CASE t = Main
    BY <2>1 DEF IInv, TypeOK, BusTypeOK, JournalTypeOK, ReplayProgress, WatermarkCovers, replaying
  <2>2. CASE t # Main
    <3>1. pc'[Main] = pc[Main] /\ replayed' = replayed
      BY <2>2 DEF IInv, TypeOK, BusTypeOK
    <3> QED
      BY <3>1, ReplayUntouched
  <2> QED
    BY <2>1, <2>2
<1> QED
  BY <1>1, <1>2, <1>3, <1>4, <1>5 DEF IInv

LEMMA ReceiveKeeps ==
    ASSUME IInv, NEW s \in Subscribers, Receive(s)
    PROVE  IInv'
<1> USE DEF Receive
<1>1. /\ channel[s] \in Seq(1..Len(order)) /\ channel[s] \in Seq(Nat) /\ channel[s] # <<>>
      /\ Len(order) \in Nat
  BY DEF IInv, TypeOK, BusTypeOK
<1>2. /\ channel'[s] = Tail(channel[s]) /\ lastTaken'[s] = Head(channel[s])
      /\ \A r \in Subscribers \ {s} : channel'[r] = channel[r] /\ lastTaken'[r] = lastTaken[r]
  BY DEF IInv, TypeOK, BusTypeOK
<1>3. /\ Head(channel[s]) = channel[s][1] /\ 1 \in DOMAIN channel[s]
      /\ Tail(channel[s]) \in Seq(1..Len(order)) /\ Head(channel[s]) \in 1..Len(order)
      /\ \A i \in DOMAIN channel'[s] : i + 1 \in DOMAIN channel[s] /\ channel'[s][i] = channel[s][i + 1]
  <2>1. /\ Head(channel[s]) = channel[s][1] /\ 1 \in DOMAIN channel[s]
        /\ Head(channel[s]) \in 1..Len(order) /\ Tail(channel[s]) \in Seq(1..Len(order))
        /\ \A i \in DOMAIN Tail(channel[s]) :
              i + 1 \in DOMAIN channel[s] /\ Tail(channel[s])[i] = channel[s][i + 1]
    <3> HIDE DEF Receive
    <3> QED
      BY <1>1, HeadAndTail
  <2> QED
    BY <1>2, <2>1
<1>4. TypeOK'
  <2>1. channel' \in [Subscribers -> Seq(1..Len(order))] /\ lastTaken' \in [Subscribers -> 0..Len(order)]
    BY <1>1, <1>3 DEF IInv, TypeOK, BusTypeOK
  <2>2. BusTypeOK'
    BY <2>1 DEF IInv, TypeOK, BusTypeOK
  <2> QED
    BY <2>2, JournalTyped, StorageTyped DEF TypeOK
<1>5. LockHeld'
  BY DEF IInv, LockHeld
<1>6. TicketIsNew'
  BY <1>2, <1>3 DEF IInv, TicketIsNew, Awaits
<1>7. ChannelInOrder'
  <2>1. Increasing(channel'[s]) /\ \A i \in DOMAIN channel'[s] : lastTaken'[s] < channel'[s][i]
    BY <1>1, <1>2, TailInOrder DEF IInv, ChannelInOrder
  <2> QED
    BY <1>2, <2>1 DEF IInv, ChannelInOrder, Increasing
<1>8. StorageInOrder'
  BY <1>2, BusAssumption DEF IInv, StorageInOrder, Increasing, storing
<1> QED
  BY <1>4, <1>5, <1>6, <1>7, <1>8, ReplayUntouched DEF IInv
-----------------------------------------------------------------------------
(* The steps of the journal and of the replay.                               *)

LEMMA InitializePlatformKeeps ==
    ASSUME IInv, InitializePlatform
    PROVE  IInv'
<1> USE DEF InitializePlatform
<1>1. BusTypeOK'
  BY BusAssumption DEF IInv, TypeOK, BusTypeOK, bus
<1>2. JournalTypeOK'
  BY DEF IInv, TypeOK, JournalTypeOK, replaying
<1>3. StorageTypeOK'
  BY StorageTyped DEF bus
<1>4. pc'[Main] = pc[Main]
  BY DEF bus
<1> QED
  BY <1>1, <1>2, <1>3, <1>4, BusUntouched, ReplayUntouched DEF IInv, TypeOK, storing

LEMMA JournalKeeps ==
    ASSUME IInv, JournalStep
    PROVE  IInv'
<1>1. UNCHANGED <<up, sessions, bus, lastTaken, replaying, storing, emitted, replayed, missed>>
  BY DEF JournalStep, JournalOpens, JournalReceive, JournalBatchEnds, AppendBatch
<1>2. BusTypeOK'
  BY <1>1, BusTyped
<1>3. StorageTypeOK'
  BY <1>1, StorageTyped DEF bus
<1>4. /\ journalChannel \in Seq(Events) /\ journalBatch \in Seq(Events) /\ rows \in Seq(Events)
      /\ unjournaled \subseteq Events
      /\ ToSet(journalChannel) \subseteq Events /\ ToSet(journalBatch) \subseteq Events
  BY ToSetOfSeq DEF IInv, TypeOK, JournalTypeOK
<1>5. /\ journalChannel' \in Seq(Events) /\ journalBatch' \in Seq(Events)
      /\ journalWorker' \in {"absent", "starting", "receive", "append", "ended"}
      /\ rows' \in Seq(Events) /\ Len(rows') >= Len(rows) /\ unjournaled' \subseteq Events
  <2>1. CASE JournalOpens
    <3>1. unjournaled \cup ToSet(journalChannel) \subseteq Events /\ <<>> \in Seq(Events)
      BY <1>4
    <3>2. /\ journalChannel' \in {journalChannel, <<>>}
          /\ unjournaled' \in {unjournaled, unjournaled \cup ToSet(journalChannel)}
          /\ journalWorker' \in {"receive", "ended"}
          /\ journalBatch' = journalBatch /\ rows' = rows
      BY <2>1 DEF JournalOpens
    <3>3. Len(rows') >= Len(rows)
      BY <1>4, <3>2
    <3> QED
      BY <1>4, <3>1, <3>2, <3>3
  <2>2. CASE JournalReceive
    <3>1. Head(journalChannel) \in Events /\ Tail(journalChannel) \in Seq(Events)
      BY <1>4, <2>2, HeadAndTail DEF JournalReceive
    <3> QED
      BY <1>4, <2>2, <3>1 DEF JournalReceive
  <2>3. CASE JournalBatchEnds
    BY <1>4, <2>3 DEF JournalBatchEnds
  <2>4. CASE AppendBatch
    <3>1. rows \o journalBatch \in Seq(Events) /\ Len(rows \o journalBatch) >= Len(rows)
      BY <1>4
    <3> QED
      <4>1. unjournaled \cup ToSet(journalBatch) \subseteq Events /\ <<>> \in Seq(Events)
        BY <1>4
      <4>2. /\ rows' \in {rows, rows \o journalBatch}
            /\ unjournaled' \in {unjournaled, unjournaled \cup ToSet(journalBatch)}
            /\ journalWorker' = "receive" /\ journalBatch' = <<>> /\ journalChannel' = journalChannel
        BY <2>4 DEF AppendBatch
      <4>3. rows' \in Seq(Events) /\ Len(rows') >= Len(rows)
        <5>1. CASE rows' = rows
          BY <1>4, <5>1
        <5>2. CASE rows' = rows \o journalBatch
          BY <3>1, <5>2
        <5> QED
          BY <4>2, <5>1, <5>2
      <4> QED
        BY <1>4, <4>1, <4>2, <4>3
  <2> QED
    BY <2>1, <2>2, <2>3, <2>4, JournalStep DEF JournalStep
<1>6. JournalTypeOK'
  <2>1. /\ watermark \in 0..Len(rows) /\ replayUntil \in 0..Len(rows) /\ replayed \subseteq 1..Len(rows)
        /\ Len(rows) \in Nat /\ Len(rows') \in Nat
    BY <1>4, <1>5 DEF IInv, TypeOK, JournalTypeOK
  <2>2. 0..Len(rows) \subseteq 0..Len(rows') /\ 1..Len(rows) \subseteq 1..Len(rows')
    BY <1>5, <2>1
  <2> QED
    BY <1>1, <1>5, <2>1, <2>2 DEF IInv, TypeOK, JournalTypeOK, replaying
<1>7. pc'[Main] = pc[Main]
  BY <1>1 DEF bus
<1> QED
  BY <1>1, <1>2, <1>3, <1>6, <1>7, BusUntouched, ReplayUntouched DEF IInv, TypeOK, storing

LEMMA OpenReplayKeeps ==
    ASSUME IInv, OpenReplay
    PROVE  IInv'
<1> USE DEF OpenReplay
<1>1. BusTypeOK' /\ StorageTypeOK'
  BY BusTyped, StorageTyped DEF bus
<1>2. rows \in Seq(Events) /\ Len(rows) \in Nat /\ watermark \in 0..Len(rows)
  BY DEF IInv, TypeOK, JournalTypeOK
<1>3. JournalTypeOK'
  BY <1>2 DEF IInv, TypeOK, JournalTypeOK, journal
<1>4. ReplayProgress'
  <2>1. pc'[Main] = "idle"
    BY DEF IInv, ReplayProgress, bus
  <2> QED
    BY <1>2, <2>1 DEF IInv, WatermarkCovers, ReplayProgress
<1>5. WatermarkCovers'
  BY DEF IInv, WatermarkCovers
<1> QED
  BY <1>1, <1>3, <1>4, <1>5, BusUntouched DEF IInv, TypeOK, storing

LEMMA ReplayRowKeeps ==
    ASSUME IInv, ReplayRow
    PROVE  IInv'
<1> USE DEF ReplayRow
<1>1. Main \in Threads /\ Main # Free
  BY BusAssumption DEF Threads
<1>2. /\ rows \in Seq(Events) /\ Len(rows) \in Nat /\ watermark \in 0..Len(rows)
      /\ replayUntil \in 0..Len(rows) /\ replayNext \in Nat /\ 0 < replayNext
  BY DEF IInv, TypeOK, JournalTypeOK, ReplayProgress
<1>3. replayNext \in 1..Len(rows) /\ rows[replayNext] \in Events
  BY <1>2
<1>4. /\ pc' = [pc EXCEPT ![Main] = "lock"] /\ pc \in [Threads -> {"idle", "lock", "deliver"}]
      /\ hand' \in [Threads -> Events \cup {Free}] /\ hand'[Main] \in Events
      /\ \A u \in Threads \ {Main} : hand'[u] = hand[u]
  BY <1>1, <1>3 DEF IInv, TypeOK, BusTypeOK
<1>5. BusTypeOK'
  BY <1>1, <1>4 DEF IInv, TypeOK, BusTypeOK
<1>6. JournalTypeOK'
  BY <1>2 DEF IInv, TypeOK, JournalTypeOK, journal
<1>7. LockHeld'
  BY <1>1, <1>4 DEF IInv, LockHeld
<1>8. TicketIsNew'
  BY <1>1, <1>4 DEF IInv, TicketIsNew, Awaits
<1>9. ReplayProgress'
  BY <1>1, <1>2, <1>4 DEF IInv, ReplayProgress
<1>10. WatermarkCovers'
  BY DEF IInv, WatermarkCovers
<1> QED
  BY <1>5, <1>6, <1>7, <1>8, <1>9, <1>10, StorageTyped, StorageUntouched DEF IInv, TypeOK, storing

LEMMA SetWatermarkKeeps ==
    ASSUME IInv, SetWatermark
    PROVE  IInv'
<1> USE DEF SetWatermark
<1>1. BusTypeOK' /\ StorageTypeOK'
  BY BusTyped, StorageTyped DEF bus
<1>2. JournalTypeOK'
  BY DEF IInv, TypeOK, JournalTypeOK, journal
<1>3. ReplayProgress'
  BY DEF IInv, ReplayProgress, bus
<1>4. WatermarkCovers'
  <2>1. /\ watermark \in Nat /\ replayUntil \in Nat /\ replayNext \in Nat
        /\ replayNext - 1 = replayUntil
    BY DEF IInv, TypeOK, JournalTypeOK, ReplayProgress
  <2>2. 1..watermark \subseteq replayed /\ \A i \in (watermark + 1)..replayUntil : i \in replayed
    BY <2>1 DEF IInv, WatermarkCovers, ReplayProgress
  <2>3. 1..replayUntil \subseteq replayed
    BY <2>1, <2>2
  <2> QED
    BY <2>2, <2>3 DEF WatermarkCovers
<1> QED
  BY <1>1, <1>2, <1>3, <1>4, BusUntouched DEF IInv, TypeOK, storing
-----------------------------------------------------------------------------
(* The steps of the storage actor, and the end of the process.               *)

LEMMA StorageReceiveKeeps ==
    ASSUME IInv, StorageReceive
    PROVE  IInv'
<1> USE BusAssumption DEF StorageReceive
<1> DEFINE c == channel[Storage]
<1>1. /\ c \in Seq(1..Len(order)) /\ c \in Seq(Nat) /\ c # <<>> /\ Len(order) \in Nat
      /\ batch \in Seq(1..Len(order)) /\ batch \in Seq(Nat) /\ lastTaken[Storage] \in Nat
      /\ written \subseteq Nat
  BY SMTT(30) DEF IInv, TypeOK, BusTypeOK, StorageTypeOK
<1>2. /\ channel'[Storage] = Tail(c) /\ lastTaken'[Storage] = Head(c)
      /\ \A r \in Subscribers \ {Storage} : channel'[r] = channel[r] /\ lastTaken'[r] = lastTaken[r]
      /\ batch' = Append(batch, Head(c))
  BY DEF IInv, TypeOK, BusTypeOK
<1>3. /\ Head(c) = c[1] /\ 1 \in DOMAIN c
      /\ Tail(c) \in Seq(1..Len(order)) /\ Head(c) \in 1..Len(order)
      /\ \A i \in DOMAIN Tail(c) : i + 1 \in DOMAIN c /\ Tail(c)[i] = c[i + 1]
  <2> HIDE DEF StorageReceive, c
  <2> QED
    BY <1>1, HeadAndTail
<1>4. TypeOK'
  <2>1. channel' \in [Subscribers -> Seq(1..Len(order))] /\ lastTaken' \in [Subscribers -> 0..Len(order)]
    BY <1>1, <1>3 DEF IInv, TypeOK, BusTypeOK
  <2>2. BusTypeOK'
    BY <2>1 DEF IInv, TypeOK, BusTypeOK
  <2>3. Append(batch, Head(c)) \in Seq(1..Len(order))
    BY <1>1, <1>3
  <2>4. StorageTypeOK'
    BY <1>2, <2>3 DEF IInv, TypeOK, StorageTypeOK
  <2> QED
    BY <2>2, <2>4, JournalTyped DEF TypeOK
<1>5. LockHeld'
  BY DEF IInv, LockHeld
<1>6. TicketIsNew'
  BY <1>2, <1>3 DEF IInv, TicketIsNew, Awaits
<1>7. ChannelInOrder'
  <2>1. Increasing(Tail(c)) /\ \A i \in DOMAIN Tail(c) : Head(c) < Tail(c)[i]
    BY <1>1, TailInOrder DEF IInv, ChannelInOrder
  <2> QED
    BY ZenonT(30), <1>2, <2>1 DEF IInv, ChannelInOrder, Increasing
<1>8. StorageInOrder'
  <2>1. lastTaken[Storage] < Head(c) /\ Head(c) \notin missed /\ Head(c) \in Nat
    BY <1>1, <1>3 DEF IInv, ChannelInOrder, StorageInOrder
  <2>2. \A i \in DOMAIN batch : batch[i] \in Nat /\ batch[i] < Head(c) /\ batch[i] \notin missed
    <3>1. \A i \in DOMAIN batch : batch[i] <= lastTaken[Storage] /\ batch[i] \notin missed
      BY DEF IInv, StorageInOrder
    <3> HIDE DEF c
    <3> QED
      BY <1>1, <2>1, <3>1
  <2>3. \A n \in written : n \in Nat /\ n < Head(c) /\ \A i \in DOMAIN batch : n < batch[i]
    BY <1>1, <2>1 DEF IInv, StorageInOrder
  <2>4. /\ Increasing(batch')
        /\ \A i \in DOMAIN batch' : (i \in DOMAIN batch /\ batch'[i] = batch[i]) \/ batch'[i] = Head(c)
    <3>1. Increasing(batch)
      BY DEF IInv, StorageInOrder
    <3> HIDE DEF StorageReceive, c
    <3> QED
      BY <1>1, <1>2, <2>1, <2>2, <3>1, AppendInOrder
  <2>5. \A i \in DOMAIN channel'[Storage] : channel'[Storage][i] \notin missed
    BY <1>2, <1>3 DEF IInv, StorageInOrder
  <2>6. \A i \in DOMAIN batch' : batch'[i] <= Head(c) /\ batch'[i] \notin missed
    BY <2>1, <2>2, <2>4
  <2>7. \A n \in written : n <= Head(c) /\ \A i \in DOMAIN batch' : n < batch'[i]
    BY <2>1, <2>3, <2>4
  <2> QED
    BY <1>2, <2>4, <2>5, <2>6, <2>7 DEF IInv, StorageInOrder
<1> QED
  BY <1>4, <1>5, <1>6, <1>7, <1>8, ReplayUntouched DEF IInv

LEMMA StorageTimeoutKeeps ==
    ASSUME IInv, StorageTimeout
    PROVE  IInv'
<1> USE DEF StorageTimeout
<1>1. StorageTypeOK'
  BY DEF IInv, TypeOK, StorageTypeOK, bus
<1>2. pc'[Main] = pc[Main]
  BY DEF bus
<1> QED
  BY <1>1, <1>2, BusTyped, JournalTyped, BusUntouched, ReplayUntouched DEF IInv, TypeOK

LEMMA FlushBatchKeeps ==
    ASSUME IInv, FlushBatch
    PROVE  IInv'
<1>1. PICK S \in SUBSET ToSet(batch) :
          /\ written' = written \cup S
          /\ stored' = [e \in Events |-> stored[e] + Cardinality({n \in S : order[n] = e})]
          /\ missed' = missed \cup (ToSet(batch) \ S)
  BY DEF FlushBatch
<1>2. /\ batch' = <<>> /\ storagePc' = "receive"
      /\ UNCHANGED <<up, sessions, bus, lastTaken, journal, replaying, emitted, replayed>>
  BY DEF FlushBatch
<1>3. /\ batch \in Seq(1..Len(order)) /\ ToSet(batch) \subseteq 1..Len(order)
      /\ Len(order) \in Nat /\ written \subseteq 1..Len(order) /\ missed \subseteq 1..Len(order)
      /\ stored \in [Events -> Nat] /\ lastTaken[Storage] \in Nat
      /\ channel[Storage] \in Seq(1..Len(order))
  BY ToSetOfSeq, BusAssumption DEF IInv, TypeOK, BusTypeOK, StorageTypeOK
<1>4. \A e \in Events : Cardinality({n \in S : order[n] = e}) \in Nat
  <2> TAKE e \in Events
  <2>1. IsFiniteSet(1..Len(order))
    BY <1>3, FS_Interval
  <2>2. {n \in S : order[n] = e} \subseteq 1..Len(order)
    BY <1>3
  <2> QED
    BY <2>1, <2>2, FS_Subset, FS_CardinalityType
<1>5. StorageTypeOK'
  <2>1. stored' \in [Events -> Nat]
    <3>1. \A e \in Events : stored[e] + Cardinality({n \in S : order[n] = e}) \in Nat
      BY <1>3, <1>4
    <3> QED
      BY <1>1, <3>1
  <2>2. written' \subseteq 1..Len(order) /\ missed' \subseteq 1..Len(order)
    BY <1>1, <1>3
  <2> QED
    BY <1>2, <2>1, <2>2 DEF StorageTypeOK, bus
<1>6. TypeOK'
  BY <1>2, <1>5, BusTyped, JournalTyped DEF TypeOK
<1>7. \A n \in ToSet(batch) : n \in Nat /\ n <= lastTaken[Storage] /\ n \notin missed /\ n \notin written
  <2> SUFFICES ASSUME NEW i \in DOMAIN batch
               PROVE  /\ batch[i] \in Nat /\ batch[i] <= lastTaken[Storage]
                      /\ batch[i] \notin missed /\ batch[i] \notin written
    BY DEF ToSet
  <2>1. batch[i] \in Nat
    BY <1>3
  <2> QED
    BY <2>1 DEF IInv, StorageInOrder
<1>8. LockHeld'
  BY <1>2 DEF IInv, LockHeld, bus
<1>9. TicketIsNew'
  <2>1. ASSUME NEW t \in Threads, Awaits(Storage, t) PROVE ticket[t] \notin missed'
    <3>1. ticket[t] \notin missed /\ lastTaken[Storage] < ticket[t] /\ ticket[t] \in Nat
      BY <1>3, <2>1, BusAssumption DEF IInv, TypeOK, BusTypeOK, TicketIsNew
    <3> QED
      BY <1>1, <1>3, <1>7, <3>1
  <2> QED
    BY <1>2, <2>1 DEF IInv, TicketIsNew, Awaits, bus
<1>10. ChannelInOrder'
  BY <1>2 DEF IInv, ChannelInOrder, Increasing, bus
<1>11. StorageInOrder'
  <2>1. \A n \in written' : n <= lastTaken[Storage]
    BY <1>1, <1>7 DEF IInv, StorageInOrder
  <2>2. missed' \cap written' = {}
    BY <1>1, <1>7 DEF IInv, StorageInOrder
  <2>3. ASSUME NEW i \in DOMAIN channel[Storage] PROVE channel[Storage][i] \notin missed'
    <3>1. /\ lastTaken[Storage] < channel[Storage][i] /\ channel[Storage][i] \in Nat
          /\ channel[Storage][i] \notin missed
      BY <1>3, BusAssumption DEF IInv, ChannelInOrder, StorageInOrder
    <3> QED
      BY <1>1, <1>3, <1>7, <3>1
  <2> QED
    BY <1>2, <2>1, <2>2, <2>3 DEF StorageInOrder, Increasing, bus
<1>12. pc'[Main] = pc[Main]
  BY <1>2 DEF bus
<1> QED
  BY <1>2, <1>6, <1>8, <1>9, <1>10, <1>11, <1>12, ReplayUntouched DEF IInv

LEMMA CrashKeeps ==
    ASSUME IInv, Crash
    PROVE  IInv'
<1> USE BusAssumption DEF Crash, NoEvents, Zeros
<1>1. TypeOK'
  <2>1. order' \in Seq(Events) /\ 0..Len(order') = {0} /\ due' \subseteq 1..Len(order')
    OBVIOUS
  <2>2. /\ ticket' \in [Threads -> 0..Len(order')] /\ next' \in [Threads -> Nat]
        /\ lastTaken' \in [Subscribers -> 0..Len(order')]
        /\ channel' \in [Subscribers -> Seq(1..Len(order'))]
    BY <2>1
  <2>3. /\ pc' \in [Threads -> {"idle", "lock", "deliver"}] /\ hand' \in [Threads -> Events \cup {Free}]
        /\ subscribed' \in Seq(Subscribers) /\ up' \in BOOLEAN /\ sessions' \in 0..MaxSessions
    <3>1. up' \in BOOLEAN /\ sessions' \in 0..MaxSessions
      BY DEF IInv, TypeOK, BusTypeOK
    <3>2. subscribed' \in Seq(Subscribers)
      OBVIOUS
    <3>3. pc' \in [Threads -> {"idle", "lock", "deliver"}]
      OBVIOUS
    <3>4. hand' \in [Threads -> Events \cup {Free}]
      OBVIOUS
    <3> QED
      BY <3>1, <3>2, <3>3, <3>4
  <2>4. BusTypeOK'
    BY <2>1, <2>2, <2>3 DEF BusTypeOK
  <2>5. unjournaled' \subseteq Events
    BY ToSetOfSeq DEF IInv, TypeOK, JournalTypeOK
  <2>6. JournalTypeOK'
    BY <2>5 DEF IInv, TypeOK, JournalTypeOK
  <2>7. StorageTypeOK'
    BY DEF IInv, TypeOK, StorageTypeOK
  <2> QED
    BY <2>4, <2>6, <2>7 DEF TypeOK
<1>2. LockHeld'
  BY DEF LockHeld, Threads
<1>3. TicketIsNew'
  BY DEF TicketIsNew, Awaits
<1>4. ChannelInOrder'
  BY DEF ChannelInOrder, Increasing
<1>5. StorageInOrder'
  BY DEF StorageInOrder, Increasing
<1>6. ReplayProgress'
  BY DEF ReplayProgress, Threads
<1>7. WatermarkCovers'
  BY DEF IInv, WatermarkCovers
<1> QED
  BY <1>1, <1>2, <1>3, <1>4, <1>5, <1>6, <1>7 DEF IInv
-----------------------------------------------------------------------------
(* Together, the steps keep the invariant, and the properties follow.        *)

\* The invariant holds throughout, whatever the interleaving of the threads.
THEOREM Inductive == Spec => []IInv
<1>1. IInv /\ [Next]_vars => IInv'
  <2> SUFFICES ASSUME IInv, [Next]_vars PROVE IInv'
    OBVIOUS
  <2>1. CASE InitializePlatform \/ Crash
    BY <2>1, InitializePlatformKeeps, CrashKeeps
  <2>2. ASSUME NEW s \in Subscribers, Subscribe(s) \/ Receive(s) PROVE IInv'
    BY <2>2, SubscribeKeeps, ReceiveKeeps
  <2>3. ASSUME NEW t \in Emitters, NEW e \in Events, Emit(t, e) PROVE IInv'
    BY <2>3, EmitKeeps
  <2>4. ASSUME NEW t \in Threads, BusStep(t) PROVE IInv'
    BY <2>4, LockKeeps, DeliverKeeps, UnlockKeeps DEF BusStep
  <2>5. CASE JournalStep
    BY <2>5, JournalKeeps
  <2>6. CASE ReplayStep
    BY <2>6, OpenReplayKeeps, ReplayRowKeeps, SetWatermarkKeeps DEF ReplayStep
  <2>7. CASE StorageStep
    BY <2>7, StorageReceiveKeeps, StorageTimeoutKeeps, FlushBatchKeeps DEF StorageStep
  <2>8. CASE UNCHANGED vars
    <3>1. /\ UNCHANGED <<up, sessions, bus, lastTaken, journal, replaying, storing>>
          /\ UNCHANGED <<emitted, replayed, missed, batch, written, order, pc[Main]>>
      BY <2>8 DEF vars, storing, bus
    <3> QED
      BY <3>1, BusTyped, JournalTyped, StorageTyped, BusUntouched, ReplayUntouched DEF IInv, TypeOK
  <2> QED
    BY <2>1, <2>2, <2>3, <2>4, <2>5, <2>6, <2>7, <2>8 DEF Next
<1> QED
  BY <1>1, InitInvariant, PTL DEF Spec

\* The bus, its journal and the storage actor keep the types of their state.
THEOREM TypeCorrect == Spec => []TypeOK
<1>1. IInv => TypeOK
  BY DEF IInv
<1> QED
  BY <1>1, Inductive, PTL

\* All subscribers receive in the one order in which emit and broadcast_only
\* took the lock of the list, each delivery at most once.
THEOREM SubscribersAgree == Spec => []OneOrder
<1>1. IInv => OneOrder
  BY OrderIsOne DEF IInv
<1> QED
  BY <1>1, Inductive, PTL

\* set_watermark never passes a row that no replay has broadcast.
THEOREM NoRowIsSkipped == Spec => []WatermarkCovers
<1>1. IInv => WatermarkCovers
  BY DEF IInv
<1> QED
  BY <1>1, Inductive, PTL

-----------------------------------------------------------------------------
(* Nothing that was due to storage is unaccounted for.                       *)

LEMMA ComingKept ==
    ASSUME UNCHANGED <<subscribed, pc, ticket, next>>
    PROVE  Coming' = Coming
BY DEF Coming, Awaits

\* With nobody in the list, nothing is on its way.
LEMMA NobodyDelivers ==
    ASSUME \A t \in Threads : pc[t] # "deliver"
    PROVE  Coming = {}
BY DEF Coming, Awaits

LEMMA InitAccounted == Init => Accounted
<1> SUFFICES ASSUME Init PROVE Accounted
  OBVIOUS
<1>1. Coming = {}
  BY NobodyDelivers DEF Init
<1>2. channel[Storage] = <<>>
  BY BusAssumption DEF Init
<1> QED
  BY <1>1, <1>2, NoElements DEF Init, Accounted

LEMMA SubscribeAccounted ==
    ASSUME IInv, Accounted, NEW s \in Subscribers, Subscribe(s)
    PROVE  Accounted'
<1>1. \A t \in Threads : pc[t] # "deliver" /\ pc'[t] # "deliver"
  BY BusAssumption DEF Subscribe, IInv, LockHeld, Threads
<1>2. Coming = {} /\ Coming' = {}
  BY <1>1 DEF Coming, Awaits
<1> QED
  BY <1>2 DEF Subscribe, Accounted, storing

LEMMA LockAccounted ==
    ASSUME IInv, Accounted, NEW t \in Threads, Lock(t)
    PROVE  Accounted'
<1>1. \A u \in Threads : pc[u] # "deliver" /\ (pc'[u] = "deliver" => u = t)
  BY BusAssumption DEF Lock, IInv, TypeOK, BusTypeOK, LockHeld, Threads
<1>2. /\ pc'[t] = "deliver" /\ ticket'[t] = Len(order) + 1 /\ next'[t] = 1
      /\ UNCHANGED <<subscribed, channel, storing, missed>>
  BY DEF Lock, IInv, TypeOK, BusTypeOK
<1>3. DOMAIN subscribed = 1..Len(subscribed) /\ Len(subscribed) \in Nat
  BY DEF IInv, TypeOK, BusTypeOK
<1>4. Awaits(Storage, t)' <=> Storage \in ToSet(subscribed)
  BY <1>2, <1>3 DEF Awaits, ToSet
<1>5. Coming = {}
  BY <1>1, NobodyDelivers
<1>6. Coming' = IF Storage \in ToSet(subscribed) THEN {Len(order) + 1} ELSE {}
  <2>1. \A u \in Threads : Awaits(Storage, u)' <=> u = t /\ Storage \in ToSet(subscribed)
    BY <1>1, <1>4 DEF Awaits
  <2> QED
    BY <1>2, <2>1 DEF Coming
<1>7. due' = due \cup Coming'
  BY <1>6 DEF Lock
<1> QED
  BY <1>2, <1>5, <1>7 DEF Accounted, storing

LEMMA DeliverAccounted ==
    ASSUME IInv, Accounted, NEW t \in Threads, Deliver(t)
    PROVE  Accounted'
<1>1. /\ subscribed \in Seq(Subscribers) /\ pc[t] = "deliver" /\ next[t] \in Nat \ {0}
      /\ next[t] \in DOMAIN subscribed /\ DOMAIN subscribed = 1..Len(subscribed)
      /\ Len(subscribed) \in Nat /\ next \in [Threads -> Nat]
      /\ channel \in [Subscribers -> Seq(1..Len(order))] /\ ticket[t] \in 1..Len(order)
  BY DEF Deliver, IInv, TypeOK, BusTypeOK, LockHeld
<1>2. UNCHANGED <<subscribed, pc, ticket, due, batch, written>> /\ next'[t] = next[t] + 1
  BY <1>1 DEF Deliver, storing
<1>3. \A u \in Threads : pc[u] = "deliver" => u = t
  BY <1>1 DEF IInv, LockHeld
<1>4. PICK s \in Subscribers : s = subscribed[next[t]]
  BY <1>1
<1>5. \A j \in DOMAIN subscribed : subscribed[j] = s => j = next[t]
  BY <1>1, <1>4 DEF IInv, LockHeld
<1>6. \A r : Awaits(r, t)' <=> Awaits(r, t) /\ r # s
  <2>1. \A j \in DOMAIN subscribed : next[t] + 1 <= j <=> next[t] <= j /\ j # next[t]
    BY <1>1
  <2>2. \A r : Awaits(r, t)' <=> \E j \in DOMAIN subscribed : next[t] + 1 <= j /\ subscribed[j] = r
    BY <1>1, <1>2 DEF Awaits
  <2> QED
    BY <1>1, <1>4, <1>5, <2>1, <2>2 DEF Awaits
<1>7. \A r : (\E u \in Threads : Awaits(r, u)) <=> Awaits(r, t)
  BY <1>3 DEF Awaits
<1>8. \A r : (\E u \in Threads : Awaits(r, u)') <=> Awaits(r, t)'
  BY <1>2, <1>3 DEF Awaits
<1>9. CASE s = Storage
  <2>1. Awaits(Storage, t) /\ ~Awaits(Storage, t)'
    <3>1. Awaits(s, t)
      BY <1>1, <1>4 DEF Awaits
    <3> QED
      BY <1>6, <1>9, <3>1
  <2>2. Coming = {ticket[t]} /\ Coming' = {}
    <3>1. {u \in Threads : Awaits(Storage, u)} = {t}
      BY <1>3, <2>1 DEF Awaits
    <3>2. {u \in Threads : Awaits(Storage, u)'} = {}
      BY <1>8, <2>1
    <3> QED
      BY <3>1, <3>2 DEF Coming
  <2>3. CASE channel' = [channel EXCEPT ![s] = Append(@, ticket[t])] /\ missed' = missed
    <3>1. channel'[Storage] = Append(channel[Storage], ticket[t]) /\ channel[Storage] \in Seq(1..Len(order))
      BY <1>1, <1>9, <2>3
    <3>2. ToSet(channel'[Storage]) = ToSet(channel[Storage]) \cup {ticket[t]}
      <4> DEFINE q == channel[Storage]
      <4>1. q \in Seq(1..Len(order)) /\ ToSet(Append(q, ticket[t])) = ToSet(q) \cup {ticket[t]}
        <5>1. q \in Seq(1..Len(order))
          BY <3>1
        <5>2. ticket[t] \in 1..Len(order)
          BY <1>1
        <5> HIDE DEF q
        <5> QED
          BY <5>1, <5>2, AppendFacts
      <4> QED
        BY <3>1, <4>1
    <3> QED
      BY <1>2, <2>2, <2>3, <3>2 DEF Accounted
  <2>4. CASE channel' = channel /\ missed' = missed \cup {ticket[t]}
    BY <1>2, <2>2, <2>4 DEF Accounted
  <2> QED
    BY <1>4, <1>9, <2>3, <2>4 DEF Deliver
<1>10. CASE s # Storage
  <2>1. \A u \in Threads : Awaits(Storage, u)' <=> Awaits(Storage, u)
    BY <1>2, <1>3, <1>6, <1>10 DEF Awaits
  <2>2. Coming' = Coming
    BY <1>2, <2>1 DEF Coming
  <2>3. channel'[Storage] = channel[Storage] /\ missed' = missed
    BY <1>1, <1>4, <1>10, BusAssumption DEF Deliver
  <2> QED
    BY <1>2, <2>2, <2>3 DEF Accounted
<1> QED
  BY <1>9, <1>10

LEMMA UnlockAccounted ==
    ASSUME IInv, Accounted, NEW t \in Threads, Unlock(t)
    PROVE  Accounted'
<1>1. \A u \in Threads : (pc[u] = "deliver" => u = t) /\ pc'[u] # "deliver"
  BY DEF Unlock, IInv, TypeOK, BusTypeOK, LockHeld
<1>2. \A j \in DOMAIN subscribed : ~(next[t] <= j)
  BY DEF Unlock, IInv, TypeOK, BusTypeOK
<1>3. Coming = {} /\ Coming' = {}
  <2>1. \A u \in Threads : ~Awaits(Storage, u) /\ ~Awaits(Storage, u)'
    BY <1>1, <1>2 DEF Awaits
  <2> QED
    BY <2>1 DEF Coming
<1> QED
  BY <1>3 DEF Unlock, Accounted, storing

LEMMA EmitAccounted ==
    ASSUME IInv, Accounted, NEW t \in Threads, UNCHANGED <<subscribed, ticket, next>>,
           pc[t] # "deliver", pc' = [pc EXCEPT ![t] = "lock"],
           UNCHANGED <<due, channel, batch, written, missed>>
    PROVE  Accounted'
<1>1. \A u \in Threads : Awaits(Storage, u)' <=> Awaits(Storage, u)
  BY DEF Awaits, IInv, TypeOK, BusTypeOK
<1>2. Coming' = Coming
  BY <1>1 DEF Coming
<1> QED
  BY <1>2 DEF Accounted

LEMMA StorageAccounted ==
    ASSUME IInv, Accounted, StorageStep
    PROVE  Accounted'
<1>1. /\ UNCHANGED <<subscribed, pc, ticket, next, due>>
      /\ channel \in [Subscribers -> Seq(1..Len(order))] /\ batch \in Seq(1..Len(order))
  BY DEF StorageStep, StorageReceive, StorageTimeout, FlushBatch, bus, IInv, TypeOK, BusTypeOK,
         StorageTypeOK
<1>2. Coming' = Coming
  BY <1>1, ComingKept
<1>3. CASE StorageReceive
  <2> DEFINE c == channel[Storage]
  <2>1. /\ c \in Seq(1..Len(order)) /\ c # <<>> /\ channel'[Storage] = Tail(c)
        /\ batch' = Append(batch, Head(c)) /\ UNCHANGED <<written, missed>>
    BY <1>1, <1>3, BusAssumption DEF StorageReceive
  <2> HIDE DEF c
  <2>2. ToSet(c) = {Head(c)} \cup ToSet(Tail(c)) /\ Head(c) \in 1..Len(order)
    BY <2>1, HeadTailFacts
  <2>3. ToSet(batch') = ToSet(batch) \cup {Head(c)}
    BY <1>1, <2>1, <2>2, AppendFacts
  <2> QED
    BY <1>1, <1>2, <2>1, <2>2, <2>3 DEF Accounted, c
<1>4. CASE StorageTimeout
  BY <1>2, <1>4 DEF StorageTimeout, Accounted, bus
<1>5. CASE FlushBatch
  <2>1. PICK S \in SUBSET ToSet(batch) : written' = written \cup S /\ missed' = missed \cup (ToSet(batch) \ S)
    BY <1>5 DEF FlushBatch
  <2>2. batch' = <<>> /\ UNCHANGED <<channel, due>>
    BY <1>5 DEF FlushBatch, bus
  <2> QED
    BY <1>2, <2>1, <2>2, NoElements DEF Accounted
<1> QED
  BY <1>3, <1>4, <1>5 DEF StorageStep

LEMMA NextAccounted == IInv /\ Accounted /\ [Next]_vars => Accounted'
<1> SUFFICES ASSUME IInv, Accounted, [Next]_vars PROVE Accounted'
  OBVIOUS
<1>1. CASE Crash
  <2>1. Coming' = {} /\ channel'[Storage] = <<>>
    BY <1>1, BusAssumption DEF Crash, Coming, Awaits
  <2> QED
    BY <1>1, <2>1, NoElements DEF Crash, Accounted
<1>2. ASSUME NEW s \in Subscribers, Subscribe(s) PROVE Accounted'
  BY <1>2, SubscribeAccounted
<1>3. ASSUME NEW s \in Subscribers, Receive(s) PROVE Accounted'
  <2>1. UNCHANGED <<subscribed, pc, ticket, next, due, batch, written, missed>>
    BY <1>3 DEF Receive, storing
  <2>2. channel'[Storage] = channel[Storage]
    BY <1>3, BusAssumption DEF Receive, IInv, TypeOK, BusTypeOK
  <2> QED
    BY <2>1, <2>2, ComingKept DEF Accounted
<1>4. ASSUME NEW t \in Emitters, NEW e \in Events, Emit(t, e) PROVE Accounted'
  <2>1. t \in Threads /\ pc[t] # "deliver"
    BY <1>4 DEF Emit, Threads
  <2> QED
    BY <1>4, <2>1, EmitAccounted DEF Emit, storing
<1>5. ASSUME NEW t \in Threads, BusStep(t) PROVE Accounted'
  BY <1>5, LockAccounted, DeliverAccounted, UnlockAccounted DEF BusStep
<1>6. CASE ReplayRow
  <2>1. Main \in Threads /\ pc[Main] # "deliver"
    BY <1>6 DEF ReplayRow, Threads
  <2> QED
    BY <1>6, <2>1, EmitAccounted DEF ReplayRow, storing
<1>7. CASE StorageStep
  BY <1>7, StorageAccounted
<1>8. CASE InitializePlatform \/ JournalStep \/ OpenReplay \/ SetWatermark \/ UNCHANGED vars
  <2>1. UNCHANGED <<bus, storing, missed>>
    BY <1>8 DEF InitializePlatform, JournalStep, JournalOpens, JournalReceive, JournalBatchEnds,
       AppendBatch, OpenReplay, SetWatermark, vars
  <2>2. Coming' = Coming
    BY <2>1, ComingKept DEF bus
  <2> QED
    BY <2>1, <2>2 DEF Accounted, bus, storing
<1> QED
  BY <1>1, <1>2, <1>3, <1>4, <1>5, <1>6, <1>7, <1>8 DEF Next, ReplayStep

(* Of emit's walk and of the storage actor: every event delivered under the   *)
(* lock since storage subscribed is on its way there, waiting, written, or    *)
(* known as missed, and no ticket waits that was written or missed.           *)
THEOREM StorageKeepsEach == Spec => []StorageExact
<1>1. Spec => []Accounted
  BY InitAccounted, NextAccounted, Inductive, PTL DEF Spec
<1>2. IInv /\ Accounted => StorageExact
  BY StorageIsExact DEF IInv
<1> QED
  BY <1>1, <1>2, Inductive, PTL
-----------------------------------------------------------------------------
(* The journal.  Channel, batch and table hold distinct events, share none   *)
(* with each other or with what is known to be unjournaled, and with it hold *)
(* all that was emitted.                                                     *)

JournalInv ==
    /\ IsInjective(journalChannel) /\ IsInjective(journalBatch) /\ IsInjective(rows)
    /\ ToSet(journalChannel) \cap ToSet(journalBatch) = {}
    /\ (ToSet(journalChannel) \cup ToSet(journalBatch)) \cap ToSet(rows) = {}
    /\ (ToSet(journalChannel) \cup ToSet(journalBatch) \cup ToSet(rows)) \cap unjournaled = {}
    /\ emitted = ToSet(journalChannel) \cup ToSet(journalBatch) \cup ToSet(rows) \cup unjournaled

LEMMA InitJournal == Init => JournalInv
BY NoElements DEF Init, JournalInv

LEMMA EmitJournal ==
    ASSUME TypeOK, JournalInv, NEW t \in Emitters, NEW e \in Events, Emit(t, e)
    PROVE  JournalInv'
<1>1. /\ journalChannel \in Seq(Events) /\ e \notin emitted /\ emitted' = emitted \cup {e}
      /\ UNCHANGED <<journalBatch, rows>>
  BY DEF TypeOK, JournalTypeOK, Emit
<1>2. CASE unjournaled' = unjournaled \cup {e} /\ UNCHANGED journalChannel
  BY <1>1, <1>2 DEF JournalInv
<1>3. CASE journalChannel' = Append(journalChannel, e) /\ UNCHANGED unjournaled
  <2>1. /\ ToSet(journalChannel') = ToSet(journalChannel) \cup {e}
        /\ e \notin ToSet(journalChannel) => IsInjective(journalChannel')
    BY <1>1, <1>3, AppendFacts DEF JournalInv
  <2> QED
    BY <1>1, <1>3, <2>1 DEF JournalInv
<1> QED
  BY <1>2, <1>3 DEF Emit

LEMMA WorkerJournal ==
    ASSUME TypeOK, JournalInv, JournalStep
    PROVE  JournalInv'
<1>1. journalChannel \in Seq(Events) /\ journalBatch \in Seq(Events) /\ rows \in Seq(Events)
  BY DEF TypeOK, JournalTypeOK
<1>2. CASE JournalOpens
  <2>1. UNCHANGED <<journalBatch, rows, emitted>>
    BY <1>2 DEF JournalOpens
  <2>2. CASE UNCHANGED <<journalChannel, unjournaled>>
    BY <2>1, <2>2 DEF JournalInv
  <2>3. CASE journalChannel' = <<>> /\ unjournaled' = unjournaled \cup ToSet(journalChannel)
    BY <2>1, <2>3, NoElements DEF JournalInv
  <2> QED
    BY <1>2, <2>2, <2>3 DEF JournalOpens
<1>3. CASE JournalReceive
  <2>1. /\ journalChannel # <<>> /\ journalBatch' = Append(journalBatch, Head(journalChannel))
        /\ journalChannel' = Tail(journalChannel) /\ UNCHANGED <<rows, unjournaled, emitted>>
    BY <1>3 DEF JournalReceive
  <2>2. /\ ToSet(journalChannel) = {Head(journalChannel)} \cup ToSet(journalChannel')
        /\ IsInjective(journalChannel') /\ Head(journalChannel) \notin ToSet(journalChannel')
        /\ Head(journalChannel) \in Events
    BY <1>1, <2>1, HeadTailFacts DEF JournalInv
  <2>3. /\ ToSet(journalBatch') = ToSet(journalBatch) \cup {Head(journalChannel)}
        /\ Head(journalChannel) \notin ToSet(journalBatch) => IsInjective(journalBatch')
    BY <1>1, <2>1, <2>2, AppendFacts DEF JournalInv
  <2> QED
    BY <2>1, <2>2, <2>3 DEF JournalInv
<1>4. CASE JournalBatchEnds
  BY <1>4 DEF JournalBatchEnds, JournalInv
<1>5. CASE AppendBatch
  <2>1. journalBatch' = <<>> /\ UNCHANGED <<journalChannel, emitted>>
    BY <1>5 DEF AppendBatch
  <2>2. CASE rows' = rows \o journalBatch /\ UNCHANGED unjournaled
    <3>1. IsInjective(rows') /\ ToSet(rows') = ToSet(rows) \cup ToSet(journalBatch)
      BY <1>1, <2>2, ConcatFacts DEF JournalInv
    <3> QED
      BY <2>1, <2>2, <3>1, NoElements DEF JournalInv
  <2>3. CASE unjournaled' = unjournaled \cup ToSet(journalBatch) /\ UNCHANGED rows
    BY <2>1, <2>3, NoElements DEF JournalInv
  <2> QED
    BY <1>5, <2>2, <2>3 DEF AppendBatch
<1> QED
  BY <1>2, <1>3, <1>4, <1>5 DEF JournalStep

LEMMA NextJournal == TypeOK /\ JournalInv /\ [Next]_vars => JournalInv'
<1> SUFFICES ASSUME TypeOK, JournalInv, [Next]_vars PROVE JournalInv'
  OBVIOUS
<1>1. CASE InitializePlatform
  BY <1>1 DEF InitializePlatform, JournalInv
<1>2. CASE Crash
  <2>1. /\ journalChannel' = <<>> /\ journalBatch' = <<>> /\ UNCHANGED <<rows, emitted>>
        /\ unjournaled' = unjournaled \cup ToSet(journalChannel) \cup ToSet(journalBatch)
    BY <1>2 DEF Crash
  <2> QED
    BY <2>1, NoElements DEF JournalInv
<1>3. CASE \E t \in Emitters, e \in Events : Emit(t, e)
  BY <1>3, EmitJournal
<1>4. CASE JournalStep
  BY <1>4, WorkerJournal
<1>5. CASE \/ \E s \in Subscribers : Subscribe(s) \/ Receive(s)
           \/ \E t \in Threads : BusStep(t)
           \/ ReplayStep \/ StorageStep \/ UNCHANGED vars
  <2>1. UNCHANGED <<journal, emitted>>
    BY <1>5 DEF Subscribe, Receive, BusStep, Lock, Deliver, Unlock, ReplayStep, OpenReplay, ReplayRow,
       SetWatermark, StorageStep, StorageReceive, StorageTimeout, FlushBatch, vars
  <2> QED
    BY <2>1 DEF journal, JournalInv
<1> QED
  BY <1>1, <1>2, <1>3, <1>4, <1>5 DEF Next

LEMMA JournalIsExact == TypeOK /\ JournalInv => JournaledOnce
<1> SUFFICES ASSUME TypeOK, JournalInv, NEW e \in Events
             PROVE  Occurrences(journalChannel \o journalBatch \o rows, e)
                       + (IF e \in unjournaled THEN 1 ELSE 0) = IF e \in emitted THEN 1 ELSE 0
  BY DEF JournaledOnce
<1> DEFINE b == journalChannel \o journalBatch
           q == b \o rows
<1>1. journalChannel \in Seq(Events) /\ journalBatch \in Seq(Events) /\ rows \in Seq(Events)
  BY DEF TypeOK, JournalTypeOK
<1>2. /\ b \in Seq(Events) /\ IsInjective(b)
      /\ ToSet(b) = ToSet(journalChannel) \cup ToSet(journalBatch)
  BY <1>1, ConcatFacts DEF JournalInv
<1>3. q \in Seq(Events) /\ IsInjective(q) /\ ToSet(q) = ToSet(b) \cup ToSet(rows)
  <2> HIDE DEF b
  <2>1. ToSet(b) \cap ToSet(rows) = {} /\ IsInjective(rows)
    BY <1>2 DEF JournalInv
  <2> QED
    BY <1>1, <1>2, <2>1, ConcatFacts
<1> HIDE DEF q
<1>4. CASE e \in ToSet(q)
  <2>1. \E i \in DOMAIN q : {j \in DOMAIN q : q[j] = e} = {i}
    BY <1>3, <1>4, OnePosition
  <2>2. Occurrences(q, e) = 1
    BY <2>1, FS_Singleton DEF Occurrences
  <2>3. e \in emitted /\ e \notin unjournaled
    BY <1>2, <1>3, <1>4 DEF JournalInv
  <2> QED
    BY <2>2, <2>3 DEF q
<1>5. CASE e \notin ToSet(q)
  <2>1. {j \in DOMAIN q : q[j] = e} = {}
    BY <1>3, <1>5, OnePosition
  <2>2. Occurrences(q, e) = 0
    BY <2>1, FS_EmptySet DEF Occurrences
  <2>3. e \in emitted <=> e \in unjournaled
    BY <1>2, <1>3, <1>5 DEF JournalInv
  <2> QED
    BY <2>2, <2>3 DEF q
<1> QED
  BY <1>4, <1>5

(* Of emit, the journal worker and replay_journal: an emitted event is in the *)
(* worker's channel, in its batch or in one row, or it is known to be lost to *)
(* the journal; no replay, no failed transaction and no crash repeats it.     *)
THEOREM EachEventJournaledOnce == Spec => []JournaledOnce
<1>1. Spec => []JournalInv
  BY InitJournal, NextJournal, TypeCorrect, PTL DEF Spec
<1> QED
  BY <1>1, TypeCorrect, JournalIsExact, PTL
=============================================================================
