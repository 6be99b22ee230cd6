------------------------ MODULE ReplayJournalProofs ------------------------
(***************************************************************************)
(* For any set of threads and events, any checkpoint interval and any      *)
(* number of crashes and faults: the journal is type correct, an           *)
(* acknowledged event stays recoverable, the counter of bytes written never *)
(* runs ahead of the file, and the journal implements the abstract         *)
(* at-least-once log for the events it does not shadow.                    *)
(***************************************************************************)
EXTENDS ReplayJournal, FiniteSetTheorems, TLAPS

\* Steps at which the record of the event in hand is already in the file.
Written == {"count", "loadPos", "mark", "sync"}

\* A thread owns the event it appends: nobody else has it, nobody has its
\* acknowledgement yet, and once written its record is readable or shadowed.
Ownership ==
    /\ acked \subseteq started
    /\ \A t \in Threads : /\ event[t] # NoEvent => event[t] \in started \ acked
                          /\ pc[t] = "idle" => event[t] = NoEvent
                          /\ pc[t] # "idle" => phase = "up"
                          /\ pc[t] \in {"write", "count", "sync"} => event[t] # NoEvent
    /\ \A t, u \in Threads : event[t] = event[u] /\ t # u => event[t] = NoEvent

WrittenIsReadable ==
    \A t \in Threads : pc[t] \in Written /\ event[t] # NoEvent /\ event[t] \notin shadowed =>
        ReadableWithin(file, event[t], Len(file))

\* Nothing is acknowledged before the header is on stable storage.
HeaderFirst == /\ acked # {} => header = "durable"
               /\ phase = "opening" => header = "partial"

IInv == TypeOK /\ Ownership /\ WrittenIsReadable /\ HeaderFirst /\ AckedIsRecoverable
-----------------------------------------------------------------------------
LEMMA ReadableConcat ==
    ASSUME NEW s \in Seq(Item), NEW r \in Seq(Item), NEW e, NEW n \in 0..Len(s),
           ReadableWithin(s, e, n)
    PROVE  ReadableWithin(s \o r, e, n)
<1>1. PICK i \in 1..n : s[i] = e /\ Intact(s, i)
  BY DEF ReadableWithin
<1>2. \A j \in 1..Len(s) : (s \o r)[j] = s[j]
  OBVIOUS
<1>3. (s \o r)[i] = e /\ Intact(s \o r, i)
  BY <1>1, <1>2 DEF Intact
<1>4. QED
  BY <1>1, <1>3 DEF ReadableWithin

LEMMA ReadableWiden ==
    ASSUME NEW s \in Seq(Item), NEW e, NEW n \in Nat, NEW m \in Nat, n <= m,
           ReadableWithin(s, e, n)
    PROVE  ReadableWithin(s, e, m)
BY DEF ReadableWithin

LEMMA ReadablePrefix ==
    ASSUME NEW s \in Seq(Item), NEW e, NEW n \in Nat, NEW k \in n..Len(s),
           ReadableWithin(s, e, n)
    PROVE  ReadableWithin(SubSeq(s, 1, k), e, n)
<1>1. PICK i \in 1..n : s[i] = e /\ Intact(s, i)
  BY DEF ReadableWithin
<1>2. \A j \in 1..k : SubSeq(s, 1, k)[j] = s[j]
  OBVIOUS
<1>3. SubSeq(s, 1, k)[i] = e /\ Intact(SubSeq(s, 1, k), i)
  BY <1>1, <1>2 DEF Intact
<1>4. QED
  BY <1>1, <1>3 DEF ReadableWithin

LEMMA ReadableLast ==
    ASSUME NEW s \in Seq(Item), NEW b \in Seq(Item), NEW e \in Events,
           Intact(s \o b, Len(s \o b))
    PROVE  ReadableWithin(s \o Append(b, e), e, Len(s \o Append(b, e)))
<1> DEFINE w == s \o Append(b, e)
           m == Len(s) + Len(b)
<1>1. Append(b, e) \in Seq(Item) /\ Len(Append(b, e)) = Len(b) + 1
  BY DEF Item
<1>2. Len(w) = m + 1 /\ m \in Nat /\ Len(s \o b) = m
  BY <1>1
<1>3. w[m + 1] = e
  BY <1>1
<1>4. \A j \in 1..m : w[j] = (s \o b)[j]
  BY <1>1
<1>5. Intact(w, m + 1)
  BY <1>2, <1>3, <1>4 DEF Intact
<1>6. QED
  BY <1>2, <1>3, <1>5 DEF ReadableWithin

LEMMA KeptLenRange ==
    ASSUME NEW s \in Seq(Item)
    PROVE  KeptLen(s) \in 0..Len(s)
<1>0. Len(s) \in Nat
  OBVIOUS
<1>1. IsFiniteSet(1..Len(s)) /\ Cardinality(1..Len(s)) = Len(s)
  BY <1>0, FS_Interval
<1>2. Readable(s) \subseteq 1..Len(s)
  BY DEF Readable
<1>3. /\ IsFiniteSet(Readable(s))
      /\ Cardinality(Readable(s)) <= Len(s)
      /\ Cardinality(Readable(s)) \in Nat
  BY <1>1, <1>2, FS_Subset, FS_CardinalityType
<1>4. Readable(s) # {} => Cardinality(Readable(s)) # 0
  BY <1>3, FS_EmptySet
<1>5. QED
  BY <1>3, <1>4 DEF KeptLen

-----------------------------------------------------------------------------
LEMMA InitIInv == Init => IInv
<1> SUFFICES ASSUME Init PROVE IInv
  OBVIOUS
<1> USE DEF Init
<1>1. TypeOK
  BY BoundsAssumption DEF TypeOK, Idle, NoEvents, Zeros
<1>2. Ownership /\ WrittenIsReadable
  BY DEF Ownership, WrittenIsReadable, Written, Idle, NoEvents
<1>3. HeaderFirst /\ AckedIsRecoverable
  BY DEF HeaderFirst, AckedIsRecoverable
<1>4. QED
  BY <1>1, <1>2, <1>3 DEF IInv

\* A step that lets the file grow and the threads keep their events keeps what
\* was readable readable.
LEMMA GrowthKeepsReadable ==
    ASSUME TypeOK, AckedIsRecoverable, WrittenIsReadable,
           NEW r \in Seq(Item), file' = file \o r
    PROVE  /\ \A e \in acked \ (handed \cup shadowed) : ReadableWithin(file', e, synced)
           /\ \A t \in Threads :
                 pc[t] \in Written /\ event[t] # NoEvent /\ event[t] \notin shadowed =>
                 ReadableWithin(file', event[t], Len(file'))
<1> USE DEF TypeOK
<1>1. \A e \in acked \ (handed \cup shadowed) : ReadableWithin(file', e, synced)
  BY ReadableConcat DEF AckedIsRecoverable
<1>2. ASSUME NEW t \in Threads,
             pc[t] \in Written, event[t] # NoEvent, event[t] \notin shadowed
      PROVE  ReadableWithin(file', event[t], Len(file'))
  <2>1. ReadableWithin(file, event[t], Len(file))
    BY <1>2 DEF WrittenIsReadable
  <2>2. ReadableWithin(file', event[t], Len(file))
    BY <2>1, ReadableConcat
  <2>3. file' \in Seq(Item) /\ Len(file) \in Nat /\ Len(file') \in Nat /\ Len(file) <= Len(file')
    OBVIOUS
  <2>4. QED
    BY <2>2, <2>3, ReadableWiden
<1>3. QED
  BY <1>1, <1>2
-----------------------------------------------------------------------------
\* A step of thread t that leaves the other threads alone and at most lets t
\* drop its event, acknowledged or not, keeps the ownership.
LEMMA OwnershipKept ==
    ASSUME Ownership, NEW t \in Threads,
           \A u \in Threads \ {t} : pc'[u] = pc[u] /\ event'[u] = event[u],
           event'[t] \in {event[t], NoEvent},
           pc'[t] = "idle" => event'[t] = NoEvent,
           pc'[t] \in {"write", "count", "sync"} => event'[t] # NoEvent,
           pc'[t] # "idle" => phase = "up",
           phase' = phase, started' = started,
           \/ acked' = acked
           \/ event[t] # NoEvent /\ event'[t] = NoEvent /\ acked' = acked \cup {event[t]}
    PROVE  Ownership'
<1> USE DEF Ownership
<1>1. acked' \subseteq started'
  OBVIOUS
<1>2. ASSUME NEW u \in Threads
      PROVE  /\ event'[u] # NoEvent => event'[u] \in started' \ acked'
             /\ pc'[u] = "idle" => event'[u] = NoEvent
             /\ pc'[u] # "idle" => phase' = "up"
             /\ pc'[u] \in {"write", "count", "sync"} => event'[u] # NoEvent
  <2>1. CASE u = t
    BY <2>1
  <2>2. CASE u # t
    BY <2>2
  <2>3. QED
    BY <2>1, <2>2
<1>3. ASSUME NEW u \in Threads, NEW v \in Threads, event'[u] = event'[v], u # v
      PROVE  event'[u] = NoEvent
  <2>1. CASE u = t
    BY <1>3, <2>1
  <2>2. CASE v = t
    BY <1>3, <2>2
  <2>3. CASE u # t /\ v # t
    BY <1>3, <2>3
  <2>4. QED
    BY <2>1, <2>2, <2>3
<1>4. QED
  BY <1>1, <1>2, <1>3

LEMMA OpenStep ==
    ASSUME IInv, Create \/ WriteHeader \/ OpenExisting
    PROVE  IInv'
<1> USE DEF IInv, Create, WriteHeader, OpenExisting, threads, bounds, history, counters
<1>1. TypeOK'
  BY DEF TypeOK
<1>2. Ownership' /\ WrittenIsReadable'
  BY DEF Ownership, WrittenIsReadable, ReadableWithin, Intact
<1>3. HeaderFirst'
  BY DEF HeaderFirst
<1>4. AckedIsRecoverable'
  BY DEF AckedIsRecoverable, ReadableWithin, Intact
<1>5. QED
  BY <1>1, <1>2, <1>3, <1>4

\* Everything readable is handed back, so what truncation removes is no longer owed.
LEMMA ReplayStep ==
    ASSUME IInv, Replay
    PROVE  IInv'
<1> USE DEF IInv, Replay, threads, bounds
<1>1. KeptLen(file) \in 0..Len(file)
  BY KeptLenRange DEF TypeOK
<1>2. file' \in Seq(Item) /\ Len(file') = KeptLen(file)
  BY <1>1 DEF TypeOK
<1>3. {file[i] : i \in Readable(file)} \subseteq Events
  BY DEF Readable, Intact, TypeOK
<1>4. TypeOK'
  BY <1>1, <1>2, <1>3 DEF TypeOK
<1>5. Ownership' /\ HeaderFirst'
  BY DEF Ownership, HeaderFirst
<1>6. WrittenIsReadable'
  BY DEF WrittenIsReadable, Written, Ownership
<1>7. AckedIsRecoverable'
  <2>1. SUFFICES ASSUME NEW e \in acked \ (handed \cup shadowed) PROVE e \in handed'
    BY DEF AckedIsRecoverable
  <2>2. PICK i \in 1..synced : file[i] = e /\ Intact(file, i)
    BY DEF AckedIsRecoverable, ReadableWithin
  <2>3. i \in Readable(file)
    BY <2>2 DEF Readable, TypeOK
  <2>4. QED
    BY <2>2, <2>3
<1>8. QED
  BY <1>4, <1>5, <1>6, <1>7

LEMMA StartAppendStep ==
    ASSUME IInv, NEW t \in Threads, NEW e \in Events, StartAppend(t, e)
    PROVE  IInv'
<1> USE DEF IInv, StartAppend, counters, bounds
<1>0. e # NoEvent
  BY MarkersAssumption
<1>1. TypeOK'
  BY DEF TypeOK
<1>2. Ownership'
  BY <1>0 DEF Ownership, TypeOK
<1>3. WrittenIsReadable'
  BY DEF WrittenIsReadable, Written, TypeOK, ReadableWithin, Intact
<1>4. HeaderFirst' /\ AckedIsRecoverable'
  BY DEF HeaderFirst, AckedIsRecoverable, ReadableWithin, Intact
<1>5. QED
  BY <1>1, <1>2, <1>3, <1>4

LEMMA ShadowType ==
    ASSUME NEW s \in Seq(Item), NEW e \in Events
    PROVE  Shadow(s, e) \subseteq Events
BY DEF Shadow

LEMMA WriteRecordStep ==
    ASSUME IInv, NEW t \in Threads, WriteRecord(t)
    PROVE  IInv'
<1> USE DEF IInv, WriteRecord, counters, bounds
<1>1. /\ event[t] \in Events
      /\ file \in Seq(Item) /\ buffer \in Seq(Item)
      /\ Append(buffer, event[t]) \in Seq(Item)
      /\ file \o buffer \in Seq(Item)
  BY MarkersAssumption DEF TypeOK, Ownership, Item
<1>2. TypeOK'
  <2>1. file' \in Seq(Item) /\ synced' \in 0..Len(file') /\ buffer' \in Seq(Item)
    BY <1>1, SMT DEF TypeOK
  <2>2. Shadow(file \o buffer, event[t]) \subseteq Events
    BY <1>1, ShadowType
  <2>3. pc' \in [Threads -> {"idle", "write", "count", "loadPos", "mark", "sync"}]
        /\ offset' \in [Threads -> Nat]
    BY DEF TypeOK
  <2>4. QED
    BY <2>1, <2>2, <2>3 DEF TypeOK
<1>30. /\ \A u \in Threads \ {t} : pc'[u] = pc[u] /\ event'[u] = event[u]
       /\ pc[t] # "idle" => phase = "up"
  BY DEF TypeOK, Ownership
<1>31. Ownership'
  BY <1>1, <1>30, MarkersAssumption, OwnershipKept DEF TypeOK
<1>3. Ownership' /\ HeaderFirst'
  BY <1>31 DEF HeaderFirst
<1>4. /\ \A e \in acked \ (handed \cup shadowed) : ReadableWithin(file', e, synced)
      /\ \A u \in Threads :
            pc[u] \in Written /\ event[u] # NoEvent /\ event[u] \notin shadowed =>
            ReadableWithin(file', event[u], Len(file'))
  BY <1>1, GrowthKeepsReadable
<1>5. AckedIsRecoverable'
  BY <1>4 DEF AckedIsRecoverable
<1>6. event[t] \notin shadowed' => ReadableWithin(file', event[t], Len(file'))
  BY <1>1, ReadableLast DEF Shadow
<1>7. WrittenIsReadable'
  BY <1>4, <1>6 DEF WrittenIsReadable, Written, TypeOK
<1>8. QED
  BY <1>2, <1>3, <1>5, <1>7

LEMMA WriteFailsStep ==
    ASSUME IInv, NEW t \in Threads, WriteFails(t)
    PROVE  IInv'
<1> USE DEF IInv, WriteFails, Fails, counters
<1>1. /\ event[t] \in Events
      /\ file \in Seq(Item) /\ buffer \in Seq(Item)
      /\ Append(buffer, event[t]) \in Seq(Item)
      /\ Append(buffer, TORN) \in Seq(Item)
      /\ file \o buffer \in Seq(Item)
  BY MarkersAssumption DEF TypeOK, Ownership, Item
<1>2. TypeOK'
  <2>1. file' \in Seq(Item) /\ synced' \in 0..Len(file') /\ buffer' \in Seq(Item)
    <3>1. <<>> \in Seq(Item) /\ synced \in 0..Len(file) /\ Len(file) \in Nat
      BY <1>1 DEF TypeOK
    <3>2. CASE file' = file /\ buffer' = Append(buffer, event[t])
      BY <1>1, <3>1, <3>2
    <3>3. CASE file' = file \o Append(buffer, TORN) /\ buffer' = <<>>
      BY <1>1, <3>1, <3>3
    <3>4. QED
      BY <3>2, <3>3
  <2>2. Shadow(file \o buffer, event[t]) \subseteq Events
    BY <1>1, ShadowType
  <2>3. /\ pc' \in [Threads -> {"idle", "write", "count", "loadPos", "mark", "sync"}]
        /\ event' \in [Threads -> Events \cup {NoEvent}]
        /\ offset' \in [Threads -> Nat] /\ pos' \in [Threads -> Nat]
    BY DEF TypeOK
  <2>4. faults' \in 0..MaxFaults
    BY BoundsAssumption DEF TypeOK
  <2>5. QED
    BY <2>1, <2>2, <2>3, <2>4 DEF TypeOK
<1>30. /\ \A u \in Threads \ {t} : pc'[u] = pc[u] /\ event'[u] = event[u]
       /\ pc[t] # "idle" => phase = "up"
  BY DEF TypeOK, Ownership
<1>31. Ownership'
  BY <1>1, <1>30, MarkersAssumption, OwnershipKept DEF TypeOK
<1>3. Ownership' /\ HeaderFirst'
  BY <1>31 DEF HeaderFirst
<1>4. PICK r \in {<<>>, Append(buffer, TORN)} : file' = file \o r
  <2>1. file \o <<>> = file
    BY <1>1
  <2>2. QED
    BY <1>1, <2>1
<1>5. /\ \A e \in acked \ (handed \cup shadowed) : ReadableWithin(file', e, synced)
      /\ \A u \in Threads :
            pc[u] \in Written /\ event[u] # NoEvent /\ event[u] \notin shadowed =>
            ReadableWithin(file', event[u], Len(file'))
  <2>1. <<>> \in Seq(Item)
    OBVIOUS
  <2>2. r \in Seq(Item)
    BY <1>1, <2>1
  <2>3. QED
    BY <1>4, <2>2, GrowthKeepsReadable
<1>6. shadowed \subseteq shadowed'
  OBVIOUS
<1>7. AckedIsRecoverable'
  BY <1>5, <1>6 DEF AckedIsRecoverable
<1>8. WrittenIsReadable'
  BY <1>5, <1>6 DEF WrittenIsReadable, Written, TypeOK
<1>9. QED
  BY <1>2, <1>3, <1>7, <1>8

\* Steps that touch neither the file nor the history: counters, positions and
\* the failed fsync, after which the thread has let go of its event.
LEMMA QuietStep ==
    ASSUME IInv, NEW t \in Threads,
           Count(t) \/ StartCheckpoint(t) \/ LoadPos(t) \/ MarkerFails(t) \/ SyncFails(t)
    PROVE  IInv'
<1> USE DEF IInv, Count, StartCheckpoint, LoadPos, MarkerFails, SyncFails, Fails,
            counters, bounds, history
<1>1. TypeOK'
  <2>1. /\ pc' \in [Threads -> {"idle", "write", "count", "loadPos", "mark", "sync"}]
        /\ event' \in [Threads -> Events \cup {NoEvent}]
        /\ offset' \in [Threads -> Nat] /\ pos' \in [Threads -> Nat]
    <3>1. CASE Count(t)
      BY <3>1 DEF TypeOK
    <3>2. CASE StartCheckpoint(t) \/ LoadPos(t)
      BY <3>2 DEF TypeOK
    <3>3. CASE MarkerFails(t) \/ SyncFails(t)
      <4>1. Fails(t)
        BY <3>3
      <4>2. QED
        BY <4>1 DEF TypeOK
    <3>4. QED
      BY <3>1, <3>2, <3>3
  <2>2. buffer' \in Seq(Item)
    <3>1. Append(buffer, CHKP) \in Seq(Item)
      BY DEF TypeOK, Item
    <3>2. QED
      BY <3>1 DEF TypeOK
  <2>3. bytesWritten' \in Nat /\ recordsWritten' \in Nat
    BY SMTT(30) DEF TypeOK
  <2>4. faults' \in 0..MaxFaults /\ checkpoints' \in 0..MaxCheckpoints
    BY SMTT(30), BoundsAssumption DEF TypeOK
  <2>5. QED
    BY <2>1, <2>2, <2>3, <2>4 DEF TypeOK
<1>20. /\ \A u \in Threads \ {t} : pc'[u] = pc[u] /\ event'[u] = event[u]
       /\ event'[t] \in {event[t], NoEvent}
       /\ pc'[t] = "idle" => event'[t] = NoEvent
       /\ pc'[t] \in {"write", "count", "sync"} => event'[t] # NoEvent
       /\ pc'[t] # "idle" => phase = "up"
  BY DEF TypeOK, Ownership
<1>2. Ownership'
  BY <1>20, OwnershipKept
<1>21. \A u \in Threads : pc'[u] \in Written /\ event'[u] # NoEvent =>
            pc[u] \in Written /\ event'[u] = event[u]
  BY DEF TypeOK, Written, Ownership
<1>3. WrittenIsReadable'
  BY <1>21 DEF WrittenIsReadable, ReadableWithin, Intact
<1>4. HeaderFirst' /\ AckedIsRecoverable'
  BY DEF HeaderFirst, AckedIsRecoverable, ReadableWithin, Intact
<1>5. QED
  BY <1>1, <1>2, <1>3, <1>4

LEMMA WriteMarkerStep ==
    ASSUME IInv, NEW t \in Threads, WriteMarker(t)
    PROVE  IInv'
<1> USE DEF IInv, WriteMarker, bounds, history
<1>1. file \in Seq(Item) /\ Append(buffer, CHKP) \in Seq(Item)
  BY DEF TypeOK, Item
<1>2. TypeOK'
  BY <1>1 DEF TypeOK
<1>30. /\ \A u \in Threads \ {t} : pc'[u] = pc[u] /\ event'[u] = event[u]
       /\ pc[t] # "idle" => phase = "up"
  BY DEF TypeOK, Ownership
<1>31. Ownership'
  BY <1>1, <1>30, MarkersAssumption, OwnershipKept DEF TypeOK
<1>3. Ownership' /\ HeaderFirst'
  BY <1>31 DEF HeaderFirst
<1>4. /\ \A e \in acked \ (handed \cup shadowed) : ReadableWithin(file', e, synced)
      /\ \A u \in Threads :
            pc[u] \in Written /\ event[u] # NoEvent /\ event[u] \notin shadowed =>
            ReadableWithin(file', event[u], Len(file'))
  BY <1>1, GrowthKeepsReadable
<1>5. AckedIsRecoverable' /\ WrittenIsReadable'
  BY <1>4 DEF AckedIsRecoverable, WrittenIsReadable, Written, TypeOK
<1>6. QED
  BY <1>2, <1>3, <1>5

LEMMA SyncDataStep ==
    ASSUME IInv, NEW t \in Threads, SyncData(t)
    PROVE  IInv'
<1> USE DEF IInv, SyncData, Forget, counters, bounds
<1>1. /\ file \in Seq(Item) /\ buffer \in Seq(Item)
      /\ event[t] \in Events /\ pc[t] # "idle"
      /\ Len(file') \in Nat /\ synced <= Len(file') /\ synced \in Nat
  BY MarkersAssumption DEF TypeOK, Ownership
<1>2. TypeOK'
  BY <1>1 DEF TypeOK
<1>30. /\ \A u \in Threads \ {t} : pc'[u] = pc[u] /\ event'[u] = event[u]
       /\ pc[t] # "idle" => phase = "up"
  BY DEF TypeOK, Ownership
<1>31. Ownership'
  BY <1>1, <1>30, MarkersAssumption, OwnershipKept DEF TypeOK
<1>3. Ownership' /\ HeaderFirst'
  BY <1>1, <1>30, <1>31 DEF HeaderFirst
<1>4. /\ \A e \in acked \ (handed \cup shadowed) : ReadableWithin(file', e, synced)
      /\ \A u \in Threads :
            pc[u] \in Written /\ event[u] # NoEvent /\ event[u] \notin shadowed =>
            ReadableWithin(file', event[u], Len(file'))
  BY <1>1, GrowthKeepsReadable
<1>5. file' \in Seq(Item)
  BY <1>1
<1>6. \A e \in acked \ (handed \cup shadowed) : ReadableWithin(file', e, Len(file'))
  BY <1>1, <1>4, <1>5, ReadableWiden
<1>7. event[t] \notin shadowed => ReadableWithin(file', event[t], Len(file'))
  BY <1>1, <1>4, MarkersAssumption DEF Written
<1>8. AckedIsRecoverable'
  BY <1>6, <1>7 DEF AckedIsRecoverable
<1>9. WrittenIsReadable'
  BY <1>4 DEF WrittenIsReadable, Written, TypeOK
<1>10. QED
  BY <1>2, <1>3, <1>8, <1>9

LEMMA TornTailType == \A torn : TornTail(torn) \in Seq(Item)
<1>1. <<>> \in Seq(Item) /\ <<TORN>> \in Seq(Item)
  BY DEF Item
<1>2. QED
  BY <1>1 DEF TornTail

LEMMA StopStep ==
    ASSUME IInv, Exit \/ ProcessCrash
    PROVE  IInv'
<1> USE DEF IInv, Exit, ProcessCrash, StopThreads, bounds, history
<1>1. PICK r \in Seq(Item) : file' = file \o r
  <2>1. buffer \in Seq(Item) /\ \A torn \in {FALSE, Writing} : TornTail(torn) \in Seq(Item)
    BY TornTailType DEF TypeOK
  <2>2. QED
    BY <2>1
<1>2. TypeOK'
  <2>1. file' \in Seq(Item) /\ synced' \in 0..Len(file')
    <3>1. file \in Seq(Item) /\ synced \in 0..Len(file) /\ Len(file) \in Nat /\ Len(r) \in Nat
      BY DEF TypeOK
    <3>2. file' \in Seq(Item) /\ Len(file') = Len(file) + Len(r)
      BY <1>1, <3>1
    <3>3. synced' = synced
      OBVIOUS
    <3>4. QED
      BY <3>1, <3>2, <3>3
  <2>2. crashes' \in 0..MaxCrashes
    <3>1. CASE Exit
      BY <3>1 DEF TypeOK
    <3>2. CASE ProcessCrash
      BY <3>2, BoundsAssumption DEF TypeOK
    <3>3. QED
      BY <3>1, <3>2
  <2>3. /\ phase' = "down" /\ buffer' = <<>> /\ bytesWritten' = 0 /\ recordsWritten' = 0
        /\ checkpointPos' = 0 /\ pc' = Idle /\ event' = NoEvents /\ offset' = Zeros /\ pos' = Zeros
    OBVIOUS
  <2>4. /\ header' = header /\ faults' = faults /\ checkpoints' = checkpoints
        /\ started' = started /\ acked' = acked /\ handed' = handed /\ shadowed' = shadowed
    OBVIOUS
  <2>5. QED
    BY <2>1, <2>2, <2>3, <2>4 DEF TypeOK, Idle, NoEvents, Zeros
<1>3. Ownership' /\ WrittenIsReadable'
  BY DEF Ownership, WrittenIsReadable, Written, Idle, NoEvents
<1>4. HeaderFirst'
  BY DEF HeaderFirst
<1>5. AckedIsRecoverable'
  BY <1>1, GrowthKeepsReadable DEF AckedIsRecoverable
<1>6. QED
  BY <1>2, <1>3, <1>4, <1>5

LEMMA PowerLossStep ==
    ASSUME IInv, PowerLoss
    PROVE  IInv'
<1> USE DEF IInv, PowerLoss, StopThreads, history
<1>1. file \in Seq(Item) /\ synced \in 0..Len(file)
  BY DEF TypeOK
<1>2. CASE header' = "durable"
  <2>1. PICK k \in synced..Len(file), r \in Seq(Item) : file' = SubSeq(file, 1, k) \o r
    <3>1. PICK k \in synced..Len(file), torn \in BOOLEAN :
             file' = SubSeq(file, 1, k) \o TornTail(torn)
      BY <1>1, <1>2, Zenon
    <3>2. TornTail(torn) \in Seq(Item)
      BY TornTailType
    <3>3. QED
      BY <3>1, <3>2
  <2>2. SubSeq(file, 1, k) \in Seq(Item) /\ Len(SubSeq(file, 1, k)) = k
    BY <1>1
  <2>3. file' \in Seq(Item) /\ synced' \in 0..Len(file') /\ synced <= synced'
    BY <1>1, <2>1, <2>2
  <2>4. TypeOK'
    BY <1>2, <2>3, BoundsAssumption DEF TypeOK, Idle, NoEvents, Zeros
  <2>5. ASSUME NEW e \in acked \ (handed \cup shadowed)
        PROVE  ReadableWithin(file', e, synced')
    <3>1. ReadableWithin(SubSeq(file, 1, k), e, synced)
      BY <1>1, ReadablePrefix DEF AckedIsRecoverable
    <3>2. ReadableWithin(file', e, synced)
      <4>1. synced \in 0..Len(SubSeq(file, 1, k))
        BY <1>1, <2>1, <2>2
      <4>2. QED
        BY <2>1, <2>2, <3>1, <4>1, ReadableConcat
    <3>3. QED
      BY <1>1, <2>3, <3>2, ReadableWiden
  <2>6. AckedIsRecoverable'
    BY <2>5 DEF AckedIsRecoverable
  <2>7. Ownership' /\ WrittenIsReadable' /\ HeaderFirst'
    BY <1>2 DEF Ownership, WrittenIsReadable, Written, HeaderFirst, Idle, NoEvents
  <2>8. QED
    BY <2>4, <2>6, <2>7
<1>3. CASE header' # "durable"
  <2>1. file' = <<>> /\ synced' = 0
    BY <1>3
  <2>2. acked = {} /\ header' \in {"absent", "partial"}
    BY <1>3 DEF HeaderFirst, SurvivingHeader, TypeOK
  <2>3. TypeOK'
    BY <2>1, <2>2, BoundsAssumption DEF TypeOK, Idle, NoEvents, Zeros
  <2>4. Ownership' /\ WrittenIsReadable' /\ HeaderFirst' /\ AckedIsRecoverable'
    BY <2>2 DEF Ownership, WrittenIsReadable, Written, HeaderFirst, AckedIsRecoverable,
                Idle, NoEvents
  <2>5. QED
    BY <2>3, <2>4
<1>4. QED
  BY <1>2, <1>3
-----------------------------------------------------------------------------
LEMMA NextStep ==
    ASSUME IInv, [Next]_vars
    PROVE  IInv'
<1>1. CASE Create \/ WriteHeader \/ OpenExisting
  BY <1>1, OpenStep
<1>2. CASE Replay
  BY <1>2, ReplayStep
<1>3. ASSUME NEW t \in Threads, ThreadStep(t)
      PROVE  IInv'
  BY <1>3, StartAppendStep, WriteRecordStep, WriteFailsStep, QuietStep, WriteMarkerStep,
     SyncDataStep DEF ThreadStep
<1>4. CASE Exit \/ ProcessCrash
  BY <1>4, StopStep
<1>5. CASE PowerLoss
  BY <1>5, PowerLossStep
<1>6. CASE UNCHANGED vars
  BY <1>6 DEF vars, IInv, TypeOK, Ownership, WrittenIsReadable, HeaderFirst, AckedIsRecoverable,
              counters, threads, bounds, history, ReadableWithin, Intact
<1>7. QED
  BY <1>1, <1>2, <1>3, <1>4, <1>5, <1>6 DEF Next

\* The inductive invariant holds throughout.
THEOREM Inductive == Spec => []IInv
<1>1. QED
  BY InitIInv, NextStep, PTL DEF Spec

\* The variables of journal.rs keep their types, whatever crashes or fails.
THEOREM TypeCorrect == Spec => []TypeOK
<1>1. IInv => TypeOK
  BY DEF IInv
<1>2. QED
  BY <1>1, Inductive, PTL

\* An event whose append returned Ok is on stable storage, where the next replay
\* reads it, until a replay has returned it.
THEOREM Durability == Spec => []AckedIsRecoverable
<1>1. IInv => AckedIsRecoverable
  BY DEF IInv
<1>2. QED
  BY <1>1, Inductive, PTL
-----------------------------------------------------------------------------
\* Replay hands back everything acknowledged, readable and not yet returned.
LEMMA ReplayRecovers ==
    ASSUME IInv, Replay
    PROVE  Log!Recover
<1> DEFINE S == {file[i] : i \in Readable(file)}
<1>1. S \in SUBSET Events
  BY DEF Readable, Intact, IInv, TypeOK
<1>2. ASSUME NEW e \in (acked \ shadowed) \ handed
      PROVE  e \in S
  <2>1. PICK i \in 1..synced : file[i] = e /\ Intact(file, i)
    BY DEF IInv, AckedIsRecoverable, ReadableWithin
  <2>2. i \in Readable(file)
    BY <2>1 DEF Readable, IInv, TypeOK
  <2>3. QED
    BY <2>1, <2>2
<1>3. handed' = handed \cup S /\ UNCHANGED (acked \ shadowed)
  BY DEF Replay
<1>4. QED
  BY <1>1, <1>2, <1>3 DEF Log!Recover, Log!Return

\* An event is accepted when its fsync returns; nothing else a thread does is
\* visible to the abstract log.
LEMMA ThreadAcceptsOrStutters ==
    ASSUME IInv, NEW t \in Threads, ThreadStep(t)
    PROVE  (Log!Accept(event[t]) /\ event[t] \in Events) \/ UNCHANGED Log!logVars
<1> USE DEF IInv
<1>1. CASE SyncData(t)
  <2>1. event[t] \in Events /\ event[t] \notin acked
    BY <1>1, MarkersAssumption DEF SyncData, TypeOK, Ownership
  <2>2. /\ acked' = acked \cup {event[t]}
        /\ shadowed' = shadowed /\ handed' = handed
    BY <1>1 DEF SyncData
  <2>3. QED
    BY <2>1, <2>2 DEF Log!Accept, Log!logVars
<1>2. CASE WriteRecord(t) \/ WriteFails(t)
  <2>1. event[t] \notin acked
    BY <1>2 DEF WriteRecord, WriteFails, Ownership
  <2>2. /\ acked' = acked /\ handed' = handed
        /\ shadowed \subseteq shadowed' /\ shadowed' \subseteq shadowed \cup {event[t]}
    BY <1>2 DEF WriteRecord, WriteFails, Shadow
  <2>3. acked' \ shadowed' = acked \ shadowed
    BY <2>1, <2>2
  <2>4. QED
    BY <2>2, <2>3 DEF Log!logVars
<1>3. CASE \/ \E e \in Events : StartAppend(t, e)
           \/ Count(t) \/ StartCheckpoint(t) \/ LoadPos(t) \/ WriteMarker(t)
           \/ MarkerFails(t) \/ SyncFails(t)
  BY <1>3 DEF StartAppend, Count, StartCheckpoint, LoadPos, WriteMarker, MarkerFails, SyncFails,
              history, Log!logVars
<1>4. QED
  BY <1>1, <1>2, <1>3 DEF ThreadStep

\* The journal implements the at-least-once log: every step of it accepts an
\* event, recovers, or is invisible.
THEOREM Refinement == Spec => ImplementsLog
<1>1. Init => Log!Init
  BY DEF Init, Log!Init
<1>2. ASSUME IInv, [Next]_vars
      PROVE  [Log!Next]_(Log!logVars)
  <2>1. CASE Replay
    BY <1>2, <2>1, ReplayRecovers DEF Log!Next
  <2>2. ASSUME NEW t \in Threads, ThreadStep(t)
        PROVE  [Log!Next]_(Log!logVars)
    BY <1>2, <2>2, ThreadAcceptsOrStutters DEF Log!Next
  <2>3. CASE Create \/ WriteHeader \/ OpenExisting \/ Exit \/ ProcessCrash \/ PowerLoss
    BY <2>3 DEF Create, WriteHeader, OpenExisting, Exit, ProcessCrash, PowerLoss, history,
                Log!logVars
  <2>4. CASE UNCHANGED vars
    BY <2>4 DEF vars, history, Log!logVars
  <2>5. QED
    BY <1>2, <2>1, <2>2, <2>3, <2>4 DEF Next
<1>3. QED
  BY <1>1, <1>2, Inductive, PTL DEF Spec, Log!Spec, ImplementsLog
-----------------------------------------------------------------------------
(* The counter and the file.  Threads only run while the journal is up, and  *)
(* a record that is written but not counted keeps its thread at "count".     *)

Counting == {t \in Threads : pc[t] = "count"}

CounterInv == CounterNeverAhead /\ (phase # "up" => pc = Idle)

\* A thread that comes to or leaves the counting changes their number by one.
LEMMA CountingChanges ==
    ASSUME TypeOK, NEW t \in Threads, NEW step, pc' = [pc EXCEPT ![t] = step]
    PROVE  /\ Cardinality(Counting) \in Nat /\ Cardinality(Counting') \in Nat
           /\ pc[t] # "count" /\ step = "count" => Cardinality(Counting') = Cardinality(Counting) + 1
           /\ pc[t] = "count" /\ step # "count" => Cardinality(Counting') = Cardinality(Counting) - 1
           /\ pc[t] # "count" /\ step # "count" => Cardinality(Counting') = Cardinality(Counting)
<1>1. IsFiniteSet(Counting) /\ IsFiniteSet(Counting')
  <2>1. Counting \subseteq Threads /\ Counting' \subseteq Threads
    BY DEF Counting
  <2> QED
    BY <2>1, ThreadsAssumption, FS_Subset
<1>2. Counting' = IF step = "count" THEN Counting \cup {t} ELSE Counting \ {t}
  BY DEF Counting, TypeOK
<1>3. t \in Counting <=> pc[t] = "count"
  BY DEF Counting
<1> QED
  BY <1>1, <1>2, <1>3, FS_CardinalityType, FS_AddElement, FS_RemoveElement

LEMMA NobodyCounts == ASSUME pc = Idle PROVE Counting = {} /\ Cardinality(Counting) = 0
BY FS_EmptySet DEF Counting, Idle

\* Opening and replaying set the counter to no more than the length of the file.
LEMMA OpeningCounts ==
    ASSUME IInv, CounterInv, Create \/ WriteHeader \/ OpenExisting \/ Replay
    PROVE  CounterInv'
<1> USE DEF IInv, Create, WriteHeader, OpenExisting, Replay, threads, CounterInv
<1>1. UNCHANGED pc /\ pc = Idle
  OBVIOUS
<1>2. CASE Create \/ WriteHeader \/ OpenExisting
  BY <1>1, <1>2 DEF CounterNeverAhead
<1>3. CASE Replay
  <2>1. Cardinality(Counting') = 0
    BY <1>1, NobodyCounts DEF Counting
  <2>2. KeptLen(file) \in 0..Len(file) /\ Len(file) \in Nat
    BY KeptLenRange DEF TypeOK
  <2>3. Len(file') = KeptLen(file) /\ bytesWritten' = KeptLen(file)
    BY <1>3, <2>2 DEF TypeOK
  <2> QED
    BY <1>1, <1>3, <2>1, <2>2, <2>3 DEF CounterNeverAhead, Counting
<1> QED
  BY <1>2, <1>3

\* Every step of a thread that does not write a record or count one.
LEMMA OtherStepsCount ==
    ASSUME IInv, CounterInv, NEW t \in Threads, NEW step, NEW r \in Seq(Item),
           phase = "up", UNCHANGED <<phase, bytesWritten>>, file' = file \o r,
           pc[t] # "count", step # "count", pc' = [pc EXCEPT ![t] = step]
    PROVE  CounterInv'
<1>1. Cardinality(Counting') = Cardinality(Counting) /\ Cardinality(Counting) \in Nat
  BY CountingChanges DEF IInv
<1>2. Len(file') = Len(file) + Len(r) /\ Len(file) \in Nat /\ Len(r) \in Nat /\ bytesWritten \in Nat
  BY DEF IInv, TypeOK
<1> QED
  BY <1>1, <1>2 DEF CounterInv, CounterNeverAhead, Counting

LEMMA ThreadCounts ==
    ASSUME IInv, CounterInv, NEW t \in Threads, ThreadStep(t)
    PROVE  CounterInv'
<1> USE DEF IInv
<1>0. phase = "up"
  <2>1. pc[t] # "idle" => phase = "up"
    BY DEF CounterInv, Idle
  <2> QED
    BY <2>1 DEF ThreadStep, StartAppend, WriteRecord, WriteFails, Count, StartCheckpoint, LoadPos,
       WriteMarker, MarkerFails, SyncData, SyncFails
<1>1. <<>> \in Seq(Item) /\ file \o <<>> = file /\ buffer \in Seq(Item)
      /\ Append(buffer, TORN) \in Seq(Item) /\ Append(buffer, CHKP) \in Seq(Item)
  BY DEF TypeOK, Item
<1>2. CASE WriteRecord(t)
  <2>1. event[t] \in Item
    BY <1>2 DEF TypeOK, WriteRecord, Ownership, WrittenIsReadable, Item
  <2>2. Len(file') = Len(file) + Len(buffer) + 1 /\ Len(file) \in Nat /\ Len(buffer) \in Nat
    BY <1>2, <2>1 DEF WriteRecord, TypeOK
  <2>3. Cardinality(Counting') = Cardinality(Counting) + 1 /\ Cardinality(Counting) \in Nat
    BY <1>2, CountingChanges DEF WriteRecord
  <2>4. UNCHANGED <<phase, bytesWritten>> /\ bytesWritten \in Nat
    BY <1>2 DEF WriteRecord, counters, TypeOK
  <2> QED
    BY <1>0, <2>2, <2>3, <2>4 DEF CounterInv, CounterNeverAhead, Counting
<1>3. CASE Count(t)
  <2>1. Cardinality(Counting') = Cardinality(Counting) - 1 /\ Cardinality(Counting) \in Nat
    <3> DEFINE step == IF (recordsWritten + 1) % CheckpointInterval = 0 THEN "loadPos" ELSE "sync"
    <3>1. pc[t] = "count" /\ pc' = [pc EXCEPT ![t] = step]
      BY <1>3 DEF Count
    <3>2. step # "count"
      OBVIOUS
    <3> HIDE DEF step
    <3> QED
      BY <3>1, <3>2, CountingChanges
  <2>2. bytesWritten' = bytesWritten + 1 /\ UNCHANGED <<phase, file>> /\ bytesWritten \in Nat
        /\ Len(file) \in Nat
    BY <1>3 DEF Count, TypeOK
  <2> QED
    BY <1>0, <2>1, <2>2 DEF CounterInv, CounterNeverAhead, Counting
<1>4. CASE WriteFails(t)
  BY <1>0, <1>1, <1>4, OtherStepsCount DEF WriteFails, Fails, counters
<1>5. CASE (\E e \in Events : StartAppend(t, e)) \/ StartCheckpoint(t) \/ LoadPos(t) \/ MarkerFails(t)
           \/ SyncFails(t)
  BY <1>0, <1>1, <1>5, OtherStepsCount
     DEF StartAppend, StartCheckpoint, LoadPos, MarkerFails, SyncFails, Fails, counters
<1>6. CASE WriteMarker(t) \/ SyncData(t)
  BY <1>0, <1>1, <1>6, OtherStepsCount DEF WriteMarker, SyncData, counters
<1> QED
  BY <1>2, <1>3, <1>4, <1>5, <1>6 DEF ThreadStep

LEMMA StoppingCounts ==
    ASSUME StopThreads
    PROVE  CounterInv'
BY DEF StopThreads, CounterInv, CounterNeverAhead

(* Of append, open and replay: bytes_written, loaded and added to outside the *)
(* mutex, never points past the end of the file, whatever fails in between.   *)
THEOREM CounterBehindFile == Spec => []CounterNeverAhead
<1>1. Init => CounterInv
  BY DEF Init, CounterInv, CounterNeverAhead, Idle
<1>2. IInv /\ CounterInv /\ [Next]_vars => CounterInv'
  <2> SUFFICES ASSUME IInv, CounterInv, [Next]_vars PROVE CounterInv'
    OBVIOUS
  <2>1. CASE Create \/ WriteHeader \/ OpenExisting \/ Replay
    BY <2>1, OpeningCounts
  <2>2. CASE \E t \in Threads : ThreadStep(t)
    BY <2>2, ThreadCounts
  <2>3. CASE Exit \/ ProcessCrash \/ PowerLoss
    BY <2>3, StoppingCounts DEF Exit, ProcessCrash, PowerLoss
  <2>4. CASE UNCHANGED vars
    BY <2>4 DEF vars, counters, threads, CounterInv, CounterNeverAhead, Idle
  <2> QED
    BY <2>1, <2>2, <2>3, <2>4 DEF Next
<1>3. CounterInv => CounterNeverAhead
  BY DEF CounterInv
<1> QED
  BY <1>1, <1>2, <1>3, Inductive, PTL DEF Spec
=============================================================================
