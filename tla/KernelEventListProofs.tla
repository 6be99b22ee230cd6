----------------------- MODULE KernelEventListProofs -----------------------
(***************************************************************************)
(* For any number of callbacks, pollers and events, and any MAX_EVENTS and *)
(* buffer size: the event list is type correct, its counter is its length, *)
(* what the unlocked check lets through is bounded by the number of        *)
(* callbacks that can run at once, every event reported is in one place,   *)
(* and each poller broadcasts in the order of the list.                    *)
(***************************************************************************)
EXTENDS KernelEventList, SequenceFacts

IInv == TypeOK /\ ListDiscipline
-----------------------------------------------------------------------------
(* The entries in the callbacks' hands.                                      *)

LEMMA AddingIsFinite ==
    IsFiniteSet(Adding) /\ Cardinality(Adding) \in Nat /\ Cardinality(Sources) \in Nat
    /\ Cardinality(Adding) <= Cardinality(Sources)
<1>1. Adding \subseteq Sources
  BY DEF Adding
<1> QED
  BY <1>1, KernelAssumption, FS_Subset, FS_CardinalityType

\* A step that neither allocates nor inserts, and does not lengthen the list.
LEMMA ListShrinks ==
    ASSUME ListDiscipline, UNCHANGED entry, Len(list) \in Nat, Len(list') \in Nat,
           Len(list') <= Len(list), eventCount' = Len(list')
    PROVE  ListDiscipline'
<1>1. Adding' = Adding
  BY DEF Adding
<1> QED
  BY <1>1, AddingIsFinite, KernelAssumption DEF ListDiscipline, CountIsLength, Overshoot

LEMMA ClearingTypes ==
    ASSUME TypeOK, ClearEvents
    PROVE  list' \in Seq(Events) /\ eventCount' = 0 /\ Len(list') = 0 /\ lost' \subseteq Events
BY DEF TypeOK, ClearEvents, ToSet

LEMMA EntryIsEvent ==
    ASSUME TypeOK, NEW s \in Sources, entry[s] # NoEvent
    PROVE  entry[s] \in Events
BY DEF TypeOK
-----------------------------------------------------------------------------
LEMMA InitIInv == Init => IInv
<1> SUFFICES ASSUME Init PROVE IInv
  OBVIOUS
<1>1. TypeOK
  BY DEF Init, TypeOK
<1>2. Adding = {}
  BY DEF Init, Adding
<1>3. ListDiscipline
  BY <1>2, FS_EmptySet, AddingIsFinite, KernelAssumption
     DEF Init, ListDiscipline, CountIsLength, Overshoot
<1> QED
  BY <1>1, <1>3 DEF IInv

LEMMA DriverKeepsIInv ==
    ASSUME IInv, DriverEntry \/ StopDriver \/ DriverUnload
    PROVE  IInv'
<1> USE DEF IInv
<1>1. CASE DriverEntry
  <2>1. TypeOK'
    BY <1>1 DEF DriverEntry, TypeOK, callbacks, pollers
  <2>2. ListDiscipline'
    BY <1>1, ListShrinks DEF DriverEntry, callbacks, TypeOK
  <2> QED
    BY <2>1, <2>2
<1>2. CASE StopDriver
  <2>1. TypeOK'
    BY <1>2 DEF StopDriver, TypeOK, callbacks, pollers
  <2>2. ListDiscipline'
    BY <1>2, ListShrinks DEF StopDriver, callbacks, TypeOK, ListDiscipline, CountIsLength
  <2> QED
    BY <2>1, <2>2
<1>3. CASE DriverUnload
  <2>1. TypeOK'
    BY <1>3, ClearingTypes DEF DriverUnload, TypeOK, callbacks, pollers
  <2>2. ListDiscipline'
    BY <1>3, ClearingTypes, ListShrinks DEF DriverUnload, callbacks, TypeOK
  <2> QED
    BY <2>1, <2>2
<1> QED
  BY <1>1, <1>2, <1>3

\* The check and the allocation: the list had room for one entry, and no more
\* callbacks hold an entry than there are.
LEMMA AllocateKeepsIInv ==
    ASSUME IInv, NEW s \in Sources, NEW e \in Events, Allocate(s, e)
    PROVE  IInv'
<1>1. TypeOK'
  BY DEF IInv, Allocate, TypeOK, pollers
<1>2. Len(list') <= MaxEvents - 1 /\ Len(list') \in Nat /\ eventCount' = Len(list')
  BY KernelAssumption DEF IInv, TypeOK, ListDiscipline, CountIsLength, Allocate, HasRoom
<1>3. IsFiniteSet(Adding') /\ Cardinality(Adding') \in Nat
      /\ Cardinality(Adding') <= Cardinality(Sources) /\ Cardinality(Sources) \in Nat
  <2>1. Adding' \subseteq Sources
    BY DEF Adding
  <2> QED
    BY <2>1, KernelAssumption, FS_Subset, FS_CardinalityType
<1>4. ListDiscipline'
  BY <1>2, <1>3, KernelAssumption DEF ListDiscipline, CountIsLength, Overshoot
<1> QED
  BY <1>1, <1>4 DEF IInv

LEMMA RefuseKeepsIInv ==
    ASSUME IInv, NEW s \in Sources, NEW e \in Events, Refuse(s, e)
    PROVE  IInv'
<1>1. TypeOK'
  BY DEF IInv, Refuse, TypeOK, pollers
<1>2. ListDiscipline'
  BY ListShrinks DEF IInv, Refuse, TypeOK, ListDiscipline, CountIsLength
<1> QED
  BY <1>1, <1>2 DEF IInv

\* An insertion moves one entry from a callback's hand to the list.
LEMMA InsertKeepsIInv ==
    ASSUME IInv, NEW s \in Sources, Insert(s)
    PROVE  IInv'
<1>1. entry[s] \in Events
  BY EntryIsEvent DEF IInv, Insert
<1>2. TypeOK'
  BY <1>1 DEF IInv, Insert, TypeOK, pollers
<1>3. Len(list') = Len(list) + 1 /\ Len(list) \in Nat
  BY <1>1 DEF IInv, Insert, TypeOK
<1>4. s \in Adding /\ Adding' = Adding \ {s}
  BY DEF IInv, Insert, TypeOK, Adding
<1>5. Cardinality(Adding') = Cardinality(Adding) - 1
  BY <1>4, AddingIsFinite, FS_RemoveElement
<1>6. ListDiscipline'
  BY <1>3, <1>5, AddingIsFinite, KernelAssumption
     DEF IInv, Insert, ListDiscipline, CountIsLength, Overshoot
<1> QED
  BY <1>2, <1>6 DEF IInv

LEMMA NewServiceKeepsIInv ==
    ASSUME IInv, NEW p \in Pollers, NewService(p)
    PROVE  IInv'
<1>1. TypeOK'
  BY DEF IInv, NewService, TypeOK, callbacks
<1>2. ListDiscipline'
  BY ListShrinks DEF IInv, NewService, TypeOK, callbacks, ListDiscipline, CountIsLength
<1> QED
  BY <1>1, <1>2 DEF IInv

LEMMA ReadKeepsIInv ==
    ASSUME IInv, NEW p \in Pollers, ReadEvents(p)
    PROVE  IInv'
<1> DEFINE n == TakenBy(BatchSize)
<1>1. n \in Nat /\ n <= Len(list) /\ Len(list) \in Nat
  BY KernelAssumption DEF IInv, TypeOK, TakenBy
<1>2. /\ SubSeq(list, 1, n) \in Seq(Events)
      /\ SubSeq(list, n + 1, Len(list)) \in Seq(Events)
      /\ Len(SubSeq(list, n + 1, Len(list))) = Len(list) - n
  <2>1. list \in Seq(Events)
    BY DEF IInv, TypeOK
  <2> HIDE DEF n
  <2> QED
    BY <1>1, <2>1
<1>3. /\ list' = SubSeq(list, n + 1, Len(list))
      /\ eventCount' = eventCount - n
      /\ batch' = [batch EXCEPT ![p] = SubSeq(list, 1, n)]
  BY DEF ReadEvents
<1>4. eventCount' = Len(list') /\ Len(list') \in Nat /\ Len(list') <= Len(list)
  <2> HIDE DEF n
  <2> QED
    BY <1>1, <1>2, <1>3 DEF IInv, TypeOK, ListDiscipline, CountIsLength
<1>5. TypeOK'
  <2> HIDE DEF n
  <2> QED
    BY <1>2, <1>3, <1>4 DEF IInv, ReadEvents, TypeOK, callbacks
<1>6. ListDiscipline'
  BY <1>1, <1>4, ListShrinks DEF IInv, ReadEvents, callbacks
<1> QED
  BY <1>5, <1>6 DEF IInv

LEMMA BroadcastKeepsIInv ==
    ASSUME IInv, NEW p \in Pollers, Broadcast(p)
    PROVE  IInv'
<1>1. batch[p] \in Seq(Events) /\ batch[p] # <<>> /\ sent[p] \in Seq(Events)
  BY DEF IInv, TypeOK, Broadcast
<1>2. Head(batch[p]) \in Events /\ Tail(batch[p]) \in Seq(Events)
  BY <1>1
<1>3. TypeOK'
  BY <1>1, <1>2 DEF IInv, Broadcast, TypeOK, callbacks
<1>4. ListDiscipline'
  BY ListShrinks DEF IInv, Broadcast, TypeOK, callbacks, ListDiscipline, CountIsLength
<1> QED
  BY <1>3, <1>4 DEF IInv

LEMMA ClearKeepsIInv ==
    ASSUME IInv, NEW p \in Pollers, ClearAfterRead(p)
    PROVE  IInv'
<1>1. CASE ClearEvents
  <2>1. TypeOK'
    BY <1>1, ClearingTypes DEF IInv, ClearAfterRead, TypeOK, callbacks
  <2>2. ListDiscipline'
    BY <1>1, ClearingTypes, ListShrinks DEF IInv, ClearAfterRead, callbacks, TypeOK
  <2> QED
    BY <2>1, <2>2 DEF IInv
<1>2. CASE UNCHANGED <<list, eventCount, lost>>
  <2>1. TypeOK'
    BY <1>2 DEF IInv, ClearAfterRead, TypeOK, callbacks
  <2>2. ListDiscipline'
    BY <1>2, ListShrinks DEF IInv, ClearAfterRead, TypeOK, callbacks, ListDiscipline, CountIsLength
  <2> QED
    BY <2>1, <2>2 DEF IInv
<1> QED
  BY <1>1, <1>2 DEF ClearAfterRead

LEMMA ExitKeepsIInv ==
    ASSUME IInv, ProgramExits
    PROVE  IInv'
<1>1. UNION {ToSet(batch[p]) : p \in Pollers} \subseteq Events
  BY DEF IInv, TypeOK, ToSet
<1>2. TypeOK'
  BY <1>1 DEF IInv, ProgramExits, TypeOK, callbacks
<1>3. ListDiscipline'
  BY ListShrinks DEF IInv, ProgramExits, TypeOK, callbacks, ListDiscipline, CountIsLength
<1> QED
  BY <1>2, <1>3 DEF IInv
-----------------------------------------------------------------------------
(* What the theorems below follow from: the invariant and its induction.     *)
THEOREM Inductive == Spec => []IInv
<1>1. IInv /\ [Next]_vars => IInv'
  <2> SUFFICES ASSUME IInv, [Next]_vars PROVE IInv'
    OBVIOUS
  <2>1. CASE DriverEntry \/ StopDriver \/ DriverUnload
    BY <2>1, DriverKeepsIInv
  <2>2. CASE \E s \in Sources, e \in Events : Allocate(s, e) \/ Refuse(s, e)
    BY <2>2, AllocateKeepsIInv, RefuseKeepsIInv
  <2>3. CASE \E s \in Sources : Insert(s)
    BY <2>3, InsertKeepsIInv
  <2>4. CASE \E p \in Pollers : NewService(p) \/ Poll(p)
    BY <2>4, NewServiceKeepsIInv, ReadKeepsIInv, BroadcastKeepsIInv, ClearKeepsIInv DEF Poll
  <2>5. CASE ProgramExits
    BY <2>5, ExitKeepsIInv
  <2>6. CASE UNCHANGED vars
    BY <2>6 DEF vars, callbacks, pollers, IInv, TypeOK, ListDiscipline, CountIsLength,
       Overshoot, Adding
  <2> QED
    BY <2>1, <2>2, <2>3, <2>4, <2>5, <2>6 DEF Next
<1> QED
  BY InitIInv, <1>1, PTL DEF Spec

\* The driver's list, the callbacks' entries and the pollers' batches keep their types.
THEOREM TypeCorrect == Spec => []TypeOK
BY Inductive, PTL DEF IInv

(* Of AddEventToList, ReadEvents and ClearEvents: the counter they keep is    *)
(* the length of the list, and the list holds at most                         *)
(* MAX_EVENTS + (callbacks at once) - 1 events.                                *)
THEOREM CountedAndBounded == Spec => []ListDiscipline
BY Inductive, PTL DEF IInv
-----------------------------------------------------------------------------
(* Every event in one place.  The places are the callbacks' hands, the list, *)
(* what each poller has got, and what is refused or lost; they hold distinct *)
(* events, share none, and together hold what was raised.                    *)

Held == {entry[s] : s \in Adding}
Listed == ToSet(list)
With(p) == ToSet(Got(p))
Gone == refused \cup lost

\* An unloaded driver has nothing, and neither has a poller that sleeps.
Resting ==
    /\ driver = "stopped" => list = <<>> /\ Adding = {}
    /\ \A p \in Pollers : at[p] = "sleep" => batch[p] = <<>>

EntriesDistinct == \A s, t \in Adding : entry[s] = entry[t] => s = t
QueuesDistinct == IsInjective(list) /\ \A p \in Pollers : IsInjective(Got(p))

PartsDisjoint ==
    /\ refused \cap lost = {} /\ Held \cap Gone = {}
    /\ Listed \cap (Held \cup Gone) = {}
    /\ \A p \in Pollers : With(p) \cap (Held \cup Gone \cup Listed) = {}
    /\ \A p, q \in Pollers : p # q => With(p) \cap With(q) = {}

PartsComplete == raised = Held \cup Gone \cup Listed \cup UNION {With(p) : p \in Pollers}

PlaceInv == Resting /\ EntriesDistinct /\ QueuesDistinct /\ PartsDisjoint /\ PartsComplete

LEMMA GotTypes ==
    ASSUME TypeOK, NEW p \in Pollers
    PROVE  /\ sent[p] \in Seq(Events) /\ batch[p] \in Seq(Events) /\ Got(p) \in Seq(Events)
           /\ With(p) = ToSet(sent[p]) \cup ToSet(batch[p])
<1>1. sent[p] \in Seq(Events) /\ batch[p] \in Seq(Events)
  BY DEF TypeOK
<1> QED
  BY <1>1, ConcatFacts DEF Got, With

\* The steps that move nothing: those of the driver but the unload, of a new service,
\* and a broadcast.
LEMMA StillPlaces ==
    ASSUME PlaceInv, UNCHANGED <<list, entry, raised, refused, lost>>,
           \A p \in Pollers : Got(p)' = Got(p), Resting'
    PROVE  PlaceInv'
<1>1. Held' = Held /\ Listed' = Listed /\ Gone' = Gone /\ Adding' = Adding
      /\ \A p \in Pollers : With(p)' = With(p)
  BY DEF Held, Listed, Gone, With, Adding
<1>2. EntriesDistinct' /\ QueuesDistinct'
  BY <1>1 DEF PlaceInv, EntriesDistinct, QueuesDistinct
<1>3. PartsDisjoint'
  BY <1>1 DEF PlaceInv, PartsDisjoint
<1>4. PartsComplete'
  BY <1>1 DEF PlaceInv, PartsComplete
<1> QED
  BY <1>2, <1>3, <1>4 DEF PlaceInv

\* The list is freed: what was in it is lost.
LEMMA ClearingPlaces ==
    ASSUME TypeOK, PlaceInv, ClearEvents, UNCHANGED <<entry, raised, refused>>,
           \A p \in Pollers : Got(p)' = Got(p), Resting'
    PROVE  PlaceInv'
<1>1. list' = <<>> /\ lost' = lost \cup Listed /\ Listed' = {}
  BY NoElements DEF ClearEvents, Listed
<1>2. Held' = Held /\ Gone' = Gone \cup Listed /\ Adding' = Adding
      /\ \A p \in Pollers : With(p)' = With(p)
  BY <1>1 DEF Held, Gone, With, Adding
<1>3. EntriesDistinct' /\ QueuesDistinct'
  BY <1>1, <1>2, NoElements DEF PlaceInv, EntriesDistinct, QueuesDistinct
<1>4. PartsDisjoint'
  BY <1>1, <1>2 DEF PlaceInv, PartsDisjoint, Gone
<1>5. PartsComplete'
  BY <1>1, <1>2 DEF PlaceInv, PartsComplete
<1> QED
  BY <1>3, <1>4, <1>5 DEF PlaceInv

LEMMA DriverPlaces ==
    ASSUME TypeOK, PlaceInv, DriverEntry \/ StopDriver \/ DriverUnload
    PROVE  PlaceInv'
<1>1. \A p \in Pollers : Got(p)' = Got(p)
  BY DEF DriverEntry, StopDriver, DriverUnload, pollers, Got
<1>2. CASE DriverEntry \/ StopDriver
  <2>1. UNCHANGED <<list, entry, raised, refused, lost, at, batch>> /\ driver' # "stopped"
    BY <1>2 DEF DriverEntry, StopDriver, callbacks, pollers, PlaceInv, Resting
  <2> QED
    BY <1>1, <2>1, StillPlaces DEF PlaceInv, Resting
<1>3. CASE DriverUnload
  <2>1. UNCHANGED <<entry, raised, refused, at, batch>> /\ ClearEvents /\ Adding' = {} /\ list' = <<>>
    BY <1>3 DEF DriverUnload, callbacks, pollers, Adding, ClearEvents
  <2>2. Resting'
    BY <2>1 DEF PlaceInv, Resting
  <2> QED
    BY <1>1, <2>1, <2>2, ClearingPlaces
<1> QED
  BY <1>2, <1>3

LEMMA AllocatePlaces ==
    ASSUME TypeOK, PlaceInv, NEW s \in Sources, NEW e \in Events, Allocate(s, e)
    PROVE  PlaceInv'
<1>1. /\ UNCHANGED <<list, refused, lost, at, batch, sent>> /\ driver' = "loaded"
      /\ raised' = raised \cup {e} /\ e \notin raised /\ e # NoEvent
      /\ entry' = [entry EXCEPT ![s] = e] /\ entry[s] = NoEvent
  BY KernelAssumption DEF Allocate, pollers
<1>2. /\ Adding' = Adding \cup {s} /\ s \notin Adding
      /\ entry'[s] = e /\ \A t \in Adding : entry'[t] = entry[t]
  BY <1>1 DEF Adding, TypeOK
<1>3. Held' = Held \cup {e}
  <2>1. Held' = {entry'[t] : t \in Adding \cup {s}}
    BY <1>2 DEF Held
  <2>2. ASSUME NEW t \in Adding \cup {s} PROVE entry'[t] \in Held \cup {e}
    BY <1>2 DEF Held
  <2>3. \A x : x \in Held \cup {e} => x \in Held'
    BY <1>1, <1>2, <2>1 DEF Held, TypeOK
  <2> QED
    BY <2>1, <2>2, <2>3
<1>4. /\ Listed' = Listed /\ Gone' = Gone
      /\ \A p \in Pollers : Got(p)' = Got(p) /\ With(p)' = With(p)
  BY <1>1 DEF Listed, Gone, With, Got
<1>5. EntriesDistinct' /\ QueuesDistinct'
  <2>1. \A t \in Adding : entry[t] # e
    BY <1>1 DEF PlaceInv, PartsComplete, Held
  <2>2. EntriesDistinct'
    BY <1>1, <1>2, <2>1 DEF PlaceInv, EntriesDistinct, TypeOK
  <2> QED
    BY <1>1, <1>4, <2>2 DEF PlaceInv, QueuesDistinct
<1>6. e \notin Held \cup Gone \cup Listed /\ \A p \in Pollers : e \notin With(p)
  BY <1>1 DEF PlaceInv, PartsComplete
<1>7. PartsDisjoint'
  BY <1>1, <1>3, <1>4, <1>6 DEF PlaceInv, PartsDisjoint
<1>8. PartsComplete'
  BY <1>1, <1>3, <1>4 DEF PlaceInv, PartsComplete
<1>9. Resting'
  BY <1>1 DEF PlaceInv, Resting
<1> QED
  BY <1>5, <1>7, <1>8, <1>9 DEF PlaceInv

LEMMA RefusePlaces ==
    ASSUME TypeOK, PlaceInv, NEW s \in Sources, NEW e \in Events, Refuse(s, e)
    PROVE  PlaceInv'
<1>1. /\ UNCHANGED <<list, entry, lost, at, batch, sent, driver>>
      /\ raised' = raised \cup {e} /\ refused' = refused \cup {e} /\ e \notin raised
  BY DEF Refuse, pollers
<1>2. /\ Held' = Held /\ Listed' = Listed /\ Adding' = Adding /\ Gone' = Gone \cup {e}
      /\ \A p \in Pollers : Got(p)' = Got(p) /\ With(p)' = With(p)
  BY <1>1 DEF Held, Listed, Gone, With, Got, Adding
<1>3. e \notin Held \cup Gone \cup Listed /\ \A p \in Pollers : e \notin With(p)
  BY <1>1 DEF PlaceInv, PartsComplete
<1>4. EntriesDistinct' /\ QueuesDistinct' /\ Resting'
  BY <1>1, <1>2 DEF PlaceInv, EntriesDistinct, QueuesDistinct, Resting
<1>5. PartsDisjoint'
  BY <1>1, <1>2, <1>3 DEF PlaceInv, PartsDisjoint, Gone
<1>6. PartsComplete'
  BY <1>1, <1>2 DEF PlaceInv, PartsComplete
<1> QED
  BY <1>4, <1>5, <1>6 DEF PlaceInv

LEMMA InsertPlaces ==
    ASSUME TypeOK, PlaceInv, NEW s \in Sources, Insert(s)
    PROVE  PlaceInv'
<1> DEFINE e == entry[s]
<1>1. /\ UNCHANGED <<refused, lost, raised, at, batch, sent, driver>>
      /\ list' = Append(list, e) /\ entry' = [entry EXCEPT ![s] = NoEvent] /\ s \in Adding
      /\ e \in Events /\ list \in Seq(Events)
  BY EntryIsEvent DEF Insert, pollers, Adding, TypeOK
<1>2. Adding' = Adding \ {s} /\ \A t \in Adding \ {s} : entry'[t] = entry[t]
  BY <1>1 DEF Adding, TypeOK
<1>3. e \in Held /\ Held' = Held \ {e}
  BY <1>1, <1>2 DEF Held, PlaceInv, EntriesDistinct
<1>4. /\ Listed' = Listed \cup {e} /\ Gone' = Gone
      /\ \A p \in Pollers : Got(p)' = Got(p) /\ With(p)' = With(p)
  BY <1>1, AppendFacts DEF Listed, Gone, With, Got
<1>5. e \notin Gone \cup Listed /\ \A p \in Pollers : e \notin With(p)
  BY <1>3 DEF PlaceInv, PartsDisjoint
<1>6. EntriesDistinct'
  BY <1>2 DEF PlaceInv, EntriesDistinct
<1>7. QueuesDistinct'
  BY <1>1, <1>4, <1>5, AppendFacts DEF PlaceInv, QueuesDistinct, Listed
<1>8. PartsDisjoint'
  BY <1>1, <1>3, <1>4, <1>5 DEF PlaceInv, PartsDisjoint
<1>9. PartsComplete'
  BY <1>1, <1>3, <1>4 DEF PlaceInv, PartsComplete
<1>10. Resting'
  BY <1>1 DEF PlaceInv, Resting
<1> QED
  BY <1>6, <1>7, <1>8, <1>9, <1>10 DEF PlaceInv

\* What a read takes: the front of the list goes behind what the poller has.
LEMMA ReadTakes ==
    ASSUME TypeOK, Resting, NEW p \in Pollers, ReadEvents(p)
    PROVE  \E taken \in Seq(Events) :
              /\ list' \in Seq(Events) /\ list = taken \o list'
              /\ Got(p)' = Got(p) \o taken
              /\ \A q \in Pollers \ {p} : Got(q)' = Got(q)
              /\ UNCHANGED <<driver, entry, raised, refused, lost, arrivals>>
              /\ at' = [at EXCEPT ![p] = "emit"] /\ \A q \in Pollers \ {p} : batch'[q] = batch[q]
<1> DEFINE n == TakenBy(BatchSize)
           taken == SubSeq(list, 1, n)
<1>1. n \in 0..Len(list) /\ list \in Seq(Events)
  BY KernelAssumption DEF TypeOK, TakenBy
<1>2. /\ list' = SubSeq(list, n + 1, Len(list)) /\ batch' = [batch EXCEPT ![p] = taken]
      /\ at' = [at EXCEPT ![p] = "emit"] /\ batch[p] = <<>>
      /\ UNCHANGED <<driver, entry, raised, refused, lost, sent, arrivals>>
  BY DEF ReadEvents, callbacks, Resting
<1>3. taken \in Seq(Events) /\ list' \in Seq(Events) /\ list = taken \o list'
  <2> HIDE DEF n
  <2> QED
    BY <1>1, <1>2, SplitFacts
<1> HIDE DEF taken, n
<1>4. Got(p)' = Got(p) \o taken
  <2>1. sent[p] \in Seq(Events) /\ Got(p) = sent[p]
    BY <1>2, GotTypes, ConcatEmptySeq DEF Got
  <2>2. Got(p)' = sent[p] \o taken
    BY <1>2 DEF Got, TypeOK
  <2> QED
    BY <2>1, <2>2
<1>5. \A q \in Pollers \ {p} : Got(q)' = Got(q) /\ batch'[q] = batch[q]
  BY <1>2 DEF Got, TypeOK
<1> QED
  BY <1>2, <1>3, <1>4, <1>5

LEMMA ReadPlaces ==
    ASSUME TypeOK, PlaceInv, NEW p \in Pollers, ReadEvents(p)
    PROVE  PlaceInv'
<1>1. PICK taken \in Seq(Events) :
              /\ list' \in Seq(Events) /\ list = taken \o list'
              /\ Got(p)' = Got(p) \o taken
              /\ \A q \in Pollers \ {p} : Got(q)' = Got(q)
              /\ UNCHANGED <<driver, entry, raised, refused, lost, arrivals>>
              /\ at' = [at EXCEPT ![p] = "emit"] /\ \A q \in Pollers \ {p} : batch'[q] = batch[q]
  BY ReadTakes DEF PlaceInv
<1> DEFINE T == ToSet(taken)
<1>2. /\ Listed = T \cup Listed' /\ T \cap Listed' = {}
      /\ IsInjective(taken) /\ IsInjective(list')
  <2>1. IsInjective(taken \o list')
    BY <1>1 DEF PlaceInv, QueuesDistinct
  <2> QED
    BY <1>1, <2>1, ConcatFacts DEF Listed
<1>3. /\ Held' = Held /\ Adding' = Adding /\ Gone' = Gone
      /\ \A q \in Pollers \ {p} : With(q)' = With(q)
  BY <1>1 DEF Held, Adding, Gone, With
<1>4. With(p)' = With(p) \cup T /\ IsInjective(Got(p)')
  <2>1. With(p) \cap T = {} /\ IsInjective(Got(p)) /\ Got(p) \in Seq(Events)
    BY <1>2, GotTypes DEF PlaceInv, PartsDisjoint, QueuesDistinct
  <2> QED
    BY <1>1, <1>2, <2>1, ConcatFacts DEF With
<1> HIDE DEF T
<1>5. EntriesDistinct'
  BY <1>1, <1>3 DEF PlaceInv, EntriesDistinct
<1>6. QueuesDistinct'
  BY <1>1, <1>2, <1>4 DEF PlaceInv, QueuesDistinct
<1>7. PartsDisjoint'
  <2>1. T \subseteq Listed /\ Listed' \subseteq Listed
    BY <1>2
  <2>2. refused' \cap lost' = {} /\ Held' \cap Gone' = {} /\ Listed' \cap (Held' \cup Gone') = {}
    BY <1>1, <1>3, <2>1 DEF PlaceInv, PartsDisjoint
  <2>3. With(p)' \cap (Held' \cup Gone' \cup Listed') = {}
    BY <1>2, <1>3, <1>4, <2>1 DEF PlaceInv, PartsDisjoint
  <2>4. \A q \in Pollers \ {p} : With(q)' \cap (Held' \cup Gone' \cup Listed') = {}
    BY <1>3, <2>1 DEF PlaceInv, PartsDisjoint
  <2>5. \A q \in Pollers \ {p} : With(q)' \cap With(p)' = {}
    BY <1>3, <1>4, <2>1 DEF PlaceInv, PartsDisjoint
  <2>6. \A q, r \in Pollers \ {p} : q # r => With(q)' \cap With(r)' = {}
    BY <1>3 DEF PlaceInv, PartsDisjoint
  <2> QED
    BY <2>2, <2>3, <2>4, <2>5, <2>6 DEF PartsDisjoint
<1>8. PartsComplete'
  <2>1. \A x : (\E q \in Pollers : x \in With(q)') <=> x \in T \/ \E q \in Pollers : x \in With(q)
    BY <1>3, <1>4
  <2>2. raised' = Held' \cup Gone' \cup Listed \cup UNION {With(q) : q \in Pollers}
    BY <1>1, <1>3 DEF PlaceInv, PartsComplete
  <2>3. T \cup UNION {With(q) : q \in Pollers} = UNION {With(q)' : q \in Pollers}
    BY <2>1
  <2> QED
    BY <1>2, <2>2, <2>3 DEF PartsComplete
<1>9. Resting'
  <2>1. driver = "stopped" => list' = <<>>
    BY <1>1 DEF PlaceInv, Resting
  <2> QED
    BY <1>1, <1>3, <2>1 DEF PlaceInv, Resting, TypeOK
<1> QED
  BY <1>5, <1>6, <1>7, <1>8, <1>9 DEF PlaceInv

\* A broadcast moves the front of the batch behind what was sent.
LEMMA BroadcastMoves ==
    ASSUME TypeOK, NEW p \in Pollers, Broadcast(p)
    PROVE  \A q \in Pollers : Got(q)' = Got(q)
<1>1. /\ sent' = [sent EXCEPT ![p] = Append(@, Head(batch[p]))]
      /\ batch' = [batch EXCEPT ![p] = Tail(@)] /\ batch[p] # <<>>
  BY DEF Broadcast
<1>2. Got(p)' = Append(sent[p], Head(batch[p])) \o Tail(batch[p])
  BY <1>1 DEF Got, TypeOK
<1>3. Got(p)' = Got(p)
  BY <1>1, <1>2, GotTypes, HandOver DEF Got
<1> QED
  BY <1>1, <1>3 DEF Got, TypeOK

LEMMA PollerPlaces ==
    ASSUME TypeOK, PlaceInv, NEW p \in Pollers,
           NewService(p) \/ Broadcast(p) \/ ClearAfterRead(p)
    PROVE  PlaceInv'
<1>1. CASE NewService(p)
  BY <1>1, StillPlaces DEF NewService, callbacks, PlaceInv, Resting, Got, Adding
<1>2. CASE Broadcast(p)
  <2>1. UNCHANGED <<list, entry, raised, refused, lost, driver, at>> /\ Adding' = Adding
        /\ at[p] = "emit" /\ \A q \in Pollers \ {p} : batch'[q] = batch[q]
    BY <1>2 DEF Broadcast, callbacks, Adding, TypeOK
  <2>2. Resting'
    BY <2>1 DEF PlaceInv, Resting
  <2> QED
    BY <1>2, <2>1, <2>2, BroadcastMoves, StillPlaces
<1>3. CASE ClearAfterRead(p)
  <2>1. /\ UNCHANGED <<driver, entry, raised, refused, batch, sent>> /\ batch[p] = <<>>
        /\ at' = [at EXCEPT ![p] = "sleep"] /\ Adding' = Adding
        /\ \A q \in Pollers : Got(q)' = Got(q)
    BY <1>3 DEF ClearAfterRead, callbacks, Adding, Got
  <2>2. list' = <<>> \/ list' = list
    BY <1>3 DEF ClearAfterRead, ClearEvents
  <2>3. Resting'
    BY <2>1, <2>2 DEF PlaceInv, Resting, TypeOK
  <2>4. CASE ClearEvents
    BY <2>1, <2>3, <2>4, ClearingPlaces
  <2>5. CASE UNCHANGED <<list, eventCount, lost>>
    BY <2>1, <2>3, <2>5, StillPlaces
  <2> QED
    BY <1>3, <2>4, <2>5 DEF ClearAfterRead
<1> QED
  BY <1>1, <1>2, <1>3

\* What a poller had read and not yet broadcast is lost with the program.
LEMMA ExitPlaces ==
    ASSUME TypeOK, PlaceInv, ProgramExits
    PROVE  PlaceInv'
<1> DEFINE B(p) == ToSet(batch[p])
           dead == UNION {B(p) : p \in Pollers}
<1>1. /\ UNCHANGED <<driver, list, entry, raised, refused, sent>>
      /\ at' = [p \in Pollers |-> "sleep"] /\ batch' = [p \in Pollers |-> <<>>]
      /\ lost' = lost \cup dead
  BY DEF ProgramExits, callbacks
<1>2. /\ Held' = Held /\ Adding' = Adding /\ Listed' = Listed /\ Gone' = Gone \cup dead
  BY <1>1 DEF Held, Adding, Listed, Gone
<1>3. ASSUME NEW p \in Pollers
      PROVE  /\ Got(p)' = sent[p] /\ IsInjective(sent[p]) /\ With(p)' \cap B(p) = {}
             /\ With(p) = With(p)' \cup B(p)
  <2>1. sent[p] \in Seq(Events) /\ batch[p] \in Seq(Events) /\ IsInjective(sent[p] \o batch[p])
    BY GotTypes DEF PlaceInv, QueuesDistinct, Got
  <2>2. Got(p)' = sent[p]
    BY <1>1, <2>1, ConcatEmptySeq DEF Got
  <2> QED
    BY <2>1, <2>2, ConcatFacts DEF With, Got
<1> HIDE DEF B
<1>4. EntriesDistinct' /\ QueuesDistinct' /\ Resting'
  BY <1>1, <1>2, <1>3 DEF PlaceInv, EntriesDistinct, QueuesDistinct, Resting
<1>5. \A p \in Pollers : With(p)' \cap dead = {}
  BY <1>3 DEF PlaceInv, PartsDisjoint
<1>6. dead \cap (Held \cup Gone \cup Listed) = {}
  BY <1>3 DEF PlaceInv, PartsDisjoint
<1>7. PartsDisjoint'
  <2>1. \A p \in Pollers : With(p)' \subseteq With(p)
    BY <1>3
  <2> HIDE DEF dead
  <2>2. refused' \cap lost' = {} /\ Held' \cap Gone' = {} /\ Listed' \cap (Held' \cup Gone') = {}
    BY <1>1, <1>2, <1>6 DEF PlaceInv, PartsDisjoint, Gone
  <2>3. \A p \in Pollers : With(p)' \cap (Held' \cup Gone' \cup Listed') = {}
    BY <1>2, <1>5, <2>1 DEF PlaceInv, PartsDisjoint
  <2>4. \A p, q \in Pollers : p # q => With(p)' \cap With(q)' = {}
    BY <2>1 DEF PlaceInv, PartsDisjoint
  <2> QED
    BY <2>2, <2>3, <2>4 DEF PartsDisjoint
<1>8. PartsComplete'
  <2>1. \A x : (\E p \in Pollers : x \in With(p)) <=> x \in dead \/ \E p \in Pollers : x \in With(p)'
    BY <1>3, Zenon
  <2> QED
    BY <1>1, <1>2, <2>1 DEF PlaceInv, PartsComplete
<1> QED
  BY <1>4, <1>7, <1>8 DEF PlaceInv

LEMMA InitPlaces == Init => PlaceInv
<1> SUFFICES ASSUME Init PROVE PlaceInv
  OBVIOUS
<1>1. /\ Adding = {} /\ Held = {} /\ Listed = {} /\ Gone = {} /\ refused = {} /\ lost = {}
      /\ list = <<>> /\ IsInjective(list)
  BY NoElements DEF Init, Adding, Held, Listed, Gone
<1>2. \A p \in Pollers : Got(p) = <<>> /\ With(p) = {} /\ IsInjective(Got(p)) /\ batch[p] = <<>>
  <2> SUFFICES ASSUME NEW p \in Pollers
               PROVE  Got(p) = <<>> /\ With(p) = {} /\ IsInjective(Got(p)) /\ batch[p] = <<>>
    OBVIOUS
  <2>1. Got(p) = <<>> /\ batch[p] = <<>>
    BY DEF Init, Got
  <2> QED
    BY <2>1, NoElements DEF With
<1>3. raised = {}
  BY DEF Init
<1> QED
  BY <1>1, <1>2, <1>3 DEF PlaceInv, Resting, EntriesDistinct, QueuesDistinct, PartsDisjoint, PartsComplete

LEMMA NextPlaces == TypeOK /\ PlaceInv /\ [Next]_vars => PlaceInv'
<1> SUFFICES ASSUME TypeOK, PlaceInv, [Next]_vars PROVE PlaceInv'
  OBVIOUS
<1>1. CASE DriverEntry \/ StopDriver \/ DriverUnload
  BY <1>1, DriverPlaces
<1>2. CASE \E s \in Sources, e \in Events : Allocate(s, e) \/ Refuse(s, e)
  BY <1>2, AllocatePlaces, RefusePlaces
<1>3. CASE \E s \in Sources : Insert(s)
  BY <1>3, InsertPlaces
<1>4. CASE \E p \in Pollers : NewService(p) \/ Poll(p)
  BY <1>4, PollerPlaces, ReadPlaces DEF Poll
<1>5. CASE ProgramExits
  BY <1>5, ExitPlaces
<1>6. CASE UNCHANGED vars
  BY <1>6, StillPlaces DEF vars, callbacks, pollers, PlaceInv, Resting, Got, Adding
<1> QED
  BY <1>1, <1>2, <1>3, <1>4, <1>5, <1>6 DEF Next

\* Each part of Holders(e) is empty, or one place if e is in that part of the state.
LEMMA PlacesOf ==
    ASSUME TypeOK, PlaceInv, NEW e \in Events
    PROVE  /\ LET C == {<<"callback", s, 0>> : s \in {s \in Sources : entry[s] = e}}
              IN  IF e \in Held THEN \E x : C = {x} ELSE C = {}
           /\ LET L == {<<"list", "driver", i>> : i \in Positions(list, e)}
              IN  IF e \in Listed THEN \E x : L = {x} ELSE L = {}
           /\ \A p \in Pollers :
                 LET P == {<<"poller", p, i>> : i \in Positions(Got(p), e)}
                 IN  IF e \in With(p) THEN \E x : P = {x} ELSE P = {}
<1>1. LET C == {<<"callback", s, 0>> : s \in {s \in Sources : entry[s] = e}}
      IN  IF e \in Held THEN \E x : C = {x} ELSE C = {}
  <2>1. {s \in Sources : entry[s] = e} = {s \in Adding : entry[s] = e}
    BY KernelAssumption DEF Adding
  <2>2. CASE e \in Held
    <3>1. PICK s \in Adding : entry[s] = e
      BY <2>2 DEF Held
    <3>2. {t \in Adding : entry[t] = e} = {s}
      BY <3>1 DEF PlaceInv, EntriesDistinct
    <3>3. {<<"callback", t, 0>> : t \in {t \in Sources : entry[t] = e}} = {<<"callback", s, 0>>}
      BY <2>1, <3>2
    <3> QED
      BY <2>2, <3>3
  <2>3. CASE e \notin Held
    <3>1. {t \in Adding : entry[t] = e} = {}
      BY <2>3 DEF Held
    <3> QED
      BY <2>1, <2>3, <3>1
  <2> QED
    BY <2>2, <2>3
<1>2. LET L == {<<"list", "driver", i>> : i \in Positions(list, e)}
      IN  IF e \in Listed THEN \E x : L = {x} ELSE L = {}
  <2>1. list \in Seq(Events) /\ IsInjective(list)
    BY DEF TypeOK, PlaceInv, QueuesDistinct
  <2>2. CASE e \in Listed
    <3>1. PICK i \in DOMAIN list : Positions(list, e) = {i}
      BY <2>1, <2>2, OnePosition DEF Positions, Listed
    <3>2. {<<"list", "driver", j>> : j \in Positions(list, e)} = {<<"list", "driver", i>>}
      BY <3>1
    <3> QED
      BY <2>2, <3>2
  <2>3. CASE e \notin Listed
    <3>1. Positions(list, e) = {}
      BY <2>1, <2>3, OnePosition DEF Positions, Listed
    <3> QED
      BY <2>3, <3>1
  <2> QED
    BY <2>2, <2>3
<1>3. ASSUME NEW p \in Pollers
      PROVE  LET P == {<<"poller", p, i>> : i \in Positions(Got(p), e)}
             IN  IF e \in With(p) THEN \E x : P = {x} ELSE P = {}
  <2>1. Got(p) \in Seq(Events) /\ IsInjective(Got(p))
    BY GotTypes DEF PlaceInv, QueuesDistinct
  <2>2. CASE e \in With(p)
    <3>1. PICK i \in DOMAIN Got(p) : Positions(Got(p), e) = {i}
      BY <2>1, <2>2, OnePosition DEF Positions, With
    <3>2. {<<"poller", p, j>> : j \in Positions(Got(p), e)} = {<<"poller", p, i>>}
      BY <3>1
    <3> QED
      BY <2>2, <3>2
  <2>3. CASE e \notin With(p)
    <3>1. Positions(Got(p), e) = {}
      BY <2>1, <2>3, OnePosition DEF Positions, With
    <3> QED
      BY <2>3, <3>1
  <2> QED
    BY <2>2, <2>3
<1> QED
  BY <1>1, <1>2, <1>3

LEMMA PlacesGiveOneHolder == TypeOK /\ PlaceInv => OneHolder
<1> SUFFICES ASSUME TypeOK, PlaceInv, NEW e \in Events
             PROVE  Cardinality(Holders(e)) = IF e \in raised THEN 1 ELSE 0
  BY DEF OneHolder
<1> DEFINE C == {<<"callback", s, 0>> : s \in {s \in Sources : entry[s] = e}}
           L == {<<"list", "driver", i>> : i \in Positions(list, e)}
           P(p) == {<<"poller", p, i>> : i \in Positions(Got(p), e)}
           U == UNION {P(p) : p \in Pollers}
           R == IF e \in refused THEN {<<"refused", "driver", 0>>} ELSE {}
           X == IF e \in lost THEN {<<"lost", "driver", 0>>} ELSE {}
<1>1. Holders(e) = C \cup L \cup U \cup R \cup X
  BY DEF Holders
<1>2. /\ IF e \in Held THEN \E x : C = {x} ELSE C = {}
      /\ IF e \in Listed THEN \E x : L = {x} ELSE L = {}
      /\ \A p \in Pollers : IF e \in With(p) THEN \E x : P(p) = {x} ELSE P(p) = {}
  BY PlacesOf
<1>3. /\ IF e \in refused THEN \E x : R = {x} ELSE R = {}
      /\ IF e \in lost THEN \E x : X = {x} ELSE X = {}
  OBVIOUS
<1> HIDE DEF C, L, P, R, X
<1>4. (\A p \in Pollers : e \notin With(p)) => U = {}
  BY <1>2
<1>5. /\ e \in refused => e \notin Held /\ e \notin Listed /\ e \notin lost
                          /\ \A p \in Pollers : e \notin With(p)
      /\ e \in lost => e \notin Held /\ e \notin Listed /\ e \notin refused
                       /\ \A p \in Pollers : e \notin With(p)
      /\ e \in Held => e \notin Listed /\ \A p \in Pollers : e \notin With(p)
      /\ e \in Listed => \A p \in Pollers : e \notin With(p)
  BY DEF PlaceInv, PartsDisjoint, Gone
<1>6. CASE \E p \in Pollers : e \in With(p)
  <2>1. PICK p \in Pollers : e \in With(p)
    BY <1>6
  <2>2. \A q \in Pollers : q # p => P(q) = {}
    BY <1>2, <2>1 DEF PlaceInv, PartsDisjoint
  <2>3. U = P(p)
    BY <2>2
  <2>4. C = {} /\ L = {} /\ R = {} /\ X = {}
    BY <1>2, <1>3, <1>5, <2>1
  <2>5. \E x : Holders(e) = {x}
    BY <1>1, <1>2, <2>1, <2>3, <2>4
  <2>6. e \in raised
    BY <2>1 DEF PlaceInv, PartsComplete
  <2> QED
    BY <2>5, <2>6, FS_Singleton
<1>7. CASE ~ \E p \in Pollers : e \in With(p)
  <2>1. U = {}
    BY <1>4, <1>7
  <2> HIDE DEF U
  <2>2. CASE e \in Held \/ e \in Listed \/ e \in refused \/ e \in lost
    <3>1. \E x : Holders(e) = {x}
      BY <1>1, <1>2, <1>3, <1>5, <2>1, <2>2
    <3>2. e \in raised
      BY <2>2 DEF PlaceInv, PartsComplete, Gone
    <3> QED
      BY <3>1, <3>2, FS_Singleton
  <2>3. CASE ~(e \in Held \/ e \in Listed \/ e \in refused \/ e \in lost)
    <3>1. Holders(e) = {}
      BY <1>1, <1>2, <1>3, <2>1, <2>3
    <3>2. e \notin raised
      BY <1>7, <2>3 DEF PlaceInv, PartsComplete, Gone
    <3> QED
      BY <3>1, <3>2, FS_EmptySet
  <2> QED
    BY <2>2, <2>3
<1> QED
  BY <1>6, <1>7

(* Of the three critical sections of poll_and_emit, run by any number of      *)
(* pollers beside AddEventToList, DriverUnload and the exit of the program:   *)
(* every event a callback reports is at one place and only there, so it is    *)
(* not broadcast twice, not broadcast and freed, and not forgotten.           *)
THEOREM EachEventOnce == Spec => []OneHolder
<1>1. Init => TypeOK /\ PlaceInv
  BY InitIInv, InitPlaces DEF IInv
<1>2. PlaceInv /\ TypeOK /\ [Next]_vars => PlaceInv'
  BY NextPlaces
<1>3. Spec => []PlaceInv
  BY <1>1, <1>2, TypeCorrect, PTL DEF Spec
<1> QED
  BY <1>3, TypeCorrect, PlacesGiveOneHolder, PTL
-----------------------------------------------------------------------------
(* The order of broadcasting.  All of arrivals that a poller has precedes    *)
(* what is still in the list, and both follow arrivals.                      *)

OrderInv ==
    /\ Listed \subseteq ToSet(arrivals) /\ Follows(list, arrivals)
    /\ \A p \in Pollers :
          /\ With(p) \subseteq ToSet(arrivals) /\ Follows(Got(p), arrivals)
          /\ \A d \in With(p), e \in Listed : Before(arrivals, d, e)

\* The steps that add nothing to the list and take nothing from it but all.
LEMMA StillOrder ==
    ASSUME OrderInv, UNCHANGED arrivals, \A p \in Pollers : Got(p)' = Got(p),
           list' = list \/ list' = <<>>
    PROVE  OrderInv'
<1>1. /\ \A p \in Pollers : With(p)' = With(p)
      /\ Listed' \subseteq Listed /\ Follows(list', arrivals)
  BY NoElements, FollowsShort DEF OrderInv, With, Listed
<1> QED
  BY <1>1 DEF OrderInv

LEMMA InsertOrder ==
    ASSUME TypeOK, OrderInv, NEW s \in Sources, Insert(s)
    PROVE  OrderInv'
<1> DEFINE e == entry[s]
<1>1. /\ e \in Events /\ list \in Seq(Events) /\ arrivals \in Seq(Events)
      /\ list' = Append(list, e) /\ arrivals' = Append(arrivals, e)
      /\ \A p \in Pollers : Got(p)' = Got(p) /\ With(p)' = With(p)
  BY EntryIsEvent DEF Insert, pollers, TypeOK, Got, With
<1> HIDE DEF e
<1>2. ToSet(arrivals') = ToSet(arrivals) \cup {e} /\ Listed' = Listed \cup {e}
  BY <1>1, AppendFacts DEF Listed
<1>3. /\ \A c, d : Before(arrivals, c, d) => Before(arrivals', c, d)
      /\ \A d \in ToSet(arrivals) : Before(arrivals', d, e)
      /\ \A q : Follows(q, arrivals) => Follows(q, arrivals')
  BY <1>1, BeforeGrows
<1>4. Follows(list', arrivals')
  <2>1. list' = list \o <<e>> /\ <<e>> \in Seq(Events) /\ ToSet(<<e>>) = {e}
    BY <1>1, AppendIsConcat DEF ToSet
  <2>2. \A d \in ToSet(list) : Before(arrivals', d, e)
    BY <1>3 DEF OrderInv, Listed
  <2>3. Follows(list, arrivals') /\ Follows(<<e>>, arrivals')
    BY <1>3, FollowsShort DEF OrderInv
  <2>4. \A d \in ToSet(list), c \in ToSet(<<e>>) : Before(arrivals', d, c)
    BY <2>1, <2>2
  <2>5. Follows(list \o <<e>>, arrivals')
    BY <1>1, <2>1, <2>3, <2>4, FollowsJoined
  <2> QED
    BY <2>1, <2>5
<1>5. ASSUME NEW p \in Pollers
      PROVE  /\ With(p)' \subseteq ToSet(arrivals') /\ Follows(Got(p)', arrivals')
             /\ \A c \in With(p)', d \in Listed' : Before(arrivals', c, d)
  <2>1. With(p) \subseteq ToSet(arrivals) /\ Follows(Got(p), arrivals)
        /\ \A c \in With(p), d \in Listed : Before(arrivals, c, d)
    BY DEF OrderInv
  <2>2. Got(p)' = Got(p) /\ With(p)' = With(p)
    BY <1>1
  <2> QED
    BY <1>2, <1>3, <2>1, <2>2
<1>6. Listed' \subseteq ToSet(arrivals')
  BY <1>2 DEF OrderInv
<1> QED
  BY <1>4, <1>5, <1>6 DEF OrderInv

LEMMA ReadOrder ==
    ASSUME TypeOK, Resting, OrderInv, NEW p \in Pollers, ReadEvents(p)
    PROVE  OrderInv'
<1>1. PICK taken \in Seq(Events) :
              /\ list' \in Seq(Events) /\ list = taken \o list'
              /\ Got(p)' = Got(p) \o taken
              /\ \A q \in Pollers \ {p} : Got(q)' = Got(q)
              /\ UNCHANGED <<driver, entry, raised, refused, lost, arrivals>>
              /\ at' = [at EXCEPT ![p] = "emit"] /\ \A q \in Pollers \ {p} : batch'[q] = batch[q]
  BY ReadTakes
<1>2. /\ Listed = ToSet(taken) \cup Listed' /\ Follows(taken, arrivals) /\ Follows(list', arrivals)
      /\ \A d \in ToSet(taken), e \in Listed' : Before(arrivals, d, e)
  <2>1. Follows(taken \o list', arrivals) /\ Listed = ToSet(taken \o list')
    BY <1>1 DEF OrderInv, Listed
  <2> QED
    BY <1>1, <2>1, FollowsJoined, ConcatFacts DEF Listed
<1>3. /\ With(p)' = With(p) \cup ToSet(taken) /\ Follows(Got(p)', arrivals)
  <2>1. /\ Got(p) \in Seq(Events) /\ Follows(Got(p), arrivals)
        /\ \A d \in ToSet(Got(p)), e \in ToSet(taken) : Before(arrivals, d, e)
    BY <1>2, GotTypes DEF OrderInv, With
  <2> QED
    BY <1>1, <1>2, <2>1, FollowsJoined, ConcatFacts DEF With
<1>4. \A q \in Pollers \ {p} : With(q)' = With(q)
  BY <1>1 DEF With
<1> QED
  BY <1>1, <1>2, <1>3, <1>4 DEF OrderInv

LEMMA ExitOrder ==
    ASSUME TypeOK, OrderInv, ProgramExits
    PROVE  OrderInv'
<1>1. UNCHANGED <<list, arrivals, sent>> /\ batch' = [p \in Pollers |-> <<>>] /\ Listed' = Listed
  BY DEF ProgramExits, Listed
<1>2. ASSUME NEW p \in Pollers
      PROVE  With(p)' \subseteq With(p) /\ Follows(Got(p)', arrivals)
  <2>1. sent[p] \in Seq(Events) /\ batch[p] \in Seq(Events) /\ Follows(sent[p] \o batch[p], arrivals)
    BY GotTypes DEF OrderInv, Got
  <2>2. Got(p)' = sent[p]
    BY <1>1, <2>1, ConcatEmptySeq DEF Got
  <2> QED
    BY <2>1, <2>2, GotTypes, FollowsJoined DEF With
<1> QED
  BY <1>1, <1>2 DEF OrderInv

LEMMA InitOrder == Init => OrderInv
<1> SUFFICES ASSUME Init PROVE OrderInv
  OBVIOUS
<1>1. list = <<>> /\ Listed = {} /\ Follows(list, arrivals)
  BY NoElements, FollowsShort DEF Init, Listed
<1>2. ASSUME NEW p \in Pollers PROVE With(p) = {} /\ Follows(Got(p), arrivals)
  <2>1. Got(p) = <<>>
    BY DEF Init, Got
  <2> QED
    BY <2>1, NoElements, FollowsShort DEF With
<1> QED
  BY <1>1, <1>2 DEF OrderInv

LEMMA NextOrder == TypeOK /\ Resting /\ OrderInv /\ [Next]_vars => OrderInv'
<1> SUFFICES ASSUME TypeOK, Resting, OrderInv, [Next]_vars PROVE OrderInv'
  OBVIOUS
<1>1. CASE DriverEntry \/ StopDriver \/ DriverUnload
  BY <1>1, StillOrder DEF DriverEntry, StopDriver, DriverUnload, ClearEvents, pollers, Got
<1>2. CASE \E s \in Sources, e \in Events : Allocate(s, e) \/ Refuse(s, e)
  BY <1>2, StillOrder DEF Allocate, Refuse, pollers, Got
<1>3. CASE \E s \in Sources : Insert(s)
  BY <1>3, InsertOrder
<1>4. CASE \E p \in Pollers : NewService(p) \/ Poll(p)
  <2> SUFFICES ASSUME NEW p \in Pollers, NewService(p) \/ Poll(p) PROVE OrderInv'
    BY <1>4
  <2>1. CASE NewService(p)
    BY <2>1, StillOrder DEF NewService, Got
  <2>2. CASE ReadEvents(p)
    BY <2>2, ReadOrder
  <2>3. CASE Broadcast(p)
    BY <2>3, BroadcastMoves, StillOrder DEF Broadcast
  <2>4. CASE ClearAfterRead(p)
    BY <2>4, StillOrder DEF ClearAfterRead, ClearEvents, Got
  <2> QED
    BY <2>1, <2>2, <2>3, <2>4 DEF Poll
<1>5. CASE ProgramExits
  BY <1>5, ExitOrder
<1>6. CASE UNCHANGED vars
  BY <1>6, StillOrder DEF vars, pollers, Got
<1> QED
  BY <1>1, <1>2, <1>3, <1>4, <1>5, <1>6 DEF Next

(* Of ReadEvents and ClearEvents, called by several pollers in any order, and *)
(* of what the driver frees meanwhile: what one poller broadcasts is a part   *)
(* of the list's events in the order in which AddEventToList put them there.  *)
THEOREM PollersKeepOrder == Spec => []EachPollerKeepsOrder
<1>1. Init => TypeOK /\ PlaceInv /\ OrderInv
  BY InitIInv, InitPlaces, InitOrder DEF IInv
<1>2. TypeOK /\ PlaceInv /\ OrderInv /\ [Next]_vars => PlaceInv' /\ OrderInv'
  BY NextPlaces, NextOrder DEF PlaceInv
<1>3. OrderInv => EachPollerKeepsOrder
  BY DEF OrderInv, EachPollerKeepsOrder, InOrder, Precedes, Follows, Before
<1> QED
  BY <1>1, <1>2, <1>3, TypeCorrect, PTL DEF Spec
=============================================================================
