--------------------------- MODULE EndpointProofs ---------------------------
(***************************************************************************)
(* For any constants: what the trace consumer promises of the loads it     *)
(* reports, the background loop of the processes, the file monitor of its  *)
(* recent events, the correlation actor of its chains and the live graph   *)
(* of the walks over it; and that the specification of all parts, which    *)
(* share no state, keeps what each of them keeps.                          *)
(***************************************************************************)
EXTENDS Endpoint, LiveEventsProofs, ForensicProofs

(* The trace consumer.                                                       *)
Reported ==
    [kind : {"created"}, pid : TracePids, x : Nat]
    \cup [kind : {"terminated", "thread"}, pid : TracePids, x : {0}]
    \cup [kind : {"load"}, pid : TracePids,
          x : [image : TraceImages, name : Nat \cup {Unnamed}, skipped : BOOLEAN]]
    \cup [kind : {"verdict"}, pid : TracePids, x : TraceImages]
TraceRecords ==
    [kind : {"create", "end", "thread"}, pid : TracePids, image : {0}, number : Nat]
    \cup [kind : {"load"}, pid : TracePids, image : TraceImages, number : Nat]
Jobs == [pid : TracePids, image : TraceImages]

TraceTypes ==
    /\ trace \in Seq(TraceRecords) /\ recorded \in Nat
    /\ emitted \in Seq(Reported) /\ jobs \in Seq(Jobs)
    /\ \A pid \in DOMAIN table : table[pid].name \in Nat
    /\ loading \in [pid : TracePids, image : TraceImages, skipped : BOOLEAN] \cup {NoLoad}
    /\ verifying \in [pid : TracePids, image : TraceImages, known : BOOLEAN] \cup {NoJob}
    /\ DOMAIN verdicts \subseteq TraceImages
    /\ \A image \in DOMAIN verdicts : verdicts[image] \in BOOLEAN

LoadsAddUp ==
    \A image \in TraceImages, pid \in TracePids :
        Cardinality(LoadsOf(pid, image)) + OneIf(IsLoading(pid, image))
        = Cardinality(VerdictsOf(pid, image)) + OneIf(IsVerifying(pid, image))
          + Cardinality(JobsOf(pid, image))

\* A load is skipped because of a verdict, which somebody emits.
SkippedForAVerdict ==
    /\ \A image \in DOMAIN verdicts : HasVerdict(image)
    /\ loading.skipped => HasVerdict(loading.image)
    /\ \A i \in DOMAIN emitted :
          emitted[i].kind = "load" /\ emitted[i].x.skipped => HasVerdict(emitted[i].x.image)

TraceInv == TraceTypes /\ LoadsAddUp /\ SkippedForAVerdict

\* The events that are counted, by what they are.
ALoad(pid, image) ==
    {r \in Reported : r.kind = "load" /\ r.pid = pid /\ r.x.image = image /\ ~r.x.skipped}
AVerdict(pid, image) == {r \in Reported : r.kind = "verdict" /\ r.pid = pid /\ r.x = image}
AJob(pid, image) == {j \in Jobs : j.pid = pid /\ j.image = image}

LEMMA CountedByKind ==
    ASSUME TraceTypes, NEW pid, NEW image
    PROVE  /\ LoadsOf(pid, image) = PositionsOf(emitted, ALoad(pid, image))
           /\ VerdictsOf(pid, image) = PositionsOf(emitted, AVerdict(pid, image))
           /\ JobsOf(pid, image) = PositionsOf(jobs, AJob(pid, image))
           /\ Cardinality(LoadsOf(pid, image)) \in Nat
           /\ Cardinality(VerdictsOf(pid, image)) \in Nat
           /\ Cardinality(JobsOf(pid, image)) \in Nat
<1>1. emitted \in Seq(Reported) /\ jobs \in Seq(Jobs)
  BY DEF TraceTypes
<1>2. /\ \A i \in DOMAIN emitted : emitted[i] \in Reported
      /\ \A i \in DOMAIN jobs : jobs[i] \in Jobs
  BY <1>1, ElementsOf
<1>3. /\ LoadsOf(pid, image) = PositionsOf(emitted, ALoad(pid, image))
      /\ VerdictsOf(pid, image) = PositionsOf(emitted, AVerdict(pid, image))
      /\ JobsOf(pid, image) = PositionsOf(jobs, AJob(pid, image))
  BY <1>2 DEF PositionsOf, LoadsOf, VerdictsOf, JobsOf, ALoad, AVerdict, AJob
<1> QED
  BY <1>1, <1>3, PlacesAreFinite

\* What one more event on the bus changes.
LEMMA OneMoreEmitted ==
    ASSUME TraceTypes, TraceTypes', NEW r \in Reported, emitted' = Append(emitted, r)
    PROVE  /\ \A pid \in TracePids, image \in TraceImages :
                 /\ Cardinality(LoadsOf(pid, image)')
                       = Cardinality(LoadsOf(pid, image)) + OneIf(r \in ALoad(pid, image))
                 /\ Cardinality(VerdictsOf(pid, image)')
                       = Cardinality(VerdictsOf(pid, image)) + OneIf(r \in AVerdict(pid, image))
                 /\ VerdictsOf(pid, image) \subseteq VerdictsOf(pid, image)'
                 /\ r \in AVerdict(pid, image) => VerdictsOf(pid, image)' # {}
           /\ DOMAIN emitted' = DOMAIN emitted \cup {Len(emitted) + 1}
           /\ \A i \in DOMAIN emitted : emitted'[i] = emitted[i]
           /\ emitted'[Len(emitted) + 1] = r
<1>1. emitted \in Seq(Reported)
  BY DEF TraceTypes
<1>2. ASSUME NEW pid \in TracePids, NEW image \in TraceImages
      PROVE  /\ Cardinality(LoadsOf(pid, image)')
                   = Cardinality(LoadsOf(pid, image)) + OneIf(r \in ALoad(pid, image))
             /\ Cardinality(VerdictsOf(pid, image)')
                   = Cardinality(VerdictsOf(pid, image)) + OneIf(r \in AVerdict(pid, image))
             /\ VerdictsOf(pid, image) \subseteq VerdictsOf(pid, image)'
             /\ r \in AVerdict(pid, image) => VerdictsOf(pid, image)' # {}
  <2>1. /\ LoadsOf(pid, image) = PositionsOf(emitted, ALoad(pid, image))
        /\ VerdictsOf(pid, image) = PositionsOf(emitted, AVerdict(pid, image))
    BY CountedByKind
  <2>2. /\ LoadsOf(pid, image)' = PositionsOf(Append(emitted, r), ALoad(pid, image))
        /\ VerdictsOf(pid, image)' = PositionsOf(Append(emitted, r), AVerdict(pid, image))
    <3>1. \A i \in DOMAIN emitted' : emitted'[i] \in Reported
      BY ElementsOf DEF TraceTypes
    <3> QED
      BY <3>1 DEF PositionsOf, LoadsOf, VerdictsOf, ALoad, AVerdict
  <2>3. ASSUME NEW E
        PROVE  /\ Cardinality(PositionsOf(Append(emitted, r), E))
                     = Cardinality(PositionsOf(emitted, E)) + OneIf(r \in E)
               /\ PositionsOf(emitted, E) \subseteq PositionsOf(Append(emitted, r), E)
               /\ r \in E => PositionsOf(Append(emitted, r), E) # {}
    BY <1>1, PlacesAppended DEF OneIf
  <2> QED
    BY <2>1, <2>2, <2>3
<1>3. /\ DOMAIN emitted' = DOMAIN emitted \cup {Len(emitted) + 1}
      /\ \A i \in DOMAIN emitted : emitted'[i] = emitted[i]
      /\ emitted'[Len(emitted) + 1] = r
  BY <1>1, AppendFacts
<1> QED
  BY <1>2, <1>3

LEMMA TraceStarts == InitTrace => TraceInv
<1> SUFFICES ASSUME InitTrace PROVE TraceInv
  OBVIOUS
<1> USE DEF InitTrace
<1>1. TraceTypes
  BY DEF TraceTypes
<1>2. LoadsAddUp
  <2> SUFFICES ASSUME NEW image \in TraceImages, NEW pid \in TracePids
               PROVE  Cardinality(LoadsOf(pid, image)) + OneIf(IsLoading(pid, image))
                      = Cardinality(VerdictsOf(pid, image)) + OneIf(IsVerifying(pid, image))
                        + Cardinality(JobsOf(pid, image))
    BY DEF LoadsAddUp
  <2>1. LoadsOf(pid, image) = {} /\ VerdictsOf(pid, image) = {} /\ JobsOf(pid, image) = {}
    BY DEF LoadsOf, VerdictsOf, JobsOf
  <2>2. ~IsLoading(pid, image) /\ ~IsVerifying(pid, image)
    BY TraceAssumption DEF IsLoading, IsVerifying, NoLoad, NoJob
  <2>3. Cardinality({}) = 0
    BY FS_EmptySet
  <2> QED
    BY <2>1, <2>2, <2>3 DEF OneIf
<1>3. SkippedForAVerdict
  BY DEF SkippedForAVerdict, NoLoad
<1> QED
  BY <1>1, <1>2, <1>3 DEF TraceInv

\* Whose counts stay, and who stays known: steps that emit nothing about loads.
LEMMA HasVerdictStays ==
    ASSUME NEW image, HasVerdict(image), verifying'.image = verifying.image,
           \A pid \in TracePids : VerdictsOf(pid, image) \subseteq VerdictsOf(pid, image)'
    PROVE  HasVerdict(image)'
BY DEF HasVerdict

\* The records come from the kernel; nothing else of the consumer changes.
LEMMA RecordsKeep ==
    ASSUME TraceInv, TraceTypes', \/ UNCHANGED <<table, loading, verdicts, jobs, verifying, emitted>>
                                  \/ UNCHANGED <<loading, verdicts, jobs, verifying, emitted>>
    PROVE  TraceInv'
<1>1. UNCHANGED <<loading, verdicts, jobs, verifying, emitted>>
  OBVIOUS
<1>2. LoadsAddUp'
  BY <1>1 DEF TraceInv, LoadsAddUp, LoadsOf, VerdictsOf, JobsOf, IsLoading, IsVerifying
<1>3. SkippedForAVerdict'
  BY <1>1 DEF TraceInv, SkippedForAVerdict, HasVerdict, VerdictsOf
<1> QED
  BY <1>2, <1>3 DEF TraceInv

LEMMA SkippedImages ==
    ASSUME TraceTypes
    PROVE  /\ DOMAIN verdicts \subseteq TraceImages
           /\ loading.skipped => loading.image \in TraceImages
           /\ \A i \in DOMAIN emitted :
                 emitted[i].kind = "load" => emitted[i].x.image \in TraceImages
<1>1. \A i \in DOMAIN emitted : emitted[i] \in Reported
  BY ElementsOf DEF TraceTypes
<1>2. ASSUME NEW r \in Reported, r.kind = "load" PROVE r.x.image \in TraceImages
  <2>1. r \in [kind : {"load"}, pid : TracePids,
               x : [image : TraceImages, name : Nat \cup {Unnamed}, skipped : BOOLEAN]]
    BY <1>2 DEF Reported
  <2> QED
    BY <2>1
<1>3. ~NoLoad.skipped
  BY DEF NoLoad
<1> QED
  BY <1>1, <1>2, <1>3 DEF TraceTypes

\* A report of something else than a load.
LEMMA OtherReportsKeep ==
    ASSUME TraceInv, TraceTypes', UNCHANGED <<loading, verdicts, jobs, verifying>>,
           NEW r \in Reported, r.kind \notin {"load", "verdict"}, emitted' = Append(emitted, r)
    PROVE  TraceInv'
<1>1. /\ \A pid \in TracePids, image \in TraceImages :
            /\ r \notin ALoad(pid, image) /\ r \notin AVerdict(pid, image)
            /\ Cardinality(LoadsOf(pid, image)) \in Nat
            /\ Cardinality(VerdictsOf(pid, image)) \in Nat
      /\ TraceTypes
  BY CountedByKind DEF ALoad, AVerdict, TraceInv
<1>2. \A pid \in TracePids, image \in TraceImages :
         /\ Cardinality(LoadsOf(pid, image)') = Cardinality(LoadsOf(pid, image))
         /\ Cardinality(VerdictsOf(pid, image)') = Cardinality(VerdictsOf(pid, image))
         /\ VerdictsOf(pid, image) \subseteq VerdictsOf(pid, image)'
  BY <1>1, OneMoreEmitted DEF OneIf
<1>3. LoadsAddUp'
  BY <1>2 DEF TraceInv, LoadsAddUp, JobsOf, IsLoading, IsVerifying
<1>4. \A image \in TraceImages : HasVerdict(image) => HasVerdict(image)'
  BY <1>2, HasVerdictStays
<1>5. SkippedForAVerdict'
  <2>1. /\ DOMAIN emitted' = DOMAIN emitted \cup {Len(emitted) + 1}
        /\ \A i \in DOMAIN emitted : emitted'[i] = emitted[i]
        /\ emitted'[Len(emitted) + 1] = r
    BY <1>1, OneMoreEmitted
  <2> QED
    BY <1>1, <1>4, <2>1, SkippedImages DEF TraceInv, SkippedForAVerdict
<1> QED
  BY <1>3, <1>5 DEF TraceInv

\* The next record, which comes from the kernel.
LEMMA RecordFacts ==
    ASSUME TraceTypes, NEW kind, NextRecord(kind)
    PROVE  /\ trace' \in Seq(TraceRecords) /\ Head(trace) \in TraceRecords
           /\ Head(trace).kind = kind /\ Head(trace).pid \in TracePids /\ Head(trace).number \in Nat
           /\ kind = "load" => Head(trace).image \in TraceImages
<1>1. trace \in Seq(TraceRecords) /\ trace # <<>> /\ Head(trace).kind = kind /\ trace' = Tail(trace)
  BY DEF TraceTypes, NextRecord
<1>2. Head(trace) \in TraceRecords /\ Tail(trace) \in Seq(TraceRecords)
  BY <1>1, HeadTailFacts
<1>3. ASSUME NEW r \in TraceRecords
      PROVE  r.pid \in TracePids /\ r.number \in Nat /\ (r.kind = "load" => r.image \in TraceImages)
  BY DEF TraceRecords
<1> QED
  BY <1>1, <1>2, <1>3

LEMMA KernelLogsKeeps ==
    ASSUME TraceInv, KernelLogs
    PROVE  TraceInv'
<1>1. PICK kind \in {"create", "end", "thread", "load"}, pid \in TracePids,
            image \in TraceImages \cup {0} :
          /\ LogRecord(kind, pid, image)
          /\ IF kind = "load" THEN image \in TraceImages ELSE image = 0
  <2>1. CASE \E pid \in TracePids, kind \in {"create", "end", "thread"} : LogRecord(kind, pid, 0)
    BY <2>1
  <2>2. CASE \E pid \in TracePids, image \in TraceImages : LogRecord("load", pid, image)
    BY <2>2
  <2> QED
    BY <2>1, <2>2 DEF KernelLogs
<1> DEFINE r == [kind |-> kind, pid |-> pid, image |-> image, number |-> recorded + 1]
<1>2. /\ recorded' = recorded + 1 /\ trace' = Append(trace, r)
      /\ UNCHANGED <<table, loading, verdicts, jobs, verifying, emitted>>
      /\ TraceTypes
  BY <1>1 DEF LogRecord, TraceInv
<1>3. recorded + 1 \in Nat /\ trace \in Seq(TraceRecords)
  BY <1>2 DEF TraceTypes
<1>4. r \in TraceRecords
  BY <1>1, <1>3 DEF TraceRecords
<1> HIDE DEF r
<1>5. Append(trace, r) \in Seq(TraceRecords)
  BY <1>3, <1>4, AppendFacts
<1>6. TraceTypes'
  BY <1>2, <1>3, <1>5 DEF TraceTypes
<1> QED
  BY <1>2, <1>6, RecordsKeep

LEMMA ProcessRecordsKeep ==
    ASSUME TraceInv, HandleCreate \/ HandleEnd \/ HandleThread \/ TooShort
    PROVE  TraceInv'
<1>1. TraceTypes /\ emitted \in Seq(Reported)
  BY DEF TraceInv, TraceTypes
<1>2. CASE HandleCreate
  <2>1. PICK r \in TraceRecords : r = Head(trace) /\ r.pid \in TracePids /\ r.number \in Nat
    BY <1>1, <1>2, RecordFacts DEF HandleCreate
  <2>2. /\ table' = [pid \in DOMAIN table \cup {r.pid} |->
                        IF pid = r.pid THEN [name |-> r.number, isAlive |-> TRUE] ELSE table[pid]]
        /\ emitted' = Append(emitted, [kind |-> "created", pid |-> r.pid, x |-> r.number])
        /\ UNCHANGED <<recorded, loading, verdicts, jobs, verifying>>
    BY <1>2, <2>1 DEF HandleCreate, Report
  <2>3. PICK e \in Reported : e = [kind |-> "created", pid |-> r.pid, x |-> r.number]
    BY <2>1 DEF Reported
  <2>4. emitted' = Append(emitted, e) /\ emitted' \in Seq(Reported)
    BY <1>1, <2>2, <2>3, AppendFacts
  <2>5. \A pid \in DOMAIN table' : table'[pid].name \in Nat
    BY <1>1, <2>1, <2>2 DEF TraceTypes
  <2>6. TraceTypes'
    BY <1>1, <1>2, <2>2, <2>4, <2>5, RecordFacts DEF TraceTypes, HandleCreate
  <2> QED
    BY <2>2, <2>3, <2>4, <2>6, OtherReportsKeep
<1>3. CASE HandleEnd
  <2>1. PICK p \in TracePids : p = Head(trace).pid
    BY <1>1, <1>3, RecordFacts DEF HandleEnd
  <2>2. /\ table' = IF p \in DOMAIN table THEN [table EXCEPT ![p].isAlive = FALSE] ELSE table
        /\ emitted' = Append(emitted, [kind |-> "terminated", pid |-> p, x |-> 0])
        /\ UNCHANGED <<recorded, loading, verdicts, jobs, verifying>>
    BY <1>3, <2>1 DEF HandleEnd, Report
  <2>3. PICK e \in Reported : e = [kind |-> "terminated", pid |-> p, x |-> 0]
    BY <2>1 DEF Reported
  <2>4. emitted' = Append(emitted, e) /\ emitted' \in Seq(Reported)
    BY <1>1, <2>2, <2>3, AppendFacts
  <2>5. \A pid \in DOMAIN table' : table'[pid].name \in Nat
    BY <1>1, <2>1, <2>2 DEF TraceTypes
  <2>6. TraceTypes'
    BY <1>1, <1>3, <2>2, <2>4, <2>5, RecordFacts DEF TraceTypes, HandleEnd
  <2> QED
    BY <2>2, <2>3, <2>4, <2>6, OtherReportsKeep
<1>4. CASE HandleThread
  <2>1. PICK p \in TracePids : p = Head(trace).pid
    BY <1>1, <1>4, RecordFacts DEF HandleThread
  <2>2. /\ emitted' = Append(emitted, [kind |-> "thread", pid |-> p, x |-> 0])
        /\ UNCHANGED <<recorded, table, loading, verdicts, jobs, verifying>>
    BY <1>4, <2>1 DEF HandleThread, Report
  <2>3. PICK e \in Reported : e = [kind |-> "thread", pid |-> p, x |-> 0]
    BY <2>1 DEF Reported
  <2>4. emitted' = Append(emitted, e) /\ emitted' \in Seq(Reported)
    BY <1>1, <2>2, <2>3, AppendFacts
  <2>5. TraceTypes'
    BY <1>1, <1>4, <2>2, <2>4, RecordFacts DEF TraceTypes, HandleThread
  <2> QED
    BY <2>2, <2>3, <2>4, <2>5, OtherReportsKeep
<1>5. CASE TooShort
  <2>1. UNCHANGED <<recorded, table, loading, verdicts, jobs, verifying, emitted>>
    BY <1>5 DEF TooShort
  <2>2. TraceTypes'
    BY <1>1, <1>5, <2>1, RecordFacts DEF TraceTypes, TooShort
  <2> QED
    BY <2>1, <2>2, RecordsKeep
<1> QED
  BY <1>2, <1>3, <1>4, <1>5

LEMMA HandleLoadKeeps ==
    ASSUME TraceInv, HandleLoad
    PROVE  TraceInv'
<1>1. PICK p \in TracePids, g \in TraceImages : p = Head(trace).pid /\ g = Head(trace).image
  BY RecordFacts DEF HandleLoad, TraceInv
<1> DEFINE skip == Fresh(g)
           job == [pid |-> p, image |-> g]
<1>2. /\ jobs' = IF skip THEN jobs ELSE Append(jobs, job)
      /\ loading' = [pid |-> p, image |-> g, skipped |-> skip]
      /\ UNCHANGED <<recorded, table, verdicts, verifying, emitted>>
      /\ loading = NoLoad /\ TraceTypes /\ trace' \in Seq(TraceRecords)
  BY <1>1, RecordFacts DEF HandleLoad, NextRecord, TraceInv
<1>3. skip \in BOOLEAN /\ (skip => HasVerdict(g))
  <2>1. skip \in BOOLEAN /\ (skip => g \in DOMAIN verdicts)
    BY <1>2 DEF Fresh, TraceTypes
  <2> QED
    BY <2>1 DEF TraceInv, SkippedForAVerdict
<1>4. job \in Jobs /\ jobs \in Seq(Jobs)
  BY <1>2 DEF Jobs, TraceTypes
<1> HIDE DEF skip, job
<1>5. Append(jobs, job) \in Seq(Jobs)
  BY <1>4, AppendFacts
<1>6. /\ jobs' \in Seq(Jobs)
      /\ loading' \in [pid : TracePids, image : TraceImages, skipped : BOOLEAN]
      /\ loading'.pid = p /\ loading'.image = g /\ loading'.skipped = skip
  BY <1>2, <1>3, <1>4, <1>5
<1>7. TraceTypes'
  BY <1>2, <1>6 DEF TraceTypes
<1>8. LoadsAddUp'
  <2> SUFFICES ASSUME NEW image \in TraceImages, NEW pid \in TracePids
               PROVE  Cardinality(LoadsOf(pid, image)') + OneIf(IsLoading(pid, image)')
                      = Cardinality(VerdictsOf(pid, image)') + OneIf(IsVerifying(pid, image)')
                        + Cardinality(JobsOf(pid, image)')
    BY DEF LoadsAddUp, OneIf
  <2>1. /\ Cardinality(LoadsOf(pid, image)) + OneIf(IsLoading(pid, image))
           = Cardinality(VerdictsOf(pid, image)) + OneIf(IsVerifying(pid, image))
             + Cardinality(JobsOf(pid, image))
        /\ Cardinality(LoadsOf(pid, image)) \in Nat /\ Cardinality(VerdictsOf(pid, image)) \in Nat
        /\ Cardinality(JobsOf(pid, image)) \in Nat /\ OneIf(IsVerifying(pid, image)) \in Nat
    BY <1>2, CountedByKind DEF TraceInv, LoadsAddUp, OneIf
  <2>2. /\ LoadsOf(pid, image)' = LoadsOf(pid, image)
        /\ VerdictsOf(pid, image)' = VerdictsOf(pid, image)
        /\ OneIf(IsVerifying(pid, image)') = OneIf(IsVerifying(pid, image))
        /\ OneIf(IsLoading(pid, image)) = 0
    BY <1>2, TraceAssumption DEF LoadsOf, VerdictsOf, IsVerifying, IsLoading, OneIf, NoLoad
  <2> DEFINE new == ~skip /\ p = pid /\ g = image
  <2>3. OneIf(IsLoading(pid, image)') = OneIf(new)
    BY <1>6 DEF IsLoading, OneIf
  <2>4. Cardinality(JobsOf(pid, image)') = Cardinality(JobsOf(pid, image)) + OneIf(new)
    <3>1. /\ JobsOf(pid, image) = PositionsOf(jobs, AJob(pid, image))
          /\ JobsOf(pid, image)' = PositionsOf(jobs', AJob(pid, image))
      <4>1. JobsOf(pid, image)' = PositionsOf(jobs', AJob(pid, image))
        BY <1>7, ElementsOf DEF TraceTypes, PositionsOf, JobsOf, AJob
      <4> QED
        BY <1>2, <4>1, CountedByKind
    <3>2. job \in AJob(pid, image) <=> p = pid /\ g = image
      BY <1>4 DEF AJob, job
    <3>3. CASE skip
      BY <1>2, <2>1, <3>1, <3>3 DEF OneIf
    <3>4. CASE ~skip
      BY <1>2, <1>4, <3>1, <3>2, <3>4, PlacesAppended DEF OneIf
    <3> QED
      BY <3>3, <3>4
  <2>5. OneIf(new) \in Nat
    BY DEF OneIf
  <2> HIDE DEF new
  <2> QED
    BY <2>1, <2>2, <2>3, <2>4, <2>5
<1>9. SkippedForAVerdict'
  <2>1. \A image : HasVerdict(image)' <=> HasVerdict(image)
    BY <1>2 DEF HasVerdict, VerdictsOf
  <2> QED
    BY <1>2, <1>3, <1>6, <2>1 DEF TraceInv, SkippedForAVerdict
<1> QED
  BY <1>7, <1>8, <1>9 DEF TraceInv

LEMMA EmitLoadKeeps ==
    ASSUME TraceInv, EmitLoad
    PROVE  TraceInv'
<1>1. PICK p \in TracePids, g \in TraceImages, skip \in BOOLEAN :
          p = loading.pid /\ g = loading.image /\ skip = loading.skipped
  BY DEF EmitLoad, TraceInv, TraceTypes
<1>2. PICK name \in Nat \cup {Unnamed} : name = Name(p)
  BY DEF TraceInv, TraceTypes, Name
<1>3. PICK r \in Reported :
          r = [kind |-> "load", pid |-> p, x |-> [image |-> g, name |-> name, skipped |-> skip]]
  BY <1>1, <1>2 DEF Reported
<1>4. /\ emitted' = Append(emitted, r) /\ loading' = NoLoad
      /\ UNCHANGED <<trace, recorded, table, verdicts, jobs, verifying>>
      /\ TraceTypes /\ emitted \in Seq(Reported)
  BY <1>1, <1>2, <1>3 DEF EmitLoad, Report, TraceInv, TraceTypes
<1>5. TraceTypes'
  <2>1. Append(emitted, r) \in Seq(Reported)
    BY <1>4, AppendFacts
  <2> QED
    BY <1>4, <2>1 DEF TraceTypes
<1>6. \A pid \in TracePids, image \in TraceImages :
         /\ r \in ALoad(pid, image) <=> p = pid /\ g = image /\ ~skip
         /\ r \notin AVerdict(pid, image)
  BY <1>3 DEF ALoad, AVerdict
<1>7. LoadsAddUp'
  <2> SUFFICES ASSUME NEW image \in TraceImages, NEW pid \in TracePids
               PROVE  Cardinality(LoadsOf(pid, image)') + OneIf(IsLoading(pid, image)')
                      = Cardinality(VerdictsOf(pid, image)') + OneIf(IsVerifying(pid, image)')
                        + Cardinality(JobsOf(pid, image)')
    BY DEF LoadsAddUp, OneIf
  <2>1. /\ Cardinality(LoadsOf(pid, image)) + OneIf(IsLoading(pid, image))
           = Cardinality(VerdictsOf(pid, image)) + OneIf(IsVerifying(pid, image))
             + Cardinality(JobsOf(pid, image))
        /\ Cardinality(LoadsOf(pid, image)) \in Nat /\ Cardinality(VerdictsOf(pid, image)) \in Nat
        /\ Cardinality(JobsOf(pid, image)) \in Nat /\ OneIf(IsVerifying(pid, image)) \in Nat
    BY <1>4, CountedByKind DEF TraceInv, LoadsAddUp, OneIf
  <2>2. /\ JobsOf(pid, image)' = JobsOf(pid, image)
        /\ OneIf(IsVerifying(pid, image)') = OneIf(IsVerifying(pid, image))
        /\ OneIf(IsLoading(pid, image)') = 0
        /\ OneIf(IsLoading(pid, image)) = OneIf(r \in ALoad(pid, image))
    BY <1>1, <1>4, <1>6, TraceAssumption DEF JobsOf, IsVerifying, IsLoading, OneIf, NoLoad
  <2>3. /\ Cardinality(LoadsOf(pid, image)')
              = Cardinality(LoadsOf(pid, image)) + OneIf(r \in ALoad(pid, image))
        /\ Cardinality(VerdictsOf(pid, image)') = Cardinality(VerdictsOf(pid, image)) + 0
    BY <1>4, <1>5, <1>6, OneMoreEmitted DEF OneIf
  <2>4. OneIf(r \in ALoad(pid, image)) \in Nat
    BY DEF OneIf
  <2> QED
    BY <2>1, <2>2, <2>3, <2>4
<1>8. \A image \in TraceImages : HasVerdict(image) => HasVerdict(image)'
  <2>1. \A pid \in TracePids, image \in TraceImages :
           VerdictsOf(pid, image) \subseteq VerdictsOf(pid, image)'
    BY <1>4, <1>5, OneMoreEmitted
  <2> QED
    BY <1>4, <2>1, HasVerdictStays
<1>9. SkippedForAVerdict'
  <2>1. /\ DOMAIN emitted' = DOMAIN emitted \cup {Len(emitted) + 1}
        /\ \A i \in DOMAIN emitted : emitted'[i] = emitted[i]
        /\ emitted'[Len(emitted) + 1] = r
    BY <1>4, <1>5, OneMoreEmitted
  <2>2. r.x.image = g /\ (r.x.skipped => HasVerdict(g))
    BY <1>1, <1>3 DEF TraceInv, SkippedForAVerdict
  <2>3. ~loading'.skipped
    BY <1>4 DEF NoLoad
  <2> QED
    BY <1>4, <1>8, <2>1, <2>2, <2>3, SkippedImages DEF TraceInv, SkippedForAVerdict
<1> QED
  BY <1>5, <1>7, <1>9 DEF TraceInv

LEMMA TakeJobKeeps ==
    ASSUME TraceInv, TakeJob
    PROVE  TraceInv'
<1>1. PICK job \in Jobs : job = Head(jobs)
  BY HeadTailFacts DEF TakeJob, TraceInv, TraceTypes
<1>2. PICK p \in TracePids, g \in TraceImages : p = job.pid /\ g = job.image
  BY DEF Jobs
<1> DEFINE known == Fresh(g)
<1>3. /\ jobs # <<>> /\ jobs' = Tail(jobs) /\ verifying = NoJob
      /\ verifying' = [pid |-> p, image |-> g, known |-> known]
      /\ UNCHANGED <<trace, recorded, table, loading, verdicts, emitted>>
      /\ TraceTypes /\ jobs \in Seq(Jobs)
  BY <1>1, <1>2 DEF TakeJob, TraceInv, TraceTypes
<1>4. known \in BOOLEAN
  BY <1>3 DEF Fresh, TraceTypes
<1> HIDE DEF known
<1>5. /\ Tail(jobs) \in Seq(Jobs) /\ verifying'.pid = p /\ verifying'.image = g
      /\ verifying' \in [pid : TracePids, image : TraceImages, known : BOOLEAN]
  BY <1>3, <1>4, HeadTailFacts
<1>6. TraceTypes'
  BY <1>3, <1>5 DEF TraceTypes
<1>7. LoadsAddUp'
  <2> SUFFICES ASSUME NEW image \in TraceImages, NEW pid \in TracePids
               PROVE  Cardinality(LoadsOf(pid, image)') + OneIf(IsLoading(pid, image)')
                      = Cardinality(VerdictsOf(pid, image)') + OneIf(IsVerifying(pid, image)')
                        + Cardinality(JobsOf(pid, image)')
    BY DEF LoadsAddUp, OneIf
  <2>1. /\ Cardinality(LoadsOf(pid, image)) + OneIf(IsLoading(pid, image))
           = Cardinality(VerdictsOf(pid, image)) + OneIf(IsVerifying(pid, image))
             + Cardinality(JobsOf(pid, image))
        /\ Cardinality(LoadsOf(pid, image)) \in Nat /\ Cardinality(VerdictsOf(pid, image)) \in Nat
        /\ Cardinality(JobsOf(pid, image)) \in Nat
        /\ JobsOf(pid, image) = PositionsOf(jobs, AJob(pid, image))
    BY <1>3, CountedByKind DEF TraceInv, LoadsAddUp
  <2>2. /\ LoadsOf(pid, image)' = LoadsOf(pid, image)
        /\ VerdictsOf(pid, image)' = VerdictsOf(pid, image)
        /\ OneIf(IsLoading(pid, image)') = OneIf(IsLoading(pid, image))
        /\ OneIf(IsVerifying(pid, image)) = 0
    BY <1>3, TraceAssumption DEF LoadsOf, VerdictsOf, IsVerifying, IsLoading, OneIf, NoJob
  <2>3. OneIf(IsVerifying(pid, image)') = OneIf(job \in AJob(pid, image))
    BY <1>2, <1>5 DEF IsVerifying, OneIf, AJob
  <2>4. Cardinality(JobsOf(pid, image))
        = Cardinality(JobsOf(pid, image)') + OneIf(job \in AJob(pid, image))
    <3>1. JobsOf(pid, image)' = PositionsOf(jobs', AJob(pid, image)) /\ Cardinality(JobsOf(pid, image)') \in Nat
      <4>1. JobsOf(pid, image)' = PositionsOf(jobs', AJob(pid, image))
        BY <1>6, ElementsOf DEF TraceTypes, PositionsOf, JobsOf, AJob
      <4> QED
        BY <1>3, <1>5, <4>1, PlacesAreFinite
    <3> QED
      BY <1>1, <1>3, <2>1, <3>1, PlacesTaken DEF OneIf
  <2>5. OneIf(job \in AJob(pid, image)) \in Nat /\ OneIf(IsLoading(pid, image)) \in Nat
        /\ Cardinality(JobsOf(pid, image)') \in Nat
    <3>1. Cardinality(PositionsOf(jobs', AJob(pid, image))) \in Nat
      BY <1>3, <1>5, PlacesAreFinite
    <3>2. JobsOf(pid, image)' = PositionsOf(jobs', AJob(pid, image))
      BY <1>6, ElementsOf DEF TraceTypes, PositionsOf, JobsOf, AJob
    <3> QED
      BY <3>1, <3>2 DEF OneIf
  <2> QED
    BY <2>1, <2>2, <2>3, <2>4, <2>5
<1>8. \A image \in TraceImages : HasVerdict(image) => HasVerdict(image)'
  BY <1>3, TraceAssumption DEF HasVerdict, VerdictsOf, NoJob
<1>9. SkippedForAVerdict'
  BY <1>3, <1>8, SkippedImages DEF TraceInv, SkippedForAVerdict
<1> QED
  BY <1>6, <1>7, <1>9 DEF TraceInv

LEMMA VerifyKeeps ==
    ASSUME TraceInv, Verify \/ \E image \in TraceImages : Stale(image)
    PROVE  TraceInv'
<1>1. /\ UNCHANGED <<trace, recorded, table, loading, jobs, emitted>> /\ TraceTypes
      /\ verifying'.pid = verifying.pid /\ verifying'.image = verifying.image
      /\ verifying' \in [pid : TracePids, image : TraceImages, known : BOOLEAN] \cup {NoJob}
  <2>1. CASE Verify
    <3>1. verifying \in [pid : TracePids, image : TraceImages, known : BOOLEAN]
          /\ verifying' = [verifying EXCEPT !.known = TRUE]
      BY <2>1 DEF Verify, TraceInv, TraceTypes
    <3> QED
      BY <2>1, <3>1 DEF Verify, TraceInv
  <2>2. CASE \E image \in TraceImages : Stale(image)
    BY <2>2 DEF Stale, TraceInv, TraceTypes
  <2> QED
    BY <2>1, <2>2
<1>2. /\ DOMAIN verdicts' \subseteq DOMAIN verdicts \cup ({verifying.image} \cap TraceImages)
      /\ \A image \in DOMAIN verdicts' : verdicts'[image] \in BOOLEAN
  <2>1. CASE Verify
    <3>1. verifying.image \in TraceImages
      BY <2>1 DEF Verify, TraceInv, TraceTypes
    <3> QED
      BY <1>1, <2>1, <3>1 DEF Verify, TraceTypes
  <2>2. CASE \E image \in TraceImages : Stale(image)
    BY <1>1, <2>2 DEF Stale, TraceTypes
  <2> QED
    BY <2>1, <2>2
<1>3. TraceTypes'
  BY <1>1, <1>2 DEF TraceTypes
<1>4. LoadsAddUp'
  BY <1>1 DEF TraceInv, LoadsAddUp, LoadsOf, VerdictsOf, JobsOf, IsLoading, IsVerifying
<1>5. \A image : (HasVerdict(image)' <=> HasVerdict(image)) /\ HasVerdict(verifying.image)
  BY <1>1 DEF HasVerdict, VerdictsOf
<1>6. SkippedForAVerdict'
  BY <1>1, <1>2, <1>5 DEF TraceInv, SkippedForAVerdict
<1> QED
  BY <1>3, <1>4, <1>6 DEF TraceInv

LEMMA EmitVerdictKeeps ==
    ASSUME TraceInv, EmitVerdict
    PROVE  TraceInv'
<1>1. PICK p \in TracePids, g \in TraceImages : p = verifying.pid /\ g = verifying.image
  BY DEF EmitVerdict, TraceInv, TraceTypes
<1>2. PICK r \in Reported : r = [kind |-> "verdict", pid |-> p, x |-> g]
  BY <1>1 DEF Reported
<1>3. /\ emitted' = Append(emitted, r) /\ verifying' = NoJob
      /\ UNCHANGED <<trace, recorded, table, verdicts, jobs, loading>>
      /\ TraceTypes /\ emitted \in Seq(Reported)
  BY <1>1, <1>2 DEF EmitVerdict, Report, TraceInv, TraceTypes
<1>4. TraceTypes'
  <2>1. Append(emitted, r) \in Seq(Reported)
    BY <1>3, AppendFacts
  <2> QED
    BY <1>3, <2>1 DEF TraceTypes
<1>5. \A pid \in TracePids, image \in TraceImages :
         /\ r \in AVerdict(pid, image) <=> p = pid /\ g = image
         /\ r \notin ALoad(pid, image)
  BY <1>2 DEF ALoad, AVerdict
<1>6. LoadsAddUp'
  <2> SUFFICES ASSUME NEW image \in TraceImages, NEW pid \in TracePids
               PROVE  Cardinality(LoadsOf(pid, image)') + OneIf(IsLoading(pid, image)')
                      = Cardinality(VerdictsOf(pid, image)') + OneIf(IsVerifying(pid, image)')
                        + Cardinality(JobsOf(pid, image)')
    BY DEF LoadsAddUp, OneIf
  <2>1. /\ Cardinality(LoadsOf(pid, image)) + OneIf(IsLoading(pid, image))
           = Cardinality(VerdictsOf(pid, image)) + OneIf(IsVerifying(pid, image))
             + Cardinality(JobsOf(pid, image))
        /\ Cardinality(LoadsOf(pid, image)) \in Nat /\ Cardinality(VerdictsOf(pid, image)) \in Nat
        /\ Cardinality(JobsOf(pid, image)) \in Nat /\ OneIf(IsLoading(pid, image)) \in Nat
    BY <1>3, CountedByKind DEF TraceInv, LoadsAddUp, OneIf
  <2>2. /\ JobsOf(pid, image)' = JobsOf(pid, image)
        /\ OneIf(IsLoading(pid, image)') = OneIf(IsLoading(pid, image))
        /\ OneIf(IsVerifying(pid, image)') = 0
        /\ OneIf(IsVerifying(pid, image)) = OneIf(r \in AVerdict(pid, image))
    BY <1>1, <1>3, <1>5, TraceAssumption DEF JobsOf, IsVerifying, IsLoading, OneIf, NoJob
  <2>3. /\ Cardinality(VerdictsOf(pid, image)')
              = Cardinality(VerdictsOf(pid, image)) + OneIf(r \in AVerdict(pid, image))
        /\ Cardinality(LoadsOf(pid, image)') = Cardinality(LoadsOf(pid, image)) + 0
    BY <1>3, <1>4, <1>5, OneMoreEmitted DEF OneIf
  <2>4. OneIf(r \in AVerdict(pid, image)) \in Nat
    BY DEF OneIf
  <2> QED
    BY <2>1, <2>2, <2>3, <2>4
<1>7. \A image \in TraceImages : HasVerdict(image) => HasVerdict(image)'
  <2>1. \A image \in TraceImages, pid \in TracePids :
           /\ VerdictsOf(pid, image) \subseteq VerdictsOf(pid, image)'
           /\ r \in AVerdict(pid, image) => VerdictsOf(pid, image)' # {}
    BY <1>3, <1>4, OneMoreEmitted
  <2>2. VerdictsOf(p, g)' # {}
    BY <1>5, <2>1
  <2> QED
    BY <1>1, <2>1, <2>2 DEF HasVerdict
<1>8. SkippedForAVerdict'
  <2>1. /\ DOMAIN emitted' = DOMAIN emitted \cup {Len(emitted) + 1}
        /\ \A i \in DOMAIN emitted : emitted'[i] = emitted[i]
        /\ emitted'[Len(emitted) + 1] = r
    BY <1>3, <1>4, OneMoreEmitted
  <2>2. r.kind # "load"
    BY <1>2
  <2> QED
    BY <1>3, <1>7, <2>1, <2>2, SkippedImages DEF TraceInv, SkippedForAVerdict
<1> QED
  BY <1>4, <1>6, <1>8 DEF TraceInv

LEMMA TraceKeeps ==
    ASSUME TraceInv, [NextTrace]_traceVars
    PROVE  TraceInv'
<1>1. CASE NextTrace
  BY <1>1, KernelLogsKeeps, ProcessRecordsKeep, HandleLoadKeeps, EmitLoadKeeps, TakeJobKeeps,
     VerifyKeeps, EmitVerdictKeeps DEF NextTrace
<1>2. CASE UNCHANGED traceVars
  BY <1>2 DEF traceVars, TraceInv, TraceTypes, LoadsAddUp, SkippedForAVerdict, LoadsOf,
              VerdictsOf, JobsOf, IsLoading, IsVerifying, HasVerdict
<1> QED
  BY <1>1, <1>2

LEMMA TraceShows == TraceInv => LoadsAreVerified
BY DEF TraceInv, LoadsAddUp, SkippedForAVerdict, LoadsAreVerified
-----------------------------------------------------------------------------
(* The file monitor.                                                         *)
Events == [thread : Thread, n : Nat]

FileTypes ==
    /\ starts \in 0..MaxStarts /\ current \in 0..starts
    /\ shared \in [1..MaxStarts -> Seq(Events)] /\ recentEvents \in Seq(Events)
    /\ pushes \in [Thread -> Nat] /\ watchers \subseteq Thread

\* A watcher was started, and what it pushes goes to the vector of its start.
StartedOnly ==
    /\ \A thread \in watchers : StartedBy(thread) <= starts
    /\ \A i \in DOMAIN recentEvents : StartedBy(recentEvents[i].thread) <= starts
    /\ \A m \in starts + 1..MaxStarts : shared[m] = <<>>
    /\ \A m \in 1..MaxStarts : \A i \in DOMAIN shared[m] : StartedBy(shared[m][i].thread) = m

FileInv == FileTypes /\ StartedOnly /\ RecentHasNoHoles

LEMMA ThreadFacts == \A thread \in Thread : StartedBy(thread) \in 1..MaxStarts
BY DEF Thread, StartedBy

LEMMA CollectedFacts ==
    ASSUME FileTypes
    PROVE  /\ Collected \in Seq(Events) /\ Len(recentEvents) <= Len(Collected)
           /\ recentEvents = SubSeq(Collected, 0 + 1, Len(recentEvents))
<1>1. PICK a, b \in Seq(Events) :
          a = recentEvents /\ b = IF current = 0 THEN <<>> ELSE shared[current]
  <2>1. current # 0 => current \in 1..MaxStarts
    BY FilesAssumption DEF FileTypes
  <2>2. <<>> \in Seq(Events)
    OBVIOUS
  <2> QED
    BY <2>1, <2>2 DEF FileTypes
<1>2. /\ a \o b \in Seq(Events) /\ Len(a \o b) = Len(a) + Len(b) /\ Len(a) \in Nat /\ Len(b) \in Nat
      /\ \A i \in 1..Len(a) : (a \o b)[i] = a[i]
  BY ConcatFacts
<1>3. a = SubSeq(a \o b, 0 + 1, Len(a))
  <2>1. /\ SubSeq(a \o b, 0 + 1, Len(a)) \in Seq(Events) /\ Len(SubSeq(a \o b, 0 + 1, Len(a))) = Len(a)
        /\ \A i \in 1..Len(a) : SubSeq(a \o b, 0 + 1, Len(a))[i] = (a \o b)[i]
    BY <1>2, PieceFacts
  <2>2. \A p, q \in Seq(Events) : Len(p) = Len(q) /\ (\A k \in 1..Len(p) : p[k] = q[k]) => p = q
    OBVIOUS
  <2> QED
    BY <1>2, <2>1, <2>2
<1> QED
  BY <1>1, <1>2, <1>3 DEF Collected

\* Whatever is cut off at either end, no hole comes.
LEMMA PieceHasNoHoles ==
    ASSUME NEW q \in Seq(Events), NEW thread, NEW a \in Nat, NEW b \in Nat,
           a <= b, b <= Len(q)
    PROVE  /\ NoHoles(q, thread) => NoHoles(SubSeq(q, a + 1, b), thread)
           /\ \A n : b = Len(q) /\ EndsWith(q, thread, n)
                        => EndsWith(SubSeq(q, a + 1, b), thread, n)
           /\ \A i \in DOMAIN SubSeq(q, a + 1, b) :
                 \E j \in DOMAIN q : SubSeq(q, a + 1, b)[i] = q[j]
<1> DEFINE piece == SubSeq(q, a + 1, b)
<1>1. /\ DOMAIN piece = 1..b - a /\ DOMAIN q = 1..Len(q)
      /\ \A k \in 1..b - a : piece[k] = q[a + k] /\ a + k \in 1..b
      /\ b - a \in Nat /\ Len(q) \in Nat
  <2>1. /\ piece \in Seq(Events) /\ Len(piece) = b - a
        /\ \A k \in 1..b - a : piece[k] = q[a + k] /\ a + k \in 1..b
    BY PieceFacts
  <2> QED
    BY <2>1
<1> HIDE DEF piece
<1>2. /\ \A i \in EventsOf(piece, thread) : i \in Nat /\ a + i \in EventsOf(q, thread)
                                             /\ q[a + i] = piece[i]
      /\ \A k \in EventsOf(q, thread) :
            k \in Nat /\ (a < k /\ k <= b => k - a \in EventsOf(piece, thread))
  <2>1. \A i \in 1..b - a : a + i \in 1..Len(q)
    BY <1>1
  <2>2. ASSUME NEW k \in EventsOf(q, thread), a < k, k <= b
        PROVE  k - a \in EventsOf(piece, thread)
    <3>1. k \in Nat /\ k - a \in 1..b - a /\ a + (k - a) = k
      BY <1>1, <2>2 DEF EventsOf
    <3> QED
      BY <1>1, <3>1 DEF EventsOf
  <2> QED
    BY <1>1, <2>1, <2>2 DEF EventsOf
<1>3. ASSUME NoHoles(q, thread) PROVE NoHoles(piece, thread)
  <2> SUFFICES ASSUME NEW i \in EventsOf(piece, thread), NEW j \in EventsOf(piece, thread),
                      i < j, \A k \in EventsOf(piece, thread) : k <= i \/ j <= k
               PROVE  piece[j].n = piece[i].n + 1
    BY DEF NoHoles
  <2>1. i \in 1..b - a /\ j \in 1..b - a
    BY <1>1 DEF EventsOf
  <2>2. ASSUME NEW k \in EventsOf(q, thread) PROVE k <= a + i \/ a + j <= k
    <3>1. k \in Nat
      BY <1>2
    <3>2. CASE a < k /\ k <= b
      <4>1. k - a <= i \/ j <= k - a
        BY <1>2, <3>2
      <4> QED
        BY <2>1, <3>1, <4>1
    <3>3. CASE ~(a < k /\ k <= b)
      BY <1>1, <2>1, <3>1, <3>3
    <3> QED
      BY <3>2, <3>3
  <2>3. a + i < a + j
    BY <2>1
  <2>4. q[a + j].n = q[a + i].n + 1
    BY <1>2, <1>3, <2>2, <2>3 DEF NoHoles
  <2> QED
    BY <1>2, <2>4
<1>4. ASSUME NEW n, b = Len(q), EndsWith(q, thread, n) PROVE EndsWith(piece, thread, n)
  <2> SUFFICES ASSUME NEW i \in EventsOf(piece, thread),
                      \A k \in EventsOf(piece, thread) : k <= i
               PROVE  piece[i].n = n
    BY DEF EndsWith
  <2>1. ASSUME NEW k \in EventsOf(q, thread) PROVE k <= a + i
    <3>1. k \in 1..Len(q) /\ i \in 1..b - a
      BY <1>1 DEF EventsOf
    <3>2. CASE a < k
      <4>1. k - a <= i
        BY <1>2, <1>4, <3>1, <3>2
      <4> QED
        BY <3>1, <4>1
    <3>3. CASE ~(a < k)
      BY <3>1, <3>3
    <3> QED
      BY <3>2, <3>3
  <2>2. q[a + i].n = n
    BY <1>2, <1>4, <2>1 DEF EndsWith
  <2> QED
    BY <1>2, <2>2
<1>5. \A i \in DOMAIN piece : \E j \in DOMAIN q : piece[i] = q[j]
  <2>1. \A i \in 1..b - a : a + i \in 1..Len(q)
    BY <1>1
  <2> QED
    BY <1>1, <2>1
<1> QED
  BY <1>3, <1>4, <1>5 DEF piece

\* The next event of a thread closes up.
LEMMA NextLeavesNoHole ==
    ASSUME NEW q \in Seq(Events), NEW thread, NEW e \in Events, NoHoles(q, thread)
    PROVE  /\ e.thread # thread => NoHoles(Append(q, e), thread)
           /\ \A n : e.thread # thread /\ EndsWith(q, thread, n)
                        => EndsWith(Append(q, e), thread, n)
           /\ \A n : e.thread = thread /\ EndsWith(q, thread, n) /\ e.n = n + 1
                        => /\ NoHoles(Append(q, e), thread)
                           /\ EndsWith(Append(q, e), thread, e.n)
<1> DEFINE longer == Append(q, e)
           m == Len(q) + 1
<1>1. /\ DOMAIN q = 1..Len(q) /\ DOMAIN longer = 1..m /\ m \in Nat /\ Len(q) \in Nat
      /\ \A i \in 1..Len(q) : longer[i] = q[i]
      /\ longer[m] = e
  BY AppendFacts
<1>2. /\ EventsOf(longer, thread) = EventsOf(q, thread) \cup (IF e.thread = thread THEN {m} ELSE {})
      /\ \A i \in EventsOf(q, thread) : i \in Nat /\ i < m /\ longer[i] = q[i]
  BY <1>1 DEF EventsOf
<1> HIDE DEF longer, m
<1>3. CASE e.thread # thread
  <2>1. NoHoles(longer, thread)
    BY <1>2, <1>3 DEF NoHoles
  <2>2. \A n : EndsWith(q, thread, n) => EndsWith(longer, thread, n)
    BY <1>2, <1>3 DEF EndsWith
  <2> QED
    BY <1>3, <2>1, <2>2 DEF longer
<1>4. ASSUME NEW n, e.thread = thread, EndsWith(q, thread, n), e.n = n + 1
      PROVE  NoHoles(longer, thread) /\ EndsWith(longer, thread, e.n)
  <2>1. ASSUME NEW i \in EventsOf(longer, thread), NEW j \in EventsOf(longer, thread),
               i < j, \A k \in EventsOf(longer, thread) : k <= i \/ j <= k
        PROVE  longer[j].n = longer[i].n + 1
    <3>1. i \in EventsOf(q, thread) /\ i < m
      BY <1>1, <1>2, <2>1
    <3>2. CASE j = m
      <4>1. \A k \in EventsOf(q, thread) : k <= i
        BY <1>1, <1>2, <2>1, <3>2
      <4>2. q[i].n = n
        BY <1>4, <3>1, <4>1 DEF EndsWith
      <4> QED
        BY <1>1, <1>2, <1>4, <3>1, <3>2, <4>2
    <3>3. CASE j # m
      <4>1. j \in EventsOf(q, thread)
        BY <1>2, <3>3
      <4> QED
        BY <1>2, <2>1, <3>1, <4>1 DEF NoHoles
    <3> QED
      BY <3>2, <3>3
  <2>2. NoHoles(longer, thread)
    BY <2>1 DEF NoHoles
  <2>3. EndsWith(longer, thread, e.n)
    <3> SUFFICES ASSUME NEW i \in EventsOf(longer, thread),
                        \A k \in EventsOf(longer, thread) : k <= i
                 PROVE  longer[i].n = e.n
      BY DEF EndsWith
    <3>1. m \in EventsOf(longer, thread)
      BY <1>2, <1>4
    <3>2. i = m
      BY <1>1, <1>2, <3>1
    <3> QED
      BY <1>1, <3>2
  <2> QED
    BY <2>2, <2>3
<1> QED
  BY <1>3, <1>4 DEF longer

LEMMA FilesStart == InitFiles => FileInv
<1> SUFFICES ASSUME InitFiles PROVE FileInv
  OBVIOUS
<1> USE DEF InitFiles
<1>1. FileTypes
  BY FilesAssumption DEF FileTypes
<1>2. StartedOnly
  BY DEF StartedOnly
<1>3. RecentHasNoHoles
  <2>1. Collected = <<>>
    BY DEF Collected
  <2> QED
    BY <2>1 DEF RecentHasNoHoles, NoHoles, EndsWith, EventsOf
<1> QED
  BY <1>1, <1>2, <1>3 DEF FileInv

\* The vector that is drained is given up or kept: what was drained has no hole either.
LEMMA VectorLeft ==
    ASSUME FileInv, FileTypes', StartedOnly', UNCHANGED <<recentEvents, shared, pushes>>,
           \/ current' = current
           \/ current' = 0
           \/ current' = starts + 1 /\ starts < MaxStarts
    PROVE  FileInv'
<1>1. CASE current' = current
  <2>1. Collected' = Collected
    BY <1>1 DEF Collected
  <2> QED
    BY <1>1, <2>1 DEF FileInv, RecentHasNoHoles, NoHoles, EndsWith, EventsOf
<1>2. CASE current' # current
  <2>1. recentEvents \in Seq(Events) /\ starts \in Nat /\ shared' = shared
    BY FilesAssumption DEF FileInv, FileTypes
  <2>2. Collected' = recentEvents
    <3>1. current' # 0 => shared[current'] = <<>>
      BY <1>2, <2>1, FilesAssumption DEF FileInv, StartedOnly
    <3> QED
      BY <2>1, <3>1, ConcatEmptySeq DEF Collected
  <2>3. ASSUME NEW thread \in Thread PROVE NoHoles(recentEvents, thread)
    <3>1. NoHoles(Collected, thread) /\ Collected \in Seq(Events)
          /\ Len(recentEvents) <= Len(Collected) /\ Len(recentEvents) \in Nat
          /\ recentEvents = SubSeq(Collected, 0 + 1, Len(recentEvents))
      BY <2>1, CollectedFacts DEF FileInv, RecentHasNoHoles
    <3>2. PICK b \in Nat : b = Len(recentEvents)
      BY <3>1
    <3>3. NoHoles(SubSeq(Collected, 0 + 1, b), thread)
      <4>1. 0 \in Nat /\ 0 <= b /\ b <= Len(Collected)
        BY <3>1, <3>2
      <4> QED
        BY <3>1, <4>1, PieceHasNoHoles
    <3> QED
      BY <3>1, <3>2, <3>3
  <2>4. ASSUME NEW thread \in Thread, StartedBy(thread) = current'
        PROVE  EventsOf(recentEvents, thread) = {}
    <3>1. StartedBy(thread) = starts + 1
      BY <1>2, <2>4, ThreadFacts
    <3> QED
      BY <2>1, <3>1 DEF EventsOf, FileInv, StartedOnly
  <2>5. RecentHasNoHoles'
    BY <2>2, <2>3, <2>4 DEF RecentHasNoHoles, NoHoles, EndsWith, EventsOf
  <2> QED
    BY <2>5 DEF FileInv
<1> QED
  BY <1>1, <1>2

LEMMA StartsAndStopsKeep ==
    ASSUME FileInv,
           \/ StartWatching \/ BeginStop
           \/ \E thread \in Thread : Join(thread) \/ WatcherEnds(thread)
    PROVE  FileInv'
<1>1. /\ starts \in Nat /\ starts <= MaxStarts /\ MaxStarts \in Nat /\ current \in 0..starts
      /\ watchers \subseteq Thread
  BY FilesAssumption DEF FileInv, FileTypes
<1>2. /\ UNCHANGED <<recentEvents, shared, pushes>>
      /\ \/ starts' = starts /\ current' \in {0, current} /\ watchers' \subseteq watchers
         \/ /\ starts' = starts + 1 /\ current' = starts + 1 /\ starts < MaxStarts
            /\ watchers' = watchers \cup ({starts + 1} \X WatchedPaths)
  BY DEF StartWatching, BeginStop, Join, WatcherEnds
<1>3. PICK n \in 0..MaxStarts : n = starts' /\ starts <= n /\ current' \in 0..n
  BY <1>1, <1>2
<1>4. \A thread \in watchers' : thread \in Thread /\ StartedBy(thread) <= n
  <2>1. \A thread \in watchers : thread \in Thread /\ StartedBy(thread) <= n
    <3> SUFFICES ASSUME NEW thread \in watchers PROVE thread \in Thread /\ StartedBy(thread) <= n
      OBVIOUS
    <3>1. thread \in Thread /\ StartedBy(thread) \in 1..MaxStarts /\ StartedBy(thread) <= starts
      BY <1>1, ThreadFacts DEF FileInv, StartedOnly
    <3> QED
      BY <1>1, <1>3, <3>1
  <2>2. CASE watchers' \subseteq watchers
    BY <2>1, <2>2
  <2>3. CASE watchers' = watchers \cup ({n} \X WatchedPaths) /\ n = starts + 1
    <3>1. \A thread \in {n} \X WatchedPaths : thread \in Thread /\ StartedBy(thread) = n
      BY <1>1, <1>3, <2>3 DEF Thread, StartedBy
    <3> QED
      BY <1>3, <2>1, <2>3, <3>1
  <2> QED
    BY <1>2, <1>3, <2>2, <2>3
<1>5. FileTypes'
  BY <1>2, <1>3, <1>4 DEF FileInv, FileTypes
<1>6. StartedOnly'
  <2>1. ASSUME NEW j \in DOMAIN recentEvents PROVE StartedBy(recentEvents[j].thread) <= n
    <3>1. recentEvents[j] \in Events
      BY ElementsOf DEF FileInv, FileTypes
    <3>2. StartedBy(recentEvents[j].thread) \in 1..MaxStarts
      BY <3>1, ThreadFacts DEF Events
    <3>3. StartedBy(recentEvents[j].thread) <= starts
      BY DEF FileInv, StartedOnly
    <3> QED
      BY <1>1, <1>3, <3>2, <3>3
  <2>2. \A m \in n + 1..MaxStarts : m \in starts + 1..MaxStarts
    <3>1. n \in Nat /\ starts \in Nat /\ starts <= n /\ MaxStarts \in Nat
      BY <1>1, <1>3
    <3> QED
      BY <3>1
  <2> QED
    BY <1>2, <1>3, <1>4, <2>1, <2>2 DEF FileInv, StartedOnly
<1> QED
  BY <1>2, <1>5, <1>6, VectorLeft

LEMMA DrainKeeps ==
    ASSUME FileInv, DrainEvents
    PROVE  FileInv'
<1>1. /\ recentEvents' = KeptRecent(Collected) /\ shared' = [shared EXCEPT ![current] = <<>>]
      /\ UNCHANGED <<starts, current, watchers, pushes>>
      /\ FileTypes /\ StartedOnly /\ current \in 1..MaxStarts /\ starts \in Nat
      /\ Collected \in Seq(Events) /\ Len(Collected) \in Nat
  BY CollectedFacts, FilesAssumption DEF DrainEvents, Collected, FileInv, FileTypes
<1>2. PICK a \in Nat : a <= Len(Collected) /\ recentEvents' = SubSeq(Collected, a + 1, Len(Collected))
  <2>1. CASE Len(Collected) > MaxRecent
    <3>1. MaxRecent \div 2 \in Nat /\ MaxRecent \div 2 <= MaxRecent
      BY FilesAssumption
    <3>2. MaxRecent \div 2 <= Len(Collected) /\ MaxRecent \in Nat
      BY <1>1, <2>1, <3>1, FilesAssumption
    <3> QED
      BY <1>1, <2>1, <3>1, <3>2 DEF KeptRecent
  <2>2. CASE ~(Len(Collected) > MaxRecent)
    <3>1. SubSeq(Collected, 0 + 1, Len(Collected)) = Collected
      BY <1>1, SubSeqFull
    <3> QED
      BY <1>1, <2>2, <3>1 DEF KeptRecent
  <2> QED
    BY <2>1, <2>2
<1>3. PICK b \in Nat : b = Len(Collected)
  BY <1>1
<1>4. recentEvents' \in Seq(Events)
  BY <1>1, <1>2, <1>3, PieceFacts
<1>5. /\ shared' \in [1..MaxStarts -> Seq(Events)] /\ shared'[current] = <<>>
      /\ \A m \in 1..MaxStarts : m # current => shared'[m] = shared[m]
  BY <1>1 DEF FileTypes
<1>6. FileTypes'
  BY <1>1, <1>4, <1>5 DEF FileTypes
<1>7. Collected' = recentEvents'
  BY <1>1, <1>4, <1>5, ConcatEmptySeq DEF Collected
<1>8. ASSUME NEW e \in ToSet(Collected) PROVE StartedBy(e.thread) <= starts
  <2>1. PICK p, q \in Seq(Events) : p = recentEvents /\ q = shared[current]
    BY <1>1 DEF FileTypes
  <2>2. Collected = p \o q /\ ToSet(p \o q) = ToSet(p) \cup ToSet(q)
    BY <1>1, <2>1, ConcatFacts DEF Collected
  <2>3. CASE e \in ToSet(p)
    BY <1>1, <2>1, <2>3 DEF StartedOnly, ToSet
  <2>4. CASE e \in ToSet(q)
    <3>1. StartedBy(e.thread) = current
      BY <1>1, <2>1, <2>4 DEF StartedOnly, ToSet
    <3> QED
      BY <1>1, <3>1 DEF FileTypes
  <2> QED
    BY <1>8, <2>2, <2>3, <2>4
<1>9. StartedOnly'
  <2>1. \A i \in DOMAIN recentEvents' : recentEvents'[i] \in ToSet(Collected)
    BY <1>1, <1>2, <1>3, PieceHasNoHoles DEF ToSet
  <2>2. \A m \in 1..MaxStarts : shared'[m] = shared[m] \/ shared'[m] = <<>>
    BY <1>5
  <2>3. \A m \in starts + 1..MaxStarts : m \in 1..MaxStarts
    BY <1>1, FilesAssumption
  <2> QED
    BY <1>1, <1>8, <2>1, <2>2, <2>3 DEF StartedOnly
<1>10. RecentHasNoHoles'
  <2> SUFFICES ASSUME NEW thread \in Thread
               PROVE  /\ NoHoles(recentEvents', thread)
                      /\ StartedBy(thread) = current =>
                            EndsWith(recentEvents', thread, pushes[thread])
    BY <1>1, <1>7 DEF RecentHasNoHoles, NoHoles, EndsWith, EventsOf
  <2>1. /\ NoHoles(Collected, thread)
        /\ StartedBy(thread) = current => EndsWith(Collected, thread, pushes[thread])
    BY DEF FileInv, RecentHasNoHoles
  <2> QED
    BY <1>1, <1>2, <1>3, <2>1, PieceHasNoHoles
<1> QED
  BY <1>6, <1>9, <1>10 DEF FileInv

LEMMA PushKeeps ==
    ASSUME FileInv, NEW thread \in Thread, Push(thread)
    PROVE  FileInv'
<1>1. PICK c \in 1..MaxStarts : c = StartedBy(thread)
  BY ThreadFacts
<1>2. PICK n \in Nat : n = pushes[thread]
  BY DEF FileInv, FileTypes
<1>3. PICK e \in Events : e = [thread |-> thread, n |-> n + 1]
  <2>1. n + 1 \in Nat /\ thread \in Thread
    BY <1>2
  <2>2. [thread |-> thread, n |-> n + 1] \in Events
    BY <2>1 DEF Events
  <2> QED
    BY <2>2
<1>4. /\ pushes' = [pushes EXCEPT ![thread] = n + 1]
      /\ shared' = [shared EXCEPT ![c] = Append(@, e)]
      /\ UNCHANGED <<starts, current, watchers, recentEvents>>
      /\ FileTypes /\ StartedOnly /\ c <= starts /\ starts \in Nat
  <2>1. /\ pushes' = [pushes EXCEPT ![thread] = n + 1]
        /\ shared' = [shared EXCEPT ![c] = Append(@, e)]
        /\ UNCHANGED <<starts, current, watchers, recentEvents>> /\ thread \in watchers
    BY <1>1, <1>2, <1>3 DEF Push
  <2>2. FileTypes /\ StartedOnly /\ starts \in Nat
    BY FilesAssumption DEF FileInv, FileTypes
  <2>3. c <= starts
    BY <1>1, <2>1, <2>2 DEF StartedOnly
  <2> QED
    BY <2>1, <2>2, <2>3
<1>5. shared[c] \in Seq(Events) /\ Append(shared[c], e) \in Seq(Events)
  <2>1. shared[c] \in Seq(Events)
    BY <1>4 DEF FileTypes
  <2> QED
    BY <2>1, AppendFacts
<1>6. /\ shared' \in [1..MaxStarts -> Seq(Events)] /\ shared'[c] = Append(shared[c], e)
      /\ \A m \in 1..MaxStarts : m # c => shared'[m] = shared[m]
      /\ pushes' \in [Thread -> Nat] /\ pushes'[thread] = n + 1
      /\ \A t \in Thread : t # thread => pushes'[t] = pushes[t]
  BY <1>4, <1>5 DEF FileTypes
<1>7. FileTypes'
  BY <1>4, <1>6 DEF FileTypes
<1>8. StartedOnly'
  <2>1. \A m \in starts + 1..MaxStarts : m # c /\ m \in 1..MaxStarts
    BY <1>4, FilesAssumption
  <2>2. ASSUME NEW i \in DOMAIN shared'[c] PROVE StartedBy(shared'[c][i].thread) = c
    <3>1. /\ DOMAIN Append(shared[c], e) = 1..Len(shared[c]) + 1 /\ Len(shared[c]) \in Nat
          /\ DOMAIN shared[c] = 1..Len(shared[c])
          /\ \A j \in 1..Len(shared[c]) + 1 :
                Append(shared[c], e)[j] = IF j = Len(shared[c]) + 1 THEN e ELSE shared[c][j]
      BY <1>5, AppendFacts
    <3>2. \A j \in DOMAIN shared[c] : StartedBy(shared[c][j].thread) = c
      BY <1>4 DEF StartedOnly
    <3>3. StartedBy(e.thread) = c
      BY <1>1, <1>3
    <3>4. CASE i = Len(shared[c]) + 1
      <4>1. shared'[c][i] = e
        BY <1>6, <2>2, <3>1, <3>4
      <4> QED
        BY <3>3, <4>1
    <3>5. CASE i # Len(shared[c]) + 1
      <4>1. i \in DOMAIN shared[c] /\ shared'[c][i] = shared[c][i]
        BY <1>6, <2>2, <3>1, <3>5
      <4> QED
        BY <3>2, <4>1
    <3> QED
      BY <3>4, <3>5
  <2> QED
    BY <1>4, <1>6, <2>1, <2>2 DEF StartedOnly
<1>9. RecentHasNoHoles'
  <2>1. CASE c = current
    <3>1. Collected' = Append(Collected, e) /\ Collected \in Seq(Events)
      <4>1. PICK p, q \in Seq(Events) : p = recentEvents /\ q = shared[c]
        BY <1>4, <1>5 DEF FileTypes
      <4>2. p \o Append(q, e) = Append(p \o q, e)
        <5>1. /\ <<e>> \in Seq(Events) /\ Append(q, e) = q \o <<e>> /\ p \o q \in Seq(Events)
              /\ Append(p \o q, e) = (p \o q) \o <<e>>
          BY ConcatFacts, AppendIsConcat
        <5> QED
          BY <5>1, ConcatAssociative
      <4>3. current # 0 /\ current' # 0
        BY <1>4, <2>1
      <4> QED
        BY <1>4, <1>6, <2>1, <4>1, <4>2, <4>3, CollectedFacts DEF Collected
    <3> SUFFICES ASSUME NEW t \in Thread
                 PROVE  /\ NoHoles(Append(Collected, e), t)
                        /\ StartedBy(t) = current => EndsWith(Append(Collected, e), t, pushes'[t])
      BY <1>4, <3>1 DEF RecentHasNoHoles, NoHoles, EndsWith, EventsOf
    <3>2. /\ NoHoles(Collected, t)
          /\ StartedBy(t) = current => EndsWith(Collected, t, pushes[t])
      BY DEF FileInv, RecentHasNoHoles
    <3>3. CASE t = thread
      <4>1. e.thread = t /\ e.n = n + 1 /\ EndsWith(Collected, t, n) /\ pushes'[t] = e.n
        BY <1>1, <1>2, <1>3, <1>6, <2>1, <3>2, <3>3
      <4> QED
        BY <3>1, <3>2, <4>1, NextLeavesNoHole
    <3>4. CASE t # thread
      <4>1. e.thread # t /\ pushes'[t] = pushes[t]
        BY <1>3, <1>6, <3>4
      <4> QED
        BY <3>1, <3>2, <4>1, NextLeavesNoHole
    <3> QED
      BY <3>3, <3>4
  <2>2. CASE c # current
    <3>1. Collected' = Collected
      <4>1. current # 0 => current \in 1..MaxStarts
        BY <1>4, FilesAssumption DEF FileTypes
      <4> QED
        BY <1>4, <1>6, <2>2, <4>1 DEF Collected
    <3>2. \A t \in Thread : StartedBy(t) = current => pushes'[t] = pushes[t]
      BY <1>1, <1>6, <2>2
    <3> QED
      BY <1>4, <3>1, <3>2 DEF FileInv, RecentHasNoHoles, NoHoles, EndsWith, EventsOf
  <2> QED
    BY <2>1, <2>2
<1> QED
  BY <1>7, <1>8, <1>9 DEF FileInv

LEMMA FilesKeep ==
    ASSUME FileInv, [NextFiles]_fileVars
    PROVE  FileInv'
<1>1. CASE NextFiles
  BY <1>1, StartsAndStopsKeep, DrainKeeps, PushKeeps DEF NextFiles
<1>2. CASE UNCHANGED fileVars
  <2>1. UNCHANGED <<starts, shared, current, watchers, recentEvents, pushes>>
    BY <1>2 DEF fileVars
  <2>2. FileTypes' /\ StartedOnly'
    BY <2>1 DEF FileInv, FileTypes, StartedOnly
  <2> QED
    BY <2>1, <2>2, VectorLeft
<1> QED
  BY <1>1, <1>2
-----------------------------------------------------------------------------
(* The monitor of processes.                                                 *)
ReportKinds == ToSet(KindOrder) \cup {"created", "terminated"}
ReportsMade == [kind : ReportKinds, pid : MonitoredPids \cup {0}, by : Monitors]

TrackingTypes ==
    /\ existing \subseteq MonitoredPids /\ knownPids \in [Monitors -> SUBSET MonitoredPids]
    /\ reporting \in Monitors \cup {0} /\ told \in Nat
    /\ reports \in Seq(ReportsMade) /\ sent \in [Channels -> Seq(ReportsMade)]

LoopRules ==
    /\ reporting = 0 => reports = <<>>
    /\ reports = <<>> => told = 0
    /\ \A i \in DOMAIN reports : reports[i].by = reporting

\* What is still to be reported of a process, and whether the first of it has been told.
ToReport(n, pid) == {i \in DOMAIN reports : reports[i].by = n /\ reports[i].pid = pid}
InHand(n, pid) == reports # <<>> /\ reports[1].by = n /\ reports[1].pid = pid
HasHeard(c, n, pid) == InHand(n, pid) /\ \E k \in 1..told : k <= 3 /\ Outlets["created"][k] = c

InTurns(c, n, pid) ==
    \A i \in Said(c, n, pid) :
        sent[c][i].kind = IF IsOdd(Cardinality({j \in Said(c, n, pid) : j < i}))
                          THEN "terminated" ELSE "created"

\* What is still to be reported of a process is what makes those who follow it know it.
ReportsToCome ==
    \A pid \in MonitoredPids, n \in Monitors :
        /\ \A i, j \in ToReport(n, pid) : i = j
        /\ \A i \in ToReport(n, pid) :
              reports[i].kind = IF pid \in knownPids[n] THEN "created" ELSE "terminated"

\* Behind these is every channel by the same number, but for the report in hand.
AllAreTold(n, pid, number) ==
    /\ IsOdd(number) <=> (pid \in knownPids[n] <=> ToReport(n, pid) = {})
    /\ \A c \in Channels :
          /\ Cardinality(Said(c, n, pid)) = number + (IF HasHeard(c, n, pid) THEN 1 ELSE 0)
          /\ InTurns(c, n, pid)
ToldTheSame ==
    \A pid \in MonitoredPids, n \in Monitors : \E number \in Nat : AllAreTold(n, pid, number)

TrackingInv == TrackingTypes /\ LoopRules /\ ReportsToCome /\ ToldTheSame

LEMMA Parity ==
    ASSUME NEW n \in Nat
    PROVE  (IsOdd(n + 1) <=> ~IsOdd(n)) /\ ~IsOdd(0)
BY DEF IsOdd

LEMMA SaidIsFinite ==
    ASSUME TrackingTypes, NEW c \in Channels, NEW n, NEW pid
    PROVE  /\ IsFiniteSet(Said(c, n, pid)) /\ Cardinality(Said(c, n, pid)) \in Nat
           /\ Said(c, n, pid) \subseteq 1..Len(sent[c]) /\ Len(sent[c]) \in Nat
<1>1. sent[c] \in Seq(ReportsMade) /\ Len(sent[c]) \in Nat /\ DOMAIN sent[c] = 1..Len(sent[c])
  BY DEF TrackingTypes
<1>2. 1 \in Int /\ Len(sent[c]) \in Int
  BY <1>1
<1>3. IsFiniteSet(1..Len(sent[c]))
  BY <1>2, FS_Interval
<1>4. Said(c, n, pid) \in SUBSET (1..Len(sent[c]))
  BY <1>1 DEF Said
<1> QED
  BY <1>1, <1>3, <1>4, FS_Subset, FS_CardinalityType

LEMMA TrackingStarts == InitTracking => TrackingInv
<1> SUFFICES ASSUME InitTracking PROVE TrackingInv
  OBVIOUS
<1> USE DEF InitTracking
<1>1. TrackingTypes
  BY DEF TrackingTypes
<1>2. LoopRules /\ ReportsToCome
  BY DEF LoopRules, ReportsToCome, ToReport
<1>3. ASSUME NEW pid \in MonitoredPids, NEW n \in Monitors PROVE AllAreTold(n, pid, 0)
  <2>1. ToReport(n, pid) = {} /\ pid \notin knownPids[n]
    BY DEF ToReport
  <2>2. ASSUME NEW c \in Channels
        PROVE  Cardinality(Said(c, n, pid)) = 0 /\ InTurns(c, n, pid) /\ ~HasHeard(c, n, pid)
    <3>1. Said(c, n, pid) = {}
      BY DEF Said
    <3> QED
      BY <3>1, FS_EmptySet DEF InTurns, HasHeard, InHand
  <2>3. ~IsOdd(0)
    BY Parity
  <2> QED
    BY <2>1, <2>2, <2>3 DEF AllAreTold
<1> QED
  BY <1>1, <1>2, <1>3 DEF TrackingInv, ToldTheSame

\* Steps of the system, and those that start or stop a loop or end a tick.
LEMMA NothingSaid ==
    ASSUME TrackingInv, TrackingTypes', UNCHANGED <<knownPids, reports, told, sent>>,
           reporting' = reporting \/ reports = <<>>
    PROVE  TrackingInv'
<1>1. LoopRules'
  BY DEF TrackingInv, LoopRules
<1>2. ReportsToCome'
  BY DEF TrackingInv, ReportsToCome, ToReport
<1>3. ASSUME NEW pid, NEW n, NEW c PROVE Said(c, n, pid)' = Said(c, n, pid)
  BY DEF Said
<1>4. ASSUME NEW pid, NEW n, NEW number PROVE AllAreTold(n, pid, number) => AllAreTold(n, pid, number)'
  <2>1. ASSUME NEW c
        PROVE  /\ HasHeard(c, n, pid)' <=> HasHeard(c, n, pid)
               /\ InTurns(c, n, pid) => InTurns(c, n, pid)'
    BY <1>3 DEF HasHeard, InHand, InTurns
  <2>2. ToReport(n, pid)' = ToReport(n, pid)
    BY DEF ToReport
  <2> QED
    BY <1>3, <2>1, <2>2 DEF AllAreTold
<1> QED
  BY <1>1, <1>2, <1>4 DEF TrackingInv, ToldTheSame

\* What a tick has to report.
LEMMA EachFacts ==
    ASSUME TrackingAssumption, NEW n \in Monitors, NEW kind \in ReportKinds, NEW pids \in SUBSET MonitoredPids
    PROVE  /\ Each(n, kind, pids) \in Seq(ReportsMade) /\ IsInjective(Each(n, kind, pids))
           /\ ToSet(Each(n, kind, pids)) = {[kind |-> kind, pid |-> pid, by |-> n] : pid \in pids}
<1>1. IsFiniteSet(pids) /\ Cardinality(pids) \in Nat
  BY FS_Subset, FS_CardinalityType DEF TrackingAssumption
<1> DEFINE arranged == SetToSeq(pids)
<1>2. /\ arranged \in [1..Cardinality(pids) -> pids] /\ IsInjective(arranged) /\ ToSet(arranged) = pids
  BY <1>1, SetToSeqArranges, ArrangementFacts DEF SetToSeqs
<1> DEFINE card == Cardinality(pids)
<1>3. Each(n, kind, pids) = [i \in 1..card |-> [kind |-> kind, pid |-> arranged[i], by |-> n]]
  BY DEF Each
<1> HIDE DEF arranged, card
<1>4. card \in Nat /\ arranged \in [1..card -> pids]
  BY <1>1, <1>2 DEF card
<1>5. Each(n, kind, pids) \in Seq(ReportsMade)
  <2>1. \A i \in 1..card : [kind |-> kind, pid |-> arranged[i], by |-> n] \in ReportsMade
    BY <1>4 DEF ReportsMade
  <2> QED
    BY <1>3, <1>4, <2>1
<1>6. IsInjective(Each(n, kind, pids))
  <2>1. DOMAIN Each(n, kind, pids) = 1..card /\ DOMAIN arranged = 1..card
    BY <1>3, <1>4
  <2>2. \A i \in 1..card : Each(n, kind, pids)[i].pid = arranged[i]
    BY <1>3
  <2> QED
    BY <1>2, <2>1, <2>2 DEF IsInjective
<1>7. ToSet(Each(n, kind, pids)) = {[kind |-> kind, pid |-> pid, by |-> n] : pid \in pids}
  <2>1. pids = {arranged[i] : i \in 1..card}
    BY <1>2, <1>4 DEF ToSet
  <2> QED
    BY <1>3, <1>4, <2>1 DEF ToSet
<1> QED
  BY <1>5, <1>6, <1>7

LEMMA AboutFacts ==
    ASSUME TrackingAssumption, NEW n \in Monitors, NEW found \in SUBSET FindingKinds, NEW kinds \in SetToSeqs(found)
    PROVE  /\ About(n, kinds) \in Seq(ReportsMade) /\ IsInjective(About(n, kinds))
           /\ \A r \in ToSet(About(n, kinds)) : r.pid = 0 /\ r.by = n
<1>1. IsFiniteSet(ToSet(KindOrder)) /\ found \subseteq ToSet(KindOrder)
  <2>1. KindOrder \in Surjection(1..7, ToSet(KindOrder))
    <3>1. DOMAIN KindOrder = 1..7 /\ KindOrder = [i \in 1..7 |-> KindOrder[i]]
      BY DEF KindOrder
    <3> QED
      BY <3>1 DEF ToSet, Surjection
  <2>2. IsFiniteSet(1..7)
    <3>1. 1 \in Int /\ 7 \in Int
      OBVIOUS
    <3> QED
      BY <3>1, FS_Interval, Zenon
  <2>3. IsFiniteSet(ToSet(KindOrder))
    BY <2>1, <2>2, FS_Surjection
  <2> QED
    BY <2>3 DEF TrackingAssumption
<1>2. kinds \in Seq(found) /\ IsInjective(kinds)
  BY <1>1, FS_Subset, ArrangementFacts
<1>3. /\ DOMAIN kinds = 1..Len(kinds) /\ Len(kinds) \in Nat
      /\ \A i \in 1..Len(kinds) : kinds[i] \in found
  BY <1>2
<1>4. About(n, kinds) \in Seq(ReportsMade)
  <2>1. \A i \in 1..Len(kinds) : [kind |-> kinds[i], pid |-> 0, by |-> n] \in ReportsMade
    BY <1>1, <1>3 DEF ReportsMade, ReportKinds
  <2> QED
    BY <1>3, <2>1 DEF About
<1>5. IsInjective(About(n, kinds))
  BY <1>2 DEF About, IsInjective
<1> QED
  BY <1>4, <1>5 DEF About, ToSet

LEMMA BeginTickKeeps ==
    ASSUME TrackingAssumption, TrackingInv, NEW n \in Monitors, BeginTick(n)
    PROVE  TrackingInv'
<1>1. /\ reporting = 0 /\ reporting' = n /\ reports = <<>> /\ told = 0 /\ 0 \notin Monitors
      /\ knownPids' = [knownPids EXCEPT ![n] = existing] /\ knownPids \in [Monitors -> SUBSET MonitoredPids]
      /\ UNCHANGED <<existing, sent, told>> /\ TrackingTypes /\ existing \subseteq MonitoredPids
  BY DEF BeginTick, KnowCurrent, TrackingInv, LoopRules, TrackingTypes, Monitors
<1> DEFINE new == existing \ knownPids[n]
           gone == knownPids[n] \ existing
<1>2. \E found \in SUBSET FindingKinds : \E kinds \in SetToSeqs(found) :
              reports' = About(n, kinds) \o Each(n, "created", new) \o Each(n, "terminated", gone)
  BY DEF BeginTick
<1>. PICK found \in SUBSET FindingKinds : \E kinds \in SetToSeqs(found) :
              reports' = About(n, kinds) \o Each(n, "created", new) \o Each(n, "terminated", gone)
  BY <1>2
<1>3. PICK kinds \in SetToSeqs(found) :
              reports' = About(n, kinds) \o Each(n, "created", new) \o Each(n, "terminated", gone)
  OBVIOUS
<1>4. PICK a \in Seq(ReportsMade), b \in Seq(ReportsMade), d \in Seq(ReportsMade) :
        /\ reports' = a \o b \o d
        /\ IsInjective(a) /\ IsInjective(b) /\ IsInjective(d)
        /\ \A r \in ToSet(a) : r.pid = 0 /\ r.by = n
        /\ ToSet(b) = {[kind |-> "created", pid |-> pid, by |-> n] : pid \in new}
        /\ ToSet(d) = {[kind |-> "terminated", pid |-> pid, by |-> n] : pid \in gone}
  <2>1. /\ new \in SUBSET MonitoredPids /\ gone \in SUBSET MonitoredPids
        /\ "created" \in ReportKinds /\ "terminated" \in ReportKinds
    BY <1>1 DEF ReportKinds
  <2> HIDE DEF new, gone
  <2>2. /\ About(n, kinds) \in Seq(ReportsMade) /\ IsInjective(About(n, kinds))
        /\ \A r \in ToSet(About(n, kinds)) : r.pid = 0 /\ r.by = n
    BY AboutFacts
  <2>3. \A kind \in {"created", "terminated"}, pids \in {new, gone} :
           /\ Each(n, kind, pids) \in Seq(ReportsMade) /\ IsInjective(Each(n, kind, pids))
           /\ ToSet(Each(n, kind, pids)) = {[kind |-> kind, pid |-> pid, by |-> n] : pid \in pids}
    BY <2>1, EachFacts
  <2> QED
    BY <1>3, <2>2, <2>3
<1>5. /\ 0 \notin MonitoredPids /\ new \subseteq MonitoredPids /\ gone \subseteq MonitoredPids
      /\ \A pid : /\ pid \in new <=> pid \in existing /\ pid \notin knownPids[n]
                  /\ pid \in gone <=> pid \notin existing /\ pid \in knownPids[n]
  BY <1>1 DEF TrackingAssumption
<1> HIDE DEF new, gone
<1>6. a \o b \in Seq(ReportsMade) /\ ToSet(a \o b) = ToSet(a) \cup ToSet(b) /\ IsInjective(a \o b)
  <2>1. ToSet(a) \cap ToSet(b) = {}
    BY <1>1, <1>4, <1>5
  <2> QED
    BY <1>4, <2>1, ConcatFacts
<1>7. /\ reports' \in Seq(ReportsMade) /\ ToSet(reports') = ToSet(a) \cup ToSet(b) \cup ToSet(d)
      /\ IsInjective(reports')
  <2>1. ToSet(a \o b) \cap ToSet(d) = {}
    BY <1>1, <1>4, <1>5, <1>6
  <2> QED
    BY ZenonT(30), <1>4, <1>6, <2>1, ConcatFacts
<1>8. \A i \in DOMAIN reports' : reports'[i] \in ToSet(reports') /\ reports'[i].by = n
  <2>1. \A r \in ToSet(reports') : r.by = n
    BY <1>4, <1>7
  <2> QED
    BY <2>1 DEF ToSet
<1>9. TrackingTypes' /\ LoopRules'
  BY <1>1, <1>7, <1>8 DEF TrackingTypes, LoopRules
<1>10. ASSUME NEW m \in Monitors, NEW pid \in MonitoredPids, m # n
       PROVE  ToReport(m, pid) = {} /\ ToReport(m, pid)' = {} /\ knownPids'[m] = knownPids[m]
  <2>1. \A i \in DOMAIN reports' : reports'[i].by # m
    BY <1>8, <1>10
  <2>2. knownPids'[m] = knownPids[m] /\ DOMAIN reports = {}
    BY <1>1, <1>10
  <2> QED
    BY <2>1, <2>2 DEF ToReport
<1>11. ASSUME NEW pid \in MonitoredPids, NEW r \in ToSet(reports'), r.pid = pid
       PROVE  \/ pid \in new /\ r = [kind |-> "created", pid |-> pid, by |-> n]
              \/ pid \in gone /\ r = [kind |-> "terminated", pid |-> pid, by |-> n]
  <2>1. r \notin ToSet(a)
    BY <1>4, <1>5, <1>11
  <2>2. CASE r \in ToSet(b)
    BY <1>4, <1>11, <2>2
  <2>3. CASE r \in ToSet(d)
    BY <1>4, <1>11, <2>3
  <2> QED
    BY <1>7, <2>1, <2>2, <2>3
<1>12. ASSUME NEW pid \in MonitoredPids
       PROVE  /\ \A i, j \in ToReport(n, pid)' : i = j
              /\ \A i \in ToReport(n, pid)' :
                    reports'[i].kind = IF pid \in existing THEN "created" ELSE "terminated"
              /\ ToReport(n, pid)' = {} <=> (pid \in existing <=> pid \in knownPids[n])
  <2>1. \A i \in ToReport(n, pid)' :
           reports'[i] \in ToSet(reports') /\ reports'[i].pid = pid /\ i \in DOMAIN reports'
    BY <1>8 DEF ToReport
  <2>2. ASSUME NEW i \in ToReport(n, pid)', NEW j \in ToReport(n, pid)'
        PROVE  i = j
    <3>1. reports'[i] = reports'[j]
      <4>1. CASE pid \in existing
        BY <1>5, <1>11, <2>1, <4>1
      <4>2. CASE pid \notin existing
        BY <1>5, <1>11, <2>1, <4>2
      <4> QED
        BY <4>1, <4>2
    <3> QED
      BY <1>7, <2>1, <3>1 DEF IsInjective
  <2>3. ASSUME NEW i \in ToReport(n, pid)'
        PROVE  reports'[i].kind = IF pid \in existing THEN "created" ELSE "terminated"
    <3>1. PICK r \in ToSet(reports') : r = reports'[i] /\ r.pid = pid
      BY <2>1
    <3>2. CASE pid \in new /\ r = [kind |-> "created", pid |-> pid, by |-> n]
      <4>1. r.kind = "created" /\ pid \in existing
        BY <1>5, <3>2
      <4>2. reports'[i].kind = r.kind
        BY <3>1
      <4> QED
        BY <4>1, <4>2
    <3>3. CASE pid \in gone /\ r = [kind |-> "terminated", pid |-> pid, by |-> n]
      <4>1. r.kind = "terminated" /\ pid \notin existing
        BY <1>5, <3>3
      <4>2. reports'[i].kind = r.kind
        BY <3>1
      <4> QED
        BY <4>1, <4>2
    <3> QED
      BY <1>11, <3>1, <3>2, <3>3
  <2>4. ASSUME pid \in existing <=> pid \notin knownPids[n]
        PROVE  ToReport(n, pid)' # {}
    <3>1. \E r \in ToSet(reports') : r.pid = pid
      <4>1. CASE pid \in existing
        <5>1. [kind |-> "created", pid |-> pid, by |-> n] \in ToSet(b)
          BY <1>4, <1>5, <2>4, <4>1
        <5> QED
          BY <1>7, <5>1
      <4>2. CASE pid \notin existing
        <5>1. [kind |-> "terminated", pid |-> pid, by |-> n] \in ToSet(d)
          BY <1>4, <1>5, <2>4, <4>2
        <5> QED
          BY <1>7, <5>1
      <4> QED
        BY <4>1, <4>2
    <3> QED
      BY <1>8, <3>1 DEF ToReport, ToSet
  <2>5. (pid \in existing <=> pid \in knownPids[n]) => ToReport(n, pid)' = {}
    BY <1>5, <1>11, <2>1
  <2> QED
    BY <2>2, <2>3, <2>4, <2>5
<1>13. knownPids'[n] = existing
  BY <1>1
<1>14. ReportsToCome'
  BY <1>10, <1>12, <1>13 DEF ReportsToCome
<1>15. ASSUME NEW pid \in MonitoredPids, NEW m \in Monitors, NEW number \in Nat, AllAreTold(m, pid, number)
       PROVE  AllAreTold(m, pid, number)'
  <2>1. ASSUME NEW c PROVE Said(c, m, pid)' = Said(c, m, pid)
    BY <1>1 DEF Said
  <2>2. ASSUME NEW c \in Channels
        PROVE  /\ ~HasHeard(c, m, pid) /\ ~HasHeard(c, m, pid)'
               /\ InTurns(c, m, pid) => InTurns(c, m, pid)'
    <3>1. told = 0 /\ told' = 0 /\ 1..0 = {}
      BY <1>1
    <3>2. ~HasHeard(c, m, pid) /\ ~HasHeard(c, m, pid)'
      BY <3>1 DEF HasHeard
    <3> QED
      BY <1>1, <2>1, <3>2 DEF InTurns
  <2>3. IsOdd(number) <=> (pid \in knownPids'[m] <=> ToReport(m, pid)' = {})
    <3>1. ToReport(m, pid) = {} /\ (IsOdd(number) <=> pid \in knownPids[m])
      BY <1>1, <1>15 DEF AllAreTold, ToReport
    <3> QED
      BY <1>10, <1>12, <1>13, <3>1
  <2> QED
    BY <1>15, <2>1, <2>2, <2>3 DEF AllAreTold
<1> QED
  BY <1>9, <1>14, <1>15 DEF TrackingInv, ToldTheSame

\* Of the report in hand, if it is about a process.
LEMMA InHandFacts ==
    ASSUME TrackingAssumption, TrackingInv, reports # <<>>
    PROVE  /\ reports \in Seq(ReportsMade) /\ Head(reports) = reports[1] /\ reports[1] \in ReportsMade
           /\ reports[1].pid \in MonitoredPids =>
                 /\ Outlets[reports[1].kind] = <<"bus", "timeline", "index">>
                 /\ Outlets["created"] = <<"bus", "timeline", "index">>
                 /\ 1 \in ToReport(reports[1].by, reports[1].pid)
                 /\ reports[1].kind = IF reports[1].pid \in knownPids[reports[1].by]
                                      THEN "created" ELSE "terminated"
<1>1. /\ reports \in Seq(ReportsMade) /\ Head(reports) = reports[1] /\ reports[1] \in ReportsMade
      /\ 1 \in DOMAIN reports
  BY HeadTailFacts DEF TrackingInv, TrackingTypes
<1>2. ASSUME reports[1].pid \in MonitoredPids
      PROVE  /\ 1 \in ToReport(reports[1].by, reports[1].pid)
             /\ reports[1].kind = IF reports[1].pid \in knownPids[reports[1].by]
                                  THEN "created" ELSE "terminated"
  <2>1. 1 \in ToReport(reports[1].by, reports[1].pid) /\ reports[1].by \in Monitors
    BY <1>1 DEF ToReport, ReportsMade
  <2> QED
    BY <1>2, <2>1 DEF TrackingInv, ReportsToCome
<1>3. Outlets["created"] = <<"bus", "timeline", "index">> /\ Outlets["terminated"] = <<"bus", "timeline", "index">>
  BY DEF Outlets
<1> QED
  BY <1>1, <1>2, <1>3

LEMMA TellKeeps ==
    ASSUME TrackingAssumption, TrackingInv, Tell
    PROVE  TrackingInv'
<1>. PICK r : r = reports[1]
  OBVIOUS
<1>. PICK to : to = Outlets[r.kind][told + 1]
  OBVIOUS
<1>1. /\ reports # <<>> /\ told < Len(Outlets[r.kind]) /\ told' = told + 1 /\ told \in Nat
      /\ sent' = [sent EXCEPT ![to] = Append(@, r)]
      /\ UNCHANGED <<existing, knownPids, reporting, reports>>
      /\ TrackingTypes /\ LoopRules /\ ReportsToCome /\ ToldTheSame
  <2>1. reports # <<>> => Head(reports) = r
    BY InHandFacts
  <2> QED
    BY <2>1 DEF Tell, TrackingInv, TrackingTypes
<1>2. /\ r \in ReportsMade
      /\ r.pid \in MonitoredPids =>
            /\ Outlets[r.kind] = <<"bus", "timeline", "index">> /\ Outlets["created"] = Outlets[r.kind]
            /\ 1 \in ToReport(r.by, r.pid)
            /\ r.kind = IF r.pid \in knownPids[r.by] THEN "created" ELSE "terminated"
  BY <1>1, InHandFacts
<1>3. ASSUME NEW c \in Channels
      PROVE  /\ sent[c] \in Seq(ReportsMade) /\ Len(sent[c]) \in Nat /\ DOMAIN sent[c] = 1..Len(sent[c])
             /\ sent'[c] = IF c = to THEN Append(sent[c], r) ELSE sent[c]
             /\ DOMAIN Append(sent[c], r) = 1..Len(sent[c]) + 1
             /\ Append(sent[c], r) \in Seq(ReportsMade)
             /\ Append(sent[c], r)[Len(sent[c]) + 1] = r
             /\ \A i \in 1..Len(sent[c]) : Append(sent[c], r)[i] = sent[c][i]
  <2>1. sent[c] \in Seq(ReportsMade) /\ sent'[c] = IF c = to THEN Append(sent[c], r) ELSE sent[c]
    BY <1>1 DEF TrackingTypes
  <2> QED
    BY <1>2, <2>1, AppendFacts
<1>4. TrackingTypes' /\ LoopRules' /\ ReportsToCome'
  <2>1. sent' \in [Channels -> Seq(ReportsMade)]
    <3>1. DOMAIN sent' = Channels /\ sent' = [c \in DOMAIN sent' |-> sent'[c]]
      BY <1>1 DEF TrackingTypes
    <3> QED
      BY <1>3, <3>1
  <2>2. \A m, pid : ToReport(m, pid)' = ToReport(m, pid)
    BY <1>1 DEF ToReport
  <2> QED
    BY <1>1, <2>1, <2>2 DEF TrackingTypes, LoopRules, ReportsToCome
<1>5. ASSUME NEW c \in Channels, NEW n, NEW pid, c # to \/ n # r.by \/ pid # r.pid
      PROVE  /\ Said(c, n, pid)' = Said(c, n, pid)
             /\ InTurns(c, n, pid) => InTurns(c, n, pid)'
  <2>1. Said(c, n, pid)' = Said(c, n, pid) /\ \A i \in Said(c, n, pid) : sent'[c][i] = sent[c][i]
    <3>1. CASE c = to
      <4>1. DOMAIN sent'[c] = 1..Len(sent[c]) + 1 /\ sent'[c][Len(sent[c]) + 1] = r
            /\ \A i \in 1..Len(sent[c]) : sent'[c][i] = sent[c][i]
        <5>1. PICK q : q = Append(sent[c], r)
          OBVIOUS
        <5>2. sent'[c] = q
          BY <1>3, <3>1, <5>1
        <5> QED
          BY <1>3, <5>1, <5>2
      <4>2. n # r.by \/ pid # r.pid
        BY <1>5, <3>1
      <4>3. PICK last \in Nat : last = Len(sent[c]) /\ DOMAIN sent[c] = 1..last
        BY <1>3
      <4> QED
        BY <4>1, <4>2, <4>3 DEF Said
    <3>2. CASE c # to
      BY <1>3, <3>2 DEF Said
    <3> QED
      BY <3>1, <3>2
  <2> QED
    BY <2>1 DEF InTurns
<1>6. ASSUME NEW pid \in MonitoredPids, NEW n \in Monitors, NEW number \in Nat, AllAreTold(n, pid, number)
      PROVE  AllAreTold(n, pid, number)'
  <2>1. IsOdd(number) <=> (pid \in knownPids[n] <=> ToReport(n, pid) = {})
    BY <1>6 DEF AllAreTold
  <2>2. (IsOdd(number) <=> (pid \in knownPids[n] <=> ToReport(n, pid) = {}))'
    BY <1>1, <2>1 DEF ToReport
  <2> SUFFICES ASSUME NEW c \in Channels
               PROVE  /\ Cardinality(Said(c, n, pid)') = number + (IF HasHeard(c, n, pid)' THEN 1 ELSE 0)
                      /\ InTurns(c, n, pid)'
    BY <2>2 DEF AllAreTold
  <2>3. Cardinality(Said(c, n, pid)) = number + (IF HasHeard(c, n, pid) THEN 1 ELSE 0) /\ InTurns(c, n, pid)
    BY <1>6 DEF AllAreTold
  <2>4. CASE n # r.by \/ pid # r.pid
    <3>1. ~HasHeard(c, n, pid) /\ ~HasHeard(c, n, pid)'
      BY <1>1, <2>4 DEF HasHeard, InHand
    <3> QED
      BY <1>5, <2>3, <2>4, <3>1
  <2>5. CASE n = r.by /\ pid = r.pid
    <3>1. /\ told \in 0..2 /\ Outlets["created"] = <<"bus", "timeline", "index">>
          /\ to = Outlets["created"][told + 1]
      BY <1>1, <1>2, <2>5
    <3>2. InHand(n, pid) /\ InHand(n, pid)'
      BY <1>1, <2>5 DEF InHand
    <3>3. CASE c # to
      <4>1. HasHeard(c, n, pid)' <=> HasHeard(c, n, pid)
        BY <1>1, <3>1, <3>2, <3>3 DEF HasHeard
      <4> QED
        BY <1>5, <2>3, <3>3, <4>1
    <3>4. CASE c = to
      <4>1. ~HasHeard(c, n, pid) /\ HasHeard(c, n, pid)'
        BY <1>1, <3>1, <3>2, <3>4 DEF HasHeard
      <4>2. PICK last \in Nat : last = Len(sent[c])
        BY <1>3
      <4>3. /\ DOMAIN sent[c] = 1..last /\ DOMAIN sent'[c] = 1..last + 1 /\ sent'[c][last + 1] = r
            /\ \A i \in 1..last : sent'[c][i] = sent[c][i]
        <5>1. PICK q : q = Append(sent[c], r)
          OBVIOUS
        <5>2. sent'[c] = q
          BY <1>3, <3>4, <5>1
        <5> QED
          BY <1>3, <4>2, <5>1, <5>2
      <4>4. /\ Said(c, n, pid)' = Said(c, n, pid) \cup {last + 1} /\ Said(c, n, pid) \subseteq 1..last
        BY <2>5, <4>3 DEF Said
      <4>5. Cardinality(Said(c, n, pid)') = number + 1
        <5>1. IsFiniteSet(Said(c, n, pid)) /\ last + 1 \notin Said(c, n, pid)
          BY <1>1, <4>4, SaidIsFinite
        <5>2. Cardinality(Said(c, n, pid)) = number
          BY <2>3, <4>1
        <5>3. Cardinality(Said(c, n, pid) \cup {last + 1}) = Cardinality(Said(c, n, pid)) + 1
          BY <5>1, FS_AddElement
        <5> QED
          BY <4>4, <5>2, <5>3
      <4>6. r.kind = IF IsOdd(number) THEN "terminated" ELSE "created"
        <5>1. ToReport(n, pid) # {}
          BY <1>2, <2>5
        <5> QED
          BY <1>2, <2>1, <2>5, <5>1
      <4>7. ASSUME NEW i \in Said(c, n, pid)'
            PROVE  sent'[c][i].kind = IF IsOdd(Cardinality({j \in Said(c, n, pid)' : j < i}))
                                      THEN "terminated" ELSE "created"
        <5>1. CASE i = last + 1
          <6>1. {j \in Said(c, n, pid)' : j < i} = Said(c, n, pid)
            BY <4>4, <5>1
          <6>2. Cardinality(Said(c, n, pid)) = number
            BY <2>3, <4>1
          <6> QED
            BY <4>3, <4>6, <5>1, <6>1, <6>2
        <5>2. CASE i \in Said(c, n, pid)
          <6>1. {j \in Said(c, n, pid)' : j < i} = {j \in Said(c, n, pid) : j < i}
            BY <4>4, <5>2
          <6> QED
            BY <2>3, <4>3, <4>4, <5>2, <6>1 DEF InTurns
        <5> QED
          BY <4>4, <5>1, <5>2
      <4> QED
        BY <4>1, <4>5, <4>7 DEF InTurns
    <3> QED
      BY <3>3, <3>4
  <2> QED
    BY <2>4, <2>5
<1> QED
  BY <1>1, <1>4, <1>6 DEF TrackingInv, ToldTheSame

LEMMA NextReportKeeps ==
    ASSUME TrackingAssumption, TrackingInv, NextReport
    PROVE  TrackingInv'
<1>. PICK r : r = reports[1]
  OBVIOUS
<1>1. /\ reports # <<>> /\ told = Len(Outlets[r.kind]) /\ told' = 0 /\ reports' = Tail(reports)
      /\ UNCHANGED <<existing, knownPids, reporting, sent>>
      /\ TrackingTypes /\ LoopRules /\ ReportsToCome /\ ToldTheSame
  <2>1. reports # <<>> => Head(reports) = r
    BY InHandFacts
  <2> QED
    BY <2>1 DEF NextReport, TrackingInv
<1>2. PICK k \in Nat : /\ reports \in Seq(ReportsMade) /\ reports' \in Seq(ReportsMade)
                       /\ DOMAIN reports = 1..k + 1 /\ DOMAIN reports' = 1..k
                       /\ \A i \in 1..k : reports'[i] = reports[i + 1]
  <2>1. reports \in Seq(ReportsMade)
    BY <1>1 DEF TrackingTypes
  <2>2. /\ reports' \in Seq(ReportsMade) /\ Len(reports) \in Nat /\ Len(reports) >= 1
        /\ Len(reports') = Len(reports) - 1
        /\ \A i \in 1..Len(reports) - 1 : reports'[i] = reports[i + 1]
    BY <1>1, <2>1, HeadTailFacts
  <2>3. Len(reports) - 1 \in Nat /\ Len(reports) - 1 + 1 = Len(reports)
    BY <2>2
  <2> QED
    BY <2>1, <2>2, <2>3
<1>3. r \in ReportsMade /\ r = reports[1] /\ r.by = reporting
  <2>1. 1 \in DOMAIN reports
    BY <1>2
  <2> QED
    BY <1>1, <1>2, <2>1, InHandFacts DEF LoopRules
<1>4. TrackingTypes' /\ LoopRules'
  <2>1. \A i \in 1..k : i + 1 \in DOMAIN reports /\ reports'[i].by = reporting
    BY <1>1, <1>2 DEF LoopRules
  <2> QED
    BY <1>1, <1>2, <2>1 DEF TrackingTypes, LoopRules
<1>5. ASSUME NEW n, NEW pid
      PROVE  /\ \A i \in ToReport(n, pid)' : i + 1 \in ToReport(n, pid) /\ i \in 1..k
             /\ \A i \in ToReport(n, pid) : i \in Nat /\ (i = 1 \/ i - 1 \in ToReport(n, pid)')
             /\ 1 \in ToReport(n, pid) <=> n = r.by /\ pid = r.pid
  BY <1>2, <1>3 DEF ToReport
<1>6. ReportsToCome'
  BY <1>1, <1>2, <1>5 DEF ReportsToCome
<1>7. ASSUME NEW pid \in MonitoredPids, NEW n \in Monitors, NEW number \in Nat, AllAreTold(n, pid, number)
      PROVE  \E count \in Nat : AllAreTold(n, pid, count)'
  <2>1. /\ IsOdd(number) <=> (pid \in knownPids[n] <=> ToReport(n, pid) = {})
        /\ \A i, j \in ToReport(n, pid) : i = j
    BY <1>1, <1>7 DEF AllAreTold, ReportsToCome
  <2>2. ASSUME NEW c \in Channels
        PROVE  /\ ~HasHeard(c, n, pid)' /\ Said(c, n, pid)' = Said(c, n, pid) /\ InTurns(c, n, pid)'
               /\ Cardinality(Said(c, n, pid)) = number + (IF HasHeard(c, n, pid) THEN 1 ELSE 0)
    <3>1. Said(c, n, pid)' = Said(c, n, pid)
      BY <1>1 DEF Said
    <3> QED
      BY <1>1, <1>7, <3>1 DEF HasHeard, InTurns, AllAreTold
  <2>3. CASE n = r.by /\ pid = r.pid
    <3>1. ToReport(n, pid)' = {} /\ ToReport(n, pid) # {}
      <4>1. 1 \in ToReport(n, pid)
        BY <1>5, <2>3
      <4>2. \A i \in ToReport(n, pid)' : i + 1 = 1 /\ i \in 1..k
        BY <1>5, <2>1, <4>1
      <4> QED
        BY <4>1, <4>2
    <3>2. ASSUME NEW c \in Channels PROVE HasHeard(c, n, pid)
      <4>1. told = 3 /\ Outlets["created"] = <<"bus", "timeline", "index">> /\ InHand(n, pid)
        BY <1>1, <2>3, InHandFacts DEF InHand
      <4>2. \E i \in 1..3 : Outlets["created"][i] = c
        BY <4>1 DEF Channels
      <4> QED
        BY <4>1, <4>2 DEF HasHeard
    <3>3. IsOdd(number + 1) <=> ~IsOdd(number)
      BY Parity
    <3>4. AllAreTold(n, pid, number + 1)'
      BY <1>1, <2>1, <2>2, <3>1, <3>2, <3>3 DEF AllAreTold
    <3> QED
      BY <3>4
  <2>4. CASE n # r.by \/ pid # r.pid
    <3>1. ToReport(n, pid)' = {} <=> ToReport(n, pid) = {}
      BY <1>5, <2>4
    <3>2. ASSUME NEW c \in Channels PROVE ~HasHeard(c, n, pid)
      BY <2>4 DEF HasHeard, InHand
    <3>3. AllAreTold(n, pid, number)'
      BY <1>1, <2>1, <2>2, <3>1, <3>2 DEF AllAreTold
    <3> QED
      BY <3>3
  <2> QED
    BY <2>3, <2>4
<1>8. ToldTheSame'
  <2> SUFFICES ASSUME NEW pid \in MonitoredPids, NEW n \in Monitors
               PROVE  \E count \in Nat : AllAreTold(n, pid, count)'
    BY DEF ToldTheSame
  <2>1. PICK number \in Nat : AllAreTold(n, pid, number)
    BY <1>1 DEF ToldTheSame
  <2> QED
    BY <1>7, <2>1
<1> QED
  BY <1>4, <1>6, <1>8 DEF TrackingInv

LEMMA TrackingKeeps ==
    ASSUME TrackingAssumption, TrackingInv, [NextTracking]_trackingVars
    PROVE  TrackingInv'
<1> USE DEF TrackingInv
<1>1. ASSUME NEW pid \in MonitoredPids, Spawn(pid) \/ Exit(pid) PROVE TrackingInv'
  BY <1>1, NothingSaid DEF Spawn, Exit, TrackingTypes
<1>2. ASSUME NEW n \in Monitors, StartMonitoring(n) \/ StopsMonitoring(n) PROVE TrackingInv'
  BY <1>2, NothingSaid DEF StartMonitoring, StopsMonitoring, TrackingTypes
<1>3. ASSUME Deactivate \/ EndTick PROVE TrackingInv'
  BY <1>3, NothingSaid DEF Deactivate, EndTick, TrackingTypes
<1>4. CASE UNCHANGED trackingVars
  BY <1>4, NothingSaid DEF trackingVars, TrackingTypes
<1> QED
  BY <1>1, <1>2, <1>3, <1>4, BeginTickKeeps, TellKeeps, NextReportKeeps DEF NextTracking

LEMMA TrackingShows == TrackingInv => KnownPidsReplay
<1> SUFFICES ASSUME TrackingInv, NEW pid \in MonitoredPids, NEW n \in Monitors, NEW c \in Channels
             PROVE  /\ InTurns(c, n, pid)
                    /\ told = 0 => Cardinality(Said(c, n, pid)) = Cardinality(Said("timeline", n, pid))
                    /\ Cardinality(Said(c, n, pid)) - Cardinality(Said("timeline", n, pid)) \in -1..1
                    /\ reporting # n => (pid \in knownPids[n] <=> IsOdd(Cardinality(Said(c, n, pid))))
  BY DEF KnownPidsReplay, InTurns
<1>1. PICK number \in Nat : AllAreTold(n, pid, number)
  BY DEF TrackingInv, ToldTheSame
<1>2. ASSUME NEW d \in Channels
      PROVE  /\ Cardinality(Said(d, n, pid)) = number + (IF HasHeard(d, n, pid) THEN 1 ELSE 0)
             /\ told = 0 => ~HasHeard(d, n, pid)
  BY <1>1 DEF AllAreTold, HasHeard
<1>3. "timeline" \in Channels
  BY DEF Channels
<1>4. /\ told = 0 => Cardinality(Said(c, n, pid)) = Cardinality(Said("timeline", n, pid))
      /\ Cardinality(Said(c, n, pid)) - Cardinality(Said("timeline", n, pid)) \in -1..1
  BY <1>2, <1>3
<1>5. ASSUME reporting # n
      PROVE  pid \in knownPids[n] <=> IsOdd(Cardinality(Said(c, n, pid)))
  <2>1. \A i \in DOMAIN reports : reports[i].by # n
    BY <1>5 DEF TrackingInv, LoopRules
  <2>2. reports # <<>> => 1 \in DOMAIN reports
    BY DEF TrackingInv, TrackingTypes
  <2>3. ToReport(n, pid) = {} /\ ~HasHeard(c, n, pid)
    BY <2>1, <2>2 DEF ToReport, HasHeard, InHand
  <2>4. Cardinality(Said(c, n, pid)) = number
    BY <1>2, <2>3
  <2> QED
    BY <1>1, <2>3, <2>4 DEF AllAreTold
<1> QED
  BY <1>1, <1>4, <1>5 DEF AllAreTold
-----------------------------------------------------------------------------
(* The reader of a change journal and the live monitor.                      *)
ReaderTypes ==
    /\ IsLayout(data) /\ lo \in Nat /\ hi \in Nat /\ lo <= hi /\ hi <= Length(data)
    /\ returned \in Seq(DOMAIN data)
    /\ reader \in {"closed", "reading", "done"}

\* The search fails on more cells than the reader drops: it fails for ever.
Stuck == reader = "reading" /\ Buffered >= MinBuffer /\ Found = {}

ReturnedInOrder == \A k, l \in DOMAIN returned : k < l => returned[k] < returned[l]

\* The window is behind what has been returned and before the other records.
WindowBetween ==
    /\ \A k \in DOMAIN returned :
          data[returned[k]].kind = "record" /\ data[returned[k]].at + data[returned[k]].len <= lo
    /\ \A i \in DOMAIN data :
          data[i].kind = "record" /\ i \notin ToSet(returned) => lo <= data[i].at \/ Stuck

NoneLeftOut ==
    \A i \in DOMAIN data :
        data[i].kind = "record" /\ (reader = "done" \/ \E k \in DOMAIN returned : i <= returned[k])
        => i \in ToSet(returned)

ReaderInv == ReaderTypes /\ ReturnedInOrder /\ WindowBetween /\ NoneLeftOut

VolumeTypes ==
    /\ IsLayout(volume) /\ watermark \in Nat \ {0} /\ watermark <= Len(volume) + 1
    /\ \A i \in DOMAIN volume : volume[i].kind = "record" /\ volume[i].number = i
    /\ polls \in Nat /\ delivered \in Seq(Nat)

\* The reader is on an answer with the records from w on.
AnswerFrom(w) ==
    /\ data # <<>> /\ data[1].kind = "gap" /\ w + Len(data) <= Len(volume) + 2
    /\ \A i \in DOMAIN data : i > 1 => data[i].kind = "record" /\ data[i].number = w + i - 2
    /\ \A k \in DOMAIN returned : returned[k] = k + 1
    /\ watermark = IF returned = <<>> THEN w ELSE w + Len(returned) - 1

\* Callers have every record up to w, which they may get again.
DeliveredTo(w) ==
    IF delivered = <<>> THEN w = 1
    ELSE delivered[1] = 1 /\ delivered[Len(delivered)] = w /\ ToSet(delivered) = 1..w

NoStepBack == \A k \in 2..Len(delivered) : delivered[k] - delivered[k - 1] \in {0, 1}

MonitorInv ==
    /\ VolumeTypes /\ NoStepBack
    /\ polls = 0 => delivered = <<>> /\ watermark = 1
    /\ polls > 0 => /\ reader # "closed"
                    /\ \E w \in Nat \ {0} :
                          /\ AnswerFrom(w)
                          /\ DeliveredTo(IF reader = "done" THEN watermark ELSE w)

UsnInv == ReaderInv /\ MonitorInv

LEMMA LayoutFacts ==
    ASSUME NEW items, IsLayout(items)
    PROVE  /\ items \in Seq(Items) /\ DOMAIN items = 1..Len(items) /\ Len(items) \in Nat
           /\ \A i \in DOMAIN items : /\ items[i].at \in Nat /\ items[i].len \in Nat
                                      /\ items[i].number \in Nat
                                      /\ items[i].kind \in {"record", "gap"}
                                      /\ items[i].at + items[i].len <= Length(items)
           /\ Length(items) \in Nat
<1>1. items \in Seq(Items) /\ DOMAIN items = 1..Len(items) /\ Len(items) \in Nat
  BY DEF IsLayout
<1>2. \A i \in DOMAIN items : /\ items[i].at \in Nat /\ items[i].len \in Nat
                              /\ items[i].number \in Nat /\ items[i].kind \in {"record", "gap"}
  <2>1. \A i \in DOMAIN items : items[i] \in Items
    BY <1>1
  <2> QED
    BY <2>1 DEF Items
<1>3. CASE items = <<>>
  BY <1>1, <1>2, <1>3 DEF Length
<1>4. CASE items # <<>>
  <2>1. Len(items) \in DOMAIN items /\ Length(items) = items[Len(items)].at + items[Len(items)].len
    BY <1>1, <1>4 DEF Length, Last
  <2>2. ASSUME NEW i \in DOMAIN items PROVE items[i].at + items[i].len <= Length(items)
    <3>1. CASE i = Len(items)
      BY <1>2, <2>1, <3>1
    <3>2. CASE i < Len(items)
      BY <1>2, <2>1, <3>2 DEF IsLayout
    <3> QED
      BY <1>1, <3>1, <3>2
  <2> QED
    BY <1>1, <1>2, <2>1, <2>2
<1> QED
  BY <1>3, <1>4

LEMMA OpenedFacts ==
    ASSUME NEW items, IsLayout(items), Over(items)
    PROVE  ReaderInv'
<1>1. /\ data' = items /\ lo' = 0 /\ hi' = 0 /\ returned' = <<>> /\ reader' = "reading"
      /\ Length(items) \in Nat
  BY LayoutFacts DEF Over
<1>2. ToSet(returned') = {} /\ DOMAIN returned' = {} /\ Length(data') \in Nat
  BY <1>1, NoElements
<1>3. ReaderTypes'
  BY <1>1, <1>2 DEF ReaderTypes
<1>4. \A i \in DOMAIN items : items[i].at >= 0
  BY LayoutFacts
<1> QED
  BY <1>1, <1>2, <1>3, <1>4 DEF ReaderInv, ReturnedInOrder, WindowBetween, NoneLeftOut

LEMMA FillKeeps ==
    ASSUME ReaderInv, Fill
    PROVE  ReaderInv'
<1> DEFINE h == Length(data)
<1>1. /\ lo \in Nat /\ hi \in Nat /\ lo <= hi /\ hi < h /\ h \in Nat /\ hi - lo < MinBuffer
      /\ UNCHANGED <<data, returned, reader>> /\ reader = "reading"
      /\ hi' = Min({hi + Capacity - Overlap, h}) /\ lo' = Max({lo, hi - Overlap})
  BY LayoutFacts DEF ReaderInv, ReaderTypes, Fill, Buffered
<1> HIDE DEF h
<1>2. /\ MinBuffer \in Nat /\ Overlap \in Nat /\ Overlap >= MinBuffer
      /\ Capacity \in Nat /\ Capacity > Overlap
  BY UsnAssumption
<1>3. hi' \in Nat /\ hi <= hi' /\ hi' <= h
  <2> DEFINE S == {hi + Capacity - Overlap, h}
  <2>1. S \subseteq Nat /\ S # {}
    BY <1>1, <1>2
  <2>2. Min(S) \in S /\ \A n \in S : Min(S) <= n
    BY <2>1, LeastIs
  <2> QED
    BY <1>1, <1>2, <2>1, <2>2
<1>4. lo' = lo
  <2>1. \A x \in {lo, hi - Overlap} : lo >= x
    BY <1>1, <1>2
  <2>2. \A x \in {lo, hi - Overlap} : (\A y \in {lo, hi - Overlap} : x >= y) => x = lo
    BY <1>1, <1>2
  <2>3. Max({lo, hi - Overlap}) = lo
    BY <2>1, <2>2 DEF Max
  <2> QED
    BY <1>1, <2>3
<1>5. ~Stuck
  BY <1>1, <1>2 DEF Stuck, Buffered
<1>6. ReaderTypes'
  BY <1>1, <1>3, <1>4 DEF ReaderInv, ReaderTypes, h
<1>7. WindowBetween'
  BY <1>1, <1>4, <1>5 DEF ReaderInv, WindowBetween
<1> QED
  BY <1>1, <1>6, <1>7 DEF ReaderInv, ReturnedInOrder, NoneLeftOut

LEMMA TakenFacts ==
    ASSUME ReaderInv, Take
    PROVE  \E i \in DOMAIN data :
              /\ i = Min(Found) /\ Valid(i) /\ \A j \in Found : i <= j
              /\ returned' = Append(returned, i) /\ lo' = data[i].at + data[i].len
              /\ UNCHANGED <<data, hi, reader>> /\ reader = "reading" /\ ~Stuck
<1>1. Found \subseteq Nat /\ Found # {}
  BY LayoutFacts DEF Take, Found, ReaderInv, ReaderTypes
<1>2. Min(Found) \in Found /\ \A j \in Found : Min(Found) <= j
  BY <1>1, LeastIs
<1> QED
  BY <1>1, <1>2 DEF Take, Found, Stuck, Searching

LEMMA TakeRecordKeeps ==
    ASSUME ReaderInv, Take
    PROVE  ReaderInv'
<1>1. PICK i \in DOMAIN data :
              /\ i = Min(Found) /\ Valid(i) /\ \A j \in Found : i <= j
              /\ returned' = Append(returned, i) /\ lo' = data[i].at + data[i].len
              /\ UNCHANGED <<data, hi, reader>> /\ reader = "reading" /\ ~Stuck
  BY TakenFacts
<1> DEFINE n == Len(returned)
<1>2. /\ returned \in Seq(DOMAIN data) /\ n \in Nat /\ DOMAIN returned = 1..n
      /\ returned' \in Seq(DOMAIN data) /\ DOMAIN returned' = 1..n + 1
      /\ \A k \in 1..n + 1 : returned'[k] = IF k = n + 1 THEN i ELSE returned[k]
      /\ ToSet(returned') = ToSet(returned) \cup {i}
      /\ \A k \in 1..n : returned[k] \in DOMAIN data /\ returned[k] \in ToSet(returned)
  BY <1>1, AppendFacts, ElementsOf DEF ReaderInv, ReaderTypes
<1> HIDE DEF n
<1>3. /\ \A j \in DOMAIN data : data[j].at \in Nat /\ data[j].len \in Nat /\ j \in Nat
      /\ DOMAIN data = 1..Len(data)
      /\ lo \in Nat /\ hi \in Nat /\ MinBuffer \in Nat \ {0}
      /\ \A j, k \in DOMAIN data : j < k => data[j].at + data[j].len <= data[k].at
      /\ \A j \in DOMAIN data : data[j].kind = "record" => data[j].len >= MinBuffer
  BY LayoutFacts, UsnAssumption DEF ReaderInv, ReaderTypes, IsLayout
<1>4. /\ data[i].kind = "record" /\ lo <= data[i].at /\ data[i].at + data[i].len <= hi
      /\ lo' \in Nat /\ lo < lo' /\ lo' <= hi
  BY <1>1, <1>3 DEF Valid
<1>5. ASSUME NEW k \in 1..n
      PROVE  /\ returned[k] < i /\ data[returned[k]].kind = "record"
             /\ data[returned[k]].at + data[returned[k]].len <= lo
  <2>1. data[returned[k]].kind = "record" /\ data[returned[k]].at + data[returned[k]].len <= lo
    BY <1>2 DEF ReaderInv, WindowBetween
  <2>2. PICK r \in DOMAIN data : r = returned[k]
    BY <1>2
  <2>3. /\ data[r].at \in Nat /\ data[r].len \in Nat /\ r \in Nat
        /\ data[i].at \in Nat /\ data[i].len \in Nat /\ i \in Nat
        /\ (i < r => data[i].at + data[i].len <= data[r].at)
    BY <1>3
  <2>4. data[i].len >= MinBuffer
    BY <1>3, <1>4
  <2>5. /\ data[r].at + data[r].len <= lo /\ lo <= data[i].at /\ lo \in Nat
        /\ MinBuffer > 0 /\ MinBuffer \in Nat
    BY <1>3, <1>4, <2>1, <2>2
  <2>6. data[r].at + data[r].len < data[i].at + data[i].len
    BY <2>3, <2>4, <2>5
  <2>7. r < i
    BY <2>3, <2>6
  <2> QED
    BY <2>1, <2>2, <2>7
<1>6. ASSUME NEW j \in DOMAIN data, data[j].kind = "record", j \notin ToSet(returned), j # i
      PROVE  i < j
  <2>1. lo <= data[j].at
    BY <1>1, <1>6 DEF ReaderInv, WindowBetween
  <2>2. CASE j < i
    <3>1. data[j].at + data[j].len <= data[i].at /\ data[j].len >= MinBuffer
      BY <1>3, <1>6, <2>2
    <3>2. data[j].at + data[j].len <= hi /\ data[j].at + MinBuffer <= hi
      <4>1. /\ data[j].at \in Nat /\ data[j].len \in Nat
            /\ data[i].at \in Nat /\ data[i].len \in Nat /\ hi \in Nat /\ MinBuffer \in Nat
        BY <1>3
      <4> QED
        BY <1>4, <3>1, <4>1
    <3>3. j \in Found
      BY <1>6, <2>1, <3>2 DEF Found, Valid
    <3> QED
      BY <1>1, <1>3, <2>2, <3>3
  <2> QED
    BY <1>3, <1>6, <2>2
<1>7. ReaderTypes'
  BY <1>1, <1>2, <1>4 DEF ReaderInv, ReaderTypes
<1>8. ReturnedInOrder'
  <2>1. ASSUME NEW k \in 1..n + 1, NEW l \in 1..n + 1, k < l PROVE returned'[k] < returned'[l]
    <3>1. k \in 1..n /\ returned'[k] = returned[k]
      BY <1>2, <2>1
    <3>2. CASE l = n + 1
      BY <1>2, <1>5, <3>1, <3>2
    <3>3. CASE l # n + 1
      <4>1. l \in 1..n /\ returned'[l] = returned[l]
        BY <1>2, <3>3
      <4> QED
        BY <1>2, <2>1, <3>1, <4>1 DEF ReaderInv, ReturnedInOrder
    <3> QED
      BY <3>2, <3>3
  <2> QED
    BY <1>2, <2>1 DEF ReturnedInOrder
<1>9. WindowBetween'
  <2>1. ASSUME NEW k \in 1..n + 1
        PROVE  /\ data[returned'[k]].kind = "record"
               /\ data[returned'[k]].at + data[returned'[k]].len <= lo'
    <3>1. CASE k = n + 1
      <4>1. returned'[k] = i
        BY <1>2, <3>1
      <4>2. data[i].at + data[i].len <= lo'
        BY <1>1, <1>4
      <4> QED
        BY <1>4, <4>1, <4>2
    <3>2. CASE k # n + 1
      <4>1. k \in 1..n /\ returned'[k] = returned[k] /\ returned[k] \in DOMAIN data
        BY <1>2, <3>2
      <4> QED
        <5>1. PICK r \in DOMAIN data : r = returned[k]
          BY <4>1
        <5>2. data[r].kind = "record" /\ data[r].at + data[r].len <= lo
          BY <1>5, <4>1, <5>1
        <5>3. data[r].at + data[r].len \in Nat /\ lo \in Nat
          BY <1>3
        <5>4. data[r].at + data[r].len <= lo'
          BY <1>4, <5>2, <5>3
        <5> QED
          BY <4>1, <5>1, <5>2, <5>4
    <3> QED
      BY <3>1, <3>2
  <2>2. ASSUME NEW j \in DOMAIN data, data[j].kind = "record", j \notin ToSet(returned')
        PROVE  lo' <= data[j].at
    <3>1. i < j
      BY <1>2, <1>6, <2>2
    <3> QED
      BY <1>1, <1>3, <3>1
  <2> QED
    BY <1>1, <1>2, <2>1, <2>2 DEF WindowBetween
<1>10. NoneLeftOut'
  <2>1. ASSUME NEW j \in DOMAIN data, data[j].kind = "record",
               NEW k \in 1..n + 1, j <= returned'[k]
        PROVE  j \in ToSet(returned')
    <3>1. returned'[k] \in Nat /\ returned'[k] <= i
      <4>1. CASE k = n + 1
        BY <1>2, <1>3, <4>1
      <4>2. CASE k # n + 1
        <5>1. k \in 1..n /\ returned'[k] = returned[k] /\ returned[k] \in DOMAIN data
          BY <1>2, <4>2
        <5> QED
          BY <1>3, <1>5, <5>1
      <4> QED
        BY <4>1, <4>2
    <3>2. j <= i
      BY <1>3, <2>1, <3>1
    <3> QED
      BY <1>2, <1>3, <1>6, <2>1, <3>2
  <2> QED
    BY <1>1, <1>2, <2>1 DEF NoneLeftOut
<1> QED
  BY <1>7, <1>8, <1>9, <1>10 DEF ReaderInv

LEMMA SkipGapSticks ==
    ASSUME ReaderInv, SkipGap
    PROVE  /\ Stuck' /\ lo' \in Nat /\ lo <= lo' /\ hi - lo' >= MinBuffer
           /\ UNCHANGED <<data, hi, returned, reader>> /\ reader = "reading"
           /\ lo \in Nat /\ hi \in Nat /\ MinBuffer \in Nat \ {0}
<1>1. /\ lo \in Nat /\ hi \in Nat /\ hi - lo >= MinBuffer /\ Found = {}
      /\ UNCHANGED <<data, hi, returned, reader>> /\ reader = "reading"
      /\ lo' = Max({lo, hi - Overlap}) /\ MinBuffer \in Nat \ {0} /\ Overlap \in Nat
      /\ Overlap >= MinBuffer
  BY UsnAssumption DEF ReaderInv, ReaderTypes, SkipGap, Searching, Buffered
<1>2. lo' \in Nat /\ lo <= lo' /\ hi - lo' >= MinBuffer
  <2>1. \E x \in {lo, hi - Overlap} : \A y \in {lo, hi - Overlap} : x >= y
    BY <1>1
  <2>2. lo' \in {lo, hi - Overlap} /\ \A y \in {lo, hi - Overlap} : lo' >= y
    BY <1>1, <2>1 DEF Max
  <2> QED
    BY <1>1, <2>2
<1>3. Found' = {}
  <2>1. ASSUME NEW i \in DOMAIN data, Valid(i)' PROVE FALSE
    <3>1. data[i].at \in Nat
      BY LayoutFacts DEF ReaderInv, ReaderTypes
    <3>2. Valid(i)
      BY <1>1, <1>2, <2>1, <3>1 DEF Valid
    <3> QED
      BY <1>1, <3>2 DEF Found
  <2> QED
    BY <1>1, <2>1 DEF Found
<1>4. Stuck'
  BY <1>1, <1>2, <1>3 DEF Stuck, Buffered
<1> QED
  BY <1>1, <1>2, <1>4

LEMMA SkipGapKeeps ==
    ASSUME ReaderInv, SkipGap
    PROVE  ReaderInv'
<1>1. /\ Stuck' /\ lo' \in Nat /\ lo <= lo' /\ hi - lo' >= MinBuffer
      /\ UNCHANGED <<data, hi, returned, reader>> /\ reader = "reading"
      /\ lo \in Nat /\ hi \in Nat /\ MinBuffer \in Nat \ {0}
  BY SkipGapSticks
<1>2. ReaderTypes'
  <2>1. lo' <= hi'
    <3>1. hi' = hi
      BY <1>1
    <3>2. ASSUME NEW l \in Nat, hi - l >= MinBuffer PROVE l <= hi
      BY <1>1, <3>2
    <3> QED
      BY <1>1, <3>1, <3>2
  <2>2. IsLayout(data') /\ hi' \in Nat /\ lo' \in Nat /\ reader' = "reading"
    BY <1>1 DEF ReaderInv, ReaderTypes
  <2> QED
    BY <1>1, <2>1, <2>2 DEF ReaderInv, ReaderTypes
<1>3. \A k \in DOMAIN returned : data[returned[k]].at + data[returned[k]].len <= lo'
  <2> SUFFICES ASSUME NEW k \in DOMAIN returned
               PROVE  data[returned[k]].at + data[returned[k]].len <= lo'
    OBVIOUS
  <2>1. returned[k] \in DOMAIN data
    BY DEF ReaderInv, ReaderTypes
  <2>2. data[returned[k]].at \in Nat /\ data[returned[k]].len \in Nat
    BY <2>1, LayoutFacts DEF ReaderInv, ReaderTypes
  <2>3. data[returned[k]].at + data[returned[k]].len <= lo
    BY DEF ReaderInv, WindowBetween
  <2> QED
    BY <1>1, <2>2, <2>3
<1>4. WindowBetween'
  BY <1>1, <1>3 DEF ReaderInv, WindowBetween
<1> QED
  BY <1>1, <1>2, <1>4 DEF ReaderInv, ReturnedInOrder, NoneLeftOut

LEMMA EndOfDataKeeps ==
    ASSUME ReaderInv, EndOfData
    PROVE  ReaderInv'
<1>1. /\ lo \in Nat /\ hi \in Nat /\ hi - lo < MinBuffer /\ hi = Length(data)
      /\ UNCHANGED <<data, lo, hi, returned>> /\ reader' = "done"
      /\ MinBuffer \in Nat \ {0} /\ ~Stuck /\ IsLayout(data)
  BY UsnAssumption DEF ReaderInv, ReaderTypes, EndOfData, Buffered, Stuck
<1>2. ASSUME NEW i \in DOMAIN data, data[i].kind = "record" PROVE i \in ToSet(returned)
  <2>1. /\ data[i].at \in Nat /\ data[i].len \in Nat /\ data[i].len >= MinBuffer
        /\ data[i].at + data[i].len <= hi
    BY <1>1, <1>2, LayoutFacts DEF IsLayout
  <2>2. ~(lo <= data[i].at)
    BY <1>1, <2>1
  <2> QED
    BY <1>1, <1>2, <2>2 DEF ReaderInv, WindowBetween
<1>3. ReaderTypes'
  BY <1>1 DEF ReaderInv, ReaderTypes
<1>4. WindowBetween'
  BY <1>1, <1>2 DEF ReaderInv, WindowBetween
<1> QED
  BY <1>1, <1>2, <1>3, <1>4 DEF ReaderInv, ReturnedInOrder, NoneLeftOut

LEMMA UptoFacts ==
    ASSUME VolumeTypes, NEW n \in watermark - 1..Len(volume)
    PROVE  /\ IsLayout(Upto(n)) /\ Len(Upto(n)) = n - watermark + 2
           /\ Upto(n)[1] = Gap(0, 1)
           /\ \A i \in 2..n - watermark + 2 :
                 Upto(n)[i].kind = "record" /\ Upto(n)[i].number = watermark + i - 2
<1> DEFINE w == watermark
           m == n - w + 1
           Part(k) == LET r == volume[StartUsn + k - 1]
                      IN  Record(r.number, 1 + r.at - volume[StartUsn].at, r.len)
           bundle == [k \in 1..n - StartUsn + 1 |-> Part(k)]
<1>1. /\ w \in Nat \ {0} /\ m \in Nat /\ Len(volume) \in Nat /\ n \in Nat
      /\ w - 1 <= n /\ n <= Len(volume) /\ DOMAIN volume = 1..Len(volume)
      /\ n - w + 2 = m + 1
  <2>1. w \in Nat \ {0} /\ DOMAIN volume = 1..Len(volume) /\ Len(volume) \in Nat
    BY LayoutFacts DEF VolumeTypes
  <2> QED
    BY <2>1
<1>2. /\ \A i \in DOMAIN volume : /\ volume[i].at \in Nat /\ volume[i].len \in Nat
                                   /\ volume[i].len >= MinBuffer /\ volume[i].number = i
      /\ \A i, j \in DOMAIN volume : i < j => volume[i].at + volume[i].len <= volume[j].at
  BY LayoutFacts DEF VolumeTypes, IsLayout
<1>3. ASSUME NEW k \in 1..m
      PROVE  \E x \in Nat, y \in Nat :
                /\ volume[w + k - 1].at = x /\ volume[w].at = y /\ y <= x
                /\ w + k - 1 \in DOMAIN volume /\ w \in DOMAIN volume
                /\ k \in Nat /\ k >= 1
                /\ volume[w + k - 1].len \in Nat /\ volume[w + k - 1].len >= MinBuffer
  <2>1. w + k - 1 \in DOMAIN volume /\ w \in DOMAIN volume /\ k \in Nat /\ k >= 1
    BY <1>1
  <2>2. PICK x \in Nat, y \in Nat, z \in Nat :
            volume[w + k - 1].at = x /\ volume[w].at = y /\ volume[w].len = z
    BY <1>2, <2>1
  <2>3. y <= x
    <3>1. CASE k = 1
      BY <1>1, <2>2, <3>1
    <3>2. CASE k # 1
      <4>1. w < w + k - 1
        BY <1>1, <2>1, <3>2
      <4>2. y + z <= x
        BY <1>2, <2>1, <2>2, <4>1
      <4> QED
        BY <2>2, <4>2
    <3> QED
      BY <3>1, <3>2
  <2> QED
    BY <1>2, <2>1, <2>2, <2>3
<1>4. ASSUME NEW k \in 1..m
      PROVE  /\ Part(k) \in Items /\ Part(k).kind = "record" /\ Part(k).number = w + k - 1
             /\ Part(k).at = 1 + volume[w + k - 1].at - volume[w].at /\ Part(k).at \in Nat
             /\ Part(k).at >= 1
             /\ Part(k).len = volume[w + k - 1].len /\ Part(k).len \in Nat
             /\ Part(k).len >= MinBuffer
  <2>1. PICK x \in Nat, y \in Nat :
                /\ volume[w + k - 1].at = x /\ volume[w].at = y /\ y <= x
                /\ w + k - 1 \in DOMAIN volume /\ w \in DOMAIN volume
                /\ k \in Nat /\ k >= 1
                /\ volume[w + k - 1].len \in Nat /\ volume[w + k - 1].len >= MinBuffer
    BY <1>3
  <2>2. 1 + x - y \in Nat /\ 1 + x - y >= 1 /\ volume[w + k - 1].number = w + k - 1
    BY <1>2, <2>1
  <2>3. Part(k) = Record(w + k - 1, 1 + x - y, volume[w + k - 1].len)
    BY <2>1, <2>2 DEF StartUsn
  <2>4. w + k - 1 \in Nat
    BY <1>1, <2>1
  <2> QED
    BY <2>1, <2>2, <2>3, <2>4 DEF Record, Items
<1> HIDE DEF Part
<1>5. Upto(n) = <<Gap(0, 1)>> \o bundle
  BY DEF Upto, Part
<1>6. bundle \in Seq(Items) /\ Len(bundle) = m /\ \A k \in 1..m : bundle[k] = Part(k)
  <2>1. bundle = [k \in 1..m |-> Part(k)]
    BY DEF StartUsn
  <2> HIDE DEF bundle
  <2>2. bundle \in [1..m -> Items]
    BY <1>4, <2>1
  <2> QED
    BY <1>1, <2>1, <2>2
<1> HIDE DEF bundle
<1>7. <<Gap(0, 1)>> \in Seq(Items) /\ Len(<<Gap(0, 1)>>) = 1
  BY DEF Gap, Items
<1> DEFINE u == Upto(n)
<1>8. /\ u \in Seq(Items) /\ Len(u) = m + 1 /\ u[1] = Gap(0, 1)
      /\ \A k \in 1..m : u[1 + k] = Part(k)
  BY <1>1, <1>5, <1>6, <1>7, ConcatFacts
<1> HIDE DEF u, m
<1>9. ASSUME NEW i \in 2..m + 1 PROVE i - 1 \in 1..m /\ u[i] = Part(i - 1)
  <2>1. i - 1 \in 1..m /\ 1 + (i - 1) = i
    BY <1>1
  <2> QED
    BY <1>8, <2>1
<1>10. ASSUME NEW i \in 1..m + 1, NEW j \in 1..m + 1, i < j
       PROVE  u[i].at + u[i].len <= u[j].at
  <2>1. j \in 2..m + 1 /\ j - 1 \in 1..m /\ u[j] = Part(j - 1)
    <3>1. j \in 2..m + 1
      BY <1>1, <1>10
    <3> QED
      BY <1>9, <3>1
  <2>2. CASE i = 1
    BY <1>4, <1>8, <2>1, <2>2 DEF Gap
  <2>3. CASE i # 1
    <3>1. i \in 2..m + 1
      BY <1>1, <2>3
    <3>2. i - 1 \in 1..m /\ u[i] = Part(i - 1)
      BY <1>9, <3>1
    <3>3. PICK x \in Nat, y \in Nat :
             /\ volume[w + (i - 1) - 1].at = x /\ volume[w].at = y
             /\ w + (i - 1) - 1 \in DOMAIN volume
      BY <1>3, <3>2
    <3>4. PICK v \in Nat :
             /\ volume[w + (j - 1) - 1].at = v /\ w + (j - 1) - 1 \in DOMAIN volume
      BY <1>3, <2>1
    <3>5. PICK l \in Nat : volume[w + (i - 1) - 1].len = l
      BY <1>2, <3>3
    <3>6. w + (i - 1) - 1 < w + (j - 1) - 1
      BY <1>1, <1>10, <3>1
    <3>7. x + l <= v
      BY <1>2, <3>3, <3>4, <3>5, <3>6
    <3>8. u[i].at = 1 + x - y /\ u[i].len = l /\ u[j].at = 1 + v - y
      BY <1>4, <2>1, <3>2, <3>3, <3>4, <3>5
    <3> QED
      BY <3>3, <3>4, <3>5, <3>7, <3>8
  <2> QED
    BY <2>2, <2>3
<1>11. ASSUME NEW i \in 1..m + 1, u[i].kind = "record" PROVE u[i].len >= MinBuffer
  <2>1. i # 1
    BY <1>8, <1>11 DEF Gap
  <2>2. i \in 2..m + 1
    BY <1>1, <2>1
  <2> QED
    BY <1>4, <1>9, <2>2
<1>12. IsLayout(u)
  BY <1>1, <1>8, <1>10, <1>11 DEF IsLayout
<1>13. ASSUME NEW i \in 2..m + 1 PROVE u[i].kind = "record" /\ u[i].number = w + i - 2
  <2>1. i \in Nat /\ w + (i - 1) - 1 = w + i - 2
    BY <1>1
  <2> QED
    BY <1>4, <1>9, <2>1
<1> QED
  BY <1>1, <1>8, <1>12, <1>13 DEF u, m

LEMMA AnswerFacts ==
    ASSUME VolumeTypes
    PROVE  /\ IsLayout(Answer) /\ Answer # <<>> /\ Answer[1].kind = "gap"
           /\ watermark + Len(Answer) <= Len(volume) + 2
           /\ \A i \in DOMAIN Answer : i > 1 =>
                 Answer[i].kind = "record" /\ Answer[i].number = watermark + i - 2
<1> DEFINE S == {n \in StartUsn - 1..Len(volume) : Length(Upto(n)) <= OutputSize}
<1>1. /\ watermark \in Nat \ {0} /\ Len(volume) \in Nat /\ watermark <= Len(volume) + 1
      /\ StartUsn = watermark /\ OutputSize \in Nat \ {0}
  BY LayoutFacts, UsnAssumption DEF VolumeTypes, StartUsn
<1>2. watermark - 1 \in S
  <2>1. watermark - 1 \in watermark - 1..Len(volume)
    BY <1>1
  <2>2. PICK n \in watermark - 1..Len(volume) : n = watermark - 1
    BY <2>1
  <2>3. Len(Upto(n)) = 1 /\ Upto(n)[1] = Gap(0, 1)
    <3>1. Len(Upto(n)) = n - watermark + 2 /\ Upto(n)[1] = Gap(0, 1)
      BY UptoFacts
    <3> QED
      BY <1>1, <2>2, <3>1
  <2>4. Length(Upto(n)) = 1
    <3>1. Upto(n) # <<>> /\ Last(Upto(n)) = Gap(0, 1)
      BY <2>3 DEF Last
    <3>2. Gap(0, 1).at = 0 /\ Gap(0, 1).len = 1
      BY DEF Gap
    <3> QED
      BY <3>1, <3>2 DEF Length
  <2> QED
    BY <1>1, <2>1, <2>2, <2>4
<1>3. S \subseteq 0..Len(volume)
  BY <1>1
<1>4. PICK n \in watermark - 1..Len(volume) : Answer = Upto(n)
  <2>1. Max(S) \in S
    BY <1>1, <1>2, <1>3, GreatestIs
  <2> QED
    BY <1>1, <2>1 DEF Answer
<1>5. /\ IsLayout(Answer) /\ Len(Answer) = n - watermark + 2 /\ Answer[1] = Gap(0, 1)
      /\ \A i \in 2..n - watermark + 2 :
            Answer[i].kind = "record" /\ Answer[i].number = watermark + i - 2
  BY <1>4, UptoFacts
<1>6. DOMAIN Answer = 1..n - watermark + 2 /\ n \in Nat /\ n <= Len(volume) /\ n >= watermark - 1
  BY <1>1, <1>4, <1>5, LayoutFacts
<1> QED
  BY <1>1, <1>5, <1>6 DEF Gap

LEMMA JournalStarts == InitJournal => UsnInv
<1> SUFFICES ASSUME InitJournal PROVE UsnInv
  OBVIOUS
<1>1. /\ data = <<>> /\ lo = 0 /\ hi = 0 /\ returned = <<>> /\ reader = "closed"
      /\ volume = <<>> /\ watermark = 1 /\ delivered = <<>> /\ polls = 0
  BY DEF InitJournal
<1>2. Length(<<>>) = 0 /\ IsLayout(<<>>) /\ DOMAIN <<>> = {}
  BY DEF Length, IsLayout
<1>3. ReaderInv
  BY <1>1, <1>2 DEF ReaderInv, ReaderTypes, ReturnedInOrder, WindowBetween, NoneLeftOut
<1>4. MonitorInv
  BY <1>1, <1>2 DEF MonitorInv, VolumeTypes, NoStepBack
<1> QED
  BY <1>3, <1>4 DEF UsnInv

LEMMA MonitorRests ==
    ASSUME MonitorInv, ReaderInv, UNCHANGED <<data, returned, reader, monitorVars>>
    PROVE  MonitorInv'
BY DEF MonitorInv, VolumeTypes, NoStepBack, AnswerFrom, DeliveredTo, monitorVars

LEMMA WriteRecordKeeps ==
    ASSUME UsnInv, NEW len \in RecordLengths, WriteRecord(len)
    PROVE  UsnInv'
<1> DEFINE r == Record(Len(volume) + 1, Length(volume), len)
           n == Len(volume)
<1>1. /\ volume' = Append(volume, r) /\ len \in Nat /\ len >= MinBuffer
      /\ UNCHANGED <<data, lo, hi, returned, reader, watermark, delivered, polls>>
  BY UsnAssumption DEF WriteRecord, readerVars
<1>2. /\ volume \in Seq(Items) /\ n \in Nat /\ DOMAIN volume = 1..n /\ Length(volume) \in Nat
      /\ \A i \in 1..n : /\ volume[i].at \in Nat /\ volume[i].len \in Nat
                          /\ volume[i].at + volume[i].len <= Length(volume)
  BY LayoutFacts DEF UsnInv, MonitorInv, VolumeTypes
<1>3. r \in Items /\ r.kind = "record" /\ r.number = n + 1 /\ r.at = Length(volume) /\ r.len = len
  BY <1>1, <1>2 DEF Record, Items
<1> HIDE DEF r, n
<1>4. /\ volume' \in Seq(Items) /\ Len(volume') = n + 1 /\ DOMAIN volume' = 1..n + 1
      /\ \A i \in 1..n + 1 : volume'[i] = IF i = n + 1 THEN r ELSE volume[i]
  BY <1>1, <1>2, <1>3, AppendFacts DEF n
<1>5. ASSUME NEW i \in 1..n + 1
      PROVE  /\ volume'[i].kind = "record" /\ volume'[i].number = i
             /\ volume'[i].len >= MinBuffer
  <2>1. CASE i = n + 1
    BY <1>1, <1>3, <1>4, <2>1
  <2>2. CASE i # n + 1
    <3>1. i \in 1..n /\ volume'[i] = volume[i]
      BY <1>2, <1>4, <2>2
    <3> QED
      BY <1>2, <3>1 DEF UsnInv, MonitorInv, VolumeTypes, IsLayout
  <2> QED
    BY <2>1, <2>2
<1>6. ASSUME NEW i \in 1..n + 1, NEW j \in 1..n + 1, i < j
      PROVE  volume'[i].at + volume'[i].len <= volume'[j].at
  <2>1. i \in 1..n /\ volume'[i] = volume[i]
    BY <1>2, <1>4, <1>6
  <2>2. CASE j = n + 1
    BY <1>2, <1>3, <1>4, <2>1, <2>2
  <2>3. CASE j # n + 1
    <3>1. j \in 1..n /\ volume'[j] = volume[j]
      BY <1>2, <1>4, <2>3
    <3> QED
      BY <1>2, <1>6, <2>1, <3>1 DEF UsnInv, MonitorInv, VolumeTypes, IsLayout
  <2> QED
    BY <2>2, <2>3
<1>7. IsLayout(volume')
  BY <1>4, <1>5, <1>6 DEF IsLayout
<1>8. VolumeTypes'
  <2>1. watermark \in Nat \ {0} /\ watermark <= n + 1 /\ polls \in Nat /\ delivered \in Seq(Nat)
    BY DEF UsnInv, MonitorInv, VolumeTypes, n
  <2>2. watermark' <= Len(volume') + 1
    BY <1>1, <1>2, <1>4, <2>1
  <2> QED
    BY <1>1, <1>4, <1>5, <1>7, <2>1, <2>2 DEF VolumeTypes
<1>9. ASSUME NEW w \in Nat \ {0}, AnswerFrom(w) PROVE AnswerFrom(w)'
  <2>1. w + Len(data) <= n + 2 /\ Len(data) \in Nat
    BY <1>9, LayoutFacts DEF AnswerFrom, n, UsnInv, ReaderInv, ReaderTypes
  <2>2. w + Len(data) <= n + 1 + 2
    BY <1>2, <2>1
  <2> QED
    BY <1>1, <1>4, <1>9, <2>2 DEF AnswerFrom
<1>10. MonitorInv'
  BY <1>1, <1>8, <1>9 DEF UsnInv, MonitorInv, NoStepBack, DeliveredTo
<1>11. ReaderInv'
  BY <1>1 DEF UsnInv, ReaderInv, ReaderTypes, ReturnedInOrder, WindowBetween, NoneLeftOut,
             Stuck, Buffered, Found, Valid
<1> QED
  BY <1>10, <1>11 DEF UsnInv

LEMMA ReadKeeps ==
    ASSUME UsnInv, ReadNewRecords
    PROVE  UsnInv'
<1>1. /\ reader \in {"closed", "done"} /\ Over(Answer) /\ polls' = polls + 1
      /\ data' = Answer /\ returned' = <<>> /\ reader' = "reading"
      /\ UNCHANGED <<volume, watermark, delivered>>
  BY DEF ReadNewRecords, Over, UsnInv, ReaderInv, ReaderTypes
<1>2. /\ VolumeTypes /\ polls \in Nat /\ watermark \in Nat \ {0}
  BY DEF UsnInv, MonitorInv, VolumeTypes
<1>3. /\ IsLayout(Answer) /\ Answer # <<>> /\ Answer[1].kind = "gap"
      /\ watermark + Len(Answer) <= Len(volume) + 2
      /\ \A i \in DOMAIN Answer : i > 1 =>
            Answer[i].kind = "record" /\ Answer[i].number = watermark + i - 2
  BY <1>2, AnswerFacts
<1>4. ReaderInv'
  BY <1>1, <1>3, OpenedFacts
<1>5. DeliveredTo(watermark)
  <2>1. CASE polls = 0
    BY <2>1 DEF UsnInv, MonitorInv, DeliveredTo
  <2>2. CASE polls > 0
    BY <1>1, <2>2 DEF UsnInv, MonitorInv
  <2> QED
    BY <1>2, <2>1, <2>2
<1>6. AnswerFrom(watermark)' /\ DeliveredTo(watermark)'
  BY <1>1, <1>3, <1>5 DEF AnswerFrom, DeliveredTo
<1>7. polls' \in Nat /\ polls' > 0
  BY <1>1, <1>2
<1>8. MonitorInv'
  BY <1>1, <1>2, <1>6, <1>7 DEF UsnInv, MonitorInv, VolumeTypes, NoStepBack
<1> QED
  BY <1>4, <1>8 DEF UsnInv

LEMMA TakeMoves ==
    ASSUME UsnInv, Take
    PROVE  UsnInv'
<1>1. ReaderInv'
  BY TakeRecordKeeps DEF UsnInv
<1>2. PICK i \in DOMAIN data :
          /\ i = Min(Found) /\ Valid(i)
          /\ returned' = Append(returned, i)
          /\ UNCHANGED <<data, reader>> /\ reader = "reading"
  BY TakenFacts DEF UsnInv
<1>3. /\ watermark' = IF polls > 0 THEN data[i].number ELSE watermark
      /\ UNCHANGED <<volume, delivered, polls>>
  BY <1>2 DEF Take
<1>4. polls \in Nat /\ VolumeTypes
  BY DEF UsnInv, MonitorInv, VolumeTypes
<1>5. CASE polls = 0
  BY <1>1, <1>2, <1>3, <1>4, <1>5 DEF UsnInv, MonitorInv, VolumeTypes, NoStepBack
<1>6. CASE polls > 0
  <2>1. PICK w \in Nat \ {0} : AnswerFrom(w) /\ DeliveredTo(w)
    BY <1>2, <1>6 DEF UsnInv, MonitorInv
  <2> DEFINE n == Len(returned)
             d == Len(data)
             v == Len(volume)
  <2>2. /\ n \in Nat /\ DOMAIN returned = 1..n /\ DOMAIN returned' = 1..n + 1 /\ Len(returned') = n + 1
        /\ \A k \in 1..n + 1 : returned'[k] = IF k = n + 1 THEN i ELSE returned[k]
        /\ \A j : j \in ToSet(returned') => j = i \/ \E k \in 1..n : j = returned[k]
    <3>1. returned \in Seq(DOMAIN data)
      BY DEF UsnInv, ReaderInv, ReaderTypes
    <3>2. /\ n \in Nat /\ DOMAIN returned = 1..n
          /\ \A j : j \in ToSet(returned) <=> \E k \in 1..n : returned[k] = j
      BY <3>1, ElementsOf
    <3>3. /\ returned' \in Seq(DOMAIN data) /\ Len(returned') = n + 1
          /\ \A k \in 1..n + 1 : returned'[k] = IF k = n + 1 THEN i ELSE returned[k]
          /\ ToSet(returned') = ToSet(returned) \cup {i}
      BY <1>2, <3>1, AppendFacts
    <3>4. DOMAIN returned' = 1..n + 1
      BY <3>2, <3>3
    <3> QED
      BY <3>2, <3>3, <3>4
  <2>3. /\ d \in Nat /\ DOMAIN data = 1..d /\ v \in Nat /\ i \in Nat
        /\ w + d <= v + 2 /\ data[1].kind = "gap"
        /\ \A j \in 1..d : j > 1 => data[j].kind = "record" /\ data[j].number = w + j - 2
        /\ \A k \in 1..n : returned[k] = k + 1
    <3>1. d \in Nat /\ DOMAIN data = 1..d /\ v \in Nat
      BY <1>4, LayoutFacts DEF UsnInv, ReaderInv, ReaderTypes, VolumeTypes
    <3>2. /\ data[1].kind = "gap" /\ w + Len(data) <= Len(volume) + 2
          /\ \A j \in DOMAIN data : j > 1 => data[j].kind = "record" /\ data[j].number = w + j - 2
          /\ \A k \in DOMAIN returned : returned[k] = k + 1
      BY <2>1 DEF AnswerFrom
    <3>3. i \in Nat
      BY <3>1
    <3> QED
      BY <2>2, <3>1, <3>2, <3>3
  <2> HIDE DEF n, d, v
  <2>4. i >= 2 /\ i <= d /\ data[i].kind = "record"
    BY <1>2, <2>3 DEF Valid
  <2>5. i >= n + 2
    <3>1. CASE n = 0
      BY <2>4, <3>1
    <3>2. CASE n # 0
      <4>1. n \in 1..n + 1 /\ n + 1 \in 1..n + 1 /\ n \in 1..n /\ n < n + 1 /\ n # n + 1
        BY <2>2, <3>2
      <4>2. returned'[n] < returned'[n + 1]
        BY <1>1, <2>2, <4>1 DEF ReaderInv, ReturnedInOrder
      <4>3. returned'[n] = n + 1 /\ returned'[n + 1] = i
        BY <2>2, <2>3, <4>1
      <4> QED
        BY <2>2, <2>3, <4>2, <4>3
    <3> QED
      BY <2>2, <3>1, <3>2
  <2>6. i = n + 2
    <3> SUFFICES ASSUME i > n + 2 PROVE FALSE
      BY <2>2, <2>3, <2>5
    <3>1. n + 2 \in 1..d /\ n + 2 > 1 /\ n + 2 <= i
      BY <2>2, <2>3, <2>4
    <3>2. data[n + 2].kind = "record"
      BY <2>3, <3>1
    <3>3. n + 1 \in DOMAIN returned' /\ returned'[n + 1] = i
      BY <2>2
    <3>4. n + 2 \in ToSet(returned')
      BY <1>1, <1>2, <2>3, <3>1, <3>2, <3>3 DEF ReaderInv, NoneLeftOut
    <3>5. PICK k \in 1..n : n + 2 = returned[k]
      BY <2>2, <2>3, <3>4
    <3> QED
      BY <2>2, <2>3, <3>5
  <2>7. watermark' = w + n /\ watermark' \in Nat \ {0} /\ watermark' <= v + 1
    <3>1. data[i].number = w + i - 2
      BY <2>3, <2>4
    <3> QED
      BY <1>3, <1>6, <2>1, <2>2, <2>3, <2>4, <2>6, <3>1
  <2>8. returned' # <<>> /\ w + Len(returned') - 1 = w + n
    BY <2>1, <2>2
  <2>9. AnswerFrom(w)'
    <3>1. \A k \in 1..n + 1 : returned'[k] = k + 1
      BY <2>2, <2>3, <2>6
    <3> QED
      BY <1>2, <1>3, <2>1, <2>2, <2>7, <2>8, <3>1 DEF AnswerFrom
  <2>10. DeliveredTo(w)'
    BY <1>3, <2>1 DEF DeliveredTo
  <2>11. VolumeTypes'
    BY <1>3, <1>4, <2>7 DEF VolumeTypes, v
  <2> QED
    BY <1>1, <1>2, <1>3, <1>6, <2>9, <2>10, <2>11 DEF UsnInv, MonitorInv, NoStepBack
<1> QED
  BY <1>4, <1>5, <1>6

LEMMA EndDelivers ==
    ASSUME UsnInv, EndOfData
    PROVE  UsnInv'
<1>1. ReaderInv'
  BY EndOfDataKeeps DEF UsnInv
<1>2. /\ UNCHANGED <<data, returned, volume, watermark, polls>>
      /\ reader = "reading" /\ reader' = "done"
      /\ polls \in Nat /\ VolumeTypes /\ delivered \in Seq(Nat)
  BY DEF UsnInv, MonitorInv, VolumeTypes, EndOfData
<1>3. CASE polls = 0
  <2>1. delivered' = delivered
    BY <1>3 DEF EndOfData
  <2> QED
    BY <1>1, <1>2, <1>3, <2>1 DEF UsnInv, MonitorInv, VolumeTypes, NoStepBack
<1>4. CASE polls > 0
  <2> DEFINE bundle == [k \in DOMAIN returned |-> data[returned[k]].number]
             n == Len(returned)
             l == Len(delivered)
  <2>1. delivered' = delivered \o bundle
    BY <1>4 DEF EndOfData
  <2>2. PICK w \in Nat \ {0} : AnswerFrom(w) /\ DeliveredTo(w)
    BY <1>2, <1>4 DEF UsnInv, MonitorInv
  <2>3. n \in Nat /\ DOMAIN returned = 1..n /\ l \in Nat /\ DOMAIN delivered = 1..l
    BY <1>2 DEF UsnInv, ReaderInv, ReaderTypes
  <2>4. \A k \in 1..n : data[returned[k]].number = w + k - 1
    <3> SUFFICES ASSUME NEW k \in 1..n PROVE data[returned[k]].number = w + k - 1
      OBVIOUS
    <3>1. returned[k] \in DOMAIN data /\ returned[k] = k + 1
      <4>1. returned \in Seq(DOMAIN data) /\ k \in DOMAIN returned
        BY <2>3 DEF UsnInv, ReaderInv, ReaderTypes
      <4>2. \A m \in DOMAIN returned : returned[m] = m + 1
        BY <2>2 DEF AnswerFrom
      <4> QED
        BY <2>3, <4>1, <4>2
    <3>2. k + 1 > 1
      BY <2>3
    <3>3. data[k + 1].number = w + (k + 1) - 2
      BY <2>2, <3>1, <3>2 DEF AnswerFrom
    <3> QED
      BY <2>3, <3>1, <3>3
  <2>5. bundle \in Seq(Nat) /\ Len(bundle) = n /\ \A k \in 1..n : bundle[k] = w + k - 1
    <3>1. bundle = [k \in 1..n |-> w + k - 1]
      BY <2>3, <2>4
    <3>2. [k \in 1..n |-> w + k - 1] \in [1..n -> Nat]
      BY <2>3
    <3> QED
      BY <2>3, <3>1, <3>2
  <2> HIDE DEF bundle, n
  <2>6. /\ delivered' \in Seq(Nat) /\ Len(delivered') = l + n
        /\ \A k \in 1..l : delivered'[k] = delivered[k]
        /\ \A k \in 1..n : delivered'[l + k] = w + k - 1
    BY <1>2, <2>1, <2>5, ConcatFacts
  <2>7. watermark = IF n = 0 THEN w ELSE w + n - 1
    BY <2>2, <2>3 DEF AnswerFrom, n, UsnInv, ReaderInv, ReaderTypes
  <2>8. CASE n = 0
    <3>1. delivered' = delivered
      BY <1>2, <2>3, <2>6, <2>8
    <3>2. VolumeTypes' /\ NoStepBack' /\ AnswerFrom(w)'
      BY <1>2, <2>2, <3>1 DEF UsnInv, MonitorInv, VolumeTypes, NoStepBack, AnswerFrom
    <3>3. DeliveredTo(IF reader = "done" THEN watermark ELSE w)'
      BY <1>2, <2>2, <2>7, <2>8, <3>1 DEF DeliveredTo
    <3>4. polls' # 0 /\ reader' # "closed"
      BY <1>2, <1>4
    <3>5. MonitorInv'
      BY <3>2, <3>3, <3>4 DEF MonitorInv
    <3> QED
      BY <1>1, <3>5 DEF UsnInv
  <2>9. CASE n # 0
    <3>1. /\ delivered' # <<>> /\ n >= 1 /\ 1 \in 1..n /\ n \in 1..n /\ DOMAIN delivered' = 1..l + n
      BY <2>3, <2>6, <2>9
    <3>2. l # 0 => delivered[1] = 1 /\ delivered[l] = w /\ ToSet(delivered) = 1..w
      BY <2>2, <2>3 DEF DeliveredTo
    <3>3. l = 0 => w = 1 /\ ToSet(delivered) = {}
      BY <1>2, <2>2, NoElements DEF DeliveredTo
    <3>4. delivered'[l + n] = w + n - 1 /\ delivered'[l + 1] = w
      <4>1. delivered'[l + n] = w + n - 1 /\ delivered'[l + 1] = w + 1 - 1
        BY <2>6, <3>1
      <4> QED
        BY <2>2, <4>1
    <3>5. delivered'[1] = 1
      BY <2>3, <2>6, <3>2, <3>3, <3>4
    <3>6. ToSet(delivered') = 1..w + n - 1
      <4>1. ASSUME NEW x \in ToSet(delivered') PROVE x \in 1..w + n - 1
        <5>1. PICK k \in 1..l + n : x = delivered'[k]
          BY <2>6, <4>1, ElementsOf
        <5>2. CASE k <= l
          <6>1. k \in 1..l /\ x = delivered[k] /\ x \in ToSet(delivered)
            BY <1>2, <2>3, <2>6, <5>1, <5>2, ElementsOf
          <6>2. x \in 1..w
            BY <2>3, <3>2, <3>3, <6>1
          <6> QED
            BY <2>2, <2>3, <3>1, <6>2
        <5>3. CASE k > l
          <6>1. k - l \in 1..n /\ l + (k - l) = k
            BY <2>3, <5>3
          <6>2. x = w + (k - l) - 1
            BY <2>6, <5>1, <6>1
          <6> QED
            BY <2>2, <2>3, <6>1, <6>2
        <5> QED
          BY <2>3, <5>2, <5>3
      <4>2. ASSUME NEW x \in 1..w + n - 1 PROVE x \in ToSet(delivered')
        <5>1. CASE x < w
          <6>1. l # 0 /\ x \in ToSet(delivered)
            BY <2>2, <2>3, <3>2, <3>3, <5>1
          <6>2. PICK k \in 1..l : delivered[k] = x
            BY <1>2, <6>1, ElementsOf
          <6>3. k \in 1..l + n /\ delivered'[k] = x
            BY <2>3, <2>6, <6>2
          <6> QED
            BY <2>6, <6>3, ElementsOf
        <5>2. CASE x >= w
          <6>1. x - w + 1 \in 1..n /\ w + (x - w + 1) - 1 = x /\ l + (x - w + 1) \in 1..l + n
            BY <2>2, <2>3, <5>2
          <6>2. delivered'[l + (x - w + 1)] = x
            BY <2>6, <6>1
          <6> QED
            BY <2>6, <6>1, <6>2, ElementsOf
        <5> QED
          BY <2>2, <5>1, <5>2
      <4> QED
        BY <4>1, <4>2
    <3>7. ASSUME NEW k \in 2..l + n PROVE delivered'[k] - delivered'[k - 1] \in {0, 1}
      <4>1. CASE k <= l
        <5>1. k \in 2..l /\ k \in 1..l /\ k - 1 \in 1..l
          BY <2>3, <4>1
        <5> QED
          BY <2>6, <5>1 DEF UsnInv, MonitorInv, NoStepBack
      <4>2. CASE k = l + 1
        <5>1. l # 0 /\ l \in 1..l /\ k - 1 = l
          BY <2>3, <4>2
        <5>2. delivered'[k] = w /\ delivered'[k - 1] = w
          BY <2>6, <3>2, <3>4, <4>2, <5>1
        <5> QED
          BY <2>2, <5>2
      <4>3. CASE k > l + 1
        <5>1. /\ k - l \in 1..n /\ k - 1 - l \in 1..n
              /\ l + (k - l) = k /\ l + (k - 1 - l) = k - 1
          BY <2>3, <4>3
        <5>2. delivered'[k] = w + (k - l) - 1 /\ delivered'[k - 1] = w + (k - 1 - l) - 1
          BY <2>6, <5>1
        <5> QED
          BY <2>2, <2>3, <5>1, <5>2
      <4> QED
        BY <2>3, <4>1, <4>2, <4>3
    <3>8. NoStepBack'
      BY <2>6, <3>7 DEF NoStepBack
    <3>9. DeliveredTo(watermark)'
      BY <1>2, <2>6, <2>7, <2>9, <3>1, <3>4, <3>5, <3>6 DEF DeliveredTo
    <3>10. AnswerFrom(w)' /\ VolumeTypes'
      BY <1>2, <2>2, <2>6 DEF AnswerFrom, VolumeTypes
    <3>11. DeliveredTo(IF reader = "done" THEN watermark ELSE w)'
      BY <1>2, <3>9 DEF DeliveredTo
    <3>12. polls' # 0 /\ reader' # "closed"
      BY <1>2, <1>4
    <3>13. MonitorInv'
      BY <3>8, <3>10, <3>11, <3>12 DEF MonitorInv
    <3> QED
      BY <1>1, <3>13 DEF UsnInv
  <2> QED
    BY <2>8, <2>9
<1> QED
  BY <1>2, <1>3, <1>4

LEMMA JournalKeeps ==
    ASSUME UsnInv, [NextJournal]_journalVars
    PROVE  UsnInv'
<1>1. CASE UNCHANGED journalVars
  BY <1>1 DEF journalVars, UsnInv, ReaderInv, ReaderTypes, ReturnedInOrder, WindowBetween,
              NoneLeftOut, Stuck, Buffered, Found, Valid, MonitorInv, VolumeTypes, NoStepBack,
              AnswerFrom, DeliveredTo
<1>2. CASE OpenOffline
  <2>1. ReaderInv'
    BY <1>2, UsnAssumption, OpenedFacts DEF OpenOffline
  <2>2. polls = 0 /\ UNCHANGED monitorVars
    BY <1>2 DEF OpenOffline, UsnInv, MonitorInv, VolumeTypes
  <2>3. VolumeTypes' /\ NoStepBack'
    BY <2>2 DEF UsnInv, MonitorInv, VolumeTypes, NoStepBack, monitorVars
  <2>4. polls' = 0 /\ delivered' = <<>> /\ watermark' = 1
    BY <2>2 DEF UsnInv, MonitorInv, monitorVars
  <2>5. ~(polls' > 0)
    BY <2>4
  <2>6. MonitorInv'
    BY <2>3, <2>4, <2>5 DEF MonitorInv
  <2> QED
    BY <2>1, <2>6 DEF UsnInv
<1>3. CASE Fill
  <2>1. UNCHANGED <<data, returned, reader, monitorVars>>
    BY <1>3 DEF Fill
  <2> QED
    BY <1>3, <2>1, FillKeeps, MonitorRests DEF UsnInv
<1>4. CASE Take
  BY <1>4, TakeMoves
<1>5. CASE SkipGap
  <2>1. UNCHANGED <<data, returned, reader, monitorVars>>
    BY <1>5 DEF SkipGap
  <2> QED
    BY <1>5, <2>1, SkipGapKeeps, MonitorRests DEF UsnInv
<1>6. CASE EndOfData
  BY <1>6, EndDelivers
<1>7. CASE \E len \in RecordLengths : WriteRecord(len)
  BY <1>7, WriteRecordKeeps
<1>8. CASE ReadNewRecords
  BY <1>8, ReadKeeps
<1> QED
  BY <1>1, <1>2, <1>3, <1>4, <1>5, <1>6, <1>7, <1>8 DEF NextJournal, ReaderStep

LEMMA StuckStays ==
    ASSUME UsnInv, Stuck, [NextJournal]_journalVars
    PROVE  Stuck'
<1>1. CASE SkipGap
  BY <1>1, SkipGapSticks DEF UsnInv
<1>2. ASSUME UNCHANGED readerVars PROVE Stuck'
  BY <1>2 DEF readerVars, Stuck, Buffered, Found, Valid
<1>3. /\ reader = "reading" /\ lo \in Nat /\ hi \in Nat /\ hi - lo >= MinBuffer
      /\ Found = {} /\ MinBuffer \in Nat
  BY UsnAssumption DEF Stuck, Buffered, UsnInv, ReaderInv, ReaderTypes
<1>4. ~OpenOffline /\ ~ReadNewRecords /\ ~Fill /\ ~Take /\ ~EndOfData
  BY <1>3 DEF OpenOffline, ReadNewRecords, Fill, Take, EndOfData, Buffered
<1>5. CASE \E len \in RecordLengths : WriteRecord(len)
  BY <1>2, <1>5 DEF WriteRecord
<1>6. CASE UNCHANGED journalVars
  BY <1>2, <1>6 DEF journalVars, readerVars
<1> QED
  BY <1>1, <1>4, <1>5, <1>6 DEF NextJournal, ReaderStep

LEMMA ReaderShows == UsnInv => NoRecordLost
<1> SUFFICES ASSUME UsnInv PROVE NoRecordLost
  OBVIOUS
<1>1. returned \in Seq(DOMAIN data) /\ \A j \in ToSet(returned) : j \in DOMAIN data
  BY ElementsOf DEF UsnInv, ReaderInv, ReaderTypes
<1>2. ASSUME NEW j \in ToSet(returned)
      PROVE  j \in DOMAIN data /\ data[j].kind = "record" /\ \E k \in DOMAIN returned : j <= returned[k]
  <2>1. PICK k \in DOMAIN returned : returned[k] = j
    BY <1>1, ElementsOf
  <2>2. j \in DOMAIN data /\ j \in Nat
    BY <1>1, LayoutFacts DEF UsnInv, ReaderInv, ReaderTypes
  <2> QED
    BY <2>1, <2>2 DEF UsnInv, ReaderInv, WindowBetween
<1> QED
  BY <1>1, <1>2 DEF NoRecordLost, UsnInv, ReaderInv, ReturnedInOrder, NoneLeftOut

LEMMA MonitorShows == UsnInv => MonitorSkipsNothing
<1> SUFFICES ASSUME UsnInv PROVE MonitorSkipsNothing
  OBVIOUS
<1>1. ASSUME polls > 0, reader = "done"
      PROVE  ToSet(delivered) = IF delivered = <<>> THEN {} ELSE 1..watermark
  BY <1>1, NoElements DEF UsnInv, MonitorInv, DeliveredTo
<1> QED
  BY <1>1 DEF MonitorSkipsNothing, UsnInv, MonitorInv, NoStepBack
-----------------------------------------------------------------------------
(* The correlation actor.  A temporal link leads from a stored event to the  *)
(* next of its process in the same life, and every link leads forwards.      *)
LinkInv ==
    /\ IsFiniteSet(links)
    /\ \A x \in links : x.src \in 1..Len(stored) /\ x.dst \in 1..Len(stored) /\ x.src < x.dst
    /\ \A x \in links : x.relation = "temporal" => Consecutive(x.src, x.dst)

IsLatest(node, pid) ==
    /\ node \in 1..Len(stored) /\ stored[node] = [pid |-> pid, life |-> life]
    /\ \A k \in node + 1..Len(stored) : stored[k] # stored[node]

CorrInv ==
    /\ IsSeq(stored) /\ LinkInv
    /\ \A pid \in DOMAIN lastNode : IsLatest(lastNode[pid], pid)

LEMMA CorrelationStarts == InitCorrelation => CorrInv
<1> SUFFICES ASSUME InitCorrelation PROVE CorrInv
  OBVIOUS
<1>1. stored = <<>> /\ links = {} /\ lastNode = <<>>
  BY DEF InitCorrelation
<1>2. IsSeq(stored) /\ IsFiniteSet(links)
  BY <1>1, SeqFacts, FS_EmptySet
<1>3. DOMAIN lastNode = {}
  BY <1>1
<1> QED
  BY <1>1, <1>2, <1>3 DEF CorrInv, LinkInv

LEMMA StoredAppended ==
    ASSUME IsSeq(stored), NEW r, stored' = Append(stored, r)
    PROVE  /\ IsSeq(stored') /\ Len(stored) \in Nat /\ Len(stored') = Len(stored) + 1
           /\ \A k \in 1..Len(stored) : stored'[k] = stored[k]
           /\ stored'[Len(stored) + 1] = r
<1>1. stored \in Seq(ToSet(stored) \cup {r}) /\ r \in ToSet(stored) \cup {r}
  BY SeqMonotonic DEF IsSeq
<1>2. /\ Append(stored, r) \in Seq(ToSet(stored) \cup {r}) /\ Len(stored) \in Nat
      /\ Len(Append(stored, r)) = Len(stored) + 1
      /\ \A i \in 1..Len(stored) + 1 :
            Append(stored, r)[i] = IF i = Len(stored) + 1 THEN r ELSE stored[i]
  BY <1>1, AppendFacts
<1>3. IsSeq(Append(stored, r))
  BY <1>2, SeqFacts
<1> QED
  BY <1>2, <1>3

LEMMA PersistKeeps ==
    ASSUME CorrInv, NEW e, Persist(e), UNCHANGED life
    PROVE  CorrInv'
<1> DEFINE node == Len(stored) + 1
           r == [pid |-> e.pid, life |-> life]
           src(pid) == lastNode[pid]
           temporal == {CorrLink(lastNode[e.pid], node, "temporal") : pid \in {e.pid} \cap DOMAIN lastNode}
           parents == IF e.kind = "ProcessCreated" /\ e.ppid > 0 THEN {e.ppid} \cap DOMAIN lastNode ELSE {}
           parental == {CorrLink(lastNode[pid], node, "parent_child") : pid \in parents}
<1>1. CASE UNCHANGED <<stored, links, lastNode>>
  BY <1>1 DEF CorrInv, LinkInv, IsLatest, Consecutive
<1>2. CASE ~UNCHANGED <<stored, links, lastNode>>
  <2>1. /\ stored' = Append(stored, r) /\ lastNode' = Remember(lastNode, e.pid, node)
        /\ links' \subseteq links \cup temporal \cup parental
    BY <1>2 DEF Persist
  <2>2. /\ IsSeq(stored') /\ Len(stored) \in Nat /\ Len(stored') = node
        /\ \A k \in 1..Len(stored) : stored'[k] = stored[k]
        /\ stored'[node] = r
    BY <2>1, StoredAppended DEF CorrInv
  <2> HIDE DEF parents
  <2>3. ASSUME NEW pid \in DOMAIN lastNode'
        PROVE  IsLatest(lastNode[pid], pid)'
    <3>1. CASE pid = e.pid
      <4>1. lastNode'[pid] = node
        BY <2>1, <3>1 DEF Remember
      <4> QED
        BY <2>2, <3>1, <4>1 DEF IsLatest
    <3>2. CASE pid # e.pid
      <4>1. pid \in DOMAIN lastNode /\ lastNode'[pid] = lastNode[pid]
        BY <2>1, <2>3, <3>2 DEF Remember
      <4>2. IsLatest(lastNode[pid], pid)
        BY <4>1 DEF CorrInv
      <4>3. stored'[node] # [pid |-> pid, life |-> life]
        BY <2>2, <3>2
      <4>4. /\ lastNode[pid] \in 1..Len(stored) /\ stored'[lastNode[pid]] = [pid |-> pid, life |-> life]
            /\ \A k \in lastNode[pid] + 1..Len(stored) : stored'[k] = stored[k]
        BY <2>2, <4>2 DEF IsLatest
      <4>5. \A k \in lastNode[pid] + 1..node : stored'[k] # stored'[lastNode[pid]]
        <5>1. SUFFICES ASSUME NEW k \in lastNode[pid] + 1..node PROVE stored'[k] # stored'[lastNode[pid]]
          OBVIOUS
        <5>2. CASE k = node
          BY <4>3, <4>4, <5>2
        <5>3. CASE k # node
          <6>1. k \in lastNode[pid] + 1..Len(stored)
            BY <2>2, <4>4, <5>1, <5>3
          <6>2. stored[k] # stored[lastNode[pid]]
            BY <4>2, <6>1 DEF IsLatest
          <6> QED
            BY <2>2, <4>4, <6>1, <6>2
        <5> QED
          BY <5>2, <5>3
      <4> QED
        BY <2>2, <4>1, <4>4, <4>5 DEF IsLatest
    <3> QED
      BY <3>1, <3>2
  <2>4. ASSUME NEW n \in 1..Len(stored), NEW m \in 1..Len(stored), Consecutive(n, m)
        PROVE  Consecutive(n, m)'
    <3>1. \A k \in n + 1..m - 1 : k \in 1..Len(stored)
      BY <2>2
    <3> QED
      BY <2>2, <2>4, <3>1 DEF Consecutive
  <2>5. ASSUME NEW pid \in DOMAIN lastNode
        PROVE  lastNode[pid] \in 1..Len(stored) /\ lastNode[pid] < node
    <3>1. IsLatest(lastNode[pid], pid)
      BY DEF CorrInv
    <3> QED
      BY <2>2, <3>1 DEF IsLatest
  <2>6. ASSUME e.pid \in DOMAIN lastNode, NEW n, n = lastNode[e.pid], NEW m, m = node
        PROVE  Consecutive(n, m)'
    <3>1. IsLatest(n, e.pid)
      BY <2>6 DEF CorrInv
    <3>2. n \in 1..Len(stored) /\ stored[n] = r /\ \A k \in n + 1..Len(stored) : stored[k] # stored[n]
      BY <3>1 DEF IsLatest
    <3>3. stored'[n] = stored'[m] /\ n < m
      BY <2>2, <2>6, <3>2
    <3>4. \A k \in n + 1..m - 1 : stored'[k] # stored'[n]
      <4>1. \A k \in n + 1..m - 1 : k \in n + 1..Len(stored) /\ k \in 1..Len(stored)
        BY <2>2, <2>6, <3>2
      <4> QED
        BY <2>2, <3>2, <4>1
    <3> QED
      BY <3>3, <3>4 DEF Consecutive
  <2>7. ASSUME NEW x \in links'
        PROVE  /\ x.src \in 1..node /\ x.dst \in 1..node /\ x.src < x.dst
               /\ x.relation = "temporal" => Consecutive(x.src, x.dst)'
    <3>1. CASE x \in links
      <4>1. /\ x.src \in 1..Len(stored) /\ x.dst \in 1..Len(stored) /\ x.src < x.dst
            /\ x.relation = "temporal" => Consecutive(x.src, x.dst)
        BY <3>1 DEF CorrInv, LinkInv
      <4> QED
        BY <2>2, <2>4, <4>1
    <3>2. CASE x \in temporal
      <4>1. e.pid \in DOMAIN lastNode /\ x.src = lastNode[e.pid] /\ x.dst = node
        BY <3>2 DEF CorrLink
      <4>2. Consecutive(x.src, x.dst)'
        BY <2>6, <4>1
      <4> QED
        BY <2>2, <2>5, <4>1, <4>2
    <3>3. CASE x \in parental
      <4>1. PICK pid \in parents : x = CorrLink(lastNode[pid], node, "parent_child")
        BY <3>3
      <4>2. pid \in DOMAIN lastNode
        BY <4>1 DEF parents
      <4>3. x.src = lastNode[pid] /\ x.dst = node /\ x.relation # "temporal"
        BY <4>1 DEF CorrLink
      <4> QED
        BY <2>2, <2>5, <4>2, <4>3
    <3> QED
      BY <2>1, <2>7, <3>1, <3>2, <3>3
  <2>8. IsFiniteSet(links')
    <3>1. temporal \subseteq {CorrLink(lastNode[e.pid], node, "temporal")}
      OBVIOUS
    <3>2. parental \subseteq {CorrLink(lastNode[e.ppid], node, "parent_child")}
      BY DEF parents
    <3>3. IsFiniteSet({CorrLink(lastNode[e.pid], node, "temporal")})
          /\ IsFiniteSet({CorrLink(lastNode[e.ppid], node, "parent_child")})
      BY FS_Singleton
    <3>4. IsFiniteSet(links)
      BY DEF CorrInv, LinkInv
    <3>5. IsFiniteSet(temporal) /\ IsFiniteSet(parental)
      BY <3>1, <3>2, <3>3, FS_Subset
    <3>6. IsFiniteSet((links \cup temporal) \cup parental)
      BY <3>4, <3>5, FS_Union
    <3> QED
      BY <2>1, <3>6, FS_Subset
  <2> QED
    BY <2>2, <2>3, <2>7, <2>8 DEF CorrInv, LinkInv
<1> QED
  BY <1>1, <1>2

LEMMA CorrelationKeeps ==
    ASSUME CorrInv, [NextCorrelation]_corrVars
    PROVE  CorrInv'
<1>1. CASE \E e : Persist(e) /\ UNCHANGED life
  BY <1>1, PersistKeeps
<1>2. CASE UNCHANGED <<stored, links, lastNode, life>>
  BY <1>2 DEF CorrInv, LinkInv, IsLatest, Consecutive
<1>3. CASE RestartCorr
  <2>1. DOMAIN lastNode' = {} /\ UNCHANGED <<stored, links>>
    BY <1>3 DEF RestartCorr
  <2> QED
    BY <2>1 DEF CorrInv, LinkInv, Consecutive
<1>4. ASSUME NEW e, NEW waiting, IngestCorr(e, waiting)
      PROVE  (\E x : Persist(x) /\ UNCHANGED life) \/ UNCHANGED <<stored, links, lastNode, life>>
  BY <1>4 DEF IngestCorr
<1>5. \/ \E e : Persist(e) /\ UNCHANGED life
      \/ UNCHANGED <<stored, links, lastNode, life>>
      \/ RestartCorr
  <2>1. CASE \E e \in CorrSamples : FromOthers(e)
    BY <1>4, <2>1 DEF FromOthers
  <2>2. CASE FromItself
    BY <1>4, <2>2 DEF FromItself
  <2>3. CASE \E pause \in CorrPauses : Pass(pause)
    BY <2>3 DEF Pass
  <2>4. CASE UNCHANGED corrVars
    BY <2>4 DEF corrVars
  <2> QED
    BY <2>1, <2>2, <2>3, <2>4 DEF NextCorrelation
<1> QED
  BY <1>1, <1>2, <1>3, <1>5

\* What a step of get_chains does, with what it appends to the queue.
Dsts(node) == {x.dst : x \in Followed(node)}

LEMMA FollowedAre ==
    ASSUME CorrInv, NEW node \in Nat
    PROVE  /\ Dsts(node) \in SUBSET (1..Len(stored)) /\ \A m \in Dsts(node) : node < m
           /\ Cardinality(links) \in Nat /\ Cardinality(Dsts(node)) <= Cardinality(links)
           /\ Cardinality(Dsts(node)) \in Nat
           /\ ~(Cardinality(Leaving(node)) > FanOut) => Followed(node) = Leaving(node)
<1>1. /\ IsFiniteSet(links) /\ Followed(node) \subseteq Leaving(node) /\ Leaving(node) \subseteq links
      /\ \A x \in links : x.dst \in 1..Len(stored) /\ x.src < x.dst
  BY DEF CorrInv, LinkInv, Followed, Leaving
<1>2. \A x \in Leaving(node) : x.src = node
  BY DEF Leaving
<1>3. Dsts(node) \in SUBSET (1..Len(stored)) /\ \A m \in Dsts(node) : node < m
  BY <1>1, <1>2 DEF Dsts
<1>4. IsFiniteSet(Leaving(node)) /\ IsFiniteSet(Followed(node))
  BY <1>1, FS_Subset
<1>5. Cardinality(Followed(node)) <= Cardinality(links) /\ Cardinality(links) \in Nat
  <2>1. Followed(node) \subseteq links
    BY <1>1
  <2> QED
    BY <1>1, <2>1, FS_Subset, FS_CardinalityType
<1>6. /\ Cardinality(Dsts(node)) <= Cardinality(Followed(node))
      /\ Cardinality(Dsts(node)) \in Nat /\ Cardinality(Followed(node)) \in Nat
  <2> DEFINE f == [x \in Followed(node) |-> x.dst]
             D == Dsts(node)
  <2>1. f \in Surjection(Followed(node), D)
    <3>1. f \in [Followed(node) -> D]
      BY DEF Dsts
    <3>2. \A m \in D : \E x \in Followed(node) : f[x] = m
      BY DEF Dsts
    <3> QED
      BY <3>1, <3>2 DEF Surjection
  <2> HIDE DEF f
  <2>2. IsFiniteSet(D) /\ Cardinality(D) <= Cardinality(Followed(node))
    BY <1>4, <2>1, FS_Surjection
  <2> QED
    BY <1>4, <2>2, FS_CardinalityType
<1>7. ASSUME ~(Cardinality(Leaving(node)) > FanOut) PROVE Followed(node) = Leaving(node)
  <2>1. ASSUME NEW x \in Leaving(node) PROVE x \in Followed(node)
    <3> DEFINE Heavier == {y \in Leaving(node) : Weight(y) > Weight(x) \/ (Weight(y) = Weight(x) /\ y.dst < x.dst)}
    <3>1. x \notin Heavier
      <4>1. Weight(x) \in Int /\ x.dst \in Int
        BY <1>1 DEF Weight
      <4> QED
        BY <4>1
    <3>2. Heavier \subseteq Leaving(node) /\ Heavier # Leaving(node)
      BY <3>1, <2>1
    <3>3. Cardinality(Heavier) < Cardinality(Leaving(node)) /\ Cardinality(Heavier) \in Nat
      <4> HIDE DEF Heavier
      <4> QED
        BY <1>4, <3>2, FS_Subset, FS_CardinalityType
    <3>4. Cardinality(Leaving(node)) \in Nat
      BY <1>4, FS_CardinalityType
    <3>5. Cardinality(Heavier) < FanOut
      BY <1>7, <3>3, <3>4, CorrAssumption
    <3> QED
      BY <3>5 DEF Followed
  <2> QED
    BY <1>1, <2>1
<1> QED
  BY <1>3, <1>5, <1>6, <1>7

\* What a chain may hold: a stored event not before its root.
NotBefore(root) == {n \in Nat : root <= n}
IsWalk(w, root) ==
    /\ w = [queue |-> w.queue, visited |-> w.visited]
    /\ w.queue \in Seq(NotBefore(root)) /\ w.visited \subseteq NotBefore(root)

LEMMA WalkOf ==
    ASSUME NEW root, NEW q \in Seq(NotBefore(root)), NEW v \in SUBSET NotBefore(root)
    PROVE  IsWalk([queue |-> q, visited |-> v], root)
BY DEF IsWalk

LEMMA VisitIs ==
    ASSUME CorrInv, NEW root \in Nat, NEW w, IsWalk(w, root), w.queue # <<>>
    PROVE  /\ IsWalk(VisitNext(w), root) /\ Head(w.queue) \in NotBefore(root)
           /\ VisitNext(w).visited = w.visited \cup {Head(w.queue)}
           /\ \E more \in Seq(NotBefore(root)) : VisitNext(w).queue = Tail(w.queue) \o more
           /\ Head(w.queue) \notin w.visited =>
                 VisitNext(w).queue = Tail(w.queue) \o InOrder(Dsts(Head(w.queue)))
<1>1. PICK q, v : w = [queue |-> q, visited |-> v] /\ q \in Seq(NotBefore(root)) /\ v \subseteq NotBefore(root)
  BY DEF IsWalk
<1>2. /\ w.queue = q /\ w.visited = v /\ q # <<>> /\ Tail(q) \in Seq(NotBefore(root))
      /\ Head(q) \in NotBefore(root)
  BY <1>1
<1>3. CASE Head(q) \in v
  <2>1. VisitNext(w) = [w EXCEPT !.queue = Tail(q)]
    BY <1>2, <1>3 DEF VisitNext
  <2>2. VisitNext(w) = [queue |-> Tail(q), visited |-> v]
    BY <1>1, <2>1
  <2>3. Tail(q) = Tail(q) \o <<>> /\ <<>> \in Seq(NotBefore(root))
    BY <1>2
  <2>4. VisitNext(w).queue = Tail(q) /\ VisitNext(w).visited = v \cup {Head(q)}
    BY <1>3, <2>2
  <2>5. IsWalk(VisitNext(w), root)
    BY <1>1, <1>2, <2>2, WalkOf
  <2> QED
    BY <1>2, <1>3, <2>3, <2>4, <2>5
<1>4. CASE Head(q) \notin v
  <2> DEFINE next == InOrder(Dsts(Head(q)))
  <2>1. VisitNext(w) = [queue |-> Tail(q) \o next, visited |-> v \cup {Head(q)}]
    BY <1>2, <1>4 DEF VisitNext, Dsts
  <2>2. next \in Seq(NotBefore(root))
    <3>1. Head(q) \in Nat /\ root <= Head(q)
      BY <1>2 DEF NotBefore
    <3>2. Dsts(Head(q)) \in SUBSET (1..Len(stored)) /\ \A m \in Dsts(Head(q)) : Head(q) < m
      BY <3>1, FollowedAre
    <3>3. Len(stored) \in Nat
      BY SeqFacts DEF CorrInv
    <3>4. next \in Seq(Dsts(Head(q)))
      BY <3>2, <3>3, InOrderFacts
    <3>5. Dsts(Head(q)) \subseteq NotBefore(root)
      BY <3>1, <3>2, <3>3 DEF NotBefore
    <3> QED
      BY <3>4, <3>5, SeqMonotonic
  <2> HIDE DEF next
  <2>3. Tail(q) \o next \in Seq(NotBefore(root))
    BY <1>2, <2>2, ConcatFacts
  <2>4. IsWalk(VisitNext(w), root)
    <3>1. v \cup {Head(q)} \in SUBSET NotBefore(root)
      BY <1>1, <1>2
    <3> QED
      BY <2>1, <2>3, <3>1, WalkOf
  <2>5. VisitNext(w).queue = Tail(q) \o next /\ VisitNext(w).visited = v \cup {Head(q)}
    BY <2>1
  <2>6. \E more \in Seq(NotBefore(root)) : VisitNext(w).queue = Tail(w.queue) \o more
    BY <1>2, <2>2, <2>5
  <2>7. VisitNext(w).queue = Tail(w.queue) \o InOrder(Dsts(Head(w.queue)))
    BY <1>2, <2>5 DEF next
  <2> QED
    BY <1>2, <2>4, <2>5, <2>6, <2>7
<1> QED
  BY <1>3, <1>4

IsVisiting(f, root, steps) ==
    f = [n \in 0..steps |-> IF n = 0 THEN [queue |-> <<root>>, visited |-> {}] ELSE VisitNext(f[n - 1])]

LEMMA VisitingExists ==
    ASSUME NEW root, NEW steps \in Nat
    PROVE  \E f : IsVisiting(f, root, steps)
<1> DEFINE S == {m \in Nat : ~ \E f : IsVisiting(f, root, m)}
           begin == [queue |-> <<root>>, visited |-> {}]
<1>1. ASSUME S # {} PROVE FALSE
  <2>1. PICK m \in S : \A k \in S : m <= k
    BY <1>1, LeastIs
  <2>2. m # 0
    <3> DEFINE f == [k \in 0..0 |-> begin]
    <3>1. f = [k \in 0..0 |-> IF k = 0 THEN begin ELSE VisitNext(f[k - 1])]
      OBVIOUS
    <3>2. IsVisiting(f, root, 0)
      BY <3>1 DEF IsVisiting
    <3> QED
      BY <3>2
  <2>3. m - 1 \in Nat /\ m - 1 \notin S
    BY <2>1, <2>2
  <2>4. PICK f : IsVisiting(f, root, m - 1)
    BY <2>3
  <2> DEFINE h == [k \in 0..m |-> IF k = m THEN VisitNext(f[m - 1]) ELSE f[k]]
  <2>5. \A k \in 0..m - 1 : f[k] = IF k = 0 THEN begin ELSE VisitNext(f[k - 1])
    BY <2>4 DEF IsVisiting
  <2>6. \A k \in 0..m : h[k] = IF k = 0 THEN begin ELSE VisitNext(h[k - 1])
    <3> SUFFICES ASSUME NEW k \in 0..m PROVE h[k] = IF k = 0 THEN begin ELSE VisitNext(h[k - 1])
      OBVIOUS
    <3>1. CASE k = m
      BY <2>1, <2>2, <2>3, <3>1
    <3>2. CASE k # m
      <4>1. k \in 0..m - 1 /\ h[k] = f[k] /\ (k # 0 => k - 1 \in 0..m - 1 /\ h[k - 1] = f[k - 1])
        BY <2>1, <2>3, <3>2
      <4> QED
        BY <2>5, <4>1
    <3> QED
      BY <3>1, <3>2
  <2>7. IsVisiting(h, root, m)
    BY <2>6 DEF IsVisiting
  <2> QED
    BY <2>1, <2>7
<1> QED
  BY <1>1

\* The walk from a root, step by step.
LEMMA CorrChainWalks ==
    ASSUME CorrInv, NEW root \in Nat
    PROVE  \E f : /\ CorrChain(root) = f[Cardinality(links) + 1].visited
                  /\ f[0] = [queue |-> <<root>>, visited |-> {}]
                  /\ \A k \in 1..Cardinality(links) + 1 : f[k] = VisitNext(f[k - 1])
                  /\ \A k \in 0..Cardinality(links) + 1 : IsWalk(f[k], root)
<1> DEFINE steps == Cardinality(links) + 1
           f == CHOOSE g : IsVisiting(g, root, steps)
           S == {k \in Nat : k <= steps /\ ~IsWalk(f[k], root)}
<1>1. steps \in Nat
  BY FollowedAre
<1>2. IsVisiting(f, root, steps)
  <2>1. \E g : IsVisiting(g, root, steps)
    BY <1>1, VisitingExists
  <2> QED
    BY <2>1
<1>3. CorrChain(root) = f[steps].visited
  BY DEF CorrChain, IsVisiting
<1> HIDE DEF f
<1>4. \A k \in 0..steps : f[k] = IF k = 0 THEN [queue |-> <<root>>, visited |-> {}] ELSE VisitNext(f[k - 1])
  BY <1>2 DEF IsVisiting
<1> HIDE DEF steps
<1>5. ASSUME S # {} PROVE FALSE
  <2>1. PICK m \in S : \A k \in S : m <= k
    BY <1>5, LeastIs
  <2>2. m # 0
    <3>1. f[0] = [queue |-> <<root>>, visited |-> {}]
      BY <1>1, <1>4
    <3>2. root \in NotBefore(root)
      BY DEF NotBefore
    <3>3. <<root>> \in Seq(NotBefore(root)) /\ {} \in SUBSET NotBefore(root)
      BY <3>2
    <3>4. IsWalk(f[0], root)
      BY <3>1, <3>3, WalkOf
    <3> QED
      BY <2>1, <3>4
  <2>3. m - 1 \in Nat /\ IsWalk(f[m - 1], root)
    BY <1>1, <2>1, <2>2
  <2>4. f[m] = VisitNext(f[m - 1])
    BY <1>1, <1>4, <2>1, <2>2
  <2>5. CASE f[m - 1].queue = <<>>
    <3>1. VisitNext(f[m - 1]) = f[m - 1]
      BY <2>5 DEF VisitNext
    <3> QED
      BY <2>1, <2>3, <2>4, <3>1
  <2>6. CASE f[m - 1].queue # <<>>
    <3>1. IsWalk(VisitNext(f[m - 1]), root)
      BY <2>3, <2>6, VisitIs
    <3> QED
      BY <2>1, <2>4, <3>1
  <2> QED
    BY <2>5, <2>6
<1>6. \A k \in 0..steps : IsWalk(f[k], root)
  BY <1>1, <1>5
<1>7. /\ f[0] = [queue |-> <<root>>, visited |-> {}]
      /\ \A k \in 1..steps : f[k] = VisitNext(f[k - 1])
  <2>1. \A k \in 1..steps : k \in 0..steps /\ k # 0
    BY <1>1
  <2>2. 0 \in 0..steps
    BY <1>1
  <2> QED
    BY <1>4, <2>1, <2>2
<1> QED
  BY <1>3, <1>6, <1>7 DEF steps

LEMMA ChainsGoForward ==
    ASSUME CorrInv, NEW root \in Nat
    PROVE  \A n \in CorrChain(root) : root <= n
<1>1. PICK f : /\ CorrChain(root) = f[Cardinality(links) + 1].visited
               /\ \A k \in 0..Cardinality(links) + 1 : IsWalk(f[k], root)
  BY CorrChainWalks
<1>2. Cardinality(links) + 1 \in 0..Cardinality(links) + 1
  BY FollowedAre
<1>3. CorrChain(root) \subseteq NotBefore(root)
  BY <1>1, <1>2 DEF IsWalk
<1> QED
  BY <1>3 DEF NotBefore

\* After the first step the queue begins with what follows the root, and each step takes
\* one of these or finds it visited.
LEMMA FollowersAreVisited ==
    ASSUME CorrInv, NEW root \in Nat
    PROVE  Dsts(root) \subseteq CorrChain(root)
<1> DEFINE steps == Cardinality(links) + 1
           next == InOrder(Dsts(root))
<1>0. /\ steps \in Nat /\ Cardinality(links) \in Nat /\ Len(next) \in Nat /\ Len(next) < steps
      /\ DOMAIN next = 1..Len(next) /\ next \in Seq(NotBefore(root))
      /\ \A m \in Dsts(root) : \E j \in 1..Len(next) : next[j] = m
  <2>1. /\ Dsts(root) \in SUBSET (1..Len(stored)) /\ \A m \in Dsts(root) : root < m
        /\ Cardinality(Dsts(root)) <= Cardinality(links) /\ Cardinality(Dsts(root)) \in Nat
        /\ Cardinality(links) \in Nat
    BY FollowedAre
  <2>2. Len(stored) \in Nat
    BY SeqFacts DEF CorrInv
  <2>3. /\ next \in Seq(Dsts(root)) /\ Len(next) = Cardinality(Dsts(root))
        /\ DOMAIN next = 1..Cardinality(Dsts(root))
        /\ \A m \in Dsts(root) : Rank(Dsts(root), m) \in DOMAIN next /\ next[Rank(Dsts(root), m)] = m
    BY <2>1, <2>2, InOrderFacts
  <2>4. Dsts(root) \subseteq NotBefore(root)
    BY <2>1, <2>2 DEF NotBefore
  <2>5. next \in Seq(NotBefore(root))
    BY <2>3, <2>4, SeqMonotonic
  <2> HIDE DEF next
  <2> QED
    BY <2>1, <2>3, <2>5
<1>1. PICK f : /\ CorrChain(root) = f[steps].visited
               /\ f[0] = [queue |-> <<root>>, visited |-> {}]
               /\ \A k \in 1..steps : f[k] = VisitNext(f[k - 1])
               /\ \A k \in 0..steps : IsWalk(f[k], root)
  BY CorrChainWalks
<1> DEFINE Reached(k) ==
              \A j \in 1..Len(next) :
                 /\ j < k => next[j] \in f[k].visited
                 /\ j >= k => j - k + 1 \in 1..Len(f[k].queue) /\ f[k].queue[j - k + 1] = next[j]
           S == {k \in Nat : k \in 1..steps /\ ~Reached(k)}
<1>2. f[1].queue = next
  <2>1. f[1] = VisitNext(f[0]) /\ IsWalk(f[0], root)
    <3>1. 1 \in 1..steps /\ 0 \in 0..steps
      BY <1>0
    <3> QED
      BY <1>1, <3>1
  <2>2. f[0].queue = <<root>> /\ f[0].visited = {}
    BY <1>1
  <2>3. f[0].queue # <<>> /\ Head(f[0].queue) = root /\ Tail(f[0].queue) = <<>>
    BY <2>2
  <2>4. f[1].queue = <<>> \o next
    BY <2>1, <2>2, <2>3, VisitIs
  <2>5. <<>> \o next = next
    BY <1>0
  <2> QED
    BY <2>4, <2>5
<1> HIDE DEF next, steps
<1>3. ASSUME S # {} PROVE FALSE
  <2>1. PICK m \in S : \A k \in S : m <= k
    BY <1>3, LeastIs
  <2>2. m # 1
    <3>1. Reached(1)
      BY <1>0, <1>2
    <3> QED
      BY <2>1, <3>1
  <2>3. m - 1 \in Nat /\ m - 1 \in 1..steps /\ Reached(m - 1) /\ f[m] = VisitNext(f[m - 1]) /\ m \in Nat
    <3>1. m \in 1..steps /\ m \in Nat /\ m - 1 \in 1..steps /\ m - 1 \in Nat /\ ~(m <= m - 1)
      BY <1>0, <2>1, <2>2
    <3>2. m - 1 \notin S
      BY <2>1, <3>1
    <3> HIDE DEF Reached
    <3>3. Reached(m - 1)
      BY <3>1, <3>2
    <3>4. f[m] = VisitNext(f[m - 1])
      BY <1>1, <3>1
    <3> QED
      BY <3>1, <3>3, <3>4
  <2>4. IsWalk(f[m - 1], root)
    BY <1>0, <1>1, <2>3
  <2>5. CASE f[m - 1].queue = <<>>
    <3>1. f[m] = f[m - 1]
      BY <2>3, <2>5 DEF VisitNext
    <3>2. Len(f[m - 1].queue) = 0
      BY <2>5
    <3>3. \A j \in 1..Len(next) : j < m - 1
      BY <1>0, <2>3, <3>2
    <3>4. Reached(m)
      BY <1>0, <2>3, <3>1, <3>3
    <3> QED
      BY <2>1, <3>4
  <2>6. CASE f[m - 1].queue # <<>>
    <3>1. PICK q : q = f[m - 1].queue /\ q \in Seq(NotBefore(root)) /\ q # <<>>
      BY <2>4, <2>6 DEF IsWalk
    <3>2. PICK more \in Seq(NotBefore(root)) : f[m].queue = Tail(q) \o more
      <4>1. \E more \in Seq(NotBefore(root)) : VisitNext(f[m - 1]).queue = Tail(f[m - 1].queue) \o more
        BY <2>4, <2>6, VisitIs
      <4>2. f[m] = VisitNext(f[m - 1])
        BY <2>3
      <4> QED
        BY <3>1, <4>1, <4>2
    <3>3. f[m].visited = f[m - 1].visited \cup {Head(q)}
      BY <2>3, <2>4, <2>6, <3>1, VisitIs
    <3>4. /\ Tail(q) \in Seq(NotBefore(root)) /\ Len(Tail(q)) = Len(q) - 1 /\ Len(q) \in Nat \ {0}
          /\ \A i \in 1..Len(q) - 1 : Tail(q)[i] = q[i + 1]
          /\ Head(q) = q[1]
      BY <3>1
    <3>5. /\ Len(Tail(q) \o more) = Len(Tail(q)) + Len(more) /\ Len(more) \in Nat
          /\ \A i \in 1..Len(Tail(q)) : (Tail(q) \o more)[i] = Tail(q)[i]
      BY <3>2, <3>4, ConcatFacts
    <3>6. ASSUME NEW j \in 1..Len(next), j < m PROVE next[j] \in f[m].visited
      <4>1. CASE j < m - 1
        BY <2>3, <3>3, <4>1
      <4>2. CASE j = m - 1
        <5>1. j - (m - 1) + 1 = 1 /\ j >= m - 1
          BY <2>3, <4>2
        <5>2. q[1] = next[j]
          BY <2>3, <3>1, <5>1
        <5> QED
          BY <3>3, <3>4, <5>2
      <4> QED
        BY <1>0, <2>3, <3>6, <4>1, <4>2
    <3>7. ASSUME NEW j \in 1..Len(next), j >= m
          PROVE  j - m + 1 \in 1..Len(f[m].queue) /\ f[m].queue[j - m + 1] = next[j]
      <4>1. j - (m - 1) + 1 \in 1..Len(q) /\ q[j - (m - 1) + 1] = next[j]
        <5>1. j >= m - 1
          BY <1>0, <2>3, <3>7
        <5> QED
          BY <2>3, <3>1, <5>1
      <4>2. j - m + 1 \in 1..Len(q) - 1 /\ (j - m + 1) + 1 = j - (m - 1) + 1
        BY <1>0, <2>3, <3>4, <3>7, <4>1
      <4>3. Tail(q)[j - m + 1] = next[j]
        BY <3>4, <4>1, <4>2
      <4> QED
        BY <3>2, <3>4, <3>5, <4>2, <4>3
    <3>8. Reached(m)
      BY <3>6, <3>7
    <3> QED
      BY <2>1, <3>8
  <2> QED
    BY <2>5, <2>6
<1>4. Reached(steps)
  <2>1. steps \in 1..steps
    BY <1>0
  <2> QED
    BY <1>0, <1>3, <2>1
<1>5. \A j \in 1..Len(next) : next[j] \in CorrChain(root)
  BY <1>0, <1>1, <1>4
<1> QED
  BY <1>0, <1>5

LEMMA ChainsShow == CorrInv => ChainHoldsTheRest
<1> SUFFICES ASSUME CorrInv PROVE ChainHoldsTheRest
  OBVIOUS
<1>0. DOMAIN stored = 1..Len(stored) /\ Len(stored) \in Nat
  BY SeqFacts DEF CorrInv
<1>1. ASSUME NEW n \in DOMAIN stored, NEW m \in DOMAIN stored, Consecutive(n, m),
             NEW x \in links, x.relation = "temporal", x.dst = m,
             ~(Cardinality(Leaving(n)) > FanOut)
      PROVE  m \in CorrChain(n)
  <2>1. /\ x.src \in 1..Len(stored) /\ x.src < m /\ stored[x.src] = stored[m]
        /\ \A k \in x.src + 1..m - 1 : stored[k] # stored[x.src]
    BY <1>1 DEF CorrInv, LinkInv, Consecutive
  <2>2. /\ n < m /\ stored[n] = stored[m] /\ \A k \in n + 1..m - 1 : stored[k] # stored[n]
    BY <1>1 DEF Consecutive
  <2>3. x.src = n
    <3>1. ~(x.src < n)
      <4>1. x.src < n => n \in x.src + 1..m - 1
        BY <1>0, <2>1, <2>2
      <4> QED
        BY <2>1, <2>2, <4>1
    <3>2. ~(n < x.src)
      <4>1. n < x.src => x.src \in n + 1..m - 1
        BY <1>0, <2>1, <2>2
      <4> QED
        BY <2>1, <2>2, <4>1
    <3> QED
      BY <1>0, <2>1, <3>1, <3>2
  <2>4. n \in Nat
    BY <1>0
  <2>5. x \in Followed(n)
    <3>1. Followed(n) = Leaving(n)
      BY <1>1, <2>4, FollowedAre
    <3> QED
      BY <2>3, <3>1 DEF Leaving
  <2>6. m \in Dsts(n)
    BY <1>1, <2>5 DEF Dsts
  <2> QED
    BY <2>4, <2>6, FollowersAreVisited
<1>2. ASSUME NEW root \in Roots, NEW n \in CorrChain(root) PROVE root <= n
  <2>1. root \in Nat
    BY <1>0 DEF Roots
  <2> QED
    BY <2>1, ChainsGoForward
<1> QED
  BY <1>1, <1>2 DEF ChainHoldsTheRest

-----------------------------------------------------------------------------
(* The live graph.  Whatever was evicted, an edge of the table is listed at    *)
(* both its ends.                                                            *)
ListedAtBothEnds(g, x) ==
    /\ [at |-> x.source, to |-> x.target, relation |-> x.relation] \in ToSet(g.adjacency)
    /\ [at |-> x.target, to |-> x.source, relation |-> x.relation] \in ToSet(g.adjacency)

GoodLayer(g) ==
    /\ g = [nodes |-> g.nodes, edges |-> g.edges, adjacency |-> g.adjacency,
            nodeCount |-> g.nodeCount, edgeCount |-> g.edgeCount]
    /\ IsSeq(g.edges) /\ IsSeq(g.adjacency)
    /\ \A x \in ToSet(g.edges) : x = LiveEdge(x.source, x.target, x.relation) /\ ListedAtBothEnds(g, x)

LEMMA LiveGraphStarts == InitLiveGraph => GoodLayer(live)
<1> SUFFICES ASSUME InitLiveGraph PROVE GoodLayer(live)
  OBVIOUS
<1>1. ToSet(<<>>) = {} /\ IsSeq(<<>>)
  BY NoElements, SeqFacts
<1>2. live = [nodes |-> <<>>, edges |-> <<>>, adjacency |-> <<>>, nodeCount |-> 0, edgeCount |-> 0]
  BY DEF InitLiveGraph, EmptyLayer
<1> QED
  BY <1>1, <1>2 DEF GoodLayer

LEMMA SeenIs ==
    ASSUME NEW order, IsSeq(order), NEW x
    PROVE  IsSeq(Seen(order, x)) /\ ToSet(Seen(order, x)) = ToSet(order) \cup {x}
<1> DEFINE S == {i \in DOMAIN order : order[i] # x}
           p == Picked(order, S)
<1>1. DOMAIN order = 1..Len(order) /\ Len(order) \in Nat
  BY SeqFacts
<1>2. Seen(order, x) = Append(p, x)
  BY DEF Seen, Selected, Positions, Picked
<1>3. Len(p) \in Nat /\ DOMAIN p = 1..Len(p) /\ ToSet(p) = {order[i] : i \in S}
  <2>1. S \in SUBSET (1..Len(order))
    BY <1>1
  <2> HIDE DEF S
  <2> QED
    BY <1>1, <2>1, PickedAre
<1>4. p = [i \in DOMAIN p |-> p[i]]
  BY DEF Picked
<1>5. ToSet(order) \cup {x} = ToSet(p) \cup {x}
  BY <1>3 DEF ToSet
<1> HIDE DEF p
<1>6. IsSeq(p)
  BY <1>3, <1>4, SeqFacts
<1>7. PICK q \in Seq(ToSet(p) \cup {x}) : q = p
  BY <1>6, SeqMonotonic DEF IsSeq
<1>8. Append(q, x) \in Seq(ToSet(p) \cup {x}) /\ ToSet(Append(q, x)) = ToSet(q) \cup {x}
  <2>1. PICK U : U = ToSet(p) \cup {x}
    OBVIOUS
  <2>2. q \in Seq(U) /\ x \in U
    BY <1>7, <2>1
  <2> QED
    BY <2>1, <2>2, AppendFacts
<1> QED
  BY <1>2, <1>5, <1>6, <1>7, <1>8, SeqFacts

LEMMA MakeRoomIs ==
    ASSUME NEW order, IsSeq(order), NEW max \in Nat \ {0}
    PROVE  IsSeq(MakeRoom(order, max)) /\ ToSet(MakeRoom(order, max)) \subseteq ToSet(order)
<1>1. CASE Len(order) >= max
  <2>1. PICK j \in Nat : j = max \div 4 /\ j <= max
    OBVIOUS
  <2>2. Len(order) \in Nat /\ j <= Len(order) /\ order \in Seq(ToSet(order))
    BY <1>1, <2>1, SeqFacts DEF IsSeq
  <2>3. MakeRoom(order, max) = SubSeq(order, j + 1, Len(order))
    BY <1>1, <2>1 DEF MakeRoom
  <2>4. PICK U : U = ToSet(order)
    OBVIOUS
  <2>5. PICK p \in Seq(U) : p = SubSeq(order, j + 1, Len(order))
    <3>1. SubSeq(order, j + 1, Len(order)) \in Seq(U)
      BY <2>2, <2>4, PieceFacts
    <3> QED
      BY <3>1
  <2>6. IsSeq(p) /\ ToSet(p) \subseteq U
    BY SeqFacts, ElementsOf
  <2> QED
    BY <2>3, <2>4, <2>5, <2>6
<1>2. CASE ~(Len(order) >= max)
  BY <1>2 DEF MakeRoom
<1> QED
  BY <1>1, <1>2

LEMMA SeeNodeKeeps ==
    ASSUME NEW g, GoodLayer(g), NEW id
    PROVE  GoodLayer(SeeNode(g, id))
<1>1. PICK h : h = SeeNode(g, id)
  OBVIOUS
<1>2. /\ h.edges = g.edges /\ h.adjacency = g.adjacency
      /\ h = [nodes |-> h.nodes, edges |-> h.edges, adjacency |-> h.adjacency,
              nodeCount |-> h.nodeCount, edgeCount |-> h.edgeCount]
  BY <1>1 DEF SeeNode, GoodLayer
<1>3. GoodLayer(h)
  BY <1>2 DEF GoodLayer, ListedAtBothEnds
<1> QED
  BY <1>1, <1>3

LEMMA AddLiveEdgeKeeps ==
    ASSUME NEW g, GoodLayer(g), NEW from, NEW target, NEW relation
    PROVE  GoodLayer(AddLiveEdge(g, LiveEdge(from, target, relation)))
<1> DEFINE there == [at |-> from, to |-> target, relation |-> relation]
           back == [at |-> target, to |-> from, relation |-> relation]
<1>0. PICK edge : /\ edge = LiveEdge(from, target, relation)
                  /\ edge.source = from /\ edge.target = target /\ edge.relation = relation
  <2>1. PICK edge : edge = LiveEdge(from, target, relation)
    OBVIOUS
  <2>2. edge.source = from /\ edge.target = target /\ edge.relation = relation
    BY <2>1 DEF LiveEdge
  <2> QED
    BY <2>1, <2>2
<1>1. PICK h : h = AddLiveEdge(g, edge)
  OBVIOUS
<1>2. CASE edge \in ToSet(g.edges)
  <2>1. h = [g EXCEPT !.edges = Seen(g.edges, edge)]
    BY <1>1, <1>2 DEF AddLiveEdge
  <2>2. /\ h.edges = Seen(g.edges, edge) /\ h.adjacency = g.adjacency
        /\ h = [nodes |-> h.nodes, edges |-> h.edges, adjacency |-> h.adjacency,
                nodeCount |-> h.nodeCount, edgeCount |-> h.edgeCount]
    BY <2>1 DEF GoodLayer
  <2>3. IsSeq(h.edges) /\ ToSet(h.edges) = ToSet(g.edges)
    <3>1. IsSeq(g.edges)
      BY DEF GoodLayer
    <3>2. IsSeq(Seen(g.edges, edge)) /\ ToSet(Seen(g.edges, edge)) = ToSet(g.edges) \cup {edge}
      BY <3>1, SeenIs
    <3> QED
      BY <1>2, <2>2, <3>2
  <2>4. GoodLayer(h)
    BY <2>2, <2>3 DEF GoodLayer, ListedAtBothEnds
  <2> QED
    BY <1>0, <1>1, <2>4
<1>3. CASE edge \notin ToSet(g.edges)
  <2>1. h = [g EXCEPT !.edges = Append(MakeRoom(g.edges, MaxLiveEdges), edge), !.edgeCount = @ + 1,
                      !.adjacency = g.adjacency \o <<there, back>>]
    BY <1>0, <1>1, <1>3 DEF AddLiveEdge
  <2>2. /\ h.edges = Append(MakeRoom(g.edges, MaxLiveEdges), edge)
        /\ h.adjacency = g.adjacency \o <<there, back>>
        /\ h = [nodes |-> h.nodes, edges |-> h.edges, adjacency |-> h.adjacency,
                nodeCount |-> h.nodeCount, edgeCount |-> h.edgeCount]
    BY <2>1 DEF GoodLayer
  <2> HIDE DEF there, back
  <2>3. IsSeq(h.edges) /\ ToSet(h.edges) \subseteq ToSet(g.edges) \cup {edge}
    <3>1. PICK kept : kept = MakeRoom(g.edges, MaxLiveEdges) /\ IsSeq(kept) /\ ToSet(kept) \subseteq ToSet(g.edges)
      BY MakeRoomIs, LiveGraphAssumption DEF GoodLayer
    <3>2. PICK U : U = ToSet(kept) \cup {edge} /\ kept \in Seq(U)
      <4>1. ToSet(kept) \subseteq ToSet(kept) \cup {edge} /\ kept \in Seq(ToSet(kept))
        BY <3>1 DEF IsSeq
      <4>2. kept \in Seq(ToSet(kept) \cup {edge})
        BY <4>1, SeqMonotonic
      <4> QED
        BY <4>2
    <3>3. ToSet(Append(kept, edge)) = ToSet(kept) \cup {edge}
      BY <3>2, AppendFacts
    <3> QED
      BY <2>2, <3>1, <3>3, SeqFacts
  <2>4. IsSeq(h.adjacency) /\ ToSet(h.adjacency) = ToSet(g.adjacency) \cup {there, back}
    <3>1. <<there, back>> \in Seq({there, back}) /\ ToSet(<<there, back>>) = {there, back}
      BY DEF ToSet
    <3>2. PICK p, U : p = <<there, back>> /\ U = ToSet(g.adjacency) \cup {there, back}
                      /\ ToSet(p) = {there, back} /\ p \in Seq({there, back})
      BY <3>1
    <3>3. g.adjacency \in Seq(U) /\ p \in Seq(U)
      BY <3>2, SeqMonotonic DEF GoodLayer, IsSeq
    <3>4. g.adjacency \o p \in Seq(U) /\ ToSet(g.adjacency \o p) = ToSet(g.adjacency) \cup ToSet(p)
      BY <3>3, ConcatFacts
    <3> QED
      BY <2>2, <3>2, <3>4, SeqFacts
  <2>5. ASSUME NEW x \in ToSet(h.edges)
        PROVE  x = LiveEdge(x.source, x.target, x.relation) /\ ListedAtBothEnds(h, x)
    <3>1. CASE x \in ToSet(g.edges)
      BY <2>4, <3>1 DEF GoodLayer, ListedAtBothEnds
    <3>2. CASE x = edge
      BY <1>0, <2>4, <3>2 DEF ListedAtBothEnds, there, back
    <3> QED
      BY <2>3, <3>1, <3>2
  <2>6. GoodLayer(h)
    BY <2>2, <2>3, <2>4, <2>5 DEF GoodLayer
  <2> QED
    BY <1>0, <1>1, <2>6
<1> QED
  BY <1>2, <1>3

LEMMA IngestLiveKeeps ==
    ASSUME NEW g, GoodLayer(g), NEW e, NEW number
    PROVE  GoodLayer(IngestLive(g, e, number))
<1> DEFINE own == SeeNode(g, <<"entity", number, Category(e)>>)
<1>1. GoodLayer(own)
  BY SeeNodeKeeps
<1>2. GoodLayer(SeeNode(own, Subject(e)))
  BY <1>1, SeeNodeKeeps
<1>3. PICK from, target, relation : SubjectEdge(e) = LiveEdge(from, target, relation)
  BY DEF SubjectEdge
<1>4. GoodLayer(AddLiveEdge(SeeNode(own, Subject(e)), SubjectEdge(e)))
  BY <1>2, <1>3, AddLiveEdgeKeeps
<1>5. \/ IngestLive(g, e, number) = own
      \/ IngestLive(g, e, number) = SeeNode(own, Subject(e))
      \/ IngestLive(g, e, number) = AddLiveEdge(SeeNode(own, Subject(e)), SubjectEdge(e))
  BY DEF IngestLive
<1> QED
  BY <1>1, <1>2, <1>4, <1>5

(* The walk over it.                                                         *)
Waiting(g, start) == ({start} \cup {y.to : y \in ToSet(g.adjacency)}) \X Nat
ListedAt(g, id) == {i \in DOMAIN g.adjacency : g.adjacency[i].at = id}
Leads(g, id, depth) == [i \in DOMAIN Neighbours(g, id) |-> <<Neighbours(g, id)[i].to, depth + 1>>]

LEMMA ListIs ==
    ASSUME NEW g, GoodLayer(g), NEW id
    PROVE  /\ DOMAIN Neighbours(g, id) = 1..Cardinality(ListedAt(g, id)) /\ Cardinality(ListedAt(g, id)) \in Nat
           /\ ToSet(Neighbours(g, id)) = {y \in ToSet(g.adjacency) : y.at = id}
           /\ IsFiniteSet(ListedAt(g, id))
<1>1. DOMAIN g.adjacency = 1..Len(g.adjacency) /\ Len(g.adjacency) \in Nat
  BY SeqFacts DEF GoodLayer
<1>0. Neighbours(g, id) = Picked(g.adjacency, ListedAt(g, id))
  BY DEF Neighbours, Selected, Positions, Picked, ListedAt
<1>2. ListedAt(g, id) \in SUBSET (1..Len(g.adjacency))
  BY <1>1 DEF ListedAt
<1>3. ToSet(Neighbours(g, id)) = {g.adjacency[i] : i \in ListedAt(g, id)}
  <2>1. PICK a, S : a = g.adjacency /\ S = ListedAt(g, id)
    OBVIOUS
  <2>2. PICK n : n \in Nat /\ S \in SUBSET (1..n)
    <3>1. Len(g.adjacency) \in Nat /\ S \in SUBSET (1..Len(g.adjacency))
      BY <1>1, <1>2, <2>1
    <3> QED
      BY <3>1, Zenon
  <2>3. ToSet(Picked(a, S)) = {a[i] : i \in S}
    BY <2>2, PickedAre
  <2> QED
    BY <1>0, <2>1, <2>3
<1>4. DOMAIN InOrder(ListedAt(g, id)) = 1..Cardinality(ListedAt(g, id)) /\ Cardinality(ListedAt(g, id)) \in Nat
  BY <1>1, <1>2, InOrderFacts
<1>5. DOMAIN Neighbours(g, id) = DOMAIN InOrder(ListedAt(g, id))
  BY <1>0 DEF Picked
<1>6. {g.adjacency[i] : i \in ListedAt(g, id)} = {y \in ToSet(g.adjacency) : y.at = id}
  BY DEF ListedAt, ToSet
<1>7. IsFiniteSet(ListedAt(g, id))
  <2>1. IsFiniteSet(1..Len(g.adjacency))
    BY <1>1, FS_Interval
  <2> QED
    BY <1>2, <2>1, FS_Subset
<1> QED
  BY <1>3, <1>4, <1>5, <1>6, <1>7

LEMMA LeadsAre ==
    ASSUME NEW g, GoodLayer(g), NEW start, NEW id, NEW depth \in Nat
    PROVE  /\ Leads(g, id, depth) \in Seq(Waiting(g, start))
           /\ Len(Leads(g, id, depth)) = Cardinality(ListedAt(g, id))
           /\ \A i \in DOMAIN Leads(g, id, depth) : Leads(g, id, depth)[i][2] = depth + 1
           /\ \A y \in ToSet(g.adjacency) : y.at = id => <<y.to, depth + 1>> \in ToSet(Leads(g, id, depth))
<1> DEFINE list == Neighbours(g, id)
           n == Cardinality(ListedAt(g, id))
<1>1. DOMAIN list = 1..n /\ n \in Nat /\ ToSet(list) = {y \in ToSet(g.adjacency) : y.at = id}
  BY ListIs
<1>2. Leads(g, id, depth) = [i \in DOMAIN list |-> <<list[i].to, depth + 1>>]
  BY DEF Leads
<1> HIDE DEF list, n
<1>3. \A i \in DOMAIN list : list[i] \in ToSet(g.adjacency)
  BY <1>1 DEF ToSet
<1>4. \A i \in 1..n : <<list[i].to, depth + 1>> \in Waiting(g, start)
  BY <1>1, <1>3 DEF Waiting
<1>5. Leads(g, id, depth) \in [1..n -> Waiting(g, start)]
  BY <1>1, <1>2, <1>4
<1>6. Leads(g, id, depth) \in Seq(Waiting(g, start)) /\ Len(Leads(g, id, depth)) = n
  BY <1>1, <1>5, IsASeq
<1>7. ASSUME NEW i \in DOMAIN Leads(g, id, depth) PROVE Leads(g, id, depth)[i][2] = depth + 1
  <2>1. Leads(g, id, depth)[i] = <<list[i].to, depth + 1>>
    BY <1>2
  <2> QED
    BY <2>1
<1>8. ASSUME NEW y \in ToSet(g.adjacency), y.at = id PROVE <<y.to, depth + 1>> \in ToSet(Leads(g, id, depth))
  <2>1. PICK i \in DOMAIN list : list[i] = y
    BY <1>1, <1>8 DEF ToSet
  <2>2. Leads(g, id, depth)[i] = <<y.to, depth + 1>> /\ i \in DOMAIN Leads(g, id, depth)
    BY <1>2, <2>1
  <2> QED
    BY <2>2 DEF ToSet
<1> QED
  BY <1>6, <1>7, <1>8 DEF n

\* A queue in the order of its depths, which differ by at most one.
Ordered(q) ==
    /\ \A i, j \in DOMAIN q : i < j => q[i][2] <= q[j][2]
    /\ \A i \in DOMAIN q : q[i][2] <= q[1][2] + 1

\* D says at which depth each visited node was visited.
Reached(w, D, id, depth) ==
    \/ id \in w.visited /\ D[id] <= depth
    \/ <<id, depth>> \in ToSet(w.queue)

IsBreadth(w, D, g, start, max) ==
    /\ w.queue \in Seq(Waiting(g, start)) /\ Ordered(w.queue)
    /\ w = [queue |-> w.queue, visited |-> w.visited, nodes |-> w.nodes, edges |-> w.edges]
    /\ \A v \in w.visited : D[v] \in Nat /\ \A i \in DOMAIN w.queue : D[v] <= w.queue[i][2]
    /\ w.nodes = w.visited \cap ToSet(g.nodes)
    /\ w.edges = {x \in ToSet(g.edges) : x.source \in w.nodes}
    /\ Reached(w, D, start, 0)
    /\ \A y \in ToSet(g.adjacency) :
          y.at \in w.nodes /\ D[y.at] < max => Reached(w, D, y.to, D[y.at] + 1)

\* What a walk may still pop.
Unwalked(w, g) == {i \in DOMAIN g.adjacency : g.adjacency[i].at \notin w.nodes}
Left(w, g) == Len(w.queue) + Cardinality(Unwalked(w, g))

LEMMA QueueTail ==
    ASSUME NEW g, NEW start, NEW q \in Seq(Waiting(g, start)), q # <<>>, Ordered(q)
    PROVE  /\ Head(q) \in Waiting(g, start) /\ Head(q)[2] \in Nat /\ Head(q) = <<Head(q)[1], Head(q)[2]>>
           /\ Head(q) = q[1] /\ 1 \in DOMAIN q
           /\ Tail(q) \in Seq(Waiting(g, start)) /\ Len(q) = Len(Tail(q)) + 1 /\ Len(Tail(q)) \in Nat
           /\ ToSet(q) \subseteq {Head(q)} \cup ToSet(Tail(q)) /\ Ordered(Tail(q))
           /\ \A i \in DOMAIN Tail(q) : /\ Head(q)[2] <= Tail(q)[i][2] /\ Tail(q)[i][2] <= Head(q)[2] + 1
                                        /\ Tail(q)[i][2] \in Nat
<1>1. /\ Len(q) \in Nat /\ Len(q) >= 1 /\ DOMAIN q = 1..Len(q) /\ \A i \in 1..Len(q) : q[i] \in Waiting(g, start)
      /\ Head(q) = q[1]
  OBVIOUS
<1>2. PICK r \in Seq(Waiting(g, start)) : /\ r = Tail(q) /\ Len(r) = Len(q) - 1 /\ DOMAIN r = 1..Len(q) - 1
                                          /\ \A i \in 1..Len(q) - 1 : r[i] = q[i + 1]
  <2>1. /\ Tail(q) \in Seq(Waiting(g, start)) /\ Len(Tail(q)) = Len(q) - 1 /\ DOMAIN Tail(q) = 1..Len(q) - 1
        /\ \A i \in 1..Len(q) - 1 : Tail(q)[i] = q[i + 1]
    <3> HIDE DEF Waiting
    <3> QED
      OBVIOUS
  <2> QED
    BY <2>1
<1>3. \A i \in 1..Len(q) : q[i][2] \in Nat /\ q[i] = <<q[i][1], q[i][2]>>
  BY <1>1 DEF Waiting
<1>4. /\ \A i, j \in 1..Len(q) : i < j => q[i][2] <= q[j][2]
      /\ \A i \in 1..Len(q) : q[i][2] <= q[1][2] + 1
  BY <1>1 DEF Ordered
<1>5. \A i \in 1..Len(q) - 1 : i + 1 \in 1..Len(q) /\ 1 < i + 1
  BY <1>1
<1>6. ASSUME NEW i \in DOMAIN r PROVE q[1][2] <= r[i][2] /\ r[i][2] <= q[1][2] + 1 /\ r[i][2] \in Nat
  <2>1. i + 1 \in 1..Len(q) /\ 1 < i + 1 /\ r[i] = q[i + 1] /\ 1 \in 1..Len(q)
    BY <1>1, <1>2, <1>5
  <2> QED
    BY <1>3, <1>4, <2>1
<1>7. Ordered(r)
  <2>1. ASSUME NEW i \in DOMAIN r, NEW j \in DOMAIN r, i < j PROVE r[i][2] <= r[j][2]
    <3>1. i + 1 \in 1..Len(q) /\ j + 1 \in 1..Len(q) /\ i + 1 < j + 1 /\ r[i] = q[i + 1] /\ r[j] = q[j + 1]
      BY <1>1, <1>2, <1>5, <2>1
    <3> QED
      BY <1>4, <3>1
  <2>2. ASSUME NEW i \in DOMAIN r PROVE r[i][2] <= r[1][2] + 1
    <3>1. 1 \in DOMAIN r
      BY <1>1, <1>2, <2>2
    <3>2. q[1][2] \in Nat
      BY <1>1, <1>3
    <3> QED
      BY <1>6, <2>2, <3>1, <3>2
  <2> QED
    BY <2>1, <2>2 DEF Ordered
<1>8. ToSet(q) \subseteq {q[1]} \cup ToSet(r)
  <2>1. ASSUME NEW i \in 1..Len(q) PROVE q[i] = q[1] \/ q[i] \in ToSet(r)
    <3>1. CASE i = 1
      BY <3>1
    <3>2. CASE i # 1
      <4>1. i - 1 \in 1..Len(q) - 1 /\ r[i - 1] = q[i] /\ i - 1 \in DOMAIN r
        BY <1>1, <1>2, <3>2
      <4> QED
        BY <4>1 DEF ToSet
    <3> QED
      BY <3>1, <3>2
  <2> QED
    BY <1>1, <2>1 DEF ToSet
<1> QED
  BY <1>1, <1>2, <1>3, <1>6, <1>7, <1>8

LEMMA QueueGrows ==
    ASSUME NEW g, NEW start, NEW q \in Seq(Waiting(g, start)), NEW p \in Seq(Waiting(g, start)),
           NEW h \in Nat, Ordered(q),
           \A i \in DOMAIN q : h <= q[i][2] /\ q[i][2] <= h + 1 /\ q[i][2] \in Nat,
           \A i \in DOMAIN p : p[i][2] = h + 1
    PROVE  /\ q \o p \in Seq(Waiting(g, start)) /\ Len(q \o p) = Len(q) + Len(p) /\ Ordered(q \o p)
           /\ ToSet(q \o p) = ToSet(q) \cup ToSet(p)
           /\ \A i \in DOMAIN (q \o p) : h <= (q \o p)[i][2]
<1>1. PICK r \in Seq(Waiting(g, start)) :
         /\ r = q \o p /\ Len(r) = Len(q) + Len(p) /\ DOMAIN r = 1..Len(q) + Len(p)
         /\ \A i \in 1..Len(q) + Len(p) : r[i] = IF i <= Len(q) THEN q[i] ELSE p[i - Len(q)]
         /\ ToSet(r) = ToSet(q) \cup ToSet(p)
  <2>1. ASSUME NEW U, NEW a \in Seq(U), NEW b \in Seq(U)
        PROVE  /\ a \o b \in Seq(U) /\ Len(a \o b) = Len(a) + Len(b)
               /\ DOMAIN (a \o b) = 1..Len(a) + Len(b)
               /\ \A i \in 1..Len(a) + Len(b) : (a \o b)[i] = IF i <= Len(a) THEN a[i] ELSE b[i - Len(a)]
               /\ ToSet(a \o b) = ToSet(a) \cup ToSet(b)
    <3>1. DOMAIN (a \o b) = 1..Len(a \o b)
      OBVIOUS
    <3> QED
      BY <3>1, ConcatFacts
  <2>2. PICK r : r = q \o p
    OBVIOUS
  <2>3. /\ r \in Seq(Waiting(g, start)) /\ Len(r) = Len(q) + Len(p) /\ DOMAIN r = 1..Len(q) + Len(p)
        /\ \A i \in 1..Len(q) + Len(p) : r[i] = IF i <= Len(q) THEN q[i] ELSE p[i - Len(q)]
        /\ ToSet(r) = ToSet(q) \cup ToSet(p)
    BY <2>1, <2>2
  <2> QED
    BY <2>2, <2>3
<1>2. /\ DOMAIN q = 1..Len(q) /\ DOMAIN p = 1..Len(p) /\ Len(q) \in Nat /\ Len(p) \in Nat
  OBVIOUS
<1>3. ASSUME NEW i \in DOMAIN r
      PROVE  \/ i \in DOMAIN q /\ r[i] = q[i]
             \/ i > Len(q) /\ r[i][2] = h + 1
  <2>1. CASE i <= Len(q)
    BY <1>1, <1>2, <2>1
  <2>2. CASE i > Len(q)
    <3>1. i - Len(q) \in DOMAIN p /\ r[i] = p[i - Len(q)]
      BY <1>1, <1>2, <2>2
    <3> QED
      BY <2>2, <3>1
  <2> QED
    BY <1>1, <1>2, <2>1, <2>2
<1>4. \A i \in DOMAIN r : h <= r[i][2] /\ r[i][2] <= h + 1 /\ r[i][2] \in Nat
  BY <1>3
<1>5. ASSUME NEW i \in DOMAIN r, NEW j \in DOMAIN r, i < j PROVE r[i][2] <= r[j][2]
  <2>1. CASE j \in DOMAIN q /\ r[j] = q[j]
    <3>1. i \in DOMAIN q /\ r[i] = q[i]
      BY <1>1, <1>2, <1>3, <1>5, <2>1
    <3> QED
      BY <1>5, <2>1, <3>1 DEF Ordered
  <2>2. CASE r[j][2] = h + 1
    BY <1>4, <2>2
  <2> QED
    BY <1>3, <2>1, <2>2
<1>6. ASSUME NEW i \in DOMAIN r PROVE r[i][2] <= r[1][2] + 1
  <2>1. 1 \in DOMAIN r
    BY <1>1, <1>2
  <2> QED
    BY <1>4, <2>1
<1>7. Ordered(r)
  BY <1>5, <1>6 DEF Ordered
<1> QED
  BY <1>1, <1>4, <1>7

LEMMA ReachedStays ==
    ASSUME NEW w, NEW w2, NEW D, NEW D2, NEW max \in Nat, NEW id, NEW depth \in Nat, depth <= max,
           NEW head, head[2] \in Nat, Reached(w, D, id, depth),
           ToSet(w.queue) \subseteq {head} \cup ToSet(w2.queue),
           \A v \in w.visited : v \in w2.visited /\ D2[v] = D[v],
           head[2] > max \/ (head[1] \in w2.visited /\ D2[head[1]] <= head[2])
    PROVE  Reached(w2, D2, id, depth)
<1>1. CASE id \in w.visited /\ D[id] <= depth
  BY <1>1 DEF Reached
<1>2. CASE <<id, depth>> \in ToSet(w.queue)
  <2>1. CASE <<id, depth>> \in ToSet(w2.queue)
    BY <2>1 DEF Reached
  <2>2. CASE <<id, depth>> = head
    <3>1. head[1] = id /\ head[2] = depth
      BY <2>2
    <3> QED
      BY <3>1 DEF Reached
  <2> QED
    BY <1>2, <2>1, <2>2
<1> QED
  BY <1>1, <1>2 DEF Reached

LEMMA UnwalkedAre ==
    ASSUME NEW g, GoodLayer(g), NEW w
    PROVE  /\ Len(g.adjacency) \in Nat /\ IsFiniteSet(1..Len(g.adjacency))
           /\ Cardinality(1..Len(g.adjacency)) = Len(g.adjacency)
           /\ Unwalked(w, g) \in SUBSET (1..Len(g.adjacency))
<1>1. PICK m : m = Len(g.adjacency) /\ DOMAIN g.adjacency = 1..m /\ m \in Nat
  BY SeqFacts DEF GoodLayer
<1>2. IsFiniteSet(1..m) /\ Cardinality(1..m) = m
  BY <1>1, FS_Interval
<1>3. Unwalked(w, g) \subseteq 1..m
  BY <1>1 DEF Unwalked
<1> QED
  BY <1>1, <1>2, <1>3

LEMMA WalkedLeaves ==
    ASSUME NEW g, GoodLayer(g), NEW w, NEW w2, NEW id, w2.nodes = w.nodes \cup {id}, id \notin w.nodes
    PROVE  /\ Cardinality(Unwalked(w, g)) \in Nat /\ Cardinality(Unwalked(w2, g)) \in Nat
           /\ Cardinality(Unwalked(w2, g)) = Cardinality(Unwalked(w, g)) - Cardinality(ListedAt(g, id))
<1>1. IsFiniteSet(Unwalked(w, g))
  BY UnwalkedAre, FS_Subset
<1>2. Unwalked(w2, g) = Unwalked(w, g) \ ListedAt(g, id) /\ Unwalked(w, g) \cap ListedAt(g, id) = ListedAt(g, id)
  BY DEF Unwalked, ListedAt
<1> QED
  BY <1>1, <1>2, FS_Difference, FS_CardinalityType

LEMMA UnwalkedIsFinite ==
    ASSUME NEW g, GoodLayer(g), NEW w
    PROVE  Cardinality(Unwalked(w, g)) \in Nat /\ Cardinality(Unwalked(w, g)) <= Len(g.adjacency)
<1> QED
  BY UnwalkedAre, FS_Subset, FS_CardinalityType

LEMMA VisitKeeps ==
    ASSUME NEW g, GoodLayer(g), NEW w, NEW D, NEW start, NEW max \in Nat,
           IsBreadth(w, D, g, start, max), w.queue # <<>>
    PROVE  /\ \E D2 : IsBreadth(Visit(w, g, max), D2, g, start, max)
           /\ Left(w, g) \in Nat /\ Left(Visit(w, g, max), g) \in Nat
           /\ Left(Visit(w, g, max), g) < Left(w, g)
<1>1. PICK q \in Seq(Waiting(g, start)) : q = w.queue /\ q # <<>> /\ Ordered(q)
  BY DEF IsBreadth
<1>2. PICK rest, id, d :
         /\ rest \in Seq(Waiting(g, start)) /\ d \in Nat
         /\ rest = Tail(q) /\ id = Head(q)[1] /\ d = Head(q)[2] /\ Head(q) = <<id, d>>
         /\ Head(q) = q[1] /\ 1 \in DOMAIN q /\ Len(q) = Len(rest) + 1 /\ Len(rest) \in Nat
         /\ ToSet(q) \subseteq {Head(q)} \cup ToSet(rest) /\ Ordered(rest)
         /\ \A i \in DOMAIN rest : d <= rest[i][2] /\ rest[i][2] <= d + 1 /\ rest[i][2] \in Nat
  <2>1. PICK rest, head : rest = Tail(q) /\ head = Head(q)
    OBVIOUS
  <2>2. /\ head \in Waiting(g, start) /\ head[2] \in Nat /\ head = <<head[1], head[2]>>
        /\ head = q[1] /\ 1 \in DOMAIN q /\ rest \in Seq(Waiting(g, start)) /\ Len(q) = Len(rest) + 1
        /\ Len(rest) \in Nat /\ ToSet(q) \subseteq {head} \cup ToSet(rest) /\ Ordered(rest)
        /\ \A i \in DOMAIN rest : head[2] <= rest[i][2] /\ rest[i][2] <= head[2] + 1 /\ rest[i][2] \in Nat
    BY <1>1, <2>1, QueueTail
  <2>3. PICK id, d : id = head[1] /\ d = head[2]
    OBVIOUS
  <2>4. head = <<id, d>>
    BY <2>2, <2>3
  <2> QED
    BY <2>1, <2>2, <2>3, <2>4
<1>3. /\ w = [queue |-> q, visited |-> w.visited, nodes |-> w.nodes, edges |-> w.edges]
      /\ w.nodes = w.visited \cap ToSet(g.nodes)
      /\ w.edges = {x \in ToSet(g.edges) : x.source \in w.nodes}
      /\ \A v \in w.visited : D[v] \in Nat /\ D[v] <= d
  <2>1. \A v \in w.visited : D[v] <= q[1][2]
    BY <1>1, <1>2 DEF IsBreadth
  <2> QED
    BY <1>1, <1>2, <2>1 DEF IsBreadth
<1>4. Left(w, g) \in Nat /\ Cardinality(Unwalked(w, g)) \in Nat /\ Left(w, g) = Len(rest) + 1 + Cardinality(Unwalked(w, g))
  BY <1>1, <1>2, UnwalkedIsFinite DEF Left
<1>5. PICK w2 : w2 = Visit(w, g, max)
  OBVIOUS
<1>6. \A v \in ToSet(rest) : v[2] \in Nat
  BY <1>2 DEF ToSet
<1>7. CASE d > max \/ id \in w.visited
  <2>1. w2 = [w EXCEPT !.queue = rest]
    <3>1. /\ w.queue # <<>> /\ Head(w.queue)[1] = id /\ Head(w.queue)[2] = d /\ Tail(w.queue) = rest
          /\ d > max \/ id \in w.visited
      BY <1>1, <1>2, <1>7
    <3>2. Visit(w, g, max) = [w EXCEPT !.queue = Tail(w.queue)]
      <4>1. /\ Head(w.queue)[2] > max \/ Head(w.queue)[1] \in w.visited
            /\ ~(Head(w.queue)[2] <= max /\ Head(w.queue)[1] \notin w.visited)
        BY <1>2, <3>1
      <4> QED
        BY <3>1, <4>1, Zenon DEF Visit
    <3> QED
      BY <1>5, <3>1, <3>2
  <2>2. w2.queue = rest /\ w2.visited = w.visited /\ w2.nodes = w.nodes /\ w2.edges = w.edges
        /\ w2 = [queue |-> w2.queue, visited |-> w2.visited, nodes |-> w2.nodes, edges |-> w2.edges]
    BY <1>3, <2>1
  <2>3. ASSUME NEW n, NEW k \in Nat, k <= max, Reached(w, D, n, k) PROVE Reached(w2, D, n, k)
    <3>1. d > max \/ (id \in w2.visited /\ D[id] <= d)
      BY <1>3, <1>7, <2>2
    <3>2. PICK head : head = Head(q) /\ head[1] = id /\ head[2] = d
      BY <1>2
    <3>3. head[2] \in Nat /\ (head[2] > max \/ (head[1] \in w2.visited /\ D[head[1]] <= head[2]))
      BY <1>2, <3>1, <3>2
    <3>4. ToSet(w.queue) \subseteq {head} \cup ToSet(w2.queue)
      BY <1>1, <1>2, <2>2, <3>2
    <3>5. \A v \in w.visited : v \in w2.visited /\ D[v] = D[v]
      BY <2>2
    <3> QED
      BY <2>3, <3>3, <3>4, <3>5, ReachedStays
  <2>4. \A v \in w2.visited : D[v] \in Nat /\ \A i \in DOMAIN w2.queue : D[v] <= w2.queue[i][2]
    BY <1>2, <1>3, <2>2
  <2>5. Reached(w2, D, start, 0)
    BY <2>3 DEF IsBreadth
  <2>6. ASSUME NEW y \in ToSet(g.adjacency), y.at \in w2.nodes, D[y.at] < max
        PROVE  Reached(w2, D, y.to, D[y.at] + 1)
    <3>1. Reached(w, D, y.to, D[y.at] + 1)
      BY <2>2, <2>6 DEF IsBreadth
    <3>2. D[y.at] \in Nat
      BY <1>3, <2>2, <2>6
    <3>3. D[y.at] + 1 \in Nat /\ D[y.at] + 1 <= max
      BY <2>6, <3>2
    <3> QED
      BY <2>3, <3>1, <3>3
  <2>7. IsBreadth(w2, D, g, start, max)
    BY <1>2, <1>3, <2>2, <2>4, <2>5, <2>6 DEF IsBreadth
  <2>8. Unwalked(w2, g) = Unwalked(w, g)
    BY <2>2 DEF Unwalked
  <2>9. Left(w2, g) = Len(rest) + Cardinality(Unwalked(w, g))
    BY <2>2, <2>8 DEF Left
  <2> QED
    BY <1>2, <1>4, <1>5, <2>7, <2>9
<1> DEFINE D2 == [v \in w.visited \cup {id} |-> IF v = id THEN d ELSE D[v]]
<1>8. CASE d <= max /\ id \notin w.visited
  <2>1. /\ D2[id] = d /\ \A v \in w.visited : D2[v] = D[v]
        /\ \A v \in w.visited \cup {id} : D2[v] \in Nat /\ D2[v] <= d
    BY <1>2, <1>3, <1>8
  <2> HIDE DEF D2
  <2>2. ASSUME w2.visited = w.visited \cup {id}, ToSet(rest) \subseteq ToSet(w2.queue)
        PROVE  /\ Reached(w2, D2, start, 0)
               /\ \A y \in ToSet(g.adjacency) : y.at \in w.nodes /\ D2[y.at] < max =>
                     Reached(w2, D2, y.to, D2[y.at] + 1)
    <3>1. ASSUME NEW n, NEW k \in Nat, k <= max, Reached(w, D, n, k) PROVE Reached(w2, D2, n, k)
      <4>1. PICK head : head = Head(q) /\ head[1] = id /\ head[2] = d
        BY <1>2
      <4>2. head[1] \in w2.visited /\ D2[head[1]] <= head[2] /\ head[2] \in Nat
        BY <1>2, <2>1, <2>2, <4>1
      <4>3. ToSet(w.queue) \subseteq {head} \cup ToSet(w2.queue)
        BY <1>1, <1>2, <2>2, <4>1
      <4>4. \A v \in w.visited : v \in w2.visited /\ D2[v] = D[v]
        BY <2>1, <2>2
      <4> QED
        BY <3>1, <4>2, <4>3, <4>4, ReachedStays
    <3>2. Reached(w2, D2, start, 0)
      BY <3>1 DEF IsBreadth
    <3>3. ASSUME NEW y \in ToSet(g.adjacency), y.at \in w.nodes, D2[y.at] < max
          PROVE  Reached(w2, D2, y.to, D2[y.at] + 1)
      <4>1. y.at \in w.visited /\ D2[y.at] = D[y.at] /\ D[y.at] \in Nat
        BY <1>3, <2>1, <3>3
      <4>2. Reached(w, D, y.to, D[y.at] + 1)
        BY <3>3, <4>1 DEF IsBreadth
      <4>3. D[y.at] + 1 \in Nat /\ D[y.at] + 1 <= max
        BY <3>3, <4>1
      <4> QED
        BY <3>1, <4>1, <4>2, <4>3
    <3> QED
      BY <3>2, <3>3
  <2>3. CASE id \notin ToSet(g.nodes)
    <3>1. w2 = [w EXCEPT !.queue = rest, !.visited = w.visited \cup {id}]
      BY <1>1, <1>2, <1>5, <1>8, <2>3 DEF Visit
    <3>2. /\ w2.queue = rest /\ w2.visited = w.visited \cup {id} /\ w2.nodes = w.nodes /\ w2.edges = w.edges
          /\ w2 = [queue |-> w2.queue, visited |-> w2.visited, nodes |-> w2.nodes, edges |-> w2.edges]
      BY <1>3, <3>1
    <3>3. w2.nodes = w2.visited \cap ToSet(g.nodes)
      BY <1>3, <2>3, <3>2
    <3>4. \A v \in w2.visited : D2[v] \in Nat /\ \A i \in DOMAIN w2.queue : D2[v] <= w2.queue[i][2]
      BY <1>2, <2>1, <3>2
    <3>5. /\ Reached(w2, D2, start, 0)
          /\ \A y \in ToSet(g.adjacency) : y.at \in w2.nodes /\ D2[y.at] < max =>
                Reached(w2, D2, y.to, D2[y.at] + 1)
      BY <2>2, <3>2
    <3>6. IsBreadth(w2, D2, g, start, max)
      BY <1>2, <1>3, <3>2, <3>3, <3>4, <3>5 DEF IsBreadth
    <3>7. Unwalked(w2, g) = Unwalked(w, g)
      BY <3>2 DEF Unwalked
    <3>8. Left(w2, g) = Len(rest) + Cardinality(Unwalked(w, g))
      BY <3>2, <3>7 DEF Left
    <3> QED
      BY <1>2, <1>4, <1>5, <3>6, <3>8
  <2>4. CASE id \in ToSet(g.nodes)
    <3>1. PICK p \in Seq(Waiting(g, start)) :
             /\ p = Leads(g, id, d) /\ Len(p) = Cardinality(ListedAt(g, id))
             /\ \A i \in DOMAIN p : p[i][2] = d + 1
             /\ \A y \in ToSet(g.adjacency) : y.at = id => <<y.to, d + 1>> \in ToSet(p)
      BY <1>2, LeadsAre
    <3>2. PICK found : found = {x \in ToSet(g.edges) : \E i \in DOMAIN Neighbours(g, id) :
                                   x = LiveEdge(id, Neighbours(g, id)[i].to, Neighbours(g, id)[i].relation)}
      OBVIOUS
    <3>3. w2 = [queue |-> rest \o p, visited |-> w.visited \cup {id}, nodes |-> w.nodes \cup {id},
                edges |-> w.edges \cup found]
      <4>2. /\ w.queue # <<>> /\ Head(w.queue)[1] = id /\ Head(w.queue)[2] = d /\ Tail(w.queue) = rest
            /\ ~(d > max \/ id \in w.visited) /\ id \in ToSet(g.nodes)
        BY <1>1, <1>2, <1>8, <2>4
      <4>3. w2 = [queue |-> rest \o Leads(g, id, d), visited |-> w.visited \cup {id},
                  nodes |-> w.nodes \cup {id}, edges |-> w.edges \cup found]
        <5>1. w2 = [queue |-> rest \o [i \in DOMAIN Neighbours(g, id) |-> <<Neighbours(g, id)[i].to, d + 1>>],
                    visited |-> w.visited \cup {id}, nodes |-> w.nodes \cup {id}, edges |-> w.edges \cup found]
          BY <1>5, <3>2, <4>2 DEF Visit
        <5> QED
          BY <5>1 DEF Leads
      <4> QED
        BY <3>1, <4>3
    <3>4. found = {x \in ToSet(g.edges) : x.source = id}
      <4>1. ASSUME NEW x \in ToSet(g.edges), x.source = id
            PROVE  \E i \in DOMAIN Neighbours(g, id) : x = LiveEdge(id, Neighbours(g, id)[i].to, Neighbours(g, id)[i].relation)
        <5>1. /\ x = LiveEdge(id, x.target, x.relation)
              /\ [at |-> id, to |-> x.target, relation |-> x.relation] \in ToSet(g.adjacency)
          BY <4>1 DEF GoodLayer, ListedAtBothEnds
        <5>2. PICK y : y = [at |-> id, to |-> x.target, relation |-> x.relation]
          OBVIOUS
        <5>3. y \in ToSet(Neighbours(g, id)) /\ y.to = x.target /\ y.relation = x.relation
          BY <5>1, <5>2, ListIs
        <5> QED
          BY <5>1, <5>3 DEF ToSet
      <4>2. ASSUME NEW a, NEW b, NEW x, x = LiveEdge(id, a, b) PROVE x.source = id
        BY <4>2 DEF LiveEdge
      <4> QED
        BY <3>2, <4>1, <4>2
    <3>5. PICK grown : grown = rest \o p /\ grown \in Seq(Waiting(g, start)) /\ Len(grown) = Len(rest) + Len(p)
                       /\ Ordered(grown) /\ ToSet(grown) = ToSet(rest) \cup ToSet(p)
                       /\ \A i \in DOMAIN grown : d <= grown[i][2]
      <4>0. \A i \in DOMAIN rest : d <= rest[i][2] /\ rest[i][2] <= d + 1 /\ rest[i][2] \in Nat
        BY <1>2
      <4>1. /\ rest \o p \in Seq(Waiting(g, start)) /\ Len(rest \o p) = Len(rest) + Len(p) /\ Ordered(rest \o p)
            /\ ToSet(rest \o p) = ToSet(rest) \cup ToSet(p)
            /\ \A i \in DOMAIN (rest \o p) : d <= (rest \o p)[i][2]
        <5>1. rest \in Seq(Waiting(g, start)) /\ d \in Nat /\ Ordered(rest) /\ \A i \in DOMAIN p : p[i][2] = d + 1
          BY <1>2, <3>1
        <5> HIDE DEF D2, Waiting
        <5> QED
          BY <4>0, <5>1, QueueGrows
      <4> QED
        BY <4>1
    <3>6. /\ w2.queue = grown /\ w2.visited = w.visited \cup {id} /\ w2.nodes = w.nodes \cup {id}
          /\ w2.edges = w.edges \cup found
          /\ w2 = [queue |-> w2.queue, visited |-> w2.visited, nodes |-> w2.nodes, edges |-> w2.edges]
      BY <3>3, <3>5
    <3>7. w2.nodes = w2.visited \cap ToSet(g.nodes) /\ w2.edges = {x \in ToSet(g.edges) : x.source \in w2.nodes}
      BY <1>3, <2>4, <3>4, <3>6
    <3>8. \A v \in w2.visited : D2[v] \in Nat /\ \A i \in DOMAIN w2.queue : D2[v] <= w2.queue[i][2]
      <4>1. ASSUME NEW v \in w2.visited, NEW i \in DOMAIN grown PROVE D2[v] <= grown[i][2]
        <5>1. D2[v] \in Nat /\ D2[v] <= d /\ d <= grown[i][2]
          BY <2>1, <3>5, <3>6
        <5>2. grown[i][2] \in Nat
          <6>1. grown[i] \in Waiting(g, start)
            BY <3>5
          <6> QED
            BY <6>1 DEF Waiting
        <5> QED
          BY <1>2, <5>1, <5>2
      <4> QED
        BY <2>1, <3>6, <4>1
    <3>9. /\ Reached(w2, D2, start, 0)
          /\ \A y \in ToSet(g.adjacency) : y.at \in w2.nodes /\ D2[y.at] < max =>
                Reached(w2, D2, y.to, D2[y.at] + 1)
      <4>1. /\ Reached(w2, D2, start, 0)
            /\ \A y \in ToSet(g.adjacency) : y.at \in w.nodes /\ D2[y.at] < max =>
                  Reached(w2, D2, y.to, D2[y.at] + 1)
        BY <2>2, <3>5, <3>6
      <4>2. ASSUME NEW y \in ToSet(g.adjacency), y.at = id PROVE Reached(w2, D2, y.to, D2[y.at] + 1)
        <5>1. <<y.to, d + 1>> \in ToSet(w2.queue)
          BY <3>1, <3>5, <3>6, <4>2
        <5> QED
          BY <2>1, <4>2, <5>1 DEF Reached
      <4> QED
        BY <3>6, <4>1, <4>2
    <3>10. IsBreadth(w2, D2, g, start, max)
      BY <3>5, <3>6, <3>7, <3>8, <3>9 DEF IsBreadth
    <3>11. /\ Cardinality(Unwalked(w2, g)) = Cardinality(Unwalked(w, g)) - Cardinality(ListedAt(g, id))
           /\ Cardinality(Unwalked(w2, g)) \in Nat /\ Cardinality(ListedAt(g, id)) \in Nat
      <4>1. id \notin w.nodes
        BY <1>3, <1>8
      <4>2. Cardinality(ListedAt(g, id)) \in Nat
        BY ListIs
      <4>3. w2.nodes = w.nodes \cup {id}
        BY <3>6
      <4> QED
        BY <4>1, <4>2, <4>3, WalkedLeaves
    <3>12. Left(w2, g) = Len(rest) + Cardinality(Unwalked(w, g))
      BY <1>2, <1>4, <3>1, <3>5, <3>6, <3>11 DEF Left
    <3> QED
      BY <1>2, <1>4, <1>5, <3>10, <3>12
  <2> QED
    BY <2>3, <2>4
<1> QED
  BY <1>2, <1>7, <1>8

IsTraversal(f, begin, g, max, pops) ==
    f = [n \in 0..pops |-> IF n = 0 THEN begin ELSE Visit(f[n - 1], g, max)]
IsWidening(f, near, depth) == f = [n \in 0..depth |-> IF n = 0 THEN near ELSE Wider(f[n - 1])]

LEMMA TraversalExists ==
    ASSUME NEW begin, NEW g, NEW max, NEW pops \in Nat
    PROVE  \E f : IsTraversal(f, begin, g, max, pops)
<1> DEFINE S == {m \in Nat : ~ \E f : IsTraversal(f, begin, g, max, m)}
<1>1. ASSUME S # {} PROVE FALSE
  <2>1. PICK m \in S : \A k \in S : m <= k
    BY <1>1, LeastIs
  <2>2. m # 0
    <3> DEFINE f == [k \in 0..0 |-> begin]
    <3>1. f = [k \in 0..0 |-> IF k = 0 THEN begin ELSE Visit(f[k - 1], g, max)]
      OBVIOUS
    <3>2. IsTraversal(f, begin, g, max, 0)
      BY <3>1 DEF IsTraversal
    <3> QED
      BY <3>2
  <2>3. m - 1 \in Nat /\ m - 1 \notin S
    BY <2>1, <2>2
  <2>4. PICK f : IsTraversal(f, begin, g, max, m - 1)
    BY <2>3
  <2> DEFINE h == [k \in 0..m |-> IF k = m THEN Visit(f[m - 1], g, max) ELSE f[k]]
  <2>5. \A k \in 0..m - 1 : f[k] = IF k = 0 THEN begin ELSE Visit(f[k - 1], g, max)
    BY <2>4 DEF IsTraversal
  <2>6. \A k \in 0..m : h[k] = IF k = 0 THEN begin ELSE Visit(h[k - 1], g, max)
    <3> SUFFICES ASSUME NEW k \in 0..m PROVE h[k] = IF k = 0 THEN begin ELSE Visit(h[k - 1], g, max)
      OBVIOUS
    <3>1. CASE k = m
      BY <2>1, <2>2, <2>3, <3>1
    <3>2. CASE k # m
      <4>1. k \in 0..m - 1 /\ h[k] = f[k] /\ (k # 0 => k - 1 \in 0..m - 1 /\ h[k - 1] = f[k - 1])
        BY <2>1, <2>3, <3>2
      <4> QED
        BY <2>5, <4>1
    <3> QED
      BY <3>1, <3>2
  <2>7. IsTraversal(h, begin, g, max, m)
    BY <2>6 DEF IsTraversal
  <2> QED
    BY <2>1, <2>7
<1> QED
  BY <1>1

LEMMA WideningExists ==
    ASSUME NEW near, NEW depth \in Nat
    PROVE  \E f : IsWidening(f, near, depth)
<1> DEFINE S == {m \in Nat : ~ \E f : IsWidening(f, near, m)}
<1>1. ASSUME S # {} PROVE FALSE
  <2>1. PICK m \in S : \A k \in S : m <= k
    BY <1>1, LeastIs
  <2>2. m # 0
    <3> DEFINE f == [k \in 0..0 |-> near]
    <3>1. f = [k \in 0..0 |-> IF k = 0 THEN near ELSE Wider(f[k - 1])]
      OBVIOUS
    <3>2. IsWidening(f, near, 0)
      BY <3>1 DEF IsWidening
    <3> QED
      BY <3>2
  <2>3. m - 1 \in Nat /\ m - 1 \notin S
    BY <2>1, <2>2
  <2>4. PICK f : IsWidening(f, near, m - 1)
    BY <2>3
  <2> DEFINE h == [k \in 0..m |-> IF k = m THEN Wider(f[m - 1]) ELSE f[k]]
  <2>5. \A k \in 0..m - 1 : f[k] = IF k = 0 THEN near ELSE Wider(f[k - 1])
    BY <2>4 DEF IsWidening
  <2>6. \A k \in 0..m : h[k] = IF k = 0 THEN near ELSE Wider(h[k - 1])
    <3> SUFFICES ASSUME NEW k \in 0..m PROVE h[k] = IF k = 0 THEN near ELSE Wider(h[k - 1])
      OBVIOUS
    <3>1. CASE k = m
      BY <2>1, <2>2, <2>3, <3>1
    <3>2. CASE k # m
      <4>1. k \in 0..m - 1 /\ h[k] = f[k] /\ (k # 0 => k - 1 \in 0..m - 1 /\ h[k - 1] = f[k - 1])
        BY <2>1, <2>3, <3>2
      <4> QED
        BY <2>5, <4>1
    <3> QED
      BY <3>1, <3>2
  <2>7. IsWidening(h, near, m)
    BY <2>6 DEF IsWidening
  <2> QED
    BY <2>1, <2>7
<1> QED
  BY <1>1

\* The walk ends with an empty queue, within the steps it is given.
LEMMA TraverseIs ==
    ASSUME NEW g, GoodLayer(g), NEW start, NEW max \in Nat
    PROVE  \E D : IsBreadth(Traverse(g, start, max), D, g, start, max) /\ Traverse(g, start, max).queue = <<>>
<1> DEFINE begin == [queue |-> << <<start, 0>> >>, visited |-> {}, nodes |-> {}, edges |-> {}]
           pops == Len(g.adjacency) + 1
           f == CHOOSE h : IsTraversal(h, begin, g, max, pops)
<1>1. pops \in Nat /\ pops >= 1 /\ Len(g.adjacency) \in Nat
  BY SeqFacts DEF GoodLayer
<1>2. IsTraversal(f, begin, g, max, pops)
  <2>1. \E h : IsTraversal(h, begin, g, max, pops)
    BY <1>1, TraversalExists
  <2> QED
    BY <2>1
<1>3. Traverse(g, start, max) = f[pops]
  BY DEF Traverse, IsTraversal
<1> HIDE DEF f
<1>4. \A k \in 0..pops : f[k] = IF k = 0 THEN begin ELSE Visit(f[k - 1], g, max)
  BY <1>2 DEF IsTraversal
<1>5. \E D : IsBreadth(begin, D, g, start, max)
  <2>1. PICK e \in Waiting(g, start) : e = <<start, 0>>
    BY DEF Waiting
  <2>2. PICK q : q = <<e>> /\ q \in Seq(Waiting(g, start)) /\ ToSet(q) = {e} /\ DOMAIN q = {1} /\ q[1] = e /\ e[2] \in Nat
    <3>1. <<e>> \in Seq(Waiting(g, start)) /\ ToSet(<<e>>) = {e} /\ DOMAIN <<e>> = {1} /\ <<e>>[1] = e
      BY DEF ToSet
    <3>2. e[2] \in Nat
      BY DEF Waiting
    <3> QED
      BY <3>1, <3>2
  <2>3. Ordered(q)
    BY <2>2 DEF Ordered
  <2>4. PICK w : w = begin /\ w.queue = q /\ w.visited = {} /\ w.nodes = {} /\ w.edges = {}
    <3>1. begin = [queue |-> q, visited |-> {}, nodes |-> {}, edges |-> {}]
      BY <2>1, <2>2
    <3>2. /\ [queue |-> q, visited |-> {}, nodes |-> {}, edges |-> {}].queue = q
          /\ [queue |-> q, visited |-> {}, nodes |-> {}, edges |-> {}].visited = {}
          /\ [queue |-> q, visited |-> {}, nodes |-> {}, edges |-> {}].nodes = {}
          /\ [queue |-> q, visited |-> {}, nodes |-> {}, edges |-> {}].edges = {}
      OBVIOUS
    <3> HIDE DEF begin
    <3> QED
      BY <3>1, <3>2
  <2>5. Reached(w, <<>>, start, 0)
    BY <2>1, <2>2, <2>4 DEF Reached
  <2>6. w = [queue |-> w.queue, visited |-> w.visited, nodes |-> w.nodes, edges |-> w.edges]
    BY <2>4
  <2>7. IsBreadth(w, <<>>, g, start, max)
    BY <2>2, <2>3, <2>4, <2>5, <2>6 DEF IsBreadth
  <2> QED
    BY <2>4, <2>7
<1>6. Left(begin, g) \in Nat /\ Left(begin, g) <= pops
  <2>1. Len(begin.queue) = 1
    OBVIOUS
  <2> QED
    BY <1>1, <2>1, UnwalkedIsFinite DEF Left
<1> HIDE DEF begin, pops
<1> DEFINE Good(k) == /\ \E D : IsBreadth(f[k], D, g, start, max)
                      /\ f[k].queue = <<>> \/ (Left(f[k], g) \in Nat /\ Left(f[k], g) <= pops - k)
           S == {k \in Nat : k <= pops /\ ~Good(k)}
<1>7. Good(0)
  <2>1. f[0] = begin
    BY <1>1, <1>4
  <2> QED
    BY <1>1, <1>5, <1>6, <2>1
<1>8. ASSUME S # {} PROVE FALSE
  <2>1. PICK m \in S : \A k \in S : m <= k
    BY <1>8, LeastIs
  <2>2. m # 0
    BY <1>7, <2>1
  <2>3. m - 1 \in Nat /\ Good(m - 1) /\ m \in 0..pops /\ m \in Nat
    <3>1. m \in Nat /\ m <= pops /\ m - 1 \in Nat /\ m - 1 <= pops /\ ~(m <= m - 1)
      BY <1>1, <2>1, <2>2
    <3> HIDE DEF Good
    <3>2. m - 1 \notin S
      BY <2>1, <3>1
    <3> QED
      BY <1>1, <3>1, <3>2
  <2>4. PICK w, D : w = f[m - 1] /\ IsBreadth(w, D, g, start, max)
    BY <2>3
  <2>5. f[m] = Visit(w, g, max)
    BY <1>4, <2>2, <2>3, <2>4
  <2>6. CASE w.queue = <<>>
    <3>1. f[m] = w
      BY <2>5, <2>6 DEF Visit
    <3> QED
      BY <2>1, <2>4, <2>6, <3>1
  <2>7. CASE w.queue # <<>>
    <3>1. /\ \E D2 : IsBreadth(f[m], D2, g, start, max)
          /\ Left(w, g) \in Nat /\ Left(f[m], g) \in Nat /\ Left(f[m], g) < Left(w, g)
      BY <2>4, <2>5, <2>7, VisitKeeps
    <3>2. Left(w, g) <= pops - (m - 1)
      BY <2>3, <2>4, <2>7
    <3>3. Left(f[m], g) <= pops - m
      BY <1>1, <2>3, <3>1, <3>2
    <3> QED
      BY <2>1, <3>1, <3>3
  <2> QED
    BY <2>6, <2>7
<1>9. Good(pops)
  BY <1>1, <1>8
<1>10. PICK w, D : w = f[pops] /\ IsBreadth(w, D, g, start, max) /\ (w.queue = <<>> \/ Left(w, g) <= 0)
  <2>1. pops - pops = 0
    BY <1>1
  <2> QED
    BY <1>9, <2>1
<1>11. w.queue = <<>>
  <2>1. /\ Len(w.queue) \in Nat /\ (Len(w.queue) = 0 => w.queue = <<>>)
    BY <1>10 DEF IsBreadth
  <2> QED
    BY <1>10, <2>1, UnwalkedIsFinite DEF Left
<1> QED
  BY <1>3, <1>10, <1>11

\* For every depth, not only the one the run asks for.
TraversalsFindNeighbours ==
    \A id \in ToSet(live.nodes), depth \in Nat :
        /\ Within(id, depth) \subseteq Traverse(live, id, depth).nodes
        /\ Traverse(live, id, depth).edges
              = {x \in ToSet(live.edges) : x.source \in Traverse(live, id, depth).nodes}

LEMMA TraversalsShow == GoodLayer(live) => TraversalsFindNeighbours
<1> SUFFICES ASSUME GoodLayer(live), NEW id \in ToSet(live.nodes), NEW depth \in Nat
             PROVE  /\ Within(id, depth) \subseteq Traverse(live, id, depth).nodes
                    /\ Traverse(live, id, depth).edges
                          = {x \in ToSet(live.edges) : x.source \in Traverse(live, id, depth).nodes}
  BY DEF TraversalsFindNeighbours
<1>1. PICK w, D : w = Traverse(live, id, depth) /\ IsBreadth(w, D, live, id, depth) /\ w.queue = <<>>
  BY TraverseIs
<1>2. w.nodes = w.visited \cap ToSet(live.nodes) /\ w.edges = {x \in ToSet(live.edges) : x.source \in w.nodes}
  BY <1>1 DEF IsBreadth
<1>3. \A n, k : Reached(w, D, n, k) => n \in w.visited /\ D[n] <= k
  BY <1>1, NoElements DEF Reached
<1>4. id \in w.visited /\ D[id] <= 0
  BY <1>1, <1>3 DEF IsBreadth
<1> DEFINE near == CHOOSE h : IsWidening(h, {id} \cap ToSet(live.nodes), depth)
<1>5. IsWidening(near, {id} \cap ToSet(live.nodes), depth)
  <2>1. \E h : IsWidening(h, {id} \cap ToSet(live.nodes), depth)
    BY WideningExists
  <2> QED
    BY <2>1
<1>6. Within(id, depth) = near[depth]
  BY DEF Within, IsWidening
<1> HIDE DEF near
<1>7. \A k \in 0..depth : near[k] = IF k = 0 THEN {id} \cap ToSet(live.nodes) ELSE Wider(near[k - 1])
  BY <1>5 DEF IsWidening
<1> DEFINE Good(k) == \A n \in near[k] : n \in w.nodes /\ D[n] \in Nat /\ D[n] <= k
           S == {k \in Nat : k <= depth /\ ~Good(k)}
<1>8. \A v \in w.visited : D[v] \in Nat
  BY <1>1 DEF IsBreadth
<1>9. Good(0)
  <2>1. near[0] \subseteq {id}
    BY <1>7
  <2> QED
    BY <1>2, <1>4, <1>8, <2>1
<1>10. ASSUME S # {} PROVE FALSE
  <2>1. PICK m \in S : \A k \in S : m <= k
    BY <1>10, LeastIs
  <2>2. m # 0
    BY <1>9, <2>1
  <2>3. m - 1 \in Nat /\ Good(m - 1) /\ m \in 0..depth /\ m \in Nat
    <3>1. m \in Nat /\ m <= depth /\ m - 1 \in Nat /\ m - 1 <= depth /\ ~(m <= m - 1)
      BY <2>1, <2>2
    <3> HIDE DEF Good
    <3>2. m - 1 \notin S
      BY <2>1, <3>1
    <3> QED
      BY <3>1, <3>2
  <2>4. near[m] = Wider(near[m - 1])
    BY <1>7, <2>2, <2>3
  <2>5. ASSUME NEW n \in ToSet(live.nodes), NEW j \in near[m - 1], NEW y \in ToSet(live.adjacency),
               y.at = j, y.to = n
        PROVE  n \in w.nodes /\ D[n] \in Nat /\ D[n] <= m
    <3>1. j \in w.nodes /\ D[j] \in Nat /\ D[j] <= m - 1 /\ D[j] < depth
      BY <2>3
    <3>2. Reached(w, D, n, D[j] + 1)
      BY <1>1, <2>5, <3>1 DEF IsBreadth
    <3>3. n \in w.visited /\ D[n] <= D[j] + 1 /\ D[n] \in Nat
      BY <1>3, <1>8, <3>2
    <3> QED
      BY <1>2, <2>3, <3>1, <3>3
  <2>6. ASSUME NEW n \in near[m] PROVE n \in w.nodes /\ D[n] \in Nat /\ D[n] <= m
    <3>1. CASE n \in near[m - 1]
      BY <2>3, <3>1
    <3>2. CASE n \notin near[m - 1]
      <4>1. PICK x \in ToSet(live.edges) : /\ n \in ToSet(live.nodes)
                                           /\ \/ x.source = n /\ x.target \in near[m - 1]
                                              \/ x.target = n /\ x.source \in near[m - 1]
        BY <2>4, <2>6, <3>2 DEF Wider
      <4>2. PICK there, back : /\ there = [at |-> x.source, to |-> x.target, relation |-> x.relation]
                               /\ back = [at |-> x.target, to |-> x.source, relation |-> x.relation]
        OBVIOUS
      <4>3. /\ there \in ToSet(live.adjacency) /\ there.at = x.source /\ there.to = x.target
            /\ back \in ToSet(live.adjacency) /\ back.at = x.target /\ back.to = x.source
        BY <4>1, <4>2 DEF GoodLayer, ListedAtBothEnds
      <4>4. CASE x.source = n /\ x.target \in near[m - 1]
        BY <2>5, <4>1, <4>3, <4>4
      <4>5. CASE x.target = n /\ x.source \in near[m - 1]
        BY <2>5, <4>1, <4>3, <4>5
      <4> QED
        BY <4>1, <4>4, <4>5
    <3> QED
      BY <3>1, <3>2
  <2> QED
    BY <2>1, <2>6
<1>11. Good(depth)
  BY <1>10
<1>12. Within(id, depth) \subseteq w.nodes
  BY <1>6, <1>11
<1> QED
  BY <1>1, <1>2, <1>12

-----------------------------------------------------------------------------
(* The endpoint.  A step is of one part, and the others stand still.         *)
EndpointInv ==
    /\ PlatformInv /\ RouterInv /\ TraceInv /\ TrackingInv /\ FileInv
    /\ HistoryInv /\ UsnInv /\ VolumeInv /\ CorrInv /\ GoodLayer(live)

LEMMA PartsOfAStep ==
    ASSUME [Next]_vars
    PROVE  /\ [NextPlatform]_platformVars \/ UNCHANGED <<fabricVars, caseVars, consumed>>
           /\ [NextRouter]_routerVars /\ [NextTrace]_traceVars
           /\ [NextTracking]_trackingVars /\ [NextFiles]_fileVars
           /\ [NextHistory]_historyVars /\ [NextJournal]_journalVars /\ [NextVolume]_volumeVars
           /\ [NextCorrelation]_corrVars
           /\ live' = live \/ \E e, n : live' = IngestLive(live, e, n)
<1>1. CASE UNCHANGED vars
  BY <1>1 DEF vars, platformVars
<1>2. CASE NextForensics /\ UNCHANGED <<platformVars, corrVars, routerVars, traceVars, trackingVars, fileVars>>
  BY <1>2 DEF NextForensics, platformVars
<1>3. CASE NextMonitoring /\ UNCHANGED <<historyVars, journalVars, volumeVars>>
  <2>1. /\ [NextPlatform]_platformVars \/ UNCHANGED <<fabricVars, caseVars, consumed>>
        /\ [NextRouter]_routerVars /\ [NextTrace]_traceVars
        /\ [NextTracking]_trackingVars /\ [NextFiles]_fileVars /\ [NextCorrelation]_corrVars
    BY <1>3 DEF NextMonitoring, IngestMore
  <2>2. live' = live \/ \E e, n : live' = IngestLive(live, e, n)
    <3>1. CASE NextPlatform
      BY <3>1 DEF NextPlatform, Consume
    <3>2. CASE IngestMore
      BY <3>2 DEF IngestMore
    <3> QED
      BY <1>3, <3>1, <3>2 DEF NextMonitoring, platformVars
  <2> QED
    BY <1>3, <2>1, <2>2
<1> QED
  BY <1>1, <1>2, <1>3 DEF Next

LEMMA EndpointInvariant == Spec => []EndpointInv
<1>1. Init => EndpointInv
  <2> SUFFICES ASSUME Init PROVE EndpointInv
    OBVIOUS
  <2>1. /\ InitPlatform /\ InitRouter /\ InitTrace /\ InitTracking /\ InitFiles
        /\ InitHistory /\ InitJournal /\ InitVolume /\ InitCorrelation
    BY DEF Init, InitMonitoring, InitForensics
  <2>2. PlatformInv
    BY <2>1, FabricStarts, CasesStart DEF PlatformInv
  <2>3. RouterInv
    BY <2>1, InitRow
  <2>4. GoodLayer(live)
    BY <2>1, LiveGraphStarts DEF InitPlatform
  <2> QED
    BY <2>1, <2>2, <2>3, <2>4, TraceStarts, TrackingStarts, FilesStart, HistoryStarts, JournalStarts,
       VolumeStarts, CorrelationStarts DEF EndpointInv
<1>2. EndpointInv /\ [Next]_vars => EndpointInv'
  <2> SUFFICES ASSUME EndpointInv, [Next]_vars PROVE EndpointInv'
    OBVIOUS
  <2>1. PlatformInv'
    BY PartsOfAStep, PlatformKeeps, PlatformStays DEF EndpointInv
  <2>2. RouterInv'
    BY PartsOfAStep, RouterStays DEF EndpointInv
  <2>3. TraceInv' /\ TrackingInv' /\ FileInv'
    BY PartsOfAStep, TraceKeeps, TrackingKeeps, TrackingAssumption, FilesKeep DEF EndpointInv
  <2>4. HistoryInv' /\ UsnInv' /\ VolumeInv'
    BY PartsOfAStep, HistoryKeeps, HistoryRests, JournalKeeps, VolumeKeeps DEF EndpointInv
  <2>5. CorrInv'
    BY PartsOfAStep, CorrelationKeeps DEF EndpointInv
  <2>6. GoodLayer(live)'
    BY PartsOfAStep, IngestLiveKeeps DEF EndpointInv
  <2> QED
    BY <2>1, <2>2, <2>3, <2>4, <2>5, <2>6 DEF EndpointInv
<1> QED
  BY <1>1, <1>2, PTL DEF Spec

(* For any processes and images, and whichever of a load and its verdict is    *)
(* emitted first: of an image in a process, the loads emitted or about to be   *)
(* that were not skipped are as many as the verdicts emitted, being made or    *)
(* waiting to be; and a load is skipped only when some process has a verdict.  *)
THEOREM LoadsAreAllVerified == Spec => []LoadsAreVerified
<1>1. EndpointInv => LoadsAreVerified
  BY TraceShows DEF EndpointInv
<1> QED
  BY <1>1, EndpointInvariant, PTL

(* For any processes, findings, ticks and loops beside each other: each loop   *)
(* tells every channel the same of a process, its creation and its end in      *)
(* turns, and who follows one loop in one channel knows, between two of its    *)
(* ticks, the processes of its last tick.                                      *)
THEOREM ChannelsKnowThePids == Spec => []KnownPidsReplay
<1>1. EndpointInv => KnownPidsReplay
  BY TrackingShows DEF EndpointInv
<1> QED
  BY <1>1, EndpointInvariant, PTL

(* For any number of starts, watcher threads and a buffer of any size: of each *)
(* thread the recent events hold a piece without a hole, which for a thread of *)
(* the current start ends with its last event.                                 *)
THEOREM RecentIsContiguous == Spec => []RecentHasNoHoles
<1>1. EndpointInv => RecentHasNoHoles
  BY DEF EndpointInv, FileInv
<1> QED
  BY <1>1, EndpointInvariant, PTL

(* For data of any items and a window of any sizes: what the streaming reader   *)
(* has returned are the first records of the data, each once and in order, and *)
(* all of them when it says that there are no more, although it searches only  *)
(* a window, drops what it cannot parse and reads on over what it kept.        *)
THEOREM NoRecordIsLost == Spec => []NoRecordLost
<1>1. EndpointInv => NoRecordLost
  BY ReaderShows DEF EndpointInv
<1> QED
  BY <1>1, EndpointInvariant, PTL

(* A search that finds nothing is the reader's last: SkipGap leaves so much in *)
(* the buffer that nothing is read behind it, and the same cells are searched  *)
(* again by every step to come.                                                *)
THEOREM FailedSearchIsFinal == Spec => [][SkipGap \/ Stuck => Stuck']_vars
<1>1. EndpointInv /\ [Next]_vars => [SkipGap \/ Stuck => Stuck']_vars
  <2> SUFFICES ASSUME EndpointInv, [Next]_vars, SkipGap \/ Stuck PROVE Stuck'
    OBVIOUS
  <2>1. UsnInv
    BY DEF EndpointInv
  <2>2. [NextJournal]_journalVars
    BY PartsOfAStep
  <2>3. CASE SkipGap
    BY <2>1, <2>3, SkipGapSticks DEF UsnInv
  <2>4. CASE Stuck
    BY <2>1, <2>2, <2>4, StuckStays
  <2> QED
    BY <2>3, <2>4
<1> QED
  BY <1>1, EndpointInvariant, PTL DEF Spec

(* For any records, any number of reads and answers of any size: the callers   *)
(* of the live monitor have every record up to the watermark, in the journal's *)
(* order, and only the record at the watermark is delivered again.             *)
THEOREM MonitorDeliversAll == Spec => []MonitorSkipsNothing
<1>1. EndpointInv => MonitorSkipsNothing
  BY MonitorShows DEF EndpointInv
<1> QED
  BY <1>1, EndpointInvariant, PTL

(* For any events, pauses, fan-out and restarts of the actor, and whichever of  *)
(* its insertions fail: the chain of a stored event goes on to what its process *)
(* did next when that link was stored and the node leads to no more than the    *)
(* walk follows, and no chain goes back in time.                                *)
THEOREM ChainsHoldTheRest == Spec => []ChainHoldsTheRest
<1>1. EndpointInv => ChainHoldsTheRest
  BY ChainsShow DEF EndpointInv
<1> QED
  BY <1>1, EndpointInvariant, PTL

(* For any events, in any order, and tables of any size, whatever was evicted   *)
(* from them: a walk of any depth over the live graph finds every node that is *)
(* within that depth of its start, in either direction of the edges, and of    *)
(* the nodes it finds all the edges that leave them and are still held.  The   *)
(* walks of TLC's instance, two deep and from a process, are among them.       *)
THEOREM TraversalsFindAll == Spec => [](TraversalsFindNeighbours /\ TraversalFindsNeighbours)
<1>1. EndpointInv => TraversalsFindNeighbours
  BY TraversalsShow DEF EndpointInv
<1>2. TraversalsFindNeighbours => TraversalFindsNeighbours
  BY DEF TraversalsFindNeighbours, TraversalFindsNeighbours
<1> QED
  BY <1>1, <1>2, EndpointInvariant, PTL

(* What the router, the platform, the engines of the history and the volume's  *)
(* examination keep when each runs alone, they keep in the specification of    *)
(* all parts, whose instance is model-checked: the streams of the listeners,   *)
(* the views of the fabric, the timelines of the investigations, the details   *)
(* the UI copies, the answers of the indices, the reported chains, the nodes   *)
(* and subgraphs of the graph, the ghosts of the log and the matches of the    *)
(* table.                                                                      *)
THEOREM PartsKeepTheirRules ==
    Spec => [](/\ StreamExact /\ ViewsDifferByDrops /\ TimelineIsComplete /\ DetailsAreConsistent
               /\ QueriesAgree /\ ChainsAreReal /\ DetectorsAgree /\ MapKnowsTheNodes /\ SubgraphIsNear
               /\ GhostsAreWhatIsMissing /\ AnomaliesAreOrphans)
<1>1. EndpointInv => StreamExact /\ ViewsDifferByDrops /\ TimelineIsComplete /\ DetailsAreConsistent
  BY RouterInvShows, FabricShows, CasesShow DEF EndpointInv, PlatformInv
<1>2. EndpointInv => QueriesAgree /\ ChainsAreReal /\ DetectorsAgree /\ MapKnowsTheNodes /\ SubgraphIsNear
  BY HistoryShows DEF EndpointInv
<1>3. EndpointInv => GhostsAreWhatIsMissing /\ AnomaliesAreOrphans
  BY GhostsShow, AnomaliesShow DEF EndpointInv
<1> QED
  BY <1>1, <1>2, <1>3, EndpointInvariant, PTL
=============================================================================
