-------------------------- MODULE ForensicTimeline --------------------------
(***************************************************************************)
(* forensic/timeline.rs: the timeline engine keeps the latest events with  *)
(* three indices into them, and, without bound, every creation, deletion   *)
(* and rename.  ingest_one evicts a quarter of the events when full and    *)
(* rebuilds the indices, but nothing else.                                 *)
(***************************************************************************)
EXTENDS FilesystemEvents

CONSTANT MaxCapacity     \* MAX_CHAIN_RECORDS
ASSUME MaxCapacityAssumption == MaxCapacity \in Nat /\ MaxCapacity >= 2

VARIABLES events,        \* what is kept, oldest first
          byFrn, byParent, byPath,    \* key -> positions in events
          createEvents, deleteEvents, \* never evicted
          renameChains                \* file -> its renames, never evicted

timelineVars == <<events, byFrn, byParent, byPath, createEvents, deleteEvents, renameChains>>

InitTimeline ==
    /\ events = <<>>
    /\ byFrn = [f \in Files |-> <<>>]
    /\ byParent = [d \in Directories |-> <<>>]
    /\ byPath = [n \in Names |-> <<>>]
    /\ createEvents = <<>> /\ deleteEvents = <<>>
    /\ renameChains = [f \in Files |-> <<>>]

Full == Len(events) >= MaxCapacity
Kept == IF Full THEN SubSeq(events, Len(events) - (MaxCapacity * 3) \div 4 + 1, Len(events))
                ELSE events

\* Mutant: the position is taken before the eviction.
PositionBeforeEviction == Len(events) + 1

Position == Len(Kept) + 1

\* The index after an ingestion: rebuilt when events were evicted, and e added.
Indexed(index, Key(_), e) ==
    LET base == IF Full THEN [k \in DOMAIN index |-> Positions(Kept, LAMBDA x : Key(x) = k)]
                        ELSE index
    IN  [base EXCEPT ![Key(e)] = Append(@, Position)]

\* Mutant: the first creation.
FirstCreate(creates, f) == SelectInSeq(creates, LAMBDA c : c.frn = f)

LastCreate(creates, f) == SelectLastInSeq(creates, LAMBDA c : c.frn = f)

\* FILE_DELETE: the age of the file's last known creation is fixed now.
DeleteEvent(e, creates) ==
    LET c == LastCreate(creates, e.frn)
    IN  [frn |-> e.frn, time |-> e.time, pid |-> e.pid, recent |-> c # 0,
         seconds |-> IF c # 0 THEN Seconds(e.time - creates[c].time) ELSE 0]

\* A rename record starts from the name the previous one ended with.
RenameEntry(e, chain) ==
    [usn |-> e.usn, new |-> e.name, old |-> IF chain = <<>> THEN "" ELSE Last(chain).new]

IngestOne(e) ==
    /\ events' = Append(Kept, e)
    /\ byFrn' = Indexed(byFrn, LAMBDA x : x.frn, e)
    /\ byParent' = Indexed(byParent, LAMBDA x : x.parent, e)
    /\ byPath' = Indexed(byPath, LAMBDA x : x.name, e)
    /\ createEvents' = IF Has(e, "FILE_CREATE") THEN Append(createEvents, e) ELSE createEvents
    /\ deleteEvents' = IF Has(e, "FILE_DELETE")
                       THEN Append(deleteEvents, DeleteEvent(e, createEvents'))
                       ELSE deleteEvents
    /\ renameChains' = IF Renames(e)
                       THEN [renameChains EXCEPT ![e.frn] = Append(@, RenameEntry(e, @))]
                       ELSE renameChains
-----------------------------------------------------------------------------
(* Queries. *)

\* file_lifecycle: the last creation and deletion among the kept events.
FileLifecycle(f) ==
    LET own == [i \in DOMAIN byFrn[f] |-> events[byFrn[f][i]]]
        LastTime(r) == LET i == SelectLastInSeq(own, LAMBDA x : Has(x, r))
                       IN  IF i = 0 THEN -1 ELSE own[i].time
    IN  [filenames |-> {own[i].name : i \in DOMAIN own},
         pids |-> {own[i].pid : i \in DOMAIN own} \ {NoPid},
         created |-> LastTime("FILE_CREATE"), deleted |-> LastTime("FILE_DELETE"),
         modifications |-> SelectSeq(own, Modifies), renames |-> renameChains[f]]

\* attack_chains: the first deletion of each file that followed its creation within
\* the window; the creation itself is looked up again, at the time of the query.
\* Mutant: the end of the window is left out.
RapidBefore(d, window) == d.recent /\ d.seconds >= 0 /\ d.seconds < window

Rapid(d, window) == d.recent /\ d.seconds >= 0 /\ d.seconds <= window

AttackChains(window) ==
    LET First(f) == deleteEvents[SelectInSeq(deleteEvents, LAMBDA d : d.frn = f /\ Rapid(d, window))]
        Create(f) == createEvents[LastCreate(createEvents, f)]
    IN  {[frn |-> f, created |-> Create(f).time, deleted |-> First(f).time,
          duration |-> First(f).seconds,
          process |-> IF First(f).pid # NoPid THEN First(f).pid ELSE Create(f).pid] :
             f \in {d.frn : d \in {x \in ToSet(deleteEvents) : Rapid(x, window)}}}

\* directory_state_at_time: the events of the directory up to a time, replayed.
DirectoryStateAt(d, t) ==
    LET Replayed(present, e) ==
            LET added ==
                    IF e.reason \cap {"FILE_CREATE", "RENAME_NEW_NAME"} # {} THEN {e.name} ELSE {}
                removed ==
                    IF e.reason \cap {"FILE_DELETE", "RENAME_OLD_NAME"} # {} THEN {e.name} ELSE {}
            IN  IF e.time <= t THEN (present \cup added) \ removed ELSE present
        present[k \in 0..Len(byParent[d])] ==
            IF k = 0 THEN {} ELSE Replayed(present[k - 1], events[byParent[d][k]])
    IN  present[Len(byParent[d])]

EventsForPath(n) == [i \in DOMAIN byPath[n] |-> events[byPath[n][i]]]
TimelineRange(start, end) == SelectSeq(events, LAMBDA e : start <= e.time /\ e.time <= end)
SortedEvents == SortSeq(events, LAMBDA a, b : a.time < b.time)
=============================================================================
