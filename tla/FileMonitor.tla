----------------------------- MODULE FileMonitor -----------------------------
(***************************************************************************)
(* core/file_monitor.rs: watchers push what changes in their directories   *)
(* to a vector they share, from which the monitor takes it now and then;   *)
(* stopping waits for the watchers.  A second start makes a second vector  *)
(* and a second flag to cancel by, and forgets the first.                  *)
(***************************************************************************)
EXTENDS Naturals, FiniteSets, Sequences, SequencesExt

CONSTANTS WatchedPaths,
          MaxStarts, MaxChanges,
          MaxRecent          \* of recent_events: 10,000, of which half are given up

ASSUME FilesAssumption == MaxStarts \in Nat /\ MaxRecent \in Nat

VARIABLES starts,            \* how often the watching was started
          shared,            \* the vectors, by the start that made them
          current,           \* shared_events: the start, or 0
          cancelled,         \* starts whose flag is raised
          watchers,          \* running threads
          handles,           \* _watch_handles
          joining,           \* stop_watching: the handles it has still to join
          recentEvents,      \* recent_events
          pushes             \* how many events each thread has pushed, and so numbered

fileVars == <<starts, shared, current, cancelled, watchers, handles, joining, recentEvents, pushes>>

Thread == (1..MaxStarts) \X WatchedPaths
StartedBy(thread) == thread[1]

InitFiles ==
    /\ starts = 0 /\ shared = [n \in 1..MaxStarts |-> <<>>] /\ current = 0 /\ cancelled = {}
    /\ watchers = {} /\ handles = {} /\ joining = {} /\ recentEvents = <<>>
    /\ pushes = [thread \in Thread |-> 0]

\* Who waits for a watcher holds the monitor.
Idle == joining = {}

StartWatching ==
    /\ Idle /\ starts < MaxStarts
    /\ starts' = starts + 1 /\ current' = starts + 1
    /\ watchers' = watchers \cup ({starts + 1} \X WatchedPaths)
    /\ handles' = handles \cup ({starts + 1} \X WatchedPaths)
    /\ UNCHANGED <<shared, cancelled, joining, recentEvents, pushes>>

\* Only the latest flag is raised, and every handle is joined.
BeginStop ==
    /\ Idle /\ starts > 0
    /\ cancelled' = cancelled \cup {starts}
    /\ joining' = handles /\ handles' = {}
    /\ current' = IF joining' = {} THEN 0 ELSE current
    /\ UNCHANGED <<starts, shared, watchers, recentEvents, pushes>>

Join(thread) ==
    /\ thread \in joining \ watchers
    /\ joining' = joining \ {thread}
    /\ current' = IF joining' = {} THEN 0 ELSE current
    /\ UNCHANGED <<starts, shared, cancelled, watchers, handles, recentEvents, pushes>>

\* Mutant: what came last is given up.
KeptFirst(events) ==
    IF Len(events) > MaxRecent THEN SubSeq(events, 1, MaxRecent \div 2) ELSE events

KeptRecent(events) ==
    IF Len(events) > MaxRecent THEN SubSeq(events, MaxRecent \div 2 + 1, Len(events)) ELSE events

DrainEvents ==
    /\ Idle /\ current # 0
    /\ recentEvents' = KeptRecent(recentEvents \o shared[current])
    /\ shared' = [shared EXCEPT ![current] = <<>>]
    /\ UNCHANGED <<starts, current, cancelled, watchers, handles, joining, pushes>>

\* watch_directory, one tracked record; what is not tracked and what the system's buffer
\* could not hold leaves no trace.
Push(thread) ==
    LET n == pushes[thread] + 1
    IN  /\ thread \in watchers
        /\ FoldFunction(+, 0, pushes) < MaxChanges
        /\ pushes' = [pushes EXCEPT ![thread] = n]
        /\ shared' = [shared EXCEPT ![StartedBy(thread)] = Append(@, [thread |-> thread, n |-> n])]
        /\ UNCHANGED <<starts, current, cancelled, watchers, handles, joining, recentEvents>>

\* The flag is seen within 500 ms; without it a watcher ends when its directory cannot
\* be opened or read.
WatcherEnds(thread) ==
    /\ thread \in watchers
    /\ watchers' = watchers \ {thread}
    /\ UNCHANGED <<starts, shared, current, cancelled, handles, joining, recentEvents, pushes>>

NextFiles ==
    \/ StartWatching \/ BeginStop \/ DrainEvents
    \/ \E thread \in Thread : Join(thread) \/ Push(thread) \/ WatcherEnds(thread)
-----------------------------------------------------------------------------
\* The events the monitor has or will have, and where those of a thread are.
Collected == recentEvents \o (IF current = 0 THEN <<>> ELSE shared[current])
EventsOf(events, thread) == {i \in DOMAIN events : events[i].thread = thread}

\* Of two of them with none between the second is the next.
NoHoles(events, thread) ==
    \A i, j \in EventsOf(events, thread) :
        i < j /\ (\A k \in EventsOf(events, thread) : k <= i \/ j <= k)
            => events[j].n = events[i].n + 1

EndsWith(events, thread, n) ==
    \A i \in EventsOf(events, thread) :
        (\A k \in EventsOf(events, thread) : k <= i) => events[i].n = n

(* What is seen of a directory has no hole, whatever was given up to make room,*)
(* and of the watchers whose vector is still drained it goes on to the latest. *)
RecentHasNoHoles ==
    \A thread \in Thread :
        /\ NoHoles(Collected, thread)
        /\ StartedBy(thread) = current => EndsWith(Collected, thread, pushes[thread])
=============================================================================
