---------------------------- MODULE ReplayJournal ----------------------------
(***************************************************************************)
(* The write-ahead journal of the ingestion pipeline                       *)
(* (telemetry/pipeline/journal.rs): one append-only file shared by several *)
(* appending threads, a buffered writer behind a mutex, relaxed counters   *)
(* updated outside it, checkpoint markers written between the records, and *)
(* a replay that reads the file at the next start and truncates it.        *)
(*                                                                         *)
(* The file after its 8-byte header is a sequence of items: an event (a    *)
(* record whose CRC matches), CHKP (a checkpoint marker) or TORN (a partly *)
(* written record).  Offsets count items: every record and marker is one   *)
(* unit long and the header zero.                                          *)
(*                                                                         *)
(* Power loss keeps the synced items and any prefix of the others.  The    *)
(* truncation at the end of a replay is taken as durable at once.          *)
(***************************************************************************)
EXTENDS Naturals, Sequences, FiniteSets

CONSTANTS Threads,             \* threads that call append and checkpoint
          Events,              \* the events they may append, each once
          CheckpointInterval,  \* records between two periodic checkpoints
          NoEvent, CHKP, TORN, \* no event in hand; the two kinds of non-record
          MaxCrashes,          \* bound: process crashes and power losses
          MaxFaults,           \* bound: write and sync calls that fail
          MaxCheckpoints       \* bound: explicit checkpoint() calls

ASSUME ThreadsAssumption == IsFiniteSet(Threads)
ASSUME MarkersAssumption ==
    /\ {NoEvent, CHKP, TORN} \cap Events = {}
    /\ NoEvent # CHKP /\ NoEvent # TORN /\ CHKP # TORN
ASSUME BoundsAssumption ==
    /\ CheckpointInterval \in Nat \ {0}
    /\ MaxCrashes \in Nat
    /\ MaxFaults \in Nat
    /\ MaxCheckpoints \in Nat

Item == Events \cup {CHKP, TORN}

VARIABLES
    phase,          \* "down", "opening" (file created, no header yet), "opened", "up"
    header,         \* "absent", "partial", "written", "durable"
    file,           \* the items the operating system has
    synced,         \* how many of them are on stable storage
    buffer,         \* items a failed flush left in the BufWriter
    bytesWritten, recordsWritten, checkpointPos,
    pc,             \* where each thread is: "idle" or the step it does next
    event,          \* the event each thread is appending, or NoEvent
    offset,         \* the offset append loaded and will return
    pos,            \* the position checkpoint() loaded
    crashes, faults, checkpoints

\* History: what the callers have seen.
VARIABLES
    started,        \* events given to append
    acked,          \* events whose append returned Ok
    handed,         \* events some replay returned
    shadowed        \* events written behind an item replay cannot read

counters == <<bytesWritten, recordsWritten, checkpointPos>>
threads == <<pc, event, offset, pos>>
bounds == <<crashes, faults, checkpoints>>
history == <<started, acked, handed, shadowed>>
vars == <<phase, header, file, synced, buffer, counters, threads, bounds, history>>

\* Replay understands the items before the first one that is not a record:
\* the header of a marker or of a torn record fails the length, CRC or EOF check.
Intact(s, n) == \A i \in 1..n : s[i] \in Events

\* Mutant: the last record is not read.
ReadableButLast(s) == {i \in 1..Len(s) : i < Len(s) /\ Intact(s, i)}

Readable(s) == {i \in 1..Len(s) : Intact(s, i)}

\* Mutant: an empty journal is cut before its first item.
KeptLenUnguarded(s) == Cardinality(Readable(s)) - 1

\* What stays after replay: the file is cut at the START of the last record read.
KeptLen(s) == IF Readable(s) = {} THEN 0 ELSE Cardinality(Readable(s)) - 1

Idle == [t \in Threads |-> "idle"]
NoEvents == [t \in Threads |-> NoEvent]
Zeros == [t \in Threads |-> 0]

Init ==
    /\ phase = "down" /\ header = "absent"
    /\ file = <<>> /\ synced = 0 /\ buffer = <<>>
    /\ bytesWritten = 0 /\ recordsWritten = 0 /\ checkpointPos = 0
    /\ pc = Idle /\ event = NoEvents /\ offset = Zeros /\ pos = Zeros
    /\ crashes = 0 /\ faults = 0 /\ checkpoints = 0
    /\ started = {} /\ acked = {} /\ handed = {} /\ shadowed = {}
-----------------------------------------------------------------------------
(* open() and replay(): single-threaded, before any append of the session. *)

\* open() on a path with no file: the file now exists, its header does not.
Create ==
    /\ phase = "down" /\ header = "absent"
    /\ phase' = "opening" /\ header' = "partial"
    /\ UNCHANGED <<file, synced, buffer, counters, threads, bounds, history>>

WriteHeader ==
    /\ phase = "opening"
    /\ phase' = "opened" /\ header' = "written"
    /\ bytesWritten' = 0 /\ recordsWritten' = 0 /\ checkpointPos' = 0
    /\ UNCHANGED <<file, synced, buffer, threads, bounds, history>>

\* open() on an existing file checks the header; a partial one is an error and
\* no journal is created, so there is no action for it.
OpenExisting ==
    /\ phase = "down" /\ header \in {"written", "durable"}
    /\ phase' = "opened"
    /\ bytesWritten' = Len(file) /\ recordsWritten' = 0 /\ checkpointPos' = 0
    /\ UNCHANGED <<header, file, synced, buffer, threads, bounds, history>>

\* Mutant: the counter is not reset with the file.
ReplayKeepsCounter ==
    /\ phase = "opened"
    /\ phase' = "up"
    /\ handed' = handed \cup {file[i] : i \in Readable(file)}
    /\ file' = SubSeq(file, 1, KeptLen(file))
    /\ synced' = IF synced > KeptLen(file) THEN KeptLen(file) ELSE synced
    /\ UNCHANGED <<header, buffer, counters, threads, bounds, started, acked, shadowed>>

Replay ==
    /\ phase = "opened"
    /\ phase' = "up"
    /\ handed' = handed \cup {file[i] : i \in Readable(file)}
    /\ file' = SubSeq(file, 1, KeptLen(file))
    /\ synced' = IF synced > KeptLen(file) THEN KeptLen(file) ELSE synced
    /\ bytesWritten' = KeptLen(file)
    /\ UNCHANGED <<header, buffer, recordsWritten, checkpointPos, threads, bounds,
                   started, acked, shadowed>>
-----------------------------------------------------------------------------
(* append(): the record is written and flushed under the mutex, the counters *)
(* are updated after it, then the periodic checkpoint, then fsync.           *)

StartAppend(t, e) ==
    /\ phase = "up" /\ pc[t] = "idle" /\ e \notin started
    /\ started' = started \cup {e}
    /\ pc' = [pc EXCEPT ![t] = "write"]
    /\ event' = [event EXCEPT ![t] = e]
    /\ UNCHANGED <<phase, header, file, synced, buffer, counters, offset, pos, bounds,
                   acked, handed, shadowed>>

\* An event written behind an unreadable item is out of replay's sight.
Shadow(s, e) == IF Intact(s, Len(s)) THEN {} ELSE {e}

WriteRecord(t) ==
    /\ pc[t] = "write"
    /\ offset' = [offset EXCEPT ![t] = bytesWritten]
    /\ file' = file \o Append(buffer, event[t])
    /\ buffer' = <<>>
    /\ shadowed' = shadowed \cup Shadow(file \o buffer, event[t])
    /\ pc' = [pc EXCEPT ![t] = "count"]
    /\ UNCHANGED <<phase, header, synced, counters, event, pos, bounds,
                   started, acked, handed>>

\* The `?' returns: the caller gets the error and the thread is idle again.
Fails(t) ==
    /\ faults < MaxFaults
    /\ faults' = faults + 1
    /\ pc' = [pc EXCEPT ![t] = "idle"]
    /\ event' = [event EXCEPT ![t] = NoEvent]
    /\ offset' = [offset EXCEPT ![t] = 0]
    /\ pos' = [pos EXCEPT ![t] = 0]

\* A failed flush leaves the record in the BufWriter, for the next flush to
\* write; a record larger than the buffer goes straight to the file and a
\* failure in the middle tears it.
WriteFails(t) ==
    /\ pc[t] = "write"
    /\ Fails(t)
    /\ \/ /\ buffer' = Append(buffer, event[t])
          /\ file' = file
          /\ shadowed' = shadowed \cup Shadow(file \o buffer, event[t])
       \/ /\ buffer' = <<>>
          /\ file' = file \o Append(buffer, TORN)
          /\ shadowed' = shadowed
    /\ UNCHANGED <<phase, header, synced, counters, crashes, checkpoints,
                   started, acked, handed>>

\* bytes_written then records_written; a record whose number is a multiple of
\* the interval triggers the periodic checkpoint.
Count(t) ==
    /\ pc[t] = "count"
    /\ bytesWritten' = bytesWritten + 1
    /\ recordsWritten' = recordsWritten + 1
    /\ pc' = [pc EXCEPT ![t] = IF (recordsWritten + 1) % CheckpointInterval = 0
                               THEN "loadPos" ELSE "sync"]
    /\ UNCHANGED <<phase, header, file, synced, buffer, checkpointPos, event, offset, pos,
                   bounds, history>>

Forget(t) ==
    /\ event' = [event EXCEPT ![t] = NoEvent]
    /\ offset' = [offset EXCEPT ![t] = 0]

SyncData(t) ==
    /\ pc[t] = "sync"
    /\ file' = file \o buffer
    /\ buffer' = <<>>
    /\ synced' = Len(file')
    /\ header' = "durable"
    /\ acked' = acked \cup {event[t]}
    /\ pc' = [pc EXCEPT ![t] = "idle"]
    /\ Forget(t)
    /\ UNCHANGED <<phase, counters, pos, bounds, started, handed, shadowed>>

\* Mutant: the error of fsync is ignored.
SyncErrorIgnored(t) ==
    /\ pc[t] = "sync"
    /\ Fails(t)
    /\ acked' = acked \cup {event[t]}
    /\ UNCHANGED <<phase, header, file, synced, buffer, counters, crashes, checkpoints,
                   started, handed, shadowed>>

SyncFails(t) ==
    /\ pc[t] = "sync"
    /\ Fails(t)
    /\ UNCHANGED <<phase, header, file, synced, buffer, counters, crashes, checkpoints, history>>
-----------------------------------------------------------------------------
(* checkpoint(): called by append every CheckpointInterval records and by   *)
(* the coordinator's shutdown.  The position is loaded before the mutex.    *)

StartCheckpoint(t) ==
    /\ phase = "up" /\ pc[t] = "idle" /\ checkpoints < MaxCheckpoints
    /\ checkpoints' = checkpoints + 1
    /\ pc' = [pc EXCEPT ![t] = "loadPos"]
    /\ UNCHANGED <<phase, header, file, synced, buffer, counters, event, offset, pos,
                   crashes, faults, history>>

LoadPos(t) ==
    /\ pc[t] = "loadPos"
    /\ pos' = [pos EXCEPT ![t] = bytesWritten]
    /\ pc' = [pc EXCEPT ![t] = "mark"]
    /\ UNCHANGED <<phase, header, file, synced, buffer, counters, event, offset, bounds, history>>

\* bytes_written is not moved past the marker.
WriteMarker(t) ==
    /\ pc[t] = "mark"
    /\ file' = file \o Append(buffer, CHKP)
    /\ buffer' = <<>>
    /\ checkpointPos' = pos[t]
    /\ pos' = [pos EXCEPT ![t] = 0]
    /\ pc' = [pc EXCEPT ![t] = IF event[t] = NoEvent THEN "idle" ELSE "sync"]
    /\ UNCHANGED <<phase, header, synced, bytesWritten, recordsWritten, event, offset, bounds,
                   history>>

\* Inside append the error of checkpoint() is append's error.
MarkerFails(t) ==
    /\ pc[t] = "mark"
    /\ Fails(t)
    /\ buffer' = Append(buffer, CHKP)
    /\ UNCHANGED <<phase, header, file, synced, counters, crashes, checkpoints, history>>
-----------------------------------------------------------------------------
(* The end of a session. *)

StopThreads ==
    /\ phase' = "down"
    /\ buffer' = <<>>
    /\ bytesWritten' = 0 /\ recordsWritten' = 0 /\ checkpointPos' = 0
    /\ pc' = Idle /\ event' = NoEvents /\ offset' = Zeros /\ pos' = Zeros

\* The process ends with no call in progress; dropping the BufWriter flushes it.
Exit ==
    /\ phase = "up" /\ pc = Idle
    /\ StopThreads
    /\ file' = file \o buffer
    /\ UNCHANGED <<header, synced, bounds, history>>

\* A write is in progress, so that stopping here can leave part of it behind.
Writing == buffer # <<>> \/ \E t \in Threads : pc[t] \in {"write", "mark"}

TornTail(torn) == IF torn THEN <<TORN>> ELSE <<>>

\* The process dies: what it wrote stays with the operating system.
ProcessCrash ==
    /\ phase # "down" /\ crashes < MaxCrashes
    /\ crashes' = crashes + 1
    /\ StopThreads
    /\ \E torn \in {FALSE, Writing} : file' = file \o TornTail(torn)
    /\ UNCHANGED <<header, synced, faults, checkpoints, history>>

\* The machine dies: only what was synced is sure to stay.
SurvivingHeader == CASE header \in {"absent", "durable"} -> {header}
                     [] header = "partial" -> {"absent", "partial"}
                     [] header = "written" -> {"absent", "partial", "durable"}

PowerLoss ==
    /\ crashes < MaxCrashes
    /\ crashes' = crashes + 1
    /\ StopThreads
    /\ header' \in SurvivingHeader
    /\ IF header' = "durable"
       THEN \E k \in synced..Len(file) :
               \E torn \in {FALSE, k < Len(file) \/ Writing} :
                  file' = SubSeq(file, 1, k) \o TornTail(torn)
       ELSE file' = <<>>
    /\ synced' = Len(file')
    /\ UNCHANGED <<faults, checkpoints, history>>
-----------------------------------------------------------------------------
ThreadStep(t) ==
    \/ \E e \in Events : StartAppend(t, e)
    \/ WriteRecord(t) \/ WriteFails(t)
    \/ Count(t)
    \/ StartCheckpoint(t) \/ LoadPos(t) \/ WriteMarker(t) \/ MarkerFails(t)
    \/ SyncData(t) \/ SyncFails(t)

Next ==
    \/ Create \/ WriteHeader \/ OpenExisting \/ Replay
    \/ \E t \in Threads : ThreadStep(t)
    \/ Exit \/ ProcessCrash \/ PowerLoss

Spec == Init /\ [][Next]_vars
-----------------------------------------------------------------------------
TypeOK ==
    /\ phase \in {"down", "opening", "opened", "up"}
    /\ header \in {"absent", "partial", "written", "durable"}
    /\ file \in Seq(Item) /\ buffer \in Seq(Item)
    /\ synced \in 0..Len(file)
    /\ bytesWritten \in Nat /\ recordsWritten \in Nat /\ checkpointPos \in Nat
    /\ pc \in [Threads -> {"idle", "write", "count", "loadPos", "mark", "sync"}]
    /\ event \in [Threads -> Events \cup {NoEvent}]
    /\ offset \in [Threads -> Nat] /\ pos \in [Threads -> Nat]
    /\ crashes \in 0..MaxCrashes /\ faults \in 0..MaxFaults
    /\ checkpoints \in 0..MaxCheckpoints
    /\ started \subseteq Events /\ acked \subseteq Events
    /\ handed \subseteq Events /\ shadowed \subseteq Events

\* The record of e is among the first n items of s, with only records before it.
ReadableWithin(s, e, n) == \E i \in 1..n : s[i] = e /\ Intact(s, i)

(* append() returns Ok only after fsync: whatever thread synced it and        *)
(* whatever crash follows, an acknowledged event that no replay returned yet  *)
(* is on stable storage where the next replay reads it, unless a marker or a  *)
(* torn record was already in front of it when it was written.                *)
AckedIsRecoverable ==
    \A e \in acked \ (handed \cup shadowed) : ReadableWithin(file, e, synced)

(* bytes_written (returned by append as an offset, used by size() and by the  *)
(* rotation check) is updated outside the mutex: it may lag behind the file,  *)
(* by the records not yet counted and the markers never counted, but it never *)
(* runs ahead of it, so no offset points past the end.                        *)
CounterNeverAhead ==
    phase = "up" =>
        bytesWritten + Cardinality({t \in Threads : pc[t] = "count"}) <= Len(file)

(* Every acknowledged event is still in the file where a replay reads it.     *)
AckedIsReadable ==
    phase = "up" => \A e \in acked \ handed : ReadableWithin(file, e, Len(file))

(* The journal implements the abstract log for the events it does not shadow: *)
(* every recovery returns whatever was acknowledged and not yet returned.      *)
Log == INSTANCE RecoverableLog WITH accepted <- acked \ shadowed, returned <- handed
ImplementsLog == Log!Spec
=============================================================================
