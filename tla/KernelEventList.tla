--------------------------- MODULE KernelEventList ---------------------------
(***************************************************************************)
(* The kernel driver's event list (kernel/IntegrityMonitor.c) and the two  *)
(* threads of the user-mode program that empty it (kernel/telemetry.rs).   *)
(*                                                                         *)
(* Callbacks of the system run on any processor and call AddEventToList,   *)
(* which looks at the count before it takes the spin lock.  Each poller    *)
(* owns a KernelTelemetryService with a handle of its own: it reads up to  *)
(* BatchSize events, broadcasts them, then clears the list: three separate *)
(* critical sections.  The driver is loaded and unloaded, and the program  *)
(* starts and exits, at any time.                                          *)
(***************************************************************************)
EXTENDS Integers, Sequences, FiniteSets, SequencesExt

CONSTANTS Sources,    \* contexts in which callbacks run
          Pollers,    \* threads of the program that call poll_and_emit
          Events,     \* what the callbacks may report, each once
          NoEvent,
          MaxEvents,  \* MAX_EVENTS
          BatchSize   \* events that fit the buffer of read_events

ASSUME KernelAssumption ==
    /\ IsFiniteSet(Sources)
    /\ NoEvent \notin Events
    /\ MaxEvents \in Nat \ {0} /\ BatchSize \in Nat \ {0}

VARIABLES
    driver,             \* "stopped", "loaded", "unloading"
    list, eventCount,   \* g_EventListHead, g_EventCount
    entry,              \* the entry each source has allocated and not yet inserted
    service,            \* of each poller: "absent", "connected", "disconnected"
    at, batch,          \* poll_and_emit: the step it is at, the events it has read
    raised, refused,    \* events reported, and those not accepted
    lost,               \* accepted, then freed unread or dead with the program
    arrivals,           \* every event accepted, in the order of the list
    sent                \* what each poller has broadcast

callbacks == <<entry, raised, refused>>
pollers == <<service, at, batch, sent>>
vars == <<driver, list, eventCount, callbacks, pollers, lost, arrivals>>

Init ==
    /\ driver = "stopped" /\ list = <<>> /\ eventCount = 0
    /\ entry = [s \in Sources |-> NoEvent]
    /\ service = [p \in Pollers |-> "absent"]
    /\ at = [p \in Pollers |-> "sleep"] /\ batch = [p \in Pollers |-> <<>>]
    /\ raised = {} /\ refused = {} /\ lost = {}
    /\ arrivals = <<>> /\ sent = [p \in Pollers |-> <<>>]
-----------------------------------------------------------------------------
(* The driver.  Its image is loaded afresh; removing the notify routines     *)
(* waits for the callbacks that run, and it is not unloaded under a handle.  *)

DriverEntry ==
    /\ driver = "stopped"
    /\ driver' = "loaded" /\ list' = <<>> /\ eventCount' = 0
    /\ UNCHANGED <<callbacks, pollers, lost, arrivals>>

StopDriver ==
    /\ driver = "loaded" /\ \A p \in Pollers : service[p] # "connected"
    /\ driver' = "unloading"
    /\ UNCHANGED <<list, eventCount, callbacks, pollers, lost, arrivals>>

ClearEvents ==
    /\ list' = <<>> /\ eventCount' = 0
    /\ lost' = lost \cup ToSet(list)

DriverUnload ==
    /\ driver = "unloading" /\ \A s \in Sources : entry[s] = NoEvent
    /\ driver' = "stopped"
    /\ ClearEvents
    /\ UNCHANGED <<callbacks, pollers, arrivals>>
-----------------------------------------------------------------------------
(* AddEventToList.  Its callers ignore what it returns.                      *)

\* Mutant: off by one.
HasRoomForOneMore == eventCount <= MaxEvents

HasRoom == eventCount < MaxEvents

\* The count is read without the lock; the entry is allocated outside it too.
Allocate(s, e) ==
    /\ driver = "loaded" /\ entry[s] = NoEvent /\ e \notin raised
    /\ HasRoom
    /\ raised' = raised \cup {e}
    /\ entry' = [entry EXCEPT ![s] = e]
    /\ UNCHANGED <<driver, list, eventCount, pollers, refused, lost, arrivals>>

\* The list is full, or the allocation fails.
Refuse(s, e) ==
    /\ driver = "loaded" /\ entry[s] = NoEvent /\ e \notin raised
    /\ raised' = raised \cup {e} /\ refused' = refused \cup {e}
    /\ UNCHANGED <<driver, list, eventCount, pollers, entry, lost, arrivals>>

\* Mutant: the entry goes to the head of the list.
InsertHead(s) ==
    /\ entry[s] # NoEvent
    /\ list' = <<entry[s]>> \o list /\ eventCount' = eventCount + 1
    /\ arrivals' = Append(arrivals, entry[s])
    /\ entry' = [entry EXCEPT ![s] = NoEvent]
    /\ UNCHANGED <<driver, pollers, raised, refused, lost>>

Insert(s) ==
    /\ entry[s] # NoEvent
    /\ list' = Append(list, entry[s]) /\ eventCount' = eventCount + 1
    /\ arrivals' = Append(arrivals, entry[s])
    /\ entry' = [entry EXCEPT ![s] = NoEvent]
    /\ UNCHANGED <<driver, pollers, raised, refused, lost>>
-----------------------------------------------------------------------------
(* The program.  A service opens the device once, when it is built; a thread *)
(* whose service is not connected never polls.                               *)

\* The open fails without a loaded driver, or when the caller is not trusted.
NewService(p) ==
    /\ service[p] = "absent"
    /\ \/ driver = "loaded" /\ service' = [service EXCEPT ![p] = "connected"]
       \/ service' = [service EXCEPT ![p] = "disconnected"]
    /\ UNCHANGED <<driver, list, eventCount, callbacks, at, batch, sent, lost, arrivals>>

TakenBy(n) == IF Len(list) < n THEN Len(list) ELSE n

\* Mutant: the count is lowered by what the buffer holds, not by what was read.
ReadEventsCountsBuffer(p) ==
    /\ service[p] = "connected" /\ at[p] = "sleep"
    /\ list # <<>>
    /\ LET n == TakenBy(BatchSize)
       IN  batch' = [batch EXCEPT ![p] = SubSeq(list, 1, n)] /\ list' = SubSeq(list, n + 1, Len(list))
    /\ eventCount' = eventCount - BatchSize
    /\ at' = [at EXCEPT ![p] = "emit"]
    /\ UNCHANGED <<driver, callbacks, service, sent, lost, arrivals>>

\* Mutant: the events read stay in the list, for the clear to free.
ReadEventsPeeks(p) ==
    /\ service[p] = "connected" /\ at[p] = "sleep"
    /\ list # <<>>
    /\ batch' = [batch EXCEPT ![p] = SubSeq(list, 1, TakenBy(BatchSize))]
    /\ at' = [at EXCEPT ![p] = "emit"]
    /\ UNCHANGED <<driver, list, eventCount, callbacks, service, sent, lost, arrivals>>

\* Mutant: a read that does not fill the buffer is put off.
ReadFullBatches(p) ==
    /\ service[p] = "connected" /\ at[p] = "sleep"
    /\ Len(list) >= BatchSize
    /\ batch' = [batch EXCEPT ![p] = SubSeq(list, 1, BatchSize)]
    /\ list' = SubSeq(list, BatchSize + 1, Len(list)) /\ eventCount' = eventCount - BatchSize
    /\ at' = [at EXCEPT ![p] = "emit"]
    /\ UNCHANGED <<driver, callbacks, service, sent, lost, arrivals>>

ReadEvents(p) ==
    /\ service[p] = "connected" /\ at[p] = "sleep"
    /\ list # <<>>
    /\ LET n == TakenBy(BatchSize)
       IN  /\ batch' = [batch EXCEPT ![p] = SubSeq(list, 1, n)]
           /\ list' = SubSeq(list, n + 1, Len(list)) /\ eventCount' = eventCount - n
    /\ at' = [at EXCEPT ![p] = "emit"]
    /\ UNCHANGED <<driver, callbacks, service, sent, lost, arrivals>>

Broadcast(p) ==
    /\ at[p] = "emit" /\ batch[p] # <<>>
    /\ sent' = [sent EXCEPT ![p] = Append(@, Head(batch[p]))]
    /\ batch' = [batch EXCEPT ![p] = Tail(@)]
    /\ UNCHANGED <<driver, list, eventCount, callbacks, service, at, lost, arrivals>>

\* The driver may deny the clear; clear_events ignores that.
ClearAfterRead(p) ==
    /\ at[p] = "emit" /\ batch[p] = <<>>
    /\ ClearEvents \/ UNCHANGED <<list, eventCount, lost>>
    /\ at' = [at EXCEPT ![p] = "sleep"]
    /\ UNCHANGED <<driver, callbacks, service, batch, sent, arrivals>>

\* Handles are closed, and what the threads had read dies with them.
ProgramExits ==
    /\ \E p \in Pollers : service[p] # "absent"
    /\ service' = [p \in Pollers |-> "absent"]
    /\ at' = [p \in Pollers |-> "sleep"] /\ batch' = [p \in Pollers |-> <<>>]
    /\ lost' = lost \cup UNION {ToSet(batch[p]) : p \in Pollers}
    /\ UNCHANGED <<driver, list, eventCount, callbacks, sent, arrivals>>
-----------------------------------------------------------------------------
Poll(p) == ReadEvents(p) \/ Broadcast(p) \/ ClearAfterRead(p)

Next ==
    \/ DriverEntry \/ StopDriver \/ DriverUnload
    \/ \E s \in Sources, e \in Events : Allocate(s, e) \/ Refuse(s, e)
    \/ \E s \in Sources : Insert(s)
    \/ \E p \in Pollers : NewService(p) \/ Poll(p)
    \/ ProgramExits

Spec == Init /\ [][Next]_vars

\* A callback that has allocated its entry runs on, and so does a polling thread.
Fairness ==
    /\ \A s \in Sources : WF_vars(Insert(s))
    /\ \A p \in Pollers : WF_vars(Poll(p))

FairSpec == Spec /\ Fairness
-----------------------------------------------------------------------------
TypeOK ==
    /\ driver \in {"stopped", "loaded", "unloading"}
    /\ list \in Seq(Events) /\ eventCount \in Nat
    /\ entry \in [Sources -> Events \cup {NoEvent}]
    /\ service \in [Pollers -> {"absent", "connected", "disconnected"}]
    /\ at \in [Pollers -> {"sleep", "emit"}]
    /\ batch \in [Pollers -> Seq(Events)]
    /\ raised \subseteq Events /\ refused \subseteq Events /\ lost \subseteq Events
    /\ arrivals \in Seq(Events) /\ sent \in [Pollers -> Seq(Events)]

Adding == {s \in Sources : entry[s] # NoEvent}

(* g_EventCount, which AddEventToList trusts and three routines keep by hand  *)
(* (one counts up, one counts down per entry, one resets it), is the length   *)
(* of the list; and though the count is checked outside the lock, the list    *)
(* outgrows MAX_EVENTS by at most one entry per other concurrent callback.    *)
CountIsLength == eventCount = Len(list)
Overshoot == Len(list) + Cardinality(Adding) <= MaxEvents + Cardinality(Sources) - 1
ListDiscipline == CountIsLength /\ Overshoot

\* What a poller has got out of the list: broadcast, or about to be.
Got(p) == sent[p] \o batch[p]

Positions(q, e) == {i \in DOMAIN q : q[i] = e}

\* Who has e, and where.
Holders(e) ==
    {<<"callback", s, 0>> : s \in {s \in Sources : entry[s] = e}}
    \cup {<<"list", "driver", i>> : i \in Positions(list, e)}
    \cup (UNION {{<<"poller", p, i>> : i \in Positions(Got(p), e)} : p \in Pollers})
    \cup (IF e \in refused THEN {<<"refused", "driver", 0>>} ELSE {})
    \cup (IF e \in lost THEN {<<"lost", "driver", 0>>} ELSE {})

(* Two pollers read and clear the same list while callbacks add to it: no     *)
(* event is broadcast twice, or both broadcast and freed unread, and none     *)
(* vanishes but by being refused, freed or lost with the program.             *)
OneHolder == \A e \in Events : Cardinality(Holders(e)) = IF e \in raised THEN 1 ELSE 0

Precedes(d, e) ==
    \E m, n \in DOMAIN arrivals : m < n /\ arrivals[m] = d /\ arrivals[n] = e

InOrder(q) == \A i, j \in DOMAIN q : i < j => Precedes(q[i], q[j])

(* Whatever is read or cleared in between, what one poller broadcasts, and    *)
(* is about to, follows the order of the list.                                *)
EachPollerKeepsOrder == \A p \in Pollers : InOrder(Got(p))

(* While some thread polls, an event does not stay in the driver's list.      *)
ListIsEmptied ==
    \A e \in Events : e \in ToSet(list) ~>
        (e \notin ToSet(list) \/ \A p \in Pollers : service[p] # "connected")
==============================================================================
