------------------------------ MODULE Platform ------------------------------
(***************************************************************************)
(* lib.rs: the consumer of the fabric keeps the live graph and the         *)
(* investigations, which the commands of the UI create and read.           *)
(***************************************************************************)
EXTENDS EventFabric, GraphIntelligence, Investigations

VARIABLE consumed        \* history: the events the consumer took, in order

platformVars == <<fabricVars, live, caseVars, consumed>>

InitPlatform == InitFabric /\ InitLiveGraph /\ InitInvestigations /\ consumed = <<>>

\* The graph first, then the timelines.
Consume ==
    /\ channel["consumer"] # <<>>
    /\ LET n == Head(channel["consumer"])
       IN  /\ BeginRouting(n)
           /\ live' = IngestLive(live, flow[n], n)
           /\ consumed' = Append(consumed, n)
    /\ TakeFrom("consumer")
    /\ UNCHANGED <<investigations, timeline, evidence, uiReader, sessionVars, joined>>

Commands ==
    \/ CreateFromEvent(Len(consumed))
    \/ \E i \in Cases : OpenDetail(i)
    \/ CopyNext
    \/ OpenSession
    \/ \E id \in 1..MaxOpened : CloseSession(id) \/ UpdateSession(id)

Route ==
    \/ \E i \in Cases : AddTimelineEntry(i, flow[routing.event])
    \/ AddEvidence
    \/ EndRouting

NextPlatform ==
    \/ NextFabric /\ UNCHANGED <<live, caseVars, consumed>>
    \/ Consume
    \/ (Commands \/ Route) /\ UNCHANGED <<fabricVars, live, consumed>>
-----------------------------------------------------------------------------
\* What a view was given: taken or still in its channel.
Given(v) == (IF v = "consumer" THEN consumed ELSE shown) \o channel[v]

\* What was emitted since it subscribed, and what of that it lacks.
Due(v) == since[v] + 1..emittedCount
Lacks(v) == Due(v) \ ToSet(Given(v))

(* Each view is a subsequence of what was emitted since it subscribed, and the *)
(* events that some view lacks are as many as total_dropped says.              *)
ViewsDifferByDrops ==
    fanout = Settled =>
        /\ totalDropped = Cardinality(UNION {Lacks(v) : v \in subscribed})
        /\ \A v \in subscribed : Rising(Given(v)) /\ ToSet(Given(v)) \subseteq Due(v)

\* How much of the latest event an investigation is still to be given.
Pending(i) == IF i \in routing.toVisit THEN 1 ELSE 0
Attaching(i) == IF i = routing.attaching THEN <<routing.event>> ELSE <<>>

(* Whatever the UI does meanwhile, an investigation's timeline is everything   *)
(* the consumer took since the investigation was there, and its evidence is    *)
(* what of that is of high risk, up to the event being routed.  The comment at *)
(* timeline.rs:6 speaks of matching investigations; the code compares nothing  *)
(* with an investigation's entity, and gives each event to every one.          *)
TimelineIsComplete ==
    \A i \in investigations :
        /\ timeline[i] = SubSeq(consumed, joined[i] + 1, Len(consumed) - Pending(i))
        /\ Rising(evidence[i] \o Attaching(i))
        /\ ToSet(evidence[i] \o Attaching(i)) = Deserving(timeline[i], flow)

DetailsAreConsistent == DetailIsConsistent(flow)
=============================================================================
