--------------------------- MODULE Investigations ---------------------------
(***************************************************************************)
(* investigation/: investigations, the timeline and the evidence that the  *)
(* consumer of the fabric collects for each of them, and the sessions in   *)
(* which an analyst works.  Tables are concurrent maps: every access to    *)
(* one is a step, and the consumer's pass over the investigations meets    *)
(* each that was there when it began, and perhaps those made meanwhile.    *)
(***************************************************************************)
EXTENDS LiveEvents, FiniteSets, SequencesExt

CONSTANTS MaxInvestigations, MaxOpened

ASSUME InvestigationsAssumption == MaxInvestigations \in Nat

Cases == 1..MaxInvestigations

VARIABLES investigations,    \* their identifiers
          timeline,          \* timeline_entries, the events by their number
          evidence,          \* evidence_items
          routing,           \* the pass: the event, whom it is still to visit, whose evidence is next
          uiReader,            \* get_investigation on behalf of the UI
          sessions,          \* identifiers of the open sessions
          opened,            \* how many were ever opened
          joined             \* history: events routed before an investigation was part of a pass

caseVars == <<investigations, timeline, evidence, routing, uiReader, sessions, opened, joined>>
sessionVars == <<sessions, opened>>

Nobody == 0
AtRest == [event |-> 0, toVisit |-> {}, attaching |-> Nobody]
NothingRead == [case |-> Nobody, copied |-> 0, evidence |-> <<>>, timeline |-> <<>>]

InitInvestigations ==
    /\ investigations = {} /\ timeline = [i \in Cases |-> <<>>] /\ evidence = [i \in Cases |-> <<>>]
    /\ routing = AtRest /\ uiReader = NothingRead
    /\ sessions = {} /\ opened = 0 /\ joined = [i \in Cases |-> 0]

\* create_from_event; the current pass may or may not come by.  Of the entity that the
\* UI names the engine keeps the label: its entity_id becomes the event's own.
CreateFromEvent(routed) ==
    LET id == Cardinality(investigations) + 1
    IN  /\ id \in Cases
        /\ investigations' = investigations \cup {id}
        /\ \/ joined' = [joined EXCEPT ![id] = routed] /\ UNCHANGED routing
           \/ /\ routing # AtRest
              /\ routing' = [routing EXCEPT !.toVisit = @ \cup {id}]
              /\ joined' = [joined EXCEPT ![id] = routed - 1]
        /\ UNCHANGED <<timeline, evidence, uiReader, sessionVars>>

\* route_event_to_timelines begins.
BeginRouting(n) ==
    /\ routing = AtRest
    /\ routing' = [event |-> n, toVisit |-> investigations, attaching |-> Nobody]

\* The event is a conversion: its risk score is zero.
HighRisk(e) == SeverityOf(e) >= Level.high

\* Mutant: a high-risk event ends the pass.
AddTimelineEntryOnce(i, e) ==
    /\ routing.attaching = Nobody /\ i \in routing.toVisit
    /\ timeline' = [timeline EXCEPT ![i] = Append(@, routing.event)]
    /\ routing' = [routing EXCEPT !.toVisit = IF HighRisk(e) THEN {} ELSE @ \ {i},
                                  !.attaching = IF HighRisk(e) THEN i ELSE Nobody]
    /\ UNCHANGED <<investigations, evidence, uiReader, sessionVars, joined>>

AddTimelineEntry(i, e) ==
    /\ routing.attaching = Nobody /\ i \in routing.toVisit
    /\ timeline' = [timeline EXCEPT ![i] = Append(@, routing.event)]
    /\ routing' = [routing EXCEPT !.toVisit = @ \ {i},
                                  !.attaching = IF HighRisk(e) THEN i ELSE Nobody]
    /\ UNCHANGED <<investigations, evidence, uiReader, sessionVars, joined>>

AddEvidence ==
    /\ routing.attaching # Nobody
    /\ evidence' = [evidence EXCEPT ![routing.attaching] = Append(@, routing.event)]
    /\ routing' = [routing EXCEPT !.attaching = Nobody]
    /\ UNCHANGED <<investigations, timeline, uiReader, sessionVars, joined>>

EndRouting ==
    /\ routing # AtRest /\ routing.toVisit = {} /\ routing.attaching = Nobody
    /\ routing' = AtRest
    /\ UNCHANGED <<investigations, timeline, evidence, uiReader, sessionVars, joined>>

\* Mutant: the timeline is copied first.
CopyOrderSwapped == <<"timeline", "evidence">>

\* get_investigation: the two tables are copied one after the other.
CopyOrder == <<"evidence", "timeline">>

OpenDetail(i) ==
    /\ uiReader.copied \in {0, Len(CopyOrder)} /\ i \in investigations
    /\ uiReader' = [NothingRead EXCEPT !.case = i]
    /\ UNCHANGED <<investigations, timeline, evidence, routing, sessionVars, joined>>

CopyNext ==
    LET i == uiReader.case
        next == CopyOrder[uiReader.copied + 1]
    IN  /\ i # Nobody /\ uiReader.copied < Len(CopyOrder)
        /\ uiReader' = [uiReader EXCEPT !.copied = @ + 1,
                          !.evidence = IF next = "evidence" THEN evidence[i] ELSE @,
                          !.timeline = IF next = "timeline" THEN timeline[i] ELSE @]
        /\ UNCHANGED <<investigations, timeline, evidence, routing, sessionVars, joined>>

\* open_session: only for an investigation that exists.
OpenSession ==
    /\ investigations # {} /\ opened < MaxOpened
    /\ opened' = opened + 1 /\ sessions' = sessions \cup {opened + 1}
    /\ UNCHANGED <<investigations, timeline, evidence, routing, uiReader, joined>>

CloseSession(id) ==
    /\ id \in sessions
    /\ sessions' = sessions \ {id}
    /\ UNCHANGED <<investigations, timeline, evidence, routing, uiReader, opened, joined>>

\* update_session inserts the caller's copy, of a session that may be closed by now.
UpdateSession(id) ==
    /\ id \in 1..opened
    /\ sessions' = sessions \cup {id}
    /\ UNCHANGED <<investigations, timeline, evidence, routing, uiReader, opened, joined>>
-----------------------------------------------------------------------------
\* Those of the events that belong to the evidence.
Deserving(numbers, events) == {n \in ToSet(numbers) : HighRisk(events[n])}

\* The first of these numbers, in order.
IsBeginning(copy, numbers) ==
    /\ Rising(copy) /\ ToSet(copy) \subseteq numbers
    /\ \A m \in ToSet(copy), n \in numbers \ ToSet(copy) : m < n

(* The UI may look between any two steps of a pass: what it is shown as        *)
(* evidence is on the timeline it is shown, and what it is shown of a timeline *)
(* that deserves to be evidence is, but for what was routed last.              *)
DetailIsConsistent(events) ==
    uiReader.copied = Len(CopyOrder) =>
        IsBeginning(uiReader.evidence, Deserving(uiReader.timeline, events))
=============================================================================
