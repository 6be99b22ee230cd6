------------------------------ MODULE Endpoint ------------------------------
(***************************************************************************)
(* The parts of the application that share types and no state: the live    *)
(* platform of lib.rs, the machines beside it, and the engines of          *)
(* forensic/, which no caller drives two at a time.  A behaviour is about  *)
(* one of them, its subject, and leaves the others as they start.          *)
(***************************************************************************)
EXTENDS FilesystemHistory, UsnJournal, VolumeForensics, Platform, CorrelationActor,
        FrontendRouter, TraceConsumer, ProcessTracking, FileMonitor

CONSTANTS GraphSamples, MaxIngested     \* events for the live graph alone

VARIABLE subject

vars == <<subject, historyVars, journalVars, volumeVars, platformVars, corrVars, routerVars,
          traceVars, trackingVars, fileVars>>

Forensic == {"history", "journal", "volume"}
Monitoring == {"platform", "graph", "correlation", "router", "trace", "processes", "files"}

InitForensics ==
    /\ InitHistory /\ InitJournal /\ InitVolume
    /\ subject # "volume" => <<disk, logFile>> = CHOOSE v \in Disks \X Logs : TRUE

InitMonitoring ==
    /\ InitPlatform /\ InitCorrelation /\ InitRouter /\ InitFiles
    /\ InitTrace /\ (subject # "trace" => alive = {})
    /\ InitTracking /\ (subject # "processes" => existing = {})

Init == subject \in Forensic \cup Monitoring /\ InitForensics /\ InitMonitoring

NextForensics ==
    \/ subject = "history" /\ NextHistory /\ UNCHANGED <<journalVars, volumeVars>>
    \/ subject = "journal" /\ NextJournal /\ UNCHANGED <<historyVars, volumeVars>>
    \/ subject = "volume" /\ NextVolume /\ UNCHANGED <<historyVars, journalVars>>

\* The graph by itself is given more kinds of events than the fabric's small instance.
IngestMore ==
    \E e \in GraphSamples :
        /\ live.nodeCount < MaxIngested
        /\ live' = IngestLive(live, e, live.nodeCount + 1)
        /\ UNCHANGED <<fabricVars, caseVars, consumed>>

NextMonitoring ==
    \/ /\ \/ subject = "platform" /\ NextPlatform
          \/ subject = "graph" /\ IngestMore
       /\ UNCHANGED <<corrVars, routerVars, traceVars, trackingVars, fileVars>>
    \/ /\ subject = "correlation" /\ NextCorrelation
       /\ UNCHANGED <<platformVars, routerVars, traceVars, trackingVars, fileVars>>
    \/ /\ subject = "router" /\ NextRouter
       /\ UNCHANGED <<platformVars, corrVars, traceVars, trackingVars, fileVars>>
    \/ /\ subject = "trace" /\ NextTrace
       /\ UNCHANGED <<platformVars, corrVars, routerVars, trackingVars, fileVars>>
    \/ /\ subject = "processes" /\ NextTracking
       /\ UNCHANGED <<platformVars, corrVars, routerVars, traceVars, fileVars>>
    \/ /\ subject = "files" /\ NextFiles
       /\ UNCHANGED <<platformVars, corrVars, routerVars, traceVars, trackingVars>>

Next ==
    /\ UNCHANGED subject
    /\ \/ NextForensics /\ UNCHANGED <<platformVars, corrVars, routerVars, traceVars, trackingVars, fileVars>>
       \/ NextMonitoring /\ UNCHANGED <<historyVars, journalVars, volumeVars>>

Spec == Init /\ [][Next]_vars
=============================================================================
