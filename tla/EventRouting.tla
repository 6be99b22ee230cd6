---------------------------- MODULE EventRouting ----------------------------
(***************************************************************************)
(* The pure part of the ingestion router (telemetry/pipeline/router.rs):   *)
(* which priority an envelope is queued at.  The default route table gives *)
(* every listed event type one priority, whatever the envelope claims; an  *)
(* unlisted type keeps its claim.  The source trust then overrides both.   *)
(***************************************************************************)
EXTENDS Naturals

\* EventPriority and SourceTrust, as their discriminants.
Critical == 3
High == 2
Medium == 1
Low == 0
Priority == {Low, Medium, High, Critical}

Kernel == 3
Admin == 2
User == 1
External == 0
Trust == {External, User, Admin, Kernel}

CriticalTypes == {"IntegrityViolation", "KernelCallbackTampered", "UnsignedDriverDetected",
                  "ProcessProtected", "KernelEvent"}
HighTypes == {"DetectionTechniqueTriggered", "DetectionAnomaly", "MultiTechniqueCorrelation",
              "MemoryAllocated", "MemoryProtectionChanged", "ThreadContextModified"}
MediumTypes == {"ProcessCreated", "ProcessTerminated", "ThreadCreated", "ThreadTerminated",
                "ImageLoaded", "DriverLoaded"}
LowTypes == {"FileCreated", "FileDeleted", "FileModified", "TcpConnectionEstablished",
             "Heartbeat"}

\* Types with a filter rule; "Unlisted" stands for every type with no rule at all.
RateLimitedTypes == {"Heartbeat", "TcpConnectionEstablished"}
EventType == CriticalTypes \cup HighTypes \cup MediumTypes \cup LowTypes \cup {"Unlisted"}

EnvelopeType == [type : EventType, trust : Trust, priority : Priority]

\* The first matching route rule: no type has two.
TablePriority(envelope) ==
    CASE envelope.type \in CriticalTypes -> Critical
      [] envelope.type \in HighTypes -> High
      [] envelope.type \in MediumTypes -> Medium
      [] envelope.type \in LowTypes -> Low
      [] OTHER -> envelope.priority

\* Kernel events are at least High; Critical needs a kernel or an admin source.
TrustOverride(priority, trust) ==
    CASE trust = Kernel /\ priority < High -> High
      [] priority = Critical /\ trust \notin {Kernel, Admin} -> High
      [] OTHER -> priority

RoutedPriority(envelope) == TrustOverride(TablePriority(envelope), envelope.trust)
=============================================================================
