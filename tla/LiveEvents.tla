----------------------------- MODULE LiveEvents -----------------------------
(***************************************************************************)
(* The events of the live telemetry and what each of the platform's        *)
(* converters makes of them: the canonical event of telemetry/fabric.rs,   *)
(* the envelope of telemetry/envelope.rs and the priority the pipeline     *)
(* queues it at.                                                           *)
(***************************************************************************)
EXTENDS EventRouting, Sequences

\* TelemetryEvent: pid 0 is no process; what is the path, address, rule or thread the
\* event is about; said is the severity a detector claims, or "anomalies" of an image.
Event(kind, pid, ppid, what, said) ==
    [kind |-> kind, pid |-> pid, ppid |-> ppid, what |-> what, said |-> said]

\* Severity, by its discriminant.
Level == [critical |-> 4, high |-> 3, medium |-> 2, low |-> 1, informational |-> 0]

\* Severity::from_str
LevelNamed(said) == IF said \in DOMAIN Level THEN Level[said] ELSE Level.informational

Category(e) ==
    CASE e.kind \in {"ProcessCreated", "ProcessTerminated"} -> "Process"
      [] e.kind = "ThreadCreated" -> "Thread"
      [] e.kind = "ImageLoaded" -> "Image"
      [] e.kind = "SuspiciousActivity" -> "Detection"
      [] e.kind = "IntegrityAlert" -> "Integrity"
      [] e.kind = "NetworkConnection" -> "Network"
      [] e.kind = "FileChanged" -> "FileSystem"
      [] e.kind = "RegistryModified" -> "Registry"
      [] e.kind = "MemoryChanged" -> "Memory"
      [] e.kind = "SystemHealth" -> "Heartbeat"

\* The same in both converters.
SeverityOf(e) ==
    CASE e.kind \in {"ProcessCreated", "SystemHealth"} -> Level.informational
      [] e.kind \in {"ProcessTerminated", "ThreadCreated", "FileChanged"} -> Level.low
      [] e.kind = "ImageLoaded" -> IF e.said = "anomalies" THEN Level.medium ELSE Level.low
      [] e.kind \in {"NetworkConnection", "RegistryModified", "MemoryChanged"} -> Level.medium
      [] e.kind = "IntegrityAlert" -> Level.high
      [] e.kind = "SuspiciousActivity" -> LevelNamed(e.said)

\* payload_to_event_type; the types without a route are one.
PipelineType(e) ==
    CASE e.kind \in {"ProcessCreated", "ProcessTerminated", "ThreadCreated", "ImageLoaded"} -> e.kind
      [] e.kind = "MemoryChanged" -> "MemoryProtectionChanged"
      [] e.kind = "FileChanged" -> "FileModified"
      [] e.kind = "NetworkConnection" -> "TcpConnectionEstablished"
      [] e.kind = "SuspiciousActivity" -> "DetectionTechniqueTriggered"
      [] e.kind = "IntegrityAlert" -> "IntegrityViolation"
      [] e.kind = "SystemHealth" -> "Heartbeat"
      [] e.kind = "RegistryModified" -> "Unlisted"

\* severity_to_priority
ClaimedPriority(severity) == IF severity = Level.informational THEN Low ELSE severity - 1

\* canonical_to_pipeline and the route table: every converted event names the process
\* monitor, trusted as an administrator, as its source.
PipelinePriority(e) ==
    RoutedPriority([type |-> PipelineType(e), trust |-> Admin,
                    priority |-> ClaimedPriority(SeverityOf(e))])

\* FrontendSubscription::matches, with None for no process filter.  A system's health
\* has no process, and a file change may have none.
CONSTANT NoFilter
Matches(filter, e) ==
    /\ filter.pid # NoFilter => e.kind # "SystemHealth" /\ e.pid = filter.pid
    /\ Category(e) \in filter.categories
    /\ SeverityOf(e) >= filter.minSeverity

\* Events go by their numbers: these are in the order in which they were produced.
Rising(numbers) == \A j, k \in DOMAIN numbers : j < k => numbers[j] < numbers[k]
=============================================================================
