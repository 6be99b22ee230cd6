------------------------ MODULE MCIngestionPipeline ------------------------
(***************************************************************************)
(* Small instances of the ingestion pipeline.  Every channel has one place *)
(* and each filter window lets one event through, so that two alerts make  *)
(* a sender wait, two network events are rate-limited, and a network event *)
(* competes with the heartbeat for the Low channel.                        *)
(***************************************************************************)
EXTENDS IngestionPipeline, TLC

CONSTANTS p1, p2, alert1, alert2, network1, network2

Env(type, trust, priority) == [type |-> type, trust |-> trust, priority |-> priority]

Known == alert1   :> Env("KernelEvent", Kernel, Low) @@
         alert2   :> Env("IntegrityViolation", Admin, Low) @@
         network1 :> Env("TcpConnectionEstablished", User, Critical) @@
         network2 :> Env("TcpConnectionEstablished", User, Medium)

MCEnvelope == [e \in Events |-> Known[e]]

MCCapacity == [p \in Priority |-> 1]
MCRateLimit == [y \in RateLimitedTypes |-> 1]

\* Either two alerts and a second session, or two network events and the heartbeat.
Scenario == \/ emitted \subseteq {alert1, alert2} /\ beats = 0
            \/ emitted \subseteq {network1, network2} /\ sessions <= 1

ProducerSymmetry == Permutations({p1, p2})
=============================================================================
