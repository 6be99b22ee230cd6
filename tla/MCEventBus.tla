----------------------------- MODULE MCEventBus -----------------------------
(* Small instances of the event bus for TLC. *)
EXTENDS EventBus, TLC

\* Emitters and events are interchangeable.
Symmetry == Permutations(Emitters) \cup Permutations(Events)
=============================================================================
