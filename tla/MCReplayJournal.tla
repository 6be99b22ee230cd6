--------------------------- MODULE MCReplayJournal ---------------------------
(* Small instances of ReplayJournal for TLC. *)
EXTENDS ReplayJournal, TLC

\* Threads and events are interchangeable.
Symmetry == Permutations(Threads) \cup Permutations(Events)
=============================================================================
