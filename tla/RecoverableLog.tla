--------------------------- MODULE RecoverableLog ---------------------------
(***************************************************************************)
(* What a crash-recovery log promises, with nothing said of files, sync or *)
(* threads: once an event has been accepted, the next recovery returns it, *)
(* unless an earlier recovery already did.  A recovery may return more than *)
(* that (events whose acceptance was never acknowledged, and events it has *)
(* returned before): the promise is at-least-once.                         *)
(***************************************************************************)
CONSTANT Events       \* what can be logged

VARIABLES accepted,   \* events whose append was acknowledged
          returned    \* events some recovery has handed back

logVars == <<accepted, returned>>

Init == /\ accepted = {}
        /\ returned = {}

\* The log acknowledges one event.
Accept(e) == /\ e \notin accepted
             /\ accepted' = accepted \cup {e}
             /\ UNCHANGED returned

\* A recovery hands back S: at least every accepted event still outstanding.
Return(S) == /\ accepted \ returned \subseteq S
             /\ returned' = returned \cup S
             /\ UNCHANGED accepted

Recover == \E S \in SUBSET Events : Return(S)

Next == Recover \/ \E e \in Events : Accept(e)

Spec == Init /\ [][Next]_logVars
=============================================================================
