---------------------------- MODULE MCSupervisor ----------------------------
(* Small instances of Supervisor for TLC. *)
EXTENDS Supervisor, TLC

Symmetry == Permutations(Units)

(* Bounds of the run with two units: both are added before the context is  *)
(* entered; only leaving the context forces stops; and a context that was  *)
(* left with an exception is not entered again.                            *)
TwoUnitBounds ==
    /\ ctx' # "out" => \A u \in Units : added[u] # "no"
    /\ loop # "stopAll" => \A u \in Units : force'[u] => force[u]
    /\ ctx = "out" /\ ctx' = "in" => raised = "none"

(* That run tells states apart by what guards read; result and the two     *)
(* events are only written.                                                *)
GuardView == <<added, restart, status, at, cancel, pendingStart, pendingStop,
               force, task, finished, queue, loopVars>>
=============================================================================
