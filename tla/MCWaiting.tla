----------------------------- MODULE MCWaiting ------------------------------
(* A small instance of Waiting for TLC. *)
EXTENDS Waiting

(* As in MCOrchestrator, which adds a backend with restart = False and     *)
(* keeps it; the context is not left, and nobody forces a stop.            *)
BackendBounds ==
    /\ ctx' = "in" => added'[Backend] = "yes"
    /\ added'[Backend] # "removed" /\ ~restart'[Backend] /\ ~force'[Backend]
    /\ ctx' # "exiting"
    /\ ctx' = "out" => Len(queue') <= 1
=============================================================================
