---------------------------- MODULE UnitLifecycle ----------------------------
(***************************************************************************)
(* What the Supervisor promises of each unit, without tasks, commands or   *)
(* the supervise loop: a unit moves through READY -> ENTERING -> RUNNING   *)
(* -> EXITING -> (READY | STOPPED); it leaves STOPPED only when a client   *)
(* asks for it; a stop that was asked for is remembered until the unit has *)
(* exited and then leaves it STOPPED; no start is accepted meanwhile; and  *)
(* a unit that was removed before it was started never starts again.      *)
(***************************************************************************)
CONSTANT Units

VARIABLES
    added,     \* "no", "yes" or "removed"
    restart,   \* whether the unit restarts when it ends by itself
    status,    \* the unit's status
    stopping   \* whether a stop has been asked for and not yet carried out

lifeVars == <<added, restart, status, stopping>>

Init ==
    /\ added = [u \in Units |-> "no"]
    /\ restart = [u \in Units |-> FALSE]
    /\ status = [u \in Units |-> "STOPPED"]
    /\ stopping = [u \in Units |-> FALSE]

Move(u, from, to) ==
    /\ status[u] \in from
    /\ status' = [status EXCEPT ![u] = to]

Add(u) ==
    /\ added[u] = "no"
    /\ added' = [added EXCEPT ![u] = "yes"]
    /\ \E r \in BOOLEAN : restart' = [restart EXCEPT ![u] = r]
    /\ \E first \in {"READY", "STOPPED"} : Move(u, {"STOPPED"}, first)
    /\ UNCHANGED stopping

Remove(u) ==
    /\ added[u] = "yes"
    /\ added' = [added EXCEPT ![u] = "removed"]
    /\ UNCHANGED <<restart, status, stopping>>

AskStart(u) ==
    /\ added[u] = "yes" /\ ~stopping[u]
    /\ Move(u, {"STOPPED"}, "READY")
    /\ UNCHANGED <<added, restart, stopping>>

(* A unit that has not been scheduled to start is simply stopped. *)
AskStop(u) ==
    /\ added[u] = "yes"
    /\ \/ /\ Move(u, {"READY"}, "STOPPED")
          /\ ~stopping[u]
          /\ UNCHANGED stopping
       \/ /\ status[u] # "STOPPED"
          /\ stopping' = [stopping EXCEPT ![u] = TRUE]
          /\ UNCHANGED status
    /\ UNCHANGED <<added, restart>>

Enter(u) ==
    /\ added[u] = "yes"
    /\ Move(u, {"READY"}, "ENTERING")
    /\ UNCHANGED <<added, restart, stopping>>

Run(u) ==
    /\ Move(u, {"ENTERING"}, "RUNNING")
    /\ UNCHANGED <<added, restart, stopping>>

(* The unit ends, fails or is interrupted. One that fails at once is seen  *)
(* to go from READY to EXITING.                                            *)
Leave(u) ==
    /\ Move(u, {"READY", "ENTERING", "RUNNING"}, "EXITING")
    /\ UNCHANGED <<added, restart, stopping>>

Finish(u) ==
    /\ Move(u, {"EXITING"}, IF stopping[u] \/ ~restart[u] THEN "STOPPED" ELSE "READY")
    /\ stopping' = [stopping EXCEPT ![u] = FALSE]
    /\ UNCHANGED <<added, restart>>

Next ==
    \E u \in Units :
        \/ Add(u) \/ Remove(u) \/ AskStart(u) \/ AskStop(u)
        \/ Enter(u) \/ Run(u) \/ Leave(u) \/ Finish(u)

Spec == Init /\ [][Next]_lifeVars
=============================================================================
