------------------------------ MODULE Waiting -------------------------------
(***************************************************************************)
(* Who waits for a unit of the Supervisor: the players who join a backend  *)
(* that does not run, handled by MCProxy._handle_client (core/proxy.py)    *)
(* and MCBackend.mcproc_done_starting (core/backend.py), and the task that *)
(* supervises, in supervise_until_done_starting and _stopping.             *)
(*                                                                         *)
(* A wait is for one of the two asyncio.Events of the unit's State. An     *)
(* event that is set while somebody waits for it wakes them, even if it is *)
(* cleared before they have their turn; what they then read is the State   *)
(* of that later moment.                                                   *)
(***************************************************************************)
EXTENDS Supervisor

CONSTANTS
    Clients,  \* the connections of players to the backend
    Backend,  \* the backend they join, a unit
    Callers   \* what the supervising task itself waits for

ASSUME WaitingAssumption ==
    /\ Backend \in Units
    /\ Callers \subseteq {"entering", "exiting"}

VARIABLES
    client,   \* "away", or what the handler of a connection waits for
    woken,    \* the event it waits for was set
    told,     \* what the last step told it, when that ended its wait
    ran,      \* history: the backend was running at some time of the wait
    caller,   \* what the supervising task waits for
    latched,  \* its task waiting for the event has been woken
    event,    \* the event is in done_events
    ended     \* how the unit ended that is in done_units

clientVars == <<client, woken, told, ran>>
callerVars == <<caller, latched, event, ended>>
waitVars == <<vars, clientVars, callerVars>>

WaitTypeOK ==
    /\ client \in [Clients -> {"away", "exiting", "entering"}]
    /\ woken \in [Clients -> BOOLEAN]
    /\ told \in [Clients -> {"nothing", "started", "failed", "late"}]
    /\ ran \in [Clients -> BOOLEAN]
    /\ caller \in {"none"} \cup Callers
    /\ latched \in BOOLEAN
    /\ event \in BOOLEAN
    /\ ended \in {"no", "returned", "raised"}

WaitInit ==
    /\ Init
    /\ client = [c \in Clients |-> "away"]
    /\ woken = [c \in Clients |-> FALSE]
    /\ told = [c \in Clients |-> "nothing"]
    /\ ran = [c \in Clients |-> FALSE]
    /\ caller = "none"
    /\ latched = FALSE
    /\ event = FALSE
    /\ ended = "no"

-----------------------------------------------------------------------------
(* The backend's two events, and whether a wait for them is called for.    *)
Set(e, entering, exiting) ==
    \/ e = "entering" /\ entering[Backend]
    \/ e = "exiting" /\ exiting[Backend]

ToStart(pending, place) == pending[Backend] \/ place[Backend] = "ENTERING"

ToStop == pendingStop[Backend] \/ status[Backend] = "EXITING"

-----------------------------------------------------------------------------
(* A joining player. *)

Tell(c, what) ==
    /\ client' = [client EXCEPT ![c] = "away"]
    /\ woken' = [woken EXCEPT ![c] = FALSE]
    /\ told' = [told EXCEPT ![c] = what]
    /\ ran' = [ran EXCEPT ![c] = FALSE]

Suspend(c, e) ==
    /\ client' = [client EXCEPT ![c] = e]
    /\ woken' = [woken EXCEPT ![c] = FALSE]
    /\ told' = [told EXCEPT ![c] = "nothing"]
    /\ UNCHANGED ran

(* What done_starting makes of the unit's result once it wakes. Mutant: a  *)
(* start that failed counts.                                               *)
OutcomeUnread == "started"

Outcome == IF result[Backend] = "none" THEN "started" ELSE "failed"

(* done_starting, from its call to its return or its first suspension,     *)
(* right after StartNowait.                                                *)
AwaitStart(c) ==
    IF status'[Backend] = "RUNNING" THEN Tell(c, "started")
    ELSE IF ToStart(pendingStart', status')
    THEN IF doneEntering[Backend] THEN Tell(c, Outcome) ELSE Suspend(c, "entering")
    ELSE Tell(c, "failed")

(* start_unit_nowait, which refuses a unit that was removed. *)
StartIfAdded ==
    IF added[Backend] = "yes" THEN StartNowait(Backend)
                              ELSE UNCHANGED <<status, pendingStart, queue>>

KeepRest == UNCHANGED <<added, restart, at, cancel, result, pendingStop, force,
                        doneEntering, doneExiting, task, finished, loopVars,
                        callerVars>>

(* A player joins while the backend does not run. The handler starts it,   *)
(* then waits for the end of a stop, if there is one, starts it again and  *)
(* waits for the end of the start; it suspends only where it has to wait.  *)
Join(c) ==
    /\ Calls
    /\ client[c] = "away"
    /\ added[Backend] = "yes" /\ status[Backend] # "RUNNING"
    /\ StartNowait(Backend)
    /\ IF ToStop /\ ~doneExiting[Backend] THEN Suspend(c, "exiting")
                                          ELSE AwaitStart(c)
    /\ KeepRest

(* Mutant: the start asked for before the wait is relied on. *)
StopSeenStarted(c) ==
    /\ Yielded
    /\ client[c] = "exiting" /\ woken[c]
    /\ UNCHANGED <<status, pendingStart, queue>>
    /\ AwaitStart(c)
    /\ KeepRest

(* done_stopping returns; its result is ignored. *)
StopSeen(c) ==
    /\ Yielded
    /\ client[c] = "exiting" /\ woken[c]
    /\ StartIfAdded
    /\ AwaitStart(c)
    /\ KeepRest

(* done_starting returns. *)
StartSeen(c) ==
    /\ Yielded
    /\ client[c] = "entering" /\ woken[c]
    /\ Tell(c, Outcome)
    /\ UNCHANGED <<vars, callerVars>>

(* wait_for gives up after HOLD_TIMEOUT, wherever the wait has got to. *)
GiveUp(c) ==
    /\ Yielded
    /\ client[c] # "away"
    /\ Tell(c, "late")
    /\ UNCHANGED <<vars, callerVars>>

Player(c) == Join(c) \/ StopSeen(c) \/ StartSeen(c) \/ GiveUp(c)

-----------------------------------------------------------------------------
(* The supervising task: supervise_until_done_starting and _stopping call  *)
(* supervise_until with the unit's event until it is set or the unit is    *)
(* done with an exception.                                                 *)

(* What a step of the others does to those who wait. asyncio runs what is  *)
(* ready in order: a player woken by the last run of the backend has its   *)
(* turn before the first step of the task that runs it again.              *)
Waiters ==
    /\ at[Backend] = "created" /\ at'[Backend] # "created" => \A c \in Clients : ~woken[c]
    /\ woken' = [c \in Clients |-> woken[c] \/ Set(client[c], doneEntering', doneExiting')]
    /\ ran' = [c \in Clients |-> ran[c] \/ (client[c] # "away" /\ status'[Backend] = "RUNNING")]
    /\ told' = [c \in Clients |-> "nothing"]
    /\ UNCHANGED client

Latch == latched' = (latched \/ (loop' = "wait" /\ Set(caller, doneEntering', doneExiting')))

Calling(until) ==
    /\ caller' = until
    /\ latched' = FALSE
    /\ event' = FALSE
    /\ ended' = "no"

(* Mutant: the call waits for the wrong event. *)
UntilDoneExiting ==
    /\ caller = "none" /\ "entering" \in Callers
    /\ added[Backend] = "yes" /\ status[Backend] # "RUNNING"
    /\ ToStart(pendingStart, status)
    /\ SuperviseUntil
    /\ Calling("exiting")

(* The calls wait only if there is something to wait for. *)
UntilDoneStarting ==
    /\ caller = "none" /\ "entering" \in Callers
    /\ added[Backend] = "yes" /\ status[Backend] # "RUNNING"
    /\ ToStart(pendingStart, status)
    /\ SuperviseUntil
    /\ Calling("entering")

UntilDoneStopping ==
    /\ caller = "none" /\ "exiting" \in Callers
    /\ added[Backend] = "yes" /\ status[Backend] # "STOPPED" /\ ToStop
    /\ SuperviseUntil
    /\ Calling("exiting")

(* Plain supervision, or the next turn of a call's loop. *)
Again == SuperviseUntil /\ Calling(caller)

(* asyncio.wait returns, with the event the call waits for if it is set:   *)
(* its task was woken before the unit could end. Only if something else    *)
(* had woken the loop already the event may be left for the next turn.     *)
Awake(e) ==
    /\ Wake(e)
    /\ caller # "none" /\ e => latched
    /\ caller # "none" /\ latched =>
          e \/ monitor # <<>> \/ \E u \in Units \ {Backend} : finished[u] # {}
    /\ event' = (event \/ (e /\ caller # "none"))
    /\ UNCHANGED <<caller, latched, ended>>

Collect(u) ==
    /\ Reap(u)
    /\ ended' = IF caller = "none" \/ u # Backend THEN ended
                ELSE IF result[u] = "none" THEN "returned" ELSE "raised"
    /\ UNCHANGED <<caller, latched, event>>

(* The call is over: supervise_until raised, the unit is done with an      *)
(* exception (the call returns False), or the event was set (True).        *)
Over == raised # "none" \/ ended = "raised" \/ event

Return ==
    /\ Closed
    /\ caller' = IF Over THEN "none" ELSE caller
    /\ UNCHANGED <<latched, event, ended>>

Others ==
    /\ \/ EnterContext \/ AllStopped \/ BeginWait \/ MonitorTake
       \/ EndIteration \/ CancelSupervise
       \/ ExitContext /\ caller = "none"
       \/ \E u \in Units : StopOne(u) \/ RestartOne(u) \/ Handle(u) \/ ReapFailed(u)
                             \/ Client(u) \/ RunUnit(u)
    /\ Latch
    /\ UNCHANGED <<caller, event, ended>>

Supervised ==
    /\ \/ UntilDoneStarting \/ UntilDoneStopping \/ Again \/ Return \/ Others
       \/ \E e \in BOOLEAN : Awake(e)
       \/ \E u \in Units : Collect(u)
    /\ Waiters

WaitNext == Supervised \/ \E c \in Clients : Player(c)

WaitSpec == WaitInit /\ [][WaitNext]_waitVars

(* A woken task has its turn. Nobody is assumed to join or to give up.     *)
WaitFairSpec ==
    /\ WaitSpec
    /\ Fairness
    /\ \A c \in Clients : SF_waitVars(StopSeen(c)) /\ SF_waitVars(StartSeen(c))
    /\ SF_waitVars(latched /\ Awake(TRUE) /\ Waiters)

-----------------------------------------------------------------------------
(* What a player is told agrees with the backend: "started" only if it was *)
(* running since the player joined, "failed" only if it does not run.      *)
AnswersAgree ==
    [][\A c \in Clients :
          /\ client[c] = "entering" /\ told'[c] = "started" => ran[c]
          /\ client'[c] = "away" /\ told'[c] = "failed" => status'[Backend] # "RUNNING"]_waitVars

(* A task of the backend failed the assertion of 240 (CleanupAsserted): its *)
(* done_entering stays set until the unit runs again.                      *)
Uncleaned == at[Backend] \in {"none", "created"} /\ doneEntering[Backend]

(* A player who waited for the end of a stop has the backend started: it   *)
(* is not turned away because of the stop it has waited for.               *)
WakesAgain ==
    [][\A c \in Clients :
          client[c] = "exiting" /\ told'[c] = "failed"
             => added[Backend] # "yes" \/ Uncleaned]_waitVars

(* Every wait of a player ends, even without its timeout, unless the unit  *)
(* is orphaned or the context is left. So does one of the supervising task.*)
WaitsEnd ==
    /\ \A c \in Clients :
          client[c] # "away" ~> client[c] = "away" \/ Orphan(Backend) \/ ctx = "out"
    /\ caller # "none" ~> caller = "none" \/ Orphan(Backend) \/ ctx = "out"

-----------------------------------------------------------------------------
(* What docstrings say of the program and it does not do. *)

(* done_stopping (692): it waits for the unit to finish stopping.          *)
StopFirst ==
    [][\A c \in Clients :
          client[c] = "away" /\ pendingStop[Backend] => client'[c] # "entering"]_waitVars

(* supervise_until_done_starting (545-548): True only if the unit finished *)
(* starting successfully.                                                  *)
StartedTrue ==
    [][caller = "entering" /\ caller' = "none" /\ raised = "none" /\ ended # "raised"
          => status[Backend] = "RUNNING"]_waitVars
=============================================================================
