----------------------------- MODULE Supervisor -----------------------------
(***************************************************************************)
(* The Supervisor of src/app/backend/supervisor/supervisor.py: an asyncio  *)
(* context manager that runs units through READY -> ENTERING -> RUNNING -> *)
(* EXITING -> (READY | STOPPED), restarts them and stops them on request.  *)
(*                                                                         *)
(* asyncio is cooperative: code between two awaits is one atomic step.     *)
(* The actors are                                                          *)
(*   - the clients, which call the *_nowait operations at any await point; *)
(*   - one task _run_unit(u) per started unit;                             *)
(*   - the task that calls supervise_until (or leaves the context), whose  *)
(*     program counter is `loop'; its code between two awaits contains     *)
(*     loops (over units, queued commands and done tasks), which are       *)
(*     modelled one iteration per step while every other actor is blocked  *)
(*     (Yielded is FALSE), so that the section stays atomic;               *)
(*   - the monitor task, which waits in _command_queue.get().              *)
(* A unit is added at most once: the callers make a new object instead of  *)
(* adding a removed one again.                                             *)
(***************************************************************************)
EXTENDS Naturals, Sequences, FiniteSets

CONSTANTS
    Units,      \* the units a supervisor may be given
    Failures,   \* the exceptions a unit's own code may raise
    ClientsIn,  \* contexts in which clients call the supervisor
    CancelIn    \* contexts in which the task running supervise_until is cancelled

ASSUME ConstantsAssumption ==
    /\ Failures \subseteq {"error", "interrupt"}
    /\ ClientsIn \subseteq {"out", "in", "exiting"}
    /\ CancelIn \subseteq {"in", "exiting"}

VARIABLES
    added,         \* "no", "yes" (in _units) or "removed"
    restart,       \* State.restart
    status,        \* State.status
    at,            \* where the unit's live _run_unit task is suspended
    cancel,        \* whether task.cancel() is waiting to be delivered to it
    result,        \* State.result
    pendingStart,  \* State.pending_start
    pendingStop,   \* State.pending_stop
    force,         \* State.force_pending_stop
    doneEntering,  \* State.done_entering.is_set()
    doneExiting,   \* State.done_exiting.is_set()
    task,          \* State.task is not None
    finished,      \* how the unit's done tasks in _running_unit_tasks ended
    queue,         \* _command_queue
    monitor,       \* commands the monitor task has taken out of the queue
    loop,          \* where the supervising task is
    found,         \* a done event or a done unit has been collected
    raised,        \* how the last call of _supervise_until ended
    ctx            \* where the supervisor's own context is

unitVars == <<added, restart, status, at, cancel, result, pendingStart,
              pendingStop, force, doneEntering, doneExiting, task, finished>>
loopVars == <<monitor, loop, found, raised, ctx>>
vars == <<unitVars, queue, loopVars>>

Status   == {"READY", "ENTERING", "RUNNING", "EXITING", "STOPPED"}
Places   == {"none", "created", "forcedStop", "entering",
             "stopBeforeRun", "running", "exiting"}
Results  == {"none", "error", "interrupt", "cancelled"}
Commands == [cmd : {"START", "STOP"}, unit : Units]

TypeOK ==
    /\ added \in [Units -> {"no", "yes", "removed"}]
    /\ restart \in [Units -> BOOLEAN]
    /\ status \in [Units -> Status]
    /\ at \in [Units -> Places]
    /\ cancel \in [Units -> BOOLEAN]
    /\ result \in [Units -> Results]
    /\ pendingStart \in [Units -> BOOLEAN]
    /\ pendingStop \in [Units -> BOOLEAN]
    /\ force \in [Units -> BOOLEAN]
    /\ doneEntering \in [Units -> BOOLEAN]
    /\ doneExiting \in [Units -> BOOLEAN]
    /\ task \in [Units -> BOOLEAN]
    /\ finished \in [Units -> SUBSET {"done", "failed"}]
    /\ queue \in Seq(Commands)
    /\ monitor \in {<<>>} \cup {<<c>> : c \in Commands}
    /\ loop \in {"idle", "stopAll", "restart", "wait", "drain", "reap", "closing"}
    /\ found \in BOOLEAN
    /\ raised \in {"none", "error", "cancelled"}
    /\ ctx \in {"out", "in", "exiting"}

Init ==
    /\ added = [u \in Units |-> "no"]
    /\ restart = [u \in Units |-> FALSE]
    /\ status = [u \in Units |-> "STOPPED"]
    /\ at = [u \in Units |-> "none"]
    /\ cancel = [u \in Units |-> FALSE]
    /\ result = [u \in Units |-> "none"]
    /\ pendingStart = [u \in Units |-> FALSE]
    /\ pendingStop = [u \in Units |-> FALSE]
    /\ force = [u \in Units |-> FALSE]
    /\ doneEntering = [u \in Units |-> FALSE]
    /\ doneExiting = [u \in Units |-> FALSE]
    /\ task = [u \in Units |-> FALSE]
    /\ finished = [u \in Units |-> {}]
    /\ queue = <<>>
    /\ monitor = <<>>
    /\ loop = "idle"
    /\ found = FALSE
    /\ raised = "none"
    /\ ctx = "out"

-----------------------------------------------------------------------------
(* The supervising task is at an await (or not running), so that the other *)
(* actors may run.                                                         *)
Yielded == loop \in {"idle", "wait", "closing"}

(* _lock is held exactly while the loop waits in asyncio.wait. *)
Locked == loop = "wait"

Live(u) == at[u] # "none"

(* The unit has a task in _running_unit_tasks. *)
Registered(u) == Live(u) \/ finished[u] # {}

Put(command, u) == queue' = Append(queue, [cmd |-> command, unit |-> u])

(* Mutant: a unit that is exiting is started. *)
StartWhileExiting(u) ==
    IF ~pendingStop[u] /\ status[u] \in {"READY", "EXITING", "STOPPED"}
    THEN /\ status' = [status EXCEPT ![u] = "READY"]
         /\ pendingStart' = [pendingStart EXCEPT ![u] = TRUE]
         /\ IF pendingStart[u] THEN UNCHANGED queue ELSE Put("START", u)
    ELSE UNCHANGED <<status, pendingStart, queue>>

(* start_unit_nowait on an added unit: the state it leaves. *)
StartNowait(u) ==
    IF ~pendingStop[u] /\ status[u] \in {"READY", "STOPPED"}
    THEN /\ status' = [status EXCEPT ![u] = "READY"]
         /\ pendingStart' = [pendingStart EXCEPT ![u] = TRUE]
         /\ IF pendingStart[u] THEN UNCHANGED queue ELSE Put("START", u)
    ELSE UNCHANGED <<status, pendingStart, queue>>

(* The unit neither runs nor is marked as starting. Mutant: a unit that is *)
(* READY to be restarted does not count.                                   *)
AtRestStopped(u) == status[u] = "STOPPED" /\ ~pendingStart[u]

AtRest(u) == status[u] \in {"READY", "STOPPED"} /\ ~pendingStart[u]

(* Mutants: a STOP is queued although one is pending, and a stop that is   *)
(* marked as pending is not queued.                                        *)
StopTwice(u, f) ==
    /\ status' = IF AtRest(u) THEN [status EXCEPT ![u] = "STOPPED"] ELSE status
    /\ pendingStop' = [pendingStop EXCEPT ![u] = @ \/ ~AtRest(u)]
    /\ force' = [force EXCEPT ![u] = @ \/ (f /\ ~AtRest(u))]
    /\ IF AtRest(u) \/ status[u] = "EXITING" THEN UNCHANGED queue ELSE Put("STOP", u)

StopUnqueued(u, f) ==
    /\ status' = IF AtRest(u) THEN [status EXCEPT ![u] = "STOPPED"] ELSE status
    /\ pendingStop' = [pendingStop EXCEPT ![u] = @ \/ ~AtRest(u)]
    /\ force' = [force EXCEPT ![u] = @ \/ (f /\ ~AtRest(u))]
    /\ UNCHANGED queue

(* stop_unit_nowait on an added unit: the state it leaves. A stop that is  *)
(* already pending is not upgraded to a forced one.                        *)
StopNowait(u, f) ==
    /\ status' = IF AtRest(u) THEN [status EXCEPT ![u] = "STOPPED"] ELSE status
    /\ pendingStop' = IF AtRest(u) THEN pendingStop
                                   ELSE [pendingStop EXCEPT ![u] = TRUE]
    /\ IF AtRest(u) \/ status[u] = "EXITING" \/ pendingStop[u]
       THEN UNCHANGED <<force, queue>>
       ELSE /\ Put("STOP", u)
            /\ force' = [force EXCEPT ![u] = force[u] \/ f]

-----------------------------------------------------------------------------
(* The clients' operations. *)
Calls == Yielded /\ ctx \in ClientsIn

AddUnit(u, r, stopped) ==
    /\ Calls
    /\ added[u] = "no"
    /\ added' = [added EXCEPT ![u] = "yes"]
    /\ restart' = [restart EXCEPT ![u] = r]
    /\ IF stopped THEN UNCHANGED <<status, pendingStart, queue>>
                  ELSE StartNowait(u)
    /\ UNCHANGED <<at, cancel, result, pendingStop, force, doneEntering,
                   doneExiting, task, finished, loopVars>>

(* Mutant: a unit whose START is queued is removed. *)
RemoveStarting(u) ==
    /\ Calls
    /\ added[u] = "yes" /\ ~task[u]
    /\ added' = [added EXCEPT ![u] = "removed"]
    /\ UNCHANGED <<restart, status, at, cancel, result, pendingStart,
                   pendingStop, force, doneEntering, doneExiting, task,
                   finished, queue, loopVars>>

RemoveUnit(u) ==
    /\ Calls
    /\ added[u] = "yes" /\ ~task[u] /\ ~pendingStart[u]
    /\ added' = [added EXCEPT ![u] = "removed"]
    /\ UNCHANGED <<restart, status, at, cancel, result, pendingStart,
                   pendingStop, force, doneEntering, doneExiting, task,
                   finished, queue, loopVars>>

StartUnit(u) ==
    /\ Calls
    /\ added[u] = "yes"
    /\ StartNowait(u)
    /\ UNCHANGED <<added, restart, at, cancel, result, pendingStop, force,
                   doneEntering, doneExiting, task, finished, loopVars>>

StopUnit(u, f) ==
    /\ Calls
    /\ added[u] = "yes"
    /\ StopNowait(u, f)
    /\ UNCHANGED <<added, restart, at, cancel, result, pendingStart,
                   doneEntering, doneExiting, task, finished, loopVars>>

-----------------------------------------------------------------------------
(* The supervisor's own context. *)

EnterContext ==
    /\ loop = "idle" /\ ctx = "out"
    /\ ctx' = "in"
    /\ raised' = "none"
    /\ UNCHANGED <<unitVars, queue, monitor, loop, found>>

ExitContext ==
    /\ loop = "idle" /\ ctx = "in"
    /\ ctx' = "exiting"
    /\ loop' = "stopAll"
    /\ UNCHANGED <<unitVars, queue, monitor, found, raised>>

(* One iteration of the loop in _stop that force-stops every unit. Only    *)
(* those it changes are iterated over; the order of the dict is left open. *)
(* Mutant: only running units are stopped. *)
LeftRunning(u) == added[u] = "yes" /\ status[u] = "RUNNING" /\ ~pendingStop[u]

LeftToStop(u) ==
    added[u] = "yes" /\ status[u] # "STOPPED" /\ ~pendingStop[u]

StopOne(u) ==
    /\ loop = "stopAll"
    /\ LeftToStop(u)
    /\ StopNowait(u, TRUE)
    /\ UNCHANGED <<added, restart, at, cancel, result, pendingStart,
                   doneEntering, doneExiting, task, finished, loopVars>>

(* Mutant: a running unit alone is not waited for. *)
AllQueuedStopped ==
    /\ loop = "stopAll"
    /\ \A u \in Units : ~LeftToStop(u)
    /\ loop' = IF queue # <<>> THEN "restart" ELSE "idle"
    /\ ctx' = IF queue # <<>> THEN ctx ELSE "out"
    /\ found' = FALSE
    /\ raised' = "none"
    /\ UNCHANGED <<unitVars, queue, monitor>>

(* _stop supervises once more, until ALL_UNITS are done, if anything is    *)
(* running or queued; otherwise the context is left at once.               *)
AllStopped ==
    /\ loop = "stopAll"
    /\ \A u \in Units : ~LeftToStop(u)
    /\ IF queue # <<>> \/ \E u \in Units : Registered(u)
       THEN /\ loop' = "restart"
            /\ found' = FALSE
            /\ UNCHANGED ctx
       ELSE /\ loop' = "idle"
            /\ ctx' = "out"
            /\ UNCHANGED found
    /\ raised' = "none"
    /\ UNCHANGED <<unitVars, queue, monitor>>

-----------------------------------------------------------------------------
(* supervise_until(FIRST_EVENT_OR_UNIT), the mode every caller uses within *)
(* the context, and the ALL_UNITS mode of _stop.                           *)

SuperviseUntil ==
    /\ loop = "idle" /\ ctx = "in"
    /\ loop' = "restart"
    /\ found' = FALSE
    /\ raised' = "none"
    /\ UNCHANGED <<unitVars, queue, monitor, ctx>>

LeftToRestart(u) ==
    /\ added[u] = "yes" /\ restart[u] /\ status[u] = "READY"
    /\ ~pendingStart[u] /\ ~pendingStop[u]

RestartOne(u) ==
    /\ loop = "restart"
    /\ LeftToRestart(u)
    /\ StartNowait(u)
    /\ UNCHANGED <<added, restart, at, cancel, result, pendingStop, force,
                   doneEntering, doneExiting, task, finished, loopVars>>

(* Take the lock and suspend in asyncio.wait. *)
BeginWait ==
    /\ loop = "restart"
    /\ \A u \in Units : ~LeftToRestart(u)
    /\ loop' = "wait"
    /\ UNCHANGED <<unitVars, queue, monitor, found, raised, ctx>>

(* The monitor task: _command_queue.get() takes the oldest command.        *)
MonitorTake ==
    /\ loop = "wait" /\ monitor = <<>> /\ queue # <<>>
    /\ monitor' = <<Head(queue)>>
    /\ queue' = Tail(queue)
    /\ UNCHANGED <<unitVars, loop, found, raised, ctx>>

(* asyncio.wait returns: a command was taken, a unit's task is done or an  *)
(* event the caller passed is set. Commands are handled first.             *)
Wake(event) ==
    /\ loop = "wait"
    /\ monitor # <<>> \/ event \/ \E u \in Units : finished[u] # {}
    /\ event => ctx = "in"
    /\ loop' = IF monitor # <<>> THEN "drain" ELSE "reap"
    /\ found' = (found \/ event)
    /\ UNCHANGED <<unitVars, queue, monitor, raised, ctx>>

(* Mutant: the rest of the queue is thrown away. *)
CrashEmptying ==
    /\ loop' = "closing"
    /\ raised' = "error"
    /\ monitor' = <<>>
    /\ queue' = <<>>
    /\ UNCHANGED <<found, ctx>>

(* An exception leaves the TaskGroup: the rest of the queue stays. *)
Crash ==
    /\ loop' = "closing"
    /\ raised' = "error"
    /\ monitor' = <<>>
    /\ UNCHANGED <<queue, found, ctx>>

(* The next command, if any, is got without waiting. *)
NextCommand ==
    /\ IF queue = <<>>
       THEN /\ loop' = "reap"
            /\ monitor' = <<>>
            /\ UNCHANGED queue
       ELSE /\ monitor' = <<Head(queue)>>
            /\ queue' = Tail(queue)
            /\ UNCHANGED loop
    /\ UNCHANGED <<found, raised, ctx>>

Handling(command, u) ==
    /\ loop = "drain"
    /\ monitor = <<[cmd |-> command, unit |-> u]>>

HandleStart(u) ==
    /\ Handling("START", u)
    /\ added[u] = "yes" /\ ~task[u]
    /\ at' = [at EXCEPT ![u] = "created"]
    /\ cancel' = [cancel EXCEPT ![u] = FALSE]
    /\ task' = [task EXCEPT ![u] = TRUE]
    /\ NextCommand
    /\ UNCHANGED <<added, restart, status, result, pendingStart, pendingStop,
                   force, doneEntering, doneExiting, finished>>

(* Mutant: a unit that is created but has not begun is cancelled. *)
DeferredEntering(u) == status[u] = "ENTERING" /\ ~force[u]

(* A STOP is left to the unit's own task while the unit starts, unless it  *)
(* is forced.                                                              *)
Deferred(u) == IF status[u] = "ENTERING" THEN ~force[u] ELSE pendingStart[u]

DeferStop(u) ==
    /\ Handling("STOP", u)
    /\ added[u] = "yes" /\ Deferred(u)
    /\ NextCommand
    /\ UNCHANGED unitVars

HandleStop(u) ==
    /\ Handling("STOP", u)
    /\ added[u] = "yes" /\ ~Deferred(u) /\ task[u]
    /\ cancel' = [cancel EXCEPT ![u] = TRUE]
    /\ NextCommand
    /\ UNCHANGED <<added, restart, status, at, result, pendingStart,
                   pendingStop, force, doneEntering, doneExiting, task, finished>>

(* The command is for a unit that was removed, a START for one that is     *)
(* running or a STOP for one that is not: the handler raises.              *)
Refused(command, u) ==
    \/ added[u] # "yes"
    \/ IF command = "START" THEN task[u] ELSE ~Deferred(u) /\ ~task[u]

Refuse(u) ==
    /\ \E command \in {"START", "STOP"} : Handling(command, u) /\ Refused(command, u)
    /\ Crash
    /\ UNCHANGED unitVars

(* A done task is collected. One that ended with an AssertionError raises  *)
(* it again.                                                               *)
Reap(u) ==
    /\ loop = "reap"
    /\ "done" \in finished[u]
    /\ finished' = [finished EXCEPT ![u] = finished[u] \ {"done"}]
    /\ task' = IF added[u] = "yes" THEN [task EXCEPT ![u] = FALSE] ELSE task
    /\ found' = TRUE
    /\ UNCHANGED <<added, restart, status, at, cancel, result, pendingStart,
                   pendingStop, force, doneEntering, doneExiting, queue,
                   monitor, loop, raised, ctx>>

ReapFailed(u) ==
    /\ loop = "reap"
    /\ "failed" \in finished[u]
    /\ Crash
    /\ UNCHANGED unitVars

(* The return condition; on return the monitor task is cancelled before it *)
(* takes anything.                                                         *)
Satisfied ==
    IF ctx = "exiting" THEN \A u \in Units : ~Live(u) ELSE found

EndIteration ==
    /\ loop = "reap"
    /\ \A u \in Units : finished[u] = {}
    /\ loop' = IF Satisfied THEN "closing" ELSE "restart"
    /\ UNCHANGED <<unitVars, queue, monitor, found, raised, ctx>>

(* The supervising task is cancelled: a command the monitor task already   *)
(* took is lost.                                                           *)
CancelSupervise ==
    /\ ctx \in CancelIn
    /\ loop \in {"wait", "closing"} /\ raised = "none"
    /\ loop' = "closing"
    /\ raised' = "cancelled"
    /\ monitor' = <<>>
    /\ UNCHANGED <<unitVars, queue, found, ctx>>

(* The TaskGroup has seen its tasks end. Leaving the context ends with the *)
(* call, whether it returned or raised.                                    *)
Closed ==
    /\ loop = "closing"
    /\ loop' = "idle"
    /\ ctx' = IF ctx = "exiting" THEN "out" ELSE ctx
    /\ UNCHANGED <<unitVars, queue, monitor, found, raised>>

-----------------------------------------------------------------------------
(* _run_unit(u): one action per stretch between two awaits. *)

(* Mutant: pending_start survives a failed start. *)
ToExitStarting(u, outcome) ==
    /\ at' = [at EXCEPT ![u] = "exiting"]
    /\ cancel' = [cancel EXCEPT ![u] = FALSE]
    /\ result' = [result EXCEPT ![u] = outcome]
    /\ doneEntering' = [doneEntering EXCEPT ![u] = TRUE]
    /\ status' = [status EXCEPT ![u] = "EXITING"]
    /\ UNCHANGED pendingStart

(* The common start of the finally block, up to the await of __aexit__. *)
ToExit(u, outcome) ==
    /\ at' = [at EXCEPT ![u] = "exiting"]
    /\ cancel' = [cancel EXCEPT ![u] = FALSE]
    /\ result' = [result EXCEPT ![u] = outcome]
    /\ doneEntering' = [doneEntering EXCEPT ![u] = TRUE]
    /\ pendingStart' = [pendingStart EXCEPT ![u] = FALSE]
    /\ status' = [status EXCEPT ![u] = "EXITING"]

(* The task's first step. A forced stop that is pending makes the task     *)
(* cancel itself; _stop_unit's assertion fails when State.task is None.    *)
Begin(u) ==
    /\ Yielded
    /\ at[u] = "created"
    /\ doneExiting' = [doneExiting EXCEPT ![u] = FALSE]
    /\ IF pendingStop[u] /\ force[u] /\ ~task[u]
       THEN ToExit(u, "error")
       ELSE /\ at' = [at EXCEPT ![u] = IF pendingStop[u] /\ force[u]
                                       THEN "forcedStop" ELSE "entering"]
            /\ cancel' = [cancel EXCEPT ![u] = pendingStop[u] /\ force[u]]
            /\ result' = [result EXCEPT ![u] = "none"]
            /\ doneEntering' = [doneEntering EXCEPT ![u] = FALSE]
            /\ status' = [status EXCEPT ![u] = "ENTERING"]
            /\ UNCHANGED pendingStart
    /\ UNCHANGED <<added, restart, pendingStop, force, task, finished, queue,
                   loopVars>>

(* Mutant: a stop that came while __aenter__ ran is not looked for. *)
EnteredUnstopped(u) ==
    /\ Yielded
    /\ at[u] = "entering" /\ ~cancel[u]
    /\ at' = [at EXCEPT ![u] = "running"]
    /\ doneEntering' = [doneEntering EXCEPT ![u] = TRUE]
    /\ pendingStart' = [pendingStart EXCEPT ![u] = FALSE]
    /\ status' = [status EXCEPT ![u] = "RUNNING"]
    /\ UNCHANGED <<added, restart, cancel, result, pendingStop, force, doneExiting,
                   task, finished, queue, loopVars>>

(* __aenter__ succeeds; a stop that is pending is carried out before run.  *)
Entered(u) ==
    /\ Yielded
    /\ at[u] = "entering" /\ ~cancel[u]
    /\ IF pendingStop[u] /\ ~task[u]
       THEN ToExit(u, "error")
       ELSE /\ at' = [at EXCEPT ![u] = IF pendingStop[u] THEN "stopBeforeRun"
                                                         ELSE "running"]
            /\ cancel' = [cancel EXCEPT ![u] = pendingStop[u]]
            /\ doneEntering' = [doneEntering EXCEPT ![u] = TRUE]
            /\ pendingStart' = [pendingStart EXCEPT ![u] = FALSE]
            /\ status' = [status EXCEPT ![u] = "RUNNING"]
            /\ UNCHANGED result
    /\ UNCHANGED <<added, restart, pendingStop, force, doneExiting, task,
                   finished, queue, loopVars>>

(* __aenter__ or run() ends in an exception of its own, or in the          *)
(* CancelledError delivered to it. All of them are caught and stored.      *)
Failed(u, outcome) ==
    /\ Yielded
    /\ at[u] \in {"forcedStop", "entering", "stopBeforeRun", "running"}
    /\ outcome \in IF cancel[u] THEN {"cancelled"} ELSE Failures
    /\ ToExit(u, outcome)
    /\ UNCHANGED <<added, restart, pendingStop, force, doneExiting, task,
                   finished, queue, loopVars>>

(* run() returns. *)
RunReturns(u) ==
    /\ Yielded
    /\ at[u] = "running" /\ ~cancel[u]
    /\ ToExit(u, "none")
    /\ UNCHANGED <<added, restart, pendingStop, force, doneExiting, task,
                   finished, queue, loopVars>>

(* Where a unit that has exited goes. *)
FinalStatus(u) == IF pendingStop[u] \/ ~restart[u] THEN "STOPPED" ELSE "READY"

(* __aexit__ ends and the state is cleaned up. While the lock is free the  *)
(* task takes itself out of _running_unit_tasks; the assertion there fails *)
(* when State.task is None.                                                *)
Exited(u, outcome) ==
    /\ Yielded
    /\ at[u] = "exiting"
    /\ outcome \in IF cancel[u] THEN {"cancelled"} ELSE {result[u]} \cup Failures
    /\ at' = [at EXCEPT ![u] = "none"]
    /\ cancel' = [cancel EXCEPT ![u] = FALSE]
    /\ result' = [result EXCEPT ![u] = outcome]
    /\ doneExiting' = [doneExiting EXCEPT ![u] = TRUE]
    /\ status' = [status EXCEPT ![u] = FinalStatus(u)]
    /\ pendingStop' = [pendingStop EXCEPT ![u] = FALSE]
    /\ force' = [force EXCEPT ![u] = FALSE]
    /\ finished' = [finished EXCEPT ![u] = @ \cup
                       IF Locked THEN {"done"}
                       ELSE IF task[u] THEN {} ELSE {"failed"}]
    /\ doneEntering' = [doneEntering EXCEPT ![u] = ~Locked /\ ~task[u]]
    /\ task' = [task EXCEPT ![u] = FALSE]
    /\ UNCHANGED <<added, restart, pendingStart, queue, loopVars>>

-----------------------------------------------------------------------------
Client(u) ==
    \/ \E r, stopped \in BOOLEAN : AddUnit(u, r, stopped)
    \/ RemoveUnit(u)
    \/ StartUnit(u)
    \/ \E f \in BOOLEAN : StopUnit(u, f)

RunUnit(u) ==
    \/ Begin(u)
    \/ Entered(u)
    \/ RunReturns(u)
    \/ \E outcome \in Results : Failed(u, outcome) \/ Exited(u, outcome)

Handle(u) == HandleStart(u) \/ DeferStop(u) \/ HandleStop(u) \/ Refuse(u)

Supervise ==
    \/ EnterContext \/ ExitContext \/ AllStopped \/ SuperviseUntil
    \/ BeginWait \/ MonitorTake \/ EndIteration \/ CancelSupervise \/ Closed
    \/ \E event \in BOOLEAN : Wake(event)
    \/ \E u \in Units : StopOne(u) \/ RestartOne(u) \/ Handle(u)
                          \/ Reap(u) \/ ReapFailed(u)

Next == Supervise \/ \E u \in Units : Client(u) \/ RunUnit(u)

Spec == Init /\ [][Next]_vars

(* Every ready task gets its turn, in the order it became ready. A unit's   *)
(* __aenter__ and __aexit__ end; its run() need not, unless it is cancelled.*)
LeaveEnter(u) ==
    Entered(u) \/ (at[u] = "entering" /\ \E outcome \in Results : Failed(u, outcome))

UnitFairness(u) ==
    /\ SF_vars(Begin(u))
    /\ SF_vars(LeaveEnter(u))
    /\ SF_vars(Failed(u, "cancelled"))
    /\ SF_vars(\E outcome \in Results : Exited(u, outcome))

LoopStep ==
    \/ AllStopped \/ SuperviseUntil \/ BeginWait \/ EndIteration \/ Closed
    \/ Wake(FALSE)
    \/ \E u \in Units : StopOne(u) \/ RestartOne(u) \/ Handle(u)
                          \/ Reap(u) \/ ReapFailed(u)

Fairness ==
    /\ WF_vars(LoopStep)
    /\ SF_vars(MonitorTake)
    /\ \A u \in Units : UnitFairness(u)

FairSpec == Spec /\ Fairness

-----------------------------------------------------------------------------
(* Safety. *)

StartOf(u) == [cmd |-> "START", unit |-> u]
StopOf(u)  == [cmd |-> "STOP", unit |-> u]

(* The command is in the queue, or the monitor task has it. *)
Held(c) == monitor = <<c>> \/ \E i \in DOMAIN queue : queue[i] = c

(* A START of a unit that is held finds the unit added, at rest and marked *)
(* as starting: "is already running" (292) is never raised.                *)
StartIsFresh ==
    \A u \in Units : Held(StartOf(u)) =>
        /\ added[u] = "yes" /\ pendingStart[u]
        /\ ~task[u] /\ ~Live(u)

(* No second task of a unit is created while one is alive, so that a unit  *)
(* is never entered twice without being exited in between.                 *)
NoSecondTask ==
    [][\A u \in Units : at'[u] = "created" => at[u] \in {"none", "created"}]_vars

(* A task is never cancelled before its first step: its finally block, the *)
(* only code that cleans the unit's state up, would not run.               *)
NoEarlyCancel == \A u \in Units : at[u] = "created" => ~cancel[u]

(* A unit that neither runs nor waits for a START has no stop pending that *)
(* would refuse every later start.                                         *)
NoStuckStop ==
    \A u \in Units : pendingStop[u] \/ force[u] => pendingStart[u] \/ Live(u)

(* When the context was left without an exception, no unit is alive. *)
CleanExit ==
    ctx = "out" /\ raised = "none" => \A u \in Units : ~Registered(u)

(* The status, the pending start and the pending cancellation of a unit    *)
(* are those of the place its task has reached. A client that reads them   *)
(* at any await therefore learns where the unit is.                        *)
PlaceAgrees(u) ==
    /\ added[u] = "no" => status[u] = "STOPPED" /\ ~Live(u)
    /\ at[u] = "none" => status[u] \in {"READY", "STOPPED"}
    /\ at[u] = "created" => /\ added[u] = "yes" /\ status[u] = "READY"
                            /\ pendingStart[u] /\ ~cancel[u]
    /\ at[u] \in {"forcedStop", "entering"} => status[u] = "ENTERING" /\ pendingStart[u]
    /\ at[u] \in {"stopBeforeRun", "running"} => status[u] = "RUNNING" /\ ~pendingStart[u]
    /\ at[u] = "exiting" => status[u] = "EXITING" /\ ~pendingStart[u]
    /\ status[u] = "STOPPED" => ~pendingStart[u]
    /\ task[u] => Live(u)

(* At most one START of a unit is held, by the monitor or the queue.       *)
OneStart(u) ==
    /\ monitor = <<StartOf(u)>> => \A i \in DOMAIN queue : queue[i] # StartOf(u)
    /\ \A i, j \in DOMAIN queue :
          queue[i] = StartOf(u) /\ queue[j] = StartOf(u) => i = j

(* The inductive invariant behind the safety theorems. *)
IInv ==
    /\ TypeOK
    /\ \A u \in Units : PlaceAgrees(u) /\ OneStart(u)
    /\ StartIsFresh
    /\ NoStuckStop

(* The unbounded queue holds at most one START and two STOPs of a unit. *)
QueueBounded ==
    Len(queue) + Len(monitor) <= 3 * Cardinality(Units)

(* A unit is marked as starting only while its START is held or its task   *)
(* has not entered it (State.pending_start's comment, 74-76).              *)
StartPromise ==
    \A u \in Units : pendingStart[u] =>
        Held(StartOf(u)) \/ at[u] \in {"created", "forcedStop", "entering"}

(* The State of a live unit no longer names its task: no command reaches   *)
(* the unit any more (RemoveOnlyAtRest and CleanupAsserted are about it).  *)
Orphan(u) == Live(u) /\ ~task[u]

(* A stop that was accepted is never lost: its command is held, a START of *)
(* the unit is held whose task will find it, the task is being cancelled   *)
(* or exits anyway, or it has still to look for a pending stop (167, 193). *)
(* A forced stop is not left to a unit that enters. None of the deferral   *)
(* (299-320), failures, ends of run() and crashes of the loop in between   *)
(* loses it.                                                               *)
StopPromise ==
    \A u \in Units : pendingStop[u] /\ ~Orphan(u) =>
        \/ Held(StopOf(u)) \/ Held(StartOf(u))
        \/ cancel[u] \/ at[u] \in {"created", "exiting"}
        \/ at[u] = "entering" /\ ~force[u]

(* The detailed supervisor implements the lifecycle of the class docstring *)
(* (40-54), with pending_stop as the stop that was asked for.              *)
Lifecycle == INSTANCE UnitLifecycle WITH stopping <- pendingStop

LifecycleSpec == Lifecycle!Spec

-----------------------------------------------------------------------------
(* Liveness. *)

(* A stop that was accepted ends, unless the unit is orphaned or the       *)
(* context is not entered again.                                           *)
StopTerminates ==
    \A u \in Units : pendingStop[u] ~> ~pendingStop[u] \/ Orphan(u) \/ ctx = "out"

(* A start that was accepted reaches the end of __aenter__, although       *)
(* supervising may raise, unless the context is not entered again.         *)
StartTerminates ==
    \A u \in Units : pendingStart[u] ~> ~pendingStart[u] \/ ctx = "out"

(* Leaving the context ends (59-62: units are stopped and exit fully),     *)
(* unless a unit is orphaned.                                              *)
ExitTerminates ==
    ctx = "exiting" ~> ctx = "out" \/ \E u \in Units : Orphan(u)

-----------------------------------------------------------------------------
(* What comments and docstrings say of the program and it does not do. *)

(* State.pending_stop (78-80): set while a STOP command is in the queue. *)
PendingWhileQueued == \A u \in Units : Held(StopOf(u)) => pendingStop[u]

(* The class (60-62): a unit that is exiting is allowed to exit fully. *)
ExitNotInterrupted == \A u \in Units : at[u] = "exiting" => ~cancel[u]

(* The class (59-60): upon exiting, all running units are stopped. *)
ExitStopsUnits ==
    ctx = "out" => \A u \in Units : at[u] \notin {"entering", "running"}

(* remove_unit_nowait (488-491): a unit that is starting, running or       *)
(* stopping is not removed.                                                *)
RemoveOnlyAtRest == \A u \in Units : added[u] = "removed" => ~Live(u)

(* stop_unit_nowait (619-624) and the class (60-61): the forced stop of the *)
(* exit interrupts a unit that is entering.                                *)
ExitForces ==
    ctx = "exiting" /\ loop = "wait" =>
        \A u \in Units : at[u] = "entering" => force[u]

(* _run_unit (240): a task that cleans up is the one its State names. *)
CleanupAsserted == \A u \in Units : "failed" \notin finished[u]

(* The class (56-57): KeyboardInterrupt and SystemExit propagate. *)
InterruptPropagates == \A u \in Units : result[u] # "interrupt"

(* _supervise_until (359-360): completed units are reported. *)
CompletionReported ==
    [][\A u \in Units : ctx = "in" /\ loop = "closing" /\ at[u] = "exiting" /\ at'[u] = "none"
          => finished'[u] # {}]_vars
=============================================================================
