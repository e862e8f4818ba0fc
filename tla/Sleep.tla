-------------------------------- MODULE Sleep --------------------------------
(***************************************************************************)
(* When a backend goes to sleep: MCBackend.supervise with the sleep timer, *)
(* the status checker and the connections of players through the proxy     *)
(* (src/app/backend/core/backend.py, core/status_checker.py,               *)
(* supervisor/timer.py, core/proxy.py).                                    *)
(*                                                                         *)
(* Four writers share the number of players: the answers to status         *)
(* requests overwrite it, connections increment and decrement it, and the  *)
(* supervising task reads it when it gets its turn.  Time is abstract: a   *)
(* running timer may expire at any moment, and check_nowait, which makes   *)
(* the next answer come sooner, is not in the model.                       *)
(***************************************************************************)
EXTENDS Integers, FiniteSets

CONSTANTS
    Players,   \* the players, one connection each
    MaxRetries \* MCStatusChecker.MAX_RETRIES

ASSUME SleepAssumption == IsFiniteSet(Players) /\ MaxRetries \in Nat

VARIABLES
    backend,   \* "down", "running", "told" to stop, or "exiting"
    loop,      \* supervise(): "none", in supervise_until, or returning from it
    saw,       \* what supervise_until returns
    ended,     \* the units whose end it has not returned yet
    count,     \* _online_players
    changed,   \* _online_player_change is set
    timer,     \* the sleep timer: "stopped", "starting", "running", "due"
    suspended, \* its timeout is None
    answer,    \* the number in the answer that is under way, or None
    tries,     \* retry_count of the checker, or Gone
    pl,        \* how far a player's connection is
    exact      \* history: whether the count can be relied on

taskVars == <<backend, loop, saw, ended>>
timerVars == <<timer, suspended>>
checkVars == <<answer, tries>>
vars == <<taskVars, count, changed, timerVars, checkVars, pl, exact>>

None == -1
Gone == MaxRetries + 1

TypeOK ==
    /\ backend \in {"down", "running", "told", "exiting"}
    /\ loop \in {"none", "waiting", "returning"}
    /\ saw \subseteq {"change", "timer", "checker"}
    /\ ended \subseteq {"timer", "checker"}
    /\ count \in Int
    /\ changed \in BOOLEAN
    /\ timer \in {"stopped", "starting", "running", "due"}
    /\ suspended \in BOOLEAN
    /\ answer \in {None} \cup 0 .. Cardinality(Players)
    /\ tries \in 0 .. Gone
    /\ pl \in [Players -> {"away", "joining", "online", "leaving", "closing"}]
    /\ exact \in {"no", "asked", "yes"}

Init ==
    /\ backend = "down" /\ loop = "none" /\ saw = {} /\ ended = {}
    /\ count = 0 /\ changed = TRUE
    /\ timer = "stopped" /\ suspended = FALSE
    /\ answer = None /\ tries = Gone
    /\ pl = [p \in Players |-> "away"]
    /\ exact = "no"

-----------------------------------------------------------------------------
(* The backend as a unit of the orchestrator. *)

(* A login or an operator wakes it; the units are started at its end.      *)
Start ==
    /\ backend = "down"
    /\ backend' = "running" /\ loop' = "waiting"
    /\ timer' = "starting" /\ tries' = 0
    /\ UNCHANGED <<saw, ended, count, changed, suspended, answer, pl, exact>>

(* It was told to, an operator stops it, or the server process ends.       *)
Exit ==
    /\ backend \in {"running", "told"}
    /\ backend' = "exiting" /\ loop' = "none" /\ saw' = {}
    /\ UNCHANGED <<ended, count, changed, timerVars, checkVars, pl, exact>>

(* Its units have been stopped and its process has ended. *)
Down ==
    /\ backend = "exiting"
    /\ backend' = "down" /\ ended' = {}
    /\ timer' = "stopped"
    /\ answer' = None /\ tries' = Gone
    /\ pl' = [p \in Players |-> CASE pl[p] \in {"joining", "online"} -> "leaving"
                                  [] pl[p] = "closing" -> "away"
                                  [] OTHER -> pl[p]]
    /\ exact' = "no"
    /\ UNCHANGED <<loop, saw, count, changed, suspended>>

-----------------------------------------------------------------------------
(* supervise(). *)

(* supervise_until returns: its units end unseen until it is called again. *)
Return ==
    /\ loop = "waiting" /\ (changed \/ ended # {})
    /\ loop' = "returning"
    /\ saw' = ended \cup (IF changed THEN {"change"} ELSE {})
    /\ ended' = {}
    /\ UNCHANGED <<backend, count, changed, timerVars, checkVars, pl, exact>>

(* The getter, which knows of no players unless the backend is running.    *)
OnlinePlayers == IF backend \in {"running", "told"} THEN count ELSE 0

(* Mutant: a suspended timer is not resumed. *)
IdleSuspended ==
    /\ OnlinePlayers = 0
    /\ backend' = IF timer = "stopped" THEN "told" ELSE backend
    /\ UNCHANGED timerVars

(* There was a change and nobody is online. *)
Idle ==
    /\ OnlinePlayers = 0
    /\ IF timer = "stopped"
       THEN backend' = "told" /\ UNCHANGED suspended
       ELSE suspended' = FALSE /\ UNCHANGED backend
    /\ UNCHANGED timer

(* Mutant: a timer that is started again is not suspended. *)
AwakeRunning ==
    /\ OnlinePlayers # 0
    /\ timer' = IF timer = "stopped" THEN "starting" ELSE timer
    /\ suspended' = IF timer = "stopped" THEN suspended ELSE TRUE
    /\ UNCHANGED backend

(* There was a change and somebody is online. *)
Awake ==
    /\ OnlinePlayers # 0
    /\ timer' = IF timer = "stopped" THEN "starting" ELSE timer
    /\ suspended' = TRUE
    /\ UNCHANGED backend

(* When the checker has given up, supervise raises and the backend fails.  *)
Decide ==
    /\ loop = "returning"
    /\ IF "change" \in saw
       THEN (Idle \/ Awake) /\ changed' = FALSE
       ELSE UNCHANGED <<backend, timerVars, changed>>
    /\ loop' = IF "checker" \in saw THEN "none" ELSE "waiting"
    /\ saw' = {}
    /\ UNCHANGED <<ended, count, checkVars, pl, exact>>

(* supervise has raised. *)
Raised ==
    /\ loop = "none" /\ backend \in {"running", "told"}
    /\ backend' = "exiting"
    /\ UNCHANGED <<loop, saw, ended, count, changed, timerVars, checkVars, pl, exact>>

(* The end of a unit is seen by supervise_until only while it waits.       *)
Ends(unit) == ended' = IF loop = "waiting" THEN ended \cup {unit} ELSE ended

-----------------------------------------------------------------------------
(* The sleep timer. *)

(* Its START is handled inside supervise_until. *)
TimerStarts ==
    /\ timer = "starting" /\ loop = "waiting"
    /\ timer' = "running"
    /\ UNCHANGED <<taskVars, count, changed, suspended, checkVars, pl, exact>>

(* wait_for has timed out, which nothing takes back. *)
TimerDue ==
    /\ timer = "running" /\ ~suspended
    /\ timer' = "due"
    /\ UNCHANGED <<taskVars, count, changed, suspended, checkVars, pl, exact>>

TimerEnds ==
    /\ timer = "due"
    /\ timer' = "stopped"
    /\ Ends("timer")
    /\ UNCHANGED <<backend, loop, saw, count, changed, suspended, checkVars, pl, exact>>

-----------------------------------------------------------------------------
(* The status checker. *)

OnServer == {p \in Players : pl[p] \in {"online", "closing"}}
Settled  == \A p \in Players : pl[p] \in {"away", "online"}

Answer ==
    /\ tries # Gone /\ answer = None /\ backend # "down"
    /\ answer' = Cardinality(OnServer)
    /\ exact' = IF exact = "no" /\ Settled THEN "asked" ELSE exact
    /\ UNCHANGED <<taskVars, count, changed, timerVars, tries, pl>>

(* Mutant: an answer never lowers the count. *)
UpdateUpwards ==
    /\ answer # None
    /\ answer' = None /\ tries' = 0
    /\ count' = (IF answer > count THEN answer ELSE count) /\ changed' = TRUE
    /\ exact' = IF exact = "asked" THEN "yes" ELSE exact
    /\ UNCHANGED <<taskVars, timerVars, pl>>

(* get_stats returns, and update_stats is called. *)
UpdateStats ==
    /\ answer # None
    /\ answer' = None /\ tries' = 0
    /\ count' = answer /\ changed' = TRUE
    /\ exact' = IF exact = "asked" THEN "yes" ELSE exact
    /\ UNCHANGED <<taskVars, timerVars, pl>>

NoAnswer ==
    /\ tries < MaxRetries
    /\ tries' = tries + 1
    /\ answer' = None
    /\ exact' = IF exact = "asked" THEN "no" ELSE exact
    /\ UNCHANGED <<taskVars, count, changed, timerVars, pl>>

GivesUp ==
    /\ tries = MaxRetries
    /\ tries' = Gone
    /\ answer' = None
    /\ exact' = IF exact = "asked" THEN "no" ELSE exact
    /\ Ends("checker")
    /\ UNCHANGED <<backend, loop, saw, count, changed, timerVars, pl>>

-----------------------------------------------------------------------------
(* The players. *)

Moves(p, to) == pl' = [pl EXCEPT ![p] = to] /\ exact' = "no"

Adjust(n) == count' = OnlinePlayers + n /\ changed' = TRUE

(* The proxy has connected to the server. *)
Login(p) ==
    /\ pl[p] = "away" /\ backend # "down"
    /\ Moves(p, "joining") /\ Adjust(1)
    /\ UNCHANGED <<taskVars, timerVars, checkVars>>

(* The server has let the player in. *)
Join(p) ==
    /\ pl[p] = "joining" /\ backend # "down"
    /\ Moves(p, "online")
    /\ UNCHANGED <<taskVars, timerVars, checkVars, count, changed>>

(* The server has ended the connection. *)
Kick(p) ==
    /\ pl[p] \in {"joining", "online"}
    /\ Moves(p, "leaving")
    /\ UNCHANGED <<taskVars, timerVars, checkVars, count, changed>>

(* The proxy notices it. *)
Leave(p) ==
    /\ pl[p] = "leaving"
    /\ Moves(p, "away") /\ Adjust(-1)
    /\ UNCHANGED <<taskVars, timerVars, checkVars>>

(* The client's connection is lost: the proxy notices before the server.   *)
Lose(p) ==
    /\ pl[p] = "online"
    /\ Moves(p, "closing") /\ Adjust(-1)
    /\ UNCHANGED <<taskVars, timerVars, checkVars>>

Forget(p) ==
    /\ pl[p] = "closing"
    /\ Moves(p, "away")
    /\ UNCHANGED <<taskVars, timerVars, checkVars, count, changed>>

-----------------------------------------------------------------------------
UnitSteps  == Start \/ Exit \/ Down \/ Return \/ Decide \/ Raised
TimerSteps == TimerStarts \/ TimerDue \/ TimerEnds
CheckSteps == Answer \/ UpdateStats \/ NoAnswer \/ GivesUp
PlayerSteps(p) == Login(p) \/ Join(p) \/ Kick(p) \/ Leave(p) \/ Lose(p) \/ Forget(p)

Next == UnitSteps \/ TimerSteps \/ CheckSteps \/ \E p \in Players : PlayerSteps(p)

Spec == Init /\ [][Next]_vars

(* Tasks that are ready get their turn, time passes, a request is answered *)
(* or fails, and a connection that has ended is noticed.                   *)
FairSpec ==
    /\ Spec
    /\ WF_vars(Return) /\ WF_vars(Decide) /\ WF_vars(Raised)
    /\ WF_vars(backend = "told" /\ Exit) /\ WF_vars(Down)
    /\ SF_vars(TimerStarts) /\ WF_vars(TimerDue) /\ WF_vars(TimerEnds)
    /\ WF_vars(Answer \/ NoAnswer \/ GivesUp) /\ WF_vars(UpdateStats)
    /\ \A p \in Players : WF_vars(Leave(p)) /\ WF_vars(Forget(p))

-----------------------------------------------------------------------------
Present == \E p \in Players : pl[p] # "away"

OnlineCount == Cardinality({p \in Players : pl[p] = "online"})

(* An answer that was taken when no player came or went, and nothing since, *)
(* make the count that of the players online, whatever was lost before.    *)
CountRepaired ==
    /\ exact = "yes" => count = OnlineCount
    /\ exact = "asked" => answer = OnlineCount

(* The sleep timer is suspended while players are counted, but for changes  *)
(* that supervise has not dealt with yet; also those of the run before.    *)
PlayersSuspend == ~changed /\ count # 0 => suspended

(* The end of the checker went unseen: the supervisor returned just then.   *)
Unwatched == tries = Gone /\ "checker" \notin saw \cup ended

(* A backend nobody is connected to stops.                                 *)
IdleStops ==
    \/ []<>(backend \notin {"running", "told"})
    \/ []<>Present
    \/ <>[]Unwatched

(* `No players connected for ...s, stopping server', the log says (441).    *)
StopsOnlyEmpty ==
    [][backend = "running" /\ backend' = "told" =>
          \A p \in Players : pl[p] \notin {"joining", "online"}]_vars
=============================================================================
