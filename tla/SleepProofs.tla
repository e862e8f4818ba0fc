----------------------------- MODULE SleepProofs -----------------------------
(***************************************************************************)
(* What holds of Sleep for every number of players and retries.            *)
(***************************************************************************)
EXTENDS Sleep, FiniteSetTheorems, TLAPS

(* A number of players is never mistaken for no answer. *)
LEMMA Counts ==
    ASSUME NEW S \in SUBSET Players
    PROVE  Cardinality(S) \in 0 .. Cardinality(Players) /\ Cardinality(S) # None
<1>1. /\ Cardinality(S) \in Nat /\ Cardinality(Players) \in Nat
      /\ Cardinality(S) <= Cardinality(Players)
  BY SleepAssumption, FS_Subset, FS_CardinalityType
<1>2. QED BY <1>1 DEF None

-----------------------------------------------------------------------------
(* Types. *)

LEMMA TypeInit == Init => TypeOK
<1> SUFFICES ASSUME Init PROVE TypeOK
  OBVIOUS
<1>1. tries \in 0 .. Gone
  BY SleepAssumption DEF Init, Gone
<1>2. answer \in {None} \cup 0 .. Cardinality(Players)
  BY DEF Init
<1>3. pl \in [Players -> {"away", "joining", "online", "leaving", "closing"}]
  BY DEF Init
<1>4. /\ backend = "down" /\ loop = "none" /\ saw = {} /\ ended = {}
      /\ count = 0 /\ changed = TRUE /\ timer = "stopped" /\ suspended = FALSE /\ exact = "no"
  BY DEF Init
<1>5. saw \subseteq {"change", "timer", "checker"} /\ ended \subseteq {"timer", "checker"}
  BY <1>4
<1>6. /\ count \in Int
      /\ changed \in BOOLEAN /\ suspended \in BOOLEAN
  <2>1. count \in Int
    BY <1>4, SMT
  <2>2. changed \in BOOLEAN /\ suspended \in BOOLEAN
    BY Zenon DEF Init
  <2>3. QED BY <2>1, <2>2
<1>7. /\ backend \in {"down", "running", "told", "exiting"}
      /\ loop \in {"none", "waiting", "returning"}
  BY <1>4
<1>8. timer \in {"stopped", "starting", "running", "due"} /\ exact \in {"no", "asked", "yes"}
  BY <1>4
<1>9. QED BY <1>1, <1>2, <1>3, <1>5, <1>6, <1>7, <1>8, Zenon DEF TypeOK

LEMMA UnitsKeepTypes == TypeOK /\ UnitSteps => TypeOK'
<1> SUFFICES ASSUME TypeOK, UnitSteps PROVE TypeOK'
  OBVIOUS
<1> USE DEF TypeOK
<1>1. CASE Start
  BY <1>1, SleepAssumption DEF Start, Gone
<1>2. CASE Exit
  BY <1>2 DEF Exit, timerVars, checkVars
<1>3. CASE Down
  BY <1>3, SleepAssumption DEF Down, Gone
<1>4. CASE Return
  BY <1>4 DEF Return, timerVars, checkVars
<1>5. CASE Decide
  BY <1>5 DEF Decide, Idle, Awake, timerVars, checkVars
<1>6. CASE Raised
  BY <1>6 DEF Raised, timerVars, checkVars
<1>7. QED BY <1>1, <1>2, <1>3, <1>4, <1>5, <1>6 DEF UnitSteps

LEMMA TimerKeepsTypes == TypeOK /\ TimerSteps => TypeOK'
BY DEF TypeOK, TimerSteps, TimerStarts, TimerDue, TimerEnds, Ends, taskVars, checkVars

LEMMA CheckKeepsTypes == TypeOK /\ CheckSteps => TypeOK'
<1> SUFFICES ASSUME TypeOK, CheckSteps PROVE TypeOK'
  OBVIOUS
<1> USE DEF TypeOK
<1>1. CASE Answer
  <2>1. Cardinality(OnServer) \in 0 .. Cardinality(Players)
    BY Counts DEF OnServer
  <2>2. QED BY <1>1, <2>1 DEF Answer, taskVars, timerVars
<1>2. CASE UpdateStats
  <2>1. count' \in Int /\ answer' \in {None} \cup 0 .. Cardinality(Players)
    <3>1. Cardinality(Players) \in Nat
      BY SleepAssumption, FS_CardinalityType
    <3>2. QED BY <1>2, <3>1 DEF UpdateStats
  <2>2. tries' \in 0 .. Gone
    BY <1>2, SleepAssumption DEF UpdateStats, Gone
  <2>3. QED BY <1>2, <2>1, <2>2 DEF UpdateStats, taskVars, timerVars
<1>3. CASE NoAnswer
  <2>1. tries' \in 0 .. Gone
    BY <1>3, SleepAssumption DEF NoAnswer, Gone
  <2>2. QED BY <1>3, <2>1 DEF NoAnswer, taskVars, timerVars
<1>4. CASE GivesUp
  <2>1. tries' \in 0 .. Gone
    BY <1>4, SleepAssumption DEF GivesUp, Gone
  <2>2. QED BY <1>4, <2>1 DEF GivesUp, Ends, timerVars
<1>5. QED BY <1>1, <1>2, <1>3, <1>4 DEF CheckSteps

LEMMA PlayersKeepTypes == ASSUME NEW p \in Players PROVE TypeOK /\ PlayerSteps(p) => TypeOK'
<1> SUFFICES ASSUME TypeOK, PlayerSteps(p) PROVE TypeOK'
  OBVIOUS
<1>1. OnlinePlayers \in Int
  BY DEF TypeOK, OnlinePlayers
<1>2. ASSUME NEW to \in {"away", "joining", "online", "leaving", "closing"}, Moves(p, to)
      PROVE  /\ pl' \in [Players -> {"away", "joining", "online", "leaving", "closing"}]
             /\ exact' \in {"no", "asked", "yes"}
  BY <1>2 DEF TypeOK, Moves
<1>3. /\ pl' \in [Players -> {"away", "joining", "online", "leaving", "closing"}]
      /\ exact' \in {"no", "asked", "yes"}
  BY <1>2 DEF PlayerSteps, Login, Join, Kick, Leave, Lose, Forget
<1>4. ASSUME NEW n \in {1, -1}, Adjust(n) PROVE count' \in Int /\ changed' \in BOOLEAN
  BY <1>1, <1>4 DEF Adjust
<1>5. count' \in Int /\ changed' \in BOOLEAN
  BY <1>4 DEF TypeOK, PlayerSteps, Login, Join, Kick, Leave, Lose, Forget
<1>6. UNCHANGED <<taskVars, timerVars, checkVars>>
  BY DEF PlayerSteps, Login, Join, Kick, Leave, Lose, Forget
<1>7. QED BY <1>3, <1>5, <1>6 DEF TypeOK, taskVars, timerVars, checkVars

(* Every reachable state is well typed. *)
THEOREM TypeCorrect == Spec => []TypeOK
<1>1. TypeOK /\ [Next]_vars => TypeOK'
  <2>1. CASE Next
    BY <2>1, UnitsKeepTypes, TimerKeepsTypes, CheckKeepsTypes, PlayersKeepTypes DEF Next
  <2>2. CASE UNCHANGED vars
    BY <2>2 DEF vars, taskVars, timerVars, checkVars, TypeOK
  <2>3. QED BY <2>1, <2>2
<1>2. QED BY <1>1, TypeInit, PTL DEF Spec

-----------------------------------------------------------------------------
(* The count. *)

(* While the count can be relied on no player is coming or going, and any   *)
(* answer under way says the same.                                         *)
CountInv ==
    exact # "no" =>
        /\ Settled
        /\ answer # None => answer = OnlineCount
        /\ exact = "asked" => answer # None
        /\ exact = "yes" => count = OnlineCount

LEMMA SettledCount == Settled => Cardinality(OnServer) = OnlineCount
<1>1. Settled => OnServer = {p \in Players : pl[p] = "online"}
  BY DEF Settled, OnServer
<1>2. QED BY <1>1 DEF OnlineCount

(* What happens to other things leaves it alone. *)
LEMMA CountAside ==
    CountInv /\ UNCHANGED <<exact, pl, answer, count>> => CountInv'
BY DEF CountInv, Settled, OnlineCount

LEMMA CountStep == TypeOK /\ CountInv /\ Next => CountInv'
<1> SUFFICES ASSUME TypeOK, CountInv, Next PROVE CountInv'
  OBVIOUS
<1>1. CASE Start \/ Exit \/ Return \/ Decide \/ Raised
  BY <1>1, CountAside DEF Start, Exit, Return, Decide, Raised, checkVars
<1>2. CASE Down
  BY <1>2 DEF Down, CountInv
<1>3. CASE TimerSteps
  BY <1>3, CountAside DEF TimerSteps, TimerStarts, TimerDue, TimerEnds, checkVars
<1>4. CASE Answer
  <2>1. OnlineCount' = OnlineCount /\ Settled' = Settled
    BY <1>4 DEF Answer, OnlineCount, Settled
  <2>2. CASE exact = "no" /\ ~Settled
    BY <1>4, <2>2 DEF Answer, CountInv
  <2>3. CASE exact = "no" /\ Settled
    <3>1. answer' = OnlineCount /\ answer' # None
      BY <1>4, <2>3, SettledCount, Counts DEF Answer, OnServer
    <3>2. QED BY <1>4, <2>1, <2>3, <3>1 DEF Answer, CountInv
  <2>4. CASE exact # "no"
    <3>1. answer' = OnlineCount /\ answer' # None
      BY <1>4, <2>4, SettledCount, Counts DEF Answer, OnServer, CountInv
    <3>2. QED BY <1>4, <2>1, <2>4, <3>1 DEF Answer, CountInv
  <2>5. QED BY <2>2, <2>3, <2>4
<1>5. CASE UpdateStats
  <2>1. OnlineCount' = OnlineCount /\ Settled' = Settled
    BY <1>5 DEF UpdateStats, OnlineCount, Settled
  <2>2. QED BY <1>5, <2>1 DEF UpdateStats, CountInv
<1>6. CASE NoAnswer \/ GivesUp
  <2>1. OnlineCount' = OnlineCount /\ Settled' = Settled
    BY <1>6 DEF NoAnswer, GivesUp, OnlineCount, Settled
  <2>2. QED BY <1>6, <2>1 DEF NoAnswer, GivesUp, CountInv, TypeOK
<1>7. ASSUME NEW p \in Players, PlayerSteps(p) PROVE CountInv'
  BY <1>7 DEF PlayerSteps, Login, Join, Kick, Leave, Lose, Forget, Moves, CountInv
<1>8. QED BY <1>1, <1>2, <1>3, <1>4, <1>5, <1>6, <1>7 DEF Next, UnitSteps, CheckSteps

(* One status answer taken while no player comes or goes repairs the count, *)
(* whatever increments and decrements were lost or counted twice before    *)
(* (backend.py 139-140, 513-517).                                          *)
THEOREM CountIsRepaired == Spec => []CountRepaired
<1>1. Init => CountInv
  BY DEF Init, CountInv
<1>2. TypeOK /\ CountInv /\ [Next]_vars => CountInv'
  <2>1. CASE UNCHANGED vars
    BY <2>1, CountAside DEF vars, checkVars
  <2>2. QED BY <2>1, CountStep
<1>3. CountInv => CountRepaired
  BY DEF CountInv, CountRepaired
<1>4. QED BY <1>1, <1>2, <1>3, TypeCorrect, PTL DEF Spec

-----------------------------------------------------------------------------
(* The sleep timer. *)

(* supervise, which suspends the timer, only runs while the count is read   *)
(* through.                                                                *)
SuspendInv ==
    /\ PlayersSuspend
    /\ loop # "none" => backend \in {"running", "told"}

LEMMA SuspendStep == SuspendInv /\ Next => SuspendInv'
<1> SUFFICES ASSUME SuspendInv, Next PROVE SuspendInv'
  OBVIOUS
<1> USE DEF SuspendInv, PlayersSuspend
<1>1. CASE Start \/ Exit \/ Down \/ Return \/ Raised
  BY <1>1 DEF Start, Exit, Down, Return, Raised, timerVars
<1>2. CASE Decide
  BY <1>2 DEF Decide, Idle, Awake, OnlinePlayers, timerVars
<1>3. CASE TimerSteps
  BY <1>3 DEF TimerSteps, TimerStarts, TimerDue, TimerEnds, taskVars
<1>4. CASE CheckSteps
  BY <1>4 DEF CheckSteps, Answer, UpdateStats, NoAnswer, GivesUp, taskVars, timerVars
<1>5. ASSUME NEW p \in Players, PlayerSteps(p) PROVE SuspendInv'
  BY <1>5 DEF PlayerSteps, Login, Join, Kick, Leave, Lose, Forget, Adjust, taskVars, timerVars
<1>6. QED BY <1>1, <1>2, <1>3, <1>4, <1>5 DEF Next, UnitSteps

(* The sleep timer never runs on under counted players once supervise has   *)
(* had its turn (backend.py 452-459).                                      *)
THEOREM PlayersSuspendTimer == Spec => []PlayersSuspend
<1>1. Init => SuspendInv
  BY DEF Init, SuspendInv, PlayersSuspend
<1>2. SuspendInv /\ [Next]_vars => SuspendInv'
  BY SuspendStep DEF vars, taskVars, timerVars, SuspendInv, PlayersSuspend
<1>3. SuspendInv => PlayersSuspend
  BY DEF SuspendInv
<1>4. QED BY <1>1, <1>2, <1>3, PTL DEF Spec
=============================================================================
