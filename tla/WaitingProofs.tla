--------------------------- MODULE WaitingProofs ----------------------------
(* Theorems about Waiting, for any set of clients and all that those about *)
(* Supervisor leave open.                                                  *)
EXTENDS Waiting, SupervisorProofs

AllTypeOK == TypeOK /\ WaitTypeOK

(* What the others do is a step of the supervisor. *)
LEMMA SupervisedIsNext == Supervised => Next
  BY DEF Supervised, UntilDoneStarting, UntilDoneStopping, Again, Return, Others,
     Awake, Collect, Next, Supervise

(* A player's step starts the backend, if it changes the supervisor at all. *)
LEMMA PlayerStarts ==
    ASSUME NEW c \in Clients, Player(c)
    PROVE  /\ UNCHANGED <<added, restart, at, cancel, result, pendingStop, force,
                          doneEntering, doneExiting, task, finished, loopVars,
                          callerVars>>
           /\ \/ added[Backend] = "yes" /\ StartNowait(Backend)
              \/ UNCHANGED <<status, pendingStart, queue>>
  BY DEF Player, Join, StopSeen, StartSeen, GiveUp, StartIfAdded, KeepRest,
     vars, unitVars

-----------------------------------------------------------------------------
(* The supervisor's invariant, with players. *)
LEMMA PlayerKeepsInv ==
    ASSUME IInv, NEW c \in Clients, Player(c)
    PROVE  IInv'
  <1>0. TypeOK /\ Backend \in Units
    BY WaitingAssumption DEF IInv
  <1>1. UNCHANGED <<added, restart, at, cancel, result, pendingStop, force,
                    doneEntering, doneExiting, task, finished, loopVars>>
    BY PlayerStarts
  <1>2. CASE added[Backend] = "yes" /\ StartNowait(Backend)
    <2>1. TypeOK'
      BY <1>0, <1>1, <1>2, StartType DEF TypeOK, loopVars
    <2>2. ASSUME NEW w \in Units PROVE UnitInv(w)'
      BY <1>0, <1>1, <1>2, IInvByUnit, StartKeepsInv DEF loopVars
    <2> QED BY <2>1, <2>2 DEF IInv, UnitInv, StartIsFresh, NoStuckStop
  <1>3. CASE UNCHANGED <<status, pendingStart, queue>>
    <2>1. UNCHANGED vars
      BY <1>1, <1>3 DEF vars, unitVars
    <2> QED BY <2>1, NextKeepsInv
  <1> QED BY <1>2, <1>3, PlayerStarts

(* What is proved of the supervisor holds although players start the       *)
(* backend wherever they have waited, also while the context is left.      *)
THEOREM PlayersKeepInvariant == WaitSpec => []IInv
  <1>1. WaitInit => IInv
    BY InitInv DEF WaitInit
  <1>2. IInv /\ [WaitNext]_waitVars => IInv'
    <2>1. IInv /\ UNCHANGED waitVars => IInv'
      BY NextKeepsInv DEF waitVars
    <2> QED BY <2>1, SupervisedIsNext, NextKeepsInv, PlayerKeepsInv DEF WaitNext
  <1> QED BY <1>1, <1>2, PTL DEF WaitSpec

-----------------------------------------------------------------------------
LEMMA PlayerKeepsWaitType ==
    ASSUME WaitTypeOK, NEW c \in Clients, Player(c)
    PROVE  WaitTypeOK'
  <1>1. UNCHANGED callerVars
    BY PlayerStarts
  <1>2. ASSUME NEW e \in {"exiting", "entering"}, Suspend(c, e)
        PROVE  WaitTypeOK'
    BY <1>1, <1>2 DEF WaitTypeOK, Suspend, callerVars
  <1>3. ASSUME NEW what \in {"nothing", "started", "failed", "late"}, Tell(c, what)
        PROVE  WaitTypeOK'
    BY <1>1, <1>3 DEF WaitTypeOK, Tell, callerVars
  <1>4. Outcome \in {"started", "failed"}
    BY DEF Outcome
  <1>5. CASE AwaitStart(c)
    BY <1>2, <1>3, <1>4, <1>5 DEF AwaitStart
  <1> QED BY <1>2, <1>3, <1>4, <1>5 DEF Player, Join, StopSeen, StartSeen, GiveUp

LEMMA SupervisedKeepsWaitType ==
    ASSUME WaitTypeOK, Supervised
    PROVE  WaitTypeOK'
  <1>1. /\ client' = client
        /\ woken' \in [Clients -> BOOLEAN]
        /\ told' \in [Clients -> {"nothing", "started", "failed", "late"}]
        /\ ran' \in [Clients -> BOOLEAN]
    BY DEF WaitTypeOK, Supervised, Waiters, Set
  <1>2. caller' \in {"none"} \cup Callers
    BY DEF WaitTypeOK, Supervised, UntilDoneStarting, UntilDoneStopping, Again, Return,
       Others, Awake, Collect, Calling
  <1>3. latched' \in BOOLEAN /\ event' \in BOOLEAN
    BY DEF WaitTypeOK, Supervised, UntilDoneStarting, UntilDoneStopping, Again, Return,
       Others, Awake, Collect, Calling, Latch, Set
  <1>4. ended' \in {"no", "returned", "raised"}
    BY DEF WaitTypeOK, Supervised, UntilDoneStarting, UntilDoneStopping, Again, Return,
       Others, Awake, Collect, Calling
  <1> QED BY <1>1, <1>2, <1>3, <1>4 DEF WaitTypeOK

(* Every wait of a player or of the supervising task is of a known kind.   *)
THEOREM WaitTypeCorrect == WaitSpec => []WaitTypeOK
  <1>1. WaitInit => WaitTypeOK
    BY DEF WaitInit, WaitTypeOK
  <1>2. WaitTypeOK /\ [WaitNext]_waitVars => WaitTypeOK'
    <2>1. WaitTypeOK /\ UNCHANGED waitVars => WaitTypeOK'
      BY DEF WaitTypeOK, waitVars, clientVars, callerVars
    <2> QED BY <2>1, SupervisedKeepsWaitType, PlayerKeepsWaitType DEF WaitNext
  <1> QED BY <1>1, <1>2, PTL DEF WaitSpec

-----------------------------------------------------------------------------
(* What those who wait rely on. *)

(* The backend has a result only after its start, and done_entering is set *)
(* once its start has ended.                                               *)
BackendInv ==
    /\ at[Backend] \in {"forcedStop", "entering", "stopBeforeRun", "running"}
          => result[Backend] = "none"
    /\ at[Backend] \in {"stopBeforeRun", "running", "exiting"} => doneEntering[Backend]

(* A player waits for an event that is not set, or has been woken by one   *)
(* whose cause can still be seen.                                          *)
ClientInv(c) ==
    /\ client[c] = "entering" /\ ~woken[c] => ~doneEntering[Backend]
    /\ client[c] = "entering" /\ woken[c] => ran[c] \/ result[Backend] # "none"
    /\ client[c] = "exiting" /\ ~woken[c] => ~doneExiting[Backend]
    /\ client[c] = "exiting" /\ woken[c] => at[Backend] \in {"none", "created"}
    /\ client[c] # "away" => told[c] = "nothing"
    /\ told[c] = "failed" => status[Backend] # "RUNNING"

AnswerInv == BackendInv /\ \A c \in Clients : ClientInv(c)

(* A step of the supervisor changes what players wait for only in the      *)
(* backend's own task.                                                     *)
LEMMA OnlyItsTask ==
    ASSUME TypeOK, Next, ~RunUnit(Backend)
    PROVE  /\ result'[Backend] = result[Backend]
           /\ doneEntering'[Backend] = doneEntering[Backend]
           /\ doneExiting'[Backend] = doneExiting[Backend]
           /\ at'[Backend] \in {at[Backend], "created"}
  <1>0. Backend \in Units
    BY WaitingAssumption
  <1>1. ASSUME NEW u \in Units, RunUnit(u), u # Backend
        PROVE  /\ result'[Backend] = result[Backend]
               /\ doneEntering'[Backend] = doneEntering[Backend]
               /\ doneExiting'[Backend] = doneExiting[Backend]
               /\ at'[Backend] = at[Backend]
    BY <1>0, <1>1 DEF RunUnit, Begin, Entered, RunReturns, Failed, Exited, ToExit, TypeOK
  <1>2. ASSUME NEW u \in Units, HandleStart(u)
        PROVE  /\ UNCHANGED <<result, doneEntering, doneExiting>>
               /\ at'[Backend] \in {at[Backend], "created"}
    BY <1>0, <1>2 DEF HandleStart, TypeOK
  <1>3. \/ UNCHANGED <<at, result, doneEntering, doneExiting>>
        \/ \E u \in Units : HandleStart(u) \/ RunUnit(u)
    BY DEF Next, Supervise, Client, AddUnit, RemoveUnit, StartUnit, StopUnit,
       EnterContext, ExitContext, AllStopped, SuperviseUntil, BeginWait,
       MonitorTake, EndIteration, CancelSupervise, Closed, Wake, StopOne,
       RestartOne, Handle, DeferStop, HandleStop, Refuse, Reap, ReapFailed, unitVars
  <1> QED BY <1>1, <1>2, <1>3

(* What the backend's task does to its result and its events. *)
LEMMA ItsTask ==
    ASSUME TypeOK, BackendInv, RunUnit(Backend)
    PROVE  /\ BackendInv'
           /\ doneExiting'[Backend] => at'[Backend] = "none" \/ doneExiting[Backend]
           /\ at[Backend] \in {"none", "created"} => at[Backend] = "created" /\ at'[Backend] # "created"
           /\ ~doneEntering[Backend] /\ doneEntering'[Backend]
                 => status'[Backend] = "RUNNING" \/ result'[Backend] # "none"
           /\ at[Backend] # "created" /\ result[Backend] # "none" => result'[Backend] # "none"
  <1>0. Backend \in Units /\ "none" \notin Failures
    BY WaitingAssumption, ConstantsAssumption
  <1>1. CASE Begin(Backend)
    BY <1>0, <1>1 DEF Begin, ToExit, TypeOK, BackendInv
  <1>2. CASE Entered(Backend)
    BY <1>0, <1>2 DEF Entered, ToExit, TypeOK, BackendInv
  <1>3. CASE RunReturns(Backend)
    BY <1>0, <1>3 DEF RunReturns, ToExit, TypeOK, BackendInv
  <1>4. ASSUME NEW outcome \in Results, Failed(Backend, outcome)
        PROVE  /\ at[Backend] \in {"forcedStop", "entering", "stopBeforeRun", "running"}
               /\ outcome # "none" /\ ToExit(Backend, outcome) /\ doneExiting' = doneExiting
    BY <1>0, <1>4 DEF Failed
  <1>5. CASE \E outcome \in Results : Failed(Backend, outcome)
    BY <1>0, <1>4, <1>5 DEF ToExit, TypeOK, BackendInv
  <1>6. CASE \E outcome \in Results : Exited(Backend, outcome)
    BY <1>0, <1>6 DEF Exited, TypeOK, BackendInv
  <1> QED BY <1>1, <1>2, <1>3, <1>5, <1>6 DEF RunUnit

LEMMA SupervisedKeepsAnswers ==
    ASSUME AllTypeOK, AnswerInv, Supervised
    PROVE  AnswerInv'
  <1>0. TypeOK /\ WaitTypeOK /\ BackendInv /\ Next /\ Waiters
    BY SupervisedIsNext DEF AllTypeOK, AnswerInv, Supervised
  <1>1. BackendInv'
    <2>1. CASE RunUnit(Backend)
      BY <1>0, <2>1, ItsTask
    <2>2. CASE ~RunUnit(Backend)
      BY <1>0, <2>2, OnlyItsTask DEF BackendInv
    <2> QED BY <2>1, <2>2
  <1>2. ASSUME NEW c \in Clients PROVE ClientInv(c)'
    <2>0. ClientInv(c)
      BY DEF AnswerInv
    <2>1. /\ client'[c] = client[c]
          /\ woken'[c] <=> woken[c] \/ Set(client[c], doneEntering', doneExiting')
          /\ ran'[c] <=> ran[c] \/ (client[c] # "away" /\ status'[Backend] = "RUNNING")
          /\ told'[c] = "nothing"
          /\ woken[c] /\ at[Backend] = "created" => at'[Backend] = "created"
      BY <1>0 DEF Waiters, WaitTypeOK
    <2>2. CASE RunUnit(Backend)
      BY <1>0, <2>0, <2>1, <2>2, ItsTask DEF ClientInv, Set
    <2>3. CASE ~RunUnit(Backend)
      BY <1>0, <2>0, <2>1, <2>3, OnlyItsTask DEF ClientInv, Set
    <2> QED BY <2>2, <2>3
  <1> QED BY <1>1, <1>2 DEF AnswerInv

(* A player's step, seen by the one whose step it is. *)
LEMMA PlayerIsTold ==
    ASSUME IInv, WaitTypeOK, AnswerInv, NEW c \in Clients, Player(c)
    PROVE  /\ ClientInv(c)'
           /\ client[c] = "entering" /\ told'[c] = "started" => ran[c]
  <1>0. TypeOK /\ BackendInv /\ ClientInv(c) /\ Backend \in Units
    BY WaitingAssumption DEF IInv, AnswerInv
  <1>1. UNCHANGED <<at, result, doneEntering, doneExiting>>
    BY PlayerStarts
  <1>2. ASSUME NEW what, Tell(c, what)
        PROVE  client'[c] = "away" /\ told'[c] = what
    BY <1>0, <1>2 DEF Tell, WaitTypeOK
  <1>3. ASSUME NEW e, Suspend(c, e)
        PROVE  client'[c] = e /\ ~woken'[c] /\ told'[c] = "nothing"
    BY <1>0, <1>3 DEF Suspend, WaitTypeOK
  <1>4. CASE Join(c) \/ StopSeen(c)
    <2>1. CASE Suspend(c, "exiting") /\ ~doneExiting[Backend]
      BY <1>1, <1>3, <2>1 DEF ClientInv
    <2>2. CASE AwaitStart(c)
      <3>1. CASE status'[Backend] = "RUNNING"
        BY <1>2, <1>4, <2>2, <3>1 DEF AwaitStart, ClientInv, Join, StopSeen
      <3>2. CASE status'[Backend] # "RUNNING" /\ Suspend(c, "entering") /\ ~doneEntering[Backend]
        BY <1>1, <1>3, <3>2 DEF ClientInv
      <3>3. ASSUME status'[Backend] # "RUNNING", NEW what, Tell(c, what)
            PROVE  ClientInv(c)'
        BY <1>2, <3>3 DEF ClientInv
      <3> QED BY <1>4, <2>2, <3>1, <3>2, <3>3 DEF AwaitStart, Join, StopSeen
    <2> QED BY <1>4, <2>1, <2>2 DEF Join, StopSeen
  <1>5. CASE StartSeen(c)
    <2>1. client[c] = "entering" /\ woken[c] /\ Tell(c, Outcome) /\ status' = status
      BY <1>5 DEF StartSeen, vars, unitVars
    <2>2. client'[c] = "away" /\ told'[c] = Outcome
      BY <1>2, <2>1
    <2>3. result[Backend] # "none" => status[Backend] # "RUNNING"
      <3>1. PlaceAgrees(Backend) /\ at[Backend] \in Places
        BY <1>0 DEF IInv, TypeOK
      <3> QED BY <1>0, <3>1 DEF PlaceAgrees, Places, BackendInv
    <2> QED BY <1>0, <2>1, <2>2, <2>3 DEF Outcome, ClientInv
  <1>6. CASE GiveUp(c)
    BY <1>2, <1>6 DEF GiveUp, ClientInv
  <1> QED BY <1>4, <1>5, <1>6 DEF Player

(* A player's step, seen by the others. *)
LEMMA OthersAreLeft ==
    ASSUME IInv, WaitTypeOK, NEW c \in Clients, Player(c),
           NEW d \in Clients, d # c, ClientInv(d)
    PROVE  /\ ClientInv(d)'
           /\ client'[d] = client[d] /\ told'[d] = told[d]
           /\ status'[Backend] = "RUNNING" => status[Backend] = "RUNNING"
  <1>0. TypeOK /\ Backend \in Units
    BY WaitingAssumption DEF IInv
  <1>1. UNCHANGED <<at, result, doneEntering, doneExiting>>
    BY PlayerStarts
  <1>2. status'[Backend] = "RUNNING" => status[Backend] = "RUNNING"
    BY <1>0, PlayerStarts DEF StartNowait, TypeOK
  <1>3. ASSUME NEW what, Tell(c, what)
        PROVE  /\ client'[d] = client[d] /\ woken'[d] = woken[d]
               /\ told'[d] = told[d] /\ ran'[d] = ran[d]
    BY <1>3 DEF Tell, WaitTypeOK
  <1>4. ASSUME NEW e, Suspend(c, e)
        PROVE  /\ client'[d] = client[d] /\ woken'[d] = woken[d]
               /\ told'[d] = told[d] /\ ran'[d] = ran[d]
    BY <1>4 DEF Suspend, WaitTypeOK
  <1>5. /\ client'[d] = client[d] /\ woken'[d] = woken[d]
        /\ told'[d] = told[d] /\ ran'[d] = ran[d]
    BY <1>3, <1>4 DEF Player, Join, StopSeen, StartSeen, GiveUp, AwaitStart
  <1> QED BY <1>1, <1>2, <1>5 DEF ClientInv

LEMMA PlayerKeepsAnswers ==
    ASSUME IInv, WaitTypeOK, AnswerInv, NEW c \in Clients, Player(c)
    PROVE  AnswerInv'
  <1>1. BackendInv'
    BY PlayerStarts DEF AnswerInv, BackendInv
  <1>2. ASSUME NEW d \in Clients PROVE ClientInv(d)'
    BY PlayerIsTold, OthersAreLeft DEF AnswerInv
  <1> QED BY <1>1, <1>2 DEF AnswerInv

LEMMA AnswersAreKnown == WaitSpec => [](IInv /\ WaitTypeOK /\ AnswerInv)
  <1>1. WaitInit => AnswerInv
    BY WaitingAssumption DEF WaitInit, Init, AnswerInv, BackendInv, ClientInv
  <1>2. IInv /\ WaitTypeOK /\ AnswerInv /\ [WaitNext]_waitVars => AnswerInv'
    <2>1. IInv => TypeOK
      BY DEF IInv
    <2>2. AnswerInv /\ UNCHANGED waitVars => AnswerInv'
      BY DEF AnswerInv, BackendInv, ClientInv, waitVars, clientVars, vars, unitVars
    <2> QED BY <2>1, <2>2, SupervisedKeepsAnswers, PlayerKeepsAnswers
         DEF WaitNext, AllTypeOK
  <1> QED BY <1>1, <1>2, PlayersKeepInvariant, WaitTypeCorrect, PTL DEF WaitSpec

(* A player is told that the backend has started only if it was running    *)
(* since the player joined, and that it failed only if it does not run,    *)
(* whatever the other players, the clients and the units do.               *)
THEOREM AnswersAreTrue == WaitSpec => AnswersAgree
  <1> DEFINE Agrees(c) ==
          /\ client[c] = "entering" /\ told'[c] = "started" => ran[c]
          /\ client'[c] = "away" /\ told'[c] = "failed" => status'[Backend] # "RUNNING"
  <1>1. IInv /\ WaitTypeOK /\ AnswerInv /\ AnswerInv' /\ [WaitNext]_waitVars
            => [\A c \in Clients : Agrees(c)]_waitVars
    <2> SUFFICES ASSUME IInv, WaitTypeOK, AnswerInv, AnswerInv', WaitNext, NEW c \in Clients
                 PROVE  Agrees(c)
      OBVIOUS
    <2>1. told'[c] = "failed" => status'[Backend] # "RUNNING"
      BY DEF AnswerInv, ClientInv
    <2>2. CASE Supervised
      <3>1. told'[c] = "nothing"
        BY <2>2 DEF Supervised, Waiters
      <3> QED BY <3>1
    <2>3. ASSUME NEW d \in Clients, Player(d)
          PROVE  client[c] = "entering" /\ told'[c] = "started" => ran[c]
      <3>1. CASE d = c
        BY <2>3, <3>1, PlayerIsTold
      <3>2. CASE d # c
        <4>1. ClientInv(c)
          BY DEF AnswerInv
        <4>2. told'[c] = told[c]
          BY <2>3, <3>2, <4>1, OthersAreLeft
        <4> QED BY <4>1, <4>2 DEF ClientInv
      <3> QED BY <3>1, <3>2
    <2> QED BY <2>1, <2>2, <2>3 DEF WaitNext
  <1> QED BY <1>1, AnswersAreKnown, PTL DEF AnswersAgree, WaitSpec

(* A player who has waited for the end of a stop is turned away only if    *)
(* the backend was removed, or its last task did not clean up.             *)
THEOREM WaitersAreStarted == WaitSpec => WakesAgain
  <1> DEFINE Wakes(c) ==
          client[c] = "exiting" /\ told'[c] = "failed" => added[Backend] # "yes" \/ Uncleaned
  <1>1. IInv /\ WaitTypeOK /\ AnswerInv /\ [WaitNext]_waitVars
            => [\A c \in Clients : Wakes(c)]_waitVars
    <2> SUFFICES ASSUME IInv, WaitTypeOK, AnswerInv, WaitNext, NEW c \in Clients,
                        client[c] = "exiting", told'[c] = "failed",
                        added[Backend] = "yes"
                 PROVE  Uncleaned
      OBVIOUS
    <2>0. TypeOK /\ ClientInv(c) /\ UnitInv(Backend) /\ Backend \in Units
      BY WaitingAssumption, IInvByUnit DEF AnswerInv
    <2>1. ~Supervised
      BY DEF Supervised, Waiters
    <2>2. PICK d \in Clients : Player(d)
      BY <2>1 DEF WaitNext
    <2>3. d = c
      BY <2>0, <2>2, OthersAreLeft DEF ClientInv
    <2>4. ~GiveUp(c)
      BY DEF GiveUp, Tell, WaitTypeOK
    <2>5. StopSeen(c)
      BY <2>2, <2>3, <2>4 DEF Player, Join, StartSeen
    <2>6. at[Backend] \in {"none", "created"}
      BY <2>0, <2>5 DEF StopSeen, ClientInv
    <2>7. status[Backend] \in {"READY", "STOPPED"}
      BY <2>0, <2>6 DEF UnitInv, PlaceAgrees
    <2>8. pendingStart'[Backend] /\ status'[Backend] # "RUNNING"
      BY <2>0, <2>5, <2>6, <2>7
         DEF StopSeen, StartIfAdded, StartNowait, UnitInv, PlaceAgrees, Live, TypeOK
    <2>9. doneEntering[Backend]
      <3>1. AwaitStart(c)
        BY <2>5 DEF StopSeen
      <3>2. ~Suspend(c, "entering")
        BY DEF Suspend, WaitTypeOK
      <3> QED BY <2>8, <3>1, <3>2 DEF AwaitStart, ToStart
    <2> QED BY <2>6, <2>9 DEF Uncleaned
  <1> QED BY <1>1, AnswersAreKnown, PTL DEF WakesAgain, WaitSpec
=============================================================================
