-------------------------- MODULE SupervisorProofs --------------------------
(* Theorems about Supervisor, for any set of units, failures, clients and  *)
(* cancellations.                                                          *)
EXTENDS Supervisor, FiniteSetTheorems, TLAPS

(* A command put in the queue keeps it a sequence of commands. *)
LEMMA PutType ==
    ASSUME TypeOK, NEW u \in Units, NEW command \in {"START", "STOP"},
           Put(command, u)
    PROVE  queue' \in Seq(Commands)
  BY DEF TypeOK, Put, Commands

(* The two client operations keep the variables they write well typed. *)
LEMMA StartType ==
    ASSUME TypeOK, NEW u \in Units, StartNowait(u)
    PROVE  /\ status' \in [Units -> Status]
           /\ pendingStart' \in [Units -> BOOLEAN]
           /\ queue' \in Seq(Commands)
  <1>1. CASE Put("START", u)
    BY <1>1, PutType DEF TypeOK, StartNowait, Status
  <1>2. CASE queue' = queue
    BY <1>2 DEF TypeOK, StartNowait, Status
  <1> QED BY <1>1, <1>2 DEF StartNowait

LEMMA StopType ==
    ASSUME TypeOK, NEW u \in Units, NEW f \in BOOLEAN, StopNowait(u, f)
    PROVE  /\ status' \in [Units -> Status]
           /\ pendingStop' \in [Units -> BOOLEAN]
           /\ force' \in [Units -> BOOLEAN]
           /\ queue' \in Seq(Commands)
  <1>1. CASE Put("STOP", u)
    BY <1>1, PutType DEF TypeOK, StopNowait, Status
  <1>2. CASE queue' = queue
    BY <1>2 DEF TypeOK, StopNowait, Status
  <1> QED BY <1>1, <1>2 DEF StopNowait

(* Going on to the next command keeps the loop's variables well typed. *)
LEMMA NextCommandType ==
    ASSUME TypeOK, NextCommand
    PROVE  /\ queue' \in Seq(Commands)
           /\ monitor' \in {<<>>} \cup {<<c>> : c \in Commands}
           /\ loop' \in {loop, "reap"}
           /\ found' = found /\ raised' = raised /\ ctx' = ctx
  <1>1. CASE queue = <<>>
    BY <1>1 DEF TypeOK, NextCommand
  <1>2. CASE queue # <<>>
    <2>1. Head(queue) \in Commands /\ Tail(queue) \in Seq(Commands)
      BY <1>2 DEF TypeOK
    <2> QED BY <1>2, <2>1 DEF TypeOK, NextCommand
  <1> QED BY <1>1, <1>2

LEMMA ToExitType ==
    ASSUME TypeOK, NEW u \in Units, NEW outcome \in Results, ToExit(u, outcome)
    PROVE  /\ at' \in [Units -> Places]
           /\ cancel' \in [Units -> BOOLEAN]
           /\ result' \in [Units -> Results]
           /\ doneEntering' \in [Units -> BOOLEAN]
           /\ pendingStart' \in [Units -> BOOLEAN]
           /\ status' \in [Units -> Status]
  BY DEF TypeOK, ToExit, Places, Status

-----------------------------------------------------------------------------
(* The client operations and the iterations that call them. *)
LEMMA CallsKeepType ==
    ASSUME TypeOK, NEW u \in Units, Client(u) \/ StopOne(u) \/ RestartOne(u)
    PROVE  TypeOK'
  <1>1. ASSUME NEW r \in BOOLEAN, NEW stopped \in BOOLEAN, AddUnit(u, r, stopped)
        PROVE  TypeOK'
    <2>1. CASE stopped
      BY <1>1, <2>1 DEF TypeOK, AddUnit, loopVars
    <2>2. CASE ~stopped
      BY <1>1, <2>2, StartType DEF TypeOK, AddUnit, loopVars
    <2> QED BY <2>1, <2>2
  <1>2. CASE RemoveUnit(u)
    BY <1>2 DEF TypeOK, RemoveUnit, loopVars
  <1>3. CASE StartUnit(u)
    BY <1>3, StartType DEF TypeOK, StartUnit, loopVars
  <1>4. ASSUME NEW f \in BOOLEAN, StopUnit(u, f)
        PROVE  TypeOK'
    BY <1>4, StopType DEF TypeOK, StopUnit, loopVars
  <1>5. CASE StopOne(u)
    BY <1>5, StopType DEF TypeOK, StopOne, loopVars
  <1>6. CASE RestartOne(u)
    BY <1>6, StartType DEF TypeOK, RestartOne, loopVars
  <1> QED BY <1>1, <1>2, <1>3, <1>4, <1>5, <1>6 DEF Client

(* The steps of the supervise loop that change none of the units' state. *)
LEMMA LoopKeepsType ==
    ASSUME TypeOK,
           \/ EnterContext \/ ExitContext \/ AllStopped \/ SuperviseUntil
           \/ BeginWait \/ MonitorTake \/ EndIteration \/ CancelSupervise
           \/ Closed \/ \E event \in BOOLEAN : Wake(event)
    PROVE  TypeOK'
  <1>1. CASE EnterContext \/ ExitContext \/ SuperviseUntil \/ BeginWait
    BY <1>1 DEF TypeOK, EnterContext, ExitContext, SuperviseUntil, BeginWait, unitVars
  <1>2. CASE AllStopped
    BY <1>2 DEF TypeOK, AllStopped, unitVars
  <1>3. CASE MonitorTake
    <2>1. Head(queue) \in Commands /\ Tail(queue) \in Seq(Commands)
      BY <1>3 DEF TypeOK, MonitorTake
    <2> QED BY <1>3, <2>1 DEF TypeOK, MonitorTake, unitVars
  <1>4. CASE EndIteration \/ CancelSupervise \/ Closed
    BY <1>4 DEF TypeOK, EndIteration, CancelSupervise, Closed, unitVars
  <1>5. ASSUME NEW event \in BOOLEAN, Wake(event)
        PROVE  TypeOK'
    BY <1>5 DEF TypeOK, Wake, unitVars
  <1> QED BY <1>1, <1>2, <1>3, <1>4, <1>5

(* Handling a command and collecting a done task. *)
LEMMA HandleKeepsType ==
    ASSUME TypeOK, NEW u \in Units, Handle(u) \/ Reap(u) \/ ReapFailed(u)
    PROVE  TypeOK'
  <1>1. CASE HandleStart(u)
    BY <1>1, NextCommandType DEF TypeOK, HandleStart, Places
  <1>2. CASE HandleStop(u)
    BY <1>2, NextCommandType DEF TypeOK, HandleStop
  <1>3. CASE DeferStop(u)
    BY <1>3, NextCommandType DEF TypeOK, DeferStop, unitVars
  <1>4. CASE Refuse(u) \/ ReapFailed(u)
    BY <1>4 DEF TypeOK, Refuse, ReapFailed, Crash, unitVars
  <1>5. CASE Reap(u)
    <2>1. finished' \in [Units -> SUBSET {"done", "failed"}]
      BY <1>5 DEF TypeOK, Reap
    <2>2. task' \in [Units -> BOOLEAN]
      BY <1>5 DEF TypeOK, Reap
    <2> QED BY <1>5, <2>1, <2>2 DEF TypeOK, Reap
  <1> QED BY <1>1, <1>2, <1>3, <1>4, <1>5 DEF Handle

(* The steps of a unit's own task. *)
LEMMA TaskKeepsType ==
    ASSUME TypeOK, NEW u \in Units, RunUnit(u)
    PROVE  TypeOK'
  <1>1. CASE Begin(u)
    <2>1. CASE ToExit(u, "error")
      BY <1>1, <2>1, ToExitType DEF TypeOK, Begin, loopVars, Results
    <2>2. CASE ~(pendingStop[u] /\ force[u] /\ ~task[u])
      <3>1. cancel' \in [Units -> BOOLEAN]
        BY <1>1, <2>2, Zenon DEF TypeOK, Begin
      <3>2. at' \in [Units -> Places] /\ status' \in [Units -> Status]
        BY <1>1, <2>2 DEF TypeOK, Begin, Places, Status
      <3>3. /\ result' \in [Units -> Results]
            /\ doneEntering' \in [Units -> BOOLEAN]
            /\ doneExiting' \in [Units -> BOOLEAN]
            /\ pendingStart' = pendingStart
        BY <1>1, <2>2 DEF TypeOK, Begin, Results
      <3> QED BY <1>1, <3>1, <3>2, <3>3 DEF TypeOK, Begin, loopVars
    <2> QED BY <1>1, <2>1, <2>2 DEF Begin
  <1>2. CASE Entered(u)
    <2>1. CASE ToExit(u, "error")
      BY <1>2, <2>1, ToExitType DEF TypeOK, Entered, loopVars, Results
    <2>2. CASE ~(pendingStop[u] /\ ~task[u])
      <3>1. cancel' \in [Units -> BOOLEAN]
        <4>1. cancel' = [cancel EXCEPT ![u] = pendingStop[u]]
          BY <1>2, <2>2, Zenon DEF Entered
        <4>2. cancel \in [Units -> BOOLEAN] /\ pendingStop[u] \in BOOLEAN
          BY DEF TypeOK
        <4> QED BY <4>1, <4>2
      <3>2. at' \in [Units -> Places] /\ status' \in [Units -> Status]
        BY <1>2, <2>2 DEF TypeOK, Entered, Places, Status
      <3>3. /\ doneEntering' \in [Units -> BOOLEAN]
            /\ pendingStart' \in [Units -> BOOLEAN]
            /\ result' = result
        BY <1>2, <2>2 DEF TypeOK, Entered
      <3> QED BY <1>2, <3>1, <3>2, <3>3 DEF TypeOK, Entered, loopVars
    <2> QED BY <1>2, <2>1, <2>2 DEF Entered
  <1>3. CASE RunReturns(u)
    BY <1>3, ToExitType DEF TypeOK, RunReturns, loopVars, Results
  <1>4. ASSUME NEW outcome \in Results, Failed(u, outcome)
        PROVE  TypeOK'
    BY <1>4, ToExitType DEF TypeOK, Failed, loopVars
  <1>5. ASSUME NEW outcome \in Results, Exited(u, outcome)
        PROVE  TypeOK'
    <2>1. finished' \in [Units -> SUBSET {"done", "failed"}]
      BY <1>5 DEF TypeOK, Exited
    <2>2. status' \in [Units -> Status] /\ at' \in [Units -> Places]
      BY <1>5 DEF TypeOK, Exited, FinalStatus, Status, Places
    <2>3. /\ cancel' \in [Units -> BOOLEAN] /\ result' \in [Units -> Results]
          /\ doneExiting' \in [Units -> BOOLEAN]
          /\ pendingStop' \in [Units -> BOOLEAN]
          /\ force' \in [Units -> BOOLEAN]
          /\ doneEntering' \in [Units -> BOOLEAN]
          /\ task' \in [Units -> BOOLEAN]
      BY <1>5 DEF TypeOK, Exited
    <2> QED BY <1>5, <2>1, <2>2, <2>3 DEF TypeOK, Exited, loopVars
  <1> QED BY <1>1, <1>2, <1>3, <1>4, <1>5 DEF RunUnit

LEMMA InitType == Init => TypeOK
  <1> SUFFICES ASSUME Init PROVE TypeOK
    OBVIOUS
  <1>1. queue \in Seq(Commands)
    BY DEF Init
  <1>2. finished \in [Units -> SUBSET {"done", "failed"}]
    BY DEF Init
  <1> QED BY <1>1, <1>2 DEF Init, TypeOK, Status, Places, Results

LEMMA NextKeepsType == TypeOK /\ [Next]_vars => TypeOK'
  <1> SUFFICES ASSUME TypeOK, [Next]_vars
               PROVE  TypeOK'
    OBVIOUS
  <1>1. CASE UNCHANGED vars
    BY <1>1 DEF TypeOK, vars, unitVars, loopVars
  <1>2. CASE Next
    BY <1>2, CallsKeepType, LoopKeepsType, HandleKeepsType, TaskKeepsType
       DEF Next, Supervise
  <1> QED BY <1>1, <1>2

(* Every variable keeps its type, whatever the clients, the units and the  *)
(* event loop do.                                                          *)
THEOREM TypeCorrect == Spec => []TypeOK
  BY InitType, NextKeepsType, PTL DEF Spec

-----------------------------------------------------------------------------
(* What the steps do to the START commands that are held. *)
InQueue(c) == \E i \in DOMAIN queue : queue[i] = c

(* A command put in the queue is its new last element. *)
LEMMA PutLast ==
    ASSUME TypeOK, NEW u \in Units, NEW command \in {"START", "STOP"},
           Put(command, u)
    PROVE  /\ DOMAIN queue = 1 .. Len(queue)
           /\ DOMAIN queue' = 1 .. Len(queue) + 1
           /\ Len(queue) \in Nat
           /\ \A i \in DOMAIN queue : queue'[i] = queue[i]
           /\ queue'[Len(queue) + 1] = [cmd |-> command, unit |-> u]
  <1> DEFINE c == [cmd |-> command, unit |-> u]
  <1>1. queue \in Seq(Commands) /\ c \in Commands
    BY DEF TypeOK, Commands
  <1>2. queue' = Append(queue, c)
    BY DEF Put
  <1> HIDE DEF c
  <1>3. /\ Len(queue) \in Nat /\ DOMAIN queue = 1 .. Len(queue)
        /\ Len(Append(queue, c)) = Len(queue) + 1
        /\ DOMAIN Append(queue, c) = 1 .. Len(queue) + 1
    BY <1>1
  <1>4. \A i \in 1 .. Len(queue) : Append(queue, c)[i] = queue[i]
    BY <1>1
  <1>5. Append(queue, c)[Len(queue) + 1] = c
    BY <1>1
  <1> QED BY <1>2, <1>3, <1>4, <1>5 DEF c

(* A STOP put in the queue adds no START. *)
LEMMA PutStop ==
    ASSUME TypeOK, NEW u \in Units, NEW w \in Units,
           Put("STOP", u), monitor' = monitor, OneStart(w)
    PROVE  OneStart(w)' /\ (Held(StartOf(w))' => Held(StartOf(w)))
  <1>0. /\ DOMAIN queue = 1 .. Len(queue)
        /\ DOMAIN queue' = 1 .. Len(queue) + 1
        /\ Len(queue) \in Nat
        /\ \A i \in DOMAIN queue : queue'[i] = queue[i]
        /\ queue'[Len(queue) + 1] = [cmd |-> "STOP", unit |-> u]
    BY PutLast, Zenon
  <1>1. queue'[Len(queue) + 1] # StartOf(w)
    BY <1>0 DEF StartOf
  <1>2. \A i \in DOMAIN queue' : queue'[i] = StartOf(w) => i \in DOMAIN queue /\ queue[i] = StartOf(w)
    BY <1>0, <1>1
  <1> QED BY <1>0, <1>2 DEF OneStart, Held

(* A START put in the queue while none of that unit is held is the only    *)
(* one of the unit, and changes nothing for the others.                    *)
LEMMA PutStart ==
    ASSUME TypeOK, NEW u \in Units, NEW w \in Units,
           Put("START", u), monitor' = monitor, OneStart(w), ~Held(StartOf(u))
    PROVE  OneStart(w)' /\ (Held(StartOf(w))' => Held(StartOf(w)) \/ w = u)
  <1>0. /\ DOMAIN queue = 1 .. Len(queue)
        /\ DOMAIN queue' = 1 .. Len(queue) + 1
        /\ Len(queue) \in Nat
        /\ \A i \in DOMAIN queue : queue'[i] = queue[i]
        /\ queue'[Len(queue) + 1] = [cmd |-> "START", unit |-> u]
    BY PutLast, Zenon
  <1>1. queue'[Len(queue) + 1] = StartOf(w) => w = u
    BY <1>0 DEF StartOf
  <1>2. \A i \in DOMAIN queue' : queue'[i] = StartOf(w) =>
            (i \in DOMAIN queue /\ queue[i] = StartOf(w)) \/ (i = Len(queue) + 1 /\ w = u)
    BY <1>0, <1>1
  <1> QED BY <1>0, <1>2 DEF OneStart, Held

(* Taking the next command only moves a START from the queue, and what the *)
(* monitor task had before is no longer held.                              *)
LEMMA TakeNext ==
    ASSUME TypeOK, NEW w \in Units, queue # <<>>,
           monitor' = <<Head(queue)>>, queue' = Tail(queue), OneStart(w)
    PROVE  OneStart(w)' /\ (Held(StartOf(w))' => InQueue(StartOf(w)))
  <1>1. queue \in Seq(Commands)
    BY DEF TypeOK
  <1>2. /\ Len(queue) \in Nat /\ Len(queue) > 0
        /\ DOMAIN queue = 1 .. Len(queue)
        /\ Head(queue) = queue[1]
    BY <1>1
  <1>3. Len(queue') = Len(queue) - 1 /\ DOMAIN queue' = 1 .. Len(queue) - 1
    BY <1>1, <1>2
  <1>4. \A i \in 1 .. Len(queue) - 1 : queue'[i] = queue[i + 1]
    BY <1>1, <1>2
  <1>5. \A i \in DOMAIN queue' : i + 1 \in DOMAIN queue /\ i + 1 # 1 /\ queue'[i] = queue[i + 1]
    BY <1>2, <1>3, <1>4
  <1>6. Held(StartOf(w))' => InQueue(StartOf(w))
    BY <1>2, <1>5 DEF Held, InQueue, StartOf
  <1>7. OneStart(w)'
    <2>1. ASSUME monitor' = <<StartOf(w)>>, NEW i \in DOMAIN queue', queue'[i] = StartOf(w)
          PROVE  FALSE
      <3>1. queue[1] = StartOf(w) /\ queue[i + 1] = StartOf(w)
        BY <1>2, <1>5, <2>1
      <3> QED BY <1>2, <1>5, <3>1 DEF OneStart
    <2>2. ASSUME NEW i \in DOMAIN queue', NEW j \in DOMAIN queue',
                 queue'[i] = StartOf(w), queue'[j] = StartOf(w)
          PROVE  i = j
      <3>1. i + 1 = j + 1
        BY <1>5, <2>2 DEF OneStart
      <3> QED BY <1>3, <3>1, <1>2
    <2> QED BY <2>1, <2>2 DEF OneStart, StartOf
  <1> QED BY <1>6, <1>7

LEMMA DropTaken ==
    ASSUME TypeOK, NEW w \in Units, queue' = queue, monitor' = <<>>, OneStart(w)
    PROVE  OneStart(w)' /\ (Held(StartOf(w))' => InQueue(StartOf(w)))
  BY DEF TypeOK, OneStart, Held, InQueue, StartOf

LEMMA NextHeld ==
    ASSUME TypeOK, NEW w \in Units, NextCommand, OneStart(w)
    PROVE  OneStart(w)' /\ (Held(StartOf(w))' => InQueue(StartOf(w)))
  BY TakeNext, DropTaken DEF NextCommand

LEMMA SameHeld ==
    ASSUME NEW w \in Units, queue' = queue, monitor' = monitor, OneStart(w)
    PROVE  OneStart(w)' /\ (Held(StartOf(w))' => Held(StartOf(w)))
  BY DEF OneStart, Held, StartOf

-----------------------------------------------------------------------------
(* The inductive invariant, said of one unit. *)
UnitInv(w) ==
    /\ PlaceAgrees(w)
    /\ OneStart(w)
    /\ Held(StartOf(w)) => /\ added[w] = "yes" /\ pendingStart[w]
                          /\ ~task[w] /\ ~Live(w)
    /\ pendingStop[w] \/ force[w] => pendingStart[w] \/ Live(w)

LEMMA IInvByUnit == IInv <=> TypeOK /\ \A w \in Units : UnitInv(w)
  BY DEF IInv, UnitInv, StartIsFresh, NoStuckStop

(* start_unit_nowait on an added unit. *)
LEMMA StartKeepsInv ==
    ASSUME TypeOK, NEW u \in Units, NEW w \in Units, UnitInv(u), UnitInv(w),
           StartNowait(u), added'[u] = "yes", w # u => added'[w] = added[w],
           UNCHANGED <<at, cancel, pendingStop, force, task, monitor>>
    PROVE  UnitInv(w)'
  <1>1. CASE Put("START", u) /\ queue' # queue
    <2>1. /\ ~pendingStart[u] /\ status[u] \in {"READY", "STOPPED"}
          /\ status' = [status EXCEPT ![u] = "READY"]
          /\ pendingStart' = [pendingStart EXCEPT ![u] = TRUE]
      BY <1>1 DEF StartNowait
    <2>2. at[u] = "none" /\ ~task[u] /\ ~Held(StartOf(u))
      BY <2>1 DEF TypeOK, UnitInv, PlaceAgrees, Live, Places
    <2>3. OneStart(w)' /\ (Held(StartOf(w))' => Held(StartOf(w)) \/ w = u)
      BY <1>1, <2>2, PutStart DEF UnitInv
    <2>4. PlaceAgrees(w)'
      BY <2>1, <2>2 DEF TypeOK, UnitInv, PlaceAgrees, Live
    <2> QED BY <2>1, <2>2, <2>3, <2>4 DEF TypeOK, UnitInv, Live
  <1>2. CASE queue' = queue
    <2>1. OneStart(w)' /\ (Held(StartOf(w))' => Held(StartOf(w)))
      BY <1>2, SameHeld DEF UnitInv
    <2>2. PlaceAgrees(w)'
      BY <1>2 DEF TypeOK, StartNowait, UnitInv, PlaceAgrees, Live
    <2> QED BY <1>2, <2>1, <2>2 DEF TypeOK, StartNowait, UnitInv, Live
  <1> QED BY <1>1, <1>2 DEF StartNowait

(* stop_unit_nowait on an added unit. *)
LEMMA StopKeepsInv ==
    ASSUME TypeOK, NEW u \in Units, NEW w \in Units, NEW f \in BOOLEAN,
           UnitInv(u), UnitInv(w), StopNowait(u, f),
           UNCHANGED <<added, at, cancel, pendingStart, task, monitor>>
    PROVE  UnitInv(w)'
  <1>1. OneStart(w)' /\ (Held(StartOf(w))' => Held(StartOf(w)))
    BY PutStop, SameHeld DEF StopNowait, UnitInv
  <1>2. PlaceAgrees(w)'
    BY DEF TypeOK, StopNowait, AtRest, UnitInv, PlaceAgrees, Live
  <1>3. pendingStop'[w] \/ force'[w] => pendingStart[w] \/ Live(w)
    BY DEF TypeOK, StopNowait, AtRest, UnitInv, PlaceAgrees, Live
  <1> QED BY <1>1, <1>2, <1>3 DEF UnitInv, Live

(* A step that writes none of the variables the invariant reads. *)
LEMMA UnitSame ==
    ASSUME NEW w \in Units, UnitInv(w),
           UNCHANGED <<added, status, at, cancel, pendingStart, pendingStop,
                       force, task, queue, monitor>>
    PROVE  UnitInv(w)'
  BY DEF UnitInv, PlaceAgrees, OneStart, Held, StartOf, Live

(* A step that only moves or drops held commands. *)
LEMMA HeldLess ==
    ASSUME NEW w \in Units, UnitInv(w), OneStart(w)',
           Held(StartOf(w))' => Held(StartOf(w)),
           UNCHANGED <<added, status, at, cancel, pendingStart, pendingStop,
                       force, task>>
    PROVE  UnitInv(w)'
  BY DEF UnitInv, PlaceAgrees, Live

LEMMA InQueueHeld == \A w \in Units : InQueue(StartOf(w)) => Held(StartOf(w))
  BY DEF InQueue, Held

LEMMA LoopKeepsInv ==
    ASSUME TypeOK, NEW w \in Units, UnitInv(w),
           \/ EnterContext \/ ExitContext \/ AllStopped \/ SuperviseUntil
           \/ BeginWait \/ MonitorTake \/ EndIteration \/ CancelSupervise
           \/ Closed \/ \E event \in BOOLEAN : Wake(event)
    PROVE  UnitInv(w)'
  <1>1. CASE MonitorTake
    BY <1>1, TakeNext, InQueueHeld, HeldLess DEF MonitorTake, unitVars, UnitInv
  <1>2. CASE CancelSupervise
    BY <1>2, DropTaken, InQueueHeld, HeldLess DEF CancelSupervise, unitVars, UnitInv
  <1>3. CASE \/ EnterContext \/ ExitContext \/ AllStopped \/ SuperviseUntil
             \/ BeginWait \/ EndIteration \/ Closed
             \/ \E event \in BOOLEAN : Wake(event)
    BY <1>3, UnitSame DEF EnterContext, ExitContext, AllStopped, SuperviseUntil,
       BeginWait, EndIteration, Closed, Wake, unitVars
  <1> QED BY <1>1, <1>2, <1>3

LEMMA CallsKeepInv ==
    ASSUME TypeOK, NEW u \in Units, NEW w \in Units, UnitInv(u), UnitInv(w),
           Client(u) \/ StopOne(u) \/ RestartOne(u)
    PROVE  UnitInv(w)'
  <1>1. ASSUME NEW r \in BOOLEAN, NEW stopped \in BOOLEAN, AddUnit(u, r, stopped)
        PROVE  UnitInv(w)'
    <2>0. /\ added'[u] = "yes" /\ (w # u => added'[w] = added[w])
          /\ UNCHANGED <<at, cancel, pendingStop, force, task, monitor>>
      BY <1>1 DEF TypeOK, AddUnit, loopVars
    <2>1. CASE stopped
      <3>1. UNCHANGED <<status, pendingStart, queue>>
        BY <1>1, <2>1 DEF AddUnit
      <3>2. OneStart(w)' /\ (Held(StartOf(w))' => Held(StartOf(w)))
        BY <2>0, <3>1, SameHeld DEF UnitInv
      <3>3. added[w] = "yes" => added'[w] = "yes"
        BY <2>0
      <3> QED BY <2>0, <3>1, <3>2, <3>3 DEF UnitInv, PlaceAgrees, Live
    <2>2. CASE ~stopped
      BY <1>1, <2>0, <2>2, StartKeepsInv DEF AddUnit
    <2> QED BY <2>1, <2>2
  <1>2. CASE RemoveUnit(u)
    <2>1. ~Held(StartOf(u))
      BY <1>2 DEF RemoveUnit, UnitInv
    <2>2. OneStart(w)' /\ (Held(StartOf(w))' => Held(StartOf(w)))
      BY <1>2, SameHeld DEF RemoveUnit, loopVars, UnitInv
    <2>3. w # u => added'[w] = added[w]
      BY <1>2 DEF RemoveUnit, TypeOK
    <2> QED BY <1>2, <2>1, <2>2, <2>3 DEF RemoveUnit, UnitInv, PlaceAgrees, Live
  <1>3. CASE StartUnit(u) \/ RestartOne(u)
    BY <1>3, StartKeepsInv DEF StartUnit, RestartOne, LeftToRestart, loopVars
  <1>4. ASSUME NEW f \in BOOLEAN, StopUnit(u, f)
        PROVE  UnitInv(w)'
    BY <1>4, StopKeepsInv DEF StopUnit, loopVars
  <1>5. CASE StopOne(u)
    BY <1>5, StopKeepsInv DEF StopOne, loopVars
  <1> QED BY <1>1, <1>2, <1>3, <1>4, <1>5 DEF Client

LEMMA HandleKeepsInv ==
    ASSUME TypeOK, NEW u \in Units, NEW w \in Units, UnitInv(u), UnitInv(w),
           Handle(u) \/ Reap(u) \/ ReapFailed(u)
    PROVE  UnitInv(w)'
  <1>1. CASE HandleStart(u)
    <2>1. Held(StartOf(u)) /\ ~InQueue(StartOf(u))
      BY <1>1 DEF HandleStart, Handling, Held, StartOf, UnitInv, OneStart, InQueue
    <2>2. pendingStart[u] /\ ~Live(u)
      BY <2>1 DEF UnitInv
    <2>3. status[u] = "READY"
      BY <2>2 DEF UnitInv, PlaceAgrees, Live
    <2>4. OneStart(w)' /\ (Held(StartOf(w))' => InQueue(StartOf(w)))
      BY <1>1, NextHeld DEF HandleStart, UnitInv
    <2>5. CASE w = u
      BY <1>1, <2>1, <2>2, <2>3, <2>4, <2>5 DEF HandleStart, TypeOK, UnitInv, PlaceAgrees, Live
    <2>6. CASE w # u
      BY <1>1, <2>4, <2>6, InQueueHeld DEF HandleStart, TypeOK, UnitInv, PlaceAgrees, Live
    <2> QED BY <2>5, <2>6
  <1>2. CASE HandleStop(u)
    <2>1. OneStart(w)' /\ (Held(StartOf(w))' => Held(StartOf(w)))
      BY <1>2, NextHeld, InQueueHeld DEF HandleStop, UnitInv
    <2>2. at[u] # "created"
      BY <1>2 DEF HandleStop, Deferred, UnitInv, PlaceAgrees
    <2>3. PlaceAgrees(w)'
      BY <1>2, <2>2 DEF HandleStop, TypeOK, UnitInv, PlaceAgrees, Live
    <2> QED BY <1>2, <2>1, <2>3 DEF HandleStop, UnitInv, Live
  <1>3. CASE DeferStop(u)
    BY <1>3, NextHeld, InQueueHeld, HeldLess DEF DeferStop, unitVars, UnitInv
  <1>4. CASE Refuse(u) \/ ReapFailed(u)
    BY <1>4, DropTaken, InQueueHeld, HeldLess
       DEF Refuse, ReapFailed, Crash, unitVars, UnitInv
  <1>5. CASE Reap(u)
    <2>1. OneStart(w)' /\ (Held(StartOf(w))' => Held(StartOf(w)))
      BY <1>5, SameHeld DEF Reap, UnitInv
    <2>2. task'[w] => task[w]
      BY <1>5 DEF Reap, TypeOK
    <2> QED BY <1>5, <2>1, <2>2 DEF Reap, UnitInv, PlaceAgrees, Live
  <1> QED BY <1>1, <1>2, <1>3, <1>4, <1>5 DEF Handle

LEMMA TaskKeepsInv ==
    ASSUME TypeOK, NEW u \in Units, NEW w \in Units, UnitInv(u), UnitInv(w),
           RunUnit(u)
    PROVE  UnitInv(w)'
  <1>0. Live(u) /\ ~Held(StartOf(u))
    BY DEF RunUnit, Begin, Entered, RunReturns, Failed, Exited, UnitInv, Live
  <1>1. OneStart(w)' /\ (Held(StartOf(w))' => Held(StartOf(w)))
    BY SameHeld DEF RunUnit, Begin, Entered, RunReturns, Failed, Exited, loopVars, UnitInv
  <1>2. CASE Begin(u)
    BY <1>0, <1>1, <1>2 DEF Begin, ToExit, TypeOK, UnitInv, PlaceAgrees, Live
  <1>3. CASE Entered(u)
    BY <1>0, <1>1, <1>3 DEF Entered, ToExit, TypeOK, UnitInv, PlaceAgrees, Live
  <1>4. CASE RunReturns(u) \/ \E outcome \in Results : Failed(u, outcome)
    BY <1>0, <1>1, <1>4 DEF RunReturns, Failed, ToExit, TypeOK, UnitInv, PlaceAgrees, Live
  <1>5. CASE \E outcome \in Results : Exited(u, outcome)
    BY <1>0, <1>1, <1>5 DEF Exited, FinalStatus, TypeOK, UnitInv, PlaceAgrees, Live
  <1> QED BY <1>2, <1>3, <1>4, <1>5 DEF RunUnit

-----------------------------------------------------------------------------
LEMMA InitInv == Init => IInv
  <1> SUFFICES ASSUME Init PROVE IInv
    OBVIOUS
  <1>1. TypeOK
    BY InitType
  <1>2. ASSUME NEW w \in Units PROVE UnitInv(w)
    BY DEF Init, UnitInv, PlaceAgrees, OneStart, Held, StartOf, Live
  <1> QED BY <1>1, <1>2, IInvByUnit

LEMMA NextKeepsInv == IInv /\ [Next]_vars => IInv'
  <1> SUFFICES ASSUME TypeOK, \A w \in Units : UnitInv(w), [Next]_vars
               PROVE  TypeOK' /\ \A w \in Units : UnitInv(w)'
    BY DEF IInv, UnitInv, StartIsFresh, NoStuckStop
  <1>1. TypeOK'
    BY NextKeepsType
  <1>2. ASSUME NEW w \in Units PROVE UnitInv(w)'
    <2>1. CASE UNCHANGED vars
      BY <2>1, UnitSame DEF vars, unitVars, loopVars
    <2>2. CASE Next
      BY <2>2, CallsKeepInv, LoopKeepsInv, HandleKeepsInv, TaskKeepsInv
         DEF Next, Supervise
    <2> QED BY <2>1, <2>2
  <1> QED BY <1>1, <1>2

(* The inductive invariant holds: status, flags and held commands always   *)
(* describe the place the unit's task has reached.                         *)
THEOREM InvariantHolds == Spec => []IInv
  BY InitInv, NextKeepsInv, PTL DEF Spec

(* "is already running" is never raised: a START that is held finds its    *)
(* unit added and without a task.                                          *)
THEOREM StartsAreFresh == Spec => []StartIsFresh
  <1>1. IInv => StartIsFresh
    BY DEF IInv
  <1> QED BY <1>1, InvariantHolds, PTL

(* A unit at rest never has a stop pending that refuses every start.       *)
THEOREM NoStopIsStuck == Spec => []NoStuckStop
  <1>1. IInv => NoStuckStop
    BY DEF IInv
  <1> QED BY <1>1, InvariantHolds, PTL

(* A task is never cancelled before its first step. *)
THEOREM NoCancelIsEarly == Spec => []NoEarlyCancel
  <1>1. IInv => NoEarlyCancel
    BY DEF IInv, PlaceAgrees, NoEarlyCancel
  <1> QED BY <1>1, InvariantHolds, PTL

(* A new task of a unit is created only when none of it is alive: every    *)
(* __aenter__ is followed by its __aexit__ before the next one.            *)
THEOREM OneTaskAtATime == Spec => NoSecondTask
  <1> DEFINE Kept(u) == at'[u] = "created" => at[u] \in {"none", "created"}
  <1>1. IInv /\ [Next]_vars => [\A u \in Units : Kept(u)]_vars
    <2> SUFFICES ASSUME TypeOK, \A w \in Units : UnitInv(w), Next, NEW u \in Units
                 PROVE  Kept(u)
      BY IInvByUnit
    <2>1. ASSUME NEW v \in Units, HandleStart(v) PROVE Kept(u)
      <3>1. Held(StartOf(v))
        BY <2>1 DEF HandleStart, Handling, Held, StartOf
      <3>2. at[v] = "none"
        BY <3>1 DEF UnitInv, Live
      <3> QED BY <2>1, <3>2 DEF HandleStart, TypeOK
    <2>2. ASSUME NEW v \in Units, RunUnit(v) PROVE Kept(u)
      BY <2>2 DEF RunUnit, Begin, Entered, RunReturns, Failed, Exited, ToExit, TypeOK
    <2>3. CASE at' = at
      BY <2>3
    <2>4. \/ at' = at
          \/ \E v \in Units : HandleStart(v) \/ RunUnit(v)
      BY DEF Next, Supervise, Client, AddUnit, RemoveUnit, StartUnit, StopUnit,
         EnterContext, ExitContext, AllStopped, SuperviseUntil, BeginWait,
         MonitorTake, EndIteration, CancelSupervise, Closed, Wake, StopOne,
         RestartOne, Handle, DeferStop, HandleStop, Refuse,
         Reap, ReapFailed, unitVars
    <2> QED BY <2>1, <2>2, <2>3, <2>4
  <1> QED BY <1>1, InvariantHolds, PTL DEF NoSecondTask, Spec

-----------------------------------------------------------------------------
(* The supervisor implements the lifecycle that UnitLifecycle promises. *)

LEMMA CallsImplement ==
    ASSUME TypeOK, NEW u \in Units, UnitInv(u),
           Client(u) \/ StopOne(u) \/ RestartOne(u)
    PROVE  Lifecycle!Next \/ UNCHANGED Lifecycle!lifeVars
  <1> USE DEF Lifecycle!Next, Lifecycle!lifeVars, Lifecycle!Move
  <1>1. ASSUME NEW r \in BOOLEAN, NEW stopped \in BOOLEAN, AddUnit(u, r, stopped)
        PROVE  Lifecycle!Add(u)
    BY <1>1 DEF AddUnit, StartNowait, TypeOK, UnitInv, PlaceAgrees, Live, Lifecycle!Add
  <1>2. CASE RemoveUnit(u)
    BY <1>2 DEF RemoveUnit, Lifecycle!Remove
  <1>3. CASE StartUnit(u) \/ RestartOne(u)
    <2>1. added[u] = "yes" /\ UNCHANGED <<added, restart, pendingStop>> /\ StartNowait(u)
      BY <1>3 DEF StartUnit, RestartOne, LeftToRestart
    <2>2. CASE status' = status
      BY <2>1, <2>2
    <2>3. CASE status' # status
      BY <2>1, <2>3 DEF StartNowait, TypeOK, Lifecycle!AskStart
    <2> QED BY <2>2, <2>3
  <1>4. ASSUME NEW f \in BOOLEAN, StopUnit(u, f) \/ (f /\ StopOne(u))
        PROVE  Lifecycle!Next \/ UNCHANGED Lifecycle!lifeVars
    <2>1. added[u] = "yes" /\ UNCHANGED <<added, restart>> /\ StopNowait(u, f)
      BY <1>4 DEF StopUnit, StopOne, LeftToStop
    <2>2. CASE AtRest(u) /\ status[u] = "READY"
      <3>1. ~pendingStop[u]
        BY <2>2 DEF AtRest, UnitInv, PlaceAgrees, Live, TypeOK, Places
      <3> QED BY <2>1, <2>2, <3>1 DEF StopNowait, Lifecycle!AskStop
    <2>3. CASE AtRest(u) /\ status[u] = "STOPPED"
      BY <2>1, <2>3 DEF StopNowait, TypeOK
    <2>4. CASE ~AtRest(u)
      <3>1. status[u] # "STOPPED"
        BY <2>4 DEF AtRest, UnitInv, PlaceAgrees
      <3> QED BY <2>1, <2>4, <3>1 DEF StopNowait, Lifecycle!AskStop
    <2> QED BY <2>2, <2>3, <2>4 DEF AtRest
  <1> QED BY <1>1, <1>2, <1>3, <1>4 DEF Client

LEMMA TaskImplements ==
    ASSUME TypeOK, NEW u \in Units, UnitInv(u), RunUnit(u)
    PROVE  Lifecycle!Next
  <1> USE DEF Lifecycle!Next, Lifecycle!Move
  <1>1. CASE Begin(u)
    BY <1>1 DEF Begin, ToExit, TypeOK, UnitInv, PlaceAgrees, Lifecycle!Enter, Lifecycle!Leave
  <1>2. CASE Entered(u)
    BY <1>2 DEF Entered, ToExit, TypeOK, UnitInv, PlaceAgrees, Lifecycle!Run, Lifecycle!Leave
  <1>3. CASE RunReturns(u) \/ \E outcome \in Results : Failed(u, outcome)
    BY <1>3 DEF RunReturns, Failed, ToExit, UnitInv, PlaceAgrees, Lifecycle!Leave
  <1>4. CASE \E outcome \in Results : Exited(u, outcome)
    BY <1>4 DEF Exited, FinalStatus, UnitInv, PlaceAgrees, Lifecycle!Finish
  <1> QED BY <1>1, <1>2, <1>3, <1>4 DEF RunUnit

(* Every other step leaves the lifecycle unchanged. *)
LEMMA RestStutters ==
    ASSUME \/ UNCHANGED vars
           \/ Supervise /\ ~\E u \in Units : StopOne(u) \/ RestartOne(u)
    PROVE  UNCHANGED Lifecycle!lifeVars
  BY DEF Supervise, EnterContext, ExitContext, AllStopped, SuperviseUntil,
     BeginWait, MonitorTake, EndIteration, CancelSupervise, Closed, Wake,
     Handle, HandleStart, DeferStop, HandleStop, Refuse,
     Reap, ReapFailed, vars, unitVars, Lifecycle!lifeVars

(* For each unit: only the status changes of the docstring, STOPPED left   *)
(* only by a client's start, and an asked stop that always ends STOPPED.   *)
THEOREM ImplementsLifecycle == Spec => LifecycleSpec
  <1>1. Init => Lifecycle!Init
    BY DEF Init, Lifecycle!Init
  <1>2. IInv /\ [Next]_vars => [Lifecycle!Next]_(Lifecycle!lifeVars)
    <2> SUFFICES ASSUME TypeOK, \A w \in Units : UnitInv(w), [Next]_vars
                 PROVE  Lifecycle!Next \/ UNCHANGED Lifecycle!lifeVars
      BY IInvByUnit
    <2>1. ASSUME NEW u \in Units, Client(u) \/ StopOne(u) \/ RestartOne(u)
          PROVE  Lifecycle!Next \/ UNCHANGED Lifecycle!lifeVars
      BY <2>1, CallsImplement
    <2>2. ASSUME NEW u \in Units, RunUnit(u)
          PROVE  Lifecycle!Next
      BY <2>2, TaskImplements
    <2> QED BY <2>1, <2>2, RestStutters DEF Next
  <1> QED BY <1>1, <1>2, InvariantHolds, PTL DEF Spec, LifecycleSpec, Lifecycle!Spec

-----------------------------------------------------------------------------
(* Leaving the context. *)

Left == ctx = "out" \/ (ctx = "exiting" /\ loop = "closing")

(* Outside the context the supervising task does nothing, and once it is   *)
(* on its way out without an exception no unit is left.                    *)
ExitInv ==
    /\ ctx = "out" => loop = "idle"
    /\ Left /\ raised = "none" => \A u \in Units : ~Registered(u)

LEMMA UnitsKeepExit ==
    ASSUME TypeOK, ExitInv, NEW u \in Units, Client(u) \/ RunUnit(u)
    PROVE  ExitInv'
  <1>1. UNCHANGED <<loop, raised, ctx>>
    BY DEF Client, AddUnit, RemoveUnit, StartUnit, StopUnit,
       RunUnit, Begin, Entered, RunReturns, Failed, Exited, loopVars
  <1>2. CASE Client(u)
    <2>1. UNCHANGED <<at, finished>>
      BY <1>2 DEF Client, AddUnit, RemoveUnit, StartUnit, StopUnit
    <2> QED BY <1>1, <2>1 DEF ExitInv, Left, Registered, Live
  <1>3. CASE RunUnit(u)
    <2>1. Registered(u)
      BY <1>3 DEF RunUnit, Begin, Entered, RunReturns, Failed, Exited, Registered, Live
    <2> QED BY <1>1, <2>1 DEF ExitInv, Left
  <1> QED BY <1>2, <1>3

LEMMA LoopKeepsExit ==
    ASSUME TypeOK, ExitInv, Supervise
    PROVE  ExitInv'
  <1> USE DEF ExitInv, Left, Registered, Live
  <1>1. CASE EnterContext \/ ExitContext \/ SuperviseUntil \/ BeginWait \/ MonitorTake
    BY <1>1 DEF EnterContext, ExitContext, SuperviseUntil, BeginWait, MonitorTake, unitVars
  <1>2. CASE AllStopped
    BY <1>2 DEF AllStopped, unitVars
  <1>3. CASE EndIteration
    BY <1>3 DEF EndIteration, Satisfied, unitVars, TypeOK
  <1>4. CASE CancelSupervise \/ Closed
    BY <1>4, ConstantsAssumption DEF CancelSupervise, Closed, unitVars, TypeOK
  <1>5. ASSUME NEW event \in BOOLEAN, Wake(event)
        PROVE  ExitInv'
    BY <1>5 DEF Wake, unitVars
  <1>6. ASSUME NEW u \in Units, StopOne(u) \/ RestartOne(u) \/ Handle(u) \/ Reap(u) \/ ReapFailed(u)
        PROVE  ExitInv'
    <2>1. CASE StopOne(u) \/ RestartOne(u)
      BY <2>1 DEF StopOne, RestartOne, loopVars
    <2>2. CASE HandleStart(u) \/ DeferStop(u) \/ HandleStop(u)
      BY <2>2 DEF HandleStart, DeferStop, HandleStop, Handling, NextCommand
    <2>3. CASE Refuse(u) \/ ReapFailed(u)
      BY <2>3 DEF Refuse, ReapFailed, Handling, Crash
    <2>4. CASE Reap(u)
      BY <2>4 DEF Reap
    <2> QED BY <1>6, <2>1, <2>2, <2>3, <2>4 DEF Handle
  <1> QED BY <1>1, <1>2, <1>3, <1>4, <1>5, <1>6 DEF Supervise

(* A context that was left without an exception has no unit alive, and no  *)
(* task that was not collected.                                            *)
THEOREM ExitsAreClean == Spec => []CleanExit
  <1>1. Init => ExitInv
    BY DEF Init, ExitInv, Left, Registered, Live
  <1>2. TypeOK /\ ExitInv /\ [Next]_vars => ExitInv'
    <2>1. CASE UNCHANGED vars
      BY <2>1 DEF ExitInv, Left, Registered, Live, vars, unitVars, loopVars
    <2> QED BY <2>1, UnitsKeepExit, LoopKeepsExit DEF Next
  <1>3. ExitInv => CleanExit
    BY DEF ExitInv, Left, CleanExit
  <1> QED BY <1>1, <1>2, <1>3, TypeCorrect, PTL DEF Spec

-----------------------------------------------------------------------------
(* Starts that were accepted, when the supervising task is not cancelled.  *)

Promised(w) ==
    pendingStart[w] => \/ Held(StartOf(w))
                       \/ at[w] \in {"created", "forcedStop", "entering"}

(* The monitor task has a command only until the loop has handled it.      *)
MonitorEmpty == loop \notin {"wait", "drain"} => monitor = <<>>

PromiseInv == MonitorEmpty /\ \A w \in Units : Promised(w)

LEMMA PutKeepsHeld ==
    ASSUME TypeOK, NEW u \in Units, NEW command \in {"START", "STOP"},
           Put(command, u), monitor' = monitor, NEW c
    PROVE  /\ Held(c) => Held(c)'
           /\ Held([cmd |-> command, unit |-> u])'
  <1>1. /\ DOMAIN queue = 1 .. Len(queue)
        /\ DOMAIN queue' = 1 .. Len(queue) + 1
        /\ Len(queue) \in Nat
        /\ \A i \in DOMAIN queue : queue'[i] = queue[i]
        /\ queue'[Len(queue) + 1] = [cmd |-> command, unit |-> u]
    BY PutLast, Zenon
  <1>2. \A i \in DOMAIN queue : i \in DOMAIN queue' /\ queue'[i] = queue[i]
    BY <1>1
  <1>3. Len(queue) + 1 \in DOMAIN queue'
    BY <1>1
  <1> QED BY <1>1, <1>2, <1>3 DEF Held

LEMMA TakeKeepsHeld ==
    ASSUME TypeOK, queue # <<>>, monitor' = <<Head(queue)>>, queue' = Tail(queue),
           NEW c, InQueue(c)
    PROVE  Held(c)'
  <1>1. queue \in Seq(Commands)
    BY DEF TypeOK
  <1>2. PICK i \in DOMAIN queue : queue[i] = c
    BY DEF InQueue
  <1>3. /\ Len(queue) \in Nat /\ DOMAIN queue = 1 .. Len(queue)
        /\ DOMAIN queue' = 1 .. Len(queue) - 1
        /\ Head(queue) = queue[1]
        /\ \A x \in 1 .. Len(queue) - 1 : queue'[x] = queue[x + 1]
    BY <1>1
  <1>4. CASE i = 1
    BY <1>2, <1>3, <1>4 DEF Held
  <1>5. CASE i # 1
    <2>1. i - 1 \in DOMAIN queue' /\ queue'[i - 1] = queue[i]
      BY <1>3, <1>5
    <2> QED BY <1>2, <2>1 DEF Held
  <1> QED BY <1>4, <1>5

(* Going on to the next command loses none of those in the queue. *)
LEMMA NextKeepsHeld ==
    ASSUME TypeOK, NextCommand, NEW c, InQueue(c)
    PROVE  Held(c)'
  <1>1. queue # <<>>
    BY DEF InQueue
  <1> QED BY <1>1, TakeKeepsHeld DEF NextCommand

LEMMA HeldWhere ==
    ASSUME NEW c, Held(c)
    PROVE  InQueue(c) \/ monitor = <<c>>
  BY DEF Held, InQueue

LEMMA UnitsKeepPromise ==
    ASSUME IInv, PromiseInv, NEW u \in Units,
           Client(u) \/ StopOne(u) \/ RestartOne(u) \/ RunUnit(u)
    PROVE  PromiseInv'
  <1>0. TypeOK
    BY DEF IInv
  <1>1. MonitorEmpty'
    BY DEF PromiseInv, MonitorEmpty, Client, AddUnit, RemoveUnit, StartUnit, StopUnit,
       StopOne, RestartOne, RunUnit, Begin, Entered, RunReturns, Failed, Exited, loopVars
  <1>2. ASSUME NEW w \in Units PROVE Promised(w)'
    <2>0. Promised(w) /\ UnitInv(u) /\ UnitInv(w)
      BY IInvByUnit DEF PromiseInv
    <2>1. CASE StartNowait(u) /\ at' = at /\ monitor' = monitor
      <3>1. CASE Put("START", u)
        <4>1. w # u => pendingStart'[w] = pendingStart[w]
          BY <1>0, <2>1 DEF StartNowait, TypeOK
        <4>2. /\ Held(StartOf(w)) => Held(StartOf(w))'
              /\ Held(StartOf(u))'
          BY <1>0, <2>1, <3>1, PutKeepsHeld DEF StartOf
        <4> QED BY <2>0, <2>1, <4>1, <4>2 DEF Promised
      <3>2. CASE ~Put("START", u)
        <4>1. queue' = queue /\ (pendingStart'[w] => pendingStart[w])
          BY <1>0, <2>1, <3>2 DEF StartNowait, TypeOK
        <4> QED BY <2>0, <2>1, <4>1 DEF Promised, Held, StartOf
      <3> QED BY <3>1, <3>2
    <2>2. ASSUME NEW f \in BOOLEAN, StopNowait(u, f),
                 UNCHANGED <<at, pendingStart, monitor>>
          PROVE  Promised(w)'
      <3>1. Held(StartOf(w)) => Held(StartOf(w))'
        <4>1. CASE Put("STOP", u)
          BY <1>0, <2>2, <4>1, PutKeepsHeld
        <4>2. CASE queue' = queue
          BY <2>2, <4>2 DEF Held, StartOf
        <4> QED BY <2>2, <4>1, <4>2 DEF StopNowait
      <3> QED BY <2>0, <2>2, <3>1 DEF Promised
    <2>3. CASE UNCHANGED <<at, pendingStart, queue, monitor>>
      BY <2>0, <2>3 DEF Promised, Held, StartOf
    <2>4. CASE RunUnit(u)
      <3>1. UNCHANGED <<queue, monitor>>
        BY <2>4 DEF RunUnit, Begin, Entered, RunReturns, Failed, Exited, loopVars
      <3>2. pendingStart'[w] => pendingStart[w]
        BY <1>0, <2>4 DEF RunUnit, Begin, Entered, RunReturns, Failed, Exited, ToExit, TypeOK
      <3>3. w # u => at'[w] = at[w]
        BY <1>0, <2>4 DEF RunUnit, Begin, Entered, RunReturns, Failed, Exited, ToExit, TypeOK
      <3>4. pendingStart'[u] => at'[u] \in {"forcedStop", "entering"}
        BY <1>0, <2>0, <2>4 DEF RunUnit, Begin, Entered, RunReturns, Failed, Exited, ToExit,
           TypeOK, UnitInv, PlaceAgrees
      <3> QED BY <2>0, <3>1, <3>2, <3>3, <3>4 DEF Promised, Held, StartOf
    <2> QED BY <2>1, <2>2, <2>3, <2>4
         DEF Client, AddUnit, RemoveUnit, StartUnit, StopUnit, StopOne, RestartOne, loopVars
  <1> QED BY <1>1, <1>2 DEF PromiseInv

LEMMA LoopKeepsPromise ==
    ASSUME IInv, PromiseInv, CancelIn = {},
           \/ EnterContext \/ ExitContext \/ AllStopped \/ SuperviseUntil
           \/ BeginWait \/ MonitorTake \/ EndIteration \/ CancelSupervise
           \/ Closed \/ \E event \in BOOLEAN : Wake(event)
    PROVE  PromiseInv'
  <1>0. TypeOK
    BY DEF IInv
  <1>1. CASE MonitorTake
    <2>1. ASSUME NEW w \in Units PROVE Promised(w)'
      <3>1. Held(StartOf(w)) => InQueue(StartOf(w))
        BY <1>1, HeldWhere DEF MonitorTake
      <3>2. Held(StartOf(w)) => Held(StartOf(w))'
        BY <1>0, <1>1, <3>1, TakeKeepsHeld DEF MonitorTake
      <3> QED BY <1>1, <3>2 DEF MonitorTake, PromiseInv, Promised, unitVars
    <2>2. MonitorEmpty'
      BY <1>1 DEF MonitorTake, MonitorEmpty
    <2> QED BY <2>1, <2>2 DEF PromiseInv
  <1>2. ASSUME \/ EnterContext \/ ExitContext \/ AllStopped \/ SuperviseUntil
               \/ BeginWait \/ EndIteration \/ Closed
               \/ \E event \in BOOLEAN : Wake(event)
        PROVE  PromiseInv'
    <2>1. UNCHANGED <<at, pendingStart, queue, monitor>> /\ MonitorEmpty'
      BY <1>2 DEF EnterContext, ExitContext, AllStopped, SuperviseUntil, BeginWait,
         EndIteration, Closed, Wake, unitVars, PromiseInv, MonitorEmpty
    <2> QED BY <2>1 DEF PromiseInv, Promised, Held, StartOf
  <1>3. ~CancelSupervise
    BY DEF CancelSupervise
  <1> QED BY <1>1, <1>2, <1>3

LEMMA HandleKeepsPromise ==
    ASSUME IInv, PromiseInv, NEW u \in Units, Handle(u) \/ Reap(u) \/ ReapFailed(u)
    PROVE  PromiseInv'
  <1>0. TypeOK
    BY DEF IInv
  <1>1. ASSUME NEW command \in {"START", "STOP"}, Handling(command, u), NextCommand,
               pendingStart' = pendingStart,
               \A w \in Units : at[w] \in {"created", "forcedStop", "entering"} => at'[w] = at[w],
               command = "START" => at'[u] = "created"
        PROVE  PromiseInv'
    <2>1. MonitorEmpty'
      BY <1>1 DEF Handling, NextCommand, MonitorEmpty
    <2>2. ASSUME NEW w \in Units PROVE Promised(w)'
      <3>1. InQueue(StartOf(w)) => Held(StartOf(w))'
        BY <1>0, <1>1, NextKeepsHeld
      <3>2. monitor = <<StartOf(w)>> => command = "START" /\ w = u
        BY <1>1 DEF Handling, StartOf
      <3> QED BY <1>1, <3>1, <3>2, HeldWhere DEF PromiseInv, Promised
    <2> QED BY <2>1, <2>2 DEF PromiseInv
  <1>2. CASE HandleStart(u)
    <2>1. Held(StartOf(u))
      BY <1>2 DEF HandleStart, Handling, Held, StartOf
    <2>2. at[u] = "none"
      BY <2>1, IInvByUnit DEF UnitInv, Live
    <2>3. /\ Handling("START", u) /\ NextCommand /\ pendingStart' = pendingStart
          /\ \A w \in Units : at[w] \in {"created", "forcedStop", "entering"} => at'[w] = at[w]
          /\ at'[u] = "created"
      BY <1>0, <1>2, <2>2 DEF HandleStart, TypeOK
    <2> QED BY <1>1, <2>3
  <1>3. CASE DeferStop(u) \/ HandleStop(u)
    <2>1. /\ Handling("STOP", u) /\ NextCommand /\ pendingStart' = pendingStart
          /\ at' = at
      BY <1>3 DEF DeferStop, HandleStop, unitVars
    <2> QED BY <1>1, <2>1
  <1>4. CASE Refuse(u)
    <2>1. \A w \in Units : monitor # <<StartOf(w)>>
      <3> SUFFICES ASSUME NEW w \in Units, monitor = <<StartOf(w)>>
                   PROVE  FALSE
        OBVIOUS
      <3>1. w = u /\ Refused("START", u)
        BY <1>4 DEF Refuse, Handling, StartOf
      <3>2. Held(StartOf(u))
        BY <3>1 DEF Held
      <3> QED BY <3>1, <3>2, IInvByUnit DEF UnitInv, Refused
    <2>2. MonitorEmpty' /\ UNCHANGED <<at, pendingStart, queue>>
      BY <1>4 DEF Refuse, Crash, MonitorEmpty, unitVars
    <2> QED BY <2>1, <2>2 DEF PromiseInv, Promised, Held, StartOf
  <1>5. CASE Reap(u) \/ ReapFailed(u)
    <2>1. monitor = <<>> /\ monitor' = <<>>
      BY <1>5 DEF Reap, ReapFailed, Crash, PromiseInv, MonitorEmpty
    <2>2. UNCHANGED <<at, pendingStart, queue>>
      BY <1>5 DEF Reap, ReapFailed, Crash, unitVars
    <2> QED BY <2>1, <2>2 DEF PromiseInv, Promised, Held, StartOf, MonitorEmpty
  <1> QED BY <1>2, <1>3, <1>4, <1>5 DEF Handle

LEMMA NextKeepsPromise ==
    ASSUME CancelIn = {}, IInv, PromiseInv, [Next]_vars
    PROVE  PromiseInv'
  <1>1. CASE UNCHANGED vars
    BY <1>1 DEF PromiseInv, MonitorEmpty, Promised, Held, StartOf, vars, unitVars, loopVars
  <1> QED BY <1>1, UnitsKeepPromise, LoopKeepsPromise, HandleKeepsPromise DEF Next, Supervise

(* Unless the supervising task is cancelled with a command in the hands of *)
(* its monitor, no accepted start is lost on its way to the unit's task.   *)
THEOREM StartsAreKept == CancelIn = {} => (Spec => []StartPromise)
  <1> SUFFICES ASSUME CancelIn = {} PROVE Spec => []StartPromise
    OBVIOUS
  <1>1. Init => PromiseInv
    BY DEF Init, PromiseInv, MonitorEmpty, Promised
  <1>2. IInv /\ PromiseInv /\ [Next]_vars => PromiseInv'
    BY NextKeepsPromise
  <1>3. PromiseInv => StartPromise
    BY DEF PromiseInv, Promised, StartPromise
  <1> QED BY <1>1, <1>2, <1>3, InvariantHolds, PTL DEF Spec

-----------------------------------------------------------------------------
(* Stops that were accepted, when the supervising task is not cancelled.   *)

Kept(w) ==
    pendingStop[w] /\ ~Orphan(w) =>
        \/ Held(StopOf(w)) \/ Held(StartOf(w))
        \/ cancel[w] \/ at[w] \in {"created", "exiting"}
        \/ at[w] = "entering" /\ ~force[w]

(* A task that has cancelled itself still has to see it, and what runs of  *)
(* a unit that was removed is an orphan.                                   *)
StopInv ==
    \A w \in Units :
        /\ Kept(w)
        /\ at[w] = "forcedStop" => cancel[w]
        /\ added[w] = "removed" => ~task[w]

LEMMA CallsKeepStops ==
    ASSUME IInv, StopInv, NEW u \in Units, Client(u) \/ StopOne(u) \/ RestartOne(u)
    PROVE  StopInv'
  <1>0. TypeOK /\ \A w \in Units : UnitInv(w)
    BY IInvByUnit
  <1>1. UNCHANGED <<at, cancel, task, monitor>>
    BY DEF Client, AddUnit, RemoveUnit, StartUnit, StopUnit, StopOne, RestartOne, loopVars
  <1>2. \/ StartNowait(u) /\ UNCHANGED <<pendingStop, force>>
        \/ UNCHANGED <<queue, pendingStop, force>>
        \/ \E f \in BOOLEAN : StopNowait(u, f)
    BY DEF Client, AddUnit, RemoveUnit, StartUnit, StopUnit, StopOne, RestartOne
  <1>3. ASSUME NEW c, Held(c) PROVE Held(c)'
    <2>1. CASE queue' = queue
      BY <1>1, <1>3, <2>1 DEF Held
    <2>2. ASSUME NEW command \in {"START", "STOP"}, Put(command, u) PROVE Held(c)'
      BY <1>0, <1>1, <1>3, <2>2, PutKeepsHeld
    <2> QED BY <1>2, <2>1, <2>2 DEF StartNowait, StopNowait
  <1>4. ASSUME NEW w \in Units PROVE added'[w] = "removed" => ~task[w]
    BY <1>0 DEF StopInv, Client, AddUnit, RemoveUnit, StartUnit, StopUnit, StopOne,
       RestartOne, TypeOK
  <1>5. ASSUME NEW w \in Units PROVE Kept(w)'
    <2>1. CASE pendingStop'[w] = pendingStop[w] /\ force'[w] = force[w]
      <3>1. Held(StopOf(w)) => Held(StopOf(w))'
        BY <1>3
      <3>2. Held(StartOf(w)) => Held(StartOf(w))'
        BY <1>3
      <3> QED BY <1>1, <2>1, <3>1, <3>2 DEF StopInv, Kept, Orphan, Live
    <2>2. ASSUME NEW f \in BOOLEAN, StopNowait(u, f) PROVE Kept(w)'
      <3>1. CASE w # u \/ AtRest(u) \/ pendingStop[u]
        <4>1. pendingStop'[w] = pendingStop[w] /\ force'[w] = force[w]
          BY <1>0, <2>2, <3>1 DEF StopNowait, TypeOK
        <4> QED BY <2>1, <4>1
      <3>2. CASE w = u /\ status[u] = "EXITING"
        <4>1. at[u] = "exiting"
          BY <1>0, <3>2 DEF UnitInv, PlaceAgrees, TypeOK, Places
        <4> QED BY <1>1, <3>2, <4>1 DEF Kept
      <3>3. CASE w = u /\ ~AtRest(u) /\ ~pendingStop[u] /\ status[u] # "EXITING"
        <4>1. Put("STOP", u)
          BY <2>2, <3>3 DEF StopNowait
        <4>2. Held(StopOf(u))'
          BY <1>0, <1>1, <4>1, PutKeepsHeld DEF StopOf
        <4> QED BY <3>3, <4>2 DEF Kept
      <3> QED BY <3>1, <3>2, <3>3
    <2> QED BY <1>2, <2>1, <2>2
  <1>6. \A w \in Units : at[w] = "forcedStop" => cancel[w]
    BY DEF StopInv
  <1> QED BY <1>1, <1>4, <1>5, <1>6, Zenon DEF StopInv

LEMMA TaskKeepsStops ==
    ASSUME IInv, StopInv, NEW u \in Units, RunUnit(u)
    PROVE  StopInv'
  <1>0. TypeOK /\ \A w \in Units : UnitInv(w)
    BY IInvByUnit
  <1>1. UNCHANGED <<added, queue, monitor>>
    BY DEF RunUnit, Begin, Entered, RunReturns, Failed, Exited, loopVars
  <1>2. ASSUME NEW w \in Units, w # u
        PROVE  /\ at'[w] = at[w] /\ cancel'[w] = cancel[w] /\ task'[w] = task[w]
               /\ pendingStop'[w] = pendingStop[w] /\ force'[w] = force[w]
    BY <1>0, <1>2 DEF RunUnit, Begin, Entered, RunReturns, Failed, Exited, ToExit, TypeOK
  <1>3. /\ \/ at'[u] = "exiting"
           \/ at'[u] \in {"forcedStop", "stopBeforeRun"} /\ cancel'[u]
           \/ at'[u] = "entering" /\ ~(pendingStop'[u] /\ force'[u])
           \/ at'[u] \in {"running", "none"} /\ ~pendingStop'[u]
        /\ task'[u] => task[u]
    BY <1>0 DEF RunUnit, Begin, Entered, RunReturns, Failed, Exited, ToExit, TypeOK
  <1>4. ASSUME NEW w \in Units PROVE Kept(w)'
    <2>1. CASE w = u
      BY <1>3, <2>1 DEF Kept
    <2>2. CASE w # u
      BY <1>1, <1>2, <2>2 DEF StopInv, Kept, Orphan, Live, Held, StartOf, StopOf
    <2> QED BY <2>1, <2>2
  <1>5. ASSUME NEW w \in Units
        PROVE  /\ at'[w] = "forcedStop" => cancel'[w]
               /\ added'[w] = "removed" => ~task'[w]
    BY <1>1, <1>2, <1>3 DEF StopInv
  <1> QED BY <1>4, <1>5 DEF StopInv

LEMMA LoopKeepsStops ==
    ASSUME IInv, StopInv, CancelIn = {},
           \/ EnterContext \/ ExitContext \/ AllStopped \/ SuperviseUntil
           \/ BeginWait \/ MonitorTake \/ EndIteration \/ CancelSupervise
           \/ Closed \/ \E event \in BOOLEAN : Wake(event)
    PROVE  StopInv'
  <1>0. TypeOK
    BY DEF IInv
  <1>1. UNCHANGED unitVars /\ ~CancelSupervise
    BY DEF EnterContext, ExitContext, AllStopped, SuperviseUntil, BeginWait, MonitorTake,
       EndIteration, CancelSupervise, Closed, Wake
  <1>2. ASSUME NEW c, Held(c) PROVE Held(c)'
    <2>1. CASE MonitorTake
      <3>1. InQueue(c)
        BY <1>2, <2>1, HeldWhere DEF MonitorTake
      <3> QED BY <1>0, <2>1, <3>1, TakeKeepsHeld DEF MonitorTake
    <2>2. CASE ~MonitorTake
      <3>1. UNCHANGED <<queue, monitor>>
        BY <1>1, <2>2 DEF EnterContext, ExitContext, AllStopped, SuperviseUntil, BeginWait,
           EndIteration, Closed, Wake
      <3> QED BY <1>2, <3>1 DEF Held
    <2> QED BY <2>1, <2>2
  <1>3. ASSUME NEW w \in Units PROVE Kept(w)'
    <2>1. Held(StopOf(w)) => Held(StopOf(w))'
      BY <1>2
    <2>2. Held(StartOf(w)) => Held(StartOf(w))'
      BY <1>2
    <2> QED BY <1>1, <2>1, <2>2 DEF StopInv, Kept, Orphan, Live, unitVars
  <1> QED BY <1>1, <1>3 DEF StopInv, unitVars

(* A command that was handled has had its effect: a START has made a task, *)
(* and a STOP has cancelled one or was left to one that looks for it.      *)
LEMMA HandleKeepsStops ==
    ASSUME IInv, PromiseInv, StopInv, NEW u \in Units, Handle(u)
    PROVE  StopInv'
  <1>0. TypeOK /\ \A w \in Units : UnitInv(w)
    BY IInvByUnit
  <1>1. ASSUME NextCommand, NEW c, InQueue(c) PROVE Held(c)'
    BY <1>0, <1>1, NextKeepsHeld
  <1>2. ASSUME NEW w \in Units, w # u, NextCommand, NEW command, Handling(command, u)
        PROVE  /\ Held(StopOf(w)) => Held(StopOf(w))'
               /\ Held(StartOf(w)) => Held(StartOf(w))'
    <2>1. monitor # <<StopOf(w)>> /\ monitor # <<StartOf(w)>>
      BY <1>2 DEF Handling, StopOf, StartOf
    <2> QED BY <1>1, <1>2, <2>1, HeldWhere
  <1>3. CASE HandleStart(u)
    <2>1. ~Live(u) /\ ~task[u] /\ added[u] = "yes"
      <3>1. Held(StartOf(u))
        BY <1>3 DEF HandleStart, Handling, Held, StartOf
      <3> QED BY <1>0, <3>1 DEF UnitInv
    <2>2. ASSUME NEW w \in Units PROVE Kept(w)'
      <3>1. CASE w = u
        BY <1>0, <1>3, <3>1 DEF HandleStart, Kept, TypeOK
      <3>2. CASE w # u
        BY <1>0, <1>2, <1>3, <3>2 DEF HandleStart, StopInv, Kept, Orphan, Live, TypeOK
      <3> QED BY <3>1, <3>2
    <2> QED BY <1>0, <1>3, <2>1, <2>2 DEF HandleStart, StopInv, TypeOK
  <1>4. CASE HandleStop(u)
    <2>1. ASSUME NEW w \in Units PROVE Kept(w)'
      <3>1. CASE w = u
        BY <1>0, <1>4, <3>1 DEF HandleStop, Kept, TypeOK
      <3>2. CASE w # u
        BY <1>0, <1>2, <1>4, <3>2 DEF HandleStop, StopInv, Kept, Orphan, Live, TypeOK
      <3> QED BY <3>1, <3>2
    <2> QED BY <1>0, <1>4, <2>1 DEF HandleStop, StopInv, TypeOK
  <1>5. CASE DeferStop(u)
    <2>1. ASSUME NEW w \in Units PROVE Kept(w)'
      <3>1. CASE w = u
        <4>1. CASE status[u] = "ENTERING"
          <5>1. at[u] \in {"forcedStop", "entering"} /\ ~force[u]
            BY <1>0, <1>5, <4>1 DEF DeferStop, Deferred, UnitInv, PlaceAgrees, TypeOK, Places
          <5> QED BY <1>5, <3>1, <5>1 DEF DeferStop, StopInv, Kept, unitVars
        <4>2. CASE status[u] # "ENTERING"
          <5>1. pendingStart[u]
            BY <1>5, <4>2 DEF DeferStop, Deferred
          <5>2. Held(StartOf(u)) \/ at[u] = "created"
            BY <1>0, <4>2, <5>1 DEF PromiseInv, Promised, UnitInv, PlaceAgrees
          <5>3. Held(StartOf(u)) => InQueue(StartOf(u))
            BY <1>5, HeldWhere DEF DeferStop, Handling, StartOf
          <5>4. Held(StartOf(u)) => Held(StartOf(u))'
            BY <1>1, <1>5, <5>3 DEF DeferStop
          <5> QED BY <1>5, <3>1, <5>2, <5>4 DEF DeferStop, Kept, unitVars
        <4> QED BY <4>1, <4>2
      <3>2. CASE w # u
        BY <1>2, <1>5, <3>2 DEF DeferStop, StopInv, Kept, Orphan, Live, unitVars
      <3> QED BY <3>1, <3>2
    <2> QED BY <1>5, <2>1 DEF DeferStop, StopInv, unitVars
  <1>6. CASE Refuse(u)
    <2>1. Refused("STOP", u) /\ monitor = <<StopOf(u)>>
      <3>1. ~(Handling("START", u) /\ Refused("START", u))
        <4> SUFFICES ASSUME Handling("START", u), Refused("START", u)
                     PROVE  FALSE
          OBVIOUS
        <4>1. Held(StartOf(u))
          BY DEF Handling, Held, StartOf
        <4> QED BY <1>0, <4>1 DEF UnitInv, Refused
      <3> QED BY <1>6, <3>1 DEF Refuse, Handling, StopOf
    <2>2. UNCHANGED unitVars /\ queue' = queue
      BY <1>6 DEF Refuse, Crash
    <2>3. ~pendingStop[u] \/ Orphan(u) \/ Held(StartOf(u))
      <3> SUFFICES ASSUME pendingStop[u], Live(u) => task[u], ~Held(StartOf(u))
                   PROVE  FALSE
        BY DEF Orphan
      <3>1. Live(u)
        BY <1>0 DEF UnitInv, PromiseInv, Promised, Live
      <3>2. added[u] = "yes"
        BY <1>0, <3>1 DEF UnitInv, PlaceAgrees, StopInv, TypeOK
      <3> QED BY <2>1, <3>1, <3>2 DEF Refused
    <2>4. ASSUME NEW w \in Units PROVE Kept(w)'
      <3>1. Held(StartOf(w)) => Held(StartOf(w))'
        BY <2>1, <2>2 DEF Held, StartOf, StopOf
      <3>2. CASE w = u
        BY <2>2, <2>3, <3>1, <3>2 DEF Kept, Orphan, Live, unitVars
      <3>3. CASE w # u
        <4>1. Held(StopOf(w)) => Held(StopOf(w))'
          BY <2>1, <2>2, <3>3 DEF Held, StopOf
        <4> QED BY <2>2, <3>1, <4>1 DEF StopInv, Kept, Orphan, Live, unitVars
      <3> QED BY <3>2, <3>3
    <2> QED BY <2>2, <2>4 DEF StopInv, unitVars
  <1> QED BY <1>3, <1>4, <1>5, <1>6 DEF Handle

LEMMA ReapKeepsStops ==
    ASSUME IInv, PromiseInv, StopInv, NEW u \in Units, Reap(u) \/ ReapFailed(u)
    PROVE  StopInv'
  <1>0. TypeOK
    BY DEF IInv
  <1>1. monitor = <<>> /\ monitor' = <<>> /\ queue' = queue
    BY DEF Reap, ReapFailed, Crash, PromiseInv, MonitorEmpty
  <1>2. UNCHANGED <<added, at, cancel, pendingStop, force>>
    BY DEF Reap, ReapFailed, unitVars
  <1>3. \A w \in Units : task'[w] => task[w]
    BY <1>0 DEF Reap, ReapFailed, unitVars, TypeOK
  <1>4. ASSUME NEW w \in Units PROVE Kept(w)'
    BY <1>1, <1>2, <1>3 DEF StopInv, Kept, Orphan, Live, Held, StartOf, StopOf
  <1> QED BY <1>2, <1>3, <1>4 DEF StopInv

(* Unless the supervising task is cancelled with a command in the hands of *)
(* its monitor, no accepted stop is lost: neither on its way to the unit's *)
(* task, nor where it is left to that task, nor by a crash of the loop.    *)
THEOREM StopsAreKept == CancelIn = {} => (Spec => []StopPromise)
  <1> SUFFICES ASSUME CancelIn = {} PROVE Spec => []StopPromise
    OBVIOUS
  <1>1. Init => PromiseInv /\ StopInv
    BY DEF Init, PromiseInv, MonitorEmpty, Promised, StopInv, Kept
  <1>2. IInv /\ PromiseInv /\ [Next]_vars => PromiseInv'
    BY NextKeepsPromise
  <1>3. IInv /\ PromiseInv /\ StopInv /\ [Next]_vars => StopInv'
    <2> SUFFICES ASSUME IInv, PromiseInv, StopInv, [Next]_vars PROVE StopInv'
      OBVIOUS
    <2>1. CASE UNCHANGED vars
      BY <2>1 DEF StopInv, Kept, Orphan, Live, Held, StartOf, StopOf, vars, unitVars, loopVars
    <2> QED BY <2>1, CallsKeepStops, TaskKeepsStops, LoopKeepsStops, HandleKeepsStops,
               ReapKeepsStops DEF Next, Supervise
  <1>4. StopInv => StopPromise
    BY DEF StopInv, Kept, StopPromise
  <1> QED BY <1>1, <1>2, <1>3, <1>4, InvariantHolds, PTL DEF Spec

-----------------------------------------------------------------------------
(* The commands that are held, in the order in which they are handled. *)
HeldSeq == monitor \o queue

(* How the commands of unit w lie in s, given its pending_stop, whether it  *)
(* is live, and its pending_start: it has one START at most; between two    *)
(* STOPs there is a START; and a STOP that was overtaken by the end of the  *)
(* unit is the only one, with the START of a unit that starts again behind  *)
(* it.                                                                     *)
FewStarts(s, w) ==
    \A i, j \in DOMAIN s : s[i] = StartOf(w) /\ s[j] = StartOf(w) => i = j

StopsApart(s, w) ==
    \A i, j \in DOMAIN s :
        s[i] = StopOf(w) /\ s[j] = StopOf(w) /\ i < j =>
            \E k \in DOMAIN s : i < k /\ k < j /\ s[k] = StartOf(w)

LateStop(s, w, live, starting) ==
    \A i \in DOMAIN s : s[i] = StopOf(w) =>
        /\ ~live
        /\ \A j \in DOMAIN s : s[j] = StopOf(w) => i = j
        /\ \A j \in DOMAIN s : s[j] = StartOf(w) => i < j
        /\ starting => \E j \in DOMAIN s : s[j] = StartOf(w)

Order(s, w, stopping, live, starting) ==
    /\ FewStarts(s, w) /\ StopsApart(s, w)
    /\ ~stopping => LateStop(s, w, live, starting)

OrderOf(w) == Order(HeldSeq, w, pendingStop[w], Live(w), pendingStart[w])

LEMMA StartsAreNotStops ==
    \A v, w : StartOf(v) # StopOf(w) /\ (StartOf(v) = StartOf(w) => v = w)
              /\ (StopOf(v) = StopOf(w) => v = w)
  BY DEF StartOf, StopOf

LEMMA TailPlaces ==
    ASSUME NEW s \in Seq(Commands), s # <<>>
    PROVE  /\ Len(s) \in Nat \ {0} /\ DOMAIN s = 1 .. Len(s)
           /\ DOMAIN Tail(s) = 1 .. Len(s) - 1
           /\ \A i \in 1 .. Len(s) - 1 : Tail(s)[i] = s[i + 1]
  <1>1. Len(s) \in Nat /\ Len(s) # 0 /\ DOMAIN s = 1 .. Len(s)
    OBVIOUS
  <1>2. Tail(s) \in Seq(Commands) /\ Len(Tail(s)) = Len(s) - 1 /\ DOMAIN Tail(s) = 1 .. Len(s) - 1
    BY <1>1
  <1>3. \A i \in 1 .. Len(s) - 1 : Tail(s)[i] = s[i + 1]
    BY <1>1
  <1> QED BY <1>1, <1>2, <1>3

LEMMA AppendPlaces ==
    ASSUME NEW s \in Seq(Commands), NEW c \in Commands
    PROVE  /\ Len(s) \in Nat /\ DOMAIN s = 1 .. Len(s)
           /\ DOMAIN Append(s, c) = 1 .. Len(s) + 1
           /\ \A i \in 1 .. Len(s) : Append(s, c)[i] = s[i]
           /\ Append(s, c)[Len(s) + 1] = c
  <1>1. Len(s) \in Nat /\ DOMAIN s = 1 .. Len(s)
    OBVIOUS
  <1>2. Len(Append(s, c)) = Len(s) + 1 /\ DOMAIN Append(s, c) = 1 .. Len(s) + 1
    OBVIOUS
  <1>3. \A i \in 1 .. Len(s) : Append(s, c)[i] = s[i]
    OBVIOUS
  <1>4. Append(s, c)[Len(s) + 1] = c
    OBVIOUS
  <1> QED BY <1>1, <1>2, <1>3, <1>4

(* The first command is taken; its unit may become live by it, if it was    *)
(* its START.                                                              *)
LEMMA OrderTail ==
    ASSUME NEW s \in Seq(Commands), s # <<>>, NEW w, NEW p, NEW l, NEW st,
           Order(s, w, p, l, st)
    PROVE  /\ Order(Tail(s), w, p, l, st)
           /\ s[1] = StartOf(w) => Order(Tail(s), w, p, TRUE, st)
  <1> DEFINE t == Tail(s)
             n == Len(s)
  <1>1. /\ n \in Nat /\ n # 0 /\ DOMAIN s = 1 .. n /\ DOMAIN t = 1 .. n - 1
        /\ \A i \in 1 .. n - 1 : t[i] = s[i + 1]
    BY TailPlaces
  <1> HIDE DEF t, n
  <1>2. \A i \in DOMAIN t : i \in Nat /\ i # 0 /\ i + 1 \in DOMAIN s /\ t[i] = s[i + 1]
    BY <1>1
  <1>3. \A k \in DOMAIN s : k # 1 => k - 1 \in DOMAIN t /\ t[k - 1] = s[k] /\ k \in Nat
    BY <1>1
  <1>4. FewStarts(t, w)
    BY <1>2 DEF Order, FewStarts
  <1>5. StopsApart(t, w)
    <2> SUFFICES ASSUME NEW i \in DOMAIN t, NEW j \in DOMAIN t,
                        t[i] = StopOf(w), t[j] = StopOf(w), i < j
                 PROVE  \E k \in DOMAIN t : i < k /\ k < j /\ t[k] = StartOf(w)
      BY DEF StopsApart
    <2>1. PICK k \in DOMAIN s : i + 1 < k /\ k < j + 1 /\ s[k] = StartOf(w)
      <3>1. /\ i + 1 \in DOMAIN s /\ j + 1 \in DOMAIN s /\ i + 1 < j + 1
            /\ s[i + 1] = StopOf(w) /\ s[j + 1] = StopOf(w)
        BY <1>2
      <3> QED BY <3>1 DEF Order, StopsApart
    <2>2. k # 1 /\ k \in Nat /\ i \in Nat /\ j \in Nat
      BY <1>1, <1>2, <2>1
    <2>3. k - 1 \in DOMAIN t /\ i < k - 1 /\ k - 1 < j /\ t[k - 1] = StartOf(w)
      BY <1>3, <2>1, <2>2
    <2> QED BY <2>3
  <1>6. ASSUME ~p PROVE LateStop(t, w, l, st) /\ (s[1] = StartOf(w) => LateStop(t, w, TRUE, st))
    <2>1. LateStop(s, w, l, st)
      BY <1>6 DEF Order
    <2>2. ASSUME NEW i \in DOMAIN t, t[i] = StopOf(w)
          PROVE  /\ ~l /\ s[1] # StartOf(w)
                 /\ \A j \in DOMAIN t : t[j] = StopOf(w) => i = j
                 /\ \A j \in DOMAIN t : t[j] = StartOf(w) => i < j
                 /\ st => \E j \in DOMAIN t : t[j] = StartOf(w)
      <3>1. i \in Nat /\ i # 0 /\ i + 1 \in DOMAIN s /\ s[i + 1] = StopOf(w)
        BY <1>2, <2>2
      <3>2. /\ ~l /\ \A j \in DOMAIN s : s[j] = StopOf(w) => i + 1 = j
            /\ \A j \in DOMAIN s : s[j] = StartOf(w) => i + 1 < j
            /\ st => \E j \in DOMAIN s : s[j] = StartOf(w)
        BY <2>1, <3>1 DEF LateStop
      <3>3. s[1] # StartOf(w)
        BY <1>1, <3>1, <3>2
      <3>4. \A j \in DOMAIN t : t[j] = StopOf(w) => i = j
        BY <1>2, <3>1, <3>2
      <3>5. \A j \in DOMAIN t : t[j] = StartOf(w) => i < j
        BY <1>2, <3>1, <3>2
      <3>6. st => \E j \in DOMAIN t : t[j] = StartOf(w)
        BY <1>3, <3>2, <3>3
      <3> QED BY <3>2, <3>3, <3>4, <3>5, <3>6
    <2> QED BY <2>2 DEF LateStop
  <1> QED BY <1>4, <1>5, <1>6 DEF Order, t

(* A command is put behind the others. *)
LEMMA OrderAppendOther ==
    ASSUME NEW s \in Seq(Commands), NEW c \in Commands, NEW w, NEW p, NEW l, NEW st,
           Order(s, w, p, l, st), c # StartOf(w), c # StopOf(w)
    PROVE  Order(Append(s, c), w, p, l, st)
  <1> DEFINE t == Append(s, c)
             n == Len(s)
  <1>1. /\ n \in Nat /\ DOMAIN s = 1 .. n /\ DOMAIN t = 1 .. n + 1
        /\ \A i \in 1 .. n : t[i] = s[i]
        /\ t[n + 1] = c
    BY AppendPlaces
  <1> HIDE DEF t, n
  <1>2. \A i \in DOMAIN t : t[i] = StartOf(w) \/ t[i] = StopOf(w) => i \in DOMAIN s /\ t[i] = s[i]
    BY <1>1
  <1>3. \A i \in DOMAIN s : i \in DOMAIN t /\ t[i] = s[i]
    BY <1>1
  <1>4. FewStarts(t, w)
    BY <1>2 DEF Order, FewStarts
  <1>5. StopsApart(t, w)
    BY <1>2, <1>3 DEF Order, StopsApart
  <1>6. ~p => LateStop(t, w, l, st)
    BY <1>2, <1>3 DEF Order, LateStop
  <1> QED BY <1>4, <1>5, <1>6 DEF Order, t

LEMMA OrderAppendStart ==
    ASSUME NEW s \in Seq(Commands), NEW w, StartOf(w) \in Commands, NEW st,
           Order(s, w, FALSE, FALSE, st), \A i \in DOMAIN s : s[i] # StartOf(w)
    PROVE  Order(Append(s, StartOf(w)), w, FALSE, FALSE, TRUE)
  <1> DEFINE c == StartOf(w)
             t == Append(s, c)
             n == Len(s)
  <1>1. /\ n \in Nat /\ DOMAIN s = 1 .. n /\ DOMAIN t = 1 .. n + 1
        /\ \A i \in 1 .. n : t[i] = s[i]
        /\ t[n + 1] = c
    BY AppendPlaces
  <1> HIDE DEF t, n
  <1>2. /\ \A i \in DOMAIN t : t[i] = StartOf(w) => i = n + 1
        /\ n + 1 \in DOMAIN t /\ t[n + 1] = StartOf(w)
    BY <1>1
  <1>3. \A i \in DOMAIN t : t[i] = StopOf(w) => i \in DOMAIN s /\ t[i] = s[i] /\ i < n + 1
    BY <1>1, StartsAreNotStops
  <1>4. LateStop(s, w, FALSE, st)
    BY DEF Order
  <1>5. FewStarts(t, w)
    BY <1>2 DEF FewStarts
  <1>6. \A i, j \in DOMAIN t : t[i] = StopOf(w) /\ t[j] = StopOf(w) => i = j
    BY <1>3, <1>4 DEF LateStop
  <1>7. StopsApart(t, w)
    <2>1. \A i \in DOMAIN t : i \in Nat
      BY <1>1
    <2> QED BY <1>6, <2>1 DEF StopsApart
  <1>8. LateStop(t, w, FALSE, TRUE)
    BY <1>2, <1>3, <1>6 DEF LateStop
  <1> QED BY <1>5, <1>7, <1>8 DEF Order, t

LEMMA OrderAppendStop ==
    ASSUME NEW s \in Seq(Commands), NEW w, StopOf(w) \in Commands, NEW l, NEW st,
           Order(s, w, FALSE, l, st), l \/ st
    PROVE  Order(Append(s, StopOf(w)), w, TRUE, l, st)
  <1> DEFINE c == StopOf(w)
             t == Append(s, c)
             n == Len(s)
  <1>1. /\ n \in Nat /\ DOMAIN s = 1 .. n /\ DOMAIN t = 1 .. n + 1
        /\ \A i \in 1 .. n : t[i] = s[i]
        /\ t[n + 1] = c
    BY AppendPlaces
  <1> HIDE DEF t, n
  <1>2. \A i \in DOMAIN s : i \in DOMAIN t /\ t[i] = s[i] /\ i < n + 1 /\ i \in Nat
    BY <1>1
  <1>3. \A i \in DOMAIN t : (i \in DOMAIN s /\ t[i] = s[i]) \/ (i = n + 1 /\ t[i] = StopOf(w))
    BY <1>1
  <1>4. LateStop(s, w, l, st) /\ FewStarts(s, w)
    BY DEF Order
  <1>5. FewStarts(t, w)
    BY <1>3, <1>4, StartsAreNotStops DEF FewStarts
  <1>6. StopsApart(t, w)
    <2> SUFFICES ASSUME NEW i \in DOMAIN t, NEW j \in DOMAIN t,
                        t[i] = StopOf(w), t[j] = StopOf(w), i < j
                 PROVE  \E k \in DOMAIN t : i < k /\ k < j /\ t[k] = StartOf(w)
      BY DEF StopsApart
    <2>1. i \in DOMAIN s /\ s[i] = StopOf(w)
      <3>1. i # n + 1
        BY <1>1
      <3> QED BY <1>3, <3>1
    <2>2. j = n + 1
      <3>1. j \in DOMAIN s => i = j
        BY <1>2, <1>4, <2>1 DEF LateStop
      <3>2. i # j
        BY <1>2, <2>1
      <3> QED BY <1>3, <3>1, <3>2
    <2>3. PICK k \in DOMAIN s : s[k] = StartOf(w) /\ i < k
      BY <1>4, <2>1 DEF LateStop
    <2> QED BY <1>2, <2>2, <2>3
  <1> QED BY <1>5, <1>6 DEF Order, t

(* What a stop, the end of a unit, or nothing changes. *)
LEMMA OrderStopping ==
    ASSUME NEW s, NEW w, NEW p, NEW l, NEW st, Order(s, w, p, l, st), NEW ll, NEW ss
    PROVE  Order(s, w, TRUE, ll, ss)
  BY DEF Order

LEMMA OrderLive ==
    ASSUME NEW s, NEW w, NEW p, NEW st, Order(s, w, p, TRUE, st), NEW ss
    PROVE  Order(s, w, p, TRUE, ss)
  BY DEF Order, LateStop

LEMMA OrderEnd ==
    ASSUME NEW s \in Seq(Commands), NEW w, NEW p \in BOOLEAN, NEW st,
           Order(s, w, p, TRUE, st), \A i \in DOMAIN s : s[i] # StartOf(w)
    PROVE  Order(s, w, FALSE, FALSE, FALSE)
  <1>1. FewStarts(s, w) /\ StopsApart(s, w)
    BY DEF Order
  <1>2. \A i, j \in DOMAIN s : s[i] = StopOf(w) /\ s[j] = StopOf(w) => i = j
    <2>1. \A i \in DOMAIN s : i \in Nat
      OBVIOUS
    <2>2. \A i, j \in DOMAIN s : s[i] = StopOf(w) /\ s[j] = StopOf(w) => ~(i < j)
      BY <1>1 DEF StopsApart
    <2> QED BY <2>1, <2>2
  <1> QED BY <1>1, <1>2 DEF Order, LateStop

-----------------------------------------------------------------------------
(* What the steps do to the commands that are held: put one behind them,   *)
(* take the first, or neither; the monitor task only carries one over.      *)

LEMMA ConsFacts ==
    ASSUME NEW s \in Seq(Commands), NEW c \in Commands
    PROVE  /\ <<>> \o s = s
           /\ <<c>> \o s \in Seq(Commands) /\ Len(<<c>> \o s) = Len(s) + 1
           /\ (<<c>> \o s)[1] = c /\ <<c>> \o s # <<>>
           /\ Tail(<<c>> \o s) = s
           /\ s # <<>> => <<Head(s)>> \o Tail(s) = s /\ Head(s) \in Commands /\ Tail(s) \in Seq(Commands)
  <1>1. <<>> \o s = s
    OBVIOUS
  <1>2. /\ <<c>> \o s \in Seq(Commands) /\ Len(<<c>> \o s) = Len(s) + 1
        /\ (<<c>> \o s)[1] = c /\ <<c>> \o s # <<>>
    OBVIOUS
  <1>3. Tail(<<c>> \o s) = s
    OBVIOUS
  <1>4. s # <<>> => <<Head(s)>> \o Tail(s) = s /\ Head(s) \in Commands /\ Tail(s) \in Seq(Commands)
    OBVIOUS
  <1> QED BY <1>1, <1>2, <1>3, <1>4

LEMMA JoinAppend ==
    ASSUME NEW m \in Seq(Commands), NEW s \in Seq(Commands), NEW c \in Commands
    PROVE  m \o Append(s, c) = Append(m \o s, c)
  OBVIOUS

LEMMA HeldType ==
    ASSUME TypeOK
    PROVE  /\ queue \in Seq(Commands) /\ monitor \in Seq(Commands)
           /\ HeldSeq \in Seq(Commands)
           /\ Len(HeldSeq) = Len(queue) + Len(monitor)
  <1>1. queue \in Seq(Commands) /\ monitor \in Seq(Commands)
    <2>1. queue \in Seq(Commands) /\ (monitor = <<>> \/ \E c \in Commands : monitor = <<c>>)
      BY DEF TypeOK
    <2>2. <<>> \in Seq(Commands) /\ \A c \in Commands : <<c>> \in Seq(Commands)
      OBVIOUS
    <2> QED BY <2>1, <2>2
  <1>2. monitor \o queue \in Seq(Commands) /\ Len(monitor \o queue) = Len(monitor) + Len(queue)
        /\ Len(monitor) \in Nat /\ Len(queue) \in Nat
    BY <1>1
  <1> QED BY <1>1, <1>2 DEF HeldSeq

LEMMA InHeldSeq ==
    ASSUME TypeOK, NEW i \in DOMAIN HeldSeq
    PROVE  Held(HeldSeq[i])
  <1>1. queue \in Seq(Commands) /\ (monitor = <<>> \/ \E c \in Commands : monitor = <<c>>)
    BY DEF TypeOK
  <1>2. CASE monitor = <<>>
    <2>1. HeldSeq = queue
      BY <1>1, <1>2 DEF HeldSeq
    <2> QED BY <2>1 DEF Held
  <1>3. ASSUME NEW c \in Commands, monitor = <<c>> PROVE Held(HeldSeq[i])
    <2>1. HeldSeq = <<c>> \o queue
      BY <1>3 DEF HeldSeq
    <2>2. i \in 1 .. Len(queue) + 1 /\ Len(queue) \in Nat
      BY <1>1, <2>1
    <2>3. CASE i = 1
      <3>1. HeldSeq[i] = c
        BY <1>1, <2>1, <2>3, ConsFacts
      <3> QED BY <1>3, <3>1 DEF Held
    <2>4. CASE i # 1
      <3>1. i - 1 \in DOMAIN queue /\ (<<c>> \o queue)[i] = queue[i - 1]
        BY <1>1, <2>2, <2>4
      <3> QED BY <2>1, <3>1 DEF Held
    <2> QED BY <2>3, <2>4
  <1> QED BY <1>1, <1>2, <1>3

LEMMA PutHeld ==
    ASSUME TypeOK, NEW u \in Units, NEW command \in {"START", "STOP"},
           Put(command, u), monitor' = monitor
    PROVE  HeldSeq' = Append(HeldSeq, [cmd |-> command, unit |-> u])
  <1>1. [cmd |-> command, unit |-> u] \in Commands
    BY DEF Commands
  <1> QED BY <1>1, HeldType, JoinAppend DEF Put, HeldSeq

LEMMA SameHeldSeq ==
    ASSUME queue' = queue, monitor' = monitor
    PROVE  HeldSeq' = HeldSeq
  BY DEF HeldSeq

LEMMA TakeHeld ==
    ASSUME TypeOK, MonitorTake
    PROVE  HeldSeq' = HeldSeq
  <1>1. queue \in Seq(Commands) /\ queue # <<>> /\ monitor = <<>>
        /\ monitor' = <<Head(queue)>> /\ queue' = Tail(queue)
    BY HeldType DEF MonitorTake
  <1>2. Head(queue) \in Commands
    BY <1>1
  <1>3. <<>> \o queue = queue /\ <<Head(queue)>> \o Tail(queue) = queue
    BY <1>1, <1>2, ConsFacts
  <1> QED BY <1>1, <1>3 DEF HeldSeq

LEMMA HandledHeld ==
    ASSUME TypeOK, NEW c \in Commands, monitor = <<c>>, NextCommand
    PROVE  HeldSeq # <<>> /\ HeldSeq[1] = c /\ HeldSeq' = Tail(HeldSeq)
  <1>1. queue \in Seq(Commands)
    BY HeldType
  <1>2. HeldSeq = <<c>> \o queue
    BY DEF HeldSeq
  <1>3. HeldSeq # <<>> /\ HeldSeq[1] = c /\ Tail(HeldSeq) = queue
    BY <1>1, <1>2, ConsFacts
  <1>4. CASE queue = <<>>
    <2>1. monitor' = <<>> /\ queue' = <<>>
      BY <1>4 DEF NextCommand
    <2>2. HeldSeq' = <<>>
      BY <2>1 DEF HeldSeq
    <2> QED BY <1>3, <1>4, <2>2
  <1>5. CASE queue # <<>>
    <2>1. monitor' = <<Head(queue)>> /\ queue' = Tail(queue)
      BY <1>5 DEF NextCommand
    <2>2. HeldSeq' = <<Head(queue)>> \o Tail(queue)
      BY <2>1 DEF HeldSeq
    <2>3. HeldSeq' = queue
      BY <1>1, <1>5, <2>2, ConsFacts
    <2> QED BY <1>3, <2>3
  <1> QED BY <1>4, <1>5

LEMMA LostHeld ==
    ASSUME TypeOK, monitor' = <<>>, queue' = queue
    PROVE  HeldSeq' = HeldSeq \/ (HeldSeq # <<>> /\ HeldSeq' = Tail(HeldSeq))
  <1>1. queue \in Seq(Commands) /\ (monitor = <<>> \/ \E c \in Commands : monitor = <<c>>)
    BY DEF TypeOK
  <1>2. HeldSeq' = queue
    <2>1. HeldSeq' = <<>> \o queue
      BY DEF HeldSeq
    <2> QED BY <1>1, <2>1
  <1>3. CASE monitor = <<>>
    BY <1>2, <1>3, SameHeldSeq
  <1>4. ASSUME NEW c \in Commands, monitor = <<c>>
        PROVE  HeldSeq # <<>> /\ HeldSeq' = Tail(HeldSeq)
    <2>1. HeldSeq = <<c>> \o queue
      BY <1>4 DEF HeldSeq
    <2> QED BY <1>1, <1>2, <2>1, ConsFacts
  <1> QED BY <1>1, <1>3, <1>4

-----------------------------------------------------------------------------
(* Every step keeps the order of a unit's commands. *)

LEMMA CommandsOf ==
    ASSUME NEW u \in Units
    PROVE  /\ StartOf(u) \in Commands /\ StopOf(u) \in Commands
           /\ StartOf(u) = [cmd |-> "START", unit |-> u]
           /\ StopOf(u) = [cmd |-> "STOP", unit |-> u]
  BY DEF StartOf, StopOf, Commands

LEMMA OrderSame ==
    ASSUME NEW w \in Units, OrderOf(w), HeldSeq' = HeldSeq,
           pendingStop'[w] = pendingStop[w], at'[w] = at[w], pendingStart'[w] = pendingStart[w]
    PROVE  OrderOf(w)'
  BY DEF OrderOf, Live

LEMMA OrderLess ==
    ASSUME TypeOK, NEW w \in Units, OrderOf(w), HeldSeq # <<>>, HeldSeq' = Tail(HeldSeq),
           pendingStop'[w] = pendingStop[w], at'[w] = at[w], pendingStart'[w] = pendingStart[w]
    PROVE  OrderOf(w)'
  <1>1. Order(Tail(HeldSeq), w, pendingStop[w], Live(w), pendingStart[w])
    BY HeldType, OrderTail DEF OrderOf
  <1> QED BY <1>1 DEF OrderOf, Live

LEMMA StartKeepsOrder ==
    ASSUME TypeOK, NEW u \in Units, NEW w \in Units, UnitInv(u), OrderOf(w),
           StartNowait(u), UNCHANGED <<at, pendingStop, monitor>>
    PROVE  OrderOf(w)'
  <1>1. CASE Put("START", u) /\ queue' # queue
    <2>1. /\ ~pendingStop[u] /\ ~pendingStart[u] /\ status[u] \in {"READY", "STOPPED"}
          /\ pendingStart' = [pendingStart EXCEPT ![u] = TRUE]
      BY <1>1 DEF StartNowait
    <2>2. at[u] = "none" /\ ~Held(StartOf(u))
      BY <2>1 DEF TypeOK, UnitInv, PlaceAgrees, Live, Places
    <2>3. HeldSeq' = Append(HeldSeq, StartOf(u))
      BY <1>1, PutHeld, CommandsOf
    <2>4. CASE w = u
      <3>1. /\ pendingStop[w] = FALSE /\ Live(w) = FALSE
            /\ pendingStop'[w] = FALSE /\ Live(w)' = FALSE /\ pendingStart'[w] = TRUE
        <4>1. pendingStop[w] \in BOOLEAN /\ pendingStart'[w] = TRUE
          BY <2>1, <2>4 DEF TypeOK
        <4>2. ~pendingStop[w] /\ pendingStop'[w] = pendingStop[w] /\ at'[w] = at[w]
          BY <2>1, <2>4
        <4>3. (at[w] # "none") = FALSE
          BY <2>2, <2>4
        <4>4. pendingStop[w] = FALSE
          BY <4>1, <4>2
        <4>5. Live(w) = FALSE /\ Live(w)' = FALSE /\ pendingStop'[w] = FALSE
          BY <4>2, <4>3, <4>4, Zenon DEF Live
        <4> QED BY <4>1, <4>4, <4>5, Zenon
      <3>2. \A i \in DOMAIN HeldSeq : HeldSeq[i] # StartOf(w)
        BY <2>2, <2>4, InHeldSeq
      <3>3. Order(HeldSeq, w, FALSE, FALSE, pendingStart[w])
        BY <3>1 DEF OrderOf
      <3>4. Order(Append(HeldSeq, StartOf(w)), w, FALSE, FALSE, TRUE)
        BY <3>2, <3>3, HeldType, CommandsOf, OrderAppendStart
      <3> QED BY <2>3, <2>4, <3>1, <3>4 DEF OrderOf
    <2>5. CASE w # u
      <3>1. StartOf(u) # StartOf(w) /\ StartOf(u) # StopOf(w)
        BY <2>5, StartsAreNotStops
      <3>2. Order(HeldSeq', w, pendingStop[w], Live(w), pendingStart[w])
        BY <2>3, <3>1, HeldType, CommandsOf, OrderAppendOther DEF OrderOf
      <3> QED BY <2>1, <2>5, <3>2 DEF OrderOf, TypeOK, Live
    <2> QED BY <2>4, <2>5
  <1>2. CASE queue' = queue
    <2>1. pendingStart'[w] = pendingStart[w]
      <3>1. ~Put("START", u)
        <4>1. Put("START", u) => Len(queue') = Len(queue) + 1 /\ Len(queue) \in Nat
          BY HeldType DEF Put
        <4> QED BY <1>2, <4>1
      <3>2. pendingStart' = pendingStart
            \/ (pendingStart[u] /\ pendingStart' = [pendingStart EXCEPT ![u] = TRUE])
        BY <3>1 DEF StartNowait
      <3>3. CASE pendingStart' = pendingStart
        BY <3>3
      <3>4. CASE pendingStart[u] /\ pendingStart' = [pendingStart EXCEPT ![u] = TRUE]
        <4>1. pendingStart[u] = TRUE /\ pendingStart \in [Units -> BOOLEAN]
          BY <3>4 DEF TypeOK
        <4>2. pendingStart'[u] = TRUE /\ (w # u => pendingStart'[w] = pendingStart[w])
          BY <3>4, <4>1
        <4> QED BY <4>1, <4>2
      <3> QED BY <3>2, <3>3, <3>4
    <2> QED BY <1>2, <2>1, SameHeldSeq, OrderSame
  <1> QED BY <1>1, <1>2 DEF StartNowait

LEMMA StopKeepsOrder ==
    ASSUME TypeOK, NEW u \in Units, NEW w \in Units, NEW f \in BOOLEAN,
           UnitInv(u), OrderOf(w), StopNowait(u, f),
           UNCHANGED <<at, pendingStart, monitor>>
    PROVE  OrderOf(w)'
  <1>1. CASE AtRest(u)
    <2>1. queue' = queue /\ pendingStop' = pendingStop
      BY <1>1 DEF StopNowait
    <2> QED BY <2>1, SameHeldSeq, OrderSame
  <1>2. CASE ~AtRest(u)
    <2>1. /\ pendingStop' = [pendingStop EXCEPT ![u] = TRUE]
          /\ pendingStop'[u] = TRUE /\ (w # u => pendingStop'[w] = pendingStop[w])
      BY <1>2 DEF StopNowait, TypeOK
    <2>2. CASE Put("STOP", u)
      <3>1. HeldSeq' = Append(HeldSeq, StopOf(u))
        BY <2>2, PutHeld, CommandsOf
      <3>2. CASE w # u
        <4>1. StopOf(u) # StartOf(w) /\ StopOf(u) # StopOf(w)
          BY <3>2, StartsAreNotStops
        <4>2. Order(HeldSeq', w, pendingStop[w], Live(w), pendingStart[w])
          BY <3>1, <4>1, HeldType, CommandsOf, OrderAppendOther DEF OrderOf
        <4> QED BY <2>1, <3>2, <4>2 DEF OrderOf, Live
      <3>3. CASE w = u /\ ~pendingStop[u] /\ status[u] # "EXITING"
        <4>1. Live(w) \/ pendingStart[w]
          BY <1>2, <3>3 DEF AtRest, UnitInv, PlaceAgrees, TypeOK, Places, Live
        <4>2. pendingStop[w] = FALSE
          BY <3>3 DEF TypeOK
        <4>3. Order(HeldSeq, w, FALSE, Live(w), pendingStart[w])
          BY <4>2, Zenon DEF OrderOf
        <4>4. Order(Append(HeldSeq, StopOf(w)), w, TRUE, Live(w), pendingStart[w])
          BY <4>1, <4>3, HeldType, CommandsOf, OrderAppendStop
        <4>5. Live(w)' = Live(w) /\ pendingStart'[w] = pendingStart[w] /\ pendingStop'[w] = TRUE
          BY <2>1, <3>3 DEF Live
        <4> QED BY <3>1, <3>3, <4>4, <4>5, Zenon DEF OrderOf
      <3>4. CASE pendingStop[u] \/ status[u] = "EXITING"
        <4>1. queue' = queue
          BY <3>4 DEF StopNowait
        <4>2. Len(queue') = Len(queue) + 1 /\ Len(queue) \in Nat
          BY <2>2, HeldType DEF Put
        <4> QED BY <4>1, <4>2
      <3> QED BY <3>2, <3>3, <3>4
    <2>3. CASE queue' = queue
      <3>1. HeldSeq' = HeldSeq
        BY <2>3, SameHeldSeq
      <3>2. CASE w # u
        BY <2>1, <3>1, <3>2, OrderSame
      <3>3. CASE w = u
        <4>1. Order(HeldSeq, w, TRUE, Live(w)', pendingStart'[w])
          BY OrderStopping DEF OrderOf
        <4>2. pendingStop'[w] = TRUE
          BY <2>1, <3>3
        <4> QED BY <3>1, <4>1, <4>2, Zenon DEF OrderOf
      <3> QED BY <3>2, <3>3
    <2> QED BY <2>2, <2>3 DEF StopNowait
  <1> QED BY <1>1, <1>2

LEMMA CallsKeepOrder ==
    ASSUME TypeOK, NEW u \in Units, NEW w \in Units, UnitInv(u), OrderOf(w),
           Client(u) \/ StopOne(u) \/ RestartOne(u)
    PROVE  OrderOf(w)'
  <1>1. CASE StartNowait(u) /\ UNCHANGED <<at, pendingStop, monitor>>
    BY <1>1, StartKeepsOrder
  <1>2. ASSUME NEW f \in BOOLEAN, StopNowait(u, f), UNCHANGED <<at, pendingStart, monitor>>
        PROVE  OrderOf(w)'
    BY <1>2, StopKeepsOrder
  <1>3. CASE UNCHANGED <<at, pendingStart, pendingStop, queue, monitor>>
    BY <1>3, SameHeldSeq, OrderSame
  <1> QED BY <1>1, <1>2, <1>3
       DEF Client, AddUnit, RemoveUnit, StartUnit, StopUnit, StopOne, RestartOne, loopVars

LEMMA LoopKeepsOrder ==
    ASSUME TypeOK, NEW w \in Units, OrderOf(w),
           \/ EnterContext \/ ExitContext \/ AllStopped \/ SuperviseUntil
           \/ BeginWait \/ MonitorTake \/ EndIteration \/ CancelSupervise
           \/ Closed \/ \E event \in BOOLEAN : Wake(event)
    PROVE  OrderOf(w)'
  <1>1. UNCHANGED <<at, pendingStart, pendingStop>>
    BY DEF EnterContext, ExitContext, AllStopped, SuperviseUntil, BeginWait, MonitorTake,
       EndIteration, CancelSupervise, Closed, Wake, unitVars
  <1>2. CASE MonitorTake
    BY <1>1, <1>2, TakeHeld, OrderSame
  <1>3. CASE CancelSupervise
    <2>1. monitor' = <<>> /\ queue' = queue
      BY <1>3 DEF CancelSupervise
    <2> QED BY <1>1, <2>1, LostHeld, OrderSame, OrderLess
  <1>4. CASE UNCHANGED <<queue, monitor>>
    BY <1>1, <1>4, SameHeldSeq, OrderSame
  <1> QED BY <1>2, <1>3, <1>4
       DEF EnterContext, ExitContext, AllStopped, SuperviseUntil, BeginWait,
       EndIteration, Closed, Wake

LEMMA HandleKeepsOrder ==
    ASSUME TypeOK, NEW u \in Units, NEW w \in Units, OrderOf(w),
           Handle(u) \/ Reap(u) \/ ReapFailed(u)
    PROVE  OrderOf(w)'
  <1>1. UNCHANGED <<pendingStart, pendingStop>>
    BY DEF Handle, HandleStart, HandleStop, DeferStop, Refuse, Reap, ReapFailed, unitVars
  <1>2. CASE HandleStart(u)
    <2>1. monitor = <<StartOf(u)>> /\ NextCommand /\ at' = [at EXCEPT ![u] = "created"]
      BY <1>2 DEF HandleStart, Handling, StartOf
    <2>2. HeldSeq # <<>> /\ HeldSeq[1] = StartOf(u) /\ HeldSeq' = Tail(HeldSeq)
      BY <2>1, CommandsOf, HandledHeld
    <2>3. CASE w = u
      <3>1. Order(Tail(HeldSeq), w, pendingStop[w], TRUE, pendingStart[w])
        BY <2>2, <2>3, HeldType, OrderTail DEF OrderOf
      <3>2. Live(w)' = TRUE
        BY <2>1, <2>3 DEF Live, TypeOK
      <3> QED BY <1>1, <2>2, <3>1, <3>2, Zenon DEF OrderOf
    <2>4. CASE w # u
      <3>1. at'[w] = at[w]
        BY <2>1, <2>4 DEF TypeOK
      <3> QED BY <1>1, <2>2, <3>1, OrderLess
    <2> QED BY <2>3, <2>4
  <1>3. CASE DeferStop(u) \/ HandleStop(u)
    <2>1. monitor = <<StopOf(u)>> /\ NextCommand /\ at' = at
      BY <1>3 DEF DeferStop, HandleStop, Handling, StopOf, unitVars
    <2>2. HeldSeq # <<>> /\ HeldSeq' = Tail(HeldSeq)
      BY <2>1, CommandsOf, HandledHeld
    <2> QED BY <1>1, <2>1, <2>2, OrderLess
  <1>4. CASE Refuse(u) \/ ReapFailed(u)
    <2>1. monitor' = <<>> /\ queue' = queue /\ at' = at
      BY <1>4 DEF Refuse, ReapFailed, Crash, unitVars
    <2> QED BY <1>1, <2>1, LostHeld, OrderSame, OrderLess
  <1>5. CASE Reap(u)
    <2>1. UNCHANGED <<queue, monitor, at>>
      BY <1>5 DEF Reap
    <2> QED BY <1>1, <2>1, SameHeldSeq, OrderSame
  <1> QED BY <1>2, <1>3, <1>4, <1>5 DEF Handle

LEMMA TaskKeepsOrder ==
    ASSUME TypeOK, NEW u \in Units, NEW w \in Units, UnitInv(u), OrderOf(w),
           RunUnit(u)
    PROVE  OrderOf(w)'
  <1>1. UNCHANGED <<queue, monitor>>
    BY DEF RunUnit, Begin, Entered, RunReturns, Failed, Exited, loopVars
  <1>2. HeldSeq' = HeldSeq
    BY <1>1, SameHeldSeq
  <1>3. CASE w # u
    <2>1. at'[w] = at[w] /\ pendingStart'[w] = pendingStart[w] /\ pendingStop'[w] = pendingStop[w]
      BY <1>3 DEF RunUnit, Begin, Entered, RunReturns, Failed, Exited, ToExit, TypeOK
    <2> QED BY <1>2, <2>1, OrderSame
  <1>4. CASE w = u /\ ~\E outcome \in Results : Exited(u, outcome)
    <2>1. at[u] # "none" /\ at'[u] # "none" /\ pendingStop' = pendingStop
      BY <1>4 DEF RunUnit, Begin, Entered, RunReturns, Failed, ToExit, TypeOK
    <2>2. Live(w) = TRUE /\ Live(w)' = TRUE
      BY <1>4, <2>1 DEF Live
    <2>3. Order(HeldSeq, w, pendingStop[w], TRUE, pendingStart[w])
      BY <2>2, Zenon DEF OrderOf
    <2>4. Order(HeldSeq, w, pendingStop[w], TRUE, pendingStart'[w])
      BY <2>3, OrderLive
    <2> QED BY <1>2, <2>1, <2>2, <2>4, Zenon DEF OrderOf
  <1>5. ASSUME NEW outcome \in Results, Exited(u, outcome), w = u
        PROVE  OrderOf(w)'
    <2>1. /\ at[u] = "exiting" /\ pendingStart' = pendingStart
          /\ at'[u] = "none" /\ pendingStop'[u] = FALSE
      BY <1>5 DEF Exited, TypeOK
    <2>2. Live(u) = TRUE /\ Live(u)' = FALSE
      BY <2>1 DEF Live
    <2>3. ~pendingStart[u] /\ ~Held(StartOf(u)) /\ pendingStop[u] \in BOOLEAN
      BY <2>1, <2>2 DEF UnitInv, PlaceAgrees, TypeOK
    <2>4. \A i \in DOMAIN HeldSeq : HeldSeq[i] # StartOf(w)
      BY <1>5, <2>3, InHeldSeq
    <2>5. Order(HeldSeq, w, pendingStop[w], TRUE, pendingStart[w])
      BY <1>5, <2>2, Zenon DEF OrderOf
    <2>6. Order(HeldSeq, w, FALSE, FALSE, FALSE)
      BY <1>5, <2>3, <2>4, <2>5, HeldType, OrderEnd
    <2>7. pendingStart'[w] = FALSE
      <3>1. pendingStart[u] \in BOOLEAN
        BY DEF TypeOK
      <3> QED BY <1>5, <2>1, <2>3, <3>1
    <2> QED BY <1>2, <1>5, <2>1, <2>2, <2>6, <2>7, Zenon DEF OrderOf
  <1> QED BY <1>3, <1>4, <1>5

-----------------------------------------------------------------------------
(* A sequence in which every unit's commands are in order has three        *)
(* commands of a unit at most: its START, its first STOP and one after.    *)
Earlier(s, i) == \E j \in DOMAIN s : j < i /\ s[j] = s[i]

Sort(s, i) == IF s[i].cmd = "START" THEN 1 ELSE IF Earlier(s, i) THEN 3 ELSE 2

LEMMA SortsDiffer ==
    ASSUME NEW s \in Seq(Commands),
           \A w \in Units : FewStarts(s, w) /\ StopsApart(s, w),
           NEW i \in DOMAIN s, NEW j \in DOMAIN s, i < j,
           s[i].unit = s[j].unit
    PROVE  Sort(s, i) # Sort(s, j)
  <1> DEFINE w == s[i].unit
  <1>1. /\ s[i] \in Commands /\ s[j] \in Commands /\ i \in Nat /\ j \in Nat
        /\ \A k \in DOMAIN s : k \in Nat
    OBVIOUS
  <1>2. w \in Units /\ s[i].cmd \in {"START", "STOP"} /\ s[j].cmd \in {"START", "STOP"}
    BY <1>1 DEF Commands
  <1>3. /\ s[i].cmd = "START" => s[i] = StartOf(w)
        /\ s[j].cmd = "START" => s[j] = StartOf(w)
        /\ s[i].cmd = "STOP" => s[i] = StopOf(w)
        /\ s[j].cmd = "STOP" => s[j] = StopOf(w)
    BY <1>1 DEF Commands, StartOf, StopOf
  <1> HIDE DEF w
  <1>4. CASE s[i].cmd = "START" /\ s[j].cmd = "START"
    <2>1. i = j
      BY <1>2, <1>3, <1>4 DEF FewStarts
    <2> QED BY <1>1, <2>1
  <1>5. CASE s[i].cmd # s[j].cmd
    BY <1>2, <1>5 DEF Sort
  <1>6. CASE s[i].cmd = "STOP" /\ s[j].cmd = "STOP"
    <2>1. s[i] = StopOf(w) /\ s[j] = StopOf(w)
      BY <1>3, <1>6
    <2>2. Earlier(s, j)
      BY <2>1 DEF Earlier
    <2>3. Sort(s, j) = 3
      BY <1>6, <2>2 DEF Sort
    <2>4. ~Earlier(s, i)
      <3> SUFFICES ASSUME NEW h \in DOMAIN s, h < i, s[h] = s[i]
                   PROVE  FALSE
        BY DEF Earlier
      <3>1. PICK k \in DOMAIN s : h < k /\ k < i /\ s[k] = StartOf(w)
        BY <1>2, <2>1 DEF StopsApart
      <3>2. PICK l \in DOMAIN s : i < l /\ l < j /\ s[l] = StartOf(w)
        BY <1>2, <2>1 DEF StopsApart
      <3>3. k = l
        BY <1>2, <3>1, <3>2 DEF FewStarts
      <3> QED BY <1>1, <3>1, <3>2, <3>3
    <2>5. Sort(s, i) = 2
      BY <1>6, <2>4 DEF Sort
    <2> QED BY <2>3, <2>5
  <1> QED BY <1>2, <1>4, <1>5, <1>6

LEMMA OrderBounds ==
    ASSUME IsFiniteSet(Units), NEW s \in Seq(Commands),
           \A w \in Units : FewStarts(s, w) /\ StopsApart(s, w)
    PROVE  Len(s) <= 3 * Cardinality(Units)
  <1> DEFINE T == Units \X (1 .. 3)
             f == [i \in DOMAIN s |-> <<s[i].unit, Sort(s, i)>>]
  <1>1. Len(s) \in Nat /\ DOMAIN s = 1 .. Len(s) /\ \A i \in DOMAIN s : s[i] \in Commands
    OBVIOUS
  <1>2. IsFiniteSet(1 .. 3) /\ Cardinality(1 .. 3) = 3
    <2>1. 1 \in Int /\ 3 \in Int /\ ~(1 > 3) /\ 3 - 1 + 1 = 3
      OBVIOUS
    <2> QED BY <2>1, FS_Interval
  <1>3. IsFiniteSet(T) /\ Cardinality(T) = Cardinality(Units) * 3
    BY <1>2, FS_Product
  <1>4. IsFiniteSet(1 .. Len(s)) /\ Cardinality(1 .. Len(s)) = Len(s)
    <2>1. 1 \in Int /\ Len(s) \in Int
      BY <1>1
    <2> QED BY <1>1, <2>1, FS_Interval
  <1>5. f \in [DOMAIN s -> T]
    <2>1. ASSUME NEW i \in DOMAIN s PROVE s[i].unit \in Units /\ Sort(s, i) \in 1 .. 3
      BY <1>1 DEF Commands, Sort
    <2> QED BY <2>1
  <1>6. ASSUME NEW i \in DOMAIN s, NEW j \in DOMAIN s, i # j
        PROVE  f[i] # f[j]
    <2>1. i < j \/ j < i
      BY <1>1, <1>6
    <2>2. s[i].unit = s[j].unit => Sort(s, i) # Sort(s, j)
      BY <2>1, SortsDiffer
    <2> QED BY <2>2
  <1>7. Cardinality(Units) \in Nat
    BY FS_CardinalityType
  <1> HIDE DEF f, T
  <1>8. ~(Cardinality(T) < Cardinality(DOMAIN s))
    <2>1. IsFiniteSet(DOMAIN s)
      BY <1>1, <1>4
    <2>2. ~\E i, j \in DOMAIN s : i # j /\ f[i] = f[j]
      BY <1>6
    <2> QED BY <1>3, <1>5, <2>1, <2>2, FS_PigeonHole
  <1> QED BY <1>1, <1>3, <1>4, <1>7, <1>8

(* The command queue, which the code leaves unbounded, and the monitor     *)
(* task hold one START and two STOPs of each unit at most.                 *)
THEOREM QueueIsBounded == IsFiniteSet(Units) => (Spec => []QueueBounded)
  <1> SUFFICES ASSUME IsFiniteSet(Units) PROVE Spec => []QueueBounded
    OBVIOUS
  <1> DEFINE Ordered == \A w \in Units : OrderOf(w)
  <1>1. Init => Ordered
    <2> SUFFICES ASSUME Init, NEW w \in Units PROVE OrderOf(w)
      OBVIOUS
    <2>1. HeldSeq = <<>>
      BY DEF Init, HeldSeq
    <2> QED BY <2>1 DEF OrderOf, Order, FewStarts, StopsApart, LateStop
  <1>2. IInv /\ Ordered /\ [Next]_vars => Ordered'
    <2> SUFFICES ASSUME TypeOK, \A v \in Units : UnitInv(v), Ordered, [Next]_vars,
                        NEW w \in Units
                 PROVE  OrderOf(w)'
      BY IInvByUnit
    <2>1. CASE UNCHANGED vars
      BY <2>1, SameHeldSeq, OrderSame DEF vars, unitVars, loopVars
    <2>2. CASE Next
      BY <2>2, CallsKeepOrder, LoopKeepsOrder, HandleKeepsOrder, TaskKeepsOrder
         DEF Next, Supervise
    <2> QED BY <2>1, <2>2
  <1>3. IInv /\ Ordered => QueueBounded
    <2> SUFFICES ASSUME TypeOK, Ordered PROVE QueueBounded
      BY DEF IInv
    <2>1. \A w \in Units : FewStarts(HeldSeq, w) /\ StopsApart(HeldSeq, w)
      BY DEF OrderOf, Order
    <2> QED BY <2>1, HeldType, OrderBounds DEF QueueBounded
  <1> QED BY <1>1, <1>2, <1>3, InvariantHolds, PTL DEF Spec
=============================================================================
