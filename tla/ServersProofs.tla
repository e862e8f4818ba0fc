---------------------------- MODULE ServersProofs ----------------------------
(***************************************************************************)
(* What holds of Servers for all backends, ports and proxy listings.       *)
(***************************************************************************)
EXTENDS Servers, WellFoundedInduction, TLAPS

(* What acquire_port hands out is free. *)
LEMMA AcquiresFree ==
    ASSUME NEW b \in Backends
    PROVE  /\ Acquires(b) \subseteq Resources
           /\ Acquires(b) \cap (Taken(b) \cup Reserved) = {}
<1>1. ASSUME NEW n, NEW S PROVE Lowest(n, S) \subseteq S
  BY DEF Lowest
<1>2. ASSUME NEW protocol \in {"tcp", "udp"}, NEW n
      PROVE  /\ {protocol} \X Lowest(n, Free(b, protocol)) \subseteq Resources
             /\ ({protocol} \X Lowest(n, Free(b, protocol))) \cap (Taken(b) \cup Reserved) = {}
  <2>1. Lowest(n, Free(b, protocol)) \subseteq Free(b, protocol)
    BY <1>1
  <2>2. QED BY <2>1 DEF Free, Resources
<1>3. QED BY <1>2 DEF Acquires, Servers, Voice

(* The listings do not change, and so neither do the proxies there will be. *)
LEMMA ListingsStay == UNCHANGED config => UNCHANGED Configured
BY DEF Configured, Valid

-----------------------------------------------------------------------------
(* Which listings are valid. *)

(* A nonempty set of naturals has a least element. *)
LEMMA LeastExists ==
    ASSUME NEW S, S \subseteq Nat, S # {}
    PROVE  \E x \in S : \A y \in S : x <= y
<1> DEFINE Less == {p \in Nat \X Nat : p[1] < p[2]}
<1>1. IsWellFoundedOn(Less, Nat)
  BY NatLessThanWellFounded, Zenon DEF OpToRel
<1>2. \A x \in Nat, y \in Nat : <<y, x>> \in Less <=> y < x
  OBVIOUS
<1> HIDE DEF Less
<1>3. PICK x \in S : \A y \in S : ~(<<y, x>> \in Less)
  BY <1>1, WFMin
<1>4. ASSUME NEW y \in S PROVE x <= y
  <2>1. x \in Nat /\ y \in Nat
    OBVIOUS
  <2>2. ~(y < x)
    BY <1>2, <1>3, <2>1, Zenon
  <2>3. QED BY <2>1, <2>2
<1>5. QED BY <1>4

(* V holds those of the first m that are Right and in no clash with one of  *)
(* V before them.                                                          *)
Passing(V, m, Right, Clash) ==
    \A i \in 1 .. m :
        i \in V <=> i \in Right /\ \A j \in 1 .. i - 1 : j \in V => <<j, i>> \notin Clash

(* One after the other, it can be decided which those are. *)
LEMMA PassingExists ==
    ASSUME NEW n \in Nat, NEW Right, NEW Clash
    PROVE  \E V \in SUBSET (1 .. n) : Passing(V, n, Right, Clash)
<1> DEFINE Decided(m) == \E V \in SUBSET (1 .. m) : Passing(V, m, Right, Clash)
           T == {m \in 0 .. n : ~Decided(m)}
<1>1. SUFFICES ASSUME T # {} PROVE FALSE
  <2>1. n \in 0 .. n /\ n \notin T
    BY <1>1
  <2>2. QED BY <2>1
<1>2. PICK m \in T : \A k \in T : m <= k
  <2>1. T \subseteq Nat
    OBVIOUS
  <2>2. QED BY <1>1, <2>1, LeastExists
<1>3. m # 0
  <2>1. Passing({}, 0, Right, Clash)
    BY DEF Passing
  <2>2. Decided(0)
    BY <2>1
  <2>3. QED BY <1>2, <2>2
<1>4. m \in 1 .. n /\ m - 1 \in 0 .. n
  BY <1>2, <1>3
<1>5. Decided(m - 1)
  <2> HIDE DEF Decided
  <2>1. m - 1 \notin T
    <3> HIDE DEF T
    <3>1. QED BY <1>2, <1>4
  <2>2. QED BY <1>4, <2>1
<1>6. PICK V \in SUBSET (1 .. m - 1) : Passing(V, m - 1, Right, Clash)
  BY <1>5
<1> DEFINE lets == m \in Right /\ \A j \in 1 .. m - 1 : j \in V => <<j, m>> \notin Clash
           W == V \cup {k \in {m} : lets}
<1>7. Passing(W, m, Right, Clash)
  <2>1. m \notin V /\ \A k \in 1 .. m - 1 : k \in W <=> k \in V
    BY <1>4, <1>6
  <2>2. m \in W <=> lets
    BY <2>1
  <2> HIDE DEF W
  <2>3. SUFFICES ASSUME NEW i \in 1 .. m
                 PROVE  i \in W <=> i \in Right /\ \A j \in 1 .. i - 1 : j \in W => <<j, i>> \notin Clash
    BY DEF Passing
  <2>4. CASE i = m
    BY <2>1, <2>2, <2>4
  <2>5. CASE i # m
    <3>1. i \in 1 .. m - 1 /\ \A j \in 1 .. i - 1 : j \in 1 .. m - 1
      BY <1>4, <2>5
    <3>2. i \in V <=> i \in Right /\ \A j \in 1 .. i - 1 : j \in V => <<j, i>> \notin Clash
      BY <1>6, <3>1 DEF Passing
    <3>3. QED BY <2>1, <3>1, <3>2
  <2>6. QED BY <2>4, <2>5
<1>8. W \in SUBSET (1 .. m)
  <2>1. m \in 1 .. m /\ 1 .. m - 1 \subseteq 1 .. m
    BY <1>4
  <2>2. QED BY <1>6, <2>1, Zenon
<1>9. QED BY <1>2, <1>7, <1>8

(* The equation by which Valid is defined. *)
Passes(c, i, valid) ==
    /\ c[i].routes
    /\ \A j \in 1 .. i - 1 : valid[j] =>
          /\ c[j].port # c[i].port
          /\ c[i].voice # None => c[j].voice # c[i].voice

(* A listing is valid if its routes are and no valid one above it shares   *)
(* one of its ports.                                                       *)
LEMMA ValidUnfolds ==
    ASSUME NEW c \in Configs
    PROVE  \A i \in DOMAIN c :
               i \in Valid(c) <=> /\ c[i].routes
                                 /\ \A j \in Valid(c) : j < i => ~Shares(c[i], c[j])
<1> DEFINE n == Len(c)
           Eq(f) == f = [i \in DOMAIN c |-> Passes(c, i, f)]
           valid == CHOOSE f : Eq(f)
           Right == {i \in 1 .. n : c[i].routes}
           Clash == {p \in (1 .. n) \X (1 .. n) : Shares(c[p[2]], c[p[1]])}
<1>1. /\ n \in Nat /\ DOMAIN c = 1 .. n
      /\ \A i \in 1 .. n : c[i] \in Listings
  BY ServersAssumption
<1>2. Valid(c) = {i \in DOMAIN c : valid[i]}
  BY Zenon DEF Valid, Passes
<1> HIDE DEF n, valid
<1>3. \A i, j \in 1 .. n : <<j, i>> \in Clash <=>
        ~(/\ c[j].port # c[i].port
          /\ c[i].voice # None => c[j].voice # c[i].voice)
  BY <1>1 DEF Shares, Listings
<1>4. \A i \in 1 .. n : i \in Right <=> c[i].routes
  OBVIOUS
<1>5. PICK V \in SUBSET (1 .. n) : Passing(V, n, Right, Clash)
  <2> HIDE DEF Right, Clash
  <2>1. QED BY <1>1, PassingExists
<1> HIDE DEF Right, Clash
<1> DEFINE f == [i \in 1 .. n |-> IF i \in V THEN TRUE ELSE FALSE]
<1>6. Eq(f)
  <2>1. ASSUME NEW i \in 1 .. n PROVE f[i] = Passes(c, i, f)
    <3>1. i \in V <=> i \in Right /\ \A j \in 1 .. i - 1 : j \in V => <<j, i>> \notin Clash
      BY <1>5 DEF Passing
    <3>2. \A j \in 1 .. i - 1 : j \in 1 .. n /\ (f[j] <=> j \in V)
      <4>1. \A j \in 1 .. i - 1 : j \in 1 .. n
        BY <1>1
      <4>2. QED BY <4>1, Zenon
    <3>3. Passes(c, i, f) <=> i \in V
      BY <1>3, <1>4, <3>1, <3>2 DEF Passes
    <3>4. Passes(c, i, f) = IF i \in V THEN TRUE ELSE FALSE
      <4>1. Passes(c, i, f) = TRUE \/ Passes(c, i, f) = FALSE
        BY Zenon DEF Passes
      <4>2. QED BY <3>3, <4>1, Zenon
    <3>5. QED BY <3>4, Zenon
  <2>2. QED BY <1>1, <2>1, Zenon
<1>7. Eq(valid)
  BY <1>6, Zenon DEF valid
<1>8. \A i \in 1 .. n : valid[i] = Passes(c, i, valid)
  BY <1>1, <1>7, Zenon
<1>9. ASSUME NEW i \in 1 .. n
      PROVE  i \in Valid(c) <=> /\ c[i].routes
                               /\ \A j \in Valid(c) : j < i => ~Shares(c[i], c[j])
  <2>1. \A j \in 1 .. n : j \in Valid(c) <=> valid[j]
    BY <1>1, <1>2, Zenon
  <2>2. \A j \in 1 .. n : j < i <=> j \in 1 .. i - 1
    BY <1>1
  <2>3. \A j \in 1 .. i - 1 : j \in 1 .. n
    BY <1>1
  <2>4. Valid(c) \subseteq 1 .. n
    BY <1>1, <1>2
  <2>5. \A j \in 1 .. n : (/\ c[j].port # c[i].port
                           /\ c[i].voice # None => c[j].voice # c[i].voice)
                          <=> ~Shares(c[i], c[j])
    BY <1>1 DEF Shares, Listings
  <2>6. i \in Valid(c) <=> Passes(c, i, valid)
    BY <1>8, <2>1, Zenon
  <2>7. QED BY <2>1, <2>2, <2>3, <2>4, <2>5, <2>6, Zenon DEF Passes
<1>10. QED BY <1>1, <1>9, Zenon

(* No two valid listings share a port, and a listing is invalid only for    *)
(* its routes or for a valid one above it (config.py 18-43).               *)
THEOREM ValidIsMeant == \A c \in Configs : MeantValid(c)
<1>1. SUFFICES ASSUME NEW c \in Configs PROVE MeantValid(c)
  OBVIOUS
<1>2. DOMAIN c \subseteq Nat /\ Valid(c) \subseteq DOMAIN c
  BY ServersAssumption DEF Valid
<1>3. \A i, j \in DOMAIN c : Shares(c[i], c[j]) => Shares(c[j], c[i])
  BY DEF Shares
<1>4. ASSUME NEW i \in Valid(c), NEW j \in Valid(c), i # j
      PROVE  ~Shares(c[i], c[j])
  <2>1. i < j \/ j < i
    BY <1>2, <1>4
  <2>2. QED BY <1>2, <1>3, <2>1, ValidUnfolds
<1>5. ASSUME NEW i \in DOMAIN c \ Valid(c)
      PROVE  ~c[i].routes \/ \E j \in Valid(c) : j < i /\ Shares(c[i], c[j])
  BY <1>5, ValidUnfolds
<1>6. QED BY <1>4, <1>5 DEF MeantValid

-----------------------------------------------------------------------------
(* Types. *)

Places == {"off"} \cup Serving \cup Exiting

LEMMA TypeInit == Init => TypeOK
BY DEF Init, TypeOK, Waits, Serving, Exiting

LEMMA MovesWell ==
    ASSUME NEW b \in Backends, NEW to \in Places, TypeOK, at' = [at EXCEPT ![b] = to]
    PROVE  /\ at' \in [Backends -> Places] /\ at'[b] = to
           /\ \A c \in Backends \ {b} : at'[c] = at[c]
BY DEF TypeOK, Places

(* The places a backend reaches only when it has a process. *)
WithProcess == {"initializing", "running", "draining"} \cup Waits

(* A step from such a place to another, or to rest, keeps the types.       *)
LEMMA MoveKeepsTypes ==
    ASSUME NEW b \in Backends, NEW to \in Places, TypeOK, at' = [at EXCEPT ![b] = to],
           to \in WithProcess => proc[b] # "none",
           proc' \in [Backends -> {"none", "exited"} \cup Live],
           \A c \in Backends : proc[c] # "none" => proc'[c] # "none",
           held' \in [Backends -> SUBSET Resources], acquired' \subseteq Resources,
           unwound' \subseteq Backends, UNCHANGED <<configVars, uses>>
    PROVE  TypeOK'
<1>1. /\ at' \in [Backends -> Places] /\ at'[b] = to
      /\ \A c \in Backends \ {b} : at'[c] = at[c]
  BY MovesWell
<1>2. \A c \in Backends : at'[c] \in WithProcess => proc'[c] # "none"
  BY <1>1 DEF TypeOK, WithProcess
<1>3. QED BY <1>1, <1>2 DEF TypeOK, WithProcess, Places, configVars

LEMMA EnterKeepsTypes == ASSUME NEW b \in Backends PROVE TypeOK /\ Enter(b) => TypeOK'
<1> SUFFICES ASSUME TypeOK, Enter(b) PROVE TypeOK'
  OBVIOUS
<1>1. Acquires(b) \subseteq Resources /\ Taken(b) \subseteq Resources
  BY AcquiresFree DEF Taken, TypeOK
<1>2. /\ held' \in [Backends -> SUBSET Resources] /\ uses' \in [Backends -> SUBSET Resources]
      /\ acquired' \subseteq Resources /\ unwound' \subseteq Backends
  BY <1>1 DEF Enter, TypeOK
<1>3. /\ at' \in [Backends -> Places] /\ at'[b] \in {"spawning", "closing"}
      /\ \A c \in Backends \ {b} : at'[c] = at[c]
  BY DEF Enter, TypeOK, Places, Serving, Exiting
<1>4. \A c \in Backends : at'[c] \in WithProcess => proc'[c] # "none"
  BY <1>3 DEF Enter, TypeOK, WithProcess, Waits
<1>5. QED BY <1>2, <1>3, <1>4 DEF Enter, TypeOK, Places, WithProcess, configVars

LEMMA SpawnKeepsTypes == ASSUME NEW b \in Backends PROVE TypeOK /\ Spawn(b) => TypeOK'
<1> SUFFICES ASSUME TypeOK, Spawn(b) PROVE TypeOK'
  OBVIOUS
<1>1. /\ at' \in [Backends -> Places] /\ \A c \in Backends \ {b} : at'[c] = at[c]
  BY MovesWell DEF Spawn, Moves, Places, Serving
<1>2. /\ proc' \in [Backends -> {"none", "exited"} \cup Live] /\ proc'[b] = "alive"
      /\ \A c \in Backends \ {b} : proc'[c] = proc[c]
  BY DEF Spawn, TypeOK, Live
<1>3. \A c \in Backends : at'[c] \in WithProcess => proc'[c] # "none"
  BY <1>1, <1>2 DEF TypeOK, WithProcess
<1>4. QED BY <1>1, <1>2, <1>3 DEF Spawn, TypeOK, Places, WithProcess, configVars, portVars

LEMMA RunKeepsTypes ==
    ASSUME NEW b \in Backends
    PROVE  TypeOK /\ (Ready(b) \/ StartFails(b) \/ RunEnds(b)) => TypeOK'
<1> SUFFICES ASSUME TypeOK, Ready(b) \/ StartFails(b) \/ RunEnds(b) PROVE TypeOK'
  OBVIOUS
<1>1. PICK to \in {"running", "closing"} :
          /\ at' = [at EXCEPT ![b] = to]
          /\ to = "running" => at[b] = "initializing"
  BY DEF Ready, StartFails, RunEnds, Moves
<1>2. to \in Places
  BY DEF Places, Serving, Exiting
<1>3. to \in WithProcess => proc[b] # "none"
  BY <1>1 DEF TypeOK, WithProcess, Waits
<1>4. /\ UNCHANGED <<proc, held, acquired, unwound>> /\ UNCHANGED <<configVars, uses>>
  BY DEF Ready, StartFails, RunEnds, portVars
<1>5. QED BY <1>1, <1>2, <1>3, <1>4, MoveKeepsTypes DEF TypeOK

LEMMA CloseKeepsTypes == ASSUME NEW b \in Backends PROVE TypeOK /\ Close(b) => TypeOK'
<1> SUFFICES ASSUME TypeOK, Close(b) PROVE TypeOK'
  OBVIOUS
<1>1. PICK to \in AfterClosing(b) : at' = [at EXCEPT ![b] = to]
  BY DEF Close, Moves
<1>2. to \in Places
  BY DEF AfterClosing, Places, Exiting, Waits
<1>3. to \in WithProcess => proc[b] # "none"
  BY DEF AfterClosing, WithProcess, Waits
<1>4. /\ proc' = proc /\ unwound' = unwound /\ UNCHANGED <<configVars, uses>>
      /\ held' \in [Backends -> SUBSET Resources] /\ acquired' \subseteq Resources
  BY DEF Close, TypeOK
<1>5. QED BY <1>1, <1>2, <1>3, <1>4, MoveKeepsTypes DEF TypeOK

LEMMA KillsWell ==
    ASSUME NEW b \in Backends, TypeOK, UNCHANGED proc \/ Kills(b)
    PROVE  /\ proc' \in [Backends -> {"none", "exited"} \cup Live]
           /\ \A c \in Backends : proc[c] # "none" => proc'[c] # "none"
BY DEF TypeOK, Kills, Live

LEMMA StopKeepsTypes ==
    ASSUME NEW b \in Backends
    PROVE  TypeOK /\ (CloseFails(b) \/ Gone(b) \/ TimesOut(b) \/ Unwind(b) \/ Drained(b)) => TypeOK'
<1> SUFFICES ASSUME TypeOK, CloseFails(b) \/ Gone(b) \/ TimesOut(b) \/ Unwind(b) \/ Drained(b)
             PROVE  TypeOK'
  OBVIOUS
<1>1. PICK to \in {"off", "interrupting", "terminating", "draining"} :
          at' = [at EXCEPT ![b] = to] /\ (to # "off" => at[b] \in Waits)
  BY DEF CloseFails, Gone, TimesOut, Unwind, Drained, Moves, Waits
<1>2. to \in Places
  BY DEF Places, Exiting, Waits
<1>3. to \in WithProcess => proc[b] # "none"
  BY <1>1 DEF TypeOK, WithProcess, Waits
<1>4. UNCHANGED proc \/ Kills(b)
  BY DEF CloseFails, Gone, TimesOut, Unwind, Drained
<1>5. /\ UNCHANGED <<held, acquired>> /\ UNCHANGED <<configVars, uses>>
      /\ unwound' \in {unwound, unwound \cup {b}}
  BY DEF CloseFails, Gone, TimesOut, Unwind, Drained, portVars
<1>6. held' \in [Backends -> SUBSET Resources] /\ acquired' \subseteq Resources
      /\ unwound' \subseteq Backends
  BY <1>5 DEF TypeOK
<1>7. QED BY <1>1, <1>2, <1>3, <1>4, <1>5, <1>6, KillsWell, MoveKeepsTypes

LEMMA ExitsKeepsTypes == ASSUME NEW b \in Backends PROVE TypeOK /\ Exits(b) => TypeOK'
BY DEF TypeOK, Exits, configVars, portVars, Live

LEMMA TypeStep == TypeOK /\ [Next]_vars => TypeOK'
<1> SUFFICES ASSUME TypeOK, [Next]_vars PROVE TypeOK'
  OBVIOUS
<1>1. CASE UNCHANGED vars
  BY <1>1 DEF vars, configVars, portVars, TypeOK
<1>2. CASE Reload
  <2>1. Configured \subseteq DOMAIN config
    BY DEF Configured, Valid
  <2>2. QED BY <1>2, <2>1 DEF Reload, TypeOK, portVars
<1>3. CASE UpdateConfig
  BY <1>3 DEF UpdateConfig, TypeOK, portVars
<1>4. ASSUME NEW b \in Backends, BackendSteps(b) PROVE TypeOK'
  BY <1>4, EnterKeepsTypes, SpawnKeepsTypes, RunKeepsTypes, CloseKeepsTypes, StopKeepsTypes,
     ExitsKeepsTypes DEF BackendSteps, Proceeds
<1>5. QED BY <1>1, <1>2, <1>3, <1>4 DEF Next

(* Every reachable state is well typed, and a backend whose server          *)
(* initializes, runs or is waited for has one. The beginning of _stop (242) *)
(* reads server_proc also when there is none; AfterClosing has that case.  *)
THEOREM TypeCorrect == Spec => []TypeOK
BY TypeInit, TypeStep, PTL DEF Spec

-----------------------------------------------------------------------------
(* Ports. *)

(* Every acquired port is held by one backend and is no proxy's, and a      *)
(* backend that serves uses what it holds.                                 *)
PortsInv ==
    /\ proxies \subseteq Configured
    /\ \A r \in acquired : \E b \in Backends : r \in held[b]
    /\ \A b \in Backends :
          /\ held[b] \subseteq acquired
          /\ held[b] \cap Reserved = {}
          /\ at[b] \in Serving => uses[b] = held[b]
          /\ \A c \in Backends \ {b} : held[b] \cap held[c] = {}

LEMMA ReservedStays ==
    PortsInv /\ UNCHANGED config /\ proxies' \subseteq Configured => Reserved' = Reserved
<1> SUFFICES ASSUME PortsInv, UNCHANGED config, proxies' \subseteq Configured
             PROVE  Reserved' = Reserved
  OBVIOUS
<1>1. Configured' = Configured
  BY ListingsStay
<1>2. Configured \cup proxies = Configured /\ Configured' \cup proxies' = Configured
  BY <1>1 DEF PortsInv
<1>3. QED BY <1>2 DEF Reserved, PortsOf

(* What changes neither ports nor listings, and lets nobody serve who did   *)
(* not, keeps them apart.                                                  *)
LEMMA PortsAside ==
    ASSUME PortsInv, UNCHANGED <<configVars, portVars>>,
           \A b \in Backends : at'[b] \in Serving => at[b] \in Serving
    PROVE  PortsInv'
<1>1. Reserved' = Reserved /\ Configured' = Configured
  BY ReservedStays, ListingsStay DEF PortsInv, configVars
<1>2. QED BY <1>1 DEF PortsInv, configVars, portVars

LEMMA EnterKeepsPorts ==
    ASSUME NEW b \in Backends, TypeOK, PortsInv, Enter(b)
    PROVE  PortsInv'
<1>1. Reserved' = Reserved /\ Configured' = Configured /\ proxies' = proxies
  BY ReservedStays, ListingsStay DEF PortsInv, Enter, configVars
<1>2. Acquires(b) \cap (Taken(b) \cup Reserved) = {}
  BY AcquiresFree
<1>3. held'[b] = Acquires(b) /\ \A c \in Backends \ {b} : held'[c] = held[c]
  BY DEF Enter, TypeOK
<1>4. acquired' = Taken(b) \cup Acquires(b)
  BY DEF Enter
<1>5. \A c \in Backends \ {b} : held[c] \subseteq Taken(b)
  BY DEF PortsInv, Taken
<1>6. \A r \in Taken(b) : \E c \in Backends \ {b} : r \in held[c]
  BY DEF PortsInv, Taken
<1>7. /\ at'[b] \in Serving => uses'[b] = Acquires(b)
      /\ \A c \in Backends \ {b} : at'[c] = at[c] /\ uses'[c] = uses[c]
  BY DEF Enter, TypeOK, Serving
<1>8. \A r \in acquired' : \E c \in Backends : r \in held'[c]
  BY <1>3, <1>4, <1>6
<1>9. ASSUME NEW c \in Backends
      PROVE  /\ held'[c] \subseteq acquired'
             /\ held'[c] \cap Reserved = {}
             /\ at'[c] \in Serving => uses'[c] = held'[c]
             /\ \A d \in Backends \ {c} : held'[c] \cap held'[d] = {}
  <2>1. CASE c = b
    BY <2>1, <1>2, <1>3, <1>4, <1>5, <1>7
  <2>2. CASE c # b
    <3>1. held'[c] = held[c] /\ held[c] \subseteq Taken(b)
      BY <2>2, <1>3, <1>5
    <3>2. \A d \in Backends \ {c} : held'[c] \cap held'[d] = {}
      BY <3>1, <1>2, <1>3 DEF PortsInv
    <3>3. QED BY <3>1, <3>2, <2>2, <1>4, <1>7 DEF PortsInv
  <2>3. QED BY <2>1, <2>2
<1>10. QED BY <1>1, <1>8, <1>9 DEF PortsInv

LEMMA CloseKeepsPorts ==
    ASSUME NEW b \in Backends, TypeOK, PortsInv, Close(b)
    PROVE  PortsInv'
<1>1. Reserved' = Reserved /\ Configured' = Configured /\ proxies' = proxies
  BY ReservedStays, ListingsStay DEF PortsInv, Close, configVars
<1>2. /\ held'[b] = {} /\ acquired' = acquired \ held[b]
      /\ \A c \in Backends \ {b} : held'[c] = held[c]
  BY DEF Close, TypeOK
<1>3. \A c \in Backends : at'[c] \in Serving => at[c] \in Serving /\ c # b
  <2>1. PICK to \in AfterClosing(b) : at' = [at EXCEPT ![b] = to]
    BY DEF Close, Moves
  <2>2. to \in Places /\ to \notin Serving
    BY DEF AfterClosing, Places, Exiting, Waits, Serving
  <2>3. QED BY <2>1, <2>2, MovesWell
<1>4. \A r \in acquired' : \E c \in Backends : r \in held'[c]
  BY <1>2 DEF PortsInv
<1>5. ASSUME NEW c \in Backends
      PROVE  /\ held'[c] \subseteq acquired'
             /\ held'[c] \cap Reserved = {}
             /\ at'[c] \in Serving => uses'[c] = held'[c]
             /\ \A d \in Backends \ {c} : held'[c] \cap held'[d] = {}
  <2>1. held'[c] \subseteq acquired'
    BY <1>2 DEF PortsInv
  <2>2. at'[c] \in Serving => uses'[c] = held'[c]
    BY <1>2, <1>3 DEF PortsInv, Close
  <2>3. \A d \in Backends \ {c} : held'[c] \cap held'[d] = {}
    BY <1>2 DEF PortsInv
  <2>4. held'[c] \cap Reserved = {}
    BY <1>2 DEF PortsInv
  <2>5. QED BY <2>1, <2>2, <2>3, <2>4
<1>6. QED BY <1>1, <1>4, <1>5 DEF PortsInv

LEMMA OthersKeepPorts ==
    ASSUME NEW b \in Backends, TypeOK, PortsInv,
           \/ Spawn(b) \/ Ready(b) \/ StartFails(b) \/ RunEnds(b) \/ CloseFails(b)
           \/ Gone(b) \/ TimesOut(b) \/ Unwind(b) \/ Drained(b)
    PROVE  PortsInv'
<1>1. PICK to \in {"initializing", "running"} \cup {"off"} \cup Exiting :
          at' = [at EXCEPT ![b] = to] /\ (to \in Serving => at[b] \in Serving)
  BY DEF Spawn, Ready, StartFails, RunEnds, CloseFails, Gone, TimesOut, Unwind, Drained,
         Moves, Serving, Exiting, Waits
<1>2. to \in Places
  BY DEF Places, Serving
<1>3. \A c \in Backends : at'[c] \in Serving => at[c] \in Serving
  BY <1>1, <1>2, MovesWell
<1>4. UNCHANGED <<configVars, portVars>>
  BY DEF Spawn, Ready, StartFails, RunEnds, CloseFails, Gone, TimesOut, Unwind, Drained
<1>5. QED BY <1>3, <1>4, PortsAside

LEMMA PortsStep == TypeOK /\ PortsInv /\ [Next]_vars => PortsInv'
<1> SUFFICES ASSUME TypeOK, PortsInv, [Next]_vars PROVE PortsInv'
  OBVIOUS
<1>1. CASE UNCHANGED vars
  BY <1>1, PortsAside DEF vars
<1>2. CASE Reload
  <2>1. proxies' \subseteq Configured /\ UNCHANGED config
    BY <1>2 DEF Reload, PortsInv
  <2>2. Reserved' = Reserved /\ Configured' = Configured
    BY <2>1, ReservedStays, ListingsStay
  <2>3. QED BY <1>2, <2>1, <2>2 DEF PortsInv, Reload, portVars
<1>3. CASE UpdateConfig
  <2>1. proxies' \subseteq Configured /\ UNCHANGED config
    BY <1>3 DEF UpdateConfig, PortsInv
  <2>2. Reserved' = Reserved /\ Configured' = Configured
    BY <2>1, ReservedStays, ListingsStay
  <2>3. QED BY <1>3, <2>1, <2>2 DEF PortsInv, UpdateConfig, portVars
<1>4. ASSUME NEW b \in Backends, Exits(b) PROVE PortsInv'
  BY <1>4, PortsAside DEF Exits
<1>5. ASSUME NEW b \in Backends, BackendSteps(b) PROVE PortsInv'
  BY <1>4, <1>5, EnterKeepsPorts, CloseKeepsPorts, OthersKeepPorts DEF BackendSteps, Proceeds
<1>6. QED BY <1>1, <1>2, <1>3, <1>5 DEF Next

LEMMA PortsInit == Init => PortsInv
BY DEF Init, PortsInv, Serving

(* No two backends that serve use the same port, and none uses a proxy's    *)
(* (orchestrator.py 61-103, backend.py 164-180).                           *)
THEOREM ServersAreApart == Spec => []ServersApart
<1>1. PortsInv => ServersApart
  BY DEF PortsInv, ServersApart
<1>2. QED BY <1>1, PortsInit, PortsStep, TypeInit, TypeStep, PTL DEF Spec

-----------------------------------------------------------------------------
(* What is left behind. *)

(* Once the stack is closed nothing is held, and whoever is at rest has no  *)
(* process either.                                                         *)
RestedBy(b) ==
    /\ at[b] \in {"draining"} \cup Waits => held[b] = {}
    /\ at[b] = "off" /\ b \notin unwound => held[b] = {} /\ proc[b] \notin Live

RestInv == \A b \in Backends : RestedBy(b)

(* A step of one backend leaves the others as they are.                    *)
LEMMA RestAside ==
    ASSUME NEW b \in Backends, RestInv, RestedBy(b)', unwound \subseteq unwound' \cup {b},
           \A c \in Backends \ {b} : /\ at'[c] = at[c]
                                     /\ held'[c] = held[c] /\ proc'[c] = proc[c]
    PROVE  RestInv'
BY DEF RestInv, RestedBy

LEMMA EnterRests == ASSUME NEW b \in Backends, TypeOK, RestInv, Enter(b) PROVE RestInv'
<1>1. at'[b] \in {"spawning", "closing"} /\ \A c \in Backends \ {b} : at'[c] = at[c]
  BY DEF Enter, TypeOK
<1>2. RestedBy(b)'
  BY <1>1 DEF RestedBy, Waits
<1>3. QED BY <1>1, <1>2, RestAside DEF Enter, TypeOK

LEMMA CloseRests == ASSUME NEW b \in Backends, TypeOK, RestInv, Close(b) PROVE RestInv'
<1>1. PICK to \in AfterClosing(b) : at' = [at EXCEPT ![b] = to]
  BY DEF Close, Moves
<1>2. to \in Places /\ (to = "off" => proc[b] = "none")
  BY DEF AfterClosing, Places, Exiting, Waits
<1>3. at'[b] = to /\ \A c \in Backends \ {b} : at'[c] = at[c]
  BY <1>1, <1>2, MovesWell
<1>4. /\ held'[b] = {} /\ proc' = proc /\ unwound' = unwound
      /\ \A c \in Backends \ {b} : held'[c] = held[c]
  BY DEF Close, TypeOK
<1>5. RestedBy(b)'
  BY <1>2, <1>3, <1>4 DEF RestedBy, Live
<1>6. QED BY <1>3, <1>4, <1>5, RestAside

(* The steps that hold or release nothing. *)
LEMMA OthersRest ==
    ASSUME NEW b \in Backends, TypeOK, RestInv,
           \/ Spawn(b) \/ Ready(b) \/ StartFails(b) \/ RunEnds(b) \/ CloseFails(b)
           \/ Gone(b) \/ TimesOut(b) \/ Unwind(b) \/ Drained(b)
    PROVE  RestInv'
<1>1. PICK to \in Places :
          /\ at' = [at EXCEPT ![b] = to]
          /\ to \in {"draining"} \cup Waits => at[b] \in {"draining"} \cup Waits
          /\ to = "off" /\ b \notin unwound' => at[b] = "draining" /\ proc'[b] = "exited"
  BY DEF Spawn, Ready, StartFails, RunEnds, CloseFails, Gone, TimesOut, Unwind, Drained,
         Moves, Serving, Exiting, Waits, Places
<1>2. at'[b] = to /\ \A c \in Backends \ {b} : at'[c] = at[c]
  BY <1>1, MovesWell
<1>3. /\ held' = held /\ unwound \subseteq unwound'
      /\ \A c \in Backends \ {b} : proc'[c] = proc[c]
  BY DEF Spawn, Ready, StartFails, RunEnds, CloseFails, Gone, TimesOut, Unwind, Drained,
         Kills, TypeOK, portVars
<1>4. RestedBy(b)'
  BY <1>1, <1>2, <1>3 DEF RestedBy, RestInv, Live
<1>5. QED BY <1>2, <1>3, <1>4, RestAside

LEMMA ExitsRests == ASSUME NEW b \in Backends, TypeOK, RestInv, Exits(b) PROVE RestInv'
<1>1. /\ proc'[b] = "exited" /\ \A c \in Backends \ {b} : proc'[c] = proc[c]
      /\ at' = at /\ held' = held /\ unwound' = unwound
  BY DEF Exits, TypeOK, portVars
<1>2. RestedBy(b)'
  BY <1>1 DEF RestedBy, RestInv, Live
<1>3. QED BY <1>1, <1>2, RestAside

LEMMA RestStep == TypeOK /\ RestInv /\ [Next]_vars => RestInv'
<1> SUFFICES ASSUME TypeOK, RestInv, [Next]_vars PROVE RestInv'
  OBVIOUS
<1>1. CASE UNCHANGED vars \/ Reload \/ UpdateConfig
  BY <1>1 DEF RestInv, RestedBy, vars, Reload, UpdateConfig, portVars
<1>2. ASSUME NEW b \in Backends, BackendSteps(b) PROVE RestInv'
  BY <1>2, EnterRests, CloseRests, OthersRest, ExitsRests DEF BackendSteps, Proceeds
<1>3. QED BY <1>1, <1>2 DEF Next

(* A backend at rest has given its ports back and has no process, unless    *)
(* its exit was cut short; the ports acquired are those somebody holds     *)
(* (backend.py 239-330, orchestrator.py 97-103).                           *)
THEOREM NothingIsLeft == Spec => []LeavesNothing
<1>1. Init => RestInv
  BY DEF Init, RestInv, RestedBy, Live
<1>2. PortsInv /\ RestInv => LeavesNothing
  BY DEF PortsInv, RestInv, RestedBy, LeavesNothing
<1>3. QED BY <1>1, <1>2, RestStep, PortsInit, PortsStep, TypeInit, TypeStep, PTL DEF Spec
=============================================================================
