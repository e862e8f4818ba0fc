------------------------------- MODULE Servers -------------------------------
(***************************************************************************)
(* The server processes of the backends and the ports they use:            *)
(* MCBackend._start, run and _stop (src/app/backend/core/backend.py), port *)
(* allocation and reload in MCOrchestrator (core/orchestrator.py), and the *)
(* conflicts between proxy listings (models/config.py).                    *)
(*                                                                         *)
(* The orchestrator enters and exits a backend as Supervisor says; here    *)
(* that may happen whenever the backend is at rest, or has been entered.   *)
(* Nothing in the program changes the listings but their versions.         *)
(***************************************************************************)
EXTENDS Integers, FiniteSets, Sequences

CONSTANTS
    Backends, \* the backends listed and enabled
    Voiced,   \* those with a voicechat-server.properties
    Ports,    \* server_port_range
    Configs   \* bound: what proxy_listing may be, in the order of the file

None == 0

(* A listing; routes says whether its subdomains are right. *)
Listings == [port : Nat \ {0}, voice : Nat, enabled : BOOLEAN, routes : BOOLEAN]

ASSUME ServersAssumption ==
    /\ Voiced \subseteq Backends
    /\ Ports \subseteq Nat \ {0}
    /\ Configs \subseteq Seq(Listings)

VARIABLES
    config,   \* proxy_listing; never changes
    changed,  \* _config_changed is set
    proxies,  \* the places in config of the proxies that have been added
    backends, \* the backends that have been added
    at,       \* where a backend is suspended
    proc,     \* its server_proc: "none" yet, "alive", "killed", or "exited"
    uses,     \* the ports it has written to its properties
    held,     \* the ports its stack is to release
    acquired, \* acquired_server_ports, by protocol
    unwound   \* history: the backends whose last exit was cut short

configVars == <<config, changed, proxies, backends>>
portVars == <<uses, held, acquired>>
vars == <<configVars, at, proc, portVars, unwound>>

Resources == {"tcp", "udp"} \X Ports
Serving   == {"spawning", "initializing", "running"}
Waits     == {"stopping", "interrupting", "terminating"}
Exiting   == {"closing", "draining"} \cup Waits
Live      == {"alive", "killed"}

(* A backend whose server initializes, runs or is waited for has a          *)
(* server_proc; one that is "closing" may have none (AfterClosing).        *)
TypeOK ==
    /\ changed \in BOOLEAN
    /\ proxies \subseteq DOMAIN config
    /\ backends \subseteq Backends
    /\ at \in [Backends -> {"off"} \cup Serving \cup Exiting]
    /\ proc \in [Backends -> {"none", "exited"} \cup Live]
    /\ uses \in [Backends -> SUBSET Resources]
    /\ held \in [Backends -> SUBSET Resources]
    /\ acquired \subseteq Resources
    /\ unwound \subseteq Backends
    /\ \A b \in Backends :
          at[b] \in {"initializing", "running", "draining"} \cup Waits => proc[b] # "none"

-----------------------------------------------------------------------------
(* The listings. *)

(* validate_semantics: a listing is valid unless one of its subdomains is   *)
(* wrong or a valid listing above it, enabled or not, has one of its ports. *)
Valid(c) ==
    LET valid[i \in DOMAIN c] ==
            /\ c[i].routes
            /\ \A j \in 1 .. i - 1 : valid[j] =>
                  /\ c[j].port # c[i].port
                  /\ c[i].voice # None => c[j].voice # c[i].voice
    IN  {i \in DOMAIN c : valid[i]}

(* What is meant: no two valid listings have a port in common, and one is  *)
(* invalid only if its routes are wrong or it shares a port with a valid   *)
(* one above it.                                                           *)
Shares(l, m) == l.port = m.port \/ (l.voice # None /\ l.voice = m.voice)

MeantValid(c) ==
    /\ \A i, j \in Valid(c) : i # j => ~Shares(c[i], c[j])
    /\ \A i \in DOMAIN c \ Valid(c) :
          ~c[i].routes \/ \E j \in Valid(c) : j < i /\ Shares(c[i], c[j])

(* The proxies there are or will be. *)
Configured == {i \in Valid(config) : config[i].enabled}

PortsOf(i) ==
    {<<"tcp", config[i].port>>} \cup
    (IF config[i].voice = None THEN {} ELSE {<<"udp", config[i].voice>>})

(* _reserved_proxy_ports *)
Reserved == UNION {PortsOf(i) : i \in Configured \cup proxies}

Init ==
    /\ config \in Configs /\ changed = TRUE
    /\ proxies = {} /\ backends = {}
    /\ at = [b \in Backends |-> "off"]
    /\ proc = [b \in Backends |-> "none"]
    /\ uses = [b \in Backends |-> {}]
    /\ held = [b \in Backends |-> {}]
    /\ acquired = {} /\ unwound = {}

Reload ==
    /\ changed
    /\ changed' = FALSE
    /\ proxies' = proxies \cup Configured
    /\ backends' = Backends
    /\ UNCHANGED <<config, at, proc, portVars, unwound>>

(* A status answer has told a new version of the server. *)
UpdateConfig ==
    /\ \E b \in Backends : at[b] = "running" /\ proc[b] = "alive"
    /\ changed' = TRUE
    /\ UNCHANGED <<config, proxies, backends, at, proc, portVars, unwound>>

-----------------------------------------------------------------------------
(* The beginning of a backend's run. *)

(* The n smallest, or all there are. *)
Lowest(n, S) == {p \in S : Cardinality({q \in S : q < p}) < n}

(* The ports still taken when acquire_port is called: those of the backend's *)
(* last stack, if it was not closed, go when the stack is replaced.          *)
Taken(b) == acquired \ held[b]

(* Mutant: only the ports of proxies are avoided. *)
FreeOfProxies(b, protocol) == {p \in Ports : <<protocol, p>> \notin Reserved}

Free(b, protocol) == {p \in Ports : <<protocol, p>> \notin Taken(b) \cup Reserved}

(* Two TCP ports and, only when there were two, a UDP port. *)
Servers(b)  == {"tcp"} \X Lowest(2, Free(b, "tcp"))
Voice(b)    == IF b \in Voiced /\ Cardinality(Servers(b)) = 2
               THEN {"udp"} \X Lowest(1, Free(b, "udp")) ELSE {}
Acquires(b) == Servers(b) \cup Voice(b)
Enough(b)   == Cardinality(Acquires(b)) = IF b \in Voiced THEN 3 ELSE 2

(* Without an await: a port that cannot be acquired ends the start.        *)
Enter(b) ==
    /\ b \in backends /\ at[b] = "off"
    /\ held' = [held EXCEPT ![b] = Acquires(b)]
    /\ acquired' = Taken(b) \cup Acquires(b)
    /\ uses' = IF Enough(b) THEN [uses EXCEPT ![b] = Acquires(b)] ELSE uses
    /\ at' = [at EXCEPT ![b] = IF Enough(b) THEN "spawning" ELSE "closing"]
    /\ unwound' = IF proc[b] \in Live THEN unwound ELSE unwound \ {b}
    /\ UNCHANGED <<configVars, proc>>

Moves(b, from, to) == at[b] \in from /\ at' = [at EXCEPT ![b] = to]

(* A process left behind by an earlier exit is not followed any further.   *)
Spawn(b) ==
    /\ Moves(b, {"spawning"}, "initializing")
    /\ proc' = [proc EXCEPT ![b] = "alive"]
    /\ UNCHANGED <<configVars, portVars, unwound>>

(* The server has printed that it is done and answers pings, or has closed *)
(* its output, which is an error only for the log.                         *)
Ready(b) ==
    /\ Moves(b, {"initializing"}, "running")
    /\ UNCHANGED <<configVars, proc, portVars, unwound>>

(* An exception, a timeout or a forced stop during _start.                 *)
StartFails(b) ==
    /\ Moves(b, {"spawning", "initializing"}, "closing")
    /\ UNCHANGED <<configVars, proc, portVars, unwound>>

(* A stop, an exception, or the end of the process's output.               *)
RunEnds(b) ==
    /\ Moves(b, {"running"}, "closing")
    /\ UNCHANGED <<configVars, proc, portVars, unwound>>

-----------------------------------------------------------------------------
(* Its end. *)

(* Where _stop gets to once its units have stopped and the stack is closed: *)
(* without server_proc it raises; an end of the process it has not heard of *)
(* it waits for.                                                           *)
AfterClosing(b) ==
    CASE proc[b] = "none"   -> {"off"}
      [] proc[b] = "exited" -> {"draining", "stopping"}
      [] OTHER              -> {"stopping"}

(* Mutant: the ports are not released. *)
CloseHolding(b) ==
    /\ \E to \in AfterClosing(b) : Moves(b, {"closing"}, to)
    /\ held' = [held EXCEPT ![b] = {}]
    /\ UNCHANGED <<configVars, proc, uses, acquired, unwound>>

(* super()._stop returns: the ports are released and `stop' is written.    *)
Close(b) ==
    /\ \E to \in AfterClosing(b) : Moves(b, {"closing"}, to)
    /\ held' = [held EXCEPT ![b] = {}]
    /\ acquired' = acquired \ held[b]
    /\ UNCHANGED <<configVars, proc, uses, unwound>>

(* super()._stop is cancelled or raises (Supervisor's ExitNotInterrupted,  *)
(* ExitStopsUnits): neither the stack nor the process is seen to.          *)
CloseFails(b) ==
    /\ Moves(b, {"closing"}, "off")
    /\ unwound' = unwound \cup {b}
    /\ UNCHANGED <<configVars, proc, portVars>>

(* process.wait() returns. *)
Gone(b) ==
    /\ proc[b] = "exited"
    /\ Moves(b, Waits, "draining")
    /\ UNCHANGED <<configVars, proc, portVars, unwound>>

Kills(b) == proc' = IF proc[b] = "alive" THEN [proc EXCEPT ![b] = "killed"] ELSE proc

(* Mutant: SIGTERM is the last resort. *)
TimesOutKindly(b) ==
    /\ \/ Moves(b, {"stopping"}, "interrupting") /\ UNCHANGED proc
       \/ Moves(b, {"interrupting"}, "terminating") /\ UNCHANGED proc
       \/ Moves(b, {"terminating"}, "draining") /\ UNCHANGED proc
    /\ UNCHANGED <<configVars, portVars, unwound>>

(* SIGINT after `stop', SIGTERM after SIGINT, SIGKILL after SIGTERM.       *)
TimesOut(b) ==
    /\ \/ Moves(b, {"stopping"}, "interrupting") /\ UNCHANGED proc
       \/ Moves(b, {"interrupting"}, "terminating") /\ UNCHANGED proc
       \/ Moves(b, {"terminating"}, "draining") /\ Kills(b)
    /\ UNCHANGED <<configVars, portVars, unwound>>

(* A cancellation, or an exception of drain or send_signal when the process *)
(* ends just then: the finally block kills it, and nobody waits.           *)
Unwind(b) ==
    /\ \/ Moves(b, Waits, "off") /\ Kills(b)
       \/ Moves(b, {"draining"}, "off") /\ UNCHANGED proc
    /\ unwound' = unwound \cup {b}
    /\ UNCHANGED <<configVars, portVars>>

(* Mutant: the end of the pipes is not awaited. *)
DrainedAtOnce(b) ==
    /\ Moves(b, {"draining"}, "off")
    /\ UNCHANGED <<configVars, proc, portVars, unwound>>

(* Both of the process's pipes have ended.                                 *)
Drained(b) ==
    /\ proc[b] = "exited"
    /\ Moves(b, {"draining"}, "off")
    /\ UNCHANGED <<configVars, proc, portVars, unwound>>

(* The process ends, by itself or because it was told to. *)
Exits(b) ==
    /\ proc[b] \in Live
    /\ proc' = [proc EXCEPT ![b] = "exited"]
    /\ UNCHANGED <<configVars, at, portVars, unwound>>

-----------------------------------------------------------------------------
(* What the task of a backend does by itself. *)
Proceeds(b) ==
    \/ Spawn(b) \/ Ready(b) \/ StartFails(b)
    \/ proc[b] = "exited" /\ RunEnds(b)
    \/ Close(b) \/ Gone(b) \/ TimesOut(b) \/ Drained(b)

BackendSteps(b) ==
    Enter(b) \/ RunEnds(b) \/ Proceeds(b) \/ CloseFails(b) \/ Unwind(b) \/ Exits(b)

Next == Reload \/ UpdateConfig \/ \E b \in Backends : BackendSteps(b)

Spec == Init /\ [][Next]_vars

(* Every await of _start and _stop has a timeout or a unit that exits, the *)
(* end of a process's output is noticed, and SIGKILL works.                *)
FairSpec ==
    /\ Spec
    /\ \A b \in Backends :
          WF_vars(Proceeds(b)) /\ WF_vars(proc[b] = "killed" /\ Exits(b))

-----------------------------------------------------------------------------
(* A backend that serves shares no port with another one that does, nor    *)
(* with a proxy (orchestrator.py 61-103, backend.py 164-180).              *)
ServersApart ==
    \A b \in Backends : at[b] \in Serving =>
        /\ uses[b] \cap Reserved = {}
        /\ \A c \in Backends \ {b} : at[c] \in Serving => uses[b] \cap uses[c] = {}

(* However a run has ended, ports are acquired for a backend that holds    *)
(* them, and one at rest holds none and has no process, unless its exit    *)
(* was cut short (backend.py 239-330, orchestrator.py 97-103).             *)
LeavesNothing ==
    /\ acquired = UNION {held[b] : b \in Backends}
    /\ \A b \in Backends \ unwound : at[b] = "off" => held[b] = {} /\ proc[b] \notin Live

(* A backend that exits, or whose process has ended, comes to rest.        *)
Settles ==
    \A b \in Backends :
        (at[b] \in Exiting \/ (proc[b] = "exited" /\ at[b] \in {"initializing", "running"}))
            ~> at[b] = "off"

(* `Yield port and deallocate after its done being used' (orchestrator.py  *)
(* 97): no port is acquired for one backend while the process of another   *)
(* one, which is still being stopped, uses it.                             *)
DoneBeingUsed ==
    \A b, c \in Backends :
        b # c /\ proc[b] \in Live /\ at[b] # "off" => uses[b] \cap held[c] = {}
=============================================================================
