------------------------------ MODULE VoiceChat ------------------------------
(***************************************************************************)
(* The voice side of MCProxy (src/app/backend/core/proxy.py): which client *)
(* connections (sessions) of a player are tracked, and the UDP bridges     *)
(* that carry the player's voice packets to the backend of the session     *)
(* that is connected longest.                                              *)
(*                                                                         *)
(* The actors are, per session, the connection's handler and its tracking  *)
(* task; the listener, which queues datagrams; the packet handler, which   *)
(* suspends while it creates a bridge; the idle clean-up; and the task     *)
(* that runs and stops the proxy.  asyncio is cooperative: code between    *)
(* two awaits is one step.                                                 *)
(*                                                                         *)
(* A session stands for a client that connects, leaves and may connect     *)
(* again in the same way; its player, backend and address are constants.   *)
(***************************************************************************)
EXTENDS Naturals, Sequences, FiniteSets

CONSTANTS
    Sessions,   \* the client connections
    Players,    \* the players
    Backends,   \* the backends
    Addrs,      \* the UDP addresses datagrams come from
    Ips,        \* the IP addresses of clients
    PlayerOf,   \* the player a session logs in as
    BackendOf,  \* the backend it is forwarded to
    IpOf,       \* the IP address of its TCP peer
    IdOf,       \* the session ID given to it
    HostOf,     \* the IP address in a UDP address
    QueueSize,  \* VOICE_PACKET_QUEUE_SIZE
    IpBinding   \* listing.voice_ip_binding

ASSUME ConstantsAssumption ==
    /\ PlayerOf \in [Sessions -> Players]
    /\ BackendOf \in [Sessions -> Backends]
    /\ IpOf \in [Sessions -> Ips]
    /\ HostOf \in [Addrs -> Ips]
    /\ DOMAIN IdOf = Sessions
    /\ QueueSize \in Nat \ {0}
    /\ IpBinding \in BOOLEAN

VARIABLES
    conn,      \* a session's handler: "none", "open" or "closing"
    place,     \* where a session's tracking task is suspended
    cancelled, \* the sessions whose tracking task has been cancelled
    awaited,   \* the sessions whose tracking task _stop waits for
    recorded,  \* the sessions that have an entry in player_sessions
    older,     \* for a recorded session, those recorded before it
    bridge,    \* voice_bridges
    queue,     \* voice_packet_queue
    creating,  \* the bridge the packet handler is creating, if any
    listener,  \* "down", "up", or "lost" without the listener having noticed
    proxy      \* the proxy's own life

sessionVars == <<conn, place, cancelled, recorded, older>>
vars == <<sessionVars, awaited, bridge, queue, creating, listener, proxy>>

Keys    == Players \X Backends
Packets == [player : Players, addr : Addrs]
Absent  == [transport |-> "absent"]
Bridges == [transport : {"open", "closing", "closed"}, addr : Addrs, idle : BOOLEAN]

Creations == {<<>>} \cup {<<[key |-> k, addr |-> a]>> : k \in Keys, a \in Addrs}

TypeOK ==
    /\ conn \in [Sessions -> {"none", "open", "closing"}]
    /\ place \in [Sessions -> {"none", "created", "tracking", "ended"}]
    /\ cancelled \subseteq Sessions
    /\ awaited \subseteq Sessions
    /\ recorded \subseteq Sessions
    /\ older \in [Sessions -> SUBSET Sessions]
    /\ bridge \in [Keys -> Bridges \cup {Absent}]
    /\ queue \in Seq(Packets) /\ Len(queue) <= QueueSize
    /\ creating \in Creations
    /\ listener \in {"down", "up", "lost"}
    /\ proxy \in {"serving", "ended", "stopping", "down"}

Init ==
    /\ conn = [s \in Sessions |-> "none"]
    /\ place = [s \in Sessions |-> "none"]
    /\ cancelled = {}
    /\ awaited = {}
    /\ recorded = {}
    /\ older = [s \in Sessions |-> {}]
    /\ bridge = [k \in Keys |-> Absent]
    /\ queue = <<>>
    /\ creating = <<>>
    /\ listener = "down"
    /\ proxy = "serving"

-----------------------------------------------------------------------------
(* player_sessions[player], and its entry for the session's ID. *)
TrackedOf(p, tracked) == {s \in tracked : PlayerOf[s] = p}

EntryOf(s) == {r \in TrackedOf(PlayerOf[s], recorded) : IdOf[r] = IdOf[s]}

(* The entry with the smallest connection time, which selects the backend. *)
Longest(p, tracked) ==
    {s \in TrackedOf(p, tracked) : older[s] \cap TrackedOf(p, tracked) = {}}

SelectedBackends(p, tracked) == {BackendOf[s] : s \in Longest(p, tracked)}

-----------------------------------------------------------------------------
(* The connections' handlers. *)

(* The login packet is read and the tracking task is created. *)
Login(s) ==
    /\ conn[s] = "none"
    /\ conn' = [conn EXCEPT ![s] = "open"]
    /\ place' = [place EXCEPT ![s] = "created"]
    /\ UNCHANGED <<cancelled, recorded, older, awaited, bridge, queue, creating,
                   listener, proxy>>

(* Forwarding ends; the handler cancels the tracking task and waits for it. *)
Disconnect(s) ==
    /\ conn[s] = "open"
    /\ conn' = [conn EXCEPT ![s] = "closing"]
    /\ cancelled' = cancelled \cup {s}
    /\ UNCHANGED <<place, recorded, older, awaited, bridge, queue, creating,
                   listener, proxy>>

Leave(s) ==
    /\ conn[s] = "closing" /\ place[s] = "ended"
    /\ conn' = [conn EXCEPT ![s] = "none"]
    /\ place' = [place EXCEPT ![s] = "none"]
    /\ cancelled' = cancelled \ {s}
    /\ UNCHANGED <<recorded, older, awaited, bridge, queue, creating, listener, proxy>>

-----------------------------------------------------------------------------
(* _track_player_session. *)

(* The player's UUID is known or has been looked up: the session is        *)
(* recorded, unless its ID is there already.                               *)
Track(s) ==
    /\ place[s] = "created" /\ s \notin cancelled
    /\ place' = [place EXCEPT ![s] = "tracking"]
    /\ IF EntryOf(s) = {}
       THEN /\ recorded' = recorded \cup {s}
            /\ older' = [older EXCEPT ![s] = recorded]
       ELSE UNCHANGED <<recorded, older>>
    /\ UNCHANGED <<conn, cancelled, awaited, bridge, queue, creating, listener, proxy>>

(* The lookup fails, or the task is cancelled before it has recorded.      *)
NeverTrack(s) ==
    /\ place[s] = "created"
    /\ place' = [place EXCEPT ![s] = "ended"]
    /\ awaited' = awaited \ {s}
    /\ UNCHANGED <<conn, cancelled, recorded, older, bridge, queue, creating,
                   listener, proxy>>

(* _close_player_voice_bridges for every backend but those in keep. *)
CloseBridges(p, keep) ==
    bridge' = [k \in Keys |-> IF k[1] = p /\ k[2] \notin keep THEN Absent ELSE bridge[k]]

(* Mutants: the entries of all the player's sessions are removed, the      *)
(* bridges of the player are only closed with the last session, and the    *)
(* selected one is closed with the others.                                 *)
UntrackAll(s) ==
    /\ place[s] = "tracking" /\ s \in cancelled
    /\ place' = [place EXCEPT ![s] = "ended"]
    /\ awaited' = awaited \ {s}
    /\ recorded' = recorded \ TrackedOf(PlayerOf[s], recorded)
    /\ older' = [r \in Sessions |-> older[r] \ TrackedOf(PlayerOf[s], recorded)]
    /\ CloseBridges(PlayerOf[s], {})
    /\ UNCHANGED <<conn, cancelled, queue, creating, listener, proxy>>

UntrackQuietly(s) ==
    /\ place[s] = "tracking" /\ s \in cancelled
    /\ place' = [place EXCEPT ![s] = "ended"]
    /\ awaited' = awaited \ {s}
    /\ recorded' = recorded \ EntryOf(s)
    /\ older' = [r \in Sessions |-> older[r] \ EntryOf(s)]
    /\ IF EntryOf(s) = TrackedOf(PlayerOf[s], recorded)
       THEN CloseBridges(PlayerOf[s], {})
       ELSE UNCHANGED bridge
    /\ UNCHANGED <<conn, cancelled, queue, creating, listener, proxy>>

UntrackEvery(s) ==
    /\ place[s] = "tracking" /\ s \in cancelled
    /\ place' = [place EXCEPT ![s] = "ended"]
    /\ awaited' = awaited \ {s}
    /\ recorded' = recorded \ EntryOf(s)
    /\ older' = [r \in Sessions |-> older[r] \ EntryOf(s)]
    /\ IF EntryOf(s) = {} THEN UNCHANGED bridge ELSE CloseBridges(PlayerOf[s], {})
    /\ UNCHANGED <<conn, cancelled, queue, creating, listener, proxy>>

(* The cancelled task removes the entry of its ID and closes the player's  *)
(* bridges but the one to the backend that is selected then.               *)
Untrack(s) ==
    /\ place[s] = "tracking" /\ s \in cancelled
    /\ place' = [place EXCEPT ![s] = "ended"]
    /\ awaited' = awaited \ {s}
    /\ recorded' = recorded \ EntryOf(s)
    /\ older' = [r \in Sessions |-> older[r] \ EntryOf(s)]
    /\ IF EntryOf(s) = {}
       THEN UNCHANGED bridge
       ELSE CloseBridges(PlayerOf[s], SelectedBackends(PlayerOf[s], recorded \ EntryOf(s)))
    /\ UNCHANGED <<conn, cancelled, queue, creating, listener, proxy>>

-----------------------------------------------------------------------------
(* The listener (VoiceProxy, _run_voice_listener); voice_transport is set   *)
(* in "up" and "lost".                                                     *)

ListenerStarts ==
    /\ proxy = "serving" /\ listener = "down"
    /\ listener' = "up"
    /\ UNCHANGED <<sessionVars, awaited, bridge, queue, creating, proxy>>

ListenerLost ==
    /\ listener = "up"
    /\ listener' = "lost"
    /\ UNCHANGED <<sessionVars, awaited, bridge, queue, creating, proxy>>

ListenerNotices ==
    /\ proxy = "serving" /\ listener = "lost"
    /\ listener' = "down"
    /\ UNCHANGED <<sessionVars, awaited, bridge, queue, creating, proxy>>

(* A voice packet is queued; one that finds the queue full is dropped.     *)
Datagram(p, a) ==
    /\ listener = "up"
    /\ Len(queue) < QueueSize
    /\ queue' = Append(queue, [player |-> p, addr |-> a])
    /\ UNCHANGED <<sessionVars, awaited, bridge, creating, listener, proxy>>

-----------------------------------------------------------------------------
(* The packet handler (_handle_voice_packets, _get_or_create_voice_bridge). *)

Connected(k) == bridge[k].transport \in {"open", "closing"}

(* A bridge's transport changes state; its last activity becomes recent or  *)
(* old.                                                                    *)
WithTransport(k, t) ==
    [bridge EXCEPT ![k] = [transport |-> t, addr |-> bridge[k].addr, idle |-> bridge[k].idle]]

WithIdle(k, i) ==
    [bridge EXCEPT ![k] = [transport |-> bridge[k].transport, addr |-> bridge[k].addr, idle |-> i]]

(* The handler takes the next packet. *)
Take(p, a) ==
    /\ proxy = "serving" /\ creating = <<>>
    /\ queue # <<>> /\ Head(queue) = [player |-> p, addr |-> a]
    /\ queue' = Tail(queue)

(* The player is tracked, and the packet comes from where the player is.   *)
Accepted(p, a, b) ==
    \E s \in Longest(p, recorded) :
        BackendOf[s] = b /\ (IpBinding => IpOf[s] = HostOf[a])

(* The backend may have no voice server, or none any more. *)
DropPacket(p, a, available) ==
    /\ Take(p, a)
    /\ ~available \/ \A b \in Backends : ~Accepted(p, a, b)
    /\ UNCHANGED <<sessionVars, awaited, bridge, creating, listener, proxy>>

Usable(k, a) == Connected(k) /\ bridge[k].addr = a

(* VoiceBridge.forward: the packet is sent and the bridge is not idle.     *)
Forward(p, a, b) ==
    /\ Take(p, a) /\ Accepted(p, a, b) /\ Usable(<<p, b>>, a)
    /\ bridge' = WithIdle(<<p, b>>, FALSE)
    /\ UNCHANGED <<sessionVars, awaited, creating, listener, proxy>>

(* The old bridge's transport. Mutant: it is not closed. *)
LeaveOpen(k) == bridge

CloseOld(k) ==
    IF bridge[k].transport = "open" THEN WithTransport(k, "closing") ELSE bridge

(* A connected bridge to another address is closed; the handler suspends   *)
(* in create_datagram_endpoint, or fails its assertion without a listener. *)
CreateBridge(p, a, b) ==
    /\ Take(p, a) /\ Accepted(p, a, b) /\ ~Usable(<<p, b>>, a)
    /\ bridge' = CloseOld(<<p, b>>)
    /\ creating' = IF listener = "down" THEN <<>> ELSE <<[key |-> <<p, b>>, addr |-> a]>>
    /\ UNCHANGED <<sessionVars, awaited, listener, proxy>>

(* The bridge is stored and the packet that asked for it is forwarded.     *)
Created ==
    /\ creating # <<>>
    /\ bridge' = [bridge EXCEPT ![creating[1].key] =
                     [transport |-> "open", addr |-> creating[1].addr, idle |-> FALSE]]
    /\ creating' = <<>>
    /\ UNCHANGED <<sessionVars, awaited, queue, listener, proxy>>

CreateFails ==
    /\ creating # <<>>
    /\ creating' = <<>>
    /\ UNCHANGED <<sessionVars, awaited, bridge, queue, listener, proxy>>

-----------------------------------------------------------------------------
(* The bridges (VoiceBridge, _cleanup_voice_bridges). *)

(* connection_lost, after close() or on an error. *)
ConnectionLost(k) ==
    /\ Connected(k)
    /\ bridge' = WithTransport(k, "closed")
    /\ UNCHANGED <<sessionVars, awaited, queue, creating, listener, proxy>>

(* A backend sends to a player only while the player is connected to it.   *)
ConnectedTo(p, b) == \E s \in Sessions : conn[s] = "open" /\ PlayerOf[s] = p /\ BackendOf[s] = b

BackendSends(p, b) ==
    /\ bridge[<<p, b>>].transport = "open" /\ ConnectedTo(p, b)
    /\ bridge' = WithIdle(<<p, b>>, FALSE)
    /\ UNCHANGED <<sessionVars, awaited, queue, creating, listener, proxy>>

(* VOICE_BRIDGE_IDLE_TIMEOUT has passed since the last activity.           *)
BecomeIdle(k) ==
    /\ bridge[k] # Absent /\ ~bridge[k].idle
    /\ bridge' = WithIdle(k, TRUE)
    /\ UNCHANGED <<sessionVars, awaited, queue, creating, listener, proxy>>

(* Mutant: only bridges that are no longer connected are removed. *)
StaleClosed == {k \in Keys : bridge[k] # Absent /\ bridge[k].idle /\ ~Connected(k)}

Stale == {k \in Keys : bridge[k] # Absent /\ bridge[k].idle}

Cleanup ==
    /\ proxy = "serving" /\ Stale # {}
    /\ bridge' = [k \in Keys |-> IF k \in Stale THEN Absent ELSE bridge[k]]
    /\ UNCHANGED <<sessionVars, awaited, queue, creating, listener, proxy>>

-----------------------------------------------------------------------------
(* The proxy's run() ends and _stop runs; the unit may be started again.   *)

(* The listener, the packet handler and the clean-up are cancelled. Mutant: *)
(* the packet handler is not.                                              *)
EndListening ==
    /\ proxy = "serving"
    /\ proxy' = "ended"
    /\ listener' = "down"
    /\ UNCHANGED <<sessionVars, awaited, bridge, queue, creating>>

EndRun ==
    /\ proxy = "serving"
    /\ proxy' = "ended"
    /\ listener' = "down"
    /\ creating' = <<>>
    /\ UNCHANGED <<sessionVars, awaited, bridge, queue>>

CancelSessions ==
    /\ proxy = "ended"
    /\ proxy' = "stopping"
    /\ awaited' = {s \in Sessions : place[s] \in {"created", "tracking"}}
    /\ cancelled' = cancelled \cup awaited'
    /\ UNCHANGED <<conn, place, recorded, older, bridge, queue, creating, listener>>

CloseAll ==
    /\ proxy = "stopping" /\ awaited = {}
    /\ proxy' = "down"
    /\ bridge' = [k \in Keys |-> Absent]
    /\ UNCHANGED <<sessionVars, awaited, queue, creating, listener>>

Restart ==
    /\ proxy = "down"
    /\ proxy' = "serving"
    /\ UNCHANGED <<sessionVars, awaited, bridge, queue, creating, listener>>

-----------------------------------------------------------------------------
SessionSteps(s) ==
    Login(s) \/ Disconnect(s) \/ Leave(s) \/ Track(s) \/ NeverTrack(s) \/ Untrack(s)

PacketSteps(p, a) ==
    \/ Datagram(p, a)
    \/ \E available \in BOOLEAN : DropPacket(p, a, available)
    \/ \E b \in Backends : Forward(p, a, b) \/ CreateBridge(p, a, b)

BridgeSteps(k) == ConnectionLost(k) \/ BackendSends(k[1], k[2]) \/ BecomeIdle(k)

ProxySteps ==
    \/ ListenerStarts \/ ListenerLost \/ ListenerNotices
    \/ Created \/ CreateFails \/ Cleanup
    \/ EndRun \/ CancelSessions \/ CloseAll \/ Restart

Next ==
    \/ \E s \in Sessions : SessionSteps(s)
    \/ \E p \in Players, a \in Addrs : PacketSteps(p, a)
    \/ \E k \in Keys : BridgeSteps(k)
    \/ ProxySteps

Spec == Init /\ [][Next]_vars

(* Tasks that are ready get their turn, a cancelled task ends, and time     *)
(* passes. Clients and the listener's socket do what they like.            *)
FairSpec ==
    /\ Spec
    /\ \A s \in Sessions : WF_vars(Untrack(s)) /\ WF_vars(s \in cancelled /\ NeverTrack(s))
    /\ \A k \in Keys : WF_vars(BecomeIdle(k))
    /\ WF_vars(Cleanup) /\ WF_vars(CancelSessions) /\ WF_vars(CloseAll)

-----------------------------------------------------------------------------
Open(k) == bridge[k].transport = "open"

(* The player is tracked and this is the bridge to the selected backend. *)
Justified(k) == k[2] \in SelectedBackends(k[1], recorded)

(* A session is recorded exactly while its own tracking task waits: the    *)
(* end of a session removes its own entry and no other (the docstring at   *)
(* 367-368, and the warning at 412 is never logged).                       *)
OwnEntryOnly == recorded = {s \in Sessions : place[s] = "tracking"}

(* A session of a player that begins or ends leaves alone the bridge to    *)
(* the backend of the session connected longest: nobody loses the voice    *)
(* connection because another client logs in with the same UUID (658-659). *)
KeepsSelected ==
    [][recorded' # recorded =>
          \A k \in Keys : Justified(k)' => bridge'[k] = bridge[k]]_vars

(* An open bridge that no tracked session selects comes from one window    *)
(* only: the session ended while its bridge was being created (698).       *)
StraysFromCreation ==
    [][\A k \in Keys : Open(k)' /\ ~Justified(k)' =>
          \/ Open(k) /\ ~Justified(k)
          \/ creating # <<>> /\ creating' = <<>>]_vars

(* A bridge that is stored never replaces one that is still open, whose    *)
(* socket nobody would close any more.                                     *)
NoLeak == creating # <<>> => ~Open(creating[1].key)

(* A proxy that has stopped has closed every bridge and makes no new one.  *)
StoppedClean ==
    proxy = "down" => creating = <<>> /\ \A k \in Keys : bridge[k] = Absent

(* A bridge to a backend that the player has left is closed in the end,    *)
(* also a stray one.                                                       *)
AbandonedCloses ==
    \A k \in Keys : Open(k) /\ ~ConnectedTo(k[1], k[2])
                        ~> ~Open(k) \/ ConnectedTo(k[1], k[2])

-----------------------------------------------------------------------------
(* The comment at 696: a bridge is only created with a listener. *)
CreatesWithListener ==
    [][\A p \in Players, a \in Addrs, b \in Backends :
          CreateBridge(p, a, b) => listener # "down"]_vars
=============================================================================
