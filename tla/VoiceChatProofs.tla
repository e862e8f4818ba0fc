--------------------------- MODULE VoiceChatProofs ---------------------------
(* Theorems about VoiceChat, for any clients, players, backends and         *)
(* addresses.                                                              *)
EXTENDS VoiceChat, TLAPS

USE ConstantsAssumption

-----------------------------------------------------------------------------
(* Type correctness. *)

LEMMA CloseKeepsType ==
    ASSUME bridge \in [Keys -> Bridges \cup {Absent}], NEW p, NEW keep, CloseBridges(p, keep)
    PROVE  bridge' \in [Keys -> Bridges \cup {Absent}]
  BY DEF CloseBridges

LEMMA WithKeepsType ==
    ASSUME bridge \in [Keys -> Bridges \cup {Absent}],
           NEW k \in Keys, bridge[k] \in Bridges,
           NEW t \in {"open", "closing", "closed"}, NEW i \in BOOLEAN
    PROVE  /\ WithTransport(k, t) \in [Keys -> Bridges \cup {Absent}]
           /\ WithIdle(k, i) \in [Keys -> Bridges \cup {Absent}]
  <1>1. bridge[k].addr \in Addrs /\ bridge[k].idle \in BOOLEAN
    BY DEF Bridges
  <1>2. bridge[k].transport \in {"open", "closing", "closed"}
    BY DEF Bridges
  <1>3. [transport |-> t, addr |-> bridge[k].addr, idle |-> bridge[k].idle] \in Bridges
    BY <1>1 DEF Bridges
  <1>4. [transport |-> bridge[k].transport, addr |-> bridge[k].addr, idle |-> i] \in Bridges
    BY <1>1, <1>2 DEF Bridges
  <1> QED BY <1>3, <1>4 DEF WithTransport, WithIdle

(* Only a bridge that is in the map is connected. *)
LEMMA ConnectedIsBridge ==
    ASSUME bridge \in [Keys -> Bridges \cup {Absent}], NEW k \in Keys, Connected(k)
    PROVE  bridge[k] \in Bridges
  BY DEF Connected, Absent

LEMMA PacketKeepsType ==
    ASSUME TypeOK, NEW p \in Players, NEW a \in Addrs, PacketSteps(p, a)
    PROVE  TypeOK'
  <1>1. CASE Datagram(p, a)
    <2>1. [player |-> p, addr |-> a] \in Packets
      BY DEF Packets
    <2>2. queue' \in Seq(Packets) /\ Len(queue') = Len(queue) + 1
      BY <1>1, <2>1 DEF Datagram, TypeOK
    <2> QED BY <1>1, <2>2 DEF Datagram, TypeOK, sessionVars
  <1>2. ASSUME Take(p, a)
        PROVE  queue' \in Seq(Packets) /\ Len(queue') <= QueueSize
    BY <1>2 DEF Take, TypeOK
  <1>3. ASSUME NEW available \in BOOLEAN, DropPacket(p, a, available)
        PROVE  TypeOK'
    BY <1>3, <1>2 DEF DropPacket, TypeOK, sessionVars
  <1>4. ASSUME NEW b \in Backends
        PROVE  <<p, b>> \in Keys
    BY DEF Keys
  <1>5. ASSUME NEW b \in Backends, Forward(p, a, b)
        PROVE  TypeOK'
    <2>1. bridge[<<p, b>>] \in Bridges
      BY <1>4, <1>5, ConnectedIsBridge DEF Forward, Usable, TypeOK
    <2>2. bridge' \in [Keys -> Bridges \cup {Absent}]
      BY <1>4, <1>5, <2>1, WithKeepsType DEF Forward, TypeOK
    <2> QED BY <1>5, <1>2, <2>2 DEF Forward, TypeOK, sessionVars
  <1>6. ASSUME NEW b \in Backends, CreateBridge(p, a, b)
        PROVE  TypeOK'
    <2>1. bridge' \in [Keys -> Bridges \cup {Absent}]
      <3>1. CASE bridge[<<p, b>>].transport = "open"
        BY <1>4, <1>6, <3>1, WithKeepsType, ConnectedIsBridge
           DEF CreateBridge, CloseOld, Connected, TypeOK
      <3>2. CASE bridge[<<p, b>>].transport # "open"
        BY <1>6, <3>2 DEF CreateBridge, CloseOld, TypeOK
      <3> QED BY <3>1, <3>2
    <2>2. creating' \in Creations
      BY <1>4, <1>6 DEF CreateBridge, Creations
    <2> QED BY <1>6, <1>2, <2>1, <2>2 DEF CreateBridge, TypeOK, sessionVars
  <1> QED BY <1>1, <1>3, <1>5, <1>6 DEF PacketSteps

LEMMA SessionKeepsType ==
    ASSUME TypeOK, NEW s \in Sessions, SessionSteps(s)
    PROVE  TypeOK'
  <1>1. CASE Login(s) \/ Disconnect(s) \/ Leave(s) \/ NeverTrack(s)
    BY <1>1 DEF Login, Disconnect, Leave, NeverTrack, TypeOK
  <1>2. CASE Track(s)
    <2>1. recorded' \subseteq Sessions /\ older' \in [Sessions -> SUBSET Sessions]
      BY <1>2 DEF Track, TypeOK
    <2>2. place' \in [Sessions -> {"none", "created", "tracking", "ended"}]
      BY <1>2 DEF Track, TypeOK
    <2> QED BY <1>2, <2>1, <2>2 DEF Track, TypeOK
  <1>3. CASE Untrack(s)
    <2>1. bridge' \in [Keys -> Bridges \cup {Absent}]
      BY <1>3, CloseKeepsType DEF Untrack, TypeOK
    <2>2. older' \in [Sessions -> SUBSET Sessions]
      BY <1>3 DEF Untrack, TypeOK
    <2> QED BY <1>3, <2>1, <2>2 DEF Untrack, TypeOK
  <1> QED BY <1>1, <1>2, <1>3 DEF SessionSteps

LEMMA BridgeKeepsType ==
    ASSUME TypeOK, NEW k \in Keys, BridgeSteps(k)
    PROVE  TypeOK'
  <1>1. <<k[1], k[2]>> = k
    BY DEF Keys
  <1>2. CASE ConnectionLost(k)
    <2>1. bridge' \in [Keys -> Bridges \cup {Absent}]
      BY <1>2, WithKeepsType, ConnectedIsBridge DEF ConnectionLost, TypeOK
    <2> QED BY <1>2, <2>1 DEF ConnectionLost, TypeOK, sessionVars
  <1>3. CASE BackendSends(k[1], k[2])
    <2>1. bridge' \in [Keys -> Bridges \cup {Absent}]
      BY <1>1, <1>3, WithKeepsType, ConnectedIsBridge DEF BackendSends, Connected, TypeOK
    <2> QED BY <1>3, <2>1 DEF BackendSends, TypeOK, sessionVars
  <1>4. CASE BecomeIdle(k)
    <2>1. bridge[k] \in Bridges
      BY <1>4 DEF BecomeIdle, TypeOK
    <2>2. bridge' \in [Keys -> Bridges \cup {Absent}]
      BY <1>4, <2>1, WithKeepsType DEF BecomeIdle, TypeOK
    <2> QED BY <1>4, <2>2 DEF BecomeIdle, TypeOK, sessionVars
  <1> QED BY <1>2, <1>3, <1>4 DEF BridgeSteps

LEMMA ProxyKeepsType ==
    ASSUME TypeOK, ProxySteps
    PROVE  TypeOK'
  <1>1. CASE Created
    <2>1. PICK k \in Keys, a \in Addrs : creating = <<[key |-> k, addr |-> a]>>
      BY <1>1 DEF Created, TypeOK, Creations
    <2>2. bridge' = [bridge EXCEPT ![k] = [transport |-> "open", addr |-> a, idle |-> FALSE]]
      BY <1>1, <2>1 DEF Created
    <2>3. bridge' \in [Keys -> Bridges \cup {Absent}]
      BY <2>2 DEF TypeOK, Bridges
    <2> QED BY <1>1, <2>3 DEF Created, TypeOK, Creations, sessionVars
  <1>2. CASE CancelSessions
    BY <1>2 DEF CancelSessions, TypeOK
  <1>3. CASE CreateFails \/ Cleanup \/ CloseAll
    BY <1>3 DEF CreateFails, Cleanup, CloseAll, TypeOK, Creations, sessionVars
  <1>4. CASE ListenerStarts \/ ListenerLost \/ ListenerNotices \/ EndRun \/ Restart
    BY <1>4 DEF ListenerStarts, ListenerLost, ListenerNotices, EndRun, Restart, TypeOK, Creations, sessionVars
  <1> QED BY <1>1, <1>2, <1>3, <1>4 DEF ProxySteps

LEMMA NextKeepsType == TypeOK /\ [Next]_vars => TypeOK'
  <1> SUFFICES ASSUME TypeOK, [Next]_vars
               PROVE  TypeOK'
    OBVIOUS
  <1>1. CASE UNCHANGED vars
    BY <1>1 DEF TypeOK, vars, sessionVars
  <1> QED BY <1>1, PacketKeepsType, SessionKeepsType, BridgeKeepsType, ProxyKeepsType DEF Next

(* Every reachable state is well typed. *)
THEOREM TypeCorrect == Spec => []TypeOK
  <1>1. Init => TypeOK
    BY DEF Init, TypeOK, Creations
  <1> QED BY <1>1, NextKeepsType, PTL DEF Spec

-----------------------------------------------------------------------------
(* Bridges. *)

(* No step but the end of a creation opens a bridge. *)
LEMMA OnlyCreatedOpens ==
    ASSUME TypeOK, [Next]_vars, ~Created, NEW k \in Keys, Open(k)'
    PROVE  Open(k)
  <1>1. ASSUME NEW l \in Keys, NEW t \in {"closing", "closed"}, bridge' = WithTransport(l, t)
        PROVE  Open(k)
    BY <1>1 DEF WithTransport, Open, TypeOK
  <1>2. ASSUME NEW l \in Keys, NEW i \in BOOLEAN, bridge' = WithIdle(l, i)
        PROVE  Open(k)
    BY <1>2 DEF WithIdle, Open, TypeOK
  <1>3. CASE bridge' = bridge
    BY <1>3 DEF Open
  <1>4. ASSUME NEW s \in Sessions, SessionSteps(s)
        PROVE  Open(k)
    <2>1. CASE Untrack(s)
      BY <2>1 DEF Untrack, CloseBridges, Open, Absent
    <2>2. CASE ~Untrack(s)
      BY <1>3, <1>4, <2>2 DEF SessionSteps, Login, Disconnect, Leave, Track, NeverTrack
    <2> QED BY <2>1, <2>2
  <1>5. ASSUME NEW p \in Players, NEW a \in Addrs, PacketSteps(p, a)
        PROVE  Open(k)
    <2>1. ASSUME NEW b \in Backends
          PROVE  <<p, b>> \in Keys
      BY DEF Keys
    <2>2. ASSUME NEW b \in Backends, Forward(p, a, b)
          PROVE  Open(k)
      BY <1>2, <2>1, <2>2 DEF Forward
    <2>3. ASSUME NEW b \in Backends, CreateBridge(p, a, b)
          PROVE  Open(k)
      BY <1>1, <1>3, <2>1, <2>3 DEF CreateBridge, CloseOld
    <2>4. CASE Datagram(p, a)
      BY <1>3, <2>4 DEF Datagram
    <2>5. ASSUME NEW available \in BOOLEAN, DropPacket(p, a, available)
          PROVE  Open(k)
      BY <1>3, <2>5 DEF DropPacket
    <2> QED BY <1>5, <2>2, <2>3, <2>4, <2>5 DEF PacketSteps
  <1>6. ASSUME NEW l \in Keys, BridgeSteps(l)
        PROVE  Open(k)
    <2>1. <<l[1], l[2]>> = l
      BY DEF Keys
    <2> QED BY <1>1, <1>2, <1>6, <2>1 DEF BridgeSteps, ConnectionLost, BackendSends, BecomeIdle
  <1>7. CASE ProxySteps
    <2>1. CASE Cleanup \/ CloseAll
      BY <2>1 DEF Cleanup, CloseAll, Open, Absent
    <2>2. CASE ~(Cleanup \/ CloseAll)
      BY <1>3, <1>7, <2>2 DEF ProxySteps, ListenerStarts, ListenerLost, ListenerNotices,
         CreateFails, EndRun, CancelSessions, Restart
    <2> QED BY <2>1, <2>2
  <1> QED BY <1>3, <1>4, <1>5, <1>6, <1>7 DEF Next, vars

(* Which steps change the creation that is under way. *)
LEMMA WhoCreates ==
    ASSUME [Next]_vars, creating' # creating
    PROVE  \/ creating' = <<>>
           \/ \E p \in Players, a \in Addrs, b \in Backends : CreateBridge(p, a, b)
  BY DEF Next, vars, sessionVars, SessionSteps, PacketSteps, BridgeSteps, ProxySteps,
     Login, Disconnect, Leave, Track, NeverTrack, Untrack, Datagram, DropPacket, Forward,
     ConnectionLost, BackendSends, BecomeIdle, ListenerStarts, ListenerLost, ListenerNotices,
     Created, CreateFails, Cleanup, EndRun, CancelSessions, CloseAll, Restart

LEMMA NextKeepsNoLeak == TypeOK /\ NoLeak /\ [Next]_vars => NoLeak'
  <1> SUFFICES ASSUME TypeOK, NoLeak, [Next]_vars, creating' # <<>>
               PROVE  ~Open(creating[1].key)'
    BY DEF NoLeak, Open
  <1>1. CASE creating' = creating
    <2>1. PICK k \in Keys, a \in Addrs : creating = <<[key |-> k, addr |-> a]>>
      BY <1>1 DEF TypeOK, Creations
    <2>2. creating[1].key = k /\ ~Open(k)
      BY <1>1, <2>1 DEF NoLeak
    <2>3. ~Created
      BY <1>1 DEF Created
    <2>4. ~Open(k)'
      BY <2>2, <2>3, OnlyCreatedOpens
    <2> QED BY <1>1, <2>2, <2>4 DEF Open
  <1>2. CASE creating' # creating
    <2>1. PICK p \in Players, a \in Addrs, b \in Backends : CreateBridge(p, a, b)
      BY <1>2, WhoCreates
    <2>2. creating'[1].key = <<p, b>> /\ <<p, b>> \in Keys
      BY <2>1 DEF CreateBridge, Keys
    <2>3. bridge'[<<p, b>>].transport # "open"
      BY <2>1, <2>2 DEF CreateBridge, CloseOld, WithTransport, TypeOK
    <2> QED BY <2>2, <2>3 DEF Open
  <1> QED BY <1>1, <1>2

(* The bridge that the handler stores when it resumes never replaces an open *)
(* one: every socket that is opened is closed by somebody (proxy.py 685-703). *)
THEOREM NothingLeaks == Spec => []NoLeak
  <1>1. Init => NoLeak
    BY DEF Init, NoLeak
  <1> QED BY <1>1, TypeCorrect, NextKeepsNoLeak, PTL DEF Spec

-----------------------------------------------------------------------------
(* A proxy that has stopped. *)

(* Outside the run nothing is being created; the strengthening of            *)
(* StoppedClean, which says so of the last state only.                       *)
QuietOutsideRun == proxy # "serving" => creating = <<>>

LEMMA NextKeepsQuiet == QuietOutsideRun /\ [Next]_vars => QuietOutsideRun'
  <1> SUFFICES ASSUME QuietOutsideRun, [Next]_vars, creating' # creating
               PROVE  creating' = <<>> \/ proxy' = "serving"
    <2>1. CASE creating' = creating
      BY <2>1 DEF QuietOutsideRun, Next, vars, sessionVars, SessionSteps, PacketSteps,
         BridgeSteps, ProxySteps, Login, Disconnect, Leave, Track, NeverTrack, Untrack,
         Datagram, DropPacket, Forward, CreateBridge, ConnectionLost, BackendSends, BecomeIdle,
         ListenerStarts, ListenerLost, ListenerNotices, Created, CreateFails, Cleanup,
         EndRun, CancelSessions, CloseAll, Restart
    <2> QED BY <2>1 DEF QuietOutsideRun
  <1> QED BY WhoCreates DEF CreateBridge, Take

LEMMA NextKeepsStopped ==
    TypeOK /\ QuietOutsideRun /\ StoppedClean /\ [Next]_vars => StoppedClean'
  <1> SUFFICES ASSUME TypeOK, QuietOutsideRun, StoppedClean, [Next]_vars, proxy' = "down"
               PROVE  creating' = <<>> /\ \A k \in Keys : bridge'[k] = Absent
    BY DEF StoppedClean
  <1>1. creating' = <<>>
    BY NextKeepsQuiet DEF QuietOutsideRun
  <1>2. CASE CloseAll
    BY <1>1, <1>2 DEF CloseAll
  <1>3. CASE ~CloseAll
    <2>1. proxy = "down"
      BY <1>3 DEF Next, vars, sessionVars, SessionSteps, PacketSteps,
         BridgeSteps, ProxySteps, Login, Disconnect, Leave, Track, NeverTrack, Untrack,
         Datagram, DropPacket, Forward, CreateBridge, ConnectionLost, BackendSends, BecomeIdle,
         ListenerStarts, ListenerLost, ListenerNotices, Created, CreateFails, Cleanup,
         EndRun, CancelSessions, CloseAll, Restart
    <2>2. creating = <<>> /\ \A k \in Keys : bridge[k] = Absent
      BY <2>1 DEF StoppedClean
    <2>3. \A k \in Keys : <<k[1], k[2]>> = k /\ ~Connected(k) /\ ~Open(k)
      BY <2>2 DEF Connected, Open, Absent, Keys
    <2>4. \A k \in Keys : ~BridgeSteps(k)
      BY <2>2, <2>3 DEF BridgeSteps, ConnectionLost, BackendSends, BecomeIdle, Open
    <2>5. ASSUME NEW s \in Sessions, SessionSteps(s)
          PROVE  \A k \in Keys : bridge'[k] = Absent
      BY <2>2, <2>5 DEF SessionSteps, Login, Disconnect, Leave, Track, NeverTrack, Untrack,
         CloseBridges
    <2>6. ASSUME NEW p \in Players, NEW a \in Addrs, PacketSteps(p, a)
          PROVE  bridge' = bridge
      BY <2>1, <2>6 DEF PacketSteps, Datagram, DropPacket, Forward, CreateBridge, Take
    <2>7. ASSUME ProxySteps
          PROVE  bridge' = bridge
      BY <1>3, <2>1, <2>2, <2>7 DEF ProxySteps, ListenerStarts, ListenerLost, ListenerNotices,
         Created, CreateFails, Cleanup, EndRun, CancelSessions, Restart
    <2> QED BY <1>1, <2>2, <2>4, <2>5, <2>6, <2>7 DEF Next, vars
  <1> QED BY <1>2, <1>3

(* A proxy that has stopped holds no bridge and makes none, whatever was     *)
(* queued or under way when it was stopped (173-186, 800-816).               *)
THEOREM StoppedIsClean == Spec => []StoppedClean
  <1>1. Init => StoppedClean /\ QuietOutsideRun
    BY DEF Init, StoppedClean, QuietOutsideRun
  <1> QED BY <1>1, TypeCorrect, NextKeepsQuiet, NextKeepsStopped, PTL DEF Spec

-----------------------------------------------------------------------------
(* The tracked sessions. *)

(* What the tracking tasks keep true for any IDs: an entry belongs to a task *)
(* that still waits, and `older` relates the entries only.                   *)
TrackInv ==
    /\ \A s \in Sessions : conn[s] = "none" => place[s] = "none"
    /\ \A s \in recorded : place[s] = "tracking" /\ older[s] \subseteq recorded

LEMMA OwnEntry ==
    ASSUME NEW s \in Sessions, s \in recorded
    PROVE  s \in EntryOf(s)
  BY DEF EntryOf, TrackedOf

LEMMA NextKeepsTrackInv == TypeOK /\ TrackInv /\ [Next]_vars => TrackInv'
  <1> SUFFICES ASSUME TypeOK, TrackInv, [Next]_vars
               PROVE  TrackInv'
    OBVIOUS
  <1>1. CASE UNCHANGED <<conn, place, recorded, older>>
    BY <1>1 DEF TrackInv
  <1>2. ASSUME NEW s \in Sessions, Login(s) \/ Disconnect(s) \/ Leave(s) \/ NeverTrack(s)
        PROVE  TrackInv'
    <2>1. CASE Disconnect(s)
      BY <2>1 DEF TrackInv, Disconnect, TypeOK
    <2>2. CASE Login(s) \/ Leave(s) \/ NeverTrack(s)
      <3>1. s \notin recorded
        BY <2>2 DEF TrackInv, Login, Leave, NeverTrack
      <3> QED BY <2>2, <3>1 DEF TrackInv, Login, Leave, NeverTrack, TypeOK
    <2> QED BY <1>2, <2>1, <2>2
  <1>3. ASSUME NEW s \in Sessions, Track(s)
        PROVE  TrackInv'
    <2>1. s \notin recorded
      BY <1>3 DEF TrackInv, Track
    <2>2. place' = [place EXCEPT ![s] = "tracking"] /\ conn' = conn
      BY <1>3 DEF Track
    <2>3. CASE EntryOf(s) = {}
      <3>1. recorded' = recorded \cup {s} /\ older' = [older EXCEPT ![s] = recorded]
        BY <1>3, <2>3 DEF Track
      <3> QED BY <1>3, <2>1, <2>2, <3>1 DEF TrackInv, Track, TypeOK
    <2>4. CASE EntryOf(s) # {}
      <3>1. recorded' = recorded /\ older' = older
        BY <1>3, <2>4 DEF Track
      <3> QED BY <1>3, <2>2, <3>1 DEF TrackInv, Track, TypeOK
    <2> QED BY <2>3, <2>4
  <1>4. ASSUME NEW s \in Sessions, Untrack(s)
        PROVE  TrackInv'
    <2>1. s \notin recorded'
      BY <1>4, OwnEntry DEF Untrack
    <2> QED BY <1>4, <2>1 DEF TrackInv, Untrack, TypeOK
  <1>5. ASSUME NEW p \in Players, NEW a \in Addrs, PacketSteps(p, a)
        PROVE  UNCHANGED sessionVars
    BY <1>5 DEF PacketSteps, Datagram, DropPacket, Forward, CreateBridge
  <1>6. ASSUME NEW k \in Keys, BridgeSteps(k)
        PROVE  UNCHANGED sessionVars
    BY <1>6 DEF BridgeSteps, ConnectionLost, BackendSends, BecomeIdle
  <1>7. ASSUME ProxySteps
        PROVE  UNCHANGED <<conn, place, recorded, older>>
    BY <1>7 DEF ProxySteps, ListenerStarts, ListenerLost, ListenerNotices, Created, CreateFails,
       Cleanup, EndRun, CancelSessions, CloseAll, Restart, sessionVars
  <1> QED BY <1>1, <1>2, <1>3, <1>4, <1>5, <1>6, <1>7 DEF Next, SessionSteps, vars, sessionVars

LEMMA TrackInvariant == Spec => [](TypeOK /\ TrackInv)
  <1>1. Init => TrackInv
    BY DEF Init, TrackInv
  <1> QED BY <1>1, TypeCorrect, NextKeepsTrackInv, PTL DEF Spec

(* No two sessions of one player have the same ID, which the code does not   *)
(* guarantee (proxy.py 491).                                                 *)
IdsDistinct ==
    \A r, s \in Sessions : PlayerOf[r] = PlayerOf[s] /\ IdOf[r] = IdOf[s] => r = s

LEMMA NextKeepsEntries ==
    ASSUME IdsDistinct, TypeOK, TrackInv, OwnEntryOnly, [Next]_vars
    PROVE  OwnEntryOnly'
  <1>1. \A s \in Sessions : EntryOf(s) = {s} \cap recorded
    BY DEF IdsDistinct, EntryOf, TrackedOf, TypeOK
  <1>2. CASE UNCHANGED <<conn, place, recorded, older>>
    BY <1>2 DEF OwnEntryOnly
  <1>3. ASSUME NEW s \in Sessions, Login(s) \/ Disconnect(s) \/ Leave(s) \/ NeverTrack(s)
        PROVE  OwnEntryOnly'
    <2>1. recorded' = recorded /\ \A r \in Sessions : place'[r] = "tracking" <=> place[r] = "tracking"
      BY <1>3 DEF Login, Disconnect, Leave, NeverTrack, TrackInv, TypeOK
    <2> QED BY <2>1 DEF OwnEntryOnly
  <1>4. ASSUME NEW s \in Sessions, Track(s)
        PROVE  OwnEntryOnly'
    <2>1. recorded' = recorded \cup {s}
      BY <1>1, <1>4 DEF Track, OwnEntryOnly
    <2>2. place' = [place EXCEPT ![s] = "tracking"]
      BY <1>4 DEF Track
    <2> QED BY <2>1, <2>2 DEF OwnEntryOnly, TypeOK
  <1>5. ASSUME NEW s \in Sessions, Untrack(s)
        PROVE  OwnEntryOnly'
    <2>1. recorded' = recorded \ {s} /\ place' = [place EXCEPT ![s] = "ended"]
      BY <1>1, <1>5 DEF Untrack
    <2> QED BY <2>1 DEF OwnEntryOnly, TypeOK
  <1>6. ASSUME NEW p \in Players, NEW a \in Addrs, PacketSteps(p, a)
        PROVE  UNCHANGED sessionVars
    BY <1>6 DEF PacketSteps, Datagram, DropPacket, Forward, CreateBridge
  <1>7. ASSUME NEW k \in Keys, BridgeSteps(k)
        PROVE  UNCHANGED sessionVars
    BY <1>7 DEF BridgeSteps, ConnectionLost, BackendSends, BecomeIdle
  <1>8. ASSUME ProxySteps
        PROVE  UNCHANGED <<conn, place, recorded, older>>
    BY <1>8 DEF ProxySteps, ListenerStarts, ListenerLost, ListenerNotices, Created, CreateFails,
       Cleanup, EndRun, CancelSessions, CloseAll, Restart, sessionVars
  <1> QED BY <1>2, <1>3, <1>4, <1>5, <1>6, <1>7, <1>8 DEF Next, SessionSteps, vars, sessionVars

(* With distinct IDs a session is in player_sessions exactly while its own   *)
(* tracking task waits (365-437).                                            *)
THEOREM EntriesAreOwn == IdsDistinct => (Spec => []OwnEntryOnly)
  <1> SUFFICES ASSUME IdsDistinct
               PROVE  Spec => []OwnEntryOnly
    OBVIOUS
  <1>1. Init => OwnEntryOnly
    BY DEF Init, OwnEntryOnly
  <1>2. TypeOK /\ TrackInv /\ OwnEntryOnly /\ [Next]_vars => OwnEntryOnly'
    BY NextKeepsEntries
  <1> QED BY <1>1, <1>2, TrackInvariant, PTL DEF Spec

-----------------------------------------------------------------------------
(* Sessions and bridges. *)

(* Removing a session's entries leaves the order of the others, so what is   *)
(* selected afterwards is what the step itself computed.                     *)
LEMMA SelectionAfterUntrack ==
    ASSUME TypeOK, NEW s \in Sessions, Untrack(s), NEW p
    PROVE  SelectedBackends(p, recorded)' = SelectedBackends(p, recorded \ EntryOf(s))
  <1>1. recorded' = recorded \ EntryOf(s)
    BY DEF Untrack
  <1>2. \A r \in recorded' : older'[r] \cap TrackedOf(p, recorded') = older[r] \cap TrackedOf(p, recorded')
    BY <1>1 DEF Untrack, TrackedOf, TypeOK
  <1>3. Longest(p, recorded)' = Longest(p, recorded \ EntryOf(s))
    BY <1>1, <1>2 DEF Longest, TrackedOf
  <1> QED BY <1>3 DEF SelectedBackends

(* Which steps change the recorded sessions. *)
LEMMA WhoRecords ==
    ASSUME [Next]_vars, recorded' # recorded \/ older' # older
    PROVE  \E s \in Sessions : Track(s) \/ Untrack(s)
  BY DEF Next, vars, sessionVars, SessionSteps, PacketSteps, BridgeSteps, ProxySteps,
     Login, Disconnect, Leave, NeverTrack, Datagram, DropPacket, Forward, CreateBridge,
     ConnectionLost, BackendSends, BecomeIdle, ListenerStarts, ListenerLost, ListenerNotices,
     Created, CreateFails, Cleanup, EndRun, CancelSessions, CloseAll, Restart

(* A bridge of the other players, or to the backend that stays selected, is  *)
(* left alone when a session ends.                                           *)
LEMMA UntrackKeepsSelected ==
    ASSUME TypeOK, NEW s \in Sessions, Untrack(s), NEW k \in Keys, Justified(k)'
    PROVE  bridge'[k] = bridge[k]
  <1>1. k[2] \in SelectedBackends(k[1], recorded \ EntryOf(s))
    BY SelectionAfterUntrack DEF Justified
  <1> QED BY <1>1 DEF Untrack, CloseBridges, TypeOK

(* The beginning or the end of a session never closes the bridge to the      *)
(* backend of the session connected longest (407-437, 658-667).              *)
THEOREM SelectedIsKept == Spec => KeepsSelected
  <1>1. ASSUME TypeOK, [Next]_vars, recorded' # recorded, NEW k \in Keys, Justified(k)'
        PROVE  bridge'[k] = bridge[k]
    <2>1. PICK s \in Sessions : Track(s) \/ Untrack(s)
      BY <1>1, WhoRecords
    <2>2. CASE Track(s)
      BY <2>2 DEF Track
    <2> QED BY <1>1, <2>1, <2>2, UntrackKeepsSelected
  <1>2. TypeOK /\ [Next]_vars =>
            [recorded' # recorded =>
                \A k \in Keys : Justified(k)' => bridge'[k] = bridge[k]]_vars
    BY <1>1
  <1> QED BY <1>2, TypeCorrect, PTL DEF Spec, KeepsSelected

(* A new session is never the one connected longest while others are there.  *)
LEMMA TrackKeepsSelection ==
    ASSUME TypeOK, TrackInv, NEW s \in Sessions, Track(s), NEW k \in Keys, Justified(k)
    PROVE  Justified(k)'
  <1>1. PICK r \in Longest(k[1], recorded) : BackendOf[r] = k[2]
    BY DEF Justified, SelectedBackends
  <1>2. r \in recorded /\ PlayerOf[r] = k[1] /\ older[r] \cap TrackedOf(k[1], recorded) = {}
    BY <1>1 DEF Longest, TrackedOf
  <1>3. s \notin recorded /\ older[r] \subseteq recorded
    BY <1>2 DEF TrackInv, Track
  <1>4. recorded' \subseteq recorded \cup {s} /\ r \in recorded' /\ older'[r] = older[r]
    BY <1>2, <1>3 DEF Track, TypeOK
  <1>5. older'[r] \cap TrackedOf(k[1], recorded') = {}
    BY <1>2, <1>3, <1>4 DEF TrackedOf
  <1>6. r \in Longest(k[1], recorded)'
    BY <1>2, <1>4, <1>5 DEF Longest, TrackedOf
  <1> QED BY <1>1, <1>6 DEF Justified, SelectedBackends

(* The end of a session leaves the selection of the other players, and an    *)
(* open bridge of its own player only if it is selected.                     *)
LEMMA UntrackJustifies ==
    ASSUME TypeOK, NEW s \in Sessions, Untrack(s), NEW k \in Keys, Justified(k), Open(k)'
    PROVE  Justified(k)'
  <1>1. CASE EntryOf(s) = {} \/ k[1] # PlayerOf[s]
    <2>1. TrackedOf(k[1], recorded \ EntryOf(s)) = TrackedOf(k[1], recorded)
      BY <1>1 DEF EntryOf, TrackedOf
    <2>2. SelectedBackends(k[1], recorded \ EntryOf(s)) = SelectedBackends(k[1], recorded)
      BY <2>1 DEF SelectedBackends, Longest
    <2> QED BY <2>2, SelectionAfterUntrack DEF Justified
  <1>2. CASE EntryOf(s) # {} /\ k[1] = PlayerOf[s]
    <2> DEFINE kept == SelectedBackends(PlayerOf[s], recorded \ EntryOf(s))
    <2>1. bridge' = [l \in Keys |-> IF l[1] = PlayerOf[s] /\ l[2] \notin kept THEN Absent ELSE bridge[l]]
      BY <1>2 DEF Untrack, CloseBridges
    <2>2. bridge'[k] # Absent
      BY DEF Open, Absent
    <2> HIDE DEF kept
    <2>3. k[2] \in kept
      BY <1>2, <2>1, <2>2
    <2> QED BY <1>2, <2>3, SelectionAfterUntrack DEF Justified, kept
  <1> QED BY <1>1, <1>2

(* An open bridge that no tracked session selects always comes from a        *)
(* creation during which the session ended (698-703).                        *)
THEOREM StraysComeFromCreation == Spec => StraysFromCreation
  <1>1. ASSUME TypeOK, TrackInv, [Next]_vars, NEW k \in Keys, Open(k)', ~Justified(k)'
        PROVE  \/ Open(k) /\ ~Justified(k)
               \/ creating # <<>> /\ creating' = <<>>
    <2>1. CASE Created
      BY <2>1 DEF Created
    <2>2. CASE ~Created
      <3>1. Open(k)
        BY <1>1, <2>2, OnlyCreatedOpens
      <3>2. ASSUME Justified(k)
            PROVE  FALSE
        <4>1. CASE recorded' = recorded /\ older' = older
          BY <1>1, <3>2, <4>1 DEF Justified, SelectedBackends, Longest, TrackedOf
        <4>2. CASE ~(recorded' = recorded /\ older' = older)
          <5>1. PICK s \in Sessions : Track(s) \/ Untrack(s)
            BY <1>1, <4>2, WhoRecords
          <5>2. CASE Track(s)
            BY <1>1, <3>2, <5>2, TrackKeepsSelection
          <5>3. CASE Untrack(s)
            BY <1>1, <3>2, <5>3, UntrackJustifies
          <5> QED BY <5>1, <5>2, <5>3
        <4> QED BY <4>1, <4>2
      <3> QED BY <3>1, <3>2
    <2> QED BY <2>1, <2>2
  <1>2. TypeOK /\ TrackInv /\ [Next]_vars =>
            [\A k \in Keys : Open(k)' /\ ~Justified(k)' =>
                \/ Open(k) /\ ~Justified(k)
                \/ creating # <<>> /\ creating' = <<>>]_vars
    BY <1>1
  <1> QED BY <1>2, TrackInvariant, PTL DEF Spec, StraysFromCreation
=============================================================================
