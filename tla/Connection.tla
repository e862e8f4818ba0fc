----------------------------- MODULE Connection -----------------------------
(***************************************************************************)
(* One connection of a client to MCProxy (core/proxy.py): _handle_client   *)
(* identifies the backend, answers in its place or wakes it when it does   *)
(* not run, and otherwise relays the connection to it.                     *)
(*                                                                         *)
(* The client's stream is a sequence of pieces. Most are a message; a      *)
(* Login Start comes in two, so that a read may stop within it. The reader *)
(* takes what has arrived, which may be more than the message it waits     *)
(* for; what it holds is the part of the stream after the messages it      *)
(* returned (NothingLost of PacketReader). The backend is the         *)
(* supervisor's: whether it runs, and how a wait for it ends (Waiting),    *)
(* is left open here.                                                      *)
(*                                                                         *)
(* What is written to a peer that does not take it stays in the buffer of  *)
(* the transport: a drain waits while there is much of it, and the closing *)
(* of the connection (wait_closed) while there is any.                     *)
(***************************************************************************)
EXTENDS Naturals, Sequences

CONSTANT Streams  \* what clients may send

Pieces ==
    {"legacy", "prefix",           \* a legacy ping, and the beginning of one
     "status", "login", "unknown", \* handshakes, by their next_state
     "request", "ping", "other",   \* packets of the status protocol
     "start1", "start2",           \* a Login Start
     "bad",                        \* a packet in its place that is none
     "play"}                       \* what a player sends later

ASSUME StreamsAssumption == Streams \subseteq Seq(Pieces)

Peers == {"client", "backend"}

Full == 2 \* more is buffered than the high-water mark: a drain waits

VARIABLES
    stream,    \* what this client sends
    sent,      \* pieces of it that have arrived
    taken,     \* pieces that were read from the socket
    parsed,    \* pieces that were returned as messages
    client,    \* "open", "closed" or "reset"
    pc,        \* the await at which the handler is
    handshake, \* the message that identified the backend
    counted,   \* it has incremented the backend's online players
    tracking,  \* its _track_player_session task is alive
    link,      \* the connection to the backend, as the proxy sees it
    buffered,  \* of what was written to a peer, how much it has not taken
    relayed,   \* what was written to it
    upstream,  \* the forward task client -> backend
    downstream \* the forward task backend -> client

reading == <<taken, parsed>>
player == <<counted, tracking>>
forwarding == <<link, relayed, upstream, downstream>>
vars == <<stream, sent, reading, client, pc, handshake, player, buffered, forwarding>>

(* Mutant: the read of the last packet has no timeout. *)
TimedButPing == {"handshake", "packet", "start"}

(* The reads of packets have a timeout of 30 seconds, that of a legacy     *)
(* ping has none.                                                          *)
Timed == {"handshake", "packet", "pingpong", "start"}

TypeOK ==
    /\ stream \in Streams
    /\ sent \in Nat /\ taken \in Nat /\ parsed \in Nat
    /\ parsed <= taken /\ taken <= sent /\ sent <= Len(stream)
    /\ client \in {"open", "closed", "reset"}
    /\ pc \in Timed \cup {"legacy", "waking", "reply", "farewell", "connect", "relay",
                     "release", "untrack", "drop", "close", "done"}
    /\ handshake \in {"none", "legacy", "status", "login", "unknown"}
    /\ counted \in BOOLEAN /\ tracking \in BOOLEAN
    /\ link \in {"none", "open", "ended", "reset", "closed"}
    /\ buffered \in [Peers -> 0 .. Full]
    /\ relayed \in Seq(Pieces)
    /\ upstream \in {"off", "initial", "open", "done"}
    /\ downstream \in {"off", "open", "done"}

Init ==
    /\ stream \in Streams
    /\ sent = 0 /\ taken = 0 /\ parsed = 0
    /\ client = "open"
    /\ pc = "legacy"
    /\ handshake = "none"
    /\ counted = FALSE /\ tracking = FALSE
    /\ link = "none"
    /\ buffered = [peer \in Peers |-> 0]
    /\ relayed = <<>>
    /\ upstream = "off" /\ downstream = "off"

-----------------------------------------------------------------------------
(* The client. *)

Send ==
    /\ client = "open" /\ sent < Len(stream)
    /\ sent' = sent + 1
    /\ UNCHANGED <<stream, reading, client, pc, handshake, player, buffered, forwarding>>

(* It closes its end, or the connection is reset. *)
Go(how) ==
    /\ client = "open" \/ (client = "closed" /\ how = "reset")
    /\ client' = how
    /\ UNCHANGED <<stream, sent, reading, pc, handshake, player, buffered, forwarding>>

-----------------------------------------------------------------------------
(* Writing to a peer. *)

Lost(peer) == IF peer = "client" THEN client = "reset" ELSE link = "reset"

Writes(peer) ==
    \E level \in buffered[peer] .. Full : buffered' = [buffered EXCEPT ![peer] = level]

(* A transport that was closed is gone once its buffer is empty. *)
Flushed(peer) == buffered[peer] = 0 \/ Lost(peer)

(* The peer reads. *)
Takes(peer) ==
    /\ ~Lost(peer)
    /\ \E level \in 0 .. Full :
          /\ level < buffered[peer]
          /\ buffered' = [buffered EXCEPT ![peer] = level]
    /\ UNCHANGED <<stream, sent, reading, client, pc, handshake, player, forwarding>>

(* The handler goes on to close the client's connection, after a last      *)
(* message that it drains, or at once.                                     *)
Farewell == pc' = "farewell" /\ Writes("client")

Over == pc' = "close" /\ UNCHANGED buffered

(* The drain ends. It has a timeout of 30 seconds, and raises when the     *)
(* connection is lost.                                                     *)
Drained ==
    /\ pc \in {"reply", "farewell"}
    /\ pc' = IF pc = "reply" /\ buffered["client"] < Full /\ client # "reset"
             THEN "pingpong" ELSE "close"
    /\ UNCHANGED <<stream, sent, reading, client, handshake, player, buffered, forwarding>>

-----------------------------------------------------------------------------
(* Reading a message. *)

Held(upto) == SubSeq(stream, parsed + 1, upto)

Complete(pieces) ==
    /\ pieces # <<>>
    /\ Head(pieces) # "prefix"
    /\ Head(pieces) = "start1" => Len(pieces) > 1

Size(message) == IF message = "start1" THEN 2 ELSE 1

(* The reader takes pieces only while it lacks the message. *)
Reads(upto) ==
    /\ upto \in taken .. sent
    /\ upto = taken <=> Complete(Held(taken))
    /\ taken' = upto

(* It has taken some, but needs more. *)
ReadsOn(upto) ==
    /\ pc \in Timed \cup {"legacy"}
    /\ Reads(upto) /\ ~Complete(Held(upto))
    /\ UNCHANGED <<stream, sent, parsed, client, pc, handshake, player, buffered,
                   forwarding>>

(* The message is there, and is consumed. *)
Message(upto, message) ==
    /\ Reads(upto) /\ Complete(Held(upto)) /\ Head(Held(upto)) = message
    /\ parsed' = parsed + Size(message)

(* The read raises: the client is gone, the packet did not come in time.   *)
NoMessage ==
    /\ ~Complete(Held(taken))
    /\ \/ client = "closed" /\ taken = sent
       \/ client = "reset"
       \/ pc \in Timed
    /\ UNCHANGED reading

-----------------------------------------------------------------------------
(* _identify_backend, and what _handle_client then does with the backend:  *)
(* relay to it if it runs, wake it for a player, or answer.                *)

(* The backend is running, the player wakes it, the status is asked for;   *)
(* or the address is not served, or next_state unknown (MCProtocolError).  *)
Dispatch(message) ==
    /\ handshake' = message
    /\ \/ pc' = "connect"
       \/ message = "login" /\ pc' = "waking"
       \/ message = "status" /\ pc' = "packet"
       \/ pc' = "close"
    /\ UNCHANGED <<stream, sent, client, player, buffered, forwarding>>

(* A legacy ping is answered at once, without another message. *)
LegacyPing(upto) ==
    /\ pc = "legacy"
    /\ Message(upto, "legacy")
    /\ handshake' = "legacy"
    /\ \/ pc' = "connect" /\ UNCHANGED buffered
       \/ Farewell
       \/ Over
    /\ UNCHANGED <<stream, sent, client, player, forwarding>>

(* MCProtocolError: what was read is parsed again as a packet. *)
NotLegacy(upto) ==
    /\ pc = "legacy"
    /\ Reads(upto) /\ Complete(Held(upto)) /\ Head(Held(upto)) # "legacy"
    /\ pc' = "handshake"
    /\ UNCHANGED <<stream, sent, parsed, client, handshake, player, buffered, forwarding>>

(* A handshake for a backend that is listed and enabled, or not. Any other *)
(* packet is none (MCProtocolError).                                       *)
Handshake(upto, message) ==
    /\ pc = "handshake"
    /\ Message(upto, message)
    /\ IF message \in {"status", "login", "unknown"} THEN Dispatch(message)
       ELSE /\ Over
            /\ UNCHANGED <<stream, sent, client, handshake, player, forwarding>>

NotIdentified ==
    /\ pc \in {"legacy", "handshake"}
    /\ NoMessage
    /\ Over
    /\ UNCHANGED <<stream, sent, client, handshake, player, forwarding>>

(* mcproc_done_starting ends: the player is relayed, or told to come again *)
(* (_handle_handshake with next_state 2).                                  *)
Woken ==
    /\ pc = "waking"
    /\ \/ pc' = "connect" /\ UNCHANGED buffered
       \/ Farewell
    /\ UNCHANGED <<stream, sent, reading, client, handshake, player, forwarding>>

-----------------------------------------------------------------------------
(* _handle_handshake: the status of a backend that does not run. *)

(* The client asks for the status and then pings, or pings at once. Any    *)
(* other packet ends the connection, by whichever exception.               *)
Answer(upto, message) ==
    /\ pc \in {"packet", "pingpong"}
    /\ Message(upto, message)
    /\ \/ pc = "packet" /\ message = "request" /\ pc' = "reply" /\ Writes("client")
       \/ message = "ping" /\ Farewell
       \/ message # "ping" /\ ~(pc = "packet" /\ message = "request") /\ Over
    /\ UNCHANGED <<stream, sent, client, handshake, player, forwarding>>

Unanswered ==
    /\ pc \in {"packet", "pingpong"}
    /\ NoMessage
    /\ Over
    /\ UNCHANGED <<stream, sent, client, handshake, player, forwarding>>

-----------------------------------------------------------------------------
(* _forward_to_backend. *)

StartForwarding ==
    /\ pc' = "relay"
    /\ upstream' = "initial" /\ downstream' = "open"
    /\ UNCHANGED relayed

(* A player is counted before the Login Start is read. *)
Connect ==
    /\ pc = "connect"
    /\ link' = "open"
    /\ IF handshake = "login"
       THEN /\ counted' = TRUE
            /\ pc' = "start"
            /\ UNCHANGED <<tracking, relayed, upstream, downstream>>
       ELSE StartForwarding /\ UNCHANGED player
    /\ UNCHANGED <<stream, sent, reading, client, handshake, buffered>>

(* The backend refuses: the client is told and the connection closed. Any  *)
(* other exception ends it at once.                                        *)
ConnectFails ==
    /\ pc = "connect"
    /\ Farewell \/ Over
    /\ UNCHANGED <<stream, sent, reading, client, handshake, player, forwarding>>

(* A Login Start, or a packet that is none (MCProtocolError): it has been  *)
(* consumed all the same.                                                  *)
LoginStart(upto, message) ==
    /\ pc = "start"
    /\ Message(upto, message)
    /\ tracking' = (message = "start1")
    /\ StartForwarding
    /\ UNCHANGED <<stream, sent, client, handshake, counted, link, buffered>>

(* Without one the player is relayed, but not tracked. *)
NoLoginStart ==
    /\ pc = "start"
    /\ NoMessage
    /\ StartForwarding
    /\ UNCHANGED <<stream, sent, client, handshake, player, link, buffered>>

(* The messages that were understood, encoded again: all that were read,   *)
(* but for a last one that is no Login Start.                              *)
Understood == SubSeq(stream, 1, IF stream[parsed] = "bad" THEN parsed - 1 ELSE parsed)

(* Mutant: what the reader holds after them is forgotten. *)
InitialParsed == Understood

InitialData == Understood \o Held(taken)

ForwardInitial ==
    /\ pc = "relay" /\ upstream = "initial"
    /\ link # "reset"
    /\ relayed' = InitialData
    /\ Writes("backend")
    /\ upstream' = "open"
    /\ UNCHANGED <<stream, sent, reading, client, pc, handshake, player, link, downstream>>

Forward(upto) ==
    /\ pc = "relay" /\ upstream = "open"
    /\ buffered["backend"] < Full /\ link # "reset"
    /\ client # "reset" /\ upto \in taken + 1 .. sent
    /\ taken' = upto
    /\ relayed' = relayed \o SubSeq(stream, taken + 1, upto)
    /\ Writes("backend")
    /\ UNCHANGED <<stream, sent, parsed, client, pc, handshake, player, link, upstream,
                   downstream>>

(* An end of file is passed on (write_eof); the other direction goes on.   *)
UpstreamEnds ==
    /\ pc = "relay" /\ upstream = "open"
    /\ buffered["backend"] < Full /\ link # "reset"
    /\ client = "closed" /\ taken = sent
    /\ upstream' = "done"
    /\ UNCHANGED <<stream, sent, reading, client, pc, handshake, player, link, buffered,
                   relayed, downstream>>

DownstreamEnds ==
    /\ pc = "relay" /\ downstream = "open"
    /\ buffered["client"] < Full /\ client # "reset"
    /\ link = "ended"
    /\ downstream' = "done"
    /\ UNCHANGED <<stream, sent, reading, client, pc, handshake, player, link, buffered,
                   relayed, upstream>>

(* What the backend sends is passed on, or raises when the client is lost. *)
BackendSends ==
    /\ pc = "relay" /\ downstream = "open"
    /\ buffered["client"] < Full /\ link = "open"
    /\ \/ client = "reset" /\ pc' = "release" /\ UNCHANGED buffered
       \/ client # "reset" /\ Writes("client") /\ UNCHANGED pc
    /\ UNCHANGED <<stream, sent, reading, client, handshake, player, forwarding>>

(* The backend's end of the connection. *)
BackendEnds(how) ==
    /\ link = "open" \/ (link = "ended" /\ how = "reset")
    /\ link' = how
    /\ UNCHANGED <<stream, sent, reading, client, pc, handshake, player, buffered, relayed,
                   upstream, downstream>>

(* A direction raises when the peer it reads from or writes to has reset   *)
(* its connection. It learns of the former when it reads, and of the       *)
(* latter when it writes or drains.                                        *)
UpstreamRaises ==
    \/ client = "reset" /\ upstream = "open" /\ buffered["backend"] < Full
    \/ link = "reset" /\ upstream = "initial"
    \/ /\ link = "reset" /\ upstream = "open"
       /\ buffered["backend"] = Full \/ taken < sent \/ client # "open"

DownstreamRaises ==
    /\ downstream = "open"
    /\ \/ link = "reset" /\ buffered["client"] < Full
       \/ client = "reset" /\ (buffered["client"] = Full \/ link = "ended")

(* Mutant: both directions have to end, also when one raises. *)
RelayEndsBoth ==
    /\ pc = "relay"
    /\ upstream = "done" /\ downstream = "done"
    /\ pc' = "release"
    /\ UNCHANGED <<stream, sent, reading, client, handshake, player, buffered, forwarding>>

(* Both directions have ended, or one raised. Both are cancelled and       *)
(* awaited.                                                                *)
RelayEnds ==
    /\ pc = "relay"
    /\ \/ upstream = "done" /\ downstream = "done"
       \/ UpstreamRaises \/ DownstreamRaises
    /\ pc' = "release"
    /\ UNCHANGED <<stream, sent, reading, client, handshake, player, buffered, forwarding>>

(* Mutant: only a player who is tracked was counted. *)
ReleaseTracked ==
    /\ pc = "release"
    /\ counted' = (counted /\ ~tracking)
    /\ pc' = IF tracking THEN "untrack" ELSE "drop"
    /\ UNCHANGED <<stream, sent, reading, client, handshake, tracking, buffered, forwarding>>

(* The player is counted no more, and the tracking task cancelled. *)
Release ==
    /\ pc = "release"
    /\ counted' = FALSE
    /\ pc' = IF tracking THEN "untrack" ELSE "drop"
    /\ UNCHANGED <<stream, sent, reading, client, handshake, tracking, buffered, forwarding>>

Untrack ==
    /\ pc = "untrack"
    /\ tracking' = FALSE
    /\ pc' = "drop"
    /\ UNCHANGED <<stream, sent, reading, client, handshake, counted, buffered, forwarding>>

(* The connection to the backend was closed, and is gone once the backend  *)
(* has taken what was written to it: this await has no timeout.            *)
CloseBackend ==
    /\ pc = "drop"
    /\ Flushed("backend")
    /\ link' = "closed"
    /\ pc' = "close"
    /\ UNCHANGED <<stream, sent, reading, client, handshake, player, buffered, relayed,
                   upstream, downstream>>

(* The lookup of the player failed, or the proxy stops and cancels it.     *)
TrackingEnds ==
    /\ tracking /\ pc = "relay"
    /\ tracking' = FALSE
    /\ UNCHANGED <<stream, sent, reading, client, pc, handshake, counted, buffered,
                   forwarding>>

(* That of the client likewise. *)
Close ==
    /\ pc = "close"
    /\ Flushed("client")
    /\ pc' = "done"
    /\ UNCHANGED <<stream, sent, reading, client, handshake, player, buffered, forwarding>>

-----------------------------------------------------------------------------
Handler ==
    \/ \E upto \in 0 .. Len(stream) :
          \/ ReadsOn(upto) \/ LegacyPing(upto) \/ NotLegacy(upto) \/ Forward(upto)
          \/ \E message \in Pieces : Handshake(upto, message) \/ Answer(upto, message)
                                       \/ LoginStart(upto, message)
    \/ NotIdentified \/ Woken \/ Unanswered \/ Drained
    \/ Connect \/ ConnectFails \/ NoLoginStart
    \/ ForwardInitial \/ UpstreamEnds \/ DownstreamEnds
    \/ RelayEnds \/ Release \/ Untrack \/ CloseBackend \/ Close

Others ==
    \/ Send \/ BackendSends \/ TrackingEnds
    \/ \E peer \in Peers : Takes(peer)
    \/ \E how \in {"closed", "reset"} : Go(how)
    \/ \E how \in {"ended", "reset"} : BackendEnds(how)

Next == Handler \/ Others

Spec == Init /\ [][Next]_vars

(* The handler's task and its timers have their turn. A server takes what  *)
(* it is sent or loses its connections, and closes one whose other end was *)
(* closed. A client that has closed its end takes what is still sent to    *)
(* it, or resets. Nothing is assumed of a client that stays.               *)
FairSpec ==
    /\ Spec
    /\ WF_vars(Handler)
    /\ WF_vars(upstream = "done" /\ buffered["backend"] = 0 /\ BackendEnds("ended"))
    /\ WF_vars(buffered["backend"] > 0 /\ (Takes("backend") \/ BackendEnds("reset")))
    /\ WF_vars(client = "closed" /\ buffered["client"] > 0 /\ (Takes("client") \/ Go("reset")))

-----------------------------------------------------------------------------
(* What the backend was sent is what was read from the client, in order    *)
(* and without a gap, whether it came in time to be read as a message or   *)
(* not; but for a packet read as a Login Start that is none.               *)
RelayedInOrder ==
    relayed # <<>> =>
        relayed = Understood \o SubSeq(stream, parsed + 1, taken)

(* The backend is told of a player only while the player is counted;       *)
(* neither count nor task outlasts the relay, however long the closing of  *)
(* the connections then takes; and when the handler is done nothing of the *)
(* connection is left.                                                     *)
PlayerAccounted ==
    /\ handshake = "login" /\ pc = "relay" => counted
    /\ tracking \/ counted => handshake = "login" /\ link # "none"
    /\ pc \in {"drop", "close", "done"} => ~counted /\ ~tracking
    /\ pc = "done" => link \in {"none", "closed"}

(* Three awaits alone may last: that of the first message, of which the    *)
(* client has to send enough to tell it from a legacy ping; the relay; and *)
(* the closing of a connection whose client does not take what was written *)
(* to it. From everywhere else the handler comes to one of them or ends.   *)
HandlerEnds ==
    pc \notin {"legacy", "relay"} ~>
        pc \in {"relay", "done"} \/ (pc = "close" /\ ~Flushed("client"))

(* The handler of a client that has gone ends. *)
GoneIsOver == client # "open" ~> pc = "done"

-----------------------------------------------------------------------------
(* What the source says of the program and it does not do. *)

(* The warning of _forward_to_backend (502-506): without a Login Start     *)
(* "player tracking is unavailable", and nothing else is.                  *)
OnlyTrackingLost ==
    relayed # <<>> => relayed = SubSeq(stream, 1, taken)
=============================================================================
