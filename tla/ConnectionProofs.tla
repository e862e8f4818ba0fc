-------------------------- MODULE ConnectionProofs --------------------------
(***************************************************************************)
(* What holds of Connection for every stream a client may send.            *)
(***************************************************************************)
EXTENDS Connection, SequenceTheorems, TLAPS

LEMMA StreamType == TypeOK => stream \in Seq(Pieces)
BY StreamsAssumption DEF TypeOK

(* A message that is complete was taken from the stream as a whole. *)
LEMMA MessageFits ==
    ASSUME TypeOK, NEW upto \in 0 .. Len(stream), NEW message, Message(upto, message)
    PROVE  /\ upto \in taken .. sent
           /\ parsed' \in Nat /\ parsed' > parsed /\ parsed' <= upto
           /\ taken' = upto
<1>1. stream \in Seq(Pieces)
  BY StreamType
<1>2. upto \in taken .. sent /\ taken' = upto /\ parsed' = parsed + Size(message)
  BY DEF Message, Reads
<1>3. /\ Held(upto) # <<>> /\ Head(Held(upto)) = message
      /\ message = "start1" => Len(Held(upto)) > 1
  BY DEF Message, Complete
<1>4. Len(Held(upto)) = IF parsed + 1 <= upto THEN upto - parsed ELSE 0
  BY <1>1, <1>2, SubSeqProperties DEF Held, TypeOK
<1>5. Held(upto) \in Seq(Pieces)
  BY <1>1, <1>2, SubSeqProperties DEF Held, TypeOK
<1>6. Len(Held(upto)) >= Size(message)
  BY <1>3, <1>5, EmptySeq, LenProperties DEF Size
<1>7. Size(message) \in {1, 2}
  BY DEF Size
<1>8. QED BY <1>2, <1>4, <1>6, <1>7 DEF TypeOK

-----------------------------------------------------------------------------
(* Types. *)

(* What may be relayed are pieces. *)
LEMMA RelayedType ==
    ASSUME TypeOK, NEW upto \in taken .. sent
    PROVE  /\ Understood \in Seq(Pieces) /\ InitialData \in Seq(Pieces)
           /\ relayed \o SubSeq(stream, taken + 1, upto) \in Seq(Pieces)
<1>1. stream \in Seq(Pieces) /\ taken \in Nat /\ parsed \in Nat /\ taken <= Len(stream)
      /\ parsed <= taken /\ upto \in Nat /\ upto <= Len(stream) /\ relayed \in Seq(Pieces)
  BY StreamType, LenProperties DEF TypeOK
<1>2. Understood \in Seq(Pieces)
  BY <1>1, SubSeqProperties, LenProperties DEF Understood
<1>3. Held(taken) \in Seq(Pieces)
  BY <1>1, SubSeqProperties, LenProperties DEF Held
<1>4. SubSeq(stream, taken + 1, upto) \in Seq(Pieces)
  BY <1>1, SubSeqProperties, LenProperties
<1>5. QED BY <1>1, <1>2, <1>3, <1>4, ConcatProperties DEF InitialData

LEMMA WritesType ==
    ASSUME TypeOK, NEW peer \in Peers, Writes(peer)
    PROVE  buffered' \in [Peers -> 0 .. Full]
  BY DEF TypeOK, Writes, Full

LEMMA OverType == TypeOK /\ (Farewell \/ Over) => buffered' \in [Peers -> 0 .. Full]
  BY WritesType DEF TypeOK, Farewell, Over, Peers

(* One lemma per part of Next: the first messages, the relay, the others.  *)
LEMMA MessagesKeepTypes ==
    ASSUME TypeOK, NEW upto \in 0 .. Len(stream), NEW message \in Pieces,
           \/ ReadsOn(upto) \/ LegacyPing(upto) \/ NotLegacy(upto)
           \/ Handshake(upto, message) \/ Answer(upto, message) \/ LoginStart(upto, message)
    PROVE  TypeOK'
<1> USE DEF TypeOK, Timed, reading, player, forwarding
<1>1. CASE ReadsOn(upto)
  BY <1>1 DEF ReadsOn, Reads
<1>2. CASE LegacyPing(upto)
  BY <1>2, MessageFits, OverType DEF LegacyPing, Farewell, Over
<1>3. CASE NotLegacy(upto)
  BY <1>3 DEF NotLegacy, Reads
<1>4. CASE Handshake(upto, message)
  BY <1>4, MessageFits DEF Handshake, Dispatch, Over
<1>5. CASE Answer(upto, message)
  <2>1. buffered' \in [Peers -> 0 .. Full]
    BY <1>5, OverType, WritesType DEF Answer, Peers
  <2>2. QED BY <1>5, <2>1, MessageFits DEF Answer, Farewell, Over
<1>6. CASE LoginStart(upto, message)
  BY <1>6, MessageFits DEF LoginStart, StartForwarding
<1>7. QED BY <1>1, <1>2, <1>3, <1>4, <1>5, <1>6

LEMMA RelayKeepsTypes ==
    ASSUME TypeOK,
           \/ Connect \/ ConnectFails \/ NoLoginStart \/ ForwardInitial
           \/ \E upto \in 0 .. Len(stream) : Forward(upto)
           \/ UpstreamEnds \/ DownstreamEnds
           \/ RelayEnds \/ Release \/ Untrack \/ CloseBackend
    PROVE  TypeOK'
<1> USE DEF TypeOK, Timed, reading, player, forwarding
<1>1. CASE Connect
  BY <1>1 DEF Connect, StartForwarding
<1>2. CASE ConnectFails
  BY <1>2, OverType DEF ConnectFails, Farewell, Over
<1>3. CASE NoLoginStart
  BY <1>3 DEF NoLoginStart, NoMessage, StartForwarding
<1>4. CASE ForwardInitial
  <2>1. InitialData \in Seq(Pieces)
    BY RelayedType
  <2>2. buffered' \in [Peers -> 0 .. Full]
    BY <1>4, WritesType DEF ForwardInitial, Peers
  <2>3. QED BY <1>4, <2>1, <2>2 DEF ForwardInitial
<1>5. ASSUME NEW upto \in 0 .. Len(stream), Forward(upto) PROVE TypeOK'
  <2>1. upto \in taken .. sent
    BY <1>5 DEF Forward
  <2>2. relayed \o SubSeq(stream, taken + 1, upto) \in Seq(Pieces)
    BY <2>1, RelayedType
  <2>3. buffered' \in [Peers -> 0 .. Full]
    BY <1>5, WritesType DEF Forward, Peers
  <2>4. QED BY <1>5, <2>1, <2>2, <2>3 DEF Forward
<1>6. CASE UpstreamEnds \/ DownstreamEnds \/ RelayEnds
  BY <1>6 DEF UpstreamEnds, DownstreamEnds, RelayEnds
<1>7. CASE Release \/ Untrack \/ CloseBackend
  BY <1>7 DEF Release, Untrack, CloseBackend
<1>8. QED BY <1>1, <1>2, <1>3, <1>4, <1>5, <1>6, <1>7

LEMMA OthersKeepTypes ==
    ASSUME TypeOK, NotIdentified \/ Woken \/ Unanswered \/ Drained \/ Close \/ Others
    PROVE  TypeOK'
<1> USE DEF TypeOK, Timed, reading, player, forwarding
<1>1. CASE NotIdentified \/ Unanswered
  BY <1>1 DEF NotIdentified, Unanswered, NoMessage, Over
<1>2. CASE Woken \/ Drained \/ Close
  BY <1>2, OverType DEF Woken, Farewell, Over, Drained, Close
<1>3. CASE Send
  BY <1>3, StreamType, LenProperties DEF Send
<1>4. CASE TrackingEnds
  BY <1>4 DEF TrackingEnds
<1>5. ASSUME NEW how \in {"closed", "reset"}, Go(how) PROVE TypeOK'
  BY <1>5 DEF Go
<1>6. ASSUME NEW how \in {"ended", "reset"}, BackendEnds(how) PROVE TypeOK'
  BY <1>6 DEF BackendEnds
<1>7. ASSUME NEW peer \in Peers, Takes(peer) PROVE TypeOK'
  BY <1>7 DEF Takes
<1>8. CASE BackendSends
  BY <1>8, WritesType DEF BackendSends, Peers
<1>9. QED BY <1>1, <1>2, <1>3, <1>4, <1>5, <1>6, <1>7, <1>8 DEF Others

LEMMA TypeStep == TypeOK /\ [Next]_vars => TypeOK'
<1> SUFFICES ASSUME TypeOK, [Next]_vars PROVE TypeOK'
  OBVIOUS
<1>1. CASE Handler
  <2>1. ASSUME NEW upto \in 0 .. Len(stream), NEW message \in Pieces,
               \/ ReadsOn(upto) \/ LegacyPing(upto) \/ NotLegacy(upto)
               \/ Handshake(upto, message) \/ Answer(upto, message) \/ LoginStart(upto, message)
        PROVE  TypeOK'
    BY <2>1, MessagesKeepTypes
  <2>2. "play" \in Pieces
    BY DEF Pieces
  <2>3. ASSUME NEW upto \in 0 .. Len(stream),
               ReadsOn(upto) \/ LegacyPing(upto) \/ NotLegacy(upto)
        PROVE  TypeOK'
    BY <2>1, <2>2, <2>3
  <2>4. ASSUME NEW upto \in 0 .. Len(stream), Forward(upto) PROVE TypeOK'
    BY <2>4, RelayKeepsTypes
  <2>5. QED BY <1>1, <2>1, <2>3, <2>4, RelayKeepsTypes, OthersKeepTypes, Zenon DEF Handler
<1>2. CASE Others
  BY <1>2, OthersKeepTypes
<1>3. CASE UNCHANGED vars
  BY <1>3 DEF TypeOK, vars, reading, player, forwarding
<1>4. QED BY <1>1, <1>2, <1>3 DEF Next

(* Every variable keeps its type, for any streams. *)
THEOREM TypeCorrect == Spec => []TypeOK
<1>1. Init => TypeOK
  <2> SUFFICES ASSUME Init PROVE TypeOK
    OBVIOUS
  <2>1. stream \in Streams /\ Len(stream) \in Nat
    BY StreamsAssumption, LenProperties DEF Init
  <2>2. relayed \in Seq(Pieces)
    BY EmptySeq DEF Init
  <2>3. /\ sent \in Nat /\ taken \in Nat /\ parsed \in Nat
        /\ parsed <= taken /\ taken <= sent /\ sent <= Len(stream)
    BY <2>1, SMT DEF Init
  <2>4. counted \in BOOLEAN /\ tracking \in BOOLEAN
    BY Zenon DEF Init
  <2>5. /\ client \in {"open", "closed", "reset"}
        /\ pc \in Timed \cup {"legacy", "waking", "reply", "farewell", "connect", "relay",
                          "release", "untrack", "drop", "close", "done"}
        /\ handshake \in {"none", "legacy", "status", "login", "unknown"}
        /\ link \in {"none", "open", "ended", "reset", "closed"}
        /\ upstream \in {"off", "initial", "open", "done"}
        /\ downstream \in {"off", "open", "done"}
        /\ buffered \in [Peers -> 0 .. Full]
    BY DEF Init, Full
  <2>6. QED BY <2>1, <2>2, <2>3, <2>4, <2>5, Zenon DEF TypeOK
<1>2. QED BY <1>1, TypeStep, PTL DEF Spec

-----------------------------------------------------------------------------
(* The player's count and the connection to the backend, by the await at   *)
(* which the handler is.                                                   *)

Before == {"legacy", "handshake", "packet", "reply", "pingpong", "farewell", "waking",
           "connect"}

Accounts ==
    /\ counted <=> handshake = "login" /\ pc \in {"start", "relay", "release"}
    /\ tracking => handshake = "login" /\ pc \in {"relay", "release", "untrack"}
    /\ pc = "start" => handshake = "login"
    /\ pc \in Before => link = "none"
    /\ pc \in {"start", "relay", "release", "untrack", "drop"} => link # "none"
    /\ pc \in {"close", "done"} => link \in {"none", "closed"}

LEMMA FirstKeepsAccounts ==
    ASSUME TypeOK, Accounts, NEW upto, NEW message,
           \/ ReadsOn(upto) \/ LegacyPing(upto) \/ NotLegacy(upto)
           \/ Handshake(upto, message) \/ Answer(upto, message) \/ LoginStart(upto, message)
           \/ NotIdentified \/ Woken \/ Unanswered \/ Drained
    PROVE  Accounts'
<1> USE DEF Accounts, Before, player, forwarding, Farewell, Over
<1>1. CASE ReadsOn(upto) \/ LegacyPing(upto) \/ NotLegacy(upto)
  BY <1>1 DEF ReadsOn, LegacyPing, NotLegacy
<1>2. CASE Handshake(upto, message)
  BY <1>2 DEF Handshake, Dispatch
<1>3. CASE Answer(upto, message)
  BY <1>3 DEF Answer
<1>4. CASE LoginStart(upto, message)
  BY <1>4 DEF LoginStart, StartForwarding
<1>5. CASE NotIdentified \/ Woken \/ Unanswered \/ Drained
  BY <1>5 DEF NotIdentified, Woken, Unanswered, Drained
<1>6. QED BY <1>1, <1>2, <1>3, <1>4, <1>5

LEMMA RestKeepsAccounts ==
    ASSUME TypeOK, Accounts,
           \/ Connect \/ ConnectFails \/ NoLoginStart \/ ForwardInitial
           \/ \E upto \in 0 .. Len(stream) : Forward(upto)
           \/ UpstreamEnds \/ DownstreamEnds \/ RelayEnds \/ Release \/ Untrack
           \/ CloseBackend \/ Close \/ Others
    PROVE  Accounts'
<1> USE DEF Accounts, Before, player, forwarding, Farewell, Over
<1>1. CASE Connect
  BY <1>1 DEF Connect, StartForwarding
<1>2. CASE ConnectFails \/ NoLoginStart
  BY <1>2 DEF ConnectFails, NoLoginStart, StartForwarding
<1>3. CASE ForwardInitial \/ UpstreamEnds \/ DownstreamEnds
  BY <1>3 DEF ForwardInitial, UpstreamEnds, DownstreamEnds
<1>4. ASSUME NEW upto, Forward(upto) PROVE Accounts'
  BY <1>4 DEF Forward
<1>5. CASE RelayEnds \/ Release
  BY <1>5 DEF RelayEnds, Release
<1>6. CASE Untrack \/ CloseBackend \/ Close
  BY <1>6 DEF Untrack, CloseBackend, Close
<1>7. CASE Others
  BY <1>7 DEF Others, Send, BackendSends, TrackingEnds, Takes, Go, BackendEnds
<1>8. QED BY <1>1, <1>2, <1>3, <1>4, <1>5, <1>6, <1>7

LEMMA AccountsStep == TypeOK /\ Accounts /\ [Next]_vars => Accounts'
<1> SUFFICES ASSUME TypeOK, Accounts, [Next]_vars PROVE Accounts'
  OBVIOUS
<1>1. CASE Handler
  <2>1. ASSUME NEW upto \in 0 .. Len(stream), Forward(upto) PROVE Accounts'
    BY <2>1, RestKeepsAccounts
  <2>2. QED BY <1>1, <2>1, FirstKeepsAccounts, RestKeepsAccounts, Zenon DEF Handler
<1>2. CASE Others
  BY <1>2, RestKeepsAccounts
<1>3. CASE UNCHANGED vars
  BY <1>3 DEF Accounts, Before, vars, player, forwarding
<1>4. QED BY <1>1, <1>2, <1>3 DEF Next

(* PlayerAccounted: a player is counted exactly while the handler has an    *)
(* open relay for it, whichever of the awaits of 486-550 raises.           *)
THEOREM PlayersAreAccounted == Spec => []PlayerAccounted
<1>1. Init => Accounts
  BY DEF Init, Accounts, Before
<1>2. TypeOK /\ Accounts => PlayerAccounted
  BY DEF TypeOK, Accounts, PlayerAccounted
<1>3. QED BY <1>1, <1>2, AccountsStep, TypeCorrect, PTL DEF Spec

-----------------------------------------------------------------------------
(* What was relayed, by the state of the forward task.                     *)

Relayed ==
    /\ pc \in Before \cup {"start"} => upstream = "off"
    /\ upstream \in {"off", "initial"} => relayed = <<>>
    /\ upstream \in {"open", "done"} => relayed = InitialData

LEMMA FirstKeepsRelayed ==
    ASSUME TypeOK, Relayed, NEW upto, NEW message,
           \/ ReadsOn(upto) \/ LegacyPing(upto) \/ NotLegacy(upto)
           \/ Handshake(upto, message) \/ Answer(upto, message) \/ LoginStart(upto, message)
    PROVE  Relayed'
<1> USE DEF Relayed, Before, player, forwarding, Farewell, Over
<1>1. CASE ReadsOn(upto) \/ LegacyPing(upto) \/ NotLegacy(upto)
  BY <1>1 DEF ReadsOn, LegacyPing, NotLegacy, Timed
<1>2. CASE Handshake(upto, message)
  BY <1>2 DEF Handshake, Dispatch
<1>3. CASE Answer(upto, message)
  BY <1>3 DEF Answer
<1>4. CASE LoginStart(upto, message)
  BY <1>4 DEF LoginStart, StartForwarding
<1>5. QED BY <1>1, <1>2, <1>3, <1>4

LEMMA RestKeepsRelayed ==
    ASSUME TypeOK, Relayed,
           \/ NotIdentified \/ Woken \/ Unanswered \/ Drained
           \/ Connect \/ ConnectFails \/ NoLoginStart \/ ForwardInitial
           \/ UpstreamEnds \/ DownstreamEnds \/ RelayEnds \/ Release \/ Untrack
           \/ CloseBackend \/ Close \/ Others
    PROVE  Relayed'
<1> USE DEF Relayed, Before, Farewell, Over, reading, player, forwarding, InitialData, Understood, Held
<1>1. CASE NotIdentified \/ Woken \/ Unanswered \/ Drained
  BY <1>1 DEF NotIdentified, Woken, Unanswered, NoMessage, Drained
<1>2. CASE Connect \/ ConnectFails \/ NoLoginStart
  BY <1>2 DEF Connect, ConnectFails, NoLoginStart, NoMessage, StartForwarding
<1>3. CASE ForwardInitial \/ UpstreamEnds \/ DownstreamEnds
  BY <1>3 DEF ForwardInitial, UpstreamEnds, DownstreamEnds
<1>4. CASE RelayEnds \/ Release \/ Untrack \/ CloseBackend \/ Close
  BY <1>4 DEF RelayEnds, Release, Untrack, CloseBackend, Close
<1>5. CASE Others
  BY <1>5 DEF Others, Send, BackendSends, TrackingEnds, Takes, Go, BackendEnds
<1>6. QED BY <1>1, <1>2, <1>3, <1>4, <1>5

LEMMA ForwardKeepsRelayed ==
    ASSUME TypeOK, Relayed, NEW upto \in 0 .. Len(stream), Forward(upto)
    PROVE  Relayed'
<1>1. /\ stream \in Seq(Pieces) /\ Understood \in Seq(Pieces)
      /\ parsed \in Nat /\ taken \in Nat /\ upto \in Nat
      /\ parsed <= taken /\ taken <= upto /\ upto <= Len(stream)
  <2>1. taken \in taken .. sent
    BY DEF TypeOK
  <2>2. QED BY <2>1, StreamType, RelayedType, LenProperties DEF TypeOK, Forward
<1>2. relayed = Understood \o SubSeq(stream, parsed + 1, taken)
  BY DEF Forward, Relayed, InitialData, Held
<1>3. /\ relayed' = relayed \o SubSeq(stream, taken + 1, upto)
      /\ stream' = stream /\ parsed' = parsed /\ taken' = upto
  BY DEF Forward
<1>4. relayed' = Understood \o SubSeq(stream, parsed + 1, upto)
  <2> DEFINE a == Understood
             b == SubSeq(stream, parsed + 1, taken)
             c == SubSeq(stream, taken + 1, upto)
  <2>1. a \in Seq(Pieces) /\ b \in Seq(Pieces) /\ c \in Seq(Pieces)
    BY <1>1, SubSeqProperties, LenProperties
  <2>2. b \o c = SubSeq(stream, parsed + 1, upto)
    BY <1>1, ConcatAdjacentSubSeq
  <2>3. relayed' = (a \o b) \o c
    BY <1>2, <1>3
  <2>4. (a \o b) \o c = a \o (b \o c)
    <3> HIDE DEF a, b, c
    <3>1. QED BY <2>1, ConcatAssociative
  <2>5. QED BY <2>2, <2>3, <2>4, Zenon
<1>5. relayed' = InitialData'
  BY <1>3, <1>4 DEF InitialData, Understood, Held
<1>6. QED BY <1>5 DEF Relayed, Forward, Before, player

LEMMA RelayedStep == TypeOK /\ Relayed /\ [Next]_vars => Relayed'
<1> SUFFICES ASSUME TypeOK, Relayed, [Next]_vars PROVE Relayed'
  OBVIOUS
<1>1. CASE Handler
  BY <1>1, FirstKeepsRelayed, RestKeepsRelayed, ForwardKeepsRelayed, Zenon DEF Handler
<1>2. CASE Others
  BY <1>2, RestKeepsRelayed
<1>3. CASE UNCHANGED vars
  BY <1>3 DEF Relayed, Before, vars, reading, player, forwarding, InitialData, Understood, Held
<1>4. QED BY <1>1, <1>2, <1>3 DEF Next

(* RelayedInOrder: the backend gets what the client sent, wherever a read   *)
(* ended or timed out before the relay began, and however much it took.    *)
THEOREM RelayIsInOrder == Spec => []RelayedInOrder
<1>1. Init => Relayed
  BY DEF Init, Relayed
<1>2. TypeOK /\ Relayed => RelayedInOrder
  BY DEF TypeOK, Relayed, RelayedInOrder, InitialData, Held
<1>3. QED BY <1>1, <1>2, RelayedStep, TypeCorrect, PTL DEF Spec
=============================================================================
