---------------------------- MODULE PacketReader ----------------------------
(***************************************************************************)
(* The PacketReader of src/app/backend/core/protocol.py: it reads messages *)
(* of variable length from a stream into a buffer that it compacts, grows  *)
(* and shrinks. A read that has not got the whole message yet may be       *)
(* cancelled by its timeout; the next one goes on where it stopped, and    *)
(* what is in the buffer (unparsed) may be passed on instead.              *)
(*                                                                         *)
(* Bytes have GroupBits + 1 bits instead of 8 and integers Width bits      *)
(* instead of 32. A message is a packet or a legacy ping, whose fields are *)
(* opaque. The only await is StreamReader.read, so a call runs up to it in *)
(* one step. save() is used nowhere: k is always i.                        *)
(***************************************************************************)
EXTENDS Integers, SequencesExt

CONSTANTS
    GroupBits,        \* payload bits of a byte of a variable-length integer
    Width,            \* bits of an integer
    MaxVarint,        \* bytes of the longest variable-length integer
    DEFAULT_BUFFER_SIZE,
    MAX_BUFFER_SIZE,
    MIN_READ_SIZE,
    Sent              \* the sequences of messages a peer may send

Cont == 2 ^ GroupBits

(* What a number is multiplied by when it is shifted by k groups of bits.  *)
Shift(k) == 2 ^ (GroupBits * k)

Bytes == 0 .. 2 * Cont - 1

Messages == [type : {"packet", "legacy"}, id : Nat, size : Nat]

ASSUME ReaderAssumption ==
    /\ GroupBits \in Nat \ {0} /\ Width \in Nat \ {0} /\ MaxVarint \in Nat \ {0}
    /\ MIN_READ_SIZE \in Nat \ {0}
    /\ DEFAULT_BUFFER_SIZE \in Nat /\ MAX_BUFFER_SIZE \in Nat
    /\ Width <= GroupBits * MaxVarint
    /\ 4 * MIN_READ_SIZE <= DEFAULT_BUFFER_SIZE
    /\ DEFAULT_BUFFER_SIZE <= MAX_BUFFER_SIZE
    /\ Sent \subseteq Seq(Messages)

-----------------------------------------------------------------------------
(* Encoding, by PacketWriter. *)

Unsigned(value) == IF value < 0 THEN value + 2 ^ Width ELSE value

EncodeVarint(value) ==
    LET num == Unsigned(value)
        length == CHOOSE l \in 1 .. MaxVarint :
                      num < Shift(l) /\ \A m \in 1 .. l - 1 : num >= Shift(m)
    IN [x \in 1 .. length |->
           ((num \div Shift(x - 1)) % Cont) + (IF x < length THEN Cont ELSE 0)]

(* The first bytes of a legacy ping; a packet may begin with the first two. *)
LegacyHeader == <<Cont + Cont - 2, 1, 2 * Cont - 1>>

Opaque(size) == [x \in 1 .. size |-> 1]

EncodePacket(id, size) ==
    LET packetId == EncodeVarint(id)
    IN EncodeVarint(Len(packetId) + size) \o packetId \o Opaque(size)

Encode(m) ==
    IF m.type = "legacy" THEN LegacyHeader \o <<m.size>> \o Opaque(m.size)
                         ELSE EncodePacket(m.id, m.size)

(* The peers send what PacketWriter can encode, a legacy ping fits into    *)
(* the buffer, and what is sent first instead of one (a handshake, whose   *)
(* ID is 0) does not begin like one.                                       *)
Encodable(m) ==
    IF m.type = "legacy"
    THEN m.id = 0 /\ m.size \in Bytes /\ Len(Encode(m)) <= MAX_BUFFER_SIZE
    ELSE /\ m.id < 2 ^ (Width - 1)
         /\ Len(EncodeVarint(m.id)) + m.size < 2 ^ (Width - 1)

ASSUME SentAssumption ==
    \A messages \in Sent : \A x \in DOMAIN messages :
        /\ Encodable(messages[x])
        /\ messages[x].type = "packet" /\ x = 1 =>
              SubSeq(Encode(messages[x]), 1, 3) # LegacyHeader

Stream(messages) == FlattenSeq([x \in DOMAIN messages |-> Encode(messages[x])])

-----------------------------------------------------------------------------
(* Decoding. A decoder asks for more bytes (incomplete_read), raises       *)
(* MCProtocolError or returns the bytes it consumed and a value.           *)

Incomplete == [tag |-> "incomplete"]
Malformed  == [tag |-> "malformed"]
Decoded(consumed, value) == [tag |-> "ok", consumed |-> consumed, value |-> value]

Signed(num) == IF num >= 2 ^ (Width - 1) THEN num - 2 ^ Width ELSE num

(* The number that the loop gathers from the first bytes. *)
Gathered(data, length) ==
    LET num[x \in 0 .. length] ==
            IF x = 0 THEN 0 ELSE num[x - 1] + (data[x] % Cont) * Shift(x - 1)
    IN num[length]

DecodeVarint(data) ==
    LET last == {x \in 1 .. MaxVarint : x <= Len(data) /\ data[x] < Cont}
        length == Min(last)
    IN IF last # {}
       THEN Decoded(length, Signed(Gathered(data, length) % (2 ^ Width)))
       ELSE IF Len(data) >= MaxVarint THEN Malformed ELSE Incomplete

(* Mutant: once the length and the ID are there. *)
DecodePacketEager(data) ==
    LET length == DecodeVarint(data)
        id == DecodeVarint(SubSeq(data, length.consumed + 1, Len(data)))
    IN IF length.tag # "ok" THEN length
       ELSE IF id.tag # "ok" THEN id
       ELSE Decoded(length.consumed + length.value,
                    [type |-> "packet", id |-> id.value, size |-> length.value - id.consumed])

(* A length, an ID and the rest, once all of it is there. *)
DecodePacket(data) ==
    LET length == DecodeVarint(data)
        whole == length.consumed + length.value
        id == DecodeVarint(SubSeq(data, length.consumed + 1, Len(data)))
    IN IF length.tag # "ok" THEN length
       ELSE IF Len(data) < whole THEN Incomplete
       ELSE IF id.tag # "ok" THEN id
       ELSE Decoded(whole, [type |-> "packet", id |-> id.value,
                            size |-> length.value - id.consumed])

DecodeLegacy(data) ==
    IF Len(data) < 1 THEN Incomplete
    ELSE IF data[1] # LegacyHeader[1] THEN Malformed
    ELSE IF Len(data) < 3 THEN Incomplete
    ELSE IF SubSeq(data, 1, 3) # LegacyHeader THEN Malformed
    ELSE IF Len(data) < 4 THEN Incomplete
    ELSE IF Len(data) < 4 + data[4] THEN Incomplete
    ELSE Decoded(4 + data[4], [type |-> "legacy", id |-> 0, size |-> data[4]])

-----------------------------------------------------------------------------
VARIABLES
    sent,      \* the messages the peer sends before it closes
    wire,      \* their bytes
    taken,     \* bytes of them that were read from the stream
    data,      \* the buffer, of n bytes
    i,         \* start of the unparsed bytes
    j,         \* start of the free space
    packet_length,  \* that of the packet begun, or Unknown
    reading,   \* "no", or the message a call waits for
    legacy,    \* the first message may still be a legacy ping
    got,       \* history: the messages returned
    parsed,    \* history: their bytes
    failed     \* the exception that ended a call for good

stream == <<sent, wire>>
buffer == <<data, i, j>>
history == <<got, parsed>>
vars == <<stream, taken, buffer, packet_length, reading, legacy, history, failed>>

Unknown == -1

n == Len(data)

unparsed == SubSeq(data, i + 1, j)

TypeOK ==
    /\ sent \in Sent /\ wire \in Seq(Bytes)
    /\ taken \in Nat
    /\ data \in Seq(Bytes)
    /\ i \in Nat /\ j \in Nat
    /\ i <= j /\ j <= n
    /\ packet_length \in Int
    /\ reading \in {"no", "legacy", "packet"}
    /\ legacy \in BOOLEAN
    /\ got \in Seq(Messages) /\ parsed \in Nat
    /\ failed \in {"no", "reset", "full", "shrink", "malformed"}

Empty(size) == [x \in 1 .. size |-> 0]

(* A proxy tries the legacy ping first, a client of a server does not.     *)
Init ==
    /\ sent \in Sent /\ wire = Stream(sent)
    /\ taken = 0
    /\ data = Empty(DEFAULT_BUFFER_SIZE) /\ i = 0 /\ j = 0
    /\ packet_length = Unknown
    /\ reading = "no"
    /\ legacy \in BOOLEAN
    /\ \A x \in DOMAIN sent : sent[x].type = "legacy" => legacy /\ x = 1
    /\ got = <<>> /\ parsed = 0
    /\ failed = "no"

-----------------------------------------------------------------------------
(* _allocate_buffer: the size of the new buffer. Mutant: it never grows. *)
NewSizeFixed(used, size) == DEFAULT_BUFFER_SIZE

NewSize(used, size) ==
    IF used < size - (size \div 4) THEN Max({size \div 2, DEFAULT_BUFFER_SIZE})
    ELSE IF used > size - MIN_READ_SIZE THEN Min({2 * size, MAX_BUFFER_SIZE})
    ELSE size

(* Mutant: the unparsed bytes are left where they were. *)
CompactedLate(buf, from, to, size) == SubSeq(buf, 1, to - from) \o Empty(size - (to - from))

Compacted(buf, from, to, size) == SubSeq(buf, from + 1, to) \o Empty(size - (to - from))

(* A call raises MCProtocolError. After that of read_legacy_ping the proxy *)
(* goes on with a packet.                                                  *)
Refuse(message, error) ==
    /\ reading' = "no"
    /\ legacy' = FALSE
    /\ failed' = IF message = "legacy" THEN failed ELSE error

(* Mutant: a full buffer is not noticed. *)
AwaitUnchecked(message, length, buf, from, to) ==
    LET wanted == IF length = Unknown THEN MIN_READ_SIZE ELSE Min({MIN_READ_SIZE, length})
        used == to - from
        size == NewSize(used, Len(buf))
        move == Len(buf) - to < wanted /\ used <= size
    IN /\ data' = IF move THEN Compacted(buf, from, to, size) ELSE buf
       /\ i' = IF move THEN 0 ELSE from
       /\ j' = IF move THEN used ELSE to
       /\ reading' = message
       /\ UNCHANGED <<legacy, failed>>

(* A call waits for more bytes; it allocates a buffer if there is little   *)
(* space. To copy the unparsed bytes into a smaller one raises ValueError. *)
Await(message, length, buf, from, to) ==
    LET wanted == IF length = Unknown THEN MIN_READ_SIZE ELSE Min({MIN_READ_SIZE, length})
        used == to - from
        size == NewSize(used, Len(buf))
        scarce == Len(buf) - to < wanted
    IN IF scarce /\ size < used
       THEN /\ data' = buf /\ i' = from /\ j' = to
            /\ reading' = "no" /\ failed' = "shrink"
            /\ UNCHANGED legacy
       ELSE /\ data' = IF scarce THEN Compacted(buf, from, to, size) ELSE buf
            /\ i' = IF scarce THEN 0 ELSE from
            /\ j' = IF scarce THEN used ELSE to
            /\ IF j' < Len(data')
               THEN reading' = message /\ UNCHANGED <<legacy, failed>>
               ELSE Refuse(message, "full")

Parse(message, bytes) == IF message = "legacy" THEN DecodeLegacy(bytes) ELSE DecodePacket(bytes)

(* The loop of _read_legacy_ping and _read_packet up to its await or end.  *)
Proceed(message, buf, from, to) ==
    LET bytes == SubSeq(buf, from + 1, to)
        length == DecodeVarint(bytes)
        known == IF message = "packet" /\ packet_length = Unknown /\ length.tag = "ok"
                 THEN length.value ELSE packet_length
        result == Parse(message, bytes)
    IN CASE result.tag = "incomplete" ->
              /\ Await(message, known, buf, from, to)
              /\ packet_length' = known
              /\ UNCHANGED history
         [] result.tag = "malformed" ->
              /\ Refuse(message, "malformed")
              /\ data' = buf /\ i' = from /\ j' = to
              /\ packet_length' = known
              /\ UNCHANGED history
         [] result.tag = "ok" ->
              /\ data' = buf /\ i' = from + result.consumed /\ j' = to
              /\ packet_length' = Unknown
              /\ reading' = "no" /\ legacy' = FALSE
              /\ got' = Append(got, result.value)
              /\ parsed' = parsed + result.consumed
              /\ UNCHANGED failed

(* read_legacy_ping or read_packet is called. After a legacy ping nothing  *)
(* more is read.                                                           *)
MayCall ==
    /\ reading = "no" /\ failed = "no"
    /\ \A x \in DOMAIN got : got[x].type = "packet"

Call ==
    /\ MayCall
    /\ Proceed(IF legacy THEN "legacy" ELSE "packet", data, i, j)
    /\ UNCHANGED <<stream, taken>>

(* The buffer with the next count bytes of the stream in its free space. *)
Filled(count) ==
    SubSeq(data, 1, j) \o SubSeq(wire, taken + 1, taken + count) \o SubSeq(data, j + count + 1, n)

(* StreamReader.read returns what there is, as much as there is space for. *)
Fill(count) ==
    /\ reading # "no"
    /\ count \in 1 .. n - j /\ taken + count <= Len(wire)
    /\ taken' = taken + count
    /\ Proceed(reading, Filled(count), i, j + count)
    /\ UNCHANGED stream

(* The peer has closed, perhaps early: ConnectionResetError. *)
EndOfStream ==
    /\ reading # "no"
    /\ reading' = "no"
    /\ failed' = "reset"
    /\ UNCHANGED <<stream, taken, buffer, packet_length, legacy, history>>

(* The call is cancelled by wait_for. read_legacy_ping has no timeout.     *)
TimesOut ==
    /\ reading = "packet"
    /\ reading' = "no"
    /\ UNCHANGED <<stream, taken, buffer, packet_length, legacy, history, failed>>

Next == Call \/ (\E count \in 1 .. MAX_BUFFER_SIZE : Fill(count)) \/ EndOfStream \/ TimesOut

Spec == Init /\ [][Next]_vars

(* The caller calls again, and a read() of bytes that are there returns    *)
(* them without suspending, so that no timeout comes before it: strong     *)
(* fairness, with what enables the actions spelled out.                    *)
FairSpec ==
    /\ Spec
    /\ []<>MayCall => []<><<Call>>_vars
    /\ []<>(reading # "no" /\ taken < Len(wire) /\ j < n) =>
          []<><<\E count \in 1 .. MAX_BUFFER_SIZE : Fill(count)>>_vars

-----------------------------------------------------------------------------
(* Whatever timed out and however often the buffer moved: the messages     *)
(* returned are the first ones sent, and what is left unparsed is what was *)
(* taken from the stream after them. _forward_to_backend passes it on.     *)
FirstOnes == got = SubSeq(sent, 1, Len(got)) /\ parsed = Len(Stream(got))

BytesKept ==
    /\ taken = parsed + (j - i)
    /\ \A x \in 1 .. j - i : data[i + x] = wire[parsed + x]

NothingLost == FirstOnes /\ BytesKept

FrameLength(x) == Len(Encode(sent[x]))

(* The reader gives up ("Exceeded maximum buffer size", or ValueError) only *)
(* for a message that does not fit, or once an earlier message has made    *)
(* the buffer grow, when making it smaller may fail.                       *)
FailsWhenFull ==
    failed \in {"full", "shrink"} =>
        \/ FrameLength(Len(got) + 1) > MAX_BUFFER_SIZE
        \/ \E x \in DOMAIN got : FrameLength(x) > DEFAULT_BUFFER_SIZE - MIN_READ_SIZE

(* Everything sent is returned in the end, unless the peer closes early or *)
(* the buffer is given up on.                                              *)
Delivered ==
    <>(\/ got = sent
       \/ failed = "reset" /\ taken < Len(wire)
       \/ failed \in {"full", "shrink"})

-----------------------------------------------------------------------------
(* What comments say of the program and it does not do. *)

(* Before the error (401, 459, 489): the buffer has its largest size. *)
FullAtMaximum == failed = "full" => n = MAX_BUFFER_SIZE

(* _allocate_buffer (340-341): a buffer becomes smaller when less than a   *)
(* quarter of it is occupied.                                              *)
ShrinksWhenSparse == [][Len(data') < n => 4 * (j' - i') < n]_vars
=============================================================================
