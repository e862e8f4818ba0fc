--------------------------- MODULE MCPacketReader ---------------------------
(* A small instance of PacketReader for TLC. *)
EXTENDS PacketReader

Packet(id, size) == [type |-> "packet", id |-> id, size |-> size]
LegacyPing(size) == [type |-> "legacy", id |-> 0, size |-> size]

(* Frames of 3 to 37 bytes, for a buffer of 8 to 32; the second begins     *)
(* like a legacy ping.                                                     *)
SmallPackets == {Packet(5, 0), Packet(0, 5), Packet(0, 8)}
Packets == SmallPackets \cup {Packet(0, 14), Packet(5, 27), Packet(0, 33)}

SentSmall ==
    {<<p, q>> : p, q \in Packets} \cup {<<p, q, r>> : p, r \in Packets, q \in SmallPackets}
    \cup {<<LegacyPing(s)>> : s \in {2, 7}}

(* What PacketWriter encodes PacketReader decodes, whatever follows it.    *)
ASSUME VarintRoundTrip ==
    \A value \in -(2 ^ (Width - 1)) .. 2 ^ (Width - 1) - 1, next \in Bytes :
        LET bytes == EncodeVarint(value)
        IN DecodeVarint(bytes \o <<next>>) = Decoded(Len(bytes), value)
=============================================================================
