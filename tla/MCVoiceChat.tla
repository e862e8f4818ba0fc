----------------------------- MODULE MCVoiceChat -----------------------------
(* Small instances of VoiceChat for TLC: clients of one player on two hosts *)
(* and two backends, one of which sends from two ports.                    *)
EXTENDS VoiceChat

CONSTANTS p1, b1, b2, i1, i2, a1, a2, a3, s1, s2

MCPlayerOf  == [s \in Sessions |-> p1]
MCBackendOf == [s \in Sessions |-> IF s = s1 THEN b1 ELSE b2]
MCIpOf      == [s \in Sessions |-> IF s = s1 THEN i1 ELSE i2]
MCHostOf    == [a \in Addrs |-> IF a = a3 THEN i2 ELSE i1]
DistinctIds == [s \in Sessions |-> s]
SharedIds   == [s \in Sessions |-> s1]
=============================================================================
