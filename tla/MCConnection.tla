---------------------------- MODULE MCConnection ----------------------------
(* A small instance of Connection for TLC. *)
EXTENDS Connection

(* A client of each kind, with one that stops in the middle. *)
StreamsSmall ==
    {<<>>, <<"legacy">>, <<"prefix">>, <<"ping">>, <<"unknown", "play">>,
     <<"status", "request", "ping">>, <<"status", "ping">>, <<"status", "other">>,
     <<"login", "start1", "start2", "play", "play">>, <<"login", "start1">>,
     <<"login", "bad", "play">>}
=============================================================================
