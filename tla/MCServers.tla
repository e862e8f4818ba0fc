------------------------------ MODULE MCServers ------------------------------
(***************************************************************************)
(* The proxy listings of the runs of Servers: a proxy in the server range; *)
(* listings that are in conflict, also with one that is disabled; and two  *)
(* proxies, which leave too few ports for two servers.                     *)
(***************************************************************************)
EXTENDS Servers

Listing(port, voice, enabled) ==
    [port |-> port, voice |-> voice, enabled |-> enabled, routes |-> TRUE]

OneProxy  == <<Listing(2, 1, TRUE)>>
Conflicts == <<[Listing(3, 0, TRUE) EXCEPT !.routes = FALSE], Listing(1, 1, FALSE),
               Listing(3, 1, TRUE), Listing(3, 2, TRUE), Listing(1, 0, TRUE)>>
Crowded   == <<Listing(2, 3, TRUE), Listing(4, 0, TRUE)>>

MCConfigs == {OneProxy, Conflicts, Crowded}

Entries == [port : 1 .. 2, voice : 0 .. 2, enabled : {TRUE}, routes : BOOLEAN]

(* The listings that validate_semantics lets through (config.py 18-43) are *)
(* those that are meant, for all proxy listings with up to three entries.  *)
ASSUME ValidAsMeant == \A c \in UNION {[1 .. n -> Entries] : n \in 0 .. 3} : MeantValid(c)
=============================================================================
