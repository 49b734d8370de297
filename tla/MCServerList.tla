---------------------------- MODULE MCServerList ----------------------------
(* Two servers, one of them named in both packets of a master's answer.      *)
EXTENDS ServerList

CONSTANTS a, b

MCMasterPackets == {[names |-> {a, b}, eot |-> FALSE], [names |-> {b}, eot |-> TRUE]}
MCClients == [s \in {a, b} |-> 2]
MCBots == [s \in {a, b} |-> IF s = a THEN 0 ELSE 1]
=============================================================================
