---------------------------- MODULE MCDemonware ----------------------------
(* Two sockets, the second of which shares the lobby server with the first, *)
(* and a kind of packet for every way the servers treat one.                *)
EXTENDS Demonware

CONSTANTS s1, s2

MCTalks == (s1 :> Servers) @@ (s2 :> {"lobby"})
MCKinds == [v \in Servers |-> IF v = "auth3" THEN {"json"}
                              ELSE {"header", "auth", "reward", "bandwidth", "failing"}]
MCMaxSends == [v \in Servers |-> IF v = "auth3" THEN 1 ELSE 2]
=============================================================================
