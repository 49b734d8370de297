----------------------------- MODULE MCMembers -----------------------------
(* Two players who come three times: a slot changes hands, and addresses    *)
(* are left behind in others.                                               *)
EXTENDS Members, TLC

CONSTANTS a, b

MCSymmetry == Permutations(Players)
=============================================================================
