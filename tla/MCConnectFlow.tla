--------------------------- MODULE MCConnectFlow ---------------------------
(* modded runs mod A and may run version 1 of a usermap; plain runs no mod, *)
(* may run version 2 of the same map, and has no download URL.  The client  *)
(* starts with versions of the files, or without the optional one or the map.*)
EXTENDS ConnectFlow

CONSTANTS modded, plain, modA, modFF, modSabl, mapFF, h1, h2

MCModOf == modded :> modA @@ plain :> NoMod
MCModFiles == modA :> <<modFF, modSabl>>
MCMapFiles == modded :> <<mapFF>> @@ plain :> <<mapFF>>
MCWant == modded :> (modFF :> h1 @@ modSabl :> h1 @@ mapFF :> h1)
          @@ plain :> (modFF :> Missing @@ modSabl :> Missing @@ mapFF :> h2)
MCFound == modFF :> {h1, h2} @@ modSabl :> {Missing, h1} @@ mapFF :> {Missing, h1, h2}
MCHasUrl == modded :> TRUE @@ plain :> FALSE
=============================================================================
