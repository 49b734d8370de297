------------------------------- MODULE MCLoot -------------------------------
(* Five items: a crate, one that is not supported, a piece of a hero and    *)
(* the hero, and an item that is sold and is worth a codpoint when granted. *)
EXTENDS Loot

MCCrateCost == [c \in {1, 2} |-> [keys |-> 2, codpoints |-> 1]]
MCOnes == [i \in Items |-> 1]
MCContents == [c \in {1, 2} |-> IF c = 1 THEN {<<5, 5>>} ELSE {}]
MCHeroOf == [p \in {3} |-> 4]
MCPack == [p \in {5} |-> [currency |-> "codpoints", amount |-> 1]]
MCTeam == <<5, 1>>
MCContracts == {<<[items |-> {1}, count |-> 2, same |-> TRUE],
                  [items |-> {2, 5}, count |-> 1, same |-> FALSE]>>}
MCMatches == {[keys |-> 1, salvage |-> 1]}
MCOldFiles == {[Fresh EXCEPT !.item = [i \in Ids |-> IF i \in {2, 3} THEN 1 ELSE 0],
                             !.days = 1, !.last = 1]}
=============================================================================
