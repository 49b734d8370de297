---------------------------- MODULE PartyProofs ----------------------------
(***************************************************************************)
(* The two protocols of party.cpp.  Members: players and slots, for any    *)
(* number of both and however often the players come, leave, are kicked    *)
(* and change maps: a player is found in the slot it plays in, and when no *)
(* datagram is lost or overtaken everybody ends up knowing everybody by    *)
(* the right slot.  ConnectFlow: the way onto a server, for any servers,   *)
(* mods and files: no attempt comes back, and a join finds its mod.        *)
(***************************************************************************)
EXTENDS Members, ConnectFlow, FiniteSetTheorems, TLAPS

-----------------------------------------------------------------------------
(* Ranks count a set of numbers from 1 to its cardinality, so InOrder lists *)
(* each of them once.                                                       *)
LEMMA Ranks ==
  ASSUME NEW S \in SUBSET Nat, IsFiniteSet(S)
  PROVE  /\ Cardinality(S) \in Nat
         /\ \A i \in S : Rank(S, i) \in 1..Cardinality(S)
         /\ \A i, j \in S : i < j => Rank(S, i) < Rank(S, j)
         /\ \A i, j \in S : Rank(S, i) = Rank(S, j) => i = j
<1> DEFINE n == Cardinality(S)  U(i) == {j \in S : j <= i}
<1>1. n \in Nat
  BY FS_CardinalityType
<1>2. \A i : Rank(S, i) = Cardinality(U(i)) /\ U(i) \in SUBSET S
  BY DEF Rank
<1>3. \A i : IsFiniteSet(U(i)) /\ Cardinality(U(i)) \in Nat /\ Cardinality(U(i)) <= n
  BY <1>2, FS_Subset, FS_CardinalityType
<1>4. \A i \in S : i \in U(i)
  OBVIOUS
<1>5. \A i \in S : Cardinality(U(i)) # 0
  BY <1>3, <1>4, FS_EmptySet
<1>6. ASSUME NEW i \in S, NEW j \in S, i < j PROVE Cardinality(U(i)) < Cardinality(U(j))
  <2>1. i \in Nat /\ j \in Nat
    OBVIOUS
  <2>2. U(i) \in SUBSET U(j)
    <3>1. ASSUME NEW x \in S, x <= i PROVE x <= j
      BY <1>6, <2>1, <3>1
    <3> QED
      BY <3>1
  <2>3. j \in U(j) /\ j \notin U(i)
    BY <1>6, <2>1
  <2>4. U(i) # U(j)
    BY <2>3, Zenon
  <2> HIDE DEF U
  <2>5. /\ Cardinality(U(i)) <= Cardinality(U(j))
        /\ Cardinality(U(j)) = Cardinality(U(i)) => U(j) = U(i)
    BY <1>3, <2>2, FS_Subset
  <2> QED
    BY <1>3, <2>4, <2>5
<1>7. \A i \in S : Rank(S, i) \in 1..n
  <2> HIDE DEF U, n
  <2> QED
    BY <1>1, <1>2, <1>3, <1>5
<1>8. \A i, j \in S : i < j => Rank(S, i) < Rank(S, j)
  BY <1>2, <1>6
<1>9. ASSUME NEW i \in S, NEW j \in S, Rank(S, i) = Rank(S, j), i # j PROVE FALSE
  <2>1. i \in Nat /\ j \in Nat
    OBVIOUS
  <2>2. i < j \/ j < i
    BY <1>9, <2>1
  <2>3. Rank(S, i) \in Nat /\ Rank(S, j) \in Nat
    BY <1>1, <1>7
  <2> QED
    BY <1>8, <1>9, <2>2, <2>3
<1> QED
  BY <1>1, <1>7, <1>8, <1>9

LEMMA InOrderFacts ==
  ASSUME NEW S \in SUBSET Nat, IsFiniteSet(S)
  PROVE  /\ Cardinality(S) \in Nat
         /\ InOrder(S) \in Seq(S) /\ Len(InOrder(S)) = Cardinality(S)
         /\ \A k \in 1..Cardinality(S) : Rank(S, InOrder(S)[k]) = k
         /\ \A i \in S : /\ Rank(S, i) \in 1..Cardinality(S)
                         /\ InOrder(S)[Rank(S, i)] = i
<1> DEFINE n == Cardinality(S)  r == [i \in S |-> Rank(S, i)]
<1>1. /\ n \in Nat /\ \A i \in S : Rank(S, i) \in 1..n
      /\ \A i, j \in S : Rank(S, i) = Rank(S, j) => i = j
  BY Ranks
<1>2. IsFiniteSet(1..n) /\ Cardinality(1..n) = n
  <2> HIDE DEF n
  <2> QED
    BY <1>1, FS_Interval
<1>3. \A k \in 1..n : \E i \in S : Rank(S, i) = k
  <2>1. r \in [S -> 1..n] /\ \A i, j \in S : r[i] = r[j] => i = j
    BY <1>1
  <2> HIDE DEF r
  <2>2. r \in Injection(S, 1..n)
    BY <2>1 DEF Injection, IsInjective
  <2>3. r \in Surjection(S, 1..n)
    BY <1>2, <2>2, FS_Injection
  <2>4. \A k \in 1..n : \E i \in S : r[i] = k
    BY <2>3 DEF Surjection
  <2> QED
    BY <2>4 DEF r
<1>4. \A k \in 1..n : InOrder(S)[k] \in S /\ Rank(S, InOrder(S)[k]) = k
  BY <1>3 DEF InOrder
<1>5. InOrder(S) \in Seq(S) /\ Len(InOrder(S)) = n
  <2>1. InOrder(S) \in [1..n -> S]
    BY <1>4 DEF InOrder
  <2> HIDE DEF n
  <2> QED
    BY <1>1, <2>1
<1>6. \A i \in S : InOrder(S)[Rank(S, i)] = i
  BY <1>1, <1>4
<1> QED
  BY <1>1, <1>4, <1>5, <1>6

LEMMA MinFacts ==
  ASSUME NEW S \in SUBSET Nat, IsFiniteSet(S), S # {}
  PROVE  Min(S) \in S /\ \A i \in S : Min(S) <= i
<1> DEFINE n == Cardinality(S)
<1>1. n \in Nat /\ n # 0
  BY FS_CardinalityType, FS_EmptySet
<1>2. 1 \in 1..n
  <2> HIDE DEF n
  <2> QED
    BY <1>1
<1>3. PICK m \in S : Rank(S, m) = 1
  <2>1. InOrder(S)[1] \in S /\ Rank(S, InOrder(S)[1]) = 1
    <3>1. InOrder(S) \in Seq(S) /\ Len(InOrder(S)) = n /\ \A k \in 1..n : Rank(S, InOrder(S)[k]) = k
      BY InOrderFacts
    <3> HIDE DEF n
    <3> QED
      BY <1>2, <3>1
  <2> QED
    BY <2>1
<1>4. ASSUME NEW i \in S PROVE m <= i
  <2>1. Rank(S, i) \in Nat /\ Rank(S, i) >= 1
    BY Ranks
  <2>2. ~(i < m)
    BY <1>3, <2>1, Ranks
  <2> QED
    BY <2>2
<1>5. \E x \in S : \A y \in S : x <= y
  BY <1>4
<1> QED
  BY <1>5 DEF Min

-----------------------------------------------------------------------------
(* A slot that is not free has the address of a player, and no slot before  *)
(* it has the same one: addresses are left behind only further up.          *)
Placed ==
  \A i \in Slots : state[i] # "free" =>
    address[i] \in Players /\ \A j \in Slots : j < i => address[j] # address[i]

Updates == [slot : Slots, player : Players]

SlotTypes ==
  /\ state \in [Slots -> {"free", "zombie", "active"}]
  /\ address \in [Slots -> PlayerOrNone] /\ memberInfo \in [Slots -> PlayerOrNone]
  /\ kicks \subseteq Slots /\ gamestate \subseteq Playing
  /\ table \in [Players -> [Slots -> PlayerOrNone]]
  /\ toServer \in [Players -> Nat]
  /\ \A i \in Active : FindClientNumByAdr(address[i]) = i

TypeInv == SlotTypes /\ Placed /\ toClient \in [Players -> Seq(Updates)]

(* The rest of the types.                                                   *)
Standing ==
  /\ due \in Nat /\ rotating \in Nat
  /\ hosts \in [Players -> {"here", "elsewhere"}] /\ astray \subseteq Players

LEMMA StandingInit == Init => Standing
BY DEF Init, Standing

LEMMA StandingNext ==
  ASSUME Standing, [Next]_vars PROVE Standing'
<1>1. CASE \E p \in Players : Join(p)
  BY <1>1 DEF Join, netVars, Standing
<1>2. CASE \E p \in Players : ParseGamestate(p)
  BY <1>2 DEF ParseGamestate, serverVars, Standing
<1>3. CASE \E p \in Players, to \in {"here", "elsewhere"} : JoinGame(p, to)
  BY <1>3 DEF JoinGame, serverVars, netVars, Standing
<1>4. CASE MapRotate
  BY <1>4 DEF MapRotate, clientVars, netVars, Standing
<1>5. CASE PerformMapRotation
  BY <1>5 DEF PerformMapRotation, clientVars, netVars, Standing
<1>6. CASE LoadMap
  BY <1>6 DEF LoadMap, Standing
<1>7. CASE \E p \in Players : MemberInfoUpdate(p) \/ ClientInfo(p) \/ Lose(p) \/ Overtake(p)
  BY <1>7 DEF MemberInfoUpdate, ClientInfo, Lose, Overtake, serverVars, clientVars, Standing
<1>8. CASE \E i \in Slots : Leave(i) \/ FreeSlot(i) \/ KickClient(i) \/ Kick(i) \/ KickClientNum(i)
  BY <1>8 DEF Leave, FreeSlot, KickClient, Kick, KickClientNum, DropClient, clientVars, netVars,
              Standing
<1>9. CASE UNCHANGED vars
  BY <1>9 DEF vars, serverVars, clientVars, netVars, Standing
<1> QED
  BY <1>1, <1>2, <1>3, <1>4, <1>5, <1>6, <1>7, <1>8, <1>9 DEF Next

LEMMA SlotsFact == Slots \subseteq Nat /\ IsFiniteSet(Slots) /\ 0 \notin Slots
<1>1. NumClients \in Nat
  BY MembersAssumption
<1>2. IsFiniteSet(1..NumClients)
  BY <1>1, FS_Interval
<1> QED
  BY <1>1, <1>2 DEF Slots

(* The first slot with an address is the only one that is not free, if any. *)
LEMMA FirstSlot ==
  ASSUME NEW A \in [Slots -> PlayerOrNone], NEW i \in Slots,
         \A j \in Slots : j < i => A[j] # A[i]
  PROVE  /\ {k \in Slots : A[k] = A[i]} # {}
         /\ Min({k \in Slots : A[k] = A[i]}) = i
<1> DEFINE S == {k \in Slots : A[k] = A[i]}
<1>1. i \in S /\ S \in SUBSET Slots
  OBVIOUS
<1>2. S \in SUBSET Nat /\ IsFiniteSet(S) /\ S # {}
  BY <1>1, SlotsFact, FS_Subset
<1>3. Min(S) \in S /\ Min(S) <= i
  <2> HIDE DEF S
  <2> QED
    BY <1>1, <1>2, MinFacts
<1>4. Min(S) \in Nat /\ i \in Nat /\ ~(Min(S) < i)
  BY <1>2, <1>3, SlotsFact
<1> QED
  BY <1>1, <1>3, <1>4

LEMMA FindFacts ==
  ASSUME TypeInv, NEW p \in Players
  PROVE  /\ FindClientNumByAdr(p) = 0 \/ FindClientNumByAdr(p) \in SlotsOf(p)
         /\ \A i \in SlotsOf(p) : state[i] # "free" => FindClientNumByAdr(p) = i
<1>1. SlotsOf(p) \in SUBSET Nat /\ IsFiniteSet(SlotsOf(p))
  BY SlotsFact, FS_Subset DEF SlotsOf
<1>2. FindClientNumByAdr(p) = 0 \/ FindClientNumByAdr(p) \in SlotsOf(p)
  BY <1>1, MinFacts DEF FindClientNumByAdr
<1>3. ASSUME NEW i \in SlotsOf(p), state[i] # "free" PROVE FindClientNumByAdr(p) = i
  <2>1. address \in [Slots -> PlayerOrNone] /\ i \in Slots /\ address[i] = p
    BY DEF TypeInv, SlotTypes, SlotsOf
  <2>2. \A j \in Slots : j < i => address[j] # address[i]
    BY <1>3, <2>1 DEF TypeInv, Placed
  <2>3. SlotsOf(p) = {k \in Slots : address[k] = address[i]}
    BY <2>1 DEF SlotsOf
  <2> QED
    BY <2>1, <2>2, <2>3, FirstSlot DEF FindClientNumByAdr
<1> QED
  BY <1>2, <1>3

(* No two slots that are not free have the same address.                    *)
LEMMA OneSlot ==
  ASSUME Placed, NEW i \in Slots, NEW j \in Slots, address[i] = address[j],
         state[i] # "free", state[j] # "free"
  PROVE  i = j
<1>1. i \in Nat /\ j \in Nat
  BY SlotsFact
<1> QED
  BY <1>1 DEF Placed

(* What is said of the types without the search.                            *)
LEMMA TypeInvNext ==
  ASSUME state' \in [Slots -> {"free", "zombie", "active"}],
         address' \in [Slots -> PlayerOrNone], memberInfo' \in [Slots -> PlayerOrNone],
         kicks' \subseteq Slots, gamestate' \subseteq Playing',
         table' \in [Players -> [Slots -> PlayerOrNone]],
         toServer' \in [Players -> Nat], toClient' \in [Players -> Seq(Updates)],
         Placed'
  PROVE  TypeInv'
<1>1. ASSUME NEW i \in Active' PROVE FindClientNumByAdr(address[i])' = i
  <2>1. i \in Slots /\ \A j \in Slots : j < i => address'[j] # address'[i]
    BY <1>1 DEF Active, Placed
  <2>2. /\ {k \in Slots : address'[k] = address'[i]} # {}
        /\ Min({k \in Slots : address'[k] = address'[i]}) = i
    BY <2>1, FirstSlot
  <2> QED
    BY <2>2 DEF FindClientNumByAdr, SlotsOf
<1> QED
  BY <1>1 DEF TypeInv, SlotTypes

LEMMA InitType == Init => TypeInv
<1> SUFFICES ASSUME Init PROVE TypeInv
  OBVIOUS
<1> QED
  BY DEF Init, TypeInv, SlotTypes, Placed, NoMembers, PlayerOrNone, Active, Playing

LEMMA JoinType ==
  ASSUME TypeInv, NEW p \in Players, Join(p) PROVE TypeInv'
<1> DEFINE own == {i \in SlotsOf(p) : state[i] = "zombie"}
           free == {i \in Slots : state[i] = "free"}
           usable == IF own # {} THEN own ELSE free
           m == Min(usable)
<1>0. /\ state \in [Slots -> {"free", "zombie", "active"}] /\ address \in [Slots -> PlayerOrNone]
      /\ gamestate \subseteq Playing /\ Placed
  BY DEF TypeInv, SlotTypes
<1>1. usable \in SUBSET Slots /\ usable # {}
  BY DEF Join, SlotsOf
<1>2. usable \in SUBSET Nat /\ IsFiniteSet(usable)
  BY <1>1, SlotsFact, FS_Subset
<1>3. m \in usable /\ m \in Slots /\ \A i \in usable : m <= i
  <2> HIDE DEF usable
  <2> QED
    BY <1>1, <1>2, MinFacts
<1>4. /\ state' = [state EXCEPT ![m] = "active"] /\ address' = [address EXCEPT ![m] = p]
      /\ gamestate' = gamestate \cup {p}
      /\ UNCHANGED <<memberInfo, kicks, table, toServer, toClient>>
      /\ p \notin Playing
  BY DEF Join, netVars
<1>5. \A i \in Slots : state[i] # "free" /\ address[i] = p => i \in own
  BY <1>0, <1>4 DEF Playing, Active, SlotsOf
<1>6. own # {} => address[m] = p /\ state[m] = "zombie"
  BY <1>3 DEF SlotsOf
<1>7. own = {} => state[m] = "free"
  BY <1>3
<1> HIDE DEF own, free, usable, m
<1>8. \A i \in Slots : i # m /\ state[i] # "free" => address[i] # p
  <2>1. ASSUME NEW i \in Slots, i # m, state[i] # "free", address[i] = p PROVE FALSE
    <3>1. own # {}
      BY <1>5, <2>1
    <3> QED
      BY <1>0, <1>3, <1>6, <2>1, <3>1, OneSlot
  <2> QED
    BY <2>1
<1>9. \A j \in Slots : j < m => address[j] # p
  <2>1. CASE own # {}
    BY <1>0, <1>3, <1>6, <2>1 DEF Placed
  <2>2. CASE own = {}
    <3>1. ASSUME NEW j \in Slots, j < m, address[j] = p PROVE FALSE
      <4>1. state[j] = "free"
        BY <1>5, <2>2, <3>1
      <4>2. j \in usable
        BY <2>2, <4>1 DEF usable, free
      <4> QED
        BY <1>3, <3>1, <4>2, SlotsFact
    <3> QED
      BY <3>1
  <2> QED
    BY <2>1, <2>2
<1>10. Placed'
  <2>1. ASSUME NEW i \in Slots, state'[i] # "free"
        PROVE  address'[i] \in Players /\ \A j \in Slots : j < i => address'[j] # address'[i]
    <3>1. CASE i = m
      <4>1. address'[i] = p
        BY <1>0, <1>3, <1>4, <3>1
      <4>2. ASSUME NEW j \in Slots, j < i PROVE address'[j] # p
        <5>1. j # m
          BY <3>1, <4>2, SlotsFact
        <5> QED
          BY <1>0, <1>3, <1>4, <1>9, <3>1, <4>2, <5>1
      <4> QED
        BY <4>1, <4>2
    <3>2. CASE i # m
      <4>1. state[i] # "free" /\ address'[i] = address[i] /\ address[i] # p
        BY <1>0, <1>3, <1>4, <1>8, <2>1, <3>2
      <4> QED
        BY <1>0, <1>3, <1>4, <4>1 DEF Placed
    <3> QED
      BY <3>1, <3>2
  <2> QED
    BY <2>1 DEF Placed
<1>11. gamestate' \subseteq Playing'
  <2>1. m \in Active' /\ address'[m] = p
    BY <1>0, <1>3, <1>4 DEF Active
  <2>2. ASSUME NEW i \in Active PROVE address[i] \in Playing'
    <3>1. i # m
      <4>1. state[m] # "active"
        BY <1>6, <1>7
      <4> QED
        BY <4>1 DEF Active
    <3>2. i \in Active' /\ address'[i] = address[i]
      BY <1>0, <1>3, <1>4, <3>1 DEF Active
    <3> QED
      BY <3>2 DEF Playing
  <2>3. Playing \subseteq Playing' /\ p \in Playing'
    BY <2>1, <2>2 DEF Playing
  <2> QED
    BY <1>0, <1>4, <2>3
<1>12. state' \in [Slots -> {"free", "zombie", "active"}] /\ address' \in [Slots -> PlayerOrNone]
  BY <1>0, <1>4 DEF PlayerOrNone
<1> QED
  BY <1>4, <1>10, <1>11, <1>12, TypeInvNext DEF TypeInv, SlotTypes

(* A slot given up keeps its address; its player's gamestate is forgotten.  *)
LEMMA DropType ==
  ASSUME TypeInv, NEW i \in Slots, state[i] = "active", DropClient(i),
         kicks' \subseteq Slots, UNCHANGED <<toServer, toClient>>
  PROVE  TypeInv'
<1>1. /\ state \in [Slots -> {"free", "zombie", "active"}] /\ address \in [Slots -> PlayerOrNone]
      /\ gamestate \subseteq Playing /\ Placed
  BY DEF TypeInv, SlotTypes
<1>2. /\ state' = [state EXCEPT ![i] = "zombie"] /\ gamestate' = gamestate \ {address[i]}
      /\ UNCHANGED <<address, memberInfo, table>>
  BY DEF DropClient
<1>3. Placed'
  BY <1>1, <1>2 DEF Placed
<1>4. gamestate' \subseteq Playing'
  <2>1. ASSUME NEW q \in gamestate' PROVE q \in Playing'
    <3>1. PICK j \in Active : address[j] = q
      BY <1>1, <1>2 DEF Playing
    <3>2. j # i
      BY <1>2, <3>1
    <3>3. j \in Active'
      BY <1>1, <1>2, <3>2 DEF Active
    <3> QED
      BY <1>2, <3>1, <3>3 DEF Playing
  <2> QED
    BY <2>1
<1>5. state' \in [Slots -> {"free", "zombie", "active"}]
  BY <1>1, <1>2
<1> QED
  BY <1>2, <1>3, <1>4, <1>5, TypeInvNext DEF TypeInv, SlotTypes

(* Nothing happens to slots, addresses and gamestates.                      *)
LEMMA SameSlotsType ==
  ASSUME TypeInv, UNCHANGED <<state, address>>, gamestate' \subseteq gamestate,
         kicks' \subseteq Slots, memberInfo' \in [Slots -> PlayerOrNone],
         table' \in [Players -> [Slots -> PlayerOrNone]],
         toServer' \in [Players -> Nat], toClient' \in [Players -> Seq(Updates)]
  PROVE  TypeInv'
<1>1. Placed' /\ gamestate' \subseteq Playing'
  BY DEF TypeInv, SlotTypes, Placed, Playing, Active
<1> QED
  BY <1>1, TypeInvNext DEF TypeInv, SlotTypes

LEMMA FreeSlotType ==
  ASSUME TypeInv, NEW i \in Slots, FreeSlot(i) PROVE TypeInv'
<1>1. /\ state \in [Slots -> {"free", "zombie", "active"}] /\ state[i] = "zombie"
      /\ state' = [state EXCEPT ![i] = "free"]
      /\ UNCHANGED <<address, memberInfo, kicks, gamestate, table, toServer, toClient>>
  BY DEF FreeSlot, TypeInv, SlotTypes, clientVars, netVars
<1>2. Placed' /\ Active' = Active
  BY <1>1 DEF TypeInv, Placed, Active
<1>3. gamestate' \subseteq Playing'
  BY <1>1, <1>2 DEF TypeInv, SlotTypes, Playing
<1>4. state' \in [Slots -> {"free", "zombie", "active"}]
  BY <1>1
<1> QED
  BY <1>1, <1>2, <1>3, <1>4, TypeInvNext DEF TypeInv, SlotTypes

LEMMA LoadMapType ==
  ASSUME TypeInv, LoadMap PROVE TypeInv'
<1>1. /\ UNCHANGED <<state, address, memberInfo, kicks, table, toServer, toClient>>
      /\ gamestate' = Playing
  BY DEF LoadMap
<1>2. Placed' /\ Playing' = Playing
  BY <1>1 DEF TypeInv, Placed, Playing, Active
<1> QED
  BY <1>1, <1>2, TypeInvNext DEF TypeInv, SlotTypes

-----------------------------------------------------------------------------
(* The updates a client is sent.  Latest: the last of s about slot j names  *)
(* q; Silent: none is about it.                                             *)
Latest(s, j, q) ==
  \E k \in 1..Len(s) : s[k] = Update(j, q) /\ \A l \in 1..Len(s) : l > k => s[l].slot # j
Silent(s, j) == \A k \in 1..Len(s) : s[k].slot # j

LEMMA ConcatUpdates ==
  ASSUME NEW s \in Seq(Updates), NEW t \in Seq(Updates), NEW j, NEW q
  PROVE  /\ s \o t \in Seq(Updates)
         /\ Latest(t, j, q) => Latest(s \o t, j, q)
         /\ Latest(s, j, q) /\ Silent(t, j) => Latest(s \o t, j, q)
         /\ Silent(s, j) /\ Silent(t, j) => Silent(s \o t, j)
<1> DEFINE u == s \o t  m == Len(s)  n == Len(t)
<1>1. /\ u \in Seq(Updates) /\ m \in Nat /\ n \in Nat /\ Len(u) = m + n
      /\ \A k \in 1..m : u[k] = s[k]
      /\ \A k \in 1..n : u[m + k] = t[k]
  OBVIOUS
<1> HIDE DEF u, m, n
<1>2. \A k \in 1..(m + n) : k \in 1..m \/ \E l \in 1..n : k = m + l
  <2>1. ASSUME NEW k \in 1..(m + n), k \notin 1..m PROVE k - m \in 1..n /\ k = m + (k - m)
    BY <1>1, <2>1
  <2> QED
    BY <2>1
<1>3. ASSUME Latest(t, j, q) PROVE Latest(u, j, q)
  <2>1. PICK k \in 1..n : t[k] = Update(j, q) /\ \A l \in 1..n : l > k => t[l].slot # j
    BY <1>3 DEF Latest, n
  <2>2. m + k \in 1..(m + n) /\ u[m + k] = Update(j, q)
    <3>1. m \in Nat /\ n \in Nat
      BY <1>1
    <3>2. m + k \in 1..(m + n)
      BY <2>1, <3>1
    <3>3. u[m + k] = t[k]
      BY <1>1, <2>1
    <3> QED
      BY <2>1, <3>2, <3>3
  <2>3. ASSUME NEW l \in 1..(m + n), l > m + k PROVE u[l].slot # j
    <3>1. l - m \in 1..n /\ l - m > k /\ l = m + (l - m)
      BY <1>1, <2>1, <2>3
    <3> QED
      BY <1>1, <2>1, <3>1
  <2> QED
    BY <1>1, <2>2, <2>3 DEF Latest
<1>4. ASSUME Latest(s, j, q), Silent(t, j) PROVE Latest(u, j, q)
  <2>1. PICK k \in 1..m : s[k] = Update(j, q) /\ \A l \in 1..m : l > k => s[l].slot # j
    BY <1>4 DEF Latest, m
  <2>2. \A l \in 1..n : t[l].slot # j
    BY <1>4 DEF Silent, n
  <2>3. k \in 1..(m + n) /\ u[k] = Update(j, q)
    BY <1>1, <2>1
  <2>4. ASSUME NEW l \in 1..(m + n), l > k PROVE u[l].slot # j
    <3>1. CASE l \in 1..m
      BY <1>1, <2>1, <2>4, <3>1
    <3>2. ASSUME NEW i \in 1..n, l = m + i PROVE u[l].slot # j
      BY <1>1, <2>2, <3>2
    <3> QED
      BY <1>2, <3>1, <3>2
  <2> QED
    BY <1>1, <2>3, <2>4 DEF Latest
<1>5. ASSUME Silent(s, j), Silent(t, j) PROVE Silent(u, j)
  <2>1. (\A l \in 1..m : s[l].slot # j) /\ (\A l \in 1..n : t[l].slot # j)
    BY <1>5 DEF Silent, m, n
  <2>2. ASSUME NEW k \in 1..(m + n) PROVE u[k].slot # j
    BY <1>1, <1>2, <2>1
  <2> QED
    BY <1>1, <2>2 DEF Silent
<1> QED
  BY <1>1, <1>3, <1>4, <1>5 DEF u

LEMMA OneUpdate ==
  ASSUME NEW i \in Slots, NEW p \in Players
  PROVE  /\ <<Update(i, p)>> \in Seq(Updates)
         /\ Latest(<<Update(i, p)>>, i, p)
         /\ \A j : j # i => Silent(<<Update(i, p)>>, j)
<1>1. Update(i, p) \in Updates /\ Update(i, p).slot = i
  BY DEF Update, Updates
<1> DEFINE s == <<Update(i, p)>>
<1>2. s \in Seq(Updates) /\ Len(s) = 1 /\ s[1] = Update(i, p)
  BY <1>1
<1> HIDE DEF s
<1>3. Latest(s, i, p)
  BY <1>2 DEF Latest
<1>4. \A j : j # i => Silent(s, j)
  BY <1>1, <1>2 DEF Silent
<1> QED
  BY <1>2, <1>3, <1>4 DEF s

LEMMA AppendUpdate ==
  ASSUME NEW s \in Seq(Updates), NEW i \in Slots, NEW p \in Players
  PROVE  /\ Append(s, Update(i, p)) \in Seq(Updates)
         /\ Append(s, Update(i, p)) = s \o <<Update(i, p)>>
<1>1. Update(i, p) \in Updates
  BY DEF Update, Updates
<1> DEFINE u == Update(i, p)
<1> HIDE DEF u
<1>2. u \in Updates
  BY <1>1 DEF u
<1>3. Append(s, u) \in Seq(Updates) /\ Append(s, u) = s \o <<u>>
  BY <1>2
<1> QED
  BY <1>3 DEF u

(* Everybody who is a member is in a snapshot of the members.               *)
LEMMA SnapshotFacts ==
  ASSUME NEW info \in [Slots -> PlayerOrNone]
  PROVE  /\ Snapshot(info) \in Seq(Updates)
         /\ \A j \in Slots : info[j] \in Players => Latest(Snapshot(info), j, info[j])
<1> DEFINE S == {i \in Slots : info[i] # NoPlayer}  t == InOrder(S)  n == Cardinality(S)
           s == Snapshot(info)
<1>1. S \in SUBSET Nat /\ IsFiniteSet(S)
  BY SlotsFact, FS_Subset
<1>2. /\ n \in Nat /\ Len(t) = n /\ t \in Seq(S)
      /\ \A k \in 1..n : Rank(S, t[k]) = k
      /\ \A i \in S : Rank(S, i) \in 1..n /\ t[Rank(S, i)] = i
  <2> HIDE DEF S
  <2> QED
    BY <1>1, InOrderFacts
<1>3. s = [k \in 1..n |-> Update(t[k], info[t[k]])]
  BY <1>2 DEF Snapshot
<1>4. \A k \in 1..n : t[k] \in S
  BY <1>2
<1> HIDE DEF t, n, s
<1>5. \A k \in 1..n : s[k] \in Updates /\ s[k] = Update(t[k], info[t[k]]) /\ s[k].slot = t[k]
  <2>1. ASSUME NEW k \in 1..n PROVE t[k] \in Slots /\ info[t[k]] \in Players
    BY <1>4 DEF PlayerOrNone
  <2> QED
    BY <1>3, <2>1 DEF Update, Updates
<1>6. s \in Seq(Updates) /\ Len(s) = n
  <2>1. s \in [1..n -> Updates]
    BY <1>3, <1>5
  <2> QED
    BY <1>2, <2>1
<1>7. ASSUME NEW j \in Slots, info[j] \in Players PROVE Latest(s, j, info[j])
  <2>1. j \in S
    BY <1>7, MembersAssumption
  <2>2. Rank(S, j) \in 1..n /\ t[Rank(S, j)] = j
    BY <1>2, <2>1
  <2>3. \A l \in 1..n : l # Rank(S, j) => t[l] # j
    BY <1>2
  <2>4. s[Rank(S, j)] = Update(j, info[j])
    BY <1>5, <2>2
  <2>5. \A l \in 1..n : l > Rank(S, j) => s[l].slot # j
    BY <1>2, <1>5, <2>2, <2>3
  <2> QED
    BY <1>6, <2>2, <2>4, <2>5 DEF Latest
<1> QED
  BY <1>6, <1>7 DEF s

LEMMA TakeUpdate ==
  ASSUME NEW s \in Seq(Updates), s # << >>
  PROVE  /\ Tail(s) \in Seq(Updates) /\ Head(s) \in Updates
         /\ \A j, q : Latest(s, j, q) =>
              Latest(Tail(s), j, q) \/ (Head(s) = Update(j, q) /\ Silent(Tail(s), j))
         /\ \A j : Silent(s, j) => Silent(Tail(s), j) /\ Head(s).slot # j
<1> DEFINE n == Len(s)  t == Tail(s)
<1>1. /\ n \in Nat /\ n >= 1 /\ t \in Seq(Updates) /\ Len(t) = n - 1
      /\ Head(s) = s[1] /\ s[1] \in Updates
      /\ \A k \in 1..(n - 1) : t[k] = s[k + 1]
  OBVIOUS
<1> HIDE DEF n, t
<1>2. ASSUME NEW j, NEW q, Latest(s, j, q)
      PROVE  Latest(t, j, q) \/ (s[1] = Update(j, q) /\ Silent(t, j))
  <2>1. PICK k \in 1..n : s[k] = Update(j, q) /\ \A l \in 1..n : l > k => s[l].slot # j
    BY <1>2 DEF Latest, n
  <2>2. \A l \in 1..(n - 1) : l + 1 \in 1..n /\ l + 1 > 1
    BY <1>1
  <2>3. CASE k = 1
    BY <1>1, <2>1, <2>2, <2>3 DEF Silent
  <2>4. CASE k # 1
    <3>1. k - 1 \in 1..(n - 1) /\ t[k - 1] = Update(j, q)
      BY <1>1, <2>1, <2>4
    <3>2. ASSUME NEW l \in 1..(n - 1), l > k - 1 PROVE t[l].slot # j
      <4>1. l + 1 \in 1..n /\ l + 1 > k
        BY <1>1, <2>1, <3>2
      <4> QED
        BY <1>1, <2>1, <4>1
    <3> QED
      BY <1>1, <3>1, <3>2 DEF Latest
  <2> QED
    BY <2>3, <2>4
<1>3. ASSUME NEW j, Silent(s, j) PROVE Silent(t, j) /\ s[1].slot # j
  <2>1. \A k \in 1..n : s[k].slot # j
    BY <1>3 DEF Silent, n
  <2>2. \A l \in 1..(n - 1) : l + 1 \in 1..n
    BY <1>1
  <2>3. \A l \in 1..(n - 1) : t[l].slot # j
    BY <1>1, <2>1, <2>2
  <2>4. s[1].slot # j
    BY <1>1, <2>1
  <2> QED
    BY <1>1, <2>3, <2>4 DEF Silent
<1> QED
  BY <1>1, <1>2, <1>3 DEF t

(* What a report adds to the updates on their way: for its sender every     *)
(* member, for others still in a slot the sender, and nothing else.         *)
LEMMA AnswersFacts ==
  ASSUME TypeInv, NEW p \in Players, NEW n \in Slots, NEW info \in [Slots -> PlayerOrNone],
         NEW q \in Players
  PROVE  /\ Answers(p, n, info)[q] \in Seq(Updates)
         /\ q = p => \A j \in Slots : info[j] \in Players => Latest(Answers(p, n, info)[q], j, info[j])
         /\ q # p /\ (\E i \in SlotsOf(q) : state[i] # "free") => Latest(Answers(p, n, info)[q], n, p)
         /\ q # p => \A j : j # n =>
              /\ \A r : Latest(toClient[q], j, r) => Latest(Answers(p, n, info)[q], j, r)
              /\ Silent(toClient[q], j) => Silent(Answers(p, n, info)[q], j)
<1> DEFINE s == toClient[q]
           told == \E i \in SlotsOf(q) : state[i] # "free"
           base == IF told THEN Append(s, Update(n, p)) ELSE s
           more == IF q = p THEN Snapshot(info) ELSE << >>
           u == <<Update(n, p)>>
<1>1. Answers(p, n, info)[q] = base \o more
  BY DEF Answers
<1>2. s \in Seq(Updates) /\ u \in Seq(Updates) /\ << >> \in Seq(Updates) /\ Snapshot(info) \in Seq(Updates)
  <2>1. s \in Seq(Updates)
    BY DEF TypeInv
  <2>2. << >> \in Seq(Updates)
    OBVIOUS
  <2> QED
    BY <2>1, <2>2, OneUpdate, SnapshotFacts
<1>3. (told => base = s \o u) /\ (~told => base = s)
  BY <1>2, AppendUpdate
<1>4. Latest(u, n, p) /\ \A j : j # n => Silent(u, j)
  BY OneUpdate
<1>5. \A j : Silent(<< >>, j)
  BY DEF Silent
<1> HIDE DEF s, told, base, u
<1>6. /\ s \o u \in Seq(Updates) /\ Latest(s \o u, n, p)
      /\ \A j : j # n => /\ \A r : Latest(s, j, r) => Latest(s \o u, j, r)
                         /\ Silent(s, j) => Silent(s \o u, j)
  <2>1. \A j, r : /\ s \o u \in Seq(Updates)
                  /\ Latest(u, j, r) => Latest(s \o u, j, r)
                  /\ Latest(s, j, r) /\ Silent(u, j) => Latest(s \o u, j, r)
                  /\ Silent(s, j) /\ Silent(u, j) => Silent(s \o u, j)
    BY <1>2, ConcatUpdates
  <2> QED
    BY <1>4, <2>1
<1>7. /\ base \in Seq(Updates)
      /\ \A j : j # n => /\ \A r : Latest(s, j, r) => Latest(base, j, r)
                         /\ Silent(s, j) => Silent(base, j)
  BY <1>2, <1>3, <1>6
<1>8. told => Latest(base, n, p)
  BY <1>3, <1>6
<1>9. more \in Seq(Updates)
  BY <1>2
<1>10. CASE q = p
  <2>1. \A j \in Slots : info[j] \in Players => Latest(more, j, info[j])
    BY <1>10, SnapshotFacts
  <2> HIDE DEF more
  <2> QED
    BY <1>1, <1>7, <1>9, <1>10, <2>1, ConcatUpdates
<1>11. CASE q # p
  <2>1. \A j : Silent(more, j)
    BY <1>5, <1>11
  <2> HIDE DEF more
  <2>2. /\ base \o more \in Seq(Updates)
        /\ \A j, r : Latest(base, j, r) => Latest(base \o more, j, r)
        /\ \A j : Silent(base, j) => Silent(base \o more, j)
    BY <1>7, <1>9, <2>1, ConcatUpdates
  <2> QED
    BY <1>1, <1>7, <1>8, <1>11, <2>2 DEF s, told
<1> QED
  BY <1>10, <1>11

(* The server takes a report for the slot its sender plays in, and drops it *)
(* when the sender does not play.                                           *)
LEMMA ClientInfoFacts ==
  ASSUME TypeInv, NEW p \in Players, ClientInfo(p)
  PROVE  /\ UNCHANGED <<state, address, kicks, rotating, gamestate, table, astray, disturbed>>
         /\ toServer' = [toServer EXCEPT ![p] = @ - 1] /\ toServer' \in [Players -> Nat]
         /\ memberInfo' \in [Slots -> PlayerOrNone] /\ toClient' \in [Players -> Seq(Updates)]
         /\ \A i \in Slots : address[i] # p => memberInfo'[i] = memberInfo[i]
         /\ \/ /\ \A i \in Active : address[i] # p
               /\ UNCHANGED toClient
            \/ \E n \in Active : /\ address[n] = p /\ memberInfo' = [memberInfo EXCEPT ![n] = p]
                                 /\ toClient' = Answers(p, n, memberInfo')
<1> DEFINE n == FindClientNumByAdr(p)  info == [memberInfo EXCEPT ![n] = p]
<1>1. /\ UNCHANGED <<state, address, kicks, rotating, gamestate, table, astray, disturbed>>
      /\ toServer' = [toServer EXCEPT ![p] = @ - 1] /\ toServer[p] > 0
      /\ IF n = 0 THEN UNCHANGED <<memberInfo, toClient>>
         ELSE IF state[n] # "active"
         THEN memberInfo' = [memberInfo EXCEPT ![n] = NoPlayer] /\ UNCHANGED toClient
         ELSE memberInfo' = info /\ toClient' = Answers(p, n, info)
  BY DEF ClientInfo, clientVars
<1>2. /\ toServer \in [Players -> Nat] /\ memberInfo \in [Slots -> PlayerOrNone]
      /\ toClient \in [Players -> Seq(Updates)] /\ address \in [Slots -> PlayerOrNone]
  BY DEF TypeInv, SlotTypes
<1>3. /\ n = 0 \/ (n \in Slots /\ address[n] = p)
      /\ \A i \in Slots : address[i] = p /\ state[i] # "free" => n = i
  BY FindFacts DEF SlotsOf
<1> HIDE DEF n
<1>4. toServer' \in [Players -> Nat]
  BY <1>1, <1>2
<1>5. CASE n = 0
  <2>1. \A i \in Active : address[i] # p
    BY <1>3, <1>5, SlotsFact DEF Active
  <2> QED
    BY <1>1, <1>2, <1>4, <1>5, <2>1
<1>6. CASE n # 0 /\ state[n] # "active"
  <2>1. \A i \in Active : address[i] # p
    BY <1>3, <1>6 DEF Active
  <2>2. memberInfo' = [memberInfo EXCEPT ![n] = NoPlayer]
    BY <1>1, <1>6
  <2>3. memberInfo' \in [Slots -> PlayerOrNone]
    BY <1>2, <2>2 DEF PlayerOrNone
  <2> QED
    BY <1>1, <1>2, <1>3, <1>4, <1>6, <2>1, <2>2, <2>3
<1>7. CASE n # 0 /\ state[n] = "active"
  <2>1. /\ n \in Active /\ n \in Slots /\ address[n] = p
        /\ memberInfo' = info /\ toClient' = Answers(p, n, info)
    BY <1>1, <1>3, <1>7 DEF Active
  <2>2. info \in [Slots -> PlayerOrNone] /\ \A i \in Slots : i # n => info[i] = memberInfo[i]
    BY <1>2 DEF PlayerOrNone
  <2> HIDE DEF info
  <2>3. \A q \in Players : Answers(p, n, info)[q] \in Seq(Updates)
    BY <2>1, <2>2, AnswersFacts
  <2>4. toClient' \in [Players -> Seq(Updates)]
    <3>1. toClient' = [q \in Players |-> Answers(p, n, info)[q]]
      BY <2>1 DEF Answers
    <3> QED
      BY <2>3, <3>1
  <2> QED
    BY <1>1, <1>3, <1>4, <2>1, <2>2, <2>4 DEF info
<1> QED
  BY <1>5, <1>6, <1>7

LEMMA MemberInfoUpdateFacts ==
  ASSUME TypeInv, NEW p \in Players, MemberInfoUpdate(p)
  PROVE  /\ UNCHANGED <<state, address, memberInfo, kicks, rotating, gamestate, toServer, astray, disturbed>>
         /\ toClient[p] # << >> /\ Head(toClient[p]) \in Updates
         /\ toClient' = [toClient EXCEPT ![p] = Tail(@)]
         /\ table' = [table EXCEPT ![p][Head(toClient[p]).slot] = Head(toClient[p]).player]
         /\ toClient' \in [Players -> Seq(Updates)]
         /\ table' \in [Players -> [Slots -> PlayerOrNone]]
<1> DEFINE m == Head(toClient[p])  t == Tail(toClient[p])
<1>1. /\ toClient \in [Players -> Seq(Updates)] /\ table \in [Players -> [Slots -> PlayerOrNone]]
      /\ toClient[p] # << >>
  BY DEF TypeInv, SlotTypes, MemberInfoUpdate
<1>2. m \in Updates /\ t \in Seq(Updates)
  BY <1>1, TakeUpdate
<1>3. /\ toClient' = [toClient EXCEPT ![p] = t]
      /\ table' = [table EXCEPT ![p][m.slot] = m.player]
      /\ UNCHANGED <<state, address, memberInfo, kicks, rotating, gamestate, toServer, astray, disturbed>>
  BY DEF MemberInfoUpdate, serverVars
<1> HIDE DEF m, t
<1>4. toClient' \in [Players -> Seq(Updates)]
  BY <1>1, <1>2, <1>3
<1>5. table' \in [Players -> [Slots -> PlayerOrNone]]
  BY <1>1, <1>2, <1>3 DEF Updates, PlayerOrNone
<1> QED
  BY <1>1, <1>2, <1>3, <1>4, <1>5 DEF m, t

LEMMA LoseType ==
  ASSUME TypeInv, NEW p \in Players, Lose(p) PROVE TypeInv'
<1>1. /\ toServer \in [Players -> Nat] /\ toClient \in [Players -> Seq(Updates)]
      /\ UNCHANGED <<state, address, memberInfo, kicks, gamestate, table>>
  BY DEF Lose, serverVars, clientVars, TypeInv, SlotTypes
<1>2. toServer' \in [Players -> Nat]
  <2>1. UNCHANGED toServer \/ (toServer[p] > 0 /\ toServer' = [toServer EXCEPT ![p] = @ - 1])
    BY DEF Lose
  <2>2. ASSUME toServer[p] > 0 PROVE toServer[p] - 1 \in Nat
    BY <1>1, <2>2
  <2> QED
    BY <1>1, <2>1, <2>2
<1>3. toClient' \in [Players -> Seq(Updates)]
  <2>1. CASE UNCHANGED toClient
    BY <1>1, <2>1
  <2>2. CASE toClient[p] # << >> /\ toClient' = [toClient EXCEPT ![p] = Tail(@)]
    <3>1. Tail(toClient[p]) \in Seq(Updates)
      BY <1>1, <2>2, TakeUpdate
    <3> QED
      BY <1>1, <2>2, <3>1
  <2> QED
    BY <2>1, <2>2 DEF Lose
<1> QED
  BY <1>1, <1>2, <1>3, SameSlotsType DEF TypeInv, SlotTypes

LEMMA OvertakeType ==
  ASSUME TypeInv, NEW p \in Players, Overtake(p) PROVE TypeInv'
<1> DEFINE s == toClient[p]  r == SubSeq(s, 3, Len(s))
<1>1. /\ toClient \in [Players -> Seq(Updates)]
      /\ toClient' = [toClient EXCEPT ![p] = <<s[2], s[1]>> \o r]
      /\ UNCHANGED <<state, address, memberInfo, kicks, gamestate, table, toServer>>
      /\ Len(s) > 1
  BY DEF Overtake, serverVars, clientVars, TypeInv, SlotTypes
<1>2. s \in Seq(Updates)
  BY <1>1
<1> HIDE DEF s
<1>3. s[1] \in Updates /\ s[2] \in Updates /\ r \in Seq(Updates)
  <2>1. Len(s) \in Nat
    BY <1>2
  <2> QED
    BY <1>1, <1>2, <2>1
<1>4. <<s[2], s[1]>> \in Seq(Updates)
  BY <1>3
<1> DEFINE h == <<s[2], s[1]>>
<1> HIDE DEF r, h
<1>5. h \o r \in Seq(Updates)
  BY <1>3, <1>4 DEF h
<1>6. toClient' \in [Players -> Seq(Updates)]
  BY <1>1, <1>5 DEF h
<1> QED
  BY <1>1, <1>6, SameSlotsType DEF TypeInv, SlotTypes

LEMMA NextType == TypeInv /\ [Next]_vars => TypeInv'
<1> SUFFICES ASSUME TypeInv, [Next]_vars PROVE TypeInv'
  OBVIOUS
<1>1. /\ memberInfo \in [Slots -> PlayerOrNone] /\ kicks \subseteq Slots
      /\ table \in [Players -> [Slots -> PlayerOrNone]]
      /\ toServer \in [Players -> Nat] /\ toClient \in [Players -> Seq(Updates)]
  BY DEF TypeInv, SlotTypes
<1>2. CASE \E p \in Players : Join(p)
  BY <1>2, JoinType
<1>3. CASE \E p \in Players : ParseGamestate(p)
  <2>1. PICK p \in Players : ParseGamestate(p)
    BY <1>3
  <2>2. table' \in [Players -> [Slots -> PlayerOrNone]]
    BY <1>1, <2>1 DEF ParseGamestate, NoMembers, PlayerOrNone
  <2>3. toServer' \in [Players -> Nat]
    <3>1. UNCHANGED toServer \/ toServer' = [toServer EXCEPT ![p] = @ + 1]
      BY <2>1 DEF ParseGamestate
    <3>2. CASE UNCHANGED toServer
      BY <1>1, <3>2
    <3>3. CASE toServer' = [toServer EXCEPT ![p] = @ + 1]
      BY <1>1, <3>3
    <3> QED
      BY <3>1, <3>2, <3>3
  <2> QED
    BY <1>1, <2>1, <2>2, <2>3, SameSlotsType DEF ParseGamestate, serverVars
<1>4. CASE \E p \in Players : MemberInfoUpdate(p)
  <2>1. PICK p \in Players : MemberInfoUpdate(p)
    BY <1>4
  <2>2. /\ UNCHANGED <<state, address, memberInfo, kicks, gamestate, toServer>>
        /\ toClient' \in [Players -> Seq(Updates)] /\ table' \in [Players -> [Slots -> PlayerOrNone]]
    BY <2>1, MemberInfoUpdateFacts
  <2> QED
    BY <1>1, <2>2, SameSlotsType
<1>5. CASE \E p \in Players : ClientInfo(p)
  <2>1. /\ UNCHANGED <<state, address, kicks, gamestate, table>>
        /\ toServer' \in [Players -> Nat] /\ memberInfo' \in [Slots -> PlayerOrNone]
        /\ toClient' \in [Players -> Seq(Updates)]
    BY <1>5, ClientInfoFacts
  <2> QED
    BY <1>1, <2>1, SameSlotsType
<1>6. CASE \E p \in Players : Lose(p)
  BY <1>6, LoseType
<1>7. CASE \E p \in Players : Overtake(p)
  BY <1>7, OvertakeType
<1>8. CASE \E i \in Slots : Leave(i)
  BY <1>1, <1>8, DropType DEF Leave, netVars
<1>9. CASE \E i \in Slots : FreeSlot(i)
  BY <1>9, FreeSlotType
<1>10. CASE \E i \in Slots : KickClient(i)
  <2>1. PICK i \in Slots : KickClient(i)
    BY <1>10
  <2>2. memberInfo' \in [Slots -> PlayerOrNone] /\ kicks' \subseteq Slots
    BY <1>1, <2>1 DEF KickClient, PlayerOrNone
  <2> QED
    BY <1>1, <2>1, <2>2, SameSlotsType DEF KickClient, clientVars, netVars
<1>11. CASE \E i \in Slots : Kick(i)
  <2>1. kicks' \subseteq Slots
    BY <1>1, <1>11 DEF Kick
  <2> QED
    BY <1>1, <1>11, <2>1, SameSlotsType DEF Kick, clientVars, netVars
<1>12. CASE \E i \in Slots : KickClientNum(i)
  <2>1. PICK i \in Slots : KickClientNum(i)
    BY <1>12
  <2>2. kicks' \subseteq Slots /\ UNCHANGED <<toServer, toClient>>
    BY <1>1, <2>1 DEF KickClientNum, netVars
  <2>3. CASE state[i] = "active"
    BY <2>1, <2>2, <2>3, DropType DEF KickClientNum
  <2>4. CASE state[i] # "active"
    BY <1>1, <2>1, <2>2, <2>4, SameSlotsType DEF KickClientNum, clientVars
  <2> QED
    BY <2>3, <2>4
<1>13. CASE PerformMapRotation
  <2>1. memberInfo' \in [Slots -> PlayerOrNone]
    BY <1>13 DEF PerformMapRotation, NoMembers, PlayerOrNone
  <2> QED
    BY <1>1, <1>13, <2>1, SameSlotsType DEF PerformMapRotation, clientVars, netVars
<1>14. CASE LoadMap
  BY <1>14, LoadMapType
<1>15. CASE UNCHANGED vars
  BY <1>1, <1>15, SameSlotsType DEF vars, serverVars, clientVars, netVars
<1>16. CASE \E p \in Players, to \in {"here", "elsewhere"} : JoinGame(p, to)
  BY <1>1, <1>16, SameSlotsType DEF JoinGame, serverVars, netVars
<1>17. CASE MapRotate
  BY <1>1, <1>17, SameSlotsType DEF MapRotate, clientVars, netVars
<1> QED
  BY <1>2, <1>3, <1>4, <1>5, <1>6, <1>7, <1>8, <1>9, <1>10, <1>11, <1>12, <1>13, <1>14, <1>15,
     <1>16, <1>17
  DEF Next

(* Every variable keeps its type, and a player is always found in the slot  *)
(* it plays in, whatever addresses players who left have left behind.       *)
THEOREM TypeCorrect == Spec => []TypeOK
<1>1. TypeInv /\ Standing => TypeOK
  BY DEF TypeInv, SlotTypes, Standing, TypeOK
<1> QED
  BY InitType, NextType, StandingInit, StandingNext, <1>1, PTL DEF Spec

-----------------------------------------------------------------------------
(* Why the members agree, while no datagram is lost or overtaken: whoever   *)
(* plays is in the server's table or will report, unless it went astray, or *)
(* a kick or a map is on its way; and for every two who play, one will      *)
(* report or went astray, or the last update that the one is sent of the    *)
(* other's slot is right, or its table is.                                  *)
Reporting(p) == p \in gamestate \/ toServer[p] > 0 \/ p \in astray
Undecided(i) == i \in kicks \/ rotating > 0
Learns(p, j, q) ==
  Latest(toClient[p], j, q) \/ (table[p][j] = q /\ Silent(toClient[p], j))

Announced ==
  \A j \in Active : Reporting(address[j]) \/ Undecided(j) \/ memberInfo[j] = address[j]
Told ==
  \A i, j \in Active :
    \/ Reporting(address[i]) \/ Reporting(address[j]) \/ Undecided(i) \/ Undecided(j)
    \/ Learns(address[i], j, address[j])

AgreeInv == TypeInv /\ Standing /\ (~disturbed => Announced /\ Told)

LEMMA InitAgree == Init => AgreeInv
<1> SUFFICES ASSUME Init PROVE AgreeInv
  OBVIOUS
<1>1. Active = {}
  BY DEF Init, Active
<1> QED
  BY <1>1, InitType, StandingInit DEF AgreeInv, Announced, Told

(* Nobody new plays, nobody's report is lost, and a member is forgotten     *)
(* only when a kick or a map follows.                                       *)
LEMMA QuietAgree ==
  ASSUME Announced, Told,
         \A i \in Active' :
           /\ i \in Active /\ address'[i] = address[i]
           /\ Reporting(address[i]) => \/ address[i] \in gamestate' \/ toServer'[address[i]] > 0
                                       \/ address[i] \in astray'
           /\ Undecided(i) => i \in kicks' \/ rotating' > 0
           /\ memberInfo'[i] = memberInfo[i] \/ i \in kicks' \/ rotating' > 0,
         UNCHANGED <<table, toClient>>
  PROVE  Announced' /\ Told'
<1>1. Announced'
  BY DEF Announced, Reporting, Undecided
<1>2. ASSUME NEW i \in Active', NEW j \in Active'
      PROVE  \/ Reporting(address[i])' \/ Reporting(address[j])' \/ Undecided(i)' \/ Undecided(j)'
             \/ Learns(address[i], j, address[j])'
  <2>1. \/ Reporting(address[i]) \/ Reporting(address[j]) \/ Undecided(i) \/ Undecided(j)
        \/ Learns(address[i], j, address[j])
    BY DEF Told
  <2>2. Learns(address[i], j, address[j]) => Learns(address[i], j, address[j])'
    BY DEF Learns
  <2> QED
    BY <2>1, <2>2 DEF Reporting, Undecided
<1> QED
  BY <1>1, <1>2 DEF Told

(* A gamestate on its way to all who play, or to all who are new.           *)
LEMMA JoinAgree ==
  ASSUME TypeInv, Announced, Told, NEW p \in Players, Join(p)
  PROVE  Announced' /\ Told'
<1> DEFINE own == {i \in SlotsOf(p) : state[i] = "zombie"}
           free == {i \in Slots : state[i] = "free"}
           m == Min(IF own # {} THEN own ELSE free)
<1>1. /\ state' = [state EXCEPT ![m] = "active"] /\ address' = [address EXCEPT ![m] = p]
      /\ gamestate' = gamestate \cup {p}
      /\ UNCHANGED <<memberInfo, kicks, rotating, table, toServer, toClient, astray>>
      /\ state \in [Slots -> {"free", "zombie", "active"}] /\ address \in [Slots -> PlayerOrNone]
  BY DEF Join, netVars, TypeInv, SlotTypes
<1> HIDE DEF m
<1>2. \A i \in Active' : \/ i \in Active /\ address'[i] = address[i]
                         \/ address'[i] = p
  BY <1>1 DEF Active
<1>3. Reporting(p)' /\ \A q : Reporting(q) => Reporting(q)'
  BY <1>1 DEF Reporting
<1>4. \A i : Undecided(i)' <=> Undecided(i)
  BY <1>1 DEF Undecided
<1>5. \A q, j, r : Learns(q, j, r)' <=> Learns(q, j, r)
  BY <1>1 DEF Learns
<1>6. Announced'
  <2>1. ASSUME NEW j \in Active', j \in Active, address'[j] = address[j]
        PROVE  Reporting(address[j])' \/ Undecided(j)' \/ memberInfo'[j] = address'[j]
    BY <1>1, <1>4, <2>1 DEF Announced, Reporting
  <2>2. ASSUME NEW j \in Active', address'[j] = p PROVE Reporting(address[j])'
    BY <1>1, <2>2 DEF Reporting
  <2> QED
    BY <1>2, <2>1, <2>2 DEF Announced
<1>7. Told'
  <2>1. ASSUME NEW i \in Active', NEW j \in Active', address'[i] = p \/ address'[j] = p
        PROVE  Reporting(address[i])' \/ Reporting(address[j])'
    BY <1>1, <2>1 DEF Reporting
  <2>2. ASSUME NEW i \in Active', NEW j \in Active', i \in Active, address'[i] = address[i],
               j \in Active, address'[j] = address[j]
        PROVE  \/ Reporting(address[i])' \/ Reporting(address[j])' \/ Undecided(i)' \/ Undecided(j)'
               \/ Learns(address[i], j, address[j])'
    <3>1. \/ Reporting(address[i]) \/ Reporting(address[j]) \/ Undecided(i) \/ Undecided(j)
          \/ Learns(address[i], j, address[j])
      BY <2>2 DEF Told
    <3> QED
      BY <1>1, <2>2, <3>1 DEF Reporting, Undecided, Learns
  <2> QED
    BY <1>2, <2>1, <2>2 DEF Told
<1> QED
  BY <1>6, <1>7

LEMMA LoadMapAgree ==
  ASSUME LoadMap PROVE Announced' /\ Told'
<1>1. \A i \in Active' : Reporting(address[i])'
  BY DEF LoadMap, Active, Playing, Reporting
<1> QED
  BY <1>1 DEF Announced, Told

LEMMA ParseAgree ==
  ASSUME TypeInv, Announced, Told, NEW p \in Players, ParseGamestate(p)
  PROVE  Announced' /\ Told'
<1>1. /\ UNCHANGED <<state, address, memberInfo, kicks, rotating, toClient>>
      /\ gamestate' = gamestate \ {p}
      /\ table' = [table EXCEPT ![p] = NoMembers]
      /\ toServer \in [Players -> Nat]
      /\ table \in [Players -> [Slots -> PlayerOrNone]]
  BY DEF ParseGamestate, serverVars, TypeInv, SlotTypes
<1>2. \A i \in Active : address[i] \in Players
  BY DEF TypeInv, Placed, Active
<1>3. ASSUME NEW q \in Players, Reporting(q) \/ q = p
      PROVE  q \in gamestate' \/ toServer'[q] > 0 \/ q \in astray'
  <2>1. CASE toServer' = [toServer EXCEPT ![p] = @ + 1] /\ astray' = astray \ {p}
    BY <1>1, <1>3, <2>1 DEF Reporting
  <2>2. CASE astray' = astray \cup {p} /\ UNCHANGED toServer
    BY <1>1, <1>3, <2>2 DEF Reporting
  <2> QED
    BY <2>1, <2>2 DEF ParseGamestate
<1>4. Active' = Active
  BY <1>1 DEF Active
<1>5. Announced'
  BY <1>1, <1>2, <1>3, <1>4 DEF Announced, Reporting, Undecided
<1>6. ASSUME NEW i \in Active, NEW j \in Active
      PROVE  \/ Reporting(address[i])' \/ Reporting(address[j])' \/ Undecided(i)' \/ Undecided(j)'
             \/ Learns(address[i], j, address[j])'
  <2>1. CASE address[i] = p
    BY <1>1, <1>2, <1>3, <2>1 DEF Reporting
  <2>2. CASE address[i] # p
    <3>1. table'[address[i]] = table[address[i]]
      BY <1>1, <1>2, <2>2
    <3>2. \/ Reporting(address[i]) \/ Reporting(address[j]) \/ Undecided(i) \/ Undecided(j)
          \/ Learns(address[i], j, address[j])
      BY DEF Told
    <3>3. CASE Reporting(address[i])
      BY <1>1, <1>2, <1>3, <3>3 DEF Reporting
    <3>4. CASE Reporting(address[j])
      BY <1>1, <1>2, <1>3, <3>4 DEF Reporting
    <3>5. CASE Undecided(i) \/ Undecided(j)
      BY <1>1, <3>5 DEF Undecided
    <3>6. CASE Learns(address[i], j, address[j])
      BY <1>1, <3>1, <3>6 DEF Learns
    <3> QED
      BY <3>2, <3>3, <3>4, <3>5, <3>6
  <2> QED
    BY <2>1, <2>2
<1> QED
  BY <1>4, <1>5, <1>6 DEF Told

(* An update taken moves what a client will know to what it knows.          *)
LEMMA MemberInfoUpdateAgree ==
  ASSUME TypeInv, Announced, Told, NEW p \in Players, MemberInfoUpdate(p)
  PROVE  Announced' /\ Told'
<1> DEFINE m == Head(toClient[p])  t == Tail(toClient[p])
<1>1. /\ UNCHANGED <<state, address, memberInfo, kicks, rotating, gamestate, toServer, astray>>
      /\ toClient[p] # << >> /\ m \in Updates
      /\ toClient' = [toClient EXCEPT ![p] = t]
      /\ table' = [table EXCEPT ![p][m.slot] = m.player]
      /\ toClient \in [Players -> Seq(Updates)]
      /\ table \in [Players -> [Slots -> PlayerOrNone]]
  BY MemberInfoUpdateFacts DEF TypeInv, SlotTypes
<1>2. /\ \A j, q : Latest(toClient[p], j, q) => Latest(t, j, q) \/ (m = Update(j, q) /\ Silent(t, j))
      /\ \A j : Silent(toClient[p], j) => Silent(t, j) /\ m.slot # j
  BY <1>1, TakeUpdate
<1> HIDE DEF m, t
<1>3. Active' = Active /\ Announced'
  BY <1>1 DEF Active, Announced, Reporting, Undecided
<1>4. ASSUME NEW r \in Players, NEW j \in Slots, NEW q \in Players, Learns(r, j, q)
      PROVE  Learns(r, j, q)'
  <2>1. CASE r # p
    <3>1. toClient'[r] = toClient[r] /\ table'[r] = table[r]
      BY <1>1, <2>1
    <3> QED
      BY <1>4, <3>1 DEF Learns
  <2>2. CASE r = p
    <3>1. toClient'[p] = t
      BY <1>1
    <3>2. CASE Latest(t, j, q)
      BY <2>2, <3>1, <3>2 DEF Learns
    <3>3. CASE m = Update(j, q) /\ Silent(t, j)
      <4>1. m.slot = j /\ m.player = q
        BY <3>3 DEF Update
      <4>2. table'[p][j] = q
        BY <1>1, <4>1
      <4> QED
        BY <2>2, <3>1, <3>3, <4>2 DEF Learns
    <3>4. CASE table[p][j] = q /\ Silent(toClient[p], j)
      <4>1. Silent(t, j) /\ m.slot # j
        BY <1>2, <3>4
      <4>2. table'[p][j] = q
        BY <1>1, <3>4, <4>1
      <4> QED
        BY <2>2, <3>1, <4>1, <4>2 DEF Learns
    <3> QED
      BY <1>2, <1>4, <2>2, <3>2, <3>3, <3>4 DEF Learns
  <2> QED
    BY <2>1, <2>2
<1>5. \A i \in Active : i \in Slots /\ address[i] \in Players
  BY DEF TypeInv, Placed, Active
<1>6. ASSUME NEW i \in Active, NEW j \in Active
      PROVE  \/ Reporting(address[i])' \/ Reporting(address[j])' \/ Undecided(i)' \/ Undecided(j)'
             \/ Learns(address[i], j, address[j])'
  <2>1. \/ Reporting(address[i]) \/ Reporting(address[j]) \/ Undecided(i) \/ Undecided(j)
        \/ Learns(address[i], j, address[j])
    BY DEF Told
  <2>2. Learns(address[i], j, address[j]) => Learns(address[i], j, address[j])'
    BY <1>1, <1>4, <1>5 DEF Learns
  <2> QED
    BY <1>1, <2>1, <2>2 DEF Reporting, Undecided
<1> QED
  BY <1>3, <1>6 DEF Told

(* The report makes its sender known to all who play, and it gets to know   *)
(* every member.                                                            *)
LEMMA ClientInfoAgree ==
  ASSUME TypeInv, Announced, Told, NEW p \in Players, ClientInfo(p)
  PROVE  Announced' /\ Told'
<1>1. /\ UNCHANGED <<state, address, kicks, rotating, gamestate, table, astray>>
      /\ toServer' = [toServer EXCEPT ![p] = @ - 1]
      /\ \A i \in Slots : address[i] # p => memberInfo'[i] = memberInfo[i]
      /\ toServer \in [Players -> Nat] /\ memberInfo \in [Slots -> PlayerOrNone]
      /\ memberInfo' \in [Slots -> PlayerOrNone]
      /\ \/ /\ \A i \in Active : address[i] # p
            /\ UNCHANGED toClient
         \/ \E n \in Active : /\ address[n] = p /\ memberInfo' = [memberInfo EXCEPT ![n] = p]
                              /\ toClient' = Answers(p, n, memberInfo')
  BY ClientInfoFacts DEF TypeInv, SlotTypes
<1>2. Active' = Active /\ \A i \in Active : i \in Slots /\ state[i] # "free" /\ address[i] \in Players
  BY <1>1 DEF TypeInv, Placed, Active
<1>3. \A q \in Players : q # p /\ Reporting(q) =>
        q \in gamestate' \/ toServer'[q] > 0 \/ q \in astray'
  BY <1>1 DEF Reporting
<1>4. CASE (\A i \in Active : address[i] # p) /\ UNCHANGED toClient
  BY <1>1, <1>2, <1>3, <1>4, QuietAgree DEF Undecided
<1>5. ASSUME NEW n \in Active, address[n] = p, memberInfo' = [memberInfo EXCEPT ![n] = p],
             toClient' = Answers(p, n, memberInfo')
      PROVE  Announced' /\ Told'
  <2>1. \A j \in Active : j # n => address[j] # p
    BY <1>2, <1>5, OneSlot DEF TypeInv
  <2>2. \A j \in Active : Reporting(address[j])' \/ Undecided(j)' \/ memberInfo'[j] = address'[j]
    <3>1. ASSUME NEW j \in Active, j # n
          PROVE  Reporting(address[j])' \/ Undecided(j)' \/ memberInfo'[j] = address'[j]
      <4>1. Reporting(address[j]) \/ Undecided(j) \/ memberInfo[j] = address[j]
        BY DEF Announced
      <4>2. address[j] # p /\ address[j] \in Players /\ memberInfo'[j] = memberInfo[j]
        BY <1>1, <1>2, <2>1, <3>1
      <4> QED
        BY <1>1, <1>3, <4>1, <4>2 DEF Reporting, Undecided
    <3>2. memberInfo'[n] = address'[n]
      BY <1>1, <1>2, <1>5
    <3> QED
      BY <3>1, <3>2
  <2>3. ASSUME NEW q \in Players
        PROVE  /\ q = p => \A j \in Slots : memberInfo'[j] \in Players => Latest(toClient'[q], j, memberInfo'[j])
               /\ q # p /\ (\E i \in SlotsOf(q) : state[i] # "free") => Latest(toClient'[q], n, p)
               /\ q # p => \A j : j # n =>
                    /\ \A r : Latest(toClient[q], j, r) => Latest(toClient'[q], j, r)
                    /\ Silent(toClient[q], j) => Silent(toClient'[q], j)
    <3> DEFINE info == memberInfo'
    <3>1. n \in Slots /\ info \in [Slots -> PlayerOrNone] /\ toClient'[q] = Answers(p, n, info)[q]
      BY <1>1, <1>2, <1>5
    <3> HIDE DEF info
    <3>2. /\ q = p => \A j \in Slots : info[j] \in Players => Latest(Answers(p, n, info)[q], j, info[j])
          /\ q # p /\ (\E i \in SlotsOf(q) : state[i] # "free") => Latest(Answers(p, n, info)[q], n, p)
          /\ q # p => \A j : j # n =>
               /\ \A r : Latest(toClient[q], j, r) => Latest(Answers(p, n, info)[q], j, r)
               /\ Silent(toClient[q], j) => Silent(Answers(p, n, info)[q], j)
      BY <3>1, AnswersFacts
    <3>3. memberInfo' = info
      BY DEF info
    <3> QED
      BY <3>1, <3>2, <3>3
  <2>4. ASSUME NEW i \in Active, NEW j \in Active
        PROVE  \/ Reporting(address[i])' \/ Reporting(address[j])' \/ Undecided(i)' \/ Undecided(j)'
               \/ Learns(address[i], j, address[j])'
    <3>1. address[i] \in Players /\ address[j] \in Players /\ i \in Slots /\ j \in Slots
      BY <1>2
    <3>2. CASE i = n
      <4>1. Reporting(address[j])' \/ Undecided(j)' \/ memberInfo'[j] = address'[j]
        BY <2>2
      <4>2. ASSUME memberInfo'[j] = address'[j] PROVE Latest(toClient'[p], j, address'[j])
        BY <1>1, <2>3, <3>1, <4>2
      <4>3. address'[i] = p
        BY <1>1, <1>5, <3>2
      <4> QED
        BY <4>1, <4>2, <4>3 DEF Learns
    <3>3. CASE i # n /\ j = n
      <4>1. address[i] # p /\ i \in SlotsOf(address[i]) /\ state[i] # "free"
        BY <1>2, <2>1, <3>1, <3>3 DEF SlotsOf
      <4>2. Latest(toClient'[address[i]], n, p)
        BY <2>3, <3>1, <4>1
      <4>3. address'[i] = address[i] /\ address'[j] = p
        BY <1>1, <1>5, <3>3
      <4> QED
        BY <3>3, <4>2, <4>3 DEF Learns
    <3>4. CASE i # n /\ j # n
      <4>1. address[i] # p /\ address[j] # p
        BY <2>1, <3>4
      <4>2. \/ Reporting(address[i]) \/ Reporting(address[j]) \/ Undecided(i) \/ Undecided(j)
            \/ Learns(address[i], j, address[j])
        BY DEF Told
      <4>3. Learns(address[i], j, address[j]) => Learns(address[i], j, address[j])'
        BY <1>1, <2>3, <3>1, <3>4, <4>1 DEF Learns
      <4>4. /\ Reporting(address[i]) => Reporting(address[i])'
            /\ Reporting(address[j]) => Reporting(address[j])'
        BY <1>1, <1>3, <3>1, <4>1 DEF Reporting
      <4> QED
        BY <1>1, <4>2, <4>3, <4>4 DEF Undecided
    <3> QED
      BY <3>2, <3>3, <3>4
  <2> QED
    BY <1>2, <2>2, <2>4 DEF Announced, Told
<1> QED
  BY <1>1, <1>4, <1>5

LEMMA DropAgree ==
  ASSUME TypeInv, Announced, Told, NEW k \in Slots, state[k] = "active", DropClient(k),
         kicks' \in {kicks, kicks \ {k}}, UNCHANGED <<rotating, toServer, toClient, astray>>
  PROVE  Announced' /\ Told'
<1>1. /\ state' = [state EXCEPT ![k] = "zombie"] /\ gamestate' = gamestate \ {address[k]}
      /\ UNCHANGED <<address, memberInfo, table>>
      /\ state \in [Slots -> {"free", "zombie", "active"}]
  BY DEF DropClient, TypeInv, SlotTypes
<1>2. ASSUME NEW i \in Active' PROVE i \in Active /\ i # k /\ address[i] # address[k]
  <2>1. i \in Slots /\ i # k /\ state[i] = "active"
    BY <1>1 DEF Active
  <2> QED
    BY <2>1, OneSlot DEF TypeInv, Active
<1> QED
  BY <1>1, <1>2, QuietAgree DEF Reporting, Undecided

LEMMA NextAgree == AgreeInv /\ [Next]_vars => AgreeInv'
<1> SUFFICES ASSUME AgreeInv, [Next]_vars PROVE AgreeInv'
  OBVIOUS
<1>1. TypeInv' /\ TypeInv /\ Standing' /\ Standing
  BY NextType, StandingNext DEF AgreeInv
<1>2. SUFFICES ASSUME ~disturbed' PROVE Announced' /\ Told'
  BY <1>1 DEF AgreeInv
<1>3. CASE LoadMap
  BY <1>3, LoadMapAgree
<1>4. CASE \E p \in Players : Lose(p) \/ Overtake(p)
  BY <1>2, <1>4 DEF Lose, Overtake
<1>5. CASE UNCHANGED disturbed
  <2>1. Announced /\ Told
    BY <1>2, <1>5 DEF AgreeInv
  <2>2. CASE \E p \in Players : Join(p)
    BY <1>1, <2>1, <2>2, JoinAgree
  <2>3. CASE \E p \in Players : ParseGamestate(p)
    BY <1>1, <2>1, <2>3, ParseAgree
  <2>4. CASE \E p \in Players : MemberInfoUpdate(p)
    BY <1>1, <2>1, <2>4, MemberInfoUpdateAgree
  <2>5. CASE \E p \in Players : ClientInfo(p)
    BY <1>1, <2>1, <2>5, ClientInfoAgree
  <2>6. CASE \E i \in Slots : Leave(i)
    BY <1>1, <2>1, <2>6, DropAgree DEF Leave, netVars
  <2>7. CASE \E i \in Slots : FreeSlot(i)
    <3>1. PICK k \in Slots : FreeSlot(k)
      BY <2>7
    <3>2. state \in [Slots -> {"free", "zombie", "active"}] /\ state[k] = "zombie"
          /\ state' = [state EXCEPT ![k] = "free"]
      BY <1>1, <3>1 DEF FreeSlot, TypeInv, SlotTypes
    <3>3. Active' \subseteq Active
      BY <3>2 DEF Active
    <3>4. UNCHANGED <<address, memberInfo, kicks, rotating, gamestate, table, toServer, toClient, astray>>
      BY <3>1 DEF FreeSlot, clientVars, netVars
    <3> QED
      BY <2>1, <3>3, <3>4, QuietAgree DEF Reporting, Undecided
  <2>8. CASE \E i \in Slots : KickClient(i)
    <3>1. PICK k \in Slots : KickClient(k)
      BY <2>8
    <3>2. /\ kicks' = kicks \cup {k} /\ memberInfo' = [memberInfo EXCEPT ![k] = NoPlayer]
          /\ UNCHANGED <<state, address, rotating, gamestate, table, toServer, toClient, astray>>
          /\ memberInfo \in [Slots -> PlayerOrNone]
      BY <1>1, <3>1 DEF KickClient, clientVars, netVars, TypeInv, SlotTypes
    <3>3. Active' = Active /\ Active \subseteq Slots
      BY <3>2 DEF Active
    <3>4. \A i \in Active' : memberInfo'[i] = memberInfo[i] \/ i \in kicks'
      BY <3>2, <3>3
    <3> QED
      BY <2>1, <3>2, <3>3, <3>4, QuietAgree DEF Reporting, Undecided
  <2>9. CASE \E i \in Slots : Kick(i)
    BY <2>1, <2>9, QuietAgree DEF Kick, clientVars, netVars, Reporting, Undecided, Active
  <2>10. CASE \E i \in Slots : KickClientNum(i)
    <3>1. PICK k \in Slots : KickClientNum(k)
      BY <2>10
    <3>2. kicks' = kicks \ {k} /\ UNCHANGED <<rotating, toServer, toClient, astray>>
      BY <3>1 DEF KickClientNum, netVars
    <3>3. CASE state[k] = "active"
      BY <1>1, <2>1, <3>1, <3>2, <3>3, DropAgree DEF KickClientNum
    <3>4. CASE state[k] # "active"
      <4>1. UNCHANGED <<state, address, memberInfo, gamestate, table>>
        BY <3>1, <3>4 DEF KickClientNum, clientVars
      <4>2. Active' = Active /\ k \notin Active
        BY <3>4, <4>1 DEF Active
      <4> QED
        BY <2>1, <3>2, <4>1, <4>2, QuietAgree DEF Reporting, Undecided
    <3> QED
      BY <3>3, <3>4
  <2>11. CASE PerformMapRotation
    <3>1. rotating' > 0
      BY <1>1, <2>11 DEF PerformMapRotation, Standing
    <3> QED
      BY <2>1, <2>11, <3>1, QuietAgree
      DEF PerformMapRotation, clientVars, netVars, Reporting, Undecided, Active
  <2>12. CASE UNCHANGED vars
    BY <2>1, <2>12, QuietAgree
    DEF vars, serverVars, clientVars, netVars, Reporting, Undecided, Active
  <2>13. CASE \E p \in Players, to \in {"here", "elsewhere"} : JoinGame(p, to)
    BY <2>1, <2>13, QuietAgree DEF JoinGame, serverVars, netVars, Reporting, Undecided, Active
  <2>14. CASE MapRotate
    BY <2>1, <2>14, QuietAgree DEF MapRotate, clientVars, netVars, Reporting, Undecided, Active
  <2> QED
    BY <1>3, <1>4, <2>2, <2>3, <2>4, <2>5, <2>6, <2>7, <2>8, <2>9, <2>10, <2>11, <2>12,
       <2>13, <2>14
    DEF Next
<1>6. LoadMap \/ (\E p \in Players : Lose(p) \/ Overtake(p)) \/ UNCHANGED disturbed
  <2>1. ASSUME NEW p \in Players, Join(p) \/ ParseGamestate(p) \/ MemberInfoUpdate(p) \/ ClientInfo(p)
        PROVE  UNCHANGED disturbed
    BY <2>1 DEF Join, ParseGamestate, MemberInfoUpdate, ClientInfo, netVars
  <2>2. ASSUME NEW i \in Slots,
               Leave(i) \/ FreeSlot(i) \/ KickClient(i) \/ Kick(i) \/ KickClientNum(i)
        PROVE  UNCHANGED disturbed
    BY <2>2 DEF Leave, FreeSlot, KickClient, Kick, KickClientNum, netVars
  <2>3. ASSUME MapRotate \/ PerformMapRotation \/ UNCHANGED vars PROVE UNCHANGED disturbed
    BY <2>3 DEF MapRotate, PerformMapRotation, vars, netVars
  <2>4. ASSUME NEW p \in Players, NEW to \in {"here", "elsewhere"}, JoinGame(p, to)
        PROVE  UNCHANGED disturbed
    BY <2>4 DEF JoinGame, netVars
  <2> QED
    BY <2>1, <2>2, <2>3, <2>4 DEF Next
<1> QED
  BY <1>3, <1>4, <1>5, <1>6

(* Whoever came, left, was kicked or changed slots, and however the maps    *)
(* changed: once all datagrams have arrived, none of them lost or overtaken *)
(* since a map that made up for it, the server and all who play know all    *)
(* who play by the right slot, except for those who reported elsewhere.     *)
THEOREM MembersKnowEachOther == Spec => []MembersAgree
<1>1. AgreeInv => MembersAgree
  <2> SUFFICES ASSUME AgreeInv, Settled, ~disturbed, NEW j \in Reported
               PROVE  /\ memberInfo[j] = address[j]
                      /\ \A i \in Reported : table[address[i]][j] = address[j]
    BY DEF MembersAgree
  <2>1. ASSUME NEW i \in Reported
        PROVE  i \in Active /\ address[i] \in Players /\ ~Reporting(address[i]) /\ ~Undecided(i)
    <3>1. i \in Active /\ address[i] \notin astray
      BY DEF Reported
    <3>2. address[i] \in Players
      BY <3>1 DEF AgreeInv, TypeInv, Placed, Active
    <3> QED
      BY <3>1, <3>2 DEF Settled, Reporting, Undecided
  <2>2. memberInfo[j] = address[j]
    BY <2>1 DEF AgreeInv, Announced
  <2>3. ASSUME NEW i \in Reported PROVE table[address[i]][j] = address[j]
    <3>1. Learns(address[i], j, address[j])
      BY <2>1 DEF AgreeInv, Told
    <3>2. toClient[address[i]] = << >>
      BY <2>1 DEF Settled
    <3>3. ~Latest(toClient[address[i]], j, address[j])
      BY <3>2 DEF Latest
    <3> QED
      BY <3>1, <3>3 DEF Learns
  <2> QED
    BY <2>2, <2>3
<1> QED
  BY InitAgree, NextAgree, <1>1, PTL DEF Spec

-----------------------------------------------------------------------------
(* The connect flow.  What Picked returns: elements of the list, some if    *)
(* there are any in S.                                                      *)
LEMMA PickedFacts ==
  ASSUME NEW T, NEW fs \in Seq(T), NEW S
  PROVE  /\ Picked(fs, S) \in Seq(T)
         /\ (\E i \in DOMAIN fs : fs[i] \in S) => Picked(fs, S) # << >>
<1> DEFINE places == {i \in DOMAIN fs : fs[i] \in S}  n == Cardinality(places)
<1>1. places \in SUBSET Nat /\ IsFiniteSet(places)
  <2>1. DOMAIN fs = 1..Len(fs) /\ Len(fs) \in Nat
    OBVIOUS
  <2>2. IsFiniteSet(DOMAIN fs)
    BY <2>1, FS_Interval
  <2> QED
    BY <2>1, <2>2, FS_Subset
<1>2. n \in Nat /\ InOrder(places) \in Seq(places) /\ Len(InOrder(places)) = n
  BY <1>1, InOrderFacts
<1>3. (n = 0) <=> (places = {})
  BY <1>1, FS_EmptySet
<1>4. \A k \in 1..n : InOrder(places)[k] \in places
  <2> HIDE DEF places, n
  <2> QED
    BY <1>2
<1>5. \A k \in 1..n : fs[InOrder(places)[k]] \in T
  BY <1>4
<1>6. Picked(fs, S) = [k \in 1..n |-> fs[InOrder(places)[k]]]
  BY DEF Picked
<1> HIDE DEF places, n
<1>7. Picked(fs, S) \in Seq(T) /\ Len(Picked(fs, S)) = n
  BY <1>2, <1>5, <1>6
<1>8. ASSUME NEW i \in DOMAIN fs, fs[i] \in S PROVE Picked(fs, S) # << >>
  <2>1. i \in places
    BY <1>8 DEF places
  <2> QED
    BY <1>3, <1>7, <2>1
<1> QED
  BY <1>7, <1>8

LEMMA NamesFacts ==
  /\ NoServer \notin Servers
  /\ \A s \in Servers : ModOf[s] \in Mods /\ MapFiles[s] \in Seq(Files)
  /\ NoMod \in Mods
  /\ \A s \in Servers : ModOf[s] # NoMod => /\ ModFiles[ModOf[s]] \in Seq(Files)
                                            /\ ModFiles[ModOf[s]] # << >>
  /\ \A s \in Servers, f \in Files : Want[s][f] \in HashOrNone
BY ConnectAssumption DEF Mods, HashOrNone

(* The outcome of check_download_mod.  Without a restart fs_game stays, and *)
(* when there is nothing to download either it is the mod of the server: a  *)
(* server with another mod names at least the required file of it.          *)
LEMMA ModCheckFacts ==
  ASSUME NEW s \in Servers, fsGame \in Mods, disk \in [Files -> HashOrNone]
  PROVE  /\ ModCheck(s).set \in Mods
         /\ ModCheck(s).restart \in BOOLEAN
         /\ ModCheck(s).files \in Seq(Files)
         /\ ~ModCheck(s).restart => ModCheck(s).set = fsGame
         /\ ModNamed(s) /\ ~ModCheck(s).restart /\ ModCheck(s).files = << >>
              => ModCheck(s).set = ModOf[s]
<1> DEFINE srv == ModOf[s]  fs == Offered(s, ModFiles[srv])
           old == Picked(fs, {f \in Files : ModOutdated(s, f)})
           upto == {i \in DOMAIN fs : \A j \in 1..(i - 1) : ~ModOutdated(s, fs[j])}
<1>1. srv \in Mods /\ NoMod \in Mods
  BY NamesFacts
<1>2. CASE srv = NoMod
  <2> DEFINE again == fsGame # NoMod
  <2>1. ModCheck(s) = [set |-> NoMod, restart |-> again, files |-> << >>, seen |-> {}]
    BY <1>2 DEF ModCheck
  <2>2. again \in BOOLEAN /\ (again <=> fsGame # NoMod)
    OBVIOUS
  <2> HIDE DEF again
  <2>3. /\ ModCheck(s).set = NoMod /\ ModCheck(s).files = << >>
        /\ ModCheck(s).restart \in BOOLEAN /\ (ModCheck(s).restart <=> again)
    BY <2>1, <2>2
  <2> QED
    BY <1>1, <1>2, <2>2, <2>3
<1>3. CASE srv # NoMod
  <2>1. ModFiles[srv] \in Seq(Files) /\ ModFiles[srv] # << >>
    BY <1>3, NamesFacts
  <2>2. fs \in Seq(Files)
    BY <2>1, PickedFacts DEF Offered
  <2>3. old \in Seq(Files)
    <3> HIDE DEF fs
    <3> QED
      BY <2>2, PickedFacts
  <2>4. ModNamed(s) => fs # << >>
    <3> SUFFICES ASSUME ModNamed(s) PROVE fs # << >>
      OBVIOUS
    <3>1. 1 \in DOMAIN ModFiles[srv] /\ ModFiles[srv][1] = Head(ModFiles[srv])
      BY <2>1
    <3>2. ModFiles[srv][1] \in {f \in Files : Want[s][f] # Missing}
      BY <1>3, <2>1, <3>1 DEF ModNamed
    <3> QED
      BY <2>1, <3>1, <3>2, PickedFacts DEF Offered
  <2>5. CASE srv = fsGame
    <3> DEFINE set == IF old = << >> THEN srv ELSE NoMod
               again == old # << >>
               seen == {fs[i] : i \in upto}
    <3>1. ModCheck(s) = [set |-> set, restart |-> again, files |-> << >>, seen |-> seen]
      BY <1>3, <2>5 DEF ModCheck
    <3>2. /\ again \in BOOLEAN /\ (again <=> set # fsGame \/ old # << >>)
          /\ set \in Mods
      BY <1>1, <2>5
    <3>3. ~again => set = fsGame
      BY <2>5
    <3> HIDE DEF set, again, seen
    <3>4. /\ ModCheck(s).set = set /\ ModCheck(s).files = << >>
          /\ ModCheck(s).restart \in BOOLEAN /\ (ModCheck(s).restart <=> again)
      BY <3>1, <3>2
    <3> QED
      BY <2>5, <3>2, <3>3, <3>4
  <2>6. CASE srv # fsGame
    <3> DEFINE again == Len(old) < Len(fs)
               set == IF Len(old) < Len(fs) THEN srv ELSE fsGame
               seen == ToSet(fs)
    <3>1. ModCheck(s) = [set |-> set, restart |-> again, files |-> old, seen |-> seen]
      BY <1>3, <2>6 DEF ModCheck
    <3>2. Len(old) \in Nat /\ Len(fs) \in Nat /\ (fs # << >> => Len(fs) > 0)
      BY <2>2, <2>3
    <3>3. again \in BOOLEAN /\ set \in Mods /\ (~again => set = fsGame)
      BY <1>1
    <3>4. ModNamed(s) /\ ~again => old # << >>
      BY <2>4, <3>2
    <3> HIDE DEF set, again, seen, old, fs
    <3>5. /\ ModCheck(s).set = set /\ ModCheck(s).files = old
          /\ ModCheck(s).restart \in BOOLEAN /\ (ModCheck(s).restart <=> again)
      BY <3>1, <3>3
    <3> QED
      BY <2>3, <3>3, <3>4, <3>5
  <2> QED
    BY <2>5, <2>6
<1> QED
  BY <1>2, <1>3

LEMMA MapCheckFacts ==
  ASSUME NEW m, m.from \in Servers
  PROVE  MapOffer(m) \in Seq(Files) /\ MapCheck(m) \in Seq(Files)
<1>1. MapOffer(m) \in Seq(Files)
  BY NamesFacts, PickedFacts DEF MapOffer, Offered
<1> QED
  BY <1>1, PickedFacts DEF MapCheck

LEMMA RememberType ==
  ASSUME FileType, NEW fs, Remember(fs), UNCHANGED disk PROVE FileType'
BY DEF FileType, Remember, Hash

-----------------------------------------------------------------------------
LEMMA ConnectInitInv == ConnectInit => ConnectIInv
<1> SUFFICES ASSUME ConnectInit PROVE ConnectIInv
  OBVIOUS
<1> USE DEF ConnectInit
<1>1. PartyType /\ SwitchType /\ FileType /\ AsyncType /\ TaskType
  <2>1. PartyType
    BY DEF PartyType, Targets
  <2>4. SwitchType
    BY DEF SwitchType
  <2>5. TaskType
    BY DEF TaskType
  <2>2. FileType
    BY DEF FileType, HashOrNone
  <2>3. AsyncType
    BY DEF AsyncType
  <2> QED
    BY <2>1, <2>2, <2>3, <2>4, <2>5
<1>2. MainType
  BY DEF MainType, Idle, Targets
<1>3. FlagType
  <2>1. MaxAsks \in Nat /\ MaxDuplicates \in Nat
    BY ConnectAssumption
  <2>2. /\ active = FALSE /\ abort = FALSE
        /\ online = FALSE /\ inMode = TRUE /\ crashed = FALSE
    BY Zenon
  <2>3. asks = 0 /\ duplicates = 0
    BY Zenon
  <2> HIDE DEF ConnectInit
  <2>4. asks \in 0..MaxAsks /\ duplicates \in 0..MaxDuplicates
    BY <2>1, <2>3
  <2>5. /\ active \in BOOLEAN /\ abort \in BOOLEAN
        /\ online \in BOOLEAN /\ inMode \in BOOLEAN /\ crashed \in BOOLEAN
    BY <2>2
  <2> QED
    BY <2>4, <2>5, Zenon DEF FlagType
<1>4. IsFiniteSet(net)
  BY FS_EmptySet
<1>5. AsyncWork /\ TaskWork /\ MainWork /\ HostInv /\ RestartInv
  BY DEF AsyncWork, TaskWork, MainWork, HostInv, RestartInv, Idle
<1> QED
  BY <1>1, <1>2, <1>3, <1>4, <1>5 DEF ConnectIInv, ConnectTypeOK

(* Parts of the invariant whose variables a step leaves alone.              *)
LEMMA Untouched ==
  /\ PartyType /\ UNCHANGED partyVars => PartyType'
  /\ SwitchType /\ RestartInv /\ UNCHANGED modVars => SwitchType' /\ RestartInv'
  /\ FileType /\ UNCHANGED fileVars => FileType'
  /\ AsyncType /\ AsyncWork /\ UNCHANGED jobVars => AsyncType' /\ AsyncWork'
  /\ TaskType /\ TaskWork /\ UNCHANGED <<tasks, passVars>> => TaskType' /\ TaskWork'
  /\ MainType /\ MainWork /\ UNCHANGED main => MainType' /\ MainWork'
  /\ FlagType /\ UNCHANGED <<flagVars, modeVars, crashed, boundVars>> => FlagType'
<1>1. PartyType /\ UNCHANGED partyVars => PartyType'
  BY DEF PartyType, partyVars
<1>2. SwitchType /\ RestartInv /\ UNCHANGED modVars => SwitchType' /\ RestartInv'
  BY DEF SwitchType, RestartInv, modVars
<1>3. FileType /\ UNCHANGED fileVars => FileType'
  BY DEF FileType, fileVars, caches
<1>4. AsyncType /\ AsyncWork /\ UNCHANGED jobVars => AsyncType' /\ AsyncWork'
  BY DEF AsyncType, AsyncWork, Worthwhile, jobVars
<1>5. TaskType /\ TaskWork /\ UNCHANGED <<tasks, passVars>> => TaskType' /\ TaskWork'
  BY DEF TaskType, TaskWork, Worthwhile, passVars
<1>6. MainType /\ MainWork /\ UNCHANGED main => MainType' /\ MainWork'
  BY DEF MainType, MainWork, Worthwhile
<1>7. FlagType /\ UNCHANGED <<flagVars, modeVars, crashed, boundVars>> => FlagType'
  BY DEF FlagType, flagVars, modeVars, boundVars
<1> QED
  BY <1>1, <1>2, <1>3, <1>4, <1>5, <1>6, <1>7

-----------------------------------------------------------------------------
(* The main thread.  connect() leaves only the answer it asks for current.  *)
LEMMA ConnectType ==
  ASSUME PartyType, IsFiniteSet(net), NEW s \in Servers, Connect(s), UNCHANGED joined
  PROVE  /\ PartyType' /\ IsFiniteSet(net') /\ host' # NoServer
         /\ \E m : Awaited' = {m}
<1>1. PICK map \in MapKinds :
        net' = {[m EXCEPT !.current = FALSE] : m \in net}
                 \cup {[from |-> s, current |-> TRUE, map |-> map]}
  BY DEF Connect
<1> DEFINE Old == {[m EXCEPT !.current = FALSE] : m \in net}
           new == [from |-> s, current |-> TRUE, map |-> map]
           Infos == [from : Servers, current : BOOLEAN, map : MapKinds]
<1>2. host' = s /\ s # NoServer /\ net' = Old \cup {new}
  BY <1>1, NamesFacts DEF Connect
<1>3. \A m \in net : m \in Infos
  BY DEF PartyType
<1>4. \A o \in Old : o \in Infos /\ o.current = FALSE
  BY <1>3
<1>5. new \in Infos /\ new.current = TRUE
  OBVIOUS
<1>6. IsFiniteSet(Old)
  <2> DEFINE age == [m \in net |-> [m EXCEPT !.current = FALSE]]
  <2>1. age \in [net -> Old] /\ \A o \in Old : \E m \in net : age[m] = o
    OBVIOUS
  <2> HIDE DEF age, Old
  <2>2. age \in Surjection(net, Old)
    BY <2>1 DEF Surjection
  <2> QED
    BY <2>2, FS_Surjection
<1> HIDE DEF Old, new, Infos
<1>7. IsFiniteSet(net')
  BY <1>2, <1>6, FS_AddElement
<1>8. net' \subseteq Infos
  BY <1>2, <1>4, <1>5
<1>9. PartyType'
  BY <1>2, <1>8 DEF PartyType, Targets, Infos
<1>10. Awaited' = {m \in net' : m.current}
  BY DEF Awaited
<1>11. Awaited' = {new}
  BY <1>2, <1>4, <1>5, <1>10
<1> QED
  BY <1>2, <1>7, <1>9, <1>11

LEMMA TaskOfType ==
  ASSUME NEW s \in Servers, NEW kind \in {"connect", "reconnect", "join"}
  PROVE  TaskOf(kind, s) \in Task /\ TaskOf(kind, s).kind = kind
BY DEF TaskOf, Task

LEMMA AddTask ==
  ASSUME TaskType, TaskWork, NEW t \in Task, t.kind = "poll" => Worthwhile(t),
         tasks' = Append(tasks, t), UNCHANGED passVars
  PROVE  TaskType' /\ TaskWork'
<1>1. tasks' \in Seq(Task) /\ \A i \in DOMAIN tasks' : tasks'[i] = t \/ \E j \in DOMAIN tasks : tasks'[i] = tasks[j]
  BY DEF TaskType
<1> QED
  BY <1>1 DEF TaskType, TaskWork, passVars

(* An answer of the network: whatever becomes of it.                        *)
LEMMA ReceiveType ==
  ASSUME PartyType, IsFiniteSet(net), NEW m \in net, Receive(m), UNCHANGED host,
         joined' = joined \/ joined' \in Servers,
         duplicates \in 0..MaxDuplicates
  PROVE  PartyType' /\ IsFiniteSet(net') /\ duplicates' \in 0..MaxDuplicates
<1>1. net' \subseteq net
  BY DEF Receive
<1>2. IsFiniteSet(net')
  BY <1>1, FS_Subset
<1>3. PartyType'
  BY <1>1 DEF PartyType, Targets
<1>4. duplicates' \in 0..MaxDuplicates
  BY ConnectAssumption DEF Receive
<1> QED
  BY <1>2, <1>3, <1>4

LEMMA InfoResponseInv ==
  ASSUME ConnectIInv, InfoResponse PROVE ConnectIInv'
<1> USE DEF ConnectIInv, ConnectTypeOK
<1>1. PICK m \in net : Receive(m) /\ (Dismiss(m) \/ BadFiles(m) \/ Compare(m))
  BY DEF InfoResponse
<1>2. m.from \in Servers /\ host # NoServer
  <2>1. m.from \in Servers
    BY DEF PartyType
  <2> QED
    BY <2>1 DEF HostInv
<1> DEFINE s == m.from
<1>3. /\ UNCHANGED <<host, loaded, disk, flagVars, jobVars, passVars, modeVars, asks, crashed>>
      /\ main.pc = "idle"
  BY DEF InfoResponse, Free, Busy
<1>4. HostInv'
  BY <1>2, <1>3 DEF HostInv
<1>5. AsyncType' /\ AsyncWork'
  BY <1>3, Untouched
<1>6. FileType'
  <2>1. CASE Dismiss(m)
    BY <1>3, <2>1, Untouched DEF Dismiss, fileVars, caches
  <2>2. CASE BadFiles(m)
    BY <1>3, <2>2, RememberType DEF BadFiles
  <2>3. CASE Compare(m)
    BY <1>3, <2>3, RememberType DEF Compare
  <2> QED
    BY <1>1, <2>1, <2>2, <2>3
<1>7. joined' = joined \/ joined' \in Servers
  BY <1>1, <1>2 DEF Dismiss, BadFiles, Compare, ConnectToParty
<1>8. PartyType' /\ IsFiniteSet(net)' /\ FlagType'
  <2>1. duplicates \in 0..MaxDuplicates /\ asks \in 0..MaxAsks
    BY DEF FlagType
  <2>2. PartyType' /\ IsFiniteSet(net') /\ duplicates' \in 0..MaxDuplicates
    BY <1>1, <1>3, <1>7, <2>1, ReceiveType
  <2>3. FlagType'
    BY <1>3, <2>1, <2>2 DEF FlagType, flagVars, modeVars
  <2> QED
    BY <2>2, <2>3
<1>9. TaskType' /\ TaskWork'
  <2>1. CASE UNCHANGED tasks
    BY <1>3, <2>1, Untouched
  <2>2. CASE tasks' = Append(tasks, TaskOf("join", s))
    BY <1>2, <1>3, <2>2, TaskOfType, AddTask
  <2>3. CASE tasks' = Append(tasks, TaskOf("connect", s))
    BY <1>2, <1>3, <2>3, TaskOfType, AddTask
  <2> QED
    BY <1>1, <2>1, <2>2, <2>3 DEF Dismiss, BadFiles, Compare, ConnectToParty
<1> DEFINE files == ModCheck(s).files \o MapCheck(m)
<1>10. files \in Seq(Files)
  BY <1>2, ModCheckFacts, MapCheckFacts DEF SwitchType, FileType
<1>11. MainType' /\ MainWork'
  <2>1. CASE UNCHANGED main
    BY <2>1, Untouched
  <2>2. CASE /\ files # << >>
             /\ main' = [pc |-> "stop", target |-> s, files |-> files, from |-> "info"]
    <3> HIDE DEF files
    <3> QED
      BY <1>2, <1>10, <2>2 DEF MainType, MainWork, Worthwhile, Targets
  <2> QED
    BY <1>1, <2>1, <2>2 DEF Dismiss, BadFiles, Compare
<1>12. SwitchType' /\ RestartInv'
  <2>1. CASE UNCHANGED modVars
    BY <2>1, Untouched
  <2>2. /\ ModCheck(s).set \in Mods
        /\ ModCheck(s).restart \in BOOLEAN
        /\ ~ModCheck(s).restart => ModCheck(s).set = fsGame
    BY <1>2, ModCheckFacts DEF SwitchType, FileType
  <2>3. NeedsRestart(s) \in BOOLEAN /\ (~NeedsRestart(s) => ModCheck(s).set = fsGame /\ ~needsRestart)
    BY <2>2 DEF NeedsRestart, SwitchType
  <2>4. CASE /\ fsGame' = ModCheck(s).set /\ needsRestart' = NeedsRestart(s)
             /\ UNCHANGED restart
    BY <1>3, <2>2, <2>3, <2>4 DEF SwitchType, RestartInv
  <2>5. CASE /\ fsGame' = ModCheck(s).set /\ restart' = TRUE /\ needsRestart' = FALSE
    BY <1>3, <2>2, <2>5 DEF SwitchType, RestartInv
  <2>6. CASE /\ fsGame' = ModCheck(s).set /\ ~NeedsRestart(s)
             /\ UNCHANGED <<needsRestart, restart>>
    BY <1>3, <2>2, <2>3, <2>6 DEF SwitchType, RestartInv
  <2> QED
    BY <1>1, <1>3, <2>1, <2>4, <2>5, <2>6 DEF Dismiss, BadFiles, Compare, modVars
<1> QED
  BY <1>4, <1>5, <1>6, <1>8, <1>9, <1>11, <1>12

LEMMA AskInv ==
  ASSUME ConnectIInv, NEW s \in Servers, Outside, Ask(s) PROVE ConnectIInv'
<1> USE DEF ConnectIInv, ConnectTypeOK
<1>1. /\ Connect(s) /\ asks < MaxAsks /\ asks' = asks + 1
      /\ UNCHANGED <<joined, modVars, disk, caches, flagVars, jobVars, tasks, passVars, main,
                     modeVars, duplicates, crashed>>
  BY DEF Ask, Outside
<1>2. PartyType' /\ IsFiniteSet(net') /\ HostInv'
  BY <1>1, ConnectType DEF HostInv
<1>3. FlagType'
  <2>1. asks' \in 0..MaxAsks
    BY <1>1, ConnectAssumption DEF FlagType
  <2> QED
    BY <1>1, <2>1 DEF FlagType, flagVars, modeVars
<1>4. FileType'
  BY <1>1, Untouched DEF fileVars
<1> QED
  BY <1>1, <1>2, <1>3, <1>4, Untouched

LEMMA NewMapInv ==
  ASSUME ConnectIInv, Outside, NewMap PROVE ConnectIInv'
<1> USE DEF ConnectIInv, ConnectTypeOK
<1>1. /\ joined \in Servers /\ asks < MaxAsks /\ asks' = asks + 1
      /\ UNCHANGED <<host, net, modVars, disk, cache, flagVars, jobVars, passVars, main,
                     modeVars, duplicates, crashed>>
  BY DEF NewMap, Outside, PartyType, Targets
<1>2. \/ UNCHANGED <<joined, tasks>>
      \/ joined' = NoServer /\ tasks' = Append(tasks, TaskOf("reconnect", joined))
  BY DEF NewMap
<1>3. PartyType' /\ IsFiniteSet(net')
  BY <1>1, <1>2 DEF PartyType, Targets
<1>4. HostInv'
  BY <1>1, NamesFacts DEF HostInv
<1>5. FlagType'
  <2>1. asks' \in 0..MaxAsks
    BY <1>1, ConnectAssumption DEF FlagType
  <2> QED
    BY <1>1, <2>1 DEF FlagType, flagVars, modeVars
<1>6. FileType'
  <2>1. mapCache' = [f \in Files |-> IF f \in MapSeen(joined) THEN MapHash(f) ELSE mapCache[f]]
    BY DEF NewMap
  <2>2. \A f \in Files : MapHash(f) \in HashOrNone
    BY DEF FileType, MapHash
  <2> QED
    BY <1>1, <2>1, <2>2 DEF FileType
<1>7. TaskType' /\ TaskWork'
  <2>1. CASE UNCHANGED <<joined, tasks>>
    BY <1>1, <2>1, Untouched
  <2>2. CASE tasks' = Append(tasks, TaskOf("reconnect", joined))
    BY <1>1, <2>2, TaskOfType, AddTask
  <2> QED
    BY <1>2, <2>1, <2>2
<1> QED
  BY <1>1, <1>3, <1>4, <1>5, <1>6, <1>7, Untouched

LEMMA IdleType ==
  ASSUME MainType, main' = [Idle EXCEPT !.pc = "stop"] \/ main' = Idle
  PROVE  MainType' /\ MainWork'
<1>1. << >> \in Seq(Files) /\ NoServer \in Targets
  BY DEF Targets
<1>2. CASE main' = Idle
  BY <1>1, <1>2 DEF MainType, MainWork, Idle
<1>3. CASE main' = [Idle EXCEPT !.pc = "stop"]
  <2>1. main' = [pc |-> "stop", target |-> NoServer, files |-> << >>, from |-> "none"]
    BY <1>3 DEF Idle
  <2> QED
    BY <1>1, <2>1 DEF MainType, MainWork
<1> QED
  BY <1>2, <1>3

LEMMA OutsideInv ==
  ASSUME ConnectIInv, Outside PROVE ConnectIInv'
<1> USE DEF ConnectIInv, ConnectTypeOK
<1>1. CASE UserStop
  <2>1. /\ main' = [Idle EXCEPT !.pc = "stop"]
        /\ UNCHANGED <<partyVars, modVars, disk, caches, flagVars, jobVars, tasks, passVars,
                       modeVars, asks, duplicates, crashed>>
        /\ job # NoJob \/ queue # << >>
    BY <1>1 DEF UserStop, Outside
  <2>2. HostInv'
    BY <2>1 DEF HostInv, partyVars
  <2>3. MainType' /\ MainWork'
    BY <2>1, IdleType
  <2>4. IsFiniteSet(net')
    BY <2>1 DEF partyVars
  <2> QED
    BY <2>1, <2>2, <2>3, <2>4, Untouched DEF fileVars, boundVars
<1>2. CASE GoOnline \/ LeaveMode
  <2>1. /\ online' \in BOOLEAN /\ inMode' \in BOOLEAN
        /\ UNCHANGED <<partyVars, modVars, disk, caches, flagVars, jobVars, tasks, passVars,
                       main, asks, duplicates, crashed>>
    BY <1>2 DEF GoOnline, LeaveMode, Outside, FlagType
  <2>2. HostInv'
    BY <2>1 DEF HostInv, partyVars, jobVars, passVars
  <2>3. FlagType'
    BY <2>1 DEF FlagType, flagVars
  <2>4. IsFiniteSet(net')
    BY <2>1 DEF partyVars
  <2> QED
    BY <2>1, <2>2, <2>3, <2>4, Untouched DEF fileVars
<1> QED
  BY <1>1, <1>2, AskInv, NewMapInv DEF Outside

LEMMA VidRestartInv ==
  ASSUME ConnectIInv, VidRestart PROVE ConnectIInv'
<1> USE DEF ConnectIInv, ConnectTypeOK
<1>1. /\ loaded' = fsGame /\ restart' = FALSE
      /\ UNCHANGED <<partyVars, fsGame, needsRestart, fileVars, flagVars, jobVars, tasks, passVars,
                     main, modeVars, boundVars, crashed>>
  BY DEF VidRestart
<1>2. SwitchType' /\ RestartInv'
  BY <1>1 DEF SwitchType, RestartInv
<1>3. HostInv' /\ IsFiniteSet(net')
  BY <1>1 DEF HostInv, partyVars, jobVars, passVars
<1> QED
  BY <1>1, <1>2, <1>3, Untouched

(* The calls of download: where the main thread is between two accesses to  *)
(* the flags.                                                               *)
LEMMA DownloadCallsInv ==
  ASSUME ConnectIInv, DownloadCalls PROVE ConnectIInv'
<1> USE DEF ConnectIInv, ConnectTypeOK
<1>1. UNCHANGED <<partyVars, modVars, fileVars, job, step, passVars, modeVars, boundVars>>
  BY DEF DownloadCalls
<1>2. /\ PartyType' /\ SwitchType' /\ RestartInv' /\ FileType' /\ IsFiniteSet(net')
  BY <1>1, Untouched DEF partyVars
<1>3. main.pc # "idle" => host # NoServer \/ main.target = NoServer
  BY DEF HostInv, Idle
<1>4. CASE StopRead \/ StopAbort
  <2>1. UNCHANGED <<active, queue, tasks, crashed>> /\ (abort' = abort \/ abort' = TRUE)
    BY <1>4 DEF StopRead, StopAbort, flagVars
  <2>2. main' = [main EXCEPT !.pc = "abort"] \/ main' = AfterStop
    BY <1>4 DEF StopRead, StopAbort
  <2>3. MainType' /\ MainWork'
    <3>1. CASE main' = [main EXCEPT !.pc = "abort"]
      BY <3>1 DEF MainType, MainWork, Worthwhile
    <3>2. CASE main' = Idle
      BY <3>2, IdleType
    <3>3. CASE main.target # NoServer /\ main' = [main EXCEPT !.pc = "start"]
      BY <3>3 DEF MainType, MainWork, Worthwhile
    <3> QED
      BY <2>2, <3>1, <3>2, <3>3 DEF AfterStop
  <2>4. FlagType'
    BY <1>1, <2>1 DEF FlagType, boundVars, modeVars
  <2>5. HostInv'
    <3>1. main.pc # "idle"
      BY <1>4 DEF StopRead, StopAbort, Busy
    <3>2. host # NoServer
      BY <3>1 DEF HostInv, Idle
    <3> QED
      BY <1>1, <3>2 DEF HostInv, partyVars
  <2> QED
    BY <1>1, <1>2, <2>1, <2>3, <2>4, <2>5, Untouched DEF jobVars
<1>5. CASE StartRead \/ StartReset
  <2>1. main.target \in Servers /\ Worthwhile(main) /\ main.files \in Seq(Files)
    BY <1>5 DEF StartRead, StartReset, Busy, MainType, MainWork, Targets
  <2>2. HostInv'
    <3>1. host # NoServer
      BY <2>1, NamesFacts DEF HostInv, Idle
    <3> QED
      BY <1>1, <3>1 DEF HostInv, partyVars
  <2>3. CASE StartRead
    <3>1. UNCHANGED <<flagVars, queue, crashed>>
      BY <2>3 DEF StartRead
    <3>2. AsyncType' /\ AsyncWork' /\ FlagType'
      BY <1>1, <3>1, Untouched DEF jobVars
    <3> DEFINE t == [TaskOf("poll", main.target) EXCEPT !.files = main.files]
    <3>3. CASE tasks' = Append(tasks, t) /\ main' = Idle
      <4>1. t \in Task /\ Worthwhile(t)
        BY <2>1 DEF TaskOf, Task, Worthwhile
      <4> HIDE DEF t
      <4>2. TaskType' /\ TaskWork'
        BY <1>1, <3>3, <4>1, AddTask
      <4> QED
        BY <1>2, <2>2, <3>2, <3>3, <4>2, IdleType
    <3>4. CASE main' = [main EXCEPT !.pc = "reset"] /\ UNCHANGED tasks
      <4>1. MainType' /\ MainWork'
        BY <2>1, <3>4, NamesFacts DEF MainType, MainWork, Worthwhile
      <4> QED
        BY <1>1, <1>2, <2>2, <3>2, <3>4, <4>1, Untouched
    <3> QED
      BY <2>3, <3>3, <3>4 DEF StartRead
  <2>4. CASE StartReset
    <3> DEFINE j == [target |-> main.target, files |-> main.files]
    <3>1. /\ active' = FALSE /\ abort' = FALSE /\ main' = Idle /\ UNCHANGED tasks
          /\ \/ queue' = Append(queue, j) /\ UNCHANGED crashed
             \/ crashed' = (main.from = "poll") /\ UNCHANGED queue
      BY <2>4 DEF StartReset
    <3>2. FlagType'
      <4>1. crashed' \in BOOLEAN
        BY <3>1 DEF FlagType
      <4> QED
        BY <1>1, <3>1, <4>1 DEF FlagType, boundVars, modeVars
    <3>3. AsyncType' /\ AsyncWork'
      <4>1. j \in Job /\ Worthwhile(j)
        BY <2>1 DEF Job, Worthwhile
      <4> HIDE DEF j
      <4>2. /\ queue' \in Seq(Job)
            /\ \A i \in DOMAIN queue' : queue'[i] = j \/ \E k \in DOMAIN queue : queue'[i] = queue[k]
        BY <3>1, <4>1 DEF AsyncType
      <4> QED
        BY <1>1, <4>1, <4>2 DEF AsyncType, AsyncWork
    <3> QED
      BY <1>1, <1>2, <2>2, <3>1, <3>2, <3>3, IdleType, Untouched
  <2> QED
    BY <1>5, <2>3, <2>4
<1> QED
  BY <1>4, <1>5 DEF DownloadCalls

(* The lists of tasks, as a pass moves them from one to another.            *)
FromTasks(q) == /\ q \in Seq(Task)
                /\ \A i \in DOMAIN q : q[i].kind = "poll" => Worthwhile(q[i])

LEMMA FromTasksFacts ==
  ASSUME NEW p, NEW q, FromTasks(p), FromTasks(q)
  PROVE  /\ FromTasks(p \o q)
         /\ p # << >> => FromTasks(Tail(p)) /\ FromTasks(Append(q, Head(p)))
<1>1. p \in Seq(Task) /\ q \in Seq(Task)
  BY DEF FromTasks
<1>2. FromTasks(p \o q)
  <2>1. /\ p \o q \in Seq(Task)
        /\ \A i \in DOMAIN (p \o q) : \/ \E j \in DOMAIN p : (p \o q)[i] = p[j]
                                      \/ \E j \in DOMAIN q : (p \o q)[i] = q[j]
    BY <1>1
  <2> QED
    BY <2>1 DEF FromTasks
<1>3. ASSUME p # << >> PROVE FromTasks(Tail(p)) /\ FromTasks(Append(q, Head(p)))
  <2>1. Tail(p) \in Seq(Task) /\ \A i \in DOMAIN Tail(p) : \E j \in DOMAIN p : Tail(p)[i] = p[j]
    BY <1>1, <1>3
  <2>2. Head(p) \in Task /\ \E j \in DOMAIN p : Head(p) = p[j]
    BY <1>1, <1>3
  <2>3. /\ Append(q, Head(p)) \in Seq(Task)
        /\ \A i \in DOMAIN Append(q, Head(p)) : \/ Append(q, Head(p))[i] = Head(p)
                                               \/ \E j \in DOMAIN q : Append(q, Head(p))[i] = q[j]
    BY <1>1, <2>2
  <2> QED
    BY <2>1, <2>2, <2>3 DEF FromTasks
<1> QED
  BY <1>2, <1>3

LEMMA TaskLists ==
  TaskType /\ TaskWork <=> FromTasks(tasks) /\ FromTasks(pass) /\ FromTasks(kept)
BY DEF TaskType, TaskWork, FromTasks

LEMMA MainPipelineInv ==
  ASSUME ConnectIInv, MainPipeline PROVE ConnectIInv'
<1> USE DEF ConnectIInv, ConnectTypeOK
<1>1. UNCHANGED <<modVars, fileVars, flagVars, jobVars, modeVars, boundVars, crashed>>
  BY DEF MainPipeline
<1>2. /\ SwitchType' /\ RestartInv' /\ FileType' /\ AsyncType' /\ AsyncWork' /\ FlagType'
  BY <1>1, Untouched
<1>3. FromTasks(tasks) /\ FromTasks(pass) /\ FromTasks(kept)
  BY TaskLists
<1>4. FromTasks(tasks)' /\ FromTasks(pass)' /\ FromTasks(kept)' => TaskType' /\ TaskWork'
  BY DEF TaskType, TaskWork, FromTasks
<1>5. CASE BeginPass
  <2>1. /\ pass' = kept \o tasks /\ tasks' = << >> /\ kept' = << >> /\ pass = << >>
        /\ UNCHANGED <<partyVars, main>>
    BY <1>5 DEF BeginPass, Free
  <2>2. TaskType' /\ TaskWork'
    <3>1. FromTasks(kept \o tasks) /\ FromTasks(<< >>)
      BY <1>3, FromTasksFacts DEF FromTasks
    <3> QED
      BY <1>4, <2>1, <3>1
  <2>3. HostInv' /\ IsFiniteSet(net')
    <3>1. tasks = << >> /\ kept = << >> => kept \o tasks = << >>
      OBVIOUS
    <3> QED
      BY <1>1, <2>1, <3>1 DEF HostInv, partyVars, jobVars
  <2> QED
    BY <1>2, <2>1, <2>2, <2>3, Untouched
<1>6. CASE KeepTask
  <2>1. /\ pass # << >> /\ pass' = Tail(pass) /\ kept' = Append(kept, Head(pass))
        /\ UNCHANGED <<partyVars, tasks, main>>
    BY <1>6 DEF KeepTask
  <2>2. TaskType' /\ TaskWork'
    BY <1>3, <1>4, <2>1, FromTasksFacts
  <2>3. HostInv' /\ IsFiniteSet(net')
    BY <2>1 DEF HostInv, partyVars
  <2> QED
    BY <1>2, <2>1, <2>2, <2>3, Untouched
<1>7. CASE RunTask
  <2> DEFINE t == Head(pass)
  <2>1. /\ main.pc = "idle" /\ pass # << >> /\ pass' = Tail(pass) /\ UNCHANGED kept
        /\ Resume(t)
    BY <1>7 DEF RunTask, Busy
  <2>2. t \in Task /\ (t.kind = "poll" => Worthwhile(t))
    BY <2>1 DEF TaskType, TaskWork
  <2>3. host \in Servers
    BY <2>1 DEF HostInv, PartyType, Targets
  <2>4. FromTasks(pass') /\ FromTasks(kept')
    BY <1>3, <2>1, FromTasksFacts
  <2> HIDE DEF t
  <2>5. t.target \in Servers /\ t.files \in Seq(Files)
    BY <2>2 DEF Task
  <2>6. CASE UNCHANGED tasks
    <3>1. TaskType' /\ TaskWork'
      BY <1>3, <1>4, <2>4, <2>6
    <3>2. ASSUME NEW s \in Servers, Connect(s), UNCHANGED <<joined, main>>
          PROVE  ConnectIInv'
      <4>1. PartyType' /\ IsFiniteSet(net') /\ HostInv'
        BY <3>2, ConnectType DEF HostInv
      <4> QED
        BY <1>2, <3>1, <3>2, <4>1, Untouched
    <3>3. CASE (joined' = t.target \/ UNCHANGED joined) /\ UNCHANGED <<host, net, main>>
      <4>1. PartyType' /\ IsFiniteSet(net') /\ HostInv'
        BY <2>3, <2>5, <3>3, NamesFacts DEF PartyType, HostInv, Targets
      <4> QED
        BY <1>2, <3>1, <3>3, <4>1, Untouched
    <3>4. CASE /\ t.kind = "poll" /\ UNCHANGED partyVars
               /\ main' = [pc |-> "start", target |-> t.target, files |-> t.files, from |-> "poll"]
      <4>1. MainType' /\ MainWork'
        BY <2>2, <2>5, <3>4, NamesFacts DEF MainType, MainWork, Worthwhile, Targets
      <4>2. PartyType' /\ IsFiniteSet(net') /\ HostInv'
        BY <2>3, <3>4, NamesFacts DEF PartyType, HostInv, partyVars
      <4> QED
        BY <1>2, <3>1, <4>1, <4>2
    <3> QED
      BY <2>1, <2>3, <2>5, <3>2, <3>3, <3>4 DEF Resume, ConnectToParty
  <2>7. CASE tasks' = Append(tasks, TaskOf("join", t.target)) /\ UNCHANGED <<partyVars, main>>
    <3> DEFINE j == TaskOf("join", t.target)
    <3>1. j \in Task /\ j.kind # "poll"
      BY <2>5, TaskOfType
    <3> HIDE DEF j
    <3>2. FromTasks(<<j>>)
      BY <3>1 DEF FromTasks
    <3>3. tasks' = tasks \o <<j>>
      BY <2>7 DEF j, TaskType
    <3>4. FromTasks(tasks')
      BY <1>3, <3>2, <3>3, FromTasksFacts
    <3>5. TaskType' /\ TaskWork'
      BY <1>4, <2>4, <3>4
    <3>6. HostInv' /\ IsFiniteSet(net')
      BY <2>3, <2>7, NamesFacts DEF HostInv, partyVars
    <3> QED
      BY <1>2, <2>7, <3>5, <3>6, Untouched
  <2>8. UNCHANGED tasks \/ (tasks' = Append(tasks, TaskOf("join", t.target)) /\ UNCHANGED <<partyVars, main>>)
    BY <2>1 DEF Resume, ConnectToParty, partyVars
  <2> QED
    BY <2>6, <2>7, <2>8
<1> QED
  BY <1>5, <1>6, <1>7 DEF MainPipeline

-----------------------------------------------------------------------------
(* The async thread.                                                        *)
LEMMA NextFileFacts ==
  ASSUME AsyncType, AsyncWork, step = "get", NextFile
  PROVE  /\ job \in Job /\ job' \in Job /\ job'.target = job.target
         /\ job.target \in Servers /\ Head(job.files) \in Files
         /\ step' \in {"get", "done"} /\ (step' = "get" => Worthwhile(job'))
<1>1. job \in Job /\ Worthwhile(job)
  BY DEF AsyncType, AsyncWork
<1>2. job.files \in Seq(Files) /\ job.files # << >> /\ job.target \in Servers
  BY <1>1 DEF Job, Worthwhile
<1>3. /\ Tail(job.files) \in Seq(Files) /\ Head(job.files) \in Files
      /\ Len(job.files) # 1 => Tail(job.files) # << >>
  <2> DEFINE fs == job.files
  <2>1. fs \in Seq(Files) /\ fs # << >>
    BY <1>2
  <2> HIDE DEF fs
  <2>2. Tail(fs) \in Seq(Files) /\ Head(fs) \in Files /\ Len(Tail(fs)) = Len(fs) - 1
    BY <2>1
  <2>3. Len(fs) \in Nat /\ (Len(fs) # 1 => Len(Tail(fs)) # 0)
    BY <2>1, <2>2
  <2>4. Len(fs) # 1 => Tail(fs) # << >>
    BY <2>2, <2>3
  <2> QED
    BY <2>2, <2>4 DEF fs
<1>4. job' = [job EXCEPT !.files = Tail(job.files)]
  BY DEF NextFile
<1>5. job' \in Job /\ job'.files = Tail(job.files) /\ job'.target = job.target
  BY <1>1, <1>3, <1>4 DEF Job
<1> QED
  BY <1>1, <1>2, <1>3, <1>5 DEF NextFile, Worthwhile

LEMMA NoJobFacts == NoJob \notin Job
BY NamesFacts DEF NoJob, Job

LEMMA AsyncThreadInv ==
  ASSUME ConnectIInv, AsyncThread PROVE ConnectIInv'
<1> USE DEF ConnectIInv, ConnectTypeOK
<1>1. UNCHANGED <<partyVars, modVars, caches, abort, passVars, main, modeVars, boundVars>>
  BY DEF AsyncThread
<1>2. PartyType' /\ SwitchType' /\ RestartInv' /\ MainType' /\ MainWork' /\ IsFiniteSet(net')
  BY <1>1, Untouched DEF partyVars
<1>3. host # NoServer
  <2>1. step # "none" \/ queue # << >>
    BY DEF AsyncThread, At, JobBegin, JobCheck, JobAborts, JobWrites, JobWriteFails, JobFails,
           JobEnd, JobConnect
  <2> QED
    BY <2>1 DEF HostInv, AsyncType
<1>4. HostInv'
  BY <1>1, <1>3 DEF HostInv, partyVars
<1>5. (active' = active \/ active' \in BOOLEAN) /\ (crashed' = crashed \/ crashed' = TRUE)
      => FlagType'
  BY <1>1 DEF FlagType, boundVars, modeVars
<1>6. UNCHANGED disk => FileType'
  BY <1>1, Untouched DEF fileVars
<1>7. UNCHANGED tasks => TaskType' /\ TaskWork'
  BY <1>1, Untouched
<1>8. CASE JobBegin
  <2>1. /\ queue # << >> /\ job' = Head(queue) /\ queue' = Tail(queue) /\ active' = TRUE
        /\ step' = "check" /\ UNCHANGED <<disk, tasks, crashed>>
    BY <1>8 DEF JobBegin
  <2>2. /\ job' \in Job /\ Worthwhile(job') /\ queue' \in Seq(Job)
        /\ \A i \in DOMAIN queue' : \E j \in DOMAIN queue : queue'[i] = queue[j]
    BY <2>1 DEF AsyncType, AsyncWork
  <2>3. AsyncType' /\ AsyncWork'
    BY <2>1, <2>2, NoJobFacts DEF AsyncType, AsyncWork
  <2> QED
    BY <1>2, <1>4, <1>5, <1>6, <1>7, <2>1, <2>3
<1>9. CASE JobCheck \/ JobAborts
  <2>1. /\ UNCHANGED <<queue, job, active, disk, tasks, crashed>>
        /\ step \in {"check", "get"} /\ step' \in {"aborted", "get"}
    BY <1>9 DEF JobCheck, JobAborts, At
  <2>2. AsyncType' /\ AsyncWork'
    BY <2>1 DEF AsyncType, AsyncWork, Worthwhile
  <2> QED
    BY <1>2, <1>4, <1>5, <1>6, <1>7, <2>1, <2>2
<1>10. CASE JobWrites \/ JobWriteFails
  <2>1. /\ step = "get" /\ NextFile /\ UNCHANGED <<queue, active, tasks, crashed>>
        /\ \/ UNCHANGED disk
           \/ disk' = [disk EXCEPT ![Head(job.files)] = Want[job.target][Head(job.files)]]
    BY <1>10 DEF JobWrites, JobWriteFails, At
  <2>2. /\ job \in Job /\ job' \in Job /\ job'.target = job.target
        /\ job.target \in Servers /\ Head(job.files) \in Files
        /\ step' \in {"get", "done"} /\ (step' = "get" => Worthwhile(job'))
    BY <2>1, NextFileFacts
  <2>3. AsyncType' /\ AsyncWork'
    BY <2>1, <2>2, NoJobFacts DEF AsyncType, AsyncWork
  <2>4. FileType'
    <3>1. Want[job.target][Head(job.files)] \in HashOrNone
      BY <2>2, NamesFacts
    <3> QED
      BY <1>1, <2>1, <3>1 DEF FileType, caches
  <2> QED
    BY <1>2, <1>4, <1>5, <1>7, <2>1, <2>3, <2>4
<1>11. CASE JobFails
  <2>1. crashed' = TRUE /\ UNCHANGED <<jobVars, active, disk, tasks>>
    BY <1>11 DEF JobFails
  <2> QED
    BY <1>2, <1>4, <1>5, <1>6, <1>7, <2>1, Untouched
<1>12. CASE JobEnd
  <2>1. /\ active' = FALSE /\ UNCHANGED <<queue, disk, tasks, crashed>>
        /\ \/ step = "done" /\ step' = "connect" /\ job' = job
           \/ step = "aborted" /\ step' = "none" /\ job' = NoJob
    BY <1>12 DEF JobEnd, LeaveBlock, At
  <2>2. AsyncType' /\ AsyncWork'
    BY <2>1 DEF AsyncType, AsyncWork
  <2> QED
    BY <1>2, <1>4, <1>5, <1>6, <1>7, <2>1, <2>2
<1>13. CASE JobConnect
  <2>1. /\ step = "connect" /\ tasks' = Append(tasks, TaskOf("connect", job.target))
        /\ job' = NoJob /\ step' = "none" /\ UNCHANGED <<queue, active, disk, crashed>>
    BY <1>13 DEF JobConnect, At
  <2>2. job.target \in Servers
    BY <2>1 DEF AsyncType, Job
  <2>3. AsyncType' /\ AsyncWork'
    BY <2>1 DEF AsyncType, AsyncWork
  <2>4. TaskType' /\ TaskWork'
    BY <1>1, <2>1, <2>2, TaskOfType, AddTask
  <2> QED
    BY <1>2, <1>4, <1>5, <1>6, <2>1, <2>3, <2>4
<1> QED
  BY <1>8, <1>9, <1>10, <1>11, <1>12, <1>13 DEF AsyncThread

LEMMA ConnectNextInv == ConnectIInv /\ [ConnectNext]_connectVars => ConnectIInv'
<1> SUFFICES ASSUME ConnectIInv, [ConnectNext]_connectVars PROVE ConnectIInv'
  OBVIOUS
<1>1. CASE UNCHANGED connectVars
  <2>1. /\ UNCHANGED <<partyVars, modVars, fileVars, flagVars, jobVars, tasks, passVars, main,
                       modeVars, boundVars, crashed>>
    BY <1>1 DEF connectVars
  <2>2. HostInv' /\ IsFiniteSet(net')
    BY <2>1 DEF ConnectIInv, HostInv, partyVars, jobVars, passVars
  <2> QED
    BY <2>1, <2>2, Untouched DEF ConnectIInv, ConnectTypeOK
<1> QED
  BY <1>1, OutsideInv, InfoResponseInv, VidRestartInv, DownloadCallsInv, MainPipelineInv,
     AsyncThreadInv DEF ConnectNext, MainThread

LEMMA ConnectInvariance == ConnectSpec => []ConnectIInv
<1>1. ConnectInit => ConnectIInv
  BY ConnectInitInv
<1>2. ConnectIInv /\ [ConnectNext]_connectVars => ConnectIInv'
  BY ConnectNextInv
<1> QED
  BY <1>1, <1>2, PTL DEF ConnectSpec

(* The connect flow keeps its types, whatever the servers want and whatever *)
(* becomes of answers, restarts and downloads: each thing under way has a   *)
(* server, and a download a file left to get.                               *)
THEOREM ConnectTypeCorrect == ConnectSpec => []ConnectTypeOK
<1>1. ConnectIInv => ConnectTypeOK
  BY DEF ConnectIInv
<1> QED
  BY <1>1, ConnectInvariance, PTL

(* Joining directly is the one outcome of an answer that leaves fs_game the *)
(* mod of the server, with no restart owed that has not been asked for.     *)
LEMMA SwitchedStep ==
  ASSUME ConnectIInv, ConnectNext, JoinsDirectly
  PROVE  fsGame' = ModOf[joined'] /\ (loaded' = fsGame' \/ restart')
<1>1. joined' # joined /\ joined' # NoServer /\ pass' = pass
  BY DEF JoinsDirectly
<1>2. ~VidRestart /\ ~DownloadCalls /\ ~AsyncThread /\ ~Outside
  BY <1>1 DEF VidRestart, DownloadCalls, AsyncThread, Outside, Ask, NewMap, UserStop, GoOnline,
              LeaveMode, partyVars
<1>3. ~MainPipeline
  <2>1. ~BeginPass
    BY <1>1 DEF BeginPass, partyVars
  <2>2. ASSUME KeepTask \/ RunTask PROVE FALSE
    <3>1. pass # << >> /\ pass' = Tail(pass) /\ pass \in Seq(Task)
      BY <2>2 DEF KeepTask, RunTask, ConnectIInv, ConnectTypeOK, TaskType
    <3>2. Len(pass') = Len(pass) - 1 /\ Len(pass) \in Nat
      BY <3>1
    <3> QED
      BY <1>1, <3>2
  <2> QED
    BY <2>1, <2>2 DEF MainPipeline
<1>4. PICK m \in net : Receive(m) /\ (Dismiss(m) \/ BadFiles(m) \/ Compare(m))
  BY <1>2, <1>3 DEF ConnectNext, MainThread, InfoResponse
<1>5. loaded' = loaded
  BY <1>2, <1>3 DEF ConnectNext, MainThread, InfoResponse
<1> DEFINE s == m.from  files == ModCheck(s).files \o MapCheck(m)
<1>6. s \in Servers
  BY DEF ConnectIInv, ConnectTypeOK, PartyType
<1>7. /\ ModNamed(s) /\ fsGame' = ModCheck(s).set /\ files = << >> /\ ~NeedsRestart(s)
      /\ joined' = s /\ UNCHANGED restart
  BY <1>1, <1>4 DEF Dismiss, BadFiles, Compare, Fits, ConnectToParty
<1>8. ModCheck(s).files = << >>
  <2>1. ModCheck(s).files \in Seq(Files) /\ MapCheck(m) \in Seq(Files)
    BY <1>6, ModCheckFacts, MapCheckFacts DEF ConnectIInv, ConnectTypeOK, SwitchType, FileType
  <2>2. Len(files) = Len(ModCheck(s).files) + Len(MapCheck(m)) /\ Len(files) = 0
    BY <1>7, <2>1
  <2> QED
    BY <2>1, <2>2
<1>9. ~needsRestart /\ ~ModCheck(s).restart
  BY <1>7 DEF NeedsRestart
<1>10. ModCheck(s).set = ModOf[s] /\ ModCheck(s).set = fsGame
  BY <1>6, <1>7, <1>8, <1>9, ModCheckFacts DEF ConnectIInv, ConnectTypeOK, SwitchType, FileType
<1> QED
  BY <1>5, <1>7, <1>9, <1>10 DEF ConnectIInv, RestartInv

-----------------------------------------------------------------------------
(* The ways onto a server under way, counted.                               *)
LEMMA AimsFacts ==
  ASSUME NEW r
  PROVE  /\ r.target \in Servers => Aims(r) = 1
         /\ r.target = NoServer => Aims(r) = 0
<1> DEFINE Here == {s \in Servers : r.target = s}
<1>1. CASE r.target \in Servers
  <2>1. Here = {r.target}
    BY <1>1
  <2>2. Aims(r) = 1
    BY <2>1, FS_Singleton DEF Aims
  <2> QED
    BY <1>1, <2>2, NamesFacts
<1>2. CASE r.target \notin Servers
  <2>1. Here = {}
    BY <1>2
  <2>2. Aims(r) = 0
    BY <2>1, FS_EmptySet DEF Aims
  <2> QED
    BY <1>2, <2>2
<1> QED
  BY <1>1, <1>2

Counted ==
  /\ IsFiniteSet(Awaited) /\ Cardinality(Awaited) \in Nat
  /\ Len(tasks) \in Nat /\ Len(pass) \in Nat /\ Len(kept) \in Nat /\ Len(queue) \in Nat
  /\ (job = NoJob /\ Aims(job) = 0) \/ (job # NoJob /\ Aims(job) = 1)
  /\ \/ main.target = NoServer /\ Aims(main) = 0
     \/ main.target # NoServer /\ Aims(main) = 1

LEMMA CountFacts == ConnectIInv => Counted
<1> SUFFICES ASSUME ConnectIInv PROVE Counted
  OBVIOUS
<1>1. IsFiniteSet(Awaited)
  BY FS_Subset DEF Awaited, ConnectIInv
<1>2. job = NoJob \/ job.target \in Servers
  BY DEF ConnectIInv, ConnectTypeOK, AsyncType, Job
<1>3. main.target = NoServer \/ main.target \in Servers
  BY DEF ConnectIInv, ConnectTypeOK, MainType, Targets
<1>4. NoJob.target = NoServer
  BY DEF NoJob
<1>5. /\ job = NoJob => Aims(job) = 0
      /\ job # NoJob => Aims(job) = 1
  BY <1>2, <1>4, AimsFacts
<1>6. /\ main.target = NoServer => Aims(main) = 0
      /\ main.target # NoServer => Aims(main) = 1
  BY <1>3, AimsFacts
<1>7. Len(tasks) \in Nat /\ Len(pass) \in Nat /\ Len(kept) \in Nat /\ Len(queue) \in Nat
  BY DEF ConnectIInv, ConnectTypeOK, TaskType, AsyncType
<1> QED
  BY <1>1, <1>5, <1>6, <1>7, FS_CardinalityType DEF Counted

(* A connect() leaves one answer to wait for, an answer taken off the net   *)
(* one less if it was that one.                                             *)
LEMMA AwaitedFacts ==
  ASSUME Counted
  PROVE  /\ UNCHANGED net => Cardinality(Awaited)' = Cardinality(Awaited)
         /\ \A m \in net : net' = net \ {m} =>
              /\ Cardinality(Awaited)' <= Cardinality(Awaited)
              /\ m.current => Cardinality(Awaited)' = Cardinality(Awaited) - 1
<1>1. UNCHANGED net => Cardinality(Awaited)' = Cardinality(Awaited)
  BY DEF Awaited
<1>2. ASSUME NEW m \in net, net' = net \ {m}
      PROVE  /\ Cardinality(Awaited)' <= Cardinality(Awaited)
             /\ m.current => Cardinality(Awaited)' = Cardinality(Awaited) - 1
  <2>1. Awaited' = Awaited \ {m} /\ (m.current => m \in Awaited)
    BY <1>2 DEF Awaited
  <2>2. Cardinality(Awaited)' = Cardinality(Awaited \ {m})
    BY <2>1
  <2>3. IsFiniteSet(Awaited)
    BY DEF Counted
  <2> QED
    BY <2>1, <2>2, <2>3, FS_RemoveElement, FS_CardinalityType, FS_Subset
<1> QED
  BY <1>1, <1>2

LEMMA AttemptsStep ==
  ASSUME ConnectIInv, ConnectIInv', ConnectNext, asks' = asks, duplicates' = duplicates
  PROVE  ~(Attempts' > Attempts)
<1>1. Counted
  BY CountFacts
<1>2. Counted'
  BY CountFacts, PTL
<1> DEFINE w == Cardinality(Awaited)  w1 == Cardinality(Awaited)'
           j == Aims(job)  j1 == Aims(job)'
           a == Aims(main)  a1 == Aims(main)'
           n == Len(tasks) + Len(pass) + Len(kept) + Len(queue)
           n1 == Len(tasks') + Len(pass') + Len(kept') + Len(queue')
<1>3. UNCHANGED net => w1 = w
  BY <1>1, AwaitedFacts
<1>4. /\ w \in Nat /\ w1 \in Nat /\ n \in Nat /\ n1 \in Nat
      /\ Len(tasks) \in Nat /\ Len(pass) \in Nat /\ Len(kept) \in Nat /\ Len(queue) \in Nat
      /\ Len(tasks') \in Nat /\ Len(pass') \in Nat /\ Len(kept') \in Nat /\ Len(queue') \in Nat
  BY <1>1, <1>2 DEF Counted
<1>5. /\ (job = NoJob /\ j = 0) \/ (job # NoJob /\ j = 1)
      /\ (job' = NoJob /\ j1 = 0) \/ (job' # NoJob /\ j1 = 1)
      /\ (main.target = NoServer /\ a = 0) \/ (main.target # NoServer /\ a = 1)
      /\ (main'.target = NoServer /\ a1 = 0) \/ (main'.target # NoServer /\ a1 = 1)
  BY <1>1, <1>2, Zenon DEF Counted
<1>6. Attempts = w + n + j + a /\ Attempts' = w1 + n1 + j1 + a1
  <2>1. j \in Nat /\ j1 \in Nat /\ a \in Nat /\ a1 \in Nat
    BY <1>5
  <2>2. /\ Attempts = w + Len(tasks) + Len(pass) + Len(kept) + Len(queue) + j + a
        /\ Attempts' = w1 + Len(tasks') + Len(pass') + Len(kept') + Len(queue') + j1 + a1
    BY DEF Attempts
  <2> HIDE DEF w, w1, j, j1, a, a1
  <2> QED
    BY <1>4, <2>1, <2>2
<1> HIDE DEF w, w1, j, j1, a, a1
<1>7. w1 + n1 + j1 + a1 <= w + n + j + a
  <2>1. CASE InfoResponse
    <3>1. PICK m \in net : Receive(m) /\ (Dismiss(m) \/ BadFiles(m) \/ Compare(m))
      BY <2>1 DEF InfoResponse
    <3>2. UNCHANGED <<queue, job, pass, kept>> /\ main = Idle
      BY <2>1 DEF InfoResponse, Free, Busy, jobVars, passVars, ConnectIInv, MainWork
    <3>3. w1 <= w /\ (m.current => w1 = w - 1)
      <4>1. net' = net \ {m}
        BY <3>1 DEF Receive, ConnectIInv, ConnectTypeOK, FlagType
      <4> QED
        BY <1>1, <4>1, AwaitedFacts DEF w, w1
    <3>4. main.target = NoServer
      BY <3>2 DEF Idle
    <3>5. Len(tasks) \in Nat /\ (\A t : tasks' = Append(tasks, t) => Len(tasks') = Len(tasks) + 1)
      BY DEF ConnectIInv, ConnectTypeOK, TaskType
    <3>6. \/ UNCHANGED <<tasks, main>>
          \/ m.current /\ Len(tasks') = Len(tasks) + 1 /\ UNCHANGED main
          \/ m.current /\ UNCHANGED tasks
      BY <3>1, <3>5 DEF Dismiss, BadFiles, Compare, ConnectToParty, Fits, Accepted
    <3> QED
      BY <1>4, <1>5, <3>2, <3>3, <3>4, <3>6
  <2>4. CASE Outside
    <3>1. (\A s : ~Ask(s)) /\ ~NewMap
      BY DEF Ask, NewMap, ConnectIInv, ConnectTypeOK, FlagType
    <3>2. UNCHANGED <<net, tasks, pass, kept, queue, job>> /\ (UNCHANGED main \/ main'.target = NoServer)
      BY <2>4, <3>1 DEF Outside, UserStop, GoOnline, LeaveMode, partyVars, jobVars, passVars, Idle
    <3> QED
      BY <1>3, <1>4, <1>5, <3>2
  <2>5. CASE VidRestart
    <3>1. UNCHANGED <<net, tasks, pass, kept, queue, job, main>>
      BY <2>5 DEF VidRestart, partyVars, jobVars, passVars
    <3> QED
      BY <1>3, <1>4, <1>5, <3>1
  <2>6. CASE DownloadCalls
    <3>1. UNCHANGED <<net, pass, kept, job>>
      BY <2>6 DEF DownloadCalls, partyVars, passVars
    <3>2. CASE StopRead \/ StopAbort
      <4>1. UNCHANGED <<tasks, queue>>
        BY <3>2 DEF StopRead, StopAbort
      <4>2. main'.target = main.target \/ main'.target = NoServer
        BY <3>2 DEF StopRead, StopAbort, AfterStop, Idle, ConnectIInv, ConnectTypeOK, MainType
      <4> QED
        BY <1>3, <1>4, <1>5, <3>1, <4>1, <4>2
    <3>3. CASE StartRead
      <4>1. main.target # NoServer /\ UNCHANGED queue
        BY <3>3 DEF StartRead, Busy, ConnectIInv, MainWork
      <4>2. \/ Len(tasks') = Len(tasks) + 1 /\ main' = Idle
            \/ UNCHANGED tasks
        BY <3>3 DEF StartRead, ConnectIInv, ConnectTypeOK, TaskType
      <4>3. main' = Idle => main'.target = NoServer
        BY DEF Idle
      <4> QED
        BY <1>3, <1>4, <1>5, <3>1, <4>1, <4>2, <4>3
    <3>4. CASE StartReset
      <4>1. main.target # NoServer /\ UNCHANGED tasks /\ main'.target = NoServer
        BY <3>4 DEF StartReset, Busy, Idle, ConnectIInv, MainWork
      <4>2. Len(queue') = Len(queue) + 1 \/ UNCHANGED queue
        BY <3>4 DEF StartReset, ConnectIInv, ConnectTypeOK, AsyncType
      <4> QED
        BY <1>3, <1>4, <1>5, <3>1, <4>1, <4>2
    <3> QED
      BY <2>6, <3>2, <3>3, <3>4 DEF DownloadCalls
  <2>7. CASE MainPipeline
    <3>1. UNCHANGED <<queue, job>>
      BY <2>7 DEF MainPipeline, jobVars
    <3>2. CASE BeginPass
      <4>1. /\ pass = << >> /\ pass' = kept \o tasks /\ tasks' = << >> /\ kept' = << >>
            /\ UNCHANGED <<net, main>>
        BY <3>2 DEF BeginPass, Free, partyVars
      <4>2. Len(pass') = Len(kept) + Len(tasks)
        BY <4>1 DEF ConnectIInv, ConnectTypeOK, TaskType
      <4> QED
        BY <1>3, <1>4, <1>5, <3>1, <4>1, <4>2
    <3>3. CASE KeepTask
      <4>1. /\ pass # << >> /\ pass' = Tail(pass) /\ kept' = Append(kept, Head(pass))
            /\ UNCHANGED <<net, tasks, main>>
        BY <3>3 DEF KeepTask, partyVars
      <4>2. Len(pass') = Len(pass) - 1 /\ Len(kept') = Len(kept) + 1
        BY <4>1 DEF ConnectIInv, ConnectTypeOK, TaskType
      <4> QED
        BY <1>3, <1>4, <1>5, <3>1, <4>1, <4>2
    <3>4. CASE RunTask
      <4> DEFINE t == Head(pass)
      <4>1. /\ main = Idle /\ pass # << >> /\ pass' = Tail(pass) /\ pass \in Seq(Task)
            /\ UNCHANGED kept /\ Resume(t)
        BY <3>4 DEF RunTask, Busy, ConnectIInv, ConnectTypeOK, TaskType, MainWork
      <4>2. Len(pass') = Len(pass) - 1
        BY <4>1
      <4>3. main.target = NoServer
        BY <4>1 DEF Idle
      <4>4. t.target \in Servers /\ host \in Servers
        <5>1. t \in Task
          BY <4>1
        <5>2. host \in Servers
          BY <4>1 DEF ConnectIInv, ConnectTypeOK, PartyType, Targets, HostInv
        <5> QED
          BY <5>1, <5>2 DEF Task
      <4> HIDE DEF t
      <4>5. CASE tasks' = Append(tasks, TaskOf("join", t.target)) /\ UNCHANGED <<net, main>>
        <5>1. Len(tasks') = Len(tasks) + 1
          BY <4>5 DEF ConnectIInv, ConnectTypeOK, TaskType
        <5> QED
          BY <1>3, <1>4, <1>5, <3>1, <4>1, <4>2, <4>3, <4>5, <5>1
      <4>6. CASE UNCHANGED tasks
        <5>1. ASSUME NEW s \in Servers, Connect(s), UNCHANGED <<joined, main>>
              PROVE  w1 + n1 + j1 + a1 <= w + n + j + a
          <6>1. PICK m : Awaited' = {m}
            BY <5>1, ConnectType DEF ConnectIInv, ConnectTypeOK
          <6>2. w1 = 1
            BY <6>1, FS_Singleton DEF w1
          <6> QED
            BY <1>4, <1>5, <3>1, <4>1, <4>2, <4>3, <4>6, <5>1, <6>2
        <5>2. CASE UNCHANGED net
          BY <1>3, <1>4, <1>5, <3>1, <4>1, <4>2, <4>3, <4>6, <5>2
        <5> QED
          BY <4>1, <4>4, <5>1, <5>2 DEF Resume, partyVars
      <4> QED
        BY <4>1, <4>5, <4>6 DEF Resume, ConnectToParty
    <3> QED
      BY <2>7, <3>2, <3>3, <3>4 DEF MainPipeline
  <2>8. CASE AsyncThread
    <3>1. UNCHANGED <<net, pass, kept, main>>
      BY <2>8 DEF AsyncThread, partyVars, passVars
    <3>2. CASE JobBegin
      <4>1. /\ queue # << >> /\ queue' = Tail(queue) /\ queue \in Seq(Job) /\ UNCHANGED tasks
            /\ job = NoJob
        BY <3>2 DEF JobBegin, At, ConnectIInv, ConnectTypeOK, AsyncType
      <4>2. Len(queue') = Len(queue) - 1
        BY <4>1
      <4> QED
        BY <1>3, <1>4, <1>5, <3>1, <4>1, <4>2
    <3>3. CASE JobCheck \/ JobAborts \/ JobFails
      <4>1. UNCHANGED <<tasks, queue, job>>
        BY <3>3 DEF JobCheck, JobAborts, JobFails, jobVars
      <4> QED
        BY <1>3, <1>4, <1>5, <3>1, <4>1
    <3>4. CASE JobWrites \/ JobWriteFails \/ JobEnd
      <4>1. UNCHANGED <<tasks, queue>> /\ job # NoJob
        BY <3>4 DEF JobWrites, JobWriteFails, JobEnd, At, ConnectIInv, ConnectTypeOK, AsyncType
      <4> QED
        BY <1>3, <1>4, <1>5, <3>1, <4>1
    <3>5. CASE JobConnect
      <4>1. UNCHANGED queue /\ job # NoJob /\ job' = NoJob /\ Len(tasks') = Len(tasks) + 1
        BY <3>5 DEF JobConnect, At, ConnectIInv, ConnectTypeOK, AsyncType, TaskType
      <4> QED
        BY <1>3, <1>4, <1>5, <3>1, <4>1
    <3> QED
      BY <2>8, <3>2, <3>3, <3>4, <3>5 DEF AsyncThread
  <2> QED
    BY <2>1, <2>4, <2>5, <2>6, <2>7, <2>8 DEF ConnectNext, MainThread
<1>8. j \in Nat /\ j1 \in Nat /\ a \in Nat /\ a1 \in Nat
  BY <1>5
<1> QED
  BY <1>4, <1>6, <1>7, <1>8

LEMMA BoundsGrow ==
  ASSUME ConnectIInv, ConnectNext
  PROVE  (asks' = asks \/ asks' > asks) /\ (duplicates' = duplicates \/ duplicates' > duplicates)
<1>1. asks \in Nat /\ duplicates \in Nat
  BY DEF ConnectIInv, ConnectTypeOK, FlagType
<1>2. asks' = asks \/ asks' = asks + 1
  BY DEF ConnectNext, Outside, Ask, NewMap, UserStop, GoOnline, LeaveMode, MainThread, InfoResponse,
         VidRestart, DownloadCalls, MainPipeline, AsyncThread, boundVars
<1>3. duplicates' = duplicates \/ duplicates' = duplicates + 1
  BY DEF ConnectNext, Outside, MainThread, InfoResponse, Receive,
         VidRestart, DownloadCalls, MainPipeline, AsyncThread, boundVars
<1> QED
  BY <1>1, <1>2, <1>3

(* Only the player, a change of map or a doubled answer opens another way   *)
(* onto a server: connects, restarts, downloads, aborts and polls that cross *)
(* each other never make two of one.                                        *)
THEOREM NothingResurrected == ConnectSpec => NoAttemptResurrected
<1>1. ASSUME ConnectIInv, ConnectIInv', [ConnectNext]_connectVars
      PROVE  [Attempts' > Attempts => asks' > asks \/ duplicates' > duplicates]_connectVars
  <2> SUFFICES ASSUME ConnectNext, ~(asks' > asks), ~(duplicates' > duplicates)
               PROVE  ~(Attempts' > Attempts)
    BY <1>1
  <2>1. asks' = asks /\ duplicates' = duplicates
    BY <1>1, BoundsGrow
  <2> QED
    BY <1>1, <2>1, AttemptsStep
<1> QED
  BY <1>1, ConnectInvariance, PTL DEF ConnectSpec, NoAttemptResurrected

(* The mod in fs_game at a direct join is that of the server joined, and    *)
(* loaded or about to be.                                                   *)
THEOREM JoinsWithMod == ConnectSpec => ModSwitchedBeforeJoin
<1>1. ASSUME ConnectIInv, [ConnectNext]_connectVars
      PROVE  [JoinsDirectly => /\ fsGame' = ModOf[joined']
                               /\ loaded' = fsGame' \/ restart']_connectVars
  BY <1>1, SwitchedStep
<1> QED
  BY <1>1, ConnectInvariance, PTL DEF ConnectSpec, ModSwitchedBeforeJoin
=============================================================================
