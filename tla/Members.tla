------------------------------ MODULE Members ------------------------------
(***************************************************************************)
(* Who is in which slot, as a dedicated server and its clients know it:    *)
(* g_memberInfo of the server and g_clientMemberInfo of every client, in   *)
(* src/src/client/component/party.cpp, patches.cpp and map_rotation.cpp.   *)
(* A client that has got a gamestate forgets its table and reports itself; *)
(* the server tells everybody of it and it of everybody.  Players come and *)
(* go meanwhile, slots are used again, maps change, a player asks another  *)
(* server to take it, and the datagrams are lost or overtake each other.   *)
(***************************************************************************)
EXTENDS Naturals, Sequences, FiniteSets, FiniteSetsExt, Ascending

CONSTANTS
  Players,             \* one address, xuid and name each
  NumClients,          \* svs_numclients
  NoPlayer,            \* sentinel
  MaxJoins, MaxMaps, MaxTrouble, MaxPending     \* bounds of the model

ASSUME MembersAssumption ==
  /\ IsFiniteSet(Players) /\ NoPlayer \notin Players
  /\ NumClients \in Nat \ {0} /\ {MaxJoins, MaxMaps, MaxTrouble, MaxPending} \subseteq Nat

Slots == 1..NumClients
PlayerOrNone == Players \cup {NoPlayer}

VARIABLES
  state,         \* svs_clients[i].header.state
  address,       \* svs_clients[i].remoteAddress: that of the last player of the slot
  memberInfo,    \* g_memberInfo, NoPlayer where g_memberInfoValid is false
  kicks,         \* slots whose kick waits for the server pipeline
  due,           \* calls of perform_map_rotation to come
  rotating,      \* map commands that wait in the command buffer
  hosts,         \* server_connection_state of every player: this server's, or not
  gamestate,     \* players a gamestate is on its way to
  table,         \* g_clientMemberInfo of every player
  toServer,      \* clientInfo datagrams on their way, per player
  toClient,      \* memberInfoUpdate datagrams on their way, per player
  astray,        \* players who did not report their last gamestate here
  disturbed,     \* a datagram was lost or overtaken since the last map
  joins, maps, trouble

serverVars == <<state, address, memberInfo, kicks, due, rotating>>
clientVars == <<hosts, gamestate, table>>
netVars == <<toServer, toClient, astray, disturbed>>
bounds == <<joins, maps, trouble>>
vars == <<serverVars, clientVars, netVars, bounds>>

NoMembers == [i \in Slots |-> NoPlayer]

Init ==
  /\ state = [i \in Slots |-> "free"] /\ address = NoMembers /\ memberInfo = NoMembers
  /\ kicks = {} /\ due = 0 /\ rotating = 0 /\ hosts = [p \in Players |-> "elsewhere"]
  /\ gamestate = {} /\ table = [p \in Players |-> NoMembers]
  /\ toServer = [p \in Players |-> 0] /\ toClient = [p \in Players |-> << >>]
  /\ astray = {} /\ disturbed = FALSE /\ joins = 0 /\ maps = 0 /\ trouble = 0

SlotsOf(p) == {i \in Slots : address[i] = p}
Active == {i \in Slots : state[i] = "active"}
Playing == {address[i] : i \in Active}

(* Slip: the search begins at the last slot.                                *)
FindLastClientNumByAdr(p) == Max({0} \cup SlotsOf(p))

(* The first slot with the address, whether anybody still plays in it; 0    *)
(* for none.                                                                *)
FindClientNumByAdr(p) == IF SlotsOf(p) = {} THEN 0 ELSE Min(SlotsOf(p))

-----------------------------------------------------------------------------
(* The engine's part: a player gets its own slot back while the slot waits  *)
(* to be freed, else the first free one, and then a gamestate.  It came by  *)
(* party::connect, which made this server its host.                         *)
Join(p) ==
  LET own == {i \in SlotsOf(p) : state[i] = "zombie"}
      free == {i \in Slots : state[i] = "free"}
      usable == IF own # {} THEN own ELSE free IN
  /\ joins < MaxJoins /\ joins' = joins + 1
  /\ p \notin Playing /\ usable # {}
  /\ state' = [state EXCEPT ![Min(usable)] = "active"]
  /\ address' = [address EXCEPT ![Min(usable)] = p]
  /\ gamestate' = gamestate \cup {p} /\ hosts' = [hosts EXCEPT ![p] = "here"]
  /\ UNCHANGED <<memberInfo, kicks, due, rotating, table, netVars, maps, trouble>>

(* A client is dropped, for whatever reason.  sv_drop_client_stub clears    *)
(* the entry of the table a client keeps, not that of the server's.         *)
DropClient(i) ==
  /\ state' = [state EXCEPT ![i] = "zombie"]
  /\ gamestate' = gamestate \ {address[i]}
  /\ UNCHANGED <<address, memberInfo, hosts, table>>

Leave(i) ==
  /\ state[i] = "active"
  /\ DropClient(i)
  /\ UNCHANGED <<kicks, due, rotating, netVars, bounds>>

FreeSlot(i) ==
  /\ state[i] = "zombie" /\ state' = [state EXCEPT ![i] = "free"]
  /\ UNCHANGED <<address, memberInfo, kicks, due, rotating, clientVars, netVars, bounds>>

LoadMap ==
  /\ rotating > 0 /\ rotating' = rotating - 1
  /\ gamestate' = Playing
  /\ disturbed' = (disturbed /\ \E p \in Players : toServer[p] > 0 \/ toClient[p] # << >>)
  /\ UNCHANGED <<state, address, memberInfo, kicks, due, hosts, table,
                 toServer, toClient, astray, bounds>>

-----------------------------------------------------------------------------
(* The commands.  kickClient forgets the member at once and kicks whoever   *)
(* is in the slot when the server pipeline runs; kick only does the latter. *)
KickClient(i) ==
  /\ trouble < MaxTrouble /\ trouble' = trouble + 1
  /\ kicks' = kicks \cup {i}
  /\ memberInfo' = [memberInfo EXCEPT ![i] = NoPlayer]
  /\ UNCHANGED <<state, address, due, rotating, clientVars, netVars, joins, maps>>

Kick(i) ==
  /\ state[i] # "free" /\ trouble < MaxTrouble /\ trouble' = trouble + 1
  /\ kicks' = kicks \cup {i}
  /\ UNCHANGED <<state, address, memberInfo, due, rotating, clientVars, netVars,
                 joins, maps>>

KickClientNum(i) ==
  /\ i \in kicks /\ kicks' = kicks \ {i}
  /\ IF state[i] = "active" THEN DropClient(i)
     ELSE UNCHANGED <<state, address, memberInfo, clientVars>>
  /\ UNCHANGED <<due, rotating, netVars, bounds>>

(* The command calls perform_map_rotation; a call that finds online data    *)
(* being synchronised schedules itself anew, so it is still to come.        *)
MapRotate ==
  /\ maps < MaxMaps /\ maps' = maps + 1
  /\ due' = due + 1
  /\ UNCHANGED <<state, address, memberInfo, kicks, rotating, clientVars, netVars,
                 joins, trouble>>

(* The members are forgotten now, the map follows from the command buffer.  *)
PerformMapRotation ==
  /\ due > 0 /\ due' = due - 1
  /\ rotating' = rotating + 1
  /\ memberInfo' = NoMembers
  /\ UNCHANGED <<state, address, kicks, clientVars, netVars, bounds>>

-----------------------------------------------------------------------------
(* The client.  An invitation taken while it plays makes another server (or *)
(* this one) its host at once; should that refuse, it plays on here.        *)
JoinGame(p, to) ==
  /\ p \in Playing /\ trouble < MaxTrouble /\ trouble' = trouble + 1
  /\ hosts' = [hosts EXCEPT ![p] = to]
  /\ UNCHANGED <<serverVars, gamestate, table, netVars, joins, maps>>

(* A new gamestate, outside the front end: the host, if any, gets a report. *)
ParseGamestate(p) ==
  /\ p \in gamestate /\ gamestate' = gamestate \ {p}
  /\ table' = [table EXCEPT ![p] = NoMembers]
  /\ IF hosts[p] = "here"
     THEN toServer' = [toServer EXCEPT ![p] = @ + 1] /\ astray' = astray \ {p}
     ELSE astray' = astray \cup {p} /\ UNCHANGED toServer
  /\ UNCHANGED <<serverVars, hosts, toClient, disturbed, bounds>>

MemberInfoUpdate(p) ==
  LET m == Head(toClient[p]) IN
  /\ toClient[p] # << >>
  /\ toClient' = [toClient EXCEPT ![p] = Tail(@)]
  /\ table' = [table EXCEPT ![p][m.slot] = m.player]
  /\ UNCHANGED <<serverVars, hosts, gamestate, toServer, astray, disturbed, bounds>>

(* What the server answers: the new member to all, also to those who are    *)
(* about to be freed, and then every member to the new one.                 *)
Update(i, p) == [slot |-> i, player |-> p]
Snapshot(info) ==
  LET known == InOrder({i \in Slots : info[i] # NoPlayer})
  IN [k \in 1..Len(known) |-> Update(known[k], info[known[k]])]

(* Slip: the new member is told of itself only.                             *)
AnswersToAll(p, n, info) ==
  [q \in Players |->
     IF \E i \in SlotsOf(q) : state[i] # "free" THEN Append(toClient[q], Update(n, p))
     ELSE toClient[q]]

Answers(p, n, info) ==
  [q \in Players |->
     (IF \E i \in SlotsOf(q) : state[i] # "free" THEN Append(toClient[q], Update(n, p))
      ELSE toClient[q])
     \o (IF q = p THEN Snapshot(info) ELSE << >>)]

ClientInfo(p) ==
  LET n == FindClientNumByAdr(p)
      info == [memberInfo EXCEPT ![n] = p] IN
  /\ \A q \in Players : Len(toClient[q]) <= MaxPending
  /\ toServer[p] > 0 /\ toServer' = [toServer EXCEPT ![p] = @ - 1]
  /\ IF n = 0 THEN UNCHANGED <<memberInfo, toClient>>
     ELSE IF state[n] # "active"
     THEN memberInfo' = [memberInfo EXCEPT ![n] = NoPlayer] /\ UNCHANGED toClient
     ELSE memberInfo' = info /\ toClient' = Answers(p, n, info)
  /\ UNCHANGED <<state, address, kicks, due, rotating, clientVars, astray, disturbed, bounds>>

-----------------------------------------------------------------------------
Lose(p) ==
  /\ \/ toServer[p] > 0 /\ toServer' = [toServer EXCEPT ![p] = @ - 1] /\ UNCHANGED toClient
     \/ toClient[p] # << >> /\ toClient' = [toClient EXCEPT ![p] = Tail(@)] /\ UNCHANGED toServer
  /\ trouble < MaxTrouble /\ trouble' = trouble + 1
  /\ disturbed' = TRUE
  /\ UNCHANGED <<serverVars, clientVars, astray, joins, maps>>

Overtake(p) ==
  /\ Len(toClient[p]) > 1
  /\ toClient' = [toClient EXCEPT ![p] = <<@[2], @[1]>> \o SubSeq(@, 3, Len(@))]
  /\ trouble < MaxTrouble /\ trouble' = trouble + 1
  /\ disturbed' = TRUE
  /\ UNCHANGED <<serverVars, clientVars, toServer, astray, joins, maps>>

Next ==
  \/ \E p \in Players :
       \/ Join(p) \/ ParseGamestate(p) \/ MemberInfoUpdate(p) \/ ClientInfo(p)
       \/ (\E to \in {"here", "elsewhere"} : JoinGame(p, to))
       \/ Lose(p) \/ Overtake(p)
  \/ \E i \in Slots :
       \/ Leave(i) \/ FreeSlot(i)
       \/ KickClient(i) \/ Kick(i) \/ KickClientNum(i)
  \/ MapRotate \/ PerformMapRotation \/ LoadMap

Spec == Init /\ [][Next]_vars

-----------------------------------------------------------------------------
(* Addresses of players who have left stay in their slots; yet a player is  *)
(* always found in the slot it plays in.                                    *)
TypeOK ==
  /\ state \in [Slots -> {"free", "zombie", "active"}]
  /\ address \in [Slots -> PlayerOrNone] /\ memberInfo \in [Slots -> PlayerOrNone]
  /\ kicks \subseteq Slots /\ due \in Nat /\ rotating \in Nat
  /\ hosts \in [Players -> {"here", "elsewhere"}] /\ astray \subseteq Players
  /\ gamestate \subseteq Playing
  /\ table \in [Players -> [Slots -> PlayerOrNone]]
  /\ toServer \in [Players -> Nat]
  /\ \A i \in Active : FindClientNumByAdr(address[i]) = i

Settled ==
  /\ kicks = {} /\ rotating = 0 /\ gamestate = {}
  /\ \A p \in Players : toServer[p] = 0 /\ toClient[p] = << >>

Reported == {i \in Active : address[i] \notin astray}

(* Whoever came, left, was kicked or changed slots, and however the maps    *)
(* changed meanwhile: once everything on its way has arrived, the server    *)
(* and all players know the players by the right slot, unless a datagram    *)
(* was lost or overtaken, and then the next map makes up for it.  Only who  *)
(* reported to another server, since it had asked that one to take it when  *)
(* the map began, neither knows nor is known, until it reports here again.  *)
MembersAgree ==
  Settled /\ ~disturbed =>
    \A j \in Reported : /\ memberInfo[j] = address[j]
                        /\ \A i \in Reported : table[address[i]][j] = address[j]
=============================================================================
