---------------------------- MODULE ServerList ----------------------------
(***************************************************************************)
(* The list of servers of the main menu,                                   *)
(* src/src/client/component/server_list.cpp: the request to the master     *)
(* server, the queue of servers it names, the getInfo queries that         *)
(* do_frame_work sends and gives up, the rows made of the answers, and the *)
(* clicks that join one.  What was sent stays with the network, which may   *)
(* bring it at any time, again, or never.                                  *)
(* Everything here runs on the main thread of the client; times are kept   *)
(* as the time since, in steps of the action Tick.                         *)
(***************************************************************************)
EXTENDS Naturals, Sequences, FiniteSets, SequencesExt, FiniteSetsExt

CONSTANTS
  Servers,         \* addresses of game servers
  Masters,         \* addresses masterServerIP may be set to
  MasterPackets,   \* packets of a getserversResponse: [names, eot]
  Suitable,        \* servers of the same protocol, play mode and game, dedicated
  Clients, Bots,   \* per server: client_count and bot_count
  QueryLimit,      \* getInfo queries per frame
  RequestTimeout, QueryTimeout, PingCap,   \* 5 s, 10 s and 999 ms, in Ticks
  Absent, Unasked, NoServer, NoMaster,     \* sentinels
  MaxStrays, MaxRefreshes, MaxJoins         \* bounds of the model

ASSUME ServerListAssumption ==
  /\ IsFiniteSet(Servers) /\ IsFiniteSet(Masters)
  /\ MasterPackets \subseteq [names : SUBSET Servers, eot : BOOLEAN]
  /\ Suitable \subseteq Servers
  /\ Clients \in [Servers -> Nat] /\ Bots \in [Servers -> Nat]
  /\ \A s \in Servers : Bots[s] <= Clients[s]
  /\ QueryLimit \in Nat \ {0}
  /\ {RequestTimeout, QueryTimeout, PingCap, MaxStrays, MaxRefreshes, MaxJoins} \subseteq Nat
  /\ NoServer \notin Servers /\ NoMaster \notin Masters
  /\ Absent # Unasked /\ {Absent, Unasked} \cap Nat = {}

(* Times since a moment are counted up to one past the longest time-out.    *)
MaxAge == QueryTimeout + 1
Ages == 0..MaxAge
Older(age) == IF age < MaxAge THEN age + 1 ELSE age

VARIABLES
  master,       \* master_state.address
  requesting, requestAge,
  queued,       \* master_state.queued_servers: Absent, Unasked or the time since
  rows,         \* servers
  lastIndex,    \* the static of join_server, 0 at first
  host,         \* server_connection_state.host of party.cpp
  packets,      \* packets of the masters' answers, each of its request
  queries,      \* servers a getInfo was sent to
  answers,      \* servers that sent an infoResponse
  requests, awaited,   \* requests sent; the master whose answer to the last one is not over
  seen, strays,        \* since the refresh: the packets of that answer that came before it
                       \* was over; per server, how often late or doubled ones named it then
  refreshes, joins

clientVars == <<master, requesting, requestAge, queued, rows, lastIndex, host>>
netVars == <<packets, queries, answers>>
history == <<requests, awaited, seen, strays>>
vars == <<clientVars, netVars, history, refreshes, joins>>

Datagrams == [from : Masters, request : Nat, names : SUBSET Servers, eot : BOOLEAN]
Row == [server : Servers, ping : 0..PingCap]

Init ==
  /\ master = NoMaster /\ requesting = FALSE /\ requestAge = 0
  /\ queued = [s \in Servers |-> Absent]
  /\ rows = << >> /\ lastIndex = 0 /\ host = NoServer
  /\ packets = {} /\ queries = {} /\ answers = {}
  /\ requests = 0 /\ awaited = NoMaster /\ seen = {} /\ strays = [s \in Servers |-> 0]
  /\ refreshes = 0 /\ joins = 0

-----------------------------------------------------------------------------
(* What a master sends when asked.                                          *)
Answer(m, request) ==
  {[from |-> m, request |-> request, names |-> p.names, eot |-> p.eot] : p \in MasterPackets}

(* Opening the menu or pressing refresh.  The dvars may give another master *)
(* than before, or (m = NoMaster) an address that does not resolve: then    *)
(* nothing is asked, and a request under way stays one.                     *)
RefreshServerList(m) ==
  /\ refreshes < MaxRefreshes
  /\ refreshes' = refreshes + 1
  /\ rows' = << >>
  /\ queued' = [s \in Servers |-> Absent]
  /\ seen' = {} /\ strays' = [s \in Servers |-> 0]
  /\ host' = NoServer
  /\ IF m = NoMaster
     THEN UNCHANGED <<master, requesting, requestAge, packets, requests, awaited>>
     ELSE /\ master' = m /\ requesting' = TRUE /\ requestAge' = 0
          /\ requests' = requests + 1 /\ awaited' = m
          /\ packets' = packets \cup Answer(m, requests')
  /\ UNCHANGED <<lastIndex, queries, answers, joins>>

(* A click on row i: the first one only remembers the row, a second one on  *)
(* the same row joins.  The remembered row is never forgotten.              *)
JoinServer(i) ==
  /\ joins < MaxJoins
  /\ i <= Len(rows)
  /\ lastIndex' = i
  /\ IF lastIndex # i
     THEN UNCHANGED <<host, queries, joins>>
     ELSE /\ host' = rows[i].server
          /\ queries' = queries \cup {rows[i].server}
          /\ joins' = joins + 1
  /\ UNCHANGED <<master, requesting, requestAge, queued, rows, packets,
                 answers, history, refreshes>>

-----------------------------------------------------------------------------
(* Slip: a query is never given up.                                         *)
KeepWaiting(s) == FALSE

GivenUp(s) == queued[s] \in Ages /\ queued[s] > QueryTimeout

(* One frame: a request is given up after a while, queries likewise, and at *)
(* most QueryLimit of the servers not asked yet are asked, in the order of  *)
(* an unordered_map.                                                        *)
DoFrameWork ==
  LET unasked == {s \in Servers : queued[s] = Unasked} IN
  /\ requesting' = (requesting /\ requestAge <= RequestTimeout)
  /\ awaited' = IF requestAge > RequestTimeout THEN NoMaster ELSE awaited
  /\ \E ask \in SUBSET unasked :
       /\ Cardinality(ask) = IF Cardinality(unasked) < QueryLimit
                             THEN Cardinality(unasked) ELSE QueryLimit
       /\ queued' = [s \in Servers |-> IF s \in ask THEN 0
                                       ELSE IF GivenUp(s) THEN Absent ELSE queued[s]]
       /\ queries' = queries \cup ask
  /\ UNCHANGED <<master, requestAge, rows, lastIndex, host, packets, answers,
                 requests, seen, strays, refreshes, joins>>

-----------------------------------------------------------------------------
(* Slip: packets are taken after the end of the transmission as well.       *)
HeededForEver(p) == master = p.from

(* Only packets of the master asked last are looked at, and only before the *)
(* end of its transmission: which request they answer is not in them.       *)
Heeded(p) == requesting /\ master = p.from

(* A packet of a master's answer.  Naming a server queues it afresh, also   *)
(* one that was asked already.                                              *)
GetServersResponse(p) ==
  LET timely == p.from = awaited
      again == p.request # requests \/ p \in seen IN
  /\ timely /\ again => \A s \in p.names : strays[s] < MaxStrays
  /\ IF Heeded(p)
     THEN /\ requesting' = (requesting /\ ~p.eot)
          /\ queued' = [s \in Servers |-> IF s \in p.names THEN Unasked ELSE queued[s]]
     ELSE UNCHANGED <<requesting, queued>>
  /\ awaited' = IF timely /\ p.eot THEN NoMaster ELSE awaited
  /\ seen' = IF timely /\ ~again THEN seen \cup {p} ELSE seen
  /\ strays' = [s \in Servers |-> IF timely /\ again /\ s \in p.names THEN strays[s] + 1
                                                                    ELSE strays[s]]
  /\ UNCHANGED <<master, requestAge, rows, lastIndex, host, netVars,
                 requests, refreshes, joins>>

RealPlayers(s) == Clients[s] - Bots[s]

Before(a, b) ==
  LET s == a.server  t == b.server IN
  \/ RealPlayers(s) > RealPlayers(t)
  \/ /\ RealPlayers(s) = RealPlayers(t)
     /\ Clients[s] > Clients[t] \/ (Clients[s] = Clients[t] /\ a.ping < b.ping)

(* std::stable_sort: the place of an element is the number of those that    *)
(* come before it or are its equals and stood before it.                    *)
SortServerlist(q) ==
  LET Place(i) == Cardinality({j \in 1..Len(q) :
                     Before(q[j], q[i]) \/ (j <= i /\ ~Before(q[i], q[j]))})
  IN [k \in 1..Len(q) |-> q[CHOOSE i \in 1..Len(q) : Place(i) = k]]

(* Slip: the ping is not cut off.                                           *)
TakeUncut(s) ==
  /\ queued[s] \in Ages
  /\ rows' = SortServerlist(Append(rows, [server |-> s, ping |-> queued[s]]))
  /\ queued' = [queued EXCEPT ![s] = Absent]

(* An answer makes a row when its server was asked and is still waited for. *)
(* Its challenge is not looked at: the ping counts from the last query,     *)
(* whichever query the answer belongs to.                                   *)
TakeAnswer(s) ==
  /\ queued[s] \in Ages
  /\ rows' = SortServerlist(Append(rows, [server |-> s, ping |-> Min({queued[s], PingCap})]))
  /\ queued' = [queued EXCEPT ![s] = Absent]

(* fits: the server is suitable and had sv_running when it answered.        *)
HandleInfoResponse(s, fits) ==
  /\ fits => s \in Suitable
  /\ \/ fits /\ TakeAnswer(s)
     \/ ~(fits /\ queued[s] \in Ages) /\ UNCHANGED <<rows, queued>>
  /\ UNCHANGED <<master, requesting, requestAge, lastIndex, host, netVars, history,
                 refreshes, joins>>

-----------------------------------------------------------------------------
(* A server answers a query.                                                *)
GetInfo(s) ==
  /\ s \in queries \ answers
  /\ answers' = answers \cup {s}
  /\ UNCHANGED <<clientVars, packets, queries, history, refreshes, joins>>

Tick ==
  /\ requestAge' = Older(requestAge)
  /\ queued' = [s \in Servers |-> IF queued[s] \in Ages THEN Older(queued[s]) ELSE queued[s]]
  /\ UNCHANGED <<master, requesting, rows, lastIndex, host, netVars, history, refreshes, joins>>

-----------------------------------------------------------------------------
Next ==
  \/ \E m \in Masters \cup {NoMaster} : RefreshServerList(m)
  \/ \E i \in 1..Len(rows) : JoinServer(i)
  \/ DoFrameWork
  \/ \E p \in packets : GetServersResponse(p)
  \/ \E s \in answers, fits \in BOOLEAN :
       HandleInfoResponse(s, fits)
  \/ \E s \in Servers : GetInfo(s)
  \/ Tick

Spec == Init /\ [][Next]_vars

(* The game runs frames and time passes; nobody else has to do anything.    *)
FairSpec == Spec /\ WF_vars(DoFrameWork) /\ WF_vars(Tick)

-----------------------------------------------------------------------------
TypeOK ==
  /\ master \in Masters \cup {NoMaster} /\ requesting \in BOOLEAN /\ requestAge \in Ages
  /\ queued \in [Servers -> Ages \cup {Absent, Unasked}]
  /\ rows \in Seq(Row) /\ lastIndex \in Nat /\ host \in Servers \cup {NoServer}
  /\ packets \subseteq Datagrams /\ queries \subseteq Servers /\ answers \subseteq Servers
  /\ requests \in Nat /\ awaited \in Masters \cup {NoMaster} /\ seen \subseteq Datagrams
  /\ strays \in [Servers -> 0..MaxStrays]

RowsOf(s) == {i \in 1..Len(rows) : rows[i].server = s}

(* Every row, and every place in the queue, stands for one packet that      *)
(* names the server, came from the master asked last, and before the end of *)
(* its answer or the time-out: a packet of that answer, or another copy of  *)
(* one, or a packet of an earlier answer of the same master, for these the  *)
(* code does not tell apart.  Whatever comes later or from elsewhere makes  *)
(* no row, nor do answers of a server that come twice, or were asked for by *)
(* an earlier refresh or by joining it.                                     *)
Naming(s) == {p \in seen : s \in p.names}
RowsAccounted ==
  \A s \in Servers :
     Cardinality(RowsOf(s)) + (IF queued[s] = Absent THEN 0 ELSE 1)
       <= Cardinality(Naming(s)) + strays[s]

(* The list settles: whatever is lost, a request ends, and every server     *)
(* that was named becomes a row or is given up.                             *)
ListSettles ==
  requesting \/ (\E s \in Servers : queued[s] # Absent)
    ~> ~requesting /\ \A s \in Servers : queued[s] = Absent
=============================================================================
