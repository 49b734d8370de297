----------------------------- MODULE Demonware -----------------------------
(***************************************************************************)
(* The TCP servers of the demonware emulator, which answer the game inside *)
(* its own process: the hooks of the socket calls in                       *)
(* src/src/client/component/demonware.cpp, the queues of                   *)
(* game/demonware/servers/tcp_server.cpp that the game's threads share     *)
(* with the server thread, and what the authentication and lobby servers   *)
(* do with a packet: the key exchange, and the encrypted, numbered replies *)
(* of the services.  A socket is only a name for a server here: the queues *)
(* belong to the server and outlive every connection.                      *)
(***************************************************************************)
EXTENDS Naturals, Sequences, FiniteSets, SequencesExt

CONSTANTS
  Sockets,      \* each is read by one thread of the game
  Talks,        \* servers a socket is connected to, now or then
  Kinds,        \* kinds of packets the game sends, per server
  ReplyBytes,   \* bytes of a reply
  ReadSizes,    \* lengths the game gives to recv
  NoServer, NoMessage,     \* sentinels
  MaxSends      \* bound of the model: packets sent to each server

Servers == {"auth3", "lobby"}
AuthKinds == {"post", "json"}
Tasks == {"task", "reward", "bandwidth", "failing"}
LobbyKinds == {"zero", "header", "auth", "unknown"} \cup Tasks
Packets == [kind : AuthKinds \cup LobbyKinds, id : Nat]

ASSUME DemonwareAssumption ==
  /\ IsFiniteSet(Sockets) /\ NoServer \notin Servers /\ NoMessage \notin Packets
  /\ Talks \in [Sockets -> SUBSET Servers]
  /\ Kinds \in [Servers -> SUBSET (AuthKinds \cup LobbyKinds)]
  /\ Kinds["auth3"] \subseteq AuthKinds /\ Kinds["lobby"] \subseteq LobbyKinds
  /\ ReplyBytes \in Nat \ {0} /\ ReadSizes \subseteq Nat \ {0} /\ MaxSends \in [Servers -> Nat]

VARIABLES
  link,                     \* socket_map
  peeked,                   \* sockets between pending_data and handle_output
  shared,                   \* servers that two sockets were linked to at a time
  inQueue, outQueue,        \* in_queue_ and out_queue_ of every server
  serverThread, exitServer,
  turn, draining, packet,   \* servers left in this frame, server in its loop, its packet
  packetBuffer, key,        \* keys.cpp: packet_buffer, and what the keys are derived from
  msgCount, transactionId,  \* reply.cpp: numbers of encrypted packets and of replies
  asked, heard              \* per server, all packets sent and all bytes received

socketVars == <<link, peeked, shared>>
threadVars == <<serverThread, turn, draining, packet>>
lobbyVars == <<packetBuffer, key, msgCount, transactionId>>
vars == <<socketVars, inQueue, outQueue, threadVars, exitServer, lobbyVars, asked, heard>>

Init ==
  /\ link = [s \in Sockets |-> NoServer] /\ peeked = {} /\ shared = {}
  /\ inQueue = [v \in Servers |-> << >>] /\ outQueue = [v \in Servers |-> << >>]
  /\ serverThread = "running" /\ exitServer = FALSE
  /\ turn = {} /\ draining = NoServer /\ packet = NoMessage
  /\ packetBuffer = << >> /\ key = << >> /\ msgCount = 0 /\ transactionId = 0
  /\ asked = [v \in Servers |-> << >>] /\ heard = [v \in Servers |-> << >>]

-----------------------------------------------------------------------------
(* The hooks, called by the threads of the game.                            *)
Linked(v) == {s \in Sockets : link[s] = v}

Connect(s, v) ==
  /\ s \notin peeked /\ link[s] # v
  /\ link' = [link EXCEPT ![s] = v]
  /\ shared' = IF Linked(v) = {} THEN shared ELSE shared \cup {v}
  /\ UNCHANGED <<peeked, inQueue, outQueue, threadVars, exitServer, lobbyVars, asked, heard>>

Closesocket(s) ==
  /\ s \notin peeked /\ link[s] # NoServer
  /\ link' = [link EXCEPT ![s] = NoServer]
  /\ UNCHANGED <<peeked, shared, inQueue, outQueue, threadVars, exitServer, lobbyVars,
                 asked, heard>>

(* One call of send is one packet for the server.                           *)
Send(s, kind) ==
  LET v == link[s]  m == [kind |-> kind, id |-> Len(asked[v]) + 1] IN
  /\ s \notin peeked /\ v # NoServer /\ kind \in Kinds[v]
  /\ Len(asked[v]) < MaxSends[v]
  /\ inQueue' = [inQueue EXCEPT ![v] = Append(@, m)]
  /\ asked' = [asked EXCEPT ![v] = Append(@, m)]
  /\ UNCHANGED <<socketVars, outQueue, threadVars, exitServer, lobbyVars, heard>>

(* Slip: recv does not look for data first.                                 *)
PendingAlways(s) ==
  /\ s \notin peeked /\ link[s] # NoServer
  /\ peeked' = peeked \cup {s}
  /\ UNCHANGED <<link, shared, inQueue, outQueue, threadVars, exitServer, lobbyVars,
                 asked, heard>>

(* recv looks for data, without the lock, and only then takes it: with none *)
(* it would block.                                                          *)
PendingData(s) ==
  /\ s \notin peeked /\ link[s] # NoServer
  /\ outQueue[link[s]] # << >>
  /\ peeked' = peeked \cup {s}
  /\ UNCHANGED <<link, shared, inQueue, outQueue, threadVars, exitServer, lobbyVars,
                 asked, heard>>

Shorter(n, q) == IF Len(q) < n THEN Len(q) ELSE n

HandleOutput(s, size) ==
  LET v == link[s]  n == Shorter(size, outQueue[v]) IN
  /\ s \in peeked
  /\ peeked' = peeked \ {s}
  /\ heard' = [heard EXCEPT ![v] = @ \o SubSeq(outQueue[v], 1, n)]
  /\ outQueue' = [outQueue EXCEPT ![v] = SubSeq(@, n + 1, Len(@))]
  /\ UNCHANGED <<link, shared, inQueue, threadVars, exitServer, lobbyVars, asked>>

-----------------------------------------------------------------------------
(* The server thread.                                                       *)
ServerMain ==
  /\ serverThread = "running" /\ turn = {} /\ draining = NoServer
  /\ IF exitServer THEN serverThread' = "done" /\ UNCHANGED turn
                   ELSE turn' = Servers /\ UNCHANGED serverThread
  /\ UNCHANGED <<socketVars, inQueue, outQueue, draining, packet, exitServer, lobbyVars,
                 asked, heard>>

Pop(v) ==
  /\ packet' = Head(inQueue[v])
  /\ inQueue' = [inQueue EXCEPT ![v] = Tail(@)]

(* frame() of a server: a test without the lock, and the first packet, as   *)
(* nobody else takes one in between.                                        *)
Frame(v) ==
  /\ v \in turn /\ draining = NoServer
  /\ turn' = turn \ {v}
  /\ IF inQueue[v] = << >> THEN UNCHANGED <<draining, packet, inQueue>>
                          ELSE Pop(v) /\ draining' = v
  /\ UNCHANGED <<socketVars, outQueue, serverThread, exitServer, lobbyVars, asked, heard>>

NextPacket ==
  /\ draining # NoServer /\ packet = NoMessage
  /\ IF inQueue[draining] = << >>
     THEN draining' = NoServer /\ UNCHANGED <<packet, inQueue>>
     ELSE Pop(draining) /\ UNCHANGED draining
  /\ UNCHANGED <<socketVars, outQueue, serverThread, turn, exitServer, lobbyVars, asked, heard>>

ToBytes(r) == [b \in 1..ReplyBytes |-> <<r, b>>]

(* tcp_server::send pushes the whole of every reply under the lock.         *)
SendReplies(rs) ==
  outQueue' = [outQueue EXCEPT ![draining] =
                 @ \o FlattenSeq([i \in 1..Len(rs) |-> ToBytes(rs[i])])]

(* What the game sends first, and what asks for nothing, is answered raw.   *)
(* (auth3_server has no catch around std::stoul: the numbers of the game's  *)
(* request are taken to be numbers.)                                        *)
HandleRaw ==
  /\ packet.kind \in {"zero", "json"}
  /\ SendReplies(<<[kind |-> packet.kind]>>)
  /\ UNCHANGED lobbyVars

(* client_header_ack.  (The two packets hashed are those of the exchange;   *)
(* the server's is a constant.)                                             *)
HandleHeader ==
  /\ packet.kind = "header"
  /\ packetBuffer' = Append(packetBuffer, packet)
  /\ SendReplies(<<[kind |-> "header"]>>)
  /\ UNCHANGED <<key, msgCount, transactionId>>

(* Slip: the keys are derived before this packet is hashed.                 *)
HandleAuthEarly ==
  /\ packet.kind = "auth"
  /\ packetBuffer' = Append(packetBuffer, packet)
  /\ key' = packetBuffer
  /\ SendReplies(<<[kind |-> "auth", response |-> key']>>)
  /\ UNCHANGED <<msgCount, transactionId>>

(* client_auth: derive_keys_s1 takes all that was ever hashed, and the      *)
(* session key (a constant, set by the auth server: not represented).       *)
HandleAuth ==
  /\ packet.kind = "auth"
  /\ packetBuffer' = Append(packetBuffer, packet)
  /\ key' = packetBuffer'
  /\ SendReplies(<<[kind |-> "auth", response |-> key']>>)
  /\ UNCHANGED <<msgCount, transactionId>>

(* What the tasks of the services send: most one reply, reportRewardEvents  *)
(* a message before it, a bandwidth test only a message.                    *)
Outgoing(kind) ==
  CASE kind = "task" -> <<"reply">>
    [] kind = "reward" -> <<"push", "reply">>
    [] kind = "bandwidth" -> <<"message">>

Encrypted(kind, i) ==
  [kind |-> kind, key |-> key, count |-> msgCount + i,
   transaction |-> IF kind = "reply" THEN transactionId + 1 ELSE 0]

(* Slip: the encrypted packets are not counted.                             *)
HandleTaskUncounted ==
  LET out == Outgoing(packet.kind) IN
  /\ packet.kind \in {"task", "reward", "bandwidth"}
  /\ SendReplies([i \in 1..Len(out) |-> Encrypted(out[i], i)])
  /\ transactionId' = IF "reply" \in ToSet(out) THEN transactionId + 1 ELSE transactionId
  /\ UNCHANGED <<packetBuffer, key, msgCount>>

HandleTask ==
  LET out == Outgoing(packet.kind) IN
  /\ packet.kind \in {"task", "reward", "bandwidth"}
  /\ SendReplies([i \in 1..Len(out) |-> Encrypted(out[i], i)])
  /\ msgCount' = msgCount + Len(out)
  /\ transactionId' = IF "reply" \in ToSet(out) THEN transactionId + 1 ELSE transactionId
  /\ UNCHANGED <<packetBuffer, key>>

(* Nothing is sent for a header of the authentication, a packet that is not *)
(* understood, or when a task throws, which handle() swallows.              *)
HandleQuietly ==
  /\ packet.kind \in {"post", "unknown", "failing"}
  /\ UNCHANGED <<outQueue, lobbyVars>>

Handle ==
  /\ packet # NoMessage
  /\ HandleRaw \/ HandleHeader \/ HandleAuth \/ HandleTask \/ HandleQuietly
  /\ packet' = NoMessage
  /\ UNCHANGED <<socketVars, inQueue, serverThread, turn, draining, exitServer, asked, heard>>

PreDestroy ==
  /\ ~exitServer /\ exitServer' = TRUE
  /\ UNCHANGED <<socketVars, inQueue, outQueue, threadVars, lobbyVars, asked, heard>>

-----------------------------------------------------------------------------
ServerThread == ServerMain \/ (\E v \in Servers : Frame(v)) \/ NextPacket \/ Handle

Next ==
  \/ \E s \in Sockets :
       \/ \E v \in Talks[s] : Connect(s, v)
       \/ Closesocket(s)
       \/ \E kind \in LobbyKinds \cup AuthKinds : Send(s, kind)
       \/ PendingData(s)
       \/ \E n \in ReadSizes : HandleOutput(s, n)
  \/ ServerThread
  \/ PreDestroy

Spec == Init /\ [][Next]_vars

(* The server thread runs; the game need not do anything.                   *)
FairSpec == Spec /\ WF_vars(ServerThread)

-----------------------------------------------------------------------------
TypeOK ==
  /\ link \in [Sockets -> Servers \cup {NoServer}] /\ peeked \subseteq Sockets
  /\ \A s \in peeked : link[s] # NoServer
  /\ shared \subseteq Servers
  /\ \A v \in Servers : Len(inQueue[v]) <= Len(asked[v]) /\ Len(asked[v]) <= MaxSends[v]
  /\ serverThread \in {"running", "done"} /\ exitServer \in BOOLEAN
  /\ turn \subseteq Servers /\ draining \in Servers \cup {NoServer}
  /\ (packet # NoMessage) => draining # NoServer
  /\ msgCount \in Nat /\ transactionId \in 0..msgCount

(* A recv that saw data gets some: with a length of 0 the game would take   *)
(* the connection for closed.  It holds as long as no two sockets are       *)
(* linked to the same server, whose single queue both would read.           *)
DataStays ==
  \A s \in peeked : outQueue[link[s]] # << >> \/ link[s] \in shared

(* What the game reads is what the server promises, for both servers.       *)
InService(v) == IF draining = v /\ packet # NoMessage THEN 1 ELSE 0
Served(v) == Len(asked[v]) - Len(inQueue[v]) - InService(v)
LobbyStream ==
  INSTANCE ReplyStream WITH
    asked <- asked["lobby"], heard <- heard["lobby"], closed <- serverThread = "done",
    served <- Served("lobby")
AuthStream ==
  INSTANCE ReplyStream WITH
    asked <- asked["auth3"], heard <- heard["auth3"], closed <- serverThread = "done",
    served <- Served("auth3")

StreamsKept == LobbyStream!Spec /\ AuthStream!Spec
=============================================================================
