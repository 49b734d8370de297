-------------------------- MODULE DemonwareProofs --------------------------
(***************************************************************************)
(* The queues of the TCP servers between the game and their thread, for    *)
(* any sockets, kinds of packets, lengths of a reply and of a read: the    *)
(* packets are handled one after the other in the order in which they were *)
(* sent, what the game reads are the replies of the abstract stream, and   *)
(* what a recv has seen is still there when it is taken, unless two        *)
(* sockets were linked to the server at a time.                            *)
(***************************************************************************)
EXTENDS Demonware, SequenceTheorems, NaturalsInduction, FiniteSetTheorems, TLAPS

INSTANCE Replies

(* Everything the servers say, raw or encrypted, and the bytes of it.       *)
Answers ==
  [kind : {"zero", "json", "header"}]
    \cup [kind : {"auth"}, response : Seq(Packets)]
    \cup [kind : {"reply", "push", "message"}, key : Seq(Packets), count : Nat,
          transaction : Nat]
Byte == Answers \X (1..ReplyBytes)

ThreadInv ==
  /\ serverThread \in {"running", "done"} /\ exitServer \in BOOLEAN
  /\ turn \subseteq Servers /\ draining \in Servers \cup {NoServer}
  /\ packet \in Packets \cup {NoMessage}
  /\ (packet # NoMessage) => draining # NoServer
  /\ serverThread = "done" => turn = {} /\ draining = NoServer

LinkInv ==
  /\ link \in [Sockets -> Servers \cup {NoServer}]
  /\ peeked \subseteq Sockets /\ shared \subseteq Servers
  /\ \A s \in peeked : link[s] # NoServer

LobbyInv ==
  /\ packetBuffer \in Seq(Packets) /\ key \in Seq(Packets)
  /\ msgCount \in Nat /\ transactionId \in Nat /\ transactionId <= msgCount

InInv ==
  /\ asked \in [Servers -> Seq(Packets)] /\ inQueue \in [Servers -> Seq(Packets)]
  /\ \A v \in Servers : Len(asked[v]) <= MaxSends[v]

OutInv == outQueue \in [Servers -> Seq(Byte)] /\ heard \in [Servers -> Seq(Byte)]

(* The packets not yet handled are the last ones sent, in their order: that *)
(* in service, and then those of the queue.                                 *)
Waiting(v, m) ==
  LET taken == Len(asked[v]) - Len(inQueue[v]) IN
  /\ taken \in Nat
  /\ \A k \in 1..Len(inQueue[v]) : inQueue[v][k] = asked[v][taken + k]
  /\ draining = v /\ m # NoMessage => taken > 0 /\ m = asked[v][taken]
InTurn == \A v \in Servers : Waiting(v, packet)

TypeInv == ThreadInv /\ LinkInv /\ LobbyInv /\ InInv /\ OutInv /\ InTurn

(* Who shares a server is remembered, so that the data a recv has seen is   *)
(* its own on every other server.                                           *)
Apart ==
  \A s, t \in Sockets : s # t /\ link[s] = link[t] => link[s] \in shared \cup {NoServer}

DataInv == Apart /\ DataStays

-----------------------------------------------------------------------------
(* What holds for 0 and with every number for the next holds for all: as a  *)
(* set, for the theorem of the library takes an operator.                   *)
LEMMA Induction ==
  ASSUME NEW T, 0 \in T, \A n \in Nat : n \in T => n + 1 \in T
  PROVE  \A n \in Nat : n \in T
<1> DEFINE U == Nat \ T  R == OpToRel(<, Nat)
<1> SUFFICES ASSUME U # {} PROVE FALSE
  OBVIOUS
<1>1. IsWellFoundedOn(R, Nat)
  BY NatLessThanWellFounded
<1>2. \A x, y \in Nat : y < x => <<y, x>> \in R
  BY DEF OpToRel
<1> HIDE DEF R
<1>3. PICK x \in U : \A y \in U : <<y, x>> \notin R
  BY <1>1, WFMin
<1>4. x # 0 /\ x - 1 \in Nat /\ x - 1 < x
  BY <1>3
<1>5. x - 1 \in T
  BY <1>2, <1>3, <1>4
<1> QED
  BY <1>3, <1>4, <1>5

(* What FlattenSeq computes on the way: f[i] is the first i lists joined.   *)
Joins(f, s, n) ==
  /\ DOMAIN f = 1..n
  /\ \A i \in 1..n : f[i] = IF i = 1 THEN s[i] ELSE f[i - 1] \o s[i]

LEMMA JoinsExist ==
  ASSUME NEW S, NEW s \in Seq(Seq(S))
  PROVE  \E f \in [1..Len(s) -> Seq(S)] : Joins(f, s, Len(s))
<1> DEFINE T == {n \in Nat : n <= Len(s) => \E f \in [1..n -> Seq(S)] : Joins(f, s, n)}
<1>1. 0 \in T
  <2>1. [i \in 1..0 |-> << >>] \in [1..0 -> Seq(S)]
    OBVIOUS
  <2>2. Joins([i \in 1..0 |-> << >>], s, 0)
    BY DEF Joins
  <2> QED
    BY <2>1, <2>2
<1>2. ASSUME NEW n \in Nat, n \in T PROVE n + 1 \in T
  <2> SUFFICES ASSUME n + 1 <= Len(s)
               PROVE  \E f \in [1..(n + 1) -> Seq(S)] : Joins(f, s, n + 1)
    OBVIOUS
  <2>1. PICK f \in [1..n -> Seq(S)] : Joins(f, s, n)
    BY <1>2
  <2>2. s[n + 1] \in Seq(S) /\ Len(s) \in Nat
    OBVIOUS
  <2> DEFINE x == IF n = 0 THEN s[n + 1] ELSE f[n] \o s[n + 1]
             g == [i \in 1..(n + 1) |-> IF i = n + 1 THEN x ELSE f[i]]
  <2>3. x \in Seq(S)
    <3>1. CASE n = 0
      BY <2>2, <3>1
    <3>2. CASE n # 0
      <4>1. f[n] \in Seq(S)
        BY <2>1, <3>2
      <4>2. f[n] \o s[n + 1] \in Seq(S)
        BY <2>2, <4>1, ConcatProperties
      <4> QED
        BY <3>2, <4>2
    <3> QED
      BY <3>1, <3>2
  <2>4. x = IF n + 1 = 1 THEN s[n + 1] ELSE f[n] \o s[n + 1]
    OBVIOUS
  <2> HIDE DEF x
  <2>5. g \in [1..(n + 1) -> Seq(S)]
    BY <2>1, <2>3
  <2>6. ASSUME NEW i \in 1..(n + 1)
        PROVE  g[i] = IF i = 1 THEN s[i] ELSE g[i - 1] \o s[i]
    <3>1. CASE i = n + 1
      <4>1. g[i] = x /\ (i # 1 => g[i - 1] = f[n])
        BY <3>1
      <4> QED
        BY <2>4, <3>1, <4>1
    <3>2. CASE i # n + 1
      <4>1. i \in 1..n /\ g[i] = f[i] /\ (i # 1 => g[i - 1] = f[i - 1])
        BY <3>2
      <4>2. f[i] = IF i = 1 THEN s[i] ELSE f[i - 1] \o s[i]
        BY <2>1, <4>1 DEF Joins
      <4> QED
        BY <4>1, <4>2
    <3> QED
      BY <3>1, <3>2
  <2>7. Joins(g, s, n + 1)
    BY <2>5, <2>6 DEF Joins
  <2> QED
    BY <2>5, <2>7
<1> HIDE DEF T
<1>3. \A n \in Nat : n \in T
  BY <1>1, <1>2, Induction
<1> QED
  BY <1>3 DEF T

Alike(s, t, n) == \A i \in 1..n : s[i] = t[i]

LEMMA JoinsAgree ==
  ASSUME NEW f, NEW g, NEW s, NEW t, NEW m \in Nat, NEW n \in Nat, n <= m,
         Joins(f, s, n), Joins(g, t, m), Alike(s, t, n)
  PROVE  Alike(f, g, n)
<1> DEFINE T == {i \in Nat : i \in 1..n => f[i] = g[i]}
<1>1. 0 \in T
  OBVIOUS
<1>2. ASSUME NEW i \in Nat, i \in T PROVE i + 1 \in T
  <2> SUFFICES ASSUME i + 1 \in 1..n PROVE f[i + 1] = g[i + 1]
    OBVIOUS
  <2>1. i + 1 \in 1..m /\ s[i + 1] = t[i + 1] /\ (i + 1) - 1 = i /\ (i + 1 # 1 => i \in 1..n)
    BY DEF Alike
  <2>2. f[i + 1] = IF i + 1 = 1 THEN s[i + 1] ELSE f[(i + 1) - 1] \o s[i + 1]
    BY DEF Joins
  <2>3. g[i + 1] = IF i + 1 = 1 THEN t[i + 1] ELSE g[(i + 1) - 1] \o t[i + 1]
    BY <2>1 DEF Joins
  <2> QED
    BY <1>2, <2>1, <2>2, <2>3
<1> HIDE DEF T
<1>3. \A i \in Nat : i \in T
  BY <1>1, <1>2, Induction
<1> QED
  BY <1>3 DEF T, Alike

LEMMA FlattenIs ==
  ASSUME NEW S, NEW s \in Seq(Seq(S)), NEW f, Joins(f, s, Len(s))
  PROVE  FlattenSeq(s) = IF Len(s) = 0 THEN << >> ELSE f[Len(s)]
<1> DEFINE n == Len(s)
           Is(h) == h = [i \in 1..n |-> IF i = 1 THEN s[i] ELSE h[i - 1] \o s[i]]
<1>1. n \in Nat /\ (n = 0 => s = << >>)
  OBVIOUS
<1>2. PICK g \in [1..n -> Seq(S)] : Joins(g, s, n)
  BY JoinsExist
<1>3. Is(g)
  BY <1>2 DEF Joins
<1>4. ASSUME n # 0 PROVE FlattenSeq(s) = (CHOOSE h : Is(h))[n]
  BY <1>4 DEF FlattenSeq
<1> DEFINE h == CHOOSE x : Is(x)
<1>10. n # 0 => FlattenSeq(s) = h[n]
  BY <1>4
<1>5. Is(h)
  BY <1>3
<1>6. Joins(h, s, n)
  <2> HIDE DEF h
  <2> QED
    BY <1>5 DEF Joins
<1> HIDE DEF h
<1>7. Alike(h, f, n)
  BY <1>1, <1>6, JoinsAgree DEF Alike
<1>8. CASE n = 0
  BY <1>1, <1>8 DEF FlattenSeq
<1>9. CASE n # 0
  <2>1. n \in 1..n
    BY <1>1, <1>9
  <2> QED
    BY <1>7, <1>9, <1>10, <2>1 DEF Alike
<1> QED
  BY <1>8, <1>9

(* Joining lists, and one more.                                             *)
LEMMA Flattening ==
  ASSUME NEW S, NEW s \in Seq(Seq(S))
  PROVE  /\ FlattenSeq(s) \in Seq(S)
         /\ s = << >> => FlattenSeq(s) = << >>
         /\ \A t \in Seq(Seq(S)) : Len(t) = Len(s) + 1 /\ (\A i \in 1..Len(s) : t[i] = s[i])
              => FlattenSeq(t) = FlattenSeq(s) \o t[Len(t)]
<1> DEFINE n == Len(s)
<1>1. n \in Nat
  OBVIOUS
<1>2. PICK f \in [1..n -> Seq(S)] : Joins(f, s, n)
  BY JoinsExist
<1>3. FlattenSeq(s) = IF n = 0 THEN << >> ELSE f[n]
  BY <1>2, FlattenIs
<1>4. FlattenSeq(s) \in Seq(S)
  <2>1. ASSUME n # 0 PROVE f[n] \in Seq(S)
    <3> HIDE DEF n
    <3>1. n \in 1..n
      BY <1>1, <2>1
    <3> QED
      BY <1>2, <3>1
  <2>2. << >> \in Seq(S)
    OBVIOUS
  <2> QED
    BY <1>3, <2>1, <2>2
<1>5. s = << >> => FlattenSeq(s) = << >>
  BY <1>3
<1>6. ASSUME NEW t \in Seq(Seq(S)), Len(t) = n + 1, \A i \in 1..n : t[i] = s[i]
      PROVE  FlattenSeq(t) = FlattenSeq(s) \o t[Len(t)]
  <2>1. PICK g \in [1..(n + 1) -> Seq(S)] : Joins(g, t, n + 1)
    BY <1>6, JoinsExist
  <2>2. FlattenSeq(t) = g[n + 1]
    BY <1>1, <1>6, <2>1, FlattenIs
  <2>3. t[n + 1] \in Seq(S)
    BY <1>1, <1>6
  <2>4. Alike(f, g, n)
    <3> DEFINE m == n + 1
    <3>1. m \in Nat /\ n <= m
      BY <1>1
    <3>3. Alike(s, t, n)
      BY <1>6 DEF Alike
    <3>2. Joins(f, s, n) /\ Joins(g, t, m)
      BY <1>2, <2>1
    <3> HIDE DEF m, n
    <3> QED
      BY <1>1, <3>1, <3>2, <3>3, JoinsAgree
  <2>5. g[n + 1] = IF n + 1 = 1 THEN t[n + 1] ELSE g[(n + 1) - 1] \o t[n + 1]
    <3>1. n + 1 \in 1..(n + 1)
      BY <1>1
    <3> HIDE DEF n
    <3> QED
      BY <2>1, <3>1 DEF Joins
  <2>6. CASE n = 0
    <3>1. g[n + 1] = t[n + 1] /\ FlattenSeq(s) = << >>
      BY <1>3, <2>5, <2>6
    <3> QED
      BY <1>6, <2>2, <2>3, <3>1, ConcatEmptySeq
  <2>7. CASE n # 0
    <3>1. (n + 1) - 1 = n /\ n \in 1..n /\ n + 1 # 1
      BY <1>1, <2>7
    <3>2. g[n + 1] = f[n] \o t[n + 1]
      BY <2>4, <2>5, <3>1 DEF Alike
    <3> QED
      BY <1>3, <1>6, <2>2, <2>7, <3>2
  <2> QED
    BY <2>6, <2>7
<1> QED
  BY <1>4, <1>5, <1>6

-----------------------------------------------------------------------------
(* Every byte sent is one of a reply.                                       *)
LEMMA BytesAreSent ==
  ASSUME NEW rs \in Seq(Answers)
  PROVE  Bytes(rs) \in Seq(Byte)
<1> DEFINE B(r) == ToBytes(r)
<1>1. ASSUME NEW r \in Answers PROVE B(r) \in Seq(Byte)
  BY DemonwareAssumption DEF ToBytes, Byte
<1>2. Len(rs) \in Nat /\ \A i \in 1..Len(rs) : rs[i] \in Answers
  OBVIOUS
<1> HIDE DEF B
<1>3. [i \in 1..Len(rs) |-> B(rs[i])] \in Seq(Seq(Byte))
  BY <1>1, <1>2
<1> QED
  BY <1>3, Flattening DEF Bytes, B, ToBytes

(* What the server sends is queued after what is there.                     *)
LEMMA RepliesQueued ==
  ASSUME OutInv, draining \in Servers, NEW rs \in Seq(Answers), SendReplies(rs)
  PROVE  /\ outQueue' \in [Servers -> Seq(Byte)]
         /\ \A v \in Servers : outQueue[v] # << >> => outQueue'[v] # << >>
<1> DEFINE b == Bytes(rs)  q == outQueue[draining]
<1>1. b \in Seq(Byte) /\ q \in Seq(Byte)
  BY BytesAreSent DEF OutInv
<1>2. outQueue' = [outQueue EXCEPT ![draining] = q \o b]
  BY DEF SendReplies, Bytes, ToBytes
<1> HIDE DEF b
<1>3. q \o b \in Seq(Byte) /\ (q # << >> => q \o b # << >>)
  BY <1>1, ConcatProperties, ConcatEqualIffEmpty
<1> QED
  BY <1>2, <1>3 DEF OutInv

LEMMA InitTyped == Init => TypeInv
<1> SUFFICES ASSUME Init PROVE TypeInv
  OBVIOUS
<1>1. ThreadInv
  BY DEF Init, ThreadInv
<1>2. LinkInv
  BY DEF Init, LinkInv
<1>3. LobbyInv /\ OutInv
  BY DEF Init, LobbyInv, OutInv
<1>4. InInv
  BY DemonwareAssumption DEF Init, InInv
<1>5. InTurn
  BY DEF Init, InTurn, Waiting
<1> QED
  BY <1>1, <1>2, <1>3, <1>4, <1>5 DEF TypeInv

(* The parts of the invariant that a step leaves alone.                     *)
LEMMA Kept ==
  ASSUME TypeInv
  PROVE  /\ UNCHANGED <<threadVars, exitServer>> => ThreadInv'
         /\ UNCHANGED socketVars => LinkInv'
         /\ UNCHANGED lobbyVars => LobbyInv'
         /\ UNCHANGED <<asked, inQueue>> => InInv'
         /\ UNCHANGED <<outQueue, heard>> => OutInv'
         /\ UNCHANGED <<asked, inQueue, draining, packet>> => InTurn'
<1>1. UNCHANGED <<threadVars, exitServer>> => ThreadInv'
  BY DEF TypeInv, ThreadInv, threadVars
<1>2. UNCHANGED socketVars => LinkInv'
  BY DEF TypeInv, LinkInv, socketVars
<1>3. UNCHANGED lobbyVars => LobbyInv'
  BY DEF TypeInv, LobbyInv, lobbyVars
<1>4. UNCHANGED <<asked, inQueue>> => InInv'
  BY DEF TypeInv, InInv
<1>5. UNCHANGED <<outQueue, heard>> => OutInv'
  BY DEF TypeInv, OutInv
<1>6. UNCHANGED <<asked, inQueue, draining, packet>> => InTurn'
  BY DEF TypeInv, InTurn, Waiting
<1> QED
  BY <1>1, <1>2, <1>3, <1>4, <1>5, <1>6

LEMMA LinkTyped ==
  ASSUME TypeInv, NEW s \in Sockets,
         (\E v \in Talks[s] : Connect(s, v)) \/ Closesocket(s) \/ PendingData(s)
  PROVE  TypeInv'
<1>1. /\ UNCHANGED <<threadVars, exitServer, lobbyVars>>
      /\ UNCHANGED <<inQueue, outQueue, asked, heard>>
  BY DEF Connect, Closesocket, PendingData
<1>2. LinkInv'
  <2>1. ASSUME NEW v \in Talks[s], Connect(s, v) PROVE LinkInv'
    BY <2>1, DemonwareAssumption DEF TypeInv, LinkInv, Connect
  <2>2. CASE Closesocket(s)
    BY <2>2 DEF TypeInv, LinkInv, Closesocket
  <2>3. CASE PendingData(s)
    BY <2>3 DEF TypeInv, LinkInv, PendingData
  <2> QED
    BY <2>1, <2>2, <2>3
<1> QED
  BY <1>1, <1>2, Kept DEF TypeInv, threadVars

(* A packet is sent after all others, and waits behind them.                *)
LEMMA SendTyped ==
  ASSUME TypeInv, NEW s \in Sockets, NEW kind \in LobbyKinds \cup AuthKinds, Send(s, kind)
  PROVE  TypeInv'
<1> DEFINE v == link[s]  a == asked[v]  q == inQueue[v]
           m == [kind |-> kind, id |-> Len(a) + 1]
<1>1. v \in Servers /\ a \in Seq(Packets) /\ q \in Seq(Packets) /\ Len(a) < MaxSends[v]
  BY DEF TypeInv, LinkInv, InInv, Send
<1>2. m \in Packets
  BY <1>1 DEF Packets
<1>3. /\ inQueue' = [inQueue EXCEPT ![v] = Append(q, m)]
      /\ asked' = [asked EXCEPT ![v] = Append(a, m)]
      /\ UNCHANGED <<socketVars, outQueue, threadVars, exitServer, lobbyVars, heard>>
  BY DEF Send
<1> HIDE DEF m
<1> DEFINE b == Append(a, m)  r == Append(q, m)
<1>4. /\ b \in Seq(Packets) /\ Len(b) = Len(a) + 1
      /\ \A i \in 1..Len(a) : b[i] = a[i]
      /\ b[Len(a) + 1] = m
  BY <1>1, <1>2, AppendProperties
<1>5. /\ r \in Seq(Packets) /\ Len(r) = Len(q) + 1
      /\ \A i \in 1..Len(q) : r[i] = q[i]
      /\ r[Len(q) + 1] = m
  BY <1>1, <1>2, AppendProperties
<1> HIDE DEF b, r
<1>6. asked' = [asked EXCEPT ![v] = b] /\ inQueue' = [inQueue EXCEPT ![v] = r]
  BY <1>3 DEF b, r
<1>7. InInv'
  <2>1. Len(b) <= MaxSends[v]
    BY <1>1, <1>4, DemonwareAssumption
  <2> HIDE DEF v, a, q
  <2> QED
    BY <1>1, <1>4, <1>5, <1>6, <2>1 DEF TypeInv, InInv
<1>8. InTurn'
  <2> SUFFICES ASSUME NEW w \in Servers PROVE Waiting(w, packet)'
    BY DEF InTurn
  <2>1. UNCHANGED <<draining, packet>> /\ Waiting(w, packet)
    BY <1>3 DEF TypeInv, InTurn, threadVars
  <2>2. CASE w # v
    <3>1. asked'[w] = asked[w] /\ inQueue'[w] = inQueue[w]
      BY <1>6, <2>2 DEF TypeInv, InInv
    <3> QED
      BY <2>1, <3>1 DEF Waiting
  <2>3. CASE w = v
    <3>1. asked'[w] = b /\ inQueue'[w] = r /\ asked[w] = a /\ inQueue[w] = q
      BY <1>1, <1>6, <2>3 DEF TypeInv, InInv
    <3>2. Len(a) \in Nat /\ Len(q) \in Nat
      BY <1>1
    <3> HIDE DEF v, a, q
    <3> DEFINE taken == Len(a) - Len(q)
    <3>3. /\ taken \in Nat
          /\ \A k \in 1..Len(q) : q[k] = a[taken + k]
          /\ draining = w /\ packet # NoMessage => taken > 0 /\ packet = a[taken]
      BY <2>1, <3>1 DEF Waiting
    <3>4. Len(b) - Len(r) = taken
      BY <1>4, <1>5, <3>2
    <3>5. ASSUME NEW k \in 1..Len(r) PROVE r[k] = b[taken + k]
      <4>1. CASE k \in 1..Len(q)
        <5>1. taken + k \in 1..Len(a)
          BY <3>2, <3>3, <4>1
        <5> QED
          BY <1>4, <1>5, <3>3, <4>1, <5>1
      <4>2. CASE k \notin 1..Len(q)
        <5>1. k = Len(q) + 1 /\ taken + k = Len(a) + 1
          BY <1>5, <3>2, <4>2
        <5> QED
          BY <1>4, <1>5, <5>1
      <4> QED
        BY <4>1, <4>2
    <3>6. draining = w /\ packet # NoMessage => taken > 0 /\ packet = b[taken]
      <4>1. taken > 0 => taken \in 1..Len(a)
        BY <3>2, <3>3
      <4> QED
        BY <1>4, <3>3, <4>1
    <3> HIDE DEF taken
    <3> QED
      BY <2>1, <3>1, <3>3, <3>4, <3>5, <3>6 DEF Waiting
  <2> QED
    BY <2>2, <2>3
<1>9. ThreadInv' /\ LinkInv' /\ LobbyInv' /\ OutInv'
  BY <1>3, Kept
<1> QED
  BY <1>7, <1>8, <1>9 DEF TypeInv

(* A read takes from the front of the queue what it gives to the game.      *)
LEMMA OutputTyped ==
  ASSUME TypeInv, NEW s \in Sockets, NEW size \in ReadSizes, HandleOutput(s, size)
  PROVE  TypeInv'
<1> DEFINE v == link[s]  q == outQueue[v]  n == Shorter(size, q)
           taken == SubSeq(q, 1, n)  left == SubSeq(q, n + 1, Len(q))
<1>1. /\ peeked' = peeked \ {s} /\ s \in peeked
      /\ heard' = [heard EXCEPT ![v] = heard[v] \o taken]
      /\ outQueue' = [outQueue EXCEPT ![v] = left]
      /\ UNCHANGED <<link, shared, inQueue, threadVars, exitServer, lobbyVars, asked>>
  BY DEF HandleOutput
<1>2. v \in Servers /\ q \in Seq(Byte) /\ heard[v] \in Seq(Byte) /\ size \in Nat
  BY <1>1, DemonwareAssumption DEF TypeInv, LinkInv, OutInv
<1>3. n \in Nat /\ n <= Len(q)
  BY <1>2 DEF Shorter
<1> HIDE DEF n, v, q
<1>4. taken \in Seq(Byte) /\ left \in Seq(Byte)
  BY <1>2, <1>3
<1> HIDE DEF taken, left
<1>5. heard[v] \o taken \in Seq(Byte)
  BY <1>2, <1>4, ConcatProperties
<1>6. OutInv'
  BY <1>1, <1>2, <1>4, <1>5 DEF TypeInv, OutInv
<1>7. LinkInv'
  BY <1>1 DEF TypeInv, LinkInv
<1>8. ThreadInv' /\ LobbyInv' /\ InInv' /\ InTurn'
  BY <1>1, Kept DEF threadVars
<1> QED
  BY <1>6, <1>7, <1>8 DEF TypeInv

(* The server takes the packet sent after the last one it took.             *)
LEMMA PopTyped ==
  ASSUME TypeInv, NEW v \in Servers, inQueue[v] # << >>, Pop(v), draining' = v,
         draining = NoServer \/ packet = NoMessage, serverThread = "running",
         UNCHANGED <<socketVars, outQueue, serverThread, exitServer, lobbyVars, asked, heard>>,
         turn' \subseteq turn
  PROVE  TypeInv'
<1> DEFINE q == inQueue[v]  a == asked[v]  r == Tail(q)
<1>1. q \in Seq(Packets) /\ q # << >> /\ a \in Seq(Packets)
  BY DEF TypeInv, InInv
<1>2. /\ r \in Seq(Packets) /\ Len(r) = Len(q) - 1
      /\ \A i \in 1..Len(r) : r[i] = q[i + 1]
      /\ Head(q) \in Packets /\ Head(q) = q[1] /\ Len(q) \in Nat /\ Len(q) > 0 /\ Len(a) \in Nat
  BY <1>1, HeadTailProperties
<1>3. packet' = Head(q) /\ inQueue' = [inQueue EXCEPT ![v] = r]
  BY DEF Pop
<1> HIDE DEF r
<1>4. ThreadInv'
  BY <1>2, <1>3, DemonwareAssumption DEF TypeInv, ThreadInv
<1>5. InInv'
  BY <1>2, <1>3 DEF TypeInv, InInv
<1>6. InTurn'
  <2> SUFFICES ASSUME NEW w \in Servers PROVE Waiting(w, packet)'
    BY DEF InTurn
  <2>1. Waiting(w, packet) /\ asked' = asked
    BY DEF TypeInv, InTurn
  <2>2. CASE w # v
    <3>1. inQueue'[w] = inQueue[w] /\ draining' # w
      BY <1>3, <2>2 DEF TypeInv, InInv
    <3> QED
      BY <2>1, <3>1 DEF Waiting
  <2>3. CASE w = v
    <3>1. inQueue'[w] = r /\ inQueue[w] = q /\ asked[w] = a
      BY <1>3, <2>3 DEF TypeInv, InInv
    <3> DEFINE taken == Len(a) - Len(q)
    <3>2. taken \in Nat /\ \A k \in 1..Len(q) : q[k] = a[taken + k]
      BY <2>1, <3>1 DEF Waiting
    <3> HIDE DEF q, a
    <3>3. Len(a) - Len(r) = taken + 1 /\ 1 \in 1..Len(q)
      BY <1>2
    <3>4. ASSUME NEW k \in 1..Len(r) PROVE r[k] = a[taken + 1 + k]
      <4>1. k + 1 \in 1..Len(q) /\ taken + 1 + k = taken + (k + 1)
        BY <1>2, <3>2
      <4> QED
        BY <1>2, <3>2, <4>1
    <3>5. packet' = a[taken + 1]
      BY <1>2, <1>3, <3>2, <3>3
    <3> HIDE DEF taken
    <3>6. taken + 1 \in Nat /\ taken + 1 > 0
      BY <3>2
    <3> QED
      BY <2>1, <3>1, <3>3, <3>4, <3>5, <3>6 DEF Waiting
  <2> QED
    BY <2>2, <2>3
<1>7. LinkInv' /\ LobbyInv' /\ OutInv'
  BY Kept
<1> QED
  BY <1>4, <1>5, <1>6, <1>7 DEF TypeInv

LEMMA ThreadTyped ==
  ASSUME TypeInv, ServerMain \/ (\E v \in Servers : Frame(v)) \/ NextPacket \/ PreDestroy
  PROVE  TypeInv'
<1>1. CASE ServerMain
  <2>1. ThreadInv'
    BY <1>1 DEF TypeInv, ThreadInv, ServerMain
  <2>2. UNCHANGED <<socketVars, inQueue, outQueue, draining, packet, lobbyVars, asked, heard>>
    BY <1>1 DEF ServerMain
  <2> QED
    BY <2>1, <2>2, Kept DEF TypeInv
<1>2. ASSUME NEW v \in Servers, Frame(v) PROVE TypeInv'
  <2>1. /\ draining = NoServer /\ turn' = turn \ {v}
        /\ UNCHANGED <<socketVars, outQueue, serverThread, exitServer, lobbyVars, asked, heard>>
    BY <1>2 DEF Frame
  <2>2. CASE inQueue[v] = << >>
    <3>1. UNCHANGED <<draining, packet, inQueue>>
      BY <1>2, <2>2 DEF Frame
    <3>2. ThreadInv'
      BY <2>1, <3>1 DEF TypeInv, ThreadInv
    <3> QED
      BY <2>1, <3>1, <3>2, Kept DEF TypeInv
  <2>3. CASE inQueue[v] # << >>
    <3>1. Pop(v) /\ draining' = v /\ serverThread = "running"
      BY <1>2, <2>3 DEF Frame, TypeInv, ThreadInv
    <3> QED
      BY <2>1, <2>3, <3>1, PopTyped
  <2> QED
    BY <2>2, <2>3
<1>3. CASE NextPacket
  <2>1. /\ draining # NoServer /\ packet = NoMessage
        /\ UNCHANGED <<socketVars, outQueue, serverThread, turn, exitServer, lobbyVars,
                       asked, heard>>
    BY <1>3 DEF NextPacket
  <2>2. CASE inQueue[draining] = << >>
    <3>1. draining' = NoServer /\ UNCHANGED <<packet, inQueue>>
      BY <1>3, <2>2 DEF NextPacket
    <3>2. ThreadInv'
      BY <2>1, <3>1 DEF TypeInv, ThreadInv
    <3>3. InTurn'
      BY <2>1, <3>1 DEF TypeInv, InTurn, Waiting
    <3> QED
      BY <2>1, <3>1, <3>2, <3>3, Kept DEF TypeInv
  <2>3. CASE inQueue[draining] # << >>
    <3>1. /\ draining \in Servers /\ Pop(draining) /\ draining' = draining
          /\ serverThread = "running"
      BY <1>3, <2>1, <2>3 DEF NextPacket, TypeInv, ThreadInv
    <3> QED
      BY <2>1, <2>3, <3>1, PopTyped
  <2> QED
    BY <2>2, <2>3
<1>4. CASE PreDestroy
  <2>1. exitServer' = TRUE
        /\ UNCHANGED <<socketVars, inQueue, outQueue, threadVars, lobbyVars, asked, heard>>
    BY <1>4 DEF PreDestroy
  <2>2. ThreadInv'
    BY <2>1 DEF TypeInv, ThreadInv, threadVars
  <2> QED
    BY <2>1, <2>2, Kept DEF TypeInv, threadVars
<1> QED
  BY <1>1, <1>2, <1>3, <1>4

(* A packet is answered at the end of the queue, if at all, and done.       *)
LEMMA HandleTyped ==
  ASSUME TypeInv, Handle
  PROVE  /\ TypeInv'
         /\ \A v \in Servers : outQueue[v] # << >> => outQueue'[v] # << >>
<1> DEFINE more == \A v \in Servers : outQueue[v] # << >> => outQueue'[v] # << >>
<1>1. /\ packet \in Packets /\ packet # NoMessage /\ draining \in Servers
      /\ packet' = NoMessage
      /\ UNCHANGED <<socketVars, inQueue, serverThread, turn, draining, exitServer, asked, heard>>
  BY DEF Handle, TypeInv, ThreadInv
<1>2. /\ OutInv /\ LobbyInv /\ packetBuffer \in Seq(Packets) /\ key \in Seq(Packets)
      /\ msgCount \in Nat /\ transactionId \in Nat /\ transactionId <= msgCount
  BY DEF TypeInv, LobbyInv
<1>3. \A rs \in Seq(Answers) : SendReplies(rs) => outQueue' \in [Servers -> Seq(Byte)] /\ more
  BY <1>1, <1>2, RepliesQueued
<1>4. Append(packetBuffer, packet) \in Seq(Packets)
  BY <1>1, <1>2, AppendProperties
<1>5. /\ \A k \in {"zero", "json", "header"} : <<[kind |-> k]>> \in Seq(Answers)
      /\ \A b \in Seq(Packets) : <<[kind |-> "auth", response |-> b]>> \in Seq(Answers)
  <2>1. \A k \in {"zero", "json", "header"} : [kind |-> k] \in Answers
    BY DEF Answers
  <2>2. \A b \in Seq(Packets) : [kind |-> "auth", response |-> b] \in Answers
    BY DEF Answers
  <2> QED
    BY <2>1, <2>2
<1>6. LobbyInv' /\ outQueue' \in [Servers -> Seq(Byte)] /\ more
  <2>1. CASE HandleRaw
    <3>1. packet.kind \in {"zero", "json", "header"} /\ SendReplies(<<[kind |-> packet.kind]>>)
          /\ UNCHANGED lobbyVars
      BY <2>1 DEF HandleRaw
    <3>2. LobbyInv'
      BY <1>2, <3>1 DEF LobbyInv, lobbyVars
    <3> QED
      BY <1>3, <1>5, <3>1, <3>2
  <2>2. CASE HandleHeader
    <3>1. /\ SendReplies(<<[kind |-> "header"]>>)
          /\ packetBuffer' = Append(packetBuffer, packet)
          /\ UNCHANGED <<key, msgCount, transactionId>>
      BY <2>2 DEF HandleHeader
    <3>2. LobbyInv'
      BY <1>2, <1>4, <3>1 DEF LobbyInv
    <3>3. <<[kind |-> "header"]>> \in Seq(Answers)
      BY <1>5
    <3> QED
      BY <1>3, <3>1, <3>2, <3>3
  <2>3. CASE HandleAuth
    <3>1. /\ packetBuffer' = Append(packetBuffer, packet) /\ key' = packetBuffer'
          /\ SendReplies(<<[kind |-> "auth", response |-> key']>>)
          /\ UNCHANGED <<msgCount, transactionId>>
      BY <2>3 DEF HandleAuth
    <3>2. key' \in Seq(Packets)
      BY <1>4, <3>1
    <3>3. LobbyInv'
      BY <1>2, <1>4, <3>1 DEF LobbyInv
    <3> QED
      BY <1>3, <1>5, <3>1, <3>2, <3>3
  <2>4. CASE HandleTask
    <3> DEFINE out == Outgoing(packet.kind)  E(i) == Encrypted(out[i], i)
               rs == [i \in 1..Len(out) |-> E(i)]
    <3>1. /\ packet.kind \in {"task", "reward", "bandwidth"}
          /\ SendReplies(rs) /\ msgCount' = msgCount + Len(out)
          /\ transactionId' = IF "reply" \in ToSet(out) THEN transactionId + 1 ELSE transactionId
          /\ UNCHANGED <<packetBuffer, key>>
      BY <2>4 DEF HandleTask
    <3>2. out \in {<<"reply">>, <<"push", "reply">>, <<"message">>}
      BY <3>1 DEF Outgoing
    <3> HIDE DEF out
    <3>3. /\ Len(out) \in Nat /\ Len(out) > 0
          /\ \A i \in 1..Len(out) : out[i] \in {"reply", "push", "message"}
      BY <3>2
    <3>4. \A i \in 1..Len(out) : E(i) \in Answers
      <4> SUFFICES ASSUME NEW i \in 1..Len(out) PROVE E(i) \in Answers
        OBVIOUS
      <4> DEFINE t == IF out[i] = "reply" THEN transactionId + 1 ELSE 0
      <4>1. out[i] \in {"reply", "push", "message"} /\ msgCount + i \in Nat /\ t \in Nat
        BY <1>2, <3>3
      <4>2. E(i) = [kind |-> out[i], key |-> key, count |-> msgCount + i, transaction |-> t]
        BY DEF Encrypted
      <4> HIDE DEF t
      <4> QED
        BY <1>2, <4>1, <4>2 DEF Answers
    <3>5. rs \in Seq(Answers)
      <4> HIDE DEF E
      <4> QED
        BY <3>3, <3>4
    <3>6. LobbyInv'
      BY <1>2, <3>1, <3>3 DEF LobbyInv
    <3> QED
      BY <1>3, <3>1, <3>5, <3>6
  <2>5. CASE HandleQuietly
    BY <1>2, <2>5 DEF HandleQuietly, LobbyInv, lobbyVars, OutInv
  <2> QED
    BY <2>1, <2>2, <2>3, <2>4, <2>5 DEF Handle
<1>7. OutInv'
  BY <1>1, <1>2, <1>6 DEF OutInv
<1>8. ThreadInv'
  BY <1>1 DEF TypeInv, ThreadInv
<1>9. InTurn'
  <2>1. UNCHANGED <<asked, inQueue>>
    BY <1>1
  <2> QED
    BY <1>1, <2>1 DEF TypeInv, InTurn, Waiting
<1>10. LinkInv' /\ InInv'
  BY <1>1, Kept
<1> QED
  BY <1>6, <1>7, <1>8, <1>9, <1>10 DEF TypeInv

LEMMA NextTyped == TypeInv /\ [Next]_vars => TypeInv'
<1> SUFFICES ASSUME TypeInv, [Next]_vars PROVE TypeInv'
  OBVIOUS
<1>1. CASE UNCHANGED vars
  BY <1>1, Kept DEF TypeInv, vars, threadVars, socketVars
<1>2. CASE ServerThread \/ PreDestroy
  BY <1>2, ThreadTyped, HandleTyped DEF ServerThread
<1>3. ASSUME NEW s \in Sockets,
             \/ \E v \in Talks[s] : Connect(s, v)
             \/ Closesocket(s)
             \/ \E kind \in LobbyKinds \cup AuthKinds : Send(s, kind)
             \/ PendingData(s)
             \/ \E n \in ReadSizes : HandleOutput(s, n)
      PROVE  TypeInv'
  BY <1>3, LinkTyped, SendTyped, OutputTyped
<1> QED
  BY <1>1, <1>2, <1>3 DEF Next

(* The state of the servers keeps its types; no queue outgrows what was     *)
(* sent, and no reply is numbered that was not also counted.                *)
THEOREM TypeCorrect == Spec => []TypeOK
<1>1. TypeInv => TypeOK
  <2> SUFFICES ASSUME TypeInv PROVE TypeOK
    OBVIOUS
  <2>1. ASSUME NEW v \in Servers
        PROVE  Len(inQueue[v]) <= Len(asked[v]) /\ Len(asked[v]) <= MaxSends[v]
    <3>1. Len(inQueue[v]) \in Nat /\ Len(asked[v]) \in Nat /\ Len(asked[v]) - Len(inQueue[v]) \in Nat
      BY DEF TypeInv, InInv, InTurn, Waiting
    <3>2. Len(asked[v]) <= MaxSends[v]
      BY DEF TypeInv, InInv
    <3> QED
      BY <3>1, <3>2
  <2>2. msgCount \in Nat /\ transactionId \in 0..msgCount
    BY DEF TypeInv, LobbyInv
  <2>3. /\ link \in [Sockets -> Servers \cup {NoServer}] /\ peeked \subseteq Sockets
        /\ \A s \in peeked : link[s] # NoServer
        /\ shared \subseteq Servers
    BY DEF TypeInv, LinkInv
  <2>4. /\ serverThread \in {"running", "done"} /\ exitServer \in BOOLEAN
        /\ turn \subseteq Servers /\ draining \in Servers \cup {NoServer}
        /\ (packet # NoMessage) => draining # NoServer
    BY DEF TypeInv, ThreadInv
  <2> QED
    BY <2>1, <2>2, <2>3, <2>4 DEF TypeOK
<1> QED
  BY <1>1, InitTyped, NextTyped, PTL DEF Spec

-----------------------------------------------------------------------------
LEMMA InitData == Init => DataInv
  BY DEF Init, DataInv, Apart, DataStays

(* Neither the sockets nor the readers change: the queues only lose what a  *)
(* reader takes.                                                            *)
LEMMA QueuesGrow ==
  ASSUME TypeInv, DataInv, UNCHANGED socketVars,
         \A v \in Servers : outQueue[v] # << >> => outQueue'[v] # << >>
  PROVE  DataInv'
<1>1. Apart'
  BY DEF DataInv, Apart, socketVars
<1>2. ASSUME NEW s \in peeked' PROVE outQueue'[link'[s]] # << >> \/ link'[s] \in shared'
  <2>1. s \in Sockets /\ s \in peeked /\ link'[s] = link[s] /\ shared' = shared /\ link[s] \in Servers
    BY <1>2 DEF TypeInv, LinkInv, socketVars
  <2>2. outQueue[link[s]] # << >> \/ link[s] \in shared
    BY <2>1 DEF DataInv, DataStays
  <2> QED
    BY <2>1, <2>2
<1> QED
  BY <1>1, <1>2 DEF DataInv, DataStays

LEMMA NextData == TypeInv /\ DataInv /\ [Next]_vars => DataInv'
<1> SUFFICES ASSUME TypeInv, DataInv, [Next]_vars PROVE DataInv'
  OBVIOUS
<1>1. LinkInv /\ Apart /\ DataStays
  BY DEF TypeInv, DataInv
<1>2. CASE UNCHANGED <<socketVars, outQueue>>
  BY <1>2, QueuesGrow
<1>3. ASSUME NEW s \in Sockets, NEW v \in Talks[s], Connect(s, v) PROVE DataInv'
  <2>1. /\ s \notin peeked /\ link' = [link EXCEPT ![s] = v] /\ v \in Servers
        /\ shared' = IF Linked(v) = {} THEN shared ELSE shared \cup {v}
        /\ peeked' = peeked /\ outQueue' = outQueue
    BY <1>3, DemonwareAssumption DEF Connect
  <2>2. ASSUME NEW t \in Sockets, NEW u \in Sockets, t # u, link'[t] = link'[u]
        PROVE  link'[t] \in shared' \cup {NoServer}
    <3>1. CASE t # s /\ u # s
      BY <1>1, <2>1, <2>2, <3>1 DEF LinkInv, Apart
    <3>2. CASE t = s \/ u = s
      <4>1. link'[t] = v /\ Linked(v) # {}
        BY <1>1, <2>1, <2>2, <3>2 DEF LinkInv, Linked
      <4> QED
        BY <2>1, <4>1
    <3> QED
      BY <3>1, <3>2
  <2>3. ASSUME NEW t \in peeked' PROVE outQueue'[link'[t]] # << >> \/ link'[t] \in shared'
    <3>1. t \in peeked /\ t # s /\ t \in Sockets
      BY <1>1, <2>1, <2>3 DEF LinkInv
    <3>2. link'[t] = link[t]
      BY <1>1, <2>1, <3>1 DEF LinkInv
    <3> QED
      BY <1>1, <2>1, <3>1, <3>2 DEF DataStays
  <2> QED
    BY <2>2, <2>3 DEF DataInv, Apart, DataStays
<1>4. ASSUME NEW s \in Sockets, Closesocket(s) PROVE DataInv'
  <2>1. /\ s \notin peeked /\ link' = [link EXCEPT ![s] = NoServer]
        /\ UNCHANGED <<peeked, shared, outQueue>>
    BY <1>4 DEF Closesocket
  <2>2. Apart'
    <3> SUFFICES ASSUME NEW t \in Sockets, NEW u \in Sockets, t # u, link'[t] = link'[u]
                 PROVE  link'[t] \in shared' \cup {NoServer}
      BY DEF Apart
    <3>1. CASE t # s /\ u # s
      BY <1>1, <2>1, <3>1 DEF LinkInv, Apart
    <3>2. CASE t = s \/ u = s
      BY <1>1, <2>1, <3>2 DEF LinkInv
    <3> QED
      BY <3>1, <3>2
  <2>3. ASSUME NEW t \in peeked' PROVE outQueue'[link'[t]] # << >> \/ link'[t] \in shared'
    <3>1. t \in peeked /\ link'[t] = link[t]
      BY <1>1, <2>1, <2>3 DEF LinkInv
    <3> QED
      BY <1>1, <2>1, <3>1 DEF DataStays
  <2> QED
    BY <2>2, <2>3 DEF DataInv, DataStays
<1>5. ASSUME NEW s \in Sockets, PendingData(s) PROVE DataInv'
  <2>1. outQueue[link[s]] # << >> /\ peeked' = peeked \cup {s} /\ UNCHANGED <<link, shared, outQueue>>
    BY <1>5 DEF PendingData
  <2> QED
    BY <1>1, <2>1 DEF DataInv, Apart, DataStays
<1>6. ASSUME NEW s \in Sockets, NEW n \in ReadSizes, HandleOutput(s, n) PROVE DataInv'
  <2>1. /\ s \in peeked /\ peeked' = peeked \ {s} /\ UNCHANGED <<link, shared>>
        /\ \A v \in Servers : v # link[s] => outQueue'[v] = outQueue[v]
    BY <1>6 DEF HandleOutput, TypeInv, OutInv
  <2>2. Apart'
    BY <1>1, <2>1 DEF Apart
  <2>3. ASSUME NEW t \in peeked' PROVE outQueue'[link'[t]] # << >> \/ link'[t] \in shared'
    <3>1. t \in peeked /\ t # s /\ link'[t] = link[t] /\ link[t] \in Servers
          /\ s \in Sockets /\ t \in Sockets
      BY <1>1, <2>1, <2>3 DEF LinkInv
    <3>2. CASE link[t] = link[s]
      BY <1>1, <2>1, <3>1, <3>2, DemonwareAssumption DEF Apart
    <3>3. CASE link[t] # link[s]
      BY <1>1, <2>1, <3>1, <3>3 DEF DataStays
    <3> QED
      BY <3>2, <3>3
  <2> QED
    BY <2>2, <2>3 DEF DataInv, DataStays
<1>7. CASE Handle
  <2>1. UNCHANGED socketVars
    BY <1>7 DEF Handle
  <2> QED
    BY <1>7, <2>1, HandleTyped, QueuesGrow
<1>8. ASSUME NEW s \in Sockets, NEW kind \in LobbyKinds \cup AuthKinds, Send(s, kind) PROVE DataInv'
  BY <1>2, <1>8 DEF Send
<1>9. CASE ServerMain \/ (\E v \in Servers : Frame(v)) \/ NextPacket \/ PreDestroy
  BY <1>2, <1>9 DEF ServerMain, Frame, NextPacket, PreDestroy
<1>10. CASE UNCHANGED vars
  BY <1>2, <1>10 DEF vars
<1> QED
  BY <1>3, <1>4, <1>5, <1>6, <1>7, <1>8, <1>9, <1>10 DEF Next, ServerThread

(* A recv that saw data gets some, whatever the server thread and the other *)
(* sockets do in between, as long as no two sockets are linked to the same  *)
(* server.                                                                  *)
THEOREM SeenDataStays == Spec => []DataStays
<1>1. TypeInv /\ DataInv => DataStays
  BY DEF DataInv
<1> QED
  BY <1>1, InitTyped, NextTyped, InitData, NextData, PTL DEF Spec

-----------------------------------------------------------------------------
(* Why the servers keep their streams: what was heard and what is queued    *)
(* are the replies to all packets served, and the counters of the lobby are *)
(* what those replies say they are.                                         *)
KindInv == \A v \in Servers : \A i \in 1..Len(asked[v]) : asked[v][i].kind \in Kinds[v]

SaidInv == \A v \in Servers : heard[v] \o outQueue[v] = Stream(asked[v], Served(v))

LobbyAt(k) ==
  LET a == asked["lobby"] IN
  /\ packetBuffer = Handshakes(a, k) /\ key = Handshakes(a, LastAuth(a, k))
  /\ msgCount = Len(Sent(a, k)) /\ transactionId = RepliesIn(Sent(a, k), msgCount)

StreamInv == KindInv /\ SaidInv /\ LobbyAt(Served("lobby"))

Messages == {"reply", "push", "message"}

LEMMA SendsFacts ==
  ASSUME NEW kind
  PROVE  Sends(kind) \in Seq(Messages)
<1>1. /\ <<"reply">> \in Seq(Messages) /\ <<"push", "reply">> \in Seq(Messages)
      /\ <<"message">> \in Seq(Messages) /\ << >> \in Seq(Messages)
  BY DEF Messages
<1> QED
  BY <1>1 DEF Sends

(* A list that is made by joining one for each request, and the next one.   *)
Over(e, k) == FlattenSeq([i \in 1..k |-> e[i]])

LEMMA JoinedOver ==
  ASSUME NEW S, NEW e, NEW n \in Nat, NEW k \in 0..n, \A i \in 1..n : e[i] \in Seq(S)
  PROVE  /\ Over(e, k) \in Seq(S)
         /\ k = 0 => Over(e, k) = << >>
         /\ k < n => Over(e, k + 1) =
                       Over(e, k) \o e[k + 1]
<1> DEFINE s(m) == [i \in 1..m |-> e[i]]
<1>1. ASSUME NEW m \in Nat, m <= n
      PROVE  s(m) \in Seq(Seq(S)) /\ Len(s(m)) = m /\ \A i \in 1..m : s(m)[i] = e[i]
  <2>1. \A i \in 1..m : e[i] \in Seq(S)
    BY <1>1
  <2> QED
    BY <1>1, <2>1
<1>2. s(k) \in Seq(Seq(S)) /\ (k = 0 => s(k) = << >>) /\ Len(s(k)) = k
  <2>1. k \in Nat /\ k <= n
    OBVIOUS
  <2>2. s(k) \in Seq(Seq(S)) /\ Len(s(k)) = k
    BY <1>1, <2>1
  <2> QED
    BY <2>2
<1>3. ASSUME k < n PROVE FlattenSeq(s(k + 1)) = FlattenSeq(s(k)) \o e[k + 1]
  <2> DEFINE t == s(k + 1)
  <2>1. k + 1 \in Nat /\ k + 1 <= n /\ k + 1 \in 1..(k + 1) /\ k \in Nat /\ k <= n
    BY <1>3
  <2>2. t \in Seq(Seq(S)) /\ Len(t) = k + 1 /\ t[Len(t)] = e[k + 1]
    BY <1>1, <2>1
  <2>3. \A i \in 1..Len(s(k)) : t[i] = s(k)[i]
    <3>1. \A i \in 1..k : i \in 1..(k + 1)
      BY <2>1
    <3>2. \A i \in 1..k : t[i] = e[i] /\ s(k)[i] = e[i]
      BY <1>1, <2>1, <3>1
    <3> QED
      BY <1>2, <3>2
  <2> HIDE DEF s, t
  <2>4. FlattenSeq(t) = FlattenSeq(s(k)) \o t[Len(t)]
    BY <1>2, <2>2, <2>3, Flattening
  <2> QED
    BY <2>2, <2>4 DEF t
<1>4. FlattenSeq(s(k)) \in Seq(S) /\ (k = 0 => FlattenSeq(s(k)) = << >>)
  <2> HIDE DEF s
  <2> QED
    BY <1>2, Flattening
<1> QED
  BY <1>3, <1>4 DEF Over

LEMMA HandshakesGrow ==
  ASSUME NEW a \in Seq(Packets), NEW k \in 0..Len(a)
  PROVE  /\ Handshakes(a, k) \in Seq(Packets)
         /\ k = 0 => Handshakes(a, k) = << >>
         /\ k < Len(a) =>
              Handshakes(a, k + 1) =
                Handshakes(a, k) \o (IF IsHandshake(a[k + 1]) THEN <<a[k + 1]>> ELSE << >>)
<1> DEFINE n == Len(a)
           e == [i \in 1..n |-> IF IsHandshake(a[i]) THEN <<a[i]>> ELSE << >>]
<1>1. n \in Nat /\ \A i \in 1..n : a[i] \in Packets
  OBVIOUS
<1>2. ASSUME NEW i \in 1..n PROVE e[i] \in Seq(Packets)
  BY <1>1
<1>3. ASSUME NEW m \in 0..n
      PROVE  Handshakes(a, m) = Over(e, m)
  <2>1. \A i \in 1..m : e[i] = IF IsHandshake(a[i]) THEN <<a[i]>> ELSE << >>
    BY <1>1, <1>3
  <2> HIDE DEF e
  <2>2. [i \in 1..m |-> e[i]] = [i \in 1..m |-> IF IsHandshake(a[i]) THEN <<a[i]>> ELSE << >>]
    BY <2>1
  <2> QED
    BY <2>2 DEF Handshakes, Over
<1>4. k < n => k + 1 \in 0..n /\ k + 1 \in 1..n
  BY <1>1
<1>5. k < n => e[k + 1] = IF IsHandshake(a[k + 1]) THEN <<a[k + 1]>> ELSE << >>
  BY <1>4
<1> HIDE DEF e
<1>6. /\ Over(e, k) \in Seq(Packets)
      /\ k = 0 => Over(e, k) = << >>
      /\ k < n => Over(e, k + 1) =
                    Over(e, k) \o e[k + 1]
  BY <1>1, <1>2, JoinedOver
<1> QED
  BY <1>3, <1>4, <1>5, <1>6

LEMMA SentGrows ==
  ASSUME NEW a \in Seq(Packets), NEW k \in 0..Len(a)
  PROVE  /\ Sent(a, k) \in Seq(Messages)
         /\ k = 0 => Sent(a, k) = << >>
         /\ k < Len(a) => Sent(a, k + 1) = Sent(a, k) \o Sends(a[k + 1].kind)
<1> DEFINE n == Len(a)
           e == [i \in 1..n |-> Sends(a[i].kind)]
<1>1. n \in Nat
  OBVIOUS
<1>2. \A i \in 1..n : e[i] \in Seq(Messages)
  BY SendsFacts
<1>3. ASSUME NEW m \in 0..n
      PROVE  Sent(a, m) = Over(e, m)
  <2>1. [i \in 1..m |-> e[i]] = [i \in 1..m |-> Sends(a[i].kind)]
    BY <1>1
  <2> QED
    BY <2>1 DEF Sent, Over
<1>4. k < n => k + 1 \in 0..n /\ e[k + 1] = Sends(a[k + 1].kind)
  BY <1>1
<1> HIDE DEF e
<1>5. /\ Over(e, k) \in Seq(Messages)
      /\ k = 0 => Over(e, k) = << >>
      /\ k < n => Over(e, k + 1) =
                    Over(e, k) \o e[k + 1]
  BY <1>1, <1>2, JoinedOver
<1> QED
  BY <1>3, <1>4, <1>5

LEMMA LastAuthFacts ==
  ASSUME NEW a \in Seq(Packets), NEW k \in 0..Len(a)
  PROVE  /\ LastAuth(a, k) \in 0..k
         /\ k < Len(a) => LastAuth(a, k + 1) = IF a[k + 1].kind = "auth" THEN k + 1
                                               ELSE LastAuth(a, k)
<1> DEFINE auths(m) == {0} \cup {i \in 1..m : a[i].kind = "auth"}
<1>1. Len(a) \in Nat
  OBVIOUS
<1>2. ASSUME NEW m \in Nat
      PROVE  LastAuth(a, m + 1) = IF a[m + 1].kind = "auth" THEN m + 1 ELSE LastAuth(a, m)
  <2>1. CASE a[m + 1].kind = "auth"
    <3>1. m + 1 \in auths(m + 1) /\ \A y \in auths(m + 1) : y \in Nat /\ y <= m + 1
      BY <2>1
    <3> HIDE DEF auths
    <3>2. \A x \in auths(m + 1) : (\A y \in auths(m + 1) : x >= y) <=> x = m + 1
      BY <3>1
    <3>3. Max(auths(m + 1)) = m + 1
      BY <3>1, <3>2 DEF Max
    <3> QED
      BY <2>1, <3>3 DEF LastAuth, auths
  <2>2. CASE a[m + 1].kind # "auth"
    <3>1. \A i \in 1..(m + 1) : i \in 1..m \/ i = m + 1
      OBVIOUS
    <3>2. auths(m + 1) = auths(m)
      BY <2>2, <3>1
    <3> QED
      BY <2>2, <3>2 DEF LastAuth
  <2> QED
    BY <2>1, <2>2
<1> DEFINE T == {m \in Nat : LastAuth(a, m) \in 0..m}
<1>3. 0 \in T
  <2>1. auths(0) = {0}
    OBVIOUS
  <2>2. \A x \in {0} : (\A y \in {0} : x >= y) <=> x = 0
    OBVIOUS
  <2>3. Max({0}) = 0
    BY <2>2 DEF Max
  <2> QED
    BY <2>1, <2>3 DEF LastAuth
<1>4. ASSUME NEW m \in Nat, m \in T PROVE m + 1 \in T
  <2>1. LastAuth(a, m) \in 0..m
    BY <1>4
  <2>2. LastAuth(a, m + 1) = m + 1 \/ LastAuth(a, m + 1) = LastAuth(a, m)
    BY <1>2
  <2>3. LastAuth(a, m + 1) \in 0..(m + 1)
    BY <2>1, <2>2
  <2> QED
    BY <2>3
<1> HIDE DEF T
<1>5. \A m \in Nat : m \in T
  BY <1>3, <1>4, Induction
<1> QED
  BY <1>1, <1>2, <1>5 DEF T

LEMMA RepliesCounted ==
  ASSUME NEW all, NEW n \in Nat
  PROVE  /\ RepliesIn(all, n) \in Nat /\ RepliesIn(all, 0) = 0
         /\ RepliesIn(all, n + 1) = IF all[n + 1] = "reply" THEN RepliesIn(all, n) + 1
                                    ELSE RepliesIn(all, n)
         /\ \A more : Alike(all, more, n) => RepliesIn(more, n) = RepliesIn(all, n)
<1> DEFINE S(m) == {j \in 1..m : all[j] = "reply"}
<1>1. IsFiniteSet(S(n)) /\ Cardinality(S(n)) \in Nat
  <2>1. IsFiniteSet(1..n)
    BY FS_Interval
  <2>2. S(n) \in SUBSET (1..n)
    OBVIOUS
  <2> HIDE DEF S
  <2> QED
    BY <2>1, <2>2, FS_Subset, FS_CardinalityType
<1>2. S(0) = {} /\ Cardinality({}) = 0
  BY FS_EmptySet
<1>3. \A j \in 1..(n + 1) : j \in 1..n \/ j = n + 1
  OBVIOUS
<1>4. n + 1 \notin S(n)
  OBVIOUS
<1>5. CASE all[n + 1] = "reply"
  <2>1. S(n + 1) = S(n) \cup {n + 1}
    BY <1>3, <1>5
  <2> HIDE DEF S
  <2>2. Cardinality(S(n + 1)) = Cardinality(S(n)) + 1
    BY <1>1, <1>4, <2>1, FS_AddElement
  <2>3. \A more : Alike(all, more, n) => {j \in 1..n : more[j] = "reply"} = S(n)
    BY DEF Alike, S
  <2> QED
    BY <1>1, <1>2, <1>5, <2>2, <2>3 DEF RepliesIn, S
<1>6. CASE all[n + 1] # "reply"
  <2>1. S(n + 1) = S(n)
    BY <1>3, <1>6
  <2>2. \A more : Alike(all, more, n) => {j \in 1..n : more[j] = "reply"} = S(n)
    BY DEF Alike
  <2> QED
    BY <1>1, <1>2, <1>6, <2>1, <2>2 DEF RepliesIn
<1> QED
  BY <1>5, <1>6

(* All the numbers of a reply are numbers.                                  *)
LEMMA RepliesTyped ==
  ASSUME NEW a \in Seq(Packets), NEW k \in 1..Len(a)
  PROVE  Replies(a, k) \in Seq(Answers)
<1> DEFINE kind == a[k].kind  out == Sends(kind)  all == Sent(a, k)  m == Len(Sent(a, k - 1))
<1>1. k - 1 \in 0..Len(a) /\ k \in 0..Len(a) /\ k - 1 < Len(a) /\ (k - 1) + 1 = k
  OBVIOUS
<1>2. Handshakes(a, k) \in Seq(Packets) /\ Handshakes(a, LastAuth(a, k)) \in Seq(Packets)
  <2>1. LastAuth(a, k) \in 0..Len(a)
    BY <1>1, LastAuthFacts
  <2> QED
    BY <1>1, <2>1, HandshakesGrow
<1>3. CASE kind \in {"zero", "header", "json"}
  <2>1. [kind |-> kind] \in Answers
    BY <1>3 DEF Answers
  <2>2. Replies(a, k) = <<[kind |-> kind]>>
    BY <1>3 DEF Replies
  <2> QED
    BY <2>1, <2>2
<1>4. CASE kind = "auth"
  <2>1. [kind |-> "auth", response |-> Handshakes(a, k)] \in Answers
    BY <1>2 DEF Answers
  <2>2. Replies(a, k) = <<[kind |-> "auth", response |-> Handshakes(a, k)]>>
    BY <1>4 DEF Replies
  <2> QED
    BY <2>1, <2>2
<1>5. CASE kind \notin {"zero", "header", "json", "auth"}
  <2>1. Replies(a, k) = [i \in 1..Len(out) |-> Number(a, k, m + i)]
    BY <1>5 DEF Replies
  <2>2. /\ out \in Seq(Messages) /\ Sent(a, k - 1) \in Seq(Messages)
        /\ all = Sent(a, k - 1) \o out
    <3>1. Sent(a, (k - 1) + 1) = Sent(a, k - 1) \o Sends(a[(k - 1) + 1].kind)
      BY <1>1, SentGrows
    <3> QED
      BY <1>1, <3>1, SendsFacts, SentGrows
  <2> HIDE DEF out, all
  <2>3. /\ all \in Seq(Messages) /\ Len(all) = m + Len(out) /\ m \in Nat /\ Len(out) \in Nat
    BY <2>2, ConcatProperties
  <2>4. ASSUME NEW i \in 1..Len(out) PROVE Number(a, k, m + i) \in Answers
    <3> DEFINE j == m + i  t == IF all[j] = "reply" THEN RepliesIn(all, j) ELSE 0
    <3>1. j \in Nat /\ j \in 1..Len(all)
      BY <2>3
    <3>2. all[j] \in Messages /\ t \in Nat
      BY <2>3, <3>1, RepliesCounted
    <3>3. Number(a, k, j) = [kind |-> all[j], key |-> Handshakes(a, LastAuth(a, k)),
                             count |-> j, transaction |-> t]
      BY DEF Number, all
    <3> HIDE DEF t, j
    <3> QED
      BY <1>2, <3>1, <3>2, <3>3 DEF Answers, Messages, j
  <2> HIDE DEF m
  <2>5. [i \in 1..Len(out) |-> Number(a, k, m + i)] \in Seq(Answers)
    BY <2>3, <2>4
  <2> QED
    BY <2>1, <2>5
<1> QED
  BY <1>3, <1>4, <1>5

LEMMA StreamGrows ==
  ASSUME NEW a \in Seq(Packets), NEW k \in 0..Len(a)
  PROVE  /\ Stream(a, k) \in Seq(Byte)
         /\ k = 0 => Stream(a, k) = << >>
         /\ k < Len(a) => Stream(a, k + 1) = Stream(a, k) \o Bytes(Replies(a, k + 1))
<1> DEFINE n == Len(a)
           e == [i \in 1..n |-> Bytes(Replies(a, i))]
<1>1. n \in Nat
  OBVIOUS
<1>2. \A i \in 1..n : e[i] \in Seq(Byte)
  BY RepliesTyped, BytesAreSent
<1>3. ASSUME NEW m \in 0..n
      PROVE  Stream(a, m) = Over(e, m)
  <2>1. [i \in 1..m |-> e[i]] = [i \in 1..m |-> Bytes(Replies(a, i))]
    BY <1>1
  <2> QED
    BY <2>1 DEF Stream, Over
<1>4. k < n => k + 1 \in 0..n /\ e[k + 1] = Bytes(Replies(a, k + 1))
  BY <1>1
<1> HIDE DEF e
<1>5. /\ Over(e, k) \in Seq(Byte)
      /\ k = 0 => Over(e, k) = << >>
      /\ k < n => Over(e, k + 1) = Over(e, k) \o e[k + 1]
  BY <1>1, <1>2, JoinedOver
<1> QED
  BY <1>3, <1>4, <1>5

(* What is asked later changes nothing of what was replied.                 *)
LEMMA RepliesStay ==
  ASSUME NEW a, NEW b, NEW k \in Nat, Alike(a, b, k), LastAuth(a, k) \in 0..k
  PROVE  /\ Handshakes(a, k) = Handshakes(b, k) /\ Sent(a, k) = Sent(b, k)
         /\ LastAuth(a, k) = LastAuth(b, k)
         /\ Handshakes(a, LastAuth(a, k)) = Handshakes(b, LastAuth(b, k))
<1>1. ASSUME NEW j \in 0..k PROVE \A i \in 1..j : a[i] = b[i]
  BY DEF Alike
<1>2. ASSUME NEW j \in 0..k PROVE Handshakes(a, j) = Handshakes(b, j)
  BY <1>1 DEF Handshakes, IsHandshake
<1>3. Sent(a, k) = Sent(b, k)
  <2>1. \A i \in 1..k : Sends(a[i].kind) = Sends(b[i].kind)
    BY DEF Alike
  <2> QED
    BY <2>1 DEF Sent
<1>4. LastAuth(a, k) = LastAuth(b, k)
  <2>1. {i \in 1..k : a[i].kind = "auth"} = {i \in 1..k : b[i].kind = "auth"}
    BY DEF Alike
  <2> QED
    BY <2>1 DEF LastAuth
<1> QED
  BY <1>2, <1>3, <1>4

LEMMA StreamStays ==
  ASSUME NEW a \in Seq(Packets), NEW b, NEW k \in 0..Len(a), Alike(a, b, k)
  PROVE  Stream(a, k) = Stream(b, k)
<1>1. ASSUME NEW i \in 1..k PROVE Replies(a, i) = Replies(b, i)
  <2>1. i \in 0..Len(a) /\ i - 1 \in 0..Len(a) /\ i \in Nat /\ i - 1 \in Nat
    OBVIOUS
  <2>2. LastAuth(a, i) \in 0..i /\ LastAuth(a, i - 1) \in 0..(i - 1)
    BY <2>1, LastAuthFacts
  <2>3. Alike(a, b, i) /\ Alike(a, b, i - 1) /\ a[i] = b[i]
    BY DEF Alike
  <2>4. /\ Handshakes(a, i) = Handshakes(b, i) /\ Sent(a, i) = Sent(b, i)
        /\ Handshakes(a, LastAuth(a, i)) = Handshakes(b, LastAuth(b, i))
        /\ Sent(a, i - 1) = Sent(b, i - 1)
    BY <2>1, <2>2, <2>3, RepliesStay
  <2>5. \A j : Number(a, i, j) = Number(b, i, j)
    BY <2>4 DEF Number
  <2> QED
    BY <2>3, <2>4, <2>5 DEF Replies
<1>2. [i \in 1..k |-> Bytes(Replies(a, i))] = [i \in 1..k |-> Bytes(Replies(b, i))]
  BY <1>1
<1> QED
  BY <1>2 DEF Stream

-----------------------------------------------------------------------------
(* What a step is to one server.                                            *)
Rests(v) ==
  /\ UNCHANGED <<asked[v], outQueue[v], heard[v], Served(v)>>
  /\ serverThread' \in {serverThread, "done"}
  /\ v = "lobby" => UNCHANGED lobbyVars
Asks(v) ==
  /\ \E m \in Packets : m.kind \in Kinds[v] /\ asked'[v] = Append(asked[v], m)
  /\ UNCHANGED <<outQueue[v], heard[v], Served(v), serverThread, lobbyVars>>
Hears(v) ==
  /\ \E n \in 0..Len(outQueue[v]) :
       /\ heard'[v] = heard[v] \o SubSeq(outQueue[v], 1, n)
       /\ outQueue'[v] = SubSeq(outQueue[v], n + 1, Len(outQueue[v]))
  /\ UNCHANGED <<asked[v], Served(v), serverThread, lobbyVars>>
Serves(v) ==
  /\ draining = v /\ serverThread = "running"
  /\ Served(v) < Len(asked[v]) /\ Served(v)' = Served(v) + 1
  /\ outQueue'[v] = outQueue[v] \o Bytes(Replies(asked[v], Served(v) + 1))
  /\ UNCHANGED <<asked[v], heard[v], serverThread>>
  /\ v = "lobby" => LobbyAt(Served(v))'

LEMMA ServedFacts ==
  ASSUME TypeInv, NEW v \in Servers
  PROVE  /\ asked[v] \in Seq(Packets) /\ Len(asked[v]) \in Nat
         /\ Served(v) \in 0..Len(asked[v])
         /\ draining = v /\ packet # NoMessage =>
              Served(v) < Len(asked[v]) /\ packet = asked[v][Served(v) + 1]
<1>1. asked[v] \in Seq(Packets) /\ inQueue[v] \in Seq(Packets) /\ Waiting(v, packet)
  BY DEF TypeInv, InInv, InTurn
<1>2. Len(asked[v]) \in Nat /\ Len(inQueue[v]) \in Nat
  BY <1>1
<1>3. CASE draining = v /\ packet # NoMessage
  <2>4. InService(v) = 1
    BY <1>3 DEF InService
  <2>1. Served(v) = Len(asked[v]) - Len(inQueue[v]) - 1
    BY <2>4 DEF Served
  <2>2. /\ Len(asked[v]) - Len(inQueue[v]) > 0
        /\ packet = asked[v][Len(asked[v]) - Len(inQueue[v])]
    BY <1>1, <1>3 DEF Waiting
  <2>3. Served(v) + 1 = Len(asked[v]) - Len(inQueue[v])
    BY <1>2, <2>1
  <2> QED
    <3>1. Served(v) \in 0..Len(asked[v]) /\ Served(v) < Len(asked[v])
      <4> DEFINE x == Len(asked[v])  y == Len(inQueue[v])  z == Served(v)
      <4>1. x \in Nat /\ y \in Nat
        BY <1>2
      <4>2. z = x - y - 1
        BY <2>1
      <4>3. x - y > 0
        BY <2>2
      <4> HIDE DEF x, y, z
      <4>4. z \in 0..x /\ z < x
        BY <4>1, <4>2, <4>3
      <4> QED
        BY <4>4 DEF x, z
    <3> QED
      BY <1>1, <1>2, <2>2, <2>3, <3>1
<1>4. CASE ~(draining = v /\ packet # NoMessage)
  <2>1. Served(v) = Len(asked[v]) - Len(inQueue[v])
    <3>1. InService(v) = 0
      BY <1>4 DEF InService
    <3> QED
      BY <1>2, <3>1 DEF Served
  <2>2. Len(asked[v]) - Len(inQueue[v]) \in Nat
    BY <1>1 DEF Waiting
  <2> QED
    <3>1. Served(v) \in 0..Len(asked[v])
      <4> DEFINE x == Len(asked[v])  y == Len(inQueue[v])  z == Served(v)
      <4>1. x \in Nat /\ y \in Nat
        BY <1>2
      <4>2. z = x - y
        BY <2>1
      <4>3. x - y \in Nat
        BY <2>2
      <4> HIDE DEF x, y, z
      <4>4. z \in 0..x
        BY <4>1, <4>2, <4>3
      <4> QED
        BY <4>4 DEF x, z
    <3> QED
      BY <1>1, <1>2, <1>4, <3>1
<1> QED
  BY <1>3, <1>4

LEMMA SendAsks ==
  ASSUME TypeInv, NEW s \in Sockets, NEW kind \in LobbyKinds \cup AuthKinds, Send(s, kind),
         NEW v \in Servers
  PROVE  Rests(v) \/ Asks(v)
<1> DEFINE w == link[s]  m == [kind |-> kind, id |-> Len(asked[w]) + 1]
<1>1. w \in Servers /\ asked[w] \in Seq(Packets) /\ inQueue[w] \in Seq(Packets)
  BY DEF Send, TypeInv, LinkInv, InInv
<1>2. m \in Packets /\ m.kind \in Kinds[w]
  BY <1>1 DEF Send, Packets
<1> HIDE DEF m
<1>3. /\ inQueue' = [inQueue EXCEPT ![w] = Append(inQueue[w], m)]
      /\ asked' = [asked EXCEPT ![w] = Append(asked[w], m)]
      /\ UNCHANGED <<outQueue, heard, draining, packet, serverThread, lobbyVars>>
  BY DEF Send, threadVars, m
<1>4. CASE v # w
  <2>1. asked'[v] = asked[v] /\ inQueue'[v] = inQueue[v]
    BY <1>3, <1>4 DEF TypeInv, InInv
  <2> QED
    BY <1>3, <2>1 DEF Rests, Served, InService
<1>5. CASE v = w
  <2>1. asked'[v] = Append(asked[v], m) /\ inQueue'[v] = Append(inQueue[v], m)
    BY <1>1, <1>3, <1>5 DEF TypeInv, InInv
  <2>2. /\ Len(asked'[v]) = Len(asked[v]) + 1 /\ Len(inQueue'[v]) = Len(inQueue[v]) + 1
        /\ Len(asked[v]) \in Nat /\ Len(inQueue[v]) \in Nat
    <3> HIDE DEF w
    <3>1. asked[v] \in Seq(Packets) /\ inQueue[v] \in Seq(Packets)
      BY <1>1, <1>5
    <3> QED
      BY <1>2, <2>1, <3>1, AppendProperties
  <2>3. InService(v)' = InService(v) /\ InService(v) \in {0, 1}
    BY <1>3 DEF InService
  <2>4. Served(v)' = Served(v)
    <3> DEFINE x == Len(asked[v])  y == Len(inQueue[v])  i == InService(v)
    <3>1. Served(v)' = (x + 1) - (y + 1) - i /\ Served(v) = x - y - i
      BY <2>2, <2>3 DEF Served
    <3>2. x \in Nat /\ y \in Nat /\ i \in Nat
      BY <2>2, <2>3
    <3> HIDE DEF x, y, i
    <3> QED
      BY <3>1, <3>2
  <2> QED
    BY <1>2, <1>3, <1>5, <2>1, <2>4 DEF Asks
<1> QED
  BY <1>4, <1>5

LEMMA OutputHears ==
  ASSUME TypeInv, NEW s \in Sockets, NEW size \in ReadSizes, HandleOutput(s, size),
         NEW v \in Servers
  PROVE  Rests(v) \/ Hears(v)
<1> DEFINE w == link[s]  q == outQueue[w]  n == Shorter(size, q)
<1>1. /\ heard' = [heard EXCEPT ![w] = heard[w] \o SubSeq(q, 1, n)]
      /\ outQueue' = [outQueue EXCEPT ![w] = SubSeq(q, n + 1, Len(q))]
      /\ UNCHANGED <<inQueue, asked, draining, packet, serverThread, lobbyVars>>
  BY DEF HandleOutput, threadVars
<1>2. w \in Servers /\ q \in Seq(Byte) /\ size \in Nat
  BY DemonwareAssumption DEF HandleOutput, TypeInv, LinkInv, OutInv
<1>3. n \in 0..Len(q)
  BY <1>2 DEF Shorter
<1>4. Served(v)' = Served(v)
  BY <1>1 DEF Served, InService
<1> HIDE DEF n
<1>5. CASE v # w
  BY <1>1, <1>4, <1>5 DEF Rests, TypeInv, OutInv
<1>6. CASE v = w
  <2>1. /\ heard'[v] = heard[v] \o SubSeq(outQueue[v], 1, n)
        /\ outQueue'[v] = SubSeq(outQueue[v], n + 1, Len(outQueue[v]))
    BY <1>1, <1>2, <1>6 DEF TypeInv, OutInv
  <2> QED
    BY <1>1, <1>3, <1>4, <1>6, <2>1 DEF Hears
<1> QED
  BY <1>5, <1>6

(* Taking a packet into service leaves it among those not served.           *)
LEMMA PopRests ==
  ASSUME TypeInv, NEW w \in Servers, inQueue[w] # << >>, Pop(w), packet' # NoMessage,
         draining' = w, draining \in {NoServer, w}, draining = NoServer \/ packet = NoMessage,
         UNCHANGED <<asked, outQueue, heard, serverThread, lobbyVars>>, NEW v \in Servers
  PROVE  Rests(v)
<1>1. inQueue' = [inQueue EXCEPT ![w] = Tail(inQueue[w])]
  BY DEF Pop
<1>2. InService(v) = 0
  BY DemonwareAssumption DEF InService
<1>3. CASE v # w
  <2>1. InService(v)' = 0 /\ inQueue'[v] = inQueue[v]
    BY <1>1, <1>3 DEF InService, TypeInv, InInv
  <2> QED
    BY <1>2, <2>1 DEF Rests, Served
<1>4. CASE v = w
  <2>1. InService(v)' = 1
    BY <1>4 DEF InService
  <2>2. inQueue[v] \in Seq(Packets) /\ asked[v] \in Seq(Packets)
    BY DEF TypeInv, InInv
  <2>3. inQueue'[v] = Tail(inQueue[v])
    BY <1>1, <1>4 DEF TypeInv, InInv
  <2>4. Len(inQueue'[v]) = Len(inQueue[v]) - 1 /\ Len(inQueue[v]) \in Nat /\ Len(asked[v]) \in Nat
    BY <1>4, <2>2, <2>3, HeadTailProperties
  <2> QED
    BY <1>2, <2>1, <2>4 DEF Rests, Served
<1> QED
  BY <1>3, <1>4

(* The lobby's replies to the next request, from the state it is in.        *)
LEMMA TaskReplies ==
  ASSUME NEW a \in Seq(Packets), NEW k \in 0..Len(a), k < Len(a), LobbyInv,
         asked["lobby"] = a, LobbyAt(k), NEW i \in 1..Len(Sends(a[k + 1].kind)),
         a[k + 1].kind \in {"task", "reward", "bandwidth"}
  PROVE  Number(a, k + 1, Len(Sent(a, k)) + i) = Encrypted(Sends(a[k + 1].kind)[i], i)
<1> DEFINE out == Sends(a[k + 1].kind)  s == Sent(a, k)  m == Len(s)  all == Sent(a, k + 1)
<1>1. /\ out \in Seq(Messages) /\ s \in Seq(Messages) /\ all = s \o out
      /\ out \in {<<"reply">>, <<"push", "reply">>, <<"message">>}
  BY SendsFacts, SentGrows DEF Sends
<1>2. /\ key = Handshakes(a, LastAuth(a, k)) /\ msgCount = m
      /\ transactionId = RepliesIn(s, m) /\ transactionId \in Nat
  BY DEF LobbyAt, LobbyInv
<1>3. LastAuth(a, k + 1) = LastAuth(a, k)
  BY LastAuthFacts
<1>4. Number(a, k + 1, m + i) =
        [kind |-> all[m + i], key |-> key, count |-> m + i,
         transaction |-> IF all[m + i] = "reply" THEN RepliesIn(all, m + i) ELSE 0]
  BY <1>2, <1>3 DEF Number
<1> HIDE DEF out, s, all
<1>5. /\ m \in Nat /\ all \in Seq(Messages) /\ Len(out) \in Nat
      /\ \A j \in 1..m : all[j] = s[j]
      /\ \A j \in 1..Len(out) : all[m + j] = out[j]
  <2> DEFINE n == Len(out)
  <2>1. /\ m \in Nat /\ n \in Nat /\ all \in Seq(Messages)
        /\ \A j \in 1..(m + n) : all[j] = IF j <= m THEN s[j] ELSE out[j - m]
    BY <1>1, ConcatProperties
  <2> HIDE DEF m, n
  <2>2. \A j \in 1..m : j \in 1..(m + n) /\ j <= m
    BY <2>1
  <2>3. \A j \in 1..n : m + j \in 1..(m + n) /\ ~(m + j <= m) /\ (m + j) - m = j
    BY <2>1
  <2> QED
    BY <2>1, <2>2, <2>3 DEF n
<1>6. RepliesIn(all, m) = transactionId
  <2>1. Alike(s, all, m)
    BY <1>5 DEF Alike
  <2> QED
    BY <1>2, <1>5, <2>1, RepliesCounted
<1>7. i \in 1..Len(out)
  BY DEF out
<1> HIDE DEF m
<1>8. ASSUME all[m + i] = "reply" PROVE RepliesIn(all, m + i) = transactionId + 1
  <2>1. RepliesIn(all, m + 1) = IF all[m + 1] = "reply" THEN transactionId + 1 ELSE transactionId
    BY <1>5, <1>6, RepliesCounted
  <2>2. CASE i = 1
    BY <1>8, <2>1, <2>2
  <2>3. CASE i # 1
    <3>1. i = 2 /\ out[1] = "push" /\ Len(out) = 2
      <4>1. Len(out) = 1 \/ (Len(out) = 2 /\ out[1] = "push")
        BY <1>1
      <4>2. Len(out) # 1
        <5>1. i \in Int /\ 1 <= i /\ i <= Len(out)
          BY <1>5, <1>7
        <5> QED
          BY <1>5, <2>3, <5>1
      <4>3. Len(out) = 2 /\ out[1] = "push"
        BY <4>1, <4>2
      <4>4. i = 2
        BY <1>7, <2>3, <4>3
      <4> QED
        BY <4>3, <4>4
    <3>2. all[m + 1] = "push"
      BY <1>5, <3>1
    <3>3. m + 1 \in Nat /\ (m + 1) + 1 = m + i
      BY <1>5, <3>1
    <3>4. RepliesIn(all, (m + 1) + 1) = RepliesIn(all, m + 1) + 1
      BY <1>8, <3>3, RepliesCounted
    <3> QED
      BY <2>1, <3>2, <3>3, <3>4
  <2> QED
    BY <2>2, <2>3
<1>9. all[m + i] = out[i]
  BY <1>5, <1>7
<1>10. Encrypted(out[i], i) =
        [kind |-> out[i], key |-> key, count |-> m + i,
         transaction |-> IF out[i] = "reply" THEN transactionId + 1 ELSE 0]
  BY <1>2 DEF Encrypted
<1>11. Number(a, k + 1, m + i) = Encrypted(out[i], i)
  BY <1>4, <1>8, <1>9, <1>10
<1> QED
  BY <1>11 DEF m, s, out

(* ... and its counters afterwards.                                         *)
LEMMA TaskCounted ==
  ASSUME NEW a \in Seq(Packets), NEW k \in 0..Len(a), k < Len(a), LobbyInv,
         asked["lobby"] = a, LobbyAt(k)
  PROVE  /\ Len(Sent(a, k + 1)) = msgCount + Len(Sends(a[k + 1].kind))
         /\ RepliesIn(Sent(a, k + 1), Len(Sent(a, k + 1))) =
              IF a[k + 1].kind \in {"task", "reward"} THEN transactionId + 1 ELSE transactionId
<1> DEFINE out == Sends(a[k + 1].kind)  s == Sent(a, k)  m == Len(s)  all == Sent(a, k + 1)
<1>1. /\ out \in Seq(Messages) /\ s \in Seq(Messages) /\ all = s \o out
      /\ a[k + 1].kind \in {"task"} => out = <<"reply">>
      /\ a[k + 1].kind \in {"reward"} => out = <<"push", "reply">>
      /\ a[k + 1].kind \notin {"task", "reward"} => out \in {<<"message">>, << >>}
  BY SendsFacts, SentGrows DEF Sends
<1>2. msgCount = m /\ transactionId = RepliesIn(s, m)
  BY DEF LobbyAt
<1> HIDE DEF out, s, all
<1>3. /\ m \in Nat /\ Len(all) = m + Len(out) /\ Len(out) \in Nat
      /\ \A j \in 1..m : all[j] = s[j]
      /\ \A j \in 1..Len(out) : all[m + j] = out[j]
  <2> DEFINE n == Len(out)
  <2>1. /\ m \in Nat /\ n \in Nat /\ Len(all) = m + n
        /\ \A j \in 1..(m + n) : all[j] = IF j <= m THEN s[j] ELSE out[j - m]
    BY <1>1, ConcatProperties
  <2> HIDE DEF m, n
  <2>2. \A j \in 1..m : j \in 1..(m + n) /\ j <= m
    BY <2>1
  <2>3. \A j \in 1..n : m + j \in 1..(m + n) /\ ~(m + j <= m) /\ (m + j) - m = j
    BY <2>1
  <2> QED
    BY <2>1, <2>2, <2>3 DEF n
<1>4. RepliesIn(all, m) = transactionId
  <2>1. Alike(s, all, m)
    BY <1>3 DEF Alike
  <2> QED
    BY <1>2, <1>3, <2>1, RepliesCounted
<1> HIDE DEF m
<1>5. RepliesIn(all, m + 1) = IF all[m + 1] = "reply" THEN transactionId + 1 ELSE transactionId
  BY <1>3, <1>4, RepliesCounted
<1>6. RepliesIn(all, Len(all)) =
        IF a[k + 1].kind \in {"task", "reward"} THEN transactionId + 1 ELSE transactionId
  <2>1. CASE out = << >>
    BY <1>1, <1>3, <1>4, <2>1
  <2>2. CASE out = <<"reply">>
    <3>1. Len(all) = m + 1 /\ all[m + 1] = "reply"
      BY <1>3, <2>2
    <3>2. a[k + 1].kind \in {"task", "reward"}
      BY <1>1, <2>2
    <3> QED
      BY <1>5, <3>1, <3>2
  <2>3. CASE out = <<"message">>
    <3>1. Len(all) = m + 1 /\ all[m + 1] = "message"
      BY <1>3, <2>3
    <3>2. a[k + 1].kind \notin {"task", "reward"}
      BY <1>1, <2>3
    <3> QED
      BY <1>5, <3>1, <3>2
  <2>4. CASE out = <<"push", "reply">>
    <3>1. /\ Len(all) = (m + 1) + 1 /\ all[m + 1] = "push" /\ all[(m + 1) + 1] = "reply"
          /\ m + 1 \in Nat
      <4>1. Len(out) = 2 /\ out[1] = "push" /\ out[2] = "reply"
        BY <2>4
      <4>2. m + 2 = (m + 1) + 1
        BY <1>3
      <4> QED
        BY <1>3, <4>1, <4>2
    <3>2. RepliesIn(all, (m + 1) + 1) = RepliesIn(all, m + 1) + 1
      BY <3>1, RepliesCounted
    <3>3. a[k + 1].kind \in {"task", "reward"}
      BY <1>1, <2>4
    <3> QED
      BY <1>5, <3>1, <3>2, <3>3
  <2> QED
    BY <1>1, <2>1, <2>2, <2>3, <2>4
<1> QED
  BY <1>2, <1>3, <1>6 DEF m, out, all, s

LEMMA OtherReplies ==
  ASSUME NEW a, NEW k \in Nat, a[k + 1].kind \notin {"zero", "header", "json", "auth"}
  PROVE  Replies(a, k + 1) =
           [i \in 1..Len(Sends(a[k + 1].kind)) |-> Number(a, k + 1, Len(Sent(a, k)) + i)]
<1>1. (k + 1) - 1 = k
  OBVIOUS
<1>2. Replies(a, k + 1) = [i \in 1..Len(Sends(a[k + 1].kind)) |->
                              Number(a, k + 1, Len(Sent(a, (k + 1) - 1)) + i)]
  BY DEF Replies
<1> QED
  BY <1>1, <1>2

(* Handling a packet is serving it: the bytes queued are those of the reply *)
(* that the abstract stream has for it.                                     *)
LEMMA HandleServes ==
  ASSUME TypeInv, TypeInv', StreamInv, Handle, NEW v \in Servers
  PROVE  Rests(v) \/ Serves(v)
<1> DEFINE d == draining  a == asked[d]  k == Served(d)  kind == a[k + 1].kind
           rs == Replies(a, k + 1)
<1>1. /\ d \in Servers /\ packet # NoMessage /\ packet' = NoMessage /\ serverThread = "running"
      /\ UNCHANGED <<inQueue, serverThread, draining, asked, heard>>
  BY DemonwareAssumption DEF Handle, TypeInv, ThreadInv
<1>2. /\ a \in Seq(Packets) /\ k \in 0..Len(a) /\ k < Len(a) /\ packet = a[k + 1]
      /\ Len(a) \in Nat
  BY <1>1, ServedFacts
<1>3. kind \in Kinds[d] /\ packet.kind = kind
  <2>1. k + 1 \in 1..Len(a)
    BY <1>2
  <2> QED
    BY <1>1, <1>2, <2>1 DEF StreamInv, KindInv
<1>4. CASE v # d
  <2>1. outQueue'[v] = outQueue[v]
    <3>1. outQueue' = outQueue \/ \E rr : SendReplies(rr)
      BY DEF Handle, HandleRaw, HandleHeader, HandleAuth, HandleTask, HandleQuietly
    <3>2. ASSUME NEW rr, SendReplies(rr) PROVE outQueue'[v] = outQueue[v]
      BY <1>4, <3>2 DEF SendReplies, TypeInv, OutInv
    <3> QED
      BY <3>1, <3>2
  <2>2. v = "lobby" => UNCHANGED lobbyVars
    <3>1. v = "lobby" => packet.kind \in AuthKinds
      BY <1>1, <1>3, <1>4, DemonwareAssumption DEF Servers
    <3> QED
      BY <3>1 DEF Handle, HandleRaw, HandleHeader, HandleAuth, HandleTask, HandleQuietly, AuthKinds
  <2> QED
    BY <1>1, <1>4, <2>1, <2>2 DEF Rests, Served, InService
<1>5. CASE v = d
  <2>1. /\ Served(v)' = Served(v) + 1 /\ Served(v) < Len(asked[v])
        /\ UNCHANGED <<asked[v], heard[v]>>
    <3>1. InService(v) = 1 /\ InService(v)' = 0
      BY <1>1, <1>5 DEF InService
    <3> DEFINE x == Len(asked[v])  y == Len(inQueue[v])
    <3>2. Served(v) = x - y - 1 /\ Served(v)' = x - y - 0 /\ x \in Nat /\ y \in Nat
      BY <1>1, <3>1 DEF Served, TypeInv, InInv
    <3> HIDE DEF x, y
    <3>3. Served(v)' = Served(v) + 1
      BY <3>2
    <3> QED
      BY <1>1, <1>2, <1>5, <3>3
  <2>2. ASSUME SendReplies(rs) PROVE outQueue'[v] = outQueue[v] \o Bytes(rs)
    <3> HIDE DEF rs
    <3> QED
      BY <1>1, <1>5, <2>2 DEF SendReplies, Bytes, ToBytes, TypeInv, OutInv
  <2>3. ASSUME UNCHANGED outQueue, rs = << >> PROVE outQueue'[v] = outQueue[v] \o Bytes(rs)
    <3>1. Bytes(<< >>) = << >>
      <4>1. << >> \in Seq(Seq(Byte)) /\ [i \in 1..0 |-> [b \in 1..ReplyBytes |-> << << >>[i], b>>]] = << >>
        OBVIOUS
      <4>2. FlattenSeq(<< >>) = << >>
        BY <4>1, Flattening
      <4> QED
        BY <4>1, <4>2 DEF Bytes
    <3>2. outQueue[v] \in Seq(Byte)
      BY DEF TypeInv, OutInv
    <3> HIDE DEF rs
    <3> QED
      BY <2>3, <3>1, <3>2, ConcatEmptySeq
  <2>4. d = "lobby" => LobbyInv /\ asked["lobby"] = a /\ LobbyAt(k)
    BY DEF StreamInv, TypeInv
  <2>5. /\ Handshakes(a, k + 1) = Handshakes(a, k) \o
                 (IF kind \in {"header", "auth"} THEN <<packet>> ELSE << >>)
        /\ Handshakes(a, k) \in Seq(Packets)
        /\ LastAuth(a, k + 1) = IF kind = "auth" THEN k + 1 ELSE LastAuth(a, k)
    BY <1>2, HandshakesGrow, LastAuthFacts DEF IsHandshake
  <2>6. kind \notin {"header", "auth"} => Handshakes(a, k + 1) = Handshakes(a, k)
    BY <2>5, ConcatEmptySeq
  <2>7. kind \in {"header", "auth"} => Handshakes(a, k + 1) = Append(Handshakes(a, k), packet)
    <3>1. packet \in Packets
      BY <1>2
    <3> QED
      BY <2>5, <3>1, AppendIsConcat
  <2>8. d # "lobby" => kind \in AuthKinds
    BY <1>1, <1>3, DemonwareAssumption DEF Servers
  <2>9. d = "lobby" =>
          /\ Len(Sent(a, k + 1)) = msgCount + Len(Sends(kind))
          /\ RepliesIn(Sent(a, k + 1), Len(Sent(a, k + 1))) =
               IF kind \in {"task", "reward"} THEN transactionId + 1 ELSE transactionId
    BY <1>2, <2>4, TaskCounted
  <2>10. /\ kind \notin {"task", "reward", "bandwidth"} => Sends(kind) = << >>
         /\ Len(<< >>) = 0 /\ msgCount \in Nat
    BY DEF Sends, TypeInv, LobbyInv
  <2>11. (d = "lobby" =>
            /\ packetBuffer' = Handshakes(a, k + 1)
            /\ key' = Handshakes(a, LastAuth(a, k + 1))
            /\ msgCount' = Len(Sent(a, k + 1))
            /\ transactionId' = RepliesIn(Sent(a, k + 1), Len(Sent(a, k + 1))))
         => (v = "lobby" => LobbyAt(Served(v))')
    <3>1. asked' = asked /\ Served(v)' = k + 1
      BY <1>1, <1>5, <2>1
    <3> QED
      BY <1>5, <2>1, <3>1 DEF LobbyAt
  <2>13. d = "lobby" => packetBuffer = Handshakes(a, k) /\ key = Handshakes(a, LastAuth(a, k))
    BY <2>4 DEF LobbyAt
  <2>14. d = "lobby" /\ kind \notin {"task", "reward", "bandwidth"} =>
           /\ msgCount = Len(Sent(a, k + 1))
           /\ transactionId = RepliesIn(Sent(a, k + 1), Len(Sent(a, k + 1)))
    BY <2>9, <2>10
  <2>12. /\ outQueue'[v] = outQueue[v] \o Bytes(rs)
         /\ v = "lobby" => LobbyAt(Served(v))'
    <3>1. CASE HandleRaw
      <4>1. /\ kind \in {"zero", "json"} /\ SendReplies(<<[kind |-> kind]>>)
            /\ UNCHANGED <<packetBuffer, key, msgCount, transactionId>>
        BY <1>3, <3>1 DEF HandleRaw, lobbyVars
      <4>2. rs = <<[kind |-> kind]>>
        BY <4>1 DEF Replies
      <4>3. SendReplies(rs)
        BY <4>1, <4>2
      <4> HIDE DEF a, k, kind, rs, d
      <4> QED
        BY <2>2, <2>5, <2>6, <2>11, <2>13, <2>14, <4>1, <4>3
    <3>2. CASE HandleHeader
      <4>1. /\ kind = "header" /\ SendReplies(<<[kind |-> "header"]>>)
            /\ packetBuffer' = Append(packetBuffer, packet)
            /\ UNCHANGED <<key, msgCount, transactionId>>
        BY <1>3, <3>2 DEF HandleHeader
      <4>2. rs = <<[kind |-> "header"]>>
        BY <4>1 DEF Replies
      <4>3. SendReplies(rs)
        BY <4>1, <4>2
      <4> HIDE DEF a, k, kind, rs, d
      <4> QED
        BY <2>2, <2>5, <2>7, <2>11, <2>13, <2>14, <4>1, <4>3
    <3>3. CASE HandleAuth
      <4>1. /\ kind = "auth" /\ SendReplies(<<[kind |-> "auth", response |-> key']>>)
            /\ packetBuffer' = Append(packetBuffer, packet) /\ key' = packetBuffer'
            /\ UNCHANGED <<msgCount, transactionId>>
        BY <1>3, <3>3 DEF HandleAuth
      <4>2. d = "lobby"
        BY <2>8, <4>1 DEF AuthKinds
      <4>3. key' = Handshakes(a, k + 1)
        BY <2>4, <2>7, <4>1, <4>2 DEF LobbyAt
      <4>4. rs = <<[kind |-> "auth", response |-> key']>>
        BY <4>1, <4>3 DEF Replies
      <4>5. SendReplies(rs)
        BY <4>1, <4>4
      <4> HIDE DEF a, k, kind, rs, d
      <4> QED
        BY <2>2, <2>5, <2>11, <2>13, <2>14, <4>1, <4>3, <4>5
    <3>4. CASE HandleTask
      <4> DEFINE out == Outgoing(packet.kind)
      <4>1. /\ kind \in {"task", "reward", "bandwidth"}
            /\ SendReplies([i \in 1..Len(out) |-> Encrypted(out[i], i)])
            /\ msgCount' = msgCount + Len(out)
            /\ transactionId' = IF "reply" \in ToSet(out) THEN transactionId + 1 ELSE transactionId
            /\ UNCHANGED <<packetBuffer, key>>
        BY <1>3, <3>4 DEF HandleTask
      <4>2. out = Sends(kind)
        BY <1>3, <4>1 DEF Outgoing, Sends
      <4>3. d = "lobby"
        BY <2>8, <4>1 DEF AuthKinds
      <4>4. "reply" \in ToSet(out) <=> kind \in {"task", "reward"}
        <5>1. CASE kind \in {"task", "reward"}
          <6>1. out = <<"reply">> \/ out = <<"push", "reply">>
            BY <4>2, <5>1 DEF Sends
          <6> QED
            BY <5>1, <6>1 DEF ToSet
        <5>2. CASE kind = "bandwidth"
          <6>1. out = <<"message">>
            BY <4>2, <5>2 DEF Sends
          <6> QED
            BY <5>2, <6>1 DEF ToSet
        <5> QED
          BY <4>1, <5>1, <5>2
      <4>5. rs = [i \in 1..Len(out) |-> Encrypted(out[i], i)]
        <5>1. k \in Nat /\ kind \notin {"zero", "header", "json", "auth"}
          BY <1>2, <4>1
        <5>2. rs = [i \in 1..Len(Sends(kind)) |-> Number(a, k + 1, Len(Sent(a, k)) + i)]
          BY <5>1, OtherReplies
        <5>3. \A i \in 1..Len(Sends(kind)) :
                Number(a, k + 1, Len(Sent(a, k)) + i) = Encrypted(Sends(kind)[i], i)
          BY <1>2, <2>4, <4>1, <4>3, TaskReplies
        <5> HIDE DEF out
        <5> QED
          BY <4>2, <5>2, <5>3
      <4>6. SendReplies(rs)
        BY <4>1, <4>5
      <4> HIDE DEF out, a, k, kind, rs, d
      <4> QED
        BY <2>2, <2>5, <2>6, <2>9, <2>11, <2>13, <4>1, <4>2, <4>3, <4>4, <4>6
    <3>5. CASE HandleQuietly
      <4>1. /\ kind \in {"post", "unknown", "failing"}
            /\ UNCHANGED <<outQueue, packetBuffer, key, msgCount, transactionId>>
        BY <1>3, <3>5 DEF HandleQuietly, lobbyVars
      <4>2. rs = << >>
        <5>1. Sends(kind) = << >>
          BY <4>1 DEF Sends
        <5>3. k \in Nat /\ kind \notin {"zero", "header", "json", "auth"}
          BY <1>2, <4>1
        <5>2. rs = [i \in 1..Len(Sends(kind)) |-> Number(a, k + 1, Len(Sent(a, k)) + i)]
          BY <5>3, OtherReplies
        <5> QED
          BY <5>1, <5>2
      <4> HIDE DEF a, k, kind, rs, d
      <4> QED
        BY <2>3, <2>5, <2>6, <2>11, <2>13, <2>14, <4>1, <4>2
    <3> QED
      BY <3>1, <3>2, <3>3, <3>4, <3>5 DEF Handle
  <2> QED
    BY <1>1, <1>5, <2>1, <2>12 DEF Serves
<1> QED
  BY <1>4, <1>5

LEMMA StepOfServer ==
  ASSUME TypeInv, TypeInv', StreamInv, [Next]_vars, NEW v \in Servers
  PROVE  Rests(v) \/ Asks(v) \/ Hears(v) \/ Serves(v)
<1>1. ASSUME UNCHANGED <<inQueue, outQueue, draining, packet, lobbyVars, asked, heard>>,
             serverThread' \in {serverThread, "done"}
      PROVE  Rests(v)
  BY <1>1 DEF Rests, Served, InService
<1>2. CASE UNCHANGED vars
  BY <1>1, <1>2 DEF vars, threadVars
<1>3. ASSUME NEW s \in Sockets,
             (\E w \in Talks[s] : Connect(s, w)) \/ Closesocket(s) \/ PendingData(s)
      PROVE  Rests(v)
  BY <1>1, <1>3 DEF Connect, Closesocket, PendingData, threadVars
<1>4. CASE ServerMain \/ PreDestroy
  BY <1>1, <1>4 DEF ServerMain, PreDestroy, threadVars
<1>5. ASSUME NEW w \in Servers, Frame(w) PROVE Rests(v)
  <2>1. CASE inQueue[w] = << >>
    BY <1>1, <1>5, <2>1 DEF Frame
  <2>2. CASE inQueue[w] # << >>
    <3>1. Pop(w) /\ draining' = w /\ draining = NoServer
          /\ UNCHANGED <<asked, outQueue, heard, serverThread, lobbyVars>>
      BY <1>5, <2>2 DEF Frame
    <3>2. packet' # NoMessage
      <4>1. inQueue[w] \in Seq(Packets) /\ packet' = Head(inQueue[w])
        BY <3>1 DEF Pop, TypeInv, InInv
      <4> QED
        BY <2>2, <4>1, HeadTailProperties, DemonwareAssumption
    <3> QED
      BY <2>2, <3>1, <3>2, PopRests
  <2> QED
    BY <2>1, <2>2
<1>6. CASE NextPacket
  <2>1. CASE inQueue[draining] = << >>
    <3>1. /\ packet = NoMessage
          /\ UNCHANGED <<inQueue, outQueue, packet, lobbyVars, asked, heard, serverThread>>
      BY <1>6, <2>1 DEF NextPacket
    <3> QED
      BY <3>1 DEF Rests, Served, InService
  <2>2. CASE inQueue[draining] # << >>
    <3>1. Pop(draining) /\ draining' = draining /\ packet = NoMessage /\ draining \in Servers
          /\ UNCHANGED <<asked, outQueue, heard, serverThread, lobbyVars>>
      BY <1>6, <2>2 DEF NextPacket, TypeInv, ThreadInv
    <3>2. packet' # NoMessage
      <4>1. inQueue[draining] \in Seq(Packets) /\ packet' = Head(inQueue[draining])
        BY <3>1 DEF Pop, TypeInv, InInv
      <4> QED
        BY <2>2, <4>1, HeadTailProperties, DemonwareAssumption
    <3> QED
      BY <2>2, <3>1, <3>2, PopRests
  <2> QED
    BY <2>1, <2>2
<1>7. CASE Handle
  BY <1>7, HandleServes
<1> QED
  BY <1>2, <1>3, <1>4, <1>5, <1>6, <1>7, SendAsks, OutputHears DEF Next, ServerThread

LEMMA InitStream == Init => StreamInv
<1> SUFFICES ASSUME Init PROVE StreamInv
  OBVIOUS
<1>1. \A v \in Servers : asked[v] = << >> /\ heard[v] = << >> /\ outQueue[v] = << >> /\ Served(v) = 0
  BY DEF Init, Served, InService
<1>2. /\ << >> \in Seq(Packets) /\ 0 \in 0..Len(<< >>) /\ << >> \in Seq(Byte) /\ "lobby" \in Servers
  BY DEF Servers
<1>3. SaidInv
  <2>1. Stream(<< >>, 0) = << >>
    BY <1>2, StreamGrows
  <2> QED
    BY <1>1, <1>2, <2>1, ConcatEmptySeq DEF SaidInv
<1>4. KindInv
  BY <1>1 DEF KindInv
<1>5. LobbyAt(0)
  <2>1. Handshakes(<< >>, 0) = << >>
    BY <1>2, HandshakesGrow
  <2>2. Sent(<< >>, 0) = << >>
    BY <1>2, SentGrows
  <2>3. LastAuth(<< >>, 0) = 0
    <3>1. LastAuth(<< >>, 0) \in 0..0
      BY <1>2, LastAuthFacts
    <3> QED
      BY <3>1
  <2>4. RepliesIn(<< >>, 0) = 0
    BY RepliesCounted
  <2> QED
    BY <1>1, <1>2, <2>1, <2>2, <2>3, <2>4 DEF LobbyAt, Init
<1> QED
  BY <1>1, <1>2, <1>3, <1>4, <1>5 DEF StreamInv

(* What is left of it after the step, for one server.                       *)
LEMMA ServerSaid ==
  ASSUME TypeInv, TypeInv', StreamInv, NEW v \in Servers,
         Rests(v) \/ Asks(v) \/ Hears(v) \/ Serves(v)
  PROVE  /\ \A i \in 1..Len(asked'[v]) : asked'[v][i].kind \in Kinds[v]
         /\ heard'[v] \o outQueue'[v] = Stream(asked'[v], Served(v)')
         /\ v = "lobby" => LobbyAt(Served(v))'
<1> DEFINE a == asked[v]  k == Served(v)
<1>1. /\ a \in Seq(Packets) /\ k \in 0..Len(a) /\ Len(a) \in Nat
      /\ \A i \in 1..Len(a) : a[i].kind \in Kinds[v]
      /\ heard[v] \o outQueue[v] = Stream(a, k)
      /\ v = "lobby" => LobbyAt(k)
      /\ heard[v] \in Seq(Byte) /\ outQueue[v] \in Seq(Byte)
  BY ServedFacts DEF StreamInv, KindInv, SaidInv, TypeInv, OutInv
<1>2. ASSUME UNCHANGED <<asked[v], Served(v)>>, v = "lobby" => UNCHANGED lobbyVars
      PROVE  /\ \A i \in 1..Len(asked'[v]) : asked'[v][i].kind \in Kinds[v]
             /\ Stream(asked'[v], Served(v)') = heard[v] \o outQueue[v]
             /\ v = "lobby" => LobbyAt(Served(v))'
  <2>1. v = "lobby" => LobbyAt(Served(v))'
    BY <1>1, <1>2 DEF LobbyAt, lobbyVars
  <2> QED
    BY <1>1, <1>2, <2>1
<1>3. CASE Rests(v)
  BY <1>1, <1>2, <1>3 DEF Rests
<1>4. CASE Asks(v)
  <2>1. PICK m \in Packets : m.kind \in Kinds[v] /\ asked'[v] = Append(a, m)
    BY <1>4 DEF Asks
  <2>2. UNCHANGED <<outQueue[v], heard[v], Served(v), lobbyVars>>
    BY <1>4 DEF Asks
  <2> DEFINE b == Append(a, m)
  <2>3. /\ b \in Seq(Packets) /\ Len(b) = Len(a) + 1
        /\ \A i \in 1..Len(a) : b[i] = a[i]
        /\ b[Len(a) + 1] = m
    BY <1>1, AppendProperties
  <2> HIDE DEF a, k, b
  <2>4. Alike(a, b, k) /\ k \in Nat
    BY <1>1, <2>3 DEF Alike
  <2>5. \A i \in 1..Len(b) : b[i].kind \in Kinds[v]
    <3> SUFFICES ASSUME NEW i \in 1..Len(b) PROVE b[i].kind \in Kinds[v]
      OBVIOUS
    <3>1. i \in 1..Len(a) \/ i = Len(a) + 1
      BY <1>1, <2>3
    <3> QED
      BY <1>1, <2>1, <2>3, <3>1
  <2>6. Stream(a, k) = Stream(b, k)
    BY <1>1, <2>4, StreamStays
  <2>7. /\ Handshakes(a, k) = Handshakes(b, k) /\ Sent(a, k) = Sent(b, k)
        /\ Handshakes(a, LastAuth(a, k)) = Handshakes(b, LastAuth(b, k))
    BY <1>1, <2>4, LastAuthFacts, RepliesStay
  <2>8. asked'[v] = b /\ Served(v)' = k /\ asked[v] = a
    BY <2>1, <2>2 DEF a, b, k
  <2>9. v = "lobby" => LobbyAt(Served(v))'
    <3>1. ASSUME v = "lobby"
          PROVE  /\ packetBuffer = Handshakes(b, k) /\ key = Handshakes(b, LastAuth(b, k))
                 /\ msgCount = Len(Sent(b, k)) /\ transactionId = RepliesIn(Sent(b, k), msgCount)
      BY <1>1, <2>7, <2>8, <3>1 DEF LobbyAt
    <3> QED
      BY <2>2, <2>8, <3>1 DEF LobbyAt, lobbyVars
  <2> QED
    BY <1>1, <2>2, <2>5, <2>6, <2>8, <2>9
<1>5. CASE Hears(v)
  <2>1. /\ UNCHANGED <<asked[v], Served(v), lobbyVars>>
        /\ heard'[v] \o outQueue'[v] = heard[v] \o outQueue[v]
    <3> DEFINE h == heard[v]  q == outQueue[v]
    <3>1. PICK n \in 0..Len(q) :
            heard'[v] = h \o SubSeq(q, 1, n) /\ outQueue'[v] = SubSeq(q, n + 1, Len(q))
      BY <1>5 DEF Hears
    <3> DEFINE x == SubSeq(q, 1, n)  y == SubSeq(q, n + 1, Len(q))
    <3>2. Len(q) \in Nat /\ x \o y = SubSeq(q, 1, Len(q)) /\ SubSeq(q, 1, Len(q)) = q
      <4>1. Len(q) \in Nat
        BY <1>1
      <4>2. 1 \in 1..(Len(q) + 1) /\ n \in (1 - 1)..Len(q) /\ Len(q) \in n..Len(q)
        BY <4>1
      <4> QED
        BY <1>1, <4>1, <4>2, ConcatAdjacentSubSeq, SubSeqFull
    <3>3. x \in Seq(Byte) /\ y \in Seq(Byte)
      <4> HIDE DEF q
      <4>1. q \in Seq(Byte) /\ n \in Int /\ n + 1 \in Int /\ Len(q) \in Int
        BY <1>1, <3>2 DEF q
      <4>2. \A i \in 1..Len(q) : q[i] \in Byte
        BY <4>1
      <4>3. /\ \A i \in 1..n : i \in 1..Len(q)
            /\ \A i \in (n + 1)..Len(q) : i \in 1..Len(q)
        BY <4>1
      <4>4. \A i \in 1..n : q[i] \in Byte
        BY <4>2, <4>3
      <4>5. \A i \in (n + 1)..Len(q) : q[i] \in Byte
        BY <4>2, <4>3
      <4>6. 1 \in Int
        OBVIOUS
      <4> QED
        BY <4>1, <4>4, <4>5, <4>6, SubSeqProperties
    <3> HIDE DEF x, y, h, q
    <3>4. (h \o x) \o y = h \o (x \o y)
      <4>1. h \in Seq(Byte)
        BY <1>1 DEF h
      <4> QED
        BY <3>3, <4>1, ConcatAssociative
    <3>5. heard'[v] = h \o x /\ outQueue'[v] = y
      BY <3>1 DEF x, y
    <3> QED
      BY <1>5, <3>2, <3>4, <3>5 DEF Hears, h, q
  <2> QED
    BY <1>2, <2>1
<1>6. CASE Serves(v)
  <2>1. /\ k < Len(a) /\ Served(v)' = k + 1 /\ asked'[v] = a /\ heard'[v] = heard[v]
        /\ outQueue'[v] = outQueue[v] \o Bytes(Replies(a, k + 1))
        /\ v = "lobby" => LobbyAt(Served(v))'
    BY <1>6 DEF Serves
  <2>2. Bytes(Replies(a, k + 1)) \in Seq(Byte)
    <3>1. k + 1 \in 1..Len(a)
      BY <1>1, <2>1
    <3> QED
      BY <1>1, <3>1, RepliesTyped, BytesAreSent
  <2> DEFINE z == Bytes(Replies(a, k + 1))
  <2> HIDE DEF z
  <2>3. Stream(a, k + 1) = Stream(a, k) \o z
    BY <1>1, <2>1, StreamGrows DEF z
  <2>4. heard[v] \o (outQueue[v] \o z) = (heard[v] \o outQueue[v]) \o z
    <3> DEFINE h == heard[v]  q == outQueue[v]
    <3>1. h \in Seq(Byte) /\ q \in Seq(Byte) /\ z \in Seq(Byte)
      BY <1>1, <2>2 DEF z
    <3> HIDE DEF h, q
    <3>2. h \o (q \o z) = (h \o q) \o z
      BY <3>1, ConcatAssociative
    <3> QED
      BY <3>2 DEF h, q
  <2> QED
    BY <1>1, <2>1, <2>3, <2>4 DEF z
<1> QED
  BY <1>3, <1>4, <1>5, <1>6

LEMMA NextStream == TypeInv /\ TypeInv' /\ StreamInv /\ [Next]_vars => StreamInv'
<1> SUFFICES ASSUME TypeInv, TypeInv', StreamInv, [Next]_vars PROVE StreamInv'
  OBVIOUS
<1>1. ASSUME NEW v \in Servers
      PROVE  /\ \A i \in 1..Len(asked'[v]) : asked'[v][i].kind \in Kinds[v]
             /\ heard'[v] \o outQueue'[v] = Stream(asked'[v], Served(v)')
             /\ v = "lobby" => LobbyAt(Served(v))'
  BY StepOfServer, ServerSaid
<1>2. KindInv' /\ SaidInv'
  BY <1>1 DEF KindInv, SaidInv
<1>3. LobbyAt(Served("lobby"))'
  BY <1>1 DEF Servers
<1> QED
  BY <1>2, <1>3 DEF StreamInv

-----------------------------------------------------------------------------
LEMMA PrefixOfConcat ==
  ASSUME NEW S, NEW s \in Seq(S), NEW t \in Seq(S)
  PROVE  /\ IsPrefix(s, s \o t)
         /\ t # << >> => s \o t # s
<1>1. SubSeq(s \o t, 1, Len(s)) = s /\ SubSeq(s, 1, Len(s)) = s
  <2>1. s \o t \in Seq(S) /\ Len(s) \in Nat /\ Len(t) \in Nat /\ Len(s) <= Len(s \o t)
        /\ \A i \in 1..Len(s) : (s \o t)[i] = s[i]
    BY ConcatProperties
  <2> DEFINE u == s \o t  n == Len(s)
  <2> HIDE DEF u, n
  <2>2. /\ u \in Seq(S) /\ n \in Nat /\ n <= Len(u) /\ 1 \in Int /\ n \in Int
        /\ \A i \in 1..n : u[i] = s[i] /\ s[i] \in S
    BY <2>1 DEF u, n
  <2>3. /\ SubSeq(u, 1, n) \in Seq(S) /\ Len(SubSeq(u, 1, n)) = n
        /\ \A i \in 1..n : SubSeq(u, 1, n)[i] = u[i]
    <3>1. \A i \in 1..n : u[i] \in S
      BY <2>2
    <3>2. /\ SubSeq(u, 1, n) \in Seq(S)
          /\ Len(SubSeq(u, 1, n)) = IF 1 <= n THEN n - 1 + 1 ELSE 0
          /\ \A i \in 1..(n - 1 + 1) : SubSeq(u, 1, n)[i] = u[1 + i - 1]
      BY <2>2, <3>1, SubSeqProperties
    <3>3. n - 1 + 1 = n /\ \A i \in 1..n : 1 + i - 1 = i
      BY <2>2
    <3> QED
      BY <2>2, <3>2, <3>3
  <2>4. SubSeq(u, 1, n) = s
    <3>1. Len(SubSeq(u, 1, n)) = Len(s) /\ \A i \in 1..Len(s) : SubSeq(u, 1, n)[i] = s[i]
      BY <2>2, <2>3 DEF n
    <3> QED
      BY <2>3, <3>1, SeqEqual
  <2> QED
    BY <2>4, SubSeqFull DEF u, n
<1>2. Len(s) <= Len(s \o t)
  BY ConcatProperties
<1> QED
  <2>1. IsPrefix(s, s \o t)
    BY <1>1, <1>2 DEF IsPrefix
  <2> QED
    BY <2>1, ConcatEqualIffEmpty

(* What a step is to one server, as the abstract one sees it.               *)
Promised(v) ==
  \/ /\ UNCHANGED <<asked[v], Served(v), heard[v]>>
     /\ serverThread' \in {serverThread, "done"}
  \/ /\ Len(asked'[v]) = Len(asked[v]) + 1 /\ IsPrefix(asked[v], asked'[v])
     /\ UNCHANGED <<Served(v), heard[v], serverThread>>
  \/ /\ IsStrictPrefix(heard[v], heard'[v])
     /\ IsPrefix(heard'[v], Stream(asked[v], Served(v)))
     /\ UNCHANGED <<asked[v], Served(v), serverThread>>
  \/ /\ serverThread = "running" /\ Served(v) < Len(asked[v]) /\ Served(v)' = Served(v) + 1
     /\ UNCHANGED <<asked[v], heard[v], serverThread>>

LEMMA StepIsPromised ==
  ASSUME TypeInv, TypeInv', StreamInv, StreamInv', [Next]_vars, NEW v \in Servers
  PROVE  Promised(v)
<1>1. CASE Rests(v)
  BY <1>1 DEF Rests, Promised
<1>2. CASE Asks(v)
  <2>1. PICK m \in Packets : asked'[v] = Append(asked[v], m)
    BY <1>2 DEF Asks
  <2> DEFINE a == asked[v]
  <2>2. a \in Seq(Packets) /\ <<m>> \in Seq(Packets)
    BY DEF TypeInv, InInv
  <2> HIDE DEF a
  <2>3. Append(a, m) = a \o <<m>> /\ Len(Append(a, m)) = Len(a) + 1
    BY <2>2, AppendIsConcat, AppendProperties
  <2>4. IsPrefix(a, a \o <<m>>)
    BY <2>2, PrefixOfConcat
  <2>5. /\ Len(asked'[v]) = Len(asked[v]) + 1 /\ IsPrefix(asked[v], asked'[v])
    BY <2>1, <2>3, <2>4 DEF a
  <2> QED
    BY <1>2, <2>5 DEF Asks, Promised
<1>3. CASE Hears(v)
  <2> DEFINE h == heard[v]  q == outQueue[v]
  <2>1. PICK n \in 0..Len(q) : heard'[v] = h \o SubSeq(q, 1, n)
    BY <1>3 DEF Hears
  <2> DEFINE x == SubSeq(q, 1, n)
  <2>2. UNCHANGED <<asked[v], Served(v), serverThread>>
    BY <1>3 DEF Hears
  <2>3. h \in Seq(Byte) /\ q \in Seq(Byte) /\ heard'[v] \in Seq(Byte) /\ outQueue'[v] \in Seq(Byte)
    BY DEF TypeInv, OutInv
  <2>4. x \in Seq(Byte)
    <3> HIDE DEF q
    <3>1. n \in Int /\ 1 \in Int /\ Len(q) \in Nat /\ \A i \in 1..Len(q) : q[i] \in Byte
      BY <2>3
    <3>2. \A i \in 1..n : i \in 1..Len(q)
      BY <3>1
    <3>3. \A i \in 1..n : q[i] \in Byte
      BY <3>1, <3>2
    <3> QED
      BY <3>1, <3>3, SubSeqProperties
  <2>5. heard'[v] \o outQueue'[v] = Stream(asked[v], Served(v))
    BY <2>2 DEF StreamInv, SaidInv
  <2>6. IsPrefix(heard'[v], Stream(asked[v], Served(v)))
    <3> DEFINE hn == heard'[v]  qn == outQueue'[v]
    <3> HIDE DEF hn, qn
    <3>1. IsPrefix(hn, hn \o qn)
      BY <2>3, PrefixOfConcat DEF hn, qn
    <3> QED
      BY <2>5, <3>1 DEF hn, qn
  <2> HIDE DEF x, h
  <2>7. IsPrefix(h, h \o x) /\ (x # << >> => h \o x # h) /\ h \o << >> = h
    BY <2>3, <2>4, PrefixOfConcat, ConcatEmptySeq
  <2>8. heard'[v] = h \o x /\ heard[v] = h
    BY <2>1 DEF x, h
  <2>9. CASE x = << >>
    BY <2>2, <2>7, <2>8, <2>9 DEF Promised
  <2>10. CASE x # << >>
    <3>1. IsStrictPrefix(heard[v], heard'[v])
      BY <2>7, <2>8, <2>10 DEF IsStrictPrefix
    <3> QED
      BY <2>2, <2>6, <3>1 DEF Promised
  <2> QED
    BY <2>9, <2>10
<1>4. CASE Serves(v)
  BY <1>4 DEF Serves, Promised
<1> QED
  BY <1>1, <1>2, <1>3, <1>4, StepOfServer

(* What the abstract servers say of lists and of bytes is what Replies says. *)
LEMMA SameLobbyStream ==
  /\ \A a, k : LobbyStream!Stream(a, k) = Stream(a, k)
  /\ \A s, t : /\ LobbyStream!IsPrefix(s, t) <=> IsPrefix(s, t)
               /\ LobbyStream!IsStrictPrefix(s, t) <=> IsStrictPrefix(s, t)
<1>1. ASSUME NEW s PROVE LobbyStream!FlattenSeq(s) = FlattenSeq(s)
  BY DEF FlattenSeq, LobbyStream!FlattenSeq
<1>2. ASSUME NEW S PROVE LobbyStream!Max(S) = Max(S) /\ LobbyStream!Cardinality(S) = Cardinality(S)
  BY DEF Max, Cardinality, LobbyStream!Max, LobbyStream!Cardinality
<1>3. ASSUME NEW m PROVE LobbyStream!IsHandshake(m) <=> IsHandshake(m)
  BY DEF IsHandshake, LobbyStream!IsHandshake
<1>4. ASSUME NEW kind PROVE LobbyStream!Sends(kind) = Sends(kind)
  BY DEF Sends, LobbyStream!Sends
<1>5. ASSUME NEW a, NEW k
      PROVE  /\ LobbyStream!Handshakes(a, k) = Handshakes(a, k) /\ LobbyStream!Sent(a, k) = Sent(a, k)
             /\ LobbyStream!LastAuth(a, k) = LastAuth(a, k)
  BY <1>1, <1>2, <1>3, <1>4
  DEF Handshakes, Sent, LastAuth, LobbyStream!Handshakes, LobbyStream!Sent, LobbyStream!LastAuth
<1>6. ASSUME NEW all, NEW i PROVE LobbyStream!RepliesIn(all, i) = RepliesIn(all, i)
  BY <1>2 DEF RepliesIn, LobbyStream!RepliesIn
<1>7. ASSUME NEW a, NEW k, NEW i PROVE LobbyStream!Number(a, k, i) = Number(a, k, i)
  BY <1>5, <1>6 DEF Number, LobbyStream!Number
<1>8. ASSUME NEW a, NEW k PROVE LobbyStream!Replies(a, k) = Replies(a, k)
  BY <1>4, <1>5, <1>7 DEF Replies, LobbyStream!Replies
<1>9. ASSUME NEW rs PROVE LobbyStream!Bytes(rs) = Bytes(rs)
  BY <1>1 DEF Bytes, LobbyStream!Bytes
<1>10. ASSUME NEW a, NEW k PROVE LobbyStream!Stream(a, k) = Stream(a, k)
  BY <1>1, <1>8, <1>9 DEF Stream, LobbyStream!Stream
<1>11. ASSUME NEW s, NEW t
       PROVE  /\ LobbyStream!IsPrefix(s, t) <=> IsPrefix(s, t)
              /\ LobbyStream!IsStrictPrefix(s, t) <=> IsStrictPrefix(s, t)
  BY DEF IsPrefix, IsStrictPrefix, LobbyStream!IsPrefix, LobbyStream!IsStrictPrefix
<1> QED
  BY <1>10, <1>11

LEMMA SameAuthStream ==
  /\ \A a, k : AuthStream!Stream(a, k) = Stream(a, k)
  /\ \A s, t : /\ AuthStream!IsPrefix(s, t) <=> IsPrefix(s, t)
               /\ AuthStream!IsStrictPrefix(s, t) <=> IsStrictPrefix(s, t)
<1>1. ASSUME NEW s PROVE AuthStream!FlattenSeq(s) = FlattenSeq(s)
  BY DEF FlattenSeq, AuthStream!FlattenSeq
<1>2. ASSUME NEW S PROVE AuthStream!Max(S) = Max(S) /\ AuthStream!Cardinality(S) = Cardinality(S)
  BY DEF Max, Cardinality, AuthStream!Max, AuthStream!Cardinality
<1>3. ASSUME NEW m PROVE AuthStream!IsHandshake(m) <=> IsHandshake(m)
  BY DEF IsHandshake, AuthStream!IsHandshake
<1>4. ASSUME NEW kind PROVE AuthStream!Sends(kind) = Sends(kind)
  BY DEF Sends, AuthStream!Sends
<1>5. ASSUME NEW a, NEW k
      PROVE  /\ AuthStream!Handshakes(a, k) = Handshakes(a, k) /\ AuthStream!Sent(a, k) = Sent(a, k)
             /\ AuthStream!LastAuth(a, k) = LastAuth(a, k)
  BY <1>1, <1>2, <1>3, <1>4
  DEF Handshakes, Sent, LastAuth, AuthStream!Handshakes, AuthStream!Sent, AuthStream!LastAuth
<1>6. ASSUME NEW all, NEW i PROVE AuthStream!RepliesIn(all, i) = RepliesIn(all, i)
  BY <1>2 DEF RepliesIn, AuthStream!RepliesIn
<1>7. ASSUME NEW a, NEW k, NEW i PROVE AuthStream!Number(a, k, i) = Number(a, k, i)
  BY <1>5, <1>6 DEF Number, AuthStream!Number
<1>8. ASSUME NEW a, NEW k PROVE AuthStream!Replies(a, k) = Replies(a, k)
  BY <1>4, <1>5, <1>7 DEF Replies, AuthStream!Replies
<1>9. ASSUME NEW rs PROVE AuthStream!Bytes(rs) = Bytes(rs)
  BY <1>1 DEF Bytes, AuthStream!Bytes
<1>10. ASSUME NEW a, NEW k PROVE AuthStream!Stream(a, k) = Stream(a, k)
  BY <1>1, <1>8, <1>9 DEF Stream, AuthStream!Stream
<1>11. ASSUME NEW s, NEW t
       PROVE  /\ AuthStream!IsPrefix(s, t) <=> IsPrefix(s, t)
              /\ AuthStream!IsStrictPrefix(s, t) <=> IsStrictPrefix(s, t)
  BY DEF IsPrefix, IsStrictPrefix, AuthStream!IsPrefix, AuthStream!IsStrictPrefix
<1> QED
  BY <1>10, <1>11

LEMMA InitPromised == Init => LobbyStream!Init /\ AuthStream!Init
<1> SUFFICES ASSUME Init PROVE LobbyStream!Init /\ AuthStream!Init
  OBVIOUS
<1>1. \A v \in Servers : asked[v] = << >> /\ heard[v] = << >> /\ Served(v) = 0
  BY DEF Init, Served, InService
<1>2. (serverThread = "done") = FALSE
  BY DEF Init
<1> QED
  BY <1>1, <1>2 DEF LobbyStream!Init, AuthStream!Init, Servers

LEMMA NextPromised ==
  TypeInv /\ TypeInv' /\ StreamInv /\ StreamInv' /\ [Next]_vars =>
    [LobbyStream!Next]_LobbyStream!streamVars /\ [AuthStream!Next]_AuthStream!streamVars
<1> SUFFICES ASSUME TypeInv, TypeInv', StreamInv, StreamInv', [Next]_vars
             PROVE  /\ [LobbyStream!Next]_LobbyStream!streamVars
                    /\ [AuthStream!Next]_AuthStream!streamVars
  OBVIOUS
<1>1. "lobby" \in Servers /\ "auth3" \in Servers
  BY DEF Servers
<1>2. [LobbyStream!Next]_LobbyStream!streamVars
  <2>1. Promised("lobby")
    BY <1>1, StepIsPromised
  <2> QED
    BY <2>1, SameLobbyStream
    DEF Promised, LobbyStream!Next, LobbyStream!streamVars, LobbyStream!Ask,
        LobbyStream!Hear, LobbyStream!Serve, LobbyStream!Close
<1>3. [AuthStream!Next]_AuthStream!streamVars
  <2>1. Promised("auth3")
    BY <1>1, StepIsPromised
  <2> QED
    BY <2>1, SameAuthStream
    DEF Promised, AuthStream!Next, AuthStream!streamVars, AuthStream!Ask,
        AuthStream!Hear, AuthStream!Serve, AuthStream!Close
<1> QED
  BY <1>2, <1>3

(* Both servers implement the stream of replies they promise: every packet  *)
(* is handled once and in turn, and what the game reads is a prefix of the  *)
(* replies to the packets handled, with the keys and the numbers that the   *)
(* packets before give them, whatever the reads, the connections and the    *)
(* other server do.  (That each packet is handled in the end is left to the *)
(* model checker.)                                                          *)
THEOREM StreamsImplemented == Spec => LobbyStream!Safe /\ AuthStream!Safe
  BY InitTyped, NextTyped, InitStream, NextStream, InitPromised, NextPromised, PTL
  DEF Spec, LobbyStream!Safe, AuthStream!Safe
=============================================================================
