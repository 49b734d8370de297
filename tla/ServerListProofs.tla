-------------------------- MODULE ServerListProofs --------------------------
(***************************************************************************)
(* The rows of the server list, for any servers, masters, packets and      *)
(* time-outs: the sort keeps them and puts them in order, and each stands  *)
(* for a packet that named its server while the request was open.          *)
(***************************************************************************)
EXTENDS ServerList, FiniteSetTheorems, TLAPS

(* Before is a strict order of rows, in which to be neither before nor      *)
(* behind is an equivalence: what std::stable_sort asks of its comparison.  *)
LEMMA BeforeOrder ==
  ASSUME NEW a \in Row, NEW b \in Row, NEW c \in Row
  PROVE  /\ ~Before(a, a)
         /\ Before(a, b) => ~Before(b, a)
         /\ Before(a, b) /\ Before(b, c) => Before(a, c)
         /\ ~Before(a, b) /\ ~Before(b, c) => ~Before(a, c)
<1> DEFINE R(x) == RealPlayers(x.server)  C(x) == Clients[x.server]
<1>1. \A x \in Row : R(x) \in Int /\ C(x) \in Int /\ x.ping \in Int
  BY ServerListAssumption DEF Row, RealPlayers
<1>2. \A x, y : Before(x, y) <=> \/ R(x) > R(y)
                                 \/ R(x) = R(y) /\ (C(x) > C(y) \/ (C(x) = C(y) /\ x.ping < y.ping))
  BY DEF Before
<1> HIDE DEF R, C
<1> QED
  BY <1>1, <1>2

(* The order std::stable_sort makes of the places in q.                     *)
Ahead(q, j, i) == Before(q[j], q[i]) \/ (j <= i /\ ~Before(q[i], q[j]))
PlaceOf(q, i) == Cardinality({j \in 1..Len(q) : Ahead(q, j, i)})
Origin(q, k) == CHOOSE i \in 1..Len(q) : PlaceOf(q, i) = k

LEMMA AheadOrder ==
  ASSUME NEW q \in Seq(Row), NEW i \in 1..Len(q), NEW j \in 1..Len(q), NEW k \in 1..Len(q)
  PROVE  /\ Ahead(q, i, i)
         /\ Ahead(q, i, j) \/ Ahead(q, j, i)
         /\ Ahead(q, i, j) /\ Ahead(q, j, i) => i = j
         /\ Ahead(q, i, j) /\ Ahead(q, j, k) => Ahead(q, i, k)
<1> DEFINE B(x, y) == Before(q[x], q[y])
<1>1. q[i] \in Row /\ q[j] \in Row /\ q[k] \in Row /\ i \in Nat /\ j \in Nat /\ k \in Nat
  OBVIOUS
<1>2. /\ ~B(i, i) /\ (B(i, j) => ~B(j, i))
      /\ B(i, j) /\ B(j, k) => B(i, k)
      /\ ~B(i, k) /\ ~B(k, j) => ~B(i, j)
      /\ ~B(j, i) /\ ~B(i, k) => ~B(j, k)
      /\ ~B(k, j) /\ ~B(j, i) => ~B(k, i)
  BY <1>1, BeforeOrder
<1>3. \A x, y : Ahead(q, x, y) <=> B(x, y) \/ (x <= y /\ ~B(y, x))
  BY DEF Ahead
<1> HIDE DEF B
<1> QED
  BY <1>1, <1>2, <1>3

LEMMA Places ==
  ASSUME NEW q \in Seq(Row), NEW i \in 1..Len(q)
  PROVE  /\ PlaceOf(q, i) \in 1..Len(q)
         /\ \A j \in 1..Len(q) : Ahead(q, j, i) /\ j # i => PlaceOf(q, j) < PlaceOf(q, i)
<1> DEFINE n == Len(q)  A(x) == {j \in 1..n : Ahead(q, j, x)}
<1>1. n \in Nat /\ IsFiniteSet(1..n) /\ Cardinality(1..n) = n
  <2>1. n \in Nat
    OBVIOUS
  <2> HIDE DEF n
  <2> QED
    BY <2>1, FS_Interval
<1>2. \A x : PlaceOf(q, x) = Cardinality(A(x)) /\ A(x) \in SUBSET (1..n)
  BY DEF PlaceOf
<1>3. \A x : IsFiniteSet(A(x)) /\ Cardinality(A(x)) \in Nat /\ Cardinality(A(x)) <= n
  BY <1>1, <1>2, FS_Subset, FS_CardinalityType
<1>4. \A x \in 1..n : x \in A(x)
  BY AheadOrder
<1>5. \A x \in 1..n : Cardinality(A(x)) # 0
  BY <1>3, <1>4, FS_EmptySet
<1>6. ASSUME NEW j \in 1..n, Ahead(q, j, i), j # i
      PROVE  Cardinality(A(j)) < Cardinality(A(i))
  <2>1. A(j) \in SUBSET A(i)
    BY <1>6, AheadOrder
  <2>2. i \notin A(j) /\ i \in A(i)
    BY <1>6, AheadOrder
  <2>3. A(j) # A(i)
    BY <2>2, Zenon
  <2> HIDE DEF A
  <2>4. Cardinality(A(j)) <= Cardinality(A(i)) /\ (Cardinality(A(i)) = Cardinality(A(j)) => A(i) = A(j))
    BY <1>3, <2>1, FS_Subset
  <2> QED
    BY <1>3, <2>3, <2>4
<1> HIDE DEF A
<1> QED
  BY <1>1, <1>2, <1>3, <1>5, <1>6

(* Every place is taken by exactly one element.                             *)
LEMMA Origins ==
  ASSUME NEW q \in Seq(Row)
  PROVE  /\ \A k \in 1..Len(q) : Origin(q, k) \in 1..Len(q) /\ PlaceOf(q, Origin(q, k)) = k
         /\ \A i, j \in 1..Len(q) : PlaceOf(q, i) = PlaceOf(q, j) => i = j
<1> DEFINE n == Len(q)  f == [i \in 1..n |-> PlaceOf(q, i)]
<1>1. IsFiniteSet(1..n)
  <2>1. n \in Nat
    OBVIOUS
  <2> HIDE DEF n
  <2> QED
    BY <2>1, FS_Interval
<1>2. \A i, j \in 1..n : PlaceOf(q, i) = PlaceOf(q, j) => i = j
  <2> SUFFICES ASSUME NEW i \in 1..n, NEW j \in 1..n, PlaceOf(q, i) = PlaceOf(q, j), i # j
               PROVE  FALSE
    OBVIOUS
  <2>1. PlaceOf(q, i) \in Nat /\ PlaceOf(q, j) \in Nat
    BY Places
  <2>2. PlaceOf(q, i) < PlaceOf(q, j) \/ PlaceOf(q, j) < PlaceOf(q, i)
    BY Places, AheadOrder
  <2> QED
    BY <2>1, <2>2
<1>3. f \in [1..n -> 1..n]
  BY Places
<1>4. \A i, j \in 1..n : f[i] = f[j] => i = j
  BY <1>2
<1> HIDE DEF f
<1>5. f \in Injection(1..n, 1..n)
  BY <1>3, <1>4 DEF Injection, IsInjective
<1>6. f \in Surjection(1..n, 1..n)
  BY <1>1, <1>5, FS_Injection
<1>7. \A k \in 1..n : \E i \in 1..n : f[i] = k
  BY <1>6 DEF Surjection
<1>8. \A k \in 1..n : \E i \in 1..n : PlaceOf(q, i) = k
  BY <1>7 DEF f
<1> QED
  BY <1>2, <1>8 DEF Origin

InOrder(q) == \A i, j \in 1..Len(q) : i < j => ~Before(q[j], q[i])

(* The sort is a permutation in order, so it keeps the rows of each server. *)
LEMMA SortFacts ==
  ASSUME NEW q \in Seq(Row)
  PROVE  /\ SortServerlist(q) \in Seq(Row) /\ Len(SortServerlist(q)) = Len(q)
         /\ InOrder(SortServerlist(q))
         /\ \A s : Cardinality({k \in 1..Len(q) : SortServerlist(q)[k].server = s})
                     = Cardinality({k \in 1..Len(q) : q[k].server = s})
<1> DEFINE n == Len(q)  o(k) == Origin(q, k)  t == SortServerlist(q)
<1>0. n \in Nat /\ IsFiniteSet(1..n)
  <2>1. n \in Nat
    OBVIOUS
  <2> HIDE DEF n
  <2> QED
    BY <2>1, FS_Interval
<1>1. t = [k \in 1..n |-> q[o(k)]]
  BY DEF SortServerlist, Origin, PlaceOf, Ahead
<1>2. \A k \in 1..n : o(k) \in 1..n /\ q[o(k)] \in Row /\ PlaceOf(q, o(k)) = k
  BY Origins
<1>3. \A i \in 1..n : PlaceOf(q, i) \in 1..n /\ o(PlaceOf(q, i)) = i
  BY Origins, Places
<1> HIDE DEF o, t
<1>4. t \in Seq(Row) /\ Len(t) = n /\ \A k \in 1..n : t[k] = q[o(k)]
  BY <1>0, <1>1, <1>2
<1>5. InOrder(t)
  <2> SUFFICES ASSUME NEW i \in 1..n, NEW j \in 1..n, i < j, Before(q[o(j)], q[o(i)])
               PROVE  FALSE
    BY <1>4 DEF InOrder
  <2>1. Ahead(q, o(j), o(i))
    BY DEF Ahead
  <2>2. o(j) # o(i)
    BY <1>0, <1>2
  <2>3. PlaceOf(q, o(j)) < PlaceOf(q, o(i))
    BY <1>2, <2>1, <2>2, Places
  <2> QED
    BY <1>0, <1>2, <2>3
<1>6. ASSUME NEW s
      PROVE  Cardinality({k \in 1..n : t[k].server = s}) = Cardinality({k \in 1..n : q[k].server = s})
  <2> DEFINE S == {k \in 1..n : t[k].server = s}  T == {k \in 1..n : q[k].server = s}
             g == [k \in S |-> o(k)]
  <2>1. g \in [S -> T]
    BY <1>2, <1>4
  <2>2. \A i, j \in S : g[i] = g[j] => i = j
    BY <1>2
  <2>3. \A i \in T : \E k \in S : g[k] = i
    BY <1>3, <1>4
  <2>4. IsFiniteSet(S)
    BY <1>0, FS_Subset
  <2> HIDE DEF S, T, g
  <2>5. g \in Bijection(S, T)
    BY <2>1, <2>2, <2>3 DEF Bijection, Injection, Surjection, IsInjective
  <2>6. Cardinality(T) = Cardinality(S)
    BY <2>4, <2>5, FS_Bijection DEF ExistsBijection
  <2> QED
    BY <2>6 DEF S, T
<1> QED
  BY <1>4, <1>5, <1>6 DEF t

-----------------------------------------------------------------------------
(* An answer that makes a row adds one row of its server, and no other.     *)
LEMMA RowAdded ==
  ASSUME rows \in Seq(Row), NEW r \in Row, rows' = SortServerlist(Append(rows, r))
  PROVE  /\ rows' \in Seq(Row) /\ InOrder(rows')
         /\ \A s : /\ Cardinality(RowsOf(s)) \in Nat
                   /\ s = r.server => Cardinality(RowsOf(s)') = Cardinality(RowsOf(s)) + 1
                   /\ s # r.server => Cardinality(RowsOf(s)') = Cardinality(RowsOf(s))
<1> DEFINE q == Append(rows, r)  n == Len(rows)
           S(s) == {k \in 1..(n + 1) : q[k].server = s}
<1>1. /\ q \in Seq(Row) /\ Len(q) = n + 1 /\ n \in Nat /\ q[n + 1] = r
      /\ \A i \in 1..n : q[i] = rows[i]
  OBVIOUS
<1> HIDE DEF q
<1>2. rows' = SortServerlist(q)
  BY DEF q
<1>3. /\ rows' \in Seq(Row) /\ InOrder(rows') /\ Len(rows') = n + 1
      /\ \A s : Cardinality(RowsOf(s)') = Cardinality(S(s))
  <2> DEFINE t == SortServerlist(q)
  <2>1. /\ t \in Seq(Row) /\ Len(t) = Len(q) /\ InOrder(t)
        /\ \A s : Cardinality({k \in 1..Len(q) : t[k].server = s})
                    = Cardinality({k \in 1..Len(q) : q[k].server = s})
    BY <1>1, SortFacts
  <2>2. rows' = t /\ Len(q) = n + 1
    BY <1>1, <1>2
  <2> HIDE DEF t
  <2>3. \A s : RowsOf(s)' = {k \in 1..Len(q) : t[k].server = s}
    BY <2>1, <2>2 DEF RowsOf
  <2> QED
    BY <2>1, <2>2, <2>3
<1>4. \A s : RowsOf(s) = {k \in 1..n : q[k].server = s}
  BY <1>1 DEF RowsOf
<1>5. \A s : S(s) = IF s = r.server THEN RowsOf(s) \cup {n + 1} ELSE RowsOf(s)
  BY <1>1, <1>4
<1> HIDE DEF S
<1>6. ASSUME NEW s
      PROVE  /\ IsFiniteSet(RowsOf(s)) /\ n + 1 \notin RowsOf(s)
             /\ Cardinality(RowsOf(s)) \in Nat
  <2>1. IsFiniteSet(1..n)
    <3> HIDE DEF n
    <3> QED
      BY <1>1, FS_Interval
  <2>2. IsFiniteSet(RowsOf(s))
    BY <1>4, <2>1, FS_Subset
  <2>3. n + 1 \notin RowsOf(s)
    BY <1>1, <1>4
  <2> QED
    BY <2>2, <2>3, FS_CardinalityType
<1>7. \A s : Cardinality(RowsOf(s) \cup {n + 1}) = Cardinality(RowsOf(s)) + 1
  BY <1>6, FS_AddElement
<1> QED
  BY <1>3, <1>5, <1>6, <1>7

(* A request under way is one whose answer is not over.                     *)
Underway == IsFiniteSet(seen) /\ (requesting => awaited = master)

IInv == TypeOK /\ Underway /\ RowsAccounted /\ InOrder(rows)

(* How many rows and places in the queue a server may have.                 *)
Allowed(s) == Cardinality(Naming(s)) + strays[s]

LEMMA Numbers ==
  ASSUME IInv
  PROVE  \A s \in Servers : Cardinality(RowsOf(s)) \in Nat /\ Allowed(s) \in Nat
<1> SUFFICES ASSUME NEW s \in Servers
             PROVE  Cardinality(RowsOf(s)) \in Nat /\ Allowed(s) \in Nat
  OBVIOUS
<1>1. Cardinality(RowsOf(s)) \in Nat
  <2>1. Len(rows) \in Nat
    BY DEF IInv, TypeOK
  <2>2. IsFiniteSet(1..Len(rows))
    BY <2>1, FS_Interval
  <2>3. IsFiniteSet(RowsOf(s))
    BY <2>2, FS_Subset DEF RowsOf
  <2> QED
    BY <2>3, FS_CardinalityType
<1>2. Cardinality(Naming(s)) \in Nat
  <2>1. IsFiniteSet(Naming(s))
    BY FS_Subset DEF Naming, IInv, Underway
  <2> QED
    BY <2>1, FS_CardinalityType
<1>3. strays[s] \in Nat
  BY DEF IInv, TypeOK
<1> QED
  BY <1>1, <1>2, <1>3 DEF Allowed

(* Steps that leave the rows alone keep the account when no server joins    *)
(* the queue.                                                               *)
LEMMA SameRows ==
  ASSUME IInv, rows' = rows, seen' = seen, strays' = strays,
         \A s \in Servers : queued[s] = Absent => queued'[s] = Absent
  PROVE  RowsAccounted' /\ InOrder(rows)'
<1>1. \A s : RowsOf(s)' = RowsOf(s) /\ Allowed(s)' = Allowed(s)
  BY DEF RowsOf, Allowed, Naming
<1>2. ASSUME NEW s \in Servers
      PROVE  Cardinality(RowsOf(s)') + (IF queued'[s] = Absent THEN 0 ELSE 1) <= Allowed(s)'
  <2>1. Cardinality(RowsOf(s)) + (IF queued[s] = Absent THEN 0 ELSE 1) <= Allowed(s)
    BY DEF IInv, RowsAccounted, Allowed
  <2>2. Cardinality(RowsOf(s)) \in Nat /\ Allowed(s) \in Nat
    BY Numbers
  <2> QED
    BY <1>1, <2>1, <2>2
<1> QED
  BY <1>2 DEF IInv, RowsAccounted, Allowed

LEMMA NoRows ==
  ASSUME rows = << >>
  PROVE  InOrder(rows) /\ \A s : Cardinality(RowsOf(s)) = 0
<1>1. Len(rows) = 0
  OBVIOUS
<1>2. \A s : RowsOf(s) = {}
  BY <1>1 DEF RowsOf
<1> QED
  BY <1>1, <1>2, FS_EmptySet DEF InOrder

LEMMA AgesType ==
  /\ MaxAge \in Nat /\ 0 \in Ages /\ Ages \subseteq Nat
  /\ Absent \notin Ages /\ Unasked \notin Ages /\ Absent # Unasked
  /\ \A age \in Ages : Older(age) \in Ages
BY ServerListAssumption DEF MaxAge, Ages, Older

LEMMA InitInv == Init => IInv
<1> SUFFICES ASSUME Init PROVE IInv
  OBVIOUS
<1>1. TypeOK
  <2>1. queued \in [Servers -> Ages \cup {Absent, Unasked}] /\ requestAge \in Ages
    BY AgesType DEF Init
  <2>2. strays \in [Servers -> 0..MaxStrays]
    BY ServerListAssumption DEF Init
  <2>3. rows \in Seq(Row) /\ lastIndex \in Nat
    BY DEF Init
  <2> QED
    BY <2>1, <2>2, <2>3 DEF Init, TypeOK
<1>2. Underway
  BY FS_EmptySet DEF Init, Underway
<1>3. RowsAccounted /\ InOrder(rows)
  <2>1. \A s : Naming(s) = {}
    BY DEF Init, Naming
  <2>2. \A s : Cardinality(Naming(s)) = 0
    BY <2>1, FS_EmptySet
  <2>3. \A s \in Servers : strays[s] = 0 /\ queued[s] = Absent
    BY DEF Init
  <2>4. InOrder(rows) /\ \A s : Cardinality(RowsOf(s)) = 0
    BY NoRows DEF Init
  <2> QED
    BY <2>2, <2>3, <2>4 DEF RowsAccounted
<1> QED
  BY <1>1, <1>2, <1>3 DEF IInv

LEMMA RefreshStep ==
  ASSUME IInv, NEW m \in Masters \cup {NoMaster}, RefreshServerList(m)
  PROVE  IInv'
<1>1. /\ rows' = << >> /\ queued' = [s \in Servers |-> Absent]
      /\ seen' = {} /\ strays' = [s \in Servers |-> 0]
      /\ host' = NoServer /\ UNCHANGED <<lastIndex, queries, answers>>
  BY DEF RefreshServerList
<1>2. /\ master' \in Masters \cup {NoMaster} /\ requesting' \in BOOLEAN /\ requestAge' \in Ages
      /\ packets' \subseteq Datagrams
      /\ requests' \in Nat /\ awaited' \in Masters \cup {NoMaster}
      /\ requesting' => awaited' = master'
  <2>1. CASE m = NoMaster
    BY <2>1 DEF RefreshServerList, IInv, TypeOK, Underway
  <2>2. CASE m # NoMaster
    <3>1. /\ master' = m /\ requesting' = TRUE /\ requestAge' = 0 /\ awaited' = m
          /\ requests' = requests + 1 /\ packets' = packets \cup Answer(m, requests')
      BY <2>2 DEF RefreshServerList
    <3>2. m \in Masters /\ requests' \in Nat /\ packets \subseteq Datagrams
      BY <2>2, <3>1 DEF IInv, TypeOK
    <3>3. Answer(m, requests') \subseteq Datagrams
      BY <3>2, ServerListAssumption DEF Answer, Datagrams
    <3> QED
      BY <3>1, <3>2, <3>3, AgesType
  <2> QED
    BY <2>1, <2>2
<1>3. TypeOK'
  <2>1. rows' \in Seq(Row) /\ queued' \in [Servers -> Ages \cup {Absent, Unasked}]
        /\ strays' \in [Servers -> 0..MaxStrays] /\ seen' \subseteq Datagrams
    BY <1>1, ServerListAssumption
  <2> QED
    BY <1>1, <1>2, <2>1 DEF IInv, TypeOK
<1>4. InOrder(rows') /\ \A s : Cardinality(RowsOf(s)') = 0
  <2>1. Len(rows') = 0
    BY <1>1
  <2>2. \A s : RowsOf(s)' = {}
    BY <2>1 DEF RowsOf
  <2> QED
    BY <2>1, <2>2, FS_EmptySet DEF InOrder
<1>5. RowsAccounted'
  <2>1. \A s : Naming(s)' = {}
    BY <1>1 DEF Naming
  <2>2. \A s : Cardinality(Naming(s)') = 0
    BY <2>1, FS_EmptySet
  <2>3. \A s \in Servers : strays'[s] = 0 /\ queued'[s] = Absent
    BY <1>1
  <2> QED
    BY <1>4, <2>2, <2>3 DEF RowsAccounted
<1>6. Underway'
  BY <1>1, <1>2, FS_EmptySet DEF Underway
<1> QED
  BY <1>3, <1>4, <1>5, <1>6 DEF IInv, InOrder

LEMMA JoinStep ==
  ASSUME IInv, NEW i \in 1..Len(rows), JoinServer(i)
  PROVE  IInv'
<1>1. /\ UNCHANGED <<master, requesting, requestAge, queued, rows, packets, answers>>
      /\ UNCHANGED <<requests, awaited, seen, strays>>
  BY DEF JoinServer, history
<1>2. rows[i].server \in Servers /\ i \in Nat
  <2>1. rows[i] \in Row /\ i \in Nat
    BY DEF IInv, TypeOK
  <2> QED
    BY <2>1 DEF Row
<1>3. host' \in Servers \cup {NoServer} /\ queries' \subseteq Servers /\ lastIndex' \in Nat
  BY <1>2 DEF JoinServer, IInv, TypeOK
<1>4. TypeOK'
  BY <1>1, <1>3 DEF IInv, TypeOK
<1> QED
  BY <1>1, <1>4, SameRows DEF IInv, Underway

LEMMA FrameStep ==
  ASSUME IInv, DoFrameWork
  PROVE  IInv'
<1>1. /\ UNCHANGED <<master, requestAge, rows, lastIndex, host, packets, answers>>
      /\ UNCHANGED <<requests, seen, strays>>
      /\ requesting' \in BOOLEAN /\ awaited' \in Masters \cup {NoMaster}
  BY DEF DoFrameWork, IInv, TypeOK
<1>2. PICK ask \in SUBSET {s \in Servers : queued[s] = Unasked} :
        /\ queued' = [s \in Servers |-> IF s \in ask THEN 0
                                        ELSE IF GivenUp(s) THEN Absent ELSE queued[s]]
        /\ queries' = queries \cup ask
  BY DEF DoFrameWork
<1>3. /\ queued' \in [Servers -> Ages \cup {Absent, Unasked}] /\ queries' \subseteq Servers
      /\ \A s \in Servers : queued[s] = Absent => queued'[s] = Absent
  BY <1>2, AgesType DEF IInv, TypeOK
<1>4. TypeOK'
  BY <1>1, <1>3 DEF IInv, TypeOK
<1>5. Underway'
  <2>1. requesting' => requesting /\ awaited' = awaited
    <3> DEFINE old == requestAge > RequestTimeout
    <3>1. requestAge <= RequestTimeout <=> ~old
      BY AgesType, ServerListAssumption DEF IInv, TypeOK
    <3>2. /\ requesting' = (requesting /\ requestAge <= RequestTimeout)
          /\ awaited' = IF old THEN NoMaster ELSE awaited
      BY DEF DoFrameWork
    <3> HIDE DEF old
    <3> QED
      BY <3>1, <3>2, Zenon
  <2> QED
    BY <1>1, <2>1 DEF IInv, Underway
<1> QED
  BY <1>1, <1>3, <1>4, <1>5, SameRows DEF IInv

(* A packet gives every server it names one more row to have, if it is in   *)
(* time.                                                                    *)
LEMMA OneMore ==
  ASSUME IInv, NEW p \in packets, GetServersResponse(p)
  PROVE  \A s \in Servers : /\ Allowed(s) \in Nat
                            /\ Allowed(s)' = IF p.from = awaited /\ s \in p.names
                                             THEN Allowed(s) + 1 ELSE Allowed(s)
<1> DEFINE timely == p.from = awaited
           again == p.request # requests \/ p \in seen
<1>1. /\ seen' = IF timely /\ ~again THEN seen \cup {p} ELSE seen
      /\ strays' = [s \in Servers |-> IF timely /\ again /\ s \in p.names THEN strays[s] + 1
                                                                        ELSE strays[s]]
  BY DEF GetServersResponse
<1>2. ~again => p \notin seen
  OBVIOUS
<1> HIDE DEF timely, again
<1> SUFFICES ASSUME NEW s \in Servers
             PROVE  /\ Allowed(s) \in Nat
                    /\ Allowed(s)' = IF timely /\ s \in p.names THEN Allowed(s) + 1 ELSE Allowed(s)
  BY DEF timely
<1>3. IsFiniteSet(Naming(s)) /\ Cardinality(Naming(s)) \in Nat /\ strays[s] \in Nat
  <2>1. IsFiniteSet(Naming(s))
    BY FS_Subset DEF Naming, IInv, Underway
  <2> QED
    BY <2>1, FS_CardinalityType DEF IInv, TypeOK
<1>4. CASE timely /\ ~again /\ s \in p.names
  <2>1. Naming(s)' = Naming(s) \cup {p} /\ p \notin Naming(s)
    BY <1>1, <1>2, <1>4 DEF Naming
  <2>2. Cardinality(Naming(s) \cup {p}) = Cardinality(Naming(s)) + 1
    BY <1>3, <2>1, FS_AddElement
  <2>3. strays'[s] = strays[s]
    BY <1>1, <1>4
  <2> QED
    BY <1>3, <1>4, <2>1, <2>2, <2>3 DEF Allowed
<1>5. CASE ~(timely /\ ~again /\ s \in p.names)
  <2>1. Naming(s)' = Naming(s)
    BY <1>1, <1>5 DEF Naming
  <2>2. strays'[s] = IF timely /\ again /\ s \in p.names THEN strays[s] + 1 ELSE strays[s]
    BY <1>1
  <2> QED
    BY <1>3, <1>5, <2>1, <2>2 DEF Allowed
<1> QED
  BY <1>4, <1>5

LEMMA ResponseStep ==
  ASSUME IInv, NEW p \in packets, GetServersResponse(p)
  PROVE  IInv'
<1> DEFINE timely == p.from = awaited
<1>1. /\ UNCHANGED <<master, requestAge, rows, lastIndex, host, packets, queries, answers, requests>>
      /\ awaited' = IF timely /\ p.eot THEN NoMaster ELSE awaited
  BY DEF GetServersResponse, netVars
<1>2. p \in Datagrams /\ p.names \in SUBSET Servers /\ p.eot \in BOOLEAN
  <2>1. p \in Datagrams
    BY DEF IInv, TypeOK
  <2> QED
    BY <2>1 DEF Datagrams
<1>3. Heeded(p) => timely
  BY DEF Heeded, IInv, Underway
<1>4. queued' = IF Heeded(p) THEN [s \in Servers |-> IF s \in p.names THEN Unasked ELSE queued[s]]
                ELSE queued
  BY DEF GetServersResponse
<1>5. /\ queued' \in [Servers -> Ages \cup {Absent, Unasked}] /\ requesting' \in BOOLEAN
      /\ \A s \in Servers : queued'[s] # Absent => queued[s] # Absent \/ (timely /\ s \in p.names)
      /\ requesting' => awaited' = master'
  <2>1. requesting' = (requesting /\ ~(Heeded(p) /\ p.eot))
    BY DEF GetServersResponse, IInv, TypeOK
  <2>2. timely /\ p.eot /\ requesting => Heeded(p)
    BY DEF Heeded, IInv, Underway
  <2>3. requesting => awaited = master
    BY DEF IInv, Underway
  <2>4. requesting' => awaited' = master'
    BY <1>1, <2>1, <2>2, <2>3, Zenon
  <2>5. queued \in [Servers -> Ages \cup {Absent, Unasked}] /\ requesting \in BOOLEAN
    BY DEF IInv, TypeOK
  <2>6. queued' \in [Servers -> Ages \cup {Absent, Unasked}]
    BY <1>4, <2>5
  <2>7. \A s \in Servers : queued'[s] # Absent => queued[s] # Absent \/ (timely /\ s \in p.names)
    BY <1>3, <1>4
  <2> QED
    BY <2>1, <2>4, <2>6, <2>7
<1>6. seen' \subseteq Datagrams /\ IsFiniteSet(seen')
  <2>1. seen' = seen \/ seen' = seen \cup {p}
    BY DEF GetServersResponse
  <2>2. IsFiniteSet(seen \cup {p})
    BY FS_AddElement DEF IInv, Underway
  <2> QED
    BY <1>2, <2>1, <2>2 DEF IInv, TypeOK, Underway
<1>7. strays' \in [Servers -> 0..MaxStrays]
  <2> DEFINE more == timely /\ (p.request # requests \/ p \in seen)
  <2>1. /\ strays' = [s \in Servers |-> IF more /\ s \in p.names THEN strays[s] + 1 ELSE strays[s]]
        /\ more => \A s \in p.names : strays[s] < MaxStrays
    BY DEF GetServersResponse
  <2> HIDE DEF more
  <2>2. strays \in [Servers -> 0..MaxStrays] /\ MaxStrays \in Nat
    BY ServerListAssumption DEF IInv, TypeOK
  <2> QED
    BY <2>1, <2>2
<1>8. TypeOK'
  <2>1. awaited' \in Masters \cup {NoMaster}
    BY <1>1 DEF IInv, TypeOK
  <2> QED
    BY <1>1, <1>5, <1>6, <1>7, <2>1 DEF IInv, TypeOK
<1>9. RowsAccounted'
  <2> SUFFICES ASSUME NEW s \in Servers
               PROVE  Cardinality(RowsOf(s)') + (IF queued'[s] = Absent THEN 0 ELSE 1) <= Allowed(s)'
    BY DEF RowsAccounted, Allowed
  <2>1. RowsOf(s)' = RowsOf(s)
    BY <1>1 DEF RowsOf
  <2>2. Cardinality(RowsOf(s)) + (IF queued[s] = Absent THEN 0 ELSE 1) <= Allowed(s)
    BY DEF IInv, RowsAccounted, Allowed
  <2>3. Cardinality(RowsOf(s)) \in Nat /\ Allowed(s) \in Nat
    BY Numbers
  <2>4. Allowed(s)' = IF timely /\ s \in p.names THEN Allowed(s) + 1 ELSE Allowed(s)
    BY OneMore
  <2>5. queued'[s] # Absent => queued[s] # Absent \/ (timely /\ s \in p.names)
    BY <1>5
  <2> HIDE DEF timely
  <2> QED
    BY <2>1, <2>2, <2>3, <2>4, <2>5
<1>10. InOrder(rows)'
  BY <1>1 DEF IInv
<1> QED
  BY <1>5, <1>6, <1>8, <1>9, <1>10 DEF IInv, Underway

LEMMA InfoStep ==
  ASSUME IInv, NEW s \in answers, NEW fits \in BOOLEAN, HandleInfoResponse(s, fits)
  PROVE  IInv'
<1>1. /\ UNCHANGED <<master, requesting, requestAge, lastIndex, host, packets, queries, answers>>
      /\ UNCHANGED <<requests, awaited, seen, strays>> /\ s \in Servers
  BY DEF HandleInfoResponse, netVars, history, IInv, TypeOK
<1>0. Underway'
  BY <1>1 DEF IInv, Underway
<1>2. CASE UNCHANGED <<rows, queued>>
  <2>1. TypeOK'
    BY <1>1, <1>2 DEF IInv, TypeOK
  <2> QED
    BY <1>0, <1>1, <1>2, <2>1, SameRows DEF IInv
<1>3. CASE TakeAnswer(s)
  <2> DEFINE r == [server |-> s, ping |-> Min({queued[s], PingCap})]
  <2>1. /\ queued[s] \in Nat /\ queued[s] # Absent
        /\ rows' = SortServerlist(Append(rows, r)) /\ queued' = [queued EXCEPT ![s] = Absent]
    BY <1>3, AgesType DEF TakeAnswer
  <2>2. r \in Row /\ r.server = s
    <3>1. PingCap \in Nat
      BY ServerListAssumption
    <3>2. Min({queued[s], PingCap}) \in 0..PingCap
      <4>1. \E x \in {queued[s], PingCap} : \A y \in {queued[s], PingCap} : x <= y
        BY <2>1, <3>1
      <4>2. /\ Min({queued[s], PingCap}) \in {queued[s], PingCap}
            /\ \A y \in {queued[s], PingCap} : Min({queued[s], PingCap}) <= y
        BY <4>1 DEF Min
      <4> QED
        BY <2>1, <3>1, <4>2
    <3> QED
      BY <1>1, <3>2 DEF Row
  <2> HIDE DEF r
  <2>3. /\ rows' \in Seq(Row) /\ InOrder(rows')
        /\ \A u : /\ Cardinality(RowsOf(u)) \in Nat
                  /\ u = s => Cardinality(RowsOf(u)') = Cardinality(RowsOf(u)) + 1
                  /\ u # s => Cardinality(RowsOf(u)') = Cardinality(RowsOf(u))
    BY <2>1, <2>2, RowAdded DEF IInv, TypeOK
  <2>4. queued \in [Servers -> Ages \cup {Absent, Unasked}]
    BY DEF IInv, TypeOK
  <2>5. TypeOK'
    BY <1>1, <2>1, <2>3, <2>4 DEF IInv, TypeOK
  <2>6. RowsAccounted'
    <3> SUFFICES ASSUME NEW u \in Servers
                 PROVE  Cardinality(RowsOf(u)') + (IF queued'[u] = Absent THEN 0 ELSE 1) <= Allowed(u)
      BY <1>1 DEF RowsAccounted, Allowed, Naming
    <3>1. /\ Cardinality(RowsOf(u)) + (IF queued[u] = Absent THEN 0 ELSE 1) <= Allowed(u)
          /\ Allowed(u) \in Nat /\ Cardinality(RowsOf(u)) \in Nat
      BY Numbers DEF IInv, RowsAccounted, Allowed
    <3>2. CASE u = s
      BY <2>1, <2>3, <2>4, <3>1, <3>2
    <3>3. CASE u # s
      BY <2>1, <2>3, <2>4, <3>1, <3>3
    <3> QED
      BY <3>2, <3>3
  <2>7. InOrder(rows)'
    BY <2>3 DEF InOrder
  <2> QED
    BY <1>0, <2>5, <2>6, <2>7 DEF IInv
<1> QED
  BY <1>2, <1>3 DEF HandleInfoResponse

(* Servers that answer, and the clock.                                      *)
LEMMA OtherSteps ==
  ASSUME IInv, (\E s \in Servers : GetInfo(s)) \/ Tick \/ UNCHANGED vars
  PROVE  IInv'
<1>1. /\ UNCHANGED <<master, requesting, rows, lastIndex, host, packets, queries>>
      /\ UNCHANGED <<requests, awaited, seen, strays>>
  BY DEF GetInfo, Tick, vars, clientVars, netVars, history
<1>2. requestAge' \in Ages /\ queued' \in [Servers -> Ages \cup {Absent, Unasked}]
      /\ \A s \in Servers : queued[s] = Absent => queued'[s] = Absent
  <2>1. CASE Tick
    BY <2>1, AgesType DEF Tick, IInv, TypeOK
  <2>2. CASE UNCHANGED <<requestAge, queued>>
    BY <2>2 DEF IInv, TypeOK
  <2> QED
    BY <2>1, <2>2 DEF GetInfo, vars, clientVars
<1>3. answers' \subseteq Servers
  BY DEF GetInfo, Tick, vars, netVars, IInv, TypeOK
<1>4. TypeOK'
  BY <1>1, <1>2, <1>3 DEF IInv, TypeOK
<1> QED
  BY <1>1, <1>2, <1>4, SameRows DEF IInv, Underway

LEMMA Step == IInv /\ [Next]_vars => IInv'
BY RefreshStep, JoinStep, FrameStep, ResponseStep, InfoStep, OtherSteps DEF Next

(* The account holds in every state, with its types.                        *)
THEOREM Invariance == Spec => []IInv
BY InitInv, Step, PTL DEF Spec

(* The variables keep their types: no time grows past the longest time-out, *)
(* and no ping past its cap.                                                *)
THEOREM TypeCorrect == Spec => []TypeOK
<1>1. IInv => TypeOK
  BY DEF IInv
<1> QED
  BY <1>1, Invariance, PTL

(* Every row and every place in the queue stands for a packet that named    *)
(* the server, sent by the master asked last and in before the end of its   *)
(* answer or the time-out: packets from elsewhere or after that, and        *)
(* answers that come twice or were asked for by others, make none.          *)
THEOREM EveryRowNamed == Spec => []RowsAccounted
<1>1. IInv => RowsAccounted
  BY DEF IInv
<1> QED
  BY <1>1, Invariance, PTL

(* Rows are always in the order of the comparison of sort_serverlist: more  *)
(* players first, bots not counted, then the fuller, then the nearer one.   *)
THEOREM RowsInOrder == Spec => []InOrder(rows)
<1>1. IInv => InOrder(rows)
  BY DEF IInv
<1> QED
  BY <1>1, Invariance, PTL
=============================================================================
