--------------------------- MODULE FragmentProofs ---------------------------
(***************************************************************************)
(* What holds of FragmentHandler for every number of senders, ids, lengths *)
(* and fragments: its entries stay incomplete and bounded; while no        *)
(* datagram is duplicated and no sender restarts, handle() returns true    *)
(* for whole packets only, their parts in order, and once for each; and in *)
(* any case every piece of a packet it returns is the part of one sent     *)
(* under that header that was cut from the place it is in.                 *)
(***************************************************************************)
EXTENDS FragmentHandler, FiniteSetTheorems, TLAPS

Pieces == UNION {[D -> Parts] : D \in SUBSET (0..(MaxFragments - 1))}

(* An id without an entry has the values operator[] would give a new one.   *)
EntryInv ==
  /\ pieces \in [Senders -> [Ids -> Pieces]]
  /\ \A s \in Senders : \A i \in Ids \ known[s] : pieces[s][i] = NoPieces
  /\ \A p \in packets : p.start \in Starts
  /\ \A f \in net : f.index < f.count

SafeInv == TypeOK /\ EntryInv /\ EntriesIncomplete /\ BoundedEntries

LEMMA IdsFinite == IsFiniteSet(Ids)
<1>1. MaxId \in Int /\ 0 \in Int
  BY FragmentAssumption
<1> QED
  BY <1>1, FS_Interval DEF Ids

LEMMA NoPiecesEmpty == NoPieces \in Pieces /\ DOMAIN NoPieces = {}
<1>1. NoPieces \in [{} -> Parts]
  BY DEF NoPieces
<1>2. {} \in SUBSET (0..(MaxFragments - 1))
  OBVIOUS
<1> QED
  BY <1>1, <1>2 DEF Pieces, NoPieces

LEMMA PiecesFact ==
  ASSUME NEW q \in Pieces
  PROVE  /\ DOMAIN q \subseteq 0..(MaxFragments - 1)
         /\ \A k \in DOMAIN q : q[k] \in Parts
         /\ q = [k \in DOMAIN q |-> q[k]]
  BY DEF Pieces

LEMMA InitSafe == Init => SafeInv
<1> SUFFICES ASSUME Init PROVE SafeInv
  OBVIOUS
<1> USE FragmentAssumption
<1>1. TypeOK
  BY NoPiecesEmpty DEF Init, TypeOK, Starts, Ids
<1>2. EntryInv /\ EntriesIncomplete
  BY NoPiecesEmpty DEF Init, EntryInv, EntriesIncomplete
<1>3. BoundedEntries
  BY FS_EmptySet DEF Init, BoundedEntries
<1> QED
  BY <1>1, <1>2, <1>3 DEF SafeInv

LEMMA SendSafe ==
  ASSUME SafeInv, NEW s \in Senders, NEW n \in Lengths, Send(s, n) PROVE SafeInv'
<1> USE FragmentAssumption
<1>1. UNCHANGED <<start, duplicates, known, count, pieces, old, delivered>>
  BY DEF Send, entryVars
<1>2. net' \subseteq Fragment /\ \A f \in net' : f.index < f.count
  <2>1. ASSUME NEW i \in {j \in Indices : j < n}
        PROVE  /\ n \in Lengths \ {0} /\ start[s] \in Starts /\ currentId[s] \in Ids
               /\ i \in Indices /\ i < n /\ Part(start[s], i) \in Parts
    <3>1. i \in Nat
      BY DEF Indices
    <3> QED
      BY <3>1 DEF SafeInv, TypeOK, Send, Part, Parts
  <2> QED
    BY <2>1 DEF Send, Fragment, SafeInv, TypeOK, EntryInv
<1>3. /\ packets' \subseteq [from : Senders, id : Ids, start : Starts, count : Lengths]
      /\ currentId' \in [Senders -> Nat]
  <2>1. currentId[s] \in Ids /\ currentId[s] \in Nat /\ start[s] \in Starts
    BY DEF Send, SafeInv, TypeOK
  <2>2. currentId' = [currentId EXCEPT ![s] = currentId[s] + 1] /\ currentId \in [Senders -> Nat]
    BY DEF Send, SafeInv, TypeOK
  <2>3. currentId' \in [Senders -> Nat]
    BY <2>1, <2>2
  <2>4. packets' \subseteq [from : Senders, id : Ids, start : Starts, count : Lengths]
    BY <2>1 DEF Send, SafeInv, TypeOK
  <2> QED
    BY <2>3, <2>4
<1>4. TypeOK'
  BY <1>1, <1>2, <1>3 DEF SafeInv, TypeOK
<1>5. EntryInv'
  BY <1>1, <1>2, <1>3 DEF SafeInv, EntryInv
<1> QED
  BY <1>1, <1>4, <1>5 DEF SafeInv, EntriesIncomplete, BoundedEntries

LEMMA RestartSafe ==
  ASSUME SafeInv, NEW s \in Senders, Restart(s) PROVE SafeInv'
<1> USE FragmentAssumption
<1>1. TypeOK'
  BY DEF SafeInv, TypeOK, Restart, netVars, entryVars, Starts
<1> QED
  BY <1>1 DEF SafeInv, EntryInv, EntriesIncomplete, BoundedEntries, Restart, netVars, entryVars

LEMMA ArriveFact ==
  ASSUME SafeInv, NEW f \in net, Arrive(f)
  PROVE  /\ net' \subseteq net /\ duplicates' \in 0..MaxDuplicates
         /\ UNCHANGED <<start, currentId, packets>>
         /\ f \in Fragment /\ f.from \in Senders /\ f.id \in Ids /\ f.data \in Parts
         /\ f.count \in Nat /\ f.index \in Nat /\ f.index < f.count
<1> USE FragmentAssumption
<1>1. f \in Fragment /\ f.index < f.count
  BY DEF SafeInv, TypeOK, EntryInv
<1>2. f.from \in Senders /\ f.id \in Ids /\ f.data \in Parts /\ f.count \in Nat
  BY <1>1 DEF Fragment
<1>3. f.index \in Nat
  BY <1>1 DEF Fragment, Indices
<1> QED
  BY <1>1, <1>2, <1>3 DEF Arrive, senderVars, SafeInv, TypeOK

LEMMA RejectSafe ==
  ASSUME SafeInv, NEW f \in net, Reject(f) PROVE SafeInv'
<1>1. /\ net' \subseteq net /\ duplicates' \in 0..MaxDuplicates
      /\ UNCHANGED <<start, currentId, packets>>
  BY ArriveFact DEF Reject
<1>2. UNCHANGED <<known, count, pieces, old, delivered>>
  BY DEF Reject, entryVars
<1>3. TypeOK'
  BY <1>1, <1>2 DEF SafeInv, TypeOK
<1>4. EntryInv'
  BY <1>1, <1>2 DEF SafeInv, EntryInv
<1> QED
  BY <1>2, <1>3, <1>4 DEF SafeInv, EntriesIncomplete, BoundedEntries

(* The pieces of an entry, with or without one, are some of those 0..n-1.   *)
LEMMA StoredFact ==
  ASSUME SafeInv, NEW f \in net, f.from \in Senders, f.id \in Ids, SameCount(f),
         f.count \in Nat
  PROVE  /\ Stored(f) \subseteq 0..(f.count - 1)
         /\ IsFiniteSet(Stored(f)) /\ Cardinality(Stored(f)) \in Nat
         /\ IsFiniteSet(0..(f.count - 1))
         /\ Cardinality(0..(f.count - 1)) = f.count
<1>1. Stored(f) \subseteq 0..(f.count - 1)
  BY NoPiecesEmpty DEF SafeInv, EntryInv, EntriesIncomplete, Stored, SameCount
<1>2. IsFiniteSet(0..(f.count - 1)) /\ Cardinality(0..(f.count - 1)) = f.count
  <2>1. f.count - 1 \in Int /\ 0 \in Int
    OBVIOUS
  <2>2. /\ IsFiniteSet(0..(f.count - 1))
        /\ Cardinality(0..(f.count - 1)) = IF 0 > f.count - 1 THEN 0 ELSE f.count - 1 - 0 + 1
    BY <2>1, FS_Interval
  <2> QED
    BY <2>2
<1> QED
  BY <1>1, <1>2, FS_Subset, FS_CardinalityType

LEMMA StoreSafe ==
  ASSUME SafeInv, NEW f \in net, Store(f) PROVE SafeInv'
<1> USE FragmentAssumption
<1> DEFINE s == f.from
           new == [i \in Stored(f) \cup {f.index} |-> IF i = f.index THEN f.data ELSE pieces[s][f.id][i]]
<1>1. /\ net' \subseteq net /\ duplicates' \in 0..MaxDuplicates
      /\ UNCHANGED <<start, currentId, packets>>
      /\ s \in Senders /\ f.id \in Ids /\ f.data \in Parts
      /\ f.count \in Nat /\ f.index \in Nat /\ f.index < f.count
  BY ArriveFact DEF Store
<1>2. SameCount(f) /\ Valid(f) /\ ~Last(f) /\ (f.id \in known[s] \/ ~Full(s))
  BY DEF Store, Admitted
<1>3. /\ Stored(f) \subseteq 0..(f.count - 1)
      /\ IsFiniteSet(Stored(f)) /\ Cardinality(Stored(f)) \in Nat
  BY <1>1, <1>2, StoredFact
<1>4. /\ known' = [known EXCEPT ![s] = @ \cup {f.id}]
      /\ count' = [count EXCEPT ![s][f.id] = f.count]
      /\ pieces' = [pieces EXCEPT ![s][f.id] = new]
      /\ UNCHANGED <<old, delivered>>
  BY DEF Store
<1>5. known \in [Senders -> SUBSET Ids] /\ count \in [Senders -> [Ids -> 0..MaxFragments]]
      /\ pieces \in [Senders -> [Ids -> Pieces]]
  BY DEF SafeInv, TypeOK, EntryInv
<1>6. f.count \in 1..MaxFragments
  BY <1>1, <1>2 DEF Valid
<1>7. new \in Pieces /\ DOMAIN new = Stored(f) \cup {f.index}
  <2>1. \A i \in Stored(f) : pieces[s][f.id][i] \in Parts
    BY <1>1, <1>5, PiecesFact DEF Stored
  <2>2. Stored(f) \cup {f.index} \in SUBSET (0..(MaxFragments - 1))
    BY <1>1, <1>3, <1>6
  <2>3. new \in [Stored(f) \cup {f.index} -> Parts]
    BY <1>1, <2>1
  <2> QED
    BY <2>2, <2>3 DEF Pieces
<1>8. pieces' \in [Senders -> [Ids -> Pieces]]
  BY <1>1, <1>4, <1>5, <1>7
<1>9. TypeOK'
  <2>1. \A u \in Senders, i \in Ids :
          /\ DOMAIN pieces'[u][i] \subseteq 0..(MaxFragments - 1)
          /\ \A k \in DOMAIN pieces'[u][i] : pieces'[u][i][k] \in Parts
    BY <1>8, PiecesFact
  <2>2. known' \in [Senders -> SUBSET Ids] /\ count' \in [Senders -> [Ids -> 0..MaxFragments]]
    BY <1>1, <1>4, <1>5, <1>6
  <2>3. \A u \in Senders : old'[u] \subseteq known'[u]
    BY <1>1, <1>4, <1>5 DEF SafeInv, TypeOK
  <2> QED
    BY <1>1, <1>4, <2>1, <2>2, <2>3 DEF SafeInv, TypeOK
<1>10. EntryInv'
  BY <1>1, <1>4, <1>5, <1>8 DEF SafeInv, EntryInv
<1>11. EntriesIncomplete'
  <2>1. Cardinality(Stored(f) \cup {f.index}) < f.count
    <3> DEFINE c == Cardinality(Stored(f))
    <3>1. c \in Nat /\ f.count \in Nat /\ ~(c + 1 >= f.count)
      BY <1>1, <1>2, <1>3 DEF Last
    <3>2. Cardinality(Stored(f) \cup {f.index}) \in {c, c + 1}
      BY <1>3, FS_AddElement
    <3> HIDE DEF c
    <3> QED
      BY <3>1, <3>2
  <2>2. /\ count'[s][f.id] = f.count /\ pieces'[s][f.id] = new
    BY <1>1, <1>4, <1>5
  <2>3. /\ count'[s][f.id] \in 1..MaxFragments
        /\ DOMAIN pieces'[s][f.id] \subseteq 0..(count'[s][f.id] - 1)
        /\ DOMAIN pieces'[s][f.id] # {}
        /\ Cardinality(DOMAIN pieces'[s][f.id]) < count'[s][f.id]
    BY <1>1, <1>3, <1>6, <1>7, <2>1, <2>2
  <2>4. ASSUME NEW u \in Senders, NEW i \in known'[u], ~(u = s /\ i = f.id)
        PROVE  i \in known[u] /\ count'[u][i] = count[u][i] /\ pieces'[u][i] = pieces[u][i]
    BY <1>1, <1>4, <1>5, <2>4
  <2> QED
    BY <2>3, <2>4 DEF EntriesIncomplete, SafeInv
<1>12. BoundedEntries'
  <2>1. \A u \in Senders : IsFiniteSet(known[u]) /\ Cardinality(known[u]) \in Nat
    BY <1>5, IdsFinite, FS_Subset, FS_CardinalityType
  <2>2. f.id \notin known[s] => Cardinality(known[s] \cup {f.id}) = Cardinality(known[s]) + 1
    BY <1>1, <2>1, FS_AddElement
  <2>3. f.id \in known[s] => known[s] \cup {f.id} = known[s]
    OBVIOUS
  <2>4. Cardinality(known[s] \cup {f.id}) <= MaxFragments + 1
    <3> DEFINE c == Cardinality(known[s])
    <3>1. c \in Nat /\ c <= MaxFragments + 1 /\ (f.id \in known[s] \/ ~(c > MaxFragments))
      BY <1>1, <1>2, <2>1 DEF Full, SafeInv, BoundedEntries
    <3> HIDE DEF c
    <3>3. CASE f.id \in known[s]
      BY <2>3, <3>1, <3>3 DEF c
    <3>4. CASE f.id \notin known[s]
      <4>1. Cardinality(known[s] \cup {f.id}) = c + 1 /\ ~(c > MaxFragments)
        BY <2>2, <3>1, <3>4 DEF c
      <4> QED
        BY <3>1, <4>1
    <3> QED
      BY <3>3, <3>4
  <2> QED
    BY <1>1, <1>4, <1>5, <2>4 DEF SafeInv, BoundedEntries
<1> QED
  BY <1>9, <1>10, <1>11, <1>12 DEF SafeInv

(* Taking ids out of the table, with all that belongs to them.              *)
LEMMA EraseSafe ==
  ASSUME SafeInv, NEW gone \in [Senders -> SUBSET Ids],
         net' \subseteq net, duplicates' \in 0..MaxDuplicates,
         UNCHANGED <<start, currentId, packets>>,
         known' = [s \in Senders |-> known[s] \ gone[s]],
         old' = [s \in Senders |-> old[s] \ gone[s]],
         count' = [s \in Senders |-> [i \in Ids |-> IF i \in gone[s] THEN 0 ELSE count[s][i]]],
         pieces' = [s \in Senders |->
                     [i \in Ids |-> IF i \in gone[s] THEN NoPieces ELSE pieces[s][i]]]
  PROVE  SafeInv'
<1> USE FragmentAssumption
<1>1. pieces' \in [Senders -> [Ids -> Pieces]]
  BY NoPiecesEmpty DEF SafeInv, EntryInv
<1>2. TypeOK'
  <2>1. \A u \in Senders, i \in Ids :
          /\ DOMAIN pieces'[u][i] \subseteq 0..(MaxFragments - 1)
          /\ \A k \in DOMAIN pieces'[u][i] : pieces'[u][i][k] \in Parts
    BY <1>1, PiecesFact
  <2> QED
    BY <2>1 DEF SafeInv, TypeOK
<1>3. EntryInv'
  BY <1>1 DEF SafeInv, EntryInv, TypeOK
<1>4. EntriesIncomplete'
  BY DEF SafeInv, EntriesIncomplete, TypeOK
<1>5. BoundedEntries'
  <2>1. ASSUME NEW u \in Senders PROVE Cardinality(known'[u]) <= MaxFragments + 1
    <3>1. IsFiniteSet(known[u]) /\ known'[u] \subseteq known[u]
      BY IdsFinite, FS_Subset DEF SafeInv, TypeOK
    <3>2. /\ Cardinality(known'[u]) <= Cardinality(known[u])
          /\ Cardinality(known'[u]) \in Nat /\ Cardinality(known[u]) \in Nat
      BY <3>1, FS_Subset, FS_CardinalityType
    <3> QED
      BY <3>2 DEF SafeInv, BoundedEntries
  <2> QED
    BY <2>1 DEF BoundedEntries
<1> QED
  BY <1>2, <1>3, <1>4, <1>5 DEF SafeInv

LEMMA CompleteSafe ==
  ASSUME SafeInv, NEW f \in net, Complete(f) PROVE SafeInv'
<1> DEFINE gone == [s \in Senders |-> IF s = f.from THEN {f.id} ELSE {}]
<1>1. /\ net' \subseteq net /\ duplicates' \in 0..MaxDuplicates
      /\ UNCHANGED <<start, currentId, packets>>
      /\ f.from \in Senders /\ f.id \in Ids
  BY ArriveFact DEF Complete
<1>2. /\ known \in [Senders -> SUBSET Ids] /\ count \in [Senders -> [Ids -> 0..MaxFragments]]
      /\ pieces \in [Senders -> [Ids -> Pieces]] /\ old \in [Senders -> SUBSET Ids]
  BY DEF SafeInv, TypeOK, EntryInv
<1>3. gone \in [Senders -> SUBSET Ids]
  BY <1>1
<1>4. known' = [s \in Senders |-> known[s] \ gone[s]]
  BY <1>1, <1>2 DEF Complete
<1>5. old' = [s \in Senders |-> old[s] \ gone[s]]
  BY <1>1, <1>2 DEF Complete
<1>6. count' = [s \in Senders |-> [i \in Ids |-> IF i \in gone[s] THEN 0 ELSE count[s][i]]]
  BY <1>1, <1>2 DEF Complete
<1>7. pieces' = [s \in Senders |-> [i \in Ids |-> IF i \in gone[s] THEN NoPieces ELSE pieces[s][i]]]
  BY <1>1, <1>2 DEF Complete
<1> HIDE DEF gone
<1> QED
  BY <1>1, <1>3, <1>4, <1>5, <1>6, <1>7, EraseSafe

LEMMA CleanSafe ==
  ASSUME SafeInv, Clean PROVE SafeInv'
<1>1. old \in [Senders -> SUBSET Ids] /\ duplicates \in 0..MaxDuplicates
  BY DEF SafeInv, TypeOK
<1>2. old' = [s \in Senders |-> old[s] \ old[s]]
  BY DEF Clean
<1>3. UNCHANGED <<start, currentId, packets, net, duplicates>>
  BY DEF Clean, senderVars, netVars
<1> QED
  BY <1>1, <1>2, <1>3, EraseSafe DEF Clean

LEMMA ExpireSafe ==
  ASSUME SafeInv, NEW s \in Senders, NEW id \in Ids, Expire(s, id) PROVE SafeInv'
<1>1. UNCHANGED <<start, currentId, packets, net, duplicates, known, count, pieces, delivered>>
  BY DEF Expire, senderVars, netVars
<1>2. old' \in [Senders -> SUBSET Ids] /\ \A u \in Senders : old'[u] \subseteq known[u]
  BY DEF SafeInv, TypeOK, Expire
<1>3. TypeOK'
  BY <1>1, <1>2 DEF SafeInv, TypeOK
<1> QED
  BY <1>1, <1>3 DEF SafeInv, EntryInv, EntriesIncomplete, BoundedEntries

LEMMA NextSafe == SafeInv /\ [Next]_vars => SafeInv'
<1> SUFFICES ASSUME SafeInv, [Next]_vars PROVE SafeInv'
  OBVIOUS
<1>1. CASE \E s \in Senders, n \in Lengths : Send(s, n)
  BY <1>1, SendSafe
<1>2. CASE \E s \in Senders : Restart(s)
  BY <1>2, RestartSafe
<1>3. CASE \E s \in Senders, id \in Ids : Expire(s, id)
  BY <1>3, ExpireSafe
<1>4. CASE \E f \in net : Reject(f)
  BY <1>4, RejectSafe
<1>5. CASE \E f \in net : Store(f)
  BY <1>5, StoreSafe
<1>6. CASE \E f \in net : Complete(f)
  BY <1>6, CompleteSafe
<1>7. CASE Clean
  BY <1>7, CleanSafe
<1>8. CASE UNCHANGED vars
  BY <1>8 DEF vars, senderVars, netVars, entryVars, SafeInv, TypeOK, EntryInv, EntriesIncomplete, BoundedEntries
<1> QED
  BY <1>1, <1>2, <1>3, <1>4, <1>5, <1>6, <1>7, <1>8 DEF Next

(* Every variable of FragmentHandler keeps its type.                        *)
THEOREM TypeCorrect == Spec => []TypeOK
<1>1. SafeInv => TypeOK
  BY DEF SafeInv
<1> QED
  BY InitSafe, NextSafe, <1>1, PTL DEF Spec

(* No entry of handle()'s table ever holds a whole packet, and each holds   *)
(* at least one fragment.                                                   *)
THEOREM EntriesStayIncomplete == Spec => []EntriesIncomplete
<1>1. SafeInv => EntriesIncomplete
  BY DEF SafeInv
<1> QED
  BY InitSafe, NextSafe, <1>1, PTL DEF Spec

(* The test for a full table bounds the entries of every address by         *)
(* MAX_FRAGMENTS + 1, however many ids it sends under.                      *)
THEOREM EntriesBounded == Spec => []BoundedEntries
<1>1. SafeInv => BoundedEntries
  BY DEF SafeInv
<1> QED
  BY InitSafe, NextSafe, <1>1, PTL DEF Spec

-----------------------------------------------------------------------------
(* While the traffic is intact, an id stands for one packet; what is under  *)
(* way, stored or delivered belongs to it; and a fragment is in one place.  *)
Data == UNION {[0..(n - 1) -> Parts \cup {Hole}] : n \in Nat}
DeliveredType == delivered \in Seq([from : Senders, id : Ids, data : Data])

Packet(s, i, n) == [from |-> s, id |-> i, start |-> 1, count |-> n]

Sole ==
  /\ \A p, q \in packets : p.from = q.from /\ p.id = q.id => p = q
  /\ \A p \in packets : p.id < currentId[p.from] /\ p.start = 1

Sent ==
  \A f \in net : f.data = Part(1, f.index) /\ Packet(f.from, f.id, f.count) \in packets

EntrySent ==
  \A s \in Senders : \A i \in known[s] :
     /\ Packet(s, i, count[s][i]) \in packets
     /\ \A k \in DOMAIN pieces[s][i] : pieces[s][i][k] = Part(1, k)
     /\ \A f \in net : f.from = s /\ f.id = i => f.index \notin DOMAIN pieces[s][i]

DoneWith(d) ==
  /\ \A f \in net : ~(f.from = d.from /\ f.id = d.id)
  /\ d.id \notin known[d.from]
  /\ Whole(d)

Done == \A k \in 1..Len(delivered) : DoneWith(delivered[k])

Once ==
  \A j, k \in 1..Len(delivered) :
     delivered[j].from = delivered[k].from /\ delivered[j].id = delivered[k].id => j = k

Calm == Sole /\ Sent /\ EntrySent /\ Done /\ Once

CalmInv == SafeInv /\ DeliveredType /\ (Intact => Calm)

LEMMA DeliveredFact ==
  ASSUME DeliveredType, NEW k \in 1..Len(delivered)
  PROVE  delivered[k].from \in Senders /\ delivered[k].id \in Ids
<1> DEFINE D == [from : Senders, id : Ids, data : Data]
<1>1. delivered \in Seq(D)
  BY DEF DeliveredType
<1>2. delivered[k] \in D
  <2> HIDE DEF D
  <2> QED
    BY <1>1
<1> QED
  BY <1>2

LEMMA InitCalm == Init => CalmInv
<1> SUFFICES ASSUME Init PROVE CalmInv
  OBVIOUS
<1>1. SafeInv
  BY InitSafe
<1>2. DeliveredType /\ Calm
  BY DEF Init, DeliveredType, Calm, Sole, Sent, EntrySent, Done, Once
<1> QED
  BY <1>1, <1>2 DEF CalmInv

LEMMA SendCalm ==
  ASSUME CalmInv, Intact, NEW s \in Senders, NEW n \in Lengths, Send(s, n) PROVE Calm'
<1> USE FragmentAssumption
<1> DEFINE id == currentId[s]
           new == [from |-> s, id |-> id, start |-> 1, count |-> n]
<1>1. SafeInv /\ Calm /\ start[s] = 1
  BY DEF CalmInv, Intact
<1>2. /\ packets' = packets \cup {new}
      /\ currentId' = [currentId EXCEPT ![s] = id + 1]
      /\ net' = net \cup {[from |-> s, id |-> id, count |-> n, index |-> i, data |-> Part(1, i)] :
                            i \in {j \in Indices : j < n}}
      /\ UNCHANGED <<start, duplicates, known, count, pieces, old, delivered>>
      /\ id \in Nat
  BY <1>1 DEF Send, entryVars, Ids
<1>3. currentId \in [Senders -> Nat] /\ \A p \in packets : p.from \in Senders /\ p.id \in Nat
  BY <1>1 DEF SafeInv, TypeOK, Ids
<1>4. \A p \in packets : ~(p.from = s /\ p.id = id)
  BY <1>1, <1>2, <1>3 DEF Calm, Sole
<1>5. \A f \in net' \ net : f.data = Part(1, f.index) /\ f.from = s /\ f.id = id /\ f.count = n
  BY <1>2
<1>6. Sole'
  <2>1. \A p \in packets' : p.id < currentId'[p.from] /\ p.start = 1
    BY <1>1, <1>2, <1>3 DEF Calm, Sole
  <2> QED
    BY <1>1, <1>2, <1>4, <2>1 DEF Calm, Sole
<1>7. Sent'
  BY <1>1, <1>2, <1>5 DEF Calm, Sent, Packet
<1>8. EntrySent'
  <2>1. ASSUME NEW u \in Senders, NEW i \in known[u] PROVE ~(u = s /\ i = id)
    BY <1>1, <1>4 DEF Calm, EntrySent, Packet
  <2> QED
    BY <1>1, <1>2, <1>5, <2>1 DEF Calm, EntrySent
<1>9. Done'
  <2>1. ASSUME NEW k \in 1..Len(delivered)
        PROVE  /\ Whole(delivered[k])' /\ ~(delivered[k].from = s /\ delivered[k].id = id)
    <3>1. PICK p \in packets : /\ p.from = delivered[k].from /\ p.id = delivered[k].id
                               /\ delivered[k].data = [i \in 0..(p.count - 1) |-> Part(p.start, i)]
      BY <1>1 DEF Calm, Done, DoneWith, Whole
    <3>2. p \in packets' /\ delivered' = delivered
      BY <1>2
    <3> QED
      BY <3>1, <3>2, <1>4 DEF Whole
  <2> QED
    BY <1>1, <1>2, <1>5, <2>1 DEF Calm, Done, DoneWith
<1>10. Once'
  BY <1>1, <1>2 DEF Calm, Once
<1> QED
  BY <1>6, <1>7, <1>8, <1>9, <1>10 DEF Calm

(* A datagram that is not duplicated leaves the network, and no other is    *)
(* like it.                                                                 *)
LEMMA ArriveCalm ==
  ASSUME CalmInv, Intact, NEW f \in net, Arrive(f), Intact'
  PROVE  /\ net' = net \ {f}
         /\ UNCHANGED <<start, currentId, packets>>
         /\ \A g \in net' : g.from = f.from /\ g.id = f.id =>
              g.count = f.count /\ g.index # f.index
<1>1. net' = net \ {f}
  BY DEF Arrive, Intact, CalmInv, SafeInv, TypeOK
<1>2. ASSUME NEW g \in net, g.from = f.from, g.id = f.id, g.index = f.index \/ g.count # f.count
      PROVE  g = f
  <2>1. g.count = f.count /\ g.data = f.data
    BY <1>2 DEF CalmInv, Calm, Sent, Sole, Packet
  <2>2. g \in Fragment /\ f \in Fragment
    BY DEF CalmInv, SafeInv, TypeOK
  <2> QED
    BY <1>2, <2>1, <2>2 DEF Fragment
<1> QED
  BY <1>1, <1>2 DEF Arrive, senderVars

(* Fewer fragments under way and fewer entries keep what is said of them.   *)
LEMMA LessCalm ==
  ASSUME CalmInv, Calm, net' \subseteq net,
         UNCHANGED <<start, currentId, packets, delivered>>,
         \A s \in Senders : /\ known'[s] \subseteq known[s]
                            /\ \A i \in known'[s] : /\ count'[s][i] = count[s][i]
                                                    /\ pieces'[s][i] = pieces[s][i]
  PROVE  Calm'
<1>1. Sole' /\ Sent' /\ Once'
  BY DEF Calm, Sole, Sent, Once
<1>2. EntrySent'
  BY DEF Calm, EntrySent
<1>3. Done'
  <2>1. ASSUME NEW k \in 1..Len(delivered) PROVE DoneWith(delivered[k])'
    <3>1. delivered[k].from \in Senders /\ DoneWith(delivered[k])
      BY DeliveredFact DEF CalmInv, Calm, Done
    <3>2. Whole(delivered[k])'
      BY <3>1 DEF DoneWith, Whole
    <3> QED
      BY <3>1, <3>2 DEF DoneWith
  <2> QED
    BY <2>1 DEF Done
<1> QED
  BY <1>1, <1>2, <1>3 DEF Calm

LEMMA StoreCalm ==
  ASSUME CalmInv, Intact, NEW f \in net, Store(f), Intact' PROVE Calm'
<1> USE FragmentAssumption
<1> DEFINE s == f.from
<1>1. /\ net' = net \ {f} /\ UNCHANGED <<start, currentId, packets, delivered>>
      /\ \A g \in net' : g.from = s /\ g.id = f.id => g.count = f.count /\ g.index # f.index
  BY ArriveCalm DEF Store
<1>2. /\ SafeInv /\ Calm /\ s \in Senders /\ f.id \in Ids /\ f.data = Part(1, f.index)
      /\ Packet(s, f.id, f.count) \in packets
  BY ArriveFact DEF Store, CalmInv, Calm, Sent
<1>3. /\ known \in [Senders -> SUBSET Ids] /\ count \in [Senders -> [Ids -> 0..MaxFragments]]
      /\ pieces \in [Senders -> [Ids -> Pieces]]
  BY <1>2 DEF SafeInv, TypeOK, EntryInv
<1>4. /\ known' = [known EXCEPT ![s] = @ \cup {f.id}]
      /\ count'[s][f.id] = f.count
      /\ DOMAIN pieces'[s][f.id] = Stored(f) \cup {f.index}
      /\ \A k \in Stored(f) : k # f.index => pieces'[s][f.id][k] = pieces[s][f.id][k]
      /\ pieces'[s][f.id][f.index] = f.data
      /\ \A u \in Senders, i \in Ids : ~(u = s /\ i = f.id) =>
           count'[u][i] = count[u][i] /\ pieces'[u][i] = pieces[u][i]
  BY <1>2, <1>3 DEF Store
<1>5. /\ \A k \in Stored(f) : pieces[s][f.id][k] = Part(1, k)
      /\ \A g \in net : g.from = s /\ g.id = f.id => g.index \notin Stored(f)
  BY <1>2, NoPiecesEmpty DEF Calm, EntrySent, Stored, SafeInv, EntryInv
<1>6. Sole' /\ Sent' /\ Once'
  BY <1>1, <1>2 DEF Calm, Sole, Sent, Once
<1>7. EntrySent'
  <2>1. /\ Packet(s, f.id, count'[s][f.id]) \in packets'
        /\ \A k \in DOMAIN pieces'[s][f.id] : pieces'[s][f.id][k] = Part(1, k)
        /\ \A g \in net' : g.from = s /\ g.id = f.id => g.index \notin DOMAIN pieces'[s][f.id]
    BY <1>1, <1>2, <1>4, <1>5
  <2>2. ASSUME NEW u \in Senders, NEW i \in known'[u], ~(u = s /\ i = f.id)
        PROVE  i \in known[u] /\ i \in Ids
    BY <1>2, <1>3, <1>4, <2>2
  <2>3. ASSUME NEW u \in Senders, NEW i \in known'[u]
        PROVE  /\ Packet(u, i, count'[u][i]) \in packets'
               /\ \A k \in DOMAIN pieces'[u][i] : pieces'[u][i][k] = Part(1, k)
               /\ \A g \in net' : g.from = u /\ g.id = i => g.index \notin DOMAIN pieces'[u][i]
    <3>1. CASE u = s /\ i = f.id
      BY <3>1, <2>1
    <3>2. CASE ~(u = s /\ i = f.id)
      BY <3>2, <2>2, <1>1, <1>2, <1>4 DEF Calm, EntrySent
    <3> QED
      BY <3>1, <3>2
  <2> QED
    BY <2>3 DEF EntrySent
<1>8. Done'
  <2>1. ASSUME NEW k \in 1..Len(delivered) PROVE DoneWith(delivered[k])'
    <3>1. delivered[k].from \in Senders
      BY DeliveredFact DEF CalmInv
    <3>2. DoneWith(delivered[k])
      BY <1>2 DEF Calm, Done
    <3>3. ~(delivered[k].from = s /\ delivered[k].id = f.id)
      BY <3>2 DEF DoneWith
    <3>4. delivered[k].id \notin known'[delivered[k].from]
      BY <3>1, <3>2, <3>3, <1>2, <1>3, <1>4 DEF DoneWith
    <3> QED
      BY <3>2, <3>4, <1>1 DEF DoneWith, Whole
  <2> QED
    BY <2>1, <1>1 DEF Done
<1> QED
  BY <1>6, <1>7, <1>8 DEF Calm

(* The fragment that completes an entry fills its one hole.                 *)
LEMMA CompleteWhole ==
  ASSUME CalmInv, Intact, NEW f \in net, Complete(f), Intact'
  PROVE  /\ Stored(f) \cup {f.index} = 0..(f.count - 1)
         /\ Assembled(f) = [i \in 0..(f.count - 1) |-> Part(1, i)]
         /\ \A g \in net' : ~(g.from = f.from /\ g.id = f.id)
<1> USE FragmentAssumption
<1>1. /\ net' = net \ {f}
      /\ \A g \in net' : g.from = f.from /\ g.id = f.id => g.count = f.count /\ g.index # f.index
  BY ArriveCalm DEF Complete
<1>2. /\ SafeInv /\ Calm /\ f.from \in Senders /\ f.id \in Ids /\ f.data = Part(1, f.index)
      /\ f.count \in Nat /\ f.index \in Nat /\ f.index < f.count
  BY ArriveFact DEF Complete, CalmInv, Calm, Sent
<1>3. /\ \A k \in Stored(f) : pieces[f.from][f.id][k] = Part(1, k)
      /\ \A g \in net : g.from = f.from /\ g.id = f.id => g.index \notin Stored(f)
  BY <1>2, NoPiecesEmpty DEF Calm, EntrySent, Stored, SafeInv, EntryInv
<1>4. /\ Stored(f) \subseteq 0..(f.count - 1)
      /\ IsFiniteSet(Stored(f)) /\ Cardinality(Stored(f)) \in Nat
      /\ IsFiniteSet(0..(f.count - 1)) /\ Cardinality(0..(f.count - 1)) = f.count
  BY <1>2, StoredFact DEF Complete
<1>5. Stored(f) \cup {f.index} = 0..(f.count - 1)
  <2> DEFINE S == Stored(f) \cup {f.index}
             T == 0..(f.count - 1)
  <2>1. S \in SUBSET T
    BY <1>2, <1>4
  <2>2. Cardinality(S) = Cardinality(Stored(f)) + 1 /\ IsFiniteSet(S)
    BY <1>3, <1>4, FS_AddElement
  <2>3. Cardinality(Stored(f)) + 1 >= f.count
    BY DEF Complete, Last
  <2>4. Cardinality(S) <= Cardinality(T)
    BY <2>1, <1>4, FS_Subset
  <2>5. Cardinality(T) = Cardinality(S)
    BY <2>2, <2>3, <2>4, <1>2, <1>4
  <2> QED
    BY <2>1, <2>5, <1>4, FS_Subset
<1>6. Assembled(f) = [i \in 0..(f.count - 1) |-> Part(1, i)]
  BY <1>2, <1>3, <1>5 DEF Assembled, StoredAt
<1>7. ASSUME NEW g \in net', g.from = f.from, g.id = f.id PROVE FALSE
  <2>1. g \in net /\ g \in Fragment /\ g.index < g.count
    BY <1>1, <1>2 DEF SafeInv, TypeOK, EntryInv
  <2>2. g.index \in Nat
    BY <2>1, FragmentAssumption DEF Fragment, Indices
  <2>3. g.index \in 0..(f.count - 1) /\ g.index # f.index
    BY <1>1, <1>2, <1>7, <2>1, <2>2
  <2> QED
    BY <1>3, <1>5, <1>7, <2>1, <2>3
<1> QED
  BY <1>5, <1>6, <1>7

LEMMA CompleteCalm ==
  ASSUME CalmInv, Intact, NEW f \in net, Complete(f), Intact' PROVE Calm'
<1> USE FragmentAssumption
<1> DEFINE d == [from |-> f.from, id |-> f.id, data |-> [i \in 0..(f.count - 1) |-> Part(1, i)]]
           n == Len(delivered)
<1>1. /\ net' = net \ {f} /\ UNCHANGED <<start, currentId, packets>>
      /\ \A g \in net' : ~(g.from = f.from /\ g.id = f.id)
      /\ Assembled(f) = [i \in 0..(f.count - 1) |-> Part(1, i)]
  BY ArriveCalm, CompleteWhole DEF Complete
<1>2. /\ SafeInv /\ Calm /\ f.from \in Senders /\ f.id \in Ids
      /\ Packet(f.from, f.id, f.count) \in packets
  BY ArriveFact DEF Complete, CalmInv, Calm, Sent
<1>3. /\ known \in [Senders -> SUBSET Ids] /\ count \in [Senders -> [Ids -> 0..MaxFragments]]
      /\ pieces \in [Senders -> [Ids -> Pieces]] /\ n \in Nat
  BY <1>2 DEF SafeInv, TypeOK, EntryInv, CalmInv, DeliveredType
<1>4. /\ known' = [known EXCEPT ![f.from] = @ \ {f.id}]
      /\ \A u \in Senders, i \in Ids : ~(u = f.from /\ i = f.id) =>
           count'[u][i] = count[u][i] /\ pieces'[u][i] = pieces[u][i]
  BY <1>2, <1>3 DEF Complete
<1>5. /\ Len(delivered') = n + 1 /\ delivered'[n + 1] = d
      /\ \A k \in 1..n : delivered'[k] = delivered[k]
  <2>1. delivered' = Append(delivered, d)
    BY <1>1 DEF Complete
  <2>2. delivered \in Seq([from : Senders, id : Ids, data : Data])
    BY DEF CalmInv, DeliveredType
  <2> HIDE DEF d
  <2> QED
    BY <2>1, <2>2
<1>6. Sole' /\ Sent'
  BY <1>1, <1>2 DEF Calm, Sole, Sent
<1>7. EntrySent'
  <2>1. ASSUME NEW u \in Senders, NEW i \in known'[u]
        PROVE  i \in known[u] /\ i \in Ids /\ ~(u = f.from /\ i = f.id)
    BY <1>2, <1>3, <1>4
  <2> QED
    BY <2>1, <1>1, <1>2, <1>4 DEF Calm, EntrySent
<1>8. /\ \A g \in net' : ~(g.from = d.from /\ g.id = d.id)
      /\ d.id \notin known'[d.from]
      /\ Whole(d)'
  <2>1. d.id \notin known'[d.from]
    BY <1>2, <1>3, <1>4
  <2>2. \E p \in packets' : /\ p.from = d.from /\ p.id = d.id
                            /\ d.data = [i \in 0..(p.count - 1) |-> Part(p.start, i)]
    <3>1. Packet(f.from, f.id, f.count) \in packets'
      BY <1>1, <1>2
    <3> QED
      BY <3>1 DEF Packet
  <2> QED
    BY <1>1, <2>1, <2>2 DEF Whole
<1>9. ASSUME NEW k \in 1..n
      PROVE  /\ DoneWith(delivered[k])' /\ delivered'[k] = delivered[k]
             /\ ~(delivered[k].from = f.from /\ delivered[k].id = f.id)
  <2>1. DoneWith(delivered[k]) /\ delivered[k].from \in Senders
    BY <1>2, DeliveredFact DEF Calm, Done, CalmInv
  <2>2. delivered[k].id \notin known'[delivered[k].from]
    BY <2>1, <1>2, <1>3, <1>4 DEF DoneWith
  <2>3. delivered'[k] = delivered[k] /\ packets' = packets /\ net' \subseteq net
    BY <1>1, <1>5
  <2>4. DoneWith(delivered[k])'
    <3>1. Whole(delivered[k])'
      BY <2>1, <2>3 DEF DoneWith, Whole
    <3>2. \A g \in net' : ~(g.from = delivered[k].from /\ g.id = delivered[k].id)
      BY <2>1, <2>3 DEF DoneWith
    <3> QED
      BY <2>2, <2>3, <3>1, <3>2 DEF DoneWith
  <2>5. ~(delivered[k].from = f.from /\ delivered[k].id = f.id)
    BY <2>1 DEF DoneWith
  <2> QED
    BY <2>3, <2>4, <2>5
<1>10. Done'
  <2>1. ASSUME NEW k \in 1..(n + 1) PROVE DoneWith(delivered[k])'
    <3>1. CASE k = n + 1
      BY <3>1, <1>5, <1>8 DEF DoneWith, Whole
    <3>2. CASE k \in 1..n
      BY <3>2, <1>9
    <3> QED
      BY <3>1, <3>2, <1>3
  <2> QED
    BY <2>1, <1>5 DEF Done
<1>11. Once'
  <2>1. ASSUME NEW j \in 1..(n + 1), NEW k \in 1..(n + 1),
               delivered'[j].from = delivered'[k].from, delivered'[j].id = delivered'[k].id
        PROVE  j = k
    <3>1. \A m \in 1..(n + 1) : m = n + 1 \/ m \in 1..n
      BY <1>3
    <3>2. CASE j \in 1..n /\ k \in 1..n
      BY <3>2, <2>1, <1>5, <1>2 DEF Calm, Once
    <3>3. CASE j \in 1..n /\ k = n + 1
      BY <3>3, <2>1, <1>5, <1>9
    <3>4. CASE j = n + 1 /\ k \in 1..n
      BY <3>4, <2>1, <1>5, <1>9
    <3> QED
      BY <3>1, <3>2, <3>3, <3>4
  <2> QED
    BY <2>1, <1>5 DEF Once
<1> QED
  BY <1>6, <1>7, <1>10, <1>11 DEF Calm

LEMMA NextDelivered ==
  ASSUME CalmInv, [Next]_vars PROVE DeliveredType'
<1> DEFINE D == [from : Senders, id : Ids, data : Data]
<1>1. delivered \in Seq(D)
  BY DEF CalmInv, DeliveredType
<1>2. ASSUME NEW f \in net, Complete(f) PROVE delivered' \in Seq(D)
  <2>1. /\ f.from \in Senders /\ f.id \in Ids /\ f.data \in Parts
        /\ f.count \in Nat /\ f.index \in Nat /\ SafeInv
    BY <1>2, ArriveFact DEF Complete, CalmInv
  <2>2. \A i \in Stored(f) : pieces[f.from][f.id][i] \in Parts
    BY <2>1, PiecesFact DEF SafeInv, EntryInv, Stored
  <2>3. Assembled(f) \in [0..(f.count - 1) -> Parts \cup {Hole}]
    BY <2>1, <2>2 DEF Assembled, StoredAt
  <2>4. Assembled(f) \in Data
    BY <2>1, <2>3 DEF Data
  <2>5. [from |-> f.from, id |-> f.id, data |-> Assembled(f)] \in D
    BY <2>1, <2>4
  <2> HIDE DEF D
  <2> QED
    BY <1>1, <1>2, <2>5 DEF Complete
<1>3. CASE \E f \in net : Complete(f)
  BY <1>2, <1>3 DEF DeliveredType
<1>4. CASE UNCHANGED delivered
  BY <1>1, <1>4 DEF DeliveredType
<1> QED
  BY <1>3, <1>4 DEF Next, vars, Send, Restart, Expire, Reject, Store, Clean

LEMMA NextCalm == CalmInv /\ [Next]_vars => CalmInv'
<1> SUFFICES ASSUME CalmInv, [Next]_vars PROVE CalmInv'
  OBVIOUS
<1> USE FragmentAssumption
<1>1. SafeInv' /\ DeliveredType'
  BY NextSafe, NextDelivered DEF CalmInv
<1>2. SUFFICES ASSUME Intact' PROVE Calm'
  BY <1>1 DEF CalmInv
<1>3. /\ start \in [Senders -> Starts] /\ duplicates \in Nat
      /\ known \in [Senders -> SUBSET Ids] /\ old \in [Senders -> SUBSET Ids]
      /\ count \in [Senders -> [Ids -> 0..MaxFragments]]
      /\ pieces \in [Senders -> [Ids -> Pieces]]
  BY DEF CalmInv, SafeInv, TypeOK, EntryInv
<1>4. \A s \in Senders : ~Restart(s)
  BY <1>2, <1>3 DEF Restart, Intact, Starts
<1>5. Intact
  <2>1. ASSUME NEW f \in net, Arrive(f) PROVE Intact
    BY <2>1, <1>2, <1>3 DEF Arrive, senderVars, Intact
  <2>2. CASE UNCHANGED <<start, duplicates>>
    BY <2>2, <1>2 DEF Intact
  <2> QED
    BY <2>1, <2>2, <1>4 DEF Next, vars, senderVars, netVars, Send, Expire, Clean, Reject, Store, Complete
<1>6. Calm
  BY <1>5 DEF CalmInv
<1>7. CASE \E s \in Senders, n \in Lengths : Send(s, n)
  BY <1>5, <1>7, SendCalm
<1>8. CASE \E s \in Senders, id \in Ids : Expire(s, id)
  BY <1>6, <1>8, LessCalm DEF Expire, senderVars, netVars
<1>9. CASE \E f \in net : Reject(f)
  BY <1>2, <1>5, <1>6, <1>9, ArriveCalm, LessCalm DEF Reject, entryVars
<1>10. CASE \E f \in net : Store(f)
  BY <1>2, <1>5, <1>10, StoreCalm
<1>11. CASE \E f \in net : Complete(f)
  BY <1>2, <1>5, <1>11, CompleteCalm
<1>12. CASE Clean
  <2>1. \A s \in Senders : /\ known'[s] \subseteq known[s]
                           /\ \A i \in known'[s] : /\ count'[s][i] = count[s][i]
                                                   /\ pieces'[s][i] = pieces[s][i]
    BY <1>3, <1>12 DEF Clean
  <2>2. net' \subseteq net /\ UNCHANGED <<start, currentId, packets, delivered>>
    BY <1>12 DEF Clean, senderVars, netVars
  <2> QED
    BY <1>6, <2>1, <2>2, LessCalm
<1>13. CASE UNCHANGED vars
  BY <1>6, <1>13, LessCalm DEF vars, senderVars, netVars, entryVars
<1> QED
  BY <1>4, <1>7, <1>8, <1>9, <1>10, <1>11, <1>12, <1>13 DEF Next

(* Without duplicates and restarts, whatever the network loses or reorders  *)
(* and the clean-up drops, handle() returns true only for a whole packet    *)
(* that was sent.                                                           *)
THEOREM WholePackets == Spec => []DeliveredWhole
<1>1. CalmInv => DeliveredWhole
  BY DEF CalmInv, Calm, Done, DoneWith, DeliveredWhole, ReconstructsPacket
<1> QED
  BY InitCalm, NextCalm, <1>1, PTL DEF Spec

(* ... and for each packet at most once.                                    *)
THEOREM PacketsOnce == Spec => []DeliveredOnce
<1>1. CalmInv => DeliveredOnce
  BY DEF CalmInv, Calm, Once, DeliveredOnce
<1> QED
  BY InitCalm, NextCalm, <1>1, PTL DEF Spec

-----------------------------------------------------------------------------
(* What holds of the pieces with duplicates and restarts too: a fragment    *)
(* under way, and a piece of an entry, bears the header of a packet that    *)
(* was sent, whichever start of its sender that was.                        *)
Header(s, i, x, n) == [from |-> s, id |-> i, start |-> x, count |-> n]
CutFor(s, i, n, k, part, sent) == part.place = k /\ Header(s, i, part.start, n) \in sent

Traced ==
  /\ \A f \in net : CutFor(f.from, f.id, f.count, f.index, f.data, packets)
  /\ \A s \in Senders : \A i \in known[s] : \A k \in DOMAIN pieces[s][i] :
       CutFor(s, i, count[s][i], k, pieces[s][i][k], packets)

InPlace(d, sent) ==
  \E n \in Lengths :
     /\ DOMAIN d.data = 0..(n - 1)
     /\ \A i \in 0..(n - 1) : d.data[i] # Hole =>
          CutFor(d.from, d.id, n, i, d.data[i], sent)

PlaceInv ==
  SafeInv /\ DeliveredType /\ Traced /\ \A k \in 1..Len(delivered) : InPlace(delivered[k], packets)

LEMMA InitPlace == Init => PlaceInv
<1> SUFFICES ASSUME Init PROVE PlaceInv
  OBVIOUS
<1>1. SafeInv /\ DeliveredType
  BY InitCalm DEF CalmInv
<1>2. Traced /\ delivered = << >>
  BY DEF Init, Traced
<1> QED
  BY <1>1, <1>2 DEF PlaceInv

(* Packets sent stay sent, so what bears the header of one keeps bearing it.*)
LEMMA PacketsGrow ==
  ASSUME PlaceInv, [Next]_vars PROVE packets \subseteq packets'
<1>1. ASSUME NEW f \in net, Arrive(f) PROVE packets \subseteq packets'
  BY <1>1 DEF Arrive, senderVars
<1> QED
  BY <1>1 DEF Next, vars, senderVars, Send, Restart, Expire, Clean, Reject, Store, Complete

(* The entries that are left are as they were, and nothing else is added.   *)
LEMMA LessTraced ==
  ASSUME PlaceInv, packets \subseteq packets',
         \A f \in net' : CutFor(f.from, f.id, f.count, f.index, f.data, packets'),
         \A s \in Senders : /\ known'[s] \subseteq known[s]
                            /\ \A i \in known'[s] : /\ count'[s][i] = count[s][i]
                                                    /\ pieces'[s][i] = pieces[s][i]
  PROVE  Traced'
  BY DEF PlaceInv, Traced, CutFor

LEMMA StoreTraced ==
  ASSUME PlaceInv, NEW f \in net, Store(f) PROVE Traced'
<1> USE FragmentAssumption
<1>1. /\ net' \subseteq net /\ UNCHANGED packets
      /\ f.from \in Senders /\ f.id \in Ids /\ SafeInv /\ Traced
  BY ArriveFact DEF Store, PlaceInv
<1>2. /\ known \in [Senders -> SUBSET Ids] /\ count \in [Senders -> [Ids -> 0..MaxFragments]]
      /\ pieces \in [Senders -> [Ids -> Pieces]]
  BY <1>1 DEF SafeInv, TypeOK, EntryInv
<1>3. /\ known' = [known EXCEPT ![f.from] = @ \cup {f.id}]
      /\ count'[f.from][f.id] = f.count
      /\ DOMAIN pieces'[f.from][f.id] = Stored(f) \cup {f.index}
      /\ \A k \in Stored(f) : k # f.index => pieces'[f.from][f.id][k] = pieces[f.from][f.id][k]
      /\ pieces'[f.from][f.id][f.index] = f.data
      /\ \A u \in Senders, i \in Ids : ~(u = f.from /\ i = f.id) =>
           count'[u][i] = count[u][i] /\ pieces'[u][i] = pieces[u][i]
  BY <1>1, <1>2 DEF Store
<1>4. \A k \in Stored(f) :
        /\ f.id \in known[f.from] /\ count[f.from][f.id] = f.count
        /\ CutFor(f.from, f.id, f.count, k, pieces[f.from][f.id][k], packets)
  BY <1>1, NoPiecesEmpty DEF Traced, Stored, SafeInv, EntryInv, Store, SameCount
<1>5. ASSUME NEW k \in DOMAIN pieces'[f.from][f.id]
      PROVE  CutFor(f.from, f.id, f.count, k, pieces'[f.from][f.id][k], packets)
  BY <1>1, <1>3, <1>4 DEF Traced
<1>6. ASSUME NEW u \in Senders, NEW i \in known'[u], ~(u = f.from /\ i = f.id)
      PROVE  i \in known[u] /\ i \in Ids
  BY <1>1, <1>2, <1>3, <1>6
<1>7. ASSUME NEW u \in Senders, NEW i \in known'[u], NEW k \in DOMAIN pieces'[u][i]
      PROVE  CutFor(u, i, count'[u][i], k, pieces'[u][i][k], packets')
  <2>1. CASE u = f.from /\ i = f.id
    BY <2>1, <1>1, <1>3, <1>5
  <2>2. CASE ~(u = f.from /\ i = f.id)
    BY <2>2, <1>1, <1>3, <1>6 DEF Traced
  <2> QED
    BY <2>1, <2>2
<1> QED
  BY <1>1, <1>7 DEF Traced

LEMMA CompleteInPlace ==
  ASSUME PlaceInv, NEW f \in net, Complete(f)
  PROVE  /\ Traced'
         /\ InPlace([from |-> f.from, id |-> f.id, data |-> Assembled(f)], packets)
<1> USE FragmentAssumption
<1>1. /\ net' \subseteq net /\ UNCHANGED packets
      /\ f.from \in Senders /\ f.id \in Ids /\ SafeInv /\ Traced /\ f \in Fragment
      /\ f.count \in Nat
  BY ArriveFact DEF Complete, PlaceInv
<1>2. /\ known \in [Senders -> SUBSET Ids] /\ count \in [Senders -> [Ids -> 0..MaxFragments]]
      /\ pieces \in [Senders -> [Ids -> Pieces]]
  BY <1>1 DEF SafeInv, TypeOK, EntryInv
<1>3. \A s \in Senders : /\ known'[s] \subseteq known[s]
                         /\ \A i \in known'[s] : /\ count'[s][i] = count[s][i]
                                                 /\ pieces'[s][i] = pieces[s][i]
  BY <1>1, <1>2 DEF Complete
<1>4. Traced'
  BY <1>1, <1>3, LessTraced DEF Traced
<1>5. f.count \in Lengths /\ DOMAIN Assembled(f) = 0..(f.count - 1)
  BY <1>1 DEF Fragment, Assembled
<1>6. \A k \in Stored(f) : CutFor(f.from, f.id, f.count, k, pieces[f.from][f.id][k], packets)
  BY <1>1, NoPiecesEmpty DEF Traced, Stored, SafeInv, EntryInv, Complete, SameCount
<1>7. \A i \in 0..(f.count - 1) : Assembled(f)[i] # Hole =>
        CutFor(f.from, f.id, f.count, i, Assembled(f)[i], packets)
  BY <1>1, <1>6 DEF Assembled, StoredAt, Traced
<1> QED
  BY <1>4, <1>5, <1>7 DEF InPlace

LEMMA NextPlace == PlaceInv /\ [Next]_vars => PlaceInv'
<1> SUFFICES ASSUME PlaceInv, [Next]_vars PROVE PlaceInv'
  OBVIOUS
<1> USE FragmentAssumption
<1>1. SafeInv' /\ SafeInv /\ packets \subseteq packets' /\ Traced
  BY NextSafe, PacketsGrow DEF PlaceInv
<1>2. /\ known \in [Senders -> SUBSET Ids] /\ old \in [Senders -> SUBSET Ids]
      /\ count \in [Senders -> [Ids -> 0..MaxFragments]]
      /\ pieces \in [Senders -> [Ids -> Pieces]]
      /\ start \in [Senders -> Starts]
      /\ delivered \in Seq([from : Senders, id : Ids, data : Data])
  BY DEF PlaceInv, DeliveredType, SafeInv, TypeOK, EntryInv
<1>3. ASSUME NEW d, InPlace(d, packets) PROVE InPlace(d, packets')
  BY <1>1, <1>3 DEF InPlace, CutFor, CutFor
<1>4. CASE \E f \in net : Complete(f)
  <2>1. PICK f \in net : Complete(f)
    BY <1>4
  <2> DEFINE d == [from |-> f.from, id |-> f.id, data |-> Assembled(f)]
  <2>2. Traced' /\ InPlace(d, packets)
    BY <2>1, CompleteInPlace
  <2>3. DeliveredType'
    <3>1. f.from \in Senders /\ f.id \in Ids /\ f.data \in Parts /\ f.count \in Nat
      BY <2>1, <1>1, ArriveFact DEF Complete
    <3>2. \A i \in Stored(f) : pieces[f.from][f.id][i] \in Parts
      BY <1>2, <3>1, PiecesFact DEF Stored
    <3>3. Assembled(f) \in Data
      BY <3>1, <3>2 DEF Assembled, StoredAt, Data
    <3>4. d \in [from : Senders, id : Ids, data : Data]
      BY <3>1, <3>3
    <3> HIDE DEF d
    <3> QED
      BY <1>2, <2>1, <3>4 DEF Complete, DeliveredType, d
  <2>4. \A k \in 1..Len(delivered') : delivered'[k] = d \/ (k \in 1..Len(delivered) /\ delivered'[k] = delivered[k])
    <3>1. delivered' = Append(delivered, d)
      BY <2>1 DEF Complete
    <3> HIDE DEF d
    <3> QED
      BY <3>1, <1>2
  <2>5. \A k \in 1..Len(delivered') : InPlace(delivered'[k], packets)
    <3> HIDE DEF d
    <3> QED
      BY <2>2, <2>4 DEF PlaceInv
  <2>6. \A k \in 1..Len(delivered') : InPlace(delivered'[k], packets')
    BY <2>5, <1>3
  <2> QED
    BY <1>1, <2>2, <2>3, <2>6 DEF PlaceInv
<1>5. ASSUME UNCHANGED delivered PROVE DeliveredType' /\ \A k \in 1..Len(delivered') : InPlace(delivered'[k], packets')
  BY <1>3, <1>5 DEF PlaceInv, DeliveredType
<1>6. CASE \E s \in Senders, n \in Lengths : Send(s, n)
  <2>1. PICK s \in Senders, n \in Lengths : Send(s, n)
    BY <1>6
  <2>2. \A f \in net' : f \in net \/ CutFor(f.from, f.id, f.count, f.index, f.data, packets')
    BY <2>1 DEF Send, Header, CutFor, Part
  <2>3. Traced'
    <3>1. \A f \in net' : CutFor(f.from, f.id, f.count, f.index, f.data, packets')
      BY <1>1, <2>2 DEF Traced, CutFor
    <3> QED
      BY <1>1, <2>1, <3>1, LessTraced DEF Send, entryVars
  <2> QED
    BY <1>1, <1>5, <2>1, <2>3 DEF Send, PlaceInv
<1>7. CASE \E f \in net : Store(f)
  BY <1>1, <1>5, <1>7, StoreTraced DEF Store, PlaceInv
<1>8. CASE \E f \in net : Reject(f)
  <2>1. PICK f \in net : Reject(f)
    BY <1>8
  <2>2. net' \subseteq net /\ UNCHANGED <<known, count, pieces, delivered>>
    BY <2>1, <1>1, ArriveFact DEF Reject, entryVars
  <2>3. Traced'
    <3>1. \A g \in net' : CutFor(g.from, g.id, g.count, g.index, g.data, packets')
      BY <1>1, <2>1, <2>2, ArriveFact DEF Traced, CutFor, Reject
    <3> QED
      BY <1>1, <2>2, <3>1, LessTraced
  <2> QED
    BY <1>1, <1>5, <2>2, <2>3 DEF PlaceInv
<1>9. CASE Clean
  <2>1. \A s \in Senders : /\ known'[s] \subseteq known[s]
                           /\ \A i \in known'[s] : /\ count'[s][i] = count[s][i]
                                                   /\ pieces'[s][i] = pieces[s][i]
    BY <1>2, <1>9 DEF Clean
  <2>2. UNCHANGED <<packets, net, delivered>>
    BY <1>9 DEF Clean, senderVars, netVars
  <2>3. Traced'
    BY <1>1, <2>1, <2>2, LessTraced DEF Traced
  <2> QED
    BY <1>1, <1>5, <2>2, <2>3 DEF PlaceInv
<1>10. CASE UNCHANGED <<packets, net, known, count, pieces, delivered>>
  BY <1>1, <1>5, <1>10 DEF PlaceInv, Traced
<1> QED
  BY <1>4, <1>6, <1>7, <1>8, <1>9, <1>10
  DEF Next, vars, senderVars, netVars, entryVars, Restart, Expire

(* Whatever is duplicated, whatever sender restarts and whatever clean()    *)
(* drops half-way, a packet handle() returns true for has as many pieces as *)
(* one its sender sent under that id, and each piece that is there is the   *)
(* part of such a packet that was cut from that place.                      *)
THEOREM PiecesInPlace == Spec => []DeliveredInPlace
<1>1. PlaceInv => DeliveredInPlace
  BY DEF PlaceInv, InPlace, CutFor, Header, DeliveredInPlace
<1> QED
  BY InitPlace, NextPlace, <1>1, PTL DEF Spec
=============================================================================
