-------------------------- MODULE FragmentHandler --------------------------
(***************************************************************************)
(* Fragmented packets over UDP, src/src/client/game/utils/                 *)
(* fragment_handler.cpp: a sender cuts a packet into numbered fragments    *)
(* under an id of its own, a receiver collects them per address and id,    *)
(* and a task of the async pipeline drops what has been incomplete for     *)
(* five seconds.  The network loses and reorders fragments and, in some    *)
(* runs, duplicates them; a sender may restart, and then counts its ids    *)
(* from 0 again.                                                           *)
(***************************************************************************)
EXTENDS Naturals, Sequences, FiniteSets

CONSTANTS
  Senders,        \* network addresses
  MaxFragments,   \* MAX_FRAGMENTS
  MaxId,          \* ids a sender gets to use (bound of the model)
  MaxPackets,     \* packets sent (bound of the model)
  MaxStarts,      \* times a sender program starts (bound of the model)
  Lengths,        \* fragments per packet
  MaxDuplicates,  \* fragments the network duplicates (bound of the model)
  Hole            \* the empty string operator[] makes up

ASSUME FragmentAssumption ==
  /\ MaxFragments \in Nat \ {0}
  /\ MaxId \in Nat
  /\ MaxStarts \in Nat \ {0}
  /\ MaxPackets \in Nat
  /\ Lengths \subseteq Nat
  /\ MaxDuplicates \in Nat

Ids == 0..MaxId
Starts == 1..MaxStarts
Indices == UNION {0..(n - 1) : n \in Lengths \ {0}}

(* construct_fragments: the content of the i-th fragment is the i-th part   *)
(* of the packet's bytes, and two packets that a restarted sender gives the *)
(* same id have different bytes: a part is known by the start of its sender *)
(* and by the place it was cut from, which handle() cannot read off it.     *)
Part(x, i) == [start |-> x, place |-> i]
Parts == [start : Starts, place : Indices]

ASSUME HoleAssumption == Hole \notin Parts

(* A fragment carries its header, with the index it is sent under, and its  *)
(* part of the bytes.                                                       *)
Fragment ==
  [from : Senders, id : Ids, count : Lengths \ {0}, index : Indices, data : Parts]

VARIABLES
  start,      \* which start of its program every sender is in
  currentId,  \* the sender's static current_id
  packets,    \* packets sent: [from, id, start, count]
  net,        \* fragments under way
  duplicates, \* fragments duplicated so far
  known,      \* receiver: ids with an entry, per address
  count,      \* fragment_count of an entry (0: not set)
  pieces,     \* fragments of an entry: index -> content
  old,        \* the entry's insertion time is more than 5s ago
  delivered   \* packets handle() returned true for, in order

senderVars == <<start, currentId, packets>>
entryVars == <<known, count, pieces, old>>
netVars == <<net, duplicates>>
vars == <<senderVars, netVars, entryVars, delivered>>

NoPieces == [i \in {} |-> 0]

Init ==
  /\ start = [s \in Senders |-> 1]
  /\ currentId = [s \in Senders |-> 0]
  /\ packets = {}
  /\ net = {}
  /\ duplicates = 0
  /\ known = [s \in Senders |-> {}]
  /\ count = [s \in Senders |-> [i \in Ids |-> 0]]
  /\ pieces = [s \in Senders |-> [i \in Ids |-> NoPieces]]
  /\ old = [s \in Senders |-> {}]
  /\ delivered = << >>

-----------------------------------------------------------------------------
(* Slip: every packet gets the same id.                                     *)
SendSameId(s, n) ==
  LET id == currentId[s] IN
  /\ id \in Ids /\ Cardinality(packets) < MaxPackets
  /\ packets' = packets \cup {[from |-> s, id |-> id, start |-> start[s], count |-> n]}
  /\ net' = net \cup {[from |-> s, id |-> id, count |-> n, index |-> i, data |-> Part(start[s], i)] :
                        i \in {j \in Indices : j < n}}
  /\ UNCHANGED <<start, currentId, duplicates, entryVars, delivered>>

(* fragment_data: one id, and one datagram per fragment.  Empty data sends  *)
(* nothing but uses up an id.                                               *)
Send(s, n) ==
  LET id == currentId[s] IN
  /\ id \in Ids /\ Cardinality(packets) < MaxPackets
  /\ currentId' = [currentId EXCEPT ![s] = id + 1]
  /\ packets' = packets \cup {[from |-> s, id |-> id, start |-> start[s], count |-> n]}
  /\ net' = net \cup {[from |-> s, id |-> id, count |-> n, index |-> i, data |-> Part(start[s], i)] :
                        i \in {j \in Indices : j < n}}
  /\ UNCHANGED <<start, duplicates, entryVars, delivered>>

(* The sender's program ends and starts anew on the same address.           *)
Restart(s) ==
  /\ start[s] < MaxStarts
  /\ start' = [start EXCEPT ![s] = @ + 1]
  /\ currentId' = [currentId EXCEPT ![s] = 0]
  /\ UNCHANGED <<packets, netVars, entryVars, delivered>>

(* A datagram arrives: any of those under way, so order is not kept, and a  *)
(* lost one is one that never does.  A duplicated one stays under way.      *)
Arrive(f) ==
  /\ f \in net
  /\ \/ net' = net \ {f} /\ UNCHANGED duplicates
     \/ duplicates < MaxDuplicates /\ duplicates' = duplicates + 1 /\ UNCHANGED net
  /\ UNCHANGED senderVars

-----------------------------------------------------------------------------
(* handle(), in its order of tests; the whole of it runs under global_map's *)
(* mutex.  Before some of the tests stands the slip a property catches.     *)
UncheckedCount(f) == f.count # 0 /\ f.index < f.count
Valid(f) == f.count # 0 /\ f.count <= MaxFragments /\ f.index < f.count

Full(s) == Cardinality(known[s]) > MaxFragments

Admitted(f) == Valid(f) /\ (f.id \in known[f.from] \/ ~Full(f.from))

SameCount(f) == f.id \notin known[f.from] \/ count[f.from][f.id] = f.count

Stored(f) == DOMAIN pieces[f.from][f.id]
AllButStored(f) == Cardinality(Stored(f)) >= f.count
Last(f) == Cardinality(Stored(f)) + 1 >= f.count

(* A bad header, a full table or another count: return false.               *)
Reject(f) ==
  /\ Arrive(f)
  /\ ~Admitted(f) \/ ~SameCount(f)
  /\ UNCHANGED <<entryVars, delivered>>

(* Slip: the fragments of an entry are kept in the order they arrive in.    *)
StoreInTurn(f) ==
  LET next == Cardinality(Stored(f)) IN
  /\ Arrive(f)
  /\ Admitted(f) /\ SameCount(f) /\ ~Last(f)
  /\ known' = [known EXCEPT ![f.from] = @ \cup {f.id}]
  /\ count' = [count EXCEPT ![f.from][f.id] = f.count]
  /\ pieces' = [pieces EXCEPT ![f.from][f.id] =
       [i \in Stored(f) \cup {next} |-> IF i = next THEN f.data ELSE @[i]]]
  /\ UNCHANGED <<old, delivered>>

(* Not the last fragment: keep it, in place of one of the same index.       *)
Store(f) ==
  /\ Arrive(f)
  /\ Admitted(f) /\ SameCount(f) /\ ~Last(f)
  /\ known' = [known EXCEPT ![f.from] = @ \cup {f.id}]
  /\ count' = [count EXCEPT ![f.from][f.id] = f.count]
  /\ pieces' = [pieces EXCEPT ![f.from][f.id] =
       [i \in Stored(f) \cup {f.index} |-> IF i = f.index THEN f.data ELSE @[i]]]
  /\ UNCHANGED <<old, delivered>>

StoredAt(f, i) == IF i \in Stored(f) THEN pieces[f.from][f.id][i] ELSE Hole

(* Slip: the fragment that arrived last is appended last.                   *)
AssembledLastAtEnd(f) ==
  [i \in 0..(f.count - 1) |->
     IF i = f.count - 1 THEN f.data ELSE StoredAt(f, IF i < f.index THEN i ELSE i + 1)]

(* The parts in the order handle() appends them in.                         *)
Assembled(f) ==
  [i \in 0..(f.count - 1) |-> IF i = f.index THEN f.data ELSE StoredAt(f, i)]

(* One fragment short of the count: put the packet together, forget the     *)
(* entry and return true.                                                   *)
Complete(f) ==
  /\ Arrive(f)
  /\ Admitted(f) /\ SameCount(f) /\ Last(f)
  /\ delivered' = Append(delivered, [from |-> f.from, id |-> f.id, data |-> Assembled(f)])
  /\ known' = [known EXCEPT ![f.from] = @ \ {f.id}]
  /\ count' = [count EXCEPT ![f.from][f.id] = 0]
  /\ pieces' = [pieces EXCEPT ![f.from][f.id] = NoPieces]
  /\ old' = [old EXCEPT ![f.from] = @ \ {f.id}]

(* Five seconds pass for an entry.                                          *)
Expire(s, id) ==
  /\ id \in known[s] \ old[s]
  /\ old' = [old EXCEPT ![s] = @ \cup {id}]
  /\ UNCHANGED <<senderVars, netVars, known, count, pieces, delivered>>

(* Slip: the entries are erased from a copy of the address's table.         *)
CleanCopy ==
  /\ \E s \in Senders : old[s] # {}
  /\ UNCHANGED vars

(* clean(): every entry that is old is erased.                              *)
Clean ==
  /\ \E s \in Senders : old[s] # {}
  /\ known' = [s \in Senders |-> known[s] \ old[s]]
  /\ count' = [s \in Senders |-> [i \in Ids |-> IF i \in old[s] THEN 0 ELSE count[s][i]]]
  /\ pieces' = [s \in Senders |-> [i \in Ids |-> IF i \in old[s] THEN NoPieces ELSE pieces[s][i]]]
  /\ old' = [s \in Senders |-> {}]
  /\ UNCHANGED <<senderVars, netVars, delivered>>

Next ==
  \/ \E s \in Senders : \/ \E n \in Lengths : Send(s, n)
                        \/ Restart(s)
                        \/ \E id \in Ids : Expire(s, id)
  \/ \E f \in net : Reject(f) \/ Store(f) \/ Complete(f)
  \/ Clean

Spec == Init /\ [][Next]_vars

(* Time passes for every entry and the clean-up task keeps being called.    *)
FairSpec ==
  /\ Spec
  /\ WF_vars(Clean)
  /\ \A s \in Senders, id \in Ids : WF_vars(Expire(s, id))

-----------------------------------------------------------------------------
TypeOK ==
  /\ start \in [Senders -> Starts]
  /\ currentId \in [Senders -> Nat]
  /\ packets \subseteq [from : Senders, id : Ids, start : Starts, count : Lengths]
  /\ net \subseteq Fragment
  /\ duplicates \in 0..MaxDuplicates
  /\ known \in [Senders -> SUBSET Ids]
  /\ count \in [Senders -> [Ids -> 0..MaxFragments]]
  /\ \A s \in Senders, i \in Ids :
       /\ DOMAIN pieces[s][i] \subseteq 0..(MaxFragments - 1)
       /\ \A k \in DOMAIN pieces[s][i] : pieces[s][i][k] \in Parts
  /\ old \in [Senders -> SUBSET Ids]
  /\ \A s \in Senders : old[s] \subseteq known[s]

(* A delivered packet is one its sender sent: all of its parts, each once   *)
(* and in the place it was cut from.                                        *)
Whole(d) ==
  \E p \in packets :
     /\ p.from = d.from /\ p.id = d.id
     /\ d.data = [i \in 0..(p.count - 1) |-> Part(p.start, i)]

(* "Reconstruct final_packet": the packet returned is one that was sent.    *)
ReconstructsPacket == \A k \in 1..Len(delivered) : Whole(delivered[k])

(* As long as no fragment is duplicated and no sender restarts, every       *)
(* packet handle() returns true for is whole and its parts in their order,  *)
(* whatever is lost or reordered and whatever clean() drops half-way ...    *)
Intact == duplicates = 0 /\ \A s \in Senders : start[s] = 1

DeliveredWhole == Intact => ReconstructsPacket

(* ... and none is handed on twice.                                         *)
DeliveredOnce ==
  Intact => \A j, k \in 1..Len(delivered) :
     delivered[j].from = delivered[k].from /\ delivered[j].id = delivered[k].id => j = k

(* Even with duplicates, restarts and entries dropped half-way, a packet    *)
(* has as many pieces as some packet of that sender and id, and every piece *)
(* that is there is the part of such a packet that was cut from that place. *)
DeliveredInPlace ==
  \A k \in 1..Len(delivered) :
     LET d == delivered[k] IN
     \E n \in Lengths :
        /\ DOMAIN d.data = 0..(n - 1)
        /\ \A i \in 0..(n - 1) : d.data[i] # Hole =>
             /\ d.data[i].place = i
             /\ [from |-> d.from, id |-> d.id, start |-> d.data[i].start, count |-> n]
                  \in packets

(* "Check if the user_map is full": the entries kept for one address are    *)
(* bounded (by one more than the constant, which is compared with >).       *)
BoundedEntries == \A s \in Senders : Cardinality(known[s]) <= MaxFragments + 1

(* An entry never holds a whole packet: the fragment that would complete it *)
(* always takes it out of the table.                                        *)
EntriesIncomplete ==
  \A s \in Senders : \A i \in known[s] :
     /\ count[s][i] \in 1..MaxFragments
     /\ DOMAIN pieces[s][i] \subseteq 0..(count[s][i] - 1)
     /\ DOMAIN pieces[s][i] # {} /\ Cardinality(DOMAIN pieces[s][i]) < count[s][i]

(* Nothing incomplete stays for ever: every entry is completed or cleaned.  *)
EntriesGo == \A s \in Senders, i \in Ids : i \in known[s] ~> i \notin known[s]
=============================================================================
