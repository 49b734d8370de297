----------------------------- MODULE LootProofs -----------------------------
(***************************************************************************)
(* The file of the inventory is durable, its listing complete and its      *)
(* balances never overdrawn, for any items, prices, crates, missions and   *)
(* length of a page.  For the first two, what the tasks do to the          *)
(* inventory is of no account, only when they save it, what they answer    *)
(* and what a page takes of a list.                                        *)
(***************************************************************************)
EXTENDS Loot, NaturalsInduction, FiniteSetTheorems, TLAPS

(* The inventories there can be on a day: a login has counted at most once  *)
(* for each turn of the clock, so that another day has room.                *)
Books(day, turn) ==
  {r \in Inventory : r.days <= turn /\ (r.last # day => r.days < turn)}

TypeInv ==
  /\ today \in Nat /\ turns \in Nat \ {0}
  /\ mem = Unloaded \/ mem \in Books(today, turns)
  /\ disk \in {NoFile, Torn} \/ disk \in Books(today, turns)
  /\ toSave \in Seq(Books(today, turns))
  /\ cached \in BOOLEAN /\ dud \in BOOLEAN /\ index \in 0..MaxIndex
  /\ mem = Unloaded => answer = NoAnswer /\ toSave = << >>

LEMMA InitInv == Init => IInv
<1> SUFFICES ASSUME Init PROVE IInv
  OBVIOUS
<1>1. toSave \in Seq(inFlight)
  BY DEF Init
<1> QED
  BY <1>1, LootAssumption DEF Init, IInv, Durable, PendingInv, MemoryInv, Held

(* The ways in which a task saves: once or, at a login, twice what it ends  *)
(* with, or not at all when it leaves the inventory alone or is a claim     *)
(* refused, of a crate that was owned and therefore read from a file.       *)
Saves(r, saves, reply) ==
  \/ saves = << >> /\ r = Loaded /\ UNCHANGED refused
  \/ saves = << >> /\ reply = "error" /\ refused' = TRUE /\ FirstSave = << >>
  \/ saves \in {<<r>>, <<r, r>>} /\ reply = "ok" /\ UNCHANGED refused

(* What a task leaves to be written is what it has in flight.               *)
LEMMA TaskPending ==
  ASSUME NEW r, NEW saves, NEW reply \in {"ok", "error"},
         Saves(r, saves, reply), Task(r, saves, reply)
  PROVE  /\ toSave' \in Seq(inFlight')
         /\ saves # << >> => toSave' # << >> /\ Last(toSave') = r
         /\ saves = << >> => toSave' = FirstSave
<1>1. /\ toSave' = FirstSave \o saves
      /\ inFlight' = {toSave'[i] : i \in DOMAIN toSave'}
  BY DEF Task, ToSet
<1>2. FirstSave = << >> \/ FirstSave = <<Fresh>>
  BY DEF FirstSave
<1>3. saves = << >> \/ saves = <<r>> \/ saves = <<r, r>>
  BY DEF Saves
<1> DEFINE S == {Fresh, r}
<1>a. FirstSave \in Seq(S) /\ saves \in Seq(S) /\ Fresh \in S /\ r \in S
  <2>1. Fresh \in S /\ r \in S
    OBVIOUS
  <2> HIDE DEF S
  <2>2. << >> \in Seq(S) /\ <<Fresh>> \in Seq(S) /\ <<r>> \in Seq(S) /\ <<r, r>> \in Seq(S)
    BY <2>1
  <2> QED
    BY <1>2, <1>3, <2>1, <2>2
<1>b. saves # << >> => Len(saves) > 0 /\ saves[Len(saves)] = r
  BY <1>3
<1> HIDE DEF S
<1>4. toSave' \in Seq(S)
  BY <1>1, <1>a
<1>5. toSave' \in Seq(inFlight')
  <2>1. toSave' \in [1..Len(toSave') -> S] /\ Len(toSave') \in Nat
    BY <1>4
  <2>2. toSave' \in [1..Len(toSave') -> inFlight']
    BY <1>1, <2>1
  <2> QED
    BY <2>1, <2>2
<1>6. ASSUME saves # << >> PROVE toSave' # << >> /\ Last(toSave') = r
  BY <1>1, <1>a, <1>b, <1>6 DEF Last
<1>7. ASSUME saves = << >> PROVE toSave' = FirstSave
  BY <1>1, <1>2, <1>7
<1> QED
  BY <1>5, <1>6, <1>7

LEMMA TaskStep ==
  ASSUME IInv, NEW r, NEW saves, NEW reply \in {"ok", "error"},
         Saves(r, saves, reply), Task(r, saves, reply)
  PROVE  IInv'
<1>1. /\ toSave' \in Seq(inFlight')
      /\ saves # << >> => toSave' # << >> /\ Last(toSave') = r
      /\ saves = << >> => toSave' = FirstSave
  BY TaskPending
<1>2. /\ answer = NoAnswer /\ toSave = << >> /\ ~writing
      /\ disk' = disk /\ mem' = r /\ answer' = reply /\ writing' = writing
      /\ NoAnswer \notin {"ok", "error"}
  BY LootAssumption DEF IInv, PendingInv, Task
<1>3. CASE mem = Unloaded
  <2>1. promised' = Held /\ Held' = Held /\ failed' = FALSE /\ Loaded = Held
    BY <1>2, <1>3 DEF Task, Held, Loaded, Readable
  <2>2. FirstSave # << >> => FirstSave = <<Held>>
    BY DEF FirstSave, Held
  <2>3. Durable'
    BY <1>2, <2>1 DEF Durable, Saves
  <2>4. PendingInv'
    <3>1. saves = << >> /\ toSave' # << >> => toSave' = <<Held>> /\ r = Held /\ Last(toSave') = Held
      BY <1>1, <2>1, <2>2 DEF Saves, Last
    <3> QED
      BY <1>1, <1>2, <2>1, <3>1 DEF PendingInv, Saves
  <2>5. MemoryInv'
    BY <1>1, <1>2, <2>1 DEF MemoryInv, Saves
  <2> QED
    BY <2>3, <2>4, <2>5 DEF IInv
<1>4. CASE mem # Unloaded
  <2>1. /\ promised' = promised /\ Held' = Held /\ failed' = failed
        /\ Loaded = mem /\ FirstSave = << >>
        /\ ~refused => mem = promised
        /\ ~failed => Held = promised
    BY <1>2, <1>4 DEF Task, Held, Loaded, FirstSave, IInv, Durable, MemoryInv
  <2>2. Durable'
    BY <1>2, <2>1 DEF Durable, Saves
  <2>3. PendingInv'
    BY <1>1, <1>2, <2>1 DEF PendingInv, Saves
  <2>4. MemoryInv'
    BY <1>1, <1>2, <2>1 DEF MemoryInv, Saves
  <2> QED
    BY <2>2, <2>3, <2>4 DEF IInv
<1> QED
  BY <1>3, <1>4

-----------------------------------------------------------------------------
(* bdMarketplace.                                                           *)
LEMMA PurchaseStep ==
  ASSUME IInv, NEW i, NEW n, NEW currency, NEW cost, Purchase(i, n, currency, cost)
  PROVE  IInv'
<1> DEFINE r == Give(Pay(Loaded, currency, cost), i, n)
<1>1. UNCHANGED refused /\ (Task(Loaded, << >>, "error") \/ Task(r, <<r>>, "ok"))
  BY Zenon DEF Purchase
<1>2. Saves(Loaded, << >>, "error") /\ Saves(r, <<r>>, "ok")
  BY <1>1 DEF Saves
<1> HIDE DEF r
<1> QED
  BY <1>1, <1>2, TaskStep

(* A task that saves what it ends with, once, or nothing as it has changed  *)
(* nothing.                                                                 *)
LEMMA SavedStep ==
  ASSUME IInv, UNCHANGED refused,
         \/ \E r : Task(r, <<r>>, "ok")
         \/ \E reply \in {"ok", "error"} : Task(Loaded, << >>, reply)
  PROVE  IInv'
<1>1. ASSUME NEW r, Task(r, <<r>>, "ok") PROVE IInv'
  <2>1. Saves(r, <<r>>, "ok")
    BY DEF Saves
  <2> QED
    BY <1>1, <2>1, TaskStep
<1>2. ASSUME NEW reply \in {"ok", "error"}, Task(Loaded, << >>, reply) PROVE IInv'
  <2>1. Saves(Loaded, << >>, reply)
    BY DEF Saves
  <2> QED
    BY <1>2, <2>1, TaskStep
<1> QED
  BY <1>1, <1>2

LEMMA MarketplaceSteps ==
  ASSUME IInv,
         \/ \E i \in Items, n \in Quantities : BuySchematic(i, n)
         \/ \E c \in Crates, n \in Quantities, currency \in {"keys", "codpoints"} :
              BuyCrate(c, n, currency)
         \/ GetBalance
         \/ \E i \in Items, left \in 1..MaxBalance : PawnItem(i, left)
         \/ \E first \in BOOLEAN : GetInventoryPage(first)
  PROVE  IInv'
<1>1. ASSUME NEW i \in Items, NEW n \in Quantities, BuySchematic(i, n) PROVE IInv'
  BY <1>1, PurchaseStep DEF BuySchematic
<1>2. ASSUME NEW c \in Crates, NEW n \in Quantities, NEW currency \in {"keys", "codpoints"},
             BuyCrate(c, n, currency)
      PROVE  IInv'
  BY <1>2, PurchaseStep DEF BuyCrate
<1>3. ASSUME GetBalance PROVE IInv'
  BY <1>3, SavedStep DEF GetBalance
<1>4. ASSUME NEW i \in Items, NEW left \in 1..MaxBalance, PawnItem(i, left) PROVE IInv'
  <2>1. UNCHANGED refused /\ \E r : Task(r, <<r>>, "ok")
    BY <1>4, Zenon DEF PawnItem
  <2> QED
    BY <2>1, SavedStep
<1>5. ASSUME NEW first \in BOOLEAN, GetInventoryPage(first) PROVE IInv'
  <2> DEFINE r == GrantHeroes(Loaded)
  <2>1. UNCHANGED refused /\ Task(r, IF r = Loaded THEN << >> ELSE <<r>>, "ok")
    BY <1>5, Zenon DEF GetInventoryPage
  <2> HIDE DEF r
  <2>2. Task(r, <<r>>, "ok") \/ Task(Loaded, << >>, "ok")
    BY <2>1, Zenon
  <2> QED
    BY <2>1, <2>2, SavedStep
<1> QED
  BY <1>1, <1>2, <1>3, <1>4, <1>5

-----------------------------------------------------------------------------
(* bdReward.                                                                *)
LEMMA LoginSteps ==
  ASSUME IInv, DudDailyLogin \/ DailyLogin PROVE IInv'
<1>1. ASSUME DudDailyLogin PROVE IInv'
  BY <1>1 DEF DudDailyLogin, IInv, Durable, PendingInv, MemoryInv, Held, history
<1>2. ASSUME DailyLogin PROVE IInv'
  <2>1. UNCHANGED refused /\ \E r : \E saves \in {<<r>>, <<r, r>>} : Task(r, saves, "ok")
    BY <1>2, Zenon DEF DailyLogin
  <2>2. PICK r : \E saves \in {<<r>>, <<r, r>>} : Task(r, saves, "ok")
    BY <2>1
  <2>3. PICK saves \in {<<r>>, <<r, r>>} : Task(r, saves, "ok")
    BY <2>2
  <2>4. Saves(r, saves, "ok")
    BY <2>1 DEF Saves
  <2> QED
    BY <2>3, <2>4, TaskStep
<1> QED
  BY <1>1, <1>2

(* A crate that was taken was owned: the file was there to say so.          *)
LEMMA ClaimStep ==
  ASSUME IInv, NEW c \in Crates, NEW unlockAll \in BOOLEAN, ClaimLootCrate(c, unlockAll)
  PROVE  IInv'
<1> DEFINE taken == IF unlockAll THEN Loaded ELSE [Loaded EXCEPT !.item[c] = Loaded.item[c] - 1]
<1>1. \/ Task(Loaded, << >>, "error") /\ UNCHANGED refused
      \/ /\ Loaded.item[c] > 0 \/ unlockAll
         /\ Task(taken, << >>, "error") /\ refused' = IF unlockAll THEN refused ELSE TRUE
      \/ (\E r : Task(r, <<r>>, "ok")) /\ UNCHANGED refused
  BY Zenon DEF ClaimLootCrate
<1>2. CASE unlockAll
  <2>1. taken = Loaded
    BY <1>2
  <2> HIDE DEF taken
  <2> QED
    BY <1>1, <1>2, <2>1, SavedStep
<1>3. CASE ~unlockAll
  <2>1. ASSUME Loaded.item[c] > 0 PROVE FirstSave = << >>
    <3>1. Fresh.item[c] = 0 \/ c \notin Ids
      BY DEF Fresh
    <3>2. c \in Ids
      BY LootAssumption DEF Ids
    <3>3. FirstSave # << >> => Loaded = Fresh
      BY DEF FirstSave, Loaded, Held
    <3> QED
      BY <2>1, <3>1, <3>2, <3>3
  <2>2. ASSUME Loaded.item[c] > 0, Task(taken, << >>, "error"), refused' = IF unlockAll THEN refused ELSE TRUE
        PROVE  IInv'
    <3> HIDE DEF taken
    <3>1. Saves(taken, << >>, "error")
      BY <1>3, <2>1, <2>2 DEF Saves
    <3> QED
      BY <2>2, <3>1, TaskStep
  <2> HIDE DEF taken
  <2> QED
    BY <1>1, <1>3, <2>2, SavedStep
<1> QED
  BY <1>2, <1>3

LEMMA MissionSteps ==
  ASSUME IInv,
         \/ \E match \in Matches : EndMission(match)
         \/ EndTeam
         \/ \E picks \in Contracts : EndContract(picks)
  PROVE  IInv'
<1> DEFINE Saved == /\ UNCHANGED refused
                    /\ (\E r : Task(r, <<r>>, "ok")) \/ Task(Loaded, << >>, "ok")
<1>1. ASSUME NEW match \in Matches, EndMission(match) PROVE Saved
  BY <1>1, Zenon DEF EndMission
<1>2. ASSUME EndTeam PROVE Saved
  BY <1>2, Zenon DEF EndTeam
<1>3. ASSUME NEW picks \in Contracts, EndContract(picks) PROVE Saved
  BY <1>3, Zenon DEF EndContract
<1> QED
  BY <1>1, <1>2, <1>3, SavedStep

-----------------------------------------------------------------------------
(* The writes of a task, one after the other.                               *)
LEMMA TailFacts ==
  ASSUME NEW S, NEW q \in Seq(S), q # << >>
  PROVE  /\ Head(q) \in S /\ Tail(q) \in Seq(S)
         /\ Tail(q) # << >> => Last(Tail(q)) = Last(q)
         /\ Tail(q) = << >> => Head(q) = Last(q)
<1>1. Len(q) \in Nat \ {0} /\ Head(q) = q[1] /\ Head(q) \in S
  OBVIOUS
<1>2. /\ Tail(q) \in Seq(S) /\ Len(Tail(q)) = Len(q) - 1
      /\ \A i \in 1..(Len(q) - 1) : Tail(q)[i] = q[i + 1]
  OBVIOUS
<1>3. ASSUME Tail(q) # << >> PROVE Last(Tail(q)) = Last(q)
  <2>1. Len(q) - 1 \in 1..(Len(q) - 1)
    BY <1>1, <1>2, <1>3
  <2> QED
    BY <1>1, <1>2, <2>1 DEF Last
<1>4. ASSUME Tail(q) = << >> PROVE Head(q) = Last(q)
  <2> DEFINE t == Tail(q)
  <2>1. t \in Seq(S) /\ Len(t) = Len(q) - 1 /\ t = << >>
    BY <1>2, <1>4
  <2> HIDE DEF t
  <2>2. Len(q) = 1
    BY <1>1, <2>1
  <2> QED
    BY <1>1, <2>2 DEF Last
<1> QED
  BY <1>1, <1>2, <1>3, <1>4

LEMMA WriteSteps ==
  ASSUME TypeInv, IInv, OpenFile \/ FinishFile \/ WriteFails PROVE IInv'
<1> USE DEF history
<1>1. ASSUME OpenFile PROVE IInv'
  BY <1>1, LootAssumption DEF OpenFile, IInv, Durable, PendingInv, MemoryInv, Held
<1>2. ASSUME toSave # << >>
      PROVE  /\ Head(toSave) \in inFlight /\ Tail(toSave) \in Seq(inFlight)
             /\ Head(toSave) # NoFile
             /\ answer # NoAnswer /\ mem # Unloaded
             /\ answer = "ok" => IF Tail(toSave) = << >> THEN Head(toSave) = mem
                                                         ELSE Last(Tail(toSave)) = mem
             /\ answer = "error" => /\ Head(toSave) = promised /\ Tail(toSave) = << >>
                                    /\ mem = promised
  <2>1. Head(toSave) # NoFile
    <3>1. Head(toSave) \in Books(today, turns)
      BY <1>2, TailFacts DEF TypeInv
    <3> QED
      BY <3>1, LootAssumption DEF Books
  <2>2. toSave \in Seq(inFlight) /\ answer # NoAnswer /\ mem # Unloaded
    BY <1>2 DEF IInv, PendingInv, TypeInv
  <2>3. /\ Head(toSave) \in inFlight /\ Tail(toSave) \in Seq(inFlight)
        /\ Tail(toSave) # << >> => Last(Tail(toSave)) = Last(toSave)
        /\ Tail(toSave) = << >> => Head(toSave) = Last(toSave)
    BY <1>2, <2>2, TailFacts
  <2>4. answer = "ok" => Last(toSave) = mem
    BY <1>2 DEF IInv, PendingInv
  <2>5. answer = "error" => toSave = <<promised>> /\ mem = promised
    BY <1>2 DEF IInv, PendingInv
  <2>6. toSave = <<promised>> => Head(toSave) = promised /\ Tail(toSave) = << >>
    OBVIOUS
  <2> QED
    BY <2>1, <2>2, <2>3, <2>4, <2>5, <2>6
<1>3. ASSUME FinishFile PROVE IInv'
  <2>1. toSave # << >>
    BY <1>3 DEF FinishFile, IInv, PendingInv
  <2>2. Held' = Head(toSave)
    BY <1>2, <1>3, <2>1 DEF FinishFile, Held
  <2>3. answer = "ok" \/ answer = "error"
    BY <1>2, <2>1 DEF IInv, PendingInv
  <2> QED
    BY <1>2, <1>3, <2>1, <2>2, <2>3, LootAssumption DEF FinishFile, IInv, Durable, PendingInv, MemoryInv
<1>4. ASSUME WriteFails PROVE IInv'
  BY <1>2, <1>4, LootAssumption DEF WriteFails, IInv, Durable, PendingInv, MemoryInv, Held
<1> QED
  BY <1>1, <1>3, <1>4

(* The end of a task: nothing is in flight any more.                        *)
LEMMA ReplyStep ==
  ASSUME TypeInv, IInv, Reply PROVE IInv'
<1>1. toSave' = << >> /\ toSave' \in Seq(inFlight')
  BY DEF Reply
<1>2. answer = "ok" \/ answer = "error"
  BY DEF IInv, PendingInv, Reply
<1>3. Durable' /\ MemoryInv'
  <2>1. mem # Unloaded
    BY LootAssumption DEF TypeInv, Reply
  <2> QED
    BY <1>1, <1>2, <2>1, LootAssumption DEF Reply, IInv, Durable, PendingInv, MemoryInv, Held
<1>4. PendingInv'
  BY <1>1, LootAssumption DEF Reply, IInv, PendingInv
<1> QED
  BY <1>3, <1>4 DEF IInv

LEMMA OtherSteps ==
  ASSUME IInv, Unreadable \/ Crash \/ DayTurns \/ UNCHANGED vars PROVE IInv'
<1> USE DEF IInv, Durable, PendingInv, MemoryInv, Held, history
<1>1. ASSUME Unreadable PROVE IInv'
  BY <1>1 DEF Unreadable
<1>2. ASSUME Crash PROVE IInv'
  <2>1. << >> \in Seq(inFlight')
    OBVIOUS
  <2> QED
    BY <1>2, <2>1, LootAssumption DEF Crash, Forgotten
<1>3. ASSUME DayTurns PROVE IInv'
  BY <1>3 DEF DayTurns
<1>4. ASSUME UNCHANGED vars PROVE IInv'
  BY <1>4 DEF vars
<1> QED
  BY <1>1, <1>2, <1>3, <1>4

-----------------------------------------------------------------------------
(* The listing.  Before a page that is not the last, the pages so far are   *)
(* as many items of the list as the static index says.                      *)
Begun ==
  /\ index \in Nat /\ ended \in BOOLEAN
  /\ ended => index = 0
  /\ listed = Changed \/ listed \in Seq({listed[k] : k \in 1..Len(listed)})
  /\ listed = Changed \/ ended \/ index <= Len(listed)

ListInv == Begun /\ ListingComplete

LEMMA OwnedFacts ==
  ASSUME NEW r
  PROVE  Owned(r) \in Seq({Owned(r)[k] : k \in 1..Len(Owned(r))})
<1> DEFINE S == {i \in Items : r.item[i] > 0}  n == Cardinality(S)  o == Owned(r)
           e == [k \in 1..n |-> CHOOSE i \in S : Rank(S, i) = k]
<1>1. n \in Nat
  <2>1. S \in SUBSET Items /\ IsFiniteSet(Items)
    BY LootAssumption
  <2> HIDE DEF S
  <2> QED
    BY <2>1, FS_Subset, FS_CardinalityType
<1>2. o = e
  BY DEF Owned, InOrder
<1>3. DOMAIN e = 1..n
  OBVIOUS
<1> HIDE DEF n, o, e
<1>4. o \in Seq({o[k] : k \in 1..n}) /\ Len(o) = n
  <2>1. e = [k \in 1..n |-> e[k]]
    BY DEF e
  <2>2. o \in [1..n -> {o[k] : k \in 1..n}]
    BY <1>2, <2>1
  <2> QED
    BY <1>1, <2>2
<1> QED
  BY <1>4 DEF o

(* Two neighbouring parts of a list, and all of it.                         *)
LEMMA Parts ==
  ASSUME NEW S, NEW s \in Seq(S), NEW a \in 0..Len(s), NEW b \in a..Len(s)
  PROVE  /\ Len(SubSeq(s, a + 1, b)) = b - a
         /\ SubSeq(s, 1, a) \o SubSeq(s, a + 1, b) = SubSeq(s, 1, b)
         /\ SubSeq(s, 1, Len(s)) = s
<1> DEFINE h == SubSeq(s, 1, a)  t == SubSeq(s, a + 1, b)  w == SubSeq(s, 1, b)
<1>1. Len(s) \in Nat /\ a \in Nat /\ b \in Nat /\ a <= b /\ b <= Len(s)
  OBVIOUS
<1>2. /\ h \in Seq(S) /\ Len(h) = a /\ \A k \in 1..a : h[k] = s[k]
  BY <1>1
<1>3. /\ t \in Seq(S) /\ Len(t) = b - a /\ \A k \in 1..(b - a) : t[k] = s[a + k]
  <2>1. \A k \in 1..(b - a) : k + (a + 1) - 1 = a + k
    BY <1>1
  <2> QED
    BY <1>1, <2>1
<1>4. /\ w \in Seq(S) /\ Len(w) = b /\ \A k \in 1..b : w[k] = s[k]
  BY <1>1
<1>5. SubSeq(s, 1, Len(s)) = s
  OBVIOUS
<1> HIDE DEF h, t, w
<1>6. h \o t = w
  <2> DEFINE u == h \o t
  <2>1. /\ u \in Seq(S) /\ Len(u) = a + (b - a)
        /\ \A k \in 1..a : u[k] = h[k]
        /\ \A k \in 1..(b - a) : u[a + k] = t[k]
    <3>1. h \in Seq(S) /\ t \in Seq(S) /\ Len(h) = a /\ Len(t) = b - a
      BY <1>2, <1>3
    <3>2. /\ u \in Seq(S) /\ Len(u) = Len(h) + Len(t)
          /\ \A k \in 1..Len(h) : u[k] = h[k]
          /\ \A k \in 1..Len(t) : u[Len(h) + k] = t[k]
      BY <3>1
    <3> HIDE DEF u
    <3> QED
      BY <3>1, <3>2
  <2> HIDE DEF u
  <2>3. Len(u) = b
    BY <1>1, <2>1
  <2>2. ASSUME NEW k \in 1..b PROVE u[k] = w[k]
    <3>1. CASE k <= a
      <4>1. k \in 1..a
        BY <1>1, <3>1
      <4> QED
        BY <1>2, <1>4, <2>1, <4>1
    <3>2. CASE k > a
      <4>1. k - a \in 1..(b - a) /\ a + (k - a) = k
        BY <1>1, <3>2
      <4>2. u[a + (k - a)] = t[k - a] /\ t[k - a] = s[a + (k - a)]
        BY <1>3, <2>1, <4>1
      <4> QED
        BY <1>4, <4>1, <4>2
    <3> QED
      BY <1>1, <3>1, <3>2
  <2>4. u = w
    BY <1>4, <2>1, <2>2, <2>3
  <2> QED
    BY <2>4 DEF u
<1> QED
  BY <1>3, <1>5, <1>6 DEF h, t, w

(* A page ends where the list does or a page length further.                *)
LEMMA PageFacts ==
  ASSUME NEW S, NEW owned \in Seq(S), index \in Nat, index <= Len(owned)
  PROVE  \E b \in index..Len(owned) :
           /\ PageAt(owned) = SubSeq(owned, index + 1, b)
           /\ b = index + PageSize \/ (b = Len(owned) /\ b < index + PageSize)
<1> DEFINE n == Len(owned)  b == Min({index + PageSize, n})
<1>1. n \in Nat /\ PageSize \in Nat \ {0}
  BY LootAssumption
<1>2. PageAt(owned) = SubSeq(owned, index + 1, b)
  <2>1. ~(index > n)
    BY <1>1
  <2> QED
    BY <2>1, Zenon DEF PageAt
<1>3. b \in {index + PageSize, n} /\ b <= n /\ b <= index + PageSize
  <2> HIDE DEF n
  <2>1. \E x \in {index + PageSize, n} : \A y \in {index + PageSize, n} : x <= y
    BY <1>1
  <2>2. b \in {index + PageSize, n} /\ \A y \in {index + PageSize, n} : b <= y
    BY <2>1 DEF Min
  <2> QED
    BY <2>2
<1> HIDE DEF b
<1>4. b \in index..n
  BY <1>1, <1>3
<1> QED
  BY <1>1, <1>2, <1>3, <1>4

(* However large the list, a page has at most as many items as asked for.   *)
LEMMA PageLength ==
  ASSUME NEW S, NEW owned \in Seq(S), index \in Nat
  PROVE  Len(PageAt(owned)) \in Nat /\ Len(PageAt(owned)) <= PageSize
<1>1. PageSize \in Nat /\ Len(owned) \in Nat
  BY LootAssumption
<1>2. CASE index > Len(owned)
  BY <1>1, <1>2 DEF PageAt
<1>3. CASE index <= Len(owned)
  <2>1. PICK b \in index..Len(owned) :
          /\ PageAt(owned) = SubSeq(owned, index + 1, b)
          /\ b = index + PageSize \/ (b = Len(owned) /\ b < index + PageSize)
    BY <1>3, PageFacts
  <2>2. Len(PageAt(owned)) = b - index
    BY <1>1, <1>3, <2>1, Parts
  <2> QED
    BY <1>1, <2>1, <2>2
<1> QED
  BY <1>1, <1>2, <1>3

LEMMA PageStep ==
  ASSUME ListInv, NEW first \in BOOLEAN, GetInventoryPage(first) PROVE ListInv'
<1> DEFINE owned == Owned(GrantHeroes(Loaded))  page == PageAt(owned)
           S == {owned[k] : k \in 1..Len(owned)}
<1>1. /\ index' = NextIndex(page)
      /\ first \/ ~ended
      /\ pages' = IF first THEN page ELSE pages \o page
      /\ ended' = (Len(page) < PageSize)
      /\ listed' = IF (first /\ ended) \/ (~first /\ listed = owned) THEN owned ELSE Changed
  BY DEF GetInventoryPage
<1>2. owned \in Seq(S)
  BY OwnedFacts
<1>3. PageSize \in Nat \ {0} /\ index \in Nat /\ Len(owned) \in Nat /\ ended \in BOOLEAN
  BY <1>2, LootAssumption DEF ListInv, Begun
<1> HIDE DEF owned
<1>4. Len(page) \in Nat /\ Len(page) <= PageSize
  BY <1>2, <1>3, PageLength
<1>8. ended' \in BOOLEAN /\ (ended' <=> Len(page) < PageSize)
  <2>1. \A P \in BOOLEAN : ended' = P => ended' \in BOOLEAN /\ (ended' <=> P)
    OBVIOUS
  <2>2. (Len(page) < PageSize) \in BOOLEAN
    OBVIOUS
  <2> QED
    BY <1>1, <2>1, <2>2, Zenon
<1> HIDE DEF page, S
<1>5. index' \in Nat /\ ended' \in BOOLEAN /\ (ended' => index' = 0)
  <2>1. CASE Len(page) = PageSize
    <3>1. index' = index + PageSize
      BY <1>1, <2>1, Zenon DEF NextIndex
    <3>2. ~(Len(page) < PageSize)
      BY <1>3, <2>1
    <3>3. ended' \in BOOLEAN /\ ~ended'
      BY <1>8, <3>2, Zenon
    <3>4. index' \in Nat
      BY <1>3, <3>1
    <3> QED
      BY <3>3, <3>4
  <2>2. CASE Len(page) # PageSize
    <3>1. index' = 0
      BY <1>1, <2>2, Zenon DEF NextIndex
    <3> QED
      BY <1>8, <3>1
  <2> QED
    BY <2>1, <2>2
<1>6. CASE ~((first /\ ended) \/ (~first /\ listed = owned))
  BY <1>1, <1>5, <1>6 DEF ListInv, Begun, ListingComplete
<1>7. CASE (first /\ ended) \/ (~first /\ listed = owned)
  <2>1. listed' = owned
    BY <1>1, <1>7
  <2>2. listed' \in Seq({listed'[k] : k \in 1..Len(listed')})
    BY <1>2, <2>1 DEF S
  <2>3. CASE owned = Changed
    BY <1>5, <2>1, <2>3 DEF ListInv, Begun, ListingComplete
  <2>4. CASE owned # Changed
    <3>1. index <= Len(owned)
      BY <1>3, <1>7, <2>4 DEF ListInv, Begun
    <3>2. PICK b \in index..Len(owned) :
            /\ page = SubSeq(owned, index + 1, b)
            /\ b = index + PageSize \/ (b = Len(owned) /\ b < index + PageSize)
      BY <1>2, <1>3, <3>1, PageFacts DEF page
    <3>3. index \in 0..Len(owned)
      BY <1>3, <3>1
    <3>4. /\ Len(page) = b - index
          /\ SubSeq(owned, 1, index) \o page = SubSeq(owned, 1, b)
          /\ SubSeq(owned, 1, Len(owned)) = owned
      BY <1>2, <3>2, <3>3, Parts
    <3>5. pages' = SubSeq(owned, 1, b)
      <4>1. CASE first
        <5>1. index = 0
          BY <1>7, <4>1 DEF ListInv, Begun
        <5> QED
          BY <1>1, <3>2, <4>1, <5>1
      <4>2. CASE ~first
        <5>1. pages = SubSeq(owned, 1, index)
          BY <1>1, <1>7, <2>4, <4>2 DEF ListInv, ListingComplete
        <5> QED
          BY <1>1, <3>4, <4>2, <5>1
      <4> QED
        BY <4>1, <4>2
    <3>6. CASE b = index + PageSize
      <4>1. Len(page) = PageSize
        BY <1>3, <3>2, <3>4, <3>6
      <4>4. ~(Len(page) < PageSize)
        BY <1>3, <4>1
      <4>2. index' = b /\ ~ended'
        BY <1>1, <1>8, <3>6, <4>1, <4>4, Zenon DEF NextIndex
      <4>3. b <= Len(owned)
        BY <1>3, <3>2
      <4> QED
        BY <1>5, <2>1, <2>2, <3>5, <4>2, <4>3 DEF ListInv, Begun, ListingComplete
    <3>7. CASE b = Len(owned) /\ b < index + PageSize
      <4>1. Len(page) < PageSize
        <5>1. b \in Int /\ b < index + PageSize /\ Len(page) = b - index
          <6>1. \A x \in index..Len(owned) : x \in Int
            BY <1>3
          <6> QED
            BY <3>2, <3>4, <3>7, <6>1, Zenon
        <5> QED
          BY <1>3, <5>1
      <4>2. ended'
        BY <1>8, <4>1, Zenon
      <4>3. pages' = owned
        BY <3>4, <3>5, <3>7
      <4> QED
        BY <1>5, <2>1, <2>2, <4>2, <4>3 DEF ListInv, Begun, ListingComplete
    <3> QED
      BY <3>2, <3>6, <3>7
  <2> QED
    BY <2>3, <2>4
<1> QED
  BY <1>3, <1>6, <1>7

(* Only a page and a crash touch the listing.                               *)
LEMMA ListSteps ==
  ASSUME ListInv, [Next]_vars PROVE ListInv'
<1>1. ASSUME UNCHANGED <<index, listing>> PROVE ListInv'
  BY <1>1 DEF ListInv, Begun, ListingComplete, listing
<1>2. CASE \E first \in BOOLEAN : GetInventoryPage(first)
  BY <1>2, PageStep
<1>3. CASE Crash
  <2>1. index' = 0 /\ pages' = << >> /\ ended' = TRUE /\ listed' = << >>
    BY <1>3 DEF Crash, Forgotten
  <2>2. << >> \in Seq({listed'[k] : k \in 1..Len(listed')})
    OBVIOUS
  <2> QED
    BY <2>1, <2>2 DEF ListInv, Begun, ListingComplete
<1>4. CASE \/ \E i \in Items, n \in Quantities : BuySchematic(i, n)
           \/ \E c \in Crates, n \in Quantities, currency \in {"keys", "codpoints"} :
                BuyCrate(c, n, currency)
           \/ GetBalance
           \/ \E i \in Items, left \in 1..MaxBalance : PawnItem(i, left)
  <2>1. ASSUME NEW i, NEW n, NEW currency, NEW cost, Purchase(i, n, currency, cost)
        PROVE  UNCHANGED <<index, listing>>
    BY <2>1, Zenon DEF Purchase, statics
  <2>2. ASSUME NEW i, NEW left, PawnItem(i, left) PROVE UNCHANGED <<index, listing>>
    BY <2>2, Zenon DEF PawnItem, statics
  <2>3. ASSUME GetBalance PROVE UNCHANGED <<index, listing>>
    BY <2>3, Zenon DEF GetBalance, statics
  <2> QED
    BY <1>1, <1>4, <2>1, <2>2, <2>3, Zenon DEF BuySchematic, BuyCrate
<1>5. CASE \/ DudDailyLogin \/ DailyLogin
           \/ \E c \in Crates, unlockAll \in BOOLEAN : ClaimLootCrate(c, unlockAll)
           \/ \E match \in Matches : EndMission(match)
           \/ EndTeam
           \/ \E picks \in Contracts : EndContract(picks)
  <2>1. ASSUME DudDailyLogin PROVE UNCHANGED <<index, listing>>
    BY <2>1, Zenon DEF DudDailyLogin
  <2>2. ASSUME DailyLogin PROVE UNCHANGED <<index, listing>>
    BY <2>2, Zenon DEF DailyLogin, statics
  <2>3. ASSUME NEW c, NEW unlockAll, ClaimLootCrate(c, unlockAll)
        PROVE  UNCHANGED <<index, listing>>
    BY <2>3, Zenon DEF ClaimLootCrate
  <2>4. ASSUME NEW match, EndMission(match) PROVE UNCHANGED <<index, listing>>
    BY <2>4, Zenon DEF EndMission, statics
  <2>5. ASSUME EndTeam PROVE UNCHANGED <<index, listing>>
    BY <2>5, Zenon DEF EndTeam, statics
  <2>6. ASSUME NEW picks, EndContract(picks) PROVE UNCHANGED <<index, listing>>
    BY <2>6, Zenon DEF EndContract
  <2> QED
    BY <1>1, <1>5, <2>1, <2>2, <2>3, <2>4, <2>5, <2>6, Zenon
<1>6. CASE OpenFile \/ FinishFile \/ WriteFails \/ Reply \/ Unreadable \/ DayTurns \/ UNCHANGED vars
  BY <1>1, <1>6, Zenon DEF OpenFile, FinishFile, WriteFails, Reply, Unreadable, DayTurns, vars, statics
<1> QED
  BY <1>2, <1>3, <1>4, <1>5, <1>6, Zenon DEF Next

(* However long the inventory, the pages up to a short one are the whole of *)
(* it, as long as the items owned stay the same (get_inventory of           *)
(* bdMarketplace, whose index knows nothing of the game's listings).        *)
THEOREM ListingsAreComplete == Spec => []ListingComplete
<1>1. Init => ListInv
  <2> SUFFICES ASSUME Init PROVE ListInv
    OBVIOUS
  <2>1. listed = << >> /\ << >> \in Seq({listed[k] : k \in 1..Len(listed)})
    BY DEF Init
  <2> QED
    BY <2>1 DEF Init, ListInv, Begun, ListingComplete
<1>2. ListInv /\ [Next]_vars => ListInv'
  BY ListSteps
<1>3. ListInv => ListingComplete
  BY DEF ListInv
<1> QED
  BY <1>1, <1>2, <1>3, PTL DEF Spec

-----------------------------------------------------------------------------
LEMMA InitTyped == Init => TypeInv
<1> SUFFICES ASSUME Init PROVE TypeInv
  OBVIOUS
<1>1. ASSUME disk \in OldFiles PROVE disk \in Books(today, turns)
  BY <1>1, LootAssumption DEF Init, Books
<1>2. << >> \in Seq(Books(today, turns))
  OBVIOUS
<1>3. 0 \in 0..MaxIndex
  BY LootAssumption
<1> QED
  BY <1>1, <1>2, <1>3, LootAssumption DEF Init, TypeInv

LEMMA LoadedBook ==
  ASSUME TypeInv, Readable
  PROVE  Loaded \in Books(today, turns) /\ Fresh \in Books(today, turns)
<1>1. Fresh \in Books(today, turns)
  <2>1. [c \in Currencies |-> 0] \in [Currencies -> Nat] /\ [i \in Ids |-> 0] \in [Ids -> Nat]
    OBVIOUS
  <2>2. Fresh \in Inventory
    BY <2>1 DEF Fresh, Inventory
  <2>3. Fresh.days = 0 /\ 0 <= turns /\ 0 < turns
    BY DEF Fresh, TypeInv
  <2> QED
    BY <2>2, <2>3 DEF Books
<1> QED
  BY <1>1 DEF TypeInv, Readable, Loaded, Held

(* A task that leaves a sound inventory saves nothing else.                 *)
LEMMA TaskTyped ==
  ASSUME TypeInv, IInv, NEW r \in Books(today, turns), NEW saves \in {<< >>, <<r>>, <<r, r>>},
         NEW reply \in {"ok", "error"}, Task(r, saves, reply),
         cached' \in BOOLEAN, dud' \in BOOLEAN, index' \in 0..MaxIndex
  PROVE  TypeInv'
<1>1. Readable /\ mem' = r /\ toSave' = FirstSave \o saves /\ UNCHANGED <<disk, today, turns>>
  BY DEF Task, clock
<1>2. Fresh \in Books(today, turns)
  BY <1>1, LoadedBook
<1>3. FirstSave \in Seq(Books(today, turns)) /\ saves \in Seq(Books(today, turns))
  <2> DEFINE B == Books(today, turns)
  <2>1. << >> \in Seq(B) /\ <<Fresh>> \in Seq(B) /\ <<r>> \in Seq(B) /\ <<r, r>> \in Seq(B)
    <3> HIDE DEF B
    <3>1. Fresh \in B /\ r \in B
      BY <1>2 DEF B
    <3> QED
      BY <3>1
  <2> QED
    BY <2>1 DEF FirstSave
<1>4. toSave' \in Seq(Books(today, turns))
  BY <1>1, <1>3
<1>5. r # Unloaded
  BY LootAssumption DEF Books
<1> QED
  BY <1>1, <1>4, <1>5 DEF TypeInv

(* What the helpers make of an inventory.                                   *)
LEMMA PayKeeps ==
  ASSUME NEW day, NEW turn, NEW r \in Books(day, turn), NEW c \in Currencies, NEW n \in Nat, n <= r.currency[c]
  PROVE  Pay(r, c, n) \in Books(day, turn)
<1>1. r.currency[c] - n \in Nat
  BY DEF Books, Inventory
<1>2. [r.currency EXCEPT ![c] = r.currency[c] - n] \in [Currencies -> Nat]
  BY <1>1 DEF Books, Inventory
<1> QED
  BY <1>2 DEF Pay, Books, Inventory

LEMMA EarnKeeps ==
  ASSUME NEW day, NEW turn, NEW r \in Books(day, turn), NEW c \in Currencies, NEW n \in Nat
  PROVE  Earn(r, c, n) \in Books(day, turn)
<1>1. r.currency[c] + n \in Nat
  BY DEF Books, Inventory
<1>2. [r.currency EXCEPT ![c] = r.currency[c] + n] \in [Currencies -> Nat]
  BY <1>1 DEF Books, Inventory
<1> QED
  BY <1>2 DEF Earn, Books, Inventory

LEMMA ItemsKeep ==
  ASSUME NEW day, NEW turn, NEW r \in Books(day, turn), NEW f \in [Ids -> Nat]
  PROVE  [r EXCEPT !.item = f] \in Books(day, turn)
  BY DEF Books, Inventory

LEMMA SetKeeps ==
  ASSUME NEW day, NEW turn, NEW r \in Books(day, turn), NEW i \in Ids, NEW n \in Nat
  PROVE  [r EXCEPT !.item[i] = n] \in Books(day, turn)
<1>1. [r.item EXCEPT ![i] = n] \in [Ids -> Nat]
  BY DEF Books, Inventory
<1>2. [r EXCEPT !.item[i] = n] = [r EXCEPT !.item = [r.item EXCEPT ![i] = n]]
  BY DEF Books, Inventory
<1> QED
  BY <1>1, <1>2, ItemsKeep

LEMMA GiveKeeps ==
  ASSUME NEW day, NEW turn, NEW r \in Books(day, turn), NEW i \in Ids, NEW n \in Nat
  PROVE  Give(r, i, n) \in Books(day, turn)
<1>1. r.item[i] + n \in Nat
  BY DEF Books, Inventory
<1>2. Give(r, i, n) = [r EXCEPT !.item[i] = r.item[i] + n]
  BY DEF Give
<1> DEFINE m == r.item[i] + n
<1>3. m \in Nat
  BY <1>1
<1> HIDE DEF m
<1>4. [r EXCEPT !.item[i] = m] \in Books(day, turn)
  BY <1>3, SetKeeps
<1> QED
  BY <1>2, <1>4 DEF m

LEMMA GiveAllKeeps ==
  ASSUME NEW day, NEW turn, NEW r \in Books(day, turn), NEW list \in Seq(Items)
  PROVE  GiveAll(r, list) \in Books(day, turn)
<1> DEFINE C(i) == {k \in 1..Len(list) : list[k] = i}
           f == [i \in Ids |-> r.item[i] + Cardinality(C(i))]
<1>1. ASSUME NEW i \in Ids PROVE r.item[i] + Cardinality(C(i)) \in Nat
  <2>1. IsFiniteSet(1..Len(list)) /\ C(i) \in SUBSET (1..Len(list))
    BY FS_Interval
  <2> HIDE DEF C
  <2>2. Cardinality(C(i)) \in Nat
    BY <2>1, FS_Subset, FS_CardinalityType
  <2>3. r.item[i] \in Nat
    BY DEF Books, Inventory
  <2> QED
    BY <2>2, <2>3
<1>2. f \in [Ids -> Nat]
  <2> HIDE DEF C
  <2> QED
    BY <1>1
<1>3. GiveAll(r, list) = [r EXCEPT !.item = f]
  BY DEF GiveAll
<1> HIDE DEF f
<1> QED
  BY <1>2, <1>3, ItemsKeep

LEMMA HeroesKeep ==
  ASSUME NEW day, NEW turn, NEW r \in Books(day, turn)
  PROVE  GrantHeroes(r) \in Books(day, turn)
<1> DEFINE due == {HeroOf[p] : p \in {p \in DOMAIN HeroOf : r.item[p] > 0}}
           f == [i \in Ids |-> IF i \in due /\ r.item[i] = 0 THEN 1 ELSE r.item[i]]
<1>1. f \in [Ids -> Nat]
  <2> HIDE DEF due
  <2> QED
    BY DEF Books, Inventory
<1>2. GrantHeroes(r) = [r EXCEPT !.item = f]
  BY DEF GrantHeroes
<1> HIDE DEF f
<1> QED
  BY <1>1, <1>2, ItemsKeep

LEMMA GrantKeeps ==
  ASSUME NEW day, NEW turn, NEW r \in Books(day, turn), NEW i \in Items
  PROVE  GrantItem(r, i) \in Books(day, turn)
<1>1. Give(r, i, 1) \in Books(day, turn)
  BY GiveKeeps DEF Ids
<1>2. i \in DOMAIN Pack => Pack[i].currency \in Currencies /\ Pack[i].amount \in Nat
  BY LootAssumption
<1> QED
  BY <1>1, <1>2, EarnKeeps DEF GrantItem

-----------------------------------------------------------------------------
(* What holds for 0 and with every number for the next holds for all: as a  *)
(* set, for the theorem of the library takes an operator.                   *)
LEMMA Induction ==
  ASSUME NEW T, 0 \in T, \A n \in Nat : n \in T => n + 1 \in T
  PROVE  \A n \in Nat : n \in T
<1> DEFINE U == Nat \ T  R == OpToRel(<, Nat)
<1> SUFFICES ASSUME U # {} PROVE FALSE
  OBVIOUS
<1>1. IsWellFoundedOn(R, Nat)
  BY NatLessThanWellFounded
<1>2. \A x, y \in Nat : y < x => <<y, x>> \in R
  BY DEF OpToRel
<1> HIDE DEF R
<1>3. PICK x \in U : \A y \in U : <<y, x>> \notin R
  BY <1>1, WFMin
<1>4. x # 0 /\ x - 1 \in Nat /\ x - 1 < x
  BY <1>3
<1>5. x - 1 \in T
  BY <1>2, <1>3, <1>4
<1> QED
  BY <1>3, <1>4, <1>5

(* One step after the other, from b: step[n] gives what comes after n - 1.  *)
Chain(f, step, b, N) ==
  /\ DOMAIN f = 0..N /\ f[0] = b
  /\ \A n \in 1..N : f[n] = step[n][f[n - 1]]

LEMMA ChainExists ==
  ASSUME NEW S, NEW b \in S, NEW N \in Nat, NEW step, \A n \in 1..N : step[n] \in [S -> S]
  PROVE  \E f \in [0..N -> S] : Chain(f, step, b, N)
<1> DEFINE T == {n \in Nat : n <= N => \E f \in [0..n -> S] : Chain(f, step, b, n)}
<1>1. 0 \in T
  <2>1. [i \in 0..0 |-> b] \in [0..0 -> S] /\ Chain([i \in 0..0 |-> b], step, b, 0)
    BY DEF Chain
  <2> QED
    BY <2>1
<1>2. ASSUME NEW n \in Nat, n \in T PROVE n + 1 \in T
  <2> SUFFICES ASSUME n + 1 <= N PROVE \E f \in [0..(n + 1) -> S] : Chain(f, step, b, n + 1)
    OBVIOUS
  <2>1. PICK f \in [0..n -> S] : Chain(f, step, b, n)
    BY <1>2
  <2> DEFINE x == step[n + 1][f[n]]
             g == [i \in 0..(n + 1) |-> IF i = n + 1 THEN x ELSE f[i]]
  <2>2. x \in S
    <3>1. n + 1 \in 1..N /\ f[n] \in S
      BY <2>1
    <3> QED
      BY <3>1
  <2> HIDE DEF x
  <2>3. g \in [0..(n + 1) -> S] /\ DOMAIN g = 0..(n + 1)
    BY <2>1, <2>2
  <2>4. g[0] = b
    BY <2>1 DEF Chain
  <2>5. ASSUME NEW i \in 1..(n + 1) PROVE g[i] = step[i][g[i - 1]]
    <3>1. CASE i = n + 1
      <4>1. g[i] = x /\ g[i - 1] = f[n]
        BY <3>1
      <4> QED
        BY <3>1, <4>1 DEF x
    <3>2. CASE i # n + 1
      <4>1. i \in 1..n /\ g[i] = f[i] /\ g[i - 1] = f[i - 1]
        BY <3>2
      <4> QED
        BY <2>1, <4>1 DEF Chain
    <3> QED
      BY <3>1, <3>2
  <2> HIDE DEF g
  <2>6. Chain(g, step, b, n + 1)
    BY <2>3, <2>4, <2>5 DEF Chain
  <2> QED
    BY <2>3, <2>6
<1> HIDE DEF T
<1>3. N \in T
  BY <1>1, <1>2, Induction
<1> QED
  BY <1>3 DEF T

LEMMA GrantAllKeeps ==
  ASSUME NEW day, NEW turn, NEW r \in Books(day, turn), NEW list \in Seq(Items)
  PROVE  GrantAll(r, list) \in Books(day, turn)
<1> DEFINE B == Books(day, turn)  N == Len(list)
           step == [n \in 1..N |-> [x \in B |-> GrantItem(x, list[n])]]
           E(f) == f = [n \in 0..N |-> IF n = 0 THEN r ELSE GrantItem(f[n - 1], list[n])]
           after == CHOOSE f : E(f)
<1>1. N \in Nat /\ \A n \in 1..N : list[n] \in Items
  OBVIOUS
<1>2. \A n \in 1..N : step[n] \in [B -> B]
  BY <1>1, GrantKeeps
<1>3. PICK f \in [0..N -> B] : Chain(f, step, r, N)
  <2> HIDE DEF step, N
  <2> QED
    BY <1>1, <1>2, ChainExists
<1>4. E(f)
  <2>1. \A n \in 1..N : f[n] = GrantItem(f[n - 1], list[n])
    <3> SUFFICES ASSUME NEW n \in 1..N PROVE f[n] = GrantItem(f[n - 1], list[n])
      OBVIOUS
    <3>1. n - 1 \in 0..N
      BY <1>1
    <3>2. f[n - 1] \in B
      BY <1>3, <3>1
    <3>3. f[n] = step[n][f[n - 1]]
      BY <1>3 DEF Chain
    <3> QED
      BY <3>2, <3>3
  <2>2. f[0] = r /\ DOMAIN f = 0..N
    BY <1>3 DEF Chain
  <2> DEFINE g == [n \in 0..N |-> IF n = 0 THEN r ELSE GrantItem(f[n - 1], list[n])]
  <2>3. \A n \in 0..N : f[n] = g[n]
    <3> SUFFICES ASSUME NEW n \in 0..N PROVE f[n] = g[n]
      OBVIOUS
    <3>1. n = 0 \/ n \in 1..N
      BY <1>1
    <3> QED
      BY <2>1, <2>2, <3>1
  <2>4. f = g
    <3>1. f = [n \in 0..N |-> f[n]]
      BY <1>3
    <3> QED
      BY <2>3, <3>1
  <2> QED
    BY <2>4
<1>5. E(after)
  BY <1>4
<1>6. after[0] = r /\ \A n \in Nat : n < N => after[n + 1] = GrantItem(after[n], list[n + 1])
  <2>1. \A n \in Nat : n < N => n + 1 \in 0..N /\ n + 1 # 0 /\ (n + 1) - 1 = n
    BY <1>1
  <2>2. 0 \in 0..N
    BY <1>1
  <2> HIDE DEF after, N
  <2> QED
    BY <1>5, <2>1, <2>2
<1> DEFINE T == {n \in Nat : n <= N => after[n] \in B}
<1>7. 0 \in T
  BY <1>6
<1>8. ASSUME NEW n \in Nat, n \in T PROVE n + 1 \in T
  <2> HIDE DEF after, N, B
  <2> SUFFICES ASSUME n + 1 <= N PROVE after[n + 1] \in B
    OBVIOUS
  <2>1. n < N /\ n <= N /\ n + 1 \in 1..N
    BY <1>1
  <2>2. after[n] \in B /\ list[n + 1] \in Items
    BY <1>1, <1>8, <2>1
  <2>3. GrantItem(after[n], list[n + 1]) \in B
    BY <2>2, GrantKeeps DEF B
  <2> QED
    BY <1>6, <2>1, <2>3
<1> HIDE DEF T
<1>9. N \in T
  BY <1>1, <1>7, <1>8, Induction
<1>10. after[N] \in B
  BY <1>1, <1>9 DEF T
<1> QED
  BY <1>10 DEF GrantAll

LEMMA MinFacts ==
  ASSUME NEW S \in SUBSET Nat, S # {}
  PROVE  Min(S) \in S
<1> DEFINE R == OpToRel(<, Nat)
<1>1. IsWellFoundedOn(R, Nat)
  BY NatLessThanWellFounded
<1>2. \A x, y \in Nat : y < x => <<y, x>> \in R
  BY DEF OpToRel
<1> HIDE DEF R
<1>3. PICK x \in S : \A y \in S : <<y, x>> \notin R
  BY <1>1, WFMin
<1>4. \A y \in S : x <= y
  <2>1. x \in Nat /\ \A y \in S : y \in Nat
    OBVIOUS
  <2>2. \A y \in S : ~(y < x)
    BY <1>2, <1>3, <2>1
  <2> QED
    BY <2>1, <2>2
<1> QED
  BY <1>4 DEF Min

Picks == [items : SUBSET Items, count : Nat, same : BOOLEAN]

LEMMA ChosenFacts ==
  ASSUME NEW r, NEW pick \in Picks, NEW list \in Chosen(r, pick)
  PROVE  list \in Seq(Items)
<1>1. pick.items \in SUBSET Items /\ pick.count \in Nat
  BY DEF Picks
<1>2. CASE pick.same
  <2>1. PICK i \in pick.items : list = [k \in 1..pick.count |-> i]
    BY <1>2, Zenon DEF Chosen
  <2> QED
    BY <1>1, <2>1
<1>3. CASE ~pick.same
  <2> DEFINE unowned == {i \in pick.items : r.item[i] = 0}
             pool == IF Cardinality(unowned) >= pick.count THEN unowned ELSE pick.items
             n == Min({pick.count, Cardinality(pool)})
  <2>1. list \in {l \in [1..n -> pool] : IsInjective(l)}
    BY <1>3, Zenon DEF Chosen
  <2>2. pool \in SUBSET Items
    BY <1>1
  <2>3. n \in Nat
    <3> HIDE DEF pool
    <3>1. IsFiniteSet(pool)
      BY <2>2, LootAssumption, FS_Subset
    <3>2. Cardinality(pool) \in Nat
      BY <3>1, FS_CardinalityType
    <3>3. {pick.count, Cardinality(pool)} \in SUBSET Nat /\ {pick.count, Cardinality(pool)} # {}
      BY <1>1, <3>2
    <3>4. Min({pick.count, Cardinality(pool)}) \in {pick.count, Cardinality(pool)}
      BY <3>3, MinFacts
    <3> QED
      BY <3>3, <3>4
  <2> HIDE DEF n, pool
  <2> QED
    BY <2>1, <2>2, <2>3
<1> QED
  BY <1>2, <1>3, Zenon

LEMMA PickKeeps ==
  ASSUME NEW day, NEW turn, NEW r \in Books(day, turn), NEW pick \in Picks
  PROVE  GivePick(r, pick) \in SUBSET Books(day, turn)
<1>1. ASSUME NEW list \in Chosen(r, pick) PROVE GrantAll(r, list) \in Books(day, turn)
  BY ChosenFacts, GrantAllKeeps
<1> QED
  BY <1>1 DEF GivePick

LEMMA OutcomesKeep ==
  ASSUME NEW picks \in Seq(Picks), Loaded \in Books(today, turns)
  PROVE  Outcomes(picks) \in SUBSET Books(today, turns)
<1> DEFINE B == Books(today, turns)  N == Len(picks)  Step(X, n) == UNION {GivePick(r, picks[n]) : r \in X}
           step == [n \in 1..N |-> [X \in SUBSET B |-> Step(X, n)]]
           E(f) == f = [n \in 0..N |-> IF n = 0 THEN {Loaded} ELSE Step(f[n - 1], n)]
           after == CHOOSE f : E(f)
<1>1. N \in Nat /\ \A n \in 1..N : picks[n] \in Picks
  OBVIOUS
<1>a. ASSUME NEW n \in 1..N, NEW X \in SUBSET B PROVE Step(X, n) \in SUBSET B
  <2>1. \A r \in X : GivePick(r, picks[n]) \in SUBSET B
    BY <1>1, PickKeeps
  <2> QED
    BY <2>1
<1>b. {Loaded} \in SUBSET B
  OBVIOUS
<1> HIDE DEF Step, B
<1>2. \A n \in 1..N : step[n] \in [SUBSET B -> SUBSET B]
  BY <1>1, <1>a
<1>3. PICK f \in [0..N -> SUBSET B] : Chain(f, step, {Loaded}, N)
  <2> HIDE DEF step, N
  <2> QED
    BY <1>1, <1>2, <1>b, ChainExists
<1>4. E(f)
  <2>1. \A n \in 1..N : f[n] = Step(f[n - 1], n)
    <3> SUFFICES ASSUME NEW n \in 1..N PROVE f[n] = Step(f[n - 1], n)
      OBVIOUS
    <3>1. n - 1 \in 0..N
      BY <1>1
    <3>2. f[n - 1] \in SUBSET B
      BY <1>3, <3>1
    <3>3. f[n] = step[n][f[n - 1]]
      BY <1>3 DEF Chain
    <3> QED
      BY <3>2, <3>3
  <2>2. f[0] = {Loaded} /\ DOMAIN f = 0..N
    BY <1>3 DEF Chain
  <2> DEFINE g == [n \in 0..N |-> IF n = 0 THEN {Loaded} ELSE Step(f[n - 1], n)]
  <2>3. \A n \in 0..N : f[n] = g[n]
    <3> SUFFICES ASSUME NEW n \in 0..N PROVE f[n] = g[n]
      OBVIOUS
    <3>1. n = 0 \/ n \in 1..N
      BY <1>1
    <3> QED
      BY <2>1, <2>2, <3>1
  <2>4. f = g
    <3>1. f = [n \in 0..N |-> f[n]]
      BY <1>3
    <3> QED
      BY <2>3, <3>1
  <2> QED
    BY <2>4
<1>5. E(after)
  BY <1>4
<1>6. after[0] = {Loaded} /\ \A n \in Nat : n < N => after[n + 1] = Step(after[n], n + 1)
  <2>1. \A n \in Nat : n < N => n + 1 \in 0..N /\ n + 1 # 0 /\ (n + 1) - 1 = n
    BY <1>1
  <2>2. 0 \in 0..N
    BY <1>1
  <2> HIDE DEF after, N
  <2> QED
    BY <1>5, <2>1, <2>2
<1> DEFINE T == {n \in Nat : n <= N => after[n] \in SUBSET B}
<1>7. 0 \in T
  BY <1>6, <1>b
<1>8. ASSUME NEW n \in Nat, n \in T PROVE n + 1 \in T
  <2> HIDE DEF after, N
  <2> SUFFICES ASSUME n + 1 <= N PROVE after[n + 1] \in SUBSET B
    OBVIOUS
  <2>1. n < N /\ n <= N /\ n + 1 \in 1..N
    BY <1>1
  <2>2. after[n] \in SUBSET B
    BY <1>8, <2>1
  <2>3. Step(after[n], n + 1) \in SUBSET B
    BY <1>a, <2>1, <2>2
  <2> QED
    BY <1>6, <2>1, <2>3
<1> HIDE DEF T
<1>9. N \in T
  BY <1>1, <1>7, <1>8, Induction
<1>10. after[N] \in SUBSET B
  BY <1>1, <1>9 DEF T
<1> QED
  BY <1>10 DEF Outcomes, Step, B

-----------------------------------------------------------------------------
LEMMA MarketTyped ==
  ASSUME TypeInv, IInv,
         \/ \E i \in Items, n \in Quantities : BuySchematic(i, n)
         \/ \E c \in Crates, n \in Quantities, currency \in {"keys", "codpoints"} :
              BuyCrate(c, n, currency)
         \/ GetBalance
         \/ \E i \in Items, left \in 1..MaxBalance : PawnItem(i, left)
         \/ \E first \in BOOLEAN : GetInventoryPage(first)
  PROVE  TypeInv'
<1>1. /\ cached \in BOOLEAN /\ dud \in BOOLEAN /\ index \in 0..MaxIndex
      /\ "ok" \in {"ok", "error"} /\ "error" \in {"ok", "error"}
  BY DEF TypeInv
<1>2. ASSUME NEW r, NEW saves, NEW reply, Task(r, saves, reply)
      PROVE  Loaded \in Books(today, turns)
  BY <1>2, LoadedBook DEF Task
<1>3. ASSUME NEW i \in Items, NEW n \in Quantities, NEW currency \in Currencies, NEW cost \in Nat,
             Purchase(i, n, currency, cost)
      PROVE  TypeInv'
  <2> DEFINE r == Give(Pay(Loaded, currency, cost), i, n)
  <2>1. UNCHANGED <<cached, dud, index>>
    BY <1>3, Zenon DEF Purchase, statics
  <2>2. CASE cost > Loaded.currency[currency]
    <3>1. Task(Loaded, << >>, "error")
      BY <1>3, <2>2, Zenon DEF Purchase
    <3> QED
      BY <1>1, <1>2, <2>1, <3>1, TaskTyped
  <2>3. CASE ~(cost > Loaded.currency[currency])
    <3>1. Task(r, <<r>>, "ok")
      BY <1>3, <2>3, Zenon DEF Purchase
    <3>2. Loaded \in Books(today, turns)
      BY <1>2, <3>1
    <3>3. cost <= Loaded.currency[currency]
      BY <2>3, <3>2 DEF Books, Inventory
    <3>4. Pay(Loaded, currency, cost) \in Books(today, turns)
      BY <3>2, <3>3, PayKeeps
    <3>5. r \in Books(today, turns)
      BY <3>4, GiveKeeps, LootAssumption DEF Ids
    <3> HIDE DEF r
    <3> QED
      BY <1>1, <2>1, <3>1, <3>5, TaskTyped
  <2> QED
    BY <2>2, <2>3
<1>4. ASSUME NEW i \in Items, NEW n \in Quantities, BuySchematic(i, n) PROVE TypeInv'
  <2>1. CostOf(i) \in Nat /\ "salvage" \in Currencies
    BY LootAssumption DEF CostOf, Currencies
  <2> QED
    BY <1>3, <1>4, <2>1 DEF BuySchematic
<1>5. ASSUME NEW c \in Crates, NEW n \in Quantities, NEW currency \in {"keys", "codpoints"},
             BuyCrate(c, n, currency)
      PROVE  TypeInv'
  <2>1. CrateCostOf(c, currency) \in Nat /\ currency \in Currencies /\ c \in Items
    BY LootAssumption DEF CrateCostOf, Currencies
  <2> QED
    BY <1>3, <1>5, <2>1 DEF BuyCrate
<1>6. ASSUME GetBalance PROVE TypeInv'
  BY <1>1, <1>2, <1>6, TaskTyped DEF GetBalance, statics
<1>7. ASSUME NEW i \in Items, NEW left \in 1..MaxBalance, PawnItem(i, left) PROVE TypeInv'
  <2> DEFINE known == IF cached THEN i ELSE NoItem
             q == [Loaded EXCEPT !.item[known] = left]
             n == IF cached THEN Returned[i] ELSE 0
             r == IF Loaded.item[known] = 1 THEN Loaded ELSE Earn(q, "salvage", n)
  <2>1. Task(r, <<r>>, "ok") /\ UNCHANGED <<cached, dud, index>>
    BY <1>7, Zenon DEF PawnItem, statics
  <2>2. Loaded \in Books(today, turns)
    BY <1>2, <2>1
  <2>3. known \in Ids /\ n \in Nat /\ left \in Nat /\ "salvage" \in Currencies
    BY LootAssumption DEF Ids, Currencies
  <2> HIDE DEF known, n
  <2>4. q \in Books(today, turns)
    BY <2>2, <2>3, SetKeeps
  <2> HIDE DEF q
  <2>5. r \in Books(today, turns)
    BY <2>2, <2>3, <2>4, EarnKeeps
  <2> HIDE DEF r
  <2> QED
    BY <1>1, <2>1, <2>5, TaskTyped
<1>8. ASSUME NEW first \in BOOLEAN, GetInventoryPage(first) PROVE TypeInv'
  <2> DEFINE r == GrantHeroes(Loaded)  saves == IF r = Loaded THEN << >> ELSE <<r>>
             page == PageAt(Owned(r))
  <2>1. /\ Task(r, saves, "ok")
        /\ index + PageSize <= MaxIndex /\ index' = NextIndex(page)
        /\ cached' = TRUE /\ dud' = dud
    BY <1>8, Zenon DEF GetInventoryPage
  <2>2. r \in Books(today, turns)
    BY <1>2, <2>1, HeroesKeep
  <2>3. index' \in 0..MaxIndex
    <3> HIDE DEF page
    <3> QED
      BY <1>1, <2>1, LootAssumption DEF NextIndex
  <2>4. saves \in {<< >>, <<r>>, <<r, r>>} /\ cached' \in BOOLEAN /\ dud' \in BOOLEAN
    BY <1>1, <2>1
  <2> HIDE DEF r, saves
  <2> QED
    BY <2>1, <2>2, <2>3, <2>4, TaskTyped
<1> QED
  BY <1>4, <1>5, <1>6, <1>7, <1>8

LEMMA RewardTyped ==
  ASSUME TypeInv, IInv,
         \/ DudDailyLogin \/ DailyLogin
         \/ \E c \in Crates, unlockAll \in BOOLEAN : ClaimLootCrate(c, unlockAll)
         \/ \E match \in Matches : EndMission(match)
         \/ EndTeam
         \/ \E picks \in Contracts : EndContract(picks)
  PROVE  TypeInv'
<1>1. /\ cached \in BOOLEAN /\ dud \in BOOLEAN /\ index \in 0..MaxIndex
      /\ "ok" \in {"ok", "error"} /\ "error" \in {"ok", "error"}
  BY DEF TypeInv
<1>2. ASSUME NEW r, NEW saves, NEW reply, Task(r, saves, reply)
      PROVE  Loaded \in Books(today, turns)
  BY <1>2, LoadedBook DEF Task
<1>3. ASSUME DudDailyLogin PROVE TypeInv'
  BY <1>3 DEF DudDailyLogin, TypeInv, clock
<1>4. ASSUME DailyLogin PROVE TypeInv'
  <2> DEFINE new == IsNewDay(Loaded)
             q == [Loaded EXCEPT !.days = @ + 1, !.last = today]
             r == IF ~new THEN Loaded ELSE Earn(q, "keys", DailyKeys)
             saves == IF new THEN <<r, r>> ELSE <<r>>
  <2>1. Task(r, saves, "ok") /\ UNCHANGED <<cached, dud, index>>
    BY <1>4, Zenon DEF DailyLogin, statics
  <2>2. Loaded \in Books(today, turns) /\ today \in Nat
    BY <1>2, <2>1 DEF TypeInv
  <2>3. ASSUME new PROVE q \in Books(today, turns)
    <3>1. Loaded.days \in Nat /\ Loaded.days < turns /\ turns \in Nat
      BY <2>2, <2>3 DEF Books, Inventory, IsNewDay, TypeInv
    <3>2. Loaded.days + 1 <= turns /\ Loaded.days + 1 \in Nat
      BY <3>1
    <3>3. q \in Inventory /\ q.days = Loaded.days + 1 /\ q.last = today
      BY <2>2, <3>2 DEF Books, Inventory
    <3> HIDE DEF q
    <3> QED
      BY <2>2, <3>2, <3>3 DEF Books
  <2>4. r \in Books(today, turns)
    <3> HIDE DEF new, q
    <3>1. "keys" \in Currencies /\ DailyKeys \in Nat
      BY LootAssumption DEF Currencies
    <3> QED
      BY <2>2, <2>3, <3>1, EarnKeeps
  <2>5. saves \in {<< >>, <<r>>, <<r, r>>}
    OBVIOUS
  <2> HIDE DEF r, saves
  <2> QED
    BY <1>1, <2>1, <2>4, <2>5, TaskTyped
<1>5. ASSUME NEW c \in Crates, NEW unlockAll \in BOOLEAN, ClaimLootCrate(c, unlockAll)
      PROVE  TypeInv'
  <2> DEFINE n == Loaded.item[c]
             taken == IF unlockAll THEN Loaded ELSE [Loaded EXCEPT !.item[c] = n - 1]
  <2>1. dud' = dud /\ index' = index /\ cached' \in BOOLEAN
    BY <1>1, <1>5 DEF ClaimLootCrate
  <2>2. \/ Task(Loaded, << >>, "error")
        \/ /\ n > 0 \/ unlockAll
           /\ \/ Task(taken, << >>, "error")
              \/ \E loot \in Contents[c] :
                   Task(GiveAll(taken, loot), <<GiveAll(taken, loot)>>, "ok")
    BY <1>5, Zenon DEF ClaimLootCrate
  <2>3. CASE Task(Loaded, << >>, "error")
    BY <1>1, <1>2, <2>1, <2>3, TaskTyped
  <2>4. ASSUME NEW r, NEW saves, NEW reply, Task(r, saves, reply), n > 0 \/ unlockAll
        PROVE  taken \in Books(today, turns)
    <3>1. Loaded \in Books(today, turns)
      BY <1>2, <2>4
    <3>2. c \in Ids /\ n \in Nat
      BY <3>1, LootAssumption DEF Ids, Books, Inventory
    <3>3. CASE unlockAll
      BY <3>1, <3>3
    <3>4. CASE ~unlockAll
      <4> HIDE DEF n
      <4>1. n - 1 \in Nat
        BY <2>4, <3>2, <3>4
      <4>2. [Loaded EXCEPT !.item[c] = n - 1] \in Books(today, turns)
        BY <3>1, <3>2, <4>1, SetKeeps
      <4> QED
        BY <3>4, <4>2
    <3> QED
      BY <3>3, <3>4
  <2> HIDE DEF taken, n
  <2>5. CASE Task(taken, << >>, "error") /\ (n > 0 \/ unlockAll)
    BY <1>1, <2>1, <2>4, <2>5, TaskTyped
  <2>6. ASSUME NEW loot \in Contents[c], n > 0 \/ unlockAll,
               Task(GiveAll(taken, loot), <<GiveAll(taken, loot)>>, "ok")
        PROVE  TypeInv'
    <3>1. taken \in Books(today, turns) /\ loot \in Seq(Items)
      BY <2>4, <2>6, LootAssumption
    <3>2. GiveAll(taken, loot) \in Books(today, turns)
      BY <3>1, GiveAllKeeps
    <3> QED
      BY <1>1, <2>1, <2>6, <3>2, TaskTyped
  <2> QED
    BY <2>2, <2>3, <2>5, <2>6
<1>6. ASSUME NEW match \in Matches, EndMission(match) PROVE TypeInv'
  <2> DEFINE r == Earn(Earn(Loaded, "keys", match.keys), "salvage", match.salvage)
  <2>1. Task(r, <<r>>, "ok") /\ UNCHANGED <<cached, dud, index>>
    BY <1>6, Zenon DEF EndMission, statics
  <2>2. /\ match.keys \in Nat /\ match.salvage \in Nat
        /\ "keys" \in Currencies /\ "salvage" \in Currencies
    BY LootAssumption DEF Currencies
  <2>3. Earn(Loaded, "keys", match.keys) \in Books(today, turns)
    BY <1>2, <2>1, <2>2, EarnKeeps
  <2>4. r \in Books(today, turns)
    BY <2>2, <2>3, EarnKeeps
  <2> HIDE DEF r
  <2> QED
    BY <1>1, <2>1, <2>4, TaskTyped
<1>7. ASSUME EndTeam PROVE TypeInv'
  <2> DEFINE due == {k \in 1..Len(Team) : Loaded.item[Team[k]] = 0}
             r == IF due = {} THEN Loaded ELSE GrantItem(Loaded, Team[Min(due)])
  <2>1. /\ Task(r, <<r>>, "ok") \/ Task(Loaded, << >>, "ok")
        /\ UNCHANGED <<cached, dud, index>>
    BY <1>7, Zenon DEF EndTeam, statics
  <2>2. Loaded \in Books(today, turns)
    BY <1>2, <2>1
  <2>3. ASSUME due # {} PROVE Team[Min(due)] \in Items
    <3>1. due \in SUBSET Nat /\ due \in SUBSET (1..Len(Team))
      OBVIOUS
    <3> HIDE DEF due
    <3>2. Min(due) \in due
      BY <2>3, <3>1, MinFacts
    <3> QED
      <4>1. Min(due) \in 1..Len(Team)
        BY <3>1, <3>2
      <4>2. Team \in Seq(Items)
        BY LootAssumption
      <4> QED
        BY <4>1, <4>2
  <2>4. r \in Books(today, turns)
    <3> HIDE DEF due
    <3> QED
      BY <2>2, <2>3, GrantKeeps
  <2> HIDE DEF r
  <2> QED
    BY <1>1, <2>1, <2>2, <2>4, TaskTyped
<1>8. ASSUME NEW picks \in Contracts, EndContract(picks) PROVE TypeInv'
  <2>1. (\E r \in Outcomes(picks) : Task(r, <<r>>, "ok")) \/ Task(Loaded, << >>, "ok")
    BY <1>8, Zenon DEF EndContract
  <2>2. cached' \in BOOLEAN /\ dud' = dud /\ index' = index
    BY <1>1, <1>8 DEF EndContract
  <2>3. picks \in Seq(Picks) /\ Loaded \in Books(today, turns)
    BY <1>2, <2>1, LootAssumption DEF Picks
  <2>4. ASSUME NEW r \in Outcomes(picks), Task(r, <<r>>, "ok") PROVE TypeInv'
    <3>1. r \in Books(today, turns)
      BY <2>3, OutcomesKeep
    <3> QED
      BY <1>1, <2>2, <2>4, <3>1, TaskTyped
  <2>5. ASSUME Task(Loaded, << >>, "ok") PROVE TypeInv'
    BY <1>1, <2>2, <2>3, <2>5, TaskTyped
  <2> QED
    BY <2>1, <2>4, <2>5
<1> QED
  BY <1>3, <1>4, <1>5, <1>6, <1>7, <1>8

LEMMA WriteTyped ==
  ASSUME TypeInv, IInv, OpenFile \/ FinishFile \/ WriteFails PROVE TypeInv'
<1>1. ASSUME toSave # << >>
      PROVE  Head(toSave) \in Books(today, turns) /\ Tail(toSave) \in Seq(Books(today, turns))
  BY <1>1, TailFacts DEF TypeInv
<1>2. ASSUME OpenFile PROVE TypeInv'
  BY <1>2 DEF OpenFile, TypeInv, statics, clock
<1>3. ASSUME FinishFile PROVE TypeInv'
  <2>1. toSave # << >>
    BY <1>3 DEF FinishFile, IInv, PendingInv
  <2>2. mem # Unloaded
    BY <2>1 DEF TypeInv
  <2> QED
    BY <1>1, <1>3, <2>1, <2>2 DEF FinishFile, TypeInv, statics, clock
<1>4. ASSUME WriteFails PROVE TypeInv'
  <2>1. toSave # << >>
    BY <1>4 DEF WriteFails
  <2>2. mem # Unloaded
    BY <2>1 DEF TypeInv
  <2> QED
    BY <1>1, <1>4, <2>1, <2>2 DEF WriteFails, TypeInv, statics, clock
<1> QED
  BY <1>2, <1>3, <1>4

LEMMA OtherTyped ==
  ASSUME TypeInv, Reply \/ Unreadable \/ Crash \/ DayTurns \/ UNCHANGED vars PROVE TypeInv'
<1>1. ASSUME Reply PROVE TypeInv'
  BY <1>1 DEF Reply, TypeInv, statics, clock
<1>2. ASSUME Unreadable PROVE TypeInv'
  BY <1>2 DEF Unreadable, TypeInv, clock
<1>3. ASSUME Crash PROVE TypeInv'
  <2>1. << >> \in Seq(Books(today, turns)) /\ 0 \in 0..MaxIndex
    BY LootAssumption
  <2> QED
    BY <1>3, <2>1 DEF Crash, Forgotten, TypeInv, clock
<1>4. ASSUME DayTurns PROVE TypeInv'
  <2>1. /\ today' \in Nat /\ turns' = turns + 1
        /\ turns \in Nat \ {0} /\ turns' \in Nat \ {0}
    <3>1. \A d \in 1..MaxDays : d \in Nat
      OBVIOUS
    <3> QED
      BY <1>4, <3>1 DEF DayTurns, TypeInv
  <2>2. Books(today, turns) \subseteq Books(today', turns')
    BY <2>1 DEF Books, Inventory
  <2>3. toSave \in Seq(Books(today', turns'))
    <3> DEFINE B == Books(today, turns)  C == Books(today', turns')
    <3> HIDE DEF B, C
    <3>1. B \subseteq C /\ toSave \in Seq(B)
      BY <2>2 DEF B, C, TypeInv
    <3>2. toSave \in [1..Len(toSave) -> C] /\ Len(toSave) \in Nat
      BY <3>1
    <3> QED
      BY <3>2 DEF C
  <2> HIDE DEF Books
  <2> QED
    BY <1>4, <2>1, <2>2, <2>3 DEF DayTurns, TypeInv, statics, clock
<1>5. ASSUME UNCHANGED vars PROVE TypeInv'
  BY <1>5 DEF vars, TypeInv, statics, clock
<1> QED
  BY <1>1, <1>2, <1>3, <1>4, <1>5

(* Types and IInv are inductive together.                                   *)
THEOREM Invariance == Spec => [](TypeInv /\ IInv)
<1>1. TypeInv /\ IInv /\ [Next]_vars => TypeInv'
  BY MarketTyped, RewardTyped, WriteTyped, OtherTyped DEF Next
<1>2. TypeInv /\ IInv /\ [Next]_vars => IInv'
  BY MarketplaceSteps, LoginSteps, ClaimStep, MissionSteps, WriteSteps, ReplyStep, OtherSteps
     DEF Next
<1> QED
  BY InitTyped, InitInv, <1>1, <1>2, PTL DEF Spec

(* Unless the last write failed, loot.json holds what was confirmed, or     *)
(* that and the whole of the task under way, or is torn, and memory has     *)
(* nothing more than that but what refused claims took, however tasks,      *)
(* failing writes and crashes follow each other (save_json_data and the     *)
(* tasks of bdMarketplace and bdReward).                                    *)
THEOREM SavesAreDurable == Spec => []Durable
BY Invariance, PTL DEF IInv

(* No balance is ever overdrawn, and a day counts once for the daily login  *)
(* each time the clock comes to it, in memory, in the file and in what is   *)
(* on its way to it, whatever the tasks, failing writes, crashes and turns  *)
(* of the clock between them (set_currency_balance, is_new_day).            *)
THEOREM TypeCorrect == Spec => []TypeOK
<1>1. TypeInv /\ IInv => TypeOK
  <2> SUFFICES ASSUME TypeInv, IInv PROVE TypeOK
    OBVIOUS
  <2>1. ASSUME NEW r \in Books(today, turns) PROVE Sound(r)
    BY DEF TypeInv, Books, Inventory, Sound
  <2>2. \A k \in 1..Len(toSave) : Sound(toSave[k])
    <3>1. \A k \in 1..Len(toSave) : toSave[k] \in Books(today, turns)
      BY DEF TypeInv
    <3> QED
      BY <2>1, <3>1
  <2> QED
    BY <2>1, <2>2 DEF TypeInv, IInv, PendingInv, TypeOK
<1> QED
  BY <1>1, Invariance, PTL
=============================================================================
