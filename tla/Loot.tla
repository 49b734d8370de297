-------------------------------- MODULE Loot --------------------------------
(***************************************************************************)
(* The player's inventory, which the demonware emulator keeps in one json  *)
(* file: game/demonware/loot/loot.cpp and missions.cpp, and the tasks of   *)
(* the services bdMarketplace and bdReward that read and change it.  The   *)
(* server thread handles one task at a time: it changes the copy in        *)
(* memory, writes the whole file anew as often as the task saves, and      *)
(* answers.  The process may end between any two steps.                    *)
(***************************************************************************)
EXTENDS Naturals, Sequences, FiniteSets, SequencesExt, FiniteSetsExt, Ascending

CONSTANTS
  Items,           \* ids, numbered in the order of the keys in the file
  Crates,          \* items bought for keys or codpoints
  CrateCost,       \* per crate and currency
  ItemCost, Returned,      \* per item: salvage to pay, and given back
  Contents,        \* per crate: what opening it may give, {} if not supported
  HeroOf,          \* the hero of every piece of a hero
  Pack,            \* currency packs: [currency, amount]
  Team,            \* rewards of a mission team, in order
  Contracts,       \* sequences of picks: [items, count, same]
  Matches,         \* what a match earns: [keys, salvage]
  DailyKeys,
  Quantities,      \* quantities the game buys
  OldFiles,        \* inventories of an earlier version
  FirstDay,        \* on which the process is started
  PageSize,        \* itemsPerPage of the game
  Unloaded, NoFile, Torn, NoAnswer, Changed,    \* sentinels
  MaxBalance, MaxDays, MaxTurns, MaxIndex, MaxTasks       \* bounds of the model

Currencies == {"keys", "salvage", "codpoints"}

(* What get_loot gives for an id that it does not know has the id 0.        *)
NoItem == 0
Ids == Items \cup {NoItem}

Inventory ==
  [currency : [Currencies -> Nat], item : [Ids -> Nat],
   days : Nat, last : Nat]   \* last = 0: never logged in (LastDateClaimed = -1)

ASSUME LootAssumption ==
  /\ Items \subseteq Nat \ {NoItem} /\ IsFiniteSet(Items) /\ Crates \subseteq Items
  /\ CrateCost \in [Crates -> [{"keys", "codpoints"} -> Nat]]
  /\ ItemCost \in [Items -> Nat] /\ Returned \in [Items -> Nat]
  /\ \A c \in Crates : Contents[c] \subseteq Seq(Items)
  /\ DOMAIN HeroOf \subseteq Items /\ DOMAIN Pack \subseteq Items
  /\ \A i \in DOMAIN Pack : Pack[i] \in [currency : Currencies, amount : Nat]
  /\ Team \in Seq(Items) /\ DailyKeys \in Nat /\ PageSize \in Nat \ {0}
  /\ Contracts \subseteq Seq([items : SUBSET Items, count : Nat, same : BOOLEAN])
  /\ Matches \subseteq [keys : Nat, salvage : Nat] /\ Quantities \subseteq Nat
  /\ FirstDay \in Nat \ {0} /\ MaxIndex \in Nat
  /\ \A r \in OldFiles : /\ r \in Inventory /\ r.days <= FirstDay
                         /\ r.last # FirstDay => r.days < FirstDay
  /\ {Unloaded, NoFile} \cap Inventory = {} /\ Torn # NoFile /\ NoAnswer \notin {"ok", "error"}

VARIABLES
  mem,             \* json_buffer
  cached, dud,     \* statics: once of cache_loot, has_passed_dud_daily_login
  index,           \* paginated_index
  disk,            \* loot.json
  toSave, writing, \* inventories the task still has to write; the file is open
  answer,          \* what the task under way will answer
  today, turns,    \* the day on the clock; the days it has shown, one after the other
  failed,          \* the last write failed
  refused,         \* a claim was refused that has taken its crate, and nothing saved since
  promised,        \* what the tasks confirmed to the game come to
  inFlight,        \* what a task that has not been answered was to write
  pages, ended, listed,  \* the game's: the listing so far, and the items owned from its start
  tasks

statics == <<cached, dud, index>>
clock == <<today, turns>>
history == <<failed, refused, promised, inFlight>>
listing == <<pages, ended, listed>>
vars == <<mem, statics, disk, toSave, writing, answer, clock, history, listing, tasks>>

Fresh ==
  [currency |-> [c \in Currencies |-> 0], item |-> [i \in Ids |-> 0], days |-> 0, last |-> 0]

(* What the file says: none at all is one in which all is 0.                *)
Held == IF disk = NoFile THEN Fresh ELSE disk

Forgotten ==
  /\ mem' = Unloaded /\ cached' = FALSE /\ dud' = FALSE /\ index' = 0
  /\ toSave' = << >> /\ writing' = FALSE /\ answer' = NoAnswer /\ refused' = FALSE
  /\ pages' = << >> /\ ended' = TRUE /\ listed' = << >>

Init ==
  /\ mem = Unloaded /\ cached = FALSE /\ dud = FALSE /\ index = 0
  /\ disk \in {NoFile} \cup OldFiles /\ toSave = << >> /\ writing = FALSE
  /\ answer = NoAnswer /\ today = FirstDay /\ turns = FirstDay
  /\ failed = FALSE /\ refused = FALSE /\ promised = Held /\ inFlight = {}
  /\ pages = << >> /\ ended = TRUE /\ listed = << >> /\ tasks = 0

-----------------------------------------------------------------------------
(* The first read of a process: without a file, a fresh one is written; a   *)
(* torn one cannot be read.                                                 *)
Loaded == IF mem # Unloaded THEN mem ELSE IF disk = Torn THEN Fresh ELSE Held
FirstSave == IF mem = Unloaded /\ disk = NoFile THEN <<Fresh>> ELSE << >>
Readable == mem # Unloaded \/ disk # Torn

Within(r) ==
  /\ \A c \in Currencies : r.currency[c] <= MaxBalance
  /\ \A i \in Ids : r.item[i] <= MaxBalance

(* A task that leaves the inventory r, saves those of saves and answers.    *)
(* The first one of a process starts from what is in the file.              *)
Task(r, saves, reply) ==
  /\ answer = NoAnswer /\ tasks < MaxTasks
  /\ Readable /\ Within(r)
  /\ mem' = r /\ answer' = reply
  /\ toSave' = FirstSave \o saves /\ inFlight' = ToSet(toSave')
  /\ promised' = IF mem = Unloaded THEN Held ELSE promised
  /\ failed' = IF mem = Unloaded THEN FALSE ELSE failed
  /\ tasks' = tasks + 1
  /\ UNCHANGED <<disk, writing, clock>>

Pay(r, c, n) == [r EXCEPT !.currency[c] = @ - n]
Earn(r, c, n) == [r EXCEPT !.currency[c] = @ + n]
Give(r, i, n) == [r EXCEPT !.item[i] = @ + n]
GiveAll(r, list) ==
  [r EXCEPT !.item = [i \in Ids |-> @[i] + Cardinality({k \in 1..Len(list) : list[k] = i})]]

-----------------------------------------------------------------------------
(* bdMarketplace.  Prices are those of the game's tables, which only some   *)
(* calls load: before that everything is free and nothing can be sold.      *)
CostOf(i) == IF cached THEN ItemCost[i] ELSE 0
CrateCostOf(c, currency) == IF cached THEN CrateCost[c][currency] ELSE 0

(* One price for all of the quantity.                                       *)
Purchase(i, n, currency, cost) ==
  /\ IF cost > Loaded.currency[currency]
     THEN Task(Loaded, << >>, "error")
     ELSE LET r == Give(Pay(Loaded, currency, cost), i, n) IN Task(r, <<r>>, "ok")
  /\ UNCHANGED <<statics, refused, listing>>

BuySchematic(i, n) == i \notin Crates /\ Purchase(i, n, "salvage", CostOf(i))

BuyCrate(c, n, currency) == Purchase(c, n, currency, CrateCostOf(c, currency))

GetBalance == Task(Loaded, << >>, "ok") /\ UNCHANGED <<statics, refused, listing>>

(* The game sells what it owns, and says how many are left; the last one is *)
(* not taken.                                                               *)
PawnItem(i, left) ==
  LET known == IF cached THEN i ELSE NoItem
      r == IF Loaded.item[known] = 1 THEN Loaded
           ELSE Earn([Loaded EXCEPT !.item[known] = left], "salvage",
                     IF cached THEN Returned[i] ELSE 0) IN
  /\ left < Loaded.item[i]
  /\ Task(r, <<r>>, "ok")
  /\ UNCHANGED <<statics, refused, listing>>

GrantHeroes(r) ==
  LET due == {HeroOf[p] : p \in {p \in DOMAIN HeroOf : r.item[p] > 0}}
  IN [r EXCEPT !.item = [i \in Ids |-> IF i \in due /\ @[i] = 0 THEN 1 ELSE @[i]]]

Owned(r) == InOrder({i \in Items : r.item[i] > 0})

(* The page after those already given, whatever page is asked for.  When    *)
(* the inventory has shrunk below the index, size - index wraps around and  *)
(* a page is made of what lies behind the list, if the process survives it. *)
PageAt(owned) ==
  IF index > Len(owned) THEN [k \in 1..PageSize |-> NoItem]
  ELSE SubSeq(owned, index + 1, Min({index + PageSize, Len(owned)}))

(* Slip: the last page leaves the index where it is.                        *)
NextIndexKept(page) == index + Len(page)

NextIndex(page) == IF Len(page) = PageSize THEN index + PageSize ELSE 0

(* The game asks for the first page of a listing, or for the next.  A       *)
(* listing started anew half-way gets the rest of the one before.           *)
GetInventoryPage(first) ==
  LET r == GrantHeroes(Loaded)
      owned == Owned(r)
      page == PageAt(owned) IN
  /\ first \/ ~ended
  /\ index + PageSize <= MaxIndex
  /\ Task(r, IF r = Loaded THEN << >> ELSE <<r>>, "ok")
  /\ index' = NextIndex(page)
  /\ cached' = TRUE
  /\ pages' = IF first THEN page ELSE pages \o page
  /\ ended' = (Len(page) < PageSize)
  /\ listed' = IF (first /\ ended) \/ (~first /\ listed = owned) THEN owned ELSE Changed
  /\ UNCHANGED <<dud, refused>>

-----------------------------------------------------------------------------
(* bdReward.  The first daily login of a process means nothing.             *)
DudDailyLogin ==
  /\ answer = NoAnswer /\ ~dud
  /\ dud' = TRUE
  /\ UNCHANGED <<mem, cached, index, disk, toSave, writing, answer, clock, history,
                 listing, tasks>>

(* Slip: every login is the first one of its day.                           *)
AlwaysNewDay(r) == TRUE

(* Another day than that of the last claim, also when the clock was set back. *)
IsNewDay(r) == r.last # today

DailyLogin ==
  LET new == IsNewDay(Loaded)
      r == IF ~new THEN Loaded
           ELSE Earn([Loaded EXCEPT !.days = @ + 1, !.last = today], "keys", DailyKeys) IN
  /\ dud
  /\ Task(r, IF new THEN <<r, r>> ELSE <<r>>, "ok")
  /\ UNCHANGED <<statics, refused, listing>>

(* Opening a crate.  A claim of one that is not supported is refused and    *)
(* takes it all the same, in memory: the next task that saves makes it so.  *)
ClaimLootCrate(c, unlockAll) ==
  LET n == Loaded.item[c]
      taken == IF unlockAll THEN Loaded ELSE [Loaded EXCEPT !.item[c] = n - 1] IN
  /\ \/ /\ n = 0 /\ ~unlockAll
        /\ Task(Loaded, << >>, "error") /\ UNCHANGED <<cached, refused>>
     \/ /\ (n > 0 \/ unlockAll) /\ cached' = TRUE
        /\ Contents[c] = {} /\ Task(taken, << >>, "error")
        /\ refused' = IF unlockAll THEN refused ELSE TRUE
     \/ /\ (n > 0 \/ unlockAll) /\ cached' = TRUE
        /\ \E loot \in Contents[c] : LET r == GiveAll(taken, loot) IN Task(r, <<r>>, "ok")
        /\ UNCHANGED refused
  /\ UNCHANGED <<dud, index, listing>>

(* Slip: the reward of a match is not saved.                                *)
EndMissionUnsaved(match) ==
  /\ Task(Earn(Earn(Loaded, "keys", match.keys), "salvage", match.salvage), << >>, "ok")
  /\ UNCHANGED <<statics, refused, listing>>

EndMission(match) ==
  LET r == Earn(Earn(Loaded, "keys", match.keys), "salvage", match.salvage) IN
  /\ Task(r, <<r>>, "ok")
  /\ UNCHANGED <<statics, refused, listing>>

GrantItem(r, i) ==
  IF i \in DOMAIN Pack THEN Earn(Give(r, i, 1), Pack[i].currency, Pack[i].amount)
                       ELSE Give(r, i, 1)
GrantAll(r, list) ==
  LET after[n \in 0..Len(list)] ==
        IF n = 0 THEN r ELSE GrantItem(after[n - 1], list[n])
  IN after[Len(list)]

(* A level of a team, or a contract, is earned in matches, by a player      *)
(* whose balances the game has read: saving what was never loaded would     *)
(* make the file an empty one.  An unknown one, or one whose table is       *)
(* missing, is answered all the same: nothing is given, nothing saved.      *)
Earned == mem # Unloaded

(* A mission team gives the first of its rewards that is not owned.         *)
EndTeam ==
  LET due == {k \in 1..Len(Team) : Loaded.item[Team[k]] = 0}
      r == IF due = {} THEN Loaded ELSE GrantItem(Loaded, Team[Min(due)]) IN
  /\ Earned
  /\ Task(r, <<r>>, "ok") \/ Task(Loaded, << >>, "ok")
  /\ UNCHANGED <<statics, refused, listing>>

(* A pick gives copies of one item, or different items of its candidates,   *)
(* shuffled, none that is owned if there are enough others.                 *)
Chosen(r, pick) ==
  LET unowned == {i \in pick.items : r.item[i] = 0}
      pool == IF Cardinality(unowned) >= pick.count THEN unowned ELSE pick.items
      n == Min({pick.count, Cardinality(pool)})
  IN IF pick.same THEN {[k \in 1..pick.count |-> i] : i \in pick.items}
                  ELSE {list \in [1..n -> pool] : IsInjective(list)}
GivePick(r, pick) == {GrantAll(r, list) : list \in Chosen(r, pick)}

Outcomes(picks) ==
  LET after[n \in 0..Len(picks)] ==
        IF n = 0 THEN {Loaded} ELSE UNION {GivePick(r, picks[n]) : r \in after[n - 1]}
  IN after[Len(picks)]

EndContract(picks) ==
  /\ Earned
  /\ \/ \E r \in Outcomes(picks) : Task(r, <<r>>, "ok")
     \/ Task(Loaded, << >>, "ok")
  /\ cached' \in {cached, TRUE}
  /\ UNCHANGED <<dud, index, refused, listing>>

-----------------------------------------------------------------------------
(* save: the file is truncated when it is opened, and complete when it is   *)
(* closed.  It may fail to open, or fill the disk: nobody looks.            *)
OpenFile ==
  /\ toSave # << >> /\ ~writing
  /\ writing' = TRUE /\ disk' = Torn
  /\ UNCHANGED <<mem, statics, toSave, answer, clock, history, listing, tasks>>

FinishFile ==
  /\ writing /\ writing' = FALSE
  /\ disk' = Head(toSave) /\ toSave' = Tail(toSave)
  /\ failed' = FALSE /\ refused' = FALSE
  /\ UNCHANGED <<mem, statics, answer, clock, promised, inFlight, listing, tasks>>

WriteFails ==
  /\ toSave # << >> /\ toSave' = Tail(toSave)
  /\ writing' = FALSE /\ failed' = TRUE
  /\ UNCHANGED <<mem, statics, disk, answer, clock, refused, promised, inFlight, listing,
                 tasks>>

(* The answer confirms what the task made of the inventory, also when it    *)
(* could not be written.  What was confirmed does not count a crate that a  *)
(* refused claim took, until a task has saved it with its own changes.      *)
Reply ==
  /\ answer # NoAnswer /\ toSave = << >> /\ answer' = NoAnswer
  /\ promised' = IF answer = "ok" /\ ~refused THEN mem ELSE promised
  /\ inFlight' = {}
  /\ UNCHANGED <<mem, statics, disk, toSave, writing, clock, failed, refused, listing, tasks>>

(* The parser throws on a torn file: the task is not answered, and as       *)
(* nothing was loaded nothing will be saved, so the file stays as it is.    *)
Unreadable ==
  /\ answer = NoAnswer /\ ~Readable
  /\ cached' \in {cached, TRUE}
  /\ UNCHANGED <<mem, dud, index, disk, toSave, writing, answer, clock, history, listing, tasks>>

Crash ==
  /\ Forgotten
  /\ UNCHANGED <<disk, clock, failed, promised, inFlight, tasks>>

(* Midnight, or the clock is set, back or forward.                          *)
DayTurns ==
  /\ turns < MaxTurns /\ turns' = turns + 1
  /\ today' \in (1..MaxDays) \ {today}
  /\ UNCHANGED <<mem, statics, disk, toSave, writing, answer, history, listing, tasks>>

-----------------------------------------------------------------------------
Next ==
  \/ \E i \in Items, n \in Quantities : BuySchematic(i, n)
  \/ \E c \in Crates, n \in Quantities, currency \in {"keys", "codpoints"} : BuyCrate(c, n, currency)
  \/ GetBalance
  \/ \E i \in Items, left \in 1..MaxBalance : PawnItem(i, left)
  \/ \E first \in BOOLEAN : GetInventoryPage(first)
  \/ DudDailyLogin \/ DailyLogin
  \/ \E c \in Crates, unlockAll \in BOOLEAN : ClaimLootCrate(c, unlockAll)
  \/ \E match \in Matches : EndMission(match)
  \/ EndTeam
  \/ \E picks \in Contracts : EndContract(picks)
  \/ OpenFile \/ FinishFile \/ WriteFails
  \/ Reply \/ Unreadable
  \/ Crash \/ DayTurns

Spec == Init /\ [][Next]_vars

-----------------------------------------------------------------------------
Sound(r) == r \in Inventory /\ r.days <= turns /\ (r.last # today => r.days < turns)

(* No balance is ever overdrawn, and a day counts once for each time that   *)
(* the clock has come to it, however often the process is restarted.        *)
TypeOK ==
  /\ mem = Unloaded \/ Sound(mem)
  /\ disk \in {NoFile, Torn} \/ Sound(disk)
  /\ \A k \in 1..Len(toSave) : Sound(toSave[k])
  /\ cached \in BOOLEAN /\ dud \in BOOLEAN /\ index \in 0..MaxIndex
  /\ answer \in {NoAnswer, "ok", "error"} /\ (writing => toSave # << >>)
  /\ mem = Unloaded => answer = NoAnswer /\ toSave = << >>

(* Unless the last write has failed, which the tasks confirm all the same,  *)
(* the file holds what was confirmed to the game, or that and the whole of  *)
(* the one task under way, whenever the process ends: never a part of a     *)
(* task, and never less, unless it is torn and of no use at all.  Memory    *)
(* has nothing that was not confirmed but what the task under way did, and  *)
(* the crates that refused claims took since the last save.                 *)
Durable ==
  /\ failed \/ Held \in {Torn, promised} \cup inFlight
  /\ mem # Unloaded /\ answer # "ok" /\ ~refused => mem = promised

(* Why it is: what a task still has to write was in flight when it began,   *)
(* and ends with the inventory that it confirms; with nothing left to       *)
(* write, the file holds what the next answer will confirm.                 *)
PendingInv ==
  /\ answer \in {NoAnswer, "ok", "error"} /\ (writing => toSave # << >>)
  /\ toSave \in Seq(inFlight)
  /\ answer = NoAnswer => toSave = << >> /\ (mem # Unloaded => inFlight = {})
  /\ answer = "ok" /\ toSave # << >> => Last(toSave) = mem
  /\ answer = "error" /\ toSave # << >> => toSave = <<promised>> /\ mem = promised
MemoryInv ==
  mem # Unloaded /\ toSave = << >> /\ ~failed
  => Held = IF answer = "ok" /\ ~refused THEN mem ELSE promised
IInv == Durable /\ PendingInv /\ MemoryInv

(* Pages are counted by a static that knows nothing of the game's listings: *)
(* as long as the items owned stay the same, and no listing is started anew *)
(* before its last page, the pages up to a short one are the whole          *)
(* inventory, every item once.                                              *)
ListingComplete ==
  listed = Changed \/ pages = IF ended THEN listed ELSE SubSeq(listed, 1, index)
=============================================================================
