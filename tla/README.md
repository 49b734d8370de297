# A formal model of the IW7-Mod client

IW7-Mod is a client for a first person shooter: a program that loads the game's
binary, patches it and adds its own multiplayer parts.  This directory holds
TLA+ models of the parts that are concurrent, talk over an unreliable network or
have to survive a crash, the TLC configurations that check them, and theorems
about them that TLAPS proves.  The source is C++; paths below are relative to
`src/src/client/` unless they say otherwise.  The repository has no automated
tests: besides its code, only comments and messages say what it should do.

To repeat a check: `tlc -workers 2 -config Updater.cfg MCUpdater` and so on, one
line per run of the table below; `tlapm UpdaterProofs.tla` for proofs.

## 1. Inventory

Threads.  The game has a main thread (frames; the pipelines `main` and `lui`
of the scheduler run there), a renderer and a server thread with one pipeline
each, and IW7-Mod adds an async thread (one pipeline), a thread for its
emulated online services, console and updater threads.  Components
are objects registered by static constructors that the loader calls in phases;
they talk through the scheduler, through each other's free functions, through
connectionless UDP commands (`network::on`) and through hooked game functions.

| Component | State it keeps | Operations | Interacts with | Hard behaviour | Correct when |
|---|---|---|---|---|---|
| **updater** `component/updater.cpp` | install directory, `<exe>.old`, list of stale files, per thread an index and attempt; atomics `next_file`, `download_failed`; `result_data` | get the file list, delete garbage, check files, download on up to four threads, write, restart | the update server, the file system, a child process under Wine | crash between any two writes, a release published half-way, a failed or short write, one thread failing | nothing is written unless everything was fetched; a runnable binary always exists; repeated runs end up to date; a replaced binary leads to a restart |
| **scheduler** `component/scheduler.cpp` | per pipeline new tasks, tasks and an iterator; the async thread and its `kill` flag | schedule, loop, once, on_game_initialized, execute, shutdown | every component | scheduling from inside handlers and other threads during a pass; shutdown at any moment | no task lost, doubled or starved; prompt tasks in order; a quiet pipeline after the join |
| **fragment handler** `game/utils/fragment_handler.cpp` | sender: id counter; receiver: per address and id a count, fragments and an insertion time | fragment, handle, clean | network, profile infos, scheduler | loss, reordering, duplication, restart of the sender, a full table | a packet returned is one that was sent; none twice; nothing kept for ever |
| **connecting** `component/party.cpp`, `component/download.cpp` | host and challenge, `hash_cache`, `needs_vid_restart`, `fs_game`, `download_active`/`download_abort`, tasks | connect, infoResponse, mod and map check, download, abort, vid_restart, reconnect, set_new_map | network, scheduler (main, async), file system, command buffer | every outcome ends in another connect; old answers; aborts racing a starting download | nothing cancelled comes back; the right mod is loaded; it ends |
| **members** (hosting and party state) `component/party.cpp`, `patches.cpp` | on the server `g_memberInfo`, on every client `g_clientMemberInfo`; also map vote, start of a map, counts | clientInfo, memberInfoUpdate, drop, kick, kickClient; start_map, getInfo | engine, map rotation, network | players come and go, slots and addresses are used again, maps change, datagrams lost or overtaken | everybody knows everybody by the right slot |
| **server list** `component/server_list.cpp` | request to the master and its time, queue of servers with the time each was asked, sorted rows | refresh, getServersResponse, frame work, infoResponse, insert and sort, join | network, party | late answers of an earlier refresh, a server named twice, rows moving between two clicks | every row stands for one packet in time of the master asked; the queue drains |
| profile infos `component/profile_infos.cpp` | map from user to profile, on server and clients | send, receive, clear | fragment handler, network, party | late or missing fragments, users leaving | a profile shown belongs to the user |
| network `component/network.cpp` | table of callbacks by command | on, send, dispatch | everything that talks UDP | exceptions of handlers | stateless per packet |
| component life cycle `main.cpp`, `loader/component_loader.*` | list of components, "handled" flag per phase | post_start, post_load, post_unpack, pre_destroy | all components | premature shutdown, order of the phases, joins at the end | every phase at most once, by priority; shutdown ends |
| **demonware sockets** `component/demonware.cpp`, `game/demonware/servers/*` | servers, socket tables, queues in each direction, session keys | hooked connect, send, recv, select, close; frame of the server thread | the game's threads, the server thread | queues shared by threads, reconnecting on the same server object, shutdown | bytes arrive once and in order; the thread ends |
| **demonware services** `game/demonware/services/*` | one file per stored object; markets and rewards | one handler per task id | sockets, loot | paging, tasks that throw, several messages per task | replies are numbered, encrypted under the last key and in order |
| **loot and missions** `game/demonware/loot/*` | balances, items and log-in days, in memory and in one json file; the index of the listing | buy, pawn, open crates, log in, end a match or mission, read pages | services, file system | crash or failed write in the middle of a task, a listing over several requests | a file holds whole tasks only, and all that was confirmed, as long as writes succeed; a listing is complete |
| steam `steam/*` | registered callbacks, pending results | register, return_call, run_callbacks | the game | registration during delivery | each result delivered once |
| auth, rcon, command, map rotation, dedicated, console, fastfiles, scripting, stats, rendering, patches, discord | see `PROJECT.json` | | engine | mostly wrappers over engine calls | |

`PROJECT.json` lists every component with its sources and says of each whether
it is modelled, and why not.  Its `hazards` list what is hard to test in this
code, at the line where it bites, with the properties that cover it, or why none does.

## 2. Modules

| Module | Models | Checked by | Proved in |
|---|---|---|---|
| `Updater` | `component/updater.cpp`, `common/utils/io.cpp` write and move | `MCUpdater` | `UpdaterProofs` |
| `Scheduler` | `component/scheduler.cpp` | `MCScheduler` | `SchedulerProofs` |
| `FragmentHandler` | `game/utils/fragment_handler.cpp` | `MCFragmentHandler` | `FragmentProofs` |
| `ConnectFlow` | `party.cpp` (client side), `download.cpp` | `MCConnectFlow` | `PartyProofs` |
| `Lifecycle` | `main.cpp`, `loader/component_loader.cpp`, `pre_destroy` and threads of scheduler, demonware, terminal, download, discord | `MCLifecycle` | `LifecycleProofs` |
| `ServerList` | `component/server_list.cpp` | `MCServerList` | `ServerListProofs` |
| `Members` | member tables in `component/party.cpp`, with `patches.cpp`, `map_rotation.cpp` where they touch them | `MCMembers` | `PartyProofs` |
| `Ascending` | the order in which loops over slots, ids and lists come by their elements | used by `Members`, `ConnectFlow`, `Loot` | `PartyProofs`, `LootProofs` |
| `Replies` | what a server's replies to a sequence of packets are | used by `ReplyStream` | `DemonwareProofs` |
| `ReplyStream` | what a TCP server of the demonware emulator promises (abstract) | instantiated by `Demonware` | `DemonwareProofs` |
| `Demonware` | TCP side of `component/demonware.cpp`, `game/demonware/servers/*`, `keys.cpp`, `reply.cpp` | `MCDemonware` | `DemonwareProofs` |
| `Loot` | `game/demonware/loot/*`, `bdMarketplace`, `bdReward` | `MCLoot` | `LootProofs` |

Each module describes its own variables; `PROJECT.json` "map" gives for each
definition the lines it translates.  A definition that a comment introduces with
*Slip* is no part of a specification: it is the form a plausible bug would give
the definition below it, and shows that a property notices the difference.

### Updater

One action per step of the process: `Launch` is `post_start` up to the choice to
update, `GetFileList`/`NoFileList` get the list, `DeleteGarbage` and `CheckFiles`
compare the disk with it, `SpawnThread` and `JoinThreads` run the pool;
`ThreadLoop`, `ThreadClaim`, `FetchGood`/`FetchBad`, `ThreadStore` and `ThreadFail`
are the body of a download thread (`next_file`, the attempts, `download_failed`,
`result_data`); `MoveBinary`, `OpenFile`, `FinishFile` and `WriteFails` follow
`write_binary` (move to `.old`, then write) and `write_file`, and
`UpdateComplete`, `Play` and `RestartSelf` what `post_start` does with the result.
`Stop` kills the process anywhere, `ChildDies` does so to the child under Wine,
`RestoreBackup` is the player putting `.old` back, `Publish` the server moving to
another release between two requests.  A content is the pair of name and hash the
list gives it; `Torn` is a file opened for writing that was cut off, which is all
that a reader of the disk can tell.

### Scheduler

`Schedule` is `schedule`/`loop`/`once`; a pass is `BeginExecute` (lock, merge),
`SkipTask`, `CallTask`, `EndTask`/`KeepTask` and `EndExecute`, so any other
thread may act between a handler's call and its return.  A task's time is the
ticks left of its interval, set back when it is called.  A *gate* is
`on_game_initialized`, which polls on `main` and then schedules.  `StartAsync`, `Shutdown`,
`AsyncExit` and `Join` are `post_start` and `pre_destroy`.  `owed` is a history
variable, read by no guard: what was due when a pass began and that pass has not
called yet.

### FragmentHandler

`Send` is `fragment_data` and the datagrams; `Reject`, `Store` and `Complete`
are the outcomes of `handle` in the order of its tests; `Clean` is the loop of the
component.  The content of a fragment, `Part`, is known by the start of the sender's
program and by the place of the packet it was cut from: that tells apart what two
packets of one id carry and what two fragments of one packet carry, so that a part
kept or appended in the wrong place shows.  `handle` goes by the index in the
header, which is a field of its own.  `Hole`
is the empty string `operator[]` makes when a fragment is missing: `handle` judges
completeness by the number of fragments, not by their indices.

### ConnectFlow

The main thread and the async thread act in turn.  `InfoResponse` is
the handler up to its first call into another thread's state (errors and early
returns are `Dismiss` and `BadFiles`; `Compare` is `download_files` with
`check_download_mod`, `check_download_map` and `connect_to_party`); the flag
accesses of `stop_download` and `start_download` are steps of their own
(`StopRead`, `StopAbort`, `StartRead`, `StartReset`), because each takes the lock
anew and the async thread runs between them; `BeginPass`, `KeepTask` and `RunTask` are
the main pipeline, where a task that stays keeps its place (`kept`) before those scheduled
meanwhile (`tasks`); `JobBegin` to `JobConnect` the download task.  A join that met
data out of sync is a task that stays for a second and then is called again, which puts it
behind all others.  `VidRestart` is the command
buffer.  `NewMap` is `set_new_map`, whose hashes have entries of their own in `hash_cache`
(`mapCache`): it spells the paths with backslashes.  `GoOnline` and `LeaveMode` are the
two conditions `connect_to_party` asks for; the player leaves the mode for good.  A hash is a model value, and `Missing` both no file and no hash.  A server that
names no hash for the required file of its mod (`ModNamed`) gets no further than an
error.  The names of the module differ from those of `Members` (`ConnectSpec`,
`ConnectTypeOK`), since one proof module extends both.

### Lifecycle

The main thread calls one hook of one component per step, in the order the
components were registered in: `PostStart`, `PostLoad`, `PostUnpack`, then the
actions of `PreDestroy`.  `PhaseDone`, `SetThreadAffinityMask`, `StartFails` and
`ExitHook` are what `main` and the two hooks of its import resolver do in
between.  A `pre_destroy` that stops a thread is two steps, the flag
(`StopScheduler`, `StopDemonware`, `StopTerminal`) and `Join`, and the threads run
between them: the async thread with its pass, a download file by file and Discord's
callbacks, `ServerMain`, and `ConsoleThread` with its wait.  The terminal is
registered in `main`, after all static constructors, and comes last; the order of
the others is the linker's.  The terminal stands for the console (it is the
default), and the client is not a dedicated server, which would not start Discord.
A hook that stays on the main thread is a step without effect (the splash
screen, drawing, Steam); the updater, which may replace the process in
its `post_start`, has a module of its own.  `ExitProcess` is taken to be called
by the main thread.

### ServerList

`RefreshServerList` is the menu opening or the refresh key, with whatever
master the dvars name; `GetServersResponse` is one packet of its answer,
`DoFrameWork` a frame (time-outs, at most `QueryLimit` new queries),
`HandleInfoResponse` an answer to getInfo with the insert and the stable sort,
`JoinServer` a click.  `queued` is the map of queued servers with the time since the
query.  What a master or a server sent stays with the network, which may bring it never,
once or often, at once or after later requests.  For the properties only, packets carry
their request; `awaited` is the master whose answer to the last one is not over, `seen` the
packets of that answer which came in time, and `strays` counts, per server, the copies of
those and the packets of earlier requests of the same master that did too.  `Heeded` is the test of the code,
which knows none of this: a request is open and the sender is the master asked last.

### Members

`Join`, `Leave`, `FreeSlot` and `LoadMap` are what the engine does to slots, and
are external: a slot keeps the address of its last player.  `ParseGamestate` is
the client clearing its table and reporting itself, `ClientInfo` the server's
handler (find the slot by address, enter, tell all, tell the sender of all),
`MemberInfoUpdate` the client's.  `KickClient` and `Kick` schedule, and
`KickClientNum` is the task on the server pipeline: who is in the slot then is not
necessarily who was meant.  `MapRotate` calls for a rotation, and `due` counts the calls
to come, since one that meets data being synchronised puts itself off;
`PerformMapRotation` clears the server's table and queues the map command, which `LoadMap`
runs.  `JoinGame` is `party::connect` on an invitation taken while playing: `hosts`, whose
value says whether a player's `server_connection_state` names this server, changes at once, and
`ParseGamestate` reports to what it names.  `astray` keeps, for the property only, who
reported its last gamestate elsewhere.

### ReplyStream and Demonware

`ReplyStream` says what one server promises: packets are handled in the
order they were sent, and the bytes read are the replies to them, which depend on
earlier packets only through keys and numbers.  `Demonware` has one action per
socket hook (`Connect`, `Closesocket`, `Send`; recv is `PendingData`, which looks
without the lock, and `HandleOutput`) and per step of the server thread
(`ServerMain`, `Frame`, `NextPacket`, and `Handle` with one disjunct per kind of
packet: raw answers, the two packets of the key exchange, tasks, and what
gets no answer, among it a task that throws).  A task stands for all services: one
reply, a push message before it, or a message without reply.  A byte is its reply
and its place in it.

### Loot

A task is one step in memory (`BuySchematic`, `BuyCrate`, `GetBalance`, `PawnItem`,
`GetInventoryPage`, `DailyLogin`, `DudDailyLogin`, `ClaimLootCrate`, `EndMission`,
`EndTeam`, `EndContract`), since only the server thread touches it, then `OpenFile`
and `FinishFile` (or `WriteFails`) for each save, then `Reply`.  `Crash` may come
between any two, and between opening and finishing, which leaves a `Torn` file.
`Unreadable` is a task that meets such a file: the parser throws, the lobby
server swallows it.  `DayTurns` is the clock, which starts at `FirstDay` and may be set
back: a day is new when it is not that of the last claim.  A team level or contract
is ended only after the game has read its balances (`Earned`): a contract without loot
that came first would write an empty file (missions.cpp 431).  A page is asked for as
the first one or the next, and the code gives the next in either case.  What a
mission or contract pays is a list of grants, and of picks: so many copies of one
item, or so many different ones, out of a list that the code shuffles.

## 3. Runs

| Run | Question | Bounds |
|---|---|---|
| `updater` | Do the properties of an update hold, and do runs heal the install once faults stop? | four files (binary, two data files of which the second release drops one, an ignored one), two releases, two threads (enough for every race on the counter, flag and list), two attempts, Wine and thus the child process |
| `updater_restart` | violation: a run that returned false has replaced the binary | as above, one attempt |
| `scheduler` | Are tasks kept, called, ordered, and does shutdown end? | four tasks: a once task and a poll that may end at any call on the async pipeline, a gate and the task it schedules; three pipelines |
| `fragments` | What is delivered over a bad network? | one sender (entries are per address and independent), two packets of one to four fragments with a limit of three, two ids, two starts, one duplicate |
| `fragments_hole` | violation: a packet that was never sent is returned | one packet of three fragments, one duplicate |
| `connect` | Does a connect end, on the right mod, and do cancelled attempts stay so? | two servers, with and without a mod, two versions of a usermap; two connects or map changes, so that a second attempt overlaps the first at every step; no answer comes twice |
| `lifecycle` | Does going down end, with every thread joined, wherever the start failed or the game exited? | the five components with hooks and one that stands for the rest, in every order; a download of up to two files |
| `server_list` | Are rows accounted for over a bad network, and does the list settle? | two servers, one named in both packets of an answer; two masters, two refreshes, one join, one query per frame; time-outs of one and two ticks, so that an answer comes before, at and after each |
| `members` | Do tables agree once all has arrived? | two players who come three times to two slots, one new map, one kick or one lost or overtaken datagram; both players are interchangeable (symmetry) |
| `demonware` | Is each server's stream kept while the game's threads connect, close and share it? | two sockets that may share the lobby server, two packets to it and one to the authentication, replies of two bytes read three at a time, so that reads cut and join replies |
| `loot` | Is the file durable, is anything overdrawn, is a listing whole? | five items (a crate, one that is not supported, a hero's piece and the hero, an item that carries currency), pages of two, four tasks, two days and a clock set back |
| `connect_unload` | violation: a file of the loaded mod is written | one connect |

The constants of the models that bound a run (`MaxPackets`, `MaxStarts`, `MaxId`,
`MaxDuplicates`, `MaxAsks`,
`MaxStrays`, `MaxRefreshes`, `MaxJoins`, `MaxMaps`, `MaxTrouble`, `MaxPending`, `MaxSends`,
`MaxBalance`, `MaxDays`, `MaxTurns`, `MaxIndex`, `MaxTasks`) are named as such where they are declared; what the
code bounds keeps the code's names (`MaxThreads`, `MaxAttempts`, `MaxFragments`).
`CHECK_DEADLOCK FALSE` is set where the modelled part may come to rest: a
client in a game with nothing under way, a network that delivers nothing more, a
process that has ended, a server all players have left for good, a game that
sends no more packets.
The updater, scheduler, server list and loot never come to rest, and deadlock is
checked there.

### Safety

- *Updater.*  `CompleteBeforeInstall`: the threads' sharing of the counter, flag and
  results means that a write begins only when each stale file was fetched once with
  the listed content.  `BinaryRecoverable`: a complete binary exists under one
  name or the other.  `CompleteUpdateInstalls`: a run without a failure leaves
  listed files at listed content, or cut off.  `OnlyReleaseContent`: nothing
  else is ever written.
- *Scheduler.*  `NoTaskLostOrDoubled`, `PromptTasksInOrder` (a download's file
  name, progress and end reach the script in this order), `QuietAfterJoin`.
  `PassMissesNothing` is an action property: a pass that ends has called, in this
  pass, every task that was due when it began.
- *FragmentHandler.*  Without duplicates and restarts `DeliveredWhole` and
  `DeliveredOnce` hold whatever is lost, reordered or cleaned; with them
  `DeliveredInPlace` still does: right length, and each piece in the place it was
  cut from.  `EntriesIncomplete`: no entry holds a whole packet.
- *ConnectFlow.*  `NoAttemptResurrected` is an action property: only a player's
  request, a change of map or a duplicated answer adds an attempt to those under
  way, whatever restarts, downloads and aborts do; `ModSwitchedBeforeJoin` relates the
  answer that joins to what earlier ones did to `fs_game`.
- *Lifecycle.*  `NoThreadOutlivesDestroy`: a `std::thread` that could still be joined
  would end the process in static destruction.  `KillStopsDownload`: the exit waits
  for one request, not for the rest of the files.  `CallbacksNeedDiscord` says
  when the async thread may still use a library that was shut down: only if
  the linker put discord before the scheduler.

- *ServerList.*  `RowsAccounted`: rows of a server and its place in the queue are
  together no more than the packets that named it since the refresh and came from the
  master asked last before the end of its answer or the time-out.  Copies of a
  packet and packets of that master's earlier answers count among these: the code does
  not tell them apart, so either may bring a server its second row.  What comes after the
  end, or from another master, and answers that are doubled or were asked for by
  others make none.  A ping is not matched to its query: it counts from the last one.
- *Members.*  `MembersAgree`: when nothing is on its way and nothing was lost or
  overtaken since the last map, the server's table and every player's have every player
  in its slot.  The condition is needed: an update is sent once.  So is the other:
  a player who asked another server to take it (Discord offers that in mid-game) and was refused
  plays on, but reports the next map to that server, so neither it nor its name is told
  of here until it reports here again.  The property does not say that an empty slot is empty in a table, and it is not: an entry of the
  server outlives its player.
- *Demonware.*  `DataStays`: a recv that saw data gets some, unless two sockets
  were linked to one server at a time.  `StreamsKept` is the refinement of
  `ReplyStream` by both servers, its `Serve` being the handling of one packet.
- *Loot.*  `TypeOK` says that no balance is overdrawn (they are unsigned in the code)
  and that a day counts once each time the clock comes to it.  `Durable`: unless the
  last write failed (nobody looks, and the task is confirmed all the same), the file is
  what was confirmed, or that and the whole of the task under way, or torn; and
  a refused task leaves memory as confirmed, unless it is a claim of a crate that is
  not supported.  `ListingComplete`: while what is owned stays the same and no listing is
  started anew half-way, the pages up to a short one are the inventory, once.
  Met on the way and kept in the model: prices are zero until the
  first listing has cached the tables; a crate of an unsupported kind is taken
  from memory and the refusal not saved, so that the next save makes the loss
  permanent; items that go between two pages can leave the index past the end; a
  torn file is never replaced.

### Liveness and the fairness it rests on

- *Updater.*  `FairSpec` is weak fairness of the main and each download thread:
  they are system threads, and every request and file operation returns (the
  http library has a time-out).  `UpdateEnds` follows.  `RunsHeal` adds a
  player who keeps starting the game, and quits it, and puts `.old` back when the
  binary is gone; it says nothing unless faults stop (`FaultsStop`).
- *Scheduler.*  Frames keep coming and handlers return; time passes.
- *FragmentHandler.*  The clean-up is a loop of the async pipeline, time passes.  No
  datagram need arrive.
- *ConnectFlow.*  Both threads go on, and a join's second ends (`SF` of
  `JoinCalled`: between two passes, a pass may find it not over).  `ConnectSettles` exempts two
  endless repetitions the code really has: a write that fails each time (its
  result is not read, the file is found outdated by the next answer), and a stale
  hash in `hash_cache`, which is cleared only when a map is hosted.
- *ServerList.*  Frames run and time passes (`WF` of `DoFrameWork` and `Tick`): the main
  thread polls in every frame.  No packet need arrive.  `ListSettles`: a request
  ends and every server named becomes a row or is given up.
- *Demonware.*  The server thread runs (`WF` of its steps taken together: it never
  waits).  With it `StreamsKept` includes that every packet is handled,
  unless the thread ends before.
- *Lifecycle.*  The threads run, tasks return, and the main thread goes on once it is
  in `pre_destroy`; nobody need type.  `ShutdownEnds` exempts one state the code can
  really reach: `server_main` clears `exit_server` first, so a demonware thread
  that the system starts only after `pre_destroy` has set the flag runs for ever,
  and the join with it.

## 4. Disagreements between code and comments

1. `updater_restart`.  "returns true if the binary was replaced and a restart is
   required": when a later file fails to be written, `run_update` returns false
   after the binary was replaced.  The next launch heals it.
2. `fragments_hole`.  "Reconstruct final_packet": a duplicate of the last stored
   fragment takes the place of a missing one in the count, and an
   empty piece is put into the packet.
3. `connect_unload`.  "unload mod before downloading it": when the usermap is
   outdated too, the restart that unloads waits for the download, and the second
   answer downloads the mod's files while the mod is loaded.

## 5. Proofs

What a theorem states holds for every value of the constants the module's ASSUME
allows: any number of files, releases, threads, attempts, senders, ids.

`UpdaterProofs`: `TypeCorrect`, `InstallsComplete` (CompleteBeforeInstall),
`BinarySafe` (BinaryRecoverable), `UpdatesInstall` (CompleteUpdateInstalls) and
`ContentFromRelease` (OnlyReleaseContent), all from `Invariance`: `IInv` is
inductive.  CompleteBeforeInstall says nothing of the time before the install, so
it is no induction hypothesis; `IInv` adds who owns an index: `ClaimInv` (an
index in flight is held by one thread, lies below `nextFile`, and the data about
to be stored is the listed one) and `ResultInv` (every index below `nextFile` is
in flight, stored or lost to a failure).  When all threads have exited with no
failure, no index is in flight and `nextFile` is past the end, so all are stored.
`DiskInv` carries that through the writes; `PhaseInv` says which variables
are reset when.  `IInv` implies the types of intermediate values the code never checks.

`FragmentProofs`: `TypeCorrect`, `EntriesStayIncomplete`, `EntriesBounded` from
`SafeInv`; `WholePackets` and `PacketsOnce` from `CalmInv`.  While the
network duplicates nothing and no sender restarts, an id determines one packet
(`Sole`), a datagram under way and the piece stored of it exclude each other, so
each piece is stored once (`Sent`, `EntrySent`), and a count equal to the number of pieces
means every index is there; `Done` and `Once` say what was delivered
leaves nothing behind from which it could be put together again.
`EntriesBounded` shows that the table of an address holds one entry more than the
constant: the code compares with `>`.
`PiecesInPlace` (DeliveredInPlace) needs none of this calm: a fragment under way and a piece
of an entry are parts of a packet that was sent, cut from the place their index names,
whichever start of its sender that was (`Traced`).

`LifecycleProofs`: `TypeCorrect`, `ThreadsEnd` (NoThreadOutlivesDestroy),
`OneLateFile` (KillStopsDownload) and `DiscordSafe` (CallbacksNeedDiscord), for any
set and order of components.  What must hold at the end says nothing on the
way, so `IInv` adds `DestroyInv`: at every step of `pre_destroy` the components
whose hook has run have ended their thread, and no phase that follows starts one.  `TaskInv`
(only a running async thread has tasks, and a download has files left) ties
`CallbacksNeedDiscord` to the scheduler's join; `LateInv` says that the one late file is the
one whose request had ended when the flag was set.

`SchedulerProofs`: `TypeCorrect`, `TasksKept` (NoTaskLostOrDoubled), `PromptInOrder`
(PromptTasksInOrder), `NothingAfterJoin` (QuietAfterJoin) and `PassComplete`
(PassMissesNothing), for any tasks, delays, pipelines and gates.  The lists of a
pipeline, put one behind the other, are one `line`, and all that happens to it is that a task
is added at its end or taken out: a merge does not change it, calls and time
change only what is left of a delay.  So it is always in the order of scheduling
and holds nothing twice (`Lined`, `Sorted`; the lemmas `CutFacts` and `AddFacts`), and
a task not yet called, or a loop, is in it (`KeptInv`).  `PassInv` adds that the pass has
called the prompt tasks behind the iterator; a prompt task called before an
earlier one would have the earlier one behind it, and uncalled.  `GateInv` is needed since a gate
schedules from inside its handler: its task must not be in line already, which
is why the assumption gives each gate a task of its own.  `PassComplete` needs
`OwedInv` besides: what a pass still owes is at its iterator or ahead of it, which
erasing under the iterator keeps by moving the list and not the iterator.

`LootProofs`: `SavesAreDurable` (Durable), for any items, prices and rewards.
`PendingInv` says that what a task has yet to save was in flight and ends with
the inventory about to be confirmed; `MemoryInv` that with nothing left to save, and no
write that failed, the file is what the next answer confirms, or what the last one did
when the task is refused or memory is ahead by a refused claim.
`ListingsAreComplete` (ListingComplete) rests on `Begun`: as long as what is owned stays
the same and no listing is started anew half-way, the pages so far are as many items of the ordered inventory as the index
says, so a short page ends it.  `TypeCorrect` (TypeOK) is about money and days.  `Books`
says that the days counted are no more than the turns of the clock, and fewer on a
day that is not yet counted, so that there is room for one more.  What a task grants is computed by
recursion over a list, and that every step of it stays within the balances is an
induction over sets of indices, from the well-foundedness of `<` (the library's
induction takes an operator, see below).

`ServerListProofs`: `TypeCorrect`, `EveryRowNamed` (RowsAccounted) and `RowsInOrder`, for
any servers, masters, packets and time-outs.  The comparison is a strict weak
order (`BeforeOrder`), so the place of an element in the stable sort, the number of
those that do not come behind it, is another for each (`Places`, `Origins`, by counting).
The sort is thus a permutation (`SortFacts`) and an answer adds one row of
its server (`RowAdded`) as it takes its server off the queue.  `RowsAccounted` is then
inductive with the types and `Underway`: a request that is open is one whose
answer is not over, so every packet that is heeded is in time (`OneMore` counts it).

`PartyProofs`, for the members: `TypeCorrect` and `MembersKnowEachOther` (MembersAgree),
for any players and slots.  A player is found in the slot it plays in (`Placed`): no slot
before one that is in use has the same address, so the server's search by address, which
stops at the first, meets nobody's old slot.  MembersAgree says something only of a quiet
network; `AgreeInv` says what it will come to.  While nothing was lost or overtaken, whoever
plays is in the server's table or will report, unless it went astray or a kick or a new map is on its way
(`Announced`); and for every two who play, one will still report or went astray, or the last update that the
one is sent of the other's slot is right, or none is on its way and its table is (`Told`).

`PartyProofs`, for the way onto a server: `ConnectTypeCorrect` (ConnectTypeOK),
`NothingResurrected` (NoAttemptResurrected) and `JoinsWithMod` (ModSwitchedBeforeJoin),
for any servers, mods, files, hashes and versions on disk.  `AsyncWork`, `TaskWork` and
`MainWork` say that a download, wherever it is, has a server and a file left to get,
since an empty list would take the async thread past its end; `HostInv` that nothing is
under way before the first connect, since a reconnect goes to the host of its moment.  Then
each step's effect on the number of attempts is counted (`AttemptsStep`): each outcome
of an answer, restart, download, poll or abort replaces one attempt by at most one, and a
connect makes every answer under way an old one.  `RestartInv` (fs_game is loaded unless a
restart is due) with `ModCheckFacts` (no restart and nothing to download mean that
fs_game is the server's) gives the third; it needs that the mod's required file is
named, a guard the model had left to chance before the proof asked for it.

`DemonwareProofs`: `TypeCorrect` (TypeOK), `SeenDataStays` (DataStays) and
`StreamsImplemented`: both servers implement the safety part of `ReplyStream`
(`LobbyStream!Safe`, `AuthStream!Safe`) for any sockets, packets, lengths of replies and
reads.  The packets not yet handled are the last ones sent, in their order, that in service first
(`InTurn`), and who shares a server is remembered, so that the data a recv has seen is its
own on every other one (`Apart`).  `SaidInv` is the refinement in
one line: what was heard and what is queued are, one behind the other, the bytes of the
replies to all packets served.  `LobbyAt` adds that the key, the counters and the
packet buffer of the lobby are what the packets served make them, so that the next reply is the one `Replies`
gives; `KindInv` that only packets of its kinds reach a server.  Each step is then
one of the four of `ReplyStream` for one server and one for the other, or a stutter.

Every safety invariant and action property that a passing run checks is thus a
theorem.  Only model-checked are the liveness properties (`UpdateEnds`, `RunsHeal`,
`EveryTaskRuns`, `ShutdownEnds` of two modules, `EntriesGo`, `ListSettles`, `ConnectSettles`) and the
fairness part of `StreamsKept`: fairness and `ENABLED` are outside the prover's
reach.  A theorem of the library that takes an operator as a parameter (induction over
numbers, finiteness of an image) cannot be applied, so the proofs use
sets and functions in its place, and the modules recursive functions and `Ascending` where
they might have used folds and selections.

## 6. Not modelled

The engine itself, formatting, drawing, user interface, and external
libraries; `PROJECT.json` gives the reason for each component.  In modelled
components: the choice of the release by branch and the progress window
(updater); real time (delays are "not yet"); the bytes of a fragment; the
server's side of the connect, which is the set of answers it may give; the map
vote, bots and a listen host (members); the UDP servers, `select` and the names of
hosts, the session key, which is a constant, and numbers that are none in the game's
request to the auth server, where `std::stoul` would throw out of the server thread
(demonware); the order of shuffled candidates, which is a choice, and the
counters that number mission replies (loot).

Left out as a whole, for reasons other than size: *profile infos*, because who asks for
a profile, and when, is decided by the engine's card cache, and a model would
prove what it assumes of it (one hazard is known: a profile the server already
has is ignored, and with it the occasion to send the others to a player who
came back); *rcon* and the *Steam callbacks*, where what goes wrong depends on what the
engine prints and what the game's handlers call; *map rotation* beyond what it does to
members, one pass over a string whose rest is a dvar the player may set as
well; the `disconnect` of `patches.cpp` 215, which takes the place of the engine's host
migration: it ends the match of a player who hosts and clears the server's table of
members, and such a host is not modelled.  Rendering, scripting, fast files, patches and the tables of engine
addresses, structures and vendored code are the greatest part of the source by
length, and hold no protocol.

## 7. Plan

In the order of what matters most to a player:

1. All ten component modules with their runs, and the proofs of every safety property
   they check: done.
2. Lemmas that the liveness properties rest on and that are safety: for each, a
   quantity that no step of the fair actions increases (the files left, the tasks
   in a pass, the queue), as action properties.
3. Further components, in this order: map rotation as a loop over its string, the
   dispatch of the network, the callbacks of Steam.
