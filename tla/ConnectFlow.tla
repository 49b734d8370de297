---------------------------- MODULE ConnectFlow ----------------------------
(***************************************************************************)
(* How the client gets onto a server: src/src/client/component/party.cpp   *)
(* (connect, infoResponse, download_files) and download.cpp, with the two  *)
(* scheduler pipelines that carry them.  The main thread sends getInfo,    *)
(* compares the mod and map files the answer names with its own, and then  *)
(* downloads, restarts the video system to switch the mod, or joins; each  *)
(* of the first two ends in another connect().  Downloads run on the async *)
(* thread and share a flag pair with the main thread.                      *)
(***************************************************************************)
EXTENDS Naturals, Sequences, FiniteSets, SequencesExt, Ascending

CONSTANTS
  Servers,      \* servers the player may connect to
  ModOf,        \* ModOf[s]: fs_game of s, NoMod for none
  NoMod,
  ModFiles,     \* ModFiles[m]: its files in order; the first is the required one
  MapFiles,     \* MapFiles[s]: files of s's usermap, << >> for a stock map
  Want,         \* Want[s][f]: hash s names for file f, Missing for none
  Found,        \* Found[f]: the versions of f the client may start with
  HasUrl,       \* HasUrl[s]: sv_wwwBaseUrl is set
  Hashes,
  Missing,      \* no file, and the empty hash
  NoServer,
  MaxAsks,      \* connects of the player and map changes (bound of the model)
  MaxDuplicates \* answers the network duplicates (bound of the model)

Files == DOMAIN Want[CHOOSE s \in Servers : TRUE]
Mods == {ModOf[s] : s \in Servers} \cup {NoMod}

ASSUME ConnectAssumption ==
  /\ NoServer \notin Servers
  /\ Missing \notin Hashes
  /\ \A s \in Servers : Want[s] \in [Files -> Hashes \cup {Missing}]
  /\ \A s \in Servers : ModOf[s] = NoMod \/ ModFiles[ModOf[s]] \in Seq(Files) \ {<< >>}
  /\ \A s \in Servers : MapFiles[s] \in Seq(Files)
  /\ Found \in [Files -> SUBSET (Hashes \cup {Missing})]
  /\ MaxAsks \in Nat /\ MaxDuplicates \in Nat

VARIABLES
  host,         \* server_connection_state.host
  net,          \* answers under way; current: carries the last challenge
  fsGame,       \* the fs_game dvar
  loaded,       \* the mod the last vid_restart loaded
  needsRestart, \* needs_vid_restart
  restart,      \* a vid_restart waits in the command buffer
  disk,         \* hash of every file
  cache,        \* hash_cache, Missing where it has no entry
  mapCache,     \* its entries under the paths set_new_map looks up
  active, abort,\* download globals
  queue,        \* download tasks of the async pipeline
  job, step,    \* the one that runs, and where it is
  pass, kept,   \* tasks this pass of the main pipeline has yet to come to, has kept
  tasks,        \* those scheduled since it began
  main,         \* what the main thread is in the middle of
  online,       \* Live_SyncOnlineDataFlags(0) is 0
  inMode,       \* the active game mode is MP or CP
  joined,       \* server the game was last told to connect to
  asks, duplicates,
  crashed       \* an exception has left a scheduler task

partyVars == <<host, net, joined>>
modVars == <<fsGame, loaded, needsRestart, restart>>
caches == <<cache, mapCache>>
fileVars == <<disk, caches>>
flagVars == <<active, abort>>
jobVars == <<queue, job, step>>
passVars == <<pass, kept>>
modeVars == <<online, inMode>>
boundVars == <<asks, duplicates>>
connectVars == <<partyVars, modVars, fileVars, flagVars, jobVars, tasks, passVars, main,
          modeVars, boundVars, crashed>>

Job == [target : Servers, files : Seq(Files)]
Task == [kind : {"connect", "reconnect", "poll", "join"}, target : Servers,
         files : Seq(Files)]
TaskOf(kind, s) == [kind |-> kind, target |-> s, files |-> << >>]
NoJob == [target |-> NoServer, files |-> << >>]
Idle == [pc |-> "idle", target |-> NoServer, files |-> << >>, from |-> "none"]
Busy(pc) == ~crashed /\ main.pc = pc
Free == Busy("idle") /\ pass = << >>

ConnectInit ==
  /\ host = NoServer /\ net = {} /\ joined = NoServer
  /\ fsGame \in Mods /\ loaded = fsGame /\ needsRestart = FALSE /\ restart = FALSE
  /\ disk \in {d \in [Files -> Hashes \cup {Missing}] :
                \A f \in Files : d[f] \in Found[f]}
  /\ cache = [f \in Files |-> Missing] /\ mapCache = cache
  /\ active = FALSE /\ abort = FALSE
  /\ queue = << >> /\ job = NoJob /\ step = "none"
  /\ tasks = << >> /\ pass = << >> /\ kept = << >> /\ main = Idle
  /\ online = FALSE /\ inMode = TRUE
  /\ asks = 0 /\ duplicates = 0 /\ crashed = FALSE

-----------------------------------------------------------------------------
(* connect(): the new challenge makes every answer under way an old one.    *)
(* The answer may come from a server on a stock map, on its usermap, or on  *)
(* one it names no hash for.                                                *)
MapKinds == {"stock", "usermap", "unnamed"}

Connect(s) ==
  /\ host' = s
  /\ \E map \in MapKinds :
       net' = {[m EXCEPT !.current = FALSE] : m \in net}
                \cup {[from |-> s, current |-> TRUE, map |-> map]}

(* get_file_hash: of the file, unless a hash of it is in the cache; one of  *)
(* a missing file is not kept.                                              *)
Hash(f) == IF cache[f] # Missing THEN cache[f] ELSE disk[f]
Remember(fs) ==
  /\ cache' = [f \in Files |-> IF f \in fs THEN Hash(f) ELSE cache[f]]
  /\ UNCHANGED mapCache

(* What a loop over fs picks out: its elements in S.                        *)
Picked(fs, S) ==
  LET places == {i \in DOMAIN fs : fs[i] \in S}
  IN [k \in 1..Cardinality(places) |-> fs[InOrder(places)[k]]]

Offered(s, fs) == Picked(fs, {f \in Files : Want[s][f] # Missing})
ModOutdated(s, f) == disk[f] = Missing \/ Hash(f) # Want[s][f]
MapOutdated(s, f) == Hash(f) # Want[s][f]

(* check_download_mod: the mod to set, whether that calls for a restart,    *)
(* the files to download and those whose hash was looked up.                *)
ModCheck(s) ==
  LET srv == ModOf[s]
      fs == Offered(s, ModFiles[srv])
      old == Picked(fs, {f \in Files : ModOutdated(s, f)})
      upto == {i \in DOMAIN fs : \A j \in 1..(i - 1) : ~ModOutdated(s, fs[j])}
  IN CASE srv = NoMod ->
            [set |-> NoMod, restart |-> fsGame # NoMod, files |-> << >>, seen |-> {}]
       [] srv # NoMod /\ srv = fsGame ->
            [set |-> IF old = << >> THEN srv ELSE NoMod, restart |-> old # << >>,
             files |-> << >>, seen |-> {fs[i] : i \in upto}]
       [] OTHER ->
            [set |-> IF Len(old) < Len(fs) THEN srv ELSE fsGame,
             restart |-> Len(old) < Len(fs), files |-> old, seen |-> ToSet(fs)]

(* It throws when the server names no hash of the mod's required file.      *)
ModNamed(s) == ModOf[s] # NoMod => Want[s][Head(ModFiles[ModOf[s]])] # Missing

Looked(s) == {f \in ModCheck(s).seen : disk[f] # Missing}

(* check_download_map.                                                      *)
MapOffer(m) == IF m.map = "usermap" THEN Offered(m.from, MapFiles[m.from]) ELSE << >>
MapCheck(m) == Picked(MapOffer(m), {f \in Files : MapOutdated(m.from, f)})

(* Slip: a restart put off by a download is forgotten after it.             *)
RestartNow(s) == ModCheck(s).restart

(* needs_vid_restart outlives the answers that end in a download.           *)
NeedsRestart(s) == needsRestart \/ ModCheck(s).restart

-----------------------------------------------------------------------------
(* An infoResponse arrives; the network may deliver it once more.           *)
Receive(m) ==
  \/ net' = net \ {m} /\ UNCHANGED duplicates
  \/ duplicates < MaxDuplicates /\ duplicates' = duplicates + 1 /\ UNCHANGED net

(* Slip: any answer of the host will do, whatever its challenge.            *)
AnyAnswer(m) == host = m.from

Accepted(m) == host = m.from /\ m.current

(* Not from the host, an old challenge, a field that does not fit or no     *)
(* hash of the mod's required file: the attempt is over.                    *)
Dismiss(m) == UNCHANGED <<fsGame, needsRestart, restart, caches, joined, tasks, main>>

(* playmode, too, is that of a server of either mode.                       *)
Fits(m) == Accepted(m) /\ inMode /\ ModNamed(m.from)

(* No hash for the usermap's required file: menu error, after the mod has   *)
(* been dealt with.                                                         *)
BadFiles(m) ==
  /\ Fits(m) /\ m.map = "unnamed"
  /\ fsGame' = ModCheck(m.from).set
  /\ needsRestart' = NeedsRestart(m.from)
  /\ Remember(Looked(m.from))
  /\ UNCHANGED <<restart, joined, tasks, main>>

(* connect_to_party: join, or leave that to a task that tries again in a    *)
(* second if the online data is not in sync; nothing in another game mode.  *)
ConnectToParty(s) ==
  \/ ~inMode /\ UNCHANGED <<joined, tasks>>
  \/ inMode /\ ~online /\ tasks' = Append(tasks, TaskOf("join", s)) /\ UNCHANGED joined
  \/ inMode /\ online /\ joined' = s /\ UNCHANGED tasks

(* download_files: download what is outdated, else restart when the mod     *)
(* changed, else go on to connect_to_party.                                 *)
Compare(m) ==
  LET s == m.from
      files == ModCheck(s).files \o MapCheck(m)
  IN
  /\ Fits(m) /\ m.map # "unnamed"
  /\ fsGame' = ModCheck(s).set
  /\ Remember(Looked(s) \cup ToSet(MapOffer(m)))
  /\ \/ /\ files # << >>
        /\ needsRestart' = NeedsRestart(s)
        /\ main' = [pc |-> "stop", target |-> s, files |-> files, from |-> "info"]
        /\ UNCHANGED <<restart, tasks, joined>>
     \/ /\ files = << >> /\ NeedsRestart(s)
        /\ restart' = TRUE /\ needsRestart' = FALSE
        /\ tasks' = Append(tasks, TaskOf("connect", s))
        /\ UNCHANGED <<main, joined>>
     \/ /\ files = << >> /\ ~NeedsRestart(s)
        /\ ConnectToParty(s)
        /\ UNCHANGED <<needsRestart, restart, main>>

InfoResponse ==
  /\ Free
  /\ \E m \in net : Receive(m) /\ (Dismiss(m) \/ BadFiles(m) \/ Compare(m))
  /\ UNCHANGED <<host, loaded, disk, flagVars, jobVars, passVars, modeVars, asks, crashed>>

(* The player picks a server.                                               *)
Ask(s) ==
  /\ asks < MaxAsks /\ asks' = asks + 1
  /\ Connect(s)
  /\ UNCHANGED <<joined, modVars, caches, tasks, main, modeVars>>

(* set_new_map: the server changes to its usermap.  Its paths have a        *)
(* backslash and those of check_download_map a slash, so that neither finds *)
(* the hashes the other has put into hash_cache.  The first file is the     *)
(* required one.                                                            *)
MapHash(f) == IF mapCache[f] # Missing THEN mapCache[f] ELSE disk[f]

Differs(s, i) ==
  LET f == MapFiles[s][i]
  IN IF Want[s][f] = Missing THEN i = 1 ELSE MapHash(f) # Want[s][f]

(* The loop ends at the first file that differs.                            *)
MapSeen(s) == {MapFiles[s][i] : i \in {j \in DOMAIN MapFiles[s] :
                                        \A k \in 1..(j - 1) : ~Differs(s, k)}}

(* With another version of a file: disconnect, and connect to the host once *)
(* more; else the map is loaded.                                            *)
NewMap ==
  /\ joined # NoServer /\ asks < MaxAsks /\ asks' = asks + 1
  /\ mapCache' = [f \in Files |-> IF f \in MapSeen(joined) THEN MapHash(f) ELSE mapCache[f]]
  /\ \/ /\ \E i \in DOMAIN MapFiles[joined] : Differs(joined, i)
        /\ joined' = NoServer
        /\ tasks' = Append(tasks, TaskOf("reconnect", joined))
     \/ /\ \A i \in DOMAIN MapFiles[joined] : ~Differs(joined, i)
        /\ UNCHANGED <<joined, tasks>>
  /\ UNCHANGED <<host, net, modVars, cache, main, modeVars>>

(* The menu calls stop_download().                                          *)
UserStop ==
  /\ job # NoJob \/ queue # << >>
  /\ main' = [Idle EXCEPT !.pc = "stop"]
  /\ UNCHANGED <<partyVars, modVars, caches, tasks, modeVars, asks>>

(* Live_SyncOnlineDataFlags becomes 0.                                      *)
GoOnline ==
  /\ ~online /\ online' = TRUE
  /\ UNCHANGED <<partyVars, modVars, caches, tasks, main, inMode, asks>>

(* The player leaves the mode, for good.                                    *)
LeaveMode ==
  /\ inMode /\ inMode' = FALSE
  /\ UNCHANGED <<partyVars, modVars, caches, tasks, main, online, asks>>

Outside ==
  /\ Free
  /\ (\E s \in Servers : Ask(s)) \/ NewMap \/ UserStop \/ GoOnline \/ LeaveMode
  /\ UNCHANGED <<disk, flagVars, jobVars, passVars, duplicates, crashed>>

(* The command buffer runs once a frame: answers of the same frame may come *)
(* before it, tasks (which it does not affect) are put after it.            *)
VidRestart ==
  /\ Free /\ restart
  /\ loaded' = fsGame /\ restart' = FALSE
  /\ UNCHANGED <<partyVars, fsGame, needsRestart, fileVars, flagVars, jobVars, tasks, passVars,
                 main, modeVars, boundVars, crashed>>

-----------------------------------------------------------------------------
(* stop_download(), called before a new download and by the menu.  The      *)
(* flags are read and set under the mutex one access at a time.             *)
AfterStop == IF main.target = NoServer THEN Idle ELSE [main EXCEPT !.pc = "start"]

StopRead ==
  /\ Busy("stop")
  /\ main' = IF active THEN [main EXCEPT !.pc = "abort"] ELSE AfterStop
  /\ UNCHANGED <<flagVars, queue, tasks, crashed>>

StopAbort ==
  /\ Busy("abort")
  /\ abort' = TRUE
  /\ main' = AfterStop
  /\ UNCHANGED <<active, queue, tasks, crashed>>

(* start_download(): poll while another download is active, else clear the  *)
(* flags and queue the download.                                            *)
StartRead ==
  /\ Busy("start")
  /\ IF active
     THEN /\ tasks' = Append(tasks, [TaskOf("poll", main.target) EXCEPT !.files = main.files])
          /\ main' = Idle
     ELSE main' = [main EXCEPT !.pc = "reset"] /\ UNCHANGED tasks
  /\ UNCHANGED <<flagVars, queue, crashed>>

(* Without sv_wwwBaseUrl it throws: download_files shows that as a menu     *)
(* error, from the polling task it escapes.                                 *)
StartReset ==
  /\ Busy("reset")
  /\ active' = FALSE /\ abort' = FALSE
  /\ main' = Idle
  /\ IF HasUrl[main.target]
     THEN /\ queue' = Append(queue, [target |-> main.target, files |-> main.files])
          /\ UNCHANGED crashed
     ELSE crashed' = (main.from = "poll") /\ UNCHANGED queue
  /\ UNCHANGED tasks

DownloadCalls ==
  /\ StopRead \/ StopAbort \/ StartRead \/ StartReset
  /\ UNCHANGED <<partyVars, modVars, fileVars, job, step, passVars, modeVars, boundVars>>

(* A pass of the main pipeline comes by its tasks in order.  One may stay,  *)
(* in its place: a poll of an active download, and a join whose second is   *)
(* not over.                                                                *)
Polls(t) == t.kind = "poll" /\ active
MayStay(t) == Polls(t) \/ t.kind = "join"

(* A call of the task.  A reconnect goes to the host of that moment.        *)
Resume(t) ==
  \/ t.kind = "connect" /\ Connect(t.target) /\ UNCHANGED <<joined, tasks, main>>
  \/ t.kind = "reconnect" /\ Connect(host) /\ UNCHANGED <<joined, tasks, main>>
  \/ t.kind = "join" /\ ConnectToParty(t.target) /\ UNCHANGED <<host, net, main>>
  \/ /\ t.kind = "poll"
     /\ main' = [pc |-> "start", target |-> t.target, files |-> t.files, from |-> "poll"]
     /\ UNCHANGED <<partyVars, tasks>>

(* A call that would change nothing: passes of these alone are left out.    *)
Waits(t) == Polls(t) \/ (t.kind = "join" /\ inMode /\ ~online)

(* merge_callbacks: the tasks scheduled since the last pass come behind     *)
(* those it kept.  No answer comes between two tasks of a pass.             *)
BeginPass ==
  /\ Free /\ ~restart
  /\ \E t \in ToSet(kept \o tasks) : ~Waits(t)
  /\ pass' = kept \o tasks /\ kept' = << >> /\ tasks' = << >>
  /\ UNCHANGED <<partyVars, main>>

KeepTask ==
  /\ Busy("idle") /\ pass # << >> /\ MayStay(Head(pass))
  /\ pass' = Tail(pass) /\ kept' = Append(kept, Head(pass))
  /\ UNCHANGED <<partyVars, tasks, main>>

RunTask ==
  /\ Busy("idle") /\ pass # << >> /\ ~Polls(Head(pass))
  /\ pass' = Tail(pass) /\ UNCHANGED kept
  /\ Resume(Head(pass))

MainPipeline ==
  /\ BeginPass \/ KeepTask \/ RunTask
  /\ UNCHANGED <<modVars, fileVars, flagVars, jobVars, modeVars, boundVars, crashed>>

-----------------------------------------------------------------------------
(* The download task, on the async thread.                                  *)
At(s) == ~crashed /\ step = s

JobBegin ==
  /\ At("none") /\ queue # << >>
  /\ job' = Head(queue) /\ queue' = Tail(queue)
  /\ active' = TRUE
  /\ step' = "check"
  /\ UNCHANGED <<disk, tasks, crashed>>

(* download_aborted(), before the first file.                               *)
JobCheck ==
  /\ At("check")
  /\ step' = IF abort THEN "aborted" ELSE "get"
  /\ UNCHANGED <<queue, job, active, disk, tasks, crashed>>

(* The request ends.  After an abort nothing is written; otherwise the file *)
(* with the hash the server named is (write_file's result is not read), or  *)
(* menu_error throws, for no handler to catch.                              *)
NextFile ==
  /\ job' = [job EXCEPT !.files = Tail(@)]
  /\ step' = IF Len(job.files) = 1 THEN "done" ELSE "get"

JobAborts ==
  /\ At("get") /\ abort
  /\ step' = "aborted"
  /\ UNCHANGED <<queue, job, active, disk, tasks, crashed>>

JobWrites ==
  /\ At("get") /\ ~abort
  /\ disk' = [disk EXCEPT ![Head(job.files)] = Want[job.target][Head(job.files)]]
  /\ NextFile
  /\ UNCHANGED <<queue, active, tasks, crashed>>

JobWriteFails ==
  /\ At("get") /\ ~abort
  /\ NextFile
  /\ UNCHANGED <<queue, active, disk, tasks, crashed>>

JobFails ==
  /\ At("get") /\ ~abort
  /\ crashed' = TRUE
  /\ UNCHANGED <<jobVars, active, disk, tasks>>

(* The job leaves the block, and with it the async pipeline if it was       *)
(* aborted.                                                                 *)
LeaveBlock ==
  /\ step' = IF step = "done" THEN "connect" ELSE "none"
  /\ job' = IF step = "done" THEN job ELSE NoJob

(* Slip: only a finished download clears the flag.                          *)
StayActive ==
  /\ At("aborted") \/ At("done")
  /\ active' = (active /\ step = "aborted")
  /\ LeaveBlock
  /\ UNCHANGED <<queue, disk, tasks, crashed>>

(* Slip: the async thread holds on to an aborted download.                  *)
KeepJob ==
  /\ At("aborted") \/ At("done")
  /\ active' = FALSE
  /\ step' = IF step = "done" THEN "connect" ELSE "none"
  /\ job' = job
  /\ UNCHANGED <<queue, disk, tasks, crashed>>

(* The flag is cleared as the block is left; a finished download then       *)
(* schedules connect() to its target.                                       *)
JobEnd ==
  /\ At("aborted") \/ At("done")
  /\ active' = FALSE
  /\ LeaveBlock
  /\ UNCHANGED <<queue, disk, tasks, crashed>>

JobConnect ==
  /\ At("connect")
  /\ tasks' = Append(tasks, TaskOf("connect", job.target))
  /\ job' = NoJob /\ step' = "none"
  /\ UNCHANGED <<queue, active, disk, crashed>>

-----------------------------------------------------------------------------
MainThread == InfoResponse \/ VidRestart \/ DownloadCalls \/ MainPipeline

AsyncThread ==
  /\ \/ JobBegin \/ JobCheck \/ JobAborts \/ JobWrites \/ JobWriteFails \/ JobFails
     \/ JobEnd \/ JobConnect
  /\ UNCHANGED <<partyVars, modVars, caches, abort, passVars, main, modeVars, boundVars>>

ConnectNext == Outside \/ MainThread \/ AsyncThread

ConnectSpec == ConnectInit /\ [][ConnectNext]_connectVars

(* A join is called: its second is over at last.                            *)
JoinCalled == pass # << >> /\ Head(pass).kind = "join" /\ RunTask /\ MainPipeline

(* Frames keep coming, the async thread runs and every request ends; no     *)
(* answer needs to arrive, but one that is not lost arrives.                *)
FairConnectSpec ==
  /\ ConnectSpec
  /\ WF_connectVars(MainThread)
  /\ WF_connectVars(AsyncThread)
  /\ SF_connectVars(JoinCalled)

-----------------------------------------------------------------------------
Targets == Servers \cup {NoServer}
HashOrNone == Hashes \cup {Missing}

PartyType ==
  /\ host \in Targets /\ joined \in Targets
  /\ net \subseteq [from : Servers, current : BOOLEAN, map : MapKinds]

SwitchType ==
  /\ fsGame \in Mods /\ loaded \in Mods
  /\ needsRestart \in BOOLEAN /\ restart \in BOOLEAN

FileType ==
  /\ disk \in [Files -> HashOrNone]
  /\ cache \in [Files -> HashOrNone] /\ mapCache \in [Files -> HashOrNone]

AsyncType ==
  /\ queue \in Seq(Job)
  /\ job \in Job \cup {NoJob} /\ (job = NoJob <=> step = "none")
  /\ step \in {"none", "check", "get", "aborted", "done", "connect"}

TaskType == tasks \in Seq(Task) /\ pass \in Seq(Task) /\ kept \in Seq(Task)

MainType ==
  main \in [pc : {"idle", "stop", "abort", "start", "reset"}, target : Targets,
            files : Seq(Files), from : {"none", "info", "poll"}]

FlagType ==
  /\ active \in BOOLEAN /\ abort \in BOOLEAN
  /\ online \in BOOLEAN /\ inMode \in BOOLEAN /\ crashed \in BOOLEAN
  /\ asks \in 0..MaxAsks /\ duplicates \in 0..MaxDuplicates

ConnectTypeOK ==
  PartyType /\ SwitchType /\ FileType /\ AsyncType /\ TaskType /\ MainType /\ FlagType

(* The ways onto a server that are under way.  Only a connect of the player *)
(* or a change of map opens another, or an answer that comes twice: no old  *)
(* answer, stopped download or finished restart does.                       *)
Awaited == {m \in net : m.current}
Aims(r) == Cardinality({s \in Servers : r.target = s})
Attempts ==
  Cardinality(Awaited) + Len(tasks) + Len(pass) + Len(kept) + Len(queue)
    + Aims(job) + Aims(main)

NoAttemptResurrected ==
  [][Attempts' > Attempts => asks' > asks \/ duplicates' > duplicates]_connectVars

(* An answer that lets the client join leaves it with the mod of the server *)
(* in fs_game, and that mod loaded or a vid_restart in the command buffer   *)
(* that loads it, however many downloads lay between the two.               *)
JoinsDirectly == joined' \notin {joined, NoServer} /\ pass' = pass

ModSwitchedBeforeJoin ==
  [][JoinsDirectly => /\ fsGame' = ModOf[joined']
                      /\ loaded' = fsGame' \/ restart']_connectVars

(* Of the inductive invariant: a download, wherever it has got to, has a    *)
(* server and files left to get,                                            *)
Worthwhile(r) == r.files # << >>

AsyncWork ==
  /\ \A i \in DOMAIN queue : Worthwhile(queue[i])
  /\ step \in {"check", "get"} => Worthwhile(job)

TaskWork ==
  /\ \A i \in DOMAIN tasks : tasks[i].kind = "poll" => Worthwhile(tasks[i])
  /\ \A i \in DOMAIN pass : pass[i].kind = "poll" => Worthwhile(pass[i])
  /\ \A i \in DOMAIN kept : kept[i].kind = "poll" => Worthwhile(kept[i])

MainWork ==
  /\ main.pc = "idle" => main = Idle
  /\ main.pc \in {"start", "reset"} => main.target # NoServer
  /\ main.target # NoServer => Worthwhile(main)

(* nothing is under way before the first connect(), so that a reconnect has *)
(* a host,                                                                  *)
HostInv ==
  \/ host # NoServer
  \/ /\ net = {} /\ joined = NoServer /\ tasks = << >> /\ pass = << >> /\ kept = << >>
     /\ queue = << >> /\ job = NoJob /\ main = Idle

(* and the mod in fs_game is loaded unless a restart is due.                *)
RestartInv == needsRestart \/ restart \/ loaded = fsGame

ConnectIInv ==
  /\ ConnectTypeOK /\ IsFiniteSet(net)
  /\ AsyncWork /\ TaskWork /\ MainWork /\ HostInv /\ RestartInv

(* "unload mod before downloading it" (party.cpp:260): no download changes  *)
(* a file of the mod that is loaded.                                        *)
UnloadBeforeDownload ==
  [][loaded # NoMod => \A i \in DOMAIN ModFiles[loaded] :
                         disk'[ModFiles[loaded][i]] = disk[ModFiles[loaded][i]]]_connectVars

(* Connecting ends: in the game, in a menu error or waiting for the online  *)
(* data, unless a write fails again and again or hash_cache holds a hash    *)
(* its file no longer has, which has the file downloaded for ever.          *)
Concluded ==
  \/ crashed
  \/ /\ net = {} /\ queue = << >> /\ job = NoJob /\ main = Idle
     /\ \A t \in ToSet(kept \o pass \o tasks) : t.kind = "join" /\ ~online

Stale == \E f \in Files : cache[f] # Missing /\ cache[f] # disk[f]

ConnectSettles == <>Stale \/ []<><<JobWriteFails>>_connectVars \/ <>[]Concluded
=============================================================================
