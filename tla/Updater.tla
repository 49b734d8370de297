------------------------------ MODULE Updater ------------------------------
(***************************************************************************)
(* The self-updater of src/src/client/component/updater.cpp: one client    *)
(* process that fetches the list of files of the current release, deletes  *)
(* files the release no longer has, downloads the stale ones on a few      *)
(* threads that share a counter, a failure flag and a result list, and     *)
(* then installs what was downloaded.  The process may be killed at any    *)
(* step, the release may change between two requests, a request may fail   *)
(* and a write may fail, stop short or be cut off.                         *)
(***************************************************************************)
EXTENDS Naturals, Sequences, FiniteSets

CONSTANTS
  Files,        \* files of the install directory the updater may touch
  Binary,       \* the running program's own file
  Ignored,      \* files is_ignore_file leaves to the user
  Contents,     \* complete file contents (a hash identifies its content)
  Absent,       \* no such file
  Torn,         \* a file opened for writing that never got its whole content
  Release,      \* Release[v][f]: what the v-th published release says of f
  MaxThreads,   \* max_download_threads
  MaxAttempts,  \* max_download_attempts
  Wine          \* TRUE when the update runs in a child process

Threads == 1..MaxThreads
Versions == 1..Len(Release)
DiskStates == Contents \cup {Absent, Torn}

ASSUME UpdaterAssumption ==
  /\ IsFiniteSet(Files)
  /\ Binary \in Files
  /\ Ignored \subseteq Files
  /\ Absent \notin Contents /\ Torn \notin Contents /\ Absent # Torn
  /\ Release \in Seq([Files -> Contents \cup {Absent}]) /\ Release # << >>
  /\ MaxThreads \in Nat \ {0}
  /\ MaxAttempts \in Nat \ {0}
  /\ Wine \in BOOLEAN

VARIABLES
  published,       \* release the server offers now
  disk,            \* content of every file of the install
  backup,          \* content of <binary>.old
  phase,           \* where the process is in post_start / run_update
  image,           \* content of the binary the process was started from
  manifest,        \* release the file list was taken from, 0 for none
  todo,            \* files_to_download, in list order
  spawned,         \* download threads started so far
  tpc, claim, attempt, body,  \* per thread: step, file_index, attempt, data
  nextFile,        \* atomic next_file, 1-based
  failed,          \* atomic download_failed
  results,         \* result_data, in order of completion
  written,         \* results installed so far
  binaryModified,  \* is_binary_modified
  restart          \* value run_update returned

installVars == <<published, disk, backup>>
threadVars  == <<tpc, claim, attempt, body>>
shareVars   == <<nextFile, failed, results>>
runVars     == <<image, manifest, todo, written, binaryModified, restart>>
vars == <<installVars, phase, spawned, threadVars, shareVars, runVars>>

-----------------------------------------------------------------------------
(* The file list: what the release names, less what is_ignore_file drops.   *)
Listed(v) == {f \in Files \ Ignored : Release[v][f] # Absent}

(* check_file: a file is stale unless its hash is the one in the list (and  *)
(* not, the slip, only when it is missing).                                 *)
StaleByExistence(v) == {f \in Listed(v) : disk[f] = Absent}
Stale(v) == {f \in Listed(v) : disk[f] # Release[v][f]}

(* Regular files of the data folder (never the binary) not in the list.     *)
Garbage(v) == {f \in Files \ (Listed(v) \cup Ignored \cup {Binary}) : disk[f] # Absent}

(* The order of files_to_download: the list's, which is arbitrary.          *)
Orderings(S) ==
  {q \in [1..Cardinality(S) -> S] :
     /\ \A i, j \in DOMAIN q : q[i] = q[j] => i = j
     /\ \A f \in S : \E i \in DOMAIN q : q[i] = f}

ThreadCount == IF Len(todo) < MaxThreads THEN Len(todo) ELSE MaxThreads
Joined == \A t \in Threads : t <= spawned => tpc[t] = "exit"

Result == [file : Files, data : Contents]
Updating == {"list", "clean", "spawn", "join", "write", "moved", "open"}

(* The process's own variables, as a new process finds them.                *)
ForgetRun ==
  /\ manifest' = 0
  /\ todo' = << >>
  /\ spawned' = 0
  /\ tpc' = [t \in Threads |-> "loop"]
  /\ claim' = [t \in Threads |-> 0]
  /\ attempt' = [t \in Threads |-> 0]
  /\ body' = [t \in Threads |-> Absent]
  /\ nextFile' = 1
  /\ failed' = FALSE
  /\ results' = << >>
  /\ written' = 0
  /\ binaryModified' = FALSE

Init ==
  /\ published = 1
  /\ disk \in [Files -> Contents \cup {Absent}]
  /\ disk[Binary] \in Contents
  /\ backup = Absent
  /\ phase = "off"
  /\ image = disk[Binary]
  /\ manifest = 0
  /\ todo = << >>
  /\ spawned = 0
  /\ tpc = [t \in Threads |-> "loop"]
  /\ claim = [t \in Threads |-> 0]
  /\ attempt = [t \in Threads |-> 0]
  /\ body = [t \in Threads |-> Absent]
  /\ nextFile = 1
  /\ failed = FALSE
  /\ results = << >>
  /\ written = 0
  /\ binaryModified = FALSE
  /\ restart = FALSE

-----------------------------------------------------------------------------
(* The update server publishes the next release.                            *)
Publish ==
  /\ published + 1 \in Versions
  /\ published' = published + 1
  /\ UNCHANGED <<disk, backup, phase, spawned, threadVars, shareVars, runVars>>

(* A process starts from the installed binary; post_start first calls       *)
(* delete_old_file, which fails while another process still runs from it.   *)
(* With -noupdate nothing else happens.                                     *)
Launch ==
  /\ phase = "off"
  /\ disk[Binary] \in Contents
  /\ image' = disk[Binary]
  /\ backup' \in {backup, Absent}
  /\ phase' \in {"list", "game"}
  /\ restart' = FALSE
  /\ ForgetRun
  /\ UNCHANGED <<published, disk>>

(* get_file_list failed or is empty: "Update aborted", return false.        *)
NoFileList ==
  /\ phase = "list"
  /\ phase' = "return"
  /\ UNCHANGED <<installVars, spawned, threadVars, shareVars, runVars>>

GetFileList ==
  /\ phase = "list"
  /\ Listed(published) # {}
  /\ manifest' = published
  /\ phase' = "clean"
  /\ UNCHANGED <<installVars, spawned, threadVars, shareVars,
                 image, todo, written, binaryModified, restart>>

(* delete_garbage_files; a removal may fail, and its result is not read.    *)
DeleteGarbage ==
  /\ phase = "clean"
  /\ \E gone \in SUBSET Garbage(manifest) :
       disk' = [f \in Files |-> IF f \in gone THEN Absent ELSE disk[f]]
  /\ phase' = "check"
  /\ UNCHANGED <<published, backup, spawned, threadVars, shareVars, runVars>>

(* Hash every listed file; with nothing stale the update is complete.       *)
CheckFiles ==
  /\ phase = "check"
  /\ todo' \in Orderings(Stale(manifest))
  /\ phase' = IF Stale(manifest) = {} THEN "return" ELSE "spawn"
  /\ UNCHANGED <<installVars, spawned, threadVars, shareVars,
                 image, manifest, written, binaryModified, restart>>

(* The main thread starts the download threads one by one; the ones already *)
(* started run meanwhile.                                                   *)
SpawnThread ==
  /\ phase = "spawn"
  /\ spawned' = spawned + 1
  /\ phase' = IF spawned' = ThreadCount THEN "join" ELSE "spawn"
  /\ UNCHANGED <<installVars, threadVars, shareVars, runVars>>

-----------------------------------------------------------------------------
(* A download thread.  Its steps interleave with the main thread's and with *)
(* the other threads' at every access to shared data.                       *)
ThreadAt(t, step) == t <= spawned /\ tpc[t] = step

(* while (!download_failed)                                                 *)
ThreadLoop(t) ==
  /\ ThreadAt(t, "loop")
  /\ tpc' = [tpc EXCEPT ![t] = IF failed THEN "exit" ELSE "claim"]
  /\ UNCHANGED <<installVars, phase, spawned, claim, attempt, body, shareVars, runVars>>

(* const auto file_index = next_file++; return past the last file.          *)
ThreadClaim(t) ==
  /\ ThreadAt(t, "claim")
  /\ nextFile' = nextFile + 1
  /\ IF nextFile <= Len(todo)
     THEN /\ claim' = [claim EXCEPT ![t] = nextFile]
          /\ attempt' = [attempt EXCEPT ![t] = 1]
          /\ tpc' = [tpc EXCEPT ![t] = "fetch"]
     ELSE tpc' = [tpc EXCEPT ![t] = "exit"] /\ UNCHANGED <<claim, attempt>>
  /\ UNCHANGED <<installVars, phase, spawned, body, failed, results, runVars>>

(* Slip: the data's hash is not compared with the list's.                   *)
FetchUnverified(t) ==
  LET f == todo[claim[t]] IN
  /\ ThreadAt(t, "fetch")
  /\ Release[published][f] # Absent
  /\ body' = [body EXCEPT ![t] = Release[published][f]]
  /\ tpc' = [tpc EXCEPT ![t] = "store"]
  /\ UNCHANGED <<installVars, phase, spawned, claim, attempt, shareVars, runVars>>

(* One attempt succeeds: the server's present content of the file has the   *)
(* hash the list gave.                                                      *)
FetchGood(t) ==
  LET f == todo[claim[t]] IN
  /\ ThreadAt(t, "fetch")
  /\ Release[published][f] = Release[manifest][f]
  /\ body' = [body EXCEPT ![t] = Release[published][f]]
  /\ tpc' = [tpc EXCEPT ![t] = "store"]
  /\ UNCHANGED <<installVars, phase, spawned, claim, attempt, shareVars, runVars>>

(* Slips: one attempt too many, and attempts without end.                   *)
FetchOnceMore(t) ==
  /\ ThreadAt(t, "fetch")
  /\ attempt' = [attempt EXCEPT ![t] = @ + 1]
  /\ tpc' = [tpc EXCEPT ![t] = IF attempt[t] <= MaxAttempts THEN "fetch" ELSE "fail"]
  /\ UNCHANGED <<installVars, phase, spawned, claim, body, shareVars, runVars>>

FetchForever(t) ==
  /\ ThreadAt(t, "fetch")
  /\ UNCHANGED vars

(* One attempt fails (no response, bad status, or another hash): wait and   *)
(* retry, or give up after the last one.                                    *)
FetchBad(t) ==
  /\ ThreadAt(t, "fetch")
  /\ attempt' = [attempt EXCEPT ![t] = IF @ < MaxAttempts THEN @ + 1 ELSE @]
  /\ tpc' = [tpc EXCEPT ![t] = IF attempt[t] < MaxAttempts THEN "fetch" ELSE "fail"]
  /\ UNCHANGED <<installVars, phase, spawned, claim, body, shareVars, runVars>>

(* The locals of one turn of the loop go out of scope.                      *)
EndTurn(t) ==
  /\ claim' = [claim EXCEPT ![t] = 0]
  /\ attempt' = [attempt EXCEPT ![t] = 0]
  /\ body' = [body EXCEPT ![t] = Absent]

(* download_failed = true; return                                           *)
ThreadFail(t) ==
  /\ ThreadAt(t, "fail")
  /\ failed' = TRUE
  /\ tpc' = [tpc EXCEPT ![t] = "exit"]
  /\ EndTurn(t)
  /\ UNCHANGED <<installVars, phase, spawned, nextFile, results, runVars>>

(* result_data.access(... emplace_back ...), under its mutex.               *)
ThreadStore(t) ==
  /\ ThreadAt(t, "store")
  /\ results' = Append(results, [file |-> todo[claim[t]], data |-> body[t]])
  /\ tpc' = [tpc EXCEPT ![t] = "loop"]
  /\ EndTurn(t)
  /\ UNCHANGED <<installVars, phase, spawned, nextFile, failed, runVars>>

-----------------------------------------------------------------------------
(* Slip: what was downloaded is installed although a file is missing.       *)
JoinIgnoringFailure ==
  /\ phase = "join"
  /\ Joined
  /\ phase' = "write"
  /\ UNCHANGED <<installVars, spawned, threadVars, shareVars, runVars>>

(* All threads joined: abort when one failed, else start installing.        *)
JoinThreads ==
  /\ phase = "join"
  /\ Joined
  /\ phase' = IF failed THEN "return" ELSE "write"
  /\ UNCHANGED <<installVars, spawned, threadVars, shareVars, runVars>>

Current == results[written + 1]

(* Slip: the old binary is deleted to make room.                            *)
DeleteBinary ==
  /\ phase = "write" /\ written < Len(results)
  /\ Current.file = Binary /\ disk[Binary] # Absent
  /\ disk' = [disk EXCEPT ![Binary] = Absent]
  /\ phase' = "moved"
  /\ UNCHANGED <<published, backup, spawned, threadVars, shareVars, runVars>>

(* write_binary first moves the existing binary to <name>.old; MoveFile     *)
(* fails when that name is taken.                                           *)
MoveBinary ==
  /\ phase = "write" /\ written < Len(results)
  /\ Current.file = Binary /\ disk[Binary] # Absent
  /\ backup = Absent
  /\ backup' = disk[Binary]
  /\ disk' = [disk EXCEPT ![Binary] = Absent]
  /\ phase' = "moved"
  /\ UNCHANGED <<published, spawned, threadVars, shareVars, runVars>>

(* io::write_file opens (and so truncates) the file.  A binary is opened    *)
(* only when nothing has its name any more.                                 *)
OpenFile ==
  /\ phase \in {"write", "moved"} /\ written < Len(results)
  /\ Current.file = Binary => disk[Binary] = Absent
  /\ disk' = [disk EXCEPT ![Current.file] = Torn]
  /\ phase' = "open"
  /\ UNCHANGED <<published, backup, spawned, threadVars, shareVars, runVars>>

(* The data is written.  The stream's state is not read afterwards, so a    *)
(* short write counts as a success.                                         *)
FinishFile ==
  /\ phase = "open"
  /\ \E content \in {Current.data, Torn} : disk' = [disk EXCEPT ![Current.file] = content]
  /\ binaryModified' = (binaryModified \/ Current.file = Binary)
  /\ written' = written + 1
  /\ phase' = "write"
  /\ UNCHANGED <<published, backup, spawned, threadVars, shareVars,
                 image, manifest, todo, restart>>

(* write_file returned false (the move or the open failed): download_failed *)
(* = true and run_update returns false.                                     *)
WriteFails ==
  /\ phase \in {"write", "moved"} /\ written < Len(results)
  /\ failed' = TRUE
  /\ restart' = FALSE
  /\ phase' = "return"
  /\ UNCHANGED <<installVars, spawned, threadVars, nextFile, results,
                 image, manifest, todo, written, binaryModified>>

(* Everything is written: return is_binary_modified.                        *)
UpdateComplete ==
  /\ phase = "write" /\ written = Len(results)
  /\ restart' = binaryModified
  /\ phase' = "return"
  /\ UNCHANGED <<installVars, spawned, threadVars, shareVars,
                 image, manifest, todo, written, binaryModified>>

-----------------------------------------------------------------------------
(* run_update returned false: the component is started and the game runs.   *)
Play ==
  /\ phase = "return" /\ ~restart
  /\ phase' = "game"
  /\ UNCHANGED <<installVars, spawned, threadVars, shareVars, runVars>>

(* It returned true: terminate, after relaunch_self unless -update-only.    *)
RestartSelf ==
  /\ phase = "return" /\ restart
  /\ phase' = "off"
  /\ ForgetRun
  /\ UNCHANGED <<installVars, image, restart>>

(* The player quits, or the process is killed at any other point.           *)
Stop ==
  /\ phase # "off"
  /\ phase' = "off"
  /\ ForgetRun
  /\ UNCHANGED <<installVars, image, restart>>

(* Under Wine the update runs in a child process: when it dies its exit     *)
(* code is not update_process_binary_modified and the parent goes on.       *)
ChildDies ==
  /\ Wine /\ phase \in Updating \cup {"check"}
  /\ phase' = "game"
  /\ ForgetRun
  /\ UNCHANGED <<installVars, image, restart>>

(* The player puts the saved binary back.                                   *)
RestoreBackup ==
  /\ phase = "off"
  /\ disk[Binary] \notin Contents /\ backup \in Contents
  /\ disk' = [disk EXCEPT ![Binary] = backup]
  /\ backup' = Absent
  /\ UNCHANGED <<published, phase, spawned, threadVars, shareVars, runVars>>

MainThread ==
  \/ NoFileList \/ GetFileList \/ DeleteGarbage \/ CheckFiles \/ SpawnThread
  \/ JoinThreads \/ MoveBinary \/ OpenFile \/ FinishFile \/ WriteFails \/ UpdateComplete
  \/ Play \/ RestartSelf

DownloadThread(t) ==
  \/ ThreadLoop(t) \/ ThreadClaim(t) \/ FetchGood(t) \/ FetchBad(t)
  \/ ThreadFail(t) \/ ThreadStore(t)

Next ==
  \/ Publish \/ Launch \/ Stop \/ ChildDies \/ RestoreBackup
  \/ MainThread
  \/ \E t \in Threads : DownloadThread(t)

Spec == Init /\ [][Next]_vars

(* The main thread and every download thread keep running: each is an       *)
(* operating system thread, and every request and file operation returns.   *)
FairSpec ==
  /\ Spec
  /\ WF_vars(MainThread)
  /\ \A t \in Threads : WF_vars(DownloadThread(t))

-----------------------------------------------------------------------------
Installing == phase \in {"write", "moved", "open"}

(* Types of all variables. *)
TypeOK ==
  /\ published \in Versions
  /\ disk \in [Files -> DiskStates]
  /\ backup \in DiskStates
  /\ phase \in Updating \cup {"off", "check", "return", "game"}
  /\ image \in Contents
  /\ manifest \in Versions \cup {0}
  /\ todo \in Seq(Files)
  /\ spawned \in 0..MaxThreads
  /\ tpc \in [Threads -> {"loop", "claim", "fetch", "store", "fail", "exit"}]
  /\ claim \in [Threads -> Nat]
  /\ attempt \in [Threads -> 0..MaxAttempts]
  /\ body \in [Threads -> Contents \cup {Absent}]
  /\ nextFile \in Nat
  /\ failed \in BOOLEAN
  /\ results \in Seq(Result)
  /\ written \in Nat
  /\ binaryModified \in BOOLEAN
  /\ restart \in BOOLEAN

(* Nothing of the install is written before every stale file has been       *)
(* downloaded, each exactly once and with the content the file list names:  *)
(* the worker threads of run_update share next_file, download_failed and    *)
(* result_data, and one failure aborts the update with the old files whole. *)
CompleteBeforeInstall ==
  Installing =>
    /\ \A j, k \in DOMAIN results : results[j].file = results[k].file => j = k
    /\ \A f \in Stale(manifest) \cup {todo[i] : i \in DOMAIN todo} :
         \E k \in DOMAIN results :
            results[k] = [file |-> f, data |-> Release[manifest][f]]

(* However the process dies, and whichever write fails or stops short, a    *)
(* complete binary is on disk: under its own name or under <name>.old.      *)
(* write_binary moves before it writes, delete_old_file runs in a process   *)
(* that was started from the new file.                                      *)
BinaryRecoverable == disk[Binary] \in Contents \/ backup \in Contents

(* An update that ends without a failure has installed the release it       *)
(* listed: no listed file is left with other complete content.              *)
CompleteUpdateInstalls ==
  phase = "return" /\ manifest # 0 /\ ~failed =>
    \A f \in Listed(manifest) : disk[f] \in {Release[manifest][f], Torn}

(* A file's content only ever changes to what the current list names, to a  *)
(* cut-off write, or to nothing when the release has dropped the file; the  *)
(* files is_ignore_file names are never touched.                            *)
OnlyReleaseContent ==
  [][\A f \in Files : disk'[f] # disk[f] =>
        \/ f \notin Ignored /\ manifest # 0 /\ disk'[f] \in {Torn, Release[manifest][f]}
        \/ f = Binary /\ disk'[f] = Absent /\ backup' = disk[f]
        \/ f = Binary /\ disk'[f] = backup]_disk

(* "returns true if the binary was replaced and a restart is required":     *)
(* after a run that returned false the installed binary is still the one    *)
(* the process was started from.                                            *)
RestartWhenBinaryReplaced ==
  phase = "return" /\ ~restart => disk[Binary] \in {image, Torn, Absent}

(* run_update always comes to an end, whatever the threads run into.        *)
UpdateEnds == phase = "list" ~> phase \in {"return", "game", "off"}

-----------------------------------------------------------------------------
(* The inductive invariant behind the safety properties above.              *)
InFlight(t) == tpc[t] \in {"fetch", "store", "fail"}
Indices == 1..Len(todo)

(* Threads exist only between the first spawn and the join.                 *)
PhaseInv ==
  /\ phase \in {"off", "list", "clean", "check"} =>
       /\ spawned = 0 /\ nextFile = 1 /\ todo = << >> /\ results = << >> /\ written = 0
       /\ \A t \in Threads : tpc[t] = "loop"
  /\ phase = "list" => manifest = 0
  /\ phase \in {"clean", "check", "spawn", "join"} \/ Installing => manifest \in Versions
  /\ phase = "spawn" => spawned < ThreadCount
  /\ phase = "join" \/ Installing => 0 < spawned
  /\ phase \in {"spawn", "join"} => written = 0
  /\ phase \in {"moved", "open"} => written < Len(results)
  /\ \A t \in Threads : spawned < t => tpc[t] = "loop"
  /\ phase \notin {"spawn", "join"} => Joined
  /\ Installing => ~failed

(* Every index below next_file is claimed once: a thread works on it, its   *)
(* result is stored, or the update has failed.                              *)
ClaimInv ==
  /\ \A i, j \in Indices : todo[i] = todo[j] => i = j
  /\ \A i \in Indices : manifest \in Versions /\ todo[i] \in Listed(manifest)
  /\ 1 <= nextFile
  /\ \A t \in Threads : InFlight(t) => claim[t] \in Indices /\ claim[t] < nextFile
  /\ \A t, u \in Threads : InFlight(t) /\ InFlight(u) /\ claim[t] = claim[u] => t = u
  /\ \A t \in Threads : tpc[t] = "store" => body[t] = Release[manifest][todo[claim[t]]]
  /\ \A t \in Threads : tpc[t] = "exit" => failed \/ Len(todo) < nextFile

ResultInv ==
  /\ \A k \in DOMAIN results : \E i \in Indices :
       i < nextFile /\ results[k] = [file |-> todo[i], data |-> Release[manifest][todo[i]]]
  /\ \A j, k \in DOMAIN results : results[j].file = results[k].file => j = k
  /\ \A k \in DOMAIN results, t \in Threads : InFlight(t) => results[k].file # todo[claim[t]]
  /\ \A i \in Indices : i < nextFile =>
       \/ failed
       \/ \E t \in Threads : InFlight(t) /\ claim[t] = i
       \/ \E k \in DOMAIN results : results[k].file = todo[i]

(* What has been installed so far, and that the list of stale files stays   *)
(* complete while it is being worked off.                                   *)
DiskInv ==
  /\ phase \in {"spawn", "join"} \/ Installing =>
       \A f \in Stale(manifest) : \E i \in Indices : todo[i] = f
  /\ Installing => \A k \in 1..written :
       disk[results[k].file] \in {results[k].data, Torn}
  /\ phase = "open" /\ Current.file = Binary => backup \in Contents

IInv ==
  /\ TypeOK /\ PhaseInv /\ ClaimInv /\ ResultInv /\ DiskInv
  /\ CompleteUpdateInstalls /\ BinaryRecoverable

(* What the current release lists is installed, and nothing else is.  (A    *)
(* release always has the binary.)                                          *)
UpToDate == \A f \in Files \ Ignored : disk[f] = Release[published][f]
=============================================================================
