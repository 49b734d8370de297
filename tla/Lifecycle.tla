----------------------------- MODULE Lifecycle -----------------------------
(***************************************************************************)
(* How the program comes up and goes down: main() and the phases of        *)
(* src/src/client/loader/component_loader.cpp over the components that own *)
(* a thread or are used by one: the scheduler's async thread, with the     *)
(* download and the Discord callbacks it runs, the thread of the demonware *)
(* servers, and the one of the terminal.  Starting may fail half-way, the  *)
(* game may exit at any time once it was entered, and pre_destroy then     *)
(* runs while all threads do.                                              *)
(***************************************************************************)
EXTENDS Naturals, Sequences, FiniteSets

CONSTANTS
  Components,  \* registered components, those with a hook below among them
  MaxFiles     \* files of a download (bound of the model)

Threaded == {"scheduler", "demonware", "terminal"}
Hooked == Threaded \cup {"download", "discord"}

ASSUME LifecycleAssumption ==
  /\ IsFiniteSet(Components) /\ Hooked \subseteq Components
  /\ MaxFiles \in Nat \ {0}

N == Cardinality(Components)

(* Static constructors register the components, in an order the language    *)
(* leaves open; main() then adds the terminal.  sort() keeps that order, as *)
(* those with a hook below have the same priority, the lowest.              *)
Orders ==
  {q \in [1..N -> Components] :
     /\ \A i, j \in 1..N : q[i] = q[j] => i = j
     /\ \A c \in Components : \E i \in 1..N : q[i] = c
     /\ q[N] = "terminal"}

VARIABLES
  order,         \* get_components()
  stage,         \* what the main thread is in
  at,            \* component whose hook is next
  joining,       \* its pre_destroy is at the join
  asyncThread, kill, pass, doing,     \* scheduler: async thread, its flag, tasks
                                      \* left in this pass, task that runs
  dwThread, exitServer,               \* demonware
  console, conKill, killEvent,        \* terminal
  killDownloads, files, late,         \* download; files written since the kill
  discord                             \* the library: "off", "up" or "down"

mainVars == <<order, stage, at, joining>>
asyncVars == <<asyncThread, kill, pass, doing>>
dwVars == <<dwThread, exitServer>>
conVars == <<console, conKill, killEvent>>
jobVars == <<killDownloads, files, late>>
vars == <<mainVars, asyncVars, dwVars, conVars, jobVars, discord>>

Init ==
  /\ order \in Orders /\ stage = "start" /\ at = 1 /\ joining = FALSE
  /\ asyncThread = "none" /\ kill = FALSE /\ pass = {} /\ doing = "none"
  /\ dwThread = "none" /\ exitServer = FALSE
  /\ console = "none" /\ conKill = FALSE /\ killEvent = FALSE
  /\ killDownloads = FALSE /\ files = 0 /\ late = 0
  /\ discord = "off"

Alive == stage \notin {"gone", "dead"}

-----------------------------------------------------------------------------
(* The main thread calls one hook of every component in turn.               *)
Hook(phase) == stage = phase /\ at <= N
HookOf(c, phase) == Hook(phase) /\ order[at] = c
NextHook == at' = at + 1 /\ joining' = FALSE /\ UNCHANGED <<order, stage>>
Enter(phase) == stage' = phase /\ at' = 1 /\ joining' = FALSE /\ UNCHANGED order

PostStart ==
  /\ Hook("start") /\ NextHook
  /\ asyncThread' = IF order[at] = "scheduler" THEN "running" ELSE asyncThread
  /\ UNCHANGED <<kill, pass, doing, dwVars, conVars, jobVars, discord>>

PostLoad ==
  /\ Hook("load") /\ NextHook
  /\ dwThread' = IF order[at] = "demonware" THEN "created" ELSE dwThread
  /\ UNCHANGED <<asyncVars, exitServer, conVars, jobVars, discord>>

PostUnpack ==
  /\ Hook("unpack") /\ NextHook
  /\ console' = IF order[at] = "terminal" THEN "test" ELSE console
  /\ discord' = IF order[at] = "discord" THEN "up" ELSE discord
  /\ UNCHANGED <<asyncVars, dwVars, conKill, killEvent, jobVars>>

(* Between the phases: load the binary, run its entry point (whose first    *)
(* call of SetThreadAffinityMask is post_unpack), and end in exit() or in   *)
(* the end of main(), where pre_destroy has been handled.                   *)
PhaseDone ==
  /\ at = N + 1
  /\ \/ stage = "start" /\ Enter("load")
     \/ stage = "load" /\ Enter("entry")
     \/ stage = "unpack" /\ Enter("game")
     \/ stage = "destroy" /\ Enter("gone")

SetThreadAffinityMask == stage = "entry" /\ Enter("unpack")

(* load_binary or a hook throws: main() returns, and the guard it has put   *)
(* up calls pre_destroy.  A throw out of post_unpack ends in quick_exit.    *)
StartFails ==
  \/ stage \in {"start", "load"} /\ Enter("destroy")
  \/ stage = "unpack" /\ Enter("dead")

(* The game calls ExitProcess: exit_hook.                                   *)
ExitHook == stage \in {"entry", "game"} /\ Enter("destroy")

MainCalls ==
  /\ PhaseDone \/ SetThreadAffinityMask \/ StartFails \/ ExitHook
  /\ UNCHANGED <<asyncVars, dwVars, conVars, jobVars, discord>>

(* The player starts a download: a task of the async pipeline.              *)
StartDownload ==
  /\ stage = "game" /\ files = 0 /\ doing # "download" /\ ~killDownloads
  /\ files' \in 1..MaxFiles
  /\ UNCHANGED <<mainVars, asyncVars, dwVars, conVars, killDownloads, late, discord>>

-----------------------------------------------------------------------------
(* pre_destroy: set the flag, then join the thread if there is one.         *)
Ended(thread) == thread \in {"none", "done"}
ToJoin == joining' = TRUE /\ UNCHANGED <<order, stage, at>>

StopScheduler ==
  /\ HookOf("scheduler", "destroy") /\ ~joining /\ ToJoin
  /\ kill' = TRUE
  /\ UNCHANGED <<asyncThread, pass, doing, dwVars, conVars, jobVars, discord>>

StopDemonware ==
  /\ HookOf("demonware", "destroy") /\ ~joining /\ ToJoin
  /\ exitServer' = TRUE
  /\ UNCHANGED <<asyncVars, dwThread, conVars, jobVars, discord>>

(* Slip: the thread is left waiting for input.                              *)
StopTerminalQuietly ==
  /\ HookOf("terminal", "destroy") /\ ~joining /\ ToJoin
  /\ conKill' = TRUE
  /\ UNCHANGED <<asyncVars, dwVars, console, killEvent, jobVars, discord>>

(* SetEvent on an event post_unpack has not made does nothing.              *)
StopTerminal ==
  /\ HookOf("terminal", "destroy") /\ ~joining /\ ToJoin
  /\ conKill' = TRUE
  /\ killEvent' = (console # "none")
  /\ UNCHANGED <<asyncVars, dwVars, console, jobVars, discord>>

(* Slip: the threads are told to stop and not waited for.                   *)
Detach ==
  /\ joining /\ NextHook
  /\ UNCHANGED <<asyncVars, dwVars, conVars, jobVars, discord>>

Join ==
  /\ joining
  /\ Ended(CASE order[at] = "scheduler" -> asyncThread
             [] order[at] = "demonware" -> dwThread
             [] order[at] = "terminal" -> console)
  /\ NextHook
  /\ UNCHANGED <<asyncVars, dwVars, conVars, jobVars, discord>>

(* Slip: the download is waited for, on whatever thread it runs.            *)
WaitForDownload ==
  /\ HookOf("download", "destroy") /\ ~joining /\ ToJoin
  /\ killDownloads' = TRUE
  /\ UNCHANGED <<asyncVars, dwVars, conVars, files, late, discord>>

KillDownloads ==
  /\ HookOf("download", "destroy") /\ NextHook
  /\ killDownloads' = TRUE
  /\ UNCHANGED <<asyncVars, dwVars, conVars, files, late, discord>>

DiscordShutdown ==
  /\ HookOf("discord", "destroy") /\ NextHook
  /\ discord' = IF discord = "up" THEN "down" ELSE discord
  /\ UNCHANGED <<asyncVars, dwVars, conVars, jobVars>>

OtherPreDestroy ==
  /\ Hook("destroy") /\ order[at] \notin Hooked /\ NextHook
  /\ UNCHANGED <<asyncVars, dwVars, conVars, jobVars, discord>>

PreDestroy ==
  \/ StopScheduler \/ StopDemonware \/ StopTerminal \/ Join
  \/ KillDownloads \/ DiscordShutdown \/ OtherPreDestroy

-----------------------------------------------------------------------------
(* The async thread looks at its flag once per pass and then runs the tasks *)
(* that are due: the loops post_unpack of discord has added, a download.    *)
Due == {t \in {"discord", "download"} :
          (t = "discord" /\ discord # "off") \/ (t = "download" /\ files > 0)}

BeginPass ==
  /\ asyncThread = "running" /\ pass = {} /\ doing = "none" /\ ~kill
  /\ pass' \in SUBSET Due \ {{}}
  /\ UNCHANGED <<asyncThread, doing, jobVars>>

RunTask ==
  /\ doing = "none"
  /\ \E t \in pass : doing' = t /\ pass' = pass \ {t}
  /\ UNCHANGED <<asyncThread, jobVars>>

RunCallbacks ==
  /\ doing = "discord" /\ doing' = "none"
  /\ UNCHANGED <<asyncThread, pass, jobVars>>

(* Slip: the abort of a download looks only at its own flag.                *)
NeverAborted == FALSE

(* download_aborted(), as pre_destroy makes it true.                        *)
Aborted == killDownloads

LeaveDownload == doing' = "none" /\ files' = 0

(* Before the first file, and after every request (which the progress       *)
(* callback cuts off): stop if aborted.  Otherwise write the file and go on *)
(* with the next.                                                           *)
CheckDownload ==
  /\ doing \in {"download", "get"}
  /\ \/ Aborted /\ LeaveDownload
     \/ ~Aborted /\ doing' = (IF doing = "get" THEN "write" ELSE "get") /\ UNCHANGED files
  /\ UNCHANGED <<asyncThread, pass, killDownloads, late>>

WriteFile ==
  /\ doing = "write"
  /\ late' = IF killDownloads THEN late + 1 ELSE late
  /\ IF files = 1 THEN LeaveDownload ELSE doing' = "get" /\ files' = files - 1
  /\ UNCHANGED <<asyncThread, pass, killDownloads>>

AsyncExit ==
  /\ asyncThread = "running" /\ pass = {} /\ doing = "none" /\ kill
  /\ asyncThread' = "done"
  /\ UNCHANGED <<pass, doing, jobVars>>

AsyncThread ==
  /\ Alive
  /\ BeginPass \/ RunTask \/ RunCallbacks \/ CheckDownload \/ WriteFile \/ AsyncExit
  /\ UNCHANGED <<mainVars, kill, dwVars, conVars, discord>>

(* A request that fails throws out of the thread: std::terminate.           *)
DownloadFails ==
  /\ Alive /\ doing = "get" /\ ~Aborted
  /\ Enter("dead")
  /\ UNCHANGED <<asyncVars, dwVars, conVars, jobVars, discord>>

(* server_main: clear the flag, then run frames until it is set.            *)
ServerMain ==
  /\ Alive
  /\ \/ dwThread = "created" /\ dwThread' = "running" /\ exitServer' = FALSE
     \/ dwThread = "running" /\ exitServer /\ dwThread' = "done" /\ UNCHANGED exitServer
  /\ UNCHANGED <<mainVars, asyncVars, conVars, jobVars, discord>>

(* The terminal: test the flag, wait for input or the event, test again.    *)
ConsoleThread ==
  /\ Alive
  /\ \/ console = "test" /\ console' = IF conKill THEN "done" ELSE "wait"
     \/ console = "wait" /\ killEvent /\ console' = IF conKill THEN "done" ELSE "test"
  /\ UNCHANGED <<mainVars, asyncVars, dwVars, conKill, killEvent, jobVars, discord>>

ConsoleInput ==
  /\ Alive /\ console = "wait"
  /\ console' = IF conKill THEN "done" ELSE "test"
  /\ UNCHANGED <<mainVars, asyncVars, dwVars, conKill, killEvent, jobVars, discord>>

-----------------------------------------------------------------------------
Next ==
  \/ PostStart \/ PostLoad \/ PostUnpack \/ MainCalls \/ StartDownload \/ PreDestroy
  \/ AsyncThread \/ DownloadFails \/ ServerMain \/ ConsoleThread \/ ConsoleInput

Spec == Init /\ [][Next]_vars

(* The threads run, every task of the async pipeline returns and the main   *)
(* thread, once it is in pre_destroy, goes on; nobody need type anything.   *)
FairSpec ==
  /\ Spec
  /\ WF_vars(PreDestroy) /\ WF_vars(stage = "destroy" /\ PhaseDone /\ MainCalls)
  /\ WF_vars(AsyncThread) /\ WF_vars(ServerMain) /\ WF_vars(ConsoleThread)

-----------------------------------------------------------------------------
FlagType ==
  /\ joining \in BOOLEAN /\ kill \in BOOLEAN /\ exitServer \in BOOLEAN
  /\ conKill \in BOOLEAN /\ killEvent \in BOOLEAN /\ killDownloads \in BOOLEAN

CountType == at \in 1..(N + 1) /\ files \in 0..MaxFiles /\ late \in 0..MaxFiles

StateType ==
  /\ order \in Orders
  /\ stage \in {"start", "load", "entry", "unpack", "game", "destroy", "gone", "dead"}
  /\ joining => stage = "destroy" /\ at <= N /\ order[at] \in Threaded
  /\ asyncThread \in {"none", "running", "done"}
  /\ pass \subseteq {"discord", "download"}
  /\ doing \in {"none", "discord", "download", "get", "write"}
  /\ dwThread \in {"none", "created", "running", "done"}
  /\ console \in {"none", "test", "wait", "done"}
  /\ discord \in {"off", "up", "down"}

TypeOK == FlagType /\ CountType /\ StateType

(* When static destruction begins, which would end the process over a       *)
(* std::thread that can still be joined, every thread has ended, wherever   *)
(* the start had failed or the game exited.                                 *)
NoThreadOutlivesDestroy ==
  stage = "gone" => Ended(asyncThread) /\ Ended(dwThread) /\ Ended(console)

(* After kill_downloads at most the file whose request had already ended is *)
(* written: the rest of the download does not hold up the exit.             *)
KillStopsDownload == late <= 1

(* The async thread calls into Discord after Discord_Shutdown only if       *)
(* discord was registered before the scheduler, whose join keeps it off.    *)
Before(c, d) == \E i, j \in 1..N : i < j /\ order[i] = c /\ order[j] = d

CallbacksNeedDiscord ==
  doing = "discord" /\ discord = "down" => Before("discord", "scheduler")

(* The program goes down once it has begun to, unless the demonware thread  *)
(* starts only now: its first statement takes back the flag that is to stop *)
(* it, and the join never returns.                                          *)
ExitTakenBack == joining /\ order[at] = "demonware" /\ dwThread = "running" /\ ~exitServer

ShutdownEnds == stage = "destroy" ~> stage \in {"gone", "dead"} \/ ExitTakenBack

-----------------------------------------------------------------------------
(* What the proofs rest on: the hooks that have run have ended their        *)
(* thread, which nothing starts again, and only a running thread has tasks. *)
Destroyed(c) == \E i \in 1..N : i < at /\ order[i] = c

DestroyInv ==
  stage = "destroy" =>
    /\ Destroyed("scheduler") => Ended(asyncThread)
    /\ Destroyed("demonware") => Ended(dwThread)
    /\ Destroyed("terminal") => Ended(console)

TaskInv ==
  /\ doing # "none" \/ pass # {} => asyncThread = "running"
  /\ doing \in {"download", "get", "write"} => files > 0 /\ "download" \notin pass
  /\ "download" \in pass => files > 0

DownInv ==
  discord = "down" =>
    \/ stage = "destroy" /\ Destroyed("discord")
    \/ stage \in {"gone", "dead"}

LateInv == late = 0 \/ (late = 1 /\ killDownloads /\ doing # "write")

IInv ==
  /\ TypeOK /\ DestroyInv /\ TaskInv /\ DownInv /\ LateInv
  /\ NoThreadOutlivesDestroy /\ CallbacksNeedDiscord
=============================================================================
