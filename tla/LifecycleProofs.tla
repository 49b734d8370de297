-------------------------- MODULE LifecycleProofs --------------------------
(***************************************************************************)
(* What holds of Lifecycle for every set of components and every order in  *)
(* which they were registered: pre_destroy leaves no thread behind, a      *)
(* killed download writes at most one file, and Discord is called after    *)
(* its shutdown only where the order of the components lets it.            *)
(***************************************************************************)
EXTENDS Lifecycle, FiniteSetTheorems, TLAPS

LEMMA NType == N \in Nat
BY LifecycleAssumption, FS_CardinalityType DEF N

LEMMA OrderFacts ==
  ASSUME NEW q \in Orders
  PROVE  /\ \A i \in 1..N : q[i] \in Components
         /\ \A i, j \in 1..N : q[i] = q[j] => i = j
         /\ \A c \in Hooked : \E i \in 1..N : q[i] = c
BY LifecycleAssumption DEF Orders

LEMMA InitInv == Init => IInv
<1> SUFFICES ASSUME Init PROVE IInv
  OBVIOUS
<1>1. FlagType /\ StateType
  BY DEF Init, FlagType, StateType
<1>2. CountType
  BY NType, LifecycleAssumption DEF Init, CountType
<1>3. DestroyInv /\ TaskInv /\ DownInv /\ LateInv
  BY DEF Init, DestroyInv, TaskInv, DownInv, LateInv
<1>4. NoThreadOutlivesDestroy /\ CallbacksNeedDiscord
  BY DEF Init, NoThreadOutlivesDestroy, CallbacksNeedDiscord
<1> QED
  BY <1>1, <1>2, <1>3, <1>4 DEF IInv, TypeOK

(* The hooks of the start create threads, which pre_destroy then finds.     *)
LEMMA StartSteps ==
  ASSUME IInv, PostStart \/ PostLoad \/ PostUnpack PROVE IInv'
<1> USE NType DEF Hook, NextHook, mainVars, asyncVars, dwVars, conVars, jobVars
<1>1. TypeOK'
  <2>1. FlagType'
    BY DEF IInv, TypeOK, FlagType, PostStart, PostLoad, PostUnpack
  <2>2. CountType'
    BY DEF IInv, TypeOK, CountType, PostStart, PostLoad, PostUnpack
  <2>3. StateType'
    <3>1. ASSUME PostStart PROVE StateType'
      BY <3>1 DEF IInv, TypeOK, CountType, StateType, PostStart, PostLoad, PostUnpack
    <3>2. ASSUME PostLoad PROVE StateType'
      BY <3>2 DEF IInv, TypeOK, CountType, StateType, PostStart, PostLoad, PostUnpack
    <3>3. ASSUME PostUnpack PROVE StateType'
      BY <3>3 DEF IInv, TypeOK, CountType, StateType, PostStart, PostLoad, PostUnpack
    <3> QED
      BY <3>1, <3>2, <3>3
  <2> QED
    BY <2>1, <2>2, <2>3 DEF TypeOK
<1>2. DestroyInv' /\ NoThreadOutlivesDestroy'
  BY DEF DestroyInv, NoThreadOutlivesDestroy, PostStart, PostLoad, PostUnpack
<1>3. TaskInv' /\ LateInv'
  BY DEF IInv, TaskInv, LateInv, PostStart, PostLoad, PostUnpack
<1>4. DownInv' /\ CallbacksNeedDiscord'
  BY DEF IInv, TypeOK, CountType, StateType, DownInv, CallbacksNeedDiscord, Before, PostStart, PostLoad, PostUnpack
<1> QED
  BY <1>1, <1>2, <1>3, <1>4 DEF IInv

LEMMA MainSteps ==
  ASSUME IInv, MainCalls PROVE IInv'
<1> USE NType DEF MainCalls, PhaseDone, SetThreadAffinityMask, StartFails, ExitHook, Enter,
      asyncVars, dwVars, conVars, jobVars
<1>1. TypeOK'
  <2>1. FlagType'
    BY DEF IInv, TypeOK, FlagType
  <2>2. CountType'
    BY DEF IInv, TypeOK, CountType
  <2>3. StateType'
    BY DEF IInv, TypeOK, CountType, StateType
  <2> QED
    BY <2>1, <2>2, <2>3 DEF TypeOK
<1>2. DestroyInv'
  BY DEF IInv, TypeOK, CountType, StateType, DestroyInv, Destroyed
<1>3. NoThreadOutlivesDestroy'
  <2> SUFFICES ASSUME stage' = "gone" PROVE NoThreadOutlivesDestroy'
    BY DEF NoThreadOutlivesDestroy
  <2>1. stage = "destroy" /\ at = N + 1
    OBVIOUS
  <2>2. Destroyed("scheduler") /\ Destroyed("demonware") /\ Destroyed("terminal")
    BY <2>1, OrderFacts DEF IInv, TypeOK, CountType, StateType, Destroyed, Hooked, Threaded
  <2> QED
    BY <2>1, <2>2 DEF IInv, DestroyInv, NoThreadOutlivesDestroy, Ended
<1>4. TaskInv' /\ LateInv'
  BY DEF IInv, TaskInv, LateInv
<1>5. DownInv' /\ CallbacksNeedDiscord'
  BY DEF IInv, DownInv, CallbacksNeedDiscord, Before
<1> QED
  BY <1>1, <1>2, <1>3, <1>4, <1>5 DEF IInv

(* A hook of pre_destroy that ends no thread: the others keep the ones they *)
(* have ended.                                                              *)
LEMMA DestroyedNext ==
  ASSUME IInv, Hook("destroy"), NextHook, NEW c PROVE Destroyed(c)' => Destroyed(c) \/ order[at] = c
BY NType DEF IInv, TypeOK, CountType, StateType, Hook, NextHook, Destroyed

LEMMA DestroySteps ==
  ASSUME IInv, PreDestroy PROVE IInv'
<1> USE NType DEF HookOf, Hook, mainVars, asyncVars, dwVars, conVars, jobVars
<1>1. ASSUME StopScheduler \/ StopDemonware \/ StopTerminal PROVE IInv'
  <2> USE <1>1 DEF StopScheduler, StopDemonware, StopTerminal, ToJoin
  <2>1. TypeOK'
    <3>1. FlagType'
      BY DEF IInv, TypeOK, FlagType, Threaded
    <3>2. CountType'
      BY DEF IInv, TypeOK, CountType, Threaded
    <3>3. StateType'
      <4>1. ASSUME StopScheduler PROVE StateType'
        BY <4>1 DEF IInv, TypeOK, CountType, StateType, Threaded
      <4>2. ASSUME StopDemonware PROVE StateType'
        BY <4>2 DEF IInv, TypeOK, CountType, StateType, Threaded
      <4>3. ASSUME StopTerminal PROVE StateType'
        BY <4>3 DEF IInv, TypeOK, CountType, StateType, Threaded
      <4> QED
        BY <4>1, <4>2, <4>3
    <3> QED
      BY <3>1, <3>2, <3>3 DEF TypeOK
  <2>2. DestroyInv' /\ NoThreadOutlivesDestroy'
    BY DEF IInv, DestroyInv, NoThreadOutlivesDestroy, Destroyed, Ended
  <2>3. TaskInv' /\ LateInv' /\ DownInv' /\ CallbacksNeedDiscord'
    BY DEF IInv, TaskInv, LateInv, DownInv, CallbacksNeedDiscord, Before, Destroyed
  <2> QED
    BY <2>1, <2>2, <2>3 DEF IInv
<1>2. ASSUME Join PROVE IInv'
  <2>1. stage = "destroy" /\ at \in 1..N /\ order[at] \in Threaded /\ Hook("destroy") /\ NextHook
    BY <1>2 DEF Join, IInv, TypeOK, CountType, StateType
  <2>2. UNCHANGED <<asyncVars, dwVars, conVars, jobVars, discord, order, stage>>
    BY <1>2 DEF Join, NextHook
  <2>3. TypeOK'
    <3>1. FlagType'
      BY <2>1, <2>2 DEF IInv, TypeOK, FlagType, NextHook
    <3>2. CountType'
      BY <2>1, <2>2 DEF IInv, TypeOK, CountType, NextHook
    <3>3. StateType'
      BY <2>1, <2>2 DEF IInv, TypeOK, CountType, StateType, NextHook
    <3> QED
      BY <3>1, <3>2, <3>3 DEF TypeOK
  <2>4. DestroyInv'
    <3>1. /\ order[at] = "scheduler" => Ended(asyncThread)
          /\ order[at] = "demonware" => Ended(dwThread)
          /\ order[at] = "terminal" => Ended(console)
      BY <1>2 DEF Join
    <3>2. \A c \in Threaded : Destroyed(c)' => Destroyed(c) \/ order[at] = c
      BY <2>1, DestroyedNext
    <3> QED
      BY <2>1, <2>2, <3>1, <3>2 DEF IInv, DestroyInv, Ended, Threaded
  <2>5. TaskInv' /\ LateInv' /\ NoThreadOutlivesDestroy' /\ CallbacksNeedDiscord'
    BY <2>1, <2>2 DEF IInv, TaskInv, LateInv, NoThreadOutlivesDestroy, CallbacksNeedDiscord, Before
  <2>6. DownInv'
    BY <2>1, <2>2 DEF IInv, TypeOK, CountType, StateType, DownInv, Destroyed, NextHook
  <2> QED
    BY <2>3, <2>4, <2>5, <2>6 DEF IInv
<1>3. ASSUME KillDownloads \/ DiscordShutdown \/ OtherPreDestroy PROVE IInv'
  <2>1. /\ stage = "destroy" /\ at \in 1..N /\ Hook("destroy") /\ NextHook
        /\ order[at] \notin Threaded
        /\ UNCHANGED <<asyncVars, dwVars, conVars, order, stage, files, late>>
    BY <1>3 DEF KillDownloads, DiscordShutdown, OtherPreDestroy, NextHook, Hooked, Threaded,
         IInv, TypeOK, CountType, StateType
  <2>2. TypeOK'
    <3>1. FlagType'
      BY <1>3, <2>1 DEF KillDownloads, DiscordShutdown, OtherPreDestroy, IInv, TypeOK, FlagType, NextHook
    <3>2. CountType'
      BY <1>3, <2>1 DEF KillDownloads, DiscordShutdown, OtherPreDestroy, IInv, TypeOK, CountType, NextHook
    <3>3. StateType'
      BY <1>3, <2>1 DEF KillDownloads, DiscordShutdown, OtherPreDestroy, IInv, TypeOK, CountType, StateType, NextHook
    <3> QED
      BY <3>1, <3>2, <3>3 DEF TypeOK
  <2>3. DestroyInv'
    <3>1. \A c \in Threaded : Destroyed(c)' => Destroyed(c)
      BY <2>1, DestroyedNext
    <3> QED
      BY <2>1, <3>1 DEF IInv, DestroyInv, Ended, Threaded
  <2>4. TaskInv' /\ LateInv' /\ NoThreadOutlivesDestroy'
    BY <1>3, <2>1 DEF IInv, TaskInv, LateInv, NoThreadOutlivesDestroy, KillDownloads,
         DiscordShutdown, OtherPreDestroy
  <2>5. DownInv'
    BY <1>3, <2>1 DEF IInv, TypeOK, CountType, StateType, DownInv, Destroyed, NextHook, KillDownloads,
         DiscordShutdown, OtherPreDestroy
  <2>6. CallbacksNeedDiscord'
    <3> SUFFICES ASSUME doing = "discord", discord' = "down" PROVE Before("discord", "scheduler")
      BY <2>1 DEF CallbacksNeedDiscord, Before
    <3>1. CASE discord = "down"
      BY <3>1 DEF IInv, CallbacksNeedDiscord
    <3>2. CASE discord # "down"
      <4>1. order[at] = "discord"
        BY <1>3, <3>2 DEF KillDownloads, DiscordShutdown, OtherPreDestroy
      <4>2. ~Destroyed("scheduler")
        BY <2>1 DEF IInv, TaskInv, DestroyInv, Ended
      <4>3. PICK j \in 1..N : order[j] = "scheduler"
        BY OrderFacts DEF IInv, TypeOK, CountType, StateType, Hooked, Threaded
      <4>4. at < j
        BY <2>1, <4>1, <4>2, <4>3 DEF Destroyed
      <4> QED
        BY <2>1, <4>1, <4>3, <4>4 DEF Before
    <3> QED
      BY <3>1, <3>2
  <2> QED
    BY <2>2, <2>3, <2>4, <2>5, <2>6 DEF IInv
<1> QED
  BY <1>1, <1>2, <1>3 DEF PreDestroy

(* The other threads: only a thread that runs takes a step.                 *)
LEMMA AsyncSteps ==
  ASSUME IInv, AsyncThread PROVE IInv'
<1> USE DEF AsyncThread, BeginPass, RunTask, RunCallbacks, CheckDownload, WriteFile, AsyncExit,
      LeaveDownload, Aborted, Alive, mainVars, dwVars, conVars, jobVars
<1>1. TypeOK'
  <2>1. ASSUME CheckDownload \/ WriteFile PROVE TypeOK'
    <3>1. FlagType'
      BY <2>1, LifecycleAssumption DEF IInv, TypeOK, FlagType, LateInv, Threaded
    <3>2. CountType'
      BY <2>1, LifecycleAssumption DEF IInv, TypeOK, CountType, LateInv, TaskInv
    <3>3. StateType'
      BY <2>1, LifecycleAssumption DEF IInv, TypeOK, CountType, StateType, LateInv, Threaded
    <3> QED
      BY <3>1, <3>2, <3>3 DEF TypeOK
  <2>2. ASSUME BeginPass \/ RunTask \/ RunCallbacks \/ AsyncExit PROVE TypeOK'
    <3>1. FlagType'
      BY <2>2 DEF IInv, TypeOK, FlagType, Due, Threaded
    <3>2. CountType'
      BY <2>2 DEF IInv, TypeOK, CountType, Due, Threaded
    <3>3. StateType'
      BY <2>2 DEF IInv, TypeOK, CountType, StateType, Due, Threaded
    <3> QED
      BY <3>1, <3>2, <3>3 DEF TypeOK
  <2> QED
    BY <2>1, <2>2
<1>2. asyncThread = "running"
  BY DEF IInv, TaskInv
<1>3. DestroyInv' /\ NoThreadOutlivesDestroy'
  BY <1>2 DEF IInv, DestroyInv, Destroyed, NoThreadOutlivesDestroy, Ended
<1>4. TaskInv'
  <2>1. ASSUME BeginPass \/ RunTask \/ RunCallbacks \/ AsyncExit PROVE TaskInv'
    <3>1. CASE BeginPass
      BY <1>2, <3>1 DEF TaskInv, Due
    <3>2. CASE RunTask
      BY <1>2, <3>2 DEF IInv, TypeOK, StateType, TaskInv
    <3>3. CASE RunCallbacks \/ AsyncExit
      BY <1>2, <3>3 DEF IInv, TaskInv
    <3> QED
      BY <2>1, <3>1, <3>2, <3>3
  <2>2. ASSUME CheckDownload \/ WriteFile PROVE TaskInv'
    BY <1>2, <2>2 DEF IInv, TypeOK, CountType, TaskInv
  <2> QED
    BY <2>1, <2>2
<1>5. LateInv'
  BY DEF IInv, TypeOK, CountType, StateType, LateInv
<1>6. DownInv'
  BY DEF IInv, DownInv, Destroyed
<1>7. CallbacksNeedDiscord'
  <2> SUFFICES ASSUME doing' = "discord", discord = "down" PROVE Before("discord", "scheduler")
    BY DEF CallbacksNeedDiscord, Before
  <2>1. stage = "destroy" /\ Destroyed("discord") /\ ~Destroyed("scheduler")
    BY <1>2 DEF IInv, DownInv, DestroyInv, Ended
  <2>2. PICK j \in 1..N : order[j] = "scheduler"
    BY OrderFacts DEF IInv, TypeOK, CountType, StateType, Hooked, Threaded
  <2> QED
    BY <2>1, <2>2, NType DEF Destroyed, Before, IInv, TypeOK, CountType, StateType
<1> QED
  BY <1>1, <1>3, <1>4, <1>5, <1>6, <1>7 DEF IInv

LEMMA OtherSteps ==
  ASSUME IInv, StartDownload \/ DownloadFails \/ ServerMain \/ ConsoleThread \/ ConsoleInput
  PROVE  IInv'
<1> USE NType, LifecycleAssumption
    DEF StartDownload, DownloadFails, ServerMain, ConsoleThread, ConsoleInput, Enter, Alive,
      mainVars, asyncVars, dwVars, conVars, jobVars
<1>1. TypeOK'
  <2>1. FlagType'
    BY DEF IInv, TypeOK, FlagType, Threaded
  <2>2. CountType'
    BY DEF IInv, TypeOK, CountType, Threaded
  <2>3. StateType'
    <3>1. ASSUME StartDownload PROVE StateType'
      BY <3>1 DEF IInv, TypeOK, CountType, StateType, Threaded
    <3>2. ASSUME DownloadFails PROVE StateType'
      BY <3>2 DEF IInv, TypeOK, CountType, StateType, Threaded
    <3>3. ASSUME ServerMain PROVE StateType'
      BY <3>3 DEF IInv, TypeOK, CountType, StateType, Threaded
    <3>4. ASSUME ConsoleThread PROVE StateType'
      BY <3>4 DEF IInv, TypeOK, CountType, StateType, Threaded
    <3>5. ASSUME ConsoleInput PROVE StateType'
      BY <3>5 DEF IInv, TypeOK, CountType, StateType, Threaded
    <3> QED
      BY <3>1, <3>2, <3>3, <3>4, <3>5
  <2> QED
    BY <2>1, <2>2, <2>3 DEF TypeOK
<1>2. DestroyInv'
  BY DEF IInv, DestroyInv, Destroyed, Ended
<1>3. TaskInv' /\ LateInv'
  BY DEF IInv, TaskInv, LateInv
<1>4. NoThreadOutlivesDestroy' /\ CallbacksNeedDiscord'
  BY DEF IInv, NoThreadOutlivesDestroy, CallbacksNeedDiscord, Before, Ended
<1>5. DownInv'
  BY DEF IInv, DownInv, Destroyed
<1> QED
  BY <1>1, <1>2, <1>3, <1>4, <1>5 DEF IInv

LEMMA StutterStep ==
  ASSUME IInv, UNCHANGED vars PROVE IInv'
BY DEF IInv, TypeOK, FlagType, CountType, StateType, DestroyInv, TaskInv, DownInv, LateInv, NoThreadOutlivesDestroy,
     CallbacksNeedDiscord, Before, Destroyed, Ended, Orders,
     vars, mainVars, asyncVars, dwVars, conVars, jobVars

(* IInv is inductive.                                                       *)
THEOREM Invariance == Spec => []IInv
<1>1. IInv /\ [Next]_vars => IInv'
  BY StartSteps, MainSteps, DestroySteps, AsyncSteps, OtherSteps, StutterStep DEF Next
<1> QED
  BY InitInv, <1>1, PTL DEF Spec

(* Every variable of the life cycle keeps to its type.                      *)
THEOREM TypeCorrect == Spec => []TypeOK
BY Invariance, PTL DEF IInv

(* No thread is left when static destruction begins, for any set and order  *)
(* of the components (component_loader::pre_destroy and the joins in it).   *)
THEOREM ThreadsEnd == Spec => []NoThreadOutlivesDestroy
BY Invariance, PTL DEF IInv

(* A download of any number of files writes at most one after               *)
(* kill_downloads is set (download.cpp).                                    *)
THEOREM OneLateFile == Spec => []KillStopsDownload
<1>1. IInv => KillStopsDownload
  BY DEF IInv, LateInv, KillStopsDownload
<1> QED
  BY Invariance, <1>1, PTL

(* A scheduler that comes first keeps the async thread off a library that   *)
(* discord's pre_destroy has shut down.                                     *)
THEOREM DiscordSafe == Spec => []CallbacksNeedDiscord
BY Invariance, PTL DEF IInv
=============================================================================
