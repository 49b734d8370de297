----------------------------- MODULE Scheduler -----------------------------
(***************************************************************************)
(* The task scheduler of src/src/client/component/scheduler.cpp: five      *)
(* pipelines, each a list of new tasks any thread may add to and a list of *)
(* tasks one thread of the game walks once per frame.  The async pipeline  *)
(* has a thread of its own, which shutdown stops and joins.                *)
(*                                                                         *)
(* Time is kept as what is left of every task's interval, so no clock      *)
(* grows: last_call is set where left is set back to the interval.         *)
(***************************************************************************)
EXTENDS Naturals, Sequences, FiniteSets, SequencesExt

CONSTANTS
  Tasks,      \* the callbacks that get scheduled, each at most once
  Pipe,       \* Pipe[t]: the pipeline t is scheduled on
  Kind,       \* Kind[t]: "once", "loop", "poll" (schedule) or "gate"
  Delay,      \* Delay[t]: its interval, in ticks
  Then        \* Then[t]: the task a gate (on_game_initialized) schedules

(* The pipelines in use; the lists of the others stay empty.                *)
Pipelines == {"async"} \cup {Pipe[t] : t \in Tasks}
Kinds == {"once", "loop", "poll", "gate"}

ASSUME SchedulerAssumption ==
  /\ Pipe \in [Tasks -> {"async", "renderer", "server", "main", "lui"}]
  /\ Kind \in [Tasks -> Kinds]
  /\ Delay \in [Tasks -> Nat]
  /\ \A t \in Tasks : Kind[t] = "gate" =>
       Pipe[t] = "main" /\ Delay[t] = 0 /\ Then[t] \in Tasks /\ Kind[Then[t]] # "gate"
  /\ \A t, u \in Tasks : Kind[t] = "gate" /\ Kind[u] = "gate" /\ Then[t] = Then[u] => t = u

VARIABLES
  fresh,       \* new_callbacks_ of every pipeline
  tasks,       \* callbacks_ of every pipeline
  cursor,      \* the iterator of execute(): 0 outside of it
  calling,     \* whether the handler under the iterator is running
  asyncThread, \* "none" before post_start, then "running", then "done"
  kill,        \* the flag pre_destroy sets
  joined,      \* pre_destroy's join has returned
  luaReady,    \* *game::hks::lua_state is set
  online,      \* Live_SyncOnlineDataFlags(0) is 0
  calls,       \* how often every handler was called (counted up to 2)
  owed,        \* history: tasks due when a pass began that it has yet to call
  order        \* tasks in the order in which schedule() added them

threadVars == <<asyncThread, kill, joined>>
gameVars == <<luaReady, online>>
vars == <<fresh, tasks, cursor, calling, threadVars, gameVars, calls, owed, order>>

Entry == [task : Tasks, left : Nat]

Scheduled == ToSet(order)
NewEntry(t) == [task |-> t, left |-> Delay[t]]
Due(entries) == {entries[i].task : i \in {j \in 1..Len(entries) : entries[j].left = 0}}

(* The tasks some gate will add when it opens are added in no other way.    *)
GatedTasks == {Then[g] : g \in {t \in Tasks : Kind[t] = "gate"}}

Init ==
  /\ fresh = [p \in Pipelines |-> << >>]
  /\ tasks = [p \in Pipelines |-> << >>]
  /\ cursor = [p \in Pipelines |-> 0]
  /\ calling = [p \in Pipelines |-> FALSE]
  /\ asyncThread = "none"
  /\ kill = FALSE
  /\ joined = FALSE
  /\ luaReady = FALSE
  /\ online = FALSE
  /\ calls = [t \in Tasks |-> 0]
  /\ owed = [p \in Pipelines |-> {}]
  /\ order = << >>

-----------------------------------------------------------------------------
(* Slip: a task is added in front of those that wait.                       *)
ScheduleInFront(t) ==
  /\ t \notin Scheduled \cup GatedTasks
  /\ fresh' = [fresh EXCEPT ![Pipe[t]] = << NewEntry(t) >> \o @]
  /\ order' = Append(order, t)
  /\ UNCHANGED <<tasks, cursor, calling, threadVars, gameVars, calls, owed>>

(* schedule(), loop() and once(): any thread, inside a handler or not, adds *)
(* to the new tasks under their mutex.                                      *)
Schedule(t) ==
  /\ t \notin Scheduled \cup GatedTasks
  /\ fresh' = [fresh EXCEPT ![Pipe[t]] = Append(@, NewEntry(t))]
  /\ order' = Append(order, t)
  /\ UNCHANGED <<tasks, cursor, calling, threadVars, gameVars, calls, owed>>

(* The thread of a pipeline can start a pass: the async thread while it is  *)
(* not told to stop, lui once the script state exists, and main and lui     *)
(* until the main thread is in pre_destroy.                                 *)
CanExecute(p) ==
  /\ p = "async" => asyncThread = "running" /\ ~kill
  /\ p \in {"main", "lui"} => ~kill
  /\ p = "lui" => luaReady

(* Slips: the new tasks are merged but kept, or not merged at all.          *)
MergeKeepsFresh(p) ==
  /\ cursor[p] = 0 /\ CanExecute(p)
  /\ tasks' = [tasks EXCEPT ![p] = @ \o fresh[p]]
  /\ cursor' = [cursor EXCEPT ![p] = 1]
  /\ owed' = [owed EXCEPT ![p] = Due(tasks[p] \o fresh[p])]
  /\ UNCHANGED <<fresh, calling, threadVars, gameVars, calls, order>>

ExecuteWithoutMerge(p) ==
  /\ cursor[p] = 0 /\ CanExecute(p)
  /\ cursor' = [cursor EXCEPT ![p] = 1]
  /\ owed' = [owed EXCEPT ![p] = Due(tasks[p] \o fresh[p])]
  /\ UNCHANGED <<fresh, tasks, calling, threadVars, gameVars, calls, order>>

(* execute(): lock, merge_callbacks(), and start at the first task.         *)
BeginExecute(p) ==
  /\ cursor[p] = 0 /\ CanExecute(p)
  /\ tasks' = [tasks EXCEPT ![p] = @ \o fresh[p]]
  /\ fresh' = [fresh EXCEPT ![p] = << >>]
  /\ cursor' = [cursor EXCEPT ![p] = 1]
  /\ owed' = [owed EXCEPT ![p] = Due(tasks[p] \o fresh[p])]
  /\ UNCHANGED <<calling, threadVars, gameVars, calls, order>>

AtTask(p) == cursor[p] \in 1..Len(tasks[p]) /\ ~calling[p]
TaskAt(p) == tasks[p][cursor[p]].task

(* diff < interval: not due yet, next task.                                 *)
SkipTask(p) ==
  /\ AtTask(p) /\ tasks[p][cursor[p]].left > 0
  /\ cursor' = [cursor EXCEPT ![p] = @ + 1]
  /\ UNCHANGED <<fresh, tasks, calling, threadVars, gameVars, calls, owed, order>>

(* last_call = now, and the handler is called.                              *)
CallTask(p) ==
  /\ AtTask(p) /\ tasks[p][cursor[p]].left = 0
  /\ tasks' = [tasks EXCEPT ![p][cursor[p]].left = Delay[TaskAt(p)]]
  /\ calling' = [calling EXCEPT ![p] = TRUE]
  /\ calls' = [calls EXCEPT ![TaskAt(p)] = IF @ < 2 THEN @ + 1 ELSE @]
  /\ owed' = [owed EXCEPT ![p] = @ \ {TaskAt(p)}]
  /\ UNCHANGED <<fresh, cursor, threadVars, gameVars, order>>

(* Slip: the task is erased and the iterator moves on all the same.         *)
EraseAndSkip(p) ==
  /\ calling[p] /\ Kind[TaskAt(p)] \in {"once", "poll"}
  /\ tasks' = [tasks EXCEPT ![p] = RemoveAt(@, cursor[p])]
  /\ calling' = [calling EXCEPT ![p] = FALSE]
  /\ cursor' = [cursor EXCEPT ![p] = @ + 1]
  /\ UNCHANGED <<fresh, threadVars, gameVars, calls, owed, order>>

(* cond_end: the task is erased and the iterator is on the one after it.    *)
(* A gate opens only when the game is online, and then schedules its task.  *)
EndTask(p) ==
  /\ calling[p] /\ Kind[TaskAt(p)] # "loop"
  /\ IF Kind[TaskAt(p)] = "gate"
     THEN LET next == Then[TaskAt(p)] IN
          /\ online
          /\ fresh' = [fresh EXCEPT ![Pipe[next]] = Append(@, NewEntry(next))]
          /\ order' = Append(order, next)
     ELSE UNCHANGED <<fresh, order>>
  /\ tasks' = [tasks EXCEPT ![p] = RemoveAt(@, cursor[p])]
  /\ calling' = [calling EXCEPT ![p] = FALSE]
  /\ UNCHANGED <<cursor, threadVars, gameVars, calls, owed>>

(* cond_continue: the task stays.                                           *)
KeepTask(p) ==
  /\ calling[p]
  /\ \/ Kind[TaskAt(p)] \in {"loop", "poll"}
     \/ Kind[TaskAt(p)] = "gate" /\ ~online
  /\ calling' = [calling EXCEPT ![p] = FALSE]
  /\ cursor' = [cursor EXCEPT ![p] = @ + 1]
  /\ UNCHANGED <<fresh, tasks, threadVars, gameVars, calls, owed, order>>

(* The end of the list: unlock.                                             *)
EndExecute(p) ==
  /\ cursor[p] = Len(tasks[p]) + 1
  /\ cursor' = [cursor EXCEPT ![p] = 0]
  /\ UNCHANGED <<fresh, tasks, calling, threadVars, gameVars, calls, owed, order>>

Pass(p) == BeginExecute(p) \/ SkipTask(p) \/ CallTask(p) \/ EndTask(p) \/ KeepTask(p) \/ EndExecute(p)

-----------------------------------------------------------------------------
(* post_start: create the async thread.                                     *)
StartAsync ==
  /\ asyncThread = "none" /\ ~kill
  /\ asyncThread' = "running"
  /\ UNCHANGED <<fresh, tasks, cursor, calling, kill, joined, gameVars, calls, owed, order>>

(* pre_destroy: set the flag; join only a thread that was started.          *)
Shutdown ==
  /\ ~kill
  /\ kill' = TRUE
  /\ UNCHANGED <<fresh, tasks, cursor, calling, asyncThread, joined, gameVars, calls, owed, order>>

AsyncExit ==
  /\ asyncThread = "running" /\ kill /\ cursor["async"] = 0
  /\ asyncThread' = "done"
  /\ UNCHANGED <<fresh, tasks, cursor, calling, kill, joined, gameVars, calls, owed, order>>

(* Slips: the thread is not waited for, or one is waited for that was never *)
(* started.                                                                 *)
Detach ==
  /\ kill /\ ~joined
  /\ joined' = TRUE
  /\ UNCHANGED <<fresh, tasks, cursor, calling, asyncThread, kill, gameVars, calls, owed, order>>

JoinUnstarted ==
  /\ kill /\ ~joined /\ asyncThread = "done"
  /\ joined' = TRUE
  /\ UNCHANGED <<fresh, tasks, cursor, calling, asyncThread, kill, gameVars, calls, owed, order>>

Join ==
  /\ kill /\ ~joined /\ asyncThread # "running"
  /\ joined' = TRUE
  /\ UNCHANGED <<fresh, tasks, cursor, calling, asyncThread, kill, gameVars, calls, owed, order>>

(* The game creates its script state and gets its online data.              *)
GameProgress ==
  /\ \/ ~luaReady /\ luaReady' = TRUE /\ UNCHANGED online
     \/ ~online /\ online' = TRUE /\ UNCHANGED luaReady
  /\ UNCHANGED <<fresh, tasks, cursor, calling, threadVars, calls, owed, order>>

(* Time passes, also while a pass is under way.                             *)
Older(s) == [i \in 1..Len(s) |-> [s[i] EXCEPT !.left = IF @ > 0 THEN @ - 1 ELSE 0]]

Tick ==
  /\ fresh' = [p \in Pipelines |-> Older(fresh[p])]
  /\ tasks' = [p \in Pipelines |-> Older(tasks[p])]
  /\ UNCHANGED <<cursor, calling, threadVars, gameVars, calls, owed, order>>

Next ==
  \/ \E t \in Tasks : Schedule(t)
  \/ \E p \in Pipelines : Pass(p)
  \/ StartAsync \/ Shutdown \/ AsyncExit \/ Join \/ GameProgress \/ Tick

Spec == Init /\ [][Next]_vars

(* Frames keep coming and handlers return, so every pipeline's thread makes *)
(* progress; time passes; a join returns when the thread has ended.         *)
FairSpec ==
  /\ Spec
  /\ \A p \in Pipelines : WF_vars(Pass(p))
  /\ WF_vars(Tick) /\ WF_vars(AsyncExit) /\ WF_vars(Join)

-----------------------------------------------------------------------------
TypeOK ==
  /\ fresh \in [Pipelines -> Seq(Entry)]
  /\ tasks \in [Pipelines -> Seq(Entry)]
  /\ cursor \in [Pipelines -> Nat]
  /\ \A p \in Pipelines : cursor[p] <= Len(tasks[p]) + 1
  /\ calling \in [Pipelines -> BOOLEAN]
  /\ asyncThread \in {"none", "running", "done"}
  /\ kill \in BOOLEAN /\ joined \in BOOLEAN
  /\ luaReady \in BOOLEAN /\ online \in BOOLEAN
  /\ calls \in [Tasks -> 0..2]
  /\ owed \in [Pipelines -> SUBSET Tasks]
  /\ order \in Seq(Tasks)

Listed(t) == {i \in 1..Len(tasks[Pipe[t]]) : tasks[Pipe[t]][i].task = t}
Waiting(t) == {i \in 1..Len(fresh[Pipe[t]]) : fresh[Pipe[t]][i].task = t}

(* Every task is in exactly one list, except a task whose handler ended:    *)
(* merging, erasing under the iterator and scheduling from any thread       *)
(* neither lose nor double one, and a once task is called at most once.     *)
NoTaskLostOrDoubled ==
  \A t \in Scheduled :
     /\ Kind[t] = "once" => calls[t] <= 1
     /\ Cardinality(Listed(t)) + Cardinality(Waiting(t)) <= 1
     /\ Kind[t] = "loop" \/ calls[t] = 0 => Listed(t) \cup Waiting(t) # {}

(* Tasks without a delay start in the order in which they were scheduled:   *)
(* download.cpp sends the script the name of a file, its progress and the   *)
(* end of the download as three tasks of one pipeline.  (With a delay they  *)
(* need not: execute() reads the clock again for every task.)               *)
PromptTasksInOrder ==
  \A i, j \in 1..Len(order) :
     /\ i < j
     /\ Pipe[order[i]] = Pipe[order[j]]
     /\ Delay[order[i]] = 0
     /\ calls[order[j]] > 0
     => calls[order[i]] > 0

(* A pass calls every task that was scheduled and due when it began, those  *)
(* without a delay always among them: neither erasing a task nor keeping a  *)
(* loop makes the iterator skip another, in any pass.                       *)
PassMissesNothing == [][\A p \in Pipelines : EndExecute(p) => owed[p] = {}]_vars

(* No handler of the async pipeline runs once pre_destroy has joined it,    *)
(* when the components' state is about to be destroyed.                     *)
QuietAfterJoin == joined => cursor["async"] = 0 /\ ~calling["async"]

(* Why they hold.  The tasks of a pipeline are one line, those being walked *)
(* and then the new ones, in the order of their scheduling: a merge does    *)
(* not change it, and a prompt task in it is never left waiting.            *)
line == [p \in Pipelines |-> tasks[p] \o fresh[p]]

Lined(L, ord) ==
  \A p \in Pipelines : \A i \in 1..Len(L[p]) :
     /\ Pipe[L[p][i].task] = p /\ L[p][i].task \in ToSet(ord)
     /\ Delay[L[p][i].task] = 0 => L[p][i].left = 0
Sorted(L, ord) ==
  /\ \A p \in Pipelines : \A i, j \in 1..Len(L[p]) : \A a, b \in 1..Len(ord) :
       i < j /\ ord[a] = L[p][i].task /\ ord[b] = L[p][j].task => a < b
  /\ \A a, b \in 1..Len(ord) : ord[a] = ord[b] => a = b
Holds(L, t) == \E i \in 1..Len(L[Pipe[t]]) : L[Pipe[t]][i].task = t

KeptInv == \A t \in Scheduled : Kind[t] = "loop" \/ calls[t] = 0 => Holds(line, t)

(* A once task that has been called and is still in line is being called.   *)
CallInv ==
  /\ \A t \in Tasks : /\ t \notin Scheduled => calls[t] = 0
                      /\ Kind[t] = "once" => calls[t] <= 1
  /\ \A p \in Pipelines : \A i \in 1..Len(line[p]) :
       Kind[line[p][i].task] = "once" /\ calls[line[p][i].task] > 0
         => calling[p] /\ cursor[p] = i

(* A gate is gone when its task comes.                                      *)
GateInv ==
  \A g \in Tasks :
     Kind[g] = "gate" /\ Then[g] \in Scheduled => g \in Scheduled /\ ~Holds(line, g)

(* The pass has called the prompt tasks behind it ...                       *)
PassInv ==
  \A p \in Pipelines :
     /\ calling[p] => cursor[p] \in 1..Len(tasks[p]) /\ calls[TaskAt(p)] > 0
     /\ \A i \in 1..Len(tasks[p]) :
          i < cursor[p] /\ Delay[tasks[p][i].task] = 0 => calls[tasks[p][i].task] > 0

(* ... and what it has yet to call is at the iterator or ahead of it.       *)
OwedAhead(p) ==
  \A t \in owed[p] : \E i \in 1..Len(tasks[p]) :
     /\ tasks[p][i] = [task |-> t, left |-> 0]
     /\ IF calling[p] THEN i > cursor[p] ELSE i >= cursor[p] /\ cursor[p] > 0

OwedInv == \A p \in Pipelines : OwedAhead(p)

QuietInv ==
  /\ asyncThread # "running" => cursor["async"] = 0 /\ ~calling["async"]
  /\ joined => kill /\ asyncThread # "running"

IInv ==
  /\ TypeOK /\ Lined(line, order) /\ Sorted(line, order)
  /\ KeptInv /\ CallInv /\ GateInv /\ PassInv /\ QuietInv /\ PromptTasksInOrder

(* Every task that is scheduled is called, unless its pipeline is stopped.  *)
EveryTaskRuns ==
  \A t \in Tasks :
     t \in Scheduled ~> \/ calls[t] > 0
                        \/ kill
                        \/ Pipe[t] = "async" /\ asyncThread = "none"
                        \/ Pipe[t] = "lui" /\ ~luaReady

(* Shutdown is never held up: the join returns.                             *)
ShutdownEnds == kill ~> joined
=============================================================================
