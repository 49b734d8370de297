---------------------------- MODULE MCScheduler ----------------------------
(***************************************************************************)
(* A small set of tasks for TLC: a once task and one that ends when it     *)
(* likes on the async pipeline, and a gate on the main pipeline that       *)
(* schedules a delayed task for the script pipeline.                       *)
(***************************************************************************)
EXTENDS Scheduler

CONSTANTS prompt, poll, gate, gated

MCTasks == {prompt, poll, gate, gated}
MCPipe == [t \in MCTasks |-> IF t = gate THEN "main" ELSE IF t = gated THEN "lui" ELSE "async"]
MCKind == [t \in MCTasks |-> IF t = gate THEN "gate" ELSE IF t = poll THEN "poll" ELSE "once"]
MCDelay == [t \in MCTasks |-> IF t = gated THEN 1 ELSE 0]
MCThen == [t \in MCTasks |-> gated]
=============================================================================
