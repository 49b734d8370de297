----------------------------- MODULE MCUpdater -----------------------------
(***************************************************************************)
(* A small install for TLC: the program's own file, two data files, one of *)
(* which the second release drops, and a file of the ignore list.          *)
(***************************************************************************)
EXTENDS Updater

CONSTANTS exe, data, extra, mine, v1, v2

MCFiles == {exe, data, extra, mine}
MCRelease ==
  << [f \in MCFiles |-> v1],
     [f \in MCFiles |-> IF f = extra THEN Absent ELSE v2] >>

(* What may go wrong in a run, for the statement that runs heal.            *)
Fault ==
  \/ NoFileList \/ Stop \/ ChildDies
  \/ \E t \in Threads : FetchBad(t) /\ Release[published][todo[claim[t]]] = Release[manifest][todo[claim[t]]]
  \/ DeleteGarbage /\ \E f \in Garbage(manifest) : disk'[f] # Absent
  \/ WriteFails /\ ~(phase = "write" /\ Current.file = Binary /\ backup # Absent)
  \/ FinishFile /\ disk'[Current.file] = Torn
  \/ Launch /\ (phase' = "game" \/ backup' # Absent)

(* Once faults stop and the player keeps starting and quitting the game     *)
(* (and puts a saved binary back when the program is gone), the install     *)
(* ends at the newest release: a partly applied update is repaired by the   *)
(* next run, because check_file compares what is on disk.                   *)
PlayerKeepsTrying ==
  WF_vars(Launch) /\ WF_vars(RestoreBackup) /\ WF_vars(phase = "game" /\ Stop)

FaultsStop == <>[][~(Fault /\ phase # "game")]_vars

HealSpec == FairSpec /\ PlayerKeepsTrying

RunsHeal == FaultsStop => <>[]UpToDate
=============================================================================
