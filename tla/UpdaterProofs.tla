--------------------------- MODULE UpdaterProofs ---------------------------
(***************************************************************************)
(* Proofs about Updater for every set of files, every history of releases, *)
(* every number of download threads and attempts.                          *)
(***************************************************************************)
EXTENDS Updater, FiniteSetTheorems, TLAPS

(* What CheckFiles may choose is a sequence without repetition that holds   *)
(* exactly the stale files.                                                 *)
LEMMA OrderingsAreLists ==
  ASSUME NEW S, S \subseteq Files, NEW q \in Orderings(S)
  PROVE  /\ q \in Seq(Files)
         /\ \A i, j \in 1..Len(q) : q[i] = q[j] => i = j
         /\ \A f \in S : \E i \in 1..Len(q) : q[i] = f
         /\ \A i \in 1..Len(q) : q[i] \in S
         /\ S # {} => Len(q) > 0
<1>1. IsFiniteSet(S)
  BY FS_Subset, UpdaterAssumption
<1>2. Cardinality(S) \in Nat /\ (S # {} => Cardinality(S) # 0)
  BY <1>1, FS_CardinalityType, FS_EmptySet
<1>3. q \in Seq(S) /\ Len(q) = Cardinality(S) /\ DOMAIN q = 1..Len(q)
  BY <1>2 DEF Orderings
<1>4. q \in Seq(Files)
  BY <1>3
<1> QED
  BY <1>2, <1>3, <1>4 DEF Orderings

-----------------------------------------------------------------------------
(* A new process, whatever the disk looks like.                             *)
LEMMA ForgetRunInv ==
  ASSUME TypeOK, BinaryRecoverable, ForgetRun,
         published' \in Versions, disk' \in [Files -> DiskStates], backup' \in DiskStates,
         image' \in Contents, restart' \in BOOLEAN, phase' \in {"off", "list", "game"},
         BinaryRecoverable'
  PROVE  IInv'
<1> USE UpdaterAssumption
<1>1. TypeOK'
  <2>1. results' \in Seq(Result) /\ todo' \in Seq(Files)
    BY DEF ForgetRun
  <2>2. spawned' \in 0..MaxThreads /\ attempt' \in [Threads -> 0..MaxAttempts]
    BY DEF ForgetRun
  <2>3. phase' \in Updating \cup {"off", "check", "return", "game"}
    BY DEF Updating
  <2> QED
    BY <2>1, <2>2, <2>3 DEF ForgetRun, TypeOK
<1>2. PhaseInv'
  BY DEF ForgetRun, PhaseInv, Joined, Threads, Installing
<1>3. ClaimInv' /\ ResultInv'
  BY DEF ForgetRun, ClaimInv, ResultInv, Indices, InFlight
<1>4. DiskInv' /\ CompleteUpdateInstalls'
  BY DEF ForgetRun, DiskInv, CompleteUpdateInstalls, Installing
<1> QED
  BY <1>1, <1>2, <1>3, <1>4 DEF IInv

LEMMA InitInv == Init => IInv
<1> SUFFICES ASSUME Init PROVE IInv
  OBVIOUS
<1> USE UpdaterAssumption DEF Init
<1>1. TypeOK
  <2>1. results \in Seq(Result) /\ todo \in Seq(Files)
    OBVIOUS
  <2>2. spawned \in 0..MaxThreads /\ attempt \in [Threads -> 0..MaxAttempts]
    OBVIOUS
  <2>3. published \in Versions
    BY DEF Versions
  <2> QED
    BY <2>1, <2>2, <2>3 DEF TypeOK, DiskStates, Updating
<1>2. PhaseInv
  BY DEF PhaseInv, Joined, Threads, Installing
<1>3. ClaimInv /\ ResultInv
  BY DEF ClaimInv, ResultInv, Indices, InFlight
<1>4. DiskInv /\ CompleteUpdateInstalls /\ BinaryRecoverable
  BY DEF DiskInv, CompleteUpdateInstalls, Installing, BinaryRecoverable
<1> QED
  BY <1>1, <1>2, <1>3, <1>4 DEF IInv

-----------------------------------------------------------------------------
(* What a step of a download thread may rely on.                            *)
LEMMA ThreadContext ==
  ASSUME IInv, NEW t \in Threads, NEW step, step # "exit", ThreadAt(t, step)
  PROVE  /\ phase \in {"spawn", "join"}
         /\ ~Installing /\ phase \notin {"return", "off", "list", "clean", "check"}
         /\ InFlight(t) => claim[t] \in Indices /\ todo[claim[t]] \in Files
                           /\ manifest \in Versions
  BY DEF IInv, PhaseInv, ClaimInv, TypeOK, ThreadAt, Joined, Installing, Indices, Listed

LEMMA ThreadLoopInv ==
  ASSUME IInv, NEW t \in Threads, ThreadLoop(t) PROVE IInv'
<1> USE UpdaterAssumption
<1>0. /\ phase \in {"spawn", "join"} /\ ~Installing
      /\ InFlight(t) => claim[t] \in Indices /\ todo[claim[t]] \in Files /\ manifest \in Versions
  BY ThreadContext DEF ThreadLoop
<1>1. TypeOK'
  BY <1>0 DEF IInv, TypeOK, ThreadLoop, InFlight, ThreadAt, Result, installVars, threadVars, shareVars, runVars
<1>2. PhaseInv'
  <2>1. ~Installing' /\ phase' = phase /\ spawned' = spawned /\ manifest' = manifest /\ todo' = todo
        /\ written' = written
    BY <1>0 DEF ThreadLoop, Installing, runVars
  <2>2. \A u \in Threads : spawned < u => tpc'[u] = "loop"
    BY DEF IInv, TypeOK, PhaseInv, ThreadLoop, ThreadAt, Threads
  <2> QED
    BY <1>0, <2>1, <2>2 DEF IInv, PhaseInv, Installing, ThreadCount
<1>3. ClaimInv'
  BY <1>0 DEF IInv, TypeOK, ClaimInv, ThreadLoop, ThreadAt, InFlight, Indices, Listed, installVars, threadVars, shareVars, runVars
<1>4. ResultInv'
  <2>1. /\ results' = results /\ todo' = todo /\ manifest' = manifest /\ nextFile' = nextFile
        /\ claim' = claim /\ failed' = failed
    BY DEF ThreadLoop, installVars, threadVars, shareVars, runVars
  <2>2. \A u \in Threads : InFlight(u)' <=> InFlight(u)
    BY DEF IInv, TypeOK, ThreadLoop, ThreadAt, InFlight
  <2> QED
    BY <2>1, <2>2 DEF IInv, ResultInv, Indices
<1>5. DiskInv' /\ CompleteUpdateInstalls' /\ BinaryRecoverable'
  BY <1>0 DEF IInv, DiskInv, ThreadLoop, Stale, Listed, Indices, Installing, CompleteUpdateInstalls,
     BinaryRecoverable, installVars, threadVars, shareVars, runVars
<1> QED
  BY <1>1, <1>2, <1>3, <1>4, <1>5 DEF IInv

LEMMA ThreadClaimInv ==
  ASSUME IInv, NEW t \in Threads, ThreadClaim(t) PROVE IInv'
<1> USE UpdaterAssumption
<1>0. /\ phase \in {"spawn", "join"} /\ ~Installing
      /\ InFlight(t) => claim[t] \in Indices /\ todo[claim[t]] \in Files /\ manifest \in Versions
  BY ThreadContext DEF ThreadClaim
<1>1. TypeOK'
  <2>1. nextFile \in Nat /\ nextFile' = nextFile + 1 /\ 1 \in 0..MaxAttempts
    BY DEF IInv, TypeOK, ThreadClaim
  <2>2. claim' \in [Threads -> Nat]
    BY <2>1 DEF IInv, TypeOK, ThreadClaim
  <2>3. attempt' \in [Threads -> 0..MaxAttempts]
    BY <2>1 DEF IInv, TypeOK, ThreadClaim
  <2>4. tpc' \in [Threads -> {"loop", "claim", "fetch", "store", "fail", "exit"}]
    BY DEF IInv, TypeOK, ThreadClaim
  <2> QED
    BY <2>1, <2>2, <2>3, <2>4 DEF IInv, TypeOK, ThreadClaim, installVars, runVars
<1>2. PhaseInv'
  BY <1>0 DEF IInv, TypeOK, PhaseInv, ThreadClaim, ThreadAt, Joined, Installing, ThreadCount, installVars, threadVars, shareVars, runVars
<1>3. ClaimInv'
  <2>1. /\ nextFile' = nextFile + 1 /\ nextFile \in Nat /\ 1 <= nextFile /\ Len(todo) \in Nat
        /\ todo' = todo /\ manifest' = manifest /\ failed' = failed /\ body' = body
    BY DEF IInv, TypeOK, ClaimInv, ThreadClaim, runVars
  <2>2. /\ \A u \in Threads : u # t => claim'[u] = claim[u] /\ tpc'[u] = tpc[u]
        /\ ~InFlight(t)
        /\ nextFile <= Len(todo) => claim'[t] = nextFile /\ tpc'[t] = "fetch"
        /\ ~(nextFile <= Len(todo)) => tpc'[t] = "exit"
    BY DEF IInv, TypeOK, ThreadClaim, ThreadAt, InFlight
  <2>3. \A u \in Threads : InFlight(u)' => claim'[u] \in Indices /\ claim'[u] < nextFile + 1
    BY <2>1, <2>2 DEF IInv, ClaimInv, InFlight, Indices
  <2>4. \A u, w \in Threads : InFlight(u)' /\ InFlight(w)' /\ claim'[u] = claim'[w] => u = w
    BY <2>1, <2>2 DEF IInv, ClaimInv, InFlight, Indices
  <2>5. \A u \in Threads : tpc'[u] = "exit" => failed \/ Len(todo) < nextFile + 1
    BY <2>1, <2>2 DEF IInv, ClaimInv
  <2>6. \A u \in Threads : tpc'[u] = "store" => u # t /\ tpc[u] = "store" /\ claim'[u] = claim[u]
    BY <2>2
  <2> QED
    BY <2>1, <2>3, <2>4, <2>5, <2>6 DEF IInv, ClaimInv, Indices, Listed, Versions
<1>4. ResultInv'
  <2>1. /\ results' = results /\ todo' = todo /\ manifest' = manifest /\ nextFile' = nextFile + 1
        /\ failed' = failed
    BY DEF ThreadClaim, runVars
  <2>2. /\ \A u \in Threads : u # t => claim'[u] = claim[u] /\ (InFlight(u)' <=> InFlight(u))
        /\ ~InFlight(t)
        /\ nextFile <= Len(todo) => claim'[t] = nextFile
        /\ InFlight(t)' <=> nextFile <= Len(todo)
    BY DEF IInv, TypeOK, ThreadClaim, ThreadAt, InFlight
  <2>3. nextFile \in Nat /\ 1 <= nextFile /\ Len(todo) \in Nat
    BY DEF IInv, TypeOK, ClaimInv
  <2>4. \A k \in DOMAIN results : \E i \in Indices :
           i < nextFile + 1 /\ results[k] = [file |-> todo[i], data |-> Release[manifest][todo[i]]]
    BY <2>3 DEF IInv, ResultInv, Indices
  <2>5. ASSUME NEW k \in DOMAIN results, NEW u \in Threads, InFlight(u)'
        PROVE  results[k].file # todo[claim'[u]]
    <3>1. CASE u # t
      BY <2>2, <2>5, <3>1 DEF IInv, ResultInv
    <3>2. CASE u = t
      <4>1. PICK i \in Indices : i < nextFile /\ results[k].file = todo[i]
        BY DEF IInv, ResultInv
      <4>2. nextFile \in Indices /\ i # nextFile
        BY <2>2, <2>3, <2>5, <3>2, <4>1 DEF Indices
      <4> QED
        BY <2>2, <2>5, <3>2, <4>1, <4>2 DEF IInv, ClaimInv
    <3> QED
      BY <3>1, <3>2
  <2>6. ASSUME NEW i \in Indices, i < nextFile + 1
        PROVE  \/ failed
               \/ \E u \in Threads : InFlight(u)' /\ claim'[u] = i
               \/ \E k \in DOMAIN results : results[k].file = todo[i]
    <3>1. CASE i = nextFile
      BY <2>2, <2>3, <3>1 DEF Indices
    <3>2. CASE i < nextFile
      BY <2>2, <3>2 DEF IInv, ResultInv
    <3> QED
      BY <2>3, <2>6, <3>1, <3>2 DEF Indices
  <2> QED
    BY <2>1, <2>4, <2>5, <2>6 DEF IInv, ResultInv, Indices
<1>5. DiskInv' /\ CompleteUpdateInstalls' /\ BinaryRecoverable'
  BY <1>0 DEF IInv, DiskInv, ThreadClaim, Stale, Listed, Indices, Installing, CompleteUpdateInstalls,
     BinaryRecoverable, installVars, threadVars, shareVars, runVars
<1> QED
  BY <1>1, <1>2, <1>3, <1>4, <1>5 DEF IInv

LEMMA FetchGoodInv ==
  ASSUME IInv, NEW t \in Threads, FetchGood(t) PROVE IInv'
<1> USE UpdaterAssumption
<1>0. /\ phase \in {"spawn", "join"} /\ ~Installing
      /\ InFlight(t) => claim[t] \in Indices /\ todo[claim[t]] \in Files /\ manifest \in Versions
  BY ThreadContext DEF FetchGood
<1>1. TypeOK'
  <2>1. InFlight(t) /\ todo[claim[t]] \in Files
    BY <1>0 DEF FetchGood, ThreadAt, InFlight
  <2>2. Release[published] \in [Files -> Contents \cup {Absent}]
    BY DEF IInv, TypeOK, Versions
  <2>3. body' \in [Threads -> Contents \cup {Absent}]
    BY <2>1, <2>2 DEF IInv, TypeOK, FetchGood
  <2> QED
    BY <2>3 DEF IInv, TypeOK, FetchGood, ThreadAt, installVars, shareVars, runVars
<1>2. PhaseInv'
  BY <1>0 DEF IInv, TypeOK, PhaseInv, FetchGood, ThreadAt, Joined, Installing, ThreadCount, installVars, threadVars, shareVars, runVars
<1>3. ClaimInv'
  BY <1>0 DEF IInv, TypeOK, ClaimInv, FetchGood, ThreadAt, InFlight, Indices, Listed, installVars, threadVars, shareVars, runVars
<1>4. ResultInv'
  <2>1. /\ results' = results /\ todo' = todo /\ manifest' = manifest /\ nextFile' = nextFile
        /\ claim' = claim /\ failed' = failed
    BY DEF FetchGood, installVars, threadVars, shareVars, runVars
  <2>2. \A u \in Threads : InFlight(u)' <=> InFlight(u)
    BY DEF IInv, TypeOK, FetchGood, ThreadAt, InFlight
  <2> QED
    BY <2>1, <2>2 DEF IInv, ResultInv, Indices
<1>5. DiskInv' /\ CompleteUpdateInstalls' /\ BinaryRecoverable'
  BY <1>0 DEF IInv, DiskInv, FetchGood, Stale, Listed, Indices, Installing, CompleteUpdateInstalls,
     BinaryRecoverable, installVars, threadVars, shareVars, runVars
<1> QED
  BY <1>1, <1>2, <1>3, <1>4, <1>5 DEF IInv

LEMMA FetchBadInv ==
  ASSUME IInv, NEW t \in Threads, FetchBad(t) PROVE IInv'
<1> USE UpdaterAssumption
<1>0. /\ phase \in {"spawn", "join"} /\ ~Installing
      /\ InFlight(t) => claim[t] \in Indices /\ todo[claim[t]] \in Files /\ manifest \in Versions
  BY ThreadContext DEF FetchBad
<1>1. TypeOK'
  BY <1>0 DEF IInv, TypeOK, FetchBad, InFlight, ThreadAt, Result, installVars, threadVars, shareVars, runVars
<1>2. PhaseInv'
  BY <1>0 DEF IInv, TypeOK, PhaseInv, FetchBad, ThreadAt, Joined, Installing, ThreadCount, installVars, threadVars, shareVars, runVars
<1>3. ClaimInv'
  BY <1>0 DEF IInv, TypeOK, ClaimInv, FetchBad, ThreadAt, InFlight, Indices, Listed, installVars, threadVars, shareVars, runVars
<1>4. ResultInv'
  BY <1>0 DEF IInv, TypeOK, ClaimInv, ResultInv, FetchBad, ThreadAt, InFlight, Indices, installVars, threadVars, shareVars, runVars
<1>5. DiskInv' /\ CompleteUpdateInstalls' /\ BinaryRecoverable'
  BY <1>0 DEF IInv, DiskInv, FetchBad, Stale, Listed, Indices, Installing, CompleteUpdateInstalls,
     BinaryRecoverable, installVars, threadVars, shareVars, runVars
<1> QED
  BY <1>1, <1>2, <1>3, <1>4, <1>5 DEF IInv

LEMMA ThreadFailInv ==
  ASSUME IInv, NEW t \in Threads, ThreadFail(t) PROVE IInv'
<1> USE UpdaterAssumption
<1>0. /\ phase \in {"spawn", "join"} /\ ~Installing
      /\ InFlight(t) => claim[t] \in Indices /\ todo[claim[t]] \in Files /\ manifest \in Versions
  BY ThreadContext DEF ThreadFail
<1>1. TypeOK'
  BY <1>0 DEF IInv, TypeOK, ThreadFail, EndTurn, InFlight, ThreadAt, Result, installVars, threadVars, shareVars, runVars
<1>2. PhaseInv'
  BY <1>0 DEF IInv, TypeOK, PhaseInv, ThreadFail, ThreadAt, Joined, Installing, ThreadCount, installVars, threadVars, shareVars, runVars
<1>3. ClaimInv'
  BY <1>0 DEF IInv, TypeOK, ClaimInv, ThreadFail, EndTurn, ThreadAt, InFlight, Indices, Listed, installVars, threadVars, shareVars, runVars
<1>4. ResultInv'
  BY <1>0 DEF IInv, TypeOK, ClaimInv, ResultInv, ThreadFail, EndTurn, ThreadAt, InFlight, Indices, installVars, threadVars, shareVars, runVars
<1>5. DiskInv' /\ CompleteUpdateInstalls' /\ BinaryRecoverable'
  BY <1>0 DEF IInv, DiskInv, ThreadFail, Stale, Listed, Indices, Installing, CompleteUpdateInstalls,
     BinaryRecoverable, installVars, threadVars, shareVars, runVars
<1> QED
  BY <1>1, <1>2, <1>3, <1>4, <1>5 DEF IInv

LEMMA ThreadStoreInv ==
  ASSUME IInv, NEW t \in Threads, ThreadStore(t) PROVE IInv'
<1> USE UpdaterAssumption
<1>0. /\ phase \in {"spawn", "join"} /\ ~Installing
      /\ InFlight(t) => claim[t] \in Indices /\ todo[claim[t]] \in Files /\ manifest \in Versions
  BY ThreadContext DEF ThreadStore
<1>1. TypeOK'
  <2>1. InFlight(t) /\ body[t] = Release[manifest][todo[claim[t]]] /\ claim[t] \in Indices
    BY <1>0 DEF IInv, ClaimInv, ThreadStore, ThreadAt, InFlight
  <2>2. manifest \in Versions /\ todo[claim[t]] \in Listed(manifest)
    BY <2>1 DEF IInv, ClaimInv
  <2>3. body[t] \in Contents /\ todo[claim[t]] \in Files
    BY <2>1, <2>2 DEF Listed, Versions
  <2>4. results' \in Seq(Result)
    BY <2>3 DEF IInv, TypeOK, ThreadStore, Result
  <2> QED
    BY <2>4 DEF IInv, TypeOK, ThreadStore, EndTurn, installVars, runVars
<1>2. PhaseInv'
  BY <1>0 DEF IInv, TypeOK, PhaseInv, ThreadStore, ThreadAt, Joined, Installing, ThreadCount, installVars, threadVars, shareVars, runVars
<1>3. ClaimInv'
  BY <1>0 DEF IInv, TypeOK, ClaimInv, ThreadStore, EndTurn, ThreadAt, InFlight, Indices, Listed, installVars, threadVars, shareVars, runVars
<1>4. ResultInv'
  <2> DEFINE c == claim[t]  new == [file |-> todo[c], data |-> body[t]]
  <2>0. results' = Append(results, new)
    BY DEF ThreadStore
  <2>1. /\ todo' = todo /\ manifest' = manifest /\ nextFile' = nextFile
        /\ failed' = failed /\ \A u \in Threads : u # t => claim'[u] = claim[u]
    BY DEF IInv, TypeOK, ThreadStore, EndTurn, runVars
  <2>2. /\ \A u \in Threads : u # t => (InFlight(u)' <=> InFlight(u))
        /\ InFlight(t) /\ ~InFlight(t)'
    BY DEF IInv, TypeOK, ThreadStore, ThreadAt, InFlight
  <2>3. c \in Indices /\ c < nextFile /\ new = [file |-> todo[c], data |-> Release[manifest][todo[c]]]
    BY <2>2 DEF IInv, ClaimInv, ThreadStore, ThreadAt
  <2>4. /\ DOMAIN results' = DOMAIN results \cup {Len(results) + 1}
        /\ \A k \in DOMAIN results : results'[k] = results[k] /\ k # Len(results) + 1
        /\ results'[Len(results) + 1] = new
    BY <2>0 DEF IInv, TypeOK
  <2>5. \A k \in DOMAIN results' : \E i \in Indices :
           i < nextFile /\ results'[k] = [file |-> todo[i], data |-> Release[manifest][todo[i]]]
    BY <2>3, <2>4 DEF IInv, ResultInv
  <2>6. \A j, k \in DOMAIN results' : results'[j].file = results'[k].file => j = k
    BY <2>2, <2>4 DEF IInv, ResultInv
  <2>7. \A k \in DOMAIN results', u \in Threads : InFlight(u)' => results'[k].file # todo[claim'[u]]
    BY <2>1, <2>2, <2>3, <2>4 DEF IInv, ResultInv, ClaimInv
  <2>8. ASSUME NEW i \in Indices, i < nextFile
        PROVE  \/ failed
               \/ \E u \in Threads : InFlight(u)' /\ claim'[u] = i
               \/ \E k \in DOMAIN results' : results'[k].file = todo[i]
    <3>1. CASE i = c
      BY <2>4, <3>1
    <3>2. CASE i # c
      BY <2>1, <2>2, <2>4, <2>8, <3>2 DEF IInv, ResultInv
    <3> QED
      BY <3>1, <3>2
  <2> HIDE DEF new, c
  <2>9. Indices' = Indices
    BY <2>1 DEF Indices
  <2> QED
    BY <2>1, <2>5, <2>6, <2>7, <2>8, <2>9 DEF ResultInv
<1>5. DiskInv' /\ CompleteUpdateInstalls' /\ BinaryRecoverable'
  BY <1>0 DEF IInv, DiskInv, ThreadStore, Stale, Listed, Indices, Installing, CompleteUpdateInstalls,
     BinaryRecoverable, installVars, threadVars, shareVars, runVars
<1> QED
  BY <1>1, <1>2, <1>3, <1>4, <1>5 DEF IInv

-----------------------------------------------------------------------------
LEMMA PublishInv ==
  ASSUME IInv, Publish PROVE IInv'
<1> USE UpdaterAssumption
<1>1. TypeOK'
  BY DEF IInv, TypeOK, PhaseInv, Publish, DiskStates, Updating, Installing, Current, Result, ThreadCount, Versions, installVars, threadVars, shareVars, runVars
<1>2. PhaseInv'
  BY DEF IInv, TypeOK, PhaseInv, Publish, Joined, Installing, ThreadCount, Current, installVars, threadVars, shareVars, runVars
<1>3. ClaimInv'
  BY DEF IInv, TypeOK, PhaseInv, ClaimInv, Publish, InFlight, Indices, Listed, installVars, threadVars, shareVars, runVars
<1>4. ResultInv'
  BY DEF IInv, TypeOK, PhaseInv, ResultInv, Publish, InFlight, Indices, installVars, threadVars, shareVars, runVars
<1>5. DiskInv'
  BY DEF IInv, TypeOK, PhaseInv, DiskInv, Publish, Stale, Listed, Indices, Installing, Current, BinaryRecoverable, installVars, threadVars, shareVars, runVars
<1>6. CompleteUpdateInstalls'
  BY DEF IInv, TypeOK, PhaseInv, Publish, Installing, CompleteUpdateInstalls, Listed, Stale, installVars, threadVars, shareVars, runVars
<1>7. BinaryRecoverable'
  BY DEF IInv, TypeOK, PhaseInv, DiskInv, Publish, Installing, BinaryRecoverable, Current, DiskStates, installVars, threadVars, shareVars, runVars
<1> QED
  BY <1>1, <1>2, <1>3, <1>4, <1>5, <1>6, <1>7 DEF IInv

LEMMA NoFileListInv ==
  ASSUME IInv, NoFileList PROVE IInv'
<1> USE UpdaterAssumption
<1>1. TypeOK'
  BY DEF IInv, TypeOK, PhaseInv, NoFileList, DiskStates, Updating, Installing, Current, Result, ThreadCount, Versions, installVars, threadVars, shareVars, runVars
<1>2. PhaseInv'
  BY DEF IInv, TypeOK, PhaseInv, NoFileList, Joined, Installing, ThreadCount, Current, installVars, threadVars, shareVars, runVars
<1>3. ClaimInv'
  BY DEF IInv, TypeOK, PhaseInv, ClaimInv, NoFileList, InFlight, Indices, Listed, installVars, threadVars, shareVars, runVars
<1>4. ResultInv'
  BY DEF IInv, TypeOK, PhaseInv, ResultInv, NoFileList, InFlight, Indices, installVars, threadVars, shareVars, runVars
<1>5. DiskInv'
  BY DEF IInv, TypeOK, PhaseInv, DiskInv, NoFileList, Stale, Listed, Indices, Installing, Current, BinaryRecoverable, installVars, threadVars, shareVars, runVars
<1>6. CompleteUpdateInstalls'
  BY DEF IInv, TypeOK, PhaseInv, NoFileList, Installing, CompleteUpdateInstalls, Listed, Stale, installVars, threadVars, shareVars, runVars
<1>7. BinaryRecoverable'
  BY DEF IInv, TypeOK, PhaseInv, DiskInv, NoFileList, Installing, BinaryRecoverable, Current, DiskStates, installVars, threadVars, shareVars, runVars
<1> QED
  BY <1>1, <1>2, <1>3, <1>4, <1>5, <1>6, <1>7 DEF IInv

LEMMA GetFileListInv ==
  ASSUME IInv, GetFileList PROVE IInv'
<1> USE UpdaterAssumption
<1>1. TypeOK'
  BY DEF IInv, TypeOK, PhaseInv, GetFileList, DiskStates, Updating, Installing, Current, Result, ThreadCount, Versions, installVars, threadVars, shareVars, runVars
<1>2. PhaseInv'
  BY DEF IInv, TypeOK, PhaseInv, GetFileList, Joined, Installing, ThreadCount, Current, installVars, threadVars, shareVars, runVars
<1>3. ClaimInv'
  BY DEF IInv, TypeOK, PhaseInv, ClaimInv, GetFileList, InFlight, Indices, Listed, installVars, threadVars, shareVars, runVars
<1>4. ResultInv'
  BY DEF IInv, TypeOK, PhaseInv, ResultInv, GetFileList, InFlight, Indices, installVars, threadVars, shareVars, runVars
<1>5. DiskInv'
  BY DEF IInv, TypeOK, PhaseInv, DiskInv, GetFileList, Stale, Listed, Indices, Installing, Current, BinaryRecoverable, installVars, threadVars, shareVars, runVars
<1>6. CompleteUpdateInstalls'
  BY DEF IInv, TypeOK, PhaseInv, GetFileList, Installing, CompleteUpdateInstalls, Listed, Stale, installVars, threadVars, shareVars, runVars
<1>7. BinaryRecoverable'
  BY DEF IInv, TypeOK, PhaseInv, DiskInv, GetFileList, Installing, BinaryRecoverable, Current, DiskStates, installVars, threadVars, shareVars, runVars
<1> QED
  BY <1>1, <1>2, <1>3, <1>4, <1>5, <1>6, <1>7 DEF IInv

LEMMA DeleteGarbageInv ==
  ASSUME IInv, DeleteGarbage PROVE IInv'
<1> USE UpdaterAssumption
<1>1. TypeOK'
  BY DEF IInv, TypeOK, PhaseInv, DeleteGarbage, DiskStates, Updating, Installing, Current, Result, ThreadCount, Versions, installVars, threadVars, shareVars, runVars
<1>2. PhaseInv'
  BY DEF IInv, TypeOK, PhaseInv, DeleteGarbage, Joined, Installing, ThreadCount, Current, installVars, threadVars, shareVars, runVars
<1>3. ClaimInv'
  BY DEF IInv, TypeOK, PhaseInv, ClaimInv, DeleteGarbage, InFlight, Indices, Listed, installVars, threadVars, shareVars, runVars
<1>4. ResultInv'
  BY DEF IInv, TypeOK, PhaseInv, ResultInv, DeleteGarbage, InFlight, Indices, installVars, threadVars, shareVars, runVars
<1>5. DiskInv'
  BY DEF IInv, TypeOK, PhaseInv, DiskInv, DeleteGarbage, Stale, Listed, Indices, Installing, Current, BinaryRecoverable, installVars, threadVars, shareVars, runVars
<1>6. CompleteUpdateInstalls'
  BY DEF IInv, TypeOK, PhaseInv, DeleteGarbage, Installing, CompleteUpdateInstalls, Listed, Stale, installVars, threadVars, shareVars, runVars
<1>7. BinaryRecoverable'
  BY Binary \notin Garbage(manifest) DEF IInv, TypeOK, DeleteGarbage, Garbage, BinaryRecoverable
<1> QED
  BY <1>1, <1>2, <1>3, <1>4, <1>5, <1>6, <1>7 DEF IInv

LEMMA CheckFilesInv ==
  ASSUME IInv, CheckFiles PROVE IInv'
<1> USE UpdaterAssumption
<1>0. /\ UNCHANGED <<installVars, spawned, threadVars, shareVars, image, manifest, written,
                     binaryModified, restart>>
      /\ phase = "check" /\ phase' = (IF Stale(manifest) = {} THEN "return" ELSE "spawn")
      /\ manifest \in Versions
  BY DEF CheckFiles, IInv, PhaseInv
<1>1. /\ todo' \in Seq(Files)
      /\ \A i, j \in Indices' : todo'[i] = todo'[j] => i = j
      /\ \A f \in Stale(manifest) : \E i \in Indices' : todo'[i] = f
      /\ \A i \in Indices' : todo'[i] \in Stale(manifest)
      /\ Stale(manifest) # {} => Len(todo') > 0
  <2>1. Stale(manifest) \subseteq Files /\ todo' \in Orderings(Stale(manifest))
    BY DEF CheckFiles, Stale, Listed
  <2> QED
    BY <2>1, OrderingsAreLists DEF Indices
<1>2. /\ spawned = 0 /\ nextFile = 1 /\ results = << >> /\ written = 0
      /\ \A t \in Threads : tpc[t] = "loop"
  BY <1>0 DEF IInv, PhaseInv
<1>3. TypeOK'
  BY <1>0, <1>1 DEF IInv, TypeOK, Updating, installVars, threadVars, shareVars
<1>4. PhaseInv'
  <2>1. phase' = "spawn" => spawned' < ThreadCount'
    BY <1>0, <1>1, <1>2 DEF ThreadCount
  <2>2. Joined'
    BY <1>0, <1>2 DEF Joined, Threads, threadVars
  <2>3. /\ phase' \in {"spawn", "return"} /\ manifest' = manifest
        /\ \A t \in Threads : tpc'[t] = "loop"
    BY <1>0, <1>2 DEF threadVars
  <2> QED
    BY <1>0, <1>2, <2>1, <2>2, <2>3 DEF PhaseInv, Installing
<1>5. ClaimInv'
  <2>1. \A i \in Indices' : todo'[i] \in Listed(manifest)'
    BY <1>0, <1>1 DEF Stale, Listed
  <2>2. \A t \in Threads : ~InFlight(t)' /\ tpc'[t] = "loop"
    BY <1>0, <1>2 DEF InFlight, threadVars
  <2> QED
    BY <1>0, <1>1, <1>2, <2>1, <2>2 DEF ClaimInv, shareVars
<1>6. ResultInv'
  BY <1>0, <1>1, <1>2 DEF ResultInv, shareVars, Indices
<1>7. DiskInv'
  BY <1>0, <1>1 DEF DiskInv, Installing, Stale, Listed, installVars
<1>8. CompleteUpdateInstalls'
  BY <1>0 DEF CompleteUpdateInstalls, Listed, Stale, installVars
<1>9. BinaryRecoverable'
  BY <1>0 DEF IInv, BinaryRecoverable, installVars
<1> QED
  BY <1>3, <1>4, <1>5, <1>6, <1>7, <1>8, <1>9 DEF IInv

LEMMA SpawnThreadInv ==
  ASSUME IInv, SpawnThread PROVE IInv'
<1> USE UpdaterAssumption
<1>1. TypeOK'
  BY DEF IInv, TypeOK, PhaseInv, SpawnThread, DiskStates, Updating, Installing, Current, Result, ThreadCount, Versions, installVars, threadVars, shareVars, runVars
<1>2. PhaseInv'
  <2>1. /\ phase = "spawn" /\ phase' \in {"spawn", "join"} /\ spawned' = spawned + 1
        /\ phase' = "spawn" => spawned' # ThreadCount
        /\ todo' = todo /\ tpc' = tpc /\ manifest' = manifest /\ written' = written
    BY DEF SpawnThread, threadVars, runVars
  <2>2. spawned \in Nat /\ spawned < ThreadCount /\ ThreadCount \in Nat /\ ThreadCount' = ThreadCount
    BY <2>1 DEF IInv, TypeOK, PhaseInv, ThreadCount
  <2>3. \A t \in Threads : spawned' < t => tpc'[t] = "loop"
    BY <2>1, <2>2 DEF IInv, PhaseInv, Threads
  <2> QED
    BY <2>1, <2>2, <2>3 DEF IInv, PhaseInv, Installing
<1>3. ClaimInv'
  BY DEF IInv, TypeOK, PhaseInv, ClaimInv, SpawnThread, InFlight, Indices, Listed, installVars, threadVars, shareVars, runVars
<1>4. ResultInv'
  BY DEF IInv, TypeOK, PhaseInv, ResultInv, SpawnThread, InFlight, Indices, installVars, threadVars, shareVars, runVars
<1>5. DiskInv'
  BY DEF IInv, TypeOK, PhaseInv, DiskInv, SpawnThread, Stale, Listed, Indices, Installing, Current, BinaryRecoverable, installVars, threadVars, shareVars, runVars
<1>6. CompleteUpdateInstalls'
  BY DEF IInv, TypeOK, PhaseInv, SpawnThread, Installing, CompleteUpdateInstalls, Listed, Stale, installVars, threadVars, shareVars, runVars
<1>7. BinaryRecoverable'
  BY DEF IInv, TypeOK, PhaseInv, DiskInv, SpawnThread, Installing, BinaryRecoverable, Current, DiskStates, installVars, threadVars, shareVars, runVars
<1> QED
  BY <1>1, <1>2, <1>3, <1>4, <1>5, <1>6, <1>7 DEF IInv

LEMMA JoinThreadsInv ==
  ASSUME IInv, JoinThreads PROVE IInv'
<1> USE UpdaterAssumption
<1>1. TypeOK'
  BY DEF IInv, TypeOK, PhaseInv, JoinThreads, DiskStates, Updating, Installing, Current, Result, ThreadCount, Versions, installVars, threadVars, shareVars, runVars
<1>2. PhaseInv'
  BY DEF IInv, TypeOK, PhaseInv, JoinThreads, Joined, Installing, ThreadCount, Current, installVars, threadVars, shareVars, runVars
<1>3. ClaimInv'
  BY DEF IInv, TypeOK, PhaseInv, ClaimInv, JoinThreads, InFlight, Indices, Listed, installVars, threadVars, shareVars, runVars
<1>4. ResultInv'
  BY DEF IInv, TypeOK, PhaseInv, ResultInv, JoinThreads, InFlight, Indices, installVars, threadVars, shareVars, runVars
<1>5. DiskInv'
  <2>1. /\ phase = "join" /\ phase' \in {"return", "write"} /\ written' = written /\ written = 0
        /\ disk' = disk /\ manifest' = manifest /\ todo' = todo /\ Joined
    BY DEF JoinThreads, installVars, runVars, IInv, PhaseInv
  <2> QED
    BY <2>1 DEF IInv, DiskInv, Installing, Stale, Listed, Indices
<1>6. CompleteUpdateInstalls'
  BY DEF IInv, TypeOK, PhaseInv, JoinThreads, Installing, CompleteUpdateInstalls, Listed, Stale, installVars, threadVars, shareVars, runVars
<1>7. BinaryRecoverable'
  BY DEF IInv, TypeOK, PhaseInv, DiskInv, JoinThreads, Installing, BinaryRecoverable, Current, DiskStates, installVars, threadVars, shareVars, runVars
<1> QED
  BY <1>1, <1>2, <1>3, <1>4, <1>5, <1>6, <1>7 DEF IInv

(* The result to be installed next: a listed file, with the content the     *)
(* list names, that none of the earlier results is about.                   *)
LEMMA CurrentItem ==
  ASSUME IInv, Installing, written < Len(results)
  PROVE  /\ written \in Nat /\ written + 1 \in DOMAIN results
         /\ Current \in Result /\ Current.file \in Files
         /\ \E i \in Indices : todo[i] = Current.file
         /\ manifest \in Versions /\ Current.data = Release[manifest][Current.file]
         /\ Current.data \in Contents /\ Current.data # Torn /\ Current.data # Absent
         /\ \A k \in 1..written :
              k \in DOMAIN results /\ results[k].file # Current.file /\ results[k].file \in Files
<1> USE UpdaterAssumption
<1>1. written \in Nat /\ results \in Seq(Result) /\ manifest \in Versions
  BY DEF IInv, TypeOK, PhaseInv
<1>2. written + 1 \in DOMAIN results /\ \A k \in 1..written : k \in DOMAIN results
  BY <1>1
<1>3. Current \in Result
  BY <1>1, <1>2 DEF Current
<1>4. PICK i \in Indices : Current = [file |-> todo[i], data |-> Release[manifest][todo[i]]]
  BY <1>2 DEF IInv, ResultInv, Current
<1>5. \A k \in 1..written : results[k].file # Current.file
  BY <1>1, <1>2 DEF IInv, ResultInv, Current
<1>6. \A k \in 1..written : results[k] \in Result
  BY <1>1, <1>2
<1> QED
  BY <1>1, <1>2, <1>3, <1>4, <1>5, <1>6 DEF Result

LEMMA MoveBinaryInv ==
  ASSUME IInv, MoveBinary PROVE IInv'
<1> USE UpdaterAssumption
<1>1. TypeOK'
  BY DEF IInv, TypeOK, PhaseInv, MoveBinary, DiskStates, Updating, Installing, Current, Result, ThreadCount, Versions, installVars, threadVars, shareVars, runVars
<1>2. PhaseInv'
  BY DEF IInv, TypeOK, PhaseInv, MoveBinary, Joined, Installing, ThreadCount, Current, installVars, threadVars, shareVars, runVars
<1>3. ClaimInv'
  BY DEF IInv, TypeOK, PhaseInv, ClaimInv, MoveBinary, InFlight, Indices, Listed, installVars, threadVars, shareVars, runVars
<1>4. ResultInv'
  BY DEF IInv, TypeOK, PhaseInv, ResultInv, MoveBinary, InFlight, Indices, installVars, threadVars, shareVars, runVars
<1>5. DiskInv'
  <2>1. /\ Installing /\ Installing' /\ written < Len(results) /\ UNCHANGED <<written, results, todo, manifest>>
        /\ \A f \in Files : f # Current.file => disk'[f] = disk[f]
        /\ Current' = Current
    BY DEF MoveBinary, Installing, Current, runVars, shareVars, IInv, TypeOK
  <2>2. \A f \in Stale(manifest)' : \E i \in Indices' : todo'[i] = f
    <3> SUFFICES ASSUME NEW f \in Stale(manifest)' PROVE \E i \in Indices : todo[i] = f
      BY <2>1 DEF Indices
    <3>1. CASE f = Current.file
      BY <2>1, <3>1, CurrentItem
    <3>2. CASE f # Current.file
      BY <2>1, <3>2 DEF Stale, Listed, IInv, DiskInv
    <3> QED
      BY <3>1, <3>2
  <2>3. \A k \in 1..written : disk'[results[k].file] \in {results[k].data, Torn}
    <3> SUFFICES ASSUME NEW k \in 1..written PROVE disk'[results[k].file] \in {results[k].data, Torn}
      OBVIOUS
    <3>1. k \in DOMAIN results /\ results[k].file # Current.file /\ results[k].file \in Files
      BY <2>1, CurrentItem
    <3> QED
      BY <2>1, <3>1 DEF IInv, DiskInv
  <2>4. phase' = "open" /\ Current'.file = Binary => backup' \in Contents
    BY <2>1 DEF MoveBinary, IInv, BinaryRecoverable
  <2> QED
    BY <2>1, <2>2, <2>3, <2>4 DEF DiskInv
<1>6. CompleteUpdateInstalls'
  BY DEF IInv, TypeOK, PhaseInv, MoveBinary, Installing, CompleteUpdateInstalls, Listed, Stale, installVars, threadVars, shareVars, runVars
<1>7. BinaryRecoverable'
  BY DEF IInv, TypeOK, PhaseInv, DiskInv, MoveBinary, Installing, BinaryRecoverable, Current, DiskStates, installVars, threadVars, shareVars, runVars
<1> QED
  BY <1>1, <1>2, <1>3, <1>4, <1>5, <1>6, <1>7 DEF IInv

LEMMA OpenFileInv ==
  ASSUME IInv, OpenFile PROVE IInv'
<1> USE UpdaterAssumption
<1>1. TypeOK'
  BY DEF IInv, TypeOK, PhaseInv, OpenFile, DiskStates, Updating, Installing, Current, Result, ThreadCount, Versions, installVars, threadVars, shareVars, runVars
<1>2. PhaseInv'
  BY DEF IInv, TypeOK, PhaseInv, OpenFile, Joined, Installing, ThreadCount, Current, installVars, threadVars, shareVars, runVars
<1>3. ClaimInv'
  BY DEF IInv, TypeOK, PhaseInv, ClaimInv, OpenFile, InFlight, Indices, Listed, installVars, threadVars, shareVars, runVars
<1>4. ResultInv'
  BY DEF IInv, TypeOK, PhaseInv, ResultInv, OpenFile, InFlight, Indices, installVars, threadVars, shareVars, runVars
<1>5. DiskInv'
  <2>1. /\ Installing /\ Installing' /\ written < Len(results) /\ UNCHANGED <<written, results, todo, manifest>>
        /\ \A f \in Files : f # Current.file => disk'[f] = disk[f]
        /\ Current' = Current
    BY DEF OpenFile, Installing, Current, runVars, shareVars, IInv, TypeOK
  <2>2. \A f \in Stale(manifest)' : \E i \in Indices' : todo'[i] = f
    <3> SUFFICES ASSUME NEW f \in Stale(manifest)' PROVE \E i \in Indices : todo[i] = f
      BY <2>1 DEF Indices
    <3>1. CASE f = Current.file
      BY <2>1, <3>1, CurrentItem
    <3>2. CASE f # Current.file
      BY <2>1, <3>2 DEF Stale, Listed, IInv, DiskInv
    <3> QED
      BY <3>1, <3>2
  <2>3. \A k \in 1..written : disk'[results[k].file] \in {results[k].data, Torn}
    <3> SUFFICES ASSUME NEW k \in 1..written PROVE disk'[results[k].file] \in {results[k].data, Torn}
      OBVIOUS
    <3>1. k \in DOMAIN results /\ results[k].file # Current.file /\ results[k].file \in Files
      BY <2>1, CurrentItem
    <3> QED
      BY <2>1, <3>1 DEF IInv, DiskInv
  <2>4. phase' = "open" /\ Current'.file = Binary => backup' \in Contents
    BY <2>1 DEF OpenFile, IInv, BinaryRecoverable
  <2> QED
    BY <2>1, <2>2, <2>3, <2>4 DEF DiskInv
<1>6. CompleteUpdateInstalls'
  BY DEF IInv, TypeOK, PhaseInv, OpenFile, Installing, CompleteUpdateInstalls, Listed, Stale, installVars, threadVars, shareVars, runVars
<1>7. BinaryRecoverable'
  BY DEF IInv, TypeOK, PhaseInv, DiskInv, OpenFile, Installing, BinaryRecoverable, Current, DiskStates, installVars, threadVars, shareVars, runVars
<1> QED
  BY <1>1, <1>2, <1>3, <1>4, <1>5, <1>6, <1>7 DEF IInv

LEMMA FinishFileInv ==
  ASSUME IInv, FinishFile PROVE IInv'
<1> USE UpdaterAssumption
<1>0. PICK content \in {Current.data, Torn} : disk' = [disk EXCEPT ![Current.file] = content]
  BY DEF FinishFile
<1>a. Installing /\ written < Len(results)
  BY DEF FinishFile, IInv, PhaseInv, Installing
<1>1. TypeOK'
  <2>1. content \in DiskStates
    BY <1>0, <1>a, CurrentItem DEF DiskStates
  <2>2. disk' \in [Files -> DiskStates]
    BY <1>0, <2>1 DEF IInv, TypeOK
  <2>3. phase' \in Updating /\ written' \in Nat
    BY DEF IInv, TypeOK, FinishFile, Updating
  <2>4. binaryModified' \in BOOLEAN
    BY DEF FinishFile
  <2> QED
    BY <2>2, <2>3, <2>4 DEF IInv, TypeOK, FinishFile, threadVars, shareVars
<1>2. PhaseInv'
  BY DEF IInv, TypeOK, PhaseInv, FinishFile, Joined, Installing, ThreadCount, Current, installVars, threadVars, shareVars, runVars
<1>3. ClaimInv'
  BY DEF IInv, TypeOK, PhaseInv, ClaimInv, FinishFile, InFlight, Indices, Listed, installVars, threadVars, shareVars, runVars
<1>4. ResultInv'
  BY DEF IInv, TypeOK, PhaseInv, ResultInv, FinishFile, InFlight, Indices, installVars, threadVars, shareVars, runVars
<1>5. DiskInv'
  <2>1. /\ phase' = "write" /\ Installing' /\ written' = written + 1 /\ UNCHANGED <<results, todo, manifest>>
        /\ \A f \in Files : f # Current.file => disk'[f] = disk[f]
        /\ disk'[Current.file] = content
    BY <1>0, <1>a, CurrentItem DEF FinishFile, Installing, shareVars, IInv, TypeOK
  <2>2. \A f \in Stale(manifest)' : \E i \in Indices' : todo'[i] = f
    <3> SUFFICES ASSUME NEW f \in Stale(manifest)' PROVE \E i \in Indices : todo[i] = f
      BY <2>1 DEF Indices
    <3>1. CASE f = Current.file
      BY <1>a, <3>1, CurrentItem
    <3>2. CASE f # Current.file
      BY <1>a, <2>1, <3>2 DEF Stale, Listed, IInv, DiskInv
    <3> QED
      BY <3>1, <3>2
  <2>3. \A k \in 1..written' : disk'[results[k].file] \in {results[k].data, Torn}
    <3> SUFFICES ASSUME NEW k \in 1..(written + 1)
                 PROVE  disk'[results[k].file] \in {results[k].data, Torn}
      BY <2>1
    <3>1. CASE k = written + 1
      BY <2>1, <3>1 DEF Current
    <3>2. CASE k # written + 1
      <4>1. k \in 1..written
        BY <1>a, <3>2, CurrentItem
      <4>2. k \in DOMAIN results /\ results[k].file # Current.file /\ results[k].file \in Files
        BY <1>a, <4>1, CurrentItem
      <4> QED
        BY <1>a, <2>1, <4>1, <4>2 DEF IInv, DiskInv
    <3> QED
      BY <3>1, <3>2
  <2> QED
    BY <2>1, <2>2, <2>3 DEF DiskInv
<1>6. CompleteUpdateInstalls'
  BY DEF IInv, TypeOK, PhaseInv, FinishFile, Installing, CompleteUpdateInstalls, Listed, Stale, installVars, threadVars, shareVars, runVars
<1>7. BinaryRecoverable'
  BY DEF IInv, TypeOK, PhaseInv, DiskInv, FinishFile, Installing, BinaryRecoverable, Current, DiskStates, installVars, threadVars, shareVars, runVars
<1> QED
  BY <1>1, <1>2, <1>3, <1>4, <1>5, <1>6, <1>7 DEF IInv

LEMMA WriteFailsInv ==
  ASSUME IInv, WriteFails PROVE IInv'
<1> USE UpdaterAssumption
<1>1. TypeOK'
  BY DEF IInv, TypeOK, PhaseInv, WriteFails, DiskStates, Updating, Installing, Current, Result, ThreadCount, Versions, installVars, threadVars, shareVars, runVars
<1>2. PhaseInv'
  BY DEF IInv, TypeOK, PhaseInv, WriteFails, Joined, Installing, ThreadCount, Current, installVars, threadVars, shareVars, runVars
<1>3. ClaimInv'
  BY DEF IInv, TypeOK, PhaseInv, ClaimInv, WriteFails, InFlight, Indices, Listed, installVars, threadVars, shareVars, runVars
<1>4. ResultInv'
  BY DEF IInv, TypeOK, PhaseInv, ResultInv, WriteFails, InFlight, Indices, installVars, threadVars, shareVars, runVars
<1>5. DiskInv'
  BY DEF IInv, TypeOK, PhaseInv, DiskInv, WriteFails, Stale, Listed, Indices, Installing, Current, BinaryRecoverable, installVars, threadVars, shareVars, runVars
<1>6. CompleteUpdateInstalls'
  BY DEF IInv, TypeOK, PhaseInv, WriteFails, Installing, CompleteUpdateInstalls, Listed, Stale, installVars, threadVars, shareVars, runVars
<1>7. BinaryRecoverable'
  BY DEF IInv, TypeOK, PhaseInv, DiskInv, WriteFails, Installing, BinaryRecoverable, Current, DiskStates, installVars, threadVars, shareVars, runVars
<1> QED
  BY <1>1, <1>2, <1>3, <1>4, <1>5, <1>6, <1>7 DEF IInv

(* Once all threads are joined and none failed, every file is in the list   *)
(* of results.                                                              *)
LEMMA Stored ==
  ASSUME IInv, Installing, NEW i \in Indices
  PROVE  \E k \in DOMAIN results : results[k].file = todo[i]
<1>1. ~failed /\ Joined /\ phase # "join" /\ phase # "spawn" /\ todo \in Seq(Files)
  BY DEF Installing, IInv, PhaseInv, TypeOK
<1>2. \A t \in Threads : ~InFlight(t)
  BY <1>1 DEF IInv, PhaseInv, Joined, InFlight, TypeOK, Threads
<1>3. i < nextFile
  BY <1>1, UpdaterAssumption DEF IInv, ClaimInv, PhaseInv, TypeOK, Indices, Joined, Threads
<1> QED
  BY <1>1, <1>2, <1>3 DEF IInv, ResultInv

LEMMA UpdateCompleteInv ==
  ASSUME IInv, UpdateComplete PROVE IInv'
<1> USE UpdaterAssumption
<1>1. TypeOK'
  BY DEF IInv, TypeOK, PhaseInv, UpdateComplete, DiskStates, Updating, Installing, Current, Result, ThreadCount, Versions, installVars, threadVars, shareVars, runVars
<1>2. PhaseInv'
  BY DEF IInv, TypeOK, PhaseInv, UpdateComplete, Joined, Installing, ThreadCount, Current, installVars, threadVars, shareVars, runVars
<1>3. ClaimInv'
  BY DEF IInv, TypeOK, PhaseInv, ClaimInv, UpdateComplete, InFlight, Indices, Listed, installVars, threadVars, shareVars, runVars
<1>4. ResultInv'
  BY DEF IInv, TypeOK, PhaseInv, ResultInv, UpdateComplete, InFlight, Indices, installVars, threadVars, shareVars, runVars
<1>5. DiskInv'
  BY DEF IInv, TypeOK, PhaseInv, DiskInv, UpdateComplete, Stale, Listed, Indices, Installing, Current, BinaryRecoverable, installVars, threadVars, shareVars, runVars
<1>6. CompleteUpdateInstalls'
  <2>1. Installing /\ ~failed /\ written = Len(results) /\ UNCHANGED <<disk, manifest, failed>>
    BY DEF UpdateComplete, Installing, IInv, PhaseInv, installVars, shareVars
  <2> SUFFICES ASSUME NEW f \in Listed(manifest) PROVE disk[f] \in {Release[manifest][f], Torn}
    BY <2>1 DEF CompleteUpdateInstalls, Listed
  <2>2. CASE f \notin Stale(manifest)
    BY <2>2 DEF Stale
  <2>3. CASE f \in Stale(manifest)
    <3>1. PICK i \in Indices : todo[i] = f
      BY <2>1, <2>3 DEF IInv, DiskInv
    <3>2. PICK k \in DOMAIN results : results[k].file = f
      BY <2>1, <3>1, Stored
    <3>3. k \in 1..written
      BY <2>1 DEF IInv, TypeOK
    <3>4. results[k].data = Release[manifest][f]
      BY <3>2 DEF IInv, ResultInv
    <3> QED
      BY <2>1, <3>2, <3>3, <3>4 DEF IInv, DiskInv
  <2> QED
    BY <2>2, <2>3
<1>7. BinaryRecoverable'
  BY DEF IInv, TypeOK, PhaseInv, DiskInv, UpdateComplete, Installing, BinaryRecoverable, Current, DiskStates, installVars, threadVars, shareVars, runVars
<1> QED
  BY <1>1, <1>2, <1>3, <1>4, <1>5, <1>6, <1>7 DEF IInv

LEMMA PlayInv ==
  ASSUME IInv, Play PROVE IInv'
<1> USE UpdaterAssumption
<1>1. TypeOK'
  BY DEF IInv, TypeOK, PhaseInv, Play, DiskStates, Updating, Installing, Current, Result, ThreadCount, Versions, installVars, threadVars, shareVars, runVars
<1>2. PhaseInv'
  BY DEF IInv, TypeOK, PhaseInv, Play, Joined, Installing, ThreadCount, Current, installVars, threadVars, shareVars, runVars
<1>3. ClaimInv'
  BY DEF IInv, TypeOK, PhaseInv, ClaimInv, Play, InFlight, Indices, Listed, installVars, threadVars, shareVars, runVars
<1>4. ResultInv'
  BY DEF IInv, TypeOK, PhaseInv, ResultInv, Play, InFlight, Indices, installVars, threadVars, shareVars, runVars
<1>5. DiskInv'
  BY DEF IInv, TypeOK, PhaseInv, DiskInv, Play, Stale, Listed, Indices, Installing, Current, BinaryRecoverable, installVars, threadVars, shareVars, runVars
<1>6. CompleteUpdateInstalls'
  BY DEF IInv, TypeOK, PhaseInv, Play, Installing, CompleteUpdateInstalls, Listed, Stale, installVars, threadVars, shareVars, runVars
<1>7. BinaryRecoverable'
  BY DEF IInv, TypeOK, PhaseInv, DiskInv, Play, Installing, BinaryRecoverable, Current, DiskStates, installVars, threadVars, shareVars, runVars
<1> QED
  BY <1>1, <1>2, <1>3, <1>4, <1>5, <1>6, <1>7 DEF IInv

LEMMA RestoreBackupInv ==
  ASSUME IInv, RestoreBackup PROVE IInv'
<1> USE UpdaterAssumption
<1>1. TypeOK'
  BY DEF IInv, TypeOK, PhaseInv, RestoreBackup, DiskStates, Updating, Installing, Current, Result, ThreadCount, Versions, installVars, threadVars, shareVars, runVars
<1>2. PhaseInv'
  BY DEF IInv, TypeOK, PhaseInv, RestoreBackup, Joined, Installing, ThreadCount, Current, installVars, threadVars, shareVars, runVars
<1>3. ClaimInv'
  BY DEF IInv, TypeOK, PhaseInv, ClaimInv, RestoreBackup, InFlight, Indices, Listed, installVars, threadVars, shareVars, runVars
<1>4. ResultInv'
  BY DEF IInv, TypeOK, PhaseInv, ResultInv, RestoreBackup, InFlight, Indices, installVars, threadVars, shareVars, runVars
<1>5. DiskInv'
  BY DEF IInv, TypeOK, PhaseInv, DiskInv, RestoreBackup, Stale, Listed, Indices, Installing, Current, BinaryRecoverable, installVars, threadVars, shareVars, runVars
<1>6. CompleteUpdateInstalls'
  BY DEF IInv, TypeOK, PhaseInv, RestoreBackup, Installing, CompleteUpdateInstalls, Listed, Stale, installVars, threadVars, shareVars, runVars
<1>7. BinaryRecoverable'
  BY DEF IInv, TypeOK, PhaseInv, DiskInv, RestoreBackup, Installing, BinaryRecoverable, Current, DiskStates, installVars, threadVars, shareVars, runVars
<1> QED
  BY <1>1, <1>2, <1>3, <1>4, <1>5, <1>6, <1>7 DEF IInv

LEMMA LaunchInv ==
  ASSUME IInv, Launch PROVE IInv'
  BY ForgetRunInv DEF IInv, TypeOK, Launch, BinaryRecoverable, installVars, DiskStates

LEMMA RestartSelfInv ==
  ASSUME IInv, RestartSelf PROVE IInv'
  BY ForgetRunInv DEF IInv, TypeOK, RestartSelf, BinaryRecoverable, installVars, DiskStates

LEMMA StopInv ==
  ASSUME IInv, Stop PROVE IInv'
  BY ForgetRunInv DEF IInv, TypeOK, Stop, BinaryRecoverable, installVars, DiskStates

LEMMA ChildDiesInv ==
  ASSUME IInv, ChildDies PROVE IInv'
  BY ForgetRunInv DEF IInv, TypeOK, ChildDies, BinaryRecoverable, installVars, DiskStates

-----------------------------------------------------------------------------
LEMMA StutterInv ==
  ASSUME IInv, UNCHANGED vars PROVE IInv'
<1> USE DEF vars, installVars, threadVars, shareVars, runVars
<1>1. TypeOK' /\ PhaseInv'
  BY DEF IInv, TypeOK, PhaseInv, Joined, Installing, ThreadCount
<1>2. ClaimInv' /\ ResultInv'
  BY DEF IInv, ClaimInv, ResultInv, InFlight, Indices, Listed
<1>3. DiskInv' /\ CompleteUpdateInstalls' /\ BinaryRecoverable'
  BY DEF IInv, DiskInv, CompleteUpdateInstalls, BinaryRecoverable, Installing, Stale, Listed,
     Indices, Current
<1> QED
  BY <1>1, <1>2, <1>3 DEF IInv

LEMMA NextInv ==
  ASSUME IInv, [Next]_vars PROVE IInv'
<1>1. CASE MainThread
  BY <1>1, NoFileListInv, GetFileListInv, DeleteGarbageInv, CheckFilesInv, SpawnThreadInv,
     JoinThreadsInv, MoveBinaryInv, OpenFileInv, FinishFileInv, WriteFailsInv,
     UpdateCompleteInv, PlayInv, RestartSelfInv DEF MainThread
<1>2. ASSUME NEW t \in Threads, DownloadThread(t) PROVE IInv'
  BY <1>2, ThreadLoopInv, ThreadClaimInv, FetchGoodInv, FetchBadInv, ThreadFailInv,
     ThreadStoreInv DEF DownloadThread
<1> QED
  BY <1>1, <1>2, PublishInv, LaunchInv, StopInv, ChildDiesInv, RestoreBackupInv, StutterInv
     DEF Next

(* The inductive invariant holds of every behaviour.                        *)
THEOREM Invariance == Spec => []IInv
  BY InitInv, NextInv, PTL DEF Spec

(* Every variable keeps its type.                                           *)
THEOREM TypeCorrect == Spec => []TypeOK
  BY Invariance, PTL DEF IInv

(* Nothing is installed before every stale file was downloaded and          *)
(* verified, each once, however many threads run_update uses.               *)
THEOREM InstallsComplete == Spec => []CompleteBeforeInstall
<1>1. IInv => CompleteBeforeInstall
  <2> SUFFICES ASSUME IInv, Installing PROVE CompleteBeforeInstall
    BY DEF CompleteBeforeInstall
  <2>1. \A k \in DOMAIN results : \E i \in Indices :
           results[k] = [file |-> todo[i], data |-> Release[manifest][todo[i]]]
    BY DEF IInv, ResultInv
  <2>2. \A i \in Indices : \E k \in DOMAIN results :
           results[k] = [file |-> todo[i], data |-> Release[manifest][todo[i]]]
    BY <2>1, Stored DEF IInv, ClaimInv
  <2>3. Stale(manifest) \subseteq {todo[i] : i \in Indices} /\ DOMAIN todo = Indices
    BY DEF IInv, DiskInv, TypeOK, Indices
  <2> QED
    BY <2>2, <2>3 DEF CompleteBeforeInstall, IInv, ResultInv
<1> QED
  BY Invariance, <1>1, PTL

(* The program can always be started again or put back from <binary>.old.   *)
THEOREM BinarySafe == Spec => []BinaryRecoverable
  BY Invariance, PTL DEF IInv

(* An update that reports no failure has installed the listed release.      *)
THEOREM UpdatesInstall == Spec => []CompleteUpdateInstalls
  BY Invariance, PTL DEF IInv

-----------------------------------------------------------------------------
(* What run_update still has to write is content of the list it fetched.    *)
LEMMA CurrentListed ==
  ASSUME IInv, phase \in {"write", "moved", "open"}, written < Len(results)
  PROVE  /\ manifest \in Versions /\ manifest # 0
         /\ Current.file \in Listed(manifest)
         /\ Current.data = Release[manifest][Current.file]
<1>1. written + 1 \in DOMAIN results
  BY DEF IInv, TypeOK
<1>2. PICK i \in Indices :
         results[written + 1] = [file |-> todo[i], data |-> Release[manifest][todo[i]]]
  BY <1>1 DEF IInv, ResultInv
<1> QED
  BY <1>2 DEF IInv, ClaimInv, Current, Versions

LEMMA StepContent ==
  ASSUME IInv, [Next]_vars, NEW f \in Files, disk'[f] # disk[f]
  PROVE  \/ f \notin Ignored /\ manifest # 0 /\ disk'[f] \in {Torn, Release[manifest][f]}
         \/ f = Binary /\ disk'[f] = Absent /\ backup' = disk[f]
         \/ f = Binary /\ disk'[f] = backup
<1> USE UpdaterAssumption
<1>1. disk \in [Files -> DiskStates]
  BY DEF IInv, TypeOK
<1>2. CASE DeleteGarbage
  <2>1. f \in Garbage(manifest) /\ disk'[f] = Absent
    BY <1>1, <1>2 DEF DeleteGarbage
  <2>2. manifest \in Versions /\ manifest # 0
    BY <1>2 DEF IInv, PhaseInv, DeleteGarbage, Versions
  <2> QED
    BY <2>1, <2>2 DEF Garbage, Listed
<1>3. CASE MoveBinary
  BY <1>1, <1>3 DEF MoveBinary
<1>4. CASE OpenFile
  BY <1>1, <1>4, CurrentListed DEF OpenFile, Listed
<1>5. CASE FinishFile
  <2>1. written < Len(results)
    BY <1>5 DEF FinishFile, IInv, PhaseInv
  <2> QED
    BY <1>1, <1>5, <2>1, CurrentListed DEF FinishFile, Listed
<1>6. CASE RestoreBackup
  BY <1>1, <1>6 DEF RestoreBackup
<1>7. CASE ~(DeleteGarbage \/ MoveBinary \/ OpenFile \/ FinishFile \/ RestoreBackup)
  BY <1>7 DEF Next, MainThread, DownloadThread, Publish, Launch, Stop, ChildDies, NoFileList,
     GetFileList, CheckFiles, SpawnThread, JoinThreads, WriteFails, UpdateComplete, Play,
     RestartSelf, ThreadLoop, ThreadClaim, FetchGood, FetchBad, ThreadFail, ThreadStore,
     installVars, vars
<1> QED
  BY <1>2, <1>3, <1>4, <1>5, <1>6, <1>7

(* No step of any process puts anything on disk but content of the release  *)
(* it has listed, and none touches a file of the ignore list.               *)
THEOREM ContentFromRelease == Spec => OnlyReleaseContent
<1>1. IInv /\ [Next]_vars =>
        [\A f \in Files : disk'[f] # disk[f] =>
           \/ f \notin Ignored /\ manifest # 0 /\ disk'[f] \in {Torn, Release[manifest][f]}
           \/ f = Binary /\ disk'[f] = Absent /\ backup' = disk[f]
           \/ f = Binary /\ disk'[f] = backup]_disk
  BY StepContent
<1> QED
  BY <1>1, Invariance, PTL DEF Spec, OnlyReleaseContent
=============================================================================
