-------------------------- MODULE SchedulerProofs --------------------------
(***************************************************************************)
(* The safety of the scheduler for any tasks, pipelines, delays and gates: *)
(* no task is lost or doubled, prompt tasks are called in the order of     *)
(* their scheduling, a pass leaves none out, and nothing runs after join.  *)
(***************************************************************************)
EXTENDS Scheduler, SequenceTheorems, FiniteSetTheorems, TLAPS

(* Lines of tasks, and what is done to them.                                *)
Lines == [Pipelines -> Seq(Entry)]
Cut(L, p, c) == [L EXCEPT ![p] = RemoveAt(@, c)]
Add(L, t) == [L EXCEPT ![Pipe[t]] = Append(@, NewEntry(t))]

LEMMA PipeType ==
  /\ "async" \in Pipelines
  /\ \A t \in Tasks : Pipe[t] \in Pipelines /\ NewEntry(t) \in Entry /\ Delay[t] \in Nat
BY SchedulerAssumption DEF Pipelines, NewEntry, Entry

LEMMA RemoveAtFacts ==
  ASSUME NEW S, NEW q \in Seq(S), NEW c \in 1..Len(q)
  PROVE  /\ RemoveAt(q, c) \in Seq(S) /\ Len(RemoveAt(q, c)) = Len(q) - 1
         /\ \A i \in 1..(Len(q) - 1) : RemoveAt(q, c)[i] = q[IF i < c THEN i ELSE i + 1]
<1> DEFINE a == SubSeq(q, 1, c - 1)  b == SubSeq(q, c + 1, Len(q))
<1>1. a \in Seq(S) /\ Len(a) = c - 1 /\ \A i \in 1..(c - 1) : a[i] = q[i]
  OBVIOUS
<1>2. b \in Seq(S) /\ Len(b) = Len(q) - c /\ \A i \in 1..(Len(q) - c) : b[i] = q[c + i]
  OBVIOUS
<1>3. RemoveAt(q, c) = a \o b
  BY DEF RemoveAt
<1> HIDE DEF a, b
<1>4. RemoveAt(q, c) \in Seq(S) /\ Len(RemoveAt(q, c)) = Len(q) - 1
  BY <1>1, <1>2, <1>3
<1>5. ASSUME NEW i \in 1..(Len(q) - 1)
      PROVE  RemoveAt(q, c)[i] = q[IF i < c THEN i ELSE i + 1]
  <2>1. CASE i < c
    BY <1>1, <1>2, <1>3, <2>1
  <2>2. CASE i >= c
    <3>1. i - Len(a) \in 1..(Len(q) - c) /\ (a \o b)[i] = b[i - Len(a)]
      BY <1>1, <1>2, <2>2
    <3>2. Len(a) = c - 1 /\ c + (i - Len(a)) = i + 1 /\ ~(i < c)
      BY <1>1, <2>2
    <3>3. b[i - Len(a)] = q[c + (i - Len(a))]
      BY <1>2, <3>1
    <3> QED
      BY <1>3, <3>1, <3>2, <3>3
  <2> QED
    BY <2>1, <2>2
<1> QED
  BY <1>4, <1>5

LEMMA ConcatFacts ==
  ASSUME NEW S, NEW a \in Seq(S), NEW b \in Seq(S)
  PROVE  /\ a \o b \in Seq(S) /\ Len(a \o b) = Len(a) + Len(b)
         /\ \A i \in 1..Len(a) : (a \o b)[i] = a[i]
         /\ \A i \in 1..Len(b) : (a \o b)[Len(a) + i] = b[i]
OBVIOUS

LEMMA AppendFacts ==
  ASSUME NEW S, NEW q \in Seq(S), NEW e \in S
  PROVE  /\ Append(q, e) \in Seq(S) /\ Len(Append(q, e)) = Len(q) + 1
         /\ Append(q, e)[Len(q) + 1] = e
         /\ \A i \in 1..Len(q) : Append(q, e)[i] = q[i]
OBVIOUS

LEMMA AppendSet ==
  ASSUME NEW S, NEW q \in Seq(S), NEW e \in S
  PROVE  ToSet(Append(q, e)) = ToSet(q) \cup {e}
<1> DEFINE o == Append(q, e)
<1>1. /\ DOMAIN o = 1..(Len(q) + 1) /\ DOMAIN q = 1..Len(q) /\ Len(q) \in Nat
      /\ o[Len(q) + 1] = e /\ \A a \in 1..Len(q) : o[a] = q[a]
  OBVIOUS
<1> HIDE DEF o
<1>2. ToSet(o) = ToSet(q) \cup {e}
  BY <1>1 DEF ToSet
<1> QED
  BY <1>2 DEF o

LEMMA SameSeq ==
  ASSUME NEW S, NEW a \in Seq(S), NEW b \in Seq(S), Len(a) = Len(b),
         \A i \in 1..Len(a) : a[i] = b[i]
  PROVE  a = b
OBVIOUS

(* No task is twice in a line.                                              *)
LEMMA SortedDistinct ==
  ASSUME NEW L, NEW ord \in Seq(Tasks), Lined(L, ord), Sorted(L, ord),
         NEW p \in Pipelines, NEW i \in 1..Len(L[p]), NEW j \in 1..Len(L[p]),
         L[p][i].task = L[p][j].task, L \in Lines
  PROVE  i = j
<1>1. PICK a \in 1..Len(ord) : ord[a] = L[p][i].task
  <2>1. L[p][i].task \in ToSet(ord)
    BY DEF Lined
  <2> QED
    BY <2>1 DEF ToSet
<1>2. ~(i < j) /\ ~(j < i)
  BY <1>1 DEF Sorted
<1>3. i \in Nat /\ j \in Nat
  BY DEF Lines
<1> QED
  BY <1>2, <1>3

LEMMA CutFacts ==
  ASSUME NEW L \in Lines, NEW ord \in Seq(Tasks), Lined(L, ord), Sorted(L, ord),
         NEW p \in Pipelines, NEW c \in 1..Len(L[p])
  PROVE  /\ Cut(L, p, c) \in Lines
         /\ Lined(Cut(L, p, c), ord) /\ Sorted(Cut(L, p, c), ord)
         /\ \A u \in Tasks : Holds(Cut(L, p, c), u) <=> Holds(L, u) /\ u # L[p][c].task
         /\ \A q \in Pipelines : \A i \in 1..Len(Cut(L, p, c)[q]) :
              \E k \in 1..Len(L[q]) : Cut(L, p, c)[q][i] = L[q][k] /\ (q = p => k # c)
<1> DEFINE M == Cut(L, p, c)
           Old(q, i) == IF q = p /\ i >= c THEN i + 1 ELSE i
<1>1. M \in Lines
  BY RemoveAtFacts DEF Lines, Cut
<1>11. /\ L[p] \in Seq(Entry) /\ M[p] = RemoveAt(L[p], c)
  BY DEF Cut, Lines
<1>12. /\ Len(M[p]) = Len(L[p]) - 1
       /\ \A k \in 1..(Len(L[p]) - 1) : M[p][k] = L[p][IF k < c THEN k ELSE k + 1]
  <2> DEFINE a == L[p]
  <2>1. a \in Seq(Entry) /\ c \in 1..Len(a)
    BY <1>11
  <2> HIDE DEF a
  <2>2. /\ Len(RemoveAt(a, c)) = Len(a) - 1
        /\ \A k \in 1..(Len(a) - 1) : RemoveAt(a, c)[k] = a[IF k < c THEN k ELSE k + 1]
    BY <2>1, RemoveAtFacts
  <2> QED
    BY <1>11, <2>2, Zenon DEF a
<1>2. \A q \in Pipelines : \A i \in 1..Len(M[q]) :
         Old(q, i) \in 1..Len(L[q]) /\ M[q][i] = L[q][Old(q, i)] /\ i \in Nat
         /\ (q = p => Old(q, i) # c)
  <2> SUFFICES ASSUME NEW q \in Pipelines, NEW i \in 1..Len(M[q])
               PROVE  Old(q, i) \in 1..Len(L[q]) /\ M[q][i] = L[q][Old(q, i)] /\ i \in Nat
                      /\ (q = p => Old(q, i) # c)
    OBVIOUS
  <2>1. L[q] \in Seq(Entry) /\ Len(L[q]) \in Nat
    BY DEF Lines
  <2>2. CASE q = p
    <3>2. /\ Len(M[q]) = Len(L[p]) - 1
          /\ \A k \in 1..(Len(L[p]) - 1) : M[q][k] = L[p][IF k < c THEN k ELSE k + 1]
      BY <1>12, <2>2
    <3> HIDE DEF M
    <3> QED
      BY <2>1, <2>2, <3>2
  <2>3. CASE q # p
    BY <2>1, <2>3 DEF Cut, Lines
  <2> QED
    BY <2>2, <2>3
<1>3. \A q \in Pipelines : \A k \in 1..Len(L[q]) :
         q # p \/ k # c => \E i \in 1..Len(M[q]) : M[q][i] = L[q][k]
  <2> SUFFICES ASSUME NEW q \in Pipelines, NEW k \in 1..Len(L[q]), q # p \/ k # c
               PROVE  \E i \in 1..Len(M[q]) : M[q][i] = L[q][k]
    OBVIOUS
  <2>1. L[q] \in Seq(Entry) /\ Len(L[q]) \in Nat
    BY DEF Lines
  <2>2. CASE q = p
    <3>2. /\ Len(M[q]) = Len(L[p]) - 1
          /\ \A i \in 1..(Len(L[p]) - 1) : M[q][i] = L[p][IF i < c THEN i ELSE i + 1]
      BY <1>12, <2>2
    <3> HIDE DEF M
    <3>3. CASE k < c
      BY <2>1, <2>2, <3>2, <3>3
    <3>4. CASE k > c
      <4>1. k - 1 \in 1..(Len(L[p]) - 1) /\ ~(k - 1 < c) /\ (k - 1) + 1 = k
        BY <2>1, <2>2, <3>4
      <4> QED
        BY <2>2, <3>2, <4>1
    <3> QED
      BY <2>1, <2>2, <3>3, <3>4
  <2>3. CASE q # p
    BY <2>1, <2>3 DEF Cut, Lines
  <2> QED
    BY <2>2, <2>3
<1> HIDE DEF M
<1>4. Lined(M, ord)
  <2> SUFFICES ASSUME NEW q \in Pipelines, NEW i \in 1..Len(M[q])
               PROVE  /\ Pipe[M[q][i].task] = q /\ M[q][i].task \in ToSet(ord)
                      /\ Delay[M[q][i].task] = 0 => M[q][i].left = 0
    BY DEF Lined
  <2>1. Old(q, i) \in 1..Len(L[q]) /\ M[q][i] = L[q][Old(q, i)]
    BY <1>2
  <2> HIDE DEF Old
  <2> QED
    BY <2>1 DEF Lined
<1>5. Sorted(M, ord)
  <2>1. ASSUME NEW q \in Pipelines, NEW i \in 1..Len(M[q]), NEW j \in 1..Len(M[q]),
               NEW a \in 1..Len(ord), NEW b \in 1..Len(ord),
               i < j, ord[a] = M[q][i].task, ord[b] = M[q][j].task
        PROVE  a < b
    <3>1. Old(q, i) < Old(q, j) /\ Old(q, i) \in 1..Len(L[q]) /\ Old(q, j) \in 1..Len(L[q])
      BY <1>2, <2>1
    <3>2. ord[a] = L[q][Old(q, i)].task /\ ord[b] = L[q][Old(q, j)].task
      BY <1>2, <2>1
    <3> HIDE DEF Old
    <3> QED
      BY <3>1, <3>2 DEF Sorted
  <2> QED
    BY <2>1 DEF Sorted
<1>6. ASSUME NEW u \in Tasks PROVE Holds(M, u) <=> Holds(L, u) /\ u # L[p][c].task
  <2>0. Pipe[u] \in Pipelines
    BY PipeType
  <2>1. ASSUME Holds(M, u) PROVE Holds(L, u) /\ u # L[p][c].task
    <3>1. PICK i \in 1..Len(M[Pipe[u]]) : M[Pipe[u]][i].task = u
      BY <2>1 DEF Holds
    <3>2. Old(Pipe[u], i) \in 1..Len(L[Pipe[u]]) /\ L[Pipe[u]][Old(Pipe[u], i)].task = u
      BY <1>2, <2>0, <3>1
    <3>3. ASSUME u = L[p][c].task PROVE FALSE
      <4>1. Pipe[u] = p
        BY <3>3 DEF Lined
      <4>2. Old(p, i) # c
        BY <1>2, <3>1, <4>1
      <4> HIDE DEF Old
      <4> QED
        BY <3>2, <3>3, <4>1, <4>2, SortedDistinct
    <3> QED
      BY <3>2, <3>3 DEF Holds
  <2>2. ASSUME Holds(L, u), u # L[p][c].task PROVE Holds(M, u)
    BY <1>3, <2>0, <2>2 DEF Holds
  <2> QED
    BY <2>1, <2>2
<1> QED
  BY <1>1, <1>2, <1>4, <1>5, <1>6 DEF M

LEMMA AddFacts ==
  ASSUME NEW L \in Lines, NEW ord \in Seq(Tasks), Lined(L, ord), Sorted(L, ord),
         NEW t \in Tasks, t \notin ToSet(ord)
  PROVE  /\ Add(L, t) \in Lines
         /\ Lined(Add(L, t), Append(ord, t)) /\ Sorted(Add(L, t), Append(ord, t))
         /\ \A u \in Tasks : Holds(Add(L, t), u) <=> Holds(L, u) \/ u = t
         /\ \A q \in Pipelines : \A i \in 1..Len(Add(L, t)[q]) :
              \/ i \in 1..Len(L[q]) /\ Add(L, t)[q][i] = L[q][i]
              \/ Add(L, t)[q][i].task = t
<1> DEFINE M == Add(L, t)  o == Append(ord, t)  e == NewEntry(t)  r == Pipe[t]
<1>0. r \in Pipelines /\ e \in Entry /\ e.task = t /\ e.left = Delay[t]
  BY PipeType DEF NewEntry
<1>1. M \in Lines /\ M[r] = Append(L[r], e) /\ \A q \in Pipelines : q # r => M[q] = L[q]
  BY <1>0 DEF Lines, Add
<1>2. \A q \in Pipelines : \A i \in 1..Len(M[q]) :
         /\ i \in Nat
         /\ \/ i \in 1..Len(L[q]) /\ M[q][i] = L[q][i]
            \/ i = Len(L[q]) + 1 /\ q = r /\ M[q][i] = e
  <2> SUFFICES ASSUME NEW q \in Pipelines, NEW i \in 1..Len(M[q])
               PROVE  /\ i \in Nat
                      /\ \/ i \in 1..Len(L[q]) /\ M[q][i] = L[q][i]
                         \/ i = Len(L[q]) + 1 /\ q = r /\ M[q][i] = e
    OBVIOUS
  <2>1. L[q] \in Seq(Entry) /\ Len(L[q]) \in Nat
    BY DEF Lines
  <2> HIDE DEF M, e
  <2>2. CASE q = r
    <3>1. /\ M[q] = Append(L[q], e) /\ Len(Append(L[q], e)) = Len(L[q]) + 1
          /\ Append(L[q], e)[Len(L[q]) + 1] = e
          /\ \A j \in 1..Len(L[q]) : Append(L[q], e)[j] = L[q][j]
      BY <1>0, <1>1, <2>1, <2>2, AppendFacts
    <3> QED
      BY <2>1, <2>2, <3>1
  <2>3. CASE q # r
    BY <1>1, <2>1, <2>3
  <2> QED
    BY <2>2, <2>3
<1>3. \A q \in Pipelines : /\ 1..Len(L[q]) \subseteq 1..Len(M[q])
                           /\ \A i \in 1..Len(L[q]) : M[q][i] = L[q][i]
  <2> SUFFICES ASSUME NEW q \in Pipelines
               PROVE  /\ 1..Len(L[q]) \subseteq 1..Len(M[q])
                      /\ \A i \in 1..Len(L[q]) : M[q][i] = L[q][i]
    OBVIOUS
  <2>1. L[q] \in Seq(Entry) /\ Len(L[q]) \in Nat
    BY DEF Lines
  <2> HIDE DEF M, e
  <2>2. CASE q = r
    <3>1. /\ M[q] = Append(L[q], e) /\ Len(Append(L[q], e)) = Len(L[q]) + 1
          /\ Append(L[q], e)[Len(L[q]) + 1] = e
          /\ \A j \in 1..Len(L[q]) : Append(L[q], e)[j] = L[q][j]
      BY <1>0, <1>1, <2>1, <2>2, AppendFacts
    <3> QED
      BY <2>1, <2>2, <3>1
  <2>3. CASE q # r
    BY <1>1, <2>1, <2>3
  <2> QED
    BY <2>2, <2>3
<1>4. \E i \in 1..Len(M[r]) : M[r][i] = e
  <2>1. L[r] \in Seq(Entry) /\ M[r] = Append(L[r], e)
    BY <1>0, <1>1 DEF Lines
  <2> HIDE DEF M, e
  <2>2. Len(L[r]) + 1 \in 1..Len(M[r]) /\ M[r][Len(L[r]) + 1] = e
    BY <1>0, <2>1
  <2> QED
    BY <2>2
<1>5. /\ Len(o) = Len(ord) + 1 /\ Len(ord) \in Nat /\ o[Len(ord) + 1] = t
      /\ \A a \in 1..Len(ord) : o[a] = ord[a] /\ ord[a] # t
  BY DEF ToSet
<1>6. ToSet(o) = ToSet(ord) \cup {t}
  BY AppendSet
<1>7. \A q \in Pipelines : \A i \in 1..Len(L[q]) : L[q][i].task # t
  BY DEF Lined
<1> HIDE DEF M, o, e
<1>8. Lined(M, o)
  <2> SUFFICES ASSUME NEW q \in Pipelines, NEW i \in 1..Len(M[q])
               PROVE  /\ Pipe[M[q][i].task] = q /\ M[q][i].task \in ToSet(o)
                      /\ Delay[M[q][i].task] = 0 => M[q][i].left = 0
    BY DEF Lined
  <2>1. CASE i \in 1..Len(L[q]) /\ M[q][i] = L[q][i]
    BY <1>6, <2>1 DEF Lined
  <2>2. CASE q = r /\ M[q][i] = e
    BY <1>0, <1>6, <2>2
  <2> QED
    BY <1>2, <2>1, <2>2
<1>9. Sorted(M, o)
  <2>1. ASSUME NEW q \in Pipelines, NEW i \in 1..Len(M[q]), NEW j \in 1..Len(M[q]),
               NEW a \in 1..Len(o), NEW b \in 1..Len(o),
               i < j, o[a] = M[q][i].task, o[b] = M[q][j].task
        PROVE  a < b
    <3>0. Len(L[q]) \in Nat
      BY DEF Lines
    <3>1. i \in 1..Len(L[q]) /\ M[q][i] = L[q][i] /\ i \in Nat /\ j \in Nat
      <4>1. i \in Nat /\ j \in Nat /\ j <= Len(L[q]) + 1
        BY <1>2, <3>0
      <4>2. i # Len(L[q]) + 1
        BY <2>1, <3>0, <4>1
      <4> QED
        BY <1>2, <4>1, <4>2
    <3>2. a \in 1..Len(ord) /\ o[a] = ord[a]
      BY <1>5, <1>7, <2>1, <3>1
    <3>3. CASE j \in 1..Len(L[q]) /\ M[q][j] = L[q][j]
      <4>1. b \in 1..Len(ord) /\ o[b] = ord[b]
        BY <1>5, <1>7, <2>1, <3>3
      <4> QED
        BY <2>1, <3>1, <3>2, <3>3, <4>1 DEF Sorted
    <3>4. CASE M[q][j] = e
      <4>1. b = Len(ord) + 1
        BY <1>0, <1>5, <2>1, <3>4
      <4> QED
        BY <1>5, <3>2, <4>1
    <3> QED
      BY <1>2, <3>3, <3>4
  <2>2. \A a, b \in 1..Len(o) : o[a] = o[b] => a = b
    BY <1>5 DEF Sorted
  <2> QED
    BY <2>1, <2>2 DEF Sorted
<1>10. ASSUME NEW u \in Tasks PROVE Holds(M, u) <=> Holds(L, u) \/ u = t
  <2>0. Pipe[u] \in Pipelines
    BY PipeType
  <2>1. Holds(M, u) => Holds(L, u) \/ u = t
    BY <1>0, <1>2, <2>0 DEF Holds
  <2>2. Holds(L, u) => Holds(M, u)
    BY <1>3, <2>0 DEF Holds
  <2>3. u = t => Holds(M, u)
    BY <1>0, <1>4 DEF Holds
  <2> QED
    BY <2>1, <2>2, <2>3
<1> QED
  BY <1>0, <1>1, <1>2, <1>8, <1>9, <1>10 DEF M, o

(* Calls and time change no task of a line.                                 *)
LEMMA SameFacts ==
  ASSUME NEW L \in Lines, NEW M \in Lines, NEW ord, Lined(L, ord), Sorted(L, ord),
         \A q \in Pipelines :
           /\ Len(M[q]) = Len(L[q])
           /\ \A i \in 1..Len(L[q]) : /\ M[q][i].task = L[q][i].task
                                      /\ \/ M[q][i].left <= L[q][i].left
                                         \/ M[q][i].left = Delay[L[q][i].task]
  PROVE  /\ Lined(M, ord) /\ Sorted(M, ord)
         /\ \A u \in Tasks : Holds(M, u) <=> Holds(L, u)
<1>1. Lined(M, ord)
  <2> SUFFICES ASSUME NEW q \in Pipelines, NEW i \in 1..Len(M[q])
               PROVE  /\ Pipe[M[q][i].task] = q /\ M[q][i].task \in ToSet(ord)
                      /\ Delay[M[q][i].task] = 0 => M[q][i].left = 0
    BY DEF Lined
  <2>1. M[q][i] \in Entry /\ L[q][i] \in Entry
    BY DEF Lines
  <2> QED
    BY <2>1 DEF Lined, Entry
<1>2. Sorted(M, ord)
  BY DEF Sorted
<1>3. \A u \in Tasks : Holds(M, u) <=> Holds(L, u)
  BY PipeType DEF Holds
<1> QED
  BY <1>1, <1>2, <1>3

(* The line of a pipeline is what it walks and, behind it, what is new.     *)
LEMMA LineFacts ==
  ASSUME TypeOK
  PROVE  /\ line \in Lines
         /\ \A p \in Pipelines :
              /\ tasks[p] \in Seq(Entry) /\ fresh[p] \in Seq(Entry)
              /\ Len(line[p]) = Len(tasks[p]) + Len(fresh[p])
              /\ 1..Len(tasks[p]) \subseteq 1..Len(line[p])
              /\ \A i \in 1..Len(tasks[p]) : line[p][i] = tasks[p][i]
<1> SUFFICES ASSUME NEW p \in Pipelines
             PROVE  /\ line[p] \in Seq(Entry)
                    /\ tasks[p] \in Seq(Entry) /\ fresh[p] \in Seq(Entry)
                    /\ Len(line[p]) = Len(tasks[p]) + Len(fresh[p])
                    /\ 1..Len(tasks[p]) \subseteq 1..Len(line[p])
                    /\ \A i \in 1..Len(tasks[p]) : line[p][i] = tasks[p][i]
  BY DEF Lines, line
<1> DEFINE a == tasks[p]  b == fresh[p]
<1>1. a \in Seq(Entry) /\ b \in Seq(Entry) /\ line[p] = a \o b
  BY DEF TypeOK, line
<1> HIDE DEF a, b
<1>2. Len(a) \in Nat /\ Len(b) \in Nat
  BY <1>1
<1>3. a \o b \in Seq(Entry) /\ Len(a \o b) = Len(a) + Len(b)
  BY <1>1
<1>4. \A i \in 1..Len(a) : (a \o b)[i] = a[i]
  BY <1>1
<1>5. 1..Len(a) \subseteq 1..Len(a \o b)
  BY <1>2, <1>3
<1> QED
  BY <1>1, <1>3, <1>4, <1>5 DEF a, b

LEMMA ConcatAppend ==
  ASSUME NEW S, NEW a \in Seq(S), NEW b \in Seq(S), NEW e \in S
  PROVE  a \o Append(b, e) = Append(a \o b, e)
<1> DEFINE x == a \o Append(b, e)  y == Append(a \o b, e)
<1>1. x \in Seq(S) /\ y \in Seq(S) /\ Len(x) = Len(y)
  OBVIOUS
<1>2. \A i \in 1..Len(x) : x[i] = y[i]
  OBVIOUS
<1> HIDE DEF x, y
<1>3. x = y
  BY <1>1, <1>2, SameSeq
<1> QED
  BY <1>3 DEF x, y

LEMMA ConcatRemove ==
  ASSUME NEW S, NEW a \in Seq(S), NEW b \in Seq(S), NEW c \in 1..Len(a)
  PROVE  RemoveAt(a, c) \o b = RemoveAt(a \o b, c)
<1> DEFINE x == RemoveAt(a, c) \o b  y == RemoveAt(a \o b, c)  k == Len(a) - 1
<1>1. /\ RemoveAt(a, c) \in Seq(S) /\ Len(RemoveAt(a, c)) = k
      /\ \A i \in 1..k : RemoveAt(a, c)[i] = a[IF i < c THEN i ELSE i + 1]
  BY RemoveAtFacts
<1>2. /\ a \o b \in Seq(S) /\ Len(a \o b) = Len(a) + Len(b)
      /\ \A i \in 1..Len(a) : (a \o b)[i] = a[i]
      /\ \A i \in 1..Len(b) : (a \o b)[Len(a) + i] = b[i]
  BY ConcatFacts
<1>3. Len(a) \in Nat \ {0} /\ Len(b) \in Nat
  OBVIOUS
<1>4. c \in 1..Len(a \o b)
  BY <1>2, <1>3
<1>5. /\ y \in Seq(S) /\ Len(y) = Len(a) + Len(b) - 1
      /\ \A i \in 1..(Len(a) + Len(b) - 1) : y[i] = (a \o b)[IF i < c THEN i ELSE i + 1]
  <2>1. /\ y \in Seq(S) /\ Len(y) = Len(a \o b) - 1
        /\ \A i \in 1..(Len(a \o b) - 1) : y[i] = (a \o b)[IF i < c THEN i ELSE i + 1]
    BY <1>2, <1>4, RemoveAtFacts
  <2> QED
    BY <1>2, <2>1
<1>6. /\ x \in Seq(S) /\ Len(x) = k + Len(b)
      /\ \A i \in 1..k : x[i] = RemoveAt(a, c)[i]
      /\ \A i \in 1..Len(b) : x[k + i] = b[i]
  <2> DEFINE d == RemoveAt(a, c)
  <2>1. d \in Seq(S) /\ Len(d) = k
    BY <1>1
  <2> HIDE DEF d
  <2>2. d \o b \in Seq(S) /\ Len(d \o b) = k + Len(b)
    BY <2>1
  <2>3. \A i \in 1..k : (d \o b)[i] = d[i]
    BY <2>1
  <2>4. \A i \in 1..Len(b) : (d \o b)[k + i] = b[i]
    BY <2>1
  <2> QED
    BY <2>2, <2>3, <2>4, Zenon DEF d
<1> HIDE DEF x, y
<1>7. \A i \in 1..Len(x) : x[i] = y[i]
  <2> SUFFICES ASSUME NEW i \in 1..(k + Len(b)) PROVE x[i] = y[i]
    BY <1>6
  <2>1. y[i] = (a \o b)[IF i < c THEN i ELSE i + 1]
    BY <1>3, <1>5
  <2>2. CASE i <= k
    <3>1. i \in 1..k /\ (IF i < c THEN i ELSE i + 1) \in 1..Len(a)
      BY <1>3, <2>2
    <3> QED
      BY <1>1, <1>2, <1>6, <2>1, <3>1
  <2>3. CASE i > k
    <3>1. i - k \in 1..Len(b) /\ k + (i - k) = i /\ ~(i < c) /\ Len(a) + (i - k) = i + 1
      BY <1>3, <2>3
    <3>2. x[i] = b[i - k] /\ (a \o b)[i + 1] = b[i - k]
      BY <1>2, <1>6, <3>1
    <3> QED
      BY <2>1, <3>1, <3>2
  <2> QED
    BY <1>3, <2>2, <2>3
<1>8. x = y
  <2>1. Len(x) = Len(y)
    BY <1>3, <1>5, <1>6
  <2> QED
    BY <1>5, <1>6, <1>7, <2>1, SameSeq
<1> QED
  BY <1>8 DEF x, y

-----------------------------------------------------------------------------
(* What depends on the line, the calls and the order only.                  *)
ListInv ==
  /\ Lined(line, order) /\ Sorted(line, order)
  /\ KeptInv /\ GateInv /\ PromptTasksInOrder

LEMMA ScheduledType == ASSUME TypeOK PROVE order \in Seq(Tasks) /\ Scheduled \subseteq Tasks
BY DEF TypeOK, Scheduled, ToSet

LEMMA SameLine ==
  ASSUME ListInv, line' = line, order' = order, calls' = calls
  PROVE  ListInv'
BY DEF ListInv, KeptInv, GateInv, PromptTasksInOrder, Scheduled

(* A task that comes last and has not been called takes no other's turn.    *)
LEMMA AppendOrder ==
  ASSUME PromptTasksInOrder, order \in Seq(Tasks), NEW t \in Tasks, calls[t] = 0,
         order' = Append(order, t), calls' = calls
  PROVE  PromptTasksInOrder'
<1>1. /\ Len(order') = Len(order) + 1 /\ Len(order) \in Nat /\ order'[Len(order) + 1] = t
      /\ \A i \in 1..Len(order) : order'[i] = order[i]
  OBVIOUS
<1> SUFFICES ASSUME NEW i \in 1..Len(order'), NEW j \in 1..Len(order'), i < j,
                    Pipe[order'[i]] = Pipe[order'[j]], Delay[order'[i]] = 0, calls[order'[j]] > 0
             PROVE  calls[order'[i]] > 0
  BY DEF PromptTasksInOrder
<1>2. i \in 1..Len(order) /\ j \in 1..Len(order)
  BY <1>1
<1> QED
  BY <1>1, <1>2 DEF PromptTasksInOrder

LEMMA Assembled ==
  ASSUME TypeOK', ListInv', CallInv', PassInv', QuietInv' PROVE IInv'
BY DEF IInv, ListInv

LEMMA InitInv == Init => IInv
<1> SUFFICES ASSUME Init PROVE IInv
  OBVIOUS
<1>1. TypeOK
  <2>1. /\ fresh \in [Pipelines -> Seq(Entry)] /\ tasks \in [Pipelines -> Seq(Entry)]
        /\ order \in Seq(Tasks)
    BY DEF Init
  <2>2. \A p \in Pipelines : cursor[p] <= Len(tasks[p]) + 1
    BY DEF Init
  <2>3. cursor \in [Pipelines -> Nat] /\ calls \in [Tasks -> 0..2]
    BY DEF Init
  <2>4. calling \in [Pipelines -> BOOLEAN] /\ owed \in [Pipelines -> SUBSET Tasks]
    BY DEF Init
  <2>5. /\ asyncThread \in {"none", "running", "done"}
        /\ kill \in BOOLEAN /\ joined \in BOOLEAN /\ luaReady \in BOOLEAN /\ online \in BOOLEAN
    BY DEF Init
  <2> QED
    BY <2>1, <2>2, <2>3, <2>4, <2>5 DEF TypeOK
<1>2. line \in [Pipelines -> {<< >>}] /\ \A p \in Pipelines : Len(line[p]) = 0 /\ Len(tasks[p]) = 0
  BY DEF Init, line
<1>3. Scheduled = {} /\ Len(order) = 0
  BY DEF Init, Scheduled, ToSet
<1>4. Lined(line, order) /\ Sorted(line, order)
  BY <1>2, <1>3 DEF Lined, Sorted
<1>5. KeptInv /\ GateInv /\ PromptTasksInOrder
  BY <1>3, SchedulerAssumption DEF KeptInv, GateInv, PromptTasksInOrder
<1>6. CallInv
  BY <1>2, <1>3 DEF Init, CallInv
<1>7. PassInv /\ QuietInv
  BY <1>2, PipeType DEF Init, PassInv, QuietInv
<1> QED
  BY <1>1, <1>4, <1>5, <1>6, <1>7 DEF IInv

(* Steps that leave the tasks alone.                                        *)
LEMMA ThreadSteps ==
  ASSUME IInv, StartAsync \/ Shutdown \/ AsyncExit \/ Join \/ GameProgress \/ UNCHANGED vars
  PROVE  IInv'
<1>1. UNCHANGED <<fresh, tasks, cursor, calling, calls, owed, order>>
  BY DEF StartAsync, Shutdown, AsyncExit, Join, GameProgress, vars, gameVars, threadVars
<1>2. TypeOK'
  BY <1>1 DEF IInv, TypeOK, StartAsync, Shutdown, AsyncExit, Join, GameProgress, vars,
              gameVars, threadVars
<1>3. ListInv'
  BY <1>1, SameLine DEF IInv, ListInv, line
<1>4. CallInv' /\ PassInv'
  BY <1>1 DEF IInv, CallInv, PassInv, line, Scheduled, TaskAt
<1>5. QuietInv'
  <2>1. cursor["async"] = 0 => ~calling["async"]
    BY PipeType DEF IInv, PassInv
  <2> QED
    BY <1>1, <2>1 DEF IInv, TypeOK, QuietInv, StartAsync, Shutdown, AsyncExit, Join, GameProgress, vars,
              gameVars, threadVars
<1> QED
  BY <1>2, <1>3, <1>4, <1>5, Assembled

(* schedule(), from any thread.                                             *)
LEMMA AddLine ==
  ASSUME TypeOK, NEW t \in Tasks, NEW L \in Lines,
         \A q \in Pipelines : line'[q] = L[q] \/ q = Pipe[t],
         line'[Pipe[t]] = Append(L[Pipe[t]], NewEntry(t))
  PROVE  line' = Add(L, t)
BY PipeType DEF Add, Lines, line

LEMMA ScheduleStep ==
  ASSUME IInv, NEW t \in Tasks, Schedule(t)
  PROVE  IInv'
<1> DEFINE e == NewEntry(t)  r == Pipe[t]
<1>0. /\ TypeOK /\ r \in Pipelines /\ e \in Entry /\ t \notin Scheduled
      /\ order \in Seq(Tasks) /\ Scheduled \subseteq Tasks
      /\ Lined(line, order) /\ Sorted(line, order) /\ line \in Lines
  BY PipeType, ScheduledType, LineFacts DEF IInv, Schedule
<1>1. TypeOK'
  <2>1. fresh' \in [Pipelines -> Seq(Entry)]
    <3>1. fresh' = [fresh EXCEPT ![r] = Append(@, e)] /\ fresh \in [Pipelines -> Seq(Entry)]
      BY <1>0 DEF TypeOK, Schedule
    <3> HIDE DEF e, r
    <3> QED
      BY <1>0, <3>1
  <2>2. order' \in Seq(Tasks)
    BY <1>0 DEF Schedule
  <2> QED
    BY <1>0, <2>1, <2>2 DEF TypeOK, Schedule, threadVars, gameVars
<1>2. line' = Add(line, t)
  <2>1. fresh' = [fresh EXCEPT ![r] = Append(@, e)] /\ tasks' = tasks
    BY DEF Schedule
  <2>2. fresh[r] \in Seq(Entry) /\ tasks[r] \in Seq(Entry) /\ fresh \in [Pipelines -> Seq(Entry)]
    BY <1>0 DEF TypeOK
  <2> HIDE DEF e, r
  <2>3. line'[r] = tasks[r] \o Append(fresh[r], e) /\ line[r] = tasks[r] \o fresh[r]
    BY <1>0, <2>1, <2>2, Zenon DEF line
  <2>4. line'[r] = Append(line[r], e)
    <3> DEFINE a == tasks[r]  b == fresh[r]
    <3>1. a \in Seq(Entry) /\ b \in Seq(Entry) /\ e \in Entry
      BY <1>0, <2>2 DEF e, r
    <3>2. line'[r] = a \o Append(b, e) /\ line[r] = a \o b
      BY <2>3
    <3> HIDE DEF a, b
    <3>3. a \o Append(b, e) = Append(a \o b, e)
      BY <3>1, ConcatAppend
    <3> QED
      BY <3>2, <3>3
  <2>5. \A q \in Pipelines : line'[q] = line[q] \/ q = r
    BY <2>1, <2>2 DEF line
  <2> QED
    BY <1>0, <2>4, <2>5, AddLine DEF e, r
<1>3. order' = Append(order, t) /\ calls' = calls /\ ToSet(order') = ToSet(order) \cup {t}
  <2>1. order' = Append(order, t) /\ calls' = calls
    BY DEF Schedule
  <2>2. ToSet(Append(order, t)) = ToSet(order) \cup {t}
    BY <1>0, AppendSet
  <2> QED
    BY <2>1, <2>2
<1>4. /\ Lined(line', order') /\ Sorted(line', order')
      /\ \A u \in Tasks : Holds(line', u) <=> Holds(line, u) \/ u = t
      /\ \A q \in Pipelines : \A i \in 1..Len(line'[q]) :
              \/ i \in 1..Len(line[q]) /\ line'[q][i] = line[q][i]
              \/ line'[q][i].task = t
  BY <1>0, <1>2, <1>3, AddFacts DEF Scheduled
<1>5. calls[t] = 0
  BY <1>0 DEF IInv, CallInv
<1>6. KeptInv'
  BY <1>0, <1>3, <1>4 DEF IInv, KeptInv, Scheduled
<1>7. GateInv'
  BY <1>0, <1>3, <1>4, SchedulerAssumption DEF IInv, GateInv, Scheduled, Schedule, GatedTasks
<1>8. PromptTasksInOrder'
  BY <1>0, <1>3, <1>5, AppendOrder DEF IInv, PromptTasksInOrder
<1>9. CallInv'
  <2>1. calling' = calling /\ cursor' = cursor
    BY DEF Schedule
  <2> QED
    BY <1>3, <1>4, <1>5, <2>1 DEF IInv, CallInv, Scheduled
<1>10. PassInv' /\ QuietInv'
  BY DEF IInv, PassInv, QuietInv, TaskAt, Schedule, threadVars
<1> QED
  BY <1>1, <1>4, <1>6, <1>7, <1>8, <1>9, <1>10, Assembled DEF ListInv

-----------------------------------------------------------------------------
(* The pass.                                                                *)
LEMMA TaskFacts ==
  ASSUME IInv, NEW p \in Pipelines, cursor[p] \in 1..Len(tasks[p])
  PROVE  /\ TaskAt(p) \in Tasks /\ Pipe[TaskAt(p)] = p /\ TaskAt(p) \in Scheduled
         /\ cursor[p] \in 1..Len(line[p]) /\ line[p][cursor[p]] = tasks[p][cursor[p]]
         /\ TaskAt(p) = line[p][cursor[p]].task
<1>1. cursor[p] \in 1..Len(line[p]) /\ line[p][cursor[p]] = tasks[p][cursor[p]]
  BY LineFacts DEF IInv
<1>2. Pipe[line[p][cursor[p]].task] = p /\ line[p][cursor[p]].task \in Scheduled
  BY <1>1 DEF IInv, Lined, Scheduled
<1> QED
  BY <1>1, <1>2, ScheduledType DEF IInv, TaskAt

LEMMA ConcatEmpty ==
  ASSUME NEW S, NEW a \in Seq(S), NEW b \in Seq(S)
  PROVE  (a \o b) \o << >> = a \o b
OBVIOUS

LEMMA DueFacts ==
  ASSUME NEW s \in Seq(Entry)
  PROVE  /\ Due(s) \subseteq Tasks
         /\ \A t \in Due(s) : \E i \in 1..Len(s) : s[i] = [task |-> t, left |-> 0]
<1>1. ASSUME NEW t \in Due(s)
      PROVE  t \in Tasks /\ \E i \in 1..Len(s) : s[i] = [task |-> t, left |-> 0]
  <2>1. PICK i \in 1..Len(s) : s[i].left = 0 /\ t = s[i].task
    BY DEF Due
  <2>2. s[i] \in Entry
    OBVIOUS
  <2> QED
    BY <2>1, <2>2 DEF Entry
<1> QED
  BY <1>1

LEMMA BeginStep ==
  ASSUME IInv, NEW p \in Pipelines, BeginExecute(p)
  PROVE  IInv'
<1>1. /\ tasks' = [tasks EXCEPT ![p] = tasks[p] \o fresh[p]]
      /\ fresh' = [fresh EXCEPT ![p] = << >>] /\ cursor' = [cursor EXCEPT ![p] = 1]
      /\ cursor[p] = 0 /\ ~calling[p]
      /\ UNCHANGED <<calling, threadVars, gameVars, calls, order>>
      /\ owed' = [owed EXCEPT ![p] = Due(tasks[p] \o fresh[p])]
  BY DEF BeginExecute, IInv, PassInv
<1>2. /\ fresh \in [Pipelines -> Seq(Entry)] /\ tasks \in [Pipelines -> Seq(Entry)]
      /\ tasks[p] \o fresh[p] \in Seq(Entry)
  BY ConcatFacts DEF IInv, TypeOK
<1>3. TypeOK'
  <2>1. tasks' \in [Pipelines -> Seq(Entry)] /\ fresh' \in [Pipelines -> Seq(Entry)]
    BY <1>1, <1>2
  <2>2. cursor' \in [Pipelines -> Nat]
    BY <1>1 DEF IInv, TypeOK
  <2>3. \A q \in Pipelines : cursor'[q] <= Len(tasks'[q]) + 1
    <3> TAKE q \in Pipelines
    <3>1. CASE q = p
      BY <1>1, <2>1, <2>2, <3>1, <1>2 DEF IInv, TypeOK
    <3>2. CASE q # p
      BY <1>1, <3>2 DEF IInv, TypeOK
    <3> QED
      BY <3>1, <3>2
  <2>4. owed' \in [Pipelines -> SUBSET Tasks]
    BY <1>1, <1>2, DueFacts DEF IInv, TypeOK
  <2> QED
    BY <1>1, <2>1, <2>2, <2>3, <2>4 DEF IInv, TypeOK, threadVars, gameVars
<1>4. line' = line
  <2> SUFFICES ASSUME NEW q \in Pipelines PROVE tasks'[q] \o fresh'[q] = tasks[q] \o fresh[q]
    BY DEF line
  <2>1. CASE q = p
    <3> DEFINE a == tasks[p]  b == fresh[p]
    <3>1. a \in Seq(Entry) /\ b \in Seq(Entry) /\ tasks'[q] = a \o b /\ fresh'[q] = << >>
      BY <1>1, <1>2, <2>1
    <3> HIDE DEF a, b
    <3>2. tasks'[q] \o fresh'[q] = a \o b
      BY <3>1, ConcatEmpty
    <3> QED
      BY <2>1, <3>2 DEF a, b
  <2>2. CASE q # p
    BY <1>1, <1>2, <2>2
  <2> QED
    BY <2>1, <2>2
<1>5. ListInv'
  BY <1>1, <1>4, SameLine DEF IInv, ListInv
<1>6. CallInv'
  BY <1>1, <1>4 DEF IInv, CallInv, Scheduled
<1>7. PassInv'
  <2> SUFFICES ASSUME NEW q \in Pipelines
               PROVE  /\ calling'[q] => cursor'[q] \in 1..Len(tasks'[q]) /\ calls'[TaskAt(q)'] > 0
                      /\ \A i \in 1..Len(tasks'[q]) :
                           i < cursor'[q] /\ Delay[tasks'[q][i].task] = 0
                             => calls'[tasks'[q][i].task] > 0
    BY DEF PassInv
  <2>1. CASE q = p
    BY <1>1, <2>1 DEF IInv, TypeOK
  <2>2. CASE q # p
    <3>1. tasks'[q] = tasks[q] /\ cursor'[q] = cursor[q] /\ calling'[q] = calling[q] /\ calls' = calls
      BY <1>1, <1>2, <2>2 DEF IInv, TypeOK
    <3> QED
      BY <3>1 DEF IInv, PassInv, TaskAt
  <2> QED
    BY <2>1, <2>2
<1>8. QuietInv'
  <2>1. p = "async" => asyncThread = "running"
    BY DEF BeginExecute, CanExecute
  <2> QED
    BY <1>1, <2>1, PipeType DEF IInv, TypeOK, QuietInv, threadVars
<1> QED
  BY <1>3, <1>5, <1>6, <1>7, <1>8, Assembled

(* The iterator moves, or the pass ends, and nothing is called or erased.   *)
LEMMA MoveSteps ==
  ASSUME IInv, NEW p \in Pipelines, SkipTask(p) \/ KeepTask(p) \/ EndExecute(p)
  PROVE  IInv'
<1>0. calling[p] => cursor[p] \in 1..Len(tasks[p]) /\ calls[TaskAt(p)] > 0
  BY DEF IInv, PassInv
<1>1. /\ UNCHANGED <<fresh, tasks, threadVars, gameVars, calls, owed, order>>
      /\ \/ cursor' = [cursor EXCEPT ![p] = @ + 1] /\ cursor[p] \in 1..Len(tasks[p])
         \/ cursor' = [cursor EXCEPT ![p] = 0]
      /\ calling' = [calling EXCEPT ![p] = FALSE]
  <2>1. CASE SkipTask(p)
    BY <2>1 DEF SkipTask, AtTask, IInv, TypeOK
  <2>2. CASE KeepTask(p)
    BY <1>0, <2>2 DEF KeepTask
  <2>3. CASE EndExecute(p)
    <3>1. Len(tasks[p]) \in Nat
      BY DEF IInv, TypeOK
    <3>2. ~calling[p]
      BY <1>0, <2>3, <3>1 DEF EndExecute
    <3> QED
      BY <2>3, <3>2 DEF EndExecute, IInv, TypeOK
  <2> QED
    BY <2>1, <2>2, <2>3
<1>2. TypeOK'
  <2>1. cursor' \in [Pipelines -> Nat]
    BY <1>1 DEF IInv, TypeOK
  <2>2. \A q \in Pipelines : cursor'[q] <= Len(tasks'[q]) + 1
    <3> TAKE q \in Pipelines
    <3>1. Len(tasks[q]) \in Nat /\ tasks' = tasks /\ cursor[q] <= Len(tasks[q]) + 1
      BY <1>1 DEF IInv, TypeOK
    <3>2. CASE q = p
      BY <1>1, <3>1, <3>2 DEF IInv, TypeOK
    <3>3. CASE q # p
      BY <1>1, <3>1, <3>3 DEF IInv, TypeOK
    <3> QED
      BY <3>2, <3>3
  <2>3. calling' \in [Pipelines -> BOOLEAN]
    BY <1>1 DEF IInv, TypeOK
  <2> QED
    BY <1>1, <2>1, <2>2, <2>3 DEF IInv, TypeOK, threadVars, gameVars
<1>3. line' = line
  BY <1>1 DEF line
<1>4. ListInv'
  BY <1>1, <1>3, SameLine DEF IInv, ListInv
<1>5. CallInv'
  <2>1. ASSUME NEW i \in 1..Len(line[p]), Kind[line[p][i].task] = "once", calls[line[p][i].task] > 0
        PROVE  FALSE
    <3>1. calling[p] /\ cursor[p] = i
      BY <2>1 DEF IInv, CallInv
    <3>2. Kind[TaskAt(p)] = "once"
      BY <1>0, <2>1, <3>1, TaskFacts
    <3>3. ~SkipTask(p) /\ ~KeepTask(p)
      BY <3>1, <3>2 DEF SkipTask, AtTask, KeepTask
    <3>4. EndExecute(p) /\ Len(tasks[p]) \in Nat
      BY <3>3 DEF IInv, TypeOK
    <3> QED
      BY <1>0, <3>1, <3>4 DEF EndExecute
  <2>2. \A q \in Pipelines : q # p => calling'[q] = calling[q] /\ cursor'[q] = cursor[q]
    BY <1>1 DEF IInv, TypeOK
  <2> QED
    BY <1>1, <1>3, <2>1, <2>2 DEF IInv, CallInv, Scheduled
<1>6. PassInv'
  <2> SUFFICES ASSUME NEW q \in Pipelines
               PROVE  /\ calling'[q] => cursor'[q] \in 1..Len(tasks'[q]) /\ calls'[TaskAt(q)'] > 0
                      /\ \A i \in 1..Len(tasks'[q]) :
                           i < cursor'[q] /\ Delay[tasks'[q][i].task] = 0
                             => calls'[tasks'[q][i].task] > 0
    BY DEF PassInv
  <2>1. CASE q = p
    <3>1. ~calling'[q]
      BY <1>1, <2>1 DEF IInv, TypeOK
    <3>2. ASSUME NEW i \in 1..Len(tasks[p]), i < cursor'[p], Delay[tasks[p][i].task] = 0
          PROVE  calls[tasks[p][i].task] > 0
      <4>1. cursor[p] \in Nat /\ Len(tasks[p]) \in Nat
        BY DEF IInv, TypeOK
      <4>2. cursor'[p] = cursor[p] + 1 /\ cursor[p] \in 1..Len(tasks[p])
        BY <1>1, <3>2, <4>1 DEF IInv, TypeOK
      <4>3. CASE i < cursor[p]
        BY <3>2, <4>3 DEF IInv, PassInv
      <4>4. CASE i = cursor[p]
        <5>1. Delay[TaskAt(p)] = 0
          BY <3>2, <4>4 DEF TaskAt
        <5>2. TaskAt(p) \in Tasks /\ tasks[p][cursor[p]] \in Entry
          BY <4>2, TaskFacts DEF IInv, TypeOK
        <5>3. tasks[p][cursor[p]].left = 0
          BY <4>2, <5>1, TaskFacts DEF IInv, Lined
        <5>4. ~SkipTask(p)
          BY <5>3 DEF SkipTask
        <5>5. ~EndExecute(p)
          BY <4>1, <4>2 DEF EndExecute
        <5>6. calling[p]
          BY <5>4, <5>5 DEF KeepTask
        <5> QED
          BY <1>0, <4>4, <5>6 DEF TaskAt
      <4> QED
        BY <3>2, <4>1, <4>2, <4>3, <4>4
    <3> QED
      BY <1>1, <2>1, <3>1, <3>2
  <2>2. CASE q # p
    <3>1. tasks'[q] = tasks[q] /\ cursor'[q] = cursor[q] /\ calling'[q] = calling[q] /\ calls' = calls
      BY <1>1, <2>2 DEF IInv, TypeOK
    <3> QED
      BY <3>1 DEF IInv, PassInv, TaskAt
  <2> QED
    BY <2>1, <2>2
<1>7. QuietInv'
  <2>1. ASSUME p = "async", asyncThread # "running" PROVE cursor'["async"] = 0 /\ ~calling'["async"]
    <3>1. cursor["async"] = 0 /\ ~calling["async"]
      BY <2>1 DEF IInv, QuietInv
    <3> QED
      BY <1>1, <2>1, <3>1, PipeType DEF IInv, TypeOK
  <2>2. p # "async" => cursor'["async"] = cursor["async"] /\ calling'["async"] = calling["async"]
    BY <1>1, PipeType DEF IInv, TypeOK
  <2> QED
    BY <1>1, <2>1, <2>2 DEF IInv, QuietInv, threadVars
<1> QED
  BY <1>2, <1>4, <1>5, <1>6, <1>7, Assembled

(* The tasks in line are the same, only what is left of their delays is not.*)
LEMMA AgedLine ==
  ASSUME IInv, TypeOK', order' = order,
         \A q \in Pipelines :
           /\ Len(tasks'[q]) = Len(tasks[q]) /\ Len(fresh'[q]) = Len(fresh[q])
           /\ \A i \in 1..Len(tasks[q]) :
                /\ tasks'[q][i].task = tasks[q][i].task
                /\ \/ tasks'[q][i].left <= tasks[q][i].left
                   \/ tasks'[q][i].left = Delay[tasks[q][i].task]
           /\ \A i \in 1..Len(fresh[q]) :
                /\ fresh'[q][i].task = fresh[q][i].task
                /\ fresh'[q][i].left <= fresh[q][i].left
  PROVE  /\ Lined(line', order') /\ Sorted(line', order')
         /\ \A u \in Tasks : Holds(line', u) <=> Holds(line, u)
         /\ \A q \in Pipelines : /\ Len(line'[q]) = Len(line[q])
                                  /\ \A i \in 1..Len(line[q]) : line'[q][i].task = line[q][i].task
<1>1. line \in Lines /\ line' \in Lines
  <2>1. line \in Lines
    BY LineFacts DEF IInv
  <2>2. line' \in Lines
    BY ConcatFacts DEF TypeOK, line, Lines
  <2> QED
    BY <2>1, <2>2
<1>2. ASSUME NEW q \in Pipelines
      PROVE  /\ Len(line'[q]) = Len(line[q])
             /\ \A i \in 1..Len(line[q]) :
                  /\ line'[q][i].task = line[q][i].task
                  /\ \/ line'[q][i].left <= line[q][i].left
                     \/ line'[q][i].left = Delay[line[q][i].task]
  <2> DEFINE a == tasks[q]  b == fresh[q]  c == tasks'[q]  d == fresh'[q]
  <2>1. /\ a \in Seq(Entry) /\ b \in Seq(Entry) /\ c \in Seq(Entry) /\ d \in Seq(Entry)
        /\ line[q] = a \o b /\ line'[q] = c \o d
    BY DEF IInv, TypeOK, line
  <2>2. /\ Len(c) = Len(a) /\ Len(d) = Len(b)
        /\ \A i \in 1..Len(a) : /\ c[i].task = a[i].task
                                /\ c[i].left <= a[i].left \/ c[i].left = Delay[a[i].task]
        /\ \A i \in 1..Len(b) : /\ d[i].task = b[i].task /\ d[i].left <= b[i].left
    OBVIOUS
  <2> HIDE DEF a, b, c, d
  <2>3. Len(a) \in Nat /\ Len(b) \in Nat
    BY <2>1
  <2>4. /\ Len(a \o b) = Len(a) + Len(b)
        /\ \A i \in 1..Len(a) : (a \o b)[i] = a[i]
        /\ \A i \in 1..Len(b) : (a \o b)[Len(a) + i] = b[i]
    BY <2>1, ConcatFacts
  <2>6. /\ Len(c \o d) = Len(a) + Len(b)
        /\ \A i \in 1..Len(a) : (c \o d)[i] = c[i]
        /\ \A i \in 1..Len(b) : (c \o d)[Len(a) + i] = d[i]
    <3>1. /\ Len(c \o d) = Len(c) + Len(d)
          /\ \A i \in 1..Len(c) : (c \o d)[i] = c[i]
          /\ \A i \in 1..Len(d) : (c \o d)[Len(c) + i] = d[i]
      BY <2>1, ConcatFacts
    <3>2. Len(c) = Len(a) /\ Len(d) = Len(b)
      BY <2>2
    <3> QED
      BY <3>1, <3>2, Zenon
  <2>5. ASSUME NEW i \in 1..(Len(a) + Len(b))
        PROVE  /\ (c \o d)[i].task = (a \o b)[i].task
               /\ \/ (c \o d)[i].left <= (a \o b)[i].left
                  \/ (c \o d)[i].left = Delay[(a \o b)[i].task]
    <3>1. CASE i \in 1..Len(a)
      <4>1. (a \o b)[i] = a[i] /\ (c \o d)[i] = c[i]
        BY <2>4, <2>6, <3>1, Zenon
      <4> QED
        BY <2>2, <3>1, <4>1, Zenon
    <3>2. CASE i \notin 1..Len(a)
      <4>1. PICK k \in 1..Len(b) : i = Len(a) + k
        <5>1. i - Len(a) \in 1..Len(b) /\ i = Len(a) + (i - Len(a))
          BY <2>3, <3>2
        <5> QED
          BY <5>1
      <4>2. (a \o b)[i] = b[k] /\ (c \o d)[i] = d[k]
        BY <2>4, <2>6, <4>1, Zenon
      <4> QED
        BY <2>2, <4>1, <4>2, Zenon
    <3> QED
      BY <3>1, <3>2, Zenon
  <2> DEFINE x == a \o b  y == c \o d
  <2>7. line[q] = x /\ line'[q] = y
    BY <2>1
  <2>8. Len(x) = Len(a) + Len(b) /\ Len(y) = Len(x)
    BY <2>4, <2>6
  <2> HIDE DEF x
  <2>9. \A i \in 1..Len(x) : /\ y[i].task = x[i].task
                             /\ y[i].left <= x[i].left \/ y[i].left = Delay[x[i].task]
    BY <2>5, <2>8 DEF x
  <2> HIDE DEF y
  <2> QED
    BY <2>7, <2>8, <2>9
<1>3. Lined(line, order) /\ Sorted(line, order)
  BY DEF IInv
<1>4. /\ Lined(line', order) /\ Sorted(line', order)
      /\ \A u \in Tasks : Holds(line', u) <=> Holds(line, u)
  BY <1>1, <1>2, <1>3, SameFacts
<1> QED
  BY <1>2, <1>4

LEMMA OlderFacts ==
  ASSUME NEW s \in Seq(Entry)
  PROVE  /\ Older(s) \in Seq(Entry) /\ Len(Older(s)) = Len(s)
         /\ \A i \in 1..Len(s) : Older(s)[i].task = s[i].task /\ Older(s)[i].left <= s[i].left
<1>1. ASSUME NEW i \in 1..Len(s)
      PROVE  /\ [s[i] EXCEPT !.left = IF @ > 0 THEN @ - 1 ELSE 0] \in Entry
             /\ [s[i] EXCEPT !.left = IF @ > 0 THEN @ - 1 ELSE 0].task = s[i].task
             /\ [s[i] EXCEPT !.left = IF @ > 0 THEN @ - 1 ELSE 0].left <= s[i].left
  <2>1. s[i] \in Entry
    OBVIOUS
  <2> QED
    BY <2>1 DEF Entry
<1>2. Len(s) \in Nat
  OBVIOUS
<1>3. /\ Older(s) \in [1..Len(s) -> Entry]
      /\ \A i \in 1..Len(s) : Older(s)[i] = [s[i] EXCEPT !.left = IF @ > 0 THEN @ - 1 ELSE 0]
  BY <1>1, Zenon DEF Older
<1>4. Older(s) \in Seq(Entry) /\ Len(Older(s)) = Len(s)
  BY <1>2, <1>3
<1> QED
  BY <1>1, <1>3, <1>4

LEMMA TickStep ==
  ASSUME IInv, Tick
  PROVE  IInv'
<1>1. /\ tasks' = [q \in Pipelines |-> Older(tasks[q])] /\ fresh' = [q \in Pipelines |-> Older(fresh[q])]
      /\ UNCHANGED <<cursor, calling, threadVars, gameVars, calls, owed, order>>
  BY DEF Tick
<1>2. ASSUME NEW q \in Pipelines
      PROVE  /\ tasks'[q] \in Seq(Entry) /\ fresh'[q] \in Seq(Entry)
             /\ Len(tasks'[q]) = Len(tasks[q]) /\ Len(fresh'[q]) = Len(fresh[q])
             /\ \A i \in 1..Len(tasks[q]) : /\ tasks'[q][i].task = tasks[q][i].task
                                            /\ tasks'[q][i].left <= tasks[q][i].left
             /\ \A i \in 1..Len(fresh[q]) : /\ fresh'[q][i].task = fresh[q][i].task
                                            /\ fresh'[q][i].left <= fresh[q][i].left
  BY <1>1, OlderFacts DEF IInv, TypeOK
<1>3. TypeOK'
  <2>1. tasks' \in [Pipelines -> Seq(Entry)] /\ fresh' \in [Pipelines -> Seq(Entry)]
    BY <1>1, <1>2
  <2> QED
    BY <1>1, <1>2, <2>1 DEF IInv, TypeOK, threadVars, gameVars
<1>4. /\ Lined(line', order') /\ Sorted(line', order')
      /\ \A u \in Tasks : Holds(line', u) <=> Holds(line, u)
      /\ \A q \in Pipelines : /\ Len(line'[q]) = Len(line[q])
                               /\ \A i \in 1..Len(line[q]) : line'[q][i].task = line[q][i].task
  BY <1>1, <1>2, <1>3, AgedLine
<1>5. KeptInv' /\ GateInv' /\ PromptTasksInOrder'
  BY <1>1, <1>4, ScheduledType DEF IInv, KeptInv, GateInv, PromptTasksInOrder, Scheduled
<1>6. CallInv'
  BY <1>1, <1>4 DEF IInv, CallInv, Scheduled
<1>7. PassInv'
  <2> SUFFICES ASSUME NEW q \in Pipelines
               PROVE  /\ calling'[q] => cursor'[q] \in 1..Len(tasks'[q]) /\ calls'[TaskAt(q)'] > 0
                      /\ \A i \in 1..Len(tasks'[q]) :
                           i < cursor'[q] /\ Delay[tasks'[q][i].task] = 0
                             => calls'[tasks'[q][i].task] > 0
    BY DEF PassInv
  <2>1. /\ Len(tasks'[q]) = Len(tasks[q]) /\ calling' = calling /\ cursor' = cursor /\ calls' = calls
        /\ \A i \in 1..Len(tasks[q]) : tasks'[q][i].task = tasks[q][i].task
    BY <1>1, <1>2
  <2>2. /\ calling[q] => cursor[q] \in 1..Len(tasks[q]) /\ calls[tasks[q][cursor[q]].task] > 0
        /\ \A i \in 1..Len(tasks[q]) :
             i < cursor[q] /\ Delay[tasks[q][i].task] = 0 => calls[tasks[q][i].task] > 0
    BY DEF IInv, PassInv, TaskAt
  <2> QED
    BY <2>1, <2>2 DEF TaskAt
<1>8. QuietInv'
  BY <1>1 DEF IInv, QuietInv, threadVars
<1> QED
  BY <1>3, <1>4, <1>5, <1>6, <1>7, <1>8, Assembled DEF ListInv

(* A task is called.                                                        *)
LEMMA CallStep ==
  ASSUME IInv, NEW p \in Pipelines, CallTask(p)
  PROVE  IInv'
<1> DEFINE k == cursor[p]  t == TaskAt(p)
<1>0. /\ k \in 1..Len(tasks[p]) /\ ~calling[p] /\ TypeOK
      /\ t \in Tasks /\ Pipe[t] = p /\ t \in Scheduled
      /\ k \in 1..Len(line[p]) /\ t = line[p][k].task /\ t = tasks[p][k].task
      /\ Delay[t] \in Nat /\ line \in Lines /\ order \in Seq(Tasks)
      /\ Lined(line, order) /\ Sorted(line, order)
  BY TaskFacts, PipeType, LineFacts, ScheduledType DEF CallTask, AtTask, IInv, TaskAt
<1>1. /\ tasks' = [tasks EXCEPT ![p][k].left = Delay[t]]
      /\ calling' = [calling EXCEPT ![p] = TRUE]
      /\ calls' = [calls EXCEPT ![t] = IF @ < 2 THEN @ + 1 ELSE @]
      /\ UNCHANGED <<fresh, cursor, threadVars, gameVars, order>>
      /\ owed' = [owed EXCEPT ![p] = @ \ {t}]
  BY DEF CallTask
<1> HIDE DEF k, t
<1>2. ASSUME NEW q \in Pipelines
      PROVE  /\ tasks'[q] \in Seq(Entry) /\ Len(tasks'[q]) = Len(tasks[q])
             /\ \A i \in 1..Len(tasks[q]) :
                  /\ tasks'[q][i].task = tasks[q][i].task
                  /\ \/ tasks'[q][i].left <= tasks[q][i].left
                     \/ tasks'[q][i].left = Delay[tasks[q][i].task]
  <2> DEFINE a == tasks[q]  b == tasks'[q]
  <2>1. tasks \in [Pipelines -> Seq(Entry)] /\ a \in Seq(Entry)
    BY <1>0 DEF TypeOK
  <2>2. CASE q = p
    <3>1. b = [a EXCEPT ![k].left = Delay[t]]
      BY <1>1, <2>1, <2>2
    <3>2. k \in 1..Len(a) /\ t = a[k].task
      BY <1>0, <2>2
    <3> HIDE DEF a, b
    <3>3. a[k] \in Entry
      BY <2>1, <3>2
    <3>4. [a[k] EXCEPT !.left = Delay[t]] \in Entry
      BY <1>0, <3>3 DEF Entry
    <3>5. b \in Seq(Entry) /\ Len(b) = Len(a)
      BY <2>1, <3>1, <3>2, <3>4
    <3>6. ASSUME NEW i \in 1..Len(a)
          PROVE  /\ b[i].task = a[i].task
                 /\ b[i].left <= a[i].left \/ b[i].left = Delay[a[i].task]
      <4>0. a[i] \in Entry
        BY <2>1
      <4>1. a[i].left <= a[i].left
        BY <4>0 DEF Entry
      <4>2. CASE i = k
        BY <1>0, <2>1, <3>1, <3>2, <3>3, <4>2 DEF Entry
      <4>3. CASE i # k
        BY <2>1, <3>1, <4>1, <4>3
      <4> QED
        BY <4>2, <4>3
    <3> QED
      BY <3>5, <3>6 DEF a, b
  <2>3. CASE q # p
    <3>1. b = a
      BY <1>1, <2>1, <2>3
    <3> HIDE DEF a, b
    <3>0. \A i \in 1..Len(a) : a[i] \in Entry
      BY <2>1
    <3>2. \A i \in 1..Len(a) : a[i].left <= a[i].left
      BY <3>0 DEF Entry
    <3> QED
      BY <2>1, <3>1, <3>2 DEF a, b
  <2> QED
    BY <2>2, <2>3
<1>3. /\ calls' \in [Tasks -> 0..2] /\ calls'[t] > 0 /\ calls \in [Tasks -> 0..2]
      /\ calls[t] = 0 => calls'[t] = 1
      /\ \A u \in Tasks : u # t => calls'[u] = calls[u]
      /\ \A u \in Tasks : calls[u] > 0 => calls'[u] > 0
  BY <1>0, <1>1 DEF TypeOK
<1>4. /\ calling' \in [Pipelines -> BOOLEAN] /\ calling'[p]
      /\ \A q \in Pipelines : q # p => calling'[q] = calling[q]
      /\ \A q \in Pipelines : calling[q] => calling'[q]
  BY <1>0, <1>1 DEF TypeOK
<1>5. TypeOK'
  <2>1. tasks' \in [Pipelines -> Seq(Entry)]
    BY <1>0, <1>1, <1>2 DEF TypeOK
  <2>2. \A q \in Pipelines : cursor'[q] <= Len(tasks'[q]) + 1
    BY <1>0, <1>1, <1>2 DEF TypeOK
  <2> QED
    BY <1>0, <1>1, <1>3, <1>4, <2>1, <2>2 DEF TypeOK, threadVars, gameVars
<1>6. /\ Lined(line', order') /\ Sorted(line', order')
      /\ \A u \in Tasks : Holds(line', u) <=> Holds(line, u)
      /\ \A q \in Pipelines : /\ Len(line'[q]) = Len(line[q])
                              /\ \A i \in 1..Len(line[q]) : line'[q][i].task = line[q][i].task
  <2>1. \A q \in Pipelines : /\ Len(fresh'[q]) = Len(fresh[q])
                             /\ \A i \in 1..Len(fresh[q]) : /\ fresh'[q][i].task = fresh[q][i].task
                                                            /\ fresh'[q][i].left <= fresh[q][i].left
    <3>1. \A q \in Pipelines : \A i \in 1..Len(fresh[q]) : fresh[q][i] \in Entry
      BY <1>0 DEF TypeOK
    <3> QED
      BY <1>1, <3>1 DEF Entry
  <2> QED
    BY <1>1, <1>2, <1>5, <2>1, AgedLine
<1>7. KeptInv' /\ GateInv'
  <2>1. Scheduled' = Scheduled /\ Scheduled \subseteq Tasks
    BY <1>0, <1>1, ScheduledType DEF Scheduled
  <2>2. KeptInv'
    BY <1>3, <1>6, <2>1 DEF IInv, KeptInv
  <2>3. GateInv'
    BY <1>6, <2>1 DEF IInv, GateInv
  <2> QED
    BY <2>2, <2>3
<1>8. PromptTasksInOrder'
  <2> SUFFICES ASSUME NEW i \in 1..Len(order), NEW j \in 1..Len(order), i < j,
                      Pipe[order[i]] = Pipe[order[j]], Delay[order[i]] = 0,
                      calls'[order[j]] > 0, calls'[order[i]] = 0
               PROVE  FALSE
    <3>1. \A i \in 1..Len(order) : order[i] \in Tasks
      BY <1>0
    <3> QED
      BY <1>1, <1>3, <3>1 DEF PromptTasksInOrder
  <2>1. order[i] \in Tasks /\ order[j] \in Tasks /\ order[i] \in Scheduled
    BY <1>0 DEF Scheduled, ToSet
  <2>2. calls[order[i]] = 0 /\ order[i] # t
    BY <1>3, <2>1
  <2>3. order[j] = t
    <3>1. ASSUME order[j] # t PROVE FALSE
      <4>1. calls[order[j]] > 0
        BY <1>3, <2>1, <3>1
      <4> QED
        BY <2>2, <4>1 DEF IInv, PromptTasksInOrder
    <3> QED
      BY <3>1
  <2>4. PICK m \in 1..Len(line[p]) : line[p][m].task = order[i]
    <3>1. Pipe[order[i]] = p
      BY <1>0, <2>3
    <3>2. Holds(line, order[i])
      BY <2>1, <2>2 DEF IInv, KeptInv
    <3> QED
      BY <3>1, <3>2 DEF Holds
  <2>5. m \in Nat /\ k \in Nat /\ i \in Nat /\ j \in Nat /\ Len(tasks[p]) \in Nat
    BY <1>0 DEF Lines, TypeOK
  <2>6. ~(k < m)
    <3>1. ASSUME k < m PROVE j < i
      BY <1>0, <2>3, <2>4, <3>1 DEF Sorted
    <3> QED
      BY <2>5, <3>1
  <2>7. m # k
    BY <1>0, <2>2, <2>4
  <2>8. m < k /\ m \in 1..Len(tasks[p])
    BY <1>0, <2>5, <2>6, <2>7
  <2>9. tasks[p][m].task = order[i]
    BY <1>0, <2>4, <2>8, LineFacts
  <2> QED
    BY <2>2, <2>8, <2>9 DEF IInv, PassInv, k
<1>9. CallInv'
  <2>1. Scheduled' = Scheduled /\ cursor' = cursor
    BY <1>1 DEF Scheduled
  <2>2. Kind[t] = "once" => calls[t] = 0
    <3>1. ~(Kind[t] = "once" /\ calls[t] > 0)
      BY <1>0 DEF IInv, CallInv
    <3>2. calls[t] \in 0..2
      BY <1>0, <1>3
    <3> QED
      BY <3>1, <3>2
  <2>3. \A u \in Tasks : /\ u \notin Scheduled => calls'[u] = 0
                         /\ Kind[u] = "once" => calls'[u] <= 1
    <3> TAKE u \in Tasks
    <3>1. CASE u = t
      BY <1>0, <1>3, <2>2, <3>1
    <3>2. CASE u # t
      BY <1>3, <3>2 DEF IInv, CallInv
    <3> QED
      BY <3>1, <3>2
  <2>4. ASSUME NEW q \in Pipelines, NEW i \in 1..Len(line'[q]),
               Kind[line'[q][i].task] = "once", calls'[line'[q][i].task] > 0
        PROVE  calling'[q] /\ cursor'[q] = i
    <3>1. i \in 1..Len(line[q]) /\ line'[q][i].task = line[q][i].task
      BY <1>6
    <3>2. line[q][i].task \in Tasks /\ Pipe[line[q][i].task] = q
      <4>1. line[q][i] \in Entry
        BY <1>0, <3>1 DEF Lines
      <4> QED
        BY <1>0, <3>1, <4>1 DEF Entry, Lined
    <3>3. CASE line[q][i].task = t
      <4>1. q = p /\ i = k
        <5>1. q = p
          BY <1>0, <3>2, <3>3
        <5>2. i \in 1..Len(line[p]) /\ line[p][i].task = line[p][k].task
          BY <1>0, <3>1, <3>3, <5>1
        <5>3. i = k
          BY <1>0, <5>2, SortedDistinct
        <5> QED
          BY <5>1, <5>3
      <4> QED
        BY <1>4, <2>1, <4>1 DEF k
    <3>4. CASE line[q][i].task # t
      <4>1. calls[line[q][i].task] > 0 /\ Kind[line[q][i].task] = "once"
        BY <1>3, <2>4, <3>1, <3>2, <3>4
      <4>2. calling[q] /\ cursor[q] = i
        BY <3>1, <4>1 DEF IInv, CallInv
      <4> QED
        BY <1>4, <2>1, <4>2
    <3> QED
      BY <3>3, <3>4
  <2> QED
    BY <2>1, <2>3, <2>4 DEF CallInv
<1>10. PassInv'
  <2> SUFFICES ASSUME NEW q \in Pipelines
               PROVE  /\ calling'[q] => cursor'[q] \in 1..Len(tasks'[q]) /\ calls'[TaskAt(q)'] > 0
                      /\ \A i \in 1..Len(tasks'[q]) :
                           i < cursor'[q] /\ Delay[tasks'[q][i].task] = 0
                             => calls'[tasks'[q][i].task] > 0
    BY DEF PassInv
  <2>1. /\ Len(tasks'[q]) = Len(tasks[q]) /\ cursor' = cursor
        /\ \A i \in 1..Len(tasks[q]) : tasks'[q][i].task = tasks[q][i].task /\ tasks[q][i].task \in Tasks
    <3>1. \A i \in 1..Len(tasks[q]) : tasks[q][i] \in Entry
      BY <1>0 DEF TypeOK
    <3>2. \A i \in 1..Len(tasks[q]) : tasks[q][i].task \in Tasks
      BY <3>1 DEF Entry
    <3> QED
      BY <1>1, <1>2, <3>2
  <2>2. /\ calling[q] => cursor[q] \in 1..Len(tasks[q]) /\ calls[tasks[q][cursor[q]].task] > 0
        /\ \A i \in 1..Len(tasks[q]) :
             i < cursor[q] /\ Delay[tasks[q][i].task] = 0 => calls[tasks[q][i].task] > 0
    BY DEF IInv, PassInv, TaskAt
  <2>3. \A i \in 1..Len(tasks'[q]) :
           i < cursor'[q] /\ Delay[tasks'[q][i].task] = 0 => calls'[tasks'[q][i].task] > 0
    BY <1>3, <2>1, <2>2
  <2>4. ASSUME calling'[q] PROVE cursor'[q] \in 1..Len(tasks'[q]) /\ calls'[TaskAt(q)'] > 0
    <3>1. CASE q = p
      BY <1>0, <1>3, <2>1, <3>1 DEF k, TaskAt
    <3>2. CASE q # p
      BY <1>3, <1>4, <2>1, <2>2, <2>4, <3>2 DEF TaskAt
    <3> QED
      BY <3>1, <3>2
  <2> QED
    BY <2>3, <2>4
<1>11. QuietInv'
  <2>1. p = "async" => asyncThread = "running"
    BY <1>0 DEF IInv, QuietInv, k
  <2>2. p # "async" => calling'["async"] = calling["async"]
    BY <1>4, PipeType
  <2> QED
    BY <1>1, <2>1, <2>2 DEF IInv, QuietInv, threadVars
<1> QED
  BY <1>5, <1>6, <1>7, <1>8, <1>9, <1>10, <1>11, Assembled DEF ListInv

(* A task is erased: the line closes over it, and behind the iterator       *)
(* nothing moves.  What depends on the end of the line comes after it.      *)
LEMMA EraseTask ==
  ASSUME IInv, NEW p \in Pipelines, EndTask(p)
  PROVE  /\ TaskAt(p) \in Tasks /\ calls[TaskAt(p)] > 0 /\ Kind[TaskAt(p)] # "loop"
         /\ Holds(line, TaskAt(p)) /\ TaskAt(p) \in Scheduled
         /\ calling[p] /\ cursor[p] \in 1..Len(line[p]) /\ line[p][cursor[p]].task = TaskAt(p)
         /\ tasks' \in Lines
         /\ \A q \in Pipelines : tasks'[q] \o fresh[q] = Cut(line, p, cursor[p])[q]
         /\ \A q \in Pipelines : cursor[q] <= Len(tasks'[q]) + 1
         /\ PassInv' /\ QuietInv'
<1> DEFINE k == cursor[p]  t == TaskAt(p)
<1>0. /\ k \in 1..Len(tasks[p]) /\ calls[t] > 0 /\ TypeOK /\ calling[p]
      /\ t \in Tasks /\ Pipe[t] = p /\ t \in Scheduled
      /\ k \in 1..Len(line[p]) /\ t = line[p][k].task
      /\ line \in Lines /\ Lined(line, order) /\ Sorted(line, order)
  BY TaskFacts, LineFacts DEF EndTask, IInv, PassInv
<1>1. /\ tasks' = [tasks EXCEPT ![p] = RemoveAt(tasks[p], k)]
      /\ calling' = [calling EXCEPT ![p] = FALSE]
      /\ UNCHANGED <<cursor, threadVars, gameVars, calls>>
      /\ Kind[t] # "loop"
  BY DEF EndTask
<1>2. Holds(line, t)
  BY <1>0 DEF Holds
<1> HIDE DEF k, t
<1>3. /\ tasks \in [Pipelines -> Seq(Entry)] /\ fresh \in [Pipelines -> Seq(Entry)]
      /\ tasks[p] \in Seq(Entry) /\ fresh[p] \in Seq(Entry) /\ Len(tasks[p]) \in Nat
  BY <1>0 DEF TypeOK
<1>4. /\ RemoveAt(tasks[p], k) \in Seq(Entry)
      /\ Len(RemoveAt(tasks[p], k)) = Len(tasks[p]) - 1
      /\ \A i \in 1..(Len(tasks[p]) - 1) :
           RemoveAt(tasks[p], k)[i] = tasks[p][IF i < k THEN i ELSE i + 1]
  <2> DEFINE a == tasks[p]
  <2>1. a \in Seq(Entry) /\ k \in 1..Len(a)
    BY <1>0, <1>3
  <2> HIDE DEF a
  <2>2. /\ RemoveAt(a, k) \in Seq(Entry) /\ Len(RemoveAt(a, k)) = Len(a) - 1
        /\ \A i \in 1..(Len(a) - 1) : RemoveAt(a, k)[i] = a[IF i < k THEN i ELSE i + 1]
    BY <2>1, RemoveAtFacts
  <2> QED
    BY <2>2 DEF a
<1>5. /\ tasks'[p] = RemoveAt(tasks[p], k) /\ tasks' \in Lines
      /\ \A q \in Pipelines : q # p => tasks'[q] = tasks[q]
  BY <1>1, <1>3, <1>4 DEF Lines
<1>6. ASSUME NEW q \in Pipelines
      PROVE  tasks'[q] \o fresh[q] = Cut(line, p, k)[q]
  <2>1. CASE q = p
    <3> DEFINE a == tasks[p]  b == fresh[p]
    <3>1. a \in Seq(Entry) /\ b \in Seq(Entry) /\ k \in 1..Len(a) /\ line[p] = a \o b
      BY <1>0, <1>3 DEF line
    <3>2. tasks'[q] \o fresh[q] = RemoveAt(a, k) \o b
      BY <1>5, <2>1
    <3>3. Cut(line, p, k)[q] = RemoveAt(line[p], k)
      BY <1>0, <2>1 DEF Cut, Lines
    <3> HIDE DEF a, b
    <3>4. RemoveAt(a, k) \o b = RemoveAt(a \o b, k)
      BY <3>1, ConcatRemove
    <3> QED
      BY <3>1, <3>2, <3>3, <3>4
  <2>2. CASE q # p
    <3>1. tasks'[q] = tasks[q] /\ line[q] = tasks[q] \o fresh[q]
      BY <1>5, <2>2 DEF line
    <3>2. Cut(line, p, k)[q] = line[q]
      BY <1>0, <2>2 DEF Cut, Lines
    <3> QED
      BY <3>1, <3>2, Zenon
  <2> QED
    BY <2>1, <2>2
<1>7. \A q \in Pipelines : cursor[q] <= Len(tasks'[q]) + 1
  <2> TAKE q \in Pipelines
  <2>1. CASE q = p
    BY <1>0, <1>3, <1>4, <1>5, <2>1 DEF k
  <2>2. CASE q # p
    BY <1>0, <1>5, <2>2 DEF TypeOK
  <2> QED
    BY <2>1, <2>2
<1>8. PassInv'
  <2> SUFFICES ASSUME NEW q \in Pipelines
               PROVE  /\ calling'[q] => cursor'[q] \in 1..Len(tasks'[q]) /\ calls'[TaskAt(q)'] > 0
                      /\ \A i \in 1..Len(tasks'[q]) :
                           i < cursor'[q] /\ Delay[tasks'[q][i].task] = 0
                             => calls'[tasks'[q][i].task] > 0
    BY DEF PassInv
  <2>1. CASE q = p
    <3>1. ~calling'[q]
      BY <1>0, <1>1, <2>1 DEF TypeOK
    <3>2. ASSUME NEW i \in 1..Len(tasks'[p]), i < k
          PROVE  i \in 1..Len(tasks[p]) /\ tasks'[p][i] = tasks[p][i]
      <4>1. i \in 1..(Len(tasks[p]) - 1)
        BY <1>3, <1>4, <1>5
      <4>2. i \in 1..Len(tasks[p])
        BY <1>3, <4>1
      <4>3. RemoveAt(tasks[p], k)[i] = tasks[p][IF i < k THEN i ELSE i + 1]
        BY <1>4, <4>1
      <4> QED
        BY <1>5, <3>2, <4>2, <4>3
    <3>3. cursor'[p] = k /\ calls' = calls
      BY <1>1 DEF k
    <3> QED
      BY <2>1, <3>1, <3>2, <3>3 DEF IInv, PassInv, k
  <2>2. CASE q # p
    <3>1. tasks'[q] = tasks[q] /\ cursor'[q] = cursor[q] /\ calling'[q] = calling[q] /\ calls' = calls
      BY <1>0, <1>1, <1>5, <2>2 DEF TypeOK
    <3> QED
      BY <3>1 DEF IInv, PassInv, TaskAt
  <2> QED
    BY <2>1, <2>2
<1>9. QuietInv'
  <2>1. calling["async"] \/ ~calling'["async"]
    BY <1>0, <1>1, PipeType DEF TypeOK
  <2> QED
    BY <1>1, <2>1 DEF IInv, QuietInv, threadVars
<1> QED
  BY <1>0, <1>1, <1>2, <1>5, <1>6, <1>7, <1>8, <1>9 DEF k, t

LEMMA EndStep ==
  ASSUME IInv, NEW p \in Pipelines, EndTask(p)
  PROVE  IInv'
<1> DEFINE k == cursor[p]  t == TaskAt(p)  M == Cut(line, p, k)
<1>0. /\ t \in Tasks /\ calls[t] > 0 /\ Kind[t] # "loop" /\ Holds(line, t) /\ t \in Scheduled
      /\ calling[p] /\ k \in 1..Len(line[p]) /\ line[p][k].task = t
      /\ tasks' \in Lines
      /\ \A q \in Pipelines : tasks'[q] \o fresh[q] = M[q]
      /\ \A q \in Pipelines : cursor[q] <= Len(tasks'[q]) + 1
      /\ PassInv' /\ QuietInv'
  BY EraseTask
<1>1. /\ TypeOK /\ line \in Lines /\ Lined(line, order) /\ Sorted(line, order)
      /\ order \in Seq(Tasks) /\ Scheduled \subseteq Tasks /\ calls \in [Tasks -> 0..2]
      /\ fresh \in [Pipelines -> Seq(Entry)]
  BY LineFacts, ScheduledType DEF IInv, TypeOK
<1>2. /\ calling' = [calling EXCEPT ![p] = FALSE]
      /\ UNCHANGED <<cursor, threadVars, gameVars, calls, owed>>
  BY DEF EndTask
<1>3. /\ calling' \in [Pipelines -> BOOLEAN]
      /\ \A q \in Pipelines : q # p => calling'[q] = calling[q]
  BY <1>1, <1>2 DEF TypeOK
<1>4. /\ M \in Lines /\ Lined(M, order) /\ Sorted(M, order)
      /\ \A u \in Tasks : Holds(M, u) <=> Holds(line, u) /\ u # t
  BY <1>0, <1>1, CutFacts
<1>5. \A q \in Pipelines : \A i \in 1..Len(M[q]) :
         Kind[M[q][i].task] = "once" /\ calls[M[q][i].task] > 0
           => calling'[q] /\ cursor'[q] = i
  <2> SUFFICES ASSUME NEW q \in Pipelines, NEW i \in 1..Len(M[q]),
                      Kind[M[q][i].task] = "once", calls[M[q][i].task] > 0
               PROVE  calling'[q] /\ cursor'[q] = i
    OBVIOUS
  <2>1. PICK m \in 1..Len(line[q]) : M[q][i] = line[q][m] /\ (q = p => m # k)
    <3>1. \A x \in Pipelines : \A y \in 1..Len(Cut(line, p, k)[x]) :
            \E m \in 1..Len(line[x]) : Cut(line, p, k)[x][y] = line[x][m] /\ (x = p => m # k)
      <4> HIDE DEF k, M
      <4> QED
        BY <1>0, <1>1, CutFacts
    <3> QED
      BY <3>1
  <2>2. calling[q] /\ cursor[q] = m
    BY <2>1 DEF IInv, CallInv
  <2>3. q # p
    BY <2>1, <2>2
  <2>4. M[q] = line[q]
    BY <1>1, <2>3 DEF Cut, Lines
  <2>5. i \in 1..Len(line[q]) /\ M[q][i] = line[q][i]
    BY <2>4
  <2>6. calling[q] /\ cursor[q] = i
    BY <2>5 DEF IInv, CallInv
  <2> QED
    BY <1>2, <1>3, <2>3, <2>6
<1> HIDE DEF k, t, M
<1>6. CASE Kind[t] # "gate"
  <2>1. fresh' = fresh /\ order' = order /\ Scheduled' = Scheduled
    BY <1>6 DEF EndTask, t, Scheduled
  <2>2. line' = M
    <3>1. \A q \in Pipelines : line'[q] = M[q]
      BY <1>0, <2>1, Zenon DEF line
    <3>2. line' \in [Pipelines -> {line'[q] : q \in Pipelines}]
      BY DEF line
    <3> QED
      BY <1>4, <3>1, <3>2 DEF Lines
  <2>3. TypeOK'
    BY <1>0, <1>1, <1>2, <1>3, <2>1 DEF TypeOK, Lines, threadVars, gameVars
  <2>4. KeptInv'
    BY <1>0, <1>1, <1>2, <1>4, <2>1, <2>2 DEF IInv, KeptInv
  <2>5. GateInv'
    BY <1>4, <2>1, <2>2 DEF IInv, GateInv
  <2>6. PromptTasksInOrder'
    BY <1>2, <2>1 DEF IInv, PromptTasksInOrder
  <2>7. CallInv'
    BY <1>2, <1>5, <2>1, <2>2 DEF IInv, CallInv
  <2> QED
    BY <1>0, <1>4, <2>1, <2>2, <2>3, <2>4, <2>5, <2>6, <2>7, Assembled DEF ListInv
<1>7. CASE Kind[t] = "gate"
  <2> DEFINE next == Then[t]  e == NewEntry(next)  r == Pipe[next]
  <2>1. /\ fresh' = [fresh EXCEPT ![r] = Append(fresh[r], e)] /\ order' = Append(order, next)
    BY <1>7 DEF EndTask, t
  <2>2. next \in Tasks /\ Kind[next] # "gate" /\ r \in Pipelines /\ e \in Entry
    BY <1>0, <1>7, SchedulerAssumption, PipeType
  <2>3. next \notin Scheduled
    BY <1>0, <1>7 DEF IInv, GateInv
  <2>4. calls[next] = 0
    BY <2>2, <2>3 DEF IInv, CallInv
  <2> HIDE DEF next, e, r
  <2>5. ToSet(order') = ToSet(order) \cup {next}
    BY <1>1, <2>1, <2>2, AppendSet
  <2>6. Scheduled' = Scheduled \cup {next}
    BY <2>5 DEF Scheduled
  <2>7. TypeOK'
    <3>1. fresh' \in [Pipelines -> Seq(Entry)] /\ order' \in Seq(Tasks)
      BY <1>1, <2>1, <2>2
    <3> QED
      BY <1>0, <1>1, <1>2, <1>3, <3>1 DEF TypeOK, Lines, threadVars, gameVars
  <2>8. line' = Add(M, next)
    <3>1. line'[r] = tasks'[r] \o Append(fresh[r], e) /\ M[r] = tasks'[r] \o fresh[r]
      <4>1. fresh'[r] = Append(fresh[r], e)
        BY <1>1, <2>1, <2>2
      <4> QED
        BY <1>0, <2>2, <4>1, Zenon DEF line
    <3>2. line'[r] = Append(M[r], e)
      <4> DEFINE a == tasks'[r]  b == fresh[r]
      <4>1. a \in Seq(Entry) /\ b \in Seq(Entry)
        BY <1>0, <1>1, <2>2 DEF Lines
      <4>2. line'[r] = a \o Append(b, e) /\ M[r] = a \o b
        BY <3>1
      <4> HIDE DEF a, b
      <4>3. a \o Append(b, e) = Append(a \o b, e)
        BY <2>2, <4>1, ConcatAppend
      <4> QED
        BY <4>2, <4>3
    <3>3. \A q \in Pipelines : line'[q] = M[q] \/ q = r
      <4> SUFFICES ASSUME NEW q \in Pipelines, q # r PROVE line'[q] = M[q]
        OBVIOUS
      <4>1. fresh'[q] = fresh[q]
        BY <1>1, <2>1
      <4> QED
        BY <1>0, <4>1, Zenon DEF line
    <3> QED
      BY <1>1, <1>4, <2>2, <3>2, <3>3, AddLine DEF e, r
  <2>9. /\ Lined(line', order') /\ Sorted(line', order')
        /\ \A u \in Tasks : Holds(line', u) <=> Holds(M, u) \/ u = next
        /\ \A q \in Pipelines : \A i \in 1..Len(line'[q]) :
                \/ i \in 1..Len(M[q]) /\ line'[q][i] = M[q][i]
                \/ line'[q][i].task = next
    BY <1>1, <1>4, <2>1, <2>2, <2>3, <2>8, AddFacts DEF Scheduled
  <2>10. KeptInv'
    BY <1>0, <1>1, <1>2, <1>4, <2>2, <2>6, <2>9 DEF IInv, KeptInv
  <2>11. GateInv'
    <3> SUFFICES ASSUME NEW g \in Tasks, Kind[g] = "gate", Then[g] \in Scheduled'
                 PROVE  g \in Scheduled' /\ ~Holds(line', g)
      BY DEF GateInv
    <3>1. g # next
      BY <2>2
    <3>2. CASE Then[g] = next
      <4>1. g = t
        BY <1>0, <1>7, <3>2, SchedulerAssumption DEF next
      <4> QED
        BY <1>0, <1>4, <2>6, <2>9, <3>1, <4>1
    <3>3. CASE Then[g] \in Scheduled
      <4>1. g \in Scheduled /\ ~Holds(line, g)
        BY <3>3 DEF IInv, GateInv
      <4> QED
        BY <1>4, <2>6, <2>9, <3>1, <4>1
    <3> QED
      BY <2>6, <3>2, <3>3
  <2>12. PromptTasksInOrder'
    BY <1>1, <1>2, <2>1, <2>2, <2>4, AppendOrder DEF IInv
  <2>13. CallInv'
    <3>1. \A u \in Tasks : /\ u \notin Scheduled' => calls'[u] = 0
                           /\ Kind[u] = "once" => calls'[u] <= 1
      BY <1>2, <2>6 DEF IInv, CallInv
    <3>2. ASSUME NEW q \in Pipelines, NEW i \in 1..Len(line'[q]),
                 Kind[line'[q][i].task] = "once", calls'[line'[q][i].task] > 0
          PROVE  calling'[q] /\ cursor'[q] = i
      <4>1. calls' = calls /\ line'[q][i].task # next
        BY <1>2, <2>4, <3>2
      <4>2. i \in 1..Len(M[q]) /\ line'[q][i] = M[q][i]
        BY <2>9, <4>1
      <4> QED
        BY <1>5, <3>2, <4>1, <4>2
    <3> QED
      BY <3>1, <3>2 DEF CallInv
  <2> QED
    BY <1>0, <2>7, <2>9, <2>10, <2>11, <2>12, <2>13, Assembled DEF ListInv
<1> QED
  BY <1>6, <1>7

-----------------------------------------------------------------------------
LEMMA Step == IInv /\ [Next]_vars => IInv'
<1> SUFFICES ASSUME IInv, [Next]_vars PROVE IInv'
  OBVIOUS
<1>1. ASSUME NEW t \in Tasks, Schedule(t) PROVE IInv'
  BY <1>1, ScheduleStep
<1>2. ASSUME NEW p \in Pipelines, Pass(p) PROVE IInv'
  BY <1>2, BeginStep, CallStep, EndStep, MoveSteps DEF Pass
<1>3. CASE StartAsync \/ Shutdown \/ AsyncExit \/ Join \/ GameProgress \/ UNCHANGED vars
  BY <1>3, ThreadSteps
<1>4. CASE Tick
  BY <1>4, TickStep
<1> QED
  BY <1>1, <1>2, <1>3, <1>4 DEF Next

(* The strengthening holds in every state: the tasks of a pipeline are one  *)
(* line in the order of their scheduling, whatever is added, merged, called *)
(* and erased meanwhile.                                                    *)
THEOREM Invariance == Spec => []IInv
<1>1. Init => IInv
  BY InitInv
<1>2. IInv /\ [Next]_vars => IInv'
  BY Step
<1> QED
  BY <1>1, <1>2, PTL DEF Spec

(* The types: the iterator is never further than one past its list, which   *)
(* is what erasing under it and merging before a pass could break.          *)
THEOREM TypeCorrect == Spec => []TypeOK
<1>1. IInv => TypeOK
  BY DEF IInv
<1> QED
  BY <1>1, Invariance, PTL

(* Tasks without a delay are called first in the order in which they were   *)
(* scheduled on their pipeline.                                             *)
THEOREM PromptInOrder == Spec => []PromptTasksInOrder
<1>1. IInv => PromptTasksInOrder
  BY DEF IInv
<1> QED
  BY <1>1, Invariance, PTL

(* Once pre_destroy has joined the async thread none of its handlers runs.  *)
THEOREM NothingAfterJoin == Spec => []QuietAfterJoin
<1>1. IInv => QuietAfterJoin
  BY DEF IInv, QuietInv, QuietAfterJoin
<1> QED
  BY <1>1, Invariance, PTL

LEMMA AtMostOne ==
  ASSUME NEW S, \A x, y \in S : x = y
  PROVE  (S = {} /\ Cardinality(S) = 0) \/ (S # {} /\ Cardinality(S) = 1)
<1>1. CASE S = {}
  BY <1>1, FS_EmptySet
<1>2. CASE S # {}
  <2>1. PICK x : x \in S
    BY <1>2
  <2>2. S = {x}
    BY <2>1
  <2> QED
    BY <1>2, <2>2, FS_Singleton
<1> QED
  BY <1>1, <1>2

LEMMA KeptOnce == IInv => NoTaskLostOrDoubled
<1> SUFFICES ASSUME IInv, NEW t \in Scheduled
             PROVE  /\ Kind[t] = "once" => calls[t] <= 1
                    /\ Cardinality(Listed(t)) + Cardinality(Waiting(t)) <= 1
                    /\ Kind[t] = "loop" \/ calls[t] = 0 => Listed(t) \cup Waiting(t) # {}
  BY DEF NoTaskLostOrDoubled
<1> DEFINE p == Pipe[t]  a == tasks[p]  b == fresh[p]
<1>0. /\ t \in Tasks /\ p \in Pipelines /\ TypeOK /\ line \in Lines
      /\ Lined(line, order) /\ Sorted(line, order) /\ order \in Seq(Tasks)
  BY ScheduledType, PipeType, LineFacts DEF IInv
<1>1. /\ a \in Seq(Entry) /\ b \in Seq(Entry) /\ line[p] = a \o b
      /\ Listed(t) = {i \in 1..Len(a) : a[i].task = t}
      /\ Waiting(t) = {i \in 1..Len(b) : b[i].task = t}
  BY <1>0 DEF TypeOK, line, Listed, Waiting
<1>2. \A i, j \in 1..Len(line[p]) : line[p][i].task = t /\ line[p][j].task = t => i = j
  BY <1>0, SortedDistinct
<1>3. Kind[t] = "once" => calls[t] <= 1
  BY <1>0 DEF IInv, CallInv
<1>4. Kind[t] = "loop" \/ calls[t] = 0 => \E i \in 1..Len(line[p]) : line[p][i].task = t
  BY DEF IInv, KeptInv, Holds
<1> HIDE DEF p, a, b
<1>5. Len(a) \in Nat /\ Len(b) \in Nat
  BY <1>1
<1>6. /\ Len(line[p]) = Len(a) + Len(b)
      /\ \A i \in 1..Len(a) : line[p][i] = a[i]
      /\ \A i \in 1..Len(b) : line[p][Len(a) + i] = b[i]
  BY <1>1, ConcatFacts
<1>7. ASSUME NEW i \in Listed(t)
      PROVE  i \in 1..Len(a) /\ i \in 1..Len(line[p]) /\ line[p][i].task = t
  BY <1>1, <1>5, <1>6
<1>8. ASSUME NEW i \in Waiting(t)
      PROVE  /\ i \in 1..Len(b) /\ Len(a) + i \in 1..Len(line[p])
             /\ line[p][Len(a) + i].task = t
  BY <1>1, <1>5, <1>6
<1>9. \A i, j \in Listed(t) : i = j
  BY <1>2, <1>7
<1>10. \A i, j \in Waiting(t) : i = j
  BY <1>2, <1>5, <1>8
<1>11. Listed(t) = {} \/ Waiting(t) = {}
  <2> SUFFICES ASSUME NEW i \in Listed(t), NEW j \in Waiting(t) PROVE FALSE
    OBVIOUS
  <2>1. i = Len(a) + j
    BY <1>2, <1>7, <1>8
  <2> QED
    BY <1>5, <1>7, <1>8, <2>1
<1>12. Cardinality(Listed(t)) + Cardinality(Waiting(t)) <= 1
  <2>1. /\ \/ Listed(t) = {} /\ Cardinality(Listed(t)) = 0
           \/ Listed(t) # {} /\ Cardinality(Listed(t)) = 1
        /\ \/ Waiting(t) = {} /\ Cardinality(Waiting(t)) = 0
           \/ Waiting(t) # {} /\ Cardinality(Waiting(t)) = 1
    BY <1>9, <1>10, AtMostOne
  <2> QED
    BY <1>11, <2>1
<1>13. Kind[t] = "loop" \/ calls[t] = 0 => Listed(t) \cup Waiting(t) # {}
  <2> SUFFICES ASSUME NEW i \in 1..Len(line[p]), line[p][i].task = t
               PROVE  Listed(t) \cup Waiting(t) # {}
    BY <1>4
  <2>1. CASE i \in 1..Len(a)
    BY <1>1, <1>6, <2>1
  <2>2. CASE i \notin 1..Len(a)
    <3>1. i - Len(a) \in 1..Len(b) /\ Len(a) + (i - Len(a)) = i
      BY <1>5, <1>6, <2>2
    <3>2. b[i - Len(a)].task = t
      BY <1>6, <3>1
    <3> QED
      BY <1>1, <3>1, <3>2
  <2> QED
    BY <2>1, <2>2
<1> QED
  BY <1>3, <1>12, <1>13

(* Scheduling from any thread, merging and erasing under the iterator lose  *)
(* no task and double none, and a once task is called at most once.         *)
THEOREM TasksKept == Spec => []NoTaskLostOrDoubled
BY KeptOnce, Invariance, PTL

-----------------------------------------------------------------------------
(* What a pass has yet to call is at its iterator or ahead of it.           *)
LEMMA OwedSame ==
  ASSUME NEW q \in Pipelines, OwedAhead(q),
         UNCHANGED <<tasks[q], cursor[q], calling[q], owed[q]>>
  PROVE  OwedAhead(q)'
BY DEF OwedAhead

LEMMA OwedBegin ==
  ASSUME IInv, NEW p \in Pipelines, BeginExecute(p)
  PROVE  OwedAhead(p)'
<1> DEFINE L == tasks[p] \o fresh[p]
<1>1. L \in Seq(Entry)
  BY ConcatFacts DEF IInv, TypeOK
<1>2. tasks'[p] = L /\ owed'[p] = Due(L) /\ cursor'[p] = 1 /\ ~calling'[p]
  BY DEF BeginExecute, IInv, TypeOK, PassInv
<1> HIDE DEF L
<1>3. \A t \in Due(L) : \E i \in 1..Len(L) : L[i] = [task |-> t, left |-> 0]
  BY <1>1, DueFacts
<1> QED
  BY <1>2, <1>3 DEF OwedAhead

LEMMA OwedCall ==
  ASSUME IInv, NEW p \in Pipelines, OwedAhead(p), CallTask(p)
  PROVE  OwedAhead(p)'
<1> DEFINE k == cursor[p]
<1>1. /\ tasks[p] \in Seq(Entry) /\ k \in 1..Len(tasks[p]) /\ ~calling[p]
      /\ tasks'[p] = [tasks[p] EXCEPT ![k].left = Delay[TaskAt(p)]]
      /\ cursor'[p] = k /\ calling'[p] /\ owed'[p] = owed[p] \ {TaskAt(p)}
  BY DEF CallTask, AtTask, IInv, TypeOK
<1>2. ASSUME NEW t \in owed'[p]
      PROVE  \E i \in 1..Len(tasks'[p]) : tasks'[p][i] = [task |-> t, left |-> 0] /\ i > k
  <2>1. PICK i \in 1..Len(tasks[p]) : tasks[p][i] = [task |-> t, left |-> 0] /\ i >= k
    BY <1>1, <1>2 DEF OwedAhead
  <2>2. i # k
    BY <1>1, <1>2, <2>1 DEF TaskAt
  <2>3. Len(tasks'[p]) = Len(tasks[p]) /\ tasks'[p][i] = tasks[p][i]
    BY <1>1, <2>1, <2>2
  <2> QED
    BY <1>1, <2>1, <2>2, <2>3
<1> QED
  BY <1>1, <1>2 DEF OwedAhead

LEMMA OwedEnd ==
  ASSUME IInv, NEW p \in Pipelines, OwedAhead(p), EndTask(p)
  PROVE  OwedAhead(p)'
<1> DEFINE k == cursor[p]  L == tasks[p]
<1>1. /\ L \in Seq(Entry) /\ k \in 1..Len(L) /\ calling[p] /\ ~calling'[p]
      /\ tasks'[p] = RemoveAt(L, k) /\ cursor'[p] = k /\ owed'[p] = owed[p]
  BY DEF EndTask, IInv, TypeOK, PassInv
<1> HIDE DEF k, L
<1>2. /\ Len(RemoveAt(L, k)) = Len(L) - 1
      /\ \A i \in 1..(Len(L) - 1) : RemoveAt(L, k)[i] = L[IF i < k THEN i ELSE i + 1]
  BY <1>1, RemoveAtFacts
<1>3. ASSUME NEW t \in owed[p]
      PROVE  \E j \in 1..Len(RemoveAt(L, k)) :
               RemoveAt(L, k)[j] = [task |-> t, left |-> 0] /\ j >= k /\ k > 0
  <2>1. PICK i \in 1..Len(L) : L[i] = [task |-> t, left |-> 0] /\ i > k
    BY <1>1, <1>3 DEF OwedAhead, k, L
  <2>2. i - 1 \in 1..(Len(L) - 1) /\ i - 1 >= k /\ k > 0 /\ (i - 1) + 1 = i /\ ~(i - 1 < k)
    BY <1>1, <2>1
  <2>3. RemoveAt(L, k)[i - 1] = L[i]
    BY <1>2, <2>2
  <2> QED
    BY <1>2, <2>1, <2>2, <2>3
<1> QED
  BY <1>1, <1>3 DEF OwedAhead

LEMMA OwedMove ==
  ASSUME IInv, NEW p \in Pipelines, OwedAhead(p), SkipTask(p) \/ KeepTask(p) \/ EndExecute(p)
  PROVE  OwedAhead(p)'
<1>1. /\ cursor[p] \in Nat /\ Len(tasks[p]) \in Nat
      /\ calling[p] => cursor[p] \in 1..Len(tasks[p])
  BY DEF IInv, TypeOK, PassInv
<1>2. CASE SkipTask(p)
  <2>1. /\ tasks'[p] = tasks[p] /\ owed'[p] = owed[p] /\ ~calling[p] /\ ~calling'[p]
        /\ cursor'[p] = cursor[p] + 1 /\ tasks[p][cursor[p]].left # 0
    BY <1>1, <1>2 DEF SkipTask, AtTask, IInv, TypeOK
  <2> QED
    BY <1>1, <2>1 DEF OwedAhead
<1>3. CASE KeepTask(p)
  <2>1. /\ tasks'[p] = tasks[p] /\ owed'[p] = owed[p] /\ calling[p] /\ ~calling'[p]
        /\ cursor'[p] = cursor[p] + 1
    BY <1>3 DEF KeepTask, IInv, TypeOK
  <2> QED
    BY <1>1, <2>1 DEF OwedAhead
<1>4. CASE EndExecute(p)
  BY <1>1, <1>4 DEF EndExecute, OwedAhead
<1> QED
  BY <1>2, <1>3, <1>4

LEMMA OwedTick ==
  ASSUME IInv, NEW q \in Pipelines, OwedAhead(q), Tick
  PROVE  OwedAhead(q)'
<1>1. /\ tasks[q] \in Seq(Entry) /\ tasks'[q] = Older(tasks[q])
      /\ UNCHANGED <<cursor, calling, owed>>
  BY DEF Tick, IInv, TypeOK
<1>2. ASSUME NEW i \in 1..Len(tasks[q]), tasks[q][i].left = 0
      PROVE  tasks'[q][i] = tasks[q][i]
  <2>1. tasks[q][i] \in Entry
    BY <1>1
  <2>2. tasks'[q][i] = [tasks[q][i] EXCEPT !.left = 0]
    BY <1>1, <1>2 DEF Older
  <2> QED
    BY <1>2, <2>1, <2>2 DEF Entry
<1>3. Len(tasks'[q]) = Len(tasks[q])
  BY <1>1, OlderFacts
<1> QED
  BY <1>1, <1>2, <1>3 DEF OwedAhead

LEMMA OwedStep == IInv /\ OwedInv /\ [Next]_vars => OwedInv'
<1> SUFFICES ASSUME IInv, OwedInv, [Next]_vars, NEW q \in Pipelines PROVE OwedAhead(q)'
  BY DEF OwedInv
<1>1. OwedAhead(q)
  BY DEF OwedInv
<1>2. ASSUME NEW p \in Pipelines, Pass(p), p # q
      PROVE  UNCHANGED <<tasks[q], cursor[q], calling[q], owed[q]>>
  BY <1>2 DEF Pass, BeginExecute, SkipTask, CallTask, EndTask, KeepTask, EndExecute, IInv, TypeOK
<1>3. CASE \E p \in Pipelines : Pass(p)
  <2>1. CASE Pass(q)
    BY <1>1, <2>1, OwedBegin, OwedCall, OwedEnd, OwedMove DEF Pass
  <2> QED
    BY <1>1, <1>2, <1>3, <2>1, OwedSame
<1>4. CASE Tick
  BY <1>1, <1>4, OwedTick
<1>5. CASE UNCHANGED <<tasks, cursor, calling, owed>>
  BY <1>1, <1>5, OwedSame
<1> QED
  BY <1>3, <1>4, <1>5 DEF Next, vars, Schedule, StartAsync, Shutdown, AsyncExit, Join, GameProgress

(* When a pass ends it has called, in this pass, every task that had been   *)
(* scheduled and was due when it began: neither erasing tasks nor keeping   *)
(* them made it skip another.                                               *)
THEOREM PassComplete == Spec => PassMissesNothing
<1> DEFINE Complete == \A p \in Pipelines : EndExecute(p) => owed[p] = {}
<1>1. Init => OwedInv
  BY DEF Init, OwedInv, OwedAhead
<1>2. IInv /\ OwedInv => Complete
  <2> SUFFICES ASSUME IInv, OwedInv, NEW p \in Pipelines, EndExecute(p), NEW t \in owed[p]
               PROVE  FALSE
    OBVIOUS
  <2>1. Len(tasks[p]) \in Nat /\ cursor[p] = Len(tasks[p]) + 1
    BY DEF IInv, TypeOK, EndExecute
  <2>2. PICK i \in 1..Len(tasks[p]) : i >= cursor[p] \/ i > cursor[p]
    BY DEF OwedInv, OwedAhead
  <2> QED
    BY <2>1, <2>2
<1>3. IInv /\ OwedInv /\ [Next]_vars => OwedInv' /\ [Complete]_vars
  BY <1>2, OwedStep
<1>4. PassMissesNothing <=> [][Complete]_vars
  BY DEF PassMissesNothing
<1> HIDE DEF Complete
<1> QED
  BY <1>1, <1>3, <1>4, Invariance, PTL DEF Spec
=============================================================================
