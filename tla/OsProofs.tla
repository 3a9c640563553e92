-------------------------------- MODULE OsProofs --------------------------------
(***************************************************************************)
(* Proofs about Os.tla for every number of CPUs, processes and levels and  *)
(* for every configuration.                                                *)
(*                                                                         *)
(* IInv is inductive.  It says where a process may be (QueueInv, RunInv),  *)
(* what the place of each thread in its routine says of it (LoaderInv,     *)
(* CpuInv), and that the loader has kept the start times (StartInv).  Type *)
(* correctness, OneOwner and NotBeforeStart follow from it.                *)
(*                                                                         *)
(* HeldInv and StopInv need ready queues that no level overflows.  With    *)
(* them follow NoneLost, NoneAbandoned and the refinement of ProcessLife.  *)
(***************************************************************************)
EXTENDS Os, TLAPS, SequenceTheorems, FiniteSetTheorems

\* The slot clock never counts a thread as arrived and as gone at once.
ClockInv == arrived \intersect gone = {}

\* The loader takes the processes in the order of the configuration; the one at
\* its index exists exactly between load and the end of add_proc.
LoaderInv ==
  /\ i \in 1..(Len(work) + 1)
  /\ \A p \in Procs : (p < i => pcb[p] # "none") /\ (p > i => pcb[p] = "none")
  /\ i \in Procs =>
       pcb[i] = IF ldpc \in {"await", "add"} THEN "live" ELSE "none"
  /\ ldpc \in {"await", "add"} => i <= Len(work)
  /\ ldpc = "gone" => i = Len(work) + 1
  /\ (done <=> ldpc = "gone") /\ (done <=> Loader \in gone)
  /\ ldpc = "add" => Loader \notin arrived

\* What a CPU thread's place in cpu_routine says of its process and of the clock.
CpuInv ==
  \A c \in Cpus :
    /\ cpc[c] = "gone" <=> c \in gone
    /\ c \in gone => done
    /\ cpc[c] \in {"put", "get", "check", "run"} => c \notin arrived
    /\ cpc[c] \in {"put", "run"} => proc[c] # NULL
    /\ cpc[c] \in {"get", "check", "gone"} => proc[c] = NULL
    /\ cpc[c] = "put" => pc[proc[c]] < work[proc[c]].size

\* A ready queue holds live processes of its level that the loader has passed,
\* each once and none of them on a CPU.
QueueInv ==
  \A x \in Prios : \A n \in 1..Len(mlq[x]) :
    /\ mlq[x][n] \in 1..Len(work) /\ mlq[x][n] < i
    /\ pcb[mlq[x][n]] = "live" /\ work[mlq[x][n]].prio = x
    /\ \A m \in 1..Len(mlq[x]) : mlq[x][m] = mlq[x][n] => m = n
    /\ \A c \in Cpus : proc[c] # mlq[x][n]

\* A CPU holds a live process that the loader has passed and no other CPU holds.
RunInv ==
  \A c \in Cpus : proc[c] # NULL =>
    /\ proc[c] \in 1..Len(work) /\ proc[c] < i /\ pcb[proc[c]] = "live"
    /\ \A d \in Cpus : proc[d] = proc[c] => d = c

\* The loader has waited for the start time of every process it has passed.
StartInv ==
  \A p \in 1..Len(work) :
    p < i \/ (p = i /\ ldpc = "add") => now >= work[p].start

IInv ==
  /\ TypeOK /\ ClockInv /\ LoaderInv /\ CpuInv /\ QueueInv /\ RunInv
  /\ StartInv

\* What the invariant says apart from the ready queues.
RestInv ==
  TypeOK /\ ClockInv /\ LoaderInv /\ CpuInv /\ RunInv /\ StartInv

\* QueueInv with one place of each level left out, gap[x] of level x; there is no
\* place 0.
QueueInvBut(gap) ==
  \A x \in Prios : \A n \in 1..Len(mlq[x]) : n # gap[x] =>
    /\ mlq[x][n] \in 1..Len(work) /\ mlq[x][n] < i
    /\ pcb[mlq[x][n]] = "live" /\ work[mlq[x][n]].prio = x
    /\ \A m \in 1..Len(mlq[x]) : m # gap[x] /\ mlq[x][m] = mlq[x][n] => m = n
    /\ \A c \in Cpus : proc[c] # mlq[x][n]

--------------------------------------------------------------------------------
\* What read_config has stored for each process of the configuration.
LEMMA WorkType ==
  ASSUME work \in Workloads
  PROVE  /\ Len(work) \in Nat /\ Len(work) <= NumProcs
         /\ DOMAIN work = 1..Len(work) /\ DOMAIN work \subseteq Procs
         /\ \A p \in 1..Len(work) :
              /\ work[p].prio \in Prios
              /\ work[p].start \in 0..Horizon
              /\ work[p].size \in Nat
<1>1. work \in Seq([prio : Prios, start : 0..Horizon, size : Nat])
  BY OsAssumption
<1>2. Len(work) <= NumProcs
  BY OsAssumption
<1>3. Len(work) \in Nat /\ DOMAIN work = 1..Len(work)
  BY <1>1, LenProperties
<1>4. \A p \in 1..Len(work) :
        work[p] \in [prio : Prios, start : 0..Horizon, size : Nat]
  BY <1>1, ElementOfSeq
<1>5. QED
  BY <1>2, <1>3, <1>4, OsAssumption DEF Procs

\* A set of levels that is not empty has a first one.
LEMMA FirstLevel ==
  ASSUME NEW S \in SUBSET Prios, S # {}
  PROVE  \E x \in S : \A y \in S : x <= y
<1>1. S \subseteq Nat
  BY OsAssumption DEF Prios
<1> DEFINE Less == {ss \in Nat \X Nat : ss[1] < ss[2]}
<1>2. IsWellFoundedOn(Less, Nat)
  BY NatLessThanWellFounded DEF OpToRel
<1>3. PICK x \in S : \A y \in S : <<y, x>> \notin Less
  <2> HIDE DEF Less
  <2> QED
    BY <1>1, <1>2, WFMin
<1>4. \A y \in Nat : y < x => <<y, x>> \in Less
  <2> SUFFICES ASSUME NEW y \in Nat, y < x PROVE <<y, x>> \in Less
    OBVIOUS
  <2>1. <<y, x>> \in Nat \X Nat /\ <<y, x>>[1] < <<y, x>>[2]
    BY <1>1
  <2>2. QED
    BY <2>1, Zenon
<1>5. \A y \in S : x <= y
  <2> HIDE DEF Less
  <2>1. \A y \in S : ~(y < x)
    BY <1>1, <1>3, <1>4, Zenon
  <2>2. QED
    BY <1>1, <2>1
<1>6. QED
  BY <1>5


\* enqueue appends to a queue that has room and leaves a full one alone.
LEMMA EnqueueEffect ==
  ASSUME NEW q \in Seq(Procs), Len(q) <= MaxQueueSize, NEW p \in Procs
  PROVE  LET r == Enqueue(q, p) IN
         /\ r \in Seq(Procs) /\ Len(r) <= MaxQueueSize
         /\ \A n \in 1..Len(q) : n \in 1..Len(r) /\ r[n] = q[n]
         /\ \A n \in 1..Len(r) : n \in 1..Len(q) \/ (n = Len(q) + 1 /\ r[n] = p)
         /\ Len(q) < MaxQueueSize => \E n \in 1..Len(r) : r[n] = p
<1>1. Len(q) \in Nat
  BY LenProperties
<1>2. CASE Len(q) >= MaxQueueSize
  BY <1>1, <1>2, OsAssumption DEF Enqueue
<1>3. CASE Len(q) < MaxQueueSize
  <2>1. Enqueue(q, p) = Append(q, p)
    BY <1>1, <1>3, OsAssumption DEF Enqueue
  <2>2. /\ Append(q, p) \in Seq(Procs)
        /\ Len(Append(q, p)) = Len(q) + 1
        /\ \A n \in 1..Len(q) : Append(q, p)[n] = q[n]
        /\ Append(q, p)[Len(q) + 1] = p
    BY AppendProperties
  <2>3. QED
    BY <1>1, <1>3, <2>1, <2>2, OsAssumption
<1>4. QED
  BY <1>1, <1>2, <1>3, OsAssumption

\* put_mlq_proc and add_mlq_proc change the queue of the process's own level, by
\* that process at its end.
LEMMA ReadyEffect ==
  ASSUME TypeOK, NEW p \in 1..Len(work)
  PROVE  /\ Ready(p) \in [Prios -> Seq(Procs)]
         /\ \A x \in Prios : Len(Ready(p)[x]) <= MaxQueueSize
         /\ \A x \in Prios : \A n \in 1..Len(mlq[x]) :
              n \in 1..Len(Ready(p)[x]) /\ Ready(p)[x][n] = mlq[x][n]
         /\ \A x \in Prios : \A n \in 1..Len(Ready(p)[x]) :
              \/ n \in 1..Len(mlq[x])
              \/ n = Len(mlq[x]) + 1 /\ x = work[p].prio /\ Ready(p)[x][n] = p
         /\ Len(mlq[work[p].prio]) < MaxQueueSize =>
              \E x \in Prios : \E n \in 1..Len(Ready(p)[x]) : Ready(p)[x][n] = p
<1> DEFINE l == work[p].prio
<1>1. p \in Procs /\ l \in Prios
  BY WorkType DEF TypeOK
<1>2. mlq \in [Prios -> Seq(Procs)] /\ \A x \in Prios : Len(mlq[x]) <= MaxQueueSize
  BY DEF TypeOK
<1>3. \A x \in Prios : Ready(p)[x] = IF x = l THEN Enqueue(mlq[x], p) ELSE mlq[x]
  BY <1>2 DEF Ready
<1>4. DOMAIN Ready(p) = Prios /\ Ready(p) = [x \in Prios |-> Ready(p)[x]]
  BY <1>2 DEF Ready
<1> HIDE DEF l
<1>5. LET r == Enqueue(mlq[l], p) IN
         /\ r \in Seq(Procs) /\ Len(r) <= MaxQueueSize
         /\ \A n \in 1..Len(mlq[l]) : n \in 1..Len(r) /\ r[n] = mlq[l][n]
         /\ \A n \in 1..Len(r) :
              n \in 1..Len(mlq[l]) \/ (n = Len(mlq[l]) + 1 /\ r[n] = p)
         /\ Len(mlq[l]) < MaxQueueSize => \E n \in 1..Len(r) : r[n] = p
  BY <1>1, <1>2, EnqueueEffect
<1>6. \A x \in Prios : Ready(p)[x] \in Seq(Procs)
  BY <1>2, <1>3, <1>5
<1>7. Ready(p) \in [Prios -> Seq(Procs)]
  BY <1>4, <1>6
<1>8. \A x \in Prios : Len(Ready(p)[x]) <= MaxQueueSize
  BY <1>2, <1>3, <1>5
<1>9. \A x \in Prios : \A n \in 1..Len(mlq[x]) :
        n \in 1..Len(Ready(p)[x]) /\ Ready(p)[x][n] = mlq[x][n]
  BY <1>3, <1>5
<1>10. \A x \in Prios : \A n \in 1..Len(Ready(p)[x]) :
         \/ n \in 1..Len(mlq[x])
         \/ n = Len(mlq[x]) + 1 /\ x = l /\ Ready(p)[x][n] = p
  BY <1>3, <1>5
<1>11. Len(mlq[l]) < MaxQueueSize =>
         \E x \in Prios : \E n \in 1..Len(Ready(p)[x]) : Ready(p)[x][n] = p
  BY <1>1, <1>3, <1>5
<1>12. QED
  BY <1>7, <1>8, <1>9, <1>10, <1>11 DEF l

\* get_mlq_proc takes the head of the first queue that is not empty.
LEMMA DequeueEffect ==
  ASSUME TypeOK, Waiting # {}
  PROVE  /\ TopPrio \in Prios /\ mlq[TopPrio] # <<>> /\ Len(mlq[TopPrio]) >= 1
         /\ NextProc = mlq[TopPrio][1] /\ NextProc \in Procs
         /\ Dequeued \in [Prios -> Seq(Procs)]
         /\ \A x \in Prios : Len(Dequeued[x]) <= MaxQueueSize
         /\ \A x \in Prios : x # TopPrio => Dequeued[x] = mlq[x]
         /\ Len(Dequeued[TopPrio]) = Len(mlq[TopPrio]) - 1
         /\ \A n \in 1..Len(Dequeued[TopPrio]) :
              Dequeued[TopPrio][n] = mlq[TopPrio][n + 1]
<1>1. mlq \in [Prios -> Seq(Procs)] /\ \A x \in Prios : Len(mlq[x]) <= MaxQueueSize
  BY DEF TypeOK
<1>2. \E x \in Waiting : \A y \in Waiting : x <= y
  BY FirstLevel DEF Waiting
<1>3. TopPrio \in Prios /\ mlq[TopPrio] # <<>>
  BY <1>2 DEF TopPrio, Waiting
<1> DEFINE q == mlq[TopPrio]
<1>4. /\ Len(q) \in Nat \ {0} /\ Head(q) = q[1] /\ Head(q) \in Procs
      /\ Tail(q) \in Seq(Procs) /\ Len(Tail(q)) = Len(q) - 1
      /\ \A n \in 1..Len(Tail(q)) : Tail(q)[n] = q[n + 1]
  <2>1. q \in Seq(Procs) /\ q # <<>>
    BY <1>1, <1>3
  <2>2. QED
    BY <2>1, EmptySeq, HeadTailProperties
<1>5. \A x \in Prios : Dequeued[x] = IF x = TopPrio THEN Tail(q) ELSE mlq[x]
  BY <1>1 DEF Dequeued
<1>6. Dequeued = [x \in Prios |-> Dequeued[x]]
  BY <1>1 DEF Dequeued
<1> HIDE DEF q
<1>7. \A x \in Prios : Dequeued[x] \in Seq(Procs)
  BY <1>1, <1>4, <1>5
<1>8. Dequeued \in [Prios -> Seq(Procs)]
  BY <1>6, <1>7
<1>9. NextProc = q[1]
  BY <1>4 DEF NextProc, q
<1>10. \A x \in Prios : Len(Dequeued[x]) <= MaxQueueSize
  <2>1. Len(q) <= MaxQueueSize
    BY <1>1, <1>3 DEF q
  <2>2. Len(Tail(q)) <= MaxQueueSize
    BY <1>4, <2>1, OsAssumption
  <2>3. QED
    BY <1>1, <1>5, <2>2
<1>11. Dequeued[TopPrio] = Tail(q)
  BY <1>3, <1>5
<1>12. QED
  BY <1>3, <1>4, <1>5, <1>8, <1>9, <1>10, <1>11 DEF q

--------------------------------------------------------------------------------
(* The invariant holds at the start and every step of a thread keeps it.   *)

\* The state that main prepares before it creates the threads satisfies it.
LEMMA InitIInv == Init => IInv
<1> SUFFICES ASSUME Init PROVE IInv
  OBVIOUS
<1> USE OsAssumption DEF Init
<1>1. Len(work) \in Nat /\ Len(work) <= NumProcs /\ 1..Len(work) = DOMAIN work
      /\ \A p \in 1..Len(work) : work[p].size \in Nat /\ work[p].start \in Nat
  BY WorkType
<1>2. <<>> \in Seq(Procs) /\ Len(<<>>) = 0
  BY EmptySeq
<1>3. TypeOK
  <2>1. Clock!ClockTypeOK
    BY DEF Clock!ClockInit, Clock!ClockTypeOK
  <2>2. mlq \in [Prios -> Seq(Procs)] /\ \A x \in Prios : Len(mlq[x]) <= MaxQueueSize
    BY <1>2
  <2>3. time_left \in [Cpus -> Int] /\ \A c \in Cpus : time_left[c] <= time_slot
    OBVIOUS
  <2>4. pcb \in [Procs -> {"none", "live", "freed"}]
        /\ pc \in [Procs -> Nat] /\ \A p \in DOMAIN work : pc[p] <= work[p].size
    BY <1>1 DEF Procs
  <2>5. running_list \in Seq(Procs) /\ Len(running_list) <= MaxQueueSize
    BY <1>2
  <2>6. /\ i \in 1..(NumProcs + 1)
        /\ cpc \in [Cpus -> {"top", "put", "get", "check", "run", "gone"}]
        /\ proc \in [Cpus -> Procs \union {NULL}]
    OBVIOUS
  <2>7. QED
    BY <2>1, <2>2, <2>3, <2>4, <2>5, <2>6 DEF TypeOK
<1>4. ClockInv /\ CpuInv
  BY DEF ClockInv, CpuInv, Clock!ClockInit
<1>5. LoaderInv
  BY <1>1 DEF LoaderInv, Clock!ClockInit
<1>6. QueueInv /\ RunInv
  BY <1>2 DEF QueueInv, RunInv
<1>7. StartInv
  BY DEF StartInv
<1>8. QED
  BY <1>3, <1>4, <1>5, <1>6, <1>7 DEF IInv

\* The processes that the configuration and the loader's index range over.
LEMMA IndexFacts ==
  ASSUME TypeOK, LoaderInv
  PROVE  /\ Len(work) \in Nat /\ Len(work) <= NumProcs /\ NumProcs \in Nat
         /\ DOMAIN work = 1..Len(work)
         /\ \A p \in 1..Len(work) :
              /\ p \in Procs /\ work[p].prio \in Prios
              /\ work[p].start \in 0..Horizon /\ work[p].size \in Nat
         /\ i \in Nat /\ i >= 1 /\ i <= Len(work) + 1
         /\ i <= Len(work) => i \in 1..Len(work) /\ i \in Procs
<1>1. work \in Workloads
  BY DEF TypeOK
<1>2. /\ Len(work) \in Nat /\ Len(work) <= NumProcs /\ NumProcs \in Nat
      /\ DOMAIN work = 1..Len(work)
      /\ \A p \in 1..Len(work) :
           /\ work[p].prio \in Prios
           /\ work[p].start \in 0..Horizon /\ work[p].size \in Nat
  BY <1>1, WorkType, OsAssumption
<1>3. i \in 1..(Len(work) + 1)
  BY DEF LoaderInv
<1>4. QED
  BY <1>2, <1>3 DEF Procs

\* load creates the process at the loader's index.
LEMMA LoadRest == ASSUME RestInv, Load PROVE RestInv'
<1> USE OsAssumption DEF RestInv, Load, configVars, clockVars, queueVars, cpuVars
<1>1. i \in Procs /\ i \in 1..Len(work)
  BY IndexFacts
<1>2. TypeOK'
  BY <1>1 DEF TypeOK, Clock!ClockTypeOK
<1>3. ClockInv' /\ CpuInv'
  BY DEF ClockInv, CpuInv
<1>4. LoaderInv'
  BY <1>1 DEF LoaderInv, TypeOK
<1>5. \A p \in 1..Len(work) : p < i => pcb'[p] = pcb[p]
  BY <1>1, IndexFacts DEF TypeOK
<1>6. RunInv'
  BY <1>5 DEF RunInv
<1>7. StartInv'
  BY <1>1 DEF StartInv, TypeOK
<1>8. QED
  BY <1>2, <1>3, <1>4, <1>6, <1>7

\* The loader waits a slot for the start time of its process.
LEMMA AwaitStartRest == ASSUME RestInv, AwaitStart PROVE RestInv'
<1> USE OsAssumption DEF RestInv, AwaitStart, configVars, queueVars, loaderVars,
                         cpuVars, Clock!Arrive, Clock!Working
<1>1. TypeOK'
  BY DEF TypeOK, Clock!ClockTypeOK
<1>2. ClockInv' /\ CpuInv' /\ LoaderInv'
  BY DEF ClockInv, CpuInv, LoaderInv
<1>3. RunInv' /\ StartInv'
  BY DEF RunInv, StartInv
<1>4. QED
  BY <1>1, <1>2, <1>3

\* add_proc, first section: only the list of running processes changes.
LEMMA AddListRest == ASSUME RestInv, AddList PROVE RestInv'
<1> USE OsAssumption DEF RestInv, AddList, configVars, clockVars, cpuVars,
                         Clock!Working
<1>1. i \in Procs
  BY IndexFacts DEF LoaderInv
<1>2. running_list' \in Seq(Procs) /\ Len(running_list') <= MaxQueueSize
  BY <1>1, EnqueueEffect DEF TypeOK
<1>3. TypeOK'
  BY <1>2 DEF TypeOK, Clock!ClockTypeOK
<1>4. ClockInv' /\ CpuInv' /\ LoaderInv'
  BY DEF ClockInv, CpuInv, LoaderInv
<1>5. RunInv'
  BY DEF RunInv
<1>6. StartInv'
  BY WorkType DEF StartInv, LoaderInv, TypeOK
<1>7. QED
  BY <1>3, <1>4, <1>5, <1>6

\* add_proc, second section: the loader goes on to the next process.
LEMMA AddReadyRest == ASSUME RestInv, AddReady PROVE RestInv'
<1> USE OsAssumption DEF RestInv, AddReady, configVars, cpuVars, Clock!Arrive,
                         Clock!Working
<1>1. i \in 1..Len(work) /\ i \in Procs /\ pcb[i] = "live" /\ work' = work
      /\ Len(work) \in Nat /\ Len(work) <= NumProcs
  BY IndexFacts DEF LoaderInv
<1>2. TypeOK'
  <2>1. mlq' \in [Prios -> Seq(Procs)] /\ \A x \in Prios : Len(mlq'[x]) <= MaxQueueSize
    BY <1>1, ReadyEffect
  <2>2. i' \in 1..(NumProcs + 1)
    BY <1>1
  <2>3. Clock!ClockTypeOK'
    BY DEF Clock!ClockTypeOK, TypeOK
  <2>4. QED
    BY <2>1, <2>2, <2>3 DEF TypeOK
<1>3. ClockInv' /\ CpuInv'
  BY DEF ClockInv, CpuInv
<1>4. LoaderInv'
  <2>1. i \in Nat /\ i' = i + 1 /\ ldpc' = "load" /\ ldpc = "add"
        /\ UNCHANGED <<pcb, done, gone>>
    BY <1>1
  <2>2. i' \in 1..(Len(work') + 1)
    BY <1>1, <2>1
  <2>3. \A p \in Procs : (p < i' => pcb'[p] # "none") /\ (p > i' => pcb'[p] = "none")
    BY <1>1, <2>1 DEF LoaderInv, Procs
  <2>4. i' \in Procs => pcb'[i'] = "none"
    BY <1>1, <2>1 DEF LoaderInv, Procs
  <2>5. QED
    BY <2>1, <2>2, <2>3, <2>4 DEF LoaderInv
<1>5. RunInv'
  BY <1>1 DEF RunInv
<1>6. StartInv'
  BY <1>1 DEF StartInv
<1>7. QED
  BY <1>2, <1>3, <1>4, <1>5, <1>6

\* add_proc, second section: the process joins its ready queue, where it was not.
LEMMA AddReadyQueue ==
  ASSUME RestInv, AddReady, NEW gap \in [Prios -> Nat], QueueInvBut(gap)
  PROVE  QueueInvBut(gap)'
<1> USE DEF RestInv, AddReady, configVars, cpuVars
<1>1. /\ i \in 1..Len(work) /\ i \in Procs /\ pcb[i] = "live" /\ i \in Nat
      /\ i' = i + 1 /\ UNCHANGED <<work, proc, pcb>>
  BY IndexFacts DEF LoaderInv
<1>2. \A x \in Prios : \A n \in 1..Len(mlq[x]) : n # gap[x] => mlq[x][n] # i
  BY <1>1 DEF QueueInvBut
<1>3. \A c \in Cpus : proc[c] # i
  BY <1>1 DEF RunInv, NULL
<1>4. TypeOK /\ mlq' = Ready(i)
  OBVIOUS
<1>5. \A x \in Prios : Len(mlq[x]) \in Nat
  BY LenProperties DEF TypeOK
<1> HIDE DEF RestInv, AddReady
<1>6. \A x \in Prios : \A n \in 1..Len(mlq'[x]) :
         \/ n \in 1..Len(mlq[x]) /\ mlq'[x][n] = mlq[x][n]
         \/ n = Len(mlq[x]) + 1 /\ x = work[i].prio /\ mlq'[x][n] = i
  BY <1>1, <1>4, ReadyEffect
<1>7. ASSUME NEW x \in Prios, NEW n \in 1..Len(mlq'[x]), n # gap[x]
      PROVE  /\ mlq'[x][n] \in 1..Len(work) /\ mlq'[x][n] < i'
             /\ pcb[mlq'[x][n]] = "live" /\ work[mlq'[x][n]].prio = x
             /\ \A m \in 1..Len(mlq'[x]) :
                  m # gap[x] /\ mlq'[x][m] = mlq'[x][n] => m = n
             /\ \A c \in Cpus : proc[c] # mlq'[x][n]
  <2>1. CASE n \in 1..Len(mlq[x])
    <3>1. /\ mlq[x][n] \in 1..Len(work) /\ mlq[x][n] < i
          /\ pcb[mlq[x][n]] = "live" /\ work[mlq[x][n]].prio = x
          /\ \A m \in 1..Len(mlq[x]) :
               m # gap[x] /\ mlq[x][m] = mlq[x][n] => m = n
          /\ \A c \in Cpus : proc[c] # mlq[x][n]
      BY <1>7, <2>1 DEF QueueInvBut
    <3>2. mlq'[x][n] = mlq[x][n]
      BY <1>5, <1>6, <2>1
    <3>3. mlq'[x][n] < i'
      BY <1>1, <3>1, <3>2
    <3>4. \A m \in 1..Len(mlq'[x]) :
            m # gap[x] /\ mlq'[x][m] = mlq'[x][n] => m = n
      BY <1>2, <1>6, <1>7, <2>1, <3>1, <3>2
    <3>5. QED
      BY <3>1, <3>2, <3>3, <3>4
  <2>2. CASE n \notin 1..Len(mlq[x])
    <3>1. n = Len(mlq[x]) + 1 /\ x = work[i].prio /\ mlq'[x][n] = i
      BY <1>6, <2>2
    <3>2. \A m \in 1..Len(mlq'[x]) :
            m # gap[x] /\ mlq'[x][m] = mlq'[x][n] => m = n
      BY <1>2, <1>6, <3>1
    <3>3. mlq'[x][n] < i'
      BY <1>1, <3>1
    <3>4. \A c \in Cpus : proc[c] # mlq'[x][n]
      BY <1>3, <3>1
    <3>5. QED
      BY <1>1, <3>1, <3>2, <3>3, <3>4
  <2>3. QED
    BY <2>1, <2>2
<1>8. QED
  BY <1>1, <1>7 DEF QueueInvBut

\* The loader exits after the last process.
LEMMA FinishLoadingRest == ASSUME RestInv, FinishLoading PROVE RestInv'
<1> USE OsAssumption DEF RestInv, FinishLoading, configVars, queueVars, cpuVars,
                         Clock!Leave, Clock!Working, Devices
<1>1. TypeOK'
  BY DEF TypeOK, Clock!ClockTypeOK
<1>2. ClockInv' /\ CpuInv'
  BY DEF ClockInv, CpuInv
<1>3. LoaderInv'
  BY IndexFacts DEF LoaderInv
<1>4. RunInv' /\ StartInv'
  BY DEF RunInv, StartInv
<1>5. QED
  BY <1>1, <1>2, <1>3, <1>4

\* The steps of the loader keep what the invariant says apart from the queues.
LEMMA LoaderRest == ASSUME RestInv, LoaderStep PROVE RestInv'
  BY LoadRest, AwaitStartRest, AddListRest, AddReadyRest, FinishLoadingRest
  DEF LoaderStep

\* They also keep what it says of the queues, whatever place is left out.
LEMMA LoaderQueue ==
  ASSUME RestInv, LoaderStep, NEW gap \in [Prios -> Nat], QueueInvBut(gap)
  PROVE  QueueInvBut(gap)'
<1>1. CASE AddReady
  BY <1>1, AddReadyQueue
<1>2. CASE Load
  <2>1. /\ i \in Procs /\ i \in Nat /\ pcb' = [pcb EXCEPT ![i] = "live"]
        /\ pcb \in [Procs -> {"none", "live", "freed"}]
        /\ \A p \in 1..Len(work) : p \in Procs
        /\ UNCHANGED <<work, i, mlq, proc>>
    BY <1>2, IndexFacts DEF Load, RestInv, TypeOK, configVars, queueVars, cpuVars
  <2>2. \A p \in 1..Len(work) : p < i => pcb'[p] = pcb[p]
    BY <2>1
  <2>3. QED
    BY <2>1, <2>2 DEF QueueInvBut
<1>3. CASE AwaitStart \/ AddList \/ FinishLoading
  BY <1>3 DEF AwaitStart, AddList, FinishLoading, configVars, queueVars, loaderVars,
              cpuVars, QueueInvBut
<1>4. QED
  BY <1>1, <1>2, <1>3 DEF LoaderStep

\* QueueInv leaves no place out.
LEMMA NoGap == ASSUME NEW gap, \A x \in Prios : gap[x] = 0
               PROVE  QueueInv <=> QueueInvBut(gap)
  BY DEF QueueInv, QueueInvBut

\* The steps of the loader keep the invariant.
LEMMA LoaderIInv == ASSUME IInv, LoaderStep PROVE IInv'
<1>1. PICK gap \in [Prios -> Nat] : \A x \in Prios : gap[x] = 0
  <2>1. [x \in Prios |-> 0] \in [Prios -> Nat]
    OBVIOUS
  <2>2. QED
    BY <2>1
<1>2. RestInv /\ QueueInvBut(gap)
  BY <1>1, NoGap DEF IInv, RestInv
<1>3. RestInv' /\ QueueInvBut(gap)'
  BY <1>1, <1>2, LoaderRest, LoaderQueue
<1>4. QueueInv'
  BY <1>1, <1>3 DEF QueueInv, QueueInvBut
<1>5. QED
  BY <1>3, <1>4 DEF IInv, RestInv

\* get_proc hands the head of a queue to the calling CPU and to nobody else.
LEMMA TakeEffect ==
  ASSUME IInv, NEW c \in Cpus, proc[c] = NULL, mlq' = Dequeued,
         proc' = [proc EXCEPT ![c] = NextProc], UNCHANGED <<work, i, pcb>>
  PROVE  /\ mlq' \in [Prios -> Seq(Procs)]
         /\ \A x \in Prios : Len(mlq'[x]) <= MaxQueueSize
         /\ proc' \in [Cpus -> Procs \union {NULL}]
         /\ QueueInv' /\ RunInv'
<1>0. /\ TypeOK /\ QueueInv /\ RunInv /\ proc \in [Cpus -> Procs \union {NULL}]
      /\ mlq \in [Prios -> Seq(Procs)] /\ \A x \in Prios : Len(mlq[x]) <= MaxQueueSize
  BY DEF IInv, TypeOK
<1>1. \A d \in Cpus : proc'[d] = IF d = c THEN NextProc ELSE proc[d]
  BY <1>0
<1>2. CASE Waiting = {}
  <2>1. NextProc = NULL /\ mlq' = mlq
    BY <1>2 DEF NextProc, Dequeued
  <2>2. proc' = proc
    BY <1>0, <2>1
  <2>3. QED
    BY <1>0, <2>1, <2>2 DEF QueueInv, RunInv
<1>3. CASE Waiting # {}
  <2> DEFINE t == TopPrio
             p == NextProc
  <2>1. /\ t \in Prios /\ Len(mlq[t]) \in Nat /\ Len(mlq[t]) >= 1
        /\ p = mlq[t][1] /\ p \in Procs
        /\ mlq' \in [Prios -> Seq(Procs)]
        /\ \A x \in Prios : Len(mlq'[x]) <= MaxQueueSize
        /\ \A x \in Prios : x # t => mlq'[x] = mlq[x]
        /\ Len(mlq'[t]) = Len(mlq[t]) - 1
        /\ \A n \in 1..Len(mlq'[t]) : mlq'[t][n] = mlq[t][n + 1]
    BY <1>0, <1>3, DequeueEffect, LenProperties
  <2> HIDE DEF t, p
  <2>2. /\ p \in 1..Len(work) /\ p < i /\ pcb[p] = "live" /\ work[p].prio = t
        /\ \A d \in Cpus : proc[d] # p
        /\ \A n \in 1..Len(mlq[t]) : mlq[t][n] = p => n = 1
    BY <1>0, <2>1 DEF QueueInv
  <2>3. \A d \in Cpus : proc'[d] = IF d = c THEN p ELSE proc[d]
    BY <1>1 DEF p
  <2>4. RunInv'
    BY <1>0, <2>2, <2>3 DEF RunInv
  <2>5. \A x \in Prios : \A n \in 1..Len(mlq'[x]) :
          \E k \in 1..Len(mlq[x]) :
            mlq'[x][n] = mlq[x][k] /\ mlq[x][k] # p /\ k = IF x = t THEN n + 1 ELSE n
    <3> SUFFICES ASSUME NEW x \in Prios, NEW n \in 1..Len(mlq'[x])
                 PROVE  \E k \in 1..Len(mlq[x]) :
                          /\ mlq'[x][n] = mlq[x][k] /\ mlq[x][k] # p
                          /\ k = IF x = t THEN n + 1 ELSE n
      OBVIOUS
    <3>1. CASE x = t
      BY <2>1, <2>2, <3>1
    <3>2. CASE x # t
      BY <1>0, <2>1, <2>2, <3>2 DEF QueueInv
    <3>3. QED
      BY <3>1, <3>2
  <2>6. ASSUME NEW x \in Prios, NEW n \in 1..Len(mlq'[x])
        PROVE  /\ mlq'[x][n] \in 1..Len(work) /\ mlq'[x][n] < i
               /\ pcb[mlq'[x][n]] = "live" /\ work[mlq'[x][n]].prio = x
               /\ \A m \in 1..Len(mlq'[x]) : mlq'[x][m] = mlq'[x][n] => m = n
               /\ \A d \in Cpus : proc'[d] # mlq'[x][n]
    <3>1. PICK k \in 1..Len(mlq[x]) :
            mlq'[x][n] = mlq[x][k] /\ mlq[x][k] # p /\ k = IF x = t THEN n + 1 ELSE n
      BY <2>5
    <3>2. /\ mlq[x][k] \in 1..Len(work) /\ mlq[x][k] < i
          /\ pcb[mlq[x][k]] = "live" /\ work[mlq[x][k]].prio = x
          /\ \A m \in 1..Len(mlq[x]) : mlq[x][m] = mlq[x][k] => m = k
          /\ \A d \in Cpus : proc[d] # mlq[x][k]
      BY <1>0 DEF QueueInv
    <3>3. \A m \in 1..Len(mlq'[x]) : mlq'[x][m] = mlq'[x][n] => m = n
      BY <2>5, <3>1, <3>2
    <3>4. QED
      BY <2>3, <3>1, <3>2, <3>3
  <2>7. QueueInv'
    BY <2>6 DEF QueueInv
  <2>8. proc' \in [Cpus -> Procs \union {NULL}]
    BY <1>0, <2>1 DEF p
  <2>9. QED
    BY <2>1, <2>4, <2>7, <2>8
<1>4. QED
  BY <1>2, <1>3

\* A CPU without a process takes one or skips the slot.
LEMMA TakeFirstIInv == ASSUME IInv, NEW c \in Cpus, TakeFirst(c) PROVE IInv'
<1>0. TypeOK /\ ClockInv /\ LoaderInv /\ CpuInv /\ StartInv
  BY DEF IInv
<1> USE DEF TakeFirst, configVars, loaderVars, Clock!Arrive, Clock!Working, clockVars
<1>1. /\ mlq' \in [Prios -> Seq(Procs)]
      /\ \A x \in Prios : Len(mlq'[x]) <= MaxQueueSize
      /\ proc' \in [Cpus -> Procs \union {NULL}] /\ QueueInv' /\ RunInv'
  BY TakeEffect
<1>2. TypeOK'
  BY <1>0, <1>1 DEF TypeOK, Clock!ClockTypeOK
<1>3. ClockInv' /\ LoaderInv' /\ StartInv'
  BY <1>0, OsAssumption DEF ClockInv, LoaderInv, StartInv
<1>4. CpuInv'
  BY <1>0 DEF CpuInv, TypeOK
<1>5. QED
  BY <1>1, <1>2, <1>3, <1>4 DEF IInv

\* A CPU that has finished with its process or put it back takes the next one.
LEMMA TakeNextIInv == ASSUME IInv, NEW c \in Cpus, TakeNext(c) PROVE IInv'
<1>0. TypeOK /\ ClockInv /\ LoaderInv /\ CpuInv /\ StartInv
  BY DEF IInv
<1> USE DEF TakeNext, configVars, loaderVars, clockVars
<1>1. /\ mlq' \in [Prios -> Seq(Procs)]
      /\ \A x \in Prios : Len(mlq'[x]) <= MaxQueueSize
      /\ proc' \in [Cpus -> Procs \union {NULL}] /\ QueueInv' /\ RunInv'
  BY <1>0, TakeEffect DEF CpuInv
<1>2. TypeOK'
  BY <1>0, <1>1 DEF TypeOK, Clock!ClockTypeOK
<1>3. ClockInv' /\ LoaderInv' /\ StartInv'
  BY <1>0, OsAssumption DEF ClockInv, LoaderInv, StartInv
<1>4. CpuInv'
  BY <1>0 DEF CpuInv, TypeOK
<1>5. QED
  BY <1>1, <1>2, <1>3, <1>4 DEF IInv

\* A CPU frees the process that has executed its last instruction; nobody else
\* holds it.
LEMMA FinishIInv == ASSUME IInv, NEW c \in Cpus, Finish(c) PROVE IInv'
<1>0. TypeOK /\ ClockInv /\ LoaderInv /\ CpuInv /\ QueueInv /\ RunInv /\ StartInv
  BY DEF IInv
<1> USE DEF Finish, configVars, loaderVars, clockVars, queueVars, Clock!Working
<1>1. /\ proc[c] \in Procs /\ proc[c] < i /\ i \in Nat /\ TimeSlots \subseteq Nat
      /\ \A d \in Cpus : proc[d] = proc[c] => d = c
  BY <1>0, IndexFacts, OsAssumption DEF RunInv
<1>2. TypeOK'
  BY <1>0, <1>1 DEF TypeOK, Clock!ClockTypeOK
<1>3. ClockInv' /\ StartInv'
  BY <1>0 DEF ClockInv, StartInv
<1>4. LoaderInv'
  BY <1>0, <1>1 DEF LoaderInv, TypeOK, Procs
<1>5. CpuInv'
  BY <1>0 DEF CpuInv, TypeOK
<1>6. QueueInv'
  BY <1>0, <1>1 DEF QueueInv, TypeOK, NULL, Procs
<1>7. RunInv'
  BY <1>0, <1>1 DEF RunInv, TypeOK, NULL, Procs
<1>8. QED
  BY <1>2, <1>3, <1>4, <1>5, <1>6, <1>7 DEF IInv

\* put_proc, first section: only the list of running processes changes.
LEMMA YieldIInv == ASSUME IInv, NEW c \in Cpus, Yield(c) PROVE IInv'
<1>0. TypeOK /\ ClockInv /\ LoaderInv /\ CpuInv /\ QueueInv /\ RunInv /\ StartInv
  BY DEF IInv
<1> USE DEF Yield, configVars, loaderVars, clockVars, Clock!Working
<1>1. proc[c] \in Procs /\ proc[c] \in 1..Len(work)
  BY <1>0, IndexFacts DEF RunInv
<1>2. running_list' \in Seq(Procs) /\ Len(running_list') <= MaxQueueSize
  BY <1>0, <1>1, EnqueueEffect DEF TypeOK
<1>3. TypeOK'
  BY <1>0, <1>2 DEF TypeOK, Clock!ClockTypeOK
<1>4. ClockInv' /\ StartInv' /\ LoaderInv'
  BY <1>0 DEF ClockInv, StartInv, LoaderInv
<1>5. pc[proc[c]] < work[proc[c]].size
  BY <1>0, <1>1, IndexFacts DEF TypeOK
<1>6. CpuInv'
  BY <1>0, <1>5 DEF CpuInv, TypeOK
<1>7. QueueInv' /\ RunInv'
  BY <1>0 DEF QueueInv, RunInv
<1>8. QED
  BY <1>3, <1>4, <1>6, <1>7 DEF IInv

\* put_proc, second section: the process leaves the CPU for its ready queue.
LEMMA PutReadyIInv == ASSUME IInv, NEW c \in Cpus, PutReady(c) PROVE IInv'
<1>0. TypeOK /\ ClockInv /\ LoaderInv /\ CpuInv /\ QueueInv /\ RunInv /\ StartInv
  BY DEF IInv
<1> USE DEF PutReady, configVars, loaderVars, clockVars
<1> DEFINE p == proc[c]
<1>1. /\ p \in 1..Len(work) /\ p < i /\ pcb[p] = "live" /\ p # NULL /\ p \in Procs
      /\ \A d \in Cpus : proc[d] = p => d = c
  BY <1>0, IndexFacts DEF CpuInv, RunInv
<1>2. /\ mlq' = Ready(p) /\ UNCHANGED <<work, i, pcb>>
      /\ \A d \in Cpus : proc'[d] = IF d = c THEN NULL ELSE proc[d]
  BY <1>0 DEF TypeOK
<1>3. mlq' \in [Prios -> Seq(Procs)] /\ \A x \in Prios : Len(mlq'[x]) <= MaxQueueSize
  BY <1>0, <1>1, ReadyEffect
<1>4. TypeOK'
  BY <1>0, <1>3 DEF TypeOK, Clock!ClockTypeOK
<1>5. ClockInv' /\ StartInv' /\ LoaderInv'
  BY <1>0 DEF ClockInv, StartInv, LoaderInv
<1>6. CpuInv'
  BY <1>0 DEF CpuInv, TypeOK
<1>7. \A x \in Prios : \A n \in 1..Len(mlq'[x]) :
         \/ n \in 1..Len(mlq[x]) /\ mlq'[x][n] = mlq[x][n]
         \/ n = Len(mlq[x]) + 1 /\ x = work[p].prio /\ mlq'[x][n] = p
  BY <1>0, <1>1, <1>2, ReadyEffect
<1> HIDE DEF p
<1>8. \A x \in Prios : Len(mlq[x]) \in Nat
  BY <1>0, LenProperties DEF TypeOK
<1>9. \A x \in Prios : \A n \in 1..Len(mlq[x]) : mlq[x][n] # p
  BY <1>0 DEF QueueInv, p
<1>10. ASSUME NEW x \in Prios, NEW n \in 1..Len(mlq'[x])
       PROVE  /\ mlq'[x][n] \in 1..Len(work) /\ mlq'[x][n] < i
              /\ pcb[mlq'[x][n]] = "live" /\ work[mlq'[x][n]].prio = x
              /\ \A m \in 1..Len(mlq'[x]) : mlq'[x][m] = mlq'[x][n] => m = n
              /\ \A d \in Cpus : proc'[d] # mlq'[x][n]
  <2>1. CASE n \in 1..Len(mlq[x])
    <3>1. mlq'[x][n] = mlq[x][n]
      BY <1>7, <1>8, <2>1
    <3>2. /\ mlq[x][n] \in 1..Len(work) /\ mlq[x][n] < i /\ mlq[x][n] # NULL
          /\ pcb[mlq[x][n]] = "live" /\ work[mlq[x][n]].prio = x
          /\ \A m \in 1..Len(mlq[x]) : mlq[x][m] = mlq[x][n] => m = n
          /\ \A d \in Cpus : proc[d] # mlq[x][n]
      BY <1>0, <2>1 DEF QueueInv, NULL
    <3>3. QED
      BY <1>2, <1>7, <1>8, <1>9, <2>1, <3>1, <3>2
  <2>2. CASE n \notin 1..Len(mlq[x])
    <3>1. n = Len(mlq[x]) + 1 /\ x = work[p].prio /\ mlq'[x][n] = p
      BY <1>7, <2>2
    <3>2. \A m \in 1..Len(mlq'[x]) : mlq'[x][m] = p => m = n
      BY <1>7, <1>9, <3>1
    <3>3. \A d \in Cpus : proc'[d] # p
      BY <1>1, <1>2 DEF p
    <3>4. QED
      BY <1>1, <3>1, <3>2, <3>3
  <2>3. QED
    BY <2>1, <2>2
<1>11. QueueInv'
  BY <1>2, <1>10 DEF QueueInv
<1>12. RunInv'
  BY <1>0, <1>2 DEF RunInv
<1>13. QED
  BY <1>4, <1>5, <1>6, <1>11, <1>12 DEF IInv

\* A CPU that has found no process stops or skips the slot.
LEMMA CheckIInv == ASSUME IInv, NEW c \in Cpus, Check(c) PROVE IInv'
<1>0. TypeOK /\ ClockInv /\ LoaderInv /\ CpuInv /\ QueueInv /\ RunInv /\ StartInv
  BY DEF IInv
<1> USE DEF Check, configVars, loaderVars, queueVars, Clock!Arrive, Clock!Leave,
            Clock!Working, Devices
<1>1. TypeOK'
  BY <1>0 DEF TypeOK, Clock!ClockTypeOK
<1>2. ClockInv' /\ StartInv' /\ LoaderInv'
  BY <1>0, OsAssumption DEF ClockInv, StartInv, LoaderInv
<1>3. CpuInv'
  BY <1>0 DEF CpuInv, TypeOK
<1>4. QueueInv' /\ RunInv'
  BY <1>0 DEF QueueInv, RunInv
<1>5. QED
  BY <1>1, <1>2, <1>3, <1>4 DEF IInv

\* A CPU runs one instruction of its process and ends its slot.
LEMMA RunIInv == ASSUME IInv, NEW c \in Cpus, Run(c) PROVE IInv'
<1>0. TypeOK /\ ClockInv /\ LoaderInv /\ CpuInv /\ QueueInv /\ RunInv /\ StartInv
  BY DEF IInv
<1> USE DEF Run, configVars, loaderVars, queueVars, Clock!Arrive, Clock!Working
<1>1. /\ proc[c] # NULL /\ proc[c] \in 1..Len(work) /\ proc[c] \in Procs
      /\ work[proc[c]].size \in Nat
  BY <1>0, IndexFacts DEF RunInv, CpuInv
<1>2. TypeOK'
  <2>1. pc' \in [Procs -> Nat] /\ \A p \in DOMAIN work' : pc'[p] <= work'[p].size
    <3>1. /\ pc \in [Procs -> Nat] /\ \A p \in DOMAIN work : pc[p] <= work[p].size
          /\ UNCHANGED work /\ DOMAIN work \subseteq Procs
      BY <1>0, IndexFacts DEF TypeOK
    <3>2. PICK p : p = proc[c]
      OBVIOUS
    <3>3. p \in Procs /\ work[p].size \in Nat
      BY <1>1, <3>2
    <3>4. pc' = [pc EXCEPT ![p] = IF @ >= work[p].size THEN @ ELSE @ + 1]
      BY <3>2
    <3> HIDE DEF Run
    <3>5. pc' \in [Procs -> Nat] /\ \A q \in Procs \ {p} : pc'[q] = pc[q]
      BY <3>1, <3>3, <3>4
    <3>6. p \in DOMAIN work => pc'[p] <= work[p].size
      <4>1. pc'[p] = IF pc[p] >= work[p].size THEN pc[p] ELSE pc[p] + 1
        BY <3>1, <3>3, <3>4
      <4>2. pc[p] \in Nat /\ (p \in DOMAIN work => pc[p] <= work[p].size)
        BY <3>1, <3>3
      <4>3. QED
        BY <3>3, <4>1, <4>2
    <3>7. QED
      BY <3>1, <3>5, <3>6
  <2>2. time_left' \in [Cpus -> Int] /\ \A d \in Cpus : time_left'[d] <= time_slot'
    BY <1>0, OsAssumption DEF TypeOK
  <2>3. Clock!ClockTypeOK'
    BY <1>0 DEF Clock!ClockTypeOK, TypeOK
  <2>4. QED
    BY <1>0, <2>1, <2>2, <2>3 DEF TypeOK
<1>3. ClockInv' /\ StartInv' /\ LoaderInv'
  BY <1>0, OsAssumption DEF ClockInv, StartInv, LoaderInv
<1>4. \A d \in Cpus : cpc[d] = "put" => pc'[proc[d]] = pc[proc[d]]
  BY <1>0, <1>1 DEF TypeOK, RunInv
<1>5. CpuInv'
  BY <1>0, <1>4 DEF CpuInv, TypeOK
<1>6. QueueInv' /\ RunInv'
  BY <1>0 DEF QueueInv, RunInv
<1>7. QED
  BY <1>2, <1>3, <1>5, <1>6 DEF IInv

\* A tick of the clock, or its end.
LEMMA TimerStepIInv == ASSUME IInv, TimerStep PROVE IInv'
<1>0. TypeOK /\ ClockInv /\ LoaderInv /\ CpuInv /\ QueueInv /\ RunInv /\ StartInv
  BY DEF IInv
<1> USE DEF TimerStep, configVars, loaderVars, queueVars, cpuVars, Clock!Tick,
            Clock!Halt, Clock!Later
<1>1. now \in 0..Horizon /\ now' \in 0..Horizon /\ now' >= now
  BY <1>0, OsAssumption DEF TypeOK, Clock!ClockTypeOK
<1>2. TypeOK'
  BY <1>0, <1>1 DEF TypeOK, Clock!ClockTypeOK
<1>3. ClockInv' /\ LoaderInv' /\ CpuInv'
  BY <1>0 DEF ClockInv, LoaderInv, CpuInv
<1>4. StartInv'
  <2>1. \A p \in 1..Len(work) : work[p].start \in 0..Horizon
    BY <1>0, IndexFacts
  <2>2. QED
    BY <1>0, <1>1, <2>1 DEF StartInv
<1>5. QueueInv' /\ RunInv'
  BY <1>0 DEF QueueInv, RunInv
<1>6. QED
  BY <1>2, <1>3, <1>4, <1>5 DEF IInv

\* Every step of every thread keeps the invariant.
LEMMA NextIInv == IInv /\ [Next]_vars => IInv'
<1> SUFFICES ASSUME IInv, [Next]_vars PROVE IInv'
  OBVIOUS
<1>1. CASE LoaderStep
  BY <1>1, LoaderIInv
<1>2. ASSUME NEW c \in Cpus, CpuStep(c) PROVE IInv'
  BY <1>2, TakeFirstIInv, FinishIInv, YieldIInv, PutReadyIInv, TakeNextIInv,
     CheckIInv, RunIInv DEF CpuStep
<1>3. CASE TimerStep
  BY <1>3, TimerStepIInv
<1>4. CASE UNCHANGED vars
  BY <1>4 DEF vars, configVars, clockVars, queueVars, loaderVars, cpuVars, IInv,
              TypeOK, Clock!ClockTypeOK, ClockInv, LoaderInv, CpuInv, QueueInv,
              RunInv, StartInv
<1>5. QED
  BY <1>1, <1>2, <1>3, <1>4 DEF Next, Terminated

\* For every number of CPUs, processes, levels and every configuration, the state
\* has its type and the threads own the processes as the invariant says.
THEOREM Invariance == Spec => []IInv
<1>1. Init => IInv
  BY InitIInv
<1>2. IInv /\ [Next]_vars => IInv'
  BY NextIInv
<1>3. QED
  BY <1>1, <1>2, PTL DEF Spec

\* The state has its type at every step, whatever the configuration: in particular
\* no queue outgrows its array (enqueue), no CPU has more than its quantum left and
\* no process executes more instructions than its program has.
THEOREM TypeCorrect == Spec => []TypeOK
  BY Invariance, PTL DEF IInv

\* A place in a ready queue is a level and a position.
LEMMA SlotFacts ==
  /\ \A x \in Prios : \A n \in 1..Len(mlq[x]) : <<x, n>> \in QueueSlots
  /\ \A s \in QueueSlots :
       /\ s = <<s[1], s[2]>> /\ s[1] \in Prios /\ s[2] \in 1..Len(mlq[s[1]])
<1>1. ASSUME NEW x \in Prios, NEW n \in 1..Len(mlq[x])
      PROVE  <<x, n>> \in QueueSlots
  <2>1. <<x, n>> \in {x} \X (1..Len(mlq[x]))
    OBVIOUS
  <2>2. QED
    BY <2>1 DEF QueueSlots
<1>2. ASSUME NEW s \in QueueSlots
      PROVE  /\ s = <<s[1], s[2]>> /\ s[1] \in Prios /\ s[2] \in 1..Len(mlq[s[1]])
  <2>1. PICK x \in Prios : s \in {x} \X (1..Len(mlq[x]))
    BY DEF QueueSlots
  <2>2. QED
    BY <2>1
<1>3. QED
  BY <1>1, <1>2

\* The processes in the ready queues are those at some place of some queue.
LEMMA QueuedFacts ==
  \A p : p \in Queued <=> \E x \in Prios : \E n \in 1..Len(mlq[x]) : mlq[x][n] = p
<1>1. ASSUME NEW x \in Prios, NEW n \in 1..Len(mlq[x]) PROVE mlq[x][n] \in Queued
  <2>1. <<x, n>> \in QueueSlots
    BY SlotFacts
  <2>2. QED
    BY <2>1 DEF Queued
<1>2. ASSUME NEW p \in Queued
      PROVE  \E x \in Prios : \E n \in 1..Len(mlq[x]) : mlq[x][n] = p
  <2>1. PICK s \in QueueSlots : p = mlq[s[1]][s[2]]
    BY DEF Queued
  <2>2. QED
    BY <2>1, SlotFacts
<1>3. QED
  BY <1>1, <1>2

\* What the invariant says of the places of a process: it is at one of them only.
LEMMA OwnersApart == ASSUME IInv PROVE OneOwner
<1>0. TypeOK /\ LoaderInv /\ QueueInv /\ RunInv
  BY DEF IInv
<1>1. \A c, d \in Cpus : proc[c] = proc[d] => c = d \/ proc[c] = NULL
  BY <1>0 DEF RunInv
<1>2. ASSUME NEW s \in QueueSlots, NEW t \in QueueSlots,
             mlq[s[1]][s[2]] = mlq[t[1]][t[2]]
      PROVE  s = t
  <2>1. /\ s = <<s[1], s[2]>> /\ s[1] \in Prios /\ s[2] \in 1..Len(mlq[s[1]])
        /\ t = <<t[1], t[2]>> /\ t[1] \in Prios /\ t[2] \in 1..Len(mlq[t[1]])
    BY SlotFacts
  <2>2. s[1] = work[mlq[s[1]][s[2]]].prio /\ t[1] = work[mlq[t[1]][t[2]]].prio
    BY <1>0, <2>1 DEF QueueInv
  <2>3. s[1] = t[1]
    BY <1>2, <2>2
  <2>4. s[2] = t[2]
    BY <1>0, <1>2, <2>1, <2>3 DEF QueueInv
  <2>5. QED
    BY <2>1, <2>3, <2>4
<1>3. Queued \intersect Running = {}
  BY <1>0, QueuedFacts DEF QueueInv, Running
<1>4. \A p \in Queued \union Running : p < i
  <2>1. \A p \in Queued : p < i
    BY <1>0, QueuedFacts DEF QueueInv
  <2>2. \A p \in Running : p < i
    BY <1>0 DEF RunInv, Running
  <2>3. QED
    BY <2>1, <2>2
<1>5. WithLoader \intersect (Queued \union Running) = {}
  BY <1>0, <1>4, IndexFacts DEF WithLoader
<1>6. QED
  BY <1>1, <1>2, <1>3, <1>5 DEF OneOwner

\* No process is ever in two places: on two CPUs, twice in the ready queues, on a
\* CPU and in a queue, or there while the loader still prepares it.  It holds for
\* every configuration, queues that overflow included.
THEOREM OneOwnerHolds == Spec => []OneOwner
<1>1. IInv => OneOwner
  BY OwnersApart
<1>2. QED
  BY <1>1, Invariance, PTL

\* No process executes an instruction before its start time (ld_routine).
THEOREM NotBeforeStartHolds == Spec => NotBeforeStart
<1>1. ASSUME IInv, [Next]_vars, NEW p \in Procs, pc'[p] # pc[p]
      PROVE  now >= work[p].start
  <2>0. TypeOK /\ LoaderInv /\ CpuInv /\ RunInv /\ StartInv
    BY <1>1 DEF IInv
  <2>1. PICK c \in Cpus : Run(c)
    <3>1. UNCHANGED pc \/ \E c \in Cpus : Run(c)
      BY <1>1 DEF vars, Next, Terminated, TimerStep, LoaderStep, Load, AwaitStart,
                  AddList, AddReady, FinishLoading, CpuStep, TakeFirst, Finish,
                  Yield, PutReady, TakeNext, Check
    <3>2. QED
      BY <1>1, <3>1
  <2>2. p = proc[c] /\ proc[c] # NULL
    BY <1>1, <2>0, <2>1 DEF Run, TypeOK, CpuInv
  <2>3. p \in 1..Len(work) /\ p < i
    BY <2>0, <2>2 DEF RunInv
  <2>4. QED
    BY <2>0, <2>3 DEF StartInv
<1>2. IInv /\ [Next]_vars =>
        [\A p \in Procs : pc'[p] # pc[p] => now >= work[p].start]_vars
  BY <1>1
<1>3. QED
  BY <1>2, Invariance, PTL DEF Spec, NotBeforeStart

--------------------------------------------------------------------------------
(* enqueue drops a process when the queue is full, so what follows is for  *)
(* configurations of which no level has more processes than a queue holds: *)
(* with the MAX_QUEUE_SIZE of queue.h, those of up to ten processes.       *)

LevelsFit ==
  \A w \in Workloads, x \in Prios :
    Cardinality({p \in DOMAIN w : w[p].prio = x}) <= MaxQueueSize

\* A process is in a ready queue, on a CPU or the loader's.
Held(p) ==
  \/ \E x \in Prios : \E n \in 1..Len(mlq[x]) : mlq[x][n] = p
  \/ \E c \in Cpus : proc[c] = p
  \/ p = i

\* Every live process is.
HeldInv == \A p \in Procs : pcb[p] = "live" => Held(p)

\* When every CPU has found the queues empty, they are empty until the loader's
\* next slot: a CPU that waits for the next slot keeps the loader from it too.
StopInv ==
  (\A c \in Cpus : cpc[c] \in {"check", "gone"}) /\ Loader \notin arrived
    => \A x \in Prios : mlq[x] = <<>>

\* If k processes have the level of process p and are not p, another place is left
\* in a queue of their level.
LEMMA RoomFor ==
  ASSUME work \in Workloads, LevelsFit, NEW p \in 1..Len(work), NEW k \in Nat,
         NEW f \in Injection(1..k,
                     {r \in 1..Len(work) : work[r].prio = work[p].prio} \ {p})
  PROVE  k < MaxQueueSize
<1> DEFINE S == {r \in 1..Len(work) : work[r].prio = work[p].prio}
<1>1. /\ work[p].prio \in Prios /\ DOMAIN work = 1..Len(work) /\ Len(work) \in Nat
  BY WorkType
<1>2. IsFiniteSet(S)
  <2>1. IsFiniteSet(1..Len(work))
    BY <1>1, FS_Interval
  <2>2. S \in SUBSET (1..Len(work))
    OBVIOUS
  <2>3. QED
    BY <2>1, <2>2, FS_Subset
<1>3. Cardinality(S) <= MaxQueueSize
  <2>1. S = {r \in DOMAIN work : work[r].prio = work[p].prio}
    BY <1>1
  <2>2. QED
    BY <1>1, <2>1 DEF LevelsFit
<1>4. p \in S
  OBVIOUS
<1>5. /\ IsFiniteSet(S \ {p}) /\ Cardinality(S \ {p}) = Cardinality(S) - 1
      /\ Cardinality(S) \in Nat /\ Cardinality(S \ {p}) \in Nat
  BY <1>2, <1>4, FS_RemoveElement, FS_CardinalityType
<1>6. Cardinality(1..k) <= Cardinality(S \ {p})
  <2>1. f \in Injection(1..k, S \ {p})
    OBVIOUS
  <2> HIDE DEF S
  <2>2. QED
    BY <1>5, <2>1, FS_Injection
<1>7. Cardinality(1..k) = k
  BY FS_Interval
<1> HIDE DEF S
<1>8. QED
  BY <1>3, <1>5, <1>6, <1>7, OsAssumption

\* A queue whose level fits has room for a process that is not in it: the queue
\* holds other processes of the same level, each once.
LEMMA RoomInQueue ==
  ASSUME IInv, LevelsFit, NEW p \in 1..Len(work),
         \A n \in 1..Len(mlq[work[p].prio]) : mlq[work[p].prio][n] # p
  PROVE  Len(mlq[work[p].prio]) < MaxQueueSize
<1> DEFINE l == work[p].prio
           q == mlq[l]
           S == {r \in 1..Len(work) : work[r].prio = l}
<1>1. /\ TypeOK /\ LoaderInv /\ QueueInv /\ work \in Workloads
  BY DEF IInv, TypeOK
<1>2. l \in Prios
  BY <1>1, IndexFacts
<1>3. Len(q) \in Nat
  BY <1>1, <1>2, LenProperties DEF TypeOK
<1>4. [n \in 1..Len(q) |-> q[n]] \in Injection(1..Len(q), S \ {p})
  <2>1. \A n \in 1..Len(q) : q[n] \in S \ {p}
    BY <1>1, <1>2 DEF QueueInv
  <2>2. \A m, n \in 1..Len(q) : q[m] = q[n] => m = n
    BY <1>1, <1>2 DEF QueueInv
  <2> HIDE DEF q, S
  <2>3. QED
    BY <2>1, <2>2 DEF Injection, IsInjective
<1>5. QED
  BY <1>1, <1>3, <1>4, RoomFor

\* The invariant of configurations whose levels fit.
FitInv == IInv /\ HeldInv /\ StopInv

\* Nothing is live before the loader has started.
LEMMA InitFitInv == Init => HeldInv /\ StopInv
  BY DEF Init, HeldInv, StopInv

\* The steps of the loader keep every live process in its place.
LEMMA LoaderHeld ==
  ASSUME IInv, LevelsFit, LoaderStep, NEW r \in Procs, pcb'[r] = "live",
         pcb[r] = "live" => Held(r)
  PROVE  Held(r)'
<1>0. TypeOK /\ LoaderInv /\ QueueInv
  BY DEF IInv
<1>1. CASE Load
  BY <1>0, <1>1, IndexFacts DEF Load, Held, TypeOK, queueVars, cpuVars
<1>2. CASE AwaitStart \/ AddList \/ FinishLoading
  BY <1>2 DEF AwaitStart, AddList, FinishLoading, Held, queueVars, cpuVars, loaderVars
<1>3. CASE AddReady
  <2>1. i \in 1..Len(work) /\ work[i].prio \in Prios
    BY <1>0, <1>3, IndexFacts DEF AddReady, LoaderInv
  <2>2. Len(mlq[work[i].prio]) < MaxQueueSize
    BY <1>0, <2>1, RoomInQueue DEF QueueInv
  <2>3. mlq' = Ready(i) /\ UNCHANGED <<proc, pcb>>
    BY <1>3 DEF AddReady, cpuVars
  <2>4. /\ \A x \in Prios : \A n \in 1..Len(mlq[x]) :
             n \in 1..Len(mlq'[x]) /\ mlq'[x][n] = mlq[x][n]
        /\ \E x \in Prios : \E n \in 1..Len(mlq'[x]) : mlq'[x][n] = i
    BY <1>0, <2>1, <2>2, <2>3, ReadyEffect
  <2>5. QED
    BY <2>3, <2>4 DEF Held
<1>4. QED
  BY <1>1, <1>2, <1>3 DEF LoaderStep

\* get_proc moves a process from its queue to the CPU and leaves the others.
LEMMA TakeHeld ==
  ASSUME IInv, NEW c \in Cpus, proc[c] = NULL, mlq' = Dequeued,
         proc' = [proc EXCEPT ![c] = NextProc], UNCHANGED i, NEW r \in Procs, Held(r)
  PROVE  Held(r)'
<1>0. /\ TypeOK /\ proc \in [Cpus -> Procs \union {NULL}]
      /\ mlq \in [Prios -> Seq(Procs)]
  BY DEF IInv, TypeOK
<1>1. \A d \in Cpus : proc'[d] = IF d = c THEN NextProc ELSE proc[d]
  BY <1>0
<1>2. CASE Waiting = {}
  <2>1. NextProc = NULL /\ mlq' = mlq
    BY <1>2 DEF NextProc, Dequeued
  <2>2. proc' = proc
    BY <1>0, <2>1
  <2>3. QED
    BY <2>1, <2>2 DEF Held
<1>3. CASE Waiting # {}
  <2> DEFINE t == TopPrio
             p == NextProc
  <2>1. /\ t \in Prios /\ Len(mlq[t]) \in Nat /\ p = mlq[t][1]
        /\ \A x \in Prios : x # t => mlq'[x] = mlq[x]
        /\ Len(mlq'[t]) = Len(mlq[t]) - 1
        /\ \A n \in 1..Len(mlq'[t]) : mlq'[t][n] = mlq[t][n + 1]
    BY <1>0, <1>3, DequeueEffect, LenProperties
  <2> HIDE DEF t, p
  <2>2. proc'[c] = p
    BY <1>1 DEF p
  <2>3. ASSUME NEW x \in Prios, NEW n \in 1..Len(mlq[x])
        PROVE  \/ mlq[x][n] = p
               \/ \E m \in 1..Len(mlq'[x]) : mlq'[x][m] = mlq[x][n]
    <3>1. CASE x # t
      BY <2>1, <3>1
    <3>2. CASE x = t /\ n = 1
      BY <2>1, <3>2
    <3>3. CASE x = t /\ n # 1
      <4>1. n - 1 \in 1..Len(mlq'[t]) /\ (n - 1) + 1 = n
        BY <2>1, <3>3
      <4>2. mlq'[t][n - 1] = mlq[t][n]
        BY <2>1, <4>1
      <4>3. QED
        BY <3>3, <4>1, <4>2
    <3>4. QED
      BY <3>1, <3>2, <3>3
  <2>4. CASE \E x \in Prios : \E n \in 1..Len(mlq[x]) : mlq[x][n] = r
    BY <2>2, <2>3, <2>4 DEF Held
  <2>5. CASE \E d \in Cpus : proc[d] = r
    BY <1>1, <2>5 DEF Held, Procs, NULL
  <2>6. QED
    BY <2>4, <2>5 DEF Held
<1>4. QED
  BY <1>2, <1>3

\* The steps of a CPU keep every live process in its place.
LEMMA CpuHeld ==
  ASSUME IInv, LevelsFit, NEW c \in Cpus, CpuStep(c),
         NEW r \in Procs, pcb'[r] = "live", Held(r)
  PROVE  Held(r)'
<1>0. /\ TypeOK /\ LoaderInv /\ CpuInv /\ QueueInv /\ RunInv
      /\ proc \in [Cpus -> Procs \union {NULL}]
      /\ pcb \in [Procs -> {"none", "live", "freed"}]
  BY DEF IInv, TypeOK
<1>1. CASE TakeFirst(c) \/ TakeNext(c)
  BY <1>0, <1>1, TakeHeld DEF TakeFirst, TakeNext, CpuInv, loaderVars
<1>2. CASE Finish(c)
  <2>1. /\ \A d \in Cpus : d # c => proc'[d] = proc[d]
        /\ UNCHANGED <<mlq, i>>
    BY <1>0, <1>2 DEF Finish, queueVars, loaderVars
  <2>2. r # proc[c]
    BY <1>0, <1>2 DEF Finish
  <2>3. QED
    BY <2>1, <2>2 DEF Held
<1>3. CASE Yield(c) \/ Check(c) \/ Run(c)
  BY <1>3 DEF Yield, Check, Run, Held, queueVars, loaderVars
<1>4. CASE PutReady(c)
  <2>1. PICK p \in 1..Len(work) : p = proc[c]
    BY <1>0, <1>4 DEF PutReady, CpuInv, RunInv
  <2>2. /\ mlq' = Ready(p) /\ UNCHANGED i
        /\ \A d \in Cpus : d # c => proc'[d] = proc[d]
    BY <1>0, <1>4, <2>1 DEF PutReady, loaderVars
  <2>3. work[p].prio \in Prios
    BY <1>0, <2>1, IndexFacts
  <2>4. Len(mlq[work[p].prio]) < MaxQueueSize
    BY <1>0, <2>1, <2>3, RoomInQueue DEF QueueInv
  <2>5. /\ \A x \in Prios : \A n \in 1..Len(mlq[x]) :
             n \in 1..Len(mlq'[x]) /\ mlq'[x][n] = mlq[x][n]
        /\ \E x \in Prios : \E n \in 1..Len(mlq'[x]) : mlq'[x][n] = p
    BY <1>0, <2>2, <2>4, ReadyEffect
  <2>6. QED
    BY <2>1, <2>2, <2>5 DEF Held
<1>5. QED
  BY <1>1, <1>2, <1>3, <1>4 DEF CpuStep

\* The steps of the loader keep the places of the live processes and change no
\* queue that the CPUs have found empty.
LEMMA LoaderFitInv ==
  ASSUME FitInv, LevelsFit, LoaderStep
  PROVE  HeldInv' /\ StopInv'
<1>0. IInv /\ CpuInv /\ HeldInv /\ StopInv
  BY DEF FitInv, IInv
<1>1. HeldInv'
  BY <1>0, LoaderHeld DEF HeldInv
<1>2. CASE Load \/ AddList
  <2>1. UNCHANGED <<arrived, mlq, cpc>>
    BY <1>2 DEF Load, AddList, clockVars, queueVars, cpuVars
  <2>2. QED
    BY <1>0, <1>1, <2>1 DEF StopInv
<1>3. CASE AwaitStart \/ AddReady
  <2>1. Loader \in arrived'
    BY <1>3 DEF AwaitStart, AddReady, Clock!Arrive
  <2>2. QED
    BY <1>1, <2>1 DEF StopInv
<1>4. CASE FinishLoading
  <2>1. UNCHANGED <<arrived, mlq, cpc>>
    BY <1>4 DEF FinishLoading, Clock!Leave, queueVars, cpuVars
  <2>2. QED
    BY <1>0, <1>1, <2>1 DEF StopInv
<1>5. QED
  BY <1>1, <1>2, <1>3, <1>4 DEF LoaderStep

\* The steps of a CPU keep the places of the live processes; a CPU only gives up
\* when every queue is empty.
LEMMA CpuFitInv ==
  ASSUME FitInv, LevelsFit, NEW c \in Cpus, CpuStep(c)
  PROVE  HeldInv' /\ StopInv'
<1>0. /\ IInv /\ TypeOK /\ HeldInv /\ StopInv
      /\ pcb \in [Procs -> {"none", "live", "freed"}]
      /\ cpc \in [Cpus -> {"top", "put", "get", "check", "run", "gone"}]
  BY DEF FitInv, IInv, TypeOK
<1>1. HeldInv'
  <2>1. \A p \in Procs : pcb'[p] = "live" => pcb[p] = "live"
    BY <1>0 DEF CpuStep, TakeFirst, Finish, Yield, PutReady, TakeNext, Check, Run
  <2>2. QED
    BY <1>0, <2>1, CpuHeld DEF HeldInv
<1>2. CASE TakeFirst(c) \/ Finish(c) \/ Yield(c) \/ PutReady(c) \/ Run(c)
  <2>1. cpc'[c] \in {"top", "put", "get", "run"}
    BY <1>0, <1>2 DEF TakeFirst, Finish, Yield, PutReady, Run
  <2>2. QED
    BY <1>1, <2>1 DEF StopInv
<1>3. CASE TakeNext(c)
  <2>1. CASE Waiting = {}
    <3>1. \A x \in Prios : mlq'[x] = <<>>
      BY <1>3, <2>1 DEF TakeNext, Dequeued, Waiting
    <3>2. QED
      BY <1>1, <3>1 DEF StopInv
  <2>2. CASE Waiting # {}
    <3>1. NextProc # NULL
      BY <1>0, <2>2, DequeueEffect DEF NULL, Procs
    <3>2. cpc'[c] = "run"
      BY <1>0, <1>3, <3>1 DEF TakeNext
    <3>3. QED
      BY <1>1, <3>2 DEF StopInv
  <2>3. QED
    BY <2>1, <2>2
<1>4. CASE Check(c)
  BY <1>0, <1>1, <1>4 DEF Check, StopInv, Clock!Leave, Clock!Arrive, queueVars
<1>5. QED
  BY <1>2, <1>3, <1>4 DEF CpuStep

\* A tick moves no process, and after it either some CPU looks for a process again
\* or all have left and the loader before them.
LEMMA TimerFitInv ==
  ASSUME FitInv, Cpus # {}, TimerStep PROVE HeldInv' /\ StopInv'
<1>0. ClockInv /\ LoaderInv /\ CpuInv /\ HeldInv /\ StopInv
  BY DEF FitInv, IInv
<1> USE DEF TimerStep, queueVars, loaderVars, cpuVars
<1>1. HeldInv'
  BY <1>0 DEF HeldInv, Held
<1>2. CASE Clock!Tick
  <2> SUFFICES ASSUME \A c \in Cpus : cpc[c] \in {"check", "gone"}
               PROVE  \A x \in Prios : mlq[x] = <<>>
    BY <1>1 DEF StopInv
  <2>1. \A c \in Cpus : c \in gone /\ done
    BY <1>0, <1>2 DEF CpuInv, Clock!Tick, Clock!Working, Devices
  <2>2. Loader \notin arrived
    BY <1>0, <2>1 DEF LoaderInv, ClockInv
  <2>3. QED
    BY <1>0, <2>2 DEF StopInv
<1>3. CASE Clock!Halt
  BY <1>0, <1>1, <1>3 DEF StopInv, Clock!Halt
<1>4. QED
  BY <1>1, <1>2, <1>3

\* Every step keeps the invariant of configurations whose levels fit.
LEMMA FitInvariance ==
  ASSUME LevelsFit, Cpus # {} PROVE Spec => []FitInv
<1>1. Init => FitInv
  BY InitIInv, InitFitInv DEF FitInv
<1>2. FitInv /\ [Next]_vars => FitInv'
  <2> SUFFICES ASSUME FitInv, [Next]_vars PROVE FitInv'
    OBVIOUS
  <2>1. IInv'
    BY NextIInv DEF FitInv
  <2>2. CASE LoaderStep
    BY <2>1, <2>2, LoaderFitInv DEF FitInv
  <2>3. ASSUME NEW c \in Cpus, CpuStep(c) PROVE FitInv'
    BY <2>1, <2>3, CpuFitInv DEF FitInv
  <2>4. CASE TimerStep
    BY <2>1, <2>4, TimerFitInv DEF FitInv
  <2>5. CASE UNCHANGED vars
    BY <2>1, <2>5 DEF vars, clockVars, queueVars, loaderVars, cpuVars, FitInv,
                      HeldInv, Held, StopInv
  <2>6. QED
    BY <2>2, <2>3, <2>4, <2>5 DEF Next, Terminated
<1>3. QED
  BY <1>1, <1>2, PTL DEF Spec

\* A process that is not finished is always somewhere it can be run from, and a
\* freed one is nowhere (free(proc), os.c), if the levels fit their queues.
THEOREM NoneLostHolds ==
  ASSUME LevelsFit, Cpus # {} PROVE Spec => []NoneLost
<1>1. FitInv => NoneLost
  <2> SUFFICES ASSUME FitInv PROVE NoneLost
    OBVIOUS
  <2>0. TypeOK /\ LoaderInv /\ QueueInv /\ RunInv /\ HeldInv
    BY DEF FitInv, IInv
  <2>1. \A p \in Queued : p \in Procs /\ pcb[p] = "live"
    BY <2>0, QueuedFacts, IndexFacts DEF QueueInv
  <2>2. \A p \in Running : p \in Procs /\ pcb[p] = "live"
    BY <2>0, IndexFacts DEF RunInv, Running
  <2>3. \A p \in WithLoader : p \in Procs /\ pcb[p] = "live"
    BY <2>0, IndexFacts DEF LoaderInv, WithLoader
  <2>4. \A p \in Procs : pcb[p] = "live" => p \in Queued \union Running \union WithLoader
    BY <2>0, QueuedFacts
    DEF HeldInv, Held, LoaderInv, Running, WithLoader, Procs, NULL
  <2>5. QED
    BY <2>1, <2>2, <2>3, <2>4 DEF NoneLost
<1>2. QED
  BY <1>1, FitInvariance, PTL

\* When the last CPU stops, every process has been run to its end: the test of
\* done in cpu_routine cannot overtake an add_proc of the loader.
THEOREM NoneAbandonedHolds ==
  ASSUME LevelsFit, Cpus # {} PROVE Spec => []NoneAbandoned
<1>1. FitInv => NoneAbandoned
  <2> SUFFICES ASSUME FitInv, \A c \in Cpus : cpc[c] = "gone",
                      NEW p \in DOMAIN work
               PROVE  pcb[p] = "freed"
    BY DEF NoneAbandoned
  <2>0. /\ TypeOK /\ ClockInv /\ LoaderInv /\ CpuInv /\ HeldInv /\ StopInv
        /\ pcb \in [Procs -> {"none", "live", "freed"}]
    BY DEF FitInv, IInv, TypeOK
  <2>1. done /\ Loader \in gone /\ i = Len(work) + 1 /\ Loader \notin arrived
    BY <2>0 DEF CpuInv, LoaderInv, ClockInv
  <2>2. p \in Procs /\ p < i /\ p # NULL
    BY <2>0, <2>1, IndexFacts DEF NULL
  <2>3. \A x \in Prios : Len(mlq[x]) = 0
    BY <2>0, <2>1, EmptySeq DEF StopInv
  <2>4. \A c \in Cpus : proc[c] = NULL
    BY <2>0 DEF CpuInv
  <2>5. pcb[p] # "live"
    BY <2>0, <2>2, <2>3, <2>4 DEF HeldInv, Held
  <2>6. QED
    BY <2>0, <2>2, <2>5 DEF LoaderInv
<1>2. QED
  BY <1>1, FitInvariance, PTL

--------------------------------------------------------------------------------
(* The refinement: every step of the machine is a step of ProcessLife or   *)
(* leaves it unchanged.                                                    *)

\* What a stage of ProcessLife means in the machine.
LEMMA StageFacts ==
  IInv => \A p \in Procs :
    /\ p \in Queued => p \notin Running
    /\ p \in Queued => Stage(p) = "ready" /\ pcb[p] = "live"
    /\ p \in Running => Stage(p) = "running" /\ pcb[p] = "live"
    /\ p = i => p \notin Queued /\ p \notin Running
    /\ p = i /\ ldpc = "add" => Stage(p) = "new"
<1> SUFFICES ASSUME IInv, NEW p \in Procs
             PROVE  /\ p \in Queued => p \notin Running
                    /\ p \in Queued => Stage(p) = "ready" /\ pcb[p] = "live"
                    /\ p \in Running => Stage(p) = "running" /\ pcb[p] = "live"
                    /\ p = i => p \notin Queued /\ p \notin Running
                    /\ p = i /\ ldpc = "add" => Stage(p) = "new"
  OBVIOUS
<1>0. TypeOK /\ LoaderInv /\ QueueInv /\ RunInv
  BY DEF IInv
<1>1. p \in Queued => pcb[p] = "live" /\ p \notin Running /\ p < i
  BY <1>0, QueuedFacts DEF QueueInv, Running
<1>2. p \in Running => pcb[p] = "live" /\ p < i
  BY <1>0 DEF RunInv, Running
<1>3. i \in Nat
  BY <1>0, IndexFacts
<1>4. p = i => p \notin Queued /\ p \notin Running
  BY <1>1, <1>2, <1>3
<1>5. p = i /\ ldpc = "add" => pcb[p] = "live"
  BY <1>0 DEF LoaderInv
<1>6. QED
  BY <1>1, <1>2, <1>4, <1>5 DEF Stage

\* The same after a step.
LEMMA NextStageFacts ==
  /\ (IInv => \A p \in Procs :
        /\ p \in Queued => p \notin Running
        /\ p \in Queued => Stage(p) = "ready" /\ pcb[p] = "live"
        /\ p \in Running => Stage(p) = "running" /\ pcb[p] = "live"
        /\ p = i => p \notin Queued /\ p \notin Running
        /\ p = i /\ ldpc = "add" => Stage(p) = "new")'
  /\ (\A p : p \in Queued <=> \E x \in Prios : \E n \in 1..Len(mlq[x]) : mlq[x][n] = p)'
  BY StageFacts, QueuedFacts, PTL

\* A step that keeps queues, CPUs and the set of freed processes is not seen.
LEMMA StageKept ==
  ASSUME UNCHANGED <<work, mlq, proc, pc>>,
         \A p \in Procs : pcb'[p] = "freed" <=> pcb[p] = "freed"
  PROVE  UNCHANGED Life!lifeVars
<1>1. UNCHANGED <<Queued, Running>>
  BY DEF Queued, QueueSlots, Running
<1>2. \A p \in Procs : Stage(p)' = Stage(p)
  BY <1>1 DEF Stage
<1>3. QED
  BY <1>2 DEF Life!lifeVars

\* A step that changes the stage of one process is a move of ProcessLife.
LEMMA StageMoves ==
  ASSUME NEW p \in Procs, NEW from, NEW to, Stage(p) = from, Stage(p)' = to,
         \A q \in Procs : q # p => Stage(q)' = Stage(q), UNCHANGED <<work, pc>>
  PROVE  Life!Move(p, from, to)
<1>1. [q \in Procs |-> Stage(q)'] = [[q \in Procs |-> Stage(q)] EXCEPT ![p] = to]
  OBVIOUS
<1>2. QED
  BY <1>1 DEF Life!Move

\* A CPU without a process leaves room for one more running process.
LEMMA IdleCpu ==
  ASSUME IInv, IsFiniteSet(Cpus), NEW c \in Cpus, proc[c] = NULL
  PROVE  Cardinality({q \in Procs : [p \in Procs |-> Stage(p)][q] = "running"})
           < Cardinality(Cpus)
<1> DEFINE R == {q \in Procs : [p \in Procs |-> Stage(p)][q] = "running"}
           f == [q \in R |-> CHOOSE d \in Cpus : proc[d] = q]
<1>1. \A q \in R : \E d \in Cpus : proc[d] = q
  BY DEF Stage, Running
<1>2. \A q \in R : q # NULL
  BY DEF Procs, NULL
<1> HIDE DEF R
<1>3. \A q \in R : f[q] \in Cpus /\ proc[f[q]] = q
  BY <1>1
<1>4. f \in Injection(R, Cpus \ {c})
  <2>1. \A q \in R : f[q] \in Cpus \ {c}
    BY <1>2, <1>3
  <2>2. \A q, r \in R : f[q] = f[r] => q = r
    BY <1>3
  <2>3. DOMAIN f = R /\ f = [q \in R |-> f[q]]
    OBVIOUS
  <2> HIDE DEF f
  <2>4. QED
    BY <2>1, <2>2, <2>3 DEF Injection, IsInjective
<1>5. /\ IsFiniteSet(Cpus \ {c}) /\ Cardinality(Cpus \ {c}) = Cardinality(Cpus) - 1
      /\ Cardinality(Cpus) \in Nat
  BY FS_RemoveElement, FS_CardinalityType
<1> HIDE DEF f
<1>6. Cardinality(R) <= Cardinality(Cpus \ {c}) /\ IsFiniteSet(R)
  BY <1>4, <1>5, FS_Injection
<1>7. Cardinality(R) \in Nat
  BY <1>6, FS_CardinalityType
<1>8. QED
  BY <1>5, <1>6, <1>7 DEF R

\* get_proc dispatches a process that was ready.
LEMMA TakeIsDispatch ==
  ASSUME IInv, IInv', IsFiniteSet(Cpus), NEW c \in Cpus, proc[c] = NULL, mlq' = Dequeued,
         proc' = [proc EXCEPT ![c] = NextProc], UNCHANGED <<work, pc, pcb>>
  PROVE  Life!LifeNext \/ UNCHANGED Life!lifeVars
<1>0. TypeOK /\ proc \in [Cpus -> Procs \union {NULL}] /\ mlq \in [Prios -> Seq(Procs)]
  BY DEF IInv, TypeOK
<1>1. CASE Waiting = {}
  <2>1. NextProc = NULL /\ mlq' = mlq
    BY <1>1 DEF NextProc, Dequeued
  <2>2. proc' = proc
    BY <1>0, <2>1
  <2>3. QED
    BY <2>1, <2>2, StageKept
<1>2. CASE Waiting # {}
  <2> DEFINE t == TopPrio
  <2>0. PICK p \in Procs : p = NextProc
    BY <1>0, <1>2, DequeueEffect
  <2>1. /\ t \in Prios /\ Len(mlq[t]) \in Nat /\ 1 \in 1..Len(mlq[t])
        /\ p = mlq[t][1]
        /\ \A x \in Prios : x # t => mlq'[x] = mlq[x]
        /\ Len(mlq'[t]) = Len(mlq[t]) - 1
        /\ \A n \in 1..Len(mlq'[t]) : mlq'[t][n] = mlq[t][n + 1]
    BY <1>0, <1>2, <2>0, DequeueEffect, LenProperties
  <2>2. \A d \in Cpus : proc'[d] = IF d = c THEN p ELSE proc[d]
    BY <1>0, <2>0
  <2> HIDE DEF t
  <2>3. p \in Queued /\ p # NULL
    BY <2>1, QueuedFacts DEF Procs, NULL
  <2>4. Running' = Running \union {p}
    BY <2>2, <2>3 DEF Running
  <2>5. p \notin Queued'
    BY <2>1, <2>4, NextStageFacts
  <2>6. \A q \in Procs : q # p => (q \in Queued' <=> q \in Queued)
    <3>1. ASSUME NEW x \in Prios, NEW n \in 1..Len(mlq'[x])
          PROVE  \E m \in 1..Len(mlq[x]) : mlq[x][m] = mlq'[x][n]
      <4>1. CASE x = t
        BY <2>1, <4>1
      <4>2. CASE x # t
        BY <2>1, <4>2
      <4>3. QED
        BY <4>1, <4>2
    <3>2. ASSUME NEW x \in Prios, NEW n \in 1..Len(mlq[x]), mlq[x][n] # p
          PROVE  \E m \in 1..Len(mlq'[x]) : mlq'[x][m] = mlq[x][n]
      <4>1. CASE x = t
        <5>1. n - 1 \in 1..Len(mlq'[t]) /\ (n - 1) + 1 = n
          BY <2>1, <3>2, <4>1
        <5>2. mlq'[t][n - 1] = mlq[t][n]
          BY <2>1, <5>1
        <5>3. QED
          BY <4>1, <5>1, <5>2
      <4>2. CASE x # t
        BY <2>1, <4>2
      <4>3. QED
        BY <4>1, <4>2
    <3>3. ASSUME NEW q \in Procs, q # p, q \in Queued' PROVE q \in Queued
      BY <3>1, <3>3, NextStageFacts, QueuedFacts
    <3>4. ASSUME NEW q \in Procs, q # p, q \in Queued PROVE q \in Queued'
      BY <3>2, <3>4, NextStageFacts, QueuedFacts
    <3>5. QED
      BY <3>3, <3>4
  <2>7. Stage(p) = "ready" /\ Stage(p)' = "running"
    BY <2>1, <2>3, <2>4, StageFacts, NextStageFacts
  <2>8. \A q \in Procs : q # p => Stage(q)' = Stage(q)
    BY <2>4, <2>6 DEF Stage
  <2>9. Life!Move(p, "ready", "running")
    BY <2>7, <2>8, StageMoves
  <2>10. Life!Dispatch(p)
    <3>1. Cardinality({q \in Procs : [r \in Procs |-> Stage(r)][q] = "running"})
            < Cardinality(Cpus)
      BY IdleCpu
    <3>2. QED
      BY <2>9, <3>1 DEF Life!Dispatch, Life!Cardinality, Cardinality
  <2>11. QED
    BY <2>1, <2>10 DEF Life!LifeNext
<1>3. QED
  BY <1>1, <1>2

\* The end of add_proc admits the process.
LEMMA AddIsAdmit ==
  ASSUME FitInv, IInv', LevelsFit, AddReady PROVE Life!LifeNext
<1>0. IInv /\ TypeOK /\ LoaderInv /\ QueueInv
  BY DEF FitInv, IInv
<1>1. i \in 1..Len(work) /\ i \in Procs /\ work[i].prio \in Prios
  BY <1>0, IndexFacts DEF AddReady, LoaderInv
<1>2. mlq' = Ready(i) /\ UNCHANGED <<work, pc, pcb, proc>> /\ ldpc = "add"
  BY DEF AddReady, configVars, cpuVars
<1>3. Len(mlq[work[i].prio]) < MaxQueueSize
  BY <1>0, <1>1, RoomInQueue DEF QueueInv
<1>4. /\ \A x \in Prios : \A n \in 1..Len(mlq[x]) :
           n \in 1..Len(mlq'[x]) /\ mlq'[x][n] = mlq[x][n]
      /\ \A x \in Prios : \A n \in 1..Len(mlq'[x]) :
           n \in 1..Len(mlq[x]) \/ mlq'[x][n] = i
      /\ \E x \in Prios : \E n \in 1..Len(mlq'[x]) : mlq'[x][n] = i
  <2>1. \A x \in Prios : \A n \in 1..Len(Ready(i)[x]) :
          n \in 1..Len(mlq[x]) \/ Ready(i)[x][n] = i
    BY <1>0, <1>1, ReadyEffect
  <2>2. /\ \A x \in Prios : \A n \in 1..Len(mlq[x]) :
             n \in 1..Len(Ready(i)[x]) /\ Ready(i)[x][n] = mlq[x][n]
        /\ \E x \in Prios : \E n \in 1..Len(Ready(i)[x]) : Ready(i)[x][n] = i
    BY <1>0, <1>1, <1>3, ReadyEffect
  <2>3. QED
    BY <1>2, <2>1, <2>2
<1>5. i \in Queued' /\ \A q : q # i => (q \in Queued' <=> q \in Queued)
  <2>1. i \in Queued'
    BY <1>4, NextStageFacts
  <2>2. ASSUME NEW q, q # i, q \in Queued PROVE q \in Queued'
    BY <1>4, <2>2, QueuedFacts, NextStageFacts
  <2>3. ASSUME NEW q, q # i, q \in Queued' PROVE q \in Queued
    BY <1>4, <2>3, QueuedFacts, NextStageFacts
  <2>4. QED
    BY <2>1, <2>2, <2>3
<1>6. UNCHANGED Running
  BY <1>2 DEF Running
<1>7. Stage(i) = "new"
  BY <1>0, <1>1, <1>2, StageFacts
<1> DEFINE p == i
<1>8. p \in Procs /\ pcb'[p] = "live" /\ p \in Queued' /\ p \notin Running'
  <2>1. pcb[i] = "live" /\ i \notin Running
    BY <1>0, <1>1, <1>2, StageFacts DEF LoaderInv
  <2>2. QED
    BY <1>1, <1>2, <1>5, <1>6, <2>1
<1>9. \A q \in Procs : q # i => Stage(q)' = Stage(q)
  BY <1>2, <1>5, <1>6 DEF Stage
<1>10. \E q \in Procs : Life!Admit(q)
  <2>1. PICK q \in Procs : q = i
    BY <1>1
  <2>2. Stage(q) = "new"
    BY <1>7, <2>1
  <2>3. Stage(q)' = "ready"
    BY <1>8, <2>1 DEF Stage
  <2>4. Life!Move(q, "new", "ready")
    BY <1>2, <1>9, <2>1, <2>2, <2>3, StageMoves
  <2>5. QED
    BY <2>4 DEF Life!Admit
<1>11. QED
  BY <1>10 DEF Life!LifeNext

\* put_proc preempts a process that has instructions left.
LEMMA PutIsPreempt ==
  ASSUME FitInv, IInv', LevelsFit, NEW c \in Cpus, PutReady(c) PROVE Life!LifeNext
<1>0. /\ IInv /\ TypeOK /\ LoaderInv /\ CpuInv /\ QueueInv /\ RunInv
      /\ proc \in [Cpus -> Procs \union {NULL}]
  BY DEF FitInv, IInv, TypeOK
<1>1. PICK p \in 1..Len(work) : p = proc[c]
  BY <1>0 DEF PutReady, CpuInv, RunInv
<1>2. /\ p \in Procs /\ p \in DOMAIN work /\ work[p].prio \in Prios /\ p # NULL
      /\ pc[p] < work[p].size /\ p \in Running
      /\ \A d \in Cpus : proc[d] = p => d = c
  BY <1>0, <1>1, IndexFacts DEF PutReady, CpuInv, RunInv, NULL, Running
<1>3. /\ mlq' = Ready(p) /\ UNCHANGED <<work, pc, pcb>>
      /\ \A d \in Cpus : proc'[d] = IF d = c THEN NULL ELSE proc[d]
  BY <1>0, <1>1 DEF PutReady, configVars
<1>4. Len(mlq[work[p].prio]) < MaxQueueSize
  BY <1>0, <1>1, <1>2, RoomInQueue DEF QueueInv
<1>5. /\ \A x \in Prios : \A n \in 1..Len(mlq[x]) :
           n \in 1..Len(mlq'[x]) /\ mlq'[x][n] = mlq[x][n]
      /\ \A x \in Prios : \A n \in 1..Len(mlq'[x]) :
           n \in 1..Len(mlq[x]) \/ mlq'[x][n] = p
      /\ \E x \in Prios : \E n \in 1..Len(mlq'[x]) : mlq'[x][n] = p
  <2>1. \A x \in Prios : \A n \in 1..Len(Ready(p)[x]) :
          n \in 1..Len(mlq[x]) \/ Ready(p)[x][n] = p
    BY <1>0, ReadyEffect
  <2>2. /\ \A x \in Prios : \A n \in 1..Len(mlq[x]) :
             n \in 1..Len(Ready(p)[x]) /\ Ready(p)[x][n] = mlq[x][n]
        /\ \E x \in Prios : \E n \in 1..Len(Ready(p)[x]) : Ready(p)[x][n] = p
    BY <1>0, <1>4, ReadyEffect
  <2>3. QED
    BY <1>3, <2>1, <2>2
<1>6. p \in Queued'
  BY <1>5, NextStageFacts
<1>7. \A q : q # p => (q \in Queued' <=> q \in Queued)
  <2>1. ASSUME NEW q, q # p, q \in Queued PROVE q \in Queued'
    BY <1>5, <2>1, QueuedFacts, NextStageFacts
  <2>2. ASSUME NEW q, q # p, q \in Queued' PROVE q \in Queued
    BY <1>5, <2>2, QueuedFacts, NextStageFacts
  <2>3. QED
    BY <2>1, <2>2
<1>8. \A q : q # p => (q \in Running' <=> q \in Running)
  BY <1>1, <1>2, <1>3 DEF Running
<1>9. Stage(p) = "running" /\ Stage(p)' = "ready"
  BY <1>0, <1>2, <1>6, StageFacts, NextStageFacts
<1>10. \A q \in Procs : q # p => Stage(q)' = Stage(q)
  BY <1>3, <1>7, <1>8 DEF Stage
<1>11. Life!Move(p, "running", "ready")
  BY <1>2, <1>3, <1>9, <1>10, StageMoves
<1>12. Life!Preempt(p)
  BY <1>2, <1>11 DEF Life!Preempt
<1>13. QED
  BY <1>2, <1>12 DEF Life!LifeNext

\* free(proc) ends a process that has executed all of its instructions.
LEMMA FinishIsEnd ==
  ASSUME IInv, IInv', NEW c \in Cpus, Finish(c) PROVE Life!LifeNext
<1>0. /\ TypeOK /\ LoaderInv /\ RunInv /\ proc \in [Cpus -> Procs \union {NULL}]
      /\ pcb \in [Procs -> {"none", "live", "freed"}]
  BY DEF IInv, TypeOK
<1>1. PICK p \in 1..Len(work) : p = proc[c]
  BY <1>0 DEF Finish, RunInv
<1>2. /\ p \in Procs /\ p \in DOMAIN work /\ p # NULL
      /\ pc[p] = work[p].size /\ p \in Running
      /\ \A d \in Cpus : proc[d] = p => d = c
  BY <1>0, <1>1, IndexFacts DEF Finish, RunInv, NULL, Running
<1>3. /\ UNCHANGED <<work, pc, mlq>>
      /\ \A q \in Procs : pcb'[q] = IF q = p THEN "freed" ELSE pcb[q]
      /\ \A d \in Cpus : proc'[d] = IF d = c THEN NULL ELSE proc[d]
  BY <1>0, <1>1 DEF Finish, configVars, queueVars
<1>4. UNCHANGED Queued
  BY <1>3 DEF Queued, QueueSlots
<1>5. \A q : q # p => (q \in Running' <=> q \in Running)
  BY <1>1, <1>2, <1>3 DEF Running
<1>6. Stage(p) = "running"
  BY <1>2, StageFacts
<1>7. Stage(p)' = "finished"
  <2>1. pcb'[p] = "freed" /\ p \notin Queued' /\ p \notin Running'
    BY <1>2, <1>3, NextStageFacts
  <2>2. QED
    BY <2>1 DEF Stage
<1>8. \A q \in Procs : q # p => Stage(q)' = Stage(q)
  BY <1>3, <1>4, <1>5 DEF Stage
<1>9. Life!Move(p, "running", "finished")
  BY <1>2, <1>3, <1>6, <1>7, <1>8, StageMoves
<1>10. Life!End(p)
  BY <1>2, <1>9 DEF Life!End
<1>11. QED
  BY <1>2, <1>10 DEF Life!LifeNext

\* run executes the next instruction of a process that runs; an empty program has
\* none.
LEMMA RunIsExecute ==
  ASSUME IInv, NEW c \in Cpus, Run(c)
  PROVE  Life!LifeNext \/ UNCHANGED Life!lifeVars
<1>0. TypeOK /\ LoaderInv /\ CpuInv /\ RunInv /\ pc \in [Procs -> Nat]
  BY DEF IInv, TypeOK
<1>1. PICK p \in 1..Len(work) : p = proc[c]
  BY <1>0 DEF Run, CpuInv, RunInv
<1>2. /\ p \in Procs /\ p \in DOMAIN work /\ p \in Running /\ work[p].size \in Nat
  BY <1>0, <1>1, IndexFacts DEF Running, NULL
<1>3. /\ UNCHANGED <<work, mlq, proc, pcb>>
      /\ pc' = [pc EXCEPT ![p] = IF @ >= work[p].size THEN @ ELSE @ + 1]
  BY <1>1 DEF Run, configVars, queueVars
<1>4. UNCHANGED <<Queued, Running>>
  BY <1>3 DEF Queued, QueueSlots, Running
<1>5. \A q \in Procs : Stage(q)' = Stage(q)
  BY <1>3, <1>4 DEF Stage
<1>6. CASE pc[p] < work[p].size
  <2>1. ~(pc[p] >= work[p].size)
    BY <1>0, <1>2, <1>6
  <2>2. pc' = [pc EXCEPT ![p] = pc[p] + 1]
    BY <1>3, <2>1
  <2>3. Stage(p) = "running"
    BY <1>2, StageFacts
  <2>4. Life!Execute(p)
    BY <1>2, <1>3, <1>5, <1>6, <2>2, <2>3 DEF Life!Execute
  <2>5. QED
    BY <1>2, <2>4 DEF Life!LifeNext
<1>7. CASE pc[p] >= work[p].size
  <2>1. pc' = pc
    BY <1>0, <1>2, <1>3, <1>7
  <2>2. QED
    BY <1>3, <2>1, StageKept
<1>8. QED
  BY <1>0, <1>2, <1>6, <1>7

\* Every step of every thread is a step of ProcessLife or invisible to it.
LEMMA LifeStep ==
  ASSUME LevelsFit, IsFiniteSet(Cpus)
  PROVE  FitInv /\ [Next]_vars => [Life!LifeNext]_(Life!lifeVars)
<1> SUFFICES ASSUME FitInv, [Next]_vars
             PROVE  Life!LifeNext \/ UNCHANGED Life!lifeVars
  OBVIOUS
<1>0. /\ IInv /\ IInv' /\ TypeOK /\ LoaderInv /\ CpuInv
      /\ pcb \in [Procs -> {"none", "live", "freed"}]
  BY NextIInv DEF FitInv, IInv, TypeOK
<1>1. CASE Load
  <2>1. pcb[i] = "none" /\ i \in Procs /\ \A p \in Procs : p # i => pcb'[p] = pcb[p]
    BY <1>0, <1>1, IndexFacts DEF Load, LoaderInv
  <2>2. pcb'[i] = "live" /\ UNCHANGED <<work, mlq, proc, pc>>
    BY <1>0, <1>1, <2>1 DEF Load, configVars, queueVars, cpuVars
  <2>3. QED
    BY <2>1, <2>2, StageKept
<1>2. CASE AwaitStart \/ AddList \/ FinishLoading
  BY <1>2, StageKept
  DEF AwaitStart, AddList, FinishLoading, configVars, queueVars, cpuVars
<1>3. CASE AddReady
  BY <1>0, <1>3, AddIsAdmit
<1>4. ASSUME NEW c \in Cpus, TakeFirst(c) \/ TakeNext(c)
      PROVE  Life!LifeNext \/ UNCHANGED Life!lifeVars
  <2>1. /\ proc[c] = NULL /\ mlq' = Dequeued /\ UNCHANGED <<work, pc, pcb>>
        /\ proc' = [proc EXCEPT ![c] = NextProc]
    BY <1>0, <1>4 DEF TakeFirst, TakeNext, CpuInv, configVars
  <2>2. QED
    BY <1>0, <2>1, TakeIsDispatch
<1>5. ASSUME NEW c \in Cpus, Finish(c) PROVE Life!LifeNext
  BY <1>0, <1>5, FinishIsEnd
<1>6. ASSUME NEW c \in Cpus, Yield(c) \/ Check(c) PROVE UNCHANGED Life!lifeVars
  BY <1>6, StageKept DEF Yield, Check, configVars, queueVars
<1>7. ASSUME NEW c \in Cpus, PutReady(c) PROVE Life!LifeNext
  BY <1>0, <1>7, PutIsPreempt
<1>8. ASSUME NEW c \in Cpus, Run(c) PROVE Life!LifeNext \/ UNCHANGED Life!lifeVars
  BY <1>0, <1>8, RunIsExecute
<1>9. CASE TimerStep
  BY <1>9, StageKept DEF TimerStep, configVars, queueVars, cpuVars
<1>10. CASE UNCHANGED vars
  BY <1>10, StageKept DEF vars, configVars, queueVars, cpuVars
<1>11. QED
  BY <1>1, <1>2, <1>3, <1>4, <1>5, <1>6, <1>7, <1>8, <1>9, <1>10
  DEF Next, LoaderStep, CpuStep, Terminated

\* No process has a place before the loader has started.
LEMMA LifeInitHolds == Init => Life!LifeInit
<1> SUFFICES ASSUME Init PROVE Life!LifeInit
  OBVIOUS
<1>1. Running = {}
  BY DEF Init, Running
<1>2. \A p : p \notin Queued
  BY QueuedFacts, EmptySeq DEF Init
<1>3. \A p \in Procs : Stage(p) = "new"
  BY <1>1, <1>2 DEF Init, Stage
<1>4. QED
  BY <1>3 DEF Life!LifeInit, Init

\* The scheduler keeps its promise to the processes, for every number of CPUs and
\* every configuration whose levels fit their queues: a process is admitted once,
\* is ready or runs on one of the CPUs until it has executed its instructions in
\* order and each once, and only then ends.
THEOREM KeepsProcessLife ==
  ASSUME LevelsFit, IsFiniteSet(Cpus), Cpus # {} PROVE Spec => ImplementsProcessLife
<1>1. Init => Life!LifeInit
  BY LifeInitHolds
<1>2. FitInv /\ [Next]_vars => [Life!LifeNext]_(Life!lifeVars)
  BY LifeStep
<1>3. Spec => []FitInv
  BY FitInvariance
<1>4. QED
  BY <1>1, <1>2, <1>3, PTL DEF Spec, ImplementsProcessLife, Life!LifeSpec

================================================================================
