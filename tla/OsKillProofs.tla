------------------------------ MODULE OsKillProofs ------------------------------
(***************************************************************************)
(* Proofs about OsKill.tla.                                                *)
(*                                                                         *)
(* Type correctness holds for every number of CPUs, races of the walk with *)
(* the other CPUs included, from KTypeInv.                                 *)
(*                                                                         *)
(* With one CPU nobody but the loader works on the lists during a walk.    *)
(* OneInv is then inductive: the invariant of OsProofs, stated for the     *)
(* list without the position that the shift is about to overwrite, and     *)
(* without what killall has marked.  From it come the processes that       *)
(* killall must leave alone (OthersKept) and the sizes that never get      *)
(* negative.  MarkedInv adds where a marked process can still be: only     *)
(* ahead of the walk.  It gives KilledStops, if no process is loaded after *)
(* the caller and the caller has another name.                             *)
(***************************************************************************)
EXTENDS OsKill, OsProofs

\* What the places hold of the configuration: the queues and the CPUs its processes,
\* the loader an index of it.
PlaceInv ==
  /\ \A x \in Prios : \A n \in 1..Len(mlq[x]) : mlq[x][n] \in 1..Len(work)
  /\ \A c \in Cpus : proc[c] # NULL => proc[c] \in 1..Len(work)
  /\ \A c \in Cpus : cpc[c] \in {"put", "run"} => proc[c] # NULL
  /\ i <= Len(work) + 1 /\ (ldpc \in {"await", "add"} => i <= Len(work))

\* The records of the walks.
Befores    == {<<>>} \union [Lists -> Seq(Procs)]
WalkRecord == [list : 0..(MaxPrio + 1), i : 0..(MaxQueueSize + 1),
               shift : 0..MaxQueueSize, count : Nat, before : Befores]
WalkType   == walk \in [Cpus -> WalkRecord]

\* A CPU that walks is in the middle of an instruction of Killer.
WalkInv ==
  \A c \in Cpus : walk[c] # NoWalk =>
    /\ walk[c].i >= 1 /\ (walk[c].shift # 0 => walk[c].list <= MaxPrio)
    /\ cpc[c] = "run" /\ proc[c] = Killer /\ pc[Killer] >= KillAt

KTypeInv ==
  /\ TypeOK /\ PlaceInv /\ WalkType /\ WalkInv
  /\ named \in NameSets /\ marked \subseteq Procs /\ sane \in BOOLEAN

--------------------------------------------------------------------------------
(* Type correctness.                                                       *)

\* The processes that the configuration and the loader's index range over.
LEMMA PlaceFacts ==
  ASSUME TypeOK, PlaceInv
  PROVE  /\ Len(work) \in Nat /\ Len(work) <= NumProcs /\ NumProcs \in Nat
         /\ DOMAIN work = 1..Len(work)
         /\ \A p \in 1..Len(work) :
              p \in Procs /\ work[p].prio \in Prios /\ work[p].size \in Nat
         /\ i \in Nat /\ i >= 1
         /\ i <= Len(work) => i \in 1..Len(work) /\ i \in Procs
<1>1. work \in Workloads /\ i \in 1..(NumProcs + 1)
  BY DEF TypeOK
<1>2. /\ Len(work) \in Nat /\ Len(work) <= NumProcs /\ NumProcs \in Nat
      /\ DOMAIN work = 1..Len(work)
      /\ \A p \in 1..Len(work) : work[p].prio \in Prios /\ work[p].size \in Nat
  BY <1>1, WorkType, OsAssumption
<1>3. QED
  BY <1>1, <1>2 DEF Procs

\* The steps of the loader put processes of the configuration into the queues.
LEMMA LoaderType ==
  ASSUME TypeOK, PlaceInv, LoaderStep PROVE TypeOK' /\ PlaceInv'
<1> USE OsAssumption DEF configVars, clockVars, queueVars, loaderVars, cpuVars,
                         Clock!Working, Clock!Arrive, Clock!Leave, Clock!ClockTypeOK
<1>1. CASE Load
  <2>1. i \in Procs /\ i <= Len(work)
    BY <1>1, PlaceFacts DEF Load
  <2>2. TypeOK'
    BY <1>1, <2>1 DEF Load, TypeOK
  <2>3. PlaceInv'
    BY <1>1, <2>1 DEF Load, PlaceInv
  <2>4. QED
    BY <2>2, <2>3
<1>2. CASE AwaitStart
  BY <1>2 DEF AwaitStart, TypeOK, PlaceInv
<1>3. CASE AddList
  <2>1. i \in Procs
    BY <1>3, PlaceFacts DEF AddList, PlaceInv
  <2>2. running_list' \in Seq(Procs) /\ Len(running_list') <= MaxQueueSize
    BY <1>3, <2>1, EnqueueEffect DEF AddList, TypeOK
  <2>3. TypeOK'
    BY <1>3, <2>2 DEF AddList, TypeOK
  <2>4. PlaceInv'
    BY <1>3 DEF AddList, PlaceInv
  <2>5. QED
    BY <2>3, <2>4
<1>4. CASE AddReady
  <2>1. i \in 1..Len(work) /\ i \in Nat /\ Len(work) \in Nat /\ Len(work) <= NumProcs
    BY <1>4, PlaceFacts DEF AddReady, PlaceInv
  <2>2. /\ mlq' \in [Prios -> Seq(Procs)]
        /\ \A x \in Prios : Len(mlq'[x]) <= MaxQueueSize
        /\ \A x \in Prios : \A n \in 1..Len(mlq'[x]) :
             mlq'[x][n] = i \/ (n \in 1..Len(mlq[x]) /\ mlq'[x][n] = mlq[x][n])
    BY <1>4, <2>1, ReadyEffect DEF AddReady
  <2>3. i' = i + 1 /\ i' \in 1..(NumProcs + 1) /\ i' <= Len(work) + 1
    BY <1>4, <2>1 DEF AddReady
  <2>4. TypeOK'
    BY <1>4, <2>2, <2>3 DEF AddReady, TypeOK
  <2>5. PlaceInv'
    BY <1>4, <2>1, <2>2, <2>3 DEF AddReady, PlaceInv
  <2>6. QED
    BY <2>4, <2>5
<1>5. CASE FinishLoading
  <2>1. TypeOK'
    BY <1>5 DEF FinishLoading, TypeOK
  <2>2. PlaceInv'
    BY <1>5 DEF FinishLoading, PlaceInv
  <2>3. QED
    BY <2>1, <2>2
<1>6. QED
  BY <1>1, <1>2, <1>3, <1>4, <1>5 DEF LoaderStep

\* get_proc hands out a process of the configuration.
LEMMA TakeType ==
  ASSUME TypeOK, PlaceInv, NEW c \in Cpus, mlq' = Dequeued,
         proc' = [proc EXCEPT ![c] = NextProc]
  PROVE  /\ mlq' \in [Prios -> Seq(Procs)]
         /\ \A x \in Prios : Len(mlq'[x]) <= MaxQueueSize
         /\ \A x \in Prios : \A n \in 1..Len(mlq'[x]) : mlq'[x][n] \in 1..Len(work)
         /\ proc' \in [Cpus -> Procs \union {NULL}]
         /\ \A d \in Cpus : proc'[d] = IF d = c THEN NextProc ELSE proc[d]
         /\ NextProc # NULL => NextProc \in 1..Len(work)
<1>0. /\ proc \in [Cpus -> Procs \union {NULL}]
      /\ mlq \in [Prios -> Seq(Procs)] /\ \A x \in Prios : Len(mlq[x]) <= MaxQueueSize
      /\ \A x \in Prios : \A n \in 1..Len(mlq[x]) : mlq[x][n] \in 1..Len(work)
  BY DEF TypeOK, PlaceInv
<1>1. \A d \in Cpus : proc'[d] = IF d = c THEN NextProc ELSE proc[d]
  BY <1>0
<1>2. CASE Waiting = {}
  BY <1>0, <1>1, <1>2 DEF NextProc, Dequeued
<1>3. CASE Waiting # {}
  <2>1. PICK t \in Prios : t = TopPrio
    BY <1>3, DequeueEffect
  <2>2. /\ Len(mlq[t]) \in Nat /\ Len(mlq[t]) >= 1 /\ NextProc = mlq[t][1]
        /\ NextProc \in Procs /\ mlq' \in [Prios -> Seq(Procs)]
        /\ \A x \in Prios : Len(mlq'[x]) <= MaxQueueSize
        /\ \A x \in Prios : x # t => mlq'[x] = mlq[x]
        /\ Len(mlq'[t]) = Len(mlq[t]) - 1
        /\ \A n \in 1..Len(mlq'[t]) : mlq'[t][n] = mlq[t][n + 1]
    BY <1>0, <1>3, <2>1, DequeueEffect, LenProperties
  <2>3. NextProc \in 1..Len(work)
    BY <1>0, <2>2
  <2>4. ASSUME NEW x \in Prios, NEW n \in 1..Len(mlq'[x])
        PROVE  mlq'[x][n] \in 1..Len(work)
    <3>1. CASE x = t
      BY <1>0, <2>2, <3>1
    <3>2. CASE x # t
      BY <1>0, <2>2, <3>2
    <3>3. QED
      BY <3>1, <3>2
  <2>5. proc' \in [Cpus -> Procs \union {NULL}]
    BY <1>0, <2>2
  <2>6. QED
    BY <1>1, <2>2, <2>3, <2>4, <2>5
<1>4. QED
  BY <1>2, <1>3

\* The steps of a CPU keep the places and the types.
LEMMA CpuType ==
  ASSUME TypeOK, PlaceInv, NEW c \in Cpus, CpuStep(c) PROVE TypeOK' /\ PlaceInv'
<1> USE OsAssumption DEF configVars, clockVars, queueVars, loaderVars, Clock!Working
<1>0. /\ Len(work) \in Nat /\ DOMAIN work = 1..Len(work)
      /\ \A p \in 1..Len(work) : p \in Procs /\ work[p].size \in Nat
  BY PlaceFacts
<1>1. CASE TakeFirst(c) \/ TakeNext(c)
  <2>1. mlq' = Dequeued /\ proc' = [proc EXCEPT ![c] = NextProc]
    BY <1>1 DEF TakeFirst, TakeNext
  <2>2. /\ mlq' \in [Prios -> Seq(Procs)]
        /\ \A x \in Prios : Len(mlq'[x]) <= MaxQueueSize
        /\ \A x \in Prios : \A n \in 1..Len(mlq'[x]) : mlq'[x][n] \in 1..Len(work)
        /\ proc' \in [Cpus -> Procs \union {NULL}]
        /\ \A d \in Cpus : proc'[d] = IF d = c THEN NextProc ELSE proc[d]
        /\ NextProc # NULL => NextProc \in 1..Len(work)
    BY <2>1, TakeType
  <2>3. TypeOK'
    <3>1. Clock!ClockTypeOK'
      BY <1>1 DEF TakeFirst, TakeNext, TypeOK, Clock!Arrive, Clock!ClockTypeOK
    <3>2. cpc' \in [Cpus -> {"top", "put", "get", "check", "run", "gone"}]
      BY <1>1 DEF TakeFirst, TakeNext, TypeOK
    <3>3. UNCHANGED <<work, time_slot, running_list, done, i, ldpc, time_left, pcb, pc>>
      BY <1>1 DEF TakeFirst, TakeNext
    <3>4. QED
      BY <2>2, <3>1, <3>2, <3>3 DEF TypeOK
  <2>4. \A d \in Cpus : cpc'[d] \in {"put", "run"} => proc'[d] # NULL
    BY <1>1, <2>2 DEF TakeFirst, TakeNext, TypeOK, PlaceInv
  <2>5. PlaceInv'
    <3>1. UNCHANGED <<work, i, ldpc>>
      BY <1>1 DEF TakeFirst, TakeNext
    <3>2. \A d \in Cpus : proc'[d] # NULL => proc'[d] \in 1..Len(work)
      BY <2>2 DEF PlaceInv
    <3>3. QED
      BY <2>2, <2>4, <3>1, <3>2 DEF PlaceInv
  <2>6. QED
    BY <2>3, <2>5
<1>2. CASE Finish(c)
  <2>0. proc[c] \in Procs /\ TimeSlots \subseteq Nat
    BY <1>0, <1>2 DEF Finish, PlaceInv
  <2>1. TypeOK'
    <3>1. time_left' \in [Cpus -> Int] /\ \A d \in Cpus : time_left'[d] <= time_slot
      <4>1. /\ time_left \in [Cpus -> Int] /\ time_slot \in Nat
            /\ \A d \in Cpus : time_left[d] <= time_slot
        BY <2>0 DEF TypeOK
      <4>2. time_left' = [time_left EXCEPT ![c] = 0]
        BY <1>2 DEF Finish
      <4>3. QED
        BY <4>1, <4>2
    <3>2. QED
      BY <1>2, <2>0, <3>1 DEF Finish, TypeOK, Clock!ClockTypeOK
  <2>2. PlaceInv'
    BY <1>2 DEF Finish, TypeOK, PlaceInv
  <2>3. QED
    BY <2>1, <2>2
<1>3. CASE Yield(c)
  <2>1. proc[c] \in Procs
    BY <1>0, <1>3 DEF Yield, PlaceInv
  <2>2. running_list' \in Seq(Procs) /\ Len(running_list') <= MaxQueueSize
    BY <1>3, <2>1, EnqueueEffect DEF Yield, TypeOK
  <2>3. TypeOK'
    BY <1>3, <2>2 DEF Yield, TypeOK, Clock!ClockTypeOK
  <2>4. PlaceInv'
    BY <1>3 DEF Yield, TypeOK, PlaceInv
  <2>5. QED
    BY <2>3, <2>4
<1>4. CASE PutReady(c)
  <2>1. PICK p \in 1..Len(work) : p = proc[c]
    BY <1>4 DEF PutReady, PlaceInv
  <2>2. /\ mlq' \in [Prios -> Seq(Procs)]
        /\ \A x \in Prios : Len(mlq'[x]) <= MaxQueueSize
        /\ \A x \in Prios : \A n \in 1..Len(mlq'[x]) :
             mlq'[x][n] = p \/ (n \in 1..Len(mlq[x]) /\ mlq'[x][n] = mlq[x][n])
    <3>1. mlq' = Ready(p)
      BY <1>4, <2>1 DEF PutReady
    <3>2. QED
      BY <3>1, ReadyEffect
  <2>3. TypeOK'
    BY <1>4, <2>2 DEF PutReady, TypeOK, Clock!ClockTypeOK
  <2>4. PlaceInv'
    BY <1>4, <2>2 DEF PutReady, TypeOK, PlaceInv
  <2>5. QED
    BY <2>3, <2>4
<1>5. CASE Check(c)
  <2>1. TypeOK'
    BY <1>5 DEF Check, TypeOK, Devices, Clock!Arrive, Clock!Leave, Clock!ClockTypeOK
  <2>2. PlaceInv'
    BY <1>5 DEF Check, TypeOK, PlaceInv
  <2>3. QED
    BY <2>1, <2>2
<1>6. CASE Run(c)
  <2>1. PICK p \in 1..Len(work) : p = proc[c]
    BY <1>6 DEF Run, PlaceInv
  <2>2. p \in Procs /\ work[p].size \in Nat
    BY <1>0
  <2>3. pc' = [pc EXCEPT ![p] = IF @ >= work[p].size THEN @ ELSE @ + 1]
    BY <1>6, <2>1 DEF Run
  <2>4. /\ pc \in [Procs -> Nat] /\ \A q \in 1..Len(work) : pc[q] <= work[q].size
    BY <1>0 DEF TypeOK
  <2>5. pc' \in [Procs -> Nat]
    BY <2>2, <2>3, <2>4
  <2>6. \A q \in 1..Len(work) : pc'[q] <= work[q].size
    <3>1. \A q \in 1..Len(work) : q # p => pc'[q] = pc[q]
      BY <1>0, <2>3, <2>4
    <3>2. pc'[p] <= work[p].size
      BY <2>2, <2>3, <2>4
    <3>3. QED
      BY <2>4, <3>1, <3>2
  <2>7. time_left' \in [Cpus -> Int] /\ \A d \in Cpus : time_left'[d] <= time_slot'
    BY <1>6 DEF Run, TypeOK
  <2>8. TypeOK'
    BY <1>0, <1>6, <2>5, <2>6, <2>7
    DEF Run, TypeOK, Clock!Arrive, Clock!ClockTypeOK
  <2>9. PlaceInv'
    BY <1>6 DEF Run, TypeOK, PlaceInv
  <2>10. QED
    BY <2>8, <2>9
<1>7. QED
  BY <1>1, <1>2, <1>3, <1>4, <1>5, <1>6 DEF CpuStep

\* A tick of the clock keeps them.
LEMMA TimerType ==
  ASSUME TypeOK, PlaceInv, TimerStep PROVE TypeOK' /\ PlaceInv'
<1> USE OsAssumption DEF TimerStep, configVars, queueVars, loaderVars, cpuVars
<1>1. Clock!ClockTypeOK'
  <2>1. now \in 0..Horizon /\ now' \in 0..Horizon
    BY DEF TypeOK, Clock!ClockTypeOK, Clock!Tick, Clock!Halt, Clock!Later
  <2>2. QED
    BY <2>1 DEF TypeOK, Clock!ClockTypeOK, Clock!Tick, Clock!Halt
<1>2. TypeOK'
  BY <1>1 DEF TypeOK
<1>3. PlaceInv'
  BY DEF PlaceInv
<1>4. QED
  BY <1>2, <1>3

\* A CPU that is not in a walk does not disturb one that is.
LEMMA CpuKeepsWalks ==
  ASSUME KTypeInv, NEW c \in Cpus, CpuStep(c), walk[c] = NoWalk, UNCHANGED walk
  PROVE  WalkInv'
<1>0. /\ TypeOK /\ WalkInv /\ PlaceInv /\ Killer \in Procs /\ KillAt \in Nat
      /\ pc \in [Procs -> Nat]
  BY OsKillAssumption DEF KTypeInv, TypeOK
<1>1. \A d \in Cpus : d # c => cpc'[d] = cpc[d] /\ proc'[d] = proc[d]
  BY <1>0 DEF TypeOK, CpuStep, TakeFirst, Finish, Yield, PutReady, TakeNext, Check, Run
<1>2. pc'[Killer] >= pc[Killer] /\ pc'[Killer] \in Nat
  <2>1. CASE Run(c)
    <3>1. pc' = [pc EXCEPT ![proc[c]] = IF @ >= work[proc[c]].size THEN @ ELSE @ + 1]
      BY <2>1 DEF Run
    <3>2. QED
      BY <1>0, <3>1
  <2>2. CASE UNCHANGED pc
    BY <1>0, <2>2
  <2>3. QED
    BY <2>1, <2>2 DEF CpuStep, TakeFirst, Finish, Yield, PutReady, TakeNext, Check
<1>3. QED
  BY <1>0, <1>1, <1>2 DEF WalkInv

\* The lists that a walk goes through are arrays of processes.
LEMMA ListFacts ==
  ASSUME TypeOK, NEW l \in Lists
  PROVE  /\ List(l) \in Seq(Procs) /\ Len(List(l)) \in Nat
         /\ Len(List(l)) <= MaxQueueSize
         /\ \A n \in 1..Len(List(l)) : List(l)[n] \in Procs
<1>1. List(l) \in Seq(Procs) /\ Len(List(l)) <= MaxQueueSize
  <2>1. CASE l = 0
    BY <2>1 DEF List, TypeOK
  <2>2. CASE l # 0
    <3>1. l - 1 \in Prios
      BY <2>2, OsAssumption DEF Lists, Prios
    <3>2. QED
      BY <2>2, <3>1 DEF List, TypeOK
  <2>3. QED
    BY <2>1, <2>2
<1>2. QED
  BY <1>1, LenProperties, ElementOfSeq

\* The walk assigns to one list and leaves the others.
LEMMA SetListEffect ==
  ASSUME TypeOK, NEW l \in Lists, NEW q \in Seq(Procs), Len(q) <= MaxQueueSize,
         SetList(l, q)
  PROVE  /\ running_list' = IF l = 0 THEN q ELSE running_list
         /\ mlq' \in [Prios -> Seq(Procs)]
         /\ \A x \in Prios : Len(mlq'[x]) <= MaxQueueSize
         /\ \A x \in Prios : mlq'[x] = IF l = x + 1 THEN q ELSE mlq[x]
<1>0. mlq \in [Prios -> Seq(Procs)] /\ \A x \in Prios : Len(mlq[x]) <= MaxQueueSize
  BY DEF TypeOK
<1>1. CASE l = 0
  <2>1. \A x \in Prios : l # x + 1
    BY <1>1, OsAssumption DEF Prios
  <2>2. QED
    BY <1>0, <1>1, <2>1 DEF SetList
<1>2. CASE l # 0
  <2>1. PICK y \in Prios : y = l - 1
    BY <1>2, OsAssumption DEF Lists, Prios
  <2>2. mlq' = [mlq EXCEPT ![y] = q] /\ UNCHANGED running_list
    BY <1>2, <2>1 DEF SetList
  <2>3. \A x \in Prios : l = x + 1 <=> x = y
    BY <2>1, OsAssumption DEF Lists, Prios
  <2>4. QED
    BY <1>0, <1>2, <2>2, <2>3
<1>3. QED
  BY <1>1, <1>2

\* One turn of the shift copies one element of the list to the place before it.
LEMMA ShiftEffect ==
  ASSUME KTypeInv, NEW c \in Cpus, Shift(c)
  PROVE  /\ walk[c].list \in Lists /\ walk[c].shift \in Nat \ {0}
         /\ running_list' \in Seq(Procs) /\ Len(running_list') = Len(running_list)
         /\ mlq' \in [Prios -> Seq(Procs)]
         /\ \A x \in Prios : Len(mlq'[x]) = Len(mlq[x])
         /\ \A x \in Prios : walk[c].list = x + 1 =>
              /\ walk[c].shift + 1 \in 1..Len(mlq[x])
              /\ \A n \in 1..Len(mlq[x]) :
                   mlq'[x][n] = IF n = walk[c].shift THEN mlq[x][n + 1] ELSE mlq[x][n]
         /\ \A x \in Prios : walk[c].list # x + 1 => mlq'[x] = mlq[x]
<1> DEFINE l == walk[c].list
           j == walk[c].shift
<1>0. TypeOK /\ WalkType /\ WalkInv
  BY DEF KTypeInv
<1>1. l \in Lists /\ j \in 1..MaxQueueSize
  BY <1>0, OsAssumption DEF WalkType, WalkRecord, WalkInv, Shift, Walking, Lists
<1>2. PICK q : q = List(l)
  OBVIOUS
<1>3. q \in Seq(Procs) /\ Len(q) \in Nat /\ Len(q) <= MaxQueueSize
  BY <1>0, <1>1, <1>2, ListFacts
<1>4. j < Len(q) /\ SetList(l, Shifted(q, j))
  BY <1>2 DEF Shift
<1> HIDE DEF l, j
<1>5. j \in 1..Len(q) /\ j + 1 \in 1..Len(q) /\ q[j + 1] \in Procs
  BY <1>1, <1>3, <1>4, ElementOfSeq, OsAssumption
<1>6. PICK r : r = Shifted(q, j)
  OBVIOUS
<1>7. /\ r \in Seq(Procs) /\ Len(r) = Len(q)
      /\ \A n \in 1..Len(q) : r[n] = IF n = j THEN q[n + 1] ELSE q[n]
  BY <1>3, <1>5, <1>6, ExceptSeq DEF Shifted
<1>8. /\ running_list' = IF l = 0 THEN r ELSE running_list
      /\ mlq' \in [Prios -> Seq(Procs)]
      /\ \A x \in Prios : mlq'[x] = IF l = x + 1 THEN r ELSE mlq[x]
  BY <1>0, <1>1, <1>3, <1>4, <1>6, <1>7, SetListEffect
<1>9. l = 0 => q = running_list
  BY <1>2 DEF List
<1>10. \A x \in Prios : l = x + 1 => q = mlq[x]
  BY <1>2, OsAssumption DEF List, Prios
<1>11. running_list' \in Seq(Procs) /\ Len(running_list') = Len(running_list)
  BY <1>0, <1>7, <1>8, <1>9 DEF TypeOK
<1>12. \A x \in Prios : Len(mlq'[x]) = Len(mlq[x])
  BY <1>7, <1>8, <1>10
<1>13. \A x \in Prios : l = x + 1 =>
         /\ j + 1 \in 1..Len(mlq[x])
         /\ \A n \in 1..Len(mlq[x]) :
              mlq'[x][n] = IF n = j THEN mlq[x][n + 1] ELSE mlq[x][n]
  BY <1>5, <1>7, <1>8, <1>10
<1>14. \A x \in Prios : l # x + 1 => mlq'[x] = mlq[x]
  BY <1>8
<1>15. l \in Lists /\ j \in Nat \ {0}
  BY <1>1, OsAssumption
<1>16. QED
  BY <1>8, <1>11, <1>12, <1>13, <1>14, <1>15 DEF l, j

\* The end of the shift takes the last place off the list.
LEMMA ShrinkEffect ==
  ASSUME KTypeInv, NEW c \in Cpus, Shrink(c)
  PROVE  /\ walk[c].list \in Lists /\ walk[c].shift \in Nat \ {0}
         /\ running_list' \in Seq(Procs) /\ Len(running_list') <= Len(running_list)
         /\ mlq' \in [Prios -> Seq(Procs)]
         /\ \A x \in Prios : walk[c].list = x + 1 =>
              /\ walk[c].shift >= Len(mlq[x])
              /\ mlq[x] # <<>> => Len(mlq'[x]) = Len(mlq[x]) - 1
              /\ mlq[x] = <<>> => Len(mlq'[x]) = Len(mlq[x])
              /\ \A n \in 1..Len(mlq'[x]) : mlq'[x][n] = mlq[x][n]
         /\ \A x \in Prios : walk[c].list # x + 1 => mlq'[x] = mlq[x]
<1> DEFINE l == walk[c].list
           j == walk[c].shift
<1>0. TypeOK /\ WalkType /\ WalkInv
  BY DEF KTypeInv
<1>1. l \in Lists /\ j \in 1..MaxQueueSize
  BY <1>0, OsAssumption DEF WalkType, WalkRecord, WalkInv, Shrink, Walking, Lists
<1>2. PICK q : q = List(l)
  OBVIOUS
<1>3. q \in Seq(Procs) /\ Len(q) \in Nat /\ Len(q) <= MaxQueueSize
  BY <1>0, <1>1, <1>2, ListFacts
<1>4. /\ j >= Len(q)
      /\ IF q = <<>> THEN UNCHANGED <<mlq, running_list>> ELSE SetList(l, Shrunk(q))
  BY <1>2 DEF Shrink, queueVars
<1> HIDE DEF l, j
<1>5. l = 0 => q = running_list
  BY <1>2 DEF List
<1>6. \A x \in Prios : l = x + 1 => q = mlq[x]
  BY <1>2, OsAssumption DEF List, Prios
<1>7. l \in Lists /\ j \in Nat \ {0}
  BY <1>1, OsAssumption
<1>8. CASE q = <<>>
  <2>1. UNCHANGED <<mlq, running_list>>
    BY <1>4, <1>8
  <2>2. /\ running_list \in Seq(Procs) /\ Len(running_list) \in Nat
        /\ mlq \in [Prios -> Seq(Procs)]
    BY <1>0, LenProperties DEF TypeOK
  <2>3. QED
    BY <1>4, <1>6, <1>7, <1>8, <2>1, <2>2 DEF l, j
<1>9. CASE q # <<>>
  <2>1. Len(q) >= 1
    BY <1>3, <1>9, EmptySeq
  <2>2. PICK r : r = Shrunk(q)
    OBVIOUS
  <2>3. /\ r \in Seq(Procs) /\ Len(r) = Len(q) - 1
        /\ \A n \in 1..Len(r) : r[n] = q[n]
    <3>1. PICK k \in Int : k = Len(q) - 1
      BY <1>3
    <3>2. r = SubSeq(q, 1, k) /\ \A n \in 1..k : q[n] \in Procs
      BY <1>3, <2>2, <3>1, ElementOfSeq DEF Shrunk
    <3>3. /\ SubSeq(q, 1, k) \in Seq(Procs)
          /\ Len(SubSeq(q, 1, k)) = IF 1 <= k THEN k - 1 + 1 ELSE 0
          /\ \A n \in 1..(k - 1 + 1) : SubSeq(q, 1, k)[n] = q[1 + n - 1]
      BY <3>2, SubSeqProperties
    <3>4. k >= 0
      BY <1>3, <2>1, <3>1
    <3>5. QED
      BY <3>1, <3>2, <3>3, <3>4
  <2>4. Len(r) <= MaxQueueSize
    BY <1>3, <2>3, OsAssumption
  <2>5. /\ running_list' = IF l = 0 THEN r ELSE running_list
        /\ mlq' \in [Prios -> Seq(Procs)]
        /\ \A x \in Prios : mlq'[x] = IF l = x + 1 THEN r ELSE mlq[x]
    BY <1>0, <1>1, <1>4, <1>9, <2>2, <2>3, <2>4, SetListEffect
  <2>6. running_list' \in Seq(Procs) /\ Len(running_list') <= Len(running_list)
    <3>1. running_list \in Seq(Procs) /\ Len(running_list) \in Nat
      BY <1>0, LenProperties DEF TypeOK
    <3>2. QED
      BY <1>3, <1>5, <2>3, <2>5, <3>1
  <2>7. \A x \in Prios : l = x + 1 =>
          /\ j >= Len(mlq[x])
          /\ mlq[x] # <<>> => Len(mlq'[x]) = Len(mlq[x]) - 1
          /\ mlq[x] = <<>> => Len(mlq'[x]) = Len(mlq[x])
          /\ \A n \in 1..Len(mlq'[x]) : mlq'[x][n] = mlq[x][n]
    BY <1>4, <1>6, <1>9, <2>3, <2>5
  <2>8. \A x \in Prios : l # x + 1 => mlq'[x] = mlq[x]
    BY <2>5
  <2>9. QED
    BY <1>7, <2>5, <2>6, <2>7, <2>8 DEF l, j
<1>10. QED
  BY <1>8, <1>9

\* A walk that goes on keeps the shape of its record.
LEMMA RecordFacts ==
  ASSUME NEW w \in WalkRecord
  PROVE  /\ w.list \in 0..(MaxPrio + 1) /\ w.i \in 0..(MaxQueueSize + 1)
         /\ w.shift \in 0..MaxQueueSize /\ w.count \in Nat
  BY DEF WalkRecord

\* The record of a walk whose index has moved.
LEMMA PassRecord ==
  ASSUME NEW w \in WalkRecord, NEW b \in 0..(MaxQueueSize + 1),
         NEW r, r = [w EXCEPT !.i = b]
  PROVE  /\ r \in WalkRecord /\ r.list = w.list /\ r.i = b /\ r.shift = w.shift
         /\ r.count = w.count
  BY DEF WalkRecord

\* The record of a walk whose shift has moved.
LEMMA ShiftRecord ==
  ASSUME NEW w \in WalkRecord, NEW s \in 0..MaxQueueSize,
         NEW r, r = [w EXCEPT !.shift = s]
  PROVE  /\ r \in WalkRecord /\ r.list = w.list /\ r.i = w.i /\ r.shift = s
         /\ r.count = w.count
  BY DEF WalkRecord

\* Starting a walk runs one more instruction of Killer.
LEMMA StartWalkType ==
  ASSUME KTypeInv, NEW c \in Cpus, StartWalk(c) PROVE KTypeInv'
<1>0. /\ TypeOK /\ PlaceInv /\ WalkType /\ WalkInv /\ Killer \in Procs
      /\ KillAt \in Nat \ {0} /\ pc \in [Procs -> Nat]
  BY OsKillAssumption DEF KTypeInv, TypeOK
<1>1. /\ pc[Killer] = KillAt - 1 /\ KillAt <= work[Killer].size /\ proc[c] = Killer
      /\ pc' = [pc EXCEPT ![Killer] = @ + 1] /\ cpc' = [cpc EXCEPT ![c] = "run"]
      /\ UNCHANGED <<configVars, clockVars, queueVars, loaderVars, proc, time_left, pcb,
                     named, marked, sane>>
  BY DEF StartWalk, CallsKillall
<1> USE DEF configVars, clockVars, queueVars, loaderVars
<1>2. /\ \A q \in Procs : pc'[q] = IF q = Killer THEN KillAt ELSE pc[q]
      /\ pc' \in [Procs -> Nat]
  BY <1>0, <1>1
<1>3. TypeOK'
  <2>1. \A p \in DOMAIN work' : pc'[p] <= work'[p].size
    <3>1. DOMAIN work \subseteq Procs /\ \A p \in DOMAIN work : pc[p] <= work[p].size
      BY <1>0, WorkType DEF TypeOK
    <3>2. QED
      BY <1>1, <1>2, <3>1
  <2>2. cpc' \in [Cpus -> {"top", "put", "get", "check", "run", "gone"}]
    BY <1>0, <1>1 DEF TypeOK
  <2>3. QED
    BY <1>0, <1>1, <1>2, <2>1, <2>2 DEF TypeOK, Clock!ClockTypeOK
<1>4. PlaceInv'
  <2>1. proc[c] # NULL
    BY <1>0, <1>1 DEF Procs, NULL
  <2>2. \A d \in Cpus : cpc'[d] = IF d = c THEN "run" ELSE cpc[d]
    BY <1>0, <1>1 DEF TypeOK
  <2>3. QED
    BY <1>0, <1>1, <2>1, <2>2 DEF PlaceInv
<1>5. PICK b : b = [l \in Lists |-> List(l)]
  OBVIOUS
<1>6. b \in [Lists -> Seq(Procs)]
  BY <1>0, <1>5, ListFacts
<1>7. PICK r : r = [NoWalk EXCEPT !.i = 1, !.before = b]
  OBVIOUS
<1>8. r \in WalkRecord /\ r.i = 1 /\ r.list = 0 /\ r.shift = 0
  <2>1. r = [list |-> 0, i |-> 1, shift |-> 0, count |-> 0, before |-> b]
    BY <1>7 DEF NoWalk
  <2>2. b \in Befores
    BY <1>6 DEF Befores
  <2>3. QED
    BY <2>1, <2>2, OsAssumption DEF WalkRecord
<1>9. /\ walk' \in [Cpus -> WalkRecord]
      /\ \A d \in Cpus : walk'[d] = IF d = c THEN r ELSE walk[d]
  <2>1. walk' = [walk EXCEPT ![c] = r]
    BY <1>5, <1>7 DEF StartWalk
  <2>2. QED
    BY <1>0, <1>8, <2>1 DEF WalkType
<1>10. \A d \in Cpus : d # c => cpc'[d] = cpc[d]
  BY <1>1
<1>11. cpc'[c] = "run" /\ proc'[c] = Killer
  BY <1>0, <1>1 DEF TypeOK
<1>12. WalkInv'
  BY <1>0, <1>1, <1>2, <1>8, <1>9, <1>10, <1>11 DEF WalkInv
<1>13. QED
  BY <1>1, <1>3, <1>4, <1>9, <1>12 DEF KTypeInv, WalkType

\* The walk looks at the places of a list in turn and counts the ones it takes.
LEMMA LookType ==
  ASSUME KTypeInv, NEW c \in Cpus, EndOfList(c) \/ Pass(c) \/ Hit(c)
  PROVE  KTypeInv'
<1>0. TypeOK /\ PlaceInv /\ WalkType /\ WalkInv
  BY DEF KTypeInv
<1>1. PICK w : w = walk[c]
  OBVIOUS
<1>2. /\ w \in WalkRecord /\ w.list \in Lists /\ w.i \in Nat /\ w.i >= 1 /\ w.shift = 0
      /\ cpc[c] = "run" /\ proc[c] = Killer /\ pc[Killer] >= KillAt
  <2>1. /\ w \in WalkRecord /\ w # NoWalk /\ ~(w.list > MaxPrio) /\ w.shift = 0
    BY <1>0, <1>1 DEF WalkType, EndOfList, Pass, Hit, Walking, Walked
  <2>2. w.list \in 0..(MaxPrio + 1) /\ w.i \in 0..(MaxQueueSize + 1)
    BY <2>1, RecordFacts
  <2>3. w.i >= 1 /\ cpc[c] = "run" /\ proc[c] = Killer /\ pc[Killer] >= KillAt
    BY <1>0, <1>1, <2>1 DEF WalkInv
  <2>4. QED
    BY <2>1, <2>2, <2>3, OsAssumption DEF Lists
<1>3. /\ Len(List(w.list)) \in Nat /\ Len(List(w.list)) <= MaxQueueSize
      /\ \A n \in 1..Len(List(w.list)) : List(w.list)[n] \in Procs
  BY <1>0, <1>2, ListFacts
<1>4. UNCHANGED vars /\ UNCHANGED <<named, sane>>
  BY DEF EndOfList, Pass, Hit
<1>5. PICK r \in WalkRecord :
        /\ walk' = [walk EXCEPT ![c] = r]
        /\ r.i >= 1 /\ (r.shift # 0 => r.list <= MaxPrio)
  <2>1. CASE EndOfList(c)
    <3>1. walk' = [walk EXCEPT ![c] = [w EXCEPT !.list = w.list + 1, !.i = 1]]
      BY <1>1, <2>1 DEF EndOfList, NextList
    <3>2. PICK a \in 0..(MaxPrio + 1) : a = w.list + 1
      BY <1>2, OsAssumption DEF Lists
    <3>3. PICK r : r = [w EXCEPT !.list = a, !.i = 1]
      OBVIOUS
    <3>4. 1 \in 0..(MaxQueueSize + 1)
      BY OsAssumption
    <3>5. r \in WalkRecord /\ r.i = 1 /\ r.shift = w.shift
      <4>1. w \in WalkRecord
        BY <1>2
      <4>2. QED
        BY <3>3, <3>4, <4>1 DEF WalkRecord
    <3>6. walk' = [walk EXCEPT ![c] = r]
      BY <3>1, <3>2, <3>3
    <3>7. r.i >= 1 /\ r.shift = 0
      BY <1>2, <3>5
    <3>8. QED
      BY <3>5, <3>6, <3>7
  <2>2. CASE Pass(c)
    <3>1. walk' = [walk EXCEPT ![c] = [w EXCEPT !.i = w.i + 1]]
      BY <1>1, <2>2 DEF Pass
    <3>2. w.i <= Len(List(w.list))
      BY <1>1, <2>2 DEF Pass
    <3>3. PICK b \in 0..(MaxQueueSize + 1) : b = w.i + 1 /\ b >= 1
      BY <1>2, <1>3, <3>2, OsAssumption
    <3>4. PICK r : r = [w EXCEPT !.i = b]
      OBVIOUS
    <3>5. r \in WalkRecord /\ r.i = b /\ r.shift = w.shift
      BY <1>2, <3>4, PassRecord
    <3>6. walk' = [walk EXCEPT ![c] = r]
      BY <3>1, <3>3, <3>4
    <3>7. QED
      BY <1>2, <3>3, <3>5, <3>6
  <2>3. CASE Hit(c)
    <3>1. walk' = [walk EXCEPT ![c] = [w EXCEPT !.shift = w.i, !.count = w.count + 1]]
      BY <1>0, <1>1, <2>3 DEF Hit, WalkType
    <3>2. w.i <= Len(List(w.list))
      BY <1>1, <2>3 DEF Hit
    <3>3. PICK b \in 0..MaxQueueSize : b = w.i
      BY <1>2, <1>3, <3>2, OsAssumption
    <3>4. w.count \in Nat
      BY <1>2, RecordFacts
    <3>5. PICK k \in Nat : k = w.count + 1
      BY <3>4
    <3>6. PICK r : r = [w EXCEPT !.shift = b, !.count = k]
      OBVIOUS
    <3>7. r \in WalkRecord /\ r.i = w.i /\ r.list = w.list
      <4>1. w \in WalkRecord
        BY <1>2
      <4>2. QED
        BY <3>6, <4>1 DEF WalkRecord
    <3>8. walk' = [walk EXCEPT ![c] = r]
      BY <3>1, <3>3, <3>5, <3>6
    <3>9. w.list <= MaxPrio
      BY <1>2, OsAssumption DEF Lists
    <3>10. QED
      BY <1>2, <3>7, <3>8, <3>9
  <2>4. QED
    BY <2>1, <2>2, <2>3
<1>6. marked' \subseteq Procs
  BY <1>1, <1>2, <1>3 DEF EndOfList, Pass, Hit, KTypeInv
<1> USE DEF vars, configVars, clockVars, queueVars, loaderVars, cpuVars
<1>7. TypeOK'
  BY <1>0, <1>4 DEF TypeOK, Clock!ClockTypeOK
<1>8. PlaceInv'
  BY <1>0, <1>4 DEF PlaceInv
<1>9. WalkType'
  BY <1>0, <1>5 DEF WalkType
<1>10. WalkInv'
  <2>1. \A d \in Cpus : walk'[d] = IF d = c THEN r ELSE walk[d]
    BY <1>0, <1>5 DEF WalkType
  <2>2. QED
    BY <1>0, <1>2, <1>4, <1>5, <2>1 DEF WalkInv
<1>11. QED
  BY <1>4, <1>6, <1>7, <1>8, <1>9, <1>10 DEF KTypeInv

\* The removal of a process from a list leaves processes in it.
LEMMA RemoveType ==
  ASSUME KTypeInv, NEW c \in Cpus, Shift(c) \/ Shrink(c) PROVE KTypeInv'
<1>0. /\ TypeOK /\ PlaceInv /\ WalkType /\ WalkInv
      /\ \A x \in Prios : mlq[x] \in Seq(Procs) /\ Len(mlq[x]) \in Nat
      /\ Len(running_list) \in Nat /\ Len(running_list) <= MaxQueueSize
      /\ \A x \in Prios : Len(mlq[x]) <= MaxQueueSize
  BY LenProperties DEF KTypeInv, TypeOK
<1>1. PICK w : w = walk[c]
  OBVIOUS
<1>2. /\ w \in WalkRecord /\ w.i >= 1 /\ w.list <= MaxPrio
      /\ cpc[c] = "run" /\ proc[c] = Killer /\ pc[Killer] >= KillAt
  BY <1>0, <1>1 DEF WalkType, WalkInv, Shift, Shrink, Walking
<1>3. /\ running_list' \in Seq(Procs) /\ Len(running_list') <= MaxQueueSize
      /\ mlq' \in [Prios -> Seq(Procs)]
      /\ \A x \in Prios : Len(mlq'[x]) <= MaxQueueSize
      /\ \A x \in Prios : \A n \in 1..Len(mlq'[x]) :
           \E m \in 1..Len(mlq[x]) : mlq'[x][n] = mlq[x][m]
  <2>1. CASE Shift(c)
    <3>1. /\ running_list' \in Seq(Procs) /\ Len(running_list') = Len(running_list)
          /\ mlq' \in [Prios -> Seq(Procs)]
          /\ \A x \in Prios : Len(mlq'[x]) = Len(mlq[x])
          /\ \A x \in Prios : w.list = x + 1 =>
               /\ w.shift + 1 \in 1..Len(mlq[x])
               /\ \A n \in 1..Len(mlq[x]) :
                    mlq'[x][n] = IF n = w.shift THEN mlq[x][n + 1] ELSE mlq[x][n]
          /\ \A x \in Prios : w.list # x + 1 => mlq'[x] = mlq[x]
      BY <1>1, <2>1, ShiftEffect
    <3>2. ASSUME NEW x \in Prios, NEW n \in 1..Len(mlq'[x])
          PROVE  \E m \in 1..Len(mlq[x]) : mlq'[x][n] = mlq[x][m]
      BY <3>1
    <3>3. QED
      BY <1>0, <3>1, <3>2
  <2>2. CASE Shrink(c)
    <3>1. /\ running_list' \in Seq(Procs) /\ Len(running_list') <= Len(running_list)
          /\ mlq' \in [Prios -> Seq(Procs)]
          /\ \A x \in Prios : w.list = x + 1 =>
               /\ mlq[x] # <<>> => Len(mlq'[x]) = Len(mlq[x]) - 1
               /\ mlq[x] = <<>> => Len(mlq'[x]) = Len(mlq[x])
               /\ \A n \in 1..Len(mlq'[x]) : mlq'[x][n] = mlq[x][n]
          /\ \A x \in Prios : w.list # x + 1 => mlq'[x] = mlq[x]
      BY <1>1, <2>2, ShrinkEffect
    <3>2. Len(running_list') \in Nat /\ MaxQueueSize \in Nat
      BY <3>1, LenProperties, OsAssumption
    <3>3. ASSUME NEW x \in Prios
          PROVE  /\ Len(mlq'[x]) <= Len(mlq[x]) /\ Len(mlq'[x]) <= MaxQueueSize
                 /\ \A n \in 1..Len(mlq'[x]) : mlq'[x][n] = mlq[x][n]
      BY <1>0, <3>1, <3>2
    <3>4. ASSUME NEW x \in Prios, NEW n \in 1..Len(mlq'[x])
          PROVE  \E m \in 1..Len(mlq[x]) : mlq'[x][n] = mlq[x][m]
      <4>1. n \in 1..Len(mlq[x])
        <5>1. Len(mlq'[x]) \in Nat
          BY <3>1, LenProperties
        <5>2. QED
          BY <1>0, <3>3, <5>1
      <4>2. QED
        BY <3>3, <4>1
    <3>5. QED
      BY <1>0, <3>1, <3>2, <3>3, <3>4
  <2>3. QED
    BY <2>1, <2>2
<1> USE DEF configVars, clockVars, loaderVars, cpuVars
<1>4. UNCHANGED <<configVars, clockVars, loaderVars, cpuVars, pcb, pc, named, marked>>
      /\ sane' \in BOOLEAN
  BY DEF Shift, Shrink, KTypeInv
<1>5. PICK r \in WalkRecord :
        walk' = [walk EXCEPT ![c] = r] /\ r.i >= 1 /\ r.list <= MaxPrio
  <2>1. CASE Shift(c)
    <3>1. walk' = [walk EXCEPT ![c] = [w EXCEPT !.shift = w.shift + 1]]
      BY <1>1, <2>1 DEF Shift
    <3>2. w.shift + 1 \in 0..MaxQueueSize
      <4>1. w.list \in Lists /\ w.shift < Len(List(w.list)) /\ w.shift \in Nat
        BY <1>1, <2>1, ShiftEffect DEF Shift
      <4>2. QED
        BY <1>0, <4>1, ListFacts, OsAssumption
    <3>3. PICK r : r = [w EXCEPT !.shift = w.shift + 1]
      OBVIOUS
    <3>4. r \in WalkRecord /\ r.i = w.i /\ r.list = w.list
      BY <1>2, <3>2, <3>3, ShiftRecord
    <3>5. QED
      BY <1>2, <3>1, <3>2, <3>3, <3>4
  <2>2. CASE Shrink(c)
    <3>1. walk' = [walk EXCEPT ![c] = [w EXCEPT !.shift = 0]]
      BY <1>1, <2>2 DEF Shrink, Removed
    <3>2. 0 \in 0..MaxQueueSize
      BY OsAssumption
    <3>3. PICK r : r = [w EXCEPT !.shift = 0]
      OBVIOUS
    <3>4. r \in WalkRecord /\ r.i = w.i /\ r.list = w.list
      BY <1>2, <3>2, <3>3, ShiftRecord
    <3>5. QED
      BY <1>2, <3>1, <3>2, <3>3, <3>4
  <2>3. QED
    BY <2>1, <2>2
<1>6. TypeOK'
  BY <1>0, <1>3, <1>4 DEF TypeOK, Clock!ClockTypeOK
<1>7. PlaceInv'
  BY <1>0, <1>3, <1>4 DEF PlaceInv
<1>8. WalkType'
  BY <1>0, <1>5 DEF WalkType
<1>9. WalkInv'
  <2>1. \A d \in Cpus : walk'[d] = IF d = c THEN r ELSE walk[d]
    BY <1>0, <1>5 DEF WalkType
  <2>2. QED
    BY <1>0, <1>2, <1>4, <1>5, <2>1 DEF WalkInv
<1>10. QED
  BY <1>4, <1>6, <1>7, <1>8, <1>9 DEF KTypeInv

\* The slot of the walk ends.
LEMMA EndWalkType ==
  ASSUME KTypeInv, NEW c \in Cpus, EndWalk(c) PROVE KTypeInv'
<1>0. TypeOK /\ PlaceInv /\ WalkType /\ WalkInv
  BY DEF KTypeInv
<1>1. /\ walk' = [walk EXCEPT ![c] = NoWalk] /\ cpc' = [cpc EXCEPT ![c] = "top"]
      /\ time_left' = [time_left EXCEPT ![c] = (IF @ = 0 THEN time_slot ELSE @) - 1]
      /\ UNCHANGED <<configVars, queueVars, loaderVars, proc, pcb, pc, named, marked,
                     sane>>
  BY DEF EndWalk
<1> USE DEF configVars, queueVars, loaderVars
<1>2. TypeOK'
  <2>1. time_left' \in [Cpus -> Int] /\ \A d \in Cpus : time_left'[d] <= time_slot'
    <3>1. /\ time_left \in [Cpus -> Int] /\ time_slot \in Nat
          /\ \A d \in Cpus : time_left[d] <= time_slot
      BY <1>0, OsAssumption DEF TypeOK
    <3>2. QED
      BY <1>1, <3>1
  <2>2. Clock!ClockTypeOK'
    BY <1>0 DEF EndWalk, Clock!Arrive, Clock!Working, Clock!ClockTypeOK, TypeOK
  <2>3. QED
    BY <1>0, <1>1, <2>1, <2>2 DEF TypeOK
<1>3. PlaceInv'
  BY <1>0, <1>1 DEF PlaceInv, TypeOK
<1>4. WalkType'
  <2>1. NoWalk \in WalkRecord
    BY OsAssumption DEF NoWalk, WalkRecord, Befores
  <2>2. QED
    BY <1>0, <1>1, <2>1 DEF WalkType
<1>5. WalkInv'
  <2>1. \A d \in Cpus : d # c => walk'[d] = walk[d] /\ cpc'[d] = cpc[d]
    BY <1>0, <1>1 DEF WalkType
  <2>2. walk'[c] = NoWalk
    BY <1>0, <1>1 DEF WalkType
  <2>3. QED
    BY <1>0, <1>1, <2>1, <2>2 DEF WalkInv
<1>6. QED
  BY <1>1, <1>2, <1>3, <1>4, <1>5 DEF KTypeInv

\* No walk is under way when the program starts.
LEMMA KInitType == KInit => KTypeInv
<1> SUFFICES ASSUME KInit PROVE KTypeInv
  OBVIOUS
<1>1. TypeOK
  BY InitIInv DEF KInit, IInv
<1>2. PlaceInv
  <2>1. \A x \in Prios : mlq[x] = <<>>
    BY DEF KInit, Init
  <2>2. /\ \A c \in Cpus : proc[c] = NULL /\ cpc[c] = "top"
        /\ i = 1 /\ ldpc = "load" /\ work \in Workloads
    BY DEF KInit, Init
  <2>3. Len(work) \in Nat
    BY <2>2, WorkType
  <2>4. QED
    BY <2>1, <2>2, <2>3 DEF PlaceInv
<1>3. WalkType
  BY OsAssumption DEF KInit, WalkType, NoWalk, WalkRecord, Befores
<1>4. WalkInv
  BY DEF KInit, WalkInv
<1>5. QED
  BY <1>1, <1>2, <1>3, <1>4 DEF KInit, KTypeInv

\* Every step of the program with killall keeps the types.
LEMMA KTypeStep ==
  ASSUME KTypeInv, [KNext]_kvars PROVE KTypeInv'
<1>0. /\ TypeOK /\ PlaceInv /\ WalkType /\ WalkInv
      /\ named \in NameSets /\ marked \subseteq Procs /\ sane \in BOOLEAN
  BY DEF KTypeInv
<1>1. CASE LoaderStep /\ UNCHANGED killVars
  <2>1. TypeOK' /\ PlaceInv'
    BY <1>0, <1>1, LoaderType
  <2>2. UNCHANGED <<cpc, proc, pc, walk, named, marked, sane>>
    BY <1>1 DEF LoaderStep, Load, AwaitStart, AddList, AddReady, FinishLoading, cpuVars,
                killVars
  <2>3. WalkType' /\ WalkInv'
    BY <1>0, <2>2 DEF WalkType, WalkInv
  <2>4. QED
    BY <1>0, <2>1, <2>2, <2>3 DEF KTypeInv
<1>2. CASE TimerStep /\ UNCHANGED killVars
  <2>1. TypeOK' /\ PlaceInv'
    BY <1>0, <1>2, TimerType
  <2>2. UNCHANGED <<cpc, proc, pc, walk, named, marked, sane>>
    BY <1>2 DEF TimerStep, cpuVars, killVars
  <2>3. WalkType' /\ WalkInv'
    BY <1>0, <2>2 DEF WalkType, WalkInv
  <2>4. QED
    BY <1>0, <2>1, <2>2, <2>3 DEF KTypeInv
<1>3. CASE UNCHANGED kvars
  BY <1>0, <1>3
  DEF KTypeInv, TypeOK, PlaceInv, WalkType, WalkInv, Clock!ClockTypeOK, kvars, vars,
      killVars, configVars, clockVars, queueVars, loaderVars, cpuVars
<1>4. CASE \E c \in Cpus : KCpuStep(c)
  <2>1. PICK c \in Cpus : KCpuStep(c)
    BY <1>4
  <2>2. CASE CpuStep(c) /\ ~CallsKillall(c) /\ ~Walking(c) /\ UNCHANGED killVars
    <3>1. TypeOK' /\ PlaceInv'
      BY <1>0, <2>2, CpuType
    <3>2. UNCHANGED <<walk, named, marked, sane>> /\ walk[c] = NoWalk
      BY <2>2 DEF Walking, killVars
    <3>3. WalkInv'
      BY <2>2, <3>2, CpuKeepsWalks
    <3>4. WalkType'
      BY <1>0, <3>2 DEF WalkType
    <3>5. QED
      BY <1>0, <3>1, <3>2, <3>3, <3>4 DEF KTypeInv
  <2>3. CASE StartWalk(c)
    BY <2>3, StartWalkType
  <2>4. CASE EndOfList(c) \/ Pass(c) \/ Hit(c)
    BY <2>4, LookType
  <2>5. CASE Shift(c) \/ Shrink(c)
    BY <2>5, RemoveType
  <2>6. CASE EndWalk(c)
    BY <2>6, EndWalkType
  <2>7. QED
    BY <2>1, <2>2, <2>3, <2>4, <2>5, <2>6 DEF KCpuStep
<1>5. CASE Terminated /\ UNCHANGED killVars
  BY <1>3, <1>5 DEF Terminated, kvars
<1>6. QED
  BY <1>1, <1>2, <1>3, <1>4, <1>5 DEF KNext

\* KTypeInv is inductive.
LEMMA KTypeInvariance == KSpec => []KTypeInv
<1>1. KInit => KTypeInv
  BY KInitType
<1>2. KTypeInv /\ [KNext]_kvars => KTypeInv'
  BY KTypeStep
<1>3. QED
  BY <1>1, <1>2, PTL DEF KSpec

\* Every variable keeps its type with killall as well, for every number of CPUs: the
\* walk of killall_all_proc never looks behind the end of a list's array and never
\* shifts there, whatever the other threads do to the lists during it, and the process
\* that walks is the one that called killall.
THEOREM KTypeCorrect == KSpec => []KTypeOK
<1>1. ASSUME KTypeInv PROVE KTypeOK
  <2>1. \A c \in Cpus : walk[c] # NoWalk =>
          /\ walk[c].list \in 0..(MaxPrio + 1) /\ walk[c].i \in 1..(MaxQueueSize + 1)
          /\ walk[c].shift \in 0..MaxQueueSize /\ walk[c].count \in Nat
    <3>1. ASSUME NEW c \in Cpus, walk[c] # NoWalk
          PROVE  /\ walk[c].list \in 0..(MaxPrio + 1)
                 /\ walk[c].i \in 1..(MaxQueueSize + 1)
                 /\ walk[c].shift \in 0..MaxQueueSize /\ walk[c].count \in Nat
      <4>1. PICK w \in WalkRecord : w = walk[c]
        BY <1>1, <3>1 DEF KTypeInv, WalkType
      <4>2. w.i >= 1
        BY <1>1, <3>1, <4>1 DEF KTypeInv, WalkInv
      <4>3. QED
        BY <4>1, <4>2, RecordFacts, OsAssumption
    <3>2. QED
      BY <3>1
  <2>2. QED
    BY <1>1, <2>1 DEF KTypeOK, KTypeInv, WalkInv
<1>2. KTypeInv => KTypeOK
  BY <1>1
<1>3. QED
  BY <1>2, KTypeInvariance, PTL

--------------------------------------------------------------------------------
(* One CPU.  While it walks, no other process is run, and of the steps of  *)
(* Os only those of the loader are left.  A walk that takes a process out  *)
(* of a queue moves a hole to the end of the queue: the place that is      *)
(* copied over next.  The invariant of OsProofs holds for all other        *)
(* places.                                                                 *)

\* The place of level x that the walk of CPU c copies over next, or 0.
Hole(c, x) == IF walk[c].list = x + 1 THEN walk[c].shift ELSE 0

\* Process p is at a place that is not the hole.
KeptAt(c, p) ==
  \E x \in Prios : \E n \in 1..Len(mlq[x]) : n # Hole(c, x) /\ mlq[x][n] = p

\* The other places hold processes as in Os.
OthersInv == \A c \in Cpus : QueueInvBut([x \in Prios |-> Hole(c, x)])

\* No process but the marked ones has lost its place.
PlacedInv ==
  \A c \in Cpus : \A p \in Procs \ marked :
    pcb[p] = "live" => KeptAt(c, p) \/ proc[c] = p \/ p = i

\* The hole is a place of the list.
ShiftInv ==
  \A c \in Cpus :
    /\ walk[c].list = 0 => walk[c].shift <= Len(running_list)
    /\ \A x \in Prios : walk[c].list = x + 1 => walk[c].shift <= Len(mlq[x])

\* A hole was left by a process of the level, which is in no queue any more.
RemovedInv ==
  \A c \in Cpus : \A x \in Prios : Hole(c, x) # 0 =>
    \E p \in 1..Len(work) : p < i /\ work[p].prio = x /\ ~KeptAt(c, p)

OneInv ==
  /\ KTypeInv /\ RestInv /\ OthersInv /\ PlacedInv /\ ShiftInv /\ RemovedInv
  /\ sane = TRUE

\* Without a hole the queues are those of Os.
Whole ==
  \A c : Cpus = {c} /\ walk[c].shift = 0 =>
    /\ OthersInv <=> QueueInv
    /\ PlacedInv <=> \A p \in Procs \ marked : pcb[p] = "live" => Held(p)
    /\ RemovedInv /\ (TypeOK => ShiftInv)

\* Without a shift under way no list has a position to be overwritten.
LEMMA WholeHolds == Whole
<1> SUFFICES ASSUME NEW c, Cpus = {c}, walk[c].shift = 0
             PROVE  /\ OthersInv <=> QueueInv
                    /\ PlacedInv <=> \A p \in Procs \ marked : pcb[p] = "live" => Held(p)
                    /\ RemovedInv /\ (TypeOK => ShiftInv)
  BY DEF Whole
<1>1. \A x \in Prios : Hole(c, x) = 0
  BY DEF Hole
<1>2. OthersInv <=> QueueInv
  <2>1. PICK gap : gap = [x \in Prios |-> Hole(c, x)]
    OBVIOUS
  <2>2. \A x \in Prios : gap[x] = 0
    BY <1>1, <2>1
  <2>3. QueueInv <=> QueueInvBut(gap)
    BY <2>2, NoGap
  <2>4. OthersInv <=> QueueInvBut(gap)
    BY <2>1 DEF OthersInv
  <2>5. QED
    BY <2>3, <2>4
<1>3. \A p : KeptAt(c, p) <=> \E x \in Prios : \E n \in 1..Len(mlq[x]) : mlq[x][n] = p
  BY <1>1 DEF KeptAt
<1>4. PlacedInv <=> \A p \in Procs \ marked : pcb[p] = "live" => Held(p)
  BY <1>3 DEF PlacedInv, Held
<1>5. RemovedInv
  BY <1>1 DEF RemovedInv
<1>6. TypeOK => ShiftInv
  BY LenProperties DEF TypeOK, ShiftInv
<1>7. QED
  BY <1>2, <1>4, <1>5, <1>6

\* The same of the next state.
LEMMA WholeNext == Whole'
  BY WholeHolds, PTL

\* The steps of the CPU and the clock outside of a walk are those of Os.
LEMMA OutsideOne ==
  ASSUME NEW c, Cpus = {c}, LevelsFit, OneInv, walk[c] = NoWalk, KTypeInv',
         UNCHANGED killVars, CpuStep(c) \/ TimerStep
  PROVE  OneInv'
<1>0. walk[c].shift = 0 /\ walk'[c].shift = 0 /\ UNCHANGED <<walk, marked, sane>>
  BY DEF NoWalk, killVars
<1>1. /\ IInv /\ TypeOK /\ LoaderInv
      /\ \A p \in Procs \ marked : pcb[p] = "live" => Held(p)
  BY <1>0, WholeHolds DEF Whole, OneInv, RestInv, IInv
<1>2. IInv'
  BY <1>1, NextIInv DEF Next
<1>3. ASSUME NEW p \in Procs, p \notin marked', pcb'[p] = "live" PROVE Held(p)'
  <2>1. pcb[p] = "live" => Held(p)
    BY <1>0, <1>1, <1>3
  <2>2. CASE CpuStep(c)
    <3>1. pcb[p] = "live"
      <4>1. UNCHANGED pcb \/ pcb' = [pcb EXCEPT ![proc[c]] = "freed"]
        BY <2>2 DEF CpuStep, TakeFirst, Finish, Yield, PutReady, TakeNext, Check, Run
      <4>2. QED
        BY <1>1, <1>3, <4>1 DEF TypeOK
    <3>2. QED
      BY <1>1, <1>3, <2>1, <2>2, <3>1, CpuHeld
  <2>3. CASE TimerStep
    BY <1>3, <2>1, <2>3 DEF TimerStep, Held, queueVars, loaderVars, cpuVars
  <2>4. QED
    BY <2>2, <2>3
<1>4. OthersInv' /\ PlacedInv' /\ RemovedInv' /\ ShiftInv'
  <2>1. QueueInv' /\ TypeOK'
    BY <1>2 DEF IInv
  <2>2. QED
    BY <1>0, <1>3, <2>1, WholeNext DEF Whole
<1>5. QED
  BY <1>0, <1>2, <1>4 DEF OneInv, RestInv, IInv

\* The steps of a walk that start it, go on to another place or end it.
LEMMA GoOnOne ==
  ASSUME NEW c, Cpus = {c}, OneInv, KTypeInv',
         StartWalk(c) \/ EndOfList(c) \/ Pass(c) \/ EndWalk(c)
  PROVE  OneInv'
<1>0. /\ TypeOK /\ TypeOK' /\ WalkType /\ WalkInv /\ RestInv /\ sane = TRUE
      /\ ClockInv /\ LoaderInv /\ CpuInv /\ RunInv /\ StartInv
      /\ c # Loader /\ cpc \in [Cpus -> {"top", "put", "get", "check", "run", "gone"}]
  BY OsAssumption DEF OneInv, KTypeInv, RestInv, TypeOK
<1>1. walk[c] \in WalkRecord /\ walk \in [Cpus -> WalkRecord]
  BY <1>0 DEF WalkType
<1>2. walk[c].shift = 0
  <2>1. CASE StartWalk(c)
    BY <2>1 DEF StartWalk, NoWalk
  <2>2. CASE EndOfList(c) \/ Pass(c)
    BY <2>2 DEF EndOfList, Pass
  <2>3. CASE EndWalk(c)
    BY <1>0, <1>1, <2>3, RecordFacts, OsAssumption DEF EndWalk, Walking, Walked, WalkInv
  <2>4. QED
    BY <2>1, <2>2, <2>3
<1>3. walk'[c].shift = 0
  <2>1. PICK w \in WalkRecord : w = walk[c]
    BY <1>1
  <2>2. CASE StartWalk(c)
    <3>1. walk' = [walk EXCEPT ![c] = [NoWalk EXCEPT !.i = 1,
                                       !.before = [l \in Lists |-> List(l)]]]
      BY <2>2 DEF StartWalk
    <3>2. walk'[c] = [NoWalk EXCEPT !.i = 1, !.before = [l \in Lists |-> List(l)]]
      BY <1>1, <3>1
    <3>3. QED
      BY <3>2 DEF NoWalk
  <2>3. CASE EndOfList(c)
    <3>1. walk'[c] = [w EXCEPT !.list = w.list + 1, !.i = 1]
      BY <1>1, <2>1, <2>3 DEF EndOfList, NextList
    <3>2. QED
      BY <1>2, <2>1, <3>1 DEF WalkRecord
  <2>4. CASE Pass(c)
    <3>1. walk'[c] = [w EXCEPT !.i = w.i + 1]
      BY <1>1, <2>1, <2>4 DEF Pass
    <3>2. QED
      BY <1>2, <2>1, <3>1 DEF WalkRecord
  <2>5. CASE EndWalk(c)
    <3>1. walk'[c] = NoWalk
      BY <1>1, <2>5 DEF EndWalk
    <3>2. QED
      BY <3>1 DEF NoWalk
  <2>6. QED
    BY <2>2, <2>3, <2>4, <2>5
<1> USE DEF vars, configVars, clockVars, queueVars, loaderVars, cpuVars
<1>4. /\ UNCHANGED <<work, mlq, running_list, done, i, ldpc, proc, pcb, marked, sane>>
      /\ UNCHANGED <<now, gone, ticking>>
  BY DEF StartWalk, EndOfList, Pass, EndWalk, Clock!Arrive
<1>5. /\ arrived' = arrived \/ (arrived' = arrived \union {c} /\ c \notin gone)
      /\ EndWalk(c) => cpc'[c] = "top" /\ cpc[c] = "run"
      /\ StartWalk(c) => /\ cpc'[c] = "run" /\ cpc[c] \in {"top", "run"}
                         /\ c \notin arrived /\ proc[c] = Killer
      /\ ~EndWalk(c) => UNCHANGED arrived
      /\ ~EndWalk(c) /\ ~StartWalk(c) => UNCHANGED <<cpc, pc>>
  <2>1. CASE EndWalk(c)
    BY <1>0, <2>1 DEF EndWalk, StartWalk, Clock!Arrive, Clock!Working, WalkInv, Walking
  <2>2. CASE StartWalk(c)
    BY <1>0, <2>2 DEF EndWalk, StartWalk, Clock!Working, CallsKillall, Walking
  <2>3. CASE EndOfList(c) \/ Pass(c)
    BY <2>3 DEF EndOfList, Pass, EndWalk, StartWalk, Walking
  <2>4. QED
    BY <2>1, <2>2, <2>3
<1>6. ClockInv'
  BY <1>0, <1>4, <1>5 DEF ClockInv
<1>7. LoaderInv'
  BY <1>0, <1>4, <1>5 DEF LoaderInv
<1>8. CpuInv'
  <2>1. Killer # NULL
    BY OsKillAssumption DEF Procs, NULL
  <2>2. CASE EndWalk(c)
    BY <1>0, <1>4, <1>5, <2>2 DEF CpuInv
  <2>3. CASE StartWalk(c)
    BY <1>0, <1>4, <1>5, <2>1, <2>3 DEF CpuInv
  <2>4. CASE ~EndWalk(c) /\ ~StartWalk(c)
    BY <1>0, <1>4, <1>5, <2>4 DEF CpuInv
  <2>5. QED
    BY <2>2, <2>3, <2>4
<1>9. RunInv' /\ StartInv'
  BY <1>0, <1>4 DEF RunInv, StartInv
<1>10. OthersInv' /\ PlacedInv' /\ RemovedInv' /\ ShiftInv'
  <2>1. QueueInv /\ \A p \in Procs \ marked : pcb[p] = "live" => Held(p)
    BY <1>2, WholeHolds DEF Whole, OneInv
  <2>2. QueueInv'
    BY <1>4, <2>1 DEF QueueInv
  <2>3. \A p \in Procs \ marked' : pcb'[p] = "live" => Held(p)'
    BY <1>4, <2>1 DEF Held
  <2>4. QED
    BY <1>0, <1>3, <2>2, <2>3, WholeNext DEF Whole
<1>11. QED
  BY <1>0, <1>4, <1>6, <1>7, <1>8, <1>9, <1>10 DEF OneInv, RestInv

\* The steps that only touch the lists keep what OsProofs says of the rest.
LEMMA RestKept ==
  ASSUME RestInv, TypeOK',
         UNCHANGED <<work, now, arrived, gone, done, i, ldpc, cpc, proc, pcb, pc>>
  PROVE  RestInv'
  BY DEF RestInv, ClockInv, LoaderInv, CpuInv, RunInv, StartInv

\* The process with the name is marked, and its place is the hole.
LEMMA HitOne ==
  ASSUME NEW c, Cpus = {c}, OneInv, KTypeInv', Hit(c) PROVE OneInv'
<1>0. /\ TypeOK /\ TypeOK' /\ walk \in [Cpus -> WalkRecord] /\ RestInv /\ sane = TRUE
      /\ walk[c] \in WalkRecord /\ walk[c].shift = 0 /\ PlacedInv /\ LoaderInv
  BY DEF OneInv, KTypeInv, WalkType, Hit, RestInv
<1>1. PICK l \in Lists : l = walk[c].list
  BY <1>0, RecordFacts, OsAssumption DEF Hit, Walked, Lists
<1>2. PICK k \in Nat : k = walk[c].i
  BY <1>0, RecordFacts, OsAssumption
<1>3. PICK p : p = List(l)[k]
  OBVIOUS
<1>4. k >= 1
  BY <1>2 DEF OneInv, KTypeInv, WalkInv, Hit, Walking
<1>5. k <= Len(List(l)) /\ marked' = marked \union {p}
  BY <1>1, <1>2, <1>3 DEF Hit
<1>6. walk'[c].list = l /\ walk'[c].shift = k
  <2>1. walk'[c] = [walk[c] EXCEPT !.shift = k, !.count = walk[c].count + 1]
    BY <1>0, <1>2 DEF Hit
  <2>2. QED
    BY <1>0, <1>1, <2>1 DEF WalkRecord
<1> USE DEF vars, configVars, clockVars, queueVars, loaderVars, cpuVars
<1>7. UNCHANGED <<work, mlq, running_list, now, arrived, gone, done, i, ldpc, cpc, proc,
                  pcb, pc, sane>>
  BY DEF Hit
<1>8. RestInv'
  BY <1>0, <1>7, RestKept
<1>9. \A x \in Prios : l = x + 1 =>
        k \in 1..Len(mlq[x]) /\ mlq[x][k] = p /\ Len(mlq[x]) \in Nat
  <2>1. ASSUME NEW x \in Prios, l = x + 1 PROVE List(l) = mlq[x]
    BY <2>1, OsAssumption DEF List, Prios
  <2>2. \A x \in Prios : Len(mlq[x]) \in Nat
    BY <1>0, LenProperties DEF TypeOK
  <2>3. QED
    BY <1>3, <1>4, <1>5, <2>1, <2>2
<1>10. /\ \A x \in Prios : Hole(c, x) = 0
       /\ \A x \in Prios : Hole(c, x)' = IF l = x + 1 THEN k ELSE 0
  BY <1>0, <1>6 DEF Hole
<1>11. QueueInv
  BY <1>0, WholeHolds DEF Whole, OneInv
<1>12. OthersInv'
  <2>1. PICK gap : gap = [x \in Prios |-> Hole(c, x)']
    OBVIOUS
  <2>2. QueueInvBut(gap)'
    <3>1. QueueInv'
      BY <1>7, <1>11 DEF QueueInv
    <3>2. QED
      BY <3>1 DEF QueueInv, QueueInvBut
  <2>3. QED
    BY <2>1, <2>2 DEF OthersInv
<1>13. PlacedInv'
  <2>1. ASSUME NEW r \in Procs, r \notin marked', pcb'[r] = "live"
        PROVE  KeptAt(c, r)' \/ proc'[c] = r \/ r = i'
    <3>1. r # p /\ r \notin marked
      BY <1>5, <2>1
    <3>2. KeptAt(c, r) \/ proc[c] = r \/ r = i
      BY <1>0, <1>7, <2>1, <3>1 DEF PlacedInv
    <3>3. CASE KeptAt(c, r)
      <4>1. PICK x \in Prios : \E n \in 1..Len(mlq[x]) : n # 0 /\ mlq[x][n] = r
        BY <1>10, <3>3 DEF KeptAt
      <4>2. PICK n \in 1..Len(mlq[x]) : n # 0 /\ mlq[x][n] = r
        BY <4>1
      <4>3. n # Hole(c, x)'
        BY <1>9, <1>10, <3>1, <4>2
      <4>4. QED
        BY <1>7, <4>2, <4>3 DEF KeptAt
    <3>4. QED
      BY <1>7, <3>2, <3>3
  <2>2. QED
    BY <2>1 DEF PlacedInv
<1>14. ShiftInv'
  BY <1>5, <1>6, <1>7, <1>9 DEF ShiftInv, List
<1>15. RemovedInv'
  <2>1. ASSUME NEW x \in Prios, Hole(c, x)' # 0
        PROVE  /\ p \in 1..Len(work) /\ p < i /\ work[p].prio = x
               /\ ~KeptAt(c, p)'
    <3>1. l = x + 1
      BY <1>10, <2>1
    <3>2. /\ p \in 1..Len(work) /\ p < i /\ work[p].prio = x
          /\ \A m \in 1..Len(mlq[x]) : mlq[x][m] = p => m = k
      BY <1>9, <1>11, <3>1 DEF QueueInv
    <3>3. ASSUME NEW y \in Prios, NEW n \in 1..Len(mlq[y]), mlq[y][n] = p
          PROVE  y = x /\ n = Hole(c, x)'
      <4>1. y = x
        BY <1>11, <3>2, <3>3 DEF QueueInv
      <4>2. QED
        BY <1>10, <3>1, <3>2, <3>3, <4>1
    <3>4. ~KeptAt(c, p)'
      BY <1>7, <3>3 DEF KeptAt
    <3>5. QED
      BY <3>2, <3>4
  <2>2. QED
    BY <1>7, <2>1 DEF RemovedInv
<1>16. QED
  BY <1>0, <1>7, <1>8, <1>12, <1>13, <1>14, <1>15 DEF OneInv

\* Where the process at place n of level x comes from when the hole moves on.
Source(c, x, n) == IF n = Hole(c, x) THEN n + 1 ELSE n

\* The loop that shifts the rest of a list keeps what is not in the hole, each process
\* at one place, and it ends with the hole at the end of the list.
Removal(c) ==
  /\ \A x \in Prios : \A n \in 1..Len(mlq'[x]) : n # Hole(c, x)' =>
       /\ Source(c, x, n) \in 1..Len(mlq[x]) /\ Source(c, x, n) # Hole(c, x)
       /\ mlq'[x][n] = mlq[x][Source(c, x, n)]
  /\ \A x \in Prios : \A n, m \in 1..Len(mlq'[x]) :
       n # Hole(c, x)' /\ m # Hole(c, x)' /\ Source(c, x, n) = Source(c, x, m) => n = m
  /\ \A x \in Prios : \A m \in 1..Len(mlq[x]) : m # Hole(c, x) =>
       \E n \in 1..Len(mlq'[x]) : n # Hole(c, x)' /\ mlq'[x][n] = mlq[x][m]
  /\ \A x \in Prios : Hole(c, x)' # 0 => Hole(c, x) # 0
  /\ ShiftInv' /\ sane' = TRUE

\* A turn of the shift moves the position to be overwritten up by one.
LEMMA ShiftRemoval ==
  ASSUME NEW c, Cpus = {c}, OneInv, Shift(c) PROVE Removal(c)
<1>0. /\ KTypeInv /\ walk \in [Cpus -> WalkRecord] /\ walk[c] \in WalkRecord
      /\ sane' = TRUE /\ c \in Cpus
  BY DEF OneInv, KTypeInv, WalkType, Shift
<1>1. PICK l : l = walk[c].list
  OBVIOUS
<1>2. PICK j : j = walk[c].shift
  OBVIOUS
<1>3. /\ l \in Lists /\ j \in Nat \ {0}
      /\ Len(running_list') = Len(running_list) /\ mlq' \in [Prios -> Seq(Procs)]
      /\ \A x \in Prios : Len(mlq'[x]) = Len(mlq[x])
      /\ \A x \in Prios : l = x + 1 =>
           /\ j + 1 \in 1..Len(mlq[x])
           /\ \A n \in 1..Len(mlq[x]) :
                mlq'[x][n] = IF n = j THEN mlq[x][n + 1] ELSE mlq[x][n]
      /\ \A x \in Prios : l # x + 1 => mlq'[x] = mlq[x]
  BY <1>0, <1>1, <1>2, ShiftEffect
<1>4. walk'[c].list = l /\ walk'[c].shift = j + 1
  <2>1. walk'[c] = [walk[c] EXCEPT !.shift = j + 1]
    BY <1>0, <1>2 DEF Shift
  <2>2. QED
    BY <1>0, <1>1, <2>1 DEF WalkRecord
<1>5. /\ \A x \in Prios : Hole(c, x) = IF l = x + 1 THEN j ELSE 0
      /\ \A x \in Prios : Hole(c, x)' = IF l = x + 1 THEN j + 1 ELSE 0
  BY <1>1, <1>2, <1>4 DEF Hole
<1>6. \A x \in Prios : Len(mlq[x]) \in Nat
  BY <1>3, LenProperties
<1>7. ASSUME NEW x \in Prios
      PROVE  /\ \A n \in 1..Len(mlq'[x]) : n # Hole(c, x)' =>
                  /\ Source(c, x, n) \in 1..Len(mlq[x]) /\ Source(c, x, n) # Hole(c, x)
                  /\ mlq'[x][n] = mlq[x][Source(c, x, n)]
             /\ \A n, m \in 1..Len(mlq'[x]) :
                  n # Hole(c, x)' /\ m # Hole(c, x)' /\ Source(c, x, n) = Source(c, x, m)
                    => n = m
             /\ \A m \in 1..Len(mlq[x]) : m # Hole(c, x) =>
                  \E n \in 1..Len(mlq'[x]) : n # Hole(c, x)' /\ mlq'[x][n] = mlq[x][m]
             /\ Hole(c, x)' # 0 => Hole(c, x) # 0
  <2>1. CASE l # x + 1
    BY <1>3, <1>5, <1>6, <2>1 DEF Source
  <2>2. CASE l = x + 1
    <3>1. PICK q : q = mlq[x]
      OBVIOUS
    <3>2. PICK r : r = mlq'[x]
      OBVIOUS
    <3>3. /\ Len(q) \in Nat /\ Len(r) = Len(q) /\ j + 1 \in 1..Len(q) /\ j \in Nat \ {0}
          /\ \A n \in 1..Len(q) : r[n] = IF n = j THEN q[n + 1] ELSE q[n]
      BY <1>3, <1>6, <2>2, <3>1, <3>2
    <3>4. Hole(c, x) = j /\ Hole(c, x)' = j + 1
      BY <1>5, <2>2
    <3>5. ASSUME NEW m \in 1..Len(q), m # j
          PROVE  \E n \in 1..Len(r) : n # j + 1 /\ r[n] = q[m]
      <4>1. CASE m = j + 1
        <5>1. j \in 1..Len(r) /\ j # j + 1 /\ r[j] = q[m]
          BY <3>3, <4>1
        <5>2. QED
          BY <5>1
      <4>2. CASE m # j + 1
        BY <3>3, <3>5, <4>2
      <4>3. QED
        BY <4>1, <4>2
    <3>6. \A n \in 1..Len(r) : n # j + 1 =>
            LET s == IF n = j THEN n + 1 ELSE n
            IN  s \in 1..Len(q) /\ s # j /\ r[n] = q[s]
      BY <3>3
    <3>7. QED
      BY <3>1, <3>2, <3>3, <3>4, <3>5, <3>6 DEF Source
  <2>3. QED
    BY <2>1, <2>2
<1>8. ShiftInv'
  <2>1. l = 0 => j + 1 <= Len(running_list')
    BY <1>1, <1>2, <1>3 DEF Shift, List
  <2>2. \A x \in Prios : l = x + 1 => j + 1 <= Len(mlq'[x])
    BY <1>3, <1>6
  <2>3. QED
    BY <1>4, <2>1, <2>2 DEF ShiftInv
<1>9. QED
  BY <1>0, <1>7, <1>8 DEF Removal

\* size-- drops the last position, which is the one to be overwritten.
LEMMA ShrinkRemoval ==
  ASSUME NEW c, Cpus = {c}, OneInv, Shrink(c) PROVE Removal(c)
<1>0. /\ KTypeInv /\ walk \in [Cpus -> WalkRecord] /\ walk[c] \in WalkRecord
      /\ ShiftInv /\ sane = TRUE /\ c \in Cpus /\ TypeOK
  BY DEF OneInv, KTypeInv, WalkType
<1>1. PICK l : l = walk[c].list
  OBVIOUS
<1>2. PICK j : j = walk[c].shift
  OBVIOUS
<1>3. /\ l \in Lists /\ j \in Nat \ {0}
      /\ mlq' \in [Prios -> Seq(Procs)]
      /\ \A x \in Prios : l = x + 1 =>
           /\ j >= Len(mlq[x])
           /\ mlq[x] # <<>> => Len(mlq'[x]) = Len(mlq[x]) - 1
           /\ \A n \in 1..Len(mlq'[x]) : mlq'[x][n] = mlq[x][n]
      /\ \A x \in Prios : l # x + 1 => mlq'[x] = mlq[x]
  BY <1>0, <1>1, <1>2, ShrinkEffect
<1>4. walk'[c].list = l /\ walk'[c].shift = 0
  <2>1. walk'[c] = [walk[c] EXCEPT !.shift = 0]
    BY <1>0 DEF Shrink, Removed
  <2>2. QED
    BY <1>0, <1>1, <2>1 DEF WalkRecord
<1>5. /\ \A x \in Prios : Hole(c, x) = IF l = x + 1 THEN j ELSE 0
      /\ \A x \in Prios : Hole(c, x)' = 0
  BY <1>1, <1>2, <1>4 DEF Hole
<1>6. \A x \in Prios : Len(mlq[x]) \in Nat /\ Len(mlq'[x]) \in Nat
  BY <1>0, <1>3, LenProperties DEF TypeOK
<1>7. ASSUME NEW x \in Prios
      PROVE  /\ \A n \in 1..Len(mlq'[x]) : n # Hole(c, x)' =>
                  /\ Source(c, x, n) \in 1..Len(mlq[x]) /\ Source(c, x, n) # Hole(c, x)
                  /\ mlq'[x][n] = mlq[x][Source(c, x, n)]
             /\ \A n, m \in 1..Len(mlq'[x]) :
                  n # Hole(c, x)' /\ m # Hole(c, x)' /\ Source(c, x, n) = Source(c, x, m)
                    => n = m
             /\ \A m \in 1..Len(mlq[x]) : m # Hole(c, x) =>
                  \E n \in 1..Len(mlq'[x]) : n # Hole(c, x)' /\ mlq'[x][n] = mlq[x][m]
             /\ Hole(c, x)' # 0 => Hole(c, x) # 0
  <2>1. CASE l # x + 1
    BY <1>3, <1>5, <1>6, <2>1 DEF Source
  <2>2. CASE l = x + 1
    <3>1. j = Len(mlq[x]) /\ mlq[x] # <<>>
      <4>1. j <= Len(mlq[x])
        BY <1>0, <1>1, <1>2, <2>2 DEF ShiftInv
      <4>2. j = Len(mlq[x]) /\ Len(mlq[x]) >= 1
        BY <1>3, <1>6, <2>2, <4>1
      <4>3. QED
        BY <4>2, EmptySeq
    <3>2. /\ Len(mlq'[x]) = j - 1 /\ \A n \in 1..Len(mlq'[x]) : mlq'[x][n] = mlq[x][n]
      BY <1>3, <2>2, <3>1
    <3>3. Hole(c, x) = j /\ Hole(c, x)' = 0
      BY <1>5, <2>2
    <3>4. \A n \in 1..Len(mlq'[x]) : Source(c, x, n) = n
      BY <1>3, <3>2, <3>3 DEF Source
    <3>5. \A m \in 1..Len(mlq[x]) : m # j => m \in 1..Len(mlq'[x]) /\ m # 0
      BY <1>3, <3>1, <3>2
    <3>6. \A n \in 1..Len(mlq'[x]) : n \in 1..Len(mlq[x]) /\ n # j
      BY <1>3, <3>1, <3>2
    <3>7. QED
      BY <3>1, <3>2, <3>3, <3>4, <3>5, <3>6
  <2>3. QED
    BY <2>1, <2>2
<1>8. List(l) # <<>>
  <2>1. CASE l = 0
    <3>1. j <= Len(running_list)
      BY <1>0, <1>1, <1>2, <2>1 DEF ShiftInv
    <3>2. Len(running_list) # 0
      BY <1>3, <3>1
    <3>3. running_list # <<>>
      BY <3>2, EmptySeq
    <3>4. QED
      BY <2>1, <3>3 DEF List
  <2>2. CASE l # 0
    <3>1. PICK x \in Prios : l = x + 1
      <4>1. l - 1 \in Prios /\ l = (l - 1) + 1
        BY <1>3, <2>2, OsAssumption DEF Lists, Prios
      <4>2. QED
        BY <4>1
    <3>2. j <= Len(mlq[x])
      BY <1>0, <1>1, <1>2, <3>1 DEF ShiftInv
    <3>3. mlq[x] # <<>>
      BY <1>3, <3>2, EmptySeq
    <3>4. QED
      BY <3>1, <3>3, OsAssumption DEF List, Prios
  <2>3. QED
    BY <2>1, <2>2
<1>9. sane' = TRUE
  BY <1>0, <1>1, <1>8 DEF Shrink
<1>10. ShiftInv'
  <2>1. Len(running_list') \in Nat
    BY <1>0, ShrinkEffect, LenProperties
  <2>2. QED
    BY <1>4, <1>6, <2>1 DEF ShiftInv
<1>11. QED
  BY <1>7, <1>9, <1>10 DEF Removal

\* A removal in progress takes only the marked process off its list.
LEMMA RemoveOne ==
  ASSUME NEW c, Cpus = {c}, OneInv, KTypeInv', Shift(c) \/ Shrink(c) PROVE OneInv'
<1>0. /\ RestInv /\ TypeOK' /\ c \in Cpus /\ OthersInv /\ PlacedInv /\ RemovedInv
      /\ \A x \in Prios : Len(mlq[x]) \in Nat /\ Len(mlq'[x]) \in Nat
  BY LenProperties DEF OneInv, KTypeInv, TypeOK
<1> USE DEF configVars, clockVars, loaderVars, cpuVars
<1>1. UNCHANGED <<work, now, arrived, gone, done, i, ldpc, cpc, proc, pcb, pc, marked>>
  BY DEF Shift, Shrink
<1>2. Removal(c)
  BY ShiftRemoval, ShrinkRemoval
<1>3. RestInv'
  BY <1>0, <1>1, RestKept
<1>4. PICK gap : gap = [x \in Prios |-> Hole(c, x)]
  OBVIOUS
<1>5. PICK next : next = [x \in Prios |-> Hole(c, x)']
  OBVIOUS
<1>6. /\ \A x \in Prios : gap[x] = Hole(c, x)
      /\ \A x \in Prios : next[x] = Hole(c, x)'
      /\ QueueInvBut(gap)
  BY <1>0, <1>4, <1>5 DEF OthersInv
<1>7. OthersInv'
  <2>1. ASSUME NEW x \in Prios, NEW n \in 1..Len(mlq'[x]), n # next[x]
        PROVE  /\ mlq'[x][n] \in 1..Len(work) /\ mlq'[x][n] < i
               /\ pcb[mlq'[x][n]] = "live" /\ work[mlq'[x][n]].prio = x
               /\ \A m \in 1..Len(mlq'[x]) :
                    m # next[x] /\ mlq'[x][m] = mlq'[x][n] => m = n
               /\ \A d \in Cpus : proc[d] # mlq'[x][n]
    <3>1. PICK k \in 1..Len(mlq[x]) : k = Source(c, x, n)
      BY <1>2, <1>6, <2>1 DEF Removal
    <3>2. k # gap[x] /\ mlq'[x][n] = mlq[x][k]
      BY <1>2, <1>6, <2>1, <3>1 DEF Removal
    <3>3. /\ mlq[x][k] \in 1..Len(work) /\ mlq[x][k] < i
          /\ pcb[mlq[x][k]] = "live" /\ work[mlq[x][k]].prio = x
          /\ \A m \in 1..Len(mlq[x]) : m # gap[x] /\ mlq[x][m] = mlq[x][k] => m = k
          /\ \A d \in Cpus : proc[d] # mlq[x][k]
      BY <1>6, <3>2 DEF QueueInvBut
    <3>4. ASSUME NEW m \in 1..Len(mlq'[x]), m # next[x], mlq'[x][m] = mlq'[x][n]
          PROVE  m = n
      <4>1. PICK h \in 1..Len(mlq[x]) : h = Source(c, x, m)
        BY <1>2, <1>6, <3>4 DEF Removal
      <4>2. h # gap[x] /\ mlq'[x][m] = mlq[x][h]
        BY <1>2, <1>6, <3>4, <4>1 DEF Removal
      <4>3. h = k
        BY <3>2, <3>3, <3>4, <4>2
      <4>4. Source(c, x, n) = Source(c, x, m)
        BY <3>1, <4>1, <4>3
      <4>5. n # Hole(c, x)' /\ m # Hole(c, x)'
        BY <1>6, <2>1, <3>4
      <4>6. \A a, b \in 1..Len(mlq'[x]) :
              a # Hole(c, x)' /\ b # Hole(c, x)' /\ Source(c, x, a) = Source(c, x, b)
                => a = b
        BY <1>2 DEF Removal
      <4>7. QED
        BY <4>4, <4>5, <4>6
    <3>5. QED
      BY <3>2, <3>3, <3>4
  <2>2. QueueInvBut(next)'
    BY <1>1, <2>1 DEF QueueInvBut
  <2>3. QED
    BY <1>5, <2>2 DEF OthersInv
<1>8. \A p : KeptAt(c, p) => KeptAt(c, p)'
  <2> SUFFICES ASSUME NEW p, KeptAt(c, p) PROVE KeptAt(c, p)'
    OBVIOUS
  <2>1. PICK x \in Prios : \E m \in 1..Len(mlq[x]) : m # Hole(c, x) /\ mlq[x][m] = p
    BY DEF KeptAt
  <2>2. PICK m \in 1..Len(mlq[x]) : m # Hole(c, x) /\ mlq[x][m] = p
    BY <2>1
  <2>3. PICK n \in 1..Len(mlq'[x]) : n # Hole(c, x)' /\ mlq'[x][n] = p
    BY <1>2, <2>2 DEF Removal
  <2>4. QED
    BY <2>3 DEF KeptAt
<1>9. \A p : KeptAt(c, p)' => KeptAt(c, p)
  <2> SUFFICES ASSUME NEW p, KeptAt(c, p)' PROVE KeptAt(c, p)
    OBVIOUS
  <2>1. PICK x \in Prios : \E n \in 1..Len(mlq'[x]) : n # Hole(c, x)' /\ mlq'[x][n] = p
    BY DEF KeptAt
  <2>2. PICK n \in 1..Len(mlq'[x]) : n # Hole(c, x)' /\ mlq'[x][n] = p
    BY <2>1
  <2>3. PICK k \in 1..Len(mlq[x]) : k # Hole(c, x) /\ mlq[x][k] = p
    BY <1>2, <2>2 DEF Removal
  <2>4. QED
    BY <2>3 DEF KeptAt
<1>10. PlacedInv'
  BY <1>0, <1>1, <1>8 DEF PlacedInv
<1>11. RemovedInv'
  <2>1. \A x \in Prios : Hole(c, x)' # 0 => Hole(c, x) # 0
    BY <1>2 DEF Removal
  <2>2. QED
    BY <1>0, <1>1, <1>9, <2>1 DEF RemovedInv
<1>12. QED
  BY <1>2, <1>3, <1>7, <1>10, <1>11 DEF OneInv, Removal

\* A queue with a hole has room for a process that the loader adds: the process that
\* has left the hole could be counted in its place.
LEMMA RoomWithHole ==
  ASSUME NEW c, Cpus = {c}, LevelsFit, OneInv, i <= Len(work)
  PROVE  Len(mlq[work[i].prio]) < MaxQueueSize
<1>0. /\ TypeOK /\ LoaderInv /\ OthersInv /\ RemovedInv /\ c \in Cpus /\ work \in Workloads
  BY DEF OneInv, RestInv, TypeOK
<1>1. i \in 1..Len(work) /\ i \in Nat /\ \A p \in 1..Len(work) : work[p].prio \in Prios
  BY <1>0, IndexFacts
<1>2. PICK x \in Prios : x = work[i].prio
  BY <1>1
<1>3. PICK q : q = mlq[x]
  OBVIOUS
<1>4. PICK k \in Nat : k = Len(q)
  BY <1>0, <1>3, LenProperties DEF TypeOK
<1>5. PICK h : h = Hole(c, x)
  OBVIOUS
<1>6. PICK S : S = {r \in 1..Len(work) : work[r].prio = x} \ {i}
  OBVIOUS
<1>7. /\ \A n \in 1..k : n # h => q[n] \in S
      /\ \A n, m \in 1..k : n # h /\ m # h /\ q[m] = q[n] => m = n
  <2>1. PICK gap : gap = [y \in Prios |-> Hole(c, y)]
    OBVIOUS
  <2>2. QueueInvBut(gap) /\ gap[x] = h
    BY <1>0, <1>5, <2>1 DEF OthersInv
  <2>3. ASSUME NEW n \in 1..k, n # h
        PROVE  /\ q[n] \in 1..Len(work) /\ q[n] < i /\ work[q[n]].prio = x
               /\ \A m \in 1..k : m # h /\ q[m] = q[n] => m = n
    BY <1>3, <1>4, <2>2, <2>3 DEF QueueInvBut
  <2>4. \A p \in 1..Len(work) : p < i => p # i
    BY <1>1
  <2>5. QED
    BY <1>6, <2>3, <2>4
<1>8. \E f : f \in Injection(1..k, S)
  <2>1. CASE h = 0
    <3>1. [n \in 1..k |-> q[n]] \in Injection(1..k, S)
      BY <1>7, <2>1 DEF Injection, IsInjective
    <3>2. QED
      BY <3>1
  <2>2. CASE h # 0
    <3>1. PICK p \in 1..Len(work) : p < i /\ work[p].prio = x /\ ~KeptAt(c, p)
      BY <1>0, <1>5, <2>2 DEF RemovedInv
    <3>2. p \in S
      BY <1>1, <1>6, <3>1
    <3>3. \A n \in 1..k : n # h => q[n] # p
      BY <1>3, <1>4, <1>5, <3>1 DEF KeptAt
    <3>4. PICK f : f = [n \in 1..k |-> IF n = h THEN p ELSE q[n]]
      OBVIOUS
    <3>5. f \in [1..k -> S]
      BY <1>7, <3>2, <3>4
    <3>6. \A n, m \in 1..k : f[n] = f[m] => n = m
      BY <1>7, <3>3, <3>4
    <3>7. f \in Injection(1..k, S)
      BY <3>5, <3>6 DEF Injection, IsInjective
    <3>8. QED
      BY <3>7
  <2>3. QED
    BY <2>1, <2>2
<1>9. k < MaxQueueSize
  BY <1>0, <1>1, <1>2, <1>6, <1>8, RoomFor
<1>10. QED
  BY <1>2, <1>3, <1>4, <1>9

\* What the steps of the loader do to the lists.
LEMMA LoaderLists ==
  ASSUME TypeOK, LoaderInv, LoaderStep
  PROVE  /\ UNCHANGED <<work, proc>> /\ i \in Nat /\ i' \in Nat /\ i <= i'
         /\ Len(running_list) \in Nat /\ Len(running_list) <= Len(running_list')
         /\ \A x \in Prios : Len(mlq[x]) \in Nat /\ Len(mlq[x]) <= Len(mlq'[x])
         /\ \A x \in Prios : \A n \in 1..Len(mlq[x]) :
              n \in 1..Len(mlq'[x]) /\ mlq'[x][n] = mlq[x][n]
         /\ \A x \in Prios : \A n \in 1..Len(mlq'[x]) :
              n \in 1..Len(mlq[x]) \/ mlq'[x][n] = i
<1> USE DEF configVars, queueVars, loaderVars, cpuVars
<1>0. /\ running_list \in Seq(Procs) /\ Len(running_list) \in Nat
      /\ Len(running_list) <= MaxQueueSize
      /\ \A x \in Prios : mlq[x] \in Seq(Procs) /\ Len(mlq[x]) \in Nat
      /\ i \in Nat
  BY LenProperties, IndexFacts DEF TypeOK
<1>1. CASE Load \/ AwaitStart \/ FinishLoading
  BY <1>0, <1>1 DEF Load, AwaitStart, FinishLoading
<1>2. CASE AddList
  <2>1. UNCHANGED <<work, proc, i, mlq>> /\ running_list' = Enqueue(running_list, i)
    BY <1>2 DEF AddList
  <2>2. i \in Procs
    BY <1>2, IndexFacts DEF AddList, LoaderInv
  <2>3. PICK r : r = Enqueue(running_list, i)
    OBVIOUS
  <2>4. /\ r \in Seq(Procs)
        /\ \A n \in 1..Len(running_list) : n \in 1..Len(r)
    BY <1>0, <2>2, <2>3, EnqueueEffect
  <2>5. Len(r) \in Nat
    BY <2>4, LenProperties
  <2>6. Len(running_list) <= Len(r)
    <3>1. CASE Len(running_list) = 0
      BY <2>5, <3>1
    <3>2. CASE Len(running_list) # 0
      <4>1. Len(running_list) \in 1..Len(running_list)
        BY <1>0, <3>2
      <4>2. QED
        BY <2>4, <2>5, <4>1
    <3>3. QED
      BY <3>1, <3>2
  <2>7. QED
    BY <1>0, <2>1, <2>3, <2>6
<1>3. CASE AddReady
  <2>1. UNCHANGED <<work, proc, running_list>> /\ mlq' = Ready(i) /\ i' = i + 1
    BY <1>3 DEF AddReady
  <2>2. i \in 1..Len(work)
    BY <1>3, IndexFacts DEF AddReady, LoaderInv
  <2>3. /\ mlq' \in [Prios -> Seq(Procs)]
        /\ \A x \in Prios : \A n \in 1..Len(mlq[x]) :
             n \in 1..Len(mlq'[x]) /\ mlq'[x][n] = mlq[x][n]
        /\ \A x \in Prios : \A n \in 1..Len(mlq'[x]) :
             n \in 1..Len(mlq[x]) \/ mlq'[x][n] = i
    BY <2>1, <2>2, ReadyEffect
  <2>4. ASSUME NEW x \in Prios PROVE Len(mlq[x]) <= Len(mlq'[x])
    <3>1. Len(mlq'[x]) \in Nat
      BY <2>3, LenProperties
    <3>2. CASE Len(mlq[x]) = 0
      BY <3>1, <3>2
    <3>3. CASE Len(mlq[x]) # 0
      <4>1. Len(mlq[x]) \in 1..Len(mlq[x])
        BY <1>0, <3>3
      <4>2. QED
        BY <2>3, <3>1, <4>1
    <3>4. QED
      BY <3>2, <3>3
  <2>5. QED
    BY <1>0, <2>1, <2>3, <2>4
<1>4. QED
  BY <1>1, <1>2, <1>3 DEF LoaderStep

\* The steps of the loader, during a walk and outside.
LEMMA LoaderOne ==
  ASSUME NEW c, Cpus = {c}, LevelsFit, OneInv, KTypeInv', LoaderStep, UNCHANGED killVars
  PROVE  OneInv'
<1>0. /\ KTypeInv /\ TypeOK /\ LoaderInv /\ RestInv /\ OthersInv /\ PlacedInv /\ ShiftInv
      /\ RemovedInv /\ sane = TRUE /\ c \in Cpus
      /\ walk[c] \in WalkRecord /\ pcb \in [Procs -> {"none", "live", "freed"}]
  BY DEF OneInv, RestInv, KTypeInv, WalkType, TypeOK
<1>1. UNCHANGED <<walk, marked, sane>>
  BY DEF killVars
<1>2. /\ UNCHANGED <<work, proc>> /\ i \in Nat /\ i' \in Nat /\ i <= i'
      /\ Len(running_list) \in Nat /\ Len(running_list) <= Len(running_list')
      /\ \A x \in Prios : Len(mlq[x]) \in Nat /\ Len(mlq[x]) <= Len(mlq'[x])
      /\ \A x \in Prios : \A n \in 1..Len(mlq[x]) :
           n \in 1..Len(mlq'[x]) /\ mlq'[x][n] = mlq[x][n]
      /\ \A x \in Prios : \A n \in 1..Len(mlq'[x]) :
           n \in 1..Len(mlq[x]) \/ mlq'[x][n] = i
  BY <1>0, LoaderLists
<1>3. RestInv'
  BY <1>0, LoaderRest
<1>4. walk[c].list \in Nat /\ walk[c].shift \in Nat
  BY <1>0, RecordFacts, OsAssumption
<1>5. \A x \in Prios : Hole(c, x) \in Nat /\ Hole(c, x)' = Hole(c, x)
  BY <1>1, <1>4 DEF Hole
<1>6. OthersInv'
  <2>1. PICK gap \in [Prios -> Nat] : gap = [x \in Prios |-> Hole(c, x)]
    BY <1>5
  <2>2. QueueInvBut(gap)
    BY <1>0, <2>1 DEF OthersInv
  <2>3. QueueInvBut(gap)'
    BY <1>0, <2>2, LoaderQueue
  <2>4. gap = [x \in Prios |-> Hole(c, x)']
    BY <1>5, <2>1
  <2>5. QED
    BY <2>3, <2>4 DEF OthersInv
<1>7. ShiftInv'
  <2>1. \A x \in Prios : Len(mlq'[x]) \in Nat
    BY <1>3, LenProperties DEF RestInv, TypeOK
  <2>2. Len(running_list') \in Nat
    BY <1>3, LenProperties DEF RestInv, TypeOK
  <2>3. QED
    BY <1>0, <1>1, <1>2, <1>4, <2>1, <2>2 DEF ShiftInv
<1>8. \A p : KeptAt(c, p) => KeptAt(c, p)'
  BY <1>2, <1>5 DEF KeptAt
<1>9. RemovedInv'
  <2>1. ASSUME NEW x \in Prios, Hole(c, x)' # 0
        PROVE  \E p \in 1..Len(work) : p < i' /\ work[p].prio = x /\ ~KeptAt(c, p)'
    <3>1. PICK p \in 1..Len(work) : p < i /\ work[p].prio = x /\ ~KeptAt(c, p)
      BY <1>0, <1>5, <2>1 DEF RemovedInv
    <3>2. p < i' /\ p # i
      BY <1>0, <1>2, <3>1, IndexFacts
    <3>3. ~KeptAt(c, p)'
      BY <1>2, <1>5, <3>1, <3>2 DEF KeptAt
    <3>4. QED
      BY <3>1, <3>2, <3>3
  <2>2. QED
    BY <1>2, <2>1 DEF RemovedInv
<1>10. ASSUME AddReady, NEW r, r = i PROVE KeptAt(c, r)'
  <2>1. /\ i \in 1..Len(work) /\ i \in Procs /\ work[i].prio \in Prios
        /\ mlq \in [Prios -> Seq(Procs)] /\ i <= Len(work)
    BY <1>0, <1>10, IndexFacts DEF AddReady, LoaderInv, TypeOK
  <2>2. PICK x \in Prios : x = work[i].prio
    BY <2>1
  <2>3. Len(mlq[x]) < MaxQueueSize
    BY <2>1, <2>2, RoomWithHole
  <2>4. mlq' = [mlq EXCEPT ![x] = Enqueue(@, i)]
    BY <1>10, <2>2 DEF AddReady, Ready
  <2>5. mlq'[x] = Append(mlq[x], i)
    BY <1>2, <2>1, <2>3, <2>4, OsAssumption DEF Enqueue
  <2>6. PICK n \in Nat : n = Len(mlq[x]) + 1
    BY <1>2
  <2>7. Len(mlq'[x]) = n /\ mlq'[x][n] = r
    BY <1>10, <2>1, <2>5, <2>6, AppendProperties
  <2>8. n \in 1..Len(mlq'[x])
    BY <1>2, <2>6, <2>7
  <2>9. n # Hole(c, x)'
    <3>1. Hole(c, x) = 0 \/ Hole(c, x) <= Len(mlq[x])
      BY <1>0 DEF ShiftInv, Hole
    <3>2. QED
      BY <1>2, <1>5, <2>6, <3>1
  <2>10. QED
    BY <2>7, <2>8, <2>9 DEF KeptAt
<1>11. PlacedInv'
  <2>1. ASSUME NEW r \in Procs, r \notin marked', pcb'[r] = "live"
        PROVE  KeptAt(c, r)' \/ proc'[c] = r \/ r = i'
    <3>1. pcb[r] = "live" => KeptAt(c, r) \/ proc[c] = r \/ r = i
      BY <1>0, <1>1, <2>1 DEF PlacedInv
    <3>2. CASE Load
      <4>1. pcb' = [pcb EXCEPT ![i] = "live"] /\ i' = i
        BY <3>2 DEF Load
      <4>2. r = i \/ pcb[r] = "live"
        BY <1>0, <2>1, <4>1
      <4>3. QED
        BY <1>2, <1>8, <3>1, <4>1, <4>2
    <3>3. CASE AwaitStart \/ AddList \/ FinishLoading
      BY <1>2, <1>8, <2>1, <3>1, <3>3 DEF AwaitStart, AddList, FinishLoading, loaderVars
    <3>4. CASE AddReady
      BY <1>2, <1>8, <1>10, <2>1, <3>1, <3>4 DEF AddReady
    <3>5. QED
      BY <3>2, <3>3, <3>4 DEF LoaderStep
  <2>2. QED
    BY <2>1 DEF PlacedInv
<1>12. QED
  BY <1>0, <1>1, <1>3, <1>6, <1>7, <1>9, <1>11 DEF OneInv

\* Every step keeps the invariant.
LEMMA OneStep ==
  ASSUME NEW c, Cpus = {c}, LevelsFit, OneInv, [KNext]_kvars PROVE OneInv'
<1>0. KTypeInv /\ RestInv /\ c \in Cpus
  BY DEF OneInv
<1>1. KTypeInv'
  BY <1>0, KTypeStep
<1>2. CASE LoaderStep /\ UNCHANGED killVars
  BY <1>1, <1>2, LoaderOne
<1>3. CASE TimerStep /\ UNCHANGED killVars
  <2>1. walk[c] = NoWalk
    <3>1. SUFFICES ASSUME walk[c] # NoWalk PROVE FALSE
      OBVIOUS
    <3>2. cpc[c] = "run"
      BY <1>0, <3>1 DEF KTypeInv, WalkInv
    <3>3. Clock!Working(c)
      BY <1>0, <3>2 DEF RestInv, CpuInv, Clock!Working, Devices
    <3>4. c \in Devices
      BY DEF Devices
    <3>5. QED
      BY <1>3, <3>3, <3>4 DEF TimerStep, Clock!Tick, Clock!Halt, Clock!Working
  <2>2. QED
    BY <1>1, <1>3, <2>1, OutsideOne
<1>4. CASE UNCHANGED kvars
  BY <1>1, <1>4
  DEF OneInv, RestInv, KTypeInv, ClockInv, LoaderInv, CpuInv, RunInv, StartInv, OthersInv,
      PlacedInv, ShiftInv, RemovedInv, QueueInvBut, KeptAt, Hole, kvars, vars, killVars,
      configVars, clockVars, queueVars, loaderVars, cpuVars
<1>5. CASE \E d \in Cpus : KCpuStep(d)
  <2>1. KCpuStep(c)
    BY <1>5
  <2>2. CASE CpuStep(c) /\ ~CallsKillall(c) /\ ~Walking(c) /\ UNCHANGED killVars
    BY <1>1, <2>2, OutsideOne DEF Walking
  <2>3. CASE StartWalk(c) \/ EndOfList(c) \/ Pass(c) \/ EndWalk(c)
    BY <1>1, <2>3, GoOnOne
  <2>4. CASE Hit(c)
    BY <1>1, <2>4, HitOne
  <2>5. CASE Shift(c) \/ Shrink(c)
    BY <1>1, <2>5, RemoveOne
  <2>6. QED
    BY <2>1, <2>2, <2>3, <2>4, <2>5 DEF KCpuStep
<1>6. CASE Terminated /\ UNCHANGED killVars
  BY <1>4, <1>6 DEF Terminated, kvars
<1>7. QED
  BY <1>2, <1>3, <1>4, <1>5, <1>6 DEF KNext

\* The queues are empty and nobody is marked when the program starts.
LEMMA OneInit == ASSUME NEW c, Cpus = {c}, KInit PROVE OneInv
<1>1. IInv /\ KTypeInv
  BY InitIInv, KInitType DEF KInit
<1>2. walk[c].shift = 0 /\ sane = TRUE
  BY DEF KInit, NoWalk
<1>3. \A p \in Procs \ marked : pcb[p] = "live" => Held(p)
  BY DEF KInit, Init
<1>4. QED
  BY <1>1, <1>2, <1>3, WholeHolds DEF Whole, OneInv, RestInv, IInv

\* OneInv is inductive with one CPU.
LEMMA OneInvariance == ASSUME NEW c, Cpus = {c}, LevelsFit PROVE KSpec => []OneInv
<1>1. KInit => OneInv
  BY OneInit
<1>2. OneInv /\ [KNext]_kvars => OneInv'
  BY OneStep
<1>3. QED
  BY <1>1, <1>2, PTL DEF KSpec

\* With one CPU, killall_all_proc never takes a process off a list that is empty: no
\* queue gets a negative size.
THEOREM QueuesStaySane == ASSUME NEW c, Cpus = {c}, LevelsFit PROVE KSpec => [](sane = TRUE)
<1>1. OneInv => sane = TRUE
  BY DEF OneInv
<1>2. QED
  BY <1>1, OneInvariance, PTL

\* With one CPU, killall loses and duplicates no process but those it marks, although
\* it shifts the arrays that it goes through and the loader appends to them meanwhile:
\* between walks every other live process is in one place, with the loader, on the CPU
\* or in a ready queue.
THEOREM OthersKeptHolds ==
  ASSUME NEW c, Cpus = {c}, LevelsFit PROVE KSpec => []OthersKept
<1>1. ASSUME OneInv, \A d \in Cpus : walk[d] = NoWalk
      PROVE  /\ OneOwner
             /\ {p \in Procs : Live(p)} \ marked
                  = (Queued \union Running \union WithLoader) \ marked
  <2>0. /\ IInv /\ TypeOK /\ LoaderInv /\ QueueInv /\ RunInv
        /\ \A p \in Procs \ marked : pcb[p] = "live" => Held(p)
    <3>1. walk[c].shift = 0
      BY <1>1 DEF NoWalk
    <3>2. QED
      BY <1>1, <3>1, WholeHolds DEF Whole, OneInv, RestInv, IInv
  <2>1. \A p \in Queued : p \in Procs /\ pcb[p] = "live"
    BY <2>0, QueuedFacts, IndexFacts DEF QueueInv
  <2>2. \A p \in Running : p \in Procs /\ pcb[p] = "live"
    BY <2>0, IndexFacts DEF RunInv, Running
  <2>3. \A p \in WithLoader : p \in Procs /\ pcb[p] = "live"
    BY <2>0, IndexFacts DEF LoaderInv, WithLoader
  <2>4. \A p \in Procs \ marked :
          pcb[p] = "live" => p \in Queued \union Running \union WithLoader
    BY <2>0, QueuedFacts DEF Held, LoaderInv, Running, WithLoader, Procs, NULL
  <2>5. {p \in Procs : Live(p)} \ marked
          = (Queued \union Running \union WithLoader) \ marked
    BY <2>1, <2>2, <2>3, <2>4 DEF Live
  <2>6. QED
    BY <2>0, <2>5, OwnersApart
<1>2. OneInv => OthersKept
  BY <1>1 DEF OthersKept
<1>3. QED
  BY <1>2, OneInvariance, PTL

--------------------------------------------------------------------------------
(* A marked process executes nothing more.  This needs, besides one CPU,   *)
(* that the caller of killall has another name and is the last process of  *)
(* the configuration: one that the loader adds during the walk can be      *)
(* marked in running_list and then enter a level the walk has passed.      *)

KillerLast    == \A w \in Workloads : Len(w) <= Killer
KillerUnnamed == \A S \in NameSets : Killer \notin S

\* The walk has yet to look at place n of level x.
Ahead(c, x, n) ==
  /\ walk[c] # NoWalk
  /\ x + 1 > walk[c].list \/ (x + 1 = walk[c].list /\ n >= walk[c].i)

\* A marked process is in no ready queue but where the walk will find it, nor on the
\* CPU; and the loader has added all processes before one is marked.
MarkedInv ==
  /\ \A p \in marked : pcb[p] = "live" => p \in named
  /\ marked # {} => i > Len(work)
  /\ \A c \in Cpus :
       /\ proc[c] \notin marked
       /\ walk[c].shift # 0 => walk[c].shift >= walk[c].i
       /\ \A x \in Prios : \A n \in 1..Len(mlq[x]) :
            n # Hole(c, x) /\ mlq[x][n] \in marked => Ahead(c, x, n)

\* During a walk the loader has added all processes.
LEMMA AllAdded ==
  ASSUME NEW c, Cpus = {c}, OneInv, KillerLast, walk[c] # NoWalk PROVE i > Len(work)
<1>0. /\ proc[c] = Killer /\ RunInv /\ LoaderInv /\ TypeOK
  BY DEF OneInv, KTypeInv, WalkInv, RestInv
<1>1. Killer \in 1..Len(work) /\ Killer < i
  BY <1>0, OsKillAssumption DEF RunInv, Procs, NULL
<1>2. Len(work) <= Killer
  BY <1>0 DEF TypeOK, KillerLast
<1>3. QED
  BY <1>0, <1>1, <1>2, IndexFacts

\* The loader adds nothing when a process has been marked.
LEMMA LoaderMarked ==
  ASSUME NEW c, Cpus = {c}, OneInv, MarkedInv, LoaderStep, UNCHANGED killVars
  PROVE  MarkedInv'
<1>0. /\ TypeOK /\ LoaderInv /\ UNCHANGED <<walk, marked, named>> /\ c \in Cpus
  BY DEF OneInv, RestInv, killVars
<1>1. /\ UNCHANGED <<work, proc>> /\ i \in Nat /\ i' \in Nat /\ i <= i'
      /\ Len(work) \in Nat
  BY <1>0, LoaderLists, IndexFacts
<1>2. walk'[c].shift # 0 => walk'[c].shift >= walk'[c].i
  BY <1>0 DEF MarkedInv
<1>3. CASE marked = {}
  BY <1>0, <1>2, <1>3 DEF MarkedInv
<1>4. CASE marked # {}
  <2>1. i > Len(work)
    BY <1>4 DEF MarkedInv
  <2>2. ~(ldpc \in {"await", "add"}) /\ ~(i <= Len(work))
    BY <1>0, <1>1, <2>1 DEF LoaderInv
  <2>3. UNCHANGED <<pcb, mlq>>
    BY <2>2 DEF LoaderStep, Load, AwaitStart, AddList, AddReady, FinishLoading, queueVars
  <2>4. i' > Len(work)
    BY <1>1, <2>1
  <2>5. \A x \in Prios : \A n \in 1..Len(mlq[x]) :
          /\ Hole(c, x)' = Hole(c, x)
          /\ Ahead(c, x, n)' <=> Ahead(c, x, n)
    BY <1>0 DEF Hole, Ahead
  <2>6. QED
    BY <1>0, <1>1, <1>2, <2>3, <2>4, <2>5 DEF MarkedInv
<1>5. QED
  BY <1>3, <1>4

\* Outside of a walk no marked process is in a queue.
LEMMA NoneMarked ==
  ASSUME NEW c, Cpus = {c}, OneInv, MarkedInv, walk[c] = NoWalk
  PROVE  \A x \in Prios : \A n \in 1..Len(mlq[x]) : mlq[x][n] \notin marked
<1>1. \A x \in Prios : Hole(c, x) = 0 /\ \A n \in 1..Len(mlq[x]) : n # 0
  BY DEF NoWalk, Hole
<1>2. QED
  BY <1>1 DEF MarkedInv, Ahead

\* The CPU moves only processes that are not marked.
LEMMA OutsideMarked ==
  ASSUME NEW c, Cpus = {c}, OneInv, MarkedInv, walk[c] = NoWalk, UNCHANGED killVars,
         CpuStep(c) \/ TimerStep
  PROVE  MarkedInv'
<1>0. /\ TypeOK /\ PlaceInv /\ c \in Cpus /\ UNCHANGED <<walk, marked, named>>
      /\ marked \subseteq Procs /\ proc[c] \notin marked /\ NULL \notin marked
      /\ proc \in [Cpus -> Procs \union {NULL}]
      /\ pcb \in [Procs -> {"none", "live", "freed"}]
      /\ walk'[c] = NoWalk
      /\ \A x \in Prios : \A n \in 1..Len(mlq[x]) : mlq[x][n] \notin marked
  <2>1. /\ TypeOK /\ PlaceInv /\ c \in Cpus /\ UNCHANGED <<walk, marked, named>>
        /\ marked \subseteq Procs /\ proc[c] \notin marked
    BY DEF OneInv, KTypeInv, MarkedInv, killVars
  <2>2. NULL \notin marked
    BY <2>1 DEF Procs, NULL
  <2>3. \A x \in Prios : \A n \in 1..Len(mlq[x]) : mlq[x][n] \notin marked
    BY NoneMarked
  <2>4. QED
    BY <2>1, <2>2, <2>3 DEF TypeOK
<1>1. /\ proc'[c] \notin marked
      /\ \A x \in Prios : \A n \in 1..Len(mlq'[x]) : mlq'[x][n] \notin marked
  <2>1. CASE TakeFirst(c) \/ TakeNext(c)
    <3>1. mlq' = Dequeued /\ proc'[c] = NextProc
      BY <1>0, <2>1 DEF TakeFirst, TakeNext
    <3>2. CASE Waiting = {}
      BY <1>0, <3>1, <3>2 DEF NextProc, Dequeued
    <3>3. CASE Waiting # {}
      <4>1. PICK t \in Prios : t = TopPrio
        BY <1>0, <3>3, DequeueEffect
      <4>2. /\ Len(mlq[t]) \in Nat /\ Len(mlq[t]) >= 1 /\ NextProc = mlq[t][1]
            /\ \A x \in Prios : x # t => mlq'[x] = mlq[x]
            /\ Len(mlq'[t]) = Len(mlq[t]) - 1
            /\ \A n \in 1..Len(mlq'[t]) : mlq'[t][n] = mlq[t][n + 1]
        BY <1>0, <3>1, <3>3, <4>1, DequeueEffect, LenProperties DEF TypeOK
      <4>3. \A n \in 1..Len(mlq'[t]) : mlq'[t][n] \notin marked
        BY <1>0, <4>2
      <4>4. mlq[t][1] \notin marked
        BY <1>0, <4>2
      <4>5. QED
        BY <1>0, <3>1, <4>2, <4>3, <4>4
    <3>4. QED
      BY <3>2, <3>3
  <2>2. CASE PutReady(c)
    <3>1. PICK p \in 1..Len(work) : p = proc[c]
      BY <1>0, <2>2 DEF PutReady, PlaceInv
    <3>2. mlq' = Ready(p) /\ proc'[c] = NULL
      BY <1>0, <2>2, <3>1 DEF PutReady
    <3>3. \A x \in Prios : \A n \in 1..Len(mlq'[x]) :
            mlq'[x][n] = p \/ (n \in 1..Len(mlq[x]) /\ mlq'[x][n] = mlq[x][n])
      BY <1>0, <3>2, ReadyEffect
    <3>4. QED
      BY <1>0, <3>1, <3>2, <3>3
  <2>3. CASE Finish(c) \/ Yield(c) \/ Check(c) \/ Run(c) \/ TimerStep
    BY <1>0, <2>3 DEF Finish, Yield, Check, Run, TimerStep, queueVars, cpuVars
  <2>4. QED
    BY <2>1, <2>2, <2>3 DEF CpuStep
<1>2. UNCHANGED <<work, i>>
  BY DEF CpuStep, TakeFirst, Finish, Yield, PutReady, TakeNext, Check, Run, TimerStep,
         configVars, loaderVars
<1>3. \A p \in Procs : pcb'[p] = "live" => pcb[p] = "live"
  <2>1. UNCHANGED pcb \/ pcb' = [pcb EXCEPT ![proc[c]] = "freed"]
    BY DEF CpuStep, TakeFirst, Finish, Yield, PutReady, TakeNext, Check, Run, TimerStep
  <2>2. QED
    BY <1>0, <2>1
<1>4. walk'[c].shift = 0
  BY <1>0 DEF NoWalk
<1>5. QED
  BY <1>0, <1>1, <1>2, <1>3, <1>4 DEF MarkedInv

\* The walk passes only places of processes that are not marked.
LEMMA GoOnMarked ==
  ASSUME NEW c, Cpus = {c}, OneInv, OneInv', MarkedInv,
         StartWalk(c) \/ EndOfList(c) \/ Pass(c) \/ EndWalk(c)
  PROVE  MarkedInv'
<1>0. /\ TypeOK /\ WalkType /\ WalkInv /\ c \in Cpus /\ walk \in [Cpus -> WalkRecord]
      /\ \A x \in Prios : Len(mlq[x]) \in Nat
  BY LenProperties DEF OneInv, KTypeInv, WalkType, TypeOK
<1>1. PICK w \in WalkRecord : w = walk[c]
  BY <1>0
<1>2. w.list \in Nat /\ w.i \in Nat
  BY RecordFacts, OsAssumption
<1>3. w.shift = 0
  <2>1. CASE StartWalk(c)
    BY <1>1, <2>1 DEF StartWalk, NoWalk
  <2>2. CASE EndOfList(c) \/ Pass(c)
    BY <1>1, <2>2 DEF EndOfList, Pass
  <2>3. CASE EndWalk(c)
    BY <1>0, <1>1, <2>3, RecordFacts, OsAssumption DEF EndWalk, Walking, Walked, WalkInv
  <2>4. QED
    BY <2>1, <2>2, <2>3
<1> USE DEF vars, configVars, clockVars, queueVars, loaderVars, cpuVars
<1>4. UNCHANGED <<work, mlq, i, proc, pcb, marked, named>>
  BY DEF StartWalk, EndOfList, Pass, EndWalk
<1>5. QueueInv
  BY <1>1, <1>3, WholeHolds DEF Whole, OneInv
<1>6. \A x \in Prios : \A n \in 1..Len(mlq[x]) :
        n # 0 /\ Hole(c, x) = 0 /\ (mlq[x][n] \in marked => Ahead(c, x, n))
  <2>1. \A x \in Prios : Hole(c, x) = 0 /\ \A n \in 1..Len(mlq[x]) : n # 0
    BY <1>1, <1>3 DEF Hole
  <2>2. QED
    BY <2>1 DEF MarkedInv
<1>7. /\ walk'[c].shift = 0
      /\ \A x \in Prios : \A n \in 1..Len(mlq[x]) :
           mlq[x][n] \in marked => Ahead(c, x, n)'
  <2>1. CASE StartWalk(c)
    <3>1. walk'[c] = [NoWalk EXCEPT !.i = 1, !.before = [l \in Lists |-> List(l)]]
      BY <1>0, <2>1 DEF StartWalk
    <3>2. walk[c] = NoWalk
      BY <2>1 DEF StartWalk
    <3>3. \A x \in Prios : \A n \in 1..Len(mlq[x]) : mlq[x][n] \notin marked
      BY <1>6, <3>2 DEF Ahead
    <3>4. QED
      BY <3>1, <3>3 DEF NoWalk
  <2>2. CASE EndOfList(c)
    <3>1. walk'[c] = [w EXCEPT !.list = w.list + 1, !.i = 1]
      BY <1>0, <1>1, <2>2 DEF EndOfList, NextList
    <3>2. walk'[c].list = w.list + 1 /\ walk'[c].i = 1 /\ walk'[c].shift = 0
      BY <1>3, <3>1 DEF WalkRecord
    <3>3. walk'[c] # NoWalk
      BY <3>2 DEF NoWalk
    <3>4. ASSUME NEW x \in Prios, NEW n \in 1..Len(mlq[x]), mlq[x][n] \in marked
          PROVE  x + 1 >= w.list + 1
      <4>1. x \in Nat /\ n \in Nat
        BY OsAssumption DEF Prios
      <4>2. x + 1 > w.list \/ (x + 1 = w.list /\ n >= w.i)
        BY <1>1, <1>6, <3>4 DEF Ahead
      <4>3. CASE x + 1 = w.list /\ n >= w.i
        <5>1. List(w.list) = mlq[x]
          BY <4>1, <4>3 DEF List
        <5>2. w.i > Len(mlq[x])
          BY <1>1, <2>2, <5>1 DEF EndOfList
        <5>3. QED
          BY <1>0, <1>2, <4>1, <4>3, <5>2
      <4>4. QED
        BY <1>2, <4>1, <4>2, <4>3
    <3>5. QED
      <4>1. \A x \in Prios : x \in Nat
        BY OsAssumption DEF Prios
      <4>2. QED
        BY <1>2, <3>2, <3>3, <3>4, <4>1 DEF Ahead
  <2>3. CASE Pass(c)
    <3>1. walk'[c] = [w EXCEPT !.i = w.i + 1]
      BY <1>0, <1>1, <2>3 DEF Pass
    <3>2. walk'[c].list = w.list /\ walk'[c].i = w.i + 1 /\ walk'[c].shift = 0
      BY <1>3, <3>1 DEF WalkRecord
    <3>3. walk'[c] # NoWalk
      <4>1. w.i >= 1
        BY <1>0, <1>1, <2>3 DEF WalkInv, Pass, Walking
      <4>2. QED
        BY <1>2, <3>2, <4>1 DEF NoWalk
    <3>4. ASSUME NEW x \in Prios, NEW n \in 1..Len(mlq[x]), mlq[x][n] \in marked
          PROVE  x + 1 > w.list \/ (x + 1 = w.list /\ n >= w.i + 1)
      <4>1. x \in Nat /\ n \in Nat
        BY OsAssumption DEF Prios
      <4>2. x + 1 > w.list \/ (x + 1 = w.list /\ n >= w.i)
        BY <1>1, <1>6, <3>4 DEF Ahead
      <4>3. CASE x + 1 = w.list /\ n = w.i
        <5>1. List(w.list) = mlq[x]
          BY <4>1, <4>3 DEF List
        <5>2. mlq[x][n] \notin named \/ pcb[mlq[x][n]] = "freed"
          BY <1>1, <2>3, <4>3, <5>1 DEF Pass, Differs
        <5>3. pcb[mlq[x][n]] = "live"
          BY <1>5 DEF QueueInv
        <5>4. QED
          BY <3>4, <5>2, <5>3 DEF MarkedInv
      <4>4. QED
        BY <1>2, <4>1, <4>2, <4>3
    <3>5. QED
      BY <3>2, <3>3, <3>4 DEF Ahead
  <2>4. CASE EndWalk(c)
    <3>1. walk'[c] = NoWalk /\ w.list > MaxPrio
      BY <1>0, <1>1, <2>4 DEF EndWalk, Walked
    <3>2. \A x \in Prios : \A n \in 1..Len(mlq[x]) : mlq[x][n] \notin marked
      <4>1. \A x \in Prios : x \in Nat /\ x + 1 <= MaxPrio /\ MaxPrio \in Nat
        BY OsAssumption DEF Prios
      <4>2. \A x \in Prios : ~(x + 1 > w.list) /\ ~(x + 1 = w.list)
        BY <1>2, <3>1, <4>1
      <4>3. QED
        BY <1>1, <1>6, <4>2 DEF Ahead
    <3>3. QED
      BY <3>1, <3>2 DEF NoWalk
  <2>5. QED
    BY <2>1, <2>2, <2>3, <2>4
<1>8. QED
  BY <1>0, <1>4, <1>7 DEF MarkedInv

\* The process that is marked leaves its queue: its place is the hole.
LEMMA HitMarked ==
  ASSUME NEW c, Cpus = {c}, KillerLast, KillerUnnamed, OneInv, OneInv', MarkedInv, Hit(c)
  PROVE  MarkedInv'
<1>0. /\ TypeOK /\ walk \in [Cpus -> WalkRecord] /\ c \in Cpus
      /\ walk[c].shift = 0 /\ RunInv /\ named \in NameSets
      /\ \A x \in Prios : Len(mlq[x]) \in Nat
  BY LenProperties DEF OneInv, KTypeInv, WalkType, TypeOK, Hit, RestInv
<1>1. PICK w \in WalkRecord : w = walk[c]
  BY <1>0
<1>2. w.list \in Nat /\ w.i \in Nat
  BY RecordFacts, OsAssumption
<1>3. PICK p : p = List(w.list)[w.i]
  OBVIOUS
<1> USE DEF vars, configVars, clockVars, queueVars, loaderVars, cpuVars
<1>4. /\ UNCHANGED <<work, mlq, i, proc, pcb, named>>
      /\ marked' = marked \union {p} /\ (p \in named \/ pcb[p] = "freed")
      /\ w.i <= Len(List(w.list)) /\ walk[c] # NoWalk
  BY <1>1, <1>3 DEF Hit, Matches, Walking
<1>5. walk'[c].list = w.list /\ walk'[c].i = w.i /\ walk'[c].shift = w.i
  <2>1. walk'[c] = [w EXCEPT !.shift = w.i, !.count = w.count + 1]
    BY <1>0, <1>1 DEF Hit
  <2>2. QED
    BY <2>1 DEF WalkRecord
<1>6. w.i >= 1 /\ proc[c] = Killer
  BY <1>1, <1>4 DEF OneInv, KTypeInv, WalkInv
<1>7. walk'[c] # NoWalk
  BY <1>2, <1>5, <1>6 DEF NoWalk
<1>8. QueueInv
  BY <1>0, WholeHolds DEF Whole, OneInv
<1>9. proc'[c] \notin marked'
  <2>1. Killer \notin named /\ pcb[Killer] = "live"
    BY <1>0, <1>6, OsKillAssumption DEF RunInv, KillerUnnamed, Procs, NULL
  <2>2. QED
    BY <1>0, <1>4, <1>6, <2>1 DEF MarkedInv
<1>10. i' > Len(work')
  BY <1>4, AllAdded
<1>11. \A r \in marked' : pcb'[r] = "live" => r \in named'
  BY <1>4 DEF MarkedInv
<1>12. ASSUME NEW x \in Prios, NEW n \in 1..Len(mlq[x]), n # Hole(c, x)',
              mlq[x][n] \in marked'
       PROVE  Ahead(c, x, n)'
  <2>0. x \in Nat /\ n \in Nat /\ Hole(c, x) = 0 /\ n # 0
    BY <1>0, OsAssumption DEF Prios, Hole
  <2>1. CASE mlq[x][n] \in marked
    <3>1. Ahead(c, x, n)
      BY <2>0, <2>1 DEF MarkedInv
    <3>2. QED
      BY <1>1, <1>5, <1>7, <3>1 DEF Ahead
  <2>2. CASE mlq[x][n] = p
    <3>1. CASE w.list = 0
      BY <1>5, <1>7, <2>0, <3>1 DEF Ahead
    <3>2. CASE w.list # 0
      <4>1. PICK y \in Prios : w.list = y + 1
        <5>1. w.list - 1 \in Prios /\ w.list = (w.list - 1) + 1
          BY <1>1, <1>2, <3>2, OsAssumption DEF Hit, Walked, Prios
        <5>2. QED
          BY <5>1
      <4>2. List(w.list) = mlq[y]
        BY <4>1, OsAssumption DEF List, Prios
      <4>3. w.i \in 1..Len(mlq[y]) /\ mlq[y][w.i] = p
        BY <1>0, <1>2, <1>3, <1>4, <1>6, <4>2
      <4>4. x = y
        BY <1>8, <2>2, <4>3 DEF QueueInv
      <4>5. n = w.i
        BY <1>8, <2>2, <4>3, <4>4 DEF QueueInv
      <4>6. QED
        BY <1>5, <1>12, <4>1, <4>4, <4>5 DEF Hole
    <3>3. QED
      BY <3>1, <3>2
  <2>3. QED
    BY <1>4, <1>12, <2>1, <2>2
<1>13. QED
  BY <1>0, <1>2, <1>4, <1>5, <1>9, <1>10, <1>11, <1>12 DEF MarkedInv

\* The shift moves marked processes to the place before at most, not behind the walk.
LEMMA RemoveMarked ==
  ASSUME NEW c, Cpus = {c}, OneInv, OneInv', MarkedInv, Shift(c) \/ Shrink(c)
  PROVE  MarkedInv'
<1>0. /\ walk \in [Cpus -> WalkRecord] /\ c \in Cpus /\ walk[c].shift # 0
      /\ walk[c] # NoWalk
  BY DEF OneInv, KTypeInv, WalkType, Shift, Shrink, Walking
<1>1. PICK w \in WalkRecord : w = walk[c]
  BY <1>0
<1>2. w.list \in Nat /\ w.i \in Nat /\ w.shift \in Nat
  BY RecordFacts, OsAssumption
<1>3. w.shift >= w.i /\ w.i >= 1
  BY <1>0, <1>1 DEF MarkedInv, OneInv, KTypeInv, WalkInv
<1> USE DEF configVars, clockVars, loaderVars, cpuVars
<1>4. UNCHANGED <<work, i, proc, pcb, named, marked>>
  BY DEF Shift, Shrink
<1>5. Removal(c)
  BY ShiftRemoval, ShrinkRemoval
<1>6. /\ walk'[c].list = w.list /\ walk'[c].i = w.i
      /\ walk'[c].shift # 0 => walk'[c].shift >= walk'[c].i
  <2>1. CASE Shift(c)
    <3>1. walk'[c] = [w EXCEPT !.shift = w.shift + 1]
      BY <1>0, <1>1, <2>1 DEF Shift
    <3>2. walk'[c].list = w.list /\ walk'[c].i = w.i /\ walk'[c].shift = w.shift + 1
      BY <3>1 DEF WalkRecord
    <3>3. QED
      BY <1>2, <1>3, <3>2
  <2>2. CASE Shrink(c)
    <3>1. walk'[c] = [w EXCEPT !.shift = 0]
      BY <1>0, <1>1, <2>2 DEF Shrink, Removed
    <3>2. QED
      BY <3>1 DEF WalkRecord
  <2>3. QED
    BY <2>1, <2>2
<1>7. walk'[c] # NoWalk
  BY <1>2, <1>3, <1>6 DEF NoWalk
<1>8. ASSUME NEW x \in Prios, NEW n \in 1..Len(mlq'[x]), n # Hole(c, x)',
             mlq'[x][n] \in marked
      PROVE  Ahead(c, x, n)'
  <2>1. PICK m \in 1..Len(mlq[x]) : m = Source(c, x, n)
    BY <1>5, <1>8 DEF Removal
  <2>2. m # Hole(c, x) /\ mlq[x][m] \in marked
    BY <1>5, <1>8, <2>1 DEF Removal
  <2>3. x \in Nat /\ n \in Nat /\ m \in Nat
    BY OsAssumption DEF Prios
  <2>4. x + 1 > w.list \/ (x + 1 = w.list /\ m >= w.i)
    BY <1>1, <2>2 DEF MarkedInv, Ahead
  <2>5. x + 1 = w.list => Hole(c, x) = w.shift
    BY <1>1 DEF Hole
  <2>6. x + 1 = w.list /\ m >= w.i => n >= w.i
    BY <1>2, <1>3, <2>1, <2>3, <2>5 DEF Source
  <2>7. QED
    BY <1>6, <1>7, <2>4, <2>6 DEF Ahead
<1>9. QED
  BY <1>4, <1>6, <1>8 DEF MarkedInv

\* Every step keeps marked processes ahead of the walk.
LEMMA MarkedStep ==
  ASSUME NEW c, Cpus = {c}, KillerLast, KillerUnnamed, OneInv, OneInv', MarkedInv,
         [KNext]_kvars
  PROVE  MarkedInv'
<1>1. CASE LoaderStep /\ UNCHANGED killVars
  BY <1>1, LoaderMarked
<1>2. CASE CpuStep(c) /\ ~Walking(c) /\ UNCHANGED killVars
  BY <1>2, OutsideMarked DEF Walking
<1>3. CASE UNCHANGED kvars
  BY <1>3 DEF MarkedInv, Hole, Ahead, kvars, vars, killVars, configVars, queueVars,
              loaderVars, cpuVars
<1>4. CASE TimerStep /\ UNCHANGED killVars
  BY <1>4 DEF TimerStep, MarkedInv, Hole, Ahead, killVars, configVars, queueVars,
              loaderVars, cpuVars
<1>5. CASE \E d \in Cpus : KCpuStep(d)
  BY <1>2, <1>5, GoOnMarked, HitMarked, RemoveMarked DEF KCpuStep
<1>6. QED
  BY <1>1, <1>3, <1>4, <1>5 DEF KNext, Terminated, kvars

\* With one CPU, a process that killall has "marked as terminated" (sys_killall.c)
\* executes nothing more, if the caller has another name and is the last process: the
\* mark itself, pid = 0, is read by nobody, so that it only stops because the walk goes
\* on to take it out of its ready queue before the CPU looks there again.
THEOREM KilledStopsHolds ==
  ASSUME NEW c, Cpus = {c}, LevelsFit, KillerLast, KillerUnnamed
  PROVE  KSpec => KilledStops
<1>1. KInit => OneInv /\ MarkedInv
  <2>1. KInit => OneInv
    BY OneInit
  <2>2. KInit => MarkedInv
    BY DEF KInit, MarkedInv, NoWalk
  <2>3. QED
    BY <2>1, <2>2
<1>2. OneInv /\ MarkedInv /\ [KNext]_kvars => OneInv' /\ MarkedInv'
  <2>1. OneInv /\ [KNext]_kvars => OneInv'
    BY OneStep
  <2>2. QED
    BY <2>1, MarkedStep
<1>3. ASSUME OneInv, MarkedInv, [KNext]_kvars, NEW p \in marked PROVE pc'[p] = pc[p]
  <2>0. /\ proc[c] # p /\ c \in Cpus /\ p \in Procs /\ pc \in [Procs -> Nat]
    BY <1>3 DEF MarkedInv, OneInv, KTypeInv, TypeOK
  <2>1. \/ UNCHANGED pc
        \/ pc' = [pc EXCEPT ![proc[c]] =
                    IF @ >= work[proc[c]].size THEN @ ELSE @ + 1]
        \/ proc[c] = Killer /\ pc' = [pc EXCEPT ![Killer] = @ + 1]
    <3>1. CASE LoaderStep
      BY <3>1 DEF LoaderStep, Load, AwaitStart, AddList, AddReady, FinishLoading
    <3>2. CASE TimerStep \/ Terminated \/ UNCHANGED kvars
      BY <3>2 DEF TimerStep, Terminated, kvars, vars
    <3>3. CASE CpuStep(c)
      BY <3>3 DEF CpuStep, TakeFirst, Finish, Yield, PutReady, TakeNext, Check, Run
    <3>4. CASE StartWalk(c)
      BY <3>4 DEF StartWalk, CallsKillall
    <3>5. CASE EndOfList(c) \/ Pass(c) \/ Hit(c) \/ Shift(c) \/ Shrink(c) \/ EndWalk(c)
      BY <3>5 DEF EndOfList, Pass, Hit, Shift, Shrink, EndWalk, vars
    <3>6. QED
      BY <1>3, <3>1, <3>2, <3>3, <3>4, <3>5 DEF KNext, KCpuStep
  <2>2. QED
    BY <2>0, <2>1
<1>4. OneInv /\ MarkedInv /\ [KNext]_kvars =>
        [\A p \in marked : pc'[p] = pc[p]]_kvars
  BY <1>3
<1>5. QED
  BY <1>1, <1>2, <1>4, PTL DEF KSpec, KilledStops

================================================================================
