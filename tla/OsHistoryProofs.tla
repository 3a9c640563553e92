----------------------------- MODULE OsHistoryProofs -----------------------------
(***************************************************************************)
(* Proofs about the scheduling policy (OsHistory.tla) for every number of  *)
(* CPUs, processes and levels and for every configuration, queues that     *)
(* overflow included.                                                      *)
(*                                                                         *)
(* HInv extends the inductive invariant of OsProofs by what the history    *)
(* variables add to it, one part for each property.                        *)
(***************************************************************************)
EXTENDS OsHistory, OsProofs

\* What has been ready since the slot began is still queued, and there is nothing
\* of it once a CPU has found the queues empty.
WaitInv ==
  /\ waiting \subseteq Queued
  /\ \A c \in Cpus :
       cpc[c] = "check" \/ (c \in arrived /\ proc[c] = NULL) => waiting = {}

\* This CPU has dispatched its process in the current slot.
Fresh(c) ==
  \/ cpc[c] = "run"
  \/ /\ cpc[c] = "top" /\ proc[c] # NULL /\ c \in arrived
     /\ time_left[c] = time_slot - 1

\* A process dispatched in this slot comes before all that still wait; one that
\* goes on has less than a quantum left.
FirstInv ==
  \A c \in Cpus :
    /\ cpc[c] = "top" /\ proc[c] # NULL => time_left[c] < time_slot
    /\ Fresh(c) => \A p \in waiting : work[proc[c]].prio <= work[p].prio

\* time_left counts the instructions that the process may still execute: nothing
\* is left when the CPU looks for another process, and a process that goes on has
\* executed the rest of its quantum since it was dispatched.
QuantumOf(c) ==
  /\ proc[c] = NULL \/ cpc[c] # "top" => time_left[c] = 0
  /\ cpc[c] = "run" => turn[proc[c]] = 0
  /\ cpc[c] = "top" /\ proc[c] # NULL /\ pc[proc[c]] # work[proc[c]].size =>
       turn[proc[c]] >= 1 /\ time_left[c] = time_slot - turn[proc[c]]

QuantumInv ==
  /\ turn \in [Procs -> Int]
  /\ \A c \in Cpus : QuantumOf(c)
  /\ time_slot # 0 => \A p \in Procs : turn[p] <= time_slot

\* What has been dispatched while a process waits is not queued before it.
TurnInv ==
  \A x \in Prios : \A m, n \in 1..Len(mlq[x]) :
    mlq[x][n] \in passed[mlq[x][m]] => m < n

HInv == IInv /\ WaitInv /\ FirstInv /\ QuantumInv /\ TurnInv

--------------------------------------------------------------------------------
(* What a step does to the ready queues.                                   *)

\* Every step keeps the queues, adds a process that is in none, or is a get_proc.
LEMMA NextKinds ==
  ASSUME IInv, Next
  PROVE  /\ UNCHANGED <<work, time_slot>>
         /\ \/ UNCHANGED mlq
            \/ \E p \in 1..Len(work) : p \notin Queued /\ mlq' = Ready(p)
            \/ \E c \in Cpus : TakeFirst(c) \/ TakeNext(c)
<1>0. TypeOK /\ LoaderInv /\ CpuInv /\ QueueInv /\ RunInv
  BY DEF IInv
<1>1. CASE AddReady
  <2>1. i \in 1..Len(work) /\ i \notin Queued /\ mlq' = Ready(i)
    BY <1>0, <1>1, IndexFacts, StageFacts DEF AddReady, LoaderInv
  <2>2. UNCHANGED <<work, time_slot>>
    BY <1>1 DEF AddReady, configVars
  <2>3. QED
    BY <2>1, <2>2
<1>2. ASSUME NEW c \in Cpus, PutReady(c)
      PROVE  /\ UNCHANGED <<work, time_slot>>
             /\ \E p \in 1..Len(work) : p \notin Queued /\ mlq' = Ready(p)
  <2>1. proc[c] # NULL /\ proc[c] \in 1..Len(work) /\ proc[c] \in Running
    BY <1>0, <1>2 DEF PutReady, CpuInv, RunInv, Running
  <2>2. proc[c] \notin Queued
    BY <2>1, <1>0, IndexFacts, StageFacts
  <2>3. mlq' = Ready(proc[c]) /\ UNCHANGED <<work, time_slot>>
    BY <1>2 DEF PutReady, configVars
  <2>4. QED
    BY <2>1, <2>2, <2>3
<1>3. CASE Load \/ AwaitStart \/ AddList \/ FinishLoading \/ TimerStep \/ Terminated
  BY <1>3 DEF Load, AwaitStart, AddList, FinishLoading, TimerStep, Terminated, vars,
              configVars, queueVars
<1>4. ASSUME NEW c \in Cpus, TakeFirst(c) \/ TakeNext(c)
      PROVE  UNCHANGED <<work, time_slot>>
  BY <1>4 DEF TakeFirst, TakeNext, configVars
<1>5. ASSUME NEW c \in Cpus, Finish(c) \/ Yield(c) \/ Check(c) \/ Run(c)
      PROVE  UNCHANGED <<work, time_slot, mlq>>
  BY <1>5 DEF Finish, Yield, Check, Run, configVars, queueVars
<1>6. QED
  BY <1>1, <1>2, <1>3, <1>4, <1>5 DEF Next, LoaderStep, CpuStep

\* No level that waits means no process that waits.
LEMMA NothingQueued == Waiting = {} => Queued = {}
<1> SUFFICES ASSUME Waiting = {}, NEW p \in Queued PROVE FALSE
  OBVIOUS
<1>1. PICK x \in Prios : \E n \in 1..Len(mlq[x]) : mlq[x][n] = p
  BY QueuedFacts
<1>2. mlq[x] = <<>>
  BY DEF Waiting
<1>3. QED
  BY <1>1, <1>2, EmptySeq

\* Nothing is taken from queues that keep what they hold.
LEMMA KeptTaken == ASSUME mlq' = mlq PROVE Queued' = Queued /\ Taken = {}
  BY DEF Taken, Queued, QueueSlots

\* Nothing is taken when a process is added to its queue.
LEMMA AddedTaken ==
  ASSUME TypeOK, NEW p \in 1..Len(work), mlq' = Ready(p)
  PROVE  Queued \subseteq Queued' /\ Taken = {}
<1>1. \A x \in Prios : \A n \in 1..Len(mlq[x]) :
        n \in 1..Len(mlq'[x]) /\ mlq'[x][n] = mlq[x][n]
  BY ReadyEffect
<1>2. Queued \subseteq Queued'
  <2>1. ASSUME NEW q \in Queued PROVE q \in Queued'
    BY <1>1, QueuedFacts, NextStageFacts
  <2>2. QED
    BY <2>1
<1>3. QED
  BY <1>2 DEF Taken

\* get_proc takes one process, of the first level that has any, for its CPU.
LEMMA TakeTaken ==
  ASSUME IInv, IInv', NEW c \in Cpus, proc[c] = NULL, mlq' = Dequeued,
         proc' = [proc EXCEPT ![c] = NextProc], Waiting # {}
  PROVE  \E p \in Procs :
           /\ p = NextProc /\ proc'[c] = p /\ p # NULL
           /\ p \in Queued /\ work[p].prio = TopPrio
           /\ \A q \in Queued : work[p].prio <= work[q].prio
           /\ Taken = {p} /\ Queued' = Queued \ {p}
<1>0. /\ TypeOK /\ QueueInv /\ proc \in [Cpus -> Procs \union {NULL}]
      /\ mlq \in [Prios -> Seq(Procs)]
  BY DEF IInv, TypeOK
<1> DEFINE t == TopPrio
<1>1. PICK p \in Procs : p = NextProc
  BY <1>0, DequeueEffect
<1>2. /\ t \in Prios /\ Len(mlq[t]) \in Nat /\ 1 \in 1..Len(mlq[t])
      /\ p = mlq[t][1]
      /\ \A x \in Prios : x # t => mlq'[x] = mlq[x]
      /\ Len(mlq'[t]) = Len(mlq[t]) - 1
      /\ \A n \in 1..Len(mlq'[t]) : mlq'[t][n] = mlq[t][n + 1]
  BY <1>0, <1>1, DequeueEffect, LenProperties
<1>3. proc'[c] = p
  BY <1>0, <1>1
<1>4. \A x \in Prios : mlq[x] # <<>> => t <= x
  <2>1. \E x \in Waiting : \A y \in Waiting : x <= y
    BY FirstLevel DEF Waiting
  <2>2. \A y \in Waiting : t <= y
    BY <2>1 DEF TopPrio
  <2>3. QED
    BY <2>2 DEF Waiting
<1> HIDE DEF t
<1>5. p \in Queued /\ p # NULL /\ work[p].prio = t
  BY <1>0, <1>2, QueuedFacts DEF Procs, NULL, QueueInv
<1>6. \A q \in Queued : work[p].prio <= work[q].prio
  <2> SUFFICES ASSUME NEW q \in Queued PROVE t <= work[q].prio
    BY <1>5
  <2>1. PICK x \in Prios : \E n \in 1..Len(mlq[x]) : mlq[x][n] = q
    BY QueuedFacts
  <2>2. work[q].prio = x /\ mlq[x] # <<>>
    BY <1>0, <2>1, EmptySeq DEF QueueInv
  <2>3. QED
    BY <1>4, <2>2
<1>7. p \notin Queued'
  BY <1>3, <1>5, NextStageFacts DEF Running
<1>8. ASSUME NEW q \in Queued' PROVE q \in Queued
  <2>1. PICK x \in Prios : \E n \in 1..Len(mlq'[x]) : mlq'[x][n] = q
    BY NextStageFacts
  <2>2. PICK n \in 1..Len(mlq'[x]) : mlq'[x][n] = q
    BY <2>1
  <2>3. \E m \in 1..Len(mlq[x]) : mlq[x][m] = q
    <3>1. CASE x = t
      BY <1>2, <2>2, <3>1
    <3>2. CASE x # t
      BY <1>2, <2>2, <3>2
    <3>3. QED
      BY <3>1, <3>2
  <2>4. QED
    BY <2>3, QueuedFacts
<1>9. ASSUME NEW q \in Queued, q # p PROVE q \in Queued'
  <2>1. PICK x \in Prios : \E n \in 1..Len(mlq[x]) : mlq[x][n] = q
    BY QueuedFacts
  <2>2. PICK n \in 1..Len(mlq[x]) : mlq[x][n] = q
    BY <2>1
  <2>3. \E m \in 1..Len(mlq'[x]) : mlq'[x][m] = q
    <3>1. CASE x = t
      <4>1. n - 1 \in 1..Len(mlq'[t]) /\ (n - 1) + 1 = n
        BY <1>2, <1>9, <2>2, <3>1
      <4>2. mlq'[t][n - 1] = q
        BY <1>2, <2>2, <3>1, <4>1
      <4>3. QED
        BY <3>1, <4>1, <4>2
    <3>2. CASE x # t
      BY <1>2, <2>2, <3>2
    <3>3. QED
      BY <3>1, <3>2
  <2>4. QED
    BY <2>3, NextStageFacts
<1>10. Queued' = Queued \ {p}
  BY <1>7, <1>8, <1>9
<1>11. Taken = {p}
  BY <1>5, <1>10 DEF Taken
<1>12. QED
  BY <1>1, <1>3, <1>5, <1>6, <1>10, <1>11 DEF t

\* When the clock ticks no thread does anything else, and every one is blocked or
\* gone.
LEMMA TickStep ==
  ASSUME IInv, Next, Clock!Tick
  PROVE  /\ UNCHANGED <<work, time_slot, mlq, cpc, proc, time_left, pc>>
         /\ arrived' = {} /\ Taken = {}
         /\ \A c \in Cpus : /\ c \in arrived \/ c \in gone
                            /\ c \notin gone => cpc[c] = "top" /\ c \in arrived
                            /\ c \in gone => proc[c] = NULL /\ cpc[c] = "gone"
<1>0. TypeOK /\ ClockInv /\ CpuInv /\ LoaderInv
  BY DEF IInv
<1>1. arrived' = {} /\ \A d \in Devices : d \in arrived \/ d \in gone
  BY DEF Clock!Tick, Clock!Working
<1>2. \A c \in Cpus : c \in Devices
  BY DEF Devices
<1>3. ASSUME NEW c \in Cpus, CpuStep(c) PROVE FALSE
  <2>1. c \in arrived \/ c \in gone
    BY <1>1, <1>2
  <2>2. cpc[c] \in {"top", "gone"}
    BY <1>0, <2>1 DEF CpuInv, TypeOK, ClockInv
  <2>3. cpc[c] = "top" /\ (TakeFirst(c) \/ Finish(c) \/ Yield(c) \/ Run(c))
    BY <1>3, <2>2
    DEF CpuStep, TakeFirst, Finish, Yield, PutReady, TakeNext, Check, Run
  <2>4. Clock!Working(c)
    BY <2>3 DEF TakeFirst, Finish, Yield, Run, Clock!Arrive
  <2>5. QED
    BY <2>1, <2>4 DEF Clock!Working
<1>4. ASSUME LoaderStep PROVE FALSE
  <2>1. Clock!Working(Loader)
    BY <1>4 DEF LoaderStep, Load, AwaitStart, AddList, AddReady, FinishLoading,
                Clock!Arrive, Clock!Leave
  <2>2. QED
    BY <1>1, <2>1 DEF Clock!Working
<1>5. UNCHANGED <<work, time_slot, mlq, cpc, proc, time_left, pc>>
  BY <1>3, <1>4 DEF Next, TimerStep, Terminated, vars, configVars, queueVars, cpuVars
<1>6. ASSUME NEW c \in Cpus
      PROVE  /\ c \in arrived \/ c \in gone
             /\ c \notin gone => cpc[c] = "top" /\ c \in arrived
             /\ c \in gone => proc[c] = NULL /\ cpc[c] = "gone"
  <2>1. c \in arrived \/ c \in gone
    BY <1>1, <1>2
  <2>2. QED
    BY <1>0, <2>1 DEF CpuInv, TypeOK, ClockInv
<1>7. QED
  BY <1>1, <1>5, <1>6, KeptTaken

\* While the clock stands still, what has been ready since the slot began can only
\* be taken.
LEMMA StillWaiting == ASSUME Record, ~Clock!Tick PROVE waiting' = waiting \ Taken
  BY DEF Record

--------------------------------------------------------------------------------
(* The parts of the invariant.                                             *)

\* A CPU that found the queues empty has left nothing behind.
LEMMA NextWaitInv ==
  ASSUME IInv, IInv', WaitInv, Next, Record PROVE WaitInv'
<1>0. /\ TypeOK /\ ClockInv /\ CpuInv
      /\ cpc \in [Cpus -> {"top", "put", "get", "check", "run", "gone"}]
      /\ proc \in [Cpus -> Procs \union {NULL}]
  BY DEF IInv, TypeOK
<1>1. CASE Clock!Tick
  <2>1. waiting' = Queued
    BY <1>1 DEF Record
  <2>2. Queued' = Queued
    BY <1>1, TickStep, KeptTaken
  <2>3. \A c \in Cpus : cpc'[c] # "check" /\ c \notin arrived'
    BY <1>1, TickStep
  <2>4. QED
    BY <2>1, <2>2, <2>3 DEF WaitInv
<1>2. CASE ~Clock!Tick
  <2>1. waiting' = waiting \ Taken
    BY <1>2, StillWaiting
  <2>2. waiting' \subseteq Queued'
    BY <2>1 DEF WaitInv, Taken
  <2>3. ASSUME NEW c \in Cpus,
               cpc'[c] = "check" \/ (c \in arrived' /\ proc'[c] = NULL)
        PROVE  waiting' = {}
    <3>1. CASE cpc[c] = "check" \/ (c \in arrived /\ proc[c] = NULL)
      BY <2>1, <3>1 DEF WaitInv
    <3>2. CASE TakeFirst(c) \/ TakeNext(c)
      <4>1. NextProc = NULL
        BY <1>0, <2>3, <3>2
        DEF TakeFirst, TakeNext, CpuInv, clockVars
      <4>2. Waiting = {}
        BY <1>0, <4>1, DequeueEffect DEF Procs, NULL
      <4>3. QED
        BY <2>1, <4>2, NothingQueued DEF WaitInv
    <3>3. CASE Finish(c) \/ Yield(c) \/ PutReady(c)
      <4>1. c \notin arrived'
        BY <1>0, <3>3 DEF Finish, Yield, PutReady, clockVars, CpuInv, Clock!Working
      <4>2. cpc'[c] # "check"
        BY <1>0, <3>3 DEF Finish, Yield, PutReady
      <4>3. QED
        BY <2>3, <4>1, <4>2
    <3>4. CASE Check(c)
      BY <2>1, <3>4 DEF WaitInv, Check
    <3>5. CASE Run(c)
      BY <1>0, <2>3, <3>5 DEF Run, CpuInv
    <3>6. ASSUME NEW d \in Cpus, d # c, CpuStep(d)
          PROVE  cpc'[c] = cpc[c] /\ proc'[c] = proc[c] /\ (c \in arrived' <=> c \in arrived)
      BY <1>0, <3>6
      DEF CpuStep, TakeFirst, Finish, Yield, PutReady, TakeNext, Check, Run,
          Clock!Arrive, Clock!Leave, clockVars
    <3>7. ASSUME LoaderStep \/ TimerStep \/ Terminated
          PROVE  cpc' = cpc /\ proc' = proc /\ (c \in arrived' => c \in arrived)
      BY <3>7, OsAssumption
      DEF LoaderStep, Load, AwaitStart, AddList, AddReady, FinishLoading, TimerStep,
          Terminated, Clock!Arrive, Clock!Leave, Clock!Tick, Clock!Halt, clockVars,
          cpuVars, vars
    <3>8. QED
      BY <2>3, <3>1, <3>2, <3>3, <3>4, <3>5, <3>6, <3>7 DEF Next, CpuStep
  <2>4. QED
    BY <2>2, <2>3 DEF WaitInv
<1>3. QED
  BY <1>1, <1>2

\* A process dispatched in this slot still comes before all that wait.
LEMMA NextFirstInv ==
  ASSUME IInv, IInv', WaitInv, FirstInv, Next, Record PROVE FirstInv'
<1>0. /\ TypeOK /\ ClockInv /\ CpuInv
      /\ cpc \in [Cpus -> {"top", "put", "get", "check", "run", "gone"}]
      /\ proc \in [Cpus -> Procs \union {NULL}]
      /\ time_left \in [Cpus -> Int] /\ \A c \in Cpus : time_left[c] <= time_slot
      /\ time_slot \in Nat
  BY OsAssumption DEF IInv, TypeOK
<1>1. work' = work /\ time_slot' = time_slot
  BY NextKinds
<1>2. CASE Clock!Tick
  <2>1. \A c \in Cpus : ~Fresh(c)'
    BY <1>2, TickStep DEF Fresh
  <2>2. UNCHANGED <<cpc, proc, time_left>>
    BY <1>2, TickStep
  <2>3. QED
    BY <1>1, <2>1, <2>2 DEF FirstInv
<1>3. CASE ~Clock!Tick
  <2>1. waiting' \subseteq waiting /\ waiting' \subseteq Queued
    BY <1>3, StillWaiting DEF WaitInv
  <2>2. ASSUME NEW c \in Cpus
        PROVE  /\ cpc'[c] = "top" /\ proc'[c] # NULL => time_left'[c] < time_slot
               /\ Fresh(c)' => \A p \in waiting' : work[proc'[c]].prio <= work[p].prio
    <3>1. ASSUME Fresh(c), proc'[c] = proc[c]
          PROVE  \A p \in waiting' : work[proc'[c]].prio <= work[p].prio
      BY <2>1, <3>1 DEF FirstInv
    <3>2. ASSUME TakeFirst(c) \/ TakeNext(c), Waiting = {}
          PROVE  proc'[c] = NULL /\ cpc'[c] # "run"
      BY <1>0, <3>2 DEF TakeFirst, TakeNext, NextProc
    <3>3. ASSUME TakeFirst(c) \/ TakeNext(c), Waiting # {}
          PROVE  /\ cpc'[c] = "run"
                 /\ \A p \in waiting' : work[proc'[c]].prio <= work[p].prio
      <4>1. /\ proc[c] = NULL /\ mlq' = Dequeued
            /\ proc' = [proc EXCEPT ![c] = NextProc]
        BY <1>0, <3>3 DEF TakeFirst, TakeNext, CpuInv
      <4>2. PICK p \in Procs :
              /\ p = NextProc /\ proc'[c] = p /\ p # NULL
              /\ \A q \in Queued : work[p].prio <= work[q].prio
        BY <3>3, <4>1, TakeTaken
      <4>3. cpc'[c] = "run"
        BY <1>0, <3>3, <4>2 DEF TakeFirst, TakeNext
      <4>4. QED
        BY <2>1, <4>2, <4>3
    <3>4. CASE TakeFirst(c) \/ TakeNext(c)
      BY <3>2, <3>3, <3>4 DEF Fresh
    <3>5. CASE Finish(c) \/ Yield(c) \/ PutReady(c) \/ Check(c)
      <4>1. cpc'[c] # "run" /\ ~(cpc'[c] = "top" /\ proc'[c] # NULL)
        BY <1>0, <3>5 DEF Finish, Yield, PutReady, Check, CpuInv
      <4>2. QED
        BY <4>1 DEF Fresh
    <3>6. CASE Run(c)
      <4>1. /\ time_left'[c] = (IF time_left[c] = 0 THEN time_slot ELSE time_left[c]) - 1
            /\ cpc'[c] = "top" /\ proc' = proc
        BY <1>0, <3>6 DEF Run
      <4>2. time_left[c] \in Int /\ time_left[c] <= time_slot
        BY <1>0
      <4>3. time_left'[c] < time_slot
        BY <1>0, <4>1, <4>2
      <4>4. cpc[c] = "run" \/ (cpc[c] = "top" /\ proc[c] # NULL /\ time_left[c] # 0)
        BY <3>6 DEF Run
      <4>5. cpc[c] # "run" => time_left'[c] # time_slot - 1
        BY <1>0, <4>1, <4>2, <4>4 DEF FirstInv
      <4>6. Fresh(c)' => Fresh(c)
        BY <1>1, <4>1, <4>5 DEF Fresh
      <4>7. QED
        BY <3>1, <4>1, <4>3, <4>6
    <3>7. ASSUME NEW d \in Cpus, d # c, CpuStep(d)
          PROVE  /\ cpc'[c] = cpc[c] /\ proc'[c] = proc[c] /\ time_left'[c] = time_left[c]
                 /\ c \in arrived' <=> c \in arrived
      BY <1>0, <3>7
      DEF CpuStep, TakeFirst, Finish, Yield, PutReady, TakeNext, Check, Run,
          Clock!Arrive, Clock!Leave, clockVars
    <3>8. ASSUME LoaderStep \/ TimerStep \/ Terminated
          PROVE  /\ cpc' = cpc /\ proc' = proc /\ time_left' = time_left
                 /\ c \in arrived' => c \in arrived
      BY <3>8, OsAssumption
      DEF LoaderStep, Load, AwaitStart, AddList, AddReady, FinishLoading, TimerStep,
          Terminated, Clock!Arrive, Clock!Leave, Clock!Tick, Clock!Halt, clockVars,
          cpuVars, vars
    <3>9. CASE cpc'[c] = cpc[c] /\ proc'[c] = proc[c] /\ time_left'[c] = time_left[c]
               /\ (c \in arrived' => c \in arrived)
      <4>1. Fresh(c)' => Fresh(c)
        BY <1>1, <3>9 DEF Fresh
      <4>2. QED
        BY <3>1, <3>9, <4>1 DEF FirstInv
    <3>10. QED
      BY <3>4, <3>5, <3>6, <3>7, <3>8, <3>9 DEF Next, CpuStep
  <2>3. QED
    BY <1>1, <2>2 DEF FirstInv
<1>4. QED
  BY <1>2, <1>3

\* A step other than the execution of an instruction and a dispatch leaves every
\* process its turn.
LEMMA KeptTurn ==
  ASSUME IInv, IInv', turn \in [Procs -> Int], Record
  PROVE  /\ turn' \in [Procs -> Int]
         /\ \A p \in Procs : p \in Taken => turn'[p] = 0
         /\ \A p \in Procs : p \notin Taken => turn'[p] = turn[p] + (pc'[p] - pc[p])
         /\ \A p \in Procs : p \notin Taken /\ pc'[p] = pc[p] => turn'[p] = turn[p]
<1>1. pc \in [Procs -> Nat] /\ pc' \in [Procs -> Nat]
  BY DEF IInv, TypeOK
<1>2. turn' = [p \in Procs |->
                 IF p \in Taken THEN 0 ELSE turn[p] + (pc'[p] - pc[p])]
  BY DEF Record
<1> HIDE DEF Taken
<1>3. \A p \in Procs : turn[p] \in Int /\ pc[p] \in Int /\ pc'[p] \in Int
  BY <1>1
<1>4. \A p \in Procs :
        turn'[p] = IF p \in Taken THEN 0 ELSE turn[p] + (pc'[p] - pc[p])
  BY <1>2
<1>5. \A p \in Procs : turn'[p] \in Int
  BY <1>3, <1>4
<1>6. turn' \in [Procs -> Int]
  BY <1>2, <1>5
<1>7. QED
  BY <1>3, <1>4, <1>6

\* A CPU whose state, and whose process's, a step leaves alone keeps its quantum.
LEMMA KeptQuantum ==
  ASSUME NEW c \in Cpus, QuantumOf(c), work' = work, time_slot' = time_slot,
         cpc'[c] = cpc[c], proc'[c] = proc[c], time_left'[c] = time_left[c],
         proc[c] # NULL =>
           pc'[proc[c]] = pc[proc[c]] /\ turn'[proc[c]] = turn[proc[c]],
         cpc[c] = "run" => proc[c] # NULL
  PROVE  QuantumOf(c)'
  BY DEF QuantumOf

\* A dispatch starts a turn on a CPU that has nothing left of the quantum before.
LEMMA TakeQuantum ==
  ASSUME IInv, IInv', QuantumInv, Next, Record, NEW c \in Cpus,
         TakeFirst(c) \/ TakeNext(c)
  PROVE  QuantumInv'
<1>0. /\ TypeOK /\ CpuInv /\ RunInv /\ proc \in [Cpus -> Procs \union {NULL}]
      /\ cpc \in [Cpus -> {"top", "put", "get", "check", "run", "gone"}]
  BY DEF IInv, TypeOK
<1>1. /\ work' = work /\ time_slot' = time_slot /\ pc' = pc /\ time_left' = time_left
      /\ proc[c] = NULL /\ mlq' = Dequeued /\ proc' = [proc EXCEPT ![c] = NextProc]
      /\ \A d \in Cpus : d # c => cpc'[d] = cpc[d] /\ proc'[d] = proc[d]
      /\ cpc'[c] = IF NextProc # NULL
                     THEN "run" ELSE IF cpc[c] = "top" THEN "top" ELSE "check"
  BY <1>0 DEF TakeFirst, TakeNext, CpuInv, configVars
<1>2. time_left[c] = 0
  BY <1>1 DEF QuantumInv, QuantumOf
<1>3. /\ turn \in [Procs -> Int] /\ turn' \in [Procs -> Int]
      /\ \A p \in Procs : p \in Taken => turn'[p] = 0
      /\ \A p \in Procs : p \notin Taken => turn'[p] = turn[p]
  BY <1>1, KeptTurn DEF QuantumInv
<1>4. \A p \in Taken : p \in Queued
  BY DEF Taken
<1>5. \A d \in Cpus : d # c => QuantumOf(d)'
  <2> SUFFICES ASSUME NEW d \in Cpus, d # c PROVE QuantumOf(d)'
    OBVIOUS
  <2>1. proc[d] # NULL => proc[d] \in Procs /\ proc[d] \notin Taken
    BY <1>0, <1>4, StageFacts DEF Running
  <2>2. proc[d] # NULL => turn'[proc[d]] = turn[proc[d]]
    BY <1>3, <2>1
  <2>3. QuantumOf(d) /\ (cpc[d] = "run" => proc[d] # NULL)
    BY <1>0 DEF QuantumInv, CpuInv
  <2>4. QED
    BY <1>1, <2>2, <2>3, KeptQuantum
<1>6. QuantumOf(c)'
  <2>1. CASE Waiting = {}
    <3>1. NextProc = NULL
      BY <2>1 DEF NextProc
    <3>2. proc'[c] = NULL /\ cpc'[c] # "run" /\ time_left'[c] = 0
      BY <1>0, <1>1, <1>2, <3>1
    <3>3. QED
      BY <3>2 DEF QuantumOf
  <2>2. CASE Waiting # {}
    <3>1. PICK p \in Procs : p = NextProc /\ proc'[c] = p /\ p # NULL /\ Taken = {p}
      BY <1>1, <2>2, TakeTaken
    <3>2. cpc'[c] = "run" /\ time_left'[c] = 0 /\ turn'[proc'[c]] = 0
      BY <1>1, <1>2, <1>3, <3>1
    <3>3. QED
      BY <3>2 DEF QuantumOf
  <2>3. QED
    BY <2>1, <2>2
<1>7. time_slot' # 0 => \A p \in Procs : turn'[p] <= time_slot'
  <2>1. time_slot \in Nat
    BY <1>0, OsAssumption DEF TypeOK
  <2>2. ASSUME NEW p \in Procs PROVE turn'[p] = 0 \/ turn'[p] = turn[p]
    BY <1>3
  <2>3. QED
    BY <1>1, <2>1, <2>2 DEF QuantumInv
<1>8. QED
  BY <1>3, <1>5, <1>6, <1>7 DEF QuantumInv

\* An instruction that is executed is taken off the quantum.
LEMMA RunQuantum ==
  ASSUME IInv, IInv', QuantumInv, Next, Record, NEW c \in Cpus, Run(c)
  PROVE  QuantumInv'
<1>0. /\ TypeOK /\ CpuInv /\ RunInv /\ proc \in [Cpus -> Procs \union {NULL}]
      /\ pc \in [Procs -> Nat] /\ \A p \in DOMAIN work : pc[p] <= work[p].size
      /\ time_slot \in Nat /\ time_left \in [Cpus -> Int] /\ LoaderInv
      /\ cpc \in [Cpus -> {"top", "put", "get", "check", "run", "gone"}]
  BY OsAssumption DEF IInv, TypeOK
<1>1. proc[c] # NULL /\ proc[c] \in 1..Len(work)
  BY <1>0 DEF Run, CpuInv, RunInv
<1>2. PICK p \in Procs : p = proc[c] /\ p \in 1..Len(work) /\ p # NULL
  BY <1>0, <1>1
<1>3. work[p].size \in Nat /\ pc[p] \in Nat /\ pc[p] <= work[p].size
  BY <1>0, <1>2, IndexFacts
<1>4. /\ work' = work /\ time_slot' = time_slot /\ mlq' = mlq /\ proc' = proc
      /\ \A d \in Cpus : d # c => cpc'[d] = cpc[d] /\ time_left'[d] = time_left[d]
      /\ cpc'[c] = "top"
      /\ time_left'[c] = (IF time_left[c] = 0 THEN time_slot ELSE time_left[c]) - 1
  BY <1>0 DEF Run, configVars, queueVars
<1>5. /\ \A q \in Procs : q # p => pc'[q] = pc[q]
      /\ pc'[p] = IF pc[p] >= work[p].size THEN pc[p] ELSE pc[p] + 1
  BY <1>0, <1>2 DEF Run
<1>6. Taken = {}
  BY <1>4, KeptTaken
<1>7. /\ turn \in [Procs -> Int] /\ turn' \in [Procs -> Int]
      /\ \A q \in Procs : q # p => turn'[q] = turn[q]
      /\ turn'[p] = turn[p] + (pc'[p] - pc[p])
  BY <1>5, <1>6, KeptTurn DEF QuantumInv
<1>8. cpc[c] = "run" \/ (cpc[c] = "top" /\ pc[p] # work[p].size /\ time_left[c] # 0)
  BY <1>2 DEF Run
<1>9. \A d \in Cpus : d # c => QuantumOf(d)'
  <2> SUFFICES ASSUME NEW d \in Cpus, d # c PROVE QuantumOf(d)'
    OBVIOUS
  <2>1. proc[d] # NULL => proc[d] \in Procs /\ proc[d] # p
    BY <1>0, <1>2 DEF RunInv
  <2>2. QuantumOf(d) /\ (cpc[d] = "run" => proc[d] # NULL)
    BY <1>0 DEF QuantumInv, CpuInv
  <2>3. QED
    BY <1>4, <1>5, <1>7, <2>1, <2>2, KeptQuantum
<1>10. turn[p] \in Int /\ time_left[c] \in Int
  BY <1>0, <1>7
<1>11. /\ cpc[c] = "run" => time_left[c] = 0 /\ turn[p] = 0
       /\ cpc[c] = "top" => turn[p] >= 1 /\ time_left[c] = time_slot - turn[p]
  BY <1>2, <1>8 DEF QuantumInv, QuantumOf
<1>12. pc'[p] # work[p].size => turn'[p] >= 1 /\ time_left'[c] = time_slot - turn'[p]
  <2> SUFFICES ASSUME pc'[p] # work[p].size
               PROVE  turn'[p] >= 1 /\ time_left'[c] = time_slot - turn'[p]
    OBVIOUS
  <2>1. pc'[p] = pc[p] + 1
    BY <1>3, <1>5
  <2>2. turn'[p] = turn[p] + 1
    BY <1>3, <1>7, <1>10, <2>1
  <2>3. QED
    BY <1>0, <1>4, <1>8, <1>10, <1>11, <2>2
<1>13. QuantumOf(c)'
  BY <1>2, <1>4, <1>12 DEF QuantumOf
<1>14. time_slot # 0 => \A q \in Procs : turn'[q] <= time_slot
  <2> SUFFICES ASSUME time_slot # 0, NEW q \in Procs PROVE turn'[q] <= time_slot
    OBVIOUS
  <2>1. \A r \in Procs : turn[r] <= time_slot
    BY DEF QuantumInv
  <2>2. CASE q # p
    BY <1>7, <2>1, <2>2
  <2>3. CASE q = p
    <3>1. turn'[p] = turn[p] \/ turn'[p] = turn[p] + 1
      BY <1>3, <1>5, <1>7, <1>10
    <3>2. turn[p] <= time_slot /\ turn[p] # time_slot
      BY <1>0, <1>8, <1>10, <1>11, <2>1
    <3>3. QED
      BY <1>0, <1>10, <2>3, <3>1, <3>2
  <2>4. QED
    BY <2>2, <2>3
<1>15. QED
  BY <1>4, <1>7, <1>9, <1>13, <1>14 DEF QuantumInv

\* A process is preempted after a whole quantum and never executes more in a turn.
LEMMA NextQuantumInv ==
  ASSUME IInv, IInv', QuantumInv, Next, Record PROVE QuantumInv'
<1>0. /\ TypeOK /\ CpuInv /\ RunInv /\ proc \in [Cpus -> Procs \union {NULL}]
      /\ cpc \in [Cpus -> {"top", "put", "get", "check", "run", "gone"}]
      /\ time_left \in [Cpus -> Int]
  BY DEF IInv, TypeOK
<1>1. CASE \E c \in Cpus : TakeFirst(c) \/ TakeNext(c)
  BY <1>1, TakeQuantum
<1>2. CASE \E c \in Cpus : Run(c)
  BY <1>2, RunQuantum
<1>3. CASE ~(\E c \in Cpus : TakeFirst(c) \/ TakeNext(c)) /\ ~(\E c \in Cpus : Run(c))
  <2>1. work' = work /\ time_slot' = time_slot
    BY NextKinds
  <2>2. Taken = {}
    BY <1>0, <1>3, NextKinds, KeptTaken, AddedTaken
  <2>3. pc' = pc
    BY <1>3
    DEF Next, LoaderStep, Load, AwaitStart, AddList, AddReady, FinishLoading, CpuStep,
        Finish, Yield, PutReady, Check, TimerStep, Terminated, vars
  <2>4. /\ turn' \in [Procs -> Int]
        /\ \A p \in Procs : turn'[p] = turn[p]
    BY <2>2, <2>3, KeptTurn DEF QuantumInv
  <2>5. ASSUME NEW c \in Cpus PROVE QuantumOf(c)'
    <3>1. QuantumOf(c) /\ (cpc[c] = "run" => proc[c] # NULL)
      BY <1>0 DEF QuantumInv, CpuInv
    <3>2. proc[c] # NULL => turn'[proc[c]] = turn[proc[c]]
      BY <1>0, <2>4
    <3>3. CASE cpc'[c] = cpc[c] /\ proc'[c] = proc[c] /\ time_left'[c] = time_left[c]
      BY <2>1, <2>3, <3>1, <3>2, <3>3, KeptQuantum
    <3>4. CASE Finish(c) \/ Yield(c) \/ PutReady(c) \/ Check(c)
      <4>1. time_left'[c] = 0 /\ cpc'[c] # "run" /\ (cpc'[c] = "top" => proc'[c] = NULL)
        BY <1>0, <3>1, <3>4 DEF Finish, Yield, PutReady, Check, CpuInv, QuantumOf
      <4>2. QED
        BY <4>1 DEF QuantumOf
    <3>5. ASSUME NEW d \in Cpus, d # c, CpuStep(d)
          PROVE  cpc'[c] = cpc[c] /\ proc'[c] = proc[c] /\ time_left'[c] = time_left[c]
      BY <1>0, <3>5
      DEF CpuStep, TakeFirst, Finish, Yield, PutReady, TakeNext, Check, Run
    <3>6. ASSUME LoaderStep \/ TimerStep \/ Terminated
          PROVE  cpc' = cpc /\ proc' = proc /\ time_left' = time_left
      BY <3>6
      DEF LoaderStep, Load, AwaitStart, AddList, AddReady, FinishLoading, TimerStep,
          Terminated, cpuVars, vars
    <3>7. QED
      BY <1>3, <3>3, <3>4, <3>5, <3>6 DEF Next, CpuStep
  <2>6. QED
    BY <2>1, <2>4, <2>5 DEF QuantumInv
<1>4. QED
  BY <1>1, <1>2, <1>3

\* What is remembered of the processes that have overtaken one.
LEMMA PassedStep ==
  ASSUME Record, NEW p \in Procs
  PROVE  /\ p \notin Queued => passed'[p] = {}
         /\ \A q : q \in passed'[p] =>
              q \in passed[p] \/ (q \in Taken /\ work[q].prio = work[p].prio)
<1>1. passed'[p] = IF p \in Queued
                     THEN passed[p] \union {q \in Taken : work[q].prio = work[p].prio}
                     ELSE {}
  BY DEF Record
<1>2. QED
  BY <1>1

\* A process that is put back joins its level behind all that are there.
LEMMA AddTurn ==
  ASSUME IInv, TurnInv, Record, NEW p \in 1..Len(work), p \notin Queued, mlq' = Ready(p)
  PROVE  TurnInv'
<1>0. /\ TypeOK /\ LoaderInv /\ mlq \in [Prios -> Seq(Procs)] /\ p \in Procs
      /\ \A x \in Prios : Len(mlq[x]) \in Nat
  BY IndexFacts, LenProperties DEF IInv, TypeOK
<1>1. /\ \A x \in Prios : \A n \in 1..Len(mlq[x]) :
           n \in 1..Len(mlq'[x]) /\ mlq'[x][n] = mlq[x][n]
      /\ \A x \in Prios : \A n \in 1..Len(mlq'[x]) :
           \/ n \in 1..Len(mlq[x])
           \/ n = Len(mlq[x]) + 1 /\ mlq'[x][n] = p
  BY <1>0, ReadyEffect
<1>2. Taken = {}
  BY <1>0, AddedTaken
<1>3. \A q \in Procs : passed'[q] \subseteq passed[q]
  BY <1>2, PassedStep
<1>4. passed'[p] = {}
  BY <1>0, PassedStep
<1>5. ASSUME NEW x \in Prios, NEW m \in 1..Len(mlq'[x]), NEW n \in 1..Len(mlq'[x]),
             mlq'[x][n] \in passed'[mlq'[x][m]]
      PROVE  m < n
  <2>1. m \in 1..Len(mlq[x]) /\ mlq'[x][m] = mlq[x][m]
    BY <1>1, <1>4, <1>5
  <2>2. mlq[x][m] \in Procs
    BY <1>0, <2>1
  <2>3. mlq'[x][n] \in passed[mlq[x][m]]
    BY <1>3, <1>5, <2>1, <2>2
  <2>4. CASE n \in 1..Len(mlq[x])
    BY <1>1, <2>1, <2>3, <2>4 DEF TurnInv
  <2>5. CASE n = Len(mlq[x]) + 1
    BY <1>0, <2>1, <2>5
  <2>6. QED
    BY <1>1, <2>4, <2>5
<1>6. QED
  BY <1>5 DEF TurnInv

\* The process that get_proc takes was the first of its level.
LEMMA TakeTurn ==
  ASSUME IInv, IInv', TurnInv, Record, NEW c \in Cpus, proc[c] = NULL,
         mlq' = Dequeued, proc' = [proc EXCEPT ![c] = NextProc], Waiting # {}
  PROVE  TurnInv'
<1>0. TypeOK /\ QueueInv /\ mlq \in [Prios -> Seq(Procs)]
  BY DEF IInv, TypeOK
<1>1. PICK p \in Procs :
        p = NextProc /\ work[p].prio = TopPrio /\ Taken = {p} /\ Queued' = Queued \ {p}
  BY TakeTaken
<1>2. PICK t \in Prios : t = TopPrio
  BY <1>0, DequeueEffect
<1>3. /\ Len(mlq[t]) \in Nat /\ Len(mlq'[t]) = Len(mlq[t]) - 1
      /\ \A x \in Prios : x # t => mlq'[x] = mlq[x]
      /\ \A n \in 1..Len(mlq'[t]) : mlq'[t][n] = mlq[t][n + 1]
  BY <1>0, <1>2, DequeueEffect, LenProperties
<1>4. ASSUME NEW x \in Prios, NEW m \in 1..Len(mlq'[x]), NEW n \in 1..Len(mlq'[x]),
             mlq'[x][n] \in passed'[mlq'[x][m]]
      PROVE  m < n
  <2>1. PICK k \in 0..1 : k = IF x = t THEN 1 ELSE 0
    OBVIOUS
  <2>2. /\ m + k \in 1..Len(mlq[x]) /\ n + k \in 1..Len(mlq[x])
        /\ mlq'[x][m] = mlq[x][m + k] /\ mlq'[x][n] = mlq[x][n + k]
    <3>1. CASE x = t
      BY <1>3, <2>1, <3>1
    <3>2. CASE x # t
      BY <1>3, <2>1, <3>2
    <3>3. QED
      BY <3>1, <3>2
  <2>3. mlq'[x][n] # p
    <3>1. mlq'[x][n] \in Queued'
      BY NextStageFacts
    <3>2. QED
      BY <1>1, <3>1
  <2>4. mlq[x][m + k] \in Procs
    BY <1>0, <2>2
  <2>5. mlq[x][n + k] \in passed[mlq[x][m + k]]
    BY <1>1, <1>4, <2>2, <2>3, <2>4, PassedStep
  <2>6. m + k < n + k
    BY <2>2, <2>5 DEF TurnInv
  <2>7. QED
    BY <2>1, <2>6
<1>5. QED
  BY <1>4 DEF TurnInv

\* Each level is served in the order in which its processes wait.
LEMMA NextTurnInv ==
  ASSUME IInv, IInv', TurnInv, Next, Record PROVE TurnInv'
<1>0. TypeOK /\ CpuInv /\ mlq \in [Prios -> Seq(Procs)]
  BY DEF IInv, TypeOK
<1>1. CASE UNCHANGED mlq
  <2>1. Taken = {}
    BY <1>1, KeptTaken
  <2>2. \A q \in Procs : passed'[q] \subseteq passed[q]
    BY <2>1, PassedStep
  <2>3. \A x \in Prios : \A m \in 1..Len(mlq[x]) : mlq[x][m] \in Procs
    BY <1>0
  <2>4. QED
    BY <1>1, <2>2, <2>3 DEF TurnInv
<1>2. CASE \E p \in 1..Len(work) : p \notin Queued /\ mlq' = Ready(p)
  BY <1>2, AddTurn
<1>3. ASSUME NEW c \in Cpus, TakeFirst(c) \/ TakeNext(c) PROVE TurnInv'
  <2>1. /\ proc[c] = NULL /\ mlq' = Dequeued
        /\ proc' = [proc EXCEPT ![c] = NextProc]
    BY <1>0, <1>3 DEF TakeFirst, TakeNext, CpuInv
  <2>2. CASE Waiting = {}
    BY <1>1, <2>1, <2>2 DEF Dequeued
  <2>3. CASE Waiting # {}
    BY <2>1, <2>3, TakeTurn
  <2>4. QED
    BY <2>2, <2>3
<1>4. QED
  BY <1>1, <1>2, <1>3, NextKinds

--------------------------------------------------------------------------------
(* The theorems.                                                           *)

\* The history starts empty.
LEMMA InitHInv == HInit => HInv
<1> SUFFICES ASSUME HInit PROVE HInv
  OBVIOUS
<1>1. IInv
  BY InitIInv DEF HInit
<1>2. WaitInv /\ FirstInv
  BY DEF HInit, Init, WaitInv, FirstInv, Fresh
<1>3. QuantumInv
  <2>1. turn = [p \in Procs |-> 0] /\ time_slot \in Nat
    BY OsAssumption DEF HInit, Init
  <2>2. \A c \in Cpus : time_left[c] = 0 /\ cpc[c] = "top" /\ proc[c] = NULL
    BY DEF HInit, Init
  <2>3. QED
    BY <2>1, <2>2 DEF QuantumInv, QuantumOf
<1>4. TurnInv
  BY EmptySeq DEF HInit, Init, TurnInv
<1>5. QED
  BY <1>1, <1>2, <1>3, <1>4 DEF HInv

\* The threads own the processes, and the history of every slot and every turn is
\* as the scheduler's promises need it, whatever the configuration.
THEOREM HistoryInvariance == HSpec => []HInv
<1>1. HInit => HInv
  BY InitHInv
<1>2. HInv /\ [HNext]_hvars => HInv'
  <2> SUFFICES ASSUME HInv, [HNext]_hvars PROVE HInv'
    OBVIOUS
  <2>1. CASE HNext
    <3>1. IInv'
      BY <2>1, NextIInv DEF HInv, HNext
    <3>2. QED
      BY <2>1, <3>1, NextWaitInv, NextFirstInv, NextQuantumInv, NextTurnInv
      DEF HInv, HNext
  <2>2. CASE UNCHANGED hvars
    <3>1. IInv'
      BY <2>2, NextIInv DEF HInv, hvars
    <3>2. Queued' = Queued
      BY <2>2, KeptTaken DEF hvars, vars, queueVars
    <3>3. QED
      BY <2>2, <3>1, <3>2
      DEF hvars, historyVars, vars, configVars, clockVars, queueVars, loaderVars,
          cpuVars, HInv, WaitInv, FirstInv, Fresh, QuantumInv, QuantumOf, TurnInv
  <2>3. QED
    BY <2>1, <2>2
<1>3. QED
  BY <1>1, <1>2, PTL DEF HSpec

\* A CPU that skips a slot leaves no process behind that was ready when the slot
\* began: the idle and the stop paths of cpu_routine never miss work, however many
\* CPUs compete for the queues and even if a full queue has dropped a process.
THEOREM WorkConservingHolds == HSpec => WorkConserving
<1>1. HInv /\ [HNext]_hvars =>
        [Clock!Tick /\ (\E c \in Cpus \ gone : proc[c] = NULL) => waiting = {}]_hvars
  <2> SUFFICES ASSUME HInv, HNext, Clock!Tick, NEW c \in Cpus \ gone, proc[c] = NULL
               PROVE  waiting = {}
    BY DEF HInv
  <2>1. c \in arrived
    BY TickStep DEF HInv, HNext
  <2>2. QED
    BY <2>1 DEF HInv, WaitInv
<1>2. QED
  BY <1>1, HistoryInvariance, PTL DEF HSpec, WorkConserving

\* No process that a CPU dispatched in a slot has a worse priority than one that
\* was ready when the slot began and still is when it ends (get_mlq_proc).
THEOREM PriorityFirstHolds == HSpec => PriorityFirst
<1>1. HInv /\ [HNext]_hvars =>
        [Clock!Tick =>
           \A c \in Cpus, p \in waiting :
             proc[c] # NULL /\ time_left[c] = time_slot - 1
               => work[proc[c]].prio <= work[p].prio]_hvars
  <2> SUFFICES ASSUME HInv, HNext, Clock!Tick, NEW c \in Cpus, NEW p \in waiting,
                      proc[c] # NULL, time_left[c] = time_slot - 1
               PROVE  work[proc[c]].prio <= work[p].prio
    BY DEF HInv
  <2>1. cpc[c] = "top" /\ c \in arrived
    BY TickStep DEF HInv, HNext
  <2>2. QED
    BY <2>1 DEF HInv, FirstInv, Fresh
<1>2. QED
  BY <1>1, HistoryInvariance, PTL DEF HSpec, PriorityFirst

\* The levels are served round robin: while a process waits, every other process of
\* its level is dispatched at most once, on whatever CPU.
THEOREM FairTurnsHolds == HSpec => FairTurns
<1>1. HInv /\ [HNext]_hvars =>
        [\A p \in Queued \intersect Queued', q \in Taken :
           work[p].prio = work[q].prio => q \notin passed[p]]_hvars
  <2> SUFFICES ASSUME HInv, HNext, NEW p \in Queued, NEW q \in Taken,
                      work[p].prio = work[q].prio, q \in passed[p]
               PROVE  FALSE
    BY DEF HInv
  <2>0. /\ IInv /\ IInv' /\ TypeOK /\ CpuInv /\ QueueInv /\ TurnInv /\ Next
        /\ mlq \in [Prios -> Seq(Procs)]
    BY NextIInv DEF HInv, HNext, IInv, TypeOK
  <2>1. PICK c \in Cpus : TakeFirst(c) \/ TakeNext(c)
    BY <2>0, NextKinds, KeptTaken, AddedTaken
  <2>2. /\ proc[c] = NULL /\ mlq' = Dequeued
        /\ proc' = [proc EXCEPT ![c] = NextProc]
    BY <2>0, <2>1 DEF TakeFirst, TakeNext, CpuInv
  <2>3. Waiting # {}
    BY <2>2, KeptTaken DEF Dequeued
  <2>4. q = NextProc /\ work[q].prio = TopPrio
    BY <2>0, <2>2, <2>3, TakeTaken
  <2>5. PICK t \in Prios : t = TopPrio
    BY <2>0, <2>3, DequeueEffect
  <2>6. 1 \in 1..Len(mlq[t]) /\ q = mlq[t][1]
    BY <2>0, <2>3, <2>4, <2>5, DequeueEffect, LenProperties
  <2>7. PICK m \in 1..Len(mlq[t]) : mlq[t][m] = p
    BY <2>0, <2>4, <2>5, QueuedFacts DEF QueueInv
  <2>8. m < 1
    BY <2>0, <2>6, <2>7 DEF TurnInv
  <2>9. QED
    BY <2>8
<1>2. QED
  BY <1>1, HistoryInvariance, PTL DEF HSpec, FairTurns

\* A process is preempted exactly when it has executed a whole quantum since it was
\* dispatched, on whatever CPU and after whatever process, and never executes more;
\* a quantum of 0 preempts nobody.
THEOREM FullQuantumHolds == HSpec => FullQuantum
<1>1. HInv => [\A c \in Cpus : Yield(c) => turn[proc[c]] = time_slot /\ time_slot # 0]_hvars
  <2> SUFFICES ASSUME HInv, NEW c \in Cpus, Yield(c)
               PROVE  turn[proc[c]] = time_slot /\ time_slot # 0
    OBVIOUS
  <2>1. turn[proc[c]] >= 1 /\ time_left[c] = time_slot - turn[proc[c]]
    BY DEF HInv, QuantumInv, QuantumOf, Yield
  <2>2. time_left[c] = 0 /\ time_slot \in Nat /\ turn[proc[c]] \in Int
    BY OsAssumption DEF HInv, IInv, TypeOK, RunInv, QuantumInv, Yield, Procs
  <2>3. QED
    BY <2>1, <2>2
<1>2. HInv => (time_slot # 0 => \A p \in Procs : turn[p] <= time_slot)
  BY DEF HInv, QuantumInv
<1>3. QED
  BY <1>1, <1>2, HistoryInvariance, PTL DEF HSpec, FullQuantum

=================================================================================
