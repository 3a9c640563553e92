----------------------------------- MODULE Os -----------------------------------
(***************************************************************************)
(* The simulated machine of src/os.c and src/sched.c: the CPU threads      *)
(* (cpu_routine), the loader thread (ld_routine), the multi-level ready    *)
(* queue they share (queue.c, sched.c) and the slot clock that keeps them  *)
(* in step (SlotClock, implemented by Timer).                              *)
(*                                                                         *)
(* A step of a thread ends at the next access to something shared: a       *)
(* section under queue_lock, the flag done, or run().  next_slot and       *)
(* detach_event are merged into the step they follow: an arrival only      *)
(* enables the clock's tick, so nothing can tell the two apart.  Between   *)
(* next_slot and the tick the thread is blocked.                           *)
(*                                                                         *)
(* What read_config and load read from the files is chosen at the start:   *)
(* the quantum, and a workload, the priority, the start time and the       *)
(* number of instructions of each process in the order of the file.        *)
(***************************************************************************)
EXTENDS Integers, Sequences, FiniteSets

CONSTANTS Cpus,            \* the CPU threads
          Loader,          \* the loader thread
          NumProcs,        \* the largest num_processes considered
          Workloads,       \* the workloads considered
          TimeSlots,       \* the quanta considered
          MaxPrio,         \* MAX_PRIO, the number of priority levels
          MaxQueueSize,    \* MAX_QUEUE_SIZE
          Horizon          \* bound of this model: the clock saturates here

Procs   == 1..NumProcs
Prios   == 0..(MaxPrio - 1)
NULL    == 0
Devices == Cpus \union {Loader}

ASSUME OsAssumption ==
  /\ Loader \notin Cpus
  /\ NumProcs \in Nat /\ TimeSlots \subseteq Nat
  /\ MaxPrio \in Nat \ {0} /\ MaxQueueSize \in Nat /\ Horizon \in Nat
  /\ Workloads \subseteq Seq([prio : Prios, start : 0..Horizon, size : Nat])
  /\ \A w \in Workloads : Len(w) <= NumProcs

VARIABLES work,                          \* the workload of this execution
          time_slot,                     \* its quantum
          now, arrived, gone, ticking,   \* the slot clock
          mlq,           \* mlq_ready_queue: a queue for each priority
          running_list,  \* every process ever added or put back
          done,          \* set by the loader after the last process
          i,             \* the loader's process index
          ldpc,          \* loader: "load", "await", "add", "gone"
          pcb,           \* process: "none", "live", "freed"
          pc,            \* instructions executed by each process
          cpc,           \* CPU: "top", "put", "get", "check", "run", "gone"
          proc,          \* the process of each CPU, or NULL
          time_left      \* what is left of its quantum

configVars == <<work, time_slot>>
clockVars  == <<now, arrived, gone, ticking>>
queueVars  == <<mlq, running_list>>
loaderVars == <<done, i, ldpc>>
cpuVars    == <<cpc, proc, time_left>>
vars == <<configVars, clockVars, queueVars, loaderVars, cpuVars, pcb, pc>>

Clock == INSTANCE SlotClock

TypeOK ==
  /\ work \in Workloads /\ time_slot \in TimeSlots
  /\ Clock!ClockTypeOK
  /\ mlq \in [Prios -> Seq(Procs)]
  /\ \A x \in Prios : Len(mlq[x]) <= MaxQueueSize
  /\ running_list \in Seq(Procs) /\ Len(running_list) <= MaxQueueSize
  /\ done \in BOOLEAN
  /\ i \in 1..(NumProcs + 1)
  /\ ldpc \in {"load", "await", "add", "gone"}
  /\ pcb \in [Procs -> {"none", "live", "freed"}]
  /\ pc \in [Procs -> Nat] /\ \A p \in DOMAIN work : pc[p] <= work[p].size
  /\ cpc \in [Cpus -> {"top", "put", "get", "check", "run", "gone"}]
  /\ proc \in [Cpus -> Procs \union {NULL}]
  /\ time_left \in [Cpus -> Int] /\ \A c \in Cpus : time_left[c] <= time_slot

Init ==
  /\ work \in Workloads /\ time_slot \in TimeSlots
  /\ Clock!ClockInit
  /\ mlq = [x \in Prios |-> <<>>] /\ running_list = <<>>
  /\ done = FALSE /\ i = 1 /\ ldpc = "load"
  /\ pcb = [p \in Procs |-> "none"] /\ pc = [p \in Procs |-> 0]
  /\ cpc = [c \in Cpus |-> "top"]
  /\ proc = [c \in Cpus |-> NULL]
  /\ time_left = [c \in Cpus |-> 0]

--------------------------------------------------------------------------------
(* Faulty variants of definitions below, one plausible slip each; they are *)
(* not part of Next.                                                       *)

\* enqueue refuses the last place of a queue
EnqueueOffByOne(q, p) == IF Len(q) >= MaxQueueSize - 1 THEN q ELSE Append(q, p)

\* a process goes to the front of its queue
ReadyFirst(p) == [mlq EXCEPT ![work[p].prio] = <<p>> \o @]

\* get_mlq_proc stops its scan one level early
WaitingButLast == {x \in Prios : x + 1 < MaxPrio /\ mlq[x] # <<>>}

\* get_mlq_proc scans the levels from the last one
BottomPrio ==
  LET nonEmpty == {x \in Prios : mlq[x] # <<>>}
  IN  CHOOSE x \in nonEmpty : \A y \in nonEmpty : x >= y

\* get_mlq_proc reads the head of the queue but leaves it there
PeekOnly == mlq

\* the loader does not wait for the start time itself, only for the slot before
AddListEarly ==
  /\ ldpc = "await" /\ Clock!Working(Loader) /\ now + 1 >= work[i].start
  /\ running_list' = IF Len(running_list) >= MaxQueueSize
                       THEN running_list ELSE Append(running_list, i)
  /\ ldpc' = "add"
  /\ UNCHANGED <<configVars, clockVars, mlq, done, i, cpuVars, pcb, pc>>

\* the loader goes on after the last process without a next_slot in between
AddReadyThenGo ==
  /\ ldpc = "add" /\ Clock!Working(Loader)
  /\ mlq' = [mlq EXCEPT ![work[i].prio] = Append(@, i)]
  /\ i' = i + 1 /\ ldpc' = "load"
  /\ UNCHANGED <<configVars, clockVars, running_list, done, cpuVars, pcb, pc>>

\* a finished process leaves the rest of its quantum to the next one
FinishKeepingQuantum(c) ==
  /\ cpc[c] = "top" /\ Clock!Working(c) /\ proc[c] # NULL
  /\ pc[proc[c]] = work[proc[c]].size
  /\ pcb' = [pcb EXCEPT ![proc[c]] = "freed"]
  /\ proc' = [proc EXCEPT ![c] = NULL]
  /\ cpc' = [cpc EXCEPT ![c] = "get"]
  /\ UNCHANGED <<configVars, clockVars, queueVars, loaderVars, time_left, pc>>

\* a CPU that finds no process skips the slot without testing done
CheckNothing(c) ==
  /\ cpc[c] = "check"
  /\ Clock!Arrive(c)
  /\ cpc' = [cpc EXCEPT ![c] = "top"]
  /\ UNCHANGED <<configVars, queueVars, loaderVars, proc, time_left, pcb, pc>>

\* run does not test for the end of the code
RunUnbounded(c) ==
  /\ \/ cpc[c] = "run"
     \/ /\ cpc[c] = "top" /\ proc[c] # NULL
        /\ pc[proc[c]] # work[proc[c]].size /\ time_left[c] # 0
  /\ pc' = [pc EXCEPT ![proc[c]] = IF @ > work[proc[c]].size THEN @ ELSE @ + 1]
  /\ time_left' = [time_left EXCEPT ![c] = (IF @ = 0 THEN time_slot ELSE @) - 1]
  /\ cpc' = [cpc EXCEPT ![c] = "top"]
  /\ Clock!Arrive(c)
  /\ UNCHANGED <<configVars, queueVars, loaderVars, proc, pcb>>

--------------------------------------------------------------------------------
(* Queues (queue.c, sched.c).                                              *)

\* enqueue: a full queue silently drops the process
Enqueue(q, p) == IF Len(q) >= MaxQueueSize THEN q ELSE Append(q, p)

\* the body of put_mlq_proc and add_mlq_proc
Ready(p) == [mlq EXCEPT ![work[p].prio] = Enqueue(@, p)]

\* get_mlq_proc: the first process of the first level that has one
Waiting  == {x \in Prios : mlq[x] # <<>>}
TopPrio  == CHOOSE x \in Waiting : \A y \in Waiting : x <= y
NextProc == IF Waiting = {} THEN NULL ELSE Head(mlq[TopPrio])
Dequeued == IF Waiting = {} THEN mlq ELSE [mlq EXCEPT ![TopPrio] = Tail(@)]

--------------------------------------------------------------------------------
(* The loader thread.                                                      *)

\* load: read the next process description into a new PCB
Load ==
  /\ ldpc = "load" /\ Clock!Working(Loader) /\ i <= Len(work)
  /\ pcb' = [pcb EXCEPT ![i] = "live"]
  /\ ldpc' = "await"
  /\ UNCHANGED <<configVars, clockVars, queueVars, done, i, cpuVars, pc>>

\* wait, slot by slot, until the process may start
AwaitStart ==
  /\ ldpc = "await" /\ now < work[i].start
  /\ Clock!Arrive(Loader)
  /\ UNCHANGED <<configVars, queueVars, loaderVars, cpuVars, pcb, pc>>

\* add_proc, first section: the process is listed as running
AddList ==
  /\ ldpc = "await" /\ Clock!Working(Loader) /\ now >= work[i].start
  /\ running_list' = Enqueue(running_list, i)
  /\ ldpc' = "add"
  /\ UNCHANGED <<configVars, clockVars, mlq, done, i, cpuVars, pcb, pc>>

\* add_proc, second section, and next_slot
AddReady ==
  /\ ldpc = "add"
  /\ mlq' = Ready(i)
  /\ i' = i + 1 /\ ldpc' = "load"
  /\ Clock!Arrive(Loader)
  /\ UNCHANGED <<configVars, running_list, done, cpuVars, pcb, pc>>

\* after the last process: set done, detach_event and exit
FinishLoading ==
  /\ ldpc = "load" /\ i > Len(work)
  /\ done' = TRUE /\ ldpc' = "gone"
  /\ Clock!Leave(Loader)
  /\ UNCHANGED <<configVars, queueVars, i, cpuVars, pcb, pc>>

LoaderStep == Load \/ AwaitStart \/ AddList \/ AddReady \/ FinishLoading

--------------------------------------------------------------------------------
(* The CPU threads.  Where the code keeps a pointer that it overwrites     *)
(* before the next use, proc is NULL.                                      *)

\* no process: take one, or skip this slot
TakeFirst(c) ==
  /\ cpc[c] = "top" /\ proc[c] = NULL
  /\ proc' = [proc EXCEPT ![c] = NextProc]
  /\ mlq' = Dequeued
  /\ IF NextProc = NULL
       THEN Clock!Arrive(c) /\ UNCHANGED cpc
       ELSE /\ Clock!Working(c)
            /\ cpc' = [cpc EXCEPT ![c] = "run"]
            /\ UNCHANGED clockVars
  /\ UNCHANGED <<configVars, running_list, loaderVars, time_left, pcb, pc>>

\* the process has executed its last instruction: free it
Finish(c) ==
  /\ cpc[c] = "top" /\ Clock!Working(c) /\ proc[c] # NULL
  /\ pc[proc[c]] = work[proc[c]].size
  /\ pcb' = [pcb EXCEPT ![proc[c]] = "freed"]
  /\ proc' = [proc EXCEPT ![c] = NULL]
  /\ time_left' = [time_left EXCEPT ![c] = 0]
  /\ cpc' = [cpc EXCEPT ![c] = "get"]
  /\ UNCHANGED <<configVars, clockVars, queueVars, loaderVars, pc>>

\* the quantum is over: put_proc, first section
Yield(c) ==
  /\ cpc[c] = "top" /\ Clock!Working(c) /\ proc[c] # NULL
  /\ pc[proc[c]] # work[proc[c]].size /\ time_left[c] = 0
  /\ running_list' = Enqueue(running_list, proc[c])
  /\ cpc' = [cpc EXCEPT ![c] = "put"]
  /\ UNCHANGED <<configVars, clockVars, mlq, loaderVars, proc, time_left, pcb, pc>>

\* put_proc, second section
PutReady(c) ==
  /\ cpc[c] = "put"
  /\ mlq' = Ready(proc[c])
  /\ proc' = [proc EXCEPT ![c] = NULL]
  /\ cpc' = [cpc EXCEPT ![c] = "get"]
  /\ UNCHANGED <<configVars, clockVars, running_list, loaderVars, time_left, pcb, pc>>

\* get_proc after a process has finished or has been put back
TakeNext(c) ==
  /\ cpc[c] = "get"
  /\ proc' = [proc EXCEPT ![c] = NextProc]
  /\ mlq' = Dequeued
  /\ cpc' = [cpc EXCEPT ![c] = IF NextProc = NULL THEN "check" ELSE "run"]
  /\ UNCHANGED <<configVars, clockVars, running_list, loaderVars, time_left, pcb, pc>>

\* no process was left: stop if the loader is done, or else skip this slot
Check(c) ==
  /\ cpc[c] = "check"
  /\ IF done
       THEN Clock!Leave(c) /\ cpc' = [cpc EXCEPT ![c] = "gone"]
       ELSE Clock!Arrive(c) /\ cpc' = [cpc EXCEPT ![c] = "top"]
  /\ UNCHANGED <<configVars, queueVars, loaderVars, proc, time_left, pcb, pc>>

\* dispatch if a new quantum starts, run one instruction and end the slot; an
\* empty program has none to run, and with a quantum of 0 time_left goes below 0
Run(c) ==
  /\ \/ cpc[c] = "run"
     \/ /\ cpc[c] = "top" /\ proc[c] # NULL
        /\ pc[proc[c]] # work[proc[c]].size /\ time_left[c] # 0
  /\ pc' = [pc EXCEPT ![proc[c]] = IF @ >= work[proc[c]].size THEN @ ELSE @ + 1]
  /\ time_left' = [time_left EXCEPT ![c] = (IF @ = 0 THEN time_slot ELSE @) - 1]
  /\ cpc' = [cpc EXCEPT ![c] = "top"]
  /\ Clock!Arrive(c)
  /\ UNCHANGED <<configVars, queueVars, loaderVars, proc, pcb>>

CpuStep(c) ==
  \/ TakeFirst(c) \/ Finish(c) \/ Yield(c) \/ PutReady(c) \/ TakeNext(c)
  \/ Check(c) \/ Run(c)

--------------------------------------------------------------------------------
TimerStep ==
  /\ Clock!Tick \/ Clock!Halt
  /\ UNCHANGED <<configVars, queueVars, loaderVars, cpuVars, pcb, pc>>

\* every thread has been joined
Terminated == gone = Devices /\ ~ticking /\ UNCHANGED vars

Next ==
  \/ LoaderStep
  \/ \E c \in Cpus : CpuStep(c)
  \/ TimerStep
  \/ Terminated

Spec == Init /\ [][Next]_vars

\* every thread keeps being scheduled, and the timer implements the fair clock
Fairness ==
  /\ WF_vars(LoaderStep)
  /\ \A c \in Cpus : WF_vars(CpuStep(c))
  /\ WF_vars(TimerStep)

FairSpec == Spec /\ Fairness

--------------------------------------------------------------------------------
(* Properties.                                                             *)

QueueSlots  == UNION {{x} \X (1..Len(mlq[x])) : x \in Prios}
Queued      == {mlq[s[1]][s[2]] : s \in QueueSlots}
Running     == {proc[c] : c \in Cpus} \ {NULL}
WithLoader  == IF ldpc \in {"await", "add"} THEN {i} ELSE {}

\* No process is in two places: on two CPUs, twice in the ready queues, on a CPU
\* and in a queue, or there while the loader still prepares it.  The CPUs pass
\* processes on through get_proc and put_proc with the lock released in between.
OneOwner ==
  /\ \A c, d \in Cpus : proc[c] = proc[d] => c = d \/ proc[c] = NULL
  /\ \A s, t \in QueueSlots : mlq[s[1]][s[2]] = mlq[t[1]][t[2]] => s = t
  /\ Queued \intersect Running = {}
  /\ WithLoader \intersect (Queued \union Running) = {}

\* A process that is not finished is always somewhere it can be run from, and a
\* freed one nowhere (free(proc), os.c): nothing is lost and nothing is used
\* after it was freed.
NoneLost ==
  {p \in Procs : pcb[p] = "live"} = Queued \union Running \union WithLoader

\* When the last CPU stops, every process has been run to its end: the test of
\* done in cpu_routine cannot overtake an add_proc of the loader.
NoneAbandoned ==
  (\A c \in Cpus : cpc[c] = "gone") => \A p \in DOMAIN work : pcb[p] = "freed"

\* No process executes an instruction before its start time (ld_routine).
NotBeforeStart ==
  [][\A p \in Procs : pc'[p] # pc[p] => now >= work[p].start]_vars

\* Every process of the configuration is eventually run to its end.
EveryProcessEnds ==
  \A p \in Procs : <>(pcb[p] = "freed" \/ p \notin DOMAIN work)

\* A CPU that has a process when the loader is done will stop.
BusyCpuStops == \A c \in Cpus : (done /\ proc[c] # NULL) ~> cpc[c] = "gone"

\* The list that sys_killall walks to "find and terminate processes in the running
\* list" names no process that has already been freed.
ListedLive ==
  \A n \in 1..Len(running_list) : pcb[running_list[n]] # "freed"

\* All threads stop, as main expects: it joins them ("Wait for CPU and loader
\* finishing", os.c).
AllStop == <>(gone = Devices)

Stage(p) ==
  CASE pcb[p] = "freed" -> "finished"
    [] p \in Running    -> "running"
    [] p \in Queued     -> "ready"
    [] OTHER            -> "new"

Life == INSTANCE ProcessLife
          WITH NumCpus  <- Cardinality(Cpus),
               length   <- [p \in Procs |-> IF p \in DOMAIN work THEN work[p].size ELSE 0],
               stage    <- [p \in Procs |-> Stage(p)],
               executed <- pc

\* The scheduler keeps its promise to the processes.
ImplementsProcessLife == Life!LifeSpec
================================================================================
