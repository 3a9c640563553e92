------------------------------- MODULE OsHistory -------------------------------
(***************************************************************************)
(* Os.tla with history variables that remember what the scheduler has done *)
(* over several slots, for properties of its policy.  They only record:    *)
(* no step of Os is restricted.                                            *)
(***************************************************************************)
EXTENDS Os

VARIABLES waiting,   \* the processes queued since the current slot began
          passed,    \* process: the ones of its level dispatched while it waits
          turn,      \* process: instructions executed since its last dispatch
          streak     \* level: dispatches in a row while a later level waits

historyVars == <<waiting, passed, turn, streak>>
hvars == <<vars, historyVars>>

Taken == Queued \ Queued'

MinOf(a, b) == IF a <= b THEN a ELSE b

\* the levels after x that hold a process when the step is over
LaterWaits(x) == \E y \in Prios : y > x /\ mlq'[y] # <<>>

HInit ==
  /\ Init
  /\ waiting = {}
  /\ passed = [p \in Procs |-> {}]
  /\ turn = [p \in Procs |-> 0]
  /\ streak = [x \in Prios |-> 0]

Record ==
  /\ waiting' = IF Clock!Tick THEN Queued ELSE waiting \ Taken
  /\ passed' = [p \in Procs |->
       IF p \in Queued
         THEN passed[p] \union {q \in Taken : work[q].prio = work[p].prio}
         ELSE {}]
  /\ turn' = [p \in Procs |->
       IF p \in Taken THEN 0 ELSE turn[p] + (pc'[p] - pc[p])]
  /\ streak' = IF Taken = {}
       THEN streak
       ELSE [x \in Prios |->
              IF LaterWaits(x) /\ \E p \in Taken : work[p].prio = x
                THEN MinOf(streak[x] + 1, MaxPrio + 1)
                ELSE 0]

HNext == Next /\ Record

HSpec == HInit /\ [][HNext]_hvars

HFairSpec == HSpec /\ Fairness

--------------------------------------------------------------------------------
(* Properties.                                                             *)

\* A CPU that skips a slot leaves no process behind that was ready when the slot
\* began: the idle and the stop paths of cpu_routine never miss work.
WorkConserving ==
  [][Clock!Tick /\ (\E c \in Cpus \ gone : proc[c] = NULL) => waiting = {}]_hvars

\* No process that a CPU dispatched in this slot has a worse priority than one
\* that was ready when the slot began and still is when it ends.
PriorityFirst ==
  [][Clock!Tick =>
       \A c \in Cpus, p \in waiting :
         proc[c] # NULL /\ time_left[c] = time_slot - 1
           => work[proc[c]].prio <= work[p].prio]_hvars

\* While a process waits, every other process of its level is dispatched at most
\* once: the levels are served round robin.
FairTurns ==
  [][\A p \in Queued \intersect Queued', q \in Taken :
       work[p].prio = work[q].prio => q \notin passed[p]]_hvars

\* A process is preempted exactly when it has executed time_slot instructions
\* since it was dispatched, on whatever CPU and after whatever process.  A quantum
\* of 0, which read_config lets through, preempts nobody: time_left is
\* decremented before it is tested.
FullQuantum ==
  /\ [][\A c \in Cpus : Yield(c) => turn[proc[c]] = time_slot /\ time_slot # 0]_hvars
  /\ [](time_slot # 0 => \A p \in Procs : turn[p] <= time_slot)

\* The policy stated above get_mlq_proc ("curr_slot = 0..(MAX_PRIO - prio)"): a
\* level is served at most MAX_PRIO - prio times in a row while a later one waits.
SlotBudget == \A x \in Prios : streak[x] <= MaxPrio - x
================================================================================
