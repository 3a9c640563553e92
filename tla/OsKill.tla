--------------------------------- MODULE OsKill ---------------------------------
(***************************************************************************)
(* Os with the system call killall (sys_killall.c), which one instruction  *)
(* of one process, Killer, executes.  It walks running_list and then every *)
(* ready queue, takes each process with the given name out and releases    *)
(* its memory, all without queue_lock.                                     *)
(*                                                                         *)
(* A step of the walk is one turn of a loop: the test of the size with the *)
(* element it lets through, one assignment of the shift, the decrement.    *)
(* The sections of other threads under queue_lock are single steps, so     *)
(* that these are some of the interleavings of the code, not all.          *)
(*                                                                         *)
(* The names are a set: the processes whose path equals the string that    *)
(* the caller's memory holds.  How often free_pcb_memph runs is counted by *)
(* the walk; what it does to frames is PagingKill's.                       *)
(***************************************************************************)
EXTENDS Os

CONSTANTS Killer,        \* the process whose program calls killall
          KillAt,        \* its instruction that does, counted from 1
          NameSets       \* the choices for the processes that have the name

ASSUME OsKillAssumption ==
  /\ Killer \in Procs /\ KillAt \in Nat \ {0} /\ NameSets \subseteq SUBSET Procs

VARIABLES named,         \* the processes with the name
          marked,        \* the processes whose pid has been set to 0
          walk,          \* per CPU, the walk it is in, or NoWalk
          sane           \* no queue has been given a negative size

killVars == <<named, marked, walk, sane>>
kvars    == <<vars, killVars>>

\* running_list and the ready queues, in the order of the walk
Lists   == 0..MaxPrio
List(l) == IF l = 0 THEN running_list ELSE mlq[l - 1]

NoWalk == [list |-> 0, i |-> 0, shift |-> 0, count |-> 0, before |-> <<>>]

KTypeOK ==
  /\ TypeOK
  /\ named \in NameSets /\ marked \subseteq Procs /\ sane \in BOOLEAN
  /\ \A c \in Cpus : walk[c] # NoWalk =>
       /\ walk[c].list \in 0..(MaxPrio + 1) /\ walk[c].i \in 1..(MaxQueueSize + 1)
       /\ walk[c].shift \in 0..MaxQueueSize /\ walk[c].count \in Nat
       /\ cpc[c] = "run" /\ proc[c] = Killer /\ pc[Killer] >= KillAt

KInit ==
  /\ Init
  /\ named \in NameSets /\ marked = {} /\ sane = TRUE
  /\ walk = [c \in Cpus |-> NoWalk]

--------------------------------------------------------------------------------
(* Faulty variants of definitions below, one plausible slip each.          *)

\* the index is not moved back after a removal
RemovedSkipping(w) == [w EXCEPT !.shift = 0, !.i = @ + 1]

\* the index is moved back twice
RemovedTwice(w) == [w EXCEPT !.shift = 0, !.i = @ - 1]

\* the shift copies in the other direction
ShiftedUp(q, j) == [q EXCEPT ![j + 1] = q[j]]

\* the walk leaves the last level out
WalkedButLast(w) == w.list >= MaxPrio

\* two places are taken off the end
SizeMinusTwo(q) == SubSeq(q, 1, Len(q) - 2)

--------------------------------------------------------------------------------
\* the next thing CPU c does is to run the instruction syscall 101
CallsKillall(c) ==
  /\ cpc[c] \in {"top", "run"} /\ proc[c] = Killer
  /\ pc[Killer] = KillAt - 1 /\ KillAt <= work[Killer].size
  /\ cpc[c] = "top" => time_left[c] # 0

\* run advances the program counter; __sys_killall has read the name
StartWalk(c) ==
  /\ CallsKillall(c) /\ walk[c] = NoWalk /\ Clock!Working(c)
  /\ pc' = [pc EXCEPT ![Killer] = @ + 1]
  /\ cpc' = [cpc EXCEPT ![c] = "run"]
  /\ walk' = [walk EXCEPT ![c] = [NoWalk EXCEPT !.i = 1,
                                    !.before = [l \in Lists |-> List(l)]]]
  /\ UNCHANGED <<configVars, clockVars, queueVars, loaderVars, proc, time_left, pcb,
                 named, marked, sane>>

\* strcmp of the path; that of a freed PCB may have become any string
Matches(p) == p \in named \/ pcb[p] = "freed"
Differs(p) == p \notin named \/ pcb[p] = "freed"

Walking(c) == walk[c] # NoWalk
Walked(w)  == w.list > MaxPrio

\* the loop test fails: on to the next list
NextList(w) == [w EXCEPT !.list = @ + 1, !.i = 1]

EndOfList(c) ==
  /\ Walking(c) /\ ~Walked(walk[c]) /\ walk[c].shift = 0
  /\ walk[c].i > Len(List(walk[c].list))
  /\ walk' = [walk EXCEPT ![c] = NextList(@)]
  /\ UNCHANGED <<vars, named, marked, sane>>

\* a process that has another name
Pass(c) ==
  /\ Walking(c) /\ ~Walked(walk[c]) /\ walk[c].shift = 0
  /\ LET w == walk[c]
     IN  w.i <= Len(List(w.list)) /\ Differs(List(w.list)[w.i])
  /\ walk' = [walk EXCEPT ![c].i = @ + 1]
  /\ UNCHANGED <<vars, named, marked, sane>>

\* a process that has the name: release its memory, mark and count it
Hit(c) ==
  /\ Walking(c) /\ ~Walked(walk[c]) /\ walk[c].shift = 0
  /\ LET w == walk[c]
     IN  /\ w.i <= Len(List(w.list)) /\ Matches(List(w.list)[w.i])
         /\ marked' = marked \union {List(w.list)[w.i]}
         /\ walk' = [walk EXCEPT ![c].shift = w.i, ![c].count = @ + 1]
  /\ UNCHANGED <<vars, named, sane>>

SetList(l, q) ==
  IF l = 0 THEN running_list' = q /\ UNCHANGED mlq
           ELSE mlq' = [mlq EXCEPT ![l - 1] = q] /\ UNCHANGED running_list

\* one turn of the loop that moves the rest of the list up by one
Shifted(q, j) == [q EXCEPT ![j] = q[j + 1]]

Shift(c) ==
  /\ Walking(c) /\ walk[c].shift # 0
  /\ LET l == walk[c].list
         j == walk[c].shift
     IN  j < Len(List(l)) /\ SetList(l, Shifted(List(l), j))
  /\ walk' = [walk EXCEPT ![c].shift = @ + 1]
  /\ UNCHANGED <<configVars, clockVars, loaderVars, cpuVars, pcb, pc, named, marked, sane>>

\* size-- and i--
Shrunk(q)  == SubSeq(q, 1, Len(q) - 1)
Removed(w) == [w EXCEPT !.shift = 0]

Shrink(c) ==
  /\ Walking(c) /\ walk[c].shift # 0
  /\ LET l == walk[c].list
     IN  /\ walk[c].shift >= Len(List(l))
         /\ IF List(l) = <<>> THEN UNCHANGED queueVars
                              ELSE SetList(l, Shrunk(List(l)))
         /\ sane' = (sane /\ List(l) # <<>>)
  /\ walk' = [walk EXCEPT ![c] = Removed(@)]
  /\ UNCHANGED <<configVars, clockVars, loaderVars, cpuVars, pcb, pc, named, marked>>

\* killall returns count, which nobody looks at; the slot ends
EndWalk(c) ==
  /\ Walking(c) /\ Walked(walk[c])
  /\ walk' = [walk EXCEPT ![c] = NoWalk]
  /\ time_left' = [time_left EXCEPT ![c] = (IF @ = 0 THEN time_slot ELSE @) - 1]
  /\ cpc' = [cpc EXCEPT ![c] = "top"]
  /\ Clock!Arrive(c)
  /\ UNCHANGED <<configVars, queueVars, loaderVars, proc, pcb, pc, named, marked, sane>>

KCpuStep(c) ==
  \/ CpuStep(c) /\ ~CallsKillall(c) /\ ~Walking(c) /\ UNCHANGED killVars
  \/ StartWalk(c) \/ EndOfList(c) \/ Pass(c) \/ Hit(c) \/ Shift(c) \/ Shrink(c)
  \/ EndWalk(c)

\* a queue of size -1 is the end of what the model describes
KNext ==
  /\ sane
  /\ \/ (LoaderStep \/ TimerStep \/ Terminated) /\ UNCHANGED killVars
     \/ \E c \in Cpus : KCpuStep(c)

KSpec == KInit /\ [][KNext]_kvars

\* the threads of Os, scheduled as there
KFairness ==
  /\ WF_kvars(LoaderStep /\ UNCHANGED killVars)
  /\ \A c \in Cpus : WF_kvars(KCpuStep(c))
  /\ WF_kvars(TimerStep /\ UNCHANGED killVars)

KFairSpec == KSpec /\ KFairness

--------------------------------------------------------------------------------
(* Properties.                                                             *)

Live(p) == pcb[p] = "live"

\* A walk takes the processes with the name out of every list, all of them and no
\* others, and leaves the rest in their order: "terminating all processes with
\* given name" (sys_killall.c).  Removal goes by shifting, inside the loop that
\* runs over the same array.
KillIsExact ==
  [][\A c \in Cpus : Walking(c) /\ walk'[c] = NoWalk =>
       \A l \in Lists :
         SelectSeq(List(l), Live) =
           SelectSeq(walk[c].before[l], LAMBDA p : Live(p) /\ p \notin named)]_kvars

\* A process that was "marked as terminated" (sys_killall.c) executes nothing more.
KilledStops == [][\A p \in marked : pc'[p] = pc[p]]_kvars

\* Between walks, every live process that has not been killed is in one place,
\* the loader's hands, a CPU or a ready queue: "terminating all processes with
\* given name" (sys_killall.c) loses and duplicates none of the others.
OthersKept ==
  (\A c \in Cpus : walk[c] = NoWalk) =>
    /\ OneOwner
    /\ {p \in Procs : Live(p)} \ marked
         = (Queued \union Running \union WithLoader) \ marked

\* The other processes still run to their end.
OthersEnd == \A p \in Procs : <>(pcb[p] = "freed" \/ p \in named)

\* killall returns "the number of processes terminated" (sys_killall.c).
CountIsProcesses ==
  [][\A c \in Cpus : Walking(c) /\ walk'[c] = NoWalk =>
       walk[c].count = Cardinality(marked)]_kvars
================================================================================
