------------------------------ MODULE ProcessLife ------------------------------
(***************************************************************************)
(* What the scheduler promises to a simulated process: once admitted it is *)
(* ready or runs on one of the CPUs until it has executed all of its       *)
(* instructions, in order and each exactly once, and only then it ends.    *)
(*                                                                         *)
(* Os.tla implements this module as long as no ready queue overflows.      *)
(***************************************************************************)
EXTENDS Naturals, FiniteSets

CONSTANTS Procs,    \* the processes
          NumCpus   \* how many of them can run at a time

VARIABLES length,   \* number of instructions of each process
          stage,    \* "new", "ready", "running", "finished"
          executed  \* number of instructions executed by each process

lifeVars == <<length, stage, executed>>

LifeInit ==
  /\ stage = [p \in Procs |-> "new"]
  /\ executed = [p \in Procs |-> 0]

Move(p, from, to) ==
  /\ stage[p] = from
  /\ stage' = [stage EXCEPT ![p] = to]
  /\ UNCHANGED <<length, executed>>

Admit(p) == Move(p, "new", "ready")

Dispatch(p) ==
  /\ Cardinality({q \in Procs : stage[q] = "running"}) < NumCpus
  /\ Move(p, "ready", "running")

Preempt(p) == executed[p] < length[p] /\ Move(p, "running", "ready")

End(p) == executed[p] = length[p] /\ Move(p, "running", "finished")

Execute(p) ==
  /\ stage[p] = "running" /\ executed[p] < length[p]
  /\ executed' = [executed EXCEPT ![p] = @ + 1]
  /\ UNCHANGED <<length, stage>>

LifeNext ==
  \E p \in Procs :
    Admit(p) \/ Dispatch(p) \/ Preempt(p) \/ End(p) \/ Execute(p)

LifeSpec == LifeInit /\ [][LifeNext]_lifeVars
================================================================================
