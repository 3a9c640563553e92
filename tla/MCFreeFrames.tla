------------------------------ MODULE MCFreeFrames ------------------------------
(* Crews for model checking FreeFrames.tla.                                *)
EXTENDS FreeFrames

Crew(all, faulting, giving_back) ==
  [members |-> all, faulters |-> faulting, givers |-> giving_back]

Someone == CHOOSE u \in Callers : TRUE

\* allocs only, all under mmvm_lock
Allocating == {Crew(Callers, {}, {})}

\* one thread that does everything, so that no two calls overlap
Alone == {Crew({Someone}, {Someone}, {Someone})}

Serialised == Allocating \union Alone

\* one thread that comes without the lock beside others that hold it
Faulting == {Crew(Callers, {Someone}, {})}
Giving   == {Crew(Callers, {}, {Someone})}
================================================================================
