-------------------------------- MODULE FramePool --------------------------------
(***************************************************************************)
(* What a memory device promises to those who take frames from it and give *)
(* them back (MEMPHY_get_freefp, MEMPHY_put_freefp): every frame is free   *)
(* or held by one of them, and a call is refused only if none is free.     *)
(***************************************************************************)
EXTENDS Naturals

CONSTANTS Callers, Frames

VARIABLES free,       \* the free frames
          holding,    \* the frames each caller holds
          refused     \* whether its last call got none

poolVars == <<free, holding, refused>>

PoolInit ==
  /\ free = Frames
  /\ holding = [u \in Callers |-> {}]
  /\ refused = [u \in Callers |-> FALSE]

Take(u) ==
  \E f \in free :
    /\ free' = free \ {f}
    /\ holding' = [holding EXCEPT ![u] = @ \union {f}]
    /\ refused' = [refused EXCEPT ![u] = FALSE]

Refuse(u) ==
  /\ free = {}
  /\ refused' = [refused EXCEPT ![u] = TRUE]
  /\ UNCHANGED <<free, holding>>

Give(u) ==
  \E f \in holding[u] :
    /\ free' = free \union {f}
    /\ holding' = [holding EXCEPT ![u] = @ \ {f}]
    /\ UNCHANGED refused

PoolNext == \E u \in Callers : Take(u) \/ Refuse(u) \/ Give(u)

PoolSpec == PoolInit /\ [][PoolNext]_poolVars
================================================================================
