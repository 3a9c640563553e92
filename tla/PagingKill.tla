------------------------------- MODULE PagingKill -------------------------------
(***************************************************************************)
(* Paging with free_pcb_memph (libmem.c), which killall calls for every    *)
(* process it terminates.  One step stands for the whole loop over the     *)
(* page table; its single calls of MEMPHY_put_freefp, which take no lock,  *)
(* are FreeFrames'.  The page table of the process stays as it is.         *)
(***************************************************************************)
EXTENDS Paging

VARIABLE killed          \* the processes whose memory has been released

kvars == <<vars, killed>>

KInit == Init /\ killed = {}

\* the entries of some pages, in the order in which MEMPHY_put_freefp leaves what it
\* puts in front of a list, one page after the other
PutOrder(p, pages) ==
  LET order == Reverse(SetToSortSeq(pages, <))
  IN  [k \in DOMAIN order |-> pgd[p][order[k]]]

\* The frame number of every page that is not present goes to RAM, and that of a
\* page never mapped is 0; the swap frame number of every other page goes to the
\* active device, also if the page is in RAM and has none.
FreePcbMemph(p) ==
  /\ p \notin killed
  /\ LET present == {n \in Pages : pgd[p][n].present}
         inRam   == PutOrder(p, present)
         others  == PutOrder(p, Pages \ present)
     IN  /\ ram_free' = [k \in DOMAIN others |-> Fpn(others[k])] \o ram_free
         /\ swap_free' = [swap_free EXCEPT ![0] =
                             [k \in DOMAIN inRam |-> Swp(inRam[k])] \o @]
  /\ killed' = killed \union {p}
  /\ UNCHANGED <<ram, swap, mmVars, req, last, stat, defined>>

KNext ==
  \/ Next /\ UNCHANGED killed
  \/ \E p \in Procs : FreePcbMemph(p)

KSpec == KInit /\ [][KNext]_kvars

\* "Free memory resources" (sys_killall.c) of a killed process does nothing to
\* the others: no two of their pages share a RAM frame.
SurvivorsSeparate ==
  defined => \A d, e \in {x \in OnlinePages : x[1] \notin killed} :
               FrameOf(d) = FrameOf(e) => d = e

\* "Free memory resources" (sys_killall.c) of a killed process leaves those in use
\* by others alone: no swap frame of a survivor's page is on a free list.
SurvivorsKeepSlots ==
  defined => \A e \in {x \in SwappedPages : x[1] \notin killed} :
               SlotOf(e)[2] \notin ToSet(swap_free[SlotOf(e)[1]])
================================================================================
