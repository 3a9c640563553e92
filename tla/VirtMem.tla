-------------------------------- MODULE VirtMem --------------------------------
(***************************************************************************)
(* What libmem.c promises to a program: every allocated region is private  *)
(* memory, a read returns what was last written there, and no operation    *)
(* changes any other cell.  A fresh region has the size that was asked for *)
(* and may hold anything.                                                  *)
(*                                                                         *)
(* A region is provided only in answer to an alloc of it that is pending,  *)
(* and a read or write is recorded in last: a cell can change in no other  *)
(* step than the answer to an alloc of its region or a write to itself,    *)
(* and a write that does not arrive there is no step at all.               *)
(*                                                                         *)
(* Paging.tla implements this module as long as all pages fit in RAM.      *)
(***************************************************************************)
EXTENDS Naturals, Sequences

CONSTANTS Procs, Regions, Values,
          Sizes    \* how many cells an alloc may ask for

VARIABLES mem,     \* process, region: the sequence of its cells
          pending, \* the alloc to be answered: <<process, region, size>>, or <<>>
          last     \* the last read or write since an alloc was answered:
                   \* <<"read" or "write", process, region, cell, value>>, or <<>>

memVars == <<mem, pending, last>>

MemInit ==
  /\ mem = [p \in Procs |-> [r \in Regions |-> <<>>]]
  /\ pending = <<>> /\ last = <<>>

Ask(p, r, n) ==
  /\ pending = <<>> /\ pending' = <<p, r, n>>
  /\ UNCHANGED <<mem, last>>

Provide(p, r, n) ==
  /\ pending = <<p, r, n>> /\ pending' = <<>>
  /\ \E cells \in [1..n -> Values] : mem' = [mem EXCEPT ![p][r] = cells]
  /\ last' = <<>>

\* a process that waits for its alloc does nothing else
Waits(p) == \E r \in Regions, n \in Sizes : pending = <<p, r, n>>

Put(p, r, k, v) ==
  /\ ~Waits(p) /\ k \in DOMAIN mem[p][r]
  /\ mem' = [mem EXCEPT ![p][r][k] = v]
  /\ last' = <<"write", p, r, k, v>>
  /\ UNCHANGED pending

Get(p, r, k) ==
  /\ ~Waits(p) /\ k \in DOMAIN mem[p][r]
  /\ last' = <<"read", p, r, k, mem[p][r][k]>>
  /\ UNCHANGED <<mem, pending>>

MemNext ==
  \E p \in Procs, r \in Regions :
    \/ \E n \in Sizes : Ask(p, r, n) \/ Provide(p, r, n)
    \/ \E k \in DOMAIN mem[p][r] : Get(p, r, k) \/ \E v \in Values : Put(p, r, k, v)

MemSpec == MemInit /\ [][MemNext]_memVars
================================================================================
