------------------------------- MODULE RegionTable -------------------------------
(***************************************************************************)
(* The regions of one process in bytes (libmem.c, mm.c, mm-vm.c): the      *)
(* table symrgtbl that alloc and free work on, the break that alloc moves  *)
(* and the list of free regions that free extends.                         *)
(*                                                                         *)
(* A process runs on one CPU at a time (OneOwner of Os), so its calls      *)
(* follow each other; whether pages get mapped is Paging's.  The list has  *)
(* one node that malloc made (init_mm), and the nodes that __free enters   *)
(* lie in its own stack frame and are gone when it returns.  What an alloc *)
(* then reads from there is any region, and defined is FALSE from then on. *)
(***************************************************************************)
EXTENDS Naturals

CONSTANTS PageSize,      \* PAGING_PAGESZ
          Symbols,       \* PAGING_MAX_SYMTBL_SZ
          AddrRange,     \* the range of unsigned long, scaled
          Sizes,         \* the sizes programs ask for
          RegionIds,     \* the region numbers they use
          MaxBreak       \* bound of this model: the break

ASSUME RegionAssumption ==
  /\ PageSize \in Nat \ {0} /\ Symbols \in Nat
  /\ AddrRange \in Nat /\ MaxBreak < AddrRange /\ MaxBreak \in Nat
  /\ Sizes \subseteq Nat /\ RegionIds \subseteq 0..Symbols

Addr   == 0..(AddrRange - 1)
Region == [start : Addr, end : Addr]
Fresh  == [start |-> 0, end |-> 0]
Ids    == 0..(Symbols - 1)

VARIABLES symrgtbl,      \* region number -> region
          used,          \* region number -> the size asked for, 0 if none
          sbrk,          \* the break (sbrk and vm_end)
          head,          \* vm_freerg_list: "first", "stack" or "none"
          first,         \* the node made by init_mm
          fifo,          \* whether fifo_pgn, which follows symrgtbl, is intact
          defined        \* no node of a dead stack frame has been read

vars == <<symrgtbl, used, sbrk, head, first, fifo, defined>>

TypeOK ==
  /\ symrgtbl \in [Ids -> Region]
  /\ used \in [Ids -> Nat]
  /\ sbrk \in 0..MaxBreak
  /\ head \in {"first", "stack", "none"}
  /\ first \in Region
  /\ fifo \in BOOLEAN /\ defined \in BOOLEAN

\* init_mm: an empty heap, and a list with the region from 0 to 0
Init ==
  /\ symrgtbl = [r \in Ids |-> Fresh] /\ used = [r \in Ids |-> 0]
  /\ sbrk = 0
  /\ head = "first" /\ first = Fresh
  /\ fifo = TRUE /\ defined = TRUE

--------------------------------------------------------------------------------
(* Faulty variants of definitions below, one plausible slip each.          *)

\* whole pages, rounded down
RoundedDown(size) == (size \div PageSize) * PageSize

\* vm_end moves, sbrk does not
BreakKept(size) == sbrk

\* the end of an empty part is below its start
CarvedSigned(at, size) == [start |-> at, end |-> at + size - 1]

--------------------------------------------------------------------------------
\* PAGING_PAGE_ALIGNSZ
Aligned(size) == ((size + PageSize - 1) \div PageSize) * PageSize

\* freesize: both ends count
FreeSize(rg) == (rg.end + AddrRange - rg.start + 1) % AddrRange

\* the result goes to the table without a test of the number; the entry behind
\* the last one is fifo_pgn
SetRegion(r, rg, size) ==
  IF r \in Ids
    THEN /\ symrgtbl' = [symrgtbl EXCEPT ![r] = rg]
         /\ used' = [used EXCEPT ![r] = size]
         /\ UNCHANGED fifo
    ELSE fifo' = FALSE /\ UNCHANGED <<symrgtbl, used>>

\* get_free_vmrg_area looks at the first node of the list only
Fits(size) == head = "first" /\ FreeSize(first) >= size

Carved(at, size) ==
  [start |-> at, end |-> (at + size + AddrRange - 1) % AddrRange]

\* __alloc, first branch: a part of the listed region, or all of it
AllocCarve(r, size) ==
  /\ Fits(size)
  /\ SetRegion(r, Carved(first.start, size), size)
  /\ IF FreeSize(first) > size
       THEN first' = [first EXCEPT !.start = @ + size] /\ UNCHANGED head
       ELSE head' = "none" /\ UNCHANGED first
  /\ UNCHANGED <<sbrk, defined>>

\* the node is no longer there: an alloc may find any region in its place, larger
\* than it needs; to free a node of exactly its size ends the program
AllocStray(r, size) ==
  /\ head = "stack"
  /\ \E at \in Addr : SetRegion(r, Carved(at, size), size)
  /\ defined' = FALSE
  /\ UNCHANGED <<sbrk, head, first>>

NewBreak(size) == sbrk + Aligned(size)

\* __alloc, second branch: move the break by whole pages
AllocGrow(r, size) ==
  /\ ~Fits(size) /\ NewBreak(size) <= MaxBreak
  /\ SetRegion(r, [start |-> sbrk, end |-> sbrk + Aligned(size)], size)
  /\ sbrk' = NewBreak(size)
  /\ defined' = (defined /\ head # "stack")
  /\ UNCHANGED <<head, first>>

\* __free copies the entry to its stack frame and enlists the copy, unless it is
\* empty; the entry stays.  The number after the last one passes its test.
Free(r) ==
  /\ IF r \in Ids
       THEN head' = IF symrgtbl[r].start >= symrgtbl[r].end THEN head ELSE "stack"
       ELSE head' \in {head, "stack"}
  /\ UNCHANGED <<symrgtbl, used, sbrk, first, fifo, defined>>

\* the model follows one alloc that reads a dead node, and none after it
Next ==
  \E r \in RegionIds :
    \/ /\ defined
       /\ \E size \in Sizes :
            AllocCarve(r, size) \/ AllocStray(r, size) \/ AllocGrow(r, size)
    \/ Free(r)

Spec == Init /\ [][Next]_vars

--------------------------------------------------------------------------------
(* Properties.                                                             *)

\* the bytes that the owner of region r has asked for
Bytes(r) == symrgtbl[r].start..(symrgtbl[r].start + used[r] - 1)

\* Two regions of a process never share a byte that both were asked for:
\* inc_vma_limit means to "validate overlap of obtained region" (mm-vm.c), and
\* __alloc takes memory from two sources, the list and the break.  This holds
\* until a node is read that no longer exists.
RegionsDisjoint ==
  defined => \A r, s \in Ids : Bytes(r) \intersect Bytes(s) # {} => r = s

\* Every byte of a region is below the break, where pages have been mapped.
RegionsBelowBreak == defined => \A r \in Ids : Bytes(r) \subseteq 0..(sbrk - 1)

\* free is "to enlist the obsoleted memory region" (libmem.c): no alloc looks
\* for memory in a list node that no longer exists.
NoStrayRead == defined

\* The page list of a process is not written by an alloc: the table holds
\* "a fixed number of symbol" (os-mm.h), and __alloc takes any number.
FifoIntact == fifo
================================================================================
