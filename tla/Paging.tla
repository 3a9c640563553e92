--------------------------------- MODULE Paging ---------------------------------
(***************************************************************************)
(* The paging memory of src/libmem.c, mm.c, mm-vm.c, mm-memphy.c and       *)
(* sys_mem.c: RAM and swap devices, a page table, a FIFO of pages and a    *)
(* table of regions for each process, and the instructions alloc, read and *)
(* write on them.                                                          *)
(*                                                                         *)
(* The data of a page is one cell, and addresses count pages.  __alloc     *)
(* works under mmvm_lock and takes its frames one by one, a step each;     *)
(* reads and writes of other processes, which take no lock, go on in       *)
(* between.  A read or write uses its own process's page table only, and   *)
(* is one step.                                                            *)
(*                                                                         *)
(* Other modules have the rest: RegionTable libfree and the list of free   *)
(* regions (which here stays as init_mm leaves it, and every alloc of at   *)
(* least two bytes grows the heap), PagingKill free_pcb_memph, FreeFrames  *)
(* the free lists node by node, where pg_getpage takes its swap frame      *)
(* without a lock.  Here pg_getpage is one step.                           *)
(*                                                                         *)
(* Where the code uses a variable it never set, any value is possible, and *)
(* defined is FALSE from then on.  Memory that malloc returns without      *)
(* clearing it (the page table, the regions, the FIFO and active_mswp_id   *)
(* of a new process) reads as zero, as the fresh memory of the loader      *)
(* thread's arena does.                                                    *)
(***************************************************************************)
EXTENDS PageTable, SequencesExt

CONSTANTS Procs,        \* the processes
          Regions,      \* region numbers, the indices of symrgtbl
          Values,       \* what a cell can hold, 0 among them
          RamFrames,    \* number of RAM frames
          NumSwaps,     \* number of swap devices; the active one is 0
          SwapFrames,   \* number of frames of each of them
          MaxPages,     \* bound of this model: pages a process may map
          MaxAlloc,     \* bound of this model: pages of one alloc
          Overrun       \* bound of this model: how many pages past the end of
                        \* its regions a program reads or writes

Pages  == 0..(MaxPages - 1)
Swaps  == 0..(NumSwaps - 1)
Offsets == 1..(MaxAlloc + Overrun)
Nobody == [start |-> 0, pages |-> 0]

ASSUME PagingAssumption ==
  /\ 0 \in Values
  /\ RamFrames \in 1..FpnRange /\ SwapFrames \in 1..OffRange
  /\ NumSwaps \in 1..TypRange
  /\ MaxPages \in Nat /\ MaxAlloc \in Nat /\ Overrun \in Nat

VARIABLES ram, ram_free,     \* RAM: its cells and its list of free frames
          swap, swap_free,   \* the same of every swap device
          pgd,               \* the page table of each process
          fifo_pgn,          \* its pages in RAM, the newest first
          sbrk,              \* its break (sbrk and vm_end), in pages
          symrgtbl,          \* its regions: first page and number of pages
          req,               \* the alloc that holds mmvm_lock, or <<>>
          last,              \* history: the last read or write since an alloc ended,
                             \* <<"read" or "write", process, region, cell, value>>
          stat,              \* what the last alloc returned to run()
          defined            \* no unset variable has been used so far

frameVars == <<ram, ram_free, swap, swap_free>>
mmVars    == <<pgd, fifo_pgn, sbrk, symrgtbl>>
vars == <<frameVars, mmVars, req, last, stat, defined>>

Request == [proc : Procs, region : Regions, start : 0..MaxPages,
            pages : 1..MaxAlloc, frames : Seq(0..(FpnRange - 1))]

TypeOK ==
  /\ ram \in [0..(RamFrames - 1) -> Values]
  /\ ram_free \in Seq(0..(RamFrames - 1))
  /\ swap \in [Swaps -> [0..(SwapFrames - 1) -> Values]]
  /\ swap_free \in [Swaps -> Seq(0..(SwapFrames - 1))]
  /\ pgd \in [Procs -> [Pages -> Pte]]
  /\ fifo_pgn \in [Procs -> Seq(Pages)]
  /\ sbrk \in [Procs -> 0..MaxPages]
  /\ symrgtbl \in [Procs -> [Regions ->
                     [start : 0..MaxPages, pages : 0..MaxAlloc]]]
  /\ req = <<>> \/ req \in Request
  /\ last = <<>> \/ last \in {"read", "write"} \X Procs \X Regions \X Offsets \X Values
  /\ stat \in {0, 1}
  /\ defined \in BOOLEAN

\* init_memphy, and load and init_mm for every process
Init ==
  /\ ram = [f \in 0..(RamFrames - 1) |-> 0]
  /\ ram_free = [n \in 1..RamFrames |-> n - 1]
  /\ swap = [w \in Swaps |-> [f \in 0..(SwapFrames - 1) |-> 0]]
  /\ swap_free = [w \in Swaps |-> [n \in 1..SwapFrames |-> n - 1]]
  /\ pgd = [p \in Procs |-> [n \in Pages |-> ZeroPte]]
  /\ fifo_pgn = [p \in Procs |-> <<>>]
  /\ sbrk = [p \in Procs |-> 0]
  /\ symrgtbl = [p \in Procs |-> [r \in Regions |-> Nobody]]
  /\ req = <<>> /\ last = <<>> /\ stat = 0 /\ defined = TRUE

--------------------------------------------------------------------------------
(* Faulty variants of definitions below, one plausible slip each.          *)

\* MEMPHY_get_freefp returns the head of the list without unlinking it
FrameKept   == ram_free
SlotKept(w) == swap_free

\* find_victim_page leaves the victim in the list
VictimKept(p) == fifo_pgn[p]

\* the victim's page is always copied to the active device
SwapOutActive(w, off, v) == [swap EXCEPT ![0] = [@ EXCEPT ![off] = v]]

\* MEMPHY_write refuses the last frame of a device
StoreButLast(device, f, v) ==
  IF f + 1 \in DOMAIN device THEN [device EXCEPT ![f] = v] ELSE device

\* vmap_page_range stops one page early
PagesButLast == req.start..(req.start + req.pages - 2)

\* inc_vma_limit moves the break twice
BreakTwice(p, n) == [sbrk EXCEPT ![p] = @ + 2 * n]

--------------------------------------------------------------------------------
(* Physical memory (mm-memphy.c).                                          *)

\* MEMPHY_read: outside of the device the caller's variable stays unset
Fetch(device, f) == IF f \in DOMAIN device THEN {device[f]} ELSE Values

\* MEMPHY_write: outside of the device nothing is written
Store(device, f, v) ==
  IF f \in DOMAIN device THEN [device EXCEPT ![f] = v] ELSE device

\* MEMPHY_get_freefp unlinks the head of the free list
FrameTaken   == Tail(ram_free)
SlotTaken(w) == [swap_free EXCEPT ![w] = Tail(@)]

--------------------------------------------------------------------------------
(* alloc (liballoc, __alloc, __sys_memmap, inc_vma_limit, vm_map_ram).     *)

MovedBreak(p, n) == [sbrk EXCEPT ![p] = @ + n]

\* take mmvm_lock, find no free region, and move the break
Alloc(p, r, n) ==
  /\ req = <<>> /\ sbrk[p] + n <= MaxPages
  /\ req' = [proc |-> p, region |-> r, start |-> sbrk[p], pages |-> n,
             frames |-> <<>>]
  /\ sbrk' = MovedBreak(p, n)
  /\ UNCHANGED <<frameVars, pgd, fifo_pgn, symrgtbl, last, stat, defined>>

Missing == req # <<>> /\ Len(req.frames) < req.pages

\* the end of __alloc, where the result of the mapping makes no difference
Commit ==
  /\ symrgtbl' = [symrgtbl EXCEPT ![req.proc][req.region] =
                    [start |-> req.start, pages |-> req.pages]]
  /\ stat' = 0
  /\ req' = <<>> /\ last' = <<>>
  /\ UNCHANGED <<sbrk, defined>>

\* alloc_pages_range, one turn of its loop: a free RAM frame
TakeFrame ==
  /\ Missing /\ ram_free # <<>>
  /\ req' = [req EXCEPT !.frames = <<Head(ram_free)>> \o @]
  /\ ram_free' = FrameTaken
  /\ UNCHANGED <<ram, swap, swap_free, mmVars, last, stat, defined>>

\* find_victim_page takes the oldest page out of the FIFO
Victim(p)        == Last(fifo_pgn[p])
WithoutVictim(p) == Front(fifo_pgn[p])

\* __swap_cp_page to a frame of a swap device
SwapOut(w, off, v) == [swap EXCEPT ![w] = Store(@, off, v)]

\* the active swap device if it has a free frame, or else the first that has
SwapChoice ==
  CHOOSE w \in Swaps : /\ swap_free[w] # <<>>
                       /\ \A x \in Swaps : swap_free[x] # <<>> => w <= x

\* one turn of the loop without a free frame: copy a page of the same process
\* to swap and take its frame
Evict ==
  /\ Missing /\ ram_free = <<>> /\ fifo_pgn[req.proc] # <<>>
  /\ \E w \in Swaps : swap_free[w] # <<>>
  /\ LET p   == req.proc
         w   == SwapChoice
         off == Head(swap_free[w])
         f   == Fpn(pgd[p][Victim(p)])
     IN  /\ \E v \in Fetch(ram, f) : swap' = SwapOut(w, off, v)
         /\ swap_free' = SlotTaken(w)
         /\ pgd' = [pgd EXCEPT ![p][Victim(p)] = SetSwap(@, w, off)]
         /\ fifo_pgn' = [fifo_pgn EXCEPT ![p] = WithoutVictim(p)]
         /\ req' = [req EXCEPT !.frames = <<f>> \o @]
  /\ UNCHANGED <<ram, ram_free, sbrk, symrgtbl, last, stat, defined>>

\* neither a free frame nor a page to evict: the mapping fails and the frames
\* collected so far are dropped
FailNoVictim ==
  /\ Missing /\ ram_free = <<>> /\ fifo_pgn[req.proc] = <<>>
  /\ Commit
  /\ UNCHANGED <<frameVars, pgd, fifo_pgn>>

\* every swap device is full: the mapping fails, the victim has left the FIFO
FailNoSwap ==
  /\ Missing /\ ram_free = <<>> /\ fifo_pgn[req.proc] # <<>>
  /\ \A w \in Swaps : swap_free[w] = <<>>
  /\ fifo_pgn' = [fifo_pgn EXCEPT ![req.proc] = WithoutVictim(req.proc)]
  /\ Commit
  /\ UNCHANGED <<frameVars, pgd>>

NewPages == req.start..(req.start + req.pages - 1)

\* enlist_pgn_node puts one page after the other in front of the list
Enlisted(p) == [i \in 1..req.pages |-> req.start + req.pages - i] \o fifo_pgn[p]

\* vmap_page_range: the frames, the last one first, become the new pages
Map ==
  /\ req # <<>> /\ ~Missing
  /\ pgd' = [pgd EXCEPT ![req.proc] = [n \in Pages |->
              IF n \in NewPages THEN SetFpn(@[n], req.frames[n - req.start + 1])
                               ELSE @[n]]]
  /\ fifo_pgn' = [fifo_pgn EXCEPT ![req.proc] = Enlisted(req.proc)]
  /\ Commit
  /\ UNCHANGED frameVars

AllocStep == TakeFrame \/ Evict \/ FailNoVictim \/ FailNoSwap \/ Map

--------------------------------------------------------------------------------
(* read and write (__read, __write, pg_getval, pg_setval, pg_getpage).     *)

\* the process is not in the middle of an alloc
CanRun(p) == req # <<>> => req.proc # p

\* the page of cell k of region r, if the model's address space reaches that far
PageOf(p, r, k) == symrgtbl[p][r].start + k - 1

Accessible(p, r, k) ==
  /\ CanRun(p)
  /\ symrgtbl[p][r].pages > 0 /\ k <= symrgtbl[p][r].pages + Overrun
  /\ PageOf(p, r, k) \in Pages

\* pg_getpage of a page that is marked as present, swapped or not
Present(p, n) == pgd[p][n].present

\* pg_getpage of a page that is not: evict a page to the active swap device and
\* map its frame to this page.  Of the two copies, both go from RAM to swap.
\* The results of find_victim_page and MEMPHY_get_freefp are not tested.
GetPage(p, n) ==
  /\ ~Present(p, n)
  /\ \E vic \in IF fifo_pgn[p] = <<>> THEN Pages ELSE {Victim(p)},
        off \in IF swap_free[0] = <<>> THEN 0..SwapFrames ELSE {Head(swap_free[0])} :
       LET f   == Fpn(pgd[p][vic])
           tgt == Swp(pgd[p][n])
       IN /\ \E v \in Fetch(ram, f), u \in Fetch(ram, tgt) :
               swap' = [swap EXCEPT ![0] = Store(Store(@, off, v), f, u)]
          /\ pgd' = [pgd EXCEPT ![p][vic] = SetSwap(@, 0, off),
                                ![p][n]   = SetFpn(pgd[p][n], f)]
  /\ swap_free' = IF swap_free[0] = <<>> THEN swap_free ELSE SlotTaken(0)
  /\ fifo_pgn' = [fifo_pgn EXCEPT ![p] =
                    <<n>> \o IF @ = <<>> THEN @ ELSE WithoutVictim(p)]
  /\ defined' = (defined /\ fifo_pgn[p] # <<>> /\ swap_free[0] # <<>>)

NoFault == UNCHANGED <<swap, swap_free, pgd, fifo_pgn, defined>>

Read(p, r, k) ==
  /\ Accessible(p, r, k)
  /\ LET n == PageOf(p, r, k)
     IN  /\ (Present(p, n) /\ NoFault) \/ GetPage(p, n)
         /\ \E v \in Fetch(ram, Fpn(pgd'[p][n])) : last' = <<"read", p, r, k, v>>
  /\ UNCHANGED <<ram, ram_free, sbrk, symrgtbl, req, stat>>

Write(p, r, k, v) ==
  /\ Accessible(p, r, k)
  /\ LET n == PageOf(p, r, k)
     IN  /\ (Present(p, n) /\ NoFault) \/ GetPage(p, n)
         /\ ram' = Store(ram, Fpn(pgd'[p][n]), v)
  /\ last' = <<"write", p, r, k, v>>
  /\ UNCHANGED <<ram_free, sbrk, symrgtbl, req, stat>>

Next ==
  \/ \E p \in Procs, r \in Regions, n \in 1..MaxAlloc : Alloc(p, r, n)
  \/ AllocStep
  \/ \E p \in Procs, r \in Regions, k \in Offsets :
       Read(p, r, k) \/ \E v \in Values : Write(p, r, k, v)

Spec == Init /\ [][Next]_vars

--------------------------------------------------------------------------------
(* Properties.                                                             *)

Mapped(test(_)) == {e \in Procs \X Pages : test(pgd[e[1]][e[2]])}
OnlinePages  == Mapped(Online)
SwappedPages == Mapped(Swapped)

FrameOf(e) == Fpn(pgd[e[1]][e[2]])
SlotOf(e)  == <<SwpTyp(pgd[e[1]][e[2]]), Swp(pgd[e[1]][e[2]])>>
InHand     == IF req = <<>> THEN <<>> ELSE req.frames

\* Until an unset variable is used, no RAM frame serves two purposes: two pages in
\* RAM, of the same or of two processes, have different frames, and neither the
\* free list nor an alloc in progress holds a frame of a page.
FramesExclusive ==
  defined =>
    /\ \A d, e \in OnlinePages : FrameOf(d) = FrameOf(e) => d = e
    /\ IsInjective(ram_free \o InHand)
    /\ {FrameOf(e) : e \in OnlinePages} \intersect ToSet(ram_free \o InHand) = {}

\* Two swapped pages never share a swap frame, and no free one is in use
\* (alloc_pages_range, pg_getpage).
SlotsExclusive ==
  defined =>
    /\ \A d, e \in SwappedPages : SlotOf(d) = SlotOf(e) => d = e
    /\ \A e \in SwappedPages : SlotOf(e)[2] \notin ToSet(swap_free[SlotOf(e)[1]])

\* The FIFO from which victims are taken names pages in RAM only, each once: a
\* page that is swapped out is never evicted a second time.
FifoOnline ==
  defined => \A p \in Procs :
    /\ IsInjective(fifo_pgn[p])
    /\ \A n \in ToSet(fifo_pgn[p]) : Online(pgd[p][n])

SlotCell(e) == swap[SlotOf(e)[1]][SlotOf(e)[2]]

\* Swapping out loses nothing: the swap frame recorded in the page's entry gets
\* the cell of the page's frame, and keeps it for as long as the page is swapped.
SwapKeepsData ==
  [][defined' => \A e \in SwappedPages' :
       SlotCell(e)' = IF e \in SwappedPages THEN SlotCell(e)
                                            ELSE ram[FrameOf(e)]]_vars

\* pg_getpage - "get the page in ram": after a read or write, the page that was
\* accessed is in RAM.
GetsPageInRam ==
  [][\A p \in Procs, r \in Regions, k \in Offsets :
       Read(p, r, k) => Online(pgd'[p][PageOf(p, r, k)])]_vars

\* run - "Return 0 if the instruction is executed successfully": when alloc has
\* returned 0, the pages of its region are mapped.
ZeroMeansMapped ==
  [][req # <<>> /\ req' = <<>> /\ stat' = 0 =>
       \A n \in req.start..(req.start + req.pages - 1) :
         pgd'[req.proc][n].present]_vars

\* A page fault "finds victim page" and "gets free frame in MEMSWP" (pg_getpage)
\* before it uses them: no variable is read that was never set.
NothingUnset == defined

Cells(p, r) ==
  [k \in 1..symrgtbl[p][r].pages |-> ram[Fpn(pgd[p][PageOf(p, r, k)])]]

Mem == INSTANCE VirtMem
         WITH mem     <- [p \in Procs |-> [r \in Regions |-> Cells(p, r)]],
              pending <- IF req = <<>> THEN <<>>
                                       ELSE <<req.proc, req.region, req.pages>>,
              Sizes   <- 1..MaxAlloc

\* Programs that stay in their regions see private, stable memory: through all mappings,
\* a cell changes only by a write to it or when its region is allocated again, no write
\* is lost, and a read returns what is there (__alloc, __read, __write).
ImplementsVirtMem == Mem!MemSpec
================================================================================
