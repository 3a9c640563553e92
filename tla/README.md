# A verification of the simulated operating system

The program under `src/submission/OS BTL` simulates a small operating system.
A configuration file names processes, their start times and priorities; a
loader thread brings them in, CPU threads run them one instruction per time
slot, and their memory instructions work on a simulated paging memory with
swap devices.  This directory holds TLA+ models of it, the TLC runs that check
them and the TLAPS proofs about them.

The configuration verified is the one of `include/os-cfg.h`: `MLQ_SCHED` and
`MM_PAGING` on, `MM_FIXED_MEMSZ` off.

## 1. The system

| Part | State | Operations | Talks to |
|---|---|---|---|
| Slot timer (`timer.c`) | `dev_list`, `_time`, `timer_stop`; per device `done`, `fsh`, two locks, two condition variables | `attach_event`, `start_timer`, `next_slot`, `detach_event`, `stop_timer`, the thread `timer_routine` | every other thread blocks in it once per slot |
| CPU threads (`cpu_routine` in `os.c`, `run` in `cpu.c`) | `proc`, `time_left` | take, run, put back, finish, idle, stop | scheduler, timer, memory; reads the loader's `done` |
| Loader thread (`ld_routine`, `loader.c`) | index `i`, `done` | load, wait for the start time, add, finish | scheduler, timer |
| Scheduler (`sched.c`, `queue.c`) | `mlq_ready_queue`, `running_list`, `queue_lock` | `get_proc`, `put_proc`, `add_proc` | called by CPUs and loader |
| Page tables (`mm.h`, `mm.c`) | one 32-bit word per page | `pte_set_fpn`, `pte_set_swap`, the `PAGING_` macros | paged memory |
| Paged memory (`libmem.c`, `mm.c`, `mm-vm.c`, `mm-memphy.c`, `sys_mem.c`) | RAM and swap cells and free lists; per process page table, FIFO, break, regions; `mmvm_lock` | alloc, free, read, write, eviction, page fault | called by `run` on the CPU threads; devices shared by all |
| Free frames of a device (`mm-memphy.c`) | `free_fp_list` and its nodes | `MEMPHY_format`, `MEMPHY_get_freefp`, `MEMPHY_put_freefp` | called by alloc under `mmvm_lock`, by page faults and killall without it |
| Regions (`libmem.c`, `mm-vm.c`) | per process `symrgtbl`, `vm_freerg_list`, `sbrk` | both branches of `__alloc`, `__free` | maps pages through system call 17 |
| System calls (`syscall.c`, `libstd.c`, `sys_*.c`) | none | 17 (memory map), 101 (killall), listing | killall walks the scheduler's queues and releases memory |
| Start-up and shutdown (`main`) | workload, threads | attach, start, create, join, stop | all |

What is hard here:

* **Timer.** `done` is written under `event_lock` by the device and under
  `timer_lock` by the timer, so a device that wakes up, works and arrives again
  overlaps with the second list walk of the same slot. Correct means: no lost
  wakeup, no slot change while a device works, every slot is eventually
  followed by the next, and shutdown neither hangs nor frees what is in use.
* **Scheduling.** `put_proc` and `add_proc` are two sections each, and the stop
  test reads `done` after the queue has been inspected. Correct means: a
  process has one owner, is never lost or used after it was freed, is served
  by priority and round robin with full quanta, and ends.
* **Memory.** One alloc evicts pages while it collects frames, other processes
  read and write meanwhile, and failures come in the middle. Correct means: a
  frame has one user, swapped data survives, and a process sees private memory.
* **killall.** One program's instruction walks and shifts the lists every CPU
  works on, and gives back memory a running process uses. Correct means: the
  processes with the name stop, and nothing happens to the others.
* **List nodes.** The free lists are linked nodes that are freed by the one who
  takes them off, some callers hold a lock and some do not, and a list with no
  or one element takes other paths. Correct means: a frame is handed out once,
  and no pointer to a dead node is followed.

`PROJECT.json` lists the hazards at the lines where they bite.

## 2. Modules

| Module | What it is |
|---|---|
| `SlotClock` | What the timer promises: arrive, leave, tick, halt. |
| `Timer` | `timer.c` and the part of `main` that drives it, one action per critical section. Implements `SlotClock`. |
| `TimerProofs` | Theorems about `Timer` for every number of devices. |
| `ProcessLife` | What the scheduler promises to a process: new, ready, running, finished; every instruction once. |
| `Os` | CPU threads, loader, scheduler and queues, composed with `SlotClock`. Implements `ProcessLife`. |
| `OsProofs` | Theorems about `Os`: ownership, loss, termination of CPUs, refinement. |
| `OsHistory` | `Os` with history variables for properties of the policy over several slots. |
| `OsHistoryProofs` | Theorems about the policy: priority, round robin, quantum, idle CPUs. |
| `MCOs` | Workloads for TLC. |
| `PageTable` | Page table entries: the fields with their widths, and which of them share bits. |
| `VirtMem` | What the memory promises to a program: private, stable cells, where writes arrive and regions change only when allocated. |
| `Paging` | alloc, read and write with eviction, swap devices and page faults. Implements `VirtMem` while all pages fit in RAM. |
| `PagingProofs` | What is read back of a `PageTable` entry that was set; theorems about `Paging` for programs that stay in their regions. |
| `PagingRamProofs` | Theorems about `Paging` when RAM has room for all pages, with the refinement. |
| `OsKill` | `Os` extended with the walk of `killall`. |
| `OsKillProofs` | Theorems about `OsKill`: types for any number of CPUs, the rest for one. |
| `MCOsKill` | Workloads for it. |
| `FramePool` | What a device promises to those who take and give back frames. |
| `FreeFrames` | The list of free frames, node by node, called by several CPUs. Implements `FramePool` when the calls are serialised. |
| `MCFreeFrames` | Crews for it. |
| `FreeFramesProofs` | Theorems about `FreeFrames` for calls that do not overlap, with the refinement. |
| `RegionTable` | The regions of one process in bytes: alloc's two sources and free. |
| `RegionTableProofs` | Theorems about `RegionTable` for programs that never ask for one byte. |
| `PagingKill` | `Paging` extended with `free_pcb_memph`, which killall calls. |

`Os` includes the clock as `INSTANCE SlotClock`: a thread's step ends with
`Clock!Arrive` where the code calls `next_slot` and with `Clock!Leave` where it
calls `detach_event`; the timer thread is `Clock!Tick` and `Clock!Halt`.
`Timer` is shown to implement that module, so the composition stands for the
whole program without multiplying the two state spaces.

### State and actions

*Timer.* `mpc`, `tpc` and `dpc` are program counters; the other variables have
the names of the code (`dfsh` is the devices' `fsh`, beside the timer's local
counter of that name). `attach_event` pushes on the front of the list, so the
list is N, ..., 1 and the cursor `temp` is a device number with 0 for NULL.
`next_slot` is `PostDone` (first section), `AwaitSlot` (the test of `done`) and
the state "blocked" for the time in `pthread_cond_wait`. Condition variables
keep no memory: a signal ends the wait of the one thread in it or does nothing.
`SpuriousScan` and `SpuriousAwait` are the wakeups POSIX allows at any time.

*Os.* One action per path from one shared access to the next. `next_slot` and
`detach_event` are merged into the step they follow: arriving only enables a
tick. A pointer the code overwrites before it reads it again is NULL in the
model, so `proc` names a process only while the CPU owns it. `time_slot` and
`work` are what `read_config` and `load` read, chosen at the start; `num_processes`
is the length of `work`. `pcb` says whether
the PCB exists, `running_list` is the list that only `killall` reads.

*Paging.* Addresses count pages and a page is one cell: no property depends on
the offset in a page. `req` is the alloc that holds `mmvm_lock`; `TakeFrame` and
`Evict` are one turn each of the loop of `alloc_pages_range`, `Map` is
`vmap_page_range` with the end of `__alloc`, and the two `Fail` actions are its
error returns, which `__sys_memmap` drops. A page fault copies from RAM to swap
twice, as `__mm_swap_page` does. Where the code goes on with `vicpgn` or `swpfpn`
unset, the model picks any value and sets `defined` to FALSE; the properties on
frames are stated for executions where that has not happened. A read outside of
a device leaves the caller's byte unset and yields any value. `last` is a history
variable, the read or write completed last: it lets `VirtMem` tell a write that is
lost from a step of nobody, as its `pending`, which is `req` here, tells the end of an
alloc from anything else that changes a region.

*OsKill.* `walk[c]` is the call of `__sys_killall` that CPU c is in: the list it
is at (0 for `running_list`, then the levels), the index `i`, the position of
the shift, `count`, and the lists as they were. `StartWalk` is the instruction,
`Pass` and `Hit` the comparison of the path, `Shift` one assignment of the
inner loop, `Shrink` its `size--` and `i--`. The other CPUs' sections under
`queue_lock` stay single steps between those, so the interleavings are some of
the program's, and a violation found is one of the program. A freed PCB's path
may be equal to the name or not. `sane` becomes FALSE when a size gets to -1;
`empty` takes such a queue for a non-empty one, and the model ends.

*FreeFrames.* A node is a number, `heap` says which exist; `fp` and `retfpn`
are the variables of `MEMPHY_get_freefp`, whose four accesses are `ReadHead`,
`Refuse` or `ReadFpn`, `Unlink` and `FreeNode`; `PutRead` and `PutLink` are
those of `MEMPHY_put_freefp`. `Lock` and `Unlock` delimit the loop of an alloc.
`UNSET` is a pointer nobody wrote: `MEMPHY_format` leaves the head so for a device
of size 0 and the last link so for a device of one frame. The `crew` of an
execution says which threads take part and which of them also come without
the lock, from a page fault or a killall. Using a dead or unset node makes
`defined` FALSE and ends the model.

*RegionTable.* Regions in bytes with the inclusive and the exclusive ends the
two branches of `__alloc` compute, in unsigned arithmetic modulo `AddrRange`.
`AllocCarve` is the branch that finds a listed region, `AllocGrow` the one that
moves the break, `AllocStray` what an alloc does with a node that lay on the
stack of a `__free` that has returned. `used` records the size asked for.

*PagingKill.* `FreePcbMemph` is the whole loop over a page table as one step: no
property here needs it finer, and its single list accesses are `FreeFrames`'.

## 3. Runs

Each run has its own constants in its `.cfg`.

| Run | Shows | Bounds, and why they suffice |
|---|---|---|
| `timer` | Safety, liveness and refinement of `SlotClock`, with spurious wakeups | 3 devices: one before, at and behind the cursor at once. `_time` saturates at 2: nothing compares it here. |
| `os` | Ownership, loss, start times, termination, refinement of `ProcessLife`; priority, round robin, quantum, work conservation, the stop test | 2 CPUs. Two processes in every mix of two priorities, start times 0 and 2, sizes 0, 1 and 3; and four workloads of four processes: all on one level, arriving above and below running ones, longer than two quanta, and gone before the loader is done. Each with quantum 2, so size 3 is preempted once, and with quantum 0, which switches time sharing off. The clock saturates at 4, after the last start time. |
| `paging_ram` | Refinement of `VirtMem` (no write is lost or goes astray, a region is replaced only when its alloc ends), alloc's result | 2 processes with 2 regions each, RAM for all pages; allocs of 1 and 2 pages. |
| `paging_evict` | Frames and swap frames have one user, eviction order, data survive swap-out | 2 processes of 3 pages, 3 RAM frames, two swap devices of one frame: the active device fills up, the second one is used, both are full, and mappings fail with and without a victim. |
| `kill_alone` | killall removes exactly the named processes, keeps the others in order, and they end | 1 CPU, 3 processes: the killer is loaded last; the two others are on its level or another, of size 0, 1 or 3, and any of them named, so at the walk they wait, have finished or are adjacent in a list. Queue bound 8: neither `running_list` nor a ready queue gets there. |
| `frames` | Frames are handed out once, calls return, refinement of `FramePool` | 3 frames, allocs of 1 and 2. Two crews: 3 CPUs that allocate, where the list becomes empty with an alloc under way and others wait for the lock; and one CPU that comes with and without the lock and gives back, so that nodes are reused. |
| `regions_grow` | Regions are disjoint and below the break | Pages of 4 bytes; sizes 0, 2, 4 and 5 lie on both sides of a page. 3 regions and 3 pages; the addresses wrap at 16, behind the break. Size 1 is left to `RegionTable_byte.cfg`, below. |

The queue bound of the run `os` is 3, and a level does fill up to it: with four
processes that come one slot after the other, three wait at a time at most. The
ready queues then fit and never overflow, which is what `MAX_QUEUE_SIZE` = 10
gives to at most 10 processes. `running_list` only grows and does reach its bound.

The passing runs of `frames` and `kill` leave concurrency out where the
program shares without a lock: `frames_fault` and `kill_race` are the same models
with a second CPU in it.

Five runs find a violation. Each checks one statement of the repository
against the code; `PROJECT.json` quotes the lines.

| Run | What the counterexample shows |
|---|---|
| `os_stop` | A CPU without a process at the top of its loop never tests `done`: with two CPUs and one process, `main` never returns. (`BusyCpuStops` shows which CPUs do stop.) |
| `kill_race` | The other CPU uses a ready queue while killall shifts it; a process with another name is lost. |
| `frames_fault` | A page fault and an alloc read the same list head and get the same frame. |
| `paging_swapped` | Swapped pages are marked present and never brought back: a read uses swap bits as a frame number. |
| `paging_kill_ram` | Killing a process puts frame 0 on RAM's free list once per page never mapped; two pages of a survivor share it. |

### Further instances

The following configurations are not among the runs of `PROJECT.json`. Each is a
small instance on which TLC reports the property it names as violated
(`tlc -config X.cfg M`), kept to reproduce a limit of the program.

| Configuration, module | Property | What the counterexample shows |
|---|---|---|
| `Os_overflow`, `MCOs` | `NoneLost` | `enqueue` (queue.c:12) drops a process when the queue is full, and nobody notices. |
| `Os_killed`, `MCOs` | `ListedLive` | `running_list` keeps a pointer to a freed PCB (os.c:67). |
| `Os_budget`, `MCOs` | `SlotBudget` | Levels are served by strict priority; `slot[]` is never used (sched.c:56). |
| `OsKill_runs`, `MCOsKill` | `KilledStops` | A process named and running on another CPU goes on after its memory was released (sys_killall.c:69). |
| `OsKill_late`, `MCOsKill` | `KilledStops` | A process loaded during the walk is marked in `running_list` and then enters a ready queue the walk has passed (sys_killall.c:69). |
| `OsKill_self`, `MCOsKill` | `KilledStops` | The caller has the name itself: it is marked and goes on (sys_killall.c:69). |
| `OsKill_count`, `MCOsKill` | `CountIsProcesses` | A process is released and counted once per occurrence in the lists (sys_killall.c:70). |
| `FreeFrames_give`, `MCFreeFrames` | `OneHolder` | A frame given back by killall is linked to a node that an alloc has just taken (mm-memphy.c:187). |
| `FreeFrames_none`, `MCFreeFrames` | `NoStrayUse` | A device of size 0 has no list head (mm-memphy.c:128). |
| `FreeFrames_single`, `MCFreeFrames` | `NoStrayUse` | The list of a device of one frame does not end (mm-memphy.c:134). |
| `RegionTable_byte`, `RegionTable` | `RegionsDisjoint` | The empty region listed by `init_mm` counts one byte; it is given to two allocs (libmem.c:571). |
| `RegionTable_free`, `RegionTable` | `NoStrayRead` | free enlists a node on its stack; the next alloc reads it (libmem.c:154). |
| `RegionTable_index`, `RegionTable` | `FifoIntact` | alloc to the region number behind the table overwrites the page list (libmem.c:82). |
| `Paging_fault`, `Paging` | `SwapKeepsData` | The swap-in copies from RAM to swap and overwrites another page's swap frame (libmem.c:271). |
| `Paging_full`, `Paging` | `ZeroMeansMapped` | alloc returns 0 although nothing was mapped (sys_mem.c:27). |
| `Paging_unset`, `Paging` | `NothingUnset` | A fault with a full swap device goes on with a frame number nobody set (libmem.c:231). |
| `PagingKill_swap`, `PagingKill` | `SurvivorsKeepSlots` | Killing a process puts swap frames on the free list that others' pages are in (libmem.c:509). |

The definitions marked as faulty variants in the modules are not used by any
specification. Each is a plausible slip, and putting it in the place of the
definition it varies makes the property it is paired with fail.

## 4. Fairness

Weak fairness for the steps of each thread: the kernel keeps scheduling it, and
mutexes are held for finitely many instructions. Nothing is assumed of spurious
wakeups. In `Timer` the devices may detach at any time or never. In `Os` the
timer's steps are fair because `Timer` implements `FairClockSpec`
(`ImplementsSlotClock` is checked with its fairness). Weak fairness is enough as
no step of a thread is disabled by others once enabled, except on the queue
lock, whose sections are single steps.

`OsKill` keeps this fairness, with a turn of the walk as a step of its CPU. In
`FreeFrames` only what a thread has begun is fair: a call goes on and an alloc
reaches its end, but nobody is obliged to begin one, and a thread that waits for
`mmvm_lock` need not get it.

## 5. Proofs

Every theorem holds for all values of the constants that its module's named
assumption allows, and for the further assumptions stated below.  The proofs go
from an inductive invariant: the initial states satisfy it, one lemma per action
shows that a step keeps it, and what the runs check follows.  The invariants were
checked by TLC on small instances first.

| Module | Proved | Assumed besides |
|---|---|---|
| `TimerProofs` | `TypeOK`, `SlotInv`, `NoLostWakeup`, `TeardownSafe`, `Lockstep`; safety part of `ImplementsSlotClock` | nothing |
| `OsProofs` | `TypeOK`, `OneOwner`, `NotBeforeStart` | nothing |
| `OsProofs` | `NoneLost`, `NoneAbandoned`, `ImplementsProcessLife` | `LevelsFit`, at least one CPU (finitely many, for the refinement) |
| `OsHistoryProofs` | `WorkConserving`, `PriorityFirst`, `FairTurns`, `FullQuantum` | nothing |
| `RegionTableProofs` | `TypeOK` | nothing |
| `RegionTableProofs` | `RegionsDisjoint`, `RegionsBelowBreak` | no alloc asks for one byte |
| `FreeFramesProofs` | `TypeOK` | nothing |
| `FreeFramesProofs` | `OneHolder`, `NoStrayUse`, `ImplementsFramePool` | calls are serialised, two frames or more |
| `PagingProofs` | fields read back as set; what a swapped entry yields as frame | nothing |
| `PagingProofs` | `TypeOK` | nothing |
| `PagingProofs` | `FramesExclusive`, `SlotsExclusive`, `FifoOnline`, `SwapKeepsData`, page faults are never served | programs stay in their regions |
| `PagingRamProofs` | `ZeroMeansMapped`, `NothingUnset`, `ImplementsVirtMem` | the same, and RAM has room for all pages |
| `OsKillProofs` | `KTypeOK` | nothing |
| `OsKillProofs` | `OthersKept`; no queue gets a negative size | `LevelsFit`, one CPU |
| `OsKillProofs` | `KilledStops` | the same, and the caller of killall is loaded last and has another name |

### The assumptions

Each states a limit of the program, and a configuration of section 3 shows what
happens behind it.

* `LevelsFit`: no level of the configuration has more processes than a ready queue
  holds.  `MAX_QUEUE_SIZE` is 10, so ten processes always fit.  `Os_overflow` loses a
  process without it.
* No single byte: the empty region that `init_mm` lists counts as one byte, so an
  alloc of one byte takes it (`RegionTable_byte`).
* Serialised calls (`Serial`): either all callers of the device are allocs, which
  `mmvm_lock` keeps apart, or there is one CPU.  With a second CPU, page faults and
  killall call without the lock (run `frames_fault`, `FreeFrames_give`).
* Two frames: `MEMPHY_format` leaves a list of none or one frame unfinished
  (`FreeFrames_none`, `FreeFrames_single`).
* Programs stay in their regions (`Overrun` = 0): an access behind the end of a region
  is not refused (libmem.c:414).  It faults in a page that the next alloc maps
  again, so that the FIFO names it twice, and its fault overwrites swapped data
  (`Paging_fault`).
* Room in RAM (`EnoughRam`): a frame for every page that processes may map.  Without
  it pages are swapped out and never brought back (run `paging_swapped`), and an alloc
  that maps nothing returns 0 (`Paging_full`).
* One CPU, for killall: the walk takes `queue_lock` nowhere, so a second CPU that takes
  or puts back a process meanwhile makes it lose another one (run `kill_race`), and a
  named process that is on another CPU goes on (`OsKill_runs`).  The loader may
  interfere; it only appends.
* The caller of killall is the last process (`KillerLast`): `AddList` and `AddReady` are
  two sections, and the walk may come between them (`OsKill_late`).  `OthersKept` does
  not need it.
* The caller has another name (`KillerUnnamed`): a mark stops nobody who is on a CPU
  (`OsKill_self`).

### The inductive invariants

*Timer.* `TypeOK /\ SlotInv`.  The two need each other: that the counters stay within
N is only true because of what `ScanInv` says about them.  `DeviceInv` relates each
device's program counter with its two flags; `MainInv` says what main's phase tells
about the list and the devices; `ScanInv` says that behind the cursor of the first
walk everybody has arrived or left, that `event` is the number of devices passed,
and that `fsh` equals it only if all of them have left; `WakeInv` says that those
before the cursor of the second walk are still blocked or gone.  In `RefinesClock`
a device counts as released as soon as the slot number has advanced, although its
flag is cleared later.

*Os.* `OneOwner` is not inductive: that a process put back is in no other queue
needs to know which processes the loader has passed and that queues and CPUs hold
live ones only.  `IInv` says where a process may be (`QueueInv`, `RunInv`) and what a
thread's place in its routine says of it (`LoaderInv`, `CpuInv`).  It holds when
queues overflow, too: a dropped process is nowhere, and so not at two places.  With
`LevelsFit` two more parts hold.  `HeldInv`: a live process is in a queue, on a CPU or
with the loader; a queue always has room for a process that is not in it, as it
holds only others of its level, each once.  `StopInv`: when all CPUs have found the
queues empty, they stay empty until the loader's next slot.  That makes the stop
test sound although `done` is read after the queue was inspected.

*OsHistory.* `HInv` adds one part per property.  `WaitInv`: what was ready when the slot
began is still queued, and there is nothing of it once a CPU found the queues
empty.  `FirstInv`: a process dispatched in this slot is not of a worse level than one
that still waits.  `QuantumInv`: `time_left` and the instructions executed since the
dispatch add up to the quantum, so that what is left over from one process never
shortens the turn of the next.  `TurnInv`: what was dispatched while a process waits
is behind it in its queue.  No part needs `LevelsFit`.

*RegionTable.* The region of `init_mm` never changes (`IInv`): no part of it can be
taken and leave a rest.  `RegionInv` then puts every byte of a region below the break
and keeps regions apart.

*FreeFrames.* The nodes reached from the head are described by a sequence: `ListOf`
says that each node's link leads to the next, that the last ends in NULL and that
they are allocated and distinct; `Shared` says that the frames of the list and of
the callers are all frames of the device, each once; `CallInv` says what each access
of a call leaves for the next one, among others that a node that is being taken is
still the head.  The model's `Chain` follows links for as many steps as there are
nodes; `ChainNodes` shows that it computes the nodes of that sequence.

*Paging.* `Sound` has four parts.  `PageInv`: entries and regions end at the break, or
below the pages an alloc is about to map.  `FrameInv` and `SlotInv`: a frame is free, in
the hand of an alloc or a page's, a swap frame free or a page's, for one only.
`FifoInv`: the FIFO names pages in RAM, each once; without it an eviction could take
a frame twice.  They hold until an unset variable is used (`defined`).

`SwapKeepsData` needs one thing more.  A page fault copies from RAM to swap twice,
and the second copy may hit the swap frame of another page.  `FailInv` shows that
this does not happen within regions: a page there is unmapped only if its mapping
has failed, a mapping fails only when no frame is free and there is no victim or no
slot, and that stays so, because alloc, read and write give nothing back.  So
every page fault within a region lacks its victim or its slot and goes on with an
unset variable (`FaultsNeverServed`).

*PagingRamProofs.* `RamInv` adds that present pages are in RAM and cover everything
below the break, that no frame is lost, and that regions share no page.  Then a
frame is free whenever an alloc needs one: otherwise as many pages as RAM has
frames would be mapped beside the one that is missing (`NeverShort`, by the pigeonhole
principle).  So nothing is evicted and no access faults.  Moving the break is `Ask`,
collecting frames a stutter, and the end of the mapping is `Provide`, for the region and
the size that were asked for.  As no frame belongs to two cells (`CellsApart`), a write
is `Put`: it changes the cell it is for and no other.

*OsKill.* `KTypeInv` holds with any number of CPUs: each access of the walk comes after
a test of the size, and what lies between is in the array even if the list has
become shorter.  With one CPU a shift under way leaves one position of a queue that is about to be overwritten,
its *hole*; the process there may stand at another position as well, or be gone.
`OneInv` is `IInv` of `OsProofs` for every position but the hole (`QueueInvBut`), and
`HeldInv` for every process that is not marked.  That is not inductive yet: while the
hole is there the array has one entry more than the queue has processes, and the
loader's enqueue might find it full.  `RemovedInv` says that some process of the level
has left it, so that `LevelsFit` still gives room.  `MarkedInv` adds for
`KilledStops` that a marked process stands in a ready queue only ahead of the walk,
and that the loader is through when the first is marked: nothing that the CPU will
fetch after the walk is marked, although neither `get_proc` nor `run` look at the mark.

### What the proofs corrected

* `FirstLinks` gave the link of the only node of a device of one frame by two cases
  that overlapped.
* `KTypeOK` bounded killall's count by the places there are in all lists.  The loader
  may append during the walk, and a removal makes room for it to do so: the count has
  no such bound.

### What stays with TLC

* Liveness and fairness, which the prover does not reach: `SlotComes`, `Shutdown`, the
  fairness of `ImplementsSlotClock`, `EveryProcessEnds`, `BusyCpuStops`, `OthersEnd`,
  `Returns`.
* `KillIsExact`, which compares lists by `SelectSeq`, a recursive definition: what it
  computes for every list cannot be proved here.

## 6. What is not modelled

* How killall reads the name: byte by byte from a region into a buffer of 100,
  until a -1 comes. The model starts with the set of processes that have the
  name, which may be any set. (The sample program writes a bare name, while
  `path` holds the directory too; it kills nobody.)
* A program that uses the system call instruction with number 17 itself, past
  alloc, read and write. No sample does.
* Sequential devices (`MEMPHY_mv_csr`, `MEMPHY_seq_read`, `MEMPHY_seq_write`): `main`
  makes every device a random access one, so this code is not reached.
* Priorities outside the table: excluded by `OsAssumption`, listed as a hazard.
* Heap memory that is used uncleared (`init_mm` sets neither the page table nor
  the regions nor the FIFO of a process, `ld_routine` not `active_mswp_id`):
  it reads as zero here. The loader thread has a heap arena of its own, takes
  these large blocks from fresh pages of it and never frees one, so that is what
  the build gives; small blocks that CPUs free stay with the CPUs. Stack
  variables used unset, and nodes that were freed, are any value.
* Data races on `_time`, `timer_stop` and the loader's `done` are single atomic
  accesses, as for aligned words on the machines the program is built for.
* What happens after undefined behaviour: `FreeFrames`, `RegionTable` and `OsKill` end
  where a dead node or an unset pointer is used, or a queue's size becomes
  negative. `Paging` goes on with any value of an unset variable.
* Parsing of files, printing and dumps, the stateless switch of system calls,
  `mem.c`, `paging.c` and the single-queue scheduler, which the configured
  build does not use.
* Sizes are scaled: quantum, levels, queue length, frames and pages are
  constants, the widths of the page table fields are the real ones.

## 7. Plan

1. *Done:* the models `SlotClock`, `Timer`, `ProcessLife`, `Os`, `OsHistory`,
   `PageTable`, `VirtMem`, `Paging`, `RegionTable`, `FramePool`, `FreeFrames`, `OsKill`
   and `PagingKill`, with their runs.
2. *Done:* the proofs of section 5.
3. Open: what `free_pcb_memph` breaks and keeps (`PagingKill`), and a refinement of
   the free lists of `Paging` by the nodes of `FreeFrames`.
