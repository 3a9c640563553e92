-------------------------------- MODULE FreeFrames --------------------------------
(***************************************************************************)
(* The list of free frames of one memory device (mm-memphy.c), node by     *)
(* node: MEMPHY_format, MEMPHY_get_freefp and MEMPHY_put_freefp with their *)
(* single accesses to the list, called by the threads of the CPUs.         *)
(*                                                                         *)
(* alloc_pages_range calls MEMPHY_get_freefp under mmvm_lock, in a loop;   *)
(* pg_getpage calls it and free_pcb_memph calls MEMPHY_put_freefp without  *)
(* a lock.                                                                 *)
(* A freed or unset node that is used makes defined FALSE, and the model   *)
(* ends there: what follows can be anything.                               *)
(***************************************************************************)
EXTENDS Naturals, FiniteSets

CONSTANTS Callers,      \* the threads
          Crews,        \* the crews considered: the threads that run programs,
                        \* those of them that also come from pg_getpage, and
                        \* those that also come from free_pcb_memph
          NumFrames,    \* maxsz / PAGING_PAGESZ
          NumNodes,     \* bound of this model: nodes that exist at a time
          MaxWant       \* bound of this model: frames of one alloc

Frames == 0..(NumFrames - 1)
Nodes  == 1..NumNodes
NULL   == 0
UNSET  == NumNodes + 1      \* a pointer that was never written

ASSUME FreeFramesAssumption ==
  /\ Crews \subseteq [members : SUBSET Callers, faulters : SUBSET Callers,
                      givers : SUBSET Callers]
  /\ NumFrames \in Nat /\ NumNodes \in Nat /\ NumFrames <= NumNodes
  /\ MaxWant \in Nat \ {0}

VARIABLES crew,         \* the crew of this execution
          head,         \* free_fp_list
          fpn, next,    \* the fields of the nodes
          heap,         \* the nodes that malloc has given out
          lock,         \* the holders of mmvm_lock: none or one
          at,           \* caller: "idle", "turn", "test", "unlink", "free", "put"
          want,         \* turns left of the loop of alloc_pages_range
          fp,           \* the local variable of that name
          retfpn,       \* what the call stores through its argument
          failed,       \* whether the last call returned -1
          held,         \* the frames a caller has got and not given back
          giving,       \* the frame it is giving back
          defined       \* no freed or unset node has been used

vars == <<crew, head, fpn, next, heap, lock, at, want, fp, retfpn, failed, held,
          giving, defined>>

TypeOK ==
  /\ crew \in Crews
  /\ head \in Nodes \union {NULL, UNSET}
  /\ fpn \in [Nodes -> 0..NumNodes] /\ next \in [Nodes -> Nodes \union {NULL, UNSET}]
  /\ heap \subseteq Nodes
  /\ lock \in SUBSET Callers /\ Cardinality(lock) <= 1
  /\ at \in [Callers -> {"idle", "turn", "test", "unlink", "free", "put"}]
  /\ \A u \in Callers : (at[u] = "turn") => (u \in lock)
  /\ \A u \in lock : at[u] \notin {"idle", "put"}
  /\ want \in [Callers -> 0..MaxWant]
  /\ fp \in [Callers -> Nodes \union {NULL, UNSET}]
  /\ retfpn \in [Callers -> 0..NumNodes] /\ giving \in [Callers -> 0..NumNodes]
  /\ failed \in [Callers -> BOOLEAN]
  /\ held \in [Callers -> SUBSET Frames]
  /\ defined \in BOOLEAN

--------------------------------------------------------------------------------
(* Faulty variants of definitions below, one plausible slip each.          *)

\* the link of the last node is never written
LinksUnended == [n \in Nodes |-> CASE n < NumFrames -> n + 1
                                   [] n = NumFrames -> UNSET
                                   [] OTHER         -> NULL]

\* the head stays where it is
HeadKept(u) == head

\* the turn of the loop is not counted, or twice
TurnKept(u)  == want
TurnTwice(u) == [want EXCEPT ![u] = @ - 2]

\* the list is taken for empty at its last node
EmptyEarly(u) == fp[u] = NULL \/ next[fp[u]] = NULL

--------------------------------------------------------------------------------
\* MEMPHY_format: the link of the last node is set to NULL, except that of the
\* first node, which is written with the second one
FirstLinks == [n \in Nodes |-> CASE n < NumFrames          -> n + 1
                                 [] n = 1 /\ NumFrames = 1 -> UNSET
                                 [] OTHER                  -> NULL]

\* the frames in ascending order; a device without a frame gets no list
Init ==
  /\ crew \in Crews
  /\ head = IF NumFrames = 0 THEN UNSET ELSE 1
  /\ fpn = [n \in Nodes |-> IF n <= NumFrames THEN n - 1 ELSE 0]
  /\ next = FirstLinks
  /\ heap = 1..NumFrames
  /\ lock = {} /\ defined = TRUE
  /\ at = [u \in Callers |-> "idle"] /\ want = [u \in Callers |-> 0]
  /\ fp = [u \in Callers |-> NULL]
  /\ retfpn = [u \in Callers |-> 0] /\ giving = [u \in Callers |-> 0]
  /\ failed = [u \in Callers |-> FALSE]
  /\ held = [u \in Callers |-> {}]

--------------------------------------------------------------------------------
Go(u, to) == at' = [at EXCEPT ![u] = to]

\* __alloc takes mmvm_lock for a number of frames
Lock(u) ==
  /\ at[u] = "idle" /\ lock = {}
  /\ lock' = {u}
  /\ \E n \in 1..MaxWant : want' = [want EXCEPT ![u] = n]
  /\ Go(u, "turn")
  /\ UNCHANGED <<head, fpn, next, heap, fp, retfpn, failed, held, giving, defined>>

Counted(u) == [want EXCEPT ![u] = @ - 1]

\* MEMPHY_get_freefp reads the head
ReadHead(u) ==
  /\ \/ at[u] = "turn" /\ want[u] > 0 /\ want' = Counted(u)
     \/ at[u] = "idle" /\ u \in crew.faulters /\ UNCHANGED want
  /\ fp' = [fp EXCEPT ![u] = head]
  /\ Go(u, "test")
  /\ UNCHANGED <<head, fpn, next, heap, lock, retfpn, failed, held, giving, defined>>

\* where a call returns to
Back(u) == IF u \in lock THEN "turn" ELSE "idle"

Empty(u)  == fp[u] = NULL
Usable(u) == fp[u] \in heap

\* the list is empty: return -1.  The loop goes on if another device or a victim
\* helps, or else ends here.
Refuse(u) ==
  /\ at[u] = "test" /\ Empty(u)
  /\ failed' = [failed EXCEPT ![u] = TRUE]
  /\ \E n \in {want[u], 0} : want' = [want EXCEPT ![u] = n]
  /\ Go(u, Back(u))
  /\ UNCHANGED <<head, fpn, next, heap, lock, fp, retfpn, held, giving, defined>>

\* *retfpn = fp->fpn
ReadFpn(u) ==
  /\ at[u] = "test" /\ ~Empty(u)
  /\ defined' = Usable(u)
  /\ retfpn' = [retfpn EXCEPT ![u] = IF Usable(u) THEN fpn[fp[u]] ELSE @]
  /\ Go(u, "unlink")
  /\ UNCHANGED <<head, fpn, next, heap, lock, want, fp, failed, held, giving>>

\* mp->free_fp_list = fp->fp_next
NextHead(u) == next[fp[u]]

Unlink(u) ==
  /\ at[u] = "unlink"
  /\ defined' = Usable(u)
  /\ head' = NextHead(u)
  /\ Go(u, "free")
  /\ UNCHANGED <<fpn, next, heap, lock, want, fp, retfpn, failed, held, giving>>

\* free(fp) and return 0
FreeNode(u) ==
  /\ at[u] = "free"
  /\ defined' = Usable(u)
  /\ heap' = heap \ {fp[u]}
  /\ held' = [held EXCEPT ![u] = @ \union {retfpn[u]}]
  /\ failed' = [failed EXCEPT ![u] = FALSE]
  /\ Go(u, Back(u))
  /\ UNCHANGED <<head, fpn, next, lock, want, fp, retfpn, giving>>

\* the end of __alloc
Unlock(u) ==
  /\ at[u] = "turn" /\ want[u] = 0
  /\ lock' = lock \ {u}
  /\ Go(u, "idle")
  /\ UNCHANGED <<head, fpn, next, heap, want, fp, retfpn, failed, held, giving, defined>>

\* MEMPHY_put_freefp reads the head
PutRead(u) ==
  /\ u \in crew.givers /\ at[u] = "idle"
  /\ \E f \in held[u] : giving' = [giving EXCEPT ![u] = f]
  /\ fp' = [fp EXCEPT ![u] = head]
  /\ Go(u, "put")
  /\ UNCHANGED <<head, fpn, next, heap, lock, want, retfpn, failed, held, defined>>

Linked(u, n) == [next EXCEPT ![n] = fp[u]]

\* and makes a new node the head
PutLink(u) ==
  /\ at[u] = "put"
  /\ \E n \in Nodes \ heap :
       /\ heap' = heap \union {n}
       /\ fpn' = [fpn EXCEPT ![n] = giving[u]]
       /\ next' = Linked(u, n)
       /\ head' = n
  /\ held' = [held EXCEPT ![u] = @ \ {giving[u]}]
  /\ Go(u, "idle")
  /\ UNCHANGED <<lock, want, fp, retfpn, failed, giving, defined>>

\* the steps of a call that has begun
CallStep(u) ==
  \/ Refuse(u) \/ ReadFpn(u) \/ Unlink(u) \/ FreeNode(u)
  \/ PutLink(u)

AllocStep(u) == at[u] = "turn" /\ (ReadHead(u) \/ Unlock(u))

Next ==
  /\ defined
  /\ \E u \in crew.members :
       Lock(u) \/ ReadHead(u) \/ Unlock(u) \/ PutRead(u) \/ CallStep(u)
  /\ UNCHANGED crew

Spec == Init /\ [][Next]_vars

\* the operations a thread has begun go on; whether it begins one is its own choice
FairSpec ==
  Spec /\ \A u \in Callers :
    WF_vars(defined /\ (CallStep(u) \/ AllocStep(u)) /\ UNCHANGED crew)

--------------------------------------------------------------------------------
(* Properties.                                                             *)

\* the nodes reached from the head
Chain ==
  LET node[k \in 0..NumNodes] ==
        IF k = 0 THEN head
        ELSE IF node[k - 1] \in Nodes THEN next[node[k - 1]] ELSE node[k - 1]
  IN  {node[k] : k \in 0..NumNodes}

Listed   == {fpn[n] : n \in Chain \intersect Nodes}
Holds(u) == held[u] \union IF at[u] = "free" THEN {retfpn[u]} ELSE {}

\* A frame is on the list or with one caller, never with two, never with one and
\* on the list, and never nowhere: MEMPHY_get_freefp hands a frame out once.
OneHolder ==
  /\ \A u, v \in Callers : Holds(u) \intersect Holds(v) # {} => u = v
  /\ Listed \intersect UNION {Holds(u) : u \in Callers} = {}
  /\ Listed \union UNION {Holds(u) : u \in Callers} = Frames

\* No call follows a pointer to a node that was freed, or one that was never
\* written: "init head of free framephy list" and "list with first element, fill
\* in the rest" (MEMPHY_format) leave a list that ends.
NoStrayUse == defined

\* A call or an alloc that has begun returns.
Returns == \A u \in Callers : at[u] # "idle" ~> at[u] = "idle"

Pool == INSTANCE FramePool
          WITH free    <- Listed,
               holding <- [u \in Callers |-> Holds(u)],
               refused <- [u \in Callers |-> failed[u] /\ at[u] # "free"]

\* The list does what a device promises.
ImplementsFramePool == Pool!PoolSpec
================================================================================
