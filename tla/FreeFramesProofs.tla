----------------------------- MODULE FreeFramesProofs -----------------------------
(***************************************************************************)
(* Proofs about FreeFrames.tla for every number of frames, nodes and       *)
(* callers.                                                                *)
(*                                                                         *)
(* Type correctness holds for every crew.  The other theorems are for      *)
(* crews whose calls never overlap, and for devices of two frames or more: *)
(* then the list is a chain of nodes s[1], ..., s[len] (ListOf), which     *)
(* MEMPHY_get_freefp shortens at its head and MEMPHY_put_freefp extends    *)
(* there, and its frames and those of the callers are all frames, each     *)
(* once.                                                                   *)
(***************************************************************************)
EXTENDS FreeFrames, Integers, TLAPS, FiniteSetTheorems

\* A caller that is past the test has a node, and the frame it has read is one of
\* the device; the nodes that malloc has given out hold frames of the device.
FieldInv ==
  /\ lock = {} \/ \E u \in Callers : lock = {u}
  /\ \A n \in heap : fpn[n] \in Frames
  /\ \A u \in Callers : at[u] = "put" => giving[u] \in Frames
  /\ defined => \A u \in Callers : at[u] \in {"unlink", "free"} =>
       fp[u] \in Nodes /\ retfpn[u] \in Frames

TInv == TypeOK /\ FieldInv

--------------------------------------------------------------------------------
(* Types, for every crew.                                                  *)

\* One holder of mmvm_lock is at most one.
LEMMA OneLock == ASSUME NEW L, L = {} \/ \E u : L = {u} PROVE Cardinality(L) <= 1
<1>1. CASE L = {}
  BY <1>1, FS_EmptySet
<1>2. CASE \E u : L = {u}
  <2>1. PICK u : L = {u}
    BY <1>2
  <2>2. Cardinality({u}) = 1
    BY FS_Singleton
  <2>3. QED
    BY <2>1, <2>2
<1>3. QED
  BY <1>1, <1>2

\* MEMPHY_format makes a list of nodes that hold the frames of the device.
LEMMA InitTInv == Init => TInv
<1> SUFFICES ASSUME Init PROVE TInv
  OBVIOUS
<1> USE FreeFramesAssumption DEF Init, Nodes, NULL, UNSET
<1>1. FieldInv
  <2>1. \A n \in heap : fpn[n] \in Frames
    BY DEF Frames
  <2>2. QED
    BY <2>1 DEF FieldInv
<1>2. fpn \in [Nodes -> 0..NumNodes]
  OBVIOUS
<1>3. next \in [Nodes -> Nodes \union {NULL, UNSET}]
  <2>1. \A n \in Nodes : FirstLinks[n] \in Nodes \union {NULL, UNSET}
    BY DEF FirstLinks
  <2>2. QED
    BY <2>1 DEF FirstLinks
<1>4. /\ head \in Nodes \union {NULL, UNSET} /\ heap \subseteq Nodes
      /\ want \in [Callers -> 0..MaxWant] /\ fp \in [Callers -> Nodes \union {NULL, UNSET}]
      /\ retfpn \in [Callers -> 0..NumNodes] /\ giving \in [Callers -> 0..NumNodes]
  OBVIOUS
<1>5. Cardinality(lock) <= 1
  BY OneLock
<1>6. QED
  BY <1>1, <1>2, <1>3, <1>4, <1>5 DEF TInv, TypeOK

\* A step of any caller keeps the types, in whatever order the callers step.
LEMMA CallerTInv ==
  ASSUME TInv, defined, NEW u \in Callers, UNCHANGED crew,
         Lock(u) \/ ReadHead(u) \/ Unlock(u) \/ PutRead(u) \/ CallStep(u)
  PROVE  TInv'
<1>0. TypeOK /\ FieldInv
  BY DEF TInv
<1> USE FreeFramesAssumption
<1>1. CASE Lock(u)
  <2>1. lock' = {u} /\ Cardinality(lock') <= 1
    BY <1>1, OneLock DEF Lock
  <2>2. TypeOK'
    BY <1>0, <1>1, <2>1 DEF Lock, Go, TypeOK
  <2>3. FieldInv'
    BY <1>0, <1>1, <2>1 DEF Lock, Go, TypeOK, FieldInv
  <2>4. QED
    BY <2>2, <2>3 DEF TInv
<1>2. CASE ReadHead(u)
  <2>1. TypeOK'
    BY <1>0, <1>2 DEF ReadHead, Counted, Go, TypeOK
  <2>2. FieldInv'
    BY <1>0, <1>2 DEF ReadHead, Go, TypeOK, FieldInv
  <2>3. QED
    BY <2>1, <2>2 DEF TInv
<1>3. CASE Unlock(u)
  <2>1. lock' = {} \/ \E v \in Callers : lock' = {v}
    BY <1>0, <1>3 DEF Unlock, FieldInv
  <2>2. Cardinality(lock') <= 1
    BY <2>1, OneLock
  <2>3. TypeOK'
    BY <1>0, <1>3, <2>2 DEF Unlock, Go, TypeOK
  <2>4. FieldInv'
    BY <1>0, <1>3, <2>1 DEF Unlock, Go, TypeOK, FieldInv
  <2>5. QED
    BY <2>3, <2>4 DEF TInv
<1>4. CASE PutRead(u)
  <2>1. \A f \in Frames : f \in 0..NumNodes
    BY DEF Frames
  <2>2. PICK f \in held[u] : giving' = [giving EXCEPT ![u] = f]
    BY <1>4 DEF PutRead
  <2>3. f \in Frames
    BY <1>0 DEF TypeOK
  <2>4. TypeOK'
    BY <1>0, <1>4, <2>1, <2>2, <2>3 DEF PutRead, Go, TypeOK
  <2>5. FieldInv'
    BY <1>0, <1>4, <2>2, <2>3 DEF PutRead, Go, TypeOK, FieldInv
  <2>6. QED
    BY <2>4, <2>5 DEF TInv
<1>5. CASE Refuse(u)
  <2>1. TypeOK'
    BY <1>0, <1>5 DEF Refuse, Back, Go, TypeOK
  <2>2. FieldInv'
    BY <1>0, <1>5 DEF Refuse, Back, Go, TypeOK, FieldInv
  <2>3. QED
    BY <2>1, <2>2 DEF TInv
<1>6. CASE ReadFpn(u)
  <2>1. TypeOK'
    BY <1>0, <1>6 DEF ReadFpn, Usable, Go, TypeOK
  <2>2. FieldInv'
    BY <1>0, <1>6 DEF ReadFpn, Usable, Go, TypeOK, FieldInv
  <2>3. QED
    BY <2>1, <2>2 DEF TInv
<1>7. CASE Unlink(u)
  <2>1. fp[u] \in Nodes
    BY <1>0, <1>7 DEF Unlink, FieldInv
  <2>2. TypeOK'
    BY <1>0, <1>7, <2>1 DEF Unlink, NextHead, Usable, Go, TypeOK
  <2>3. FieldInv'
    BY <1>0, <1>7 DEF Unlink, Go, TypeOK, FieldInv
  <2>4. QED
    BY <2>2, <2>3 DEF TInv
<1>8. CASE FreeNode(u)
  <2>1. retfpn[u] \in Frames
    BY <1>0, <1>8 DEF FreeNode, FieldInv
  <2>2. TypeOK'
    BY <1>0, <1>8, <2>1 DEF FreeNode, Usable, Back, Go, TypeOK
  <2>3. FieldInv'
    BY <1>0, <1>8 DEF FreeNode, Back, Go, TypeOK, FieldInv
  <2>4. QED
    BY <2>2, <2>3 DEF TInv
<1>9. CASE PutLink(u)
  <2>1. PICK n \in Nodes \ heap :
          /\ heap' = heap \union {n} /\ fpn' = [fpn EXCEPT ![n] = giving[u]]
          /\ next' = [next EXCEPT ![n] = fp[u]] /\ head' = n
    BY <1>9 DEF PutLink, Linked
  <2>2. giving[u] \in Frames
    BY <1>0, <1>9 DEF PutLink, FieldInv
  <2>3. TypeOK'
    BY <1>0, <1>9, <2>1 DEF PutLink, Go, TypeOK
  <2>4. FieldInv'
    BY <1>0, <1>9, <2>1, <2>2 DEF PutLink, Go, TypeOK, FieldInv
  <2>5. QED
    BY <2>3, <2>4 DEF TInv
<1>10. QED
  BY <1>1, <1>2, <1>3, <1>4, <1>5, <1>6, <1>7, <1>8, <1>9 DEF CallStep

\* Every step keeps the types.
LEMMA NextTInv == TInv /\ [Next]_vars => TInv'
<1> SUFFICES ASSUME TInv, [Next]_vars PROVE TInv'
  OBVIOUS
<1>1. CASE Next
  <2>1. crew.members \subseteq Callers
    BY FreeFramesAssumption DEF TInv, TypeOK
  <2>2. QED
    BY <1>1, <2>1, CallerTInv DEF Next
<1>2. CASE UNCHANGED vars
  BY <1>2 DEF vars, TInv, TypeOK, FieldInv
<1>3. QED
  BY <1>1, <1>2

\* The list, the nodes and the callers have their types for every crew, in
\* whatever order the accesses of MEMPHY_get_freefp and MEMPHY_put_freefp come:
\* nobody ever holds what is not a frame of the device.
THEOREM TypeCorrect == Spec => []TypeOK
<1>1. TInv => TypeOK
  BY DEF TInv
<1>2. QED
  BY <1>1, InitTInv, NextTInv, PTL DEF Spec

--------------------------------------------------------------------------------
(* The invariant of a list whose calls do not overlap.                     *)

\* The crews whose calls never overlap: allocs only, which mmvm_lock keeps apart,
\* or one thread.
Serial ==
  \A k \in Crews : \/ k.faulters = {} /\ k.givers = {}
                   \/ \A u, v \in k.members : u = v

\* One caller at a time is in a call, and what it has read still holds.
CallInv ==
  /\ \A u \in Callers : at[u] # "idle" => u \in crew.members
  /\ \A u \in lock : at[u] # "idle"
  /\ crew.faulters = {} /\ crew.givers = {} =>
       \A u \in Callers : at[u] # "idle" => u \in lock /\ at[u] # "put"
  /\ \A u \in Callers : at[u] \in {"test", "unlink", "put"} => fp[u] = head
  /\ \A u \in Callers : at[u] = "unlink" => head # NULL /\ retfpn[u] = fpn[head]
  /\ \A u \in Callers : at[u] = "free" => fp[u] \in heap
  /\ \A u \in Callers : at[u] = "put" => giving[u] \in held[u]

\* The list is s[1], ..., s[len]: nodes of malloc that hold different frames, each
\* linked to the one behind it.
ListOf(len, s) ==
  /\ s \in [1..len -> heap]
  /\ head = IF len = 0 THEN NULL ELSE s[1]
  /\ \A k \in 1..len : next[s[k]] = IF k = len THEN NULL ELSE s[k + 1]
  /\ \A j, k \in 1..len : fpn[s[j]] = fpn[s[k]] => j = k

\* Every frame is on the list or with one caller, and the node that a call is
\* about to free is off the list.
Shared(len, s) ==
  /\ \A u \in Callers : at[u] = "free" => \A k \in 1..len : s[k] # fp[u]
  /\ \A u, v \in Callers : \A f \in Holds(u) : f \in Holds(v) => u = v
  /\ \A u \in Callers : \A k \in 1..len : fpn[s[k]] \notin Holds(u)
  /\ \A f \in Frames : \/ \E k \in 1..len : fpn[s[k]] = f
                       \/ \E u \in Callers : f \in Holds(u)

Listing(len, s) == ListOf(len, s) /\ Shared(len, s)

IInv ==
  /\ TInv /\ CallInv /\ defined
  /\ \E len \in Nat : \E s : Listing(len, s)

--------------------------------------------------------------------------------
(* What Chain computes.                                                    *)

\* A node of the list is a node of the device.
LEMMA ListNodes ==
  ASSUME TInv, NEW len \in Nat, NEW s, ListOf(len, s)
  PROVE  /\ \A k \in 1..len : s[k] \in Nodes /\ s[k] \in heap /\ fpn[s[k]] \in Frames
         /\ \A j, k \in 1..len : s[j] = s[k] => j = k
         /\ NumNodes \in Nat /\ NULL \notin Nodes /\ len <= NumNodes
<1>1. \A k \in 1..len : s[k] \in Nodes /\ s[k] \in heap /\ fpn[s[k]] \in Frames
  BY DEF TInv, TypeOK, FieldInv, ListOf
<1>2. \A j, k \in 1..len : s[j] = s[k] => j = k
  BY DEF ListOf
<1>3. NumNodes \in Nat /\ NULL \notin Nodes
  BY FreeFramesAssumption DEF NULL, Nodes
<1>4. s \in Injection(1..len, Nodes)
  <2>1. s \in [1..len -> Nodes]
    BY <1>1 DEF ListOf
  <2>2. QED
    BY <1>2, <2>1 DEF Injection, IsInjective
<1>5. /\ IsFiniteSet(Nodes) /\ Cardinality(Nodes) = NumNodes
      /\ Cardinality(1..len) = len
  <2>1. \A n \in Nat : IsFiniteSet(1..n) /\ Cardinality(1..n) = n
    BY FS_Interval
  <2>2. QED
    BY <1>3, <2>1 DEF Nodes
<1>6. Cardinality(1..len) <= Cardinality(Nodes)
  BY <1>4, <1>5, FS_Injection
<1>7. QED
  BY <1>1, <1>2, <1>3, <1>5, <1>6

\* the equation of the function that Chain follows
Reached(g) ==
  g = [k \in 0..NumNodes |->
         IF k = 0 THEN head
         ELSE IF g[k - 1] \in Nodes THEN next[g[k - 1]] ELSE g[k - 1]]

\* The equation has at most one solution.
LEMMA ReachedOnce ==
  ASSUME NEW f, NEW g, Reached(f), Reached(g), NumNodes \in Nat
  PROVE  f = g
<1> DEFINE D == {k \in 0..NumNodes : f[k] # g[k]}
<1>1. D = {}
  <2> SUFFICES ASSUME D # {} PROVE FALSE
    OBVIOUS
  <2> DEFINE Less == {ss \in Nat \X Nat : ss[1] < ss[2]}
  <2>1. IsWellFoundedOn(Less, Nat)
    BY NatLessThanWellFounded DEF OpToRel
  <2>2. D \subseteq Nat
    OBVIOUS
  <2>3. PICK k \in D : \A j \in D : <<j, k>> \notin Less
    <3> HIDE DEF Less, D
    <3> QED
      BY <2>1, <2>2, WFMin
  <2>4. k # 0
    BY DEF Reached
  <2>5. k - 1 \in 0..NumNodes
    BY <2>4
  <2>6. <<k - 1, k>> \in Less
    <3>1. k - 1 \in Nat /\ k \in Nat /\ k - 1 < k
      BY <2>5
    <3>2. <<k - 1, k>> \in Nat \X Nat /\ <<k - 1, k>>[1] < <<k - 1, k>>[2]
      BY <3>1
    <3>3. QED
      BY <3>2, Zenon
  <2>7. k - 1 \notin D
    BY <2>3, <2>6, Zenon
  <2>8. f[k - 1] = g[k - 1]
    BY <2>5, <2>7
  <2>9. f[k] = g[k]
    BY <2>4, <2>5, <2>8 DEF Reached
  <2>10. QED
    BY <2>9
<1>2. f = [k \in 0..NumNodes |-> f[k]] /\ g = [k \in 0..NumNodes |-> g[k]]
  BY DEF Reached
<1>3. QED
  BY <1>1, <1>2

\* What is reached from the head are the nodes of the list, and what ends it.
LEMMA ChainNodes ==
  ASSUME TInv, NEW len \in Nat, NEW s, ListOf(len, s)
  PROVE  Chain \intersect Nodes = {s[k] : k \in 1..len}
<1> DEFINE g == [k \in 0..NumNodes |-> IF k < len THEN s[k + 1] ELSE NULL]
<1>0. /\ \A k \in 1..len : s[k] \in Nodes
      /\ NumNodes \in Nat /\ NULL \notin Nodes /\ len <= NumNodes
  BY ListNodes
<1>1. Reached(g)
  <2>1. \A k \in 0..NumNodes :
          g[k] = IF k = 0 THEN head
                 ELSE IF g[k - 1] \in Nodes THEN next[g[k - 1]] ELSE g[k - 1]
    <3> SUFFICES ASSUME NEW k \in 0..NumNodes
                 PROVE g[k] = IF k = 0 THEN head
                              ELSE IF g[k - 1] \in Nodes THEN next[g[k - 1]] ELSE g[k - 1]
      OBVIOUS
    <3>1. CASE k = 0
      BY <1>0, <3>1 DEF ListOf
    <3>2. CASE k # 0 /\ k - 1 < len
      <4>1. k \in 1..len /\ g[k - 1] = s[k] /\ s[k] \in Nodes
        BY <1>0, <3>2
      <4>2. next[s[k]] = IF k = len THEN NULL ELSE s[k + 1]
        BY <4>1 DEF ListOf
      <4>3. QED
        BY <1>0, <3>2, <4>1, <4>2
    <3>3. CASE k # 0 /\ ~(k - 1 < len)
      BY <1>0, <3>3
    <3>4. QED
      BY <3>1, <3>2, <3>3
  <2>2. QED
    BY <2>1 DEF Reached
<1>2. Chain = {g[k] : k \in 0..NumNodes}
  <2> HIDE DEF g
  <2>1. Reached(CHOOSE h : Reached(h))
    BY <1>1
  <2>2. (CHOOSE h : Reached(h)) = g
    BY <1>0, <1>1, <2>1, ReachedOnce
  <2>3. Chain = {(CHOOSE h : Reached(h))[k] : k \in 0..NumNodes}
    BY DEF Chain, Reached
  <2>4. QED
    BY <2>2, <2>3
<1>3. \A k \in 1..len : s[k] = g[k - 1] /\ k - 1 \in 0..NumNodes
  BY <1>0
<1>4. \A k \in 0..NumNodes : g[k] \in Nodes => k + 1 \in 1..len /\ g[k] = s[k + 1]
  BY <1>0
<1>5. QED
  <2> HIDE DEF g
  <2> QED
    BY <1>0, <1>2, <1>3, <1>4

\* Listed is what the nodes of a list hold.
ListedIs ==
  \A len \in Nat : \A s :
    TInv /\ ListOf(len, s) => Listed = {fpn[s[k]] : k \in 1..len}

\* The frames on the list are those of its nodes.
LEMMA ListedFrames == ListedIs
<1> SUFFICES ASSUME NEW len \in Nat, NEW s, TInv, ListOf(len, s)
             PROVE  Listed = {fpn[s[k]] : k \in 1..len}
  BY DEF ListedIs
<1>1. Chain \intersect Nodes = {s[k] : k \in 1..len}
  BY ChainNodes
<1>2. QED
  BY <1>1 DEF Listed

--------------------------------------------------------------------------------
(* The steps.                                                              *)

\* The callers of a serial crew are in a call one at a time.
LEMMA OneCall ==
  ASSUME TInv, CallInv, Serial
  PROVE  \A u, v \in Callers : at[u] # "idle" /\ at[v] # "idle" => u = v
<1>1. crew \in Crews
  BY DEF TInv, TypeOK
<1>2. CASE crew.faulters = {} /\ crew.givers = {}
  BY <1>2 DEF CallInv, TInv, FieldInv
<1>3. CASE \A u, v \in crew.members : u = v
  BY <1>3 DEF CallInv
<1>4. QED
  BY <1>1, <1>2, <1>3 DEF Serial

\* MEMPHY_format links the nodes in the order of their numbers.
LEMMA InitIInv == NumFrames >= 2 /\ Init => IInv
<1> SUFFICES ASSUME NumFrames >= 2, Init PROVE IInv
  OBVIOUS
<1> USE FreeFramesAssumption
<1>1. TInv
  BY InitTInv
<1>2. CallInv /\ defined
  BY DEF Init, CallInv
<1> DEFINE s == [k \in 1..NumFrames |-> k]
<1>3. \A k \in 1..NumFrames : k \in Nodes /\ s[k] = k /\ fpn[s[k]] = k - 1
  BY DEF Init, Nodes
<1>4. ListOf(NumFrames, s)
  <2>1. s \in [1..NumFrames -> heap] /\ head = s[1] /\ NumFrames # 0
    BY DEF Init
  <2>2. \A k \in 1..NumFrames :
          next[s[k]] = IF k = NumFrames THEN NULL ELSE s[k + 1]
    <3> SUFFICES ASSUME NEW k \in 1..NumFrames
                 PROVE next[s[k]] = IF k = NumFrames THEN NULL ELSE s[k + 1]
      OBVIOUS
    <3>1. next[s[k]] = FirstLinks[k] /\ k \in Nodes /\ k <= NumFrames
      <4>1. s[k] = k /\ k \in Nodes
        BY <1>3
      <4>2. next = FirstLinks
        BY DEF Init
      <4>3. QED
        BY <4>1, <4>2
    <3>2. CASE k < NumFrames
      <4>1. FirstLinks[k] = k + 1
        BY <3>1, <3>2 DEF FirstLinks
      <4>2. QED
        BY <3>1, <3>2, <4>1
    <3>3. CASE k = NumFrames
      <4>1. FirstLinks[k] = NULL
        BY <3>1, <3>3 DEF FirstLinks
      <4>2. QED
        BY <3>1, <3>3, <4>1
    <3>4. QED
      BY <3>1, <3>2, <3>3
  <2>3. \A j, k \in 1..NumFrames : fpn[s[j]] = fpn[s[k]] => j = k
    BY <1>3
  <2>4. QED
    BY <2>1, <2>2, <2>3 DEF ListOf
<1>5. Shared(NumFrames, s)
  <2>1. \A u \in Callers : Holds(u) = {} /\ at[u] = "idle"
    BY DEF Init, Holds
  <2>2. \A f \in Frames : \E k \in 1..NumFrames : fpn[s[k]] = f
    <3> SUFFICES ASSUME NEW f \in Frames PROVE \E k \in 1..NumFrames : fpn[s[k]] = f
      OBVIOUS
    <3>1. f + 1 \in 1..NumFrames /\ (f + 1) - 1 = f
      BY DEF Frames
    <3>2. QED
      BY <1>3, <3>1
  <2>3. QED
    BY <2>1, <2>2 DEF Shared
<1>6. NumFrames \in Nat
  OBVIOUS
<1>7. QED
  BY <1>1, <1>2, <1>4, <1>5, <1>6 DEF IInv, Listing

\* A step that touches neither the list nor what is held leaves the listing.
LEMMA ListKept ==
  ASSUME NEW len \in Nat, NEW s, Listing(len, s),
         UNCHANGED <<head, fpn, next, heap, held>>,
         \A v \in Callers : at'[v] = "free" <=> at[v] = "free",
         \A v \in Callers : at[v] = "free" => fp'[v] = fp[v] /\ retfpn'[v] = retfpn[v]
  PROVE  Listing(len, s)' /\ \A v \in Callers : Holds(v)' = Holds(v)
<1>1. \A v \in Callers : Holds(v)' = Holds(v)
  BY DEF Holds
<1>2. ListOf(len, s)'
  BY DEF Listing, ListOf
<1>3. Shared(len, s)'
  BY <1>1 DEF Listing, Shared
<1>4. QED
  BY <1>1, <1>2, <1>3 DEF Listing

\* what the steps start from
Before(len, s) == TInv /\ CallInv /\ defined /\ Serial /\ Listing(len, s)

\* mp->free_fp_list = fp->fp_next: the list begins behind its first node, whose
\* frame is now with the caller.
LEMMA UnlinkStep ==
  ASSUME NEW len \in Nat, NEW s, Before(len, s), NEW u \in Callers, Unlink(u),
         UNCHANGED crew
  PROVE  /\ len > 0 /\ fp[u] = s[1] /\ retfpn[u] = fpn[s[1]] /\ defined'
         /\ Listing(len - 1, [k \in 1..(len - 1) |-> s[k + 1]])'
         /\ Holds(u)' = Holds(u) \union {retfpn[u]}
         /\ \A v \in Callers \ {u} : Holds(v)' = Holds(v)
<1> DEFINE r == [k \in 1..(len - 1) |-> s[k + 1]]
<1>0. /\ \A k \in 1..len : s[k] \in Nodes /\ s[k] \in heap /\ fpn[s[k]] \in Frames
      /\ \A j, k \in 1..len : s[j] = s[k] => j = k
      /\ NULL \notin Nodes
  BY ListNodes DEF Before, Listing
<1>1. \A v \in Callers : at[v] # "idle" => v = u
  <2>1. at[u] # "idle"
    BY DEF Unlink
  <2>2. QED
    BY <2>1, OneCall DEF Before
<1>2. /\ at \in [Callers -> {"idle", "turn", "test", "unlink", "free", "put"}]
      /\ at' = [at EXCEPT ![u] = "free"] /\ at[u] = "unlink"
      /\ UNCHANGED <<fpn, next, heap, fp, retfpn, held>>
      /\ head' = next[fp[u]] /\ (defined' = (fp[u] \in heap))
  BY DEF Unlink, Go, Usable, NextHead, Before, TInv, TypeOK
<1>3. fp[u] = head /\ head # NULL /\ retfpn[u] = fpn[head]
  BY <1>2 DEF Before, CallInv
<1>4. len > 0 /\ head = s[1]
  BY <1>3 DEF Before, Listing, ListOf
<1>5. defined' /\ \A k \in 1..(len - 1) : k + 1 \in 1..len /\ r[k] = s[k + 1]
  <2>1. fp[u] \in heap
    BY <1>0, <1>3, <1>4
  <2>2. defined'
    BY <1>2, <2>1
  <2>3. \A k \in 1..(len - 1) : k + 1 \in 1..len /\ r[k] = s[k + 1]
    OBVIOUS
  <2>4. QED
    BY <2>2, <2>3
<1>6. Holds(u)' = Holds(u) \union {retfpn[u]} /\ \A v \in Callers \ {u} : Holds(v)' = Holds(v)
  BY <1>2 DEF Holds
<1>7. ListOf(len - 1, r)'
  <2>1. r \in [1..(len - 1) -> heap']
    BY <1>0, <1>2, <1>5
  <2>2. head' = IF len - 1 = 0 THEN NULL ELSE r[1]
    <3>1. next[s[1]] = IF 1 = len THEN NULL ELSE s[2]
      BY <1>4 DEF Before, Listing, ListOf
    <3>2. QED
      BY <1>2, <1>3, <1>4, <3>1
  <2>3. \A k \in 1..(len - 1) : next'[r[k]] = IF k = len - 1 THEN NULL ELSE r[k + 1]
    <3> SUFFICES ASSUME NEW k \in 1..(len - 1)
                 PROVE next'[r[k]] = IF k = len - 1 THEN NULL ELSE r[k + 1]
      OBVIOUS
    <3>1. k + 1 \in 1..len
      OBVIOUS
    <3>2. next[s[k + 1]] = IF k + 1 = len THEN NULL ELSE s[k + 2]
      BY <3>1 DEF Before, Listing, ListOf
    <3>3. QED
      BY <1>2, <3>2
  <2>4. \A j, k \in 1..(len - 1) : fpn'[r[j]] = fpn'[r[k]] => j = k
    BY <1>2, <1>5 DEF Before, Listing, ListOf
  <2>5. QED
    BY <2>1, <2>2, <2>3, <2>4 DEF ListOf
<1>8. Shared(len - 1, r)'
  <2>0. /\ \A v, w \in Callers : \A f \in Holds(v) : f \in Holds(w) => v = w
        /\ \A v \in Callers : \A k \in 1..len : fpn[s[k]] \notin Holds(v)
        /\ \A f \in Frames : \/ \E k \in 1..len : fpn[s[k]] = f
                             \/ \E v \in Callers : f \in Holds(v)
        /\ \A j, k \in 1..len : fpn[s[j]] = fpn[s[k]] => j = k
    BY DEF Before, Listing, ListOf, Shared
  <2> HIDE DEF r
  <2>1. \A v \in Callers : at'[v] = "free" => \A k \in 1..(len - 1) : r[k] # fp'[v]
    <3>1. \A v \in Callers : at'[v] = "free" => v = u
      BY <1>1, <1>2
    <3>2. \A k \in 1..(len - 1) : r[k] # s[1]
      BY <1>0, <1>4, <1>5
    <3>3. QED
      BY <1>2, <1>3, <1>4, <3>1, <3>2
  <2>2. \A v, w \in Callers : \A f \in Holds(v)' : f \in Holds(w)' => v = w
    BY <1>3, <1>4, <1>6, <2>0
  <2>3. \A v \in Callers : \A k \in 1..(len - 1) : fpn'[r[k]] \notin Holds(v)'
    <3>1. \A k \in 1..(len - 1) : fpn[r[k]] # fpn[s[1]]
      BY <1>4, <1>5, <2>0
    <3>2. QED
      BY <1>2, <1>3, <1>4, <1>5, <1>6, <2>0, <3>1
  <2>4. \A f \in Frames : \/ \E k \in 1..(len - 1) : fpn'[r[k]] = f
                          \/ \E v \in Callers : f \in Holds(v)'
    <3> SUFFICES ASSUME NEW f \in Frames, \A v \in Callers : f \notin Holds(v)'
                 PROVE \E k \in 1..(len - 1) : fpn'[r[k]] = f
      OBVIOUS
    <3>1. PICK k \in 1..len : fpn[s[k]] = f
      BY <1>6, <2>0
    <3>2. k # 1
      BY <1>3, <1>4, <1>6, <3>1
    <3>3. k - 1 \in 1..(len - 1) /\ (k - 1) + 1 = k
      BY <3>2
    <3>4. r[k - 1] = s[k]
      BY <1>5, <3>3
    <3>5. QED
      BY <1>2, <3>1, <3>3, <3>4
  <2>5. QED
    BY <2>1, <2>2, <2>3, <2>4 DEF Shared
<1>9. QED
  BY <1>3, <1>4, <1>5, <1>6, <1>7, <1>8 DEF Listing

\* free(fp): the node is off the list and its frame stays with the caller.
LEMMA FreeNodeStep ==
  ASSUME NEW len \in Nat, NEW s, Before(len, s), NEW u \in Callers, FreeNode(u),
         UNCHANGED crew
  PROVE  /\ Listing(len, s)' /\ defined'
         /\ \A v \in Callers : Holds(v)' = Holds(v)
<1>0. \A k \in 1..len : s[k] \in Nodes /\ s[k] \in heap
  BY ListNodes DEF Before, Listing
<1>1. \A v \in Callers : at[v] # "idle" => v = u
  <2>1. at[u] # "idle"
    BY DEF FreeNode
  <2>2. QED
    BY <2>1, OneCall DEF Before
<1>2. /\ at' = [at EXCEPT ![u] = Back(u)] /\ at[u] = "free"
      /\ held' = [held EXCEPT ![u] = @ \union {retfpn[u]}]
      /\ UNCHANGED <<fpn, next, fp, retfpn, head>>
      /\ heap' = heap \ {fp[u]} /\ (defined' = (fp[u] \in heap))
  BY DEF FreeNode, Go, Usable
<1>3. /\ at \in [Callers -> {"idle", "turn", "test", "unlink", "free", "put"}]
      /\ held \in [Callers -> SUBSET Frames]
      /\ Back(u) \in {"idle", "turn"}
  BY DEF Before, TInv, TypeOK, Back
<1>4. defined'
  BY <1>2 DEF Before, CallInv
<1>5. \A v \in Callers : Holds(v)' = Holds(v)
  <2>1. Holds(u)' = Holds(u)
    BY <1>2, <1>3 DEF Holds
  <2>2. \A v \in Callers \ {u} : Holds(v)' = Holds(v)
    BY <1>2, <1>3 DEF Holds
  <2>3. QED
    BY <2>1, <2>2
<1>6. \A k \in 1..len : s[k] # fp[u]
  BY <1>2 DEF Before, Listing, Shared
<1>7. ListOf(len, s)'
  <2>1. s \in [1..len -> heap']
    BY <1>0, <1>2, <1>6 DEF Before, Listing, ListOf
  <2>2. QED
    BY <1>2, <2>1 DEF Before, Listing, ListOf
<1>8. Shared(len, s)'
  <2>1. \A v \in Callers : at'[v] # "free"
    BY <1>1, <1>2, <1>3
  <2>2. QED
    BY <1>2, <1>5, <2>1 DEF Before, Listing, Shared
<1>9. QED
  BY <1>4, <1>5, <1>7, <1>8 DEF Listing

\* MEMPHY_put_freefp: a new node with the frame comes before the first one.
LEMMA PutLinkStep ==
  ASSUME NEW len \in Nat, NEW s, Before(len, s), NEW u \in Callers, PutLink(u),
         UNCHANGED crew
  PROVE  \E r : /\ Listing(len + 1, r)' /\ defined'
                /\ fpn'[r[1]] = giving[u]
                /\ \A k \in 1..len : fpn'[r[k + 1]] = fpn[s[k]]
                /\ giving[u] \in Holds(u) /\ Holds(u)' = Holds(u) \ {giving[u]}
                /\ \A v \in Callers \ {u} : Holds(v)' = Holds(v)
<1>0. /\ \A k \in 1..len : s[k] \in Nodes /\ s[k] \in heap /\ fpn[s[k]] \in Frames
      /\ NULL \notin Nodes
  BY ListNodes DEF Before, Listing
<1>1. \A v \in Callers : at[v] # "idle" => v = u
  <2>1. at[u] # "idle"
    BY DEF PutLink
  <2>2. QED
    BY <2>1, OneCall DEF Before
<1>2. PICK n \in Nodes \ heap :
        /\ heap' = heap \union {n} /\ fpn' = [fpn EXCEPT ![n] = giving[u]]
        /\ next' = [next EXCEPT ![n] = fp[u]] /\ head' = n
  BY DEF PutLink, Linked
<1> DEFINE r == [k \in 1..(len + 1) |-> IF k = 1 THEN n ELSE s[k - 1]]
<1>3. /\ at' = [at EXCEPT ![u] = "idle"] /\ at[u] = "put"
      /\ held' = [held EXCEPT ![u] = @ \ {giving[u]}]
      /\ UNCHANGED <<fp, retfpn, defined>>
  BY DEF PutLink, Go
<1>4. /\ at \in [Callers -> {"idle", "turn", "test", "unlink", "free", "put"}]
      /\ held \in [Callers -> SUBSET Frames]
      /\ fpn \in [Nodes -> 0..NumNodes]
      /\ next \in [Nodes -> Nodes \union {NULL, UNSET}]
      /\ giving[u] \in Frames
  BY <1>3 DEF Before, TInv, FieldInv, TypeOK
<1>5. fp[u] = head /\ giving[u] \in held[u]
  BY <1>3 DEF Before, CallInv
<1>6. /\ giving[u] \in Holds(u) /\ Holds(u)' = Holds(u) \ {giving[u]}
      /\ \A v \in Callers \ {u} : Holds(v)' = Holds(v)
  BY <1>3, <1>4, <1>5 DEF Holds
<1>7. /\ fpn'[n] = giving[u] /\ next'[n] = head
      /\ \A k \in 1..len : s[k] # n /\ fpn'[s[k]] = fpn[s[k]] /\ next'[s[k]] = next[s[k]]
  BY <1>0, <1>2, <1>4, <1>5
<1>8. /\ 1 \in 1..(len + 1) /\ r[1] = n
      /\ \A k \in 1..len : k + 1 \in 1..(len + 1) /\ r[k + 1] = s[k]
      /\ \A k \in 1..(len + 1) : k # 1 => k - 1 \in 1..len /\ r[k] = s[k - 1]
  OBVIOUS
<1>9. ListOf(len + 1, r)'
  <2>1. r \in [1..(len + 1) -> heap']
    BY <1>0, <1>2, <1>8
  <2>2. head' = IF len + 1 = 0 THEN NULL ELSE r[1]
    BY <1>2, <1>8
  <2>3. \A k \in 1..(len + 1) : next'[r[k]] = IF k = len + 1 THEN NULL ELSE r[k + 1]
    <3> SUFFICES ASSUME NEW k \in 1..(len + 1)
                 PROVE next'[r[k]] = IF k = len + 1 THEN NULL ELSE r[k + 1]
      OBVIOUS
    <3>1. CASE k = 1
      <4>1. head = IF len = 0 THEN NULL ELSE s[1]
        BY DEF Before, Listing, ListOf
      <4>2. QED
        BY <1>7, <1>8, <3>1, <4>1
    <3>2. CASE k # 1
      <4>1. k - 1 \in 1..len /\ r[k] = s[k - 1]
        BY <1>8, <3>2
      <4>2. next[s[k - 1]] = IF k - 1 = len THEN NULL ELSE s[(k - 1) + 1]
        BY <4>1 DEF Before, Listing, ListOf
      <4>3. k # len + 1 => r[k + 1] = s[k]
        BY <3>2
      <4>4. QED
        BY <1>7, <4>1, <4>2, <4>3
    <3>3. QED
      BY <3>1, <3>2
  <2>4. \A j, k \in 1..(len + 1) : fpn'[r[j]] = fpn'[r[k]] => j = k
    <3>1. \A j, k \in 1..len : fpn[s[j]] = fpn[s[k]] => j = k
      BY DEF Before, Listing, ListOf
    <3>2. \A k \in 1..len : fpn[s[k]] # giving[u]
      BY <1>6 DEF Before, Listing, Shared
    <3> SUFFICES ASSUME NEW j \in 1..(len + 1), NEW k \in 1..(len + 1),
                        fpn'[r[j]] = fpn'[r[k]]
                 PROVE j = k
      OBVIOUS
    <3> HIDE DEF r
    <3>3. QED
      BY <1>7, <1>8, <3>1, <3>2
  <2>5. QED
    BY <2>1, <2>2, <2>3, <2>4 DEF ListOf
<1>10. Shared(len + 1, r)'
  <2>0. /\ \A v, w \in Callers : \A f \in Holds(v) : f \in Holds(w) => v = w
        /\ \A v \in Callers : \A k \in 1..len : fpn[s[k]] \notin Holds(v)
        /\ \A f \in Frames : \/ \E k \in 1..len : fpn[s[k]] = f
                             \/ \E v \in Callers : f \in Holds(v)
    BY DEF Before, Listing, Shared
  <2> HIDE DEF r
  <2>1. \A v \in Callers : at'[v] # "free"
    BY <1>1, <1>3, <1>4
  <2>2. \A v, w \in Callers : \A f \in Holds(v)' : f \in Holds(w)' => v = w
    BY <1>6, <2>0
  <2>3. \A v \in Callers : \A k \in 1..(len + 1) : fpn'[r[k]] \notin Holds(v)'
    <3>1. \A v \in Callers : fpn'[r[1]] \notin Holds(v)'
      BY <1>6, <1>7, <1>8, <2>0
    <3>2. \A v \in Callers : \A k \in 1..len : fpn'[s[k]] \notin Holds(v)'
      BY <1>6, <1>7, <2>0
    <3>3. QED
      BY <1>8, <3>1, <3>2
  <2>4. \A f \in Frames : \/ \E k \in 1..(len + 1) : fpn'[r[k]] = f
                          \/ \E v \in Callers : f \in Holds(v)'
    <3> SUFFICES ASSUME NEW f \in Frames, \A v \in Callers : f \notin Holds(v)'
                 PROVE \E k \in 1..(len + 1) : fpn'[r[k]] = f
      OBVIOUS
    <3>1. CASE f = giving[u]
      BY <1>7, <1>8, <3>1
    <3>2. CASE f # giving[u]
      <4>1. \A v \in Callers : f \notin Holds(v)
        BY <1>6, <3>2
      <4>2. PICK k \in 1..len : fpn[s[k]] = f
        BY <2>0, <4>1
      <4>3. QED
        BY <1>7, <1>8, <4>2
    <3>3. QED
      BY <3>1, <3>2
  <2>5. QED
    BY <2>1, <2>2, <2>3, <2>4 DEF Shared
<1>11. fpn'[r[1]] = giving[u] /\ \A k \in 1..len : fpn'[r[k + 1]] = fpn[s[k]]
  <2> HIDE DEF r
  <2> QED
    BY <1>7, <1>8
<1>12. defined' /\ Listing(len + 1, r)'
  BY <1>3, <1>9, <1>10 DEF Before, Listing
<1>13. QED
  <2> HIDE DEF r
  <2> QED
    BY <1>6, <1>11, <1>12

\* The step of the one caller in a call keeps what it has read true.
LEMMA CallKept ==
  ASSUME NEW len \in Nat, NEW s, Before(len, s), NEW u \in crew.members,
         u \in Callers, UNCHANGED crew,
         Lock(u) \/ ReadHead(u) \/ Unlock(u) \/ PutRead(u) \/ CallStep(u)
  PROVE  CallInv'
<1>0. /\ at \in [Callers -> {"idle", "turn", "test", "unlink", "free", "put"}]
      /\ fp \in [Callers -> Nodes \union {NULL, UNSET}]
      /\ retfpn \in [Callers -> 0..NumNodes] /\ giving \in [Callers -> 0..NumNodes]
      /\ lock \subseteq Callers
      /\ \A v \in Callers : at[v] = "turn" => v \in lock
      /\ CallInv
  BY DEF Before, TInv, TypeOK
<1>1. \A v, w \in Callers : at[v] # "idle" /\ at[w] # "idle" => v = w
  BY OneCall DEF Before
<1>2. head # NULL => head \in heap
  BY DEF Before, Listing, ListOf
<1>3. CASE Lock(u)
  BY <1>0, <1>3 DEF Lock, Go, CallInv
<1>4. CASE ReadHead(u)
  BY <1>0, <1>4 DEF ReadHead, Go, CallInv
<1>5. CASE Unlock(u)
  BY <1>0, <1>1, <1>5 DEF Unlock, Go, CallInv
<1>6. CASE PutRead(u)
  BY <1>0, <1>1, <1>6 DEF PutRead, Go, CallInv
<1>7. CASE Refuse(u)
  BY <1>0, <1>7 DEF Refuse, Back, Go, CallInv
<1>8. CASE ReadFpn(u)
  <2>1. fp[u] = head /\ head # NULL /\ head \in heap
    BY <1>0, <1>2, <1>8 DEF ReadFpn, Empty, CallInv
  <2>2. retfpn' = [retfpn EXCEPT ![u] = fpn[head]]
    BY <1>8, <2>1 DEF ReadFpn, Usable
  <2>3. QED
    BY <1>0, <1>8, <2>1, <2>2 DEF ReadFpn, Go, CallInv
<1>9. CASE Unlink(u)
  <2>1. fp[u] \in heap
    BY <1>0, <1>2, <1>9 DEF Unlink, CallInv
  <2>2. \A v \in Callers : at'[v] # "idle" => v = u
    BY <1>0, <1>1, <1>9 DEF Unlink, Go
  <2>3. QED
    BY <1>0, <1>9, <2>1, <2>2 DEF Unlink, Go, CallInv
<1>10. CASE FreeNode(u)
  <2>1. \A v \in Callers : at'[v] # "idle" => v = u /\ at'[v] = "turn"
    BY <1>0, <1>1, <1>10 DEF FreeNode, Back, Go
  <2>2. QED
    BY <1>0, <1>10, <2>1 DEF FreeNode, Back, Go, CallInv
<1>11. CASE PutLink(u)
  <2>1. \A v \in Callers : at'[v] = "idle"
    BY <1>0, <1>1, <1>11 DEF PutLink, Go
  <2>2. u \notin lock
    BY <1>11 DEF PutLink, Before, TInv, TypeOK
  <2>3. \A v \in lock : v = u
    BY <1>0, <1>1, <1>11 DEF PutLink, CallInv
  <2>4. lock' = lock /\ lock = {}
    BY <1>11, <2>2, <2>3 DEF PutLink
  <2>5. QED
    BY <2>1, <2>4 DEF CallInv
<1>12. QED
  BY <1>3, <1>4, <1>5, <1>6, <1>7, <1>8, <1>9, <1>10, <1>11 DEF CallStep

\* The other steps leave the list alone.
LEMMA QuietStep ==
  ASSUME NEW len \in Nat, NEW s, Before(len, s), NEW u \in Callers, UNCHANGED crew,
         Lock(u) \/ ReadHead(u) \/ Unlock(u) \/ PutRead(u) \/ Refuse(u) \/ ReadFpn(u)
  PROVE  /\ Listing(len, s)' /\ defined'
         /\ \A v \in Callers : Holds(v)' = Holds(v)
<1>0. /\ at \in [Callers -> {"idle", "turn", "test", "unlink", "free", "put"}]
      /\ fp \in [Callers -> Nodes \union {NULL, UNSET}]
      /\ retfpn \in [Callers -> 0..NumNodes]
      /\ defined /\ CallInv /\ Listing(len, s)
  BY DEF Before, TInv, TypeOK
<1>1. /\ UNCHANGED <<head, fpn, next, heap, held>>
      /\ at[u] # "free" /\ \E a : a # "free" /\ at' = [at EXCEPT ![u] = a]
      /\ \A v \in Callers \ {u} : fp'[v] = fp[v] /\ retfpn'[v] = retfpn[v]
  BY <1>0 DEF Lock, ReadHead, Unlock, PutRead, Refuse, ReadFpn, Go, Back
<1>2. /\ \A v \in Callers : at'[v] = "free" <=> at[v] = "free"
      /\ \A v \in Callers : at[v] = "free" => fp'[v] = fp[v] /\ retfpn'[v] = retfpn[v]
  BY <1>0, <1>1
<1>3. Listing(len, s)' /\ \A v \in Callers : Holds(v)' = Holds(v)
  BY <1>0, <1>1, <1>2, ListKept
<1>4. defined'
  <2>1. CASE ReadFpn(u)
    <3>1. fp[u] = head /\ head # NULL
      BY <1>0, <2>1 DEF ReadFpn, Empty, CallInv
    <3>2. head \in heap
      BY <1>0, <3>1 DEF Listing, ListOf
    <3>3. QED
      BY <2>1, <3>1, <3>2 DEF ReadFpn, Usable
  <2>2. CASE ~ReadFpn(u)
    BY <1>0, <2>2 DEF Lock, ReadHead, Unlock, PutRead, Refuse
  <2>3. QED
    BY <2>1, <2>2
<1>5. QED
  BY <1>3, <1>4

\* Every step keeps the list a list.
LEMMA NextIInv == Serial /\ IInv /\ [Next]_vars => IInv'
<1> SUFFICES ASSUME Serial, IInv, [Next]_vars PROVE IInv'
  OBVIOUS
<1>1. TInv'
  BY NextTInv DEF IInv
<1>2. PICK len \in Nat : \E s : Listing(len, s)
  BY DEF IInv
<1>3. PICK s : Listing(len, s)
  BY <1>2
<1>4. Before(len, s)
  BY <1>3 DEF IInv, Before
<1>5. CASE Next
  <2>1. PICK u \in crew.members :
          Lock(u) \/ ReadHead(u) \/ Unlock(u) \/ PutRead(u) \/ CallStep(u)
    BY <1>5 DEF Next
  <2>2. u \in Callers /\ crew' = crew
    <3>1. crew \in Crews
      BY <1>4 DEF Before, TInv, TypeOK
    <3>2. QED
      BY <1>5, <2>1, <3>1, FreeFramesAssumption DEF Next
  <2>3. CallInv'
    BY <1>4, <2>1, <2>2, CallKept
  <2>4. defined' /\ \E l \in Nat : \E r : Listing(l, r)'
    <3>1. CASE Lock(u) \/ ReadHead(u) \/ Unlock(u) \/ PutRead(u) \/ Refuse(u) \/ ReadFpn(u)
      BY <1>4, <2>2, <3>1, QuietStep
    <3>2. CASE Unlink(u)
      <4> DEFINE r == [k \in 1..(len - 1) |-> s[k + 1]]
      <4>1. len > 0 /\ defined' /\ Listing(len - 1, r)'
        BY <1>4, <2>2, <3>2, UnlinkStep
      <4>2. len - 1 \in Nat
        BY <4>1
      <4>3. QED
        BY <4>1, <4>2
    <3>3. CASE FreeNode(u)
      BY <1>4, <2>2, <3>3, FreeNodeStep
    <3>4. CASE PutLink(u)
      <4>1. len + 1 \in Nat
        OBVIOUS
      <4>2. QED
        BY <1>4, <2>2, <3>4, <4>1, PutLinkStep
    <3>5. QED
      BY <2>1, <3>1, <3>2, <3>3, <3>4 DEF CallStep
  <2>5. QED
    BY <1>1, <2>3, <2>4 DEF IInv
<1>6. CASE UNCHANGED vars
  <2>1. CallInv' /\ defined'
    BY <1>4, <1>6 DEF vars, Before, CallInv
  <2>2. Listing(len, s)'
    BY <1>3, <1>6 DEF vars, Listing, ListOf, Shared, Holds
  <2>3. QED
    BY <1>1, <2>1, <2>2 DEF IInv
<1>7. QED
  BY <1>5, <1>6

\* As long as the calls do not overlap, the free list of a device of two frames or
\* more is a list of allocated nodes that ends, and with the callers it has every
\* frame once.
THEOREM Invariance ==
  ASSUME Serial, NumFrames >= 2 PROVE Spec => []IInv
BY InitIInv, NextIInv, PTL DEF Spec

--------------------------------------------------------------------------------
(* What a caller may rely on.                                              *)

\* MEMPHY_get_freefp hands a frame out once: as long as the calls do not overlap, a
\* frame is on the list or with one caller, and none is lost.
THEOREM OneHolderHolds ==
  ASSUME Serial, NumFrames >= 2 PROVE Spec => []OneHolder
<1>1. IInv => OneHolder
  <2> SUFFICES ASSUME IInv PROVE OneHolder
    OBVIOUS
  <2>1. PICK len \in Nat : \E s : Listing(len, s)
    BY DEF IInv
  <2>2. PICK s : Listing(len, s)
    BY <2>1
  <2>3. Listed = {fpn[s[k]] : k \in 1..len}
    BY <2>2, ListedFrames DEF IInv, Listing, ListedIs
  <2>4. \A k \in 1..len : fpn[s[k]] \in Frames
    BY <2>2, ListNodes DEF IInv, Listing
  <2>5. \A u \in Callers : \A f \in Holds(u) : f \in Frames
    BY DEF IInv, TInv, TypeOK, FieldInv, Holds
  <2>6. /\ \A u, v \in Callers : \A f \in Holds(u) : f \in Holds(v) => u = v
        /\ \A u \in Callers : \A k \in 1..len : fpn[s[k]] \notin Holds(u)
        /\ \A f \in Frames : \/ \E k \in 1..len : fpn[s[k]] = f
                             \/ \E u \in Callers : f \in Holds(u)
    BY <2>2 DEF Listing, Shared
  <2>7. \A u, v \in Callers : Holds(u) \intersect Holds(v) # {} => u = v
    BY <2>6
  <2>8. Listed \intersect UNION {Holds(u) : u \in Callers} = {}
    BY <2>3, <2>6
  <2>9. Listed \union UNION {Holds(u) : u \in Callers} = Frames
    BY <2>3, <2>4, <2>5, <2>6
  <2>10. QED
    BY <2>7, <2>8, <2>9 DEF OneHolder
<1>2. QED
  BY <1>1, Invariance, PTL

\* As long as the calls do not overlap, none of them reads or frees a node that was
\* freed before, or follows a link that was never written.
THEOREM NoStrayUseHolds ==
  ASSUME Serial, NumFrames >= 2 PROVE Spec => []NoStrayUse
<1>1. IInv => NoStrayUse
  BY DEF IInv, NoStrayUse
<1>2. QED
  BY <1>1, Invariance, PTL

--------------------------------------------------------------------------------
(* The refinement: Unlink takes a frame of the pool, PutLink gives one     *)
(* back, Refuse is refused, and the other accesses are not seen.           *)

\* MEMPHY_format leaves all frames in the pool.
LEMMA InitPool == NumFrames >= 2 /\ Init => Pool!PoolInit
<1> SUFFICES ASSUME NumFrames >= 2, Init PROVE Pool!PoolInit
  OBVIOUS
<1>1. PICK len \in Nat : \E s : Listing(len, s)
  BY InitIInv DEF IInv
<1>2. PICK s : Listing(len, s)
  BY <1>1
<1>3. \A u \in Callers : Holds(u) = {}
  BY DEF Init, Holds
<1>4. Listed = {fpn[s[k]] : k \in 1..len}
  BY <1>2, InitTInv, ListedFrames DEF Listing, ListedIs
<1>5. \A k \in 1..len : fpn[s[k]] \in Frames
  BY <1>2, InitTInv, ListNodes DEF Listing
<1>6. Listed = Frames
  BY <1>2, <1>3, <1>4, <1>5 DEF Listing, Shared
<1>7. \A u \in Callers : (failed[u] /\ at[u] # "free") = FALSE
  BY DEF Init
<1>8. QED
  BY <1>3, <1>6, <1>7 DEF Pool!PoolInit

\* what a device shows of a caller's last call
Refused(u) == failed[u] /\ at[u] # "free"

\* A step that changes nothing of what the pool shows is a stutter of it.
LEMMA SameView ==
  ASSUME Listed' = Listed, \A v \in Callers : Holds(v)' = Holds(v),
         \A v \in Callers : Refused(v)' = Refused(v)
  PROVE  UNCHANGED Pool!poolVars
BY DEF Pool!poolVars, Refused

\* Every step is a step of the pool, or changes nothing it shows.
LEMMA StepPool ==
  Serial /\ IInv /\ IInv' /\ [Next]_vars => [Pool!PoolNext]_(Pool!poolVars)
<1> SUFFICES ASSUME Serial, IInv, IInv', [Next]_vars
             PROVE  [Pool!PoolNext]_(Pool!poolVars)
  OBVIOUS
<1>1. PICK len \in Nat : \E s : Listing(len, s)
  BY DEF IInv
<1>2. PICK s : Listing(len, s)
  BY <1>1
<1>3. Before(len, s) /\ TInv /\ TInv'
  BY <1>2 DEF IInv, Before
<1>4. Listed = {fpn[s[k]] : k \in 1..len}
  BY <1>2, <1>3, ListedFrames DEF Listing, ListedIs
<1>5. \A l \in Nat : \A r : Listing(l, r)' => Listed' = {fpn'[r[k]] : k \in 1..l}
  <2>1. ListedIs'
    BY ListedFrames, PTL
  <2>2. QED
    BY <1>3, <2>1 DEF ListedIs, Listing
<1>6. /\ at \in [Callers -> {"idle", "turn", "test", "unlink", "free", "put"}]
      /\ failed \in [Callers -> BOOLEAN]
  BY <1>3 DEF TInv, TypeOK
<1>7. CASE Next
  <2>1. PICK u \in crew.members :
          Lock(u) \/ ReadHead(u) \/ Unlock(u) \/ PutRead(u) \/ CallStep(u)
    BY <1>7 DEF Next
  <2>2. u \in Callers /\ crew' = crew
    <3>1. crew \in Crews
      BY <1>3 DEF TInv, TypeOK
    <3>2. QED
      BY <1>7, <2>1, <3>1, FreeFramesAssumption DEF Next
  <2>3. CASE Lock(u) \/ ReadHead(u) \/ Unlock(u) \/ PutRead(u) \/ ReadFpn(u)
    <3>1. Listing(len, s)' /\ \A v \in Callers : Holds(v)' = Holds(v)
      BY <1>3, <2>2, <2>3, QuietStep
    <3>2. Listed' = {fpn'[s[k]] : k \in 1..len} /\ fpn' = fpn
      BY <1>5, <2>3, <3>1 DEF Lock, ReadHead, Unlock, PutRead, ReadFpn
    <3>3. \A v \in Callers : Refused(v)' = Refused(v)
      BY <1>6, <2>3 DEF Refused, Lock, ReadHead, Unlock, PutRead, ReadFpn, Go
    <3>4. QED
      BY <1>4, <3>1, <3>2, <3>3, SameView
  <2>4. CASE Refuse(u)
    <3>1. Listing(len, s)' /\ \A v \in Callers : Holds(v)' = Holds(v)
      BY <1>3, <2>2, <2>4, QuietStep
    <3>2. Listed' = Listed
      BY <1>4, <1>5, <2>4, <3>1 DEF Refuse
    <3>3. Listed = {}
      <4>1. head = NULL
        BY <1>3, <2>2, <2>4 DEF Refuse, Empty, Before, CallInv
      <4>2. len = 0
        <5>1. len # 0 => s[1] \in Nodes /\ NULL \notin Nodes
          BY <1>2, <1>3, ListNodes DEF Listing
        <5>2. QED
          BY <1>2, <4>1, <5>1 DEF Listing, ListOf
      <4>3. QED
        BY <1>4, <4>2
    <3>4. Refused(u)' = TRUE /\ \A v \in Callers \ {u} : Refused(v)' = Refused(v)
      BY <1>6, <2>2, <2>4 DEF Refused, Refuse, Go, Back
    <3>5. Pool!Refuse(u)
      BY <2>2, <3>1, <3>2, <3>3, <3>4 DEF Pool!Refuse, Refused
    <3>6. QED
      BY <2>2, <3>5 DEF Pool!PoolNext
  <2>5. CASE Unlink(u)
    <3> DEFINE r == [k \in 1..(len - 1) |-> s[k + 1]]
    <3>1. /\ len > 0 /\ retfpn[u] = fpn[s[1]] /\ Listing(len - 1, r)'
          /\ Holds(u)' = Holds(u) \union {retfpn[u]}
          /\ \A v \in Callers \ {u} : Holds(v)' = Holds(v)
      BY <1>3, <2>2, <2>5, UnlinkStep
    <3>2. Listed' = {fpn'[r[k]] : k \in 1..(len - 1)}
      <4> HIDE DEF r
      <4>1. len - 1 \in Nat
        BY <3>1
      <4>2. QED
        BY <1>5, <3>1, <4>1
    <3>3. fpn' = fpn /\ failed' = failed /\ at' = [at EXCEPT ![u] = "free"]
      BY <2>5 DEF Unlink, Go
    <3>4. /\ \A k \in 1..(len - 1) : k + 1 \in 1..len /\ r[k] = s[k + 1] /\ k + 1 # 1
          /\ \A k \in 1..len : k # 1 => k - 1 \in 1..(len - 1) /\ r[k - 1] = s[k]
      <4>1. \A k \in 1..len : k # 1 => k - 1 \in 1..(len - 1) /\ (k - 1) + 1 = k
        OBVIOUS
      <4>2. QED
        BY <4>1
    <3>5. \A j, k \in 1..len : fpn[s[j]] = fpn[s[k]] => j = k
      BY <1>2 DEF Listing, ListOf
    <3>6. 1 \in 1..len
      BY <3>1
    <3> HIDE DEF r
    <3>7. Listed' = Listed \ {fpn[s[1]]} /\ fpn[s[1]] \in Listed
      BY <1>4, <3>2, <3>3, <3>4, <3>5, <3>6
    <3>8. Refused(u)' = FALSE /\ \A v \in Callers \ {u} : Refused(v)' = Refused(v)
      BY <1>6, <2>2, <3>3 DEF Refused
    <3>9. Pool!Take(u)
      BY <2>2, <3>1, <3>7, <3>8 DEF Pool!Take, Refused
    <3>10. QED
      BY <2>2, <3>9 DEF Pool!PoolNext
  <2>6. CASE FreeNode(u)
    <3>1. Listing(len, s)' /\ \A v \in Callers : Holds(v)' = Holds(v)
      BY <1>3, <2>2, <2>6, FreeNodeStep
    <3>2. Listed' = Listed
      BY <1>4, <1>5, <2>6, <3>1 DEF FreeNode
    <3>3. \A v \in Callers : Refused(v)' = Refused(v)
      BY <1>6, <2>2, <2>6 DEF Refused, FreeNode, Go
    <3>4. QED
      BY <3>1, <3>2, <3>3, SameView
  <2>7. CASE PutLink(u)
    <3>1. PICK r : /\ Listing(len + 1, r)' /\ defined'
                   /\ fpn'[r[1]] = giving[u]
                   /\ \A k \in 1..len : fpn'[r[k + 1]] = fpn[s[k]]
                   /\ giving[u] \in Holds(u) /\ Holds(u)' = Holds(u) \ {giving[u]}
                   /\ \A v \in Callers \ {u} : Holds(v)' = Holds(v)
      <4>1. Before(len, s) /\ u \in Callers /\ UNCHANGED crew
        BY <1>3, <2>2
      <4>2. QED
        BY <2>7, <4>1, PutLinkStep
    <3>2. Listed' = {fpn'[r[k]] : k \in 1..(len + 1)}
      BY <1>5, <3>1
    <3>3. /\ 1 \in 1..(len + 1) /\ \A k \in 1..len : k + 1 \in 1..(len + 1)
          /\ \A k \in 1..(len + 1) : k # 1 => k - 1 \in 1..len /\ (k - 1) + 1 = k
      OBVIOUS
    <3>4. Listed' = Listed \union {giving[u]}
      BY <1>4, <3>1, <3>2, <3>3
    <3>5. \A v \in Callers : Refused(v)' = Refused(v)
      BY <1>6, <2>2, <2>7 DEF Refused, PutLink, Go
    <3>6. Pool!Give(u)
      <4>1. [v \in Callers |-> Holds(v)'] =
              [[v \in Callers |-> Holds(v)] EXCEPT ![u] = @ \ {giving[u]}]
        BY <2>2, <3>1
      <4>2. [v \in Callers |-> Refused(v)'] = [v \in Callers |-> Refused(v)]
        BY <3>5
      <4>3. QED
        BY <2>2, <3>1, <3>4, <4>1, <4>2 DEF Pool!Give, Refused
    <3>7. QED
      BY <2>2, <3>6 DEF Pool!PoolNext
  <2>8. QED
    BY <2>1, <2>3, <2>4, <2>5, <2>6, <2>7 DEF CallStep
<1>8. CASE UNCHANGED vars
  <2>1. Listed' = Listed /\ \A v \in Callers : Holds(v)' = Holds(v)
    BY <1>8 DEF vars, Listed, Chain, Holds
  <2>2. \A v \in Callers : Refused(v)' = Refused(v)
    BY <1>8 DEF vars, Refused
  <2>3. QED
    BY <2>1, <2>2, SameView
<1>9. QED
  BY <1>7, <1>8

\* As long as the calls do not overlap, the linked list does what a device promises:
\* a call takes one free frame, gives one back, or is refused when none is free.
THEOREM ImplementsPool ==
  ASSUME Serial, NumFrames >= 2 PROVE Spec => ImplementsFramePool
BY InitPool, StepPool, Invariance, PTL DEF Spec, ImplementsFramePool, Pool!PoolSpec

===================================================================================
