---------------------------- MODULE RegionTableProofs ----------------------------
(***************************************************************************)
(* Proofs about RegionTable.tla for every page size, number of symbols and *)
(* set of sizes.                                                           *)
(*                                                                         *)
(* The region of the list that init_mm makes goes from 0 to 0 and counts   *)
(* as one byte (freesize), so an alloc of one byte takes it: below the     *)
(* break and shared with the first region that the break gives.  The       *)
(* theorems about the regions are for programs that never ask for exactly  *)
(* one byte; the others hold for all.                                      *)
(***************************************************************************)
EXTENDS RegionTable, Integers, TLAPS

\* A whole number of pages is at least the size it was made from (PAGING_PAGE_ALIGNSZ).
LEMMA AlignedCovers ==
  ASSUME NEW size \in Nat PROVE Aligned(size) \in Nat /\ size <= Aligned(size)
<1> DEFINE a == size + PageSize - 1
           k == a \div PageSize
<1>1. a \in Nat /\ PageSize \in Nat /\ PageSize > 0 /\ size <= a
  BY RegionAssumption
<1>2. k \in Nat /\ a % PageSize \in 0..(PageSize - 1) /\ a = PageSize * k + (a % PageSize)
  <2> HIDE DEF a
  <2>1. QED
    BY <1>1
<1> HIDE DEF k
<1>3. PageSize * k = k * PageSize /\ k * PageSize \in Nat
  BY <1>1, <1>2
<1>4. size <= k * PageSize
  BY <1>1, <1>2, <1>3
<1>5. QED
  BY <1>3, <1>4 DEF Aligned, k

\* What the regions are made of: the node of init_mm is never changed, since no
\* part of it can be taken and leave a rest.
IInv == TypeOK /\ first = Fresh

\* The regions of a program that never asks for one byte: each lies below the
\* break, and no two share a byte that both were asked for.
RegionInv ==
  defined => \A r \in Ids :
    /\ \A b \in Bytes(r) : b < sbrk
    /\ \A s \in Ids, b \in Bytes(r) : b \in Bytes(s) => r = s

\* The region of init_mm counts as one byte, or as none where addresses wrap at 1.
LEMMA FreshSize == FreeSize(Fresh) \in {0, 1}
<1>1. AddrRange \in Nat /\ AddrRange >= 1 /\ FreeSize(Fresh) = (AddrRange + 1) % AddrRange
  BY RegionAssumption DEF FreeSize, Fresh
<1>2. CASE AddrRange = 1
  BY <1>1, <1>2
<1>3. CASE AddrRange > 1
  BY <1>1, <1>3
<1>4. QED
  BY <1>1, <1>2, <1>3

\* init_mm satisfies the invariant.
LEMMA InitIInv == Init => IInv /\ RegionInv
<1> SUFFICES ASSUME Init PROVE IInv /\ RegionInv
  OBVIOUS
<1>1. 0 \in Addr /\ Fresh \in Region /\ 0 \in 0..MaxBreak
  BY RegionAssumption DEF Addr, Fresh, Region
<1>2. IInv
  BY <1>1 DEF Init, IInv, TypeOK
<1>3. \A r \in Ids : Bytes(r) = {}
  BY DEF Init, Bytes, Fresh
<1>4. QED
  BY <1>2, <1>3 DEF RegionInv

\* A region that is stored is stored in the table, or behind it.
LEMMA SetRegionType ==
  ASSUME TypeOK, NEW r \in RegionIds, NEW rg \in Region, NEW size \in Nat,
         SetRegion(r, rg, size)
  PROVE  /\ symrgtbl' \in [Ids -> Region] /\ used' \in [Ids -> Nat]
         /\ fifo' \in BOOLEAN
  BY DEF TypeOK, SetRegion

\* A part cut off the listed region has its ends within the address range.
LEMMA CarvedType ==
  ASSUME NEW at \in Addr, NEW size \in Nat PROVE Carved(at, size) \in Region
<1>1. /\ at \in Nat /\ AddrRange \in Nat /\ AddrRange > 0
      /\ at + size + AddrRange - 1 \in Nat
  BY RegionAssumption DEF Addr
<1>2. (at + size + AddrRange - 1) % AddrRange \in 0..(AddrRange - 1)
  BY <1>1
<1>3. QED
  BY <1>2 DEF Carved, Region, Addr

\* Every call of alloc and free keeps the types, and the node of init_mm as it is.
LEMMA NextIInv == IInv /\ [Next]_vars => IInv'
<1> SUFFICES ASSUME IInv, [Next]_vars PROVE IInv'
  OBVIOUS
<1> USE RegionAssumption DEF IInv
<1>1. ASSUME NEW r \in RegionIds, NEW size \in Sizes, AllocCarve(r, size) PROVE IInv'
  <2>1. 0 \in Addr /\ size \in Nat /\ first.start = 0 /\ Fresh \in Region
    BY DEF Addr, Fresh, Region
  <2>2. symrgtbl' \in [Ids -> Region] /\ used' \in [Ids -> Nat] /\ fifo' \in BOOLEAN
    <3>1. SetRegion(r, Carved(first.start, size), size)
      BY <1>1 DEF AllocCarve
    <3>2. Carved(first.start, size) \in Region
      BY <2>1, CarvedType
    <3>3. QED
      BY <2>1, <3>1, <3>2, SetRegionType
  <2>3. first' = Fresh /\ head' \in {"first", "none"}
    <3>1. CASE FreeSize(first) > size
      <4>1. size = 0
        BY <2>1, <3>1, FreshSize
      <4>2. first' = [first EXCEPT !.start = @ + 0] /\ head' = head /\ head = "first"
        BY <1>1, <3>1, <4>1 DEF AllocCarve, Fits
      <4>3. QED
        BY <4>2 DEF Fresh
    <3>2. CASE ~(FreeSize(first) > size)
      BY <1>1, <3>2 DEF AllocCarve
    <3>3. QED
      BY <3>1, <3>2
  <2>4. QED
    BY <1>1, <2>1, <2>2, <2>3 DEF AllocCarve, TypeOK
<1>2. ASSUME NEW r \in RegionIds, NEW size \in Sizes, AllocStray(r, size) PROVE IInv'
  <2>1. PICK at \in Addr : SetRegion(r, Carved(at, size), size)
    BY <1>2 DEF AllocStray
  <2>2. Carved(at, size) \in Region
    BY CarvedType
  <2>3. symrgtbl' \in [Ids -> Region] /\ used' \in [Ids -> Nat] /\ fifo' \in BOOLEAN
    BY <2>1, <2>2, SetRegionType
  <2>4. QED
    BY <1>2, <2>3 DEF AllocStray, TypeOK
<1>3. ASSUME NEW r \in RegionIds, NEW size \in Sizes, AllocGrow(r, size) PROVE IInv'
  <2>1. /\ size \in Nat /\ Aligned(size) \in Nat /\ sbrk \in Nat
        /\ sbrk + Aligned(size) <= MaxBreak
    BY <1>3, AlignedCovers DEF AllocGrow, NewBreak, TypeOK
  <2>2. [start |-> sbrk, end |-> sbrk + Aligned(size)] \in Region
    BY <2>1 DEF Region, Addr
  <2>3. symrgtbl' \in [Ids -> Region] /\ used' \in [Ids -> Nat] /\ fifo' \in BOOLEAN
    BY <1>3, <2>1, <2>2, SetRegionType DEF AllocGrow
  <2>4. defined' \in BOOLEAN /\ sbrk' \in 0..MaxBreak
    BY <1>3, <2>1 DEF AllocGrow, NewBreak, TypeOK
  <2>5. QED
    BY <1>3, <2>3, <2>4 DEF AllocGrow, TypeOK
<1>4. ASSUME NEW r \in RegionIds, Free(r) PROVE IInv'
  BY <1>4 DEF Free, TypeOK
<1>5. CASE UNCHANGED vars
  BY <1>5 DEF vars, TypeOK
<1>6. QED
  BY <1>1, <1>2, <1>3, <1>4, <1>5 DEF Next

\* A call that asks for any size but one byte keeps the regions apart and below
\* the break, unless it reads a node that is gone.
LEMMA NextRegionInv ==
  ASSUME 1 \notin Sizes
  PROVE  IInv /\ RegionInv /\ [Next]_vars => RegionInv'
<1> SUFFICES ASSUME IInv, RegionInv, [Next]_vars PROVE RegionInv'
  OBVIOUS
<1> USE RegionAssumption
<1>0. /\ TypeOK /\ first = Fresh /\ sbrk \in Nat
      /\ symrgtbl \in [Ids -> Region] /\ used \in [Ids -> Nat]
  BY DEF IInv, TypeOK
<1>1. ASSUME NEW r \in RegionIds, NEW size \in Sizes, AllocCarve(r, size)
      PROVE  RegionInv'
  <2>1. size = 0
    BY <1>0, <1>1, FreshSize DEF AllocCarve, Fits
  <2>2. \A s \in Ids : Bytes(s)' = {} \/ Bytes(s)' = Bytes(s)
    <3>1. CASE r \in Ids
      <4>1. /\ \A s \in Ids : s # r => symrgtbl'[s] = symrgtbl[s] /\ used'[s] = used[s]
            /\ used'[r] = 0 /\ symrgtbl'[r] = Carved(first.start, size)
        BY <1>0, <1>1, <2>1, <3>1 DEF AllocCarve, SetRegion
      <4>2. symrgtbl'[r].start = 0
        BY <1>0, <4>1 DEF Carved, Fresh
      <4>3. QED
        BY <4>1, <4>2 DEF Bytes
    <3>2. CASE r \notin Ids
      BY <1>1, <3>2 DEF AllocCarve, SetRegion, Bytes
    <3>3. QED
      BY <3>1, <3>2
  <2>3. UNCHANGED <<sbrk, defined>>
    BY <1>1 DEF AllocCarve
  <2>4. QED
    BY <2>2, <2>3 DEF RegionInv
<1>2. ASSUME NEW r \in RegionIds, NEW size \in Sizes, AllocStray(r, size)
      PROVE  RegionInv'
  BY <1>2 DEF AllocStray, RegionInv
<1>3. ASSUME NEW r \in RegionIds, NEW size \in Sizes, AllocGrow(r, size)
      PROVE  RegionInv'
  <2> DEFINE new == sbrk..(sbrk + size - 1)
  <2>1. /\ size \in Nat /\ size <= Aligned(size) /\ Aligned(size) \in Nat
        /\ sbrk' = sbrk + Aligned(size) /\ (defined' => defined)
    BY <1>3, AlignedCovers DEF AllocGrow, NewBreak
  <2>2. \A s \in Ids : \/ s # r /\ Bytes(s)' = Bytes(s)
                       \/ s = r /\ Bytes(s)' = new
    <3>1. CASE r \in Ids
      <4>1. /\ \A s \in Ids : s # r => symrgtbl'[s] = symrgtbl[s] /\ used'[s] = used[s]
            /\ used'[r] = size /\ symrgtbl'[r].start = sbrk
        BY <1>0, <1>3, <3>1 DEF AllocGrow, SetRegion
      <4>2. QED
        BY <4>1 DEF Bytes
    <3>2. CASE r \notin Ids
      BY <1>3, <3>2 DEF AllocGrow, SetRegion, Bytes
    <3>3. QED
      BY <3>1, <3>2
  <2>3. \A b \in new : b >= sbrk /\ b < sbrk'
    BY <1>0, <2>1
  <2>4. \A s \in Ids : \A b \in Bytes(s) : b \in Int
    BY <1>0 DEF Bytes, Region, Addr
  <2> HIDE DEF new
  <2>5. SUFFICES ASSUME defined', NEW s \in Ids, NEW b \in Bytes(s)'
                 PROVE  /\ b < sbrk'
                        /\ \A t \in Ids : b \in Bytes(t)' => s = t
    BY DEF RegionInv
  <2>6. \A t \in Ids : b \in Bytes(t) => b < sbrk
    BY <2>1, <2>5 DEF RegionInv
  <2>7. CASE s = r
    BY <1>0, <2>1, <2>2, <2>3, <2>4, <2>5, <2>6, <2>7
  <2>8. CASE s # r
    <3>1. b \in Bytes(s) /\ b < sbrk /\ b \in Int
      BY <2>2, <2>4, <2>5, <2>6, <2>8
    <3>2. \A t \in Ids : b \in Bytes(t) => s = t
      BY <2>1, <2>5, <3>1 DEF RegionInv
    <3>3. b \notin new
      BY <1>0, <2>3, <3>1
    <3>4. QED
      BY <1>0, <2>1, <2>2, <3>1, <3>2, <3>3
  <2>9. QED
    BY <2>7, <2>8
<1>4. ASSUME NEW r \in RegionIds, Free(r) PROVE RegionInv'
  BY <1>4 DEF Free, RegionInv, Bytes
<1>5. CASE UNCHANGED vars
  BY <1>5 DEF vars, RegionInv, Bytes
<1>6. QED
  BY <1>1, <1>2, <1>3, <1>4, <1>5 DEF Next

\* The table, the break and the list have their types whatever a program asks for,
\* and no alloc ever takes a part of the region of init_mm and leaves a rest.
THEOREM Invariance == Spec => []IInv
<1>1. Init => IInv
  BY InitIInv
<1>2. QED
  BY <1>1, NextIInv, PTL DEF Spec

\* The table, the break and the list have their types.
THEOREM TypeCorrect == Spec => []TypeOK
  BY Invariance, PTL DEF IInv

\* The invariant of the regions holds for every program that never asks for one byte.
LEMMA RegionInvariance ==
  ASSUME 1 \notin Sizes PROVE Spec => [](IInv /\ RegionInv)
<1>1. Init => IInv /\ RegionInv
  BY InitIInv
<1>2. (IInv /\ RegionInv) /\ [Next]_vars => (IInv /\ RegionInv)'
  BY NextIInv, NextRegionInv
<1>3. QED
  BY <1>1, <1>2, PTL DEF Spec

\* Two regions of a process never share a byte that both were asked for, until an
\* alloc reads a list node that no longer exists.
THEOREM RegionsDisjointHolds ==
  ASSUME 1 \notin Sizes PROVE Spec => []RegionsDisjoint
<1>1. RegionInv => RegionsDisjoint
  BY DEF RegionInv, RegionsDisjoint
<1>2. QED
  BY <1>1, RegionInvariance, PTL

\* Every byte that was asked for is below the break, until an alloc reads a list
\* node that no longer exists.
THEOREM RegionsBelowBreakHolds ==
  ASSUME 1 \notin Sizes PROVE Spec => []RegionsBelowBreak
<1>1. IInv /\ RegionInv => RegionsBelowBreak
  <2> SUFFICES ASSUME IInv, RegionInv, defined, NEW r \in Ids, NEW b \in Bytes(r)
               PROVE  b \in 0..(sbrk - 1)
    BY DEF RegionsBelowBreak
  <2>1. /\ symrgtbl[r].start \in Nat /\ used[r] \in Nat /\ sbrk \in Nat
    BY DEF IInv, TypeOK, Region, Addr
  <2>2. b \in Int /\ b >= 0 /\ b < sbrk
    BY <2>1 DEF Bytes, RegionInv
  <2>3. QED
    BY <2>1, <2>2
<1>2. QED
  BY <1>1, RegionInvariance, PTL

==================================================================================
