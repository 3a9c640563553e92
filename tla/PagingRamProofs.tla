----------------------------- MODULE PagingRamProofs -----------------------------
(***************************************************************************)
(* Proofs about Paging.tla when every process's pages fit in RAM together: *)
(* nothing is evicted, every alloc gets its pages, and the memory is what  *)
(* VirtMem.tla promises.                                                   *)
(***************************************************************************)
EXTENDS PagingProofs, FiniteSetTheorems

\* Programs stay in their regions, and RAM has a frame for every page they may map.
EnoughRam ==
  Overrun = 0 /\ IsFiniteSet(Procs) /\ Cardinality(Procs) * MaxPages <= RamFrames

Frames == 0..(RamFrames - 1)

\* Present pages are in RAM, and below the pages an alloc is about to map all are.
InRam ==
  \A p \in Procs : \A n \in Pages :
    /\ pgd[p][n].present => Online(pgd[p][n]) /\ Fpn(pgd[p][n]) \in Frames
    /\ n < Low(p) => pgd[p][n].present

\* No frame is lost, and an alloc never has more of them than it needs.
NoFrameLost ==
  /\ \A f \in Frames :
       \/ In(ram_free, f) \/ In(InHand, f)
       \/ \E p \in Procs : \E n \in Pages : pgd[p][n].present /\ Fpn(pgd[p][n]) = f
  /\ \A f : In(InHand, f) => f \in Frames
  /\ req # <<>> => Len(req.frames) <= req.pages

\* Two regions of a process share no page.
RegionsApart ==
  \A p \in Procs : \A r, s \in Regions :
    r # s /\ symrgtbl[p][r].pages > 0 /\ symrgtbl[p][s].pages > 0 =>
      \/ symrgtbl[p][r].start + symrgtbl[p][r].pages <= symrgtbl[p][s].start
      \/ symrgtbl[p][s].start + symrgtbl[p][s].pages <= symrgtbl[p][r].start

RamInv == TInv /\ Sound /\ defined /\ InRam /\ NoFrameLost /\ RegionsApart

\* All frames are free at first, and nothing is present.
LEMMA InitRamInv == Init => RamInv
<1> SUFFICES ASSUME Init PROVE RamInv
  OBVIOUS
<1>1. IInv /\ defined
  BY InitIInv DEF Init
<1>2. InRam
  <2>1. \A p \in Procs : \A n \in Pages : pgd[p][n] = ZeroPte /\ Low(p) = 0
    BY DEF Init, Low
  <2>2. ~ZeroPte.present /\ \A n \in Pages : n \in Nat
    BY PagingAssumption DEF ZeroPte, Pages
  <2>3. QED
    BY <2>1, <2>2 DEF InRam
<1>3. NoFrameLost
  <2>1. InHand = <<>> /\ req = <<>> /\ \A f : ~In(InHand, f)
    BY DEF Init, InHand, In
  <2>2. RamFrames \in Nat
    BY PagingAssumption, Widths
  <2>3. ram_free = [n \in 1..RamFrames |-> n - 1]
    BY DEF Init
  <2>4. ASSUME NEW f \in Frames PROVE In(ram_free, f)
    <3>1. f + 1 \in 1..RamFrames /\ (f + 1) - 1 = f
      BY <2>2 DEF Frames
    <3>2. Len(ram_free) = RamFrames /\ ram_free[f + 1] = f
      BY <2>2, <2>3, <3>1
    <3>3. QED
      BY <3>1, <3>2 DEF In
  <2>5. QED
    BY <2>1, <2>4 DEF NoFrameLost
<1>4. RegionsApart
  BY DEF Init, Nobody, RegionsApart
<1>5. QED
  BY <1>1, <1>2, <1>3, <1>4 DEF RamInv, IInv

--------------------------------------------------------------------------------
(* An alloc always finds a free frame.                                     *)

\* Pages and frames are numbered from 0.
LEMMA IntervalSize ==
  ASSUME NEW n \in Nat
  PROVE  IsFiniteSet(0..(n - 1)) /\ Cardinality(0..(n - 1)) = n
<1>1. n - 1 \in Int /\ 0 \in Int
  OBVIOUS
<1> DEFINE m == n - 1
           size == IF 0 > m THEN 0 ELSE m - 0 + 1
<1>2. size = n
  OBVIOUS
<1>3. m \in Int
  OBVIOUS
<1> HIDE DEF m
<1>4. IsFiniteSet(0..m) /\ Cardinality(0..m) = size
  BY <1>1, <1>3, FS_Interval, Zenon
<1> HIDE DEF size
<1>5. QED
  BY <1>2, <1>4, Zenon DEF m

\* e = <<p, n>> is a page that has frame f, or that the alloc in progress has
\* collected it for
HasFrame(e, f) ==
  \/ pgd[e[1]][e[2]].present /\ Fpn(pgd[e[1]][e[2]]) = f
  \/ /\ e[1] = req.proc
     /\ \E i \in 1..Len(req.frames) : e[2] = req.start + i - 1 /\ req.frames[i] = f

\* An alloc that still misses a frame finds one on the free list: otherwise all frames
\* would be with pages other than the next one it needs, which are too few for that.
LEMMA NeverShort ==
  ASSUME EnoughRam, RamInv, Missing
  PROVE  ram_free # <<>>
<1> SUFFICES ASSUME ram_free = <<>> PROVE FALSE
  OBVIOUS
<1>1. PICK p, start, k : p = req.proc /\ start = req.start /\ k = Len(req.frames)
  OBVIOUS
<1> DEFINE hole == <<p, start + k>>
           all  == Procs \X Pages
           rest == all \ {hole}
<1>2. req # <<>> /\ k < req.pages
  BY <1>1 DEF Missing
<1>3. /\ p \in Procs /\ start \in Nat /\ req.pages \in Nat /\ k \in Nat
      /\ start + req.pages <= MaxPages /\ MaxPages \in Nat
      /\ RamFrames \in Nat \ {0}
  <2>1. /\ req.proc \in Procs /\ req.start \in 0..MaxPages /\ req.pages \in 1..MaxAlloc
        /\ req.frames \in Seq(0..(FpnRange - 1)) /\ req.start + req.pages <= MaxPages
    BY <1>2, RequestType DEF RamInv
  <2>2. MaxPages \in Nat /\ MaxAlloc \in Nat /\ RamFrames \in Nat \ {0}
    BY PagingAssumption, Widths
  <2>3. Len(req.frames) \in Nat
    BY <2>1, LenProperties
  <2>4. QED
    BY <1>1, <2>1, <2>2, <2>3
<1>4. Low(p) = start
  BY <1>1, <1>2 DEF Low
<1>5. \A i \in 1..k : start + i - 1 \in Pages /\ start + i - 1 # start + k
  BY <1>2, <1>3 DEF Pages
<1>6. start + k \in Pages
  BY <1>2, <1>3 DEF Pages
<1>7. \A n \in Pages : pgd[p][n].present => n < start
  BY <1>3, <1>4 DEF RamInv, Sound, PageInv
<1>8. \A f \in Frames : \E e \in rest : HasFrame(e, f)
  <2> SUFFICES ASSUME NEW f \in Frames PROVE \E e \in rest : HasFrame(e, f)
    OBVIOUS
  <2>1. ~In(ram_free, f)
    BY DEF In
  <2>2. CASE In(InHand, f)
    <3>1. PICK i \in 1..k : req.frames[i] = f
      BY <1>1, <1>2, <2>2 DEF In, InHand
    <3>2. <<p, start + i - 1>> \in rest
      BY <1>3, <1>5
    <3>3. HasFrame(<<p, start + i - 1>>, f)
      BY <1>1, <3>1 DEF HasFrame
    <3>4. QED
      BY <3>2, <3>3
  <2>3. CASE \E q \in Procs : \E n \in Pages : pgd[q][n].present /\ Fpn(pgd[q][n]) = f
    <3>1. PICK q \in Procs, n \in Pages : pgd[q][n].present /\ Fpn(pgd[q][n]) = f
      BY <2>3
    <3>2. q # p \/ n # start + k
      BY <1>3, <1>7, <3>1 DEF Pages
    <3>3. <<q, n>> \in rest /\ HasFrame(<<q, n>>, f)
      BY <3>1, <3>2 DEF HasFrame
    <3>4. QED
      BY <3>3
  <2>4. QED
    BY <2>1, <2>2, <2>3 DEF RamInv, NoFrameLost
<1>9. \A e \in rest : \A f, g \in Frames : HasFrame(e, f) /\ HasFrame(e, g) => f = g
  <2> SUFFICES ASSUME NEW q \in Procs, NEW n \in Pages, NEW f \in Frames, NEW g \in Frames,
                      HasFrame(<<q, n>>, f), HasFrame(<<q, n>>, g)
               PROVE  f = g
    OBVIOUS
  <2>1. ASSUME q = p, NEW i \in 1..k, n = start + i - 1
        PROVE  ~pgd[q][n].present
    BY <1>3, <1>7, <2>1
  <2>2. ASSUME NEW i \in 1..k, n = start + i - 1, NEW j \in 1..k, n = start + j - 1
        PROVE  i = j
    BY <1>3, <2>2
  <2>3. QED
    BY <1>1, <2>1, <2>2 DEF HasFrame
<1>10. /\ IsFiniteSet(rest) /\ IsFiniteSet(Frames)
       /\ Cardinality(rest) < Cardinality(Frames)
  <2>1. IsFiniteSet(Pages) /\ Cardinality(Pages) = MaxPages
    BY <1>3, IntervalSize DEF Pages
  <2>2. IsFiniteSet(all) /\ Cardinality(all) = Cardinality(Procs) * MaxPages
    BY <2>1, FS_Product DEF EnoughRam
  <2>3. IsFiniteSet(Frames) /\ Cardinality(Frames) = RamFrames
    BY <1>3, IntervalSize DEF Frames
  <2>4. hole \in all
    BY <1>3, <1>6
  <2> HIDE DEF all, hole
  <2>5. IsFiniteSet(rest) /\ Cardinality(rest) = Cardinality(all) - 1
    BY <2>2, <2>4, FS_RemoveElement
  <2>6. Cardinality(all) \in Nat /\ Cardinality(all) <= RamFrames
    BY <2>2, FS_CardinalityType DEF EnoughRam
  <2>7. QED
    BY <1>3, <2>3, <2>5, <2>6
<1> DEFINE page == [f \in Frames |-> CHOOSE e \in rest : HasFrame(e, f)]
<1> HIDE DEF rest
<1>11. page \in [Frames -> rest] /\ \A f \in Frames : HasFrame(page[f], f)
  BY <1>8
<1> HIDE DEF page
<1>12. \E f, g \in Frames : f # g /\ page[f] = page[g]
  BY <1>10, <1>11, FS_PigeonHole
<1>13. QED
  BY <1>9, <1>11, <1>12

--------------------------------------------------------------------------------
(* Every step keeps the invariant.                                         *)

\* An access finds its page present: it changes no page table and no list.
LEMMA NeverFaults ==
  ASSUME EnoughRam, RamInv, NEW p \in Procs, NEW r \in Regions, NEW k \in Offsets,
         Accessible(p, r, k)
  PROVE  /\ k \in 1..symrgtbl[p][r].pages /\ PageOf(p, r, k) \in Pages
         /\ Present(p, PageOf(p, r, k))
         /\ ~GetPage(p, PageOf(p, r, k))
<1>1. /\ symrgtbl[p][r].start \in Nat /\ symrgtbl[p][r].pages \in Nat
      /\ MaxPages \in Nat /\ MaxAlloc \in Nat
  BY PagingAssumption DEF RamInv, TInv, TypeOK
<1>2. k \in Nat \ {0} /\ k <= symrgtbl[p][r].pages
  BY <1>1, PagingAssumption DEF EnoughRam, Accessible, Offsets
<1>3. symrgtbl[p][r].start + symrgtbl[p][r].pages <= Low(p)
  BY <1>1, <1>2 DEF RamInv, Sound, PageInv
<1>4. Low(p) \in Nat
  BY LowType DEF RamInv
<1>5. PageOf(p, r, k) < Low(p) /\ PageOf(p, r, k) \in Pages
  <2>1. PICK a, b, l : a = symrgtbl[p][r].start /\ b = symrgtbl[p][r].pages /\ l = Low(p)
    OBVIOUS
  <2>2. a \in Nat /\ b \in Nat /\ l \in Nat /\ k \in Nat /\ k <= b /\ a + b <= l
    BY <1>1, <1>2, <1>3, <1>4, <2>1
  <2>3. a + k - 1 < l
    BY <2>2
  <2>4. QED
    BY <2>1, <2>3 DEF Accessible, PageOf
<1>6. Present(p, PageOf(p, r, k))
  BY <1>5 DEF RamInv, InRam, Present
<1>7. QED
  BY <1>1, <1>2, <1>5, <1>6 DEF GetPage

\* What is left of the steps when no frame is ever missing.
RamStep ==
  \/ \E p \in Procs : \E r \in Regions : \E n \in 1..MaxAlloc : Alloc(p, r, n)
  \/ TakeFrame
  \/ Map
  \/ /\ NoFault
     /\ \E p \in Procs : \E r \in Regions : \E k \in Offsets :
          /\ k \in 1..symrgtbl[p][r].pages /\ Present(p, PageOf(p, r, k))
          /\ Read(p, r, k) \/ \E v \in Values : Write(p, r, k, v)
  \/ UNCHANGED vars

LEMMA OnlyRamSteps ==
  ASSUME EnoughRam, RamInv, [Next]_vars
  PROVE  RamStep
<1>1. Missing => ram_free # <<>>
  BY NeverShort
<1>2. AllocStep => TakeFrame \/ Map
  BY <1>1 DEF AllocStep, Evict, FailNoVictim, FailNoSwap
<1>3. ASSUME NEW p \in Procs, NEW r \in Regions, NEW k \in Offsets,
             Read(p, r, k) \/ \E v \in Values : Write(p, r, k, v)
      PROVE  /\ k \in 1..symrgtbl[p][r].pages /\ Present(p, PageOf(p, r, k))
             /\ NoFault
  <2>1. Accessible(p, r, k)
    BY <1>3 DEF Read, Write
  <2>2. /\ k \in 1..symrgtbl[p][r].pages /\ Present(p, PageOf(p, r, k))
        /\ ~GetPage(p, PageOf(p, r, k))
    BY <2>1, NeverFaults
  <2>3. NoFault
    BY <1>3, <2>2 DEF Read, Write
  <2>4. QED
    BY <2>2, <2>3
<1>4. CASE Next
  BY <1>2, <1>3, <1>4 DEF Next, RamStep
<1>5. CASE UNCHANGED vars
  BY <1>5 DEF RamStep
<1>6. QED
  BY <1>4, <1>5

\* The frame that alloc_pages_range takes goes from the free list to its hand.
LEMMA TakeFrameRam ==
  ASSUME EnoughRam, RamInv, TakeFrame
  PROVE  InRam' /\ NoFrameLost' /\ RegionsApart'
<1> DEFINE h == Head(ram_free)
<1>1. req # <<>> /\ ram_free # <<>> /\ Len(req.frames) < req.pages
  BY DEF TakeFrame, Missing
<1>2. /\ req \in Request /\ req.frames \in Seq(0..(FpnRange - 1))
      /\ req.pages \in Nat /\ Len(req.frames) \in Nat
      /\ ram_free \in Seq(Frames)
  <2>1. /\ req \in Request /\ req.frames \in Seq(0..(FpnRange - 1))
        /\ req.pages \in 1..MaxAlloc /\ MaxAlloc \in Nat
    BY <1>1, RequestType, PagingAssumption DEF RamInv
  <2>2. Len(req.frames) \in Nat
    BY <2>1, LenProperties
  <2>3. QED
    BY <2>1, <2>2 DEF RamInv, TInv, TypeOK, Frames
<1>3. h \in Frames /\ \A x : In(ram_free, x) /\ x # h => In(Tail(ram_free), x)
  BY <1>1, <1>2, HeadOff
<1>4. h \in 0..(FpnRange - 1)
  BY <1>3, PagingAssumption, Widths DEF Frames
<1>5. /\ req' = [req EXCEPT !.frames = <<h>> \o @]
      /\ ram_free' = Tail(ram_free)
      /\ UNCHANGED <<pgd, sbrk, symrgtbl>>
  BY DEF TakeFrame, FrameTaken, mmVars
<1> HIDE DEF h
<1>6. /\ req'.proc = req.proc /\ req'.start = req.start /\ req'.pages = req.pages
      /\ req'.frames = <<h>> \o req.frames
  BY <1>2, <1>5 DEF Request
<1>7. req' # <<>>
  <2>1. <<h>> \o req.frames \in Seq(0..(FpnRange - 1))
    BY <1>2, <1>4, Pushed
  <2>2. req' \in Request
    BY <1>2, <1>5, <2>1 DEF Request
  <2>3. QED
    BY <2>2, RequestMade
<1>8. InHand = req.frames /\ InHand' = <<h>> \o req.frames
  BY <1>1, <1>6, <1>7 DEF InHand
<1>9. \A x : In(InHand', x) <=> x = h \/ In(InHand, x)
  <2>1. \A x : In(<<h>> \o req.frames, x) <=> x = h \/ In(req.frames, x)
    <3>1. req.frames \in Seq(0..(FpnRange - 1))
      BY <1>2
    <3>2. QED
      BY <1>4, <3>1, Pushed
  <2>2. QED
    BY <1>8, <2>1
<1>10. \A q \in Procs : Low(q)' = Low(q)
  BY <1>1, <1>5, <1>6, <1>7 DEF Low
<1>11. InRam'
  BY <1>5, <1>10 DEF RamInv, InRam
<1>12. NoFrameLost'
  <2>1. \A f \in Frames :
          \/ In(ram_free', f) \/ In(InHand', f)
          \/ \E p \in Procs : \E n \in Pages : pgd'[p][n].present /\ Fpn(pgd'[p][n]) = f
    BY <1>3, <1>5, <1>9 DEF RamInv, NoFrameLost
  <2>2. \A f : In(InHand', f) => f \in Frames
    BY <1>3, <1>9 DEF RamInv, NoFrameLost
  <2>3. Len(req'.frames) = Len(req.frames) + 1
    BY <1>2, <1>4, <1>6, ConcatProperties
  <2>4. Len(req'.frames) <= req'.pages
    BY <1>1, <1>2, <1>6, <2>3
  <2>5. Frames' = Frames
    BY DEF Frames
  <2>6. QED
    BY <2>1, <2>2, <2>4, <2>5 DEF NoFrameLost
<1>13. RegionsApart'
  BY <1>5 DEF RamInv, RegionsApart
<1>14. QED
  BY <1>11, <1>12, <1>13

\* vmap_page_range: what it writes to the page table.
LEMMA MapWrites ==
  ASSUME RamInv, TInv', Map, NEW p, p = req.proc
  PROVE  /\ p \in Procs /\ req.region \in Regions
         /\ req.start \in Nat /\ req.pages \in Nat \ {0}
         /\ Len(req.frames) = req.pages /\ NewPages \subseteq Pages /\ Pages \subseteq Nat
         /\ Low(p) = req.start /\ Low(p)' = req.start + req.pages
         /\ \A q \in Procs : q # p => Low(q)' = Low(q)
         /\ \A n \in NewPages : /\ n - req.start + 1 \in 1..Len(req.frames)
                               /\ Online(pgd'[p][n])
                               /\ Fpn(pgd'[p][n]) = req.frames[n - req.start + 1]
                               /\ ~pgd[p][n].present
         /\ \A q \in Procs : \A m \in Pages : q # p \/ m \notin NewPages =>
              pgd'[q][m] = pgd[q][m]
<1>1. req # <<>> /\ Commit /\ ~Missing
  BY DEF Map
<1>2. Before
  BY DEF Before, RamInv
<1>3. /\ p \in Procs /\ req.region \in Regions
      /\ req.start \in 0..MaxPages /\ req.pages \in 1..MaxAlloc
      /\ req.frames \in Seq(0..(FpnRange - 1)) /\ NewPages \subseteq Pages
      /\ MaxPages \in Nat /\ MaxAlloc \in Nat /\ FpnRange \in Nat
  BY <1>1, RequestType, PagingAssumption, Widths DEF RamInv
<1>4. Len(req.frames) \in Nat
  BY <1>3, LenProperties
<1>5. Len(req.frames) = req.pages
  BY <1>1, <1>3, <1>4 DEF RamInv, NoFrameLost, Missing
<1>6. req.start \in Nat /\ req.pages \in Nat \ {0} /\ Pages \subseteq Nat
  BY <1>3 DEF Pages
<1>7. Low(p) = req.start
  BY <1>1 DEF Low
<1>8. \A q \in Procs : Low(q)' = IF q = req.proc THEN req.start + req.pages ELSE Low(q)
  BY <1>1, <1>2, CommitEnds
<1>9. pgd \in [Procs -> [Pages -> Pte]]
  BY DEF RamInv, TInv, TypeOK
<1>10. pgd' = [pgd EXCEPT ![req.proc] = [n \in Pages |->
                IF n \in NewPages THEN SetFpn(@[n], req.frames[n - req.start + 1])
                                 ELSE @[n]]]
  BY DEF Map
<1>11. /\ \A n \in NewPages :
             pgd'[p][n] = SetFpn(pgd[p][n], req.frames[n - req.start + 1])
       /\ \A q \in Procs : \A m \in Pages : q # p \/ m \notin NewPages =>
            pgd'[q][m] = pgd[q][m]
  BY <1>3, <1>9, <1>10
<1>12. \A n \in NewPages : /\ n - req.start + 1 \in 1..Len(req.frames)
                          /\ ~pgd[p][n].present
  <2>1. ASSUME NEW n \in NewPages
        PROVE  n - req.start + 1 \in 1..Len(req.frames) /\ ~(n < req.start)
    BY <1>5, <1>6 DEF NewPages
  <2>2. \A n \in Pages : pgd[p][n].present => n < req.start
    BY <1>3, <1>7 DEF RamInv, Sound, PageInv
  <2>3. QED
    BY <1>3, <2>1, <2>2
<1>13. ASSUME NEW n \in NewPages
       PROVE  /\ Online(pgd'[p][n])
              /\ Fpn(pgd'[p][n]) = req.frames[n - req.start + 1]
  <2> DEFINE f == req.frames[n - req.start + 1]
  <2>1. f \in 0..(FpnRange - 1)
    BY <1>3, <1>12, ElementOfSeq
  <2> HIDE DEF f
  <2>2. f \in Nat /\ f % FpnRange = f /\ pgd[p][n] \in Pte
    <3>1. f \in Nat
      BY <1>3, <2>1
    <3>2. f % FpnRange = f
      BY <2>1, Fits
    <3>3. pgd[p][n] \in Pte
      BY <1>3, <1>9
    <3>4. QED
      BY <3>1, <3>2, <3>3
  <2>3. pgd'[p][n] = SetFpn(pgd[p][n], f)
    BY <1>11 DEF f
  <2>4. QED
    BY <2>2, <2>3, SetFpnReads DEF f
<1>14. QED
  BY <1>3, <1>5, <1>6, <1>7, <1>8, <1>11, <1>12, <1>13

\* The end of __alloc writes the region that was asked for, above all the others.
LEMMA MapRegions ==
  ASSUME RamInv, TInv', Map
  PROVE  RegionsApart'
<1>1. PICK p, r : p = req.proc /\ r = req.region
  OBVIOUS
<1>2. p \in Procs /\ r \in Regions /\ req.start \in Nat /\ Low(p) = req.start
  BY <1>1, MapWrites
<1>3. symrgtbl \in [Procs -> [Regions -> [start : 0..MaxPages, pages : 0..MaxAlloc]]]
  BY DEF RamInv, TInv, TypeOK
<1>4. symrgtbl' = [symrgtbl EXCEPT ![p][r] = [start |-> req.start, pages |-> req.pages]]
  BY <1>1 DEF Map, Commit
<1>5. /\ symrgtbl'[p][r].start = req.start
      /\ \A q \in Procs : \A s \in Regions : q # p \/ s # r =>
           symrgtbl'[q][s] = symrgtbl[q][s]
  BY <1>2, <1>3, <1>4
<1>6. \A s \in Regions : s # r /\ symrgtbl'[p][s].pages > 0 =>
        symrgtbl'[p][s].start + symrgtbl'[p][s].pages <= symrgtbl'[p][r].start
  BY <1>2, <1>5 DEF RamInv, Sound, PageInv
<1>7. \A q \in Procs : \A s, t \in Regions :
        s # t /\ symrgtbl'[q][s].pages > 0 /\ symrgtbl'[q][t].pages > 0 =>
          \/ symrgtbl'[q][s].start + symrgtbl'[q][s].pages <= symrgtbl'[q][t].start
          \/ symrgtbl'[q][t].start + symrgtbl'[q][t].pages <= symrgtbl'[q][s].start
  <2> SUFFICES ASSUME NEW q \in Procs, NEW s \in Regions, NEW t \in Regions, s # t,
                      symrgtbl'[q][s].pages > 0, symrgtbl'[q][t].pages > 0
               PROVE  \/ symrgtbl'[q][s].start + symrgtbl'[q][s].pages
                            <= symrgtbl'[q][t].start
                      \/ symrgtbl'[q][t].start + symrgtbl'[q][t].pages
                            <= symrgtbl'[q][s].start
    OBVIOUS
  <2>1. CASE q = p /\ s = r
    BY <1>6, <2>1
  <2>2. CASE q = p /\ t = r
    BY <1>6, <2>2
  <2>3. CASE q # p \/ (s # r /\ t # r)
    <3>1. symrgtbl'[q][s] = symrgtbl[q][s] /\ symrgtbl'[q][t] = symrgtbl[q][t]
      BY <1>5, <2>3
    <3>2. QED
      BY <3>1 DEF RamInv, RegionsApart
  <2>4. QED
    BY <2>1, <2>2, <2>3
<1>8. QED
  BY <1>7 DEF RegionsApart

\* The collected frames, one for each new page, become the pages'.
LEMMA MapRam ==
  ASSUME RamInv, TInv', Map
  PROVE  InRam' /\ NoFrameLost'
<1>1. PICK p : p = req.proc
  OBVIOUS
<1>2. /\ p \in Procs /\ req.start \in Nat /\ req.pages \in Nat \ {0}
      /\ Len(req.frames) = req.pages /\ NewPages \subseteq Pages /\ Pages \subseteq Nat
      /\ Low(p) = req.start /\ Low(p)' = req.start + req.pages
      /\ \A q \in Procs : q # p => Low(q)' = Low(q)
  BY <1>1, MapWrites
<1>3. \A n \in NewPages : /\ n - req.start + 1 \in 1..Len(req.frames)
                         /\ Online(pgd'[p][n])
                         /\ Fpn(pgd'[p][n]) = req.frames[n - req.start + 1]
                         /\ ~pgd[p][n].present
  BY <1>1, MapWrites
<1>4. \A q \in Procs : \A m \in Pages : q # p \/ m \notin NewPages =>
        pgd'[q][m] = pgd[q][m]
  BY <1>1, MapWrites
<1>5. req # <<>> /\ UNCHANGED ram_free /\ req' = <<>>
  BY DEF Map, Commit, frameVars
<1>6. InHand = req.frames /\ InHand' = <<>> /\ \A f : ~In(InHand', f)
  BY <1>5 DEF InHand, In
<1>7. InRam'
  <2> SUFFICES ASSUME NEW q \in Procs, NEW n \in Pages
               PROVE  /\ pgd'[q][n].present =>
                           Online(pgd'[q][n]) /\ Fpn(pgd'[q][n]) \in Frames
                      /\ n < Low(q)' => pgd'[q][n].present
    BY DEF InRam, Frames, Pages
  <2>1. CASE q = p /\ n \in NewPages
    <3>1. In(InHand, Fpn(pgd'[q][n])) /\ Online(pgd'[q][n])
      BY <1>3, <1>6, <2>1 DEF In
    <3>2. QED
      BY <3>1 DEF RamInv, NoFrameLost, Online
  <2>2. CASE q # p \/ n \notin NewPages
    <3>1. n < Low(q)' => n < Low(q)
      BY <1>2, <2>2 DEF NewPages
    <3>2. QED
      BY <1>4, <2>2, <3>1 DEF RamInv, InRam
  <2>3. QED
    BY <2>1, <2>2
<1>8. ASSUME NEW f \in Frames
      PROVE  \/ In(ram_free', f)
             \/ \E q \in Procs : \E n \in Pages : pgd'[q][n].present /\ Fpn(pgd'[q][n]) = f
  <2>1. CASE In(ram_free, f)
    BY <1>5, <2>1
  <2>2. CASE In(InHand, f)
    <3>1. PICK i \in 1..req.pages : req.frames[i] = f
      BY <1>2, <1>6, <2>2 DEF In
    <3>2. PICK n : n = req.start + i - 1
      OBVIOUS
    <3>3. n \in NewPages /\ n - req.start + 1 = i
      BY <1>2, <3>2 DEF NewPages
    <3>4. pgd'[p][n].present /\ Fpn(pgd'[p][n]) = f
      BY <1>3, <3>1, <3>3 DEF Online
    <3>5. QED
      BY <1>2, <3>3, <3>4
  <2>3. CASE \E q \in Procs : \E n \in Pages : pgd[q][n].present /\ Fpn(pgd[q][n]) = f
    <3>1. PICK q \in Procs, n \in Pages : pgd[q][n].present /\ Fpn(pgd[q][n]) = f
      BY <2>3
    <3>2. q # p \/ n \notin NewPages
      BY <1>3, <3>1
    <3>3. QED
      BY <1>4, <3>1, <3>2
  <2>4. QED
    BY <2>1, <2>2, <2>3 DEF RamInv, NoFrameLost
<1>9. NoFrameLost'
  BY <1>5, <1>6, <1>8 DEF NoFrameLost, Frames, Pages
<1>10. QED
  BY <1>7, <1>9

\* While all pages fit in RAM, no frame is lost and no page leaves RAM.
LEMMA NextRamInv == EnoughRam /\ RamInv /\ [Next]_vars => RamInv'
<1> SUFFICES ASSUME EnoughRam, RamInv, [Next]_vars PROVE RamInv'
  OBVIOUS
<1>1. RamStep
  BY OnlyRamSteps
<1>2. IInv'
  BY NextIInv DEF EnoughRam, RamInv, IInv
<1>3. defined'
  BY <1>1 DEF RamInv, RamStep, Alloc, TakeFrame, Map, Commit, NoFault, vars
<1>4. TInv' /\ Sound'
  BY <1>2, <1>3 DEF IInv
<1>5. ASSUME NEW p \in Procs, NEW r \in Regions, NEW n \in 1..MaxAlloc, Alloc(p, r, n)
      PROVE  InRam' /\ NoFrameLost' /\ RegionsApart'
  <2>1. req # req' /\ req = <<>> /\ InHand = <<>> /\ InHand' = <<>>
        /\ req'.frames = <<>> /\ req'.pages = n /\ \A q \in Procs : Low(q)' = Low(q)
    <3>1. req' # <<>>
      BY <1>4, <1>5, RequestMade DEF TInv, TypeOK, Alloc
    <3>2. /\ req = <<>> /\ req'.frames = <<>> /\ req'.proc = p /\ req'.start = sbrk[p]
          /\ req'.pages = n
      BY <1>5 DEF Alloc
    <3>3. \A q \in Procs \ {p} : sbrk'[q] = sbrk[q]
      BY <1>5 DEF Alloc, MovedBreak, RamInv, TInv, TypeOK
    <3>4. QED
      BY <3>1, <3>2, <3>3 DEF InHand, Low
  <2>2. UNCHANGED <<ram_free, pgd, symrgtbl>>
    BY <1>5 DEF Alloc, frameVars
  <2>3. InRam' /\ RegionsApart'
    BY <2>1, <2>2 DEF RamInv, InRam, RegionsApart, Frames, Pages
  <2>4. Len(req'.frames) = 0 /\ 0 <= req'.pages
    BY <2>1, PagingAssumption
  <2>5. NoFrameLost'
    BY <2>1, <2>2, <2>4 DEF RamInv, NoFrameLost, Frames, Pages
  <2>6. QED
    BY <2>3, <2>5
<1>6. ASSUME TakeFrame PROVE InRam' /\ NoFrameLost' /\ RegionsApart'
  BY <1>6, TakeFrameRam
<1>7. ASSUME Map PROVE InRam' /\ NoFrameLost' /\ RegionsApart'
  BY <1>4, <1>7, MapRam, MapRegions
<1>8. ASSUME UNCHANGED <<ram_free, req, pgd, sbrk, symrgtbl>>
      PROVE  InRam' /\ NoFrameLost' /\ RegionsApart'
  <2>1. InHand' = InHand /\ \A q \in Procs : Low(q)' = Low(q)
    BY <1>8 DEF InHand, Low
  <2>2. QED
    BY <1>8, <2>1 DEF RamInv, InRam, NoFrameLost, RegionsApart, Frames, Pages
<1>9. InRam' /\ NoFrameLost' /\ RegionsApart'
  <2>1. CASE NoFault /\ \E p \in Procs : \E r \in Regions : \E k \in Offsets :
               Read(p, r, k) \/ \E v \in Values : Write(p, r, k, v)
    BY <1>8, <2>1 DEF NoFault, Read, Write
  <2>2. CASE UNCHANGED vars
    BY <1>8, <2>2 DEF vars, frameVars, mmVars
  <2>3. QED
    BY <1>1, <1>5, <1>6, <1>7, <2>1, <2>2 DEF RamStep
<1>10. QED
  BY <1>3, <1>4, <1>9 DEF RamInv

\* With enough RAM, every page of a process is in RAM from the moment its alloc ends,
\* and every frame is free, in the hand of an alloc or a page's.
THEOREM RamInvariance ==
  ASSUME EnoughRam PROVE Spec => []RamInv
<1>1. RamInv /\ [Next]_vars => RamInv'
  BY NextRamInv
<1>2. QED
  BY <1>1, InitRamInv, PTL DEF Spec

\* Programs that stay in their regions never make the system use an unset variable.
THEOREM NothingUnsetHolds ==
  ASSUME EnoughRam PROVE Spec => []NothingUnset
<1>1. RamInv => NothingUnset
  BY DEF RamInv, NothingUnset
<1>2. QED
  BY <1>1, RamInvariance, PTL

--------------------------------------------------------------------------------
(* What it means for a program.                                            *)

\* A frame that is collected leaves the request what it is.
LEMMA FrameAdded ==
  ASSUME TInv, TakeFrame
  PROVE  /\ req # <<>> /\ req' # <<>> /\ req'.proc = req.proc
         /\ req'.region = req.region /\ req'.pages = req.pages
<1>1. req # <<>> /\ req \in Request
  BY RequestType DEF TakeFrame, Missing
<1>2. req' = [req EXCEPT !.frames = <<Head(ram_free)>> \o @]
  BY DEF TakeFrame
<1>3. DOMAIN req' = DOMAIN req /\ "proc" \in DOMAIN req
  BY <1>1, <1>2 DEF Request
<1>4. req' # <<>>
  BY <1>3
<1>5. QED
  BY <1>1, <1>2, <1>4 DEF Request

\* An alloc that has returned 0 has mapped all pages of its region: with enough RAM the
\* result of the mapping, which __alloc does not look at, is never an error.
THEOREM ZeroMeansMappedHolds ==
  ASSUME EnoughRam PROVE Spec => ZeroMeansMapped
<1> DEFINE Ended == req # <<>> /\ req' = <<>> /\ stat' = 0 =>
                      \A n \in req.start..(req.start + req.pages - 1) :
                        pgd'[req.proc][n].present
<1>1. ASSUME RamInv, RamInv', [Next]_vars PROVE Ended
  <2> SUFFICES ASSUME req # <<>>, req' = <<>>
               PROVE  \A n \in NewPages : pgd'[req.proc][n].present
    BY DEF NewPages
  <2>1. RamStep
    BY <1>1, OnlyRamSteps
  <2>2. TakeFrame => req' # <<>>
    BY <1>1, FrameAdded DEF RamInv
  <2>3. Map
    BY <2>1, <2>2 DEF RamStep, Alloc, Read, Write, vars
  <2>4. TInv'
    BY <1>1 DEF RamInv
  <2>5. PICK p : p = req.proc
    OBVIOUS
  <2>6. QED
    BY <1>1, <2>3, <2>4, <2>5, MapWrites DEF Online
<1>2. Spec => [][Ended]_vars
  <2>1. RamInv /\ RamInv' /\ [Next]_vars => [Ended]_vars
    BY <1>1
  <2>2. QED
    BY <2>1, RamInvariance, PTL DEF Spec
<1>3. QED
  BY <1>2 DEF ZeroMeansMapped

\* the memory as the programs see it
Memory == [p \in Procs |-> [r \in Regions |-> Cells(p, r)]]

\* the alloc they wait for
Pending == IF req = <<>> THEN <<>> ELSE <<req.proc, req.region, req.pages>>

MemoryTyped == RamInv => Memory \in [Procs -> [Regions -> Seq(Values)]]

\* A cell of a region is a cell of RAM; two cells, of any regions of any processes, are
\* never the same.
LEMMA CellsApart ==
  ASSUME RamInv, NEW p \in Procs, NEW r \in Regions, NEW k \in 1..symrgtbl[p][r].pages
  PROVE  /\ PageOf(p, r, k) \in Pages /\ PageOf(p, r, k) < Low(p)
         /\ Fpn(pgd[p][PageOf(p, r, k)]) \in Frames
         /\ \A q \in Procs : \A s \in Regions : \A l \in 1..symrgtbl[q][s].pages :
              Fpn(pgd[q][PageOf(q, s, l)]) = Fpn(pgd[p][PageOf(p, r, k)])
                => q = p /\ s = r /\ l = k
<1>1. \A q \in Procs : \A s \in Regions :
        symrgtbl[q][s].start \in Nat /\ symrgtbl[q][s].pages \in Nat
  <2>1. symrgtbl \in [Procs -> [Regions -> [start : 0..MaxPages, pages : 0..MaxAlloc]]]
    BY DEF RamInv, TInv, TypeOK
  <2>2. \A q \in Procs : \A s \in Regions :
          symrgtbl[q][s].start \in 0..MaxPages /\ symrgtbl[q][s].pages \in 0..MaxAlloc
    BY <2>1
  <2>3. QED
    BY <2>2, PagingAssumption
<1>2. MaxPages \in Nat /\ \A q \in Procs : Low(q) \in 0..MaxPages
  BY RequestType, PagingAssumption DEF RamInv, TInv, TypeOK, Low
<1>3. ASSUME NEW q \in Procs, NEW s \in Regions, NEW l \in 1..symrgtbl[q][s].pages
      PROVE  /\ PageOf(q, s, l) \in Pages /\ PageOf(q, s, l) < Low(q)
             /\ Online(pgd[q][PageOf(q, s, l)])
             /\ Fpn(pgd[q][PageOf(q, s, l)]) \in Frames
  <2>1. symrgtbl[q][s].start + symrgtbl[q][s].pages <= Low(q)
    BY <1>1 DEF RamInv, Sound, PageInv
  <2>2. PageOf(q, s, l) \in Pages /\ PageOf(q, s, l) < Low(q)
    BY <1>1, <1>2, <2>1 DEF PageOf, Pages
  <2>3. QED
    BY <2>2 DEF RamInv, InRam
<1>4. ASSUME NEW q \in Procs, NEW s \in Regions, NEW l \in 1..symrgtbl[q][s].pages,
             Fpn(pgd[q][PageOf(q, s, l)]) = Fpn(pgd[p][PageOf(p, r, k)])
      PROVE  q = p /\ s = r /\ l = k
  <2>1. q = p /\ PageOf(q, s, l) = PageOf(p, r, k)
    BY <1>3, <1>4 DEF RamInv, Sound, FrameInv
  <2>2. s = r
    BY <1>1, <2>1 DEF RamInv, RegionsApart, PageOf
  <2>3. QED
    BY <1>1, <2>1, <2>2 DEF PageOf
<1>5. QED
  BY <1>3, <1>4

\* The memory a program sees has its type: every region is a sequence of values.
LEMMA MemoryType == MemoryTyped
<1> SUFFICES ASSUME RamInv, NEW p \in Procs, NEW r \in Regions
             PROVE  Cells(p, r) \in Seq(Values)
  BY DEF MemoryTyped, Memory
<1>1. symrgtbl[p][r].pages \in Nat
  BY PagingAssumption DEF RamInv, TInv, TypeOK
<1>2. \A k \in 1..symrgtbl[p][r].pages : ram[Fpn(pgd[p][PageOf(p, r, k)])] \in Values
  BY CellsApart DEF RamInv, TInv, TypeOK, Frames
<1>3. Cells(p, r) \in [1..symrgtbl[p][r].pages -> Values]
  BY <1>2 DEF Cells
<1>4. QED
  BY <1>1, <1>3, SeqDef

\* Moving the break only records the request, collecting frames is not seen by any
\* program, and the end of an alloc gives the region that was asked for its cells and
\* leaves all others alone.
LEMMA StepAlloc ==
  ASSUME RamInv, RamInv'
  PROVE  /\ \A p \in Procs : \A r \in Regions : \A n \in 1..MaxAlloc :
              Alloc(p, r, n) => Mem!Ask(p, r, n)
         /\ TakeFrame => UNCHANGED <<Memory, Pending, last>>
         /\ Map => \E p \in Procs, r \in Regions : \E n \in 1..MaxAlloc :
                     Mem!Provide(p, r, n)
<1>1. ASSUME UNCHANGED <<ram, pgd, symrgtbl>> PROVE UNCHANGED Memory
  BY <1>1 DEF Memory, Cells, PageOf
<1>2. ASSUME Map
      PROVE  \E p \in Procs, r \in Regions : \E n \in 1..MaxAlloc : Mem!Provide(p, r, n)
  <2>1. PICK p, r : p = req.proc /\ r = req.region
    OBVIOUS
  <2>2. TInv'
    BY DEF RamInv
  <2>3. /\ p \in Procs /\ r \in Regions /\ Low(p) = req.start
        /\ req.start \in Nat /\ req.pages \in Nat /\ Pages \subseteq Nat
        /\ \A q \in Procs : \A m \in Pages : q # p \/ m \notin NewPages =>
             pgd'[q][m] = pgd[q][m]
    BY <1>2, <2>1, <2>2, MapWrites
  <2>4. symrgtbl' = [symrgtbl EXCEPT ![p][r] = [start |-> req.start, pages |-> req.pages]]
        /\ UNCHANGED ram /\ req # <<>> /\ req' = <<>> /\ last' = <<>>
    BY <1>2, <2>1 DEF Map, Commit, frameVars
  <2>5. ASSUME NEW q \in Procs, NEW s \in Regions, q # p \/ s # r
        PROVE  Cells(q, s)' = Cells(q, s)
    <3>1. symrgtbl'[q][s] = symrgtbl[q][s]
      BY <2>3, <2>4, <2>5 DEF RamInv, TInv, TypeOK
    <3>2. ASSUME NEW k \in 1..symrgtbl[q][s].pages
          PROVE  pgd'[q][PageOf(q, s, k)] = pgd[q][PageOf(q, s, k)]
      <4>1. PageOf(q, s, k) \in Pages /\ PageOf(q, s, k) < Low(q)
        BY CellsApart
      <4>2. q # p \/ PageOf(q, s, k) \notin NewPages
        <5> SUFFICES ASSUME q = p PROVE PageOf(q, s, k) \notin NewPages
          OBVIOUS
        <5>1. PageOf(q, s, k) \in Nat /\ PageOf(q, s, k) < req.start
          BY <2>3, <4>1
        <5>2. \A n \in NewPages : ~(n < req.start)
          BY <2>3 DEF NewPages
        <5>3. QED
          BY <5>1, <5>2
      <4>3. QED
        BY <2>3, <4>1, <4>2
    <3>3. /\ Cells(q, s) = [k \in 1..symrgtbl[q][s].pages |->
                             ram[Fpn(pgd[q][symrgtbl[q][s].start + k - 1])]]
          /\ Cells(q, s)' = [k \in 1..symrgtbl[q][s].pages |->
                              ram[Fpn(pgd'[q][symrgtbl[q][s].start + k - 1])]]
      BY <2>4, <3>1 DEF Cells, PageOf
    <3>4. \A k \in 1..symrgtbl[q][s].pages :
            pgd'[q][symrgtbl[q][s].start + k - 1] = pgd[q][symrgtbl[q][s].start + k - 1]
      BY <3>2 DEF PageOf
    <3>5. QED
      BY <3>3, <3>4
  <2>6. Memory' \in [Procs -> [Regions -> Seq(Values)]]
    <3>1. MemoryTyped'
      BY MemoryType, PTL
    <3>2. QED
      BY <3>1 DEF MemoryTyped
  <2>7. PICK n, cells : n = req.pages /\ cells = Memory'[p][r]
    OBVIOUS
  <2>8. n \in 1..MaxAlloc
    BY <2>4, <2>7, RequestType DEF RamInv
  <2>9. cells \in [1..n -> Values]
    <3>1. symrgtbl'[p][r].pages = n
      BY <2>3, <2>4, <2>7 DEF RamInv, TInv, TypeOK
    <3>2. DOMAIN cells = 1..n
      BY <2>3, <2>7, <3>1 DEF Memory, Cells
    <3>3. cells \in Seq(Values)
      BY <2>3, <2>6, <2>7
    <3>4. Len(cells) \in Nat /\ cells \in [1..Len(cells) -> Values]
      BY <3>3, LenProperties
    <3>5. QED
      BY <3>2, <3>4
  <2>10. Memory' = [Memory EXCEPT ![p][r] = cells]
    <3>1. Memory \in [Procs -> [Regions -> Seq(Values)]]
      BY MemoryType DEF MemoryTyped
    <3>2. \A q \in Procs : \A s \in Regions :
            Memory'[q][s] = IF q = p /\ s = r THEN cells ELSE Memory[q][s]
      BY <2>5, <2>7 DEF Memory
    <3> HIDE DEF Memory
    <3>3. \A q \in Procs : Memory'[q] = [Memory EXCEPT ![p][r] = cells][q]
      BY <2>3, <2>6, <3>1, <3>2
    <3>4. QED
      BY <2>3, <2>6, <3>1, <3>3
  <2>11. Pending = <<p, r, n>> /\ Pending' = <<>>
    BY <2>1, <2>4, <2>7 DEF Pending
  <2>12. Mem!Provide(p, r, n)
    BY <2>4, <2>9, <2>10, <2>11 DEF Mem!Provide, Memory, Pending
  <2>13. QED
    BY <2>3, <2>8, <2>12
<1>3. ASSUME NEW p \in Procs, NEW r \in Regions, NEW n \in 1..MaxAlloc, Alloc(p, r, n)
      PROVE  Mem!Ask(p, r, n)
  <2>1. /\ req = <<>> /\ last' = last
        /\ req' = [proc |-> p, region |-> r, start |-> sbrk[p], pages |-> n,
                    frames |-> <<>>]
    BY <1>3 DEF Alloc
  <2>2. DOMAIN req' # {}
    BY <2>1
  <2>3. req' # <<>>
    BY <2>2
  <2>4. UNCHANGED Memory
    BY <1>1, <1>3 DEF Alloc, frameVars
  <2>5. Pending = <<>> /\ Pending' = <<p, r, n>>
    BY <2>1, <2>3 DEF Pending
  <2>6. QED
    BY <2>1, <2>4, <2>5 DEF Mem!Ask, Memory, Pending
<1>4. ASSUME TakeFrame PROVE UNCHANGED <<Memory, Pending, last>>
  <2>1. UNCHANGED Pending
    BY <1>4, FrameAdded DEF RamInv, Pending
  <2>2. QED
    BY <1>1, <1>4, <2>1 DEF TakeFrame, mmVars
<1>5. QED
  BY <1>2, <1>3, <1>4

\* A process whose alloc is under way neither reads nor writes.
LEMMA NotWaiting ==
  ASSUME RamInv, NEW p \in Procs, NEW r \in Regions, NEW k \in Offsets,
         Accessible(p, r, k)
  PROVE  ~Mem!Waits(p)
<1>1. req # <<>> => req.proc # p
  BY DEF Accessible, CanRun
<1>2. \A s \in Regions : \A n \in 1..MaxAlloc : Pending # <<p, s, n>>
  BY <1>1 DEF Pending
<1>3. QED
  BY <1>2 DEF Mem!Waits, Pending

\* A read returns the cell, and a write changes the cell, and nothing else.
LEMMA StepAccess ==
  ASSUME RamInv, RamInv', NoFault,
         NEW p \in Procs, NEW r \in Regions, NEW k \in Offsets,
         k \in 1..symrgtbl[p][r].pages
  PROVE  /\ Read(p, r, k) => k \in DOMAIN Memory[p][r] /\ Mem!Get(p, r, k)
         /\ \A v \in Values : Write(p, r, k, v) =>
              k \in DOMAIN Memory[p][r] /\ Mem!Put(p, r, k, v)
<1>1. PICK f : f = Fpn(pgd[p][PageOf(p, r, k)])
  OBVIOUS
<1>2. f \in Frames /\ ram \in [Frames -> Values]
  BY <1>1, CellsApart DEF RamInv, TInv, TypeOK, Frames
<1>3. DOMAIN Memory[p][r] = 1..symrgtbl[p][r].pages /\ Memory[p][r][k] = ram[f]
  BY <1>1 DEF Memory, Cells
<1>4. Fpn(pgd'[p][PageOf(p, r, k)]) = f
  BY <1>1 DEF NoFault
<1>5. ASSUME Read(p, r, k) PROVE Mem!Get(p, r, k)
  <2>1. UNCHANGED Memory
    BY <1>5 DEF Read, NoFault, Memory, Cells, PageOf
  <2>2. last' = <<"read", p, r, k, ram[f]>>
    BY <1>2, <1>4, <1>5 DEF Read, Fetch
  <2>3. ~Mem!Waits(p) /\ UNCHANGED Pending
    BY <1>5, NotWaiting DEF Read, Pending
  <2>4. QED
    BY <1>3, <2>1, <2>2, <2>3 DEF Mem!Get, Memory, Pending
<1>6. ASSUME NEW v \in Values, Write(p, r, k, v) PROVE Mem!Put(p, r, k, v)
  <2>1. ram' = [ram EXCEPT ![f] = v]
    BY <1>2, <1>4, <1>6 DEF Write, Store
  <2>2. UNCHANGED <<pgd, symrgtbl>> /\ last' = <<"write", p, r, k, v>>
    BY <1>6 DEF Write, NoFault
  <2>3. ASSUME NEW q \in Procs, NEW s \in Regions, NEW l \in 1..symrgtbl[q][s].pages
        PROVE  ram'[Fpn(pgd[q][PageOf(q, s, l)])] =
                 IF q = p /\ s = r /\ l = k THEN v ELSE ram[Fpn(pgd[q][PageOf(q, s, l)])]
    <3>1. Fpn(pgd[q][PageOf(q, s, l)]) \in Frames
      BY CellsApart
    <3>2. Fpn(pgd[q][PageOf(q, s, l)]) = f <=> q = p /\ s = r /\ l = k
      BY <1>1, CellsApart
    <3>3. QED
      BY <1>2, <2>1, <3>1, <3>2
  <2>4. ASSUME NEW q \in Procs, NEW s \in Regions
        PROVE  Memory'[q][s] = [Memory EXCEPT ![p][r][k] = v][q][s]
    <3>1. Memory'[q][s] = [l \in 1..symrgtbl[q][s].pages |->
                            IF q = p /\ s = r /\ l = k
                              THEN v ELSE ram[Fpn(pgd[q][PageOf(q, s, l)])]]
      BY <2>2, <2>3 DEF Memory, Cells, PageOf
    <3>2. Memory[q][s] = [l \in 1..symrgtbl[q][s].pages |->
                           ram[Fpn(pgd[q][PageOf(q, s, l)])]]
      BY DEF Memory, Cells
    <3>3. Memory'[q][s] = IF q = p /\ s = r THEN [Memory[p][r] EXCEPT ![k] = v]
                                             ELSE Memory[q][s]
      <4>1. CASE q = p /\ s = r
        <5>1. Memory'[p][r] = [l \in 1..symrgtbl[p][r].pages |->
                               IF l = k THEN v ELSE ram[Fpn(pgd[p][PageOf(p, r, l)])]]
          BY <3>1, <4>1
        <5>2. Memory[p][r] = [l \in 1..symrgtbl[p][r].pages |->
                               ram[Fpn(pgd[p][PageOf(p, r, l)])]]
          BY <3>2, <4>1
        <5> HIDE DEF Memory
        <5>3. QED
          BY <4>1, <5>1, <5>2
      <4>2. CASE q # p \/ s # r
        <5>1. Memory'[q][s] = [l \in 1..symrgtbl[q][s].pages |->
                               ram[Fpn(pgd[q][PageOf(q, s, l)])]]
          BY <3>1, <4>2
        <5>2. QED
          BY <3>2, <4>2, <5>1
      <4>3. QED
        BY <4>1, <4>2
    <3>4. [Memory EXCEPT ![p][r][k] = v][q][s] =
            IF q = p /\ s = r THEN [Memory[p][r] EXCEPT ![k] = v] ELSE Memory[q][s]
      <4>1. Memory \in [Procs -> [Regions -> Seq(Values)]]
        BY MemoryType DEF MemoryTyped
      <4> HIDE DEF Memory
      <4>2. QED
        BY <4>1
    <3>5. QED
      BY <3>3, <3>4
  <2>5. Memory' = [Memory EXCEPT ![p][r][k] = v]
    BY <2>4 DEF Memory
  <2>6. ~Mem!Waits(p) /\ UNCHANGED Pending
    BY <1>6, NotWaiting DEF Write, Pending
  <2>7. QED
    BY <1>3, <2>2, <2>5, <2>6 DEF Mem!Put, Memory, Pending
<1>7. QED
  BY <1>3, <1>5, <1>6

\* With enough RAM, programs that stay in their regions see private, stable memory: a
\* cell changes only by a write to it, or when the alloc of its region that was asked
\* for ends, every write arrives in its cell, and a read returns what is there.
THEOREM ImplementsMemory ==
  ASSUME EnoughRam PROVE Spec => ImplementsVirtMem
<1>1. Init => Mem!MemInit
  BY DEF Init, Mem!MemInit, Cells, Nobody
<1>2. ASSUME RamInv, RamInv', [Next]_vars PROVE [Mem!MemNext]_(Mem!memVars)
  <2>1. RamStep
    BY <1>2, OnlyRamSteps
  <2>2. UNCHANGED <<Memory, Pending, last>> => UNCHANGED Mem!memVars
    BY DEF Mem!memVars, Memory, Pending
  <2>3. CASE Map
    BY <1>2, <2>3, StepAlloc DEF Mem!MemNext
  <2>4. CASE TakeFrame
    BY <1>2, <2>2, <2>4, StepAlloc
  <2>5. CASE \E p \in Procs : \E r \in Regions : \E n \in 1..MaxAlloc : Alloc(p, r, n)
    BY <1>2, <2>5, StepAlloc DEF Mem!MemNext
  <2>6. ASSUME NoFault, NEW p \in Procs, NEW r \in Regions, NEW k \in Offsets,
               k \in 1..symrgtbl[p][r].pages,
               Read(p, r, k) \/ \E v \in Values : Write(p, r, k, v)
        PROVE  Mem!MemNext
    <3>1. \/ k \in DOMAIN Memory[p][r] /\ Mem!Get(p, r, k)
          \/ k \in DOMAIN Memory[p][r] /\ \E v \in Values : Mem!Put(p, r, k, v)
      BY <1>2, <2>6, StepAccess
    <3>2. QED
      BY <3>1 DEF Mem!MemNext, Memory
  <2>7. CASE UNCHANGED vars
    <3>1. UNCHANGED <<ram, pgd, symrgtbl, req, last>>
      BY <2>7 DEF vars, frameVars, mmVars
    <3>2. UNCHANGED <<Memory, Pending>>
      BY <3>1 DEF Memory, Cells, PageOf, Pending
    <3>3. QED
      BY <2>2, <3>1, <3>2
  <2>8. QED
    BY <2>1, <2>3, <2>4, <2>5, <2>6, <2>7 DEF RamStep
<1>3. QED
  BY <1>1, <1>2, RamInvariance, PTL DEF Spec, ImplementsVirtMem, Mem!MemSpec
==================================================================================
