------------------------------ MODULE PagingProofs ------------------------------
(***************************************************************************)
(* Proofs about Paging.tla for every number of processes, regions, frames, *)
(* swap devices and pages, and before them about the page table entries of *)
(* PageTable.tla: the setters never overflow the bits that the fields      *)
(* share, and the getters read back what was written, up to the width of   *)
(* the field.                                                              *)
(*                                                                         *)
(* Types hold for every program.  The rest is for programs that stay in    *)
(* their regions (Overrun = 0): Sound says who has which frame and slot,   *)
(* and DataInv what a failed mapping leaves behind, from which it follows  *)
(* that evictions keep the data of swapped pages.                          *)
(***************************************************************************)
EXTENDS Paging, Integers, TLAPS, SequenceTheorems, WellFoundedInduction

--------------------------------------------------------------------------------
(* What the setters of a page table entry leave in it, for every entry and *)
(* every number.                                                           *)

\* The fields are not empty.
LEMMA Widths ==
  /\ FpnRange \in Nat \ {0} /\ TypRange \in Nat \ {0}
  /\ OffRange \in Nat \ {0} /\ LowRange \in Nat \ {0}
<1>1. {2048, 1024, 32, 8192} \subseteq Nat \ {0}
  OBVIOUS
<1>2. \A a, b \in Nat \ {0} : a * b \in Nat \ {0}
  OBVIOUS
<1>3. OffRange \in Nat \ {0}
  BY <1>1, <1>2 DEF OffRange
<1>4. QED
  BY <1>1, <1>2, <1>3 DEF FpnRange, TypRange, LowRange

\* A number that fits its field is read back as it was written.
LEMMA Fits ==
  /\ \A f \in 0..(FpnRange - 1) : f % FpnRange = f
  /\ \A w \in 0..(TypRange - 1) : w % TypRange = w
  /\ \A o \in 0..(OffRange - 1) : o % OffRange = o
<1>1. \A n \in Nat \ {0} : \A k \in 0..(n - 1) : k % n = k
  OBVIOUS
<1>2. QED
  BY <1>1, Widths

\* PAGING_FPN, PAGING_PTE_SWP and PAGING_SWPTYP give numbers of the fields' widths.
LEMMA FieldRange ==
  ASSUME NEW pte \in Pte
  PROVE  /\ Fpn(pte) \in 0..(FpnRange - 1)
         /\ Swp(pte) \in 0..(OffRange - 1)
         /\ SwpTyp(pte) \in 0..(TypRange - 1)
<1>1. pte.low \in Nat /\ pte.low < LowRange
  BY Widths DEF Pte
<1>2. \A n \in Nat \ {0} : \A k \in Nat : k % n \in 0..(n - 1)
  OBVIOUS
<1>3. Fpn(pte) \in 0..(FpnRange - 1)
  BY <1>1, <1>2, Widths DEF Fpn
<1>4. SwpTyp(pte) \in 0..(TypRange - 1)
  BY <1>1, <1>2, Widths DEF SwpTyp
<1>5. Swp(pte) \in Nat /\ Swp(pte) < OffRange
  BY SMTT(30), <1>1 DEF Swp, LowRange, TypRange, OffRange
<1>6. Swp(pte) \in 0..(OffRange - 1)
  BY <1>5, Widths
<1>7. QED
  BY <1>3, <1>4, <1>6

\* pte_set_fpn: the entry is online, its frame number is what was written, cut to 13
\* bits, and the bits above, which belong to the swap frame, stay.
THEOREM SetFpnReads ==
  ASSUME NEW pte \in Pte, NEW fpn \in Nat
  PROVE  /\ SetFpn(pte, fpn) \in Pte
         /\ Online(SetFpn(pte, fpn)) /\ ~Swapped(SetFpn(pte, fpn))
         /\ Fpn(SetFpn(pte, fpn)) = fpn % FpnRange
         /\ SetFpn(pte, fpn).low \div FpnRange = pte.low \div FpnRange
<1> DEFINE high == pte.low \div FpnRange
           f    == fpn % FpnRange
           low  == (high * FpnRange) + f
<1>1. pte.low \in Nat /\ pte.low < LowRange
  BY Widths DEF Pte
<1>2. high \in Nat /\ high < 8192 /\ f \in Nat /\ f < 8192
  BY SMTT(30), <1>1 DEF FpnRange, LowRange, TypRange, OffRange
<1>3. SetFpn(pte, fpn) = [present |-> TRUE, swapped |-> FALSE, low |-> low]
  BY DEF SetFpn
<1> HIDE DEF high, f
<1>4. low \in Nat /\ low % FpnRange = f /\ low \div FpnRange = high
  BY SMTT(30), <1>2 DEF FpnRange
<1>5. low < LowRange
  BY SMTT(30), <1>2 DEF FpnRange, LowRange, TypRange, OffRange
<1>6. low \in 0..(LowRange - 1)
  BY <1>4, <1>5, Widths
<1> HIDE DEF low
<1>7. SetFpn(pte, fpn) \in Pte
  BY <1>3, <1>6 DEF Pte
<1>8. QED
  BY <1>3, <1>4, <1>7 DEF Online, Swapped, Fpn, high, f

\* pte_set_swap: the entry is present and swapped, and its device and frame are what
\* was written, cut to 5 and 21 bits.
THEOREM SetSwapReads ==
  ASSUME NEW pte \in Pte, NEW typ \in Nat, NEW off \in Nat
  PROVE  /\ SetSwap(pte, typ, off) \in Pte
         /\ Swapped(SetSwap(pte, typ, off)) /\ ~Online(SetSwap(pte, typ, off))
         /\ SwpTyp(SetSwap(pte, typ, off)) = typ % TypRange
         /\ Swp(SetSwap(pte, typ, off)) = off % OffRange
<1> DEFINE t   == typ % TypRange
           o   == off % OffRange
           low == t + (TypRange * o)
<1>1. \A n \in Nat \ {0} : \A k \in Nat : k % n \in Nat /\ k % n < n
  OBVIOUS
<1>2. t \in Nat /\ t < TypRange /\ o \in Nat /\ o < OffRange
  BY <1>1, Widths
<1>3. SetSwap(pte, typ, off) = [present |-> TRUE, swapped |-> TRUE, low |-> low]
  BY DEF SetSwap
<1> HIDE DEF t, o
<1>4. low \in Nat /\ low % TypRange = t /\ low \div TypRange = o
  BY SMTT(30), <1>2 DEF TypRange
<1>5. low < LowRange
  BY SMTT(30), <1>2 DEF LowRange, TypRange, OffRange
<1>6. low \in 0..(LowRange - 1)
  BY <1>4, <1>5, Widths
<1> HIDE DEF low
<1>7. SetSwap(pte, typ, off) \in Pte
  BY <1>3, <1>6 DEF Pte
<1>8. QED
  BY <1>3, <1>4, <1>7 DEF Online, Swapped, Swp, SwpTyp, t, o

\* The entry of a swapped page has no frame number: what PAGING_FPN, which does not
\* look at the SWAPPED bit, reads there is made of the swap device and swap frame.
THEOREM SwappedFpn ==
  ASSUME NEW pte, NEW typ \in 0..(TypRange - 1), NEW off \in 0..(OffRange - 1)
  PROVE  Fpn(SetSwap(pte, typ, off)) = typ + (TypRange * (off % 256))
<1>1. typ % TypRange = typ /\ off % OffRange = off
  BY Fits
<1>2. typ \in Nat /\ typ < TypRange /\ off \in Nat /\ off < OffRange
  BY Widths
<1>3. (typ + (32 * off)) % 8192 = typ + (32 * (off % 256))
  BY SMTT(30), <1>2 DEF TypRange
<1>4. SetSwap(pte, typ, off).low = typ + (TypRange * off)
  BY <1>1 DEF SetSwap
<1>5. QED
  BY <1>3, <1>4 DEF Fpn, FpnRange, TypRange

--------------------------------------------------------------------------------
(* Lists without repetition: the free lists, the frames an alloc collects, *)
(* and the FIFO of pages.                                                  *)

\* x is in the list s
In(s, x) == \E i \in 1..Len(s) : s[i] = x

\* no entry of s is there twice
Once(s) == \A i, j \in 1..Len(s) : s[i] = s[j] => i = j

\* Taking the head off a list (MEMPHY_get_freefp).
LEMMA HeadOff ==
  ASSUME NEW S, NEW s \in Seq(S), s # <<>>
  PROVE  /\ Head(s) \in S /\ Tail(s) \in Seq(S) /\ In(s, Head(s))
         /\ \A x : In(Tail(s), x) => In(s, x)
         /\ Once(s) => Once(Tail(s)) /\ ~In(Tail(s), Head(s))
         /\ \A x : In(s, x) /\ x # Head(s) => In(Tail(s), x)
<1>1. /\ Head(s) \in S /\ Tail(s) \in Seq(S)
      /\ Len(Tail(s)) = Len(s) - 1
      /\ \A i \in 1..Len(Tail(s)) : Tail(s)[i] = s[i + 1]
  BY HeadTailProperties
<1>2. Len(s) \in Nat \ {0} /\ Head(s) = s[1]
  BY EmptySeq
<1> DEFINE t == Tail(s)
           h == Head(s)
<1> HIDE DEF t, h
<1>3. h = s[1] /\ Len(t) = Len(s) - 1 /\ \A i \in 1..Len(t) : t[i] = s[i + 1]
  BY <1>1, <1>2 DEF t, h
<1>4. /\ In(s, h)
      /\ \A x : In(t, x) => In(s, x)
      /\ \A x : In(s, x) /\ x # h => In(t, x)
  <2>1. In(s, h)
    BY <1>2, <1>3 DEF In
  <2>2. \A x : In(t, x) => In(s, x)
    BY <1>2, <1>3 DEF In
  <2>3. ASSUME NEW x, In(s, x), x # h PROVE In(t, x)
    <3>1. PICK i \in 1..Len(s) : s[i] = x
      BY <2>3 DEF In
    <3>2. i # 1
      BY <1>3, <2>3, <3>1
    <3>3. i - 1 \in 1..Len(t) /\ (i - 1) + 1 = i
      BY <1>2, <1>3, <3>2
    <3>4. t[i - 1] = x
      BY <1>3, <3>1, <3>3
    <3>5. QED
      BY <3>3, <3>4 DEF In
  <2>4. QED
    BY <2>1, <2>2, <2>3
<1>5. Once(s) => Once(t) /\ ~In(t, h)
  BY <1>2, <1>3 DEF In, Once
<1>6. QED
  BY <1>1, <1>4, <1>5 DEF t, h

\* Taking the last entry off a list (find_victim_page).
LEMMA LastOff ==
  ASSUME NEW S, NEW s \in Seq(S), s # <<>>
  PROVE  /\ Last(s) \in S /\ Front(s) \in Seq(S) /\ In(s, Last(s))
         /\ \A x : In(Front(s), x) => In(s, x)
         /\ Once(s) => Once(Front(s)) /\ ~In(Front(s), Last(s))
<1>1. Len(s) \in Nat \ {0} /\ \A i \in 1..Len(s) : s[i] \in S
  BY EmptySeq, ElementOfSeq
<1>2. /\ Front(s) \in Seq(S) /\ Len(Front(s)) = Len(s) - 1
      /\ \A i \in 1..Len(Front(s)) : Front(s)[i] = s[i]
  <2> DEFINE n == Len(s) - 1
  <2>1. n \in Nat /\ \A i \in 1..n : s[i] \in S
    BY <1>1
  <2>2. Front(s) = SubSeq(s, 1, n)
    BY DEF Front
  <2> HIDE DEF n
  <2>3. /\ SubSeq(s, 1, n) \in Seq(S)
        /\ Len(SubSeq(s, 1, n)) = IF 1 <= n THEN n - 1 + 1 ELSE 0
        /\ \A i \in 1..(n - 1 + 1) : SubSeq(s, 1, n)[i] = s[1 + i - 1]
    BY <2>1, SubSeqProperties
  <2>4. Len(SubSeq(s, 1, n)) = n /\ n - 1 + 1 = n
    BY <2>1, <2>3
  <2>5. \A i \in 1..n : 1 + i - 1 = i
    OBVIOUS
  <2>6. \A i \in 1..n : SubSeq(s, 1, n)[i] = s[i]
    BY <2>3, <2>4, <2>5
  <2>7. QED
    BY <2>2, <2>3, <2>4, <2>6 DEF n
<1>3. Last(s) = s[Len(s)]
  BY DEF Last
<1>4. In(s, Last(s)) /\ Last(s) \in S
  BY <1>1, <1>3 DEF In
<1>5. \A x : In(Front(s), x) => In(s, x)
  BY <1>1, <1>2 DEF In
<1>6. Once(s) => Once(Front(s)) /\ ~In(Front(s), Last(s))
  BY <1>1, <1>2, <1>3 DEF In, Once
<1>7. QED
  BY <1>2, <1>4, <1>5, <1>6

\* The new pages that enlist_pgn_node puts on the FIFO, b of them from a, the last first.
LEMMA CountDown ==
  ASSUME NEW a \in Nat, NEW b \in Nat,
         NEW s, s = [i \in 1..b |-> a + b - i]
  PROVE  /\ s \in Seq(a..(a + b - 1)) /\ Len(s) = b /\ Once(s)
         /\ \A x : In(s, x) => x \in a..(a + b - 1)
<1>1. \A i \in 1..b : s[i] = a + b - i
  OBVIOUS
<1>2. \A i \in 1..b : a + b - i \in a..(a + b - 1)
  OBVIOUS
<1>3. s \in [1..b -> a..(a + b - 1)]
  BY <1>2
<1>4. s \in Seq(a..(a + b - 1))
  BY <1>3, SeqDef
<1>5. Len(s) = b
  BY <1>3, <1>4
<1>6. \A i, j \in 1..b : a + b - i = a + b - j => i = j
  OBVIOUS
<1>7. Once(s)
  BY <1>1, <1>5, <1>6 DEF Once
<1>8. \A x : In(s, x) => x \in a..(a + b - 1)
  BY <1>1, <1>2, <1>5 DEF In
<1>9. QED
  BY <1>4, <1>5, <1>7, <1>8

\* Putting one list in front of another.
LEMMA InFront ==
  ASSUME NEW S, NEW s \in Seq(S), NEW t \in Seq(S)
  PROVE  /\ s \o t \in Seq(S)
         /\ \A x : In(s \o t, x) <=> In(s, x) \/ In(t, x)
         /\ Once(s \o t) <=> Once(s) /\ Once(t) /\ \A x : ~(In(s, x) /\ In(t, x))
<1> DEFINE u == s \o t
<1>1. /\ u \in Seq(S) /\ Len(u) = Len(s) + Len(t)
      /\ \A i \in 1..(Len(s) + Len(t)) :
           u[i] = IF i <= Len(s) THEN s[i] ELSE t[i - Len(s)]
  BY ConcatProperties
<1>2. Len(s) \in Nat /\ Len(t) \in Nat
  BY LenProperties
<1> HIDE DEF u
<1>3. /\ \A i \in 1..Len(s) : i \in 1..Len(u) /\ u[i] = s[i]
      /\ \A i \in 1..Len(t) : Len(s) + i \in 1..Len(u) /\ u[Len(s) + i] = t[i]
      /\ \A i \in 1..Len(u) :
           \/ i \in 1..Len(s) /\ u[i] = s[i]
           \/ i - Len(s) \in 1..Len(t) /\ u[i] = t[i - Len(s)]
  BY <1>1, <1>2
<1>4. \A x : In(u, x) <=> In(s, x) \/ In(t, x)
  BY <1>3 DEF In
<1>5. Once(u) => Once(s) /\ Once(t) /\ \A x : ~(In(s, x) /\ In(t, x))
  BY <1>2, <1>3 DEF In, Once
<1>6. ASSUME Once(s), Once(t), \A x : ~(In(s, x) /\ In(t, x)) PROVE Once(u)
  <2> SUFFICES ASSUME NEW i \in 1..Len(u), NEW j \in 1..Len(u), u[i] = u[j]
               PROVE  i = j
    BY DEF Once
  <2>1. CASE i \in 1..Len(s) /\ j \in 1..Len(s)
    BY <1>3, <1>6, <2>1 DEF Once
  <2>2. CASE i \notin 1..Len(s) /\ j \notin 1..Len(s)
    <3>1. /\ i - Len(s) \in 1..Len(t) /\ j - Len(s) \in 1..Len(t)
          /\ t[i - Len(s)] = t[j - Len(s)]
      BY <1>3, <2>2
    <3>2. i - Len(s) = j - Len(s)
      BY <1>6, <3>1 DEF Once
    <3>3. QED
      BY <1>1, <1>2, <3>2
  <2>3. CASE i \in 1..Len(s) /\ j \notin 1..Len(s)
    <3>1. In(s, u[i]) /\ In(t, u[j])
      BY <1>3, <2>3 DEF In
    <3>2. QED
      BY <1>6, <3>1
  <2>4. CASE i \notin 1..Len(s) /\ j \in 1..Len(s)
    <3>1. In(t, u[i]) /\ In(s, u[j])
      BY <1>3, <2>4 DEF In
    <3>2. QED
      BY <1>6, <3>1
  <2>5. QED
    BY <2>1, <2>2, <2>3, <2>4
<1>7. QED
  BY <1>1, <1>4, <1>5, <1>6 DEF u

\* A list of one entry.
LEMMA Single ==
  ASSUME NEW S, NEW e \in S
  PROVE  /\ <<e>> \in Seq(S) /\ Once(<<e>>)
         /\ \A x : In(<<e>>, x) <=> x = e
BY DEF In, Once
\* A set of numbers that is not empty has a least one.
LEMMA LeastOf ==
  ASSUME NEW S \in SUBSET Nat, S # {}
  PROVE  \E x \in S : \A y \in S : x <= y
<1> DEFINE Less == {ss \in Nat \X Nat : ss[1] < ss[2]}
<1>1. IsWellFoundedOn(Less, Nat)
  BY NatLessThanWellFounded DEF OpToRel
<1>2. PICK x \in S : \A y \in S : <<y, x>> \notin Less
  <2> HIDE DEF Less
  <2> QED
    BY <1>1, WFMin
<1>3. \A y \in S : ~(y < x)
  <2> SUFFICES ASSUME NEW y \in S, y < x PROVE <<y, x>> \in Less
    BY <1>2, Zenon
  <2>1. <<y, x>> \in Nat \X Nat /\ <<y, x>>[1] < <<y, x>>[2]
    OBVIOUS
  <2>2. QED
    BY <2>1, Zenon
<1>4. \A y \in S : x <= y
  <2> HIDE DEF Less
  <2> QED
    BY <1>3
<1>5. QED
  BY <1>4

\* Putting one entry in front of a list (the frames of an alloc, enlist_pgn_node).
LEMMA Pushed ==
  ASSUME NEW S, NEW s \in Seq(S), NEW e \in S
  PROVE  /\ <<e>> \o s \in Seq(S)
         /\ \A x : In(<<e>> \o s, x) <=> x = e \/ In(s, x)
         /\ Once(s) /\ ~In(s, e) => Once(<<e>> \o s)
<1> DEFINE t == <<e>>
<1>1. t \in Seq(S) /\ Once(t) /\ \A x : In(t, x) <=> x = e
  BY Single
<1> HIDE DEF t
<1>2. /\ t \o s \in Seq(S)
      /\ \A x : In(t \o s, x) <=> In(t, x) \/ In(s, x)
      /\ Once(t \o s) <=> Once(t) /\ Once(s) /\ \A x : ~(In(t, x) /\ In(s, x))
  BY <1>1, InFront
<1>3. QED
  BY <1>1, <1>2 DEF t

--------------------------------------------------------------------------------
(* Types.                                                                  *)

\* The pages of the alloc in progress are the last ones below the break.
TInv == TypeOK /\ (req # <<>> => sbrk[req.proc] = req.start + req.pages)

\* An alloc in progress is never taken for none.
LEMMA RequestMade == \A q \in Request : q # <<>>
<1> SUFFICES ASSUME NEW q \in Request, q = <<>> PROVE FALSE
  OBVIOUS
<1>1. DOMAIN q = {"proc", "region", "start", "pages", "frames"}
  BY DEF Request
<1>2. DOMAIN q = {}
  OBVIOUS
<1>3. QED
  BY <1>1, <1>2

\* What MEMPHY_read gives is a value of a cell, and MEMPHY_write leaves a device.
LEMMA DeviceAccess ==
  ASSUME NEW D, NEW device \in [D -> Values], NEW f
  PROVE  /\ Fetch(device, f) \subseteq Values
         /\ \A v \in Values : Store(device, f, v) \in [D -> Values]
<1>1. Fetch(device, f) \subseteq Values
  BY DEF Fetch
<1>2. \A v \in Values : Store(device, f, v) \in [D -> Values]
  BY DEF Store
<1>3. QED
  BY <1>1, <1>2

\* Devices and lists start with the frames of the device, all free.
LEMMA InitTInv == Init => TInv
<1> SUFFICES ASSUME Init PROVE TInv
  OBVIOUS
<1> USE PagingAssumption DEF Init
<1>0. FpnRange \in Nat /\ TypRange \in Nat /\ OffRange \in Nat
  BY Widths
<1>1. RamFrames \in Nat \ {0} /\ SwapFrames \in Nat \ {0} /\ NumSwaps \in Nat \ {0}
  BY <1>0
<1>2. ram_free \in Seq(0..(RamFrames - 1))
  <2>1. ram_free \in [1..RamFrames -> 0..(RamFrames - 1)]
    BY <1>1
  <2>2. QED
    BY <1>1, <2>1, SeqDef
<1>3. swap_free \in [Swaps -> Seq(0..(SwapFrames - 1))]
  <2>1. [n \in 1..SwapFrames |-> n - 1] \in [1..SwapFrames -> 0..(SwapFrames - 1)]
    BY <1>1
  <2>2. [n \in 1..SwapFrames |-> n - 1] \in Seq(0..(SwapFrames - 1))
    BY <1>1, <2>1, SeqDef
  <2>3. QED
    BY <2>2
<1>4. ZeroPte \in Pte
  BY Widths DEF ZeroPte, Pte
<1>5. pgd \in [Procs -> [Pages -> Pte]]
  BY <1>4
<1>6. fifo_pgn \in [Procs -> Seq(Pages)] /\ sbrk \in [Procs -> 0..MaxPages]
  OBVIOUS
<1>7. symrgtbl \in [Procs -> [Regions -> [start : 0..MaxPages, pages : 0..MaxAlloc]]]
  BY DEF Nobody
<1>8. ram \in [0..(RamFrames - 1) -> Values]
  OBVIOUS
<1>9. swap \in [Swaps -> [0..(SwapFrames - 1) -> Values]]
  OBVIOUS
<1>10. QED
  BY <1>2, <1>3, <1>5, <1>6, <1>7, <1>8, <1>9 DEF TInv, TypeOK

\* what the types say of an alloc in progress
LEMMA RequestType ==
  ASSUME TInv, req # <<>>
  PROVE  /\ req \in Request
         /\ req.proc \in Procs /\ req.region \in Regions
         /\ req.start \in 0..MaxPages /\ req.pages \in 1..MaxAlloc
         /\ req.frames \in Seq(0..(FpnRange - 1))
         /\ sbrk[req.proc] = req.start + req.pages
         /\ req.start + req.pages <= MaxPages
         /\ NewPages \subseteq Pages
<1>1. req \in Request /\ sbrk[req.proc] = req.start + req.pages
  BY DEF TInv, TypeOK
<1>2. /\ req.proc \in Procs /\ req.region \in Regions
      /\ req.start \in 0..MaxPages /\ req.pages \in 1..MaxAlloc
      /\ req.frames \in Seq(0..(FpnRange - 1))
  BY <1>1 DEF Request
<1>3. req.start + req.pages <= MaxPages
  BY <1>1, <1>2, PagingAssumption DEF TInv, TypeOK
<1>4. NewPages \subseteq Pages
  BY <1>2, <1>3, PagingAssumption DEF NewPages, Pages
<1>5. QED
  BY <1>1, <1>2, <1>3, <1>4

\* The end of __alloc keeps the types of what it writes.
LEMMA CommitType ==
  ASSUME TInv, req # <<>>, Commit
  PROVE  /\ symrgtbl' \in [Procs -> [Regions ->
                             [start : 0..MaxPages, pages : 0..MaxAlloc]]]
         /\ req' = <<>> /\ sbrk' \in [Procs -> 0..MaxPages]
         /\ last' = <<>>
         /\ stat' \in {0, 1} /\ defined' \in BOOLEAN
<1>1. /\ req.proc \in Procs /\ req.region \in Regions
      /\ [start |-> req.start, pages |-> req.pages] \in
           [start : 0..MaxPages, pages : 0..MaxAlloc]
  BY RequestType, PagingAssumption
<1>2. symrgtbl \in [Procs -> [Regions -> [start : 0..MaxPages, pages : 0..MaxAlloc]]]
  BY DEF TInv, TypeOK
<1>3. symrgtbl' \in [Procs -> [Regions -> [start : 0..MaxPages, pages : 0..MaxAlloc]]]
  BY <1>1, <1>2 DEF Commit
<1>4. QED
  BY <1>3 DEF Commit, TInv, TypeOK

\* Every step of an alloc keeps the types.
LEMMA AllocTInv ==
  ASSUME TInv, AllocStep
  PROVE  TInv'
<1>0. req # <<>>
  BY DEF AllocStep, Missing, TakeFrame, Evict, FailNoVictim, FailNoSwap, Map
<1>1. /\ req \in Request /\ req.proc \in Procs /\ req.region \in Regions
      /\ req.start \in 0..MaxPages /\ req.pages \in 1..MaxAlloc
      /\ req.frames \in Seq(0..(FpnRange - 1))
      /\ sbrk[req.proc] = req.start + req.pages
      /\ req.start + req.pages <= MaxPages /\ NewPages \subseteq Pages
  BY <1>0, RequestType
<1>2. /\ ram \in [0..(RamFrames - 1) -> Values]
      /\ ram_free \in Seq(0..(RamFrames - 1))
      /\ swap \in [Swaps -> [0..(SwapFrames - 1) -> Values]]
      /\ swap_free \in [Swaps -> Seq(0..(SwapFrames - 1))]
      /\ pgd \in [Procs -> [Pages -> Pte]]
      /\ fifo_pgn \in [Procs -> Seq(Pages)]
  BY DEF TInv, TypeOK
<1>3. FpnRange \in Nat \ {0} /\ RamFrames \in 1..FpnRange /\ SwapFrames \in 1..OffRange
  BY Widths, PagingAssumption
<1>4. ASSUME NEW f \in 0..(FpnRange - 1), req' = [req EXCEPT !.frames = <<f>> \o @]
      PROVE  req' \in Request /\ req'.proc = req.proc /\ req'.start = req.start
             /\ req'.pages = req.pages /\ req'.frames = <<f>> \o req.frames
  <2>1. <<f>> \o req.frames \in Seq(0..(FpnRange - 1))
    BY <1>1, <1>4, Pushed
  <2> DEFINE g == <<f>> \o req.frames
  <2> HIDE DEF g
  <2>2. req' = [req EXCEPT !.frames = g]
    BY <1>4 DEF g
  <2>3. req' \in Request /\ req'.frames = g
    BY <1>1, <2>1, <2>2 DEF Request, g
  <2>4. req'.proc = req.proc /\ req'.start = req.start /\ req'.pages = req.pages
    BY <1>1, <2>2 DEF Request
  <2>5. QED
    BY <2>3, <2>4 DEF g
<1>5. CASE TakeFrame
  <2>1. /\ Head(ram_free) \in 0..(RamFrames - 1) /\ Tail(ram_free) \in Seq(0..(RamFrames - 1))
    BY <1>2, <1>5, HeadOff DEF TakeFrame
  <2>2. Head(ram_free) \in 0..(FpnRange - 1)
    BY <1>3, <2>1
  <2>3. req' \in Request /\ req'.proc = req.proc /\ req'.start = req.start
        /\ req'.pages = req.pages
    BY <1>4, <1>5, <2>2 DEF TakeFrame
  <2>4. QED
    BY <1>1, <1>5, <2>1, <2>3 DEF TakeFrame, FrameTaken, mmVars, TInv, TypeOK
<1>6. CASE Evict
  <2> DEFINE p   == req.proc
             vic == Victim(p)
             w   == SwapChoice
             off == Head(swap_free[w])
             f   == Fpn(pgd[p][vic])
  <2>1. /\ w \in Swaps /\ swap_free[w] # <<>>
    <3> DEFINE W == {x \in Swaps : swap_free[x] # <<>>}
    <3>1. W # {} /\ W \subseteq Nat
      BY <1>6, PagingAssumption, Widths DEF Evict, Swaps
    <3>2. \E x \in W : \A y \in W : x <= y
      BY <3>1, LeastOf
    <3>3. QED
      BY <3>2 DEF SwapChoice
  <2>2. off \in 0..(SwapFrames - 1) /\ Tail(swap_free[w]) \in Seq(0..(SwapFrames - 1))
    BY <1>2, <2>1, HeadOff
  <2>3. vic \in Pages /\ Front(fifo_pgn[p]) \in Seq(Pages)
    BY <1>1, <1>2, <1>6, LastOff DEF Evict, Victim
  <2>4. f \in 0..(FpnRange - 1) /\ pgd[p][vic] \in Pte
    BY <1>1, <1>2, <2>3, FieldRange
  <2>5. SetSwap(pgd[p][vic], w, off) \in Pte
    <3>1. w \in Nat /\ off \in Nat
      BY <2>1, <2>2, PagingAssumption DEF Swaps
    <3>2. QED
      BY <2>4, <3>1, SetSwapReads
  <2>6. PICK v \in Fetch(ram, f) : swap' = SwapOut(w, off, v)
    BY <1>6 DEF Evict
  <2>7. swap' \in [Swaps -> [0..(SwapFrames - 1) -> Values]]
    <3>1. v \in Values
      BY <1>2, DeviceAccess
    <3>2. Store(swap[w], off, v) \in [0..(SwapFrames - 1) -> Values]
      BY <1>2, <2>1, <3>1, DeviceAccess
    <3>3. QED
      BY <1>2, <2>6, <3>2 DEF SwapOut
  <2>8. /\ swap_free' = [swap_free EXCEPT ![w] = Tail(@)]
        /\ pgd' = [pgd EXCEPT ![p][vic] = SetSwap(@, w, off)]
        /\ fifo_pgn' = [fifo_pgn EXCEPT ![p] = Front(fifo_pgn[p])]
        /\ req' = [req EXCEPT !.frames = <<f>> \o @]
        /\ UNCHANGED <<ram, ram_free, sbrk, symrgtbl, last, stat, defined>>
    BY <1>6 DEF Evict, SlotTaken, WithoutVictim
  <2> HIDE DEF p, vic, w, off, f
  <2>9. swap_free' \in [Swaps -> Seq(0..(SwapFrames - 1))]
    BY <1>2, <2>1, <2>2, <2>8
  <2>10. pgd' \in [Procs -> [Pages -> Pte]]
    BY <1>1, <1>2, <2>3, <2>5, <2>8 DEF p
  <2>11. fifo_pgn' \in [Procs -> Seq(Pages)]
    BY <1>2, <2>3, <2>8
  <2>12. req' \in Request /\ req'.proc = req.proc /\ req'.start = req.start
         /\ req'.pages = req.pages
    BY <1>4, <2>4, <2>8
  <2>13. QED
    BY <1>1, <2>7, <2>8, <2>9, <2>10, <2>11, <2>12 DEF TInv, TypeOK
<1>7. CASE FailNoVictim
  BY <1>0, <1>7, CommitType DEF FailNoVictim, frameVars, TInv, TypeOK
<1>8. CASE FailNoSwap
  <2>1. Front(fifo_pgn[req.proc]) \in Seq(Pages)
    BY <1>1, <1>2, <1>8, LastOff DEF FailNoSwap
  <2>2. fifo_pgn' \in [Procs -> Seq(Pages)]
    BY <1>2, <1>8, <2>1 DEF FailNoSwap, WithoutVictim
  <2>3. QED
    BY <1>0, <1>8, <2>2, CommitType DEF FailNoSwap, frameVars, TInv, TypeOK
<1>9. CASE Map
  <2> DEFINE s == [i \in 1..req.pages |-> req.start + req.pages - i]
  <2>1. s \in Seq(Pages)
    <3>1. PICK a, b, t : a = req.start /\ b = req.pages /\ t = s
      OBVIOUS
    <3>2. /\ a \in Nat /\ b \in Nat /\ t = [i \in 1..b |-> a + b - i]
          /\ NewPages = a..(a + b - 1)
      BY <1>1, <3>1, PagingAssumption DEF NewPages
    <3>3. t \in Seq(a..(a + b - 1))
      BY <3>2, CountDown
    <3>4. QED
      BY <1>1, <3>1, <3>2, <3>3, SeqMonotonic
  <2>2. fifo_pgn' \in [Procs -> Seq(Pages)]
    <3>1. s \o fifo_pgn[req.proc] \in Seq(Pages)
      BY <1>1, <1>2, <2>1, InFront
    <3> HIDE DEF s
    <3>2. fifo_pgn' = [fifo_pgn EXCEPT ![req.proc] = s \o fifo_pgn[req.proc]]
      BY <1>9 DEF Map, Enlisted, s
    <3>3. QED
      BY <1>2, <3>1, <3>2
  <2>3. \A n \in NewPages : SetFpn(pgd[req.proc][n], req.frames[n - req.start + 1]) \in Pte
    <3> SUFFICES ASSUME NEW n \in NewPages
                 PROVE  SetFpn(pgd[req.proc][n], req.frames[n - req.start + 1]) \in Pte
      OBVIOUS
    <3>1. n - req.start + 1 \in 1..Len(req.frames)
      BY <1>1, <1>9, LenProperties DEF Map, Missing, NewPages
    <3>2. req.frames[n - req.start + 1] \in Nat
      BY <1>1, <1>3, <3>1, ElementOfSeq
    <3>3. pgd[req.proc][n] \in Pte
      BY <1>1, <1>2
    <3>4. QED
      BY <3>2, <3>3, SetFpnReads
  <2>4. pgd' \in [Procs -> [Pages -> Pte]]
    BY <1>1, <1>2, <1>9, <2>3 DEF Map
  <2>5. QED
    BY <1>0, <1>9, <2>2, <2>4, CommitType DEF Map, frameVars, TInv, TypeOK
<1>10. QED
  BY <1>5, <1>6, <1>7, <1>8, <1>9 DEF AllocStep

\* pg_getpage of a page that is not present, also when it goes on with a victim or a
\* swap frame that nobody set, writes page table entries and cells only.
LEMMA GetPageType ==
  ASSUME TInv, NEW p \in Procs, NEW n \in Pages, GetPage(p, n)
  PROVE  /\ swap' \in [Swaps -> [0..(SwapFrames - 1) -> Values]]
         /\ swap_free' \in [Swaps -> Seq(0..(SwapFrames - 1))]
         /\ pgd' \in [Procs -> [Pages -> Pte]]
         /\ fifo_pgn' \in [Procs -> Seq(Pages)]
         /\ defined' \in BOOLEAN
<1>1. /\ ram \in [0..(RamFrames - 1) -> Values]
      /\ swap \in [Swaps -> [0..(SwapFrames - 1) -> Values]]
      /\ swap_free \in [Swaps -> Seq(0..(SwapFrames - 1))]
      /\ pgd \in [Procs -> [Pages -> Pte]]
      /\ fifo_pgn \in [Procs -> Seq(Pages)]
  BY DEF TInv, TypeOK
<1>2. 0 \in Swaps /\ FpnRange \in Nat \ {0} /\ SwapFrames \in Nat
  BY Widths, PagingAssumption DEF Swaps
<1>3. fifo_pgn[p] # <<>> => Victim(p) \in Pages /\ WithoutVictim(p) \in Seq(Pages)
  BY <1>1, LastOff DEF Victim, WithoutVictim
<1>4. swap_free[0] # <<>> =>
        Head(swap_free[0]) \in 0..(SwapFrames - 1)
        /\ Tail(swap_free[0]) \in Seq(0..(SwapFrames - 1))
  BY <1>1, <1>2, HeadOff
<1>5. PICK vic \in IF fifo_pgn[p] = <<>> THEN Pages ELSE {Victim(p)},
           off \in IF swap_free[0] = <<>> THEN 0..SwapFrames ELSE {Head(swap_free[0])} :
        LET f   == Fpn(pgd[p][vic])
            tgt == Swp(pgd[p][n])
        IN /\ \E v \in Fetch(ram, f), u \in Fetch(ram, tgt) :
                swap' = [swap EXCEPT ![0] = Store(Store(@, off, v), f, u)]
           /\ pgd' = [pgd EXCEPT ![p][vic] = SetSwap(@, 0, off),
                                 ![p][n]   = SetFpn(pgd[p][n], f)]
  BY DEF GetPage
<1> DEFINE f   == Fpn(pgd[p][vic])
           tgt == Swp(pgd[p][n])
<1>6. vic \in Pages /\ off \in Nat
  BY <1>2, <1>3, <1>4, <1>5
<1>7. f \in Nat /\ pgd[p][vic] \in Pte /\ pgd[p][n] \in Pte
  BY <1>1, <1>2, <1>6, FieldRange
<1>8. PICK v \in Fetch(ram, f), u \in Fetch(ram, tgt) :
        swap' = [swap EXCEPT ![0] = Store(Store(@, off, v), f, u)]
  BY <1>5
<1>9. pgd' = [pgd EXCEPT ![p][vic] = SetSwap(@, 0, off), ![p][n] = SetFpn(pgd[p][n], f)]
  BY <1>5
<1> HIDE DEF f, tgt
<1>10. swap' \in [Swaps -> [0..(SwapFrames - 1) -> Values]]
  <2>1. v \in Values /\ u \in Values
    BY <1>1, DeviceAccess
  <2>2. Store(swap[0], off, v) \in [0..(SwapFrames - 1) -> Values]
    BY <1>1, <1>2, <2>1, DeviceAccess
  <2>3. Store(Store(swap[0], off, v), f, u) \in [0..(SwapFrames - 1) -> Values]
    BY <2>1, <2>2, DeviceAccess
  <2>4. QED
    BY <1>1, <1>8, <2>3
<1>11. pgd' \in [Procs -> [Pages -> Pte]]
  <2>1. SetSwap(pgd[p][vic], 0, off) \in Pte /\ SetFpn(pgd[p][n], f) \in Pte
    BY <1>6, <1>7, SetSwapReads, SetFpnReads
  <2>2. QED
    BY <1>1, <1>6, <1>9, <2>1
<1>12. swap_free' \in [Swaps -> Seq(0..(SwapFrames - 1))]
  BY <1>1, <1>2, <1>4 DEF GetPage, SlotTaken
<1>13. fifo_pgn' \in [Procs -> Seq(Pages)]
  <2> DEFINE rest == IF fifo_pgn[p] = <<>> THEN fifo_pgn[p] ELSE WithoutVictim(p)
  <2>1. rest \in Seq(Pages)
    BY <1>1, <1>3
  <2>2. <<n>> \o rest \in Seq(Pages)
    BY <2>1, Pushed
  <2>3. fifo_pgn' = [fifo_pgn EXCEPT ![p] = <<n>> \o rest]
    BY DEF GetPage
  <2>4. QED
    BY <1>1, <2>2, <2>3
<1>14. QED
  BY <1>10, <1>11, <1>12, <1>13 DEF GetPage

\* Every step of any process keeps the types.
LEMMA NextTInv == TInv /\ [Next]_vars => TInv'
<1> SUFFICES ASSUME TInv, [Next]_vars PROVE TInv'
  OBVIOUS
<1>1. ASSUME NEW p \in Procs, NEW r \in Regions, NEW n \in 1..MaxAlloc, Alloc(p, r, n)
      PROVE  TInv'
  <2>1. sbrk \in [Procs -> 0..MaxPages] /\ sbrk[p] + n \in 0..MaxPages
    BY <1>1, PagingAssumption DEF Alloc, TInv, TypeOK
  <2>2. sbrk' \in [Procs -> 0..MaxPages] /\ sbrk'[p] = sbrk[p] + n
    BY <1>1, <2>1 DEF Alloc, MovedBreak
  <2>3. <<>> \in Seq(0..(FpnRange - 1))
    OBVIOUS
  <2>4. req' \in Request /\ req'.proc = p /\ req'.start = sbrk[p] /\ req'.pages = n
    BY <1>1, <2>1, <2>3 DEF Alloc, Request
  <2>5. QED
    BY <1>1, <2>2, <2>4 DEF Alloc, frameVars, TInv, TypeOK
<1>2. CASE AllocStep
  BY <1>2, AllocTInv
<1>3. ASSUME NEW p \in Procs, NEW r \in Regions, NEW k \in Offsets, Accessible(p, r, k),
             (Present(p, PageOf(p, r, k)) /\ NoFault) \/ GetPage(p, PageOf(p, r, k))
      PROVE  /\ swap' \in [Swaps -> [0..(SwapFrames - 1) -> Values]]
             /\ swap_free' \in [Swaps -> Seq(0..(SwapFrames - 1))]
             /\ pgd' \in [Procs -> [Pages -> Pte]]
             /\ fifo_pgn' \in [Procs -> Seq(Pages)]
             /\ defined' \in BOOLEAN
  <2>1. CASE NoFault
    BY <2>1 DEF NoFault, TInv, TypeOK
  <2>2. CASE GetPage(p, PageOf(p, r, k))
    BY <1>3, <2>2, GetPageType DEF Accessible
  <2>3. QED
    BY <1>3, <2>1, <2>2
<1>4. ASSUME NEW p \in Procs, NEW r \in Regions, NEW k \in Offsets, Read(p, r, k)
      PROVE  TInv'
  <2>1. PICK v \in Fetch(ram, Fpn(pgd'[p][PageOf(p, r, k)])) : last' = <<"read", p, r, k, v>>
    BY <1>4 DEF Read
  <2>2. v \in Values
    BY DeviceAccess DEF TInv, TypeOK
  <2>3. last' \in {"read", "write"} \X Procs \X Regions \X Offsets \X Values
    BY <2>1, <2>2
  <2>4. QED
    BY <1>3, <1>4, <2>3 DEF Read, TInv, TypeOK
<1>5. ASSUME NEW p \in Procs, NEW r \in Regions, NEW k \in Offsets, NEW v \in Values,
             Write(p, r, k, v)
      PROVE  TInv'
  <2>1. ram' \in [0..(RamFrames - 1) -> Values]
    <3>1. ram' = Store(ram, Fpn(pgd'[p][PageOf(p, r, k)]), v)
      BY <1>5 DEF Write
    <3>2. QED
      BY <3>1, DeviceAccess DEF TInv, TypeOK
  <2>2. QED
    BY <1>3, <1>5, <2>1 DEF Write, TInv, TypeOK
<1>6. CASE UNCHANGED vars
  BY <1>6 DEF vars, frameVars, mmVars, TInv, TypeOK
<1>7. QED
  BY <1>1, <1>2, <1>4, <1>5, <1>6 DEF Next

\* Memory, page tables, lists and regions have their types, whatever programs do,
\* also past the end of their regions and after an unset variable was used: no index
\* leaves a page table, and no entry overflows its bits.
THEOREM TypeCorrect == Spec => []TypeOK
<1>1. TInv => TypeOK
  BY DEF TInv
<1>2. QED
  BY <1>1, InitTInv, NextTInv, PTL DEF Spec
--------------------------------------------------------------------------------
(* The invariant of programs that stay in their regions.                   *)

\* the first page at which a process has nothing mapped yet
Low(p) == IF req # <<>> /\ req.proc = p THEN req.start ELSE sbrk[p]

\* It is a number of pages.
LEMMA LowType == ASSUME TInv, NEW p \in Procs PROVE Low(p) \in Nat
<1>1. MaxPages \in Nat /\ sbrk[p] \in 0..MaxPages
  BY PagingAssumption DEF TInv, TypeOK
<1>2. req # <<>> => req.start \in 0..MaxPages
  BY RequestType
<1>3. QED
  BY <1>1, <1>2 DEF Low

\* Page table entries and regions end there.
PageInv ==
  /\ \A p \in Procs : \A n \in Pages : pgd[p][n].present => n < Low(p)
  /\ \A p \in Procs : \A r \in Regions :
       symrgtbl[p][r].pages > 0 => symrgtbl[p][r].start + symrgtbl[p][r].pages <= Low(p)

\* A RAM frame is free, in the hand of an alloc or a page's, for one only.
FrameInv ==
  /\ Once(ram_free) /\ Once(InHand)
  /\ \A f : ~(In(ram_free, f) /\ In(InHand, f))
  /\ \A p \in Procs : \A n \in Pages : Online(pgd[p][n]) =>
       ~In(ram_free, Fpn(pgd[p][n])) /\ ~In(InHand, Fpn(pgd[p][n]))
  /\ \A p, q \in Procs : \A m, n \in Pages :
       Online(pgd[p][m]) /\ Online(pgd[q][n]) /\ Fpn(pgd[p][m]) = Fpn(pgd[q][n])
         => p = q /\ m = n

\* A swap frame is free or a page's, for one only.
SlotInv ==
  /\ \A w \in Swaps : Once(swap_free[w])
  /\ \A p \in Procs : \A n \in Pages : Swapped(pgd[p][n]) =>
       SwpTyp(pgd[p][n]) \in Swaps /\ ~In(swap_free[SwpTyp(pgd[p][n])], Swp(pgd[p][n]))
  /\ \A p, q \in Procs : \A m, n \in Pages :
       Swapped(pgd[p][m]) /\ Swapped(pgd[q][n])
         /\ SwpTyp(pgd[p][m]) = SwpTyp(pgd[q][n]) /\ Swp(pgd[p][m]) = Swp(pgd[q][n])
         => p = q /\ m = n

\* The FIFO of a process has pages of its own that are in RAM, each once.
FifoInv ==
  \A p \in Procs : Once(fifo_pgn[p])
                   /\ \A n \in Pages : In(fifo_pgn[p], n) => Online(pgd[p][n])

\* what holds until an unset variable is used
Sound == PageInv /\ FrameInv /\ SlotInv /\ FifoInv

IInv == TInv /\ (defined => Sound)

\* Nothing is mapped at first, and every list has each frame once.
LEMMA InitIInv == Init => IInv
<1> SUFFICES ASSUME Init PROVE IInv
  OBVIOUS
<1> USE PagingAssumption DEF Init
<1>1. TInv
  BY InitTInv
<1>2. RamFrames \in Nat /\ SwapFrames \in Nat
  BY Widths
<1>3. \A p \in Procs : \A n \in Pages : pgd[p][n] = ZeroPte
  OBVIOUS
<1>4. ~ZeroPte.present /\ ~Online(ZeroPte) /\ ~Swapped(ZeroPte)
  BY DEF ZeroPte, Online, Swapped
<1>5. PageInv
  BY <1>3, <1>4 DEF PageInv, Nobody
<1>6. \A n \in Nat : Once([k \in 1..n |-> k - 1])
  <2> SUFFICES ASSUME NEW n \in Nat PROVE Once([k \in 1..n |-> k - 1])
    OBVIOUS
  <2> DEFINE s == [k \in 1..n |-> k - 1]
  <2>1. Len(s) = n
    OBVIOUS
  <2>2. \A i, j \in 1..n : s[i] = s[j] => i = j
    OBVIOUS
  <2> HIDE DEF s
  <2>3. Once(s)
    BY <2>1, <2>2 DEF Once
  <2>4. QED
    BY <2>3 DEF s
<1>7. Once(<<>>) /\ \A x : ~In(<<>>, x)
  BY DEF Once, In
<1>8. FrameInv
  <2>1. InHand = <<>> /\ Once(ram_free)
    BY <1>2, <1>6 DEF InHand
  <2>2. QED
    BY <1>3, <1>4, <1>7, <2>1 DEF FrameInv
<1>9. SlotInv
  <2>1. \A w \in Swaps : Once(swap_free[w])
    BY <1>2, <1>6
  <2>2. QED
    BY <1>3, <1>4, <2>1 DEF SlotInv
<1>10. FifoInv
  BY <1>7 DEF FifoInv
<1>11. QED
  BY <1>1, <1>5, <1>8, <1>9, <1>10 DEF IInv, Sound

\* what the steps start from
Before == TInv /\ TInv' /\ Sound

\* inc_vma_limit: the new pages are above all that the process has.
LEMMA AllocSound ==
  ASSUME Before, NEW p \in Procs, NEW r \in Regions, NEW n \in 1..MaxAlloc, Alloc(p, r, n)
  PROVE  Sound'
<1>1. /\ req = <<>> /\ InHand = <<>> /\ InHand' = <<>>
      /\ \A q \in Procs : Low(q)' = Low(q)
  <2>1. req' # <<>>
    BY RequestMade DEF Before, TInv, TypeOK, Alloc
  <2>2. req = <<>> /\ req'.frames = <<>> /\ req'.proc = p /\ req'.start = sbrk[p]
    BY DEF Alloc
  <2>3. \A q \in Procs \ {p} : sbrk'[q] = sbrk[q]
    BY DEF Alloc, MovedBreak, Before, TInv, TypeOK
  <2>4. QED
    BY <2>1, <2>2, <2>3 DEF InHand, Low
<1>2. UNCHANGED <<ram_free, swap_free, pgd, fifo_pgn, symrgtbl>>
  BY DEF Alloc, frameVars
<1>3. QED
  BY <1>1, <1>2 DEF Before, Sound, PageInv, FrameInv, SlotInv, FifoInv

\* MEMPHY_get_freefp hands a RAM frame to alloc_pages_range.
LEMMA TakeFrameSound ==
  ASSUME Before, TakeFrame
  PROVE  Sound'
<1>1. req # <<>> /\ ram_free # <<>> /\ ram_free' = Tail(ram_free)
  BY DEF TakeFrame, Missing, FrameTaken
<1>2. /\ req \in Request /\ req.frames \in Seq(0..(FpnRange - 1))
      /\ ram_free \in Seq(0..(RamFrames - 1)) /\ RamFrames \in 1..FpnRange
      /\ FpnRange \in Nat
  BY <1>1, RequestType, Widths, PagingAssumption DEF Before, TInv, TypeOK
<1> DEFINE h == Head(ram_free)
<1>3. /\ h \in 0..(RamFrames - 1) /\ In(ram_free, h) /\ ~In(ram_free', h)
      /\ Once(ram_free') /\ \A x : In(ram_free', x) => In(ram_free, x)
  BY <1>1, <1>2, HeadOff DEF Before, Sound, FrameInv
<1>4. h \in 0..(FpnRange - 1)
  BY <1>2, <1>3
<1> HIDE DEF h
<1>5. /\ req' = [req EXCEPT !.frames = <<h>> \o @]
      /\ UNCHANGED <<swap_free, pgd, fifo_pgn, sbrk, symrgtbl>>
  BY DEF TakeFrame, h, mmVars
<1>6. /\ req'.proc = req.proc /\ req'.start = req.start
      /\ req'.frames = <<h>> \o req.frames
  BY <1>2, <1>5 DEF Request
<1>7. req' # <<>>
  BY <1>1, <1>2, <1>5, RequestMade DEF Before, TInv, TypeOK, Request
<1>8. InHand = req.frames /\ InHand' = <<h>> \o req.frames
  BY <1>1, <1>6, <1>7 DEF InHand
<1>9. ~In(InHand, h)
  BY <1>3 DEF Before, Sound, FrameInv
<1>10. Once(InHand') /\ \A x : In(InHand', x) <=> x = h \/ In(InHand, x)
  <2>1. Once(req.frames) /\ ~In(req.frames, h)
    BY <1>8, <1>9 DEF Before, Sound, FrameInv
  <2>2. QED
    BY <1>2, <1>4, <1>8, <2>1, Pushed
<1>11. \A q \in Procs : Low(q)' = Low(q)
  BY <1>1, <1>5, <1>6, <1>7 DEF Low
<1>12. FrameInv'
  BY <1>3, <1>5, <1>10 DEF Before, Sound, FrameInv
<1>13. QED
  BY <1>5, <1>11, <1>12 DEF Before, Sound, PageInv, SlotInv, FifoInv

\* The end of __alloc, where collected frames are dropped or mapped.
LEMMA CommitEnds ==
  ASSUME Before, req # <<>>, Commit
  PROVE  /\ InHand' = <<>>
         /\ \A q \in Procs : Low(q)' = IF q = req.proc THEN req.start + req.pages
                                                       ELSE Low(q)
         /\ \A q \in Procs : \A r \in Regions : symrgtbl'[q][r].pages > 0 =>
              symrgtbl'[q][r].start + symrgtbl'[q][r].pages <= Low(q)'
<1>1. /\ req.proc \in Procs /\ req.region \in Regions
      /\ req.start \in 0..MaxPages /\ req.pages \in 1..MaxAlloc
      /\ sbrk[req.proc] = req.start + req.pages
      /\ symrgtbl \in [Procs -> [Regions -> [start : 0..MaxPages, pages : 0..MaxAlloc]]]
  BY RequestType DEF Before, TInv, TypeOK
<1>2. /\ req' = <<>> /\ sbrk' = sbrk
      /\ symrgtbl' = [symrgtbl EXCEPT ![req.proc][req.region] =
                        [start |-> req.start, pages |-> req.pages]]
  BY DEF Commit
<1>3. InHand' = <<>>
  BY <1>2 DEF InHand
<1>4. \A q \in Procs : Low(q)' = IF q = req.proc THEN req.start + req.pages ELSE Low(q)
  BY <1>1, <1>2 DEF Low
<1>5. ASSUME NEW q \in Procs, NEW r \in Regions, symrgtbl'[q][r].pages > 0
      PROVE  symrgtbl'[q][r].start + symrgtbl'[q][r].pages <= Low(q)'
  <2>1. CASE q = req.proc /\ r = req.region
    BY <1>1, <1>2, <1>4, <2>1
  <2>2. CASE ~(q = req.proc /\ r = req.region)
    <3>1. symrgtbl'[q][r] = symrgtbl[q][r]
      BY <1>1, <1>2, <2>2
    <3>2. symrgtbl[q][r].start + symrgtbl[q][r].pages <= Low(q)
      BY <1>5, <3>1 DEF Before, Sound, PageInv
    <3>3. symrgtbl[q][r].start \in Nat /\ symrgtbl[q][r].pages \in Nat
      BY <1>1, PagingAssumption
    <3>4. CASE q = req.proc
      <4>1. Low(q) = req.start
        BY <3>4 DEF Low
      <4>2. QED
        BY <1>1, <1>4, <3>1, <3>2, <3>3, <3>4, <4>1, PagingAssumption
    <3>5. CASE q # req.proc
      BY <1>4, <3>1, <3>2, <3>5
    <3>6. QED
      BY <3>4, <3>5
  <2>3. QED
    BY <2>1, <2>2
<1>6. QED
  BY <1>3, <1>4, <1>5

\* A mapping that fails leaves the pages unmapped, and drops its frames.
LEMMA FailSound ==
  ASSUME Before, FailNoVictim \/ FailNoSwap
  PROVE  Sound'
<1>1. req # <<>> /\ Commit /\ UNCHANGED <<ram_free, swap_free, pgd>>
  BY DEF FailNoVictim, FailNoSwap, Missing, frameVars
<1>2. /\ req.proc \in Procs /\ req.start \in 0..MaxPages /\ req.pages \in 1..MaxAlloc
      /\ fifo_pgn \in [Procs -> Seq(Pages)]
  BY <1>1, RequestType DEF Before, TInv, TypeOK
<1>3. PageInv'
  <2>1. ASSUME NEW p \in Procs, NEW n \in Pages, pgd'[p][n].present PROVE n < Low(p)'
    <3>1. n < Low(p)
      BY <1>1, <2>1 DEF Before, Sound, PageInv
    <3>2. CASE p = req.proc
      <4>1. Low(p) = req.start /\ Low(p)' = req.start + req.pages
        BY <1>1, <1>2, <3>2, CommitEnds DEF Low
      <4>2. QED
        BY <1>2, <3>1, <4>1, PagingAssumption DEF Pages
    <3>3. CASE p # req.proc
      BY <1>1, <3>1, <3>3, CommitEnds
    <3>4. QED
      BY <3>2, <3>3
  <2>2. QED
    BY <1>1, <2>1, CommitEnds DEF PageInv
<1>4. FrameInv'
  <2>1. InHand' = <<>> /\ Once(<<>>) /\ \A x : ~In(<<>>, x)
    BY <1>1, CommitEnds DEF Once, In
  <2>2. QED
    BY <1>1, <2>1 DEF Before, Sound, FrameInv
<1>5. SlotInv'
  BY <1>1 DEF Before, Sound, SlotInv
<1>6. FifoInv'
  <2>1. CASE FailNoVictim
    BY <1>1, <2>1 DEF FailNoVictim, Before, Sound, FifoInv
  <2>2. CASE FailNoSwap
    <3>1. /\ fifo_pgn[req.proc] # <<>>
          /\ fifo_pgn' = [fifo_pgn EXCEPT ![req.proc] = Front(fifo_pgn[req.proc])]
      BY <2>2 DEF FailNoSwap, WithoutVictim
    <3>2. /\ Once(Front(fifo_pgn[req.proc]))
          /\ \A x : In(Front(fifo_pgn[req.proc]), x) => In(fifo_pgn[req.proc], x)
      BY <1>2, <3>1, LastOff DEF Before, Sound, FifoInv
    <3>3. QED
      BY <1>1, <1>2, <3>1, <3>2 DEF Before, Sound, FifoInv
  <2>3. QED
    BY <2>1, <2>2
<1>7. QED
  BY <1>3, <1>4, <1>5, <1>6 DEF Sound

\* Evict and pg_getpage write one entry as swapped, with a slot that was free.
SwappedTo(p, n, w, off) ==
  /\ Swapped(pgd'[p][n]) /\ ~Online(pgd'[p][n])
  /\ SwpTyp(pgd'[p][n]) = w /\ Swp(pgd'[p][n]) = off

\* A free slot that becomes a page's, and leaves the free list, keeps the slots apart,
\* as long as no other page becomes a swapped one.
LEMMA SlotTakenSound ==
  ASSUME Before, NEW p \in Procs, NEW n \in Pages, NEW w \in Swaps,
         swap_free[w] # <<>>, swap_free' = SlotTaken(w),
         SwappedTo(p, n, w, Head(swap_free[w])),
         \A q \in Procs : \A m \in Pages :
           (q # p \/ m # n) /\ Swapped(pgd'[q][m]) => pgd'[q][m] = pgd[q][m]
  PROVE  SlotInv'
<1> DEFINE h == Head(swap_free[w])
<1>1. swap_free \in [Swaps -> Seq(0..(SwapFrames - 1))]
  BY DEF Before, TInv, TypeOK
<1>2. /\ swap_free'[w] = Tail(swap_free[w])
      /\ \A x \in Swaps : x # w => swap_free'[x] = swap_free[x]
  BY <1>1 DEF SlotTaken
<1>3. /\ In(swap_free[w], h) /\ ~In(swap_free'[w], h) /\ Once(swap_free'[w])
      /\ \A x : In(swap_free'[w], x) => In(swap_free[w], x)
  BY <1>1, <1>2, HeadOff DEF Before, Sound, SlotInv
<1> HIDE DEF h
<1>4. /\ Swapped(pgd'[p][n]) /\ SwpTyp(pgd'[p][n]) = w /\ Swp(pgd'[p][n]) = h
  BY DEF SwappedTo, h
<1>5. \A x \in Swaps : Once(swap_free'[x])
  BY <1>2, <1>3 DEF Before, Sound, SlotInv
<1>6. \A q \in Procs : \A m \in Pages : Swapped(pgd'[q][m]) =>
        /\ SwpTyp(pgd'[q][m]) \in Swaps
        /\ ~In(swap_free'[SwpTyp(pgd'[q][m])], Swp(pgd'[q][m]))
  <2> SUFFICES ASSUME NEW q \in Procs, NEW m \in Pages, Swapped(pgd'[q][m])
               PROVE  /\ SwpTyp(pgd'[q][m]) \in Swaps
                      /\ ~In(swap_free'[SwpTyp(pgd'[q][m])], Swp(pgd'[q][m]))
    OBVIOUS
  <2>1. CASE q = p /\ m = n
    BY <1>3, <1>4, <2>1
  <2>2. CASE q # p \/ m # n
    <3>1. pgd'[q][m] = pgd[q][m]
      BY <2>2
    <3>2. SwpTyp(pgd[q][m]) \in Swaps /\ ~In(swap_free[SwpTyp(pgd[q][m])], Swp(pgd[q][m]))
      BY <3>1 DEF Before, Sound, SlotInv
    <3>3. QED
      BY <1>2, <1>3, <3>1, <3>2
  <2>3. QED
    BY <2>1, <2>2
<1>7. \A q \in Procs : \A m \in Pages : (q # p \/ m # n) /\ Swapped(pgd'[q][m]) =>
        pgd'[q][m] = pgd[q][m] /\ ~(SwpTyp(pgd[q][m]) = w /\ Swp(pgd[q][m]) = h)
  BY <1>3 DEF Before, Sound, SlotInv
<1>8. \A o, q \in Procs : \A l, m \in Pages :
        Swapped(pgd'[o][l]) /\ Swapped(pgd'[q][m])
          /\ SwpTyp(pgd'[o][l]) = SwpTyp(pgd'[q][m]) /\ Swp(pgd'[o][l]) = Swp(pgd'[q][m])
          => o = q /\ l = m
  <2> SUFFICES ASSUME NEW o \in Procs, NEW q \in Procs, NEW l \in Pages, NEW m \in Pages,
                      Swapped(pgd'[o][l]), Swapped(pgd'[q][m]),
                      SwpTyp(pgd'[o][l]) = SwpTyp(pgd'[q][m]),
                      Swp(pgd'[o][l]) = Swp(pgd'[q][m])
               PROVE  o = q /\ l = m
    OBVIOUS
  <2>1. CASE (o # p \/ l # n) /\ (q # p \/ m # n)
    BY <1>7, <2>1 DEF Before, Sound, SlotInv
  <2>2. CASE o = p /\ l = n
    BY <1>4, <1>7, <2>2
  <2>3. CASE q = p /\ m = n
    BY <1>4, <1>7, <2>3
  <2>4. QED
    BY <2>1, <2>2, <2>3
<1>9. QED
  BY <1>5, <1>6, <1>8 DEF SlotInv

\* One turn of alloc_pages_range without a free frame: the oldest page of the FIFO goes
\* to a free slot, its entry is written as swapped, and its frame goes to the alloc.
EvictTo(p, vic, w, off, f) ==
  /\ req # <<>> /\ req' # <<>> /\ req.proc = p /\ req'.proc = p
  /\ req'.start = req.start /\ req'.frames = <<f>> \o req.frames
  /\ ram_free = <<>> /\ fifo_pgn[p] # <<>>
  /\ vic = Victim(p) /\ In(fifo_pgn[p], vic)
  /\ Online(pgd[p][vic]) /\ f = Fpn(pgd[p][vic])
  /\ swap_free[w] # <<>> /\ off = Head(swap_free[w]) /\ In(swap_free[w], off)
  /\ swap_free' = SlotTaken(w)
  /\ SwappedTo(p, vic, w, off)
  /\ \A q \in Procs : \A m \in Pages : q # p \/ m # vic => pgd'[q][m] = pgd[q][m]
  /\ \E v \in Fetch(ram, f) : swap' = SwapOut(w, off, v)
  /\ fifo_pgn' = [fifo_pgn EXCEPT ![p] = Front(fifo_pgn[p])]
  /\ UNCHANGED <<ram_free, sbrk, symrgtbl>>

\* alloc_pages_range evicts like that.
LEMMA EvictEffect ==
  ASSUME Before, Evict
  PROVE  \E p \in Procs, vic \in Pages, w \in Swaps, off \in 0..(SwapFrames - 1),
            f \in 0..(FpnRange - 1) : EvictTo(p, vic, w, off, f)
<1>0. PICK p : p = req.proc
  OBVIOUS
<1> DEFINE vic == Victim(p)
           w   == SwapChoice
           off == Head(swap_free[w])
           f   == Fpn(pgd[p][vic])
<1>1. req # <<>> /\ ram_free = <<>> /\ fifo_pgn[p] # <<>>
  BY <1>0 DEF Evict, Missing
<1>2. /\ req \in Request /\ p \in Procs /\ req.frames \in Seq(0..(FpnRange - 1))
      /\ pgd \in [Procs -> [Pages -> Pte]] /\ fifo_pgn \in [Procs -> Seq(Pages)]
      /\ swap_free \in [Swaps -> Seq(0..(SwapFrames - 1))]
  BY <1>0, <1>1, RequestType DEF Before, TInv, TypeOK
<1>3. w \in Swaps /\ swap_free[w] # <<>>
  <2> DEFINE W == {x \in Swaps : swap_free[x] # <<>>}
  <2>1. W # {} /\ W \subseteq Nat
    BY PagingAssumption, Widths DEF Evict, Swaps
  <2>2. \E x \in W : \A y \in W : x <= y
    BY <2>1, LeastOf
  <2>3. QED
    BY <2>2 DEF SwapChoice
<1>4. off \in 0..(SwapFrames - 1) /\ In(swap_free[w], off)
  BY <1>2, <1>3, HeadOff
<1>5. vic \in Pages /\ In(fifo_pgn[p], vic)
  BY <1>1, <1>2, LastOff DEF Victim
<1>6. Online(pgd[p][vic]) /\ pgd[p][vic] \in Pte /\ f \in 0..(FpnRange - 1)
  BY <1>2, <1>5, FieldRange DEF Before, Sound, FifoInv
<1>7. /\ swap_free' = SlotTaken(w)
      /\ pgd' = [pgd EXCEPT ![p][vic] = SetSwap(pgd[p][vic], w, off)]
      /\ fifo_pgn' = [fifo_pgn EXCEPT ![p] = Front(fifo_pgn[p])]
      /\ req' = [req EXCEPT !.frames = <<f>> \o @]
      /\ \E v \in Fetch(ram, f) : swap' = SwapOut(w, off, v)
      /\ UNCHANGED <<ram_free, sbrk, symrgtbl>>
  BY <1>0 DEF Evict, WithoutVictim
<1>8. vic = Victim(p) /\ off = Head(swap_free[w]) /\ f = Fpn(pgd[p][vic])
  OBVIOUS
<1> HIDE DEF vic, w, off, f
<1>9. SwappedTo(p, vic, w, off)
  <2>1. w \in 0..(TypRange - 1) /\ off \in 0..(OffRange - 1)
    BY <1>3, <1>4, PagingAssumption, Widths DEF Swaps
  <2>2. w \in Nat /\ off \in Nat /\ w % TypRange = w /\ off % OffRange = off
    BY <2>1, Fits
  <2>3. pgd'[p][vic] = SetSwap(pgd[p][vic], w, off)
    BY <1>2, <1>5, <1>7
  <2>4. QED
    BY <1>6, <2>2, <2>3, SetSwapReads DEF SwappedTo
<1>10. \A q \in Procs : \A m \in Pages : q # p \/ m # vic => pgd'[q][m] = pgd[q][m]
  BY <1>2, <1>7
<1>11. /\ req' # <<>> /\ req'.proc = p /\ req'.start = req.start
       /\ req'.frames = <<f>> \o req.frames
  <2>1. /\ req'.proc = req.proc /\ req'.start = req.start
        /\ req'.frames = <<f>> \o req.frames
    BY <1>2, <1>7 DEF Request
  <2>2. <<f>> \o req.frames \in Seq(0..(FpnRange - 1))
    BY <1>2, <1>6, Pushed
  <2>3. req' \in Request
    BY <1>2, <1>7, <2>2 DEF Request
  <2>4. QED
    BY <1>0, <2>1, <2>3, RequestMade
<1>12. EvictTo(p, vic, w, off, f)
  BY <1>0, <1>1, <1>3, <1>4, <1>5, <1>6, <1>7, <1>8, <1>9, <1>10, <1>11 DEF EvictTo
<1>13. QED
  BY <1>2, <1>3, <1>4, <1>5, <1>6, <1>12

\* An eviction leaves frames, slots, page tables and FIFOs in agreement.
LEMMA EvictSound ==
  ASSUME Before, Evict
  PROVE  Sound'
<1>1. PICK p \in Procs, vic \in Pages, w \in Swaps, off \in 0..(SwapFrames - 1),
           f \in 0..(FpnRange - 1) : EvictTo(p, vic, w, off, f)
  BY EvictEffect
<1>2. /\ req \in Request /\ req.frames \in Seq(0..(FpnRange - 1))
      /\ pgd \in [Procs -> [Pages -> Pte]] /\ fifo_pgn \in [Procs -> Seq(Pages)]
      /\ swap_free \in [Swaps -> Seq(0..(SwapFrames - 1))]
  BY <1>1, RequestType DEF EvictTo, Before, TInv, TypeOK
<1>3. /\ Once(Front(fifo_pgn[p])) /\ ~In(Front(fifo_pgn[p]), vic)
      /\ \A x : In(Front(fifo_pgn[p]), x) => In(fifo_pgn[p], x)
  BY <1>1, <1>2, LastOff DEF EvictTo, Victim, Before, Sound, FifoInv
<1>4. /\ swap_free[w] # <<>> /\ off = Head(swap_free[w])
      /\ swap_free' = SlotTaken(w)
      /\ fifo_pgn' = [fifo_pgn EXCEPT ![p] = Front(fifo_pgn[p])]
      /\ UNCHANGED <<ram_free, sbrk, symrgtbl>>
  BY <1>1 DEF EvictTo
<1>5. /\ req # <<>> /\ req' # <<>> /\ req.proc = p /\ req'.proc = p
      /\ req'.start = req.start /\ req'.frames = <<f>> \o req.frames
      /\ ram_free = <<>> /\ Online(pgd[p][vic]) /\ f = Fpn(pgd[p][vic])
  BY <1>1 DEF EvictTo
<1>6. SwappedTo(p, vic, w, off)
  BY <1>1 DEF EvictTo
<1>7. \A q \in Procs : \A m \in Pages : q # p \/ m # vic => pgd'[q][m] = pgd[q][m]
  BY <1>1 DEF EvictTo
<1>8. InHand = req.frames /\ InHand' = <<f>> \o req.frames
  BY <1>5 DEF InHand
<1>9. ~In(InHand, f)
  BY <1>5 DEF Before, Sound, FrameInv
<1>10. Once(InHand') /\ \A x : In(InHand', x) <=> x = f \/ In(InHand, x)
  <2>1. Once(req.frames) /\ ~In(req.frames, f)
    BY <1>8, <1>9 DEF Before, Sound, FrameInv
  <2>2. req.frames \in Seq(0..(FpnRange - 1)) /\ f \in 0..(FpnRange - 1)
    BY <1>2
  <2>3. /\ \A x : In(<<f>> \o req.frames, x) <=> x = f \/ In(req.frames, x)
        /\ Once(<<f>> \o req.frames)
    <3>1. PICK s : s = req.frames
      OBVIOUS
    <3>2. s \in Seq(0..(FpnRange - 1)) /\ Once(s) /\ ~In(s, f)
      BY <2>1, <2>2, <3>1
    <3>3. (\A x : In(<<f>> \o s, x) <=> x = f \/ In(s, x)) /\ Once(<<f>> \o s)
      BY <2>2, <3>2, Pushed
    <3>4. QED
      BY <3>1, <3>3
  <2>4. QED
    BY <1>8, <2>3
<1>11. \A q \in Procs : \A m \in Pages : Online(pgd'[q][m]) =>
         /\ q # p \/ m # vic
         /\ Online(pgd[q][m]) /\ Fpn(pgd'[q][m]) = Fpn(pgd[q][m]) /\ Fpn(pgd[q][m]) # f
  <2> SUFFICES ASSUME NEW q \in Procs, NEW m \in Pages, Online(pgd'[q][m])
               PROVE  /\ q # p \/ m # vic
                      /\ Online(pgd[q][m]) /\ Fpn(pgd'[q][m]) = Fpn(pgd[q][m])
                      /\ Fpn(pgd[q][m]) # f
    OBVIOUS
  <2>1. q # p \/ m # vic
    BY <1>6 DEF SwappedTo
  <2>2. pgd'[q][m] = pgd[q][m]
    BY <1>7, <2>1
  <2>3. Fpn(pgd[q][m]) # f
    BY <1>5, <2>1, <2>2 DEF Before, Sound, FrameInv
  <2>4. QED
    BY <2>1, <2>2, <2>3
<1>12. FrameInv'
  <2>1. Once(ram_free') /\ \A x : ~In(ram_free', x)
    BY <1>4, <1>5 DEF Once, In
  <2>2. \A q \in Procs : \A m \in Pages : Online(pgd'[q][m]) => ~In(InHand', Fpn(pgd'[q][m]))
    BY <1>10, <1>11 DEF Before, Sound, FrameInv
  <2>3. \A o, q \in Procs : \A l, m \in Pages :
          Online(pgd'[o][l]) /\ Online(pgd'[q][m]) /\ Fpn(pgd'[o][l]) = Fpn(pgd'[q][m])
            => o = q /\ l = m
    BY <1>11 DEF Before, Sound, FrameInv
  <2>4. QED
    BY <1>10, <2>1, <2>2, <2>3 DEF FrameInv
<1>13. PageInv'
  <2>1. \A q \in Procs : Low(q)' = Low(q)
    BY <1>4, <1>5 DEF Low
  <2>2. \A q \in Procs : \A m \in Pages : pgd'[q][m].present => pgd[q][m].present
    BY <1>5, <1>7 DEF Online
  <2>3. QED
    BY <1>4, <2>1, <2>2 DEF Before, Sound, PageInv
<1>14. SlotInv'
  BY <1>4, <1>6, <1>7, SlotTakenSound
<1>15. FifoInv'
  <2>1. \A q \in Procs : q # p => fifo_pgn'[q] = fifo_pgn[q]
    BY <1>2, <1>4
  <2>2. fifo_pgn'[p] = Front(fifo_pgn[p])
    BY <1>2, <1>4
  <2>3. QED
    BY <1>3, <1>7, <2>1, <2>2 DEF Before, Sound, FifoInv
<1>16. QED
  BY <1>12, <1>13, <1>14, <1>15 DEF Sound

\* vmap_page_range gives every new page one of the collected frames.
LEMMA MapSound ==
  ASSUME Before, Map
  PROVE  Sound'
<1>0. PICK p : p = req.proc
  OBVIOUS
<1> DEFINE frame(n) == req.frames[n - req.start + 1]
           s == [i \in 1..req.pages |-> req.start + req.pages - i]
<1>1. req # <<>> /\ Commit /\ UNCHANGED <<ram_free, swap_free>>
  BY DEF Map, frameVars
<1>2. /\ p \in Procs /\ req.start \in Nat /\ req.pages \in Nat \ {0}
      /\ req.frames \in Seq(0..(FpnRange - 1)) /\ Len(req.frames) \in Nat
      /\ req.start + req.pages <= MaxPages /\ NewPages \subseteq Pages
      /\ pgd \in [Procs -> [Pages -> Pte]] /\ fifo_pgn \in [Procs -> Seq(Pages)]
      /\ Pages \subseteq Nat /\ FpnRange \in Nat /\ MaxPages \in Nat
  <2>1. MaxPages \in Nat /\ MaxAlloc \in Nat /\ FpnRange \in Nat
    BY Widths, PagingAssumption
  <2>2. /\ req.proc \in Procs /\ req.start \in 0..MaxPages /\ req.pages \in 1..MaxAlloc
        /\ req.frames \in Seq(0..(FpnRange - 1))
        /\ req.start + req.pages <= MaxPages /\ NewPages \subseteq Pages
    BY <1>1, RequestType DEF Before
  <2>3. Len(req.frames) \in Nat
    BY <2>2, LenProperties
  <2>4. req.start \in Nat /\ req.pages \in Nat \ {0}
    BY <2>1, <2>2
  <2>5. Pages \subseteq Nat
    BY <2>1 DEF Pages
  <2>6. QED
    BY <1>0, <2>1, <2>2, <2>3, <2>4, <2>5 DEF Before, TInv, TypeOK
<1>3. \A n \in NewPages : n - req.start + 1 \in 1..Len(req.frames)
  <2>1. Len(req.frames) >= req.pages
    BY <1>1, <1>2 DEF Map, Missing
  <2>2. PICK a, b, c : a = req.start /\ b = req.pages /\ c = Len(req.frames)
    OBVIOUS
  <2>3. a \in Nat /\ b \in Nat /\ c \in Nat /\ c >= b /\ NewPages = a..(a + b - 1)
    BY <1>2, <2>1, <2>2 DEF NewPages
  <2>4. \A n \in NewPages : n - a + 1 \in 1..c
    BY <2>3
  <2>5. QED
    BY <2>2, <2>4
<1>4. \A n \in NewPages : frame(n) \in 0..(FpnRange - 1)
  BY <1>2, <1>3, ElementOfSeq
<1>5. /\ \A n \in NewPages : pgd'[p][n] = SetFpn(pgd[p][n], frame(n))
      /\ \A q \in Procs : \A m \in Pages : q # p \/ m \notin NewPages =>
           pgd'[q][m] = pgd[q][m]
  BY <1>0, <1>2 DEF Map
<1>6. InHand = req.frames /\ InHand' = <<>>
  BY <1>1, CommitEnds DEF InHand
<1>7. /\ \A n \in NewPages : In(InHand, frame(n))
      /\ \A m, n \in NewPages : frame(m) = frame(n) => m = n
  <2>1. \A n \in NewPages : In(InHand, frame(n))
    BY <1>3, <1>6 DEF In
  <2>2. ASSUME NEW m \in NewPages, NEW n \in NewPages, frame(m) = frame(n) PROVE m = n
    <3>1. Once(req.frames)
      BY <1>6 DEF Before, Sound, FrameInv
    <3>2. m - req.start + 1 = n - req.start + 1
      BY <1>3, <2>2, <3>1 DEF Once
    <3>3. m \in Int /\ n \in Int
      BY <1>2
    <3>4. QED
      BY <1>2, <3>2, <3>3
  <2>3. QED
    BY <2>1, <2>2
<1>8. Low(p) = req.start /\ Low(p)' = req.start + req.pages
  BY <1>0, <1>1, <1>2, CommitEnds DEF Low
<1>9. \A n \in NewPages : ~pgd[p][n].present
  BY <1>2, <1>8 DEF Before, Sound, PageInv, NewPages
<1> HIDE DEF frame, s
<1>10. \A n \in NewPages :
         Online(pgd'[p][n]) /\ ~Swapped(pgd'[p][n]) /\ Fpn(pgd'[p][n]) = frame(n)
  <2> SUFFICES ASSUME NEW n \in NewPages
               PROVE  /\ Online(pgd'[p][n]) /\ ~Swapped(pgd'[p][n])
                      /\ Fpn(pgd'[p][n]) = frame(n)
    OBVIOUS
  <2>1. pgd[p][n] \in Pte /\ frame(n) \in Nat /\ frame(n) % FpnRange = frame(n)
    BY <1>2, <1>4, Fits
  <2>2. QED
    BY <1>5, <2>1, SetFpnReads
<1>11. PageInv'
  <2>1. ASSUME NEW q \in Procs, NEW n \in Pages, pgd'[q][n].present PROVE n < Low(q)'
    <3>1. CASE q = p /\ n \in NewPages
      BY <1>2, <1>8, <3>1 DEF NewPages
    <3>2. CASE q = p /\ n \notin NewPages
      <4>1. n < Low(p)
        BY <1>5, <2>1, <3>2 DEF Before, Sound, PageInv
      <4>2. QED
        BY <1>2, <1>8, <3>2, <4>1
    <3>3. CASE q # p
      <4>1. n < Low(q)
        BY <1>5, <2>1, <3>3 DEF Before, Sound, PageInv
      <4>2. QED
        BY <1>0, <1>1, <3>3, <4>1, CommitEnds
    <3>4. QED
      BY <3>1, <3>2, <3>3
  <2>2. QED
    BY <1>1, <2>1, CommitEnds DEF PageInv
<1>12. FrameInv'
  <2>1. Once(<<>>) /\ \A x : ~In(<<>>, x)
    BY DEF Once, In
  <2>2. \A q \in Procs : \A m \in Pages : Online(pgd'[q][m]) =>
          \/ q = p /\ m \in NewPages /\ Fpn(pgd'[q][m]) = frame(m)
          \/ /\ Online(pgd[q][m]) /\ Fpn(pgd'[q][m]) = Fpn(pgd[q][m])
             /\ ~In(InHand, Fpn(pgd[q][m]))
    BY <1>5, <1>10 DEF Before, Sound, FrameInv
  <2>3. \A n \in NewPages : ~In(ram_free, frame(n))
    BY <1>7 DEF Before, Sound, FrameInv
  <2>4. \A q \in Procs : \A m \in Pages : Online(pgd'[q][m]) =>
          ~In(ram_free', Fpn(pgd'[q][m]))
    BY <1>1, <2>2, <2>3 DEF Before, Sound, FrameInv
  <2>5. \A o, q \in Procs : \A l, m \in Pages :
          Online(pgd'[o][l]) /\ Online(pgd'[q][m]) /\ Fpn(pgd'[o][l]) = Fpn(pgd'[q][m])
            => o = q /\ l = m
    BY <1>7, <2>2 DEF Before, Sound, FrameInv
  <2>6. Once(ram_free')
    BY <1>1 DEF Before, Sound, FrameInv
  <2>7. QED
    BY <1>6, <2>1, <2>4, <2>5, <2>6 DEF FrameInv
<1>13. SlotInv'
  <2>1. \A q \in Procs : \A m \in Pages : Swapped(pgd'[q][m]) => pgd'[q][m] = pgd[q][m]
    BY <1>5, <1>10
  <2>2. QED
    BY <1>1, <2>1 DEF Before, Sound, SlotInv
<1>14. FifoInv'
  <2>1. s \in Seq(NewPages) /\ Once(s) /\ \A x : In(s, x) => x \in NewPages
    <3>1. PICK a, b, t : a = req.start /\ b = req.pages /\ t = s
      OBVIOUS
    <3>2. /\ a \in Nat /\ b \in Nat /\ t = [i \in 1..b |-> a + b - i]
          /\ NewPages = a..(a + b - 1)
      BY <1>2, <3>1 DEF s, NewPages
    <3>3. /\ t \in Seq(a..(a + b - 1)) /\ Once(t)
          /\ \A x : In(t, x) => x \in a..(a + b - 1)
      BY <3>2, CountDown
    <3>4. QED
      BY <3>1, <3>2, <3>3
  <2>2. s \in Seq(Pages)
    BY <1>2, <2>1, SeqMonotonic
  <2>3. \A x : ~(In(s, x) /\ In(fifo_pgn[p], x))
    <3>1. \A n \in NewPages : ~In(fifo_pgn[p], n)
      BY <1>2, <1>9 DEF Before, Sound, FifoInv, Online
    <3>2. QED
      BY <2>1, <3>1
  <2>4. /\ Once(s \o fifo_pgn[p])
        /\ \A x : In(s \o fifo_pgn[p], x) <=> In(s, x) \/ In(fifo_pgn[p], x)
    <3>1. fifo_pgn[p] \in Seq(Pages) /\ Once(fifo_pgn[p])
      BY <1>2 DEF Before, Sound, FifoInv
    <3>2. QED
      BY <2>1, <2>2, <2>3, <3>1, InFront
  <2>5. fifo_pgn' = [fifo_pgn EXCEPT ![p] = s \o fifo_pgn[p]]
    BY <1>0 DEF Map, Enlisted, s
  <2>6. fifo_pgn'[p] = s \o fifo_pgn[p] /\ \A q \in Procs : q # p => fifo_pgn'[q] = fifo_pgn[q]
    BY <1>2, <2>5
  <2>7. \A q \in Procs : \A n \in Pages : Online(pgd[q][n]) => Online(pgd'[q][n])
    BY <1>5, <1>10
  <2>8. ASSUME NEW q \in Procs
        PROVE  Once(fifo_pgn'[q]) /\ \A n \in Pages : In(fifo_pgn'[q], n) => Online(pgd'[q][n])
    <3>1. CASE q = p
      BY <1>10, <2>1, <2>4, <2>6, <2>7, <3>1 DEF Before, Sound, FifoInv
    <3>2. CASE q # p
      BY <2>6, <2>7, <3>2 DEF Before, Sound, FifoInv
    <3>3. QED
      BY <3>1, <3>2
  <2>9. QED
    BY <2>8 DEF FifoInv
<1>15. QED
  BY <1>11, <1>12, <1>13, <1>14 DEF Sound

\* pg_getpage with a victim and a free swap frame: the victim's frame becomes the
\* frame of the page that was not present.
LEMMA GetPageSound ==
  ASSUME Before, NEW p \in Procs, NEW n \in Pages, n < Low(p), GetPage(p, n), defined',
         UNCHANGED <<ram_free, sbrk, symrgtbl, req>>
  PROVE  Sound'
<1> DEFINE vic == Victim(p)
           off == Head(swap_free[0])
           f   == Fpn(pgd[p][vic])
<1>1. fifo_pgn[p] # <<>> /\ swap_free[0] # <<>> /\ ~pgd[p][n].present
  BY DEF GetPage, Present
<1>2. /\ pgd \in [Procs -> [Pages -> Pte]] /\ fifo_pgn \in [Procs -> Seq(Pages)]
      /\ swap_free \in [Swaps -> Seq(0..(SwapFrames - 1))] /\ 0 \in Swaps
      /\ FpnRange \in Nat
  BY Widths, PagingAssumption DEF Before, TInv, TypeOK, Swaps
<1>3. off \in 0..(SwapFrames - 1)
  BY <1>1, <1>2, HeadOff
<1>4. /\ vic \in Pages /\ In(fifo_pgn[p], vic)
      /\ Front(fifo_pgn[p]) \in Seq(Pages)
      /\ Once(Front(fifo_pgn[p])) /\ ~In(Front(fifo_pgn[p]), vic)
      /\ \A x : In(Front(fifo_pgn[p]), x) => In(fifo_pgn[p], x)
  BY <1>1, <1>2, LastOff DEF Victim, Before, Sound, FifoInv
<1>5. Online(pgd[p][vic]) /\ pgd[p][vic] \in Pte /\ f \in 0..(FpnRange - 1)
  BY <1>2, <1>4, FieldRange DEF Before, Sound, FifoInv
<1>6. vic # n
  BY <1>1, <1>5 DEF Online
<1>7. /\ swap_free' = SlotTaken(0)
      /\ pgd' = [pgd EXCEPT ![p][vic] = SetSwap(@, 0, off),
                            ![p][n]   = SetFpn(pgd[p][n], f)]
      /\ fifo_pgn' = [fifo_pgn EXCEPT ![p] = <<n>> \o Front(fifo_pgn[p])]
  BY <1>1, <1>2 DEF GetPage, WithoutVictim
<1> HIDE DEF vic, off, f
<1>8. SwappedTo(p, vic, 0, off)
  <2>1. off \in 0..(OffRange - 1) /\ 0 \in 0..(TypRange - 1)
    BY <1>3, PagingAssumption, Widths
  <2>2. off \in Nat /\ 0 % TypRange = 0 /\ off % OffRange = off
    BY <2>1, Fits
  <2>3. pgd'[p][vic] = SetSwap(pgd[p][vic], 0, off)
    BY <1>2, <1>4, <1>6, <1>7
  <2>4. QED
    BY <1>5, <2>2, <2>3, SetSwapReads DEF SwappedTo
<1>9. Online(pgd'[p][n]) /\ ~Swapped(pgd'[p][n]) /\ Fpn(pgd'[p][n]) = f
  <2>1. pgd'[p][n] = SetFpn(pgd[p][n], f)
    BY <1>2, <1>4, <1>6, <1>7
  <2>2. f \in 0..(FpnRange - 1)
    BY <1>5
  <2>3. f \in Nat
    BY <1>2, <2>2
  <2>4. f % FpnRange = f
    BY <2>2, Fits
  <2>5. pgd[p][n] \in Pte
    BY <1>2
  <2>6. QED
    BY <2>1, <2>3, <2>4, <2>5, SetFpnReads
<1>10. \A q \in Procs : \A m \in Pages : q # p \/ (m # vic /\ m # n) =>
         pgd'[q][m] = pgd[q][m]
  BY <1>2, <1>7
<1>11. UNCHANGED InHand /\ \A q \in Procs : Low(q)' = Low(q)
  BY DEF InHand, Low
<1>12. PageInv'
  <2>1. ASSUME NEW q \in Procs, NEW m \in Pages, pgd'[q][m].present PROVE m < Low(q)
    <3>1. CASE q = p /\ m = n
      BY <3>1
    <3>2. CASE q = p /\ m = vic
      BY <1>5, <3>2 DEF Online, Before, Sound, PageInv
    <3>3. CASE q # p \/ (m # vic /\ m # n)
      BY <1>10, <2>1, <3>3 DEF Before, Sound, PageInv
    <3>4. QED
      BY <3>1, <3>2, <3>3
  <2>2. QED
    BY <1>11, <2>1 DEF Before, Sound, PageInv
<1>13. FrameInv'
  <2>1. \A q \in Procs : \A m \in Pages : Online(pgd'[q][m]) =>
          \/ q = p /\ m = n /\ Fpn(pgd'[q][m]) = f
          \/ /\ Online(pgd[q][m]) /\ Fpn(pgd'[q][m]) = Fpn(pgd[q][m])
             /\ Fpn(pgd[q][m]) # f
    <3> SUFFICES ASSUME NEW q \in Procs, NEW m \in Pages, Online(pgd'[q][m]),
                        ~(q = p /\ m = n)
                 PROVE  /\ Online(pgd[q][m]) /\ Fpn(pgd'[q][m]) = Fpn(pgd[q][m])
                        /\ Fpn(pgd[q][m]) # f
      BY <1>9
    <3>1. q # p \/ m # vic
      BY <1>8 DEF SwappedTo
    <3>2. pgd'[q][m] = pgd[q][m]
      BY <1>10, <3>1
    <3>3. QED
      BY <1>4, <1>5, <3>1, <3>2 DEF f, Before, Sound, FrameInv
  <2>2. ~In(ram_free, f) /\ ~In(InHand, f)
    BY <1>4, <1>5 DEF f, Before, Sound, FrameInv
  <2>3. \A q \in Procs : \A m \in Pages : Online(pgd'[q][m]) =>
          ~In(ram_free', Fpn(pgd'[q][m])) /\ ~In(InHand', Fpn(pgd'[q][m]))
    BY <1>11, <2>1, <2>2 DEF Before, Sound, FrameInv
  <2>4. \A o, q \in Procs : \A l, m \in Pages :
          Online(pgd'[o][l]) /\ Online(pgd'[q][m]) /\ Fpn(pgd'[o][l]) = Fpn(pgd'[q][m])
            => o = q /\ l = m
    BY <2>1 DEF Before, Sound, FrameInv
  <2>5. QED
    BY <1>11, <2>3, <2>4 DEF Before, Sound, FrameInv
<1>14. SlotInv'
  <2>1. \A q \in Procs : \A m \in Pages :
          (q # p \/ m # vic) /\ Swapped(pgd'[q][m]) => pgd'[q][m] = pgd[q][m]
    BY <1>9, <1>10
  <2>2. QED
    BY <1>1, <1>2, <1>4, <1>7, <1>8, <2>1, SlotTakenSound DEF off
<1>15. FifoInv'
  <2>1. /\ fifo_pgn'[p] = <<n>> \o Front(fifo_pgn[p])
        /\ \A q \in Procs : q # p => fifo_pgn'[q] = fifo_pgn[q]
    BY <1>2, <1>7
  <2>2. ~In(Front(fifo_pgn[p]), n)
    BY <1>1, <1>4 DEF Before, Sound, FifoInv, Online
  <2>3. /\ Once(<<n>> \o Front(fifo_pgn[p]))
        /\ \A x : In(<<n>> \o Front(fifo_pgn[p]), x) <=> x = n \/ In(Front(fifo_pgn[p]), x)
    BY <1>4, <2>2, Pushed
  <2>4. ASSUME NEW q \in Procs
        PROVE  Once(fifo_pgn'[q]) /\ \A m \in Pages : In(fifo_pgn'[q], m) => Online(pgd'[q][m])
    <3>1. CASE q = p
      <4>1. ASSUME NEW m \in Pages, In(fifo_pgn'[p], m), m # n PROVE Online(pgd'[p][m])
        <5>1. In(Front(fifo_pgn[p]), m) /\ m # vic
          BY <1>4, <2>1, <2>3, <4>1
        <5>2. Online(pgd[p][m])
          BY <1>4, <5>1 DEF Before, Sound, FifoInv
        <5>3. QED
          BY <1>10, <4>1, <5>1, <5>2
      <4>2. QED
        BY <1>9, <2>1, <2>3, <3>1, <4>1
    <3>2. CASE q # p
      BY <1>10, <2>1, <3>2 DEF Before, Sound, FifoInv
    <3>3. QED
      BY <3>1, <3>2
  <2>5. QED
    BY <2>4 DEF FifoInv
<1>16. QED
  BY <1>12, <1>13, <1>14, <1>15 DEF Sound

\* An access to a cell of a region, be the page present or not.
LEMMA AccessSound ==
  ASSUME Before, Overrun = 0, defined',
         NEW p \in Procs, NEW r \in Regions, NEW k \in Offsets, Accessible(p, r, k),
         (Present(p, PageOf(p, r, k)) /\ NoFault) \/ GetPage(p, PageOf(p, r, k)),
         UNCHANGED <<ram_free, sbrk, symrgtbl, req>>
  PROVE  Sound'
<1>1. CASE NoFault
  BY <1>1 DEF NoFault, Before, Sound, PageInv, FrameInv, SlotInv, FifoInv, Low, InHand
<1>2. CASE GetPage(p, PageOf(p, r, k))
  <2>1. PageOf(p, r, k) \in Pages /\ symrgtbl[p][r].pages > 0 /\ k <= symrgtbl[p][r].pages
    <3>1. symrgtbl[p][r].pages \in 0..MaxAlloc
      BY DEF Before, TInv, TypeOK
    <3>2. QED
      BY <3>1, PagingAssumption DEF Accessible, Offsets
  <2>2. symrgtbl[p][r].start \in Nat /\ symrgtbl[p][r].pages \in Nat /\ k \in Nat
    BY PagingAssumption DEF Before, TInv, TypeOK, Offsets
  <2>3. symrgtbl[p][r].start + symrgtbl[p][r].pages <= Low(p)
    BY <2>1 DEF Before, Sound, PageInv
  <2>4. Low(p) \in Nat
    BY LowType DEF Before
  <2>5. PageOf(p, r, k) < Low(p)
    BY <2>1, <2>2, <2>3, <2>4 DEF PageOf
  <2>6. QED
    BY <1>2, <2>1, <2>5, GetPageSound
<1>3. QED
  BY <1>1, <1>2

\* What has become undefined stays so.
LEMMA OnlyDefined == [Next]_vars /\ defined' => defined
<1> SUFFICES ASSUME [Next]_vars, defined' PROVE defined
  OBVIOUS
<1>1. \A p \in Procs : \A r \in Regions : \A n \in 1..MaxAlloc :
        Alloc(p, r, n) => defined' = defined
  BY DEF Alloc
<1>2. AllocStep => defined' = defined
  BY DEF AllocStep, TakeFrame, Evict, FailNoVictim, FailNoSwap, Map, Commit
<1>3. \A p \in Procs : \A n \in Pages : GetPage(p, n) \/ NoFault => defined
  BY DEF GetPage, NoFault
<1>4. \A p \in Procs : \A r \in Regions : \A k \in Offsets :
        Read(p, r, k) => defined
  BY <1>3 DEF Read, Accessible
<1>5. \A p \in Procs : \A r \in Regions : \A k \in Offsets : \A v \in Values :
        Write(p, r, k, v) => defined
  BY <1>3 DEF Write, Accessible
<1>6. UNCHANGED vars => defined' = defined
  BY DEF vars
<1>7. QED
  BY <1>1, <1>2, <1>4, <1>5, <1>6 DEF Next

\* Every step of programs that stay in their regions keeps the invariant.
LEMMA NextIInv == Overrun = 0 /\ IInv /\ [Next]_vars => IInv'
<1> SUFFICES ASSUME Overrun = 0, IInv, [Next]_vars PROVE IInv'
  OBVIOUS
<1>1. TInv /\ TInv'
  BY NextTInv DEF IInv
<1> SUFFICES ASSUME defined' PROVE Sound'
  BY <1>1 DEF IInv
<1>2. defined
  BY OnlyDefined
<1>3. Before
  BY <1>1, <1>2 DEF Before, IInv
<1>4. ASSUME NEW p \in Procs, NEW r \in Regions, NEW n \in 1..MaxAlloc, Alloc(p, r, n)
      PROVE  Sound'
  BY <1>3, <1>4, AllocSound
<1>5. CASE AllocStep
  BY <1>3, <1>5, TakeFrameSound, EvictSound, FailSound, MapSound DEF AllocStep
<1>6. ASSUME NEW p \in Procs, NEW r \in Regions, NEW k \in Offsets, Read(p, r, k)
      PROVE  Sound'
  BY <1>3, <1>6, AccessSound DEF Read
<1>7. ASSUME NEW p \in Procs, NEW r \in Regions, NEW k \in Offsets, NEW v \in Values,
             Write(p, r, k, v)
      PROVE  Sound'
  BY <1>3, <1>7, AccessSound DEF Write
<1>8. CASE UNCHANGED vars
  BY <1>3, <1>8 DEF vars, frameVars, mmVars, Before, Sound, PageInv, FrameInv, SlotInv,
                    FifoInv, Low, InHand
<1>9. QED
  BY <1>4, <1>5, <1>6, <1>7, <1>8 DEF Next

\* While programs stay in their regions, frames, slots, page tables and FIFOs agree
\* about who has what, through every order of the steps of allocs with the reads and
\* writes of other processes.
THEOREM Invariance ==
  ASSUME Overrun = 0 PROVE Spec => []IInv
BY InitIInv, NextIInv, PTL DEF Spec

--------------------------------------------------------------------------------
(* What it means for the processes.                                        *)

\* The lists of FramesExclusive and SlotsExclusive in terms of In and Once.
LEMMA ListForms ==
  ASSUME NEW S, NEW s \in Seq(S)
  PROVE  /\ Once(s) => IsInjective(s)
         /\ \A x : x \in ToSet(s) <=> In(s, x)
<1>1. DOMAIN s = 1..Len(s)
  BY LenProperties
<1>2. QED
  BY <1>1 DEF Once, In, IsInjective, ToSet

\* No RAM frame serves two purposes.
THEOREM FramesExclusiveHolds ==
  ASSUME Overrun = 0 PROVE Spec => []FramesExclusive
<1>1. IInv => FramesExclusive
  <2> SUFFICES ASSUME IInv, defined
               PROVE  /\ \A d, e \in OnlinePages : FrameOf(d) = FrameOf(e) => d = e
                      /\ IsInjective(ram_free \o InHand)
                      /\ {FrameOf(e) : e \in OnlinePages}
                           \intersect ToSet(ram_free \o InHand) = {}
    BY DEF FramesExclusive
  <2>1. TInv /\ FrameInv
    BY DEF IInv, Sound
  <2>2. FpnRange \in Nat /\ RamFrames \in 1..FpnRange
    BY Widths, PagingAssumption
  <2>3. ram_free \in Seq(0..(FpnRange - 1))
    <3>1. ram_free \in Seq(0..(RamFrames - 1))
      BY <2>1 DEF TInv, TypeOK
    <3>2. 0..(RamFrames - 1) \subseteq 0..(FpnRange - 1)
      BY <2>2
    <3>3. QED
      BY <3>1, <3>2, SeqMonotonic
  <2>4. InHand \in Seq(0..(FpnRange - 1))
    <3>1. CASE req = <<>>
      BY <3>1 DEF InHand
    <3>2. CASE req # <<>>
      BY <2>1, <3>2, RequestType DEF InHand
    <3>3. QED
      BY <3>1, <3>2
  <2> DEFINE s == ram_free \o InHand
  <2>5. s \in Seq(0..(FpnRange - 1)) /\ Once(s)
        /\ \A x : In(s, x) <=> In(ram_free, x) \/ In(InHand, x)
    BY <2>1, <2>3, <2>4, InFront DEF FrameInv
  <2> HIDE DEF s
  <2>6. IsInjective(s) /\ \A x : x \in ToSet(s) <=> In(s, x)
    BY <2>5, ListForms
  <2>7. \A e \in OnlinePages : /\ e[1] \in Procs /\ e[2] \in Pages /\ e = <<e[1], e[2]>>
                               /\ Online(pgd[e[1]][e[2]])
    BY DEF OnlinePages, Mapped
  <2>8. \A d, e \in OnlinePages : FrameOf(d) = FrameOf(e) => d = e
    BY <2>1, <2>7 DEF FrameInv, FrameOf
  <2>9. \A e \in OnlinePages : FrameOf(e) \notin ToSet(s)
    BY <2>1, <2>5, <2>6, <2>7 DEF FrameInv, FrameOf
  <2>10. QED
    BY <2>6, <2>8, <2>9 DEF s
<1>2. QED
  BY <1>1, Invariance, PTL

\* No swap frame holds two pages, or a page while it is free.
THEOREM SlotsExclusiveHolds ==
  ASSUME Overrun = 0 PROVE Spec => []SlotsExclusive
<1>1. IInv => SlotsExclusive
  <2> SUFFICES ASSUME IInv, defined
               PROVE  /\ \A d, e \in SwappedPages : SlotOf(d) = SlotOf(e) => d = e
                      /\ \A e \in SwappedPages :
                           SlotOf(e)[2] \notin ToSet(swap_free[SlotOf(e)[1]])
    BY DEF SlotsExclusive
  <2>1. SlotInv /\ swap_free \in [Swaps -> Seq(0..(SwapFrames - 1))]
    BY DEF IInv, Sound, TInv, TypeOK
  <2>2. \A e \in SwappedPages : /\ e[1] \in Procs /\ e[2] \in Pages /\ e = <<e[1], e[2]>>
                                /\ Swapped(pgd[e[1]][e[2]])
    BY DEF SwappedPages, Mapped
  <2>3. \A e \in SwappedPages : /\ SlotOf(e)[1] = SwpTyp(pgd[e[1]][e[2]])
                                /\ SlotOf(e)[2] = Swp(pgd[e[1]][e[2]])
    BY DEF SlotOf
  <2>4. ASSUME NEW d \in SwappedPages, NEW e \in SwappedPages, SlotOf(d) = SlotOf(e)
        PROVE  d = e
    <3>1. /\ SwpTyp(pgd[d[1]][d[2]]) = SwpTyp(pgd[e[1]][e[2]])
          /\ Swp(pgd[d[1]][d[2]]) = Swp(pgd[e[1]][e[2]])
      BY <2>3, <2>4
    <3>2. d[1] = e[1] /\ d[2] = e[2]
      BY <2>1, <2>2, <3>1 DEF SlotInv
    <3>3. QED
      BY <2>2, <3>2
  <2>5. ASSUME NEW e \in SwappedPages PROVE SlotOf(e)[2] \notin ToSet(swap_free[SlotOf(e)[1]])
    <3>1. SlotOf(e)[1] \in Swaps /\ ~In(swap_free[SlotOf(e)[1]], SlotOf(e)[2])
      BY <2>1, <2>2, <2>3 DEF SlotInv
    <3>2. QED
      BY <2>1, <3>1, ListForms
  <2>6. QED
    BY <2>4, <2>5
<1>2. QED
  BY <1>1, Invariance, PTL

\* A victim is a page in RAM, and in the FIFO once.
THEOREM FifoOnlineHolds ==
  ASSUME Overrun = 0 PROVE Spec => []FifoOnline
<1>1. IInv => FifoOnline
  <2> SUFFICES ASSUME IInv, defined, NEW p \in Procs
               PROVE  /\ IsInjective(fifo_pgn[p])
                      /\ \A n \in ToSet(fifo_pgn[p]) : Online(pgd[p][n])
    BY DEF FifoOnline
  <2>1. fifo_pgn[p] \in Seq(Pages) /\ FifoInv
    BY DEF IInv, Sound, TInv, TypeOK
  <2>2. /\ IsInjective(fifo_pgn[p])
        /\ \A n : n \in ToSet(fifo_pgn[p]) <=> In(fifo_pgn[p], n)
    BY <2>1, ListForms DEF FifoInv
  <2>3. \A n : In(fifo_pgn[p], n) => n \in Pages
    BY <2>1, ElementOfSeq DEF In
  <2>4. QED
    BY <2>1, <2>2, <2>3 DEF FifoInv
<1>2. QED
  BY <1>1, Invariance, PTL


--------------------------------------------------------------------------------
(* What happens to the data of swapped pages.                              *)

NoSwapLeft == \A w \in Swaps : swap_free[w] = <<>>

\* a region of p has a page that is not mapped, because a mapping has failed
Unmapped(p) ==
  \E r \in Regions, n \in Pages :
    /\ symrgtbl[p][r].start <= n /\ n < symrgtbl[p][r].start + symrgtbl[p][r].pages
    /\ ~pgd[p][n].present

\* p will never have a page in RAM
Stuck(p) ==
  /\ ram_free = <<>> /\ fifo_pgn[p] = <<>>
  /\ req # <<>> /\ req.proc = p => req.frames = <<>>

\* A mapping fails only when there is nothing to evict or nowhere to evict to, and
\* that stays so: alloc and access give nothing back.
FailInv == \A p \in Procs : Unmapped(p) => NoSwapLeft \/ Stuck(p)

\* Frames and slots that are in use are frames and slots of their devices.
RangeInv ==
  /\ \A f : In(InHand, f) => f \in DOMAIN ram
  /\ \A p \in Procs : \A n \in Pages : Online(pgd[p][n]) => Fpn(pgd[p][n]) \in DOMAIN ram
  /\ \A p \in Procs : \A n \in Pages :
       Swapped(pgd[p][n]) => Swp(pgd[p][n]) \in 0..(SwapFrames - 1)

DataInv == defined => FailInv /\ RangeInv

\* the change that SwapKeepsData allows
DataKept ==
  \A e \in SwappedPages' :
    SlotCell(e)' = IF e \in SwappedPages THEN SlotCell(e) ELSE ram[FrameOf(e)]

\* Nothing is mapped at first, and no region has pages.
LEMMA InitDataInv == Init => DataInv
<1> SUFFICES ASSUME Init PROVE FailInv /\ RangeInv
  BY DEF DataInv
<1>1. \A p \in Procs : ~Unmapped(p)
  <2> SUFFICES ASSUME NEW p \in Procs, Unmapped(p) PROVE FALSE
    OBVIOUS
  <2>1. PICK r \in Regions, n \in Pages :
          symrgtbl[p][r].start <= n /\ n < symrgtbl[p][r].start + symrgtbl[p][r].pages
    BY DEF Unmapped
  <2>2. symrgtbl[p][r].start = 0 /\ symrgtbl[p][r].pages = 0
    BY DEF Init, Nobody
  <2>3. QED
    BY <2>1, <2>2, PagingAssumption DEF Pages
<1>2. InHand = <<>> /\ \A f : ~In(InHand, f)
  BY DEF Init, InHand, In
<1>3. \A p \in Procs : \A n \in Pages : ~Online(pgd[p][n]) /\ ~Swapped(pgd[p][n])
  BY DEF Init, ZeroPte, Online, Swapped
<1>4. QED
  BY <1>1, <1>2, <1>3 DEF FailInv, RangeInv

\* The alloc's new pages are not yet in a region, and its hand is empty.
LEMMA AllocData ==
  ASSUME Before, FailInv, RangeInv, NEW p \in Procs, NEW r \in Regions,
         NEW n \in 1..MaxAlloc, Alloc(p, r, n)
  PROVE  FailInv' /\ RangeInv' /\ DataKept
<1>1. /\ req' # <<>> /\ req'.proc = p /\ req'.frames = <<>>
      /\ req = <<>> /\ InHand = <<>> /\ InHand' = <<>>
  <2>1. req' # <<>>
    BY RequestMade DEF Before, TInv, TypeOK, Alloc
  <2>2. QED
    BY <2>1 DEF Alloc, InHand
<1>2. UNCHANGED <<ram, ram_free, swap, swap_free, pgd, fifo_pgn, symrgtbl>>
  BY DEF Alloc, frameVars
<1>3. \A q \in Procs : Unmapped(q)' = Unmapped(q)
  BY <1>2 DEF Unmapped
<1>4. FailInv'
  BY <1>1, <1>2, <1>3 DEF FailInv, NoSwapLeft, Stuck
<1>5. RangeInv'
  BY <1>1, <1>2 DEF RangeInv
<1>6. DataKept
  BY <1>2 DEF DataKept, SwappedPages, Mapped, SlotCell, SlotOf
<1>7. QED
  BY <1>4, <1>5, <1>6

\* A free frame is a frame of the device; where there is one, no process is stuck.
LEMMA TakeFrameData ==
  ASSUME Before, FailInv, RangeInv, TakeFrame
  PROVE  FailInv' /\ RangeInv' /\ DataKept
<1>1. /\ req # <<>> /\ ram_free # <<>>
      /\ UNCHANGED <<ram, swap, swap_free, pgd, fifo_pgn, sbrk, symrgtbl>>
  BY DEF TakeFrame, Missing, mmVars
<1>2. /\ req \in Request /\ req.frames \in Seq(0..(FpnRange - 1))
      /\ ram_free \in Seq(0..(RamFrames - 1)) /\ DOMAIN ram = 0..(RamFrames - 1)
      /\ RamFrames \in 1..FpnRange /\ FpnRange \in Nat
  BY <1>1, RequestType, Widths, PagingAssumption DEF Before, TInv, TypeOK
<1>3. PICK h : h = Head(ram_free)
  OBVIOUS
<1>4. h \in 0..(RamFrames - 1) /\ h \in 0..(FpnRange - 1)
  <2>1. h \in 0..(RamFrames - 1)
    BY <1>1, <1>2, <1>3, HeadOff
  <2>2. QED
    BY <1>2, <2>1
<1>5. req' # <<>> /\ req'.frames = <<h>> \o req.frames
  <2>1. req' = [req EXCEPT !.frames = <<h>> \o @]
    BY <1>3 DEF TakeFrame
  <2>2. req' # <<>>
    BY <1>2, <2>1, RequestMade, <1>1 DEF Before, TInv, TypeOK, Request
  <2>3. QED
    BY <1>2, <2>1, <2>2 DEF Request
<1>6. RangeInv'
  <2>1. InHand = req.frames /\ InHand' = <<h>> \o req.frames
    BY <1>1, <1>5 DEF InHand
  <2>2. \A f : In(<<h>> \o req.frames, f) <=> f = h \/ In(req.frames, f)
    <3>1. PICK s : s = req.frames
      OBVIOUS
    <3>2. s \in Seq(0..(FpnRange - 1)) /\ h \in 0..(FpnRange - 1)
      BY <1>2, <1>4, <3>1
    <3>3. \A f : In(<<h>> \o s, f) <=> f = h \/ In(s, f)
      BY <3>2, Pushed
    <3>4. QED
      BY <3>1, <3>3
  <2>3. \A f : In(InHand', f) => f = h \/ In(InHand, f)
    BY <2>1, <2>2
  <2>4. QED
    BY <1>1, <1>2, <1>4, <2>3 DEF RangeInv
<1>7. FailInv'
  <2>1. \A q \in Procs : Unmapped(q)' = Unmapped(q)
    BY <1>1 DEF Unmapped
  <2>2. NoSwapLeft' = NoSwapLeft
    BY <1>1 DEF NoSwapLeft
  <2>3. QED
    BY <1>1, <2>1, <2>2 DEF FailInv, Stuck
<1>8. DataKept
  BY <1>1 DEF DataKept, SwappedPages, Mapped, SlotCell, SlotOf
<1>9. QED
  BY <1>6, <1>7, <1>8

\* __swap_cp_page: the slot gets the cell of the victim's frame, and the slots of
\* other pages are other ones.  A process that is stuck has no victim.
LEMMA EvictData ==
  ASSUME Before, FailInv, RangeInv, Evict
  PROVE  FailInv' /\ RangeInv' /\ DataKept
<1>1. PICK p \in Procs, vic \in Pages, w \in Swaps, off \in 0..(SwapFrames - 1),
           f \in 0..(FpnRange - 1) : EvictTo(p, vic, w, off, f)
  BY EvictEffect
<1>2. /\ req # <<>> /\ req' # <<>> /\ req.proc = p /\ req'.proc = p
      /\ req'.frames = <<f>> \o req.frames
      /\ Online(pgd[p][vic]) /\ f = Fpn(pgd[p][vic])
      /\ ram_free = <<>> /\ fifo_pgn[p] # <<>> /\ swap_free[w] # <<>>
      /\ In(swap_free[w], off)
      /\ UNCHANGED <<ram_free, symrgtbl>>
  BY <1>1 DEF EvictTo
<1>3. \A q \in Procs : \A m \in Pages : q # p \/ m # vic => pgd'[q][m] = pgd[q][m]
  BY <1>1 DEF EvictTo
<1>4. /\ Swapped(pgd'[p][vic]) /\ ~Online(pgd'[p][vic])
      /\ SwpTyp(pgd'[p][vic]) = w /\ Swp(pgd'[p][vic]) = off
  BY <1>1 DEF EvictTo, SwappedTo
<1>5. \A q \in Procs : q # p => fifo_pgn'[q] = fifo_pgn[q]
  BY <1>1 DEF EvictTo, Before, TInv, TypeOK
<1>6. UNCHANGED ram
  BY DEF Evict
<1>7. f \in DOMAIN ram
  BY <1>2 DEF RangeInv
<1>8. FailInv'
  <2>1. ASSUME NEW q \in Procs, Unmapped(q)' PROVE Stuck(q)'
    <3>1. PICK r \in Regions, n \in Pages :
            /\ symrgtbl'[q][r].start <= n
            /\ n < symrgtbl'[q][r].start + symrgtbl'[q][r].pages
            /\ ~pgd'[q][n].present
      BY <2>1 DEF Unmapped
    <3>2. pgd'[q][n] = pgd[q][n]
      BY <1>3, <1>4, <3>1 DEF Swapped
    <3>3. Unmapped(q)
      BY <1>2, <3>1, <3>2 DEF Unmapped
    <3>4. Stuck(q)
      BY <1>2, <3>3 DEF FailInv, NoSwapLeft
    <3>5. q # p
      BY <1>2, <3>4 DEF Stuck
    <3>6. QED
      BY <1>2, <1>5, <3>4, <3>5 DEF Stuck
  <2>2. QED
    BY <2>1 DEF FailInv
<1>9. RangeInv'
  <2>1. InHand = req.frames /\ InHand' = <<f>> \o req.frames
    BY <1>2 DEF InHand
  <2>2. req.frames \in Seq(0..(FpnRange - 1))
    BY <1>2, RequestType DEF Before
  <2>3. \A g : In(<<f>> \o req.frames, g) <=> g = f \/ In(req.frames, g)
    <3>1. PICK s : s = req.frames
      OBVIOUS
    <3>2. s \in Seq(0..(FpnRange - 1))
      BY <2>2, <3>1
    <3>3. \A g : In(<<f>> \o s, g) <=> g = f \/ In(s, g)
      BY <3>2, Pushed
    <3>4. QED
      BY <3>1, <3>3
  <2>4. \A g : In(InHand', g) => g = f \/ In(InHand, g)
    BY <2>1, <2>3
  <2>5. \A q \in Procs : \A m \in Pages :
          \/ pgd'[q][m] = pgd[q][m]
          \/ ~Online(pgd'[q][m]) /\ Swp(pgd'[q][m]) = off
    BY <1>3, <1>4
  <2>6. QED
    BY <1>6, <1>7, <2>4, <2>5 DEF RangeInv
<1>10. swap'[w][off] = ram[f]
       /\ \A x \in Swaps, y \in 0..(SwapFrames - 1) :
            x # w \/ y # off => swap'[x][y] = swap[x][y]
  <2>1. swap \in [Swaps -> [0..(SwapFrames - 1) -> Values]]
    BY DEF Before, TInv, TypeOK
  <2>2. swap' = SwapOut(w, off, ram[f])
    BY <1>1, <1>7 DEF EvictTo, Fetch
  <2>3. swap' = [swap EXCEPT ![w] = [swap[w] EXCEPT ![off] = ram[f]]]
    BY <2>1, <2>2 DEF SwapOut, Store
  <2>4. QED
    BY <2>1, <2>3
<1>11. DataKept
  <2> SUFFICES ASSUME NEW e \in SwappedPages'
               PROVE  SlotCell(e)' = IF e \in SwappedPages THEN SlotCell(e)
                                                           ELSE ram[FrameOf(e)]
    BY DEF DataKept
  <2>1. PICK q \in Procs, m \in Pages : e = <<q, m>>
    BY DEF SwappedPages, Mapped
  <2>2. e[1] = q /\ e[2] = m
    BY <2>1
  <2>3. Swapped(pgd'[q][m])
    BY <2>2 DEF SwappedPages, Mapped
  <2>4. e \in SwappedPages <=> Swapped(pgd[q][m])
    BY <2>1, <2>2 DEF SwappedPages, Mapped
  <2>5. /\ SlotCell(e) = swap[SwpTyp(pgd[q][m])][Swp(pgd[q][m])]
        /\ SlotCell(e)' = swap'[SwpTyp(pgd'[q][m])][Swp(pgd'[q][m])]
        /\ FrameOf(e) = Fpn(pgd[q][m])
    BY <2>2 DEF SlotCell, SlotOf, FrameOf
  <2>6. CASE q = p /\ m = vic
    <3>1. e \notin SwappedPages
      BY <1>2, <2>4, <2>6 DEF Online, Swapped
    <3>2. QED
      BY <1>2, <1>4, <1>10, <2>5, <2>6, <3>1
  <2>7. CASE q # p \/ m # vic
    <3>1. pgd'[q][m] = pgd[q][m] /\ e \in SwappedPages
      BY <1>3, <2>3, <2>4, <2>7
    <3>2. SwpTyp(pgd[q][m]) \in Swaps /\ ~In(swap_free[SwpTyp(pgd[q][m])], Swp(pgd[q][m]))
      BY <2>3, <3>1 DEF Before, Sound, SlotInv
    <3>3. /\ Swp(pgd[q][m]) \in 0..(SwapFrames - 1)
          /\ SwpTyp(pgd[q][m]) # w \/ Swp(pgd[q][m]) # off
      BY <1>2, <2>3, <3>1, <3>2 DEF RangeInv
    <3>4. QED
      BY <1>10, <2>5, <3>1, <3>2, <3>3
  <2>8. QED
    BY <2>6, <2>7
<1>12. QED
  BY <1>8, <1>9, <1>11

\* A mapping that fails leaves its process stuck, or has found every slot taken.
LEMMA FailData ==
  ASSUME Before, FailInv, RangeInv, FailNoVictim \/ FailNoSwap
  PROVE  FailInv' /\ RangeInv' /\ DataKept
<1>1. /\ req # <<>> /\ Commit /\ ram_free = <<>>
      /\ UNCHANGED <<ram, ram_free, swap, swap_free, pgd>>
  BY DEF FailNoVictim, FailNoSwap, Missing, frameVars
<1>2. /\ req' = <<>> /\ InHand' = <<>>
      /\ \A q \in Procs : q # req.proc => symrgtbl'[q] = symrgtbl[q]
  BY <1>1, RequestType DEF Commit, InHand, Before, TInv, TypeOK
<1>3. FailInv'
  <2>1. CASE FailNoSwap
    <3>1. NoSwapLeft'
      BY <1>1, <2>1 DEF FailNoSwap, NoSwapLeft
    <3>2. QED
      BY <3>1 DEF FailInv
  <2>2. CASE FailNoVictim
    <3>1. fifo_pgn[req.proc] = <<>> /\ fifo_pgn' = fifo_pgn
      BY <2>2 DEF FailNoVictim
    <3>2. ASSUME NEW q \in Procs, Unmapped(q)' PROVE NoSwapLeft' \/ Stuck(q)'
      <4>1. CASE q = req.proc
        BY <1>1, <1>2, <3>1, <4>1 DEF Stuck
      <4>2. CASE q # req.proc
        <5>1. Unmapped(q)
          BY <1>1, <1>2, <3>2, <4>2 DEF Unmapped
        <5>2. NoSwapLeft \/ Stuck(q)
          BY <5>1 DEF FailInv
        <5>3. QED
          BY <1>1, <1>2, <3>1, <5>2 DEF NoSwapLeft, Stuck
      <4>3. QED
        BY <4>1, <4>2
    <3>3. QED
      BY <3>2 DEF FailInv
  <2>3. QED
    BY <2>1, <2>2
<1>4. RangeInv'
  <2>1. \A f : ~In(InHand', f)
    BY <1>2 DEF In
  <2>2. QED
    BY <1>1, <2>1 DEF RangeInv
<1>5. DataKept
  BY <1>1 DEF DataKept, SwappedPages, Mapped, SlotCell, SlotOf
<1>6. QED
  BY <1>3, <1>4, <1>5

\* vmap_page_range maps every page of the new region, and no process that maps is stuck.
LEMMA MapData ==
  ASSUME Before, FailInv, RangeInv, Map
  PROVE  FailInv' /\ RangeInv' /\ DataKept
<1>0. PICK p : p = req.proc
  OBVIOUS
<1>1. req # <<>> /\ Commit /\ UNCHANGED <<ram, ram_free, swap, swap_free>>
  BY DEF Map, frameVars
<1>2. /\ p \in Procs /\ req.region \in Regions /\ req.start \in Nat /\ req.pages \in Nat \ {0}
      /\ req.frames \in Seq(0..(FpnRange - 1)) /\ Len(req.frames) \in Nat
      /\ Len(req.frames) >= req.pages /\ NewPages \subseteq Pages /\ Pages \subseteq Nat
      /\ pgd \in [Procs -> [Pages -> Pte]] /\ fifo_pgn \in [Procs -> Seq(Pages)]
      /\ symrgtbl \in [Procs -> [Regions -> [start : 0..MaxPages, pages : 0..MaxAlloc]]]
      /\ FpnRange \in Nat
  <2>1. MaxPages \in Nat /\ MaxAlloc \in Nat /\ FpnRange \in Nat
    BY Widths, PagingAssumption
  <2>2. /\ p \in Procs /\ req.region \in Regions
        /\ req.start \in 0..MaxPages /\ req.pages \in 1..MaxAlloc
        /\ req.frames \in Seq(0..(FpnRange - 1)) /\ NewPages \subseteq Pages
    BY <1>0, <1>1, RequestType DEF Before
  <2>3. Len(req.frames) \in Nat
    BY <2>2, LenProperties
  <2>4. req.start \in Nat /\ req.pages \in Nat \ {0} /\ Pages \subseteq Nat
    BY <2>1, <2>2 DEF Pages
  <2>5. Len(req.frames) >= req.pages
    BY <1>1, <2>3, <2>4 DEF Map, Missing
  <2>6. QED
    BY <2>1, <2>2, <2>3, <2>4, <2>5 DEF Before, TInv, TypeOK
<1>3. \A n \in NewPages : req.frames[n - req.start + 1] \in 0..(FpnRange - 1)
                          /\ In(InHand, req.frames[n - req.start + 1])
  <2>1. PICK a, b, c : a = req.start /\ b = req.pages /\ c = Len(req.frames)
    OBVIOUS
  <2>2. a \in Nat /\ b \in Nat /\ c \in Nat /\ c >= b /\ NewPages = a..(a + b - 1)
    BY <1>2, <2>1 DEF NewPages
  <2>3. \A n \in NewPages : n - a + 1 \in 1..c
    BY <2>2
  <2>4. InHand = req.frames
    BY <1>1 DEF InHand
  <2>5. QED
    BY <1>2, <2>1, <2>3, <2>4, ElementOfSeq DEF In
<1>4. /\ \A n \in NewPages :
           pgd'[p][n] = SetFpn(pgd[p][n], req.frames[n - req.start + 1])
      /\ \A q \in Procs : \A m \in Pages : q # p \/ m \notin NewPages =>
           pgd'[q][m] = pgd[q][m]
  BY <1>0, <1>2 DEF Map
<1>5. \A n \in NewPages :
        /\ pgd'[p][n].present /\ ~Swapped(pgd'[p][n])
        /\ Fpn(pgd'[p][n]) \in DOMAIN ram
  <2> SUFFICES ASSUME NEW n \in NewPages
               PROVE  /\ pgd'[p][n].present /\ ~Swapped(pgd'[p][n])
                      /\ Fpn(pgd'[p][n]) \in DOMAIN ram
    OBVIOUS
  <2>1. PICK f : f = req.frames[n - req.start + 1]
    OBVIOUS
  <2>2. pgd[p][n] \in Pte /\ f \in Nat /\ f % FpnRange = f
    <3>1. f \in 0..(FpnRange - 1)
      BY <1>3, <2>1
    <3>2. f \in Nat
      BY <1>2, <3>1
    <3>3. f % FpnRange = f
      BY <3>1, Fits
    <3>4. QED
      BY <1>2, <3>2, <3>3
  <2>3. pgd'[p][n] = SetFpn(pgd[p][n], f)
    BY <1>4, <2>1
  <2>4. Online(pgd'[p][n]) /\ ~Swapped(pgd'[p][n]) /\ Fpn(pgd'[p][n]) = f
    BY <2>2, <2>3, SetFpnReads
  <2>5. f \in DOMAIN ram
    BY <1>3, <2>1 DEF RangeInv
  <2>6. QED
    BY <2>4, <2>5 DEF Online
<1>6. req' = <<>> /\ InHand' = <<>>
  BY <1>1 DEF Commit, InHand
<1>7. \A q \in Procs : Unmapped(q)' => Unmapped(q)
  <2> SUFFICES ASSUME NEW q \in Procs, NEW r \in Regions, NEW n \in Pages,
                      symrgtbl'[q][r].start <= n,
                      n < symrgtbl'[q][r].start + symrgtbl'[q][r].pages,
                      ~pgd'[q][n].present
               PROVE  Unmapped(q)
    BY DEF Unmapped
  <2>1. symrgtbl' = [symrgtbl EXCEPT ![p][req.region] =
                       [start |-> req.start, pages |-> req.pages]]
    BY <1>0, <1>1 DEF Commit
  <2>2. q # p \/ n \notin NewPages
    BY <1>5
  <2>3. pgd'[q][n] = pgd[q][n]
    BY <1>4, <2>2
  <2>4. ~(q = p /\ r = req.region)
    <3> SUFFICES ASSUME q = p, r = req.region PROVE FALSE
      OBVIOUS
    <3>1. symrgtbl'[q][r] = [start |-> req.start, pages |-> req.pages]
      BY <1>2, <2>1
    <3>2. req.start <= n /\ n < req.start + req.pages
      BY <3>1
    <3>3. n \in NewPages
      BY <1>2, <3>2 DEF NewPages
    <3>4. QED
      BY <2>2, <3>3
  <2>5. symrgtbl'[q][r] = symrgtbl[q][r]
    BY <1>2, <2>1, <2>4
  <2>6. QED
    BY <2>3, <2>5 DEF Unmapped
<1>8. FailInv'
  <2>1. ASSUME NEW q \in Procs, Unmapped(q)' PROVE NoSwapLeft' \/ Stuck(q)'
    <3>1. NoSwapLeft \/ Stuck(q)
      BY <1>7, <2>1 DEF FailInv
    <3>2. CASE NoSwapLeft
      BY <1>1, <3>2 DEF NoSwapLeft
    <3>3. CASE Stuck(q)
      <4>1. q # p
        <5> SUFFICES ASSUME q = p PROVE FALSE
          OBVIOUS
        <5>1. req.frames = <<>>
          BY <1>0, <1>1, <3>3 DEF Stuck
        <5>2. Len(req.frames) = 0
          BY <5>1
        <5>3. QED
          BY <1>2, <5>2
      <4>2. fifo_pgn'[q] = fifo_pgn[q]
        BY <1>0, <1>2, <4>1 DEF Map
      <4>3. QED
        BY <1>1, <1>6, <3>3, <4>2 DEF Stuck
    <3>4. QED
      BY <3>1, <3>2, <3>3
  <2>2. QED
    BY <2>1 DEF FailInv
<1>9. RangeInv'
  <2>1. \A f : ~In(InHand', f)
    BY <1>6 DEF In
  <2>2. \A q \in Procs : \A m \in Pages :
          \/ pgd'[q][m] = pgd[q][m]
          \/ ~Swapped(pgd'[q][m]) /\ Fpn(pgd'[q][m]) \in DOMAIN ram
    BY <1>4, <1>5
  <2>3. QED
    BY <1>1, <2>1, <2>2 DEF RangeInv
<1>10. DataKept
  <2> SUFFICES ASSUME NEW e \in SwappedPages'
               PROVE  e \in SwappedPages /\ SlotCell(e)' = SlotCell(e)
    BY DEF DataKept
  <2>1. PICK q \in Procs, m \in Pages : e = <<q, m>>
    BY DEF SwappedPages, Mapped
  <2>2. e[1] = q /\ e[2] = m
    BY <2>1
  <2>3. Swapped(pgd'[q][m])
    BY <2>2 DEF SwappedPages, Mapped
  <2>4. pgd'[q][m] = pgd[q][m]
    BY <1>4, <1>5, <2>3
  <2>5. e \in SwappedPages
    BY <2>1, <2>2, <2>3, <2>4 DEF SwappedPages, Mapped
  <2>6. SlotCell(e)' = SlotCell(e)
    BY <1>1, <2>2, <2>4 DEF SlotCell, SlotOf
  <2>7. QED
    BY <2>5, <2>6
<1>11. QED
  BY <1>8, <1>9, <1>10

\* A page fault of a program that stays in its regions is one on a page whose mapping
\* has failed, and never finds both a victim and a free slot on the active device.
LEMMA FaultLacks ==
  ASSUME Before, FailInv, Overrun = 0, NEW p \in Procs, NEW r \in Regions,
         NEW k \in Offsets, Accessible(p, r, k), GetPage(p, PageOf(p, r, k))
  PROVE  ~defined'
<1>1. PICK n : n = PageOf(p, r, k)
  OBVIOUS
<1>2. n \in Pages /\ symrgtbl[p][r].pages > 0 /\ k <= symrgtbl[p][r].pages
  <2>1. symrgtbl[p][r].pages \in 0..MaxAlloc
    BY DEF Before, TInv, TypeOK
  <2>2. QED
    BY <1>1, <2>1, PagingAssumption DEF Accessible, Offsets
<1>3. /\ symrgtbl[p][r].start \in Nat /\ symrgtbl[p][r].pages \in Nat
      /\ k \in Nat /\ k >= 1
  BY PagingAssumption DEF Before, TInv, TypeOK, Offsets
<1>4. symrgtbl[p][r].start <= n /\ n < symrgtbl[p][r].start + symrgtbl[p][r].pages
  BY <1>1, <1>2, <1>3 DEF PageOf
<1>5. Unmapped(p)
  BY <1>1, <1>2, <1>4 DEF Unmapped, GetPage, Present
<1>6. swap_free[0] = <<>> \/ fifo_pgn[p] = <<>>
  <2>1. 0 \in Swaps
    BY PagingAssumption, Widths DEF Swaps
  <2>2. QED
    BY <1>5, <2>1 DEF FailInv, NoSwapLeft, Stuck
<1>7. QED
  BY <1>6 DEF GetPage

\* Reads and writes keep the invariant, and what is swapped out.
LEMMA AccessData ==
  ASSUME Before, FailInv, RangeInv, Overrun = 0, defined',
         NEW p \in Procs, NEW r \in Regions, NEW k \in Offsets, Accessible(p, r, k),
         (Present(p, PageOf(p, r, k)) /\ NoFault) \/ GetPage(p, PageOf(p, r, k)),
         UNCHANGED <<ram_free, sbrk, symrgtbl, req>>, DOMAIN ram' = DOMAIN ram
  PROVE  FailInv' /\ RangeInv' /\ DataKept
<1>1. NoFault
  BY FaultLacks
<1>2. FailInv'
  BY <1>1 DEF NoFault, FailInv, Unmapped, NoSwapLeft, Stuck
<1>3. RangeInv'
  BY <1>1 DEF NoFault, RangeInv, InHand
<1>4. DataKept
  BY <1>1 DEF NoFault, DataKept, SwappedPages, Mapped, SlotCell, SlotOf
<1>5. QED
  BY <1>2, <1>3, <1>4

\* Every step of programs that stay in their regions keeps the invariant and the data
\* of swapped pages, until an unset variable is used.
LEMMA NextData ==
  ASSUME Overrun = 0, IInv, IInv', DataInv, [Next]_vars
  PROVE  DataInv' /\ (defined' => DataKept)
<1> SUFFICES ASSUME defined' PROVE FailInv' /\ RangeInv' /\ DataKept
  BY DEF DataInv
<1>1. defined
  BY OnlyDefined
<1>2. Before /\ FailInv /\ RangeInv
  BY <1>1 DEF Before, IInv, DataInv
<1>3. ASSUME NEW p \in Procs, NEW r \in Regions, NEW n \in 1..MaxAlloc, Alloc(p, r, n)
      PROVE  FailInv' /\ RangeInv' /\ DataKept
  BY <1>2, <1>3, AllocData
<1>4. CASE AllocStep
  BY <1>2, <1>4, TakeFrameData, EvictData, FailData, MapData DEF AllocStep
<1>5. ASSUME NEW p \in Procs, NEW r \in Regions, NEW k \in Offsets, Read(p, r, k)
      PROVE  FailInv' /\ RangeInv' /\ DataKept
  BY <1>2, <1>5, AccessData DEF Read
<1>6. ASSUME NEW p \in Procs, NEW r \in Regions, NEW k \in Offsets, NEW v \in Values,
             Write(p, r, k, v)
      PROVE  FailInv' /\ RangeInv' /\ DataKept
  <2>1. DOMAIN ram' = DOMAIN ram
    BY DEF IInv, TInv, TypeOK
  <2>2. QED
    BY <1>2, <1>6, <2>1, AccessData DEF Write
<1>7. CASE UNCHANGED vars
  <2>1. UNCHANGED <<ram, ram_free, swap, swap_free, pgd, fifo_pgn, symrgtbl, req>>
    BY <1>7 DEF vars, frameVars, mmVars
  <2>2. FailInv' /\ RangeInv'
    BY <1>2, <2>1 DEF FailInv, Unmapped, NoSwapLeft, Stuck, RangeInv, InHand
  <2>3. DataKept
    BY <2>1 DEF DataKept, SwappedPages, Mapped, SlotCell, SlotOf
  <2>4. QED
    BY <2>2, <2>3
<1>8. QED
  BY <1>3, <1>4, <1>5, <1>6, <1>7 DEF Next

\* While programs stay in their regions, a mapping fails only when nothing can ever be
\* evicted for it again, and all frames and slots in use exist.
THEOREM DataInvariance ==
  ASSUME Overrun = 0 PROVE Spec => []DataInv
<1>1. (IInv /\ DataInv) /\ IInv' /\ [Next]_vars => DataInv'
  BY NextData
<1>2. QED
  BY <1>1, InitDataInv, Invariance, PTL DEF Spec

\* Swapping out loses nothing while programs stay in their regions: a slot gets the
\* cell of the page's frame, and keeps it through all evictions that follow.
THEOREM SwapKeepsDataHolds ==
  ASSUME Overrun = 0 PROVE Spec => SwapKeepsData
<1>1. (IInv /\ DataInv) /\ IInv' /\ [Next]_vars => DataInv' /\ (defined' => DataKept)
  BY NextData
<1>2. Spec => [][defined' => DataKept]_vars
  BY <1>1, DataInvariance, Invariance, PTL DEF Spec
<1>3. QED
  BY <1>2 DEF SwapKeepsData, DataKept

\* What pg_getpage promises to "find" and to "get" is never both there: within the
\* regions, a page fault always goes on with a page or a slot that nobody set.
THEOREM FaultsNeverServed ==
  ASSUME Overrun = 0
  PROVE  Spec => [][\A p \in Procs, r \in Regions, k \in Offsets :
                      Accessible(p, r, k) /\ GetPage(p, PageOf(p, r, k)) => ~defined']_vars
<1> DEFINE Lacks == \A p \in Procs, r \in Regions, k \in Offsets :
                      Accessible(p, r, k) /\ GetPage(p, PageOf(p, r, k)) => ~defined'
<1>1. IInv /\ DataInv /\ IInv' => Lacks
  <2> SUFFICES ASSUME IInv, DataInv, IInv', NEW p \in Procs, NEW r \in Regions,
                      NEW k \in Offsets, Accessible(p, r, k), GetPage(p, PageOf(p, r, k))
               PROVE  ~defined'
    OBVIOUS
  <2>1. CASE defined
    <3>1. Before /\ FailInv
      BY <2>1 DEF Before, IInv, DataInv
    <3>2. QED
      BY <3>1, FaultLacks
  <2>2. CASE ~defined
    BY <2>2 DEF GetPage
  <2>3. QED
    BY <2>1, <2>2
<1>2. Spec => []DataInv
  BY DataInvariance
<1>3. QED
  BY <1>1, <1>2, Invariance, PTL
=================================================================================
