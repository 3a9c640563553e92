------------------------------- MODULE PageTable -------------------------------
(***************************************************************************)
(* Page table entries (include/mm.h, src/mm.c).  An entry is a 32-bit word *)
(* with a PRESENT bit (31), a SWAPPED bit (30) and the bits 0..25, which   *)
(* the frame number of an online page (bits 0..12) shares with the swap    *)
(* device (0..4) and the swap frame (5..25) of a swapped one.  Here these  *)
(* 26 bits are the number "low"; DIRTY (28) is only ever cleared.          *)
(***************************************************************************)
EXTENDS Naturals

FpnRange == 8192          \* 2^13, bits 0..12
TypRange == 32            \* 2^5,  bits 0..4
OffRange == 2048 * 1024   \* 2^21, bits 5..25
LowRange == TypRange * OffRange

Pte == [present : BOOLEAN, swapped : BOOLEAN, low : 0..(LowRange - 1)]

\* the entry of a page that was never mapped
ZeroPte == [present |-> FALSE, swapped |-> FALSE, low |-> 0]

\* SETVAL of the frame number keeps the bits above it
SetFpn(pte, fpn) ==
  [present |-> TRUE, swapped |-> FALSE,
   low |-> ((pte.low \div FpnRange) * FpnRange) + (fpn % FpnRange)]

\* pte_set_swap marks a swapped page as present
SetSwap(pte, typ, off) ==
  [present |-> TRUE, swapped |-> TRUE,
   low |-> (typ % TypRange) + (TypRange * (off % OffRange))]

Fpn(pte)    == pte.low % FpnRange       \* PAGING_FPN, PAGING_PTE_FPN
Swp(pte)    == pte.low \div TypRange    \* PAGING_PTE_SWP
SwpTyp(pte) == pte.low % TypRange       \* PAGING_SWPTYP

\* What the two bits say together, for the properties: pg_getpage tests the first
\* one alone (Paging!Present).
Online(pte)  == pte.present /\ ~pte.swapped
Swapped(pte) == pte.present /\ pte.swapped
================================================================================
