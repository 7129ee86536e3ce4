-------------------------------- MODULE Pmm --------------------------------
(***************************************************************************)
(* The physical memory manager, src/harlin/mem/pmm.c.                      *)
(*                                                                         *)
(* A page is its index from PMM_BASE_ADDR.  `bitmap' is the set of indexes *)
(* whose bit is set; the byte structure survives only where it matters:    *)
(* every scan stops at byte total/8.  Every operation holds pmm_lock from  *)
(* its first look at the bitmap to its last write, so each is one step.    *)
(* `held' is what the callers were given and have not freed; they free     *)
(* only such pages (ProcMem studies callers that do not).                  *)
(***************************************************************************)
EXTENDS Integers, FiniteSets

CONSTANTS Client,        \* callers
          TotalPages,    \* g_pmm_total_pages
          KernelPages,   \* pages below kernel_end_page, marked at initialisation
          LowPages,      \* pages that end below ISA_DMA_LIMIT
          MaxCount       \* bound: longest run a caller asks for

ASSUME PmmAssumption ==
  /\ TotalPages \in Nat \ {0}
  /\ TotalPages % 8 = 0       \* pmm_init passes PMM_TOTAL_PAGES_MIN = 32000
  /\ KernelPages \in 0 .. TotalPages
  /\ LowPages \in 0 .. TotalPages
  /\ MaxCount \in Nat \ {0}

VARIABLES bitmap,        \* indexes whose bit is 1
          last_idx,      \* the static cursor of pmm_alloc_contiguous
          held,          \* history: pages each client holds
          last           \* history: the last call and the base it returned

vars == <<bitmap, last_idx, held, last>>

Page == 0 .. TotalPages - 1
NoPage == -1             \* the calls return address 0
Reserved == 0 .. KernelPages - 1
Run(base, count) == base .. base + count - 1

\* Bits the scans look at: bytes 0 .. total/8 - 1.
Scanned == 0 .. (TotalPages \div 8) * 8 - 1

\* Mutant: only the first bit of a run is tested.
FitsFirstBitOnly(cur, count) ==
  {b \in Scanned : b >= cur /\ b + count <= TotalPages /\ b \notin bitmap}

\* Where a run of count clear bits can start, at or after index cur.
Fits(cur, count) ==
  {b \in Scanned : /\ b >= cur
                   /\ b + count <= TotalPages
                   /\ Run(b, count) \cap bitmap = {}}

\* Mutant: only the first page of a run is compared with the DMA limit.
LowFitsFirstPageOnly(count) == {b \in Fits(0, count) : b < LowPages}

\* pmm_idx_in_range for every page of the run.
LowFits(count) == {b \in Fits(0, count) : \A i \in Run(b, count) : i < LowPages}

\* The scans go upwards and take the first index that fits.
IsFirst(b, S) == b \in S /\ \A d \in S : b <= d

\* Mutant: only the first bit of a run is set.
GiveFirstBitOnly(c, op, base, count) ==
  /\ bitmap' = bitmap \cup {base}
  /\ held' = [held EXCEPT ![c] = @ \cup Run(base, count)]
  /\ last' = [op |-> op, count |-> count, base |-> base]

Give(c, op, base, count) ==
  /\ bitmap' = bitmap \cup Run(base, count)
  /\ held' = [held EXCEPT ![c] = @ \cup Run(base, count)]
  /\ last' = [op |-> op, count |-> count, base |-> base]

Refuse(op, count) ==
  /\ last' = [op |-> op, count |-> count, base |-> NoPage]
  /\ UNCHANGED <<bitmap, held>>

Init ==
  /\ bitmap = Reserved
  /\ last_idx = 0
  /\ held = [c \in Client |-> {}]
  /\ last = [op |-> "init", count |-> 0, base |-> NoPage]

pmm_alloc(c) ==
  /\ \/ \E b \in Scanned : IsFirst(b, Fits(0, 1)) /\ Give(c, "alloc", b, 1)
     \/ Fits(0, 1) = {} /\ Refuse("alloc", 1)
  /\ UNCHANGED last_idx

\* Mutant: one pass, from the cursor.
ContiguousOnePass(c, count) ==
  \/ \E b \in Scanned :
        /\ IsFirst(b, Fits(last_idx, count))
        /\ Give(c, "contiguous", b, count)
        /\ last_idx' = (b + count) % TotalPages
  \/ /\ Fits(last_idx, count) = {}
     /\ Refuse("contiguous", count)
     /\ UNCHANGED last_idx

\* Mutant: the cursor is not wrapped.
ContiguousNoWrap(c, count) ==
  \E b \in Scanned :
     /\ IsFirst(b, Fits(last_idx, count))
     /\ Give(c, "contiguous", b, count)
     /\ last_idx' = b + count

\* Two passes: from the cursor, then from 0.
pmm_alloc_contiguous(c, count) ==
  LET first == Fits(last_idx, count)
      pass  == IF first # {} THEN first ELSE Fits(0, count)
  IN \/ \E b \in Scanned :
           /\ IsFirst(b, pass)
           /\ Give(c, "contiguous", b, count)
           /\ last_idx' = (b + count) % TotalPages
     \/ /\ pass = {}
        /\ Refuse("contiguous", count)
        /\ UNCHANGED last_idx

pmm_alloc_low(c, count) ==
  /\ \/ \E b \in Scanned : IsFirst(b, LowFits(count)) /\ Give(c, "low", b, count)
     \/ LowFits(count) = {} /\ Refuse("low", count)
  /\ UNCHANGED last_idx

pmm_free(c, p) ==
  /\ p \in held[c]
  /\ bitmap' = bitmap \ {p}
  /\ held' = [held EXCEPT ![c] = @ \ {p}]
  /\ last' = [op |-> "free", count |-> 0, base |-> NoPage]
  /\ UNCHANGED last_idx

Next ==
  \E c \in Client :
    \/ pmm_alloc(c)
    \/ \E n \in 1 .. MaxCount : pmm_alloc_contiguous(c, n) \/ pmm_alloc_low(c, n)
    \/ \E p \in Page : pmm_free(c, p)

Spec == Init /\ [][Next]_vars

-----------------------------------------------------------------------------
\* The bitmap covers the pool, the cursor of pmm_alloc_contiguous stays in it.
TypeOK ==
  /\ bitmap \subseteq Page
  /\ last_idx \in Page
  /\ held \in [Client -> SUBSET Page]
  /\ last \in [op : {"init", "alloc", "contiguous", "low", "free"},
               count : 0 .. MaxCount, base : Page \cup {NoPage}]

\* The bitmap is exact: a bit is set for the kernel's pages and for the pages
\* some caller holds, and for no other page.  A page given out with its bit
\* clear would be given out again; a set bit nobody holds is a page lost.
BitmapExact == bitmap = Reserved \cup UNION {held[c] : c \in Client}

\* No page is in the hands of two callers, or of a caller and the kernel image,
\* whatever mix of single, contiguous and low allocations and frees came before.
NoSharedPage ==
  /\ \A c, d \in Client : c # d => held[c] \cap held[d] = {}
  /\ \A c \in Client : held[c] \cap Reserved = {}

\* pmm_alloc_low serves ISA DMA: the whole run it returns ends below the limit.
LowRunIsLow ==
  last.op = "low" /\ last.base # NoPage =>
     \A i \in Run(last.base, last.count) : i < LowPages

\* The page below which the whole run of a request must lie.
Limit(op) == IF op = "low" THEN LowPages ELSE TotalPages

\* A refusal is honest: when pmm_alloc or pmm_alloc_contiguous answers 0 there is
\* no free run of that length anywhere, wherever the cursor stands; when
\* pmm_alloc_low answers 0 there is none that ends below the DMA limit.
RefusalMeansNoRun ==
  last.op \in {"alloc", "contiguous", "low"} /\ last.base = NoPage =>
     \A b \in Page : b + last.count <= Limit(last.op)
                        => Run(b, last.count) \cap bitmap # {}

\* The allocator implements the abstract one.
Abstract == INSTANCE PageAllocator WITH Page <- Page \ Reserved
ImplementsPageAllocator == Abstract!Spec
=============================================================================
