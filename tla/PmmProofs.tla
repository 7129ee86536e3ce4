----------------------------- MODULE PmmProofs -----------------------------
(***************************************************************************)
(* The page allocator's bookkeeping is exact for every number of pages,    *)
(* clients and requests, and the allocator implements PageAllocator.       *)
(***************************************************************************)
EXTENDS Pmm, TLAPS

\* What an allocation of the run b .. b+n-1 may rely on.
Grant(b, n) == /\ b \in Page
               /\ n \in 1 .. MaxCount
               /\ Run(b, n) \subseteq Page
               /\ Run(b, n) \cap bitmap = {}

\* The scans look at pages only, and a run they accept is free and inside.
LEMMA FitsGrant ==
  ASSUME NEW cur \in Nat, NEW n \in 1 .. MaxCount, NEW b \in Fits(cur, n)
  PROVE  Grant(b, n)
<1>1. b \in Page
  BY PmmAssumption DEF Fits, Scanned, Page
<1>2. b + n <= TotalPages /\ Run(b, n) \cap bitmap = {}
  BY DEF Fits
<1>3. Run(b, n) \subseteq Page
  BY <1>1, <1>2, PmmAssumption DEF Run, Page
<1> QED BY <1>1, <1>2, <1>3 DEF Grant

IndInv == TypeOK /\ BitmapExact /\ NoSharedPage /\ LowRunIsLow /\ RefusalMeansNoRun

\* total is a multiple of 8, so the scans cover every page.
LEMMA ScansCoverAll == Scanned = Page
BY PmmAssumption DEF Scanned, Page

\* A scan from 0 that finds nothing has seen that there is no run below the limit.
LEMMA RefuseHonest ==
  ASSUME NEW op, NEW n \in 1 .. MaxCount, Refuse(op, n),
         IF op = "low" THEN LowFits(n) = {} ELSE Fits(0, n) = {}
  PROVE  RefusalMeansNoRun'
<1>1. ASSUME NEW b \in Page, b + n <= Limit(op), Run(b, n) \cap bitmap = {}
      PROVE  FALSE
  <2>1. b + n <= TotalPages
    BY <1>1, PmmAssumption DEF Limit, Page
  <2>2. b \in Fits(0, n)
    BY <1>1, <2>1, ScansCoverAll, PmmAssumption DEF Fits, Page
  <2>3. CASE op = "low"
    <3>1. \A i \in Run(b, n) : i < LowPages
      BY <1>1, <2>3, PmmAssumption DEF Limit, Run, Page
    <3> QED BY <2>2, <2>3, <3>1 DEF LowFits
  <2> QED BY <2>2, <2>3
<1>2. last'.count = n /\ last'.op = op /\ bitmap' = bitmap
  BY DEF Refuse
<1> QED BY <1>1, <1>2 DEF RefusalMeansNoRun, Limit, Run, Page

\* A grant is not a refusal.
LEMMA GiveHonest ==
  ASSUME NEW c, NEW op, NEW b, NEW n, Grant(b, n), Give(c, op, b, n)
  PROVE  RefusalMeansNoRun'
<1>1. last'.base = b /\ b # NoPage
  BY PmmAssumption DEF Give, Grant, Page, NoPage
<1> QED BY <1>1 DEF RefusalMeansNoRun

\* A grant to c keeps the books exact.
LEMMA GiveStep ==
  ASSUME TypeOK, BitmapExact, NoSharedPage,
         NEW c \in Client, NEW op \in {"alloc", "contiguous", "low"},
         NEW b, NEW n, Grant(b, n), Give(c, op, b, n)
  PROVE  /\ bitmap' \subseteq Page
         /\ held' \in [Client -> SUBSET Page]
         /\ last' \in [op : {"init", "alloc", "contiguous", "low", "free"},
                       count : 0 .. MaxCount, base : Page \cup {NoPage}]
         /\ BitmapExact'
         /\ NoSharedPage'
<1>1. /\ bitmap' = bitmap \cup Run(b, n)
      /\ held' = [held EXCEPT ![c] = @ \cup Run(b, n)]
      /\ last' = [op |-> op, count |-> n, base |-> b]
  BY DEF Give
<1>2. held \in [Client -> SUBSET Page]
  BY DEF TypeOK
<1>3. \A d \in Client : held'[d] = IF d = c THEN held[d] \cup Run(b, n) ELSE held[d]
  BY <1>1, <1>2
<1>4. Run(b, n) \cap Reserved = {} /\ \A d \in Client : held[d] \cap Run(b, n) = {}
  BY DEF BitmapExact, Grant
<1>5. BitmapExact'
  BY <1>1, <1>3 DEF BitmapExact, Reserved
<1>6. NoSharedPage'
  BY <1>3, <1>4 DEF NoSharedPage, Reserved
<1>7. held' \in [Client -> SUBSET Page]
  BY <1>1, <1>2 DEF Grant
<1>8. last' \in [op : {"init", "alloc", "contiguous", "low", "free"},
                 count : 0 .. MaxCount, base : Page \cup {NoPage}]
  BY <1>1, PmmAssumption DEF Grant
<1> QED BY <1>1, <1>5, <1>6, <1>7, <1>8 DEF Grant, TypeOK

\* A refusal leaves the books alone.
LEMMA RefuseStep ==
  ASSUME TypeOK, BitmapExact, NoSharedPage,
         NEW op \in {"alloc", "contiguous", "low"},
         NEW n \in 1 .. MaxCount, Refuse(op, n)
  PROVE  /\ bitmap' \subseteq Page
         /\ held' \in [Client -> SUBSET Page]
         /\ last' \in [op : {"init", "alloc", "contiguous", "low", "free"},
                       count : 0 .. MaxCount, base : Page \cup {NoPage}]
         /\ BitmapExact'
         /\ NoSharedPage'
BY PmmAssumption DEF Refuse, TypeOK, BitmapExact, NoSharedPage, Reserved, NoPage

LEMMA InitInv == Init => IndInv
<1> SUFFICES ASSUME Init PROVE IndInv OBVIOUS
<1>1. TypeOK
  BY PmmAssumption DEF Init, TypeOK, Reserved, Page, NoPage
<1>2. BitmapExact
  BY DEF Init, BitmapExact
<1>3. NoSharedPage /\ LowRunIsLow /\ RefusalMeansNoRun
  BY DEF Init, NoSharedPage, LowRunIsLow, RefusalMeansNoRun
<1> QED BY <1>1, <1>2, <1>3 DEF IndInv

LEMMA StepInv == IndInv /\ [Next]_vars => IndInv'
<1> SUFFICES ASSUME IndInv, [Next]_vars PROVE IndInv' OBVIOUS
<1> USE DEF IndInv
<1>1. ASSUME NEW c \in Client, pmm_alloc(c) PROVE IndInv'
  <2>1. CASE \E b \in Scanned : IsFirst(b, Fits(0, 1)) /\ Give(c, "alloc", b, 1)
    <3>1. PICK b \in Scanned : IsFirst(b, Fits(0, 1)) /\ Give(c, "alloc", b, 1)
      BY <2>1
    <3>2. Grant(b, 1)
      BY <3>1, FitsGrant, PmmAssumption DEF IsFirst
    <3>3. last'.op = "alloc"
      BY <3>1 DEF Give
    <3> QED BY <1>1, <3>1, <3>2, <3>3, GiveStep, GiveHonest DEF TypeOK, LowRunIsLow, pmm_alloc
  <2>2. CASE Fits(0, 1) = {} /\ Refuse("alloc", 1)
    <3>1. last'.op = "alloc"
      BY <2>2 DEF Refuse
    <3> QED BY <1>1, <2>2, <3>1, RefuseStep, RefuseHonest, PmmAssumption
            DEF TypeOK, LowRunIsLow, pmm_alloc
  <2> QED BY <1>1, <2>1, <2>2 DEF pmm_alloc
<1>2. ASSUME NEW c \in Client, NEW n \in 1 .. MaxCount, pmm_alloc_contiguous(c, n)
      PROVE  IndInv'
  <2> DEFINE pass == IF Fits(last_idx, n) # {} THEN Fits(last_idx, n) ELSE Fits(0, n)
  <2>1. CASE \E b \in Scanned : /\ IsFirst(b, pass)
                                /\ Give(c, "contiguous", b, n)
                                /\ last_idx' = (b + n) % TotalPages
    <3>1. PICK b \in Scanned : /\ IsFirst(b, pass)
                               /\ Give(c, "contiguous", b, n)
                               /\ last_idx' = (b + n) % TotalPages
      BY <2>1
    <3>2. Grant(b, n)
      <4>1. last_idx \in Nat
        BY PmmAssumption DEF TypeOK, Page
      <4>2. b \in Fits(last_idx, n) \/ b \in Fits(0, n)
        BY <3>1 DEF IsFirst
      <4> QED BY <4>1, <4>2, FitsGrant
    <3>3. last'.op = "contiguous"
      BY <3>1 DEF Give
    <3>4. last_idx' \in Page
      BY <3>1, <3>2, PmmAssumption DEF Grant, Page
    <3> QED BY <3>1, <3>2, <3>3, <3>4, GiveStep, GiveHonest DEF TypeOK, LowRunIsLow
  <2>2. CASE pass = {} /\ Refuse("contiguous", n) /\ UNCHANGED last_idx
    <3>1. last'.op = "contiguous" /\ Fits(0, n) = {}
      BY <2>2 DEF Refuse
    <3> QED BY <2>2, <3>1, RefuseStep, RefuseHonest DEF TypeOK, LowRunIsLow
  <2> QED BY <1>2, <2>1, <2>2 DEF pmm_alloc_contiguous
<1>3. ASSUME NEW c \in Client, NEW n \in 1 .. MaxCount, pmm_alloc_low(c, n)
      PROVE  IndInv'
  <2>1. CASE \E b \in Scanned : IsFirst(b, LowFits(n)) /\ Give(c, "low", b, n)
    <3>1. PICK b \in Scanned : IsFirst(b, LowFits(n)) /\ Give(c, "low", b, n)
      BY <2>1
    <3>2. b \in Fits(0, n) /\ \A i \in Run(b, n) : i < LowPages
      BY <3>1 DEF IsFirst, LowFits
    <3>3. Grant(b, n)
      BY <3>2, FitsGrant
    <3>4. LowRunIsLow'
      BY <3>1, <3>2 DEF Give, LowRunIsLow
    <3> QED BY <1>3, <3>1, <3>3, <3>4, GiveStep, GiveHonest DEF TypeOK, pmm_alloc_low
  <2>2. CASE LowFits(n) = {} /\ Refuse("low", n)
    <3>1. last'.base = NoPage /\ last'.op = "low"
      BY <2>2 DEF Refuse
    <3> QED BY <1>3, <2>2, <3>1, RefuseStep, RefuseHonest
            DEF TypeOK, LowRunIsLow, pmm_alloc_low
  <2> QED BY <1>3, <2>1, <2>2 DEF pmm_alloc_low
<1>4. ASSUME NEW c \in Client, NEW p \in Page, pmm_free(c, p) PROVE IndInv'
  <2>1. /\ p \in held[c]
        /\ bitmap' = bitmap \ {p}
        /\ last_idx' = last_idx
        /\ last' = [op |-> "free", count |-> 0, base |-> NoPage]
    BY <1>4 DEF pmm_free
  <2>2. \A d \in Client : held'[d] = IF d = c THEN held[d] \ {p} ELSE held[d]
    BY <1>4 DEF pmm_free, TypeOK
  <2>3. TypeOK'
    BY <1>4, <2>1, PmmAssumption DEF pmm_free, TypeOK, NoPage
  <2>4. p \notin Reserved /\ \A d \in Client : d # c => p \notin held[d]
    BY <2>1 DEF NoSharedPage
  <2>5. UNION {held'[d] : d \in Client} = (UNION {held[d] : d \in Client}) \ {p}
    BY <2>2, <2>4
  <2>6. BitmapExact'
    BY <2>1, <2>4, <2>5 DEF BitmapExact, Reserved
  <2>7. NoSharedPage'
    BY <2>2 DEF NoSharedPage, Reserved
  <2> QED BY <2>1, <2>3, <2>6, <2>7 DEF LowRunIsLow, RefusalMeansNoRun
<1>5. CASE UNCHANGED vars
  BY <1>5 DEF vars, TypeOK, BitmapExact, NoSharedPage, LowRunIsLow,
              RefusalMeansNoRun, Limit, Reserved, Run, Page
<1> QED BY <1>1, <1>2, <1>3, <1>4, <1>5 DEF Next

\* Every reachable state of pmm.c's allocator is well typed.
THEOREM PmmType == Spec => []TypeOK
<1>1. Init => IndInv
  BY InitInv
<1>2. IndInv /\ [Next]_vars => IndInv'
  BY StepInv
<1>3. IndInv => TypeOK
  BY DEF IndInv
<1> QED BY <1>1, <1>2, <1>3, PTL DEF Spec

\* The bitmap is exact: the set bits are the kernel's pages and the pages held by
\* callers of pmm_alloc, pmm_alloc_contiguous and pmm_alloc_low.
THEOREM PmmBitmapExact == Spec => []BitmapExact
<1>1. Init => IndInv
  BY InitInv
<1>2. IndInv /\ [Next]_vars => IndInv'
  BY StepInv
<1>3. IndInv => BitmapExact
  BY DEF IndInv
<1> QED BY <1>1, <1>2, <1>3, PTL DEF Spec

\* No page is ever in two hands.
THEOREM PmmNoSharedPage == Spec => []NoSharedPage
<1>1. Init => IndInv
  BY InitInv
<1>2. IndInv /\ [Next]_vars => IndInv'
  BY StepInv
<1>3. IndInv => NoSharedPage
  BY DEF IndInv
<1> QED BY <1>1, <1>2, <1>3, PTL DEF Spec

\* Every run pmm_alloc_low returns ends below the ISA DMA limit.
THEOREM PmmLowRunIsLow == Spec => []LowRunIsLow
<1>1. Init => IndInv
  BY InitInv
<1>2. IndInv /\ [Next]_vars => IndInv'
  BY StepInv
<1>3. IndInv => LowRunIsLow
  BY DEF IndInv
<1> QED BY <1>1, <1>2, <1>3, PTL DEF Spec

\* pmm_alloc and pmm_alloc_contiguous refuse only when no free run of the length
\* asked for is left, pmm_alloc_low only when none is left below the DMA limit.
THEOREM PmmRefusalMeansNoRun == Spec => []RefusalMeansNoRun
<1>1. Init => IndInv
  BY InitInv
<1>2. IndInv /\ [Next]_vars => IndInv'
  BY StepInv
<1>3. IndInv => RefusalMeansNoRun
  BY DEF IndInv
<1> QED BY <1>1, <1>2, <1>3, PTL DEF Spec

\* A grant is an Acquire of the abstract allocator.
LEMMA GiveRefines ==
  ASSUME TypeOK, BitmapExact, NEW c \in Client, NEW op, NEW b, NEW n,
         Grant(b, n), Give(c, op, b, n)
  PROVE  Abstract!Acquire(c)
<1>1. Run(b, n) \in SUBSET Abstract!Free
  BY DEF Abstract!Free, Grant, BitmapExact
<1>2. Run(b, n) # {}
  <2>1. b \in Run(b, n)
    BY PmmAssumption DEF Grant, Run, Page
  <2> QED BY <2>1
<1> QED BY <1>1, <1>2 DEF Abstract!Acquire, Give

\* Every step of the allocator is a step of the abstract one, or changes no holding.
LEMMA StepRefines ==
  ASSUME IndInv, [Next]_vars
  PROVE  [Abstract!Next]_held
<1> USE DEF IndInv
<1>1. ASSUME NEW c \in Client, pmm_alloc(c) PROVE [Abstract!Next]_held
  <2>1. ASSUME NEW b \in Scanned, IsFirst(b, Fits(0, 1)), Give(c, "alloc", b, 1)
        PROVE  [Abstract!Next]_held
    BY <2>1, FitsGrant, GiveRefines, PmmAssumption DEF IsFirst, Abstract!Next
  <2> QED BY <1>1, <2>1 DEF pmm_alloc, Refuse
<1>2. ASSUME NEW c \in Client, NEW n \in 1 .. MaxCount, pmm_alloc_contiguous(c, n)
      PROVE  [Abstract!Next]_held
  <2>1. ASSUME NEW b \in Fits(last_idx, n) \cup Fits(0, n),
               Give(c, "contiguous", b, n)
        PROVE  [Abstract!Next]_held
    <3>1. last_idx \in Nat
      BY PmmAssumption DEF TypeOK, Page
    <3>2. Grant(b, n)
      BY <3>1, FitsGrant
    <3> QED BY <2>1, <3>2, GiveRefines DEF Abstract!Next
  <2> QED BY <1>2, <2>1 DEF pmm_alloc_contiguous, IsFirst, Refuse
<1>3. ASSUME NEW c \in Client, NEW n \in 1 .. MaxCount, pmm_alloc_low(c, n)
      PROVE  [Abstract!Next]_held
  <2>1. ASSUME NEW b \in Scanned, IsFirst(b, LowFits(n)), Give(c, "low", b, n)
        PROVE  [Abstract!Next]_held
    <3>1. b \in Fits(0, n)
      BY <2>1 DEF IsFirst, LowFits
    <3> QED BY <2>1, <3>1, FitsGrant, GiveRefines DEF Abstract!Next
  <2> QED BY <1>3, <2>1 DEF pmm_alloc_low, Refuse
<1>4. ASSUME NEW c \in Client, NEW p \in Page, pmm_free(c, p)
      PROVE  [Abstract!Next]_held
  BY <1>4 DEF pmm_free, Abstract!Next, Abstract!Release
<1>5. CASE UNCHANGED vars
  BY <1>5 DEF vars
<1> QED BY <1>1, <1>2, <1>3, <1>4, <1>5 DEF Next

\* pmm.c implements the abstract page allocator: whatever the scan order and the
\* cursor, a caller is only ever given pages nobody holds, and keeps them.
THEOREM PmmImplements == Spec => ImplementsPageAllocator
<1>1. Init => Abstract!Init
  BY DEF Init, Abstract!Init
<1>2. Init => IndInv
  BY InitInv
<1>3. IndInv /\ [Next]_vars => IndInv'
  BY StepInv
<1>4. IndInv /\ [Next]_vars => [Abstract!Next]_held
  BY StepRefines
<1> QED BY <1>1, <1>2, <1>3, <1>4, PTL DEF Spec, ImplementsPageAllocator, Abstract!Spec
=============================================================================
