------------------------------ MODULE ProcMem ------------------------------
(***************************************************************************)
(* The memory of processes: page tables (src/harlin/mem/vmm.c), the page   *)
(* fault handler (mem/page_fault.c), the memory calls of syscall.c and the *)
(* page records of the process table (proc/scheduler.c).                   *)
(*                                                                         *)
(* vmm_clone_kernel_pml4 copies the 512 entries of the top table, so all   *)
(* processes share the tables below it and there is one translation.  It   *)
(* starts as boot left it: the user addresses lie in 2 MB pages that map   *)
(* each address to itself, without VMM_USER.  A virtual page is a number:  *)
(* the user pages come first, then one page per slot for its kernel stack. *)
(* A stack stands for 4 pages, its spare for the fifth, a top table for    *)
(* the four pages of a clone.  Addresses are 64 bits wide and wrap: after  *)
(* the last virtual page comes the first.  One CPU, and a call runs to its *)
(* end.                                                                    *)
(***************************************************************************)
EXTENDS Integers, Sequences, FiniteSets, FiniteSetsExt, SequencesExt

CONSTANTS MAX_PROCESSES,
          UserPages,          \* pages from USER_ADDR_START to USER_ADDR_END
          AllocBase,          \* the user page where sys_alloc starts to search
          PT_ENTRIES,         \* pages of a region, 512
          PoolPages,          \* pages of the physical pool
          IdentBase,          \* pool index of the physical page at USER_ADDR_START
          MAX_PAGES,          \* entries of user_pages and user_vaddrs, 64
          ALLOC_MAX,          \* records with which sys_alloc gives up, 16
          MaxCall             \* bound: pages of a segment or a call that does not wrap

ASSUME ProcMemAssumption ==
  /\ {MAX_PROCESSES, UserPages, PT_ENTRIES, PoolPages, MAX_PAGES, ALLOC_MAX} \subseteq Nat \ {0}
  /\ UserPages % PT_ENTRIES = 0 /\ AllocBase \in 0 .. UserPages - 1
  /\ IdentBase \in 0 .. PoolPages - UserPages /\ MaxCall \in Nat

VARIABLES mem,                \* [free, pd, pd_user, table, pte, user]: pool, page tables
          live,               \* slots in use
          records,            \* user_vaddrs and user_pages, up to page_count
          next_alloc_virt,
          stack,              \* kernel_stack_pages_phys
          clones,             \* top tables; none is ever freed
          spoiled             \* history: see Spoils

vars == <<mem, live, records, next_alloc_virt, stack, clones, spoiled>>

Slot == 0 .. MAX_PROCESSES - 1
UserPage == 0 .. UserPages - 1

\* Mutated StackPage: the slot does not count.
StackPageShared(s) == UserPages

StackPage(s) == UserPages + s
VSpace == UserPages + MAX_PROCESSES
VPage == 0 .. VSpace - 1
Page == 0 .. PoolPages - 1
NoPage == -1
RegionOf(v) == v \div PT_ENTRIES
Region == {RegionOf(v) : v \in VPage}
Ident(v) == IdentBase + v

\* Boot has taken some of the pool; what is left is the upper part.
Init ==
  /\ \E k \in 0 .. IdentBase :
       mem = [free  |-> {p \in Page : p >= k},
              pd    |-> [r \in Region |-> IF r < RegionOf(UserPages) THEN "huge" ELSE "none"],
              pd_user |-> {},
              table |-> [r \in Region |-> NoPage],
              pte   |-> [v \in VPage |-> NoPage],
              user  |-> {}]
  /\ live = {} /\ clones = {} /\ spoiled = FALSE
  /\ records = [s \in Slot |-> <<>>]
  /\ next_alloc_virt = [s \in Slot |-> 0]
  /\ stack = [s \in Slot |-> NoPage]

-----------------------------------------------------------------------------
(* vmm.c and pmm.c as functions of the memory m.                           *)

pmm_alloc(m) == Min(m.free)
Taken(m, p) == [m EXCEPT !.free = @ \ {p}]
pmm_free(m, S) == [m EXCEPT !.free = @ \cup S]

vmm_get_phys(m, v) ==
  CASE m.pd[RegionOf(v)] = "none" -> NoPage
    [] m.pd[RegionOf(v)] = "huge" -> Ident(v)
    [] OTHER -> m.pte[v]

\* vmm_map fails only where it needs a page for a table.
CanMap(m, v) == m.pd[RegionOf(v)] = "table" \/ m.free # {}

\* Mutated Split: the other entries of the new table are left empty.
SplitEmpty(m, r) ==
  [m EXCEPT !.free = @ \ {pmm_alloc(m)}, !.pd[r] = "table", !.table[r] = pmm_alloc(m),
            !.pte = [v \in VPage |-> IF RegionOf(v) = r THEN NoPage ELSE m.pte[v]]]

\* A table in place of a 2 MB page or of nothing, with the same translation.
Split(m, r) ==
  [m EXCEPT !.free = @ \ {pmm_alloc(m)}, !.pd[r] = "table", !.table[r] = pmm_alloc(m),
            !.pte = [v \in VPage |-> IF RegionOf(v) = r THEN vmm_get_phys(m, v) ELSE m.pte[v]]]

WithFlag(S, x, flags) == IF "user" \in flags THEN S \cup {x} ELSE S \ {x}

\* VMM_USER of the directory entry is that of the first mapping in the table.
vmm_map(m, v, p, flags) ==
  LET r == RegionOf(v)
      t == IF m.pd[r] = "table" THEN m
           ELSE [Split(m, r) EXCEPT !.pd_user = WithFlag(@, r, flags)]
  IN  [t EXCEPT !.pte[v] = p, !.user = WithFlag(@, v, flags)]

\* What ring 3 reaches: VMM_USER in the directory entry and in the page's own.
Reachable(m, v) == v \in m.user /\ RegionOf(v) \in m.pd_user

\* A 2 MB page goes as a whole.
vmm_unmap(m, v) ==
  CASE m.pd[RegionOf(v)] = "none"  -> m
    [] m.pd[RegionOf(v)] = "huge"  -> [m EXCEPT !.pd[RegionOf(v)] = "none"]
    [] m.pd[RegionOf(v)] = "table" -> [m EXCEPT !.pte[v] = NoPage, !.user = @ \ {v}]

vmm_unmap_and_free(m, v) ==
  LET p == vmm_get_phys(m, v)
  IN  IF p = NoPage THEN m ELSE pmm_free(vmm_unmap(m, v), {p})

-----------------------------------------------------------------------------
(* Page records.                                                           *)

Records(s, v) == {i \in DOMAIN records[s] : records[s][i].v = v}

\* Mutated Record: without the test of page_count.
RecordAlways(list, v, p) == Append(list, [v |-> v, p |-> p])

Record(list, v, p) ==
  IF Len(list) < MAX_PAGES THEN Append(list, [v |-> v, p |-> p]) ELSE list

\* Mutated Forget: the last record goes instead of the one found.
ForgetLast(list, v) ==
  IF \E i \in DOMAIN list : list[i].v = v THEN Front(list) ELSE list

\* The first record of v.
Forget(list, v) ==
  LET found == {i \in DOMAIN list : list[i].v = v}
  IN  IF found = {} THEN list ELSE RemoveAt(list, Min(found))

\* Steps after which the books may be wrong: a load over pages that are on record
\* elsewhere, or of more pages than there are records left; a sys_mmap that fails
\* half way and keeps its records; an unmapping of a page of which the caller has
\* no record, or two; a fault at a page that is on record, or at a kernel stack.
Spoils(event) == spoiled' = (spoiled \/ event)

RecordedElsewhere(s, V) == \E q \in Slot \ {s} : \E v \in V : Records(q, v) # {}

-----------------------------------------------------------------------------
(* Processes.                                                              *)

FirstFree(s) == s \notin live /\ \A q \in Slot : q < s => q \in live

\* Stack, spare and top table, as the calls take them; the stack is mapped.
Opening(s) ==
  LET sp == pmm_alloc(mem)
      m1 == Taken(mem, sp)
      m2 == Taken(m1, pmm_alloc(m1))
      m3 == Taken(m2, pmm_alloc(m2))
  IN  [stack |-> sp, spare |-> pmm_alloc(m1), clone |-> pmm_alloc(m2), mem |-> m3]

CanOpen == Cardinality(mem.free) >= 3

\* The stack cannot be mapped: its pages are freed, the top table is not.
OpenFails(s) ==
  /\ FirstFree(s) /\ CanOpen
  /\ ~CanMap(Opening(s).mem, StackPage(s))
  /\ mem' = pmm_free(Opening(s).mem, {Opening(s).stack, Opening(s).spare})
  /\ clones' = clones \cup {Opening(s).clone}
  /\ UNCHANGED <<live, records, next_alloc_virt, stack, spoiled>>

process_create(s) ==
  LET o == Opening(s)
  IN  /\ FirstFree(s) /\ CanOpen /\ CanMap(o.mem, StackPage(s))
      /\ mem' = pmm_free(vmm_map(o.mem, StackPage(s), o.stack, {}), {o.spare})
      /\ live' = live \cup {s} /\ clones' = clones \cup {o.clone}
      /\ records' = [records EXCEPT ![s] = <<>>]
      /\ next_alloc_virt' = [next_alloc_virt EXCEPT ![s] = 0]
      /\ stack' = [stack EXCEPT ![s] = o.stack]
      /\ UNCHANGED spoiled

\* One page of the image.
elf_alloc_user_page_cb(l, v) ==
  LET p == pmm_alloc(l.mem)
      m1 == Taken(l.mem, p)
  IN  IF l.failed \/ l.mem.free = {} \/ v \notin UserPage \/ ~CanMap(m1, v)
      THEN [l EXCEPT !.failed = TRUE]
      ELSE [l EXCEPT !.mem = vmm_map(m1, v, p, {"user"}), !.list = Record(@, v, p)]

\* elf_load_exec asks for the first page of a segment, and then for every page
\* of it that has contents, the first one included.
Image(v, n) == <<v>> \o [i \in 1 .. n |-> v + i - 1]

\* The user stack lies outside the user addresses: vmm_map refuses its pages.
process_create_elf(s, v, n) ==
  LET o == Opening(s)
      mapped == vmm_map(o.mem, StackPage(s), o.stack, {})
      l == FoldLeft(elf_alloc_user_page_cb,
                    [mem |-> mapped, list |-> records[s], failed |-> FALSE], Image(v, n))
  IN  /\ FirstFree(s) /\ CanOpen /\ CanMap(o.mem, StackPage(s))
      /\ records' = [records EXCEPT ![s] = l.list]
      /\ clones' = clones \cup {o.clone}
      /\ Spoils(RecordedElsewhere(s, ToSet(Image(v, n))) \/ Len(records[s]) + n + 1 > MAX_PAGES)
      /\ \/ /\ l.failed
            /\ mem' = pmm_free(l.mem, {o.stack, o.spare})
            /\ UNCHANGED <<live, next_alloc_virt, stack>>
         \/ /\ ~l.failed
            /\ mem' = pmm_free(l.mem, {o.spare})
            /\ live' = live \cup {s}
            /\ next_alloc_virt' = [next_alloc_virt EXCEPT ![s] = AllocBase]
            /\ stack' = [stack EXCEPT ![s] = o.stack]

\* Mutated process_free_pages: the mappings stay.
FreePagesMapped(m, list) == pmm_free(m, {list[i].p : i \in DOMAIN list})

process_free_pages(m, list) ==
  pmm_free(FoldLeft(LAMBDA k, r : vmm_unmap(k, r.v), m, list), {list[i].p : i \in DOMAIN list})

process_exit(s) ==
  /\ s \in live /\ live' = live \ {s}
  /\ mem' = pmm_free(vmm_unmap(process_free_pages(mem, records[s]), StackPage(s)), {stack[s]})
  /\ records' = [records EXCEPT ![s] = <<>>]
  /\ stack' = [stack EXCEPT ![s] = NoPage]
  /\ UNCHANGED <<next_alloc_virt, clones, spoiled>>

-----------------------------------------------------------------------------
(* Memory calls.                                                           *)

After(v) == IF v + 1 >= UserPages THEN AllocBase ELSE v + 1

\* The search for a page without a translation, from next_alloc_virt round.
IsNextVirt(s, v) ==
  LET start == IF next_alloc_virt[s] < AllocBase THEN AllocBase ELSE next_alloc_virt[s]
      n == UserPages - AllocBase
      at(k) == AllocBase + ((start - AllocBase + k) % n)
  IN  \E k \in 0 .. n - 1 : /\ v = at(k) /\ vmm_get_phys(mem, v) = NoPage
                            /\ \A j \in 0 .. k - 1 : vmm_get_phys(mem, at(j)) # NoPage

sys_alloc(s) ==
  /\ s \in live /\ Len(records[s]) < ALLOC_MAX
  /\ \E v \in UserPage :
       /\ IsNextVirt(s, v)
       /\ next_alloc_virt' = [next_alloc_virt EXCEPT ![s] = After(v)]
       /\ IF mem.free = {} THEN UNCHANGED <<mem, records>>
          ELSE LET p == pmm_alloc(mem)
                   m1 == Taken(mem, p)
               IN  /\ mem' = IF CanMap(m1, v) THEN vmm_map(m1, v, p, {"user"}) ELSE m1
                   /\ records' = [records EXCEPT ![s] = Record(@, v, p)]
  /\ UNCHANGED <<live, stack, clones, spoiled>>

\* Ownership is by address; the page freed is the one mapped there now.
sys_free(s, v) ==
  /\ s \in live /\ vmm_get_phys(mem, v) # NoPage /\ Records(s, v) # {}
  /\ mem' = pmm_free(vmm_unmap(mem, v), {vmm_get_phys(mem, v)})
  /\ records' = [records EXCEPT ![s] = Forget(@, v)]
  /\ Spoils(Cardinality(Records(s, v)) > 1)
  /\ UNCHANGED <<live, next_alloc_virt, stack, clones>>

\* A page of sys_mmap; the result of vmm_map is not looked at.
MmapPage(l, v) ==
  LET p == pmm_alloc(l.mem)
      m1 == Taken(l.mem, p)
  IN  IF l.failed \/ l.mem.free = {} THEN [l EXCEPT !.failed = TRUE]
      ELSE [l EXCEPT !.mem = IF CanMap(m1, v) THEN vmm_map(m1, v, p, {"user"}) ELSE m1,
                     !.list = Record(@, v, p), !.done = @ + 1]

Run(v, n) == [i \in 1 .. n |-> (v + i - 1) % VSpace]

Unclaimed(v, n) == \A i \in 0 .. n - 1 : vmm_get_phys(mem, v + i) = NoPage

Mmap(s, v, n) ==
  FoldLeft(MmapPage, [mem |-> mem, list |-> records[s], done |-> 0, failed |-> FALSE], Run(v, n))

\* Mutated RollBack: the last page mapped is forgotten.
RollBackShort(m, v, n) == FoldLeft(vmm_unmap_and_free, m, Run(v, n - 1))

RollBack(m, v, n) == FoldLeft(vmm_unmap_and_free, m, Run(v, n))

sys_mmap(s, v, n) ==
  LET l == Mmap(s, v, n)
  IN  /\ s \in live /\ n > 0 /\ v + n <= UserPages /\ Unclaimed(v, n)
      /\ records' = [records EXCEPT ![s] = l.list]
      /\ mem' = IF l.failed THEN RollBack(l.mem, v, l.done) ELSE l.mem
      /\ Spoils(l.failed /\ l.done > 0)
      /\ UNCHANGED <<live, next_alloc_virt, stack, clones>>

\* Unlike sys_mmap it does not refuse a sum that wraps.
sys_munmap(s, v, n) ==
  /\ s \in live /\ (v + n) % VSpace <= UserPages
  /\ mem' = FoldLeft(vmm_unmap_and_free, mem, Run(v, n))
  /\ records' = [records EXCEPT ![s] = FoldLeft(Forget, @, Run(v, n))]
  /\ Spoils(\E w \in ToSet(Run(v, n)) : /\ vmm_get_phys(mem, w) # NoPage
                                        /\ Cardinality(Records(s, w)) # 1)
  /\ UNCHANGED <<live, next_alloc_virt, stack, clones>>

-----------------------------------------------------------------------------
(* Page faults of ring 3.  isr14_stub passes 0 for the error code, so that *)
(* every fault takes the way of an absent page, and of the kernel: also at *)
(* a page that is there, which the new one replaces, and without VMM_USER. *)
(* Harlin_PageFaultCowResolve is left to a self test.                      *)

Harlin_PageFaultDemandInstall(v, flags) ==
  LET m1 == Taken(mem, pmm_alloc(mem))
  IN  /\ mem.free # {} /\ CanMap(m1, v)
      /\ mem' = vmm_map(m1, v, pmm_alloc(mem), flags)

\* Without memory it panics.
Harlin_PageFaultHandler(v) ==
  /\ live # {} /\ ~Reachable(mem, v)
  /\ Harlin_PageFaultDemandInstall(v, {})
  /\ Spoils(\/ \E s \in Slot : Records(s, v) # {}
            \/ \E s \in live : v = StackPage(s))
  /\ UNCHANGED <<live, records, next_alloc_virt, stack, clones>>

\* After a step that spoils the books a page may belong to two owners, and the
\* kernel may overwrite its own tables: the model goes no further.
Next ==
  /\ ~spoiled
  /\ \/ \E s \in Slot : OpenFails(s) \/ process_create(s) \/ process_exit(s) \/ sys_alloc(s)
     \/ \E s \in Slot, v \in UserPage : sys_free(s, v)
     \/ \E s \in Slot, v \in UserPage, n \in 0 .. MaxCall :
          process_create_elf(s, v, n) \/ sys_mmap(s, v, n)
     \/ \E s \in Slot, v \in UserPage : \E n \in 0 .. MaxCall \cup {VSpace - v} :
          sys_munmap(s, v, n)
     \/ \E v \in VPage : Harlin_PageFaultHandler(v)

Spec == Init /\ [][Next]_vars

-----------------------------------------------------------------------------
(* Properties.                                                             *)

TypeOK ==
  /\ mem.free \subseteq Page /\ mem.user \subseteq UserPage
  /\ mem.pd \in [Region -> {"none", "huge", "table"}] /\ mem.pd_user \subseteq Region
  /\ mem.table \in [Region -> Page \cup {NoPage}]
  /\ mem.pte \in [VPage -> Page \cup {NoPage}]
  /\ live \subseteq Slot /\ clones \subseteq Page /\ spoiled \in BOOLEAN
  /\ \A s \in Slot : /\ Len(records[s]) <= MAX_PAGES
                     /\ \A i \in DOMAIN records[s] : records[s][i] \in [v : UserPage, p : Page]
  /\ next_alloc_virt \in [Slot -> 0 .. UserPages - 1]
  /\ stack \in [Slot -> Page \cup {NoPage}]

\* The holders of pages: tables, top tables, stacks and page records.
Holder ==
  [kind : {"table"}, at : {r \in Region : mem.table[r] # NoPage /\ mem.pd[r] = "table"}]
    \cup [kind : {"clone"}, at : clones]
    \cup [kind : {"stack"}, at : live]
    \cup [kind : {"record"}, at : UNION {{<<s, i>> : i \in DOMAIN records[s]} : s \in Slot}]

Held(h) ==
  CASE h.kind = "table"  -> mem.table[h.at]
    [] h.kind = "clone"  -> h.at
    [] h.kind = "stack"  -> stack[h.at]
    [] h.kind = "record" -> records[h.at[1]][h.at[2]].p

\* The books are exact: no page that a page table, a kernel stack or a page record
\* holds is free or held twice, and none that ring 3 can reach is free
\* (pmm_free in process_exit, sys_free, sys_munmap and on every failure path).
\* The exceptions are the steps that Spoils names.
BooksExact ==
  ~spoiled => /\ \A h \in Holder : Held(h) \notin mem.free
              /\ \A h, k \in Holder : Held(h) = Held(k) => h = k
              /\ \A v \in mem.user : mem.pte[v] \notin mem.free

\* What a process has on record for an address is mapped there, the latest if it
\* is on record twice: sys_free, which goes by address, frees the caller's page.
RecordsTrue ==
  ~spoiled => \A s \in Slot : \A i \in DOMAIN records[s] :
                LET v == records[s][i].v
                IN  records[s][Max(Records(s, v))].p = vmm_get_phys(mem, v)

\* A process in the table has its own kernel stack behind its stack addresses,
\* whatever the other processes map, unmap, free or leave behind when they exit
\* (process_free_kernel_stack).  Two of the steps that Spoils names end it: a
\* sys_munmap whose size wraps, and a fault at the address of a kernel stack.
StackMapped == ~spoiled => \A s \in live : vmm_get_phys(mem, StackPage(s)) = stack[s]

\* Loading an image changes no translation but those of the image and of the
\* kernel stack: the 2 MB page that vmm_map splits keeps its other 511 pages.
LoadLocal ==
  [][\A s \in Slot, v \in UserPage, n \in 0 .. MaxCall :
       process_create_elf(s, v, n) =>
         \A w \in VPage \ (ToSet(Image(v, n)) \cup {StackPage(s)}) :
            vmm_get_phys(mem', w) = vmm_get_phys(mem, w)]_vars

\* A sys_mmap that fails leaves every translation as it found it.
MmapAllOrNothing ==
  [][\A s \in Slot, v \in UserPage, n \in 1 .. MaxCall :
       sys_mmap(s, v, n) /\ Mmap(s, v, n).failed =>
         \A w \in VPage : vmm_get_phys(mem', w) = vmm_get_phys(mem, w)]_vars

\* Demand paging serves the process that faults: when the handler returns from a
\* fault of ring 3 at an unmapped user page, ring 3 reaches that page.
FaultServed ==
  [][\A v \in UserPage : vmm_get_phys(mem, v) = NoPage /\ Harlin_PageFaultHandler(v)
                           => Reachable(mem', v)]_vars
=============================================================================
