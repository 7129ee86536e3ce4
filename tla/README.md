# A TLA+ verification of the HarLin kernel

HarLin is a small x86_64 kernel in C and assembly (`src/src/`). This directory
holds TLA+ models of its parts, the TLC runs that check them on small
instances, and proofs, checked by TLAPS, of what holds for every size. File
names below are relative to `src/src/`; the documents are under `src/docs/`.

## 1. The system

| Part | Source | State | Operations |
|---|---|---|---|
| Physical memory | `harlin/mem/pmm.c` | page bitmap, search cursor | `pmm_alloc`, `_contiguous`, `_low`, `pmm_free` |
| Page tables, faults | `harlin/mem/vmm.c`, `page_fault.c` | 4-level tables; the low half is shared by all processes | map, unmap, clone, copy to and from user, demand and copy-on-write faults |
| Heap, slab pools | `harlin/mem/kmalloc.c`, `slab.c` | block list; pools of fixed-size slots | `kmalloc`, `kfree`, `krealloc`; pool alloc and free |
| Processes | `harlin/proc/scheduler.c` | process table, per-CPU current process, tick counter, wait lists | create, load, fork, exit, sleep, block, wake, yield, `schedule`, `timer_handler` |
| Pipes | `harlin/proc/pipe.c` | ring buffer, ends, two wait lists, a lock | create, read, write (and blocking forms), close |
| Messages, semaphores | `harlin/proc/ipc.c` | message array, blocked lists; counts | send, receive by type, destroy; wait, post, destroy |
| Exit codes | `harlin/proc/wait.c` | table of exit records | notify, wait, wait for any |
| Events, ELF, exec, shell | `harlin/proc/*.c` | event rings; program images | send, poll, mask; load; commands |
| In-memory files, versions | `harlin/fs/mem_fs.c`, `cow_fs.c`, `path_walk.c` | node pool; version slots | mkdir, create, remove, write; snapshot, write, fork |
| Read cache | `harlin/fs/page_cache.c` | slots with an age and a page | get, put, drop |
| FAT32, partitions | `harlin/fs/fat32.c`, `partition.c` | FAT, directories on disk | read, write, create, delete, mkdir, rmdir |
| Network | `harlin/net/network.c` | ARP cache, connections, DHCP lease | ARP, IP, ICMP, UDP, TCP, DHCP, DNS, HTTP |
| System calls | `harlin/syscall/*.c` | none of its own | dispatch to the parts above |
| Core | `harlin/core/*.c`, `asm/core/*` | IDT, GDT, locks, per-CPU data | interrupts, spinlocks, start of the other CPUs |
| Drivers, display, boot | `harlin/drv`, `harlin/gpu`, `boot`, `uefi` | device registers | register-level input and output |

How they interact, and what is hard:

* A system call enters through a trap gate, with interrupts on. The timer
  interrupt can therefore end a slice at almost any instruction of the kernel.
  It saves the interrupted frame as the context of the current process, and the
  process is later resumed in ring 3 there, also if "there" was kernel code.
* `schedule()` does not return. A process that blocks inside a call is resumed
  in user code, at the rip of the last tick, and never finishes the call. Pipes,
  queues and semaphores are built on this.
* `process_create_elf` reserves a slot, drops the lock, loads for a long time,
  and takes the lock again. Wait lists hold pids, which are slot numbers and are
  reused.
* The pipe calls look at `used` before they take the lock, enter a wait list
  under it, and block after releasing it.
* Pools, tables and lists are fixed: the interesting cases are the full table,
  the wrapped index and the slot that is used a second time.
* Files of the in-memory file system are linked by node numbers that are
  reused, and versions of a file belong to the number, not to the file.

## 2. Modules

| Module | Models | Abstract specification | Proofs |
|---|---|---|---|
| `Pmm` | `pmm.c` | `PageAllocator` | `PmmProofs` |
| `ProcMem` | `vmm.c`, `page_fault.c`, process memory in `scheduler.c`, the memory calls of `syscall.c` | – | – |
| `Scheduler`, `SchedulerFairness` | `scheduler.c`, the lock of `spinlock.c`, the timer path | – | `SchedulerProofs` |
| `Pipe` | `pipe.c` | `BoundedFifo` | `PipeProofs` |
| `MsgQueue`, `Semaphore`, `Ipc` | `ipc.c` | `BoundedFifo` (queue) | – |
| `MemFs`, `CowFs` | `mem_fs.c`, `path_walk.c`, `cow_fs.c` | `FileTree` | – |
| `WaitTable` | `wait.c` | `ExitRecord` | `WaitTableProofs` |
| `ReadCache`, `Tables` | `page_cache.c` | – | – |

Variables carry the names of the C variables and fields, actions the names of
the functions; what C code does in one uninterruptible stretch is one action. A
function that gives up a lock, blocks, or reads shared state before it locks is
split there, and its parts are named after it. Definitions whose comment begins
"Mutated" are deliberately wrong variants of the definition that follows them:
replacing the definition by one of them must make TLC report the property that
guards it, which shows that the property depends on that code.

**Composition by a selector.** `Ipc`, `CowFs` and `Tables` put parts with
no common state, or one part under two kinds of use, into one specification
with a variable (`uses`, `versioned`, `wants`) that is chosen initially and
never changes. A behaviour then exercises one of them. Nothing is lost: a
behaviour of two parts without common state, seen through the variables of one
of them, is a behaviour of that part with stuttering steps, and each property
is about the variables of one part.

### Pmm
A page is its index above `PMM_BASE_ADDR`; `bitmap` is the set of set bits. Each
call holds `pmm_lock` throughout and is one action. The three scans are modelled
by where they may start and which candidate they take first; the scan limit
`total/8` is kept, and so is the static cursor of `pmm_alloc_contiguous`.
`held` records what each caller has been given. Callers free only pages they
hold.

### ProcMem
`vmm_clone_kernel_pml4` copies the top table entry by entry, so processes share
every table below it; the model has one translation, of user pages and one
kernel stack page per slot. Virtual pages form a circle, as 64-bit addresses do:
`sys_munmap`, unlike `sys_mmap`, accepts a size that wraps. A region is a 2 MB page, a table or nothing. The
functions of `vmm.c` are functions of the record `mem`, and a call is their
composition in the order of the code; calls run to their end on one CPU. A
kernel stack, the spare page next to it and a clone of the top table are one
page each. The user stack of an image lies at `0x7FFFF000`, outside the range in
which `vmm_map` accepts `VMM_USER`: its pages are always refused, and the model
leaves them out. `elf_load_exec` asks twice for the first page of every segment,
so an image leaves two records of that address. Segments are page aligned. The
temporary mapping window of `vmm.c` is assumed to work (its address, like that of
the self map, is not canonical for four-level paging). `Harlin_Fork`, which only a
self test calls, is left out.

Ring 3 reaches a page if its own entry and the entry of its table have `VMM_USER`;
`vmm_map` gives the second one when it makes the table and never again. Any other
access of ring 3 faults. `isr14_stub` passes 0 as the error code, so every fault
takes the branch of `Harlin_PageFaultHandler` for absent pages and of the kernel:
it installs a page without `VMM_USER`, also over a page that is there.
`Harlin_PageFaultCowResolve` is reached by a boot self test only and is left out, as
are faults of the kernel itself.

`spoiled` marks the steps after which two owners may believe a page theirs (they
are listed below); the model ends there, since the kernel may from then on
overwrite its own tables.

### Scheduler
Each CPU is at a control point `at[c]` in the code of `who[c]`; the header of the
module lists the points. `timer_handler` is one action (it runs with interrupts
off) that wakes sleepers, charges the tick and either keeps, switches or
installs a process. `schedule()` is split at the points where it can be
interrupted. `rip[p]` abstracts the saved instruction pointer to what the
properties distinguish: entry point, last user instruction, one already passed,
kernel code. `tick_count`, `sleep_until` and `fair_key` wrap. Only CPU 0
receives timer interrupts; other CPUs only leave their loop when sent an IPI,
which nothing in the kernel does after boot, so the runs use one CPU. What a
tick inside the holder of `scheduler_lock` does (the lock is never released,
because the process is resumed in ring 3) is part of the model.

### Pipe
One slot of `pipe_table`. Every unlocked look, lock acquisition, byte copied and
release is a step of its own, for any number of processes. `Spec` interleaves them
freely, which is more than the one CPU that runs processes does and is what the
safety properties and proofs are about; `OneCpuSpec` lets one call at a time
proceed. `Lockable` models that `spinlock_acquire` compares 64 bits although the
lock has 32: the other half is `read_waiters[0]`.

### MsgQueue, Semaphore, Ipc
`ipc.c` takes no lock. A call is one action, on the assumption that a slice does
not end inside it; `Scheduler` models the other case, which loses the process
whatever the call was. Processes that block are resumed in user code. In
`Semaphore` each process runs the pattern of the tutorial, wait – section – post
without a look at the results (`实践.md:498`), and `saved[p]` is the instruction the
last tick recorded. A wait that returns -1, on a destroyed slot or with a full
list, therefore goes on into the section. A slot may be created again while users
of its former semaphore are in their sections. `holder` has the processes with a
unit of the present semaphore, `astray` those in their sections without one for
one of these reasons, and `made` counts the units that such processes post.

### MemFs, CowFs
The node pool with its sibling lists, and the version slots. A path is a sequence
of segments; `Harlin_PathParse` keeps the first eight (here two) and drops the
rest. All calls come from the boot thread. `resolve_parent_create` returns a
pointer into its own frame (`mem_fs.c:96`); the model takes the name read through
it as intact. In `CowFs` a version's text is its number modulo `VER_NAMES`.

### WaitTable, ReadCache
Sequential tables, called from the boot thread. `WaitTable` keeps the `reaped`
mark and the reuse of slots; `ReadCache` keeps the replacement by age, the page
field that a drop leaves behind and the mapping window that wraps.

## 3. Runs

| Run | Bounds | Result |
|---|---|---|
| `pmm` | 8 pages (one bitmap byte), 3 of the kernel, 2 callers, runs of up to 3 | `BitmapExact`, `NoSharedPage`, `LowRunIsLow`, `RefusalMeansNoRun`, implements `PageAllocator` |
| `procmem` | 2 processes, 2 regions of 2 pages for images, 8 physical pages of which 4 also lie at user addresses, 2 records | `BooksExact`, `RecordsTrue`, `StackMapped`, `LoadLocal`, `MmapAllOrNothing` |
| `procmem_fault` | the same | violated: the page that demand paging installs for a process is out of its reach |
| `scheduler` | 2 processes, slice of 2 ticks, 5 ticks, tick counter modulo 6 | `OnCpu`, `RunningIsCurrent`, `CurrentLive`, `LoadingReserved`, `BoundedWait` |
| `scheduler_ring` | the same | violated: a process continues in ring 3 at a kernel address |
| `pipe` | 2 processes (one of them pid 0), buffer of 3, lists of 2, 2 byte values | `SpaceExact`, `WaitersCounted`, implements `BoundedFifo` |
| `pipe_write` | 2 processes on one CPU, with fairness | violated: a reader asleep in entry 0 is not woken, since the write never gets the lock |
| `ipc` | 3 processes, 2 types, queue of 3, lists of 2, 5 messages; 4 processes at a semaphore | `AtMostOnce`, both `SleepersListed`, `UnitsConserved`, `PassesWithUnit`; implements `BoundedFifo` if no type is asked for |
| `ipc_loss` | the same | violated: a receive by type loses the message at the head |
| `cowfs` | 4 nodes, 2 names, 2 segments kept of 3; 3 version slots, names repeat after 3 | `ListsSound`, implements `FileTree`; `NamesDistinct`, `ForkClones`, `Isolation` |
| `cowfs_stale` | the same | violated: a write that expects an old version is carried out |
| `tables` | 4 children, 3 exit slots, 2 codes; 3 cache slots, 4 pages, window of 2 | `OneRecord`, implements `ExitRecord`; `PagesOwned`, `RecentHitSurvives` |

Each bound is the smallest at which the case of interest happens: one slot fewer
than there are users, an index that wraps, a counter that passes its modulus, a
list that overflows. In `procmem` the pool is too small for two full processes, so
that every allocation also fails. `CHECK_DEADLOCK FALSE` stands where the system may really
stop: all users of a pipe, queue or semaphore asleep, a bounded counter
(`MaxTick`, `MaxSent`) used up, or, in `ProcMem`, the books spoiled or the pool
used up by the clones that are never freed.

`BoundedWait` is the starvation question stated as a safety property: a ready
process is passed over for at most the ticks by which the keys of the others are
behind its own plus one slice each. Processes created meanwhile start with key 0
and add to the debt; that is what the code does, and a stream of new processes
can starve an old one. `ReaderWoken` is the one liveness property. In `OneCpuSpec`
one process at a time is in a call, so no other call competes for the lock, and
the fairness, `WF` of the steps of that call, says only that the CPU goes on
executing the code it is in (a slice that ends inside the call is left to
`Scheduler`). The violation is thus not one of fairness: with a lock that compares
its own 32 bits (`Lockable` as `lock = NoPid`) TLC finds that `ReaderWoken` holds in
the same instance.

`BooksExact`, `RecordsTrue` and `StackMapped` hold up to the first of the steps that
`Spoils` names (listed below) and claim nothing after it. `UnitsConserved` and
`PassesWithUnit` are stated for positive initial counts, in every order of calls,
ticks, destructions and creations; a count of 0 is one of the cases below.

`LoadingReserved`, `OnCpu` and `RunningIsCurrent` are stated for one CPU. With
two CPUs `schedule()` and `process_wake` run without a lock; no code makes the
second CPU run processes, so no run claims anything about it.

### What the code does that its documents do not say

Checked by a violation run: demand paging (`version.md:43`), the resumed ring
(`HarLin_Api.md:492`), the reader that is not woken (`实践.md:480`), the lost message
(`架构.md:162`), the write to a stale version (`HarLin_Api.md:422`). Visible
in the models but without a run of their own:

* a sleep whose deadline wraps ends at the next tick (`scheduler.c:732`);
* two creators of a pipe can take the same slot, and a copy can go on in a pipe
  that was closed and created again (`pipe.c:71`, `:126`);
* a semaphore created with 0 lets a waiter, once woken, wait again from its last
  tick rather than pass (`ipc.c:217`);
* a snapshot takes a version slot and copies nothing (`cow_fs.c:67`; `架构.md:232`
  says it copies);
* a fork onto a node number used before shows the former file's versions too
  (`cow_fs.c:119`);
* the page books go wrong when a process is loaded over addresses of another, when
  `sys_mmap` fails half way (its records stay, `syscall.c:532`), when a process frees
  a page of its own image, of which it has two records, when it unmaps a page it
  has no record of (`syscall.c:589` frees whatever is mapped, and with a size that
  wraps, `:559`, that includes kernel stacks), when an image has more pages than
  there are records, or when a fault replaces a page on record or a kernel stack,
  which ring 3 only has to touch; these are the steps `Spoils` names in `ProcMem`
  (`version.md:439` says that `sys_free` frees only pages of the caller);
* the four pages of a process's top table are never freed (`scheduler.c:227`), nor
  are the pages that faults install;
* a fault in an unsplit 2 MB page makes a table that ring 3 cannot reach, and later
  mappings for user code in it stay out of reach (`vmm.c:307`);
* a new page is zeroed through the address equal to its physical address, which
  an image loaded there makes another page (`scheduler.c:311`);
* a second put of a cached key takes a second slot, and a get may show the first
  (`page_cache.c:71`; `HarLin_Api.md:335` says it updates).

## 4. Proofs

TLAPS proves, for every value of the constants allowed by the named assumptions:

* `PmmProofs`: all five invariants of `Pmm`, and that it implements
  `PageAllocator`. The inductive invariant is the conjunction of the five:
  `NoSharedPage` alone is not inductive, since only an exact bitmap tells that a
  clear bit is a page nobody holds; `RefusalMeansNoRun`, about refused requests of
  every kind (for a low one: no free run below the DMA limit), needs that the scans
  cover every page, which is where the assumption that the pool is a multiple of 8
  enters.
* `PipeProofs`: types, `WaitersCounted` and `SpaceExact` for any number of
  processes, and, with one creator, that the pipe implements `BoundedFifo`. The
  strengthening `LockInv` says that exactly the lock's holder copies, and that the
  two end counts agree with `used`. The refinement rests on two lemmas on the
  ring: reading a byte takes the head of `Contents`, writing one appends to it,
  both by case on whether the index wraps. Two creators really can break the
  refinement (see above), hence the hypothesis `OneCreator`.
* `SchedulerProofs`: types and `LockExclusion` for any number of processes and
  CPUs; `OnCpu`, `RunningIsCurrent`, `CurrentLive` and `LoadingReserved` for any
  number of processes on one CPU (hypothesis `OneCpu`). None of the four is
  inductive. The strengthening `OneCpuInv` is stated over the values of the one
  CPU. In it, `Dispatch` says what `schedule()` knows at each of its control
  points; `FirstRuns`, that a process which has never run does not sleep, is what
  keeps the idle loop from meeting a current process; `Waiters`, that a process
  behind a wait list entry is blocked or will only ever resume at a kernel
  address, is what keeps a stale entry from waking a slot under load. The last
  one is remarkable: `LoadingReserved` holds because a process that was taken off
  the CPU in the middle of blocking never runs again.
* `WaitTableProofs`: types, `OneRecord`, and that the table implements
  `ExitRecord`. The refinement maps the table to the function from children to
  codes; that it is a function is `OneRecord`, which is inductive together with
  the type invariant.

The state functions of these proofs are relational (a scan is "b is the first
candidate") rather than `CHOOSE` or recursion, so that the provers can use them.

Only model-checked: `ProcMem`, `BoundedWait`, `Ipc`, `MemFs`/`CowFs` (whose path
walk is recursive: what a recursive function computes needs induction over data,
which the installed provers cannot do), `ReadCache`, and everything about
liveness and fairness.

## 5. Not modelled, and the plan

Left out for good: register-level drivers (disk, USB, PCI, audio, clock), display
and console output, boot code and one-time table parsing: they hold no state
that other parts race for, or depend on hardware that the repository does not
describe.

Planned, in this order:

1. Proofs for `ProcMem`: `StackMapped` and `BooksExact` for any pool and any number
   of processes.
2. The kernel heap (`kmalloc.c`) and slab pools against an abstract set of blocks.
3. FAT32: cluster chains and directory entries, and the order of disk writes
   under a crash.
4. Network: ARP with timeouts, DHCP, and the TCP connection with lost, late and
   repeated segments.
5. Keyboard ring, event rings, driver table, ELF loading, start of the other CPUs.
6. Proofs for the message queue and the heap.
