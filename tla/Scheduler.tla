----------------------------- MODULE Scheduler -----------------------------
(***************************************************************************)
(* The process table and the dispatcher, src/harlin/proc/scheduler.c.      *)
(*                                                                         *)
(* A CPU runs `who[c]' (a process, or NoProc: the boot thread or an AP's   *)
(* own loop) at the control point `at[c]':                                 *)
(*   "run"     ring 3 code of the process                                  *)
(*   "sys"     kernel code of a system call, or of the boot thread         *)
(*   "create", "reserve", "fork", "commit"   holding scheduler_lock        *)
(*   "load"    process_create_elf while elf_load_exec runs, lock released  *)
(*   "block"   on a wait list, process_block_current not yet called        *)
(*   "sched"   entering schedule(), interrupts still on                    *)
(*   "picked"  inside schedule(), interrupts off, next chosen              *)
(*   "jump"    schedule() has restored flags, jump_to_user not executed    *)
(*   "idle"    the sti; hlt; cli loop of schedule()                        *)
(*   "wild"    ring 3 at a kernel address: the fetch faults for ever, the  *)
(*             process executes no instruction of its own again            *)
(* System calls enter by a trap gate, so IRQ0 may interrupt every point    *)
(* but "picked".  jump_to_user and a rewritten interrupt frame resume a    *)
(* process in ring 3 at its saved rip; nothing returns from schedule().    *)
(* rip[p] is that saved rip as the process sees it: "none" unset, "entry"  *)
(* its entry point, "user" the instruction it was interrupted at, "stale"  *)
(* a user instruction it has already passed (save_context does not save    *)
(* rip), "kernel" an address of kernel code.                               *)
(* nice is 0 for every process (nothing outside the boot-time self test    *)
(* writes another value), so one tick costs one unit of fair_key.          *)
(***************************************************************************)
EXTENDS Integers, FiniteSets

CONSTANTS MAX_PROCESSES,       \* slots of the process table
          CPUs,                \* 0 is the BSP, the only CPU that gets IRQ0
          DEFAULT_TIME_SLICE,
          TickMod,             \* tick_count and sleep_until are modulo this (2^32)
          KeyMod,              \* fair_key is modulo this (2^64)
          MaxTick,             \* bound: IRQ0 stops at this tick (TickMod: never)
          MaxSleep             \* bound: largest argument of scheduler_sleep

ASSUME SchedulerAssumption ==
  /\ MAX_PROCESSES \in Nat \ {0}
  /\ 0 \in CPUs
  /\ CPUs \subseteq Nat
  /\ DEFAULT_TIME_SLICE \in Nat \ {0}
  /\ TickMod \in Nat \ {0}
  /\ KeyMod \in Nat \ {0}
  /\ MaxTick \in Nat
  /\ MaxSleep \in Nat

VARIABLES state, first_run, cpu, time_slice, sleep_until, fair_key, rip,
          current,             \* current_process_percpu
          tick_count,
          scheduler_lock,
          loading,             \* slots reserved by process_create_elf
          waiting,             \* pids on the wait lists of pipes, queues, semaphores
          who, at, next,       \* per CPU: code running, control point, local next/slot
          resumed              \* history: rip of the last process put into ring 3

procs == <<state, first_run, cpu, time_slice, sleep_until, fair_key, rip>>
ctl == <<who, at, next>>
vars == <<procs, current, tick_count, scheduler_lock, loading, waiting, ctl, resumed>>

Proc == 0 .. MAX_PROCESSES - 1
NoProc == -1
BSP == 0
States == {"NONE", "READY", "RUNNING", "SLEEPING", "BLOCKED"}
Rips == {"none", "entry", "user", "stale", "kernel"}
Locked == {"create", "reserve", "fork", "commit"}
InProcess == Locked \cup {"run", "wild", "sys", "load", "block"}
Points == InProcess \cup {"sched", "picked", "jump", "idle"}

Runnable(st) == {p \in Proc : st[p] \in {"READY", "RUNNING"}}
Eligible(c, st) == {p \in Runnable(st) : cpu[p] \in {-1, c}}

\* Mutated IsPick: the keys are not compared.
PickLowestSlot(n, c, st, key) ==
  \/ n = NoProc /\ Eligible(c, st) = {}
  \/ n \in Eligible(c, st) /\ \A q \in Eligible(c, st) : n <= q

\* pick_next_process(c): the least fair_key, the lowest slot among equals.
IsPick(n, c, st, key) ==
  \/ n = NoProc /\ Eligible(c, st) = {}
  \/ /\ n \in Eligible(c, st)
     /\ \A q \in Eligible(c, st) : key[n] < key[q] \/ (key[n] = key[q] /\ n <= q)

Goto(c, point) == at' = [at EXCEPT ![c] = point]

\* jump_to_user, or an interrupt frame rewritten to process n.
Resume(c, n) ==
  /\ who' = [who EXCEPT ![c] = n]
  /\ at' = [at EXCEPT ![c] = IF rip[n] = "kernel" THEN "wild" ELSE "run"]
  /\ resumed' = rip[n]

Init ==
  /\ state = [p \in Proc |-> "NONE"]
  /\ first_run = [p \in Proc |-> FALSE]
  /\ cpu = [p \in Proc |-> -1]
  /\ time_slice = [p \in Proc |-> DEFAULT_TIME_SLICE]
  /\ sleep_until = [p \in Proc |-> 0]
  /\ fair_key = [p \in Proc |-> 0]
  /\ rip = [p \in Proc |-> "none"]
  /\ current = [c \in CPUs |-> NoProc]
  /\ tick_count = 0
  /\ scheduler_lock = FALSE
  /\ loading = {}
  /\ waiting = {}
  /\ who = [c \in CPUs |-> NoProc]
  /\ at = [c \in CPUs |-> IF c = BSP THEN "sys" ELSE "idle"]
  /\ next = [c \in CPUs |-> NoProc]
  /\ resumed = "none"


-----------------------------------------------------------------------------
(* System calls.                                                           *)

Syscall(c) ==
  /\ at[c] = "run" /\ Goto(c, "sys")
  /\ rip' = [rip EXCEPT ![who[c]] = IF @ = "kernel" THEN @ ELSE "stale"]
  /\ UNCHANGED <<state, first_run, cpu, time_slice, sleep_until, fair_key, current,
                 tick_count, scheduler_lock, loading, waiting, who, next, resumed>>

Return(c) ==
  /\ at[c] = "sys" /\ who[c] # NoProc /\ Goto(c, "run")
  /\ UNCHANGED <<procs, current, tick_count, scheduler_lock, loading, waiting,
                 who, next, resumed>>

sys_yield(c) ==
  /\ at[c] = "sys" /\ who[c] # NoProc /\ Goto(c, "sched")
  /\ UNCHANGED <<procs, current, tick_count, scheduler_lock, loading, waiting,
                 who, next, resumed>>

\* Mutated scheduler_sleep: the deadline is wider than the tick counter.
SleepUnwrapped(c, ms) ==
  /\ at[c] = "sys" /\ who[c] # NoProc /\ current[c] # NoProc
  /\ sleep_until' = [sleep_until EXCEPT ![current[c]] = tick_count + ms]
  /\ state' = [state EXCEPT ![current[c]] = "SLEEPING"]
  /\ Goto(c, "sched")
  /\ UNCHANGED <<first_run, cpu, time_slice, fair_key, rip, current, tick_count,
                 scheduler_lock, loading, waiting, who, next, resumed>>

scheduler_sleep(c, ms) ==
  /\ at[c] = "sys" /\ who[c] # NoProc /\ current[c] # NoProc
  /\ sleep_until' = [sleep_until EXCEPT ![current[c]] = (tick_count + ms) % TickMod]
  /\ state' = [state EXCEPT ![current[c]] = "SLEEPING"]
  /\ Goto(c, "sched")
  /\ UNCHANGED <<first_run, cpu, time_slice, fair_key, rip, current, tick_count,
                 scheduler_lock, loading, waiting, who, next, resumed>>

\* Blocking callers put the pid on a wait list first; a full list loses it.
AddWaiter(c) ==
  /\ at[c] = "sys" /\ current[c] # NoProc /\ Goto(c, "block")
  /\ waiting' \in {waiting, waiting \cup {current[c]}}
  /\ UNCHANGED <<procs, current, tick_count, scheduler_lock, loading, who, next, resumed>>

process_block_current(c) ==
  /\ at[c] = "block" /\ Goto(c, "sched")
  /\ state' = [state EXCEPT ![current[c]] = "BLOCKED"]
  /\ UNCHANGED <<first_run, cpu, time_slice, sleep_until, fair_key, rip, current,
                 tick_count, scheduler_lock, loading, waiting, who, next, resumed>>

\* Mutated process_wake: the entry stays on the wait list.
WakeLeavesEntry(c, pid) ==
  /\ at[c] = "sys"
  /\ pid \in waiting
  /\ state' = [state EXCEPT ![pid] = IF @ = "BLOCKED" THEN "READY" ELSE @]
  /\ UNCHANGED <<first_run, cpu, time_slice, sleep_until, fair_key, rip, current,
                 tick_count, scheduler_lock, loading, waiting, ctl, resumed>>

process_wake(c, pid) ==
  /\ at[c] = "sys"
  /\ pid \in waiting
  /\ waiting' = waiting \ {pid}
  /\ state' = [state EXCEPT ![pid] = IF @ = "BLOCKED" THEN "READY" ELSE @]
  /\ UNCHANGED <<first_run, cpu, time_slice, sleep_until, fair_key, rip, current,
                 tick_count, scheduler_lock, loading, ctl, resumed>>

\* Mutated process_exit: current_process_percpu still names the dead process.
ExitKeepsCurrent(c) ==
  /\ at[c] = "sys" /\ who[c] # NoProc
  /\ state' = [p \in Proc |-> IF p = current[c] THEN "NONE" ELSE state[p]]
  /\ Goto(c, "sched")
  /\ UNCHANGED <<first_run, cpu, time_slice, sleep_until, fair_key, rip, current,
                 tick_count, scheduler_lock, loading, waiting, who, next, resumed>>

process_exit(c) ==
  /\ at[c] = "sys" /\ who[c] # NoProc
  /\ state' = [p \in Proc |-> IF p = current[c] THEN "NONE" ELSE state[p]]
  /\ current' = [current EXCEPT ![c] = NoProc]
  /\ Goto(c, "sched")
  /\ UNCHANGED <<first_run, cpu, time_slice, sleep_until, fair_key, rip, tick_count,
                 scheduler_lock, loading, waiting, who, next, resumed>>

-----------------------------------------------------------------------------
(* Making processes.  A context cut off while it holds the lock keeps it.  *)

FirstFree(s) == state[s] = "NONE" /\ \A q \in Proc : q < s => state[q] # "NONE"

spinlock_acquire(c, from, to) ==
  /\ at[c] = from /\ ~scheduler_lock
  /\ scheduler_lock' = TRUE
  /\ Goto(c, to)
  /\ UNCHANGED <<procs, current, tick_count, loading, waiting, who, next, resumed>>

spinlock_release(c, to) == scheduler_lock' = FALSE /\ Goto(c, to)

\* What process_create, process_create_elf and Harlin_Fork set alike.
NewProcess(s, entry) ==
  /\ state' = [state EXCEPT ![s] = "READY"]
  /\ first_run' = [first_run EXCEPT ![s] = TRUE]
  /\ cpu' = [cpu EXCEPT ![s] = -1]
  /\ time_slice' = [time_slice EXCEPT ![s] = DEFAULT_TIME_SLICE]
  /\ sleep_until' = [sleep_until EXCEPT ![s] = 0]
  /\ fair_key' = [fair_key EXCEPT ![s] = 0]
  /\ rip' = [rip EXCEPT ![s] = entry]

\* No free slot, or no memory for the stack or the page table.
NoSlotOrMemory(c) ==
  /\ at[c] \in {"create", "reserve", "fork"} /\ spinlock_release(c, "sys")
  /\ UNCHANGED <<procs, current, tick_count, loading, waiting, who, next, resumed>>

process_create(c) ==
  /\ at[c] = "create" /\ spinlock_release(c, "sys")
  /\ \E s \in Proc : FirstFree(s) /\ NewProcess(s, "entry")
  /\ UNCHANGED <<current, tick_count, loading, waiting, who, next, resumed>>

Harlin_Fork(c, parent) ==
  /\ at[c] = "fork" /\ spinlock_release(c, "sys")
  /\ state[parent] # "NONE"
  /\ \E s \in Proc : FirstFree(s) /\ NewProcess(s, rip[parent])
  /\ UNCHANGED <<current, tick_count, loading, waiting, who, next, resumed>>

ElfReserve(c) ==
  /\ at[c] = "reserve" /\ spinlock_release(c, "load")
  /\ \E s \in Proc : /\ FirstFree(s)
                     /\ state' = [state EXCEPT ![s] = "BLOCKED"]
                     /\ next' = [next EXCEPT ![c] = s]
                     /\ loading' = loading \cup {s}
  /\ UNCHANGED <<first_run, cpu, time_slice, sleep_until, fair_key, rip, current,
                 tick_count, waiting, who, resumed>>

ElfCommit(c) ==
  /\ at[c] = "commit" /\ spinlock_release(c, "sys")
  /\ state[next[c]] # "NONE"
  /\ NewProcess(next[c], "entry")
  /\ loading' = loading \ {next[c]}
  /\ UNCHANGED <<current, tick_count, waiting, who, next, resumed>>

\* elf_load_exec failed, or the slot is no longer valid.
ElfFail(c) ==
  /\ at[c] = "commit" /\ spinlock_release(c, "sys")
  /\ state' = [state EXCEPT ![next[c]] = "NONE"]
  /\ loading' = loading \ {next[c]}
  /\ UNCHANGED <<first_run, cpu, time_slice, sleep_until, fair_key, rip, current,
                 tick_count, waiting, who, next, resumed>>

-----------------------------------------------------------------------------
(* schedule().  The other CPUs run between its steps: it takes no lock.    *)

\* Mutated SchedulePick: the outgoing process stays RUNNING.
PickKeepsRunning(c) ==
  /\ at[c] = "sched"
  /\ current' = [current EXCEPT ![c] = NoProc]
  /\ \E n \in Proc \cup {NoProc} :
       /\ IsPick(n, c, state, fair_key)
       /\ next' = [next EXCEPT ![c] = n]
       /\ Goto(c, IF n = NoProc THEN "idle" ELSE "picked")
  /\ UNCHANGED <<procs, tick_count, scheduler_lock, loading, waiting, who, resumed>>

\* cli, give up the CPU, pick.
SchedulePick(c) ==
  LET st == [p \in Proc |-> IF p = current[c] /\ state[p] = "RUNNING"
                            THEN "READY" ELSE state[p]]
  IN /\ at[c] = "sched"
     /\ state' = st
     /\ current' = [current EXCEPT ![c] = NoProc]
     /\ \E n \in Proc \cup {NoProc} :
          /\ IsPick(n, c, st, fair_key)
          /\ next' = [next EXCEPT ![c] = n]
          /\ Goto(c, IF n = NoProc THEN "idle" ELSE "picked")
     /\ UNCHANGED <<first_run, cpu, time_slice, sleep_until, fair_key, rip, tick_count,
                    scheduler_lock, loading, waiting, who, resumed>>

\* An interrupt ended hlt and there is something to run.
ScheduleIdle(c) ==
  /\ at[c] = "idle"
  /\ \E n \in Proc : /\ IsPick(n, c, state, fair_key)
                     /\ next' = [next EXCEPT ![c] = n]
  /\ Goto(c, "picked")
  /\ UNCHANGED <<procs, current, tick_count, scheduler_lock, loading, waiting, who, resumed>>

\* The assignments that make n the process of CPU c, given the states st.
SetCurrent(c, n, st) ==
  /\ current' = [current EXCEPT ![c] = n]
  /\ state' = [st EXCEPT ![n] = "RUNNING"]
  /\ time_slice' = [time_slice EXCEPT ![n] = DEFAULT_TIME_SLICE]
  /\ cpu' = [cpu EXCEPT ![n] = c]

\* Mutated ScheduleCommit: the chosen process is not marked RUNNING.
CommitKeepsReady(c) ==
  /\ at[c] = "picked" /\ Goto(c, "jump")
  /\ current' = [current EXCEPT ![c] = next[c]]
  /\ time_slice' = [time_slice EXCEPT ![next[c]] = DEFAULT_TIME_SLICE]
  /\ cpu' = [cpu EXCEPT ![next[c]] = c]
  /\ UNCHANGED <<state, first_run, sleep_until, fair_key, rip, tick_count,
                 scheduler_lock, loading, waiting, who, next, resumed>>

ScheduleCommit(c) ==
  /\ at[c] = "picked" /\ Goto(c, "jump")
  /\ SetCurrent(c, next[c], state)
  /\ UNCHANGED <<first_run, sleep_until, fair_key, rip, tick_count, scheduler_lock,
                 loading, waiting, who, next, resumed>>

\* Interrupts are on again when rip is read for jump_to_user.
ScheduleJump(c) ==
  /\ at[c] = "jump"
  /\ first_run' = [first_run EXCEPT ![next[c]] = FALSE]
  /\ Resume(c, next[c])
  /\ UNCHANGED <<state, cpu, time_slice, sleep_until, fair_key, rip, current, tick_count,
                 scheduler_lock, loading, waiting, next>>

-----------------------------------------------------------------------------
(* IRQ0.                                                                   *)

\* scheduler_tick: the states after sleepers due at tick t are woken.
Woken(t) == [p \in Proc |-> IF /\ state[p] = "SLEEPING"
                               /\ sleep_until[p] # 0 /\ t >= sleep_until[p]
                            THEN "READY" ELSE state[p]]

\* current_process_percpu is -1: nothing is saved.  A process that never ran
\* becomes current while the interrupted code goes on; another one is resumed.
TimerNoCurrent(st) ==
  /\ current[BSP] = NoProc
  /\ \/ /\ IsPick(NoProc, BSP, st, fair_key)
        /\ state' = st
        /\ UNCHANGED <<first_run, cpu, time_slice, current, ctl, resumed>>
     \/ \E n \in Proc :
          /\ IsPick(n, BSP, st, fair_key)
          /\ SetCurrent(BSP, n, [p \in Proc |-> IF st[p] = "RUNNING" THEN "READY" ELSE st[p]])
          /\ first_run' = [first_run EXCEPT ![n] = FALSE]
          /\ IF first_run[n] THEN UNCHANGED <<ctl, resumed>>
                             ELSE Resume(BSP, n) /\ next' = next
  /\ UNCHANGED <<fair_key, rip>>

\* The frame is saved as current's context, whatever code it interrupted, and
\* the tick is charged; with the slice over (or current not RUNNING) switch.
TimerCurrent(st) ==
  LET cp == current[BSP]
      left == IF time_slice[cp] > 0 THEN time_slice[cp] - 1 ELSE 0
      key == [fair_key EXCEPT ![cp] = (@ + 1) % KeyMod]
      ready == [st EXCEPT ![cp] = "READY"]
  IN /\ cp # NoProc
     /\ fair_key' = key
     /\ rip' = [rip EXCEPT ![cp] = IF at[BSP] = "run" THEN "user" ELSE "kernel"]
     /\ \/ /\ left > 0 /\ st[cp] = "RUNNING"
           /\ state' = st
           /\ time_slice' = [time_slice EXCEPT ![cp] = left]
           /\ UNCHANGED <<first_run, cpu, current, ctl, resumed>>
        \/ /\ left = 0 \/ st[cp] # "RUNNING"
           /\ ~\E n \in Proc \ {cp} : IsPick(n, BSP, ready, key)
           /\ state' = [ready EXCEPT ![cp] = "RUNNING"]
           /\ time_slice' = [time_slice EXCEPT ![cp] = DEFAULT_TIME_SLICE]
           /\ UNCHANGED <<first_run, cpu, current, ctl, resumed>>
        \/ /\ left = 0 \/ st[cp] # "RUNNING"
           /\ \E n \in Proc \ {cp} :
                /\ IsPick(n, BSP, ready, key)
                /\ current' = [current EXCEPT ![BSP] = n]
                /\ state' = [ready EXCEPT ![n] = "RUNNING"]
                /\ time_slice' = [time_slice EXCEPT ![cp] = left, ![n] = DEFAULT_TIME_SLICE]
                /\ cpu' = [cpu EXCEPT ![n] = BSP]
                /\ first_run' = [first_run EXCEPT ![n] = FALSE]
                /\ Resume(BSP, n) /\ next' = next

timer_handler ==
  /\ tick_count < MaxTick
  /\ at[BSP] # "picked"
  /\ tick_count' = (tick_count + 1) % TickMod
  /\ TimerNoCurrent(Woken(tick_count')) \/ TimerCurrent(Woken(tick_count'))
  /\ UNCHANGED <<sleep_until, scheduler_lock, loading, waiting>>

-----------------------------------------------------------------------------
Step(c) ==
  \/ Syscall(c) \/ Return(c) \/ sys_yield(c)
  \/ \E ms \in 0 .. MaxSleep : scheduler_sleep(c, ms)
  \/ AddWaiter(c) \/ process_block_current(c) \/ process_exit(c)
  \/ \E pid \in Proc : process_wake(c, pid) \/ Harlin_Fork(c, pid)
  \/ \E to \in {"create", "reserve", "fork"} : spinlock_acquire(c, "sys", to)
  \/ spinlock_acquire(c, "load", "commit")
  \/ NoSlotOrMemory(c) \/ process_create(c)
  \/ ElfReserve(c) \/ ElfCommit(c) \/ ElfFail(c)
  \/ SchedulePick(c) \/ ScheduleIdle(c) \/ ScheduleCommit(c) \/ ScheduleJump(c)

Next == timer_handler \/ \E c \in CPUs : Step(c)

Spec == Init /\ [][Next]_vars

-----------------------------------------------------------------------------
\* Every table field, per-CPU variable and control point keeps its type.
TypeOK ==
  /\ state \in [Proc -> States]
  /\ first_run \in [Proc -> BOOLEAN]
  /\ cpu \in [Proc -> CPUs \cup {-1}]
  /\ time_slice \in [Proc -> 0 .. DEFAULT_TIME_SLICE]
  /\ sleep_until \in [Proc -> 0 .. TickMod - 1]
  /\ fair_key \in [Proc -> 0 .. KeyMod - 1]
  /\ rip \in [Proc -> Rips]
  /\ current \in [CPUs -> Proc \cup {NoProc}]
  /\ tick_count \in 0 .. TickMod - 1
  /\ scheduler_lock \in BOOLEAN
  /\ loading \subseteq Proc
  /\ waiting \subseteq Proc
  /\ who \in [CPUs -> Proc \cup {NoProc}]
  /\ at \in [CPUs -> Points]
  /\ next \in [CPUs -> Proc \cup {NoProc}]
  /\ resumed \in Rips

\* One CPU: code running in ring 3, or in a system call of a process, belongs to
\* the process current_process_percpu names, and that process is RUNNING.  So
\* handlers that act on "the current process" act on their caller.
OnCpu ==
  \A c \in CPUs : who[c] # NoProc /\ at[c] \in InProcess
                     => current[c] = who[c] /\ state[who[c]] = "RUNNING"

\* One CPU: only the current process is RUNNING, through every path by which
\* schedule() and timer_handler replace it.
RunningIsCurrent ==
  \A p \in Proc : state[p] = "RUNNING" => \E c \in CPUs : current[c] = p

\* One CPU: a slot reserved by process_create_elf stays BLOCKED until its loader
\* commits it: no wait list entry left by an earlier owner of the slot can make
\* it READY, and no other creator can take it.
LoadingReserved ==
  /\ \A s \in loading : state[s] = "BLOCKED" /\ s \notin waiting
  /\ \A c \in CPUs : at[c] \in {"load", "commit"} => next[c] \in loading

\* One CPU: current_process_percpu never names a free slot.
CurrentLive == \A c \in CPUs : current[c] # NoProc => state[current[c]] # "NONE"

\* Any number of CPUs: scheduler_lock admits one CPU at a time to the slot
\* search of process_create, process_create_elf and Harlin_Fork.
LockExclusion ==
  /\ \A c, d \in CPUs : at[c] \in Locked /\ at[d] \in Locked => c = d
  /\ \A c \in CPUs : at[c] \in Locked => scheduler_lock

\* HarLin_Api.md: kernel code runs in ring 0, user processes in ring 3.  So what
\* is resumed in ring 3 is never an address of kernel code.
RingThreeRunsUserCode == resumed # "kernel"
=============================================================================
