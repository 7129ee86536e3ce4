-------------------------- MODULE SchedulerProofs --------------------------
(***************************************************************************)
(* Proofs about Scheduler.  For any set of CPUs: types, and the exclusion  *)
(* scheduler_lock gives.  For one CPU: which process is on it, which is    *)
(* RUNNING, and that a slot being loaded is left alone.                    *)
(***************************************************************************)
EXTENDS Scheduler, TLAPS

\* The only CPU that runs processes is the BSP.
OneCpu == CPUs = {BSP}

-----------------------------------------------------------------------------
(* Types, for any set of CPUs.                                             *)

\* With the slot that schedule() and the loader are busy with, types are inductive.
NextSet == \A c \in CPUs : at[c] \in {"load", "commit", "picked", "jump"} => next[c] \in Proc

TypeInv == TypeOK /\ NextSet

LEMMA InitType == Init => TypeInv
<1> SUFFICES ASSUME Init PROVE TypeInv
  OBVIOUS
<1>1. /\ first_run \in [Proc -> BOOLEAN] /\ scheduler_lock \in BOOLEAN
      /\ state \in [Proc -> States] /\ rip \in [Proc -> Rips] /\ resumed \in Rips
      /\ loading \subseteq Proc /\ waiting \subseteq Proc
  BY Zenon DEF Init, States, Rips
<1>2. /\ cpu \in [Proc -> CPUs \cup {-1}] /\ time_slice \in [Proc -> 0 .. DEFAULT_TIME_SLICE]
      /\ sleep_until \in [Proc -> 0 .. TickMod - 1] /\ fair_key \in [Proc -> 0 .. KeyMod - 1]
      /\ tick_count \in 0 .. TickMod - 1
  BY SchedulerAssumption DEF Init
<1>3. /\ current \in [CPUs -> Proc \cup {NoProc}] /\ who \in [CPUs -> Proc \cup {NoProc}]
      /\ next \in [CPUs -> Proc \cup {NoProc}]
  BY DEF Init
<1>4. at \in [CPUs -> Points] /\ NextSet
  BY DEF Init, Points, InProcess, NextSet
<1> QED BY <1>1, <1>2, <1>3, <1>4 DEF TypeInv, TypeOK

LEMMA TypeStep ==
  ASSUME TypeInv, NEW c \in CPUs, Step(c)
  PROVE  TypeInv'
<1> USE DEF TypeInv, NextSet
<1> USE SchedulerAssumption DEF TypeOK, Goto, procs, ctl, Points, InProcess, Locked, States, Rips
<1>1. CASE Syscall(c)
  BY <1>1, Zenon DEF Syscall
<1>2. CASE Return(c) \/ sys_yield(c)
  BY <1>2 DEF Return, sys_yield
<1>3. ASSUME NEW ms \in 0 .. MaxSleep, scheduler_sleep(c, ms)
      PROVE  TypeInv'
  <2>1. (tick_count + ms) % TickMod \in 0 .. TickMod - 1
    OBVIOUS
  <2> QED BY <1>3, <2>1 DEF scheduler_sleep
<1>4. CASE AddWaiter(c)
  BY <1>4 DEF AddWaiter, NoProc
<1>5. CASE process_block_current(c)
  BY <1>5, Zenon DEF process_block_current
<1>6. CASE process_exit(c)
  BY <1>6 DEF process_exit, NoProc
<1>7. ASSUME NEW pid \in Proc, process_wake(c, pid)
      PROVE  TypeInv'
  BY <1>7 DEF process_wake
<1>8. ASSUME NEW to \in Locked, NEW from, spinlock_acquire(c, from, to),
             to = "commit" => from = "load"
      PROVE  TypeInv'
  BY <1>8 DEF spinlock_acquire
<1>9. ASSUME NEW s \in Proc, NEW entry \in Rips, NewProcess(s, entry),
             spinlock_release(c, "sys"), loading' \subseteq Proc,
             UNCHANGED <<current, tick_count, waiting, who, next, resumed>>
      PROVE  TypeInv'
  <2>1. first_run' \in [Proc -> BOOLEAN]
    BY <1>9 DEF NewProcess
  <2>2. NextSet' /\ at' \in [CPUs -> Points] /\ scheduler_lock' \in BOOLEAN
    BY <1>9, Zenon DEF spinlock_release
  <2> QED BY <1>9, <2>1, <2>2 DEF NewProcess
<1>10. ASSUME NEW pid \in Proc, Harlin_Fork(c, pid)
       PROVE  TypeInv'
  <2>1. rip[pid] \in Rips /\ loading' \subseteq Proc
    BY <1>10 DEF Harlin_Fork
  <2> QED BY <1>9, <1>10, <2>1 DEF Harlin_Fork
<1>11. CASE NoSlotOrMemory(c)
  BY <1>11, Zenon DEF NoSlotOrMemory, spinlock_release
<1>12. CASE process_create(c)
  BY <1>9, <1>12 DEF process_create
<1>13. CASE ElfReserve(c)
  <2> PICK s \in Proc : /\ state' = [state EXCEPT ![s] = "BLOCKED"]
                        /\ next' = [next EXCEPT ![c] = s]
                        /\ loading' = loading \cup {s}
    BY <1>13, Zenon DEF ElfReserve
  <2>1. at' = [at EXCEPT ![c] = "load"] /\ scheduler_lock' = FALSE
    BY <1>13 DEF ElfReserve, spinlock_release
  <2>2. NextSet' /\ at' \in [CPUs -> Points] /\ next' \in [CPUs -> Proc \cup {NoProc}]
    BY <2>1
  <2> QED BY <1>13, <2>1, <2>2, Zenon DEF ElfReserve
<1>14. CASE ElfCommit(c)
  BY <1>9, <1>14 DEF ElfCommit
<1>15. CASE ElfFail(c)
  BY <1>15, Zenon DEF ElfFail, spinlock_release
<1>16. CASE SchedulePick(c)
  BY <1>16 DEF SchedulePick
<1>17. CASE ScheduleIdle(c)
  BY <1>17 DEF ScheduleIdle
<1>18. CASE ScheduleCommit(c)
  BY <1>18 DEF ScheduleCommit, SetCurrent
<1>19. CASE ScheduleJump(c)
  BY <1>19 DEF ScheduleJump, Resume
<1> QED
  BY <1>1, <1>2, <1>3, <1>4, <1>5, <1>6, <1>7, <1>8, <1>10, <1>11, <1>12, <1>13, <1>14,
     <1>15, <1>16, <1>17, <1>18, <1>19, ZenonT(40) DEF Step

LEMMA TypeTimer ==
  ASSUME TypeInv, timer_handler
  PROVE  TypeInv'
<1> USE SchedulerAssumption DEF TypeInv, NextSet, TypeOK
<1> DEFINE st == Woken(tick_count')
<1>1. st \in [Proc -> States]
  BY DEF Woken, States
<1>2. tick_count' \in 0 .. TickMod - 1
  BY DEF timer_handler
<1>3. BSP \in CPUs
  BY DEF BSP
<1>4. ASSUME NEW n \in Proc, Resume(BSP, n), next' = next
      PROVE  /\ who' \in [CPUs -> Proc \cup {NoProc}] /\ at' \in [CPUs -> Points]
             /\ resumed' \in Rips /\ NextSet'
  BY <1>3, <1>4 DEF Resume, Points, InProcess
<1>5. ASSUME UNCHANGED <<ctl, resumed>>
      PROVE  /\ who' \in [CPUs -> Proc \cup {NoProc}] /\ at' \in [CPUs -> Points]
             /\ resumed' \in Rips /\ NextSet' /\ next' = next
  BY <1>5 DEF ctl
<1>6. CASE TimerNoCurrent(st)
  <2>1. CASE /\ state' = st
             /\ UNCHANGED <<first_run, cpu, time_slice, current, ctl, resumed, fair_key, rip>>
    BY <1>1, <1>2, <1>5, <2>1 DEF timer_handler
  <2>2. ASSUME NEW n \in Proc, UNCHANGED <<fair_key, rip>>,
               SetCurrent(BSP, n, [p \in Proc |-> IF st[p] = "RUNNING" THEN "READY" ELSE st[p]]),
               first_run' = [first_run EXCEPT ![n] = FALSE],
               IF first_run[n] THEN UNCHANGED <<ctl, resumed>> ELSE Resume(BSP, n) /\ next' = next
        PROVE  TypeInv'
    <3>1. /\ who' \in [CPUs -> Proc \cup {NoProc}] /\ at' \in [CPUs -> Points]
          /\ resumed' \in Rips /\ NextSet' /\ next' = next
      BY <1>4, <1>5, <2>2
    <3>2. state' \in [Proc -> States] /\ current' \in [CPUs -> Proc \cup {NoProc}]
      BY <1>1, <2>2, Zenon DEF SetCurrent, States
    <3>3. time_slice' \in [Proc -> 0 .. DEFAULT_TIME_SLICE] /\ cpu' \in [Proc -> CPUs \cup {-1}]
      BY <1>3, <2>2 DEF SetCurrent
    <3> QED BY <1>2, <2>2, <3>1, <3>2, <3>3, Zenon DEF timer_handler
  <2> QED BY <1>6, <2>1, <2>2, Zenon DEF TimerNoCurrent
<1>7. CASE TimerCurrent(st)
  <2> DEFINE cp == current[BSP]
             left == IF time_slice[cp] > 0 THEN time_slice[cp] - 1 ELSE 0
             ready == [st EXCEPT ![cp] = "READY"]
  <2>1. cp \in Proc /\ left \in 0 .. DEFAULT_TIME_SLICE /\ ready \in [Proc -> States]
    BY <1>1, <1>3, <1>7, SMTT(40) DEF TimerCurrent, States
  <2>2. fair_key' \in [Proc -> 0 .. KeyMod - 1] /\ rip' \in [Proc -> Rips]
    BY <1>7, <2>1 DEF TimerCurrent, Rips
  <2>3. CASE /\ state' = st /\ time_slice' = [time_slice EXCEPT ![cp] = left]
             /\ UNCHANGED <<first_run, cpu, current, ctl, resumed>>
    BY <1>1, <1>2, <1>5, <2>1, <2>2, <2>3 DEF timer_handler
  <2>4. CASE /\ state' = [ready EXCEPT ![cp] = "RUNNING"]
             /\ time_slice' = [time_slice EXCEPT ![cp] = DEFAULT_TIME_SLICE]
             /\ UNCHANGED <<first_run, cpu, current, ctl, resumed>>
    <3>1. state' \in [Proc -> States] /\ time_slice' \in [Proc -> 0 .. DEFAULT_TIME_SLICE]
      BY <2>1, <2>4 DEF States
    <3> QED BY <1>2, <1>5, <2>2, <2>4, <3>1 DEF timer_handler
  <2>5. ASSUME NEW n \in Proc, current' = [current EXCEPT ![BSP] = n],
               state' = [ready EXCEPT ![n] = "RUNNING"],
               time_slice' = [time_slice EXCEPT ![cp] = left, ![n] = DEFAULT_TIME_SLICE],
               cpu' = [cpu EXCEPT ![n] = BSP], first_run' = [first_run EXCEPT ![n] = FALSE],
               Resume(BSP, n), next' = next
        PROVE  TypeInv'
    <3>1. /\ who' \in [CPUs -> Proc \cup {NoProc}] /\ at' \in [CPUs -> Points]
          /\ resumed' \in Rips /\ NextSet' /\ next' = next
      BY <1>4, <2>5
    <3>2. state' \in [Proc -> States] /\ current' \in [CPUs -> Proc \cup {NoProc}]
      BY <2>1, <2>5, Zenon DEF States
    <3>3. time_slice' \in [Proc -> 0 .. DEFAULT_TIME_SLICE] /\ cpu' \in [Proc -> CPUs \cup {-1}]
      BY <1>3, <2>1, <2>5
    <3> QED BY <1>2, <2>2, <2>5, <3>1, <3>2, <3>3, SMTT(30) DEF timer_handler
  <2> HIDE DEF TypeInv
  <2> QED BY <1>7, <2>3, <2>4, <2>5, ZenonT(40) DEF TimerCurrent
<1> QED BY <1>6, <1>7 DEF timer_handler

LEMMA TypeInductive == Spec => []TypeInv
<1>1. TypeInv /\ UNCHANGED vars => TypeInv'
  BY DEF TypeInv, TypeOK, NextSet, vars, procs, ctl
<1>2. TypeInv /\ [Next]_vars => TypeInv'
  BY <1>1, TypeStep, TypeTimer DEF Next
<1> QED BY <1>2, InitType, PTL DEF Spec

\* Every field of the process table, every per-CPU variable and every control
\* point of scheduler.c keeps its type, for any number of processes and CPUs.
THEOREM SchedulerType == Spec => []TypeOK
BY TypeInductive, PTL DEF TypeInv

-----------------------------------------------------------------------------
(* scheduler_lock, for any set of CPUs.                                    *)

LEMMA LockStep ==
  ASSUME TypeInv, LockExclusion, NEW c \in CPUs, Step(c)
  PROVE  LockExclusion'
<1> USE DEF LockExclusion, TypeInv, TypeOK, Locked, Goto
<1>1. ASSUME NEW from, NEW to, spinlock_acquire(c, from, to)
      PROVE  LockExclusion'
  BY <1>1 DEF spinlock_acquire
<1>2. ASSUME NEW to \in {"sys", "load"}, at[c] \in Locked, spinlock_release(c, to)
      PROVE  LockExclusion'
  BY <1>2 DEF spinlock_release
<1>3. ASSUME NEW to \in Points \ Locked, Goto(c, to), UNCHANGED scheduler_lock
      PROVE  LockExclusion'
  BY <1>3
<1>4. ASSUME NEW pid \in Proc, process_wake(c, pid)
      PROVE  LockExclusion'
  BY <1>4 DEF process_wake, ctl
<1>5. ASSUME NEW ms, scheduler_sleep(c, ms)
      PROVE  LockExclusion'
  BY <1>3, <1>5 DEF scheduler_sleep, Points
<1>6. CASE Syscall(c) \/ Return(c) \/ sys_yield(c) \/ AddWaiter(c) \/ process_block_current(c)
             \/ process_exit(c)
  BY <1>3, <1>6 DEF Syscall, Return, sys_yield, AddWaiter, process_block_current, process_exit,
                    Points, InProcess
<1>7. ASSUME NEW pid \in Proc, Harlin_Fork(c, pid)
      PROVE  LockExclusion'
  BY <1>2, <1>7 DEF Harlin_Fork
<1>8. CASE NoSlotOrMemory(c) \/ process_create(c) \/ ElfReserve(c) \/ ElfCommit(c) \/ ElfFail(c)
  BY <1>2, <1>8 DEF NoSlotOrMemory, process_create, ElfReserve, ElfCommit, ElfFail
<1>9. CASE SchedulePick(c) \/ ScheduleIdle(c) \/ ScheduleCommit(c)
  BY <1>3, <1>9 DEF SchedulePick, ScheduleIdle, ScheduleCommit, Points
<1>10. CASE ScheduleJump(c)
  BY <1>10 DEF ScheduleJump, Resume
<1> QED
  BY <1>1, <1>4, <1>5, <1>6, <1>7, <1>8, <1>9, <1>10 DEF Step

LEMMA LockTimer ==
  ASSUME TypeInv, LockExclusion, timer_handler
  PROVE  LockExclusion'
<1>1. \/ UNCHANGED ctl
      \/ \E n \in Proc : Resume(BSP, n)
  BY Zenon DEF timer_handler, TimerNoCurrent, TimerCurrent
<1>2. UNCHANGED scheduler_lock
  BY DEF timer_handler
<1> QED
  BY <1>1, <1>2, SMTT(30) DEF LockExclusion, TypeInv, TypeOK, Locked, Resume, ctl

\* scheduler_lock admits one CPU at a time to the slot search of process_create,
\* process_create_elf and Harlin_Fork, for any number of CPUs, although IRQ0 can
\* take a CPU away from code that holds the lock.
THEOREM SchedulerLockExclusion == Spec => []LockExclusion
<1>1. Init => LockExclusion
  BY DEF Init, LockExclusion, Locked
<1>2. TypeInv /\ LockExclusion /\ [Next]_vars => LockExclusion'
  BY LockStep, LockTimer, SMTT(40) DEF Next, vars, ctl, LockExclusion
<1> QED BY <1>1, <1>2, TypeInductive, PTL DEF Spec

-----------------------------------------------------------------------------
(* One CPU.  The invariant is stated over the values of the variables: the *)
(* table (st, fr, rp), the CPU's process cur, the slots being loaded ld,   *)
(* the wait lists w, and the code wh at the point a with local nx.         *)

\* Who is on the CPU, who is RUNNING, and that the current process is alive.
OnIt(st, cur, wh, a) ==
  /\ wh # NoProc /\ a \in InProcess => cur = wh /\ st[wh] = "RUNNING"
  /\ \A p \in Proc : st[p] = "RUNNING" => cur = p
  /\ cur # NoProc => st[cur] # "NONE"

\* What schedule() knows at its control points.
Dispatch(st, cur, wh, a, nx) ==
  /\ a = "picked" => cur = NoProc /\ nx \in Proc /\ st[nx] = "READY"
  /\ a = "jump" => cur \in Proc /\ cur = nx /\ st[nx] = "RUNNING"
  /\ a = "idle" => cur = NoProc /\ \A p \in Proc : st[p] # "READY"
  /\ a = "block" => cur \in Proc
  /\ a \in {"run", "wild"} => wh \in Proc

\* A process that has never run sleeps nowhere and is not current, but between
\* ScheduleCommit and ScheduleJump.
FirstRuns(st, fr, cur, a) ==
  /\ \A p \in Proc : st[p] = "SLEEPING" => ~fr[p]
  /\ cur # NoProc /\ a # "jump" => ~fr[cur]

\* A slot being loaded.
Loads(st, cur, ld, w, a, nx) ==
  /\ \A s \in ld : st[s] = "BLOCKED" /\ s \notin w
  /\ a \in {"load", "commit"} => nx \in ld
  /\ cur \notin ld

\* The process behind an entry of a wait list cannot exit: it is blocked, or
\* about to be, or will resume at a kernel address.
Waiters(st, rp, cur, w, wh, a) ==
  \A p \in w :
    /\ st[p] # "NONE"
    /\ st[p] = "BLOCKED" \/ rp[p] = "kernel" \/ (a = "block" /\ cur = p)
    /\ wh = p => a \in {"wild", "block", "sched", "picked", "jump", "idle"}

Sound(st, fr, rp, cur, ld, w, wh, a, nx) ==
  /\ OnIt(st, cur, wh, a) /\ Dispatch(st, cur, wh, a, nx) /\ FirstRuns(st, fr, cur, a)
  /\ Loads(st, cur, ld, w, a, nx) /\ Waiters(st, rp, cur, w, wh, a)

OneCpuInv ==
  Sound(state, first_run, rip, current[BSP], loading, waiting, who[BSP], at[BSP], next[BSP])

LEMMA OneCpuInit == Init => OneCpuInv
<1> SUFFICES ASSUME Init PROVE OneCpuInv
  OBVIOUS
<1>1. /\ current[BSP] = NoProc /\ who[BSP] = NoProc /\ at[BSP] = "sys"
      /\ loading = {} /\ waiting = {} /\ \A p \in Proc : state[p] = "NONE"
  BY SchedulerAssumption DEF Init, BSP
<1> QED BY <1>1 DEF OneCpuInv, Sound, OnIt, Dispatch, FirstRuns, Loads, Waiters

\* The types a step on one CPU needs.
LEMMA View ==
  ASSUME TypeInv
  PROVE  /\ state \in [Proc -> States] /\ rip \in [Proc -> Rips]
         /\ DOMAIN first_run = Proc /\ \A p \in Proc : first_run[p] \in BOOLEAN
         /\ current \in [CPUs -> Proc \cup {NoProc}] /\ current[BSP] \in Proc \cup {NoProc}
         /\ who \in [CPUs -> Proc \cup {NoProc}] /\ who[BSP] \in Proc \cup {NoProc}
         /\ at \in [CPUs -> Points] /\ next \in [CPUs -> Proc \cup {NoProc}]
         /\ loading \subseteq Proc /\ waiting \subseteq Proc
         /\ BSP \in CPUs /\ NoProc \notin Proc
<1>1. BSP \in CPUs /\ NoProc \notin Proc
  BY SchedulerAssumption DEF BSP, NoProc, Proc
<1>2. DOMAIN first_run = Proc /\ \A p \in Proc : first_run[p] \in BOOLEAN
  BY Zenon DEF TypeInv, TypeOK
<1> QED BY <1>1, <1>2 DEF TypeInv, TypeOK

\* On one CPU every process may run on it: pick_next_process returns a READY or
\* RUNNING one, and none only when there is none.
LEMMA Picks ==
  ASSUME OneCpu, TypeInv, NEW st, NEW key, NEW n \in Proc \cup {NoProc}, IsPick(n, BSP, st, key)
  PROVE  /\ n # NoProc => n \in Proc /\ st[n] \in {"READY", "RUNNING"}
         /\ n = NoProc => \A p \in Proc : st[p] \notin {"READY", "RUNNING"}
<1>1. \A p \in Proc : cpu[p] \in {-1, BSP}
  BY DEF OneCpu, TypeInv, TypeOK
<1> QED BY <1>1, View DEF IsPick, Eligible, Runnable

LEMMA OneCpuStep ==
  ASSUME OneCpu, TypeInv, OneCpuInv, Step(BSP)
  PROVE  OneCpuInv'
<1> USE View DEF OneCpuInv, Sound
<1> DEFINE table == <<state, first_run, rip>>
           rest == <<loading, waiting>>
<1>1. CASE Syscall(BSP)
  <2>1. /\ at'[BSP] = "sys" /\ at[BSP] = "run"
        /\ UNCHANGED <<state, first_run, current, rest, who, next>>
        /\ \A p \in Proc : p # who[BSP] => rip'[p] = rip[p]
    BY <1>1, SMTT(40) DEF Syscall, Goto
  <2> QED BY <2>1 DEF OnIt, Dispatch, FirstRuns, Loads, Waiters, InProcess, Locked
<1>2. CASE Return(BSP) \/ sys_yield(BSP)
  <2>1. /\ at'[BSP] \in {"run", "sched"} /\ at[BSP] = "sys" /\ who[BSP] # NoProc
        /\ UNCHANGED <<table, current, rest, who, next>>
    BY <1>2, SMTT(40) DEF Return, sys_yield, Goto, procs
  <2> QED BY <2>1 DEF OnIt, Dispatch, FirstRuns, Loads, Waiters, InProcess, Locked
<1>3. ASSUME NEW ms \in 0 .. MaxSleep, scheduler_sleep(BSP, ms)
      PROVE  OneCpuInv'
  <2>1. /\ at'[BSP] = "sched" /\ at[BSP] = "sys" /\ who[BSP] # NoProc /\ current[BSP] # NoProc
        /\ state' = [state EXCEPT ![current[BSP]] = "SLEEPING"]
        /\ UNCHANGED <<first_run, rip, current, rest, who, next>>
    BY <1>3, SMTT(40) DEF scheduler_sleep, Goto
  <2> QED BY <2>1 DEF OnIt, Dispatch, FirstRuns, Loads, Waiters, InProcess, Locked
<1>4. CASE AddWaiter(BSP)
  <2>1. /\ at'[BSP] = "block" /\ at[BSP] = "sys" /\ current[BSP] # NoProc
        /\ waiting' \in {waiting, waiting \cup {current[BSP]}}
        /\ UNCHANGED <<table, current, loading, who, next>>
    BY <1>4, SMTT(40) DEF AddWaiter, Goto, procs
  <2> QED BY <2>1 DEF OnIt, Dispatch, FirstRuns, Loads, Waiters, InProcess, Locked
<1>5. CASE process_block_current(BSP)
  <2>1. /\ at'[BSP] = "sched" /\ at[BSP] = "block"
        /\ state' = [state EXCEPT ![current[BSP]] = "BLOCKED"]
        /\ UNCHANGED <<first_run, rip, current, rest, who, next>>
    BY <1>5, SMTT(40) DEF process_block_current, Goto
  <2> QED BY <2>1 DEF OnIt, Dispatch, FirstRuns, Loads, Waiters, InProcess, Locked
<1>6. CASE process_exit(BSP)
  <2>1. /\ at'[BSP] = "sched" /\ at[BSP] = "sys" /\ who[BSP] # NoProc /\ current'[BSP] = NoProc
        /\ state' = [p \in Proc |-> IF p = current[BSP] THEN "NONE" ELSE state[p]]
        /\ UNCHANGED <<first_run, rip, rest, who, next>>
    BY <1>6, SMTT(40) DEF process_exit, Goto
  <2> QED BY <2>1 DEF OnIt, Dispatch, FirstRuns, Loads, Waiters, InProcess, Locked
<1>7. ASSUME NEW pid \in Proc, process_wake(BSP, pid)
      PROVE  OneCpuInv'
  <2>1. /\ at'[BSP] = "sys" /\ at[BSP] = "sys" /\ waiting' = waiting \ {pid} /\ pid \in waiting
        /\ state' = [state EXCEPT ![pid] = IF @ = "BLOCKED" THEN "READY" ELSE @]
        /\ UNCHANGED <<first_run, rip, current, loading, who, next>>
    BY <1>7, SMTT(40) DEF process_wake, ctl
  <2> QED BY <2>1 DEF OnIt, Dispatch, FirstRuns, Loads, Waiters, InProcess, Locked
<1>8. ASSUME NEW to \in {"create", "reserve", "fork"}, spinlock_acquire(BSP, "sys", to)
      PROVE  OneCpuInv'
  <2>1. /\ at'[BSP] = to /\ at[BSP] = "sys" /\ UNCHANGED <<table, current, rest, who, next>>
    BY <1>8, SMTT(40) DEF spinlock_acquire, Goto, procs
  <2> QED BY <2>1 DEF OnIt, Dispatch, FirstRuns, Loads, Waiters, InProcess, Locked
<1>9. CASE spinlock_acquire(BSP, "load", "commit")
  <2>1. /\ at'[BSP] = "commit" /\ at[BSP] = "load" /\ UNCHANGED <<table, current, rest, who, next>>
    BY <1>9, SMTT(40) DEF spinlock_acquire, Goto, procs
  <2> QED BY <2>1 DEF OnIt, Dispatch, FirstRuns, Loads, Waiters, InProcess, Locked
<1>10. ASSUME NEW s \in Proc, NEW entry, state[s] = "NONE" \/ s \in loading, NewProcess(s, entry),
              at[BSP] \in Locked, spinlock_release(BSP, "sys"), loading' = loading \ {s},
              UNCHANGED <<current, waiting, who, next>>
       PROVE  OneCpuInv'
  <2>1. /\ at'[BSP] = "sys" /\ state' = [state EXCEPT ![s] = "READY"]
        /\ s # current[BSP] /\ s \notin waiting
        /\ \A p \in Proc : p # s => rip'[p] = rip[p] /\ first_run'[p] = first_run[p]
    BY <1>10, SMTT(30) DEF NewProcess, spinlock_release, Goto, OnIt, Loads, Waiters
  <2>2. OnIt(state', current'[BSP], who'[BSP], at'[BSP])
    BY <1>10, <2>1, SMTT(40) DEF OnIt, InProcess, Locked
  <2>3. Dispatch(state', current'[BSP], who'[BSP], at'[BSP], next'[BSP])
    BY <1>10, <2>1 DEF Dispatch, OnIt, Loads, InProcess, Locked
  <2>4. FirstRuns(state', first_run', current'[BSP], at'[BSP])
    BY <1>10, <2>1 DEF FirstRuns, OnIt, Locked
  <2>5. Loads(state', current'[BSP], loading', waiting', at'[BSP], next'[BSP])
    BY <1>10, <2>1, SMTT(40) DEF Loads, OnIt, Waiters
  <2>6. Waiters(state', rip', current'[BSP], waiting', who'[BSP], at'[BSP])
    BY <1>10, <2>1, ZenonT(40) DEF Waiters, InProcess, Locked
  <2> QED BY <2>2, <2>3, <2>4, <2>5, <2>6
<1>11. ASSUME NEW pid \in Proc, Harlin_Fork(BSP, pid)
       PROVE  OneCpuInv'
  <2>1. PICK s \in Proc : FirstFree(s) /\ NewProcess(s, rip[pid])
    BY <1>11 DEF Harlin_Fork
  <2>2. state[s] = "NONE" /\ loading' = loading \ {s} /\ at[BSP] \in Locked
    BY <1>11, <2>1 DEF Harlin_Fork, FirstFree, Loads, Locked
  <2> QED BY <1>10, <1>11, <2>1, <2>2, Zenon DEF Harlin_Fork
<1>12. CASE NoSlotOrMemory(BSP)
  <2>1. /\ at'[BSP] = "sys" /\ at[BSP] \in {"create", "reserve", "fork"}
        /\ UNCHANGED <<table, current, rest, who, next>>
    BY <1>12 DEF NoSlotOrMemory, spinlock_release, Goto, procs
  <2> QED BY <2>1 DEF OnIt, Dispatch, FirstRuns, Loads, Waiters, InProcess, Locked
<1>13. CASE process_create(BSP)
  <2>1. PICK s \in Proc : FirstFree(s) /\ NewProcess(s, "entry")
    BY <1>13 DEF process_create
  <2>2. state[s] = "NONE" /\ loading' = loading \ {s} /\ at[BSP] \in Locked
    BY <1>13, <2>1, SMTT(40) DEF process_create, FirstFree, Loads, Locked
  <2> QED BY <1>10, <1>13, <2>1, <2>2, Zenon DEF process_create
<1>14. CASE ElfReserve(BSP)
  <2> PICK s \in Proc : /\ FirstFree(s)
                        /\ state' = [state EXCEPT ![s] = "BLOCKED"]
                        /\ next' = [next EXCEPT ![BSP] = s]
                        /\ loading' = loading \cup {s}
    BY <1>14, Zenon DEF ElfReserve
  <2>1. /\ at'[BSP] = "load" /\ at[BSP] = "reserve" /\ next'[BSP] = s /\ state[s] = "NONE"
        /\ UNCHANGED <<first_run, rip, current, waiting, who>>
    BY <1>14 DEF ElfReserve, spinlock_release, Goto, FirstFree
  <2>2. OnIt(state', current'[BSP], who'[BSP], at'[BSP])
    BY <2>1, SMTT(40) DEF OnIt, InProcess, Locked
  <2>3. Dispatch(state', current'[BSP], who'[BSP], at'[BSP], next'[BSP])
    BY <2>1 DEF Dispatch, OnIt, Loads, InProcess, Locked
  <2>4. FirstRuns(state', first_run', current'[BSP], at'[BSP])
    BY <2>1 DEF FirstRuns, OnIt, Locked
  <2>5. Loads(state', current'[BSP], loading', waiting', at'[BSP], next'[BSP])
    BY <2>1 DEF Loads, OnIt, Waiters
  <2>6. Waiters(state', rip', current'[BSP], waiting', who'[BSP], at'[BSP])
    BY <2>1 DEF Waiters, InProcess, Locked
  <2> QED BY <2>2, <2>3, <2>4, <2>5, <2>6
<1>15. CASE ElfCommit(BSP)
  <2>1. next[BSP] \in loading /\ next[BSP] \in Proc /\ at[BSP] \in Locked
    BY <1>15, SMTT(40) DEF ElfCommit, Loads, Locked
  <2> QED BY <1>10, <1>15, <2>1, ZenonT(40) DEF ElfCommit
<1>16. CASE ElfFail(BSP)
  <2>1. /\ at'[BSP] = "sys" /\ at[BSP] = "commit" /\ loading' = loading \ {next[BSP]}
        /\ state' = [state EXCEPT ![next[BSP]] = "NONE"]
        /\ UNCHANGED <<first_run, rip, current, waiting, who, next>>
    BY <1>16, SMTT(40) DEF ElfFail, spinlock_release, Goto
  <2> QED BY <2>1 DEF OnIt, Dispatch, FirstRuns, Loads, Waiters, InProcess, Locked
<1>17. CASE SchedulePick(BSP)
  <2> DEFINE st == [p \in Proc |-> IF p = current[BSP] /\ state[p] = "RUNNING"
                                   THEN "READY" ELSE state[p]]
  <2>1. PICK n \in Proc \cup {NoProc} :
          /\ IsPick(n, BSP, st, fair_key)
          /\ next' = [next EXCEPT ![BSP] = n]
          /\ Goto(BSP, IF n = NoProc THEN "idle" ELSE "picked")
    BY <1>17, ZenonT(40) DEF SchedulePick
  <2>2. /\ state' = st /\ at[BSP] = "sched" /\ current'[BSP] = NoProc /\ next'[BSP] = n
        /\ at'[BSP] = IF n = NoProc THEN "idle" ELSE "picked"
        /\ UNCHANGED <<first_run, rip, rest, who>>
    BY <1>17, <2>1 DEF SchedulePick, Goto
  <2>3. \A p \in Proc : /\ st[p] # "RUNNING"
                        /\ st[p] = state[p] \/ (state[p] = "RUNNING" /\ st[p] = "READY")
    BY SMTT(40) DEF OnIt
  <2> HIDE DEF st
  <2>4. /\ n # NoProc => n \in Proc /\ st[n] = "READY"
        /\ n = NoProc => \A p \in Proc : st[p] # "READY"
    <3>1. /\ n # NoProc => n \in Proc /\ st[n] \in {"READY", "RUNNING"}
          /\ n = NoProc => \A p \in Proc : st[p] \notin {"READY", "RUNNING"}
      BY <2>1, Picks, Zenon
    <3> QED BY <2>3, <3>1
  <2>5. OnIt(state', current'[BSP], who'[BSP], at'[BSP])
    BY <2>2, <2>3 DEF OnIt, InProcess, Locked
  <2>6. Dispatch(state', current'[BSP], who'[BSP], at'[BSP], next'[BSP])
    BY <2>2, <2>4 DEF Dispatch
  <2>7. FirstRuns(state', first_run', current'[BSP], at'[BSP])
    BY <2>2, <2>3, SMTT(30) DEF FirstRuns
  <2>8. Loads(state', current'[BSP], loading', waiting', at'[BSP], next'[BSP])
    BY <2>2, <2>3, SMTT(30) DEF Loads
  <2>9. Waiters(state', rip', current'[BSP], waiting', who'[BSP], at'[BSP])
    BY <2>2, <2>3, SMTT(30) DEF Waiters
  <2> QED BY <2>5, <2>6, <2>7, <2>8, <2>9
<1>18. CASE ScheduleIdle(BSP)
  <2>1. /\ at[BSP] = "idle" /\ \A p \in Proc : state[p] \notin {"READY", "RUNNING"}
        /\ \E n \in Proc : IsPick(n, BSP, state, fair_key)
    BY <1>18, SMTT(30) DEF ScheduleIdle, Dispatch, OnIt
  <2> QED BY <2>1, Picks
<1>19. CASE ScheduleCommit(BSP)
  <2>1. /\ at[BSP] = "picked" /\ at'[BSP] = "jump" /\ current'[BSP] = next[BSP]
        /\ state' = [state EXCEPT ![next[BSP]] = "RUNNING"]
        /\ UNCHANGED <<first_run, rip, rest, who, next>>
    BY <1>19, SMTT(40) DEF ScheduleCommit, SetCurrent, Goto
  <2>2. current[BSP] = NoProc /\ next[BSP] \in Proc /\ state[next[BSP]] = "READY"
    BY <2>1 DEF Dispatch
  <2>3. OnIt(state', current'[BSP], who'[BSP], at'[BSP])
    BY <2>1, <2>2, SMTT(40) DEF OnIt, InProcess, Locked
  <2>4. Dispatch(state', current'[BSP], who'[BSP], at'[BSP], next'[BSP])
    BY <2>1, <2>2 DEF Dispatch
  <2>5. FirstRuns(state', first_run', current'[BSP], at'[BSP])
    BY <2>1, <2>2, SMTT(40) DEF FirstRuns
  <2>6. Loads(state', current'[BSP], loading', waiting', at'[BSP], next'[BSP])
    BY <2>1, <2>2, SMTT(40) DEF Loads
  <2>7. Waiters(state', rip', current'[BSP], waiting', who'[BSP], at'[BSP])
    BY <2>1, <2>2, SMTT(40) DEF Waiters
  <2> QED BY <2>3, <2>4, <2>5, <2>6, <2>7
<1>20. CASE ScheduleJump(BSP)
  <2>1. /\ at[BSP] = "jump" /\ who'[BSP] = next[BSP]
        /\ at'[BSP] = IF rip[next[BSP]] = "kernel" THEN "wild" ELSE "run"
        /\ first_run' = [first_run EXCEPT ![next[BSP]] = FALSE]
        /\ UNCHANGED <<state, rip, current, rest, next>>
    BY <1>20, SMTT(40) DEF ScheduleJump, Resume
  <2> QED BY <2>1 DEF OnIt, Dispatch, FirstRuns, Loads, Waiters, InProcess, Locked
<1> HIDE DEF OneCpuInv
<1> QED
  BY <1>1, <1>2, <1>3, <1>4, <1>5, <1>6, <1>7, <1>8, <1>9, <1>11, <1>12, <1>13, <1>14, SMTT(40),
     <1>15, <1>16, <1>17, <1>18, <1>19, <1>20 DEF Step

\* IRQ0 makes n current: it resumes n or, where n never ran and nothing was
\* current, lets the interrupted code go on.  st is the table without n.
LEMMA OneCpuSwitch ==
  ASSUME TypeInv, OneCpuInv, NEW st \in [Proc -> States],
         \A p \in Proc : \/ st[p] = state[p]
                         \/ (state[p] = "SLEEPING" \/ p = current[BSP]) /\ st[p] = "READY",
         NEW n \in Proc, st[n] = "READY", n # current[BSP],
         \A p \in Proc : st[p] = "RUNNING" => p = n,
         state' = [st EXCEPT ![n] = "RUNNING"],
         current' = [current EXCEPT ![BSP] = n],
         first_run' = [first_run EXCEPT ![n] = FALSE],
         \A p \in waiting : rip'[p] = IF p = current[BSP] THEN "kernel" ELSE rip[p],
         UNCHANGED <<loading, waiting>>, at[BSP] # "picked", next' = next,
         \/ first_run[n] /\ current[BSP] = NoProc /\ UNCHANGED <<who, at>>
         \/ Resume(BSP, n)
  PROVE  OneCpuInv'
<1> USE View DEF OneCpuInv, Sound
<1>1. /\ current'[BSP] = n /\ next'[BSP] = next[BSP]
      /\ \/ first_run[n] /\ current[BSP] = NoProc /\ who'[BSP] = who[BSP] /\ at'[BSP] = at[BSP]
         \/ who'[BSP] = n /\ at'[BSP] = IF rip[n] = "kernel" THEN "wild" ELSE "run"
  BY DEF Resume
<1>2. /\ state[n] \in {"READY", "SLEEPING"} /\ n \notin loading
      /\ n \in waiting => rip[n] = "kernel"
  BY DEF Loads, Waiters
<1>3. OnIt(state', current'[BSP], who'[BSP], at'[BSP])
  BY <1>1, <1>2, SMTT(40) DEF OnIt, InProcess, Locked
<1>4. Dispatch(state', current'[BSP], who'[BSP], at'[BSP], next'[BSP])
  BY <1>1, <1>2 DEF Dispatch, OnIt, FirstRuns, InProcess, Locked
<1>5. FirstRuns(state', first_run', current'[BSP], at'[BSP])
  BY <1>1 DEF FirstRuns
<1>6. Loads(state', current'[BSP], loading', waiting', at'[BSP], next'[BSP])
  BY <1>1, <1>2, SMTT(40) DEF Loads
<1>7. Waiters(state', rip', current'[BSP], waiting', who'[BSP], at'[BSP])
  BY <1>1, <1>2, SMTT(40) DEF Waiters
<1> QED BY <1>3, <1>4, <1>5, <1>6, <1>7

\* IRQ0 keeps the current process: the interrupted code goes on.
LEMMA OneCpuKeep ==
  ASSUME TypeInv, OneCpuInv, NEW st \in [Proc -> States],
         \A p \in Proc : st[p] = state[p] \/ (state[p] = "SLEEPING" /\ st[p] = "READY"),
         \/ current[BSP] = NoProc /\ state' = st /\ UNCHANGED rip
            /\ \A p \in Proc : st[p] # "READY"
         \/ current[BSP] \in Proc /\ state' = [st EXCEPT ![current[BSP]] = "RUNNING"]
            /\ \A p \in waiting : rip'[p] = IF p = current[BSP] THEN "kernel" ELSE rip[p],
         UNCHANGED <<first_run, current, loading, waiting, ctl>>, at[BSP] # "picked"
  PROVE  OneCpuInv'
<1> USE View DEF OneCpuInv, Sound, ctl
<1>1. OnIt(state', current'[BSP], who'[BSP], at'[BSP])
  BY DEF OnIt, InProcess, Locked
<1>2. Dispatch(state', current'[BSP], who'[BSP], at'[BSP], next'[BSP])
  BY DEF Dispatch
<1>3. FirstRuns(state', first_run', current'[BSP], at'[BSP])
  BY DEF FirstRuns
<1>4. Loads(state', current'[BSP], loading', waiting', at'[BSP], next'[BSP])
  BY DEF Loads
<1>5. Waiters(state', rip', current'[BSP], waiting', who'[BSP], at'[BSP])
  BY DEF Waiters
<1> QED BY <1>1, <1>2, <1>3, <1>4, <1>5

LEMMA OneCpuTimer ==
  ASSUME OneCpu, TypeInv, OneCpuInv, timer_handler
  PROVE  OneCpuInv'
<1> USE View
<1> DEFINE st == Woken(tick_count')
<1>1. st \in [Proc -> States]
  BY DEF Woken, States
<1>2. \A p \in Proc : st[p] = state[p] \/ (state[p] = "SLEEPING" /\ st[p] = "READY")
  BY DEF Woken
<1>3. UNCHANGED <<loading, waiting>> /\ at[BSP] # "picked"
  BY DEF timer_handler
<1>4. \A p \in Proc : st[p] = "RUNNING" => p = current[BSP]
  BY <1>2 DEF OneCpuInv, Sound, OnIt
<1> HIDE DEF st
<1>5. CASE TimerNoCurrent(st)
  <2>1. current[BSP] = NoProc /\ UNCHANGED rip /\ \A p \in Proc : st[p] # "RUNNING"
    BY <1>4, <1>5, SMTT(40) DEF TimerNoCurrent
  <2>2. CASE /\ IsPick(NoProc, BSP, st, fair_key)
             /\ state' = st
             /\ UNCHANGED <<first_run, cpu, time_slice, current, ctl, resumed>>
    <3>1. \A p \in Proc : st[p] # "READY"
      BY <2>2, Picks
    <3> QED BY <1>1, <1>2, <1>3, <2>1, <2>2, <3>1, OneCpuKeep, SMTT(40)
  <2>3. ASSUME NEW n \in Proc, IsPick(n, BSP, st, fair_key),
               SetCurrent(BSP, n, [p \in Proc |-> IF st[p] = "RUNNING" THEN "READY" ELSE st[p]]),
               first_run' = [first_run EXCEPT ![n] = FALSE],
               IF first_run[n] THEN UNCHANGED <<ctl, resumed>> ELSE Resume(BSP, n) /\ next' = next
        PROVE  OneCpuInv'
    <3>1. st[n] = "READY" /\ n # current[BSP]
      <4>1. n # NoProc => st[n] \in {"READY", "RUNNING"}
        BY <2>3, Picks, Zenon
      <4> QED BY <2>1, <4>1
    <3>2. [p \in Proc |-> IF st[p] = "RUNNING" THEN "READY" ELSE st[p]] = st
      BY <1>1, <2>1
    <3>3. state' = [st EXCEPT ![n] = "RUNNING"] /\ current' = [current EXCEPT ![BSP] = n]
      BY <2>3, <3>2, Zenon DEF SetCurrent
    <3>4. \A p \in waiting : rip'[p] = IF p = current[BSP] THEN "kernel" ELSE rip[p]
      BY <2>1, SMTT(40)
    <3>5. /\ next' = next
          /\ \/ first_run[n] /\ current[BSP] = NoProc /\ UNCHANGED <<who, at>>
             \/ Resume(BSP, n)
      BY <2>1, <2>3, SMTT(40) DEF ctl
    <3>6. \A p \in Proc : \/ st[p] = state[p]
                          \/ (state[p] = "SLEEPING" \/ p = current[BSP]) /\ st[p] = "READY"
      BY <1>2
    <3>7. \A p \in Proc : st[p] = "RUNNING" => p = n
      BY <2>1
    <3> QED BY <1>1, <1>3, <2>3, <3>1, <3>3, <3>4, <3>5, <3>6, <3>7, OneCpuSwitch, Zenon
  <2> QED BY <1>5, <2>2, <2>3, Zenon DEF TimerNoCurrent
<1>6. CASE TimerCurrent(st)
  <2> DEFINE cp == current[BSP]
             ready == [st EXCEPT ![cp] = "READY"]
             key == [fair_key EXCEPT ![cp] = (@ + 1) % KeyMod]
  <2>1. cp \in Proc /\ rip' = [rip EXCEPT ![cp] = IF at[BSP] = "run" THEN "user" ELSE "kernel"]
    BY <1>6 DEF TimerCurrent
  <2>2. \A p \in waiting : rip'[p] = IF p = cp THEN "kernel" ELSE rip[p]
    BY <2>1 DEF OneCpuInv, Sound, OnIt, Waiters, Dispatch, InProcess
  <2>3. CASE /\ st[cp] = "RUNNING" /\ state' = st
             /\ UNCHANGED <<first_run, cpu, current, ctl, resumed>>
    <3>1. state' = [st EXCEPT ![cp] = "RUNNING"]
      BY <1>1, <2>1, <2>3
    <3>2. current[BSP] \in Proc /\ state' = [st EXCEPT ![current[BSP]] = "RUNNING"]
          /\ \A p \in waiting : rip'[p] = IF p = current[BSP] THEN "kernel" ELSE rip[p]
      BY <2>1, <2>2, <3>1, Zenon
    <3>3. UNCHANGED <<first_run, current, loading, waiting, ctl>>
      BY <1>3, <2>3, Zenon
    <3> HIDE View DEF cp, ready, key
    <3> QED BY <1>1, <1>2, <1>3, <3>2, <3>3, OneCpuKeep, ZenonT(40)
  <2>4. CASE /\ state' = [ready EXCEPT ![cp] = "RUNNING"]
             /\ UNCHANGED <<first_run, cpu, current, ctl, resumed>>
    <3>1. state' = [st EXCEPT ![cp] = "RUNNING"]
      BY <1>1, <2>1, <2>4
    <3>2. current[BSP] \in Proc /\ state' = [st EXCEPT ![current[BSP]] = "RUNNING"]
          /\ \A p \in waiting : rip'[p] = IF p = current[BSP] THEN "kernel" ELSE rip[p]
      BY <2>1, <2>2, <3>1, Zenon
    <3>3. UNCHANGED <<first_run, current, loading, waiting, ctl>>
      BY <1>3, <2>4, Zenon
    <3> HIDE View DEF cp, ready, key
    <3> QED BY <1>1, <1>2, <1>3, <3>2, <3>3, OneCpuKeep, ZenonT(40)
  <2>5. ASSUME NEW n \in Proc \ {cp}, IsPick(n, BSP, ready, key),
               current' = [current EXCEPT ![BSP] = n],
               state' = [ready EXCEPT ![n] = "RUNNING"],
               first_run' = [first_run EXCEPT ![n] = FALSE],
               Resume(BSP, n), next' = next
        PROVE  OneCpuInv'
    <3>1. /\ ready \in [Proc -> States] /\ \A p \in Proc : ready[p] # "RUNNING"
          /\ \A p \in Proc : \/ ready[p] = state[p]
                             \/ (state[p] = "SLEEPING" \/ p = cp) /\ ready[p] = "READY"
      BY <1>1, <1>2, <1>4, <2>1 DEF States
    <3> HIDE DEF ready, key
    <3>2. ready[n] = "READY"
      BY <2>5, <3>1, Picks
    <3> QED BY <1>3, <2>2, <2>5, <3>1, <3>2, OneCpuSwitch, ZenonT(40)
  <2> QED BY <1>6, <2>3, <2>4, <2>5, Zenon DEF TimerCurrent
<1> QED BY <1>5, <1>6, SMTT(40) DEF timer_handler, st

LEMMA OneCpuInductive == ASSUME OneCpu PROVE Spec => []OneCpuInv
<1>1. Init => OneCpuInv
  BY OneCpuInit, SMTT(40)
<1>2. OneCpuInv /\ UNCHANGED vars => OneCpuInv'
  BY DEF OneCpuInv, vars, procs, ctl
<1>3. TypeInv /\ OneCpuInv /\ Next => OneCpuInv'
  BY OneCpuStep, OneCpuTimer, SMTT(40) DEF Next, OneCpu
<1> QED BY <1>1, <1>2, <1>3, TypeInductive, PTL DEF Spec

LEMMA OneCpuMeans ==
  ASSUME OneCpu, OneCpuInv
  PROVE  OnCpu /\ RunningIsCurrent /\ CurrentLive /\ LoadingReserved
BY DEF OneCpu, OneCpuInv, Sound, OnIt, Loads, OnCpu, RunningIsCurrent, CurrentLive, LoadingReserved

\* On one CPU, code of a process in ring 3 or in a system call is the code of the
\* process current_process_percpu names, and that process is RUNNING.
THEOREM SchedulerOnCpu == ASSUME OneCpu PROVE Spec => []OnCpu
BY OneCpuInductive, OneCpuMeans, PTL

\* On one CPU, only the current process is RUNNING, whichever of schedule() and
\* timer_handler replaced the one before.
THEOREM SchedulerRunning == ASSUME OneCpu PROVE Spec => []RunningIsCurrent
BY OneCpuInductive, OneCpuMeans, PTL

\* On one CPU, current_process_percpu never names a slot that process_exit or a
\* failed load has freed.
THEOREM SchedulerCurrentLive == ASSUME OneCpu PROVE Spec => []CurrentLive
BY OneCpuInductive, OneCpuMeans, PTL

\* On one CPU, a slot that process_create_elf has reserved stays BLOCKED and off
\* every wait list until its loader commits or gives it up.
THEOREM SchedulerLoading == ASSUME OneCpu PROVE Spec => []LoadingReserved
BY OneCpuInductive, OneCpuMeans, PTL
=============================================================================
