-------------------------------- MODULE Pipe --------------------------------
(***************************************************************************)
(* One slot of pipe_table, src/harlin/proc/pipe.c, and the processes that  *)
(* call on it, in every interleaving.  The slots share nothing.            *)
(*                                                                         *)
(* pc[p] is where process p is: "user"; "create", "close" after the        *)
(* unlocked look at `used'; "read", "write" at the start of pipe_read and  *)
(* pipe_write; "racq", "wacq" past their unlocked check; "copyout",        *)
(* "copyin" holding the lock; "rempty", "wfull" in the blocking loop after *)
(* a transfer of nothing; "radd", "wadd" before pipe_add_waiter; "block"   *)
(* before process_block_current; "blocked"; "wake" in pipe_close after the *)
(* release.  A process that was blocked does not come back to its call:    *)
(* the scheduler resumes it in user code.                                  *)
(***************************************************************************)
EXTENDS Integers, Sequences, FiniteSets

CONSTANTS Pid,               \* the calling processes, numbers from 0
          Creator,           \* those that call pipe_create
          Value,             \* bytes
          PIPE_BUFFER_SIZE,
          PIPE_WAIT_MAX,
          MaxLen             \* bound: longest buffer a caller passes

ASSUME PipeAssumption ==
  /\ Pid \subseteq Nat
  /\ Creator \subseteq Pid
  /\ Value # {}
  /\ PIPE_BUFFER_SIZE \in Nat \ {0, 1}
  /\ PIPE_WAIT_MAX \in Nat \ {0}
  /\ MaxLen \in Nat \ {0}

VARIABLES buffer, head, tail, readers, writers, used,
          lock,              \* the holder of the spinlock, or NoPid
          read_waiters, read_wait_count, write_waiters, write_wait_count,
          pc,
          len,               \* bytes the call still wants
          blocking,          \* the call is pipe_read_blocking or pipe_write_blocking
          moved,             \* count > 0 in the transfer under way
          to_wake,           \* the pids pipe_close copied before the release
          asleep             \* processes in PROC_STATE_BLOCKED

ring == <<buffer, head, tail, readers, writers, used>>
lists == <<read_waiters, read_wait_count, write_waiters, write_wait_count>>
call == <<len, blocking, moved, to_wake>>
vars == <<ring, lock, lists, pc, call, asleep>>

NoPid == -1
Index == 0 .. PIPE_BUFFER_SIZE - 1
Slot == 0 .. PIPE_WAIT_MAX - 1
NoWaiters == [i \in Slot |-> 0]
Lengths == 1 .. MaxLen
Points == {"user", "create", "close", "read", "racq", "copyout", "rempty", "radd",
           "write", "wacq", "copyin", "wfull", "wadd", "block", "blocked", "wake"}

\* Mutated Next1: no wrap at the end of the buffer.
Next1Unwrapped(i) == i + 1

Next1(i) == (i + 1) % PIPE_BUFFER_SIZE
Full == Next1(tail) = head

Goto(p, point) == pc' = [pc EXCEPT ![p] = point]

\* spinlock_acquire compares 64 bits with 0: the 32-bit lock and the field that
\* follows it in struct pipe, read_waiters[0].
Lockable == lock = NoPid /\ read_waiters[0] = 0

Init ==
  /\ buffer \in [Index -> Value]
  /\ head = 0 /\ tail = 0 /\ readers = 0 /\ writers = 0 /\ used = FALSE
  /\ lock = NoPid
  /\ read_waiters = NoWaiters /\ read_wait_count = 0
  /\ write_waiters = NoWaiters /\ write_wait_count = 0
  /\ pc = [p \in Pid |-> "user"]
  /\ len = [p \in Pid |-> 0]
  /\ blocking = [p \in Pid |-> FALSE]
  /\ moved = [p \in Pid |-> FALSE]
  /\ to_wake = [p \in Pid |-> {}]
  /\ asleep = {}

-----------------------------------------------------------------------------
(* pipe_create: the look at `used' and kmalloc come before the lock.       *)

CreateLook(p) ==
  /\ p \in Creator /\ pc[p] = "user" /\ ~used /\ Goto(p, "create")
  /\ UNCHANGED <<ring, lock, lists, call, asleep>>

pipe_create(p) ==
  /\ pc[p] = "create" /\ Lockable /\ Goto(p, "user")
  /\ head' = 0 /\ tail' = 0 /\ readers' = 1 /\ writers' = 1 /\ used' = TRUE
  /\ buffer' \in [Index -> Value]
  /\ read_waiters' = NoWaiters /\ read_wait_count' = 0
  /\ write_waiters' = NoWaiters /\ write_wait_count' = 0
  /\ UNCHANGED <<lock, call, asleep>>

-----------------------------------------------------------------------------
(* Wait lists.  0 marks a free entry, and is also a pid.                   *)

\* Mutated pipe_add_waiter: the count is the index of the entry.
AddWaiterOffByOne(waits, count, waits1, count1, p) ==
  \/ \E i \in Slot :
        /\ waits[i] = 0 /\ \A j \in Slot : j < i => waits[j] # 0
        /\ waits1 = [waits EXCEPT ![i] = p]
        /\ count1 = IF i > count THEN i ELSE count
  \/ (\A i \in Slot : waits[i] # 0) /\ waits1 = waits /\ count1 = count

\* pipe_add_waiter returns -1 when there is no free entry; its callers go on.
pipe_add_waiter(waits, count, waits1, count1, p) ==
  \/ \E i \in Slot :
        /\ waits[i] = 0 /\ \A j \in Slot : j < i => waits[j] # 0
        /\ waits1 = [waits EXCEPT ![i] = p]
        /\ count1 = IF i + 1 > count THEN i + 1 ELSE count
  \/ (\A i \in Slot : waits[i] # 0) /\ waits1 = waits /\ count1 = count

Listed(waits, count) == {waits[i] : i \in {j \in Slot : j < count}}

\* pipe_wake_some, for the loops of pipe_read and pipe_write that moved a byte.
WakeWriters ==
  /\ asleep' = asleep \ Listed(write_waiters, write_wait_count)
  /\ write_waiters' = [i \in Slot |-> IF i < write_wait_count THEN 0 ELSE write_waiters[i]]
  /\ write_wait_count' = 0
  /\ UNCHANGED <<read_waiters, read_wait_count>>

WakeReaders ==
  /\ asleep' = asleep \ Listed(read_waiters, read_wait_count)
  /\ read_waiters' = [i \in Slot |-> IF i < read_wait_count THEN 0 ELSE read_waiters[i]]
  /\ read_wait_count' = 0
  /\ UNCHANGED <<write_waiters, write_wait_count>>

-----------------------------------------------------------------------------
(* pipe_read and pipe_read_blocking.                                       *)

ReadCall(p, n, b) ==
  /\ pc[p] = "user" /\ used /\ Goto(p, "read")
  /\ len' = [len EXCEPT ![p] = n]
  /\ blocking' = [blocking EXCEPT ![p] = b]
  /\ UNCHANGED <<ring, lock, lists, moved, to_wake, asleep>>

ReadCheck(p) ==
  /\ pc[p] = "read" /\ Goto(p, IF used THEN "racq" ELSE "user")
  /\ UNCHANGED <<ring, lock, lists, call, asleep>>

ReadAcquire(p) ==
  /\ pc[p] = "racq" /\ Lockable
  /\ IF writers = 0 /\ head = tail
     THEN Goto(p, IF blocking[p] THEN "rempty" ELSE "user") /\ lock' = lock
     ELSE Goto(p, "copyout") /\ lock' = p
  /\ moved' = [moved EXCEPT ![p] = FALSE]
  /\ UNCHANGED <<ring, lists, len, blocking, to_wake, asleep>>

ReadByte(p) ==
  /\ pc[p] = "copyout" /\ len[p] > 0 /\ head # tail
  /\ head' = Next1(head)
  /\ len' = [len EXCEPT ![p] = @ - 1]
  /\ moved' = [moved EXCEPT ![p] = TRUE]
  /\ UNCHANGED <<buffer, tail, readers, writers, used, lock, lists, pc, blocking,
                 to_wake, asleep>>

\* Wake the writers, release, and go round the blocking loop if there is one.
ReadEnd(p) ==
  /\ pc[p] = "copyout" /\ (len[p] = 0 \/ head = tail)
  /\ lock' = NoPid
  /\ IF moved[p] /\ write_wait_count > 0 THEN WakeWriters ELSE UNCHANGED <<lists, asleep>>
  /\ Goto(p, IF ~blocking[p] \/ len[p] = 0 THEN "user"
             ELSE IF moved[p] THEN "read" ELSE "rempty")
  /\ UNCHANGED <<ring, call>>

ReadEmpty(p) ==
  /\ pc[p] = "rempty" /\ Goto(p, IF ~used \/ writers = 0 THEN "user" ELSE "radd")
  /\ UNCHANGED <<ring, lock, lists, call, asleep>>

ReadWait(p) ==
  /\ pc[p] = "radd" /\ Lockable /\ Goto(p, "block")
  /\ pipe_add_waiter(read_waiters, read_wait_count, read_waiters', read_wait_count', p)
  /\ UNCHANGED <<ring, lock, write_waiters, write_wait_count, call, asleep>>

-----------------------------------------------------------------------------
(* pipe_write and pipe_write_blocking.                                     *)

WriteCall(p, n, b) ==
  /\ pc[p] = "user" /\ used /\ (b => readers # 0) /\ Goto(p, "write")
  /\ len' = [len EXCEPT ![p] = n]
  /\ blocking' = [blocking EXCEPT ![p] = b]
  /\ UNCHANGED <<ring, lock, lists, moved, to_wake, asleep>>

WriteCheck(p) ==
  /\ pc[p] = "write" /\ Goto(p, IF used THEN "wacq" ELSE "user")
  /\ UNCHANGED <<ring, lock, lists, call, asleep>>

WriteAcquire(p) ==
  /\ pc[p] = "wacq" /\ Lockable
  /\ IF readers = 0 THEN Goto(p, "user") /\ lock' = lock
                    ELSE Goto(p, "copyin") /\ lock' = p
  /\ moved' = [moved EXCEPT ![p] = FALSE]
  /\ UNCHANGED <<ring, lists, len, blocking, to_wake, asleep>>

\* Mutated WriteByte: the buffer is full only when tail meets head.
WriteByteUnguarded(p, v) ==
  /\ pc[p] = "copyin" /\ len[p] > 0
  /\ buffer' = [buffer EXCEPT ![tail] = v]
  /\ tail' = Next1(tail)
  /\ len' = [len EXCEPT ![p] = @ - 1]
  /\ moved' = [moved EXCEPT ![p] = TRUE]
  /\ UNCHANGED <<head, readers, writers, used, lock, lists, pc, blocking, to_wake, asleep>>

WriteByte(p, v) ==
  /\ pc[p] = "copyin" /\ len[p] > 0 /\ ~Full
  /\ buffer' = [buffer EXCEPT ![tail] = v]
  /\ tail' = Next1(tail)
  /\ len' = [len EXCEPT ![p] = @ - 1]
  /\ moved' = [moved EXCEPT ![p] = TRUE]
  /\ UNCHANGED <<head, readers, writers, used, lock, lists, pc, blocking, to_wake, asleep>>

WriteEnd(p) ==
  /\ pc[p] = "copyin" /\ (len[p] = 0 \/ Full)
  /\ lock' = NoPid
  /\ IF moved[p] /\ read_wait_count > 0 THEN WakeReaders ELSE UNCHANGED <<lists, asleep>>
  /\ Goto(p, IF ~blocking[p] \/ len[p] = 0 THEN "user"
             ELSE IF moved[p] THEN "write" ELSE "wfull")
  /\ UNCHANGED <<ring, call>>

WriteFull(p) ==
  /\ pc[p] = "wfull" /\ Goto(p, IF ~used \/ readers = 0 THEN "user" ELSE "wadd")
  /\ UNCHANGED <<ring, lock, lists, call, asleep>>

WriteWait(p) ==
  /\ pc[p] = "wadd" /\ Lockable /\ Goto(p, "block")
  /\ pipe_add_waiter(write_waiters, write_wait_count, write_waiters', write_wait_count', p)
  /\ UNCHANGED <<ring, lock, read_waiters, read_wait_count, call, asleep>>

-----------------------------------------------------------------------------
(* process_block_current, and the scheduler once the process is woken.     *)

process_block_current(p) ==
  /\ pc[p] = "block" /\ Goto(p, "blocked")
  /\ asleep' = asleep \cup {p}
  /\ UNCHANGED <<ring, lock, lists, call>>

Resumed(p) ==
  /\ pc[p] = "blocked" /\ p \notin asleep /\ Goto(p, "user")
  /\ UNCHANGED <<ring, lock, lists, call, asleep>>

-----------------------------------------------------------------------------
CloseLook(p) ==
  /\ pc[p] = "user" /\ used /\ Goto(p, "close")
  /\ UNCHANGED <<ring, lock, lists, call, asleep>>

\* Both counts go down, so one close shuts the pipe and frees the buffer.
pipe_close(p) ==
  /\ pc[p] = "close" /\ Lockable /\ Goto(p, "wake")
  /\ to_wake' = [to_wake EXCEPT ![p] =
       (Listed(read_waiters, read_wait_count) \cup Listed(write_waiters, write_wait_count))
          \ {0}]
  /\ read_waiters' = NoWaiters /\ read_wait_count' = 0
  /\ write_waiters' = NoWaiters /\ write_wait_count' = 0
  /\ readers' = IF readers > 0 THEN readers - 1 ELSE readers
  /\ writers' = IF writers > 0 THEN writers - 1 ELSE writers
  /\ used' = (used /\ ~(readers' = 0 /\ writers' = 0))
  /\ UNCHANGED <<buffer, head, tail, lock, len, blocking, moved, asleep>>

CloseWake(p) ==
  /\ pc[p] = "wake" /\ Goto(p, "user")
  /\ asleep' = asleep \ to_wake[p]
  /\ to_wake' = [to_wake EXCEPT ![p] = {}]
  /\ UNCHANGED <<ring, lock, lists, len, blocking, moved>>

-----------------------------------------------------------------------------
Work(p) ==
  \/ pipe_create(p)
  \/ ReadCheck(p) \/ ReadAcquire(p) \/ ReadByte(p) \/ ReadEnd(p) \/ ReadEmpty(p) \/ ReadWait(p)
  \/ WriteCheck(p) \/ WriteAcquire(p) \/ (\E v \in Value : WriteByte(p, v)) \/ WriteEnd(p)
  \/ WriteFull(p) \/ WriteWait(p)
  \/ process_block_current(p) \/ Resumed(p) \/ pipe_close(p) \/ CloseWake(p)

Request(p) ==
  \/ CreateLook(p) \/ CloseLook(p)
  \/ \E n \in Lengths, b \in BOOLEAN : ReadCall(p, n, b) \/ WriteCall(p, n, b)

Next == \E p \in Pid : Work(p) \/ Request(p)

Spec == Init /\ [][Next]_vars

\* The boot CPU, the only one that runs processes, is in at most one call; it goes
\* on executing the call it is in.
Alone(p) == \A q \in Pid \ {p} : pc[q] \in {"user", "blocked"}
OneCpuNext == \E p \in Pid : Alone(p) /\ (Work(p) \/ Request(p))
OneCpuSpec == Init /\ [][OneCpuNext]_vars /\ \A p \in Pid : WF_vars(Alone(p) /\ Work(p))

-----------------------------------------------------------------------------
\* Every field of the pipe and every caller's state keeps its type; in
\* particular head and tail stay inside the buffer.
TypeOK ==
  /\ buffer \in [Index -> Value]
  /\ head \in Index /\ tail \in Index
  /\ readers \in 0 .. 1 /\ writers \in 0 .. 1 /\ used \in BOOLEAN
  /\ lock \in Pid \cup {NoPid}
  /\ read_waiters \in [Slot -> Pid \cup {0}] /\ read_wait_count \in 0 .. PIPE_WAIT_MAX
  /\ write_waiters \in [Slot -> Pid \cup {0}] /\ write_wait_count \in 0 .. PIPE_WAIT_MAX
  /\ pc \in [Pid -> Points]
  /\ len \in [Pid -> 0 .. MaxLen]
  /\ blocking \in [Pid -> BOOLEAN] /\ moved \in [Pid -> BOOLEAN]
  /\ to_wake \in [Pid -> SUBSET Pid]
  /\ asleep \subseteq Pid

\* The bytes between head and tail, oldest first.
Count == (tail - head) % PIPE_BUFFER_SIZE
Contents == [i \in 1 .. Count |-> buffer[(head + i - 1) % PIPE_BUFFER_SIZE]]

Fifo == INSTANCE BoundedFifo WITH Capacity <- PIPE_BUFFER_SIZE - 1,
                                  open <- used,
                                  queue <- IF used THEN Contents ELSE <<>>

\* With one creator, however the calls of several processes interleave, an open
\* pipe is a bounded FIFO: no byte of pipe_write is lost, duplicated, reordered
\* or overwritten before pipe_read takes it.
ImplementsFifo == Fifo!Spec

\* Mutated pipe_space: one byte too many.
SpaceWholeBuffer == (head + PIPE_BUFFER_SIZE - tail) % PIPE_BUFFER_SIZE

pipe_space == (head + PIPE_BUFFER_SIZE - tail - 1) % PIPE_BUFFER_SIZE

\* What pipe_space computes is what is free, and it is 0 exactly when pipe_write
\* would find the buffer full.
SpaceExact == pipe_space + Count = PIPE_BUFFER_SIZE - 1 /\ (pipe_space = 0 <=> Full)

\* A pid in a wait list lies below the list's count, where pipe_wake_some and
\* pipe_close look for it, whatever entries earlier wake-ups and closes cleared.
WaitersCounted ==
  \A i \in Slot : /\ read_waiters[i] # 0 => i < read_wait_count
                  /\ write_waiters[i] # 0 => i < write_wait_count

\* The architecture document: blocked readers and writers wait in queues and are
\* woken.  So a reader that sleeps in the pipe's list is woken once some process
\* has come to pipe_write with bytes for it.
ReaderWoken ==
  \A r, w \in Pid :
     (r \in asleep \cap Listed(read_waiters, read_wait_count) /\ pc[w] = "write")
        ~> r \notin asleep
=============================================================================
