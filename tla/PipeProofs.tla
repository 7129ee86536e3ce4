----------------------------- MODULE PipeProofs -----------------------------
(***************************************************************************)
(* Proofs about Pipe for every buffer size, wait list length, set of       *)
(* processes and set of byte values.                                       *)
(***************************************************************************)
EXTENDS Pipe, SequenceTheorems, TLAPS

\* Only the holder of the lock copies; the two end counts and `used' agree; a
\* writer that copies has an open pipe.
LockInv ==
  /\ \A p \in Pid : pc[p] \in {"copyin", "copyout"} <=> lock = p
  /\ readers = writers
  /\ used <=> readers = 1
  /\ \A p \in Pid : pc[p] = "copyin" => used

IndInv == TypeOK /\ WaitersCounted /\ LockInv

-----------------------------------------------------------------------------
(* Arithmetic of the ring.                                                 *)

\* The remainder of a number within one period of the range 0 .. n - 1.
LEMMA ModRange ==
  ASSUME NEW n \in Nat \ {0}, NEW a \in Int
  PROVE  /\ a % n \in 0 .. n - 1
         /\ 0 <= a /\ a < n => a % n = a
         /\ n <= a /\ a < 2 * n => a % n = a - n
         /\ 0 <= a + n /\ a < 0 => a % n = a + n
<1>1. a % n \in 0 .. n - 1
  BY SMT
<1>2. 0 <= a /\ a < n => a % n = a
  BY SMT
<1>3. n <= a /\ a < 2 * n => a % n = a - n
  BY SMT
<1>4. 0 <= a + n /\ a < 0 => a % n = a + n
  BY SMT
<1> QED
  BY <1>1, <1>2, <1>3, <1>4

\* What pipe_read and pipe_write compute for the index after i.
LEMMA Next1Value ==
  ASSUME NEW i \in Index
  PROVE  Next1(i) \in Index /\ Next1(i) = IF i + 1 = PIPE_BUFFER_SIZE THEN 0 ELSE i + 1
<1>1. PIPE_BUFFER_SIZE \in Nat \ {0} /\ i + 1 \in Int /\ 0 <= i + 1 /\ i + 1 <= PIPE_BUFFER_SIZE
  BY PipeAssumption DEF Index
<1>2. CASE i + 1 = PIPE_BUFFER_SIZE
  <2>1. (i + 1) % PIPE_BUFFER_SIZE = (i + 1) - PIPE_BUFFER_SIZE
    BY <1>1, <1>2, ModRange
  <2> QED
    BY <1>1, <1>2, <2>1 DEF Next1, Index
<1>3. CASE i + 1 # PIPE_BUFFER_SIZE
  <2>1. (i + 1) % PIPE_BUFFER_SIZE = i + 1
    BY <1>1, <1>3, i + 1 < PIPE_BUFFER_SIZE, ModRange DEF Index
  <2> QED
    BY <1>1, <1>3, <2>1 DEF Next1, Index
<1> QED
  BY <1>2, <1>3

-----------------------------------------------------------------------------
(* Type correctness and the wait lists.                                    *)

\* pipe_add_waiter keeps a list well formed and its entries below the count.
LEMMA AddWaiterKeeps ==
  ASSUME NEW waits \in [Slot -> Pid \cup {0}], NEW count \in 0 .. PIPE_WAIT_MAX,
         NEW waits1, NEW count1, NEW p \in Pid,
         \A i \in Slot : waits[i] # 0 => i < count,
         pipe_add_waiter(waits, count, waits1, count1, p)
  PROVE  /\ waits1 \in [Slot -> Pid \cup {0}] /\ count1 \in 0 .. PIPE_WAIT_MAX
         /\ \A i \in Slot : waits1[i] # 0 => i < count1
  BY PipeAssumption DEF pipe_add_waiter, Slot

LEMMA InitInv == Init => IndInv
<1> SUFFICES ASSUME Init PROVE IndInv
  OBVIOUS
<1>1. TypeOK
  <2>1. head \in Index /\ tail \in Index
    BY PipeAssumption DEF Init, Index
  <2>2. read_waiters \in [Slot -> Pid \cup {0}] /\ write_waiters \in [Slot -> Pid \cup {0}]
    BY DEF Init, NoWaiters
  <2>3. read_wait_count \in 0 .. PIPE_WAIT_MAX /\ write_wait_count \in 0 .. PIPE_WAIT_MAX
    BY PipeAssumption DEF Init
  <2>4. pc \in [Pid -> Points] /\ len \in [Pid -> 0 .. MaxLen]
    BY PipeAssumption DEF Init, Points
  <2>5. /\ blocking \in [Pid -> BOOLEAN] /\ moved \in [Pid -> BOOLEAN]
        /\ to_wake \in [Pid -> SUBSET Pid] /\ asleep \subseteq Pid
    BY Zenon DEF Init
  <2>6. readers \in 0 .. 1 /\ writers \in 0 .. 1
    BY DEF Init
  <2>7. used \in BOOLEAN /\ buffer \in [Index -> Value] /\ lock \in Pid \cup {NoPid}
    BY Zenon DEF Init
  <2> QED
    BY <2>1, <2>2, <2>3, <2>4, <2>5, <2>6, <2>7 DEF TypeOK
<1>2. WaitersCounted
  BY DEF Init, WaitersCounted, NoWaiters
<1>3. LockInv
  BY PipeAssumption DEF Init, LockInv, NoPid
<1> QED
  BY <1>1, <1>2, <1>3 DEF IndInv

USE DEF Goto

LEMMA StepInv == IndInv /\ [Next]_vars => IndInv'
<1> SUFFICES ASSUME IndInv, [Next]_vars PROVE IndInv'
  OBVIOUS
<1> USE PipeAssumption DEF IndInv, TypeOK, LockInv, ring, lists, call
<1>1. ASSUME NEW p \in Pid, Work(p) PROVE IndInv'
  <2>1. CASE pipe_create(p)
    BY <2>1 DEF pipe_create, WaitersCounted, Lockable, NoWaiters, Slot, Index, Points, NoPid
  <2>2. CASE ReadCheck(p)
    BY <2>2 DEF ReadCheck, WaitersCounted, Points
  <2>3. CASE ReadAcquire(p)
    BY <2>3 DEF ReadAcquire, WaitersCounted, Points, Lockable, NoPid
  <2>4. CASE ReadByte(p)
    BY <2>4, Next1Value DEF ReadByte, WaitersCounted, Points
  <2>5. CASE ReadEnd(p)
    <3>1. /\ write_waiters' \in [Slot -> Pid \cup {0}] /\ write_wait_count' \in 0 .. PIPE_WAIT_MAX
          /\ asleep' \subseteq Pid /\ UNCHANGED <<read_waiters, read_wait_count>>
      <4>1. CASE moved[p] /\ write_wait_count > 0
        <5>1. WakeWriters
          BY <2>5, <4>1 DEF ReadEnd
        <5>2. asleep' \subseteq Pid
          BY <5>1, Zenon DEF WakeWriters
        <5>3. write_waiters' \in [Slot -> Pid \cup {0}]
          BY <5>1 DEF WakeWriters
        <5> QED
          BY <5>1, <5>2, <5>3 DEF WakeWriters
      <4>2. CASE ~(moved[p] /\ write_wait_count > 0)
        BY <2>5, <4>2 DEF ReadEnd
      <4> QED
        BY <4>1, <4>2
    <3>2. \A i \in Slot : write_waiters'[i] # 0 => i < write_wait_count'
      BY <2>5 DEF ReadEnd, WakeWriters, WaitersCounted, Slot
    <3>3. LockInv'
      BY <2>5 DEF ReadEnd, NoPid
    <3>4. pc' \in [Pid -> Points] /\ lock' \in Pid \cup {NoPid}
      BY <2>5 DEF ReadEnd, Points, NoPid
    <3> QED
      BY <2>5, <3>1, <3>2, <3>3, <3>4 DEF ReadEnd, WaitersCounted
  <2>6. CASE ReadEmpty(p)
    BY <2>6 DEF ReadEmpty, WaitersCounted, Points
  <2>7. CASE ReadWait(p)
    <3>1. /\ read_waiters' \in [Slot -> Pid \cup {0}] /\ read_wait_count' \in 0 .. PIPE_WAIT_MAX
          /\ \A i \in Slot : read_waiters'[i] # 0 => i < read_wait_count'
      BY <2>7, AddWaiterKeeps DEF ReadWait, WaitersCounted
    <3> QED
      BY <2>7, <3>1 DEF ReadWait, WaitersCounted, Points
  <2>8. CASE WriteCheck(p)
    BY <2>8 DEF WriteCheck, WaitersCounted, Points
  <2>9. CASE WriteAcquire(p)
    BY <2>9 DEF WriteAcquire, WaitersCounted, Points, Lockable, NoPid
  <2>10. ASSUME NEW v \in Value, WriteByte(p, v) PROVE IndInv'
    BY <2>10, Next1Value DEF WriteByte, WaitersCounted, Points
  <2>11. CASE WriteEnd(p)
    <3>1. /\ read_waiters' \in [Slot -> Pid \cup {0}] /\ read_wait_count' \in 0 .. PIPE_WAIT_MAX
          /\ asleep' \subseteq Pid /\ UNCHANGED <<write_waiters, write_wait_count>>
      <4>1. CASE moved[p] /\ read_wait_count > 0
        <5>1. WakeReaders
          BY <2>11, <4>1 DEF WriteEnd
        <5>2. asleep' \subseteq Pid
          BY <5>1, Zenon DEF WakeReaders
        <5>3. read_waiters' \in [Slot -> Pid \cup {0}]
          BY <5>1 DEF WakeReaders
        <5> QED
          BY <5>1, <5>2, <5>3 DEF WakeReaders
      <4>2. CASE ~(moved[p] /\ read_wait_count > 0)
        BY <2>11, <4>2 DEF WriteEnd
      <4> QED
        BY <4>1, <4>2
    <3>2. \A i \in Slot : read_waiters'[i] # 0 => i < read_wait_count'
      BY <2>11 DEF WriteEnd, WakeReaders, WaitersCounted, Slot
    <3>3. LockInv'
      BY <2>11 DEF WriteEnd, NoPid
    <3>4. pc' \in [Pid -> Points] /\ lock' \in Pid \cup {NoPid}
      BY <2>11 DEF WriteEnd, Points, NoPid
    <3> QED
      BY <2>11, <3>1, <3>2, <3>3, <3>4 DEF WriteEnd, WaitersCounted
  <2>12. CASE WriteFull(p)
    BY <2>12 DEF WriteFull, WaitersCounted, Points
  <2>13. CASE WriteWait(p)
    <3>1. /\ write_waiters' \in [Slot -> Pid \cup {0}] /\ write_wait_count' \in 0 .. PIPE_WAIT_MAX
          /\ \A i \in Slot : write_waiters'[i] # 0 => i < write_wait_count'
      BY <2>13, AddWaiterKeeps DEF WriteWait, WaitersCounted
    <3> QED
      BY <2>13, <3>1 DEF WriteWait, WaitersCounted, Points
  <2>14. CASE process_block_current(p)
    BY <2>14 DEF process_block_current, WaitersCounted, Points
  <2>15. CASE Resumed(p)
    BY <2>15 DEF Resumed, WaitersCounted, Points
  <2>16. CASE pipe_close(p)
    <3>1. (Listed(read_waiters, read_wait_count) \cup Listed(write_waiters, write_wait_count))
             \ {0} \in SUBSET Pid
      BY DEF Listed
    <3>2. to_wake' \in [Pid -> SUBSET Pid]
      BY <2>16, <3>1 DEF pipe_close
    <3>3. /\ NoWaiters \in [Slot -> Pid \cup {0}] /\ 0 \in 0 .. PIPE_WAIT_MAX
          /\ \A i \in Slot : NoWaiters[i] = 0
      BY DEF NoWaiters
    <3>4. readers' = 0 /\ writers' = 0
      BY <2>16 DEF pipe_close
    <3>8. used' = FALSE
      <4>1. used' = (used /\ ~(readers' = 0 /\ writers' = 0))
        BY <2>16, Zenon DEF pipe_close
      <4> QED
        BY <3>4, <4>1, Zenon
    <3>5. LockInv'
      BY <2>16, <3>4, <3>8 DEF pipe_close, Lockable, NoPid
    <3>6. WaitersCounted'
      BY <2>16, <3>3 DEF pipe_close, WaitersCounted
    <3>7. pc' \in [Pid -> Points]
      BY <2>16 DEF pipe_close, Points
    <3> QED
      BY <2>16, <3>2, <3>3, <3>4, <3>5, <3>6, <3>7, <3>8 DEF pipe_close
  <2>17. CASE CloseWake(p)
    BY <2>17 DEF CloseWake, WaitersCounted, Points
  <2> QED
    BY <1>1, <2>1, <2>2, <2>3, <2>4, <2>5, <2>6, <2>7, <2>8, <2>9, <2>10, <2>11, <2>12,
       <2>13, <2>14, <2>15, <2>16, <2>17 DEF Work
<1>2. ASSUME NEW p \in Pid, Request(p) PROVE IndInv'
  <2>1. CASE CreateLook(p)
    BY <2>1 DEF CreateLook, WaitersCounted, Points
  <2>2. CASE CloseLook(p)
    BY <2>2 DEF CloseLook, WaitersCounted, Points
  <2>3. ASSUME NEW n \in Lengths, NEW b \in BOOLEAN, ReadCall(p, n, b) PROVE IndInv'
    BY <2>3 DEF ReadCall, WaitersCounted, Points, Lengths
  <2>4. ASSUME NEW n \in Lengths, NEW b \in BOOLEAN, WriteCall(p, n, b) PROVE IndInv'
    BY <2>4 DEF WriteCall, WaitersCounted, Points, Lengths
  <2> QED
    BY <1>2, <2>1, <2>2, <2>3, <2>4 DEF Request
<1>3. CASE UNCHANGED vars
  BY <1>3 DEF vars, WaitersCounted
<1> QED
  BY <1>1, <1>2, <1>3 DEF Next

-----------------------------------------------------------------------------
(* The ring as a sequence.                                                 *)

\* The index of the i-th byte after h.
LEMMA RingIndex ==
  ASSUME NEW h \in Index, NEW i \in 1 .. PIPE_BUFFER_SIZE
  PROVE  /\ (h + i - 1) % PIPE_BUFFER_SIZE \in Index
         /\ (h + i - 1) % PIPE_BUFFER_SIZE =
               IF h + i - 1 < PIPE_BUFFER_SIZE THEN h + i - 1 ELSE h + i - 1 - PIPE_BUFFER_SIZE
<1> DEFINE n == PIPE_BUFFER_SIZE
           a == h + i - 1
<1>1. n \in Nat \ {0} /\ a \in Int /\ 0 <= a /\ a < 2 * n
  BY PipeAssumption DEF Index
<1>2. a % n \in 0 .. n - 1 /\ (a < n => a % n = a) /\ (n <= a => a % n = a - n)
  BY <1>1, ModRange
<1> QED
  BY <1>1, <1>2 DEF Index

\* How many bytes lie between two indexes, the C expression of Count.
LEMMA Distance ==
  ASSUME NEW h \in Index, NEW t \in Index
  PROVE  /\ (t - h) % PIPE_BUFFER_SIZE \in Index
         /\ (t - h) % PIPE_BUFFER_SIZE =
               IF h <= t THEN t - h ELSE t - h + PIPE_BUFFER_SIZE
<1> DEFINE n == PIPE_BUFFER_SIZE
           a == t - h
<1>1. n \in Nat \ {0} /\ a \in Int /\ 0 <= a + n /\ a < n
  BY PipeAssumption DEF Index
<1>2. a % n \in 0 .. n - 1 /\ (0 <= a => a % n = a) /\ (a < 0 => a % n = a + n)
  BY <1>1, ModRange
<1> QED
  BY <1>1, <1>2 DEF Index

\* pipe_space and the number of bytes in the ring add up to the capacity.
LEMMA SpaceOfTypes == TypeOK => SpaceExact
<1> SUFFICES ASSUME TypeOK PROVE SpaceExact
  OBVIOUS
<1> DEFINE n == PIPE_BUFFER_SIZE
           a == head + n - tail - 1
<1>1. n \in Nat \ {0} /\ a \in Int /\ 0 <= a /\ a < 2 * n /\ head \in Index /\ tail \in Index
  BY PipeAssumption DEF TypeOK, Index
<1>2. (a < n => a % n = a) /\ (n <= a => a % n = a - n)
  BY <1>1, ModRange
<1>3. Count = IF head <= tail THEN tail - head ELSE tail - head + n
  BY <1>1, Distance DEF Count
<1>4. Next1(tail) = IF tail + 1 = n THEN 0 ELSE tail + 1
  BY <1>1, Next1Value
<1> QED
  BY <1>1, <1>2, <1>3, <1>4 DEF SpaceExact, pipe_space, Full, Index

\* The bytes of buffer b from index h up to index t.
Between(b, h, t) ==
  [i \in 1 .. (t - h) % PIPE_BUFFER_SIZE |-> b[(h + i - 1) % PIPE_BUFFER_SIZE]]

\* They form a sequence of bytes shorter than the buffer.
LEMMA BetweenSeq ==
  ASSUME NEW b \in [Index -> Value], NEW h \in Index, NEW t \in Index
  PROVE  /\ Between(b, h, t) \in Seq(Value)
         /\ Len(Between(b, h, t)) = (t - h) % PIPE_BUFFER_SIZE
         /\ (t - h) % PIPE_BUFFER_SIZE \in 0 .. PIPE_BUFFER_SIZE - 1
<1> DEFINE c == (t - h) % PIPE_BUFFER_SIZE
<1>1. c \in Nat /\ c <= PIPE_BUFFER_SIZE - 1
  BY Distance, PipeAssumption DEF Index
<1>2. \A i \in 1 .. c : b[(h + i - 1) % PIPE_BUFFER_SIZE] \in Value
  BY <1>1, RingIndex, PipeAssumption
<1> QED
  BY <1>1, <1>2, PipeAssumption DEF Between

\* pipe_read takes the oldest byte.
LEMMA ReadByteTakes ==
  ASSUME TypeOK, TypeOK', NEW p \in Pid, ReadByte(p)
  PROVE  Contents # <<>> /\ Contents' = Tail(Contents)
<1> DEFINE n == PIPE_BUFFER_SIZE
<1>1. /\ head \in Index /\ tail \in Index /\ head # tail /\ n \in Nat \ {0, 1}
      /\ head' = Next1(head) /\ head' \in Index /\ tail' = tail /\ buffer' = buffer
  BY PipeAssumption DEF TypeOK, ReadByte
<1>2. Count \in 1 .. n - 1 /\ Count' = Count - 1
  <2>1. Count = IF head <= tail THEN tail - head ELSE tail - head + n
    BY <1>1, Distance DEF Count
  <2>2. Count' = IF head' <= tail THEN tail - head' ELSE tail - head' + n
    BY <1>1, Distance DEF Count
  <2>3. head' = IF head + 1 = n THEN 0 ELSE head + 1
    BY <1>1, Next1Value
  <2> QED
    BY <1>1, <2>1, <2>2, <2>3 DEF Index
<1>3. \A i \in 1 .. Count - 1 : (head' + i - 1) % n = (head + (i + 1) - 1) % n
  <2> TAKE i \in 1 .. Count - 1
  <2>1. i \in 1 .. n /\ i + 1 \in 1 .. n
    BY <1>1, <1>2
  <2>2. (head' + i - 1) % n = IF head' + i - 1 < n THEN head' + i - 1 ELSE head' + i - 1 - n
    BY <1>1, <2>1, RingIndex
  <2>3. (head + (i + 1) - 1) % n =
           IF head + (i + 1) - 1 < n THEN head + (i + 1) - 1 ELSE head + (i + 1) - 1 - n
    BY <1>1, <2>1, RingIndex
  <2>4. head' = IF head + 1 = n THEN 0 ELSE head + 1
    BY <1>1, Next1Value
  <2> QED
    BY <1>1, <1>2, <2>1, <2>2, <2>3, <2>4 DEF Index
<1>4. Contents \in Seq(Value) /\ Len(Contents) = Count
  <2>1. Contents = Between(buffer, head, tail) /\ Count = (tail - head) % n
    BY DEF Contents, Between, Count
  <2>2. buffer \in [Index -> Value]
    BY DEF TypeOK
  <2> QED
    BY <1>1, <2>1, <2>2, BetweenSeq
<1>5. Contents' \in Seq(Value) /\ Len(Contents') = Count - 1
  <2>1. Contents' = Between(buffer', head', tail') /\ Count' = (tail' - head') % n
    BY DEF Contents, Between, Count
  <2>2. buffer' \in [Index -> Value] /\ tail' \in Index
    BY <1>1 DEF TypeOK
  <2> QED
    BY <1>1, <1>2, <2>1, <2>2, BetweenSeq
<1>6. Contents # <<>>
  BY <1>2, <1>4
<1>7. /\ Tail(Contents) \in Seq(Value) /\ Len(Tail(Contents)) = Count - 1
      /\ \A i \in 1 .. Count - 1 : Tail(Contents)[i] = Contents[i + 1]
  BY <1>2, <1>4, <1>6, HeadTailProperties
<1>8. \A i \in 1 .. Count - 1 : Contents'[i] = Contents[i + 1]
  BY <1>1, <1>2, <1>3 DEF Contents
<1>9. Contents' = Tail(Contents)
  BY <1>5, <1>7, <1>8, SeqEqual
<1> QED
  BY <1>6, <1>9

\* pipe_write adds a byte at the end and never reaches the oldest one.
LEMMA WriteByteAppends ==
  ASSUME TypeOK, TypeOK', NEW p \in Pid, NEW v \in Value, WriteByte(p, v)
  PROVE  Len(Contents) < PIPE_BUFFER_SIZE - 1 /\ Contents' = Append(Contents, v)
<1> DEFINE n == PIPE_BUFFER_SIZE
<1>1. /\ head \in Index /\ tail \in Index /\ n \in Nat \ {0, 1} /\ Next1(tail) # head
      /\ tail' = Next1(tail) /\ tail' \in Index /\ head' = head
      /\ buffer' = [buffer EXCEPT ![tail] = v] /\ buffer \in [Index -> Value]
  BY PipeAssumption DEF TypeOK, WriteByte, Full
<1>2. Count \in 0 .. n - 2 /\ Count' = Count + 1
  <2>1. Count = IF head <= tail THEN tail - head ELSE tail - head + n
    BY <1>1, Distance DEF Count
  <2>2. Count' = IF head <= tail' THEN tail' - head ELSE tail' - head + n
    BY <1>1, Distance DEF Count
  <2>3. tail' = IF tail + 1 = n THEN 0 ELSE tail + 1
    BY <1>1, Next1Value
  <2> QED
    BY <1>1, <2>1, <2>2, <2>3 DEF Index
<1>3. \A i \in 1 .. Count : /\ (head + i - 1) % n \in Index
                            /\ (head + i - 1) % n # tail
  <2> TAKE i \in 1 .. Count
  <2>1. i \in 1 .. n
    BY <1>1, <1>2
  <2>2. /\ (head + i - 1) % n \in Index
        /\ (head + i - 1) % n = IF head + i - 1 < n THEN head + i - 1 ELSE head + i - 1 - n
    BY <1>1, <2>1, RingIndex
  <2>3. Count = IF head <= tail THEN tail - head ELSE tail - head + n
    BY <1>1, Distance DEF Count
  <2> QED
    BY <1>1, <1>2, <2>1, <2>2, <2>3 DEF Index
<1>4. (head + (Count + 1) - 1) % n = tail
  <2>1. Count + 1 \in 1 .. n
    BY <1>1, <1>2
  <2>2. (head + (Count + 1) - 1) % n =
           IF head + (Count + 1) - 1 < n THEN head + (Count + 1) - 1 ELSE head + (Count + 1) - 1 - n
    BY <1>1, <2>1, RingIndex
  <2>3. Count = IF head <= tail THEN tail - head ELSE tail - head + n
    BY <1>1, Distance DEF Count
  <2> QED
    BY <1>1, <1>2, <2>2, <2>3 DEF Index
<1>5. Contents \in Seq(Value) /\ Len(Contents) = Count
  <2>1. Contents = Between(buffer, head, tail) /\ Count = (tail - head) % n
    BY DEF Contents, Between, Count
  <2>2. buffer \in [Index -> Value]
    BY DEF TypeOK
  <2> QED
    BY <1>1, <2>1, <2>2, BetweenSeq
<1>6. Contents' \in Seq(Value) /\ Len(Contents') = Count + 1
  <2>1. Contents' = Between(buffer', head', tail') /\ Count' = (tail' - head') % n
    BY DEF Contents, Between, Count
  <2>2. buffer' \in [Index -> Value] /\ head' \in Index
    BY <1>1
  <2> QED
    BY <1>1, <1>2, <2>1, <2>2, BetweenSeq
<1>7. /\ Append(Contents, v) \in Seq(Value) /\ Len(Append(Contents, v)) = Count + 1
      /\ \A i \in 1 .. Count : Append(Contents, v)[i] = Contents[i]
      /\ Append(Contents, v)[Count + 1] = v
  BY <1>5, AppendProperties
<1>8. ASSUME NEW i \in 1 .. Count + 1 PROVE Contents'[i] = Append(Contents, v)[i]
  <2>1. Contents'[i] = buffer'[(head + i - 1) % n]
    BY <1>1, <1>2 DEF Contents
  <2>2. CASE i \in 1 .. Count
    <3>1. Contents'[i] = buffer[(head + i - 1) % n]
      BY <1>1, <1>3, <2>1, <2>2
    <3> QED
      BY <1>7, <2>2, <3>1 DEF Contents
  <2>3. CASE i = Count + 1
    BY <1>1, <1>4, <1>7, <2>1, <2>3
  <2>4. Count \in Int /\ i \in Int /\ 1 <= i /\ i <= Count + 1
    BY <1>1, <1>2
  <2>5. i \in 1 .. Count \/ i = Count + 1
    BY <2>4
  <2> QED
    BY <2>2, <2>3, <2>5
<1>9. Contents' = Append(Contents, v)
  BY <1>6, <1>7, <1>8, SeqEqual
<1> QED
  BY <1>1, <1>2, <1>5, <1>9

-----------------------------------------------------------------------------
(* The theorems.                                                           *)

LEMMA Invariance == Spec => []IndInv
  BY InitInv, StepInv, PTL DEF Spec

\* However the calls interleave, head and tail stay inside the buffer, the end
\* counts stay in 0 .. 1 and every caller's state keeps its type.
THEOREM PipeType == Spec => []TypeOK
<1>1. IndInv => TypeOK
  BY DEF IndInv
<1> QED
  BY <1>1, Invariance, PTL

\* No pid is ever in a wait list at or above the list's count, where the
\* wake-ups of pipe_read, pipe_write and pipe_close do not look.
THEOREM PipeWaiters == Spec => []WaitersCounted
<1>1. IndInv => WaitersCounted
  BY DEF IndInv
<1> QED
  BY <1>1, Invariance, PTL

\* pipe_space always is the number of bytes pipe_write can still store.
THEOREM PipeSpace == Spec => []SpaceExact
  BY SpaceOfTypes, PipeType, PTL

\* Who has looked for a free slot finds it free when it takes it, if nobody else
\* creates a pipe.
OneCreator == \A p, q \in Creator : p = q
CreateInv == \A p \in Pid : pc[p] = "create" => p \in Creator /\ ~used

LEMMA CreateInvariance == OneCreator => (Spec => []CreateInv)
<1> SUFFICES ASSUME OneCreator PROVE Spec => []CreateInv
  OBVIOUS
<1>1. Init => CreateInv
  BY DEF Init, CreateInv
<1>2. IndInv /\ CreateInv /\ [Next]_vars => CreateInv'
  <2> SUFFICES ASSUME IndInv, CreateInv, [Next]_vars PROVE CreateInv'
    OBVIOUS
  <2> USE DEF CreateInv, ring
  <2>0. pc \in [Pid -> Points] /\ used \in BOOLEAN
    BY DEF IndInv, TypeOK
  <2>1. ASSUME NEW p \in Pid, pipe_create(p) PROVE CreateInv'
    <3>1. p \in Creator /\ \A q \in Pid : pc[q] = "create" => q = p
      BY <2>1 DEF pipe_create, OneCreator
    <3> QED
      BY <2>0, <2>1, <3>1 DEF pipe_create
  <2>2. ASSUME NEW p \in Pid, pipe_close(p) PROVE CreateInv'
    <3>1. used' => used
      BY <2>2, Zenon DEF pipe_close
    <3> QED
      BY <2>0, <2>2, <3>1 DEF pipe_close
  <2>3. ASSUME NEW p \in Pid, Work(p), ~pipe_create(p), ~pipe_close(p) PROVE CreateInv'
    <3>1. CASE ReadCheck(p) \/ ReadEmpty(p) \/ WriteCheck(p) \/ WriteFull(p)
      BY <2>0, <3>1 DEF Points, ReadCheck, ReadEmpty, WriteCheck, WriteFull
    <3>2. CASE ReadAcquire(p) \/ WriteAcquire(p)
      BY <2>0, <3>2 DEF Points, ReadAcquire, WriteAcquire
    <3>3. CASE ReadByte(p) \/ \E v \in Value : WriteByte(p, v)
      BY <2>0, <3>3 DEF ReadByte, WriteByte
    <3>4. CASE ReadEnd(p)
      BY <2>0, <3>4 DEF Points, ReadEnd
    <3>5. CASE WriteEnd(p)
      BY <2>0, <3>5 DEF Points, WriteEnd
    <3>6. CASE ReadWait(p) \/ WriteWait(p)
      BY <2>0, <3>6 DEF Points, ReadWait, WriteWait
    <3>7. CASE process_block_current(p) \/ Resumed(p) \/ CloseWake(p)
      BY <2>0, <3>7 DEF Points, process_block_current, Resumed, CloseWake
    <3> QED
      BY <2>3, <3>1, <3>2, <3>3, <3>4, <3>5, <3>6, <3>7 DEF Work
  <2>4. ASSUME NEW p \in Pid, Request(p) PROVE CreateInv'
    BY <2>0, <2>4 DEF Request, CreateLook, CloseLook, ReadCall, WriteCall
  <2>5. CASE UNCHANGED vars
    BY <2>5 DEF vars
  <2> QED
    BY <2>1, <2>2, <2>3, <2>4, <2>5 DEF Next
<1> QED
  BY <1>1, <1>2, Invariance, PTL DEF Spec

\* For every buffer size, number of processes and interleaving, a pipe with one
\* creator is a bounded FIFO of bytes from its creation to its close.
THEOREM PipeImplementsFifo == OneCreator => (Spec => ImplementsFifo)
<1> SUFFICES ASSUME OneCreator PROVE Spec => ImplementsFifo
  OBVIOUS
<1> DEFINE queue == IF used THEN Contents ELSE <<>>
<1>1. Init => Fifo!Init
  BY DEF Init, Fifo!Init
<1>2. IndInv /\ IndInv' /\ CreateInv /\ [Next]_vars => [Fifo!Next]_<<used, queue>>
  <2> SUFFICES ASSUME IndInv, IndInv', CreateInv, [Next]_vars
               PROVE  [Fifo!Next]_<<used, queue>>
    OBVIOUS
  <2>0. TypeOK /\ TypeOK' /\ LockInv
    BY DEF IndInv
  <2>1. ASSUME NEW p \in Pid, pipe_create(p) PROVE Fifo!Create
    <3>1. ~used /\ used' /\ head' = 0 /\ tail' = 0
      BY <2>1 DEF pipe_create, CreateInv
    <3>2. Count' = 0
      BY <3>1, PipeAssumption, ModRange DEF Count
    <3>3. Contents' = <<>>
      BY <3>2 DEF Contents
    <3> QED
      BY <2>0, <3>1, <3>3 DEF Fifo!Create, TypeOK
  <2>2. ASSUME NEW p \in Pid, ReadByte(p) PROVE Fifo!Take \/ UNCHANGED <<used, queue>>
    <3>1. Contents # <<>> /\ Contents' = Tail(Contents) /\ used' = used
      BY <2>0, <2>2, ReadByteTakes DEF ReadByte
    <3> QED
      BY <3>1 DEF Fifo!Take
  <2>3. ASSUME NEW p \in Pid, NEW v \in Value, WriteByte(p, v) PROVE Fifo!Put(v)
    <3>1. Len(Contents) < PIPE_BUFFER_SIZE - 1 /\ Contents' = Append(Contents, v)
      BY <2>0, <2>3, WriteByteAppends
    <3>2. used /\ used' = used
      BY <2>0, <2>3 DEF WriteByte, LockInv
    <3> QED
      BY <3>1, <3>2 DEF Fifo!Put
  <2>4. ASSUME NEW p \in Pid, pipe_close(p) PROVE Fifo!Close \/ UNCHANGED <<used, queue>>
    <3>1. readers' = 0 /\ writers' = 0
      BY <2>0, <2>4 DEF pipe_close, TypeOK
    <3>2. used' = FALSE
      BY <2>4, <3>1, Zenon DEF pipe_close
    <3> QED
      BY <2>0, <3>2 DEF Fifo!Close, TypeOK
  <2>5. ASSUME NEW p \in Pid, Work(p), ~pipe_create(p), ~ReadByte(p), ~pipe_close(p),
               \A v \in Value : ~WriteByte(p, v)
        PROVE  UNCHANGED <<used, queue>>
    <3>1. UNCHANGED <<buffer, head, tail, used>>
      BY <2>5 DEF Work, ReadCheck, ReadAcquire, ReadEnd, ReadEmpty, ReadWait, WriteCheck,
         WriteAcquire, WriteEnd, WriteFull, WriteWait, process_block_current, Resumed,
         CloseWake, ring
    <3> QED
      BY <3>1 DEF Contents, Count
  <2>6. ASSUME NEW p \in Pid, Request(p) PROVE UNCHANGED <<used, queue>>
    <3>1. UNCHANGED <<buffer, head, tail, used>>
      BY <2>6 DEF Request, CreateLook, CloseLook, ReadCall, WriteCall, ring
    <3> QED
      BY <3>1 DEF Contents, Count
  <2>7. CASE UNCHANGED vars
    BY <2>7 DEF vars, ring, Contents, Count
  <2> QED
    BY <2>1, <2>2, <2>3, <2>4, <2>5, <2>6, <2>7 DEF Next, Fifo!Next
<1>3. Spec => []CreateInv
  BY CreateInvariance
<1> QED
  BY <1>1, <1>2, <1>3, Invariance, PTL DEF Spec, ImplementsFifo, Fifo!Spec
=============================================================================
