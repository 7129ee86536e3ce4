-------------------------- MODULE WaitTableProofs --------------------------
(***************************************************************************)
(* Proofs about the exit table, for any number of slots, children and      *)
(* codes.  TypeOK /\ OneRecord is inductive; the refinement needs it,      *)
(* because with two records of a child a wait would leave a code behind.   *)
(***************************************************************************)
EXTENDS WaitTable, TLAPS

IInv == TypeOK /\ OneRecord

LEMMA InitInv == Init => IInv
BY DEF Init, IInv, TypeOK, OneRecord, Record

\* Each operation of the table keeps it well typed and free of duplicates.
LEMMA StepInv == IInv /\ [Next]_vars => IInv'
<1> SUFFICES ASSUME IInv, [Next]_vars PROVE IInv'
  OBVIOUS
<1> USE DEF IInv, TypeOK, OneRecord, Record
<1>1. CASE \E p \in Pid : Harlin_Wait(p)
  <2>1. PICK p \in Pid, i \in Slot :
           /\ exits[i].used /\ exits[i].child_pid = p
           /\ got' = <<p, exits[i].code>>
           /\ exits' = IF exits[i].reaped THEN exits ELSE Emptied(i)
    BY <1>1 DEF Harlin_Wait, First, Of
  <2>2. exits' = Emptied(i)
    BY <2>1
  <2> QED BY <2>1, <2>2 DEF Emptied
<1>2. CASE Harlin_WaitAny
  <2>1. PICK i \in Slot : /\ exits[i].used
                          /\ got' = <<exits[i].child_pid, exits[i].code>>
                          /\ exits' = Emptied(i)
    BY <1>2 DEF Harlin_WaitAny, First
  <2> QED BY <2>1 DEF Emptied
<1>3. CASE \E p \in Pid, c \in Code : NotifyAgain(p, c)
  <2>1. PICK p \in Pid, c \in Code, i \in Slot :
           /\ exits[i].used /\ exits[i].child_pid = p
           /\ exits' = [exits EXCEPT ![i].code = c] /\ got' = got
    BY <1>3 DEF NotifyAgain, First, Of
  <2> QED BY <2>1
<1>4. CASE \E p \in Pid, c \in Code : NotifyNew(p, c)
  <2>1. PICK p \in Pid, c \in Code, i \in Slot :
           /\ \A j \in Slot : ~(exits[j].used /\ exits[j].child_pid = p)
           /\ exits' = Filled(i, p, c) /\ got' = got
    BY <1>4 DEF NotifyNew, First, Of
  <2> QED BY <2>1 DEF Filled
<1>5. CASE UNCHANGED vars
  BY <1>5 DEF vars
<1> QED BY <1>1, <1>2, <1>3, <1>4, <1>5 DEF Next, Harlin_NotifyExit

THEOREM Invariance == Spec => []IInv
BY InitInv, StepInv, PTL DEF Spec

\* Every record and the result of every wait have their types, whatever the size
\* of the table.
THEOREM WaitType == Spec => []TypeOK
BY Invariance, PTL DEF IInv

\* No sequence of notices and waits gives a child two records or leaves a record
\* in use that a wait would not take.
THEOREM WaitOneRecord == Spec => []OneRecord
BY Invariance, PTL DEF IInv

-----------------------------------------------------------------------------
\* The code of a child in a table e, so that the lemmas below speak of the table
\* before and after a step alike.
Has(e, i, p) == e[i].used /\ e[i].child_pid = p
CodeAt(e, p) ==
  IF {i \in Slot : Has(e, i, p)} = {} THEN None
  ELSE e[CHOOSE i \in Slot : i \in {j \in Slot : Has(e, j, p)}].code

LEMMA CodeOfIsCodeAt == \A p : CodeOf(p) = CodeAt(exits, p) /\ CodeOf(p)' = CodeAt(exits', p)
BY DEF CodeOf, CodeAt, Of, Has

\* The code of a child with one record is that record's.
LEMMA CodeAtHeld ==
  ASSUME NEW e, NEW p, NEW i \in Slot, Has(e, i, p), \A j \in Slot : Has(e, j, p) => j = i
  PROVE  CodeAt(e, p) = e[i].code
<1> DEFINE S == {j \in Slot : Has(e, j, p)}
<1>1. S # {} /\ (CHOOSE j \in Slot : j \in S) = i
  OBVIOUS
<1> QED BY <1>1 DEF CodeAt

LEMMA CodeAtNone ==
  ASSUME NEW e, NEW p, \A i \in Slot : ~Has(e, i, p)
  PROVE  CodeAt(e, p) = None
BY DEF CodeAt

\* A child whose records a step leaves alone keeps its code.
LEMMA CodeAtSame ==
  ASSUME NEW e, NEW f, NEW p,
         \A i \in Slot : Has(e, i, p) <=> Has(f, i, p),
         \A i \in Slot : Has(e, i, p) => e[i].code = f[i].code
  PROVE  CodeAt(e, p) = CodeAt(f, p)
<1> DEFINE S == {j \in Slot : Has(e, j, p)}
<1>1. S = {j \in Slot : Has(f, j, p)}
  OBVIOUS
<1>2. CASE S = {}
  BY <1>1, <1>2 DEF CodeAt
<1>3. CASE S # {}
  <2>1. (CHOOSE j \in Slot : j \in S) \in S
    BY <1>3
  <2> QED BY <1>1, <1>3, <2>1 DEF CodeAt
<1> QED BY <1>2, <1>3

\* Emptying the only record of a child takes its code and leaves the others.
LEMMA EmptyingReaps ==
  ASSUME IInv, NEW i \in Slot, exits[i].used, exits' = Emptied(i),
         got' = <<exits[i].child_pid, exits[i].code>>
  PROVE  Records!Reap(exits[i].child_pid)
<1>0. PICK q : q = exits[i].child_pid
  OBVIOUS
<1>1. /\ q \in Pid /\ exits[i].code \in Code
      /\ \A j \in Slot : Has(exits, j, q) => j = i
  BY <1>0 DEF IInv, OneRecord, Has
<1>2. /\ ~exits'[i].used
      /\ \A j \in Slot : j # i => exits'[j] = exits[j]
  BY DEF Emptied, IInv, TypeOK, Record
<1>3. CodeOf(q) = exits[i].code /\ CodeOf(q) # None
  BY <1>0, <1>1, CodeAtHeld, CodeOfIsCodeAt, WaitAssumption DEF Has
<1>4. CodeOf(q)' = None
  <2>1. \A j \in Slot : ~Has(exits', j, q)
    BY <1>1, <1>2 DEF Has
  <2> QED BY <2>1, CodeAtNone, CodeOfIsCodeAt
<1>5. ASSUME NEW p \in Pid, p # q PROVE CodeOf(p)' = CodeOf(p)
  <2>1. \A j \in Slot : Has(exits, j, p) <=> Has(exits', j, p)
    BY <1>0, <1>2, <1>5 DEF Has
  <2>2. \A j \in Slot : Has(exits, j, p) => exits[j].code = exits'[j].code
    BY <1>0, <1>2, <1>5 DEF Has
  <2> QED BY <2>1, <2>2, CodeAtSame, CodeOfIsCodeAt
<1>6. [p \in Pid |-> CodeOf(p)]' = [[p \in Pid |-> CodeOf(p)] EXCEPT ![q] = None]
  BY <1>1, <1>4, <1>5
<1> QED BY <1>0, <1>1, <1>3, <1>6 DEF Records!Reap

\* Writing code c into the only record child q then has sets its code.
LEMMA WritingExits ==
  ASSUME IInv, NEW q \in Pid, NEW c \in Code, NEW i \in Slot,
         Has(exits', i, q), exits'[i].code = c,
         \A j \in Slot : Has(exits, j, q) => j = i,
         \A p \in Pid : Has(exits, i, p) => p = q,
         \A j \in Slot : j # i => exits'[j] = exits[j],
         got' = got
  PROVE  Records!Exit(q, c)
<1>1. CodeOf(q)' = c
  <2>1. \A j \in Slot : Has(exits', j, q) => j = i
    BY DEF Has
  <2> QED BY <2>1, CodeAtHeld, CodeOfIsCodeAt
<1>2. ASSUME NEW p \in Pid, p # q PROVE CodeOf(p)' = CodeOf(p)
  <2>1. ~Has(exits, i, p) /\ ~Has(exits', i, p)
    BY <1>2 DEF Has
  <2>2. \A j \in Slot : Has(exits, j, p) <=> Has(exits', j, p)
    BY <2>1 DEF Has
  <2>3. \A j \in Slot : Has(exits, j, p) => exits[j].code = exits'[j].code
    BY <2>1
  <2> QED BY <2>2, <2>3, CodeAtSame, CodeOfIsCodeAt
<1>3. [p \in Pid |-> CodeOf(p)]' = [[p \in Pid |-> CodeOf(p)] EXCEPT ![q] = c]
  BY <1>1, <1>2
<1> QED BY <1>3 DEF Records!Exit

LEMMA InitRefines == Init => Records!Init
<1> SUFFICES ASSUME Init PROVE Records!Init
  OBVIOUS
<1>1. \A p \in Pid : \A i \in Slot : ~Has(exits, i, p)
  BY DEF Init, Has
<1>2. \A p \in Pid : CodeOf(p) = None
  BY <1>1, CodeAtNone, CodeOfIsCodeAt
<1> QED BY <1>2 DEF Records!Init, Init

LEMMA StepRefines ==
  IInv /\ [Next]_vars => [Records!Next]_<<[p \in Pid |-> CodeOf(p)], got>>
<1> SUFFICES ASSUME IInv, [Next]_vars
             PROVE  Records!Next \/ UNCHANGED <<[p \in Pid |-> CodeOf(p)], got>>
  OBVIOUS
<1>1. CASE \E p \in Pid : Harlin_Wait(p)
  <2>1. PICK p \in Pid, i \in Slot :
           /\ exits[i].used /\ exits[i].child_pid = p
           /\ got' = <<p, exits[i].code>>
           /\ exits' = IF exits[i].reaped THEN exits ELSE Emptied(i)
    BY <1>1 DEF Harlin_Wait, First, Of
  <2>2. exits' = Emptied(i)
    BY <2>1 DEF IInv, OneRecord
  <2>3. Records!Reap(p)
    BY <2>1, <2>2, EmptyingReaps
  <2> QED BY <2>3 DEF Records!Next
<1>2. CASE Harlin_WaitAny
  <2>1. PICK i \in Slot : /\ exits[i].used
                          /\ got' = <<exits[i].child_pid, exits[i].code>>
                          /\ exits' = Emptied(i)
    BY <1>2 DEF Harlin_WaitAny, First
  <2>2. exits[i].child_pid \in Pid
    BY <2>1 DEF IInv, OneRecord
  <2> QED BY <2>1, <2>2, EmptyingReaps DEF Records!Next
<1>3. CASE \E p \in Pid, c \in Code : NotifyAgain(p, c)
  <2>1. PICK p \in Pid, c \in Code, i \in Slot :
           /\ exits[i].used /\ exits[i].child_pid = p
           /\ exits' = [exits EXCEPT ![i].code = c] /\ got' = got
    BY <1>3 DEF NotifyAgain, First, Of
  <2>2. /\ Has(exits', i, p) /\ exits'[i].code = c
        /\ \A j \in Slot : j # i => exits'[j] = exits[j]
    BY <2>1 DEF Has, IInv, TypeOK, Record
  <2>3. /\ \A j \in Slot : Has(exits, j, p) => j = i
        /\ \A q \in Pid : Has(exits, i, q) => q = p
    BY <2>1 DEF Has, IInv, OneRecord
  <2>4. Records!Exit(p, c)
    BY <2>1, <2>2, <2>3, WritingExits
  <2> QED BY <2>4 DEF Records!Next
<1>4. CASE \E p \in Pid, c \in Code : NotifyNew(p, c)
  <2>1. PICK p \in Pid, c \in Code, i \in Slot :
           /\ \A j \in Slot : ~(exits[j].used /\ exits[j].child_pid = p)
           /\ ~exits[i].used
           /\ exits' = Filled(i, p, c) /\ got' = got
    BY <1>4 DEF NotifyNew, First, Of, Unused
  <2>2. /\ Has(exits', i, p) /\ exits'[i].code = c
        /\ \A j \in Slot : j # i => exits'[j] = exits[j]
    BY <2>1 DEF Has, Filled, IInv, TypeOK, Record
  <2>3. /\ \A j \in Slot : Has(exits, j, p) => j = i
        /\ \A q \in Pid : Has(exits, i, q) => q = p
    BY <2>1 DEF Has
  <2>4. Records!Exit(p, c)
    BY <2>1, <2>2, <2>3, WritingExits
  <2> QED BY <2>4 DEF Records!Next
<1>5. CASE UNCHANGED vars
  BY <1>5, CodeOfIsCodeAt DEF vars
<1> QED BY <1>1, <1>2, <1>3, <1>4, <1>5 DEF Next, Harlin_NotifyExit

\* The exit table is a map from children to codes in which a code is taken once,
\* for any table size and any order of Harlin_NotifyExit, Harlin_Wait and
\* Harlin_WaitAny.
THEOREM WaitImplementsExitRecord == Spec => ImplementsExitRecord
BY Invariance, InitRefines, StepRefines, PTL DEF Spec, ImplementsExitRecord, Records!Spec
=============================================================================
