----------------------------- MODULE WaitTable -----------------------------
(***************************************************************************)
(* The exit table of src/harlin/proc/wait.c: a fixed array of exit         *)
(* records, filled by Harlin_NotifyExit and emptied by Harlin_Wait and     *)
(* Harlin_WaitAny.                                                         *)
(***************************************************************************)
EXTENDS Integers

CONSTANTS WAIT_MAX_EXITS, Pid, Code, None

ASSUME WaitAssumption == WAIT_MAX_EXITS \in Nat /\ None \notin Code

VARIABLES exits,
          got        \* the child and the code the last wait that succeeded returned

vars == <<exits, got>>

Slot == 0 .. WAIT_MAX_EXITS - 1
Record == [used : BOOLEAN, child_pid : Pid \cup {0}, code : Code \cup {0}, reaped : BOOLEAN]

\* Harlin_WaitInit, run once.
Init ==
  /\ exits = [i \in Slot |-> [used |-> FALSE, child_pid |-> 0, code |-> 0, reaped |-> FALSE]]
  /\ got = <<None, None>>

\* Slot i is the first of the slots S.
First(i, S) == i \in S /\ \A j \in S : i <= j
Of(p) == {i \in Slot : exits[i].used /\ exits[i].child_pid = p}
Unused == {i \in Slot : ~exits[i].used}

\* Mutated Filled: the pid and the code change places.
FilledSwapped(i, p, c) ==
  [exits EXCEPT ![i] = [used |-> TRUE, child_pid |-> c, code |-> p, reaped |-> FALSE]]

\* Mutated Filled: the mark of the slot's last record is not cleared.
FilledStale(i, p, c) == [exits EXCEPT ![i].used = TRUE, ![i].child_pid = p, ![i].code = c]

Filled(i, p, c) ==
  [exits EXCEPT ![i] = [used |-> TRUE, child_pid |-> p, code |-> c, reaped |-> FALSE]]

\* Mutated NotifyNew: the table is not searched for the child.
NotifyDuplicate(p, c) ==
  \E i \in Slot : First(i, Unused) /\ exits' = Filled(i, p, c) /\ UNCHANGED got

\* A second notice of a child replaces its code; a full table refuses a first.
NotifyAgain(p, c) ==
  \E i \in Slot : First(i, Of(p)) /\ exits' = [exits EXCEPT ![i].code = c] /\ UNCHANGED got
NotifyNew(p, c) ==
  /\ Of(p) = {}
  /\ \E i \in Slot : First(i, Unused) /\ exits' = Filled(i, p, c) /\ UNCHANGED got
Harlin_NotifyExit(p, c) == NotifyAgain(p, c) \/ NotifyNew(p, c)

Emptied(i) == [exits EXCEPT ![i].reaped = TRUE, ![i].used = FALSE]

\* A record that was already marked as reaped would stay in the table.
Harlin_Wait(p) ==
  \E i \in Slot :
    /\ First(i, Of(p))
    /\ got' = <<p, exits[i].code>>
    /\ exits' = IF exits[i].reaped THEN exits ELSE Emptied(i)

Harlin_WaitAny ==
  \E i \in Slot :
    /\ First(i, {j \in Slot : exits[j].used /\ ~exits[j].reaped})
    /\ got' = <<exits[i].child_pid, exits[i].code>>
    /\ exits' = Emptied(i)

Next ==
  \/ \E p \in Pid : Harlin_Wait(p) \/ \E c \in Code : Harlin_NotifyExit(p, c)
  \/ Harlin_WaitAny

Spec == Init /\ [][Next]_vars

-----------------------------------------------------------------------------
\* The records and the last result have their types.
TypeOK == exits \in [Slot -> Record] /\ got \in (Pid \cup {None}) \X (Code \cup {None})

\* No child has two records, and no record in use is marked as reaped: so a code
\* can be taken, and once taken is gone.
OneRecord ==
  /\ \A i, j \in Slot : exits[i].used /\ exits[j].used
                          /\ exits[i].child_pid = exits[j].child_pid => i = j
  /\ \A i \in Slot : exits[i].used => ~exits[i].reaped /\ exits[i].child_pid \in Pid
                                      /\ exits[i].code \in Code

\* The code a waiter of child p would get.
CodeOf(p) == IF Of(p) = {} THEN None ELSE exits[CHOOSE i \in Slot : i \in Of(p)].code

Records == INSTANCE ExitRecord WITH exited <- [p \in Pid |-> CodeOf(p)]

\* The table is a map from children to codes in which a code is taken once, for
\* any order of notices, waits and waits for any child.
ImplementsExitRecord == Records!Spec
=============================================================================
