----------------------------- MODULE Semaphore -----------------------------
(***************************************************************************)
(* One slot of semaphores[], src/harlin/proc/ipc.c, and processes on one   *)
(* CPU that run the documented pattern Harlin_SemWait; section;            *)
(* Harlin_SemPost, which looks at no result: a wait that was refused goes  *)
(* on into the section too.  A call runs without interruption, as in       *)
(* MsgQueue.                                                               *)
(*                                                                         *)
(* at[p] is where process p is in its program, "out" of the section or     *)
(* "in" it; saved[p] is the point its saved rip names.  timer_handler      *)
(* saves rip at every tick; process_block_current does not, so a process   *)
(* that blocks does not return from Harlin_SemWait: it is resumed where    *)
(* the last tick found it.                                                 *)
(***************************************************************************)
EXTENDS Integers, Sequences, FiniteSets, SequencesExt

CONSTANTS SemPid,
          MaxBlockedProcs,     \* length of blocked_procs
          Initials             \* arguments of Harlin_SemCreate

ASSUME SemaphoreAssumption ==
  /\ SemPid # {} /\ MaxBlockedProcs \in Nat \ {0} /\ Initials \subseteq Int

VARIABLES sem_used, sem_count, blocked_procs, sem_asleep, at, saved,
          running,             \* the process on the CPU; any value when all are asleep
          initial,             \* history: units the semaphore was created with
          holder,              \* history: processes with a unit of this semaphore
          astray,              \* history: those whose wait was refused, or whose
                               \* semaphore was destroyed, since they went in
          made                 \* history: units posted by processes that had none

history == <<initial, holder, astray, made>>
sem_vars == <<sem_used, sem_count, blocked_procs, sem_asleep, at, saved, running, history>>

Runs(p) == running = p /\ p \notin sem_asleep

SemInit ==
  /\ sem_used = FALSE /\ sem_count = 0 /\ blocked_procs = <<>> /\ sem_asleep = {}
  /\ at = [p \in SemPid |-> "out"] /\ saved = [p \in SemPid |-> "out"]
  /\ running \in SemPid /\ initial = 0 /\ holder = {} /\ astray = {} /\ made = 0

\* A negative argument counts as 0.  Users of the slot's former semaphore may
\* still be in their sections.
Harlin_SemCreate(n) ==
  /\ ~sem_used /\ sem_used' = TRUE
  /\ sem_count' = IF n < 0 THEN 0 ELSE n
  /\ blocked_procs' = <<>>
  /\ initial' = sem_count' /\ made' = 0
  /\ UNCHANGED <<sem_asleep, at, saved, running, holder, astray>>

SemTake(p) ==
  /\ sem_count > 0 /\ sem_count' = sem_count - 1
  /\ at' = [at EXCEPT ![p] = "in"] /\ holder' = holder \cup {p}
  /\ UNCHANGED <<sem_used, blocked_procs, sem_asleep, saved, running, initial, astray, made>>

\* schedule() then dispatches another process.
SemBlock(p) ==
  /\ sem_count <= 0 /\ Len(blocked_procs) < MaxBlockedProcs
  /\ blocked_procs' = Append(blocked_procs, p)
  /\ sem_asleep' = sem_asleep \cup {p}
  /\ at' = [at EXCEPT ![p] = saved[p]]
  /\ running' \in IF sem_asleep' = SemPid THEN {p} ELSE SemPid \ sem_asleep'
  /\ UNCHANGED <<sem_used, sem_count, saved, history>>

\* The call returns -1: the slot is not in use, or the list is full.
WaitRefused(p) ==
  /\ ~sem_used \/ (sem_count <= 0 /\ Len(blocked_procs) = MaxBlockedProcs)
  /\ at' = [at EXCEPT ![p] = "in"] /\ astray' = astray \cup {p}
  /\ UNCHANGED <<sem_used, sem_count, blocked_procs, sem_asleep, saved, running,
                 initial, holder, made>>

Harlin_SemWait(p) ==
  /\ Runs(p) /\ at[p] = "out"
  /\ \/ sem_used /\ (SemTake(p) \/ SemBlock(p))
     \/ WaitRefused(p)

\* Mutated PostCount: a sleeper is woken for the unit without counting it.
PostHandsOver == sem_count' = IF blocked_procs = <<>> THEN sem_count + 1 ELSE sem_count

PostCount == sem_count' = sem_count + 1

\* Mutated PostList: the woken process stays listed.
PostKeepsEntry == blocked_procs' = blocked_procs

PostList == blocked_procs' = IF blocked_procs = <<>> THEN <<>> ELSE Tail(blocked_procs)

Harlin_SemPost(p) ==
  /\ sem_used /\ Runs(p) /\ at[p] = "in"
  /\ PostCount /\ PostList
  /\ sem_asleep' = sem_asleep \ IF blocked_procs = <<>> THEN {} ELSE {Head(blocked_procs)}
  /\ at' = [at EXCEPT ![p] = "out"]
  /\ holder' = holder \ {p} /\ astray' = astray \ {p}
  /\ made' = IF p \in holder THEN made ELSE made + 1
  /\ UNCHANGED <<sem_used, saved, running, initial>>

\* The call on a destroyed slot returns -1.
PostRefused(p) ==
  /\ ~sem_used /\ Runs(p) /\ at[p] = "in"
  /\ at' = [at EXCEPT ![p] = "out"] /\ astray' = astray \ {p}
  /\ UNCHANGED <<sem_used, sem_count, blocked_procs, sem_asleep, saved, running,
                 initial, holder, made>>

\* The list is left as it is; the units are gone.
Harlin_SemDestroy ==
  /\ sem_used /\ sem_used' = FALSE
  /\ sem_asleep' = sem_asleep \ ToSet(blocked_procs)
  /\ holder' = {} /\ astray' = astray \cup holder
  /\ UNCHANGED <<sem_count, blocked_procs, at, saved, running, initial, made>>

\* Mutated timer_handler: the frame is saved only if the process keeps the CPU.
TickSwitchUnsaved(p) ==
  /\ Runs(p) /\ running' \in SemPid \ sem_asleep
  /\ saved' = IF running' = p THEN [saved EXCEPT ![p] = at[p]] ELSE saved
  /\ at' = IF running' = p THEN at ELSE [at EXCEPT ![p] = saved[p]]
  /\ UNCHANGED <<sem_used, sem_count, blocked_procs, sem_asleep, history>>

\* A tick saves the frame; when the slice has ended another process may run.
timer_handler(p) ==
  /\ Runs(p) /\ running' \in SemPid \ sem_asleep
  /\ saved' = [saved EXCEPT ![p] = at[p]]
  /\ UNCHANGED <<sem_used, sem_count, blocked_procs, sem_asleep, at, history>>

SemNext ==
  \/ \E p \in SemPid : Harlin_SemWait(p) \/ Harlin_SemPost(p) \/ PostRefused(p) \/ timer_handler(p)
  \/ sem_asleep # SemPid /\ (Harlin_SemDestroy \/ \E n \in Initials : Harlin_SemCreate(n))

-----------------------------------------------------------------------------
\* The fields keep their types; the count is never negative.
SemTypeOK ==
  /\ sem_used \in BOOLEAN /\ sem_count \in Nat
  /\ blocked_procs \in Seq(SemPid) /\ Len(blocked_procs) <= MaxBlockedProcs
  /\ sem_asleep \subseteq SemPid /\ holder \subseteq SemPid /\ running \in SemPid
  /\ at \in [SemPid -> {"in", "out"}] /\ saved \in [SemPid -> {"in", "out"}]
  /\ initial \in Nat /\ made \in Nat /\ astray \subseteq SemPid

\* While the semaphore exists the sleepers are exactly the processes of
\* blocked_procs, each listed once, so Harlin_SemPost never spends its wake-up on
\* a process that is already awake.
SemSleepersListed ==
  IF sem_used THEN sem_asleep = ToSet(blocked_procs) /\ IsInjective(blocked_procs) ELSE sem_asleep = {}

\* With positive initial counts, units are neither lost nor made but by a post of a
\* process that had none: those counted and those held add up to the initial
\* number and such posts, although a woken process starts its wait all over, and
\* whatever sections outlive the semaphore they were entered under.
UnitsConserved == sem_used => sem_count + Cardinality(holder) = initial + made

\* The tutorial calls Harlin_SemWait the P operation: a process past it, in its
\* section, has taken a unit of the semaphore.  With positive initial counts the
\* exceptions are a refused wait and a semaphore destroyed meanwhile; a process
\* that blocked, and is resumed at an earlier instruction, is none.
PassesWithUnit == \A p \in SemPid : at[p] = "in" => p \in holder \cup astray
=============================================================================
