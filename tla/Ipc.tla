-------------------------------- MODULE Ipc --------------------------------
(***************************************************************************)
(* The two halves of src/harlin/proc/ipc.c.  queues[] and semaphores[]     *)
(* share no state, so every behaviour of both projects to a behaviour of   *)
(* each, and a behaviour here uses one of them.                            *)
(***************************************************************************)
EXTENDS MsgQueue, Semaphore

VARIABLE uses            \* which half this behaviour uses

vars == <<msg_vars, sem_vars, uses>>

Init == MsgInit /\ SemInit /\ uses \in {"queue", "semaphore"}

Next ==
  \/ uses = "queue" /\ MsgNext /\ UNCHANGED <<sem_vars, uses>>
  \/ uses = "semaphore" /\ SemNext /\ UNCHANGED <<msg_vars, uses>>

Spec == Init /\ [][Next]_vars

\* queues[] and semaphores[] keep their types.
IpcTypeOK == MsgTypeOK /\ SemTypeOK
=============================================================================
