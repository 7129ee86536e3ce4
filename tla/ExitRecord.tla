----------------------------- MODULE ExitRecord -----------------------------
(***************************************************************************)
(* What the exit table promises: the code a child left is kept until a     *)
(* waiter takes it, and is taken once.                                     *)
(***************************************************************************)
CONSTANTS Pid, Code, None

VARIABLES exited,    \* exited[p]: the code p left that nobody has taken, or None
          got        \* the child and the code the last wait that succeeded returned

Init == exited = [p \in Pid |-> None] /\ got = <<None, None>>

Exit(p, c) == exited' = [exited EXCEPT ![p] = c] /\ UNCHANGED got

Reap(p) ==
  /\ exited[p] # None
  /\ exited' = [exited EXCEPT ![p] = None]
  /\ got' = <<p, exited[p]>>

Next == \E p \in Pid : Reap(p) \/ \E c \in Code : Exit(p, c)

Spec == Init /\ [][Next]_<<exited, got>>
=============================================================================
