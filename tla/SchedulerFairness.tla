------------------------- MODULE SchedulerFairness -------------------------
(***************************************************************************)
(* How long a ready process waits under pick_next_process, on one CPU.     *)
(* Two history variables beside Scheduler: waited[p] counts the ticks      *)
(* charged to other processes since p became READY, owed[p] what the keys  *)
(* at that moment, and the processes created since, entitle the others to. *)
(***************************************************************************)
EXTENDS Scheduler, FiniteSetsExt

VARIABLES waited, owed

fvars == <<vars, waited, owed>>

\* q runs until its key passes p's, and then to the end of its slice.
Entitled(p, kp, kq) == (IF kp > kq THEN kp - kq ELSE 0) + DEFAULT_TIME_SLICE

FairInit == Init /\ waited = [p \in Proc |-> 0] /\ owed = [p \in Proc |-> 0]

\* Slots that become a new process in this step, with key 0.
Born == {q \in Proc : state'[q] = "READY" /\ (state[q] = "NONE" \/ q \in loading)}

Live == {q \in Proc : state'[q] # "NONE" /\ q \notin loading'}

Charged == IF tick_count' # tick_count /\ current[BSP] # NoProc THEN 1 ELSE 0

History ==
  /\ waited' = [p \in Proc |-> IF state[p] = "READY" /\ state'[p] = "READY"
                               THEN waited[p] + Charged ELSE 0]
  /\ owed' = [p \in Proc |->
       IF state'[p] # "READY" THEN 0
       ELSE IF state[p] = "READY" /\ p \notin Born
            THEN owed[p] + MapThenSumSet(LAMBDA q : Entitled(p, fair_key[p], 0), Born)
            ELSE MapThenSumSet(LAMBDA q : Entitled(p, fair_key'[p], fair_key'[q]), Live \ {p})]

FairSpec == FairInit /\ [][Next /\ History]_fvars

\* No starvation while no process is created: a READY process is passed over for
\* at most the ticks by which the others are behind it, plus one slice each.
BoundedWait == \A p \in Proc : state[p] = "READY" => waited[p] <= owed[p]
=============================================================================
