--------------------------- MODULE PageAllocator ---------------------------
(***************************************************************************)
(* What the physical memory manager promises its callers, without bitmap,  *)
(* cursor or scan order: a client is given pages that nobody holds, keeps  *)
(* them until it gives them back, and no page is ever held twice.          *)
(***************************************************************************)
CONSTANTS Client,     \* the callers of the allocator
          Page        \* the pages it may hand out

VARIABLE held         \* held[c]: the pages client c was given and has not freed

Free == {p \in Page : \A c \in Client : p \notin held[c]}

Init == held = [c \in Client |-> {}]

Acquire(c) ==
  \E S \in SUBSET Free :
     /\ S # {}
     /\ held' = [held EXCEPT ![c] = @ \cup S]

Release(c) ==
  \E p \in held[c] : held' = [held EXCEPT ![c] = @ \ {p}]

Next == \E c \in Client : Acquire(c) \/ Release(c)

Spec == Init /\ [][Next]_held
=============================================================================
