------------------------------- MODULE Tables -------------------------------
(***************************************************************************)
(* The kernel's small tables, each with callers of its own: the exit table *)
(* and the read cache.  They share no state, so every behaviour of both    *)
(* projects to a behaviour of each, and a behaviour here uses one of them. *)
(***************************************************************************)
EXTENDS WaitTable, ReadCache, TLC

VARIABLE uses            \* the table this behaviour uses

all_vars == <<vars, cache_vars, uses>>

TablesInit == Init /\ CacheInit /\ uses \in {"exits", "cache"}

TablesNext ==
  \/ uses = "exits" /\ Next /\ UNCHANGED <<cache_vars, uses>>
  \/ uses = "cache" /\ CacheNext /\ UNCHANGED <<vars, uses>>

\* Which page a slot gets is of no account.
PageSymmetry == Permutations(Page)

TablesSpec == TablesInit /\ [][TablesNext]_all_vars

\* The exit table and the cache keep their types.
TablesTypeOK == TypeOK /\ CacheTypeOK
=============================================================================
