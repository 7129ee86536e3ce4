----------------------------- MODULE ReadCache -----------------------------
(***************************************************************************)
(* The read cache, src/harlin/fs/page_cache.c: slots that each own a       *)
(* physical page taken from the page allocator, replaced by age.  Every    *)
(* page put is also mapped in a window of kernel addresses that wraps      *)
(* round.  The hit and miss counts are left out: nothing reads them but    *)
(* the statistics calls.                                                   *)
(***************************************************************************)
EXTENDS Integers, FiniteSets, FiniteSetsExt

CONSTANTS RC_BUCKETS, Key,
          Page,              \* physical pages; 0 is none
          WindowPages,       \* pages of the mapping window
          MaxTick            \* bound on tick_counter

ASSUME CacheAssumption ==
  /\ RC_BUCKETS \in Nat \ {0} /\ WindowPages \in Nat \ {0} /\ MaxTick \in Nat
  /\ 0 \notin Page

VARIABLES slots, tick_counter, va_cursor, window,
          free,              \* the pages pmm_alloc may return
          recent             \* history: the slot of the last hit, and the puts since

cache_vars == <<slots, tick_counter, va_cursor, window, free, recent>>

Bucket == 0 .. RC_BUCKETS - 1
NoKey == "none"
NoSlot == -1

\* Harlin_ReadCacheInit
CacheInit ==
  /\ slots = [i \in Bucket |-> [key |-> NoKey, used |-> FALSE, phys |-> 0, touch |-> 0]]
  /\ tick_counter = 0 /\ va_cursor = 0
  /\ window = [v \in 0 .. WindowPages - 1 |-> 0]
  /\ free = Page
  /\ recent = [slot |-> NoSlot, puts |-> 0]

Vacant == {i \in Bucket : ~slots[i].used}

\* Mutated pick_victim: the youngest slot instead of the oldest.
PickYoungest ==
  IF Vacant # {} THEN Min(Vacant)
  ELSE Min({i \in Bucket : \A j \in Bucket : slots[j].touch <= slots[i].touch})

\* The first unused slot, else the first of the oldest.
pick_victim ==
  IF Vacant # {} THEN Min(Vacant)
  ELSE Min({i \in Bucket : \A j \in Bucket : slots[i].touch <= slots[j].touch})

Holding(key) == {i \in Bucket : slots[i].used /\ slots[i].key = key}

Harlin_ReadCacheGet(key) ==
  /\ tick_counter < MaxTick /\ tick_counter' = tick_counter + 1
  /\ IF Holding(key) = {} THEN UNCHANGED <<slots, recent>>
     ELSE /\ slots' = [slots EXCEPT ![Min(Holding(key))].touch = tick_counter']
          /\ recent' = [slot |-> Min(Holding(key)), puts |-> 0]
  /\ UNCHANGED <<va_cursor, window, free>>

\* Mutated Released: the page is freed whether or not the slot is in use.
ReleasedAlways(i) == free \cup ({slots[i].phys} \ {0})

\* What is free once the page of slot i has been given back.
Released(i) == IF slots[i].used /\ slots[i].phys # 0 THEN free \cup {slots[i].phys} ELSE free

WindowNext == IF va_cursor + 1 >= WindowPages THEN 0 ELSE va_cursor + 1

\* The key is not looked up: a second put of it takes a second slot.
Harlin_ReadCachePut(key) ==
  LET victim == pick_victim
  IN  \E phys \in free :
        /\ free' = Released(victim) \ {phys}
        /\ window' = [window EXCEPT ![va_cursor] = phys]
        /\ va_cursor' = WindowNext
        /\ slots' = [slots EXCEPT ![victim] = [key |-> key, used |-> TRUE, phys |-> phys,
                                               touch |-> tick_counter]]
        /\ recent' = IF victim = recent.slot THEN [slot |-> NoSlot, puts |-> 0]
                     ELSE [recent EXCEPT !.puts = Min({@ + 1, RC_BUCKETS})]
        /\ UNCHANGED tick_counter

\* The first slot of the key is emptied, its phys field left as it is.
Harlin_ReadCacheDrop(key) ==
  /\ Holding(key) # {}
  /\ LET i == Min(Holding(key))
     IN  /\ free' = Released(i)
         /\ slots' = [slots EXCEPT ![i].used = FALSE, ![i].key = NoKey]
         /\ recent' = IF i = recent.slot THEN [slot |-> NoSlot, puts |-> 0] ELSE recent
  /\ UNCHANGED <<tick_counter, va_cursor, window>>

CacheNext ==
  \E key \in Key : \/ Harlin_ReadCacheGet(key) \/ Harlin_ReadCacheDrop(key)
                   \/ Harlin_ReadCachePut(key)

-----------------------------------------------------------------------------
\* The variables have their types.
CacheTypeOK ==
  /\ slots \in [Bucket -> [key : Key \cup {NoKey}, used : BOOLEAN, phys : Page \cup {0},
                         touch : 0 .. MaxTick]]
  /\ tick_counter \in 0 .. MaxTick /\ va_cursor \in 0 .. WindowPages - 1
  /\ window \in [0 .. WindowPages - 1 -> Page \cup {0}]
  /\ free \subseteq Page
  /\ recent \in [slot : Bucket \cup {NoSlot}, puts : 0 .. RC_BUCKETS]

\* Every page taken from the allocator belongs to exactly one slot in use, and
\* every slot in use has one: replacing and dropping neither leak a page nor
\* free one twice, although an emptied slot still names its old page.
PagesOwned ==
  /\ \A i, j \in Bucket : slots[i].used /\ slots[j].used /\ slots[i].phys = slots[j].phys => i = j
  /\ {slots[i].phys : i \in {s \in Bucket : slots[s].used}} = Page \ free

\* The slot of the last hit survives the next RC_BUCKETS - 1 puts, although a put
\* does not advance the clock and so is as young as that hit.
RecentHitSurvives ==
  [][\A key \in Key :
       recent.slot # NoSlot /\ pick_victim = recent.slot /\ Harlin_ReadCachePut(key)
         => recent.puts >= RC_BUCKETS - 1]_cache_vars
=============================================================================
