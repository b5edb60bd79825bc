---- MODULE KeyStore ----
(***************************************************************************)
(* What one of the caches of utils/cache.c promises its callers, without   *)
(* its list, its counter and its clean-up loop: an id is bound to the      *)
(* object it was last set to or to nothing, an object is freed only when   *)
(* its binding is dropped or the cache is destroyed, and the object that a *)
(* new one replaces stays valid, for the edit that needs both (cache.h:36).*)
(*                                                                         *)
(* It does not promise how long an id stays bound.                         *)
(***************************************************************************)
CONSTANTS Ids,         \* ids of messages, channels or guilds
          Objects,     \* the structures handed to the cache
          Nothing      \* an id that is not in the cache

VARIABLES store,       \* the object each id is bound to
          held,        \* objects the cache took over and has not freed
          freed,       \* objects the cache has destroyed
          closed       \* the cache was destroyed

vars == <<store, held, freed, closed>>

Init ==
    /\ store = [id \in Ids |-> Nothing]
    /\ held = {}
    /\ freed = {}
    /\ closed = FALSE

Put(id, object) ==
    /\ ~closed
    /\ object \notin held \cup freed
    /\ store' = [store EXCEPT ![id] = object]
    /\ held' = held \cup {object}
    /\ UNCHANGED <<freed, closed>>

Drop(id) ==
    /\ ~closed
    /\ store[id] \in held
    /\ store' = [store EXCEPT ![id] = Nothing]
    /\ held' = held \ {store[id]}
    /\ freed' = freed \cup {store[id]}
    /\ UNCHANGED closed

Close ==
    /\ ~closed
    /\ closed' = TRUE
    /\ store' = [id \in Ids |-> Nothing]
    /\ held' = {}
    /\ freed' = freed \cup held

Next ==
    \/ \E id \in Ids, object \in Objects : Put(id, object)
    \/ \E id \in Ids : Drop(id)
    \/ Close

Spec == Init /\ [][Next]_vars
====
