---------------------------- MODULE LirsManager ----------------------------
(***************************************************************************)
(* cache/lirs/lirs_manager.c: the caches of the free blocks of an arena,   *)
(* one for each size class, and the threads that use one of them, that of  *)
(* class 0.  Its keys and its values are the addresses of the blocks.  The *)
(* cache is the module Lirs; a block it destroys goes to the arena, by the *)
(* eviction callback.                                                      *)
(*                                                                         *)
(* lirs_manager_get looks for the size as if it were an address, so it     *)
(* never finds a block: a client has its blocks from arena_malloc.         *)
(* lirs_manager_remove looks for every block in the bin of class 0.  The   *)
(* arena gives what nobody holds, as it does until a run fills (Arena).    *)
(***************************************************************************)

EXTENDS Lirs

CONSTANTS Threads, NULL

\* The calls that use a bin.
Calls == {"put", "get", "remove"}

ASSUME LirsManagerAssumption ==
  IsFiniteSet(Keys) /\ NULL \notin Threads \union Keys \union Calls

VARIABLES
  bin_cache,    \* the bin has a pointer to a cache, freed or not
  bin_lock,     \* its holder or NULL
  global_lock,
  arena,        \* the free blocks
  held,         \* the blocks of the clients
  pc,
  op, key,      \* the call of a thread and the block it is about
  stale,        \* a thread has used a cache that was freed
  raced         \* history: init failed, or shutdown met a call

manager == <<bin_cache, bin_lock, global_lock>>
clients == <<arena, held>>
threads == <<pc, op, key>>
allVars == <<vars, manager, clients, threads, stale, raced>>

Steps == {"idle", "lock", "use", "sd_destroy", "sd_null"}

ManagerInit ==
  /\ Init
  /\ bin_cache = FALSE /\ bin_lock = NULL /\ global_lock = NULL
  /\ arena = Keys /\ held = {}
  /\ pc = [t \in Threads |-> "idle"]
  /\ op = [t \in Threads |-> NULL] /\ key = [t \in Threads |-> NULL]
  /\ stale = FALSE /\ raced = FALSE

Runs == status \in {"none", "live"}
At(t, step) == Runs /\ pc[t] = step
Goto(t, step) == pc' = [pc EXCEPT ![t] = step]
Return(t) ==
  /\ Goto(t, "idle")
  /\ op' = [op EXCEPT ![t] = NULL] /\ key' = [key EXCEPT ![t] = NULL]

\* A mistake: only what is resident is freed.
CalledBackResident == {k \in DOMAIN blocks \ DOMAIN blocks' : Type(k) # HIR_NON_RESIDENT}

\* lirs_block_destroy calls lirs_evict_callback for the value of the block,
\* resident or not.  Its test of arena and value passes: no client puts NULL, and
\* those who have blocks of an arena use the manager while there is one.
CalledBack == DOMAIN blocks \ DOMAIN blocks'

lirs_evict_callback == arena' = arena \union CalledBack

-----------------------------------------------------------------------------
(* The manager is initialized by one thread while there is no cache.       *)

AllIdle == \A t \in Threads : pc[t] = "idle"

lirs_manager_init ==
  /\ status = "none" /\ AllIdle
  /\ lirs_create
  /\ bin_cache' = TRUE /\ bin_lock' = NULL /\ global_lock' = NULL /\ raced' = FALSE
  /\ UNCHANGED <<clients, threads, stale>>

\* The cache of a later class, or this one, cannot be created.  The caches before
\* it are destroyed, and the bins keep the pointers to them.
InitFails ==
  /\ status = "none" /\ AllIdle
  /\ bin_cache' \in BOOLEAN /\ bin_lock' = NULL /\ global_lock' = NULL /\ raced' = bin_cache'
  /\ UNCHANGED <<vars, clients, threads, stale>>

ShutdownLock(t) ==
  /\ At(t, "idle") /\ global_lock = NULL /\ bin_cache
  /\ global_lock' = t /\ Goto(t, "sd_destroy")
  /\ UNCHANGED <<vars, bin_cache, bin_lock, clients, op, key, stale, raced>>

\* The calls of the other threads do not take global_lock.
ShutdownDestroy(t) ==
  /\ At(t, "sd_destroy") /\ status = "live"
  /\ lirs_destroy /\ lirs_evict_callback
  /\ raced' = \E u \in Threads \ {t} : pc[u] # "idle"
  /\ Goto(t, "sd_null")
  /\ UNCHANGED <<manager, held, op, key, stale>>

\* A mistake: the pointer stays.
ShutdownKeeps(t) ==
  /\ At(t, "sd_null")
  /\ global_lock' = NULL /\ Return(t)
  /\ UNCHANGED <<vars, bin_cache, bin_lock, clients, stale, raced>>

ShutdownNull(t) ==
  /\ At(t, "sd_null")
  /\ bin_cache' = FALSE /\ global_lock' = NULL /\ Return(t)
  /\ UNCHANGED <<vars, bin_lock, clients, stale, raced>>

lirs_manager_shutdown(t) == ShutdownLock(t) \/ ShutdownDestroy(t) \/ ShutdownNull(t)

\* The cache keeps the capacity of its class.
lirs_manager_configure ==
  /\ global_lock = NULL /\ bin_cache /\ status = "live"
  /\ Resize(capacity) /\ lirs_evict_callback
  /\ UNCHANGED <<manager, held, threads, stale, raced>>

-----------------------------------------------------------------------------
(* The calls of the clients: the cache is tested, the bin is locked, and   *)
(* the pointer is read again and used.                                     *)

Begin(t, name, k) ==
  /\ At(t, "idle") /\ bin_cache
  /\ op' = [op EXCEPT ![t] = name] /\ key' = [key EXCEPT ![t] = k] /\ Goto(t, "lock")
  /\ raced' = (raced \/ \E u \in Threads : pc[u] = "sd_null")
  /\ UNCHANGED <<vars, manager, arena, stale>>

\* A put takes its block out of the client's hands.
BeginPut(t) == \E k \in held : Begin(t, "put", k) /\ held' = held \ {k}
BeginGet(t) == Begin(t, "get", NULL) /\ UNCHANGED held
BeginRemove(t) == \E k \in Keys \ arena : Begin(t, "remove", k) /\ UNCHANGED held

GivenBack(t) == IF op[t] = "put" THEN {key[t]} ELSE {}

LockBin(t) ==
  /\ At(t, "lock") /\ bin_lock = NULL
  /\ IF bin_cache
     THEN /\ bin_lock' = t /\ Goto(t, "use")
          /\ UNCHANGED <<held, op, key>>
     ELSE held' = held \union GivenBack(t) /\ Return(t) /\ UNCHANGED bin_lock
  /\ UNCHANGED <<vars, bin_cache, global_lock, arena, stale, raced>>

Use(t, name) == At(t, "use") /\ status = "live" /\ op[t] = name
Unlock(t) == bin_lock' = NULL /\ Return(t) /\ UNCHANGED <<bin_cache, global_lock, stale, raced>>

lirs_manager_put(t) ==
  /\ Use(t, "put") /\ Unlock(t)
  /\ \E v \in Values :
       \/ PutNew(key[t], v) /\ UNCHANGED held
       \/ PutRefused(key[t], v) /\ held' = held \union GivenBack(t)
  /\ lirs_evict_callback

lirs_manager_get(t) == Use(t, "get") /\ Unlock(t) /\ UNCHANGED <<vars, clients>>

lirs_manager_remove(t) ==
  /\ Use(t, "remove") /\ Unlock(t) /\ UNCHANGED held
  /\ IF Known(key[t]) THEN lirs_remove(key[t]) ELSE UNCHANGED vars
  /\ lirs_evict_callback

\* The cache is freed when a call uses it, or when shutdown destroys it again.
UsesFreed(t) ==
  /\ \/ At(t, "use")
     \/ At(t, "sd_destroy")
  /\ status = "none" /\ End("fault") /\ stale' = TRUE
  /\ UNCHANGED <<manager, clients, threads, raced>>

\* The search of a bucket or the walk of the lists reads what it should not.
ReadsAstray(t) ==
  /\ \/ At(t, "use") /\ AbsentFault
     \/ At(t, "sd_destroy") /\ ClearFault
  /\ UNCHANGED <<manager, clients, threads, stale, raced>>

arena_malloc == \E k \in arena :
  /\ Runs /\ arena' = arena \ {k} /\ held' = held \union {k}
  /\ UNCHANGED <<vars, manager, threads, stale, raced>>

ManagerNext ==
  \/ lirs_manager_init \/ InitFails \/ lirs_manager_configure \/ arena_malloc
  \/ \E t \in Threads :
       \/ lirs_manager_shutdown(t)
       \/ BeginPut(t) \/ BeginGet(t) \/ BeginRemove(t) \/ LockBin(t)
       \/ lirs_manager_put(t) \/ lirs_manager_get(t) \/ lirs_manager_remove(t)
       \/ UsesFreed(t) \/ ReadsAstray(t)

ManagerSpec == ManagerInit /\ [][ManagerNext]_allVars

-----------------------------------------------------------------------------

Put == {key[t] : t \in {u \in Threads : op[u] = "put"}}

\* A block is free in the arena, with a client, in a put or in the cache, and in
\* one of these only: what is evicted, removed, refused or destroyed with the
\* cache is freed once, and not before the cache has forgotten its address.
OneOwner ==
  Runs =>
    /\ arena \union held \union Put \union DOMAIN blocks = Keys
    /\ Cardinality(arena) + Cardinality(held) + Cardinality(Put)
         + Cardinality(DOMAIN blocks) = Cardinality(Keys)

\* A freed cache is used only after an init that failed, or when the shutdown met
\* a call: it takes no lock of the bins.  A shutdown between calls leaves nothing
\* behind that a later call could use.
FreedUnused == stale => raced
=============================================================================
