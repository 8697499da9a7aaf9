--------------------------------- MODULE Gc ---------------------------------
(***************************************************************************)
(* gc/gc.c: the collector.  Threads collect, wait, enable and disable,     *)
(* start it and shut it down, and use regions, all at the same time.       *)
(*                                                                         *)
(* gc_lock is a mutex, region_lock a spinlock per region and manager_lock  *)
(* the spinlock of the region manager, which matters as a variable in      *)
(* gc_shutdown only (see GcRegion).  The walk of a list takes no lock: it  *)
(* goes on from wherever its region has got to.                            *)
(***************************************************************************)

EXTENDS GcRegion

CONSTANTS
  Threads,
  NULL,
  Ops,        \* what the threads call, beside gc_region_alloc and _free
  AllocTypes  \* the types the clients ask for

ASSUME GcAssumption ==
  /\ NULL \notin Threads
  /\ AllocTypes \subseteq Types \ {EMPTY}

VARIABLES
  status,            \* "off", "on" when g_gc.initialized, "fault"
  active,
  concurrent_active,
  gc_lock,           \* its holder or NULL
  manager_lock,
  region_lock,       \* by region
  holder,            \* by region, the client it was given to
  pc,
  op,                \* what a thread runs
  pass,              \* the walks it has begun
  at,                \* where its walk is: a region, or the head of a list
  cleared            \* history: gc_shutdown or gc_collect_wait got in the way

gc == <<status, active, concurrent_active, gc_lock, manager_lock, region_lock>>
thread == <<pc, op, pass, at>>
vars == <<manager, gc, holder, thread, cleared>>

Collections == {"gc_collect", "gc_collect_young", "gc_collect_full"}
Steps == {"idle", "lock", "mark", "age", "promote", "next", "reclaim", "unlock",
          "cond", "retest", "stuck", "sd_lock", "sd_manager", "sd_regions"}

\* The walks of a collection: a list, and whether its regions are marked and
\* aged.  gc_collect_mixed has those of gc_collect_young.
Walk(t, mark, ages) == [list |-> t, mark |-> mark, age |-> ages]
gc_mark_all_regions ==
  <<Walk(YOUNG, TRUE, FALSE), Walk(SURVIVOR, TRUE, FALSE), Walk(OLD, TRUE, FALSE)>>
Walks == [gc_collect |-> gc_mark_all_regions,
          gc_collect_young |-> <<Walk(YOUNG, TRUE, TRUE)>>,
          gc_collect_full |-> Append(gc_mark_all_regions, Walk(YOUNG, FALSE, TRUE))]

ListHead(t) == <<"head", t>>
Heads == {ListHead(t) : t \in Types}
Current(t) == Walks[op[t]][pass[t]]

Init ==
  /\ ManagerInit
  /\ status = "off" /\ active = FALSE /\ concurrent_active = FALSE
  /\ gc_lock = NULL /\ manager_lock = NULL /\ region_lock = [r \in Region |-> NULL]
  /\ holder = [r \in Region |-> NULL] /\ cleared = FALSE
  /\ pc = [t \in Threads |-> "idle"] /\ op = [t \in Threads |-> NULL]
  /\ pass = [t \in Threads |-> 0] /\ at = [t \in Threads |-> NULL]

Goto(t, step) == pc' = [pc EXCEPT ![t] = step]
At(t, step) == status # "fault" /\ pc[t] = step

\* The thread is done, and its part of the state is as before the call.
Return(t) ==
  /\ Goto(t, "idle")
  /\ op' = [op EXCEPT ![t] = NULL] /\ pass' = [pass EXCEPT ![t] = 0]
  /\ at' = [at EXCEPT ![t] = NULL]

\* Nothing is said of the program after a fault.
Fault ==
  /\ status' = "fault"
  /\ gc_region_manager_init
  /\ active' = FALSE /\ concurrent_active' = FALSE /\ gc_lock' = NULL
  /\ manager_lock' = NULL /\ region_lock' = [r \in Region |-> NULL]
  /\ holder' = [r \in Region |-> NULL] /\ cleared' = FALSE
  /\ pc' = [t \in Threads |-> "idle"] /\ op' = [t \in Threads |-> NULL]
  /\ pass' = [t \in Threads |-> 0] /\ at' = [t \in Threads |-> NULL]

-----------------------------------------------------------------------------
(* Starting and stopping, by clients that start the collector once.        *)

gc_init ==
  /\ status = "off" /\ \A t \in Threads : pc[t] = "idle"
  /\ gc_region_manager_init
  /\ status' = "on" /\ active' = TRUE /\ concurrent_active' = FALSE /\ gc_lock' = NULL
  /\ manager_lock' = NULL /\ region_lock' = [r \in Region |-> NULL]
  /\ cleared' = FALSE
  /\ UNCHANGED <<holder, thread>>

\* gc_shutdown tests initialized and clears the flags before it has gc_lock.
ShutdownCall(t) ==
  /\ At(t, "idle") /\ "gc_shutdown" \in Ops /\ status = "on"
  /\ active' = FALSE /\ concurrent_active' = FALSE /\ cleared' = TRUE
  /\ op' = [op EXCEPT ![t] = "gc_shutdown"] /\ Goto(t, "sd_lock")
  /\ UNCHANGED <<manager, status, gc_lock, manager_lock, region_lock, holder, pass, at>>

ShutdownLock(t) ==
  /\ At(t, "sd_lock") /\ gc_lock = NULL
  /\ gc_lock' = t /\ Goto(t, "sd_manager")
  /\ UNCHANGED <<manager, status, active, concurrent_active, manager_lock, region_lock,
                 holder, op, pass, at, cleared>>

ShutdownManager(t) ==
  /\ At(t, "sd_manager") /\ manager_lock = NULL
  /\ manager_lock' = t /\ Goto(t, "sd_regions")
  /\ UNCHANGED <<manager, status, active, concurrent_active, gc_lock, region_lock,
                 holder, op, pass, at, cleared>>

\* Every region is destroyed under its lock.  The second of two threads here
\* frees the marking context again.
gc_shutdown(t) ==
  /\ At(t, "sd_regions") /\ \A r \in regions : region_lock[r] = NULL
  /\ IF status = "off" THEN Fault
     ELSE /\ gc_region_manager_shutdown
          /\ status' = "off" /\ manager_lock' = NULL /\ gc_lock' = NULL
          /\ holder' = [r \in Region |-> NULL]
          /\ Return(t)
          /\ UNCHANGED <<active, concurrent_active, region_lock, cleared>>

Switch(t, name, to) ==
  /\ At(t, "idle") /\ name \in Ops /\ status = "on"
  /\ active' = to
  /\ UNCHANGED <<manager, status, concurrent_active, gc_lock, manager_lock, region_lock,
                 holder, thread, cleared>>

gc_enable(t) == Switch(t, "gc_enable", TRUE)
gc_disable(t) == Switch(t, "gc_disable", FALSE)

-----------------------------------------------------------------------------
(* The collections.                                                        *)

\* The tests before gc_lock is taken.
Enter(t, name) ==
  /\ At(t, "idle") /\ status = "on" /\ active
  /\ op' = [op EXCEPT ![t] = name] /\ Goto(t, "lock")
  /\ UNCHANGED <<manager, gc, holder, pass, at, cleared>>

Collect(t) == \E name \in Collections \intersect Ops : Enter(t, name)

\* High tenths of the regions there are are in use.
High == 8
gc_should_collect == regions # {} /\ 10 * used_size >= High * Cardinality(regions)
gc_check_threshold(t) ==
  "gc_check_threshold" \in Ops /\ gc_should_collect /\ Enter(t, "gc_collect")

First(t) == IF list[t] = <<>> THEN ListHead(t) ELSE Head(list[t])

BeginPass(t, n) ==
  LET walk == Walks[op[t]][n] IN
  /\ pass' = [pass EXCEPT ![t] = n]
  /\ at' = [at EXCEPT ![t] = First(walk.list)]
  /\ Goto(t, IF walk.mark THEN "mark" ELSE "age")

Lock(t) ==
  /\ At(t, "lock") /\ gc_lock = NULL
  /\ gc_lock' = t
  /\ concurrent_active' = (concurrent_active \/ op[t] = "gc_collect")
  /\ BeginPass(t, 1)
  /\ UNCHANGED <<manager, status, active, manager_lock, region_lock, holder, op, cleared>>

\* A mistake: gc_lock is released before the regions are reclaimed.
EndUnlocked(t) ==
  /\ At(t, "mark") \/ At(t, "age")
  /\ op[t] \in Collections /\ at[t] = ListHead(Current(t).list)
  /\ IF pass[t] < Len(Walks[op[t]])
     THEN BeginPass(t, pass[t] + 1) /\ UNCHANGED gc_lock
     ELSE Goto(t, "reclaim") /\ gc_lock' = NULL /\ UNCHANGED <<pass, at>>
  /\ UNCHANGED <<manager, status, active, concurrent_active, manager_lock, region_lock,
                 holder, op, cleared>>

\* The walk has come back to the head of its list.
EndOfPass(t) ==
  /\ At(t, "mark") \/ At(t, "age")
  /\ op[t] \in Collections /\ at[t] = ListHead(Current(t).list)
  /\ IF pass[t] < Len(Walks[op[t]])
     THEN BeginPass(t, pass[t] + 1)
     ELSE Goto(t, "reclaim") /\ UNCHANGED <<pass, at>>
  /\ UNCHANGED <<manager, gc, holder, op, cleared>>

Astray(t) == at[t] \in Heads /\ at[t] # ListHead(Current(t).list)

\* A region is marked under its lock.  The head of another list, taken for a
\* region, has the type EMPTY: nothing is done to it.
gc_mark_region(t) ==
  /\ At(t, "mark") /\ at[t] # ListHead(Current(t).list)
  /\ IF Astray(t) \/ at[t] \in regions
     THEN /\ ~Astray(t) /\ type[at[t]] # EMPTY => region_lock[at[t]] = NULL
          /\ Goto(t, IF Current(t).age THEN "age" ELSE "next")
          /\ UNCHANGED <<manager, gc, holder, op, pass, at, cleared>>
     ELSE Fault

\* The rest of gc_region_age, for the collector and for a client.
AgeDone(t) ==
  IF op[t] = "gc_region_age" THEN Return(t) ELSE Goto(t, "next") /\ UNCHANGED <<op, pass, at>>

\* What the code takes for the lock of a list's head never gets free.
AgeAstray(t) ==
  /\ At(t, "age") /\ op[t] \in Collections /\ Astray(t)
  /\ Goto(t, "stuck")
  /\ UNCHANGED <<manager, gc, holder, op, pass, at, cleared>>

\* The type is tested under the region's lock, which gc_region_free and
\* gc_region_alloc do not take.
gc_region_age(t) ==
  /\ At(t, "age") /\ at[t] \notin Heads
  /\ IF at[t] \notin regions THEN Fault
     ELSE /\ region_lock[at[t]] = NULL
          /\ GrowOlder(at[t])
          /\ IF TooOld(at[t])
             THEN /\ region_lock' = [region_lock EXCEPT ![at[t]] = t]
                  /\ Goto(t, "promote") /\ UNCHANGED <<op, pass, at>>
             ELSE AgeDone(t) /\ UNCHANGED region_lock
          /\ UNCHANGED <<status, active, concurrent_active, gc_lock, manager_lock,
                         holder, cleared>>

Promote(t) ==
  /\ At(t, "promote") /\ manager_lock = NULL
  /\ IF ~Listed(at[t]) THEN Fault
     ELSE /\ gc_region_promote(at[t])
          /\ region_lock' = [region_lock EXCEPT ![at[t]] = NULL]
          /\ AgeDone(t)
          /\ UNCHANGED <<status, active, concurrent_active, gc_lock, manager_lock,
                         holder, cleared>>

\* list_next_entry: from the list the region is in now.
Place(r) == CHOOSE t \in Types : Contains(list[t], r)
After(place) ==
  IF place \in Heads THEN First(place[2])
  ELSE LET t == Place(place)
           i == CHOOSE j \in DOMAIN list[t] : list[t][j] = place
       IN IF i = Len(list[t]) THEN ListHead(t) ELSE list[t][i + 1]

Advance(t) ==
  /\ At(t, "next")
  /\ IF at[t] \in Heads \/ (at[t] \in regions /\ Listed(at[t]))
     THEN /\ at' = [at EXCEPT ![t] = After(at[t])]
          /\ Goto(t, IF Current(t).mark THEN "mark" ELSE "age")
          /\ UNCHANGED <<manager, gc, holder, op, pass, cleared>>
     ELSE Fault

\* The regions of the old list are looked for at the wrong offset: whatever is
\* in the list, memory at an address near 0 is cleared.
gc_reclaim_regions(t) ==
  /\ At(t, "reclaim")
  /\ IF list[OLD] # <<>> THEN Fault
     ELSE /\ concurrent_active' = (concurrent_active /\ op[t] # "gc_collect")
          /\ Goto(t, "unlock")
          /\ UNCHANGED <<manager, status, active, gc_lock, manager_lock, region_lock, holder,
                         op, pass, at, cleared>>

Unlock(t) ==
  /\ At(t, "unlock")
  /\ gc_lock' = NULL
  /\ Return(t)
  /\ UNCHANGED <<manager, status, active, concurrent_active, manager_lock, region_lock,
                 holder, cleared>>

\* The flag is tested and set with no lock; nothing else is started.
gc_collect_async(t) ==
  /\ At(t, "idle") /\ "gc_collect_async" \in Ops /\ status = "on" /\ active
  /\ concurrent_active' = TRUE
  /\ UNCHANGED <<manager, status, active, gc_lock, manager_lock, region_lock, holder,
                 thread, cleared>>

\* pthread_cond_wait releases gc_lock, which the thread does not hold: whoever
\* does has lost it.
gc_collect_wait(t) ==
  /\ At(t, "idle") /\ "gc_collect_wait" \in Ops /\ concurrent_active
  /\ gc_lock' = NULL /\ cleared' = TRUE
  /\ op' = [op EXCEPT ![t] = "gc_collect_wait"] /\ Goto(t, "cond")
  /\ UNCHANGED <<manager, status, active, concurrent_active, manager_lock, region_lock,
                 holder, pass, at>>

\* Nobody signals gc_cond; the wait may end without a signal, and has gc_lock.
WakeUp(t) ==
  /\ At(t, "cond") /\ gc_lock = NULL
  /\ gc_lock' = t /\ Goto(t, "retest")
  /\ UNCHANGED <<manager, status, active, concurrent_active, manager_lock, region_lock,
                 holder, op, pass, at, cleared>>

\* It returns without unlocking.
Retest(t) ==
  /\ At(t, "retest")
  /\ IF concurrent_active
     THEN /\ gc_lock' = NULL /\ Goto(t, "cond") /\ UNCHANGED <<op, pass, at>>
     ELSE Return(t) /\ UNCHANGED gc_lock
  /\ UNCHANGED <<manager, status, active, concurrent_active, manager_lock, region_lock,
                 holder, cleared>>

-----------------------------------------------------------------------------
(* The clients' calls of the region manager.                               *)

Holds(t, r) == At(t, "idle") /\ status = "on" /\ holder[r] = t

ClientAlloc(t, r) ==
  /\ At(t, "idle") /\ status = "on" /\ manager_lock = NULL
  /\ \E to \in AllocTypes : gc_region_alloc(r, to)
  /\ holder' = [holder EXCEPT ![r] = t]
  /\ UNCHANGED <<gc, thread, cleared>>

ClientFree(t, r) ==
  /\ Holds(t, r) /\ manager_lock = NULL
  /\ IF Listed(r)
     THEN gc_region_free(r) /\ holder' = [holder EXCEPT ![r] = NULL]
          /\ UNCHANGED <<gc, thread, cleared>>
     ELSE Fault

ClientPromote(t, r) ==
  /\ Holds(t, r) /\ manager_lock = NULL /\ "gc_region_promote" \in Ops
  /\ IF Listed(r)
     THEN gc_region_promote(r) /\ UNCHANGED <<gc, holder, thread, cleared>>
     ELSE Fault

ClientAge(t, r) ==
  /\ Holds(t, r) /\ "gc_region_age" \in Ops
  /\ op' = [op EXCEPT ![t] = "gc_region_age"] /\ at' = [at EXCEPT ![t] = r] /\ Goto(t, "age")
  /\ UNCHANGED <<manager, gc, holder, pass, cleared>>

Step(t) ==
  \/ ShutdownLock(t) \/ ShutdownManager(t) \/ gc_shutdown(t)
  \/ Lock(t) \/ EndOfPass(t) \/ gc_mark_region(t) \/ AgeAstray(t) \/ gc_region_age(t)
  \/ Promote(t) \/ Advance(t) \/ gc_reclaim_regions(t) \/ Unlock(t) \/ Retest(t)

Call(t) ==
  \/ ShutdownCall(t) \/ gc_enable(t) \/ gc_disable(t) \/ Collect(t) \/ gc_check_threshold(t)
  \/ gc_collect_async(t) \/ gc_collect_wait(t)
  \/ \E r \in Region : \/ ClientAlloc(t, r) \/ ClientFree(t, r)
                       \/ ClientPromote(t, r) \/ ClientAge(t, r)

Next == gc_init \/ \E t \in Threads : Step(t) \/ Call(t) \/ WakeUp(t)

Spec == Init /\ [][Next]_vars

-----------------------------------------------------------------------------

TypeOK ==
  /\ ManagerTypeOK
  /\ status \in {"off", "on", "fault"} /\ active \in BOOLEAN /\ concurrent_active \in BOOLEAN
  /\ gc_lock \in Threads \union {NULL} /\ manager_lock \in Threads \union {NULL}
  /\ region_lock \in [Region -> Threads \union {NULL}]
  /\ holder \in [Region -> Threads \union {NULL}]
  /\ pc \in [Threads -> Steps] /\ pass \in [Threads -> 0 .. 4]
  /\ op \in [Threads -> Collections \union {NULL, "gc_shutdown", "gc_collect_wait", "gc_region_age"}]
  /\ at \in [Threads -> Region \union Heads \union {NULL}]
  /\ cleared \in BOOLEAN

Collecting(t) == op[t] \in Collections /\ pc[t] \notin {"idle", "lock", "unlock"}

FreeUnheld == \A r \in Region : holder[r] # NULL => ~Contains(list[EMPTY], r)

\* The counts of the manager and the places of its regions are those of their
\* types, and no region a client holds is among the free ones: whichever calls
\* raced, gc_region_alloc gives no region to two clients and the collector finds
\* young regions where it looks for them.
RegionsFiled == CountsByType /\ ListedByType /\ FreeUnheld

\* Two collections never run at a time, and while gc_collect walks the regions the
\* write barrier is on, unless gc_shutdown or gc_collect_wait, which releases a
\* lock it does not hold, got in the way: no other call lets a second collection
\* in or turns the barrier off.
OneCollector ==
  ~cleared => \A t \in Threads : Collecting(t) =>
    /\ \A u \in Threads : Collecting(u) => t = u
    /\ op[t] = "gc_collect" => concurrent_active
=============================================================================
