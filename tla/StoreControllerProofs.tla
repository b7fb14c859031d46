------------------------ MODULE StoreControllerProofs ------------------------
(***************************************************************************)
(* The store controller, proved for every set of keys, adapters and tasks, *)
(* with failing and raising adapters, other readers and writers, eviction, *)
(* adapters that come and go, and stop() at any point: which read locks it *)
(* holds, what the adapters read, what it deletes and whom it calls.       *)
(***************************************************************************)
EXTENDS StoreController, TLAPS

----------------------------------------------------------------------------
\* What the calls of L1Manager do to the locks

\* L1 as this controller's clients use it: no object is temporary.
L1Typed ==
    /\ objects \in [Keys -> Resident \cup {None}]
    /\ staging \in [Keys -> [Tags -> Staged \cup {None}]]
    /\ \A k \in Keys : IsResident(k) => ~objects[k].temp
    /\ \A k \in Keys, t \in Tags : IsStaged(k, t) => ~staging[k][t].temp

\* The read locks of k.
Held(k) == IF IsResident(k) THEN objects[k].locks ELSE 0

\* No resident object is exchanged for another.
Kept == \A k \in Keys : IsResident(k) /\ IsResident(k)' => objects'[k].buf = objects[k].buf

\* An object has a number of locks.
LEMMA HeldTyped ==
    ASSUME L1Typed, NEW k \in Keys
    PROVE  /\ Held(k) \in Nat
           /\ IsResident(k) => /\ objects[k] \in Resident /\ objects[k].buf \in Bufs
                               /\ objects[k].locks \in 0 .. MaxLocks
<1>1. IsResident(k) => objects[k] \in Resident
  BY Zenon DEF L1Typed, IsResident
<1>2. IsResident(k) => objects[k].buf \in Bufs /\ objects[k].locks \in 0 .. MaxLocks
  BY Zenon, <1>1 DEF Resident
<1> QED BY <1>1, <1>2, L1Assumption DEF Held

\* reserve_read of resident objects adds a lock to each.
LEMMA ReserveReadHeld ==
    ASSUME L1Typed, NEW K \in SUBSET Keys, \A k \in K : IsResident(k), ReserveRead(K, 1)
    PROVE  /\ L1Typed' /\ Kept
           /\ \A k \in Keys : Held(k)' = IF k \in K THEN Held(k) + 1 ELSE Held(k)
<1>1. ASSUME NEW k \in Keys
      PROVE  /\ objects'[k] \in Resident \cup {None} /\ (IsResident(k)' <=> IsResident(k))
             /\ IsResident(k) => ~objects'[k].temp /\ objects'[k].buf = objects[k].buf
             /\ Held(k)' = IF k \in K THEN Held(k) + 1 ELSE Held(k)
  <2>1. CASE k \notin K
    <3>1. objects'[k] = objects[k]
      BY Zenon, <2>1 DEF ReserveRead
    <3> QED BY Zenon, <2>1, <3>1 DEF L1Typed, IsResident, Held
  <2>2. CASE k \in K
    <3>1. objects'[k] = [objects[k] EXCEPT !.locks = objects[k].locks + 1]
      BY Zenon, <2>2 DEF ReserveRead, Lock
    <3>2. /\ objects[k] \in Resident /\ objects[k].locks \in 0 .. MaxLocks
          /\ objects[k].locks + 1 <= MaxLocks /\ objects[k] # None
      BY Zenon, <2>2, HeldTyped DEF ReserveRead, WithinBound, IsResident
    <3>3. objects[k].locks + 1 \in 0 .. MaxLocks
      BY <3>2, L1Assumption
    <3>4. /\ objects'[k] \in Resident /\ objects'[k].temp = objects[k].temp
          /\ objects'[k].buf = objects[k].buf /\ objects'[k].locks = objects[k].locks + 1
      BY Zenon, <3>1, <3>2, <3>3 DEF Resident
    <3>5. objects'[k] # None
      BY Zenon, <3>4, L1Assumption
    <3> QED BY Zenon, <2>2, <3>2, <3>4, <3>5 DEF L1Typed, IsResident, Held
  <2> QED BY Zenon, <2>1, <2>2
<1>2. objects' \in [Keys -> Resident \cup {None}]
  <2>1. objects' = [k \in Keys |-> objects'[k]]
    BY Zenon DEF ReserveRead
  <2> QED BY Zenon, <1>1, <2>1
<1>3. staging' = staging
  BY Zenon DEF ReserveRead
<1>4. L1Typed'
  BY Zenon, <1>1, <1>2, <1>3 DEF L1Typed, IsStaged
<1> QED BY Zenon, <1>1, <1>4 DEF Kept

\* finish_read of locked objects takes one lock from each.
LEMMA FinishReadHeld ==
    ASSUME L1Typed, NEW K \in SUBSET Keys, \A k \in K : Held(k) > 0, FinishRead(K, 1)
    PROVE  /\ L1Typed' /\ Kept
           /\ \A k \in Keys : Held(k)' = IF k \in K THEN Held(k) - 1 ELSE Held(k)
<1>0. DroppedByRead(K, 1) = {}
  BY Zenon DEF DroppedByRead, ReadLocked, L1Typed
<1>1. ASSUME NEW k \in Keys
      PROVE  /\ objects'[k] \in Resident \cup {None} /\ (IsResident(k)' <=> IsResident(k))
             /\ IsResident(k) => ~objects'[k].temp /\ objects'[k].buf = objects[k].buf
             /\ Held(k)' = IF k \in K THEN Held(k) - 1 ELSE Held(k)
  <2>1. CASE k \notin K
    <3>1. objects'[k] = objects[k]
      BY Zenon, <1>0, <2>1 DEF FinishRead
    <3> QED BY Zenon, <2>1, <3>1 DEF L1Typed, IsResident, Held
  <2>2. CASE k \in K
    <3>1. /\ IsResident(k) /\ objects[k].locks > 0 /\ objects[k] \in Resident
          /\ objects[k].locks \in 0 .. MaxLocks
      BY <2>2, HeldTyped DEF Held
    <3>2. objects'[k] = [objects[k] EXCEPT !.locks =
                             IF 1 >= objects[k].locks THEN 0 ELSE objects[k].locks - 1]
      BY Zenon, <1>0, <2>2, <3>1 DEF FinishRead, Unlock, ReadLocked
    <3>3. /\ (IF 1 >= objects[k].locks THEN 0 ELSE objects[k].locks - 1) = objects[k].locks - 1
          /\ objects[k].locks - 1 \in 0 .. MaxLocks
      BY <3>1, L1Assumption
    <3>4. /\ objects'[k] \in Resident /\ objects'[k].temp = objects[k].temp
          /\ objects'[k].buf = objects[k].buf /\ objects'[k].locks = objects[k].locks - 1
      BY Zenon, <3>1, <3>2, <3>3 DEF Resident
    <3>5. objects'[k] # None
      BY Zenon, <3>4, L1Assumption
    <3> QED BY Zenon, <2>2, <3>1, <3>4, <3>5 DEF L1Typed, IsResident, Held
  <2> QED BY Zenon, <2>1, <2>2
<1>2. objects' \in [Keys -> Resident \cup {None}]
  <2>1. objects' = [k \in Keys |-> objects'[k]]
    BY Zenon DEF FinishRead
  <2> QED BY Zenon, <1>1, <2>1
<1>3. staging' = staging
  BY Zenon DEF FinishRead
<1>4. L1Typed'
  BY Zenon, <1>1, <1>2, <1>3 DEF L1Typed, IsStaged
<1> QED BY Zenon, <1>1, <1>4 DEF Kept

\* _pop_staging leaves entries that were there.
LEMMA PopTyped ==
    ASSUME L1Typed, NEW S, PopStaging(S)
    PROVE  /\ staging' \in [Keys -> [Tags -> Staged \cup {None}]]
           /\ \A k \in Keys, t \in Tags : IsStaged(k, t)' => ~staging'[k][t].temp
<1>1. \A k \in Keys, t \in Tags : staging'[k][t] = staging[k][t] \/ staging'[k][t] = None
  BY Zenon DEF PopStaging
<1>2. staging' = [k \in Keys |-> [t \in Tags |-> IF <<k, t>> \in S THEN None ELSE staging[k][t]]]
  BY Zenon DEF PopStaging
<1>3. staging' \in [Keys -> [Tags -> Staged \cup {None}]]
  BY Zenon, <1>2 DEF L1Typed
<1> QED BY Zenon, <1>1, <1>3 DEF L1Typed, IsStaged

\* An unforced delete removes no locked object.
LEMMA DeleteHeld ==
    ASSUME L1Typed, NEW K \in SUBSET Keys, Delete(K, FALSE)
    PROVE  /\ L1Typed' /\ Kept
           /\ \A k \in Keys : Held(k)' = Held(k)
           /\ \A k \in Keys : k \notin K => objects'[k] = objects[k]
<1>1. /\ objects' = [k \in Keys |-> IF k \in Deleted(K, FALSE) THEN None ELSE objects[k]]
      /\ PopStaging(Reclaimable(K, FALSE))
  BY Zenon DEF Delete, RemoveAll
<1>2. ASSUME NEW k \in Deleted(K, FALSE) PROVE k \in K /\ Held(k) = 0
  <2>1. k \in K /\ IsResident(k) /\ ~ReadLocked(k)
    BY Zenon, <1>2 DEF Deleted
  <2>2. objects[k].locks = 0
    BY <2>1, HeldTyped DEF ReadLocked
  <2> QED BY Zenon, <2>1, <2>2 DEF Held
<1>3. \A k \in Keys : objects'[k] = objects[k] \/ (objects'[k] = None /\ Held(k) = 0 /\ k \in K)
  BY Zenon, <1>1, <1>2
<1>4. objects' \in [Keys -> Resident \cup {None}]
  BY Zenon, <1>1 DEF L1Typed
<1>5. L1Typed'
  BY Zenon, <1>1, <1>3, <1>4, PopTyped DEF L1Typed, IsResident
<1>6. \A k \in Keys : Held(k)' = Held(k)
  BY Zenon, <1>3 DEF Held, IsResident
<1>7. Kept
  BY Zenon, <1>3 DEF Kept, IsResident
<1> QED BY Zenon, <1>3, <1>5, <1>6, <1>7

\* A staging object that is handed over.
LEMMA ReholdTyped ==
    ASSUME NEW temp \in BOOLEAN, NEW o \in Staged
    PROVE  Rehold(o, temp) \in Staged /\ Rehold(o, temp).temp = temp
BY Zenon DEF Rehold, Staged

\* A new one.
LEMMA NewStagedTyped ==
    ASSUME NEW temp \in BOOLEAN, NEW b \in Bufs
    PROVE  NewStaged(b, temp, 1) \in Staged /\ NewStaged(b, temp, 1).temp = temp
BY Zenon, StoreAssumption DEF NewStaged, Staged

\* reserve_write concerns the staging table alone.
LEMMA ReserveWriteHeld ==
    ASSUME L1Typed, NEW k \in Keys, ReserveWrite({k}, {}, WriteTag, 1)
    PROVE  L1Typed' /\ objects' = objects
<1>1. PICK f \in Allocations(NeedToAllocate({k}, WriteTag)) :
         staging' = StagingWith({k}, {}, WriteTag, f, 1)
  BY Zenon DEF ReserveWrite
<1>2. objects' = objects
  BY Zenon DEF ReserveWrite
<1>3. ASSUME NEW j \in Keys, NEW t \in Tags
      PROVE  /\ staging'[j][t] \in Staged \cup {None}
             /\ staging'[j][t] # None => ~staging'[j][t].temp
  <2>1. \/ staging'[j][t] = staging[j][t]
        \/ j \in HandedOver({k}, WriteTag) /\ t = WriteTag
             /\ staging'[j][t] = Rehold(staging[j][t], j \in {})
        \/ j \in DOMAIN f /\ staging'[j][t] = NewStaged(f[j], j \in {}, 1)
    BY Zenon, <1>1 DEF StagingWith
  <2>2. CASE staging'[j][t] = staging[j][t]
    BY Zenon, <2>2 DEF L1Typed, IsStaged
  <2>3. CASE j \in HandedOver({k}, WriteTag) /\ t = WriteTag
               /\ staging'[j][t] = Rehold(staging[j][t], j \in {})
    <3>1. staging[j][t] \in Staged
      BY Zenon, <2>3 DEF HandedOver, IsStaged, L1Typed
    <3>2. staging[j][t].buf \in Bufs /\ (j \in {}) \in BOOLEAN /\ ~(j \in {})
      BY <3>1 DEF Staged
    <3> QED BY Zenon, <2>3, <3>1, <3>2, ReholdTyped
  <2>4. CASE j \in DOMAIN f /\ staging'[j][t] = NewStaged(f[j], j \in {}, 1)
    <3>1. f[j] \in Bufs /\ (j \in {}) \in BOOLEAN /\ ~(j \in {})
      BY <2>4 DEF Allocations
    <3> QED BY Zenon, <2>4, <3>1, NewStagedTyped
  <2> QED BY Zenon, <2>1, <2>2, <2>3, <2>4
<1>4. staging' \in [Keys -> [Tags -> Staged \cup {None}]]
  <2>1. staging' = [j \in Keys |-> [t \in Tags |-> staging'[j][t]]]
    BY Zenon, <1>1 DEF StagingWith
  <2> QED BY Zenon, <1>3, <2>1
<1> QED BY Zenon, <1>2, <1>3, <1>4 DEF L1Typed, IsStaged, IsResident

\* finish_write admits an object that nobody has locked.
LEMMA FinishWriteHeld ==
    ASSUME L1Typed, NEW k \in Keys, FinishWrite({k}, WriteTag)
    PROVE  /\ L1Typed' /\ Kept
           /\ \A j \in Keys : Held(j)' = Held(j)
<1>1. /\ objects' = [j \in Keys |-> IF j \in Admitted({k}, WriteTag) THEN Admit(j, WriteTag, 0)
                                    ELSE objects[j]]
      /\ PopStaging(Taken({k}, WriteTag) \X {WriteTag})
  BY Zenon DEF FinishWrite
<1>2. ASSUME NEW j \in Admitted({k}, WriteTag), NEW o, o = Admit(j, WriteTag, 0)
      PROVE  /\ j \in Keys /\ ~IsResident(j)
             /\ o \in Resident /\ o # None /\ o.locks = 0 /\ ~o.temp
  <2>1. j \in Keys /\ ~IsResident(j) /\ IsStaged(j, WriteTag)
    BY Zenon, <1>2 DEF Admitted, Taken, IsLive
  <2>2. staging[j][WriteTag] \in Staged /\ ~staging[j][WriteTag].temp
    BY Zenon, <2>1, StoreAssumption DEF L1Typed, IsStaged
  <2>3. /\ staging[j][WriteTag].buf \in Bufs /\ staging[j][WriteTag].temp \in BOOLEAN
        /\ 0 \in 0 .. MaxLocks
    BY <2>2, L1Assumption DEF Staged
  <2>4. o \in Resident /\ o.locks = 0 /\ o.temp = staging[j][WriteTag].temp
    BY Zenon, <1>2, <2>3 DEF Admit, Resident
  <2> QED BY Zenon, <2>1, <2>2, <2>4, L1Assumption
<1>3. \A j \in Keys : \/ objects'[j] = objects[j]
                      \/ /\ ~IsResident(j) /\ objects'[j] \in Resident /\ objects'[j] # None
                         /\ objects'[j].locks = 0 /\ ~objects'[j].temp
  BY Zenon, <1>1, <1>2
<1>4. objects' \in [Keys -> Resident \cup {None}]
  <2>1. objects' = [j \in Keys |-> objects'[j]]
    BY Zenon, <1>1
  <2>2. \A j \in Keys : objects'[j] \in Resident \cup {None}
    BY Zenon, <1>3 DEF L1Typed
  <2> QED BY Zenon, <2>1, <2>2
<1>5. L1Typed'
  BY Zenon, <1>1, <1>3, <1>4, PopTyped DEF L1Typed, IsResident
<1>6. \A j \in Keys : Held(j)' = Held(j)
  BY Zenon, <1>3 DEF Held, IsResident
<1>7. Kept
  BY Zenon, <1>3 DEF Kept, IsResident
<1> QED BY Zenon, <1>5, <1>6, <1>7

----------------------------------------------------------------------------
\* The loop's state

Labels == {"ops", "poll", "fds", "pop", "submit", "hand", "drain", "advance", "delete",
           "detach", "retry", "stopped"}

Locals == [ready : SUBSET (Adapters \cup {Listener}), signaled : SUBSET Adapters,
           todo : SUBSET [id : Adapters, keys : SUBSET Keys], cur : Stores \cup {None},
           del : SUBSET Keys]

LoopTyped ==
    /\ pending \subseteq Keys /\ deferred \subseteq Keys /\ reading \subseteq Keys
    /\ attached \subseteq Adapters /\ \A o \in ops : o.id \in Adapters
    /\ inFlight \in [Adapters -> [TaskIds -> Tasks \cup {None}]]
    /\ job \in [Adapters -> [TaskIds -> Jobs \cup {None}]]
    /\ pc \in Labels /\ loc \in Locals

\* Where the loop is says which of its local variables are in use.
Where ==
    /\ loc.cur # None <=> pc = "hand"
    /\ pc \notin {"submit", "hand"} => loc.todo = {}
    /\ pc \notin {"fds", "pop", "submit", "hand"} => loc.ready = {}
    /\ pc \notin {"fds", "pop", "submit", "hand", "drain"} => loc.signaled = {}

\* Until the controller stops it tracks every store of an adapter.
Paired ==
    pc # "stopped" =>
        \A a \in Adapters, i \in TaskIds : job[a][i] # None =>
            /\ inFlight[a][i] # None /\ inFlight[a][i].keys = DOMAIN job[a][i].bufs
            /\ inFlight[a][i].result = "none"

\* An adapter that is not attached has no store and is not about to get one.
Unused(a) ==
    /\ \A i \in TaskIds : inFlight[a][i] = None /\ job[a][i] = None
    /\ a \notin loc.ready /\ a \notin loc.signaled
    /\ (\A s \in loc.todo : s.id # a) /\ (loc.cur # None => loc.cur.id # a)

Routed == \A a \in Adapters : a \notin attached => Unused(a)

\* A store that succeeded is in L2, and only such stores lead to deletions.
Behind ==
    /\ deferred \subseteq l2 /\ loc.del \subseteq l2
    /\ \A a \in Adapters, i \in TaskIds :
         inFlight[a][i] # None /\ inFlight[a][i].result = "ok" => inFlight[a][i].keys \subseteq l2
    /\ \A a \in Adapters, i \in TaskIds :
         job[a][i] # None /\ job[a][i].st = "ok" => DOMAIN job[a][i].bufs \subseteq l2

LoopInv == LoopTyped /\ Where /\ Paired /\ Routed /\ Behind

\* The fields of the local variables.
LEMMA LocTyped ==
    ASSUME loc \in Locals
    PROVE  /\ loc.ready \subseteq Adapters \cup {Listener} /\ loc.signaled \subseteq Adapters
           /\ loc.todo \subseteq [id : Adapters, keys : SUBSET Keys]
           /\ loc.cur \in Stores \cup {None} /\ loc.del \subseteq Keys
BY Zenon DEF Locals

\* A map from keys to buffers.
LEMMA BufMapTyped ==
    ASSUME NEW f \in BufMaps PROVE DOMAIN f \subseteq Keys
BY Zenon DEF BufMaps

\* The store being submitted.
LEMMA CurTyped ==
    ASSUME LoopTyped, loc.cur # None
    PROVE  /\ loc.cur \in Stores /\ loc.cur.id \in Adapters /\ loc.cur.bufs \in BufMaps
           /\ DOMAIN loc.cur.bufs \subseteq Keys
<1>1. loc.cur \in Stores
  BY Zenon, LocTyped DEF LoopTyped
<1>2. loc.cur.id \in Adapters /\ loc.cur.bufs \in BufMaps
  BY Zenon, <1>1 DEF Stores
<1> QED BY Zenon, <1>1, <1>2, BufMapTyped

\* The entries of the task tables.
LEMMA TaskTyped ==
    ASSUME LoopTyped, NEW a \in Adapters, NEW i \in TaskIds
    PROVE  /\ inFlight[a][i] # None =>
                /\ inFlight[a][i] \in Tasks /\ inFlight[a][i].keys \subseteq Keys
                /\ inFlight[a][i].result \in {"none", "ok", "failed"}
           /\ job[a][i] # None =>
                /\ job[a][i] \in Jobs /\ job[a][i].bufs \in BufMaps
                /\ job[a][i].st \in {"running", "ok", "failed"}
<1>1. /\ inFlight[a][i] # None => inFlight[a][i] \in Tasks
      /\ job[a][i] # None => job[a][i] \in Jobs
  BY Zenon DEF LoopTyped
<1> QED BY Zenon, <1>1 DEF Tasks, Jobs

\* Steps that leave the task tables alone.
LEMMA TasksUnmoved ==
    ASSUME LoopInv, inFlight' = inFlight, job' = job, l2' = l2,
           deferred' \subseteq l2, loc'.del \subseteq l2, pc = "stopped" => pc' = "stopped"
    PROVE  Paired' /\ Behind'
BY Zenon DEF LoopInv, Paired, Behind

\* Steps of the other threads.
LEMMA LoopIdle ==
    ASSUME LoopInv, Idle, job' = job, l2' = l2, pending' \subseteq Keys, reading' \subseteq Keys
    PROVE  LoopInv'
<1>1. UNCHANGED <<ops, attached, inFlight, deferred, pc, loc, job, l2>>
  BY Zenon DEF Idle
<1>2. LoopTyped' /\ Where'
  BY Zenon, <1>1 DEF LoopInv, LoopTyped, Where
<1>3. Routed'
  BY Zenon, <1>1 DEF LoopInv, Routed, Unused
<1>4. Paired' /\ Behind'
  BY Zenon, <1>1 DEF LoopInv, Paired, Behind
<1> QED BY Zenon, <1>2, <1>3, <1>4 DEF LoopInv

\* Steps of the loop that only move on, perhaps after attaching adapters.
LEMMA LoopMoves ==
    ASSUME LoopInv, UNCHANGED <<inFlight, job, l2, loc, pending, reading>>,
           deferred' \subseteq deferred, attached \subseteq attached', attached' \subseteq Adapters,
           \A o \in ops' : o.id \in Adapters, pc' \in Labels, pc # "stopped", pc # "hand", Where'
    PROVE  LoopInv'
<1>1. LoopTyped'
  BY Zenon DEF LoopInv, LoopTyped
<1>2. Routed'
  BY Zenon DEF LoopInv, Routed, Unused
<1>3. Paired' /\ Behind'
  BY Zenon, TasksUnmoved DEF LoopInv, Behind
<1> QED BY Zenon, <1>1, <1>2, <1>3 DEF LoopInv

\* The steps between the handlers.
LEMMA MovesOn ==
    ASSUME LoopInv, ApplyOps \/ FdsHandled \/ Submitted \/ Advanced \/ SkipRetry \/ Stop
    PROVE  LoopInv'
<1>1. /\ LoopTyped /\ Where /\ attached \subseteq Adapters
  BY Zenon DEF LoopInv, LoopTyped
<1>2. CASE ApplyOps
  <2>1. /\ pc = "ops" /\ pc' = "poll" /\ ops' = {}
        /\ attached' = attached \cup {o.id : o \in {q \in ops : q.call = 0}}
        /\ UNCHANGED <<inFlight, job, l2, loc, pending, reading, deferred>>
    BY Zenon, <1>2 DEF ApplyOps, Step, tasks, queue, clients
  <2>2. attached \subseteq attached' /\ attached' \subseteq Adapters
    BY Zenon, <1>1, <2>1 DEF LoopTyped
  <2>3. Where'
    BY Zenon, <1>1, <2>1 DEF Where
  <2> QED BY Zenon, <2>1, <2>2, <2>3, LoopMoves DEF Labels
<1>3. CASE FdsHandled \/ Submitted \/ Advanced \/ SkipRetry \/ Stop
  <2>1. UNCHANGED <<inFlight, job, l2, loc, pending, reading, deferred, attached, ops>>
    <3>1. CASE FdsHandled
      BY Zenon, <3>1 DEF FdsHandled, tasks, queue, clients, route
    <3>2. CASE Submitted
      BY Zenon, <3>2 DEF Submitted, tasks, queue, clients, route
    <3>3. CASE Advanced
      BY Zenon, <3>3 DEF Advanced, tasks, queue, clients, route
    <3>4. CASE SkipRetry
      BY Zenon, <3>4 DEF SkipRetry, tasks, queue, clients, route
    <3>5. CASE Stop
      BY Zenon, <3>5 DEF Stop, tasks, queue, clients, route
    <3> QED BY Zenon, <1>3, <3>1, <3>2, <3>3, <3>4, <3>5
  <2>2. \/ /\ pc = "fds" /\ loc.ready = {}
           /\ pc' = IF loc.signaled = {} THEN "detach" ELSE "drain"
        \/ pc = "submit" /\ pc' = "fds" /\ loc.todo = {}
        \/ pc = "advance" /\ pc' = "detach"
        \/ pc = "retry" /\ pc' = "ops"
        \/ pc = "ops" /\ pc' = "stopped"
    BY Zenon, <1>3 DEF FdsHandled, Submitted, Advanced, SkipRetry, Stop, Step
  <2>3. Where' /\ pc' \in Labels /\ pc # "stopped" /\ pc # "hand"
    BY Zenon, <1>1, <2>1, <2>2 DEF Where, Labels
  <2> QED BY Zenon, <1>1, <2>1, <2>3, LoopMoves DEF LoopTyped
<1> QED BY Zenon, <1>2, <1>3

\* poll() and the event fds.
LEMMA Wakes ==
    ASSUME LoopInv, Poll \/ ConsumeListener \/ \E a \in Adapters : ConsumeAdapter(a)
    PROVE  LoopInv'
<1>1. /\ LoopTyped /\ Where /\ Routed /\ loc \in Locals /\ attached \subseteq Adapters
      /\ deferred \subseteq l2 /\ loc.del \subseteq l2
  BY Zenon DEF LoopInv, LoopTyped, Behind
<1>2. /\ loc.ready \subseteq Adapters \cup {Listener} /\ loc.signaled \subseteq Adapters
  BY Zenon, <1>1, LocTyped
<1>3. ASSUME UNCHANGED <<inFlight, job, l2, pending, reading, deferred, attached, ops>>,
             loc' \in Locals, loc'.cur = None, loc'.todo = {}, loc'.del \subseteq l2,
             pc # "stopped", pc' \in {"fds", "pop"},
             \A a \in Adapters : a \notin attached => a \notin loc'.ready \cup loc'.signaled
      PROVE  LoopInv'
  <2>1. LoopTyped'
    BY Zenon, <1>1, <1>3 DEF LoopTyped, Labels
  <2>2. Where'
    BY Zenon, <1>3 DEF Where
  <2>3. Routed'
    BY Zenon, <1>1, <1>3 DEF Routed, Unused
  <2>4. Paired' /\ Behind'
    BY Zenon, <1>1, <1>3, TasksUnmoved
  <2> QED BY Zenon, <2>1, <2>2, <2>3, <2>4 DEF LoopInv
<1>4. CASE Poll
  <2> DEFINE ready == (IF wake THEN {Listener} ELSE {}) \cup {a \in attached : jobFd[a]}
  <2>1. /\ pc = "poll" /\ pc' = "fds" /\ loc' = [NoLocals EXCEPT !.ready = ready]
        /\ UNCHANGED <<inFlight, job, l2, pending, reading, deferred, attached, ops>>
    BY Zenon, <1>4 DEF Poll, Step, tasks, queue, clients, route
  <2>2. ready \in SUBSET (Adapters \cup {Listener})
    BY Zenon, <1>1
  <2>3. \A a \in Adapters : a \notin attached => a \notin ready \cup {}
    BY Zenon, StoreAssumption
  <2> HIDE DEF ready
  <2>4. /\ loc' \in Locals /\ loc'.ready = ready /\ loc'.signaled = {}
        /\ loc'.cur = None /\ loc'.todo = {} /\ loc'.del = {}
    BY Zenon, <2>1, <2>2 DEF NoLocals, Locals
  <2>5. pc # "stopped" /\ pc' \in {"fds", "pop"}
    BY Zenon, <2>1
  <2> QED BY Zenon, <1>3, <2>1, <2>3, <2>4, <2>5
<1>5. CASE ConsumeListener
  <2> DEFINE ready == loc.ready \ {Listener}
  <2>1. /\ pc = "fds" /\ pc' = "pop" /\ loc' = [loc EXCEPT !.ready = ready]
        /\ UNCHANGED <<inFlight, job, l2, pending, reading, deferred, attached, ops>>
    BY Zenon, <1>5 DEF ConsumeListener, Step, tasks, clients, route
  <2>2. ready \in SUBSET (Adapters \cup {Listener})
    BY Zenon, <1>2
  <2>3. \A a \in Adapters : a \notin attached => a \notin ready \cup loc.signaled
    BY Zenon, <1>1 DEF Routed, Unused
  <2> HIDE DEF ready
  <2>4. /\ loc' \in Locals /\ loc'.ready = ready /\ loc'.signaled = loc.signaled
        /\ loc'.cur = loc.cur /\ loc'.todo = loc.todo /\ loc'.del = loc.del
    BY Zenon, <1>1, <2>1, <2>2 DEF Locals
  <2>5. pc # "stopped" /\ pc' \in {"fds", "pop"} /\ loc.cur = None /\ loc.todo = {}
    BY Zenon, <1>1, <2>1 DEF Where
  <2> QED BY Zenon, <1>1, <1>3, <2>1, <2>3, <2>4, <2>5
<1>6. ASSUME NEW a \in Adapters, ConsumeAdapter(a) PROVE LoopInv'
  <2> DEFINE ready == loc.ready \ {a} signaled == loc.signaled \cup {a}
  <2>1. /\ pc = "fds" /\ pc' = "fds" /\ a \in loc.ready
        /\ loc' = [loc EXCEPT !.ready = ready, !.signaled = signaled]
        /\ UNCHANGED <<inFlight, job, l2, pending, reading, deferred, attached, ops>>
    BY Zenon, <1>6 DEF ConsumeAdapter, Step, tasks, queue, clients, route
  <2>2. ready \in SUBSET (Adapters \cup {Listener}) /\ signaled \in SUBSET Adapters
    BY Zenon, <1>2
  <2>3. \A b \in Adapters : b \notin attached => b \notin ready \cup signaled
    BY Zenon, <1>1, <2>1 DEF Routed, Unused
  <2> HIDE DEF ready, signaled
  <2>4. /\ loc' \in Locals /\ loc'.ready = ready /\ loc'.signaled = signaled
        /\ loc'.cur = loc.cur /\ loc'.todo = loc.todo /\ loc'.del = loc.del
    BY Zenon, <1>1, <2>1, <2>2 DEF Locals
  <2>5. pc # "stopped" /\ pc' \in {"fds", "pop"} /\ loc.cur = None /\ loc.todo = {}
    BY Zenon, <1>1, <2>1 DEF Where
  <2> QED BY Zenon, <1>1, <1>3, <2>1, <2>3, <2>4, <2>5
<1> QED BY Zenon, <1>4, <1>5, <1>6

\* New keys become a store for every adapter that takes any.
LEMMA Pops ==
    ASSUME LoopInv, PopPending PROVE LoopInv'
<1>1. /\ LoopTyped /\ Where /\ Routed /\ loc \in Locals /\ attached \subseteq Adapters
      /\ deferred \subseteq l2 /\ loc.del \subseteq l2 /\ pending \subseteq Keys
      /\ deferred \subseteq Keys
  BY Zenon DEF LoopInv, LoopTyped, Behind
<1> DEFINE todo == {[id |-> a, keys |-> pending] : a \in Targets}
<1>2. /\ pc = "pop" /\ pc' = "submit" /\ pending' = {} /\ deferred' = deferred \ pending
      /\ loc' = [loc EXCEPT !.todo = todo]
      /\ UNCHANGED <<inFlight, job, l2, reading, attached, ops>>
  BY Zenon DEF PopPending, Step, tasks, clients, route
<1>3. todo \in SUBSET [id : Adapters, keys : SUBSET Keys]
  BY <1>1 DEF Targets
<1>4. \A t \in todo : t.id \in attached
  BY DEF Targets
<1> HIDE DEF todo
<1>5. /\ loc' \in Locals /\ loc'.ready = loc.ready /\ loc'.signaled = loc.signaled
      /\ loc'.cur = loc.cur /\ loc'.todo = todo /\ loc'.del = loc.del
  BY Zenon, <1>1, <1>2, <1>3 DEF Locals
<1>6. pc # "stopped" /\ pc' \in Labels /\ loc.cur = None /\ deferred' \subseteq deferred
  BY Zenon, <1>1, <1>2 DEF Where, Labels
<1>7. LoopTyped'
  BY Zenon, <1>1, <1>2, <1>5, <1>6 DEF LoopTyped
<1>8. Where'
  BY Zenon, <1>2, <1>5, <1>6 DEF Where
<1>9. Routed'
  <2> SUFFICES ASSUME NEW a \in Adapters, a \notin attached PROVE Unused(a)'
    BY Zenon, <1>2 DEF Routed
  <2>1. Unused(a)
    BY Zenon, <1>1 DEF Routed
  <2>2. \A u \in todo : u.id # a
    BY Zenon, <1>4
  <2> QED BY Zenon, <1>2, <1>5, <1>6, <2>1, <2>2 DEF Unused
<1>10. Paired' /\ Behind'
  BY Zenon, <1>1, <1>2, <1>5, <1>6, TasksUnmoved
<1> QED BY Zenon, <1>7, <1>8, <1>9, <1>10 DEF LoopInv

\* The objects of one store are locked.
LEMMA Reserves ==
    ASSUME LoopInv, L1Typed, NEW t \in loc.todo, ReserveForStore(t) PROVE LoopInv'
<1>1. /\ LoopTyped /\ Where /\ Routed /\ loc \in Locals /\ attached \subseteq Adapters
      /\ deferred \subseteq l2 /\ loc.del \subseteq l2
  BY Zenon DEF LoopInv, LoopTyped, Behind
<1> DEFINE found == {k \in t.keys : IsResident(k)}
           bufs == [k \in found |-> objects[k].buf]
           cur == IF found = {} THEN None ELSE [id |-> t.id, bufs |-> bufs]
           todo == loc.todo \ {t}
<1>2. /\ pc = "submit" /\ pc' = IF found = {} THEN "submit" ELSE "hand"
      /\ loc' = [loc EXCEPT !.todo = todo, !.cur = cur]
      /\ UNCHANGED <<inFlight, job, l2, pending, reading, deferred, attached, ops>>
  BY Zenon DEF ReserveForStore, Step, tasks, queue, clients, route
<1>3. t.id \in Adapters /\ t.keys \subseteq Keys /\ todo \in SUBSET [id : Adapters, keys : SUBSET Keys]
  BY Zenon, <1>1, LocTyped
<1>4. bufs \in BufMaps
  <2>1. found \in SUBSET Keys
    BY Zenon, <1>3
  <2>2. \A k \in found : objects[k].buf \in Bufs
    BY Zenon, <1>3, HeldTyped
  <2>3. bufs \in [found -> Bufs]
    BY Zenon, <2>2
  <2> QED BY Zenon, <2>1, <2>3 DEF BufMaps
<1>5. [id |-> t.id, bufs |-> bufs] \in Stores
  BY Zenon, <1>3, <1>4 DEF Stores
<1>6. cur \in Stores \cup {None} /\ (cur # None <=> found # {}) /\ (cur # None => cur.id = t.id)
  BY Zenon, <1>5, StoreAssumption
<1> HIDE DEF cur, todo, bufs
<1>7. /\ loc' \in Locals /\ loc'.ready = loc.ready /\ loc'.signaled = loc.signaled
      /\ loc'.cur = cur /\ loc'.todo = todo /\ loc'.del = loc.del
  BY Zenon, <1>1, <1>2, <1>3, <1>6 DEF Locals
<1>8. pc # "stopped" /\ pc' \in Labels
  BY Zenon, <1>2 DEF Labels
<1>9. LoopTyped'
  BY Zenon, <1>1, <1>2, <1>7, <1>8 DEF LoopTyped
<1>10. Where'
  BY Zenon, <1>2, <1>6, <1>7 DEF Where
<1>11. Routed'
  <2> SUFFICES ASSUME NEW a \in Adapters, a \notin attached PROVE Unused(a)'
    BY Zenon, <1>2 DEF Routed
  <2>1. Unused(a)
    BY Zenon, <1>1 DEF Routed
  <2>2. (\A u \in todo : u.id # a) /\ t.id # a
    BY Zenon, <2>1 DEF Unused, todo
  <2>3. cur # None => cur.id # a
    BY Zenon, <1>6, <2>2
  <2> QED BY Zenon, <1>2, <1>7, <2>1, <2>2, <2>3 DEF Unused
<1>12. Paired' /\ Behind'
  BY Zenon, <1>1, <1>2, <1>7, <1>8, TasksUnmoved
<1> QED BY Zenon, <1>9, <1>10, <1>11, <1>12 DEF LoopInv

\* The store is handed to its adapter, or the adapter refuses it.
LEMMA Submits ==
    ASSUME LoopInv, SubmitStore \/ SubmitRaises PROVE LoopInv'
<1>1. /\ LoopTyped /\ Where /\ Paired /\ Routed /\ Behind /\ loc \in Locals
      /\ attached \subseteq Adapters
      /\ deferred \subseteq l2 /\ loc.del \subseteq l2
  BY Zenon DEF LoopInv, LoopTyped, Behind
<1>2. /\ pc = "hand" /\ pc' = "submit" /\ loc' = [loc EXCEPT !.cur = None]
      /\ UNCHANGED <<l2, pending, reading, deferred, attached, ops>>
  BY Zenon DEF SubmitStore, SubmitRaises, Step, tasks, queue, clients, route
<1>3. /\ loc' \in Locals /\ loc'.ready = loc.ready /\ loc'.signaled = loc.signaled
      /\ loc'.cur = None /\ loc'.todo = loc.todo /\ loc'.del = loc.del
  BY Zenon, <1>1, <1>2 DEF Locals
<1>4. pc # "stopped" /\ pc' \in Labels /\ loc.cur # None
  BY Zenon, <1>1, <1>2 DEF Labels, Where
<1>5. Where'
  BY Zenon, <1>2, <1>3 DEF Where
<1>6. CASE SubmitRaises
  <2>1. inFlight' = inFlight /\ job' = job
    BY Zenon, <1>6 DEF SubmitRaises, tasks
  <2>2. LoopTyped'
    BY Zenon, <1>1, <1>2, <1>3, <1>4, <2>1 DEF LoopTyped
  <2>3. Routed'
    <3> SUFFICES ASSUME NEW a \in Adapters, a \notin attached PROVE Unused(a)'
      BY Zenon, <1>2 DEF Routed
    <3>1. Unused(a)
      BY Zenon, <1>1 DEF Routed
    <3> QED BY Zenon, <1>3, <2>1, <3>1 DEF Unused
  <2>4. Paired' /\ Behind'
    BY Zenon, <1>1, <1>2, <1>3, <1>4, <2>1, TasksUnmoved
  <2> QED BY Zenon, <1>5, <2>2, <2>3, <2>4 DEF LoopInv
<1>7. CASE SubmitStore
  <2> DEFINE a == loc.cur.id
             new == [bufs |-> loc.cur.bufs, st |-> "running"]
             task == [keys |-> DOMAIN loc.cur.bufs, result |-> "none"]
  <2>1. PICK i \in FreeIds(a) : /\ job' = [job EXCEPT ![a][i] = new]
                                /\ inFlight' = [inFlight EXCEPT ![a][i] = task]
    BY Zenon, <1>7 DEF SubmitStore
  <2>2. a \in Adapters /\ i \in TaskIds /\ job[a][i] = None /\ inFlight[a][i] = None
    BY Zenon, <1>1, <1>4, <2>1, CurTyped DEF FreeIds
  <2>3. new \in Jobs /\ task \in Tasks
    BY Zenon, <1>1, <1>4, CurTyped DEF Jobs, Tasks
  <2>4. new.bufs = loc.cur.bufs /\ new.st = "running" /\ task.keys = DOMAIN loc.cur.bufs
        /\ task.result = "none"
    BY Zenon
  <2>5. a \in attached
    BY Zenon, <1>1, <1>4, <2>2 DEF Routed, Unused
  <2> HIDE DEF a, new, task
  <2>6. /\ job' \in [Adapters -> [TaskIds -> Jobs \cup {None}]]
        /\ inFlight' \in [Adapters -> [TaskIds -> Tasks \cup {None}]]
    BY Zenon, <1>1, <2>1, <2>2, <2>3 DEF LoopTyped
  <2>7. \A b \in Adapters, j \in TaskIds :
           \/ b = a /\ j = i /\ job'[b][j] = new /\ inFlight'[b][j] = task
           \/ ~(b = a /\ j = i) /\ job'[b][j] = job[b][j] /\ inFlight'[b][j] = inFlight[b][j]
    BY Zenon, <1>1, <2>1, <2>2 DEF LoopTyped
  <2>8. LoopTyped'
    BY Zenon, <1>1, <1>2, <1>3, <1>4, <2>6 DEF LoopTyped
  <2>9. Routed'
    <3> SUFFICES ASSUME NEW b \in Adapters, b \notin attached PROVE Unused(b)'
      BY Zenon, <1>2 DEF Routed
    <3>1. Unused(b) /\ b # a
      BY Zenon, <1>1, <2>5 DEF Routed
    <3>2. \A j \in TaskIds : inFlight'[b][j] = None /\ job'[b][j] = None
      BY Zenon, <2>7, <3>1 DEF Unused
    <3> QED BY Zenon, <1>3, <3>1, <3>2 DEF Unused
  <2>10. Paired'
    <3> SUFFICES ASSUME NEW b \in Adapters, NEW j \in TaskIds, job'[b][j] # None
                 PROVE  /\ inFlight'[b][j] # None /\ inFlight'[b][j].keys = DOMAIN job'[b][j].bufs
                        /\ inFlight'[b][j].result = "none"
      BY Zenon DEF Paired
    <3>1. CASE job'[b][j] = new /\ inFlight'[b][j] = task
      BY Zenon, <2>3, <2>4, <3>1, StoreAssumption
    <3>2. CASE job'[b][j] = job[b][j] /\ inFlight'[b][j] = inFlight[b][j]
      BY Zenon, <1>1, <1>4, <3>2 DEF Paired
    <3> QED BY Zenon, <2>7, <3>1, <3>2
  <2>11. new.st # "ok" /\ task.result # "ok"
    BY Zenon, <2>4
  <2>12. Behind'
    <3>1. ASSUME NEW b \in Adapters, NEW j \in TaskIds
          PROVE  /\ inFlight'[b][j] # None /\ inFlight'[b][j].result = "ok" =>
                       inFlight'[b][j].keys \subseteq l2
                 /\ job'[b][j] # None /\ job'[b][j].st = "ok" => DOMAIN job'[b][j].bufs \subseteq l2
      <4>1. CASE job'[b][j] = new /\ inFlight'[b][j] = task
        BY Zenon, <2>11, <4>1
      <4>2. CASE job'[b][j] = job[b][j] /\ inFlight'[b][j] = inFlight[b][j]
        BY Zenon, <1>1, <4>2 DEF Behind
      <4> QED BY Zenon, <2>7, <4>1, <4>2
    <3> QED BY Zenon, <1>1, <1>2, <1>3, <3>1 DEF Behind
  <2> QED BY Zenon, <1>5, <2>8, <2>9, <2>10, <2>12 DEF LoopInv
<1> QED BY Zenon, <1>6, <1>7

\* The results of an adapter's stores are recorded.
LEMMA Drains ==
    ASSUME LoopInv, NEW a \in Adapters, Drain(a) PROVE LoopInv'
<1>1. /\ LoopTyped /\ Where /\ Paired /\ Routed /\ Behind /\ loc \in Locals
      /\ attached \subseteq Adapters
      /\ deferred \subseteq l2 /\ loc.del \subseteq l2
  BY Zenon DEF LoopInv, LoopTyped, Behind
<1> DEFINE signaled == loc.signaled \ {a}
           result(i) == [inFlight[a][i] EXCEPT !.result = job[a][i].st]
<1>2. /\ pc = "drain" /\ pc' = IF loc.signaled = {a} THEN "advance" ELSE "drain"
      /\ loc' = [loc EXCEPT !.signaled = signaled] /\ a \in loc.signaled
      /\ UNCHANGED <<l2, pending, reading, deferred, attached, ops>>
  BY Zenon DEF Drain, Step, queue, clients, route
<1>3. signaled \in SUBSET Adapters
  BY Zenon, <1>1, LocTyped
<1>4. signaled # {} \/ pc' = "advance"
  BY Zenon, <1>2
<1>5. pc' = "advance" => signaled = {}
  BY Zenon, <1>2
<1> HIDE DEF signaled
<1>6. /\ loc' \in Locals /\ loc'.ready = loc.ready /\ loc'.signaled = signaled
      /\ loc'.cur = loc.cur /\ loc'.todo = loc.todo /\ loc'.del = loc.del
  BY Zenon, <1>1, <1>2, <1>3 DEF Locals
<1>7. pc # "stopped" /\ pc' \in Labels /\ pc' \in {"drain", "advance"}
  BY Zenon, <1>2 DEF Labels
<1>8. Where'
  BY Zenon, <1>1, <1>2, <1>5, <1>6, <1>7 DEF Where
<1>9. /\ inFlight' = [inFlight EXCEPT ![a] = [i \in TaskIds |->
                         IF i \in Completed(a) THEN result(i) ELSE inFlight[a][i]]]
      /\ job' = [job EXCEPT ![a] = [i \in TaskIds |->
                         IF i \in Completed(a) THEN None ELSE job[a][i]]]
  BY Zenon DEF Drain
<1>10. a \in attached
  BY Zenon, <1>1, <1>2 DEF Routed, Unused
<1>11. ASSUME NEW i \in Completed(a)
       PROVE  /\ i \in TaskIds /\ result(i) \in Tasks /\ result(i) # None
              /\ result(i).keys = inFlight[a][i].keys
              /\ result(i).result = "ok" => inFlight[a][i].keys \subseteq l2
  <2>1. i \in TaskIds /\ job[a][i] # None /\ job[a][i].st # "running"
    BY Zenon, <1>11 DEF Completed
  <2>2. /\ inFlight[a][i] # None /\ inFlight[a][i].keys = DOMAIN job[a][i].bufs
        /\ inFlight[a][i] \in Tasks
    BY Zenon, <1>1, <1>7, <2>1, TaskTyped DEF Paired
  <2>3. job[a][i].st \in {"none", "ok", "failed"}
    BY Zenon, <1>1, <2>1, TaskTyped
  <2>4. /\ result(i) \in Tasks /\ result(i).keys = inFlight[a][i].keys
        /\ result(i).result = job[a][i].st
    BY Zenon, <2>2, <2>3 DEF Tasks
  <2>5. job[a][i].st = "ok" => DOMAIN job[a][i].bufs \subseteq l2
    BY Zenon, <1>1, <2>1 DEF Behind
  <2> QED BY Zenon, <2>1, <2>2, <2>4, <2>5, StoreAssumption
<1> HIDE DEF result
<1>12. /\ job' \in [Adapters -> [TaskIds -> Jobs \cup {None}]]
       /\ inFlight' \in [Adapters -> [TaskIds -> Tasks \cup {None}]]
  BY Zenon, <1>1, <1>9, <1>11 DEF LoopTyped
<1>13. \A b \in Adapters, j \in TaskIds :
          \/ b = a /\ j \in Completed(a) /\ job'[b][j] = None /\ inFlight'[b][j] = result(j)
          \/ job'[b][j] = job[b][j] /\ inFlight'[b][j] = inFlight[b][j]
  BY Zenon, <1>1, <1>9 DEF LoopTyped
<1>14. LoopTyped'
  BY Zenon, <1>1, <1>2, <1>6, <1>7, <1>12 DEF LoopTyped
<1>15. Routed'
  <2> SUFFICES ASSUME NEW b \in Adapters, b \notin attached PROVE Unused(b)'
    BY Zenon, <1>2 DEF Routed
  <2>1. Unused(b) /\ b # a
    BY Zenon, <1>1, <1>10 DEF Routed
  <2>2. \A j \in TaskIds : inFlight'[b][j] = None /\ job'[b][j] = None
    BY Zenon, <1>13, <2>1 DEF Unused
  <2>3. b \notin signaled
    BY Zenon, <2>1 DEF signaled, Unused
  <2> QED BY Zenon, <1>6, <2>1, <2>2, <2>3 DEF Unused
<1>16. Paired'
  <2> SUFFICES ASSUME NEW b \in Adapters, NEW j \in TaskIds, job'[b][j] # None
               PROVE  /\ inFlight'[b][j] # None /\ inFlight'[b][j].keys = DOMAIN job'[b][j].bufs
                      /\ inFlight'[b][j].result = "none"
    BY Zenon DEF Paired
  <2>1. job'[b][j] = job[b][j] /\ inFlight'[b][j] = inFlight[b][j]
    BY Zenon, <1>13
  <2> QED BY Zenon, <1>1, <1>7, <2>1 DEF Paired
<1>17. Behind'
  <2>1. ASSUME NEW b \in Adapters, NEW j \in TaskIds
        PROVE  /\ inFlight'[b][j] # None /\ inFlight'[b][j].result = "ok" =>
                     inFlight'[b][j].keys \subseteq l2
               /\ job'[b][j] # None /\ job'[b][j].st = "ok" => DOMAIN job'[b][j].bufs \subseteq l2
    <3>1. CASE b = a /\ j \in Completed(a) /\ job'[b][j] = None /\ inFlight'[b][j] = result(j)
      BY Zenon, <1>11, <3>1
    <3>2. CASE job'[b][j] = job[b][j] /\ inFlight'[b][j] = inFlight[b][j]
      BY Zenon, <1>1, <3>2 DEF Behind
    <3> QED BY Zenon, <1>13, <3>1, <3>2
  <2> QED BY Zenon, <1>1, <1>2, <1>6, <2>1 DEF Behind
<1> QED BY Zenon, <1>8, <1>14, <1>15, <1>16, <1>17 DEF LoopInv

\* A task is finished, or given up at shutdown.
LEMMA Finishes ==
    ASSUME LoopInv, NEW a \in Adapters, NEW i \in TaskIds, FinalizeStore(a, i) \/ CleanUpTask(a, i)
    PROVE  LoopInv'
<1>1. /\ LoopTyped /\ Where /\ Paired /\ Routed /\ Behind /\ loc \in Locals
      /\ deferred \subseteq l2 /\ loc.del \subseteq l2
  BY Zenon DEF LoopInv, LoopTyped, Behind
<1> DEFINE del == IF DeletesL1 /\ inFlight[a][i].result = "ok" THEN inFlight[a][i].keys ELSE {}
<1>2. /\ inFlight[a][i] # None /\ inFlight' = [inFlight EXCEPT ![a][i] = None]
      /\ UNCHANGED <<l2, pending, reading, deferred, attached, ops, job>>
  BY Zenon DEF FinalizeStore, CleanUpTask, Resolved, queue, clients, route
<1>3. /\ inFlight' \in [Adapters -> [TaskIds -> Tasks \cup {None}]]
      /\ \A b \in Adapters, j \in TaskIds :
           IF b = a /\ j = i THEN inFlight'[b][j] = None ELSE inFlight'[b][j] = inFlight[b][j]
  BY Zenon, <1>1, <1>2 DEF LoopTyped
<1>4. del \in SUBSET Keys /\ del \subseteq l2
  <2>1. inFlight[a][i].keys \subseteq Keys
    BY Zenon, <1>1, <1>2, TaskTyped
  <2>2. inFlight[a][i].result = "ok" => inFlight[a][i].keys \subseteq l2
    BY Zenon, <1>1, <1>2 DEF Behind
  <2> QED BY Zenon, <2>1, <2>2
<1>5. /\ loc' \in Locals /\ loc'.ready = loc.ready /\ loc'.signaled = loc.signaled
      /\ loc'.cur = loc.cur /\ loc'.todo = loc.todo /\ loc'.del \subseteq l2
      /\ \/ /\ pc # "stopped" /\ job[a][i] = None
            /\ pc \in {"advance"} /\ pc' \in {"advance", "delete"}
         \/ pc = "stopped" /\ pc' = "stopped"
  <2>1. CASE CleanUpTask(a, i)
    <3>1. loc' = loc /\ pc = "stopped" /\ pc' = "stopped"
      BY Zenon, <2>1 DEF CleanUpTask, Step
    <3> QED BY Zenon, <1>1, <3>1
  <2>2. CASE FinalizeStore(a, i)
    <3>1. /\ pc = "advance" /\ pc' = IF del = {} THEN "advance" ELSE "delete"
          /\ loc' = [loc EXCEPT !.del = del] /\ inFlight[a][i].result # "none"
      BY Zenon, <2>2 DEF FinalizeStore, Step, Resolved
    <3> HIDE DEF del
    <3>2. /\ loc' \in Locals /\ loc'.ready = loc.ready /\ loc'.signaled = loc.signaled
          /\ loc'.cur = loc.cur /\ loc'.todo = loc.todo /\ loc'.del = del
      BY Zenon, <1>1, <1>4, <3>1 DEF Locals
    <3>3. pc # "stopped" /\ pc \in {"advance"} /\ pc' \in {"advance", "delete"}
      BY Zenon, <3>1
    <3>4. job[a][i] = None
      BY Zenon, <1>1, <3>1, <3>3 DEF Paired
    <3> QED BY Zenon, <1>4, <3>2, <3>3, <3>4
  <2> QED BY Zenon, <2>1, <2>2
<1>6. pc' \in Labels /\ (pc' # "stopped" => pc # "stopped" /\ job[a][i] = None)
  BY Zenon, <1>5 DEF Labels
<1>7. Where'
  BY Zenon, <1>1, <1>5 DEF Where
<1>8. LoopTyped'
  BY Zenon, <1>1, <1>2, <1>3, <1>5, <1>6 DEF LoopTyped
<1>9. Routed'
  <2> SUFFICES ASSUME NEW b \in Adapters, b \notin attached PROVE Unused(b)'
    BY Zenon, <1>2 DEF Routed
  <2>1. Unused(b)
    BY Zenon, <1>1 DEF Routed
  <2>2. \A j \in TaskIds : inFlight'[b][j] = None /\ job'[b][j] = None
    BY Zenon, <1>2, <1>3, <2>1 DEF Unused
  <2> QED BY Zenon, <1>5, <2>1, <2>2 DEF Unused
<1>10. Paired'
  <2> SUFFICES ASSUME pc' # "stopped", NEW b \in Adapters, NEW j \in TaskIds, job[b][j] # None
               PROVE  /\ inFlight'[b][j] # None /\ inFlight'[b][j].keys = DOMAIN job[b][j].bufs
                      /\ inFlight'[b][j].result = "none"
    BY Zenon, <1>2 DEF Paired
  <2>1. inFlight'[b][j] = inFlight[b][j]
    BY Zenon, <1>3, <1>6
  <2> QED BY Zenon, <1>1, <1>6, <2>1 DEF Paired
<1>11. Behind'
  <2>1. \A b \in Adapters, j \in TaskIds : inFlight'[b][j] # None => inFlight'[b][j] = inFlight[b][j]
    BY Zenon, <1>3
  <2> QED BY Zenon, <1>1, <1>2, <1>5, <2>1 DEF Behind
<1> QED BY Zenon, <1>7, <1>8, <1>9, <1>10, <1>11 DEF LoopInv

\* Deletions from L1, at once or deferred.
LEMMA DeletesFromL1 ==
    ASSUME LoopInv, DeleteStored \/ RetryDeferred PROVE LoopInv'
<1>1. /\ LoopTyped /\ Where /\ Routed /\ Behind /\ loc \in Locals
      /\ deferred \subseteq l2 /\ loc.del \subseteq l2
      /\ deferred \subseteq Keys /\ loc.del \subseteq Keys
  BY Zenon, LocTyped DEF LoopInv, LoopTyped, Behind
<1>2. UNCHANGED <<inFlight, job, l2, pending, reading, attached, ops>>
  BY Zenon DEF DeleteStored, RetryDeferred, tasks, queue, clients, route
<1>3. \A K : DeleteFromL1(K) => deferred' \subseteq deferred \cup K
  BY Zenon DEF DeleteFromL1
<1>4. /\ loc' \in Locals /\ loc'.ready = loc.ready /\ loc'.signaled = loc.signaled
      /\ loc'.cur = loc.cur /\ loc'.todo = loc.todo /\ loc'.del \subseteq loc.del
      /\ deferred' \subseteq deferred \cup loc.del
      /\ \/ pc = "delete" /\ pc' = "advance"
         \/ pc = "retry" /\ pc' = "ops"
  <2>1. CASE DeleteStored
    <3>1. /\ pc = "delete" /\ pc' = "advance" /\ DeleteFromL1(loc.del)
          /\ loc' = [loc EXCEPT !.del = {}]
      BY Zenon, <2>1 DEF DeleteStored, Step
    <3>2. /\ loc' \in Locals /\ loc'.ready = loc.ready /\ loc'.signaled = loc.signaled
          /\ loc'.cur = loc.cur /\ loc'.todo = loc.todo /\ loc'.del = {}
      BY Zenon, <1>1, <3>1 DEF Locals
    <3> QED BY Zenon, <1>3, <3>1, <3>2
  <2>2. CASE RetryDeferred
    <3>1. pc = "retry" /\ pc' = "ops" /\ DeleteFromL1(deferred) /\ loc' = loc
      BY Zenon, <2>2 DEF RetryDeferred, Step
    <3> QED BY Zenon, <1>1, <1>3, <3>1
  <2> QED BY Zenon, <2>1, <2>2
<1>5. pc # "stopped" /\ pc' \in Labels
  BY Zenon, <1>4 DEF Labels
<1>6. Where'
  BY Zenon, <1>1, <1>4 DEF Where
<1>7. LoopTyped'
  BY Zenon, <1>1, <1>2, <1>4, <1>5 DEF LoopTyped
<1>8. Routed'
  <2> SUFFICES ASSUME NEW b \in Adapters, b \notin attached PROVE Unused(b)'
    BY Zenon, <1>2 DEF Routed
  <2>1. Unused(b)
    BY Zenon, <1>1 DEF Routed
  <2> QED BY Zenon, <1>2, <1>4, <2>1 DEF Unused
<1>9. Paired' /\ Behind'
  BY Zenon, <1>1, <1>2, <1>4, <1>5, TasksUnmoved
<1> QED BY Zenon, <1>6, <1>7, <1>8, <1>9 DEF LoopInv

\* Draining adapters without a task are detached.
LEMMA Detaches ==
    ASSUME LoopInv, DetachDrained PROVE LoopInv'
<1>1. /\ LoopTyped /\ Where /\ Paired /\ Routed /\ Behind /\ loc \in Locals
      /\ attached \subseteq Adapters
      /\ deferred \subseteq l2 /\ loc.del \subseteq l2
  BY Zenon DEF LoopInv, LoopTyped, Behind
<1>2. /\ pc = "detach" /\ pc' = "retry"
      /\ attached' = attached \ {a \in attached : Draining(a) /\ ~InUse(a)}
      /\ UNCHANGED <<inFlight, job, l2, loc, pending, reading, deferred, ops>>
  BY Zenon DEF DetachDrained, Step, tasks, queue, clients
<1>3. pc # "stopped" /\ pc' \in Labels /\ loc.ready = {} /\ loc.signaled = {} /\ loc.todo = {}
      /\ loc.cur = None
  BY Zenon, <1>1, <1>2 DEF Labels, Where
<1>4. LoopTyped'
  BY Zenon, <1>1, <1>2, <1>3 DEF LoopTyped
<1>5. Where'
  BY Zenon, <1>2, <1>3 DEF Where
<1>6. Routed'
  <2> SUFFICES ASSUME NEW a \in Adapters, a \notin attached' PROVE Unused(a)
    BY Zenon, <1>2 DEF Routed, Unused
  <2>1. CASE a \notin attached
    BY Zenon, <1>1, <2>1 DEF Routed
  <2>2. CASE a \in attached
    <3>1. \A i \in TaskIds : inFlight[a][i] = None
      BY Zenon, <1>2, <2>2 DEF InUse
    <3>2. \A i \in TaskIds : job[a][i] = None
      BY Zenon, <1>1, <1>3, <3>1 DEF Paired
    <3> QED BY Zenon, <1>3, <3>1, <3>2 DEF Unused
  <2> QED BY Zenon, <2>1, <2>2
<1>7. Paired' /\ Behind'
  BY Zenon, <1>1, <1>2, <1>3, TasksUnmoved
<1> QED BY Zenon, <1>4, <1>5, <1>6, <1>7 DEF LoopInv

\* An adapter completes a store.
LEMMA Completes ==
    ASSUME LoopInv, NEW a \in Adapters, NEW i \in TaskIds, CompleteJob(a, i) PROVE LoopInv'
<1>1. /\ LoopTyped /\ Where /\ Paired /\ Routed /\ Behind
      /\ deferred \subseteq l2 /\ loc.del \subseteq l2
  BY Zenon DEF LoopInv, LoopTyped, Behind
<1>2. /\ job[a][i] # None
      /\ UNCHANGED <<inFlight, pc, loc, pending, reading, deferred, attached, ops>>
  BY Zenon DEF CompleteJob, queue, route
<1>3. PICK st \in {"ok", "failed"} :
         /\ job' = [job EXCEPT ![a][i].st = st]
         /\ l2' = IF st = "ok" THEN l2 \cup DOMAIN job[a][i].bufs ELSE l2
  BY Zenon DEF CompleteJob
<1> DEFINE new == [job[a][i] EXCEPT !.st = st]
<1>4. job' = [job EXCEPT ![a] = [job[a] EXCEPT ![i] = new]]
  BY Zenon, <1>3
<1>5. job[a][i] \in Jobs
  BY Zenon, <1>1, <1>2, TaskTyped
<1>6. st \in {"running", "ok", "failed"}
  BY Zenon
<1>7. new \in Jobs /\ new.bufs = job[a][i].bufs /\ new.st = st
  BY Zenon, <1>5, <1>6 DEF Jobs
<1> HIDE DEF new
<1>8. /\ job' \in [Adapters -> [TaskIds -> Jobs \cup {None}]]
      /\ \A b \in Adapters, j \in TaskIds :
           \/ b = a /\ j = i /\ job'[b][j] = new
           \/ job'[b][j] = job[b][j]
  BY Zenon, <1>1, <1>4, <1>7 DEF LoopTyped
<1>9. l2 \subseteq l2' /\ (st = "ok" => DOMAIN job[a][i].bufs \subseteq l2')
  BY Zenon, <1>3
<1>10. LoopTyped' /\ Where'
  BY Zenon, <1>1, <1>2, <1>8 DEF LoopTyped, Where
<1>11. Routed'
  <2> SUFFICES ASSUME NEW b \in Adapters, b \notin attached PROVE Unused(b)'
    BY Zenon, <1>2 DEF Routed
  <2>1. Unused(b)
    BY Zenon, <1>1 DEF Routed
  <2>2. b # a
    BY Zenon, <1>2, <2>1 DEF Unused
  <2>3. \A j \in TaskIds : job'[b][j] = None
    BY Zenon, <1>8, <2>1, <2>2 DEF Unused
  <2> QED BY Zenon, <1>2, <2>1, <2>3 DEF Unused
<1>12. Paired'
  <2> SUFFICES ASSUME pc # "stopped", NEW b \in Adapters, NEW j \in TaskIds, job'[b][j] # None
               PROVE  /\ inFlight[b][j] # None /\ inFlight[b][j].keys = DOMAIN job'[b][j].bufs
                      /\ inFlight[b][j].result = "none"
    BY Zenon, <1>2 DEF Paired
  <2>1. job[b][j] # None /\ job'[b][j].bufs = job[b][j].bufs
    BY Zenon, <1>2, <1>7, <1>8
  <2> QED BY Zenon, <1>1, <2>1 DEF Paired
<1>13. Behind'
  <2>1. ASSUME NEW b \in Adapters, NEW j \in TaskIds
        PROVE  /\ inFlight[b][j] # None /\ inFlight[b][j].result = "ok" =>
                     inFlight[b][j].keys \subseteq l2'
               /\ job'[b][j] # None /\ job'[b][j].st = "ok" => DOMAIN job'[b][j].bufs \subseteq l2'
    <3>1. CASE b = a /\ j = i /\ job'[b][j] = new
      BY Zenon, <1>1, <1>7, <1>9, <3>1 DEF Behind
    <3>2. CASE job'[b][j] = job[b][j]
      BY Zenon, <1>1, <1>9, <3>2 DEF Behind
    <3> QED BY Zenon, <1>8, <3>1, <3>2
  <2> QED BY Zenon, <1>1, <1>2, <1>9, <2>1 DEF Behind
<1> QED BY Zenon, <1>10, <1>11, <1>12, <1>13 DEF LoopInv

\* add_l2_adapter and delete_l2_adapter.
LEMMA Requests ==
    ASSUME LoopInv, NEW a \in Adapters, RequestAdd(a) \/ RequestRemove(a) \/ TimeOut(a)
    PROVE  LoopInv'
<1>1. /\ UNCHANGED <<inFlight, job, l2, loc, pc, pending, reading, deferred, attached>>
      /\ \A o \in ops' : o \in ops \/ o.id = a
  <2>1. CASE RequestAdd(a)
    <3>1. [id |-> a, call |-> 0].id = a
      BY Zenon
    <3> QED BY Zenon, <2>1, <3>1 DEF RequestAdd, tasks, queue, clients
  <2>2. CASE RequestRemove(a)
    <3>1. [id |-> a, call |-> tries'[a]].id = a
      BY Zenon
    <3> QED BY Zenon, <2>2, <3>1 DEF RequestRemove, tasks, queue, clients
  <2>3. CASE TimeOut(a)
    BY Zenon, <2>3 DEF TimeOut, tasks, queue, clients
  <2> QED BY Zenon, <2>1, <2>2, <2>3
<1>2. LoopTyped' /\ Where'
  BY Zenon, <1>1 DEF LoopInv, LoopTyped, Where
<1>3. Routed'
  BY Zenon, <1>1 DEF LoopInv, Routed, Unused
<1>4. Paired' /\ Behind'
  BY Zenon, <1>1 DEF LoopInv, Paired, Behind
<1> QED BY Zenon, <1>2, <1>3, <1>4 DEF LoopInv

\* Every step keeps the loop's state in order.
LEMMA LoopStep ==
    ASSUME LoopInv, L1Typed, [SNext]_svars
    PROVE  LoopInv'
<1>1. CASE UNCHANGED svars
  <2>1. Idle /\ UNCHANGED <<job, l2, pending, reading>>
    BY Zenon, <1>1 DEF svars, Idle, queue, route, tasks, clients
  <2> QED BY Zenon, <2>1, LoopIdle DEF LoopInv, LoopTyped
<1>2. CASE Loop
  <2>1. CASE ApplyOps \/ FdsHandled \/ Submitted \/ Advanced \/ SkipRetry
    BY Zenon, <2>1, MovesOn
  <2>2. CASE Poll \/ ConsumeListener \/ \E a \in Adapters : ConsumeAdapter(a)
    BY Zenon, <2>2, Wakes
  <2>3. CASE PopPending \/ \E t \in loc.todo : ReserveForStore(t)
    BY Zenon, <2>3, Pops, Reserves
  <2>4. CASE SubmitStore \/ SubmitRaises
    BY Zenon, <2>4, Submits
  <2>5. CASE \E a \in Adapters : Drain(a) \/ \E i \in TaskIds : FinalizeStore(a, i)
    BY Zenon, <2>5, Drains, Finishes
  <2>6. CASE DeleteStored \/ RetryDeferred \/ DetachDrained
    BY Zenon, <2>6, DeletesFromL1, Detaches
  <2> QED BY Zenon, <1>2, <2>1, <2>2, <2>3, <2>4, <2>5, <2>6 DEF Loop
<1>3. CASE Shutdown
  BY Zenon, <1>3, MovesOn, Finishes DEF Shutdown
<1>4. CASE \E k \in Keys : BeginWrite(k) \/ EndWrite(k) \/ BeginRead(k) \/ EndRead(k) \/ Evict(k)
  <2>1. PICK k \in Keys : BeginWrite(k) \/ EndWrite(k) \/ BeginRead(k) \/ EndRead(k) \/ Evict(k)
    BY Zenon, <1>4
  <2>2. /\ Idle /\ job' = job /\ l2' = l2
        /\ pending' = pending \/ pending' = pending \cup {k}
        /\ reading' = reading \/ reading' = reading \cup {k} \/ reading' = reading \ {k}
    BY Zenon, <2>1 DEF BeginWrite, EndWrite, BeginRead, EndRead, Evict, queue, clients
  <2>3. pending' \subseteq Keys /\ reading' \subseteq Keys
    BY Zenon, <2>2 DEF LoopInv, LoopTyped
  <2> QED BY Zenon, <2>2, <2>3, LoopIdle
<1>5. CASE \E a \in Adapters : RequestAdd(a) \/ RequestRemove(a) \/ TimeOut(a)
  BY Zenon, <1>5, Requests
<1>6. CASE \E a \in Adapters, i \in TaskIds : CompleteJob(a, i)
  BY Zenon, <1>6, Completes
<1> QED BY Zenon, <1>1, <1>2, <1>3, <1>4, <1>5, <1>6 DEF SNext, Others

----------------------------------------------------------------------------
\* The accounts of the read locks

INSTANCE FiniteSetTheorems

\* What k is locked for besides the tasks in flight.
Submitting(k) == IF loc.cur # None /\ k \in DOMAIN loc.cur.bufs THEN 1 ELSE 0
Reader(k) == IF k \in reading THEN 1 ELSE 0

\* Every read lock has its reason, whether or not the object is resident.
Accounted ==
    \A k \in Keys : Held(k) = Cardinality(Tracking(k)) + Submitting(k) + Reader(k)

\* L1 changes the way the accounts say.
Books == L1Typed' /\ Kept /\ Accounted'

\* Tasks are counted.
LEMMA TrackingTyped ==
    ASSUME NEW k \in Keys
    PROVE  IsFiniteSet(Tracking(k)) /\ Cardinality(Tracking(k)) \in Nat
<1>1. IsFiniteSet(Adapters \X TaskIds)
  BY Zenon, StoreAssumption, FS_Product
<1>2. Tracking(k) \subseteq Adapters \X TaskIds
  BY Zenon DEF Tracking
<1>3. IsFiniteSet(Tracking(k))
  BY Zenon, <1>1, <1>2, FS_Subset
<1> QED BY Zenon, <1>3, FS_CardinalityType

\* Another task.
LEMMA TrackOne ==
    ASSUME NEW k \in Keys, NEW x, x \notin Tracking(k), Tracking(k)' = Tracking(k) \cup {x}
    PROVE  Cardinality(Tracking(k)') = Cardinality(Tracking(k)) + 1
<1>1. IsFiniteSet(Tracking(k))
  BY Zenon, TrackingTyped
<1>2. Cardinality(Tracking(k) \cup {x}) = Cardinality(Tracking(k)) + 1
  BY Zenon, <1>1, FS_AddElement
<1> QED BY Zenon, <1>2

\* A task less.
LEMMA UntrackOne ==
    ASSUME NEW k \in Keys, NEW x, x \in Tracking(k), Tracking(k)' = Tracking(k) \ {x}
    PROVE  Cardinality(Tracking(k)') = Cardinality(Tracking(k)) - 1
<1>1. IsFiniteSet(Tracking(k))
  BY Zenon, TrackingTyped
<1>2. Cardinality(Tracking(k) \ {x}) = Cardinality(Tracking(k)) - 1
  BY Zenon, <1>1, FS_RemoveElement
<1> QED BY Zenon, <1>2

\* What the accounts say of a tracked, a submitted or a read key.
LEMMA Owed ==
    ASSUME Accounted, NEW k \in Keys,
           Tracking(k) # {} \/ Submitting(k) = 1 \/ Reader(k) = 1
    PROVE  Held(k) > 0 /\ IsResident(k)
<1>1. /\ Held(k) = Cardinality(Tracking(k)) + Submitting(k) + Reader(k)
      /\ Cardinality(Tracking(k)) \in Nat
  BY Zenon, TrackingTyped DEF Accounted
<1>2. Submitting(k) \in {0, 1} /\ Reader(k) \in {0, 1}
  BY Zenon DEF Submitting, Reader
<1>3. Tracking(k) # {} => Cardinality(Tracking(k)) # 0
  BY Zenon, TrackingTyped, FS_EmptySet
<1>4. Held(k) > 0
  BY <1>1, <1>2, <1>3
<1> QED BY <1>4 DEF Held

\* Steps that concern no lock.
LEMMA SameBooks ==
    ASSUME Accounted, L1Typed', Kept, \A k \in Keys : Held(k)' = Held(k),
           \A k \in Keys : Tracking(k)' = Tracking(k), loc'.cur = loc.cur, reading' = reading
    PROVE  Books
BY Zenon DEF Books, Accounted, Submitting, Reader

\* Steps that leave L1 and the tasks alone.
LEMMA QuietBooks ==
    ASSUME L1Typed, Accounted, UNCHANGED <<vars, inFlight, reading>>, loc'.cur = loc.cur
    PROVE  Books
<1>1. L1Typed' /\ Kept /\ \A k \in Keys : Held(k)' = Held(k)
  BY Zenon DEF L1Typed, Kept, Held, IsResident, IsStaged, vars
<1>2. \A k \in Keys : Tracking(k)' = Tracking(k)
  BY Zenon DEF Tracking
<1> QED BY Zenon, <1>1, <1>2, SameBooks

\* The steps of the loop that call neither L1Manager nor an adapter.
LEMMA LoopBooks ==
    ASSUME L1Typed, LoopInv, Accounted,
           \/ ApplyOps \/ FdsHandled \/ Submitted \/ Advanced \/ SkipRetry \/ Stop
           \/ Poll \/ ConsumeListener \/ PopPending \/ DetachDrained
           \/ \E a \in Adapters : ConsumeAdapter(a)
    PROVE  Books
<1>1. loc \in Locals /\ Where
  BY Zenon DEF LoopInv, LoopTyped
<1>2. CASE Poll
  <2>1. /\ pc = "poll" /\ UNCHANGED <<vars, inFlight, reading>>
        /\ \E r : loc' = [NoLocals EXCEPT !.ready = r]
    BY Zenon, <1>2 DEF Poll, Step, tasks, clients
  <2>2. loc.cur = None
    BY Zenon, <1>1, <2>1 DEF Where
  <2>3. loc'.cur = None
    BY Zenon, <2>1 DEF NoLocals
  <2> QED BY Zenon, <2>1, <2>2, <2>3, QuietBooks
<1>3. CASE ConsumeListener \/ PopPending \/ \E a \in Adapters : ConsumeAdapter(a)
  <2>1. /\ UNCHANGED <<vars, inFlight, reading>>
        /\ \E r, g, t : loc' = [loc EXCEPT !.ready = r, !.signaled = g, !.todo = t]
    <3>1. CASE ConsumeListener
      <4>1. /\ UNCHANGED <<vars, inFlight, reading>>
            /\ loc' = [loc EXCEPT !.ready = loc.ready \ {Listener}]
        BY Zenon, <3>1 DEF ConsumeListener, tasks, clients
      <4>2. loc' = [loc EXCEPT !.ready = loc.ready \ {Listener}, !.signaled = loc.signaled,
                               !.todo = loc.todo]
        BY Zenon, <1>1, <4>1 DEF Locals
      <4> QED BY Zenon, <4>1, <4>2
    <3>2. CASE PopPending
      <4>1. /\ UNCHANGED <<vars, inFlight, reading>>
            /\ \E t : loc' = [loc EXCEPT !.todo = t]
        BY Zenon, <3>2 DEF PopPending, tasks, clients
      <4>2. PICK t : loc' = [loc EXCEPT !.todo = t]
        BY Zenon, <4>1
      <4>3. loc' = [loc EXCEPT !.ready = loc.ready, !.signaled = loc.signaled, !.todo = t]
        BY Zenon, <1>1, <4>2 DEF Locals
      <4> QED BY Zenon, <4>1, <4>3
    <3>3. ASSUME NEW a \in Adapters, ConsumeAdapter(a)
          PROVE  /\ UNCHANGED <<vars, inFlight, reading>>
                 /\ \E r, g, t : loc' = [loc EXCEPT !.ready = r, !.signaled = g, !.todo = t]
      <4>1. /\ UNCHANGED <<vars, inFlight, reading>>
            /\ \E r, g : loc' = [loc EXCEPT !.ready = r, !.signaled = g]
        BY Zenon, <3>3 DEF ConsumeAdapter, tasks, clients
      <4>2. PICK r, g : loc' = [loc EXCEPT !.ready = r, !.signaled = g]
        BY Zenon, <4>1
      <4>3. loc' = [loc EXCEPT !.ready = r, !.signaled = g, !.todo = loc.todo]
        BY Zenon, <1>1, <4>2 DEF Locals
      <4> QED BY Zenon, <4>1, <4>3
    <3> QED BY Zenon, <1>3, <3>1, <3>2, <3>3
  <2>2. loc'.cur = loc.cur
    BY Zenon, <1>1, <2>1 DEF Locals
  <2> QED BY Zenon, <2>1, <2>2, QuietBooks
<1>4. CASE ApplyOps \/ FdsHandled \/ Submitted \/ Advanced \/ SkipRetry \/ Stop \/ DetachDrained
  <2>1. UNCHANGED <<vars, inFlight, reading, loc>>
    <3>1. CASE ApplyOps \/ FdsHandled \/ Submitted
      BY Zenon, <3>1 DEF ApplyOps, FdsHandled, Submitted, tasks, clients
    <3>2. CASE Advanced \/ SkipRetry \/ Stop \/ DetachDrained
      BY Zenon, <3>2 DEF Advanced, SkipRetry, Stop, DetachDrained, tasks, clients
    <3> QED BY Zenon, <1>4, <3>1, <3>2
  <2> QED BY Zenon, <2>1, QuietBooks
<1> QED BY Zenon, <1>2, <1>3, <1>4

\* reserve_read for a store.
LEMMA ReserveBooks ==
    ASSUME L1Typed, LoopInv, Accounted, NEW t \in loc.todo, ReserveForStore(t)
    PROVE  Books
<1>1. loc \in Locals /\ Where /\ t.keys \subseteq Keys /\ t.id \in Adapters
  BY Zenon, LocTyped DEF LoopInv, LoopTyped
<1> DEFINE found == {k \in t.keys : IsResident(k)}
           bufs == [k \in found |-> objects[k].buf]
           cur == IF found = {} THEN None ELSE [id |-> t.id, bufs |-> bufs]
<1>2. /\ pc = "submit" /\ UNCHANGED <<inFlight, reading>>
      /\ IF found = {} THEN UNCHANGED vars ELSE ReserveRead(found, 1)
      /\ \E r : loc' = [loc EXCEPT !.todo = r, !.cur = cur]
  BY Zenon DEF ReserveForStore, Step, tasks, clients
<1>3. loc.cur = None
  BY Zenon, <1>1, <1>2 DEF Where
<1> HIDE DEF cur
<1>4. loc'.cur = cur
  BY Zenon, <1>1, <1>2 DEF Locals
<1>5. CASE found = {}
  <2>1. loc'.cur = loc.cur /\ UNCHANGED vars
    BY Zenon, <1>2, <1>3, <1>4, <1>5 DEF cur
  <2> QED BY Zenon, <1>2, <2>1, QuietBooks
<1>6. CASE found # {}
  <2>1. /\ L1Typed' /\ Kept
        /\ \A k \in Keys : Held(k)' = IF k \in found THEN Held(k) + 1 ELSE Held(k)
    <3>1. found \in SUBSET Keys /\ \A k \in found : IsResident(k)
      BY Zenon, <1>1
    <3> QED BY Zenon, <1>2, <1>6, <3>1, ReserveReadHeld
  <2>2. /\ cur = [id |-> t.id, bufs |-> bufs]
        /\ cur \in Stores
    <3>1. cur = [id |-> t.id, bufs |-> bufs]
      BY Zenon, <1>6 DEF cur
    <3>2. bufs \in BufMaps
      <4>1. found \in SUBSET Keys
        BY Zenon, <1>1
      <4>2. \A k \in found : objects[k].buf \in Bufs
        BY Zenon, <1>1, HeldTyped
      <4>3. bufs \in [found -> Bufs]
        BY Zenon, <4>2
      <4> QED BY Zenon, <4>1, <4>3 DEF BufMaps
    <3> QED BY Zenon, <1>1, <3>1, <3>2 DEF Stores
  <2>3. loc'.cur # None /\ DOMAIN loc'.cur.bufs = found
    <3>1. cur.bufs = bufs
      BY Zenon, <2>2
    <3>2. DOMAIN bufs = found
      BY Zenon
    <3>3. cur # None
      BY Zenon, <2>2, StoreAssumption
    <3> HIDE DEF bufs, found
    <3> QED BY Zenon, <1>4, <3>1, <3>2, <3>3
  <2> HIDE DEF found
  <2>4. \A k \in Keys : Submitting(k) = 0 /\ Submitting(k)' = IF k \in found THEN 1 ELSE 0
    <3>1. \A k \in Keys : Submitting(k) = 0
      BY Zenon, <1>3 DEF Submitting
    <3>2. \A k \in Keys : Submitting(k)' = IF k \in found THEN 1 ELSE 0
      BY SMT, <2>3 DEF Submitting
    <3> QED BY Zenon, <3>1, <3>2
  <2>5. \A k \in Keys : Tracking(k)' = Tracking(k) /\ Reader(k)' = Reader(k)
    BY Zenon, <1>2 DEF Tracking, Reader
  <2>6. Accounted'
    <3> SUFFICES ASSUME NEW k \in Keys
                 PROVE  Held(k)' = Cardinality(Tracking(k)') + Submitting(k)' + Reader(k)'
      BY Zenon DEF Accounted
    <3>1. /\ Held(k) = Cardinality(Tracking(k)) + 0 + Reader(k)
          /\ Cardinality(Tracking(k)') = Cardinality(Tracking(k)) /\ Reader(k)' = Reader(k)
      BY Zenon, <2>4, <2>5 DEF Accounted
    <3>2. Cardinality(Tracking(k)) \in Nat /\ Reader(k) \in {0, 1}
      BY Zenon, TrackingTyped DEF Reader
    <3>3. CASE k \in found
      <4>1. Held(k)' = Held(k) + 1 /\ Submitting(k)' = 1
        BY Zenon, <2>1, <2>4, <3>3
      <4> QED BY <3>1, <3>2, <4>1
    <3>4. CASE k \notin found
      <4>1. Held(k)' = Held(k) /\ Submitting(k)' = 0
        BY Zenon, <2>1, <2>4, <3>4
      <4> QED BY Zenon, <3>1, <3>2, <4>1
    <3> QED BY Zenon, <3>3, <3>4
  <2> QED BY Zenon, <2>1, <2>6 DEF Books
<1> QED BY Zenon, <1>5, <1>6

\* submit_store_task: the submitted store becomes a task.
LEMMA SubmitBooks ==
    ASSUME L1Typed, LoopInv, Accounted, SubmitStore
    PROVE  Books
<1>1. LoopTyped /\ loc \in Locals /\ Where
  BY Zenon DEF LoopInv, LoopTyped
<1> DEFINE a == loc.cur.id
           K == DOMAIN loc.cur.bufs
           task == [keys |-> K, result |-> "none"]
<1>2. /\ pc = "hand" /\ UNCHANGED <<vars, reading>> /\ loc' = [loc EXCEPT !.cur = None]
  BY Zenon DEF SubmitStore, Step, clients
<1>3. loc.cur # None /\ loc'.cur = None
  BY Zenon, <1>1, <1>2 DEF Where, Locals
<1>4. PICK i \in FreeIds(a) : inFlight' = [inFlight EXCEPT ![a][i] = task]
  BY Zenon DEF SubmitStore
<1>5. /\ a \in Adapters /\ i \in TaskIds /\ inFlight[a][i] = None
  BY Zenon, <1>1, <1>3, <1>4, CurTyped DEF FreeIds
<1>6. task \in Tasks /\ task # None /\ task.keys = K
  <2>1. task \in Tasks /\ task.keys = K
    BY Zenon, <1>1, <1>3, CurTyped DEF Tasks
  <2> QED BY Zenon, <2>1, StoreAssumption
<1> HIDE DEF a, task
<1>7. \A b \in Adapters, j \in TaskIds :
        inFlight'[b][j] = IF b = a /\ j = i THEN task ELSE inFlight[b][j]
  BY Zenon, <1>1, <1>4, <1>5 DEF LoopTyped
<1>8. L1Typed' /\ Kept /\ \A k \in Keys : Held(k)' = Held(k)
  BY Zenon, <1>2 DEF L1Typed, Kept, Held, IsResident, IsStaged, vars
<1>9. Accounted'
  <2> SUFFICES ASSUME NEW k \in Keys
               PROVE  Held(k)' = Cardinality(Tracking(k)') + Submitting(k)' + Reader(k)'
    BY Zenon DEF Accounted
  <2>1. /\ Held(k) = Cardinality(Tracking(k)) + Submitting(k) + Reader(k)
        /\ Held(k)' = Held(k) /\ Reader(k)' = Reader(k) /\ Submitting(k)' = 0
    BY Zenon, <1>2, <1>3, <1>8 DEF Accounted, Reader, Submitting
  <2>2. Cardinality(Tracking(k)) \in Nat /\ Reader(k) \in {0, 1}
    BY Zenon, TrackingTyped DEF Reader
  <2>3. CASE k \in K
    <3>1. Tracking(k)' = Tracking(k) \cup {<<a, i>>} /\ <<a, i>> \notin Tracking(k)
      BY <1>5, <1>6, <1>7, <2>3 DEF Tracking
    <3>2. Cardinality(Tracking(k)') = Cardinality(Tracking(k)) + 1
      BY Zenon, <3>1, TrackOne
    <3>3. Submitting(k) = 1
      BY Zenon, <1>3, <2>3 DEF Submitting
    <3> QED BY <2>1, <2>2, <3>2, <3>3
  <2>4. CASE k \notin K
    <3>1. Tracking(k)' = Tracking(k)
      BY <1>5, <1>6, <1>7, <2>4 DEF Tracking
    <3>2. Submitting(k) = 0
      BY Zenon, <2>4 DEF Submitting
    <3> QED BY Zenon, <2>1, <2>2, <3>1, <3>2
  <2> QED BY Zenon, <2>3, <2>4
<1> QED BY Zenon, <1>8, <1>9 DEF Books

\* submit_store_task raises: the locks of the store are given back.
LEMMA RaiseBooks ==
    ASSUME L1Typed, LoopInv, Accounted, SubmitRaises
    PROVE  Books
<1>1. LoopTyped /\ loc \in Locals /\ Where
  BY Zenon DEF LoopInv, LoopTyped
<1> DEFINE K == DOMAIN loc.cur.bufs
<1>2. /\ pc = "hand" /\ UNCHANGED <<inFlight, reading>> /\ loc' = [loc EXCEPT !.cur = None]
      /\ FinishRead(K, 1)
  BY Zenon DEF SubmitRaises, Step, tasks, clients
<1>3. loc.cur # None /\ loc'.cur = None
  BY Zenon, <1>1, <1>2 DEF Where, Locals
<1>4. K \in SUBSET Keys
  BY Zenon, <1>1, <1>3, CurTyped
<1>5. \A k \in K : Submitting(k) = 1
  BY Zenon, <1>3 DEF Submitting
<1>6. \A k \in Keys : k \notin K => Submitting(k) = 0
  BY Zenon DEF Submitting
<1> HIDE DEF K
<1>7. /\ L1Typed' /\ Kept
      /\ \A k \in Keys : Held(k)' = IF k \in K THEN Held(k) - 1 ELSE Held(k)
  <2>1. \A k \in K : Held(k) > 0
    BY Zenon, <1>4, <1>5, Owed
  <2> QED BY Zenon, <1>2, <1>4, <2>1, FinishReadHeld
<1>8. Accounted'
  <2> SUFFICES ASSUME NEW k \in Keys
               PROVE  Held(k)' = Cardinality(Tracking(k)') + Submitting(k)' + Reader(k)'
    BY Zenon DEF Accounted
  <2>1. /\ Held(k) = Cardinality(Tracking(k)) + Submitting(k) + Reader(k)
        /\ Tracking(k)' = Tracking(k) /\ Reader(k)' = Reader(k) /\ Submitting(k)' = 0
    BY Zenon, <1>2, <1>3 DEF Accounted, Reader, Submitting, Tracking
  <2>2. Cardinality(Tracking(k)) \in Nat /\ Reader(k) \in {0, 1}
    BY Zenon, TrackingTyped DEF Reader
  <2>3. Cardinality(Tracking(k)') = Cardinality(Tracking(k))
    BY Zenon, <2>1
  <2>4. CASE k \in K
    <3>1. Held(k)' = Held(k) - 1 /\ Submitting(k) = 1
      BY Zenon, <1>5, <1>7, <2>4
    <3> QED BY <2>1, <2>2, <2>3, <3>1
  <2>5. CASE k \notin K
    <3>1. Held(k)' = Held(k) /\ Submitting(k) = 0
      BY Zenon, <1>6, <1>7, <2>5
    <3> QED BY Zenon, <2>1, <2>2, <2>3, <3>1
  <2> QED BY Zenon, <2>4, <2>5
<1> QED BY Zenon, <1>7, <1>8 DEF Books

\* A task that ends gives its locks back.
LEMMA FinishBooks ==
    ASSUME L1Typed, LoopInv, Accounted, NEW a \in Adapters, NEW i \in TaskIds,
           FinalizeStore(a, i) \/ CleanUpTask(a, i)
    PROVE  Books
<1>1. LoopTyped /\ loc \in Locals
  BY Zenon DEF LoopInv, LoopTyped
<1> DEFINE K == inFlight[a][i].keys
<1>2. /\ inFlight[a][i] # None /\ reading' = reading /\ FinishRead(K, 1)
      /\ inFlight' = [inFlight EXCEPT ![a][i] = None]
      /\ loc' = loc \/ \E del : loc' = [loc EXCEPT !.del = del]
  BY Zenon DEF FinalizeStore, CleanUpTask, Resolved, clients
<1>3. loc'.cur = loc.cur
  BY Zenon, <1>1, <1>2 DEF Locals
<1>4. K \in SUBSET Keys
  BY Zenon, <1>1, <1>2, TaskTyped
<1>5. \A b \in Adapters, j \in TaskIds :
        inFlight'[b][j] = IF b = a /\ j = i THEN None ELSE inFlight[b][j]
  BY Zenon, <1>1, <1>2 DEF LoopTyped
<1>6. \A k \in K : <<a, i>> \in Tracking(k) /\ Tracking(k)' = Tracking(k) \ {<<a, i>>}
  BY <1>2, <1>5 DEF Tracking
<1>7. \A k \in Keys : k \notin K => Tracking(k)' = Tracking(k)
  BY <1>2, <1>5 DEF Tracking
<1> HIDE DEF K
<1>8. /\ L1Typed' /\ Kept
      /\ \A k \in Keys : Held(k)' = IF k \in K THEN Held(k) - 1 ELSE Held(k)
  <2>1. \A k \in K : Held(k) > 0
    BY Zenon, <1>4, <1>6, Owed
  <2> QED BY Zenon, <1>2, <1>4, <2>1, FinishReadHeld
<1>9. Accounted'
  <2> SUFFICES ASSUME NEW k \in Keys
               PROVE  Held(k)' = Cardinality(Tracking(k)') + Submitting(k)' + Reader(k)'
    BY Zenon DEF Accounted
  <2>1. /\ Held(k) = Cardinality(Tracking(k)) + Submitting(k) + Reader(k)
        /\ Reader(k)' = Reader(k) /\ Submitting(k)' = Submitting(k)
    BY Zenon, <1>2, <1>3 DEF Accounted, Reader, Submitting
  <2>2. Cardinality(Tracking(k)) \in Nat /\ Reader(k) \in {0, 1} /\ Submitting(k) \in {0, 1}
    BY Zenon, TrackingTyped DEF Reader, Submitting
  <2>3. CASE k \in K
    <3>1. Held(k)' = Held(k) - 1
      BY Zenon, <1>8, <2>3
    <3>2. Cardinality(Tracking(k)') = Cardinality(Tracking(k)) - 1
      BY Zenon, <1>6, <2>3, UntrackOne
    <3> QED BY <2>1, <2>2, <3>1, <3>2
  <2>4. CASE k \notin K
    <3>1. Held(k)' = Held(k) /\ Tracking(k)' = Tracking(k)
      BY Zenon, <1>7, <1>8, <2>4
    <3>2. Cardinality(Tracking(k)') = Cardinality(Tracking(k))
      BY Zenon, <3>1
    <3> QED BY Zenon, <2>1, <2>2, <3>1, <3>2
  <2> QED BY Zenon, <2>3, <2>4
<1> QED BY Zenon, <1>8, <1>9 DEF Books

\* Recording results changes no lock.
LEMMA DrainBooks ==
    ASSUME L1Typed, LoopInv, Accounted, NEW a \in Adapters, Drain(a)
    PROVE  Books
<1>1. LoopTyped /\ loc \in Locals /\ Paired
  BY Zenon DEF LoopInv, LoopTyped
<1> DEFINE result(i) == [inFlight[a][i] EXCEPT !.result = job[a][i].st]
<1>2. /\ pc = "drain" /\ UNCHANGED <<vars, reading>>
      /\ \E g : loc' = [loc EXCEPT !.signaled = g]
      /\ inFlight' = [inFlight EXCEPT ![a] = [i \in TaskIds |->
                         IF i \in Completed(a) THEN result(i) ELSE inFlight[a][i]]]
  BY Zenon DEF Drain, Step, clients
<1>3. loc'.cur = loc.cur
  BY Zenon, <1>1, <1>2 DEF Locals
<1>4. ASSUME NEW i \in Completed(a)
      PROVE  /\ inFlight[a][i] # None /\ result(i) # None
             /\ result(i).keys = inFlight[a][i].keys
  <2>1. i \in TaskIds /\ job[a][i] # None /\ pc # "stopped"
    BY Zenon, <1>2 DEF Completed
  <2>2. inFlight[a][i] # None /\ inFlight[a][i] \in Tasks
    BY Zenon, <1>1, <2>1, TaskTyped DEF Paired
  <2>3. job[a][i].st \in {"none", "ok", "failed"}
    BY Zenon, <1>1, <2>1, <1>4, TaskTyped DEF Completed
  <2>4. result(i) \in Tasks /\ result(i).keys = inFlight[a][i].keys
    BY Zenon, <2>2, <2>3 DEF Tasks
  <2> QED BY Zenon, <2>2, <2>4, StoreAssumption
<1> HIDE DEF result
<1>5. \A b \in Adapters, j \in TaskIds :
        \/ inFlight'[b][j] = inFlight[b][j]
        \/ b = a /\ j \in Completed(a) /\ inFlight'[b][j] = result(j)
  BY Zenon, <1>1, <1>2 DEF LoopTyped
<1>6. \A b \in Adapters, j \in TaskIds :
        /\ inFlight'[b][j] # None <=> inFlight[b][j] # None
        /\ inFlight[b][j] # None => inFlight'[b][j].keys = inFlight[b][j].keys
  BY Zenon, <1>4, <1>5
<1>7. \A k \in Keys : Tracking(k)' = Tracking(k)
  BY <1>6 DEF Tracking
<1>8. L1Typed' /\ Kept /\ \A k \in Keys : Held(k)' = Held(k)
  BY Zenon, <1>2 DEF L1Typed, Kept, Held, IsResident, IsStaged, vars
<1> QED BY Zenon, <1>2, <1>3, <1>7, <1>8, SameBooks

\* Deletions change no lock.
LEMMA DeleteBooks ==
    ASSUME L1Typed, LoopInv, Accounted, DeleteStored \/ RetryDeferred
    PROVE  Books
<1>1. loc \in Locals /\ deferred \in SUBSET Keys /\ loc.del \in SUBSET Keys
  BY Zenon, LocTyped DEF LoopInv, LoopTyped
<1>2. /\ UNCHANGED <<inFlight, reading>>
      /\ loc' = loc \/ loc' = [loc EXCEPT !.del = {}]
      /\ Delete(loc.del, FALSE) \/ Delete(deferred, FALSE)
  BY Zenon DEF DeleteStored, RetryDeferred, DeleteFromL1, tasks, clients
<1>3. loc'.cur = loc.cur
  BY Zenon, <1>1, <1>2 DEF Locals
<1>4. L1Typed' /\ Kept /\ \A k \in Keys : Held(k)' = Held(k)
  BY Zenon, <1>1, <1>2, DeleteHeld
<1>5. \A k \in Keys : Tracking(k)' = Tracking(k)
  BY Zenon, <1>2 DEF Tracking
<1> QED BY Zenon, <1>2, <1>3, <1>4, <1>5, SameBooks

\* Writers and eviction concern no locked object.
LEMMA WriterBooks ==
    ASSUME L1Typed, Accounted, NEW k \in Keys, BeginWrite(k) \/ EndWrite(k) \/ Evict(k)
    PROVE  Books
<1>1. UNCHANGED <<inFlight, reading, loc>>
  BY Zenon DEF BeginWrite, EndWrite, Evict, Idle, clients
<1>2. L1Typed' /\ Kept /\ \A j \in Keys : Held(j)' = Held(j)
  <2>1. CASE BeginWrite(k)
    <3>1. L1Typed' /\ objects' = objects
      BY Zenon, <2>1, ReserveWriteHeld DEF BeginWrite
    <3> QED BY Zenon, <3>1 DEF Kept, Held, IsResident
  <2>2. CASE EndWrite(k)
    BY Zenon, <2>2, FinishWriteHeld DEF EndWrite
  <2>3. CASE Evict(k)
    <3>1. {k} \in SUBSET Keys
      BY Zenon
    <3> QED BY Zenon, <2>3, <3>1, DeleteHeld DEF Evict
  <2> QED BY Zenon, <2>1, <2>2, <2>3
<1>3. \A j \in Keys : Tracking(j)' = Tracking(j)
  BY Zenon, <1>1 DEF Tracking
<1> QED BY Zenon, <1>1, <1>2, <1>3, SameBooks

\* Other readers take and give back locks of their own.
LEMMA ReaderBooks ==
    ASSUME L1Typed, Accounted, NEW k \in Keys, BeginRead(k) \/ EndRead(k)
    PROVE  Books
<1>1. UNCHANGED <<inFlight, loc>>
  BY Zenon DEF BeginRead, EndRead, Idle
<1>2. {k} \in SUBSET Keys
  BY Zenon
<1>3. /\ L1Typed' /\ Kept
      /\ \A j \in Keys : \/ Held(j)' = Held(j) /\ Reader(j)' = Reader(j)
                         \/ Held(j)' = Held(j) + 1 /\ Reader(j) = 0 /\ Reader(j)' = 1
                         \/ Held(j)' = Held(j) - 1 /\ Reader(j) = 1 /\ Reader(j)' = 0
  <2>1. CASE BeginRead(k)
    <3>1. k \notin reading /\ IsResident(k) /\ ReserveRead({k}, 1) /\ reading' = reading \cup {k}
      BY Zenon, <2>1 DEF BeginRead
    <3>2. /\ L1Typed' /\ Kept
          /\ \A j \in Keys : Held(j)' = IF j \in {k} THEN Held(j) + 1 ELSE Held(j)
      BY Zenon, <1>2, <3>1, ReserveReadHeld
    <3> QED BY Zenon, <3>1, <3>2 DEF Reader
  <2>2. CASE EndRead(k)
    <3>1. k \in reading /\ FinishRead({k}, 1) /\ reading' = reading \ {k}
      BY Zenon, <2>2 DEF EndRead
    <3>2. Held(k) > 0
      BY Zenon, <3>1, Owed DEF Reader
    <3>3. /\ L1Typed' /\ Kept
          /\ \A j \in Keys : Held(j)' = IF j \in {k} THEN Held(j) - 1 ELSE Held(j)
      BY Zenon, <1>2, <3>1, <3>2, FinishReadHeld
    <3> QED BY Zenon, <3>1, <3>3 DEF Reader
  <2> QED BY Zenon, <2>1, <2>2
<1>4. Accounted'
  <2> SUFFICES ASSUME NEW j \in Keys
               PROVE  Held(j)' = Cardinality(Tracking(j)') + Submitting(j)' + Reader(j)'
    BY Zenon DEF Accounted
  <2>1. /\ Held(j) = Cardinality(Tracking(j)) + Submitting(j) + Reader(j)
        /\ Tracking(j)' = Tracking(j) /\ Submitting(j)' = Submitting(j)
    BY Zenon, <1>1 DEF Accounted, Submitting, Tracking
  <2>2. Cardinality(Tracking(j)) \in Nat /\ Reader(j) \in {0, 1} /\ Submitting(j) \in {0, 1}
    BY Zenon, TrackingTyped DEF Reader, Submitting
  <2>3. Cardinality(Tracking(j)') = Cardinality(Tracking(j))
    BY Zenon, <2>1
  <2> QED BY <1>3, <2>1, <2>2, <2>3
<1> QED BY Zenon, <1>3, <1>4 DEF Books

\* Every step keeps the accounts.
LEMMA BooksStep ==
    ASSUME L1Typed, LoopInv, Accounted, [SNext]_svars
    PROVE  Books
<1>1. CASE UNCHANGED svars
  <2>1. UNCHANGED <<vars, inFlight, reading, loc>>
    BY Zenon, <1>1 DEF svars, tasks, clients
  <2> QED BY Zenon, <2>1, QuietBooks
<1>2. CASE Loop
  <2>1. CASE \/ ApplyOps \/ FdsHandled \/ Submitted \/ Advanced \/ SkipRetry \/ Stop
             \/ Poll \/ ConsumeListener \/ PopPending \/ DetachDrained
             \/ \E a \in Adapters : ConsumeAdapter(a)
    BY Zenon, <2>1, LoopBooks
  <2>2. CASE (\E t \in loc.todo : ReserveForStore(t)) \/ SubmitStore \/ SubmitRaises
    BY Zenon, <2>2, ReserveBooks, SubmitBooks, RaiseBooks
  <2>3. CASE \E a \in Adapters : Drain(a) \/ \E i \in TaskIds : FinalizeStore(a, i)
    BY Zenon, <2>3, DrainBooks, FinishBooks
  <2>4. CASE DeleteStored \/ RetryDeferred
    BY Zenon, <2>4, DeleteBooks
  <2> QED BY Zenon, <1>2, <2>1, <2>2, <2>3, <2>4 DEF Loop
<1>3. CASE Shutdown
  BY Zenon, <1>3, LoopBooks, FinishBooks DEF Shutdown
<1>4. CASE \E k \in Keys : BeginWrite(k) \/ EndWrite(k) \/ BeginRead(k) \/ EndRead(k) \/ Evict(k)
  BY Zenon, <1>4, WriterBooks, ReaderBooks
<1>5. CASE \E a \in Adapters : \/ RequestAdd(a) \/ RequestRemove(a) \/ TimeOut(a)
                               \/ \E i \in TaskIds : CompleteJob(a, i)
  <2>1. UNCHANGED <<vars, inFlight, reading, loc>>
    BY Zenon, <1>5 DEF RequestAdd, RequestRemove, TimeOut, CompleteJob, tasks, clients
  <2> QED BY Zenon, <2>1, QuietBooks
<1> QED BY Zenon, <1>1, <1>2, <1>3, <1>4, <1>5 DEF SNext, Others

----------------------------------------------------------------------------
\* What the adapters read

\* The buffers of f are those of objects in L1.
Reads(f) == \A k \in DOMAIN f : IsResident(k) /\ objects[k].buf = f[k]

\* Every store, submitted or about to be, reads objects in L1, also when its
\* result is known and only its completion has not been drained.
Stable ==
    pc # "stopped" =>
        /\ \A a \in Adapters, i \in TaskIds : job[a][i] # None => Reads(job[a][i].bufs)
        /\ loc.cur # None => Reads(loc.cur.bufs)

\* A key the accounts name after a step is resident then.
LEMMA OwedNext ==
    ASSUME Accounted', NEW k \in Keys, Tracking(k)' # {} \/ Submitting(k)' = 1
    PROVE  IsResident(k)'
<1>1. IsFiniteSet(Adapters \X TaskIds) /\ Tracking(k)' \subseteq Adapters \X TaskIds
  BY Zenon, StoreAssumption, FS_Product DEF Tracking
<1>2. IsFiniteSet(Tracking(k)')
  BY Zenon, <1>1, FS_Subset
<1>3. /\ Cardinality(Tracking(k)') \in Nat
      /\ Tracking(k)' # {} => Cardinality(Tracking(k)') # 0
  BY Zenon, <1>2, FS_CardinalityType, FS_EmptySet
<1>4. Submitting(k)' \in {0, 1} /\ Reader(k)' \in {0, 1}
  BY Zenon DEF Submitting, Reader
<1>5. Held(k)' = Cardinality(Tracking(k)') + Submitting(k)' + Reader(k)'
  BY Zenon DEF Accounted
<1>6. Held(k)' # 0
  BY <1>3, <1>4, <1>5
<1> QED BY Zenon, <1>6 DEF Held

\* Where the stores of a step's end come from.
LEMMA StoresComeFrom ==
    ASSUME LoopInv, L1Typed, [SNext]_svars, pc' # "stopped"
    PROVE  /\ pc # "stopped"
           /\ \A a \in Adapters, i \in TaskIds : job'[a][i] # None =>
                 \/ job[a][i] # None /\ job'[a][i].bufs = job[a][i].bufs
                 \/ loc.cur # None /\ job'[a][i].bufs = loc.cur.bufs
           /\ loc'.cur # None => loc'.cur = loc.cur \/ Reads(loc'.cur.bufs)
<1>1. LoopTyped /\ loc \in Locals /\ Where
  BY Zenon DEF LoopInv, LoopTyped
<1> DEFINE Goal == /\ pc # "stopped"
                   /\ \A a \in Adapters, i \in TaskIds : job'[a][i] # None =>
                         \/ job[a][i] # None /\ job'[a][i].bufs = job[a][i].bufs
                         \/ loc.cur # None /\ job'[a][i].bufs = loc.cur.bufs
                   /\ loc'.cur # None => loc'.cur = loc.cur \/ Reads(loc'.cur.bufs)
<1>2. ASSUME job' = job, pc # "stopped", loc'.cur = loc.cur \/ loc'.cur = None PROVE Goal
  BY Zenon, <1>2
<1>3. CASE Poll \/ ConsumeListener \/ PopPending \/ \E a \in Adapters : ConsumeAdapter(a)
  <2>1. job' = job /\ (pc = "poll" \/ pc = "fds" \/ pc = "pop")
    BY Zenon, <1>3 DEF Poll, ConsumeListener, PopPending, ConsumeAdapter, Step, tasks
  <2>2. \/ \E r : loc' = [NoLocals EXCEPT !.ready = r]
        \/ \E r : loc' = [loc EXCEPT !.ready = r]
        \/ \E r, g : loc' = [loc EXCEPT !.ready = r, !.signaled = g]
        \/ \E r : loc' = [loc EXCEPT !.todo = r]
    BY Zenon, <1>3 DEF Poll, ConsumeListener, PopPending, ConsumeAdapter
  <2>3. loc'.cur = loc.cur \/ loc'.cur = None
    <3>1. CASE \E r : loc' = [NoLocals EXCEPT !.ready = r]
      BY Zenon, <3>1 DEF NoLocals
    <3>2. CASE \E r : loc' = [loc EXCEPT !.ready = r]
      BY Zenon, <1>1, <3>2 DEF Locals
    <3>3. CASE \E r, g : loc' = [loc EXCEPT !.ready = r, !.signaled = g]
      BY Zenon, <1>1, <3>3 DEF Locals
    <3>4. CASE \E r : loc' = [loc EXCEPT !.todo = r]
      BY Zenon, <1>1, <3>4 DEF Locals
    <3> QED BY Zenon, <2>2, <3>1, <3>2, <3>3, <3>4
  <2>4. pc # "stopped"
    BY Zenon, <2>1
  <2> QED BY Zenon, <1>2, <2>1, <2>3, <2>4
<1>4. CASE \/ ApplyOps \/ FdsHandled \/ Submitted \/ Advanced \/ SkipRetry
           \/ DetachDrained \/ RetryDeferred
  <2>1. job' = job /\ loc' = loc
    <3>1. CASE ApplyOps \/ FdsHandled \/ Submitted
      BY Zenon, <3>1 DEF ApplyOps, FdsHandled, Submitted, tasks
    <3>2. CASE Advanced \/ SkipRetry \/ DetachDrained \/ RetryDeferred
      BY Zenon, <3>2 DEF Advanced, SkipRetry, DetachDrained, RetryDeferred, tasks
    <3> QED BY Zenon, <1>4, <3>1, <3>2
  <2>2. pc = "ops" \/ pc = "fds" \/ pc = "submit" \/ pc = "advance" \/ pc = "retry" \/ pc = "detach"
    BY Zenon, <1>4
       DEF ApplyOps, FdsHandled, Submitted, Advanced, SkipRetry, DetachDrained, RetryDeferred, Step
  <2>3. pc # "stopped"
    BY Zenon, <2>2
  <2> QED BY Zenon, <1>2, <2>1, <2>3
<1>5. ASSUME NEW t \in loc.todo, ReserveForStore(t) PROVE Goal
  <2> DEFINE found == {k \in t.keys : IsResident(k)}
             bufs == [k \in found |-> objects[k].buf]
             new == [id |-> t.id, bufs |-> bufs]
             cur == IF found = {} THEN None ELSE new
  <2>1. /\ pc = "submit" /\ job' = job
        /\ \E r : loc' = [loc EXCEPT !.todo = r, !.cur = cur]
    BY Zenon, <1>5 DEF ReserveForStore, Step, tasks
  <2>2. new.bufs = bufs /\ Reads(bufs)
    BY Zenon DEF Reads
  <2>3. cur = None \/ cur = new
    BY Zenon
  <2> HIDE DEF cur, new
  <2>4. loc'.cur = cur
    BY Zenon, <1>1, <2>1 DEF Locals
  <2>5. loc'.cur # None => Reads(loc'.cur.bufs)
    BY Zenon, <2>2, <2>3, <2>4
  <2>6. pc # "stopped"
    BY Zenon, <2>1
  <2> QED BY Zenon, <2>1, <2>5, <2>6
<1>6. CASE SubmitRaises
  <2>1. pc = "hand" /\ job' = job /\ loc' = [loc EXCEPT !.cur = None]
    BY Zenon, <1>6 DEF SubmitRaises, Step, tasks
  <2>2. pc # "stopped" /\ loc'.cur = None
    BY Zenon, <1>1, <2>1 DEF Locals
  <2> QED BY Zenon, <1>2, <2>1, <2>2
<1>7. CASE SubmitStore
  <2> DEFINE b == loc.cur.id
             new == [bufs |-> loc.cur.bufs, st |-> "running"]
  <2>1. /\ pc = "hand" /\ loc' = [loc EXCEPT !.cur = None]
        /\ \E i \in FreeIds(b) : job' = [job EXCEPT ![b][i] = new]
    BY Zenon, <1>7 DEF SubmitStore, Step
  <2>2. pc # "stopped" /\ loc'.cur = None /\ loc.cur # None
    BY Zenon, <1>1, <2>1 DEF Locals, Where
  <2>3. new.bufs = loc.cur.bufs
    BY Zenon
  <2> HIDE DEF b, new
  <2>4. \A a \in Adapters, i \in TaskIds : job'[a][i] = job[a][i] \/ job'[a][i] = new
    BY <1>1, <2>1 DEF LoopTyped
  <2> QED BY Zenon, <2>2, <2>3, <2>4
<1>8. ASSUME NEW c \in Adapters, Drain(c) PROVE Goal
  <2>1. /\ pc = "drain" /\ \E g : loc' = [loc EXCEPT !.signaled = g]
        /\ job' = [job EXCEPT ![c] = [i \in TaskIds |->
                       IF i \in Completed(c) THEN None ELSE job[c][i]]]
    BY Zenon, <1>8 DEF Drain, Step
  <2>2. pc # "stopped" /\ loc'.cur = loc.cur
    BY Zenon, <1>1, <2>1 DEF Locals
  <2>3. \A a \in Adapters, i \in TaskIds : job'[a][i] = job[a][i] \/ job'[a][i] = None
    BY Zenon, <1>1, <2>1 DEF LoopTyped
  <2> QED BY Zenon, <2>2, <2>3
<1>9. CASE DeleteStored \/ \E a \in Adapters, i \in TaskIds : FinalizeStore(a, i)
  <2>1. /\ job' = job /\ (pc = "delete" \/ pc = "advance")
        /\ \E r : loc' = [loc EXCEPT !.del = r]
    BY Zenon, <1>9 DEF DeleteStored, FinalizeStore, Step, tasks
  <2>2. pc # "stopped" /\ loc'.cur = loc.cur
    BY Zenon, <1>1, <2>1 DEF Locals
  <2> QED BY Zenon, <1>2, <2>1, <2>2
<1>10. CASE Shutdown
  <2>1. pc' = "stopped"
    BY Zenon, <1>10 DEF Shutdown, Stop, CleanUpTask, Step
  <2> QED BY Zenon, <2>1
<1>11. CASE \/ \E k \in Keys : BeginWrite(k) \/ EndWrite(k) \/ BeginRead(k) \/ EndRead(k) \/ Evict(k)
            \/ UNCHANGED svars
            \/ \E a \in Adapters : RequestAdd(a) \/ RequestRemove(a) \/ TimeOut(a)
  <2>1. UNCHANGED <<pc, loc, job>>
    <3>1. CASE \E k \in Keys : BeginWrite(k) \/ EndWrite(k) \/ BeginRead(k) \/ EndRead(k) \/ Evict(k)
      BY Zenon, <3>1 DEF BeginWrite, EndWrite, BeginRead, EndRead, Evict, Idle
    <3>2. CASE UNCHANGED svars
      BY Zenon, <3>2 DEF svars, tasks
    <3>3. CASE \E a \in Adapters : RequestAdd(a) \/ RequestRemove(a) \/ TimeOut(a)
      BY Zenon, <3>3 DEF RequestAdd, RequestRemove, TimeOut, tasks
    <3> QED BY Zenon, <1>11, <3>1, <3>2, <3>3
  <2> QED BY Zenon, <1>2, <2>1
<1>12. ASSUME NEW c \in Adapters, NEW n \in TaskIds, CompleteJob(c, n) PROVE Goal
  <2>1. /\ job[c][n] # None /\ UNCHANGED <<pc, loc>>
        /\ \E st : job' = [job EXCEPT ![c][n].st = st]
    BY Zenon, <1>12 DEF CompleteJob
  <2>2. PICK st : job' = [job EXCEPT ![c][n].st = st]
    BY Zenon, <2>1
  <2> DEFINE new == [job[c][n] EXCEPT !.st = st]
  <2>3. job' = [job EXCEPT ![c] = [job[c] EXCEPT ![n] = new]]
    BY Zenon, <2>2
  <2>4. job[c][n] \in Jobs
    BY Zenon, <1>1, <2>1, TaskTyped
  <2>5. new.bufs = job[c][n].bufs
    BY Zenon, <2>4 DEF Jobs
  <2> HIDE DEF new
  <2>6. \A a \in Adapters, i \in TaskIds :
           job'[a][i] = job[a][i] \/ (a = c /\ i = n /\ job'[a][i] = new)
    BY Zenon, <1>1, <2>3 DEF LoopTyped
  <2> QED BY Zenon, <2>1, <2>5, <2>6
<1> QED
  BY Zenon, <1>3, <1>4, <1>5, <1>6, <1>7, <1>8, <1>9, <1>10, <1>11, <1>12
     DEF SNext, Loop, Others

\* What a store reads stays where it is.
LEMMA StableStep ==
    ASSUME LoopInv, L1Typed, Accounted, Stable, [SNext]_svars
    PROVE  Stable'
<1>1. LoopInv' /\ Books /\ Paired' /\ LoopTyped' /\ Accounted'
  BY Zenon, LoopStep, BooksStep DEF LoopInv, Books
<1> SUFFICES ASSUME pc' # "stopped"
             PROVE  /\ \A a \in Adapters, i \in TaskIds : job'[a][i] # None => Reads(job[a][i].bufs)'
                    /\ loc'.cur # None => Reads(loc.cur.bufs)'
  BY Zenon DEF Stable
<1>2. /\ pc # "stopped"
      /\ \A a \in Adapters, i \in TaskIds : job'[a][i] # None =>
            \/ job[a][i] # None /\ job'[a][i].bufs = job[a][i].bufs
            \/ loc.cur # None /\ job'[a][i].bufs = loc.cur.bufs
      /\ loc'.cur # None => loc'.cur = loc.cur \/ Reads(loc'.cur.bufs)
  BY Zenon, StoresComeFrom
<1>3. ASSUME NEW f, Reads(f), DOMAIN f \subseteq Keys, \A k \in DOMAIN f : IsResident(k)'
      PROVE  \A k \in DOMAIN f : IsResident(k)' /\ objects'[k].buf = f[k]
  BY Zenon, <1>1, <1>3 DEF Reads, Books, Kept
<1>4. ASSUME NEW a \in Adapters, NEW i \in TaskIds, job'[a][i] # None
      PROVE  Reads(job[a][i].bufs)'
  <2> DEFINE f == job'[a][i].bufs
  <2>1. Reads(f)
    BY Zenon, <1>2, <1>4 DEF Stable
  <2>2. /\ inFlight'[a][i] # None /\ inFlight'[a][i].keys = DOMAIN f
    BY Zenon, <1>1, <1>4 DEF Paired
  <2>3. DOMAIN f \subseteq Keys
    <3>1. job'[a][i] \in Jobs
      BY Zenon, <1>1, <1>4 DEF LoopTyped
    <3>2. f \in BufMaps
      BY Zenon, <3>1 DEF Jobs
    <3> QED BY Zenon, <3>2, BufMapTyped
  <2>4. ASSUME NEW k \in DOMAIN f PROVE IsResident(k)'
    <3>1. k \in Keys
      BY Zenon, <2>3
    <3>2. <<a, i>> \in Tracking(k)'
      BY Zenon, <2>2 DEF Tracking
    <3> QED BY Zenon, <1>1, <3>1, <3>2, OwedNext
  <2> HIDE DEF f
  <2>5. \A k \in DOMAIN f : IsResident(k)' /\ objects'[k].buf = f[k]
    BY Zenon, <1>3, <2>1, <2>3, <2>4
  <2> QED BY Zenon, <2>5 DEF Reads, f
<1>5. ASSUME loc'.cur # None PROVE Reads(loc.cur.bufs)'
  <2> DEFINE f == loc'.cur.bufs
  <2>1. Reads(f)
    BY Zenon, <1>2, <1>5 DEF Stable
  <2>2. DOMAIN f \subseteq Keys
    <3>1. loc'.cur \in Stores
      BY Zenon, <1>1, <1>5 DEF LoopTyped, Locals
    <3>2. f \in BufMaps
      BY Zenon, <3>1 DEF Stores
    <3> QED BY Zenon, <3>2, BufMapTyped
  <2>3. \A k \in DOMAIN f : Submitting(k)' = 1
    BY Zenon, <1>5 DEF Submitting
  <2>4. \A k \in DOMAIN f : IsResident(k)'
    BY Zenon, <1>1, <2>2, <2>3, OwedNext
  <2> HIDE DEF f
  <2>5. \A k \in DOMAIN f : IsResident(k)' /\ objects'[k].buf = f[k]
    BY Zenon, <1>3, <2>1, <2>2, <2>4
  <2> QED BY Zenon, <2>5 DEF Reads, f
<1> QED BY Zenon, <1>4, <1>5

----------------------------------------------------------------------------
\* The theorems

SInv == L1Typed /\ LoopInv /\ Accounted /\ Stable

\* The controller starts with nothing in L1 and nothing to do.
LEMMA SInitInv ==
    ASSUME SInit PROVE SInv
<1>1. /\ objects = [k \in Keys |-> None] /\ staging = [k \in Keys |-> [t \in Tags |-> None]]
      /\ pending = {} /\ ops = {} /\ attached = Initial /\ inFlight = NoTasks /\ deferred = {}
      /\ pc = "ops" /\ loc = NoLocals /\ job = NoTasks /\ reading = {}
  BY Zenon DEF SInit, Init
<1>2. /\ \A k \in Keys : ~IsResident(k) /\ Held(k) = 0
      /\ \A a \in Adapters, i \in TaskIds : inFlight[a][i] = None /\ job[a][i] = None
  BY Zenon, <1>1 DEF IsResident, Held, NoTasks
<1>3. L1Typed
  <2>1. \A k \in Keys, t \in Tags : ~IsStaged(k, t)
    BY Zenon, <1>1 DEF IsStaged
  <2>2. objects \in [Keys -> Resident \cup {None}] /\ staging \in [Keys -> [Tags -> Staged \cup {None}]]
    BY Zenon, <1>1
  <2> QED BY Zenon, <1>2, <2>1, <2>2 DEF L1Typed
<1>4. /\ loc.ready = {} /\ loc.signaled = {} /\ loc.todo = {} /\ loc.cur = None /\ loc.del = {}
      /\ loc \in Locals
  BY Zenon, <1>1 DEF NoLocals, Locals
<1>5. LoopTyped
  <2>1. /\ inFlight \in [Adapters -> [TaskIds -> Tasks \cup {None}]]
        /\ job \in [Adapters -> [TaskIds -> Jobs \cup {None}]]
    BY Zenon, <1>1 DEF NoTasks
  <2>2. pc \in Labels
    BY Zenon, <1>1 DEF Labels
  <2> QED BY Zenon, <1>1, <1>4, <2>1, <2>2, StoreAssumption DEF LoopTyped
<1>6. Where
  BY Zenon, <1>1, <1>4 DEF Where
<1>7. Paired /\ Routed /\ Behind
  BY Zenon, <1>1, <1>2, <1>4 DEF Paired, Routed, Unused, Behind
<1>8. Accounted
  <2> SUFFICES ASSUME NEW k \in Keys
               PROVE  Held(k) = Cardinality(Tracking(k)) + Submitting(k) + Reader(k)
    BY Zenon DEF Accounted
  <2>1. Tracking(k) = {}
    BY Zenon, <1>2 DEF Tracking
  <2>2. Cardinality(Tracking(k)) = 0
    BY Zenon, <2>1, FS_EmptySet
  <2>3. Submitting(k) = 0 /\ Reader(k) = 0
    BY Zenon, <1>1, <1>4 DEF Submitting, Reader
  <2> QED BY <1>2, <2>2, <2>3
<1>9. Stable
  BY Zenon, <1>2, <1>4 DEF Stable
<1> QED BY Zenon, <1>3, <1>5, <1>6, <1>7, <1>8, <1>9 DEF SInv, LoopInv

\* The invariant is inductive.
LEMMA SInvStep ==
    ASSUME SInv, [SNext]_svars PROVE SInv'
<1>1. LoopInv'
  BY Zenon, LoopStep DEF SInv
<1>2. L1Typed' /\ Accounted'
  BY Zenon, BooksStep DEF SInv, Books
<1>3. Stable'
  BY Zenon, StableStep DEF SInv
<1> QED BY Zenon, <1>1, <1>2, <1>3 DEF SInv

\* The invariant always holds.
LEMMA SInvHolds ==
    SSpec => []SInv
<1>1. SInit => SInv
  BY Zenon, SInitInv
<1>2. SInv /\ [SNext]_svars => SInv'
  BY Zenon, SInvStep
<1> QED BY <1>1, <1>2, PTL DEF SSpec

\* Whatever submit_store_task raises, whichever stores fail, and wherever
\* stop() strikes, an object's read locks are those of the stores the
\* controller tracks or submits and of its readers, one each.
THEOREM LocksAreAccounted ==
    SSpec => []LockAccounting
<1>1. SInv => LockAccounting
  BY Zenon DEF SInv, Accounted, LockAccounting, Held, Submitting, Reader
<1> QED BY <1>1, SInvHolds, PTL

\* No eviction, deletion or rewriting reaches an object while an adapter reads
\* it for a store, until the controller is stopped.
THEOREM StoresReadStableData ==
    SSpec => []StoreReadsStableData
<1>1. SInv => StoreReadsStableData
  BY Zenon DEF SInv, Stable, Reads, StoreReadsStableData
<1> QED BY <1>1, SInvHolds, PTL

\* _delete_from_l1 removes no key of a store that failed, was never submitted
\* or is still under way, at once or deferred: some adapter has it.
THEOREM DeletesFollowStores ==
    SSpec => DeletedOnlyWhenStored
<1>1. ASSUME SInv, DeleteStored \/ RetryDeferred, NEW k \in Keys, IsResident(k), ~IsResident(k)'
      PROVE  k \in l2
  <2>1. /\ L1Typed /\ deferred \in SUBSET Keys /\ loc.del \in SUBSET Keys
        /\ deferred \subseteq l2 /\ loc.del \subseteq l2
    BY Zenon, <1>1, LocTyped DEF SInv, LoopInv, LoopTyped, Behind
  <2>2. Delete(loc.del, FALSE) \/ Delete(deferred, FALSE)
    BY Zenon, <1>1 DEF DeleteStored, RetryDeferred, DeleteFromL1
  <2>3. \A K \in SUBSET Keys : Delete(K, FALSE) => k \in K
    BY Zenon, <1>1, <2>1, DeleteHeld DEF IsResident
  <2> QED BY Zenon, <2>1, <2>2, <2>3
<1>2. SInv => (DeleteStored \/ RetryDeferred =>
                  \A k \in Keys : IsResident(k) /\ ~IsResident(k)' => k \in l2)
  BY Zenon, <1>1
<1> QED BY <1>2, SInvHolds, PTL DEF DeletedOnlyWhenStored

\* _finalize_drained_adapters detaches no adapter with a store under way, a
\* completion to drain or a submission ahead, however often it is added and
\* removed: delete_l2_adapter may close it.
THEOREM DetachedStaysIdle ==
    SSpec => []DetachedIsIdle
<1>1. SInv => DetachedIsIdle
  BY Zenon DEF SInv, LoopInv, Routed, Unused, DetachedIsIdle
<1> QED BY <1>1, SInvHolds, PTL
=============================================================================
