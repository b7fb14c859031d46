----------------------------- MODULE L1Manager -----------------------------
(***************************************************************************)
(* BaseL1Manager (lmcache/v1/distributed/l1_manager/base.py): the resident *)
(* objects and the per-tag staging objects of one L1 tier, their TTL locks *)
(* and the buffers behind them.  Every method runs under the manager's     *)
(* lock, so one method call is one action; callers are arbitrary.          *)
(*                                                                         *)
(* A TTLLock is reduced to its count: an expired lock and a lock at zero   *)
(* answer is_locked() alike and lock() restarts both at one, so expiry     *)
(* sets the count to zero (AtomicTTLLock is the lock with its clock).  A   *)
(* staging object's write lock is taken once and its count is 0 or 1.      *)
(* The keys of one call are distinct.                                      *)
(***************************************************************************)
EXTENDS Integers, FiniteSetsExt

CONSTANTS Keys,
          Tags,       \* writers' tags
          Bufs,       \* memory objects the memory manager can hand out
          Sizes,      \* byte sizes of a memory object
          MaxLocks,   \* bound: read locks on one object
          None        \* no object

\* L1ObjectState of a resident and of a staging object.  The size of a memory
\* object only matters while it is staged.
Resident == [buf : Bufs, locks : 0..MaxLocks, temp : BOOLEAN]
Staged == [buf : Bufs, held : BOOLEAN, temp : BOOLEAN, size : Sizes, charge : Sizes]

ASSUME L1Assumption ==
    /\ Sizes \subseteq Nat
    /\ MaxLocks \in Nat
    /\ None \notin Resident \cup Staged \cup Bufs \cup Tags

VARIABLES objects,       \* _objects
          staging,       \* _staging
          stagingBytes,  \* _staging_bytes
          allocated      \* the memory manager's live memory objects

vars == <<objects, staging, stagingBytes, allocated>>

TypeOK ==
    /\ objects \in [Keys -> Resident \cup {None}]
    /\ staging \in [Keys -> [Tags -> Staged \cup {None}]]
    /\ allocated \in SUBSET Bufs

Init ==
    /\ objects = [k \in Keys |-> None]
    /\ staging = [k \in Keys |-> [t \in Tags |-> None]]
    /\ stagingBytes = 0
    /\ allocated = {}

----------------------------------------------------------------------------
\* State predicates and the private helpers

IsResident(k) == objects[k] # None
IsStaged(k, t) == staging[k][t] # None
IsStagedByAny(k) == \E t \in Tags : IsStaged(k, t)
IsLive(k, t) == IsStaged(k, t) /\ staging[k][t].held
ReadLocked(k) == IsResident(k) /\ objects[k].locks > 0

Batches == (SUBSET Keys) \ {{}}
LockCounts == 1..MaxLocks

\* n calls of TTLLock.lock(), and below of TTLLock.unlock(), on the read lock of o.
Lock(o, n) == [o EXCEPT !.locks = o.locks + n]

\* Mutation: releasing more locks than are held takes the count below zero.
UnlockMutant(o, n) == [o EXCEPT !.locks = o.locks - n]

Unlock(o, n) == [o EXCEPT !.locks = IF n >= o.locks THEN 0 ELSE o.locks - n]

\* The bound on read locks: no call takes an object past MaxLocks.
WithinBound(K, n) == \A k \in K : IsResident(k) => objects[k].locks + n <= MaxLocks

ResidentBufs(K) == {objects[k].buf : k \in K}
StagedBufs(S) == {staging[s[1]][s[2]].buf : s \in S}

\* _pop_staging of the entries in S, a set of <<key, tag>>.
ChargeOf(S) == MapThenSumSet(LAMBDA s : staging[s[1]][s[2]].charge, S)

\* Mutation: the counter loses the buffer's present size, not what it was charged.
PopStagingMutant(S) ==
    /\ staging' = [k \in Keys |-> [t \in Tags |->
                     IF <<k, t>> \in S THEN None ELSE staging[k][t]]]
    /\ stagingBytes' = stagingBytes - MapThenSumSet(LAMBDA s : staging[s[1]][s[2]].size, S)

PopStaging(S) ==
    /\ staging' = [k \in Keys |-> [t \in Tags |->
                     IF <<k, t>> \in S THEN None ELSE staging[k][t]]]
    /\ stagingBytes' = stagingBytes - ChargeOf(S)

\* Mutation: _take_staging does not look at the write lock.
TakenMutant(K, t) == {k \in K : IsStaged(k, t)}

\* The keys for which _take_staging(key, t) succeeds, split by what becomes of the object.
Taken(K, t) == {k \in K : IsLive(k, t)}
Admitted(K, t) == {k \in Taken(K, t) : ~IsResident(k)}
Discarded(K, t) == {k \in Taken(K, t) : IsResident(k)}

\* tag t's staging object as a resident one with n read locks.
Admit(k, t, n) == [buf |-> staging[k][t].buf, locks |-> n, temp |-> staging[k][t].temp]

\* Mutation: live reservations are reclaimed too.
ReclaimableMutant(K, force) == {s \in K \X Tags : IsStaged(s[1], s[2])}

\* What _reclaim_staging(key, force) frees for the keys of K.
Reclaimable(K, force) ==
    {s \in K \X Tags : IsStaged(s[1], s[2]) /\ (force \/ ~staging[s[1]][s[2]].held)}

----------------------------------------------------------------------------
\* Readers

ReserveRead(K, n) ==
    /\ WithinBound(K, n)
    /\ objects' = [k \in Keys |-> IF k \in K /\ IsResident(k)
                                  THEN Lock(objects[k], n) ELSE objects[k]]
    /\ UNCHANGED <<staging, stagingBytes, allocated>>

\* The temporary objects whose last lock finish_read(K, n) releases.
DroppedByRead(K, n) == {k \in K : ReadLocked(k) /\ objects[k].temp /\ objects[k].locks <= n}

FinishRead(K, n) ==
    LET gone == DroppedByRead(K, n) IN
    /\ objects' = [k \in Keys |-> IF k \in gone THEN None
                                  ELSE IF k \in K /\ ReadLocked(k) THEN Unlock(objects[k], n)
                                  ELSE objects[k]]
    /\ allocated' = allocated \ ResidentBufs(gone)
    /\ UNCHANGED <<staging, stagingBytes>>

----------------------------------------------------------------------------
\* Writers

\* reserve_write(keys, tag): the keys whose expired reservation is handed over,
\* and those that need a new buffer.  The other keys are not writable.
HandedOver(K, t) == {k \in K : ~IsResident(k) /\ IsStaged(k, t) /\ ~staging[k][t].held}
NeedToAllocate(K, t) == {k \in K : ~IsResident(k) /\ ~IsStaged(k, t)}

\* Mutation: the allocator may hand out one buffer for several keys of a batch.
AllocationsMutant(K) == [K -> Bufs \ allocated]

\* allocate(): distinct free memory objects for all of K, or none at all.
Allocations(K) ==
    {f \in [K -> Bufs \ allocated] : \A j, k \in K : f[j] = f[k] => j = k}

\* A staging object handed to a new writer, and a new one on buffer b.
Rehold(o, temp) == [o EXCEPT !.held = TRUE, !.temp = temp]
NewStaged(b, temp, size) ==
    [buf |-> b, held |-> TRUE, temp |-> temp, size |-> size, charge |-> size]

\* The staging table after f supplied the buffers; T is the set of temporary keys.
StagingWith(K, T, t, f, size) ==
    [k \in Keys |-> [u \in Tags |->
        IF u = t /\ k \in HandedOver(K, t)
        THEN Rehold(staging[k][t], k \in T)
        ELSE IF u = t /\ k \in DOMAIN f
        THEN NewStaged(f[k], k \in T, size)
        ELSE staging[k][u]]]

ReserveWrite(K, T, t, size) ==
    \E f \in Allocations(NeedToAllocate(K, t)) :
        /\ allocated' = allocated \cup {f[k] : k \in DOMAIN f}
        /\ stagingBytes' = stagingBytes + Cardinality(DOMAIN f) * size
        /\ staging' = StagingWith(K, T, t, f, size)
        /\ UNCHANGED objects

\* The allocation failed (too little or too fragmented memory): only handovers happen.
ReserveWriteOutOfMemory(K, T, t) ==
    /\ NeedToAllocate(K, t) # {}
    /\ UNCHANGED <<objects, stagingBytes, allocated>>
    /\ staging' = [k \in Keys |-> [u \in Tags |->
                     IF u = t /\ k \in HandedOver(K, t)
                     THEN Rehold(staging[k][t], k \in T)
                     ELSE staging[k][u]]]

\* Mutation: an already resident key takes the newly written object.
FinishWriteMutant(K, t) ==
    /\ objects' = [k \in Keys |-> IF k \in Taken(K, t) THEN Admit(k, t, 0) ELSE objects[k]]
    /\ allocated' = allocated \ ResidentBufs(Discarded(K, t))
    /\ PopStaging(Taken(K, t) \X {t})

FinishWrite(K, t) ==
    /\ objects' = [k \in Keys |-> IF k \in Admitted(K, t) THEN Admit(k, t, 0) ELSE objects[k]]
    /\ allocated' = allocated \ StagedBufs(Discarded(K, t) \X {t})
    /\ PopStaging(Taken(K, t) \X {t})

FinishWriteAndReserveRead(K, n, t) ==
    /\ WithinBound(Taken(K, t), n)
    /\ objects' = [k \in Keys |-> IF k \in Admitted(K, t) THEN Admit(k, t, n)
                                  ELSE IF k \in Discarded(K, t) THEN Lock(objects[k], n)
                                  ELSE objects[k]]
    /\ allocated' = allocated \ StagedBufs(Discarded(K, t) \X {t})
    /\ PopStaging(Taken(K, t) \X {t})

FinishWriteAndDelete(K, t) ==
    /\ allocated' = allocated \ StagedBufs(Taken(K, t) \X {t})
    /\ PopStaging(Taken(K, t) \X {t})
    /\ UNCHANGED objects

----------------------------------------------------------------------------
\* Deletion

\* Mutation: only live reservations, not read locks, protect from delete().
DeletedMutant(K, force) ==
    {k \in K : IsResident(k) /\ (force \/ \A t \in Tags : ~IsLive(k, t))}

\* The resident objects delete(keys, force) removes: not pinned by a live
\* reservation and, unless forced, not read-locked.
Deleted(K, force) ==
    {k \in K : /\ IsResident(k)
               /\ force \/ (~ReadLocked(k) /\ \A t \in Tags : ~IsLive(k, t))}

RemoveAll(R, S) ==
    /\ objects' = [k \in Keys |-> IF k \in R THEN None ELSE objects[k]]
    /\ allocated' = allocated \ (ResidentBufs(R) \cup StagedBufs(S))
    /\ PopStaging(S)

Delete(K, force) == RemoveAll(Deleted(K, force), Reclaimable(K, force))

\* clear(force): unlike delete(), a live reservation does not pin the resident object.
Cleared(force) == {k \in Keys : IsResident(k) /\ (force \/ ~ReadLocked(k))}

Clear(force) == RemoveAll(Cleared(force), Reclaimable(Keys, force))

----------------------------------------------------------------------------
\* Time, and what happens to a memory object while it is staged

\* The TTL of a read lock, of a write lock, passes.
ExpireRead(k) ==
    /\ ReadLocked(k)
    /\ objects' = [objects EXCEPT ![k].locks = 0]
    /\ UNCHANGED <<staging, stagingBytes, allocated>>

ExpireWrite(k, t) ==
    /\ IsLive(k, t)
    /\ staging' = [staging EXCEPT ![k][t].held = FALSE]
    /\ UNCHANGED <<objects, stagingBytes, allocated>>

\* MemoryObj.set_used_size on a staged object, after serialization into it.
SetUsedSize(k, t, size) ==
    /\ IsStaged(k, t) /\ size < staging[k][t].size
    /\ staging' = [staging EXCEPT ![k][t].size = size]
    /\ UNCHANGED <<objects, stagingBytes, allocated>>

----------------------------------------------------------------------------

Forced == (\E K \in Batches : Delete(K, TRUE)) \/ Clear(TRUE)

ReaderStep == \E K \in Batches, n \in LockCounts : ReserveRead(K, n) \/ FinishRead(K, n)

WriterStep ==
    \E K \in Batches, t \in Tags :
        \/ \E T \in SUBSET K : \/ \E size \in Sizes : ReserveWrite(K, T, t, size)
                               \/ ReserveWriteOutOfMemory(K, T, t)
        \/ FinishWrite(K, t)
        \/ \E n \in LockCounts : FinishWriteAndReserveRead(K, n, t)
        \/ FinishWriteAndDelete(K, t)

DeleteStep == (\E K \in Batches : Delete(K, FALSE)) \/ Clear(FALSE)

ExpiryStep ==
    \E k \in Keys :
        \/ ExpireRead(k)
        \/ \E t \in Tags : ExpireWrite(k, t) \/ \E size \in Sizes : SetUsedSize(k, t, size)

Unforced == DeleteStep \/ ReaderStep \/ WriterStep \/ ExpiryStep

Next == Unforced \/ Forced

Spec == Init /\ [][Next]_vars

----------------------------------------------------------------------------
\* Properties

\* The memory objects referred to for each key: by tag t's staging object under
\* t, by the resident object under None.
Places == Tags \cup {None}

BufMap == [k \in Keys |-> [p \in Places |->
    IF p = None THEN IF IsResident(k) THEN objects[k].buf ELSE None
    ELSE IF IsStaged(k, p) THEN staging[k][p].buf ELSE None]]

\* m refers to each buffer of A from exactly one place, and to no other buffer.
Owns(m, A) ==
    /\ A = {b \in Bufs : \E k \in Keys, p \in Places : m[k][p] = b}
    /\ \A j, k \in Keys, p, q \in Places : m[j][p] = m[k][q] /\ m[k][q] # None => j = k /\ p = q

\* Every live memory object is referenced from exactly one place, and every
\* reference is to a live memory object: no leak, no double free and no two
\* objects on one buffer.  (reserve_write, the finish_* methods, delete and
\* clear move, share out and free buffers.)
BufferOwnership == Owns(BufMap, allocated)

\* _staging_bytes is the sum of what the staged objects were charged, although
\* a memory object may be narrowed while it is staged (_put_staging, _pop_staging).
StagingAccounting == stagingBytes = ChargeOf({s \in Keys \X Tags : IsStaged(s[1], s[2])})

\* A key's resident object is never exchanged for another one under its
\* readers: between two objects the key is absent (finish_write discards the
\* staging object of a key that became resident).
ResidentIsStable ==
    [][\A k \in Keys : IsResident(k) /\ IsResident(k)' => objects'[k].buf = objects[k].buf]_vars

\* Unless it is forced, no operation takes a read-locked object out of L1, but
\* the finish_read that releases the last lock of a temporary one; and a live
\* reservation ends only by its own tag's finish_* call.  delete and clear,
\* eviction's included, and the other tags leave both alone.
LocksProtect ==
    [][/\ \A k \in Keys : ReadLocked(k) /\ ~IsResident(k)' /\ Unforced =>
          \E K \in Batches, n \in LockCounts :
             FinishRead(K, n) /\ k \in K /\ objects[k].temp /\ n >= objects[k].locks
       /\ \A k \in Keys, t \in Tags : IsLive(k, t) /\ ~IsStaged(k, t)' /\ Unforced =>
          \E K \in Batches : k \in K /\ (\/ FinishWrite(K, t) \/ FinishWriteAndDelete(K, t)
                                         \/ \E n \in LockCounts :
                                              FinishWriteAndReserveRead(K, n, t))]_vars

\* What becomes readable is a buffer some tag held a live reservation on: an
\* expired reservation is never admitted (_take_staging).
AdmittedFromLiveReservation ==
    [][\A k \in Keys : ~IsResident(k) /\ IsResident(k)' =>
          \E t \in Tags : /\ IsLive(k, t) /\ ~IsStaged(k, t)'
                          /\ objects'[k].buf = staging[k][t].buf]_vars
=============================================================================
