------------------------------- MODULE RawBlock -------------------------------
(***************************************************************************)
(* The raw-block back end of an L2 adapter (raw_block/core.py): objects in *)
(* fixed slots of a device, an in-memory index over them, reference-counted*)
(* locks, and two metadata containers that a periodic thread overwrites in *)
(* turn with snapshots of the index. Device I/O happens outside the core's *)
(* lock, so stores, loads, deletes and the checkpoint thread interleave.   *)
(* A crash may come at any time; the restarted process reads the newest    *)
(* valid container and drops the entries whose slot header disagrees.      *)
(***************************************************************************)
EXTENDS Integers, FiniteSetsExt, Functions

CONSTANTS Keys, Clients,
          MaxSlots,       \* _max_slots
          Engines,        \* io_engine: "posix", "io_uring"
          BatchSize,      \* keys that io_uring writes as one batch
          None,
          MaxChanges, MaxCrashes, MaxFailures     \* bounds of the instance

Slots == 0 .. MaxSlots - 1

\* _Inflight, with the keys whose write is submitted together.
Flight == [slot : Slots, batch : SUBSET Keys, writing : BOOLEAN, canceled : BOOLEAN]

ASSUME RawBlockAssumption ==
    /\ MaxSlots \in Nat \ {0} /\ IsFiniteSet(Keys) /\ IsFiniteSet(Clients)
    /\ None \notin Slots \cup Keys /\ None \notin Flight
    /\ BatchSize \in Nat /\ Engines \subseteq {"posix", "io_uring"}

VARIABLES engine,      \* the configured io_engine
          at,          \* _index: Keys -> slot of the stored object, or None
          inflight,    \* _inflight: Keys -> a reserved slot being written, or None
          free, next,  \* _free_slots, _next_slot
          refcnt,      \* _lock_refcnt
          dirty,       \* _meta_dirty_total
          persisted,   \* _meta_persisted
          since,       \* _meta_dirty_since is set
          seq,         \* _meta_seq
          closed,      \* _closed
          ckpt,        \* the thread inside _checkpoint_once
          client,      \* Clients -> a prefetch that locks, loads and unlocks a key
          slots,       \* device: Slots -> [hdr, body], the key each of them is of
          meta,        \* device: the two metadata containers
          torn,        \* history: Slots -> key whose interrupted store changed the
                       \* slot last, or None
          seen,        \* history: dirty at the last two checks of the loop
          crashes, failures, changes   \* so far

dvars == <<engine, slots, meta, torn>>
mvars == <<dirty, persisted, since, seq, seen>>
vars == <<at, inflight, free, next, refcnt, closed, ckpt, client, crashes,
          failures, changes, dvars, mvars>>

Indexed == {k \in Keys : at[k] # None}
Inflight == {k \in Keys : inflight[k] # None}

\* The index as a checkpoint stores it; mark is the history of how many
\* changes of this process it contains.
Snapshot == [at |-> at, next |-> next]
TornSnapshot == [at |-> [k \in Keys |-> None], next |-> -1]
Blank == [seq |-> 0, crc |-> TornSnapshot, pay |-> TornSnapshot, mark |-> 0]

NoCkpt == [pc |-> "idle"]
NoClient == [pc |-> "idle"]

Init ==
    /\ engine \in Engines
    /\ at = [k \in Keys |-> None] /\ inflight = [k \in Keys |-> None]
    /\ free = {} /\ next = 0 /\ refcnt = [k \in Keys |-> 0]
    /\ dirty = 0 /\ persisted = 0 /\ since = FALSE /\ seq = 0
    /\ closed = FALSE /\ ckpt = NoCkpt
    /\ client = [c \in Clients |-> NoClient]
    /\ slots = [s \in Slots |-> [hdr |-> None, body |-> None]]
    /\ meta = [i \in 0 .. 1 |-> Blank]
    /\ torn = [s \in Slots |-> None] /\ seen = [old |-> 0, new |-> 0]
    /\ crashes = 0 /\ failures = 0 /\ changes = 0

----------------------------------------------------------------------------
\* Stores.

\* The slots m allocations in a row can take: free ones first (the last freed,
\* or with placement affinity any of them), then never used ones.
Allocations(m) ==
    {S \in SUBSET Slots :
        /\ Cardinality(S) = m
        /\ S \ free = next .. next + Cardinality(S \ free) - 1
        /\ S \ free # {} => free \subseteq S}

\* The keys one write covers: with POSIX I/O put_many goes key by key.
Batches ==
    {K \in SUBSET Keys :
        Cardinality(K) \in 1 .. (IF engine = "posix" THEN 1 ELSE BatchSize)}

\* put_many up to the write: under the lock, every key that is neither stored
\* nor being written gets a slot while there is one.
Reserve(K) ==
    LET new == {k \in K : at[k] = None /\ inflight[k] = None}
        m == Min({Cardinality(new), Cardinality(free) + MaxSlots - next})
    IN /\ ~closed /\ new # {} /\ m > 0
       /\ changes + m <= MaxChanges /\ changes' = changes + m
       /\ \E A \in {A \in SUBSET new : Cardinality(A) = m}, S \in Allocations(m) :
            \E f \in Bijection(A, S) :
                /\ inflight' = [k \in Keys |->
                      IF k \in A THEN [slot |-> f[k], batch |-> A, writing |-> FALSE,
                                       canceled |-> FALSE]
                      ELSE inflight[k]]
                /\ free' = free \ S
                /\ next' = next + Cardinality(S \ free)
       /\ UNCHANGED <<at, refcnt, closed, ckpt, client, crashes, failures, dvars, mvars>>

\* A key whose buffers cannot be prepared is rolled back alone.
PrepareFails(k) ==
    /\ inflight[k] # None /\ ~inflight[k].writing
    /\ failures < MaxFailures /\ failures' = failures + 1
    /\ free' = free \cup {inflight[k].slot}
    /\ inflight' = [j \in Keys |->
          IF j = k THEN None
          ELSE IF j \in inflight[k].batch /\ inflight[j] # None
          THEN [inflight[j] EXCEPT !.batch = @ \ {k}]
          ELSE inflight[j]]
    /\ dirty' = dirty + 1
    /\ UNCHANGED <<changes, at, next, refcnt, closed, ckpt, client, crashes, dvars,
                   persisted, since, seq, seen>>

\* The rest of the batch goes to the device in one write_buffers.
Submit(k) ==
    /\ inflight[k] # None /\ ~inflight[k].writing
    /\ inflight' = [j \in Keys |->
          IF j \in inflight[k].batch THEN [inflight[j] EXCEPT !.writing = TRUE]
          ELSE inflight[j]]
    /\ UNCHANGED <<changes, at, free, next, refcnt, closed, ckpt, client, crashes, failures,
                   dvars, mvars>>

\* What an interrupted write of key k may leave in a slot that held old: header,
\* then payload; io_uring submits both at once, so the payload may be there first.
\* None stands for a mixture of two. A key names the content of its payload, so
\* a payload mixed with itself is none.
PartialSlot(k, old) ==
    LET bodies == {old.body, k} \cup (IF old.body = k THEN {} ELSE {None})
    IN {old, [hdr |-> None, body |-> old.body]}
         \cup [hdr : {k}, body : bodies]
         \cup (IF engine = "posix" THEN {} ELSE [hdr : {old.hdr}, body : bodies])

Writing == {k \in Keys : inflight[k] # None /\ inflight[k].writing}

\* The device after the writes of the keys in K were interrupted.
PartialSlots(K) ==
    LET keyOf(s) == CHOOSE k \in K : inflight[k].slot = s
        hit == {inflight[k].slot : k \in K}
    IN {d \in [Slots -> UNION {PartialSlot(k, slots[inflight[k].slot]) : k \in K}
                          \cup {slots[s] : s \in Slots}] :
          \A s \in Slots :
             IF s \in hit THEN d[s] \in PartialSlot(keyOf(s), slots[s])
             ELSE d[s] = slots[s]}

Torn(K, d) ==
    [s \in Slots |-> IF d[s] = slots[s] THEN torn[s]
                     ELSE CHOOSE k \in K : inflight[k].slot = s]

\* A plausible slip: a canceled write keeps its slot.
CommitMutant(k) ==
    /\ k \in Writing
    /\ LET B == inflight[k].batch
           kept == {j \in B : ~inflight[j].canceled}
       IN /\ slots' = [s \in Slots |->
                IF \E j \in B : inflight[j].slot = s
                THEN LET j == CHOOSE j \in B : inflight[j].slot = s
                     IN [hdr |-> j, body |-> j]
                ELSE slots[s]]
          /\ torn' = [s \in Slots |-> IF \E j \in B : inflight[j].slot = s THEN None ELSE torn[s]]
          /\ at' = [j \in Keys |-> IF j \in kept THEN inflight[j].slot ELSE at[j]]
          /\ free' = free
          /\ inflight' = [j \in Keys |-> IF j \in B THEN None ELSE inflight[j]]
          /\ dirty' = dirty + Cardinality(B)
    /\ UNCHANGED <<changes, next, refcnt, closed, ckpt, client, crashes, failures, engine, meta,
                   persisted, since, seq, seen>>

\* put_many after the write: under the lock, a batch that reached the device is
\* indexed, except for the keys deleted meanwhile; their slots are freed.
Commit(k) ==
    /\ k \in Writing
    /\ LET B == inflight[k].batch
           kept == {j \in B : ~inflight[j].canceled}
       IN /\ slots' = [s \in Slots |->
                IF \E j \in B : inflight[j].slot = s
                THEN LET j == CHOOSE j \in B : inflight[j].slot = s
                     IN [hdr |-> j, body |-> j]
                ELSE slots[s]]
          /\ torn' = [s \in Slots |-> IF \E j \in B : inflight[j].slot = s THEN None ELSE torn[s]]
          /\ at' = [j \in Keys |-> IF j \in kept THEN inflight[j].slot ELSE at[j]]
          /\ free' = free \cup {inflight[j].slot : j \in B \ kept}
          /\ inflight' = [j \in Keys |-> IF j \in B THEN None ELSE inflight[j]]
          /\ dirty' = dirty + Cardinality(B)
    /\ UNCHANGED <<changes, next, refcnt, closed, ckpt, client, crashes, failures, engine, meta,
                   persisted, since, seq, seen>>

\* A failed write rolls back every key submitted with it.
WriteFails(k) ==
    /\ k \in Writing
    /\ failures < MaxFailures /\ failures' = failures + 1
    /\ LET B == inflight[k].batch
       IN \E d \in PartialSlots(B) :
            /\ slots' = d
            /\ torn' = Torn(B, d)
            /\ free' = free \cup {inflight[j].slot : j \in B}
            /\ inflight' = [j \in Keys |-> IF j \in B THEN None ELSE inflight[j]]
            /\ dirty' = dirty + Cardinality(B)
    /\ UNCHANGED <<changes, at, next, refcnt, closed, ckpt, client, crashes, engine, meta,
                   persisted, since, seq, seen>>

\* A plausible slip: the lock is not looked at.
DeleteMutant(k) ==
    /\ ~closed /\ k \in Indexed \cup Inflight
    /\ changes < MaxChanges /\ changes' = changes + 1
    /\ at' = [at EXCEPT ![k] = None]
    /\ inflight' = IF inflight[k] = None THEN inflight
                   ELSE [inflight EXCEPT ![k].canceled = TRUE]
    /\ refcnt' = [refcnt EXCEPT ![k] = 0]
    /\ free' = IF at[k] # None THEN free \cup {at[k]} ELSE free
    /\ dirty' = IF at[k] # None THEN dirty + 1 ELSE dirty
    /\ UNCHANGED <<next, closed, ckpt, client, crashes, failures, dvars,
                   persisted, since, seq, seen>>

\* delete_many of one key: refused while it is locked; a write in flight is
\* canceled and gives its slot back when it ends.
Delete(k) ==
    /\ ~closed /\ k \in Indexed \cup Inflight
    /\ ~(at[k] # None /\ refcnt[k] > 0)
    /\ changes < MaxChanges /\ changes' = changes + 1
    /\ at' = [at EXCEPT ![k] = None]
    /\ inflight' = IF inflight[k] = None THEN inflight
                   ELSE [inflight EXCEPT ![k].canceled = TRUE]
    /\ refcnt' = [refcnt EXCEPT ![k] = 0]
    /\ free' = IF at[k] # None THEN free \cup {at[k]} ELSE free
    /\ dirty' = IF at[k] # None THEN dirty + 1 ELSE dirty
    /\ UNCHANGED <<next, closed, ckpt, client, crashes, failures, dvars,
                   persisted, since, seq, seen>>

----------------------------------------------------------------------------
\* A prefetch: lookup-and-lock, load under the lock, unlock.

\* exists_many(lock=True) on a hit.
LookupAndLock(c, k) ==
    /\ ~closed /\ client[c] = NoClient /\ at[k] # None
    /\ refcnt' = [refcnt EXCEPT ![k] = @ + 1]
    /\ client' = [client EXCEPT ![c] = [pc |-> "locked", key |-> k]]
    /\ UNCHANGED <<changes, at, inflight, free, next, closed, ckpt, crashes, failures, dvars, mvars>>

\* load_many_into reads the entry under the lock and the device after it.
StartLoad(c) ==
    /\ ~closed /\ client[c].pc = "locked"
    /\ at[client[c].key] # None
    /\ client' = [client EXCEPT ![c] =
          [pc |-> "loading", key |-> client[c].key, slot |-> at[client[c].key]]]
    /\ UNCHANGED <<changes, at, inflight, free, next, refcnt, closed, ckpt, crashes, failures,
                   dvars, mvars>>

FinishLoad(c) ==
    /\ client[c].pc = "loading"
    /\ client' = [client EXCEPT ![c] = [pc |-> "locked", key |-> client[c].key]]
    /\ UNCHANGED <<changes, at, inflight, free, next, refcnt, closed, ckpt, crashes, failures,
                   dvars, mvars>>

\* unlock_many, after the load or without one.
Unlock(c) ==
    /\ client[c].pc = "locked"
    /\ refcnt' = [refcnt EXCEPT ![client[c].key] = IF @ <= 1 THEN 0 ELSE @ - 1]
    /\ client' = [client EXCEPT ![c] = NoClient]
    /\ UNCHANGED <<changes, at, inflight, free, next, closed, ckpt, crashes, failures, dvars, mvars>>

----------------------------------------------------------------------------
\* Checkpoints. The loop waits a whole interval between two checks, so a
\* dirty_since that an earlier check set is overdue at the next one.

\* _inflight_io_count > 0
IoInProgress == Writing # {} \/ \E c \in Clients : client[c].pc = "loading"

\* A plausible slip: a checkpoint always waits for a quiet device.
CheckMutant(force) ==
    /\ ckpt.pc = "idle"
    /\ force <=> closed
    /\ \E quiet \in BOOLEAN :
         /\ quiet => ~IoInProgress
         /\ ckpt' = IF dirty > persisted /\ (force \/ quiet)
                    THEN [pc |-> "snapshot"]
                    ELSE IF force THEN [pc |-> "closed"] ELSE NoCkpt
    /\ since' = (dirty > persisted)
    /\ seen' = [old |-> seen.new, new |-> dirty]
    /\ UNCHANGED <<changes, at, inflight, free, next, refcnt, closed, client, crashes, failures,
                   dvars, dirty, persisted, seq>>

\* _checkpoint_once up to its decision. The quiet time since the last I/O may or
\* may not have passed.
Check(force) ==
    /\ ckpt.pc = "idle"
    /\ force <=> closed
    /\ \E quiet \in BOOLEAN :
         /\ quiet => ~IoInProgress
         /\ ckpt' = IF dirty > persisted /\ (force \/ quiet \/ since)
                    THEN [pc |-> "snapshot"]
                    ELSE IF force THEN [pc |-> "closed"] ELSE NoCkpt
    /\ since' = (dirty > persisted)
    /\ seen' = [old |-> seen.new, new |-> dirty]
    /\ UNCHANGED <<changes, at, inflight, free, next, refcnt, closed, client, crashes, failures,
                   dvars, dirty, persisted, seq>>

\* After a checkpoint the loop waits again; close() goes on to close the device.
AfterCheckpoint == IF closed THEN [pc |-> "closed"] ELSE NoCkpt

\* _snapshot_state
TakeSnapshot ==
    /\ ckpt.pc = "snapshot"
    /\ ckpt' = [pc |-> "write", snap |-> Snapshot, mark |-> dirty]
    /\ UNCHANGED <<changes, at, inflight, free, next, refcnt, closed, client, crashes,
                   failures, dvars, mvars>>

\* _write_checkpoint gives up on entries that do not fit a container.
TooLarge ==
    /\ ckpt.pc = "write" /\ \E k \in Keys : ckpt.snap.at[k] # None
    /\ failures < MaxFailures /\ failures' = failures + 1
    /\ ckpt' = AfterCheckpoint
    /\ UNCHANGED <<changes, at, inflight, free, next, refcnt, closed, client, crashes,
                   dvars, mvars>>

\* A plausible slip: every checkpoint goes to the first container.
TargetMutant == 0

\* The container the next checkpoint overwrites: the two take turns.
Target == seq % 2

Checkpoint(snap, mark) == [seq |-> seq + 1, crc |-> snap, pay |-> snap, mark |-> mark]

\* What an interrupted _write_checkpoint may leave in a container that held old:
\* payload, then header, or with io_uring in any order.
PartialContainer(snap, mark, old) ==
    {old, Checkpoint(snap, mark), [Blank EXCEPT !.pay = snap]}
      \cup {[old EXCEPT !.pay = p] : p \in {snap, TornSnapshot}}
      \cup (IF engine = "posix" THEN {}
            ELSE {[Checkpoint(snap, mark) EXCEPT !.pay = p] : p \in {old.pay, TornSnapshot}})

PartialMeta ==
    IF ckpt.pc # "write" THEN {meta}
    ELSE {[meta EXCEPT ![Target] = m] :
             m \in PartialContainer(ckpt.snap, ckpt.mark, meta[Target])}

\* _write_checkpoint, and the new dirty_since.
WriteCheckpoint ==
    /\ ckpt.pc = "write"
    /\ meta' = [meta EXCEPT ![Target] = Checkpoint(ckpt.snap, ckpt.mark)]
    /\ seq' = seq + 1
    /\ persisted' = Max({persisted, ckpt.mark})
    /\ since' = TRUE
    /\ ckpt' = AfterCheckpoint
    /\ UNCHANGED <<changes, at, inflight, free, next, refcnt, closed, client, crashes, failures,
                   engine, slots, torn, dirty, seen>>

\* A device error: the loop logs it, close() goes on.
CheckpointFails ==
    /\ ckpt.pc = "write"
    /\ failures < MaxFailures /\ failures' = failures + 1
    /\ meta' \in PartialMeta
    /\ ckpt' = AfterCheckpoint
    /\ UNCHANGED <<changes, at, inflight, free, next, refcnt, closed, client, crashes,
                   engine, slots, torn, mvars>>

----------------------------------------------------------------------------
\* Stopping and starting.

\* The adapter drains its worker pools, then the core stops the loop, joins it
\* and writes a last checkpoint (Check with force).
Close ==
    /\ ~closed /\ Inflight = {} /\ ckpt.pc = "idle"
    /\ \A c \in Clients : client[c].pc # "loading"
    /\ closed' = TRUE
    /\ UNCHANGED <<changes, at, inflight, free, next, refcnt, ckpt, client, crashes, failures,
                   dvars, mvars>>

\* _read_meta_header and _load_meta_payload: the header is one and the CRC of the
\* payload is the header's.
Valid(m) == m.seq > 0 /\ m.crc = m.pay

\* _select_latest_checkpoint; a device without any starts empty.
Latest(ms) ==
    LET valid == {ms[i] : i \in {i \in 0 .. 1 : Valid(ms[i])}}
    IN IF valid = {}
       THEN [seq |-> 0, pay |-> [at |-> [k \in Keys |-> None], next |-> 0], mark |-> 0]
       ELSE CHOOSE m \in valid : \A n \in valid : n.seq <= m.seq

\* A plausible slip: recovery trusts the checkpoint.
StaleMutant(k, snap, d) == FALSE

\* _is_stale_header: the header is not the one of the entry's key.
Stale(k, snap, d) == snap.at[k] # None /\ d[snap.at[k]].hdr # k

\* __init__ on the device (ms, d): _apply_loaded_state keeps the entries whose
\* header agrees and frees every other slot below next_slot.
Start(ms, d) ==
    LET m == Latest(ms)
        loaded == [k \in Keys |-> IF Stale(k, m.pay, d) THEN None ELSE m.pay.at[k]]
    IN /\ slots' = d /\ meta' = ms
       /\ at' = loaded /\ next' = m.pay.next
       /\ free' = {s \in 0 .. m.pay.next - 1 : \A k \in Keys : loaded[k] # s}
       /\ dirty' = IF loaded = m.pay.at THEN 0 ELSE 1
       /\ persisted' = 0 /\ since' = FALSE /\ seq' = m.seq
       /\ seen' = [old |-> 0, new |-> 0]
       /\ inflight' = [k \in Keys |-> None] /\ refcnt' = [k \in Keys |-> 0]
       /\ client' = [c \in Clients |-> NoClient]
       /\ closed' = FALSE /\ ckpt' = NoCkpt

\* The process dies with its writes under way and is started again.
Crash ==
    /\ crashes < MaxCrashes /\ crashes' = crashes + 1
    /\ \E d \in PartialSlots(Writing), ms \in PartialMeta :
         /\ Start(ms, d)
         /\ torn' = Torn(Writing, d)
    /\ UNCHANGED <<changes, failures, engine>>

\* A process that closed is started again.
Restart ==
    /\ ckpt.pc = "closed"
    /\ crashes < MaxCrashes /\ crashes' = crashes + 1
    /\ Start(meta, slots)
    /\ UNCHANGED <<changes, failures, engine, torn>>

Next ==
    \/ \E K \in Batches : Reserve(K)
    \/ \E k \in Keys :
         \/ PrepareFails(k) \/ Submit(k) \/ Commit(k) \/ WriteFails(k) \/ Delete(k)
         \/ \E c \in Clients : LookupAndLock(c, k)
    \/ \E c \in Clients : StartLoad(c) \/ FinishLoad(c) \/ Unlock(c)
    \/ \E force \in BOOLEAN : Check(force)
    \/ TakeSnapshot \/ TooLarge \/ WriteCheckpoint \/ CheckpointFails
    \/ Close \/ Crash \/ Restart

Spec == Init /\ [][Next]_vars

----------------------------------------------------------------------------
\* Properties.

\* Slot accounting (_allocate_slot_locked, _append_free_slot_locked, the commit
\* and rollback sections of put_many, delete_many, _apply_loaded_state): every slot
\* below _next_slot is in exactly one of _index, _inflight and _free_slots, and
\* no two keys share one. Neither a crash nor a failed write leaks a slot.
SlotPartition ==
    LET used == {at[k] : k \in Indexed}
        taken == {inflight[k].slot : k \in Inflight}
    IN /\ used \cup taken \cup free = 0 .. next - 1
       /\ used \cap taken = {} /\ used \cap free = {} /\ taken \cap free = {}
       /\ \A j, k \in Indexed : at[j] = at[k] => j = k
       /\ \A j, k \in Inflight : inflight[j].slot = inflight[k].slot => j = k

\* A load under a lock reads the payload of its own key (exists_many, delete_many,
\* load_many_into): no write to that slot is under way, whatever was deleted and
\* stored since the lookup.
LoadReadsOwn ==
    \A c \in Clients : client[c].pc = "loading" =>
        /\ \A k \in Writing : inflight[k].slot # client[c].slot
        /\ \/ slots[client[c].slot].body = client[c].key
           \/ torn[client[c].slot] # None

\* What is served after a restart is what was stored (_validate_loaded_entries):
\* the slot of an indexed key holds that key's payload. The header does not vouch
\* for the payload, so a store that was interrupted in that slot is an exception:
\* of the same key with POSIX I/O, of any key with io_uring, which may write the
\* payload before the header.
IndexedIsIntact ==
    \A k \in Indexed :
        /\ slots[at[k]].hdr = k
        /\ \/ slots[at[k]].body = k
           \/ torn[at[k]] = k
           \/ engine = "io_uring" /\ torn[at[k]] # None

\* The same without the exceptions: recovery never serves another key's payload.
IndexedIsOwn == \A k \in Indexed : slots[at[k]] = [hdr |-> k, body |-> k]

\* Whenever the process dies, in the middle of a checkpoint included, the newest
\* valid container holds every change _meta_persisted counts, and the whole index
\* when the metadata is not dirty (_write_checkpoint, _select_latest_checkpoint):
\* so the last checkpoint of close() loses nothing.
PersistedIsOnDevice ==
    \A ms \in PartialMeta :
        /\ Latest(ms).mark >= persisted
        /\ Latest(ms).seq >= seq
        /\ dirty = persisted => Latest(ms).pay.at = at

\* Steady traffic cannot hold a checkpoint off (_checkpoint_once, its overdue rule):
\* unless a checkpoint failed, what was dirty two checks of the loop ago is
\* persisted once the last check is over.
OneExtraInterval ==
    ckpt.pc = "idle" /\ failures = 0 => persisted >= seen.old
=============================================================================
