----------------------------- MODULE L1Eviction -----------------------------
(***************************************************************************)
(* L1Manager with its eviction: the LRU policy that listens to it          *)
(* (eviction.py, eviction_policy/lru.py) and the loop of                   *)
(* L1EvictionController, a thread of its own.                              *)
(*                                                                         *)
(* Two locks meet here.  A manager method changes the tables and then,     *)
(* still under the manager's lock, tells the policy, which takes the       *)
(* policy's lock: two steps, a method of L1Manager and Notify.  The loop   *)
(* holds the policy's lock while it asks is_key_evictable key by key,      *)
(* without the manager's lock.  Memory is counted in buffers.              *)
(***************************************************************************)
EXTENDS L1Manager, SequencesExt

CONSTANTS Watermark,   \* eviction starts at this many allocated buffers
          Target       \* keys per eviction pass: max(1, len * ratio)

VARIABLES order,    \* _order of the LRU policy: tracked keys, oldest first
          note,     \* what the running manager method has yet to tell the policy
          scan,     \* the loop's pass: keys still to look at, keys picked
          evicting, \* where the loop is: "idle", "scanning", "deleting", "reporting"
          stopped   \* the callers make no further calls

evars == <<order, note, scan, evicting, stopped>>
allvars == <<vars, evars>>

Silent == [created |-> {}, removed |-> {}]
Rest == [todo |-> <<>>, picked |-> <<>>]

Tracked == ToSet(order)
Held(k) == IsResident(k) \/ IsStagedByAny(k)

EInit ==
    /\ Init
    /\ order = <<>> /\ note = Silent /\ scan = Rest
    /\ evicting = "idle" /\ stopped = FALSE

TypeOKE ==
    /\ TypeOK
    /\ Tracked \subseteq Keys /\ IsInjective(order)
    /\ note \in [created : SUBSET Keys, removed : SUBSET Keys]
    /\ ToSet(scan.todo) \cup ToSet(scan.picked) \subseteq Keys
    /\ evicting \in {"idle", "scanning", "deleting", "reporting"} /\ stopped \in BOOLEAN

----------------------------------------------------------------------------
\* The policy

\* on_keys_created(s): each key of s, the last one first, becomes the most recent.
KeysCreated(o, s) == SelectSeq(o, LAMBDA k : k \notin ToSet(s)) \o Reverse(s)

\* on_keys_touched(s): the same for the keys that are tracked.
KeysTouched(o, s) == KeysCreated(o, SelectSeq(s, LAMBDA k : k \in ToSet(o)))

\* on_keys_removed(s)
KeysRemoved(o, S) == SelectSeq(o, LAMBDA k : k \notin S)

PolicyLockFree == evicting # "scanning"
ManagerLockFree == note = Silent

\* The running manager method, the loop's own delete() included, reaches its
\* listeners and returns.
Notify ==
    /\ ~ManagerLockFree
    /\ PolicyLockFree
    /\ \E s \in SetToSeqs(note.created) :
           order' = KeysCreated(KeysRemoved(order, note.removed), s)
    /\ note' = Silent
    /\ evicting' = IF evicting = "reporting" THEN "idle" ELSE evicting
    /\ UNCHANGED <<vars, scan, stopped>>

----------------------------------------------------------------------------
\* The manager's methods and what each tells the policy

\* The method's lock and its callers; the loop is another thread.
Call == ManagerLockFree /\ ~stopped /\ UNCHANGED <<order, scan, evicting, stopped>>

Tell(created, removed) == note' = [created |-> created, removed |-> removed]

CallReserveRead(K, n) == Call /\ ReserveRead(K, n) /\ Tell({}, {})

CallFinishRead(K, n) == Call /\ FinishRead(K, n) /\ Tell({}, DroppedByRead(K, n))

\* A call that only hands reservations over returns before it tells anyone.
CallReserveWrite(K, t, size) ==
    /\ Call
    /\ \E T \in SUBSET K : ReserveWrite(K, T, t, size)
    /\ Tell(IF NeedToAllocate(K, t) = {} THEN {} ELSE NeedToAllocate(K, t) \cup HandedOver(K, t), {})

CallReserveWriteOutOfMemory(K, t) ==
    /\ Call
    /\ \E T \in SUBSET K : ReserveWriteOutOfMemory(K, T, t)
    /\ Tell(HandedOver(K, t), {})

\* Mutation: on_l1_keys_write_finished is not forwarded to the policy.
CallFinishWriteMutant(K, t) == Call /\ FinishWrite(K, t) /\ Tell({}, {})

\* Temporary objects are admitted without a notification.
CallFinishWrite(K, t) ==
    /\ Call
    /\ FinishWrite(K, t)
    /\ Tell({k \in Admitted(K, t) : ~staging[k][t].temp}, {})

CallFinishWriteAndReserveRead(K, n, t) ==
    /\ Call
    /\ FinishWriteAndReserveRead(K, n, t)
    /\ Tell(Admitted(K, t), {})

\* Gone: neither resident nor staged any more.
CallFinishWriteAndDelete(K, t) ==
    /\ Call
    /\ FinishWriteAndDelete(K, t)
    /\ Tell({}, {k \in Taken(K, t) : ~Held(k)'})

\* Mutation: the keys whose last reservation was reclaimed are not reported.
GoneByDeleteMutant(K, force) == Deleted(K, force)

\* The keys delete() reports: objects it removed, and keys whose last
\* reservation it reclaimed.
GoneByDelete(K, force) == Deleted(K, force) \cup {k \in K : ~IsResident(k) /\ Held(k) /\ ~Held(k)'}

CallDelete(K, force) == Call /\ Delete(K, force) /\ Tell({}, GoneByDelete(K, force))

\* clear() reports every object it removed, staged by somebody else or not.
CallClear(force) ==
    /\ Call
    /\ Clear(force)
    /\ Tell({}, Cleared(force) \cup {k \in Keys : Held(k) /\ ~Held(k)'})

\* touch_keys does not take the manager's lock.
CallTouch(K) ==
    /\ ~stopped /\ PolicyLockFree
    /\ \E s \in SetToSeqs(K) : order' = KeysTouched(order, s)
    /\ UNCHANGED <<vars, note, scan, evicting, stopped>>

Stop ==
    /\ ManagerLockFree /\ ~stopped
    /\ stopped' = TRUE
    /\ UNCHANGED <<vars, order, note, scan, evicting>>

----------------------------------------------------------------------------
\* The eviction loop

\* Mutation: abandoned reservations are not evictable.
EvictableMutant(k) == IsResident(k) /\ ~ReadLocked(k)

\* is_key_evictable
Evictable(k) ==
    \/ IsResident(k) /\ ~ReadLocked(k)
    \/ \E t \in Tags : IsStaged(k, t) /\ ~staging[k][t].held

\* get_memory_usage is at the watermark; get_eviction_actions takes the policy's lock.
ScanStart ==
    /\ evicting = "idle"
    /\ Cardinality(allocated) >= Watermark
    /\ evicting' = "scanning"
    /\ scan' = [todo |-> order, picked |-> <<>>]
    /\ UNCHANGED <<vars, order, note, stopped>>

ScanKey ==
    /\ evicting = "scanning" /\ scan.todo # <<>> /\ Len(scan.picked) < Target
    /\ scan' = [todo |-> Tail(scan.todo),
                picked |-> IF Evictable(Head(scan.todo))
                           THEN Append(scan.picked, Head(scan.todo)) ELSE scan.picked]
    /\ UNCHANGED <<vars, order, note, evicting, stopped>>

\* get_eviction_actions returns, releasing the policy's lock.
ScanEnd ==
    /\ evicting = "scanning"
    /\ scan.todo = <<>> \/ Len(scan.picked) = Target
    /\ scan' = [Rest EXCEPT !.picked = scan.picked]
    /\ evicting' = IF scan.picked = <<>> THEN "idle" ELSE "deleting"
    /\ UNCHANGED <<vars, order, note, stopped>>

\* execute_eviction_action: delete() on what was evictable when it was looked at.
EvictDelete ==
    LET K == ToSet(scan.picked) IN
    /\ evicting = "deleting"
    /\ ManagerLockFree
    /\ Delete(K, FALSE)
    /\ Tell({}, GoneByDelete(K, FALSE))
    /\ scan' = Rest
    /\ evicting' = IF note' = Silent THEN "idle" ELSE "reporting"
    /\ UNCHANGED <<order, stopped>>

Evictor == ScanStart \/ ScanKey \/ ScanEnd \/ EvictDelete

----------------------------------------------------------------------------

Expiry ==
    /\ \E k \in Keys : ExpireRead(k) \/ \E t \in Tags : ExpireWrite(k, t)
    /\ UNCHANGED evars

\* A writer narrows a memory object it staged.
Narrow ==
    /\ \E k \in Keys, t \in Tags, size \in Sizes : SetUsedSize(k, t, size)
    /\ UNCHANGED evars

Callers ==
    \/ \E K \in Batches, n \in LockCounts : CallReserveRead(K, n) \/ CallFinishRead(K, n)
    \/ \E K \in Batches, t \in Tags :
          \/ \E size \in Sizes : CallReserveWrite(K, t, size)
          \/ CallReserveWriteOutOfMemory(K, t)
          \/ CallFinishWrite(K, t)
          \/ \E n \in LockCounts : CallFinishWriteAndReserveRead(K, n, t)
          \/ CallFinishWriteAndDelete(K, t)
    \/ \E K \in Batches, force \in BOOLEAN : CallDelete(K, force)
    \/ \E force \in BOOLEAN : CallClear(force)
    \/ \E K \in Batches : CallTouch(K)
    \/ Stop

ENext == Callers \/ Narrow \/ Notify \/ Evictor \/ Expiry

ESpec == EInit /\ [][ENext]_allvars

\* The two threads run, and locks expire; callers need not do anything.  The
\* loop sleeps between two passes, so a method waiting for the policy's lock
\* gets it.
Fairness == SF_allvars(Notify) /\ WF_allvars(Evictor) /\ WF_allvars(Expiry)

FairSpec == ESpec /\ Fairness

----------------------------------------------------------------------------
\* Properties

\* Whenever no method is running, the policy tracks only keys that L1 holds, so
\* the loop never spends a pass on a key that is gone (every path that removes
\* the last object of a key notifies), and it tracks every readable object that
\* is meant to stay, so that each can be evicted (on_l1_keys_write_finished,
\* on_l1_keys_finish_write_and_reserve_read).
PolicyAgreesWithL1 ==
    ManagerLockFree =>
        /\ \A k \in Tracked : Held(k)
        /\ \A k \in Keys : IsResident(k) /\ ~objects[k].temp => k \in Tracked

\* An abandoned reservation is tracked, so that it is "evicted like any unlocked key".
AbandonedIsTracked ==
    ManagerLockFree => \A k \in Keys, t \in Tags :
        IsStaged(k, t) /\ ~staging[k][t].held => k \in Tracked

\* Once the callers have stopped, eviction brings memory below the watermark
\* or has nothing left that the policy tracks: every tracked reservation and
\* object is found and deleted once its lock expired.  (What the policy lost
\* track of stays: AbandonedIsTracked.)
PressureIsRelieved == stopped ~> Cardinality(allocated) < Watermark \/ Tracked = {}
=============================================================================
