--------------------------- MODULE StoreController ---------------------------
(***************************************************************************)
(* The store controller (storage_controllers/store_controller.py): one     *)
(* thread that copies every object written to L1 to the L2 adapters.  It   *)
(* sleeps in poll() on event fds, an L1 listener and the adapters signal   *)
(* it, and it calls L1Manager like any other client.                       *)
(*                                                                         *)
(* The loop is cut where another thread can get in between: at each event  *)
(* fd, at each call of L1Manager and at each call of an adapter.  An event *)
(* fd is the fact that it is readable.  Around it run a writer, a reader,  *)
(* eviction, the adapters and StorageManager's add/remove of adapters.     *)
(***************************************************************************)
EXTENDS L1Manager

CONSTANTS Adapters,    \* adapter ids
          Initial,     \* the adapters of the configuration
          Removable,   \* the adapters delete_l2_adapter may be called for
          MaxTries,    \* bound: delete_l2_adapter calls per adapter
          TaskIds,     \* task ids of an adapter, enough for the tasks it can have
          WriteTag,    \* the tag of the engine's writes
          DeletesL1,   \* select_l1_deletions: skip_l1 deletes, default keeps
          MayFail,     \* whether submit_store_task may raise and a store may fail
          MayStop      \* whether stop() is called

VARIABLES
    pending, wake,      \* StoreListener: _pending_keys, its event fd
    ops,                \* _pending_adapter_ops
    attached, draining, \* _l2_adapters; _draining: whose call each adapter drains for
    inFlight,           \* _in_flight_tasks: [adapter][task], the keys and the result
    deferred,           \* _deferred_l1_deletions
    pc, loc,            \* where the loop is, and its local variables
    job, jobFd,         \* the adapters: stores under way or completed, store event fd
    tries, waiting,     \* delete_l2_adapter: calls so far; the call that waits, 0 or Answered
    reading,            \* the keys another reader has read-locked
    l2,                 \* the keys some adapter has stored
    stored              \* the keys whose latest object some adapter has stored

queue == <<pending, wake>>
route == <<ops, attached, draining, tries, waiting>>
tasks == <<inFlight, job>>
clients == <<reading, l2, stored>>
svars == <<vars, queue, route, tasks, jobFd, deferred, pc, loc, clients>>

\* An entry of _in_flight_tasks, an adapter's store, a store being submitted.
BufMaps == UNION {[K -> Bufs] : K \in SUBSET Keys}
Tasks == [keys : SUBSET Keys, result : {"none", "ok", "failed"}]
Jobs == [bufs : BufMaps, st : {"running", "ok", "failed"}]
Stores == [id : Adapters, bufs : BufMaps]

\* The fds to handle, the adapters signaled, the stores to submit, the store
\* being submitted (its objects are read-locked), the keys to delete from L1.
NoLocals == [ready |-> {}, signaled |-> {}, todo |-> {}, cur |-> None, del |-> {}]

Listener == "listener"
Answered == -1
NoTasks == [a \in Adapters |-> [i \in TaskIds |-> None]]

ASSUME StoreAssumption ==
    /\ WriteTag \in Tags /\ 1 \in Sizes
    /\ Initial \subseteq Adapters /\ Listener \notin Adapters
    /\ IsFiniteSet(Adapters) /\ IsFiniteSet(TaskIds)
    /\ None \notin Tasks \cup Jobs \cup Stores

SInit ==
    /\ Init
    /\ pending = {} /\ wake = FALSE
    /\ ops = {} /\ attached = Initial /\ draining = [a \in Adapters |-> 0]
    /\ inFlight = NoTasks /\ deferred = {}
    /\ pc = "ops" /\ loc = NoLocals
    /\ job = NoTasks /\ jobFd = [a \in Adapters |-> FALSE]
    /\ tries = [a \in Adapters |-> 0] /\ waiting = [a \in Adapters |-> 0]
    /\ reading = {} /\ l2 = {} /\ stored = {}

InUse(a) == \E i \in TaskIds : inFlight[a][i] # None
Draining(a) == draining[a] # 0

\* A step of the loop from one label to another.
Step(from, to) == pc = from /\ pc' = to

----------------------------------------------------------------------------
\* The loop: adapter operations, then poll()

\* _apply_pending_adapter_ops: draining[a] is the last call asking for it; a
\* call for an adapter that is gone is answered at once.
ApplyOps ==
    LET Added == {o.id : o \in {p \in ops : p.call = 0}}
        Calls(a) == {o.call : o \in {p \in ops : p.id = a /\ p.call # 0}} IN
    /\ Step("ops", "poll")
    /\ ops' = {}
    /\ attached' = attached \cup Added
    /\ draining' = [a \in Adapters |->
                       IF a \in attached' /\ Calls(a) # {} THEN Max(Calls(a)) ELSE draining[a]]
    /\ waiting' = [a \in Adapters |->
                       IF a \notin attached' /\ waiting[a] \in Calls(a) THEN Answered ELSE waiting[a]]
    /\ UNCHANGED <<vars, queue, tasks, jobFd, deferred, loc, tries, clients>>

\* poll() returns what is readable, or nothing after its timeout.
Poll ==
    /\ Step("poll", "fds")
    /\ loc' = [NoLocals EXCEPT !.ready = (IF wake THEN {Listener} ELSE {})
                                         \cup {a \in attached : jobFd[a]}]
    /\ UNCHANGED <<vars, queue, route, tasks, jobFd, deferred, clients>>

ConsumeListener ==
    /\ Step("fds", "pop") /\ Listener \in loc.ready
    /\ loc' = [loc EXCEPT !.ready = @ \ {Listener}]
    /\ wake' = FALSE
    /\ UNCHANGED <<vars, pending, route, tasks, jobFd, deferred, clients>>

\* Mutation: the event fd is consumed but the adapter not looked at.
ConsumeAdapterMutant(a) ==
    /\ Step("fds", "fds") /\ a \in loc.ready
    /\ loc' = [loc EXCEPT !.ready = @ \ {a}]
    /\ jobFd' = [jobFd EXCEPT ![a] = FALSE]
    /\ UNCHANGED <<vars, queue, route, tasks, deferred, clients>>

ConsumeAdapter(a) ==
    /\ Step("fds", "fds") /\ a \in loc.ready
    /\ loc' = [loc EXCEPT !.ready = @ \ {a}, !.signaled = @ \cup {a}]
    /\ jobFd' = [jobFd EXCEPT ![a] = FALSE]
    /\ UNCHANGED <<vars, queue, route, tasks, deferred, clients>>

FdsHandled ==
    /\ Step("fds", IF loc.signaled = {} THEN "detach" ELSE "drain")
    /\ loc.ready = {}
    /\ UNCHANGED <<vars, queue, route, tasks, jobFd, deferred, loc, clients>>

----------------------------------------------------------------------------
\* New keys

\* Mutation: nothing is stored while some adapter drains.
TargetsMutant == IF \E a \in attached : Draining(a) THEN {} ELSE attached

\* select_store_targets: every key to every adapter that is not draining.
Targets == {a \in attached : ~Draining(a)}

\* pop_pending_keys and _process_new_keys up to the first submission.
PopPending ==
    /\ Step("pop", "submit")
    /\ pending' = {}
    /\ deferred' = deferred \ pending
    /\ loc' = [loc EXCEPT !.todo = {[id |-> a, keys |-> pending] : a \in Targets}]
    /\ UNCHANGED <<vars, wake, route, tasks, jobFd, clients>>

\* Mutation: the objects are looked up without a read lock.
ReserveForStoreMutant(s) ==
    LET found == {k \in s.keys : IsResident(k)} IN
    /\ Step("submit", IF found = {} THEN "submit" ELSE "hand")
    /\ s \in loc.todo
    /\ loc' = [loc EXCEPT !.todo = @ \ {s},
                          !.cur = IF found = {} THEN None
                                  ELSE [id |-> s.id, bufs |-> [k \in found |-> objects[k].buf]]]
    /\ UNCHANGED <<vars, queue, route, tasks, jobFd, deferred, clients>>

\* reserve_read for one adapter: keys that are gone are skipped.
ReserveForStore(s) ==
    LET found == {k \in s.keys : IsResident(k)} IN
    /\ Step("submit", IF found = {} THEN "submit" ELSE "hand")
    /\ s \in loc.todo
    /\ IF found = {} THEN UNCHANGED vars ELSE ReserveRead(found, 1)
    /\ loc' = [loc EXCEPT !.todo = @ \ {s},
                          !.cur = IF found = {} THEN None
                                  ELSE [id |-> s.id, bufs |-> [k \in found |-> objects[k].buf]]]
    /\ UNCHANGED <<queue, route, tasks, jobFd, deferred, clients>>

FreeIds(a) == {i \in TaskIds : job[a][i] = None /\ inFlight[a][i] = None}

\* submit_store_task; the task id is fresh for the adapter and the controller
\* (bound: TaskIds).
SubmitStore ==
    LET a == loc.cur.id IN
    /\ Step("hand", "submit")
    /\ \E i \in FreeIds(a) :
         /\ \A j \in FreeIds(a) : i <= j
         /\ job' = [job EXCEPT ![a][i] = [bufs |-> loc.cur.bufs, st |-> "running"]]
         /\ inFlight' = [inFlight EXCEPT ![a][i] = [keys |-> DOMAIN loc.cur.bufs, result |-> "none"]]
    /\ loc' = [loc EXCEPT !.cur = None]
    /\ UNCHANGED <<vars, queue, route, jobFd, deferred, clients>>

\* Mutation: the read locks are kept when submit_store_task raises.
SubmitRaisesMutant ==
    /\ MayFail /\ Step("hand", "submit")
    /\ loc' = [loc EXCEPT !.cur = None]
    /\ UNCHANGED <<vars, queue, route, tasks, jobFd, deferred, clients>>

SubmitRaises ==
    /\ MayFail /\ Step("hand", "submit")
    /\ FinishRead(DOMAIN loc.cur.bufs, 1)
    /\ loc' = [loc EXCEPT !.cur = None]
    /\ UNCHANGED <<queue, route, tasks, jobFd, deferred, clients>>

Submitted ==
    /\ Step("submit", "fds") /\ loc.todo = {}
    /\ UNCHANGED <<vars, queue, route, tasks, jobFd, deferred, loc, clients>>

----------------------------------------------------------------------------
\* Completions

Completed(a) == {i \in TaskIds : job[a][i] # None /\ job[a][i].st # "running"}

\* _drain_l2_store_completions for one adapter (pop_completed_store_tasks).
Drain(a) ==
    /\ Step("drain", IF loc.signaled = {a} THEN "advance" ELSE "drain")
    /\ a \in loc.signaled
    /\ loc' = [loc EXCEPT !.signaled = @ \ {a}]
    /\ inFlight' = [inFlight EXCEPT ![a] = [i \in TaskIds |->
                       IF i \in Completed(a) THEN [@[i] EXCEPT !.result = job[a][i].st] ELSE @[i]]]
    /\ job' = [job EXCEPT ![a] = [i \in TaskIds |-> IF i \in Completed(a) THEN None ELSE @[i]]]
    /\ UNCHANGED <<vars, queue, route, jobFd, deferred, clients>>

Resolved(a, i) == inFlight[a][i] # None /\ inFlight[a][i].result # "none"

\* Mutation: select_l1_deletions is consulted for failed stores too.
FinalizeStoreMutant(a, i) ==
    /\ Step("advance", IF DeletesL1 THEN "delete" ELSE "advance")
    /\ Resolved(a, i)
    /\ FinishRead(inFlight[a][i].keys, 1)
    /\ inFlight' = [inFlight EXCEPT ![a][i] = None]
    /\ loc' = [loc EXCEPT !.del = IF DeletesL1 THEN inFlight[a][i].keys ELSE {}]
    /\ UNCHANGED <<queue, route, job, jobFd, deferred, clients>>

\* _finalize_store up to the deletion from L1.
FinalizeStore(a, i) ==
    LET del == IF DeletesL1 /\ inFlight[a][i].result = "ok" THEN inFlight[a][i].keys ELSE {} IN
    /\ Resolved(a, i)
    /\ Step("advance", IF del = {} THEN "advance" ELSE "delete")
    /\ FinishRead(inFlight[a][i].keys, 1)
    /\ inFlight' = [inFlight EXCEPT ![a][i] = None]
    /\ loc' = [loc EXCEPT !.del = del]
    /\ UNCHANGED <<queue, route, job, jobFd, deferred, clients>>

Advanced ==
    /\ Step("advance", "detach")
    /\ ~\E a \in Adapters, i \in TaskIds : Resolved(a, i)
    /\ UNCHANGED <<vars, queue, route, tasks, jobFd, deferred, loc, clients>>

\* Mutation: a refused deletion is not retried.
DeleteFromL1Mutant(K) ==
    /\ Delete(K, FALSE)
    /\ deferred' = deferred \ K

\* _delete_from_l1(K): KEY_IS_LOCKED, for a key that is still there, defers it.
DeleteFromL1(K) ==
    /\ Delete(K, FALSE)
    /\ deferred' = (deferred \ K) \cup {k \in K : (IsResident(k) \/ IsStagedByAny(k))'}

DeleteStored ==
    /\ Step("delete", "advance")
    /\ DeleteFromL1(loc.del)
    /\ loc' = [loc EXCEPT !.del = {}]
    /\ UNCHANGED <<queue, route, tasks, jobFd, clients>>

\* Mutation: a draining adapter is detached with tasks in flight.
DetachDrainedMutant ==
    /\ Step("detach", "retry")
    /\ attached' = {a \in attached : ~Draining(a)}
    /\ draining' = [a \in Adapters |-> 0]
    /\ waiting' = [a \in Adapters |-> IF Draining(a) /\ waiting[a] = draining[a] THEN Answered ELSE waiting[a]]
    /\ UNCHANGED <<vars, queue, ops, tries, tasks, jobFd, deferred, loc, clients>>

\* _finalize_drained_adapters
DetachDrained ==
    LET drained == {a \in attached : Draining(a) /\ ~InUse(a)} IN
    /\ Step("detach", "retry")
    /\ attached' = attached \ drained
    /\ draining' = [a \in Adapters |-> IF a \in drained THEN 0 ELSE draining[a]]
    /\ waiting' = [a \in Adapters |-> IF a \in drained /\ waiting[a] = draining[a] THEN Answered ELSE waiting[a]]
    /\ UNCHANGED <<vars, queue, ops, tries, tasks, jobFd, deferred, loc, clients>>

\* _retry_deferred_l1_deletions when the poll interval has passed ...
RetryDeferred ==
    /\ Step("retry", "ops")
    /\ deferred # {}
    /\ DeleteFromL1(deferred)
    /\ UNCHANGED <<queue, route, tasks, jobFd, loc, clients>>

\* ... and when it has not, or nothing is deferred.
SkipRetry ==
    /\ Step("retry", "ops")
    /\ UNCHANGED <<vars, queue, route, tasks, jobFd, deferred, loc, clients>>

\* stop(): the loop leaves at its head and _cleanup_in_flight_tasks releases
\* the locks task by task, the adapters' stores still running.
Stop ==
    /\ MayStop /\ Step("ops", "stopped")
    /\ UNCHANGED <<vars, queue, route, tasks, jobFd, deferred, loc, clients>>

CleanUpTask(a, i) ==
    /\ Step("stopped", "stopped")
    /\ inFlight[a][i] # None
    /\ FinishRead(inFlight[a][i].keys, 1)
    /\ inFlight' = [inFlight EXCEPT ![a][i] = None]
    /\ UNCHANGED <<queue, route, job, jobFd, deferred, loc, clients>>

----------------------------------------------------------------------------
\* The other threads

Idle == UNCHANGED <<ops, attached, draining, tries, waiting, inFlight, deferred, pc, loc>>

BeginWrite(k) ==
    /\ k \in NeedToAllocate({k}, WriteTag) \cup HandedOver({k}, WriteTag)
    /\ ReserveWrite({k}, {}, WriteTag, 1)
    /\ Idle /\ UNCHANGED <<queue, job, jobFd, clients>>

\* finish_write and, under its lock, on_l1_keys_write_finished.
EndWrite(k) ==
    /\ IsLive(k, WriteTag)
    /\ FinishWrite({k}, WriteTag)
    /\ pending' = pending \cup {k} /\ wake' = TRUE
    /\ stored' = stored \ {k}
    /\ Idle /\ UNCHANGED <<job, jobFd, reading, l2>>

BeginRead(k) ==
    /\ k \notin reading /\ IsResident(k)
    /\ ReserveRead({k}, 1)
    /\ reading' = reading \cup {k}
    /\ Idle /\ UNCHANGED <<queue, job, jobFd, l2, stored>>

EndRead(k) ==
    /\ k \in reading
    /\ FinishRead({k}, 1)
    /\ reading' = reading \ {k}
    /\ Idle /\ UNCHANGED <<queue, job, jobFd, l2, stored>>

Evict(k) ==
    /\ IsResident(k) /\ ~ReadLocked(k)
    /\ Delete({k}, FALSE)
    /\ Idle /\ UNCHANGED <<queue, job, jobFd, clients>>

\* An adapter completes a task and signals its store event fd.
CompleteJob(a, i) ==
    /\ job[a][i] # None /\ job[a][i].st = "running"
    /\ \E st \in IF MayFail THEN {"ok", "failed"} ELSE {"ok"} :
          /\ job' = [job EXCEPT ![a][i].st = st]
          /\ l2' = IF st = "ok" THEN l2 \cup DOMAIN job[a][i].bufs ELSE l2
          /\ stored' = IF st = "ok"
                       THEN stored \cup {k \in DOMAIN job[a][i].bufs :
                                            IsResident(k) /\ objects[k].buf = job[a][i].bufs[k]}
                       ELSE stored
    /\ jobFd' = [jobFd EXCEPT ![a] = TRUE]
    /\ UNCHANGED <<vars, queue, route, inFlight, deferred, pc, loc, reading>>

\* add_l2_adapter gives every adapter an id of its own.
RequestAdd(a) ==
    /\ a \notin attached \cup Initial /\ tries[a] = 0 /\ [id |-> a, call |-> 0] \notin ops
    /\ ops' = ops \cup {[id |-> a, call |-> 0]}
    /\ UNCHANGED <<vars, queue, attached, draining, tries, waiting, tasks, jobFd, deferred, pc, loc, clients>>

\* delete_l2_adapter of an active adapter, again after a timeout.
RequestRemove(a) ==
    /\ a \in Removable /\ tries[a] < MaxTries /\ waiting[a] = 0
    /\ a \in attached \/ tries[a] > 0
    /\ tries' = [tries EXCEPT ![a] = @ + 1]
    /\ waiting' = [waiting EXCEPT ![a] = tries'[a]]
    /\ ops' = ops \cup {[id |-> a, call |-> tries'[a]]}
    /\ UNCHANGED <<vars, queue, attached, draining, tasks, jobFd, deferred, pc, loc, clients>>

TimeOut(a) ==
    /\ waiting[a] \in 1 .. MaxTries - 1
    /\ waiting' = [waiting EXCEPT ![a] = 0]
    /\ UNCHANGED <<vars, queue, ops, attached, draining, tries, tasks, jobFd, deferred, pc, loc, clients>>

----------------------------------------------------------------------------

Loop ==
    \/ ApplyOps \/ Poll \/ ConsumeListener \/ FdsHandled \/ PopPending
    \/ \E s \in loc.todo : ReserveForStore(s)
    \/ SubmitStore \/ SubmitRaises \/ Submitted
    \/ \E a \in Adapters : ConsumeAdapter(a) \/ Drain(a) \/ \E i \in TaskIds : FinalizeStore(a, i)
    \/ Advanced \/ DeleteStored \/ DetachDrained \/ RetryDeferred \/ SkipRetry

Shutdown == Stop \/ \E a \in Adapters, i \in TaskIds : CleanUpTask(a, i)

Others ==
    \/ \E k \in Keys : BeginWrite(k) \/ EndWrite(k) \/ BeginRead(k) \/ EndRead(k) \/ Evict(k)
    \/ \E a \in Adapters : \/ RequestAdd(a) \/ RequestRemove(a) \/ TimeOut(a)
                           \/ \E i \in TaskIds : CompleteJob(a, i)

SNext == Loop \/ Shutdown \/ Others

SSpec == SInit /\ [][SNext]_svars

\* The loop's thread runs, the retry interval passes again and again, adapters
\* complete their tasks and readers finish.  Nothing else is owed.
FairSSpec ==
    /\ SSpec
    /\ WF_svars(Loop) /\ SF_svars(RetryDeferred)
    /\ \A a \in Adapters, i \in TaskIds : WF_svars(CompleteJob(a, i))
    /\ \A k \in Keys : WF_svars(EndRead(k))

----------------------------------------------------------------------------
\* Properties

\* The state is well typed; only attached adapters drain, so that detaching one finds it.
TypeOKS ==
    /\ TypeOK
    /\ pending \cup deferred \cup reading \cup l2 \cup stored \subseteq Keys /\ wake \in BOOLEAN
    /\ ops \subseteq [id : Adapters, call : 0 .. MaxTries]
    /\ tries \in [Adapters -> 0 .. MaxTries] /\ waiting \in [Adapters -> Answered .. MaxTries]
    /\ {a \in Adapters : Draining(a)} \subseteq attached /\ attached \subseteq Adapters
    /\ inFlight \in [Adapters -> [TaskIds -> Tasks \cup {None}]]

\* The tasks in flight that store k.
Tracking(k) ==
    {t \in Adapters \X TaskIds : inFlight[t[1]][t[2]] # None /\ k \in inFlight[t[1]][t[2]].keys}

\* The L1 read locks of every object are those of its readers and of the
\* stores the controller tracks or is submitting, one each: no path through
\* submission, completion, failure or shutdown keeps a lock or drops another's.
LockAccounting ==
    \A k \in Keys : IsResident(k) =>
        objects[k].locks =
            Cardinality(Tracking(k))
            + (IF loc.cur # None /\ k \in DOMAIN loc.cur.bufs THEN 1 ELSE 0)
            + (IF k \in reading THEN 1 ELSE 0)

\* While an adapter runs a store, the objects it reads stay in L1, each in the
\* buffer the adapter was given, until the controller shuts down.
StoreReadsStableData ==
    pc # "stopped" =>
        \A a \in Adapters, i \in TaskIds :
            job[a][i] # None /\ job[a][i].st = "running" =>
                \A k \in DOMAIN job[a][i].bufs :
                    IsResident(k) /\ objects[k].buf = job[a][i].bufs[k]

\* An adapter the controller has detached (delete_l2_adapter goes on to close
\* it) runs nothing, owes no completion and is not about to be called.
DetachedIsIdle ==
    \A a \in Adapters \ attached :
        /\ \A i \in TaskIds : inFlight[a][i] = None /\ job[a][i] = None
        /\ a \notin loc.signaled /\ (loc.cur # None => loc.cur.id # a)

\* The controller removes a key from L1 only when some adapter has stored it.
DeletedOnlyWhenStored ==
    [][DeleteStored \/ RetryDeferred =>
          \A k \in Keys : IsResident(k) /\ ~IsResident(k)' => k \in l2]_svars

\* "A rewritten key is deleted again once its own store finishes": a deferred
\* deletion never removes an object that has not been stored itself.
RewrittenIsStoredFirst ==
    [][RetryDeferred =>
          \A k \in Keys : IsResident(k) /\ ~IsResident(k)' => k \in stored]_svars

\* Every object written to L1 is stored, if it stays: no wake-up of the
\* listener or of an adapter is lost.  Under the skip_l1 policy L1 is a write
\* buffer: every object leaves it, at the latest when no reader is left.
WrittenReachesL2 ==
    \A k \in Keys :
        /\ IsResident(k) /\ k \notin stored ~> k \in stored \/ ~IsResident(k)
        /\ DeletesL1 => (IsResident(k) ~> ~IsResident(k) \/ k \in reading)

\* The last delete_l2_adapter call is answered, whichever earlier calls timed
\* out while the adapter was draining.
RemovalIsAnswered ==
    /\ []DetachedIsIdle
    /\ \A a \in Adapters : waiting[a] = MaxTries ~> waiting[a] = Answered
=============================================================================
