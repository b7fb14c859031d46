------------------------- MODULE PrefetchController -------------------------
(***************************************************************************)
(* The prefetch controller (storage_controllers/prefetch_controller.py):   *)
(* one thread that serves prefetch requests.  A request read-locks what L1 *)
(* has, looks up and locks the rest in the L2 adapters, plans, reserves L1 *)
(* buffers under a tag of its own, loads into them, and publishes the      *)
(* cells that are then read-locked in L1 for its consumer.                 *)
(*                                                                         *)
(* The loop is cut at each call of L1Manager and of an adapter that may    *)
(* raise.  All requests are for the same single key group, a key being the *)
(* cell <<1, chunk>> of Fold; "prefix" fetching.                           *)
(***************************************************************************)
EXTENDS L1Manager, Fold

CONSTANTS Requests,   \* also the tags of their L1 reservations
          Adapters,   \* adapter ids, numbers
          Initial,    \* the adapters of the configuration
          Removable,  \* the adapters that may be removed
          Window,     \* sliding window of the key group
          Chunks,     \* number of chunks
          Inflight,   \* inflight_watermark * capacity
          Retained,   \* plan_l1_retention: keep what was loaded
          Locking,    \* lock mode: LOCK or NO_LOCK
          MayRaise,   \* whether the submit calls of the adapters may raise
          MayFail,    \* whether a load may fail for some keys
          MayExpire,  \* whether the TTL of a write lock may pass
          MayStop     \* whether stop() is called

ASSUME PrefetchAssumption ==
    /\ Keys = Grid(<<Window>>, Chunks) /\ Tags = Requests
    /\ Adapters \subseteq Nat /\ Initial \subseteq Adapters /\ Removable \subseteq Initial

VARIABLES
    submissions, wake,    \* _submission_queue and its event fd
    pendingQueue,         \* _pending_queue
    req,                  \* _in_flight_requests
    result,               \* _completed_results: the hit cells
    status,               \* where each request is, from its client's side
    ops,                  \* _pending_adapter_ops: <<kind, adapter>>
    attached, draining,   \* _l2_adapters, _draining
    lookup, load,         \* the adapters' tasks, [request][adapter]
    lookupFd, loadFd,     \* the adapters' event fds
    l2locks,              \* the adapters' lock counts, [adapter][key]
    pc, loc               \* where the loop is, and its local variables

intake == <<submissions, wake, pendingQueue>>
route == <<ops, attached, draining>>
tasks == <<lookup, load>>
fds == <<lookupFd, loadFd>>
outcome == <<result, status>>
pvars == <<vars, intake, req, outcome, route, tasks, fds, l2locks, pc, loc>>

\* The adapters signaled for lookups and for loads, the requests still to
\* advance, the request at hand, the adapters to submit to, the cells to
\* discard, the buffers reserved, the label after planning, after finishing.
NoLocals == [look |-> {}, load |-> {}, todo |-> {}, cur |-> None, subs |-> {},
             drop |-> {}, objs |-> <<>>, then |-> None, back |-> None]

Steps == {"ops", "poll", "advance", "plan", "reserve", "discard", "submit", "drop", "finish",
          "start", "lookup", "detach", "abort", "unread", "cleanup", "stopped"}

\* PrefetchKeyState and the in-flight task tables of a request.
NoState == [l1 |-> {}, l2 |-> <<>>, reserved |-> {}, lookups |-> {}, loads |-> {}]

NoTasks == [r \in Requests |-> [a \in Adapters |-> None]]

PInit ==
    /\ Init
    /\ submissions = <<>> /\ wake = FALSE /\ pendingQueue = <<>>
    /\ req = [r \in Requests |-> None]
    /\ result = [r \in Requests |-> {}] /\ status = [r \in Requests |-> "new"]
    /\ ops = {} /\ attached = Initial /\ draining = {}
    /\ lookup = NoTasks /\ load = NoTasks
    /\ lookupFd = [a \in Adapters |-> FALSE] /\ loadFd = [a \in Adapters |-> FALSE]
    /\ l2locks = [a \in Adapters |-> [k \in Keys |-> 0]]
    /\ pc = "ops" /\ loc = NoLocals

InFlight == {r \in Requests : req[r] # None}
InLookup(r) == req[r].lookups # {}
Step(from, to) == pc = from /\ pc' = to
Cur == req[loc.cur]
SetCur(state) == req' = [req EXCEPT ![loc.cur] = state]

\* submit_unlock of the cells map[a] at each adapter a.
L2Unlock(map) ==
    l2locks' = [a \in Adapters |-> [k \in Keys |->
        IF a \in DOMAIN map /\ k \in map[a] /\ l2locks[a][k] > 0
        THEN l2locks[a][k] - 1 ELSE l2locks[a][k]]]

\* The MapState m - plan.
Minus(m, plan) ==
    [a \in DOMAIN m |-> IF a \in DOMAIN plan THEN m[a] \ plan[a] ELSE m[a]]

\* _is_l2_eligible
Eligible == attached \ draining

----------------------------------------------------------------------------
\* The loop: adapter operations, then poll()

ApplyOps ==
    /\ Step("ops", "poll")
    /\ ops' = {}
    /\ attached' = attached \cup {o[2] : o \in {p \in ops : p[1] = "add"}}
    /\ draining' = draining \cup {o[2] : o \in {p \in ops : p[1] = "remove" /\ p[2] \in attached'}}
    /\ UNCHANGED <<vars, intake, req, outcome, tasks, fds, l2locks, loc>>

\* Mutation: a draining adapter is no longer polled.
PollMutant ==
    LET looked == {a \in Eligible : lookupFd[a]}
        loaded == {a \in Eligible : loadFd[a]} IN
    /\ Step("poll", "advance")
    /\ pendingQueue' = (IF wake THEN pendingQueue \o submissions ELSE pendingQueue)
    /\ submissions' = (IF wake THEN <<>> ELSE submissions)
    /\ wake' = FALSE
    /\ lookupFd' = [a \in Adapters |-> lookupFd[a] /\ a \notin looked]
    /\ loadFd' = [a \in Adapters |-> loadFd[a] /\ a \notin loaded]
    /\ loc' = [NoLocals EXCEPT !.look = looked, !.load = loaded,
                               !.todo = IF looked \cup loaded = {} THEN {} ELSE InFlight]
    /\ UNCHANGED <<vars, req, outcome, route, tasks, l2locks>>

\* poll(), consuming the readable event fds and draining the submission queue.
Poll ==
    LET looked == {a \in attached : lookupFd[a]}
        loaded == {a \in attached : loadFd[a]} IN
    /\ Step("poll", "advance")
    /\ pendingQueue' = (IF wake THEN pendingQueue \o submissions ELSE pendingQueue)
    /\ submissions' = (IF wake THEN <<>> ELSE submissions)
    /\ wake' = FALSE
    /\ lookupFd' = [a \in Adapters |-> lookupFd[a] /\ a \notin looked]
    /\ loadFd' = [a \in Adapters |-> loadFd[a] /\ a \notin loaded]
    /\ loc' = [NoLocals EXCEPT !.look = looked, !.load = loaded,
                               !.todo = IF looked \cup loaded = {} THEN {} ELSE InFlight]
    /\ UNCHANGED <<vars, req, outcome, route, tasks, l2locks>>

----------------------------------------------------------------------------
\* _advance_request

\* _poll_lookup_results: what the signaled adapters found, and locked, joins
\* the locked map; after the last result the request is planned.
PollLookups(r) ==
    LET got == {a \in req[r].lookups \cap loc.look : lookup[r][a].done}
        state == [req[r] EXCEPT
                    !.lookups = @ \ got,
                    !.l2 = [a \in DOMAIN @ \cup got |->
                              IF a \in got THEN lookup[r][a].keys ELSE req[r].l2[a]]] IN
    /\ pc = "advance" /\ r \in loc.todo /\ InLookup(r)
    /\ req' = [req EXCEPT ![r] = state]
    /\ lookup' = [lookup EXCEPT ![r] = [a \in Adapters |-> IF a \in got THEN None ELSE @[a]]]
    /\ pc' = (IF state.lookups = {} THEN "plan" ELSE "advance")
    /\ loc' = [loc EXCEPT !.todo = @ \ {r}, !.back = "advance",
                          !.cur = IF state.lookups = {} THEN r ELSE None,
                          !.then = IF state.lookups = {} THEN "reserve" ELSE None]
    /\ UNCHANGED <<vars, intake, outcome, route, load, fds, l2locks>>

\* The signaled adapters whose load for r has completed.
Loaded(r) == {a \in req[r].loads \cap loc.load : load[r][a].done}

\* _poll_load_results for one adapter: the keys it loaded become readable ...
AdmitLoaded(r, a) ==
    /\ Step("advance", "drop") /\ r \in loc.todo /\ ~InLookup(r) /\ a \in Loaded(r)
    /\ FinishWriteAndReserveRead(load[r][a].ok, 1, r)
    /\ loc' = [loc EXCEPT !.cur = r, !.subs = {a}]
    /\ req' = [req EXCEPT ![r].l1 = @ \cup load[r][a].ok]
    /\ UNCHANGED <<intake, outcome, route, tasks, fds, l2locks>>

\* Mutation: all buffers of the request are deleted, not only the failed ones.
DropFailedMutant(a) ==
    LET r == loc.cur
        planned == Cur.l2[a] IN
    /\ Step("drop", "advance") /\ a \in loc.subs
    /\ FinishWriteAndDelete(Cur.reserved \ load[r][a].ok, r)
    /\ L2Unlock([b \in {a} |-> planned])
    /\ SetCur([Cur EXCEPT !.reserved = @ \ planned, !.loads = @ \ {a},
                          !.l2 = Restrict(@, DOMAIN @ \ {a})])
    /\ load' = [load EXCEPT ![r][a] = None]
    /\ loc' = [loc EXCEPT !.cur = None, !.subs = {}]
    /\ UNCHANGED <<intake, outcome, route, lookup, fds>>

\* ... and those it failed to load are deleted; its L2 locks are returned.
DropFailed(a) ==
    LET r == loc.cur
        planned == Cur.l2[a] IN
    /\ Step("drop", "advance") /\ a \in loc.subs
    /\ FinishWriteAndDelete(planned \ load[r][a].ok, r)
    /\ L2Unlock([b \in {a} |-> planned])
    /\ SetCur([Cur EXCEPT !.reserved = @ \ planned, !.loads = @ \ {a},
                          !.l2 = Restrict(@, DOMAIN @ \ {a})])
    /\ load' = [load EXCEPT ![r][a] = None]
    /\ loc' = [loc EXCEPT !.cur = None, !.subs = {}]
    /\ UNCHANGED <<intake, outcome, route, lookup, fds>>

\* A request in the load phase with no more results: it is finished once no
\* load is outstanding.
LoadsPolled(r) ==
    /\ pc = "advance" /\ r \in loc.todo /\ ~InLookup(r) /\ Loaded(r) = {}
    /\ pc' = (IF req[r].loads = {} THEN "finish" ELSE "advance")
    /\ loc' = [loc EXCEPT !.todo = @ \ {r}, !.back = "advance",
                          !.cur = IF req[r].loads = {} THEN r ELSE None]
    /\ UNCHANGED <<vars, intake, req, outcome, route, tasks, fds, l2locks>>

AllAdvanced ==
    /\ Step("advance", "start") /\ loc.todo = {}
    /\ UNCHANGED <<vars, intake, req, outcome, route, tasks, fds, l2locks, loc>>

----------------------------------------------------------------------------
\* _transition_to_load_phase

\* The plan on what the request has locked; no adapter is active when it is
\* served from L1 alone.
PlanOf(state) ==
    PlanLoad([i \in {0} |-> state.l1], state.l2,
             IF loc.then = "finish" THEN {} ELSE Eligible, <<Window>>, Chunks, "prefix")

\* Mutation: the L1 read locks outside the plan are forgotten, not released.
PlanMutant ==
    LET plan == PlanOf(Cur)
        l1 == Merge(plan.l1) IN
    /\ Step("plan", loc.then)
    /\ UNCHANGED vars
    /\ L2Unlock(Minus(Cur.l2, plan.l2))
    /\ SetCur([Cur EXCEPT !.l1 = l1, !.l2 = plan.l2])
    /\ loc' = [loc EXCEPT !.drop = Merge(Minus(Cur.l2, plan.l2)), !.subs = DOMAIN plan.l2]
    /\ UNCHANGED <<intake, outcome, route, tasks, fds>>

\* _plan_load: the locks outside the plan are released.
Plan ==
    LET plan == PlanOf(Cur)
        l1 == Merge(plan.l1) IN
    /\ Step("plan", loc.then)
    /\ FinishRead(Cur.l1 \ l1, 1)
    /\ L2Unlock(Minus(Cur.l2, plan.l2))
    /\ SetCur([Cur EXCEPT !.l1 = l1, !.l2 = plan.l2])
    /\ loc' = [loc EXCEPT !.drop = Merge(Minus(Cur.l2, plan.l2)), !.subs = DOMAIN plan.l2]
    /\ UNCHANGED <<intake, outcome, route, tasks, fds>>

\* Mutation: the L2 locks of cells without a buffer are forgotten, not returned.
ReservedMutant(wanted, got) ==
    /\ SetCur([Cur EXCEPT !.reserved = got, !.l2 = [a \in DOMAIN @ |-> @[a] \cap got]])
    /\ UNCHANGED l2locks
    /\ pc' = (IF got = wanted THEN "submit" ELSE "plan")
    /\ loc' = [loc EXCEPT !.then = "discard", !.objs = [k \in got |-> staging'[k][loc.cur].buf]]

\* Steps 3 and 4 once reserve_write returned: the L2 locks of the cells without
\* a buffer are returned and the rest is planned again.
Reserved(wanted, got) ==
    /\ SetCur([Cur EXCEPT !.reserved = got, !.l2 = [a \in DOMAIN @ |-> @[a] \cap got]])
    /\ L2Unlock([a \in DOMAIN Cur.l2 |-> Cur.l2[a] \ got])
    /\ pc' = (IF got = wanted THEN "submit" ELSE "plan")
    /\ loc' = [loc EXCEPT !.then = "discard", !.objs = [k \in got |-> staging'[k][loc.cur].buf]]

\* _build_l1_allocation_plans and _reserve_l1_cells
Reserve ==
    LET wanted == Merge(Cur.l2)
        temp == IF Retained \/ ~Locking THEN {} ELSE wanted IN
    /\ pc = "reserve"
    /\ \E size \in Sizes :
          \/ ReserveWrite(wanted, temp, loc.cur, size)
          \/ ReserveWriteOutOfMemory(wanted, temp, loc.cur)
    /\ Reserved(wanted, {k \in wanted : ~IsResident(k) /\ staging'[k][loc.cur] # None})
    /\ UNCHANGED <<intake, outcome, route, tasks, fds>>

\* Step 5: the buffers of cells the second plan dropped are deleted.
Discard ==
    /\ Step("discard", "submit")
    /\ FinishWriteAndDelete(loc.drop, loc.cur)
    /\ SetCur([Cur EXCEPT !.reserved = @ \ loc.drop])
    /\ UNCHANGED <<intake, outcome, route, tasks, fds, l2locks, loc>>

\* _submit_load_tasks: one task for each adapter in the plan.
SubmitLoad(a) ==
    /\ pc = "submit" /\ a \in loc.subs /\ UNCHANGED pc
    /\ load' = [load EXCEPT ![loc.cur][a] =
                   [done |-> FALSE, ok |-> {},
                    bufs |-> [k \in Cur.l2[a] |-> loc.objs[k]]]]
    /\ SetCur([Cur EXCEPT !.loads = @ \cup {a}])
    /\ loc' = [loc EXCEPT !.subs = @ \ {a}]
    /\ UNCHANGED <<vars, intake, outcome, route, lookup, fds, l2locks>>

LoadsSubmitted ==
    /\ Step("submit", IF Cur.loads = {} THEN "finish" ELSE "advance") /\ loc.subs = {}
    /\ loc' = [loc EXCEPT !.objs = <<>>]
    /\ UNCHANGED <<vars, intake, req, outcome, route, tasks, fds, l2locks>>

----------------------------------------------------------------------------
\* The end of a request

Publish(r, hits) ==
    /\ result' = [result EXCEPT ![r] = hits]
    /\ status' = [status EXCEPT ![r] = "answered"]

\* _finish_request and _retire_request
Finish ==
    LET hits == HitCells(Cur.l1, <<Window>>, Chunks, "prefix") IN
    /\ Step("finish", loc.back)
    /\ FinishRead(IF Locking THEN Cur.l1 \ hits ELSE Cur.l1, 1)
    /\ Publish(loc.cur, hits)
    /\ SetCur(None)
    /\ loc' = [loc EXCEPT !.cur = None, !.then = None, !.drop = {}]
    /\ UNCHANGED <<intake, route, tasks, fds, l2locks>>

\* The adapter call at hand raises: the request is aborted.
SubmitRaises ==
    /\ MayRaise /\ pc \in {"submit", "lookup"} /\ loc.subs # {} /\ pc' = "abort"
    /\ loc' = [loc EXCEPT !.subs = {}, !.objs = <<>>]
    /\ UNCHANGED <<vars, intake, req, outcome, route, tasks, fds, l2locks>>

\* Mutation: the L1 buffers are not deleted.
ReleaseBuffersMutant ==
    /\ Step("abort", "unread")
    /\ UNCHANGED vars
    /\ L2Unlock(Restrict(Cur.l2, attached \cap DOMAIN Cur.l2))
    /\ SetCur([Cur EXCEPT !.reserved = {}, !.l2 = <<>>])
    /\ UNCHANGED <<intake, outcome, route, tasks, fds, loc>>

\* _release_all_locks: L2 locks and L1 buffers ...
ReleaseBuffers ==
    /\ Step("abort", "unread")
    /\ FinishWriteAndDelete(Cur.reserved, loc.cur)
    /\ L2Unlock(Restrict(Cur.l2, attached \cap DOMAIN Cur.l2))
    /\ SetCur([Cur EXCEPT !.reserved = {}, !.l2 = <<>>])
    /\ UNCHANGED <<intake, outcome, route, tasks, fds, loc>>

\* Mutation: an aborted request is retired without a result.
ReleaseReadsMutant ==
    /\ Step("unread", loc.back)
    /\ FinishRead(Cur.l1, 1)
    /\ UNCHANGED outcome
    /\ SetCur(None)
    /\ loc' = [loc EXCEPT !.cur = None, !.then = None, !.drop = {}]
    /\ UNCHANGED <<intake, route, tasks, fds, l2locks>>

\* ... then L1 read locks.  _abort_request also publishes a miss, but
\* _cleanup_in_flight_requests does not.
ReleaseReads ==
    /\ Step("unread", loc.back)
    /\ FinishRead(Cur.l1, 1)
    /\ IF loc.back = "cleanup" THEN UNCHANGED outcome ELSE Publish(loc.cur, {})
    /\ SetCur(None)
    /\ loc' = [loc EXCEPT !.cur = None, !.then = None, !.drop = {}]
    /\ UNCHANGED <<intake, route, tasks, fds, l2locks>>

----------------------------------------------------------------------------
\* _start_pending_requests

\* _can_admit_new_prefetch, in objects instead of bytes.
CanAdmit ==
    LET looking == Cardinality({r \in InFlight : InLookup(r)}) * Cardinality(Keys) IN
    (InFlight # {} /\ Eligible # {}) =>
        /\ stagingBytes + looking < Inflight
        /\ Cardinality(Bufs) - Cardinality(allocated) - looking >= Cardinality(Keys)

\* _needs_l2_lookup, of a request with the cells l1 locked in L1.
NeedsL2(l1) == Eligible # {} /\ HitLength(l1, <<Window>>, Chunks) < Chunks

\* _start_lookup_phase up to the first lookup: read-lock what L1 has.
Start ==
    LET r == Head(pendingQueue)
        l1 == {k \in Keys : IsResident(k)} IN
    /\ pc = "start" /\ pendingQueue # <<>> /\ CanAdmit
    /\ ReserveRead(Keys, 1)
    /\ pendingQueue' = Tail(pendingQueue)
    /\ req' = [req EXCEPT ![r] = [NoState EXCEPT !.l1 = l1]]
    /\ pc' = (IF NeedsL2(l1) THEN "lookup" ELSE "plan")
    /\ loc' = [loc EXCEPT !.cur = r, !.back = "start",
                          !.subs = IF NeedsL2(l1) THEN Eligible ELSE {},
                          !.then = IF NeedsL2(l1) THEN None ELSE "finish"]
    /\ UNCHANGED <<submissions, wake, outcome, route, tasks, fds, l2locks>>

SubmitLookup(a) ==
    /\ pc = "lookup" /\ a \in loc.subs
    /\ pc' = (IF loc.subs = {a} THEN "start" ELSE "lookup")
    /\ lookup' = [lookup EXCEPT ![loc.cur][a] = [done |-> FALSE, keys |-> {}]]
    /\ SetCur([Cur EXCEPT !.lookups = @ \cup {a}])
    /\ loc' = [loc EXCEPT !.subs = @ \ {a}, !.cur = IF @ # None /\ loc.subs = {a} THEN None ELSE @]
    /\ UNCHANGED <<vars, intake, outcome, route, load, fds, l2locks>>

StartedAll ==
    /\ Step("start", "detach") /\ (pendingQueue = <<>> \/ ~CanAdmit)
    /\ loc' = NoLocals
    /\ UNCHANGED <<vars, intake, req, outcome, route, tasks, fds, l2locks>>

----------------------------------------------------------------------------
\* Detaching adapters, and stop()

\* Mutation: only tasks, not L2 locks, keep an adapter attached.
InUseMutant(a) == \E r \in InFlight : a \in req[r].lookups

\* _adapter_in_use
InUse(a) ==
    \E r \in InFlight : a \in req[r].lookups \cup req[r].loads \cup DOMAIN req[r].l2

\* _finalize_drained_adapters
DetachDrained ==
    LET gone == {a \in draining : ~InUse(a)} IN
    /\ Step("detach", "ops")
    /\ attached' = attached \ gone
    /\ draining' = draining \ gone
    /\ UNCHANGED <<vars, intake, req, outcome, ops, tasks, fds, l2locks, loc>>

\* stop(): the loop ends at its head, then the requests in flight are cleaned up.
Stop ==
    /\ MayStop /\ Step("ops", "cleanup")
    /\ UNCHANGED <<vars, intake, req, outcome, route, tasks, fds, l2locks, loc>>

\* _cleanup_in_flight_requests
CleanUp(r) ==
    /\ Step("cleanup", "abort") /\ r \in InFlight
    /\ loc' = [loc EXCEPT !.cur = r, !.back = "cleanup"]
    /\ UNCHANGED <<vars, intake, req, outcome, route, tasks, fds, l2locks>>

Stopped ==
    /\ Step("cleanup", "stopped") /\ InFlight = {}
    /\ UNCHANGED <<vars, intake, req, outcome, route, tasks, fds, l2locks, loc>>

Loop ==
    \/ ApplyOps \/ Poll \/ AllAdvanced \/ Plan \/ Reserve \/ Discard \/ LoadsSubmitted
    \/ Finish \/ SubmitRaises \/ ReleaseBuffers \/ ReleaseReads
    \/ Start \/ StartedAll \/ DetachDrained \/ Stopped
    \/ \E r \in Requests : \/ PollLookups(r) \/ LoadsPolled(r) \/ CleanUp(r)
                           \/ \E a \in Adapters : AdmitLoaded(r, a)
    \/ \E a \in Adapters : DropFailed(a) \/ SubmitLoad(a) \/ SubmitLookup(a)

----------------------------------------------------------------------------
\* Clients of the controller, the adapters, eviction, time

loop == <<pc, loc>>

\* submit_prefetch_request
Submit(r) ==
    /\ status[r] = "new" /\ attached # {}
    /\ status' = [status EXCEPT ![r] = "submitted"]
    /\ submissions' = Append(submissions, r) /\ wake' = TRUE
    /\ UNCHANGED <<vars, pendingQueue, req, result, route, tasks, fds, l2locks, loop>>

\* query_prefetch_result, and finish_read_prefetched once the hits are read.
Consume(r) ==
    /\ status[r] = "answered"
    /\ FinishRead(IF Locking THEN result[r] ELSE {}, 1)
    /\ status' = [status EXCEPT ![r] = "consumed"]
    /\ result' = [result EXCEPT ![r] = {}]
    /\ UNCHANGED <<intake, req, route, tasks, fds, l2locks, loop>>

\* An adapter locks what it has, and signals.
CompleteLookup(r, a) ==
    /\ lookup[r][a] # None /\ ~lookup[r][a].done
    /\ \E found \in SUBSET Keys :
          /\ lookup' = [lookup EXCEPT ![r][a] = [done |-> TRUE, keys |-> found]]
          /\ l2locks' = [l2locks EXCEPT ![a] =
                           [k \in Keys |-> IF k \in found THEN @[k] + 1 ELSE @[k]]]
    /\ lookupFd' = [lookupFd EXCEPT ![a] = TRUE]
    /\ UNCHANGED <<vars, intake, req, outcome, route, load, loadFd, loop>>

\* An adapter has written the objects it could load, and signals.
CompleteLoad(r, a) ==
    /\ load[r][a] # None /\ ~load[r][a].done
    /\ \E ok \in SUBSET DOMAIN load[r][a].bufs :
          /\ MayFail \/ ok = DOMAIN load[r][a].bufs
          /\ load' = [load EXCEPT ![r][a].done = TRUE, ![r][a].ok = ok]
    /\ loadFd' = [loadFd EXCEPT ![a] = TRUE]
    /\ UNCHANGED <<vars, intake, req, outcome, route, lookup, lookupFd, l2locks, loop>>

Evict(k) ==
    /\ Delete({k}, FALSE)
    /\ UNCHANGED <<intake, req, outcome, route, tasks, fds, l2locks, loop>>

LapseWrite(k, r) ==
    /\ MayExpire /\ ExpireWrite(k, r)
    /\ UNCHANGED <<intake, req, outcome, route, tasks, fds, l2locks, loop>>

\* add_adapter and request_remove_adapter
RequestAdd(a) ==
    /\ a \notin attached \cup Initial /\ <<"add", a>> \notin ops
    /\ ops' = ops \cup {<<"add", a>>}
    /\ UNCHANGED <<vars, intake, req, outcome, attached, draining, tasks, fds, l2locks, loop>>

RequestRemove(a) ==
    /\ a \in (attached \cap Removable) \ draining /\ <<"remove", a>> \notin ops
    /\ ops' = ops \cup {<<"remove", a>>}
    /\ UNCHANGED <<vars, intake, req, outcome, attached, draining, tasks, fds, l2locks, loop>>

AdapterStep ==
    \E r \in Requests, a \in Adapters : CompleteLookup(r, a) \/ CompleteLoad(r, a)

PNext ==
    \/ Loop \/ Stop
    \/ \E r \in Requests : Submit(r) \/ Consume(r)
    \/ AdapterStep
    \/ \E k \in Keys : Evict(k) \/ \E r \in Requests : LapseWrite(k, r)
    \/ \E a \in Adapters : RequestAdd(a) \/ RequestRemove(a)

PSpec == PInit /\ [][PNext]_pvars

\* The thread runs, and the adapters complete their tasks.
FairPSpec ==
    /\ PSpec
    /\ WF_pvars(Loop)
    /\ \A r \in Requests, a \in Adapters :
          WF_pvars(CompleteLookup(r, a)) /\ WF_pvars(CompleteLoad(r, a))

----------------------------------------------------------------------------
\* Properties

L2Maps == UNION {[A -> SUBSET Keys] : A \in SUBSET Adapters}

States == [l1 : SUBSET Keys, l2 : L2Maps, reserved : SUBSET Keys,
           lookups : SUBSET Adapters, loads : SUBSET Adapters]

TypeOKP ==
    /\ TypeOK
    /\ \A r \in Requests :
          /\ req[r] = None \/ req[r] \in States
          /\ status[r] \in {"new", "submitted", "answered", "consumed"}
          /\ result[r] \subseteq Keys
    /\ draining \subseteq attached /\ attached \subseteq Adapters
    /\ \A a \in Adapters, k \in Keys : l2locks[a][k] \in 0 .. Cardinality(Requests)
    /\ pc \in Steps

\* The cells a request, or the consumer of its result, has read-locked in L1.
Held(r) == (IF req[r] # None THEN req[r].l1 ELSE {}) \cup (IF Locking THEN result[r] ELSE {})

\* Every cell a request counts on, from its discovery until its consumer is
\* done, is resident and read-locked once for it, and no read lock is left
\* over when a request ends, fails or is cleaned up (l1_locked_keys, the hit
\* cells of _finish_request, _release_all_locks).
HitsAreLocked ==
    \A k \in Keys :
        LET holders == {r \in Requests : k \in Held(r)} IN
        IF IsResident(k) THEN objects[k].locks = Cardinality(holders) ELSE holders = {}

\* "a concurrent eviction can shrink what gets discovered but never invalidate
\* a reported hit": the cells of a published result are read-locked in L1.
ReportedHitIsLocked ==
    Locking => \A r \in Requests : \A k \in result[r] : ReadLocked(k)

\* Whatever fails, what a request took from L1 is on its record until it is
\* given back: a live reservation exists only for a cell some request in flight
\* reserved and has not loaded, and there are never more read locks than
\* requests or consumers that will release one.  An abort, a failed load or
\* stop() leaves nothing behind in L1 but expired reservations, which eviction
\* reclaims.
NothingLeaksInL1 ==
    \A k \in Keys :
        /\ \A r \in Requests : IsLive(k, r) => req[r] # None /\ k \in req[r].reserved
        /\ IsResident(k) => objects[k].locks <= Cardinality({r \in Requests : k \in Held(r)})

\* An adapter holds a lock exactly for the requests that recorded it or have
\* yet to query the lookup that took it (l2_locked_keys, submit_unlock).
L2LocksAreRecorded ==
    \A a \in Adapters, k \in Keys :
        l2locks[a][k] = Cardinality({r \in Requests :
            \/ req[r] # None /\ a \in DOMAIN req[r].l2 /\ k \in req[r].l2[a]
            \/ lookup[r][a] # None /\ k \in lookup[r][a].keys})

\* The buffer a load writes to is staged for its request until the load
\* completes: L2AdapterInterface.submit_load_task asks the caller to "make sure
\* that the memory buffer is valid until the load task is completed".
LoadBufferIsValid ==
    \A r \in Requests, a \in Adapters :
        load[r][a] # None /\ ~load[r][a].done =>
            \A k \in DOMAIN load[r][a].bufs :
                IsStaged(k, r) /\ staging[k][r].buf = load[r][a].bufs[k]

\* A detached adapter is not in use by a request in flight: none has a task
\* to wait for or a lock to return there (_adapter_in_use keeps a draining
\* adapter until then).
DetachedIsIdle ==
    \A a \in Adapters \ attached, r \in InFlight :
        lookup[r][a] = None /\ load[r][a] = None /\ a \notin DOMAIN req[r].l2

\* "any step can fail and the request leaves nothing behind": once all requests
\* are over and the adapters idle, no adapter holds a lock.
NothingLeftBehind ==
    /\ \A r \in Requests : status[r] \in {"answered", "consumed"}
    /\ \A r \in Requests, a \in Adapters :
          (lookup[r][a] # None => lookup[r][a].done) /\ (load[r][a] # None => load[r][a].done)
    => \A a \in Adapters, k \in Keys : l2locks[a][k] = 0

\* Every submitted request gets a result unless the controller is stopped:
\* admission never starves it, no completion of a lookup or load is missed, and
\* a request that fails is answered too.
RequestIsAnswered ==
    \A r \in Requests : status[r] = "submitted" ~> status[r] = "answered" \/ pc = "stopped"

\* A draining adapter is detached, whatever becomes of the requests that use it,
\* and not before they have let go of it.
DrainingEnds ==
    /\ []DetachedIsIdle
    /\ \A a \in Removable : a \in draining ~> a \notin attached \/ pc = "stopped"
=============================================================================
