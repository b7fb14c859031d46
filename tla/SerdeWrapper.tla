---------------------------- MODULE SerdeWrapper ----------------------------
(***************************************************************************)
(* SerdeL2AdapterWrapper (l2_adapters/serde_wrapper.py) with the thread    *)
(* pool behind it (serde/async_processor.py), on top of L1Manager: a store *)
(* is serialized into temporary L1 buffers that the inner adapter then     *)
(* stores, a load is loaded into temporary buffers and deserialized from   *)
(* them.  The threads are the controllers that submit, the wrapper's loop, *)
(* the pool, the inner adapter and L1's eviction.                          *)
(*                                                                         *)
(* A task is submitted once.  Its temporary keys are unique to it          *)
(* (make_temp_key): Keys is the set of pairs <<task, chunk>>.              *)
(***************************************************************************)
EXTENDS L1Manager

CONSTANTS StoreTasks, LoadTasks,
          ChunksOf,     \* the keys of each task
          Workloads,    \* bound: the sets of tasks that are submitted together
          MaxExpiries   \* bound: temporary buffers whose lock's TTL passes

Tasks == StoreTasks \cup LoadTasks
Temps(t) == {t} \X ChunksOf[t]
WriteTag == "serde_wrapper"
Fds == {"serialize", "inner_store", "inner_load", "deserialize"}
Chunks == UNION {ChunksOf[t] : t \in Tasks}

\* The entries of the task tables, and the jobs of the pool and the inner adapter.
Entries == [phase : {"RESERVED", "SERIALIZE", "INNER_STORE", "LOAD"}, bitmap : SUBSET Chunks,
            bufs : UNION {[ChunksOf[t] -> Bufs] : t \in Tasks}]
Jobs == [st : {"none", "running", "done", "popped"}, ok : SUBSET Chunks]

ASSUME SerdeAssumption ==
    /\ StoreTasks \cap LoadTasks = {}
    /\ Keys = UNION {Temps(t) : t \in Tasks}
    /\ WriteTag \in Tags /\ 1 <= MaxLocks
    /\ Max(Sizes) \in Sizes /\ Min(Sizes) \in Sizes
    /\ None \notin Tasks \cup Entries /\ \A S \in SUBSET Chunks : None # S

VARIABLES task,     \* _store_tasks, _load_tasks, and a submit call's locals
          serde,    \* the pool's job for each task
          inner,    \* the inner adapter's job for each task
          mapped,   \* the four reverse maps: <<fd, task>>
          events,   \* the event notifiers that are set
          loop,     \* the wrapper's thread
          result,   \* _completed_store, _completed_load: chunks that succeeded
          closing,  \* how far close() is
          leftover, \* read_locked of close()
          late      \* history: temporary keys whose lock expired

wvars == <<task, serde, inner, mapped, events, loop, result, closing, leftover, late>>
allvars == <<vars, wvars>>

NoJob == [st |-> "none", ok |-> {}]
Running == [st |-> "running", ok |-> {}]
Done(ok) == [st |-> "done", ok |-> ok]
Popped(j) == [j EXCEPT !.st = "popped"]

LoopAt(pc) == [pc |-> pc, ready |-> {}, fd |-> None, pending |-> {}, cur |-> None]

WInit ==
    /\ Init
    /\ task = [t \in Tasks |-> None] /\ result = [t \in Tasks |-> None]
    /\ serde = [t \in Tasks |-> NoJob] /\ inner = [t \in Tasks |-> NoJob]
    /\ mapped = {} /\ events = {} /\ loop = LoopAt("poll")
    /\ closing = "open" /\ leftover = {} /\ late = {}

----------------------------------------------------------------------------
\* Submitting

\* _finalize_store, _finalize_load
Finalize(t, chunks) ==
    /\ task' = [task EXCEPT ![t] = None]
    /\ result' = [result EXCEPT ![t] = chunks]

\* _release_write_temps
ReleaseWriteTemps(t) == FinishWriteAndDelete(Temps(t), WriteTag)

\* A call of submit_store_task or submit_load_task for a new task.
Called(t) ==
    /\ closing = "open" /\ task[t] = None /\ result[t] = None
    /\ \E W \in Workloads : {t} \cup {u \in Tasks : task[u] # None \/ result[u] # None} \subseteq W

\* _alloc_temp_buffers: the size is an upper bound on what serialize will write.
Alloc(t) ==
    /\ Called(t)
    /\ ReserveWrite(Temps(t), Temps(t), WriteTag, Max(Sizes))
    /\ task' = [task EXCEPT ![t] =
          [phase |-> "RESERVED", bitmap |-> {},
           bufs |-> [c \in ChunksOf[t] |-> staging'[<<t, c>>][WriteTag].buf]]]
    /\ UNCHANGED <<serde, inner, mapped, events, loop, result, closing, leftover, late>>

AllocFails(t) ==
    /\ Called(t)
    /\ ReserveWriteOutOfMemory(Temps(t), Temps(t), WriteTag)
    /\ Finalize(t, {})
    /\ UNCHANGED <<serde, inner, mapped, events, loop, closing, leftover, late>>

\* Mutation: the reverse map is filled after the lock was released.
SubmitMutant(t) ==
    /\ task[t] # None
    /\ \/ /\ task[t].phase = "RESERVED" /\ t \in StoreTasks
          /\ task' = [task EXCEPT ![t].phase = "SERIALIZE"]
          /\ serde' = [serde EXCEPT ![t] = Running]
          /\ UNCHANGED <<inner, mapped>>
       \/ /\ task[t].phase = "RESERVED" /\ t \in LoadTasks
          /\ task' = [task EXCEPT ![t].phase = "LOAD"]
          /\ inner' = [inner EXCEPT ![t] = Running]
          /\ UNCHANGED <<serde, mapped>>
       \/ /\ task[t].phase = "SERIALIZE" /\ serde[t].st \in {"running", "done"}
          /\ mapped' = mapped \cup {<<"serialize", t>>}
          /\ UNCHANGED <<task, serde, inner>>
       \/ /\ task[t].phase = "LOAD" /\ inner[t].st \in {"running", "done"}
          /\ mapped' = mapped \cup {<<"inner_load", t>>}
          /\ UNCHANGED <<task, serde, inner>>
    /\ UNCHANGED <<vars, events, loop, result, closing, leftover, late>>

\* submit_store_task, submit_load_task: the table, the submission and the reverse
\* map under one lock.
Submit(t) ==
    /\ task[t] # None /\ task[t].phase = "RESERVED"
    /\ IF t \in StoreTasks
       THEN /\ task' = [task EXCEPT ![t].phase = "SERIALIZE"]
            /\ serde' = [serde EXCEPT ![t] = Running]
            /\ mapped' = mapped \cup {<<"serialize", t>>}
            /\ UNCHANGED inner
       ELSE /\ task' = [task EXCEPT ![t].phase = "LOAD"]
            /\ inner' = [inner EXCEPT ![t] = Running]
            /\ mapped' = mapped \cup {<<"inner_load", t>>}
            /\ UNCHANGED serde
    /\ UNCHANGED <<vars, events, loop, result, closing, leftover, late>>

SubmitRaises(t) ==
    /\ task[t] # None /\ task[t].phase = "RESERVED"
    /\ ReleaseWriteTemps(t)
    /\ Finalize(t, {})
    /\ UNCHANGED <<serde, inner, mapped, events, loop, closing, leftover, late>>

----------------------------------------------------------------------------
\* The pool and the inner adapter

\* _run_task.  serialize narrows each buffer to what it wrote (set_used_size).
SerdeDone(t) ==
    /\ serde[t].st = "running"
    /\ \E ok \in {ChunksOf[t], {}}, N \in IF t \in StoreTasks THEN SUBSET ChunksOf[t] ELSE {{}} :
         /\ serde' = [serde EXCEPT ![t] = Done(ok)]
         /\ staging' = [k \in Keys |-> [u \in Tags |->
               IF k \in {t} \X N /\ IsStaged(k, u) THEN [staging[k][u] EXCEPT !.size = Min(Sizes)]
               ELSE staging[k][u]]]
    /\ events' = events \cup {IF t \in StoreTasks THEN "serialize" ELSE "deserialize"}
    /\ UNCHANGED <<objects, stagingBytes, allocated, task, inner, mapped, loop, result,
                   closing, leftover, late>>

\* A store succeeds or fails as a whole, a load chunk by chunk.
InnerDone(t) ==
    /\ inner[t].st = "running"
    /\ \E ok \in IF t \in StoreTasks THEN {ChunksOf[t], {}} ELSE SUBSET ChunksOf[t] :
         inner' = [inner EXCEPT ![t] = Done(ok)]
    /\ events' = events \cup {IF t \in StoreTasks THEN "inner_store" ELSE "inner_load"}
    /\ UNCHANGED <<vars, task, serde, mapped, loop, result, closing, leftover, late>>

----------------------------------------------------------------------------
\* _loop

Poll ==
    /\ loop.pc = "poll" /\ closing = "open" /\ events # {}
    /\ loop' = [LoopAt("next") EXCEPT !.ready = events]
    /\ UNCHANGED <<vars, task, serde, inner, mapped, events, result, closing, leftover, late>>

\* The stop flag is looked at between two polls.
LoopExit ==
    /\ loop.pc = "poll" /\ closing # "open"
    /\ loop' = LoopAt("exited")
    /\ UNCHANGED <<vars, task, serde, inner, mapped, events, result, closing, leftover, late>>

\* consume_fd of the next ready descriptor, before its queue is looked at.
Consume ==
    /\ loop.pc = "next"
    /\ \/ loop.ready = {} /\ loop' = LoopAt("poll") /\ UNCHANGED events
       \/ \E fd \in loop.ready :
            /\ loop' = [loop EXCEPT !.pc = "list", !.ready = @ \ {fd}, !.fd = fd]
            /\ events' = events \ {fd}
    /\ UNCHANGED <<vars, task, serde, inner, mapped, result, closing, leftover, late>>

\* The tasks a drain looks at: those in its reverse map, or the completed stores
\* that pop_completed_store_tasks returned.
List ==
    /\ loop.pc = "list"
    /\ loop' = [loop EXCEPT !.pc = "drain", !.pending =
          IF loop.fd = "inner_store" THEN {t \in StoreTasks : inner[t].st = "done"}
          ELSE {t \in Tasks : <<loop.fd, t>> \in mapped}]
    /\ UNCHANGED <<vars, task, serde, inner, mapped, events, result, closing, leftover, late>>

\* The drains look at task t.
At(fd, t) == loop.pc = "drain" /\ loop.fd = fd /\ t \in loop.pending
Advance(t) == loop' = [loop EXCEPT !.pending = @ \ {t}]

DrainEnd ==
    /\ loop.pc = "drain" /\ loop.pending = {}
    /\ loop' = [loop EXCEPT !.pc = "next", !.fd = None]
    /\ UNCHANGED <<vars, task, serde, inner, mapped, events, result, closing, leftover, late>>

\* The query answered None.
NotReady(fd, t) ==
    /\ fd # "inner_store" /\ At(fd, t)
    /\ IF fd = "inner_load" THEN inner[t].st # "done" ELSE serde[t].st # "done"
    /\ Advance(t)
    /\ UNCHANGED <<vars, task, serde, inner, mapped, events, result, closing, leftover, late>>

\* _drain_serialize: a failed task is over; the temporary objects of the others
\* become readable, whatever finish_write_and_reserve_read answers.
DrainSerialize(t) ==
    /\ At("serialize", t) /\ serde[t].st = "done"
    /\ serde' = [serde EXCEPT ![t] = Popped(@)]
    /\ mapped' = mapped \ {<<"serialize", t>>}
    /\ IF serde[t].ok = {}
       THEN /\ ReleaseWriteTemps(t)
            /\ Finalize(t, {})
            /\ Advance(t)
       ELSE /\ FinishWriteAndReserveRead(Temps(t), 1, WriteTag)
            /\ loop' = [loop EXCEPT !.pc = "store", !.cur = t, !.pending = @ \ {t}]
            /\ UNCHANGED <<task, result>>
    /\ UNCHANGED <<inner, events, closing, leftover, late>>

\* Mutation: the raised submission leaves the temporary objects locked.
InnerStoreMutant ==
    LET t == loop.cur IN
    /\ loop.pc = "store"
    /\ loop' = [loop EXCEPT !.pc = "drain", !.cur = None]
    /\ \/ /\ inner' = [inner EXCEPT ![t] = Running]
          /\ task' = [task EXCEPT ![t].phase = "INNER_STORE"]
          /\ mapped' = mapped \cup {<<"inner_store", t>>}
          /\ UNCHANGED result
       \/ /\ Finalize(t, {})
          /\ UNCHANGED <<inner, mapped>>
    /\ UNCHANGED <<vars, serde, events, closing, leftover, late>>

\* ... and goes on to inner.submit_store_task, which may raise.
InnerStore ==
    LET t == loop.cur IN
    /\ loop.pc = "store"
    /\ loop' = [loop EXCEPT !.pc = "drain", !.cur = None]
    /\ \/ /\ inner' = [inner EXCEPT ![t] = Running]
          /\ task' = [task EXCEPT ![t].phase = "INNER_STORE"]
          /\ mapped' = mapped \cup {<<"inner_store", t>>}
          /\ UNCHANGED <<vars, result>>
       \/ /\ FinishRead(Temps(t), 1)
          /\ Finalize(t, {})
          /\ UNCHANGED <<inner, mapped>>
    /\ UNCHANGED <<serde, events, closing, leftover, late>>

\* _drain_inner_store
DrainInnerStore(t) ==
    /\ At("inner_store", t)
    /\ inner' = [inner EXCEPT ![t] = Popped(@)]
    /\ mapped' = mapped \ {<<"inner_store", t>>}
    /\ FinishRead(Temps(t), 1)
    /\ Finalize(t, inner[t].ok)
    /\ Advance(t)
    /\ UNCHANGED <<serde, events, closing, leftover, late>>

\* _drain_inner_load: nothing loaded, or submit_deserialize raised; or the chunks
\* that were loaded go to the pool.
DrainInnerLoad(t) ==
    /\ At("inner_load", t) /\ inner[t].st = "done"
    /\ inner' = [inner EXCEPT ![t] = Popped(@)]
    /\ \/ /\ ReleaseWriteTemps(t)
          /\ Finalize(t, {})
          /\ mapped' = mapped \ {<<"inner_load", t>>}
          /\ UNCHANGED serde
       \/ /\ inner[t].ok # {}
          /\ task' = [task EXCEPT ![t].bitmap = inner[t].ok]
          /\ serde' = [serde EXCEPT ![t] = Running]
          /\ mapped' = (mapped \ {<<"inner_load", t>>}) \cup {<<"deserialize", t>>}
          /\ UNCHANGED <<vars, result>>
    /\ Advance(t)
    /\ UNCHANGED <<events, closing, leftover, late>>

\* Mutation: what the inner adapter loaded is reported although it could not be
\* deserialized.
DrainDeserializeMutant(t) ==
    /\ At("deserialize", t) /\ serde[t].st = "done"
    /\ serde' = [serde EXCEPT ![t] = Popped(@)]
    /\ mapped' = mapped \ {<<"deserialize", t>>}
    /\ ReleaseWriteTemps(t)
    /\ Finalize(t, task[t].bitmap)
    /\ Advance(t)
    /\ UNCHANGED <<inner, events, closing, leftover, late>>

\* _drain_deserialize
DrainDeserialize(t) ==
    /\ At("deserialize", t) /\ serde[t].st = "done"
    /\ serde' = [serde EXCEPT ![t] = Popped(@)]
    /\ mapped' = mapped \ {<<"deserialize", t>>}
    /\ ReleaseWriteTemps(t)
    /\ Finalize(t, IF serde[t].ok = {} THEN {} ELSE task[t].bitmap)
    /\ Advance(t)
    /\ UNCHANGED <<inner, events, closing, leftover, late>>

Loop ==
    \/ Poll \/ LoopExit \/ Consume \/ List \/ DrainEnd \/ InnerStore
    \/ \E t \in Tasks :
         \/ \E fd \in Fds : NotReady(fd, t)
         \/ DrainSerialize(t) \/ DrainInnerStore(t) \/ DrainInnerLoad(t) \/ DrainDeserialize(t)

----------------------------------------------------------------------------
\* close(), after the controllers stopped

Close ==
    /\ closing = "open"
    /\ \A t \in Tasks : task[t] # None => task[t].phase # "RESERVED"
    /\ closing' = "stopping"
    /\ UNCHANGED <<vars, task, serde, inner, mapped, events, loop, result, leftover, late>>

\* Mutation: the buffers are released before the pool and the inner adapter ended.
ReleaseMutant ==
    LET inPhase(P) == {t \in Tasks : task[t] # None /\ task[t].phase \in P} IN
    /\ closing = "stopping" /\ loop.pc = "exited"
    /\ FinishWriteAndDelete(UNION {Temps(t) : t \in inPhase({"SERIALIZE", "LOAD"})}, WriteTag)
    /\ leftover' = UNION {Temps(t) : t \in inPhase({"INNER_STORE"})}
    /\ mapped' = {}
    /\ closing' = "releasing"
    /\ UNCHANGED <<task, serde, inner, events, loop, result, late>>

\* Once the loop has ended, inner.close() and serde.close() have waited for their
\* jobs, the tables are cleared and the write-locked buffers released.
Release ==
    LET inPhase(P) == {t \in Tasks : task[t] # None /\ task[t].phase \in P} IN
    /\ closing = "stopping" /\ loop.pc = "exited"
    /\ \A t \in Tasks : inner[t].st # "running" /\ serde[t].st # "running"
    /\ FinishWriteAndDelete(UNION {Temps(t) : t \in inPhase({"SERIALIZE", "LOAD"})}, WriteTag)
    /\ leftover' = UNION {Temps(t) : t \in inPhase({"INNER_STORE"})}
    /\ task' = [t \in Tasks |-> None] /\ mapped' = {}
    /\ closing' = "releasing"
    /\ UNCHANGED <<serde, inner, events, loop, result, late>>

ReleaseReads ==
    /\ closing = "releasing"
    /\ FinishRead(leftover, 1)
    /\ closing' = "closed" /\ leftover' = {}
    /\ UNCHANGED <<task, serde, inner, mapped, events, loop, result, late>>

----------------------------------------------------------------------------
\* Time and eviction

Expire(k) ==
    /\ Cardinality(late) < MaxExpiries
    /\ ExpireRead(k) \/ ExpireWrite(k, WriteTag)
    /\ late' = late \cup {k}
    /\ UNCHANGED <<task, serde, inner, mapped, events, loop, result, closing, leftover>>

\* The eviction loop deletes a key that is_key_evictable allows.
Evict(k) ==
    /\ Deleted({k}, FALSE) # {} \/ Reclaimable({k}, FALSE) # {}
    /\ Delete({k}, FALSE)
    /\ UNCHANGED wvars

WNext ==
    \/ \E t \in Tasks : Alloc(t) \/ AllocFails(t) \/ Submit(t) \/ SubmitRaises(t)
                        \/ SerdeDone(t) \/ InnerDone(t)
    \/ Loop
    \/ Close \/ Release \/ ReleaseReads
    \/ \E k \in Keys : Expire(k) \/ Evict(k)

WSpec == WInit /\ [][WNext]_allvars

\* The threads run, and the pool and the inner adapter finish what they started.
\* Nobody has to submit or to close.
Fairness ==
    /\ WF_allvars(Loop) /\ WF_allvars(Release \/ ReleaseReads)
    /\ \A t \in Tasks :
         WF_allvars(Submit(t) \/ SubmitRaises(t)) /\ WF_allvars(SerdeDone(t)) /\ WF_allvars(InnerDone(t))

FairSpec == WSpec /\ Fairness

----------------------------------------------------------------------------
\* Properties

\* The buffer behind a temporary key, None if L1 holds none.
BufOf(k) ==
    IF IsResident(k) THEN objects[k].buf
    ELSE IF IsStaged(k, WriteTag) THEN staging[k][WriteTag].buf ELSE None

Busy(t) == serde[t].st = "running" \/ inner[t].st = "running"

\* The pool and the inner adapter only touch memory that is still the task's: the
\* buffers they were given are held in L1 for its temporary keys, and locked
\* (submit_*_task, the drains, close(): it releases them last).
TempsInUseAreHeld ==
    \A t \in Tasks : Busy(t) => \A c \in ChunksOf[t] :
        /\ BufOf(<<t, c>>) = task[t].bufs[c]
        /\ ReadLocked(<<t, c>>) \/ IsLive(<<t, c>>, WriteTag)

\* The same of the tasks that do not outlast the TTL of their buffers.
TempsInTimeAreHeld ==
    \A t \in Tasks : Busy(t) => \A c \in ChunksOf[t] : <<t, c>> \notin late =>
        /\ BufOf(<<t, c>>) = task[t].bufs[c]
        /\ ReadLocked(<<t, c>>) \/ IsLive(<<t, c>>, WriteTag)

\* No path loses a temporary buffer: one that L1 holds belongs to a task still in
\* the tables or to close(), or its lock expired and eviction may have it
\* (_release_write_temps, finish_read of a temporary object, close()).
NoTempLeaks ==
    \A k \in Keys : BufOf(k) # None => task[k[1]] # None \/ k \in leftover \cup late

\* When a task is reported, nobody works on it any more, so that its caller may
\* free the objects it passed; and what is reported as stored or loaded went
\* through both stages (_finalize_store, _finalize_load).
ReportedIsOver ==
    \A t \in Tasks : result[t] # None =>
        /\ ~Busy(t) /\ task[t] = None
        /\ result[t] \subseteq inner[t].ok
        /\ result[t] # {} => serde[t].ok # {}

\* Submitted, and in no list of completed tasks.
Unanswered(t) == result[t] = None /\ (task[t] # None \/ serde[t] # NoJob \/ inner[t] # NoJob)

\* No completion is missed: the submitted tasks are all answered unless the wrapper
\* is closed meanwhile, and close() returns.  (A task is submitted once, so that
\* none stays behind.)
TasksAreAnswered ==
    /\ (\E t \in Tasks : Unanswered(t)) ~> (\A t \in Tasks : ~Unanswered(t)) \/ closing # "open"
    /\ closing = "stopping" ~> closing = "closed"
=============================================================================
