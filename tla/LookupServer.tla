---------------------------- MODULE LookupServer ----------------------------
(***************************************************************************)
(* The lookup side of the multiprocess cache server, for one engine        *)
(* request: multiprocess/modules/lookup.py with the sessions of            *)
(* multiprocess/session.py and the read and release of a retrieve          *)
(* (lmcache_driven_transfer.py).  A scheduler talks to several servers,    *)
(* each with its own jobs, sessions and read locks.                        *)
(*                                                                         *)
(* LOOKUP, QUERY_PREFETCH_STATUS, FREE_LOOKUP_LOCKS and END_SESSION are     *)
(* blocking handlers on a thread pool without client affinity, so the      *)
(* handlers of one request interleave and overtake each other.  A handler  *)
(* is split where it leaves the job lock, the session lock or the storage  *)
(* manager; its program counter is the field pc of its message.            *)
(*                                                                         *)
(* Positions are chunks.  A read lock is an anonymous reference count; the *)
(* model counts the locks of this request only, so a count below zero is a *)
(* lock of another reader that this request has taken away.                *)
(***************************************************************************)
EXTENDS Integers, Sequences, FiniteSets

CONSTANTS Servers,      \* the cache servers
          Groups,       \* object groups
          NumChunks,    \* chunks of the prompt
          MaxLookups,   \* bound: LOOKUPs of one request
          Ordered,      \* a LOOKUP starts after the handlers of earlier ones
          None

VARIABLES dep,          \* the deployment: servers, window (object group ->
                        \* chunks, -1 for all), replay, whole, faults, found
          jobs,         \* server -> the LOOKUP whose job is registered, or 0
          handle,       \* server, LOOKUP -> its prefetch task
          live,         \* server -> index of the session in the manager, or 0
          sess,         \* server -> every Session object created
          locks,        \* server -> read locks of this request on a chunk
          rpc,          \* messages under way, with their handler's state
          future,       \* server -> the reply the scheduler waits for
          unlocked,     \* history: a retrieve read a chunk without a lock
          toTTL         \* history: locks left to the read-lock TTL

svars == <<dep, jobs, handle, live, sess, locks, rpc, future, unlocked, toTTL>>

Chunk   == 0 .. NumChunks - 1
Attempt == 1 .. MaxLookups

(* The chunks of [lo, hi) of a group that a lookup with this hit locked. *)
Resolved(lo, hi, hit, w) ==
  {c \in Chunk : lo <= c /\ c < hi /\ c < hit /\ (w < 0 \/ c >= hit - w)}

(* finish_read for ranges <<lo, hi, hit>>: one lock per key and range. *)
Releases(s, ranges) ==
  [locks EXCEPT ![s] =
     [g \in Groups |-> [c \in Chunk |->
        locks[s][g][c]
          - Cardinality({i \in DOMAIN ranges :
              c \in Resolved(ranges[i][1], ranges[i][2], ranges[i][3], dep.window[g])})]]]

(* A future of the request client: the lookup it belongs to, its answer. *)
Pending(n) == [lookup |-> n, reply |-> "none", hit |-> 0]
NoFuture   == Pending(0)

FreshSession == [floor |-> None, hit |-> -1]

SInit ==
  /\ jobs     = [s \in Servers |-> 0]
  /\ handle   = [s \in Servers |-> [n \in Attempt |->
                   [state |-> "none", start |-> 0, hit |-> 0]]]
  /\ live     = [s \in Servers |-> 0]
  /\ sess     = [s \in Servers |-> <<>>]
  /\ locks    = [s \in Servers |-> [g \in Groups |-> [c \in Chunk |-> 0]]]
  /\ rpc      = {}
  /\ future   = [s \in Servers |-> NoFuture]
  /\ unlocked = FALSE
  /\ toTTL    = FALSE

-----------------------------------------------------------------------------
(* SessionManager.get_or_create *)
GetOrCreate(s) ==
  IF live[s] # 0
    THEN UNCHANGED <<live, sess>>
    ELSE /\ sess' = [sess EXCEPT ![s] = Append(@, FreshSession)]
         /\ live' = [live EXCEPT ![s] = Len(sess[s]) + 1]

(* get_or_create, then a change f of the session it returns *)
OnSession(s, f) ==
  IF live[s] # 0
    THEN /\ sess' = [sess EXCEPT ![s][live[s]] = f]
         /\ UNCHANGED live
    ELSE /\ sess' = [sess EXCEPT ![s] = Append(@, f)]
         /\ live' = [live EXCEPT ![s] = Len(sess[s]) + 1]

Current(s) == IF live[s] # 0 THEN sess[s][live[s]] ELSE FreshSession

Becomes(r, q) == rpc' = (rpc \ {r}) \cup {q}

(* A reply completes the future of its lookup; nobody waits for another. *)
Replies(r, what, hit) ==
  /\ rpc' = rpc \ {r}
  /\ future' = IF future[r.s].lookup = r.n
                 THEN [future EXCEPT ![r.s].reply = what, ![r.s].hit = hit]
                 ELSE future

-----------------------------------------------------------------------------
LookupStarts(r) ==
  /\ r.kind = "LOOKUP" /\ r.pc = "sent"
  /\ Ordered => ~ \E q \in rpc : q.s = r.s /\ q.n < r.n

(* lookup(), up to and including begin_lookup *)
LookupBegins(r) ==
  /\ LookupStarts(r)
  /\ OnSession(r.s, [floor |-> r.start, hit |-> -1])
  /\ Becomes(r, [r EXCEPT !.pc = "begun"])
  /\ UNCHANGED <<dep, jobs, handle, locks, future, unlocked, toTTL>>

(* The early exits that register an empty job: before the session is       *)
(* touched when the server has no layout or no full chunk, after           *)
(* begin_lookup when the load policy declines or the engine covers all.    *)
RegisterEmpty(r, start) ==
  /\ handle' = [handle EXCEPT ![r.s][r.n] =
                  [state |-> "empty", start |-> start, hit |-> 0]]
  /\ jobs' = [jobs EXCEPT ![r.s] = r.n]
  /\ Replies(r, "ack", 0)
  /\ UNCHANGED <<dep, live, sess, locks, unlocked, toTTL>>

LookupRefused(r) ==
  /\ LookupStarts(r)
  /\ "refused" \in dep.faults
  /\ RegisterEmpty(r, 0)

LookupDeclined(r) ==
  /\ r.kind = "LOOKUP" /\ r.pc = "begun"
  /\ \/ r.start = NumChunks /\ RegisterEmpty(r, r.start)
     \/ RegisterEmpty(r, 0)

LookupSubmits(r) ==
  /\ r.kind = "LOOKUP" /\ r.pc = "begun"
  /\ r.start < NumChunks
  /\ handle' = [handle EXCEPT ![r.s][r.n] =
                  [state |-> "running", start |-> r.start, hit |-> 0]]
  /\ Becomes(r, [r EXCEPT !.pc = "submitted"])
  /\ UNCHANGED <<dep, jobs, live, sess, locks, future, unlocked, toTTL>>

LookupRegisters(r) ==
  /\ r.kind = "LOOKUP" /\ r.pc = "submitted"
  /\ jobs' = [jobs EXCEPT ![r.s] = r.n]
  /\ Replies(r, "ack", 0)
  /\ UNCHANGED <<dep, handle, live, sess, locks, unlocked, toTTL>>

(* An exception in the handler, or a lost connection, fails the future. *)
LookupFails(r) ==
  /\ LookupStarts(r)
  /\ "failed" \in dep.faults
  /\ Replies(r, "error", 0)
  /\ UNCHANGED <<dep, jobs, handle, live, sess, locks, unlocked, toTTL>>

(* The prefetch controller finishes: h more chunks, locked as folded. *)
PrefetchDone(s, n, h) ==
  LET task == handle[s][n] IN
  /\ task.state = "running"
  /\ \E f \in dep.found[s] : h = IF f > task.start THEN f - task.start ELSE 0
  /\ handle' = [handle EXCEPT ![s][n] = [task EXCEPT !.state = "done", !.hit = h]]
  /\ locks' = [locks EXCEPT ![s] = [g \in Groups |-> [c \in Chunk |->
       IF c \in Resolved(task.start, NumChunks, task.start + h, dep.window[g])
         THEN @[g][c] + 1 ELSE @[g][c]]]]
  /\ UNCHANGED <<dep, jobs, live, sess, rpc, future, unlocked, toTTL>>

-----------------------------------------------------------------------------
(* query_prefetch_status reads the job under the job lock. *)
QueryReads(r) ==
  /\ r.kind = "QUERY" /\ r.pc = "sent"
  /\ IF jobs[r.s] = 0
       THEN Replies(r, "hit", 0)
       ELSE Becomes(r, [r EXCEPT !.pc = "take", !.job = jobs[r.s]])
            /\ UNCHANGED future
  /\ UNCHANGED <<dep, jobs, handle, live, sess, locks, unlocked, toTTL>>

(* _consume_prefetch_result, shared by QUERY and FREE: the storage manager *)
(* hands a result out once; a task still running has none.                 *)
TakeResult(r) ==
  LET task == handle[r.s][r.job] IN
  /\ r.pc = "take"
  /\ IF task.state \in {"done", "empty"}
       THEN /\ handle' = IF task.state = "done"
                           THEN [handle EXCEPT ![r.s][r.job].state = "taken"]
                           ELSE handle
            /\ Becomes(r, [r EXCEPT !.pc = "record", !.found = task.start + task.hit])
            /\ UNCHANGED <<future, toTTL>>
       ELSE /\ Replies(r, "running", 0)
            /\ toTTL' = (toTTL \/ r.kind = "FREE")
            /\ UNCHANGED handle
  /\ UNCHANGED <<dep, jobs, live, sess, locks, unlocked>>

RecordResult(r) ==
  /\ r.pc = "record"
  /\ OnSession(r.s, [Current(r.s) EXCEPT !.hit = r.found])
  /\ Becomes(r, [r EXCEPT !.pc = "pop"])
  /\ UNCHANGED <<dep, jobs, handle, locks, future, unlocked, toTTL>>

(* The job under the request id is dropped, whichever job that is by now. *)
PopJob(r) ==
  /\ r.pc = "pop"
  /\ jobs' = [jobs EXCEPT ![r.s] = 0]
  /\ IF r.kind = "QUERY"
       THEN Replies(r, "hit", r.found)
       ELSE Becomes(r, [r EXCEPT !.pc = "release"]) /\ UNCHANGED future
  /\ UNCHANGED <<dep, handle, live, sess, locks, unlocked, toTTL>>

(* The reply is lost after the result was consumed. *)
QueryReplyLost(r) ==
  /\ r.kind = "QUERY" /\ r.pc = "pop"
  /\ "lost" \in dep.faults
  /\ jobs' = [jobs EXCEPT ![r.s] = 0]
  /\ Replies(r, "error", 0)
  /\ toTTL' = TRUE
  /\ UNCHANGED <<dep, handle, live, sess, locks, unlocked>>

-----------------------------------------------------------------------------
(* free_lookup_locks looks at the session, ... *)
FreeLooks(r) ==
  /\ r.kind = "FREE" /\ r.pc = "sent"
  /\ GetOrCreate(r.s)
  /\ Becomes(r, [r EXCEPT !.ref = live'[r.s],
                          !.pc = IF Current(r.s).hit < 0 THEN "job" ELSE "release"])
  /\ UNCHANGED <<dep, jobs, handle, locks, future, unlocked, toTTL>>

(* ... at the job when no result has reached the session, ... *)
FreeReads(r) ==
  /\ r.kind = "FREE" /\ r.pc = "job"
  /\ Becomes(r, IF jobs[r.s] = 0
                  THEN [r EXCEPT !.pc = "release"]
                  ELSE [r EXCEPT !.pc = "take", !.job = jobs[r.s]])
  /\ UNCHANGED <<dep, jobs, handle, live, sess, locks, future, unlocked, toTTL>>

(* Mutation: the release starts at the range, whatever the lookup skipped. *)
RangesMutant(r, session) ==
  (IF r.lo < r.hi THEN <<(<<r.lo, r.hi, session.hit>>)>> ELSE <<>>)
    \o [i \in DOMAIN r.extra |-> <<r.extra[i][1], r.extra[i][2], r.extra[i][2]>>]

(* ... and releases what the lookup locked of the range, and every extra   *)
(* range with its own end as the hit.                                      *)
Ranges(r, session) ==
  LET floor == IF session.floor = None THEN 0 ELSE session.floor
      from  == IF r.lo > floor THEN r.lo ELSE floor
  IN  (IF r.lo < r.hi THEN <<(<<from, r.hi, session.hit>>)>> ELSE <<>>)
        \o [i \in DOMAIN r.extra |->
              <<r.extra[i][1], r.extra[i][2], r.extra[i][2]>>]

FreeReleases(r) ==
  LET session == sess[r.s][r.ref] IN
  /\ r.kind = "FREE" /\ r.pc = "release"
  /\ IF session.hit < 0
       THEN UNCHANGED locks /\ toTTL' = TRUE
       ELSE locks' = Releases(r.s, Ranges(r, session)) /\ UNCHANGED toTTL
  /\ rpc' = rpc \ {r}
  /\ UNCHANGED <<dep, jobs, handle, live, sess, future, unlocked>>

-----------------------------------------------------------------------------
(* retrieve(): per group the trailing window of the range is read, then    *)
(* one lock of each of those keys is released, also when a read failed.    *)
Retrieve(r) ==
  /\ r.kind = "RETRIEVE"
  /\ OnSession(r.s, [Current(r.s) EXCEPT !.floor = IF @ = None THEN r.lo ELSE @])
  /\ unlocked' = (unlocked \/ \E g \in Groups :
                    \E c \in Resolved(r.lo, r.hi, r.hi, dep.window[g]) : locks[r.s][g][c] < 1)
  /\ locks' = Releases(r.s, <<(<<r.lo, r.hi, r.hi>>)>>)
  /\ rpc' = rpc \ {r}
  /\ UNCHANGED <<dep, jobs, handle, future, toTTL>>

(* end_session(): the session leaves the manager. *)
EndSession(r) ==
  /\ r.kind = "END"
  /\ live' = [live EXCEPT ![r.s] = 0]
  /\ rpc' = rpc \ {r}
  /\ UNCHANGED <<dep, jobs, handle, sess, locks, future, unlocked, toTTL>>

(* SessionManager.cleanup_expired, for a session nobody ended. *)
SessionExpires(s) ==
  /\ live[s] # 0
  /\ live' = [live EXCEPT ![s] = 0]
  /\ UNCHANGED <<dep, jobs, handle, sess, locks, rpc, future, unlocked, toTTL>>

Handler(r) ==
  \/ LookupBegins(r) \/ LookupDeclined(r) \/ LookupSubmits(r) \/ LookupRegisters(r)
  \/ QueryReads(r) \/ TakeResult(r) \/ RecordResult(r) \/ PopJob(r)
  \/ FreeLooks(r) \/ FreeReads(r) \/ FreeReleases(r)
  \/ Retrieve(r) \/ EndSession(r)

Fault(r) == LookupRefused(r) \/ LookupFails(r) \/ QueryReplyLost(r)
=============================================================================
