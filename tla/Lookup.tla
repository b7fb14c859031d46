------------------------------- MODULE Lookup -------------------------------
(***************************************************************************)
(* The scheduler side of a lookup, composed with the servers: LookupState  *)
(* (integration/vllm/mp_lookup_state.py), the scheduler adapter            *)
(* (vllm_multi_process_adapter.py) and the connector's request tracker     *)
(* (lmcache_mp_connector.py), for one request from its first poll to       *)
(* request_finished.                                                       *)
(*                                                                         *)
(* The scheduler polls a waiting request with the prefix-cache hit of that *)
(* step, allocates blocks for it in a step whose poll gave a number, and   *)
(* may preempt it later, which looks it up again under the same id.        *)
(***************************************************************************)
EXTENDS LookupServer, SequencesExt

CONSTANT Deployments    \* the deployments to run in

VARIABLES cur,          \* LOOKUPs sent for the request so far
          tracked,      \* the request has a LookupState in _lookups
          ls,           \* the LookupState: phase, checked, hits, result
          healthy,      \* every server is healthy
          t,            \* the request tracker
          req,          \* where vLLM's scheduler holds the request
          fresh,        \* history: queries sent since the last check began
          aborted       \* history: the request ended before its allocation

cvars == <<cur, tracked, ls, healthy, t, req, fresh, aborted>>
vars  == <<svars, cvars>>

Up == dep.servers

FreshTracker == [state |-> "PREFETCHING", apc |-> 0, full |-> FALSE,
                 pend |-> <<>>, vhit |-> 0, lhit |-> 0, ext |-> FALSE]

FreshState == [phase   |-> [s \in Servers |-> "LOOKUP"],
               checked |-> [s \in Servers |-> FALSE],
               hits    |-> [s \in Servers |-> 0],
               result  |-> None]

Init ==
  /\ SInit
  /\ dep \in Deployments
  /\ cur = 0 /\ tracked = FALSE /\ ls = FreshState
  /\ healthy = TRUE
  /\ t = FreshTracker /\ req = "waiting"
  /\ fresh = [s \in Servers |-> 0]
  /\ aborted = FALSE

-----------------------------------------------------------------------------
(* LookupState.  Every operator maps a state and the futures to the next   *)
(* state; the queries and tail releases it sends are read off the pair.    *)

Waiting(l)  == {s \in Up : l.phase[s] \in {"LOOKUP", "QUERY"}}
Answered(l) == {s \in Waiting(l) : future[s].reply # "none"}

(* _send_query_prefetch_status *)
SendQuery(l, S) ==
  [l EXCEPT !.phase   = [s \in Servers |-> IF s \in S THEN "QUERY" ELSE @[s]],
            !.checked = [s \in Servers |-> IF s \in S THEN FALSE ELSE @[s]]]

(* _handle_lookup_reply and _handle_query_prefetch_status_reply for the    *)
(* completed futures of S, then _maybe_resolve_lookup_result               *)
Resolving(l, S) == {s \in S : l.phase[s] = "QUERY" /\ future[s].reply = "hit"}
(* Mutation: a task still running is asked again at once. *)
RequeryingMutant(l, S) ==
  {s \in S : l.phase[s] = "LOOKUP" \/ future[s].reply \in {"running", "error"}}
Requerying(l, S) ==
  {s \in S : \/ l.phase[s] = "LOOKUP"
             \/ future[s].reply \in {"running", "error"} /\ l.checked[s]}
Handled(l, S) ==
  LET res  == Resolving(l, S)
      ask  == Requerying(l, S)
      wait == S \ (res \cup ask)
      m    == SendQuery([l EXCEPT
                !.phase = [s \in Servers |-> CASE s \in res  -> "RESOLVED"
                                               [] s \in wait -> "REQUERY"
                                               [] OTHER      -> @[s]],
                !.hits  = [s \in Servers |-> IF s \in res THEN future[s].hit ELSE @[s]]],
                ask)
  IN  IF \A s \in Up : m.phase[s] = "RESOLVED"
        THEN [m EXCEPT !.result = Min({m.hits[s] : s \in Up})]
        ELSE m

(* on_scheduler_check without the deadlines: the completed replies, then   *)
(* the deferred queries                                                    *)
Marked(l)  == [l EXCEPT !.checked =
                 [s \in Servers |-> @[s] \/ (s \in Up /\ l.phase[s] = "QUERY")]]
Checked(l) == LET m == Handled(Marked(l), Answered(l))
              IN  SendQuery(m, {s \in Up : m.phase[s] = "REQUERY"})

Query(s) == [kind |-> "QUERY", s |-> s, n |-> cur, pc |-> "sent", job |-> 0, found |-> 0]
Free(s, tail, lo, hi, extra) ==
  [kind |-> "FREE", s |-> s, n |-> cur, tail |-> tail, lo |-> lo, hi |-> hi,
   extra |-> extra, pc |-> "sent", ref |-> 0, job |-> 0, found |-> 0]

(* Mutation: a server that found more than the minimum keeps its tail. *)
TailsMutant(m) == {}

(* _maybe_resolve_lookup_result releases, on every server that found more  *)
(* than the minimum, what lies beyond it.                                  *)
Tails(m) == IF m.result = None THEN {}
            ELSE {Free(s, TRUE, m.result, m.hits[s], <<>>) :
                    s \in {u \in Up : m.hits[u] > m.result}}

(* Futures held by LookupState m after it sent queries to S. *)
Futures(m, S) ==
  [s \in Servers |->
     IF s \in S THEN Pending(cur)
     ELSE IF s \in Waiting(m) THEN future[s]
     ELSE NoFuture]

NoFutures == [s \in Servers |-> NoFuture]
Asked(S, base) == [s \in Servers |-> base[s] + (IF s \in S THEN 1 ELSE 0)]

(* The reply callback of a future. *)
OnReply(s) ==
  /\ tracked /\ ls.result = None
  /\ s \in Answered(ls)
  /\ LET m == Handled(ls, {s})
         S == Requerying(ls, {s})
     IN /\ ls' = m
        /\ rpc' = rpc \cup {Query(u) : u \in S} \cup Tails(m)
        /\ future' = Futures(m, S)
        /\ fresh' = Asked(S, fresh)
  /\ UNCHANGED <<dep, jobs, handle, live, sess, locks, unlocked, toTTL,
                 cur, tracked, healthy, t, req, aborted>>

-----------------------------------------------------------------------------
(* maybe_submit_lookup_request on a healthy client without a lookup *)
Lookups(n, start) == {[kind |-> "LOOKUP", s |-> s, n |-> n, pc |-> "sent",
                       start |-> start] : s \in Up}
Submitted(start, sent) ==
  /\ cur < MaxLookups
  /\ cur' = cur + 1
  /\ tracked' = TRUE
  /\ ls' = FreshState
  /\ fresh' = [s \in Servers |-> 0]
  /\ rpc' = rpc \cup sent \cup Lookups(cur + 1, start)
  /\ future' = [s \in Servers |-> IF s \in Up THEN Pending(cur + 1)
                                  ELSE NoFuture]

(* cleanup_lookup_result *)
Cleanup(sent) ==
  /\ tracked' = FALSE
  /\ ls' = FreshState
  /\ fresh' = [s \in Servers |-> 0]
  /\ rpc' = rpc \cup sent
  /\ future' = NoFutures

(* The prefix-cache hits vLLM can report: never the whole prompt. *)
CacheHit == IF dep.whole THEN 0 .. NumChunks - 1 ELSE 0 .. NumChunks
Polled == req \in {"waiting", "ready"} /\ t.state = "PREFETCHING"

(* get_num_new_matched_tokens (and on_new_request): the first poll submits *)
Submit(v) ==
  LET start == IF t.full THEN 0 ELSE v IN
  /\ Polled /\ v \in CacheHit
  /\ healthy /\ ~ tracked
  /\ Submitted(start, {})
  /\ t' = [t EXCEPT !.apc = start]
  /\ req' = "waiting"
  /\ UNCHANGED <<dep, jobs, handle, live, sess, locks, unlocked, toTTL,
                 healthy, aborted>>

(* The tracker after a final answer ret at prefix-cache hit v. *)
Matched(v, ret) ==
  LET back == dep.replay /\ dep.whole /\ ret = NumChunks
      hit  == IF back THEN ret - 1 ELSE ret
  IN  IF ret = 0
        THEN [t EXCEPT !.vhit = v, !.ext = FALSE]
        ELSE [t EXCEPT !.vhit = v, !.lhit = hit, !.ext = hit > v,
                       !.pend = IF back THEN Append(@, <<hit, ret>>) ELSE @]

(* The prefix cache shrank below the boundary frozen at the submit. *)
Shrunk(v, ret) ==
  [t EXCEPT !.vhit = v, !.lhit = 0, !.apc = 0, !.full = TRUE,
            !.pend = IF ret > t.apc THEN Append(@, <<t.apc, ret>>) ELSE @]

(* get_num_new_matched_tokens with a lookup under way, or without servers: *)
(* check_lookup_result, then what its answer means for the tracker.  E are *)
(* the servers whose deadline has passed.                                  *)
Poll(v, E) ==
  LET open == tracked /\ healthy /\ ls.result = None
      mid  == Handled(Marked(ls), Answered(ls))
      asks == IF open THEN Requerying(Marked(ls), Answered(ls))
                             \cup {s \in Up : mid.phase[s] = "REQUERY"}
              ELSE {}
      m    == IF open THEN Checked(ls) ELSE ls
      l    == IF E = {} THEN m ELSE [m EXCEPT !.result = 0]
      ret  == IF tracked /\ healthy THEN l.result ELSE 0
      sent == IF open THEN {Query(s) : s \in asks} \cup Tails(m) ELSE {}
  IN
  /\ Polled /\ v \in CacheHit
  /\ tracked \/ ~ healthy
  /\ E \subseteq (IF "timeout" \in dep.faults /\ open /\ m.result = None THEN Waiting(m) \ asks ELSE {})
  /\ healthy' = (healthy /\ E = {})
  /\ toTTL' = (toTTL \/ E # {})
  /\ \/ /\ ret # None /\ t.apc > 0 /\ v < t.apc
        /\ t' = Shrunk(v, ret)
        /\ IF healthy' THEN Submitted(0, sent) ELSE Cleanup(sent) /\ UNCHANGED cur
        /\ req' = "waiting"
     \/ /\ ret # None /\ ~ (t.apc > 0 /\ v < t.apc)
        /\ t' = Matched(v, ret)
        /\ ls' = l /\ rpc' = rpc \cup sent
        /\ future' = IF tracked /\ l.result = None THEN Futures(l, asks) ELSE NoFutures
        /\ fresh' = Asked(asks, [s \in Servers |-> 0])
        /\ req' = "ready"
        /\ UNCHANGED <<cur, tracked>>
     \/ /\ ret = None
        /\ ls' = l /\ rpc' = rpc \cup sent /\ future' = Futures(l, asks)
        /\ fresh' = Asked(asks, [s \in Servers |-> 0])
        /\ req' = "waiting"
        /\ UNCHANGED <<cur, tracked, t>>
  /\ UNCHANGED <<dep, jobs, handle, live, sess, locks, unlocked, aborted>>

(* update_state_after_alloc *)
FreeEnd(load) == IF t.lhit = 0 THEN 0 ELSE IF load THEN t.vhit ELSE t.lhit
Alloc ==
  LET load == t.ext /\ t.lhit > t.vhit
      end  == FreeEnd(load)
  IN
  /\ req = "ready" /\ t.state = "PREFETCHING"
  /\ Cleanup(IF healthy /\ (end > 0 \/ t.pend # <<>>)
               THEN {Free(s, FALSE, 0, end, t.pend) : s \in Up} ELSE {})
  /\ t' = [t EXCEPT !.state = IF load THEN "WAITING_FOR_LOAD" ELSE "READY",
                    !.pend = <<>>]
  /\ req' = IF load THEN "loading" ELSE "running"
  /\ UNCHANGED <<dep, jobs, handle, live, sess, locks, unlocked, toTTL,
                 cur, healthy, aborted>>

AllocBypass ==
  /\ req = "ready" /\ t.state = "BYPASS_LMCACHE"
  /\ t' = [t EXCEPT !.state = "READY"]
  /\ req' = "running"
  /\ UNCHANGED <<svars, cur, tracked, ls, healthy, fresh, aborted>>

(* Mutation: the load starts at token zero, not after the engine's own hit. *)
LoadMutant(s) ==
  [kind |-> "RETRIEVE", s |-> s, n |-> cur, pc |-> "sent", lo |-> 0, hi |-> t.lhit]

(* GetRetrieveMetadata: what lies between the two hits. *)
Load(s) ==
  [kind |-> "RETRIEVE", s |-> s, n |-> cur, pc |-> "sent", lo |-> t.vhit, hi |-> t.lhit]

(* build_connector_meta hands the load to the workers of every server;     *)
(* without a healthy server the load is dropped and reported as failed.    *)
BuildMeta ==
  /\ t.state = "WAITING_FOR_LOAD"
  /\ t' = [t EXCEPT !.state = "READY"]
  /\ rpc' = rpc \cup (IF healthy THEN {Load(s) : s \in Up} ELSE {})
  /\ req' = IF healthy THEN "loading" ELSE "reset"
  /\ UNCHANGED <<dep, jobs, handle, live, sess, locks, future, unlocked, toTTL,
                 cur, tracked, ls, healthy, fresh, aborted>>

(* The loads are reported; a failed one resets the request to token zero. *)
LoadFinishes ==
  /\ req = "loading" /\ t.state = "READY"
  /\ ~ \E r \in rpc : r.kind = "RETRIEVE"
  /\ req' \in {"running"} \cup (IF "load" \in dep.faults THEN {"reset"} ELSE {})
  /\ UNCHANGED <<svars, cur, tracked, ls, healthy, t, fresh, aborted>>

(* get_num_new_matched_tokens after a failed load *)
PollReset ==
  /\ req = "reset" /\ t.state = "READY" /\ t.lhit > 0
  /\ Cleanup({})
  /\ t' = [t EXCEPT !.vhit = 0, !.lhit = 0, !.apc = 0, !.state = "BYPASS_LMCACHE"]
  /\ req' = "ready"
  /\ UNCHANGED <<dep, jobs, handle, live, sess, locks, unlocked, toTTL,
                 cur, healthy, aborted>>

(* A preempted request is polled again with a new tracker. *)
Preempt ==
  /\ req = "running" /\ t.state = "READY"
  /\ cur < MaxLookups
  /\ t' = FreshTracker
  /\ req' = "waiting"
  /\ UNCHANGED <<svars, cur, tracked, ls, healthy, fresh, aborted>>

(* request_finished: the lookup is dropped first, then the session ended. *)
Finish ==
  /\ req # "done" /\ t.state # "WAITING_FOR_LOAD"
  /\ Cleanup(IF healthy THEN {[kind |-> "END", s |-> s, n |-> cur, pc |-> "sent"] :
                                s \in Up} ELSE {})
  /\ t' = FreshTracker
  /\ req' = "done"
  /\ aborted' = (req \in {"waiting", "ready"})
  /\ UNCHANGED <<dep, jobs, handle, live, sess, locks, unlocked, toTTL,
                 cur, healthy>>

(* The heartbeat of a server fails, and later succeeds again. *)
HealthChanges ==
  /\ "health" \in dep.faults
  /\ healthy' = ~ healthy
  /\ toTTL' = TRUE
  /\ UNCHANGED <<dep, jobs, handle, live, sess, locks, rpc, future, unlocked,
                 cur, tracked, ls, t, req, fresh, aborted>>

Serve(s)      == (\E r \in rpc : r.s = s /\ Handler(r)) /\ UNCHANGED cvars
Prefetched(s) == /\ \E n \in Attempt, h \in 0 .. NumChunks : PrefetchDone(s, n, h)
                 /\ UNCHANGED cvars
Expires(s)    == req = "done" /\ SessionExpires(s) /\ UNCHANGED cvars
Scheduled     == \E v \in 0 .. NumChunks, E \in SUBSET Servers : Poll(v, E)
Terminated    == req = "done" /\ rpc = {} /\ UNCHANGED vars

Next ==
  \/ \E s \in Servers : Serve(s) \/ Prefetched(s) \/ Expires(s) \/ OnReply(s)
  \/ (\E r \in rpc : Fault(r)) /\ UNCHANGED cvars
  \/ \E v \in 0 .. NumChunks : Submit(v)
  \/ Scheduled \/ Alloc \/ AllocBypass \/ BuildMeta \/ LoadFinishes
  \/ PollReset \/ Preempt \/ Finish \/ HealthChanges \/ Terminated

(* The pools run every handler, the prefetch controller every task, the    *)
(* callback every completed future; vLLM polls what waits; the session     *)
(* manager's cleanup thread is periodic.                                   *)
Fairness ==
  /\ \A s \in Servers : /\ WF_vars(Serve(s)) /\ WF_vars(Prefetched(s))
                         /\ WF_vars(OnReply(s)) /\ WF_vars(Expires(s))
  /\ WF_vars(Scheduled)

Spec == Init /\ [][Next]_vars /\ Fairness

-----------------------------------------------------------------------------
(* free_lookup_locks and retrieve together release every read lock of the  *)
(* request at most once: a count below zero is the lock of another reader  *)
(* on a shared chunk (lookup.py: "guessing a range could strip a           *)
(* concurrent reader's lock").                                             *)
ReleasesOnlyOwnLocks ==
  \A s \in Servers, g \in Groups, c \in Chunk : locks[s][g][c] >= 0

(* Every chunk a retrieve reads is still locked by the lookup whose hit it *)
(* loads, on every server.                                                 *)
RetrieveIsLocked == ~ unlocked

(* A request that was scheduled and has ended leaves no lock behind, on    *)
(* any server, unless the code gave the locks up to the read-lock TTL (a   *)
(* release that met a running prefetch, a lost server).                    *)
NothingStaysLocked ==
  ( /\ req = "done" /\ rpc = {} /\ ~ aborted /\ ~ toTTL
    /\ \A s \in Servers, n \in Attempt : handle[s][n].state # "running" )
  => \A s \in Servers, g \in Groups, c \in Chunk : locks[s][g][c] = 0

(* What LookupState promises of QUERY_PREFETCH_STATUS: never before the    *)
(* server's LOOKUP has returned, at most one under way per server and one  *)
(* new one per scheduler check.                                            *)
QueriesAreRationed ==
  \A s \in Servers :
    /\ fresh[s] <= 1
    /\ Cardinality({r \in rpc : r.s = s /\ r.kind \in {"LOOKUP", "QUERY"} /\ r.n = cur}) <= 1

(* A request with a lookup under way does not wait for ever: some poll     *)
(* answers it with a number, or its lookup is dropped.                     *)
LookupIsAnswered ==
  (req = "waiting" /\ tracked) ~> (req # "waiting" \/ ~ tracked)

(* The session of a finished request is gone for good in the end, although *)
(* END_SESSION may overtake a handler that creates it again.               *)
SessionEnds == (req = "done") ~> [](\A s \in Servers : live[s] = 0)
=============================================================================
