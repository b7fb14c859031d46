------------------------------ MODULE TTLLock ------------------------------
(***************************************************************************)
(* TTLLock::lock / unlock / is_locked / reset, one step per atomic access  *)
(* to counter_ and expiration_ms_ (ttl_lock.cpp).  The clock advances      *)
(* between any two accesses.                                               *)
(*                                                                         *)
(* Serialized = TRUE is how BaseL1Manager uses the lock: every mutator     *)
(* runs under the manager's own lock, and only is_locked() runs            *)
(* concurrently with them (is_key_evictable).  FALSE is the use the header *)
(* allows: "All operations are thread-safe".                               *)
(***************************************************************************)
EXTENDS Integers, FiniteSets

CONSTANTS Lockers,     \* threads that call lock(), unlock() and reset()
          Checkers,    \* threads that call is_locked()
          TTL,         \* ttl_ms_
          MaxTime,     \* bound on the clock
          Serialized   \* BOOLEAN, see above

ASSUME TTLAssumption == TTL \in Nat \ {0} /\ MaxTime \in Nat /\ Serialized \in BOOLEAN

VARIABLES
    counter,      \* counter_
    expiration,   \* expiration_ms_
    now,          \* the steady clock
    pc,           \* where each thread is in its current call
    cur,          \* current_time of the call
    oldExp,       \* old_expiration
    oldCnt,       \* old_counter
    deadline,     \* ghost: until when the thread counts on its acquisition, 0 if it has none
    sawFree       \* ghost: nobody counted on the lock at some moment of the is_locked() call

vars == <<counter, expiration, now, pc, cur, oldExp, oldCnt, deadline, sawFree>>
Threads == Lockers \cup Checkers
locals == <<cur, oldExp, oldCnt, deadline>>

Mutating == {"lock_load_exp", "lock_load_cnt", "lock_cas_exp", "lock_set_cnt",
             "lock_cas_cnt", "lock_set_exp", "unlock_load", "unlock_cas", "reset_exp"}
Reading == {"is_load_exp", "is_load_cnt", "said_free", "said_locked"}

\* The threads that returned from lock(), did not call unlock() and are within their TTL.
Live == {t \in Threads : now < deadline[t]}

TypeOK ==
    /\ counter \in Nat /\ expiration \in Nat /\ now \in 0..MaxTime
    /\ pc \in [Threads -> Mutating \cup Reading \cup {"idle"}]
    /\ cur \in [Threads -> 0..MaxTime]
    /\ oldExp \in [Threads -> Nat] /\ oldCnt \in [Threads -> Nat]
    /\ deadline \in [Threads -> Nat]
    /\ sawFree \in [Threads -> BOOLEAN]

Init ==
    /\ counter = 0 /\ expiration = 0 /\ now = 0
    /\ pc = [t \in Threads |-> "idle"]
    /\ cur = [t \in Threads |-> 0]
    /\ oldExp = [t \in Threads |-> 0] /\ oldCnt = [t \in Threads |-> 0]
    /\ deadline = [t \in Threads |-> 0]
    /\ sawFree = [t \in Threads |-> FALSE]

Goto(t, l) == pc' = [pc EXCEPT ![t] = l]

\* Every step records, for the running is_locked() calls, whether the lock is in use.
Observe ==
    sawFree' = [t \in Threads |-> pc'[t] \in Reading /\ (sawFree[t] \/ Live' = {})]

\* The locals of a call that is over.
Forget(t) ==
    /\ cur' = [cur EXCEPT ![t] = 0]
    /\ oldExp' = [oldExp EXCEPT ![t] = 0]
    /\ oldCnt' = [oldCnt EXCEPT ![t] = 0]

\* A mutator may start: never during a reset(), alone if the callers serialize themselves.
MayMutate(t) ==
    /\ pc[t] = "idle"
    /\ \A u \in Threads : pc[u] # "reset_exp"
    /\ Serialized => \A u \in Threads : pc[u] \notin Mutating

----------------------------------------------------------------------------
\* lock()

LockCall(t) ==
    /\ MayMutate(t)
    /\ deadline[t] = 0
    /\ cur' = [cur EXCEPT ![t] = now]
    /\ Goto(t, "lock_load_exp")
    /\ UNCHANGED <<counter, expiration, now, oldExp, oldCnt, deadline>>
    /\ Observe

LockLoadExp(t) ==
    /\ pc[t] = "lock_load_exp"
    /\ oldExp' = [oldExp EXCEPT ![t] = expiration]
    /\ Goto(t, "lock_load_cnt")
    /\ UNCHANGED <<counter, expiration, now, cur, oldCnt, deadline>>
    /\ Observe

LockLoadCnt(t) ==
    /\ pc[t] = "lock_load_cnt"
    /\ oldCnt' = [oldCnt EXCEPT ![t] = counter]
    /\ Goto(t, IF cur[t] >= oldExp[t] THEN "lock_cas_exp" ELSE "lock_cas_cnt")
    /\ UNCHANGED <<counter, expiration, now, cur, oldExp, deadline>>
    /\ Observe

\* The acquisition is the thread's from the moment lock() returns.
Return(t) ==
    /\ Goto(t, "idle")
    /\ deadline' = [deadline EXCEPT ![t] = cur[t] + TTL]
    /\ Forget(t)

LockCasExp(t) ==
    /\ pc[t] = "lock_cas_exp"
    /\ IF expiration = oldExp[t]
       THEN expiration' = cur[t] + TTL /\ Goto(t, "lock_set_cnt")
       ELSE UNCHANGED expiration /\ Goto(t, "lock_load_exp")
    /\ UNCHANGED <<counter, now, locals>>
    /\ Observe

\* Mutation: the expired lock is incremented instead of restarted at 1.
LockSetCntMutant(t) ==
    /\ pc[t] = "lock_set_cnt"
    /\ counter' = counter + 1
    /\ Return(t)
    /\ UNCHANGED <<expiration, now>>
    /\ Observe

LockSetCnt(t) ==
    /\ pc[t] = "lock_set_cnt"
    /\ counter' = 1
    /\ Return(t)
    /\ UNCHANGED <<expiration, now>>
    /\ Observe

\* Mutation: a live lock is restarted at 1 instead of incremented.
LockCasCntMutant(t) ==
    /\ pc[t] = "lock_cas_cnt"
    /\ counter' = 1
    /\ Goto(t, "lock_set_exp")
    /\ UNCHANGED <<expiration, now, locals>>
    /\ Observe

LockCasCnt(t) ==
    /\ pc[t] = "lock_cas_cnt"
    /\ IF counter = oldCnt[t]
       THEN counter' = counter + 1 /\ Goto(t, "lock_set_exp")
       ELSE UNCHANGED counter /\ Goto(t, "lock_load_exp")
    /\ UNCHANGED <<expiration, now, locals>>
    /\ Observe

LockSetExp(t) ==
    /\ pc[t] = "lock_set_exp"
    /\ expiration' = cur[t] + TTL
    /\ Return(t)
    /\ UNCHANGED <<counter, now>>
    /\ Observe

----------------------------------------------------------------------------
\* unlock(), called by a thread whose acquisition has not outlived its TTL

UnlockCall(t) ==
    /\ MayMutate(t)
    /\ now < deadline[t]
    /\ deadline' = [deadline EXCEPT ![t] = 0]
    /\ Goto(t, "unlock_load")
    /\ UNCHANGED <<counter, expiration, now, cur, oldExp, oldCnt>>
    /\ Observe

\* A thread whose acquisition lapsed drops it without a call.
Lapse(t) ==
    /\ pc[t] = "idle"
    /\ deadline[t] # 0 /\ now >= deadline[t]
    /\ deadline' = [deadline EXCEPT ![t] = 0]
    /\ UNCHANGED <<counter, expiration, now, pc, cur, oldExp, oldCnt>>
    /\ Observe

UnlockLoad(t) ==
    /\ pc[t] = "unlock_load"
    /\ oldCnt' = [oldCnt EXCEPT ![t] = counter]
    /\ Goto(t, IF counter = 0 THEN "idle" ELSE "unlock_cas")
    /\ UNCHANGED <<counter, expiration, now, cur, oldExp, deadline>>
    /\ Observe

UnlockCas(t) ==
    /\ pc[t] = "unlock_cas"
    /\ IF counter = oldCnt[t]
       THEN counter' = counter - 1 /\ Goto(t, "idle") /\ Forget(t)
       ELSE UNCHANGED <<counter, cur, oldExp, oldCnt>> /\ Goto(t, "unlock_load")
    /\ UNCHANGED <<expiration, now, deadline>>
    /\ Observe

----------------------------------------------------------------------------
\* is_locked()

IsLockedCall(t) ==
    /\ pc[t] = "idle"
    /\ cur' = [cur EXCEPT ![t] = now]
    /\ Goto(t, "is_load_exp")
    /\ UNCHANGED <<counter, expiration, now, oldExp, oldCnt, deadline>>
    /\ Observe

IsLockedLoadExp(t) ==
    /\ pc[t] = "is_load_exp"
    /\ oldExp' = [oldExp EXCEPT ![t] = expiration]
    /\ Goto(t, "is_load_cnt")
    /\ UNCHANGED <<counter, expiration, now, cur, oldCnt, deadline>>
    /\ Observe

\* Mutation: off by one in the counter test.
IsLockedLoadCntMutant(t) ==
    /\ pc[t] = "is_load_cnt"
    /\ Goto(t, IF counter > 1 /\ cur[t] < oldExp[t] THEN "said_locked" ELSE "said_free")
    /\ Forget(t)
    /\ UNCHANGED <<counter, expiration, now, deadline>>
    /\ Observe

IsLockedLoadCnt(t) ==
    /\ pc[t] = "is_load_cnt"
    /\ Goto(t, IF counter > 0 /\ cur[t] < oldExp[t] THEN "said_locked" ELSE "said_free")
    /\ Forget(t)
    /\ UNCHANGED <<counter, expiration, now, deadline>>
    /\ Observe

IsLockedReturn(t) ==
    /\ pc[t] \in {"said_free", "said_locked"}
    /\ Goto(t, "idle")
    /\ UNCHANGED <<counter, expiration, now, locals>>
    /\ Observe

----------------------------------------------------------------------------
\* reset(), called on a lock nobody counts on any more

ResetCall(t) ==
    /\ MayMutate(t)
    /\ \A u \in Threads : deadline[u] = 0 /\ pc[u] \notin Mutating
    /\ counter' = 0
    /\ Goto(t, "reset_exp")
    /\ UNCHANGED <<expiration, now, locals>>
    /\ Observe

ResetExp(t) ==
    /\ pc[t] = "reset_exp"
    /\ expiration' = 0
    /\ Goto(t, "idle")
    /\ UNCHANGED <<counter, now, locals>>
    /\ Observe

Tick ==
    /\ now < MaxTime
    /\ now' = now + 1
    /\ UNCHANGED <<counter, expiration, pc, locals>>
    /\ Observe

Locker(t) ==
    \/ LockCall(t) \/ LockLoadExp(t) \/ LockLoadCnt(t)
    \/ LockCasExp(t) \/ LockSetCnt(t) \/ LockCasCnt(t) \/ LockSetExp(t)
    \/ UnlockCall(t) \/ Lapse(t) \/ UnlockLoad(t) \/ UnlockCas(t)
    \/ ResetCall(t) \/ ResetExp(t)

Checker(t) ==
    IsLockedCall(t) \/ IsLockedLoadExp(t) \/ IsLockedLoadCnt(t) \/ IsLockedReturn(t)

Next ==
    \/ \E t \in Lockers : Locker(t)
    \/ \E t \in Checkers : Checker(t)
    \/ Tick

Spec == Init /\ [][Next]_vars

----------------------------------------------------------------------------
\* Properties

\* Between calls, lock() is never lost: the counter covers every thread that
\* returned from lock(), has not called unlock() and is within its TTL, and
\* the lock is held as long as there is such a thread (lock(), unlock()).
NoLostLock ==
    (\A t \in Threads : pc[t] \notin Mutating) =>
        /\ counter >= Cardinality(Live)
        /\ Live # {} => now < expiration

\* is_locked() runs concurrently with a mutator and reads the two words at
\* different moments.  When it answers "not locked" there was a moment of the
\* call at which nobody counted on the lock: the eviction filter never calls
\* evictable an object that stayed locked throughout (is_locked()).
FreeAnswerIsLinearizable ==
    \A t \in Checkers : pc[t] = "said_free" => sawFree[t]

\* With serialized mutators the lock behaves as one counter and one deadline
\* changed in single steps: lock() takes effect at its first write.
Atomic == INSTANCE AtomicTTLLock WITH
    counter <- IF \E t \in Threads : pc[t] = "lock_set_cnt" THEN 1 ELSE counter,
    expiration <- IF \E t \in Threads : pc[t] = "lock_set_exp"
                  THEN cur[CHOOSE t \in Threads : pc[t] = "lock_set_exp"] + TTL
                  ELSE IF \E t \in Threads : pc[t] = "reset_exp" THEN 0
                  ELSE expiration

\* The access-by-access TTLLock implements the atomic one (lock(), unlock(), reset()).
ImplementsAtomicTTLLock == Atomic!Spec
=============================================================================
