--------------------------- MODULE AtomicTTLLock ---------------------------
(***************************************************************************)
(* What TTLLock promises (csrc/lmcache_native/ttl_lock.h): a counter and a *)
(* deadline that every operation changes in one step.  L1Manager reasons   *)
(* about its read and write locks at this level.                           *)
(***************************************************************************)
EXTENDS Integers

CONSTANTS TTL        \* lifetime of one acquisition, in clock ticks

VARIABLES counter, expiration, now

avars == <<counter, expiration, now>>

Init ==
    /\ counter = 0
    /\ expiration = 0
    /\ now = 0

\* lock() by a caller that read the clock at c.
Lock(c) ==
    /\ counter' = IF c >= expiration THEN 1 ELSE counter + 1
    /\ expiration' = c + TTL
    /\ UNCHANGED now

Unlock ==
    /\ counter > 0
    /\ counter' = counter - 1
    /\ UNCHANGED <<expiration, now>>

Reset ==
    /\ counter' = 0
    /\ expiration' = 0
    /\ UNCHANGED now

Tick ==
    /\ now' = now + 1
    /\ UNCHANGED <<counter, expiration>>

Next == (\E c \in 0..now : Lock(c)) \/ Unlock \/ Reset \/ Tick

Spec == Init /\ [][Next]_avars

\* is_locked() on one consistent snapshot.
Held == counter > 0 /\ now < expiration
=============================================================================
