----------------------------- MODULE RegionState -----------------------------
(***************************************************************************)
(* memory_orchestrator/state.py: the allocation and readiness authority of *)
(* one shared memory region. Extents are handed out from a bump pointer    *)
(* that never moves back, so the extent of an object that was aborted,     *)
(* expired or retired stays consumed. Each method runs under one lock and  *)
(* is one action; a call that raises StateError changes nothing and is no  *)
(* step here. Sizes are in units of the region's alignment.                *)
(***************************************************************************)
EXTENDS Naturals, FiniteSets, Sequences

CONSTANTS Clients, Incarnations, Keys,
          Shapes,          \* layout and payload size of an object
          Length,          \* Length[s]: aligned size of an object of shape s
          Capacity, Tokens,
          MaxCompleted,    \* completed tokens remembered per client
          MaxBatch,        \* max_batch_entries
          MaxReaders,      \* leases one read entry may ask for
          None

VARIABLES objects,      \* Keys -> the WRITING or VALID object, or None
          clients,      \* Clients -> the registered incarnation, or None
          allocated,    \* the bump pointer
          validUnits, consumed,   \* the counters of usage()
          issued        \* tokens drawn so far; secrets.token_bytes repeats none

rvars == <<objects, clients, allocated, validUnits, consumed, issued>>

Ops == {"FINISH_WRITE", "ABORT_WRITE", "FINISH_READ"}

\* lapsed: the deadline of a WRITING object has passed.
Object == [state : {"WRITING", "VALID"}, off : Nat, shape : Shapes,
           writer : Clients, token : Tokens, lapsed : BOOLEAN]

Completions == Seq(Tokens \X Ops)

\* writes and leases: live token -> key; completed: oldest first.
Client == [inc : Incarnations, writes : [Tokens -> Keys \cup {None}],
           leases : [Tokens -> Keys \cup {None}], completed : Completions]

ASSUME RegionAssumption ==
    /\ Length \in [Shapes -> Nat \ {0}]
    /\ Capacity \in Nat /\ MaxReaders \in Nat /\ MaxCompleted \in Nat
    /\ None \notin Keys /\ None \notin Object /\ None \notin Client

NewClient(inc) ==
    [inc |-> inc, writes |-> [t \in Tokens |-> None],
     leases |-> [t \in Tokens |-> None], completed |-> <<>>]

NoObjects == [k \in Keys |-> None]
NoClients == [c \in Clients |-> None]

RInit ==
    /\ objects = NoObjects /\ clients = NoClients
    /\ allocated = 0 /\ validUnits = 0 /\ consumed = 0
    /\ issued = {}

\* A new orchestrator process constructs a new RegionState.
RReset ==
    /\ objects' = NoObjects /\ clients' = NoClients
    /\ allocated' = 0 /\ validUnits' = 0 /\ consumed' = 0
    /\ issued' = {}

Registered(c, inc) == clients[c] # None /\ clients[c].inc = inc

Units(off, s) == off .. (off + Length[s] - 1)
Extent(k) == Units(objects[k].off, objects[k].shape)

Held(f) == {t \in Tokens : f[t] # None}

----------------------------------------------------------------------------
\* Expiry is lazy: the next access to the key consumes the object.

Lapsed(k) == objects[k] # None /\ objects[k].state = "WRITING" /\ objects[k].lapsed

Expired(S) == {k \in S : Lapsed(k)}

\* Removes the objects S, which are WRITING, from the index and the entry of
\* each from its writer's live tokens.
ClientsWithoutMutant(S) == clients
ClientsWithout(S) ==
    [c \in Clients |->
        IF clients[c] = None THEN None
        ELSE [clients[c] EXCEPT !.writes =
                 [t \in Tokens |->
                     IF \E k \in S : objects[k].writer = c /\ objects[k].token = t
                     THEN None ELSE clients[c].writes[t]]]]

ObjectsWithout(S) == [k \in Keys |-> IF k \in S THEN None ELSE objects[k]]

\* The deadline of a reservation passes.
Lapse(k) ==
    /\ objects[k] # None /\ objects[k].state = "WRITING" /\ ~objects[k].lapsed
    /\ objects' = [objects EXCEPT ![k].lapsed = TRUE]
    /\ UNCHANGED <<clients, allocated, validUnits, consumed, issued>>

----------------------------------------------------------------------------
\* register_client and close_client

\* _retire: the writes of the registered incarnation become CONSUMED.
Retired(c) == IF clients[c] = None THEN {}
              ELSE {clients[c].writes[t] : t \in Held(clients[c].writes)}

RegisterClient(c, inc) ==
    /\ IF Registered(c, inc) THEN UNCHANGED <<objects, clients, consumed>>
       ELSE /\ objects' = ObjectsWithout(Retired(c))
            /\ clients' = [clients EXCEPT ![c] = NewClient(inc)]
            /\ consumed' = consumed + Cardinality(Retired(c))
    /\ UNCHANGED <<allocated, validUnits, issued>>

CloseClient(c, inc) ==
    /\ Registered(c, inc)
    /\ objects' = ObjectsWithout(Retired(c))
    /\ clients' = [clients EXCEPT ![c] = None]
    /\ consumed' = consumed + Cardinality(Retired(c))
    /\ UNCHANGED <<allocated, validUnits, issued>>

----------------------------------------------------------------------------
\* reserve_write: shape gives the layout of each key of the batch.

Mismatched(shape) ==
    \E k \in DOMAIN shape :
        objects[k] # None /\ objects[k].shape # shape[k] /\ ~Lapsed(k)

Absent(S) == {k \in S : objects[k] = None \/ Lapsed(k)}

\* The extents off[k] follow each other from lo up to hi in some batch order.
Tiles(off, shape, lo, hi) ==
    /\ UNION {Units(off[k], shape[k]) : k \in DOMAIN off} = lo .. (hi - 1)
    /\ \A j, k \in DOMAIN off :
          j # k => Units(off[j], shape[j]) \cap Units(off[k], shape[k]) = {}

Placements(S, shape, hi) ==
    {off \in [S -> allocated .. Capacity] : Tiles(off, shape, allocated, hi)}

\* Fresh tokens, one for each member of S; which ones does not matter.
FreshTokens(S) ==
    {f \in [S -> Tokens \ issued] : \A x, y \in S : x # y => f[x] # f[y]}

WriteFits(shape) ==
    \E hi \in allocated .. Capacity : Placements(Absent(DOMAIN shape), shape, hi) # {}

\* Some absent entry finds no room: all of them get OUT_OF_SPACE.
ReserveWriteOutOfSpace(c, inc, shape) ==
    /\ Registered(c, inc) /\ Cardinality(DOMAIN shape) <= MaxBatch
    /\ ~Mismatched(shape) /\ ~WriteFits(shape)
    /\ objects' = ObjectsWithout(Expired(DOMAIN shape))
    /\ clients' = ClientsWithout(Expired(DOMAIN shape))
    /\ consumed' = consumed + Cardinality(Expired(DOMAIN shape))
    /\ UNCHANGED <<allocated, validUnits, issued>>

\* VALID keys answer EXISTS_VALID, WRITING ones BUSY_WRITING, the absent ones
\* are granted.
ReserveWrite(c, inc, shape) ==
    LET S == Absent(DOMAIN shape)
        D == Expired(DOMAIN shape)
    IN
    /\ Registered(c, inc) /\ Cardinality(DOMAIN shape) <= MaxBatch
    /\ ~Mismatched(shape)
    /\ FreshTokens(S) # {}
    /\ \E hi \in allocated .. Capacity : \E off \in Placements(S, shape, hi) :
       LET token == CHOOSE f \in FreshTokens(S) : TRUE IN
       /\ allocated' = hi
       /\ objects' = [k \in Keys |->
             IF k \in S
             THEN [state |-> "WRITING", off |-> off[k], shape |-> shape[k],
                   writer |-> c, token |-> token[k], lapsed |-> FALSE]
             ELSE objects[k]]
       /\ clients' = [ClientsWithout(D) EXCEPT ![c].writes =
             [t \in Tokens |-> IF \E k \in S : token[k] = t
                               THEN CHOOSE k \in S : token[k] = t
                               ELSE ClientsWithout(D)[c].writes[t]]]
       /\ issued' = issued \cup {token[k] : k \in S}
    /\ consumed' = consumed + Cardinality(D)
    /\ UNCHANGED validUnits

----------------------------------------------------------------------------
\* finish_write, abort_write and finish_read on one token; a batch of tokens
\* is a run of these under one lock.

Completion(c, t, op) ==
    LET all == Append(clients[c].completed, <<t, op>>) IN
    IF Len(all) > MaxCompleted THEN Tail(all) ELSE all

CompletedBefore(c, t, op) ==
    \E i \in DOMAIN clients[c].completed : clients[c].completed[i] = <<t, op>>

\* The status a call gets for a token.
TokenStatusMutant(c, t, op) ==
    LET live == IF op = "FINISH_READ" THEN clients[c].leases[t] # None
                ELSE clients[c].writes[t] # None
    IN IF live \/ CompletedBefore(c, t, op) THEN "OK" ELSE "STALE_TOKEN"
TokenStatus(c, t, op) ==
    LET live == IF op = "FINISH_READ" THEN clients[c].leases[t] # None
                ELSE clients[c].writes[t] # None /\ ~Lapsed(clients[c].writes[t])
    IN IF live \/ CompletedBefore(c, t, op) THEN "OK" ELSE "STALE_TOKEN"

\* A live write token commits its object or gives it up.
CompleteWrite(c, t, op) ==
    LET k == clients[c].writes[t] IN
    /\ clients[c].writes[t] # None /\ ~Lapsed(k)
    /\ clients' = [clients EXCEPT ![c].writes[t] = None,
                                  ![c].completed = Completion(c, t, op)]
    /\ IF op = "FINISH_WRITE"
       THEN /\ objects' = [objects EXCEPT ![k].state = "VALID"]
            /\ validUnits' = validUnits + Length[objects[k].shape]
            /\ UNCHANGED consumed
       ELSE /\ objects' = [objects EXCEPT ![k] = None]
            /\ consumed' = consumed + 1
            /\ UNCHANGED validUnits

\* The token's reservation has expired: the access consumes it.
CompleteExpired(c, t) ==
    LET k == clients[c].writes[t] IN
    /\ clients[c].writes[t] # None /\ Lapsed(k)
    /\ objects' = ObjectsWithout({k})
    /\ clients' = ClientsWithout({k})
    /\ consumed' = consumed + 1
    /\ UNCHANGED validUnits

CompleteTokens(c, inc, t, op) ==
    /\ Registered(c, inc)
    /\ IF op = "FINISH_READ"
       THEN /\ clients' = IF clients[c].leases[t] = None THEN clients
                          ELSE [clients EXCEPT ![c].leases[t] = None,
                                               ![c].completed = Completion(c, t, op)]
            /\ UNCHANGED <<objects, validUnits, consumed>>
       ELSE \/ CompleteWrite(c, t, op)
            \/ CompleteExpired(c, t)
            \/ clients[c].writes[t] = None /\ UNCHANGED <<objects, clients, validUnits, consumed>>
    /\ UNCHANGED <<allocated, issued>>

----------------------------------------------------------------------------
\* reserve_read of the keys S, with n leases for each VALID one.

Readable(S) == {k \in S : objects[k] # None /\ objects[k].state = "VALID"}

ReserveRead(c, inc, S, n) ==
    LET lease == Readable(S) \X (1 .. n)
        D == Expired(S)
    IN
    /\ Registered(c, inc) /\ Cardinality(S) <= MaxBatch
    /\ FreshTokens(lease) # {}
    /\ LET token == CHOOSE f \in FreshTokens(lease) : TRUE IN
       /\ clients' = [ClientsWithout(D) EXCEPT ![c].leases =
             [t \in Tokens |-> IF \E x \in lease : token[x] = t
                               THEN (CHOOSE x \in lease : token[x] = t)[1]
                               ELSE clients[c].leases[t]]]
       /\ issued' = issued \cup {token[x] : x \in lease}
    /\ objects' = ObjectsWithout(D)
    /\ consumed' = consumed + Cardinality(D)
    /\ UNCHANGED <<allocated, validUnits>>

----------------------------------------------------------------------------
\* What any MP servers may make of one RegionState after another.

Batches == UNION {[S -> Shapes] : S \in SUBSET Keys}

RNext ==
    \/ \E c \in Clients, inc \in Incarnations :
          \/ RegisterClient(c, inc)
          \/ CloseClient(c, inc)
          \/ \E shape \in Batches :
                ReserveWrite(c, inc, shape) \/ ReserveWriteOutOfSpace(c, inc, shape)
          \/ \E t \in Tokens, op \in Ops : CompleteTokens(c, inc, t, op)
          \/ \E S \in SUBSET Keys, n \in 0 .. MaxReaders : ReserveRead(c, inc, S, n)
    \/ \E k \in Keys : Lapse(k)
    \/ RReset

RSpec == RInit /\ [][RNext]_rvars

----------------------------------------------------------------------------
\* Properties

\* Live write tokens and WRITING objects correspond one to one: the lazy
\* expiry in _get_object and _retire delete both sides without looking, and
\* would raise KeyError or leave a token that commits another's object.
TokensMatchObjects ==
    /\ \A k \in Keys : objects[k] # None /\ objects[k].state = "WRITING" =>
          clients[objects[k].writer] # None /\ clients[objects[k].writer].writes[objects[k].token] = k
    /\ \A c \in Clients : clients[c] # None =>
          \A t \in Held(clients[c].writes) : LET k == clients[c].writes[t] IN
              objects[k] # None /\ objects[k].state = "WRITING"
              /\ objects[k].writer = c /\ objects[k].token = t

\* The live objects lie below the bump pointer and no two share a unit
\* (reserve_write's offsets).
ExtentsAreDisjoint ==
    /\ allocated <= Capacity
    /\ \A k \in Keys : objects[k] # None => objects[k].off + Length[objects[k].shape] <= allocated
    /\ \A j, k \in Keys :
          j # k /\ objects[j] # None /\ objects[k] # None => Extent(j) \cap Extent(k) = {}

\* Until a new process takes the region over, a newly granted extent was never
\* granted before and a committed object stays as it is: the extent a slow
\* writer lost to expiry or retirement is never handed out again.
FreshStep ==
    /\ allocated <= allocated'
    /\ \A k \in Keys :
         /\ objects'[k] # None /\ (objects[k] = None \/ objects'[k].token # objects[k].token)
              => allocated <= objects'[k].off
         /\ objects[k] # None /\ objects[k].state = "VALID" => objects'[k] = objects[k]

ExtentsAreFresh == [][RReset \/ FreshStep]_rvars
=============================================================================
