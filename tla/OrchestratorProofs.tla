-------------------------- MODULE OrchestratorProofs --------------------------
(***************************************************************************)
(* Proofs about the region state and the orchestrator for every set of     *)
(* clients, keys, shapes and tokens, every capacity, and every number of   *)
(* MP servers, processes, restarts, calls and epochs. First the region by  *)
(* itself: write tokens and WRITING objects correspond, the extents of     *)
(* live objects are disjoint, and no extent is granted twice. Then the     *)
(* inductive invariant OInv of the orchestrator, and that serving a        *)
(* request keeps it.                                                       *)
(***************************************************************************)
EXTENDS Orchestrator, Integers, TLAPS

RTypeOK ==
    /\ objects \in [Keys -> Object \cup {None}]
    /\ clients \in [Clients -> Client \cup {None}]
    /\ allocated \in Nat
    /\ issued \in SUBSET Tokens

\* A token that is held was drawn, so that a fresh one is held by nobody.
HeldIsIssued ==
    \A c \in Clients : clients[c] # None => Held(clients[c].writes) \subseteq issued

RInv == RTypeOK /\ HeldIsIssued /\ TokensMatchObjects /\ ExtentsAreDisjoint

----------------------------------------------------------------------------
\* Types of the pieces

\* The fields of an object that exists.
LEMMA ObjectTyped ==
    ASSUME RTypeOK, NEW k \in Keys, objects[k] # None
    PROVE  /\ objects[k] \in Object
           /\ objects[k].state \in {"WRITING", "VALID"}
           /\ objects[k].off \in Nat /\ objects[k].shape \in Shapes
           /\ objects[k].writer \in Clients /\ objects[k].token \in Tokens
           /\ Length[objects[k].shape] \in Nat /\ Length[objects[k].shape] > 0
BY RegionAssumption DEF RTypeOK, Object

\* The fields of a registered client.
LEMMA ClientTyped ==
    ASSUME RTypeOK, NEW c \in Clients, clients[c] # None
    PROVE  /\ clients[c] \in Client
           /\ clients[c].inc \in Incarnations
           /\ clients[c].writes \in [Tokens -> Keys \cup {None}]
           /\ clients[c].leases \in [Tokens -> Keys \cup {None}]
           /\ clients[c].completed \in Completions
BY Zenon DEF RTypeOK, Client

\* A client that has just registered is well typed.
LEMMA NewClientTyped ==
    ASSUME NEW inc \in Incarnations
    PROVE  NewClient(inc) \in Client /\ NewClient(inc) # None
<1>1. <<>> \in Completions
  BY DEF Completions
<1>2. [t \in Tokens |-> None] \in [Tokens -> Keys \cup {None}]
  BY Zenon
<1>3. NewClient(inc) \in Client
  BY Zenon, <1>1, <1>2 DEF NewClient, Client
<1> QED BY Zenon, <1>3, RegionAssumption

\* A client with other writes is a client.
LEMMA RewrittenTyped ==
    ASSUME NEW x \in Client, NEW w \in [Tokens -> Keys \cup {None}]
    PROVE  /\ [x EXCEPT !.writes = w] \in Client
           /\ [x EXCEPT !.writes = w] # None
           /\ [x EXCEPT !.writes = w].writes = w
           /\ [x EXCEPT !.writes = w].inc = x.inc
           /\ [x EXCEPT !.writes = w].leases = x.leases
BY Zenon, RegionAssumption DEF Client

\* Remembering a completed token keeps the list of completions well typed.
LEMMA CompletionTyped ==
    ASSUME RTypeOK, NEW c \in Clients, clients[c] # None, NEW t \in Tokens, NEW op \in Ops
    PROVE  Completion(c, t, op) \in Completions
<1> DEFINE Q == Tokens \X Ops
           s == clients[c].completed
           e == <<t, op>>
<1>1. s \in Seq(Q) /\ e \in Q
  BY Zenon, ClientTyped DEF Completions
<1> HIDE DEF Q, s, e
<1>2. Append(s, e) \in Seq(Q) /\ Append(s, e) # <<>>
  <2>1. Append(s, e) \in Seq(Q) /\ Len(Append(s, e)) = Len(s) + 1 /\ Len(s) \in Nat
    BY <1>1
  <2>2. Len(<<>>) = 0
    BY Zenon
  <2> QED BY <2>1, <2>2
<1>3. Tail(Append(s, e)) \in Seq(Q)
  BY <1>2
<1> QED BY Zenon, <1>2, <1>3 DEF Completion, Completions, Q, s, e

----------------------------------------------------------------------------
\* ClientsWithout and ObjectsWithout

RemainingWrites(c, S) ==
    [t \in Tokens |-> IF \E k \in S : objects[k].writer = c /\ objects[k].token = t
                      THEN None ELSE clients[c].writes[t]]

\* Removing objects takes their write tokens from the clients and leaves the rest.
LEMMA ClientsWithoutFacts ==
    ASSUME RTypeOK, NEW S \in SUBSET Keys
    PROVE  /\ ClientsWithout(S) \in [Clients -> Client \cup {None}]
           /\ \A c \in Clients : (ClientsWithout(S)[c] = None) <=> (clients[c] = None)
           /\ \A c \in Clients : clients[c] # None =>
                /\ ClientsWithout(S)[c] \in Client
                /\ ClientsWithout(S)[c].writes = RemainingWrites(c, S)
<1>1. ASSUME NEW c \in Clients, clients[c] # None
      PROVE  /\ ClientsWithout(S)[c] \in Client
             /\ ClientsWithout(S)[c] # None
             /\ ClientsWithout(S)[c].writes = RemainingWrites(c, S)
  <2>1. RemainingWrites(c, S) \in [Tokens -> Keys \cup {None}]
    BY Zenon, <1>1, ClientTyped DEF RemainingWrites
  <2>2. ClientsWithout(S)[c] = [clients[c] EXCEPT !.writes = RemainingWrites(c, S)]
    BY Zenon, <1>1 DEF ClientsWithout, RemainingWrites
  <2> QED BY <1>1, <2>1, <2>2, ClientTyped, RewrittenTyped
<1>2. ASSUME NEW c \in Clients, clients[c] = None PROVE ClientsWithout(S)[c] = None
  BY Zenon, <1>2 DEF ClientsWithout
<1>3. ClientsWithout(S) = [c \in Clients |-> ClientsWithout(S)[c]]
  BY Zenon DEF ClientsWithout
<1> QED BY Zenon, <1>1, <1>2, <1>3

\* Taking WRITING objects out of both maps keeps the correspondence.
MatchedIn(obj, cl) ==
    /\ \A k \in Keys : obj[k] # None /\ obj[k].state = "WRITING" =>
          cl[obj[k].writer] # None /\ cl[obj[k].writer].writes[obj[k].token] = k
    /\ \A c \in Clients : cl[c] # None =>
          \A t \in Tokens : cl[c].writes[t] # None =>
              /\ obj[cl[c].writes[t]] # None /\ obj[cl[c].writes[t]].state = "WRITING"
              /\ obj[cl[c].writes[t]].writer = c /\ obj[cl[c].writes[t]].token = t

\* TokensMatchObjects, of the state before and of the state after a step.
LEMMA MatchedForm ==
    /\ TokensMatchObjects <=> MatchedIn(objects, clients)
    /\ TokensMatchObjects' <=> MatchedIn(objects', clients')
BY SMTT(30) DEF TokensMatchObjects, MatchedIn, Held

\* Removing objects that are being written together with their tokens keeps the
\* tokens and the objects matched.
LEMMA WithoutMatched ==
    ASSUME RTypeOK, TokensMatchObjects, NEW S \in SUBSET Keys,
           \A k \in S : objects[k] # None /\ objects[k].state = "WRITING"
    PROVE  MatchedIn(ObjectsWithout(S), ClientsWithout(S))
<1> DEFINE O == ObjectsWithout(S)
           C == ClientsWithout(S)
<1>1. ASSUME NEW k \in Keys, O[k] # None, O[k].state = "WRITING"
      PROVE  C[O[k].writer] # None /\ C[O[k].writer].writes[O[k].token] = k
  <2>1. k \notin S /\ O[k] = objects[k]
    BY Zenon, <1>1 DEF ObjectsWithout
  <2>2. PICK w \in Clients : w = objects[k].writer
    BY Zenon, <1>1, <2>1, ObjectTyped
  <2>3. PICK t \in Tokens : t = objects[k].token
    BY Zenon, <1>1, <2>1, ObjectTyped
  <2>4. clients[w] # None /\ clients[w].writes[t] = k
    BY Zenon, <1>1, <2>1, <2>2, <2>3 DEF TokensMatchObjects
  <2>5. ~ \E j \in S : objects[j].writer = w /\ objects[j].token = t
    BY <2>1, <2>4 DEF TokensMatchObjects
  <2>6. C[w] # None /\ C[w].writes = RemainingWrites(w, S)
    BY Zenon, <2>4, ClientsWithoutFacts
  <2>7. RemainingWrites(w, S)[t] = k
    BY Zenon, <2>4, <2>5 DEF RemainingWrites
  <2> QED BY Zenon, <2>1, <2>2, <2>3, <2>6, <2>7
<1>2. ASSUME NEW c \in Clients, C[c] # None, NEW t \in Tokens, C[c].writes[t] # None
      PROVE  /\ O[C[c].writes[t]] # None /\ O[C[c].writes[t]].state = "WRITING"
             /\ O[C[c].writes[t]].writer = c /\ O[C[c].writes[t]].token = t
  <2>1. clients[c] # None /\ C[c].writes = RemainingWrites(c, S)
    BY Zenon, <1>2, ClientsWithoutFacts
  <2>2. /\ C[c].writes[t] = clients[c].writes[t]
        /\ ~ \E j \in S : objects[j].writer = c /\ objects[j].token = t
    BY Zenon, <1>2, <2>1 DEF RemainingWrites
  <2>3. PICK k \in Keys : k = clients[c].writes[t]
    BY Zenon, <1>2, <2>1, <2>2, ClientTyped
  <2>4. objects[k] # None /\ objects[k].state = "WRITING" /\ objects[k].writer = c /\ objects[k].token = t
    BY Zenon, <1>2, <2>1, <2>2, <2>3 DEF TokensMatchObjects, Held
  <2>5. O[k] = objects[k]
    BY Zenon, <2>2, <2>4 DEF ObjectsWithout
  <2> QED BY Zenon, <2>2, <2>3, <2>4, <2>5
<1> QED BY Zenon, <1>1, <1>2 DEF MatchedIn

\* What remains was there: extents stay disjoint when no object is added or moved.
LEMMA ExtentsKept ==
    ASSUME RTypeOK, ExtentsAreDisjoint, allocated' = allocated,
           \A k \in Keys : objects'[k] # None =>
               /\ objects[k] # None
               /\ objects'[k].off = objects[k].off /\ objects'[k].shape = objects[k].shape
    PROVE  ExtentsAreDisjoint'
<1>1. ASSUME NEW j \in Keys, NEW k \in Keys, j # k, objects'[j] # None, objects'[k] # None
      PROVE  Extent(j)' \cap Extent(k)' = {}
  <2>1. Extent(j)' = Extent(j) /\ Extent(k)' = Extent(k)
    BY Zenon, <1>1 DEF Extent, Units
  <2> QED BY Zenon, <1>1, <2>1 DEF ExtentsAreDisjoint
<1>2. ASSUME NEW k \in Keys, objects'[k] # None
      PROVE  objects'[k].off + Length[objects'[k].shape] <= allocated'
  BY Zenon, <1>2 DEF ExtentsAreDisjoint
<1> QED BY Zenon, <1>1, <1>2 DEF ExtentsAreDisjoint

\* Fewer tokens are held, by the same clients.
LEMMA HeldWithout ==
    ASSUME RTypeOK, HeldIsIssued, NEW S \in SUBSET Keys
    PROVE  \A c \in Clients : ClientsWithout(S)[c] # None =>
               Held(ClientsWithout(S)[c].writes) \subseteq issued
<1> SUFFICES ASSUME NEW c \in Clients, ClientsWithout(S)[c] # None,
                    NEW t \in Tokens, ClientsWithout(S)[c].writes[t] # None
             PROVE  t \in issued
  BY Zenon DEF Held
<1>1. clients[c] # None /\ ClientsWithout(S)[c].writes = RemainingWrites(c, S)
  BY Zenon, ClientsWithoutFacts
<1>2. clients[c].writes[t] # None
  BY Zenon, <1>1 DEF RemainingWrites
<1> QED BY Zenon, <1>1, <1>2 DEF HeldIsIssued, Held

----------------------------------------------------------------------------
\* Each method preserves the invariant.

\* Removing objects leaves a table of the others.
LEMMA ObjectsWithoutTyped ==
    ASSUME RTypeOK, NEW S \in SUBSET Keys
    PROVE  /\ ObjectsWithout(S) \in [Keys -> Object \cup {None}]
           /\ \A k \in Keys : ObjectsWithout(S)[k] # None => ObjectsWithout(S)[k] = objects[k]
BY Zenon DEF RTypeOK, ObjectsWithout

\* Several WRITING objects are consumed, with their tokens.
LEMMA ConsumeSafe ==
    ASSUME RInv, NEW S \in SUBSET Keys,
           \A k \in S : objects[k] # None /\ objects[k].state = "WRITING",
           objects' = ObjectsWithout(S), clients' = ClientsWithout(S),
           allocated' = allocated, issued' = issued
    PROVE  RInv'
<1> USE DEF RInv
<1>1. RTypeOK'
  BY Zenon, ObjectsWithoutTyped, ClientsWithoutFacts DEF RTypeOK
<1>2. HeldIsIssued'
  BY Zenon, HeldWithout DEF HeldIsIssued
<1>3. TokensMatchObjects'
  BY Zenon, WithoutMatched, MatchedForm
<1>4. ExtentsAreDisjoint'
  BY Zenon, ObjectsWithoutTyped, ExtentsKept
<1> QED BY Zenon, <1>1, <1>2, <1>3, <1>4

\* Only objects that are being written expire.
LEMMA ExpiredWriting ==
    ASSUME NEW S \in SUBSET Keys
    PROVE  /\ Expired(S) \in SUBSET Keys
           /\ \A k \in Expired(S) : objects[k] # None /\ objects[k].state = "WRITING"
BY Zenon DEF Expired, Lapsed

\* A client that leaves takes with it only what it is writing itself.
LEMMA RetiredWriting ==
    ASSUME RInv, NEW c \in Clients
    PROVE  /\ Retired(c) \in SUBSET Keys
           /\ \A k \in Retired(c) : objects[k] # None /\ objects[k].state = "WRITING"
                                    /\ objects[k].writer = c
<1>1. CASE clients[c] = None
  BY Zenon, <1>1 DEF Retired
<1>2. CASE clients[c] # None
  <2>1. ASSUME NEW k \in Retired(c) PROVE k \in Keys /\ objects[k] # None
            /\ objects[k].state = "WRITING" /\ objects[k].writer = c
    <3>1. PICK t \in Held(clients[c].writes) : k = clients[c].writes[t]
      BY Zenon, <1>2, <2>1 DEF Retired
    <3>2. k \in Keys
      BY Zenon, <1>2, <3>1, ClientTyped DEF Held, RInv
    <3> QED BY <1>2, <3>1, <3>2 DEF RInv, TokensMatchObjects
  <2> QED BY Zenon, <2>1
<1> QED BY Zenon, <1>1, <1>2

\* The writes of c go and c is replaced by nothing or by a fresh incarnation.
LEMMA RetireSafe ==
    ASSUME RInv, NEW c \in Clients, NEW x \in Client \cup {None},
           x # None => \A t \in Tokens : x.writes[t] = None,
           objects' = ObjectsWithout(Retired(c)), clients' = [clients EXCEPT ![c] = x],
           allocated' = allocated, issued' = issued
    PROVE  RInv'
<1> USE DEF RInv
<1>0. /\ Retired(c) \in SUBSET Keys
      /\ \A k \in Retired(c) : objects[k] # None /\ objects[k].state = "WRITING"
                               /\ objects[k].writer = c
  BY Zenon, RetiredWriting
<1>1. RTypeOK'
  BY Zenon, <1>0, ObjectsWithoutTyped DEF RTypeOK
<1>2. HeldIsIssued'
  <2> SUFFICES ASSUME NEW d \in Clients, clients'[d] # None, NEW t \in Tokens,
                      clients'[d].writes[t] # None
               PROVE  t \in issued
    BY Zenon DEF HeldIsIssued, Held
  <2>1. d # c /\ clients'[d] = clients[d]
    BY SMTT(30) DEF RTypeOK
  <2> QED BY Zenon, <2>1 DEF HeldIsIssued, Held
<1>3. MatchedIn(objects', clients')
  <2>1. ASSUME NEW k \in Keys, objects'[k] # None, objects'[k].state = "WRITING"
        PROVE  /\ clients'[objects'[k].writer] # None
               /\ clients'[objects'[k].writer].writes[objects'[k].token] = k
    <3>1. k \notin Retired(c) /\ objects'[k] = objects[k]
      BY Zenon, <2>1 DEF ObjectsWithout
    <3>2. PICK w \in Clients : w = objects[k].writer
      BY Zenon, <2>1, <3>1, ObjectTyped
    <3>3. PICK t \in Tokens : t = objects[k].token
      BY SMTT(30), <2>1, <3>1, ObjectTyped
    <3>4. clients[w] # None /\ clients[w].writes[t] = k
      BY Zenon, <2>1, <3>1, <3>2, <3>3 DEF TokensMatchObjects
    <3>5. w # c
      BY SMTT(30), <3>1, <3>4, RegionAssumption DEF Retired, Held
    <3> QED BY Zenon, <3>1, <3>2, <3>3, <3>4, <3>5 DEF RTypeOK
  <2>2. ASSUME NEW d \in Clients, clients'[d] # None, NEW t \in Tokens,
               clients'[d].writes[t] # None
        PROVE  /\ objects'[clients'[d].writes[t]] # None
               /\ objects'[clients'[d].writes[t]].state = "WRITING"
               /\ objects'[clients'[d].writes[t]].writer = d
               /\ objects'[clients'[d].writes[t]].token = t
    <3>1. d # c /\ clients'[d] = clients[d]
      BY Zenon, <2>2 DEF RTypeOK
    <3>2. PICK k \in Keys : k = clients[d].writes[t]
      BY SMTT(30), <2>2, <3>1, ClientTyped
    <3>3. /\ objects[k] # None /\ objects[k].state = "WRITING"
          /\ objects[k].writer = d /\ objects[k].token = t
      BY <2>2, <3>1, <3>2 DEF TokensMatchObjects, Held
    <3>4. objects'[k] = objects[k]
      BY Zenon, <1>0, <3>1, <3>3 DEF ObjectsWithout
    <3> QED BY Zenon, <3>1, <3>2, <3>3, <3>4
  <2> QED BY <2>1, <2>2 DEF MatchedIn
<1>4. ExtentsAreDisjoint'
  BY Zenon, <1>0, ObjectsWithoutTyped, ExtentsKept
<1> QED BY Zenon, <1>1, <1>2, <1>3, <1>4, MatchedForm

\* register_client, which retires the client's earlier incarnation.
LEMMA RegisterSafe ==
    ASSUME RInv, NEW c \in Clients, NEW inc \in Incarnations, RegisterClient(c, inc)
    PROVE  RInv'
<1>1. CASE Registered(c, inc)
  BY Zenon, <1>1, MatchedForm DEF RegisterClient, RInv, RTypeOK, HeldIsIssued, ExtentsAreDisjoint, Extent, Units
<1>2. CASE ~Registered(c, inc)
  <2>1. \A t \in Tokens : NewClient(inc).writes[t] = None
    BY Zenon DEF NewClient
  <2> QED BY Zenon, <1>2, <2>1, NewClientTyped, RetireSafe DEF RegisterClient
<1> QED BY Zenon, <1>1, <1>2

\* close_client.
LEMMA CloseSafe ==
    ASSUME RInv, NEW c \in Clients, NEW inc \in Incarnations, CloseClient(c, inc)
    PROVE  RInv'
BY Zenon, RetireSafe DEF CloseClient

\* A write lease runs out.
LEMMA LapseSafe ==
    ASSUME RInv, NEW k \in Keys, Lapse(k)
    PROVE  RInv'
<1> USE DEF RInv
<1>0. objects[k] \in Object
  BY Zenon, ObjectTyped DEF Lapse
<1>1. /\ objects' \in [Keys -> Object \cup {None}]
      /\ \A j \in Keys : j # k => objects'[j] = objects[j]
      /\ objects'[k] \in Object
      /\ objects'[k].state = objects[k].state /\ objects'[k].off = objects[k].off
      /\ objects'[k].shape = objects[k].shape /\ objects'[k].writer = objects[k].writer
      /\ objects'[k].token = objects[k].token
  <2>1. [objects[k] EXCEPT !.lapsed = TRUE] \in Object
    BY Zenon, <1>0 DEF Object
  <2>2. objects' = [objects EXCEPT ![k] = [objects[k] EXCEPT !.lapsed = TRUE]]
    BY Zenon DEF Lapse
  <2> QED BY Zenon, <1>0, <2>1, <2>2 DEF RTypeOK, Object
<1>2. RTypeOK' /\ HeldIsIssued'
  BY Zenon, <1>1 DEF RTypeOK, HeldIsIssued, Lapse
<1>3. \A j \in Keys : objects'[j] # None => objects[j] # None
  BY Zenon, <1>0, <1>1, RegionAssumption
<1>4. ExtentsAreDisjoint'
  BY Zenon, <1>1, <1>3, ExtentsKept DEF Lapse
<1>5. MatchedIn(objects, clients)
  BY Zenon, MatchedForm
<1>6. MatchedIn(objects', clients')
  <2>1. ASSUME NEW j \in Keys, objects'[j] # None, objects'[j].state = "WRITING"
        PROVE  /\ clients'[objects'[j].writer] # None
               /\ clients'[objects'[j].writer].writes[objects'[j].token] = j
    BY SMTT(30), <1>1, <1>3, <1>5, <2>1 DEF MatchedIn, Lapse
  <2>2. ASSUME NEW d \in Clients, clients'[d] # None, NEW t \in Tokens,
               clients'[d].writes[t] # None
        PROVE  /\ objects'[clients'[d].writes[t]] # None
               /\ objects'[clients'[d].writes[t]].state = "WRITING"
               /\ objects'[clients'[d].writes[t]].writer = d
               /\ objects'[clients'[d].writes[t]].token = t
    <3>1. clients[d] # None /\ clients'[d] = clients[d]
      BY Zenon, <2>2 DEF Lapse
    <3>2. PICK j \in Keys : j = clients[d].writes[t]
      BY <2>2, <3>1, ClientTyped
    <3>3. /\ objects[j] # None /\ objects[j].state = "WRITING"
          /\ objects[j].writer = d /\ objects[j].token = t
      BY SMTT(30), <1>5, <2>2, <3>1, <3>2 DEF MatchedIn
    <3> QED BY <1>1, <3>1, <3>2, <3>3, RegionAssumption
  <2> QED BY SMTT(30), <2>1, <2>2 DEF MatchedIn
<1> QED BY Zenon, <1>2, <1>4, <1>6, MatchedForm

\* The index and the held tokens as they stand, whatever else changed in the
\* records of the clients.
LEMMA SameWrites ==
    ASSUME NEW obj, NEW cl, NEW cl2, MatchedIn(obj, cl),
           \A c \in Clients : (cl2[c] = None) <=> (cl[c] = None),
           \A c \in Clients : cl[c] # None => cl2[c].writes = cl[c].writes,
           \A k \in Keys : obj[k] # None => obj[k].writer \in Clients
    PROVE  MatchedIn(obj, cl2)
BY DEF MatchedIn

\* reserve_read leases valid objects under fresh tokens.
LEMMA ReserveReadSafe ==
    ASSUME RInv, NEW c \in Clients, NEW inc \in Incarnations, NEW S \in SUBSET Keys,
           NEW n \in 0 .. MaxReaders, ReserveRead(c, inc, S, n)
    PROVE  RInv'
<1> USE DEF RInv
<1> DEFINE D == Expired(S)
           lease == Readable(S) \X (1 .. n)
           token == CHOOSE f \in FreshTokens(lease) : TRUE
           L == [t \in Tokens |-> IF \E x \in lease : token[x] = t
                                  THEN (CHOOSE x \in lease : token[x] = t)[1]
                                  ELSE clients[c].leases[t]]
           CW == ClientsWithout(D)
<1>1. /\ clients[c] # None
      /\ clients' = [CW EXCEPT ![c].leases = L]
      /\ issued' = issued \cup {token[x] : x \in lease}
      /\ objects' = ObjectsWithout(D) /\ allocated' = allocated
  BY Zenon DEF ReserveRead, Registered
<1>2. token \in [lease -> Tokens \ issued]
  <2>1. FreshTokens(lease) # {}
    BY Zenon DEF ReserveRead
  <2>2. token \in FreshTokens(lease)
    BY Zenon, <2>1
  <2> QED BY Zenon, <2>2 DEF FreshTokens
<1>3. L \in [Tokens -> Keys \cup {None}]
  <2>1. \A x \in lease : x[1] \in Keys
    BY Zenon DEF Readable
  <2>2. \A t \in Tokens : clients[c].leases[t] \in Keys \cup {None}
    BY Zenon, <1>1, ClientTyped
  <2>3. ASSUME NEW t \in Tokens PROVE L[t] \in Keys \cup {None}
    <3>1. CASE \E x \in lease : token[x] = t
      <4>1. (CHOOSE x \in lease : token[x] = t) \in lease
        BY Zenon, <3>1
      <4> QED BY Zenon, <2>1, <3>1, <4>1
    <3>2. CASE ~ \E x \in lease : token[x] = t
      BY Zenon, <2>2, <3>2
    <3> QED BY Zenon, <3>1, <3>2
  <2> QED BY Zenon, <2>3
<1> HIDE DEF L, token, lease
<1>4. /\ D \in SUBSET Keys
      /\ \A k \in D : objects[k] # None /\ objects[k].state = "WRITING"
  BY Zenon, ExpiredWriting
<1> HIDE DEF D
<1>5. /\ CW \in [Clients -> Client \cup {None}]
      /\ \A d \in Clients : (CW[d] = None) <=> (clients[d] = None)
      /\ CW[c] \in Client
  BY Zenon, <1>1, <1>4, ClientsWithoutFacts
<1>6. \A d \in Clients : CW[d] # None => Held(CW[d].writes) \subseteq issued
  BY Zenon, <1>4, HeldWithout
<1>7. MatchedIn(ObjectsWithout(D), CW)
  BY Zenon, <1>4, WithoutMatched
<1> HIDE DEF CW
<1>8. /\ clients'[c] \in Client /\ clients'[c].writes = CW[c].writes
      /\ clients' \in [Clients -> Client \cup {None}]
      /\ \A d \in Clients : d # c => clients'[d] = CW[d]
  <2>1. clients'[c] = [CW[c] EXCEPT !.leases = L]
    BY Zenon, <1>1, <1>5
  <2>2. [CW[c] EXCEPT !.leases = L] \in Client /\ [CW[c] EXCEPT !.leases = L].writes = CW[c].writes
    BY Zenon, <1>3, <1>5 DEF Client
  <2> QED BY Zenon, <1>1, <1>5, <2>1, <2>2
<1>9. CW[c] # None /\ clients'[c] # None
  BY Zenon, <1>5, <1>8, RegionAssumption
<1>10. issued' \in SUBSET Tokens /\ issued \subseteq issued'
  BY Zenon, <1>1, <1>2 DEF RTypeOK
<1>11. RTypeOK'
  BY Zenon, <1>1, <1>4, <1>8, <1>10, ObjectsWithoutTyped DEF RTypeOK
<1>12. HeldIsIssued'
  BY Zenon, <1>6, <1>8, <1>9, <1>10 DEF HeldIsIssued
<1>13. ExtentsAreDisjoint'
  BY Zenon, <1>1, <1>4, ObjectsWithoutTyped, ExtentsKept
<1>14. MatchedIn(objects', clients')
  <2>1. \A k \in Keys : objects'[k] # None => objects'[k].writer \in Clients
    BY Zenon, <1>1, <1>4, ObjectsWithoutTyped, ObjectTyped
  <2>2. \A d \in Clients : (clients'[d] = None) <=> (CW[d] = None)
    BY Zenon, <1>8, <1>9
  <2>3. \A d \in Clients : CW[d] # None => clients'[d].writes = CW[d].writes
    BY Zenon, <1>8
  <2>4. MatchedIn(objects', CW)
    BY Zenon, <1>1, <1>7
  <2> QED BY Zenon, <2>1, <2>2, <2>3, <2>4, SameWrites
<1> QED BY Zenon, <1>11, <1>12, <1>13, <1>14, MatchedForm

\* A write token is spent: its object becomes valid, or is dropped.
LEMMA CompleteWriteSafe ==
    ASSUME RInv, NEW c \in Clients, clients[c] # None, NEW t \in Tokens, NEW op \in Ops,
           CompleteWrite(c, t, op), allocated' = allocated, issued' = issued
    PROVE  RInv'
<1> USE DEF RInv
<1>0. PICK k \in Keys : k = clients[c].writes[t]
  BY SMTT(30), ClientTyped DEF CompleteWrite
<1>1. /\ objects[k] # None /\ objects[k].state = "WRITING"
      /\ objects[k].writer = c /\ objects[k].token = t
  BY <1>0 DEF TokensMatchObjects, Held, CompleteWrite
<1> DEFINE x == [clients[c] EXCEPT !.writes = [clients[c].writes EXCEPT ![t] = None],
                                   !.completed = Completion(c, t, op)]
<1>2. clients' = [clients EXCEPT ![c] = x]
  <2>1. clients[c] \in Client
    BY Zenon, ClientTyped
  <2>2. clients' = [clients EXCEPT ![c].writes[t] = None, ![c].completed = Completion(c, t, op)]
    BY Zenon DEF CompleteWrite
  <2> QED BY Zenon, <2>1, <2>2 DEF RTypeOK
<1>3. x \in Client /\ x # None /\ x.writes = [clients[c].writes EXCEPT ![t] = None]
  <2>1. [clients[c].writes EXCEPT ![t] = None] \in [Tokens -> Keys \cup {None}]
    BY Zenon, ClientTyped
  <2>2. Completion(c, t, op) \in Completions
    BY Zenon, CompletionTyped
  <2> QED BY Zenon, <2>1, <2>2, ClientTyped, RegionAssumption DEF Client
<1> HIDE DEF x
<1>4. /\ clients' \in [Clients -> Client \cup {None}]
      /\ clients'[c] # None /\ clients'[c].writes[t] = None
      /\ \A u \in Tokens : u # t => clients'[c].writes[u] = clients[c].writes[u]
      /\ \A d \in Clients : d # c => clients'[d] = clients[d]
  BY Zenon, <1>2, <1>3, ClientTyped DEF RTypeOK
<1>5. /\ objects' \in [Keys -> Object \cup {None}]
      /\ objects'[k] # None => objects'[k].state = "VALID" /\ objects'[k].off = objects[k].off
                               /\ objects'[k].shape = objects[k].shape
      /\ \A j \in Keys : j # k => objects'[j] = objects[j]
  <2>1. CASE op = "FINISH_WRITE"
    <3>1. objects' = [objects EXCEPT ![k] = [objects[k] EXCEPT !.state = "VALID"]]
      BY Zenon, <1>0, <2>1 DEF CompleteWrite
    <3>2. /\ [objects[k] EXCEPT !.state = "VALID"] \in Object
          /\ [objects[k] EXCEPT !.state = "VALID"].state = "VALID"
          /\ [objects[k] EXCEPT !.state = "VALID"].off = objects[k].off
          /\ [objects[k] EXCEPT !.state = "VALID"].shape = objects[k].shape
      BY Zenon, <1>1, ObjectTyped DEF Object
    <3> QED BY Zenon, <3>1, <3>2 DEF RTypeOK
  <2>2. CASE op # "FINISH_WRITE"
    BY Zenon, <1>0, <2>2 DEF CompleteWrite, RTypeOK
  <2> QED BY Zenon, <2>1, <2>2
<1>6. RTypeOK'
  BY Zenon, <1>4, <1>5 DEF RTypeOK
<1>7. HeldIsIssued'
  <2> SUFFICES ASSUME NEW d \in Clients, clients'[d] # None, NEW u \in Tokens,
                      clients'[d].writes[u] # None
               PROVE  u \in issued
    BY Zenon DEF HeldIsIssued, Held
  <2>1. clients[d] # None /\ clients[d].writes[u] # None
    BY Zenon, <1>4
  <2> QED BY Zenon, <2>1 DEF HeldIsIssued, Held
<1>8. ExtentsAreDisjoint'
  BY Zenon, <1>1, <1>5, ExtentsKept
<1>9. MatchedIn(objects, clients)
  BY SMTT(30), MatchedForm
<1>10. MatchedIn(objects', clients')
  <2>1. ASSUME NEW j \in Keys, objects'[j] # None, objects'[j].state = "WRITING"
        PROVE  /\ clients'[objects'[j].writer] # None
               /\ clients'[objects'[j].writer].writes[objects'[j].token] = j
    <3>1. j # k /\ objects'[j] = objects[j]
      BY Zenon, <1>5, <2>1
    <3>2. PICK w \in Clients : w = objects[j].writer
      BY Zenon, <2>1, <3>1, ObjectTyped
    <3>3. PICK u \in Tokens : u = objects[j].token
      BY Zenon, <2>1, <3>1, ObjectTyped
    <3>4. clients[w] # None /\ clients[w].writes[u] = j
      BY Zenon, <1>9, <2>1, <3>1, <3>2, <3>3 DEF MatchedIn
    <3>5. ~(w = c /\ u = t)
      BY SMTT(30), <1>0, <3>1, <3>4
    <3> QED BY <1>4, <3>1, <3>2, <3>3, <3>4, <3>5
  <2>2. ASSUME NEW d \in Clients, clients'[d] # None, NEW u \in Tokens,
               clients'[d].writes[u] # None
        PROVE  /\ objects'[clients'[d].writes[u]] # None
               /\ objects'[clients'[d].writes[u]].state = "WRITING"
               /\ objects'[clients'[d].writes[u]].writer = d
               /\ objects'[clients'[d].writes[u]].token = u
    <3>1. ~(d = c /\ u = t) /\ clients[d] # None /\ clients'[d].writes[u] = clients[d].writes[u]
      BY Zenon, <1>4, <2>2
    <3>2. PICK j \in Keys : j = clients[d].writes[u]
      BY SMTT(30), <2>2, <3>1, ClientTyped
    <3>3. /\ objects[j] # None /\ objects[j].state = "WRITING"
          /\ objects[j].writer = d /\ objects[j].token = u
      BY Zenon, <1>9, <2>2, <3>1, <3>2 DEF MatchedIn
    <3>4. j # k
      BY Zenon, <1>1, <3>1, <3>3
    <3> QED BY Zenon, <1>5, <3>1, <3>2, <3>3, <3>4
  <2> QED BY <2>1, <2>2 DEF MatchedIn
<1> QED BY Zenon, <1>6, <1>7, <1>8, <1>10, MatchedForm

\* A read token is spent.
LEMMA FinishReadSafe ==
    ASSUME RInv, NEW c \in Clients, clients[c] # None, NEW t \in Tokens, NEW op \in Ops,
           clients' = [clients EXCEPT ![c].leases[t] = None,
                                      ![c].completed = Completion(c, t, op)],
           objects' = objects, allocated' = allocated, issued' = issued
    PROVE  RInv'
<1> USE DEF RInv
<1> DEFINE x == [clients[c] EXCEPT !.leases = [clients[c].leases EXCEPT ![t] = None],
                                   !.completed = Completion(c, t, op)]
<1>1. clients' = [clients EXCEPT ![c] = x]
  <2>1. clients[c] \in Client
    BY Zenon, ClientTyped
  <2> QED BY Zenon, <2>1 DEF RTypeOK
<1>2. x \in Client /\ x # None /\ x.writes = clients[c].writes
  <2>1. [clients[c].leases EXCEPT ![t] = None] \in [Tokens -> Keys \cup {None}]
    BY Zenon, ClientTyped
  <2>2. Completion(c, t, op) \in Completions
    BY Zenon, CompletionTyped
  <2> QED BY Zenon, <2>1, <2>2, ClientTyped, RegionAssumption DEF Client
<1> HIDE DEF x
<1>3. /\ clients' \in [Clients -> Client \cup {None}]
      /\ \A d \in Clients : (clients'[d] = None) <=> (clients[d] = None)
      /\ \A d \in Clients : clients[d] # None => clients'[d].writes = clients[d].writes
  BY Zenon, <1>1, <1>2 DEF RTypeOK
<1>4. RTypeOK' /\ HeldIsIssued'
  BY Zenon, <1>3 DEF RTypeOK, HeldIsIssued
<1>5. ExtentsAreDisjoint'
  BY Zenon, ExtentsKept
<1>6. MatchedIn(objects', clients')
  <2>1. MatchedIn(objects', clients)
    BY Zenon, MatchedForm
  <2>2. \A k \in Keys : objects'[k] # None => objects'[k].writer \in Clients
    BY Zenon, ObjectTyped
  <2> QED BY Zenon, <1>3, <2>1, <2>2, SameWrites
<1> QED BY Zenon, <1>4, <1>5, <1>6, MatchedForm

\* complete_tokens, with a token that is current, completed or unknown.
LEMMA CompleteTokensSafe ==
    ASSUME RInv, NEW c \in Clients, NEW inc \in Incarnations, NEW t \in Tokens, NEW op \in Ops,
           CompleteTokens(c, inc, t, op)
    PROVE  RInv'
<1>1. clients[c] # None /\ allocated' = allocated /\ issued' = issued
  BY Zenon DEF CompleteTokens, Registered
<1>2. ASSUME objects' = objects, clients' = clients PROVE RInv'
  BY Zenon, <1>1, <1>2, MatchedForm DEF RInv, RTypeOK, HeldIsIssued, ExtentsAreDisjoint, Extent, Units
<1>3. CASE op = "FINISH_READ"
  BY Zenon, <1>1, <1>2, <1>3, FinishReadSafe DEF CompleteTokens
<1>4. CASE op # "FINISH_READ"
  <2>1. CASE CompleteWrite(c, t, op)
    BY Zenon, <1>1, <2>1, CompleteWriteSafe
  <2>2. CASE CompleteExpired(c, t)
    <3>1. PICK k \in Keys : k = clients[c].writes[t]
      BY Zenon, <1>1, <2>2, ClientTyped DEF CompleteExpired, RInv
    <3> QED BY SMTT(30), <1>1, <2>2, <3>1, ConsumeSafe DEF CompleteExpired, Lapsed
  <2>3. CASE objects' = objects /\ clients' = clients
    BY Zenon, <1>2, <2>3
  <2> QED BY Zenon, <1>4, <2>1, <2>2, <2>3 DEF CompleteTokens
<1> QED BY Zenon, <1>3, <1>4

\* Where Placements puts the extents of a batch.
LEMMA PlacementFacts ==
    ASSUME RTypeOK, NEW S \in SUBSET Keys, NEW shape, \A k \in S : shape[k] \in Shapes,
           NEW hi \in Nat, NEW off \in Placements(S, shape, hi)
    PROVE  /\ \A k \in S : /\ off[k] \in Nat /\ allocated <= off[k]
                           /\ off[k] + Length[shape[k]] <= hi
           /\ \A j, k \in S : j # k => Units(off[j], shape[j]) \cap Units(off[k], shape[k]) = {}
<1>1. off \in [S -> allocated .. Capacity] /\ Tiles(off, shape, allocated, hi)
  BY Zenon DEF Placements
<1>2. DOMAIN off = S
  BY Zenon, <1>1
<1>3. ASSUME NEW k \in S
      PROVE  off[k] \in Nat /\ allocated <= off[k] /\ off[k] + Length[shape[k]] <= hi
  <2>1. off[k] \in Nat /\ allocated <= off[k] /\ Length[shape[k]] \in Nat /\ Length[shape[k]] > 0
    BY <1>1, RegionAssumption DEF RTypeOK
  <2>2. off[k] + Length[shape[k]] - 1 \in Units(off[k], shape[k])
    BY <2>1 DEF Units
  <2>3. off[k] + Length[shape[k]] - 1 \in allocated .. (hi - 1)
    BY Zenon, <1>1, <1>2, <2>2 DEF Tiles
  <2> QED BY <2>1, <2>3 DEF RTypeOK
<1> QED BY Zenon, <1>1, <1>2, <1>3 DEF Tiles

\* reserve_write replaces expired objects by new ones above all extents so far.
LEMMA ReserveWriteSafe ==
    ASSUME RInv, NEW c \in Clients, NEW inc \in Incarnations, NEW shape \in Batches,
           ReserveWrite(c, inc, shape)
    PROVE  /\ RInv'
           /\ allocated <= allocated'
           /\ \A k \in Keys : objects'[k] # objects[k] =>
                 /\ objects[k] # None => objects[k].state = "WRITING"
                 /\ allocated <= objects'[k].off
<1> USE DEF RInv
<1> DEFINE S == Absent(DOMAIN shape)
           D == Expired(DOMAIN shape)
           token == CHOOSE f \in FreshTokens(S) : TRUE
           CW == ClientsWithout(D)
           W == [t \in Tokens |-> IF \E k \in S : token[k] = t
                                  THEN CHOOSE k \in S : token[k] = t
                                  ELSE CW[c].writes[t]]
           Put(off) == [k \in Keys |->
             IF k \in S
             THEN [state |-> "WRITING", off |-> off[k], shape |-> shape[k],
                   writer |-> c, token |-> token[k], lapsed |-> FALSE]
             ELSE objects[k]]
<1>0. PICK hi \in allocated .. Capacity :
         \E off \in Placements(S, shape, hi) :
            /\ allocated' = hi
            /\ objects' = Put(off)
            /\ clients' = [CW EXCEPT ![c].writes = W]
            /\ issued' = issued \cup {token[k] : k \in S}
  BY Zenon DEF ReserveWrite
<1>1. PICK off \in Placements(S, shape, hi) :
         /\ allocated' = hi
         /\ objects' = Put(off)
         /\ clients' = [CW EXCEPT ![c].writes = W]
         /\ issued' = issued \cup {token[k] : k \in S}
  BY Zenon, <1>0
<1>2. clients[c] # None
  BY Zenon DEF ReserveWrite, Registered
<1>3. /\ token \in [S -> Tokens \ issued]
      /\ \A j, k \in S : j # k => token[j] # token[k]
  <2>1. FreshTokens(S) # {}
    BY Zenon DEF ReserveWrite
  <2>2. token \in FreshTokens(S)
    BY Zenon, <2>1
  <2> QED BY Zenon, <2>2 DEF FreshTokens
<1>4. /\ DOMAIN shape \in SUBSET Keys /\ S \in SUBSET Keys
      /\ \A k \in S : shape[k] \in Shapes
      /\ \A k \in S : objects[k] = None \/ k \in D
      /\ D \subseteq S
  BY Zenon DEF Batches, Absent, Expired, Lapsed
<1>5. /\ D \in SUBSET Keys
      /\ \A k \in D : objects[k] # None /\ objects[k].state = "WRITING"
  BY Zenon, <1>4, ExpiredWriting
<1>7. hi \in Nat /\ allocated <= hi /\ hi <= Capacity
  BY <1>1, RegionAssumption DEF RTypeOK
<1>8. /\ \A k \in S : off[k] \in Nat /\ allocated <= off[k] /\ off[k] + Length[shape[k]] <= hi
      /\ \A j, k \in S : j # k => Units(off[j], shape[j]) \cap Units(off[k], shape[k]) = {}
  BY Zenon, <1>1, <1>4, <1>7, PlacementFacts
<1>9. /\ CW \in [Clients -> Client \cup {None}]
      /\ \A d \in Clients : (CW[d] = None) <=> (clients[d] = None)
      /\ CW[c] \in Client /\ CW[c] # None
  BY Zenon, <1>2, <1>5, ClientsWithoutFacts
<1>10. \A d \in Clients : CW[d] # None => Held(CW[d].writes) \subseteq issued
  BY Zenon, <1>5, HeldWithout
<1>11. MatchedIn(ObjectsWithout(D), CW)
  BY Zenon, <1>5, WithoutMatched
<1>12. \A k \in Keys : k \notin S => ObjectsWithout(D)[k] = objects[k]
  BY Zenon, <1>4 DEF ObjectsWithout
<1>13. \A k \in S : ObjectsWithout(D)[k] = None
  BY Zenon, <1>4, <1>5 DEF ObjectsWithout
<1> HIDE DEF token, CW, S, D
<1>14. /\ W \in [Tokens -> Keys \cup {None}]
       /\ \A k \in S : W[token[k]] = k
       /\ \A t \in Tokens : (~ \E k \in S : token[k] = t) => W[t] = CW[c].writes[t]
  <2>1. ASSUME NEW t \in Tokens, \E k \in S : token[k] = t
        PROVE  W[t] \in S /\ token[W[t]] = t
    <3> DEFINE y == CHOOSE k \in S : token[k] = t
    <3>1. y \in S /\ token[y] = t
      BY Zenon, <2>1
    <3>2. W[t] = y
      BY Zenon, <2>1
    <3> QED BY Zenon, <3>1, <3>2
  <2>2. \A t \in Tokens : CW[c].writes[t] \in Keys \cup {None}
    BY Zenon, <1>9 DEF Client
  <2>3. ASSUME NEW t \in Tokens, ~ \E k \in S : token[k] = t
        PROVE  W[t] = CW[c].writes[t]
    BY SMTT(30), <2>3
  <2>4. \A t \in Tokens : W[t] \in Keys \cup {None}
    BY SMTT(30), <1>4, <2>1, <2>2, <2>3
  <2>5. ASSUME NEW k \in S PROVE W[token[k]] = k
    <3>1. token[k] \in Tokens
      BY Zenon, <1>3
    <3>2. W[token[k]] \in S /\ token[W[token[k]]] = token[k]
      BY Zenon, <2>1, <3>1
    <3> QED BY Zenon, <1>3, <3>2
  <2>6. W \in [Tokens -> Keys \cup {None}]
    BY Zenon, <2>4
  <2> HIDE DEF W
  <2> QED BY Zenon, <2>3, <2>5, <2>6
<1> HIDE DEF W
<1>15. /\ clients'[c] \in Client /\ clients'[c] # None /\ clients'[c].writes = W
       /\ clients' \in [Clients -> Client \cup {None}]
       /\ \A d \in Clients : d # c => clients'[d] = CW[d]
  <2>1. clients'[c] = [CW[c] EXCEPT !.writes = W]
    BY Zenon, <1>1, <1>9
  <2> QED BY <1>1, <1>9, <1>14, <2>1, RewrittenTyped
<1>16. /\ \A k \in S : /\ objects'[k] \in Object /\ objects'[k] # None
                       /\ objects'[k].state = "WRITING" /\ objects'[k].off = off[k]
                       /\ objects'[k].shape = shape[k] /\ objects'[k].writer = c
                       /\ objects'[k].token = token[k]
       /\ \A k \in Keys : k \notin S => objects'[k] = objects[k]
       /\ objects' \in [Keys -> Object \cup {None}]
  <2>1. ASSUME NEW k \in S
        PROVE  [state |-> "WRITING", off |-> off[k], shape |-> shape[k],
                writer |-> c, token |-> token[k], lapsed |-> FALSE] \in Object
    BY Zenon, <1>3, <1>4, <1>8 DEF Object
  <2> QED BY Zenon, <1>1, <1>4, <2>1, RegionAssumption DEF RTypeOK
<1> HIDE DEF Put
<1>17. issued' \in SUBSET Tokens /\ issued \subseteq issued' /\ \A k \in S : token[k] \in issued'
  BY Zenon, <1>1, <1>3 DEF RTypeOK
<1>18. RTypeOK'
  BY Zenon, <1>1, <1>7, <1>15, <1>16, <1>17 DEF RTypeOK
<1>19. HeldIsIssued'
  <2> SUFFICES ASSUME NEW d \in Clients, clients'[d] # None, NEW t \in Tokens,
                      clients'[d].writes[t] # None
               PROVE  t \in issued'
    BY Zenon DEF HeldIsIssued, Held
  <2>1. CASE d = c /\ \E k \in S : token[k] = t
    BY Zenon, <1>17, <2>1
  <2>2. CASE ~(d = c /\ \E k \in S : token[k] = t)
    <3>1. CW[d] # None /\ CW[d].writes[t] # None
      BY SMTT(30), <1>9, <1>14, <1>15, <2>2
    <3> QED BY SMTT(30), <1>10, <1>17, <3>1 DEF Held
  <2> QED BY Zenon, <2>1, <2>2
<1>20. MatchedIn(objects', clients')
  <2>1. ASSUME NEW k \in Keys, objects'[k] # None, objects'[k].state = "WRITING"
        PROVE  /\ clients'[objects'[k].writer] # None
               /\ clients'[objects'[k].writer].writes[objects'[k].token] = k
    <3>1. CASE k \in S
      BY SMTT(30), <1>14, <1>15, <1>16, <3>1
    <3>2. CASE k \notin S
      <4>1. objects'[k] = objects[k] /\ ObjectsWithout(D)[k] = objects[k]
        BY Zenon, <1>12, <1>16, <3>2
      <4>2. PICK w \in Clients : w = objects[k].writer
        BY Zenon, <2>1, <4>1, ObjectTyped
      <4>3. PICK t \in Tokens : t = objects[k].token
        BY SMTT(30), <2>1, <4>1, ObjectTyped
      <4>4. CW[w] # None /\ CW[w].writes[t] = k
        BY SMTT(30), <1>11, <2>1, <4>1, <4>2, <4>3 DEF MatchedIn
      <4>5. t \in issued
        BY Zenon, <1>10, <4>4, RegionAssumption DEF Held
      <4>6. ~ \E j \in S : token[j] = t
        BY Zenon, <1>3, <4>5
      <4>7. clients'[w] # None /\ clients'[w].writes[t] = k
        BY SMTT(30), <1>14, <1>15, <4>4, <4>6
      <4> QED BY SMTT(30), <4>1, <4>2, <4>3, <4>7
    <3> QED BY Zenon, <3>1, <3>2
  <2>2. ASSUME NEW d \in Clients, clients'[d] # None, NEW t \in Tokens,
               clients'[d].writes[t] # None
        PROVE  /\ objects'[clients'[d].writes[t]] # None
               /\ objects'[clients'[d].writes[t]].state = "WRITING"
               /\ objects'[clients'[d].writes[t]].writer = d
               /\ objects'[clients'[d].writes[t]].token = t
    <3>1. CASE d = c /\ \E k \in S : token[k] = t
      <4>1. PICK k \in S : token[k] = t
        BY Zenon, <3>1
      <4>2. clients'[d].writes[t] = k
        BY SMTT(30), <1>14, <1>15, <3>1, <4>1
      <4> QED BY Zenon, <1>16, <3>1, <4>1, <4>2
    <3>2. CASE ~(d = c /\ \E k \in S : token[k] = t)
      <4>1. CW[d] # None /\ CW[d].writes[t] # None /\ clients'[d].writes[t] = CW[d].writes[t]
        BY SMTT(30), <1>9, <1>14, <1>15, <2>2, <3>2
      <4>2. CW[d] \in Client
        BY SMTT(30), <1>9, <4>1
      <4>3. PICK k \in Keys : k = CW[d].writes[t]
        BY SMTT(30), <4>1, <4>2 DEF Client
      <4>4. /\ ObjectsWithout(D)[k] # None /\ ObjectsWithout(D)[k].state = "WRITING"
            /\ ObjectsWithout(D)[k].writer = d /\ ObjectsWithout(D)[k].token = t
        BY SMTT(30), <1>11, <4>1, <4>3 DEF MatchedIn
      <4>5. k \notin S
        BY Zenon, <1>13, <4>4
      <4>6. objects'[k] = ObjectsWithout(D)[k]
        BY SMTT(30), <1>12, <1>16, <4>5
      <4> QED BY SMTT(30), <4>1, <4>3, <4>4, <4>6
    <3> QED BY SMTT(30), <3>1, <3>2
  <2> QED BY SMTT(30), <2>1, <2>2 DEF MatchedIn
<1>21. ExtentsAreDisjoint'
  <2>1. allocated' <= Capacity
    BY Zenon, <1>1, <1>7
  <2>2. ASSUME NEW k \in Keys, objects'[k] # None
        PROVE  objects'[k].off + Length[objects'[k].shape] <= allocated'
    <3>1. CASE k \in S
      BY Zenon, <1>1, <1>8, <1>16, <3>1
    <3>2. CASE k \notin S
      <4>1. objects'[k] = objects[k] /\ objects[k].off + Length[objects[k].shape] <= allocated
        BY Zenon, <1>16, <2>2, <3>2 DEF ExtentsAreDisjoint
      <4>2. objects[k].off \in Nat /\ Length[objects[k].shape] \in Nat
        BY SMTT(30), <2>2, <4>1, ObjectTyped
      <4> QED BY SMTT(30), <1>1, <1>7, <4>1, <4>2 DEF RTypeOK
    <3> QED BY Zenon, <3>1, <3>2
  <2>3. ASSUME NEW j \in Keys, NEW k \in Keys, j \in S, k \notin S, objects'[k] # None
        PROVE  Extent(j)' \cap Extent(k)' = {}
    <3>1. Extent(j)' = Units(off[j], shape[j]) /\ Extent(k)' = Units(objects[k].off, objects[k].shape)
      BY SMTT(30), <1>16, <2>3 DEF Extent, Units
    <3>2. objects[k] # None /\ objects[k].off + Length[objects[k].shape] <= allocated
      BY Zenon, <1>16, <2>3 DEF ExtentsAreDisjoint
    <3>3. objects[k].off \in Nat /\ Length[objects[k].shape] \in Nat
      BY SMTT(30), <3>2, ObjectTyped
    <3>4. \A u \in Units(off[j], shape[j]) : u >= allocated
      BY SMTT(30), <1>4, <1>8, <2>3, RegionAssumption DEF Units, RTypeOK
    <3>5. \A u \in Units(objects[k].off, objects[k].shape) : u < allocated
      BY SMTT(30), <3>2, <3>3 DEF Units, RTypeOK
    <3>6. \A u \in Units(off[j], shape[j]) : u \in Int
      BY DEF Units
    <3> QED BY SMTT(30), <3>1, <3>4, <3>5, <3>6 DEF RTypeOK
  <2>4. ASSUME NEW j \in Keys, NEW k \in Keys, j # k, objects'[j] # None, objects'[k] # None
        PROVE  Extent(j)' \cap Extent(k)' = {}
    <3>1. CASE j \in S /\ k \in S
      BY SMTT(30), <1>8, <1>16, <2>4, <3>1 DEF Extent, Units
    <3>2. CASE j \notin S /\ k \notin S
      BY Zenon, <1>16, <2>4, <3>2 DEF ExtentsAreDisjoint, Extent, Units
    <3> QED BY SMTT(30), <2>3, <2>4, <3>1, <3>2
  <2> QED BY Zenon, <2>1, <2>2, <2>4 DEF ExtentsAreDisjoint
<1>22. RInv'
  BY SMTT(30), <1>18, <1>19, <1>20, <1>21, MatchedForm
<1> QED BY Zenon, <1>1, <1>4, <1>5, <1>7, <1>8, <1>16, <1>22

\* A refused reserve_write only drops what expired.
LEMMA OutOfSpaceSafe ==
    ASSUME RInv, NEW c \in Clients, NEW inc \in Incarnations, NEW shape \in Batches,
           ReserveWriteOutOfSpace(c, inc, shape)
    PROVE  RInv'
<1>1. DOMAIN shape \in SUBSET Keys
  BY Zenon DEF Batches
<1> QED BY Zenon, <1>1, ExpiredWriting, ConsumeSafe DEF ReserveWriteOutOfSpace

\* The service restarts with an empty region.
LEMMA ResetSafe ==
    ASSUME RReset
    PROVE  RInv'
BY SMTT(30), RegionAssumption DEF RReset, RInv, RTypeOK, HeldIsIssued, TokensMatchObjects,
                        ExtentsAreDisjoint, NoObjects, NoClients

\* An empty region satisfies the invariant.
LEMMA InitSafe == RInit => RInv
BY RegionAssumption DEF RInit, RInv, RTypeOK, HeldIsIssued, TokensMatchObjects,
                        ExtentsAreDisjoint, NoObjects, NoClients

\* Every step keeps the invariant.
LEMMA StepSafe == RInv /\ [RNext]_rvars => RInv'
<1> SUFFICES ASSUME RInv, [RNext]_rvars PROVE RInv'
  BY Zenon
<1>1. ASSUME NEW c \in Clients, NEW inc \in Incarnations, RegisterClient(c, inc) PROVE RInv'
  BY Zenon, <1>1, RegisterSafe
<1>2. ASSUME NEW c \in Clients, NEW inc \in Incarnations, CloseClient(c, inc) PROVE RInv'
  BY Zenon, <1>2, CloseSafe
<1>3. ASSUME NEW c \in Clients, NEW inc \in Incarnations, NEW shape \in Batches,
             ReserveWrite(c, inc, shape)
      PROVE  RInv'
  BY Zenon, <1>3, ReserveWriteSafe
<1>4. ASSUME NEW c \in Clients, NEW inc \in Incarnations, NEW shape \in Batches,
             ReserveWriteOutOfSpace(c, inc, shape)
      PROVE  RInv'
  BY Zenon, <1>4, OutOfSpaceSafe
<1>5. ASSUME NEW c \in Clients, NEW inc \in Incarnations, NEW t \in Tokens, NEW op \in Ops,
             CompleteTokens(c, inc, t, op)
      PROVE  RInv'
  BY Zenon, <1>5, CompleteTokensSafe
<1>6. ASSUME NEW c \in Clients, NEW inc \in Incarnations, NEW S \in SUBSET Keys,
             NEW n \in 0 .. MaxReaders, ReserveRead(c, inc, S, n)
      PROVE  RInv'
  BY Zenon, <1>6, ReserveReadSafe
<1>7. ASSUME NEW k \in Keys, Lapse(k) PROVE RInv'
  BY Zenon, <1>7, LapseSafe
<1>8. CASE RReset
  BY SMTT(30), <1>8, ResetSafe
<1>9. CASE UNCHANGED rvars
  BY Zenon, <1>9, MatchedForm DEF rvars, RInv, RTypeOK, HeldIsIssued, ExtentsAreDisjoint, Extent, Units
<1> QED BY Zenon, <1>1, <1>2, <1>3, <1>4, <1>5, <1>6, <1>7, <1>8, <1>9 DEF RNext

\* In every run of RegionState's methods, with any batches and any expiry,
\* each write token a client holds names a WRITING object that names it back,
\* and every WRITING object's token is held by its writer.
THEOREM TokensAlwaysMatch == RSpec => []TokensMatchObjects
<1>1. RInit => RInv
  BY Zenon, InitSafe
<1>2. RInv /\ [RNext]_rvars => RInv'
  BY Zenon, StepSafe
<1>3. RInv => TokensMatchObjects
  BY Zenon DEF RInv
<1> QED BY <1>1, <1>2, <1>3, PTL DEF RSpec

\* The objects of a region never overlap and never pass the bump pointer.
THEOREM ExtentsStayDisjoint == RSpec => []ExtentsAreDisjoint
<1>1. RInit => RInv
  BY Zenon, InitSafe
<1>2. RInv /\ [RNext]_rvars => RInv'
  BY Zenon, StepSafe
<1>3. RInv => ExtentsAreDisjoint
  BY Zenon DEF RInv
<1> QED BY <1>1, <1>2, <1>3, PTL DEF RSpec

----------------------------------------------------------------------------
\* Every method but reserve_write leaves an object, or removes or advances a
\* WRITING one without changing its token.
Gentle ==
    \A k \in Keys : objects'[k] # objects[k] =>
        /\ objects[k] # None /\ objects[k].state = "WRITING"
        /\ objects'[k] # None => objects'[k].token = objects[k].token

\* A step that allocates nothing and only drops or completes objects moves none.
LEMMA GentleIsFresh ==
    ASSUME RTypeOK, Gentle, allocated' = allocated
    PROVE  FreshStep
BY DEF Gentle, FreshStep, RTypeOK

\* Dropping unfinished objects is such a step ...
LEMMA WithoutGentle ==
    ASSUME NEW S \in SUBSET Keys, objects' = ObjectsWithout(S),
           \A k \in S : objects[k] # None /\ objects[k].state = "WRITING"
    PROVE  Gentle
BY Zenon DEF Gentle, ObjectsWithout

\* ... and so is spending a token.
LEMMA CompleteGentle ==
    ASSUME RInv, NEW c \in Clients, NEW inc \in Incarnations, NEW t \in Tokens, NEW op \in Ops,
           CompleteTokens(c, inc, t, op)
    PROVE  Gentle
<1>1. clients[c] # None
  BY Zenon DEF CompleteTokens, Registered
<1>2. CASE objects' = objects
  BY Zenon, <1>2 DEF Gentle
<1>3. CASE clients[c].writes[t] # None /\ objects' # objects
  <2>1. PICK k \in Keys : k = clients[c].writes[t]
    BY SMTT(30), <1>1, <1>3, ClientTyped DEF RInv
  <2>2. objects[k] # None /\ objects[k].state = "WRITING"
    BY SMTT(30), <1>1, <1>3, <2>1 DEF RInv, TokensMatchObjects, Held
  <2>3. objects[k] \in Object
    BY SMTT(30), <2>2, ObjectTyped DEF RInv
  <2>4. \/ objects' = [objects EXCEPT ![k].state = "VALID"]
        \/ objects' = [objects EXCEPT ![k] = None]
        \/ objects' = ObjectsWithout({k})
    BY Zenon, <1>3, <2>1 DEF CompleteTokens, CompleteWrite, CompleteExpired
  <2>5. CASE objects' = [objects EXCEPT ![k].state = "VALID"]
    BY Zenon, <2>2, <2>3, <2>5 DEF Gentle, RInv, RTypeOK, Object
  <2>6. CASE objects' = [objects EXCEPT ![k] = None]
    BY SMTT(30), <2>2, <2>6 DEF Gentle, RInv, RTypeOK
  <2>7. CASE objects' = ObjectsWithout({k})
    BY SMTT(30), <2>2, <2>7, WithoutGentle
  <2> QED BY SMTT(30), <2>4, <2>5, <2>6, <2>7
<1> QED BY Zenon, <1>2, <1>3 DEF CompleteTokens, CompleteWrite, CompleteExpired

\* Every step but a restart hands out fresh extents only.
LEMMA StepFresh ==
    ASSUME RInv, RNext
    PROVE  RReset \/ FreshStep
<1> USE DEF RInv
<1>1. ASSUME NEW c \in Clients, NEW inc \in Incarnations,
             RegisterClient(c, inc) \/ CloseClient(c, inc)
      PROVE  FreshStep
  <2>1. objects' = objects \/ objects' = ObjectsWithout(Retired(c))
    BY Zenon, <1>1 DEF RegisterClient, CloseClient
  <2>2. Gentle
    <3>1. CASE objects' = objects
      BY Zenon, <3>1 DEF Gentle
    <3>2. CASE objects' = ObjectsWithout(Retired(c))
      BY <3>2, RetiredWriting, WithoutGentle
    <3> QED BY Zenon, <2>1, <3>1, <3>2
  <2> QED BY Zenon, <1>1, <2>2, GentleIsFresh DEF RegisterClient, CloseClient
<1>2. ASSUME NEW c \in Clients, NEW inc \in Incarnations, NEW shape \in Batches,
             ReserveWrite(c, inc, shape)
      PROVE  FreshStep
  <2>1. /\ allocated <= allocated'
        /\ \A k \in Keys : objects'[k] # objects[k] =>
              /\ objects[k] # None => objects[k].state = "WRITING"
              /\ allocated <= objects'[k].off
    BY Zenon, <1>2, ReserveWriteSafe
  <2> QED BY Zenon, <2>1 DEF FreshStep
<1>3. ASSUME NEW c \in Clients, NEW inc \in Incarnations, NEW shape \in Batches,
             ReserveWriteOutOfSpace(c, inc, shape)
      PROVE  FreshStep
  <2>1. DOMAIN shape \in SUBSET Keys
    BY Zenon DEF Batches
  <2>2. Gentle
    BY Zenon, <1>3, <2>1, ExpiredWriting, WithoutGentle DEF ReserveWriteOutOfSpace
  <2> QED BY Zenon, <1>3, <2>2, GentleIsFresh DEF ReserveWriteOutOfSpace
<1>4. ASSUME NEW c \in Clients, NEW inc \in Incarnations, NEW t \in Tokens, NEW op \in Ops,
             CompleteTokens(c, inc, t, op)
      PROVE  FreshStep
  BY Zenon, <1>4, CompleteGentle, GentleIsFresh DEF CompleteTokens
<1>5. ASSUME NEW c \in Clients, NEW inc \in Incarnations, NEW S \in SUBSET Keys,
             NEW n \in 0 .. MaxReaders, ReserveRead(c, inc, S, n)
      PROVE  FreshStep
  <2>1. Gentle
    BY Zenon, <1>5, ExpiredWriting, WithoutGentle DEF ReserveRead
  <2> QED BY Zenon, <1>5, <2>1, GentleIsFresh DEF ReserveRead
<1>6. ASSUME NEW k \in Keys, Lapse(k) PROVE FreshStep
  <2>1. objects[k] \in Object
    BY Zenon, <1>6, ObjectTyped DEF Lapse
  <2>2. Gentle
    BY Zenon, <1>6, <2>1 DEF Lapse, Gentle, RTypeOK, Object
  <2> QED BY Zenon, <1>6, <2>2, GentleIsFresh DEF Lapse
<1> QED BY SMTT(30), <1>1, <1>2, <1>3, <1>4, <1>5, <1>6 DEF RNext

\* Within one epoch no extent is granted twice, not even one whose writer
\* was retired or lapsed and may still be copying, and a committed object
\* never moves or disappears.
THEOREM ExtentsStayFresh == RSpec => ExtentsAreFresh
<1>1. RInit => RInv
  BY Zenon, InitSafe
<1>2. RInv /\ [RNext]_rvars => RInv'
  BY Zenon, StepSafe
<1>3. RInv /\ [RNext]_rvars => [RReset \/ FreshStep]_rvars
  BY Zenon, StepFresh
<1> QED BY <1>1, <1>2, <1>3, PTL DEF RSpec, ExtentsAreFresh

----------------------------------------------------------------------------
\* What a call does to the region

\* The token of every object was drawn.
TokensDrawn == \A k \in Keys : objects[k] # None => objects[k].token \in issued

\* A finish_write that is remembered left its object committed.
FinishedStays ==
    \A c \in Clients : clients[c] # None =>
        \A i \in DOMAIN clients[c].completed :
            clients[c].completed[i][2] = "FINISH_WRITE" =>
                \E k \in Keys : /\ objects[k] # None /\ objects[k].state = "VALID"
                                /\ objects[k].token = clients[c].completed[i][1]

Region == RInv /\ TokensDrawn /\ FinishedStays

\* From one region to another: objects disappear, appear above what was
\* allocated under fresh tokens, or are committed under the tokens T.
Change(obj, obj2, al, al2, iss, iss2, T) ==
    /\ al <= al2 /\ iss \subseteq iss2
    /\ \A k \in Keys : obj2[k] # None =>
         \/ /\ obj[k] # None
            /\ obj2[k].off = obj[k].off /\ obj2[k].shape = obj[k].shape
            /\ obj2[k].token = obj[k].token
            /\ obj2[k].state = obj[k].state \/ obj[k].token \in T
         \/ /\ obj2[k].token \in iss2 \ iss /\ obj2[k].state = "WRITING"
            /\ al <= obj2[k].off
    /\ \A k \in Keys : obj[k] # None /\ obj[k].state = "VALID" => obj2[k] = obj[k]

Effect(T) == Change(objects, objects', allocated, allocated', issued, issued', T)

\* The client keeps its registration and what it has completed.
Seated(d) ==
    /\ (clients'[d] = None) <=> (clients[d] = None)
    /\ clients[d] # None =>
          clients'[d].inc = clients[d].inc /\ clients'[d].completed = clients[d].completed

\* What the removal of objects leaves of a client's entry.
LEMMA ClientsWithoutRest ==
    ASSUME RTypeOK, NEW S \in SUBSET Keys, NEW c \in Clients, clients[c] # None
    PROVE  /\ ClientsWithout(S)[c] # None
           /\ ClientsWithout(S)[c].inc = clients[c].inc
           /\ ClientsWithout(S)[c].completed = clients[c].completed
           /\ ClientsWithout(S)[c].leases = clients[c].leases
<1>1. clients[c] \in Client
  BY Zenon, ClientTyped
<1>2. ClientsWithout(S)[c] # None
  BY Zenon, ClientsWithoutFacts
<1> QED BY Zenon, <1>1, <1>2 DEF ClientsWithout, Client

\* Fresh tokens and lost objects keep the tokens drawn.
LEMMA DrawnKept ==
    ASSUME RTypeOK, TokensDrawn, NEW T, Effect(T)
    PROVE  TokensDrawn'
BY Zenon DEF TokensDrawn, Effect, Change

\* Clients that keep what they completed, or forget it, keep it committed.
LEMMA FinishedKept ==
    ASSUME RInv, FinishedStays, NEW T, Effect(T),
           \A d \in Clients : Seated(d) \/ clients'[d] = None \/ clients'[d].completed = <<>>
    PROVE  FinishedStays'
<1> SUFFICES ASSUME NEW d \in Clients, clients'[d] # None,
                    NEW i \in DOMAIN clients'[d].completed,
                    clients'[d].completed[i][2] = "FINISH_WRITE"
             PROVE  \E k \in Keys : /\ objects'[k] # None /\ objects'[k].state = "VALID"
                                    /\ objects'[k].token = clients'[d].completed[i][1]
  BY Zenon DEF FinishedStays
<1>1. clients'[d].completed # <<>>
  OBVIOUS
<1>2. Seated(d) /\ clients[d] # None /\ clients'[d].completed = clients[d].completed
  BY Zenon, <1>1 DEF Seated
<1>3. PICK k \in Keys : /\ objects[k] # None /\ objects[k].state = "VALID"
                        /\ objects[k].token = clients[d].completed[i][1]
  BY Zenon, <1>2 DEF FinishedStays
<1>4. objects'[k] = objects[k]
  BY Zenon, <1>3 DEF Effect, Change
<1> QED BY Zenon, <1>2, <1>3, <1>4

\* Dropping WRITING objects commits nothing.
LEMMA WithoutEffect ==
    ASSUME RInv, NEW S \in SUBSET Keys, objects' = ObjectsWithout(S),
           \A k \in S : objects[k] # None /\ objects[k].state = "WRITING",
           allocated' = allocated, issued' = issued
    PROVE  Effect({})
<1>1. allocated \in Nat
  BY Zenon DEF RInv, RTypeOK
<1>2. \A k \in Keys : objects'[k] # None => objects'[k] = objects[k]
  BY Zenon DEF ObjectsWithout
<1>3. \A k \in Keys : objects[k] # None /\ objects[k].state = "VALID" => objects'[k] = objects[k]
  BY Zenon DEF ObjectsWithout
<1> QED BY <1>1, <1>2, <1>3 DEF Effect, Change

\* register_client retires another incarnation, or changes nothing.
LEMMA RegisterEffect ==
    ASSUME Region, NEW c \in Clients, NEW inc \in Incarnations, RegisterClient(c, inc)
    PROVE  /\ Region' /\ Effect({})
           /\ clients'[c] # None /\ clients'[c].inc = inc
           /\ \A d \in Clients : d # c => Seated(d)
<1>1. RInv'
  BY Zenon, RegisterSafe DEF Region
<1>2. CASE Registered(c, inc)
  <2>1. objects' = objects /\ clients' = clients /\ allocated' = allocated /\ issued' = issued
    BY Zenon, <1>2 DEF RegisterClient
  <2>2. Effect({})
    BY <2>1 DEF Effect, Change, Region, RInv, RTypeOK
  <2> QED BY Zenon, <1>1, <1>2, <2>1, <2>2, DrawnKept, FinishedKept DEF Region, RInv, Seated, Registered
<1>3. CASE ~Registered(c, inc)
  <2>1. /\ objects' = ObjectsWithout(Retired(c)) /\ clients' = [clients EXCEPT ![c] = NewClient(inc)]
        /\ allocated' = allocated /\ issued' = issued
    BY Zenon, <1>3 DEF RegisterClient
  <2>2. Effect({})
    BY <2>1, RetiredWriting, WithoutEffect DEF Region
  <2>3. clients \in [Clients -> Client \cup {None}]
    BY Zenon DEF Region, RInv, RTypeOK
  <2>4. clients'[c] = NewClient(inc) /\ \A d \in Clients : d # c => clients'[d] = clients[d]
    BY Zenon, <2>1, <2>3
  <2>5. NewClient(inc).inc = inc /\ NewClient(inc).completed = <<>>
    BY Zenon DEF NewClient
  <2>6. \A d \in Clients : d # c => Seated(d)
    BY Zenon, <2>4 DEF Seated
  <2>7. \A d \in Clients : Seated(d) \/ clients'[d] = None \/ clients'[d].completed = <<>>
    BY Zenon, <2>4, <2>5, <2>6
  <2> QED BY Zenon, <1>1, <2>2, <2>4, <2>5, <2>6, <2>7, NewClientTyped, DrawnKept, FinishedKept DEF Region, RInv
<1> QED BY Zenon, <1>2, <1>3

\* close_client retires the client.
LEMMA CloseEffect ==
    ASSUME Region, NEW c \in Clients, NEW inc \in Incarnations, CloseClient(c, inc)
    PROVE  /\ Region' /\ Effect({}) /\ clients'[c] = None
           /\ \A d \in Clients : d # c => Seated(d)
<1>1. RInv'
  BY Zenon, CloseSafe DEF Region
<1>2. /\ objects' = ObjectsWithout(Retired(c)) /\ clients' = [clients EXCEPT ![c] = None]
      /\ allocated' = allocated /\ issued' = issued
  BY Zenon DEF CloseClient
<1>3. Effect({})
  BY <1>2, RetiredWriting, WithoutEffect DEF Region
<1>4. clients'[c] = None /\ \A d \in Clients : d # c => clients'[d] = clients[d]
  BY Zenon, <1>2 DEF Region, RInv, RTypeOK
<1>5. \A d \in Clients : d # c => Seated(d)
  BY Zenon, <1>4 DEF Seated
<1> QED BY Zenon, <1>1, <1>3, <1>4, <1>5, DrawnKept, FinishedKept DEF Region, RInv

\* A reserve_write that finds no room only consumes what has expired.
LEMMA OutOfSpaceEffect ==
    ASSUME Region, NEW c \in Clients, NEW inc \in Incarnations, NEW shape \in Batches,
           ReserveWriteOutOfSpace(c, inc, shape)
    PROVE  /\ Region' /\ Effect({}) /\ issued' = issued
           /\ \A d \in Clients : Seated(d)
<1> DEFINE D == Expired(DOMAIN shape)
<1>1. RInv'
  BY Zenon, OutOfSpaceSafe DEF Region
<1>2. /\ objects' = ObjectsWithout(D) /\ clients' = ClientsWithout(D)
      /\ allocated' = allocated /\ issued' = issued
  BY Zenon DEF ReserveWriteOutOfSpace
<1>3. /\ D \in SUBSET Keys
      /\ \A k \in D : objects[k] # None /\ objects[k].state = "WRITING"
  <2>1. DOMAIN shape \in SUBSET Keys
    BY Zenon DEF Batches
  <2> QED BY Zenon, <2>1, ExpiredWriting
<1> HIDE DEF D
<1>4. Effect({})
  BY Zenon, <1>2, <1>3, WithoutEffect DEF Region
<1>5. \A d \in Clients : Seated(d)
  BY Zenon, <1>2, <1>3, ClientsWithoutFacts, ClientsWithoutRest DEF Seated, Region, RInv
<1> QED BY Zenon, <1>1, <1>2, <1>4, <1>5, DrawnKept, FinishedKept DEF Region, RInv

\* The deadline of a reservation passes.
LEMMA LapseEffect ==
    ASSUME Region, NEW k \in Keys, Lapse(k)
    PROVE  /\ Region' /\ Effect({}) /\ clients' = clients
<1>1. RInv'
  BY Zenon, LapseSafe DEF Region
<1>2. /\ objects[k] # None /\ objects[k].state = "WRITING"
      /\ objects' = [objects EXCEPT ![k].lapsed = TRUE]
      /\ allocated' = allocated /\ issued' = issued /\ clients' = clients
  BY Zenon DEF Lapse
<1>3. objects[k] \in Object /\ objects \in [Keys -> Object \cup {None}] /\ allocated \in Nat
  BY Zenon, <1>2, ObjectTyped DEF Region, RInv, RTypeOK
<1>4. /\ \A j \in Keys : j # k => objects'[j] = objects[j]
      /\ objects'[k].state = objects[k].state /\ objects'[k].off = objects[k].off
      /\ objects'[k].shape = objects[k].shape /\ objects'[k].token = objects[k].token
  BY Zenon, <1>2, <1>3 DEF Object
<1>5. Effect({})
  BY <1>2, <1>3, <1>4 DEF Effect, Change
<1>6. \A d \in Clients : Seated(d)
  BY Zenon, <1>2 DEF Seated
<1> QED BY Zenon, <1>1, <1>2, <1>5, <1>6, DrawnKept, FinishedKept DEF Region, RInv

\* reserve_write: each token it draws stands for an object of the caller.
LEMMA ReserveWriteEffect ==
    ASSUME Region, NEW c \in Clients, NEW inc \in Incarnations, NEW shape \in Batches,
           ReserveWrite(c, inc, shape)
    PROVE  /\ Region' /\ Effect({}) /\ clients[c] # None
           /\ \A d \in Clients : Seated(d)
           /\ \A t \in issued' \ issued : clients'[c].writes[t] \in Keys
           /\ \A j, k \in Keys :
                 objects'[j] # None /\ objects'[k] # None
                 /\ objects'[j].token = objects'[k].token /\ objects'[j].token \notin issued => j = k
<1> DEFINE S == Absent(DOMAIN shape)
           D == Expired(DOMAIN shape)
           token == CHOOSE f \in FreshTokens(S) : TRUE
           CW == ClientsWithout(D)
           W == [t \in Tokens |-> IF \E k \in S : token[k] = t
                                  THEN CHOOSE k \in S : token[k] = t
                                  ELSE CW[c].writes[t]]
           Put(off) == [k \in Keys |->
             IF k \in S
             THEN [state |-> "WRITING", off |-> off[k], shape |-> shape[k],
                   writer |-> c, token |-> token[k], lapsed |-> FALSE]
             ELSE objects[k]]
<1>1. PICK hi \in allocated .. Capacity :
         \E off \in Placements(S, shape, hi) :
            /\ allocated' = hi
            /\ objects' = Put(off)
            /\ clients' = [CW EXCEPT ![c].writes = W]
            /\ issued' = issued \cup {token[k] : k \in S}
  BY Zenon DEF ReserveWrite
<1>2. PICK off \in Placements(S, shape, hi) :
         /\ allocated' = hi
         /\ objects' = Put(off)
         /\ clients' = [CW EXCEPT ![c].writes = W]
         /\ issued' = issued \cup {token[k] : k \in S}
  BY Zenon, <1>1
<1>3. /\ RInv' /\ allocated <= allocated'
      /\ \A k \in Keys : objects'[k] # objects[k] =>
            /\ objects[k] # None => objects[k].state = "WRITING"
            /\ allocated <= objects'[k].off
  BY Zenon, ReserveWriteSafe DEF Region
<1>4. clients[c] # None
  BY Zenon DEF ReserveWrite, Registered
<1>5. token \in [S -> Tokens \ issued] /\ \A x, y \in S : x # y => token[x] # token[y]
  <2>1. FreshTokens(S) # {}
    BY Zenon DEF ReserveWrite
  <2>2. token \in FreshTokens(S)
    BY Zenon, <2>1
  <2> QED BY Zenon, <2>2 DEF FreshTokens
<1>6. S \in SUBSET Keys /\ D \in SUBSET Keys
  BY Zenon DEF Batches, Absent, Expired
<1>7. /\ CW \in [Clients -> Client \cup {None}]
      /\ \A d \in Clients : (CW[d] = None) <=> (clients[d] = None)
      /\ CW[c] \in Client /\ CW[c] # None
  BY Zenon, <1>4, <1>6, ClientsWithoutFacts DEF Region, RInv
<1>8. \A d \in Clients : clients[d] # None =>
         CW[d].inc = clients[d].inc /\ CW[d].completed = clients[d].completed
  BY Zenon, <1>6, ClientsWithoutRest DEF Region, RInv
<1> HIDE DEF token, CW, S, D
<1>9. \A t \in Tokens : (\E k \in S : token[k] = t) => W[t] \in S
  <2> SUFFICES ASSUME NEW t \in Tokens, \E k \in S : token[k] = t PROVE W[t] \in S
    BY Zenon
  <2>1. (CHOOSE k \in S : token[k] = t) \in S
    BY Zenon
  <2> QED BY Zenon, <2>1
<1> HIDE DEF W
<1>10. clients'[c] = [CW[c] EXCEPT !.writes = W] /\ \A d \in Clients : d # c => clients'[d] = CW[d]
  BY Zenon, <1>2, <1>7
<1>11. /\ clients'[c].writes = W /\ clients'[c].inc = CW[c].inc
       /\ clients'[c].completed = CW[c].completed
  BY Zenon, <1>7, <1>10 DEF Client
<1>12. clients'[c] # None
  <2>1. clients'[c] = None \/ clients'[c] \in Client
    BY Zenon, <1>3 DEF RInv, RTypeOK
  <2>2. W \in [Tokens -> Keys \cup {None}]
    <3>1. \A t \in Tokens : CW[c].writes[t] \in Keys \cup {None}
      BY Zenon, <1>7 DEF Client
    <3>2. ASSUME NEW t \in Tokens PROVE W[t] \in Keys \cup {None}
      <4>1. CASE \E k \in S : token[k] = t
        BY Zenon, <1>6, <1>9, <4>1
      <4>2. CASE ~ \E k \in S : token[k] = t
        BY Zenon, <3>1, <4>2 DEF W
      <4> QED BY Zenon, <4>1, <4>2
    <3> QED BY Zenon, <3>2 DEF W
  <2> QED BY Zenon, <1>7, <1>10, <2>2, RewrittenTyped
<1>13. \A d \in Clients : Seated(d)
  BY Zenon, <1>4, <1>7, <1>8, <1>10, <1>11, <1>12 DEF Seated
<1>14. \A t \in issued' \ issued : clients'[c].writes[t] \in Keys
  BY Zenon, <1>2, <1>5, <1>6, <1>9, <1>11
<1>15. /\ \A k \in S : /\ objects'[k].state = "WRITING" /\ objects'[k].token = token[k]
       /\ \A k \in Keys : k \notin S => objects'[k] = objects[k]
  BY Zenon, <1>2, <1>6
<1>16. \A k \in S : token[k] \in issued' \ issued
  BY Zenon, <1>2, <1>5
<1>17. \A k \in Keys : objects[k] # None /\ objects[k].state = "VALID" => objects'[k] = objects[k]
  BY Zenon, <1>3
<1>18. \A k \in S : allocated <= objects'[k].off
  <2>1. off \in [S -> allocated .. Capacity]
    BY Zenon DEF Placements
  <2>2. \A k \in S : objects'[k].off = off[k]
    BY Zenon, <1>2, <1>6
  <2>3. allocated \in Nat /\ Capacity \in Nat
    BY Zenon, RegionAssumption DEF Region, RInv, RTypeOK
  <2> QED BY <2>1, <2>2, <2>3
<1>19. Effect({})
  <2>1. issued \subseteq issued'
    BY Zenon, <1>2
  <2> QED BY Zenon, <1>3, <1>6, <1>15, <1>16, <1>17, <1>18, <2>1 DEF Effect, Change
<1>20. \A j \in Keys : objects'[j] # None /\ objects'[j].token \notin issued => j \in S
  BY Zenon, <1>15 DEF Region, TokensDrawn
<1>21. ASSUME NEW j \in Keys, NEW k \in Keys, objects'[j] # None, objects'[k] # None,
              objects'[j].token = objects'[k].token, objects'[j].token \notin issued
       PROVE  j = k
  <2>1. j \in S /\ k \in S
    BY Zenon, <1>20, <1>21
  <2>2. token[j] = token[k]
    BY Zenon, <1>15, <1>21, <2>1
  <2> QED BY Zenon, <1>5, <2>1, <2>2
<1>22. TokensDrawn' /\ FinishedStays'
  BY Zenon, <1>3, <1>13, <1>19, DrawnKept, FinishedKept DEF Region, RInv
<1> QED BY Zenon, <1>3, <1>4, <1>13, <1>14, <1>19, <1>21, <1>22 DEF Region

\* reserve_read: each token it draws is a lease on a VALID object.
LEMMA ReserveReadEffect ==
    ASSUME Region, NEW c \in Clients, NEW inc \in Incarnations, NEW S \in SUBSET Keys,
           NEW n \in 0 .. MaxReaders, ReserveRead(c, inc, S, n)
    PROVE  /\ Region' /\ Effect({}) /\ clients[c] # None
           /\ \A d \in Clients : Seated(d)
           /\ \A t \in issued' \ issued :
                 LET k == clients'[c].leases[t]
                 IN k \in Keys /\ objects[k] # None /\ objects[k].state = "VALID"
<1> DEFINE D == Expired(S)
           lease == Readable(S) \X (1 .. n)
           token == CHOOSE f \in FreshTokens(lease) : TRUE
           L == [t \in Tokens |-> IF \E x \in lease : token[x] = t
                                  THEN (CHOOSE x \in lease : token[x] = t)[1]
                                  ELSE clients[c].leases[t]]
           CW == ClientsWithout(D)
<1>1. /\ clients[c] # None
      /\ clients' = [CW EXCEPT ![c].leases = L]
      /\ issued' = issued \cup {token[x] : x \in lease}
      /\ objects' = ObjectsWithout(D) /\ allocated' = allocated
  BY Zenon DEF ReserveRead, Registered
<1>2. RInv'
  BY Zenon, ReserveReadSafe DEF Region
<1>3. token \in [lease -> Tokens \ issued]
  <2>1. FreshTokens(lease) # {}
    BY Zenon DEF ReserveRead
  <2>2. token \in FreshTokens(lease)
    BY Zenon, <2>1
  <2> QED BY Zenon, <2>2 DEF FreshTokens
<1>4. \A x \in lease : x[1] \in Keys /\ objects[x[1]] # None /\ objects[x[1]].state = "VALID"
  BY Zenon DEF Readable
<1>5. \A t \in Tokens : (\E x \in lease : token[x] = t) => \E x \in lease : L[t] = x[1]
  <2> SUFFICES ASSUME NEW t \in Tokens, \E x \in lease : token[x] = t
               PROVE  \E x \in lease : L[t] = x[1]
    BY Zenon
  <2>1. (CHOOSE x \in lease : token[x] = t) \in lease
    BY Zenon
  <2> QED BY Zenon, <2>1
<1> HIDE DEF L, token, lease
<1>6. /\ D \in SUBSET Keys
      /\ \A k \in D : objects[k] # None /\ objects[k].state = "WRITING"
  BY Zenon, ExpiredWriting
<1> HIDE DEF D
<1>7. /\ CW \in [Clients -> Client \cup {None}]
      /\ \A d \in Clients : (CW[d] = None) <=> (clients[d] = None)
      /\ CW[c] \in Client /\ CW[c] # None
  BY Zenon, <1>1, <1>6, ClientsWithoutFacts DEF Region, RInv
<1>8. \A d \in Clients : clients[d] # None =>
         CW[d].inc = clients[d].inc /\ CW[d].completed = clients[d].completed
  BY Zenon, <1>6, ClientsWithoutRest DEF Region, RInv
<1> HIDE DEF CW
<1>9. clients'[c] = [CW[c] EXCEPT !.leases = L] /\ \A d \in Clients : d # c => clients'[d] = CW[d]
  BY Zenon, <1>1, <1>7
<1>10. /\ clients'[c].leases = L /\ clients'[c].inc = CW[c].inc
       /\ clients'[c].completed = CW[c].completed /\ clients'[c].writes = CW[c].writes
  BY Zenon, <1>7, <1>9 DEF Client
<1>11. \A t \in issued' \ issued :
          LET k == clients'[c].leases[t]
          IN k \in Keys /\ objects[k] # None /\ objects[k].state = "VALID"
  <2> SUFFICES ASSUME NEW t \in issued' \ issued
               PROVE  /\ L[t] \in Keys /\ objects[L[t]] # None
                      /\ objects[L[t]].state = "VALID"
    BY Zenon, <1>10
  <2>1. t \in Tokens /\ \E x \in lease : token[x] = t
    BY Zenon, <1>1, <1>3
  <2>2. PICK x \in lease : L[t] = x[1]
    BY Zenon, <1>5, <2>1
  <2> QED BY Zenon, <1>4, <2>2
<1>12. clients'[c] # None
  <2>1. L \in [Tokens -> Keys \cup {None}]
    <3>1. ASSUME NEW t \in Tokens PROVE L[t] \in Keys \cup {None}
      <4>1. CASE \E x \in lease : token[x] = t
        BY Zenon, <1>4, <1>5, <4>1
      <4>2. CASE ~ \E x \in lease : token[x] = t
        <5>1. clients[c].leases[t] \in Keys \cup {None}
          BY Zenon, <1>1, ClientTyped DEF Region, RInv
        <5> QED BY Zenon, <4>2, <5>1 DEF L
      <4> QED BY Zenon, <4>1, <4>2
    <3> QED BY Zenon, <3>1 DEF L
  <2>2. [CW[c] EXCEPT !.leases = L] \in Client
    BY Zenon, <1>7, <2>1 DEF Client
  <2> QED BY Zenon, <1>9, <2>2, RegionAssumption
<1>13. \A d \in Clients : Seated(d)
  BY <1>1, <1>7, <1>8, <1>9, <1>10, <1>12 DEF Seated
<1>14. Effect({})
  <2>1. \A k \in Keys : objects'[k] # None => objects'[k] = objects[k]
    BY Zenon, <1>1 DEF ObjectsWithout
  <2>2. \A k \in Keys : objects[k] # None /\ objects[k].state = "VALID" => objects'[k] = objects[k]
    BY Zenon, <1>1, <1>6 DEF ObjectsWithout
  <2>3. issued \subseteq issued' /\ allocated \in Nat
    BY Zenon, <1>1 DEF Region, RInv, RTypeOK
  <2> QED BY <1>1, <2>1, <2>2, <2>3 DEF Effect, Change
<1> QED BY Zenon, <1>1, <1>2, <1>11, <1>13, <1>14, DrawnKept, FinishedKept DEF Region, RInv

\* The remembered completions are earlier ones and the new one.
LEMMA CompletionMembers ==
    ASSUME RTypeOK, NEW c \in Clients, clients[c] # None, NEW t \in Tokens, NEW op \in Ops,
           NEW i \in DOMAIN Completion(c, t, op)
    PROVE  \/ Completion(c, t, op)[i] = <<t, op>>
           \/ \E j \in DOMAIN clients[c].completed :
                 Completion(c, t, op)[i] = clients[c].completed[j]
<1> DEFINE Q == Tokens \X Ops
           s == clients[c].completed
           e == <<t, op>>
           all == Append(s, e)
<1>1. s \in Seq(Q) /\ e \in Q
  BY Zenon, ClientTyped DEF Completions
<1>2. Completion(c, t, op) = (IF Len(all) > MaxCompleted THEN Tail(all) ELSE all)
  BY Zenon DEF Completion
<1> HIDE DEF Q, s, e
<1>3. /\ all \in Seq(Q) /\ Len(all) = Len(s) + 1 /\ all # <<>>
      /\ \A j \in 1..Len(s) : all[j] = s[j]
      /\ all[Len(s) + 1] = e /\ DOMAIN all = 1..(Len(s) + 1) /\ DOMAIN s = 1..Len(s) /\ Len(s) \in Nat
  BY <1>1
<1> HIDE DEF all
<1>4. \A j \in DOMAIN all : all[j] = e \/ \E m \in DOMAIN s : all[j] = s[m]
  <2> SUFFICES ASSUME NEW j \in DOMAIN all PROVE all[j] = e \/ \E m \in DOMAIN s : all[j] = s[m]
    BY Zenon
  <2>1. j = Len(s) + 1 \/ j \in 1..Len(s)
    BY <1>3
  <2> QED BY Zenon, <1>3, <2>1
<1>5. CASE Len(all) > MaxCompleted
  <2>1. Tail(all) \in Seq(Q) /\ Len(Tail(all)) = Len(all) - 1
        /\ \A j \in 1..(Len(all) - 1) : Tail(all)[j] = all[j + 1]
    BY <1>3
  <2>2. DOMAIN Tail(all) = 1..(Len(all) - 1)
    BY <2>1
  <2>3. i \in 1..(Len(all) - 1)
    BY Zenon, <1>2, <1>5, <2>2
  <2>4. i + 1 \in DOMAIN all
    BY <1>3, <2>3
  <2>5. Completion(c, t, op)[i] = all[i + 1]
    BY Zenon, <1>2, <1>5, <2>1, <2>3
  <2> QED BY Zenon, <1>4, <2>4, <2>5 DEF e, s
<1>6. CASE ~(Len(all) > MaxCompleted)
  BY Zenon, <1>2, <1>4, <1>6 DEF e, s
<1> QED BY Zenon, <1>5, <1>6

\* A remembered completion keeps what is committed, if it is itself committed.
LEMMA CompletedKept ==
    ASSUME RInv, FinishedStays, NEW T, Effect(T),
           NEW c \in Clients, clients[c] # None, NEW t \in Tokens, NEW op \in Ops,
           clients'[c].completed = Completion(c, t, op),
           \A d \in Clients : d # c => Seated(d),
           op = "FINISH_WRITE" =>
               \E k \in Keys : /\ objects'[k] # None /\ objects'[k].state = "VALID"
                               /\ objects'[k].token = t
    PROVE  FinishedStays'
<1>0. \A k \in Keys : objects[k] # None /\ objects[k].state = "VALID" => objects'[k] = objects[k]
  BY Zenon DEF Effect, Change
<1> SUFFICES ASSUME NEW d \in Clients, clients'[d] # None,
                    NEW i \in DOMAIN clients'[d].completed,
                    clients'[d].completed[i][2] = "FINISH_WRITE"
             PROVE  \E k \in Keys : /\ objects'[k] # None /\ objects'[k].state = "VALID"
                                    /\ objects'[k].token = clients'[d].completed[i][1]
  BY Zenon DEF FinishedStays
<1>1. ASSUME NEW j \in DOMAIN clients[d].completed, clients[d] # None,
             clients'[d].completed[i] = clients[d].completed[j]
      PROVE  \E k \in Keys : /\ objects'[k] # None /\ objects'[k].state = "VALID"
                             /\ objects'[k].token = clients'[d].completed[i][1]
  <2>1. PICK k \in Keys : /\ objects[k] # None /\ objects[k].state = "VALID"
                          /\ objects[k].token = clients[d].completed[j][1]
    BY Zenon, <1>1 DEF FinishedStays
  <2> QED BY Zenon, <1>0, <1>1, <2>1
<1>2. CASE d # c
  BY Zenon, <1>1, <1>2 DEF Seated
<1>3. CASE d = c
  <2>1. i \in DOMAIN Completion(c, t, op)
    BY Zenon, <1>3
  <2>2. CASE Completion(c, t, op)[i] = <<t, op>>
    BY <1>3, <2>2
  <2>3. CASE \E j \in DOMAIN clients[c].completed :
               Completion(c, t, op)[i] = clients[c].completed[j]
    BY Zenon, <1>1, <1>3, <2>3
  <2> QED BY Zenon, <2>1, <2>2, <2>3, CompletionMembers DEF RInv
<1> QED BY Zenon, <1>2, <1>3

\* The object of token t is committed by the step; clients neither come nor go.
CommitsToken(t) ==
    \E k \in Keys : /\ objects'[k] # None /\ objects'[k].state = "VALID"
                    /\ objects'[k].token = t
SameClients ==
    \A d \in Clients : /\ (clients'[d] = None) <=> (clients[d] = None)
                       /\ clients[d] # None => clients'[d].inc = clients[d].inc

\* finish_write, abort_write or finish_read of a token.
LEMMA CompleteEffect ==
    ASSUME Region, NEW c \in Clients, NEW inc \in Incarnations, NEW t \in Tokens, NEW op \in Ops,
           CompleteTokens(c, inc, t, op)
    PROVE  /\ Region' /\ Effect(IF op = "FINISH_WRITE" THEN {t} ELSE {})
           /\ clients[c] # None /\ issued' = issued /\ SameClients
           /\ op = "FINISH_WRITE" /\ TokenStatus(c, t, op) = "OK" => CommitsToken(t)
<1> DEFINE T == IF op = "FINISH_WRITE" THEN {t} ELSE {}
           done == \E k \in Keys : /\ objects'[k] # None /\ objects'[k].state = "VALID"
                                   /\ objects'[k].token = t
           kept == \A d \in Clients : /\ (clients'[d] = None) <=> (clients[d] = None)
                                      /\ clients[d] # None => clients'[d].inc = clients[d].inc
           Goal == /\ Region' /\ Effect(T) /\ clients[c] # None /\ issued' = issued /\ kept
                   /\ op = "FINISH_WRITE" /\ TokenStatus(c, t, op) = "OK" => done
<1> SUFFICES Goal
  BY Zenon DEF SameClients, CommitsToken
<1>1. /\ clients[c] # None /\ allocated' = allocated /\ issued' = issued
      /\ clients[c] \in Client /\ clients \in [Clients -> Client \cup {None}]
      /\ allocated \in Nat /\ RInv' /\ RInv
  BY Zenon, ClientTyped, CompleteTokensSafe DEF CompleteTokens, Registered, Region, RInv, RTypeOK
<1>2. ASSUME Effect(T), op = "FINISH_WRITE", CompletedBefore(c, t, op) PROVE done
  <2>1. PICK i \in DOMAIN clients[c].completed : clients[c].completed[i] = <<t, op>>
    BY Zenon, <1>2 DEF CompletedBefore
  <2>2. clients[c].completed[i][1] = t /\ clients[c].completed[i][2] = "FINISH_WRITE"
    BY <1>2, <2>1
  <2>3. FinishedStays
    BY Zenon DEF Region
  <2>4. PICK k \in Keys : /\ objects[k] # None /\ objects[k].state = "VALID"
                          /\ objects[k].token = clients[c].completed[i][1]
    BY Zenon, <1>1, <2>2, <2>3 DEF FinishedStays
  <2> QED BY Zenon, <1>2, <2>2, <2>4 DEF Effect, Change
<1>3. ASSUME Effect(T), FinishedStays', kept,
             op = "FINISH_WRITE" /\ clients[c].writes[t] # None /\ ~Lapsed(clients[c].writes[t]) => done
      PROVE  Goal
  <2>1. TokensDrawn'
    BY Zenon, <1>1, <1>3, DrawnKept DEF Region, RInv
  <2>2. op = "FINISH_WRITE" /\ TokenStatus(c, t, op) = "OK" => done
    BY Zenon, <1>2, <1>3 DEF TokenStatus
  <2> QED BY Zenon, <1>1, <1>3, <2>1, <2>2 DEF Region
<1> HIDE DEF done, Goal
<1>4. CASE objects' = objects /\ clients' = clients
           /\ (op = "FINISH_WRITE" => clients[c].writes[t] = None)
  <2>1. Effect(T)
    BY <1>1, <1>4 DEF Effect, Change
  <2>2. \A d \in Clients : Seated(d)
    BY Zenon, <1>4 DEF Seated
  <2>3. FinishedStays'
    BY Zenon, <1>1, <2>1, <2>2, FinishedKept DEF Region
  <2>4. kept
    BY Zenon, <1>4
  <2> QED BY Zenon, <1>3, <1>4, <2>1, <2>3, <2>4
<1>5. ASSUME NEW x, clients' = [clients EXCEPT ![c] = x], x \in Client, x.inc = clients[c].inc,
             x.completed = Completion(c, t, op), Effect(T), op = "FINISH_WRITE" => done
      PROVE  FinishedStays' /\ kept
  <2>1. x # None /\ clients'[c] = x /\ \A d \in Clients : d # c => clients'[d] = clients[d]
    BY Zenon, <1>1, <1>5, RegionAssumption
  <2>2. \A d \in Clients : d # c => Seated(d)
    BY Zenon, <2>1 DEF Seated
  <2>3. FinishedStays'
    BY Zenon, <1>1, <1>5, <2>1, <2>2, CompletedKept DEF Region, done
  <2> QED BY Zenon, <1>1, <1>5, <2>1, <2>3
<1>6. CASE op = "FINISH_READ" /\ clients[c].leases[t] # None
  <2> DEFINE x == [clients[c] EXCEPT !.leases = [clients[c].leases EXCEPT ![t] = None],
                                     !.completed = Completion(c, t, op)]
  <2>1. clients' = [clients EXCEPT ![c] = x] /\ objects' = objects
    BY Zenon, <1>1, <1>6 DEF CompleteTokens, Client
  <2>2. x \in Client /\ x.inc = clients[c].inc /\ x.completed = Completion(c, t, op)
    <3>1. Completion(c, t, op) \in Completions
      BY Zenon, <1>1, CompletionTyped DEF RInv
    <3>2. [clients[c].leases EXCEPT ![t] = None] \in [Tokens -> Keys \cup {None}]
      BY Zenon, <1>1 DEF Client
    <3> QED BY Zenon, <1>1, <3>1, <3>2 DEF Client
  <2> HIDE DEF x
  <2>3. Effect(T)
    BY <1>1, <2>1 DEF Effect, Change
  <2> QED BY Zenon, <1>3, <1>5, <1>6, <2>1, <2>2, <2>3
<1>7. CASE op # "FINISH_READ" /\ CompleteWrite(c, t, op)
  <2>1. PICK k \in Keys : k = clients[c].writes[t]
    BY Zenon, <1>1, <1>7 DEF CompleteWrite, Client
  <2>2. /\ objects[k] # None /\ objects[k].state = "WRITING" /\ objects[k] \in Object
        /\ objects[k].writer = c /\ objects[k].token = t
        /\ objects \in [Keys -> Object \cup {None}]
    <3>1. clients[c].writes[t] # None
      BY Zenon, <1>7 DEF CompleteWrite
    <3>2. objects[k] # None /\ objects[k].state = "WRITING"
          /\ objects[k].writer = c /\ objects[k].token = t
      <4>1. t \in Held(clients[c].writes) /\ TokensMatchObjects
        BY Zenon, <1>1, <3>1 DEF Held, RInv
      <4> QED BY <1>1, <2>1, <4>1 DEF TokensMatchObjects
    <3> QED BY Zenon, <1>1, <3>2, ObjectTyped DEF RInv, RTypeOK
  <2> DEFINE x == [clients[c] EXCEPT !.writes = [clients[c].writes EXCEPT ![t] = None],
                                     !.completed = Completion(c, t, op)]
  <2>3. clients' = [clients EXCEPT ![c] = x]
    BY Zenon, <1>1, <1>7 DEF CompleteWrite, Client
  <2>4. x \in Client /\ x.inc = clients[c].inc /\ x.completed = Completion(c, t, op)
    <3>1. Completion(c, t, op) \in Completions
      BY Zenon, <1>1, CompletionTyped DEF RInv
    <3>2. [clients[c].writes EXCEPT ![t] = None] \in [Tokens -> Keys \cup {None}]
      BY Zenon, <1>1 DEF Client
    <3> QED BY Zenon, <1>1, <3>1, <3>2 DEF Client
  <2> HIDE DEF x
  <2>5. CASE op = "FINISH_WRITE"
    <3>1. objects' = [objects EXCEPT ![k].state = "VALID"]
      BY Zenon, <1>7, <2>1, <2>5 DEF CompleteWrite
    <3>2. /\ \A j \in Keys : j # k => objects'[j] = objects[j]
          /\ objects'[k].state = "VALID" /\ objects'[k].off = objects[k].off
          /\ objects'[k].shape = objects[k].shape /\ objects'[k].token = objects[k].token
      BY Zenon, <2>2, <3>1 DEF Object
    <3>3. objects'[k] # None
      <4>1. [objects[k] EXCEPT !.state = "VALID"] \in Object
        BY Zenon, <2>2 DEF Object
      <4> QED BY Zenon, <2>2, <3>1, <4>1, RegionAssumption
    <3>4. Effect(T)
      BY <1>1, <2>2, <2>5, <3>2 DEF Effect, Change
    <3>5. done
      BY Zenon, <2>2, <3>2, <3>3 DEF done
    <3> QED BY Zenon, <1>3, <1>5, <2>3, <2>4, <3>4, <3>5
  <2>6. CASE op # "FINISH_WRITE"
    <3>1. objects' = [objects EXCEPT ![k] = None]
      BY Zenon, <1>7, <2>1, <2>6 DEF CompleteWrite
    <3>2. Effect(T)
      BY <1>1, <2>2, <3>1 DEF Effect, Change
    <3> QED BY Zenon, <1>3, <1>5, <2>3, <2>4, <2>6, <3>2
  <2> QED BY Zenon, <2>5, <2>6
<1>8. CASE op # "FINISH_READ" /\ CompleteExpired(c, t)
  <2>1. PICK k \in Keys : k = clients[c].writes[t]
    BY Zenon, <1>1, <1>8 DEF CompleteExpired, Client
  <2>2. /\ objects' = ObjectsWithout({k}) /\ clients' = ClientsWithout({k}) /\ Lapsed(k)
    BY Zenon, <1>8, <2>1 DEF CompleteExpired
  <2>3. {k} \in SUBSET Keys /\ \A j \in {k} : objects[j] # None /\ objects[j].state = "WRITING"
    BY Zenon, <2>2 DEF Lapsed
  <2>4. Effect({})
    BY Zenon, <1>1, <2>2, <2>3, WithoutEffect
  <2>5. Effect(T)
    BY Zenon, <2>4 DEF Effect, Change
  <2>6. \A d \in Clients : Seated(d)
    BY Zenon, <1>1, <2>2, <2>3, ClientsWithoutFacts, ClientsWithoutRest DEF Seated, RInv
  <2>7. FinishedStays'
    BY Zenon, <1>1, <2>5, <2>6, FinishedKept DEF Region
  <2>8. kept
    BY Zenon, <2>6 DEF Seated
  <2>9. Lapsed(clients[c].writes[t])
    BY Zenon, <2>1, <2>2
  <2> QED BY Zenon, <1>3, <2>5, <2>7, <2>8, <2>9
<1>9. \/ op = "FINISH_READ" /\ clients[c].leases[t] # None
      \/ objects' = objects /\ clients' = clients /\ (op = "FINISH_WRITE" => clients[c].writes[t] = None)
      \/ op # "FINISH_READ" /\ CompleteWrite(c, t, op)
      \/ op # "FINISH_READ" /\ CompleteExpired(c, t)
  BY Zenon DEF CompleteTokens
<1> QED BY Zenon, <1>4, <1>6, <1>7, <1>8, <1>9

\* The new region of a new process.
LEMMA ResetRegion == RReset => Region'
BY Zenon, ResetSafe DEF RReset, Region, TokensDrawn, FinishedStays, NoObjects, NoClients

----------------------------------------------------------------------------
\* What the clients hold of the region

\* The replies recorded for a client.
Replies(c) ==
    IF windows[c] = None THEN {}
    ELSE {windows[c].replies[i] : i \in DOMAIN windows[c].replies}

\* The grants of a reply that was recorded and has not reached its client.
Pending(c, op) ==
    UNION {r.reply.grants : r \in {r \in Replies(c) : r.req = mp[c].call /\ r.req.op = op}}

\* What a client fills, or will once the reply arrives; what it reads.
Filling(c) == mp[c].copying \cup Pending(c, "ReserveWrite")
Reads(c) == mp[c].reading \cup Pending(c, "ReserveRead")

\* What a client no longer fills, and whose completion may still be served.
Spent(c) ==
    mp[c].unsure
    \cup {q.arg : q \in {q \in net : /\ q.client = c /\ q.epoch = epoch
                                     /\ q.op \in {"FINISH_WRITE", "ABORT_WRITE"}}}
    \cup (IF mp[c].call # None /\ mp[c].call.epoch = epoch THEN Unresolved(mp[c].call) ELSE {})

\* An extent that is filled meets no other that is filled or read.
Apart ==
    \A c, d \in Clients : \A g \in Filling(c) :
        /\ \A h \in Filling(d) : (c = d /\ g = h) \/ GUnits(g) \cap GUnits(h) = {}
        /\ \A h \in Reads(d) : GUnits(g) \cap GUnits(h) = {}

\* An extent that is filled was allocated, and only its own object is there.
Covered ==
    \A c \in Clients : \A g \in Filling(c) :
        /\ g.off + Length[g.shape] <= allocated
        /\ \A k \in Keys : objects[k] # None /\ GUnits(g) \cap Extent(k) # {} =>
              objects[k].state = "WRITING" /\ objects[k].token = g.token

\* No completion names the token of an extent that is filled, and no other
\* extent has it.
Unspent ==
    \A c, d \in Clients : \A g \in Filling(c) :
        /\ \A h \in Spent(d) : h.token # g.token
        /\ \A h \in Filling(d) : h.token = g.token => g = h /\ c = d

\* A granted token stands for the object that was granted.
Matching ==
    \A c \in Clients : \A g \in Filling(c) \cup Spent(c) :
        /\ g.epoch = epoch /\ g.token \in issued
        /\ \A k \in Keys : objects[k] # None /\ objects[k].token = g.token =>
              k = g.key /\ objects[k].off = g.off /\ objects[k].shape = g.shape

\* What is read is committed.
Steady ==
    \A c \in Clients : \A h \in Reads(c) :
        /\ objects[h.key] # None /\ objects[h.key].state = "VALID"
        /\ objects[h.key].off = h.off /\ objects[h.key].shape = h.shape

Backed == Covered /\ Unspent /\ Matching /\ Steady

\* A new grant to write, and one to read.
WriteGranted(g) ==
    /\ g.epoch = epoch /\ g.token \in issued' \ issued
    /\ g.key \in Keys /\ objects'[g.key] # None /\ objects'[g.key].state = "WRITING"
    /\ objects'[g.key].off = g.off /\ objects'[g.key].shape = g.shape
    /\ objects'[g.key].token = g.token
    /\ \A k \in Keys : objects'[k] # None /\ objects'[k].token = g.token => k = g.key

ReadGranted(h) ==
    /\ h.key \in Keys /\ objects'[h.key] # None /\ objects'[h.key].state = "VALID"
    /\ objects'[h.key].off = h.off /\ objects'[h.key].shape = h.shape

\* The holdings change by new grants to the client c, and by extents given up.
Holdings(c, NF, NR) ==
    /\ \A d \in Clients : Filling(d)' \subseteq Filling(d) \cup (IF d = c THEN NF ELSE {})
    /\ \A d \in Clients : Reads(d)' \subseteq Reads(d) \cup (IF d = c THEN NR ELSE {})
    /\ \A d \in Clients : \A h \in Spent(d)' :
          h \in Spent(d) \/ (h \in Filling(d) /\ h \notin Filling(d)')

\* The grants that are filled and read are grants.
GrantsTyped ==
    \A c \in Clients : Filling(c) \subseteq Grant /\ Reads(c) \subseteq Grant /\ Spent(c) \subseteq Grant

\* A new grant lies above what was allocated, inside what is now.
LEMMA GrantedAbove ==
    ASSUME Region, Region', NEW T, Effect(T), NEW g, WriteGranted(g)
    PROVE  /\ allocated <= g.off /\ g.off + Length[g.shape] <= allocated'
           /\ g.off \in Nat /\ g.shape \in Shapes
<1>1. /\ g.key \in Keys /\ objects'[g.key] # None
      /\ objects'[g.key].off = g.off /\ objects'[g.key].shape = g.shape
      /\ objects'[g.key].token = g.token /\ g.token \notin issued
  BY Zenon DEF WriteGranted
<1>2. objects[g.key] # None => objects[g.key].token \in issued
  BY Zenon, <1>1 DEF Region, TokensDrawn
<1>3. allocated <= g.off
  BY Zenon, <1>1, <1>2 DEF Effect, Change
<1>4. g.off + Length[g.shape] <= allocated'
  BY Zenon, <1>1 DEF Region, RInv, ExtentsAreDisjoint
<1>5. objects'[g.key] \in Object
  BY Zenon, <1>1 DEF Region, RInv, RTypeOK
<1> QED BY Zenon, <1>1, <1>3, <1>4, <1>5 DEF Object

\* Extents on both sides of what was allocated do not meet.
LEMMA AboveApart ==
    ASSUME NEW a \in Nat, NEW off \in Nat, NEW off2 \in Nat, NEW s \in Shapes, NEW s2 \in Shapes,
           off + Length[s] <= a, a <= off2
    PROVE  Units(off, s) \cap Units(off2, s2) = {} /\ Units(off2, s2) \cap Units(off, s) = {}
<1>1. Length[s] \in Nat /\ Length[s2] \in Nat
  BY Zenon, RegionAssumption
<1> QED BY <1>1 DEF Units

\* A step of the region with its new grants: what it commits was given up.
Granting(c, NF, NR, T) ==
    /\ Effect(T) /\ Holdings(c, NF, NR) /\ epoch' = epoch
    /\ \A t \in T : \E d \in Clients : \E h \in Spent(d) : h.token = t
    /\ \A g \in NF : WriteGranted(g)
    /\ \A g, h \in NF : g.token = h.token => g = h
    /\ \A h \in NR : ReadGranted(h)

\* What an extent that is filled meets after the step.
LEMMA CoveredKept ==
    ASSUME Region, Region', Backed, GrantsTyped, NEW c \in Clients, NEW NF, NEW NR, NEW T,
           Granting(c, NF, NR, T)
    PROVE  Covered'
<1> SUFFICES ASSUME NEW d \in Clients, NEW g \in Filling(d)'
             PROVE  /\ g.off + Length[g.shape] <= allocated'
                    /\ \A k \in Keys : objects'[k] # None /\ GUnits(g) \cap Extent(k)' # {} =>
                          objects'[k].state = "WRITING" /\ objects'[k].token = g.token
  BY Zenon DEF Covered, GUnits, Units
<1>1. g \in Filling(d) \/ g \in NF
  BY Zenon DEF Granting, Holdings
<1>2. allocated <= allocated' /\ allocated \in Nat /\ allocated' \in Nat /\ Effect(T)
  BY Zenon DEF Granting, Effect, Change, Region, RInv, RTypeOK
<1>3. CASE g \in Filling(d)
  <2>1. /\ g \in Grant /\ g.off \in Nat /\ g.shape \in Shapes /\ Length[g.shape] \in Nat
    BY Zenon, <1>3, RegionAssumption DEF GrantsTyped, Grant
  <2>2. /\ g.off + Length[g.shape] <= allocated
        /\ \A k \in Keys : objects[k] # None /\ GUnits(g) \cap Extent(k) # {} =>
              objects[k].state = "WRITING" /\ objects[k].token = g.token
    BY Zenon, <1>3 DEF Backed, Covered
  <2>3. g.token \notin T
    <3>1. \A e \in Clients : \A h \in Spent(e) : h.token # g.token
      BY Zenon, <1>3 DEF Backed, Unspent
    <3> QED BY Zenon, <3>1 DEF Granting
  <2>4. ASSUME NEW k \in Keys, objects'[k] # None, GUnits(g) \cap Extent(k)' # {}
        PROVE  objects'[k].state = "WRITING" /\ objects'[k].token = g.token
    <3>1. CASE /\ objects[k] # None
               /\ objects'[k].off = objects[k].off /\ objects'[k].shape = objects[k].shape
               /\ objects'[k].token = objects[k].token
               /\ objects'[k].state = objects[k].state \/ objects[k].token \in T
      <4>1. Extent(k)' = Extent(k)
        BY Zenon, <3>1 DEF Extent, Units
      <4>2. objects[k].state = "WRITING" /\ objects[k].token = g.token
        BY Zenon, <2>2, <2>4, <3>1, <4>1
      <4> QED BY Zenon, <2>3, <3>1, <4>2
    <3>2. CASE allocated <= objects'[k].off
      <4>1. objects'[k] \in Object
        BY Zenon, <2>4 DEF Region, RInv, RTypeOK
      <4>2. objects'[k].off \in Nat /\ objects'[k].shape \in Shapes
        BY Zenon, <4>1 DEF Object
      <4>3. GUnits(g) \cap Extent(k)' = {}
        BY <1>2, <2>1, <2>2, <3>2, <4>2, AboveApart DEF GUnits, Extent
      <4> QED BY Zenon, <2>4, <4>3
    <3> QED BY Zenon, <1>2, <2>4, <3>1, <3>2 DEF Effect, Change
  <2>5. g.off + Length[g.shape] <= allocated'
    BY <1>2, <2>1, <2>2
  <2> QED BY Zenon, <2>4, <2>5
<1>4. CASE g \in NF
  <2>1. WriteGranted(g)
    BY Zenon, <1>4 DEF Granting
  <2>2. g.off + Length[g.shape] <= allocated'
    BY Zenon, <1>2, <2>1, GrantedAbove
  <2>3. /\ g.key \in Keys /\ objects'[g.key] # None /\ objects'[g.key].state = "WRITING"
        /\ objects'[g.key].token = g.token
    BY Zenon, <2>1 DEF WriteGranted
  <2>4. GUnits(g) = Extent(g.key)'
    BY Zenon, <2>1 DEF WriteGranted, GUnits, Extent
  <2>5. \A k \in Keys : k # g.key /\ objects'[k] # None => GUnits(g) \cap Extent(k)' = {}
    BY Zenon, <2>3, <2>4 DEF Region, RInv, ExtentsAreDisjoint
  <2> QED BY Zenon, <2>2, <2>3, <2>5
<1> QED BY Zenon, <1>1, <1>3, <1>4

\* Tokens stay apart: a fresh one is nobody's.
LEMMA UnspentKept ==
    ASSUME Region, Backed, NEW c \in Clients, NEW NF, NEW NR, NEW T,
           Granting(c, NF, NR, T)
    PROVE  Unspent'
<1>1. \A d \in Clients : \A g \in Filling(d)' : g \in Filling(d) \/ (d = c /\ g \in NF)
  BY Zenon DEF Granting, Holdings
<1>2. \A d \in Clients : \A h \in Spent(d)' : h \in Spent(d) \/ (h \in Filling(d) /\ h \notin Filling(d)')
  BY Zenon DEF Granting, Holdings
<1>3. \A d \in Clients : \A g \in Filling(d) \cup Spent(d) : g.token \in issued
  BY Zenon DEF Backed, Matching
<1>4. \A g \in NF : g.token \notin issued
  BY Zenon DEF Granting, WriteGranted
<1>5. \A g, h \in NF : g.token = h.token => g = h
  BY Zenon DEF Granting
<1>6. \A d, e \in Clients : \A g \in Filling(d) :
        /\ \A h \in Spent(e) : h.token # g.token
        /\ \A h \in Filling(e) : h.token = g.token => g = h /\ d = e
  BY Zenon DEF Backed, Unspent
<1> SUFFICES ASSUME NEW d \in Clients, NEW e \in Clients, NEW g \in Filling(d)'
             PROVE  /\ \A h \in Spent(e)' : h.token # g.token
                    /\ \A h \in Filling(e)' : h.token = g.token => g = h /\ d = e
  BY Zenon DEF Unspent
<1>7. ASSUME NEW h \in Spent(e)' PROVE h.token # g.token
  <2>1. CASE g \in Filling(d)
    <3>1. CASE h \in Spent(e)
      BY Zenon, <1>6, <2>1, <3>1
    <3>2. CASE h \in Filling(e) /\ h \notin Filling(e)'
      BY Zenon, <1>6, <2>1, <3>2
    <3> QED BY Zenon, <1>2, <1>7, <3>1, <3>2
  <2>2. CASE g \in NF
    BY Zenon, <1>2, <1>3, <1>4, <1>7, <2>2
  <2> QED BY Zenon, <1>1, <2>1, <2>2
<1>8. ASSUME NEW h \in Filling(e)', h.token = g.token PROVE g = h /\ d = e
  <2>1. h \in Filling(e) \/ (e = c /\ h \in NF)
    BY Zenon, <1>1, <1>8
  <2>2. g \in Filling(d) \/ (d = c /\ g \in NF)
    BY Zenon, <1>1
  <2> QED BY Zenon, <1>3, <1>4, <1>5, <1>6, <1>8, <2>1, <2>2
<1> QED BY Zenon, <1>7, <1>8

\* A granted token still stands for what was granted.
LEMMA MatchingKept ==
    ASSUME Region, Region', Backed, NEW c \in Clients, NEW NF, NEW NR, NEW T,
           Granting(c, NF, NR, T)
    PROVE  Matching'
<1> SUFFICES ASSUME NEW d \in Clients, NEW g \in Filling(d)' \cup Spent(d)'
             PROVE  /\ g.epoch = epoch' /\ g.token \in issued'
                    /\ \A k \in Keys : objects'[k] # None /\ objects'[k].token = g.token =>
                          k = g.key /\ objects'[k].off = g.off /\ objects'[k].shape = g.shape
  BY Zenon DEF Matching
<1>1. g \in Filling(d) \cup Spent(d) \/ g \in NF
  BY Zenon DEF Granting, Holdings
<1>2. issued \subseteq issued' /\ Effect(T) /\ epoch' = epoch
  BY Zenon DEF Granting, Effect, Change
<1>3. CASE g \in Filling(d) \cup Spent(d)
  <2>1. /\ g.epoch = epoch /\ g.token \in issued
        /\ \A k \in Keys : objects[k] # None /\ objects[k].token = g.token =>
              k = g.key /\ objects[k].off = g.off /\ objects[k].shape = g.shape
    BY Zenon, <1>3 DEF Backed, Matching
  <2>2. \A k \in Keys : objects'[k] # None /\ objects'[k].token = g.token =>
           k = g.key /\ objects'[k].off = g.off /\ objects'[k].shape = g.shape
    BY Zenon, <1>2, <2>1 DEF Effect, Change
  <2> QED BY Zenon, <1>2, <2>1, <2>2
<1>4. CASE g \in NF
  <2>1. WriteGranted(g)
    BY Zenon, <1>4 DEF Granting
  <2> QED BY Zenon, <1>2, <2>1 DEF WriteGranted
<1> QED BY Zenon, <1>1, <1>3, <1>4

\* A committed object stays where it is.
LEMMA SteadyKept ==
    ASSUME Backed, GrantsTyped, NEW c \in Clients, NEW NF, NEW NR, NEW T, Granting(c, NF, NR, T)
    PROVE  Steady'
<1> SUFFICES ASSUME NEW d \in Clients, NEW h \in Reads(d)'
             PROVE  /\ objects'[h.key] # None /\ objects'[h.key].state = "VALID"
                    /\ objects'[h.key].off = h.off /\ objects'[h.key].shape = h.shape
  BY Zenon DEF Steady
<1>1. h \in Reads(d) \/ h \in NR
  BY Zenon DEF Granting, Holdings
<1>2. CASE h \in Reads(d)
  <2>1. h.key \in Keys
    BY Zenon, <1>2 DEF GrantsTyped, Grant
  <2>2. /\ objects[h.key] # None /\ objects[h.key].state = "VALID"
        /\ objects[h.key].off = h.off /\ objects[h.key].shape = h.shape
    BY Zenon, <1>2 DEF Backed, Steady
  <2> QED BY Zenon, <2>1, <2>2 DEF Granting, Effect, Change
<1>3. CASE h \in NR
  BY Zenon, <1>3 DEF Granting, ReadGranted
<1> QED BY Zenon, <1>1, <1>2, <1>3

\* What is filled keeps apart from what is read: the one is WRITING, the
\* other VALID.
LEMMA BackedApart ==
    ASSUME Covered', Steady', GrantsTyped', NEW c \in Clients, NEW d \in Clients,
           NEW g \in Filling(c)', NEW h \in Reads(d)'
    PROVE  GUnits(g) \cap GUnits(h) = {}
<1>1. h.key \in Keys
  BY Zenon DEF GrantsTyped, Grant
<1>2. /\ objects'[h.key] # None /\ objects'[h.key].state = "VALID"
      /\ objects'[h.key].off = h.off /\ objects'[h.key].shape = h.shape
  BY Zenon DEF Steady
<1>3. Extent(h.key)' = GUnits(h)
  BY Zenon, <1>2 DEF Extent, GUnits
<1>4. objects'[h.key] # None /\ GUnits(g) \cap Extent(h.key)' # {} =>
         objects'[h.key].state = "WRITING"
  BY Zenon, <1>1 DEF Covered, GUnits, Units
<1> QED BY Zenon, <1>2, <1>3, <1>4

\* What is filled keeps apart from what is filled: new extents lie above.
LEMMA ApartKept ==
    ASSUME Region, Region', Apart, Backed, GrantsTyped, GrantsTyped',
           NEW c \in Clients, NEW NF, NEW NR, NEW T, Granting(c, NF, NR, T)
    PROVE  Apart'
<1>1. Covered' /\ Steady'
  BY Zenon, CoveredKept, SteadyKept
<1>2. \A d \in Clients : \A g \in Filling(d)' : g \in Filling(d) \/ (d = c /\ g \in NF)
  BY Zenon DEF Granting, Holdings
<1>3. \A g \in NF : WriteGranted(g)
  BY Zenon DEF Granting
<1>4. ASSUME NEW d \in Clients, NEW g \in Filling(d), NEW h \in NF
      PROVE  GUnits(g) \cap GUnits(h) = {} /\ GUnits(h) \cap GUnits(g) = {}
  <2>1. g.off \in Nat /\ g.shape \in Shapes
    BY Zenon DEF GrantsTyped, Grant
  <2>2. g.off + Length[g.shape] <= allocated /\ allocated \in Nat
    BY Zenon DEF Backed, Covered, Region, RInv, RTypeOK
  <2>3. allocated <= h.off /\ h.off \in Nat /\ h.shape \in Shapes
    BY Zenon, <1>3, GrantedAbove DEF Granting
  <2> QED BY Zenon, <2>1, <2>2, <2>3, AboveApart DEF GUnits
<1>5. ASSUME NEW g \in NF, NEW h \in NF, g # h PROVE GUnits(g) \cap GUnits(h) = {}
  <2>1. WriteGranted(g) /\ WriteGranted(h) /\ g.token # h.token
    BY Zenon, <1>3, <1>5 DEF Granting
  <2>2. g.key # h.key
    BY Zenon, <2>1 DEF WriteGranted
  <2>3. Extent(g.key)' = GUnits(g) /\ Extent(h.key)' = GUnits(h)
    BY Zenon, <2>1 DEF WriteGranted, Extent, GUnits
  <2>4. /\ g.key \in Keys /\ h.key \in Keys /\ objects'[g.key] # None /\ objects'[h.key] # None
    BY Zenon, <2>1 DEF WriteGranted
  <2> QED BY Zenon, <2>2, <2>3, <2>4 DEF Region, RInv, ExtentsAreDisjoint
<1> SUFFICES ASSUME NEW d \in Clients, NEW e \in Clients, NEW g \in Filling(d)'
             PROVE  /\ \A h \in Filling(e)' : (d = e /\ g = h) \/ GUnits(g) \cap GUnits(h) = {}
                    /\ \A h \in Reads(e)' : GUnits(g) \cap GUnits(h) = {}
  BY Zenon DEF Apart, GUnits, Units
<1>6. ASSUME NEW h \in Filling(e)', ~(d = e /\ g = h) PROVE GUnits(g) \cap GUnits(h) = {}
  <2>1. CASE g \in Filling(d) /\ h \in Filling(e)
    BY Zenon, <1>6, <2>1 DEF Apart
  <2>2. CASE g \in NF /\ d = c
    BY Zenon, <1>2, <1>4, <1>5, <1>6, <2>2
  <2>3. CASE h \in NF /\ e = c
    BY Zenon, <1>2, <1>4, <1>5, <1>6, <2>3
  <2> QED BY Zenon, <1>2, <1>6, <2>1, <2>2, <2>3
<1>7. ASSUME NEW h \in Reads(e)' PROVE GUnits(g) \cap GUnits(h) = {}
  BY Zenon, <1>1, <1>7, BackedApart
<1> QED BY Zenon, <1>6, <1>7

\* One step of the region keeps every grant backed.
LEMMA GrantsKept ==
    ASSUME Region, Region', Apart, Backed, GrantsTyped, GrantsTyped',
           NEW c \in Clients, NEW NF, NEW NR, NEW T, Granting(c, NF, NR, T)
    PROVE  Apart' /\ Backed'
BY Zenon, ApartKept, CoveredKept, UnspentKept, MatchingKept, SteadyKept DEF Backed

----------------------------------------------------------------------------
\* Serving a request

\* The fields of a request.
LEMMA RequestTyped ==
    ASSUME NEW req \in Request
    PROVE  /\ req.client \in Clients /\ req.inc \in Incarnations
           /\ req.id \in Nat /\ req.id # 0 /\ req.epoch \in Nat
           /\ req.op \in {"Register", "Close", "ReserveWrite", "ReserveRead"} \cup Ops
           /\ req.op \in Ops => req.arg \in Grant
           /\ req.op = "ReserveWrite" => req.arg \in Batches
           /\ req.op = "ReserveRead" => req.arg \in SUBSET Keys
BY Zenon, OrchestratorAssumption DEF Request, RequestOf, Ops

\* What executing a request does to the region.
LEMMA ExecuteEffect ==
    ASSUME Region, NEW req \in Request, Execute(req)
    PROVE  /\ Region'
           /\ Effect(IF req.op = "FINISH_WRITE" THEN {req.arg.token} ELSE {})
           /\ \A d \in Clients : d # req.client =>
                 /\ (clients'[d] = None) <=> (clients[d] = None)
                 /\ clients[d] # None => clients'[d].inc = clients[d].inc
           /\ IF req.op = "Close" THEN clients'[req.client] = None
              ELSE clients'[req.client] # None /\ clients'[req.client].inc = req.inc
           /\ req.op = "ReserveWrite" =>
                 /\ \A t \in issued' \ issued : clients'[req.client].writes[t] \in Keys
                 /\ \A j, k \in Keys :
                       objects'[j] # None /\ objects'[k] # None
                       /\ objects'[j].token = objects'[k].token
                       /\ objects'[j].token \notin issued => j = k
           /\ req.op = "ReserveRead" =>
                 \A t \in issued' \ issued :
                    LET k == clients'[req.client].leases[t]
                    IN k \in Keys /\ objects[k] # None /\ objects[k].state = "VALID"
           /\ req.op = "FINISH_WRITE" /\ TokenStatus(req.client, req.arg.token, req.op) = "OK" =>
                 \E k \in Keys : /\ objects'[k] # None /\ objects'[k].state = "VALID"
                                 /\ objects'[k].token = req.arg.token
<1> DEFINE c == req.client
           inc == req.inc
<1>1. c \in Clients /\ inc \in Incarnations
  BY Zenon, RequestTyped
<1>2. CASE req.op = "Register" /\ RegisterClient(c, inc)
  BY Zenon, <1>1, <1>2, RegisterEffect DEF Seated
<1>3. CASE req.op = "Close" /\ CloseClient(c, inc)
  BY Zenon, <1>1, <1>3, CloseEffect DEF Seated
<1>4. CASE req.op = "ReserveWrite" /\ ReserveWriteOutOfSpace(c, inc, req.arg)
  <2>1. req.arg \in Batches
    BY Zenon, <1>4, RequestTyped
  <2>2. Region' /\ Effect({}) /\ issued' = issued /\ \A d \in Clients : Seated(d)
    BY Zenon, <1>1, <1>4, <2>1, OutOfSpaceEffect
  <2>3. clients[c] # None /\ clients[c].inc = inc
    BY Zenon, <1>4 DEF ReserveWriteOutOfSpace, Registered
  <2>4. clients'[c] # None /\ clients'[c].inc = inc
    BY Zenon, <1>1, <2>2, <2>3 DEF Seated
  <2>5. ASSUME NEW j \in Keys, NEW k \in Keys, objects'[j] # None, objects'[j].token \notin issued
        PROVE  j = k
    BY Zenon, <2>2, <2>5 DEF Region, TokensDrawn
  <2> QED BY Zenon, <1>1, <1>4, <2>2, <2>4, <2>5 DEF Seated
<1>5. CASE req.op = "ReserveWrite" /\ ReserveWrite(c, inc, req.arg)
  <2>1. req.arg \in Batches
    BY Zenon, <1>5, RequestTyped
  <2>2. /\ Region' /\ Effect({}) /\ \A d \in Clients : Seated(d)
        /\ \A t \in issued' \ issued : clients'[c].writes[t] \in Keys
        /\ \A j, k \in Keys :
              objects'[j] # None /\ objects'[k] # None
              /\ objects'[j].token = objects'[k].token /\ objects'[j].token \notin issued => j = k
    BY Zenon, <1>1, <1>5, <2>1, ReserveWriteEffect
  <2>3. clients[c] # None /\ clients[c].inc = inc
    BY Zenon, <1>5 DEF ReserveWrite, Registered
  <2>4. clients'[c] # None /\ clients'[c].inc = inc
    BY Zenon, <1>1, <2>2, <2>3 DEF Seated
  <2> QED BY Zenon, <1>1, <1>5, <2>2, <2>4 DEF Seated
<1>6. CASE req.op = "ReserveRead" /\ ReserveRead(c, inc, req.arg, MaxReaders)
  <2>1. req.arg \in SUBSET Keys /\ MaxReaders \in 0 .. MaxReaders
    BY <1>6, RequestTyped, RegionAssumption
  <2>2. /\ Region' /\ Effect({}) /\ \A d \in Clients : Seated(d)
        /\ \A t \in issued' \ issued :
              LET k == clients'[c].leases[t]
              IN k \in Keys /\ objects[k] # None /\ objects[k].state = "VALID"
    BY Zenon, <1>1, <1>6, <2>1, ReserveReadEffect
  <2>3. clients[c] # None /\ clients[c].inc = inc
    BY Zenon, <1>6 DEF ReserveRead, Registered
  <2>4. clients'[c] # None /\ clients'[c].inc = inc
    BY Zenon, <1>1, <2>2, <2>3 DEF Seated
  <2> QED BY Zenon, <1>1, <1>6, <2>2, <2>4 DEF Seated
<1>7. CASE req.op \in Ops /\ CompleteTokens(c, inc, req.arg.token, req.op)
  <2>1. req.arg.token \in Tokens
    BY Zenon, <1>7, RequestTyped DEF Grant
  <2>2. clients[c] # None /\ clients[c].inc = inc
    BY Zenon, <1>7 DEF CompleteTokens, Registered
  <2>3. req.op \notin {"Register", "Close", "ReserveWrite", "ReserveRead"} /\ req.op \in Ops
    BY Zenon, <1>7 DEF Ops
  <2> DEFINE T == IF req.op = "FINISH_WRITE" THEN {req.arg.token} ELSE {}
             done == \E k \in Keys : /\ objects'[k] # None /\ objects'[k].state = "VALID"
                                     /\ objects'[k].token = req.arg.token
  <2> DEFINE t == req.arg.token
             op == req.op
  <2>6. c \in Clients /\ inc \in Incarnations /\ t \in Tokens /\ op \in Ops
        /\ CompleteTokens(c, inc, t, op)
    BY Zenon, <1>1, <1>7, <2>1
  <2> HIDE DEF c, inc, t, op
  <2>7. /\ Region' /\ Effect(IF op = "FINISH_WRITE" THEN {t} ELSE {}) /\ SameClients
        /\ op = "FINISH_WRITE" /\ TokenStatus(c, t, op) = "OK" => CommitsToken(t)
    BY Zenon, <2>6, CompleteEffect
  <2> USE DEF c, inc, t, op
  <2>4. /\ Region' /\ Effect(T)
        /\ \A d \in Clients : /\ (clients'[d] = None) <=> (clients[d] = None)
                              /\ clients[d] # None => clients'[d].inc = clients[d].inc
        /\ req.op = "FINISH_WRITE" /\ TokenStatus(c, req.arg.token, req.op) = "OK" => done
    BY Zenon, <2>7 DEF SameClients, CommitsToken
  <2>5. clients'[c] # None /\ clients'[c].inc = inc
    BY Zenon, <1>1, <2>2, <2>4
  <2> HIDE DEF done, T
  <2> QED BY Zenon, <1>1, <2>3, <2>4, <2>5 DEF done, T
<1> QED BY Zenon, <1>2, <1>3, <1>4, <1>5, <1>6, <1>7 DEF Execute

\* The grants of a reply are grants.
LEMMA ReplyTyped ==
    ASSUME Region, epoch \in Nat, NEW req \in Request, Execute(req)
    PROVE  /\ ReplyTo(req) \in Reply
           /\ req.op = "ReserveWrite" =>
                 /\ \A g \in ReplyTo(req).grants : WriteGranted(g)
                 /\ \A g, h \in ReplyTo(req).grants : g.token = h.token => g = h
           /\ req.op = "ReserveRead" => \A h \in ReplyTo(req).grants : ReadGranted(h)
           /\ req.op \notin {"ReserveWrite", "ReserveRead"} => ReplyTo(req).grants = {}
<1> DEFINE c == req.client
           W == clients'[c].writes
           L == clients'[c].leases
           status == IF req.op \in Ops THEN TokenStatus(c, req.arg.token, req.op) ELSE "OK"
           grants == CASE req.op = "ReserveWrite" -> {GrantOf(W[t], t) : t \in Drawn}
                       [] req.op = "ReserveRead" -> {GrantOf(L[t], t) : t \in Drawn}
                       [] OTHER -> {}
<1>1. ReplyTo(req) = [status |-> status, grants |-> grants]
  BY Zenon DEF ReplyTo
<1>2. status \in {"OK", "STALE_TOKEN", "ERROR"}
  BY Zenon DEF TokenStatus
<1>3. c \in Clients /\ RInv' /\ issued' \subseteq Tokens /\ objects' \in [Keys -> Object \cup {None}]
  BY Zenon, ExecuteEffect, RequestTyped DEF Region, RInv, RTypeOK
<1>4. ASSUME NEW k \in Keys, NEW t \in Tokens, objects'[k] # None
      PROVE  /\ GrantOf(k, t) \in Grant
             /\ GrantOf(k, t).epoch = epoch /\ GrantOf(k, t).key = k /\ GrantOf(k, t).token = t
             /\ GrantOf(k, t).off = objects'[k].off /\ GrantOf(k, t).shape = objects'[k].shape
  <2>1. objects'[k] \in Object
    BY Zenon, <1>3, <1>4
  <2>2. objects'[k].off \in Nat /\ objects'[k].shape \in Shapes
    BY Zenon, <2>1 DEF Object
  <2> QED BY Zenon, <2>2 DEF GrantOf, Grant
<1> HIDE DEF status
<1>5. CASE req.op = "ReserveWrite"
  <2>1. /\ clients'[c] # None /\ \A t \in Drawn : W[t] \in Keys
        /\ \A j, k \in Keys :
              objects'[j] # None /\ objects'[k] # None
              /\ objects'[j].token = objects'[k].token /\ objects'[j].token \notin issued => j = k
    BY Zenon, <1>5, ExecuteEffect DEF Drawn
  <2>2. ASSUME NEW t \in Drawn
        PROVE  /\ objects'[W[t]] # None /\ objects'[W[t]].state = "WRITING"
               /\ objects'[W[t]].token = t
    <3>1. t \in Tokens /\ W[t] # None
      BY Zenon, <1>3, <2>1, RegionAssumption DEF Drawn
    <3> QED BY <1>3, <2>1, <3>1 DEF RInv, TokensMatchObjects, Held
  <2>3. grants = {GrantOf(W[t], t) : t \in Drawn}
    BY Zenon, <1>5
  <2>4. ASSUME NEW t \in Drawn PROVE GrantOf(W[t], t) \in Grant /\ WriteGranted(GrantOf(W[t], t))
    <3>1. t \in Tokens /\ W[t] \in Keys /\ t \notin issued /\ t \in issued'
      BY Zenon, <1>3, <2>1 DEF Drawn
    <3>2. \A k \in Keys : objects'[k] # None /\ objects'[k].token = t => k = W[t]
      BY <2>1, <2>2, <3>1
    <3> DEFINE k == W[t]
               g == GrantOf(k, t)
    <3>3. k \in Keys /\ objects'[k] # None /\ objects'[k].state = "WRITING" /\ objects'[k].token = t
      BY Zenon, <2>2, <3>1
    <3>4. /\ g \in Grant /\ g.epoch = epoch /\ g.key = k /\ g.token = t
          /\ g.off = objects'[k].off /\ g.shape = objects'[k].shape
      BY Zenon, <1>4, <3>1, <3>3
    <3> HIDE DEF g, k
    <3>5. g \in Grant /\ WriteGranted(g)
      BY Zenon, <3>1, <3>2, <3>3, <3>4 DEF WriteGranted, k
    <3> QED BY Zenon, <3>5 DEF g, k
  <2>5. \A t, u \in Drawn : GrantOf(W[t], t).token = GrantOf(W[u], u).token => t = u
    BY Zenon DEF GrantOf
  <2> HIDE DEF W
  <2>6. grants \subseteq Grant /\ \A g \in grants : WriteGranted(g)
    BY Zenon, <2>3, <2>4
  <2>7. \A g, h \in grants : g.token = h.token => g = h
    BY <2>3, <2>5
  <2> HIDE DEF grants
  <2> QED BY <1>1, <1>2, <1>5, <2>6, <2>7 DEF Reply
<1>6. CASE req.op = "ReserveRead"
  <2>1. \A t \in Drawn : L[t] \in Keys /\ objects[L[t]] # None /\ objects[L[t]].state = "VALID"
    BY Zenon, <1>6, ExecuteEffect DEF Drawn
  <2>2. \A k \in Keys : objects[k] # None /\ objects[k].state = "VALID" => objects'[k] = objects[k]
    BY Zenon, ExecuteEffect DEF Effect, Change
  <2>3. grants = {GrantOf(L[t], t) : t \in Drawn}
    BY Zenon, <1>6
  <2>4. ASSUME NEW t \in Drawn PROVE GrantOf(L[t], t) \in Grant /\ ReadGranted(GrantOf(L[t], t))
    <3>1. t \in Tokens /\ L[t] \in Keys /\ objects'[L[t]] # None /\ objects'[L[t]].state = "VALID"
      BY Zenon, <1>3, <2>1, <2>2 DEF Drawn
    <3> DEFINE k == L[t]
               g == GrantOf(k, t)
    <3>2. /\ g \in Grant /\ g.key = k
          /\ g.off = objects'[k].off /\ g.shape = objects'[k].shape
      BY Zenon, <1>4, <3>1
    <3> HIDE DEF g, k
    <3>3. g \in Grant /\ ReadGranted(g)
      BY Zenon, <3>1, <3>2 DEF ReadGranted, k
    <3> QED BY Zenon, <3>3 DEF g, k
  <2> HIDE DEF L
  <2>5. grants \subseteq Grant /\ \A h \in grants : ReadGranted(h)
    BY Zenon, <2>3, <2>4
  <2> HIDE DEF grants
  <2> QED BY <1>1, <1>2, <1>6, <2>5 DEF Reply
<1>7. CASE req.op \notin {"ReserveWrite", "ReserveRead"}
  <2>1. grants = {}
    BY Zenon, <1>7
  <2> HIDE DEF grants
  <2> QED BY <1>1, <1>2, <1>7, <2>1 DEF Reply
<1> QED BY Zenon, <1>5, <1>6, <1>7

----------------------------------------------------------------------------
\* The inductive invariant

Open(c) == mp[c].alive /\ ~mp[c].closed

Mp == [alive : BOOLEAN, inc : Incarnations, epoch : Nat, closed : BOOLEAN, nextId : Nat \ {0},
       call : Request \cup {None}, copying : SUBSET Grant, unsure : SUBSET Grant,
       reading : SUBSET Grant]

OTyped ==
    /\ proc \in [Procs -> {"off", "fresh", "reset", "created", "serving", "refusing"}]
    /\ marker \in Procs \cup {None, Torn} /\ epoch \in Nat
    /\ mp \in [Clients -> Mp] /\ net \subseteq Request
    /\ windows \in [Clients -> Window \cup {None}]
    /\ ran \subseteq Request /\ acked \subseteq Grant /\ sent \in Nat

\* The marker names who serves, and keeps everybody else from serving.
Marked ==
    /\ \A p \in Procs : proc[p] \in {"reset", "refusing"} => marker \in Procs
    /\ \A p \in Procs : proc[p] = "created" => marker = Torn
    /\ \A p \in Procs : proc[p] = "serving" => marker = p
    /\ \A p, q \in Procs :
          proc[p] \in {"created", "serving"}
          /\ proc[q] \in {"created", "serving", "reset", "refusing"} => p = q

\* With nobody serving there is no region.
Quiet ==
    Serving = {} =>
        /\ objects = NoObjects /\ clients = NoClients /\ windows = NoClients
        /\ allocated = 0 /\ issued = {} /\ ran = {}

\* A client that holds something is registered with the region it names, and
\* the marker outlives it.
AttachedAt(c) ==
    /\ ~Open(c) \/ mp[c].epoch = 0 =>
          mp[c].copying = {} /\ mp[c].unsure = {} /\ mp[c].reading = {}
    /\ Open(c) /\ mp[c].epoch # 0 =>
          /\ mp[c].epoch = epoch /\ marker \in Procs
          /\ Serving # {} => Registered(c, mp[c].inc)
    /\ mp[c].call # None =>
          /\ mp[c].alive /\ mp[c].call.client = c /\ mp[c].call.inc = mp[c].inc
          /\ mp[c].call.id < mp[c].nextId /\ mp[c].call.epoch <= epoch
          /\ (mp[c].call.op = "Close") <=> mp[c].closed
          /\ mp[c].call.op = "Register" => mp[c].epoch = 0
          /\ mp[c].call.op \notin {"Register", "Close"} =>
                mp[c].epoch # 0 /\ mp[c].call.epoch = mp[c].epoch

Attached == \A c \in Clients : AttachedAt(c)

\* An attempt on its way is of a live incarnation.
InFlight ==
    \A q \in net :
        /\ mp[q.client].alive /\ q.inc = mp[q.client].inc
        /\ q.id < mp[q.client].nextId /\ q.epoch <= epoch
        /\ q.op = "Close" => mp[q.client].closed

\* The object of a grant is committed where its writer left it.
Committed(g) ==
    objects[g.key] # None /\ objects[g.key].state = "VALID" /\ objects[g.key].off = g.off

\* A window is that of the registered incarnation, and what it says still holds.
WindowedAt(c) ==
    /\ (windows[c] = None) <=> (clients[c] = None)
    /\ windows[c] # None => windows[c].inc = clients[c].inc /\ windows[c].inc <= mp[c].inc
    /\ \A r \in Replies(c) :
          /\ r.req.client = c /\ r.req.inc = windows[c].inc /\ r.req.epoch = epoch
          /\ r.req.op # "Close"
          /\ mp[c].alive /\ r.req.inc = mp[c].inc => r.req.id < mp[c].nextId
          /\ r.req.op = "FINISH_WRITE" /\ r.reply.status = "OK" => Committed(r.req.arg)

Windowed == \A c \in Clients : WindowedAt(c)

Acknowledged == (\A g \in acked : g.epoch <= epoch) /\ AckedIsValid

OInv ==
    /\ OTyped /\ Region /\ Marked /\ Quiet /\ Attached /\ InFlight /\ Windowed
    /\ Apart /\ (Serving # {} => Backed) /\ Acknowledged

----------------------------------------------------------------------------
\* Reading the state

\* A client's record.
LEMMA MpTyped ==
    ASSUME OTyped, NEW c \in Clients
    PROVE  /\ mp[c] \in Mp /\ mp[c].alive \in BOOLEAN /\ mp[c].closed \in BOOLEAN
           /\ mp[c].inc \in Incarnations /\ mp[c].inc \in Nat
           /\ mp[c].epoch \in Nat /\ mp[c].nextId \in Nat /\ mp[c].nextId # 0
           /\ mp[c].call # None => mp[c].call \in Request
           /\ mp[c].copying \subseteq Grant /\ mp[c].unsure \subseteq Grant
           /\ mp[c].reading \subseteq Grant
<1>1. mp[c] \in Mp
  BY Zenon DEF OTyped
<1> QED BY Zenon, <1>1, OrchestratorAssumption DEF Mp

\* A window.
LEMMA WindowTyped ==
    ASSUME OTyped, NEW c \in Clients, windows[c] # None
    PROVE  /\ windows[c].inc \in Incarnations
           /\ windows[c].replies \in Seq([req : Request, reply : Reply])
<1>1. windows[c] \in Window
  BY Zenon DEF OTyped
<1> QED BY Zenon, <1>1 DEF Window

\* The recorded replies are replies to requests.
RepliesAre ==
    \A c \in Clients : \A r \in Replies(c) :
        /\ windows[c] # None /\ r.req \in Request /\ r.req # None
        /\ r.reply \in Reply /\ r.reply.grants \subseteq Grant

\* So they are typed.
LEMMA RepliesTyped == OTyped => RepliesAre
<1> SUFFICES ASSUME OTyped, NEW c \in Clients, NEW r \in Replies(c)
             PROVE  /\ windows[c] # None /\ r.req \in Request /\ r.req # None
                    /\ r.reply \in Reply /\ r.reply.grants \subseteq Grant
  BY Zenon DEF RepliesAre
<1>1. windows[c] # None
  BY Zenon DEF Replies
<1>2. PICK i \in DOMAIN windows[c].replies : r = windows[c].replies[i]
  BY Zenon, <1>1 DEF Replies
<1>3. windows[c].replies \in Seq([req : Request, reply : Reply])
  BY Zenon, <1>1, WindowTyped
<1>4. r \in [req : Request, reply : Reply]
  <2> DEFINE s == windows[c].replies
             S == [req : Request, reply : Reply]
  <2>1. s \in Seq(S) /\ i \in DOMAIN s /\ r = s[i]
    BY Zenon, <1>2, <1>3
  <2> HIDE DEF s, S
  <2>2. r \in S
    BY <2>1
  <2> QED BY Zenon, <2>2 DEF S
<1>5. r.req \in Request /\ r.reply \in Reply
  BY Zenon, <1>4
<1> QED BY Zenon, <1>1, <1>5, OrchestratorAssumption DEF Reply

\* What is pending, one by one.
LEMMA PendingIs ==
    ASSUME NEW c, NEW op, NEW g
    PROVE  g \in Pending(c, op) <=>
              \E r \in Replies(c) : r.req = mp[c].call /\ r.req.op = op /\ g \in r.reply.grants
BY Zenon DEF Pending

\* The same after a step.
LEMMA PendingNext ==
    ASSUME NEW c, NEW op, NEW g
    PROVE  g \in Pending(c, op)' <=>
              \E r \in Replies(c)' : r.req = mp'[c].call /\ r.req.op = op /\ g \in r.reply.grants
BY Zenon DEF Pending

\* What is spent, one by one.
LEMMA SpentIs ==
    ASSUME NEW c, NEW h
    PROVE  h \in Spent(c) <=>
              \/ h \in mp[c].unsure
              \/ \E q \in net : /\ q.client = c /\ q.epoch = epoch /\ h = q.arg
                                /\ q.op \in {"FINISH_WRITE", "ABORT_WRITE"}
              \/ /\ mp[c].call # None /\ mp[c].call.epoch = epoch /\ h = mp[c].call.arg
                 /\ mp[c].call.op \in {"FINISH_WRITE", "ABORT_WRITE"}
BY Zenon DEF Spent, Unresolved

\* The same after a step.
LEMMA SpentNext ==
    ASSUME NEW c, NEW h
    PROVE  h \in Spent(c)' <=>
              \/ h \in mp'[c].unsure
              \/ \E q \in net' : /\ q.client = c /\ q.epoch = epoch' /\ h = q.arg
                                 /\ q.op \in {"FINISH_WRITE", "ABORT_WRITE"}
              \/ /\ mp'[c].call # None /\ mp'[c].call.epoch = epoch' /\ h = mp'[c].call.arg
                 /\ mp'[c].call.op \in {"FINISH_WRITE", "ABORT_WRITE"}
BY Zenon DEF Spent, Unresolved

\* Everything held is a grant.
LEMMA TypedGrants == OTyped => GrantsTyped
<1> SUFFICES ASSUME OTyped, NEW c \in Clients
             PROVE  Filling(c) \subseteq Grant /\ Reads(c) \subseteq Grant /\ Spent(c) \subseteq Grant
  BY Zenon DEF GrantsTyped
<1>1. \A r \in Replies(c) : r.reply.grants \subseteq Grant
  BY Zenon, RepliesTyped DEF RepliesAre
<1>2. \A op : \A g \in Pending(c, op) : g \in Grant
  BY Zenon, <1>1, PendingIs
<1>3. mp[c].copying \subseteq Grant /\ mp[c].unsure \subseteq Grant /\ mp[c].reading \subseteq Grant
  BY Zenon, MpTyped
<1>4. \A q \in Request : q.op \in {"FINISH_WRITE", "ABORT_WRITE"} => q.arg \in Grant
  BY Zenon, RequestTyped DEF Ops
<1>5. net \subseteq Request /\ (mp[c].call # None => mp[c].call \in Request)
  BY Zenon, MpTyped DEF OTyped
<1>6. ASSUME NEW h \in Spent(c) PROVE h \in Grant
  BY <1>3, <1>4, <1>5, <1>6, SpentIs
<1> QED BY Zenon, <1>2, <1>3, <1>6 DEF Filling, Reads

\* The recorded replies of a request.
LEMMA RecordedIs ==
    ASSUME OTyped, Windowed, NEW req \in Request
    PROVE  /\ \A r \in Recorded(req) : r \in Replies(req.client) /\ r.req = req
           /\ \A r \in Replies(req.client) : r.req = req => r \in Recorded(req)
<1>1. req.client \in Clients
  BY Zenon, RequestTyped
<1>2. \A r \in Recorded(req) : r \in Replies(req.client) /\ r.req = req
  BY Zenon DEF Recorded, Replies
<1>3. ASSUME NEW r \in Replies(req.client), r.req = req PROVE r \in Recorded(req)
  <2>1. windows[req.client] # None
    BY Zenon, <1>1, RepliesTyped DEF RepliesAre
  <2>2. windows[req.client].inc = req.inc
    BY Zenon, <1>1, <1>3 DEF Windowed, WindowedAt
  <2> QED BY Zenon, <1>3, <2>1, <2>2 DEF Recorded, Replies
<1> QED BY Zenon, <1>2, <1>3

\* Replies are recorded only by a serving process.
LEMMA RepliesServed ==
    ASSUME OTyped, Quiet, NEW c \in Clients, windows[c] # None
    PROVE  Serving # {}
BY Zenon DEF Quiet, NoClients

----------------------------------------------------------------------------
\* Recording a reply

\* The window after a reply has only older replies and the new one.
LEMMA WindowAfterIs ==
    ASSUME OTyped, NEW req \in Request, req.op # "Close", NEW reply \in Reply
    PROVE  /\ WindowAfter(req, reply) \in Window /\ WindowAfter(req, reply).inc = req.inc
           /\ \A i \in DOMAIN WindowAfter(req, reply).replies :
                 LET r == WindowAfter(req, reply).replies[i] IN
                 \/ r = [req |-> req, reply |-> reply]
                 \/ r \in Replies(req.client) /\ windows[req.client].inc = req.inc
<1> DEFINE c == req.client
           Q == [req : Request, reply : Reply]
           e == [req |-> req, reply |-> reply]
           fresh == windows[c] = None \/ windows[c].inc # req.inc
           old == IF fresh THEN <<>> ELSE windows[c].replies
           all == Append(old, e)
           kept == Kept(all)
<1>1. c \in Clients /\ req.inc \in Incarnations /\ e \in Q
  BY Zenon, RequestTyped
<1>2. WindowAfter(req, reply) = [inc |-> req.inc, replies |-> kept]
  BY Zenon DEF WindowAfter
<1>3. old \in Seq(Q)
  <2>1. CASE fresh
    BY <2>1
  <2>2. CASE ~fresh
    BY Zenon, <1>1, <2>2, WindowTyped
  <2> QED BY Zenon, <2>1, <2>2
<1>4. \A i \in DOMAIN old : old[i] \in Replies(c) /\ windows[c].inc = req.inc
  <2>1. CASE fresh
    BY <2>1
  <2>2. CASE ~fresh
    BY Zenon, <2>2 DEF Replies
  <2> QED BY Zenon, <2>1, <2>2
<1> HIDE DEF old, Q, e
<1>5. /\ all \in Seq(Q) /\ Len(all) = Len(old) + 1 /\ all # <<>> /\ Len(old) \in Nat
      /\ \A j \in 1..Len(old) : all[j] = old[j]
      /\ all[Len(old) + 1] = e /\ DOMAIN all = 1..(Len(old) + 1) /\ DOMAIN old = 1..Len(old)
  BY <1>1, <1>3
<1> HIDE DEF all
<1>6. \A j \in DOMAIN all : all[j] = e \/ (all[j] \in Replies(c) /\ windows[c].inc = req.inc)
  <2> SUFFICES ASSUME NEW j \in DOMAIN all
               PROVE  all[j] = e \/ (all[j] \in Replies(c) /\ windows[c].inc = req.inc)
    BY Zenon
  <2>1. j = Len(old) + 1 \/ j \in 1..Len(old)
    BY <1>5
  <2> QED BY Zenon, <1>4, <1>5, <2>1
<1>7. /\ Tail(all) \in Seq(Q) /\ Len(Tail(all)) = Len(all) - 1
      /\ \A j \in 1..(Len(all) - 1) : Tail(all)[j] = all[j + 1]
  BY <1>5
<1>8. kept \in Seq(Q) /\ \A i \in DOMAIN kept : \E j \in DOMAIN all : kept[i] = all[j]
  <2>1. CASE Len(all) > WindowSize
    <3>1. kept = Tail(all) /\ DOMAIN Tail(all) = 1..(Len(all) - 1)
      BY <1>7, <2>1 DEF Kept
    <3>2. \A i \in 1..(Len(all) - 1) : i + 1 \in DOMAIN all
      BY <1>5
    <3> HIDE DEF kept
    <3> QED BY Zenon, <1>7, <3>1, <3>2
  <2>2. CASE ~(Len(all) > WindowSize)
    BY Zenon, <1>5, <2>2 DEF Kept
  <2> QED BY Zenon, <2>1, <2>2
<1> HIDE DEF kept
<1>9. \A i \in DOMAIN kept : kept[i] = e \/ (kept[i] \in Replies(c) /\ windows[c].inc = req.inc)
  BY Zenon, <1>6, <1>8
<1>10. [inc |-> req.inc, replies |-> kept] \in Window
  BY Zenon, <1>1, <1>8 DEF Window, Q
<1> QED BY <1>2, <1>9, <1>10 DEF e

\* What is recorded after a reply.
LEMMA NewReplies ==
    ASSUME OTyped, NEW req \in Request, NEW reply \in Reply,
           windows' = [windows EXCEPT ![req.client] = WindowAfter(req, reply)]
    PROVE  /\ windows' \in [Clients -> Window \cup {None}]
           /\ \A d \in Clients : d # req.client => windows'[d] = windows[d] /\ Replies(d)' = Replies(d)
           /\ req.op = "Close" => windows'[req.client] = None /\ Replies(req.client)' = {}
           /\ req.op # "Close" =>
                 /\ windows'[req.client] # None /\ windows'[req.client].inc = req.inc
                 /\ \A r \in Replies(req.client)' :
                       \/ r = [req |-> req, reply |-> reply]
                       \/ r \in Replies(req.client) /\ windows[req.client].inc = req.inc
<1> DEFINE c == req.client
           w == WindowAfter(req, reply)
<1>1. c \in Clients /\ windows \in [Clients -> Window \cup {None}]
  BY Zenon, RequestTyped DEF OTyped
<1>2. windows'[c] = w /\ \A d \in Clients : d # c => windows'[d] = windows[d]
  BY Zenon, <1>1
<1>3. \A d \in Clients : d # c => Replies(d)' = Replies(d)
  BY <1>2 DEF Replies
<1>4. CASE req.op = "Close"
  <2>1. w = None
    BY Zenon, <1>4 DEF WindowAfter
  <2>2. Replies(c)' = {}
    BY Zenon, <1>2, <2>1 DEF Replies
  <2> QED BY Zenon, <1>1, <1>2, <1>3, <1>4, <2>1, <2>2
<1>5. CASE req.op # "Close"
  <2>1. /\ w \in Window /\ w.inc = req.inc
        /\ \A i \in DOMAIN w.replies :
              \/ w.replies[i] = [req |-> req, reply |-> reply]
              \/ w.replies[i] \in Replies(c) /\ windows[c].inc = req.inc
    BY Zenon, <1>5, WindowAfterIs
  <2> HIDE DEF w
  <2>2. w # None
    BY Zenon, <2>1, OrchestratorAssumption
  <2>3. \A r \in Replies(c)' : \E i \in DOMAIN w.replies : r = w.replies[i]
    BY Zenon, <1>2, <2>2 DEF Replies
  <2>4. windows' \in [Clients -> Window \cup {None}]
    BY Zenon, <1>1, <2>1 DEF w
  <2> QED BY <1>2, <1>3, <1>5, <2>1, <2>2, <2>3, <2>4
<1> QED BY Zenon, <1>4, <1>5

----------------------------------------------------------------------------
\* Delivering a reply

\* What a client makes of a reply.
LEMMA ReceivedIs ==
    ASSUME NEW m \in Mp, NEW req \in Request, NEW reply \in Reply
    PROVE  LET n == Received(m, req, reply) IN
           /\ n \in Mp /\ n.call = None
           /\ n.alive = m.alive /\ n.inc = m.inc /\ n.closed = m.closed
           /\ n.nextId = m.nextId /\ n.unsure = m.unsure
           /\ \/ n.epoch = m.epoch
              \/ n.epoch = req.epoch /\ req.op = "Register" /\ reply.status # "ERROR"
           /\ n.copying = m.copying \/ (n.copying = m.copying \cup reply.grants /\ req.op = "ReserveWrite")
           /\ n.reading = m.reading \/ (n.reading = m.reading \cup reply.grants /\ req.op = "ReserveRead")
<1> DEFINE done == [m EXCEPT !.call = None]
           n == Received(m, req, reply)
<1>1. /\ done \in Mp /\ done.call = None
      /\ done.alive = m.alive /\ done.inc = m.inc /\ done.closed = m.closed
      /\ done.nextId = m.nextId /\ done.unsure = m.unsure /\ done.epoch = m.epoch
      /\ done.copying = m.copying /\ done.reading = m.reading
  BY Zenon DEF Mp
<1>2. \/ n = done
      \/ n = [done EXCEPT !.epoch = req.epoch] /\ req.op = "Register" /\ reply.status # "ERROR"
      \/ n = [done EXCEPT !.copying = @ \cup reply.grants] /\ req.op = "ReserveWrite"
      \/ n = [done EXCEPT !.reading = @ \cup reply.grants] /\ req.op = "ReserveRead"
  <2> DEFINE x == reply.status
             y == req.op
             R == [done EXCEPT !.epoch = req.epoch]
             W == [done EXCEPT !.copying = @ \cup reply.grants]
             L == [done EXCEPT !.reading = @ \cup reply.grants]
  <2>1. n = IF x = "ERROR" THEN done
            ELSE CASE y = "Register" -> R [] y = "ReserveWrite" -> W
                   [] y = "ReserveRead" -> L [] OTHER -> done
    BY Zenon DEF Received
  <2>2. \/ n = done
        \/ n = R /\ y = "Register" /\ x # "ERROR"
        \/ n = W /\ y = "ReserveWrite"
        \/ n = L /\ y = "ReserveRead"
    <3> HIDE DEF n, R, W, L, done, x, y
    <3>1. CASE x = "ERROR"
      BY Zenon, <2>1, <3>1
    <3>2. CASE x # "ERROR" /\ y = "Register"
      BY Zenon, <2>1, <3>2
    <3>3. CASE x # "ERROR" /\ y = "ReserveWrite"
      BY Zenon, <2>1, <3>3
    <3>4. CASE x # "ERROR" /\ y = "ReserveRead"
      BY Zenon, <2>1, <3>4
    <3>5. CASE x # "ERROR" /\ y \notin {"Register", "ReserveWrite", "ReserveRead"}
      BY Zenon, <2>1, <3>5
    <3> QED BY Zenon, <3>1, <3>2, <3>3, <3>4, <3>5
  <2> QED BY Zenon, <2>2
<1> HIDE DEF n, done
<1>3. CASE n = done
  BY Zenon, <1>1, <1>3 DEF n
<1>4. CASE n = [done EXCEPT !.epoch = req.epoch] /\ req.op = "Register" /\ reply.status # "ERROR"
  <2>1. req.epoch \in Nat
    BY Zenon, RequestTyped
  <2>2. /\ n \in Mp /\ n.call = done.call /\ n.alive = done.alive /\ n.inc = done.inc
        /\ n.closed = done.closed /\ n.nextId = done.nextId /\ n.unsure = done.unsure
        /\ n.epoch = req.epoch /\ n.copying = done.copying /\ n.reading = done.reading
    BY Zenon, <1>1, <1>4, <2>1 DEF Mp
  <2> QED BY Zenon, <1>1, <1>4, <2>2 DEF n
<1>5. CASE n = [done EXCEPT !.copying = @ \cup reply.grants] /\ req.op = "ReserveWrite"
  <2>1. done.copying \cup reply.grants \in SUBSET Grant
    BY Zenon, <1>1 DEF Mp, Reply
  <2>2. /\ n \in Mp /\ n.call = done.call /\ n.alive = done.alive /\ n.inc = done.inc
        /\ n.closed = done.closed /\ n.nextId = done.nextId /\ n.unsure = done.unsure
        /\ n.epoch = done.epoch /\ n.copying = done.copying \cup reply.grants
        /\ n.reading = done.reading
    BY Zenon, <1>1, <1>5, <2>1 DEF Mp
  <2> QED BY Zenon, <1>1, <1>5, <2>2 DEF n
<1>6. CASE n = [done EXCEPT !.reading = @ \cup reply.grants] /\ req.op = "ReserveRead"
  <2>1. done.reading \cup reply.grants \in SUBSET Grant
    BY Zenon, <1>1 DEF Mp, Reply
  <2>2. /\ n \in Mp /\ n.call = done.call /\ n.alive = done.alive /\ n.inc = done.inc
        /\ n.closed = done.closed /\ n.nextId = done.nextId /\ n.unsure = done.unsure
        /\ n.epoch = done.epoch /\ n.copying = done.copying
        /\ n.reading = done.reading \cup reply.grants
    BY Zenon, <1>1, <1>6, <2>1 DEF Mp
  <2> QED BY Zenon, <1>1, <1>6, <2>2 DEF n
<1> QED BY Zenon, <1>2, <1>3, <1>4, <1>5, <1>6

\* The reply changes only the client that waits for it.
Delivered(req, reply) ==
    LET c == req.client IN
    /\ mp' \in [Clients -> Mp] /\ \A d \in Clients : d # c => mp'[d] = mp[d]
    /\ mp'[c].alive = mp[c].alive /\ mp'[c].inc = mp[c].inc /\ mp'[c].closed = mp[c].closed
    /\ mp'[c].nextId = mp[c].nextId /\ mp'[c].unsure = mp[c].unsure
    /\ mp'[c].call = mp[c].call \/ (mp'[c].call = None /\ mp[c].call = req)
    /\ \/ mp'[c].epoch = mp[c].epoch
       \/ /\ mp[c].call = req /\ req.op = "Register" /\ reply.status # "ERROR"
          /\ mp'[c].epoch = req.epoch /\ mp'[c].call = None
    /\ \/ mp'[c].copying = mp[c].copying
       \/ /\ mp[c].call = req /\ req.op = "ReserveWrite"
          /\ mp'[c].copying = mp[c].copying \cup reply.grants
    /\ \/ mp'[c].reading = mp[c].reading
       \/ /\ mp[c].call = req /\ req.op = "ReserveRead"
          /\ mp'[c].reading = mp[c].reading \cup reply.grants
    /\ net' \subseteq net
    /\ \/ acked' = acked
       \/ /\ mp[c].call = req /\ req.op = "FINISH_WRITE" /\ reply.status = "OK"
          /\ acked' = acked \cup {req.arg}

\* Deliver does just that.
LEMMA DeliverIs ==
    ASSUME OTyped, NEW req \in Request, NEW reply \in Reply, NEW lost, Deliver(req, reply, lost)
    PROVE  Delivered(req, reply)
<1> DEFINE c == req.client
           n == Received(mp[c], req, reply)
           waiting == mp[c].call = req /\ ~lost
<1>1. c \in Clients /\ mp \in [Clients -> Mp] /\ mp[c] \in Mp
  BY Zenon, RequestTyped DEF OTyped
<1>2. /\ mp' = IF waiting THEN [mp EXCEPT ![c] = n] ELSE mp
      /\ acked' = IF waiting /\ req.op = "FINISH_WRITE" /\ reply.status = "OK"
                  THEN acked \cup {req.arg} ELSE acked
  BY Zenon DEF Deliver
<1>3. net' \subseteq net
  BY Zenon DEF Deliver, WithoutChannel
<1>4. /\ n \in Mp /\ n.call = None
      /\ n.alive = mp[c].alive /\ n.inc = mp[c].inc /\ n.closed = mp[c].closed
      /\ n.nextId = mp[c].nextId /\ n.unsure = mp[c].unsure
      /\ \/ n.epoch = mp[c].epoch
         \/ n.epoch = req.epoch /\ req.op = "Register" /\ reply.status # "ERROR"
      /\ n.copying = mp[c].copying \/ (n.copying = mp[c].copying \cup reply.grants /\ req.op = "ReserveWrite")
      /\ n.reading = mp[c].reading \/ (n.reading = mp[c].reading \cup reply.grants /\ req.op = "ReserveRead")
  BY Zenon, <1>1, ReceivedIs
<1> HIDE DEF n
<1>5. CASE waiting
  <2>1. mp' = [mp EXCEPT ![c] = n]
    BY Zenon, <1>2, <1>5
  <2>2. mp'[c] = n /\ mp' \in [Clients -> Mp] /\ \A d \in Clients : d # c => mp'[d] = mp[d]
    BY Zenon, <1>1, <1>4, <2>1
  <2>3. \/ acked' = acked
        \/ req.op = "FINISH_WRITE" /\ reply.status = "OK" /\ acked' = acked \cup {req.arg}
    BY Zenon, <1>2
  <2> QED BY Zenon, <1>3, <1>4, <1>5, <2>2, <2>3 DEF Delivered
<1>6. CASE ~waiting
  <2>1. mp' = mp /\ acked' = acked
    BY Zenon, <1>2, <1>6
  <2> QED BY Zenon, <1>1, <1>3, <2>1 DEF Delivered
<1> QED BY Zenon, <1>5, <1>6

\* What the clients hold after a reply was recorded and delivered.
LEMMA DeliverHoldings ==
    ASSUME OTyped, OTyped', NEW req \in Request, NEW reply \in Reply, Delivered(req, reply),
           epoch' = epoch,
           \A d \in Clients : \A r \in Replies(d)' :
              r \in Replies(d) \/ (d = req.client /\ r = [req |-> req, reply |-> reply]),
           NEW NF, NEW NR,
           mp[req.client].call = req /\ req.op = "ReserveWrite" =>
               reply.grants \subseteq Filling(req.client) \cup NF,
           mp[req.client].call = req /\ req.op = "ReserveRead" =>
               reply.grants \subseteq Reads(req.client) \cup NR
    PROVE  Holdings(req.client, NF, NR)
<1> DEFINE c == req.client
<1>1. c \in Clients
  BY Zenon, RequestTyped
<1>0. OTyped' => RepliesAre'
  BY RepliesTyped, PTL
<1>2. ASSUME NEW d \in Clients, NEW r \in Replies(d)', r.req = mp'[d].call
      PROVE  /\ mp'[d].call = mp[d].call
             /\ r \in Replies(d) \/ (d = c /\ mp[c].call = req /\ r.req.op = req.op /\ r.reply = reply)
  <2>1. r.req # None
    BY Zenon, <1>0, <1>2 DEF RepliesAre
  <2>2. mp'[d].call = mp[d].call
    BY Zenon, <1>2, <2>1 DEF Delivered
  <2>3. r \in Replies(d) \/ (d = c /\ r = [req |-> req, reply |-> reply])
    BY Zenon, <1>2
  <2> QED BY <1>2, <2>2, <2>3
<1>3. ASSUME NEW d \in Clients, NEW op, NEW g \in Pending(d, op)'
      PROVE  \/ g \in Pending(d, op)
             \/ d = c /\ mp[c].call = req /\ req.op = op /\ g \in reply.grants
  <2>1. PICK r \in Replies(d)' : r.req = mp'[d].call /\ r.req.op = op /\ g \in r.reply.grants
    BY <1>3, PendingNext
  <2>2. CASE r \in Replies(d)
    <3>1. r.req = mp[d].call
      BY Zenon, <1>2, <2>1
    <3> QED BY Zenon, <2>1, <2>2, <3>1, PendingIs
  <2> QED BY Zenon, <1>2, <2>1, <2>2
<1>4. ASSUME NEW d \in Clients, NEW g \in Filling(d)'
      PROVE  g \in Filling(d) \cup (IF d = c THEN NF ELSE {})
  <2>1. CASE g \in mp'[d].copying
    <3>1. CASE d = c
      BY Zenon, <2>1, <3>1 DEF Delivered, Filling
    <3>2. CASE d # c
      BY Zenon, <2>1, <3>2 DEF Delivered, Filling
    <3> QED BY Zenon, <3>1, <3>2
  <2>2. CASE g \in Pending(d, "ReserveWrite")'
    BY Zenon, <1>3, <2>2 DEF Filling
  <2> QED BY Zenon, <1>4, <2>1, <2>2 DEF Filling
<1>5. ASSUME NEW d \in Clients, NEW g \in Reads(d)'
      PROVE  g \in Reads(d) \cup (IF d = c THEN NR ELSE {})
  <2>1. CASE g \in mp'[d].reading
    <3>1. CASE d = c
      BY Zenon, <2>1, <3>1 DEF Delivered, Reads
    <3>2. CASE d # c
      BY Zenon, <2>1, <3>2 DEF Delivered, Reads
    <3> QED BY Zenon, <3>1, <3>2
  <2>2. CASE g \in Pending(d, "ReserveRead")'
    BY Zenon, <1>3, <2>2 DEF Reads
  <2> QED BY Zenon, <1>5, <2>1, <2>2 DEF Reads
<1>6. ASSUME NEW d \in Clients, NEW h \in Spent(d)' PROVE h \in Spent(d)
  <2>1. /\ mp'[d].unsure = mp[d].unsure /\ net' \subseteq net
        /\ mp'[d].call = mp[d].call \/ mp'[d].call = None
    BY Zenon, <1>6 DEF Delivered
  <2>2. \/ h \in mp'[d].unsure
        \/ \E q \in net' : /\ q.client = d /\ q.epoch = epoch' /\ h = q.arg
                           /\ q.op \in {"FINISH_WRITE", "ABORT_WRITE"}
        \/ /\ mp'[d].call # None /\ mp'[d].call.epoch = epoch' /\ h = mp'[d].call.arg
           /\ mp'[d].call.op \in {"FINISH_WRITE", "ABORT_WRITE"}
    BY Zenon, <1>6, SpentNext
  <2> QED BY Zenon, <2>1, <2>2, SpentIs
<1> QED BY Zenon, <1>4, <1>5, <1>6 DEF Holdings

----------------------------------------------------------------------------
\* The three ways a request is served

\* The region and the windows stay as they are.
Still ==
    /\ objects' = objects /\ clients' = clients /\ allocated' = allocated /\ issued' = issued
    /\ windows' = windows /\ ran' = ran /\ rerun' = rerun

FromWindow(req, reply) ==
    Still /\ \E r \in Replies(req.client) : r.req = req /\ r.reply = reply

FromRefusal(req, reply) == Still /\ reply.status = "ERROR" /\ reply.grants = {}

FromRegion(req, reply) ==
    /\ Execute(req) /\ ~Refused(req) /\ Recorded(req) = {} /\ reply = ReplyTo(req)
    /\ windows' = [windows EXCEPT ![req.client] = WindowAfter(req, reply)]
    /\ ran' = ran \cup {req}
    /\ rerun' = IF req \in ran /\ ~mp[req.client].closed THEN rerun \cup {req} ELSE rerun

Served(req, reply) ==
    /\ req \in net /\ reply \in Reply /\ Delivered(req, reply)
    /\ proc' = proc /\ marker' = marker /\ epoch' = epoch /\ sent' = sent
    /\ FromWindow(req, reply) \/ FromRefusal(req, reply) \/ FromRegion(req, reply)

\* A request is served in one of these ways.
LEMMA ServeCases ==
    ASSUME OInv, NEW req \in net, NEW lost, Serve(req, lost)
    PROVE  \E reply : Served(req, reply)
<1>1. /\ req \in Request /\ OTyped /\ Windowed /\ epoch \in Nat /\ Region
      /\ proc' = proc /\ marker' = marker /\ epoch' = epoch /\ sent' = sent
  BY Zenon DEF OInv, OTyped, Serve
<1>2. CASE /\ Recorded(req) # {}
           /\ \E r \in Recorded(req) : Deliver(req, r.reply, lost)
           /\ UNCHANGED <<rvars, windows, ran, rerun>>
  <2>1. PICK r \in Recorded(req) : Deliver(req, r.reply, lost)
    BY Zenon, <1>2
  <2>2. r \in Replies(req.client) /\ r.req = req /\ req.client \in Clients
    BY Zenon, <1>1, RecordedIs, RequestTyped
  <2>3. r.reply \in Reply
    BY Zenon, <1>1, <2>2, RepliesTyped DEF RepliesAre
  <2>4. Delivered(req, r.reply)
    BY Zenon, <1>1, <2>1, <2>3, DeliverIs
  <2>5. Still
    BY Zenon, <1>2 DEF Still, rvars
  <2> QED BY Zenon, <1>1, <2>2, <2>3, <2>4, <2>5 DEF Served, FromWindow
<1>3. CASE /\ Deliver(req, [status |-> "ERROR", grants |-> {}], lost)
           /\ UNCHANGED <<rvars, windows, ran, rerun>>
  <2> DEFINE reply == [status |-> "ERROR", grants |-> {}]
  <2>1. reply \in Reply /\ reply.status = "ERROR" /\ reply.grants = {}
    BY Zenon DEF Reply
  <2>2. Deliver(req, reply, lost)
    BY Zenon, <1>3
  <2> HIDE DEF reply
  <2>3. Delivered(req, reply)
    BY Zenon, <1>1, <2>1, <2>2, DeliverIs
  <2>4. Still
    BY Zenon, <1>3 DEF Still, rvars
  <2> QED BY Zenon, <1>1, <2>1, <2>3, <2>4 DEF Served, FromRefusal
<1>4. CASE /\ Recorded(req) = {} /\ ~Refused(req)
           /\ Execute(req)
           /\ Deliver(req, ReplyTo(req), lost)
           /\ windows' = [windows EXCEPT ![req.client] = WindowAfter(req, ReplyTo(req))]
           /\ ran' = ran \cup {req}
           /\ rerun' = IF req \in ran /\ ~mp[req.client].closed THEN rerun \cup {req} ELSE rerun
  <2>1. ReplyTo(req) \in Reply
    BY Zenon, <1>1, <1>4, ReplyTyped
  <2>2. Delivered(req, ReplyTo(req))
    BY Zenon, <1>1, <1>4, <2>1, DeliverIs
  <2> QED BY Zenon, <1>1, <1>4, <2>1, <2>2 DEF Served, FromRegion
<1> QED BY Zenon, <1>2, <1>3, <1>4 DEF Serve

\* The state stays typed.
LEMMA ServedTyped ==
    ASSUME OInv, NEW req, NEW reply, Served(req, reply)
    PROVE  OTyped' /\ req \in Request /\ req.client \in Clients
<1>1. /\ req \in Request /\ reply \in Reply /\ OTyped /\ Delivered(req, reply)
      /\ proc' = proc /\ marker' = marker /\ epoch' = epoch /\ sent' = sent
  BY Zenon DEF OInv, OTyped, Served
<1>2. windows' \in [Clients -> Window \cup {None}]
  <2>1. CASE windows' = windows
    BY Zenon, <1>1, <2>1 DEF OTyped
  <2>2. CASE windows' = [windows EXCEPT ![req.client] = WindowAfter(req, reply)]
    BY Zenon, <1>1, <2>2, NewReplies
  <2> QED BY Zenon, <2>1, <2>2 DEF Served, FromWindow, FromRefusal, FromRegion, Still
<1>3. ran' \subseteq Request
  <2>1. ran' = ran \/ ran' = ran \cup {req}
    BY Zenon DEF Served, FromWindow, FromRefusal, FromRegion, Still
  <2> QED BY Zenon, <1>1, <2>1 DEF OTyped
<1>4. mp' \in [Clients -> Mp] /\ net' \subseteq Request
  BY Zenon, <1>1 DEF Delivered, OTyped
<1>5. acked' \subseteq Grant
  <2>1. req.op = "FINISH_WRITE" => req.arg \in Grant
    BY Zenon, <1>1, RequestTyped DEF Ops
  <2>2. acked' = acked \/ (req.op = "FINISH_WRITE" /\ acked' = acked \cup {req.arg})
    BY Zenon, <1>1 DEF Delivered
  <2> QED BY Zenon, <1>1, <2>1, <2>2 DEF OTyped
<1> QED BY Zenon, <1>1, <1>2, <1>3, <1>4, <1>5, RequestTyped DEF OTyped

\* Holding less keeps the extents apart.
LEMMA ApartShrinks ==
    ASSUME Apart, NEW c, Holdings(c, {}, {}) PROVE Apart'
<1>1. \A d \in Clients : Filling(d)' \subseteq Filling(d) /\ Reads(d)' \subseteq Reads(d)
  BY Zenon DEF Holdings
<1> QED BY Zenon, <1>1 DEF Apart, GUnits, Units

\* Where the region stands still, so does what backs the grants.
LEMMA StillEffect ==
    ASSUME Region, objects' = objects, clients' = clients, allocated' = allocated, issued' = issued
    PROVE  Region' /\ Effect({})
<1>1. Effect({})
  BY DEF Effect, Change, Region, RInv, RTypeOK
<1>2. RInv'
  <2>1. RTypeOK'
    BY Zenon DEF Region, RInv, RTypeOK
  <2>2. HeldIsIssued' /\ TokensMatchObjects'
    BY DEF Region, RInv, HeldIsIssued, TokensMatchObjects, Held
  <2>3. ExtentsAreDisjoint'
    BY Zenon DEF Region, RInv, ExtentsAreDisjoint, Extent
  <2> QED BY Zenon, <2>1, <2>2, <2>3 DEF RInv
<1>3. TokensDrawn' /\ FinishedStays'
  BY Zenon DEF Region, TokensDrawn, FinishedStays
<1> QED BY Zenon, <1>1, <1>2, <1>3 DEF Region

\* A request that reached the region is spent.
LEMMA ServedSpent ==
    ASSUME NEW req \in net, req.epoch = epoch, req.op = "FINISH_WRITE"
    PROVE  req.arg \in Spent(req.client)
BY Zenon, SpentIs

\* The region and the grants after a request.
LEMMA ServedBacked ==
    ASSUME OInv, NEW req, NEW reply, Served(req, reply)
    PROVE  Region' /\ Apart' /\ (Serving' # {} => Backed')
<1> DEFINE c == req.client
<1>1. /\ OTyped' /\ req \in Request /\ c \in Clients /\ OTyped /\ reply \in Reply /\ req \in net
      /\ Delivered(req, reply) /\ epoch' = epoch /\ proc' = proc
      /\ Region /\ Apart /\ (Serving # {} => Backed) /\ epoch \in Nat
  BY Zenon, ServedTyped DEF OInv, Served, OTyped
<1>2. Serving' = Serving
  BY Zenon, <1>1 DEF Serving
<1>3. GrantsTyped /\ GrantsTyped'
  <2>1. OTyped' => GrantsTyped'
    BY TypedGrants, PTL
  <2> QED BY Zenon, <1>1, <2>1, TypedGrants
<1>4. ASSUME Still,
             mp[c].call = req /\ req.op = "ReserveWrite" => reply.grants \subseteq Filling(c),
             mp[c].call = req /\ req.op = "ReserveRead" => reply.grants \subseteq Reads(c)
      PROVE  Region' /\ Apart' /\ (Serving' # {} => Backed')
  <2>1. \A d \in Clients : \A r \in Replies(d)' : r \in Replies(d)
    BY Zenon, <1>4 DEF Still, Replies
  <2>2. Holdings(c, {}, {})
    BY Zenon, <1>1, <1>4, <2>1, DeliverHoldings
  <2>3. Region' /\ Effect({})
    BY Zenon, <1>1, <1>4, StillEffect DEF Still
  <2>4. Granting(c, {}, {}, {})
    BY Zenon, <1>1, <2>2, <2>3 DEF Granting
  <2>5. Serving # {} => Backed'
    BY Zenon, <1>1, <1>3, <2>3, <2>4, GrantsKept
  <2> QED BY Zenon, <1>1, <1>2, <2>2, <2>3, <2>5, ApartShrinks
<1>5. CASE FromWindow(req, reply)
  <2>1. PICK r \in Replies(c) : r.req = req /\ r.reply = reply
    BY Zenon, <1>5 DEF FromWindow
  <2>2. ASSUME mp[c].call = req, req.op = "ReserveWrite" PROVE reply.grants \subseteq Filling(c)
    BY Zenon, <2>1, <2>2, PendingIs DEF Filling
  <2>3. ASSUME mp[c].call = req, req.op = "ReserveRead" PROVE reply.grants \subseteq Reads(c)
    BY Zenon, <2>1, <2>3, PendingIs DEF Reads
  <2> QED BY Zenon, <1>4, <1>5, <2>2, <2>3 DEF FromWindow
<1>6. CASE FromRefusal(req, reply)
  BY Zenon, <1>4, <1>6 DEF FromRefusal
<1>7. CASE FromRegion(req, reply)
  <2> DEFINE NF == IF req.op = "ReserveWrite" THEN reply.grants ELSE {}
             NR == IF req.op = "ReserveRead" THEN reply.grants ELSE {}
             T == IF req.op = "FINISH_WRITE" THEN {req.arg.token} ELSE {}
  <2>1. /\ Execute(req) /\ reply = ReplyTo(req) /\ Serving # {} /\ req.epoch = epoch
        /\ windows' = [windows EXCEPT ![c] = WindowAfter(req, reply)]
    BY Zenon, <1>7 DEF FromRegion, Refused
  <2>2. Region' /\ Effect(T)
    BY Zenon, <1>1, <2>1, ExecuteEffect
  <2>3. /\ \A g \in NF : WriteGranted(g)
        /\ \A g, h \in NF : g.token = h.token => g = h
        /\ \A h \in NR : ReadGranted(h)
    BY Zenon, <1>1, <2>1, ReplyTyped
  <2>4. \A d \in Clients : \A r \in Replies(d)' :
           r \in Replies(d) \/ (d = c /\ r = [req |-> req, reply |-> reply])
    BY Zenon, <1>1, <2>1, NewReplies
  <2>5. Holdings(c, NF, NR)
    <3>1. req.op = "ReserveWrite" => reply.grants \subseteq Filling(c) \cup NF
      BY Zenon
    <3>2. req.op = "ReserveRead" => reply.grants \subseteq Reads(c) \cup NR
      BY Zenon
    <3> HIDE DEF NF, NR
    <3> QED BY Zenon, <1>1, <2>4, <3>1, <3>2, DeliverHoldings
  <2>6. \A t \in T : \E d \in Clients : \E h \in Spent(d) : h.token = t
    BY Zenon, <1>1, <2>1, ServedSpent
  <2> HIDE DEF NF, NR, T
  <2>7. Granting(c, NF, NR, T)
    BY Zenon, <1>1, <2>2, <2>3, <2>5, <2>6 DEF Granting
  <2> QED BY Zenon, <1>1, <1>3, <2>1, <2>2, <2>7, GrantsKept
<1> QED BY Zenon, <1>5, <1>6, <1>7 DEF Served

\* What is committed stays so.
LEMMA CommittedKept ==
    ASSUME NEW T, Effect(T), NEW g \in Grant, Committed(g)
    PROVE  Committed(g)'
<1>1. g.key \in Keys
  BY Zenon DEF Grant
<1> QED BY Zenon, <1>1 DEF Committed, Effect, Change

\* A step of the region while a request is served.
LEMMA ServedEffect ==
    ASSUME OInv, NEW req, NEW reply, Served(req, reply)
    PROVE  \A g \in Grant : Committed(g) => Committed(g)'
<1>1. Region /\ req \in Request
  BY Zenon, ServedTyped DEF OInv
<1>2. CASE FromRegion(req, reply)
  BY Zenon, <1>1, <1>2, ExecuteEffect, CommittedKept DEF FromRegion
<1>3. CASE Still
  BY Zenon, <1>3 DEF Still, Committed
<1> QED BY Zenon, <1>2, <1>3 DEF Served, FromWindow, FromRefusal

\* A finish_write answered OK has committed its object.
LEMMA FinishCommits ==
    ASSUME OInv, NEW req, NEW reply, Served(req, reply), reply.status = "OK", req.op = "FINISH_WRITE",
           FromWindow(req, reply) \/ FromRegion(req, reply)
    PROVE  /\ Committed(req.arg)' /\ req.arg \in Grant /\ req.arg.epoch = epoch
<1> DEFINE c == req.client
           g == req.arg
<1>1. /\ req \in Request /\ c \in Clients /\ req \in net /\ OTyped /\ Quiet /\ Windowed /\ Region
      /\ (Serving # {} => Backed)
  BY Zenon, ServedTyped DEF Served, OInv
<1>2. g \in Grant
  BY Zenon, <1>1, RequestTyped DEF Ops
<1>3. CASE FromWindow(req, reply)
  <2>1. PICK r \in Replies(c) : r.req = req /\ r.reply = reply
    BY Zenon, <1>3 DEF FromWindow
  <2>2. Committed(g) /\ req.epoch = epoch
    BY Zenon, <1>1, <2>1 DEF Windowed, WindowedAt
  <2>3. windows[c] # None
    BY Zenon, <1>1, RepliesTyped DEF RepliesAre
  <2>4. Serving # {}
    BY Zenon, <1>1, <2>3, RepliesServed
  <2>5. g \in Spent(c)
    BY Zenon, <1>1, <2>2, ServedSpent
  <2>6. g.epoch = epoch
    BY Zenon, <1>1, <2>4, <2>5 DEF Backed, Matching
  <2> QED BY Zenon, <1>2, <2>2, <2>6, ServedEffect
<1>4. CASE FromRegion(req, reply)
  <2>1. Execute(req) /\ reply = ReplyTo(req) /\ Serving # {} /\ req.epoch = epoch
    BY Zenon, <1>4 DEF FromRegion, Refused
  <2>2. g \in Spent(c)
    BY Zenon, <1>1, <2>1, ServedSpent
  <2>3. /\ g.epoch = epoch /\ g.token \in issued
        /\ \A k \in Keys : objects[k] # None /\ objects[k].token = g.token =>
              k = g.key /\ objects[k].off = g.off
    BY Zenon, <1>1, <2>1, <2>2 DEF Backed, Matching
  <2>4. TokenStatus(c, g.token, req.op) = "OK"
    BY Zenon, <2>1 DEF ReplyTo, Ops
  <2>5. PICK k \in Keys : /\ objects'[k] # None /\ objects'[k].state = "VALID"
                          /\ objects'[k].token = g.token
    BY Zenon, <1>1, <2>1, <2>4, ExecuteEffect
  <2>6. Effect({g.token})
    BY Zenon, <1>1, <2>1, ExecuteEffect
  <2>7. objects[k] # None /\ objects[k].token = g.token /\ objects'[k].off = objects[k].off
    BY Zenon, <2>3, <2>5, <2>6 DEF Effect, Change
  <2>8. k = g.key /\ objects'[k].off = g.off
    BY Zenon, <2>3, <2>7
  <2> QED BY Zenon, <1>2, <2>3, <2>5, <2>8 DEF Committed
<1> QED BY Zenon, <1>3, <1>4

\* Who is registered after a request.
LEMMA ServedRegistered ==
    ASSUME OInv, NEW req, NEW reply, Served(req, reply)
    PROVE  /\ \A d \in Clients : \A inc :
                 d # req.client /\ Registered(d, inc) => Registered(d, inc)'
           /\ req.op # "Close" /\ Registered(req.client, req.inc) => Registered(req.client, req.inc)'
           /\ req.op # "Close" /\ FromRegion(req, reply) => Registered(req.client, req.inc)'
<1>1. Region /\ req \in Request /\ req.client \in Clients
  BY Zenon, ServedTyped DEF OInv
<1>2. CASE FromRegion(req, reply)
  <2>1. /\ \A d \in Clients : d # req.client =>
              /\ (clients'[d] = None) <=> (clients[d] = None)
              /\ clients[d] # None => clients'[d].inc = clients[d].inc
        /\ req.op # "Close" =>
              clients'[req.client] # None /\ clients'[req.client].inc = req.inc
    BY Zenon, <1>1, <1>2, ExecuteEffect DEF FromRegion
  <2> QED BY Zenon, <2>1 DEF Registered
<1>3. CASE Still
  <2>1. FromRegion(req, reply) =>
           (clients'[req.client] # None /\ clients'[req.client].inc = req.inc) \/ req.op = "Close"
    BY Zenon, <1>1, ExecuteEffect DEF FromRegion
  <2> QED BY Zenon, <1>3, <2>1 DEF Still, Registered
<1> QED BY Zenon, <1>2, <1>3 DEF Served, FromWindow, FromRefusal

\* A reply to a registration comes from the region the client then uses.
LEMMA ServedEpoch ==
    ASSUME OInv, NEW req, NEW reply, Served(req, reply), reply.status # "ERROR"
    PROVE  /\ req.epoch = epoch /\ Serving # {}
           /\ req.op # "Close" => Registered(req.client, req.inc)'
<1>1. /\ Region /\ req \in Request /\ req.client \in Clients /\ OTyped /\ Quiet /\ Windowed
  BY Zenon, ServedTyped DEF OInv
<1>2. CASE FromRegion(req, reply)
  BY Zenon, <1>2, ServedRegistered DEF FromRegion, Refused
<1>3. CASE FromWindow(req, reply)
  <2>1. PICK r \in Replies(req.client) : r.req = req
    BY Zenon, <1>3 DEF FromWindow
  <2>2. windows[req.client] # None
    BY Zenon, <1>1, <2>1, RepliesTyped DEF RepliesAre
  <2>3. /\ req.epoch = epoch /\ req.inc = windows[req.client].inc
        /\ clients[req.client] # None /\ windows[req.client].inc = clients[req.client].inc
    BY Zenon, <1>1, <2>1, <2>2 DEF Windowed, WindowedAt
  <2>4. Registered(req.client, req.inc)
    BY Zenon, <2>3 DEF Registered
  <2> QED BY Zenon, <1>1, <2>2, <2>3, <2>4, RepliesServed, ServedRegistered
<1> QED BY Zenon, <1>2, <1>3 DEF Served, FromRefusal

\* The marker names a process while one serves.
LEMMA ServingMarks == ASSUME Marked, Serving # {} PROVE marker \in Procs
BY Zenon DEF Marked, Serving

\* The clients after a request.
LEMMA ServedAttached ==
    ASSUME OInv, NEW req, NEW reply, Served(req, reply)
    PROVE  Attached'
<1> DEFINE c == req.client
<1>1. /\ OTyped /\ req \in Request /\ c \in Clients /\ req \in net /\ Attached /\ Marked /\ InFlight
      /\ Delivered(req, reply) /\ epoch' = epoch /\ marker' = marker /\ proc' = proc
  BY Zenon, ServedTyped DEF OInv, Served
<1>2. Serving' = Serving
  BY Zenon, <1>1 DEF Serving
<1>3. ASSUME NEW d \in Clients, d # c
      PROVE  /\ mp'[d] = mp[d] /\ Open(d)' = Open(d)
             /\ Registered(d, mp[d].inc) => Registered(d, mp[d].inc)'
  <2>1. mp'[d] = mp[d]
    BY Zenon, <1>1, <1>3 DEF Delivered
  <2>2. \A inc : Registered(d, inc) => Registered(d, inc)'
    BY Zenon, <1>3, ServedRegistered
  <2> QED BY Zenon, <2>1, <2>2 DEF Open, Registered
<1>4. /\ mp'[c].alive = mp[c].alive /\ mp'[c].inc = mp[c].inc /\ mp'[c].closed = mp[c].closed
      /\ mp'[c].nextId = mp[c].nextId /\ mp'[c].unsure = mp[c].unsure
      /\ Open(c)' = Open(c)
      /\ req.inc = mp[c].inc /\ (req.op = "Close" => ~Open(c))
  BY Zenon, <1>1 DEF Delivered, Open, InFlight
<1>5. /\ mp'[c].call = mp[c].call \/ mp'[c].call = None
      /\ \/ mp'[c].epoch = mp[c].epoch
         \/ /\ mp[c].call = req /\ req.op = "Register" /\ reply.status # "ERROR"
            /\ mp'[c].epoch = req.epoch /\ mp'[c].call = None
      /\ \/ mp'[c].copying = mp[c].copying
         \/ mp[c].call = req /\ req.op = "ReserveWrite"
      /\ \/ mp'[c].reading = mp[c].reading
         \/ mp[c].call = req /\ req.op = "ReserveRead"
  BY Zenon, <1>1 DEF Delivered
<1>6. AttachedAt(c)
  BY Zenon, <1>1 DEF Attached
<1>7. req # None
  BY Zenon, <1>1, OrchestratorAssumption
<1>8. ASSUME ~Open(c)' \/ mp'[c].epoch = 0
      PROVE  mp'[c].copying = {} /\ mp'[c].unsure = {} /\ mp'[c].reading = {}
  <2>1. CASE mp[c].call = req /\ req.op \in {"ReserveWrite", "ReserveRead"}
    <3>1. Open(c) /\ mp[c].epoch # 0 /\ mp'[c].epoch = mp[c].epoch
      BY Zenon, <1>5, <1>6, <1>7, <2>1 DEF AttachedAt, Open
    <3> QED BY Zenon, <1>4, <1>8, <3>1
  <2>2. CASE ~(mp[c].call = req /\ req.op \in {"ReserveWrite", "ReserveRead"})
    <3>1. mp'[c].copying = mp[c].copying /\ mp'[c].reading = mp[c].reading
      BY Zenon, <1>5, <2>2
    <3>2. ~Open(c) \/ mp[c].epoch = 0
      <4>1. CASE mp'[c].epoch = mp[c].epoch
        BY Zenon, <1>4, <1>8, <4>1
      <4>2. CASE mp[c].call = req /\ req.op = "Register"
        BY Zenon, <1>6, <1>7, <4>2 DEF AttachedAt
      <4> QED BY Zenon, <1>5, <4>1, <4>2
    <3> QED BY Zenon, <1>4, <1>6, <3>1, <3>2 DEF AttachedAt
  <2> QED BY Zenon, <2>1, <2>2
<1>9. ASSUME Open(c)', mp'[c].epoch # 0
      PROVE  /\ mp'[c].epoch = epoch' /\ marker' \in Procs
             /\ Serving' # {} => Registered(c, mp[c].inc)'
  <2>1. CASE mp'[c].epoch = mp[c].epoch
    <3>1. Registered(c, mp[c].inc) => Registered(c, mp[c].inc)'
      <4>1. req.op # "Close" /\ mp[c].inc = req.inc
        BY Zenon, <1>4, <1>9
      <4>2. Registered(c, req.inc) => Registered(c, req.inc)'
        BY Zenon, <4>1, ServedRegistered
      <4> QED BY Zenon, <1>4, <4>1, <4>2 DEF Registered
    <3> QED BY Zenon, <1>1, <1>2, <1>4, <1>6, <1>9, <2>1, <3>1 DEF AttachedAt
  <2>2. CASE mp'[c].epoch = req.epoch /\ req.op = "Register" /\ reply.status # "ERROR"
    <3>1. req.epoch = epoch /\ Serving # {} /\ Registered(c, req.inc)'
      BY Zenon, <2>2, ServedEpoch
    <3>2. Registered(c, mp[c].inc)'
      BY Zenon, <1>4, <3>1 DEF Registered
    <3> QED BY Zenon, <1>1, <2>2, <3>1, <3>2, ServingMarks
  <2> QED BY Zenon, <1>5, <2>1, <2>2
<1>10. ASSUME mp'[c].call # None
       PROVE  /\ mp'[c].alive /\ mp'[c].call.client = c /\ mp'[c].call.inc = mp'[c].inc
              /\ mp'[c].call.id < mp'[c].nextId /\ mp'[c].call.epoch <= epoch'
              /\ (mp'[c].call.op = "Close") <=> mp'[c].closed
              /\ mp'[c].call.op = "Register" => mp'[c].epoch = 0
              /\ mp'[c].call.op \notin {"Register", "Close"} =>
                    mp'[c].epoch # 0 /\ mp'[c].call.epoch = mp'[c].epoch
  <2>1. mp'[c].call = mp[c].call /\ mp'[c].epoch = mp[c].epoch
    BY Zenon, <1>5, <1>10
  <2> QED BY Zenon, <1>1, <1>4, <1>6, <1>10, <2>1 DEF AttachedAt
<1>11. ASSUME NEW d \in Clients, d # c PROVE AttachedAt(d)'
  <2>1. AttachedAt(d)
    BY Zenon, <1>1 DEF Attached
  <2> QED BY Zenon, <1>1, <1>2, <1>3, <1>11, <2>1 DEF AttachedAt
<1>12. AttachedAt(c)'
  BY Zenon, <1>8, <1>9, <1>10 DEF AttachedAt
<1> QED BY Zenon, <1>11, <1>12 DEF Attached

\* The attempts on their way after a request.
LEMMA ServedInFlight ==
    ASSUME OInv, NEW req, NEW reply, Served(req, reply)
    PROVE  InFlight'
<1>1. /\ OTyped /\ req.client \in Clients /\ InFlight /\ Delivered(req, reply) /\ epoch' = epoch
  BY Zenon, ServedTyped DEF OInv, Served
<1>2. \A d \in Clients : /\ mp'[d].alive = mp[d].alive /\ mp'[d].inc = mp[d].inc
                         /\ mp'[d].closed = mp[d].closed /\ mp'[d].nextId = mp[d].nextId
  BY Zenon, <1>1 DEF Delivered
<1>3. net' \subseteq net /\ \A q \in net : q.client \in Clients
  BY Zenon, <1>1, RequestTyped DEF Delivered, OTyped
<1> QED BY Zenon, <1>1, <1>2, <1>3 DEF InFlight

\* The windows after a request.
LEMMA ServedWindowed ==
    ASSUME OInv, NEW req, NEW reply, Served(req, reply)
    PROVE  Windowed'
<1> DEFINE c == req.client
<1>1. /\ OTyped /\ req \in Request /\ c \in Clients /\ req \in net /\ InFlight /\ Region /\ Windowed
      /\ Delivered(req, reply) /\ epoch' = epoch /\ reply \in Reply
  BY Zenon, ServedTyped DEF OInv, Served
<1>2. \A d \in Clients : /\ mp'[d].alive = mp[d].alive /\ mp'[d].inc = mp[d].inc
                         /\ mp'[d].nextId = mp[d].nextId
  BY Zenon, <1>1 DEF Delivered
<1>3. ASSUME NEW d \in Clients, NEW r \in Replies(d)
      PROVE  /\ r.req.client = d /\ r.req.inc = windows[d].inc /\ r.req.epoch = epoch'
             /\ r.req.op # "Close"
             /\ mp'[d].alive /\ r.req.inc = mp'[d].inc => r.req.id < mp'[d].nextId
             /\ r.req.op = "FINISH_WRITE" /\ r.reply.status = "OK" => Committed(r.req.arg)'
  <2>1. /\ r.req.client = d /\ r.req.inc = windows[d].inc /\ r.req.epoch = epoch
        /\ r.req.op # "Close"
        /\ mp[d].alive /\ r.req.inc = mp[d].inc => r.req.id < mp[d].nextId
        /\ r.req.op = "FINISH_WRITE" /\ r.reply.status = "OK" => Committed(r.req.arg)
    BY Zenon, <1>1 DEF Windowed, WindowedAt
  <2>2. r.req \in Request
    BY Zenon, <1>1, RepliesTyped DEF RepliesAre
  <2>3. r.req.op = "FINISH_WRITE" => r.req.arg \in Grant
    BY Zenon, <2>2, RequestTyped DEF Ops
  <2>4. r.req.op = "FINISH_WRITE" /\ r.reply.status = "OK" => Committed(r.req.arg)'
    BY Zenon, <2>1, <2>3, ServedEffect
  <2> QED BY Zenon, <1>1, <1>2, <2>1, <2>4
<1>4. ASSUME NEW d \in Clients, windows'[d] = windows[d], Replies(d)' = Replies(d),
             (clients'[d] = None) <=> (clients[d] = None),
             clients[d] # None => clients'[d].inc = clients[d].inc
      PROVE  WindowedAt(d)'
  <2>1. /\ (windows[d] = None) <=> (clients[d] = None)
        /\ windows[d] # None => windows[d].inc = clients[d].inc /\ windows[d].inc <= mp[d].inc
    BY Zenon, <1>1 DEF Windowed, WindowedAt
  <2>2. \A r \in Replies(d)' : r \in Replies(d)
    BY Zenon, <1>4
  <2>3. /\ (windows'[d] = None) <=> (clients'[d] = None)
        /\ windows'[d] # None => windows'[d].inc = clients'[d].inc /\ windows'[d].inc <= mp'[d].inc
    BY Zenon, <1>2, <1>4, <2>1
  <2>4. \A r \in Replies(d)' :
           /\ r.req.client = d /\ r.req.inc = windows'[d].inc /\ r.req.epoch = epoch'
           /\ r.req.op # "Close"
           /\ mp'[d].alive /\ r.req.inc = mp'[d].inc => r.req.id < mp'[d].nextId
           /\ r.req.op = "FINISH_WRITE" /\ r.reply.status = "OK" => Committed(r.req.arg)'
    BY Zenon, <1>3, <1>4, <2>2
  <2> QED BY Zenon, <2>3, <2>4 DEF WindowedAt
<1>5. CASE Still
  <2>1. \A d \in Clients : windows'[d] = windows[d] /\ Replies(d)' = Replies(d) /\ clients'[d] = clients[d]
    BY Zenon, <1>5 DEF Still, Replies
  <2> QED BY Zenon, <1>4, <2>1 DEF Windowed
<1>6. CASE FromRegion(req, reply)
  <2> DEFINE e == [req |-> req, reply |-> reply]
  <2>1. /\ Execute(req) /\ req.epoch = epoch
        /\ windows' = [windows EXCEPT ![c] = WindowAfter(req, reply)]
    BY Zenon, <1>6 DEF FromRegion, Refused
  <2>2. /\ \A d \in Clients : d # c => windows'[d] = windows[d] /\ Replies(d)' = Replies(d)
        /\ req.op = "Close" => windows'[c] = None /\ Replies(c)' = {}
        /\ req.op # "Close" =>
              /\ windows'[c] # None /\ windows'[c].inc = req.inc
              /\ \A r \in Replies(c)' : r = e \/ (r \in Replies(c) /\ windows[c].inc = req.inc)
    BY Zenon, <1>1, <2>1, NewReplies
  <2>3. /\ \A d \in Clients : d # c =>
              /\ (clients'[d] = None) <=> (clients[d] = None)
              /\ clients[d] # None => clients'[d].inc = clients[d].inc
        /\ IF req.op = "Close" THEN clients'[c] = None
           ELSE clients'[c] # None /\ clients'[c].inc = req.inc
    BY Zenon, <1>1, <2>1, ExecuteEffect
  <2>4. req.inc = mp[c].inc /\ req.id < mp[c].nextId /\ mp[c].inc \in Nat
    BY Zenon, <1>1, MpTyped DEF InFlight
  <2>5. req.op = "FINISH_WRITE" /\ reply.status = "OK" => Committed(req.arg)'
    BY Zenon, <1>6, FinishCommits
  <2>6. e.req = req /\ e.reply = reply
    BY Zenon
  <2> HIDE DEF e
  <2>7. ASSUME NEW r \in Replies(c)', req.op # "Close"
        PROVE  /\ r.req.client = c /\ r.req.inc = windows'[c].inc /\ r.req.epoch = epoch'
               /\ r.req.op # "Close"
               /\ mp'[c].alive /\ r.req.inc = mp'[c].inc => r.req.id < mp'[c].nextId
               /\ r.req.op = "FINISH_WRITE" /\ r.reply.status = "OK" => Committed(r.req.arg)'
    <3>1. CASE r = e
      BY Zenon, <1>1, <1>2, <2>1, <2>2, <2>4, <2>5, <2>6, <2>7, <3>1
    <3>2. CASE r \in Replies(c) /\ windows[c].inc = req.inc
      BY Zenon, <1>1, <1>3, <2>2, <2>7, <3>2
    <3> QED BY Zenon, <2>2, <2>7, <3>1, <3>2
  <2>8. WindowedAt(c)'
    <3>1. CASE req.op = "Close"
      BY Zenon, <2>2, <2>3, <3>1 DEF WindowedAt
    <3>2. CASE req.op # "Close"
      <4>1. /\ windows'[c] # None /\ clients'[c] # None
            /\ windows'[c].inc = clients'[c].inc /\ windows'[c].inc <= mp'[c].inc
        <5>1. /\ windows'[c] # None /\ clients'[c] # None
              /\ windows'[c].inc = clients'[c].inc /\ windows'[c].inc = mp[c].inc
          BY Zenon, <2>2, <2>3, <2>4, <3>2
        <5>2. mp'[c].inc = mp[c].inc
          BY Zenon, <1>1, <1>2
        <5>3. \A i \in Nat : i <= i
          OBVIOUS
        <5> QED BY Zenon, <2>4, <5>1, <5>2, <5>3
      <4> QED BY Zenon, <2>7, <3>2, <4>1 DEF WindowedAt
    <3> QED BY Zenon, <3>1, <3>2
  <2> QED BY Zenon, <1>4, <2>2, <2>3, <2>8 DEF Windowed
<1> QED BY Zenon, <1>5, <1>6 DEF Served, FromWindow, FromRefusal

\* What was acknowledged after a request.
LEMMA ServedAcknowledged ==
    ASSUME OInv, NEW req, NEW reply, Served(req, reply)
    PROVE  Acknowledged'
<1>1. /\ OTyped /\ Acknowledged /\ Delivered(req, reply) /\ epoch' = epoch /\ proc' = proc
      /\ epoch \in Nat /\ acked \subseteq Grant
  BY Zenon DEF OInv, Served, OTyped
<1>2. Serving' = Serving
  BY Zenon, <1>1 DEF Serving
<1>3. \A g \in acked : g.epoch <= epoch' /\ (Serving' # {} /\ g.epoch = epoch' => Committed(g)')
  <2>1. \A g \in acked : g.epoch <= epoch /\ (Serving # {} /\ g.epoch = epoch => Committed(g))
    BY Zenon, <1>1 DEF Acknowledged, AckedIsValid, Committed
  <2> QED BY Zenon, <1>1, <1>2, <2>1, ServedEffect
<1>4. CASE acked' = acked
  BY Zenon, <1>3, <1>4 DEF Acknowledged, AckedIsValid, Committed
<1>5. CASE req.op = "FINISH_WRITE" /\ reply.status = "OK" /\ acked' = acked \cup {req.arg}
  <2>1. Committed(req.arg)' /\ req.arg.epoch = epoch
    BY Zenon, <1>5, FinishCommits DEF Served, FromRefusal
  <2>2. \A g \in acked' : g.epoch <= epoch' /\ (Serving' # {} /\ g.epoch = epoch' => Committed(g)')
    <3> SUFFICES ASSUME NEW g \in acked'
                 PROVE  g.epoch <= epoch' /\ (Serving' # {} /\ g.epoch = epoch' => Committed(g)')
      BY Zenon
    <3>1. CASE g \in acked
      BY Zenon, <1>3, <3>1
    <3>2. CASE g = req.arg
      <4>1. epoch <= epoch
        BY <1>1
      <4> QED BY Zenon, <1>1, <2>1, <3>2, <4>1
    <3> QED BY Zenon, <1>5, <3>1, <3>2
  <2> QED BY Zenon, <2>2 DEF Acknowledged, AckedIsValid, Committed
<1> QED BY Zenon, <1>1, <1>4, <1>5 DEF Delivered

\* Serving a request keeps the invariant.
LEMMA ServeKeeps ==
    ASSUME OInv, NEW req \in net, NEW lost, Serve(req, lost)
    PROVE  OInv'
<1>1. PICK reply : Served(req, reply)
  BY Zenon, ServeCases
<1>2. OTyped' /\ Region' /\ Apart' /\ (Serving' # {} => Backed')
  BY Zenon, <1>1, ServedTyped, ServedBacked
<1>3. Attached' /\ InFlight' /\ Windowed' /\ Acknowledged'
  BY Zenon, <1>1, ServedAttached, ServedInFlight, ServedWindowed, ServedAcknowledged
<1>4. proc' = proc /\ marker' = marker /\ Quiet /\ Marked
  BY Zenon, <1>1 DEF Served, OInv
<1>5. Marked'
  BY Zenon, <1>4 DEF Marked
<1>6. Serving' = Serving
  BY Zenon, <1>4 DEF Serving
<1>7. Quiet'
  <2>1. CASE Serving # {}
    BY Zenon, <1>6, <2>1 DEF Quiet
  <2>2. CASE Serving = {}
    <3>1. ~FromRegion(req, reply)
      BY Zenon, <2>2 DEF FromRegion, Refused
    <3>2. Still
      BY Zenon, <1>1, <3>1 DEF Served, FromWindow, FromRefusal
    <3> QED BY Zenon, <1>4, <2>2, <3>2 DEF Quiet, Still
  <2> QED BY Zenon, <2>1, <2>2
<1> QED BY Zenon, <1>2, <1>3, <1>5, <1>7 DEF OInv
===============================================================================
