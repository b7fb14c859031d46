-------------------------- MODULE CoordinatorProofs --------------------------
(***************************************************************************)
(* Proofs about the coordinator for every set of servers and keys, any     *)
(* number of incarnations, batches and coordinator restarts, with lost     *)
(* batches, servers that leave and checkpoints: the two views agree, a     *)
(* checkpoint is a snapshot, every L1 placement can be fenced, and a       *)
(* stream that is not flagged shows its server's L1 exactly.               *)
(***************************************************************************)
EXTENDS Coordinator, TLAPS

----------------------------------------------------------------------------
\* What a partition says

\* Batch a was flushed before batch b.
Precedes(a, b) == a.inc < b.inc \/ (a.inc = b.inc /\ a.seq < b.seq)

Ordered(l) == \A m, n \in 1..Len(l) : m < n => Precedes(l[m], l[n])

\* Partition l has the batch of incarnation inc numbered seq.
Listed(l, inc, seq) == \E n \in 1..Len(l) : l[n].inc = inc /\ l[n].seq = seq

\* It has all of them up to seq: none was lost.
Whole(l, inc, seq) == \A s \in 1..seq : Listed(l, inc, s)

About(b, inc, seq, k) ==
    b.inc = inc /\ b.tier = "l1" /\ b.key = k /\ b.seq <= seq

\* The keys whose last L1 event of the incarnation, up to seq, is a store.
Held(l, inc, seq) ==
    {k \in Keys : \E n \in 1..Len(l) :
        /\ About(l[n], inc, seq, k) /\ l[n].type = "store"
        /\ \A m \in 1..Len(l) : About(l[m], inc, seq, k) => l[m].seq <= l[n].seq}

\* The fields of a batch.
LEMMA BatchTyped ==
    ASSUME NEW b \in Batches
    PROVE  /\ b.inc \in Nat /\ b.inc > 0 /\ b.inc \in Incs /\ b.seq \in Nat /\ b.seq > 0
           /\ b.seq \in 1..MaxSeq /\ b.type \in {"store", "delete"}
           /\ b.tier \in Tiers /\ b.key \in Keys /\ b.lost \in 0..MaxSeq
BY CoordinatorAssumptions DEF Batches, Incs

\* A batch not among those up to seq does not change what they say.
LEMMA AppendHeld ==
    ASSUME NEW l \in Seq(Batches), NEW b \in Batches, NEW inc, NEW seq,
           ~(b.inc = inc /\ b.seq <= seq)
    PROVE  Held(Append(l, b), inc, seq) = Held(l, inc, seq)
<1> DEFINE L == Append(l, b)
<1>1. /\ Len(L) = Len(l) + 1 /\ Len(l) \in Nat
      /\ L[Len(l) + 1] = b
      /\ \A n \in 1..Len(l) : L[n] = l[n]
  OBVIOUS
<1> HIDE DEF L
<1>2. \A k : ~About(b, inc, seq, k)
  BY Zenon DEF About
<1>3. \A k : \A n \in 1..Len(L) :
         About(L[n], inc, seq, k) => n \in 1..Len(l) /\ L[n] = l[n]
  BY <1>1, <1>2
<1>4. ASSUME NEW k \in Keys PROVE k \in Held(L, inc, seq) <=> k \in Held(l, inc, seq)
  <2>1. ASSUME k \in Held(L, inc, seq) PROVE k \in Held(l, inc, seq)
    <3>1. PICK n \in 1..Len(L) :
             /\ About(L[n], inc, seq, k) /\ L[n].type = "store"
             /\ \A m \in 1..Len(L) : About(L[m], inc, seq, k) => L[m].seq <= L[n].seq
      BY Zenon, <2>1 DEF Held
    <3>2. n \in 1..Len(l) /\ L[n] = l[n]
      BY Zenon, <1>3, <3>1
    <3>3. ASSUME NEW m \in 1..Len(l), About(l[m], inc, seq, k) PROVE l[m].seq <= l[n].seq
      BY <1>1, <3>1, <3>2, <3>3
    <3> QED BY Zenon, <3>1, <3>2, <3>3 DEF Held
  <2>2. ASSUME k \in Held(l, inc, seq) PROVE k \in Held(L, inc, seq)
    <3>1. PICK n \in 1..Len(l) :
             /\ About(l[n], inc, seq, k) /\ l[n].type = "store"
             /\ \A m \in 1..Len(l) : About(l[m], inc, seq, k) => l[m].seq <= l[n].seq
      BY Zenon, <2>2 DEF Held
    <3>2. n \in 1..Len(L) /\ L[n] = l[n]
      BY <1>1, <3>1
    <3>3. ASSUME NEW m \in 1..Len(L), About(L[m], inc, seq, k) PROVE L[m].seq <= L[n].seq
      BY Zenon, <1>3, <3>1, <3>2, <3>3
    <3> QED BY Zenon, <3>1, <3>2, <3>3 DEF Held
  <2> QED BY Zenon, <2>1, <2>2
<1>5. Held(L, inc, seq) \subseteq Keys /\ Held(l, inc, seq) \subseteq Keys
  BY Zenon DEF Held
<1> QED BY Zenon, <1>4, <1>5 DEF L

\* What is in a partition stays in it.
LEMMA AppendListed ==
    ASSUME NEW l \in Seq(Batches), NEW b \in Batches, NEW inc, NEW seq
    PROVE  Listed(Append(l, b), inc, seq) <=>
             Listed(l, inc, seq) \/ (b.inc = inc /\ b.seq = seq)
<1> DEFINE L == Append(l, b)
<1>1. /\ Len(L) = Len(l) + 1 /\ Len(l) \in Nat
      /\ L[Len(l) + 1] = b
      /\ \A n \in 1..Len(l) : L[n] = l[n]
  OBVIOUS
<1> HIDE DEF L
<1>2. Listed(L, inc, seq) <=> Listed(l, inc, seq) \/ (b.inc = inc /\ b.seq = seq)
  <2>1. ASSUME Listed(L, inc, seq) PROVE Listed(l, inc, seq) \/ (b.inc = inc /\ b.seq = seq)
    <3>1. PICK n \in 1..Len(L) : L[n].inc = inc /\ L[n].seq = seq
      BY Zenon, <2>1 DEF Listed
    <3>2. n \in 1..Len(l) \/ n = Len(l) + 1
      BY <1>1
    <3> QED BY Zenon, <1>1, <3>1, <3>2 DEF Listed
  <2>2. ASSUME Listed(l, inc, seq) PROVE Listed(L, inc, seq)
    <3>1. PICK n \in 1..Len(l) : l[n].inc = inc /\ l[n].seq = seq
      BY Zenon, <2>2 DEF Listed
    <3>2. n \in 1..Len(L) /\ L[n] = l[n]
      BY <1>1
    <3> QED BY Zenon, <3>1, <3>2 DEF Listed
  <2>3. ASSUME b.inc = inc, b.seq = seq PROVE Listed(L, inc, seq)
    <3>1. Len(l) + 1 \in 1..Len(L)
      BY <1>1
    <3> QED BY Zenon, <1>1, <2>3, <3>1 DEF Listed
  <2> QED BY Zenon, <2>1, <2>2, <2>3
<1> QED BY Zenon, <1>2 DEF L

\* A batch that follows all the others keeps the partition in order.
LEMMA AppendOrdered ==
    ASSUME NEW l \in Seq(Batches), NEW b \in Batches, Ordered(l),
           \A n \in 1..Len(l) : Precedes(l[n], b)
    PROVE  Ordered(Append(l, b))
<1> DEFINE L == Append(l, b)
<1>1. /\ Len(L) = Len(l) + 1 /\ Len(l) \in Nat
      /\ L[Len(l) + 1] = b
      /\ \A n \in 1..Len(l) : L[n] = l[n]
  OBVIOUS
<1> HIDE DEF L
<1>2. ASSUME NEW m \in 1..Len(L), NEW n \in 1..Len(L), m < n PROVE Precedes(L[m], L[n])
  <2>1. m \in 1..Len(l) /\ L[m] = l[m]
    BY <1>1, <1>2
  <2>2. CASE n \in 1..Len(l)
    BY Zenon, <1>1, <1>2, <2>1, <2>2 DEF Ordered
  <2>3. CASE n = Len(l) + 1
    BY Zenon, <1>1, <2>1, <2>3
  <2> QED BY <1>1, <2>2, <2>3
<1> QED BY Zenon, <1>2 DEF L, Ordered

\* Reading one more batch of an incarnation changes what it says by that batch.
LEMMA HeldNext ==
    ASSUME NEW l \in Seq(Batches), Ordered(l), NEW n \in 1..Len(l)
    PROVE  LET b == l[n] before == Held(l, b.inc, b.seq - 1)
           IN Held(l, b.inc, b.seq) =
                IF b.tier = "l1" THEN Changed(before, b.type, b.key) ELSE before
<1> DEFINE b == l[n] inc == b.inc before == Held(l, inc, b.seq - 1) after == Held(l, inc, b.seq)
<1>1. b \in Batches /\ Len(l) \in Nat /\ \A m \in 1..Len(l) : l[m] \in Batches
  OBVIOUS
<1>2. /\ b.inc \in Nat /\ b.seq \in Nat /\ b.seq > 0 /\ b.key \in Keys
      /\ b.type \in {"store", "delete"}
      /\ \A m \in 1..Len(l) : l[m].inc \in Nat /\ l[m].seq \in Nat
  BY Zenon, <1>1, BatchTyped
<1>3. \A m \in 1..Len(l) : l[m].inc = inc /\ l[m].seq = b.seq => m = n
  BY <1>2 DEF Ordered, Precedes
<1>4. \A m \in 1..Len(l) : \A k :
         About(l[m], inc, b.seq, k) <=>
            \/ About(l[m], inc, b.seq - 1, k)
            \/ m = n /\ b.tier = "l1" /\ b.key = k
  BY <1>2, <1>3 DEF About
<1>5. \A m \in 1..Len(l) : \A k : About(l[m], inc, b.seq - 1, k) => l[m].seq < b.seq /\ m # n
  BY <1>2 DEF About
<1> HIDE DEF b, inc
<1>6. ASSUME NEW k \in Keys, ~(b.tier = "l1" /\ b.key = k)
      PROVE  k \in after <=> k \in before
  BY Zenon, <1>4, <1>6 DEF Held
<1>7. ASSUME b.tier = "l1" PROVE b.key \in after <=> b.type = "store"
  <2>1. About(b, inc, b.seq, b.key)
    BY <1>2, <1>7 DEF About, inc
  <2>2. ASSUME b.type = "store" PROVE b.key \in after
    <3>1. \A m \in 1..Len(l) : About(l[m], inc, b.seq, b.key) => l[m].seq <= b.seq
      BY Zenon DEF About
    <3> QED BY Zenon, <1>2, <2>1, <2>2, <3>1 DEF Held, b
  <2>3. ASSUME b.key \in after PROVE b.type = "store"
    <3>1. PICK m \in 1..Len(l) :
             /\ About(l[m], inc, b.seq, b.key) /\ l[m].type = "store"
             /\ \A o \in 1..Len(l) : About(l[o], inc, b.seq, b.key) => l[o].seq <= l[m].seq
      BY Zenon, <2>3 DEF Held
    <3>2. b.seq <= l[m].seq
      BY Zenon, <2>1, <3>1 DEF b
    <3>3. ~About(l[m], inc, b.seq - 1, b.key)
      <4>1. l[m].seq \in Nat /\ b.seq \in Nat
        BY Zenon, <1>2
      <4>2. ~(l[m].seq < b.seq)
        BY <3>2, <4>1
      <4> QED BY Zenon, <1>5, <4>2
    <3>4. m = n
      BY Zenon, <1>4, <3>1, <3>3
    <3> QED BY Zenon, <3>1, <3>4 DEF b
  <2> QED BY Zenon, <2>2, <2>3
<1>8. before \subseteq Keys /\ after \subseteq Keys
  BY Zenon DEF Held
<1>9. after = IF b.tier = "l1" THEN Changed(before, b.type, b.key) ELSE before
  <2>1. CASE b.tier # "l1"
    BY Zenon, <1>6, <1>8, <2>1
  <2>2. CASE b.tier = "l1"
    <3> HIDE DEF before, after
    <3>1. \A k \in Keys : k # b.key => (k \in after <=> k \in before)
      BY Zenon, <1>6
    <3>2. CASE b.type = "store"
      BY Zenon, <1>2, <1>7, <1>8, <2>2, <3>1, <3>2 DEF Changed
    <3>3. CASE b.type # "store"
      BY Zenon, <1>2, <1>7, <1>8, <2>2, <3>1, <3>3 DEF Changed
    <3> QED BY Zenon, <2>2, <3>2, <3>3
  <2> QED BY Zenon, <2>1, <2>2
<1> QED BY Zenon, <1>9 DEF b, inc

\* The fields of a cursor.
LEMMA CursorTyped ==
    ASSUME NEW c \in Cursors
    PROVE  c # None /\ c.inc \in Nat /\ c.inc > 0 /\ c.seq \in Nat /\ c.gap \in BOOLEAN
BY CoordinatorAssumptions DEF Cursors, Incs

\* Before its first batch an incarnation says nothing.
LEMMA HeldNone ==
    ASSUME NEW l \in Seq(Batches), NEW inc PROVE Held(l, inc, 0) = {}
<1>1. \A m \in 1..Len(l) : l[m] \in Batches
  OBVIOUS
<1>2. \A m \in 1..Len(l) : l[m].seq \in Nat /\ l[m].seq > 0
  BY Zenon, <1>1, BatchTyped
<1> QED BY <1>2 DEF Held, About

----------------------------------------------------------------------------
\* What the consumers make of a batch

IdsOf(dir) == {IdOf(p) : p \in dir}

\* Every L1 placement can be fenced, given the cursors and the reverse index.
Fenceable(cur, dir, idx) ==
    \A p \in dir : p.tier = "l1" =>
        /\ cur[p.inst] # None /\ cur[p.inst].inc = p.inc
        /\ p.key \in idx[p.inst]

\* A placement's identity and its fields.
LEMMA PlacementTyped ==
    ASSUME NEW p \in Placements
    PROVE  /\ p.inst \in Instances /\ p.inc \in Incs /\ p.tier \in Tiers /\ p.key \in Keys
           /\ p.inc \in Nat /\ p.inc > 0
           /\ IdOf(p) \in Ids
           /\ IdOf(p).inst = p.inst /\ IdOf(p).tier = p.tier /\ IdOf(p).key = p.key
BY CoordinatorAssumptions DEF Placements, Incs, IdOf, Ids

\* Fencing a server removes its L1 placements, in the directory as in usage.
LEMMA FencedFacts ==
    ASSUME NEW dir \in SUBSET Placements, NEW cur, NEW i \in Instances,
           Fenceable(cur, dir, l1Keys)
    PROVE  /\ Fenced(dir, i) \subseteq dir
           /\ Fenced(dir, i) \in SUBSET Placements
           /\ L1Of(Fenced(dir, i), i) = {}
           /\ KeysOf(Fenced(dir, i), i, "l1") = {}
           /\ \A j \in Instances : j # i => KeysOf(Fenced(dir, i), j, "l1") = KeysOf(dir, j, "l1")
           /\ IdsOf(Fenced(dir, i)) = FencedUsage(IdsOf(dir), i)
<1>1. Fenced(dir, i) = {p \in dir : ~(p.inst = i /\ p.tier = "l1")}
  BY Zenon DEF Fenced, L1Of, Fenceable
<1>2. L1Of(Fenced(dir, i), i) = {} /\ KeysOf(Fenced(dir, i), i, "l1") = {}
  BY Zenon, <1>1 DEF L1Of, KeysOf
<1>3. ASSUME NEW j \in Instances, j # i
      PROVE  KeysOf(Fenced(dir, i), j, "l1") = KeysOf(dir, j, "l1")
  BY Zenon, <1>1, <1>3 DEF KeysOf
<1>4. IdsOf(Fenced(dir, i)) = FencedUsage(IdsOf(dir), i)
  BY <1>1, PlacementTyped DEF IdsOf, FencedUsage
<1> QED BY Zenon, <1>1, <1>2, <1>3, <1>4

\* Applying a batch changes the keys, and the identities, by that batch.
LEMMA AppliedFacts ==
    ASSUME NEW dir \in SUBSET Placements, NEW i \in Instances, NEW b \in Batches
    PROVE  /\ Applied(dir, i, b) \in SUBSET Placements
           /\ KeysOf(Applied(dir, i, b), i, "l1") =
                IF b.tier = "l1" THEN Changed(KeysOf(dir, i, "l1"), b.type, b.key)
                ELSE KeysOf(dir, i, "l1")
           /\ \A j \in Instances : j # i =>
                KeysOf(Applied(dir, i, b), j, "l1") = KeysOf(dir, j, "l1")
           /\ IdsOf(Applied(dir, i, b)) =
                Changed(IdsOf(dir), b.type, [inst |-> i, tier |-> b.tier, key |-> b.key])
<1> DEFINE id == [inst |-> i, tier |-> b.tier, key |-> b.key]
           new == [inst |-> i, inc |-> b.inc, tier |-> b.tier, key |-> b.key]
           others == {p \in dir : IdOf(p) # id}
<1>1. /\ b.inc \in Incs /\ b.type \in {"store", "delete"} /\ b.tier \in Tiers /\ b.key \in Keys
  BY Zenon, BatchTyped
<1>2. new \in Placements /\ IdOf(new) = id
      /\ new.inst = i /\ new.tier = b.tier /\ new.key = b.key
  BY Zenon, <1>1 DEF Placements, IdOf
<1>3. \A p \in dir : IdOf(p) = id <=> p.inst = i /\ p.tier = b.tier /\ p.key = b.key
  BY Zenon DEF IdOf
<1>4. Applied(dir, i, b) = IF b.type = "delete" THEN others ELSE others \cup {new}
  BY Zenon DEF Applied
<1>5. IdsOf(others) = IdsOf(dir) \ {id}
  BY Zenon DEF IdsOf
<1> HIDE DEF id, new
<1>6. IdsOf(others \cup {new}) = IdsOf(others) \cup {id}
  BY Zenon, <1>2 DEF IdsOf
<1>7. IdsOf(Applied(dir, i, b)) = Changed(IdsOf(dir), b.type, id)
  BY Zenon, <1>1, <1>4, <1>5, <1>6 DEF Changed
<1>8. KeysOf(others, i, "l1") =
        IF b.tier = "l1" THEN KeysOf(dir, i, "l1") \ {b.key} ELSE KeysOf(dir, i, "l1")
  BY Zenon, <1>3 DEF KeysOf
<1>9. KeysOf(others \cup {new}, i, "l1") =
        IF b.tier = "l1" THEN KeysOf(others, i, "l1") \cup {b.key} ELSE KeysOf(others, i, "l1")
  BY Zenon, <1>2 DEF KeysOf
<1>10. KeysOf(Applied(dir, i, b), i, "l1") =
         IF b.tier = "l1" THEN Changed(KeysOf(dir, i, "l1"), b.type, b.key)
         ELSE KeysOf(dir, i, "l1")
  BY Zenon, <1>1, <1>4, <1>8, <1>9 DEF Changed
<1>11. ASSUME NEW j \in Instances, j # i
       PROVE  KeysOf(Applied(dir, i, b), j, "l1") = KeysOf(dir, j, "l1")
  <2>1. KeysOf(others, j, "l1") = KeysOf(dir, j, "l1")
    BY Zenon, <1>3, <1>11 DEF KeysOf
  <2>2. KeysOf(others \cup {new}, j, "l1") = KeysOf(others, j, "l1")
    BY Zenon, <1>2, <1>11 DEF KeysOf
  <2> QED BY Zenon, <1>4, <2>1, <2>2
<1>12. Applied(dir, i, b) \in SUBSET Placements
  BY Zenon, <1>2, <1>4
<1> QED BY Zenon, <1>7, <1>10, <1>11, <1>12 DEF id

----------------------------------------------------------------------------
\* The inductive invariant

Server0 == [up : BOOLEAN, inc : Incs, seq : 0..MaxSeq, lost : 0..MaxSeq,
            l1 : SUBSET Keys, l2 : SUBSET Keys, joined : BOOLEAN, leaving : BOOLEAN]

\* What server s has flushed to its partition l: in order, nothing beyond its
\* sequence number, and if no batch was lost it tells the server's L1.
Flushed(s, l) ==
    /\ Ordered(l) /\ s.lost <= s.seq
    /\ \A n \in 1..Len(l) :
         l[n].inc <= s.inc /\ (l[n].inc = s.inc => l[n].seq <= s.seq)
    /\ s.up /\ Whole(l, s.inc, s.seq) => s.l1 = Held(l, s.inc, s.seq)

Fleet ==
    /\ srv \in [Instances -> Server0] /\ log \in [Instances -> Seq(Batches)]
    /\ \A i \in Instances : Flushed(srv[i], log[i])

Captures == [pc : {"idle", "wait", "directory", "usage", "position", "write"},
             saved : Sections]

Typed ==
    /\ feed \in [pc : {"poll", "usage", "record"}, inst : Instances \cup {None}, fence : BOOLEAN]
    /\ fetched \in [Instances -> Nat] /\ position \in [Instances -> Nat]
    /\ cursors \in [Instances -> Cursors \cup {None}]
    /\ directory \in SUBSET Placements /\ l1Keys \in [Instances -> SUBSET Keys]
    /\ usage \in SUBSET Ids
    /\ departed \in [Instances -> Nat] /\ gone \in [Instances -> Nat]
    /\ drops \in SUBSET Instances /\ dropping \in Instances \cup {None}
    /\ restored \in SUBSET Instances /\ registered \in SUBSET Instances
    /\ cap \in Captures /\ ckpt \in Sections \cup {None}

\* A cursor stands at a batch of its partition.  Unless it is flagged, every
\* batch up to it is there and the L1 keys shown are what they say.
Exact(l, c, keys) ==
    c # None =>
        /\ Listed(l, c.inc, c.seq)
        /\ ~c.gap => Whole(l, c.inc, c.seq) /\ keys = Held(l, c.inc, c.seq)

\* The sections of one moment.
Consistent(v) ==
    /\ Fenceable(v.cursors, v.directory, v.index)
    /\ \A i \in Instances : Exact(log[i], v.cursors[i], KeysOf(v.directory, i, "l1"))
    /\ v.usage = IdsOf(v.directory)

Batch == log[feed.inst][fetched[feed.inst] + 1]

\* usage once the batch or the drop in flight is over.
UsageAfter ==
    IF feed.pc = "usage"
    THEN Changed(IF feed.fence THEN FencedUsage(usage, feed.inst) ELSE usage,
                 Batch.type, [inst |-> feed.inst, tier |-> Batch.tier, key |-> Batch.key])
    ELSE IF dropping # None THEN FencedUsage(usage, dropping) ELSE usage

\* The live state, in which a drop may have fenced the directory and not yet
\* forgotten the cursor.
Current ==
    /\ Fenceable(cursors, directory, l1Keys)
    /\ \A i \in Instances :
         /\ cursors[i] # None => Listed(log[i], cursors[i].inc, cursors[i].seq)
         /\ dropping # i => Exact(log[i], cursors[i], KeysOf(directory, i, "l1"))
    /\ dropping # None => L1Of(directory, dropping) = {}
    /\ UsageAfter = IdsOf(directory)

\* The poll thread, the event loop and the checkpoint thread exclude each other.
Turns ==
    /\ feed.pc # "poll" => feed.inst \in Instances /\ fetched[feed.inst] < Len(log[feed.inst])
    /\ feed.pc = "usage" => dropping = None
    /\ cap.pc \in {"directory", "usage", "position"} => ~InFlight

Stored ==
    /\ CheckpointIsSnapshot
    /\ cap.pc = "write" => Consistent(cap.saved)
    /\ ckpt # None => Consistent(ckpt)

CInv == Fleet /\ Typed /\ Current /\ Turns /\ Stored

----------------------------------------------------------------------------
\* The servers

\* What is known of a partition stays true when it grows.
LEMMA ExactGrows ==
    ASSUME NEW l \in Seq(Batches), NEW b \in Batches, NEW c \in Cursors \cup {None}, NEW keys,
           \A n \in 1..Len(l) : Precedes(l[n], b), Exact(l, c, keys)
    PROVE  Exact(Append(l, b), c, keys)
<1> SUFFICES ASSUME c # None
             PROVE  /\ Listed(Append(l, b), c.inc, c.seq)
                    /\ ~c.gap => /\ Whole(Append(l, b), c.inc, c.seq)
                                 /\ keys = Held(Append(l, b), c.inc, c.seq)
  BY Zenon DEF Exact
<1>1. Listed(l, c.inc, c.seq)
  BY Zenon DEF Exact
<1>2. Listed(Append(l, b), c.inc, c.seq)
  BY Zenon, <1>1, AppendListed
<1>3. ~(b.inc = c.inc /\ b.seq <= c.seq)
  <2>1. PICK n \in 1..Len(l) : l[n].inc = c.inc /\ l[n].seq = c.seq
    BY Zenon, <1>1 DEF Listed
  <2>2. l[n] \in Batches
    OBVIOUS
  <2>3. l[n].inc \in Nat /\ l[n].seq \in Nat /\ b.inc \in Nat /\ b.seq \in Nat
    BY Zenon, <2>2, BatchTyped
  <2>4. Precedes(l[n], b)
    BY Zenon
  <2> QED BY <2>1, <2>3, <2>4 DEF Precedes
<1>4. Held(Append(l, b), c.inc, c.seq) = Held(l, c.inc, c.seq)
  BY <1>3, AppendHeld
<1>5. Whole(l, c.inc, c.seq) => Whole(Append(l, b), c.inc, c.seq)
  BY Zenon, AppendListed DEF Whole
<1> QED BY Zenon, <1>2, <1>4, <1>5 DEF Exact

\* A flush keeps the partition telling the server's L1.
LEMMA EmitFlushed ==
    ASSUME Fleet, NEW i \in Instances, Emit(i)
    PROVE  /\ Fleet'
           /\ \/ log' = log
              \/ \E b \in Batches :
                    /\ log' = [log EXCEPT ![i] = Append(@, b)]
                    /\ \A n \in 1..Len(log[i]) : Precedes(log[i][n], b)
<1> DEFINE s == srv[i] l == log[i]
<1>1. PICK type \in {"store", "delete"}, tier \in Tiers, key \in Keys,
           delivered \in {TRUE} \cup {~MayLose} :
             Flush(i, type, tier, key, delivered)
  BY Zenon DEF Emit
<1>2. s.seq < MaxSeq /\ s.up
  BY Zenon DEF Emit
<1>3. /\ s \in Server0 /\ l \in Seq(Batches) /\ Flushed(s, l)
      /\ Len(l) \in Nat /\ \A n \in 1..Len(l) : l[n] \in Batches
  BY DEF Fleet
<1>4. /\ s.inc \in Incs /\ s.inc \in Nat /\ s.seq \in Nat /\ s.lost \in Nat /\ s.lost <= s.seq
      /\ s.l1 \in SUBSET Keys /\ s.l2 \in SUBSET Keys
      /\ s.joined \in BOOLEAN /\ s.leaving \in BOOLEAN /\ s.up \in BOOLEAN
      /\ MaxSeq \in Nat
  BY <1>3, CoordinatorAssumptions DEF Server0, Incs, Flushed
<1> DEFINE b == [inc |-> s.inc, seq |-> s.seq + 1, type |-> type,
                 tier |-> tier, key |-> key, lost |-> s.lost]
           t == [s EXCEPT !.seq = s.seq + 1,
                          !.lost = IF delivered THEN @ ELSE @ + 1,
                          !.l1 = IF tier = "l1" THEN Changed(@, type, key) ELSE @,
                          !.l2 = IF tier = "l2" THEN Changed(@, type, key) ELSE @]
<1>5. /\ srv' = [srv EXCEPT ![i] = t]
      /\ log' = IF delivered THEN [log EXCEPT ![i] = Append(@, b)] ELSE log
  BY Zenon, <1>1 DEF Flush, Fleet
<1>6. b \in Batches /\ b.inc = s.inc /\ b.seq = s.seq + 1 /\ b.type = type
      /\ b.tier = tier /\ b.key = key
  BY <1>2, <1>4 DEF Batches
<1>7. /\ t.seq = s.seq + 1 /\ t.inc = s.inc /\ t.up = s.up
      /\ t.lost = (IF delivered THEN s.lost ELSE s.lost + 1)
      /\ t.l1 = (IF tier = "l1" THEN Changed(s.l1, type, key) ELSE s.l1)
      /\ t.l2 = (IF tier = "l2" THEN Changed(s.l2, type, key) ELSE s.l2)
      /\ t.joined = s.joined /\ t.leaving = s.leaving
  BY Zenon, <1>3 DEF Server0
<1>8. t \in Server0
  <2>1. Changed(s.l1, type, key) \in SUBSET Keys /\ Changed(s.l2, type, key) \in SUBSET Keys
    BY Zenon, <1>4 DEF Changed
  <2>2. s.seq + 1 \in 0..MaxSeq /\ s.lost \in 0..MaxSeq /\ s.lost + 1 \in 0..MaxSeq
    BY <1>2, <1>4
  <2> DEFINE seq == s.seq + 1
             lost == IF delivered THEN s.lost ELSE s.lost + 1
             one == IF tier = "l1" THEN Changed(s.l1, type, key) ELSE s.l1
             two == IF tier = "l2" THEN Changed(s.l2, type, key) ELSE s.l2
  <2>3. t = [s EXCEPT !.seq = seq, !.lost = lost, !.l1 = one, !.l2 = two]
    BY Zenon, <1>3 DEF Server0
  <2>4. seq \in 0..MaxSeq /\ lost \in 0..MaxSeq /\ one \in SUBSET Keys /\ two \in SUBSET Keys
    BY Zenon, <1>4, <2>1, <2>2
  <2> HIDE DEF t, seq, lost, one, two
  <2> QED BY Zenon, <1>3, <2>3, <2>4 DEF Server0
<1> HIDE DEF b, t
<1>9. \A n \in 1..Len(l) : l[n].inc \in Nat /\ l[n].seq \in Nat
  BY Zenon, <1>3, BatchTyped
<1>14. \A n \in 1..Len(l) : l[n].inc <= s.inc /\ (l[n].inc = s.inc => l[n].seq <= s.seq)
  BY Zenon, <1>3 DEF Flushed
<1>10. \A n \in 1..Len(l) : Precedes(l[n], b)
  BY <1>3, <1>4, <1>6, <1>9 DEF Flushed, Precedes
<1>11. ~Listed(l, s.inc, s.seq + 1)
  BY <1>3, <1>4, <1>9 DEF Listed, Flushed
<1>12. CASE ~delivered
  <2>1. Flushed(t, l)
    <3>1. ~Whole(l, t.inc, t.seq)
      BY <1>4, <1>7, <1>11 DEF Whole
    <3>2. t.lost <= t.seq
      BY <1>4, <1>7
    <3>3. \A n \in 1..Len(l) :
            l[n].inc <= t.inc /\ (l[n].inc = t.inc => l[n].seq <= t.seq)
      BY <1>4, <1>7, <1>9, <1>14
    <3> QED BY Zenon, <1>3, <3>1, <3>2, <3>3 DEF Flushed
  <2>2. log' = log
    BY Zenon, <1>5, <1>12
  <2>3. Fleet'
    BY Zenon, <1>5, <1>8, <2>1, <2>2 DEF Fleet
  <2> QED BY Zenon, <2>2, <2>3
<1>13. CASE delivered
  <2> DEFINE L == Append(l, b)
  <2>1. L \in Seq(Batches) /\ Len(L) = Len(l) + 1 /\ L[Len(l) + 1] = b
        /\ \A n \in 1..Len(l) : L[n] = l[n]
    BY <1>3, <1>6
  <2>2. Ordered(L)
    BY Zenon, <1>3, <1>6, <1>10, AppendOrdered DEF Flushed
  <2>3. Held(L, s.inc, s.seq) = Held(l, s.inc, s.seq)
    BY <1>3, <1>4, <1>6, AppendHeld
  <2>4. Held(L, s.inc, s.seq + 1) =
          IF tier = "l1" THEN Changed(Held(L, s.inc, s.seq), type, key) ELSE Held(L, s.inc, s.seq)
    <3>1. Len(l) + 1 \in 1..Len(L)
      BY <1>3, <2>1
    <3>2. b.seq - 1 = s.seq
      BY <1>4, <1>6
    <3> HIDE DEF L
    <3>3. LET before == Held(L, b.inc, b.seq - 1)
          IN Held(L, b.inc, b.seq) = IF b.tier = "l1" THEN Changed(before, b.type, b.key) ELSE before
      BY Zenon, <2>1, <2>2, <3>1, HeldNext
    <3> QED BY Zenon, <1>6, <3>2, <3>3
  <2>5. Whole(L, s.inc, s.seq + 1) => Whole(l, s.inc, s.seq)
    <3> SUFFICES ASSUME Whole(L, s.inc, s.seq + 1), NEW x \in 1..s.seq
                 PROVE  Listed(l, s.inc, x)
      BY Zenon DEF Whole
    <3>1. x \in 1..(s.seq + 1) /\ x # s.seq + 1
      BY <1>4
    <3>2. Listed(L, s.inc, x)
      BY Zenon, <3>1 DEF Whole
    <3> QED BY Zenon, <1>3, <1>6, <3>1, <3>2, AppendListed
  <2>6. t.up /\ Whole(L, t.inc, t.seq) => t.l1 = Held(L, t.inc, t.seq)
    BY Zenon, <1>2, <1>3, <1>7, <2>3, <2>4, <2>5 DEF Flushed
  <2>7. \A n \in 1..Len(L) : L[n].inc <= t.inc /\ (L[n].inc = t.inc => L[n].seq <= t.seq)
    <3> SUFFICES ASSUME NEW n \in 1..Len(L)
                 PROVE  L[n].inc <= t.inc /\ (L[n].inc = t.inc => L[n].seq <= t.seq)
      BY Zenon
    <3>1. CASE n = Len(l) + 1
      BY <1>4, <1>6, <1>7, <2>1, <3>1
    <3>2. CASE n \in 1..Len(l)
      <4>1. L[n] = l[n] /\ l[n].inc <= s.inc /\ (l[n].inc = s.inc => l[n].seq <= s.seq)
            /\ l[n].inc \in Nat /\ l[n].seq \in Nat
        BY Zenon, <1>9, <1>14, <2>1, <3>2
      <4> QED BY <1>4, <1>7, <4>1
    <3> QED BY <1>3, <2>1, <3>1, <3>2
  <2>8. t.lost <= t.seq
    BY <1>4, <1>7, <1>13
  <2>9. Flushed(t, L)
    BY Zenon, <2>2, <2>6, <2>7, <2>8 DEF Flushed
  <2>10. log' = [log EXCEPT ![i] = L]
    BY Zenon, <1>5, <1>13
  <2> HIDE DEF L
  <2>11. Fleet'
    BY Zenon, <1>5, <1>8, <2>1, <2>9, <2>10 DEF Fleet
  <2>12. log' = [log EXCEPT ![i] = Append(@, b)]
    BY Zenon, <2>10 DEF L
  <2> QED BY Zenon, <1>6, <1>10, <2>11, <2>12
<1>15. delivered \in BOOLEAN
  BY Zenon, CoordinatorAssumptions
<1> QED BY Zenon, <1>12, <1>13, <1>15

\* Steps that leave the partitions alone: a process ends, starts again, or its
\* registration changes.
LEMMA FleetKept ==
    ASSUME Fleet, NEW i \in Instances,
           \/ Exit(i) \/ Restart(i) \/ Forgotten(i) \/ Register(i) \/ Deregister(i)
    PROVE  Fleet' /\ log' = log
<1> DEFINE s == srv[i] l == log[i]
<1>1. s \in Server0 /\ l \in Seq(Batches) /\ Flushed(s, l)
  BY Zenon DEF Fleet
<1>2. /\ s.inc \in Incs /\ s.inc \in Nat /\ s.seq \in Nat /\ MaxInc \in Nat
      /\ \A n \in 1..Len(l) : l[n] \in Batches
  BY <1>1, CoordinatorAssumptions DEF Server0, Incs
<1>3. \A n \in 1..Len(l) : l[n].inc \in Nat
  BY Zenon, <1>2, BatchTyped
<1>4. log' = log
  BY Zenon DEF Exit, Restart, Forgotten, Register, Deregister, fleet
<1>5. ASSUME NEW t \in Server0, srv' = [srv EXCEPT ![i] = t], Flushed(t, l)
      PROVE  Fleet'
  BY Zenon, <1>4, <1>5 DEF Fleet
<1>6. CASE Exit(i)
  <2>1. PICK clean \in BOOLEAN :
          srv' = [srv EXCEPT ![i].up = FALSE, ![i].l1 = {},
                             ![i].leaving = clean /\ srv[i].joined, ![i].joined = FALSE]
    BY Zenon, <1>6 DEF Exit
  <2> DEFINE t == [s EXCEPT !.up = FALSE, !.l1 = {}, !.leaving = clean /\ s.joined,
                            !.joined = FALSE]
  <2>2. srv' = [srv EXCEPT ![i] = t]
    BY Zenon, <2>1 DEF Fleet
  <2>3. t \in Server0 /\ ~t.up /\ t.inc = s.inc /\ t.seq = s.seq /\ t.lost = s.lost
    BY Zenon, <1>1 DEF Server0
  <2> HIDE DEF t
  <2>4. Flushed(t, l)
    BY Zenon, <1>1, <2>3 DEF Flushed
  <2> QED BY Zenon, <1>4, <1>5, <2>2, <2>3, <2>4
<1>7. CASE Restart(i)
  <2> DEFINE t == [NewServer EXCEPT !.inc = s.inc + 1, !.l2 = s.l2]
  <2>1. srv' = [srv EXCEPT ![i] = t] /\ s.inc < MaxInc
    BY Zenon, <1>7 DEF Restart
  <2>2. t \in Server0 /\ t.up /\ t.inc = s.inc + 1 /\ t.seq = 0 /\ t.lost = 0 /\ t.l1 = {}
    <3>1. s.inc + 1 \in Incs /\ s.l2 \in SUBSET Keys /\ 0 \in 0..MaxSeq
      BY <1>1, <1>2, <2>1, CoordinatorAssumptions DEF Incs, Server0
    <3> QED BY Zenon, <3>1 DEF Server0, NewServer
  <2> HIDE DEF t
  <2>3. Held(l, t.inc, t.seq) = {}
    BY Zenon, <1>1, <2>2, HeldNone
  <2>4. \A n \in 1..Len(l) : l[n].inc < t.inc
    <3>1. \A n \in 1..Len(l) : l[n].inc <= s.inc
      BY Zenon, <1>1 DEF Flushed
    <3> QED BY <1>2, <1>3, <2>2, <3>1
  <2>5. Flushed(t, l)
    <3>1. Ordered(l) /\ t.lost <= t.seq /\ t.l1 = Held(l, t.inc, t.seq)
      BY <1>1, <2>2, <2>3 DEF Flushed
    <3>2. \A n \in 1..Len(l) : l[n].inc <= t.inc /\ l[n].inc # t.inc
      BY <1>2, <1>3, <2>2, <2>4
    <3> QED BY Zenon, <3>1, <3>2 DEF Flushed
  <2> QED BY Zenon, <1>4, <1>5, <2>1, <2>2, <2>5
<1>8. ASSUME NEW j \in BOOLEAN, NEW v \in BOOLEAN,
             srv' = [srv EXCEPT ![i] = [s EXCEPT !.joined = j, !.leaving = v]]
      PROVE  Fleet'
  <2> DEFINE t == [s EXCEPT !.joined = j, !.leaving = v]
  <2>1. t \in Server0 /\ t.up = s.up /\ t.inc = s.inc /\ t.seq = s.seq /\ t.lost = s.lost
        /\ t.l1 = s.l1
    BY Zenon, <1>1 DEF Server0
  <2> HIDE DEF t
  <2>2. Flushed(t, l)
    BY Zenon, <1>1, <2>1 DEF Flushed
  <2> QED BY Zenon, <1>5, <1>8, <2>1, <2>2 DEF t
<1>9. s.joined \in BOOLEAN /\ s.leaving \in BOOLEAN
  BY Zenon, <1>1 DEF Server0
<1>10. CASE Forgotten(i)
  <2>1. srv' = [srv EXCEPT ![i] = [s EXCEPT !.joined = FALSE, !.leaving = s.leaving]]
    BY Zenon, <1>1, <1>10 DEF Forgotten, Fleet, Server0
  <2> QED BY Zenon, <1>4, <1>8, <1>9, <2>1
<1>11. CASE Register(i)
  <2>1. srv' = [srv EXCEPT ![i] = [s EXCEPT !.joined = TRUE, !.leaving = s.leaving]]
    BY Zenon, <1>1, <1>11 DEF Register, Fleet, Server0
  <2> QED BY Zenon, <1>4, <1>8, <1>9, <2>1
<1>12. CASE Deregister(i)
  <2>1. srv' = [srv EXCEPT ![i] = [s EXCEPT !.joined = s.joined, !.leaving = FALSE]]
    BY Zenon, <1>1, <1>12 DEF Deregister, Fleet, Server0
  <2> QED BY Zenon, <1>4, <1>8, <1>9, <2>1
<1> QED BY Zenon, <1>4, <1>6, <1>7, <1>10, <1>11, <1>12

\* Sections that were of one moment stay so when a partition grows.
LEMMA ConsistentGrows ==
    ASSUME Fleet, NEW i \in Instances, NEW b \in Batches,
           log' = [log EXCEPT ![i] = Append(@, b)],
           \A n \in 1..Len(log[i]) : Precedes(log[i][n], b)
    PROVE  /\ \A j \in Instances, c \in Cursors \cup {None} : \A keys :
                Exact(log[j], c, keys) => Exact(log'[j], c, keys)
           /\ \A j \in Instances : Len(log[j]) <= Len(log'[j])
           /\ \A j \in Instances : \A n \in 1..Len(log[j]) : log'[j][n] = log[j][n]
<1>1. /\ log \in [Instances -> Seq(Batches)]
      /\ log'[i] = Append(log[i], b) /\ \A j \in Instances : j # i => log'[j] = log[j]
  BY Zenon DEF Fleet
<1>2. log[i] \in Seq(Batches) /\ \A j \in Instances : Len(log[j]) \in Nat
  BY <1>1
<1>3. ASSUME NEW j \in Instances, NEW c \in Cursors \cup {None}, NEW keys, Exact(log[j], c, keys)
      PROVE  Exact(log'[j], c, keys)
  BY Zenon, <1>1, <1>2, <1>3, ExactGrows
<1>4. ASSUME NEW j \in Instances
      PROVE  Len(log[j]) <= Len(log'[j]) /\ \A n \in 1..Len(log[j]) : log'[j][n] = log[j][n]
  BY <1>1, <1>2
<1> QED BY Zenon, <1>3, <1>4

\* The partition of a server and how far it was read.
LEMMA LogTyped ==
    ASSUME CInv, NEW i \in Instances
    PROVE  /\ log[i] \in Seq(Batches) /\ Len(log[i]) \in Nat /\ fetched[i] \in Nat
           /\ fetched[i] < Len(log[i]) =>
                 fetched[i] + 1 \in 1..Len(log[i]) /\ log[i][fetched[i] + 1] \in Batches
<1>1. log \in [Instances -> Seq(Batches)] /\ fetched \in [Instances -> Nat]
  BY Zenon DEF CInv, Fleet, Typed
<1> QED BY <1>1

\* A step of the servers alone keeps the coordinator's part of the invariant.
LEMMA ServersKeep ==
    ASSUME CInv, UNCHANGED <<source, cursors, views, dropping, cap, ckpt>>,
           restored' \in SUBSET Instances, registered' \in SUBSET Instances, drops' \in SUBSET Instances, departed' \in [Instances -> Nat],
           gone' \in [Instances -> Nat],
           \A j \in Instances, c \in Cursors \cup {None} : \A keys :
               Exact(log[j], c, keys) => Exact(log'[j], c, keys),
           log' \in [Instances -> Seq(Batches)],
           \A j \in Instances : Len(log[j]) <= Len(log'[j]),
           \A j \in Instances : \A n \in 1..Len(log[j]) : log'[j][n] = log[j][n]
    PROVE  Typed' /\ Current' /\ Turns' /\ Stored'
<1>0. /\ feed' = feed /\ fetched' = fetched /\ position' = position /\ cursors' = cursors
      /\ directory' = directory /\ l1Keys' = l1Keys /\ usage' = usage
      /\ dropping' = dropping /\ cap' = cap /\ ckpt' = ckpt
  BY Zenon DEF source, views
<1>1. Typed'
  BY Zenon, <1>0 DEF CInv, Typed
<1>2. Turns'
  <2>1. ASSUME feed.pc # "poll"
        PROVE  feed.inst \in Instances /\ fetched[feed.inst] < Len(log'[feed.inst])
    <3>1. feed.inst \in Instances /\ fetched[feed.inst] < Len(log[feed.inst])
      BY Zenon, <2>1 DEF CInv, Turns
    <3>2. Len(log[feed.inst]) <= Len(log'[feed.inst])
      BY Zenon, <3>1
    <3>3. fetched[feed.inst] \in Nat /\ Len(log[feed.inst]) \in Nat
      BY Zenon, <3>1, LogTyped
    <3>4. Len(log'[feed.inst]) \in Nat
      BY <3>1
    <3> QED BY <3>1, <3>2, <3>3, <3>4
  <2> QED BY Zenon, <1>0, <2>1 DEF CInv, Turns, InFlight
<1>3. Current'
  <2>1. ASSUME feed.pc = "usage" PROVE Batch' = Batch
    <3>1. /\ feed.inst \in Instances /\ fetched[feed.inst] < Len(log[feed.inst])
      BY Zenon, <2>1 DEF CInv, Turns
    <3>2. fetched[feed.inst] + 1 \in 1..Len(log[feed.inst])
      BY Zenon, <3>1, LogTyped
    <3> QED BY Zenon, <1>0, <3>1, <3>2 DEF Batch
  <2>2. UsageAfter' = UsageAfter
    <3>1. CASE feed.pc = "usage"
      BY Zenon, <1>0, <2>1, <3>1 DEF UsageAfter
    <3>2. CASE feed.pc # "usage"
      BY Zenon, <1>0, <3>2 DEF UsageAfter
    <3> QED BY Zenon, <3>1, <3>2
  <2>3. ASSUME NEW j \in Instances
        PROVE  /\ cursors[j] # None => Listed(log'[j], cursors[j].inc, cursors[j].seq)
               /\ dropping # j => Exact(log'[j], cursors[j], KeysOf(directory, j, "l1"))
    <3>1. cursors[j] \in Cursors \cup {None}
      BY Zenon DEF CInv, Typed
    <3>2. dropping # j => Exact(log'[j], cursors[j], KeysOf(directory, j, "l1"))
      BY Zenon, <3>1 DEF CInv, Current
    <3>3. ASSUME cursors[j] # None PROVE Listed(log'[j], cursors[j].inc, cursors[j].seq)
      <4> DEFINE c == [cursors[j] EXCEPT !.gap = TRUE]
      <4>1. c \in Cursors /\ c.inc = cursors[j].inc /\ c.seq = cursors[j].seq /\ c.gap
        BY Zenon, <3>1, <3>3 DEF Cursors
      <4> HIDE DEF c
      <4>2. Exact(log[j], c, {})
        BY Zenon, <3>3, <4>1 DEF CInv, Current, Exact
      <4>3. Exact(log'[j], c, {})
        BY Zenon, <4>1, <4>2
      <4>4. c # None
        BY Zenon, <4>1, CoordinatorAssumptions
      <4> QED BY Zenon, <4>1, <4>3, <4>4 DEF Exact
    <3> QED BY Zenon, <3>2, <3>3
  <2>4. Fenceable(cursors, directory, l1Keys)' /\ UsageAfter' = IdsOf(directory')
    BY Zenon, <1>0, <2>2 DEF CInv, Current, Fenceable
  <2>5. dropping' # None => L1Of(directory', dropping') = {}
    BY Zenon, <1>0 DEF CInv, Current
  <2> QED BY Zenon, <1>0, <2>3, <2>4, <2>5 DEF Current
<1>4. Stored'
  <2>1. ASSUME NEW v \in Sections, Consistent(v)
        PROVE  /\ Fenceable(v.cursors, v.directory, v.index)
               /\ \A j \in Instances : Exact(log'[j], v.cursors[j], KeysOf(v.directory, j, "l1"))
               /\ v.usage = IdsOf(v.directory)
    <3>1. \A j \in Instances : v.cursors[j] \in Cursors \cup {None}
      BY Zenon DEF Sections
    <3> QED BY Zenon, <2>1, <3>1 DEF Consistent
  <2>2. CheckpointIsSnapshot'
    BY Zenon, <1>0 DEF CInv, Stored, CheckpointIsSnapshot, KnownIndex
  <2>3. (cap.pc = "write" => Consistent(cap.saved))'
    BY Zenon, <1>0, <2>1 DEF CInv, Stored, Typed, Captures, Consistent
  <2>4. (ckpt # None => Consistent(ckpt))'
    BY Zenon, <1>0, <2>1 DEF CInv, Stored, Typed, Consistent
  <2> QED BY Zenon, <2>2, <2>3, <2>4 DEF Stored
<1> QED BY Zenon, <1>1, <1>2, <1>3, <1>4

\* The servers and the event loop's bookkeeping keep the invariant.
LEMMA FleetStep ==
    ASSUME CInv, NEW i \in Instances, Server(i) \/ Handler(i)
    PROVE  CInv'
<1>1. CASE Emit(i)
  <2>1. Fleet'
    BY Zenon, <1>1, EmitFlushed DEF CInv
  <2>2. UNCHANGED <<source, cursors, views, dropping, cap, ckpt>> /\ drops' = drops
        /\ restored' = restored /\ registered' = registered
        /\ departed' = departed /\ gone' = gone
    BY Zenon, <1>1 DEF Emit, gate, loop, disk
  <2>3. /\ drops' \in SUBSET Instances /\ restored' \in SUBSET Instances
        /\ registered' \in SUBSET Instances
        /\ departed' \in [Instances -> Nat] /\ gone' \in [Instances -> Nat]
    BY Zenon, <2>2 DEF CInv, Typed
  <2>4. log' \in [Instances -> Seq(Batches)]
    BY Zenon, <2>1 DEF Fleet
  <2>5. CASE log' = log
    <3>1. \A j \in Instances : Len(log[j]) <= Len(log'[j])
      BY <2>5 DEF CInv, Fleet
    <3>2. \A j \in Instances, c \in Cursors \cup {None} : \A keys :
             Exact(log[j], c, keys) => Exact(log'[j], c, keys)
      BY Zenon, <2>5
    <3>3. \A j \in Instances : \A n \in 1..Len(log[j]) : log'[j][n] = log[j][n]
      BY Zenon, <2>5
    <3>4. Typed' /\ Current' /\ Turns' /\ Stored'
      BY Zenon, <2>2, <2>3, <2>4, <3>1, <3>2, <3>3, ServersKeep
    <3> QED BY Zenon, <2>1, <3>4 DEF CInv
  <2>6. ASSUME NEW b \in Batches, log' = [log EXCEPT ![i] = Append(@, b)],
               \A n \in 1..Len(log[i]) : Precedes(log[i][n], b)
        PROVE  CInv'
    <3>1. /\ \A j \in Instances, c \in Cursors \cup {None} : \A keys :
                Exact(log[j], c, keys) => Exact(log'[j], c, keys)
          /\ \A j \in Instances : Len(log[j]) <= Len(log'[j])
          /\ \A j \in Instances : \A n \in 1..Len(log[j]) : log'[j][n] = log[j][n]
      BY Zenon, <2>6, ConsistentGrows DEF CInv
    <3>2. Typed' /\ Current' /\ Turns' /\ Stored'
      BY Zenon, <2>2, <2>3, <2>4, <3>1, ServersKeep
    <3> QED BY Zenon, <2>1, <3>2 DEF CInv
  <2> QED BY Zenon, <1>1, <2>5, <2>6, EmitFlushed DEF CInv
<1>2. CASE Exit(i) \/ Restart(i) \/ Forgotten(i) \/ Register(i) \/ Deregister(i)
  <2>1. Fleet' /\ log' = log
    BY Zenon, <1>2, FleetKept DEF CInv
  <2>2. UNCHANGED <<source, cursors, views, dropping, cap, ckpt>> /\ restored' = restored
    BY Zenon, <1>2 DEF Exit, Restart, Forgotten, Register, Deregister, gate, loop, disk
  <2>3. /\ drops' \in SUBSET Instances /\ restored' \in SUBSET Instances
        /\ registered' \in SUBSET Instances
        /\ departed' \in [Instances -> Nat] /\ gone' \in [Instances -> Nat]
    <3>1. /\ registered \in SUBSET Instances /\ restored \in SUBSET Instances
          /\ drops \in SUBSET Instances
          /\ departed \in [Instances -> Nat] /\ gone \in [Instances -> Nat]
      BY Zenon DEF CInv, Typed
    <3>2. CASE Exit(i) \/ Restart(i) \/ Forgotten(i)
      BY Zenon, <3>1, <3>2 DEF Exit, Restart, Forgotten, gate, loop
    <3>3. CASE Register(i)
      BY Zenon, <3>1, <3>3 DEF Register
    <3>4. CASE Deregister(i)
      BY Zenon, <3>1, <3>4 DEF Deregister, gate
    <3> QED BY Zenon, <1>2, <3>2, <3>3, <3>4
  <2>4. log' \in [Instances -> Seq(Batches)]
    BY Zenon, <2>1 DEF Fleet
  <2>5. \A j \in Instances : Len(log[j]) <= Len(log'[j])
    BY <2>1 DEF CInv, Fleet
  <2>6. \A j \in Instances, c \in Cursors \cup {None} : \A keys :
           Exact(log[j], c, keys) => Exact(log'[j], c, keys)
    BY Zenon, <2>1
  <2>7. \A j \in Instances : \A n \in 1..Len(log[j]) : log'[j][n] = log[j][n]
    BY Zenon, <2>1
  <2>8. Typed' /\ Current' /\ Turns' /\ Stored'
    BY Zenon, <2>2, <2>3, <2>4, <2>5, <2>6, <2>7, ServersKeep
  <2> QED BY Zenon, <2>1, <2>8 DEF CInv
<1> QED BY Zenon, <1>1, <1>2 DEF Server, Handler

\* A health pass only decides whom to drop.
LEMMA HealthStep ==
    ASSUME CInv, HealthPass
    PROVE  CInv'
<1>1. /\ UNCHANGED <<source, cursors, views, dropping, cap, ckpt>>
      /\ srv' = srv /\ log' = log /\ departed' = departed /\ gone' = gone
  BY Zenon DEF HealthPass, fleet, gate, disk
<1>2. Fleet'
  BY Zenon, <1>1 DEF CInv, Fleet
<1>3. /\ drops' \in SUBSET Instances /\ restored' \in SUBSET Instances
      /\ registered' \in SUBSET Instances
  <2>1. restored \in SUBSET Instances /\ registered \in SUBSET Instances
    BY Zenon DEF CInv, Typed
  <2>2. PICK stale \in SUBSET {i \in registered : MayGo(i)}, overdue \in BOOLEAN :
          /\ registered' = registered \ stale
          /\ drops' = stale \cup (IF overdue THEN Unreturned(registered \ stale) ELSE {})
          /\ restored' = IF overdue THEN {} ELSE restored
    BY Zenon DEF HealthPass
  <2> QED BY Zenon, <2>1, <2>2 DEF Unreturned
<1>4. departed' \in [Instances -> Nat] /\ gone' \in [Instances -> Nat]
      /\ log' \in [Instances -> Seq(Batches)]
  BY Zenon, <1>1 DEF CInv, Typed, Fleet
<1>5. \A j \in Instances : Len(log[j]) <= Len(log'[j])
  BY <1>1 DEF CInv, Fleet
<1>6. \A j \in Instances, c \in Cursors \cup {None} : \A keys :
         Exact(log[j], c, keys) => Exact(log'[j], c, keys)
  BY Zenon, <1>1
<1>7. \A j \in Instances : \A n \in 1..Len(log[j]) : log'[j][n] = log[j][n]
  BY Zenon, <1>1
<1>8. Typed' /\ Current' /\ Turns' /\ Stored'
  BY Zenon, <1>1, <1>3, <1>4, <1>5, <1>6, <1>7, ServersKeep
<1> QED BY Zenon, <1>2, <1>8 DEF CInv

----------------------------------------------------------------------------
\* Ingest and drops

Quiesced == cap.pc \in {"directory", "usage", "position"}

\* What no ingest step touches.
LEMMA OffIngest ==
    ASSUME CInv, UNCHANGED <<fleet, cap, ckpt>>,
           ~Quiesced \/ UNCHANGED <<cursors, views>>
    PROVE  Fleet' /\ Stored'
<1>1. srv' = srv /\ log' = log /\ cap' = cap /\ ckpt' = ckpt
  BY Zenon DEF fleet
<1>2. Fleet'
  BY Zenon, <1>1 DEF CInv, Fleet
<1>3. CheckpointIsSnapshot'
  <2>1. CASE ~Quiesced
    BY Zenon, <1>1, <2>1 DEF Quiesced, CheckpointIsSnapshot
  <2>2. CASE UNCHANGED <<cursors, views>>
    BY Zenon, <1>1, <2>2 DEF CInv, Stored, CheckpointIsSnapshot, KnownIndex, views
  <2> QED BY Zenon, <2>1, <2>2
<1>4. (cap.pc = "write" => Consistent(cap.saved))' /\ (ckpt # None => Consistent(ckpt))'
  BY Zenon, <1>1 DEF CInv, Stored, Consistent
<1> QED BY Zenon, <1>2, <1>3, <1>4 DEF Stored

\* The loss accounting leaves the cursor at the batch.
LEMMA AdvancedFacts ==
    ASSUME NEW c \in Cursors \cup {None}, NEW b \in Batches, ~Stale(c, b)
    PROVE  /\ Advanced(c, b) \in Cursors /\ Advanced(c, b) # None
           /\ Advanced(c, b).inc = b.inc /\ Advanced(c, b).seq = b.seq
           /\ ~Advanced(c, b).gap =>
                \/ (c = None \/ Restarted(c, b)) /\ b.seq = 1
                \/ c # None /\ b.inc = c.inc /\ ~c.gap /\ b.seq = c.seq + 1
<1>1. /\ b.inc \in Nat /\ b.inc \in Incs /\ b.seq \in Nat /\ b.seq > 0 /\ b.seq \in 1..MaxSeq
      /\ b.lost \in 0..MaxSeq
  BY Zenon, BatchTyped
<1>2. c # None => c.inc \in Nat /\ c.seq \in Nat /\ c.gap \in BOOLEAN
  BY CoordinatorAssumptions DEF Cursors, Incs
<1>3. Advanced(c, b) \in Cursors
  BY Zenon, <1>1 DEF Advanced, Cursors
<1>4. Advanced(c, b) # None
  BY Zenon, <1>3, CoordinatorAssumptions
<1>5. Advanced(c, b).inc = b.inc /\ Advanced(c, b).seq = b.seq
      /\ (Advanced(c, b).gap <=> \/ BaseCursor(c, b).gap
                                 \/ b.seq > BaseCursor(c, b).seq + 1
                                 \/ /\ BaseCursor(c, b).lost # None
                                    /\ b.lost > BaseCursor(c, b).lost)
  BY Zenon DEF Advanced
<1>6. CASE c # None /\ b.inc = c.inc
  <2>1. BaseCursor(c, b) = c
    BY Zenon, <1>6 DEF BaseCursor
  <2>2. b.seq > c.seq
    BY <1>1, <1>2, <1>6 DEF Stale
  <2>3. ~Advanced(c, b).gap => ~c.gap /\ ~(b.seq > c.seq + 1)
    BY Zenon, <1>5, <2>1
  <2> QED BY SMTT(30), <1>1, <1>2, <1>3, <1>4, <1>5, <1>6, <2>2, <2>3
<1>7. CASE ~(c # None /\ b.inc = c.inc)
  <2>1. BaseCursor(c, b).seq = 0
    BY Zenon, <1>7 DEF BaseCursor
  <2>2. ~Advanced(c, b).gap => b.seq = 1
    <3>1. ~Advanced(c, b).gap => ~(b.seq > 0 + 1)
      BY Zenon, <1>5, <2>1
    <3> QED BY <1>1, <3>1
  <2>3. c = None \/ Restarted(c, b)
    BY <1>1, <1>2, <1>7 DEF Stale, Restarted
  <2> QED BY Zenon, <1>1, <1>3, <1>4, <1>5, <2>2, <2>3
<1> QED BY Zenon, <1>6, <1>7

\* An admitted batch keeps what the cursors say of the directory.
LEMMA Admitted ==
    ASSUME CInv, NEW i \in Instances, NEW n \in 1..Len(log[i]), dropping = None,
           ~Stale(cursors[i], log[i][n])
    PROVE  LET b == log[i][n]
               restart == Restarted(cursors[i], b)
               base == IF restart THEN Fenced(directory, i) ELSE directory
               held == IF restart THEN {} ELSE l1Keys[i]
               cur == [cursors EXCEPT ![i] = Advanced(cursors[i], b)]
               dir == Applied(base, i, b)
               idx == [l1Keys EXCEPT ![i] = Indexed(held, b)]
           IN /\ cur \in [Instances -> Cursors \cup {None}]
              /\ dir \in SUBSET Placements /\ idx \in [Instances -> SUBSET Keys]
              /\ Fenceable(cur, dir, idx)
              /\ \A j \in Instances : Exact(log[j], cur[j], KeysOf(dir, j, "l1"))
              /\ IdsOf(dir) = Changed(IF restart THEN FencedUsage(IdsOf(directory), i)
                                      ELSE IdsOf(directory),
                                      b.type, [inst |-> i, tier |-> b.tier, key |-> b.key])
<1> DEFINE b == log[i][n]
           c == cursors[i]
           restart == Restarted(c, b)
           base == IF restart THEN Fenced(directory, i) ELSE directory
           held == IF restart THEN {} ELSE l1Keys[i]
           cur == [cursors EXCEPT ![i] = Advanced(c, b)]
           dir == Applied(base, i, b)
           idx == [l1Keys EXCEPT ![i] = Indexed(held, b)]
<1>1. /\ directory \in SUBSET Placements /\ l1Keys \in [Instances -> SUBSET Keys]
      /\ cursors \in [Instances -> Cursors \cup {None}] /\ c \in Cursors \cup {None}
      /\ log[i] \in Seq(Batches) /\ Ordered(log[i]) /\ b \in Batches
      /\ Fenceable(cursors, directory, l1Keys)
      /\ \A j \in Instances : Exact(log[j], cursors[j], KeysOf(directory, j, "l1"))
  <2>1. dropping \notin Instances
    BY Zenon, CoordinatorAssumptions
  <2>2. /\ directory \in SUBSET Placements /\ l1Keys \in [Instances -> SUBSET Keys]
        /\ cursors \in [Instances -> Cursors \cup {None}]
    BY Zenon DEF CInv, Typed
  <2>3. log \in [Instances -> Seq(Batches)] /\ Flushed(srv[i], log[i])
    BY Zenon DEF CInv, Fleet
  <2>4. log[i] \in Seq(Batches) /\ c \in Cursors \cup {None}
    BY Zenon, <2>2, <2>3
  <2>5. Ordered(log[i])
    BY Zenon, <2>3 DEF Flushed
  <2>6. b \in Batches
    BY <2>4
  <2>7. /\ Fenceable(cursors, directory, l1Keys)
        /\ \A j \in Instances : Exact(log[j], cursors[j], KeysOf(directory, j, "l1"))
    BY Zenon, <2>1 DEF CInv, Current
  <2> QED BY Zenon, <2>2, <2>4, <2>5, <2>6, <2>7
<1>2. /\ b.inc \in Nat /\ b.seq \in Nat /\ b.seq > 0 /\ b.key \in Keys
      /\ b.type \in {"store", "delete"}
  BY Zenon, <1>1, BatchTyped
<1>3. /\ Advanced(c, b) \in Cursors /\ Advanced(c, b) # None
      /\ Advanced(c, b).inc = b.inc /\ Advanced(c, b).seq = b.seq
      /\ ~Advanced(c, b).gap =>
           \/ (c = None \/ restart) /\ b.seq = 1
           \/ c # None /\ b.inc = c.inc /\ ~c.gap /\ b.seq = c.seq + 1
  BY Zenon, <1>1, AdvancedFacts
<1>4. /\ base \in SUBSET Placements
      /\ restart => KeysOf(base, i, "l1") = {} /\ L1Of(base, i) = {}
      /\ ~restart => KeysOf(base, i, "l1") = KeysOf(directory, i, "l1")
      /\ \A j \in Instances : j # i => KeysOf(base, j, "l1") = KeysOf(directory, j, "l1")
      /\ IdsOf(base) = IF restart THEN FencedUsage(IdsOf(directory), i) ELSE IdsOf(directory)
      /\ base \subseteq directory
  <2>1. CASE restart
    <3>1. base = Fenced(directory, i)
      BY Zenon, <2>1
    <3>2. /\ Fenced(directory, i) \subseteq directory
          /\ Fenced(directory, i) \in SUBSET Placements
          /\ L1Of(Fenced(directory, i), i) = {} /\ KeysOf(Fenced(directory, i), i, "l1") = {}
          /\ \A j \in Instances :
               j # i => KeysOf(Fenced(directory, i), j, "l1") = KeysOf(directory, j, "l1")
          /\ IdsOf(Fenced(directory, i)) = FencedUsage(IdsOf(directory), i)
      <4>1. directory \in SUBSET Placements /\ Fenceable(cursors, directory, l1Keys)
        BY Zenon, <1>1
      <4> HIDE DEF base, held, restart, cur, dir, idx, b
      <4> QED BY Zenon, <4>1, FencedFacts
    <3> HIDE DEF base, restart
    <3> QED BY Zenon, <2>1, <3>1, <3>2
  <2>2. CASE ~restart
    BY Zenon, <1>1, <2>2
  <2> QED BY Zenon, <2>1, <2>2
<1>5. /\ dir \in SUBSET Placements
      /\ KeysOf(dir, i, "l1") = IF b.tier = "l1" THEN Changed(KeysOf(base, i, "l1"), b.type, b.key)
                                ELSE KeysOf(base, i, "l1")
      /\ \A j \in Instances : j # i => KeysOf(dir, j, "l1") = KeysOf(base, j, "l1")
      /\ IdsOf(dir) = Changed(IdsOf(base), b.type, [inst |-> i, tier |-> b.tier, key |-> b.key])
  <2> HIDE DEF base
  <2> QED BY Zenon, <1>1, <1>4, AppliedFacts
<1> HIDE DEF base
<1>6. held \in SUBSET Keys /\ Indexed(held, b) \in SUBSET Keys
  BY Zenon, <1>1, <1>2 DEF Indexed, Changed
<1>7. /\ cur \in [Instances -> Cursors \cup {None}] /\ idx \in [Instances -> SUBSET Keys]
      /\ cur[i] = Advanced(c, b) /\ idx[i] = Indexed(held, b)
      /\ \A j \in Instances : j # i => cur[j] = cursors[j] /\ idx[j] = l1Keys[j]
  BY Zenon, <1>1, <1>3, <1>6
<1>8. c = None => L1Of(directory, i) = {}
  BY Zenon, <1>1 DEF Fenceable, L1Of
<1>9. Fenceable(cur, dir, idx)
  <2> SUFFICES ASSUME NEW p \in dir, p.tier = "l1"
               PROVE  /\ cur[p.inst] # None /\ cur[p.inst].inc = p.inc
                      /\ p.key \in idx[p.inst]
    BY Zenon DEF Fenceable
  <2> DEFINE new == [inst |-> i, inc |-> b.inc, tier |-> b.tier, key |-> b.key]
  <2>1. \/ p = new /\ b.type # "delete"
        \/ p \in base /\ IdOf(p) # [inst |-> i, tier |-> b.tier, key |-> b.key]
    BY Zenon DEF Applied
  <2>2. CASE p = new /\ b.type # "delete"
    <3>1. p.inst = i /\ p.inc = b.inc /\ p.key = b.key /\ b.tier = "l1"
      BY Zenon, <2>2
    <3>2. b.key \in Indexed(held, b)
      BY Zenon, <1>2, <2>2, <3>1 DEF Indexed, Changed
    <3> QED BY Zenon, <1>3, <1>7, <3>1, <3>2
  <2>3. CASE p \in base /\ IdOf(p) # [inst |-> i, tier |-> b.tier, key |-> b.key]
    <3>1. /\ p \in directory /\ p \in Placements /\ p.inst \in Instances
          /\ cursors[p.inst] # None /\ cursors[p.inst].inc = p.inc /\ p.key \in l1Keys[p.inst]
      BY Zenon, <1>1, <1>4, <2>3, PlacementTyped DEF Fenceable
    <3>2. CASE p.inst # i
      BY Zenon, <1>7, <3>1, <3>2
    <3>3. CASE p.inst = i
      <4>1. ~restart
        BY Zenon, <1>4, <2>3, <3>3 DEF L1Of
      <4>2. b.inc = c.inc
        <5>1. c # None /\ c.inc \in Nat
          <6> HIDE DEF b, dir, base, held, restart
          <6> QED BY Zenon, <1>1, <3>1, <3>3, CursorTyped
        <5>2. ~Stale(c, b) /\ ~Restarted(c, b)
          BY Zenon, <4>1
        <5> HIDE DEF b, c, dir, base, held
        <5> QED BY <1>2, <5>1, <5>2 DEF Stale, Restarted
      <4>3. held = l1Keys[i]
        BY Zenon, <4>1
      <4>4. b.tier = "l1" => p.key # b.key
        BY Zenon, <2>3, <3>3 DEF IdOf
      <4>5. p.key \in Indexed(held, b)
        BY Zenon, <3>1, <3>3, <4>3, <4>4 DEF Indexed, Changed
      <4> QED BY Zenon, <1>3, <1>7, <3>1, <3>3, <4>2, <4>5
    <3> QED BY Zenon, <3>2, <3>3
  <2> HIDE DEF dir
  <2> QED BY Zenon, <2>1, <2>2, <2>3
<1>10. Exact(log[i], Advanced(c, b), KeysOf(dir, i, "l1"))
  <2>1. Listed(log[i], b.inc, b.seq)
    BY Zenon DEF Listed
  <2>2. ASSUME ~Advanced(c, b).gap
        PROVE  /\ Whole(log[i], b.inc, b.seq)
               /\ KeysOf(dir, i, "l1") = Held(log[i], b.inc, b.seq)
    <3>1. Held(log[i], b.inc, b.seq) =
            IF b.tier = "l1" THEN Changed(Held(log[i], b.inc, b.seq - 1), b.type, b.key)
            ELSE Held(log[i], b.inc, b.seq - 1)
      BY Zenon, <1>1, HeldNext
    <3>2. CASE (c = None \/ restart) /\ b.seq = 1
      <4>1. KeysOf(base, i, "l1") = {}
        <5>1. CASE restart
          BY Zenon, <1>4, <5>1
        <5>2. CASE ~restart
          BY Zenon, <1>4, <1>8, <3>2, <5>2 DEF KeysOf, L1Of
        <5> QED BY Zenon, <5>1, <5>2
      <4>2. b.seq - 1 = 0
        BY <3>2
      <4>3. Held(log[i], b.inc, b.seq - 1) = {}
        BY Zenon, <1>1, <4>2, HeldNone
      <4>4. Whole(log[i], b.inc, b.seq)
        BY <2>1, <3>2 DEF Whole
      <4> HIDE DEF dir, b
      <4> QED BY Zenon, <1>5, <3>1, <4>1, <4>3, <4>4
    <3>3. CASE c # None /\ b.inc = c.inc /\ ~c.gap /\ b.seq = c.seq + 1
      <4>1. c.seq \in Nat /\ c.inc \in Nat
        <5> HIDE DEF b, dir, base, held, restart
        <5> QED BY Zenon, <1>1, <3>3, CursorTyped
      <4>2. Whole(log[i], b.inc, c.seq)
            /\ KeysOf(directory, i, "l1") = Held(log[i], b.inc, c.seq)
        BY Zenon, <1>1, <3>3 DEF Exact
      <4>3. b.seq - 1 = c.seq
        BY <3>3, <4>1
      <4>4. ~restart
        BY <3>3, <4>1 DEF Restarted
      <4>5. Whole(log[i], b.inc, b.seq)
        <5> HIDE DEF b, c, dir, base, held, restart
        <5> QED BY <2>1, <3>3, <4>1, <4>2 DEF Whole
      <4> HIDE DEF dir, b
      <4> QED BY Zenon, <1>4, <1>5, <3>1, <4>2, <4>3, <4>4, <4>5
    <3> QED BY Zenon, <1>3, <2>2, <3>2, <3>3
  <2> HIDE DEF dir, b
  <2> QED BY Zenon, <1>3, <2>1, <2>2 DEF Exact
<1>11. \A j \in Instances : Exact(log[j], cur[j], KeysOf(dir, j, "l1"))
  <2> HIDE DEF dir, cur
  <2> QED BY Zenon, <1>1, <1>4, <1>5, <1>7, <1>10
<1> QED BY Zenon, <1>4, <1>5, <1>7, <1>9, <1>11 DEF base

\* The next record of a partition keeps the invariant.
LEMMA IngestStep ==
    ASSUME CInv, NEW i \in Instances, Ingest(i)
    PROVE  CInv'
<1> DEFINE n == fetched[i] + 1
           b == log[i][n]
           c == cursors[i]
           restart == Restarted(c, b)
           base == IF restart THEN Fenced(directory, i) ELSE directory
           held == IF restart THEN {} ELSE l1Keys[i]
           dep == IF b.inc > departed[i] THEN 0 ELSE departed[i]
<1>1. /\ feed.pc = "poll" /\ fetched[i] < Len(log[i]) /\ CanApply
      /\ departed' = [departed EXCEPT ![i] = dep]
      /\ gone' = IF b.inc > gone[i] THEN [gone EXCEPT ![i] = 0] ELSE gone
      /\ IF Refused(dep, b) \/ Stale(c, b)
         THEN /\ feed' = [pc |-> "record", inst |-> i, fence |-> FALSE]
              /\ UNCHANGED <<cursors, directory, l1Keys>>
         ELSE /\ feed' = [pc |-> "usage", inst |-> i, fence |-> restart]
              /\ cursors' = [cursors EXCEPT ![i] = Advanced(c, b)]
              /\ directory' = Applied(base, i, b)
              /\ l1Keys' = [l1Keys EXCEPT ![i] = Indexed(held, b)]
  BY Zenon DEF Ingest
<1>2. /\ srv' = srv /\ log' = log /\ usage' = usage /\ fetched' = fetched /\ position' = position
      /\ registered' = registered /\ restored' = restored /\ drops' = drops
      /\ dropping' = dropping /\ cap' = cap /\ ckpt' = ckpt
  BY Zenon DEF Ingest, fleet, loop, disk
<1>3. dropping = None /\ ~Quiesced /\ ~InFlight
  BY Zenon, <1>1 DEF CanApply, InFlight, QuiesceRequested, Quiesced
<1>4. Fleet' /\ Stored'
  BY Zenon, <1>2, <1>3, OffIngest DEF fleet
<1>5. fetched[i] \in Nat /\ Len(log[i]) \in Nat /\ n \in 1..Len(log[i]) /\ b \in Batches
  BY Zenon, <1>1, LogTyped
<1>6. usage = IdsOf(directory)
  BY Zenon, <1>1, <1>3 DEF CInv, Current, UsageAfter
<1>7. departed' \in [Instances -> Nat] /\ gone' \in [Instances -> Nat]
  <2>1. departed \in [Instances -> Nat] /\ gone \in [Instances -> Nat]
    BY Zenon DEF CInv, Typed
  <2>2. dep \in Nat
    BY Zenon, <2>1
  <2> HIDE DEF dep, b
  <2> QED BY Zenon, <1>1, <2>1, <2>2
<1>8. Turns'
  <2>1. /\ feed'.pc \in {"usage", "record"} /\ feed'.inst = i
    <3>1. \/ feed' = [pc |-> "record", inst |-> i, fence |-> FALSE]
          \/ feed' = [pc |-> "usage", inst |-> i, fence |-> restart]
      BY Zenon, <1>1
    <3> HIDE DEF restart
    <3> QED BY <3>1
  <2> HIDE DEF b, c, dep
  <2> QED BY Zenon, <1>1, <1>2, <1>3, <1>5, <2>1 DEF Turns, InFlight, Quiesced
<1>9. CASE Refused(dep, b) \/ Stale(c, b)
  <2>1. /\ feed' = [pc |-> "record", inst |-> i, fence |-> FALSE]
        /\ cursors' = cursors /\ directory' = directory /\ l1Keys' = l1Keys
    BY Zenon, <1>1, <1>9
  <2>2. Typed'
    BY Zenon, <1>2, <1>7, <2>1 DEF CInv, Typed
  <2>3. UsageAfter' = usage
    BY Zenon, <1>2, <1>3, <2>1 DEF UsageAfter
  <2>4. Current'
    BY Zenon, <1>2, <1>6, <2>1, <2>3 DEF CInv, Current, Fenceable
  <2> QED BY Zenon, <1>4, <1>8, <2>2, <2>4 DEF CInv
<1>10. CASE ~(Refused(dep, b) \/ Stale(c, b))
  <2>1. /\ feed' = [pc |-> "usage", inst |-> i, fence |-> restart]
        /\ cursors' = [cursors EXCEPT ![i] = Advanced(c, b)]
        /\ directory' = Applied(base, i, b)
        /\ l1Keys' = [l1Keys EXCEPT ![i] = Indexed(held, b)]
    BY Zenon, <1>1, <1>10
  <2>2. /\ cursors' \in [Instances -> Cursors \cup {None}]
        /\ directory' \in SUBSET Placements /\ l1Keys' \in [Instances -> SUBSET Keys]
        /\ Fenceable(cursors', directory', l1Keys')
        /\ \A j \in Instances : Exact(log[j], cursors'[j], KeysOf(directory', j, "l1"))
        /\ IdsOf(directory') = Changed(IF restart THEN FencedUsage(IdsOf(directory), i)
                                       ELSE IdsOf(directory),
                                       b.type, [inst |-> i, tier |-> b.tier, key |-> b.key])
    BY Zenon, <1>3, <1>5, <1>10, <2>1, Admitted
  <2>3. Typed'
    <3>1. restart \in BOOLEAN
      BY Zenon DEF Restarted
    <3>2. feed' \in [pc : {"poll", "usage", "record"}, inst : Instances \cup {None},
                     fence : BOOLEAN]
      BY Zenon, <2>1, <3>1
    <3> HIDE DEF base, restart, held, b
    <3> QED BY Zenon, <1>2, <1>7, <2>2, <3>2 DEF CInv, Typed
  <2>4. feed'.pc = "usage" /\ feed'.inst = i /\ (feed'.fence <=> restart)
    BY Zenon, <2>1 DEF Restarted
  <2>5. Batch' = b
    BY Zenon, <1>2, <2>4 DEF Batch
  <2>6. UsageAfter' = IdsOf(directory')
    <3> HIDE DEF b, restart, base, held
    <3> QED BY Zenon, <1>2, <1>6, <2>2, <2>4, <2>5 DEF UsageAfter
  <2>7. \A j \in Instances : cursors'[j] # None => Listed(log[j], cursors'[j].inc, cursors'[j].seq)
    BY Zenon, <2>2 DEF Exact
  <2>8. Current'
    <3> HIDE DEF b, restart, base, held
    <3>1. Fenceable(cursors, directory, l1Keys)'
      BY Zenon, <2>2
    <3> QED BY Zenon, <1>2, <1>3, <2>2, <2>6, <2>7, <3>1 DEF Current
  <2> QED BY Zenon, <1>4, <1>8, <2>3, <2>8 DEF CInv
<1> QED BY Zenon, <1>9, <1>10

\* The usage view follows, and the batch is over.
LEMMA UsageStep ==
    ASSUME CInv, ConsumeUsage
    PROVE  CInv'
<1>1. /\ feed.pc = "usage" /\ feed' = [feed EXCEPT !.pc = "record"]
      /\ usage' = UsageAfter
  BY Zenon DEF ConsumeUsage, UsageAfter, Batch
<1>2. /\ srv' = srv /\ log' = log /\ fetched' = fetched /\ position' = position
      /\ cursors' = cursors /\ departed' = departed /\ directory' = directory /\ l1Keys' = l1Keys
      /\ registered' = registered /\ restored' = restored /\ drops' = drops
      /\ dropping' = dropping /\ cap' = cap /\ ckpt' = ckpt /\ gone' = gone
  BY Zenon DEF ConsumeUsage, fleet, gate, loop, disk
<1>3. dropping = None /\ ~Quiesced
  BY Zenon, <1>1 DEF CInv, Turns, InFlight, Quiesced
<1>4. Fleet' /\ Stored'
  BY Zenon, <1>2, <1>3, OffIngest DEF fleet
<1>5. feed' \in [pc : {"poll", "usage", "record"}, inst : Instances \cup {None}, fence : BOOLEAN]
      /\ feed'.pc = "record" /\ feed'.inst = feed.inst
  BY Zenon, <1>1 DEF CInv, Typed
<1>6. usage' = IdsOf(directory)
  BY Zenon, <1>1 DEF CInv, Current
<1>7. usage' \in SUBSET Ids
  BY <1>6, PlacementTyped DEF CInv, Typed, IdsOf
<1>8. Typed'
  BY Zenon, <1>2, <1>5, <1>7 DEF CInv, Typed
<1>9. Turns'
  BY Zenon, <1>1, <1>2, <1>3, <1>5 DEF CInv, Turns, InFlight, Quiesced
<1>10. UsageAfter' = usage'
  BY Zenon, <1>2, <1>3, <1>5 DEF UsageAfter
<1>11. Current'
  BY Zenon, <1>2, <1>6, <1>10 DEF CInv, Current, Fenceable
<1> QED BY Zenon, <1>4, <1>8, <1>9, <1>11 DEF CInv

\* Recording the position touches neither cursors nor views.
LEMMA RecordStep ==
    ASSUME CInv, RecordPosition
    PROVE  CInv'
<1>1. /\ feed.pc = "record" /\ feed' = [pc |-> "poll", inst |-> None, fence |-> FALSE]
      /\ fetched' = [fetched EXCEPT ![feed.inst] = @ + 1]
      /\ position' = [position EXCEPT ![feed.inst] = fetched[feed.inst] + 1]
  BY Zenon DEF RecordPosition
<1>2. /\ srv' = srv /\ log' = log /\ cursors' = cursors /\ departed' = departed
      /\ directory' = directory /\ l1Keys' = l1Keys /\ usage' = usage
      /\ registered' = registered /\ restored' = restored /\ drops' = drops
      /\ dropping' = dropping /\ cap' = cap /\ ckpt' = ckpt /\ gone' = gone
  BY Zenon DEF RecordPosition, fleet, gate, views, loop, disk
<1>3. Fleet' /\ Stored'
  BY Zenon, <1>2, OffIngest DEF fleet, views
<1>4. feed.inst \in Instances
  BY Zenon, <1>1 DEF CInv, Turns
<1>5. Typed'
  BY <1>1, <1>2, <1>4 DEF CInv, Typed
<1>6. Turns'
  BY Zenon, <1>1, <1>2 DEF CInv, Turns, InFlight
<1>7. UsageAfter' = UsageAfter
  BY Zenon, <1>1, <1>2 DEF UsageAfter
<1>8. Current'
  BY Zenon, <1>2, <1>7 DEF CInv, Current, Fenceable
<1> QED BY Zenon, <1>3, <1>5, <1>6, <1>8 DEF CInv

\* The directory of a dropped server is fenced.
LEMMA DropDirectoryStep ==
    ASSUME CInv, NEW i \in Instances, DropDirectory(i)
    PROVE  CInv'
<1>1. /\ CanApply /\ dropping' = i /\ directory' = Fenced(directory, i)
      /\ l1Keys' = [l1Keys EXCEPT ![i] = {}]
  BY Zenon DEF DropDirectory
<1>2. /\ srv' = srv /\ log' = log /\ fetched' = fetched /\ feed' = feed /\ position' = position
      /\ cursors' = cursors /\ departed' = departed /\ usage' = usage
      /\ registered' = registered /\ restored' = restored /\ drops' = drops
      /\ cap' = cap /\ ckpt' = ckpt /\ gone' = gone
  BY Zenon DEF DropDirectory, fleet, source, gate, disk
<1>3. dropping = None /\ feed.pc # "usage" /\ ~Quiesced /\ i # None
  BY Zenon, <1>1, CoordinatorAssumptions DEF CanApply, InFlight, QuiesceRequested, Quiesced
<1>4. Fleet' /\ Stored'
  BY Zenon, <1>2, <1>3, OffIngest DEF fleet
<1>5. /\ directory \in SUBSET Placements /\ l1Keys \in [Instances -> SUBSET Keys]
      /\ Fenceable(cursors, directory, l1Keys) /\ usage = IdsOf(directory)
  BY Zenon, <1>3 DEF CInv, Typed, Current, UsageAfter
<1>6. /\ directory' \subseteq directory /\ directory' \in SUBSET Placements
      /\ L1Of(directory', i) = {}
      /\ \A j \in Instances : j # i => KeysOf(directory', j, "l1") = KeysOf(directory, j, "l1")
      /\ IdsOf(directory') = FencedUsage(IdsOf(directory), i)
  BY Zenon, <1>1, <1>5, FencedFacts
<1>7. /\ l1Keys' \in [Instances -> SUBSET Keys]
      /\ \A j \in Instances : j # i => l1Keys'[j] = l1Keys[j]
  BY Zenon, <1>1, <1>5
<1>8. Typed'
  BY Zenon, <1>1, <1>2, <1>6, <1>7 DEF CInv, Typed
<1>9. Turns'
  BY Zenon, <1>1, <1>2, <1>3 DEF CInv, Turns, InFlight, Quiesced
<1>10. Fenceable(cursors, directory, l1Keys)'
  <2> SUFFICES ASSUME NEW p \in directory', p.tier = "l1"
               PROVE  /\ cursors'[p.inst] # None /\ cursors'[p.inst].inc = p.inc
                      /\ p.key \in l1Keys'[p.inst]
    BY Zenon DEF Fenceable
  <2>1. p \in directory /\ p.inst \in Instances /\ p.inst # i
    BY Zenon, <1>6, PlacementTyped DEF L1Of
  <2> QED BY Zenon, <1>2, <1>5, <1>7, <2>1 DEF Fenceable
<1>11. UsageAfter' = IdsOf(directory')
  BY Zenon, <1>1, <1>2, <1>3, <1>5, <1>6 DEF UsageAfter
<1>12. ASSUME NEW j \in Instances
       PROVE  /\ cursors'[j] # None => Listed(log'[j], cursors'[j].inc, cursors'[j].seq)
              /\ dropping' # j => Exact(log'[j], cursors'[j], KeysOf(directory', j, "l1"))
  <2>1. dropping # j
    BY Zenon, <1>3, CoordinatorAssumptions
  <2> QED BY Zenon, <1>1, <1>2, <1>6, <2>1 DEF CInv, Current
<1>13. Current'
  BY Zenon, <1>1, <1>6, <1>10, <1>11, <1>12 DEF Current
<1> QED BY Zenon, <1>4, <1>8, <1>9, <1>13 DEF CInv

\* The rest of the drop: usage is fenced and the cursor forgotten.
LEMMA DropUsageStep ==
    ASSUME CInv, DropUsage
    PROVE  CInv'
<1> DEFINE i == dropping
<1>1. /\ i # None /\ dropping' = None /\ usage' = FencedUsage(usage, i)
      /\ cursors' = [cursors EXCEPT ![i] = None]
      /\ departed' = IF cursors[i] = None THEN departed
                     ELSE [departed EXCEPT ![i] = cursors[i].inc]
      /\ gone' = [gone EXCEPT ![i] = IF cursors[i] = None THEN srv[i].inc ELSE cursors[i].inc]
      /\ drops' = drops \ {i}
  BY Zenon DEF DropUsage
<1>2. /\ srv' = srv /\ log' = log /\ fetched' = fetched /\ feed' = feed /\ position' = position
      /\ directory' = directory /\ l1Keys' = l1Keys
      /\ registered' = registered /\ restored' = restored
      /\ cap' = cap /\ ckpt' = ckpt
  BY Zenon DEF DropUsage, fleet, source, disk
<1>3. i \in Instances /\ feed.pc # "usage" /\ ~Quiesced
  BY Zenon, <1>1 DEF CInv, Typed, Turns, InFlight, Quiesced
<1>4. Fleet' /\ Stored'
  BY Zenon, <1>2, <1>3, OffIngest DEF fleet
<1>5. usage' = IdsOf(directory)
  BY Zenon, <1>1, <1>3 DEF CInv, Current, UsageAfter
<1>6. usage' \in SUBSET Ids
  BY <1>5, PlacementTyped DEF CInv, Typed, IdsOf
<1>7. /\ cursors \in [Instances -> Cursors \cup {None}] /\ departed \in [Instances -> Nat]
      /\ gone \in [Instances -> Nat] /\ drops \in SUBSET Instances
      /\ srv[i].inc \in Nat
  <2>1. srv[i] \in Server0
    BY Zenon, <1>3 DEF CInv, Fleet
  <2>2. srv[i].inc \in Nat
    BY <2>1, CoordinatorAssumptions DEF Server0, Incs
  <2> QED BY Zenon, <2>2 DEF CInv, Typed
<1>8. cursors[i] # None => cursors[i].inc \in Nat
  BY <1>3, <1>7, CoordinatorAssumptions DEF Cursors, Incs
<1>9. /\ cursors' \in [Instances -> Cursors \cup {None}] /\ departed' \in [Instances -> Nat]
      /\ gone' \in [Instances -> Nat] /\ drops' \in SUBSET Instances
      /\ cursors'[i] = None /\ \A j \in Instances : j # i => cursors'[j] = cursors[j]
  <2> HIDE DEF i
  <2> QED BY Zenon, <1>1, <1>3, <1>7, <1>8
<1>10. Typed'
  BY Zenon, <1>1, <1>2, <1>6, <1>9 DEF CInv, Typed
<1>11. Turns'
  BY Zenon, <1>1, <1>2, <1>3 DEF CInv, Turns, InFlight, Quiesced
<1>12. UsageAfter' = IdsOf(directory')
  BY Zenon, <1>1, <1>2, <1>3, <1>5 DEF UsageAfter
<1>13. Fenceable(cursors, directory, l1Keys)'
  <2> SUFFICES ASSUME NEW p \in directory, p.tier = "l1"
               PROVE  /\ cursors'[p.inst] # None /\ cursors'[p.inst].inc = p.inc
                      /\ p.key \in l1Keys[p.inst]
    BY Zenon, <1>2 DEF Fenceable
  <2>1. p.inst \in Instances /\ p.inst # i
    BY Zenon, <1>1, PlacementTyped DEF L1Of, CInv, Typed, Current
  <2> QED BY Zenon, <1>9, <2>1 DEF CInv, Current, Fenceable
<1>14. ASSUME NEW j \in Instances
       PROVE  /\ cursors'[j] # None => Listed(log'[j], cursors'[j].inc, cursors'[j].seq)
              /\ dropping' # j => Exact(log'[j], cursors'[j], KeysOf(directory', j, "l1"))
  <2>1. CASE j = i
    BY Zenon, <1>9, <2>1 DEF Exact
  <2>2. CASE j # i
    BY Zenon, <1>2, <1>9, <2>2 DEF CInv, Current
  <2> QED BY Zenon, <2>1, <2>2
<1>15. Current'
  BY Zenon, <1>1, <1>12, <1>13, <1>14 DEF Current
<1> QED BY Zenon, <1>4, <1>10, <1>11, <1>15 DEF CInv

----------------------------------------------------------------------------
\* Checkpoints and restarts

\* A capture, a write or a timeout.
LEMMA CheckpointStep ==
    ASSUME CInv, Checkpoint
    PROVE  CInv'
<1>1. /\ srv' = srv /\ log' = log /\ fetched' = fetched /\ feed' = feed /\ position' = position
      /\ cursors' = cursors /\ departed' = departed
      /\ directory' = directory /\ l1Keys' = l1Keys /\ usage' = usage
      /\ registered' = registered /\ restored' = restored /\ drops' = drops
      /\ dropping' = dropping /\ gone' = gone
  BY Zenon DEF Checkpoint, RequestQuiesce, QuiesceTimeout, CaptureGate, CaptureDirectory,
         CaptureUsage, CapturePosition, WriteCheckpoint, fleet, source, gate, views, loop
<1>2. Fleet'
  BY Zenon, <1>1 DEF CInv, Fleet
<1>3. Current'
  <2>1. UsageAfter' = UsageAfter
    BY Zenon, <1>1 DEF UsageAfter, Batch
  <2> QED BY Zenon, <1>1, <2>1 DEF CInv, Current, Fenceable
<1>4. /\ cap \in Captures /\ cap.saved \in Sections /\ cursors \in [Instances -> Cursors \cup {None}]
      /\ directory \in SUBSET Placements /\ usage \in SUBSET Ids
      /\ position \in [Instances -> Nat] /\ l1Keys \in [Instances -> SUBSET Keys]
      /\ ckpt \in Sections \cup {None}
  BY Zenon DEF CInv, Typed, Captures
<1>5. KnownIndex \in [Instances -> SUBSET Keys]
  BY Zenon, <1>4 DEF KnownIndex
<1>6. Empty \in Sections
  BY Zenon DEF Empty, Sections
<1>7. /\ Consistent(cap.saved)' <=> Consistent(cap'.saved)
      /\ Consistent(ckpt)' <=> Consistent(ckpt')
  BY Zenon, <1>1 DEF Consistent
<1>8. ASSUME cap' \in Captures, ckpt' \in Sections \cup {None},
             cap'.pc \in {"directory", "usage", "position"} => ~InFlight,
             CheckpointIsSnapshot', cap'.pc = "write" => Consistent(cap'.saved),
             ckpt' # None => Consistent(ckpt')
      PROVE  CInv'
  <2>1. Typed'
    BY Zenon, <1>1, <1>8 DEF CInv, Typed
  <2>2. Turns'
    BY Zenon, <1>1, <1>8 DEF CInv, Turns, InFlight
  <2>3. Stored'
    BY Zenon, <1>7, <1>8 DEF Stored
  <2> QED BY Zenon, <1>2, <1>3, <2>1, <2>2, <2>3 DEF CInv
<1>9. ckpt # None => Consistent(ckpt)
  BY Zenon DEF CInv, Stored
<1>10. Quiesced => ~InFlight
  BY Zenon DEF CInv, Turns, Quiesced
<1>11. CASE RequestQuiesce \/ QuiesceTimeout
  <2>1. cap'.pc \in {"wait", "idle"} /\ cap' \in Captures /\ ckpt' = ckpt
    BY <1>4, <1>6, <1>11 DEF RequestQuiesce, QuiesceTimeout, At, Captures
  <2>2. CheckpointIsSnapshot'
    BY Zenon, <2>1 DEF CheckpointIsSnapshot
  <2> QED BY Zenon, <1>4, <1>6, <1>8, <1>9, <2>1, <2>2
<1>12. CASE CaptureGate
  <2>1. /\ ~InFlight /\ cap' = Saved("directory", "cursors", cursors) /\ ckpt' = ckpt
    BY Zenon, <1>12 DEF CaptureGate
  <2>2. cap'.pc = "directory" /\ cap' \in Captures /\ cap'.saved.cursors = cursors
    BY Zenon, <1>4, <2>1 DEF Saved, Sections, Captures
  <2>3. CheckpointIsSnapshot'
    BY Zenon, <1>1, <2>2 DEF CheckpointIsSnapshot
  <2> QED BY Zenon, <1>4, <1>8, <1>9, <2>1, <2>2, <2>3
<1>13. CASE CaptureDirectory
  <2>1. /\ cap.pc = "directory" /\ ckpt' = ckpt
        /\ cap' = [pc |-> "usage", saved |-> [cap.saved EXCEPT !.directory = directory,
                                                               !.index = KnownIndex]]
    BY Zenon, <1>13 DEF CaptureDirectory
  <2>2. /\ cap'.pc = "usage" /\ cap' \in Captures
        /\ cap'.saved.cursors = cap.saved.cursors
        /\ cap'.saved.directory = directory /\ cap'.saved.index = KnownIndex
    BY Zenon, <1>4, <1>5, <2>1 DEF Sections, Captures
  <2>3. cap.saved.cursors = cursors
    BY Zenon, <2>1 DEF CInv, Stored, CheckpointIsSnapshot
  <2>4. KnownIndex' = KnownIndex
    BY Zenon, <1>1 DEF KnownIndex
  <2>5. CheckpointIsSnapshot'
    BY Zenon, <1>1, <2>2, <2>3, <2>4 DEF CheckpointIsSnapshot
  <2>6. ~InFlight
    BY Zenon, <1>10, <2>1 DEF Quiesced
  <2> QED BY Zenon, <1>4, <1>8, <1>9, <2>1, <2>2, <2>5, <2>6
<1>14. CASE CaptureUsage
  <2>1. cap.pc = "usage" /\ cap' = Saved("position", "usage", usage) /\ ckpt' = ckpt
    BY Zenon, <1>14 DEF CaptureUsage
  <2>2. /\ cap'.pc = "position" /\ cap' \in Captures
        /\ cap'.saved.cursors = cap.saved.cursors /\ cap'.saved.usage = usage
        /\ cap'.saved.directory = cap.saved.directory /\ cap'.saved.index = cap.saved.index
    BY Zenon, <1>4, <2>1 DEF Saved, Sections, Captures
  <2>3. /\ cap.saved.cursors = cursors /\ cap.saved.directory = directory
        /\ cap.saved.index = KnownIndex
    BY Zenon, <2>1 DEF CInv, Stored, CheckpointIsSnapshot
  <2>4. KnownIndex' = KnownIndex
    BY Zenon, <1>1 DEF KnownIndex
  <2>5. CheckpointIsSnapshot'
    BY Zenon, <1>1, <2>2, <2>3, <2>4 DEF CheckpointIsSnapshot
  <2>6. ~InFlight
    BY Zenon, <1>10, <2>1 DEF Quiesced
  <2> QED BY Zenon, <1>4, <1>8, <1>9, <2>1, <2>2, <2>5, <2>6
<1>15. CASE CapturePosition
  <2>1. cap.pc = "position" /\ cap' = Saved("write", "position", position) /\ ckpt' = ckpt
    BY Zenon, <1>15 DEF CapturePosition
  <2>2. /\ cap'.pc = "write" /\ cap' \in Captures
        /\ cap'.saved.cursors = cap.saved.cursors /\ cap'.saved.usage = cap.saved.usage
        /\ cap'.saved.directory = cap.saved.directory /\ cap'.saved.index = cap.saved.index
    BY Zenon, <1>4, <2>1 DEF Saved, Sections, Captures
  <2>3. /\ cap.saved.cursors = cursors /\ cap.saved.directory = directory
        /\ cap.saved.index = KnownIndex /\ cap.saved.usage = usage
    BY Zenon, <2>1 DEF CInv, Stored, CheckpointIsSnapshot
  <2>4. CheckpointIsSnapshot'
    BY Zenon, <2>2 DEF CheckpointIsSnapshot
  <2>5. ~InFlight
    BY Zenon, <1>10, <2>1 DEF Quiesced
  <2>6. Fenceable(cursors, directory, KnownIndex)
    <3>1. Fenceable(cursors, directory, l1Keys)
      BY Zenon DEF CInv, Current
    <3>2. \A p \in directory : p.inst \in Instances
      BY Zenon, <1>4, PlacementTyped
    <3> QED BY Zenon, <3>1, <3>2 DEF Fenceable, KnownIndex
  <2>7. usage = IdsOf(directory)
    BY Zenon, <2>5 DEF CInv, Current, UsageAfter, InFlight
  <2>8. \A i \in Instances : Exact(log[i], cursors[i], KeysOf(directory, i, "l1"))
    BY Zenon, <2>5, CoordinatorAssumptions DEF CInv, Current, InFlight
  <2>9. Consistent(cap'.saved)
    BY Zenon, <2>2, <2>3, <2>6, <2>7, <2>8 DEF Consistent
  <2> QED BY Zenon, <1>4, <1>8, <1>9, <2>1, <2>2, <2>4, <2>9
<1>16. CASE WriteCheckpoint
  <2>1. /\ cap.pc = "write" /\ cap' = [pc |-> "idle", saved |-> Empty]
        /\ ckpt' = cap.saved \/ ckpt' = ckpt
        /\ cap' \in Captures
    BY Zenon, <1>6, <1>16 DEF WriteCheckpoint, Captures
  <2>2. Consistent(cap.saved)
    BY Zenon, <2>1 DEF CInv, Stored
  <2>3. CheckpointIsSnapshot'
    BY Zenon, <2>1 DEF CheckpointIsSnapshot
  <2> QED BY Zenon, <1>4, <1>6, <1>8, <1>9, <2>1, <2>2, <2>3
<1> QED BY Zenon, <1>11, <1>12, <1>13, <1>14, <1>15, <1>16 DEF Checkpoint

\* What nothing was recorded of is consistent.
LEMMA EmptyConsistent == Consistent(Empty) /\ Empty \in Sections
<1>1. Empty \in Sections
  BY Zenon DEF Empty, Sections
<1>2. /\ Empty.directory = {} /\ Empty.usage = {}
      /\ \A i \in Instances : Empty.cursors[i] = None
  BY Zenon DEF Empty
<1>3. Fenceable(Empty.cursors, Empty.directory, Empty.index) /\ Empty.usage = IdsOf(Empty.directory)
  BY Zenon, <1>2 DEF Fenceable, IdsOf
<1>4. \A i \in Instances : Exact(log[i], Empty.cursors[i], KeysOf(Empty.directory, i, "l1"))
  BY Zenon, <1>2 DEF Exact
<1> QED BY Zenon, <1>1, <1>3, <1>4 DEF Consistent

\* A coordinator starts from sections of one moment.
LEMMA RestoreStep ==
    ASSUME CInv, CrashAndRestore
    PROVE  CInv'
<1> DEFINE from == IF ckpt = None THEN Empty ELSE ckpt
<1>1. /\ cursors' = from.cursors /\ directory' = from.directory /\ l1Keys' = from.index
      /\ usage' = from.usage /\ position' = from.position /\ fetched' = from.position
      /\ restored' = Expected(from)
      /\ departed' = [i \in Instances |-> 0]
      /\ feed' = [pc |-> "poll", inst |-> None, fence |-> FALSE]
      /\ registered' = {} /\ drops' = {} /\ dropping' = None
      /\ cap' = [pc |-> "idle", saved |-> Empty]
  BY Zenon DEF CrashAndRestore, ResumeAt
<1>2. srv' = srv /\ log' = log /\ ckpt' = ckpt /\ gone' = gone
  BY Zenon DEF CrashAndRestore, fleet
<1>3. from \in Sections /\ Consistent(from)
  BY Zenon, EmptyConsistent DEF CInv, Typed, Stored
<1>4. /\ from.cursors \in [Instances -> Cursors \cup {None}] /\ from.directory \in SUBSET Placements
      /\ from.index \in [Instances -> SUBSET Keys] /\ from.usage \in SUBSET Ids
      /\ from.position \in [Instances -> Nat]
  BY Zenon, <1>3 DEF Sections
<1>5. Fenceable(from.cursors, from.directory, from.index) /\ from.usage = IdsOf(from.directory)
      /\ \A i \in Instances : Exact(log[i], from.cursors[i], KeysOf(from.directory, i, "l1"))
  BY Zenon, <1>3 DEF Consistent
<1>6. Expected(from) \in SUBSET Instances
  BY Zenon DEF Expected
<1> HIDE DEF from
<1>7. Fleet'
  BY Zenon, <1>2 DEF CInv, Fleet
<1>8. Typed'
  BY Zenon, <1>1, <1>2, <1>4, <1>6, EmptyConsistent DEF CInv, Typed, Captures
<1>9. Turns'
  BY Zenon, <1>1 DEF Turns
<1>10. UsageAfter' = usage'
  BY Zenon, <1>1 DEF UsageAfter
<1>11. Fenceable(cursors, directory, l1Keys)'
  BY Zenon, <1>1, <1>5
<1>12. Current'
  BY Zenon, <1>1, <1>2, <1>5, <1>10, <1>11 DEF Current, Exact
<1>13. Stored'
  <2>1. CheckpointIsSnapshot'
    BY Zenon, <1>1 DEF CheckpointIsSnapshot
  <2>2. (ckpt # None => Consistent(ckpt))'
    BY Zenon, <1>2 DEF CInv, Stored, Consistent
  <2>3. cap'.pc = "idle"
    BY Zenon, <1>1
  <2> QED BY Zenon, <2>1, <2>2, <2>3 DEF Stored
<1> QED BY Zenon, <1>7, <1>8, <1>9, <1>12, <1>13 DEF CInv

----------------------------------------------------------------------------
\* The coordinator as a whole

\* A server that starts first.
LEMMA NewServerTyped ==
    NewServer \in Server0 /\ <<>> \in Seq(Batches) /\ Flushed(NewServer, <<>>)
<1>1. NewServer \in Server0
  <2>1. 0 \in 0 .. MaxSeq /\ 1 \in Incs
    BY CoordinatorAssumptions DEF Incs
  <2> QED BY Zenon, <2>1 DEF NewServer, Server0
<1>2. <<>> \in Seq(Batches)
  OBVIOUS
<1>3. Held(<<>>, 1, 0) = {}
  BY Zenon, <1>2, HeldNone
<1>4. /\ NewServer.inc = 1 /\ NewServer.seq = 0 /\ NewServer.lost = 0 /\ NewServer.l1 = {}
  BY Zenon DEF NewServer
<1>5. Ordered(<<>>)
  BY DEF Ordered
<1> QED BY <1>1, <1>2, <1>3, <1>4, <1>5 DEF Flushed

\* The empty coordinator, before any server has joined.
LEMMA CInvInit == CInit => CInv
<1> SUFFICES ASSUME CInit PROVE CInv
  BY Zenon
<1>1. Fleet
  <2>4. /\ srv = [i \in Instances |-> NewServer] /\ log = [i \in Instances |-> <<>>]
    BY Zenon DEF CInit
  <2> HIDE DEF CInit
  <2> QED BY Zenon, <2>4, NewServerTyped DEF Fleet
<1>2. Typed
  BY Zenon, EmptyConsistent DEF CInit, Typed, Empty, Captures
<1>3. Current
  BY Zenon DEF CInit, Current, Empty, Fenceable, Exact, UsageAfter, IdsOf
<1>4. Turns /\ Stored
  BY Zenon DEF CInit, Turns, Stored, CheckpointIsSnapshot
<1> QED BY Zenon, <1>1, <1>2, <1>3, <1>4 DEF CInv

\* Every step of servers, handlers, loops, checkpoint and restart.
LEMMA CInvStep == CInv /\ [CNext]_cvars => CInv'
<1> SUFFICES ASSUME CInv, [CNext]_cvars PROVE CInv'
  BY Zenon
<1>1. CASE \E i \in Instances : Server(i) \/ Handler(i)
  BY Zenon, <1>1, FleetStep
<1>2. CASE \E i \in Instances : Ingest(i) \/ DropDirectory(i)
  BY Zenon, <1>2, IngestStep, DropDirectoryStep
<1>3. CASE ConsumeUsage \/ RecordPosition \/ HealthPass \/ DropUsage
  BY Zenon, <1>3, UsageStep, RecordStep, HealthStep, DropUsageStep
<1>4. CASE Checkpoint \/ CrashAndRestore
  BY Zenon, <1>4, CheckpointStep, RestoreStep
<1>5. CASE UNCHANGED cvars
  <2>1. /\ srv' = srv /\ log' = log /\ fetched' = fetched /\ feed' = feed /\ position' = position
        /\ cursors' = cursors /\ departed' = departed
        /\ directory' = directory /\ l1Keys' = l1Keys /\ usage' = usage
        /\ registered' = registered /\ restored' = restored /\ drops' = drops
        /\ dropping' = dropping /\ gone' = gone /\ cap' = cap /\ ckpt' = ckpt
    BY Zenon, <1>5 DEF cvars
  <2>2. Fleet' /\ Stored'
    BY Zenon, <2>1, OffIngest DEF fleet, views
  <2>3. Typed' /\ Turns'
    BY Zenon, <2>1 DEF CInv, Typed, Turns, InFlight
  <2>4. UsageAfter' = UsageAfter
    BY Zenon, <2>1 DEF UsageAfter, Batch
  <2>5. Current'
    BY Zenon, <2>1, <2>4 DEF CInv, Current, Fenceable
  <2> QED BY Zenon, <2>2, <2>3, <2>5 DEF CInv
<1> QED BY Zenon, <1>1, <1>2, <1>3, <1>4, <1>5 DEF CNext

\* The inductive invariant.
LEMMA CInvariant == CSpec => []CInv
BY CInvInit, CInvStep, PTL DEF CSpec

\* Whatever is lost, dropped, restored or left, the two consumers agree between
\* two batches and in every checkpoint: usage accounts exactly for the
\* placements of the directory (EventGate's fan-out under its lock, the
\* quiesce of save_checkpoint).
THEOREM ViewsStayInStep == CSpec => []ViewsAgree
<1>1. CInv => ViewsAgree
  <2> SUFFICES ASSUME CInv PROVE ViewsAgree
    BY Zenon
  <2>1. ~InFlight => usage = IdsOf(directory)
    BY Zenon DEF CInv, Current, UsageAfter, InFlight
  <2>2. ckpt # None => ckpt.usage = IdsOf(ckpt.directory)
    BY Zenon DEF CInv, Stored, Consistent
  <2> QED BY Zenon, <2>1, <2>2 DEF ViewsAgree, IdsOf
<1> QED BY <1>1, CInvariant, PTL

\* The sections of a checkpoint are captured one after the other while other
\* threads go on, and still are those of one moment (QuiesceLock: applying()
\* waits for the request, quiesced() for the batch in flight).
THEOREM CheckpointsAreSnapshots == CSpec => []CheckpointIsSnapshot
<1>1. CInv => CheckpointIsSnapshot
  BY Zenon DEF CInv, Stored
<1> QED BY <1>1, CInvariant, PTL

\* The gap flag is complete for every number of servers, keys, incarnations,
\* lost batches, drops and coordinator restarts: a stream that is caught up and
\* not flagged shows exactly the L1 of its server (EventGate._admit).
THEOREM UnflaggedStaysExact == CSpec => []UnflaggedL1IsExact
<1>1. CInv => UnflaggedL1IsExact
  <2> SUFFICES ASSUME CInv, ~InFlight, NEW i \in Instances,
                      srv[i].up, cursors[i] # None, ~cursors[i].gap,
                      cursors[i].inc = srv[i].inc, cursors[i].seq = srv[i].seq
               PROVE  KeysOf(directory, i, "l1") = srv[i].l1
    BY Zenon DEF UnflaggedL1IsExact
  <2>1. dropping # i
    BY Zenon, CoordinatorAssumptions DEF InFlight
  <2>2. Exact(log[i], cursors[i], KeysOf(directory, i, "l1"))
    BY Zenon, <2>1 DEF CInv, Current
  <2>3. Flushed(srv[i], log[i])
    BY Zenon DEF CInv, Fleet
  <2> QED BY Zenon, <2>2, <2>3 DEF Exact, Flushed
<1> QED BY <1>1, CInvariant, PTL

----------------------------------------------------------------------------
\* Late batches

\* While no coordinator restart forgets it, the gate remembers exactly the
\* incarnation dropped last, and a server about to be dropped has a cursor.
Remembered ==
    \A i \in Instances :
        /\ departed[i] = gone[i]
        /\ gone[i] # 0 => L1Of(directory, i) = {}
        /\ i \in drops => cursors[i] # None

Settled ==
    /\ crashes = 0 /\ restored = {} /\ Remembered
    /\ dropping # None => dropping \in drops

\* Nothing but a drop forgets a cursor or remembers an incarnation.
LEMMA RememberedStep ==
    ASSUME MaxCrashes = 0, LeaveUnheard = FALSE, CInv, Settled, [CNext]_cvars
    PROVE  Settled'
<1>0. /\ crashes = 0 /\ restored = {} /\ Remembered /\ (dropping # None => dropping \in drops)
      /\ departed \in [Instances -> Nat] /\ gone \in [Instances -> Nat]
      /\ cursors \in [Instances -> Cursors \cup {None}] /\ drops \in SUBSET Instances
      /\ directory \in SUBSET Placements /\ dropping \in Instances \cup {None}
  BY Zenon DEF Settled, CInv, Typed
<1>1. ASSUME UNCHANGED <<gate, directory, drops, dropping, restored, crashes, gone>> PROVE Settled'
  BY Zenon, <1>0, <1>1 DEF Settled, Remembered, gate
<1>2. ASSUME NEW i \in Instances, Server(i) PROVE Settled'
  BY Zenon, <1>1, <1>2 DEF Server, Emit, Exit, Restart, Forgotten, views, loop, disk
<1>3. ASSUME NEW i \in Instances, Register(i) PROVE Settled'
  <2>1. /\ departed' = [departed EXCEPT ![i] = 0] /\ gone' = [gone EXCEPT ![i] = 0]
        /\ UNCHANGED <<cursors, directory, drops, dropping, restored, crashes>>
    BY Zenon, <1>3 DEF Register, views, disk
  <2> QED BY Zenon, <1>0, <2>1 DEF Settled, Remembered
<1>4. ASSUME NEW i \in Instances, Deregister(i) PROVE Settled'
  <2>1. /\ drops' = {i} /\ cursors[i] # None /\ drops = {}
        /\ UNCHANGED <<gate, directory, dropping, restored, crashes, gone>>
    BY Zenon, <1>4 DEF Deregister, MayGo, views, disk
  <2> QED BY Zenon, <1>0, <2>1 DEF Settled, Remembered, gate
<1>5. ASSUME HealthPass PROVE Settled'
  <2>1. PICK stale \in SUBSET {i \in registered : MayGo(i)}, overdue \in BOOLEAN :
          /\ drops' = stale \cup (IF overdue THEN Unreturned(registered \ stale) ELSE {})
          /\ restored' = IF overdue THEN {} ELSE restored
    BY Zenon, <1>5 DEF HealthPass
  <2>2. drops = {} /\ UNCHANGED <<gate, directory, dropping, crashes, gone>>
    BY Zenon, <1>5 DEF HealthPass, views, disk
  <2>3. restored' = {} /\ drops' = stale
    BY Zenon, <1>0, <2>1 DEF Unreturned
  <2>4. \A i \in drops' : cursors[i] # None
    BY Zenon, <2>1, <2>3 DEF MayGo
  <2> QED BY Zenon, <1>0, <2>2, <2>3, <2>4 DEF Settled, Remembered, gate
<1>6. ASSUME NEW i \in Instances, Ingest(i) PROVE Settled'
  <2> DEFINE b == log[i][fetched[i] + 1]
             c == cursors[i]
             dep == IF b.inc > departed[i] THEN 0 ELSE departed[i]
             restart == Restarted(c, b)
             base == IF restart THEN Fenced(directory, i) ELSE directory
  <2>1. /\ fetched[i] < Len(log[i]) /\ departed' = [departed EXCEPT ![i] = dep]
        /\ gone' = IF b.inc > gone[i] THEN [gone EXCEPT ![i] = 0] ELSE gone
        /\ \/ UNCHANGED <<cursors, directory>>
           \/ /\ ~Refused(dep, b) /\ ~Stale(c, b)
              /\ cursors' = [cursors EXCEPT ![i] = Advanced(c, b)]
              /\ directory' = Applied(base, i, b)
        /\ UNCHANGED <<drops, dropping, restored, crashes>>
    BY Zenon, <1>6 DEF Ingest, loop, disk
  <2>2. b \in Batches
    BY Zenon, <2>1, LogTyped
  <2>3. b.inc \in Nat /\ b.tier \in Tiers
    BY Zenon, <2>2, BatchTyped
  <2>4. departed[i] = gone[i] /\ departed[i] \in Nat
    BY Zenon, <1>0 DEF Remembered
  <2>5. /\ departed'[i] = dep /\ gone'[i] = dep
        /\ \A j \in Instances : j # i => departed'[j] = departed[j] /\ gone'[j] = gone[j]
    <3> HIDE DEF b
    <3> QED BY Zenon, <1>0, <2>1, <2>3, <2>4
  <2>6. CASE UNCHANGED <<cursors, directory>>
    <3>1. dep # 0 => gone[i] # 0
      BY Zenon, <2>4
    <3> HIDE DEF dep, b, c
    <3> QED BY Zenon, <1>0, <2>1, <2>5, <2>6, <3>1 DEF Settled, Remembered
  <2>7. CASE /\ ~Refused(dep, b) /\ ~Stale(c, b)
             /\ cursors' = [cursors EXCEPT ![i] = Advanced(c, b)]
             /\ directory' = Applied(base, i, b)
    <3>1. Advanced(c, b) # None
      <4>1. c \in Cursors \cup {None}
        BY Zenon, <1>0
      <4> HIDE DEF b, c
      <4> QED BY Zenon, <2>2, <2>7, <4>1, AdvancedFacts
    <3>2. base \subseteq directory
      BY Zenon DEF Fenced
    <3>3. \A p \in directory' :
             \/ p \in directory
             \/ p.inst = i /\ p.tier = b.tier
      <4>1. Applied(base, i, b)
              \subseteq base \cup {[inst |-> i, inc |-> b.inc, tier |-> b.tier, key |-> b.key]}
        BY Zenon DEF Applied
      <4> HIDE DEF base, b, c, dep
      <4> QED BY <2>7, <3>2, <4>1
    <3>4. dep # 0 => gone[i] # 0 /\ b.tier # "l1"
      <4>1. dep # 0 => dep = departed[i] /\ ~(b.inc > departed[i])
        BY Zenon
      <4>2. ~(dep # 0 /\ b.inc <= dep /\ b.tier = "l1")
        BY Zenon, <2>7 DEF Refused
      <4> HIDE DEF b, c, base, dep
      <4> QED BY <2>3, <2>4, <4>1, <4>2
    <3> HIDE DEF dep, b, c, base
    <3>5. ASSUME NEW j \in Instances, gone'[j] # 0 PROVE L1Of(directory', j) = {}
      <4>1. L1Of(directory, j) = {}
        BY Zenon, <1>0, <2>5, <3>4, <3>5 DEF Remembered
      <4> QED BY Zenon, <2>5, <3>3, <3>4, <3>5, <4>1 DEF L1Of
    <3>6. \A j \in Instances : cursors[j] # None => cursors'[j] # None
      BY Zenon, <1>0, <2>7, <3>1
    <3> QED BY Zenon, <1>0, <2>1, <2>5, <3>5, <3>6 DEF Settled, Remembered
  <2> HIDE DEF dep, b, c, base
  <2> QED BY Zenon, <2>1, <2>6, <2>7
<1>7. ASSUME NEW i \in Instances, DropDirectory(i) PROVE Settled'
  <2>1. /\ directory' \subseteq directory /\ UNCHANGED <<gate, drops, restored, crashes, gone>>
        /\ dropping' = i /\ i \in drops
    BY Zenon, <1>7 DEF DropDirectory, Fenced, disk
  <2> QED BY Zenon, <1>0, <2>1 DEF Settled, Remembered, L1Of, gate
<1>8. ASSUME ConsumeUsage \/ RecordPosition PROVE Settled'
  BY Zenon, <1>1, <1>8 DEF ConsumeUsage, RecordPosition, views, loop, disk
<1>9. ASSUME DropUsage PROVE Settled'
  <2>1. dropping \in Instances /\ L1Of(directory, dropping) = {}
    BY Zenon, <1>0, <1>9 DEF DropUsage, CInv, Current
  <2>2. PICK i \in Instances : i = dropping
    BY Zenon, <2>1
  <2>3. /\ cursors' = [cursors EXCEPT ![i] = None]
        /\ departed' = IF cursors[i] = None THEN departed
                       ELSE [departed EXCEPT ![i] = cursors[i].inc]
        /\ gone' = [gone EXCEPT ![i] = IF cursors[i] = None THEN srv[i].inc ELSE cursors[i].inc]
        /\ drops' = drops \ {i} /\ dropping' = None
        /\ UNCHANGED <<directory, restored, crashes>>
    BY Zenon, <1>9, <2>2 DEF DropUsage, disk
  <2>4. cursors[i] # None
    BY Zenon, <1>0, <1>9, <2>2 DEF Remembered, DropUsage
  <2> QED BY Zenon, <1>0, <2>1, <2>2, <2>3, <2>4 DEF Settled, Remembered
<1>10. ASSUME Checkpoint PROVE Settled'
  BY Zenon, <1>1, <1>10 DEF Checkpoint, RequestQuiesce, QuiesceTimeout, CaptureGate, CaptureDirectory,
         CaptureUsage, CapturePosition, WriteCheckpoint, views, loop
<1>11. ~CrashAndRestore
  <2>1. CrashAndRestore => crashes < MaxCrashes
    BY Zenon DEF CrashAndRestore
  <2> QED BY <1>0, <2>1
<1>12. ASSUME UNCHANGED cvars PROVE Settled'
  BY Zenon, <1>1, <1>12 DEF cvars, gate
<1> QED BY Zenon, <1>2, <1>3, <1>4, <1>5, <1>6, <1>7, <1>8, <1>9, <1>10, <1>11, <1>12 DEF CNext, Handler

\* While the coordinator lives and no server leaves before it was heard of,
\* every L1 placement can be fenced, and none is of an incarnation that was
\* dropped (EventGate.drop_instance, KeyDirectory.fence_instance).
THEOREM PlacementsStayFenceable ==
    ASSUME MaxCrashes = 0, LeaveUnheard = FALSE
    PROVE  CSpec => []PlacementIsFenceable
<1>1. CInit => Settled
  BY Zenon DEF CInit, Settled, Remembered
<1>2. CInv /\ Settled /\ [CNext]_cvars => Settled'
  BY Zenon, RememberedStep
<1>3. CInv /\ Settled => PlacementIsFenceable
  <2> SUFFICES ASSUME CInv, Settled PROVE PlacementIsFenceable
    BY Zenon
  <2>1. ASSUME ~InFlight, NEW p \in directory, p.tier = "l1" PROVE p.inc > gone[p.inst]
    <3>1. p.inst \in Instances /\ p.inc \in Nat /\ p.inc > 0
      BY Zenon, PlacementTyped DEF CInv, Typed
    <3>2. gone[p.inst] = 0
      BY Zenon, <2>1, <3>1 DEF Settled, Remembered, L1Of
    <3> QED BY Zenon, <3>1, <3>2
  <2> QED BY Zenon, <2>1 DEF PlacementIsFenceable, LateBatchIsRefused, CInv, Current, Fenceable
<1> QED BY <1>1, <1>2, <1>3, CInvariant, PTL DEF CSpec

\* A placement is traceable if a cursor of its incarnation and the reverse index
\* lead to it.
Traceable ==
    ~InFlight => Fenceable(cursors, directory, l1Keys)

\* The first half of PlacementIsFenceable needs no such assumption: it survives
\* coordinator restarts and servers that leave unheard (EventGate._admit,
\* KeyDirectory._apply_entry and restore).
THEOREM PlacementsStayTraceable == CSpec => []Traceable
<1>1. CInv => Traceable
  BY Zenon DEF CInv, Current, Traceable
<1> QED BY <1>1, CInvariant, PTL
=============================================================================
