---------------------------- MODULE RawBlockProofs ----------------------------
(***************************************************************************)
(* The raw-block back end, proved for every set of keys, every capacity,   *)
(* both I/O engines and any number of crashes and failures: slot           *)
(* accounting, what the slots hold, what a locked load reads, what the     *)
(* metadata containers hold, and when the next checkpoint is written.      *)
(***************************************************************************)
EXTENDS RawBlock, TLAPS, FiniteSetTheorems

Snap == [at : [Keys -> Slots \cup {None}], next : Int]
Container == [seq : Nat, crc : Snap, pay : Snap, mark : Nat]

\* A snapshot from which a process can start: distinct slots below its next.
Sound(snap) ==
    /\ snap \in Snap /\ snap.next \in 0 .. MaxSlots
    /\ \A k \in Keys : snap.at[k] # None => snap.at[k] < snap.next
    /\ \A j, k \in Keys : snap.at[j] # None /\ snap.at[j] = snap.at[k] => j = k

TypeOK ==
    /\ at \in [Keys -> Slots \cup {None}]
    /\ inflight \in [Keys -> Flight \cup {None}]
    /\ free \in SUBSET Slots /\ next \in 0 .. MaxSlots
    /\ dirty \in Nat /\ seq \in Nat
    /\ meta \in [0 .. 1 -> Container]

\* The keys of a batch are in flight together, and none of them is stored.
BatchesAgree ==
    \A k \in Keys : inflight[k] # None =>
        /\ k \in inflight[k].batch /\ at[k] = None
        /\ \A j \in inflight[k].batch :
             inflight[j] # None /\ inflight[j].batch = inflight[k].batch

\* The three owners of a slot exclude each other, key by key and slot by slot.
Exclusive ==
    /\ \A j, k \in Keys : at[j] # None /\ at[j] = at[k] => j = k
    /\ \A j, k \in Keys :
          inflight[j] # None /\ inflight[k] # None /\ inflight[j].slot = inflight[k].slot
            => j = k
    /\ \A j, k \in Keys : at[j] # None /\ inflight[k] # None => at[j] # inflight[k].slot
    /\ \A k \in Keys : at[k] # None => at[k] \notin free
    /\ \A k \in Keys : inflight[k] # None => inflight[k].slot \notin free

\* Every slot below next has an owner, and no other slot has.
Covered ==
    \A s \in Slots :
        s < next <=> \/ s \in free
                     \/ \E k \in Keys : at[k] = s
                     \/ \E k \in Keys : inflight[k] # None /\ inflight[k].slot = s

\* What a restart can find: a header is written for a sound snapshot.
Recoverable ==
    /\ \A i \in 0 .. 1 : meta[i].seq > 0 => Sound(meta[i].crc)
    /\ ckpt.pc = "write" => Sound(ckpt.snap) /\ ckpt.mark \in Nat

Inv == TypeOK /\ BatchesAgree /\ Exclusive /\ Covered /\ Recoverable

\* An empty device satisfies the invariant.
LEMMA InvInit == Init => Inv
<1> SUFFICES ASSUME Init PROVE Inv
  BY Zenon
<1> USE RawBlockAssumption DEF Init
<1>1. TornSnapshot \in Snap
  BY DEF TornSnapshot, Snap
<1>2. Blank \in Container /\ Blank.seq = 0
  BY Zenon, <1>1 DEF Blank, Container
<1>3. TypeOK
  BY <1>2 DEF TypeOK
<1>4. BatchesAgree /\ Exclusive
  BY Zenon DEF BatchesAgree, Exclusive
<1>5. Covered
  BY DEF Covered, Slots
<1>6. Recoverable
  BY <1>2 DEF Recoverable, NoCkpt
<1> QED BY Zenon, <1>3, <1>4, <1>5, <1>6 DEF Inv

\* A flight is a record of its four fields.
LEMMA FlightTyped ==
    ASSUME TypeOK, NEW k \in Keys, inflight[k] # None
    PROVE  /\ inflight[k] \in Flight
           /\ inflight[k].slot \in Slots /\ inflight[k].batch \subseteq Keys
BY Zenon DEF TypeOK, Flight

\* A snapshot taken now is sound.
LEMMA SnapshotIsSound ==
    ASSUME Inv PROVE Sound(Snapshot)
<1> USE RawBlockAssumption DEF Inv
<1>1. Snapshot \in Snap /\ Snapshot.at = at /\ Snapshot.next = next
  BY DEF Snapshot, Snap, TypeOK
<1>2. next \in 0 .. MaxSlots
  BY Zenon DEF TypeOK
<1>3. \A k \in Keys : at[k] # None => at[k] < next
  BY Zenon DEF TypeOK, Covered
<1>4. \A j, k \in Keys : at[j] # None /\ at[j] = at[k] => j = k
  BY Zenon DEF Exclusive
<1> QED BY Zenon, <1>1, <1>2, <1>3, <1>4 DEF Sound

----------------------------------------------------------------------------
\* Stores

\* put_many reserves a slot per key: from the free list, or above _next_slot.
LEMMA ReserveStep ==
    ASSUME Inv, NEW K \in Batches, Reserve(K) PROVE Inv'
<1> USE RawBlockAssumption DEF Inv
<1> DEFINE new == {k \in K : at[k] = None /\ inflight[k] = None}
           m == Min({Cardinality(new), Cardinality(free) + MaxSlots - next})
<1> DEFINE Step(A, S, f) ==
             /\ inflight' = [k \in Keys |->
                   IF k \in A THEN [slot |-> f[k], batch |-> A, writing |-> FALSE,
                                    canceled |-> FALSE]
                   ELSE inflight[k]]
             /\ free' = free \ S
             /\ next' = next + Cardinality(S \ free)
<1>0. PICK A \in SUBSET new, S \in Allocations(m) : \E f \in Bijection(A, S) : Step(A, S, f)
  BY Zenon DEF Reserve
<1>1. PICK f \in Bijection(A, S) : Step(A, S, f)
  BY Zenon, <1>0
<1>2. /\ at' = at /\ dirty' = dirty /\ seq' = seq /\ meta' = meta /\ ckpt' = ckpt
  BY Zenon DEF Reserve, mvars, dvars
<1>3. A \subseteq Keys /\ \A k \in A : at[k] = None /\ inflight[k] = None
  BY Zenon DEF Batches
<1> DEFINE n == Cardinality(S \ free)
<1>4. S \subseteq Slots /\ S \ free = next .. next + n - 1
  BY Zenon DEF Allocations
<1>5. /\ \A k \in A : f[k] \in S
      /\ \A j, k \in A : f[j] = f[k] => j = k
      /\ \A s \in S : \E k \in A : f[k] = s
  BY DEF Bijection, Injection, Surjection, IsInjective
<1>6. next \in 0 .. MaxSlots /\ n \in Nat
  <2>1. IsFiniteSet(Slots)
    BY FS_Interval DEF Slots
  <2>2. IsFiniteSet(S \ free)
    BY Zenon, <2>1, <1>4, FS_Subset
  <2> QED BY Zenon, <2>2, FS_CardinalityType DEF TypeOK
<1>9. /\ \A k \in A : inflight'[k] = [slot |-> f[k], batch |-> A, writing |-> FALSE,
                                      canceled |-> FALSE]
      /\ \A k \in Keys \ A : inflight'[k] = inflight[k]
      /\ inflight' = [k \in Keys |-> inflight'[k]]
      /\ free' = free \ S
      /\ next' = next + n
  BY Zenon, <1>1, <1>3
<1> HIDE DEF new, m, n, Step
<1>7. \A s \in Slots : s \in S /\ s \notin free <=> next <= s /\ s < next'
  <2> TAKE s \in Slots
  <2>1. s \in S \ free <=> s \in next .. next + n - 1
    BY Zenon, <1>4
  <2> QED BY <2>1, <1>6, <1>9 DEF Slots
<1>8. next' \in 0 .. MaxSlots /\ next <= next'
  <2>1. CASE n = 0
    BY <2>1, <1>9, <1>6
  <2>2. CASE n > 0
    <3>1. next + n - 1 \in next .. next + n - 1
      BY <2>2, <1>6
    <3>2. next + n - 1 \in Slots
      BY Zenon, <3>1, <1>4
    <3> QED BY <3>2, <1>9, <1>6 DEF Slots
  <2> QED BY <2>1, <2>2, <1>6
<1>91. \A k \in A : /\ inflight'[k] \in Flight /\ inflight'[k] # None
                    /\ inflight'[k].slot = f[k] /\ inflight'[k].batch = A
  <2> TAKE k \in A
  <2>1. f[k] \in Slots /\ A \in SUBSET Keys
    BY Zenon, <1>3, <1>4, <1>5
  <2>2. [slot |-> f[k], batch |-> A, writing |-> FALSE, canceled |-> FALSE] \in Flight
    BY Zenon, <2>1 DEF Flight
  <2> QED BY <2>2, <1>9
<1>10. \A k \in Keys : /\ at[k] # None => at[k] \notin S
                       /\ inflight[k] # None => inflight[k].slot \notin S
  <2> SUFFICES ASSUME NEW k \in Keys
               PROVE  /\ at[k] # None => at[k] \notin S
                      /\ inflight[k] # None => inflight[k].slot \notin S
    BY Zenon
  <2>1. ASSUME at[k] # None PROVE at[k] \notin S
    <3>1. at[k] \in Slots /\ at[k] < next /\ at[k] \notin free
      BY <2>1 DEF TypeOK, Covered, Exclusive
    <3> QED BY <3>1, <1>7, <1>6 DEF Slots
  <2>2. ASSUME inflight[k] # None PROVE inflight[k].slot \notin S
    <3>1. inflight[k].slot \in Slots /\ inflight[k].slot < next /\ inflight[k].slot \notin free
      BY Zenon, <2>2, FlightTyped DEF Covered, Exclusive
    <3> QED BY <3>1, <1>7, <1>6 DEF Slots
  <2> QED BY Zenon, <2>1, <2>2
<1>11. TypeOK'
  BY Zenon, <1>2, <1>8, <1>9, <1>91 DEF TypeOK
<1>12. BatchesAgree'
  BY <1>2, <1>3, <1>9, <1>91, FlightTyped DEF BatchesAgree
<1>13. Exclusive'
  <2>1. \A j, k \in Keys :
           inflight'[j] # None /\ inflight'[k] # None /\ inflight'[j].slot = inflight'[k].slot
             => j = k
    BY <1>5, <1>9, <1>91, <1>10 DEF Exclusive
  <2>2. \A j, k \in Keys : at[j] # None /\ inflight'[k] # None => at[j] # inflight'[k].slot
    BY <1>5, <1>9, <1>91, <1>10 DEF Exclusive
  <2>3. \A k \in Keys : inflight'[k] # None => inflight'[k].slot \notin free \ S
    BY Zenon, <1>5, <1>9, <1>91 DEF Exclusive
  <2> QED BY <2>1, <2>2, <2>3, <1>9, <1>2 DEF Exclusive
<1>14. Covered'
  <2> SUFFICES ASSUME NEW s \in Slots
               PROVE  s < next' <=> \/ s \in free \ S
                                    \/ \E k \in Keys : at[k] = s
                                    \/ \E k \in Keys : inflight'[k] # None /\ inflight'[k].slot = s
    BY Zenon, <1>9, <1>2 DEF Covered
  <2>1. CASE s \in S
    <3>1. \E k \in Keys : inflight'[k] # None /\ inflight'[k].slot = s
      BY <2>1, <1>3, <1>5, <1>9, <1>91
    <3>2. s < next'
      BY <2>1, <1>7, <1>8, <1>6 DEF Covered, Slots
    <3> QED BY Zenon, <3>1, <3>2
  <2>2. CASE s \notin S
    <3>1. s < next' <=> s < next
      BY <2>2, <1>7, <1>8, <1>6 DEF Slots
    <3>2. \A k \in Keys : inflight'[k] # None /\ inflight'[k].slot = s
                           <=> inflight[k] # None /\ inflight[k].slot = s
      BY <2>2, <1>3, <1>5, <1>9, <1>91
    <3> QED BY Zenon, <3>1, <3>2, <2>2 DEF Covered
  <2> QED BY Zenon, <2>1, <2>2
<1>15. Recoverable'
  BY Zenon, <1>2 DEF Recoverable
<1> QED BY Zenon, <1>11, <1>12, <1>13, <1>14, <1>15

\* A batch is the same set seen from each of its keys.
LEMMA BatchTyped ==
    ASSUME Inv, NEW k \in Keys, inflight[k] # None
    PROVE  /\ k \in inflight[k].batch /\ inflight[k].batch \subseteq Keys
           /\ \A j \in inflight[k].batch :
                 /\ inflight[j] # None /\ inflight[j].batch = inflight[k].batch
                 /\ inflight[j].slot \in Slots /\ at[j] = None
           /\ \A j \in Keys : inflight[j] # None /\ j \notin inflight[k].batch =>
                 inflight[j].batch \cap inflight[k].batch = {}
<1> USE DEF Inv
<1>1. k \in inflight[k].batch /\ inflight[k].batch \subseteq Keys
  BY Zenon, FlightTyped DEF BatchesAgree
<1>2. \A j \in inflight[k].batch :
         /\ inflight[j] # None /\ inflight[j].batch = inflight[k].batch
         /\ inflight[j].slot \in Slots /\ at[j] = None
  BY Zenon, <1>1, FlightTyped DEF BatchesAgree
<1>3. \A j \in Keys : inflight[j] # None /\ j \notin inflight[k].batch =>
         inflight[j].batch \cap inflight[k].batch = {}
  BY <1>1, FlightTyped DEF BatchesAgree
<1> QED BY Zenon, <1>1, <1>2, <1>3

\* A flight keeps its slot when its batch shrinks.
LEMMA RebatchedTyped ==
    ASSUME NEW x \in Flight, NEW C \in SUBSET Keys
    PROVE  /\ [x EXCEPT !.batch = C] \in Flight
           /\ [x EXCEPT !.batch = C].slot = x.slot
           /\ [x EXCEPT !.batch = C].batch = C
BY Zenon DEF Flight

\* A key whose preparation failed leaves its batch and gives its slot back.
LEMMA PrepareFailsStep ==
    ASSUME Inv, NEW k \in Keys, PrepareFails(k) PROVE Inv'
<1> USE RawBlockAssumption DEF Inv
<1> DEFINE B == inflight[k].batch
<1>1. /\ inflight[k] # None
      /\ free' = free \cup {inflight[k].slot}
      /\ inflight' = [j \in Keys |->
            IF j = k THEN None
            ELSE IF j \in B /\ inflight[j] # None
            THEN [inflight[j] EXCEPT !.batch = @ \ {k}]
            ELSE inflight[j]]
      /\ dirty' = dirty + 1
      /\ at' = at /\ next' = next /\ seq' = seq /\ meta' = meta /\ ckpt' = ckpt
  BY Zenon DEF PrepareFails, dvars
<1>2. /\ k \in B /\ B \subseteq Keys
      /\ \A j \in B : inflight[j] # None /\ inflight[j].batch = B
      /\ \A j \in Keys : inflight[j] # None /\ j \notin B => inflight[j].batch \cap B = {}
  BY Zenon, <1>1, BatchTyped
<1>3. inflight[k].slot \in Slots
  BY Zenon, <1>1, FlightTyped
<1>4. /\ inflight'[k] = None
      /\ \A j \in B \ {k} : /\ inflight'[j] \in Flight /\ inflight'[j] # None
                             /\ inflight'[j].slot = inflight[j].slot
                             /\ inflight'[j].batch = B \ {k}
      /\ \A j \in Keys \ B : inflight'[j] = inflight[j]
  <2>1. \A j \in B \ {k} : inflight'[j] = [inflight[j] EXCEPT !.batch = B \ {k}]
    BY Zenon, <1>1, <1>2
  <2>2. \A j \in B \ {k} : inflight[j] \in Flight
    BY Zenon, <1>2, FlightTyped
  <2>3. \A j \in B \ {k} : /\ inflight'[j] \in Flight
                            /\ inflight'[j].slot = inflight[j].slot
                            /\ inflight'[j].batch = B \ {k}
    <3>1. B \ {k} \in SUBSET Keys
      BY Zenon, <1>2
    <3> HIDE DEF B
    <3> TAKE j \in B \ {k}
    <3> DEFINE x == inflight[j]
    <3>2. x \in Flight /\ inflight'[j] = [x EXCEPT !.batch = B \ {k}]
      BY Zenon, <2>1, <2>2
    <3> HIDE DEF x
    <3>3. /\ [x EXCEPT !.batch = B \ {k}] \in Flight
          /\ [x EXCEPT !.batch = B \ {k}].slot = x.slot
          /\ [x EXCEPT !.batch = B \ {k}].batch = B \ {k}
      BY Zenon, <3>1, <3>2, RebatchedTyped
    <3> QED BY Zenon, <3>2, <3>3 DEF x
  <2> QED BY Zenon, <2>3, <1>1, <1>2
<1> HIDE DEF B
<1>5. \A j \in Keys : /\ inflight'[j] # None <=> inflight[j] # None /\ j # k
                      /\ inflight'[j] # None => inflight'[j].slot = inflight[j].slot
  BY Zenon, <1>4, <1>2
<1>6. TypeOK'
  <2>1. \A j \in Keys : inflight'[j] \in Flight \cup {None}
    BY Zenon, <1>4, <1>2 DEF TypeOK
  <2> QED BY <2>1, <1>1, <1>3 DEF TypeOK
<1>7. BatchesAgree'
  <2> SUFFICES ASSUME NEW j \in Keys, inflight'[j] # None
               PROVE  /\ j \in inflight'[j].batch /\ at[j] = None
                      /\ \A i \in inflight'[j].batch :
                           inflight'[i] # None /\ inflight'[i].batch = inflight'[j].batch
    BY Zenon, <1>1 DEF BatchesAgree
  <2>1. CASE j \in B
    <3>1. j \in B \ {k} /\ inflight'[j].batch = B \ {k}
      BY Zenon, <2>1, <1>4
    <3>2. at[j] = None
      BY Zenon, <2>1, <1>2 DEF BatchesAgree
    <3> QED BY Zenon, <3>1, <3>2, <1>4
  <2>2. CASE j \notin B
    <3>1. /\ inflight'[j] = inflight[j] /\ inflight[j] # None
          /\ inflight[j].batch \cap B = {} /\ inflight[j].batch \subseteq Keys
      BY Zenon, <2>2, <1>2, <1>4, FlightTyped
    <3>2. \A i \in inflight[j].batch : inflight'[i] = inflight[i]
      BY Zenon, <3>1, <1>4
    <3> QED BY <3>1, <3>2 DEF BatchesAgree
  <2> QED BY Zenon, <2>1, <2>2
<1>8. Exclusive'
  BY <1>1, <1>5 DEF Exclusive
<1>9. Covered'
  BY <1>1, <1>3, <1>5 DEF Covered
<1>10. Recoverable'
  BY Zenon, <1>1 DEF Recoverable
<1> QED BY Zenon, <1>6, <1>7, <1>8, <1>9, <1>10

\* A submitted batch keeps its slots.
LEMMA SubmitStep ==
    ASSUME Inv, NEW k \in Keys, Submit(k) PROVE Inv'
<1> USE RawBlockAssumption DEF Inv
<1> DEFINE B == inflight[k].batch
<1>1. /\ inflight[k] # None
      /\ inflight' = [j \in Keys |-> IF j \in B THEN [inflight[j] EXCEPT !.writing = TRUE]
                                     ELSE inflight[j]]
      /\ at' = at /\ free' = free /\ next' = next
      /\ dirty' = dirty /\ seq' = seq /\ meta' = meta /\ ckpt' = ckpt
  BY Zenon DEF Submit, dvars, mvars
<1>2. B \subseteq Keys /\ \A j \in B : inflight[j] # None /\ inflight[j] \in Flight
  BY Zenon, <1>1, BatchTyped, FlightTyped
<1>3. \A j \in B : /\ inflight'[j] \in Flight
                   /\ inflight'[j].slot = inflight[j].slot
                   /\ inflight'[j].batch = inflight[j].batch
  BY Zenon, <1>1, <1>2 DEF Flight
<1>4. \A j \in Keys \ B : inflight'[j] = inflight[j]
  BY Zenon, <1>1
<1> HIDE DEF B
<1>5. \A j \in Keys : /\ inflight'[j] \in Flight \cup {None}
                      /\ inflight'[j] # None <=> inflight[j] # None
                      /\ inflight'[j] # None => /\ inflight'[j].slot = inflight[j].slot
                                                /\ inflight'[j].batch = inflight[j].batch
  BY <1>2, <1>3, <1>4 DEF TypeOK
<1>6. TypeOK'
  BY Zenon, <1>1, <1>5 DEF TypeOK
<1>7. BatchesAgree'
  BY <1>1, <1>5, FlightTyped DEF BatchesAgree
<1>8. Exclusive'
  BY <1>1, <1>5 DEF Exclusive
<1>9. Covered'
  BY <1>1, <1>5 DEF Covered
<1>10. Recoverable'
  BY Zenon, <1>1 DEF Recoverable
<1> QED BY Zenon, <1>6, <1>7, <1>8, <1>9, <1>10

\* The end of a write, however it ended: of the keys of the batch, those in kept
\* are stored and the slots of the others are free.
Ended(B, kept) ==
    /\ at' = [j \in Keys |-> IF j \in kept THEN inflight[j].slot ELSE at[j]]
    /\ free' = free \cup {inflight[j].slot : j \in B \ kept}
    /\ inflight' = [j \in Keys |-> IF j \in B THEN None ELSE inflight[j]]
    /\ dirty' = dirty + Cardinality(B)
    /\ UNCHANGED <<next, seq, meta, ckpt>>

\* The end of a batch: its slots go to the index for the keys kept, to the free
\* list for the others.
LEMMA BatchEnds ==
    ASSUME Inv, NEW k \in Keys, inflight[k] # None,
           NEW kept \in SUBSET inflight[k].batch, Ended(inflight[k].batch, kept)
    PROVE  Inv'
<1> USE RawBlockAssumption DEF Inv
<1> DEFINE B == inflight[k].batch
<1>1. /\ B \subseteq Keys /\ kept \subseteq B
      /\ \A j \in B : inflight[j] # None /\ inflight[j].slot \in Slots /\ at[j] = None
      /\ \A j \in Keys : inflight[j] # None /\ j \notin B => inflight[j].batch \cap B = {}
  BY Zenon, BatchTyped
<1>2. Cardinality(B) \in Nat
  BY Zenon, <1>1, FS_Subset, FS_CardinalityType
<1>3. /\ \A j \in Keys : /\ j \in kept => at'[j] = inflight[j].slot
                         /\ j \notin kept => at'[j] = at[j]
                         /\ j \in B => inflight'[j] = None
                         /\ j \notin B => inflight'[j] = inflight[j]
      /\ free' = free \cup {inflight[j].slot : j \in B \ kept}
  BY Zenon, <1>1 DEF Ended
<1>4. /\ dirty' = dirty + Cardinality(B)
      /\ next' = next /\ seq' = seq /\ meta' = meta /\ ckpt' = ckpt
  BY Zenon DEF Ended
<1> HIDE DEF B
<1>5. ASSUME NEW j \in Keys
      PROVE  /\ inflight'[j] # None <=> j \notin B /\ inflight[j] # None
             /\ inflight'[j] # None => inflight'[j] = inflight[j] /\ at'[j] = at[j]
  <2>1. CASE j \in B
    BY <2>1, <1>3, Zenon
  <2>2. CASE j \notin B
    BY <2>2, <1>1, <1>3, Zenon
  <2> QED BY <2>1, <2>2, Zenon
<1>6. TypeOK'
  <2>1. \A j \in Keys : at'[j] \in Slots \cup {None} /\ inflight'[j] \in Flight \cup {None}
    BY Zenon, <1>1, <1>3 DEF TypeOK
  <2>2. free' \subseteq Slots
    BY <1>1, <1>3 DEF TypeOK
  <2>3. at' \in [Keys -> Slots \cup {None}] /\ inflight' \in [Keys -> Flight \cup {None}]
    BY Zenon, <2>1 DEF Ended
  <2> QED BY <2>2, <2>3, <1>2, <1>4 DEF TypeOK
<1>7. BatchesAgree'
  <2> SUFFICES ASSUME NEW j \in Keys, inflight'[j] # None
               PROVE  /\ j \in inflight'[j].batch /\ at'[j] = None
                      /\ \A i \in inflight'[j].batch :
                           inflight'[i] # None /\ inflight'[i].batch = inflight'[j].batch
    BY Zenon DEF BatchesAgree
  <2>1. j \notin B /\ inflight'[j] = inflight[j] /\ at'[j] = at[j]
    BY <1>1, <1>3, <1>5, Zenon
  <2>2. inflight[j].batch \subseteq Keys /\ inflight[j].batch \cap B = {}
    BY Zenon, <2>1, <1>1, FlightTyped
  <2>3. ASSUME NEW i \in inflight[j].batch PROVE inflight'[i] = inflight[i]
    <3>1. i \in Keys /\ i \notin B
      BY <2>2, Zenon
    <3> QED BY <3>1, <1>3, Zenon
  <2> QED BY <2>1, <2>2, <2>3 DEF BatchesAgree
<1>8. Exclusive'
  <2> DEFINE Old(j) == at[j] # None /\ at'[j] = at[j]
             New(j) == j \in B /\ inflight[j] # None /\ at'[j] = inflight[j].slot
  <2>0. ASSUME NEW j \in Keys, at'[j] # None PROVE Old(j) \/ New(j)
    BY Zenon, <2>0, <1>1, <1>3
  <2>1. ASSUME NEW i \in Keys, NEW j \in Keys, at'[i] # None, at'[i] = at'[j] PROVE i = j
    <3>1. (Old(i) \/ New(i)) /\ (Old(j) \/ New(j))
      BY Zenon, <2>0, <2>1
    <3> QED BY Zenon, <3>1, <2>1 DEF Exclusive
  <2>2. ASSUME NEW i \in Keys, NEW j \in Keys, inflight'[i] # None, inflight'[j] # None,
               inflight'[i].slot = inflight'[j].slot
        PROVE  i = j
    <3>1. /\ inflight[i] # None /\ inflight[j] # None
          /\ inflight'[i] = inflight[i] /\ inflight'[j] = inflight[j]
      BY <2>2, <1>5, Zenon
    <3> QED BY Zenon, <3>1, <2>2 DEF Exclusive
  <2>3. ASSUME NEW i \in Keys, NEW j \in Keys, at'[i] # None, inflight'[j] # None
        PROVE  at'[i] # inflight'[j].slot
    <3>1. inflight[j] # None /\ inflight'[j] = inflight[j] /\ j \notin B
      BY <2>3, <1>5, Zenon
    <3>2. Old(i) \/ New(i)
      BY Zenon, <2>0, <2>3
    <3> QED BY Zenon, <3>1, <3>2 DEF Exclusive
  <2>4. ASSUME NEW j \in Keys, at'[j] # None PROVE at'[j] \notin free'
    <3>1. at'[j] \notin free
      <4>1. Old(j) \/ New(j)
        BY Zenon, <2>0, <2>4
      <4> QED BY Zenon, <4>1 DEF Exclusive
    <3>2. ASSUME NEW i \in B, i \notin kept PROVE inflight[i].slot # at'[j]
      <4>1. i \in Keys /\ inflight[i] # None
        BY Zenon, <1>1
      <4>2. CASE j \in kept
        <5>1. inflight[j] # None /\ at'[j] = inflight[j].slot /\ i # j
          BY <4>2, <3>2, <1>1, <1>3, Zenon
        <5> QED BY Zenon, <4>1, <5>1 DEF Exclusive
      <4>3. CASE j \notin kept
        BY <4>1, <4>3, <2>4, <1>3 DEF Exclusive
      <4> QED BY Zenon, <4>2, <4>3
    <3> QED BY <3>1, <3>2, <1>3, Zenon
  <2>5. ASSUME NEW j \in Keys, inflight'[j] # None
        PROVE  inflight'[j].slot \notin free'
    <3>1. j \notin B /\ inflight[j] # None /\ inflight'[j].slot = inflight[j].slot
      BY <2>5, <1>5, Zenon
    <3>2. inflight[j].slot \notin free /\ \A i \in B : inflight[i].slot # inflight[j].slot
      BY Zenon, <3>1, <1>1 DEF Exclusive
    <3>3. inflight[j].slot \notin free'
      BY <3>2, <1>3, Zenon
    <3> QED BY Zenon, <3>1, <3>3
  <2> QED BY Zenon, <2>1, <2>2, <2>3, <2>4, <2>5 DEF Exclusive
<1>9. Covered'
  <2> SUFFICES ASSUME NEW s \in Slots
               PROVE  s < next' <=> \/ s \in free'
                                    \/ \E j \in Keys : at'[j] = s
                                    \/ \E j \in Keys : inflight'[j] # None /\ inflight'[j].slot = s
    BY Zenon DEF Covered
  <2>1. s \in free' <=> s \in free \/ \E j \in B : j \notin kept /\ inflight[j].slot = s
    BY Zenon, <1>3
  <2>2. (\E j \in Keys : at'[j] = s)
          <=> (\E j \in Keys : at[j] = s) \/ \E j \in kept : inflight[j].slot = s
    <3>1. ASSUME NEW j \in Keys
          PROVE  at'[j] = s <=> \/ at[j] = s
                                \/ j \in kept /\ inflight[j].slot = s
      <4>1. CASE j \in kept
        BY Zenon, <4>1, <1>1, <1>3
      <4>2. CASE j \notin kept
        BY Zenon, <4>2, <1>3
      <4> QED BY Zenon, <4>1, <4>2
    <3>2. kept \subseteq Keys
      BY Zenon, <1>1
    <3> QED BY <3>1, <3>2, Zenon
  <2>3. (\E j \in Keys : inflight'[j] # None /\ inflight'[j].slot = s)
          <=> \E j \in Keys : j \notin B /\ inflight[j] # None /\ inflight[j].slot = s
    BY <1>5, Zenon
  <2> QED BY Zenon, <2>1, <2>2, <2>3, <1>1, <1>4 DEF Covered
<1>10. Recoverable'
  BY Zenon, <1>4 DEF Recoverable
<1> QED BY Zenon, <1>6, <1>7, <1>8, <1>9, <1>10

\* A batch is committed as a whole, or fails as a whole.
LEMMA WriteStep ==
    ASSUME Inv, NEW k \in Keys, Commit(k) \/ WriteFails(k) PROVE Inv'
<1> DEFINE B == inflight[k].batch
<1>1. CASE Commit(k)
  <2> DEFINE kept == {j \in B : ~inflight[j].canceled}
  <2>1. inflight[k] # None /\ Ended(B, kept)
    BY Zenon, <1>1 DEF Commit, Writing, Ended
  <2>2. kept \in SUBSET B
    BY Zenon
  <2> HIDE DEF kept
  <2> QED BY SMTT(30), <2>1, <2>2, BatchEnds
<1>2. CASE WriteFails(k)
  <2>1. inflight[k] # None
    BY Zenon, <1>2 DEF WriteFails, Writing
  <2>2. Ended(B, {})
    BY Zenon, <1>2 DEF WriteFails, Ended, Inv, TypeOK, mvars, dvars
  <2> QED BY SMTT(30), <2>1, <2>2, BatchEnds
<1> QED BY Zenon, <1>1, <1>2

\* delete_many returns an object's slot to the free list.
LEMMA DeleteStep ==
    ASSUME Inv, NEW k \in Keys, Delete(k) PROVE Inv'
<1> USE RawBlockAssumption DEF Inv
<1>1. /\ at' = [at EXCEPT ![k] = None]
      /\ inflight' = IF inflight[k] = None THEN inflight
                     ELSE [inflight EXCEPT ![k].canceled = TRUE]
      /\ free' = IF at[k] # None THEN free \cup {at[k]} ELSE free
      /\ dirty' = IF at[k] # None THEN dirty + 1 ELSE dirty
      /\ next' = next /\ seq' = seq /\ meta' = meta /\ ckpt' = ckpt
  BY Zenon DEF Delete, dvars
<1>2. \A j \in Keys : /\ j # k => at'[j] = at[j]
                      /\ j = k => at'[j] = None
  BY Zenon, <1>1 DEF TypeOK
<1>3. \A j \in Keys : /\ inflight'[j] \in Flight \cup {None}
                      /\ inflight'[j] # None <=> inflight[j] # None
                      /\ inflight[j] # None => /\ inflight'[j].slot = inflight[j].slot
                                               /\ inflight'[j].batch = inflight[j].batch
  <2>1. CASE inflight[k] = None
    BY Zenon, <2>1, <1>1 DEF TypeOK
  <2>2. CASE inflight[k] # None
    <3>1. inflight' = [inflight EXCEPT ![k] = [inflight[k] EXCEPT !.canceled = TRUE]]
      BY Zenon, <2>2, <1>1
    <3>2. inflight[k] \in Flight
      BY Zenon, <2>2, FlightTyped
    <3>3. /\ [inflight[k] EXCEPT !.canceled = TRUE] \in Flight
          /\ [inflight[k] EXCEPT !.canceled = TRUE].slot = inflight[k].slot
          /\ [inflight[k] EXCEPT !.canceled = TRUE].batch = inflight[k].batch
      BY Zenon, <3>2 DEF Flight
    <3> QED BY Zenon, <2>2, <3>1, <3>3 DEF TypeOK
  <2> QED BY Zenon, <2>1, <2>2
<1>4. TypeOK'
  <2>1. inflight' \in [Keys -> Flight \cup {None}]
    BY Zenon, <1>1, <1>3 DEF TypeOK
  <2> QED BY <2>1, <1>1 DEF TypeOK
<1>5. BatchesAgree'
  BY <1>2, <1>3, FlightTyped DEF BatchesAgree
<1>6. Exclusive'
  BY <1>1, <1>2, <1>3 DEF Exclusive, TypeOK
<1>7. Covered'
  BY <1>1, <1>2, <1>3 DEF Covered, TypeOK
<1>8. Recoverable'
  BY Zenon, <1>1 DEF Recoverable
<1> QED BY Zenon, <1>4, <1>5, <1>6, <1>7, <1>8

----------------------------------------------------------------------------
\* Prefetches and checkpoints: neither moves a slot.

\* What leaves index, flights and free list alone keeps their invariants.
LEMMA SlotsUnmoved ==
    ASSUME Inv, UNCHANGED <<at, inflight, free, next>>,
           dirty' \in Nat, seq' \in Nat, meta' \in [0 .. 1 -> Container], Recoverable'
    PROVE  Inv'
<1> USE DEF Inv
<1>1. TypeOK'
  BY Zenon DEF TypeOK
<1>2. BatchesAgree' /\ Exclusive' /\ Covered'
  BY DEF BatchesAgree, Exclusive, Covered
<1> QED BY Zenon, <1>1, <1>2

\* Lookups, loads and unlocks move no slot.
LEMMA ClientStep ==
    ASSUME Inv, NEW c \in Clients,
           (\E k \in Keys : LookupAndLock(c, k)) \/ StartLoad(c) \/ FinishLoad(c) \/ Unlock(c)
    PROVE  Inv'
<1>1. UNCHANGED <<at, inflight, free, next, dirty, seq, meta, ckpt>>
  BY Zenon DEF LookupAndLock, StartLoad, FinishLoad, Unlock, dvars, mvars
<1>2. Recoverable'
  BY Zenon, <1>1 DEF Inv, Recoverable
<1> QED BY Zenon, <1>1, <1>2, SlotsUnmoved DEF Inv, TypeOK

\* The checkpoint thread moves on, or ends, without writing.
LEMMA CheckStep ==
    ASSUME Inv,
           (\E force \in BOOLEAN : Check(force)) \/ TakeSnapshot \/ TooLarge \/ Close
    PROVE  Inv'
<1>1. UNCHANGED <<at, inflight, free, next, dirty, seq, meta>>
  BY Zenon DEF Check, TakeSnapshot, TooLarge, Close, dvars, mvars
<1>2. ckpt'.pc = "write" => Sound(ckpt'.snap) /\ ckpt'.mark \in Nat
  <2>1. CASE \E force \in BOOLEAN : Check(force)
    BY <2>1 DEF Check, NoCkpt
  <2>2. CASE TakeSnapshot
    <3>1. ckpt'.snap = Snapshot /\ ckpt'.mark = dirty
      BY Zenon, <2>2 DEF TakeSnapshot
    <3> QED BY Zenon, <3>1, SnapshotIsSound DEF Inv, TypeOK
  <2>3. CASE TooLarge
    BY Zenon, <2>3 DEF TooLarge, AfterCheckpoint, NoCkpt
  <2>4. CASE Close
    BY Zenon, <2>4 DEF Close, Inv, Recoverable
  <2> QED BY Zenon, <2>1, <2>2, <2>3, <2>4
<1>3. Recoverable'
  BY Zenon, <1>1, <1>2 DEF Inv, Recoverable
<1> QED BY Zenon, <1>1, <1>3, SlotsUnmoved DEF Inv, TypeOK

\* Whatever an interrupted checkpoint leaves is a container, and its header, if
\* it has one, is of a sound snapshot.
LEMMA PartialIsRecoverable ==
    ASSUME Inv, NEW ms \in PartialMeta
    PROVE  /\ ms \in [0 .. 1 -> Container]
           /\ \A i \in 0 .. 1 : ms[i].seq > 0 => Sound(ms[i].crc)
<1> USE DEF Inv
<1>1. CASE ckpt.pc # "write"
  BY Zenon, <1>1 DEF PartialMeta, TypeOK, Recoverable
<1>2. CASE ckpt.pc = "write"
  <2> DEFINE old == meta[Target]
             snap == ckpt.snap
  <2>1. Target \in 0 .. 1
    BY DEF Target, TypeOK
  <2>2. old \in Container /\ (old.seq > 0 => Sound(old.crc))
    BY Zenon, <2>1 DEF TypeOK, Recoverable
  <2>3. Sound(snap) /\ snap \in Snap /\ ckpt.mark \in Nat /\ seq + 1 \in Nat
    BY <1>2 DEF Recoverable, Sound, TypeOK
  <2>4. TornSnapshot \in Snap
    BY RawBlockAssumption DEF TornSnapshot, Snap
  <2>5. PICK m \in PartialContainer(snap, ckpt.mark, old) : ms = [meta EXCEPT ![Target] = m]
    BY Zenon, <1>2 DEF PartialMeta
  <2> HIDE DEF old, snap
  <2>6. m \in Container /\ (m.seq > 0 => Sound(m.crc))
    <3> DEFINE mark == ckpt.mark
    <3>1. CASE m = old
      BY Zenon, <3>1, <2>2
    <3>2. CASE m = Checkpoint(snap, mark)
      BY Zenon, <3>2, <2>3 DEF Checkpoint, Container
    <3>3. CASE m = [Blank EXCEPT !.pay = snap]
      BY <3>3, <2>3, <2>4 DEF Blank, Container
    <3>4. CASE \E p \in {snap, TornSnapshot} : m = [old EXCEPT !.pay = p]
      BY Zenon, <3>4, <2>2, <2>3, <2>4 DEF Container
    <3>5. CASE \E p \in {old.pay, TornSnapshot} : m = [Checkpoint(snap, mark) EXCEPT !.pay = p]
      BY Zenon, <3>5, <2>2, <2>3, <2>4 DEF Checkpoint, Container
    <3> QED BY Zenon, <2>5, <3>1, <3>2, <3>3, <3>4, <3>5 DEF PartialContainer
  <2> QED BY Zenon, <2>1, <2>5, <2>6 DEF TypeOK, Recoverable
<1> QED BY Zenon, <1>1, <1>2

\* A checkpoint writes a sound snapshot into one of the two containers.
LEMMA CheckpointStep ==
    ASSUME Inv, WriteCheckpoint \/ CheckpointFails PROVE Inv'
<1>1. UNCHANGED <<at, inflight, free, next, dirty>> /\ ckpt' = AfterCheckpoint
  BY Zenon DEF WriteCheckpoint, CheckpointFails, mvars
<1>2. seq' \in Nat
  BY DEF WriteCheckpoint, CheckpointFails, mvars, Inv, TypeOK
<1>3. meta' \in PartialMeta
  <2>1. CASE WriteCheckpoint
    BY Zenon, <2>1 DEF WriteCheckpoint, PartialMeta, PartialContainer
  <2>2. CASE CheckpointFails
    BY Zenon, <2>2 DEF CheckpointFails
  <2> QED BY Zenon, <2>1, <2>2
<1>4. /\ meta' \in [0 .. 1 -> Container]
      /\ \A i \in 0 .. 1 : meta'[i].seq > 0 => Sound(meta'[i].crc)
  BY Zenon, <1>3, PartialIsRecoverable
<1>5. Recoverable'
  BY Zenon, <1>1, <1>4 DEF Recoverable, AfterCheckpoint, NoCkpt
<1> QED BY Zenon, <1>1, <1>2, <1>4, <1>5, SlotsUnmoved DEF Inv, TypeOK

----------------------------------------------------------------------------
\* Recovery

\* The checkpoint a restart loads is sound: its CRC is the header's.
LEMMA LatestIsSound ==
    ASSUME NEW ms \in [0 .. 1 -> Container],
           \A i \in 0 .. 1 : ms[i].seq > 0 => Sound(ms[i].crc)
    PROVE  Sound(Latest(ms).pay) /\ Latest(ms).seq \in Nat
<1> DEFINE valid == {ms[i] : i \in {i \in 0 .. 1 : Valid(ms[i])}}
           empty == [at |-> [k \in Keys |-> None], next |-> 0]
<1>1. \A m \in valid : Sound(m.pay) /\ m.seq \in Nat
  BY Zenon DEF Valid, Container
<1>2. CASE valid = {}
  <2>1. Latest(ms).pay = empty /\ Latest(ms).seq = 0
    BY Zenon, <1>2 DEF Latest
  <2>2. Sound(empty)
    BY RawBlockAssumption DEF Sound, Snap
  <2> QED BY <2>1, <2>2
<1>3. CASE valid # {}
  <2>1. valid \subseteq {ms[0], ms[1]}
    OBVIOUS
  <2>2. \E m \in valid : \A n \in valid : n.seq <= m.seq
    <3>1. PICK a \in valid : TRUE
      BY Zenon, <1>3
    <3> HIDE DEF valid
    <3>2. CASE \A n \in valid : n.seq <= a.seq
      BY Zenon, <3>2
    <3>3. CASE \E n \in valid : ~(n.seq <= a.seq)
      <4>1. PICK b \in valid : ~(b.seq <= a.seq)
        BY Zenon, <3>3
      <4>2. valid = {a, b}
        BY <2>1, <4>1, <1>1
      <4> QED BY <4>1, <4>2, <1>1
    <3> QED BY Zenon, <3>2, <3>3
  <2>3. Latest(ms) = CHOOSE m \in valid : \A n \in valid : n.seq <= m.seq
    BY Zenon, <1>3 DEF Latest
  <2> HIDE DEF valid
  <2>4. Latest(ms) \in valid
    BY Zenon, <2>2, <2>3
  <2> QED BY Zenon, <2>4, <1>1
<1> QED BY Zenon, <1>2, <1>3

\* The slots below _next_slot.
LEMMA BelowNext ==
    ASSUME NEW n \in Int, NEW s \in Nat
    PROVE  s \in 0 .. n - 1 <=> s < n
OBVIOUS

\* Every slot below a _next_slot the store can reach is a slot of the region.
LEMMA SlotBound ==
    \A n \in 0 .. MaxSlots : 0 .. n - 1 \subseteq Slots
BY RawBlockAssumption DEF Slots

\* Recovery from a sound checkpoint, without the entries whose slot is stale:
\* the free list is rebuilt from the index.
LEMMA StartStep ==
    ASSUME NEW ms \in [0 .. 1 -> Container], NEW d,
           \A i \in 0 .. 1 : ms[i].seq > 0 => Sound(ms[i].crc),
           Start(ms, d)
    PROVE  Inv'
<1> USE RawBlockAssumption
<1> DEFINE snap == Latest(ms).pay
<1>1. Sound(snap) /\ Latest(ms).seq \in Nat
  BY Zenon, LatestIsSound
<1>2. /\ meta' = ms /\ next' = snap.next /\ seq' = Latest(ms).seq /\ dirty' \in {0, 1}
      /\ at' = [k \in Keys |-> IF Stale(k, snap, d) THEN None ELSE snap.at[k]]
      /\ free' = {s \in 0 .. next' - 1 : \A k \in Keys : at'[k] # s}
      /\ inflight' = [k \in Keys |-> None] /\ ckpt' = NoCkpt
  BY Zenon DEF Start
<1> HIDE DEF snap
<1>3. /\ next' \in 0 .. MaxSlots /\ snap.at \in [Keys -> Slots \cup {None}]
      /\ \A k \in Keys : at'[k] \in {None, snap.at[k]}
      /\ \A k \in Keys : inflight'[k] = None
  BY Zenon, <1>1, <1>2 DEF Sound, Snap
<1>4. TypeOK'
  <2>1. at' \in [Keys -> Slots \cup {None}]
    BY SMTT(30), <1>2, <1>3
  <2>2. free' \subseteq Slots
    <3>1. \A n \in 0 .. MaxSlots : 0 .. n - 1 \subseteq Slots
      BY Zenon, SlotBound
    <3>2. 0 .. next' - 1 \subseteq Slots
      BY Zenon, <1>3, <3>1
    <3> QED BY Zenon, <1>2, <3>2
  <2>3. inflight' \in [Keys -> Flight \cup {None}]
    BY Zenon, <1>2
  <2>4. dirty' \in Nat /\ seq' \in Nat /\ meta' \in [0 .. 1 -> Container]
    BY SMTT(30), <1>1, <1>2
  <2> QED BY Zenon, <2>1, <2>2, <2>3, <2>4, <1>3 DEF TypeOK
<1>5. BatchesAgree'
  BY SMTT(30), <1>3 DEF BatchesAgree
<1>6. Exclusive'
  BY Zenon, <1>1, <1>2, <1>3 DEF Exclusive, Sound
<1>7. Covered'
  <2>1. \A k \in Keys : at'[k] # None => at'[k] < next'
    BY Zenon, <1>1, <1>2, <1>3 DEF Sound
  <2>2. ASSUME NEW s \in Slots PROVE s \in free' <=> s < next' /\ \A k \in Keys : at'[k] # s
    <3>1. next' \in Int /\ s \in Nat
      BY <1>3 DEF Slots
    <3>2. s \in 0 .. next' - 1 <=> s < next'
      BY Zenon, <3>1, BelowNext
    <3> QED BY ZenonT(30), <1>2, <3>2
  <2>3. \A s \in Slots : s # None
    BY Zenon
  <2>4. ASSUME NEW s \in Slots
        PROVE  s < next' <=> s \in free' \/ \E k \in Keys : at'[k] = s
    <3>1. ASSUME NEW k \in Keys, at'[k] = s PROVE s < next'
      BY Zenon, <2>1, <2>3, <3>1
    <3> QED BY Zenon, <2>2, <3>1
  <2> QED BY ZenonT(30), <2>4, <1>3 DEF Covered
<1>8. Recoverable'
  BY Zenon, <1>2 DEF Recoverable, NoCkpt
<1> QED BY SMTT(30), <1>4, <1>5, <1>6, <1>7, <1>8 DEF Inv

----------------------------------------------------------------------------
\* Every step keeps the invariant.
LEMMA InvStep == Inv /\ [Next]_vars => Inv'
<1> SUFFICES ASSUME Inv, [Next]_vars PROVE Inv'
  BY Zenon
<1>1. CASE \E K \in Batches : Reserve(K)
  BY Zenon, <1>1, ReserveStep
<1>2. CASE \E k \in Keys :
             PrepareFails(k) \/ Submit(k) \/ Commit(k) \/ WriteFails(k) \/ Delete(k)
  BY Zenon, <1>2, PrepareFailsStep, SubmitStep, WriteStep, DeleteStep
<1>3. CASE \E c \in Clients :
             \/ \E k \in Keys : LookupAndLock(c, k)
             \/ StartLoad(c) \/ FinishLoad(c) \/ Unlock(c)
  BY Zenon, <1>3, ClientStep
<1>4. CASE (\E force \in BOOLEAN : Check(force)) \/ TakeSnapshot \/ TooLarge \/ Close
  BY Zenon, <1>4, CheckStep
<1>5. CASE WriteCheckpoint \/ CheckpointFails
  BY Zenon, <1>5, CheckpointStep
<1>6. CASE Crash
  <2>1. PICK d \in PartialSlots(Writing), ms \in PartialMeta : Start(ms, d)
    BY Zenon, <1>6 DEF Crash
  <2> QED BY Zenon, <2>1, PartialIsRecoverable, StartStep
<1>7. CASE Restart
  <2>1. Start(meta, slots)
    BY Zenon, <1>7 DEF Restart
  <2>2. /\ meta \in [0 .. 1 -> Container]
        /\ \A i \in 0 .. 1 : meta[i].seq > 0 => Sound(meta[i].crc)
    BY Zenon DEF Inv, TypeOK, Recoverable
  <2> QED BY Zenon, <2>1, <2>2, StartStep
<1>8. CASE UNCHANGED vars
  <2>1. UNCHANGED <<at, inflight, free, next, dirty, seq, meta, ckpt>>
    BY SMTT(30), <1>8 DEF vars, dvars, mvars
  <2>2. Recoverable'
    BY SMTT(30), <2>1 DEF Inv, Recoverable
  <2> QED BY Zenon, <2>1, <2>2, SlotsUnmoved DEF Inv, TypeOK
<1> QED BY Zenon, <1>1, <1>2, <1>3, <1>4, <1>5, <1>6, <1>7, <1>8 DEF Next

\* The invariant gives each slot below _next_slot exactly one owner.
LEMMA InvImpliesPartition == Inv => SlotPartition
<1> SUFFICES ASSUME Inv PROVE SlotPartition
  BY Zenon
<1> USE RawBlockAssumption DEF Inv
<1> DEFINE used == {at[k] : k \in Indexed}
           taken == {inflight[k].slot : k \in Inflight}
<1>1. used \subseteq Slots /\ taken \subseteq Slots /\ free \subseteq Slots
  BY FlightTyped DEF TypeOK, Indexed, Inflight
<1>2. \A s \in Slots : /\ s \in used <=> \E k \in Keys : at[k] = s
                       /\ s \in taken <=> \E k \in Keys : inflight[k] # None /\ inflight[k].slot = s
  BY SMTT(30) DEF Indexed, Inflight
<1>3. used \cap taken = {} /\ used \cap free = {} /\ taken \cap free = {}
  BY SMTT(30) DEF Exclusive, Indexed, Inflight
<1>4. /\ \A j, k \in Indexed : at[j] = at[k] => j = k
      /\ \A j, k \in Inflight : inflight[j].slot = inflight[k].slot => j = k
  BY Zenon DEF Exclusive, Indexed, Inflight
<1> HIDE DEF used, taken
<1>5. used \cup taken \cup free = 0 .. next - 1
  <2>1. \A s \in Slots : s \in used \cup taken \cup free <=> s < next
    BY Zenon, <1>2 DEF Covered
  <2>2. 0 .. next - 1 = {s \in Slots : s < next}
    BY DEF Slots, TypeOK
  <2> QED BY Zenon, <1>1, <2>1, <2>2
<1> QED BY Zenon, <1>3, <1>4, <1>5 DEF SlotPartition, used, taken

\* SlotPartition, which the raw_block run checks on two slots, holds of put_many,
\* delete_many and recovery for every number of slots, keys, clients, crashes
\* and failures: no slot leaks and none has two owners.
THEOREM SlotsAreAccounted == Spec => []SlotPartition
BY InvInit, InvStep, InvImpliesPartition, PTL DEF Spec

----------------------------------------------------------------------------
\* The device: what a slot's header says of its payload

Content == [hdr : Keys \cup {None}, body : Keys \cup {None}]

\* A header vouches for its payload unless a store was interrupted in the slot.
Vouched(d, t) ==
    \A s \in Slots : d[s].hdr # None =>
        \/ d[s].body = d[s].hdr
        \/ t[s] = d[s].hdr
        \/ engine = "io_uring" /\ t[s] # None

DeviceOK(d, t) ==
    /\ d \in [Slots -> Content] /\ t \in [Slots -> Keys \cup {None}]
    /\ Vouched(d, t)

\* The header of every indexed slot is its key's.
Headed == \A k \in Keys : at[k] # None => slots[at[k]].hdr = k

Device == engine \in {"posix", "io_uring"} /\ DeviceOK(slots, torn) /\ Headed

\* An interrupted write leaves a slot that is of its key, or not changed, or torn.
LEMMA PartialSlotVouched ==
    ASSUME engine \in {"posix", "io_uring"}, NEW k \in Keys, NEW old \in Content,
           NEW new \in PartialSlot(k, old), new # old, new.hdr # None
    PROVE  new \in Content /\ (new.hdr = k \/ engine = "io_uring")
<1> USE RawBlockAssumption
<1>1. new \in Content
  BY DEF PartialSlot, Content
<1>2. CASE engine = "posix"
  <2> DEFINE bodies == {old.body, k} \cup (IF old.body = k THEN {} ELSE {None})
  <2>1. new \in {old, [hdr |-> None, body |-> old.body]} \cup [hdr : {k}, body : bodies]
    BY Zenon, <1>2 DEF PartialSlot
  <2> HIDE DEF bodies
  <2> QED BY <2>1, <1>1
<1> QED BY Zenon, <1>1, <1>2

\* ... and whatever it leaves has a header and a payload.
LEMMA PartialSlotTyped ==
    ASSUME NEW k \in Keys, NEW old \in Content
    PROVE  PartialSlot(k, old) \subseteq Content
BY SMTT(30) DEF PartialSlot, Content

\* Interrupting any set of writes keeps the device in order, and leaves alone the
\* slots that no write of the set is for.
LEMMA PartialDevice ==
    ASSUME Inv, Device, NEW K \in SUBSET Keys, \A k \in K : inflight[k] # None,
           NEW d \in PartialSlots(K)
    PROVE  /\ DeviceOK(d, Torn(K, d))
           /\ \A s \in Slots : (\A k \in K : inflight[k].slot # s) => d[s] = slots[s]
<1> USE RawBlockAssumption
<1> DEFINE keyOf(s) == CHOOSE k \in K : inflight[k].slot = s
           hit == {inflight[k].slot : k \in K}
           t == Torn(K, d)
<1>1. slots \in [Slots -> Content] /\ torn \in [Slots -> Keys \cup {None}]
  BY Zenon DEF Device, DeviceOK
<1>2. \A s \in hit : keyOf(s) \in K /\ inflight[keyOf(s)].slot = s
  BY Zenon
<1>3. /\ DOMAIN d = Slots /\ d = [s \in Slots |-> d[s]]
      /\ \A s \in Slots : IF s \in hit THEN d[s] \in PartialSlot(keyOf(s), slots[s])
                          ELSE d[s] = slots[s]
  BY Zenon DEF PartialSlots
<1>4. t = [s \in Slots |-> IF d[s] = slots[s] THEN torn[s] ELSE keyOf(s)]
  BY SMTT(30) DEF Torn
<1> HIDE DEF keyOf, hit, t
<1>5. ASSUME NEW s \in Slots
      PROVE  /\ d[s] \in Content /\ t[s] \in Keys \cup {None}
             /\ d[s].hdr # None => \/ d[s].body = d[s].hdr
                                   \/ t[s] = d[s].hdr
                                   \/ engine = "io_uring" /\ t[s] # None
  <2>1. CASE d[s] = slots[s]
    <3>1. t[s] = torn[s]
      BY SMTT(30), <2>1, <1>4
    <3> QED BY Zenon, <2>1, <3>1, <1>1 DEF Device, DeviceOK, Vouched
  <2>2. CASE d[s] # slots[s]
    <3>1. s \in hit /\ d[s] \in PartialSlot(keyOf(s), slots[s]) /\ t[s] = keyOf(s)
      BY SMTT(30), <2>2, <1>3, <1>4
    <3>2. keyOf(s) \in Keys /\ keyOf(s) # None /\ slots[s] \in Content
      BY Zenon, <3>1, <1>1, <1>2
    <3>3. d[s] \in Content
      BY SMTT(30), <3>1, <3>2, PartialSlotTyped
    <3>4. d[s].hdr # None => d[s].hdr = keyOf(s) \/ engine = "io_uring"
      BY Zenon, <3>1, <3>2, <2>2, PartialSlotVouched DEF Device
    <3> QED BY Zenon, <3>1, <3>2, <3>3, <3>4
  <2> QED BY SMTT(30), <2>1, <2>2
<1>6. DeviceOK(d, t)
  BY Zenon, <1>3, <1>4, <1>5 DEF DeviceOK, Vouched
<1>7. \A s \in Slots : (\A k \in K : inflight[k].slot # s) => d[s] = slots[s]
  BY <1>3 DEF hit
<1> QED BY Zenon, <1>6, <1>7 DEF t

\* What writes no slot and indexes no key keeps the device in order.
LEMMA DeviceUnwritten ==
    ASSUME Device, UNCHANGED <<engine, slots, torn>>,
           \A k \in Keys : at'[k] \in {at[k], None}
    PROVE  Device'
BY Zenon DEF Device, DeviceOK, Vouched, Headed

\* A committed write leaves header and payload of its key in each slot of the batch.
LEMMA CommitDevice ==
    ASSUME Inv, Device, NEW k \in Keys, Commit(k) PROVE Device'
<1> USE RawBlockAssumption
<1> DEFINE B == inflight[k].batch
           kept == {j \in B : ~inflight[j].canceled}
           of(s) == CHOOSE j \in B : inflight[j].slot = s
           Hit(s) == \E j \in B : inflight[j].slot = s
<1>0. inflight[k] # None
  BY ZenonT(30) DEF Commit, Writing
<1>1. /\ B \subseteq Keys
      /\ \A j \in B : inflight[j] # None /\ inflight[j].slot \in Slots
  BY Zenon, <1>0, BatchTyped
<1>2. /\ engine' = engine
      /\ slots' = [s \in Slots |-> IF Hit(s) THEN [hdr |-> of(s), body |-> of(s)] ELSE slots[s]]
      /\ torn' = [s \in Slots |-> IF Hit(s) THEN None ELSE torn[s]]
      /\ at' = [j \in Keys |-> IF j \in kept THEN inflight[j].slot ELSE at[j]]
  BY Zenon DEF Commit
<1>3. \A s \in Slots : Hit(s) => of(s) \in B /\ inflight[of(s)].slot = s
  BY Zenon
<1> HIDE DEF of
<1>4. DeviceOK(slots, torn)'
  <2>1. ASSUME NEW s \in Slots
        PROVE  /\ slots'[s] \in Content /\ torn'[s] \in Keys \cup {None}
               /\ slots'[s].hdr # None =>
                    \/ slots'[s].body = slots'[s].hdr \/ torn'[s] = slots'[s].hdr
                    \/ engine' = "io_uring" /\ torn'[s] # None
    <3>1. CASE Hit(s)
      <4>1. slots'[s] = [hdr |-> of(s), body |-> of(s)] /\ torn'[s] = None
        BY Zenon, <3>1, <1>2
      <4>2. of(s) \in Keys
        BY SMTT(30), <3>1, <1>1, <1>3
      <4> QED BY SMTT(30), <4>1, <4>2 DEF Content
    <3>2. CASE ~Hit(s)
      <4>1. slots'[s] = slots[s] /\ torn'[s] = torn[s]
        BY SMTT(30), <3>2, <1>2
      <4> QED BY SMTT(30), <4>1, <1>2 DEF Device, DeviceOK, Vouched
    <3> QED BY SMTT(30), <3>1, <3>2
  <2> QED BY Zenon, <2>1, <1>2 DEF DeviceOK, Vouched
<1>5. Headed'
  <2> SUFFICES ASSUME NEW j \in Keys, at'[j] # None PROVE slots'[at'[j]].hdr = j
    BY SMTT(30) DEF Headed
  <2>1. CASE j \in kept
    <3> DEFINE s == inflight[j].slot
    <3>1. at'[j] = s /\ s \in Slots /\ j \in B
      BY SMTT(30), <2>1, <1>1, <1>2
    <3>2. of(s) = j
      BY <3>1, <1>1, <1>3 DEF Inv, Exclusive
    <3>3. slots'[s] = [hdr |-> of(s), body |-> of(s)]
      BY Zenon, <3>1, <1>2
    <3> QED BY SMTT(30), <3>1, <3>2, <3>3
  <2>2. CASE j \notin kept
    <3>1. at'[j] = at[j] /\ at[j] \in Slots
      BY ZenonT(30), <2>2, <1>2 DEF Inv, TypeOK
    <3>2. ~Hit(at[j])
      BY Zenon, <3>1, <1>1 DEF Inv, Exclusive
    <3>3. slots'[at[j]] = slots[at[j]]
      BY ZenonT(30), <3>1, <3>2, <1>2
    <3> QED BY Zenon, <3>1, <3>3 DEF Device, Headed
  <2> QED BY SMTT(30), <2>1, <2>2
<1> QED BY Zenon, <1>2, <1>4, <1>5 DEF Device, DeviceOK, Vouched

\* A failed write tears slots that no key is stored in.
LEMMA WriteFailsDevice ==
    ASSUME Inv, Device, NEW k \in Keys, WriteFails(k) PROVE Device'
<1> DEFINE B == inflight[k].batch
<1>0. inflight[k] # None
  BY ZenonT(30) DEF WriteFails, Writing
<1>1. B \in SUBSET Keys /\ \A j \in B : inflight[j] # None
  BY SMTT(30), <1>0, BatchTyped
<1>2. PICK d \in PartialSlots(B) : slots' = d /\ torn' = Torn(B, d)
  BY SMTT(30) DEF WriteFails
<1>3. engine' = engine /\ at' = at
  BY SMTT(30) DEF WriteFails
<1>4. /\ DeviceOK(d, Torn(B, d))
      /\ \A s \in Slots : (\A j \in B : inflight[j].slot # s) => d[s] = slots[s]
  BY Zenon, <1>1, PartialDevice
<1>5. Headed'
  <2> SUFFICES ASSUME NEW j \in Keys, at[j] # None PROVE d[at[j]].hdr = j
    BY SMTT(30), <1>2, <1>3 DEF Headed
  <2>1. at[j] \in Slots /\ \A i \in B : inflight[i].slot # at[j]
    BY SMTT(30), <1>1 DEF Inv, TypeOK, Exclusive
  <2> QED BY SMTT(30), <2>1, <1>4 DEF Device, Headed
<1> QED BY Zenon, <1>2, <1>3, <1>4, <1>5 DEF Device, DeviceOK, Vouched

\* Recovery keeps only the entries whose slot has their header.
LEMMA StartDevice ==
    ASSUME NEW ms, NEW d, NEW t, Start(ms, d), torn' = t, engine' = engine,
           engine \in {"posix", "io_uring"}, DeviceOK(d, t)
    PROVE  Device'
<1> DEFINE snap == Latest(ms).pay
<1>1. slots' = d /\ at' = [k \in Keys |-> IF Stale(k, snap, d) THEN None ELSE snap.at[k]]
  BY ZenonT(30) DEF Start
<1>2. Headed'
  BY Zenon, <1>1 DEF Headed, Stale
<1> QED BY Zenon, <1>1, <1>2 DEF Device, DeviceOK, Vouched

\* The device and the index agree after every step.
LEMMA DeviceStep == Inv /\ Device /\ [Next]_vars => Device'
<1> SUFFICES ASSUME Inv, Device, [Next]_vars PROVE Device'
  BY Zenon
<1>1. CASE \E K \in Batches : Reserve(K)
  BY Zenon, <1>1, DeviceUnwritten DEF Reserve, dvars
<1>2. CASE \E k \in Keys : PrepareFails(k) \/ Submit(k)
  BY Zenon, <1>2, DeviceUnwritten DEF PrepareFails, Submit, dvars
<1>3. CASE \E k \in Keys : Commit(k) \/ WriteFails(k)
  BY Zenon, <1>3, CommitDevice, WriteFailsDevice
<1>4. CASE \E k \in Keys : Delete(k)
  <2>1. PICK k \in Keys : Delete(k)
    BY Zenon, <1>4
  <2>2. at' = [at EXCEPT ![k] = None] /\ UNCHANGED <<engine, slots, torn>>
    BY SMTT(30), <2>1 DEF Delete, dvars
  <2> QED BY Zenon, <2>2, DeviceUnwritten DEF Inv, TypeOK
<1>5. CASE \E c \in Clients :
             \/ \E k \in Keys : LookupAndLock(c, k)
             \/ StartLoad(c) \/ FinishLoad(c) \/ Unlock(c)
  BY Zenon, <1>5, DeviceUnwritten DEF LookupAndLock, StartLoad, FinishLoad, Unlock, dvars
<1>6. CASE (\E force \in BOOLEAN : Check(force)) \/ TakeSnapshot \/ TooLarge \/ Close
  BY Zenon, <1>6, DeviceUnwritten DEF Check, TakeSnapshot, TooLarge, Close, dvars
<1>7. CASE WriteCheckpoint \/ CheckpointFails
  BY Zenon, <1>7, DeviceUnwritten DEF WriteCheckpoint, CheckpointFails
<1>8. CASE Crash
  <2>1. PICK d \in PartialSlots(Writing), ms \in PartialMeta :
             Start(ms, d) /\ torn' = Torn(Writing, d)
    BY Zenon, <1>8 DEF Crash
  <2>2. Writing \in SUBSET Keys /\ \A k \in Writing : inflight[k] # None
    BY Zenon DEF Writing
  <2>3. DeviceOK(d, Torn(Writing, d))
    BY Zenon, <2>2, PartialDevice
  <2> QED BY Zenon, <1>8, <2>1, <2>3, StartDevice DEF Crash, Device
<1>9. CASE Restart
  BY Zenon, <1>9, StartDevice DEF Restart, Device
<1>10. CASE UNCHANGED vars
  BY SMTT(30), <1>10, DeviceUnwritten DEF vars, dvars
<1> QED BY Zenon, <1>1, <1>2, <1>3, <1>4, <1>5, <1>6, <1>7, <1>8, <1>9, <1>10 DEF Next

\* An empty device is in order.
LEMMA DeviceInit == Init => Device
BY RawBlockAssumption DEF Init, Device, DeviceOK, Vouched, Headed, Content

\* IndexedIsIntact, which the raw_block run checks on two slots, for every device,
\* both engines and any number of crashes and failures: recovery and put_many
\* index a key only over its own header, and the payload under it is the key's
\* unless a store was interrupted in that very slot (_validate_loaded_entries).
THEOREM IndexedStaysIntact == Spec => []IndexedIsIntact
<1>1. Inv /\ Device => IndexedIsIntact
  BY RawBlockAssumption DEF Inv, TypeOK, Device, DeviceOK, Vouched, Headed, IndexedIsIntact, Indexed
<1> QED BY <1>1, InvInit, InvStep, DeviceInit, DeviceStep, PTL DEF Spec

----------------------------------------------------------------------------
\* Locks: a locked key stays where it is

\* The prefetches that hold a lock of k.
Holders(k) == {c \in Clients : client[c].pc # "idle" /\ client[c].key = k}

Prefetches == [pc : {"locked"}, key : Keys] \cup [pc : {"loading"}, key : Keys, slot : Slots]

ClientOK(c) ==
    /\ client[c] = NoClient \/ client[c] \in Prefetches
    /\ client[c].pc # "idle" => at[client[c].key] # None
    /\ client[c].pc = "loading" => at[client[c].key] = client[c].slot

\* Every lock of a key is one prefetch's, and every prefetch's key is stored, at
\* the slot it reads from.
Locks ==
    /\ client = [c \in Clients |-> client[c]] /\ refcnt \in [Keys -> Nat]
    /\ \A k \in Keys : refcnt[k] = Cardinality(Holders(k))
    /\ \A c \in Clients : ClientOK(c)

\* A holder has a lock.
LEMMA HeldIsCounted ==
    ASSUME Locks, NEW c \in Clients, client[c].pc # "idle"
    PROVE  /\ client[c] \in Prefetches /\ client[c].key \in Keys
           /\ refcnt[client[c].key] > 0 /\ at[client[c].key] # None
<1>1. client[c] \in Prefetches /\ client[c].key \in Keys /\ at[client[c].key] # None
  BY DEF Locks, ClientOK, NoClient, Prefetches
<1> DEFINE H == Holders(client[c].key)
<1>2. c \in H
  BY Zenon DEF Holders
<1>3. IsFiniteSet(H)
  BY Zenon, FS_Subset, RawBlockAssumption DEF Holders
<1> HIDE DEF H
<1>4. Cardinality(H) \in Nat /\ Cardinality(H) # 0
  BY Zenon, <1>2, <1>3, FS_CardinalityType, FS_EmptySet
<1>5. refcnt[client[c].key] = Cardinality(H)
  BY Zenon, <1>1 DEF Locks, H
<1> QED BY <1>1, <1>4, <1>5

\* Index changes that spare the locked keys keep the lock table in order.
LEMMA LocksUnmoved ==
    ASSUME Locks, client' = client, refcnt' \in [Keys -> Nat],
           \A k \in Keys : refcnt'[k] = refcnt[k] \/ (refcnt[k] = 0 /\ refcnt'[k] = 0),
           \A k \in Keys : refcnt[k] > 0 => at'[k] = at[k]
    PROVE  Locks'
<1>1. \A k \in Keys : Holders(k)' = Holders(k)
  BY SMTT(30) DEF Holders
<1>2. ASSUME NEW c \in Clients PROVE ClientOK(c)'
  <2>1. CASE client[c].pc = "idle"
    BY SMTT(30), <2>1 DEF Locks, ClientOK
  <2>2. CASE client[c].pc # "idle"
    BY Zenon, <2>2, HeldIsCounted DEF Locks, ClientOK
  <2> QED BY Zenon, <2>1, <2>2
<1> QED BY Zenon, <1>1, <1>2 DEF Locks

\* exists_many takes a lock for the prefetch.
LEMMA LookupLocks ==
    ASSUME Inv, Locks, NEW c \in Clients, NEW k \in Keys, LookupAndLock(c, k)
    PROVE  Locks'
<1>1. /\ at[k] # None /\ at' = at /\ client[c] = NoClient
      /\ refcnt' = [refcnt EXCEPT ![k] = @ + 1]
      /\ client' = [client EXCEPT ![c] = [pc |-> "locked", key |-> k]]
  BY Zenon DEF LookupAndLock
<1>2. /\ client'[c] = [pc |-> "locked", key |-> k] /\ client[c].pc = "idle"
      /\ \A b \in Clients \ {c} : client'[b] = client[b]
      /\ client' = [b \in Clients |-> client'[b]]
  BY <1>1 DEF Locks, NoClient
<1>3. \A b \in Clients : ClientOK(b)'
  <2> TAKE b \in Clients
  <2>1. CASE b = c
    BY SMTT(30), <2>1, <1>1, <1>2 DEF ClientOK, Prefetches
  <2>2. CASE b # c
    BY Zenon, <2>2, <1>1, <1>2 DEF Locks, ClientOK
  <2> QED BY Zenon, <2>1, <2>2
<1>4. \A j \in Keys : refcnt'[j] = Cardinality(Holders(j)')
  <2> TAKE j \in Keys
  <2>0. IsFiniteSet(Holders(j))
    BY Zenon, FS_Subset, RawBlockAssumption DEF Holders
  <2>1. CASE j = k
    <3>1. Holders(j)' = Holders(j) \cup {c} /\ c \notin Holders(j)
      BY <2>1, <1>2 DEF Holders
    <3>2. Cardinality(Holders(j) \cup {c}) = Cardinality(Holders(j)) + 1
      BY Zenon, <2>0, <3>1, FS_AddElement
    <3> QED BY Zenon, <2>1, <3>1, <3>2, <1>1 DEF Locks
  <2>2. CASE j # k
    <3>1. Holders(j)' = Holders(j)
      BY <2>2, <1>2 DEF Holders
    <3> QED BY Zenon, <2>2, <3>1, <1>1 DEF Locks
  <2> QED BY Zenon, <2>1, <2>2
<1>5. refcnt' \in [Keys -> Nat]
  BY SMTT(30), <1>1 DEF Locks
<1> QED BY Zenon, <1>2, <1>3, <1>4, <1>5 DEF Locks

\* A load keeps the lock it runs under.
LEMMA LoadLocks ==
    ASSUME Inv, Locks, NEW c \in Clients, StartLoad(c) \/ FinishLoad(c)
    PROVE  Locks'
<1>1. at' = at /\ refcnt' = refcnt /\ client[c].pc \in {"locked", "loading"}
  BY SMTT(30) DEF StartLoad, FinishLoad
<1> DEFINE k == client[c].key
<1>2. k \in Keys /\ at[k] # None /\ at[k] \in Slots
  BY SMTT(30), <1>1, HeldIsCounted DEF Inv, TypeOK
<1>3. PICK v \in {[pc |-> "loading", key |-> k, slot |-> at[k]], [pc |-> "locked", key |-> k]} :
           client' = [client EXCEPT ![c] = v]
  BY SMTT(30) DEF StartLoad, FinishLoad
<1> HIDE DEF k
<1>4. /\ client'[c] = v /\ \A b \in Clients \ {c} : client'[b] = client[b]
      /\ client' = [b \in Clients |-> client'[b]]
  BY SMTT(30), <1>3 DEF Locks
<1>5. v \in Prefetches /\ v.pc # "idle" /\ v.key = k /\ (v.pc = "loading" => v.slot = at[k])
  BY SMTT(30), <1>2 DEF Prefetches
<1>6. \A b \in Clients : ClientOK(b)'
  <2> TAKE b \in Clients
  <2>1. CASE b = c
    BY SMTT(30), <2>1, <1>1, <1>2, <1>4, <1>5 DEF ClientOK
  <2>2. CASE b # c
    BY SMTT(30), <2>2, <1>1, <1>4 DEF Locks, ClientOK
  <2> QED BY SMTT(30), <2>1, <2>2
<1>7. \A j \in Keys : Holders(j)' = Holders(j)
  BY Zenon, <1>1, <1>4, <1>5 DEF Holders, k
<1> QED BY SMTT(30), <1>1, <1>4, <1>6, <1>7 DEF Locks

\* unlock_many gives back one lock.
LEMMA UnlockLocks ==
    ASSUME Inv, Locks, NEW c \in Clients, Unlock(c) PROVE Locks'
<1> DEFINE k == client[c].key
<1>1. /\ client[c].pc = "locked" /\ at' = at
      /\ refcnt' = [refcnt EXCEPT ![k] = IF @ <= 1 THEN 0 ELSE @ - 1]
      /\ client' = [client EXCEPT ![c] = NoClient]
  BY SMTT(30) DEF Unlock
<1>2. k \in Keys /\ refcnt[k] > 0 /\ refcnt[k] \in Nat
  BY Zenon, <1>1, HeldIsCounted DEF Locks
<1>3. refcnt'[k] = refcnt[k] - 1 /\ \A j \in Keys \ {k} : refcnt'[j] = refcnt[j]
  <2> HIDE DEF k
  <2> QED BY <1>1, <1>2 DEF Locks
<1>4. refcnt' \in [Keys -> Nat]
  <2> HIDE DEF k
  <2> QED BY <1>1, <1>2 DEF Locks
<1>5. /\ client'[c] = NoClient /\ \A b \in Clients \ {c} : client'[b] = client[b]
      /\ client' = [b \in Clients |-> client'[b]]
  BY Zenon, <1>1 DEF Locks
<1>6. \A b \in Clients : ClientOK(b)'
  <2> TAKE b \in Clients
  <2>1. CASE b = c
    BY SMTT(30), <2>1, <1>5 DEF ClientOK, NoClient
  <2>2. CASE b # c
    BY Zenon, <2>2, <1>1, <1>5 DEF Locks, ClientOK
  <2> QED BY Zenon, <2>1, <2>2
<1>7. \A j \in Keys : refcnt'[j] = Cardinality(Holders(j)')
  <2> TAKE j \in Keys
  <2>0. IsFiniteSet(Holders(j))
    BY Zenon, FS_Subset, RawBlockAssumption DEF Holders
  <2>1. CASE j = k
    <3>1. Holders(j)' = Holders(j) \ {c} /\ c \in Holders(j)
      BY Zenon, <2>1, <1>1, <1>5 DEF Holders, NoClient
    <3>2. Cardinality(Holders(j) \ {c}) = Cardinality(Holders(j)) - 1
      BY Zenon, <2>0, <3>1, FS_RemoveElement
    <3> QED BY SMTT(30), <2>1, <3>1, <3>2, <1>3 DEF Locks
  <2>2. CASE j # k
    <3>1. Holders(j)' = Holders(j)
      BY Zenon, <2>2, <1>1, <1>5 DEF Holders, NoClient
    <3> QED BY SMTT(30), <2>2, <3>1, <1>3 DEF Locks
  <2> QED BY Zenon, <2>1, <2>2
<1> QED BY SMTT(30), <1>4, <1>5, <1>6, <1>7 DEF Locks

\* No lock outlives a process.
LEMMA NoLocks ==
    ASSUME client' = [c \in Clients |-> NoClient], refcnt' = [k \in Keys |-> 0]
    PROVE  Locks'
<1>1. \A k \in Keys : Holders(k)' = {}
  BY Zenon DEF Holders, NoClient
<1>2. \A c \in Clients : ClientOK(c)'
  BY SMTT(30) DEF ClientOK, NoClient
<1> QED BY Zenon, <1>1, <1>2, FS_EmptySet DEF Locks

\* Every step keeps the lock table in order.
LEMMA LocksStep == Inv /\ Locks /\ [Next]_vars => Locks'
<1> SUFFICES ASSUME Inv, Locks, [Next]_vars PROVE Locks'
  BY Zenon
<1>0. refcnt \in [Keys -> Nat]
  BY Zenon DEF Locks
<1>1. CASE \E K \in Batches : Reserve(K)
  BY Zenon, <1>0, <1>1, LocksUnmoved DEF Reserve
<1>2. CASE \E k \in Keys : PrepareFails(k) \/ Submit(k) \/ WriteFails(k)
  BY SMTT(30), <1>0, <1>2, LocksUnmoved DEF PrepareFails, Submit, WriteFails
<1>3. CASE \E k \in Keys : Commit(k)
  <2>1. PICK k \in Keys : Commit(k)
    BY Zenon, <1>3
  <2>2. client' = client /\ refcnt' = refcnt /\ inflight[k] # None
    BY Zenon, <2>1 DEF Commit, Writing
  <2>3. \A j \in inflight[k].batch : j \in Keys /\ at[j] = None
    BY Zenon, <2>2, BatchTyped
  <2>4. \A j \in Keys : at[j] # None => at'[j] = at[j]
    BY Zenon, <2>1, <2>3 DEF Commit
  <2>5. ASSUME NEW j \in Keys, refcnt[j] > 0 PROVE at[j] # None
    <3>0. refcnt[j] = Cardinality(Holders(j)) /\ refcnt[j] # 0
      BY <1>0, <2>5 DEF Locks
    <3>1. Cardinality(Holders(j)) # 0
      BY Zenon, <3>0
    <3>2. PICK c \in Clients : client[c].pc # "idle" /\ client[c].key = j
      BY Zenon, <3>1, FS_EmptySet DEF Holders
    <3> QED BY Zenon, <3>2 DEF Locks, ClientOK
  <2> QED BY Zenon, <1>0, <2>2, <2>4, <2>5, LocksUnmoved
<1>4. CASE \E k \in Keys : Delete(k)
  <2>1. PICK k \in Keys : Delete(k)
    BY Zenon, <1>4
  <2>2. /\ ~(at[k] # None /\ refcnt[k] > 0) /\ at' = [at EXCEPT ![k] = None]
        /\ refcnt' = [refcnt EXCEPT ![k] = 0] /\ client' = client
    BY Zenon, <2>1 DEF Delete
  <2>3. refcnt[k] = 0
    <3>1. ASSUME refcnt[k] > 0 PROVE at[k] # None
      <4>1. IsFiniteSet(Holders(k)) /\ Cardinality(Holders(k)) # 0
        <5>1. Holders(k) \in SUBSET Clients
          BY Zenon DEF Holders
        <5>2. IsFiniteSet(Holders(k))
          BY Zenon, <5>1, FS_Subset, RawBlockAssumption
        <5>3. refcnt[k] = Cardinality(Holders(k))
          BY ZenonT(30) DEF Locks
        <5> QED BY <3>1, <5>2, <5>3
      <4>2. PICK c \in Clients : client[c].pc # "idle" /\ client[c].key = k
        BY Zenon, <4>1, FS_EmptySet DEF Holders
      <4> QED BY Zenon, <4>2 DEF Locks, ClientOK
    <3> QED BY <3>1, <2>2, <1>0
  <2> QED BY Zenon, <1>0, <2>2, <2>3, LocksUnmoved DEF Inv, TypeOK
<1>5. CASE \E c \in Clients, k \in Keys : LookupAndLock(c, k)
  BY Zenon, <1>5, LookupLocks
<1>6. CASE \E c \in Clients : StartLoad(c) \/ FinishLoad(c) \/ Unlock(c)
  BY Zenon, <1>6, LoadLocks, UnlockLocks
<1>7. CASE (\E force \in BOOLEAN : Check(force)) \/ TakeSnapshot \/ TooLarge \/ Close
  BY Zenon, <1>0, <1>7, LocksUnmoved DEF Check, TakeSnapshot, TooLarge, Close
<1>8. CASE WriteCheckpoint \/ CheckpointFails
  BY Zenon, <1>0, <1>8, LocksUnmoved DEF WriteCheckpoint, CheckpointFails
<1>9. CASE Crash \/ Restart
  BY Zenon, <1>9, NoLocks DEF Crash, Restart, Start
<1>10. CASE UNCHANGED vars
  BY Zenon, <1>0, <1>10, LocksUnmoved DEF vars
<1> QED BY Zenon, <1>1, <1>2, <1>3, <1>4, <1>5, <1>6, <1>7, <1>8, <1>9, <1>10 DEF Next

\* A fresh process has no locks.
LEMMA LocksInit == Init => Locks
<1> SUFFICES ASSUME Init PROVE Locks
  BY SMTT(30)
<1>1. client = [c \in Clients |-> NoClient] /\ refcnt = [k \in Keys |-> 0]
  BY Zenon DEF Init
<1>2. \A k \in Keys : Holders(k) = {}
  BY Zenon, <1>1 DEF Holders, NoClient
<1> QED BY Zenon, <1>1, <1>2, FS_EmptySet DEF Locks, ClientOK, NoClient

\* LoadReadsOwn, which the raw_block run checks on two slots and one prefetch, for
\* any number of either: between exists_many and unlock_many no delete, store or
\* rollback moves the key or lets another write into its slot (delete_many,
\* load_many_into).
THEOREM LoadsReadTheirOwn == Spec => []LoadReadsOwn
<1>1. Inv /\ Device /\ Locks => LoadReadsOwn
  <2> SUFFICES ASSUME Inv, Device, Locks, NEW c \in Clients, client[c].pc = "loading"
               PROVE  /\ \A k \in Writing : inflight[k].slot # client[c].slot
                      /\ \/ slots[client[c].slot].body = client[c].key
                         \/ torn[client[c].slot] # None
    BY SMTT(30) DEF LoadReadsOwn
  <2> DEFINE k == client[c].key
             s == client[c].slot
  <2>1. k \in Keys /\ at[k] = s /\ s # None /\ s \in Slots
    BY Zenon, HeldIsCounted DEF Locks, ClientOK, Inv, TypeOK
  <2>2. \A j \in Writing : inflight[j].slot # s
    BY Zenon, <2>1 DEF Writing, Inv, Exclusive
  <2>3. slots[s].hdr = k
    BY Zenon, <2>1 DEF Device, Headed
  <2> QED BY ZenonT(30), <2>1, <2>2, <2>3, RawBlockAssumption DEF Device, DeviceOK, Vouched
<1> QED
  BY <1>1, InvInit, InvStep, DeviceInit, DeviceStep, LocksInit, LocksStep, PTL DEF Spec

----------------------------------------------------------------------------
\* Checkpoints: what the two containers hold

\* The container the next checkpoint spares.
Spared == 1 - Target

\* Checkpoints alternate between the containers.
Turns(ms) == \A i \in 0 .. 1 : ms[i].seq > 0 => (ms[i].seq + 1) % 2 = i

\* The spared container is the last checkpoint, and holds the index as long as
\* nothing has changed since; the target is older, or a checkpoint that failed
\* although it had reached the device.
Durable(ms) ==
    /\ ms[Spared].seq = seq /\ (seq > 0 => Valid(ms[Spared]))
    /\ ms[Spared].mark >= persisted /\ (seq = 0 => persisted = 0)
    /\ dirty = persisted =>
         (IF seq = 0 THEN [k \in Keys |-> None] ELSE ms[Spared].pay.at) = at
    /\ ms[Target].seq > seq =>
         ms[Target].mark >= persisted /\ (Valid(ms[Target]) => dirty > persisted)

\* A checkpoint under way has something new to write.
Writes ==
    /\ persisted \in Nat /\ persisted <= dirty
    /\ ckpt.pc \in {"snapshot", "write"} => persisted < dirty
    /\ ckpt.pc = "write" =>
         /\ persisted < ckpt.mark /\ ckpt.mark <= dirty
         /\ ckpt.mark = dirty => ckpt.snap.at = at

Checkpoints == Writes /\ Turns(meta) /\ Durable(meta)

\* The two containers are the target and the spared one.
LEMMA TwoContainers ==
    ASSUME TypeOK
    PROVE  /\ Target \in 0 .. 1 /\ Spared \in 0 .. 1 /\ Target # Spared
           /\ \A i \in 0 .. 1 : i = Target \/ i = Spared
           /\ (seq + 1) % 2 = Spared
BY DEF TypeOK, Target, Spared

\* A crash or an error in the middle of a checkpoint leaves the containers in order.
LEMMA PartialIsDurable ==
    ASSUME Inv, Checkpoints, NEW ms \in PartialMeta
    PROVE  Turns(ms) /\ Durable(ms)
<1>1. CASE ckpt.pc # "write"
  BY Zenon, <1>1 DEF PartialMeta, Checkpoints
<1>2. CASE ckpt.pc = "write"
  <2> DEFINE old == meta[Target]
             snap == ckpt.snap
             mark == ckpt.mark
  <2>1. PICK m \in PartialContainer(snap, mark, old) : ms = [meta EXCEPT ![Target] = m]
    BY Zenon, <1>2 DEF PartialMeta
  <2>2. /\ Target \in 0 .. 1 /\ Spared \in 0 .. 1 /\ Target # Spared
        /\ \A i \in 0 .. 1 : i = Target \/ i = Spared
        /\ (seq + 1) % 2 = Spared
    BY SMTT(30), TwoContainers DEF Inv
  <2>3. /\ seq \in Nat /\ persisted \in Nat /\ dirty \in Nat /\ mark \in Nat
        /\ persisted < mark /\ persisted < dirty
        /\ old \in Container /\ meta \in [0 .. 1 -> Container]
    <3>1. /\ seq \in Nat /\ persisted \in Nat /\ dirty \in Nat
          /\ meta \in [0 .. 1 -> Container]
      BY Zenon DEF Inv, TypeOK, Checkpoints, Writes
    <3>2. mark \in Nat /\ persisted < mark
      BY Zenon, <1>2 DEF Inv, Recoverable, Checkpoints, Writes
    <3>3. mark <= dirty
      BY Zenon, <1>2 DEF Checkpoints, Writes
    <3>4. persisted < dirty
      <4> HIDE DEF mark
      <4> QED BY <3>1, <3>2, <3>3
    <3>5. old \in Container
      BY Zenon, <2>2, <3>1
    <3> QED BY Zenon, <3>1, <3>2, <3>4, <3>5
  <2>4. /\ old.seq > 0 => (old.seq + 1) % 2 = Target
        /\ old.seq > seq => old.mark >= persisted
    BY Zenon, <2>2 DEF Checkpoints, Turns, Durable
  <2> HIDE DEF old, snap, mark
  <2>5. /\ m.seq > 0 => (m.seq + 1) % 2 = Target
        /\ m.seq > seq => m.mark >= persisted
    <3>0. ((seq + 1) + 1) % 2 = Target
      BY <2>2, <2>3 DEF Target, Spared
    <3>1. CASE m = old
      BY SMTT(30), <3>1, <2>4
    <3>2. CASE m = Checkpoint(snap, mark)
      BY <3>0, <3>2, <2>3 DEF Checkpoint
    <3>3. CASE m = [Blank EXCEPT !.pay = snap]
      BY <3>3, <2>3 DEF Blank
    <3>4. CASE \E p \in {snap, TornSnapshot} : m = [old EXCEPT !.pay = p]
      BY Zenon, <3>4, <2>3, <2>4 DEF Container
    <3>5. CASE \E p \in {old.pay, TornSnapshot} : m = [Checkpoint(snap, mark) EXCEPT !.pay = p]
      BY <3>0, <3>5, <2>3 DEF Checkpoint
    <3> QED BY Zenon, <2>1, <3>1, <3>2, <3>3, <3>4, <3>5 DEF PartialContainer
  <2>6. ms[Target] = m /\ ms[Spared] = meta[Spared] /\ \A i \in 0 .. 1 : i = Target \/ ms[i] = meta[i]
    BY SMTT(30), <2>1, <2>2, <2>3
  <2>7. Turns(ms)
    BY Zenon, <2>2, <2>5, <2>6 DEF Turns, Checkpoints
  <2>8. Durable(ms)
    BY Zenon, <2>3, <2>5, <2>6 DEF Durable, Checkpoints
  <2> QED BY Zenon, <2>7, <2>8
<1> QED BY Zenon, <1>1, <1>2

\* _select_latest_checkpoint takes the valid container with the larger number.
LEMMA LatestIs ==
    ASSUME NEW ms \in [0 .. 1 -> Container], NEW i \in 0 .. 1, Valid(ms[i]),
           \A j \in 0 .. 1 : j # i /\ Valid(ms[j]) => ms[j].seq < ms[i].seq
    PROVE  Latest(ms) = ms[i]
<1> DEFINE valid == {ms[j] : j \in {j \in 0 .. 1 : Valid(ms[j])}}
<1>1. ms[i] \in valid
  BY Zenon
<1>2. \A n \in valid : n = ms[i] \/ n.seq < ms[i].seq
  BY Zenon
<1>3. \A n \in valid : n.seq \in Nat
  BY SMTT(30) DEF Container
<1>4. Latest(ms) = CHOOSE m \in valid : \A n \in valid : n.seq <= m.seq
  BY Zenon, <1>1 DEF Latest
<1> HIDE DEF valid
<1>5. \A m \in valid : (\A n \in valid : n.seq <= m.seq) <=> m = ms[i]
  BY SMTT(30), <1>1, <1>2, <1>3
<1> QED BY Zenon, <1>1, <1>4, <1>5

\* With no valid container the device starts empty.
LEMMA LatestIsEmpty ==
    ASSUME NEW ms, \A j \in 0 .. 1 : ~Valid(ms[j])
    PROVE  /\ Latest(ms).seq = 0 /\ Latest(ms).mark = 0
           /\ Latest(ms).pay.at = [k \in Keys |-> None]
BY Zenon DEF Latest

\* What a restart would load from durable containers.
LEMMA LatestIsDurable ==
    ASSUME Inv, Writes, NEW ms \in [0 .. 1 -> Container], Turns(ms), Durable(ms)
    PROVE  /\ Latest(ms).mark >= persisted /\ Latest(ms).seq >= seq
           /\ dirty = persisted => Latest(ms).pay.at = at
           /\ \/ /\ seq = 0 /\ \A j \in 0 .. 1 : ~Valid(ms[j])
              \/ \E i \in 0 .. 1 : /\ Valid(ms[i]) /\ Latest(ms) = ms[i]
                                   /\ \A j \in 0 .. 1 : j # i /\ Valid(ms[j]) => ms[j].seq < ms[i].seq
<1>1. /\ Target \in 0 .. 1 /\ Spared \in 0 .. 1 /\ Target # Spared
      /\ \A i \in 0 .. 1 : i = Target \/ i = Spared
      /\ (seq + 1) % 2 = Spared
  BY SMTT(30), TwoContainers DEF Inv
<1> DEFINE T == ms[Target] S == ms[Spared]
           Chosen(m) == \E i \in 0 .. 1 :
              /\ Valid(ms[i]) /\ Latest(ms) = ms[i] /\ m = ms[i]
              /\ \A j \in 0 .. 1 : j # i /\ Valid(ms[j]) => ms[j].seq < ms[i].seq
<1>2. /\ seq \in Nat /\ persisted \in Nat /\ dirty \in Nat
      /\ T.seq \in Nat /\ S.seq \in Nat
  BY Zenon, <1>1 DEF Inv, TypeOK, Writes, Container
<1>3. Valid(T) /\ (Valid(S) => S.seq < T.seq) => Chosen(T)
  <2>1. SUFFICES ASSUME Valid(T), Valid(S) => S.seq < T.seq PROVE Chosen(T)
    BY Zenon
  <2>2. \A j \in 0 .. 1 : j # Target /\ Valid(ms[j]) => ms[j].seq < ms[Target].seq
    BY Zenon, <1>1, <2>1
  <2>3. Latest(ms) = ms[Target]
    BY Zenon, <1>1, <2>1, <2>2, LatestIs
  <2> QED BY Zenon, <1>1, <2>1, <2>2, <2>3
<1>4. Valid(S) /\ (Valid(T) => T.seq < S.seq) => Chosen(S)
  <2>1. SUFFICES ASSUME Valid(S), Valid(T) => T.seq < S.seq PROVE Chosen(S)
    BY Zenon
  <2>2. \A j \in 0 .. 1 : j # Spared /\ Valid(ms[j]) => ms[j].seq < ms[Spared].seq
    BY Zenon, <1>1, <2>1
  <2>3. Latest(ms) = ms[Spared]
    BY Zenon, <1>1, <2>1, <2>2, LatestIs
  <2> QED BY Zenon, <1>1, <2>1, <2>2, <2>3
<1>5. /\ S.seq = seq /\ (seq > 0 => Valid(S)) /\ S.mark >= persisted
      /\ seq = 0 => persisted = 0
      /\ dirty = persisted => (IF seq = 0 THEN [k \in Keys |-> None] ELSE S.pay.at) = at
      /\ T.seq > seq => T.mark >= persisted /\ (Valid(T) => dirty > persisted)
  BY Zenon DEF Durable
<1>6. Valid(T) => T.seq > 0 /\ (T.seq + 1) % 2 = Target
  BY Zenon, <1>1 DEF Turns, Valid
<1>7. Valid(S) => S.seq > 0
  BY Zenon DEF Valid
<1>8. ~Valid(T) /\ ~Valid(S) => \A j \in 0 .. 1 : ~Valid(ms[j])
  BY Zenon, <1>1
<1> HIDE DEF T, S
<1>9. T.seq # seq \/ ~Valid(T)
  BY Zenon, <1>1, <1>6
<1>10. CASE Valid(T) /\ T.seq > seq
  <2>1. Valid(S) => S.seq < T.seq
    BY Zenon, <1>2, <1>5, <1>10
  <2>2. Chosen(T)
    BY Zenon, <1>3, <1>10, <2>1
  <2>3. T.mark >= persisted /\ T.seq >= seq /\ dirty # persisted
    BY <1>2, <1>5, <1>10
  <2> QED BY Zenon, <2>2, <2>3
<1>11. CASE ~(Valid(T) /\ T.seq > seq) /\ seq > 0
  <2>1. Valid(T) => T.seq < S.seq
    BY <1>2, <1>5, <1>9, <1>11
  <2>2. Chosen(S)
    BY Zenon, <1>4, <1>5, <1>11, <2>1
  <2>3. S.seq >= seq /\ seq # 0
    BY <1>2, <1>5, <1>11
  <2> QED BY Zenon, <1>5, <2>2, <2>3
<1>12. CASE ~(Valid(T) /\ T.seq > seq) /\ ~(seq > 0)
  <2>1. seq = 0 /\ persisted = 0 /\ 0 >= persisted /\ 0 >= seq
    BY SMTT(30), <1>2, <1>5, <1>12
  <2>2. ~Valid(T) /\ ~Valid(S)
    BY Zenon, <1>5, <1>6, <1>7, <1>12, <2>1
  <2>3. \A j \in 0 .. 1 : ~Valid(ms[j])
    BY Zenon, <1>8, <2>2
  <2>4. /\ Latest(ms).seq = 0 /\ Latest(ms).mark = 0
        /\ Latest(ms).pay.at = [k \in Keys |-> None]
    BY Zenon, <2>3, LatestIsEmpty
  <2> QED BY Zenon, <1>5, <2>1, <2>3, <2>4
<1> QED BY Zenon, <1>10, <1>11, <1>12

\* Recovery numbers its checkpoints on from the one it loaded, and counts anew.
LEMMA StartCheckpoints ==
    ASSUME Inv, Writes, NEW ms \in [0 .. 1 -> Container], NEW d, Turns(ms), Durable(ms),
           Start(ms, d)
    PROVE  Checkpoints'
<1> DEFINE m == Latest(ms)
           loaded == [k \in Keys |-> IF Stale(k, m.pay, d) THEN None ELSE m.pay.at[k]]
<1>1. /\ meta' = ms /\ seq' = m.seq /\ persisted' = 0 /\ ckpt' = NoCkpt
      /\ at' = loaded /\ dirty' = IF loaded = m.pay.at THEN 0 ELSE 1
  BY Zenon DEF Start
<1>2. Writes'
  <2>1. persisted' = 0 /\ (dirty' = 0 \/ dirty' = 1) /\ ckpt'.pc = "idle"
    BY Zenon, <1>1 DEF NoCkpt
  <2> QED BY SMTT(30), <2>1 DEF Writes
<1> HIDE DEF m, loaded
<1>3. dirty' = persisted' => m.pay.at = at'
  <2>1. CASE loaded = m.pay.at
    BY Zenon, <1>1, <2>1
  <2>2. CASE loaded # m.pay.at
    <3>1. dirty' = 1 /\ persisted' = 0
      BY Zenon, <1>1, <2>2
    <3> QED BY <3>1
  <2> QED BY Zenon, <2>1, <2>2
<1>4. CASE seq = 0 /\ \A j \in 0 .. 1 : ~Valid(ms[j])
  <2>1. m.seq = 0 /\ m.pay.at = [k \in Keys |-> None]
    BY ZenonT(30), <1>4, LatestIsEmpty DEF m
  <2>2. seq' = 0 /\ Target' = Target /\ Spared' = Spared
    BY SMTT(30), <1>1, <1>4, <2>1 DEF Target, Spared
  <2>3. /\ Target \in 0 .. 1 /\ Spared \in 0 .. 1
        /\ ms[Spared].mark \in Nat /\ ms[Target].mark \in Nat
    BY Zenon, TwoContainers DEF Inv, Container
  <2>4. Durable(meta)'
    BY Zenon, <1>1, <1>3, <1>4, <2>1, <2>2, <2>3 DEF Durable
  <2> QED BY Zenon, <1>1, <1>2, <2>4 DEF Checkpoints, Turns
<1>5. ASSUME NEW i \in 0 .. 1, Valid(ms[i]), m = ms[i],
             \A j \in 0 .. 1 : j # i /\ Valid(ms[j]) => ms[j].seq < ms[i].seq
      PROVE  Checkpoints'
  <2>1. ms[i] \in Container /\ ms[1 - i] \in Container /\ 1 - i \in 0 .. 1
    BY SMTT(30)
  <2>2. /\ ms[i].seq \in Nat /\ ms[i].seq > 0 /\ (ms[i].seq + 1) % 2 = i
        /\ ms[1 - i].seq \in Nat /\ ms[i].mark \in Nat /\ ms[1 - i].mark \in Nat
    BY SMTT(30), <2>1, <1>5 DEF Turns, Valid, Container
  <2>3. seq' = ms[i].seq /\ Spared' = i /\ Target' = 1 - i
    BY SMTT(30), <1>1, <1>5, <2>2 DEF Target, Spared
  <2>4. ~(Valid(ms[1 - i]) /\ ms[1 - i].seq > ms[i].seq)
    BY <1>5, <2>1, <2>2
  <2>5. Durable(meta)'
    <3>1. /\ meta'[Spared'].seq = seq' /\ Valid(meta'[Spared'])
          /\ meta'[Spared'].mark >= persisted' /\ seq' > 0
      BY <1>1, <1>5, <2>2, <2>3
    <3>2. dirty' = persisted' => meta'[Spared'].pay.at = at'
      BY SMTT(30), <1>1, <1>3, <1>5, <2>3
    <3>3. meta'[Target'].seq > seq' =>
             meta'[Target'].mark >= persisted' /\ ~Valid(meta'[Target'])
      BY SMTT(30), <1>1, <2>2, <2>3, <2>4
    <3>4. seq' # 0
      BY <3>1
    <3> QED BY Zenon, <3>1, <3>2, <3>3, <3>4 DEF Durable, Valid
  <2>6. Turns(meta)'
    BY Zenon, <1>1 DEF Turns
  <2> QED BY Zenon, <1>2, <2>5, <2>6 DEF Checkpoints
<1> QED BY Zenon, <1>4, <1>5, LatestIsDurable DEF m

\* A completed checkpoint becomes the spared container, its target the other one.
LEMMA WriteCheckpoints ==
    ASSUME Inv, Checkpoints, WriteCheckpoint PROVE Checkpoints'
<1> DEFINE new == Checkpoint(ckpt.snap, ckpt.mark)
<1>1. /\ ckpt.pc = "write" /\ seq' = seq + 1 /\ persisted' = Max({persisted, ckpt.mark})
      /\ meta' = [meta EXCEPT ![Target] = new] /\ dirty' = dirty /\ at' = at
      /\ ckpt' = AfterCheckpoint
  BY Zenon DEF WriteCheckpoint
<1>2. /\ Target \in 0 .. 1 /\ Spared \in 0 .. 1 /\ Target # Spared
      /\ \A i \in 0 .. 1 : i = Target \/ i = Spared
      /\ (seq + 1) % 2 = Spared
  BY Zenon, TwoContainers DEF Inv
<1>3. /\ seq \in Nat /\ persisted \in Nat /\ dirty \in Nat /\ ckpt.mark \in Nat
      /\ persisted < ckpt.mark /\ ckpt.mark <= dirty
      /\ ckpt.mark = dirty => ckpt.snap.at = at
      /\ meta \in [0 .. 1 -> Container]
  BY Zenon, <1>1 DEF Inv, TypeOK, Recoverable, Checkpoints, Writes
<1>4. persisted' = ckpt.mark
  BY <1>1, <1>3 DEF Max
<1>5. Target' = Spared /\ Spared' = Target
  BY SMTT(30), <1>1, <1>2, <1>3 DEF Target, Spared
<1>6. /\ new.seq = seq + 1 /\ new.mark = ckpt.mark /\ new.pay = ckpt.snap /\ Valid(new)
  BY <1>3 DEF Checkpoint, Valid
<1> HIDE DEF new
<1>7. meta'[Target] = new /\ meta'[Spared] = meta[Spared]
  BY SMTT(30), <1>1, <1>2, <1>3
<1>8. Writes'
  BY SMTT(30), <1>1, <1>3, <1>4 DEF Writes, AfterCheckpoint, NoCkpt
<1>9. Turns(meta)'
  <2>1. meta'[Target].seq > 0 => (meta'[Target].seq + 1) % 2 = Target
    <3>1. (seq + 1 + 1) % 2 = Target
      BY <1>3 DEF Target
    <3> QED BY Zenon, <1>6, <1>7, <3>1
  <2>2. meta'[Spared].seq > 0 => (meta'[Spared].seq + 1) % 2 = Spared
    BY SMTT(30), <1>2, <1>7 DEF Checkpoints, Turns
  <2> QED BY SMTT(30), <1>2, <2>1, <2>2 DEF Turns
<1>10. Durable(meta)'
  <2>0. meta'[Spared'] = new
    BY Zenon, <1>5, <1>7
  <2>1. /\ meta'[Spared'].seq = seq' /\ Valid(meta'[Spared']) /\ seq' # 0
        /\ meta'[Spared'].mark >= persisted'
        /\ dirty' = persisted' => meta'[Spared'].pay.at = at'
    <3>0. seq' = seq + 1 /\ seq \in Nat /\ ckpt.mark \in Nat
      BY Zenon, <1>1, <1>3
    <3>1. new.seq = seq' /\ seq' # 0 /\ new.mark >= persisted'
      BY SMTT(30), <3>0, <1>4, <1>6
    <3>2. dirty' = persisted' => new.pay.at = at'
      BY SMTT(30), <1>1, <1>3, <1>4, <1>6
    <3> QED BY <2>0, <3>1, <3>2, <1>6, Zenon
  <2>2. ~(meta'[Target'].seq > seq')
    BY SMTT(30), <1>1, <1>3, <1>5, <1>7 DEF Checkpoints, Durable
  <2> QED BY Zenon, <2>1, <2>2 DEF Durable, Valid
<1> QED BY Zenon, <1>8, <1>9, <1>10 DEF Checkpoints

\* Steps that change no container: whatever changes the index counts as dirt.
LEMMA CheckpointsUnmoved ==
    ASSUME Inv, Checkpoints, UNCHANGED <<seq, meta, persisted>>,
           dirty' \in Nat, dirty' >= dirty, at' # at => dirty' > dirty,
           \/ ckpt' = ckpt \/ ckpt'.pc \notin {"snapshot", "write"}
           \/ ckpt'.pc = "snapshot" /\ dirty > persisted
           \/ ckpt'.pc = "write" /\ ckpt.pc = "snapshot" /\ ckpt'.mark = dirty /\ ckpt'.snap.at = at
    PROVE  Checkpoints'
<1>1. /\ seq \in Nat /\ dirty \in Nat /\ persisted \in Nat /\ persisted <= dirty
      /\ ckpt.pc = "write" => ckpt.mark \in Nat
  BY SMTT(30) DEF Inv, TypeOK, Recoverable, Checkpoints, Writes
<1>2. Target' = Target /\ Spared' = Spared
  BY Zenon DEF Target, Spared
<1>3. Writes'
  BY SMTT(30), <1>1 DEF Checkpoints, Writes
<1>4. Durable(meta)'
  <2>1. dirty' = persisted => dirty = persisted /\ at' = at
    BY <1>1
  <2>2. dirty > persisted => dirty' > persisted
    BY <1>1
  <2>3. meta' = meta /\ seq' = seq /\ persisted' = persisted /\ Durable(meta)
    BY Zenon DEF Checkpoints
  <2> QED BY Zenon, <1>2, <2>1, <2>2, <2>3 DEF Durable
<1> QED BY SMTT(30), <1>3, <1>4 DEF Checkpoints, Turns

\* Every step keeps the containers durable.
LEMMA CheckpointsStep == Inv /\ Checkpoints /\ [Next]_vars => Checkpoints'
<1> SUFFICES ASSUME Inv, Checkpoints, [Next]_vars PROVE Checkpoints'
  BY Zenon
<1>0. dirty \in Nat
  BY Zenon DEF Inv, TypeOK
<1>1. CASE \E K \in Batches : Reserve(K)
  <2>1. UNCHANGED <<seq, meta, persisted, ckpt, dirty, at>>
    BY Zenon, <1>1 DEF Reserve, mvars, dvars
  <2> QED BY <1>0, <2>1, CheckpointsUnmoved
<1>2. CASE \E k \in Keys : PrepareFails(k) \/ Submit(k)
  <2>1. PICK k \in Keys : PrepareFails(k) \/ Submit(k)
    BY Zenon, <1>2
  <2>2. UNCHANGED <<seq, meta, persisted, ckpt, at>> /\ (dirty' = dirty + 1 \/ dirty' = dirty)
    BY Zenon, <2>1 DEF PrepareFails, Submit, mvars, dvars
  <2> QED BY <1>0, <2>2, CheckpointsUnmoved
<1>3. CASE \E k \in Keys : Commit(k) \/ WriteFails(k)
  <2>1. PICK k \in Keys : Commit(k) \/ WriteFails(k)
    BY Zenon, <1>3
  <2>2. inflight[k] # None
    BY Zenon, <2>1 DEF Commit, WriteFails, Writing
  <2>3. inflight[k].batch \subseteq Keys /\ k \in inflight[k].batch
    BY SMTT(30), <2>2, BatchTyped
  <2>4. Cardinality(inflight[k].batch) \in Nat /\ Cardinality(inflight[k].batch) # 0
    BY Zenon, <2>3, FS_Subset, FS_EmptySet, FS_CardinalityType, RawBlockAssumption
  <2>5. /\ dirty' = dirty + Cardinality(inflight[k].batch)
        /\ UNCHANGED <<seq, meta, persisted, ckpt>>
    BY Zenon, <2>1 DEF Commit, WriteFails
  <2> QED BY <1>0, <2>4, <2>5, CheckpointsUnmoved
<1>4. CASE \E k \in Keys : Delete(k)
  <2>1. PICK k \in Keys : Delete(k)
    BY Zenon, <1>4
  <2>2. /\ at' = [at EXCEPT ![k] = None]
        /\ dirty' = IF at[k] # None THEN dirty + 1 ELSE dirty
        /\ UNCHANGED <<seq, meta, persisted, ckpt>>
    BY Zenon, <2>1 DEF Delete, dvars
  <2>3. at[k] = None => at' = at
    BY Zenon, <2>2 DEF Inv, TypeOK
  <2> QED BY <1>0, <2>2, <2>3, CheckpointsUnmoved
<1>5. CASE \E c \in Clients :
             \/ \E k \in Keys : LookupAndLock(c, k)
             \/ StartLoad(c) \/ FinishLoad(c) \/ Unlock(c)
  <2> DEFINE Same == UNCHANGED <<seq, meta, persisted, ckpt, dirty, at>>
  <2>0. PICK c \in Clients : \/ \E k \in Keys : LookupAndLock(c, k)
                            \/ StartLoad(c) \/ FinishLoad(c) \/ Unlock(c)
    BY Zenon, <1>5
  <2>1. Same
    <3>1. CASE \E k \in Keys : LookupAndLock(c, k)
      BY SMTT(30), <3>1 DEF LookupAndLock, dvars, mvars
    <3>2. CASE StartLoad(c) \/ FinishLoad(c)
      BY Zenon, <3>2 DEF StartLoad, FinishLoad, dvars, mvars
    <3>3. CASE Unlock(c)
      BY Zenon, <3>3 DEF Unlock, dvars, mvars
    <3> QED BY Zenon, <2>0, <3>1, <3>2, <3>3
  <2> QED BY <1>0, <2>1, CheckpointsUnmoved
<1>6. CASE \E force \in BOOLEAN : Check(force)
  <2>1. UNCHANGED <<seq, meta, persisted, dirty, at>>
    BY SMTT(30), <1>6 DEF Check, dvars
  <2>2. \/ ckpt'.pc \notin {"snapshot", "write"}
        \/ ckpt'.pc = "snapshot" /\ dirty > persisted
    BY <1>6 DEF Check, NoCkpt
  <2> QED BY SMTT(30), <1>0, <2>1, <2>2, CheckpointsUnmoved
<1>7. CASE TakeSnapshot
  <2>1. UNCHANGED <<seq, meta, persisted, dirty, at>>
    BY SMTT(30), <1>7 DEF TakeSnapshot, dvars, mvars
  <2>2. ckpt'.pc = "write" /\ ckpt.pc = "snapshot" /\ ckpt'.mark = dirty /\ ckpt'.snap.at = at
    BY Zenon, <1>7 DEF TakeSnapshot, Snapshot
  <2> QED BY SMTT(30), <1>0, <2>1, <2>2, CheckpointsUnmoved
<1>8. CASE TooLarge \/ Close
  <2>1. UNCHANGED <<seq, meta, persisted, dirty, at>>
    BY ZenonT(30), <1>8 DEF TooLarge, Close, dvars, mvars
  <2>2. ckpt' = ckpt \/ ckpt'.pc \notin {"snapshot", "write"}
    BY <1>8 DEF TooLarge, Close, AfterCheckpoint, NoCkpt
  <2> QED BY <1>0, <2>1, <2>2, CheckpointsUnmoved
<1>9. CASE WriteCheckpoint
  BY Zenon, <1>9, WriteCheckpoints
<1>10. CASE CheckpointFails
  <2>1. /\ UNCHANGED <<seq, persisted, dirty, at>> /\ ckpt' = AfterCheckpoint
        /\ meta' \in PartialMeta
    BY Zenon, <1>10 DEF CheckpointFails, mvars
  <2>2. Turns(meta') /\ Durable(meta')
    BY SMTT(30), <2>1, PartialIsDurable
  <2>3. Writes'
    BY Zenon, <2>1 DEF Checkpoints, Writes, AfterCheckpoint, NoCkpt
  <2>4. Target' = Target /\ Spared' = Spared
    BY Zenon, <2>1 DEF Target, Spared
  <2>5. Turns(meta)' /\ Durable(meta)'
    BY Zenon, <2>1, <2>2, <2>4 DEF Turns, Durable
  <2> QED BY Zenon, <2>3, <2>5 DEF Checkpoints
<1>11. CASE Crash
  <2>1. PICK d \in PartialSlots(Writing), ms \in PartialMeta : Start(ms, d)
    BY Zenon, <1>11 DEF Crash
  <2>2. ms \in [0 .. 1 -> Container] /\ Turns(ms) /\ Durable(ms)
    BY SMTT(30), PartialIsRecoverable, PartialIsDurable
  <2> QED BY Zenon, <2>1, <2>2, StartCheckpoints DEF Checkpoints
<1>12. CASE Restart
  BY Zenon, <1>12, StartCheckpoints DEF Restart, Checkpoints, Inv, TypeOK
<1>13. CASE UNCHANGED vars
  <2>1. UNCHANGED <<seq, meta, persisted, ckpt, dirty, at>>
    BY Zenon, <1>13 DEF vars, dvars, mvars
  <2> QED BY <1>0, <2>1, CheckpointsUnmoved
<1> QED BY Zenon, <1>1, <1>2, <1>3, <1>4, <1>5, <1>6, <1>7, <1>8, <1>9, <1>10, <1>11, <1>12, <1>13
        DEF Next

\* A new device has two blank containers.
LEMMA CheckpointsInit == Init => Checkpoints
<1> SUFFICES ASSUME Init PROVE Checkpoints
  BY Zenon
<1>0. /\ dirty = 0 /\ persisted = 0 /\ seq = 0 /\ ckpt = NoCkpt /\ at = [k \in Keys |-> None]
      /\ meta = [i \in 0 .. 1 |-> Blank]
  BY Zenon DEF Init
<1>1. Target = 0 /\ Spared = 1
  BY <1>0 DEF Target, Spared
<1>2. \A i \in 0 .. 1 : meta[i].seq = 0 /\ meta[i].mark = 0
  BY Zenon, <1>0 DEF Blank
<1>3. ckpt.pc = "idle"
  BY Zenon, <1>0 DEF NoCkpt
<1>4. Writes
  BY <1>0, <1>3 DEF Writes
<1>5. Turns(meta)
  <2>1. ~(0 > 0)
    OBVIOUS
  <2> QED BY Zenon, <1>2, <2>1 DEF Turns
<1>6. Durable(meta)
  <2>1. ~(0 > 0) /\ 0 >= 0
    OBVIOUS
  <2>2. /\ meta[Spared].seq = 0 /\ meta[Spared].mark = 0 /\ meta[Target].seq = 0
    <3>1. 0 \in 0 .. 1 /\ 1 \in 0 .. 1
      OBVIOUS
    <3> QED BY Zenon, <1>1, <1>2, <3>1
  <2> QED BY Zenon, <1>0, <2>1, <2>2 DEF Durable
<1> QED BY Zenon, <1>4, <1>5, <1>6 DEF Checkpoints

\* PersistedIsOnDevice, which the raw_block run checks on two keys, for any number
\* of changes, failures and crashes: at every moment the newest valid container
\* holds what _meta_persisted counts, whatever a checkpoint under way has written
\* so far (_write_checkpoint, _select_latest_checkpoint).
THEOREM PersistedStaysOnDevice == Spec => []PersistedIsOnDevice
<1>1. Inv /\ Checkpoints => PersistedIsOnDevice
  <2> SUFFICES ASSUME Inv, Checkpoints, NEW ms \in PartialMeta
               PROVE  /\ Latest(ms).mark >= persisted
                      /\ Latest(ms).seq >= seq
                      /\ dirty = persisted => Latest(ms).pay.at = at
    BY Zenon DEF PersistedIsOnDevice
  <2>1. ms \in [0 .. 1 -> Container] /\ Turns(ms) /\ Durable(ms)
    BY Zenon, PartialIsRecoverable, PartialIsDurable
  <2> QED BY Zenon, <2>1, LatestIsDurable DEF Checkpoints
<1> QED BY <1>1, InvInit, InvStep, CheckpointsInit, CheckpointsStep, PTL DEF Spec

----------------------------------------------------------------------------
\* The overdue rule

\* Unless a checkpoint failed, what the check before last saw is persisted when the
\* loop waits again, and what the last one saw too if it set no dirty_since.
Overdue ==
    /\ failures \in Nat /\ since \in BOOLEAN /\ seen \in [old : Nat, new : Nat]
    /\ seen.old <= seen.new /\ seen.new <= dirty
    /\ failures = 0 =>
         /\ ckpt.pc = "idle" => persisted >= seen.old /\ (~since => persisted >= seen.new)
         /\ ckpt.pc = "write" => ckpt.mark >= seen.new

\* More dirt, or the end of a checkpoint that failed, changes nothing in that.
LEMMA OverdueUnmoved ==
    ASSUME Inv, Checkpoints, Overdue, UNCHANGED <<persisted, since, seen>>,
           dirty' \in Nat, dirty' >= dirty,
           (failures' = failures /\ ckpt' = ckpt) \/ failures' = failures + 1
    PROVE  Overdue'
<1>1. dirty \in Nat
  BY SMTT(30) DEF Inv, TypeOK
<1> QED BY <1>1 DEF Overdue

\* Every step keeps the loop on time.
LEMMA OverdueStep == Inv /\ Checkpoints /\ Overdue /\ [Next]_vars => Overdue'
<1> SUFFICES ASSUME Inv, Checkpoints, Overdue, [Next]_vars PROVE Overdue'
  BY SMTT(30)
<1>0. dirty \in Nat /\ persisted \in Nat
  BY Zenon DEF Inv, TypeOK, Checkpoints, Writes
<1>1. CASE \E K \in Batches : Reserve(K)
  <2>1. UNCHANGED <<persisted, since, seen, dirty, failures, ckpt>>
    BY Zenon, <1>1 DEF Reserve, mvars
  <2> QED BY <1>0, <2>1, OverdueUnmoved
<1>2. CASE \E k \in Keys : PrepareFails(k) \/ Submit(k) \/ Delete(k)
  <2>1. /\ UNCHANGED <<persisted, since, seen, ckpt>>
        /\ dirty' = dirty \/ dirty' = dirty + 1
        /\ failures' = failures \/ failures' = failures + 1
    BY Zenon, <1>2 DEF PrepareFails, Submit, Delete, mvars
  <2> QED BY <1>0, <2>1, OverdueUnmoved
<1>3. CASE \E k \in Keys : Commit(k) \/ WriteFails(k)
  <2>1. PICK k \in Keys : Commit(k) \/ WriteFails(k)
    BY Zenon, <1>3
  <2>2. inflight[k] # None
    BY Zenon, <2>1 DEF Commit, WriteFails, Writing
  <2>3. Cardinality(inflight[k].batch) \in Nat
    BY Zenon, <2>2, BatchTyped, FS_Subset, FS_CardinalityType, RawBlockAssumption
  <2>4. /\ dirty' = dirty + Cardinality(inflight[k].batch)
        /\ UNCHANGED <<persisted, since, seen, ckpt>>
        /\ failures' = failures \/ failures' = failures + 1
    BY Zenon, <2>1 DEF Commit, WriteFails
  <2> QED BY <1>0, <2>3, <2>4, OverdueUnmoved
<1>4. CASE \E c \in Clients :
             \/ \E k \in Keys : LookupAndLock(c, k)
             \/ StartLoad(c) \/ FinishLoad(c) \/ Unlock(c)
  <2>1. UNCHANGED <<persisted, since, seen, dirty, failures, ckpt>>
    BY Zenon, <1>4 DEF LookupAndLock, StartLoad, FinishLoad, Unlock, mvars
  <2> QED BY <1>0, <2>1, OverdueUnmoved
<1>5. CASE \E force \in BOOLEAN : Check(force)
  <2>1. PICK force \in BOOLEAN, quiet \in BOOLEAN :
           /\ ckpt.pc = "idle"
           /\ ckpt' = IF dirty > persisted /\ (force \/ quiet \/ since)
                      THEN [pc |-> "snapshot"]
                      ELSE IF force THEN [pc |-> "closed"] ELSE NoCkpt
           /\ since' = (dirty > persisted)
           /\ seen' = [old |-> seen.new, new |-> dirty]
           /\ UNCHANGED <<dirty, persisted, failures>>
    BY SMTT(30), <1>5 DEF Check
  <2>2. /\ seen'.old = seen.new /\ seen'.new = dirty /\ seen' \in [old : Nat, new : Nat]
        /\ since' \in BOOLEAN /\ ckpt'.pc # "write"
    BY <1>0, <2>1 DEF Overdue, NoCkpt
  <2>3. ASSUME failures = 0, ckpt'.pc = "idle"
        PROVE  persisted >= seen.new /\ (~since' => persisted >= dirty)
    <3>1. dirty <= persisted \/ ~since
      BY SMTT(30), <1>0, <2>1, <2>3 DEF NoCkpt
    <3>2. seen.new \in Nat /\ seen.new <= dirty /\ (~since => persisted >= seen.new)
      BY Zenon, <2>1, <2>3 DEF Overdue
    <3>3. persisted >= seen.new
      BY <1>0, <3>1, <3>2
    <3>4. ~since' => ~(dirty > persisted)
      BY Zenon, <2>1
    <3> QED BY <1>0, <3>3, <3>4
  <2>4. failures' \in Nat /\ seen'.old <= seen'.new /\ seen'.new <= dirty'
    BY <1>0, <2>1, <2>2 DEF Overdue
  <2>5. failures' = 0 /\ ckpt'.pc = "idle" =>
           persisted' >= seen'.old /\ (~since' => persisted' >= seen'.new)
    BY Zenon, <2>1, <2>2, <2>3
  <2> QED BY Zenon, <2>2, <2>4, <2>5 DEF Overdue
<1>6. CASE TakeSnapshot
  <2>1. /\ ckpt'.pc = "write" /\ ckpt'.mark = dirty
        /\ UNCHANGED <<dirty, persisted, since, seen, failures>>
    BY SMTT(30), <1>6 DEF TakeSnapshot, mvars
  <2> QED BY Zenon, <1>0, <2>1 DEF Overdue
<1>7. CASE TooLarge \/ CheckpointFails
  BY SMTT(30), <1>0, <1>7, OverdueUnmoved DEF TooLarge, CheckpointFails, mvars
<1>8. CASE Close
  BY <1>0, <1>8, OverdueUnmoved DEF Close, mvars
<1>9. CASE WriteCheckpoint
  <2>1. /\ ckpt.pc = "write" /\ persisted' = Max({persisted, ckpt.mark}) /\ since' = TRUE
        /\ UNCHANGED <<dirty, seen, failures>> /\ ckpt' = AfterCheckpoint
    BY SMTT(30), <1>9 DEF WriteCheckpoint
  <2>2. persisted < ckpt.mark /\ ckpt.mark \in Nat
    BY Zenon, <2>1 DEF Checkpoints, Writes, Inv, Recoverable
  <2>3. persisted' = ckpt.mark
    BY <1>0, <2>1, <2>2 DEF Max
  <2>4. ckpt'.pc # "write"
    BY SMTT(30), <2>1 DEF AfterCheckpoint, NoCkpt
  <2> QED BY <1>0, <2>1, <2>2, <2>3, <2>4 DEF Overdue
<1>10. CASE Crash \/ Restart
  <2>1. PICK ms, d : Start(ms, d) /\ failures' = failures
    BY Zenon, <1>10 DEF Crash, Restart
  <2>2. /\ dirty' \in {0, 1} /\ persisted' = 0 /\ since' = FALSE
        /\ seen' = [old |-> 0, new |-> 0] /\ ckpt' = NoCkpt
    BY Zenon, <2>1 DEF Start
  <2>3. /\ seen' \in [old : Nat, new : Nat] /\ seen'.old = 0 /\ seen'.new = 0
        /\ since' \in BOOLEAN /\ ckpt'.pc = "idle"
    BY Zenon, <2>2 DEF NoCkpt
  <2> QED BY <2>1, <2>2, <2>3 DEF Overdue
<1>11. CASE UNCHANGED vars
  BY <1>0, <1>11, OverdueUnmoved DEF vars, mvars
<1> QED BY Zenon, <1>1, <1>2, <1>3, <1>4, <1>5, <1>6, <1>7, <1>8, <1>9, <1>10, <1>11 DEF Next

\* OneExtraInterval, which the raw_block run checks with four changes, for any
\* number of them: a busy device delays a checkpoint by one interval and no more
\* (_checkpoint_once).
THEOREM CheckpointsAreNotHeldOff == Spec => []OneExtraInterval
<1>1. Init => Overdue
  <2> SUFFICES ASSUME Init PROVE Overdue
    BY SMTT(30)
  <2>1. seen = [old |-> 0, new |-> 0] /\ ckpt.pc = "idle" /\ since = FALSE
    BY Zenon DEF Init, NoCkpt
  <2>2. failures = 0 /\ persisted = 0 /\ dirty = 0
    BY Zenon DEF Init
  <2>3. seen \in [old : Nat, new : Nat] /\ seen.old = 0 /\ seen.new = 0 /\ since \in BOOLEAN
    BY Zenon, <2>1
  <2> QED BY <2>1, <2>2, <2>3 DEF Overdue
<1>2. Overdue => OneExtraInterval
  BY Zenon DEF Overdue, OneExtraInterval
<1> QED
  BY <1>1, <1>2, InvInit, InvStep, CheckpointsInit, CheckpointsStep, OverdueStep, PTL DEF Spec
=============================================================================
