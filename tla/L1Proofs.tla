------------------------------ MODULE L1Proofs ------------------------------
(***************************************************************************)
(* L1Manager for every set of keys, tags, buffers and sizes: its types,    *)
(* exclusive ownership of buffers, and what a step may never do to a       *)
(* reader or a writer.  Then L1Clients for every number of writers and     *)
(* readers: a client that is within its TTL keeps what it was given.       *)
(* Writers need a tag each; readers must not finish late, because a read   *)
(* lock does not say whose it is.                                          *)
(***************************************************************************)
EXTENDS L1Clients, TLAPS

\* The inductive invariant.  The value of stagingBytes plays no part in it.
Inv == TypeOK /\ BufferOwnership

----------------------------------------------------------------------------
\* Types

\* Lock and Unlock keep an object's buffer and temporary flag.
LEMMA LockType ==
    ASSUME NEW o \in Resident, NEW n \in Nat, o.locks + n <= MaxLocks
    PROVE  Lock(o, n) \in Resident /\ Lock(o, n).buf = o.buf
BY L1Assumption DEF Lock, Resident

\* finish_read never takes a lock count below zero.
LEMMA UnlockType ==
    ASSUME NEW o \in Resident, NEW n \in Nat
    PROVE  Unlock(o, n) \in Resident /\ Unlock(o, n).buf = o.buf
BY L1Assumption DEF Unlock, Resident

\* A staged object becomes a resident one on the same buffer.
LEMMA AdmitType ==
    ASSUME TypeOK, NEW k \in Keys, NEW t \in Tags, IsStaged(k, t), NEW n \in 0..MaxLocks
    PROVE  Admit(k, t, n) \in Resident /\ Admit(k, t, n).buf = staging[k][t].buf
BY Zenon DEF Admit, Resident, Staged, TypeOK, IsStaged

\* A handover keeps the buffer.
LEMMA ReholdType ==
    ASSUME NEW o \in Staged, NEW b \in BOOLEAN
    PROVE  Rehold(o, b) \in Staged /\ Rehold(o, b).buf = o.buf
BY Zenon DEF Rehold, Staged

\* A new reservation is a staging object on its buffer.
LEMMA NewStagedType ==
    ASSUME NEW buf \in Bufs, NEW b \in BOOLEAN, NEW size \in Sizes
    PROVE  NewStaged(buf, b, size) \in Staged /\ NewStaged(buf, b, size).buf = buf
BY Zenon DEF NewStaged, Staged

\* _pop_staging leaves a staging table.
LEMMA PopType ==
    ASSUME TypeOK, NEW S, PopStaging(S)
    PROVE  staging' \in [Keys -> [Tags -> Staged \cup {None}]]
BY Zenon DEF PopStaging, TypeOK

\* Every state is well typed at the start.
LEMMA InitType == Init => TypeOK
BY Zenon DEF Init, TypeOK

\* Every step keeps the state well typed.
LEMMA NextType == TypeOK /\ [Next]_vars => TypeOK'
<1> SUFFICES ASSUME TypeOK, [Next]_vars PROVE TypeOK'
    BY Zenon
<1>1. ASSUME NEW K \in Batches, NEW n \in LockCounts, ReserveRead(K, n) PROVE TypeOK'
    <2>1. \A k \in K : IsResident(k) => Lock(objects[k], n) \in Resident
        BY <1>1, LockType DEF ReserveRead, WithinBound, TypeOK, IsResident, Batches, LockCounts
    <2> QED BY Zenon, <1>1, <2>1 DEF ReserveRead, TypeOK
<1>2. ASSUME NEW K \in Batches, NEW n \in LockCounts, FinishRead(K, n) PROVE TypeOK'
    <2>1. \A k \in K : ReadLocked(k) => Unlock(objects[k], n) \in Resident
        BY UnlockType DEF TypeOK, ReadLocked, IsResident, Batches, LockCounts
    <2> QED BY Zenon, <1>2, <2>1 DEF FinishRead, TypeOK
<1>3. ASSUME NEW K \in Batches, NEW t \in Tags, NEW T \in SUBSET K, NEW size \in Sizes,
             ReserveWrite(K, T, t, size)
      PROVE TypeOK'
    <2>1. PICK f \in Allocations(NeedToAllocate(K, t)) :
             /\ staging' = StagingWith(K, T, t, f, size)
             /\ allocated' = allocated \cup {f[k] : k \in DOMAIN f}
             /\ objects' = objects
        BY Zenon, <1>3 DEF ReserveWrite
    <2>2. f \in [NeedToAllocate(K, t) -> Bufs]
        BY Zenon DEF Allocations
    <2>3. \A k \in HandedOver(K, t) :
             Rehold(staging[k][t], k \in T) \in Staged
        <3> TAKE k \in HandedOver(K, t)
        <3>1. (k \in T) \in BOOLEAN /\ staging[k][t] \in Staged
            BY DEF HandedOver, IsStaged, TypeOK, Batches
        <3> QED BY Zenon, <3>1, ReholdType
    <2>4. \A k \in DOMAIN f : NewStaged(f[k], k \in T, size) \in Staged
        <3> TAKE k \in DOMAIN f
        <3>1. (k \in T) \in BOOLEAN /\ f[k] \in Bufs
            BY <2>2
        <3> QED BY Zenon, <3>1, NewStagedType
    <2>5. staging' \in [Keys -> [Tags -> Staged \cup {None}]]
        BY Zenon, <2>1, <2>3, <2>4 DEF StagingWith, TypeOK
    <2> QED BY Zenon, <2>1, <2>2, <2>5 DEF TypeOK
<1>4. ASSUME NEW K \in Batches, NEW t \in Tags, NEW T \in SUBSET K,
             ReserveWriteOutOfMemory(K, T, t)
      PROVE TypeOK'
    <2>1. \A k \in HandedOver(K, t) :
             Rehold(staging[k][t], k \in T) \in Staged
        <3> TAKE k \in HandedOver(K, t)
        <3>1. (k \in T) \in BOOLEAN /\ staging[k][t] \in Staged
            BY DEF HandedOver, IsStaged, TypeOK, Batches
        <3> QED BY Zenon, <3>1, ReholdType
    <2> QED BY Zenon, <1>4, <2>1 DEF ReserveWriteOutOfMemory, TypeOK
<1>5. ASSUME NEW K \in Batches, NEW t \in Tags, FinishWrite(K, t) PROVE TypeOK'
    <2>1. \A k \in Admitted(K, t) : Admit(k, t, 0) \in Resident
        BY AdmitType, L1Assumption DEF Admitted, Taken, IsLive, Batches
    <2> QED BY Zenon, <1>5, <2>1, PopType DEF FinishWrite, TypeOK
<1>6. ASSUME NEW K \in Batches, NEW t \in Tags, NEW n \in LockCounts,
             FinishWriteAndReserveRead(K, n, t)
      PROVE TypeOK'
    <2>1. \A k \in Admitted(K, t) : Admit(k, t, n) \in Resident
        BY AdmitType, L1Assumption DEF Admitted, Taken, IsLive, Batches, LockCounts
    <2>2. \A k \in Discarded(K, t) : Lock(objects[k], n) \in Resident
        BY <1>6, LockType DEF FinishWriteAndReserveRead, WithinBound, Discarded, Taken, TypeOK,
            IsResident, Batches, LockCounts
    <2> QED BY Zenon, <1>6, <2>1, <2>2, PopType DEF FinishWriteAndReserveRead, TypeOK
<1>7. ASSUME NEW K \in Batches, NEW t \in Tags, FinishWriteAndDelete(K, t) PROVE TypeOK'
    BY Zenon, <1>7, PopType DEF FinishWriteAndDelete, TypeOK
<1>8. ASSUME NEW R, NEW S, RemoveAll(R, S) PROVE TypeOK'
    BY Zenon, <1>8, PopType DEF RemoveAll, TypeOK
<1>9. ASSUME NEW k \in Keys, ExpireRead(k) PROVE TypeOK'
    BY <1>9, L1Assumption DEF ExpireRead, ReadLocked, IsResident, TypeOK, Resident
<1>10. ASSUME NEW k \in Keys, NEW t \in Tags, ExpireWrite(k, t) PROVE TypeOK'
    <2>1. staging[k][t] \in Staged
        BY Zenon, <1>10 DEF ExpireWrite, IsLive, IsStaged, TypeOK
    <2>2. \A o \in Staged : [o EXCEPT !.held = FALSE] \in Staged
        BY Zenon DEF Staged
    <2> QED BY Zenon, <1>10, <2>1, <2>2 DEF ExpireWrite, TypeOK
<1>11. ASSUME NEW k \in Keys, NEW t \in Tags, NEW size \in Sizes, SetUsedSize(k, t, size)
       PROVE TypeOK'
    <2>1. [staging[k][t] EXCEPT !.size = size] \in Staged
        BY <1>11 DEF SetUsedSize, IsStaged, TypeOK, Staged
    <2> QED BY Zenon, <1>11, <2>1 DEF SetUsedSize, TypeOK
<1>12. CASE UNCHANGED vars
    BY Zenon, <1>12 DEF vars, TypeOK
<1> QED
    BY Zenon, <1>1, <1>2, <1>3, <1>4, <1>5, <1>6, <1>7, <1>8, <1>9, <1>10, <1>11, <1>12
    DEF Next, Unforced, ReaderStep, WriterStep, DeleteStep, ExpiryStep, Forced, Delete, Clear

----------------------------------------------------------------------------
\* Buffer ownership.  Two ways a step changes who refers to what, stated
\* on the map from places to buffers.

\* Freeing the buffers of some places.
LEMMA DropOwns ==
    ASSUME NEW m, NEW A, Owns(m, A), NEW mm, NEW AA,
           \A k \in Keys, p \in Places : mm[k][p] = m[k][p] \/ mm[k][p] = None,
           \A b \in Bufs : b \in AA <=>
               b \in A /\ ~\E k \in Keys, p \in Places : m[k][p] = b /\ mm[k][p] = None,
           AA \subseteq Bufs, None \notin Bufs
    PROVE  Owns(mm, AA)
BY DEF Owns

\* Handing new buffers to empty places.
LEMMA AllocateOwns ==
    ASSUME NEW m, NEW A, Owns(m, A), NEW mm, NEW AA,
           \A k \in Keys, p \in Places : \/ mm[k][p] = m[k][p]
                                         \/ m[k][p] = None /\ mm[k][p] \in Bufs \ A,
           \A j, k \in Keys, p, q \in Places :
               mm[j][p] = mm[k][q] /\ mm[k][q] \in Bufs \ A => j = k /\ p = q,
           \A b \in Bufs : b \in AA <=>
               b \in A \/ \E k \in Keys, p \in Places : mm[k][p] = b,
           AA \subseteq Bufs, None \notin Bufs,
           \A k \in Keys, p \in Places : m[k][p] \in Bufs \cup {None}
    PROVE  Owns(mm, AA)
BY DEF Owns

\* What BufMap says of each place, and when it says nothing.
LEMMA BufMapValues ==
    ASSUME TypeOK
    PROVE  /\ \A k \in Keys : BufMap[k][None] = IF IsResident(k) THEN objects[k].buf ELSE None
           /\ \A k \in Keys, t \in Tags :
                  BufMap[k][t] = IF IsStaged(k, t) THEN staging[k][t].buf ELSE None
           /\ \A k \in Keys, p \in Places : BufMap[k][p] \in Bufs \cup {None}
           /\ \A k \in Keys : IsResident(k) => objects[k].buf \in Bufs
           /\ \A k \in Keys, t \in Tags : IsStaged(k, t) => staging[k][t].buf \in Bufs
           /\ None \notin Bufs /\ None \notin Tags
BY L1Assumption DEF BufMap, Places, TypeOK, IsResident, IsStaged, Resident, Staged

\* A step that leaves every buffer where it is keeps the ownership.
LEMMA SameOwns ==
    ASSUME TypeOK, TypeOK', BufferOwnership, allocated' = allocated,
           \A k \in Keys : IsResident(k)' <=> IsResident(k),
           \A k \in Keys : IsResident(k) => objects'[k].buf = objects[k].buf,
           \A k \in Keys, t \in Tags : IsStaged(k, t)' <=> IsStaged(k, t),
           \A k \in Keys, t \in Tags : IsStaged(k, t) => staging'[k][t].buf = staging[k][t].buf
    PROVE  BufferOwnership'
<1>1. BufMap' = BufMap
    BY Zenon DEF BufMap, Places
<1> QED BY <1>1 DEF BufferOwnership, Owns

\* Removing the resident objects of R and the staging objects of S, and freeing
\* exactly their buffers.
LEMMA RemoveOwns ==
    ASSUME TypeOK, TypeOK', BufferOwnership,
           NEW R \in SUBSET Keys, \A k \in R : IsResident(k),
           NEW S \in SUBSET (Keys \X Tags),
           \A k \in Keys, t \in Tags : <<k, t>> \in S => IsStaged(k, t),
           \A k \in Keys : IsResident(k)' <=> IsResident(k) /\ k \notin R,
           \A k \in Keys : IsResident(k)' => objects'[k].buf = objects[k].buf,
           \A k \in Keys, t \in Tags :
               staging'[k][t] = IF <<k, t>> \in S THEN None ELSE staging[k][t],
           allocated' = allocated \ (ResidentBufs(R) \cup StagedBufs(S))
    PROVE  BufferOwnership'
<1>1. \A b : b \in ResidentBufs(R) <=> \E k \in R : objects[k].buf = b
    BY Zenon DEF ResidentBufs
<1>2. ASSUME NEW b
      PROVE  b \in StagedBufs(S) <=>
                 \E k \in Keys, t \in Tags : <<k, t>> \in S /\ staging[k][t].buf = b
    <2>1. ASSUME b \in StagedBufs(S)
          PROVE  \E k \in Keys, t \in Tags : <<k, t>> \in S /\ staging[k][t].buf = b
        <3>1. PICK s \in S : b = staging[s[1]][s[2]].buf
            BY Zenon, <2>1 DEF StagedBufs
        <3>2. s[1] \in Keys /\ s[2] \in Tags /\ <<s[1], s[2]>> \in S
            OBVIOUS
        <3> QED BY Zenon, <3>1, <3>2
    <2>2. ASSUME NEW k \in Keys, NEW t \in Tags, <<k, t>> \in S, staging[k][t].buf = b
          PROVE  b \in StagedBufs(S)
        <3> DEFINE s == <<k, t>>
        <3>1. s \in S /\ s[1] = k /\ s[2] = t
            BY Zenon, <2>2
        <3> HIDE DEF s
        <3> QED BY Zenon, <3>1, <2>2 DEF StagedBufs
    <2> QED BY Zenon, <2>1, <2>2
<1>3. \A k \in Keys, t \in Tags : IsStaged(k, t)' <=> IsStaged(k, t) /\ <<k, t>> \notin S
    BY Zenon DEF IsStaged
<1>4. /\ \A k \in Keys : BufMap'[k][None] = IF IsResident(k)' THEN objects'[k].buf ELSE None
      /\ \A k \in Keys, t \in Tags :
             BufMap'[k][t] = IF IsStaged(k, t)' THEN staging'[k][t].buf ELSE None
    BY BufMapValues DEF BufMap, Places, TypeOK
<1>5. \A k \in Keys : BufMap'[k][None] = IF k \in R THEN None ELSE BufMap[k][None]
    BY <1>4, BufMapValues
<1>6. \A k \in Keys, t \in Tags : BufMap'[k][t] = IF <<k, t>> \in S THEN None ELSE BufMap[k][t]
    <2> TAKE k \in Keys, t \in Tags
    <2>1. BufMap'[k][t] = IF IsStaged(k, t)' THEN staging'[k][t].buf ELSE None
        BY Zenon, <1>4
    <2>2. BufMap[k][t] = IF IsStaged(k, t) THEN staging[k][t].buf ELSE None
        BY Zenon, BufMapValues
    <2> HIDE DEF BufMap
    <2> QED BY Zenon, <2>1, <2>2, <1>3
<1>7. \A k \in Keys, p \in Places : BufMap'[k][p] = BufMap[k][p] \/ BufMap'[k][p] = None
    BY Zenon, <1>5, <1>6 DEF Places
<1>8. ASSUME NEW b \in Bufs
      PROVE  b \in ResidentBufs(R) \cup StagedBufs(S) <=>
                 \E k \in Keys, p \in Places : BufMap[k][p] = b /\ BufMap'[k][p] = None
    <2>1. b \in ResidentBufs(R) <=> \E k \in Keys : BufMap[k][None] = b /\ BufMap'[k][None] = None
        BY <1>1, <1>5, BufMapValues
    <2>2. b \in StagedBufs(S) <=>
              \E k \in Keys, t \in Tags : BufMap[k][t] = b /\ BufMap'[k][t] = None
        <3>1. \A k \in Keys, t \in Tags :
                 /\ <<k, t>> \in S => BufMap[k][t] = staging[k][t].buf
                 /\ BufMap[k][t] = b /\ BufMap'[k][t] = None => <<k, t>> \in S
            <4> TAKE k \in Keys, t \in Tags
            <4>1. BufMap[k][t] = IF IsStaged(k, t) THEN staging[k][t].buf ELSE None
                BY Zenon, BufMapValues
            <4>2. b # None
                BY Zenon, BufMapValues
            <4> QED BY Zenon, <4>1, <4>2, <1>6
        <3>2. \A k \in Keys, t \in Tags :
                 <<k, t>> \in S /\ staging[k][t].buf = b
                     <=> BufMap[k][t] = b /\ BufMap'[k][t] = None
            BY Zenon, <1>6, <3>1
        <3>3. b \in StagedBufs(S) <=>
                 \E k \in Keys, t \in Tags : <<k, t>> \in S /\ staging[k][t].buf = b
            BY Zenon, <1>2
        <3>4. ASSUME b \in StagedBufs(S)
              PROVE  \E k \in Keys, t \in Tags : BufMap[k][t] = b /\ BufMap'[k][t] = None
            <4>1. PICK k \in Keys, t \in Tags : <<k, t>> \in S /\ staging[k][t].buf = b
                BY Zenon, <3>3, <3>4
            <4>2. BufMap[k][t] = b /\ BufMap'[k][t] = None
                BY Zenon, <3>2, <4>1
            <4> QED BY Zenon, <4>2
        <3>5. ASSUME NEW k \in Keys, NEW t \in Tags, BufMap[k][t] = b, BufMap'[k][t] = None
              PROVE  b \in StagedBufs(S)
            <4>1. <<k, t>> \in S /\ staging[k][t].buf = b
                BY Zenon, <3>2, <3>5
            <4> QED BY Zenon, <4>1, <3>3
        <3> QED BY Zenon, <3>4, <3>5
    <2> QED BY Zenon, <2>1, <2>2 DEF Places
<1>9. allocated' \subseteq Bufs
    BY Zenon DEF TypeOK
<1>10. \A b \in Bufs : b \in allocated' <=>
          b \in allocated /\ ~\E k \in Keys, p \in Places : BufMap[k][p] = b /\ BufMap'[k][p] = None
    BY Zenon, <1>8
<1>11. None \notin Bufs
    BY Zenon, BufMapValues
<1> HIDE DEF BufMap
<1> QED BY <1>7, <1>9, <1>10, <1>11, DropOwns DEF BufferOwnership

\* Admitting the staging objects of tag t for the keys of P, discarding those
\* for the keys of D: finish_write and finish_write_and_reserve_read.
LEMMA FinishOwns ==
    ASSUME TypeOK, TypeOK', BufferOwnership, NEW t \in Tags,
           NEW P \in SUBSET Keys, \A k \in P : IsStaged(k, t) /\ ~IsResident(k),
           NEW D \in SUBSET Keys, \A k \in D : IsStaged(k, t) /\ IsResident(k),
           \A k \in Keys : IsResident(k)' <=> IsResident(k) \/ k \in P,
           \A k \in Keys : IsResident(k) => objects'[k].buf = objects[k].buf,
           \A k \in P : objects'[k].buf = staging[k][t].buf,
           \A k \in Keys, u \in Tags :
               staging'[k][u] = IF u = t /\ k \in P \cup D THEN None ELSE staging[k][u],
           allocated' = allocated \ {staging[k][t].buf : k \in D}
    PROVE  BufferOwnership'
<1>1. /\ \A k \in Keys : BufMap'[k][None] = IF IsResident(k)' THEN objects'[k].buf ELSE None
      /\ \A k \in Keys, u \in Tags :
             BufMap'[k][u] = IF IsStaged(k, u)' THEN staging'[k][u].buf ELSE None
    BY BufMapValues DEF BufMap, Places, TypeOK
<1>2. \A k \in Keys : BufMap'[k][None] = IF k \in P THEN BufMap[k][t] ELSE BufMap[k][None]
    <2> TAKE k \in Keys
    <2>1. /\ BufMap'[k][None] = IF IsResident(k)' THEN objects'[k].buf ELSE None
          /\ BufMap[k][None] = IF IsResident(k) THEN objects[k].buf ELSE None
          /\ BufMap[k][t] = IF IsStaged(k, t) THEN staging[k][t].buf ELSE None
        BY <1>1, BufMapValues
    <2> HIDE DEF BufMap
    <2> QED BY Zenon, <2>1
<1>3. \A k \in Keys, u \in Tags :
          BufMap'[k][u] = IF u = t /\ k \in P \cup D THEN None ELSE BufMap[k][u]
    <2> TAKE k \in Keys, u \in Tags
    <2>1. /\ BufMap'[k][u] = IF IsStaged(k, u)' THEN staging'[k][u].buf ELSE None
          /\ BufMap[k][u] = IF IsStaged(k, u) THEN staging[k][u].buf ELSE None
        BY <1>1, BufMapValues
    <2>2. staging'[k][u] = IF u = t /\ k \in P \cup D THEN None ELSE staging[k][u]
        BY Zenon
    <2>3. CASE u = t /\ k \in P \cup D
        BY Zenon, <2>1, <2>2, <2>3 DEF IsStaged
    <2>4. CASE ~(u = t /\ k \in P \cup D)
        BY Zenon, <2>1, <2>2, <2>4 DEF IsStaged
    <2> QED BY Zenon, <2>3, <2>4
<1>4. \A b : b \in allocated' <=> b \in allocated /\ ~\E k \in D : BufMap[k][t] = b
    BY BufMapValues
<1>5. \A k \in P : BufMap[k][None] = None
    BY Zenon, BufMapValues
<1>6. P \cap D = {} /\ None \notin Tags /\ None \notin Bufs
    BY Zenon, BufMapValues
<1> DEFINE m == BufMap
           mm == BufMap'
<1>7. Owns(m, allocated)
    BY Zenon DEF BufferOwnership
<1>8. /\ \A k \in Keys : mm[k][None] = IF k \in P THEN m[k][t] ELSE m[k][None]
      /\ \A k \in Keys, u \in Tags : mm[k][u] = IF u = t /\ k \in P \cup D THEN None ELSE m[k][u]
      /\ \A k \in P : m[k][None] = None
      /\ \A b : b \in allocated' <=> b \in allocated /\ ~\E k \in D : m[k][t] = b
    BY Zenon, <1>2, <1>3, <1>4, <1>5
<1> HIDE DEF m, mm
<1> USE <1>6, <1>7, <1>8
<1>9. \A b \in Bufs : b \in allocated' => \E k \in Keys, p \in Places : mm[k][p] = b
    <2> SUFFICES ASSUME NEW b \in Bufs, b \in allocated' PROVE \E k \in Keys, p \in Places : mm[k][p] = b
        BY Zenon
    <2>1. PICK k \in Keys, p \in Places : m[k][p] = b
        BY Zenon DEF Owns
    <2>2. CASE p = t /\ k \in P
        BY Zenon, <2>1, <2>2 DEF Places
    <2>3. CASE p = None /\ k \notin P
        BY Zenon, <2>1, <2>3 DEF Places
    <2>4. CASE p \in Tags /\ ~(p = t /\ k \in P \cup D)
        BY <2>1, <2>4 DEF Places
    <2>5. p = t => k \notin D
        BY Zenon, <2>1
    <2> QED BY <2>1, <2>2, <2>3, <2>4, <2>5 DEF Places
<1>10. \A k \in Keys, p \in Places : mm[k][p] \in Bufs => mm[k][p] \in allocated'
    <2> SUFFICES ASSUME NEW k \in Keys, NEW p \in Places, mm[k][p] \in Bufs
                 PROVE  mm[k][p] \in allocated'
        BY Zenon
    <2>1. PICK q \in Places : mm[k][p] = m[k][q] /\ (q = t => k \notin D)
        BY DEF Places
    <2>2. \A j \in D : m[j][t] # m[k][q]
        BY <2>1 DEF Owns, Places
    <2> QED BY <2>1, <2>2 DEF Owns
<1>11. ASSUME NEW j \in Keys, NEW k \in Keys, NEW p \in Places, NEW q \in Places,
             mm[j][p] = mm[k][q], mm[k][q] # None
      PROVE  j = k /\ p = q
    <2>0. /\ t \in Places /\ None \in Places /\ Tags \subseteq Places
          /\ \A a, b \in Keys, x, y \in Places : m[a][x] = m[b][y] /\ m[b][y] # None => a = b /\ x = y
        BY Zenon DEF Owns, Places
    <2>1. CASE p = None /\ q = None
        BY <1>11, <2>0, <2>1
    <2>2. CASE p = None /\ q \in Tags
        BY <1>11, <2>0, <2>2
    <2>3. CASE p \in Tags /\ q = None
        BY <1>11, <2>0, <2>3
    <2>4. CASE p \in Tags /\ q \in Tags
        BY <1>11, <2>0, <2>4
    <2> QED BY Zenon, <2>1, <2>2, <2>3, <2>4 DEF Places
<1>12. Owns(mm, allocated')
    <2>1. allocated' \subseteq Bufs
        BY Zenon DEF TypeOK
    <2>2. allocated' = {b \in Bufs : \E k \in Keys, p \in Places : mm[k][p] = b}
        BY <2>1, <1>9, <1>10
    <2>3. \A j, k \in Keys, p, q \in Places : mm[j][p] = mm[k][q] /\ mm[k][q] # None => j = k /\ p = q
        BY <1>11
    <2> QED BY ONLY Zenon, <2>2, <2>3 DEF Owns
<1> QED BY Zenon, <1>12 DEF mm, BufferOwnership, Owns

\* The three facts about a taken staging object that the finish_* methods rely on.
LEMMA TakenFacts ==
    ASSUME NEW K \in Batches, NEW t \in Tags
    PROVE  /\ Admitted(K, t) \in SUBSET Keys /\ Discarded(K, t) \in SUBSET Keys
           /\ Taken(K, t) = Admitted(K, t) \cup Discarded(K, t)
           /\ \A k \in Admitted(K, t) : IsStaged(k, t) /\ ~IsResident(k)
           /\ \A k \in Discarded(K, t) : IsStaged(k, t) /\ IsResident(k)
BY Zenon DEF Admitted, Discarded, Taken, IsLive, Batches

\* The buffers of tag t's entries of the keys in D.
LEMMA StagedBufsOne ==
    ASSUME NEW D \in SUBSET Keys, NEW t \in Tags
    PROVE  StagedBufs(D \X {t}) = {staging[k][t].buf : k \in D}
<1>1. ASSUME NEW b \in StagedBufs(D \X {t}) PROVE b \in {staging[k][t].buf : k \in D}
    BY Zenon DEF StagedBufs
<1>2. ASSUME NEW k \in D PROVE staging[k][t].buf \in StagedBufs(D \X {t})
    <2> DEFINE s == <<k, t>>
    <2>1. s \in D \X {t} /\ s[1] = k /\ s[2] = t
        BY Zenon
    <2> HIDE DEF s
    <2> QED BY Zenon, <2>1 DEF StagedBufs
<1> QED BY Zenon, <1>1, <1>2

\* finish_read frees the temporary objects it drops and nothing else.
LEMMA FinishReadOwns ==
    ASSUME Inv, TypeOK', NEW K \in Batches, NEW n \in LockCounts, FinishRead(K, n)
    PROVE  BufferOwnership'
<1> DEFINE R == DroppedByRead(K, n)
<1>1. R \in SUBSET Keys /\ \A k \in R : IsResident(k)
    BY Zenon DEF DroppedByRead, ReadLocked, Batches
<1>2. None \notin Resident
    BY Zenon, L1Assumption
<1>3. \A k \in Keys : ReadLocked(k) => /\ Unlock(objects[k], n) \in Resident
                                       /\ Unlock(objects[k], n).buf = objects[k].buf
    BY UnlockType DEF Inv, TypeOK, ReadLocked, IsResident, LockCounts
<1>4. objects' = [k \in Keys |-> IF k \in R THEN None
                                 ELSE IF k \in K /\ ReadLocked(k) THEN Unlock(objects[k], n)
                                 ELSE objects[k]]
    BY Zenon DEF FinishRead
<1> HIDE DEF R
<1>5. \A k \in Keys : IsResident(k)' <=> IsResident(k) /\ k \notin R
    BY Zenon, <1>1, <1>2, <1>3, <1>4 DEF IsResident, ReadLocked
<1>6. \A k \in Keys : IsResident(k)' => objects'[k].buf = objects[k].buf
    BY Zenon, <1>3, <1>4 DEF IsResident, ReadLocked
<1>7. \A k \in Keys, t \in Tags : staging'[k][t] = IF <<k, t>> \in {} THEN None ELSE staging[k][t]
    BY Zenon DEF FinishRead
<1>8. allocated' = allocated \ (ResidentBufs(R) \cup StagedBufs({}))
    BY Zenon DEF FinishRead, StagedBufs, R
<1>9. {} \in SUBSET (Keys \X Tags) /\ \A k \in Keys, t \in Tags : <<k, t>> \in {} => IsStaged(k, t)
    BY Zenon
<1> QED BY Zenon, <1>1, <1>5, <1>6, <1>7, <1>8, <1>9, RemoveOwns DEF Inv

\* reserve_write hands out free buffers, all different.
LEMMA ReserveWriteOwns ==
    ASSUME Inv, TypeOK', NEW K \in Batches, NEW T \in SUBSET K, NEW t \in Tags, NEW size \in Sizes,
           ReserveWrite(K, T, t, size)
    PROVE  BufferOwnership'
<1> DEFINE N == NeedToAllocate(K, t)
           H == HandedOver(K, t)
<1>1. PICK f \in Allocations(N) :
         /\ staging' = StagingWith(K, T, t, f, size)
         /\ allocated' = allocated \cup {f[k] : k \in DOMAIN f}
         /\ objects' = objects
    BY Zenon DEF ReserveWrite
<1>2. /\ f \in [N -> Bufs \ allocated]
      /\ \A j, k \in N : f[j] = f[k] => j = k
    BY Zenon DEF Allocations
<1>3. /\ N \in SUBSET Keys /\ \A k \in N : ~IsStaged(k, t)
      /\ H \in SUBSET Keys /\ \A k \in H : IsStaged(k, t)
    BY Zenon DEF NeedToAllocate, HandedOver, Batches
<1>4. TypeOK /\ None \notin Staged
    BY Zenon, L1Assumption DEF Inv
<1>5. \A k \in H : /\ Rehold(staging[k][t], k \in T) \in Staged
                   /\ Rehold(staging[k][t], k \in T).buf = staging[k][t].buf
    <2> TAKE k \in H
    <2>1. staging[k][t] \in Staged /\ (k \in T) \in BOOLEAN
        BY <1>3, <1>4 DEF TypeOK, IsStaged
    <2> QED BY Zenon, <2>1, ReholdType
<1>6. \A k \in N : /\ NewStaged(f[k], k \in T, size) \in Staged
                   /\ NewStaged(f[k], k \in T, size).buf = f[k]
    <2> TAKE k \in N
    <2>1. f[k] \in Bufs /\ (k \in T) \in BOOLEAN
        BY <1>2
    <2> QED BY Zenon, <2>1, NewStagedType
<1> HIDE DEF N, H
<1>7. \A k \in Keys, u \in Tags :
         staging'[k][u] = IF u = t /\ k \in H THEN Rehold(staging[k][t], k \in T)
                          ELSE IF u = t /\ k \in N THEN NewStaged(f[k], k \in T, size)
                          ELSE staging[k][u]
    BY Zenon, <1>1, <1>2 DEF StagingWith, H
<1>8. \A k \in Keys, u \in Tags :
         /\ u = t /\ k \in N => IsStaged(k, u)' /\ staging'[k][u].buf = f[k]
         /\ ~(u = t /\ k \in N) => /\ IsStaged(k, u)' <=> IsStaged(k, u)
                                   /\ IsStaged(k, u) => staging'[k][u].buf = staging[k][u].buf
    <2> TAKE k \in Keys, u \in Tags
    <2>1. CASE u = t /\ k \in N
        <3>1. k \notin H
            BY Zenon, <2>1, <1>3
        <3>2. staging'[k][u] = NewStaged(f[k], k \in T, size)
            BY Zenon, <2>1, <3>1, <1>7
        <3>3. staging'[k][u] \in Staged /\ staging'[k][u].buf = f[k]
            BY Zenon, <2>1, <3>2, <1>6
        <3> QED BY Zenon, <2>1, <3>3, <1>4 DEF IsStaged
    <2>2. CASE u = t /\ k \in H
        <3>1. k \notin N /\ IsStaged(k, u)
            BY Zenon, <2>2, <1>3
        <3>2. staging'[k][u] = Rehold(staging[k][u], k \in T)
            BY Zenon, <2>2, <1>7
        <3>3. staging'[k][u] \in Staged /\ staging'[k][u].buf = staging[k][u].buf
            BY Zenon, <2>2, <3>2, <1>5
        <3> QED BY Zenon, <2>2, <3>1, <3>3, <1>4 DEF IsStaged
    <2>3. CASE ~(u = t /\ k \in N \cup H)
        BY Zenon, <2>3, <1>7 DEF IsStaged
    <2> QED BY Zenon, <2>1, <2>2, <2>3
<1>9. \A k \in Keys, p \in Places :
         BufMap'[k][p] = IF p = t /\ k \in N THEN f[k] ELSE BufMap[k][p]
    <2>1. \A k \in Keys : IsResident(k)' <=> IsResident(k)
        BY Zenon, <1>1 DEF IsResident
    <2> TAKE k \in Keys, p \in Places
    <2>2. p = None \/ (p \in Tags /\ p # None)
        BY Zenon, L1Assumption DEF Places
    <2>3. BufMap'[k][p] = IF p = None THEN IF IsResident(k)' THEN objects'[k].buf ELSE None
                          ELSE IF IsStaged(k, p)' THEN staging'[k][p].buf ELSE None
        BY Zenon DEF BufMap
    <2>4. BufMap[k][p] = IF p = None THEN IF IsResident(k) THEN objects[k].buf ELSE None
                         ELSE IF IsStaged(k, p) THEN staging[k][p].buf ELSE None
        BY Zenon DEF BufMap
    <2>5. t # None
        BY Zenon, L1Assumption
    <2> HIDE DEF BufMap
    <2> QED BY Zenon, <2>1, <2>2, <2>3, <2>4, <2>5, <1>1, <1>8
<1>10. \A k \in N : BufMap[k][t] = None
    BY Zenon, <1>3, <1>4, BufMapValues
<1>11. /\ None \notin Bufs
       /\ \A k \in Keys, p \in Places : BufMap[k][p] \in Bufs \cup {None}
    BY Zenon, <1>4, BufMapValues
<1>12. Owns(BufMap, allocated) /\ allocated' \subseteq Bufs
    BY Zenon DEF Inv, BufferOwnership, TypeOK
<1>13. \A k \in Keys, p \in Places : BufMap[k][p] \in Bufs => BufMap[k][p] \in allocated
    BY Zenon, <1>12 DEF Owns
<1> HIDE DEF BufMap
<1>14. \A k \in Keys, p \in Places : \/ BufMap'[k][p] = BufMap[k][p]
                                     \/ BufMap[k][p] = None /\ BufMap'[k][p] \in Bufs \ allocated
    BY Zenon, <1>2, <1>3, <1>9, <1>10
<1>15. \A j, k \in Keys, p, q \in Places :
          BufMap'[j][p] = BufMap'[k][q] /\ BufMap'[k][q] \in Bufs \ allocated => j = k /\ p = q
    BY <1>2, <1>3, <1>9, <1>13
<1>16. \A b \in Bufs : b \in allocated' <=>
          b \in allocated \/ \E k \in Keys, p \in Places : BufMap'[k][p] = b
    <2>1. ASSUME NEW b \in Bufs, b \in allocated', b \notin allocated
          PROVE  \E k \in Keys, p \in Places : BufMap'[k][p] = b
        <3>1. PICK k \in N : f[k] = b
            BY Zenon, <1>1, <1>2, <2>1
        <3> QED BY Zenon, <3>1, <1>3, <1>9 DEF Places
    <2>2. ASSUME NEW k \in Keys, NEW p \in Places, BufMap'[k][p] \in Bufs
          PROVE  BufMap'[k][p] \in allocated'
        BY <2>2, <1>1, <1>2, <1>9, <1>13
    <2> QED BY Zenon, <1>1, <2>1, <2>2
<1>17. Owns(BufMap', allocated')
    <2> DEFINE m == BufMap
               mm == BufMap'
    <2>1. /\ Owns(m, allocated) /\ allocated' \subseteq Bufs /\ None \notin Bufs
          /\ \A k \in Keys, p \in Places : m[k][p] \in Bufs \cup {None}
          /\ \A k \in Keys, p \in Places : \/ mm[k][p] = m[k][p]
                                           \/ m[k][p] = None /\ mm[k][p] \in Bufs \ allocated
        BY Zenon, <1>11, <1>12, <1>14
    <2>2. \A j, k \in Keys, p, q \in Places :
             mm[j][p] = mm[k][q] /\ mm[k][q] \in Bufs \ allocated => j = k /\ p = q
        BY Zenon, <1>15
    <2>3. \A b \in Bufs : b \in allocated' <=>
             b \in allocated \/ \E k \in Keys, p \in Places : mm[k][p] = b
        BY Zenon, <1>16
    <2> HIDE DEF m, mm
    <2>4. Owns(mm, allocated')
        BY <2>1, <2>2, <2>3, AllocateOwns
    <2> QED BY Zenon, <2>4 DEF mm
<1> QED BY Zenon, <1>17 DEF BufferOwnership, Owns

\* Admission, with any number n of read locks on the admitted object.
LEMMA FinishWriteOwns ==
    ASSUME Inv, TypeOK', NEW K \in Batches, NEW t \in Tags,
           FinishWrite(K, t) \/ \E n \in LockCounts : FinishWriteAndReserveRead(K, n, t)
    PROVE  BufferOwnership'
<1> DEFINE P == Admitted(K, t)
           D == Discarded(K, t)
<1>1. /\ P \in SUBSET Keys /\ D \in SUBSET Keys /\ Taken(K, t) = P \cup D
      /\ \A k \in P : IsStaged(k, t) /\ ~IsResident(k)
      /\ \A k \in D : IsStaged(k, t) /\ IsResident(k)
    BY Zenon, TakenFacts
<1>2. TypeOK /\ None \notin Resident
    BY Zenon, L1Assumption DEF Inv
<1>3. PICK n \in 0..MaxLocks :
         \/ FinishWrite(K, t) /\ n = 0
         \/ FinishWriteAndReserveRead(K, n, t)
    BY L1Assumption DEF LockCounts
<1>4. \A k \in P : Admit(k, t, n) \in Resident /\ Admit(k, t, n).buf = staging[k][t].buf
    BY Zenon, <1>1, <1>2, AdmitType
<1>5. FinishWriteAndReserveRead(K, n, t) =>
         \A k \in D : Lock(objects[k], n) \in Resident /\ Lock(objects[k], n).buf = objects[k].buf
    BY <1>1, <1>2, LockType DEF FinishWriteAndReserveRead, WithinBound, TypeOK, IsResident
<1>6. \/ objects' = [k \in Keys |-> IF k \in P THEN Admit(k, t, n) ELSE objects[k]]
      \/ /\ FinishWriteAndReserveRead(K, n, t)
         /\ objects' = [k \in Keys |-> IF k \in P THEN Admit(k, t, n)
                                       ELSE IF k \in D THEN Lock(objects[k], n) ELSE objects[k]]
    BY Zenon, <1>3 DEF FinishWrite, FinishWriteAndReserveRead
<1>7. allocated' = allocated \ StagedBufs(D \X {t}) /\ PopStaging((P \cup D) \X {t})
    BY Zenon, <1>1, <1>3 DEF FinishWrite, FinishWriteAndReserveRead
<1> HIDE DEF P, D
<1>8. /\ \A k \in Keys : IsResident(k)' <=> IsResident(k) \/ k \in P
      /\ \A k \in Keys : IsResident(k) => objects'[k].buf = objects[k].buf
      /\ \A k \in P : objects'[k].buf = staging[k][t].buf
    <2>1. \A k \in Keys : k \notin P /\ ~IsResident(k) => objects'[k] = None
        BY Zenon, <1>1, <1>6 DEF IsResident
    <2>2. \A k \in P : objects'[k] = Admit(k, t, n)
        BY Zenon, <1>1, <1>6
    <2>3. \A k \in Keys : IsResident(k) => objects'[k] \in Resident /\ objects'[k].buf = objects[k].buf
        <3> TAKE k \in Keys
        <3> HAVE IsResident(k)
        <3>1. k \notin P /\ objects[k] \in Resident
            BY Zenon, <1>1, <1>2 DEF IsResident, TypeOK
        <3>2. \/ objects'[k] = objects[k]
              \/ FinishWriteAndReserveRead(K, n, t) /\ k \in D /\ objects'[k] = Lock(objects[k], n)
            BY Zenon, <3>1, <1>6
        <3> QED BY Zenon, <3>1, <3>2, <1>5
    <2> QED BY Zenon, <1>1, <1>2, <1>4, <2>1, <2>2, <2>3 DEF IsResident
<1>9. \A k \in Keys, u \in Tags :
         staging'[k][u] = IF u = t /\ k \in P \cup D THEN None ELSE staging[k][u]
    <2>1. Taken(K, t) \in SUBSET Keys /\ PopStaging(Taken(K, t) \X {t})
        BY Zenon, <1>1, <1>7
    <2> TAKE k \in Keys, u \in Tags
    <2>2. staging'[k][u] = IF <<k, u>> \in Taken(K, t) \X {t} THEN None ELSE staging[k][u]
        BY Zenon, <2>1 DEF PopStaging
    <2>3. <<k, u>> \in Taken(K, t) \X {t} <=> u = t /\ k \in P \cup D
        BY Zenon, <1>1
    <2> QED BY Zenon, <2>2, <2>3
<1>10. allocated' = allocated \ {staging[k][t].buf : k \in D}
    BY Zenon, <1>1, <1>7, StagedBufsOne
<1> QED BY Zenon, <1>1, <1>8, <1>9, <1>10, FinishOwns DEF Inv

\* delete, clear and finish_write_and_delete free exactly what they remove.
LEMMA RemoveAllOwns ==
    ASSUME Inv, TypeOK', NEW R \in SUBSET Keys, \A k \in R : IsResident(k),
           NEW S \in SUBSET (Keys \X Tags), \A k \in Keys, t \in Tags : <<k, t>> \in S => IsStaged(k, t),
           RemoveAll(R, S)
    PROVE  BufferOwnership'
<1>1. \A k \in Keys : objects'[k] = IF k \in R THEN None ELSE objects[k]
    BY Zenon DEF RemoveAll
<1>2. \A k \in Keys : IsResident(k)' <=> IsResident(k) /\ k \notin R
    BY Zenon, <1>1 DEF IsResident
<1>3. \A k \in Keys : IsResident(k)' => objects'[k].buf = objects[k].buf
    BY Zenon, <1>1 DEF IsResident
<1>4. \A k \in Keys, t \in Tags : staging'[k][t] = IF <<k, t>> \in S THEN None ELSE staging[k][t]
    BY Zenon DEF RemoveAll, PopStaging
<1>5. allocated' = allocated \ (ResidentBufs(R) \cup StagedBufs(S))
    BY Zenon DEF RemoveAll
<1> QED BY Zenon, <1>2, <1>3, <1>4, <1>5, RemoveOwns DEF Inv

\* What _reclaim_staging frees is staged.
LEMMA ReclaimableStaged ==
    ASSUME NEW K \in SUBSET Keys, NEW force
    PROVE  /\ Reclaimable(K, force) \in SUBSET (Keys \X Tags)
           /\ \A k \in Keys, t \in Tags : <<k, t>> \in Reclaimable(K, force) => IsStaged(k, t)
<1>1. Reclaimable(K, force) \in SUBSET (Keys \X Tags)
    BY Zenon DEF Reclaimable
<1>2. ASSUME NEW k \in Keys, NEW t \in Tags, <<k, t>> \in Reclaimable(K, force)
      PROVE  IsStaged(k, t)
    <2> DEFINE s == <<k, t>>
    <2>1. s[1] = k /\ s[2] = t /\ s \in Reclaimable(K, force)
        BY Zenon, <1>2
    <2> HIDE DEF s
    <2>2. IsStaged(s[1], s[2])
        BY Zenon, <2>1 DEF Reclaimable
    <2> QED BY Zenon, <2>1, <2>2
<1> QED BY Zenon, <1>1, <1>2

\* Every step keeps the ownership of buffers exclusive.
LEMMA NextOwns == Inv /\ TypeOK' /\ [Next]_vars => BufferOwnership'
<1> SUFFICES ASSUME Inv, TypeOK', [Next]_vars PROVE BufferOwnership'
    BY Zenon
<1> USE DEF Inv
<1>1. ASSUME NEW K \in Batches, NEW n \in LockCounts, ReserveRead(K, n) PROVE BufferOwnership'
    <2>1. \A k \in Keys : k \in K /\ IsResident(k) =>
             Lock(objects[k], n) \in Resident /\ Lock(objects[k], n).buf = objects[k].buf
        BY <1>1, LockType DEF ReserveRead, WithinBound, TypeOK, IsResident, LockCounts
    <2>2. \A k \in Keys : IsResident(k)' <=> IsResident(k)
        BY Zenon, <1>1, <2>1, L1Assumption DEF ReserveRead, IsResident
    <2>3. \A k \in Keys : IsResident(k) => objects'[k].buf = objects[k].buf
        BY Zenon, <1>1, <2>1 DEF ReserveRead
    <2>4. staging' = staging /\ allocated' = allocated
        BY Zenon, <1>1 DEF ReserveRead
    <2> QED BY Zenon, <2>2, <2>3, <2>4, SameOwns DEF IsStaged
<1>2. ASSUME NEW K \in Batches, NEW n \in LockCounts, FinishRead(K, n) PROVE BufferOwnership'
    BY Zenon, <1>2, FinishReadOwns
<1>3. ASSUME NEW K \in Batches, NEW t \in Tags, NEW T \in SUBSET K, NEW size \in Sizes,
             ReserveWrite(K, T, t, size)
      PROVE BufferOwnership'
    BY Zenon, <1>3, ReserveWriteOwns
<1>4. ASSUME NEW K \in Batches, NEW t \in Tags, NEW T \in SUBSET K,
             ReserveWriteOutOfMemory(K, T, t)
      PROVE BufferOwnership'
    <2>1. ASSUME NEW k \in HandedOver(K, t)
          PROVE  /\ IsStaged(k, t) /\ Rehold(staging[k][t], k \in T) # None
                 /\ Rehold(staging[k][t], k \in T).buf = staging[k][t].buf
        <3>1. staging[k][t] \in Staged /\ (k \in T) \in BOOLEAN /\ IsStaged(k, t)
            BY DEF HandedOver, IsStaged, TypeOK, Batches
        <3> QED BY Zenon, <3>1, ReholdType, L1Assumption
    <2>2. \A k \in Keys, u \in Tags : IsStaged(k, u)' <=> IsStaged(k, u)
        BY Zenon, <1>4, <2>1 DEF ReserveWriteOutOfMemory, IsStaged
    <2>3. \A k \in Keys, u \in Tags : IsStaged(k, u) => staging'[k][u].buf = staging[k][u].buf
        BY Zenon, <1>4, <2>1 DEF ReserveWriteOutOfMemory
    <2>4. objects' = objects /\ allocated' = allocated
        BY Zenon, <1>4 DEF ReserveWriteOutOfMemory
    <2> QED BY Zenon, <2>2, <2>3, <2>4, SameOwns DEF IsResident
<1>5. ASSUME NEW K \in Batches, NEW t \in Tags, FinishWrite(K, t) PROVE BufferOwnership'
    BY Zenon, <1>5, FinishWriteOwns
<1>6. ASSUME NEW K \in Batches, NEW t \in Tags, NEW n \in LockCounts,
             FinishWriteAndReserveRead(K, n, t)
      PROVE BufferOwnership'
    BY Zenon, <1>6, FinishWriteOwns
<1>7. ASSUME NEW K \in Batches, NEW t \in Tags, FinishWriteAndDelete(K, t) PROVE BufferOwnership'
    <2> DEFINE S == Taken(K, t) \X {t}
    <2>1. Taken(K, t) \in SUBSET Keys /\ \A k \in Taken(K, t) : IsStaged(k, t)
        BY Zenon DEF Taken, IsLive, Batches
    <2>2. S \in SUBSET (Keys \X Tags) /\ \A k \in Keys, u \in Tags : <<k, u>> \in S => IsStaged(k, u)
        BY Zenon, <2>1
    <2>3. RemoveAll({}, S)
        <3>1. objects' = [k \in Keys |-> IF k \in {} THEN None ELSE objects[k]]
            BY Zenon, <1>7 DEF FinishWriteAndDelete, TypeOK
        <3>2. ResidentBufs({}) = {}
            BY Zenon DEF ResidentBufs
        <3> QED BY Zenon, <1>7, <3>1, <3>2 DEF FinishWriteAndDelete, RemoveAll
    <2> HIDE DEF S
    <2> QED BY Zenon, <2>2, <2>3, RemoveAllOwns
<1>8. ASSUME NEW K \in SUBSET Keys, NEW force, Delete(K, force) PROVE BufferOwnership'
    <2>1. Deleted(K, force) \in SUBSET Keys /\ \A k \in Deleted(K, force) : IsResident(k)
        BY Zenon DEF Deleted
    <2> QED BY Zenon, <1>8, <2>1, ReclaimableStaged, RemoveAllOwns DEF Delete
<1>9. ASSUME NEW force, Clear(force) PROVE BufferOwnership'
    <2>1. Cleared(force) \in SUBSET Keys /\ \A k \in Cleared(force) : IsResident(k)
        BY Zenon DEF Cleared
    <2> QED BY Zenon, <1>9, <2>1, ReclaimableStaged, RemoveAllOwns DEF Clear
<1>10. ASSUME NEW k \in Keys, ExpireRead(k) PROVE BufferOwnership'
    <2>1. objects[k] \in Resident /\ None \notin Resident
        BY Zenon, <1>10, L1Assumption DEF ExpireRead, ReadLocked, IsResident, TypeOK
    <2>2. /\ [objects[k] EXCEPT !.locks = 0] \in Resident
          /\ [objects[k] EXCEPT !.locks = 0].buf = objects[k].buf
        BY <2>1, L1Assumption DEF Resident
    <2>3. objects' = [objects EXCEPT ![k] = [objects[k] EXCEPT !.locks = 0]]
        BY Zenon, <1>10 DEF ExpireRead
    <2>4. \A j \in Keys : /\ IsResident(j)' <=> IsResident(j)
                          /\ IsResident(j) => objects'[j].buf = objects[j].buf
        BY Zenon, <2>1, <2>2, <2>3 DEF TypeOK, IsResident
    <2>5. staging' = staging /\ allocated' = allocated
        BY Zenon, <1>10 DEF ExpireRead
    <2> QED BY Zenon, <2>4, <2>5, SameOwns DEF IsStaged
<1>11. ASSUME NEW k \in Keys, NEW t \in Tags, NEW o \in Staged, o.buf = staging[k][t].buf,
              IsStaged(k, t), staging' = [staging EXCEPT ![k][t] = o],
              UNCHANGED <<objects, allocated>>
       PROVE  BufferOwnership'
    <2>1. \A j \in Keys, u \in Tags : staging'[j][u] = IF j = k /\ u = t THEN o ELSE staging[j][u]
        BY Zenon, <1>11 DEF TypeOK
    <2>2. \A j \in Keys, u \in Tags : /\ IsStaged(j, u)' <=> IsStaged(j, u)
                                      /\ IsStaged(j, u) => staging'[j][u].buf = staging[j][u].buf
        BY <1>11, <2>1, L1Assumption DEF IsStaged
    <2> QED BY Zenon, <1>11, <2>2, SameOwns DEF IsResident
<1>12. ASSUME NEW k \in Keys, NEW t \in Tags, ExpireWrite(k, t) PROVE BufferOwnership'
    <2> DEFINE o == [staging[k][t] EXCEPT !.held = FALSE]
    <2>1. IsStaged(k, t) /\ staging[k][t] \in Staged
        BY <1>12 DEF ExpireWrite, IsLive, IsStaged, TypeOK
    <2>2. o \in Staged /\ o.buf = staging[k][t].buf
        BY Zenon, <2>1 DEF Staged
    <2>3. staging' = [staging EXCEPT ![k][t] = o] /\ UNCHANGED <<objects, allocated>>
        BY Zenon, <1>12 DEF ExpireWrite
    <2> QED BY Zenon, <2>1, <2>2, <2>3, <1>11
<1>13. ASSUME NEW k \in Keys, NEW t \in Tags, NEW size \in Sizes, SetUsedSize(k, t, size)
       PROVE  BufferOwnership'
    <2> DEFINE o == [staging[k][t] EXCEPT !.size = size]
    <2>1. IsStaged(k, t) /\ staging[k][t] \in Staged
        BY <1>13 DEF SetUsedSize, IsStaged, TypeOK
    <2>2. o \in Staged /\ o.buf = staging[k][t].buf
        BY Zenon, <2>1 DEF Staged
    <2>3. staging' = [staging EXCEPT ![k][t] = o] /\ UNCHANGED <<objects, allocated>>
        BY Zenon, <1>13 DEF SetUsedSize
    <2> QED BY Zenon, <2>1, <2>2, <2>3, <1>11
<1>14. CASE UNCHANGED vars
    BY Zenon, <1>14, SameOwns DEF vars, IsResident, IsStaged
<1> QED
    BY Zenon, <1>1, <1>2, <1>3, <1>4, <1>5, <1>6, <1>7, <1>8, <1>9, <1>10, <1>12, <1>13, <1>14
    DEF Next, Unforced, ReaderStep, WriterStep, DeleteStep, ExpiryStep, Forced, Batches

\* At the start no buffer is handed out.
LEMMA InitOwns == Init => BufferOwnership
<1> SUFFICES ASSUME Init PROVE BufferOwnership
    BY Zenon
<1>1. \A k \in Keys, p \in Places : BufMap[k][p] = None
    BY Zenon DEF Init, BufMap, Places, IsResident, IsStaged
<1>2. None \notin Bufs
    BY Zenon, L1Assumption
<1> QED BY Zenon, <1>1, <1>2 DEF Init, BufferOwnership, Owns

\* The state stays well typed under every sequence of calls and expiries.
THEOREM TypeCorrect == Spec => []TypeOK
BY InitType, NextType, PTL DEF Spec

\* Under every sequence of calls, expiries and allocation failures, every live
\* memory object belongs to exactly one resident or staging object: no method
\* leaks a buffer, frees one twice or shares one.
THEOREM OwnershipHolds == Spec => []BufferOwnership
<1>1. Init => Inv
    BY Zenon, InitType, InitOwns DEF Inv
<1>2. Inv /\ [Next]_vars => Inv'
    BY Zenon, NextType, NextOwns DEF Inv
<1>3. Inv => BufferOwnership
    BY Zenon DEF Inv
<1> QED BY <1>1, <1>2, <1>3, PTL DEF Spec

----------------------------------------------------------------------------
\* What a step may never do

\* _take_staging admits only live reservations, so a key becomes readable only
\* with the buffer of one, whatever the interleaving of calls and expiries.
THEOREM AdmissionIsLive == Spec => AdmittedFromLiveReservation
<1> DEFINE A == \A k \in Keys : ~IsResident(k) /\ IsResident(k)' =>
                    \E t \in Tags : /\ IsLive(k, t) /\ ~IsStaged(k, t)'
                                    /\ objects'[k].buf = staging[k][t].buf
<1>1. TypeOK /\ [Next]_vars => [A]_vars
    <2> SUFFICES ASSUME TypeOK, Next PROVE A
        BY Zenon
    <2>1. ASSUME NEW K \in Batches, NEW t \in Tags, NEW n,
                 objects' = [k \in Keys |-> IF k \in Admitted(K, t) THEN Admit(k, t, n)
                                            ELSE objects'[k]],
                 \A k \in Keys \ Admitted(K, t) : ~IsResident(k) => objects'[k] = None,
                 PopStaging(Taken(K, t) \X {t})
          PROVE  A
        <3> SUFFICES ASSUME NEW k \in Keys, ~IsResident(k), IsResident(k)'
                     PROVE  /\ IsLive(k, t) /\ ~IsStaged(k, t)'
                            /\ objects'[k].buf = staging[k][t].buf
            BY Zenon
        <3>1. k \in Admitted(K, t)
            BY Zenon, <2>1 DEF IsResident
        <3>2. IsLive(k, t) /\ k \in Taken(K, t)
            BY Zenon, <3>1 DEF Admitted, Taken
        <3>3. <<k, t>> \in Taken(K, t) \X {t}
            BY Zenon, <3>2
        <3>4. staging'[k][t] = None
            BY Zenon, <2>1, <3>3 DEF PopStaging
        <3>5. objects'[k].buf = staging[k][t].buf
            <4>1. objects'[k] = Admit(k, t, n)
                BY Zenon, <2>1, <3>1
            <4>2. Admit(k, t, n).buf = staging[k][t].buf
                BY ONLY Zenon DEF Admit
            <4> QED BY ONLY Zenon, <4>1, <4>2
        <3> QED BY Zenon, <3>2, <3>4, <3>5 DEF IsStaged
    <2>2. ASSUME NEW K \in Batches, NEW t \in Tags, FinishWrite(K, t) PROVE A
        <3>1. objects' = [k \in Keys |-> IF k \in Admitted(K, t) THEN Admit(k, t, 0)
                                         ELSE objects'[k]]
            BY Zenon, <2>2 DEF FinishWrite
        <3>2. \A k \in Keys \ Admitted(K, t) : ~IsResident(k) => objects'[k] = None
            BY Zenon, <2>2 DEF FinishWrite, IsResident
        <3>3. PopStaging(Taken(K, t) \X {t})
            BY Zenon, <2>2 DEF FinishWrite
        <3> HIDE DEF A
        <3> QED BY Zenon, <2>1, <3>1, <3>2, <3>3
    <2>3. ASSUME NEW K \in Batches, NEW t \in Tags, NEW n \in LockCounts,
                 FinishWriteAndReserveRead(K, n, t)
          PROVE  A
        <3>1. objects' = [k \in Keys |-> IF k \in Admitted(K, t) THEN Admit(k, t, n)
                                         ELSE objects'[k]]
            BY Zenon, <2>3 DEF FinishWriteAndReserveRead
        <3>2. \A k \in Keys \ Admitted(K, t) : ~IsResident(k) => objects'[k] = None
            BY Zenon, <2>3 DEF FinishWriteAndReserveRead, Discarded, IsResident
        <3>3. PopStaging(Taken(K, t) \X {t})
            BY Zenon, <2>3 DEF FinishWriteAndReserveRead
        <3> HIDE DEF A
        <3> QED BY Zenon, <2>1, <3>1, <3>2, <3>3
    <2>4. ASSUME \A k \in Keys : ~IsResident(k) => ~IsResident(k)' PROVE A
        BY Zenon, <2>4
    <2>5. ASSUME NEW K, NEW n, ReserveRead(K, n) \/ FinishRead(K, n)
          PROVE  \A k \in Keys : ~IsResident(k) => ~IsResident(k)'
        BY Zenon, <2>5 DEF ReserveRead, FinishRead, ReadLocked, IsResident
    <2>6. ASSUME NEW R, NEW S, RemoveAll(R, S)
          PROVE  \A k \in Keys : ~IsResident(k) => ~IsResident(k)'
        BY Zenon, <2>6 DEF RemoveAll, IsResident
    <2>7. ASSUME NEW j \in Keys, ExpireRead(j)
          PROVE  \A k \in Keys : ~IsResident(k) => ~IsResident(k)'
        BY Zenon, <2>7 DEF ExpireRead, ReadLocked, IsResident, TypeOK
    <2>8. ASSUME objects' = objects
          PROVE  \A k \in Keys : ~IsResident(k) => ~IsResident(k)'
        BY Zenon, <2>8 DEF IsResident
    <2> HIDE DEF A
    <2> QED BY Zenon, <2>2, <2>3, <2>4, <2>5, <2>6, <2>7, <2>8
            DEF Next, Unforced, ReaderStep, WriterStep, DeleteStep, ExpiryStep, Forced, Delete, Clear,
                ReserveWrite, ReserveWriteOutOfMemory, FinishWriteAndDelete, ExpireWrite, SetUsedSize
<1> QED BY <1>1, TypeCorrect, PTL DEF Spec, AdmittedFromLiveReservation

\* A reader's object is never exchanged under it: from one step to the next a
\* key's resident buffer is the same, unless the key is absent in between.
THEOREM ResidentBufferIsStable == Spec => ResidentIsStable
<1> DEFINE A == \A k \in Keys : IsResident(k) /\ IsResident(k)' => objects'[k].buf = objects[k].buf
<1>1. TypeOK /\ [Next]_vars => [A]_vars
    <2> SUFFICES ASSUME TypeOK, Next PROVE A
        BY Zenon
    <2>1. ASSUME NEW o, NEW n PROVE Lock(o, n).buf = o.buf \/ o \notin Resident
        BY Zenon DEF Lock, Resident
    <2>2. ASSUME NEW o, NEW n PROVE Unlock(o, n).buf = o.buf \/ o \notin Resident
        BY Zenon DEF Unlock, Resident
    <2>3. \A k \in Keys : IsResident(k) => objects[k] \in Resident
        BY Zenon DEF TypeOK, IsResident
    <2>4. ASSUME NEW K, NEW n, ReserveRead(K, n) PROVE A
        BY Zenon, <2>1, <2>3, <2>4 DEF ReserveRead
    <2>5. ASSUME NEW K, NEW n, FinishRead(K, n) PROVE A
        BY Zenon, <2>2, <2>3, <2>5 DEF FinishRead, IsResident
    <2>6. ASSUME NEW K, NEW t, FinishWrite(K, t) PROVE A
        BY Zenon, <2>6 DEF FinishWrite, Admitted
    <2>7. ASSUME NEW K, NEW n, NEW t, FinishWriteAndReserveRead(K, n, t) PROVE A
        BY Zenon, <2>1, <2>3, <2>7 DEF FinishWriteAndReserveRead, Admitted
    <2>8. ASSUME NEW R, NEW S, RemoveAll(R, S) PROVE A
        BY Zenon, <2>8 DEF RemoveAll, IsResident
    <2>9. ASSUME NEW j \in Keys, ExpireRead(j) PROVE A
        <3>1. objects[j] \in Resident
            BY Zenon, <2>3, <2>9 DEF ExpireRead, ReadLocked
        <3>2. objects' = [objects EXCEPT ![j] = [objects[j] EXCEPT !.locks = 0]]
            BY Zenon, <2>9 DEF ExpireRead
        <3>3. [objects[j] EXCEPT !.locks = 0].buf = objects[j].buf
            BY Zenon, <3>1 DEF Resident
        <3> QED BY Zenon, <3>2, <3>3 DEF TypeOK
    <2>10. ASSUME objects' = objects PROVE A
        BY Zenon, <2>10
    <2> HIDE DEF A
    <2> QED BY Zenon, <2>4, <2>5, <2>6, <2>7, <2>8, <2>9, <2>10
            DEF Next, Unforced, ReaderStep, WriterStep, DeleteStep, ExpiryStep, Forced, Delete, Clear,
                ReserveWrite, ReserveWriteOutOfMemory, FinishWriteAndDelete, ExpireWrite, SetUsedSize
<1> QED BY <1>1, TypeCorrect, PTL DEF Spec, ResidentIsStable

\* Whoever holds a lock keeps what it locked: delete, clear and the other tags
\* leave read-locked objects and live reservations alone unless they are forced.
THEOREM LockedIsProtected == Spec => LocksProtect
<1> DEFINE ReadEnded(k) ==
               \E K \in Batches, n \in LockCounts :
                  FinishRead(K, n) /\ k \in K /\ objects[k].temp /\ n >= objects[k].locks
           WriteEnded(k, t) ==
               \E K \in Batches : k \in K /\ (\/ FinishWrite(K, t) \/ FinishWriteAndDelete(K, t)
                                              \/ \E n \in LockCounts :
                                                   FinishWriteAndReserveRead(K, n, t))
           R == \A k \in Keys : ReadLocked(k) /\ ~IsResident(k)' => ReadEnded(k)
           W == \A k \in Keys, t \in Tags : IsLive(k, t) /\ ~IsStaged(k, t)' => WriteEnded(k, t)
<1>1. ASSUME TypeOK, Unforced PROVE R /\ W
    <2> USE <1>1
    <2>1. \A k \in Keys : ReadLocked(k) => objects[k] \in Resident
        BY Zenon DEF TypeOK, ReadLocked, IsResident
    <2>2. \A k \in Keys, t \in Tags : IsLive(k, t) => staging[k][t] \in Staged
        BY Zenon DEF TypeOK, IsLive, IsStaged
    <2>3. ASSUME objects' = objects PROVE R
        BY Zenon, <2>3 DEF ReadLocked, IsResident
    <2>4. ASSUME staging' = staging PROVE W
        BY Zenon, <2>4 DEF IsLive, IsStaged
    <2>5. ASSUME NEW K \in Batches, NEW n \in LockCounts, ReserveRead(K, n) PROVE R /\ W
        <3>1. \A k \in K : IsResident(k) => Lock(objects[k], n) \in Resident
            BY <2>5, LockType DEF ReserveRead, WithinBound, TypeOK, IsResident, Batches, LockCounts
        <3>2. \A k \in Keys : ReadLocked(k) => objects'[k] # None
            BY Zenon, <2>5, <3>1, L1Assumption DEF ReserveRead, ReadLocked, IsResident
        <3>3. R
            BY Zenon, <3>2 DEF IsResident
        <3>4. W
            BY Zenon, <2>4, <2>5 DEF ReserveRead
        <3> QED BY Zenon, <3>3, <3>4
    <2>6. ASSUME NEW K \in Batches, NEW n \in LockCounts, FinishRead(K, n) PROVE R /\ W
        <3>1. ASSUME NEW k \in Keys, ReadLocked(k), ~IsResident(k)' PROVE k \in DroppedByRead(K, n)
            <4>1. Unlock(objects[k], n) \in Resident
                BY <2>1, <3>1, UnlockType DEF LockCounts
            <4> QED BY Zenon, <2>6, <3>1, <4>1, L1Assumption DEF FinishRead, ReadLocked, IsResident
        <3>2. ASSUME NEW k \in DroppedByRead(K, n)
              PROVE  k \in K /\ objects[k].temp /\ n >= objects[k].locks
            <4>1. k \in Keys /\ ReadLocked(k) /\ objects[k].locks <= n /\ k \in K /\ objects[k].temp
                BY Zenon, <3>2 DEF DroppedByRead, Batches
            <4> QED BY Zenon, <2>1, <4>1 DEF Resident, LockCounts
        <3>3. R
            BY Zenon, <2>6, <3>1, <3>2
        <3>4. W
            BY Zenon, <2>4, <2>6 DEF FinishRead
        <3> QED BY Zenon, <3>3, <3>4
    <2>7. ASSUME NEW S, PopStaging(S), NEW k \in Keys, NEW t \in Tags, IsLive(k, t), ~IsStaged(k, t)'
          PROVE  <<k, t>> \in S
        BY Zenon, <2>7 DEF PopStaging, IsLive, IsStaged
    <2>8. ASSUME NEW K \in Batches, NEW t \in Tags, PopStaging(Taken(K, t) \X {t}),
                 \/ FinishWrite(K, t) \/ FinishWriteAndDelete(K, t)
                 \/ \E n \in LockCounts : FinishWriteAndReserveRead(K, n, t)
          PROVE  W
        <3>1. ASSUME NEW k \in Keys, NEW u \in Tags, IsLive(k, u), ~IsStaged(k, u)'
              PROVE  k \in K /\ u = t
            <4>1. <<k, u>> \in Taken(K, t) \X {t}
                BY Zenon, <2>7, <2>8, <3>1
            <4> QED BY Zenon, <4>1 DEF Taken
        <3> QED BY Zenon, <2>8, <3>1
    <2>9. ASSUME NEW K \in Batches, NEW t \in Tags, FinishWrite(K, t) PROVE R /\ W
        <3>1. R
            BY Zenon, <2>9 DEF FinishWrite, Admitted, ReadLocked, IsResident
        <3>2. PopStaging(Taken(K, t) \X {t})
            BY Zenon, <2>9 DEF FinishWrite
        <3> HIDE DEF R, W
        <3> QED BY Zenon, <2>8, <2>9, <3>1, <3>2
    <2>10. ASSUME NEW K \in Batches, NEW t \in Tags, NEW n \in LockCounts,
                  FinishWriteAndReserveRead(K, n, t)
           PROVE  R /\ W
        <3>1. \A k \in Discarded(K, t) : Lock(objects[k], n) \in Resident
            BY <2>10, LockType DEF FinishWriteAndReserveRead, WithinBound, Discarded, Taken, TypeOK,
                IsResident, Batches, LockCounts
        <3>2. \A k \in Keys : ReadLocked(k) => objects'[k] # None
            BY Zenon, <2>10, <3>1, L1Assumption DEF FinishWriteAndReserveRead, Admitted, ReadLocked, IsResident
        <3>3. R
            BY Zenon, <3>2 DEF IsResident
        <3>4. PopStaging(Taken(K, t) \X {t})
            BY Zenon, <2>10 DEF FinishWriteAndReserveRead
        <3> HIDE DEF R, W
        <3> QED BY Zenon, <2>8, <2>10, <3>3, <3>4
    <2>11. ASSUME NEW K \in Batches, NEW t \in Tags, FinishWriteAndDelete(K, t) PROVE R /\ W
        <3>1. PopStaging(Taken(K, t) \X {t}) /\ objects' = objects
            BY Zenon, <2>11 DEF FinishWriteAndDelete
        <3> HIDE DEF R, W
        <3> QED BY Zenon, <2>3, <2>8, <2>11, <3>1
    <2>12. ASSUME NEW K \in Batches, NEW t \in Tags, NEW T,
                  (\E size \in Sizes : ReserveWrite(K, T, t, size)) \/ ReserveWriteOutOfMemory(K, T, t)
           PROVE  R /\ W
        <3>1. \A k \in Keys, u \in Tags : IsLive(k, u) => staging'[k][u] = staging[k][u]
            <4>1. CASE ReserveWriteOutOfMemory(K, T, t)
                BY Zenon, <4>1 DEF ReserveWriteOutOfMemory, HandedOver, IsLive
            <4>2. ASSUME NEW size \in Sizes, ReserveWrite(K, T, t, size)
                  PROVE  \A k \in Keys, u \in Tags : IsLive(k, u) => staging'[k][u] = staging[k][u]
                <5>1. PICK f \in Allocations(NeedToAllocate(K, t)) :
                         staging' = StagingWith(K, T, t, f, size)
                    BY Zenon, <4>2 DEF ReserveWrite
                <5>2. DOMAIN f = NeedToAllocate(K, t)
                    BY Zenon DEF Allocations
                <5> QED BY Zenon, <5>1, <5>2 DEF StagingWith, HandedOver, NeedToAllocate, IsLive, IsStaged
            <4> QED BY Zenon, <2>12, <4>1, <4>2
        <3>2. W
            BY Zenon, <3>1 DEF IsLive, IsStaged
        <3>3. objects' = objects
            BY Zenon, <2>12 DEF ReserveWrite, ReserveWriteOutOfMemory
        <3> QED BY Zenon, <2>3, <3>2, <3>3
    <2>13. ASSUME NEW D, NEW S, RemoveAll(D, S), \A k \in D : ~ReadLocked(k),
                  \A k \in Keys, t \in Tags : <<k, t>> \in S => ~IsLive(k, t)
           PROVE  R /\ W
        <3>1. R
            BY Zenon, <2>13 DEF RemoveAll, ReadLocked, IsResident
        <3>2. PopStaging(S)
            BY Zenon, <2>13 DEF RemoveAll
        <3>3. W
            BY Zenon, <2>7, <2>13, <3>2
        <3> QED BY Zenon, <3>1, <3>3
    <2>14. ASSUME NEW K PROVE \A k \in Keys, t \in Tags : <<k, t>> \in Reclaimable(K, FALSE) => ~IsLive(k, t)
        BY Zenon DEF Reclaimable, IsLive
    <2>15. ASSUME NEW K \in Batches, Delete(K, FALSE) PROVE R /\ W
        <3>1. \A k \in Deleted(K, FALSE) : ~ReadLocked(k)
            BY Zenon DEF Deleted
        <3> HIDE DEF R, W
        <3> QED BY Zenon, <2>13, <2>14, <2>15, <3>1 DEF Delete
    <2>16. ASSUME Clear(FALSE) PROVE R /\ W
        <3>1. \A k \in Cleared(FALSE) : ~ReadLocked(k)
            BY Zenon DEF Cleared
        <3> HIDE DEF R, W
        <3> QED BY Zenon, <2>13, <2>14, <2>16, <3>1 DEF Clear
    <2>17. ASSUME NEW j \in Keys, ExpireRead(j) PROVE R /\ W
        <3>1. objects[j] \in Resident
            BY Zenon, <2>1, <2>17 DEF ExpireRead
        <3>2. [objects[j] EXCEPT !.locks = 0] \in Resident
            BY <3>1, L1Assumption DEF Resident
        <3>3. \A k \in Keys : ReadLocked(k) => objects'[k] # None
            BY Zenon, <2>17, <3>2, L1Assumption DEF ExpireRead, ReadLocked, IsResident, TypeOK
        <3>4. R
            BY Zenon, <3>3 DEF IsResident
        <3>5. W
            BY Zenon, <2>4, <2>17 DEF ExpireRead
        <3> QED BY Zenon, <3>4, <3>5
    <2>18. ASSUME NEW j \in Keys, NEW u \in Tags, NEW o \in Staged,
                  staging' = [staging EXCEPT ![j][u] = o]
           PROVE  W
        <3>1. \A k \in Keys, t \in Tags : IsLive(k, t) => staging'[k][t] # None
            BY Zenon, <2>18, L1Assumption DEF IsLive, IsStaged, TypeOK
        <3> QED BY Zenon, <3>1 DEF IsStaged
    <2>19. ASSUME NEW j \in Keys, NEW u \in Tags, ExpireWrite(j, u) PROVE R /\ W
        <3>1. [staging[j][u] EXCEPT !.held = FALSE] \in Staged
            <4>1. \A o \in Staged : [o EXCEPT !.held = FALSE] \in Staged
                BY Zenon DEF Staged
            <4> QED BY Zenon, <2>2, <2>19, <4>1 DEF ExpireWrite
        <3> QED BY Zenon, <2>3, <2>18, <2>19, <3>1 DEF ExpireWrite
    <2>20. ASSUME NEW j \in Keys, NEW u \in Tags, NEW size \in Sizes, SetUsedSize(j, u, size) PROVE R /\ W
        <3>1. [staging[j][u] EXCEPT !.size = size] \in Staged
            BY <2>20 DEF SetUsedSize, IsStaged, TypeOK, Staged
        <3> QED BY Zenon, <2>3, <2>18, <2>20, <3>1 DEF SetUsedSize
    <2> HIDE DEF R, W
    <2>21. CASE ReaderStep
        BY Zenon, <2>5, <2>6, <2>21 DEF ReaderStep
    <2>22. CASE WriterStep
        BY Zenon, <2>9, <2>10, <2>11, <2>12, <2>22 DEF WriterStep
    <2>23. CASE DeleteStep
        BY Zenon, <2>15, <2>16, <2>23 DEF DeleteStep
    <2>24. CASE ExpiryStep
        BY Zenon, <2>17, <2>19, <2>20, <2>24 DEF ExpiryStep
    <2> QED BY Zenon, <2>21, <2>22, <2>23, <2>24 DEF Unforced
<1>2. TypeOK /\ [Next]_vars =>
         [/\ \A k \in Keys : ReadLocked(k) /\ ~IsResident(k)' /\ Unforced => ReadEnded(k)
          /\ \A k \in Keys, t \in Tags :
                 IsLive(k, t) /\ ~IsStaged(k, t)' /\ Unforced => WriteEnded(k, t)]_vars
    <2> HIDE DEF ReadEnded, WriteEnded
    <2> QED BY Zenon, <1>1
<1> QED BY <1>2, TypeCorrect, PTL DEF Spec, LocksProtect
----------------------------------------------------------------------------
\* The clients

\* One tag per writer.
OwnTags == TagOf \in [Writers -> Tags] /\ \A w, x \in Writers : TagOf[w] = TagOf[x] => w = x

\* What the proofs assume of the clients.
ClientsAssumption == OwnTags /\ 1 \in Sizes /\ 1 \in LockCounts

Writing(w) == writer[w] # None /\ ~writer[w].late
Reading(r) == reader[r] # None /\ ~reader[r].late
ReadersOf(k) == {r \in Readers : Reading(r) /\ reader[r].key = k}

\* Every writer within its TTL has a live reservation on the buffer it was given.
WritersHold ==
    \A w \in Writers : Writing(w) =>
        /\ IsLive(writer[w].key, TagOf[w])
        /\ staging[writer[w].key][TagOf[w]].buf = writer[w].buf

\* Objects are permanent, and locked at least once for each reader within its
\* TTL, in the buffer it was given.
ReadersHold ==
    /\ \A k \in Keys, t \in Tags : IsStaged(k, t) => ~staging[k][t].temp
    /\ \A k \in Keys : IsResident(k) =>
         ~objects[k].temp /\ Cardinality(ReadersOf(k)) <= objects[k].locks
    /\ \A r \in Readers : Reading(r) =>
         IsResident(reader[r].key) /\ objects[reader[r].key].buf = reader[r].buf

----------------------------------------------------------------------------

\* The clients' calls are calls of the manager.
LEMMA ClientsCallManager ==
    ASSUME ClientsAssumption, TypeOKC, CNext
    PROVE  [Next]_vars
<1>1. ASSUME NEW w \in Writers, EndWrite(w) PROVE Next
  <2>1. writer[w].key \in Keys /\ TagOf[w] \in Tags
    BY Zenon, <1>1 DEF EndWrite, TypeOKC, Accesses, ClientsAssumption, OwnTags
  <2>2. {writer[w].key} \in Batches
    BY Zenon, <2>1 DEF Batches
  <2> QED BY Zenon, <1>1, <2>1, <2>2 DEF EndWrite, Next, Unforced, WriterStep
<1>2. ASSUME NEW w \in Writers, NEW k \in Keys, BeginWrite(w, k) PROVE Next
  <2>1. {k} \in Batches /\ TagOf[w] \in Tags /\ {} \in SUBSET {k} /\ 1 \in Sizes
    BY Zenon DEF Batches, ClientsAssumption, OwnTags
  <2> QED BY Zenon, <1>2, <2>1 DEF BeginWrite, Next, Unforced, WriterStep
<1>3. ASSUME NEW r \in Readers, EndRead(r) PROVE Next
  <2>1. reader[r].key \in Keys
    BY Zenon, <1>3 DEF EndRead, TypeOKC, Accesses
  <2>2. {reader[r].key} \in Batches /\ 1 \in LockCounts
    BY Zenon, <2>1 DEF Batches, ClientsAssumption
  <2> QED BY Zenon, <1>3, <2>2 DEF EndRead, Next, Unforced, ReaderStep
<1>4. ASSUME NEW r \in Readers, NEW k \in Keys, BeginRead(r, k) PROVE Next
  <2>1. {k} \in Batches /\ 1 \in LockCounts
    BY Zenon DEF Batches, ClientsAssumption
  <2> QED BY Zenon, <1>4, <2>1 DEF BeginRead, Next, Unforced, ReaderStep
<1>5. ASSUME Vanish PROVE UNCHANGED vars
  BY Zenon, <1>5 DEF Vanish
<1>6. ASSUME NEW k \in Keys, LapseRead(k) PROVE Next
  BY Zenon, <1>6 DEF LapseRead, Next, Unforced, ExpiryStep
<1>7. ASSUME NEW k \in Keys, NEW t \in Tags, LapseWrite(k, t) PROVE Next
  BY Zenon, <1>7 DEF LapseWrite, Next, Unforced, ExpiryStep
<1>8. ASSUME NEW k \in Keys, Evict(k) PROVE Next
  <2>1. {k} \in Batches
    BY Zenon DEF Batches
  <2> QED BY Zenon, <1>8, <2>1 DEF Evict, Next, Unforced, DeleteStep
<1> QED BY Zenon, <1>1, <1>2, <1>3, <1>4, <1>5, <1>6, <1>7, <1>8 DEF CNext

\* The state is well typed at the start and after every step.
LEMMA ClientTypes ==
    ASSUME ClientsAssumption
    PROVE  (CInit => TypeOKC) /\ (TypeOKC /\ [CNext]_cvars => TypeOKC')
<1>1. CInit => TypeOKC
  BY Zenon, InitType DEF CInit, TypeOKC
<1>2. ASSUME TypeOKC, UNCHANGED cvars PROVE TypeOKC'
  BY Zenon, <1>2 DEF TypeOKC, TypeOK, cvars, vars
<1>3. ASSUME TypeOKC, CNext PROVE TypeOKC'
  <2>1. TypeOK'
    BY Zenon, <1>3, ClientsCallManager, NextType DEF TypeOKC
  <2>2. ASSUME NEW x \in Accesses PROVE [x EXCEPT !.late = TRUE] \in Accesses
    BY Zenon DEF Accesses
  <2>3. ASSUME NEW w \in Writers, NEW k \in Keys, BeginWrite(w, k) PROVE TypeOKC'
    <3>1. /\ writer' = [writer EXCEPT ![w] = [key |-> k, buf |-> staging'[k][TagOf[w]].buf, late |-> FALSE]]
          /\ reader' = reader
      BY Zenon, <2>3 DEF BeginWrite
    <3>2. staging'[k][TagOf[w]].buf \in Bufs
      <4>1. TagOf[w] \in Tags
        BY Zenon DEF ClientsAssumption, OwnTags
      <4>2. staging'[k][TagOf[w]] # None
        <5>1. PICK f \in Allocations(NeedToAllocate({k}, TagOf[w])) :
                 staging' = StagingWith({k}, {}, TagOf[w], f, 1)
          BY Zenon, <2>3 DEF BeginWrite, ReserveWrite
        <5>2. f \in [NeedToAllocate({k}, TagOf[w]) -> Bufs]
          BY Zenon DEF Allocations
        <5>3. k \in HandedOver({k}, TagOf[w]) \/ k \in NeedToAllocate({k}, TagOf[w])
          BY Zenon, <2>3 DEF BeginWrite
        <5>4. CASE k \in HandedOver({k}, TagOf[w])
          <6>1. staging'[k][TagOf[w]] = Rehold(staging[k][TagOf[w]], k \in {})
            BY Zenon, <4>1, <5>1, <5>4 DEF StagingWith
          <6>2. staging[k][TagOf[w]] \in Staged /\ (k \in {}) \in BOOLEAN
            BY <1>3, <4>1, <5>4 DEF HandedOver, IsStaged, TypeOKC, TypeOK
          <6>3. Rehold(staging[k][TagOf[w]], k \in {}) \in Staged
            BY Zenon, <6>2, ReholdType
          <6> QED BY Zenon, <6>1, <6>3, L1Assumption
        <5>5. CASE k \notin HandedOver({k}, TagOf[w])
          <6>1. staging'[k][TagOf[w]] = NewStaged(f[k], k \in {}, 1)
            BY Zenon, <4>1, <5>1, <5>2, <5>3, <5>5 DEF StagingWith
          <6>2. f[k] \in Bufs /\ (k \in {}) \in BOOLEAN /\ 1 \in Sizes
            BY <5>2, <5>3, <5>5 DEF ClientsAssumption
          <6>3. NewStaged(f[k], k \in {}, 1) \in Staged
            BY Zenon, <6>2, NewStagedType
          <6> QED BY Zenon, <6>1, <6>3, L1Assumption
        <5> QED BY Zenon, <5>4, <5>5
      <4> QED BY <2>1, <4>1, <4>2 DEF TypeOK, Staged
    <3>3. [key |-> k, buf |-> staging'[k][TagOf[w]].buf, late |-> FALSE] \in Accesses
      BY Zenon, <3>2 DEF Accesses
    <3> QED BY Zenon, <1>3, <2>1, <3>1, <3>3 DEF TypeOKC
  <2>4. ASSUME NEW r \in Readers, NEW k \in Keys, BeginRead(r, k) PROVE TypeOKC'
    <3>1. [key |-> k, buf |-> objects[k].buf, late |-> FALSE] \in Accesses
      BY Zenon, <1>3, <2>4 DEF BeginRead, IsResident, TypeOKC, TypeOK, Resident, Accesses
    <3> QED BY Zenon, <1>3, <2>1, <2>4, <3>1 DEF BeginRead, TypeOKC
  <2>5. ASSUME NEW w \in Writers, EndWrite(w) PROVE TypeOKC'
    BY Zenon, <1>3, <2>1, <2>5 DEF EndWrite, TypeOKC
  <2>6. ASSUME NEW r \in Readers, EndRead(r) PROVE TypeOKC'
    BY Zenon, <1>3, <2>1, <2>6 DEF EndRead, TypeOKC
  <2>7. ASSUME Vanish PROVE TypeOKC'
    BY Zenon, <1>3, <2>1, <2>7 DEF Vanish, TypeOKC
  <2>8. ASSUME NEW k \in Keys, LapseRead(k) PROVE TypeOKC'
    BY Zenon, <1>3, <2>1, <2>2, <2>8 DEF LapseRead, Late, TypeOKC
  <2>9. ASSUME NEW k \in Keys, NEW t \in Tags, LapseWrite(k, t) PROVE TypeOKC'
    BY Zenon, <1>3, <2>1, <2>2, <2>9 DEF LapseWrite, Late, TypeOKC
  <2>10. ASSUME NEW k \in Keys, Evict(k) PROVE TypeOKC'
    BY Zenon, <1>3, <2>1, <2>10 DEF Evict, TypeOKC
  <2> QED BY Zenon, <1>3, <2>3, <2>4, <2>5, <2>6, <2>7, <2>8, <2>9, <2>10 DEF CNext
<1> QED BY Zenon, <1>1, <1>2, <1>3

----------------------------------------------------------------------------
\* Writers

\* A step that keeps what is staged for the writers within their TTL, and starts
\* no write, keeps their reservations.
LEMMA WritersUndisturbed ==
    ASSUME ClientsAssumption, TypeOKC, TypeOKC', WritersHold,
           \A w \in Writers : Writing(w)' =>
               /\ Writing(w) /\ writer'[w] = writer[w]
               /\ staging'[writer[w].key][TagOf[w]] = staging[writer[w].key][TagOf[w]]
    PROVE  WritersHold'
<1>1. ASSUME NEW w \in Writers, Writing(w)'
      PROVE  IsLive(writer[w].key, TagOf[w])' /\ staging'[writer'[w].key][TagOf[w]].buf = writer'[w].buf
  <2>1. /\ Writing(w) /\ writer'[w] = writer[w]
        /\ staging'[writer[w].key][TagOf[w]] = staging[writer[w].key][TagOf[w]]
    BY Zenon, <1>1
  <2> QED BY <2>1 DEF WritersHold, IsLive, IsStaged
<1> QED BY Zenon, <1>1 DEF WritersHold

\* Every step keeps the reservations of the writers within their TTL.
LEMMA WritersStep ==
    ASSUME ClientsAssumption, TypeOKC, TypeOKC', WritersHold, [CNext]_cvars
    PROVE  WritersHold'
<1> DEFINE Kept == \A w \in Writers : Writing(w)' =>
                       /\ Writing(w) /\ writer'[w] = writer[w]
                       /\ staging'[writer[w].key][TagOf[w]] = staging[writer[w].key][TagOf[w]]
<1>1. \A w \in Writers : Writing(w) =>
        /\ writer[w].key \in Keys /\ TagOf[w] \in Tags
        /\ IsLive(writer[w].key, TagOf[w])
  BY Zenon DEF TypeOKC, Accesses, Writing, WritersHold, ClientsAssumption, OwnTags
<1>2. ASSUME writer' = writer, staging' = staging PROVE Kept
  BY Zenon, <1>2 DEF Writing
<1>3. ASSUME NEW w \in Writers, NEW k \in Keys, BeginWrite(w, k) PROVE WritersHold'
  <2>1. PICK f \in Allocations(NeedToAllocate({k}, TagOf[w])) :
           staging' = StagingWith({k}, {}, TagOf[w], f, 1)
    BY Zenon, <1>3 DEF BeginWrite, ReserveWrite
  <2>2. f \in [NeedToAllocate({k}, TagOf[w]) -> Bufs] /\ TagOf[w] \in Tags
    BY Zenon DEF Allocations, ClientsAssumption, OwnTags
  <2>3. \A j \in Keys, u \in Tags : u # TagOf[w] => staging'[j][u] = staging[j][u]
    BY Zenon, <2>1 DEF StagingWith
  <2>4. writer' = [writer EXCEPT ![w] = [key |-> k, buf |-> staging'[k][TagOf[w]].buf, late |-> FALSE]]
    BY Zenon, <1>3 DEF BeginWrite
  <2>5. ASSUME NEW x \in Writers, x # w, Writing(x)'
        PROVE  /\ IsLive(writer[x].key, TagOf[x])' /\ writer'[x] = writer[x]
               /\ staging'[writer[x].key][TagOf[x]].buf = writer[x].buf
    <3>1. writer'[x] = writer[x] /\ Writing(x)
      BY Zenon, <2>4, <2>5 DEF Writing, TypeOKC
    <3>2. TagOf[x] # TagOf[w]
      BY Zenon, <2>5 DEF ClientsAssumption, OwnTags
    <3>3. staging'[writer[x].key][TagOf[x]] = staging[writer[x].key][TagOf[x]]
      BY Zenon, <1>1, <2>3, <3>1, <3>2
    <3> QED BY Zenon, <3>1, <3>3 DEF WritersHold, IsLive, IsStaged
  <2>6. /\ IsLive(k, TagOf[w])'
        /\ writer'[w].key = k /\ writer'[w].buf = staging'[k][TagOf[w]].buf
    <3>1. writer'[w].key = k /\ writer'[w].buf = staging'[k][TagOf[w]].buf
      BY Zenon, <2>4 DEF TypeOKC
    <3>2. k \in HandedOver({k}, TagOf[w]) \/ k \in NeedToAllocate({k}, TagOf[w])
      BY Zenon, <1>3 DEF BeginWrite
    <3>3. CASE k \in HandedOver({k}, TagOf[w])
      <4>1. staging'[k][TagOf[w]] = Rehold(staging[k][TagOf[w]], k \in {})
        BY Zenon, <2>1, <2>2, <3>3 DEF StagingWith
      <4>2. staging[k][TagOf[w]] \in Staged /\ (k \in {}) \in BOOLEAN
        BY <2>2, <3>3 DEF HandedOver, IsStaged, TypeOKC, TypeOK
      <4>3. Rehold(staging[k][TagOf[w]], k \in {}) \in Staged
        BY Zenon, <4>2, ReholdType
      <4>4. \A o \in Staged, b \in BOOLEAN : Rehold(o, b).held
        BY Zenon DEF Rehold, Staged
      <4>5. staging'[k][TagOf[w]] # None /\ staging'[k][TagOf[w]].held
        BY Zenon, <4>1, <4>2, <4>3, <4>4, L1Assumption
      <4> QED BY Zenon, <3>1, <4>5 DEF IsLive, IsStaged
    <3>4. CASE k \notin HandedOver({k}, TagOf[w])
      <4>1. staging'[k][TagOf[w]] = NewStaged(f[k], k \in {}, 1)
        BY Zenon, <2>1, <2>2, <3>2, <3>4 DEF StagingWith
      <4>2. f[k] \in Bufs /\ (k \in {}) \in BOOLEAN /\ 1 \in Sizes
        BY <2>2, <3>2, <3>4 DEF ClientsAssumption
      <4>3. NewStaged(f[k], k \in {}, 1) \in Staged
        BY Zenon, <4>2, NewStagedType
      <4>4. NewStaged(f[k], k \in {}, 1).held
        BY Zenon DEF NewStaged
      <4>5. staging'[k][TagOf[w]] # None /\ staging'[k][TagOf[w]].held
        BY Zenon, <4>1, <4>3, <4>4, L1Assumption
      <4> QED BY Zenon, <3>1, <4>5 DEF IsLive, IsStaged
    <3> QED BY Zenon, <3>3, <3>4
  <2> QED BY Zenon, <2>5, <2>6 DEF WritersHold, IsLive, IsStaged
<1>4. ASSUME NEW w \in Writers, EndWrite(w) PROVE Kept
  <2>1. writer' = [writer EXCEPT ![w] = None]
    BY Zenon, <1>4 DEF EndWrite
  <2>2. PopStaging(Taken({writer[w].key}, TagOf[w]) \X {TagOf[w]})
    BY Zenon, <1>4 DEF EndWrite, FinishWrite
  <2>3. ASSUME NEW j \in Keys, NEW u \in Tags, u # TagOf[w] PROVE staging'[j][u] = staging[j][u]
    <3>1. <<j, u>> \notin Taken({writer[w].key}, TagOf[w]) \X {TagOf[w]}
      BY Zenon, <2>3
    <3> QED BY Zenon, <2>2, <3>1 DEF PopStaging
  <2>4. ASSUME NEW x \in Writers, Writing(x)'
        PROVE  Writing(x) /\ writer'[x] = writer[x] /\ TagOf[x] # TagOf[w]
    <3>1. x # w
      BY Zenon, <2>1, <2>4 DEF Writing, TypeOKC
    <3> QED BY Zenon, <2>1, <2>4, <3>1 DEF Writing, TypeOKC, ClientsAssumption, OwnTags
  <2> QED BY Zenon, <1>1, <2>3, <2>4
<1>5. ASSUME Vanish PROVE Kept
  <2>1. staging' = staging
    BY Zenon, <1>5 DEF Vanish, vars
  <2>2. \A x \in Writers : writer'[x] \in {None, writer[x]}
    BY Zenon, <1>5 DEF Vanish, TypeOKC
  <2> QED BY Zenon, <2>1, <2>2 DEF Writing
<1>6. ASSUME NEW k \in Keys, NEW t \in Tags, LapseWrite(k, t) PROVE Kept
  <2> SUFFICES ASSUME NEW x \in Writers, Writing(x)'
               PROVE  /\ Writing(x) /\ writer'[x] = writer[x]
                      /\ staging'[writer[x].key][TagOf[x]] = staging[writer[x].key][TagOf[x]]
    BY Zenon
  <2>1. ASSUME NEW a \in Accesses PROVE [a EXCEPT !.late = TRUE].late
    BY Zenon DEF Accesses
  <2>2. writer'[x] = IF writer[x] # None /\ writer[x].key = k /\ TagOf[x] = t
                     THEN [writer[x] EXCEPT !.late = TRUE] ELSE writer[x]
    BY Zenon, <1>6 DEF LapseWrite, Late, TypeOKC
  <2>3. ~(writer[x] # None /\ writer[x].key = k /\ TagOf[x] = t)
    BY Zenon, <2>1, <2>2 DEF Writing, TypeOKC
  <2>4. writer'[x] = writer[x] /\ Writing(x)
    BY Zenon, <2>2, <2>3 DEF Writing
  <2>5. staging' = [staging EXCEPT ![k][t].held = FALSE]
    BY Zenon, <1>6 DEF LapseWrite, ExpireWrite
  <2>6. writer[x].key # k \/ TagOf[x] # t
    BY Zenon, <2>3, <2>4 DEF Writing
  <2> QED BY Zenon, <1>1, <2>4, <2>5, <2>6 DEF TypeOKC, TypeOK
<1>7. ASSUME NEW k \in Keys, Evict(k) PROVE Kept
  <2>1. PopStaging(Reclaimable({k}, FALSE)) /\ writer' = writer
    BY Zenon, <1>7 DEF Evict, Delete, RemoveAll
  <2>2. ASSUME NEW j \in Keys, NEW u \in Tags, IsLive(j, u) PROVE staging'[j][u] = staging[j][u]
    <3>1. <<j, u>> \notin Reclaimable({k}, FALSE)
      BY Zenon, <2>2 DEF Reclaimable, IsLive
    <3> QED BY Zenon, <2>1, <3>1 DEF PopStaging
  <2>3. \A x \in Writers : Writing(x)' => Writing(x)
    BY Zenon, <2>1 DEF Writing
  <2> QED BY Zenon, <1>1, <2>1, <2>2, <2>3
<1>8. ASSUME NEW r \in Readers, EndRead(r) \/ \E k \in Keys : BeginRead(r, k) PROVE Kept
  BY Zenon, <1>2, <1>8 DEF EndRead, BeginRead, FinishRead, ReserveRead
<1>9. ASSUME NEW k \in Keys, LapseRead(k) PROVE Kept
  BY Zenon, <1>2, <1>9 DEF LapseRead, ExpireRead
<1>10. ASSUME UNCHANGED cvars PROVE Kept
  BY Zenon, <1>2, <1>10 DEF cvars, vars
<1>11. Kept => WritersHold'
  BY Zenon, WritersUndisturbed
<1> HIDE DEF Kept
<1> QED BY Zenon, <1>3, <1>4, <1>5, <1>6, <1>7, <1>8, <1>9, <1>10, <1>11 DEF CNext

\* Whatever other writers, readers and eviction do, a writer whose write lock has
\* not expired fills a buffer that is staged for it alone (reserve_write,
\* _take_staging, _reclaim_staging), for any number of clients.
THEOREM WritersKeepReservations ==
    ASSUME ClientsAssumption
    PROVE  CSpec => []WriterKeepsReservation
<1> DEFINE I == TypeOKC /\ WritersHold
<1>1. CInit => I
  BY Zenon, ClientTypes DEF CInit, WritersHold, Writing
<1>2. I /\ [CNext]_cvars => I'
  BY Zenon, ClientTypes, WritersStep
<1>3. I => WriterKeepsReservation
  BY Zenon DEF WritersHold, WriterKeepsReservation, Writing, IsLive
<1> QED BY <1>1, <1>2, <1>3, PTL DEF CSpec

----------------------------------------------------------------------------
\* Readers

\* Readers do not finish after their TTL passed.
ReadersAssumption == ClientsAssumption /\ IsFiniteSet(Readers) /\ LateFinish \cap Readers = {}

INSTANCE FiniteSetTheorems

\* Sets of readers are finite, and smaller ones have fewer elements.
LEMMA ReaderSets ==
    ASSUME ReadersAssumption, NEW B \in SUBSET Readers
    PROVE  /\ Cardinality(B) \in Nat /\ (Cardinality(B) = 0 <=> B = {})
           /\ \A A \in SUBSET B : Cardinality(A) <= Cardinality(B)
           /\ \A r \in B : Cardinality(B \ {r}) = Cardinality(B) - 1
           /\ \A r \in Readers : Cardinality(B \cup {r}) <= Cardinality(B) + 1
<1>1. IsFiniteSet(B)
  BY Zenon, FS_Subset DEF ReadersAssumption
<1>2. Cardinality(B) \in Nat /\ (Cardinality(B) = 0 <=> B = {})
  BY Zenon, <1>1, FS_CardinalityType, FS_EmptySet
<1>3. \A A \in SUBSET B : Cardinality(A) <= Cardinality(B)
  BY Zenon, <1>1, FS_Subset
<1>4. \A r \in B : Cardinality(B \ {r}) = Cardinality(B) - 1
  BY Zenon, <1>1, FS_RemoveElement
<1>5. ASSUME NEW r \in Readers PROVE Cardinality(B \cup {r}) <= Cardinality(B) + 1
  <2>1. Cardinality(B \cup {r}) = IF r \in B THEN Cardinality(B) ELSE Cardinality(B) + 1
    BY Zenon, <1>1, FS_AddElement
  <2> QED BY <1>2, <2>1
<1> QED BY Zenon, <1>2, <1>3, <1>4, <1>5

\* A key that is not resident has no readers within their TTL; one that is read
\* is locked.
LEMMA ReadersLock ==
    ASSUME ReadersAssumption, TypeOKC, ReadersHold, NEW k \in Keys
    PROVE  /\ ReadersOf(k) \in SUBSET Readers /\ Cardinality(ReadersOf(k)) \in Nat
           /\ ~IsResident(k) => ReadersOf(k) = {}
           /\ IsResident(k) => objects[k] \in Resident /\ objects[k].locks \in Nat
           /\ ReadersOf(k) # {} => ReadLocked(k)
<1>1. ReadersOf(k) \in SUBSET Readers
  BY Zenon DEF ReadersOf
<1>2. Cardinality(ReadersOf(k)) \in Nat /\ (Cardinality(ReadersOf(k)) = 0 <=> ReadersOf(k) = {})
  BY Zenon, <1>1, ReaderSets
<1>3. ~IsResident(k) => ReadersOf(k) = {}
  BY Zenon DEF ReadersHold, ReadersOf
<1>4. IsResident(k) => objects[k] \in Resident /\ objects[k].locks \in Nat
  BY L1Assumption DEF TypeOKC, TypeOK, IsResident, Resident
<1>5. ReadersOf(k) # {} => ReadLocked(k)
  BY <1>2, <1>3, <1>4 DEF ReadersHold, ReadLocked
<1> QED BY Zenon, <1>1, <1>2, <1>3, <1>4, <1>5

\* What is true of the objects when the readers stay as they are: an object that
\* is read stays, and what is new is permanent.
LEMMA ReadersUndisturbed ==
    ASSUME ReadersAssumption, TypeOKC, TypeOKC', ReadersHold, reader' = reader,
           \A k \in Keys, t \in Tags : IsStaged(k, t)' => ~staging'[k][t].temp,
           \A k \in Keys : IsResident(k)' =>
               \/ IsResident(k) /\ objects'[k] = objects[k]
               \/ ~IsResident(k) /\ ~objects'[k].temp,
           \A k \in Keys : ReadLocked(k) => IsResident(k)'
    PROVE  ReadersHold'
<1>1. ASSUME NEW k \in Keys PROVE ReadersOf(k)' = ReadersOf(k)
  BY Zenon DEF ReadersOf, Reading
<1>2. ASSUME NEW k \in Keys, IsResident(k)'
      PROVE  ~objects'[k].temp /\ Cardinality(ReadersOf(k)') <= objects'[k].locks
  <2>1. CASE IsResident(k) /\ objects'[k] = objects[k]
    BY Zenon, <1>1, <2>1 DEF ReadersHold
  <2>2. CASE ~IsResident(k) /\ ~objects'[k].temp
    <3>1. Cardinality(ReadersOf(k)') = 0
      BY Zenon, <1>1, <2>2, ReadersLock, ReaderSets
    <3>2. objects'[k].locks \in Nat
      BY <1>2, L1Assumption DEF TypeOKC, TypeOK, IsResident, Resident
    <3> QED BY <2>2, <3>1, <3>2
  <2> QED BY Zenon, <1>2, <2>1, <2>2
<1>3. ASSUME NEW r \in Readers, Reading(r)'
      PROVE  IsResident(reader[r].key)' /\ objects'[reader'[r].key].buf = reader'[r].buf
  <2>1. Reading(r) /\ reader[r].key \in Keys
    BY Zenon, <1>3 DEF Reading, TypeOKC, Accesses
  <2>2. r \in ReadersOf(reader[r].key)
    BY Zenon, <2>1 DEF ReadersOf
  <2>3. IsResident(reader[r].key)' /\ IsResident(reader[r].key)
    BY Zenon, <2>1, <2>2, ReadersLock DEF ReadLocked
  <2>4. objects'[reader[r].key] = objects[reader[r].key]
    BY Zenon, <2>1, <2>3
  <2> QED BY Zenon, <2>1, <2>3, <2>4 DEF ReadersHold, IsResident
<1> QED BY Zenon, <1>2, <1>3 DEF ReadersHold

\* Writers and eviction leave what is being read alone.
LEMMA OthersKeepReaders ==
    ASSUME ReadersAssumption, TypeOKC, TypeOKC', ReadersHold,
           \/ \E w \in Writers : EndWrite(w) \/ \E k \in Keys : BeginWrite(w, k)
           \/ \E k \in Keys : Evict(k) \/ \E t \in Tags : LapseWrite(k, t)
    PROVE  ReadersHold'
<1>1. ASSUME NEW w \in Writers, NEW k \in Keys, BeginWrite(w, k) PROVE ReadersHold'
  <2>1. PICK f \in Allocations(NeedToAllocate({k}, TagOf[w])) :
           staging' = StagingWith({k}, {}, TagOf[w], f, 1)
    BY Zenon, <1>1 DEF BeginWrite, ReserveWrite
  <2>2. objects' = objects /\ reader' = reader
    BY Zenon, <1>1 DEF BeginWrite, ReserveWrite
  <2>3. ASSUME NEW o \in Staged, NEW j PROVE ~Rehold(o, j \in {}).temp
    BY Zenon DEF Rehold, Staged
  <2>4. ASSUME NEW b, NEW j PROVE ~NewStaged(b, j \in {}, 1).temp
    BY Zenon DEF NewStaged
  <2>5. ASSUME NEW j \in Keys, NEW t \in Tags, IsStaged(j, t)' PROVE ~staging'[j][t].temp
    <3>1. CASE t = TagOf[w] /\ j \in HandedOver({k}, TagOf[w])
      <4>1. staging[j][t] \in Staged
        BY <3>1 DEF HandedOver, IsStaged, TypeOKC, TypeOK
      <4>2. staging'[j][t] = Rehold(staging[j][t], j \in {})
        BY Zenon, <2>1, <3>1 DEF StagingWith
      <4> QED BY Zenon, <2>3, <4>1, <4>2
    <3>2. CASE ~(t = TagOf[w] /\ j \in HandedOver({k}, TagOf[w])) /\ t = TagOf[w] /\ j \in DOMAIN f
      <4>1. staging'[j][t] = NewStaged(f[j], j \in {}, 1)
        BY Zenon, <2>1, <3>2 DEF StagingWith
      <4> QED BY Zenon, <2>4, <4>1
    <3>3. CASE ~(t = TagOf[w] /\ j \in HandedOver({k}, TagOf[w])) /\ ~(t = TagOf[w] /\ j \in DOMAIN f)
      <4>1. staging'[j][t] = staging[j][t]
        BY Zenon, <2>1, <3>3 DEF StagingWith
      <4> QED BY Zenon, <2>5, <4>1 DEF ReadersHold, IsStaged
    <3> QED BY Zenon, <3>1, <3>2, <3>3
  <2> QED BY Zenon, <2>2, <2>5, ReadersUndisturbed DEF IsResident, ReadLocked
<1>2. ASSUME NEW w \in Writers, EndWrite(w) PROVE ReadersHold'
  <2> DEFINE K == {writer[w].key}  t == TagOf[w]
  <2>1. /\ objects' = [k \in Keys |-> IF k \in Admitted(K, t) THEN Admit(k, t, 0) ELSE objects[k]]
        /\ PopStaging(Taken(K, t) \X {t}) /\ reader' = reader
    BY Zenon, <1>2 DEF EndWrite, FinishWrite
  <2>2. t \in Tags
    BY Zenon DEF ReadersAssumption, ClientsAssumption, OwnTags
  <2> HIDE DEF K, t
  <2>3. ASSUME NEW j \in Keys, NEW u \in Tags, IsStaged(j, u)' PROVE ~staging'[j][u].temp
    <3>1. staging'[j][u] = staging[j][u]
      BY Zenon, <2>1, <2>3 DEF PopStaging, IsStaged
    <3> QED BY Zenon, <2>3, <3>1 DEF ReadersHold, IsStaged
  <2>4. ASSUME NEW k \in Keys, IsResident(k)'
        PROVE  \/ IsResident(k) /\ objects'[k] = objects[k]
               \/ ~IsResident(k) /\ ~objects'[k].temp
    <3>1. CASE k \in Admitted(K, t)
      <4>1. objects'[k] = Admit(k, t, 0) /\ ~IsResident(k) /\ IsStaged(k, t)
        BY Zenon, <2>1, <3>1 DEF Admitted, Taken, IsLive
      <4>2. Admit(k, t, 0).temp = staging[k][t].temp
        BY ONLY Zenon DEF Admit
      <4> QED BY Zenon, <2>2, <4>1, <4>2 DEF ReadersHold
    <3>2. CASE k \notin Admitted(K, t)
      BY Zenon, <2>1, <2>4, <3>2 DEF IsResident
    <3> QED BY Zenon, <3>1, <3>2
  <2>5. \A k \in Keys : ReadLocked(k) => IsResident(k)'
    BY Zenon, <2>1 DEF ReadLocked, IsResident, Admitted
  <2> QED BY Zenon, <2>1, <2>3, <2>4, <2>5, ReadersUndisturbed
<1>3. ASSUME NEW j \in Keys, Evict(j) PROVE ReadersHold'
  <2>1. /\ objects' = [k \in Keys |-> IF k \in Deleted({j}, FALSE) THEN None ELSE objects[k]]
        /\ PopStaging(Reclaimable({j}, FALSE)) /\ reader' = reader
    BY Zenon, <1>3 DEF Evict, Delete, RemoveAll
  <2>2. ASSUME NEW k \in Keys, NEW t \in Tags, IsStaged(k, t)' PROVE ~staging'[k][t].temp
    <3>1. staging'[k][t] = staging[k][t]
      BY Zenon, <2>1, <2>2 DEF PopStaging, IsStaged
    <3> QED BY Zenon, <2>2, <3>1 DEF ReadersHold, IsStaged
  <2>3. \A k \in Keys : IsResident(k)' => IsResident(k) /\ objects'[k] = objects[k]
    BY Zenon, <2>1 DEF IsResident
  <2>4. \A k \in Keys : ReadLocked(k) => IsResident(k)'
    BY Zenon, <2>1 DEF Deleted, ReadLocked, IsResident
  <2> QED BY Zenon, <2>1, <2>2, <2>3, <2>4, ReadersUndisturbed
<1>4. ASSUME NEW j \in Keys, NEW u \in Tags, LapseWrite(j, u) PROVE ReadersHold'
  <2>1. /\ staging' = [staging EXCEPT ![j] = [staging[j] EXCEPT ![u] = [staging[j][u] EXCEPT !.held = FALSE]]]
        /\ objects' = objects /\ reader' = reader /\ IsStaged(j, u)
    BY Zenon, <1>4 DEF LapseWrite, ExpireWrite, IsLive
  <2>2. ASSUME NEW o \in Staged PROVE [o EXCEPT !.held = FALSE].temp = o.temp
    BY Zenon DEF Staged
  <2>3. staging[j][u] \in Staged /\ ~staging[j][u].temp
    BY <2>1 DEF TypeOKC, TypeOK, IsStaged, ReadersHold
  <2>4. ~[staging[j][u] EXCEPT !.held = FALSE].temp
    BY Zenon, <2>2, <2>3
  <2>5. ASSUME NEW k \in Keys, NEW t \in Tags, IsStaged(k, t)' PROVE ~staging'[k][t].temp
    <3>1. staging'[k][t] = IF k = j /\ t = u THEN [staging[j][u] EXCEPT !.held = FALSE]
                           ELSE staging[k][t]
      BY Zenon, <2>1 DEF TypeOKC, TypeOK
    <3>2. CASE k = j /\ t = u
      BY Zenon, <2>4, <3>1, <3>2
    <3>3. CASE ~(k = j /\ t = u)
      BY Zenon, <2>5, <3>1, <3>3 DEF ReadersHold, IsStaged
    <3> QED BY Zenon, <3>2, <3>3
  <2> QED BY Zenon, <2>1, <2>5, ReadersUndisturbed DEF IsResident, ReadLocked
<1> QED BY Zenon, <1>1, <1>2, <1>3, <1>4

\* Readers leave the readers of other keys alone, and one reader's finish_read
\* takes only its own lock.
LEMMA ReadersKeepReaders ==
    ASSUME ReadersAssumption, TypeOKC, TypeOKC', ReadersHold, staging' = staging,
           \/ \E r \in Readers : EndRead(r) \/ \E k \in Keys : BeginRead(r, k)
           \/ \E k \in Keys : LapseRead(k)
           \/ Vanish
    PROVE  ReadersHold'
<1> DEFINE Counted == \A k \in Keys : IsResident(k)' =>
               ~objects'[k].temp /\ Cardinality(ReadersOf(k)') <= objects'[k].locks
           Served == \A r \in Readers : Reading(r)' =>
               IsResident(reader[r].key)' /\ objects'[reader'[r].key].buf = reader'[r].buf
<1>1. Counted /\ Served => ReadersHold'
  BY Zenon DEF ReadersHold, IsStaged
<1>2. ASSUME NEW r \in Readers, NEW k \in Keys, BeginRead(r, k) PROVE Counted /\ Served
  <2>1. /\ objects' = [j \in Keys |-> IF j \in {k} /\ IsResident(j) THEN Lock(objects[j], 1) ELSE objects[j]]
        /\ reader' = [reader EXCEPT ![r] = [key |-> k, buf |-> objects[k].buf, late |-> FALSE]]
        /\ reader[r] = None /\ IsResident(k) /\ objects[k].locks + 1 <= MaxLocks
    BY Zenon, <1>2 DEF BeginRead, ReserveRead, WithinBound
  <2>2. objects[k] \in Resident /\ objects[k].locks \in Nat
    BY Zenon, <2>1, ReadersLock
  <2>3. /\ Lock(objects[k], 1) \in Resident /\ Lock(objects[k], 1).buf = objects[k].buf
        /\ Lock(objects[k], 1).temp = objects[k].temp
        /\ Lock(objects[k], 1).locks = objects[k].locks + 1
    BY Zenon, <2>1, <2>2, LockType DEF Lock, Resident
  <2>4. objects'[k] = Lock(objects[k], 1) /\ \A j \in Keys : j # k => objects'[j] = objects[j]
    BY Zenon, <2>1
  <2>5. /\ reader'[r] = [key |-> k, buf |-> objects[k].buf, late |-> FALSE]
        /\ \A q \in Readers : q # r => reader'[q] = reader[q]
    BY Zenon, <2>1 DEF TypeOKC
  <2>6. ReadersOf(k)' \subseteq ReadersOf(k) \cup {r}
    BY Zenon, <2>5 DEF ReadersOf, Reading
  <2>7. \A j \in Keys : j # k => ReadersOf(j)' = ReadersOf(j)
    BY <2>1, <2>5 DEF ReadersOf, Reading
  <2>8. Counted
    <3>0. ReadersOf(k) \cup {r} \in SUBSET Readers
      BY Zenon DEF ReadersOf
    <3>1. /\ Cardinality(ReadersOf(k)) \in Nat
          /\ Cardinality(ReadersOf(k) \cup {r}) \in Nat
          /\ Cardinality(ReadersOf(k) \cup {r}) <= Cardinality(ReadersOf(k)) + 1
          /\ Cardinality(ReadersOf(k)') <= Cardinality(ReadersOf(k) \cup {r})
      BY Zenon, <2>6, <3>0, ReadersLock, ReaderSets
    <3>2. Cardinality(ReadersOf(k)) <= objects[k].locks /\ ~objects[k].temp
      BY Zenon, <2>1 DEF ReadersHold
    <3>3. Cardinality(ReadersOf(k)') \in Nat
      BY Zenon, <2>6, <3>0, ReaderSets
    <3>4. ~objects'[k].temp /\ Cardinality(ReadersOf(k)') <= objects'[k].locks
      BY <2>2, <2>3, <2>4, <3>1, <3>2, <3>3
    <3> QED BY Zenon, <2>4, <2>7, <3>4 DEF ReadersHold, IsResident
  <2>9. Served
    <3>1. IsResident(k)' /\ objects'[k].buf = objects[k].buf
      BY Zenon, <2>3, <2>4, L1Assumption DEF IsResident
    <3>2. ASSUME NEW q \in Readers, Reading(q)', q # r
          PROVE  IsResident(reader[q].key)' /\ objects'[reader'[q].key].buf = reader'[q].buf
      <4>1. reader'[q] = reader[q] /\ Reading(q) /\ reader[q].key \in Keys
        BY Zenon, <2>5, <3>2 DEF Reading, TypeOKC, Accesses
      <4> QED BY <2>4, <3>1, <4>1 DEF ReadersHold, IsResident
    <3> QED BY <2>5, <3>1, <3>2 DEF IsResident
  <2> QED BY Zenon, <2>8, <2>9
<1>3. ASSUME NEW r \in Readers, EndRead(r) PROVE Counted /\ Served
  <2>0. Reading(r) /\ reader[r].key \in Keys
    BY Zenon, <1>3 DEF EndRead, Reading, ReadersAssumption, TypeOKC, Accesses
  <2>1. PICK k \in Keys : k = reader[r].key
    BY Zenon, <2>0
  <2>2. r \in ReadersOf(k)
    BY Zenon, <2>0, <2>1 DEF ReadersOf
  <2>3. ReadLocked(k) /\ objects[k] \in Resident /\ objects[k].locks \in Nat /\ ~objects[k].temp
    BY Zenon, <2>1, <2>2, ReadersLock DEF ReadLocked, ReadersHold
  <2>4. reader' = [reader EXCEPT ![r] = None] /\ FinishRead({k}, 1)
    BY Zenon, <1>3, <2>1 DEF EndRead
  <2>5. /\ reader'[r] = None /\ \A q \in Readers : q # r => reader'[q] = reader[q]
    BY Zenon, <2>4 DEF TypeOKC
  <2>6. DroppedByRead({k}, 1) = {}
    BY Zenon, <2>3 DEF DroppedByRead
  <2>7. objects'[k] = Unlock(objects[k], 1) /\ \A j \in Keys : j # k => objects'[j] = objects[j]
    BY Zenon, <2>1, <2>3, <2>4, <2>6 DEF FinishRead
  <2>8. /\ Unlock(objects[k], 1) \in Resident /\ Unlock(objects[k], 1).buf = objects[k].buf
        /\ Unlock(objects[k], 1).temp = objects[k].temp
        /\ objects[k].locks - 1 <= Unlock(objects[k], 1).locks
    BY <2>3, UnlockType DEF Unlock, Resident
  <2>9. ReadersOf(k)' = ReadersOf(k) \ {r}
    BY Zenon, <2>5 DEF ReadersOf, Reading
  <2>10. \A j \in Keys : j # k => ReadersOf(j)' = ReadersOf(j)
    BY Zenon, <2>1, <2>5 DEF ReadersOf, Reading
  <2>11. Counted
    <3>1. /\ Cardinality(ReadersOf(k)') = Cardinality(ReadersOf(k)) - 1
          /\ Cardinality(ReadersOf(k)) \in Nat
      BY <2>1, <2>2, <2>9, ReadersLock, ReaderSets
    <3>2. Cardinality(ReadersOf(k)) <= objects[k].locks
      BY Zenon, <2>1, <2>3 DEF ReadersHold, ReadLocked
    <3>3. Unlock(objects[k], 1).locks \in Nat
      BY <2>8, L1Assumption DEF Resident
    <3>4. ~objects'[k].temp /\ Cardinality(ReadersOf(k)') <= objects'[k].locks
      BY <2>3, <2>7, <2>8, <3>1, <3>2, <3>3
    <3> QED BY Zenon, <2>7, <2>10, <3>4 DEF ReadersHold, IsResident
  <2>12. Served
    <3>1. IsResident(k)' /\ objects'[k].buf = objects[k].buf
      BY Zenon, <2>7, <2>8, L1Assumption DEF IsResident
    <3>2. ASSUME NEW q \in Readers, Reading(q)'
          PROVE  IsResident(reader[q].key)' /\ objects'[reader'[q].key].buf = reader'[q].buf
      <4>1. reader'[q] = reader[q] /\ Reading(q) /\ reader[q].key \in Keys
        BY Zenon, <2>5, <3>2 DEF Reading, TypeOKC, Accesses
      <4> QED BY <2>7, <3>1, <4>1 DEF ReadersHold, IsResident
    <3> QED BY Zenon, <3>2
  <2> QED BY Zenon, <2>11, <2>12
<1>4. ASSUME NEW k \in Keys, LapseRead(k) PROVE Counted /\ Served
  <2>1. /\ objects' = [objects EXCEPT ![k] = [objects[k] EXCEPT !.locks = 0]] /\ ReadLocked(k)
    BY Zenon, <1>4 DEF LapseRead, ExpireRead
  <2>2. objects[k] \in Resident /\ ~objects[k].temp
    BY Zenon, <2>1, ReadersLock DEF ReadLocked, ReadersHold
  <2>3. [objects[k] EXCEPT !.locks = 0].temp = objects[k].temp /\ [objects[k] EXCEPT !.locks = 0].locks = 0
    BY Zenon, <2>2 DEF Resident
  <2>4. ASSUME NEW q \in Readers
        PROVE  reader'[q] = IF reader[q] # None /\ reader[q].key = k
                            THEN [reader[q] EXCEPT !.late = TRUE] ELSE reader[q]
    BY Zenon, <1>4 DEF LapseRead, Late, TypeOKC
  <2>5. ASSUME NEW a \in Accesses PROVE [a EXCEPT !.late = TRUE].late
    BY Zenon DEF Accesses
  <2>6. ASSUME NEW q \in Readers, Reading(q)'
        PROVE  Reading(q) /\ reader'[q] = reader[q] /\ reader[q].key # k /\ reader[q].key \in Keys
    <3>1. ~(reader[q] # None /\ reader[q].key = k)
      BY Zenon, <2>4, <2>5, <2>6 DEF Reading, TypeOKC
    <3> QED BY Zenon, <2>4, <2>6, <3>1 DEF Reading, TypeOKC, Accesses
  <2>7. ReadersOf(k)' = {} /\ \A j \in Keys : ReadersOf(j)' \in SUBSET ReadersOf(j)
    BY Zenon, <2>6 DEF ReadersOf
  <2>8. objects'[k] = [objects[k] EXCEPT !.locks = 0] /\ \A j \in Keys : j # k => objects'[j] = objects[j]
    BY Zenon, <2>1 DEF TypeOKC, TypeOK
  <2>9. Counted
    <3>1. ~objects'[k].temp /\ Cardinality(ReadersOf(k)') <= objects'[k].locks
      <4>1. Cardinality(ReadersOf(k)') = 0
        BY Zenon, <2>7, FS_EmptySet
      <4> QED BY <2>2, <2>3, <2>8, <4>1
    <3>2. ASSUME NEW j \in Keys, j # k, IsResident(j)'
          PROVE  ~objects'[j].temp /\ Cardinality(ReadersOf(j)') <= objects'[j].locks
      <4>1. IsResident(j) /\ objects'[j] = objects[j]
        BY Zenon, <2>8, <3>2 DEF IsResident
      <4>2. Cardinality(ReadersOf(j)') <= Cardinality(ReadersOf(j))
        BY Zenon, <2>7, ReadersLock, ReaderSets
      <4>3. Cardinality(ReadersOf(j)') \in Nat /\ Cardinality(ReadersOf(j)) \in Nat /\ objects[j].locks \in Nat
        BY Zenon, <2>7, <4>1, ReadersLock, ReaderSets
      <4> QED BY <4>1, <4>2, <4>3 DEF ReadersHold
    <3> QED BY Zenon, <3>1, <3>2
  <2>10. Served
    BY <2>6, <2>8 DEF ReadersHold, IsResident
  <2> QED BY Zenon, <2>9, <2>10
<1>5. ASSUME Vanish PROVE Counted /\ Served
  <2>1. objects' = objects /\ \A q \in Readers : reader'[q] \in {None, reader[q]}
    BY Zenon, <1>5 DEF Vanish, vars, TypeOKC
  <2>2. \A q \in Readers : Reading(q)' => Reading(q) /\ reader'[q] = reader[q]
    BY Zenon, <2>1 DEF Reading
  <2>3. ASSUME NEW j \in Keys, IsResident(j)'
        PROVE  ~objects'[j].temp /\ Cardinality(ReadersOf(j)') <= objects'[j].locks
    <3>1. IsResident(j) /\ ReadersOf(j)' \in SUBSET ReadersOf(j)
      BY Zenon, <2>1, <2>2, <2>3 DEF IsResident, ReadersOf
    <3>2. Cardinality(ReadersOf(j)') <= Cardinality(ReadersOf(j))
      BY Zenon, <3>1, ReadersLock, ReaderSets
    <3>3. Cardinality(ReadersOf(j)') \in Nat /\ Cardinality(ReadersOf(j)) \in Nat /\ objects[j].locks \in Nat
      BY Zenon, <3>1, ReadersLock, ReaderSets
    <3>4. ~objects[j].temp /\ Cardinality(ReadersOf(j)) <= objects[j].locks
      BY Zenon, <3>1 DEF ReadersHold
    <3> QED BY <2>1, <3>2, <3>3, <3>4
  <2>4. Served
    BY Zenon, <2>1, <2>2 DEF ReadersHold, IsResident
  <2> QED BY Zenon, <2>3, <2>4
<1> HIDE DEF Counted, Served
<1> QED BY Zenon, <1>1, <1>2, <1>3, <1>4, <1>5

\* Whatever other readers, writers and eviction do, a reader whose read lock has
\* not expired reads the object it locked (reserve_read, finish_read, delete), for
\* any number of clients, if no reader finishes after its TTL.
THEOREM ReadersKeepObjects ==
    ASSUME ReadersAssumption
    PROVE  CSpec => []ReaderKeepsObject
<1> DEFINE I == TypeOKC /\ ReadersHold
<1>1. CInit => I
  <2>1. CInit => ReadersHold
    BY DEF CInit, Init, ReadersHold, Reading, IsStaged, IsResident
  <2> QED BY Zenon, <2>1, ClientTypes DEF ReadersAssumption
<1>2. I /\ [CNext]_cvars => I'
  <2> SUFFICES ASSUME I, [CNext]_cvars PROVE I'
    BY Zenon
  <2>1. TypeOKC'
    BY Zenon, ClientTypes DEF ReadersAssumption
  <2>2. CASE UNCHANGED cvars
    BY Zenon, <2>1, <2>2, ReadersUndisturbed DEF cvars, vars, ReadersHold, IsStaged, IsResident, ReadLocked
  <2>3. ASSUME \/ \E r \in Readers : EndRead(r) \/ \E k \in Keys : BeginRead(r, k)
               \/ \E k \in Keys : LapseRead(k)
               \/ Vanish
        PROVE  ReadersHold'
    <3>1. staging' = staging
      BY Zenon, <2>3 DEF EndRead, BeginRead, LapseRead, Vanish, vars, FinishRead, ReserveRead, ExpireRead
    <3> QED BY Zenon, <2>1, <2>3, <3>1, ReadersKeepReaders
  <2>4. CASE CNext
    BY Zenon, <2>1, <2>3, <2>4, OthersKeepReaders DEF CNext
  <2> QED BY Zenon, <2>1, <2>2, <2>4
<1>3. I => ReaderKeepsObject
  BY Zenon DEF ReadersHold, ReaderKeepsObject, Reading
<1> QED BY <1>1, <1>2, <1>3, PTL DEF CSpec
=============================================================================
