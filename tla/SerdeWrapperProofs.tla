------------------------- MODULE SerdeWrapperProofs -------------------------
(***************************************************************************)
(* The serde wrapper, proved for every set of tasks and chunks, with       *)
(* allocations, submissions and conversions that fail, TTLs that pass,     *)
(* eviction, and close() at any point: whose the temporary buffers are,    *)
(* and what a reported task went through.                                  *)
(***************************************************************************)
EXTENDS SerdeWrapper, TLAPS

----------------------------------------------------------------------------
\* The inductive invariant

L1Typed ==
    /\ objects \in [Keys -> Resident \cup {None}]
    /\ staging \in [Keys -> [Tags -> Staged \cup {None}]]

TablesTyped ==
    /\ task \in [Tasks -> Entries \cup {None}] /\ result \in [Tasks -> (SUBSET Chunks) \cup {None}]
    /\ serde \in [Tasks -> Jobs] /\ inner \in [Tasks -> Jobs]

Begun == {"running", "done"}

\* Where a task that is in the tables is.
Reserved(t) ==
    closing = "open" /\ task[t].phase = "RESERVED" /\ serde[t] = NoJob /\ inner[t] = NoJob
Serializing(t) ==
    /\ t \in StoreTasks /\ task[t].phase = "SERIALIZE"
    /\ serde[t].st \in Begun /\ inner[t] = NoJob
Serialized(t) ==
    /\ t \in StoreTasks /\ task[t].phase = "SERIALIZE"
    /\ serde[t].st = "popped" /\ serde[t].ok # {} /\ inner[t] = NoJob
Storing(t) ==
    /\ t \in StoreTasks /\ task[t].phase = "INNER_STORE"
    /\ serde[t].st = "popped" /\ serde[t].ok # {} /\ inner[t].st \in Begun
Loading(t) ==
    /\ t \in LoadTasks /\ task[t].phase = "LOAD" /\ inner[t].st \in Begun /\ serde[t] = NoJob
Deserializing(t) ==
    /\ t \in LoadTasks /\ task[t].phase = "LOAD" /\ inner[t].st = "popped"
    /\ serde[t].st \in Begun /\ task[t].bitmap = inner[t].ok

Tabled(t) ==
    /\ result[t] = None /\ closing \in {"open", "stopping"}
    /\ \/ Reserved(t) \/ Serializing(t) \/ Serialized(t)
       \/ Storing(t) \/ Loading(t) \/ Deserializing(t)

\* A task that is in no table: not submitted, answered, or dropped by close().
Over(t) ==
    /\ ~Busy(t)
    /\ closing \in {"open", "stopping"} => serde[t].st # "done" /\ inner[t].st # "done"
    /\ closing = "open" /\ result[t] = None => serde[t] = NoJob /\ inner[t] = NoJob
    /\ result[t] # None => result[t] \subseteq inner[t].ok /\ (result[t] # {} => serde[t].ok # {})

Phased(t) == IF task[t] = None THEN Over(t) ELSE Tabled(t)

\* The reverse maps, and what the loop has noted, are about such tasks.
Mapped(t) ==
    /\ <<"serialize", t>> \in mapped => task[t] # None /\ Serializing(t)
    /\ <<"inner_load", t>> \in mapped => task[t] # None /\ Loading(t)
    /\ <<"deserialize", t>> \in mapped => task[t] # None /\ Deserializing(t)

Listed(t) ==
    t \in loop.pending =>
        IF loop.fd = "inner_store" THEN task[t] # None /\ Storing(t) /\ inner[t].st = "done"
        ELSE <<loop.fd, t>> \in mapped

Handing(t) == task[t] # None /\ Serialized(t) <=> loop.pc = "store" /\ loop.cur = t

\* The temporary buffers whose lock has not expired.
WriteHeld(k) == ~IsResident(k) /\ IsLive(k, WriteTag) /\ staging[k][WriteTag].temp
ReadHeld(k) ==
    IsResident(k) /\ ~IsStaged(k, WriteTag) /\ objects[k].locks = 1 /\ objects[k].temp
Unheld(k) == ~IsResident(k) /\ ~IsStaged(k, WriteTag)

Readable(t) == t \in StoreTasks /\ serde[t].st = "popped"

Keeps(t, c) ==
    IF task[t] = None
    THEN IF <<t, c>> \in leftover THEN ReadHeld(<<t, c>>) ELSE Unheld(<<t, c>>)
    ELSE /\ BufOf(<<t, c>>) = task[t].bufs[c]
         /\ IF Readable(t) THEN ReadHeld(<<t, c>>) ELSE WriteHeld(<<t, c>>)

Guarded(t) ==
    \A c \in ChunksOf[t] :
        /\ <<t, c>> \notin late => Keeps(t, c)
        /\ closing = "open" /\ task[t] = None /\ result[t] = None => <<t, c>> \notin late

Loops == [pc : {"poll", "next", "list", "drain", "store", "exited"}, ready : SUBSET Fds,
          fd : Fds \cup {None}, pending : SUBSET Tasks, cur : Tasks \cup {None}]

LoopSound ==
    /\ loop \in Loops /\ events \subseteq Fds
    /\ loop.pc \notin {"drain", "store"} => loop.pending = {}
    /\ loop.pc \in {"list", "drain"} => loop.fd \in Fds
    /\ loop.pc = "store" => loop.cur \in Tasks /\ loop.fd = "serialize"
    /\ closing \in {"open", "stopping", "releasing", "closed"}
    /\ closing \notin {"open", "stopping"} => loop.pc = "exited"
    /\ loop.pc = "exited" => closing # "open"
    /\ leftover \subseteq Keys /\ (closing # "releasing" => leftover = {})

InPlace(t) == Phased(t) /\ Mapped(t) /\ Listed(t) /\ Handing(t) /\ Guarded(t)

WInv == L1Typed /\ TablesTyped /\ LoopSound /\ \A t \in Tasks : InPlace(t)

----------------------------------------------------------------------------
\* What the calls of L1Manager do to temporary buffers

\* A temporary buffer stays as it is held.
Same(k) ==
    /\ WriteHeld(k) => WriteHeld(k)' /\ BufOf(k)' = BufOf(k)
    /\ ReadHeld(k) => ReadHeld(k)' /\ BufOf(k)' = BufOf(k)
    /\ Unheld(k) => Unheld(k)'

\* The temporary keys of a task are its own.
LEMMA TempKeys ==
    /\ \A t \in Tasks : Temps(t) \subseteq Keys
    /\ \A t \in Tasks : \A c \in ChunksOf[t] : <<t, c>> \in Keys /\ <<t, c>> \in Temps(t)
    /\ \A t, u \in Tasks : \A c \in ChunksOf[u] : <<u, c>> \in Temps(t) => u = t
BY SerdeAssumption DEF Temps

\* Entries that do not change.
LEMMA EntriesKept ==
    ASSUME NEW k, objects'[k] = objects[k], staging'[k][WriteTag] = staging[k][WriteTag]
    PROVE  Same(k)
BY Zenon DEF Same, WriteHeld, ReadHeld, Unheld, BufOf, IsResident, IsStaged, IsLive

\* The entries of the two tables.
LEMMA EntryTyped ==
    ASSUME L1Typed, NEW k \in Keys
    PROVE  /\ IsResident(k) => objects[k] \in Resident
           /\ \A u \in Tags : IsStaged(k, u) => staging[k][u] \in Staged
BY Zenon DEF L1Typed, IsResident, IsStaged

\* finish_read drops a temporary object with its last lock.
LEMMA FinishReadTemps ==
    ASSUME L1Typed, NEW K \in SUBSET Keys, FinishRead(K, 1)
    PROVE  /\ L1Typed'
           /\ \A k \in Keys : k \notin K => Same(k)
           /\ \A k \in K : ReadHeld(k) => Unheld(k)'
<1>1. staging' = staging
  BY Zenon DEF FinishRead
<1>2. /\ DroppedByRead(K, 1) \subseteq K
      /\ objects' = [k \in Keys |-> IF k \in DroppedByRead(K, 1) THEN None
                                    ELSE IF k \in K /\ ReadLocked(k) THEN Unlock(objects[k], 1)
                                    ELSE objects[k]]
  BY Zenon DEF FinishRead, DroppedByRead
<1>3. ASSUME NEW k \in Keys, ReadLocked(k) PROVE Unlock(objects[k], 1) \in Resident
  <2>1. objects[k] \in Resident
    BY Zenon, <1>3, EntryTyped DEF ReadLocked
  <2>2. /\ objects[k].locks \in 0 .. MaxLocks
        /\ (IF 1 >= objects[k].locks THEN 0 ELSE objects[k].locks - 1) \in 0 .. MaxLocks
    BY <2>1, L1Assumption DEF Resident
  <2> QED BY Zenon, <2>1, <2>2 DEF Unlock, Resident
<1>4. \A k \in Keys : objects'[k] \in Resident \cup {None}
  BY Zenon, <1>2, <1>3 DEF L1Typed
<1>5. objects' \in [Keys -> Resident \cup {None}]
  <2>1. objects' = [k \in Keys |-> objects'[k]]
    BY Zenon, <1>2
  <2> QED BY Zenon, <1>4, <2>1
<1>6. ASSUME NEW k \in Keys, k \notin K PROVE Same(k)
  BY Zenon, <1>1, <1>2, <1>6, EntriesKept
<1>7. ASSUME NEW k \in K, ReadHeld(k) PROVE Unheld(k)'
  <2>1. IsResident(k) /\ objects[k].locks = 1 /\ objects[k].temp /\ ~IsStaged(k, WriteTag)
    BY Zenon, <1>7 DEF ReadHeld
  <2>2. objects[k].locks > 0 /\ objects[k].locks <= 1
    BY <2>1
  <2>3. k \in DroppedByRead(K, 1)
    BY Zenon, <2>1, <2>2 DEF DroppedByRead, ReadLocked
  <2> QED BY Zenon, <1>1, <1>2, <2>1, <2>3 DEF Unheld, IsResident, IsStaged
<1> QED BY Zenon, <1>1, <1>5, <1>6, <1>7 DEF L1Typed

\* _pop_staging keeps the types.
LEMMA PopTyped ==
    ASSUME L1Typed, NEW S, PopStaging(S)
    PROVE  /\ staging' \in [Keys -> [Tags -> Staged \cup {None}]]
           /\ \A k \in Keys, u \in Tags :
                staging'[k][u] = IF <<k, u>> \in S THEN None ELSE staging[k][u]
<1>1. staging' = [k \in Keys |-> [u \in Tags |-> IF <<k, u>> \in S THEN None ELSE staging[k][u]]]
  BY Zenon DEF PopStaging
<1> QED BY Zenon, <1>1 DEF L1Typed

\* finish_write_and_delete frees the buffers that are still write-locked.
LEMMA ReleaseTemps ==
    ASSUME L1Typed, NEW K \in SUBSET Keys, FinishWriteAndDelete(K, WriteTag)
    PROVE  /\ L1Typed'
           /\ \A k \in Keys : k \notin K => Same(k)
           /\ \A k \in K : WriteHeld(k) => Unheld(k)'
<1>1. objects' = objects /\ PopStaging(Taken(K, WriteTag) \X {WriteTag})
  BY Zenon DEF FinishWriteAndDelete
<1>2. WriteTag \in Tags
  BY Zenon, SerdeAssumption
<1>3. ASSUME NEW k \in Keys, k \notin K PROVE Same(k)
  <2>1. <<k, WriteTag>> \notin Taken(K, WriteTag) \X {WriteTag}
    BY Zenon, <1>3 DEF Taken
  <2>2. staging'[k][WriteTag] = staging[k][WriteTag]
    BY Zenon, <1>1, <1>2, <2>1, PopTyped
  <2> QED BY Zenon, <1>1, <2>2, EntriesKept
<1>4. ASSUME NEW k \in K, WriteHeld(k) PROVE Unheld(k)'
  <2>1. ~IsResident(k) /\ k \in Taken(K, WriteTag)
    BY Zenon, <1>4 DEF WriteHeld, Taken
  <2>2. <<k, WriteTag>> \in Taken(K, WriteTag) \X {WriteTag}
    BY Zenon, <2>1
  <2>3. staging'[k][WriteTag] = None
    BY Zenon, <1>1, <1>2, <2>2, PopTyped
  <2> QED BY Zenon, <1>1, <2>1, <2>3 DEF Unheld, IsResident, IsStaged
<1> QED BY Zenon, <1>1, <1>3, <1>4, PopTyped DEF L1Typed

\* finish_write_and_reserve_read turns a write-locked buffer into a read-locked one.
LEMMA AdmitTemps ==
    ASSUME L1Typed, NEW K \in SUBSET Keys, FinishWriteAndReserveRead(K, 1, WriteTag)
    PROVE  /\ L1Typed'
           /\ \A k \in Keys : k \notin K => Same(k)
           /\ \A k \in K : WriteHeld(k) => ReadHeld(k)' /\ BufOf(k)' = BufOf(k)
<1>1. /\ objects' = [k \in Keys |-> IF k \in Admitted(K, WriteTag) THEN Admit(k, WriteTag, 1)
                                    ELSE IF k \in Discarded(K, WriteTag) THEN Lock(objects[k], 1)
                                    ELSE objects[k]]
      /\ WithinBound(Taken(K, WriteTag), 1)
  BY Zenon DEF FinishWriteAndReserveRead
<1>0. /\ staging' \in [Keys -> [Tags -> Staged \cup {None}]]
      /\ \A k \in Keys, u \in Tags :
           staging'[k][u] = IF <<k, u>> \in Taken(K, WriteTag) \X {WriteTag} THEN None ELSE staging[k][u]
  <2> DEFINE S == Taken(K, WriteTag) \X {WriteTag}
  <2>1. PopStaging(S)
    BY Zenon DEF FinishWriteAndReserveRead
  <2> HIDE DEF S
  <2>2. /\ staging' \in [Keys -> [Tags -> Staged \cup {None}]]
        /\ \A k \in Keys, u \in Tags : staging'[k][u] = IF <<k, u>> \in S THEN None ELSE staging[k][u]
    BY Zenon, <2>1, PopTyped
  <2> QED BY Zenon, <2>2 DEF S
<1>2. WriteTag \in Tags
  BY Zenon, SerdeAssumption
<1>3. ASSUME NEW k \in Keys, IsStaged(k, WriteTag), NEW o, o = Admit(k, WriteTag, 1)
      PROVE  /\ o \in Resident /\ o # None /\ o.locks = 1
             /\ o.buf = staging[k][WriteTag].buf /\ o.temp = staging[k][WriteTag].temp
  <2>1. staging[k][WriteTag] \in Staged
    BY Zenon, <1>2, <1>3, EntryTyped
  <2>2. /\ staging[k][WriteTag].buf \in Bufs /\ staging[k][WriteTag].temp \in BOOLEAN
        /\ 1 \in 0 .. MaxLocks
    BY <2>1, L1Assumption, SerdeAssumption DEF Staged
  <2>3. /\ o \in Resident /\ o.locks = 1
        /\ o.buf = staging[k][WriteTag].buf /\ o.temp = staging[k][WriteTag].temp
    BY Zenon, <1>3, <2>2 DEF Admit, Resident
  <2> QED BY Zenon, <2>3, L1Assumption
<1>4. ASSUME NEW k \in Discarded(K, WriteTag) PROVE Lock(objects[k], 1) \in Resident
  <2>1. k \in Keys /\ objects[k] \in Resident /\ objects[k].locks + 1 <= MaxLocks
    BY Zenon, <1>1, <1>4, EntryTyped DEF Discarded, Taken, WithinBound
  <2>2. objects[k].locks + 1 \in 0 .. MaxLocks
    BY <2>1, L1Assumption DEF Resident
  <2> QED BY Zenon, <2>1, <2>2 DEF Lock, Resident
<1>5. \A k \in Admitted(K, WriteTag) : k \in Keys /\ IsStaged(k, WriteTag)
  BY Zenon DEF Admitted, Taken, IsLive
<1>6. \A k \in Keys : objects'[k] \in Resident \cup {None}
  BY Zenon, <1>1, <1>3, <1>4, <1>5 DEF L1Typed
<1>7. objects' \in [Keys -> Resident \cup {None}]
  <2>1. objects' = [k \in Keys |-> objects'[k]]
    BY Zenon, <1>1
  <2> QED BY Zenon, <1>6, <2>1
<1>8. ASSUME NEW k \in Keys, k \notin K PROVE Same(k)
  <2>1. <<k, WriteTag>> \notin Taken(K, WriteTag) \X {WriteTag}
    BY Zenon, <1>8 DEF Taken
  <2>2. staging'[k][WriteTag] = staging[k][WriteTag]
    BY Zenon, <1>0, <1>2, <2>1
  <2>3. objects'[k] = objects[k]
    BY Zenon, <1>1, <1>8 DEF Admitted, Discarded, Taken
  <2> QED BY Zenon, <2>2, <2>3, EntriesKept
<1>9. ASSUME NEW k \in K, WriteHeld(k) PROVE ReadHeld(k)' /\ BufOf(k)' = BufOf(k)
  <2>1. /\ k \in Keys /\ ~IsResident(k) /\ IsStaged(k, WriteTag) /\ staging[k][WriteTag].temp
        /\ k \in Taken(K, WriteTag)
    BY Zenon, <1>9 DEF WriteHeld, Taken, IsLive
  <2>2. <<k, WriteTag>> \in Taken(K, WriteTag) \X {WriteTag} /\ k \in Admitted(K, WriteTag)
    BY Zenon, <2>1 DEF Admitted
  <2>3. staging'[k][WriteTag] = None
    BY Zenon, <1>0, <1>2, <2>1, <2>2
  <2>4. objects'[k] = Admit(k, WriteTag, 1)
    BY Zenon, <1>1, <2>1, <2>2
  <2>5. /\ objects'[k] # None /\ objects'[k].locks = 1 /\ objects'[k].temp
        /\ objects'[k].buf = staging[k][WriteTag].buf
    BY Zenon, <1>3, <2>1, <2>4
  <2> QED BY Zenon, <2>1, <2>3, <2>5 DEF ReadHeld, BufOf, IsResident, IsStaged
<1> QED BY Zenon, <1>0, <1>7, <1>8, <1>9 DEF L1Typed

\* A staging object that is handed over.
LEMMA ReholdTyped ==
    ASSUME NEW temp \in BOOLEAN, NEW o \in Staged
    PROVE  Rehold(o, temp) \in Staged
BY Zenon DEF Rehold, Staged

\* A new one.
LEMMA NewStagedTyped ==
    ASSUME NEW temp \in BOOLEAN, NEW b \in Bufs, NEW size \in Sizes
    PROVE  /\ NewStaged(b, temp, size) \in Staged
           /\ NewStaged(b, temp, size).buf = b /\ NewStaged(b, temp, size).held
           /\ NewStaged(b, temp, size).temp = temp
BY Zenon DEF NewStaged, Staged

\* reserve_write gives every new key a locked buffer.
LEMMA AllocTemps ==
    ASSUME L1Typed, NEW K \in SUBSET Keys, ReserveWrite(K, K, WriteTag, Max(Sizes))
    PROVE  /\ L1Typed'
           /\ \A k \in Keys : k \notin K => Same(k)
           /\ \A k \in K : Unheld(k) => /\ WriteHeld(k)' /\ staging'[k][WriteTag].buf \in Bufs
                                        /\ BufOf(k)' = staging'[k][WriteTag].buf
<1>1. PICK f \in Allocations(NeedToAllocate(K, WriteTag)) :
         staging' = StagingWith(K, K, WriteTag, f, Max(Sizes))
  BY Zenon DEF ReserveWrite
<1>2. objects' = objects /\ WriteTag \in Tags /\ Max(Sizes) \in Sizes
  BY Zenon, SerdeAssumption DEF ReserveWrite
<1>3. /\ DOMAIN f = NeedToAllocate(K, WriteTag) /\ \A k \in DOMAIN f : f[k] \in Bufs
      /\ HandedOver(K, WriteTag) \subseteq K /\ NeedToAllocate(K, WriteTag) \subseteq K
  BY Zenon DEF Allocations, HandedOver, NeedToAllocate
<1>4. ASSUME NEW k \in Keys, NEW u \in Tags
      PROVE  \/ staging'[k][u] = staging[k][u]
             \/ /\ k \in HandedOver(K, WriteTag) /\ u = WriteTag
                /\ staging'[k][u] = Rehold(staging[k][u], k \in K)
             \/ /\ k \in DOMAIN f /\ u = WriteTag
                /\ staging'[k][u] = NewStaged(f[k], k \in K, Max(Sizes))
  BY Zenon, <1>1 DEF StagingWith
<1>5. ASSUME NEW k \in Keys, NEW u \in Tags PROVE staging'[k][u] \in Staged \cup {None}
  <2>1. (k \in K) \in BOOLEAN
    OBVIOUS
  <2>2. k \in HandedOver(K, WriteTag) /\ u = WriteTag => staging[k][u] \in Staged
    BY Zenon, EntryTyped DEF HandedOver
  <2>3. CASE staging'[k][u] = staging[k][u]
    BY Zenon, <2>3 DEF L1Typed
  <2>4. CASE k \in HandedOver(K, WriteTag) /\ u = WriteTag
               /\ staging'[k][u] = Rehold(staging[k][u], k \in K)
    BY Zenon, <2>1, <2>2, <2>4, ReholdTyped
  <2>5. CASE k \in DOMAIN f /\ staging'[k][u] = NewStaged(f[k], k \in K, Max(Sizes))
    <3>1. PICK temp \in BOOLEAN : temp = (k \in K)
      BY Zenon, <2>1
    <3>2. f[k] \in Bufs /\ staging'[k][u] = NewStaged(f[k], temp, Max(Sizes))
      BY Zenon, <1>3, <2>5, <3>1
    <3> QED BY <1>2, <3>2, NewStagedTyped
  <2> QED BY Zenon, <1>4, <2>3, <2>4, <2>5
<1>6. staging' \in [Keys -> [Tags -> Staged \cup {None}]]
  <2>1. staging' = [k \in Keys |-> [u \in Tags |-> staging'[k][u]]]
    BY Zenon, <1>1 DEF StagingWith
  <2> QED BY Zenon, <1>5, <2>1
<1>7. ASSUME NEW k \in Keys, k \notin K PROVE Same(k)
  <2>1. staging'[k][WriteTag] = staging[k][WriteTag]
    BY Zenon, <1>2, <1>3, <1>4, <1>7
  <2> QED BY Zenon, <1>2, <2>1, EntriesKept
<1>8. ASSUME NEW k \in K, Unheld(k)
      PROVE  /\ WriteHeld(k)' /\ staging'[k][WriteTag].buf \in Bufs
             /\ BufOf(k)' = staging'[k][WriteTag].buf
  <2>1. /\ k \in NeedToAllocate(K, WriteTag) /\ k \notin HandedOver(K, WriteTag)
        /\ ~IsResident(k) /\ k \in Keys
    BY Zenon, <1>8 DEF Unheld, NeedToAllocate, HandedOver
  <2>2. staging'[k][WriteTag] = NewStaged(f[k], k \in K, Max(Sizes))
    BY Zenon, <1>1, <1>2, <1>3, <2>1 DEF StagingWith
  <2>3. f[k] \in Bufs /\ (k \in K) \in BOOLEAN /\ (k \in K)
    BY Zenon, <1>3, <2>1
  <2>4. /\ staging'[k][WriteTag] \in Staged /\ staging'[k][WriteTag].buf \in Bufs
        /\ staging'[k][WriteTag].held /\ staging'[k][WriteTag].temp
    <3>1. (k \in K) = TRUE
      BY Zenon
    <3>2. staging'[k][WriteTag] = [buf |-> f[k], held |-> TRUE, temp |-> TRUE,
                                   size |-> Max(Sizes), charge |-> Max(Sizes)]
      BY Zenon, <2>2, <3>1 DEF NewStaged
    <3>3. f[k] \in Bufs
      BY Zenon, <2>3
    <3>4. staging'[k][WriteTag] \in Staged
      BY <1>2, <3>2, <3>3 DEF Staged
    <3>5. /\ staging'[k][WriteTag].buf = f[k] /\ staging'[k][WriteTag].held = TRUE
          /\ staging'[k][WriteTag].temp = TRUE
      BY <3>2
    <3> QED BY Zenon, <3>3, <3>4, <3>5
  <2>5. staging'[k][WriteTag] # None
    BY Zenon, <2>4, L1Assumption
  <2> QED BY Zenon, <1>2, <2>1, <2>4, <2>5 DEF WriteHeld, BufOf, IsResident, IsStaged, IsLive
<1> QED BY Zenon, <1>2, <1>6, <1>7, <1>8 DEF L1Typed

\* reserve_write without memory takes over expired reservations and nothing else.
LEMMA OutOfMemory ==
    ASSUME L1Typed, NEW K \in SUBSET Keys, ReserveWriteOutOfMemory(K, K, WriteTag)
    PROVE  /\ L1Typed'
           /\ \A k \in Keys : k \notin K => Same(k)
           /\ \A k \in K : Unheld(k) => Unheld(k)'
<1>1. /\ objects' = objects
      /\ staging' = [k \in Keys |-> [u \in Tags |->
                       IF u = WriteTag /\ k \in HandedOver(K, WriteTag)
                       THEN Rehold(staging[k][WriteTag], k \in K) ELSE staging[k][u]]]
  BY Zenon DEF ReserveWriteOutOfMemory
<1>2. WriteTag \in Tags /\ HandedOver(K, WriteTag) \subseteq K
  BY Zenon, SerdeAssumption DEF HandedOver
<1>3. ASSUME NEW k \in Keys, NEW u \in Tags PROVE staging'[k][u] \in Staged \cup {None}
  <2>1. (k \in K) \in BOOLEAN
    OBVIOUS
  <2>2. k \in HandedOver(K, WriteTag) => staging[k][WriteTag] \in Staged
    BY Zenon, <1>2, EntryTyped DEF HandedOver
  <2>3. CASE u = WriteTag /\ k \in HandedOver(K, WriteTag)
    <3>1. staging'[k][u] = Rehold(staging[k][WriteTag], k \in K)
      BY Zenon, <1>1, <2>3
    <3> QED BY Zenon, <2>1, <2>2, <2>3, <3>1, ReholdTyped
  <2>4. CASE ~(u = WriteTag /\ k \in HandedOver(K, WriteTag))
    BY Zenon, <1>1, <2>4 DEF L1Typed
  <2> QED BY Zenon, <2>3, <2>4
<1>4. staging' \in [Keys -> [Tags -> Staged \cup {None}]]
  <2>1. staging' = [k \in Keys |-> [u \in Tags |-> staging'[k][u]]]
    BY Zenon, <1>1
  <2> QED BY Zenon, <1>3, <2>1
<1>5. ASSUME NEW k \in Keys, k \notin HandedOver(K, WriteTag)
      PROVE  staging'[k][WriteTag] = staging[k][WriteTag]
  BY Zenon, <1>1, <1>2, <1>5
<1>6. ASSUME NEW k \in K, Unheld(k) PROVE Unheld(k)'
  <2>1. k \in Keys /\ k \notin HandedOver(K, WriteTag)
    BY Zenon, <1>6 DEF Unheld, HandedOver
  <2> QED BY Zenon, <1>1, <1>5, <1>6, <2>1, EntriesKept DEF Same
<1>7. ASSUME NEW k \in Keys, k \notin K PROVE Same(k)
  BY Zenon, <1>1, <1>2, <1>5, <1>7, EntriesKept
<1> QED BY Zenon, <1>1, <1>4, <1>6, <1>7 DEF L1Typed

\* set_used_size changes the size of a staging object and nothing else of it.
LEMMA NarrowTemps ==
    ASSUME L1Typed, NEW P, objects' = objects,
           staging' = [k \in Keys |-> [u \in Tags |->
               IF k \in P /\ IsStaged(k, u) THEN [staging[k][u] EXCEPT !.size = Min(Sizes)]
               ELSE staging[k][u]]]
    PROVE  L1Typed' /\ \A k \in Keys : Same(k)
<1>1. ASSUME NEW o \in Staged, NEW q, q = [o EXCEPT !.size = Min(Sizes)]
      PROVE  q \in Staged /\ q.buf = o.buf /\ q.held = o.held /\ q.temp = o.temp
  <2>1. Min(Sizes) \in Sizes
    BY Zenon, SerdeAssumption
  <2> QED BY Zenon, <1>1, <2>1 DEF Staged
<1>2. ASSUME NEW k \in Keys, NEW u \in Tags
      PROVE  \/ staging'[k][u] = staging[k][u]
             \/ /\ staging[k][u] # None /\ staging'[k][u] \in Staged
                /\ staging'[k][u].buf = staging[k][u].buf
                /\ staging'[k][u].held = staging[k][u].held
                /\ staging'[k][u].temp = staging[k][u].temp
  <2>1. CASE k \in P /\ IsStaged(k, u)
    <3>1. staging[k][u] \in Staged /\ staging[k][u] # None
      BY Zenon, <2>1, EntryTyped DEF IsStaged
    <3>2. staging'[k][u] = [staging[k][u] EXCEPT !.size = Min(Sizes)]
      BY Zenon, <2>1
    <3> QED BY Zenon, <1>1, <3>1, <3>2
  <2>2. CASE ~(k \in P /\ IsStaged(k, u))
    BY Zenon, <2>2
  <2> QED BY Zenon, <2>1, <2>2
<1>3. staging' \in [Keys -> [Tags -> Staged \cup {None}]]
  <2>1. staging' = [k \in Keys |-> [u \in Tags |-> staging'[k][u]]]
    BY Zenon
  <2>2. ASSUME NEW k \in Keys, NEW u \in Tags PROVE staging'[k][u] \in Staged \cup {None}
    <3>1. staging[k][u] \in Staged \cup {None}
      BY Zenon DEF L1Typed
    <3> QED BY Zenon, <1>2, <3>1
  <2> QED BY Zenon, <2>1, <2>2
<1>4. ASSUME NEW k \in Keys PROVE Same(k)
  <2>1. WriteTag \in Tags
    BY Zenon, SerdeAssumption
  <2>2. CASE staging'[k][WriteTag] = staging[k][WriteTag]
    BY Zenon, <2>2, EntriesKept
  <2>3. CASE /\ staging[k][WriteTag] # None /\ staging'[k][WriteTag] \in Staged
             /\ staging'[k][WriteTag].buf = staging[k][WriteTag].buf
             /\ staging'[k][WriteTag].held = staging[k][WriteTag].held
             /\ staging'[k][WriteTag].temp = staging[k][WriteTag].temp
    <3>1. staging'[k][WriteTag] # None
      BY Zenon, <2>3, L1Assumption
    <3> QED BY Zenon, <2>3, <3>1
            DEF Same, WriteHeld, ReadHeld, Unheld, BufOf, IsResident, IsStaged, IsLive
  <2> QED BY Zenon, <1>2, <2>1, <2>2, <2>3
<1> QED BY Zenon, <1>3, <1>4 DEF L1Typed

\* A TTL that passes concerns one key.
LEMMA ExpireTemps ==
    ASSUME L1Typed, NEW k \in Keys, ExpireRead(k) \/ ExpireWrite(k, WriteTag)
    PROVE  /\ L1Typed' /\ ~Unheld(k)
           /\ \A j \in Keys : j # k => Same(j)
<1>1. CASE ExpireRead(k)
  <2>1. staging' = staging /\ objects' = [objects EXCEPT ![k].locks = 0] /\ ReadLocked(k)
    BY Zenon, <1>1 DEF ExpireRead
  <2>2. objects[k] \in Resident /\ IsResident(k)
    BY Zenon, <2>1, EntryTyped DEF ReadLocked
  <2>3. [objects[k] EXCEPT !.locks = 0] \in Resident
    <3>1. 0 \in 0 .. MaxLocks
      BY L1Assumption
    <3> QED BY Zenon, <2>2, <3>1 DEF Resident
  <2>4. objects' \in [Keys -> Resident \cup {None}] /\ \A j \in Keys : j # k => objects'[j] = objects[j]
    BY Zenon, <2>1, <2>3 DEF L1Typed
  <2>5. \A j \in Keys : j # k => Same(j)
    BY Zenon, <2>1, <2>4, EntriesKept
  <2> QED BY Zenon, <2>1, <2>2, <2>4, <2>5 DEF L1Typed, Unheld
<1>2. CASE ExpireWrite(k, WriteTag)
  <2>0. WriteTag \in Tags
    BY Zenon, SerdeAssumption
  <2>1. /\ objects' = objects /\ staging' = [staging EXCEPT ![k][WriteTag].held = FALSE]
        /\ IsStaged(k, WriteTag)
    BY Zenon, <1>2 DEF ExpireWrite, IsLive
  <2>2. staging[k][WriteTag] \in Staged
    BY Zenon, <2>0, <2>1, EntryTyped
  <2>3. [staging[k][WriteTag] EXCEPT !.held = FALSE] \in Staged
    BY Zenon, <2>2 DEF Staged
  <2>4. [staging[k] EXCEPT ![WriteTag] = [staging[k][WriteTag] EXCEPT !.held = FALSE]]
          \in [Tags -> Staged \cup {None}]
    BY Zenon, <2>3 DEF L1Typed
  <2>5. staging' \in [Keys -> [Tags -> Staged \cup {None}]]
        /\ \A j \in Keys : j # k => staging'[j] = staging[j]
    BY Zenon, <2>1, <2>4 DEF L1Typed
  <2>6. \A j \in Keys : j # k => Same(j)
    BY Zenon, <2>1, <2>5, EntriesKept
  <2> QED BY Zenon, <2>1, <2>5, <2>6 DEF L1Typed, Unheld
<1> QED BY Zenon, <1>1, <1>2

\* Eviction takes no buffer whose lock has not expired.
LEMMA EvictTemps ==
    ASSUME L1Typed, NEW k \in Keys, Delete({k}, FALSE)
    PROVE  L1Typed' /\ \A j \in Keys : Same(j)
<1> DEFINE S == Reclaimable({k}, FALSE)
<1>1. /\ objects' = [j \in Keys |-> IF j \in Deleted({k}, FALSE) THEN None ELSE objects[j]]
      /\ PopStaging(S)
  BY Zenon DEF Delete, RemoveAll
<1>2. WriteTag \in Tags
  BY Zenon, SerdeAssumption
<1>3. \A j \in Keys : <<j, WriteTag>> \in S => ~staging[j][WriteTag].held /\ IsStaged(j, WriteTag)
  BY Zenon DEF Reclaimable
<1> HIDE DEF S
<1>4. /\ staging' \in [Keys -> [Tags -> Staged \cup {None}]]
      /\ \A j \in Keys, u \in Tags : staging'[j][u] = IF <<j, u>> \in S THEN None ELSE staging[j][u]
  BY Zenon, <1>1, PopTyped
<1>5. objects' \in [Keys -> Resident \cup {None}]
  BY Zenon, <1>1 DEF L1Typed
<1>6. ASSUME NEW j \in Keys PROVE Same(j)
  <2>1. /\ staging'[j][WriteTag] = staging[j][WriteTag]
           \/ (staging'[j][WriteTag] = None /\ ~IsLive(j, WriteTag))
        /\ staging[j][WriteTag] = None => staging'[j][WriteTag] = None
    <3>1. staging'[j][WriteTag] = IF <<j, WriteTag>> \in S THEN None ELSE staging[j][WriteTag]
      BY Zenon, <1>2, <1>4
    <3>2. <<j, WriteTag>> \in S => ~IsLive(j, WriteTag)
      BY Zenon, <1>3 DEF IsLive
    <3> QED BY Zenon, <3>1, <3>2
  <2>2. objects'[j] = objects[j] \/ (objects'[j] = None /\ ~ReadLocked(j))
    <3>1. j \in Deleted({k}, FALSE) => ~ReadLocked(j)
      BY Zenon DEF Deleted
    <3>2. objects'[j] = IF j \in Deleted({k}, FALSE) THEN None ELSE objects[j]
      BY Zenon, <1>1
    <3> QED BY Zenon, <3>1, <3>2
  <2>3. ReadHeld(j) => ReadLocked(j)
    <3>1. ReadHeld(j) => objects[j].locks = 1 /\ IsResident(j)
      BY Zenon DEF ReadHeld
    <3> QED BY <3>1 DEF ReadLocked
  <2>4. WriteHeld(j) => WriteHeld(j)' /\ BufOf(j)' = BufOf(j)
    BY Zenon, <2>1, <2>2 DEF WriteHeld, BufOf, IsResident, IsStaged, IsLive
  <2>5. ReadHeld(j) => ReadHeld(j)' /\ BufOf(j)' = BufOf(j)
    BY Zenon, <2>1, <2>2, <2>3 DEF ReadHeld, BufOf, IsResident, IsStaged
  <2>6. Unheld(j) => Unheld(j)'
    BY Zenon, <2>1, <2>2 DEF Unheld, IsResident, IsStaged
  <2> QED BY Zenon, <2>4, <2>5, <2>6 DEF Same
<1> QED BY Zenon, <1>4, <1>5, <1>6 DEF L1Typed

----------------------------------------------------------------------------
\* The tasks a step does not concern

\* Task t is as it was, to the loop too, and so are its buffers but for TTLs.
Unmoved(t) ==
    /\ task'[t] = task[t] /\ result'[t] = result[t] /\ serde'[t] = serde[t] /\ inner'[t] = inner[t]
    /\ \A fd \in Fds : <<fd, t>> \in mapped' <=> <<fd, t>> \in mapped
    /\ t \in loop'.pending => t \in loop.pending /\ loop'.fd = loop.fd
    /\ loop'.pc = "store" /\ loop'.cur = t <=> loop.pc = "store" /\ loop.cur = t
    /\ \A c \in ChunksOf[t] :
         /\ <<t, c>> \notin late' => Same(<<t, c>>) /\ <<t, c>> \notin late
         /\ <<t, c>> \in late' => <<t, c>> \in late \/ ~Unheld(<<t, c>>)

\* Such a task stays in place.
LEMMA UnmovedStays ==
    ASSUME NEW t \in Tasks, InPlace(t), Unmoved(t), closing' = closing, leftover' = leftover,
           LoopSound
    PROVE  InPlace(t)'
<1>1. /\ task'[t] = task[t] /\ result'[t] = result[t] /\ serde'[t] = serde[t] /\ inner'[t] = inner[t]
      /\ Phased(t) /\ Mapped(t) /\ Listed(t) /\ Handing(t) /\ Guarded(t)
  BY Zenon DEF Unmoved, InPlace
<1>2. Phased(t)'
  BY Zenon, <1>1 DEF Phased, Over, Tabled, Busy, Reserved, Serializing, Serialized, Storing,
                     Loading, Deserializing
<1>3. /\ Serializing(t)' <=> Serializing(t)
      /\ Serialized(t)' <=> Serialized(t)
      /\ Storing(t)' <=> Storing(t)
      /\ Loading(t)' <=> Loading(t)
      /\ Deserializing(t)' <=> Deserializing(t)
  BY Zenon, <1>1 DEF Serializing, Serialized, Storing, Loading, Deserializing
<1>4. \A fd \in Fds : <<fd, t>> \in mapped' <=> <<fd, t>> \in mapped
  BY Zenon DEF Unmoved
<1>5. Mapped(t)'
  <2>1. /\ <<"serialize", t>> \in mapped' => <<"serialize", t>> \in mapped
        /\ <<"inner_load", t>> \in mapped' => <<"inner_load", t>> \in mapped
        /\ <<"deserialize", t>> \in mapped' => <<"deserialize", t>> \in mapped
    BY Zenon, <1>4 DEF Fds
  <2> QED BY Zenon, <1>1, <1>3, <2>1 DEF Mapped
<1>6. Listed(t)'
  <2>1. t \in loop'.pending => t \in loop.pending /\ loop'.fd = loop.fd /\ loop.fd \in Fds
    BY Zenon DEF Unmoved, LoopSound, Loops, Fds
  <2> QED BY Zenon, <1>1, <1>3, <1>4, <2>1 DEF Listed
<1>7. Handing(t)'
  BY Zenon, <1>1, <1>3 DEF Handing, Unmoved
<1>8. ASSUME NEW c \in ChunksOf[t], <<t, c>> \notin late' PROVE Keeps(t, c)'
  <2>1. Same(<<t, c>>) /\ Keeps(t, c)
    BY Zenon, <1>1, <1>8 DEF Unmoved, Guarded
  <2>2. Readable(t)' <=> Readable(t)
    BY Zenon, <1>1 DEF Readable
  <2> QED BY Zenon, <1>1, <2>1, <2>2 DEF Keeps, Same
<1>9. ASSUME NEW c \in ChunksOf[t], closing' = "open", task'[t] = None, result'[t] = None,
             <<t, c>> \in late'
      PROVE  FALSE
  <2>1. closing = "open" /\ task[t] = None /\ result[t] = None
    BY Zenon, <1>1, <1>9
  <2>2. <<t, c>> \notin late /\ Keeps(t, c)
    BY Zenon, <1>1, <2>1 DEF Guarded
  <2>3. <<t, c>> \notin leftover
    BY Zenon, <2>1 DEF LoopSound
  <2>4. Unheld(<<t, c>>)
    BY Zenon, <2>1, <2>2, <2>3 DEF Keeps
  <2> QED BY Zenon, <1>9, <2>2, <2>4 DEF Unmoved
<1> QED BY Zenon, <1>2, <1>5, <1>6, <1>7, <1>8, <1>9 DEF InPlace, Guarded

\* A step about task t leaves the other tasks alone.
Elsewhere(t) ==
    \A u \in Tasks : u # t =>
        /\ task'[u] = task[u] /\ result'[u] = result[u] /\ serde'[u] = serde[u] /\ inner'[u] = inner[u]
        /\ \A fd \in Fds : <<fd, u>> \in mapped' <=> <<fd, u>> \in mapped
        /\ u \in loop'.pending => u \in loop.pending /\ loop'.fd = loop.fd
        /\ loop'.pc = "store" /\ loop'.cur = u <=> loop.pc = "store" /\ loop.cur = u

\* Such a step keeps the invariant if it leaves its own task in place.
LEMMA TaskStep ==
    ASSUME WInv, NEW t \in Tasks, Elsewhere(t), UNCHANGED <<closing, leftover, late>>,
           \A k \in Keys : k \notin Temps(t) => Same(k),
           L1Typed', TablesTyped', LoopSound', InPlace(t)'
    PROVE  WInv'
<1>1. ASSUME NEW u \in Tasks, u # t PROVE InPlace(u)'
  <2>1. \A c \in ChunksOf[u] : Same(<<u, c>>)
    BY Zenon, <1>1, TempKeys
  <2>2. Unmoved(u)
    BY Zenon, <1>1, <2>1 DEF Elsewhere, Unmoved
  <2> QED BY Zenon, <2>2, UnmovedStays DEF WInv
<1> QED BY Zenon, <1>1 DEF WInv

\* The entries of the tables.
LEMMA RowTyped ==
    ASSUME TablesTyped, NEW t \in Tasks
    PROVE  /\ serde[t] \in Jobs /\ serde[t].st \in {"none", "running", "done", "popped"}
           /\ serde[t].ok \subseteq Chunks
           /\ inner[t] \in Jobs /\ inner[t].st \in {"none", "running", "done", "popped"}
           /\ inner[t].ok \subseteq Chunks
           /\ task[t] # None => task[t] \in Entries /\ task[t].bitmap \subseteq Chunks
<1>1. serde[t] \in Jobs /\ inner[t] \in Jobs /\ (task[t] # None => task[t] \in Entries)
  BY Zenon DEF TablesTyped
<1> QED BY Zenon, <1>1 DEF Jobs, Entries

\* The jobs of a task are NoJob, running, done or popped.
LEMMA JobsTyped ==
    /\ NoJob \in Jobs /\ NoJob.st = "none" /\ NoJob.ok = {}
    /\ Running \in Jobs /\ Running.st = "running"
    /\ \A ok \in SUBSET Chunks : Done(ok) \in Jobs /\ Done(ok).st = "done" /\ Done(ok).ok = ok
    /\ \A j \in Jobs : Popped(j) \in Jobs /\ Popped(j).st = "popped" /\ Popped(j).ok = j.ok
    /\ \A t \in Tasks : ChunksOf[t] \subseteq Chunks
BY Zenon DEF Jobs, NoJob, Running, Done, Popped, Chunks

\* The loop knows nothing of a task it has not been told of.
LEMMA Untold ==
    ASSUME LoopSound, NEW t \in Tasks, InPlace(t), task[t] = None \/ task[t].phase = "RESERVED"
    PROVE  /\ t \notin loop.pending /\ ~(loop.pc = "store" /\ loop.cur = t)
           /\ <<"serialize", t>> \notin mapped /\ <<"inner_load", t>> \notin mapped
           /\ <<"deserialize", t>> \notin mapped
<1>1. /\ ~(task[t] # None /\ Serializing(t)) /\ ~(task[t] # None /\ Serialized(t))
      /\ ~(task[t] # None /\ Storing(t)) /\ ~(task[t] # None /\ Loading(t))
      /\ ~(task[t] # None /\ Deserializing(t))
  BY Zenon DEF Serializing, Serialized, Storing, Loading, Deserializing
<1>2. Mapped(t) /\ Listed(t) /\ Handing(t)
  BY Zenon DEF InPlace
<1>3. /\ <<"serialize", t>> \notin mapped /\ <<"inner_load", t>> \notin mapped
      /\ <<"deserialize", t>> \notin mapped
  BY Zenon, <1>1, <1>2 DEF Mapped
<1>4. ~(loop.pc = "store" /\ loop.cur = t)
  BY Zenon, <1>1, <1>2 DEF Handing
<1>5. t \notin loop.pending
  <2>1. SUFFICES ASSUME t \in loop.pending PROVE FALSE
    BY Zenon
  <2>2. loop.fd \in Fds /\ loop.fd # "inner_store" /\ <<loop.fd, t>> \in mapped
    BY Zenon, <1>1, <1>2, <2>1 DEF Listed, LoopSound, Loops, Fds
  <2>3. loop.fd \in {"serialize", "inner_load", "deserialize"}
    BY Zenon, <2>2 DEF Fds
  <2> QED BY Zenon, <1>3, <2>2, <2>3
<1> QED BY Zenon, <1>3, <1>4, <1>5

\* A task that is reported is in place.
LEMMA Reported ==
    ASSUME NEW t \in Tasks, task'[t] = None, result'[t] # None,
           closing' \in {"open", "stopping"}, leftover' = {},
           serde'[t].st \in {"none", "popped"}, inner'[t].st \in {"none", "popped"},
           result'[t] \subseteq inner'[t].ok, result'[t] # {} => serde'[t].ok # {},
           t \notin loop'.pending, ~(loop'.pc = "store" /\ loop'.cur = t),
           <<"serialize", t>> \notin mapped', <<"inner_load", t>> \notin mapped',
           <<"deserialize", t>> \notin mapped',
           \A c \in ChunksOf[t] : <<t, c>> \notin late' => Unheld(<<t, c>>)'
    PROVE  InPlace(t)'
<1>1. Over(t)'
  BY Zenon DEF Over, Busy
<1>2. Phased(t)'
  BY Zenon, <1>1 DEF Phased
<1>3. Mapped(t)' /\ Listed(t)' /\ Handing(t)'
  BY Zenon DEF Mapped, Listed, Handing
<1>4. Guarded(t)'
  <2>1. \A c \in ChunksOf[t] : <<t, c>> \notin leftover'
    BY Zenon
  <2> QED BY Zenon, <2>1 DEF Guarded, Keeps
<1> QED BY Zenon, <1>2, <1>3, <1>4 DEF InPlace

----------------------------------------------------------------------------
\* Submitting

\* A new task has no jobs and no buffers.
LEMMA NewTask ==
    ASSUME WInv, NEW t \in Tasks, Called(t)
    PROVE  /\ closing = "open" /\ leftover = {} /\ task[t] = None /\ result[t] = None
           /\ serde[t] = NoJob /\ inner[t] = NoJob
           /\ \A c \in ChunksOf[t] : <<t, c>> \notin late /\ Unheld(<<t, c>>)
<1>1. closing = "open" /\ task[t] = None /\ result[t] = None
  BY Zenon DEF Called
<1>2. leftover = {}
  BY Zenon, <1>1 DEF WInv, LoopSound
<1>3. Over(t) /\ Guarded(t)
  BY Zenon, <1>1 DEF WInv, InPlace, Phased
<1>4. serde[t] = NoJob /\ inner[t] = NoJob
  BY Zenon, <1>1, <1>3 DEF Over
<1>5. \A c \in ChunksOf[t] : <<t, c>> \notin leftover
  BY Zenon, <1>2
<1>6. \A c \in ChunksOf[t] : <<t, c>> \notin late /\ Keeps(t, c)
  BY Zenon, <1>1, <1>3 DEF Guarded
<1> QED BY Zenon, <1>1, <1>2, <1>4, <1>5, <1>6 DEF Keeps

\* A task with an allocation is one that nobody works on yet.
LEMMA ReservedTask ==
    ASSUME WInv, NEW t \in Tasks, task[t] # None, task[t].phase = "RESERVED"
    PROVE  /\ closing = "open" /\ leftover = {} /\ result[t] = None
           /\ serde[t] = NoJob /\ inner[t] = NoJob /\ task[t] \in Entries
           /\ \A c \in ChunksOf[t] : <<t, c>> \notin late =>
                WriteHeld(<<t, c>>) /\ BufOf(<<t, c>>) = task[t].bufs[c]
<1>1. Tabled(t) /\ Guarded(t)
  BY Zenon DEF WInv, InPlace, Phased
<1>2. Reserved(t) /\ result[t] = None
  BY Zenon, <1>1 DEF Tabled, Serializing, Serialized, Storing, Loading, Deserializing
<1>3. closing = "open" /\ leftover = {}
  BY Zenon, <1>2 DEF Reserved, WInv, LoopSound
<1>4. ~Readable(t)
  BY Zenon, <1>2, JobsTyped DEF Reserved, Readable
<1>5. \A c \in ChunksOf[t] : <<t, c>> \notin late => Keeps(t, c)
  BY Zenon, <1>1 DEF Guarded
<1>6. task[t] \in Entries
  BY Zenon, RowTyped DEF WInv
<1> QED BY Zenon, <1>2, <1>3, <1>4, <1>5, <1>6 DEF Keeps, Reserved

\* submit_*_task with memory.
LEMMA AllocStep ==
    ASSUME WInv, NEW t \in Tasks, Alloc(t)
    PROVE  WInv'
<1> DEFINE e == [phase |-> "RESERVED", bitmap |-> {},
                 bufs |-> [c \in ChunksOf[t] |-> staging'[<<t, c>>][WriteTag].buf]]
<1>1. /\ Called(t) /\ ReserveWrite(Temps(t), Temps(t), WriteTag, Max(Sizes))
      /\ task' = [task EXCEPT ![t] = e]
      /\ UNCHANGED <<serde, inner, mapped, events, loop, result, closing, leftover, late>>
  BY Zenon DEF Alloc
<1>2. /\ closing = "open" /\ leftover = {} /\ task[t] = None /\ result[t] = None
      /\ serde[t] = NoJob /\ inner[t] = NoJob
      /\ \A c \in ChunksOf[t] : <<t, c>> \notin late /\ Unheld(<<t, c>>)
  BY Zenon, <1>1, NewTask
<1>3. L1Typed /\ TablesTyped /\ LoopSound /\ InPlace(t) /\ Temps(t) \in SUBSET Keys
  BY Zenon, TempKeys DEF WInv
<1>4. /\ L1Typed' /\ \A k \in Keys : k \notin Temps(t) => Same(k)
      /\ \A k \in Temps(t) : Unheld(k) => /\ WriteHeld(k)' /\ staging'[k][WriteTag].buf \in Bufs
                                          /\ BufOf(k)' = staging'[k][WriteTag].buf
  BY Zenon, <1>1, <1>3, AllocTemps
<1>5. \A c \in ChunksOf[t] : /\ WriteHeld(<<t, c>>)' /\ staging'[<<t, c>>][WriteTag].buf \in Bufs
                             /\ BufOf(<<t, c>>)' = staging'[<<t, c>>][WriteTag].buf
  BY Zenon, <1>2, <1>4, TempKeys
<1>6. e \in Entries /\ e.phase = "RESERVED"
      /\ \A c \in ChunksOf[t] : e.bufs[c] = staging'[<<t, c>>][WriteTag].buf
  <2>1. e.bufs \in [ChunksOf[t] -> Bufs]
    BY Zenon, <1>5
  <2>2. e.bufs \in UNION {[ChunksOf[u] -> Bufs] : u \in Tasks}
    BY Zenon, <2>1
  <2>3. e.bitmap \in SUBSET Chunks
    BY Zenon
  <2> QED BY Zenon, <2>2, <2>3 DEF Entries
<1> HIDE DEF e
<1>7. task'[t] = e /\ e # None /\ TablesTyped'
  <2>1. e # None
    BY Zenon, <1>6, SerdeAssumption
  <2> QED BY Zenon, <1>1, <1>3, <1>6, <2>1 DEF TablesTyped
<1>8. Elsewhere(t)
  BY Zenon, <1>1, <1>3 DEF Elsewhere, TablesTyped
<1>9. LoopSound'
  BY Zenon, <1>1, <1>3 DEF LoopSound
<1>10. /\ t \notin loop.pending /\ ~(loop.pc = "store" /\ loop.cur = t)
       /\ <<"serialize", t>> \notin mapped /\ <<"inner_load", t>> \notin mapped
       /\ <<"deserialize", t>> \notin mapped
  BY Zenon, <1>2, <1>3, Untold
<1>11. Phased(t)'
  BY Zenon, <1>1, <1>2, <1>6, <1>7 DEF Phased, Tabled, Reserved
<1>12. Mapped(t)' /\ Listed(t)'
  BY Zenon, <1>1, <1>10 DEF Mapped, Listed
<1>13. Handing(t)'
  <2>1. ~Serialized(t)'
    BY Zenon, <1>6, <1>7 DEF Serialized
  <2> QED BY Zenon, <1>1, <1>10, <2>1 DEF Handing
<1>14. Guarded(t)'
  <2>1. ~Readable(t)'
    BY Zenon, <1>1, <1>2, JobsTyped DEF Readable
  <2> QED BY Zenon, <1>5, <1>6, <1>7, <2>1 DEF Guarded, Keeps
<1>15. InPlace(t)'
  BY Zenon, <1>11, <1>12, <1>13, <1>14 DEF InPlace
<1> QED BY Zenon, <1>1, <1>4, <1>7, <1>8, <1>9, <1>15, TaskStep

\* submit_*_task without memory.
LEMMA AllocFailsStep ==
    ASSUME WInv, NEW t \in Tasks, AllocFails(t)
    PROVE  WInv'
<1>1. /\ Called(t) /\ ReserveWriteOutOfMemory(Temps(t), Temps(t), WriteTag)
      /\ task' = [task EXCEPT ![t] = None] /\ result' = [result EXCEPT ![t] = {}]
      /\ UNCHANGED <<serde, inner, mapped, events, loop, closing, leftover, late>>
  BY Zenon DEF AllocFails, Finalize
<1>2. /\ closing = "open" /\ leftover = {} /\ task[t] = None /\ result[t] = None
      /\ serde[t] = NoJob /\ inner[t] = NoJob
      /\ \A c \in ChunksOf[t] : <<t, c>> \notin late /\ Unheld(<<t, c>>)
  BY Zenon, <1>1, NewTask
<1>3. L1Typed /\ TablesTyped /\ LoopSound /\ InPlace(t) /\ Temps(t) \in SUBSET Keys
  BY Zenon, TempKeys DEF WInv
<1>4. /\ L1Typed' /\ \A k \in Keys : k \notin Temps(t) => Same(k)
      /\ \A k \in Temps(t) : Unheld(k) => Unheld(k)'
  BY Zenon, <1>1, <1>3, OutOfMemory
<1>5. \A c \in ChunksOf[t] : Unheld(<<t, c>>)'
  BY Zenon, <1>2, <1>4, TempKeys
<1>6. task'[t] = None /\ result'[t] = {} /\ {} # None /\ TablesTyped'
  <2>1. {} # None
    BY Zenon, SerdeAssumption
  <2> QED BY Zenon, <1>1, <1>3, <2>1 DEF TablesTyped
<1>7. Elsewhere(t)
  BY Zenon, <1>1, <1>3 DEF Elsewhere, TablesTyped
<1>8. LoopSound'
  BY Zenon, <1>1, <1>3 DEF LoopSound
<1>9. /\ t \notin loop.pending /\ ~(loop.pc = "store" /\ loop.cur = t)
      /\ <<"serialize", t>> \notin mapped /\ <<"inner_load", t>> \notin mapped
      /\ <<"deserialize", t>> \notin mapped
  BY Zenon, <1>2, <1>3, Untold
<1>10. serde'[t].st = "none" /\ inner'[t].st = "none"
  BY Zenon, <1>1, <1>2, JobsTyped
<1>11. InPlace(t)'
  BY Zenon, <1>1, <1>2, <1>5, <1>6, <1>9, <1>10, Reported
<1> QED BY Zenon, <1>1, <1>4, <1>6, <1>7, <1>8, <1>11, TaskStep

\* The submission to the pool or to the inner adapter.
LEMMA SubmitStep ==
    ASSUME WInv, NEW t \in Tasks, Submit(t)
    PROVE  WInv'
<1>1. /\ task[t] # None /\ task[t].phase = "RESERVED"
      /\ UNCHANGED <<vars, events, loop, result, closing, leftover, late>>
  BY Zenon DEF Submit
<1>2. /\ closing = "open" /\ leftover = {} /\ result[t] = None
      /\ serde[t] = NoJob /\ inner[t] = NoJob /\ task[t] \in Entries
      /\ \A c \in ChunksOf[t] : <<t, c>> \notin late =>
           WriteHeld(<<t, c>>) /\ BufOf(<<t, c>>) = task[t].bufs[c]
  BY Zenon, <1>1, ReservedTask
<1>3. L1Typed /\ TablesTyped /\ LoopSound /\ InPlace(t) /\ Temps(t) \in SUBSET Keys
  BY Zenon, TempKeys DEF WInv
<1>4. objects' = objects /\ staging' = staging
  BY Zenon, <1>1 DEF vars
<1>5. L1Typed' /\ \A k : Same(k)
  BY Zenon, <1>3, <1>4, EntriesKept DEF L1Typed
<1>6. LoopSound'
  BY Zenon, <1>1, <1>3 DEF LoopSound
<1>7. /\ t \notin loop.pending /\ ~(loop.pc = "store" /\ loop.cur = t)
      /\ <<"serialize", t>> \notin mapped /\ <<"inner_load", t>> \notin mapped
      /\ <<"deserialize", t>> \notin mapped
  BY Zenon, <1>1, <1>3, Untold
<1>8. /\ NoJob.st = "none" /\ Running \in Jobs /\ Running.st = "running"
  BY Zenon, JobsTyped
<1>9. CASE t \in StoreTasks
  <2> DEFINE e == [task[t] EXCEPT !.phase = "SERIALIZE"]
  <2>1. /\ task' = [task EXCEPT ![t] = e] /\ serde' = [serde EXCEPT ![t] = Running]
        /\ mapped' = mapped \cup {<<"serialize", t>>} /\ inner' = inner
    BY Zenon, <1>9 DEF Submit
  <2>2. e \in Entries /\ e.phase = "SERIALIZE" /\ e.bufs = task[t].bufs
    BY Zenon, <1>2 DEF Entries
  <2> HIDE DEF e
  <2>3. task'[t] = e /\ e # None /\ serde'[t] = Running /\ inner'[t] = NoJob /\ TablesTyped'
    <3>1. e # None
      BY Zenon, <2>2, SerdeAssumption
    <3> QED BY Zenon, <1>1, <1>2, <1>3, <1>8, <2>1, <2>2, <3>1 DEF TablesTyped
  <2>4. \A u : \A fd \in Fds : <<fd, u>> \in mapped' <=> <<fd, u>> \in mapped \/ (u = t /\ fd = "serialize")
    BY Zenon, <2>1
  <2>5. Elsewhere(t)
    BY Zenon, <1>1, <1>3, <2>1, <2>4 DEF Elsewhere, TablesTyped
  <2>6. Serializing(t)' /\ ~Serialized(t)' /\ ~Readable(t)'
    BY Zenon, <1>8, <1>9, <2>2, <2>3 DEF Serializing, Serialized, Begun, Readable
  <2>7. Phased(t)'
    BY Zenon, <1>1, <1>2, <2>3, <2>6 DEF Phased, Tabled
  <2>8. Mapped(t)'
    <3>1. <<"inner_load", t>> \notin mapped' /\ <<"deserialize", t>> \notin mapped'
      BY Zenon, <1>7, <2>1
    <3> QED BY Zenon, <2>3, <2>6, <3>1 DEF Mapped
  <2>9. Listed(t)' /\ Handing(t)'
    BY Zenon, <1>1, <1>7, <2>6 DEF Listed, Handing
  <2>10. Guarded(t)'
    BY Zenon, <1>1, <1>2, <1>5, <2>2, <2>3, <2>6 DEF Guarded, Keeps, Same
  <2>11. InPlace(t)'
    BY Zenon, <2>7, <2>8, <2>9, <2>10 DEF InPlace
  <2> QED BY Zenon, <1>1, <1>5, <1>6, <2>3, <2>5, <2>11, TaskStep
<1>10. CASE t \notin StoreTasks
  <2> DEFINE e == [task[t] EXCEPT !.phase = "LOAD"]
  <2>1. /\ task' = [task EXCEPT ![t] = e] /\ inner' = [inner EXCEPT ![t] = Running]
        /\ mapped' = mapped \cup {<<"inner_load", t>>} /\ serde' = serde /\ t \in LoadTasks
    BY Zenon, <1>10 DEF Submit, Tasks
  <2>2. e \in Entries /\ e.phase = "LOAD" /\ e.bufs = task[t].bufs
    BY Zenon, <1>2 DEF Entries
  <2> HIDE DEF e
  <2>3. task'[t] = e /\ e # None /\ inner'[t] = Running /\ serde'[t] = NoJob /\ TablesTyped'
    <3>1. e # None
      BY Zenon, <2>2, SerdeAssumption
    <3> QED BY Zenon, <1>1, <1>2, <1>3, <1>8, <2>1, <2>2, <3>1 DEF TablesTyped
  <2>4. \A u : \A fd \in Fds : <<fd, u>> \in mapped' <=> <<fd, u>> \in mapped \/ (u = t /\ fd = "inner_load")
    BY Zenon, <2>1
  <2>5. Elsewhere(t)
    BY Zenon, <1>1, <1>3, <2>1, <2>4 DEF Elsewhere, TablesTyped
  <2>6. Loading(t)' /\ ~Serialized(t)' /\ ~Readable(t)'
    BY Zenon, <1>8, <1>10, <2>1, <2>2, <2>3 DEF Loading, Serialized, Begun, Readable
  <2>7. Phased(t)'
    BY Zenon, <1>1, <1>2, <2>3, <2>6 DEF Phased, Tabled
  <2>8. Mapped(t)'
    <3>1. <<"serialize", t>> \notin mapped' /\ <<"deserialize", t>> \notin mapped'
      BY Zenon, <1>7, <2>1
    <3> QED BY Zenon, <2>3, <2>6, <3>1 DEF Mapped
  <2>9. Listed(t)' /\ Handing(t)'
    BY Zenon, <1>1, <1>7, <2>6 DEF Listed, Handing
  <2>10. Guarded(t)'
    BY Zenon, <1>1, <1>2, <1>5, <2>2, <2>3, <2>6 DEF Guarded, Keeps, Same
  <2>11. InPlace(t)'
    BY Zenon, <2>7, <2>8, <2>9, <2>10 DEF InPlace
  <2> QED BY Zenon, <1>1, <1>5, <1>6, <2>3, <2>5, <2>11, TaskStep
<1> QED BY Zenon, <1>9, <1>10

\* The submission raised.
LEMMA SubmitRaisesStep ==
    ASSUME WInv, NEW t \in Tasks, SubmitRaises(t)
    PROVE  WInv'
<1>1. /\ task[t] # None /\ task[t].phase = "RESERVED"
      /\ FinishWriteAndDelete(Temps(t), WriteTag)
      /\ task' = [task EXCEPT ![t] = None] /\ result' = [result EXCEPT ![t] = {}]
      /\ UNCHANGED <<serde, inner, mapped, events, loop, closing, leftover, late>>
  BY Zenon DEF SubmitRaises, Finalize, ReleaseWriteTemps
<1>2. /\ closing = "open" /\ leftover = {} /\ serde[t] = NoJob /\ inner[t] = NoJob
      /\ \A c \in ChunksOf[t] : <<t, c>> \notin late => WriteHeld(<<t, c>>)
  BY Zenon, <1>1, ReservedTask
<1>3. L1Typed /\ TablesTyped /\ LoopSound /\ InPlace(t) /\ Temps(t) \in SUBSET Keys
  BY Zenon, TempKeys DEF WInv
<1>4. /\ L1Typed' /\ \A k \in Keys : k \notin Temps(t) => Same(k)
      /\ \A k \in Temps(t) : WriteHeld(k) => Unheld(k)'
  BY Zenon, <1>1, <1>3, ReleaseTemps
<1>5. \A c \in ChunksOf[t] : <<t, c>> \notin late => Unheld(<<t, c>>)'
  BY Zenon, <1>2, <1>4, TempKeys
<1>6. task'[t] = None /\ result'[t] = {} /\ {} # None /\ TablesTyped'
  <2>1. {} # None
    BY Zenon, SerdeAssumption
  <2> QED BY Zenon, <1>1, <1>3, <2>1 DEF TablesTyped
<1>7. Elsewhere(t)
  BY Zenon, <1>1, <1>3 DEF Elsewhere, TablesTyped
<1>8. LoopSound'
  BY Zenon, <1>1, <1>3 DEF LoopSound
<1>9. /\ t \notin loop.pending /\ ~(loop.pc = "store" /\ loop.cur = t)
      /\ <<"serialize", t>> \notin mapped /\ <<"inner_load", t>> \notin mapped
      /\ <<"deserialize", t>> \notin mapped
  BY Zenon, <1>1, <1>3, Untold
<1>10. serde'[t].st = "none" /\ inner'[t].st = "none"
  BY Zenon, <1>1, <1>2, JobsTyped
<1>11. InPlace(t)'
  BY Zenon, <1>1, <1>2, <1>5, <1>6, <1>9, <1>10, Reported
<1> QED BY Zenon, <1>1, <1>4, <1>6, <1>7, <1>8, <1>11, TaskStep

----------------------------------------------------------------------------
\* The pool and the inner adapter

\* A job is done.
LEMMA SerdeDoneStep ==
    ASSUME WInv, NEW t \in Tasks, SerdeDone(t)
    PROVE  WInv'
<1>1. PICK ok \in {ChunksOf[t], {}}, N \in IF t \in StoreTasks THEN SUBSET ChunksOf[t] ELSE {{}} :
         /\ serde' = [serde EXCEPT ![t] = Done(ok)]
         /\ staging' = [k \in Keys |-> [u \in Tags |->
               IF k \in {t} \X N /\ IsStaged(k, u) THEN [staging[k][u] EXCEPT !.size = Min(Sizes)]
               ELSE staging[k][u]]]
  BY Zenon DEF SerdeDone
<1>2. /\ serde[t].st = "running"
      /\ UNCHANGED <<objects, task, inner, mapped, loop, result, closing, leftover, late>>
  BY Zenon DEF SerdeDone
<1>3. L1Typed /\ TablesTyped /\ LoopSound /\ InPlace(t)
  BY Zenon DEF WInv
<1>4. L1Typed' /\ \A k \in Keys : Same(k)
  BY Zenon, <1>1, <1>2, <1>3, NarrowTemps
<1>5. serde'[t] = Done(ok) /\ Done(ok).st = "done" /\ TablesTyped'
  <2>1. ok \in SUBSET Chunks
    BY Zenon, JobsTyped
  <2>2. Done(ok) \in Jobs /\ Done(ok).st = "done"
    BY Zenon, <2>1, JobsTyped
  <2> QED BY Zenon, <1>1, <1>2, <1>3, <2>2 DEF TablesTyped
<1>6. Elsewhere(t)
  BY Zenon, <1>1, <1>2, <1>3 DEF Elsewhere, TablesTyped
<1>7. LoopSound'
  <2>1. events' \subseteq Fds
    BY Zenon, <1>3 DEF SerdeDone, LoopSound, Fds
  <2> QED BY Zenon, <1>2, <1>3, <2>1 DEF LoopSound
<1>8. /\ ~Reserved(t) /\ ~Serialized(t) /\ ~Storing(t) /\ ~Loading(t) /\ ~Readable(t)
      /\ Serializing(t) => Serializing(t)'
      /\ Deserializing(t) => Deserializing(t)'
      /\ ~Serialized(t)' /\ ~Readable(t)'
  BY Zenon, <1>2, <1>5, JobsTyped
     DEF Reserved, Serializing, Serialized, Storing, Loading, Deserializing, Readable, Begun
<1>9. task[t] # None /\ Tabled(t) /\ Mapped(t) /\ Listed(t) /\ Handing(t) /\ Guarded(t)
  BY Zenon, <1>2, <1>3 DEF InPlace, Phased, Over, Busy
<1>10. Phased(t)'
  BY Zenon, <1>2, <1>8, <1>9 DEF Phased, Tabled
<1>11. Mapped(t)' /\ Listed(t)' /\ Handing(t)'
  BY Zenon, <1>2, <1>8, <1>9 DEF Mapped, Listed, Handing
<1>12. Guarded(t)'
  <2>1. \A c \in ChunksOf[t] : Same(<<t, c>>)
    BY Zenon, <1>4, TempKeys
  <2> QED BY Zenon, <1>2, <1>8, <1>9, <2>1 DEF Guarded, Keeps, Same
<1>13. InPlace(t)'
  BY Zenon, <1>10, <1>11, <1>12 DEF InPlace
<1> QED BY Zenon, <1>2, <1>4, <1>5, <1>6, <1>7, <1>13, TaskStep

\* A store or a load of the inner adapter is done.
LEMMA InnerDoneStep ==
    ASSUME WInv, NEW t \in Tasks, InnerDone(t)
    PROVE  WInv'
<1>1. PICK ok \in IF t \in StoreTasks THEN {ChunksOf[t], {}} ELSE SUBSET ChunksOf[t] :
         inner' = [inner EXCEPT ![t] = Done(ok)]
  BY Zenon DEF InnerDone
<1>2. /\ inner[t].st = "running"
      /\ UNCHANGED <<vars, task, serde, mapped, loop, result, closing, leftover, late>>
  BY Zenon DEF InnerDone
<1>3. L1Typed /\ TablesTyped /\ LoopSound /\ InPlace(t)
  BY Zenon DEF WInv
<1>4. L1Typed' /\ \A k : Same(k)
  <2>1. objects' = objects /\ staging' = staging
    BY Zenon, <1>2 DEF vars
  <2> QED BY Zenon, <1>3, <2>1, EntriesKept DEF L1Typed
<1>5. inner'[t] = Done(ok) /\ Done(ok).st = "done" /\ TablesTyped'
  <2>1. ok \in SUBSET Chunks
    BY Zenon, JobsTyped
  <2>2. Done(ok) \in Jobs /\ Done(ok).st = "done"
    BY Zenon, <2>1, JobsTyped
  <2> QED BY Zenon, <1>1, <1>2, <1>3, <2>2 DEF TablesTyped
<1>6. Elsewhere(t)
  BY Zenon, <1>1, <1>2, <1>3 DEF Elsewhere, TablesTyped
<1>7. LoopSound'
  <2>1. events' \subseteq Fds
    BY Zenon, <1>3 DEF InnerDone, LoopSound, Fds
  <2> QED BY Zenon, <1>2, <1>3, <2>1 DEF LoopSound
<1>8. /\ ~Reserved(t) /\ ~Serialized(t) /\ ~Serializing(t) /\ ~Deserializing(t)
      /\ Storing(t) => Storing(t)'
      /\ Loading(t) => Loading(t)'
      /\ ~Serialized(t)' /\ (Readable(t)' <=> Readable(t))
  BY Zenon, <1>2, <1>5, JobsTyped
     DEF Reserved, Serializing, Serialized, Storing, Loading, Deserializing, Readable, Begun
<1>9. task[t] # None /\ Tabled(t) /\ Mapped(t) /\ Listed(t) /\ Handing(t) /\ Guarded(t)
  BY Zenon, <1>2, <1>3 DEF InPlace, Phased, Over, Busy
<1>10. Phased(t)'
  BY Zenon, <1>2, <1>8, <1>9 DEF Phased, Tabled
<1>11. Mapped(t)' /\ Handing(t)'
  BY Zenon, <1>2, <1>8, <1>9 DEF Mapped, Handing
<1>12. Listed(t)'
  BY Zenon, <1>2, <1>9 DEF Listed
<1>13. Guarded(t)'
  BY Zenon, <1>2, <1>4, <1>8, <1>9 DEF Guarded, Keeps, Same
<1>14. InPlace(t)'
  BY Zenon, <1>10, <1>11, <1>12, <1>13 DEF InPlace
<1> QED BY Zenon, <1>2, <1>4, <1>5, <1>6, <1>7, <1>14, TaskStep

----------------------------------------------------------------------------
\* The loop

\* A step of the loop between two tasks: a note about a task is about one in
\* its place.
LEMMA LoopStep ==
    ASSUME WInv, UNCHANGED <<vars, task, serde, inner, mapped, result, closing, leftover, late>>,
           loop'.pc # "store", loop.pc # "store", LoopSound',
           \A t \in Tasks : t \in loop'.pending =>
               \/ t \in loop.pending /\ loop'.fd = loop.fd
               \/ Listed(t)'
    PROVE  WInv'
<1>1. L1Typed /\ TablesTyped /\ LoopSound
  BY Zenon DEF WInv
<1>2. L1Typed' /\ TablesTyped' /\ \A k : Same(k)
  <2>1. objects' = objects /\ staging' = staging
    BY Zenon DEF vars
  <2> QED BY Zenon, <1>1, <2>1, EntriesKept DEF L1Typed, TablesTyped
<1>3. ASSUME NEW t \in Tasks PROVE InPlace(t)'
  <2>1. /\ Phased(t) /\ Mapped(t) /\ Listed(t) /\ Handing(t) /\ Guarded(t)
    BY Zenon DEF WInv, InPlace
  <2>2. Phased(t)'
    BY Zenon, <2>1 DEF Phased, Over, Tabled, Busy, Reserved, Serializing, Serialized, Storing,
                       Loading, Deserializing
  <2>3. Mapped(t)' /\ Handing(t)'
    BY Zenon, <2>1 DEF Mapped, Handing, Serializing, Serialized, Loading, Deserializing
  <2>4. Listed(t)'
    BY Zenon, <2>1 DEF Listed, Storing
  <2>5. Guarded(t)'
    BY Zenon, <1>2, <2>1 DEF Guarded, Keeps, Same, Readable
  <2> QED BY Zenon, <2>2, <2>3, <2>4, <2>5 DEF InPlace
<1> QED BY Zenon, <1>2, <1>3 DEF WInv

\* The steps of the loop between two tasks.
LEMMA LoopSteps ==
    ASSUME WInv, Poll \/ LoopExit \/ Consume \/ List \/ DrainEnd
    PROVE  WInv'
<1>1. loop \in Loops /\ events \subseteq Fds /\ LoopSound
  BY Zenon DEF WInv, LoopSound
<1>2. UNCHANGED <<vars, task, serde, inner, mapped, result, closing, leftover, late>>
  BY Zenon DEF Poll, LoopExit, Consume, List, DrainEnd
<1>3. ASSUME loop'.pending = {}, loop'.pc # "store", loop.pc # "store", LoopSound' PROVE WInv'
  <2>1. \A t \in Tasks : t \notin loop'.pending
    BY Zenon, <1>3
  <2> QED BY Zenon, <1>2, <1>3, <2>1, LoopStep
<1>4. CASE Poll
  <2>1. /\ loop.pc = "poll" /\ closing = "open" /\ loop' = [LoopAt("next") EXCEPT !.ready = events]
        /\ events' = events /\ closing' = closing /\ leftover' = leftover
    BY Zenon, <1>4 DEF Poll
  <2>2. loop' \in Loops /\ loop'.pending = {} /\ loop'.pc = "next"
    BY Zenon, <1>1, <2>1 DEF LoopAt, Loops
  <2>3. LoopSound'
    BY Zenon, <1>1, <2>1, <2>2 DEF LoopSound
  <2> QED BY Zenon, <1>3, <2>1, <2>2, <2>3
<1>5. CASE LoopExit
  <2>1. /\ loop.pc = "poll" /\ closing # "open" /\ loop' = LoopAt("exited")
        /\ events' = events /\ closing' = closing /\ leftover' = leftover
    BY Zenon, <1>5 DEF LoopExit
  <2>2. loop' \in Loops /\ loop'.pending = {} /\ loop'.pc = "exited"
    BY Zenon, <1>1, <2>1 DEF LoopAt, Loops
  <2>3. LoopSound'
    BY Zenon, <1>1, <2>1, <2>2 DEF LoopSound
  <2> QED BY Zenon, <1>3, <2>1, <2>2, <2>3
<1>6. CASE Consume
  <2>1. loop.pc = "next" /\ closing' = closing /\ leftover' = leftover
    BY Zenon, <1>6 DEF Consume
  <2>2. loop.pending = {} /\ loop.ready \subseteq Fds
    BY Zenon, <1>1, <2>1 DEF LoopSound, Loops
  <2>3. CASE loop' = LoopAt("poll") /\ events' = events
    <3>1. loop' \in Loops /\ loop'.pending = {} /\ loop'.pc = "poll"
      BY Zenon, <1>1, <2>3 DEF LoopAt, Loops
    <3>2. LoopSound'
      BY Zenon, <1>1, <2>1, <2>3, <3>1 DEF LoopSound
    <3> QED BY Zenon, <1>3, <2>1, <3>1, <3>2
  <2>4. ASSUME NEW fd \in loop.ready, events' = events \ {fd},
               loop' = [loop EXCEPT !.pc = "list", !.ready = loop.ready \ {fd}, !.fd = fd]
        PROVE  WInv'
    <3>1. loop' \in Loops /\ loop'.pending = {} /\ loop'.pc = "list" /\ loop'.fd \in Fds
      BY Zenon, <1>1, <2>2, <2>4 DEF Loops
    <3>2. LoopSound'
      BY Zenon, <1>1, <2>1, <2>4, <3>1 DEF LoopSound
    <3> QED BY Zenon, <1>3, <2>1, <3>1, <3>2
  <2> QED BY Zenon, <1>6, <2>3, <2>4 DEF Consume
<1>7. CASE List
  <2> DEFINE P == IF loop.fd = "inner_store" THEN {t \in StoreTasks : inner[t].st = "done"}
                  ELSE {t \in Tasks : <<loop.fd, t>> \in mapped}
  <2>1. /\ loop.pc = "list" /\ loop' = [loop EXCEPT !.pc = "drain", !.pending = P]
        /\ events' = events /\ closing' = closing /\ leftover' = leftover
    BY Zenon, <1>7 DEF List
  <2>2. P \subseteq Tasks
    BY Zenon DEF Tasks
  <2>3. ASSUME NEW t \in P
        PROVE  IF loop.fd = "inner_store" THEN task[t] # None /\ Storing(t) /\ inner[t].st = "done"
               ELSE <<loop.fd, t>> \in mapped
    <3>1. CASE loop.fd = "inner_store"
      <4>1. t \in StoreTasks /\ t \in Tasks /\ inner[t].st = "done"
        BY Zenon, <3>1 DEF Tasks
      <4>2. closing \in {"open", "stopping"} /\ Phased(t)
        BY Zenon, <1>1, <2>1, <4>1 DEF LoopSound, WInv, InPlace
      <4>3. task[t] # None /\ Tabled(t)
        BY Zenon, <4>1, <4>2 DEF Phased, Over
      <4>4. Storing(t)
        BY Zenon, <4>1, <4>3, JobsTyped, SerdeAssumption
           DEF Tabled, Reserved, Serializing, Serialized, Loading, Deserializing
      <4> QED BY Zenon, <3>1, <4>1, <4>3, <4>4
    <3>2. CASE loop.fd # "inner_store"
      BY Zenon, <3>2
    <3> QED BY Zenon, <3>1, <3>2
  <2> HIDE DEF P
  <2>4. loop' \in Loops /\ loop'.pending = P /\ loop'.pc = "drain" /\ loop'.fd = loop.fd
    BY Zenon, <1>1, <2>1, <2>2 DEF Loops
  <2>5. LoopSound'
    BY Zenon, <1>1, <2>1, <2>4 DEF LoopSound
  <2>6. \A t \in Tasks : t \in loop'.pending => Listed(t)'
    BY Zenon, <1>2, <2>3, <2>4 DEF Listed, Storing
  <2>7. loop.pc # "store" /\ loop'.pc # "store"
    BY Zenon, <2>1, <2>4
  <2> QED BY Zenon, <1>2, <2>5, <2>6, <2>7, LoopStep
<1>8. CASE DrainEnd
  <2>1. /\ loop.pc = "drain" /\ loop.pending = {} /\ loop' = [loop EXCEPT !.pc = "next", !.fd = None]
        /\ events' = events /\ closing' = closing /\ leftover' = leftover
    BY Zenon, <1>8 DEF DrainEnd
  <2>2. loop' \in Loops /\ loop'.pending = {} /\ loop'.pc = "next"
    BY Zenon, <1>1, <2>1 DEF Loops
  <2>3. LoopSound'
    BY Zenon, <1>1, <2>1, <2>2 DEF LoopSound
  <2> QED BY Zenon, <1>3, <2>1, <2>2, <2>3
<1> QED BY Zenon, <1>4, <1>5, <1>6, <1>7, <1>8

\* A drain goes on to its next task.
LEMMA Advanced ==
    ASSUME LoopSound, NEW t \in Tasks, loop.pc = "drain", Advance(t),
           UNCHANGED <<events, closing, leftover>>
    PROVE  /\ LoopSound' /\ loop'.pc = "drain" /\ loop'.fd = loop.fd
           /\ t \notin loop'.pending /\ \A u : u \in loop'.pending => u \in loop.pending
<1>1. loop \in Loops /\ loop' = [loop EXCEPT !.pending = loop.pending \ {t}]
  BY Zenon DEF LoopSound, Advance
<1>2. /\ loop' \in Loops /\ loop'.pc = "drain" /\ loop'.fd = loop.fd
      /\ loop'.pending = loop.pending \ {t}
  BY Zenon, <1>1 DEF Loops
<1>3. LoopSound'
  BY Zenon, <1>2 DEF LoopSound
<1> QED BY Zenon, <1>2, <1>3

\* What a drain knows of the task it looks at.
LEMMA Looked ==
    ASSUME WInv, NEW fd \in Fds, NEW t \in Tasks, At(fd, t)
    PROVE  /\ loop.pc = "drain" /\ loop.fd = fd /\ closing \in {"open", "stopping"} /\ leftover = {}
           /\ task[t] # None /\ result[t] = None /\ task[t] \in Entries
           /\ fd = "serialize" => Serializing(t)
           /\ fd = "inner_store" => Storing(t) /\ inner[t].st = "done"
           /\ fd = "inner_load" => Loading(t)
           /\ fd = "deserialize" => Deserializing(t)
           /\ \A g \in {"serialize", "inner_load", "deserialize"} : g # fd => <<g, t>> \notin mapped
           /\ \A c \in ChunksOf[t] : <<t, c>> \notin late =>
                /\ BufOf(<<t, c>>) = task[t].bufs[c]
                /\ IF fd = "inner_store" THEN ReadHeld(<<t, c>>) ELSE WriteHeld(<<t, c>>)
<1>1. /\ loop.pc = "drain" /\ loop.fd = fd /\ t \in loop.pending /\ LoopSound
      /\ Phased(t) /\ Mapped(t) /\ Listed(t) /\ Guarded(t)
  BY Zenon DEF At, WInv, InPlace
<1>2. closing \in {"open", "stopping"} /\ leftover = {}
  BY Zenon, <1>1 DEF LoopSound
<1>3. fd # "inner_store" => <<fd, t>> \in mapped
  BY Zenon, <1>1 DEF Listed
<1>4. /\ fd = "serialize" => Serializing(t)
      /\ fd = "inner_store" => Storing(t) /\ inner[t].st = "done"
      /\ fd = "inner_load" => Loading(t)
      /\ fd = "deserialize" => Deserializing(t)
      /\ task[t] # None
  <2>1. CASE fd = "serialize"
    BY Zenon, <1>1, <1>3, <2>1 DEF Mapped
  <2>2. CASE fd = "inner_store"
    BY Zenon, <1>1, <2>2 DEF Listed
  <2>3. CASE fd = "inner_load"
    BY Zenon, <1>1, <1>3, <2>3 DEF Mapped
  <2>4. CASE fd = "deserialize"
    BY Zenon, <1>1, <1>3, <2>4 DEF Mapped
  <2> QED BY Zenon, <2>1, <2>2, <2>3, <2>4 DEF Fds
<1>5. result[t] = None /\ task[t] \in Entries
  BY Zenon, <1>1, <1>4, RowTyped DEF Phased, Tabled, WInv
<1>6. \A g \in {"serialize", "inner_load", "deserialize"} : g # fd => <<g, t>> \notin mapped
  <2>1. /\ <<"serialize", t>> \in mapped => Serializing(t)
        /\ <<"inner_load", t>> \in mapped => Loading(t)
        /\ <<"deserialize", t>> \in mapped => Deserializing(t)
    BY Zenon, <1>1 DEF Mapped
  <2>2. /\ Serializing(t) => ~Loading(t) /\ ~Deserializing(t) /\ ~Storing(t)
        /\ Loading(t) => ~Deserializing(t) /\ ~Storing(t)
        /\ Deserializing(t) => ~Storing(t)
    BY Zenon, JobsTyped DEF Serializing, Storing, Loading, Deserializing, Begun
  <2> QED BY <1>4, <2>1, <2>2 DEF Fds
<1>7. Readable(t) <=> fd = "inner_store"
  BY Zenon, <1>4, SerdeAssumption, JobsTyped
     DEF Fds, Readable, Serializing, Storing, Loading, Deserializing, Begun
<1>8. \A c \in ChunksOf[t] : <<t, c>> \notin late => Keeps(t, c)
  BY Zenon, <1>1 DEF Guarded
<1>9. \A c \in ChunksOf[t] : <<t, c>> \notin late =>
        /\ BufOf(<<t, c>>) = task[t].bufs[c]
        /\ IF fd = "inner_store" THEN ReadHeld(<<t, c>>) ELSE WriteHeld(<<t, c>>)
  BY Zenon, <1>4, <1>7, <1>8 DEF Keeps
<1> QED BY Zenon, <1>1, <1>2, <1>4, <1>5, <1>6, <1>9

\* The loop reports a task.
LEMMA Ends ==
    ASSUME WInv, NEW t \in Tasks, NEW r \in SUBSET Chunks, Finalize(t, r),
           closing \in {"open", "stopping"}, UNCHANGED <<closing, leftover, late>>,
           LoopSound', loop'.pc # "store", loop.pc = "store" => loop.cur = t, t \notin loop'.pending,
           loop'.fd = loop.fd, \A u : u \in loop'.pending => u \in loop.pending,
           \A fd \in Fds : \A u : u # t => (<<fd, u>> \in mapped' <=> <<fd, u>> \in mapped),
           <<"serialize", t>> \notin mapped', <<"inner_load", t>> \notin mapped',
           <<"deserialize", t>> \notin mapped',
           serde' \in [Tasks -> Jobs], inner' \in [Tasks -> Jobs],
           \A u \in Tasks : u # t => serde'[u] = serde[u] /\ inner'[u] = inner[u],
           serde'[t].st \in {"none", "popped"}, inner'[t].st \in {"none", "popped"},
           r \subseteq inner'[t].ok, r # {} => serde'[t].ok # {},
           L1Typed', \A k \in Keys : k \notin Temps(t) => Same(k),
           \A c \in ChunksOf[t] : <<t, c>> \notin late => Unheld(<<t, c>>)'
    PROVE  WInv'
<1>1. /\ task' = [task EXCEPT ![t] = None] /\ result' = [result EXCEPT ![t] = r]
      /\ TablesTyped /\ LoopSound
  BY Zenon DEF Finalize, WInv
<1>2. r # None
  BY Zenon, SerdeAssumption
<1>3. task'[t] = None /\ result'[t] = r /\ TablesTyped'
  BY Zenon, <1>1 DEF TablesTyped
<1>4. leftover' = {}
  BY Zenon, <1>1 DEF LoopSound
<1>5. Elsewhere(t)
  <2> SUFFICES ASSUME NEW u \in Tasks, u # t
               PROVE  /\ task'[u] = task[u] /\ result'[u] = result[u]
                      /\ \A fd \in Fds : <<fd, u>> \in mapped' <=> <<fd, u>> \in mapped
                      /\ loop'.pc = "store" /\ loop'.cur = u <=> loop.pc = "store" /\ loop.cur = u
    BY Zenon DEF Elsewhere
  <2>1. task'[u] = task[u] /\ result'[u] = result[u]
    BY Zenon, <1>1 DEF TablesTyped
  <2> QED BY Zenon, <2>1
<1>6. InPlace(t)'
  BY Zenon, <1>2, <1>3, <1>4, Reported
<1> QED BY Zenon, <1>3, <1>5, <1>6, TaskStep

\* A drain reports a task that the inner adapter stored.
LEMMA DrainInnerStoreStep ==
    ASSUME WInv, NEW t \in Tasks, DrainInnerStore(t)
    PROVE  WInv'
<1>1. /\ At("inner_store", t) /\ inner' = [inner EXCEPT ![t] = Popped(inner[t])]
      /\ mapped' = mapped \ {<<"inner_store", t>>} /\ FinishRead(Temps(t), 1)
      /\ Finalize(t, inner[t].ok) /\ Advance(t)
      /\ UNCHANGED <<serde, events, closing, leftover, late>>
  BY Zenon DEF DrainInnerStore
<1>2. "inner_store" \in Fds
  BY Zenon DEF Fds
<1>3. /\ loop.pc = "drain" /\ closing \in {"open", "stopping"}
      /\ Storing(t) /\ inner[t].st = "done"
      /\ \A g \in {"serialize", "inner_load", "deserialize"} : g # "inner_store" => <<g, t>> \notin mapped
      /\ \A c \in ChunksOf[t] : <<t, c>> \notin late => ReadHeld(<<t, c>>)
  BY Zenon, <1>1, <1>2, Looked
<1>4. L1Typed /\ TablesTyped /\ LoopSound /\ Temps(t) \in SUBSET Keys
  BY Zenon, TempKeys DEF WInv
<1>5. /\ L1Typed' /\ \A k \in Keys : k \notin Temps(t) => Same(k)
      /\ \A k \in Temps(t) : ReadHeld(k) => Unheld(k)'
  BY Zenon, <1>1, <1>4, FinishReadTemps
<1>6. \A c \in ChunksOf[t] : <<t, c>> \notin late => Unheld(<<t, c>>)'
  BY Zenon, <1>3, <1>5, TempKeys
<1>7. /\ LoopSound' /\ loop'.pc # "store" /\ loop'.fd = loop.fd /\ loop.pc # "store"
      /\ t \notin loop'.pending /\ \A u : u \in loop'.pending => u \in loop.pending
  <2>1. UNCHANGED <<events, closing, leftover>>
    BY Zenon, <1>1
  <2>2. /\ LoopSound' /\ loop'.pc = "drain" /\ loop'.fd = loop.fd
        /\ t \notin loop'.pending /\ \A u : u \in loop'.pending => u \in loop.pending
    BY Zenon, <1>1, <1>3, <1>4, <2>1, Advanced
  <2> QED BY Zenon, <1>3, <2>2
<1>8. /\ \A fd \in Fds : \A u : u # t => (<<fd, u>> \in mapped' <=> <<fd, u>> \in mapped)
      /\ <<"serialize", t>> \notin mapped' /\ <<"inner_load", t>> \notin mapped'
      /\ <<"deserialize", t>> \notin mapped'
  BY Zenon, <1>1, <1>3
<1>9. /\ inner[t] \in Jobs /\ inner[t].ok \in SUBSET Chunks
      /\ Popped(inner[t]) \in Jobs /\ Popped(inner[t]).st = "popped" /\ Popped(inner[t]).ok = inner[t].ok
  BY Zenon, <1>4, RowTyped, JobsTyped
<1>10. /\ serde' \in [Tasks -> Jobs] /\ inner' \in [Tasks -> Jobs] /\ inner'[t] = Popped(inner[t])
       /\ \A u \in Tasks : u # t => serde'[u] = serde[u] /\ inner'[u] = inner[u]
  BY Zenon, <1>1, <1>4, <1>9 DEF TablesTyped
<1>11. /\ serde'[t].st \in {"none", "popped"} /\ inner'[t].st \in {"none", "popped"}
       /\ inner[t].ok \subseteq inner'[t].ok /\ serde'[t].ok # {}
  BY Zenon, <1>1, <1>3, <1>9, <1>10 DEF Storing
<1> QED BY Zenon, <1>1, <1>3, <1>5, <1>6, <1>7, <1>8, <1>9, <1>10, <1>11, Ends

\* A drain reports a task that the pool deserialized.
LEMMA DrainDeserializeStep ==
    ASSUME WInv, NEW t \in Tasks, DrainDeserialize(t)
    PROVE  WInv'
<1> DEFINE r == IF serde[t].ok = {} THEN {} ELSE task[t].bitmap
<1>1. /\ At("deserialize", t) /\ serde[t].st = "done" /\ serde' = [serde EXCEPT ![t] = Popped(serde[t])]
      /\ mapped' = mapped \ {<<"deserialize", t>>} /\ FinishWriteAndDelete(Temps(t), WriteTag)
      /\ Finalize(t, r) /\ Advance(t)
      /\ UNCHANGED <<inner, events, closing, leftover, late>>
  BY Zenon DEF DrainDeserialize, ReleaseWriteTemps
<1>2. "deserialize" \in Fds /\ "deserialize" # "inner_store"
  BY Zenon DEF Fds
<1>3. /\ loop.pc = "drain" /\ closing \in {"open", "stopping"}
      /\ Deserializing(t) /\ task[t] # None
      /\ \A g \in {"serialize", "inner_load", "deserialize"} : g # "deserialize" => <<g, t>> \notin mapped
      /\ \A c \in ChunksOf[t] : <<t, c>> \notin late => WriteHeld(<<t, c>>)
  BY Zenon, <1>1, <1>2, Looked
<1>4. L1Typed /\ TablesTyped /\ LoopSound /\ Temps(t) \in SUBSET Keys
  BY Zenon, TempKeys DEF WInv
<1>5. /\ L1Typed' /\ \A k \in Keys : k \notin Temps(t) => Same(k)
      /\ \A k \in Temps(t) : WriteHeld(k) => Unheld(k)'
  BY Zenon, <1>1, <1>4, ReleaseTemps
<1>6. \A c \in ChunksOf[t] : <<t, c>> \notin late => Unheld(<<t, c>>)'
  BY Zenon, <1>3, <1>5, TempKeys
<1>7. /\ LoopSound' /\ loop'.pc # "store" /\ loop'.fd = loop.fd /\ loop.pc # "store"
      /\ t \notin loop'.pending /\ \A u : u \in loop'.pending => u \in loop.pending
  <2>1. UNCHANGED <<events, closing, leftover>>
    BY Zenon, <1>1
  <2>2. /\ LoopSound' /\ loop'.pc = "drain" /\ loop'.fd = loop.fd
        /\ t \notin loop'.pending /\ \A u : u \in loop'.pending => u \in loop.pending
    BY Zenon, <1>1, <1>3, <1>4, <2>1, Advanced
  <2> QED BY Zenon, <1>3, <2>2
<1>8. /\ \A fd \in Fds : \A u : u # t => (<<fd, u>> \in mapped' <=> <<fd, u>> \in mapped)
      /\ <<"serialize", t>> \notin mapped' /\ <<"inner_load", t>> \notin mapped'
      /\ <<"deserialize", t>> \notin mapped'
  BY Zenon, <1>1, <1>3
<1>9. /\ serde[t] \in Jobs /\ r \in SUBSET Chunks
      /\ Popped(serde[t]) \in Jobs /\ Popped(serde[t]).st = "popped" /\ Popped(serde[t]).ok = serde[t].ok
  <2>1. serde[t] \in Jobs /\ task[t].bitmap \in SUBSET Chunks
    BY Zenon, <1>3, <1>4, RowTyped
  <2> QED BY Zenon, <2>1, JobsTyped
<1>10. /\ inner' \in [Tasks -> Jobs] /\ serde' \in [Tasks -> Jobs] /\ serde'[t] = Popped(serde[t])
       /\ \A u \in Tasks : u # t => serde'[u] = serde[u] /\ inner'[u] = inner[u]
  BY Zenon, <1>1, <1>4, <1>9 DEF TablesTyped
<1>11. /\ serde'[t].st \in {"none", "popped"} /\ inner'[t].st \in {"none", "popped"}
       /\ r \subseteq inner'[t].ok /\ (r # {} => serde'[t].ok # {})
  BY Zenon, <1>1, <1>3, <1>9, <1>10 DEF Deserializing
<1> HIDE DEF r
<1> QED BY Zenon, <1>1, <1>3, <1>5, <1>6, <1>7, <1>8, <1>9, <1>10, <1>11, Ends

\* A drain looks at a task the pool has serialized.
LEMMA DrainSerializeStep ==
    ASSUME WInv, NEW t \in Tasks, DrainSerialize(t)
    PROVE  WInv'
<1>1. /\ At("serialize", t) /\ serde[t].st = "done" /\ serde' = [serde EXCEPT ![t] = Popped(serde[t])]
      /\ mapped' = mapped \ {<<"serialize", t>>}
      /\ UNCHANGED <<inner, events, closing, leftover, late>>
  BY Zenon DEF DrainSerialize
<1>2. "serialize" \in Fds /\ "serialize" # "inner_store"
  BY Zenon DEF Fds
<1>3. /\ loop.pc = "drain" /\ loop.fd = "serialize" /\ closing \in {"open", "stopping"} /\ leftover = {}
      /\ Serializing(t) /\ task[t] # None /\ result[t] = None
      /\ \A g \in {"serialize", "inner_load", "deserialize"} : g # "serialize" => <<g, t>> \notin mapped
      /\ \A c \in ChunksOf[t] : <<t, c>> \notin late =>
           WriteHeld(<<t, c>>) /\ BufOf(<<t, c>>) = task[t].bufs[c]
  BY Zenon, <1>1, <1>2, Looked
<1>4. L1Typed /\ TablesTyped /\ LoopSound /\ Temps(t) \in SUBSET Keys
  BY Zenon, TempKeys DEF WInv
<1>5. /\ \A fd \in Fds : \A u : u # t => (<<fd, u>> \in mapped' <=> <<fd, u>> \in mapped)
      /\ <<"serialize", t>> \notin mapped' /\ <<"inner_load", t>> \notin mapped'
      /\ <<"deserialize", t>> \notin mapped'
  BY Zenon, <1>1, <1>3
<1>6. /\ serde[t] \in Jobs
      /\ Popped(serde[t]) \in Jobs /\ Popped(serde[t]).st = "popped" /\ Popped(serde[t]).ok = serde[t].ok
  BY Zenon, <1>4, RowTyped, JobsTyped
<1>7. /\ inner' \in [Tasks -> Jobs] /\ serde' \in [Tasks -> Jobs] /\ serde'[t] = Popped(serde[t])
      /\ \A u \in Tasks : u # t => serde'[u] = serde[u] /\ inner'[u] = inner[u]
  BY Zenon, <1>1, <1>4, <1>6 DEF TablesTyped
<1>8. CASE serde[t].ok = {}
  <2>1. FinishWriteAndDelete(Temps(t), WriteTag) /\ Finalize(t, {}) /\ Advance(t)
    BY Zenon, <1>8 DEF DrainSerialize, ReleaseWriteTemps
  <2>2. /\ L1Typed' /\ \A k \in Keys : k \notin Temps(t) => Same(k)
        /\ \A k \in Temps(t) : WriteHeld(k) => Unheld(k)'
    BY Zenon, <1>4, <2>1, ReleaseTemps
  <2>3. \A c \in ChunksOf[t] : <<t, c>> \notin late => Unheld(<<t, c>>)'
    BY Zenon, <1>3, <2>2, TempKeys
  <2>4. /\ LoopSound' /\ loop'.pc # "store" /\ loop'.fd = loop.fd /\ loop.pc # "store"
        /\ t \notin loop'.pending /\ \A u : u \in loop'.pending => u \in loop.pending
    <3>1. UNCHANGED <<events, closing, leftover>>
      BY Zenon, <1>1
    <3>2. /\ LoopSound' /\ loop'.pc = "drain" /\ loop'.fd = loop.fd
          /\ t \notin loop'.pending /\ \A u : u \in loop'.pending => u \in loop.pending
      BY Zenon, <1>3, <1>4, <2>1, <3>1, Advanced
    <3> QED BY Zenon, <1>3, <3>2
  <2>5. /\ serde'[t].st \in {"none", "popped"} /\ inner'[t].st \in {"none", "popped"}
        /\ {} \subseteq inner'[t].ok /\ {} \in SUBSET Chunks
    BY Zenon, <1>1, <1>3, <1>6, <1>7, JobsTyped DEF Serializing
  <2> QED BY Zenon, <1>1, <1>3, <1>5, <1>7, <2>1, <2>2, <2>3, <2>4, <2>5, Ends
<1>9. CASE serde[t].ok # {}
  <2>1. /\ FinishWriteAndReserveRead(Temps(t), 1, WriteTag) /\ task' = task /\ result' = result
        /\ loop' = [loop EXCEPT !.pc = "store", !.cur = t, !.pending = loop.pending \ {t}]
    BY Zenon, <1>9 DEF DrainSerialize
  <2>2. /\ L1Typed' /\ \A k \in Keys : k \notin Temps(t) => Same(k)
        /\ \A k \in Temps(t) : WriteHeld(k) => ReadHeld(k)' /\ BufOf(k)' = BufOf(k)
    BY Zenon, <1>4, <2>1, AdmitTemps
  <2>3. \A c \in ChunksOf[t] : <<t, c>> \notin late =>
          ReadHeld(<<t, c>>)' /\ BufOf(<<t, c>>)' = BufOf(<<t, c>>)
    BY Zenon, <1>3, <2>2, TempKeys
  <2>4. /\ loop' \in Loops /\ loop'.pc = "store" /\ loop'.cur = t /\ loop'.fd = loop.fd
        /\ loop'.pending = loop.pending \ {t}
    BY Zenon, <1>4, <2>1 DEF LoopSound, Loops
  <2>5. LoopSound'
    BY Zenon, <1>1, <1>3, <1>4, <2>4 DEF LoopSound
  <2>6. TablesTyped'
    BY Zenon, <1>4, <1>7, <2>1 DEF TablesTyped
  <2>7. Elsewhere(t)
    <3>1. \A u : u \in loop'.pending => u \in loop.pending /\ u # t
      BY Zenon, <2>4
    <3>2. loop.pc # "store"
      BY Zenon, <1>3
    <3> QED BY Zenon, <1>5, <1>7, <2>1, <2>4, <3>1, <3>2 DEF Elsewhere
  <2>8. Serialized(t)' /\ Readable(t)'
    BY Zenon, <1>1, <1>3, <1>6, <1>7, <1>9, <2>1 DEF Serializing, Serialized, Readable
  <2>9. Phased(t)'
    BY Zenon, <1>1, <1>3, <2>1, <2>8 DEF Phased, Tabled
  <2>10. Mapped(t)' /\ Listed(t)' /\ Handing(t)'
    <3>1. t \notin loop'.pending
      BY Zenon, <2>4
    <3> QED BY Zenon, <1>3, <1>5, <2>1, <2>4, <2>8, <3>1 DEF Mapped, Listed, Handing
  <2>11. Guarded(t)'
    BY Zenon, <1>1, <1>3, <2>1, <2>3, <2>8 DEF Guarded, Keeps
  <2>12. InPlace(t)'
    BY Zenon, <2>9, <2>10, <2>11 DEF InPlace
  <2> QED BY Zenon, <1>1, <2>2, <2>5, <2>6, <2>7, <2>12, TaskStep
<1> QED BY Zenon, <1>8, <1>9

\* The task the loop submits to the inner adapter.
LEMMA Handed ==
    ASSUME WInv, loop.pc = "store"
    PROVE  /\ loop.cur \in Tasks /\ loop.fd = "serialize"
           /\ closing \in {"open", "stopping"} /\ leftover = {}
           /\ Serialized(loop.cur) /\ task[loop.cur] # None /\ result[loop.cur] = None
           /\ task[loop.cur] \in Entries /\ loop.cur \notin loop.pending
           /\ \A g \in {"serialize", "inner_load", "deserialize"} : <<g, loop.cur>> \notin mapped
           /\ \A c \in ChunksOf[loop.cur] : <<loop.cur, c>> \notin late =>
                ReadHeld(<<loop.cur, c>>) /\ BufOf(<<loop.cur, c>>) = task[loop.cur].bufs[c]
<1>1. LoopSound
  BY Zenon DEF WInv
<1>2. /\ loop.cur \in Tasks /\ loop.fd = "serialize"
      /\ closing \in {"open", "stopping"} /\ leftover = {}
  BY Zenon, <1>1 DEF LoopSound
<1> DEFINE t == loop.cur
<1>3. t \in Tasks /\ Phased(t) /\ Mapped(t) /\ Listed(t) /\ Handing(t) /\ Guarded(t)
  BY Zenon, <1>2 DEF WInv, InPlace
<1>4. Serialized(t) /\ task[t] # None
  BY Zenon, <1>3 DEF Handing
<1>5. result[t] = None /\ task[t] \in Entries /\ Readable(t)
  BY Zenon, <1>3, <1>4, RowTyped DEF Phased, Tabled, WInv, Serialized, Readable
<1>6. ~Serializing(t) /\ ~Loading(t) /\ ~Deserializing(t)
  BY Zenon, <1>4 DEF Serialized, Serializing, Loading, Deserializing, Begun
<1>7. /\ <<"serialize", t>> \notin mapped /\ <<"inner_load", t>> \notin mapped
      /\ <<"deserialize", t>> \notin mapped
  BY Zenon, <1>3, <1>6 DEF Mapped
<1>8. t \notin loop.pending
  BY Zenon, <1>2, <1>3, <1>7 DEF Listed
<1>9. \A c \in ChunksOf[t] : <<t, c>> \notin late => ReadHeld(<<t, c>>) /\ BufOf(<<t, c>>) = task[t].bufs[c]
  BY Zenon, <1>3, <1>4, <1>5 DEF Guarded, Keeps
<1>10. \A g \in {"serialize", "inner_load", "deserialize"} : <<g, t>> \notin mapped
  BY Zenon, <1>7
<1> QED BY Zenon, <1>2, <1>4, <1>5, <1>8, <1>9, <1>10

\* The submission to the inner adapter, which may raise.
LEMMA InnerStoreStep ==
    ASSUME WInv, InnerStore
    PROVE  WInv'
<1>0. PICK t : t = loop.cur
  BY Zenon
<1>1. /\ loop.pc = "store" /\ loop' = [loop EXCEPT !.pc = "drain", !.cur = None]
      /\ UNCHANGED <<serde, events, closing, leftover, late>>
  BY Zenon DEF InnerStore
<1>2. /\ t \in Tasks /\ loop.fd = "serialize" /\ closing \in {"open", "stopping"} /\ leftover = {}
      /\ Serialized(t) /\ task[t] # None /\ result[t] = None /\ task[t] \in Entries
      /\ t \notin loop.pending
      /\ \A g \in {"serialize", "inner_load", "deserialize"} : <<g, t>> \notin mapped
      /\ \A c \in ChunksOf[t] : <<t, c>> \notin late =>
           ReadHeld(<<t, c>>) /\ BufOf(<<t, c>>) = task[t].bufs[c]
  BY Zenon, <1>0, <1>1, Handed
<1>3. L1Typed /\ TablesTyped /\ LoopSound /\ Temps(t) \in SUBSET Keys
  BY Zenon, <1>2, TempKeys DEF WInv
<1>4. /\ loop' \in Loops /\ loop'.pc = "drain" /\ loop'.fd = loop.fd /\ loop'.pending = loop.pending
  BY Zenon, <1>1, <1>3 DEF LoopSound, Loops
<1>5. LoopSound'
  BY Zenon, <1>1, <1>2, <1>3, <1>4 DEF LoopSound, Fds
<1>6. CASE /\ inner' = [inner EXCEPT ![t] = Running]
           /\ task' = [task EXCEPT ![t].phase = "INNER_STORE"]
           /\ mapped' = mapped \cup {<<"inner_store", t>>}
           /\ UNCHANGED <<vars, result>>
  <2> DEFINE e == [task[t] EXCEPT !.phase = "INNER_STORE"]
  <2>1. task' = [task EXCEPT ![t] = e]
    BY Zenon, <1>6
  <2>2. e \in Entries /\ e.phase = "INNER_STORE" /\ e.bufs = task[t].bufs
    BY Zenon, <1>2 DEF Entries
  <2> HIDE DEF e
  <2>3. task'[t] = e /\ e # None /\ inner'[t] = Running /\ TablesTyped'
    <3>1. e # None
      BY Zenon, <2>2, SerdeAssumption
    <3>2. Running \in Jobs
      BY Zenon, JobsTyped
    <3> QED BY <1>1, <1>2, <1>3, <1>6, <2>1, <2>2, <3>1, <3>2 DEF TablesTyped
  <2>4. \A fd \in Fds : \A u : u # t => (<<fd, u>> \in mapped' <=> <<fd, u>> \in mapped)
    BY Zenon, <1>6
  <2>5. Elsewhere(t)
    <3>1. loop.cur = t /\ loop'.pc # "store"
      BY Zenon, <1>0, <1>4
    <3> QED BY Zenon, <1>1, <1>3, <1>4, <1>6, <2>1, <2>4, <3>1 DEF Elsewhere, TablesTyped
  <2>6. L1Typed' /\ \A k : Same(k)
    <3>1. objects' = objects /\ staging' = staging
      BY Zenon, <1>6 DEF vars
    <3> QED BY Zenon, <1>3, <3>1, EntriesKept DEF L1Typed
  <2>7. Storing(t)' /\ Readable(t)' /\ ~Serialized(t)'
    BY Zenon, <1>1, <1>2, <2>2, <2>3, JobsTyped DEF Serialized, Storing, Readable, Begun
  <2>8. Phased(t)'
    BY Zenon, <1>1, <1>2, <1>6, <2>3, <2>7 DEF Phased, Tabled
  <2>9. Mapped(t)'
    <3>1. /\ <<"serialize", t>> \notin mapped' /\ <<"inner_load", t>> \notin mapped'
          /\ <<"deserialize", t>> \notin mapped'
      BY Zenon, <1>2, <1>6
    <3> QED BY Zenon, <3>1 DEF Mapped
  <2>10. Listed(t)' /\ Handing(t)'
    <3>1. loop'.pc # "store"
      BY Zenon, <1>4
    <3> QED BY Zenon, <1>2, <1>4, <2>7, <3>1 DEF Listed, Handing
  <2>11. Guarded(t)'
    BY Zenon, <1>1, <1>2, <2>2, <2>3, <2>6, <2>7 DEF Guarded, Keeps, Same
  <2>12. InPlace(t)'
    BY Zenon, <2>8, <2>9, <2>10, <2>11 DEF InPlace
  <2> QED BY Zenon, <1>1, <1>2, <1>5, <2>3, <2>5, <2>6, <2>12, TaskStep
<1>7. CASE FinishRead(Temps(t), 1) /\ Finalize(t, {}) /\ UNCHANGED <<inner, mapped>>
  <2>1. /\ L1Typed' /\ \A k \in Keys : k \notin Temps(t) => Same(k)
        /\ \A k \in Temps(t) : ReadHeld(k) => Unheld(k)'
    BY Zenon, <1>3, <1>7, FinishReadTemps
  <2>2. \A c \in ChunksOf[t] : <<t, c>> \notin late => Unheld(<<t, c>>)'
    BY Zenon, <1>2, <2>1, TempKeys
  <2>3. /\ serde'[t].st \in {"none", "popped"} /\ inner'[t].st \in {"none", "popped"}
        /\ {} \subseteq inner'[t].ok /\ {} \in SUBSET Chunks
    BY Zenon, <1>1, <1>2, <1>7, JobsTyped DEF Serialized
  <2>4. /\ loop'.pc # "store" /\ t \notin loop'.pending /\ loop'.fd = loop.fd
        /\ \A u : u \in loop'.pending => u \in loop.pending
    BY Zenon, <1>2, <1>4
  <2>5. /\ <<"serialize", t>> \notin mapped' /\ <<"inner_load", t>> \notin mapped'
        /\ <<"deserialize", t>> \notin mapped'
    BY Zenon, <1>2, <1>7
  <2>6. serde' \in [Tasks -> Jobs] /\ inner' \in [Tasks -> Jobs]
    BY Zenon, <1>1, <1>3, <1>7 DEF TablesTyped
  <2> QED BY Zenon, <1>0, <1>1, <1>2, <1>5, <1>7, <2>1, <2>2, <2>3, <2>4, <2>5, <2>6, Ends
<1> QED BY Zenon, <1>0, <1>6, <1>7 DEF InnerStore

\* The query of a drain answered None.
LEMMA NotReadyStep ==
    ASSUME WInv, NEW t \in Tasks, NEW fd \in Fds, NotReady(fd, t)
    PROVE  WInv'
<1>1. /\ loop.pc = "drain" /\ Advance(t) /\ UNCHANGED <<events, closing, leftover>>
      /\ UNCHANGED <<vars, task, serde, inner, mapped, result, closing, leftover, late>>
  BY Zenon DEF NotReady, At
<1>2. /\ LoopSound' /\ loop'.pc = "drain" /\ loop'.fd = loop.fd
      /\ \A u : u \in loop'.pending => u \in loop.pending
  BY Zenon, <1>1, Advanced DEF WInv
<1>3. loop'.pc # "store" /\ loop.pc # "store"
  BY Zenon, <1>1, <1>2
<1> QED BY Zenon, <1>1, <1>2, <1>3, LoopStep

\* A drain looks at a task the inner adapter has loaded.
LEMMA DrainInnerLoadStep ==
    ASSUME WInv, NEW t \in Tasks, DrainInnerLoad(t)
    PROVE  WInv'
<1>1. /\ At("inner_load", t) /\ inner[t].st = "done" /\ inner' = [inner EXCEPT ![t] = Popped(inner[t])]
      /\ Advance(t) /\ UNCHANGED <<events, closing, leftover, late>>
  BY Zenon DEF DrainInnerLoad
<1>2. "inner_load" \in Fds /\ "inner_load" # "inner_store"
  BY Zenon DEF Fds
<1>3. /\ loop.pc = "drain" /\ closing \in {"open", "stopping"}
      /\ Loading(t) /\ task[t] # None /\ result[t] = None /\ task[t] \in Entries
      /\ \A g \in {"serialize", "inner_load", "deserialize"} : g # "inner_load" => <<g, t>> \notin mapped
      /\ \A c \in ChunksOf[t] : <<t, c>> \notin late =>
           WriteHeld(<<t, c>>) /\ BufOf(<<t, c>>) = task[t].bufs[c]
  BY Zenon, <1>1, <1>2, Looked
<1>4. L1Typed /\ TablesTyped /\ LoopSound /\ Temps(t) \in SUBSET Keys
  BY Zenon, TempKeys DEF WInv
<1>5. /\ LoopSound' /\ loop'.pc # "store" /\ loop'.fd = loop.fd /\ loop.pc # "store"
      /\ t \notin loop'.pending /\ \A u : u \in loop'.pending => u \in loop.pending
  <2>1. UNCHANGED <<events, closing, leftover>>
    BY Zenon, <1>1
  <2>2. /\ LoopSound' /\ loop'.pc = "drain" /\ loop'.fd = loop.fd
        /\ t \notin loop'.pending /\ \A u : u \in loop'.pending => u \in loop.pending
    BY Zenon, <1>1, <1>3, <1>4, <2>1, Advanced
  <2> QED BY Zenon, <1>3, <2>2
<1>6. /\ inner[t] \in Jobs /\ inner[t].ok \in SUBSET Chunks
      /\ Popped(inner[t]) \in Jobs /\ Popped(inner[t]).st = "popped" /\ Popped(inner[t]).ok = inner[t].ok
  BY Zenon, <1>4, RowTyped, JobsTyped
<1>7. /\ inner' \in [Tasks -> Jobs] /\ inner'[t] = Popped(inner[t])
      /\ \A u \in Tasks : u # t => inner'[u] = inner[u]
  BY Zenon, <1>1, <1>4, <1>6 DEF TablesTyped
<1>8. CASE /\ FinishWriteAndDelete(Temps(t), WriteTag) /\ Finalize(t, {})
           /\ mapped' = mapped \ {<<"inner_load", t>>} /\ serde' = serde
  <2>1. /\ L1Typed' /\ \A k \in Keys : k \notin Temps(t) => Same(k)
        /\ \A k \in Temps(t) : WriteHeld(k) => Unheld(k)'
    BY Zenon, <1>4, <1>8, ReleaseTemps
  <2>2. \A c \in ChunksOf[t] : <<t, c>> \notin late => Unheld(<<t, c>>)'
    BY Zenon, <1>3, <2>1, TempKeys
  <2>3. /\ \A fd \in Fds : \A u : u # t => (<<fd, u>> \in mapped' <=> <<fd, u>> \in mapped)
        /\ <<"serialize", t>> \notin mapped' /\ <<"inner_load", t>> \notin mapped'
        /\ <<"deserialize", t>> \notin mapped'
    BY Zenon, <1>3, <1>8
  <2>4. /\ serde'[t].st \in {"none", "popped"} /\ inner'[t].st \in {"none", "popped"}
        /\ {} \subseteq inner'[t].ok /\ {} \in SUBSET Chunks
    BY Zenon, <1>3, <1>6, <1>7, <1>8, JobsTyped DEF Loading
  <2>5. serde' \in [Tasks -> Jobs] /\ \A u \in Tasks : u # t => serde'[u] = serde[u]
    BY Zenon, <1>4, <1>8 DEF TablesTyped
  <2> QED BY Zenon, <1>1, <1>3, <1>5, <1>7, <1>8, <2>1, <2>2, <2>3, <2>4, <2>5, Ends
<1>9. CASE /\ task' = [task EXCEPT ![t].bitmap = inner[t].ok] /\ serde' = [serde EXCEPT ![t] = Running]
           /\ mapped' = (mapped \ {<<"inner_load", t>>}) \cup {<<"deserialize", t>>}
           /\ UNCHANGED <<vars, result>>
  <2> DEFINE e == [task[t] EXCEPT !.bitmap = inner[t].ok]
  <2>1. task' = [task EXCEPT ![t] = e]
    BY Zenon, <1>9
  <2>2. /\ e \in Entries /\ e.phase = task[t].phase /\ e.bufs = task[t].bufs /\ e.bitmap = inner[t].ok
    BY Zenon, <1>3, <1>6 DEF Entries
  <2> HIDE DEF e
  <2>3. task'[t] = e /\ e # None /\ serde'[t] = Running /\ TablesTyped'
    <3>1. e # None
      BY Zenon, <2>2, SerdeAssumption
    <3>2. Running \in Jobs
      BY Zenon, JobsTyped
    <3> QED BY <1>4, <1>7, <1>9, <2>1, <2>2, <3>1, <3>2 DEF TablesTyped
  <2>4. /\ \A fd \in Fds : \A u : u # t => (<<fd, u>> \in mapped' <=> <<fd, u>> \in mapped)
        /\ <<"serialize", t>> \notin mapped' /\ <<"inner_load", t>> \notin mapped'
    BY Zenon, <1>3, <1>9
  <2>5. Elsewhere(t)
    <3>1. \A u \in Tasks : u # t => task'[u] = task[u] /\ serde'[u] = serde[u] /\ result'[u] = result[u]
      BY Zenon, <1>4, <1>9, <2>1 DEF TablesTyped
    <3> QED BY Zenon, <1>5, <1>7, <2>4, <3>1 DEF Elsewhere
  <2>6. L1Typed' /\ \A k : Same(k)
    <3>1. objects' = objects /\ staging' = staging
      BY Zenon, <1>9 DEF vars
    <3> QED BY Zenon, <1>4, <3>1, EntriesKept DEF L1Typed
  <2>7. Deserializing(t)' /\ ~Readable(t)' /\ ~Serialized(t)'
    BY Zenon, <1>3, <1>6, <1>7, <2>2, <2>3, JobsTyped DEF Loading, Deserializing, Serialized, Readable, Begun
  <2>8. Phased(t)'
    BY Zenon, <1>1, <1>3, <1>9, <2>3, <2>7 DEF Phased, Tabled
  <2>9. Mapped(t)' /\ Listed(t)' /\ Handing(t)'
    BY Zenon, <1>5, <2>3, <2>4, <2>7 DEF Mapped, Listed, Handing
  <2>10. Guarded(t)'
    BY Zenon, <1>1, <1>3, <2>2, <2>3, <2>6, <2>7 DEF Guarded, Keeps, Same
  <2>11. InPlace(t)'
    BY Zenon, <2>8, <2>9, <2>10 DEF InPlace
  <2> QED BY Zenon, <1>1, <1>5, <2>3, <2>5, <2>6, <2>11, TaskStep
<1> QED BY Zenon, <1>8, <1>9 DEF DrainInnerLoad, ReleaseWriteTemps

----------------------------------------------------------------------------
\* close(), time and eviction

\* close() stops the loop.
LEMMA CloseStep ==
    ASSUME WInv, Close
    PROVE  WInv'
<1>1. /\ closing = "open" /\ closing' = "stopping"
      /\ \A t \in Tasks : task[t] # None => task[t].phase # "RESERVED"
      /\ UNCHANGED <<vars, task, serde, inner, mapped, events, loop, result, leftover, late>>
  BY Zenon DEF Close
<1>2. L1Typed /\ TablesTyped /\ LoopSound
  BY Zenon DEF WInv
<1>3. L1Typed' /\ TablesTyped' /\ \A k : Same(k)
  <2>1. objects' = objects /\ staging' = staging
    BY Zenon, <1>1 DEF vars
  <2> QED BY Zenon, <1>1, <1>2, <2>1, EntriesKept DEF L1Typed, TablesTyped
<1>4. LoopSound'
  BY Zenon, <1>1, <1>2 DEF LoopSound
<1>5. ASSUME NEW t \in Tasks PROVE InPlace(t)'
  <2>1. Phased(t) /\ Mapped(t) /\ Listed(t) /\ Handing(t) /\ Guarded(t)
    BY Zenon DEF WInv, InPlace
  <2>2. closing \in {"open", "stopping"} /\ closing' \in {"open", "stopping"} /\ closing' # "open"
    BY Zenon, <1>1
  <2>3. CASE task[t] = None
    <3>1. Over(t)'
      BY Zenon, <1>1, <2>1, <2>2, <2>3 DEF Phased, Over, Busy
    <3> QED BY Zenon, <1>1, <1>3, <2>1, <2>2, <2>3, <3>1
            DEF InPlace, Phased, Mapped, Listed, Handing, Guarded, Keeps, Same
  <2>4. CASE task[t] # None
    <3>1. Tabled(t) /\ ~Reserved(t)
      BY Zenon, <1>1, <2>1, <2>4 DEF Phased, Reserved
    <3>2. Tabled(t)'
      BY Zenon, <1>1, <2>2, <3>1 DEF Tabled, Serializing, Serialized, Storing, Loading, Deserializing
    <3>3. Mapped(t)' /\ Listed(t)' /\ Handing(t)'
      BY Zenon, <1>1, <2>1
         DEF Mapped, Listed, Handing, Serializing, Serialized, Storing, Loading, Deserializing
    <3>4. Guarded(t)'
      BY Zenon, <1>1, <1>3, <2>1, <2>4 DEF Guarded, Keeps, Same, Readable
    <3> QED BY Zenon, <1>1, <2>4, <3>2, <3>3, <3>4 DEF InPlace, Phased
  <2> QED BY Zenon, <2>3, <2>4
<1> QED BY Zenon, <1>3, <1>4, <1>5 DEF WInv

\* close() clears the tables and frees the write-locked buffers.
LEMMA ReleaseStep ==
    ASSUME WInv, Release
    PROVE  WInv'
<1> DEFINE A == {t \in Tasks : task[t] # None /\ task[t].phase \in {"SERIALIZE", "LOAD"}}
<1> DEFINE B == {t \in Tasks : task[t] # None /\ task[t].phase \in {"INNER_STORE"}}
<1> DEFINE K == UNION {Temps(t) : t \in A}
<1> DEFINE L == UNION {Temps(t) : t \in B}
<1>1. /\ closing = "stopping" /\ loop.pc = "exited" /\ closing' = "releasing"
      /\ \A t \in Tasks : inner[t].st # "running" /\ serde[t].st # "running"
      /\ FinishWriteAndDelete(K, WriteTag) /\ leftover' = L
      /\ task' = [t \in Tasks |-> None] /\ mapped' = {}
      /\ UNCHANGED <<serde, inner, events, loop, result, late>>
  BY Zenon DEF Release
<1>2. L1Typed /\ TablesTyped /\ LoopSound
  BY Zenon DEF WInv
<1>3. /\ K \in SUBSET Keys /\ L \in SUBSET Keys
      /\ \A t \in Tasks : \A c \in ChunksOf[t] :
           /\ <<t, c>> \in K <=> task[t] # None /\ task[t].phase \in {"SERIALIZE", "LOAD"}
           /\ <<t, c>> \in L <=> task[t] # None /\ task[t].phase = "INNER_STORE"
  <2>1. ASSUME NEW T \in SUBSET Tasks
        PROVE  /\ UNION {Temps(t) : t \in T} \in SUBSET Keys
               /\ \A t \in Tasks : \A c \in ChunksOf[t] : <<t, c>> \in UNION {Temps(u) : u \in T} <=> t \in T
    <3>1. \A k : k \in UNION {Temps(u) : u \in T} <=> \E u \in T : k \in Temps(u)
      BY Zenon
    <3>2. \A u \in T : u \in Tasks
      BY Zenon
    <3> HIDE DEF A, B, K, L
    <3>3. \A k : k \in UNION {Temps(u) : u \in T} => k \in Keys
      BY Zenon, <3>1, <3>2, TempKeys
    <3>4. \A t \in Tasks : \A c \in ChunksOf[t] :
             <<t, c>> \in UNION {Temps(u) : u \in T} <=> t \in T
      <4> SUFFICES ASSUME NEW t \in Tasks, NEW c \in ChunksOf[t]
                   PROVE  <<t, c>> \in UNION {Temps(u) : u \in T} <=> t \in T
        BY Zenon
      <4>1. \A u \in T : <<t, c>> \in Temps(u) <=> u = t
        BY Zenon, <3>2, TempKeys
      <4>2. <<t, c>> \in UNION {Temps(u) : u \in T} <=> \E u \in T : <<t, c>> \in Temps(u)
        BY Zenon, <3>1
      <4> QED BY Zenon, <4>1, <4>2
    <3> QED BY Zenon, <3>3, <3>4
  <2>2. A \in SUBSET Tasks /\ B \in SUBSET Tasks
    BY Zenon
  <2>3. \A t \in Tasks : /\ t \in A <=> task[t] # None /\ task[t].phase \in {"SERIALIZE", "LOAD"}
                         /\ t \in B <=> task[t] # None /\ task[t].phase = "INNER_STORE"
    BY Zenon
  <2> HIDE DEF A, B
  <2> QED BY Zenon, <2>1, <2>2, <2>3
<1> HIDE DEF A, B, K, L
<1>4. /\ L1Typed' /\ \A k \in Keys : k \notin K => Same(k)
      /\ \A k \in K : WriteHeld(k) => Unheld(k)'
  BY Zenon, <1>1, <1>2, <1>3, ReleaseTemps
<1>5. TablesTyped'
  BY Zenon, <1>1, <1>2 DEF TablesTyped
<1>6. LoopSound' /\ loop.pending = {} /\ leftover = {}
  BY Zenon, <1>1, <1>2, <1>3 DEF LoopSound
<1>7. ASSUME NEW t \in Tasks PROVE InPlace(t)'
  <2>1. Phased(t) /\ Handing(t) /\ Guarded(t)
    BY Zenon DEF WInv, InPlace
  <2>2. /\ task'[t] = None /\ closing' \notin {"open", "stopping"} /\ loop'.pc # "store"
        /\ t \notin loop'.pending /\ loop.pc # "store" /\ closing # "open"
        /\ \A fd \in Fds : <<fd, t>> \notin mapped'
    BY Zenon, <1>1, <1>6
  <2>3. Over(t)'
    <3>1. ~Busy(t)'
      BY Zenon, <1>1 DEF Busy
    <3>2. result[t] # None => Over(t)
      BY Zenon, <2>1 DEF Phased, Tabled
    <3>3. closing' # "open"
      BY Zenon, <1>1
    <3> QED BY Zenon, <1>1, <2>2, <3>1, <3>2, <3>3 DEF Over
  <2>4. Phased(t)' /\ Mapped(t)' /\ Listed(t)' /\ Handing(t)'
    <3>1. "serialize" \in Fds /\ "inner_load" \in Fds /\ "deserialize" \in Fds
      BY Zenon DEF Fds
    <3> QED BY Zenon, <2>2, <2>3, <3>1 DEF Phased, Mapped, Listed, Handing
  <2>5. ASSUME NEW c \in ChunksOf[t], <<t, c>> \notin late PROVE Keeps(t, c)'
    <3>1. Keeps(t, c) /\ <<t, c>> \in Keys /\ <<t, c>> \notin leftover
      BY Zenon, <1>6, <2>1, <2>5, TempKeys DEF Guarded
    <3>2. CASE task[t] = None
      <4>1. Unheld(<<t, c>>) /\ <<t, c>> \notin K /\ <<t, c>> \notin L
        BY Zenon, <1>3, <3>1, <3>2 DEF Keeps
      <4> QED BY Zenon, <1>1, <1>4, <2>2, <3>1, <4>1 DEF Keeps, Same
    <3>3. CASE task[t] # None
      <4>1. Serializing(t) \/ Storing(t) \/ Loading(t) \/ Deserializing(t)
        BY Zenon, <2>1, <2>2, <3>3 DEF Phased, Tabled, Reserved, Handing
      <4>2. CASE Storing(t)
        <5>1. Readable(t) /\ <<t, c>> \notin K /\ <<t, c>> \in L
          BY Zenon, <1>3, <3>3, <4>2 DEF Storing, Readable
        <5> QED BY Zenon, <1>1, <1>4, <2>2, <3>1, <3>3, <5>1 DEF Keeps, Same
      <4>3. CASE Serializing(t) \/ Loading(t) \/ Deserializing(t)
        <5>1. ~Readable(t) /\ <<t, c>> \in K /\ <<t, c>> \notin L
          BY Zenon, <1>3, <3>3, <4>3, SerdeAssumption DEF Serializing, Loading, Deserializing, Readable, Begun
        <5> QED BY Zenon, <1>1, <1>4, <2>2, <3>1, <3>3, <5>1 DEF Keeps
      <4> QED BY Zenon, <4>1, <4>2, <4>3
    <3> QED BY Zenon, <3>2, <3>3
  <2>6. Guarded(t)'
    <3>1. closing' # "open"
      BY Zenon, <1>1
    <3> QED BY Zenon, <1>1, <2>5, <3>1 DEF Guarded
  <2> QED BY Zenon, <2>4, <2>6 DEF InPlace
<1> QED BY Zenon, <1>4, <1>5, <1>6, <1>7 DEF WInv

\* ... and at last the read locks of the stores that were under way.
LEMMA ReleaseReadsStep ==
    ASSUME WInv, ReleaseReads
    PROVE  WInv'
<1>1. /\ closing = "releasing" /\ closing' = "closed" /\ leftover' = {} /\ FinishRead(leftover, 1)
      /\ UNCHANGED <<task, serde, inner, mapped, events, loop, result, late>>
  BY Zenon DEF ReleaseReads
<1>2. L1Typed /\ TablesTyped /\ LoopSound
  BY Zenon DEF WInv
<1>3. leftover \in SUBSET Keys /\ loop.pc = "exited" /\ loop.pending = {} /\ LoopSound'
  BY Zenon, <1>1, <1>2 DEF LoopSound
<1>4. /\ L1Typed' /\ \A k \in Keys : k \notin leftover => Same(k)
      /\ \A k \in leftover : ReadHeld(k) => Unheld(k)'
  BY Zenon, <1>1, <1>2, <1>3, FinishReadTemps
<1>5. TablesTyped'
  BY Zenon, <1>1, <1>2 DEF TablesTyped
<1>6. ASSUME NEW t \in Tasks PROVE InPlace(t)'
  <2>1. Phased(t) /\ Mapped(t) /\ Handing(t) /\ Guarded(t)
    BY Zenon DEF WInv, InPlace
  <2>2. closing \notin {"open", "stopping"} /\ closing' \notin {"open", "stopping"} /\ closing' # "open"
    BY Zenon, <1>1
  <2>3. task[t] = None /\ Over(t)
    BY Zenon, <2>1, <2>2 DEF Phased, Tabled
  <2>4. Over(t)'
    BY Zenon, <1>1, <2>2, <2>3 DEF Over, Busy
  <2>5. t \notin loop.pending /\ loop.pc # "store"
    BY Zenon, <1>3
  <2>6. Phased(t)' /\ Mapped(t)' /\ Listed(t)' /\ Handing(t)'
    BY Zenon, <1>1, <2>1, <2>3, <2>4, <2>5 DEF Phased, Mapped, Listed, Handing
  <2>7. ASSUME NEW c \in ChunksOf[t], <<t, c>> \notin late PROVE Unheld(<<t, c>>)'
    <3>1. Keeps(t, c) /\ <<t, c>> \in Keys
      BY Zenon, <2>1, <2>7, TempKeys DEF Guarded
    <3> QED BY Zenon, <1>4, <2>3, <3>1 DEF Keeps, Same
  <2>8. Guarded(t)'
    <3>1. \A c \in ChunksOf[t] : <<t, c>> \notin leftover'
      BY Zenon, <1>1
    <3> QED BY Zenon, <1>1, <2>2, <2>3, <2>7, <3>1 DEF Guarded, Keeps
  <2> QED BY Zenon, <2>6, <2>8 DEF InPlace
<1> QED BY Zenon, <1>3, <1>4, <1>5, <1>6 DEF WInv

\* A TTL passes.
LEMMA ExpireStep ==
    ASSUME WInv, NEW k \in Keys, Expire(k)
    PROVE  WInv'
<1>1. /\ ExpireRead(k) \/ ExpireWrite(k, WriteTag)
      /\ late' = late \cup {k}
      /\ UNCHANGED <<task, serde, inner, mapped, events, loop, result, closing, leftover>>
  BY Zenon DEF Expire
<1>2. L1Typed /\ TablesTyped /\ LoopSound
  BY Zenon DEF WInv
<1>3. L1Typed' /\ ~Unheld(k) /\ \A j \in Keys : j # k => Same(j)
  BY Zenon, <1>1, <1>2, ExpireTemps
<1>4. \A j : j \in late' <=> j \in late \/ j = k
  BY Zenon, <1>1
<1>5. TablesTyped' /\ LoopSound'
  BY Zenon, <1>1, <1>2 DEF TablesTyped, LoopSound
<1>6. ASSUME NEW t \in Tasks PROVE InPlace(t)'
  <2>1. ASSUME NEW c \in ChunksOf[t]
        PROVE  /\ <<t, c>> \notin late' => Same(<<t, c>>) /\ <<t, c>> \notin late
               /\ <<t, c>> \in late' => <<t, c>> \in late \/ ~Unheld(<<t, c>>)
    BY Zenon, <1>3, <1>4, TempKeys
  <2>2. Unmoved(t)
    BY Zenon, <1>1, <2>1 DEF Unmoved
  <2> QED BY Zenon, <1>1, <1>2, <2>2, UnmovedStays DEF WInv
<1> QED BY Zenon, <1>3, <1>5, <1>6 DEF WInv

\* Eviction, and steps that change nothing.
LEMMA EvictStep ==
    ASSUME WInv, UNCHANGED wvars, (\E k \in Keys : Delete({k}, FALSE)) \/ UNCHANGED vars
    PROVE  WInv'
<1>1. UNCHANGED <<task, serde, inner, mapped, events, loop, result, closing, leftover, late>>
  BY Zenon DEF wvars
<1>2. L1Typed /\ TablesTyped /\ LoopSound
  BY Zenon DEF WInv
<1>3. L1Typed' /\ \A j \in Keys : Same(j)
  <2>1. CASE UNCHANGED vars
    <3>1. objects' = objects /\ staging' = staging
      BY Zenon, <2>1 DEF vars
    <3> QED BY Zenon, <1>2, <3>1, EntriesKept DEF L1Typed
  <2> QED BY Zenon, <1>2, <2>1, EvictTemps
<1>4. TablesTyped' /\ LoopSound'
  BY Zenon, <1>1, <1>2 DEF TablesTyped, LoopSound
<1>5. ASSUME NEW t \in Tasks PROVE InPlace(t)'
  <2>1. \A c \in ChunksOf[t] : Same(<<t, c>>)
    BY Zenon, <1>3, TempKeys
  <2>2. Unmoved(t)
    BY Zenon, <1>1, <2>1 DEF Unmoved
  <2> QED BY Zenon, <1>1, <1>2, <2>2, UnmovedStays DEF WInv
<1> QED BY Zenon, <1>3, <1>4, <1>5 DEF WInv

----------------------------------------------------------------------------
\* The theorems

\* A new wrapper over an empty L1 satisfies the invariant.
LEMMA WrapperStarts == WInit => WInv
<1> SUFFICES ASSUME WInit PROVE WInv
  BY Zenon
<1>1. /\ objects = [k \in Keys |-> None] /\ staging = [k \in Keys |-> [u \in Tags |-> None]]
      /\ task = [t \in Tasks |-> None] /\ result = [t \in Tasks |-> None]
      /\ serde = [t \in Tasks |-> NoJob] /\ inner = [t \in Tasks |-> NoJob]
      /\ mapped = {} /\ events = {} /\ loop = LoopAt("poll")
      /\ closing = "open" /\ leftover = {} /\ late = {}
  BY Zenon DEF WInit, Init
<1>2. L1Typed /\ TablesTyped
  BY Zenon, <1>1, JobsTyped DEF L1Typed, TablesTyped
<1>3. loop \in Loops /\ loop.pc = "poll" /\ loop.pending = {}
  BY Zenon, <1>1 DEF LoopAt, Loops
<1>4. LoopSound
  BY Zenon, <1>1, <1>3 DEF LoopSound
<1>5. ASSUME NEW t \in Tasks PROVE InPlace(t)
  <2>1. /\ task[t] = None /\ result[t] = None /\ serde[t] = NoJob /\ inner[t] = NoJob
        /\ NoJob.st = "none"
    BY Zenon, <1>1, JobsTyped
  <2>2. Over(t)
    BY Zenon, <2>1 DEF Over, Busy
  <2>3. /\ t \notin loop.pending /\ loop.pc # "store"
        /\ <<"serialize", t>> \notin mapped /\ <<"inner_load", t>> \notin mapped
        /\ <<"deserialize", t>> \notin mapped
    BY Zenon, <1>1, <1>3
  <2>4. Phased(t) /\ Mapped(t) /\ Listed(t) /\ Handing(t)
    BY Zenon, <2>1, <2>2, <2>3 DEF Phased, Mapped, Listed, Handing
  <2>5. ASSUME NEW c \in ChunksOf[t]
        PROVE  Unheld(<<t, c>>) /\ <<t, c>> \notin leftover /\ <<t, c>> \notin late
    <3>1. <<t, c>> \in Keys /\ WriteTag \in Tags
      BY Zenon, TempKeys, SerdeAssumption
    <3> QED BY Zenon, <1>1, <3>1 DEF Unheld, IsResident, IsStaged
  <2>6. Guarded(t)
    BY Zenon, <2>1, <2>5 DEF Guarded, Keeps
  <2> QED BY Zenon, <2>4, <2>6 DEF InPlace
<1> QED BY Zenon, <1>2, <1>4, <1>5 DEF WInv

\* Every step of the threads keeps the invariant.
LEMMA WrapperSteps == WInv /\ [WNext]_allvars => WInv'
<1> SUFFICES ASSUME WInv, [WNext]_allvars PROVE WInv'
  BY Zenon
<1>1. CASE \E t \in Tasks : Alloc(t) \/ AllocFails(t) \/ Submit(t) \/ SubmitRaises(t)
                            \/ SerdeDone(t) \/ InnerDone(t)
  BY Zenon, <1>1, AllocStep, AllocFailsStep, SubmitStep, SubmitRaisesStep, SerdeDoneStep, InnerDoneStep
<1>2. CASE Loop
  BY Zenon, <1>2, LoopSteps, InnerStoreStep, NotReadyStep, DrainSerializeStep, DrainInnerStoreStep,
     DrainInnerLoadStep, DrainDeserializeStep DEF Loop
<1>3. CASE Close \/ Release \/ ReleaseReads
  BY Zenon, <1>3, CloseStep, ReleaseStep, ReleaseReadsStep
<1>4. CASE \E k \in Keys : Expire(k) \/ Evict(k)
  BY Zenon, <1>4, ExpireStep, EvictStep DEF Evict
<1>5. CASE UNCHANGED allvars
  <2>1. UNCHANGED wvars /\ UNCHANGED vars
    BY Zenon, <1>5 DEF allvars
  <2> QED BY Zenon, <2>1, EvictStep
<1> QED BY Zenon, <1>1, <1>2, <1>3, <1>4, <1>5 DEF WNext

\* What the invariant says of the tasks.
LEMMA InvariantGives ==
    WInv => TempsInTimeAreHeld /\ NoTempLeaks /\ ReportedIsOver
<1> SUFFICES ASSUME WInv PROVE TempsInTimeAreHeld /\ NoTempLeaks /\ ReportedIsOver
  BY Zenon
<1>1. \A t \in Tasks : Phased(t) /\ Guarded(t)
  BY Zenon DEF WInv, InPlace
<1>2. TempsInTimeAreHeld
  <2> SUFFICES ASSUME NEW t \in Tasks, Busy(t), NEW c \in ChunksOf[t], <<t, c>> \notin late
               PROVE  /\ BufOf(<<t, c>>) = task[t].bufs[c]
                      /\ ReadLocked(<<t, c>>) \/ IsLive(<<t, c>>, WriteTag)
    BY Zenon DEF TempsInTimeAreHeld
  <2>1. task[t] # None /\ Keeps(t, c)
    BY Zenon, <1>1 DEF Phased, Over, Guarded
  <2>2. BufOf(<<t, c>>) = task[t].bufs[c] /\ (ReadHeld(<<t, c>>) \/ WriteHeld(<<t, c>>))
    BY Zenon, <2>1 DEF Keeps
  <2>3. ReadHeld(<<t, c>>) => ReadLocked(<<t, c>>)
    BY DEF ReadHeld, ReadLocked
  <2> QED BY Zenon, <2>2, <2>3 DEF WriteHeld
<1>3. NoTempLeaks
  <2> SUFFICES ASSUME NEW t \in Tasks, NEW c \in ChunksOf[t], BufOf(<<t, c>>) # None, task[t] = None,
                      <<t, c>> \notin leftover, <<t, c>> \notin late
               PROVE  FALSE
    <3>1. ASSUME NEW k \in Keys PROVE \E t \in Tasks : \E c \in ChunksOf[t] : k = <<t, c>> /\ k[1] = t
      BY SerdeAssumption DEF Temps
    <3> QED BY Zenon, <3>1 DEF NoTempLeaks
  <2>1. Unheld(<<t, c>>)
    BY Zenon, <1>1 DEF Guarded, Keeps
  <2> QED BY Zenon, <2>1 DEF Unheld, BufOf
<1>4. ReportedIsOver
  <2> SUFFICES ASSUME NEW t \in Tasks, result[t] # None
               PROVE  /\ ~Busy(t) /\ task[t] = None
                      /\ result[t] \subseteq inner[t].ok
                      /\ result[t] # {} => serde[t].ok # {}
    BY Zenon DEF ReportedIsOver
  <2> QED BY Zenon, <1>1 DEF Phased, Tabled, Over
<1> QED BY Zenon, <1>2, <1>3, <1>4

\* The pool and the inner adapter only touch buffers that L1 still holds, locked,
\* for their task, unless a TTL passed (TempsInTimeAreHeld): submit_*_task, the
\* drains and close() release a buffer after its last use.
THEOREM TempsInTimeStayHeld == WSpec => []TempsInTimeAreHeld
BY WrapperStarts, WrapperSteps, InvariantGives, PTL DEF WSpec

\* No path of the wrapper, close() included, loses a temporary buffer (NoTempLeaks).
THEOREM NoTempIsLost == WSpec => []NoTempLeaks
BY WrapperStarts, WrapperSteps, InvariantGives, PTL DEF WSpec

\* A reported task is over, and what is reported of it went through both stages
\* (ReportedIsOver).
THEOREM ReportsAreFinal == WSpec => []ReportedIsOver
BY WrapperStarts, WrapperSteps, InvariantGives, PTL DEF WSpec
=============================================================================
