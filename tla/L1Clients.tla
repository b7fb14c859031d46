------------------------------ MODULE L1Clients ------------------------------
(***************************************************************************)
(* The callers of L1Manager: writers that reserve a buffer, fill it and    *)
(* finish, readers that lock an object, copy it and finish, and eviction.  *)
(* A client may outlive its lock's TTL without noticing, or vanish.        *)
(* L1Manager identifies a reservation by (key, tag) and a read lock by the *)
(* key alone: a finish call does not say whose reservation it ends.        *)
(***************************************************************************)
EXTENDS L1Manager

CONSTANTS Writers, Readers,
          TagOf,        \* the tag each writer passes
          LateFinish    \* the clients that may call finish after their TTL passed

VARIABLES writer, reader   \* what each client is doing: None, or its access

cvars == <<vars, writer, reader>>

\* buf: the buffer the client was given; late: its lock expired meanwhile.
Accesses == [key : Keys, buf : Bufs, late : BOOLEAN]

CInit == Init /\ writer = [w \in Writers |-> None] /\ reader = [r \in Readers |-> None]

TypeOKC ==
    /\ TypeOK
    /\ writer \in [Writers -> Accesses \cup {None}]
    /\ reader \in [Readers -> Accesses \cup {None}]

----------------------------------------------------------------------------

\* reserve_write([k], tag): the caller gets the new or the handed over buffer.
BeginWrite(w, k) ==
    /\ writer[w] = None
    /\ {k} \cap (NeedToAllocate({k}, TagOf[w]) \cup HandedOver({k}, TagOf[w])) # {}
    /\ ReserveWrite({k}, {}, TagOf[w], 1)
    /\ writer' = [writer EXCEPT ![w] =
                     [key |-> k, buf |-> staging'[k][TagOf[w]].buf, late |-> FALSE]]
    /\ UNCHANGED reader

\* finish_write([k], tag), whether or not it succeeds.
EndWrite(w) ==
    /\ writer[w] # None
    /\ writer[w].late => w \in LateFinish
    /\ FinishWrite({writer[w].key}, TagOf[w])
    /\ writer' = [writer EXCEPT ![w] = None]
    /\ UNCHANGED reader

BeginRead(r, k) ==
    /\ reader[r] = None
    /\ IsResident(k)
    /\ ReserveRead({k}, 1)
    /\ reader' = [reader EXCEPT ![r] =
                     [key |-> k, buf |-> objects[k].buf, late |-> FALSE]]
    /\ UNCHANGED writer

EndRead(r) ==
    /\ reader[r] # None
    /\ reader[r].late => r \in LateFinish
    /\ FinishRead({reader[r].key}, 1)
    /\ reader' = [reader EXCEPT ![r] = None]
    /\ UNCHANGED writer

\* A client dies without finishing.
Vanish ==
    /\ \/ \E w \in Writers : writer[w] # None /\ writer' = [writer EXCEPT ![w] = None] /\ UNCHANGED reader
       \/ \E r \in Readers : reader[r] # None /\ reader' = [reader EXCEPT ![r] = None] /\ UNCHANGED writer
    /\ UNCHANGED vars

Late(access, expired) ==
    [c \in DOMAIN access |->
        IF access[c] # None /\ expired[c] THEN [access[c] EXCEPT !.late = TRUE] ELSE access[c]]

\* The lock of an object is one TTL for all its readers: they lapse together.
LapseRead(k) ==
    /\ ExpireRead(k)
    /\ reader' = Late(reader, [r \in Readers |-> reader[r] # None /\ reader[r].key = k])
    /\ UNCHANGED writer

LapseWrite(k, t) ==
    /\ ExpireWrite(k, t)
    /\ writer' = Late(writer, [w \in Writers |-> writer[w] # None /\ writer[w].key = k /\ TagOf[w] = t])
    /\ UNCHANGED reader

Evict(k) == Delete({k}, FALSE) /\ UNCHANGED <<writer, reader>>

CNext ==
    \/ \E w \in Writers : EndWrite(w) \/ \E k \in Keys : BeginWrite(w, k)
    \/ \E r \in Readers : EndRead(r) \/ \E k \in Keys : BeginRead(r, k)
    \/ Vanish
    \/ \E k \in Keys : LapseRead(k) \/ Evict(k) \/ \E t \in Tags : LapseWrite(k, t)

CSpec == CInit /\ [][CNext]_cvars

----------------------------------------------------------------------------
\* Properties

\* A writer whose write lock has not expired still owns the buffer it fills:
\* it is staged for that writer's key and tag, so nobody reads it, nobody
\* else fills it and it is not freed, whatever the other writers, the readers
\* and eviction did since (reserve_write, _take_staging, _reclaim_staging).
WriterKeepsReservation ==
    \A w \in Writers : writer[w] # None /\ ~writer[w].late =>
        LET k == writer[w].key IN
        IsStaged(k, TagOf[w]) /\ staging[k][TagOf[w]].buf = writer[w].buf

\* A reader whose read lock has not expired reads the object it locked: it is
\* still resident, in the same buffer (reserve_read, finish_read, delete).
ReaderKeepsObject ==
    \A r \in Readers : reader[r] # None /\ ~reader[r].late =>
        IsResident(reader[r].key) /\ objects[reader[r].key].buf = reader[r].buf

\* An expired reservation is abandoned: finish_write on it returns
\* KEY_IN_WRONG_STATE and leaves it in place.
LateFinishIsRefused ==
    [][\A w \in Writers : EndWrite(w) /\ writer[w].late => UNCHANGED vars]_cvars
=============================================================================
