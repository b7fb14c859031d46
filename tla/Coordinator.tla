---------------------------- MODULE Coordinator ----------------------------
(***************************************************************************)
(* The coordinator's view of the fleet: MP servers publish cache events to *)
(* one Kafka partition each, the poll thread offers every record to the    *)
(* event gate, and the gate hands what it admits to two consumers, the key *)
(* directory and the usage view.  The event loop registers servers, and    *)
(* drops the ones that leave, time out or never come back after a restore. *)
(* A third thread captures a checkpoint while ingest is quiesced.          *)
(*                                                                         *)
(* Three locks meet here: the quiesce, the gate's own lock (held across    *)
(* the fan-out) and each consumer's.  A step below is what one thread does *)
(* between two points where another thread can run, so an admitted batch   *)
(* is two steps (directory, then usage), and a capture is one per section. *)
(***************************************************************************)
EXTENDS Naturals, Sequences, FiniteSets

CONSTANTS Instances,       \* ids of the MP servers
          Keys,            \* object keys they report
          MaxInc,          \* bound: incarnations of one server
          MaxSeq,          \* bound: batches flushed by one incarnation
          MaxCrashes,      \* bound: coordinator restarts
          MayLose,         \* may the producer refuse a batch?
          MayLeave,        \* may servers deregister or time out?
          LeaveUnheard,    \* ... before any batch of theirs was admitted?
          HasCheckpoint,   \* is a checkpoint path configured?
          None             \* Python's None

Tiers == {"l1", "l2"}
Incs == 1..MaxInc
Batches == [inc : Incs, seq : 1..MaxSeq, type : {"store", "delete"},
            tier : Tiers, key : Keys, lost : 0..MaxSeq]
Cursors == [inc : Incs, seq : 1..MaxSeq, gap : BOOLEAN,
            lost : 0..MaxSeq]
Placements == [inst : Instances, inc : Incs, tier : Tiers, key : Keys]
Ids == [inst : Instances, tier : Tiers, key : Keys]
\* What a checkpoint holds.
Sections == [cursors : [Instances -> Cursors \cup {None}],
             directory : SUBSET Placements,
             index : [Instances -> SUBSET Keys], usage : SUBSET Ids,
             position : [Instances -> Nat]]

ASSUME CoordinatorAssumptions ==
    /\ MaxInc \in Nat \ {0} /\ MaxSeq \in Nat /\ MaxCrashes \in Nat
    /\ {MayLose, MayLeave, LeaveUnheard, HasCheckpoint} \subseteq BOOLEAN
    /\ None \notin Instances /\ None \notin Cursors /\ None \notin Sections

VARIABLES
    srv,         \* each server: process, emitter and registration client
    log,         \* each server's partition: the records Kafka retains
    fetched,     \* records of each partition the poll thread has taken
    feed,        \* the poll thread: where it is, and with which server
    cursors,     \* EventGate._cursors
    departed,    \* EventGate._departed (0: no entry)
    directory,   \* KeyDirectory._directory, as a set of placements
    l1Keys,      \* KeyDirectory._l1_keys_by_instance
    usage,       \* CacheUsageManager._placement_sizes, as a set of ids
    position,    \* StreamPosition._offsets (0: none recorded)
    registered,  \* InstanceRegistry._instances
    restored,    \* restored_instances of the health loop
    drops,       \* servers the event loop is about to drop
    dropping,    \* the one it is dropping, holding the gate's lock
    cap,         \* the checkpoint thread: pc and the sections captured
    ckpt,        \* the stored checkpoint (None: no file)
    crashes,     \* coordinator restarts so far
    gone         \* history: the incarnation dropped last (0: none since)

gate == <<cursors, departed>>
views == <<directory, l1Keys, usage>>
source == <<fetched, feed, position>>
loop == <<registered, restored, drops, dropping>>
disk == <<cap, ckpt, crashes>>
fleet == <<srv, log>>
cvars == <<srv, log, fetched, feed, cursors, departed, directory, l1Keys,
           usage, position, registered, restored, drops, dropping, cap,
           ckpt, crashes, gone>>

IdOf(p) == [inst |-> p.inst, tier |-> p.tier, key |-> p.key]
L1Of(dir, i) == {p \in dir : p.inst = i /\ p.tier = "l1"}
KeysOf(dir, i, tier) ==
    {p.key : p \in {q \in dir : q.inst = i /\ q.tier = tier}}

\* A thread is between QuiesceLock.applying's entry and its exit; both
\* callers also hold the gate's lock all that time.
InFlight == feed.pc = "usage" \/ dropping # None
\* The mutated form: the request is not cleared after a capture.
QuiesceRequestedMutant == cap.pc # "idle" \/ ckpt # None
QuiesceRequested == cap.pc \in {"wait", "directory", "usage", "position"}
\* The mutated form of CanApply: ingest only waits for the gate's lock.
CanApplyMutant == ~InFlight
CanApply == ~InFlight /\ ~QuiesceRequested

Empty == [cursors   |-> [i \in Instances |-> None],
          directory |-> {},
          index     |-> [i \in Instances |-> {}],
          usage     |-> {},
          position  |-> [i \in Instances |-> 0]]
NewServer == [up |-> TRUE, inc |-> 1, seq |-> 0, lost |-> 0, l1 |-> {},
              l2 |-> {}, joined |-> FALSE, leaving |-> FALSE]

CInit ==
    /\ srv = [i \in Instances |-> NewServer]
    /\ log = [i \in Instances |-> << >>]
    /\ fetched = [i \in Instances |-> 0]
    /\ feed = [pc |-> "poll", inst |-> None, fence |-> FALSE]
    /\ cursors = Empty.cursors /\ departed = [i \in Instances |-> 0]
    /\ directory = {} /\ usage = {}
    /\ l1Keys = [i \in Instances |-> {}]
    /\ position = Empty.position
    /\ registered = {} /\ restored = {} /\ drops = {} /\ dropping = None
    /\ cap = [pc |-> "idle", saved |-> Empty] /\ ckpt = None
    /\ crashes = 0 /\ gone = [i \in Instances |-> 0]

----------------------------------------------------------------------------
(* MP servers.                                                             *)

\* What an event does to the server's own tiers: only real changes are
\* reported, a store of an absent key or a delete of a present one.
Changed(held, type, key) ==
    IF type = "store" THEN held \cup {key} ELSE held \ {key}
IsChange(held, type, key) == (type = "store") = (key \notin held)

\* CacheEventSubscriber.flush of one pending batch: the sequence number is
\* consumed whether or not the sink accepts the batch, and the stamped drop
\* count is the one read before publishing.
Flush(i, type, tier, key, delivered) ==
    LET s == srv[i]
        b == [inc |-> s.inc, seq |-> s.seq + 1, type |-> type,
              tier |-> tier, key |-> key, lost |-> s.lost]
    IN /\ srv' = [srv EXCEPT
            ![i].seq = s.seq + 1,
            ![i].lost = IF delivered THEN @ ELSE @ + 1,
            ![i].l1 = IF tier = "l1" THEN Changed(@, type, key) ELSE @,
            ![i].l2 = IF tier = "l2" THEN Changed(@, type, key) ELSE @]
       /\ log' = IF delivered THEN [log EXCEPT ![i] = Append(@, b)] ELSE log

Emit(i) ==
    /\ srv[i].up /\ srv[i].seq < MaxSeq
    /\ \E type \in {"store", "delete"}, tier \in Tiers, key \in Keys,
          delivered \in {TRUE} \cup {~MayLose} :
            /\ IsChange(IF tier = "l1" THEN srv[i].l1 ELSE srv[i].l2,
                        type, key)
            /\ Flush(i, type, tier, key, delivered)
    /\ UNCHANGED <<source, gate, views, loop, disk, gone>>

\* The process ends: killed, or cleanly, when keep_registered still sends
\* its DELETE if it had registered.  Its memory, hence its L1, is gone.
Exit(i) ==
    /\ srv[i].up
    /\ \E clean \in BOOLEAN :
         srv' = [srv EXCEPT ![i].up = FALSE, ![i].l1 = {},
                            ![i].leaving = clean /\ srv[i].joined,
                            ![i].joined = FALSE]
    /\ UNCHANGED <<log, source, gate, views, loop, disk, gone>>

\* A restarted process: a later incarnation, a sequence from zero.
Restart(i) ==
    /\ ~srv[i].up /\ srv[i].inc < MaxInc
    /\ srv' = [srv EXCEPT ![i] = [NewServer EXCEPT !.inc = srv[i].inc + 1,
                                                   !.l2 = srv[i].l2]]
    /\ UNCHANGED <<log, source, gate, views, loop, disk, gone>>

\* A heartbeat the coordinator answers with 404.
Forgotten(i) ==
    /\ srv[i].up /\ srv[i].joined /\ i \notin registered
    /\ drops = {}
    /\ srv' = [srv EXCEPT ![i].joined = FALSE]
    /\ UNCHANGED <<log, source, gate, views, loop, disk, gone>>

----------------------------------------------------------------------------
(* The event gate and its consumers.                                       *)

\* The cursor a batch is measured against: a new one for a stream not
\* tracked, and for a later incarnation.  lost = None: history unknown.
BaseCursor(c, b) ==
    IF c # None /\ b.inc = c.inc THEN c
    ELSE [inc |-> b.inc, seq |-> 0, gap |-> FALSE,
          lost |-> IF c # None \/ b.seq = 1 THEN 0 ELSE None]

\* Mutated forms of Advanced: a loss leaves no mark; the drop count of the
\* batch is not remembered.
AdvancedMutant(c, b) ==
    [inc |-> b.inc, seq |-> b.seq, lost |-> b.lost,
     gap |-> BaseCursor(c, b).gap]

\* EventGate._admit's loss accounting, which leaves the cursor at b.
Advanced(c, b) ==
    LET base == BaseCursor(c, b)
        missed == b.seq > base.seq + 1
        reported == base.lost # None /\ b.lost > base.lost
    IN [inc |-> b.inc, seq |-> b.seq, lost |-> b.lost,
        gap |-> base.gap \/ missed \/ reported]

\* EventGate._admit's verdict, given what departed and the cursors say.
RefusedMutant(dep, b) == dep # 0 /\ b.inc < dep /\ b.tier = "l1"
Refused(dep, b) == dep # 0 /\ b.inc <= dep /\ b.tier = "l1"
Stale(c, b) == c # None /\ (b.inc < c.inc \/ (b.inc = c.inc /\ b.seq <= c.seq))
Restarted(c, b) == c # None /\ b.inc > c.inc

\* KeyDirectory.fence_instance: the L1 placements the reverse index names.
Fenced(dir, i) == {p \in dir : ~(p \in L1Of(dir, i) /\ p.key \in l1Keys[i])}

\* KeyDirectory._apply_entry: a store replaces the placement of the same
\* identity, a delete removes it.
Applied(dir, i, b) ==
    LET others == {p \in dir :
            IdOf(p) # [inst |-> i, tier |-> b.tier, key |-> b.key]}
    IN IF b.type = "delete" THEN others
       ELSE others \cup {[inst |-> i, inc |-> b.inc, tier |-> b.tier,
                          key |-> b.key]}

\* ... and the reverse index it maintains.
IndexedMutant(held, b) ==
    IF b.type = "delete" \/ b.tier = "l1" THEN Changed(held, b.type, b.key)
    ELSE held
Indexed(held, b) ==
    IF b.tier = "l1" THEN Changed(held, b.type, b.key) ELSE held

\* KafkaCacheEventSource._ingest of the next record: EventGate.ingest, up
\* to the point where the directory has consumed the batch.
Ingest(i) ==
    /\ feed.pc = "poll" /\ fetched[i] < Len(log[i])
    /\ CanApply
    /\ LET b == log[i][fetched[i] + 1]
           dep == IF b.inc > departed[i] THEN 0 ELSE departed[i]
           c == cursors[i]
           restart == Restarted(c, b)
           base == IF restart THEN Fenced(directory, i) ELSE directory
           held == IF restart THEN {} ELSE l1Keys[i]
       IN /\ departed' = [departed EXCEPT ![i] = dep]
          /\ gone' = IF b.inc > gone[i] THEN [gone EXCEPT ![i] = 0] ELSE gone
          /\ IF Refused(dep, b) \/ Stale(c, b)
             THEN /\ feed' = [pc |-> "record", inst |-> i, fence |-> FALSE]
                  /\ UNCHANGED <<cursors, directory, l1Keys>>
             ELSE /\ feed' = [pc |-> "usage", inst |-> i, fence |-> restart]
                  /\ cursors' = [cursors EXCEPT ![i] = Advanced(c, b)]
                  /\ directory' = Applied(base, i, b)
                  /\ l1Keys' = [l1Keys EXCEPT ![i] = Indexed(held, b)]
    /\ UNCHANGED <<fleet, usage, fetched, position, loop, disk>>

\* CacheUsageManager.fence_instance and consume, which end the batch.
FencedUsageMutant(ids, i) == {u \in ids : u.inst # i}
FencedUsage(ids, i) == {u \in ids : ~(u.inst = i /\ u.tier = "l1")}
ConsumeUsage ==
    /\ feed.pc = "usage"
    /\ LET i == feed.inst
           b == log[i][fetched[i] + 1]
           base == IF feed.fence THEN FencedUsage(usage, i) ELSE usage
       IN usage' = Changed(base, b.type,
                           [inst |-> i, tier |-> b.tier, key |-> b.key])
    /\ feed' = [feed EXCEPT !.pc = "record"]
    /\ UNCHANGED <<fleet, fetched, gate, directory, l1Keys, position, loop,
                   disk, gone>>

\* StreamPosition.record, outside the quiesce, whatever became of the batch.
RecordPosition ==
    /\ feed.pc = "record"
    /\ fetched' = [fetched EXCEPT ![feed.inst] = @ + 1]
    /\ position' = [position EXCEPT ![feed.inst] = fetched[feed.inst] + 1]
    /\ feed' = [pc |-> "poll", inst |-> None, fence |-> FALSE]
    /\ UNCHANGED <<fleet, gate, views, loop, disk, gone>>

----------------------------------------------------------------------------
(* The event loop: one handler or health pass at a time.                   *)

\* register_instance: the registry first, then readmit_instance, which
\* takes the gate's lock but not the quiesce.
Register(i) ==
    /\ srv[i].up /\ ~srv[i].joined
    /\ drops = {} /\ ~InFlight
    /\ registered' = registered \cup {i}
    /\ departed' = [departed EXCEPT ![i] = 0]
    /\ gone' = [gone EXCEPT ![i] = 0]
    /\ srv' = [srv EXCEPT ![i].joined = TRUE]
    /\ UNCHANGED <<log, source, cursors, views, restored, drops, dropping,
                   disk>>

\* An instance the configuration lets go.
MayGo(i) == MayLeave /\ (LeaveUnheard \/ cursors[i] # None)

\* deregister_instance, for the DELETE an ending process sent.
Deregister(i) ==
    /\ srv[i].leaving /\ drops = {} /\ MayGo(i)
    /\ srv' = [srv EXCEPT ![i].leaving = FALSE]
    /\ registered' = registered \ {i}
    /\ drops' = {i}
    /\ UNCHANGED <<log, source, gate, views, restored, dropping, disk, gone>>

\* One health pass: the servers whose heartbeats ended, and, once the
\* deadline is over, the restored ones that are not registered.
UnreturnedMutant(reg) == {}
Unreturned(reg) == restored \ reg
HealthPass ==
    /\ drops = {}
    /\ \E stale \in SUBSET {i \in registered : MayGo(i)},
          overdue \in BOOLEAN :
            /\ registered' = registered \ stale
            /\ drops' = stale \cup
                 (IF overdue THEN Unreturned(registered \ stale) ELSE {})
            /\ restored' = IF overdue THEN {} ELSE restored
            /\ stale # {} \/ (overdue /\ restored # {})
    /\ UNCHANGED <<fleet, source, gate, views, dropping, disk, gone>>

\* EventGate.drop_instance: the consumers are fenced in turn, then the
\* cursor is forgotten and its incarnation, if there was one, remembered.
DropDirectory(i) ==
    /\ i \in drops /\ CanApply
    /\ dropping' = i
    /\ directory' = Fenced(directory, i)
    /\ l1Keys' = [l1Keys EXCEPT ![i] = {}]
    /\ UNCHANGED <<fleet, source, gate, usage, registered, restored, drops,
                   disk, gone>>

DropUsage ==
    /\ dropping # None
    /\ LET i == dropping
           c == cursors[i]
           inc == IF c = None THEN srv[i].inc ELSE c.inc
       IN /\ usage' = FencedUsage(usage, i)
          /\ cursors' = [cursors EXCEPT ![i] = None]
          /\ departed' = IF c = None THEN departed
                         ELSE [departed EXCEPT ![i] = c.inc]
          /\ gone' = [gone EXCEPT ![i] = inc]
          /\ drops' = drops \ {i}
    /\ dropping' = None
    /\ UNCHANGED <<fleet, source, directory, l1Keys, registered, restored,
                   disk>>

----------------------------------------------------------------------------
(* The checkpoint thread, and a restart of the coordinator.                *)

At(pc) == [cap EXCEPT !.pc = pc]
Saved(pc, section, value) ==
    [pc |-> pc, saved |-> [cap.saved EXCEPT ![section] = value]]

\* quiesced() raises the request, waits for the batch in flight, and gives
\* up after a timeout.
RequestQuiesce ==
    /\ HasCheckpoint /\ cap.pc = "idle"
    /\ cap' = At("wait")
    /\ UNCHANGED <<fleet, source, gate, views, loop, ckpt, crashes, gone>>

QuiesceTimeout ==
    /\ cap.pc = "wait" /\ InFlight
    /\ cap' = [pc |-> "idle", saved |-> Empty]
    /\ UNCHANGED <<fleet, source, gate, views, loop, ckpt, crashes, gone>>

\* KeyDirectory.capture writes the reverse index as positions in the list
\* of keys, so it keeps only keys with a placement.
KnownIndex ==
    [i \in Instances |-> {k \in l1Keys[i] : \E p \in directory : p.key = k}]

\* The components in their order: gate, views, stream position.
CaptureGate ==
    /\ cap.pc = "wait" /\ ~InFlight
    /\ cap' = Saved("directory", "cursors", cursors)
    /\ UNCHANGED <<fleet, source, gate, views, loop, ckpt, crashes, gone>>

CaptureDirectory ==
    /\ cap.pc = "directory"
    /\ cap' = [pc |-> "usage",
               saved |-> [cap.saved EXCEPT !.directory = directory,
                                           !.index = KnownIndex]]
    /\ UNCHANGED <<fleet, source, gate, views, loop, ckpt, crashes, gone>>

CaptureUsage ==
    /\ cap.pc = "usage"
    /\ cap' = Saved("position", "usage", usage)
    /\ UNCHANGED <<fleet, source, gate, views, loop, ckpt, crashes, gone>>

CapturePosition ==
    /\ cap.pc = "position"
    /\ cap' = Saved("write", "position", position)
    /\ UNCHANGED <<fleet, source, gate, views, loop, ckpt, crashes, gone>>

\* The file is replaced atomically, or the write fails and it is kept.
WriteCheckpoint ==
    /\ cap.pc = "write"
    /\ \E ok \in BOOLEAN : ckpt' = IF ok THEN cap.saved ELSE ckpt
    /\ cap' = [pc |-> "idle", saved |-> Empty]
    /\ UNCHANGED <<fleet, source, gate, views, loop, crashes, gone>>

\* KafkaCacheEventSource._on_assign: one past the recorded offset, or the
\* beginning of the partition.
ResumeAt(from) == from.position
\* The instances the health loop expects back: the restored cursors'.
Expected(from) == {i \in Instances : from.cursors[i] # None}

\* The process dies and a new one restores the checkpoint, if there is one,
\* before it serves: the consumer resumes after the restored position, and
\* neither membership nor the departed incarnations are kept.
CrashAndRestore ==
    /\ crashes < MaxCrashes
    /\ crashes' = crashes + 1
    /\ LET from == IF ckpt = None THEN Empty ELSE ckpt
       IN /\ cursors' = from.cursors
          /\ directory' = from.directory
          /\ l1Keys' = from.index
          /\ usage' = from.usage
          /\ position' = from.position
          /\ fetched' = ResumeAt(from)
          /\ restored' = Expected(from)
    /\ departed' = [i \in Instances |-> 0]
    /\ feed' = [pc |-> "poll", inst |-> None, fence |-> FALSE]
    /\ registered' = {} /\ drops' = {} /\ dropping' = None
    /\ cap' = [pc |-> "idle", saved |-> Empty]
    /\ UNCHANGED <<fleet, ckpt, gone>>

Server(i) == Emit(i) \/ Exit(i) \/ Restart(i) \/ Forgotten(i)
Handler(i) == Register(i) \/ Deregister(i)
Checkpoint ==
    \/ RequestQuiesce \/ QuiesceTimeout \/ CaptureGate \/ CaptureDirectory
    \/ CaptureUsage \/ CapturePosition \/ WriteCheckpoint

CNext ==
    \/ \E i \in Instances :
         Server(i) \/ Handler(i) \/ Ingest(i) \/ DropDirectory(i)
    \/ ConsumeUsage \/ RecordPosition \/ HealthPass \/ DropUsage
    \/ Checkpoint \/ CrashAndRestore

CSpec == CInit /\ [][CNext]_cvars

\* Threads keep running.  A capture asks for the quiesce once per interval,
\* far longer than the quiesce lasts, so a parked thread gets its turn:
\* strong fairness for the two steps that wait for it.
FairCSpec ==
    /\ CSpec
    /\ WF_cvars(ConsumeUsage) /\ WF_cvars(RecordPosition)
    /\ WF_cvars(DropUsage)
    /\ WF_cvars(HealthPass /\ restored # restored')
    /\ WF_cvars(Checkpoint /\ cap.pc # "idle")
    /\ \A i \in Instances : SF_cvars(Ingest(i)) /\ SF_cvars(DropDirectory(i))

----------------------------------------------------------------------------
(* Properties.                                                             *)

\* Every variable keeps its type: in particular a cursor always stands at a
\* batch that was flushed, and the drop count it remembers is known.
TypeOKC ==
    /\ srv \in [Instances -> [up : BOOLEAN, inc : Incs, seq : 0..MaxSeq,
                              lost : 0..MaxSeq, l1 : SUBSET Keys,
                              l2 : SUBSET Keys, joined : BOOLEAN,
                              leaving : BOOLEAN]]
    /\ \A i \in Instances : \A n \in 1..Len(log[i]) : log[i][n] \in Batches
    /\ feed \in [pc : {"poll", "usage", "record"},
                 inst : Instances \cup {None}, fence : BOOLEAN]
    /\ [cursors |-> cursors, directory |-> directory, index |-> l1Keys,
        usage |-> usage, position |-> position] \in Sections
    /\ departed \in [Instances -> 0..MaxInc]
    /\ gone \in [Instances -> 0..MaxInc]
    /\ l1Keys \in [Instances -> SUBSET Keys]
    /\ fetched \in [Instances -> 0..(MaxInc * MaxSeq)]
    /\ registered \subseteq Instances /\ restored \subseteq Instances
    /\ drops \subseteq Instances /\ dropping \in Instances \cup {None}
    /\ cap.saved \in Sections /\ ckpt \in Sections \cup {None}
    /\ crashes \in 0..MaxCrashes

\* Consumers agree: between two batches, and in every checkpoint on disk,
\* the usage view accounts exactly for the placements the directory
\* advertises.  save_checkpoint quiesces ingest because "that is the only
\* way the sections agree with each other".
ViewsAgree ==
    /\ ~InFlight => usage = {IdOf(p) : p \in directory}
    /\ ckpt # None => ckpt.usage = {IdOf(p) : p \in ckpt.directory}

\* The gap flag is complete: once the gate has admitted the last batch a
\* running server flushed and has not flagged its stream, the directory
\* shows exactly the keys in that server's L1, through lost batches, drops,
\* re-registrations and coordinator restarts.
UnflaggedL1IsExact ==
    ~InFlight =>
        \A i \in Instances :
            (/\ srv[i].up /\ cursors[i] # None /\ ~cursors[i].gap
             /\ cursors[i].inc = srv[i].inc /\ cursors[i].seq = srv[i].seq)
            => KeysOf(directory, i, "l1") = srv[i].l1

\* ingest.md says of the gap flag that it "marks the emitter's slice as
\* stale until the stream is replayed".  The slice includes L2 placements,
\* which outlive an incarnation: a step that consumes a stream's last record
\* may clear the flag only if the directory then shows that server's L2.
StaleSliceStaysFlagged ==
    [][\A i \in Instances :
        (/\ cursors[i] # None /\ cursors'[i] # None
         /\ cursors[i].gap /\ ~cursors'[i].gap
         /\ fetched[i] + 1 = Len(log[i]))
        => KeysOf(directory', i, "l2") = srv[i].l2]_cvars

\* ingest.md on EventGate.drop_instance: it "remembers the dropped
\* incarnation: a late L1 batch from it is dropped".  Hence no L1 placement
\* of a dropped incarnation appears until the server registers again or
\* reports under a later one.
LateBatchIsRefused ==
    ~InFlight =>
        \A p \in directory : p.tier = "l1" => p.inc > gone[p.inst]

\* Every advertised L1 placement can still be fenced: the gate has a cursor
\* of the incarnation that reported it, so a restart or a drop is noticed,
\* and the directory's reverse index names it, so the fence removes it.  Nor
\* is it of an incarnation that was fenced already (EventGate.drop_instance).
PlacementIsFenceable ==
    /\ ~InFlight =>
         \A p \in directory : p.tier = "l1" =>
             /\ cursors[p.inst] # None /\ cursors[p.inst].inc = p.inc
             /\ p.key \in l1Keys[p.inst]
    /\ LateBatchIsRefused

\* A checkpoint is a snapshot: until its last section is captured, every
\* section captured so far still equals the live state, so cursors, both
\* views and the stream position are those of one moment, although ingest,
\* drops and registrations go on in other threads.
CheckpointIsSnapshot ==
    /\ cap.pc \in {"directory", "usage", "position"} =>
         cap.saved.cursors = cursors
    /\ cap.pc \in {"usage", "position"} =>
         cap.saved.directory = directory /\ cap.saved.index = KnownIndex
    /\ cap.pc = "position" => cap.saved.usage = usage

\* The poll thread reaches the end of every partition although captures
\* keep parking it: quiesced() always releases the request.
StreamIsConsumed ==
    \A i \in Instances : []<>(position[i] = Len(log[i]))

\* A server restored from a checkpoint is not advertised for ever: it
\* registers again, or its L1 placements are fenced by the health loop.
RestoredIsSettled ==
    \A i \in Instances :
        (i \in restored) ~> (i \in registered \/ L1Of(directory, i) = {})
============================================================================
