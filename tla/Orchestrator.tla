----------------------------- MODULE Orchestrator -----------------------------
(***************************************************************************)
(* The memory orchestrator around its RegionState: the gRPC servicer with  *)
(* its reply windows (service.py), the MP servers' clients with their      *)
(* retries (client.py), and the orchestrator processes with the startup    *)
(* marker that fences a region between them (server.py). A request attempt *)
(* may be served late, after the client sent another, or never; a reply    *)
(* may be lost; clients and orchestrators crash and restart.               *)
(***************************************************************************)
EXTENDS RegionState

CONSTANTS Procs,          \* orchestrator processes, named by pid
          Torn,           \* a marker file created but not yet written
          WindowSize,     \* replies recorded per client incarnation
          MaxCalls, MaxRestarts, MaxEpoch,   \* bounds of the instance
          WriteBatches, ReadBatches, \* batches the MP servers send
          LateAttempts    \* an attempt may be served after its channel is gone

VARIABLES proc,      \* Procs -> how far each process is in serve()
          marker,    \* the startup marker: None, Torn or the process it names
          epoch,     \* epoch of the serving region; each start draws a new one
          mp,        \* Clients -> the MP server process and its client object
          net,       \* requests of which an attempt may still arrive
          windows,   \* Clients -> replies recorded for the registered incarnation
          ran,       \* history: requests executed by this orchestrator
          sent,      \* calls sent so far
          rerun,     \* history: those executed again before their client closed
          acked      \* history: grants whose finish_write was answered OK

ovars == <<rvars, proc, marker, epoch, mp, net, windows, ran, rerun, acked, sent>>

\* What a client was granted: an extent to fill, or to read under a lease.
Grant == [epoch : Nat, key : Keys, off : Nat, shape : Shapes, token : Tokens]

\* A request, with its argument; a reply; the window of a registered client.
RequestOf(ops, args) ==
    [client : Clients, inc : Incarnations, id : Nat \ {0}, epoch : Nat, op : ops, arg : args]

Request ==
    RequestOf({"Register", "Close"}, {None}) \cup RequestOf({"ReserveWrite"}, WriteBatches)
    \cup RequestOf({"ReserveRead"}, ReadBatches) \cup RequestOf(Ops, Grant)

Reply == [status : {"OK", "STALE_TOKEN", "ERROR"}, grants : SUBSET Grant]

Window == [inc : Incarnations, replies : Seq([req : Request, reply : Reply])]

ASSUME OrchestratorAssumption ==
    /\ None \notin Procs /\ Torn \notin Procs /\ None # Torn
    /\ 1 \in Incarnations /\ Incarnations \subseteq Nat
    /\ WriteBatches \subseteq Batches /\ ReadBatches \subseteq SUBSET Keys
    /\ WindowSize \in Nat /\ LateAttempts \in BOOLEAN
    /\ None \notin Request /\ None \notin Window

GrantOf(k, t) == [epoch |-> epoch, key |-> k, off |-> objects'[k].off,
                  shape |-> objects'[k].shape, token |-> t]

\* copying: extents being filled; unsure: finish or abort sent, outcome unknown.
NewMp(inc) ==
    [alive |-> TRUE, inc |-> inc, epoch |-> 0, closed |-> FALSE, nextId |-> 1,
     call |-> None, copying |-> {}, unsure |-> {}, reading |-> {}]

DeadMp(c) == [NewMp(mp[c].inc) EXCEPT !.alive = FALSE]

OInit ==
    /\ RInit
    /\ proc = [p \in Procs |-> "off"]
    /\ marker = None /\ epoch = 0
    /\ mp = [c \in Clients |-> NewMp(1)]
    /\ net = {} /\ windows = NoClients /\ ran = {} /\ rerun = {} /\ acked = {} /\ sent = 0

Serving == {p \in Procs : proc[p] = "serving"}
Answering == {p \in Procs : proc[p] \in {"serving", "refusing"}}

----------------------------------------------------------------------------
\* client.py: one call at a time per MP server.

Idle(c) == mp[c].alive /\ ~mp[c].closed /\ mp[c].call = None

\* MaxCalls bounds the calls; the finish_read of a lease comes on top of it.
Ready(c) == Idle(c) /\ sent < MaxCalls

\* Sends the first attempt of a call; m is the client without what it gives up.
Send(c, m, ep, op, arg) ==
    LET req == [client |-> c, inc |-> mp[c].inc, id |-> mp[c].nextId, epoch |-> ep,
                op |-> op, arg |-> arg]
    IN /\ mp' = [mp EXCEPT ![c] = [m EXCEPT !.call = req, !.nextId = @ + 1]]
       /\ net' = net \cup {req}
       /\ sent' = sent + 1
       /\ UNCHANGED <<rvars, proc, marker, epoch, windows, ran, rerun, acked>>

\* register(): DescribeRegion gives the epoch that RegisterClient names.
Register(c) ==
    /\ Ready(c) /\ mp[c].epoch = 0 /\ Answering # {}
    /\ Send(c, mp[c], epoch, "Register", None)

InUse(c) == Ready(c) /\ mp[c].epoch # 0

StartReserveWrite(c, shape) == InUse(c) /\ Send(c, mp[c], mp[c].epoch, "ReserveWrite", shape)

StartReserveRead(c, S) == InUse(c) /\ Send(c, mp[c], mp[c].epoch, "ReserveRead", S)

\* finish_write is called only once the copy is complete, abort_write once it
\* is given up; either may be repeated with a new request id.
StartComplete(c, g, op) ==
    /\ InUse(c) /\ g \in mp[c].copying \cup mp[c].unsure
    /\ Send(c, [mp[c] EXCEPT !.copying = @ \ {g}, !.unsure = @ \ {g}], mp[c].epoch, op, g)

StartFinishRead(c, g) ==
    /\ Idle(c) /\ g \in mp[c].reading
    /\ Send(c, [mp[c] EXCEPT !.reading = @ \ {g}], mp[c].epoch, "FINISH_READ", g)

\* close(): the MP server has stopped its copies.
Close(c) ==
    /\ InUse(c)
    /\ Send(c, [mp[c] EXCEPT !.closed = TRUE, !.copying = {}, !.unsure = {}, !.reading = {}],
            mp[c].epoch, "Close", None)

\* _invoke retries a transport failure with the same request id, so any number
\* of attempts may arrive, until it gives up.
Unresolved(req) == IF req.op \in {"FINISH_WRITE", "ABORT_WRITE"} THEN {req.arg} ELSE {}

\* The channel of c is closed, after close() or when its process died.
WithoutChannel(c) == IF LateAttempts THEN net ELSE {req \in net : req.client # c}

GiveUp(c) ==
    /\ mp[c].call # None
    /\ mp' = [mp EXCEPT ![c].call = None, ![c].unsure = @ \cup Unresolved(mp[c].call)]
    /\ net' = IF mp[c].closed THEN WithoutChannel(c) ELSE net
    /\ UNCHANGED <<rvars, proc, marker, epoch, windows, ran, rerun, acked, sent>>

CrashClient(c) ==
    /\ mp[c].alive
    /\ mp' = [mp EXCEPT ![c] = DeadMp(c)]
    /\ net' = WithoutChannel(c)
    /\ UNCHANGED <<rvars, proc, marker, epoch, windows, ran, rerun, acked, sent>>

\* A restarted MP server has the same client_id and a new incarnation.
RestartClient(c) ==
    /\ ~mp[c].alive /\ mp[c].inc + 1 \in Incarnations
    /\ Cardinality({d \in Clients : mp[d].inc > 1}) < MaxRestarts
    /\ mp' = [mp EXCEPT ![c] = NewMp(mp[c].inc + 1)]
    /\ UNCHANGED <<rvars, proc, marker, epoch, net, windows, ran, rerun, acked, sent>>

----------------------------------------------------------------------------
\* service.py and what each call returns.

\* _check_region, _registered_client and the INVALID_ARGUMENT of a batch that
\* does not fit the recorded layouts.
Refused(req) ==
    \/ Serving = {} \/ req.epoch # epoch
    \/ req.op # "Register" /\ ~Registered(req.client, req.inc)
    \/ req.op = "ReserveWrite" /\ Mismatched(req.arg)

Recorded(req) ==
    IF windows[req.client] = None \/ windows[req.client].inc # req.inc THEN {}
    ELSE {r \in {windows[req.client].replies[i] : i \in DOMAIN windows[req.client].replies} :
             r.req = req}

\* RegionState's method for the request.
Execute(req) ==
    LET c == req.client i == req.inc IN
    \/ req.op = "Register" /\ RegisterClient(c, i)
    \/ req.op = "ReserveWrite" /\ ReserveWrite(c, i, req.arg)
    \/ req.op = "ReserveWrite" /\ ReserveWriteOutOfSpace(c, i, req.arg)
    \/ req.op \in Ops /\ CompleteTokens(c, i, req.arg.token, req.op)
    \/ req.op = "ReserveRead" /\ ReserveRead(c, i, req.arg, MaxReaders)
    \/ req.op = "Close" /\ CloseClient(c, i)

Drawn == issued' \ issued

\* Its reply, from the tokens the call drew.
ReplyTo(req) ==
    LET c == req.client IN
    [status |-> IF req.op \in Ops THEN TokenStatus(c, req.arg.token, req.op) ELSE "OK",
     grants |-> CASE req.op = "ReserveWrite" -> {GrantOf(clients'[c].writes[t], t) : t \in Drawn}
                  [] req.op = "ReserveRead" -> {GrantOf(clients'[c].leases[t], t) : t \in Drawn}
                  [] OTHER -> {}]

\* The replies kept of a window: the oldest leaves a full one.
KeptMutant(all) == IF Len(all) > 1 THEN Tail(all) ELSE all
Kept(all) == IF Len(all) > WindowSize THEN Tail(all) ELSE all

\* The window after the reply is recorded: RegisterClient opens one for a new
\* incarnation, CloseClient drops it.
WindowAfter(req, reply) ==
    LET w == windows[req.client]
        old == IF w = None \/ w.inc # req.inc THEN <<>> ELSE w.replies
    IN IF req.op = "Close" THEN None
       ELSE [inc |-> req.inc, replies |-> Kept(Append(old, [req |-> req, reply |-> reply]))]

\* What the client makes of a reply.
Received(m, req, reply) ==
    LET done == [m EXCEPT !.call = None] IN
    IF reply.status = "ERROR" THEN done
    ELSE CASE req.op = "Register" -> [done EXCEPT !.epoch = req.epoch]
           [] req.op = "ReserveWrite" -> [done EXCEPT !.copying = @ \cup reply.grants]
           [] req.op = "ReserveRead" -> [done EXCEPT !.reading = @ \cup reply.grants]
           [] OTHER -> done

\* The reply reaches the client if it is still waiting and it is not lost.
Deliver(req, reply, lost) ==
    LET c == req.client
        waiting == mp[c].call = req /\ ~lost
    IN /\ mp' = IF waiting THEN [mp EXCEPT ![c] = Received(@, req, reply)] ELSE mp
       /\ acked' = IF waiting /\ req.op = "FINISH_WRITE" /\ reply.status = "OK"
                   THEN acked \cup {req.arg} ELSE acked
       /\ net' = IF waiting /\ req.op = "Close" THEN WithoutChannel(c) ELSE net

\* _run_mutation on one attempt.
Serve(req, lost) ==
    /\ Answering # {}
    /\ \/ /\ Recorded(req) # {}
          /\ \E r \in Recorded(req) : Deliver(req, r.reply, lost)
          /\ UNCHANGED <<rvars, windows, ran, rerun>>
       \/ /\ Recorded(req) = {} /\ Refused(req)
          /\ Deliver(req, [status |-> "ERROR", grants |-> {}], lost)
          /\ UNCHANGED <<rvars, windows, ran, rerun>>
       \/ /\ Recorded(req) = {} /\ ~Refused(req)
          /\ Execute(req)
          /\ Deliver(req, ReplyTo(req), lost)
          /\ windows' = [windows EXCEPT ![req.client] = WindowAfter(req, ReplyTo(req))]
          /\ ran' = ran \cup {req}
          /\ rerun' = IF req \in ran /\ ~mp[req.client].closed THEN rerun \cup {req} ELSE rerun
    /\ UNCHANGED <<proc, marker, epoch, sent>>

----------------------------------------------------------------------------
\* server.py: serve() and the startup marker.

Off(p) == proc[p] = "off"

\* _start_mode: an unreadable marker, or one that names another live process,
\* refuses the start; one that names this pid is stale.
StartMode(p) ==
    CASE marker = None -> "fresh"
      [] marker = Torn -> "off"
      [] OTHER -> IF marker # p /\ ~Off(marker) THEN "off" ELSE "reset"

Start(p) ==
    /\ Off(p) /\ StartMode(p) # "off" /\ epoch < MaxEpoch
    /\ proc' = [proc EXCEPT ![p] = StartMode(p)]
    /\ UNCHANGED <<rvars, marker, epoch, mp, net, windows, ran, rerun, acked, sent>>

\* _write_marker of a fresh start: O_EXCL lets one racing process create it.
CanCreateMutant == TRUE
CanCreate == marker = None

CreateMarker(p) ==
    /\ proc[p] = "fresh"
    /\ IF CanCreate
       THEN marker' = Torn /\ proc' = [proc EXCEPT ![p] = "created"]
       ELSE proc' = [proc EXCEPT ![p] = "off"] /\ UNCHANGED marker
    /\ UNCHANGED <<rvars, epoch, mp, net, windows, ran, rerun, acked, sent>>

\* The process ends: its RegionState and servicer are gone, and the attempts
\* on their way to it.
EndRegion == RReset /\ windows' = NoClients /\ ran' = {} /\ net' = {}

\* The marker is written and the server starts.
StartServing(p) ==
    /\ proc[p] = "created"
    /\ marker' = p /\ proc' = [proc EXCEPT ![p] = "serving"]
    /\ epoch' = epoch + 1
    /\ UNCHANGED <<rvars, windows, ran, rerun, mp, net, acked, sent>>

\* RESET_REQUIRED replaces the marker and refuses every client.
StartRefusing(p) ==
    /\ proc[p] = "reset"
    /\ marker' = p /\ proc' = [proc EXCEPT ![p] = "refusing"]
    /\ UNCHANGED <<rvars, epoch, mp, net, windows, ran, rerun, acked, sent>>

\* _release_marker: only a region that every client has left may be reused.
ReleasedMutant(p) == proc[p] = "serving" /\ marker = p
Released(p) == proc[p] = "serving" /\ marker = p /\ \A c \in Clients : clients[c] = None

\* SIGTERM: stop the server, then release the marker.
Stop(p) ==
    /\ proc[p] \in {"serving", "refusing"}
    /\ marker' = IF Released(p) THEN None ELSE marker
    /\ proc' = [proc EXCEPT ![p] = "off"]
    /\ IF proc[p] = "serving" THEN EndRegion ELSE UNCHANGED <<rvars, windows, ran, net>>
    /\ UNCHANGED <<epoch, mp, rerun, acked, sent>>

Crash(p) ==
    /\ ~Off(p)
    /\ proc' = [proc EXCEPT ![p] = "off"]
    /\ IF proc[p] = "serving" THEN EndRegion ELSE UNCHANGED <<rvars, windows, ran, net>>
    /\ UNCHANGED <<marker, epoch, mp, rerun, acked, sent>>

\* The operator deletes the marker as the log messages tell: with no
\* orchestrator left and, unless it is unreadable, every MP server stopped.
OperatorReset ==
    /\ marker # None /\ \A p \in Procs : Off(p)
    /\ marker # Torn => \A c \in Clients : ~mp[c].alive
    /\ marker' = None
    /\ UNCHANGED <<rvars, proc, epoch, mp, net, windows, ran, rerun, acked, sent>>

ONext ==
    \/ \E c \in Clients :
          \/ Register(c) \/ Close(c) \/ GiveUp(c) \/ CrashClient(c) \/ RestartClient(c)
          \/ \E shape \in WriteBatches : StartReserveWrite(c, shape)
          \/ \E S \in ReadBatches : StartReserveRead(c, S)
          \/ \E g \in mp[c].copying \cup mp[c].unsure, op \in {"FINISH_WRITE", "ABORT_WRITE"} :
                StartComplete(c, g, op)
          \/ \E g \in mp[c].reading : StartFinishRead(c, g)
    \/ \E req \in net, lost \in BOOLEAN : Serve(req, lost)
    \/ \E k \in Keys : Lapse(k) /\ UNCHANGED <<proc, marker, epoch, mp, net, windows, ran, rerun, acked, sent>>
    \/ \E p \in Procs : Start(p) \/ CreateMarker(p) \/ StartServing(p) \/ StartRefusing(p)
                        \/ Stop(p) \/ Crash(p)
    \/ OperatorReset

OSpec == OInit /\ [][ONext]_ovars

----------------------------------------------------------------------------
\* Properties

GUnits(g) == Units(g.off, g.shape)

\* An MP server filling an extent is the only one who uses it: no other copy
\* in or out overlaps it and no committed object does, even after its
\* reservation expired or was retired, and across restarts of the
\* orchestrator (reserve_write's bump pointer, _start_mode, _release_marker).
WriterIsAlone ==
    \A c \in Clients : \A g \in mp[c].copying :
        /\ \A d \in Clients : \A h \in (mp[d].copying \ (IF c = d THEN {g} ELSE {})) \cup mp[d].reading :
              GUnits(g) \cap GUnits(h) = {}
        /\ Serving # {} =>
              \A k \in Keys : objects[k] # None /\ GUnits(g) \cap Extent(k) # {} =>
                  g.epoch = epoch /\ g.token = objects[k].token /\ objects[k].state = "WRITING"

\* An object whose commit was acknowledged is readable where its writer left
\* it for as long as the region's epoch lasts, whatever was retried, lost or
\* retired meanwhile (finish_write, _complete_tokens, _retire).
AckedIsValid ==
    Serving # {} => \A g \in acked : g.epoch = epoch =>
        /\ objects[g.key] # None
        /\ objects[g.key].state = "VALID" /\ objects[g.key].off = g.off

\* Until its client closes, no request of a registered incarnation takes
\* effect twice, however many attempts arrive and when (_run_mutation).
RunsOnce == rerun = {}

\* Only one orchestrator serves clients (O_EXCL in _write_marker, _start_mode).
OneServes == Cardinality(Serving) <= 1
=============================================================================
