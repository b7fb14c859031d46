-------------------------- MODULE OrchestratorStepProofs --------------------------
(***************************************************************************)
(* The other steps of the orchestrator and of the MP servers keep OInv: a  *)
(* writer is alone on its extent, and what was acknowledged stays valid.   *)
(***************************************************************************)
EXTENDS OrchestratorProofs

\* A counter moves past every value that it bounds.
LEMMA NextAbove ==
    \A a \in Nat : /\ a + 1 \in Nat /\ a <= a + 1
                  /\ \A w \in Nat : w <= a => w <= a + 1 /\ w # a + 1
OBVIOUS

----------------------------------------------------------------------------
\* Sending a request

\* The request a client sends next.
NextRequest(c, ep, op, arg) ==
    [client |-> c, inc |-> mp[c].inc, id |-> mp[c].nextId, epoch |-> ep, op |-> op, arg |-> arg]

\* A client that sends gives up at most what it names, and names its region.
Sends(c, m, ep, op, arg) ==
    /\ Idle(c) /\ Send(c, m, ep, op, arg)
    /\ m \in Mp /\ m.alive = mp[c].alive /\ m.inc = mp[c].inc
    /\ m.epoch = mp[c].epoch /\ m.nextId = mp[c].nextId
    /\ m.copying \subseteq mp[c].copying /\ m.unsure \subseteq mp[c].unsure
    /\ m.reading \subseteq mp[c].reading
    /\ (op = "Close") <=> m.closed
    /\ m.closed => m.copying = {} /\ m.unsure = {} /\ m.reading = {}
    /\ ep \in Nat /\ ep <= epoch
    /\ op = "Register" => mp[c].epoch = 0
    /\ op \notin {"Register", "Close"} => mp[c].epoch # 0 /\ ep = mp[c].epoch
    /\ op \in {"FINISH_WRITE", "ABORT_WRITE"} =>
          arg \in mp[c].unsure \/ (arg \in mp[c].copying /\ arg \notin m.copying)
    /\ NextRequest(c, ep, op, arg) \in Request

\* The client and the network after it.
LEMMA SendIs ==
    ASSUME OTyped, NEW c \in Clients, NEW m, NEW ep, NEW op, NEW arg, Sends(c, m, ep, op, arg)
    PROVE  LET req == NextRequest(c, ep, op, arg) IN
           /\ mp' \in [Clients -> Mp] /\ \A d \in Clients : d # c => mp'[d] = mp[d]
           /\ mp'[c].alive = mp[c].alive /\ mp'[c].inc = mp[c].inc /\ mp'[c].epoch = mp[c].epoch
           /\ mp'[c].closed = m.closed /\ mp'[c].nextId = mp[c].nextId + 1 /\ mp'[c].call = req
           /\ mp'[c].copying = m.copying /\ mp'[c].unsure = m.unsure /\ mp'[c].reading = m.reading
           /\ net' = net \cup {req} /\ sent' = sent + 1 /\ Still
           /\ proc' = proc /\ marker' = marker /\ epoch' = epoch /\ acked' = acked
           /\ mp[c].call = None /\ mp[c].alive /\ ~mp[c].closed
<1> DEFINE req == NextRequest(c, ep, op, arg)
           id == m.nextId + 1
           n == [m EXCEPT !.call = req, !.nextId = id]
<1>1. /\ mp' = [mp EXCEPT ![c] = n] /\ net' = net \cup {req} /\ sent' = sent + 1
      /\ proc' = proc /\ marker' = marker /\ epoch' = epoch /\ acked' = acked /\ Still
  BY Zenon DEF Sends, Send, NextRequest, Still, rvars
<1>2. /\ m \in Mp /\ m.alive = mp[c].alive /\ m.inc = mp[c].inc /\ m.epoch = mp[c].epoch
      /\ m.nextId = mp[c].nextId /\ req \in Request
      /\ mp[c].call = None /\ mp[c].alive /\ ~mp[c].closed
  BY Zenon DEF Sends, Idle
<1> HIDE DEF req
<1>6. id \in Nat \ {0}
  BY <1>2 DEF Mp
<1> HIDE DEF id
<1>3. /\ n \in Mp /\ n.alive = m.alive /\ n.inc = m.inc /\ n.epoch = m.epoch /\ n.closed = m.closed
      /\ n.nextId = id /\ n.call = req /\ n.copying = m.copying
      /\ n.unsure = m.unsure /\ n.reading = m.reading
  BY Zenon, <1>2, <1>6 DEF Mp
<1> HIDE DEF n
<1>4. mp \in [Clients -> Mp]
  BY Zenon DEF OTyped
<1>5. mp'[c] = n /\ mp' \in [Clients -> Mp] /\ \A d \in Clients : d # c => mp'[d] = mp[d]
  BY Zenon, <1>1, <1>3, <1>4
<1> QED BY Zenon, <1>1, <1>2, <1>3, <1>5 DEF req, id

\* A reply to the next request is not there yet.
LEMMA NextUnanswered ==
    ASSUME OTyped, Windowed, NEW c \in Clients, mp[c].alive, NEW ep, NEW op, NEW arg,
           NEW r \in Replies(c)
    PROVE  r.req # NextRequest(c, ep, op, arg)
<1>1. r.req.inc = mp[c].inc => r.req.id < mp[c].nextId
  BY Zenon DEF Windowed, WindowedAt
<1>2. mp[c].nextId \in Nat
  BY Zenon, MpTyped
<1> QED BY <1>1, <1>2 DEF NextRequest

\* What the clients hold after a request is sent.
LEMMA SendHoldings ==
    ASSUME OTyped, Windowed, NEW c \in Clients, NEW m, NEW ep, NEW op, NEW arg,
           Sends(c, m, ep, op, arg)
    PROVE  Holdings(c, {}, {})
<1> DEFINE req == NextRequest(c, ep, op, arg)
<1>1. /\ \A d \in Clients : d # c => mp'[d] = mp[d]
      /\ mp'[c].call = req
      /\ mp'[c].copying = m.copying /\ mp'[c].unsure = m.unsure /\ mp'[c].reading = m.reading
      /\ net' = net \cup {req} /\ windows' = windows /\ epoch' = epoch /\ mp[c].alive
  BY SendIs DEF Still
<1>2. /\ m.copying \subseteq mp[c].copying /\ m.unsure \subseteq mp[c].unsure
      /\ m.reading \subseteq mp[c].reading
      /\ op \in {"FINISH_WRITE", "ABORT_WRITE"} =>
            arg \in mp[c].unsure \/ (arg \in mp[c].copying /\ arg \notin m.copying)
  BY Zenon DEF Sends
<1>3. req.client = c /\ req.op = op /\ req.arg = arg
  BY Zenon DEF NextRequest
<1>4. \A d \in Clients : Replies(d)' = Replies(d)
  BY Zenon, <1>1 DEF Replies
<1>5. \A r \in Replies(c) : r.req # req
  BY Zenon, <1>1, NextUnanswered
<1> HIDE DEF req
<1>6. \A o : \A g : g \notin Pending(c, o)'
  BY <1>1, <1>4, <1>5, PendingNext
<1>7. \A d \in Clients : d # c => \A o : \A g \in Pending(d, o)' : g \in Pending(d, o)
  BY <1>1, <1>4, PendingNext, PendingIs
<1>8. Filling(c)' = m.copying /\ Reads(c)' = m.reading
  BY <1>1, <1>6 DEF Filling, Reads
<1>9. ASSUME NEW d \in Clients
      PROVE  Filling(d)' \subseteq Filling(d) /\ Reads(d)' \subseteq Reads(d)
  <2>1. CASE d = c
    BY <1>2, <1>8, <2>1 DEF Filling, Reads
  <2>2. CASE d # c
    BY <1>1, <1>7, <2>2 DEF Filling, Reads
  <2> QED BY Zenon, <2>1, <2>2
<1>10. ASSUME NEW d \in Clients, NEW h \in Spent(d)'
       PROVE  h \in Spent(d) \/ (h \in Filling(d) /\ h \notin Filling(d)')
  <2>1. \/ h \in mp'[d].unsure
        \/ \E q \in net' : /\ q.client = d /\ q.epoch = epoch' /\ h = q.arg
                           /\ q.op \in {"FINISH_WRITE", "ABORT_WRITE"}
        \/ /\ mp'[d].call # None /\ mp'[d].call.epoch = epoch' /\ h = mp'[d].call.arg
           /\ mp'[d].call.op \in {"FINISH_WRITE", "ABORT_WRITE"}
    BY <1>10, SpentNext
  <2>2. CASE d = c /\ h = arg /\ op \in {"FINISH_WRITE", "ABORT_WRITE"}
    <3>1. CASE arg \in mp[c].unsure
      BY <2>2, <3>1, SpentIs
    <3>2. CASE arg \in mp[c].copying /\ arg \notin m.copying
      BY <1>8, <2>2, <3>2 DEF Filling
    <3> QED BY <1>2, <2>2, <3>1, <3>2
  <2>3. CASE h \in mp'[d].unsure
    <3>1. h \in mp[d].unsure
      BY <1>1, <1>2, <2>3
    <3> QED BY <3>1, SpentIs
  <2>4. CASE \E q \in net : /\ q.client = d /\ q.epoch = epoch /\ h = q.arg
                            /\ q.op \in {"FINISH_WRITE", "ABORT_WRITE"}
    BY <2>4, SpentIs
  <2>5. CASE /\ mp[d].call # None /\ mp[d].call.epoch = epoch /\ h = mp[d].call.arg
             /\ mp[d].call.op \in {"FINISH_WRITE", "ABORT_WRITE"}
    BY <2>5, SpentIs
  <2> QED BY <1>1, <1>3, <2>1, <2>2, <2>3, <2>4, <2>5
<1> QED BY Zenon, <1>9, <1>10 DEF Holdings

\* A step that leaves the region alone keeps it and its grants.
LEMMA StillBacked ==
    ASSUME OInv, OTyped', Still, epoch' = epoch, Serving' = Serving,
           NEW c \in Clients, Holdings(c, {}, {})
    PROVE  Region' /\ Apart' /\ (Serving' # {} => Backed') /\ (acked' = acked => Acknowledged')
<1>1. Region /\ Apart /\ (Serving # {} => Backed) /\ OTyped /\ Acknowledged
  BY DEF OInv
<1>2. Serving' = Serving
  OBVIOUS
<1>3. Region' /\ Effect({})
  BY <1>1, StillEffect DEF Still
<1>4. Granting(c, {}, {}, {})
  BY Zenon, <1>3 DEF Granting
<1>5. GrantsTyped /\ GrantsTyped'
  <2>1. OTyped' => GrantsTyped'
    BY TypedGrants, PTL
  <2> QED BY <1>1, <2>1, TypedGrants
<1>6. Serving # {} => Backed'
  BY <1>1, <1>3, <1>4, <1>5, GrantsKept
<1>7. Apart'
  BY <1>1, ApartShrinks
<1>8. acked' = acked => Acknowledged'
  BY <1>1, <1>2 DEF Acknowledged, AckedIsValid, Still
<1> QED BY <1>2, <1>3, <1>6, <1>7, <1>8

\* A step of one client that leaves the region alone.
LEMMA ClientStep ==
    ASSUME OInv, NEW c \in Clients, mp' \in [Clients -> Mp],
           \A d \in Clients : d # c => mp'[d] = mp[d],
           Still, proc' = proc, marker' = marker, epoch' = epoch, acked' = acked,
           net' \subseteq Request, sent' \in Nat, Holdings(c, {}, {}),
           AttachedAt(c)', InFlight', mp[c].inc <= mp'[c].inc,
           \A r \in Replies(c) : mp'[c].alive /\ r.req.inc = mp'[c].inc => r.req.id < mp'[c].nextId
    PROVE  OInv'
<1>1. /\ OTyped /\ Marked /\ Quiet /\ Attached /\ Windowed
  BY Zenon DEF OInv
<1>2. Serving' = Serving /\ \A d \in Clients : Replies(d)' = Replies(d)
  BY Zenon DEF Serving, Still, Replies
<1>3. OTyped'
  BY Zenon, <1>1 DEF OTyped, Still
<1>4. Region' /\ Apart' /\ (Serving' # {} => Backed') /\ Acknowledged'
  BY <1>2, <1>3, StillBacked
<1>5. Marked'
  BY Zenon, <1>1 DEF Marked
<1>6. Quiet'
  BY Zenon, <1>1, <1>2 DEF Quiet, Still
<1>7. ASSUME NEW d \in Clients, d # c PROVE AttachedAt(d)'
  <2>1. AttachedAt(d) /\ mp'[d] = mp[d]
    BY Zenon, <1>1, <1>7 DEF Attached
  <2> QED BY ZenonT(30), <1>2, <2>1 DEF AttachedAt, Still, Open, Registered
<1>8. Attached'
  BY Zenon, <1>7 DEF Attached
<1>9. ASSUME NEW d \in Clients PROVE WindowedAt(d)'
  <2>1. WindowedAt(d) /\ windows'[d] = windows[d] /\ clients'[d] = clients[d] /\ objects' = objects
    BY Zenon, <1>1 DEF Windowed, Still
  <2>2. mp[d].inc <= mp'[d].inc
    BY <1>1, MpTyped
  <2>3. \A r \in Replies(d) : mp'[d].alive /\ r.req.inc = mp'[d].inc => r.req.id < mp'[d].nextId
    <3>1. CASE d = c
      BY Zenon, <3>1
    <3>2. CASE d # c
      BY <2>1, <3>2 DEF WindowedAt
    <3> QED BY <3>1, <3>2
  <2>4. windows[d] # None => windows[d].inc \in Nat
    BY Zenon, <1>1, WindowTyped, OrchestratorAssumption
  <2>5. mp[d].inc \in Nat /\ mp'[d].inc \in Nat
    BY Zenon, <1>1, MpTyped, OrchestratorAssumption DEF Mp
  <2>6. windows[d] # None => windows[d].inc <= mp'[d].inc
    BY SMTT(30), <2>1, <2>2, <2>4, <2>5 DEF WindowedAt
  <2>7. \A g : Committed(g) => Committed(g)'
    BY Zenon, <2>1 DEF Committed
  <2> QED BY <1>2, <2>1, <2>3, <2>6, <2>7 DEF WindowedAt
<1>10. Windowed'
  BY Zenon, <1>9 DEF Windowed
<1> QED BY <1>3, <1>4, <1>5, <1>6, <1>8, <1>10 DEF OInv

\* Sending a request keeps the invariant.
LEMMA SendKeeps ==
    ASSUME OInv, NEW c \in Clients, NEW m, NEW ep, NEW op, NEW arg, Sends(c, m, ep, op, arg)
    PROVE  OInv'
<1> DEFINE req == NextRequest(c, ep, op, arg)
<1>1. OTyped /\ Windowed /\ Attached /\ InFlight /\ sent \in Nat /\ net \subseteq Request
  BY Zenon DEF OInv, OTyped
<1>2. /\ mp' \in [Clients -> Mp] /\ \A d \in Clients : d # c => mp'[d] = mp[d]
      /\ mp'[c].alive = mp[c].alive /\ mp'[c].inc = mp[c].inc /\ mp'[c].epoch = mp[c].epoch
      /\ mp'[c].closed = m.closed /\ mp'[c].nextId = mp[c].nextId + 1 /\ mp'[c].call = req
      /\ mp'[c].copying = m.copying /\ mp'[c].unsure = m.unsure /\ mp'[c].reading = m.reading
      /\ net' = net \cup {req} /\ sent' = sent + 1 /\ Still
      /\ proc' = proc /\ marker' = marker /\ epoch' = epoch /\ acked' = acked
      /\ mp[c].call = None /\ mp[c].alive /\ ~mp[c].closed
  BY Zenon, <1>1, SendIs
<1>3. /\ req.client = c /\ req.inc = mp[c].inc /\ req.id = mp[c].nextId /\ req.epoch = ep
      /\ req.op = op /\ req.arg = arg
  BY Zenon DEF NextRequest
<1>4. /\ (op = "Close") <=> m.closed
      /\ m.closed => m.copying = {} /\ m.unsure = {} /\ m.reading = {}
      /\ m.copying \subseteq mp[c].copying /\ m.unsure \subseteq mp[c].unsure
      /\ m.reading \subseteq mp[c].reading
      /\ ep \in Nat /\ ep <= epoch
      /\ op = "Register" => mp[c].epoch = 0
      /\ op \notin {"Register", "Close"} => mp[c].epoch # 0 /\ ep = mp[c].epoch
      /\ req \in Request
  BY Zenon DEF Sends
<1> HIDE DEF req
<1>5. mp[c].nextId \in Nat /\ mp[c].inc \in Nat /\ m.closed \in BOOLEAN
  BY Zenon, <1>1, MpTyped DEF Sends, Mp
<1>6. AttachedAt(c)'
  <2>1. AttachedAt(c)
    BY Zenon, <1>1 DEF Attached
  <2>2. Serving' = Serving /\ clients' = clients
    BY Zenon, <1>2 DEF Serving, Still
  <2>3. Open(c) /\ (Open(c)' <=> ~m.closed)
    BY Zenon, <1>2 DEF Open
  <2>4. ASSUME ~Open(c)' \/ mp'[c].epoch = 0
        PROVE  mp'[c].copying = {} /\ mp'[c].unsure = {} /\ mp'[c].reading = {}
    BY Zenon, <1>2, <1>4, <2>1, <2>3, <2>4 DEF AttachedAt
  <2>5. ASSUME Open(c)', mp'[c].epoch # 0
        PROVE  /\ mp'[c].epoch = epoch' /\ marker' \in Procs
               /\ Serving' # {} => Registered(c, mp[c].inc)'
    BY Zenon, <1>2, <2>1, <2>2, <2>3, <2>5 DEF AttachedAt, Registered
  <2>6. /\ mp'[c].alive /\ mp'[c].call.client = c /\ mp'[c].call.inc = mp'[c].inc
        /\ mp'[c].call.id < mp'[c].nextId /\ mp'[c].call.epoch <= epoch'
        /\ (mp'[c].call.op = "Close") <=> mp'[c].closed
        /\ mp'[c].call.op = "Register" => mp'[c].epoch = 0
        /\ mp'[c].call.op \notin {"Register", "Close"} =>
              mp'[c].epoch # 0 /\ mp'[c].call.epoch = mp'[c].epoch
    BY SMTT(30), <1>2, <1>3, <1>4, <1>5
  <2> QED BY Zenon, <2>4, <2>5, <2>6 DEF AttachedAt
<1>7. InFlight'
  <2> SUFFICES ASSUME NEW q \in net'
               PROVE  /\ mp'[q.client].alive /\ q.inc = mp'[q.client].inc
                      /\ q.id < mp'[q.client].nextId /\ q.epoch <= epoch'
                      /\ q.op = "Close" => mp'[q.client].closed
    BY Zenon DEF InFlight
  <2>1. CASE q = req
    <3>1. q.id < mp'[c].nextId /\ q.epoch <= epoch'
      BY SMTT(30), <1>2, <1>3, <1>4, <1>5, <2>1
    <3> QED BY Zenon, <1>2, <1>3, <1>4, <2>1, <3>1
  <2>2. CASE q \in net
    <3>1. /\ mp[q.client].alive /\ q.inc = mp[q.client].inc
          /\ q.id < mp[q.client].nextId /\ q.epoch <= epoch
          /\ q.op = "Close" => mp[q.client].closed
      BY Zenon, <1>1, <2>2 DEF InFlight
    <3>2. q.client \in Clients /\ q.id \in Nat
      BY Zenon, <1>1, <2>2, RequestTyped
    <3>3. CASE q.client = c
      <4>1. q.id < mp[c].nextId
        BY Zenon, <3>1, <3>3
      <4>2. q.id < mp'[c].nextId
        BY <1>2, <1>5, <3>2, <4>1
      <4> QED BY Zenon, <1>2, <3>1, <3>3, <4>2
    <3>4. CASE q.client # c
      BY Zenon, <1>2, <3>1, <3>2, <3>4
    <3> QED BY Zenon, <3>3, <3>4
  <2> QED BY Zenon, <1>2, <2>1, <2>2
<1>8. \A r \in Replies(c) : mp'[c].alive /\ r.req.inc = mp'[c].inc => r.req.id < mp'[c].nextId
  <2>1. \A r \in Replies(c) : r.req.inc = mp[c].inc => r.req.id < mp[c].nextId
    BY Zenon, <1>1, <1>2 DEF Windowed, WindowedAt
  <2>2. \A r \in Replies(c) : r.req.id \in Nat
    BY Zenon, <1>1, RepliesTyped, RequestTyped DEF RepliesAre
  <2> QED BY SMTT(30), <1>2, <1>5, <2>1, <2>2
<1>9. Holdings(c, {}, {})
  BY Zenon, <1>1, SendHoldings
<1>10. net' \subseteq Request /\ sent' \in Nat
  BY SMTT(30), <1>1, <1>2, <1>4
<1> QED BY <1>2, <1>5, <1>6, <1>7, <1>8, <1>9, <1>10, ClientStep

\* The requests of the operations are requests.
LEMMA RequestMade ==
    ASSUME OTyped, NEW c \in Clients, NEW ep \in Nat, NEW op, NEW arg,
           \/ op \in {"Register", "Close"} /\ arg = None
           \/ op = "ReserveWrite" /\ arg \in WriteBatches
           \/ op = "ReserveRead" /\ arg \in ReadBatches
           \/ op \in Ops /\ arg \in Grant
    PROVE  NextRequest(c, ep, op, arg) \in Request
<1>1. mp[c].inc \in Incarnations /\ mp[c].nextId \in Nat \ {0}
  BY Zenon, MpTyped
<1> QED BY Zenon, <1>1 DEF NextRequest, Request, RequestOf

\* A client in use names the current region.
LEMMA InUseEpoch ==
    ASSUME OInv, NEW c \in Clients, Idle(c), mp[c].epoch # 0
    PROVE  mp[c].epoch = epoch /\ epoch \in Nat
<1>1. AttachedAt(c) /\ epoch \in Nat
  BY Zenon DEF OInv, Attached, OTyped
<1> QED BY Zenon, <1>1 DEF AttachedAt, Idle, Open

\* Each operation of a client sends a request of that kind.
LEMMA PlainSends ==
    ASSUME OInv, NEW c \in Clients, NEW ep \in Nat, NEW op, NEW arg, Idle(c), ep <= epoch,
           Send(c, mp[c], ep, op, arg),
           \/ op = "Register" /\ arg = None /\ mp[c].epoch = 0
           \/ op = "ReserveWrite" /\ arg \in WriteBatches /\ mp[c].epoch # 0 /\ ep = mp[c].epoch
           \/ op = "ReserveRead" /\ arg \in ReadBatches /\ mp[c].epoch # 0 /\ ep = mp[c].epoch
    PROVE  Sends(c, mp[c], ep, op, arg)
<1>1. OTyped
  BY Zenon DEF OInv
<1>2. NextRequest(c, ep, op, arg) \in Request
  BY Zenon, <1>1, RequestMade
<1>3. mp[c] \in Mp /\ ~mp[c].closed
  BY Zenon, <1>1, MpTyped DEF Idle
<1> QED BY Zenon, <1>2, <1>3 DEF Sends

\* finish_write and abort_write give up the extent they name.
LEMMA CompleteSends ==
    ASSUME OInv, NEW c \in Clients, NEW g, NEW op \in {"FINISH_WRITE", "ABORT_WRITE"},
           StartComplete(c, g, op)
    PROVE  Sends(c, [mp[c] EXCEPT !.copying = @ \ {g}, !.unsure = @ \ {g}], mp[c].epoch, op, g)
<1> DEFINE m == [mp[c] EXCEPT !.copying = @ \ {g}, !.unsure = @ \ {g}]
<1>1. OTyped /\ Idle(c) /\ mp[c].epoch # 0 /\ g \in mp[c].copying \cup mp[c].unsure
      /\ Send(c, m, mp[c].epoch, op, g)
  BY Zenon DEF OInv, StartComplete, InUse, Ready
<1>2. mp[c] \in Mp /\ ~mp[c].closed /\ g \in Grant /\ mp[c].epoch \in Nat
  BY Zenon, <1>1, MpTyped DEF Idle
<1>3. mp[c].epoch = epoch /\ epoch \in Nat
  BY Zenon, <1>1, InUseEpoch
<1>4. NextRequest(c, mp[c].epoch, op, g) \in Request
  BY Zenon, <1>1, <1>2, RequestMade DEF Ops
<1>5. /\ m \in Mp /\ m.alive = mp[c].alive /\ m.inc = mp[c].inc /\ m.epoch = mp[c].epoch
      /\ m.nextId = mp[c].nextId /\ m.closed = mp[c].closed
      /\ m.copying = mp[c].copying \ {g} /\ m.unsure = mp[c].unsure \ {g}
      /\ m.reading = mp[c].reading
  BY ZenonT(30), <1>2 DEF Mp
<1> HIDE DEF m
<1>6. Sends(c, m, mp[c].epoch, op, g)
  BY <1>1, <1>2, <1>3, <1>4, <1>5 DEF Sends
<1> QED BY Zenon, <1>6 DEF m

\* finish_read gives up the lease it names.
LEMMA FinishReadSends ==
    ASSUME OInv, NEW c \in Clients, NEW g, StartFinishRead(c, g)
    PROVE  Sends(c, [mp[c] EXCEPT !.reading = @ \ {g}], mp[c].epoch, "FINISH_READ", g)
<1> DEFINE m == [mp[c] EXCEPT !.reading = @ \ {g}]
<1>1. OTyped /\ Idle(c) /\ g \in mp[c].reading /\ Send(c, m, mp[c].epoch, "FINISH_READ", g)
  BY Zenon DEF OInv, StartFinishRead
<1>2. mp[c] \in Mp /\ ~mp[c].closed /\ g \in Grant /\ mp[c].epoch \in Nat
  BY Zenon, <1>1, MpTyped DEF Idle
<1>3. mp[c].epoch # 0
  BY Zenon, <1>1 DEF OInv, Attached, AttachedAt
<1>4. mp[c].epoch = epoch /\ epoch \in Nat
  BY Zenon, <1>1, <1>3, InUseEpoch
<1>5. NextRequest(c, mp[c].epoch, "FINISH_READ", g) \in Request
  BY Zenon, <1>1, <1>2, RequestMade DEF Ops
<1>6. /\ m \in Mp /\ m.alive = mp[c].alive /\ m.inc = mp[c].inc /\ m.epoch = mp[c].epoch
      /\ m.nextId = mp[c].nextId /\ m.closed = mp[c].closed
      /\ m.copying = mp[c].copying /\ m.unsure = mp[c].unsure
      /\ m.reading = mp[c].reading \ {g}
  BY Zenon, <1>2 DEF Mp
<1> HIDE DEF m
<1>7. Sends(c, m, mp[c].epoch, "FINISH_READ", g)
  BY <1>1, <1>2, <1>3, <1>4, <1>5, <1>6 DEF Sends
<1> QED BY Zenon, <1>7 DEF m

\* close gives up everything.
LEMMA CloseSends ==
    ASSUME OInv, NEW c \in Clients, Close(c)
    PROVE  Sends(c, [mp[c] EXCEPT !.closed = TRUE, !.copying = {}, !.unsure = {}, !.reading = {}],
                 mp[c].epoch, "Close", None)
<1> DEFINE m == [mp[c] EXCEPT !.closed = TRUE, !.copying = {}, !.unsure = {}, !.reading = {}]
<1>1. OTyped /\ Idle(c) /\ mp[c].epoch # 0 /\ Send(c, m, mp[c].epoch, "Close", None)
  BY Zenon DEF OInv, Close, InUse, Ready
<1>2. mp[c] \in Mp /\ mp[c].epoch \in Nat
  BY <1>1, MpTyped
<1>3. mp[c].epoch = epoch /\ epoch \in Nat
  BY <1>1, InUseEpoch
<1>4. NextRequest(c, mp[c].epoch, "Close", None) \in Request
  BY <1>1, <1>2, RequestMade
<1>5. /\ m \in Mp /\ m.alive = mp[c].alive /\ m.inc = mp[c].inc /\ m.epoch = mp[c].epoch
      /\ m.nextId = mp[c].nextId /\ m.closed
      /\ m.copying = {} /\ m.unsure = {} /\ m.reading = {}
  BY Zenon, <1>2 DEF Mp
<1> HIDE DEF m
<1>6. Sends(c, m, mp[c].epoch, "Close", None)
  BY <1>1, <1>2, <1>3, <1>4, <1>5 DEF Sends
<1> QED BY <1>6 DEF m

\* The operations a client starts.
Starts(c) ==
    \/ Register(c) \/ Close(c)
    \/ \E shape \in WriteBatches : StartReserveWrite(c, shape)
    \/ \E S \in ReadBatches : StartReserveRead(c, S)
    \/ \E g \in mp[c].copying \cup mp[c].unsure, op \in {"FINISH_WRITE", "ABORT_WRITE"} :
          StartComplete(c, g, op)
    \/ \E g \in mp[c].reading : StartFinishRead(c, g)

\* Each of them sends a request.
LEMMA StartSends ==
    ASSUME OInv, NEW c \in Clients, Starts(c)
    PROVE  \E m, ep, op, arg : Sends(c, m, ep, op, arg)
<1>1. epoch \in Nat /\ mp[c].epoch \in Nat
  BY Zenon, MpTyped DEF OInv, OTyped
<1>2. CASE Register(c)
  <2>1. Idle(c) /\ mp[c].epoch = 0 /\ Send(c, mp[c], epoch, "Register", None) /\ epoch <= epoch
    BY SMTT(30), <1>1, <1>2 DEF Register, Ready
  <2>2. Sends(c, mp[c], epoch, "Register", None)
    BY <1>1, <2>1, PlainSends
  <2> QED BY Zenon, <2>2
<1>3. CASE Close(c)
  BY Zenon, <1>3, CloseSends
<1>4. ASSUME NEW shape \in WriteBatches, StartReserveWrite(c, shape)
      PROVE  Sends(c, mp[c], mp[c].epoch, "ReserveWrite", shape)
  <2>1. Idle(c) /\ mp[c].epoch # 0 /\ Send(c, mp[c], mp[c].epoch, "ReserveWrite", shape)
    BY Zenon, <1>4 DEF StartReserveWrite, InUse, Ready
  <2>2. mp[c].epoch <= epoch
    BY SMTT(30), <1>1, <2>1, InUseEpoch
  <2> QED BY Zenon, <1>1, <2>1, <2>2, PlainSends
<1>5. ASSUME NEW S \in ReadBatches, StartReserveRead(c, S)
      PROVE  Sends(c, mp[c], mp[c].epoch, "ReserveRead", S)
  <2>1. Idle(c) /\ mp[c].epoch # 0 /\ Send(c, mp[c], mp[c].epoch, "ReserveRead", S)
    BY Zenon, <1>5 DEF StartReserveRead, InUse, Ready
  <2>2. mp[c].epoch <= epoch
    BY <1>1, <2>1, InUseEpoch
  <2> QED BY Zenon, <1>1, <2>1, <2>2, PlainSends
<1>6. ASSUME NEW g, NEW op \in {"FINISH_WRITE", "ABORT_WRITE"}, StartComplete(c, g, op)
      PROVE  \E m, ep : Sends(c, m, ep, op, g)
  BY Zenon, <1>6, CompleteSends
<1>7. ASSUME NEW g, StartFinishRead(c, g) PROVE \E m, ep : Sends(c, m, ep, "FINISH_READ", g)
  BY Zenon, <1>7, FinishReadSends
<1> QED BY <1>2, <1>3, <1>4, <1>5, <1>6, <1>7 DEF Starts

\* So it keeps the invariant.
LEMMA StartKeeps ==
    ASSUME OInv, NEW c \in Clients, Starts(c)
    PROVE  OInv'
<1>1. PICK m, ep, op, arg : Sends(c, m, ep, op, arg)
  BY Zenon, StartSends
<1> QED BY Zenon, <1>1, SendKeeps

----------------------------------------------------------------------------
\* A client gives up, dies, restarts

\* A client without a call holds what it fills and reads, and no more.
LEMMA CallOver ==
    ASSUME OTyped, NEW c \in Clients, windows' = windows, epoch' = epoch, net' \subseteq net,
           \A d \in Clients : d # c => mp'[d] = mp[d],
           mp'[c].call = None, mp'[c].copying \subseteq mp[c].copying,
           mp'[c].reading \subseteq mp[c].reading, mp'[c].unsure \subseteq Spent(c)
    PROVE  Holdings(c, {}, {})
<1>1. \A d \in Clients : Replies(d)' = Replies(d)
  BY Zenon DEF Replies
<1>2. \A r \in Replies(c) : r.req # None
  BY Zenon, RepliesTyped DEF RepliesAre
<1>3. \A o : \A g : g \notin Pending(c, o)'
  BY <1>1, <1>2, PendingNext
<1>4. \A d \in Clients : d # c => \A o : \A g \in Pending(d, o)' : g \in Pending(d, o)
  BY <1>1, PendingNext, PendingIs
<1>5. ASSUME NEW d \in Clients
      PROVE  Filling(d)' \subseteq Filling(d) /\ Reads(d)' \subseteq Reads(d)
  <2>1. CASE d = c
    BY <1>3, <2>1 DEF Filling, Reads
  <2>2. CASE d # c
    BY <1>4, <2>2 DEF Filling, Reads
  <2> QED BY <2>1, <2>2
<1>6. ASSUME NEW d \in Clients, NEW h \in Spent(d)' PROVE h \in Spent(d)
  <2>1. \/ h \in mp'[d].unsure
        \/ \E q \in net' : /\ q.client = d /\ q.epoch = epoch' /\ h = q.arg
                           /\ q.op \in {"FINISH_WRITE", "ABORT_WRITE"}
        \/ /\ mp'[d].call # None /\ mp'[d].call.epoch = epoch' /\ h = mp'[d].call.arg
           /\ mp'[d].call.op \in {"FINISH_WRITE", "ABORT_WRITE"}
    BY Zenon, <1>6, SpentNext
  <2>2. CASE \E q \in net' : /\ q.client = d /\ q.epoch = epoch' /\ h = q.arg
                             /\ q.op \in {"FINISH_WRITE", "ABORT_WRITE"}
    BY Zenon, <2>2, SpentIs
  <2>3. CASE d = c
    BY Zenon, <2>1, <2>2, <2>3
  <2>4. CASE d # c
    BY <2>1, <2>2, <2>4, SpentIs
  <2> QED BY Zenon, <2>3, <2>4
<1> QED BY Zenon, <1>5, <1>6 DEF Holdings

\* Attempts that leave keep the others in flight.
LEMMA InFlightKept ==
    ASSUME OTyped, InFlight, NEW c \in Clients, net' \subseteq net, epoch' = epoch,
           \A d \in Clients : d # c => mp'[d] = mp[d],
           \A q \in net' : q.client = c =>
              /\ mp'[c].alive = mp[c].alive /\ mp'[c].inc = mp[c].inc
              /\ mp'[c].nextId = mp[c].nextId /\ mp'[c].closed = mp[c].closed
    PROVE  InFlight'
<1>1. \A q \in net : q.client \in Clients
  BY Zenon, RequestTyped DEF OTyped
<1> QED BY <1>1 DEF InFlight

\* A call whose answer never came.
LEMMA GiveUpKeeps ==
    ASSUME OInv, NEW c \in Clients, GiveUp(c)
    PROVE  OInv'
<1> DEFINE u == mp[c].unsure \cup Unresolved(mp[c].call)
           n == [mp[c] EXCEPT !.call = None, !.unsure = u]
<1>1. /\ OTyped /\ Attached /\ InFlight /\ Windowed /\ mp \in [Clients -> Mp] /\ mp[c] \in Mp
      /\ mp[c].call # None /\ AttachedAt(c)
      /\ net \subseteq Request /\ sent \in Nat
  BY DEF OInv, OTyped, GiveUp, Attached
<1>2. /\ mp' = [mp EXCEPT ![c] = n] /\ net' \subseteq net /\ sent' = sent
      /\ proc' = proc /\ marker' = marker /\ epoch' = epoch /\ acked' = acked /\ Still
  BY Zenon, <1>1 DEF GiveUp, WithoutChannel, Still, rvars, Mp
<1>3. mp[c].call \in Request
  BY Zenon, <1>1, MpTyped
<1>4. u \subseteq Grant
  <2>1. mp[c].call.op \in {"FINISH_WRITE", "ABORT_WRITE"} => mp[c].call.arg \in Grant
    BY <1>3, RequestTyped DEF Ops
  <2> QED BY <1>1, <2>1, MpTyped DEF Unresolved
<1>5. u \subseteq Spent(c)
  <2>1. ASSUME mp[c].call.op \in {"FINISH_WRITE", "ABORT_WRITE"} PROVE mp[c].call.epoch = epoch
    BY Zenon, <1>1, <2>1 DEF AttachedAt, Open
  <2> QED BY Zenon, <1>1, <2>1 DEF Spent, Unresolved
<1>6. ASSUME ~Open(c) \/ mp[c].epoch = 0 PROVE u = {}
  <2>1. mp[c].call.op \in {"Register", "Close"}
    BY Zenon, <1>1, <1>6 DEF AttachedAt, Open
  <2> QED BY Zenon, <1>1, <1>6, <2>1 DEF AttachedAt, Unresolved
<1> HIDE DEF u
<1>7. /\ n \in Mp /\ n.call = None /\ n.unsure = u /\ n.alive = mp[c].alive /\ n.inc = mp[c].inc
      /\ n.epoch = mp[c].epoch /\ n.closed = mp[c].closed /\ n.nextId = mp[c].nextId
      /\ n.copying = mp[c].copying /\ n.reading = mp[c].reading
  BY Zenon, <1>1, <1>4 DEF Mp
<1> HIDE DEF n
<1>8. mp'[c] = n /\ mp' \in [Clients -> Mp] /\ \A d \in Clients : d # c => mp'[d] = mp[d]
  BY Zenon, <1>1, <1>2, <1>7
<1>9. Holdings(c, {}, {})
  BY <1>1, <1>2, <1>5, <1>7, <1>8, CallOver DEF Still
<1>10. InFlight'
  BY <1>1, <1>2, <1>7, <1>8, InFlightKept
<1>11. AttachedAt(c)'
  <2>1. Open(c)' = Open(c) /\ Serving' = Serving /\ clients' = clients
    BY Zenon, <1>2, <1>7, <1>8 DEF Open, Serving, Still
  <2> QED BY Zenon, <1>1, <1>2, <1>6, <1>7, <1>8, <2>1 DEF AttachedAt, Registered
<1>12. \A r \in Replies(c) : mp'[c].alive /\ r.req.inc = mp'[c].inc => r.req.id < mp'[c].nextId
  <2>1. \A r \in Replies(c) : mp[c].alive /\ r.req.inc = mp[c].inc => r.req.id < mp[c].nextId
    BY ZenonT(30), <1>1 DEF Windowed, WindowedAt
  <2> QED BY Zenon, <1>7, <1>8, <2>1
<1>13. mp[c].inc <= mp'[c].inc
  BY <1>1, <1>7, <1>8, MpTyped
<1>14. net' \subseteq Request /\ sent' \in Nat
  BY Zenon, <1>1, <1>2
<1> QED BY <1>2, <1>8, <1>9, <1>10, <1>11, <1>12, <1>13, <1>14, ClientStep

\* The fields of a new client.
LEMMA NewMpTyped ==
    ASSUME NEW inc \in Incarnations
    PROVE  LET n == NewMp(inc) IN
           /\ n \in Mp /\ n.alive = TRUE /\ n.inc = inc /\ n.epoch = 0 /\ n.closed = FALSE
           /\ n.nextId = 1 /\ n.call = None /\ n.copying = {} /\ n.unsure = {} /\ n.reading = {}
<1>1. 0 \in Nat /\ 1 \in Nat \ {0}
  OBVIOUS
<1> QED BY Zenon, <1>1 DEF NewMp, Mp

\* The fields of a dead one.
LEMMA DeadMpTyped ==
    ASSUME NEW inc \in Incarnations
    PROVE  LET n == [NewMp(inc) EXCEPT !.alive = FALSE] IN
           /\ n \in Mp /\ n.alive = FALSE /\ n.inc = inc /\ n.epoch = 0 /\ n.closed = FALSE
           /\ n.nextId = 1 /\ n.call = None /\ n.copying = {} /\ n.unsure = {} /\ n.reading = {}
<1> DEFINE m == NewMp(inc)
           n == [m EXCEPT !.alive = FALSE]
<1>1. /\ m \in Mp /\ m.alive = TRUE /\ m.inc = inc /\ m.epoch = 0 /\ m.closed = FALSE
      /\ m.nextId = 1 /\ m.call = None /\ m.copying = {} /\ m.unsure = {} /\ m.reading = {}
  BY Zenon, NewMpTyped
<1> HIDE DEF m
<1>2. /\ n \in Mp /\ n.alive = FALSE /\ n.inc = m.inc /\ n.epoch = m.epoch /\ n.closed = m.closed
      /\ n.nextId = m.nextId /\ n.call = m.call /\ n.copying = m.copying
      /\ n.unsure = m.unsure /\ n.reading = m.reading
  BY ZenonT(30), <1>1 DEF Mp
<1> QED BY Zenon, <1>1, <1>2 DEF m

\* An MP server dies, and its channel with it.
LEMMA CrashClientKeeps ==
    ASSUME OInv, LateAttempts = FALSE, NEW c \in Clients, CrashClient(c)
    PROVE  OInv'
<1> DEFINE n == [NewMp(mp[c].inc) EXCEPT !.alive = FALSE]
<1>1. /\ OTyped /\ InFlight /\ mp \in [Clients -> Mp] /\ mp[c].inc \in Incarnations
      /\ mp[c].inc \in Nat /\ net \subseteq Request /\ sent \in Nat
  BY Zenon, MpTyped DEF OInv, OTyped
<1>2. /\ mp' = [mp EXCEPT ![c] = n] /\ net' = {req \in net : req.client # c} /\ sent' = sent
      /\ proc' = proc /\ marker' = marker /\ epoch' = epoch /\ acked' = acked /\ Still
  BY Zenon DEF CrashClient, WithoutChannel, DeadMp, Still, rvars
<1>3. /\ n \in Mp /\ ~n.alive /\ n.inc = mp[c].inc /\ n.epoch = 0 /\ ~n.closed /\ n.nextId = 1
      /\ n.call = None /\ n.copying = {} /\ n.unsure = {} /\ n.reading = {}
  BY Zenon, <1>1, DeadMpTyped
<1> HIDE DEF n
<1>4. mp'[c] = n /\ mp' \in [Clients -> Mp] /\ \A d \in Clients : d # c => mp'[d] = mp[d]
  BY Zenon, <1>1, <1>2, <1>3
<1>5. net' \subseteq net /\ \A q \in net' : q.client # c
  BY Zenon, <1>2
<1>6. Holdings(c, {}, {})
  BY Zenon, <1>1, <1>2, <1>3, <1>4, <1>5, CallOver DEF Still
<1>7. InFlight'
  BY <1>1, <1>2, <1>4, <1>5, InFlightKept
<1>8. AttachedAt(c)'
  BY ZenonT(30), <1>3, <1>4 DEF AttachedAt, Open
<1> QED BY <1>1, <1>2, <1>3, <1>4, <1>5, <1>6, <1>7, <1>8, ClientStep

\* It comes back as another incarnation.
LEMMA RestartClientKeeps ==
    ASSUME OInv, NEW c \in Clients, RestartClient(c)
    PROVE  OInv'
<1> DEFINE n == NewMp(mp[c].inc + 1)
<1>1. /\ OTyped /\ InFlight /\ Windowed /\ mp \in [Clients -> Mp] /\ mp[c].inc + 1 \in Incarnations
      /\ mp[c].inc \in Nat /\ net \subseteq Request /\ sent \in Nat /\ ~mp[c].alive
  BY Zenon, MpTyped DEF OInv, OTyped, RestartClient
<1>3. /\ mp' = [mp EXCEPT ![c] = n] /\ net' = net /\ sent' = sent
      /\ proc' = proc /\ marker' = marker /\ epoch' = epoch /\ acked' = acked /\ Still
  BY Zenon DEF RestartClient, Still, rvars
<1>4. /\ n \in Mp /\ n.alive /\ n.inc = mp[c].inc + 1 /\ n.epoch = 0 /\ ~n.closed /\ n.nextId = 1
      /\ n.call = None /\ n.copying = {} /\ n.unsure = {} /\ n.reading = {}
  BY ZenonT(30), <1>1, NewMpTyped
<1> HIDE DEF n
<1>5. mp'[c] = n /\ mp' \in [Clients -> Mp] /\ \A d \in Clients : d # c => mp'[d] = mp[d]
  BY <1>1, <1>3, <1>4
<1>6. \A q \in net' : q.client # c
  BY Zenon, <1>1, <1>3 DEF InFlight
<1>7. Holdings(c, {}, {})
  BY Zenon, <1>1, <1>3, <1>4, <1>5, CallOver DEF Still
<1>8. InFlight'
  BY Zenon, <1>1, <1>3, <1>5, <1>6, InFlightKept
<1>9. AttachedAt(c)'
  BY Zenon, <1>4, <1>5 DEF AttachedAt, Open
<1>10. \A r \in Replies(c) : r.req.inc # mp'[c].inc
  <2> SUFFICES ASSUME NEW r \in Replies(c) PROVE r.req.inc # mp'[c].inc
    BY Zenon
  <2>1. windows[c] # None
    BY Zenon, <1>1, RepliesTyped DEF RepliesAre
  <2>2. r.req.inc = windows[c].inc /\ windows[c].inc <= mp[c].inc
    BY Zenon, <1>1, <2>1 DEF Windowed, WindowedAt
  <2>3. windows[c].inc \in Nat
    BY Zenon, <1>1, <2>1, WindowTyped, OrchestratorAssumption
  <2>4. r.req.inc # mp[c].inc + 1
    BY Zenon, <1>1, <2>2, <2>3, NextAbove
  <2> QED BY Zenon, <1>4, <1>5, <2>4
<1>11. mp[c].inc <= mp'[c].inc
  <2>1. mp'[c].inc = mp[c].inc + 1
    BY Zenon, <1>4, <1>5
  <2>2. mp[c].inc \in Nat
    BY Zenon, <1>1
  <2> QED BY Zenon, <2>1, <2>2, NextAbove
<1>12. net' \subseteq Request /\ sent' \in Nat
  BY Zenon, <1>1, <1>3
<1> QED BY <1>3, <1>5, <1>7, <1>8, <1>9, <1>10, <1>11, <1>12, ClientStep

----------------------------------------------------------------------------
\* The orchestrator processes

\* A process moves on without serving or ending a region.
LEMMA ProcStep ==
    ASSUME OInv, Still, mp' = mp, net' = net, epoch' = epoch, acked' = acked, sent' = sent,
           proc' \in [Procs -> {"off", "fresh", "reset", "created", "serving", "refusing"}],
           marker' \in Procs \cup {None, Torn}, Serving' = Serving, Marked',
           \A c \in Clients : Open(c) /\ marker \in Procs => marker' \in Procs
    PROVE  OInv'
<1>1. /\ OTyped /\ Quiet /\ Attached /\ InFlight /\ Windowed /\ Region /\ Apart
      /\ (Serving # {} => Backed) /\ Acknowledged
  BY Zenon DEF OInv
<1>2. OTyped'
  BY Zenon, <1>1 DEF OTyped, Still
<1>3. /\ \A c \in Clients : Replies(c)' = Replies(c) /\ Open(c)' = Open(c)
  BY Zenon DEF Replies, Still, Open
<1>4. \A c \in Clients : \A o : Pending(c, o)' = Pending(c, o)
  BY Zenon, <1>3 DEF Pending
<1>5. \A c \in Clients : /\ Filling(c)' = Filling(c) /\ Reads(c)' = Reads(c)
                         /\ Spent(c)' = Spent(c)
  BY Zenon, <1>4 DEF Filling, Reads, Spent, Unresolved
<1>6. ASSUME NEW c \in Clients PROVE OInv'
  <2>1. Holdings(c, {}, {})
    BY Zenon, <1>5 DEF Holdings
  <2>2. Region' /\ Apart' /\ (Serving' # {} => Backed') /\ Acknowledged'
    BY Zenon, <1>2, <2>1, StillBacked
  <2>3. Quiet' /\ InFlight'
    BY Zenon, <1>1 DEF Quiet, InFlight, Still
  <2>4. Attached'
    <3> SUFFICES ASSUME NEW d \in Clients PROVE AttachedAt(d)'
      BY Zenon DEF Attached
    <3>1. AttachedAt(d)
      BY Zenon, <1>1 DEF Attached
    <3> QED BY Zenon, <1>3, <3>1 DEF AttachedAt, Registered, Still
  <2>5. Windowed'
    <3> SUFFICES ASSUME NEW d \in Clients PROVE WindowedAt(d)'
      BY Zenon DEF Windowed
    <3>1. WindowedAt(d) /\ \A g : Committed(g) => Committed(g)'
      BY Zenon, <1>1 DEF Windowed, Committed, Still
    <3> QED BY Zenon, <1>3, <3>1 DEF WindowedAt, Still
  <2> QED BY Zenon, <1>2, <2>2, <2>3, <2>4, <2>5 DEF OInv
<1>7. CASE Clients = {}
  <2>1. Region'
    BY <1>1, StillEffect DEF Still
  <2>2. Quiet' /\ InFlight' /\ Attached' /\ Windowed' /\ Apart' /\ Backed'
    BY Zenon, <1>1, <1>7 DEF Quiet, InFlight, Still, Attached, Windowed, Apart, Backed, Covered, Unspent,
                      Matching, Steady
  <2>3. Acknowledged'
    BY Zenon, <1>1 DEF Acknowledged, AckedIsValid, Still
  <2> QED BY <1>2, <2>1, <2>2, <2>3 DEF OInv
<1> QED BY Zenon, <1>6, <1>7

\* The start and the end of a process that does not serve.
LEMMA QuietSteps ==
    ASSUME OInv, NEW p \in Procs,
           \/ Start(p) \/ CreateMarker(p) \/ StartRefusing(p)
           \/ proc[p] # "serving" /\ (Stop(p) \/ Crash(p))
    PROVE  OInv'
<1>1. /\ OTyped /\ Marked /\ marker \in Procs \cup {None, Torn}
      /\ proc \in [Procs -> {"off", "fresh", "reset", "created", "serving", "refusing"}]
  BY Zenon DEF OInv, OTyped
<1>2. None \notin Procs /\ Torn \notin Procs /\ None # Torn
  BY Zenon, OrchestratorAssumption
<1>3. Still /\ mp' = mp /\ net' = net /\ epoch' = epoch /\ acked' = acked /\ sent' = sent
  BY Zenon DEF Start, CreateMarker, StartRefusing, Stop, Crash, Still, rvars
<1> DEFINE Goal == /\ proc' \in [Procs -> {"off", "fresh", "reset", "created", "serving", "refusing"}]
                   /\ marker' \in Procs \cup {None, Torn} /\ Serving' = Serving /\ Marked'
                   /\ \A c \in Clients : Open(c) /\ marker \in Procs => marker' \in Procs
<1> SUFFICES Goal
  BY Zenon, <1>3, ProcStep
<1>4. CASE Start(p)
  <2>1. /\ proc[p] = "off" /\ marker' = marker
        /\ \/ marker = None /\ proc' = [proc EXCEPT ![p] = "fresh"]
           \/ /\ marker \in Procs /\ (marker = p \/ proc[marker] = "off")
              /\ proc' = [proc EXCEPT ![p] = "reset"]
    <3>1. /\ proc[p] = "off" /\ marker' = marker /\ StartMode(p) # "off"
          /\ proc' = [proc EXCEPT ![p] = StartMode(p)]
      BY Zenon, <1>4 DEF Start, Off
    <3>2. CASE marker = None
      BY Zenon, <1>2, <3>1, <3>2 DEF StartMode
    <3>3. CASE marker = Torn
      BY Zenon, <1>2, <3>1, <3>3 DEF StartMode
    <3>4. CASE marker \in Procs
      <4>1. StartMode(p) = IF marker # p /\ proc[marker] # "off" THEN "off" ELSE "reset"
        BY Zenon, <1>2, <3>4 DEF StartMode, Off
      <4> QED BY Zenon, <3>1, <3>4, <4>1
    <3> QED BY <1>1, <3>2, <3>3, <3>4
  <2>2. Marked'
    BY <1>1, <1>2, <2>1 DEF Marked
  <2> QED BY Zenon, <1>1, <2>1, <2>2 DEF Serving
<1>5. CASE CreateMarker(p)
  <2>1. /\ proc[p] = "fresh"
        /\ \/ marker = None /\ marker' = Torn /\ proc' = [proc EXCEPT ![p] = "created"]
           \/ marker' = marker /\ proc' = [proc EXCEPT ![p] = "off"]
    BY Zenon, <1>5 DEF CreateMarker, CanCreate
  <2>2. Marked'
    BY <1>1, <1>2, <2>1 DEF Marked
  <2> QED BY Zenon, <1>1, <1>2, <2>1, <2>2 DEF Serving
<1>6. CASE StartRefusing(p)
  <2>1. proc[p] = "reset" /\ marker' = p /\ proc' = [proc EXCEPT ![p] = "refusing"]
    BY Zenon, <1>6 DEF StartRefusing
  <2>2. Marked'
    BY Zenon, <1>1, <1>2, <2>1 DEF Marked
  <2> QED BY Zenon, <1>1, <2>1, <2>2 DEF Serving
<1>7. CASE proc[p] # "serving" /\ (Stop(p) \/ Crash(p))
  <2>1. marker' = marker /\ proc' = [proc EXCEPT ![p] = "off"]
    BY Zenon, <1>7 DEF Stop, Crash, Released
  <2>2. Marked'
    BY Zenon, <1>1, <2>1 DEF Marked
  <2> QED BY Zenon, <1>1, <1>7, <2>1, <2>2 DEF Serving
<1> QED BY Zenon, <1>4, <1>5, <1>6, <1>7

\* The operator deletes the marker.
LEMMA ResetKeeps == ASSUME OInv, OperatorReset PROVE OInv'
<1>1. /\ OTyped /\ marker \in Procs \cup {None, Torn}
      /\ proc \in [Procs -> {"off", "fresh", "reset", "created", "serving", "refusing"}]
  BY Zenon DEF OInv, OTyped
<1>2. None \notin Procs /\ Torn \notin Procs /\ None # Torn
  BY Zenon, OrchestratorAssumption
<1>3. /\ \A q \in Procs : proc[q] = "off"
      /\ marker' = None /\ proc' = proc
      /\ marker # Torn => \A c \in Clients : ~mp[c].alive
      /\ Still /\ mp' = mp /\ net' = net /\ epoch' = epoch /\ acked' = acked /\ sent' = sent
  BY Zenon DEF OperatorReset, Off, Still, rvars
<1>4. Marked' /\ Serving' = Serving
  BY Zenon, <1>3 DEF Marked, Serving
<1>5. \A c \in Clients : Open(c) /\ marker \in Procs => marker' \in Procs
  BY Zenon, <1>2, <1>3 DEF Open
<1> QED BY Zenon, <1>1, <1>3, <1>4, <1>5, ProcStep

\* The serving process ends; its marker stays unless every client has left.
LEMMA EndKeeps ==
    ASSUME OInv, NEW p \in Procs, proc[p] = "serving", Stop(p) \/ Crash(p)
    PROVE  OInv'
<1>1. /\ OTyped /\ Marked /\ Attached /\ InFlight /\ Windowed /\ Apart /\ Acknowledged
      /\ p \in Serving
  BY Zenon DEF OInv, Serving
<1>2. /\ RReset /\ windows' = NoClients /\ ran' = {} /\ net' = {}
      /\ proc' = [proc EXCEPT ![p] = "off"]
      /\ epoch' = epoch /\ mp' = mp /\ acked' = acked /\ sent' = sent
      /\ marker' = marker \/ (marker' = None /\ \A c \in Clients : clients[c] = None)
  BY Zenon DEF Stop, Crash, EndRegion, Released
<1>3. OTyped'
  BY Zenon, <1>1, <1>2 DEF OTyped, NoClients
<1>4. Serving' = {}
  BY Zenon, <1>1, <1>2 DEF Marked, Serving, OTyped
<1>5. Marked'
  <2>1. \A q \in Procs : q # p => proc[q] \notin {"created", "serving", "reset", "refusing"}
    BY Zenon, <1>1 DEF Marked
  <2>2. \A q \in Procs : proc'[q] \notin {"created", "serving", "reset", "refusing"}
    BY Zenon, <1>1, <1>2, <2>1 DEF OTyped
  <2> QED BY Zenon, <2>2 DEF Marked
<1>6. Region'
  BY Zenon, <1>2, ResetRegion
<1>7. Quiet'
  BY Zenon, <1>2 DEF Quiet, RReset
<1>8. ASSUME NEW c \in Clients PROVE AttachedAt(c)' /\ WindowedAt(c)' /\ Replies(c)' = {}
  <2>1. AttachedAt(c) /\ windows'[c] = None /\ clients'[c] = None
    BY Zenon, <1>1, <1>2 DEF Attached, RReset, NoClients
  <2>2. Open(c) /\ mp[c].epoch # 0 => marker' \in Procs
    BY Zenon, <1>1, <1>2, <2>1 DEF AttachedAt, Registered
  <2>3. Replies(c)' = {}
    BY Zenon, <2>1 DEF Replies
  <2> QED BY Zenon, <1>2, <1>4, <2>1, <2>2, <2>3 DEF AttachedAt, WindowedAt, Open
<1>9. Attached' /\ Windowed' /\ InFlight'
  BY Zenon, <1>2, <1>8 DEF Attached, Windowed, InFlight
<1>10. Apart'
  <2>1. \A c \in Clients : Filling(c)' \subseteq Filling(c) /\ Reads(c)' \subseteq Reads(c)
    BY Zenon, <1>2, <1>8, PendingNext DEF Filling, Reads
  <2> QED BY Zenon, <1>1, <2>1 DEF Apart, GUnits, Units
<1>11. Acknowledged'
  BY Zenon, <1>1, <1>2, <1>4 DEF Acknowledged, AckedIsValid
<1> QED BY <1>3, <1>4, <1>5, <1>6, <1>7, <1>9, <1>10, <1>11 DEF OInv

\* A process serves a region of its own: nobody holds anything yet.
LEMMA StartServingKeeps ==
    ASSUME OInv, NEW p \in Procs, StartServing(p)
    PROVE  OInv'
<1>1. /\ OTyped /\ Region /\ Marked /\ Quiet /\ Attached /\ InFlight /\ Windowed /\ Acknowledged
      /\ epoch \in Nat /\ net \subseteq Request /\ acked \subseteq Grant
      /\ proc \in [Procs -> {"off", "fresh", "reset", "created", "serving", "refusing"}]
  BY Zenon DEF OInv, OTyped
<1>2. /\ proc[p] = "created" /\ marker' = p /\ proc' = [proc EXCEPT ![p] = "serving"]
      /\ epoch' = epoch + 1 /\ mp' = mp /\ net' = net /\ acked' = acked /\ sent' = sent /\ Still
  BY Zenon DEF StartServing, Still, rvars
<1>3. marker = Torn /\ marker \notin Procs
  BY Zenon, <1>1, <1>2, OrchestratorAssumption DEF Marked
<1>4. Serving = {}
  BY Zenon, <1>1, <1>2 DEF Serving, Marked
<1>5. windows = NoClients /\ clients = NoClients /\ objects = NoObjects
  BY Zenon, <1>1, <1>4 DEF Quiet
<1>6. OTyped' /\ Region'
  <2>1. Region'
    BY Zenon, <1>1, <1>2, StillEffect DEF Still
  <2>2. proc' \in [Procs -> {"off", "fresh", "reset", "created", "serving", "refusing"}]
    BY Zenon, <1>1, <1>2
  <2>3. epoch' \in Nat
    BY Zenon, <1>1, <1>2, NextAbove
  <2> QED BY Zenon, <1>1, <1>2, <2>1, <2>2, <2>3 DEF OTyped, Still
<1>7. Marked'
  <2>1. \A q \in Procs : q # p => proc[q] \notin {"created", "serving", "reset", "refusing"}
    BY Zenon, <1>1, <1>2 DEF Marked
  <2>2. proc'[p] = "serving" /\ \A q \in Procs : q # p => proc'[q] \notin {"created", "serving", "reset", "refusing"}
    BY Zenon, <1>1, <1>2, <2>1
  <2> QED BY Zenon, <1>2, <2>2 DEF Marked
<1>8. p \in Serving'
  BY Zenon, <1>1, <1>2 DEF Serving
<1>9. Quiet'
  BY Zenon, <1>8 DEF Quiet
<1>10. ASSUME NEW c \in Clients
       PROVE  /\ ~Open(c) \/ mp[c].epoch = 0
              /\ mp[c].copying = {} /\ mp[c].unsure = {} /\ mp[c].reading = {}
              /\ Replies(c)' = {} /\ AttachedAt(c)' /\ WindowedAt(c)'
              /\ mp[c].call # None => mp[c].call.epoch # epoch'
  <2>1. AttachedAt(c) /\ windows'[c] = None /\ clients'[c] = None
    BY Zenon, <1>1, <1>2, <1>5 DEF Attached, Still, NoClients
  <2>2. ~Open(c) \/ mp[c].epoch = 0
    BY Zenon, <1>3, <2>1 DEF AttachedAt
  <2>3. mp[c].copying = {} /\ mp[c].unsure = {} /\ mp[c].reading = {}
    BY Zenon, <2>1, <2>2 DEF AttachedAt
  <2>4. Replies(c)' = {}
    BY Zenon, <2>1 DEF Replies
  <2>5. mp[c].call # None => mp[c].call.epoch \in Nat /\ mp[c].call.epoch <= epoch
    BY Zenon, <1>1, <2>1, MpTyped, RequestTyped DEF AttachedAt
  <2>6. AttachedAt(c)'
    <3>1. mp[c].call # None => mp[c].call.epoch <= epoch'
      BY Zenon, <1>1, <1>2, <2>5, NextAbove
    <3> QED BY Zenon, <1>2, <2>1, <2>2, <2>3, <3>1 DEF AttachedAt, Open
  <2>7. WindowedAt(c)'
    BY Zenon, <2>1, <2>4 DEF WindowedAt
  <2>8. mp[c].call # None => mp[c].call.epoch # epoch'
    BY Zenon, <1>1, <1>2, <2>5, NextAbove
  <2> QED BY Zenon, <2>2, <2>3, <2>4, <2>6, <2>7, <2>8
<1>11. Attached' /\ Windowed'
  BY Zenon, <1>10 DEF Attached, Windowed
<1>12. \A q \in net : q.epoch \in Nat /\ q.epoch <= epoch /\ q.epoch <= epoch' /\ q.epoch # epoch'
  <2> SUFFICES ASSUME NEW q \in net
               PROVE  q.epoch \in Nat /\ q.epoch <= epoch /\ q.epoch <= epoch' /\ q.epoch # epoch'
    BY Zenon
  <2>1. q.epoch \in Nat /\ q.epoch <= epoch
    BY Zenon, <1>1, RequestTyped DEF InFlight
  <2> QED BY Zenon, <1>1, <1>2, <2>1, NextAbove
<1>13. InFlight'
  BY Zenon, <1>1, <1>2, <1>12 DEF InFlight
<1>14. ASSUME NEW c \in Clients PROVE Filling(c)' = {} /\ Reads(c)' = {} /\ Spent(c)' = {}
  <2>1. \A o : \A g : g \notin Pending(c, o)'
    BY Zenon, <1>10, PendingNext
  <2>2. ASSUME NEW h PROVE h \notin Spent(c)'
    <3>1. h \notin mp'[c].unsure
      BY Zenon, <1>2, <1>10
    <3>2. \A q \in net' : q.epoch # epoch'
      BY Zenon, <1>2, <1>12
    <3>3. mp'[c].call # None => mp'[c].call.epoch # epoch'
      BY Zenon, <1>2, <1>10
    <3> QED BY Zenon, <3>1, <3>2, <3>3, SpentNext
  <2> QED BY Zenon, <1>2, <1>10, <2>1, <2>2 DEF Filling, Reads
<1>15. Apart' /\ Backed'
  BY Zenon, <1>14 DEF Apart, Backed, Covered, Unspent, Matching, Steady
<1>16. Acknowledged'
  <2>1. \A g \in acked : g.epoch \in Nat /\ g.epoch <= epoch
    BY Zenon, <1>1 DEF Acknowledged, Grant
  <2>2. \A g \in acked' : g.epoch <= epoch' /\ g.epoch # epoch'
    BY <1>1, <1>2, <2>1
  <2> QED BY Zenon, <2>2 DEF Acknowledged, AckedIsValid
<1> QED BY Zenon, <1>6, <1>7, <1>9, <1>11, <1>13, <1>15, <1>16 DEF OInv

\* The deadline of a reservation passes.
LEMMA LapseKeeps ==
    ASSUME OInv, NEW k \in Keys, Lapse(k), proc' = proc, marker' = marker, epoch' = epoch,
           mp' = mp, net' = net, windows' = windows, ran' = ran, acked' = acked, sent' = sent
    PROVE  OInv'
<1>1. /\ OTyped /\ Region /\ Marked /\ Quiet /\ Attached /\ InFlight /\ Windowed /\ Acknowledged
      /\ Apart /\ (Serving # {} => Backed) /\ acked \subseteq Grant
  BY Zenon DEF OInv, OTyped
<1>2. Region' /\ Effect({}) /\ clients' = clients
  BY Zenon, <1>1, LapseEffect
<1>3. objects[k] # None
  BY Zenon DEF Lapse
<1>4. Serving # {}
  BY Zenon, <1>1, <1>3 DEF Quiet, NoObjects
<1>5. PICK c \in Clients : c = objects[k].writer
  BY Zenon, <1>1, <1>3, ObjectTyped DEF Region, RInv, Object
<1>6. OTyped' /\ Marked' /\ InFlight' /\ Serving' = Serving
  BY Zenon, <1>1 DEF OTyped, Marked, InFlight, Serving
<1>7. Quiet'
  BY Zenon, <1>4, <1>6 DEF Quiet
<1>8. Attached'
  BY Zenon, <1>1, <1>2, <1>6 DEF Attached, AttachedAt, Open, Registered
<1>9. \A d \in Clients : Replies(d)' = Replies(d)
  BY Zenon DEF Replies
<1>10. \A d \in Clients : Filling(d)' = Filling(d) /\ Reads(d)' = Reads(d) /\ Spent(d)' = Spent(d)
  <2>1. \A d \in Clients : \A o : Pending(d, o)' = Pending(d, o)
    BY Zenon, <1>9 DEF Pending
  <2> QED BY ZenonT(30), <2>1 DEF Filling, Reads, Spent, Unresolved
<1>11. Apart' /\ Backed'
  <2>1. Holdings(c, {}, {})
    BY Zenon, <1>10 DEF Holdings
  <2>2. Granting(c, {}, {}, {})
    BY Zenon, <1>2, <2>1 DEF Granting
  <2>3. GrantsTyped /\ GrantsTyped'
    BY Zenon, <1>1, <1>10, TypedGrants DEF GrantsTyped
  <2> QED BY Zenon, <1>1, <1>2, <1>4, <2>2, <2>3, GrantsKept
<1>12. \A g \in Grant : Committed(g) => Committed(g)'
  BY Zenon, <1>2, CommittedKept
<1>13. Windowed'
  <2> SUFFICES ASSUME NEW d \in Clients PROVE WindowedAt(d)'
    BY Zenon DEF Windowed
  <2>1. WindowedAt(d)
    BY Zenon, <1>1 DEF Windowed
  <2>2. \A r \in Replies(d) : r.req.op = "FINISH_WRITE" => r.req.arg \in Grant
    BY Zenon, <1>1, RepliesTyped, RequestTyped DEF RepliesAre, Ops
  <2> QED BY Zenon, <1>2, <1>9, <1>12, <2>1, <2>2 DEF WindowedAt
<1>14. Acknowledged'
  BY Zenon, <1>1, <1>6, <1>12 DEF Acknowledged, AckedIsValid, Committed
<1> QED BY Zenon, <1>2, <1>6, <1>7, <1>8, <1>11, <1>13, <1>14 DEF OInv

----------------------------------------------------------------------------
\* The invariant of the orchestrator

\* It holds at first.
LEMMA InitKept == OInit => OInv
<1> SUFFICES ASSUME OInit PROVE OInv
  BY Zenon
<1>1. /\ RInit /\ proc = [p \in Procs |-> "off"] /\ marker = None /\ epoch = 0
      /\ mp = [c \in Clients |-> NewMp(1)]
      /\ net = {} /\ windows = NoClients /\ ran = {} /\ acked = {} /\ sent = 0
  BY Zenon DEF OInit
<1>2. 1 \in Incarnations
  BY Zenon, OrchestratorAssumption
<1>3. \A c \in Clients : /\ mp[c] \in Mp /\ mp[c].epoch = 0 /\ mp[c].call = None
                         /\ mp[c].copying = {} /\ mp[c].unsure = {} /\ mp[c].reading = {}
  <2>1. \A c \in Clients : mp[c] = NewMp(1)
    BY Zenon, <1>1
  <2> QED BY Zenon, <1>2, <2>1, NewMpTyped
<1>4. mp \in [Clients -> Mp]
  BY Zenon, <1>1, <1>3
<1>5. OTyped
  BY Zenon, <1>1, <1>4 DEF OTyped, NoClients
<1>6. Region
  BY Zenon, <1>1, InitSafe DEF RInit, Region, TokensDrawn, FinishedStays, NoObjects, NoClients
<1>7. Marked /\ Serving = {}
  BY Zenon, <1>1 DEF Marked, Serving
<1>8. Quiet /\ InFlight /\ Acknowledged
  BY Zenon, <1>1, <1>7 DEF Quiet, InFlight, Acknowledged, AckedIsValid, RInit
<1>9. \A c \in Clients : Replies(c) = {} /\ windows[c] = None /\ clients[c] = None
  BY Zenon, <1>1 DEF Replies, RInit, NoClients
<1>10. Attached /\ Windowed
  BY Zenon, <1>3, <1>9 DEF Attached, AttachedAt, Windowed, WindowedAt
<1>11. \A c \in Clients : Filling(c) = {}
  BY Zenon, <1>3, <1>9 DEF Filling, Pending
<1>12. Apart
  BY Zenon, <1>11 DEF Apart
<1> QED BY Zenon, <1>5, <1>6, <1>7, <1>8, <1>10, <1>12 DEF OInv

\* A step that changes nothing.
LEMMA StutterKeeps == ASSUME OInv, UNCHANGED ovars PROVE OInv'
<1>1. /\ Still /\ mp' = mp /\ net' = net /\ epoch' = epoch /\ acked' = acked /\ sent' = sent
      /\ proc' = proc /\ marker' = marker
  BY Zenon DEF ovars, rvars, Still
<1>2. OTyped /\ Marked
  BY Zenon DEF OInv
<1>3. Marked' /\ Serving' = Serving
  BY Zenon, <1>1, <1>2 DEF Marked, Serving
<1>4. /\ proc' \in [Procs -> {"off", "fresh", "reset", "created", "serving", "refusing"}]
      /\ marker' \in Procs \cup {None, Torn}
  BY Zenon, <1>1, <1>2 DEF OTyped
<1> QED BY Zenon, <1>1, <1>3, <1>4, ProcStep

\* Every step keeps it.
LEMMA StepKeeps ==
    ASSUME LateAttempts = FALSE
    PROVE  OInv /\ [ONext]_ovars => OInv'
<1> SUFFICES ASSUME OInv, [ONext]_ovars PROVE OInv'
  BY Zenon
<1>1. ASSUME NEW c \in Clients, Starts(c) \/ GiveUp(c) \/ CrashClient(c) \/ RestartClient(c)
      PROVE  OInv'
  BY Zenon, <1>1, StartKeeps, GiveUpKeeps, CrashClientKeeps, RestartClientKeeps
<1>2. ASSUME NEW req \in net, NEW lost, Serve(req, lost) PROVE OInv'
  BY Zenon, <1>2, ServeKeeps
<1>3. ASSUME NEW k \in Keys, Lapse(k),
             UNCHANGED <<proc, marker, epoch, mp, net, windows, ran, rerun, acked, sent>>
      PROVE  OInv'
  BY Zenon, <1>3, LapseKeeps
<1>4. ASSUME NEW p \in Procs, \/ Start(p) \/ CreateMarker(p) \/ StartServing(p) \/ StartRefusing(p)
                              \/ Stop(p) \/ Crash(p)
      PROVE  OInv'
  BY Zenon, <1>4, QuietSteps, EndKeeps, StartServingKeeps
<1>5. CASE OperatorReset
  BY Zenon, <1>5, ResetKeeps
<1>6. CASE UNCHANGED ovars
  BY Zenon, <1>6, StutterKeeps
<1> QED BY Zenon, <1>1, <1>2, <1>3, <1>4, <1>5, <1>6 DEF ONext, Starts

----------------------------------------------------------------------------
\* Theorems

\* The invariant gives what the properties say.
LEMMA InvariantGives == OInv => WriterIsAlone /\ AckedIsValid /\ TokensMatchObjects
<1> SUFFICES ASSUME OInv PROVE WriterIsAlone /\ AckedIsValid /\ TokensMatchObjects
  BY Zenon
<1>1. WriterIsAlone
  <2> SUFFICES ASSUME NEW c \in Clients, NEW g \in mp[c].copying
               PROVE  /\ \A d \in Clients :
                         \A h \in (mp[d].copying \ (IF c = d THEN {g} ELSE {})) \cup mp[d].reading :
                            GUnits(g) \cap GUnits(h) = {}
                      /\ Serving # {} =>
                            \A k \in Keys : objects[k] # None /\ GUnits(g) \cap Extent(k) # {} =>
                               g.epoch = epoch /\ g.token = objects[k].token /\ objects[k].state = "WRITING"
    BY Zenon DEF WriterIsAlone
  <2>1. g \in Filling(c)
    BY Zenon DEF Filling
  <2>2. \A d \in Clients : \A h \in mp[d].copying : (c = d /\ g = h) \/ GUnits(g) \cap GUnits(h) = {}
    BY Zenon, <2>1 DEF OInv, Apart, Filling
  <2>3. \A d \in Clients : \A h \in mp[d].reading : GUnits(g) \cap GUnits(h) = {}
    BY Zenon, <2>1 DEF OInv, Apart, Reads
  <2>4. Serving # {} =>
           \A k \in Keys : objects[k] # None /\ GUnits(g) \cap Extent(k) # {} =>
               g.epoch = epoch /\ g.token = objects[k].token /\ objects[k].state = "WRITING"
    BY Zenon, <2>1 DEF OInv, Backed, Covered, Matching
  <2> QED BY Zenon, <2>2, <2>3, <2>4
<1>2. AckedIsValid
  BY Zenon DEF OInv, Acknowledged
<1>3. TokensMatchObjects
  BY Zenon DEF OInv, Region, RInv
<1> QED BY Zenon, <1>1, <1>2, <1>3

\* An MP server that fills an extent is alone on it, whatever is retried, lost
\* or retired, and across restarts of the orchestrator (WriterIsAlone).
THEOREM WritersStayAlone == ASSUME LateAttempts = FALSE PROVE OSpec => []WriterIsAlone
BY InitKept, StepKeeps, InvariantGives, PTL DEF OSpec

\* An acknowledged commit stays readable while its epoch lasts (AckedIsValid).
THEOREM AckedStaysValid == ASSUME LateAttempts = FALSE PROVE OSpec => []AckedIsValid
BY InitKept, StepKeeps, InvariantGives, PTL DEF OSpec

\* In the composed system, too, a live token names a WRITING object of its
\* client and no other token names it (TokensMatchObjects).
THEOREM TokensStayMatched == ASSUME LateAttempts = FALSE PROVE OSpec => []TokensMatchObjects
BY InitKept, StepKeeps, InvariantGives, PTL DEF OSpec
=============================================================================
