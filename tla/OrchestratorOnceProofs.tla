-------------------------- MODULE OrchestratorOnceProofs --------------------------
(***************************************************************************)
(* One process serves at a time, and no request of an open client runs     *)
(* twice while its reply window is large enough.                           *)
(***************************************************************************)
EXTENDS OrchestratorStepProofs, FiniteSetTheorems

----------------------------------------------------------------------------
\* Requests run once

\* The ids of a client's requests grow, and its window has each at most once.
NumberedAt(c) ==
    /\ mp[c].nextId <= sent + 1
    /\ windows[c] # None =>
          \A i, j \in DOMAIN windows[c].replies :
              windows[c].replies[i].req.id = windows[c].replies[j].req.id => i = j

\* A request is known by its client, incarnation and id.
Numbered ==
    /\ \A c \in Clients : NumberedAt(c)
    /\ \A q \in net : \A r \in Replies(q.client) : r.req.inc = q.inc /\ r.req.id = q.id => r.req = q
    /\ \A q, s \in net : q.client = s.client /\ q.id = s.id => q = s
    /\ \A q \in ran : q.inc <= mp[q.client].inc

\* While a window holds every call that was made, what an open client had
\* executed is still recorded.
Remembered ==
    sent <= WindowSize =>
        /\ rerun = {}
        /\ \A q \in ran : Open(q.client) /\ q.inc = mp[q.client].inc =>
              \E r \in Replies(q.client) : r.req = q

Once == Numbered /\ Remembered

\* Steps that execute and send nothing.
LEMMA OnceIdle ==
    ASSUME OInv, Once, windows' = windows, ran' = ran, rerun' = rerun, sent' = sent, net' \subseteq net,
           OTyped',
           \A c \in Clients :
              /\ mp'[c].nextId = mp[c].nextId \/ mp'[c].nextId = 1
              /\ mp[c].inc <= mp'[c].inc
              /\ Open(c)' => Open(c) \/ mp[c].inc < mp'[c].inc
    PROVE  Once'
<1>1. OTyped /\ sent \in Nat /\ ran \subseteq Request /\ net \subseteq Request
  BY Zenon DEF OInv, OTyped
<1>2. \A c \in Clients : Replies(c)' = Replies(c)
  BY Zenon DEF Replies
<1>3. \A c \in Clients : /\ mp[c].inc \in Nat /\ mp'[c].inc \in Nat /\ mp[c].nextId \in Nat
  BY Zenon, <1>1, MpTyped, OrchestratorAssumption DEF OTyped, Mp
<1>4. \A q \in Request : q.client \in Clients /\ q.inc \in Nat
  BY Zenon, RequestTyped, OrchestratorAssumption
<1>5. \A c \in Clients : NumberedAt(c)'
  <2> SUFFICES ASSUME NEW c \in Clients PROVE NumberedAt(c)'
    BY Zenon
  <2>1. NumberedAt(c)
    BY Zenon DEF Once, Numbered
  <2>2. mp'[c].nextId <= sent' + 1
    BY <1>1, <1>3, <2>1 DEF NumberedAt
  <2> QED BY Zenon, <2>1, <2>2 DEF NumberedAt
<1>6. \A q \in ran : q.inc <= mp[q.client].inc /\ q.inc <= mp'[q.client].inc
  BY <1>1, <1>3, <1>4 DEF Once, Numbered
<1>7. Numbered'
  BY Zenon, <1>1, <1>2, <1>4, <1>5, <1>6 DEF Once, Numbered
<1>8. ASSUME NEW q \in ran, Open(q.client)', q.inc = mp'[q.client].inc
      PROVE  Open(q.client) /\ q.inc = mp[q.client].inc
  <2>1. q.client \in Clients /\ q.inc \in Nat
    BY Zenon, <1>1, <1>4
  <2> QED BY <1>3, <1>6, <1>8, <2>1
<1>9. Remembered'
  BY <1>1, <1>2, <1>4, <1>8 DEF Once, Remembered
<1> QED BY Zenon, <1>7, <1>9 DEF Once

\* The serving process ends.
LEMMA OnceEnds ==
    ASSUME OInv, Once, NEW p \in Procs, proc[p] = "serving", Stop(p) \/ Crash(p)
    PROVE  Once'
<1>1. /\ windows' = NoClients /\ ran' = {} /\ net' = {} /\ mp' = mp /\ sent' = sent /\ rerun' = rerun
  BY Zenon DEF Stop, Crash, EndRegion
<1>2. \A c \in Clients : windows'[c] = None
  BY Zenon, <1>1 DEF NoClients
<1>3. \A c \in Clients : NumberedAt(c)'
  BY Zenon, <1>1, <1>2 DEF Once, Numbered, NumberedAt
<1> QED BY Zenon, <1>1, <1>3 DEF Once, Numbered, Remembered

\* A client sends its next request.
LEMMA OnceSent ==
    ASSUME OInv, Once, NEW c \in Clients, NEW m, NEW ep, NEW op, NEW arg, Sends(c, m, ep, op, arg)
    PROVE  Once'
<1> DEFINE req == NextRequest(c, ep, op, arg)
<1>1. /\ OTyped /\ Windowed /\ InFlight /\ sent \in Nat /\ WindowSize \in Nat
      /\ ran \subseteq Request /\ net \subseteq Request
  BY Zenon, OrchestratorAssumption DEF OInv, OTyped
<1>2. /\ \A d \in Clients : d # c => mp'[d] = mp[d]
      /\ mp'[c].alive = mp[c].alive /\ mp'[c].inc = mp[c].inc
      /\ mp'[c].nextId = mp[c].nextId + 1
      /\ net' = net \cup {req} /\ sent' = sent + 1 /\ Still /\ mp[c].alive /\ ~mp[c].closed
  BY <1>1, SendIs
<1>3. req.client = c /\ req.inc = mp[c].inc /\ req.id = mp[c].nextId
  BY Zenon DEF NextRequest
<1> HIDE DEF req
<1>4. \A d \in Clients : Replies(d)' = Replies(d)
  BY Zenon, <1>2 DEF Replies, Still
<1>5. \A d \in Clients : mp[d].nextId \in Nat /\ mp'[d].inc = mp[d].inc
  BY Zenon, <1>1, <1>2, MpTyped
<1>6. \A q \in Request : q.client \in Clients
  BY Zenon, RequestTyped
<1>7. ASSUME NEW d \in Clients PROVE NumberedAt(d)'
  <2>1. NumberedAt(d) /\ windows' = windows
    BY Zenon, <1>2 DEF Once, Numbered, Still
  <2>2. mp'[d].nextId <= sent' + 1
    BY <1>1, <1>2, <1>5, <2>1 DEF NumberedAt
  <2> QED BY Zenon, <2>1, <2>2 DEF NumberedAt
<1>8. \A q \in net : q.client = c => q.id # mp[c].nextId
  BY <1>1, <1>5 DEF InFlight
<1>9. \A r \in Replies(c) : r.req.inc = mp[c].inc => r.req.id # mp[c].nextId
  BY <1>1, <1>2, <1>5 DEF Windowed, WindowedAt
<1>10. ASSUME NEW q \in net', NEW r \in Replies(q.client)', r.req.inc = q.inc, r.req.id = q.id
       PROVE  r.req = q
  <2>1. CASE q = req
    BY <1>3, <1>4, <1>9, <1>10, <2>1
  <2>2. CASE q \in net
    BY <1>1, <1>4, <1>6, <1>10, <2>2 DEF Once, Numbered
  <2> QED BY Zenon, <1>2, <2>1, <2>2
<1>11. ASSUME NEW q \in net', NEW s \in net', q.client = s.client, q.id = s.id PROVE q = s
  <2>1. CASE q = req \/ s = req
    BY <1>2, <1>3, <1>8, <1>11, <2>1
  <2>2. CASE q \in net /\ s \in net
    BY Zenon, <1>11, <2>2 DEF Once, Numbered
  <2> QED BY Zenon, <1>2, <2>1, <2>2
<1>12. \A q \in ran' : q.inc <= mp'[q.client].inc
  BY Zenon, <1>1, <1>2, <1>5, <1>6 DEF Once, Numbered, Still
<1>13. Numbered'
  BY Zenon, <1>7, <1>10, <1>11, <1>12 DEF Numbered
<1>14. \A d \in Clients : Open(d)' => Open(d)
  BY Zenon, <1>2 DEF Open
<1>15. sent' <= WindowSize => sent <= WindowSize
  BY <1>1, <1>2
<1>16. Remembered'
  BY <1>1, <1>2, <1>4, <1>5, <1>6, <1>14, <1>15 DEF Once, Remembered, Still
<1> QED BY Zenon, <1>13, <1>16 DEF Once

\* Distinct numbers from 1 to n - 1, one for each place of a sequence.
LEMMA DistinctFit ==
    ASSUME NEW l \in Nat, NEW n \in Nat, n # 0, NEW f \in [1..l -> 1..(n - 1)],
           \A i, j \in 1..l : f[i] = f[j] => i = j
    PROVE  l <= n - 1
<1>1. IsFiniteSet(1..l) /\ Cardinality(1..l) = l
  BY FS_Interval
<1>2. IsFiniteSet(1..(n - 1)) /\ Cardinality(1..(n - 1)) = n - 1
  BY FS_Interval
<1>3. CASE n - 1 < l
  <2>1. \E x, y \in 1..l : x # y /\ f[x] = f[y]
    BY <1>1, <1>2, <1>3, FS_PigeonHole
  <2> QED BY Zenon, <2>1
<1> QED BY <1>3

\* A window takes one more reply: ids stay distinct, and while there are fewer
\* than WindowSize of them nothing leaves.
LEMMA WindowGrows ==
    ASSUME OTyped, NEW req \in Request, req.op # "Close", NEW reply \in Reply,
           NumberedAt(req.client), NEW n \in Nat, req.id < n,
           \A r \in Replies(req.client) :
              windows[req.client].inc = req.inc => r.req.id # req.id /\ r.req.id < n
    PROVE  LET w == WindowAfter(req, reply).replies IN
           /\ \A i, j \in DOMAIN w : w[i].req.id = w[j].req.id => i = j
           /\ n - 1 <= WindowSize =>
                 /\ \E i \in DOMAIN w : w[i].req = req
                 /\ \A r \in Replies(req.client) :
                       windows[req.client].inc = req.inc => \E i \in DOMAIN w : w[i] = r
<1> DEFINE c == req.client
           Q == [req : Request, reply : Reply]
           e == [req |-> req, reply |-> reply]
           fresh == windows[c] = None \/ windows[c].inc # req.inc
           old == IF fresh THEN <<>> ELSE windows[c].replies
           all == Append(old, e)
           kept == Kept(all)
           Goal == /\ \A i, j \in DOMAIN kept : kept[i].req.id = kept[j].req.id => i = j
                   /\ n - 1 <= WindowSize =>
                         /\ \E i \in DOMAIN kept : kept[i].req = req
                         /\ \A r \in Replies(c) :
                               windows[c].inc = req.inc => \E i \in DOMAIN kept : kept[i] = r
<1>1. /\ c \in Clients /\ e \in Q /\ e.req = req /\ WindowSize \in Nat
      /\ \A q \in Request : q.id \in Nat /\ q.id # 0
  BY Zenon, RequestTyped, OrchestratorAssumption
<1>2. WindowAfter(req, reply).replies = kept
  BY Zenon DEF WindowAfter
<1> SUFFICES Goal
  BY <1>2
<1>3. old \in Seq(Q)
  <2>1. CASE fresh
    BY <2>1
  <2>2. CASE ~fresh
    BY Zenon, <1>1, <2>2, WindowTyped
  <2> QED BY Zenon, <2>1, <2>2
<1>4. \A i, j \in DOMAIN old : old[i].req.id = old[j].req.id => i = j
  <2>1. CASE fresh
    BY <2>1
  <2>2. CASE ~fresh
    BY Zenon, <2>2 DEF NumberedAt
  <2> QED BY Zenon, <2>1, <2>2
<1>5. \A i \in DOMAIN old : old[i].req.id # req.id /\ old[i].req.id < n
  <2>1. CASE fresh
    BY <2>1
  <2>2. CASE ~fresh
    BY Zenon, <2>2 DEF Replies
  <2> QED BY Zenon, <2>1, <2>2
<1>6. \A r \in Replies(c) : windows[c].inc = req.inc => \E i \in DOMAIN old : old[i] = r
  <2> SUFFICES ASSUME NEW r \in Replies(c), windows[c].inc = req.inc
               PROVE  \E i \in DOMAIN old : old[i] = r
    BY Zenon
  <2>1. windows[c] # None
    BY Zenon DEF Replies
  <2> QED BY Zenon, <2>1 DEF Replies
<1> HIDE DEF old, Q, e
<1>7. /\ all \in Seq(Q) /\ Len(all) = Len(old) + 1 /\ all # <<>> /\ Len(old) \in Nat
      /\ \A j \in 1..Len(old) : all[j] = old[j]
      /\ all[Len(old) + 1] = e /\ DOMAIN all = 1..(Len(old) + 1) /\ DOMAIN old = 1..Len(old)
  BY <1>1, <1>3
<1> HIDE DEF all
<1>8. \A i, j \in DOMAIN all : all[i].req.id = all[j].req.id => i = j
  <2> SUFFICES ASSUME NEW i \in DOMAIN all, NEW j \in DOMAIN all, all[i].req.id = all[j].req.id
               PROVE  i = j
    BY Zenon
  <2>1. (i = Len(old) + 1 \/ i \in 1..Len(old)) /\ (j = Len(old) + 1 \/ j \in 1..Len(old))
    BY <1>7
  <2>2. CASE i \in 1..Len(old) /\ j \in 1..Len(old)
    BY Zenon, <1>4, <1>7, <2>2
  <2>3. CASE i = Len(old) + 1 /\ j \in 1..Len(old)
    BY <1>1, <1>5, <1>7, <2>3
  <2>4. CASE j = Len(old) + 1 /\ i \in 1..Len(old)
    BY <1>1, <1>5, <1>7, <2>4
  <2> QED BY <2>1, <2>2, <2>3, <2>4
<1>9. \A i \in DOMAIN all : all[i].req.id \in 1..(n - 1)
  <2> SUFFICES ASSUME NEW i \in DOMAIN all PROVE all[i].req.id \in 1..(n - 1)
    BY Zenon
  <2>1. all[i] \in Q
    BY <1>7
  <2>2. all[i].req.id \in Nat /\ all[i].req.id # 0
    BY Zenon, <1>1, <2>1 DEF Q
  <2>3. all[i].req.id < n
    <3>1. i = Len(old) + 1 \/ i \in 1..Len(old)
      BY <1>7
    <3> QED BY <1>1, <1>5, <1>7, <3>1
  <2> QED BY <2>2, <2>3
<1>10. Len(all) <= n - 1
  <2> DEFINE f == [i \in 1..Len(all) |-> all[i].req.id]
  <2>1. Len(all) \in Nat /\ DOMAIN all = 1..Len(all)
    BY <1>7
  <2>2. f \in [1..Len(all) -> 1..(n - 1)] /\ \A i, j \in 1..Len(all) : f[i] = f[j] => i = j
    BY Zenon, <1>8, <1>9, <2>1
  <2>3. n # 0
    BY <1>1
  <2> HIDE DEF f
  <2> QED BY Zenon, <2>1, <2>2, <2>3, DistinctFit
<1>11. CASE Len(all) > WindowSize
  <2>1. /\ Tail(all) \in Seq(Q) /\ Len(Tail(all)) = Len(all) - 1 /\ Len(all) \in Nat
        /\ \A j \in 1..(Len(all) - 1) : Tail(all)[j] = all[j + 1]
    BY <1>7
  <2>2. kept = Tail(all) /\ DOMAIN kept = 1..(Len(all) - 1)
    BY <1>11, <2>1 DEF Kept
  <2> HIDE DEF kept
  <2>3. \A i \in DOMAIN kept : i + 1 \in DOMAIN all /\ kept[i] = all[i + 1] /\ i \in Nat
    BY <1>7, <2>1, <2>2
  <2>4. \A i, j \in DOMAIN kept : kept[i].req.id = kept[j].req.id => i = j
    <3> SUFFICES ASSUME NEW i \in DOMAIN kept, NEW j \in DOMAIN kept, kept[i].req.id = kept[j].req.id
                 PROVE  i = j
      BY Zenon
    <3>1. i + 1 = j + 1
      BY <1>8, <2>3
    <3> QED BY <2>3, <3>1
  <2>5. ~(n - 1 <= WindowSize)
    BY <1>1, <1>10, <1>11, <2>1
  <2> QED BY Zenon, <2>4, <2>5
<1>12. CASE ~(Len(all) > WindowSize)
  <2>1. kept = all
    BY Zenon, <1>12 DEF Kept
  <2> HIDE DEF kept
  <2>2. Len(old) + 1 \in DOMAIN kept /\ kept[Len(old) + 1].req = req
    BY <1>1, <1>7, <2>1
  <2>3. \A i \in DOMAIN old : i \in DOMAIN kept /\ kept[i] = old[i]
    BY <1>7, <2>1
  <2> QED BY <1>6, <1>8, <2>1, <2>2, <2>3
<1> QED BY Zenon, <1>11, <1>12

\* A request is served.
LEMMA OnceServed ==
    ASSUME OInv, Once, NEW req, NEW reply, Served(req, reply)
    PROVE  Once'
<1> DEFINE c == req.client
           w == WindowAfter(req, reply).replies
<1>1. /\ OTyped /\ OTyped' /\ Windowed /\ InFlight /\ sent \in Nat /\ WindowSize \in Nat
      /\ ran \subseteq Request /\ net \subseteq Request
      /\ req \in net /\ req \in Request /\ c \in Clients /\ reply \in Reply /\ sent' = sent
  BY Zenon, ServedTyped, OrchestratorAssumption DEF OInv, OTyped, Served
<1>2. /\ net' \subseteq net
      /\ \A d \in Clients : /\ mp'[d].alive = mp[d].alive /\ mp'[d].inc = mp[d].inc
                            /\ mp'[d].closed = mp[d].closed /\ mp'[d].nextId = mp[d].nextId
  BY Zenon, <1>1 DEF Served, Delivered
<1>3. \A d \in Clients : Open(d)' = Open(d) /\ mp[d].inc \in Nat /\ mp[d].nextId \in Nat
  BY Zenon, <1>1, <1>2, MpTyped DEF Open
<1>4. CASE Still
  <2>1. \A d \in Clients : mp[d].inc <= mp'[d].inc
    BY <1>2, <1>3
  <2>2. windows' = windows /\ ran' = ran /\ rerun' = rerun
    BY Zenon, <1>4 DEF Still
  <2> QED BY Zenon, <1>1, <1>2, <1>3, <2>1, <2>2, OnceIdle
<1>5. CASE FromRegion(req, reply)
  <2>1. /\ windows' = [windows EXCEPT ![c] = WindowAfter(req, reply)] /\ Recorded(req) = {}
        /\ ran' = ran \cup {req}
        /\ rerun' = IF req \in ran /\ ~mp[c].closed THEN rerun \cup {req} ELSE rerun
    BY Zenon, <1>5 DEF FromRegion
  <2>2. \A q \in Request : q.client \in Clients /\ q.inc \in Nat
    BY Zenon, RequestTyped, OrchestratorAssumption
  <2>3. \A r \in Replies(c) : r.req # req
    BY Zenon, <1>1, <2>1, RecordedIs
  <2>4. mp[c].alive /\ req.inc = mp[c].inc /\ req.id < mp[c].nextId
    BY Zenon, <1>1 DEF InFlight
  <2>5. /\ \A d \in Clients : d # c => windows'[d] = windows[d] /\ Replies(d)' = Replies(d)
        /\ req.op = "Close" => windows'[c] = None /\ Replies(c)' = {}
        /\ req.op # "Close" =>
              /\ windows'[c] # None /\ windows'[c].inc = req.inc
              /\ \A r \in Replies(c)' : \/ r = [req |-> req, reply |-> reply]
                                        \/ r \in Replies(c) /\ windows[c].inc = req.inc
    BY Zenon, <1>1, <2>1, NewReplies
  <2>6. \A r \in Replies(c) : windows[c].inc = req.inc => r.req.inc = req.inc /\ r.req.id # req.id /\ r.req.id < mp[c].nextId
    <3>1. \A r \in Replies(c) : r.req.inc = windows[c].inc /\ (r.req.inc = mp[c].inc => r.req.id < mp[c].nextId)
      BY Zenon, <1>1, <2>4 DEF Windowed, WindowedAt
    <3>2. \A r \in Replies(c) : r.req.inc = req.inc /\ r.req.id = req.id => r.req = req
      BY Zenon, <1>1 DEF Once, Numbered
    <3> QED BY Zenon, <2>3, <2>4, <3>1, <3>2
  <2>7. \A d \in Clients : NumberedAt(d) /\ mp[d].nextId <= sent + 1
    BY Zenon DEF Once, Numbered, NumberedAt
  <2>8. req.op # "Close" =>
           /\ \A i, j \in DOMAIN w : w[i].req.id = w[j].req.id => i = j
           /\ mp[c].nextId - 1 <= WindowSize =>
                 /\ \E i \in DOMAIN w : w[i].req = req
                 /\ \A r \in Replies(c) : windows[c].inc = req.inc => \E i \in DOMAIN w : w[i] = r
    <3>1. mp[c].nextId \in Nat /\ NumberedAt(c)
      BY Zenon, <1>1, <1>3, <2>7
    <3> QED BY SMTT(30), <1>1, <2>4, <2>6, <3>1, WindowGrows
  <2>9. req.op # "Close" => windows'[c].replies = w /\ \A i \in DOMAIN w : w[i] \in Replies(c)'
    <3>1. c \in DOMAIN windows
      BY Zenon, <1>1 DEF OTyped
    <3>2. windows'[c] = WindowAfter(req, reply)
      BY Zenon, <2>1, <3>1
    <3> QED BY Zenon, <2>5, <3>2 DEF Replies
  <2> HIDE DEF w
  <2>10. \A d \in Clients : NumberedAt(d)'
    <3> SUFFICES ASSUME NEW d \in Clients PROVE NumberedAt(d)'
      BY Zenon
    <3>1. mp'[d].nextId <= sent' + 1
      BY <1>1, <1>2, <2>7
    <3>2. CASE d # c
      BY <2>5, <2>7, <3>1, <3>2 DEF NumberedAt
    <3>3. CASE d = c /\ req.op = "Close"
      BY <2>5, <3>1, <3>3 DEF NumberedAt
    <3>4. CASE d = c /\ req.op # "Close"
      BY <2>8, <2>9, <3>1, <3>4 DEF NumberedAt
    <3> QED BY <3>2, <3>3, <3>4
  <2>11. ASSUME NEW q \in net', NEW r \in Replies(q.client)', r.req.inc = q.inc, r.req.id = q.id
         PROVE  r.req = q
    <3>1. q \in net /\ q.client \in Clients
      BY Zenon, <1>1, <1>2, <2>2
    <3>2. CASE r \in Replies(q.client)
      BY <2>11, <3>1, <3>2 DEF Once, Numbered
    <3>3. CASE q.client = c /\ r = [req |-> req, reply |-> reply]
      BY <1>1, <2>11, <3>1, <3>3 DEF Once, Numbered
    <3> QED BY Zenon, <2>5, <2>11, <3>1, <3>2, <3>3
  <2>12. \A q, s \in net' : q.client = s.client /\ q.id = s.id => q = s
    BY Zenon, <1>2 DEF Once, Numbered
  <2>13. \A q \in ran' : q.inc <= mp'[q.client].inc
    <3>1. \A q \in ran : q.inc <= mp[q.client].inc
      BY Zenon DEF Once, Numbered
    <3>2. req.inc <= mp[c].inc
      BY <1>1, <1>3, <2>4
    <3> QED BY <1>1, <1>2, <2>1, <2>2, <3>1, <3>2
  <2>14. Numbered'
    BY <2>10, <2>11, <2>12, <2>13 DEF Numbered
  <2>15. ASSUME sent <= WindowSize PROVE rerun' = {}
    <3>1. rerun = {} /\ (req \in ran /\ Open(c) /\ req.inc = mp[c].inc => \E r \in Replies(c) : r.req = req)
      BY Zenon, <2>15 DEF Once, Remembered
    <3>2. ~(req \in ran /\ ~mp[c].closed)
      BY <2>3, <2>4, <3>1 DEF Open
    <3> QED BY <2>1, <3>1, <3>2
  <2>16. ASSUME sent <= WindowSize, NEW q \in ran', Open(q.client), q.inc = mp[q.client].inc
         PROVE  \E r \in Replies(q.client)' : r.req = q
    <3>1. q \in ran => \E r \in Replies(q.client) : r.req = q
      BY Zenon, <2>16 DEF Once, Remembered
    <3>2. q \in Request /\ q.client \in Clients
      BY <1>1, <2>1, <2>2
    <3>3. CASE q.client # c
      BY <2>1, <2>5, <3>1, <3>2, <3>3
    <3>4. CASE q.client = c
      <4>1. req.op # "Close"
        BY <1>1, <2>16, <3>4 DEF InFlight, Open
      <4>2. mp[c].nextId - 1 <= WindowSize
        BY <1>1, <1>3, <2>7, <2>16
      <4>3. CASE q = req
        BY <2>8, <2>9, <4>1, <4>2, <4>3
      <4>4. CASE q \in ran
        <5>1. PICK r \in Replies(c) : r.req = q
          BY Zenon, <3>1, <3>4, <4>4
        <5>2. windows[c].inc = req.inc
          BY <1>1, <2>4, <2>16, <3>4, <5>1 DEF Windowed, WindowedAt
        <5> QED BY <2>8, <2>9, <3>4, <4>1, <4>2, <5>1, <5>2
      <4> QED BY <2>1, <4>3, <4>4
    <3> QED BY Zenon, <3>3, <3>4
  <2>17. Remembered'
    <3>1. \A q \in ran' : q.client \in Clients
      BY <1>1, <2>1, <2>2
    <3> QED BY <1>1, <1>2, <1>3, <2>15, <2>16, <3>1 DEF Remembered
  <2> QED BY Zenon, <2>14, <2>17 DEF Once
<1> QED BY Zenon, <1>4, <1>5 DEF Served, FromWindow, FromRefusal

\* At first nothing was sent.
LEMMA OnceInit == OInit => Once
<1> SUFFICES ASSUME OInit PROVE Once
  BY Zenon
<1>1. /\ mp = [c \in Clients |-> NewMp(1)] /\ net = {} /\ windows = NoClients
      /\ ran = {} /\ rerun = {} /\ sent = 0
  BY Zenon DEF OInit
<1>2. \A c \in Clients : mp[c].nextId = 1 /\ windows[c] = None
  BY Zenon, <1>1 DEF NewMp, NoClients
<1>3. \A c \in Clients : NumberedAt(c)
  BY <1>1, <1>2 DEF NumberedAt
<1> QED BY <1>1, <1>3 DEF Once, Numbered, Remembered

\* The steps of a client that send nothing.
LEMMA OnceClient ==
    ASSUME OInv, Once, OTyped', NEW c \in Clients, GiveUp(c) \/ CrashClient(c) \/ RestartClient(c)
    PROVE  Once'
<1>1. /\ OTyped /\ mp \in [Clients -> Mp] /\ mp[c] \in Mp /\ mp[c].inc \in Nat
  BY Zenon, MpTyped DEF OInv, OTyped
<1>2. /\ windows' = windows /\ ran' = ran /\ rerun' = rerun /\ sent' = sent /\ net' \subseteq net
      /\ \A d \in Clients : d # c => mp'[d] = mp[d]
  BY <1>1 DEF GiveUp, CrashClient, RestartClient, WithoutChannel
<1>3. /\ mp'[c].nextId = mp[c].nextId \/ mp'[c].nextId = 1
      /\ mp[c].inc <= mp'[c].inc
      /\ Open(c)' => Open(c) \/ mp[c].inc < mp'[c].inc
  <2>1. CASE GiveUp(c)
    <3>1. mp'[c] = [mp[c] EXCEPT !.call = None, !.unsure = mp[c].unsure \cup Unresolved(mp[c].call)]
      BY <1>1, <2>1 DEF GiveUp, Mp
    <3>2. /\ mp'[c].nextId = mp[c].nextId /\ mp'[c].inc = mp[c].inc
          /\ mp'[c].alive = mp[c].alive /\ mp'[c].closed = mp[c].closed
      BY Zenon, <1>1, <3>1 DEF Mp
    <3> QED BY <1>1, <3>2 DEF Open
  <2>2. CASE CrashClient(c)
    <3>1. mp'[c] = [NewMp(mp[c].inc) EXCEPT !.alive = FALSE]
      BY <1>1, <2>2 DEF CrashClient, DeadMp
    <3>2. mp'[c].nextId = 1 /\ mp'[c].inc = mp[c].inc /\ ~mp'[c].alive
      BY Zenon, <3>1 DEF NewMp
    <3> QED BY <1>1, <3>2 DEF Open
  <2>3. CASE RestartClient(c)
    <3>1. mp'[c] = NewMp(mp[c].inc + 1)
      BY Zenon, <1>1, <2>3 DEF RestartClient
    <3>2. mp'[c].nextId = 1 /\ mp'[c].inc = mp[c].inc + 1
      BY <3>1 DEF NewMp
    <3> QED BY <1>1, <3>2
  <2> QED BY <2>1, <2>2, <2>3
<1>4. ASSUME NEW d \in Clients
      PROVE  /\ mp'[d].nextId = mp[d].nextId \/ mp'[d].nextId = 1
             /\ mp[d].inc <= mp'[d].inc
             /\ Open(d)' => Open(d) \/ mp[d].inc < mp'[d].inc
  <2>1. mp[d].inc \in Nat
    BY <1>1, MpTyped
  <2> QED BY <1>2, <1>3, <2>1 DEF Open
<1> QED BY <1>2, <1>4, OnceIdle

\* The steps that leave the clients, the windows and the network alone.
LEMMA OnceStill ==
    ASSUME OInv, Once, OTyped', mp' = mp, windows' = windows, ran' = ran, rerun' = rerun,
           sent' = sent, net' = net
    PROVE  Once'
<1>1. \A c \in Clients : mp[c].inc \in Nat
  BY Zenon, MpTyped DEF OInv
<1> QED BY <1>1, OnceIdle DEF Open

\* Every step keeps it.
LEMMA OnceKept ==
    ASSUME LateAttempts = FALSE
    PROVE  OInv /\ Once /\ [ONext]_ovars => Once'
<1> SUFFICES ASSUME OInv, Once, [ONext]_ovars PROVE Once'
  BY Zenon
<1>1. OTyped'
  BY Zenon, StepKeeps DEF OInv
<1>2. ASSUME NEW c \in Clients, Starts(c) \/ GiveUp(c) \/ CrashClient(c) \/ RestartClient(c)
      PROVE  Once'
  <2>1. CASE Starts(c)
    <3>1. PICK m, ep, op, arg : Sends(c, m, ep, op, arg)
      BY Zenon, <2>1, StartSends
    <3> QED BY <3>1, OnceSent
  <2> QED BY <1>1, <1>2, <2>1, OnceClient
<1>3. ASSUME NEW req \in net, NEW lost, Serve(req, lost) PROVE Once'
  <2>1. PICK reply : Served(req, reply)
    BY Zenon, <1>3, ServeCases
  <2> QED BY Zenon, <2>1, OnceServed
<1>4. ASSUME NEW k \in Keys,
             UNCHANGED <<proc, marker, epoch, mp, net, windows, ran, rerun, acked, sent>>
      PROVE  Once'
  BY <1>1, <1>4, OnceStill
<1>5. ASSUME NEW p \in Procs, \/ Start(p) \/ CreateMarker(p) \/ StartServing(p) \/ StartRefusing(p)
                              \/ Stop(p) \/ Crash(p)
      PROVE  Once'
  <2>1. CASE proc[p] = "serving" /\ (Stop(p) \/ Crash(p))
    BY Zenon, <2>1, OnceEnds
  <2>2. CASE ~(proc[p] = "serving" /\ (Stop(p) \/ Crash(p)))
    <3>1. /\ mp' = mp /\ windows' = windows /\ ran' = ran /\ rerun' = rerun
          /\ sent' = sent /\ net' = net
      BY <1>5, <2>2 DEF Start, CreateMarker, StartServing, StartRefusing, Stop, Crash
    <3> QED BY <1>1, <3>1, OnceStill
  <2> QED BY Zenon, <2>1, <2>2
<1>6. CASE OperatorReset \/ UNCHANGED ovars
  <2>1. /\ mp' = mp /\ windows' = windows /\ ran' = ran /\ rerun' = rerun
        /\ sent' = sent /\ net' = net
    BY Zenon, <1>6 DEF OperatorReset, ovars
  <2> QED BY <1>1, <2>1, OnceStill
<1> QED BY <1>2, <1>3, <1>4, <1>5, <1>6 DEF ONext, Starts

----------------------------------------------------------------------------
\* Theorems

\* The startup marker lets one process serve at a time (OneServes).
THEOREM OneProcessServes == ASSUME LateAttempts = FALSE PROVE OSpec => []OneServes
<1>1. OInv => OneServes
  <2> SUFFICES ASSUME OInv PROVE OneServes
    BY Zenon
  <2>1. CASE Serving = {}
    BY <2>1, FS_EmptySet DEF OneServes
  <2>2. CASE Serving # {}
    <3>1. PICK p \in Procs : p \in Serving
      BY Zenon, <2>2 DEF Serving
    <3>2. Serving = {p}
      BY Zenon, <3>1 DEF OInv, Marked, Serving
    <3> QED BY <3>2, FS_Singleton DEF OneServes
  <2> QED BY Zenon, <2>1, <2>2
<1> QED BY <1>1, InitKept, StepKeeps, PTL DEF OSpec

\* While a reply window holds as many replies as calls were made, no request of
\* an open client runs twice (RunsOnce, _run_mutation).
THEOREM RequestsRunOnce ==
    ASSUME LateAttempts = FALSE
    PROVE  OSpec => [](sent <= WindowSize => RunsOnce)
<1>1. Once => (sent <= WindowSize => RunsOnce)
  BY Zenon DEF Once, Remembered, RunsOnce
<1> QED BY <1>1, InitKept, StepKeeps, OnceInit, OnceKept, PTL DEF OSpec
=============================================================================
