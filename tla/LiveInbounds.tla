---------------------------- MODULE LiveInbounds ----------------------------
(***************************************************************************)
(* The live list of inbounds: the hub and the pumps of the panel           *)
(* (web/websocket/hub.go, web/controller/websocket.go), the socket client  *)
(* of the browser (panel/lib/useWebSocket.ts) and the page that shows the  *)
(* list (InboundsPage.tsx).  A change is broadcast by the handler that has *)
(* made it, and a job broadcasts the list every second; the page replaces  *)
(* its rows by what it is sent, and asks for the list when it opens and    *)
(* after a disconnection.  The list is a number, its version.              *)
(***************************************************************************)
EXTENDS Naturals, Sequences, SequencesExt

CONSTANTS
  Sockets,          \* identities of connections, used again when nobody knows one
  Handlers, Job,    \* what broadcasts: handlers of requests, the traffic job
  Idle, Reading,    \* states of a sender that holds no list
  NoRows,           \* an empty page
  SendBuffer,       \* messages in client.Send (512)
  HubBuffer,        \* messages in hub.broadcast (2048)
  MaxVersion, MaxFaults, MaxLoads     \* bounds

ASSUME LiveAssumption ==
  /\ Job \notin Handlers /\ SendBuffer > 0 /\ HubBuffer > 0

VARIABLES
  db,           \* version of the list in the database
  sender,       \* the list a handler or the job has read and not yet broadcast
  recent,       \* has a broadcast passed the throttle in the last 100 ms?
  queue,        \* hub.broadcast
  registers, unregisters,   \* the hub's channels of these names
  clients,      \* hub.clients
  send,         \* client.Send of a socket
  link,         \* sockets whose connection is up
  closing,      \* those of them whose Send is closed: writePump will close them
  readers,      \* sockets whose readPump runs
  ws,           \* socket of the browser: "none", "opening", "open"
  timer,        \* is connect() due, reconnectDelay after a close?
  mounted, rows, resync,    \* the page, its rows, resyncAfterDisconnect
  asked, answers,           \* its load() calls: not yet read; read, not yet here
  faults                    \* counter, bounded

world == << db, sender, recent, queue >>
hub   == << registers, unregisters, clients >>
conns == << send, link, closing, readers >>
page  == << mounted, rows, resync, asked, answers >>
vars  == << world, hub, conns, ws, timer, page, faults >>

Versions == 0 .. MaxVersion
Senders  == Handlers \cup {Job}
Fault    == faults < MaxFaults /\ faults' = faults + 1

\* Nobody knows the socket: its identity may be used again.
Known == registers \cup unregisters \cup clients \cup readers \cup link
Free(s) == ws[s] = "none" /\ s \notin Known

Init ==
  /\ db = 0 /\ sender = [x \in Senders |-> Idle] /\ recent = FALSE /\ queue = << >>
  /\ registers = {} /\ unregisters = {} /\ clients = {}
  /\ send = [s \in Sockets |-> << >>]
  /\ link = {} /\ closing = {} /\ readers = {}
  /\ ws = [s \in Sockets |-> IF s = CHOOSE first \in Sockets : TRUE THEN "opening" ELSE "none"]
  /\ timer = FALSE
  /\ mounted = FALSE /\ rows = NoRows /\ resync = FALSE
  /\ asked = 0 /\ answers = << >> /\ faults = 0

---------------------------------------------------------------------------
(* load() of the page *)

Load == asked + Len(answers) < MaxLoads /\ asked' = asked + 1

PanelReads ==
  /\ asked > 0 /\ asked' = asked - 1
  /\ answers' = Append(answers, db)
  /\ UNCHANGED << world, hub, conns, ws, timer, mounted, rows, resync, faults >>

\* An answer without success leaves the rows.
LoadFails ==
  /\ Fault /\ asked > 0 /\ asked' = asked - 1
  /\ UNCHANGED << world, hub, conns, ws, timer, mounted, rows, resync, answers >>

Loaded(k) ==
  /\ k \in DOMAIN answers /\ answers' = RemoveAt(answers, k)
  /\ rows' = answers[k]
  /\ UNCHANGED << world, hub, conns, ws, timer, mounted, resync, asked, faults >>

Mount ==
  /\ ~mounted
  /\ mounted' = TRUE /\ rows' = NoRows /\ resync' = FALSE /\ asked' = 1
  /\ UNCHANGED << world, hub, conns, ws, timer, answers, faults >>

---------------------------------------------------------------------------
(* Broadcast *)

\* A handler has changed the inbounds; if this page has asked for it, it
\* loads the list when it has the answer.
Change(h) ==
  /\ db < MaxVersion /\ db' = db + 1
  /\ sender[h] = Idle /\ sender' = [sender EXCEPT ![h] = Reading]
  /\ UNCHANGED asked \/ (mounted /\ Load)
  /\ UNCHANGED << recent, queue, hub, conns, ws, timer, mounted, rows, resync,
                  answers, faults >>

\* GetInbounds of a handler, GetAllInbounds of the job.
ReadList(x) ==
  /\ sender[x] = IF x = Job THEN Idle ELSE Reading
  /\ sender' = [sender EXCEPT ![x] = db]
  /\ UNCHANGED << db, recent, queue, hub, conns, ws, timer, page, faults >>

\* A broadcast less than 100 ms after another one is skipped; one that finds
\* the hub's channel full waits, which is to come later, and then gives up.
Broadcast(x) ==
  /\ sender[x] \in Versions /\ sender' = [sender EXCEPT ![x] = Idle]
  /\ recent' = TRUE
  /\ queue' = IF recent \/ Len(queue) = HubBuffer THEN queue ELSE Append(queue, sender[x])
  /\ UNCHANGED << db, hub, conns, ws, timer, page, faults >>

ThrottleEnds ==
  /\ recent /\ recent' = FALSE
  /\ UNCHANGED << db, sender, queue, hub, conns, ws, timer, page, faults >>

---------------------------------------------------------------------------
(* Hub.Run: select takes any channel that is ready *)

HubRegisters(s) ==
  /\ s \in registers /\ registers' = registers \ {s}
  /\ clients' = clients \cup {s}
  /\ UNCHANGED << world, unregisters, conns, ws, timer, page, faults >>

\* The channel of a client is closed, and a message taken out to find that it
\* is open.  A socket that is not registered, or not yet, is ignored.
HubUnregisters(s) ==
  /\ s \in unregisters /\ unregisters' = unregisters \ {s}
  /\ clients' = clients \ {s}
  /\ IF s \in clients
     THEN /\ closing' = closing \cup ({s} \cap link)
          /\ send' = [send EXCEPT ![s] = IF @ = << >> THEN @ ELSE Tail(@)]
     ELSE UNCHANGED << closing, send >>
  /\ UNCHANGED << world, registers, link, readers, ws, timer, page, faults >>

Full(s) == Len(send[s]) = SendBuffer

\* Fault: a client whose buffer is full just misses the message.
HubDrops ==
  /\ queue # << >> /\ queue' = Tail(queue)
  /\ send' = [s \in Sockets |->
       IF s \in clients /\ ~Full(s) THEN Append(send[s], queue[1]) ELSE send[s]]
  /\ UNCHANGED << db, sender, recent, hub, link, closing, readers, ws, timer,
                  page, faults >>

\* broadcastParallel: who cannot take the message is disconnected.
HubBroadcasts ==
  /\ queue # << >> /\ queue' = Tail(queue)
  /\ send' = [s \in Sockets |->
       IF s \in clients /\ ~Full(s) THEN Append(send[s], queue[1]) ELSE send[s]]
  /\ unregisters' = unregisters \cup {s \in clients : Full(s)}
  /\ UNCHANGED << db, sender, recent, registers, clients, link, closing, readers, ws, timer,
                  page, faults >>

---------------------------------------------------------------------------
(* HandleWebSocket and the pumps *)

\* The connection is accepted, and the browser's onopen: a page that has heard
\* of a disconnection loads the list.  Registration is still to come.
Upgrade(s) ==
  /\ ws[s] = "opening" /\ ws' = [ws EXCEPT ![s] = "open"]
  /\ link' = link \cup {s} /\ registers' = registers \cup {s}
  /\ readers' = readers \cup {s} /\ send' = [send EXCEPT ![s] = << >>]
  /\ IF resync THEN resync' = FALSE /\ Load ELSE UNCHANGED << resync, asked >>
  /\ UNCHANGED << world, unregisters, clients, closing, timer, mounted, rows, answers,
                  faults >>

\* Not yet noticed by either end.  From here on nobody empties the buffer:
\* writePump ends with its next write or ping.
Cut(s) ==
  /\ Fault /\ s \in link /\ link' = link \ {s} /\ closing' = closing \ {s}
  /\ UNCHANGED << world, hub, send, readers, ws, timer, page >>

\* writePump hands a message to the connection, and the page shows it.
Receive(s) ==
  /\ s \in link /\ ws[s] = "open"
  /\ send[s] # << >> /\ send' = [send EXCEPT ![s] = Tail(@)]
  /\ rows' = IF mounted THEN send[s][1] ELSE rows
  /\ UNCHANGED << world, hub, link, closing, readers, ws, timer,
                  mounted, resync, asked, answers, faults >>

\* The channel is closed and empty: writePump closes the connection.
WriterEnds(s) ==
  /\ s \in closing /\ send[s] = << >>
  /\ link' = link \ {s} /\ closing' = closing \ {s}
  /\ UNCHANGED << world, hub, send, readers, ws, timer, page, faults >>

ReaderEnds(s) ==
  /\ s \in readers \ link /\ readers' = readers \ {s}
  /\ unregisters' = unregisters \cup {s}
  /\ UNCHANGED << world, registers, clients, send, link, closing, ws, timer, page, faults >>

PanelRestarts ==
  /\ Fault
  /\ sender' = [x \in Senders |-> Idle] /\ recent' = FALSE /\ queue' = << >>
  /\ registers' = {} /\ unregisters' = {} /\ clients' = {}
  /\ send' = [s \in Sockets |-> << >>]
  /\ link' = {} /\ closing' = {} /\ readers' = {}
  /\ asked' = 0
  /\ UNCHANGED << db, ws, timer, mounted, rows, resync, answers >>

---------------------------------------------------------------------------
(* WebSocketClient *)

Connect ==
  /\ timer /\ timer' = FALSE
  /\ \E s \in Sockets : Free(s)
  /\ ws' = [ws EXCEPT ![CHOOSE s \in Sockets : Free(s)] = "opening"]
  /\ UNCHANGED << world, hub, conns, page, faults >>

\* onclose: the listeners hear "disconnected", and connect() is called later,
\* whoever has called close() meanwhile.
Disconnected(s) ==
  /\ ws' = [ws EXCEPT ![s] = "none"]
  /\ resync' = mounted /\ timer' = TRUE

\* Fault: a connection that never opened is not tried again.
ConnectFailsSilently(s) ==
  /\ Fault /\ ws[s] = "opening" /\ ws' = [ws EXCEPT ![s] = "none"]
  /\ resync' = mounted
  /\ UNCHANGED << world, hub, conns, timer, mounted, rows, asked, answers >>

ConnectFails(s) ==
  /\ Fault /\ ws[s] = "opening" /\ Disconnected(s)
  /\ UNCHANGED << world, hub, conns, mounted, rows, asked, answers >>

Closed(s) ==
  /\ ws[s] = "open" /\ s \notin link /\ Disconnected(s)
  /\ UNCHANGED << world, hub, conns, mounted, rows, asked, answers, faults >>

---------------------------------------------------------------------------
Loading == PanelReads \/ \E k \in 1 .. MaxLoads : Loaded(k)
Sending(x) == ReadList(x) \/ Broadcast(x)
Connection(s) == Upgrade(s) \/ Receive(s) \/ WriterEnds(s) \/ ReaderEnds(s) \/ Closed(s)

Next ==
  \/ Mount \/ Loading \/ LoadFails \/ Connect
  \/ \E h \in Handlers : Change(h)
  \/ \E x \in Senders : Sending(x)
  \/ ThrottleEnds \/ HubBroadcasts \/ PanelRestarts
  \/ \E s \in Sockets :
       HubRegisters(s) \/ HubUnregisters(s) \/ Connection(s) \/ Cut(s) \/ ConnectFails(s)

Spec == Init /\ [][Next]_vars

\* Handlers and the job run (Xray does, else the job does not broadcast); the
\* hub takes from each of its channels; handshakes, requests and pumps go on;
\* dead connections are noticed (pings of the panel, close events of the
\* browser); timers fire.
Fairness ==
  /\ \A x \in Senders : WF_vars(Sending(x))
  /\ WF_vars(ThrottleEnds) /\ WF_vars(Loading) /\ WF_vars(Connect)
  /\ WF_vars(HubBroadcasts)
  /\ \A s \in Sockets :
       WF_vars(HubRegisters(s)) /\ WF_vars(HubUnregisters(s)) /\ WF_vars(Connection(s))

FairSpec == Spec /\ Fairness

---------------------------------------------------------------------------
(* Properties *)

\* The page follows: when changes and faults come to an end, it shows the
\* list that is in the database, and goes on showing it, whatever broadcasts
\* were skipped, overtaken by older ones or sent to a dead connection.
CatchesUp == <>[](mounted => rows = db)

\* The hub forgets every dead connection, also one whose end it has heard of
\* before its beginning: Register and Unregister are two channels.
DeadForgotten == \A s \in Sockets : []<>(s \in registers \cup clients => s \in link)
=============================================================================
