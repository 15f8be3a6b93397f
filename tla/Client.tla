------------------------------- MODULE Client -------------------------------
(***************************************************************************)
(* The TCP floor control client (client.go): the calls an application      *)
(* makes from its own goroutines and the read loop of the client's         *)
(* transport, which share the request table, the table of pending          *)
(* responses and the session state.                                        *)
(*                                                                         *)
(* The module is open: inbox and outbox are the two directions of the TCP  *)
(* connection and link its health, which the environment changes           *)
(* (ClientServer.tla puts the server there).  A step is one critical       *)
(* section, one channel operation, one write or one callback; call[t].at   *)
(* is where thread t stands inside the method it called.  The table        *)
(* pendingResponses is not a variable of its own: it holds the channels of *)
(* the threads between the start of sendAndWait and its deferred cleanup   *)
(* (Registered).                                                           *)
(*                                                                         *)
(* Abstracted: time stamps, priorities, beneficiaries and texts; logging;  *)
(* the OnConnected, OnDisconnected, OnFloorStatus and OnError callbacks do *)
(* nothing; a client connects at most once; the instances draw far fewer   *)
(* transaction IDs than its uint16 truncation needs.                       *)
(***************************************************************************)
EXTENDS Naturals, Sequences, FiniteSets

CONSTANTS
  Threads,    \* goroutines of the application that call the client
  FloorIDs,   \* floors they ask for
  ReqIDs,     \* request IDs the server hands out
  None        \* no value

VARIABLES
  link,       \* the TCP connection: "none", "up" or "down"
  outbox,     \* client to server, written and not yet read
  inbox,      \* server to client, written and not yet read
  tr,         \* Client.transport: "nil", "open" or "closed"
  connected,  \* Client.connected
  state,      \* Client.state
  requests,   \* Client.activeRequests by floor
  lastTx,     \* Client.nextTxID
  call,       \* call[t]: the client method thread t is in
  chan,       \* chan[t]: the content of t's response channel
  reader,     \* the read loop and the message it is handling
  crashed,    \* the process died of a send on a closed channel
  notified    \* notified[f]: the last floor callback about f

clientVars == <<tr, connected, state, requests, lastTx, call, chan, reader,
                crashed, notified>>
wireVars == <<link, outbox, inbox>>

Closed == "closed"   \* what reader.to says of a channel closed meanwhile

Statuses == {"Pending", "Granted", "Denied", "Released", "Revoked"}

Waiting == {"Hello", "RequestFloor", "ReleaseFloor", "QueryFloor"}

Message == [prim : {"Hello", "HelloAck", "FloorRequest", "FloorRelease",
                    "FloorQuery", "FloorRequestStatus", "FloorStatus",
                    "Goodbye", "GoodbyeAck", "Error"},
            tx : Nat, floor : FloorIDs \cup {None},
            req : ReqIDs \cup {None}, status : Statuses \cup {None}]

NoCall == [op |-> "none", at |-> "idle", floor |-> None, tx |-> 0,
           req |-> None, resp |-> None, ok |-> TRUE]

CallRecord ==
  [op : Waiting \cup {"none", "Connect", "Goodbye", "Disconnect"},
   at : {"idle", "start", "ready", "send", "wait", "got", "apply", "state",
         "callback", "close", "return"},
   floor : FloorIDs \cup {None}, tx : Nat, req : ReqIDs \cup {None},
   resp : Message \cup {None}, ok : BOOLEAN]

ReaderRecord ==
  [at : {"off", "read", "deliver", "handle", "state", "callback", "onClose",
         "done"},
   msg : Message \cup {None}, to : Threads \cup {None, Closed}]

ClientTypeOK ==
  /\ link \in {"none", "up", "down"}
  /\ outbox \in Seq(Message) /\ inbox \in Seq(Message)
  /\ tr \in {"nil", "open", "closed"}
  /\ connected \in BOOLEAN /\ crashed \in BOOLEAN
  /\ state \in {"Disconnected", "Connected", "WaitFloorRequest",
                "FloorRequested", "FloorGranted", "FloorDenied",
                "FloorReleased"}
  /\ requests \in [FloorIDs -> [req : ReqIDs, status : Statuses]
                                \cup {None}]
  /\ lastTx \in Nat
  /\ call \in [Threads -> CallRecord]
  /\ chan \in [Threads -> Message \cup {None}]
  /\ reader \in ReaderRecord
  /\ notified \in [FloorIDs -> Statuses \cup {None}]

ClientInit ==
  /\ link = "none" /\ outbox = <<>> /\ inbox = <<>>
  /\ tr = "nil" /\ connected = FALSE /\ crashed = FALSE
  /\ state = "Disconnected"
  /\ requests = [f \in FloorIDs |-> None]
  /\ lastTx = 0
  /\ call = [t \in Threads |-> NoCall]
  /\ chan = [t \in Threads |-> None]
  /\ reader = [at |-> "off", msg |-> None, to |-> None]
  /\ notified = [f \in FloorIDs |-> None]

-----------------------------------------------------------------------------
\* Helpers.

Goto(t, place) == call' = [call EXCEPT ![t].at = place]

Return(t, ok) == call' = [call EXCEPT ![t].at = "return", ![t].ok = ok]

ReaderGoto(place) == reader' = [reader EXCEPT !.at = place]

\* The read loop goes back for the next message.
ReadOn == reader' = [at |-> "read", msg |-> None, to |-> None]

\* t's channel is in pendingResponses.
Registered(t) == call[t].op \in Waiting /\ call[t].at \in {"send", "wait", "got"}

\* The message a method sends: only RequestFloor, ReleaseFloor and QueryFloor
\* name a floor, and ReleaseFloor the request ID too.
Request(t) ==
  [prim |-> CASE call[t].op = "RequestFloor" -> "FloorRequest"
              [] call[t].op = "ReleaseFloor" -> "FloorRelease"
              [] call[t].op = "QueryFloor" -> "FloorQuery"
              [] call[t].op = "Hello" -> "Hello"
              [] OTHER -> "Goodbye",
   tx |-> call[t].tx, floor |-> call[t].floor, req |-> call[t].req,
   status |-> None]

-----------------------------------------------------------------------------
\* Client.Connect: dial, start the read loop, and only then set connected.

Dial(t) ==
  /\ call[t].at = "idle" /\ ~connected /\ tr = "nil"
  /\ tr' = "open" /\ link' = "up"
  /\ state' = "Connected"
  /\ call' = [call EXCEPT ![t] = [NoCall EXCEPT !.op = "Connect", !.at = "start"]]
  /\ UNCHANGED <<outbox, inbox, connected, requests, lastTx, chan, reader,
                 crashed, notified>>

StartTransport(t) ==
  /\ call[t].at = "start"
  /\ ReaderGoto("read")
  /\ Goto(t, "ready")
  /\ UNCHANGED <<wireVars, tr, connected, state, requests, lastTx, chan,
                 crashed, notified>>

Ready(t) ==
  /\ call[t].at = "ready"
  /\ connected' = TRUE
  /\ Return(t, TRUE)
  /\ UNCHANGED <<wireVars, tr, state, requests, lastTx, chan, reader, crashed,
                 notified>>

-----------------------------------------------------------------------------
\* The methods that talk to the server.

\* nextTransactionID; sendAndWait registers the channel.
Begin(t, op, f, r) ==
  /\ call[t].at = "idle"
  /\ lastTx' = lastTx + 1
  /\ call' = [call EXCEPT ![t] = [op |-> op, at |-> "send", floor |-> f,
                tx |-> lastTx + 1, req |-> r, resp |-> None, ok |-> TRUE]]
  /\ UNCHANGED <<wireVars, tr, connected, state, requests, chan, reader,
                 crashed, notified>>

Hello(t) == connected /\ Begin(t, "Hello", None, None)

RequestFloor(t, f) == connected /\ Begin(t, "RequestFloor", f, None)

\* Refused without an active request for the floor, whatever its status.
ReleaseFloor(t, f) ==
  /\ connected /\ requests[f] # None
  /\ Begin(t, "ReleaseFloor", f, requests[f].req)

QueryFloor(t, f) == connected /\ Begin(t, "QueryFloor", f, None)

Goodbye(t) == connected /\ Begin(t, "Goodbye", None, None)

Disconnect(t) == connected /\ Begin(t, "Disconnect", None, None)

\* Transport.SendMessage.  A write to a connection that is down may fail, or
\* still be taken by the kernel and lost.
Send(t) ==
  /\ call[t].at = "send"
  /\ \/ /\ tr = "open"
        /\ outbox' = IF link = "up" THEN Append(outbox, Request(t)) ELSE outbox
        /\ CASE call[t].op = "Disconnect" -> Goto(t, "close")
             [] call[t].op = "Goodbye" -> Return(t, TRUE)
             [] OTHER -> Goto(t, "wait")
     \/ /\ tr = "closed" \/ link = "down"
        /\ CASE call[t].op = "Disconnect" -> Goto(t, "close")
             [] call[t].op = "Goodbye" -> Return(t, FALSE)
             [] OTHER -> Goto(t, "got")
        /\ UNCHANGED outbox
  /\ UNCHANGED <<link, inbox, tr, connected, state, requests, lastTx, chan,
                 reader, crashed, notified>>

\* The select of sendAndWait: the response ...
Receive(t) ==
  /\ call[t].at = "wait" /\ chan[t] # None
  /\ call' = [call EXCEPT ![t].at = "got", ![t].resp = chan[t]]
  /\ chan' = [chan EXCEPT ![t] = None]
  /\ UNCHANGED <<wireVars, tr, connected, state, requests, lastTx, reader,
                 crashed, notified>>

\* ... or the timer.
Timeout(t) ==
  /\ call[t].at = "wait"
  /\ Goto(t, "got")
  /\ UNCHANGED <<wireVars, tr, connected, state, requests, lastTx, chan,
                 reader, crashed, notified>>

\* A mutant: any response will do.
AcceptsAnything(op, m) == m # None

\* The response counts as success.  ReleaseFloor takes anything but an Error,
\* QueryFloor anything at all.
Accepts(op, m) ==
  /\ m # None
  /\ CASE op = "Hello" -> m.prim = "HelloAck"
       [] op = "RequestFloor" -> m.prim = "FloorRequestStatus"
       [] op = "ReleaseFloor" -> m.prim # "Error"
       [] OTHER -> TRUE

\* The deferred cleanup: take the channel out of the table and close it.  The
\* read loop may still hold it (reader.to).
Finish(t) ==
  /\ call[t].at = "got"
  /\ chan' = [chan EXCEPT ![t] = None]
  /\ reader' = IF reader.to = t THEN [reader EXCEPT !.to = Closed] ELSE reader
  /\ IF ~Accepts(call[t].op, call[t].resp) THEN Return(t, FALSE)
     ELSE CASE call[t].op = "QueryFloor" -> Return(t, TRUE)
            [] call[t].op = "Hello" -> Goto(t, "state")
            [] OTHER -> Goto(t, "apply")
  /\ UNCHANGED <<wireVars, tr, connected, state, requests, lastTx, crashed,
                 notified>>

\* A mutant: ReleaseFloor leaves the entry where it is.
ApplyKeepsEntry(t) ==
  /\ call[t].at = "apply"
  /\ requests' = [requests EXCEPT ![call[t].floor] =
       IF call[t].op = "RequestFloor"
         THEN [req |-> call[t].resp.req, status |-> call[t].resp.status]
         ELSE @]
  /\ IF call[t].op = "ReleaseFloor"
        \/ call[t].resp.status \in {"Granted", "Pending"}
       THEN Goto(t, "state")
       ELSE Return(t, TRUE)
  /\ UNCHANGED <<wireVars, tr, connected, state, lastTx, chan, reader, crashed,
                 notified>>

\* The update of activeRequests.
Apply(t) ==
  /\ call[t].at = "apply"
  /\ requests' = [requests EXCEPT ![call[t].floor] =
       IF call[t].op = "RequestFloor"
         THEN [req |-> call[t].resp.req, status |-> call[t].resp.status]
         ELSE None]
  /\ IF call[t].op = "ReleaseFloor"
        \/ call[t].resp.status \in {"Granted", "Pending"}
       THEN Goto(t, "state")
       ELSE Return(t, TRUE)
  /\ UNCHANGED <<wireVars, tr, connected, state, lastTx, chan, reader, crashed,
                 notified>>

\* setState.
SetState(t) ==
  /\ call[t].at = "state"
  /\ LET op == call[t].op
         granted == op = "RequestFloor" /\ call[t].resp.status = "Granted"
     IN /\ state' = CASE op = "Hello" -> "WaitFloorRequest"
                      [] op = "ReleaseFloor" -> "FloorReleased"
                      [] granted -> "FloorGranted"
                      [] OTHER -> "FloorRequested"
        /\ IF op = "ReleaseFloor" \/ granted THEN Goto(t, "callback")
                                             ELSE Return(t, TRUE)
  /\ UNCHANGED <<wireVars, tr, connected, requests, lastTx, chan, reader,
                 crashed, notified>>

\* The event thread t's callback reports.
Event(t) == IF call[t].op = "ReleaseFloor" THEN "Released" ELSE "Granted"

\* OnFloorReleased or OnFloorGranted, called by the method itself.
Callback(t) ==
  /\ call[t].at = "callback"
  /\ notified' = [notified EXCEPT ![call[t].floor] = Event(t)]
  /\ Return(t, TRUE)
  /\ UNCHANGED <<wireVars, tr, connected, state, requests, lastTx, chan,
                 reader, crashed>>

\* Transport.Close at the end of Disconnect.
CloseTransport(t) ==
  /\ call[t].at = "close"
  /\ tr' = "closed"
  /\ Return(t, TRUE)
  /\ UNCHANGED <<wireVars, connected, state, requests, lastTx, chan, reader,
                 crashed, notified>>

\* The steps that are the same when a virtual client makes the call; Ready,
\* Callback and the return are not.
CallStep(t) ==
  \/ StartTransport(t) \/ Send(t) \/ Receive(t) \/ Finish(t)
  \/ Apply(t) \/ SetState(t) \/ CloseTransport(t)

-----------------------------------------------------------------------------
\* The read loop (transport.go) and handleMessage.

\* Read a message and look its transaction ID up among the pending responses.
ReadMessage ==
  /\ reader.at = "read" /\ tr = "open" /\ inbox # <<>>
  /\ LET m == Head(inbox)
         waiters == {t \in Threads : Registered(t) /\ call[t].tx = m.tx}
     IN reader' = [at |-> IF waiters = {} THEN "handle" ELSE "deliver",
                   msg |-> m,
                   to |-> IF waiters = {} THEN None
                          ELSE CHOOSE t \in waiters : TRUE]
  /\ inbox' = Tail(inbox)
  /\ UNCHANGED <<link, outbox, tr, connected, state, requests, lastTx, call,
                 chan, crashed, notified>>

\* The non-blocking send to the channel: a full channel leaves the message to
\* the handlers, a closed one panics.
Deliver ==
  /\ reader.at = "deliver"
  /\ \/ /\ reader.to = Closed
        /\ crashed' = TRUE
        /\ UNCHANGED <<reader, chan>>
     \/ /\ reader.to # Closed /\ chan[reader.to] = None
        /\ chan' = [chan EXCEPT ![reader.to] = reader.msg]
        /\ ReadOn
        /\ UNCHANGED crashed
     \/ /\ reader.to # Closed /\ chan[reader.to] # None
        /\ ReaderGoto("handle")
        /\ UNCHANGED <<chan, crashed>>
  /\ UNCHANGED <<wireVars, tr, connected, state, requests, lastTx, call,
                 notified>>

\* A mutant: a Released status also removes the entry.
HandleMessageForgets ==
  /\ reader.at = "handle"
  /\ LET m == reader.msg
     IN IF m.prim = "FloorRequestStatus"
          THEN /\ requests' = [requests EXCEPT ![m.floor] =
                    IF @ = None \/ m.status = "Released" THEN None
                    ELSE [@ EXCEPT !.status = m.status]]
               /\ IF m.status = "Pending" THEN ReadOn ELSE ReaderGoto("state")
          ELSE /\ UNCHANGED requests
               /\ IF m.prim = "FloorStatus" THEN ReaderGoto("callback")
                                            ELSE ReadOn
  /\ UNCHANGED <<wireVars, tr, connected, state, lastTx, call, chan, crashed,
                 notified>>

\* handleFloorRequestStatus up to its critical section: the entry of the floor
\* takes the status, whichever request the message is about.
HandleMessage ==
  /\ reader.at = "handle"
  /\ LET m == reader.msg
     IN IF m.prim = "FloorRequestStatus"
          THEN /\ requests' = [requests EXCEPT ![m.floor] =
                    IF @ = None THEN @ ELSE [@ EXCEPT !.status = m.status]]
               /\ IF m.status = "Pending" THEN ReadOn ELSE ReaderGoto("state")
          ELSE /\ UNCHANGED requests
               /\ IF m.prim = "FloorStatus" THEN ReaderGoto("callback")
                                            ELSE ReadOn
  /\ UNCHANGED <<wireVars, tr, connected, state, lastTx, call, chan, crashed,
                 notified>>

ReaderSetState ==
  /\ reader.at = "state"
  /\ state' = CASE reader.msg.status = "Granted" -> "FloorGranted"
                [] reader.msg.status = "Denied" -> "FloorDenied"
                [] OTHER -> "FloorReleased"
  /\ ReaderGoto("callback")
  /\ UNCHANGED <<wireVars, tr, connected, requests, lastTx, call, chan,
                 crashed, notified>>

\* OnFloorGranted, OnFloorDenied, OnFloorReleased or OnFloorRevoked;
\* OnFloorStatus for a FloorStatus.
ReaderCallback ==
  /\ reader.at = "callback"
  /\ notified' = IF reader.msg.prim = "FloorStatus" THEN notified
                 ELSE [notified EXCEPT ![reader.msg.floor] = reader.msg.status]
  /\ ReadOn
  /\ UNCHANGED <<wireVars, tr, connected, state, requests, lastTx, call, chan,
                 crashed>>

\* A mutant: the end of the stream is taken for a read timeout.
ReadExitOnCloseOnly ==
  /\ reader.at = "read"
  /\ tr = "closed"
  /\ ReaderGoto("onClose")
  /\ UNCHANGED <<wireVars, tr, connected, state, requests, lastTx, call, chan,
                 crashed, notified>>

\* The read fails: Transport.Close, then OnClose.
ReadExit ==
  /\ reader.at = "read"
  /\ tr = "closed" \/ (link = "down" /\ inbox = <<>>)
  /\ tr' = "closed"
  /\ ReaderGoto("onClose")
  /\ UNCHANGED <<wireVars, connected, state, requests, lastTx, call, chan,
                 crashed, notified>>

OnClose ==
  /\ reader.at = "onClose"
  /\ connected' = FALSE
  /\ state' = "Disconnected"
  /\ ReaderGoto("done")
  /\ UNCHANGED <<wireVars, tr, requests, lastTx, call, chan, crashed, notified>>

\* Likewise, all but ReaderCallback and OnClose.
ReaderStep ==
  \/ ReadMessage \/ Deliver \/ HandleMessage \/ ReaderSetState
  \/ ReadExit

=============================================================================
