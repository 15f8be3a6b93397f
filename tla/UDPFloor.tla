------------------------------ MODULE UDPFloor ------------------------------
(***************************************************************************)
(* Floor control over UDP: the UDP side of the server (server.go,          *)
(* transport.go) and UDPClient (udpclient.go) with the datagrams between   *)
(* them.  The server handles one datagram after the other in the listener's *)
(* read loop, so its handlers do not interleave with each other; a handler *)
(* that takes several steps is `serving`.  A client has a thread that      *)
(* calls its methods one at a time and the read loop of its own socket,    *)
(* which interleave.                                                       *)
(*                                                                         *)
(* Datagrams are never ordered; with the faults of the setup they are also *)
(* lost, duplicated, or so slow that the retransmission timer fires while  *)
(* an answer is on its way.                                                *)
(*                                                                         *)
(* Abstracted: message contents other than floor, request ID and status;   *)
(* acks, which the server only logs; the callbacks; FloorQuery, which      *)
(* UDPClient never sends.  The two critical sections at the end of         *)
(* RequestFloor are one step: a notification between them leaves what it   *)
(* would leave just before the first or just after the second.             *)
(***************************************************************************)
EXTENDS FloorStateMachine

CONSTANTS
  Clients,     \* UDP endpoints in the client role
  FloorIDs,
  None,
  UserOf,      \* the BFCP user ID of each client
  MaxCalls,    \* bound: calls of one client
  Setups       \* deployments to consider; the behaviour picks one.  Of each:
               \*   clients, floors: the ones that take part
               \*   ids: the server's IDs are 0..ids-1; 2^16 in the code
               \*   calls: the client methods the application calls
               \*   retries: UDPClientConfig.MaxRetries
               \*   decisions: what AutoGrant or OnFloorRequest may answer
               \*   preset: clients the application registers (RegisterClient)
               \*   faults: what the network may do

Users == {UserOf[c] : c \in Clients}

ASSUME UDPAssumption ==
  /\ UserOf \in [Clients -> Nat]
  /\ MaxCalls \in Nat
  /\ \A s \in Setups :
       /\ s.clients \subseteq Clients /\ s.floors \subseteq FloorIDs
       /\ s.ids \in Nat \ {0} /\ s.retries \in Nat \ {0}
       /\ s.calls \subseteq {"Hello", "FloorRequest", "FloorRelease", "Goodbye",
                             "Close"}
       /\ s.decisions \subseteq BOOLEAN
       /\ s.preset \subseteq s.clients
       /\ s.faults \subseteq {"lose", "duplicate", "delay"}

VARIABLES
  setup,     \* the deployment; it never changes
  known,     \* the keys of Server.floors
  floors,    \* the values; a floor not created yet is as good as new
  sessions,  \* the clients in Server.sessions
  nextTxID,  \* Server.nextTxID, truncated as its users truncate it
  serving,   \* the handler the server is in the middle of
  toServer,  \* datagrams on their way to the server
  toClient,  \* datagrams on their way to a client
  call,      \* call[c]: the method c's thread is in
  resp,      \* resp[c]: the response channel of that call
  requests,  \* requests[c][f]: UDPClient.activeRequests
  notice,    \* notice[c]: the notification c's read loop is applying
  lastTx,    \* lastTx[c]: UDPClient.nextTxID
  closed,    \* closed[c]: UDPClient.closed
  issued     \* issued[c]: history of the grants <<floor, request ID>> to c

vars == <<setup, known, floors, sessions, nextTxID, serving, toServer, toClient, call, resp,
          requests, notice, lastTx, closed, issued>>

serverVars == <<setup, known, floors, sessions, nextTxID, serving, issued>>
clientVars == <<call, resp, requests, notice, lastTx, closed>>

Idle == [at |-> "idle", from |-> None, tx |-> 0, floor |-> None, req |-> 0,
         grant |-> FALSE, todo |-> {}, dest |-> {}]

NoCall == [kind |-> "none", at |-> "idle", floor |-> None, req |-> 0, tx |-> 0,
           try |-> 0]

\* The server's request and transaction IDs.
IDs == 0..(setup.ids - 1)

AnyFloor == FloorIDs \cup {None}

CallKinds == {"Hello", "FloorRequest", "FloorRelease", "Goodbye"}

\* What a client sends, and what the server sends.
Datagrams ==
  [from : Clients, kind : CallKinds, tx : Nat, floor : AnyFloor, req : Nat]

Messages ==
  [to : Clients, kind : {"HelloAck", "Error", "FloorRequestStatus", "FloorStatus"},
   tx : Nat, floor : AnyFloor, req : Nat, status : FloorStates \cup {"none"}]

ASSUME NoneAssumption == None \notin Messages

\* The request IDs that come from the server fit its ID space.
TypeOK ==
  /\ setup \in Setups
  /\ known \subseteq FloorIDs
  /\ floors \in [FloorIDs -> [fid : FloorIDs, state : FloorStates,
                              owner : Users \cup {NoUser}, requestID : IDs]]
  /\ sessions \subseteq Clients
  /\ nextTxID \in IDs
  /\ serving \in [at : {"idle", "decide", "loop"}, from : Clients \cup {None},
                  tx : Nat, floor : AnyFloor, req : Nat, grant : BOOLEAN,
                  todo : SUBSET FloorIDs, dest : SUBSET Clients]
  /\ toServer \subseteq Datagrams
  /\ toClient \subseteq Messages
  /\ call \in [Clients -> [kind : CallKinds \cup {"none"},
                           at : {"idle", "wait", "apply"}, floor : AnyFloor,
                           req : Nat, tx : Nat, try : 0..setup.retries]]
  /\ resp \in [Clients -> Messages \cup {None}]
  /\ requests \in [Clients -> [FloorIDs ->
                   [req : Nat, status : FloorStates \cup {"none"}] \cup {None}]]
  /\ notice \in [Clients -> Messages \cup {None}]
  /\ lastTx \in [Clients -> 0..MaxCalls]
  /\ closed \in [Clients -> BOOLEAN]
  /\ issued \in [Clients -> SUBSET (FloorIDs \X IDs)]

\* The application has created some of the floors.
Init ==
  /\ setup \in Setups
  /\ known \in SUBSET setup.floors
  /\ floors = [f \in FloorIDs |-> NewFloorStateMachine(f)]
  /\ sessions = {}
  /\ nextTxID = 0
  /\ serving = Idle
  /\ toServer = {} /\ toClient = {}
  /\ call = [c \in Clients |-> NoCall]
  /\ resp = [c \in Clients |-> None]
  /\ requests = [c \in Clients |-> [f \in FloorIDs |-> None]]
  /\ notice = [c \in Clients |-> None]
  /\ lastTx = [c \in Clients |-> 0]
  /\ closed = [c \in Clients |-> FALSE]
  /\ issued = [c \in Clients |-> {}]

-----------------------------------------------------------------------------
\* The server.

\* A mutant: the counter is not truncated to the width of an ID.
NextIDUntruncated == nextTxID + 1

NextID == (nextTxID + 1) % setup.ids

\* A status about floor f under request r, or a reply without one.
Status(c, kind, tx, f, r, status) ==
  [to |-> c, kind |-> kind, tx |-> tx, floor |-> f, req |-> r, status |-> status]

Reply(m, kind) == Status(m.from, kind, m.tx, None, 0, "none")

\* The datagrams left once m is delivered; a duplicate stays on its way.
After(net, m) == IF "duplicate" \in setup.faults THEN net ELSE net \ {m}

\* UDPListener.readLoop takes datagram m.
Receive(m) ==
  /\ serving = Idle
  /\ m \in toServer
  /\ toServer' = After(toServer, m)

\* handleUDPHello.
HandleUDPHello(m) ==
  /\ m.kind = "Hello"
  /\ sessions' = sessions \cup {m.from}
  /\ toClient' = toClient \cup {Reply(m, "HelloAck")}
  /\ UNCHANGED <<setup, known, floors, nextTxID, serving, issued>>

\* handleUDPFloorRequest up to floor.Request; an unknown floor is created.
HandleUDPFloorRequest(m) ==
  /\ m.kind = "FloorRequest"
  /\ known' = known \cup {m.floor}
  /\ nextTxID' = NextID
  /\ IF CanRequest(floors[m.floor])
       THEN /\ floors' = [floors EXCEPT ![m.floor] =
                            Request(@, UserOf[m.from], NextID)]
            /\ \E g \in setup.decisions :
                 serving' = [Idle EXCEPT !.at = "decide", !.from = m.from,
                               !.tx = m.tx, !.floor = m.floor, !.req = NextID,
                               !.grant = g]
            /\ UNCHANGED toClient
       ELSE /\ toClient' = toClient \cup {Reply(m, "Error")}
            /\ UNCHANGED <<floors, serving>>
  /\ UNCHANGED <<setup, sessions, issued>>

\* Grant or Deny, and the decision in the one response.
DecideUDP ==
  LET f == serving.floor
      c == serving.from
  IN  /\ serving.at = "decide"
      /\ floors' = [floors EXCEPT ![f] =
                      IF serving.grant THEN Grant(@) ELSE Deny(@)]
      /\ toClient' = toClient \cup
           {Status(c, "FloorRequestStatus", serving.tx, f, serving.req,
                   IF serving.grant THEN "Granted" ELSE "Denied")}
      /\ issued' = [issued EXCEPT ![c] =
                      IF serving.grant THEN @ \cup {<<f, serving.req>>} ELSE @]
      /\ serving' = Idle
      /\ UNCHANGED <<setup, known, sessions, nextTxID, toServer, clientVars>>

FloorsByRequestID(r) == {f \in known : floors[f].requestID = r}

\* floorOwnedBy: any floor in use by the user.
FloorsOwnedBy(u) ==
  {f \in known : floors[f].state # "Released" /\ floors[f].owner = u}

\* GetFloorByRequestID, else floorOwnedBy.  A free floor matches request ID 0.
FloorsToRelease(m) ==
  IF FloorsByRequestID(m.req) # {} THEN FloorsByRequestID(m.req)
                                   ELSE FloorsOwnedBy(UserOf[m.from])

\* handleUDPFloorRelease; clients send the request ID only.
HandleUDPFloorRelease(m) ==
  /\ m.kind = "FloorRelease"
  /\ \/ \E f \in FloorsToRelease(m) :
          /\ CanRelease(floors[f], UserOf[m.from])
          /\ floors' = [floors EXCEPT ![f] = Release(@)]
          /\ toClient' = toClient \cup
               {Status(m.from, "FloorRequestStatus", m.tx, f, m.req, "Released")}
          /\ serving' = [Idle EXCEPT !.at = "loop", !.from = m.from, !.floor = f,
                           !.req = m.req, !.dest = sessions \ {m.from}]
     \/ /\ \/ FloorsToRelease(m) = {}
           \/ \E f \in FloorsToRelease(m) : ~CanRelease(floors[f], UserOf[m.from])
        /\ toClient' = toClient \cup {Reply(m, "Error")}
        /\ UNCHANGED <<floors, serving>>
  /\ UNCHANGED <<setup, known, sessions, nextTxID, issued>>

\* handleUDPGoodbye: no GoodbyeAck, and the session stays.
HandleUDPGoodbye(m) ==
  /\ m.kind = "Goodbye"
  /\ serving' = [Idle EXCEPT !.at = "loop", !.from = m.from,
                   !.todo = {f \in known : floors[f].owner = UserOf[m.from]}]
  /\ UNCHANGED <<setup, known, floors, sessions, nextTxID, toClient, issued>>

\* The Goodbye loop releases the next floor; its request ID reads 0 by now.
GoodbyeReleaseUDP ==
  /\ serving.at = "loop" /\ serving.dest = {}
  /\ \E f \in serving.todo :
       /\ floors' = [floors EXCEPT ![f] = Release(@)]
       /\ serving' = [serving EXCEPT !.todo = @ \ {f}, !.floor = f, !.req = 0,
                        !.dest = sessions \ {serving.from}]
  /\ UNCHANGED <<setup, known, sessions, nextTxID, issued, toServer, toClient,
                 clientVars>>

\* broadcastFloorStatusUDP: one Released status, with a fresh transaction ID.
SendBroadcastUDP ==
  /\ serving.at = "loop"
  /\ \E c \in serving.dest :
       /\ toClient' = toClient \cup
            {Status(c, "FloorRequestStatus", NextID, serving.floor, serving.req,
                    "Released")}
       /\ serving' = [serving EXCEPT !.dest = @ \ {c}]
  /\ nextTxID' = NextID
  /\ UNCHANGED <<setup, known, floors, sessions, issued, toServer, clientVars>>

HandlerDoneUDP ==
  /\ serving.at = "loop" /\ serving.dest = {} /\ serving.todo = {}
  /\ serving' = Idle
  /\ UNCHANGED <<setup, known, floors, sessions, nextTxID, issued, toServer, toClient,
                 clientVars>>

\* Server.handleUDPMessage.
HandleUDPMessage ==
  /\ \E m \in toServer :
       /\ Receive(m)
       /\ \/ HandleUDPHello(m) \/ HandleUDPFloorRequest(m)
          \/ HandleUDPFloorRelease(m) \/ HandleUDPGoodbye(m)
  /\ UNCHANGED clientVars

\* RegisterClient: a session if there is none, and a FloorStatus (sendFloorState)
\* with transaction ID 0 and the made-up request ID 1.
RegisterClient(c, f) ==
  /\ c \in setup.preset
  /\ sessions' = sessions \cup {c}
  /\ toClient' = toClient \cup
       {Status(c, "FloorStatus", 0, f, 1 % setup.ids, floors[f].state)}
  /\ UNCHANGED <<setup, known, floors, nextTxID, serving, issued, toServer,
                 clientVars>>

-----------------------------------------------------------------------------
\* The client's thread.

Datagram(c) ==
  [from |-> c, kind |-> call[c].kind, tx |-> call[c].tx,
   floor |-> call[c].floor, req |-> call[c].req]

\* transact: register the transaction and send for the first time.  Transaction
\* IDs start at 1 and never take the value 0.
Transact(c, kind, f, r) ==
  /\ kind \in setup.calls /\ call[c] = NoCall /\ ~closed[c] /\ lastTx[c] < MaxCalls
  /\ lastTx' = [lastTx EXCEPT ![c] = @ + 1]
  /\ call' = [call EXCEPT ![c] = [kind |-> kind, at |-> "wait", floor |-> f,
                                  req |-> r, tx |-> lastTx[c] + 1, try |-> 1]]
  /\ toServer' = toServer \cup {Datagram(c)'}
  /\ UNCHANGED <<toClient, resp, requests, notice, closed, serverVars>>

Hello(c) == Transact(c, "Hello", None, 0)

RequestFloor(c, f) == Transact(c, "FloorRequest", f, 0)

\* ReleaseFloor: an error without an active request.
ReleaseFloor(c, f) ==
  /\ requests[c][f] # None
  /\ Transact(c, "FloorRelease", f, requests[c][f].req)

Goodbye(c) == Transact(c, "Goodbye", None, 0)

\* Something of the current transaction is still under way.
InFlight(c) ==
  \/ \E m \in toServer : m.from = c /\ m.tx = call[c].tx
  \/ \E m \in toClient : m.to = c /\ m.tx = call[c].tx
  \/ serving.from = c
  \/ resp[c] # None

\* time.After(wait).
TimerFires(c) == call[c].at = "wait" /\ ("delay" \in setup.faults \/ ~InFlight(c))

\* A mutant: the attempts are not counted.
RetransmitForever(c) ==
  /\ TimerFires(c) /\ call[c].try < setup.retries
  /\ toServer' = toServer \cup {Datagram(c)}
  /\ UNCHANGED <<call, toClient, resp, requests, notice, lastTx, closed,
                 serverVars>>

Retransmit(c) ==
  /\ TimerFires(c) /\ call[c].try < setup.retries
  /\ call' = [call EXCEPT ![c].try = @ + 1]
  /\ toServer' = toServer \cup {Datagram(c)}
  /\ UNCHANGED <<toClient, resp, requests, notice, lastTx, closed, serverVars>>

\* The call returns and its transaction is forgotten.
EndCall(c) ==
  /\ call' = [call EXCEPT ![c] = NoCall]
  /\ resp' = [resp EXCEPT ![c] = None]

\* No answer after the last attempt, the next attempt cannot be sent, or Close
\* was called meanwhile: an error.
GiveUp(c) ==
  /\ \/ TimerFires(c)
     \/ call[c].at = "wait" /\ closed[c]
  /\ EndCall(c)
  /\ UNCHANGED <<toServer, toClient, requests, notice, lastTx, closed,
                 serverVars>>

\* transact returns the response; the transaction is no longer pending.
TakeResponse(c) ==
  /\ call[c].at = "wait" /\ resp[c] # None
  /\ call' = [call EXCEPT ![c].at = "apply"]
  /\ UNCHANGED <<toServer, toClient, resp, requests, notice, lastTx, closed,
                 serverVars>>

Final == {"Released", "Denied"}

\* A mutant: ReleaseFloor does not delete the active request.
AppliedKeepsReleased(c) ==
  IF call[c].kind = "FloorRequest" /\ resp[c].kind = "FloorRequestStatus"
    THEN [requests[c] EXCEPT ![call[c].floor] =
            IF resp[c].status \in Final THEN None
            ELSE [req |-> resp[c].req, status |-> resp[c].status]]
    ELSE requests[c]

\* What the method does with the response: the error paths change nothing, and
\* ReleaseFloor takes any response but an Error for success.
Applied(c) ==
  LET f == call[c].floor
      m == resp[c]
  IN  CASE call[c].kind = "FloorRequest" /\ m.kind = "FloorRequestStatus" ->
             [requests[c] EXCEPT ![f] =
                IF m.status \in Final THEN None
                ELSE [req |-> m.req, status |-> m.status]]
        [] call[c].kind = "FloorRelease" /\ m.kind # "Error" ->
             [requests[c] EXCEPT ![f] = None]
        [] OTHER -> requests[c]

FinishCall(c) ==
  /\ call[c].at = "apply"
  /\ requests' = [requests EXCEPT ![c] = Applied(c)]
  /\ EndCall(c)
  /\ UNCHANGED <<toServer, toClient, notice, lastTx, closed, serverVars>>

Close(c) ==
  /\ "Close" \in setup.calls /\ ~closed[c]
  /\ closed' = [closed EXCEPT ![c] = TRUE]
  /\ UNCHANGED <<toServer, toClient, call, resp, requests, notice, lastTx,
                 serverVars>>

-----------------------------------------------------------------------------
\* The client's read loop.

\* A mutant: any datagram answers the waiting call.
AnswersAnyCall(c, m) == call[c].at = "wait"

\* The datagram has the transaction ID of the pending call, nothing else is
\* compared.
Answers(c, m) == call[c].at = "wait" /\ m.tx = call[c].tx

\* ownRequest (the server sends no beneficiary).
OwnRequest(c, m) ==
  /\ m.kind \in {"FloorRequestStatus", "FloorStatus"}
  /\ requests[c][m.floor] # None
  /\ requests[c][m.floor].req = m.req

\* UDPClient.handleMessage: a response, a notification about an own request, or
\* something only reported to the application.  A full response channel drops
\* the datagram; a closed client is no longer found.
HandleMessage(c, m) ==
  /\ m \in toClient /\ m.to = c /\ notice[c] = None
  /\ toClient' = After(toClient, m)
  /\ resp' = [resp EXCEPT ![c] =
                IF ~closed[c] /\ Answers(c, m) /\ @ = None THEN m ELSE @]
  /\ notice' = [notice EXCEPT ![c] =
                  IF ~closed[c] /\ ~Answers(c, m) /\ OwnRequest(c, m)
                    THEN m ELSE None]
  /\ UNCHANGED <<toServer, call, requests, lastTx, closed, serverVars>>

\* applyOwnStatus, to whatever request is active by now.
ApplyOwnStatus(c) ==
  /\ notice[c] # None
  /\ LET f == notice[c].floor IN
       requests' = [requests EXCEPT ![c][f] =
         IF @ = None \/ notice[c].status \in Final THEN None
         ELSE [@ EXCEPT !.status = notice[c].status]]
  /\ notice' = [notice EXCEPT ![c] = None]
  /\ UNCHANGED <<toServer, toClient, call, resp, lastTx, closed, serverVars>>

Lose ==
  /\ "lose" \in setup.faults
  /\ \/ \E m \in toServer : toServer' = toServer \ {m} /\ UNCHANGED toClient
     \/ \E m \in toClient : toClient' = toClient \ {m} /\ UNCHANGED toServer
  /\ UNCHANGED <<serverVars, clientVars>>

-----------------------------------------------------------------------------
Server ==
  \/ HandleUDPMessage
  \/ DecideUDP \/ GoodbyeReleaseUDP \/ SendBroadcastUDP \/ HandlerDoneUDP
  \/ \E c \in setup.clients, f \in setup.floors : RegisterClient(c, f)

Calling(c) ==
  \/ Hello(c) \/ Goodbye(c) \/ Close(c)
  \/ \E f \in setup.floors : RequestFloor(c, f) \/ ReleaseFloor(c, f)

\* The call of c goes on.
Returning(c) ==
  Retransmit(c) \/ GiveUp(c) \/ TakeResponse(c) \/ FinishCall(c)

Listening(c) ==
  ApplyOwnStatus(c) \/ \E m \in toClient : HandleMessage(c, m)

Next ==
  \/ Server \/ Lose
  \/ \E c \in setup.clients : Calling(c) \/ Returning(c) \/ Listening(c)

Spec == Init /\ [][Next]_vars

\* Timers fire and goroutines run; the network and the server owe nothing.
FairSpec == Spec /\ \A c \in Clients : WF_vars(Returning(c))

-----------------------------------------------------------------------------
\* UDPClient.HasFloor.
HasFloor(c, f) == requests[c][f] # None /\ requests[c][f].status = "Granted"

HolderIs(f, u) == floors[f].state = "Granted" /\ floors[f].owner = u

\* Whatever the network does, a client only believes in grants the server made
\* to it, for that floor and under that request ID (udpclient.go:288-316).
GrantsAreReal ==
  \A c \in Clients, f \in FloorIDs :
    HasFloor(c, f) => <<f, requests[c][f].req>> \in issued[c]

\* On a network that neither loses, duplicates nor outlasts the timer, a client
\* that never says Goodbye and for which UDPClient.HasFloor is true is the
\* holder, until it closes and but for the time it spends inside ReleaseFloor
\* (udpclient.go:236).
HasFloorIsHolder ==
  setup.faults = {} /\ "Goodbye" \notin setup.calls =>
    \A c \in Clients, f \in FloorIDs :
      HasFloor(c, f) /\ ~closed[c] /\ call[c].kind # "FloorRelease"
        => HolderIs(f, UserOf[c])

\* Every call returns, answered or not (transact).
CallsReturn ==
  \A c \in Clients : call[c].at = "wait" ~> call[c] = NoCall

\* The UDP server too implements the abstract floor control specification.
FC == INSTANCE FloorControl WITH
  phase <- [f \in FloorIDs |-> floors[f].state],
  holder <- [f \in FloorIDs |-> floors[f].owner]

ImplementsFloorControl == FC!Spec

=============================================================================
