--------------------------- MODULE UDPFloor_proofs ---------------------------
(***************************************************************************)
(* Theorems about UDPFloor, for every value of its constants.              *)
(***************************************************************************)
EXTENDS UDPFloor, TLAPS

-----------------------------------------------------------------------------
\* The inductive invariants.

FloorCalls == {"FloorRequest", "FloorRelease"}

\* A floor that is not held has no owner, and the handler that decides a
\* request finds it as it left it.
ServerInv ==
  /\ \A f \in FloorIDs : ~Held(floors[f]) => floors[f].owner = NoUser
  /\ serving.at = "idle" => serving = Idle
  /\ serving.at # "idle" => serving.from \in Clients
  /\ serving.at = "decide" =>
       /\ serving.floor \in known
       /\ floors[serving.floor].state = "Pending"
       /\ floors[serving.floor].owner = UserOf[serving.from]
       /\ floors[serving.floor].requestID = serving.req

\* Transaction tx of client c is no later than its current call, and if it is
\* that one it is a call of this kind about this floor.
OfCall(c, tx, kind, f) ==
  /\ tx \in 1..lastTx[c]
  /\ tx = call[c].tx => call[c].kind = kind /\ call[c].floor = f

CallOK(c) ==
  /\ call[c].at = "idle" => call[c] = NoCall
  /\ call[c].at # "idle" =>
       /\ call[c].tx = lastTx[c] /\ call[c].tx # 0
       /\ call[c].kind \in setup.calls
       /\ call[c].kind \in FloorCalls => call[c].floor \in FloorIDs
  /\ resp[c] # None =>
       /\ call[c].at # "idle"
       /\ resp[c].to = c /\ resp[c].tx = call[c].tx
  /\ call[c].at = "apply" => resp[c] # None

DatagramOK(d) ==
  /\ OfCall(d.from, d.tx, d.kind, d.floor)
  /\ d.tx = call[d.from].tx => d.req = call[d.from].req
  /\ d.kind \in setup.calls
  /\ d.kind \in FloorCalls => d.floor \in FloorIDs

CallInv ==
  /\ \A c \in Clients : CallOK(c)
  /\ \A d \in toServer : DatagramOK(d)
  /\ serving.at = "decide" =>
       OfCall(serving.from, serving.tx, "FloorRequest", serving.floor)

IsGrant(m) == m.kind = "FloorRequestStatus" /\ m.status = "Granted"

\* What the kind of an answer says about it.
Sound(m) ==
  /\ IsGrant(m) => /\ <<m.floor, m.req>> \in issued[m.to]
                   /\ OfCall(m.to, m.tx, "FloorRequest", m.floor)
  /\ m.kind = "FloorRequestStatus" =>
       m.status \in {"Granted", "Denied", "Released"}
  /\ m.kind = "FloorStatus" => m.tx = 0
  /\ m.kind = "Error" => m.tx \in 1..lastTx[m.to]

GrantInv ==
  /\ \A m \in toClient : Sound(m)
  /\ \A c \in Clients : resp[c] # None => Sound(resp[c])
  /\ \A c \in Clients, f \in FloorIDs :
       requests[c][f] # None => <<f, requests[c][f].req>> \in issued[c]

UDPInv == TypeOK /\ ServerInv /\ CallInv /\ GrantInv

-----------------------------------------------------------------------------
\* Facts about the operators.

LEMMA SetupFacts ==
  ASSUME setup \in Setups
  PROVE  /\ setup.ids \in Nat \ {0} /\ setup.retries \in Nat \ {0}
         /\ setup.clients \subseteq Clients /\ setup.floors \subseteq FloorIDs
         /\ setup.calls \subseteq CallKinds \cup {"Close"}
         /\ setup.preset \subseteq Clients
         /\ setup.decisions \subseteq BOOLEAN
BY UDPAssumption DEF CallKinds

\* The counter stays in the ID space.
LEMMA IDTypes ==
  ASSUME TypeOK
  PROVE  /\ NextID \in IDs /\ 0 \in IDs /\ 1 % setup.ids \in IDs
         /\ IDs \subseteq Nat
<1>1. setup.ids \in Nat \ {0}  BY SetupFacts DEF TypeOK
<1>2. IDs \subseteq Nat  BY <1>1 DEF IDs
<1>3. nextTxID + 1 \in Nat  BY <1>2 DEF TypeOK
<1>. QED  BY <1>1, <1>2, <1>3 DEF NextID, IDs

LEMMA UserTypes ==
  ASSUME NEW c \in Clients
  PROVE  UserOf[c] \in Users
BY UDPAssumption DEF Users

Floors == [fid : FloorIDs, state : FloorStates, owner : Users \cup {NoUser},
           requestID : IDs]

Handlers == [at : {"idle", "decide", "loop"}, from : Clients \cup {None},
             tx : Nat, floor : AnyFloor, req : Nat, grant : BOOLEAN,
             todo : SUBSET FloorIDs, dest : SUBSET Clients]

\* The server's part of TypeOK, without the setup.
ServerTypeOK ==
  /\ known \subseteq FloorIDs
  /\ floors \in [FloorIDs -> Floors]
  /\ sessions \subseteq Clients
  /\ nextTxID \in IDs
  /\ serving \in Handlers
  /\ toServer \subseteq Datagrams
  /\ toClient \subseteq Messages
  /\ issued \in [Clients -> SUBSET (FloorIDs \X IDs)]

Calls == [kind : CallKinds \cup {"none"}, at : {"idle", "wait", "apply"},
          floor : AnyFloor, req : Nat, tx : Nat, try : 0..setup.retries]

Entries == [req : Nat, status : FloorStates \cup {"none"}]

\* The clients' part of TypeOK, and the network's.
ClientTypeOK ==
  /\ toServer \subseteq Datagrams
  /\ toClient \subseteq Messages
  /\ call \in [Clients -> Calls]
  /\ resp \in [Clients -> Messages \cup {None}]
  /\ requests \in [Clients -> [FloorIDs -> Entries \cup {None}]]
  /\ notice \in [Clients -> Messages \cup {None}]
  /\ lastTx \in [Clients -> 0..MaxCalls]
  /\ closed \in [Clients -> BOOLEAN]

\* What the FloorStateMachine methods do to a floor.
LEMMA FloorMethods ==
  ASSUME TypeOK, NEW m \in Floors
  PROVE  /\ \A u \in Users, r \in IDs :
              /\ Request(m, u, r) \in Floors
              /\ Request(m, u, r).state = "Pending"
              /\ Request(m, u, r).owner = u
              /\ Request(m, u, r).requestID = r
         /\ /\ Grant(m) \in Floors /\ Grant(m).state = "Granted"
            /\ Grant(m).owner = m.owner /\ Grant(m).requestID = m.requestID
         /\ /\ Deny(m) \in Floors /\ Deny(m).state = "Denied"
            /\ Deny(m).owner = NoUser
         /\ /\ Release(m) \in Floors /\ Release(m).state = "Released"
            /\ Release(m).owner = NoUser
BY IDTypes DEF Floors, FloorStates, Request, Grant, Deny, Release

LEMMA StatusType ==
  ASSUME NEW c \in Clients,
         NEW kind \in {"HelloAck", "Error", "FloorRequestStatus", "FloorStatus"},
         NEW tx \in Nat, NEW f \in AnyFloor, NEW r \in Nat,
         NEW st \in FloorStates \cup {"none"}
  PROVE  /\ Status(c, kind, tx, f, r, st) \in Messages
         /\ Status(c, kind, tx, f, r, st).to = c
         /\ Status(c, kind, tx, f, r, st).kind = kind
         /\ Status(c, kind, tx, f, r, st).tx = tx
         /\ Status(c, kind, tx, f, r, st).floor = f
         /\ Status(c, kind, tx, f, r, st).req = r
         /\ Status(c, kind, tx, f, r, st).status = st
BY DEF Status, Messages

LEMMA ReplyType ==
  ASSUME NEW m \in Datagrams, NEW kind \in {"HelloAck", "Error"}
  PROVE  /\ Reply(m, kind) \in Messages
         /\ Reply(m, kind).to = m.from
         /\ Reply(m, kind).kind = kind
         /\ Reply(m, kind).tx = m.tx
<1>1. m.from \in Clients /\ m.tx \in Nat /\ None \in AnyFloor
  BY DEF Datagrams, AnyFloor
<1>. QED  BY <1>1, StatusType DEF Reply

LEMMA AfterType ==
  ASSUME NEW net, NEW m
  PROVE  After(net, m) \subseteq net
BY DEF After

-----------------------------------------------------------------------------
\* The steps, one disjunct per operation.

\* The server takes datagram m in one step of handleUDPMessage.
Takes(m) ==
  /\ Receive(m) /\ UNCHANGED clientVars
  /\ \/ HandleUDPHello(m) \/ HandleUDPFloorRequest(m)
     \/ HandleUDPFloorRelease(m) \/ HandleUDPGoodbye(m)

\* A method of the client starts its transaction.
Starts(c, kind, f, r) ==
  /\ Transact(c, kind, f, r)
  /\ kind \in FloorCalls => f \in FloorIDs
  /\ kind = "FloorRelease" => requests[c][f] # None /\ r = requests[c][f].req

LEMMA StepCases ==
  ASSUME TypeOK, [Next]_vars
  PROVE  \/ \E m \in toServer : Takes(m)
         \/ DecideUDP \/ GoodbyeReleaseUDP \/ SendBroadcastUDP \/ HandlerDoneUDP
         \/ \E c \in Clients, f \in FloorIDs : RegisterClient(c, f)
         \/ \E c \in Clients, kind \in CallKinds, f \in AnyFloor, r \in Nat :
              Starts(c, kind, f, r)
         \/ \E c \in Clients :
              \/ Close(c) \/ Retransmit(c) \/ GiveUp(c) \/ TakeResponse(c)
              \/ FinishCall(c) \/ ApplyOwnStatus(c)
              \/ \E m \in toClient : HandleMessage(c, m)
         \/ Lose
         \/ UNCHANGED vars
<1>0. setup.clients \subseteq Clients /\ setup.floors \subseteq FloorIDs
  BY SetupFacts DEF TypeOK
<1>1. Server => \/ \E m \in toServer : Takes(m)
                \/ DecideUDP \/ GoodbyeReleaseUDP \/ SendBroadcastUDP
                \/ HandlerDoneUDP
                \/ \E c \in Clients, f \in FloorIDs : RegisterClient(c, f)
  BY <1>0, Zenon DEF Server, HandleUDPMessage, Takes
<1>2. ASSUME NEW c \in Clients, Calling(c)
      PROVE  \/ Close(c)
             \/ \E kind \in CallKinds, f \in AnyFloor, r \in Nat :
                  Starts(c, kind, f, r)
  <2>. DEFINE Started == \E kind \in CallKinds, f \in AnyFloor, r \in Nat :
                           Starts(c, kind, f, r)
  <2>1. Hello(c) => Starts(c, "Hello", None, 0)
    BY DEF Hello, Starts, FloorCalls
  <2>2. Goodbye(c) => Starts(c, "Goodbye", None, 0)
    BY DEF Goodbye, Starts, FloorCalls
  <2>3. ASSUME NEW f \in FloorIDs, RequestFloor(c, f)  PROVE Started
    <3>1. Starts(c, "FloorRequest", f, 0)  BY <2>3 DEF RequestFloor, Starts
    <3>. QED  BY <3>1 DEF CallKinds, AnyFloor
  <2>4. ASSUME NEW f \in FloorIDs, ReleaseFloor(c, f)  PROVE Started
    <3>1. Starts(c, "FloorRelease", f, requests[c][f].req)
      BY <2>4 DEF ReleaseFloor, Starts
    <3>2. requests[c][f].req \in Nat  BY <2>4 DEF ReleaseFloor, TypeOK
    <3>. QED  BY <3>1, <3>2 DEF CallKinds, AnyFloor
  <2>5. (Hello(c) \/ Goodbye(c)) => Started
    BY <2>1, <2>2 DEF CallKinds, AnyFloor
  <2>. QED  BY <1>0, <1>2, <2>3, <2>4, <2>5 DEF Calling
<1>. QED  BY <1>0, <1>1, <1>2, Zenon DEF Next, Returning, Listening

\* handleUDPFloorRelease frees floor f, or answers with an Error.
Frees(m, f) ==
  /\ CanRelease(floors[f], UserOf[m.from])
  /\ floors' = [floors EXCEPT ![f] = Release(@)]
  /\ toClient' = toClient \cup
       {Status(m.from, "FloorRequestStatus", m.tx, f, m.req, "Released")}
  /\ serving' = [Idle EXCEPT !.at = "loop", !.from = m.from, !.floor = f,
                   !.req = m.req, !.dest = sessions \ {m.from}]
  /\ UNCHANGED <<setup, known, sessions, nextTxID, issued>>

Refuses(m) ==
  /\ toClient' = toClient \cup {Reply(m, "Error")}
  /\ UNCHANGED <<setup, known, floors, sessions, nextTxID, serving, issued>>

LEMMA ReleaseCases ==
  ASSUME TypeOK, NEW m \in toServer, HandleUDPFloorRelease(m)
  PROVE  \/ \E f \in FloorIDs : f \in FloorsToRelease(m) /\ Frees(m, f)
         \/ Refuses(m)
<1>1. FloorsToRelease(m) \subseteq FloorIDs
  BY DEF TypeOK, FloorsToRelease, FloorsByRequestID, FloorsOwnedBy
<1>. QED  BY <1>1, Zenon DEF HandleUDPFloorRelease, Frees, Refuses

\* The types of the server's part.
LEMMA ServerTypes ==
  ASSUME UDPInv,
         \/ \E m \in toServer : Takes(m)
         \/ DecideUDP \/ GoodbyeReleaseUDP \/ SendBroadcastUDP \/ HandlerDoneUDP
         \/ \E c \in Clients, f \in FloorIDs : RegisterClient(c, f)
  PROVE  TypeOK'
<1>0. TypeOK /\ ServerInv /\ CallInv  BY DEF UDPInv
<1>1. UNCHANGED <<setup, clientVars>>
  BY DEF Takes, HandleUDPHello, HandleUDPFloorRequest, HandleUDPFloorRelease,
         HandleUDPGoodbye, DecideUDP, GoodbyeReleaseUDP, SendBroadcastUDP,
         HandlerDoneUDP, RegisterClient
<1>2. SUFFICES ServerTypeOK'
  BY <1>0, <1>1 DEF TypeOK, ServerTypeOK, clientVars, Floors, Handlers, IDs
<1>3. ServerTypeOK /\ IDs' = IDs
  BY <1>0, <1>1 DEF TypeOK, ServerTypeOK, Floors, Handlers, IDs
<1>a. Floors' = Floors  BY <1>1, <1>3 DEF Floors
<1>b. Idle \in Handlers  BY DEF Idle, Handlers, AnyFloor
<1>4. ASSUME NEW m \in toServer, Takes(m)  PROVE ServerTypeOK'
  <2>1. toServer' \subseteq Datagrams
    BY <1>3, <1>4, AfterType DEF ServerTypeOK, Takes, Receive
  <2>2. m \in Datagrams /\ m.from \in Clients /\ m.tx \in Nat /\ m.req \in Nat
    BY <1>3 DEF ServerTypeOK, Datagrams
  <2>3. CASE HandleUDPHello(m)
    <3>1. Reply(m, "HelloAck") \in Messages  BY <2>2, ReplyType
    <3>. QED  BY <1>1, <1>3, <1>a, <2>1, <2>2, <2>3, <3>1
              DEF ServerTypeOK, HandleUDPHello
  <2>4. CASE HandleUDPFloorRequest(m)
    <3>1. m.floor \in FloorIDs
      BY <1>0, <2>4 DEF CallInv, DatagramOK, FloorCalls, HandleUDPFloorRequest
    <3>2. Reply(m, "Error") \in Messages  BY <2>2, ReplyType
    <3>3. UserOf[m.from] \in Users /\ NextID \in IDs /\ IDs \subseteq Nat
      BY <1>0, <2>2, UserTypes, IDTypes
    <3>4. Request(floors[m.floor], UserOf[m.from], NextID) \in Floors
      BY <1>0, <1>3, <3>1, <3>3, FloorMethods DEF ServerTypeOK
    <3>5. floors' \in [FloorIDs -> Floors]
      BY <1>3, <2>4, <3>4 DEF ServerTypeOK, HandleUDPFloorRequest
    <3>6. ASSUME NEW g \in setup.decisions
          PROVE  [Idle EXCEPT !.at = "decide", !.from = m.from, !.tx = m.tx,
                     !.floor = m.floor, !.req = NextID, !.grant = g] \in Handlers
      <4>1. g \in BOOLEAN  BY <1>0, SetupFacts DEF TypeOK
      <4>. QED  BY <2>2, <3>1, <3>3, <4>1 DEF Idle, Handlers, AnyFloor
    <3>7. serving' \in Handlers
      BY <1>3, <2>4, <3>6 DEF ServerTypeOK, HandleUDPFloorRequest
    <3>. QED  BY <1>3, <1>3, <1>a, <2>1, <2>4, <3>1, <3>2, <3>3, <3>5, <3>7
              DEF ServerTypeOK, HandleUDPFloorRequest
  <2>5. CASE HandleUDPFloorRelease(m)
    <3>1. Reply(m, "Error") \in Messages  BY <2>2, ReplyType
    <3>3. ASSUME NEW f \in FloorIDs
          PROVE  /\ Release(floors[f]) \in Floors
                 /\ [Idle EXCEPT !.at = "loop", !.from = m.from, !.floor = f,
                       !.req = m.req, !.dest = sessions \ {m.from}] \in Handlers
                 /\ Status(m.from, "FloorRequestStatus", m.tx, f, m.req,
                           "Released") \in Messages
      <4>1. Release(floors[f]) \in Floors
        BY <1>0, <1>3, FloorMethods DEF ServerTypeOK
      <4>2. f \in AnyFloor /\ "Released" \in FloorStates \cup {"none"}
        BY DEF AnyFloor, FloorStates
      <4>3. [Idle EXCEPT !.at = "loop", !.from = m.from, !.floor = f,
               !.req = m.req, !.dest = sessions \ {m.from}] \in Handlers
        BY <1>3, <2>2, <4>2 DEF ServerTypeOK, Idle, Handlers
      <4>. QED  BY <2>2, <4>1, <4>2, <4>3, StatusType
    <3>4. ASSUME NEW f \in FloorIDs, Frees(m, f)  PROVE ServerTypeOK'
      BY <1>3, <1>a, <2>1, <3>3, <3>4 DEF ServerTypeOK, Frees
    <3>5. CASE Refuses(m)
      BY <1>3, <1>a, <2>1, <3>1, <3>5 DEF ServerTypeOK, Refuses
    <3>. QED  BY <1>0, <2>5, <3>4, <3>5, ReleaseCases
  <2>6. CASE HandleUDPGoodbye(m)
    <3>1. {f \in known : floors[f].owner = UserOf[m.from]} \subseteq FloorIDs
      BY <1>3 DEF ServerTypeOK
    <3>2. serving' \in Handlers
      BY <2>2, <2>6, <3>1 DEF HandleUDPGoodbye, Idle, Handlers, AnyFloor
    <3>. QED  BY <1>3, <1>a, <2>1, <2>6, <3>2 DEF ServerTypeOK, HandleUDPGoodbye
  <2>. QED  BY <1>4, <2>3, <2>4, <2>5, <2>6 DEF Takes
<1>5. CASE DecideUDP
  <2>. DEFINE st == IF serving.grant THEN "Granted" ELSE "Denied"
              msg == Status(serving.from, "FloorRequestStatus", serving.tx,
                            serving.floor, serving.req, st)
  <2>1. /\ serving.at = "decide" /\ serving.from \in Clients
        /\ serving.floor \in FloorIDs /\ serving.tx \in Nat
        /\ serving.req \in IDs /\ serving.req \in Nat
    BY <1>0, <1>3, <1>5
    DEF DecideUDP, ServerInv, ServerTypeOK, Handlers, Floors
  <2>2. floors' \in [FloorIDs -> Floors]
    BY <1>0, <1>3, <1>5, <2>1, FloorMethods DEF ServerTypeOK, DecideUDP
  <2>3. msg \in Messages
    <3>1. st \in FloorStates \cup {"none"} /\ serving.floor \in AnyFloor
      BY <2>1 DEF FloorStates, AnyFloor
    <3>. QED  BY <2>1, <3>1, StatusType
  <2>4. toClient' \subseteq Messages
    BY <1>3, <1>5, <2>3 DEF ServerTypeOK, DecideUDP
  <2>5. issued' \in [Clients -> SUBSET (FloorIDs \X IDs)]
    BY <1>3, <1>5, <2>1 DEF ServerTypeOK, DecideUDP
  <2>. QED  BY <1>3, <1>a, <1>b, <1>5, <2>2, <2>4, <2>5 DEF ServerTypeOK, DecideUDP
<1>6. CASE GoodbyeReleaseUDP
  <2>1. PICK f \in serving.todo :
          /\ floors' = [floors EXCEPT ![f] = Release(@)]
          /\ serving' = [serving EXCEPT !.todo = @ \ {f}, !.floor = f, !.req = 0,
                           !.dest = sessions \ {serving.from}]
    BY <1>6 DEF GoodbyeReleaseUDP
  <2>2. f \in FloorIDs  BY <1>3 DEF ServerTypeOK, Handlers
  <2>3. floors' \in [FloorIDs -> Floors]
    BY <1>0, <1>3, <2>1, <2>2, FloorMethods DEF ServerTypeOK
  <2>4. serving' \in Handlers
    BY <1>3, <2>1, <2>2 DEF ServerTypeOK, Handlers, AnyFloor
  <2>. QED  BY <1>3, <1>a, <1>6, <2>3, <2>4 DEF ServerTypeOK, GoodbyeReleaseUDP
<1>7. CASE SendBroadcastUDP
  <2>1. PICK c \in serving.dest :
          /\ toClient' = toClient \cup
               {Status(c, "FloorRequestStatus", NextID, serving.floor, serving.req,
                       "Released")}
          /\ serving' = [serving EXCEPT !.dest = @ \ {c}]
    BY <1>7 DEF SendBroadcastUDP
  <2>2. /\ c \in Clients /\ serving.floor \in AnyFloor /\ serving.req \in Nat
        /\ "Released" \in FloorStates
    BY <1>3 DEF ServerTypeOK, Handlers, FloorStates
  <2>3. NextID \in IDs /\ NextID \in Nat  BY <1>0, IDTypes
  <2>4. toClient' \subseteq Messages
    BY <1>3, <2>1, <2>2, <2>3, StatusType DEF ServerTypeOK
  <2>5. serving' \in Handlers  BY <1>3, <2>1 DEF ServerTypeOK, Handlers
  <2>. QED  BY <1>3, <1>a, <1>7, <2>3, <2>4, <2>5 DEF ServerTypeOK, SendBroadcastUDP
<1>8. CASE HandlerDoneUDP
  BY <1>3, <1>a, <1>b, <1>8 DEF ServerTypeOK, HandlerDoneUDP
<1>9. ASSUME NEW c \in Clients, NEW f \in FloorIDs, RegisterClient(c, f)
      PROVE  ServerTypeOK'
  <2>1. 1 % setup.ids \in Nat  BY <1>0, IDTypes
  <2>2. floors[f].state \in FloorStates /\ f \in AnyFloor
    BY <1>3 DEF ServerTypeOK, Floors, AnyFloor
  <2>3. Status(c, "FloorStatus", 0, f, 1 % setup.ids, floors[f].state) \in Messages
    BY <2>1, <2>2, StatusType
  <2>. QED  BY <1>3, <1>a, <1>9, <2>3 DEF ServerTypeOK, RegisterClient
<1>. QED  BY <1>4, <1>5, <1>6, <1>7, <1>8, <1>9

\* The types of the clients' part.
LEMMA ClientTypes ==
  ASSUME UDPInv,
         \/ \E c \in Clients, kind \in CallKinds, f \in AnyFloor, r \in Nat :
              Starts(c, kind, f, r)
         \/ \E c \in Clients :
              \/ Close(c) \/ Retransmit(c) \/ GiveUp(c) \/ TakeResponse(c)
              \/ FinishCall(c) \/ ApplyOwnStatus(c)
              \/ \E m \in toClient : HandleMessage(c, m)
         \/ Lose
         \/ UNCHANGED vars
  PROVE  TypeOK'
<1>0. TypeOK /\ CallInv  BY DEF UDPInv
<1>1. UNCHANGED serverVars
  BY DEF Starts, Transact, Close, Retransmit, GiveUp, TakeResponse, FinishCall,
         ApplyOwnStatus, HandleMessage, Lose, vars, serverVars
<1>2. SUFFICES ClientTypeOK'
  BY <1>0, <1>1 DEF TypeOK, ClientTypeOK, serverVars, Calls, Entries, IDs
<1>3. ClientTypeOK
  BY <1>0 DEF TypeOK, ClientTypeOK, Calls, Entries
<1>4. Calls' = Calls  BY <1>1 DEF Calls, serverVars
<1>5. setup.retries \in Nat \ {0} /\ MaxCalls \in Nat
  BY <1>0, SetupFacts, UDPAssumption DEF TypeOK
<1>6. NoCall \in Calls  BY <1>5 DEF NoCall, Calls, AnyFloor
<1>7. ASSUME NEW c \in Clients, NEW kind \in CallKinds, NEW f \in AnyFloor,
             NEW r \in Nat, Starts(c, kind, f, r)
      PROVE  ClientTypeOK'
  <2>0. Transact(c, kind, f, r)  BY <1>7 DEF Starts
  <2>1. lastTx[c] + 1 \in 0..MaxCalls /\ lastTx[c] + 1 \in Nat
    BY <1>3, <1>5, <2>0 DEF ClientTypeOK, Transact
  <2>2. [kind |-> kind, at |-> "wait", floor |-> f, req |-> r,
         tx |-> lastTx[c] + 1, try |-> 1] \in Calls
    BY <1>5, <2>1 DEF Calls
  <2>3. call' \in [Clients -> Calls]
    BY <1>3, <2>0, <2>2 DEF ClientTypeOK, Transact
  <2>4. Datagram(c)' = [from |-> c, kind |-> kind, tx |-> lastTx[c] + 1,
                        floor |-> f, req |-> r]
    BY <1>3, <2>0 DEF ClientTypeOK, Transact, Datagram
  <2>5. Datagram(c)' \in Datagrams  BY <2>1, <2>4 DEF Datagrams
  <2>6. lastTx' \in [Clients -> 0..MaxCalls]
    BY <1>3, <2>0, <2>1 DEF ClientTypeOK, Transact
  <2>. QED  BY <1>3, <1>4, <2>0, <2>3, <2>5, <2>6 DEF ClientTypeOK, Transact
<1>8. ASSUME NEW c \in Clients, Close(c)  PROVE ClientTypeOK'
  BY <1>3, <1>4, <1>8 DEF ClientTypeOK, Close
<1>9. ASSUME NEW c \in Clients, Retransmit(c)  PROVE ClientTypeOK'
  <2>1. call[c] \in Calls /\ call[c].kind \in CallKinds
    <3>1. call[c].at = "wait"  BY <1>9 DEF Retransmit, TimerFires
    <3>2. call[c].kind \in setup.calls  BY <1>0, <3>1 DEF CallInv, CallOK
    <3>3. setup.calls \subseteq CallKinds \cup {"Close"}
      BY <1>0, SetupFacts DEF TypeOK
    <3>. QED  BY <1>3, <3>2, <3>3 DEF ClientTypeOK, Calls, CallKinds
  <2>2. Datagram(c) \in Datagrams  BY <2>1 DEF Datagram, Datagrams, Calls
  <2>3. [call[c] EXCEPT !.try = @ + 1] \in Calls
    BY <1>5, <1>9, <2>1 DEF Calls, Retransmit
  <2>. QED  BY <1>3, <1>4, <1>9, <2>2, <2>3 DEF ClientTypeOK, Retransmit
<1>10. ASSUME NEW c \in Clients, GiveUp(c)  PROVE ClientTypeOK'
  BY <1>3, <1>4, <1>6, <1>10 DEF ClientTypeOK, GiveUp, EndCall
<1>11. ASSUME NEW c \in Clients, TakeResponse(c)  PROVE ClientTypeOK'
  <2>1. [call[c] EXCEPT !.at = "apply"] \in Calls
    BY <1>3 DEF ClientTypeOK, Calls
  <2>. QED  BY <1>3, <1>4, <1>11, <2>1 DEF ClientTypeOK, TakeResponse
<1>12. ASSUME NEW c \in Clients, FinishCall(c)  PROVE ClientTypeOK'
  <2>1. Applied(c) \in [FloorIDs -> Entries \cup {None}]
    <3>1. requests[c] \in [FloorIDs -> Entries \cup {None}]
      BY <1>3 DEF ClientTypeOK
    <3>2. CASE call[c].kind = "FloorRequest" /\ resp[c].kind = "FloorRequestStatus"
      <4>1. [req |-> resp[c].req, status |-> resp[c].status] \in Entries
        BY <1>0, <1>3, <1>12
        DEF ClientTypeOK, Messages, Entries, FinishCall, CallInv, CallOK
      <4>. QED  BY <3>1, <3>2, <4>1 DEF Applied
    <3>. QED  BY <3>1, <3>2 DEF Applied
  <2>. QED  BY <1>3, <1>4, <1>6, <1>12, <2>1 DEF ClientTypeOK, FinishCall, EndCall
<1>13. ASSUME NEW c \in Clients, ApplyOwnStatus(c)  PROVE ClientTypeOK'
  <2>1. notice[c] \in Messages  BY <1>3, <1>13 DEF ClientTypeOK, ApplyOwnStatus
  <2>2. ASSUME NEW e \in Entries
        PROVE  [e EXCEPT !.status = notice[c].status] \in Entries
    BY <2>1 DEF Entries, Messages
  <2>. DEFINE f == notice[c].floor
              e == IF requests[c][f] = None \/ notice[c].status \in Final THEN None
                   ELSE [requests[c][f] EXCEPT !.status = notice[c].status]
  <2>a. requests' = [requests EXCEPT ![c] = [requests[c] EXCEPT ![f] = e]]
    BY <1>13 DEF ApplyOwnStatus
  <2>b. requests[c] \in [FloorIDs -> Entries \cup {None}]
    BY <1>3 DEF ClientTypeOK
  <2>c. f \in FloorIDs => e \in Entries \cup {None}
    BY <2>b, <2>2
  <2>d. [requests[c] EXCEPT ![f] = e] \in [FloorIDs -> Entries \cup {None}]
    <3>. HIDE DEF e
    <3>. QED  BY <2>b, <2>c
  <2>3. requests' \in [Clients -> [FloorIDs -> Entries \cup {None}]]
    <3>. HIDE DEF e, f
    <3>. QED  BY <1>3, <2>a, <2>d DEF ClientTypeOK
  <2>. QED  BY <1>3, <1>4, <1>13, <2>3 DEF ClientTypeOK, ApplyOwnStatus
<1>14. ASSUME NEW c \in Clients, NEW m \in toClient, HandleMessage(c, m)
       PROVE  ClientTypeOK'
  BY <1>3, <1>4, <1>14, AfterType DEF ClientTypeOK, HandleMessage
<1>15. CASE Lose
  BY <1>3, <1>4, <1>15 DEF ClientTypeOK, Lose, clientVars
<1>16. CASE UNCHANGED vars
  BY <1>3, <1>4, <1>16 DEF ClientTypeOK, vars
<1>. QED  BY <1>7, <1>8, <1>9, <1>10, <1>11, <1>12, <1>13, <1>14, <1>15, <1>16

LEMMA TypeStep ==
  ASSUME UDPInv, [Next]_vars
  PROVE  TypeOK'
BY StepCases, ServerTypes, ClientTypes DEF UDPInv

-----------------------------------------------------------------------------
\* The floors and the handler that is deciding.

LEMMA ServerInvStep ==
  ASSUME UDPInv, [Next]_vars
  PROVE  ServerInv'
<1>0. TypeOK /\ ServerInv /\ CallInv  BY DEF UDPInv
<1>1. /\ floors \in [FloorIDs -> Floors] /\ known \subseteq FloorIDs
      /\ serving \in Handlers
  BY <1>0 DEF TypeOK, Floors, Handlers
<1>2. CASE UNCHANGED <<known, floors, serving>>
  BY <1>0, <1>2 DEF ServerInv
<1>3. ASSUME NEW f \in FloorIDs, UNCHANGED known,
             floors' = [floors EXCEPT ![f] = Release(@)],
             serving'.at = "loop" /\ serving'.from \in Clients
      PROVE  ServerInv'
  <2>1. Release(floors[f]).owner = NoUser  BY <1>0, <1>1, FloorMethods
  <2>2. \A g \in FloorIDs : ~Held(floors'[g]) => floors'[g].owner = NoUser
    BY <1>0, <1>1, <1>3, <2>1 DEF ServerInv
  <2>. QED  BY <1>3, <2>2 DEF ServerInv
<1>4. ASSUME NEW m \in toServer, Takes(m)  PROVE ServerInv'
  <2>1. m.from \in Clients /\ serving = Idle
    BY <1>0, <1>4 DEF TypeOK, Datagrams, Takes, Receive
  <2>2. CASE HandleUDPHello(m)  BY <1>2, <2>2 DEF HandleUDPHello
  <2>3. CASE HandleUDPFloorRequest(m)
    <3>1. m.floor \in FloorIDs
      BY <1>0, <2>3 DEF CallInv, DatagramOK, FloorCalls, HandleUDPFloorRequest
    <3>2. UserOf[m.from] \in Users /\ NextID \in IDs
      BY <1>0, <2>1, UserTypes, IDTypes
    <3>3. CASE CanRequest(floors[m.floor])
      <4>. DEFINE n == Request(floors[m.floor], UserOf[m.from], NextID)
      <4>1. /\ n.state = "Pending" /\ n.owner = UserOf[m.from]
            /\ n.requestID = NextID
        <5>1. floors[m.floor] \in Floors  BY <1>1, <3>1
        <5>. QED  BY <3>2, <5>1 DEF Request, Floors
      <4>2. floors' = [floors EXCEPT ![m.floor] = n]
        BY <2>3, <3>3 DEF HandleUDPFloorRequest
      <4>3. /\ serving'.at = "decide" /\ serving'.from = m.from
            /\ serving'.floor = m.floor /\ serving'.req = NextID
        <5>1. PICK g \in setup.decisions :
                serving' = [Idle EXCEPT !.at = "decide", !.from = m.from,
                              !.tx = m.tx, !.floor = m.floor, !.req = NextID,
                              !.grant = g]
          BY <2>3, <3>3 DEF HandleUDPFloorRequest
        <5>. QED  BY <5>1 DEF Idle
      <4>4. known' = known \cup {m.floor}
        BY <2>3 DEF HandleUDPFloorRequest
      <4>. HIDE DEF n
      <4>5. \A g \in FloorIDs : ~Held(floors'[g]) => floors'[g].owner = NoUser
        BY <1>0, <1>1, <4>1, <4>2 DEF ServerInv, Held
      <4>6. floors'[m.floor] = n  BY <1>1, <3>1, <4>2
      <4>. QED  BY <2>1, <4>1, <4>3, <4>4, <4>5, <4>6 DEF ServerInv
    <3>4. CASE ~CanRequest(floors[m.floor])
      BY <1>0, <2>1, <2>3, <3>4 DEF HandleUDPFloorRequest, ServerInv, Idle
    <3>. QED  BY <3>3, <3>4
  <2>4. CASE HandleUDPFloorRelease(m)
    <3>1. ASSUME NEW f \in FloorIDs, Frees(m, f)  PROVE ServerInv'
      <4>1. serving'.at = "loop" /\ serving'.from = m.from
        BY <3>1 DEF Frees, Idle
      <4>. QED  BY <1>3, <2>1, <3>1, <4>1 DEF Frees
    <3>2. Refuses(m) => ServerInv'  BY <1>2 DEF Refuses
    <3>. QED  BY <1>0, <2>4, <3>1, <3>2, ReleaseCases
  <2>5. CASE HandleUDPGoodbye(m)
    <3>1. serving'.at = "loop" /\ serving'.from = m.from
      BY <2>5 DEF HandleUDPGoodbye, Idle
    <3>. QED  BY <1>0, <2>1, <2>5, <3>1 DEF HandleUDPGoodbye, ServerInv
  <2>. QED  BY <1>4, <2>2, <2>3, <2>4, <2>5 DEF Takes
<1>5. CASE DecideUDP
  <2>1. serving.floor \in FloorIDs /\ serving' = Idle
    BY <1>0, <1>1, <1>5 DEF DecideUDP, ServerInv
  <2>2. Deny(floors[serving.floor]).owner = NoUser
    BY <1>0, <1>1, <2>1, FloorMethods
  <2>3. Held(Grant(floors[serving.floor]))
    BY <1>0, <1>1, <2>1, FloorMethods DEF Held
  <2>4. \A g \in FloorIDs : ~Held(floors'[g]) => floors'[g].owner = NoUser
    BY <1>0, <1>1, <1>5, <2>2, <2>3 DEF DecideUDP, ServerInv
  <2>. QED  BY <2>1, <2>4 DEF ServerInv, Idle
<1>6. CASE GoodbyeReleaseUDP
  <2>1. PICK f \in serving.todo :
          /\ floors' = [floors EXCEPT ![f] = Release(@)]
          /\ serving' = [serving EXCEPT !.todo = @ \ {f}, !.floor = f, !.req = 0,
                           !.dest = sessions \ {serving.from}]
    BY <1>6 DEF GoodbyeReleaseUDP
  <2>2. f \in FloorIDs  BY <1>1 DEF Handlers
  <2>3. serving'.at = "loop" /\ serving'.from \in Clients
    BY <1>0, <1>1, <1>6, <2>1 DEF GoodbyeReleaseUDP, Handlers, ServerInv
  <2>. QED  BY <1>3, <1>6, <2>1, <2>2, <2>3 DEF GoodbyeReleaseUDP
<1>7. CASE SendBroadcastUDP
  <2>1. serving'.at = "loop" /\ serving'.from = serving.from
    BY <1>1, <1>7 DEF SendBroadcastUDP, Handlers
  <2>. QED  BY <1>0, <1>7, <2>1 DEF SendBroadcastUDP, ServerInv
<1>8. CASE HandlerDoneUDP
  BY <1>0, <1>8 DEF HandlerDoneUDP, ServerInv, Idle
<1>9. CASE \/ \E c \in Clients, f \in FloorIDs : RegisterClient(c, f)
           \/ \E c \in Clients, kind \in CallKinds, f \in AnyFloor, r \in Nat :
                Starts(c, kind, f, r)
           \/ \E c \in Clients :
                \/ Close(c) \/ Retransmit(c) \/ GiveUp(c) \/ TakeResponse(c)
                \/ FinishCall(c) \/ ApplyOwnStatus(c)
                \/ \E m \in toClient : HandleMessage(c, m)
           \/ Lose
           \/ UNCHANGED vars
  <2>1. UNCHANGED <<known, floors, serving>>
    BY <1>9 DEF RegisterClient, Starts, Transact, Close, Retransmit, GiveUp,
         TakeResponse, FinishCall, ApplyOwnStatus, HandleMessage, Lose, vars,
         serverVars
  <2>. QED  BY <1>2, <2>1
<1>. QED  BY <1>0, <1>4, <1>5, <1>6, <1>7, <1>8, <1>9, StepCases

-----------------------------------------------------------------------------
\* Transactions.

\* What a step does to the call of a client: nothing but its progress, its
\* end, or the start of the next one.
Goes(c) ==
  /\ lastTx'[c] = lastTx[c]
  /\ call'[c].at = "wait" => call[c].at = "wait"
  /\ call'[c].tx = call[c].tx /\ call'[c].kind = call[c].kind
  /\ call'[c].floor = call[c].floor /\ call'[c].req = call[c].req

Ends(c) == lastTx'[c] = lastTx[c] /\ call'[c] = NoCall

Begins(c) ==
  /\ lastTx'[c] = lastTx[c] + 1 /\ call'[c].tx = lastTx[c] + 1
  /\ ~closed[c] /\ call[c] = NoCall /\ call'[c].at = "wait"
  /\ toServer' = toServer \cup {Datagram(c)'}
  /\ UNCHANGED <<toClient, resp, requests, notice, closed, serverVars>>

LEMMA CallCases ==
  ASSUME UDPInv, [Next]_vars
  PROVE  /\ setup' = setup
         /\ \A c \in Clients : (Goes(c) \/ Ends(c) \/ Begins(c)) /\ CallOK(c)'
         /\ \A d \in toServer' : \/ d \in toServer
                                 \/ \E c \in Clients :
                                      d = Datagram(c)' /\ call'[c].at = "wait"
<1>0. TypeOK /\ CallInv  BY DEF UDPInv
<1>1. call \in [Clients -> Calls] /\ lastTx \in [Clients -> Nat]
  BY <1>0, UDPAssumption DEF TypeOK, Calls
<1>2. \A c \in Clients : CallOK(c)  BY <1>0 DEF CallInv
<1>a. /\ resp \in [Clients -> Messages \cup {None}] /\ toServer \subseteq Datagrams
      /\ toClient \subseteq Messages
  BY <1>0 DEF TypeOK
<1>. DEFINE G == /\ setup' = setup
                 /\ \A c \in Clients : (Goes(c) \/ Ends(c) \/ Begins(c)) /\ CallOK(c)'
                 /\ \A d \in toServer' : \/ d \in toServer
                                         \/ \E c \in Clients :
                                              /\ d = Datagram(c)'
                                              /\ call'[c].at = "wait"
<1>3. ASSUME UNCHANGED <<setup, call, resp, lastTx>>, toServer' \subseteq toServer
      PROVE  G
  <2>1. \A c \in Clients : Goes(c) /\ CallOK(c)'
    BY <1>2, <1>3 DEF Goes, CallOK
  <2>. QED  BY <1>3, <2>1
<1>4. ASSUME \/ \E m \in toServer : Takes(m)
             \/ DecideUDP \/ GoodbyeReleaseUDP \/ SendBroadcastUDP
             \/ HandlerDoneUDP
             \/ \E c \in Clients, f \in FloorIDs : RegisterClient(c, f)
      PROVE  G
  <2>1. UNCHANGED <<setup, clientVars>> /\ toServer' \subseteq toServer
    BY <1>4, AfterType
    DEF Takes, Receive, HandleUDPHello, HandleUDPFloorRequest,
        HandleUDPFloorRelease, HandleUDPGoodbye, DecideUDP, GoodbyeReleaseUDP,
        SendBroadcastUDP, HandlerDoneUDP, RegisterClient
  <2>. QED  BY <1>3, <2>1 DEF clientVars
<1>5. ASSUME NEW c \in Clients, NEW kind \in CallKinds, NEW f \in AnyFloor,
             NEW r \in Nat, Starts(c, kind, f, r)
      PROVE  G
  <2>1. Transact(c, kind, f, r) /\ (kind \in FloorCalls => f \in FloorIDs)
    BY <1>5 DEF Starts
  <2>2. /\ call'[c] = [kind |-> kind, at |-> "wait", floor |-> f, req |-> r,
                       tx |-> lastTx[c] + 1, try |-> 1]
        /\ lastTx'[c] = lastTx[c] + 1
    BY <1>1, <2>1 DEF Transact
  <2>3. setup' = setup /\ resp' = resp /\ call[c] = NoCall
    BY <2>1 DEF Transact, serverVars
  <2>4. Begins(c)
    <3>1. toServer' = toServer \cup {Datagram(c)'}  BY <2>1 DEF Transact
    <3>2. UNCHANGED <<toClient, resp, requests, notice, closed, serverVars>>
      BY <2>1 DEF Transact
    <3>. QED  BY <2>1, <2>2, <3>1, <3>2 DEF Transact, Begins
  <2>5. CallOK(c)'
    <3>1. resp[c] = None  BY <1>2, <2>3 DEF CallOK, NoCall
    <3>2. kind \in setup.calls  BY <2>1 DEF Transact
    <3>. QED  BY <1>1, <2>1, <2>2, <2>3, <3>1, <3>2 DEF CallOK
  <2>6. ASSUME NEW d \in Clients, d # c  PROVE Goes(d) /\ CallOK(d)'
    <3>1. call'[d] = call[d] /\ lastTx'[d] = lastTx[d]
      BY <1>1, <2>1, <2>6 DEF Transact
    <3>. QED  BY <1>2, <2>3, <3>1 DEF Goes, CallOK
  <2>. QED  BY <2>2, <2>3, <2>4, <2>5, <2>6 DEF Begins
<1>6. ASSUME NEW c \in Clients, Close(c)  PROVE G
  BY <1>3, <1>6 DEF Close, serverVars
<1>7. ASSUME NEW c \in Clients, Retransmit(c)  PROVE G
  <2>1. /\ call' = [call EXCEPT ![c].try = @ + 1] /\ call[c].at = "wait"
        /\ UNCHANGED <<setup, resp, lastTx>>
    BY <1>7 DEF Retransmit, TimerFires, serverVars
  <2>2. \A d \in Clients : /\ Goes(d) /\ call'[d].at = call[d].at
                           /\ call[d].at = "idle" => call'[d] = call[d]
    BY <1>1, <2>1 DEF Goes, Calls
  <2>3. \A d \in Clients : CallOK(d)'  BY <1>2, <2>1, <2>2 DEF CallOK, Goes
  <2>4. Datagram(c)' = Datagram(c)  BY <2>2 DEF Datagram, Goes
  <2>5. toServer' = toServer \cup {Datagram(c)}  BY <1>7 DEF Retransmit
  <2>. QED  BY <2>1, <2>2, <2>3, <2>4, <2>5
<1>8. ASSUME NEW c \in Clients, EndCall(c), UNCHANGED <<setup, lastTx, toServer>>
      PROVE  G
  <2>1. Ends(c) /\ call'[c] = NoCall /\ resp'[c] = None
    BY <1>1, <1>8, <1>a DEF EndCall, Ends
  <2>2. CallOK(c)'  BY <2>1 DEF CallOK, NoCall
  <2>3. ASSUME NEW d \in Clients, d # c  PROVE Goes(d) /\ CallOK(d)'
    <3>1. call'[d] = call[d] /\ lastTx'[d] = lastTx[d] /\ resp'[d] = resp[d]
      BY <1>1, <1>8, <1>a, <2>3 DEF EndCall
    <3>. QED  BY <1>2, <1>8, <3>1 DEF Goes, CallOK
  <2>. QED  BY <1>8, <2>1, <2>2, <2>3
<1>9. ASSUME NEW c \in Clients, TakeResponse(c)  PROVE G
  <2>1. /\ call' = [call EXCEPT ![c].at = "apply"] /\ call[c].at = "wait"
        /\ resp[c] # None /\ UNCHANGED <<setup, resp, lastTx, toServer>>
    BY <1>9 DEF TakeResponse, serverVars
  <2>2. \A d \in Clients : /\ Goes(d) /\ (d # c => call'[d] = call[d])
                           /\ (d = c => call'[d].at = "apply")
    BY <1>1, <2>1 DEF Goes, Calls
  <2>3. \A d \in Clients : CallOK(d)'  BY <1>2, <2>1, <2>2 DEF CallOK, Goes
  <2>. QED  BY <2>1, <2>2, <2>3
<1>10. ASSUME NEW c \in Clients, NEW m \in toClient, HandleMessage(c, m)
       PROVE  G
  <2>1. /\ UNCHANGED <<setup, call, lastTx, toServer>> /\ m.to = c
        /\ resp' = [resp EXCEPT ![c] =
              IF ~closed[c] /\ Answers(c, m) /\ @ = None THEN m ELSE @]
    BY <1>10 DEF HandleMessage, serverVars
  <2>2. CallOK(c)'
    <3>1. CASE ~closed[c] /\ Answers(c, m) /\ resp[c] = None
      <4>1. resp'[c] = m /\ m.tx = call[c].tx /\ call[c].at = "wait"
        BY <1>a, <2>1, <3>1 DEF Answers
      <4>. QED  BY <1>2, <2>1, <4>1 DEF CallOK
    <3>2. CASE ~(~closed[c] /\ Answers(c, m) /\ resp[c] = None)
      <4>1. resp'[c] = resp[c]  BY <1>a, <2>1, <3>2
      <4>. QED  BY <1>2, <2>1, <4>1 DEF CallOK
    <3>. QED  BY <3>1, <3>2
  <2>3. ASSUME NEW d \in Clients, d # c  PROVE CallOK(d)'
    <3>1. resp'[d] = resp[d]  BY <1>a, <2>1, <2>3
    <3>. QED  BY <1>2, <2>1, <3>1 DEF CallOK
  <2>4. \A d \in Clients : Goes(d)  BY <2>1 DEF Goes
  <2>. QED  BY <2>1, <2>2, <2>3, <2>4
<1>11. ASSUME NEW c \in Clients, GiveUp(c) \/ FinishCall(c)  PROVE G
  BY <1>8, <1>11 DEF GiveUp, FinishCall, serverVars
<1>12. ASSUME NEW c \in Clients, ApplyOwnStatus(c)  PROVE G
  BY <1>3, <1>12 DEF ApplyOwnStatus, serverVars
<1>13. CASE Lose  BY <1>3, <1>13 DEF Lose, serverVars, clientVars
<1>14. CASE UNCHANGED vars  BY <1>3, <1>14 DEF vars
<1>. QED  BY <1>0, <1>4, <1>5, <1>6, <1>7, <1>9, <1>10, <1>11, <1>12, <1>13,
             <1>14, StepCases

\* What is known of a transaction stays so: a later call has a later ID.
LEMMA OfCallKept ==
  ASSUME UDPInv, [Next]_vars, NEW c \in Clients, NEW tx \in Nat, NEW kind, NEW f,
         OfCall(c, tx, kind, f)
  PROVE  OfCall(c, tx, kind, f)'
<1>1. lastTx[c] \in Nat  BY UDPAssumption DEF UDPInv, TypeOK
<1>2. Goes(c) \/ Ends(c) \/ Begins(c)  BY CallCases
<1>3. CASE Goes(c)  BY <1>3 DEF Goes, OfCall
<1>4. CASE Ends(c)  BY <1>1, <1>4 DEF Ends, OfCall, NoCall
<1>5. CASE Begins(c)  BY <1>1, <1>5 DEF Begins, OfCall
<1>. QED  BY <1>2, <1>3, <1>4, <1>5

LEMMA CallInvStep ==
  ASSUME UDPInv, [Next]_vars
  PROVE  CallInv'
<1>0. TypeOK /\ CallInv /\ ServerInv  BY DEF UDPInv
<1>1. \A c \in Clients : CallOK(c)' /\ lastTx'[c] \in Nat
  BY CallCases, TypeStep, UDPAssumption DEF TypeOK
<1>2. ASSUME NEW d \in toServer'  PROVE DatagramOK(d)'
  <2>1. CASE d \in toServer
    <3>1. d.from \in Clients /\ d.tx \in Nat /\ DatagramOK(d)
      BY <1>0, <2>1 DEF TypeOK, Datagrams, CallInv
    <3>2. OfCall(d.from, d.tx, d.kind, d.floor)'
      BY <3>1, OfCallKept DEF DatagramOK
    <3>3. d.tx \in 1..lastTx[d.from]  BY <3>1 DEF DatagramOK, OfCall
    <3>4. d.tx = call'[d.from].tx => d.req = call'[d.from].req
      <4>1. CASE Goes(d.from)  BY <3>1, <4>1 DEF Goes, DatagramOK
      <4>2. CASE Ends(d.from)  BY <3>3, <4>2 DEF Ends, NoCall
      <4>3. CASE Begins(d.from)
        BY <1>0, <3>1, <3>3, <4>3, UDPAssumption DEF Begins, TypeOK
      <4>. QED  BY <3>1, <4>1, <4>2, <4>3, CallCases
    <3>. QED  BY <3>1, <3>2, <3>4, CallCases DEF DatagramOK
  <2>2. ASSUME NEW c \in Clients, d = Datagram(c)', call'[c].at = "wait"
        PROVE  DatagramOK(d)'
    <3>1. /\ d.from = c /\ d.kind = call'[c].kind /\ d.tx = call'[c].tx
          /\ d.floor = call'[c].floor /\ d.req = call'[c].req
      BY <2>2 DEF Datagram
    <3>. QED  BY <1>1, <2>2, <3>1 DEF DatagramOK, OfCall, CallOK
  <2>. QED  BY <2>1, <2>2, CallCases
<1>3. ASSUME serving'.at = "decide"
      PROVE  OfCall(serving.from, serving.tx, "FloorRequest", serving.floor)'
  <2>1. CASE serving' = serving
    <3>1. /\ serving.from \in Clients /\ serving.tx \in Nat
          /\ serving.floor \in AnyFloor
          /\ OfCall(serving.from, serving.tx, "FloorRequest", serving.floor)
      BY <1>0, <1>3, <2>1 DEF TypeOK, CallInv, ServerInv
    <3>2. \A c \in Clients, tx \in Nat, f \in AnyFloor :
            OfCall(c, tx, "FloorRequest", f) => OfCall(c, tx, "FloorRequest", f)'
      BY OfCallKept
    <3>. QED  BY <2>1, <3>1, <3>2 DEF OfCall
  <2>2. ASSUME NEW m \in toServer, HandleUDPFloorRequest(m), Takes(m),
               CanRequest(floors[m.floor])
        PROVE  OfCall(serving.from, serving.tx, "FloorRequest", serving.floor)'
    <3>1. /\ serving'.from = m.from /\ serving'.tx = m.tx
          /\ serving'.floor = m.floor
      <4>1. PICK g \in setup.decisions :
              serving' = [Idle EXCEPT !.at = "decide", !.from = m.from,
                            !.tx = m.tx, !.floor = m.floor, !.req = NextID,
                            !.grant = g]
        BY <2>2 DEF HandleUDPFloorRequest
      <4>. QED  BY <4>1 DEF Idle
    <3>2. OfCall(m.from, m.tx, "FloorRequest", m.floor)
      BY <1>0, <2>2 DEF CallInv, DatagramOK, HandleUDPFloorRequest
    <3>3. UNCHANGED <<call, lastTx>>  BY <2>2 DEF Takes, clientVars
    <3>. QED  BY <3>1, <3>2, <3>3 DEF OfCall
  <2>3. ASSUME NEW m \in toServer, Takes(m)
        PROVE  \/ serving' = serving
               \/ HandleUDPFloorRequest(m) /\ CanRequest(floors[m.floor])
    <3>1. CASE HandleUDPFloorRelease(m)
      BY <1>0, <1>3, <3>1, ReleaseCases DEF Frees, Refuses, Idle
    <3>. QED  BY <1>3, <2>3, <3>1
              DEF Takes, HandleUDPHello, HandleUDPFloorRequest, HandleUDPGoodbye,
                  Idle
  <2>4. ~(DecideUDP \/ GoodbyeReleaseUDP \/ SendBroadcastUDP \/ HandlerDoneUDP)
    <3>1. serving \in Handlers  BY <1>0 DEF TypeOK, Handlers
    <3>2. ~(DecideUDP \/ HandlerDoneUDP)
      BY <1>3 DEF DecideUDP, HandlerDoneUDP, Idle
    <3>3. ~GoodbyeReleaseUDP  BY <1>3, <3>1 DEF GoodbyeReleaseUDP, Handlers
    <3>4. ~SendBroadcastUDP  BY <1>3, <3>1 DEF SendBroadcastUDP, Handlers
    <3>. QED  BY <3>2, <3>3, <3>4
  <2>5. \/ \E m \in toServer : Takes(m)
        \/ DecideUDP \/ GoodbyeReleaseUDP \/ SendBroadcastUDP \/ HandlerDoneUDP
        \/ serving' = serving
    BY <1>0, StepCases
    DEF RegisterClient, Starts, Transact, Close, Retransmit, GiveUp,
         TakeResponse, FinishCall, ApplyOwnStatus, HandleMessage, Lose, vars,
         serverVars
  <2>. QED  BY <2>1, <2>2, <2>3, <2>4, <2>5
<1>. QED  BY <1>1, <1>2, <1>3 DEF CallInv

-----------------------------------------------------------------------------
\* Answers and active requests.

LEMMA IssuedGrows ==
  ASSUME UDPInv, [Next]_vars, NEW c \in Clients
  PROVE  issued[c] \subseteq issued'[c]
<1>0. TypeOK /\ issued \in [Clients -> SUBSET (FloorIDs \X IDs)]
  BY DEF UDPInv, TypeOK
<1>1. CASE DecideUDP  BY <1>0, <1>1 DEF DecideUDP
<1>2. DecideUDP \/ issued' = issued
  BY <1>0, StepCases
  DEF Takes, HandleUDPHello, HandleUDPFloorRequest, HandleUDPFloorRelease,
      HandleUDPGoodbye, GoodbyeReleaseUDP, SendBroadcastUDP, HandlerDoneUDP,
      RegisterClient, Starts, Transact, Close, Retransmit, GiveUp, TakeResponse,
      FinishCall, ApplyOwnStatus, HandleMessage, Lose, vars, serverVars
<1>. QED  BY <1>1, <1>2

LEMMA SoundKept ==
  ASSUME UDPInv, [Next]_vars, NEW m \in Messages, Sound(m)
  PROVE  Sound(m)'
<1>1. m.to \in Clients /\ m.tx \in Nat  BY DEF Messages
<1>2. IsGrant(m) => OfCall(m.to, m.tx, "FloorRequest", m.floor)'
  BY <1>1, OfCallKept DEF Sound
<1>3. IsGrant(m) => <<m.floor, m.req>> \in issued'[m.to]
  BY <1>1, IssuedGrows DEF Sound
<1>4. m.kind = "Error" => m.tx \in 1..lastTx'[m.to]
  <2>1. lastTx[m.to] \in Nat /\ lastTx'[m.to] \in {lastTx[m.to], lastTx[m.to] + 1}
    BY <1>1, CallCases, UDPAssumption
    DEF Goes, Ends, Begins, UDPInv, TypeOK
  <2>. QED  BY <1>1, <2>1 DEF Sound
<1>. QED  BY <1>2, <1>3, <1>4 DEF Sound, IsGrant

\* The steps that send an answer.
LEMMA AnswerSenders ==
  ASSUME TypeOK, [Next]_vars
  PROVE  \/ toClient' \subseteq toClient
         \/ \E m \in toServer : Takes(m)
         \/ DecideUDP \/ SendBroadcastUDP
         \/ \E c \in Clients, f \in FloorIDs : RegisterClient(c, f)
<1>1. GoodbyeReleaseUDP \/ HandlerDoneUDP => toClient' = toClient
  BY DEF GoodbyeReleaseUDP, HandlerDoneUDP
<1>2. ASSUME NEW c \in Clients,
             \/ \E kind \in CallKinds, f \in AnyFloor, r \in Nat :
                  Starts(c, kind, f, r)
             \/ Close(c) \/ Retransmit(c) \/ GiveUp(c) \/ TakeResponse(c)
             \/ FinishCall(c) \/ ApplyOwnStatus(c)
      PROVE  toClient' = toClient
  BY <1>2 DEF Starts, Transact, Close, Retransmit, GiveUp, TakeResponse,
              FinishCall, ApplyOwnStatus
<1>3. ASSUME NEW c \in Clients, NEW m \in toClient, HandleMessage(c, m)
      PROVE  toClient' \subseteq toClient
  BY <1>3, AfterType DEF HandleMessage
<1>4. Lose \/ UNCHANGED vars => toClient' \subseteq toClient
  BY DEF Lose, vars
<1>. QED  BY <1>1, <1>2, <1>3, <1>4, StepCases

\* The answers on their way, those just sent included.
LEMMA AnswersSound ==
  ASSUME UDPInv, [Next]_vars, NEW n \in toClient'
  PROVE  Sound(n)'
<1>0. TypeOK /\ ServerInv /\ CallInv /\ GrantInv  BY DEF UDPInv
<1>1. CASE n \in toClient
  BY <1>0, <1>1, SoundKept DEF TypeOK, GrantInv
<1>. SUFFICES ASSUME n \notin toClient  PROVE Sound(n)'
  BY <1>1
<1>2. ASSUME NEW c \in Clients, NEW tx \in Nat, NEW f \in AnyFloor, NEW r \in Nat,
             n = Status(c, "FloorRequestStatus", tx, f, r, "Released")
      PROVE  Sound(n)'
  <2>1. "Released" \in FloorStates  BY DEF FloorStates
  <2>2. n.kind = "FloorRequestStatus" /\ n.status = "Released"
    BY <1>2, <2>1, StatusType
  <2>. QED  BY <2>2 DEF Sound, IsGrant
<1>3. ASSUME NEW m \in toServer, Takes(m)  PROVE Sound(n)'
  <2>1. /\ m \in Datagrams /\ m.from \in Clients /\ m.tx \in Nat /\ m.req \in Nat
        /\ m.tx \in 1..lastTx[m.from] /\ lastTx' = lastTx
    BY <1>0, <1>3
    DEF TypeOK, Datagrams, CallInv, DatagramOK, OfCall, Takes, clientVars
  <2>2. ASSUME NEW kind \in {"HelloAck", "Error"}, n = Reply(m, kind)
        PROVE  Sound(n)'
    <3>1. n.kind = kind /\ n.to = m.from /\ n.tx = m.tx
      BY <2>1, <2>2, ReplyType
    <3>. QED  BY <2>1, <3>1 DEF Sound, IsGrant
  <2>3. CASE HandleUDPHello(m)  BY <2>2, <2>3 DEF HandleUDPHello
  <2>4. CASE HandleUDPFloorRequest(m)  BY <2>2, <2>4 DEF HandleUDPFloorRequest
  <2>5. CASE HandleUDPFloorRelease(m)
    <3>1. CASE Refuses(m)  BY <2>2, <3>1 DEF Refuses
    <3>2. ASSUME NEW f \in FloorIDs, Frees(m, f)  PROVE Sound(n)'
      <4>1. n = Status(m.from, "FloorRequestStatus", m.tx, f, m.req, "Released")
        BY <3>2 DEF Frees
      <4>. QED  BY <1>2, <2>1, <4>1 DEF AnyFloor
    <3>. QED  BY <1>0, <2>5, <3>1, <3>2, ReleaseCases
  <2>6. CASE HandleUDPGoodbye(m)  BY <2>6 DEF HandleUDPGoodbye
  <2>. QED  BY <1>3, <2>3, <2>4, <2>5, <2>6 DEF Takes
<1>4. CASE DecideUDP
  <2>1. /\ serving.from \in Clients /\ serving.floor \in FloorIDs
        /\ serving.floor \in AnyFloor
        /\ serving.tx \in Nat /\ serving.req \in Nat
        /\ OfCall(serving.from, serving.tx, "FloorRequest", serving.floor)
    BY <1>0, <1>4 DEF DecideUDP, ServerInv, CallInv, TypeOK
  <2>2. PICK st \in {"Granted", "Denied"} :
          /\ n = Status(serving.from, "FloorRequestStatus", serving.tx,
                        serving.floor, serving.req, st)
          /\ st = "Granted" => serving.grant
    BY <1>4 DEF DecideUDP
  <2>3. st \in FloorStates \cup {"none"}  BY DEF FloorStates
  <2>4. /\ n.to = serving.from /\ n.kind = "FloorRequestStatus"
        /\ n.tx = serving.tx /\ n.floor = serving.floor
        /\ n.req = serving.req /\ n.status = st
    BY <2>1, <2>2, <2>3, StatusType
  <2>5. st = "Granted" => <<n.floor, n.req>> \in issued'[n.to]
    BY <1>0, <1>4, <2>1, <2>2, <2>4 DEF DecideUDP, TypeOK
  <2>6. OfCall(n.to, n.tx, "FloorRequest", n.floor)'
    BY <1>4, <2>1, <2>4 DEF DecideUDP, clientVars, OfCall
  <2>. QED  BY <2>4, <2>5, <2>6 DEF Sound, IsGrant
<1>5. CASE SendBroadcastUDP
  <2>1. PICK c \in serving.dest :
          n = Status(c, "FloorRequestStatus", NextID, serving.floor, serving.req,
                     "Released")
    BY <1>5 DEF SendBroadcastUDP
  <2>2. /\ c \in Clients /\ serving.floor \in AnyFloor /\ serving.req \in Nat
        /\ NextID \in Nat
    BY <1>0, IDTypes DEF TypeOK
  <2>. QED  BY <1>2, <2>1, <2>2
<1>6. ASSUME NEW c \in Clients, NEW f \in FloorIDs, RegisterClient(c, f)
      PROVE  Sound(n)'
  <2>1. floors[f].state \in FloorStates /\ 1 % setup.ids \in Nat /\ f \in AnyFloor
    BY <1>0, IDTypes DEF TypeOK, AnyFloor
  <2>2. n = Status(c, "FloorStatus", 0, f, 1 % setup.ids, floors[f].state)
    BY <1>6 DEF RegisterClient
  <2>3. n.kind = "FloorStatus" /\ n.tx = 0  BY <2>1, <2>2, StatusType
  <2>. QED  BY <2>3 DEF Sound, IsGrant
<1>7. \/ toClient' \subseteq toClient
      \/ \E m \in toServer : Takes(m)
      \/ DecideUDP \/ SendBroadcastUDP
      \/ \E c \in Clients, f \in FloorIDs : RegisterClient(c, f)
  BY <1>0, AnswerSenders
<1>. QED  BY <1>3, <1>4, <1>5, <1>6, <1>7

\* A response comes from the network.
LEMMA ResponseCases ==
  ASSUME UDPInv, [Next]_vars, NEW c \in Clients, resp'[c] # None
  PROVE  \/ resp'[c] = resp[c]
         \/ resp'[c] \in toClient
<1>0. TypeOK /\ resp \in [Clients -> Messages \cup {None}]  BY DEF UDPInv, TypeOK
<1>1. ASSUME NEW d \in Clients, NEW m \in toClient, HandleMessage(d, m)
      PROVE  resp'[c] = resp[c] \/ resp'[c] \in toClient
  BY <1>0, <1>1 DEF HandleMessage
<1>2. ASSUME NEW d \in Clients, GiveUp(d) \/ FinishCall(d)
      PROVE  resp'[c] = resp[c]
  BY <1>0, <1>2 DEF GiveUp, FinishCall, EndCall
<1>3. \/ resp' = resp
      \/ \E d \in Clients : \/ GiveUp(d) \/ FinishCall(d)
                            \/ \E m \in toClient : HandleMessage(d, m)
  BY <1>0, StepCases
  DEF Takes, DecideUDP, GoodbyeReleaseUDP, SendBroadcastUDP, HandlerDoneUDP,
      RegisterClient, Starts, Transact, Close, Retransmit, TakeResponse,
      ApplyOwnStatus, Lose, vars, clientVars
<1>. QED  BY <1>1, <1>2, <1>3

\* An active request is the one it was, or RequestFloor was just granted.
SameEntry(c, f) ==
  requests[c][f] # None /\ requests'[c][f].req = requests[c][f].req

NewEntry(c, f) ==
  /\ FinishCall(c)
  /\ call[c].kind = "FloorRequest" /\ call[c].floor = f
  /\ resp[c] # None /\ IsGrant(resp[c])
  /\ requests'[c][f].req = resp[c].req

LEMMA EntryCases ==
  ASSUME UDPInv, [Next]_vars, NEW c \in Clients, NEW f \in FloorIDs,
         requests'[c][f] # None
  PROVE  SameEntry(c, f) \/ NewEntry(c, f)
<1>0. TypeOK /\ CallInv /\ GrantInv  BY DEF UDPInv
<1>1. requests \in [Clients -> [FloorIDs -> Entries \cup {None}]]
  BY <1>0 DEF TypeOK, Entries
<1>2. CASE requests'[c] = requests[c]  BY <1>2 DEF SameEntry
<1>3. ASSUME FinishCall(c)  PROVE SameEntry(c, f) \/ NewEntry(c, f)
  <2>1. requests'[c] = Applied(c)  BY <1>1, <1>3 DEF FinishCall
  <2>2. CASE call[c].kind = "FloorRequest" /\ resp[c].kind = "FloorRequestStatus"
    <3>1. resp[c] # None /\ Sound(resp[c])
      BY <1>0, <1>3 DEF CallInv, CallOK, GrantInv, FinishCall
    <3>2. Applied(c) = [requests[c] EXCEPT ![call[c].floor] =
                IF resp[c].status \in Final THEN None
                ELSE [req |-> resp[c].req, status |-> resp[c].status]]
      BY <2>2 DEF Applied
    <3>3. CASE f = call[c].floor
      <4>1. /\ resp[c].status \notin Final
            /\ requests'[c][f] = [req |-> resp[c].req, status |-> resp[c].status]
        BY <1>1, <2>1, <3>2, <3>3
      <4>2. IsGrant(resp[c])  BY <2>2, <3>1, <4>1 DEF Sound, IsGrant, Final
      <4>. QED  BY <1>3, <2>2, <3>1, <3>3, <4>1, <4>2 DEF NewEntry
    <3>4. CASE f # call[c].floor
      BY <1>1, <2>1, <3>2, <3>4 DEF SameEntry
    <3>. QED  BY <3>3, <3>4
  <2>3. CASE ~(call[c].kind = "FloorRequest" /\ resp[c].kind = "FloorRequestStatus")
    <3>1. \/ Applied(c) = requests[c]
          \/ Applied(c) = [requests[c] EXCEPT ![call[c].floor] = None]
      BY <2>3 DEF Applied
    <3>. QED  BY <1>1, <2>1, <3>1 DEF SameEntry
  <2>. QED  BY <2>2, <2>3
<1>4. ASSUME ApplyOwnStatus(c)  PROVE SameEntry(c, f)
  <2>. DEFINE g == notice[c].floor
              e == IF requests[c][g] = None \/ notice[c].status \in Final THEN None
                   ELSE [requests[c][g] EXCEPT !.status = notice[c].status]
  <2>1. requests' = [requests EXCEPT ![c] = [requests[c] EXCEPT ![g] = e]]
    BY <1>4 DEF ApplyOwnStatus
  <2>2. requests'[c] = [requests[c] EXCEPT ![g] = e]
    <3>. HIDE DEF e, g
    <3>. QED  BY <1>1, <2>1
  <2>3. CASE f # g
    <3>. HIDE DEF e, g
    <3>. QED  BY <1>1, <2>2, <2>3 DEF SameEntry
  <2>4. CASE f = g
    <3>1. requests'[c][f] = e
      <4>. HIDE DEF e, g
      <4>. QED  BY <1>1, <2>2, <2>4
    <3>2. requests[c][f] # None
          /\ e = [requests[c][f] EXCEPT !.status = notice[c].status]
      BY <2>4, <3>1
    <3>3. requests[c][f] \in Entries  BY <1>1, <3>2
    <3>4. e.req = requests[c][f].req  BY ONLY <3>2, <3>3 DEF Entries
    <3>. QED  BY <3>1, <3>2, <3>4 DEF SameEntry
  <2>. QED  BY <2>3, <2>4
<1>5. \/ requests'[c] = requests[c]
      \/ FinishCall(c) \/ ApplyOwnStatus(c)
  <2>1. ASSUME NEW d \in Clients, FinishCall(d) \/ ApplyOwnStatus(d), d # c
        PROVE  requests'[c] = requests[c]
    BY <1>1, <2>1 DEF FinishCall, ApplyOwnStatus
  <2>2. \/ requests' = requests
        \/ \E d \in Clients : FinishCall(d) \/ ApplyOwnStatus(d)
    BY <1>0, StepCases
    DEF Takes, DecideUDP, GoodbyeReleaseUDP, SendBroadcastUDP, HandlerDoneUDP,
        RegisterClient, Starts, Transact, Close, Retransmit, GiveUp,
        TakeResponse, HandleMessage, Lose, vars, clientVars
  <2>. QED  BY <2>1, <2>2
<1>. QED  BY <1>2, <1>3, <1>4, <1>5

LEMMA GrantInvStep ==
  ASSUME UDPInv, [Next]_vars
  PROVE  GrantInv'
<1>0. TypeOK /\ CallInv /\ GrantInv  BY DEF UDPInv
<1>1. ASSUME NEW c \in Clients, resp'[c] # None  PROVE Sound(resp[c])'
  <2>1. PICK n : n = resp'[c]  OBVIOUS
  <2>2. n \in Messages /\ Sound(n)
    BY <1>0, <1>1, <2>1, ResponseCases DEF TypeOK, GrantInv
  <2>3. Sound(n)'  BY <2>2, SoundKept
  <2>. QED  BY <2>1, <2>3 DEF Sound, IsGrant, OfCall
<1>2. ASSUME NEW c \in Clients, NEW f \in FloorIDs, requests'[c][f] # None
      PROVE  <<f, requests'[c][f].req>> \in issued'[c]
  <2>1. CASE SameEntry(c, f)
    BY <1>0, <2>1, IssuedGrows DEF SameEntry, GrantInv
  <2>2. CASE NewEntry(c, f)
    <3>1. /\ resp[c].to = c /\ resp[c].tx = call[c].tx /\ Sound(resp[c])
      BY <1>0, <2>2 DEF NewEntry, CallInv, CallOK, GrantInv
    <3>2. <<f, resp[c].req>> \in issued[c]
      BY <2>2, <3>1 DEF NewEntry, Sound, OfCall
    <3>. QED  BY <2>2, <3>2, IssuedGrows DEF NewEntry
  <2>. QED  BY <1>2, <2>1, <2>2, EntryCases
<1>. QED  BY <1>1, <1>2, AnswersSound DEF GrantInv

LEMMA UDPInvInductive == Spec => []UDPInv
<1>1. Init => UDPInv
  <2>. SUFFICES ASSUME Init  PROVE UDPInv
    OBVIOUS
  <2>0. setup \in Setups  BY DEF Init
  <2>1. 0 \in IDs  BY <2>0, SetupFacts DEF IDs
  <2>2. TypeOK
    <3>1. \A f \in FloorIDs : NewFloorStateMachine(f) \in Floors
      BY <2>1 DEF NewFloorStateMachine, Floors, FloorStates
    <3>2. Idle \in Handlers  BY DEF Idle, Handlers, AnyFloor
    <3>3. NoCall \in Calls
      BY <2>0, SetupFacts DEF NoCall, Calls, AnyFloor
    <3>4. floors \in [FloorIDs -> Floors] /\ call \in [Clients -> Calls]
      BY <3>1, <3>3 DEF Init
    <3>5. known \subseteq FloorIDs  BY <2>0, SetupFacts DEF Init
    <3>6. 0 \in 0..MaxCalls  BY UDPAssumption
    <3>. QED  BY <2>0, <2>1, <3>2, <3>4, <3>5, <3>6
              DEF Init, TypeOK, Floors, Handlers, Calls
  <2>3. ServerInv
    BY DEF Init, ServerInv, Idle, Held, NewFloorStateMachine
  <2>4. CallInv  BY DEF Init, CallInv, CallOK, Idle, NoCall
  <2>5. GrantInv  BY DEF Init, GrantInv
  <2>. QED  BY <2>2, <2>3, <2>4, <2>5 DEF UDPInv
<1>2. UDPInv /\ [Next]_vars => UDPInv'
  BY TypeStep, ServerInvStep, CallInvStep, GrantInvStep DEF UDPInv
<1>. QED  BY <1>1, <1>2, PTL DEF Spec

-----------------------------------------------------------------------------
\* The state of the server, the clients and the network keeps its types; the
\* server's request IDs stay in the width of an ID (server.go:84).
THEOREM TypeCorrect == Spec => []TypeOK
<1>1. UDPInv => TypeOK  BY DEF UDPInv
<1>. QED  BY <1>1, UDPInvInductive, PTL

\* For any number of clients and floors, any width of the IDs and whatever the
\* network loses, duplicates, delays or reorders, a client believes only in
\* grants the server made to it (udpclient.go:288-316).
THEOREM NoForgedGrants == Spec => []GrantsAreReal
<1>1. UDPInv => GrantsAreReal
  BY DEF UDPInv, GrantInv, GrantsAreReal, HasFloor
<1>. QED  BY <1>1, UDPInvInductive, PTL

\* What a step does to the floors: at most one method of one of them.
LEMMA FloorCases ==
  ASSUME UDPInv, [Next]_vars
  PROVE  \/ UNCHANGED floors
         \/ \E f \in FloorIDs :
              \/ \E u \in Users : /\ CanRequest(floors[f])
                                  /\ floors' = [floors EXCEPT ![f] =
                                                  Request(@, u, NextID)]
              \/ /\ CanGrant(floors[f])
                 /\ \/ floors' = [floors EXCEPT ![f] = Grant(@)]
                    \/ floors' = [floors EXCEPT ![f] = Deny(@)]
              \/ floors' = [floors EXCEPT ![f] = Release(@)]
<1>0. TypeOK /\ ServerInv /\ CallInv  BY DEF UDPInv
<1>1. ASSUME NEW m \in toServer, HandleUDPFloorRequest(m)
      PROVE  \/ UNCHANGED floors
             \/ \E f \in FloorIDs, u \in Users :
                  /\ CanRequest(floors[f])
                  /\ floors' = [floors EXCEPT ![f] = Request(@, u, NextID)]
  <2>1. m.floor \in FloorIDs /\ UserOf[m.from] \in Users
    BY <1>0, <1>1, UserTypes
    DEF CallInv, DatagramOK, FloorCalls, HandleUDPFloorRequest, TypeOK, Datagrams
  <2>. QED  BY <1>1, <2>1 DEF HandleUDPFloorRequest
<1>2. ASSUME NEW m \in toServer, HandleUDPFloorRelease(m)
      PROVE  \/ UNCHANGED floors
             \/ \E f \in FloorIDs : floors' = [floors EXCEPT ![f] = Release(@)]
  BY <1>0, <1>2, ReleaseCases DEF Frees, Refuses
<1>3. ASSUME DecideUDP
      PROVE  \E f \in FloorIDs :
               /\ CanGrant(floors[f])
               /\ \/ floors' = [floors EXCEPT ![f] = Grant(@)]
                  \/ floors' = [floors EXCEPT ![f] = Deny(@)]
  <2>1. serving.floor \in FloorIDs /\ CanGrant(floors[serving.floor])
    BY <1>0, <1>3 DEF DecideUDP, ServerInv, CanGrant, TypeOK
  <2>2. \/ floors' = [floors EXCEPT ![serving.floor] = Grant(@)]
        \/ floors' = [floors EXCEPT ![serving.floor] = Deny(@)]
    BY <1>3 DEF DecideUDP
  <2>. QED  BY <2>1, <2>2
<1>4. ASSUME GoodbyeReleaseUDP
      PROVE  \E f \in FloorIDs : floors' = [floors EXCEPT ![f] = Release(@)]
  <2>1. serving.todo \subseteq FloorIDs  BY <1>0 DEF TypeOK
  <2>. QED  BY <1>4, <2>1 DEF GoodbyeReleaseUDP
<1>5. \/ UNCHANGED floors \/ DecideUDP \/ GoodbyeReleaseUDP
      \/ \E m \in toServer : HandleUDPFloorRequest(m) \/ HandleUDPFloorRelease(m)
  BY <1>0, StepCases
  DEF Takes, HandleUDPHello, HandleUDPGoodbye, SendBroadcastUDP, HandlerDoneUDP,
      RegisterClient, Starts, Transact, Close, Retransmit, GiveUp, TakeResponse,
      FinishCall, ApplyOwnStatus, HandleMessage, Lose, vars, serverVars
<1>. QED  BY <1>1, <1>2, <1>3, <1>4, <1>5

Phase == [f \in FloorIDs |-> floors[f].state]
Holder == [f \in FloorIDs |-> floors[f].owner]

LEMMA StepRefines ==
  ASSUME UDPInv, [Next]_vars
  PROVE  FC!Next \/ (Phase' = Phase /\ Holder' = Holder)
<1>0. TypeOK /\ ServerInv /\ floors \in [FloorIDs -> Floors] /\ NextID \in IDs
  BY IDTypes DEF UDPInv, TypeOK, Floors
<1>1. ASSUME NEW f \in FloorIDs, NEW m, floors' = [floors EXCEPT ![f] = m]
      PROVE  /\ Phase' = [Phase EXCEPT ![f] = m.state]
             /\ Holder' = [Holder EXCEPT ![f] = m.owner]
  BY <1>0, <1>1 DEF Phase, Holder
<1>2. ASSUME NEW f \in FloorIDs, NEW u \in Users, CanRequest(floors[f]),
             floors' = [floors EXCEPT ![f] = Request(@, u, NextID)]
      PROVE  FC!Next
  <2>1. /\ Request(floors[f], u, NextID).state = "Pending"
        /\ Request(floors[f], u, NextID).owner = u
    <3>1. floors[f] \in Floors  BY <1>0
    <3>. QED  BY <3>1 DEF Request, Floors
  <2>2. /\ Phase' = [Phase EXCEPT ![f] = "Pending"]
        /\ Holder' = [Holder EXCEPT ![f] = u]
    <3>1. PICK n : n = Request(floors[f], u, NextID)  OBVIOUS
    <3>2. floors' = [floors EXCEPT ![f] = n] /\ n.state = "Pending" /\ n.owner = u
      BY <1>2, <2>1, <3>1
    <3>. QED  BY <1>1, <3>2
  <2>3. Phase[f] = "Released" /\ Holder[f] = NoUser
    BY <1>0, <1>2 DEF CanRequest, ServerInv, Held, Phase, Holder
  <2>4. FC!Request(f, u)  BY <2>2, <2>3 DEF FC!Request, Phase, Holder
  <2>. QED  BY <2>4 DEF FC!Next
<1>3. ASSUME NEW f \in FloorIDs, CanGrant(floors[f]),
             floors' = [floors EXCEPT ![f] = Grant(@)]
      PROVE  FC!Next
  <2>1. /\ Grant(floors[f]).state = "Granted"
        /\ Grant(floors[f]).owner = floors[f].owner
    BY <1>0, FloorMethods
  <2>2. /\ Phase' = [Phase EXCEPT ![f] = "Granted"]
        /\ Holder' = [Holder EXCEPT ![f] = floors[f].owner]
    <3>1. PICK n : n = Grant(floors[f])  OBVIOUS
    <3>2. /\ floors' = [floors EXCEPT ![f] = n] /\ n.state = "Granted"
          /\ n.owner = floors[f].owner
      BY <1>3, <2>1, <3>1
    <3>3. /\ Phase' = [Phase EXCEPT ![f] = n.state]
          /\ Holder' = [Holder EXCEPT ![f] = n.owner]
      BY <1>1, <3>2
    <3>. QED  BY ONLY <3>2, <3>3
  <2>3. Phase[f] = "Pending" /\ Holder' = Holder
    BY <1>3, <2>2 DEF CanGrant, Phase, Holder
  <2>4. FC!Grant(f)  BY <2>2, <2>3 DEF FC!Grant, Phase, Holder
  <2>. QED  BY <2>4 DEF FC!Next
<1>4. ASSUME NEW f \in FloorIDs, CanGrant(floors[f]),
             floors' = [floors EXCEPT ![f] = Deny(@)]
      PROVE  FC!Next
  <2>1. Deny(floors[f]).state = "Denied" /\ Deny(floors[f]).owner = NoUser
    BY <1>0 DEF Deny, Floors
  <2>2. /\ Phase' = [Phase EXCEPT ![f] = "Denied"]
        /\ Holder' = [Holder EXCEPT ![f] = NoUser]
    BY <1>1, <1>4, <2>1
  <2>3. Phase[f] = "Pending"  BY <1>4 DEF CanGrant, Phase
  <2>4. FC!Deny(f)  BY <2>2, <2>3 DEF FC!Deny, Phase, Holder
  <2>. QED  BY <2>4 DEF FC!Next
<1>5. ASSUME NEW f \in FloorIDs, floors' = [floors EXCEPT ![f] = Release(@)]
      PROVE  FC!Next
  <2>1. Release(floors[f]).state = "Released" /\ Release(floors[f]).owner = NoUser
    BY <1>0 DEF Release, Floors
  <2>2. /\ Phase' = [Phase EXCEPT ![f] = "Released"]
        /\ Holder' = [Holder EXCEPT ![f] = NoUser]
    BY <1>1, <1>5, <2>1
  <2>3. FC!Free(f)  BY <2>2 DEF FC!Free, Phase, Holder
  <2>. QED  BY <2>3 DEF FC!Next
<1>6. CASE UNCHANGED floors  BY <1>6 DEF Phase, Holder
<1>. QED  BY <1>2, <1>3, <1>4, <1>5, <1>6, FloorCases

\* The UDP server implements the abstract floor control specification, for any
\* clients, floors and IDs and whatever the network does to the datagrams.
THEOREM Refinement == Spec => ImplementsFloorControl
<1>1. Init => FC!Init
  BY DEF Init, FC!Init, NewFloorStateMachine
<1>2. UDPInv /\ [Next]_vars => [FC!Next]_(FC!vars)
  BY StepRefines DEF FC!vars, Phase, Holder
<1>. QED  BY <1>1, <1>2, UDPInvInductive, PTL
          DEF Spec, ImplementsFloorControl, FC!Spec

-----------------------------------------------------------------------------
(***************************************************************************)
(* HasFloorIsHolder, for every value of the constants under which it       *)
(* holds.                                                                  *)
(***************************************************************************)

\* Two clients that share a user ID may release each other's floors, and a client
\* with user ID 0 those of all (state.go:90).
OneClientPerUser ==
  /\ \A c \in Clients : UserOf[c] # NoUser
  /\ \A c, d \in Clients : UserOf[c] = UserOf[d] => c = d

\* No two held floors have the same request ID.  The server finds the floor of
\* a release by its request ID alone, and the code's IDs are 16 bits wide: it
\* takes 2^16 of them for two floors to share one.
DistinctIDs ==
  \A f, g \in known :
    Held(floors[f]) /\ Held(floors[g]) /\ floors[f].requestID = floors[g].requestID
      => f = g

Benevolent == setup.faults = {} /\ "Goodbye" \notin setup.calls

-----------------------------------------------------------------------------
\* The inductive invariant.

HoldsAs(c, f, r) ==
  /\ f \in known
  /\ floors[f].state = "Granted"
  /\ floors[f].owner = UserOf[c]
  /\ floors[f].requestID = r

Releasing(c, f) == call[c].kind = "FloorRelease" /\ call[c].floor = f

\* Datagram d is a FloorRelease of floor f by client c.
ReleaseOf(d, c, f) == d.kind = "FloorRelease" /\ d.from = c /\ d.floor = f

\* A release on its way is of a floor its sender still holds under that request
\* ID, which the sender has forgotten or is about to forget; and it is the only
\* one.
ReleaseOK(d) ==
  d.kind = "FloorRelease" /\ ~closed[d.from] =>
    /\ HoldsAs(d.from, d.floor, d.req)
    /\ requests[d.from][d.floor] = None \/ call[d.from].tx = d.tx
    /\ \A e \in toServer : ReleaseOf(e, d.from, d.floor) => e = d

\* An active request is a floor held under its request ID, until its release
\* begins.
EntryOK(c, f) ==
  ~closed[c] /\ requests[c][f] # None =>
    IF Releasing(c, f) THEN requests[c][f].req = call[c].req
                       ELSE HoldsAs(c, f, requests[c][f].req)

\* A release is answered before its timer can fire.
Underway(c) ==
  ~closed[c] /\ call[c].kind = "FloorRelease" /\ call[c].at = "wait" =>
    \/ \E d \in toServer : d.from = c /\ d.tx = call[c].tx
    \/ \E m \in toClient : m.to = c /\ m.tx = call[c].tx
    \/ resp[c] # None

\* What an answer to the current call tells the client is so: it holds the floor
\* it was granted, and still holds the floor it could not release.
Truthful(m) ==
  m.tx = call[m.to].tx /\ ~closed[m.to] =>
    /\ IsGrant(m) =>
         /\ HoldsAs(m.to, m.floor, m.req)
         /\ \A d \in toServer : ~ReleaseOf(d, m.to, m.floor)
    /\ m.kind = "Error" /\ call[m.to].kind = "FloorRelease" =>
         /\ HoldsAs(m.to, call[m.to].floor, call[m.to].req)
         /\ \A d \in toServer : ~ReleaseOf(d, m.to, call[m.to].floor)

HolderInv ==
  /\ serving.todo = {}
  /\ \A d \in toServer : ReleaseOK(d)
  /\ \A c \in Clients, f \in FloorIDs : EntryOK(c, f)
  /\ \A c \in Clients : Underway(c)
  /\ \A m \in toClient : Truthful(m)
  /\ \A c \in Clients : resp[c] # None => Truthful(resp[c])

Inv == OneClientPerUser /\ UDPInv /\ DistinctIDs /\ Benevolent /\ HolderInv

-----------------------------------------------------------------------------
\* What a step does to what the invariant speaks of.

\* The server takes the release of c for f and frees the floor.
Freed(c, f, r) ==
  \E d \in toServer : /\ ReleaseOf(d, c, f) /\ d.req = r
                      /\ d \notin toServer'

\* A client that has not closed loses a floor only by its own release.
LEMMA HoldsKept ==
  ASSUME Inv, [Next]_vars, NEW c \in Clients, NEW f \in FloorIDs, NEW r,
         ~closed[c], HoldsAs(c, f, r)
  PROVE  HoldsAs(c, f, r)' \/ Freed(c, f, r)
<1>0. TypeOK /\ ServerInv /\ CallInv /\ floors \in [FloorIDs -> Floors]
  BY DEF Inv, UDPInv, TypeOK, Floors
<1>1. known \subseteq known'
  BY <1>0, StepCases
  DEF Takes, HandleUDPHello, HandleUDPFloorRequest, HandleUDPFloorRelease,
      HandleUDPGoodbye, DecideUDP, GoodbyeReleaseUDP, SendBroadcastUDP,
      HandlerDoneUDP, RegisterClient, Starts, Transact, Close, Retransmit, GiveUp,
      TakeResponse, FinishCall, ApplyOwnStatus, HandleMessage, Lose, vars,
      serverVars
<1>2. CASE floors'[f] = floors[f]  BY <1>1, <1>2 DEF HoldsAs
<1>3. ASSUME NEW m \in toServer, HandleUDPFloorRequest(m)
      PROVE  floors'[f] = floors[f]
  <2>1. m.floor \in FloorIDs
    BY <1>0, <1>3 DEF CallInv, DatagramOK, FloorCalls, HandleUDPFloorRequest
  <2>2. CanRequest(floors[m.floor]) => m.floor # f
    BY DEF CanRequest, HoldsAs
  <2>. QED  BY <1>0, <1>3, <2>1, <2>2 DEF HandleUDPFloorRequest
<1>4. ASSUME NEW m \in toServer, HandleUDPFloorRelease(m), Receive(m)
      PROVE  floors'[f] = floors[f] \/ Freed(c, f, r)
  <2>0. /\ m.from \in Clients /\ m.floor \in FloorIDs /\ m.kind = "FloorRelease"
        /\ ReleaseOK(m)
    BY <1>0, <1>4
    DEF TypeOK, Datagrams, CallInv, DatagramOK, FloorCalls, Inv, HolderInv,
        HandleUDPFloorRelease
  <2>1. Refuses(m) => floors'[f] = floors[f]  BY DEF Refuses
  <2>2. ASSUME NEW g \in FloorIDs, g \in FloorsToRelease(m), Frees(m, g),
               floors'[f] # floors[f]
        PROVE  Freed(c, f, r)
    <3>1. g = f  BY <1>0, <2>2 DEF Frees
    <3>2. UserOf[m.from] # NoUser  BY <2>0 DEF Inv, OneClientPerUser
    <3>3. floors[f].owner = UserOf[m.from]
      BY <2>2, <3>1, <3>2 DEF Frees, CanRelease
    <3>4. m.from = c
      BY <2>0, <3>3 DEF HoldsAs, Inv, OneClientPerUser
    <3>5. HoldsAs(c, m.floor, m.req)  BY <2>0, <3>4 DEF ReleaseOK
    <3>6. floors[f].requestID = m.req
      BY <2>2, <3>1, <3>5 DEF FloorsToRelease, FloorsByRequestID, HoldsAs
    <3>7. m.floor = f
      BY <3>5, <3>6 DEF HoldsAs, Inv, DistinctIDs, Held
    <3>8. m.req = r  BY <3>6 DEF HoldsAs
    <3>9. m \notin toServer'
      BY <1>4 DEF Receive, After, Inv, Benevolent
    <3>. QED  BY <2>0, <3>4, <3>7, <3>8, <3>9 DEF Freed, ReleaseOf
  <2>. QED  BY <1>0, <1>4, <2>1, <2>2, ReleaseCases
<1>5. DecideUDP => floors'[f] = floors[f]
  <2>1. serving.at = "decide" => serving.floor \in FloorIDs /\ serving.floor # f
    BY <1>0 DEF ServerInv, HoldsAs, TypeOK
  <2>. QED  BY <1>0, <2>1 DEF DecideUDP
<1>6. ~GoodbyeReleaseUDP  BY DEF GoodbyeReleaseUDP, Inv, HolderInv
<1>7. \/ UNCHANGED floors \/ DecideUDP \/ GoodbyeReleaseUDP
      \/ \E m \in toServer : /\ Receive(m)
                             /\ HandleUDPFloorRequest(m) \/ HandleUDPFloorRelease(m)
  BY <1>0, StepCases
  DEF Takes, HandleUDPHello, HandleUDPGoodbye, SendBroadcastUDP, HandlerDoneUDP,
      RegisterClient, Starts, Transact, Close, Retransmit, GiveUp, TakeResponse,
      FinishCall, ApplyOwnStatus, HandleMessage, Lose, vars, serverVars
<1>. QED  BY <1>2, <1>3, <1>4, <1>5, <1>6, <1>7

\* A client's call goes on, ends, or the next one begins.
BeginsCall(c, kind, f, r) ==
  /\ Begins(c)
  /\ call'[c].kind = kind /\ call'[c].floor = f /\ call'[c].req = r
  /\ kind = "FloorRelease" =>
       f \in FloorIDs /\ requests[c][f] # None /\ r = requests[c][f].req

LEMMA CallMoves ==
  ASSUME UDPInv, [Next]_vars, NEW c \in Clients
  PROVE  \/ Goes(c)
         \/ GiveUp(c) /\ Ends(c)
         \/ FinishCall(c) /\ Ends(c)
         \/ \E kind \in CallKinds, f \in AnyFloor, r \in Nat :
              BeginsCall(c, kind, f, r)
<1>0. TypeOK /\ call \in [Clients -> Calls] /\ lastTx \in [Clients -> 0..MaxCalls]
  BY DEF UDPInv, TypeOK, Calls
<1>1. call'[c] = call[c] /\ lastTx'[c] = lastTx[c] => Goes(c)  BY DEF Goes
<1>2. ASSUME NEW d \in Clients, NEW kind \in CallKinds, NEW f \in AnyFloor,
             NEW r \in Nat, Starts(d, kind, f, r)
      PROVE  Goes(c) \/ BeginsCall(c, kind, f, r)
  <2>0. Transact(d, kind, f, r)  BY <1>2 DEF Starts
  <2>1. CASE d # c  BY <1>0, <1>1, <2>0, <2>1 DEF Transact
  <2>2. CASE d = c
    <3>1. /\ call'[c] = [kind |-> kind, at |-> "wait", floor |-> f, req |-> r,
                         tx |-> lastTx[c] + 1, try |-> 1]
          /\ lastTx'[c] = lastTx[c] + 1
      BY <1>0, <2>0, <2>2 DEF Transact
    <3>2. toServer' = toServer \cup {Datagram(c)'}
      BY <2>0, <2>2 DEF Transact
    <3>3. Begins(c)  BY <2>0, <2>2, <3>1, <3>2 DEF Transact, Begins
    <3>. QED  BY <1>2, <2>2, <3>1, <3>3 DEF BeginsCall, Starts, FloorCalls
  <2>. QED  BY <2>1, <2>2
<1>3. ASSUME NEW d \in Clients, GiveUp(d) \/ FinishCall(d)
      PROVE  Goes(c) \/ (GiveUp(c) /\ Ends(c)) \/ (FinishCall(c) /\ Ends(c))
  <2>1. lastTx' = lastTx /\ call' = [call EXCEPT ![d] = NoCall]
    BY <1>3 DEF GiveUp, FinishCall, EndCall
  <2>2. CASE d # c  BY <1>0, <1>1, <2>1, <2>2
  <2>3. CASE d = c  BY <1>0, <1>3, <2>1, <2>3 DEF Ends
  <2>. QED  BY <2>2, <2>3
<1>4. ASSUME NEW d \in Clients, Retransmit(d) \/ TakeResponse(d)
      PROVE  Goes(c)
  <2>1. Retransmit(d) => Goes(c)
    BY <1>0 DEF Retransmit, TimerFires, Goes, Calls
  <2>2. TakeResponse(d) => Goes(c)  BY <1>0 DEF TakeResponse, Goes, Calls
  <2>. QED  BY <1>4, <2>1, <2>2
<1>5. \/ UNCHANGED <<call, lastTx>>
      \/ \E d \in Clients, kind \in CallKinds, f \in AnyFloor, r \in Nat :
           Starts(d, kind, f, r)
      \/ \E d \in Clients :
           GiveUp(d) \/ FinishCall(d) \/ Retransmit(d) \/ TakeResponse(d)
  BY <1>0, StepCases
  DEF Takes, DecideUDP, GoodbyeReleaseUDP, SendBroadcastUDP, HandlerDoneUDP,
      RegisterClient, Close, ApplyOwnStatus, HandleMessage, Lose, vars,
      clientVars
<1>. QED  BY <1>1, <1>2, <1>3, <1>4, <1>5

LEMMA ClosedStays ==
  ASSUME TypeOK, [Next]_vars, NEW c \in Clients, ~closed'[c]
  PROVE  ~closed[c]
<1>1. closed \in [Clients -> BOOLEAN]  BY DEF TypeOK
<1>2. ASSUME NEW d \in Clients, Close(d)  PROVE ~closed[c]
  BY <1>1, <1>2 DEF Close
<1>3. closed' = closed \/ \E d \in Clients : Close(d)
  BY StepCases
  DEF Takes, DecideUDP, GoodbyeReleaseUDP, SendBroadcastUDP, HandlerDoneUDP,
      RegisterClient, Starts, Transact, Retransmit, GiveUp, TakeResponse,
      FinishCall, ApplyOwnStatus, HandleMessage, Lose, vars, clientVars
<1>. QED  BY <1>2, <1>3

\* The timer does not fire while anything of the transaction is under way, so
\* never during a release.
LEMMA TimerWaits ==
  ASSUME Inv, NEW c \in Clients, ~closed[c], TimerFires(c)
  PROVE  /\ call[c].kind # "FloorRelease" /\ resp[c] = None
         /\ \A d \in toServer : ~(d.from = c /\ d.tx = call[c].tx)
         /\ \A m \in toClient : ~(m.to = c /\ m.tx = call[c].tx)
BY DEF Inv, Benevolent, TimerFires, InFlight, HolderInv, Underway

\* A datagram is sent by the call that begins, or again by the one whose timer
\* fired.
LEMMA SentBy ==
  ASSUME UDPInv, [Next]_vars, NEW d \in toServer', d \notin toServer
  PROVE  /\ d.from \in Clients /\ d = Datagram(d.from)'
         /\ \/ BeginsCall(d.from, d.kind, d.floor, d.req)
            \/ Retransmit(d.from) /\ Goes(d.from)
<1>0. TypeOK  BY DEF UDPInv
<1>1. ASSUME NEW c \in Clients, d = Datagram(c)'
      PROVE  /\ d.from = c /\ d.kind = call'[c].kind /\ d.floor = call'[c].floor
             /\ d.req = call'[c].req /\ d.tx = call'[c].tx
  BY <1>1 DEF Datagram
<1>2. ASSUME NEW c \in Clients, NEW kind \in CallKinds, NEW f \in AnyFloor,
             NEW r \in Nat, Starts(c, kind, f, r)
      PROVE  d = Datagram(c)' /\ ~Goes(c) /\ ~Ends(c)
  <2>1. d = Datagram(c)'  BY <1>2 DEF Starts, Transact
  <2>2. lastTx'[c] # lastTx[c]
    BY <1>0, <1>2, UDPAssumption DEF Starts, Transact, TypeOK
  <2>. QED  BY <2>1, <2>2 DEF Goes, Ends
<1>3. ASSUME NEW c \in Clients, Retransmit(c)
      PROVE  d = Datagram(c)' /\ Goes(c)
  <2>0. call \in [Clients -> Calls]  BY <1>0 DEF TypeOK, Calls
  <2>1. Goes(c)  BY <1>3, <2>0 DEF Retransmit, TimerFires, Goes, Calls
  <2>2. Datagram(c)' = Datagram(c)  BY <2>1 DEF Goes, Datagram
  <2>. QED  BY <1>3, <2>1, <2>2 DEF Retransmit
<1>4. \/ \E c \in Clients, kind \in CallKinds, f \in AnyFloor, r \in Nat :
           Starts(c, kind, f, r)
      \/ \E c \in Clients : Retransmit(c)
  BY <1>0, StepCases, AfterType
  DEF Takes, Receive, DecideUDP, GoodbyeReleaseUDP, SendBroadcastUDP,
      HandlerDoneUDP, RegisterClient, Close, GiveUp, TakeResponse, FinishCall,
      ApplyOwnStatus, HandleMessage, Lose, vars
<1>5. ASSUME NEW c \in Clients, d = Datagram(c)', ~Goes(c), ~Ends(c)
      PROVE  BeginsCall(c, d.kind, d.floor, d.req)
  <2>1. PICK kind \in CallKinds, f \in AnyFloor, r \in Nat :
          BeginsCall(c, kind, f, r)
    BY <1>5, CallMoves
  <2>2. kind = d.kind /\ f = d.floor /\ r = d.req
    BY <1>1, <1>5, <2>1 DEF BeginsCall
  <2>. QED  BY <2>1, <2>2
<1>. QED  BY <1>1, <1>2, <1>3, <1>4, <1>5

\* A release of a client that has not closed is only sent as its call begins.
LEMMA NewRelease ==
  ASSUME Inv, [Next]_vars, NEW d \in toServer', d \notin toServer,
         d.kind = "FloorRelease", ~closed[d.from]
  PROVE  /\ d.from \in Clients /\ d = Datagram(d.from)' /\ d.floor \in FloorIDs
         /\ BeginsCall(d.from, "FloorRelease", d.floor, d.req)
<1>0. UDPInv  BY DEF Inv
<1>1. /\ d.from \in Clients /\ d = Datagram(d.from)'
      /\ \/ BeginsCall(d.from, d.kind, d.floor, d.req)
         \/ Retransmit(d.from) /\ Goes(d.from)
  BY <1>0, SentBy
<1>2. ~(Retransmit(d.from) /\ Goes(d.from))
  <2>. SUFFICES ASSUME Retransmit(d.from), Goes(d.from)  PROVE FALSE
    OBVIOUS
  <2>1. d.kind = call'[d.from].kind
    <3>1. PICK c : c = d.from  OBVIOUS
    <3>2. d = Datagram(c)'  BY <1>1, <3>1 DEF Datagram
    <3>. QED  BY <3>1, <3>2 DEF Datagram
  <2>2. call[d.from].kind = "FloorRelease" /\ TimerFires(d.from)
    BY <2>1 DEF Goes, Retransmit
  <2>. QED  BY <1>1, <2>2, TimerWaits
<1>. QED  BY <1>1, <1>2 DEF BeginsCall

\* A release ends with the answer: nothing else than an Error leaves the active
\* request, and then the client still holds the floor.
LEMMA ReleaseEnds ==
  ASSUME Inv, [Next]_vars, NEW c \in Clients, NEW f \in FloorIDs, ~closed[c],
         Releasing(c, f), Ends(c), requests'[c][f] # None
  PROVE  /\ HoldsAs(c, f, call[c].req) /\ UNCHANGED <<known, floors>>
         /\ \A d \in toServer : ~ReleaseOf(d, c, f)
<1>0. UDPInv /\ TypeOK /\ CallInv /\ HolderInv  BY DEF Inv, UDPInv
<1>1. requests \in [Clients -> [FloorIDs -> Entries \cup {None}]]
  BY <1>0 DEF TypeOK, Entries
<1>2. call[c].at # "idle" /\ call[c].tx # 0
  BY <1>0 DEF CallInv, CallOK, Releasing, NoCall
<1>3. ~GiveUp(c)
  BY TimerWaits DEF GiveUp, Releasing
<1>4. FinishCall(c)
  <2>1. ~Goes(c)  BY <1>2 DEF Goes, Ends, NoCall
  <2>2. \A kind \in CallKinds, g \in AnyFloor, r \in Nat : ~BeginsCall(c, kind, g, r)
    BY DEF BeginsCall, Begins, Ends, NoCall
  <2>. QED  BY <1>0, <1>3, <2>1, <2>2, CallMoves
<1>5. resp[c].kind = "Error"
  <2>. SUFFICES ASSUME resp[c].kind # "Error"  PROVE FALSE
    OBVIOUS
  <2>1. Applied(c) = [requests[c] EXCEPT ![f] = None]
    BY DEF Applied, Releasing
  <2>2. requests'[c] = Applied(c)  BY <1>1, <1>4 DEF FinishCall
  <2>. QED  BY <1>1, <2>1, <2>2
<1>6. resp[c] # None /\ resp[c].to = c /\ resp[c].tx = call[c].tx /\ Truthful(resp[c])
  BY <1>0, <1>4 DEF CallInv, CallOK, FinishCall, HolderInv
<1>7. UNCHANGED <<known, floors>>  BY <1>4 DEF FinishCall, serverVars
<1>. QED  BY <1>5, <1>6, <1>7 DEF Truthful, Releasing

\* RequestFloor that ends with a grant holds the floor.
LEMMA GrantEnds ==
  ASSUME Inv, NEW c \in Clients, NEW f \in FloorIDs, ~closed[c], NewEntry(c, f)
  PROVE  /\ HoldsAs(c, f, resp[c].req) /\ UNCHANGED <<known, floors>>
         /\ \A d \in toServer : ~ReleaseOf(d, c, f)
         /\ call'[c] = NoCall
<1>0. TypeOK /\ CallInv /\ GrantInv /\ HolderInv  BY DEF Inv, UDPInv
<1>1. /\ resp[c] # None /\ resp[c].to = c /\ resp[c].tx = call[c].tx
      /\ Truthful(resp[c]) /\ Sound(resp[c]) /\ IsGrant(resp[c])
      /\ call[c].floor = f
  BY <1>0 DEF NewEntry, CallInv, CallOK, GrantInv, HolderInv
<1>2. resp[c].floor = f  BY <1>1 DEF Sound, OfCall
<1>3. UNCHANGED <<known, floors>> /\ call'[c] = NoCall
  BY <1>0 DEF NewEntry, FinishCall, EndCall, serverVars, TypeOK
<1>. QED  BY <1>1, <1>2, <1>3 DEF Truthful

-----------------------------------------------------------------------------
\* The parts of the invariant.

LEMMA ReleaseStep ==
  ASSUME Inv, [Next]_vars, NEW d \in toServer'
  PROVE  ReleaseOK(d)'
<1>0. UDPInv /\ TypeOK /\ CallInv /\ HolderInv  BY DEF Inv, UDPInv
<1>. SUFFICES ASSUME d.kind = "FloorRelease", ~closed'[d.from]
              PROVE  /\ HoldsAs(d.from, d.floor, d.req)'
                     /\ \/ requests'[d.from][d.floor] = None
                        \/ call'[d.from].tx = d.tx
                     /\ \A e \in toServer' :
                          ReleaseOf(e, d.from, d.floor) => e = d
  BY DEF ReleaseOK, ReleaseOf
<1>1. d.from \in Clients  BY TypeStep DEF Inv, TypeOK, Datagrams
<1>2. ~closed[d.from]  BY <1>0, <1>1, ClosedStays
<1>3. CASE d \in toServer
  <2>1. /\ HoldsAs(d.from, d.floor, d.req)
        /\ requests[d.from][d.floor] = None \/ call[d.from].tx = d.tx
        /\ \A e \in toServer : ReleaseOf(e, d.from, d.floor) => e = d
    BY <1>0, <1>2, <1>3 DEF HolderInv, ReleaseOK
  <2>2. d.floor \in FloorIDs /\ d.tx \in Nat /\ d.tx # 0 /\ DatagramOK(d)
    BY <1>0, <1>3 DEF CallInv, DatagramOK, OfCall, FloorCalls, TypeOK, Datagrams
  <2>3. HoldsAs(d.from, d.floor, d.req)'
    <3>1. ~Freed(d.from, d.floor, d.req)  BY <2>1 DEF Freed
    <3>. QED  BY <1>1, <1>2, <2>1, <2>2, <3>1, HoldsKept
  <2>4. requests'[d.from][d.floor] = None \/ call'[d.from].tx = d.tx
    <3>. SUFFICES ASSUME requests'[d.from][d.floor] # None
                  PROVE  call'[d.from].tx = d.tx
      OBVIOUS
    <3>1. ~NewEntry(d.from, d.floor)
      BY <1>1, <1>2, <1>3, <2>2, GrantEnds DEF ReleaseOf
    <3>2. requests[d.from][d.floor] # None
      BY <1>0, <1>1, <2>2, <3>1, EntryCases DEF SameEntry
    <3>3. call[d.from].tx = d.tx  BY <2>1, <3>2
    <3>4. Releasing(d.from, d.floor)
      BY <2>2, <3>3 DEF DatagramOK, OfCall, Releasing
    <3>5. ~Ends(d.from)
      BY <1>1, <1>2, <1>3, <2>2, <3>4, ReleaseEnds DEF ReleaseOf
    <3>6. ~Begins(d.from)  BY <2>2, <3>3 DEF Begins, NoCall
    <3>7. Goes(d.from)  BY <1>0, <1>1, <3>5, <3>6, CallCases
    <3>. QED  BY <3>3, <3>7 DEF Goes
  <2>5. ASSUME NEW e \in toServer', ReleaseOf(e, d.from, d.floor)  PROVE e = d
    <3>1. CASE e \in toServer  BY <2>1, <2>5, <3>1
    <3>2. CASE e \notin toServer
      <4>1. BeginsCall(d.from, "FloorRelease", d.floor, e.req)
        BY <1>2, <2>5, <3>2, NewRelease DEF ReleaseOf
      <4>. QED  BY <2>1, <2>2, <4>1 DEF BeginsCall, Begins, NoCall
    <3>. QED  BY <3>1, <3>2
  <2>. QED  BY <2>3, <2>4, <2>5
<1>4. CASE d \notin toServer
  <2>1. /\ d = Datagram(d.from)' /\ d.floor \in FloorIDs
        /\ BeginsCall(d.from, "FloorRelease", d.floor, d.req)
    BY <1>2, <1>4, NewRelease
  <2>2. /\ requests[d.from][d.floor] # None
        /\ d.req = requests[d.from][d.floor].req
        /\ call[d.from] = NoCall /\ UNCHANGED serverVars
        /\ toServer' = toServer \cup {Datagram(d.from)'}
    BY <2>1 DEF BeginsCall, Begins
  <2>3. HoldsAs(d.from, d.floor, d.req)
    BY <1>0, <1>1, <1>2, <2>1, <2>2
    DEF HolderInv, EntryOK, Releasing, NoCall
  <2>4. HoldsAs(d.from, d.floor, d.req)'
    BY <2>2, <2>3 DEF HoldsAs, serverVars
  <2>5. call'[d.from].tx = d.tx
    <3>1. PICK c : c = d.from  OBVIOUS
    <3>2. d = Datagram(c)'  BY <2>1, <3>1 DEF Datagram
    <3>. QED  BY <3>1, <3>2 DEF Datagram
  <2>6. ASSUME NEW e \in toServer', ReleaseOf(e, d.from, d.floor)  PROVE e = d
    <3>1. CASE e \in toServer
      <4>1. ReleaseOK(e) /\ e.tx # 0
        BY <1>0, <3>1 DEF HolderInv, CallInv, DatagramOK, OfCall
      <4>. QED  BY <1>2, <2>2, <2>6, <4>1 DEF ReleaseOK, ReleaseOf, NoCall
    <3>2. CASE e \notin toServer  BY <2>1, <2>2, <3>2
    <3>. QED  BY <3>1, <3>2
  <2>. QED  BY <2>4, <2>5, <2>6
<1>. QED  BY <1>3, <1>4

LEMMA EntryStep ==
  ASSUME Inv, [Next]_vars, NEW c \in Clients, NEW f \in FloorIDs
  PROVE  EntryOK(c, f)'
<1>0. UDPInv /\ TypeOK /\ CallInv /\ HolderInv  BY DEF Inv, UDPInv
<1>. SUFFICES ASSUME ~closed'[c], requests'[c][f] # None
              PROVE  IF Releasing(c, f)' THEN requests'[c][f].req = call'[c].req
                     ELSE HoldsAs(c, f, requests[c][f].req)'
  BY DEF EntryOK
<1>1. ~closed[c]  BY <1>0, ClosedStays
<1>2. CASE NewEntry(c, f)
  <2>1. /\ HoldsAs(c, f, resp[c].req) /\ UNCHANGED <<known, floors>>
        /\ call'[c] = NoCall
    BY <1>1, <1>2, GrantEnds
  <2>2. requests'[c][f].req = resp[c].req  BY <1>2 DEF NewEntry
  <2>. QED  BY <2>1, <2>2 DEF HoldsAs, Releasing, NoCall
<1>3. CASE SameEntry(c, f) /\ Releasing(c, f)
  <2>1. requests'[c][f].req = call[c].req
    BY <1>0, <1>1, <1>3 DEF SameEntry, HolderInv, EntryOK
  <2>2. CASE Goes(c)  BY <1>3, <2>1, <2>2 DEF Goes, Releasing
  <2>3. CASE Ends(c)
    <3>1. HoldsAs(c, f, call[c].req) /\ UNCHANGED <<known, floors>>
      BY <1>1, <1>3, <2>3, ReleaseEnds
    <3>. QED  BY <2>1, <2>3, <3>1 DEF HoldsAs, Ends, Releasing, NoCall
  <2>4. ~Begins(c)  BY <1>3 DEF Begins, Releasing, NoCall
  <2>. QED  BY <1>0, <2>2, <2>3, <2>4, CallCases
<1>4. CASE SameEntry(c, f) /\ ~Releasing(c, f)
  <2>1. HoldsAs(c, f, requests'[c][f].req) /\ requests[c][f] # None
    BY <1>0, <1>1, <1>4 DEF SameEntry, HolderInv, EntryOK
  <2>2. ASSUME NEW r, Freed(c, f, r)  PROVE FALSE
    <3>1. PICK d \in toServer : ReleaseOf(d, c, f)  BY <2>2 DEF Freed
    <3>2. ReleaseOK(d) /\ DatagramOK(d)  BY <1>0 DEF HolderInv, CallInv
    <3>3. call[c].tx = d.tx  BY <1>1, <2>1, <3>1, <3>2 DEF ReleaseOK, ReleaseOf
    <3>. QED  BY <1>4, <3>1, <3>2, <3>3
              DEF DatagramOK, OfCall, ReleaseOf, Releasing
  <2>3. PICK r : r = requests'[c][f].req  OBVIOUS
  <2>4. HoldsAs(c, f, r)'  BY <1>1, <2>1, <2>2, <2>3, HoldsKept
  <2>5. HoldsAs(c, f, requests[c][f].req)'  BY <2>3, <2>4 DEF HoldsAs
  <2>6. ASSUME Releasing(c, f)'  PROVE requests'[c][f].req = call'[c].req
    <3>1. ~Goes(c)  BY <1>4, <2>6 DEF Goes, Releasing
    <3>2. ~Ends(c)  BY <2>6 DEF Ends, Releasing, NoCall
    <3>3. PICK kind \in CallKinds, g \in AnyFloor, q \in Nat :
            BeginsCall(c, kind, g, q)
      BY <1>0, <3>1, <3>2, CallMoves
    <3>4. q = requests[c][f].req /\ call'[c].req = q
      BY <2>6, <3>3 DEF BeginsCall, Releasing
    <3>. QED  BY <1>4, <3>4 DEF SameEntry
  <2>. QED  BY <2>5, <2>6
<1>. QED  BY <1>0, <1>2, <1>3, <1>4, EntryCases

\* A datagram that leaves the network was taken by the server; a message, by its
\* client.
LEMMA TakenBy ==
  ASSUME Inv, [Next]_vars
  PROVE  /\ \A d \in toServer : d \in toServer' \/ Takes(d)
         /\ \A m \in toClient : m \in toClient' \/ HandleMessage(m.to, m)
<1>0. TypeOK /\ setup.faults = {}  BY DEF Inv, UDPInv, Benevolent
<1>1. ASSUME NEW m \in toServer, Takes(m)
      PROVE  toServer' = toServer \ {m} /\ toClient \subseteq toClient'
  <2>1. toServer' = toServer \ {m}
    BY <1>0, <1>1 DEF Takes, Receive, After
  <2>2. toClient \subseteq toClient'
    BY <1>1 DEF Takes, HandleUDPHello, HandleUDPFloorRequest,
                HandleUDPFloorRelease, HandleUDPGoodbye
  <2>. QED  BY <2>1, <2>2
<1>2. ASSUME NEW c \in Clients, NEW m \in toClient, HandleMessage(c, m)
      PROVE  toServer' = toServer /\ toClient' = toClient \ {m} /\ m.to = c
  BY <1>0, <1>2 DEF HandleMessage, After
<1>3. ~Lose  BY <1>0 DEF Lose
<1>4. \/ toServer \subseteq toServer' /\ toClient \subseteq toClient'
      \/ \E m \in toServer : Takes(m)
      \/ \E c \in Clients, m \in toClient : HandleMessage(c, m)
  BY <1>0, <1>3, StepCases
  DEF DecideUDP, GoodbyeReleaseUDP, SendBroadcastUDP, HandlerDoneUDP,
      RegisterClient, Starts, Transact, Close, Retransmit, GiveUp, TakeResponse,
      FinishCall, ApplyOwnStatus, vars
<1>. QED  BY <1>1, <1>2, <1>4

LEMMA UnderwayStep ==
  ASSUME Inv, [Next]_vars, NEW c \in Clients
  PROVE  Underway(c)'
<1>0. UDPInv /\ TypeOK /\ CallInv /\ HolderInv  BY DEF Inv, UDPInv
<1>. SUFFICES ASSUME ~closed'[c], call'[c].kind = "FloorRelease",
                     call'[c].at = "wait"
              PROVE  \/ \E d \in toServer' : d.from = c /\ d.tx = call'[c].tx
                     \/ \E m \in toClient' : m.to = c /\ m.tx = call'[c].tx
                     \/ resp'[c] # None
  BY DEF Underway
<1>1. ~closed[c]  BY <1>0, ClosedStays
<1>2. CASE Begins(c)
  <2>1. PICK d : d = Datagram(c)'  OBVIOUS
  <2>2. d.from = c /\ d.tx = call'[c].tx  BY <2>1 DEF Datagram
  <2>3. d \in toServer'  BY <1>2, <2>1 DEF Begins
  <2>. QED  BY <2>2, <2>3
<1>3. ~Ends(c)  BY DEF Ends, NoCall
<1>4. CASE Goes(c)
  <2>0. /\ call[c].kind = "FloorRelease" /\ call[c].at = "wait"
        /\ call'[c].tx = call[c].tx
    BY <1>4 DEF Goes
  <2>1. ASSUME NEW d \in toServer, d.from = c, d.tx = call[c].tx
        PROVE  \/ d \in toServer'
               \/ \E m \in toClient' : m.to = c /\ m.tx = call[c].tx
    <3>. SUFFICES ASSUME d \notin toServer'
                  PROVE  \E m \in toClient' : m.to = c /\ m.tx = call[c].tx
      OBVIOUS
    <3>1. Takes(d)  BY TakenBy
    <3>2. d \in Datagrams /\ d.kind = "FloorRelease"
      BY <1>0, <2>0, <2>1 DEF TypeOK, CallInv, DatagramOK, OfCall
    <3>3. HandleUDPFloorRelease(d)
      BY <3>1, <3>2 DEF Takes, HandleUDPHello, HandleUDPFloorRequest,
                        HandleUDPGoodbye
    <3>4. CASE Refuses(d)  BY <2>1, <3>2, <3>4, ReplyType DEF Refuses
    <3>5. ASSUME NEW f \in FloorIDs, Frees(d, f)
          PROVE  \E m \in toClient' : m.to = c /\ m.tx = call[c].tx
      <4>1. f \in AnyFloor /\ "Released" \in FloorStates /\ d.tx \in Nat
            /\ d.req \in Nat
        BY <3>2 DEF AnyFloor, FloorStates, Datagrams
      <4>. QED  BY <2>1, <3>5, <4>1, StatusType DEF Frees
    <3>. QED  BY <1>0, <3>3, <3>4, <3>5, ReleaseCases
  <2>2. ASSUME NEW m \in toClient, m.to = c, m.tx = call[c].tx
        PROVE  m \in toClient' \/ resp'[c] # None
    <3>1. CASE HandleMessage(c, m)
      <4>1. m # None /\ resp \in [Clients -> Messages \cup {None}]
        BY <1>0, NoneAssumption DEF TypeOK
      <4>. QED  BY <1>1, <2>0, <2>2, <3>1, <4>1 DEF HandleMessage, Answers
    <3>. QED  BY <2>2, <3>1, TakenBy
  <2>3. resp[c] # None => resp'[c] # None
    <3>. SUFFICES ASSUME resp[c] # None, resp'[c] = None  PROVE FALSE
      OBVIOUS
    <3>1. resp \in [Clients -> Messages \cup {None}] /\ call \in [Clients -> Calls]
      BY <1>0 DEF TypeOK, Calls
    <3>2. ASSUME NEW d \in Clients, GiveUp(d) \/ FinishCall(d)  PROVE FALSE
      <4>1. resp' = [resp EXCEPT ![d] = None] /\ call' = [call EXCEPT ![d] = NoCall]
        BY <3>2 DEF GiveUp, FinishCall, EndCall
      <4>2. d = c  BY <3>1, <4>1
      <4>. QED  BY <3>1, <4>1, <4>2 DEF NoCall
    <3>3. ASSUME NEW d \in Clients, NEW m \in toClient, HandleMessage(d, m)
          PROVE  FALSE
      BY <3>1, <3>3 DEF HandleMessage
    <3>4. \/ resp' = resp
          \/ \E d \in Clients : \/ GiveUp(d) \/ FinishCall(d)
                                \/ \E m \in toClient : HandleMessage(d, m)
      BY <1>0, StepCases
      DEF Takes, DecideUDP, GoodbyeReleaseUDP, SendBroadcastUDP, HandlerDoneUDP,
          RegisterClient, Starts, Transact, Close, Retransmit, TakeResponse,
          ApplyOwnStatus, Lose, vars, clientVars
    <3>. QED  BY <3>2, <3>3, <3>4
  <2>4. \/ \E d \in toServer : d.from = c /\ d.tx = call[c].tx
        \/ \E m \in toClient : m.to = c /\ m.tx = call[c].tx
        \/ resp[c] # None
    BY <1>0, <1>1, <2>0 DEF HolderInv, Underway
  <2>. QED  BY <2>0, <2>1, <2>2, <2>3, <2>4
<1>. QED  BY <1>0, <1>2, <1>3, <1>4, CallCases

\* An answer stays true until the client takes it: only the client itself could
\* send the release that makes it false, and it is waiting for the answer.
LEMMA TruthfulKept ==
  ASSUME Inv, [Next]_vars, NEW m \in Messages, Sound(m), Truthful(m),
         m \in toClient \/ resp[m.to] = m
  PROVE  Truthful(m)'
<1>0. UDPInv /\ TypeOK /\ CallInv /\ HolderInv  BY DEF Inv, UDPInv
<1>1. PICK c \in Clients : c = m.to  BY DEF Messages
<1>2. m # None /\ m.tx \in Nat  BY NoneAssumption DEF Messages
<1>. SUFFICES ASSUME m.tx = call'[c].tx, ~closed'[c]
     PROVE  /\ IsGrant(m) =>
                 /\ HoldsAs(c, m.floor, m.req)'
                 /\ \A d \in toServer' : ~ReleaseOf(d, c, m.floor)
            /\ m.kind = "Error" /\ call'[c].kind = "FloorRelease" =>
                 /\ HoldsAs(c, call[c].floor, call[c].req)'
                 /\ \A d \in toServer' : ~ReleaseOf(d, c, call'[c].floor)
  BY <1>1 DEF Truthful, ReleaseOf, IsGrant
<1>3. ~closed[c]  BY <1>0, ClosedStays
<1>4. ASSUME IsGrant(m) \/ m.kind = "Error"  PROVE Goes(c)
  <2>1. m.tx \in 1..lastTx[c] /\ lastTx[c] \in Nat
    BY <1>0, <1>1, <1>4, UDPAssumption DEF Sound, OfCall, TypeOK
  <2>2. ~Ends(c) /\ ~Begins(c)  BY <2>1 DEF Ends, Begins, NoCall
  <2>. QED  BY <1>0, <2>2, CallCases
<1>5. ASSUME NEW f \in FloorIDs, NEW r, Goes(c), HoldsAs(c, f, r),
             \A d \in toServer : ~ReleaseOf(d, c, f)
      PROVE  /\ HoldsAs(c, f, r)'
             /\ \A d \in toServer' : ~ReleaseOf(d, c, f)
  <2>1. ~Freed(c, f, r)  BY <1>5 DEF Freed
  <2>2. HoldsAs(c, f, r)'  BY <1>3, <1>5, <2>1, HoldsKept
  <2>3. ASSUME NEW d \in toServer', ReleaseOf(d, c, f)  PROVE FALSE
    <3>1. BeginsCall(c, "FloorRelease", d.floor, d.req)
      BY <1>3, <1>5, <2>3, NewRelease DEF ReleaseOf
    <3>. QED  BY <1>0, <1>5, <3>1, UDPAssumption
              DEF BeginsCall, Begins, Goes, TypeOK
  <2>. QED  BY <2>2, <2>3
<1>6. ASSUME IsGrant(m)
      PROVE  /\ HoldsAs(c, m.floor, m.req)'
             /\ \A d \in toServer' : ~ReleaseOf(d, c, m.floor)
  <2>1. Goes(c) /\ m.tx = call[c].tx  BY <1>4, <1>6 DEF Goes
  <2>2. HoldsAs(c, m.floor, m.req) /\ \A d \in toServer : ~ReleaseOf(d, c, m.floor)
    BY <1>1, <1>3, <1>6, <2>1 DEF Truthful
  <2>3. m.floor \in FloorIDs  BY <1>0, <2>2 DEF HoldsAs, TypeOK
  <2>. QED  BY <1>5, <2>1, <2>2, <2>3
<1>7. ASSUME m.kind = "Error", call'[c].kind = "FloorRelease"
      PROVE  /\ HoldsAs(c, call[c].floor, call[c].req)'
             /\ \A d \in toServer' : ~ReleaseOf(d, c, call'[c].floor)
  <2>1. /\ Goes(c) /\ m.tx = call[c].tx /\ call[c].kind = "FloorRelease"
        /\ call'[c].floor = call[c].floor /\ call'[c].req = call[c].req
    BY <1>4, <1>7 DEF Goes
  <2>2. /\ HoldsAs(c, call[c].floor, call[c].req)
        /\ \A d \in toServer : ~ReleaseOf(d, c, call[c].floor)
    BY <1>1, <1>3, <1>7, <2>1 DEF Truthful
  <2>3. PICK f, r : f = call[c].floor /\ r = call[c].req  OBVIOUS
  <2>4. f \in FloorIDs /\ HoldsAs(c, f, r)
    BY <1>0, <2>2, <2>3 DEF HoldsAs, TypeOK
  <2>5. HoldsAs(c, f, r)' /\ \A d \in toServer' : ~ReleaseOf(d, c, f)
    BY <1>5, <2>1, <2>2, <2>3, <2>4
  <2>. QED  BY <2>1, <2>3, <2>5 DEF HoldsAs
<1>. QED  BY <1>6, <1>7

\* The answers the server sends are true when they are sent.
LEMMA AnswersTruthful ==
  ASSUME Inv, [Next]_vars, NEW n \in toClient'
  PROVE  Truthful(n)'
<1>0. /\ UDPInv /\ TypeOK /\ ServerInv /\ CallInv /\ GrantInv /\ HolderInv
      /\ floors \in [FloorIDs -> Floors]
  BY DEF Inv, UDPInv, TypeOK, Floors
<1>1. CASE n \in toClient
  BY <1>0, <1>1, TruthfulKept DEF TypeOK, GrantInv, HolderInv
<1>. SUFFICES ASSUME n \notin toClient  PROVE Truthful(n)'
  BY <1>1
<1>2. CASE ~IsGrant(n) /\ n.kind # "Error"
  BY <1>2 DEF Truthful, IsGrant
<1>3. ASSUME NEW c \in Clients, NEW tx \in Nat, NEW f \in AnyFloor, NEW r \in Nat,
             n = Status(c, "FloorRequestStatus", tx, f, r, "Released")
      PROVE  Truthful(n)'
  <2>1. "Released" \in FloorStates  BY DEF FloorStates
  <2>2. n.kind = "FloorRequestStatus" /\ n.status = "Released"
    BY <1>3, <2>1, StatusType
  <2>. QED  BY <1>2, <2>2 DEF IsGrant
<1>4. ASSUME NEW m \in toServer, Takes(m)  PROVE Truthful(n)'
  <2>1. /\ m \in Datagrams /\ m.from \in Clients /\ m.tx \in Nat /\ m.req \in Nat
        /\ DatagramOK(m) /\ UNCHANGED <<call, closed>>
    BY <1>0, <1>4 DEF TypeOK, Datagrams, CallInv, Takes, clientVars
  <2>2. CASE HandleUDPHello(m)
    <3>1. n = Reply(m, "HelloAck")  BY <2>2 DEF HandleUDPHello
    <3>2. n.kind = "HelloAck"  BY <2>1, <3>1, ReplyType
    <3>. QED  BY <1>2, <3>2 DEF IsGrant
  <2>3. CASE HandleUDPFloorRequest(m)
    <3>1. n = Reply(m, "Error")  BY <2>3 DEF HandleUDPFloorRequest
    <3>2. n.kind = "Error" /\ n.to = m.from /\ n.tx = m.tx
      BY <2>1, <3>1, ReplyType
    <3>3. m.tx = call[m.from].tx => call[m.from].kind = "FloorRequest"
      BY <2>1, <2>3 DEF DatagramOK, OfCall, HandleUDPFloorRequest
    <3>. QED  BY <2>1, <3>2, <3>3 DEF Truthful, IsGrant
  <2>4. CASE HandleUDPFloorRelease(m)
    <3>1. ASSUME NEW f \in FloorIDs, Frees(m, f)  PROVE Truthful(n)'
      <4>1. n = Status(m.from, "FloorRequestStatus", m.tx, f, m.req, "Released")
        BY <3>1 DEF Frees
      <4>. QED  BY <1>3, <2>1, <4>1 DEF AnyFloor
    <3>2. ASSUME Refuses(m)  PROVE Truthful(n)'
      <4>1. n = Reply(m, "Error")  BY <3>2 DEF Refuses
      <4>2. n.kind = "Error" /\ n.to = m.from /\ n.tx = m.tx
        BY <2>1, <4>1, ReplyType
      <4>. SUFFICES ASSUME m.tx = call[m.from].tx, ~closed[m.from]
           PROVE  /\ HoldsAs(m.from, call[m.from].floor, call[m.from].req)'
                  /\ \A d \in toServer' : ~ReleaseOf(d, m.from, call[m.from].floor)
        BY <2>1, <4>2 DEF Truthful, IsGrant, HoldsAs, ReleaseOf
      <4>3. /\ call[m.from].floor = m.floor /\ call[m.from].req = m.req
            /\ m.kind = "FloorRelease"
        BY <2>1, <2>4 DEF DatagramOK, OfCall, HandleUDPFloorRelease
      <4>4. /\ HoldsAs(m.from, m.floor, m.req)
            /\ \A e \in toServer : ReleaseOf(e, m.from, m.floor) => e = m
        BY <1>0, <4>3 DEF HolderInv, ReleaseOK
      <4>5. HoldsAs(m.from, call[m.from].floor, call[m.from].req)'
        BY <2>1, <3>2, <4>3, <4>4 DEF HoldsAs, Refuses
      <4>6. toServer' = toServer \ {m}
        BY <1>4 DEF Takes, Receive, After, Inv, Benevolent
      <4>. QED  BY <4>3, <4>4, <4>5, <4>6
    <3>. QED  BY <1>0, <2>4, <3>1, <3>2, ReleaseCases
  <2>5. CASE HandleUDPGoodbye(m)  BY <2>5 DEF HandleUDPGoodbye
  <2>. QED  BY <1>4, <2>2, <2>3, <2>4, <2>5 DEF Takes
<1>5. CASE DecideUDP
  <2>1. /\ serving.at = "decide" /\ serving.from \in Clients
        /\ serving.floor \in FloorIDs /\ serving.floor \in AnyFloor
        /\ serving.tx \in Nat /\ serving.req \in Nat /\ serving.floor \in known
        /\ floors[serving.floor].state = "Pending"
        /\ floors[serving.floor].owner = UserOf[serving.from]
        /\ floors[serving.floor].requestID = serving.req
    BY <1>0, <1>5 DEF DecideUDP, ServerInv, TypeOK
  <2>2. PICK st \in {"Granted", "Denied"} :
          /\ n = Status(serving.from, "FloorRequestStatus", serving.tx,
                        serving.floor, serving.req, st)
          /\ st = "Granted" => serving.grant
    BY <1>5 DEF DecideUDP
  <2>3. st \in FloorStates \cup {"none"}  BY DEF FloorStates
  <2>4. /\ n.to = serving.from /\ n.kind = "FloorRequestStatus"
        /\ n.floor = serving.floor /\ n.req = serving.req /\ n.status = st
    BY <2>1, <2>2, <2>3, StatusType
  <2>5. CASE st = "Granted"
    <3>1. floors'[n.floor] = Grant(floors[n.floor])
      BY <1>0, <1>5, <2>1, <2>2, <2>4, <2>5 DEF DecideUDP
    <3>2. HoldsAs(n.to, n.floor, n.req)'
      <4>1. /\ floors'[n.floor].state = "Granted"
            /\ floors'[n.floor].owner = floors[n.floor].owner
            /\ floors'[n.floor].requestID = floors[n.floor].requestID
        BY <1>0, <2>1, <2>4, <3>1, FloorMethods
      <4>. QED  BY <1>5, <2>1, <2>4, <4>1 DEF DecideUDP, HoldsAs
    <3>3. UNCHANGED <<closed, toServer>>  BY <1>5 DEF DecideUDP, clientVars
    <3>4. ASSUME ~closed[n.to], NEW d \in toServer, ReleaseOf(d, n.to, n.floor)
          PROVE  FALSE
      <4>1. ReleaseOK(d)  BY <1>0 DEF HolderInv
      <4>. QED  BY <2>1, <2>4, <3>4, <4>1 DEF ReleaseOK, ReleaseOf, HoldsAs
    <3>. QED  BY <2>4, <3>2, <3>3, <3>4 DEF Truthful, IsGrant, ReleaseOf
  <2>6. CASE st = "Denied"  BY <1>2, <2>4, <2>6 DEF IsGrant
  <2>. QED  BY <2>5, <2>6
<1>6. CASE SendBroadcastUDP
  <2>1. PICK c \in serving.dest :
          n = Status(c, "FloorRequestStatus", NextID, serving.floor, serving.req,
                     "Released")
    BY <1>6 DEF SendBroadcastUDP
  <2>2. /\ c \in Clients /\ serving.floor \in AnyFloor /\ serving.req \in Nat
        /\ NextID \in Nat
    BY <1>0, IDTypes DEF TypeOK
  <2>. QED  BY <1>3, <2>1, <2>2
<1>7. ASSUME NEW c \in Clients, NEW f \in FloorIDs, RegisterClient(c, f)
      PROVE  Truthful(n)'
  <2>1. floors[f].state \in FloorStates /\ 1 % setup.ids \in Nat /\ f \in AnyFloor
    BY <1>0, IDTypes DEF TypeOK, AnyFloor
  <2>2. n = Status(c, "FloorStatus", 0, f, 1 % setup.ids, floors[f].state)
    BY <1>7 DEF RegisterClient
  <2>3. n.kind = "FloorStatus"  BY <2>1, <2>2, StatusType
  <2>. QED  BY <1>2, <2>3 DEF IsGrant
<1>8. \/ toClient' \subseteq toClient
      \/ \E m \in toServer : Takes(m)
      \/ DecideUDP \/ SendBroadcastUDP
      \/ \E c \in Clients, f \in FloorIDs : RegisterClient(c, f)
  BY <1>0, AnswerSenders
<1>. QED  BY <1>4, <1>5, <1>6, <1>7, <1>8

\* Nobody says Goodbye, so the server never frees floors on its own.
LEMMA TodoStep ==
  ASSUME Inv, [Next]_vars
  PROVE  serving'.todo = {}
<1>0. TypeOK /\ CallInv /\ serving.todo = {} /\ serving \in Handlers
  BY DEF Inv, UDPInv, HolderInv, TypeOK, Handlers
<1>1. ASSUME NEW m \in toServer, Takes(m)  PROVE serving'.todo = {}
  <2>1. ~HandleUDPGoodbye(m)
    BY <1>0 DEF CallInv, DatagramOK, HandleUDPGoodbye, Inv, Benevolent
  <2>2. HandleUDPHello(m) => serving'.todo = {}  BY <1>0 DEF HandleUDPHello
  <2>3. HandleUDPFloorRequest(m) => serving'.todo = {}
    BY <1>0 DEF HandleUDPFloorRequest, Idle
  <2>4. HandleUDPFloorRelease(m) => serving'.todo = {}
    BY <1>0, ReleaseCases DEF Frees, Refuses, Idle
  <2>. QED  BY <1>1, <2>1, <2>2, <2>3, <2>4 DEF Takes
<1>2. DecideUDP \/ HandlerDoneUDP => serving'.todo = {}
  BY DEF DecideUDP, HandlerDoneUDP, Idle
<1>3. ~GoodbyeReleaseUDP  BY <1>0 DEF GoodbyeReleaseUDP
<1>4. SendBroadcastUDP => serving'.todo = {}
  BY <1>0 DEF SendBroadcastUDP, Handlers
<1>5. \/ \E m \in toServer : Takes(m)
      \/ DecideUDP \/ GoodbyeReleaseUDP \/ SendBroadcastUDP \/ HandlerDoneUDP
      \/ serving' = serving
  BY <1>0, StepCases
  DEF RegisterClient, Starts, Transact, Close, Retransmit, GiveUp,
      TakeResponse, FinishCall, ApplyOwnStatus, HandleMessage, Lose, vars,
      serverVars
<1>. QED  BY <1>0, <1>1, <1>2, <1>3, <1>4, <1>5

LEMMA HolderStep ==
  ASSUME Inv, [Next]_vars
  PROVE  HolderInv'
<1>0. UDPInv /\ TypeOK /\ GrantInv /\ CallInv /\ HolderInv  BY DEF Inv, UDPInv
<1>1. ASSUME NEW c \in Clients, resp'[c] # None  PROVE Truthful(resp[c])'
  <2>1. PICK n : n = resp'[c]  OBVIOUS
  <2>2. CASE n = resp[c]
    <3>1. /\ n \in Messages /\ Sound(n) /\ Truthful(n) /\ resp[n.to] = n
      BY <1>0, <1>1, <2>1, <2>2
      DEF TypeOK, GrantInv, CallInv, CallOK, HolderInv
    <3>2. Truthful(n)'  BY <3>1, TruthfulKept
    <3>. QED  BY <2>1, <3>2 DEF Truthful, IsGrant, HoldsAs, ReleaseOf
  <2>3. CASE n \in toClient
    <3>1. n \in Messages /\ Sound(n) /\ Truthful(n)
      BY <1>0, <2>3 DEF TypeOK, GrantInv, HolderInv
    <3>2. Truthful(n)'  BY <2>3, <3>1, TruthfulKept
    <3>. QED  BY <2>1, <3>2 DEF Truthful, IsGrant, HoldsAs, ReleaseOf
  <2>. QED  BY <1>0, <1>1, <2>1, <2>2, <2>3, ResponseCases
<1>. QED  BY <1>1, TodoStep, ReleaseStep, EntryStep, UnderwayStep, AnswersTruthful
          DEF HolderInv

-----------------------------------------------------------------------------
\* For any number of clients and floors, when every user has one client and an ID
\* other than 0, and no two held floors share a request ID: on a network that
\* only reorders, a client that has not closed and for which UDPClient.HasFloor
\* is true holds the floor, but for the time it spends inside ReleaseFloor
\* (udpclient.go:236).  With one floor the condition on the IDs is void.
THEOREM HasFloorIsTrue ==
  ASSUME OneClientPerUser
  PROVE  Spec /\ []DistinctIDs => []HasFloorIsHolder
<1>. DEFINE J == Benevolent => HolderInv
<1>1. Init => J
  <2>. SUFFICES ASSUME Init  PROVE HolderInv
    OBVIOUS
  <2>. QED  BY DEF Init, HolderInv, Idle, EntryOK, Underway, NoCall
<1>2. UDPInv /\ DistinctIDs /\ J /\ [Next]_vars => J'
  <2>. SUFFICES ASSUME UDPInv, DistinctIDs, J, [Next]_vars, Benevolent'
                PROVE  HolderInv'
    OBVIOUS
  <2>1. Benevolent  BY CallCases DEF Benevolent
  <2>. QED  BY <2>1, HolderStep DEF Inv
<1>3. UDPInv /\ J => HasFloorIsHolder
  BY DEF HasFloorIsHolder, HasFloor, HolderIs, Benevolent, HolderInv, EntryOK,
         Releasing, HoldsAs
<1>. QED  BY <1>1, <1>2, <1>3, UDPInvInductive, PTL DEF Spec

=============================================================================
