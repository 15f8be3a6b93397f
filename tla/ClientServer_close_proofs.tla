------------------------ MODULE ClientServer_close_proofs ------------------------
(***************************************************************************)
(* Closing a virtual client gives its user's floors back.  The argument    *)
(* follows the Goodbye: once it is on the wire (Bye) it is read, handled   *)
(* and answered by closing the connection, and nothing the client does can *)
(* take it back; a client that was closed before it ever asked for a floor *)
(* (Unused) has none to give.                                              *)
(***************************************************************************)
EXTENDS ClientServer_proofs

\* The client's user has no floor, pending or granted.
NoFloors == \A f \in FloorIDs : ~P!Owns(f, User)

\* A message of that primitive is on its way to the server.
Sent(p) == \E i \in 1 .. Len(outbox) : outbox[i].prim = p

\* The Goodbye is under way, or has done its work.
Bye ==
  \/ Sent("Goodbye")
  \/ pc[Me] \in {"goodbye", "byeBroadcast"}
  \/ session[Me] = "Disconnected"
  \/ link = "down" /\ conn[Me] = "none" /\ NoFloors

\* No request for a floor was made, nor is one under way.
Unused ==
  /\ NoFloors /\ ~Sent("FloorRequest") /\ pc[Me] # "request"
  /\ \A t \in Threads : /\ call[t].op # "RequestFloor"
                        /\ frame[t].op # "RequestFloor"

\* Connect has succeeded, whatever became of the connection since.
Opened == connected \/ tr = "closed"

\* The two ends of the connection.
LinkInv ==
  /\ link = "none" <=> tr = "nil"
  /\ tr = "nil" => /\ ~connected /\ reader.at = "off" /\ outbox = <<>>
                   /\ conn[Me] = "none"
                   /\ \A t \in Threads : Idle(t)
  /\ link = "down" => outbox = <<>>
  /\ reader.at \in {"onClose", "done"} => tr = "closed"
  /\ conn[Me] = "closed" => session[Me] = "Disconnected"

\* While the network works, the connection only ends after a Goodbye, or with
\* the process.
HangupInv ==
  ~setup.breaks =>
    /\ tr = "closed" => Bye
    /\ link = "down" => Bye \/ crashed
    /\ conn[Me] = "lost" => outbox = <<>> /\ (tr = "closed" \/ crashed)
    /\ \A t \in Threads :
         call[t].op = "Disconnect" /\ call[t].at \in {"close", "return"} => Bye

\* The wrapper's methods and the calls they make.
FrameOf(t) ==
  /\ frame[t].op = "Close" => frame[t].at \in {"lock", "hangup", "unlock"}
  /\ frame[t].at \in {"idle", "lock", "unlock"} => Idle(t)
  /\ frame[t].at = "dial" => call[t].op = "Connect" /\ mu = t
  /\ call[t].op = "Connect" /\ call[t].at = "return" => Opened
  /\ frame[t].at = "hangup" /\ ~Idle(t) => call[t].op = "Disconnect"
  /\ frame[t].op = "Close" /\ frame[t].at = "hangup" => Opened

\* Before Connect has the lock, nothing has been asked of the server.
BeforeConnect ==
  /\ ~vconnected /\ Unused
  /\ \A t \in Threads : /\ Idle(t)
                        /\ frame[t].op \in {"none", "Connect", "Close"}
                        /\ frame[t].at \in {"idle", "lock", "unlock"}

WrapperInv ==
  /\ ~setup.virtual => ~vclosed
  /\ setup.virtual =>
       /\ \A t \in Threads : FrameOf(t)
       /\ hasClient => Opened \/ \E t \in Threads : frame[t].at = "dial"
       /\ ~hasClient => BeforeConnect

\* Close has sent the Goodbye, or there was nothing to close.
Closing == vclosed /\ \A t \in Threads : frame[t].op = "Close" => frame[t].at = "unlock"

CloseInv == setup.virtual /\ ~setup.breaks /\ Closing => Bye \/ Unused

ByeInv == LinkInv /\ HangupInv /\ WrapperInv /\ CloseInv

-----------------------------------------------------------------------------
(***************************************************************************)
(* What is known of the server.                                            *)
(***************************************************************************)

\* The facts about connection Me that P's theorems give.
ServerFacts ==
  /\ P!TypeOK
  /\ session[Me] = "Disconnected" =>
       conn[Me] = "closed" /\ pc[Me] = "read" /\ NoFloors
  /\ conn[Me] = "none" => pc[Me] = "read"

LEMMA ServerFactsHold ==
  ASSUME S!OneConnectionPerUser, S!HandsOff
  PROVE  Spec => [](IInv /\ P!IInv /\ ServerFacts)
<1>1. P!OneConnectionPerUser /\ P!HandsOff
  BY SameUsers DEF S!HandsOff, P!HandsOff
<1>2. Spec => P!Spec
  <2>1. Init => P!Init  BY SameInit DEF Init
  <2>2. IInv /\ [Next]_vars => [P!Next]_(P!vars)
    BY NextSound, SameServer DEF serverVars, P!vars
  <2>. QED  BY <2>1, <2>2, IInvInductive, PTL DEF Spec, P!Spec
<1>3. P!Spec => []P!IInv
  BY <1>1, ServerConstants, P!IInvInductive DEF P!ConstantsAssumption
<1>4. P!Spec => []P!SessionsAreLive
  BY ServerConstants, P!SessionsLive DEF P!ConstantsAssumption
<1>5. P!IInv /\ P!SessionsAreLive => ServerFacts
  <2>. SUFFICES ASSUME P!IInv, P!SessionsAreLive  PROVE ServerFacts  OBVIOUS
  <2>0. Me \in Conns /\ P!TypeOK /\ P!ClientInv(Me)
    BY ClientServerAssumption DEF P!IInv, P!FloorInv
  <2>1. session[Me] = "Disconnected" =>
          conn[Me] = "closed" /\ pc[Me] = "read" /\ NoFloors
    BY <2>0 DEF P!ClientInv, P!GoodbyeOf, NoFloors, User
  <2>2. conn[Me] = "none" => pc[Me] = "read"  BY <2>0 DEF P!SessionsAreLive
  <2>. QED  BY <2>0, <2>1, <2>2 DEF ServerFacts
<1>. QED  BY <1>2, <1>3, <1>4, <1>5, IInvInductive, PTL

-----------------------------------------------------------------------------
(***************************************************************************)
(* The server's steps, as far as the connection of the client goes.        *)
(***************************************************************************)

Has(s, p) == \E i \in 1 .. Len(s) : s[i].prim = p

LEMMA HasFacts ==
  ASSUME NEW s \in Seq(Sound), NEW p
  PROVE  /\ ~Has(<<>>, p)
         /\ s # <<>> => /\ Has(Tail(s), p) => Has(s, p)
                        /\ Has(s, p) => Head(s).prim = p \/ Has(Tail(s), p)
                        /\ Head(s).prim = p => Has(s, p)
         /\ \A m \in Sound : Has(Append(s, m), p) <=> Has(s, p) \/ m.prim = p
<1>1. ~Has(<<>>, p)  BY DEF Has
<1>2. ASSUME s # <<>>
      PROVE  /\ Has(Tail(s), p) => Has(s, p)
             /\ Has(s, p) => Head(s).prim = p \/ Has(Tail(s), p)
             /\ Head(s).prim = p => Has(s, p)
  <2>1. /\ Len(s) \in Nat \ {0} /\ Len(Tail(s)) = Len(s) - 1
        /\ \A i \in 1 .. Len(Tail(s)) : Tail(s)[i] = s[i + 1]
    BY <1>2, EmptySeq, HeadTailProperties
  <2>2. Head(s) = s[1]  BY <1>2
  <2>3. Has(Tail(s), p) => Has(s, p)
    <3>. SUFFICES ASSUME NEW i \in 1 .. Len(Tail(s)), Tail(s)[i].prim = p
                  PROVE  Has(s, p)
      BY DEF Has
    <3>1. i + 1 \in 1 .. Len(s) /\ s[i + 1].prim = p  BY <2>1
    <3>. QED  BY <3>1 DEF Has
  <2>4. ASSUME Has(s, p), Head(s).prim # p  PROVE Has(Tail(s), p)
    <3>1. PICK i \in 1 .. Len(s) : s[i].prim = p  BY <2>4 DEF Has
    <3>2. i - 1 \in 1 .. Len(Tail(s))  BY <2>1, <2>2, <2>4, <3>1
    <3>3. Tail(s)[i - 1] = s[i]  BY <2>1, <3>2
    <3>. QED  BY <3>1, <3>2, <3>3 DEF Has
  <2>5. Head(s).prim = p => Has(s, p)  BY <2>1, <2>2 DEF Has
  <2>. QED  BY <2>3, <2>4, <2>5
<1>3. ASSUME NEW m \in Sound
      PROVE  Has(Append(s, m), p) <=> Has(s, p) \/ m.prim = p
  <2>1. /\ Len(s) \in Nat /\ Len(Append(s, m)) = Len(s) + 1
        /\ \A i \in 1 .. Len(s) : Append(s, m)[i] = s[i]
        /\ Append(s, m)[Len(s) + 1] = m
    BY AppendProperties, LenProperties
  <2>. QED  BY <2>1 DEF Has
<1>. QED  BY <1>1, <1>2, <1>3

\* A step that neither concerns the client nor gives its user a floor.
Elsewhere ==
  /\ conn'[Me] = conn[Me] /\ pc'[Me] = pc[Me] /\ session'[Me] = session[Me]
  /\ link' = link /\ outbox' = outbox
  /\ NoFloors => NoFloors'

\* The read loop of the server takes a message.
Reads ==
  /\ conn[Me] = "open" /\ pc[Me] = "read" /\ outbox # <<>>
  /\ conn'[Me] = "open" /\ link' = link /\ outbox' = Tail(outbox)
  /\ Head(outbox).prim = "Goodbye" => pc'[Me] = "goodbye"
  /\ pc'[Me] = "request" => Head(outbox).prim = "FloorRequest"
  /\ NoFloors => NoFloors'

\* The handler goes on, to its end or to the end of the connection.
Handles ==
  /\ pc[Me] # "read" /\ pc'[Me] # "request"
  /\ link' = link /\ outbox' = outbox
  /\ \/ conn'[Me] = conn[Me]
     \/ conn'[Me] = "closed" /\ session'[Me] = "Disconnected"
  /\ pc[Me] \in {"goodbye", "byeBroadcast"} =>
       pc'[Me] \in {"goodbye", "byeBroadcast"} \/ session'[Me] = "Disconnected"
  /\ pc[Me] # "request" /\ NoFloors => NoFloors'

\* The connection is made, lost or given up.
Connects ==
  /\ pc'[Me] = pc[Me] /\ (NoFloors => NoFloors')
  /\ \/ /\ link = "up" /\ conn[Me] = "none" /\ conn'[Me] = "open"
        /\ session'[Me] = session[Me] /\ link' = link /\ outbox' = outbox
     \/ /\ conn[Me] = "open" /\ conn'[Me] = "lost"
        /\ session'[Me] = session[Me]
        /\ \/ /\ outbox = <<>> /\ (tr = "closed" \/ crashed)
              /\ link' = link /\ outbox' = outbox
           \/ setup.breaks /\ link = "up" /\ link' = "down" /\ outbox' = <<>>
     \/ /\ pc[Me] = "read" /\ conn[Me] \in {"lost", "closed"}
        /\ conn'[Me] = "none" /\ link' = "down" /\ outbox' = <<>>

ServerActs ==
  \/ ServerRuns \/ Keepalive \/ Connection \/ NetworkFails
  \/ \E c \in setup.peers : Peer(c)

\* Only floor.Request makes the user of a connection an owner.
LEMMA OwnStepsGiveNone ==
  ASSUME S!OneConnectionPerUser, P!TypeOK, P!StepOf(Me), pc[Me] # "request",
         NEW f \in FloorIDs, P!Owns(f, User)'
  PROVE  P!Owns(f, User)
<1>0. /\ Me \in Conns /\ User # P!NoUser /\ Nil \notin Cells /\ User' = User
      /\ floors[f] \in Cells \cup {Nil}
  BY ClientServerAssumption, SameUsers DEF P!TypeOK, User
<1>. DEFINE Kept == /\ floors' = floors
                    /\ \A o \in Cells : fsm'[o].owner = User => fsm[o].owner = User
<1>1. Kept => P!Owns(f, User)  BY <1>0 DEF P!Owns
<1>2. CASE UNCHANGED <<floors, fsm>>  BY <1>1, <1>2
<1>3. ASSUME NEW g \in FloorIDs, NEW o \in Cells, P!NewFloor(g, o)
      PROVE  P!Owns(f, User)
  <2>1. fsm'[o].owner = P!NoUser /\ \A q \in Cells : q # o => fsm'[q] = fsm[q]
    BY <1>3 DEF P!NewFloor, P!NewFloorStateMachine, P!TypeOK
  <2>2. floors'[f] = floors[f] \/ floors'[f] = o
    BY <1>3 DEF P!NewFloor, P!TypeOK
  <2>. QED  BY <1>0, <2>1, <2>2 DEF P!Owns
<1>4. ASSUME NEW o, NEW m, floors' = floors, fsm' = [fsm EXCEPT ![o] = m],
             o \in Cells => m.owner \in {P!NoUser, fsm[o].owner}
      PROVE  P!Owns(f, User)
  <2>1. Kept  BY <1>0, <1>4 DEF P!TypeOK
  <2>. QED  BY <1>1, <2>1
<1>5. CASE P!Dispatch(Me)
  BY <1>2, <1>3, <1>5 DEF P!Dispatch, P!Hello, P!HandleFloorRequest,
     P!ReleaseByFloorID, P!ReleaseByRequestID, P!HandleFloorQuery,
     P!HandleGoodbye, P!floorVars
<1>6. CASE P!ConnectionStep(Me)
  BY <1>2, <1>6 DEF P!ConnectionStep, P!Accept, P!PeerLost, P!ReadExit,
     P!Keepalive
<1>7. CASE P!HandlerStep(Me)
  <2>0. \A o \in Cells : /\ P!Grant(fsm[o]).owner = fsm[o].owner
                         /\ P!Deny(fsm[o]).owner = P!NoUser
                         /\ P!Release(fsm[o]).owner = P!NoUser
    <3>1. \A o \in Cells : fsm[o] \in P!Floors  BY DEF P!TypeOK
    <3>. QED  BY <3>1 DEF P!Floors, P!Grant, P!Deny, P!Release
  <2>a. ASSUME NEW o, floors' = floors,
               \/ fsm' = [fsm EXCEPT ![o] = P!Grant(fsm[o])]
               \/ fsm' = [fsm EXCEPT ![o] = P!Deny(fsm[o])]
               \/ fsm' = [fsm EXCEPT ![o] = P!Release(fsm[o])]
        PROVE  P!Owns(f, User)
    BY <1>4, <2>0, <2>a
  <2>1. CASE P!Decide(Me)
    BY <1>2, <2>a, <2>1 DEF P!Decide
  <2>2. CASE P!FloorRelease(Me)
    BY <1>2, <2>a, <2>2 DEF P!FloorRelease
  <2>3. CASE P!GoodbyeRelease(Me)
    BY <1>2, <2>a, <2>3 DEF P!GoodbyeRelease
  <2>4. CASE P!FloorRequest(Me)  BY <2>4 DEF P!FloorRequest
  <2>5. CASE UNCHANGED P!floorVars  BY <1>2, <2>5 DEF P!floorVars
  <2>. QED  BY <1>7, <2>1, <2>2, <2>3, <2>4, <2>5 DEF P!HandlerStep,
            P!SendPending, P!TellGranted, P!TellDenied, P!ReleaseFallback,
            P!TellReleased, P!SendBroadcast, P!ReleaseDone, P!AnswerQuery,
            P!GoodbyeNotify, P!GoodbyeEnd
<1>. QED  BY <1>5, <1>6, <1>7 DEF P!StepOf

LEMMA OwnStepsKeepNone ==
  ASSUME S!OneConnectionPerUser, P!TypeOK, NoFloors, P!StepOf(Me),
         pc[Me] # "request"
  PROVE  NoFloors'
BY OwnStepsGiveNone DEF NoFloors

LEMMA PeersElsewhere ==
  ASSUME S!OneConnectionPerUser, IInv, P!IInv, NEW c \in setup.peers, Peer(c)
  PROVE  Elsewhere
<1>0. /\ Me \in Conns /\ c \in Conns /\ c # Me
      /\ P!FloorInv /\ P!TypeOK /\ P!ClientInv(c)
      /\ P!OneConnectionPerUser
  BY ClientServerAssumption, SameUsers DEF IInv, AllSetups, P!IInv, P!FloorInv
<1>1. P!StepOf(c)
  <2>1. S!Dispatch(c) \/ S!HandlerStep(c) \/ S!ConnectionStep(c)
    <3>1. setup.decisions \subseteq Decisions  BY DEF IInv, AllSetups
    <3>. QED  BY <3>1, ClientServerAssumption DEF Peer, OtherHandles,
              S!HandlerStep, S!Dispatch, S!ConnectionStep
  <2>. QED  BY <2>1, SameStep
<1>2. P!Apart(Me)
  BY <1>0, <1>1, ServerConstants, P!StepApart DEF P!ConstantsAssumption
<1>3. P!FloorsKept(Me)
  BY <1>0, <1>1, ServerConstants, P!StepKeepsFloors DEF P!ConstantsAssumption
<1>4. NoFloors => NoFloors'
  <2>1. \A f \in FloorIDs : floors[f] # Nil => floors[f] \in Cells
    BY <1>0 DEF P!TypeOK
  <2>2. \A f \in FloorIDs : floors[f] # Nil => P!Registered(floors[f])
    BY DEF P!Registered
  <2>. QED  BY <1>3, <2>1, <2>2 DEF P!FloorsKept, NoFloors, P!Owns, User
<1>5. link' = link /\ outbox' = outbox
  BY DEF Peer, OtherHandles, Announce, Write, wireVars
<1>. QED  BY <1>2, <1>4, <1>5 DEF P!Apart, Elsewhere

LEMMA ServerEffects ==
  ASSUME S!OneConnectionPerUser, IInv, P!IInv, ServerActs
  PROVE  Elsewhere \/ Reads \/ Handles \/ Connects
<1>0. /\ Me \in Conns /\ P!TypeOK
      /\ conn \in [Conns -> {"none", "open", "lost", "closed"}]
      /\ pc \in [Conns -> P!Labels] /\ session \in [Conns -> P!SessionStates]
  BY ClientServerAssumption DEF P!IInv, P!FloorInv, P!TypeOK
<1>1. ASSUME NoFloors, pc[Me] # "request",
             S!Dispatch(Me) \/ S!HandlerStep(Me) \/ S!ConnectionStep(Me)
      PROVE  NoFloors'
  BY <1>0, <1>1, SameStep, OwnStepsKeepNone
<1>2. ASSUME NEW c \in setup.peers, Peer(c)  PROVE Elsewhere
  BY <1>2, PeersElsewhere
<1>3. CASE Keepalive
  <2>1. S!Keepalive(Me) /\ link' = link /\ outbox' = outbox
    BY <1>3 DEF Keepalive, Announce, Write
  <2>. QED  BY <2>1 DEF S!Keepalive, Elsewhere, NoFloors, P!Owns
<1>4. CASE Connection \/ NetworkFails
  <2>1. NoFloors => NoFloors'
    BY <1>4 DEF Connection, NetworkFails, Accepted, ServerSeesEOF, ServerHangsUp,
       Break, S!Accept, S!PeerLost, S!ReadExit, NoFloors, P!Owns
  <2>2. CASE Accepted
    BY <1>0, <2>1, <2>2 DEF Accepted, S!Accept, Connects, wireVars
  <2>3. CASE ServerSeesEOF
    BY <1>0, <2>1, <2>3 DEF ServerSeesEOF, S!PeerLost, Connects, wireVars
  <2>4. CASE ServerHangsUp
    BY <1>0, <2>1, <2>4 DEF ServerHangsUp, S!ReadExit, Connects
  <2>5. CASE Break
    BY <1>0, <2>1, <2>5 DEF Break, S!PeerLost, Connects
  <2>. QED  BY <1>4, <2>2, <2>3, <2>4, <2>5 DEF Connection, NetworkFails
<1>5. CASE ServerReads
  <2>1. PICK m \in {Head(outbox) : i \in 1 .. Len(outbox)} :
          /\ Take(m)
          /\ \/ m.prim = "FloorRequest" /\ \E g \in setup.decisions :
                                             S!HandleFloorRequest(Me, m.floor, g)
             \/ m.prim = "FloorRelease" /\ S!ReleaseByFloorID(Me, m.floor)
             \/ m.prim = "FloorQuery" /\ S!HandleFloorQuery(Me, m.floor)
             \/ m.prim = "Goodbye" /\ S!HandleGoodbye(Me)
    BY <1>5 DEF ServerReads
  <2>2. /\ S!Reading(Me) /\ conn' = conn
        /\ m.prim = "Goodbye" => pc'[Me] = "goodbye"
        /\ pc'[Me] = "request" => m.prim = "FloorRequest"
    BY <1>0, <2>1 DEF S!HandleFloorRequest, S!ReleaseByFloorID,
       S!HandleFloorQuery, S!HandleGoodbye, S!StartRelease, S!Goto, S!connVars
  <2>3. NoFloors => NoFloors'
    <3>1. S!Dispatch(Me)
      <4>1. m \in Sound  BY <2>1, SeqFacts DEF Take, IInv, WiresSound
      <4>2. m.prim \in {"FloorRequest", "FloorRelease", "FloorQuery"} =>
              m.floor \in FloorIDs
        BY <4>1 DEF Sound, WellFormed
      <4>3. setup.decisions \subseteq Decisions  BY DEF IInv, AllSetups
      <4>. QED  BY <2>1, <4>2, <4>3, ClientServerAssumption DEF S!Dispatch
    <3>. QED  BY <1>1, <2>2, <3>1 DEF S!Reading
  <2>4. outbox # <<>> /\ m = Head(outbox) /\ outbox' = Tail(outbox) /\ link' = link
    BY <2>1 DEF Take
  <2>. QED  BY <2>2, <2>3, <2>4 DEF Reads, S!Reading
<1>6. CASE ServerAnswers
  <2>1. /\ S!Reading(Me) /\ outbox # <<>> /\ outbox' = Tail(outbox) /\ link' = link
        /\ Head(outbox).prim # "Goodbye"
        /\ S!Hello(Me) \/ UNCHANGED serverVars
    BY <1>6 DEF ServerAnswers
  <2>2. conn' = conn /\ pc' = pc /\ floors' = floors /\ fsm' = fsm
    BY <2>1 DEF S!Hello, serverVars
  <2>. QED  BY <2>1, <2>2 DEF Reads, S!Reading, NoFloors, P!Owns
<1>7. CASE ServerHandles
  <2>1. S!HandlerStep(Me)  BY <1>7 DEF ServerHandles, S!HandlerStep
  <2>2. pc[Me] # "read"  BY <1>0, <2>1, HandlerLabels
  <2>3. pc[Me] # "request" /\ NoFloors => NoFloors'  BY <1>1, <2>1
  <2>4. link' = link /\ outbox' = outbox
    BY <1>7 DEF ServerHandles, Reply, ErrorOrNothing, Write, wireVars
  <2>5. /\ pc'[Me] # "request"
        /\ \/ conn'[Me] = conn[Me]
           \/ conn'[Me] = "closed" /\ session'[Me] = "Disconnected"
        /\ pc[Me] \in {"goodbye", "byeBroadcast"} =>
             \/ pc'[Me] \in {"goodbye", "byeBroadcast"}
             \/ session'[Me] = "Disconnected"
    <3>. USE DEF S!Goto, S!Return, S!connVars
    <3>1. CASE S!FloorRequest(Me) \/ S!SendPending(Me) \/ S!Decide(Me)
      BY <1>0, <3>1 DEF S!FloorRequest, S!SendPending, S!Decide
    <3>2. CASE S!TellGranted(Me) \/ S!TellDenied(Me) \/ S!ReleaseFallback(Me)
      BY <1>0, <3>2 DEF S!TellGranted, S!TellDenied, S!ReleaseFallback,
                        S!StartRelease
    <3>3. CASE S!FloorRelease(Me) \/ S!TellReleased(Me) \/ S!SendBroadcast(Me)
      BY <1>0, <3>3 DEF S!FloorRelease, S!TellReleased, S!SendBroadcast
    <3>4. CASE S!ReleaseDone(Me) \/ S!AnswerQuery(Me) \/ S!GoodbyeRelease(Me)
      BY <1>0, <3>4 DEF S!ReleaseDone, S!AnswerQuery, S!GoodbyeRelease
    <3>5. CASE S!GoodbyeNotify(Me) \/ S!GoodbyeEnd(Me)
      BY <1>0, <3>5 DEF S!GoodbyeNotify, S!GoodbyeEnd
    <3>. QED  BY <2>1, <3>1, <3>2, <3>3, <3>4, <3>5 DEF S!HandlerStep
  <2>. QED  BY <2>2, <2>3, <2>4, <2>5 DEF Handles
<1>. QED  BY <1>2, <1>3, <1>4, <1>5, <1>6, <1>7 DEF ServerActs, ServerRuns

\* A Goodbye is not taken back by the server, nor a floor given to a client that
\* did not ask.
LEMMA ServerKeepsBye ==
  ASSUME IInv, ServerFacts, LinkInv, HangupInv,
         Elsewhere \/ Reads \/ Handles \/ Connects
  PROVE  /\ ~setup.breaks /\ Bye => Bye'
         /\ Unused /\ UNCHANGED <<call, frame>> => Unused'
<1>0. /\ \A p : Sent(p) <=> Has(outbox, p)
      /\ \A p : Sent(p)' <=> Has(outbox', p)
      /\ outbox \in Seq(Sound) /\ \A p : ~Has(<<>>, p)
  BY HasFacts DEF Sent, Has, IInv, WiresSound
<1>1. CASE Elsewhere
  BY <1>0, <1>1 DEF Elsewhere, Bye, Unused
<1>2. CASE Reads
  <2>1. \A p : /\ Has(outbox', p) => Has(outbox, p)
               /\ Has(outbox, p) => Head(outbox).prim = p \/ Has(outbox', p)
               /\ Head(outbox).prim = p => Has(outbox, p)
    BY <1>0, <1>2, HasFacts DEF Reads
  <2>2. Bye => Has(outbox, "Goodbye")
    BY <1>0, <1>2 DEF Reads, Bye, ServerFacts
  <2>3. Bye => Bye'  BY <1>0, <1>2, <2>1, <2>2 DEF Reads, Bye
  <2>4. Unused /\ UNCHANGED <<call, frame>> => Unused'
    BY <1>0, <1>2, <2>1 DEF Reads, Unused
  <2>. QED  BY <2>3, <2>4
<1>3. CASE Handles
  BY <1>0, <1>3 DEF Handles, Bye, Unused, ServerFacts
<1>4. CASE Connects
  <2>1. ~setup.breaks /\ Bye => Bye'
    BY <1>0, <1>4 DEF Connects, Bye, ServerFacts, LinkInv, HangupInv
  <2>2. Unused /\ UNCHANGED <<call, frame>> => Unused'
    BY <1>0, <1>4 DEF Connects, Unused
  <2>. QED  BY <2>1, <2>2
<1>. QED  BY <1>1, <1>2, <1>3, <1>4

LEMMA ServerKeeps ==
  ASSUME S!OneConnectionPerUser, IInv, P!IInv, ServerFacts, ByeInv, ServerActs
  PROVE  ByeInv'
<1>0. UNCHANGED <<clientVars, virtualVars, setup>>
  BY DEF ServerActs, ServerRuns, Keepalive, Connection, NetworkFails, Peer
<1>1. Elsewhere \/ Reads \/ Handles \/ Connects  BY ServerEffects
<1>2. /\ ~setup.breaks /\ Bye => Bye'
      /\ Unused => Unused'
  BY <1>0, <1>1, ServerKeepsBye DEF ByeInv, clientVars, virtualVars
<1>3. LinkInv'
  <2>0. UNCHANGED <<tr, connected, reader, call>>  BY <1>0 DEF clientVars
  <2>1. CASE Elsewhere  BY <2>0, <2>1 DEF Elsewhere, ByeInv, LinkInv, Idle
  <2>2. CASE Reads  BY <2>0, <2>2 DEF Reads, ByeInv, LinkInv, Idle
  <2>3. CASE Handles
    BY <2>0, <2>3 DEF Handles, ByeInv, LinkInv, Idle, ServerFacts
  <2>4. CASE Connects
    BY <2>0, <2>4 DEF Connects, ByeInv, LinkInv, Idle
  <2>. QED  BY <1>1, <2>1, <2>2, <2>3, <2>4
<1>4. HangupInv'
  <2>. SUFFICES ASSUME ~setup'.breaks
                PROVE  /\ tr' = "closed" => Bye'
                       /\ link' = "down" => Bye' \/ crashed'
                       /\ conn'[Me] = "lost" =>
                            outbox' = <<>> /\ (tr' = "closed" \/ crashed')
                       /\ \A t \in Threads :
                            /\ call'[t].op = "Disconnect"
                            /\ call'[t].at \in {"close", "return"}
                            => Bye'
    BY DEF HangupInv
  <2>0. ~setup.breaks /\ UNCHANGED <<tr, crashed, call>>  BY <1>0 DEF clientVars
  <2>1. link' = "down" => Bye' \/ crashed'
    <3>1. CASE link = "down"  BY <1>2, <2>0, <3>1 DEF ByeInv, HangupInv
    <3>2. CASE link # "down" /\ link' = "down"
      <4>1. /\ conn[Me] \in {"lost", "closed"} /\ conn'[Me] = "none"
            /\ NoFloors => NoFloors'
        BY <1>1, <2>0, <3>2 DEF Elsewhere, Reads, Handles, Connects
      <4>2. CASE conn[Me] = "closed"
        BY <3>2, <4>1, <4>2 DEF ByeInv, LinkInv, ServerFacts, Bye
      <4>3. CASE conn[Me] = "lost"
        BY <1>2, <2>0, <4>3 DEF ByeInv, HangupInv
      <4>. QED  BY <4>1, <4>2, <4>3
    <3>. QED  BY <3>1, <3>2
  <2>2. conn'[Me] = "lost" => outbox' = <<>> /\ (tr' = "closed" \/ crashed')
    BY <1>1, <2>0 DEF ByeInv, HangupInv, Elsewhere, Reads, Handles, Connects
  <2>. QED  BY <1>2, <2>0, <2>1, <2>2 DEF ByeInv, HangupInv
<1>5. WrapperInv' /\ CloseInv'
  <2>0. UNCHANGED <<tr, connected, call, mu, hasClient, vclosed, vconnected, frame,
                    setup>>
    BY <1>0 DEF clientVars, virtualVars
  <2>1. WrapperInv'
    BY <1>2, <2>0 DEF ByeInv, WrapperInv, FrameOf, BeforeConnect, Opened, Idle
  <2>2. CloseInv'  BY <1>2, <2>0 DEF ByeInv, CloseInv, Closing
  <2>. QED  BY <2>1, <2>2
<1>. QED  BY <1>3, <1>4, <1>5 DEF ByeInv

-----------------------------------------------------------------------------
(***************************************************************************)
(* The client's steps.  The server stays where it is, so that Bye and the  *)
(* floors can only change through the wires.                               *)
(***************************************************************************)

\* What a step of the client may do to the connection.
ClientMoves ==
  /\ \/ link' = link
     \/ tr = "nil" /\ link' = "up"
  /\ \/ outbox' = outbox
     \/ link = "up" /\ \E m \in Sound : outbox' = Append(outbox, m)

LEMMA ClientKeepsBye ==
  ASSUME IInv, LinkInv, ClientMoves, UNCHANGED serverVars
  PROVE  /\ Bye => Bye'
         /\ NoFloors => NoFloors'
<1>1. pc' = pc /\ session' = session /\ conn' = conn /\ floors' = floors /\ fsm' = fsm
  BY DEF serverVars
<1>2. NoFloors <=> NoFloors'  BY <1>1 DEF NoFloors, P!Owns
<1>3. Sent("Goodbye") => Sent("Goodbye")'
  <2>0. outbox \in Seq(Sound)  BY DEF IInv, WiresSound
  <2>. QED  BY <2>0, HasFacts DEF ClientMoves, Sent, Has
<1>. QED  BY <1>1, <1>2, <1>3 DEF ClientMoves, LinkInv, Bye

LEMMA StartsKeepLink ==
  ASSUME IInv, LinkInv, HangupInv, NEW t \in Threads, Starts(t),
         UNCHANGED <<serverVars, setup>>
  PROVE  ClientMoves /\ LinkInv' /\ HangupInv'
<1>0. pc' = pc /\ session' = session /\ conn' = conn  BY DEF serverVars
<1>1. call \in [Threads -> SoundCall]  BY DEF IInv, ClientSound
<1>2. CASE Dial(t)
  <2>1. ClientMoves  BY <1>2 DEF Dial, ClientMoves
  <2>2. Bye => Bye'  BY <2>1, ClientKeepsBye
  <2>3. LinkInv'  BY <1>0, <1>1, <1>2 DEF Dial, LinkInv
  <2>4. HangupInv'
    BY <1>0, <1>1, <1>2, <2>2 DEF Dial, HangupInv, LinkInv, NoCall
  <2>. QED  BY <2>1, <2>3, <2>4
<1>3. ASSUME NEW op, NEW f, NEW r, connected, Begin(t, op, f, r)
      PROVE  ClientMoves /\ LinkInv' /\ HangupInv'
  <2>1. ClientMoves  BY <1>3 DEF Begin, ClientMoves, wireVars
  <2>2. Bye => Bye'  BY <2>1, ClientKeepsBye
  <2>3. LinkInv'  BY <1>0, <1>1, <1>3 DEF Begin, LinkInv, wireVars
  <2>4. HangupInv'
    BY <1>0, <1>1, <1>3, <2>2 DEF Begin, HangupInv, wireVars
  <2>. QED  BY <2>1, <2>3, <2>4
<1>. QED  BY <1>2, <1>3 DEF Starts, Hello, Goodbye, Disconnect, RequestFloor,
          ReleaseFloor, QueryFloor

\* Steps of a call that leave the connection alone.
Plain(t) ==
  /\ UNCHANGED <<wireVars, tr, connected, crashed>> /\ reader'.at = reader.at
  /\ call[t].at # "idle" /\ call[t].op \in Waiting
  /\ call'[t].op = call[t].op /\ call'[t].at # "idle"
  /\ \A u \in Threads : u # t => call'[u] = call[u]

LEMMA PlainSteps ==
  ASSUME IInv, NEW t \in Threads,
         \/ Receive(t) \/ Timeout(t) \/ Finish(t) \/ Apply(t) \/ SetState(t)
         \/ Callback(t)
  PROVE  Plain(t)
<1>0. call \in [Threads -> SoundCall] /\ reader \in SoundReader
  BY DEF IInv, ClientSound
<1>1. call[t].op \in Waiting /\ call[t].at # "idle"
  BY <1>0 DEF SoundCall, Waiting, Receive, Timeout, Finish, Apply, SetState,
              Callback
<1>a. DOMAIN call[t] = {"op", "at", "floor", "tx", "req", "resp", "ok"}
  BY <1>0 DEF SoundCall, CallRecord
<1>2. ASSUME NEW p \in {"got", "apply", "state", "callback"}, Goto(t, p)
      PROVE  /\ call'[t].op = call[t].op /\ call'[t].at # "idle"
             /\ \A u \in Threads : u # t => call'[u] = call[u]
  BY <1>0, <1>a, <1>2 DEF Goto
<1>3. ASSUME NEW b, Return(t, b)
      PROVE  /\ call'[t].op = call[t].op /\ call'[t].at # "idle"
             /\ \A u \in Threads : u # t => call'[u] = call[u]
  BY <1>0, <1>a, <1>3 DEF Return
<1>4. CASE Receive(t)  BY <1>0, <1>a, <1>1, <1>4 DEF Receive, Plain
<1>5. CASE Timeout(t)  BY <1>1, <1>2, <1>5 DEF Timeout, Plain
<1>6. CASE Finish(t)
  <2>1. reader'.at = reader.at
    BY <1>0, <1>6 DEF Finish, SoundReader, ReaderRecord
  <2>2. (\E p \in {"apply", "state"} : Goto(t, p)) \/ (\E b : Return(t, b))
    <3>1. CASE Accepts(call[t].op, call[t].resp) /\ call[t].op = "QueryFloor"
      BY <1>6, <3>1 DEF Finish
    <3>2. CASE Accepts(call[t].op, call[t].resp) /\ call[t].op = "Hello"
      BY <1>6, <3>2 DEF Finish
    <3>3. CASE /\ Accepts(call[t].op, call[t].resp)
               /\ call[t].op \notin {"Hello", "QueryFloor"}
      BY <1>6, <3>3 DEF Finish
    <3>4. CASE ~Accepts(call[t].op, call[t].resp)  BY <1>6, <3>4 DEF Finish
    <3>. QED  BY <3>1, <3>2, <3>3, <3>4
  <2>. QED  BY <1>1, <1>2, <1>3, <1>6, <2>1, <2>2 DEF Finish, Plain
<1>7. CASE Apply(t)  BY <1>1, <1>2, <1>3, <1>7 DEF Apply, Plain
<1>8. CASE SetState(t)  BY <1>1, <1>2, <1>3, <1>8 DEF SetState, Plain
<1>9. CASE Callback(t)  BY <1>1, <1>3, <1>9 DEF Callback, Plain
<1>. QED  BY <1>4, <1>5, <1>6, <1>7, <1>8, <1>9

LEMMA ProceedsKeepLink ==
  ASSUME IInv, LinkInv, HangupInv, NEW t \in Threads, Proceeds(t), ~crashed,
         UNCHANGED <<serverVars, setup>>
  PROVE  ClientMoves /\ LinkInv' /\ HangupInv'
<1>0. pc' = pc /\ session' = session /\ conn' = conn  BY DEF serverVars
<1>1. call \in [Threads -> SoundCall] /\ outbox \in Seq(Sound)
  BY DEF IInv, ClientSound, WiresSound
<1>a. DOMAIN call[t] = {"op", "at", "floor", "tx", "req", "resp", "ok"}
  BY <1>1 DEF SoundCall, CallRecord
<1>2. CASE Plain(t)
  <2>1. ClientMoves  BY <1>2 DEF Plain, ClientMoves, wireVars
  <2>2. Bye => Bye'  BY <2>1, ClientKeepsBye
  <2>3. LinkInv'  BY <1>0, <1>2 DEF Plain, LinkInv, Idle, wireVars
  <2>4. HangupInv'
    BY <1>0, <1>2, <2>2 DEF Plain, HangupInv, wireVars, Waiting
  <2>. QED  BY <2>1, <2>3, <2>4
<1>3. CASE Ready(t) \/ StartTransport(t)
  <2>1. ClientMoves  BY <1>3 DEF Ready, StartTransport, ClientMoves, wireVars
  <2>2. Bye => Bye'  BY <2>1, ClientKeepsBye
  <2>3. /\ call[t].op = "Connect" /\ call[t].at # "idle"
        /\ call'[t].op = "Connect" /\ call'[t].at # "idle"
        /\ \A u \in Threads : u # t => call'[u] = call[u]
    BY <1>1, <1>a, <1>3 DEF Ready, StartTransport, Goto, Return, SoundCall
  <2>4. tr # "nil"  BY <2>3 DEF LinkInv, Idle
  <2>5. UNCHANGED <<wireVars, tr, crashed>> /\ reader'.at \in {reader.at, "read"}
    BY <1>3 DEF Ready, StartTransport, ReaderGoto, IInv, ClientSound, SoundReader,
                ReaderRecord
  <2>6. LinkInv'  BY <1>0, <2>4, <2>5 DEF LinkInv, wireVars
  <2>7. HangupInv'  BY <1>0, <2>2, <2>3, <2>5 DEF HangupInv, wireVars
  <2>. QED  BY <2>1, <2>6, <2>7
<1>4. CASE Send(t)
  <2>1. Request(t) \in Sound /\ call[t].at = "send"
    BY <1>1, <1>4, RequestSound DEF Send
  <2>2. ClientMoves  BY <1>4, <2>1 DEF Send, ClientMoves
  <2>3. Bye => Bye'  BY <2>2, ClientKeepsBye
  <2>4. /\ call'[t].op = call[t].op
        /\ call[t].op # "Disconnect" => call'[t].at # "idle"
        /\ \A u \in Threads : u # t => call'[u] = call[u]
    <3>1. CASE call[t].op = "Disconnect"
      BY <1>1, <1>a, <1>4, <3>1 DEF Send, Goto
    <3>2. CASE call[t].op = "Goodbye"
      BY <1>1, <1>a, <1>4, <3>2 DEF Send, Return
    <3>3. CASE call[t].op \notin {"Goodbye", "Disconnect"}
      BY <1>1, <1>a, <1>4, <3>3 DEF Send, Goto
    <3>. QED  BY <3>1, <3>2, <3>3
  <2>5. /\ UNCHANGED <<link, tr, connected, crashed, reader>> /\ tr # "nil"
        /\ outbox' = outbox \/ (tr = "open" /\ link = "up")
    BY <1>4, <2>1 DEF Send, LinkInv, Idle
  <2>6. LinkInv'  BY <1>0, <2>4, <2>5 DEF LinkInv
  <2>7. ~setup.breaks /\ call[t].op = "Disconnect" => Bye'
    <3>1. CASE tr = "open" /\ link = "up" /\ outbox' = Append(outbox, Request(t))
      <4>1. call[t].op = "Disconnect" => Request(t).prim = "Goodbye"
        BY DEF Request
      <4>2. call[t].op = "Disconnect" => Has(outbox', "Goodbye")
        BY <1>1, <2>1, <3>1, <4>1, HasFacts
      <4>. QED  BY <4>2 DEF Has, Bye, Sent
    <3>2. CASE tr = "closed" \/ link = "down"
      BY <2>3, <3>2 DEF HangupInv
    <3>. QED  BY <1>4, <2>5, <3>1, <3>2 DEF Send, LinkInv, IInv, WiresSound
  <2>8. HangupInv'
    BY <1>0, <2>3, <2>4, <2>5, <2>7 DEF HangupInv
  <2>. QED  BY <2>2, <2>6, <2>8
<1>5. CASE CloseTransport(t)
  <2>1. ClientMoves  BY <1>5 DEF CloseTransport, ClientMoves, wireVars
  <2>2. Bye => Bye'  BY <2>1, ClientKeepsBye
  <2>3. call[t].op = "Disconnect" /\ call[t].at = "close"
    BY <1>1, <1>5 DEF CloseTransport, SoundCall
  <2>4. \A u \in Threads : u # t => call'[u] = call[u]
    BY <1>1, <1>5 DEF CloseTransport, Return
  <2>5. tr # "nil"  BY <2>3 DEF LinkInv, Idle
  <2>6. LinkInv'  BY <1>0, <1>5, <2>5 DEF CloseTransport, LinkInv, wireVars
  <2>7. ~setup.breaks => Bye'  BY <2>2, <2>3 DEF HangupInv
  <2>8. HangupInv'
    BY <1>0, <1>5, <2>7 DEF CloseTransport, HangupInv, wireVars
  <2>. QED  BY <2>1, <2>6, <2>8
<1>6. CASE EndCall(t)
  <2>1. ClientMoves  BY <1>6 DEF EndCall, ClientMoves, wireVars
  <2>2. Bye => Bye'  BY <2>1, ClientKeepsBye
  <2>3. call'[t] = NoCall /\ \A u \in Threads : u # t => call'[u] = call[u]
    BY <1>1, <1>6 DEF EndCall
  <2>4. LinkInv'
    BY <1>0, <1>6, <2>3 DEF EndCall, LinkInv, Idle, NoCall, wireVars
  <2>5. HangupInv'
    BY <1>0, <1>6, <2>2, <2>3 DEF EndCall, HangupInv, NoCall, wireVars
  <2>. QED  BY <2>1, <2>4, <2>5
<1>. QED  BY <1>2, <1>3, <1>4, <1>5, <1>6, PlainSteps DEF Proceeds, CallStep

LEMMA ReaderKeepsLink ==
  ASSUME IInv, LinkInv, HangupInv, ReaderActs, ~crashed,
         UNCHANGED <<serverVars, setup>>
  PROVE  ClientMoves /\ LinkInv' /\ HangupInv'
<1>0. /\ pc' = pc /\ session' = session /\ conn' = conn
      /\ call' = call /\ link' = link /\ outbox' = outbox
  BY DEF serverVars, ReaderActs, ReaderStep, ReadMessage, Deliver, HandleMessage,
         ReaderSetState, ReadExit, ReaderCallback, OnClose, wireVars
<1>1. ClientMoves  BY <1>0 DEF ClientMoves
<1>2. Bye => Bye'  BY <1>1, ClientKeepsBye DEF ClientMoves
<1>3. reader \in SoundReader  BY DEF IInv, ClientSound
<1>a. DOMAIN reader = {"at", "msg", "to"}  BY <1>3 DEF SoundReader, ReaderRecord
<1>4. reader.at # "off" /\ tr # "nil"
  BY DEF ReaderActs, ReaderStep, ReadMessage, Deliver, HandleMessage,
         ReaderSetState, ReadExit, ReaderCallback, OnClose, LinkInv
<1>5. CASE ReadExit
  <2>1. reader'.at = "onClose" /\ tr' = "closed" /\ crashed' = crashed
    BY <1>a, <1>5 DEF ReadExit, ReaderGoto
  <2>2. ~setup.breaks => Bye'  BY <1>2, <1>5 DEF ReadExit, HangupInv
  <2>3. LinkInv'  BY <1>0, <1>4, <2>1 DEF LinkInv
  <2>4. HangupInv'  BY <1>0, <2>1, <2>2 DEF HangupInv
  <2>. QED  BY <1>1, <2>3, <2>4
<1>6. CASE OnClose
  <2>1. reader'.at = "done" /\ tr' = tr /\ crashed' = crashed /\ tr = "closed"
    BY <1>a, <1>6 DEF OnClose, ReaderGoto, LinkInv
  <2>2. LinkInv'  BY <1>0, <1>4, <2>1 DEF LinkInv
  <2>3. HangupInv'  BY <1>0, <1>2, <2>1 DEF HangupInv
  <2>. QED  BY <1>1, <2>2, <2>3
<1>7. CASE ReadMessage \/ Deliver \/ HandleMessage \/ ReaderSetState
           \/ ReaderCallback
  <2>1. tr' = tr /\ connected' = connected
    BY <1>7 DEF ReadMessage, Deliver, HandleMessage, ReaderSetState,
                ReaderCallback
  <2>2. reader'.at \notin {"onClose", "done", "off"}
    BY <1>a, <1>7 DEF ReadMessage, Deliver, HandleMessage, ReaderSetState,
                      ReaderCallback, ReaderGoto, ReadOn
  <2>3. LinkInv'  BY <1>0, <1>4, <2>1, <2>2 DEF LinkInv
  <2>4. HangupInv'  BY <1>0, <1>2, <2>1 DEF HangupInv
  <2>. QED  BY <1>1, <2>3, <2>4
<1>. QED  BY <1>5, <1>6, <1>7 DEF ReaderActs, ReaderStep

\* A step of thread t of the client, as far as the wrapper goes.
ClientEffects(t) ==
  /\ pc' = pc /\ (Bye => Bye') /\ (NoFloors => NoFloors') /\ (Opened => Opened')
  /\ call[t].op # "RequestFloor" /\ ~Sent("FloorRequest") => ~Sent("FloorRequest")'
  /\ \A u \in Threads : u # t => call'[u] = call[u]

LEMMA ClientKeeps ==
  ASSUME IInv, LinkInv, HangupInv, NEW t \in Threads, ~crashed,
         Starts(t) \/ Proceeds(t) \/ UNCHANGED <<clientVars, wireVars>>,
         UNCHANGED <<serverVars, setup>>
  PROVE  LinkInv' /\ HangupInv' /\ ClientEffects(t)
<1>0. pc' = pc /\ conn' = conn /\ session' = session  BY DEF serverVars
<1>1. call \in [Threads -> SoundCall] /\ outbox \in Seq(Sound)
  BY DEF IInv, ClientSound, WiresSound
<1>2. ClientMoves /\ LinkInv' /\ HangupInv'
  <2>1. CASE UNCHANGED <<clientVars, wireVars>>
    <3>1. ClientMoves  BY <2>1 DEF ClientMoves, wireVars
    <3>2. Bye => Bye'  BY <3>1, ClientKeepsBye
    <3>3. LinkInv'  BY <1>0, <2>1 DEF LinkInv, Idle, clientVars, wireVars
    <3>4. HangupInv'  BY <1>0, <2>1, <3>2 DEF HangupInv, clientVars, wireVars
    <3>. QED  BY <3>1, <3>3, <3>4
  <2>. QED  BY <2>1, StartsKeepLink, ProceedsKeepLink
<1>3. (Bye => Bye') /\ (NoFloors => NoFloors')  BY <1>2, ClientKeepsBye
<1>4. \A u \in Threads : u # t => call'[u] = call[u]
  <2>1. CASE Starts(t)
    BY <1>1, <2>1 DEF Starts, Dial, Hello, Goodbye, Disconnect, RequestFloor,
                      ReleaseFloor, QueryFloor, Begin
  <2>2. CASE Proceeds(t)
    <3>1. CASE StartTransport(t) \/ Ready(t) \/ CloseTransport(t) \/ EndCall(t)
      BY <1>1, <3>1 DEF StartTransport, Ready, CloseTransport, EndCall, Goto, Return
    <3>2. CASE Send(t)
      <4>1. CASE call[t].op = "Disconnect"
        BY <1>1, <3>2, <4>1 DEF Send, Goto
      <4>2. CASE call[t].op = "Goodbye"
        BY <1>1, <3>2, <4>2 DEF Send, Return
      <4>3. CASE call[t].op \notin {"Goodbye", "Disconnect"}
        BY <1>1, <3>2, <4>3 DEF Send, Goto
      <4>. QED  BY <4>1, <4>2, <4>3
    <3>. QED  BY <2>2, <3>1, <3>2, PlainSteps DEF Proceeds, CallStep, Plain
  <2>. QED  BY <2>1, <2>2 DEF clientVars
<1>5. Opened => Opened'
  <2>1. CASE Starts(t)
    BY <2>1 DEF Starts, Dial, Hello, Goodbye, Disconnect, RequestFloor,
                ReleaseFloor, QueryFloor, Begin, Opened
  <2>2. CASE Proceeds(t)
    <3>1. CASE \/ StartTransport(t) \/ Ready(t) \/ CloseTransport(t)
               \/ EndCall(t) \/ Send(t)
      BY <3>1 DEF StartTransport, Ready, CloseTransport, EndCall, Send, Opened
    <3>. QED  BY <2>2, <3>1, PlainSteps DEF Proceeds, CallStep, Plain, Opened
  <2>. QED  BY <2>1, <2>2 DEF clientVars, Opened
<1>6. call[t].op # "RequestFloor" /\ ~Sent("FloorRequest") => ~Sent("FloorRequest")'
  <2>1. CASE outbox' = outbox  BY <2>1 DEF Sent
  <2>2. CASE Send(t) /\ outbox' = Append(outbox, Request(t))
    <3>1. call[t].op # "RequestFloor" => Request(t).prim # "FloorRequest"
      BY DEF Request
    <3>2. Request(t) \in Sound  BY <1>1, RequestSound
    <3>3. /\ Sent("FloorRequest") <=> Has(outbox, "FloorRequest")
          /\ Sent("FloorRequest")' <=> Has(outbox', "FloorRequest")
      BY DEF Sent, Has
    <3>. QED  BY <1>1, <2>2, <3>1, <3>2, <3>3, HasFacts
  <2>3. CASE Starts(t)
    BY <2>1, <2>3 DEF Starts, Dial, Hello, Goodbye, Disconnect, RequestFloor,
                ReleaseFloor, QueryFloor, Begin, wireVars
  <2>4. CASE Proceeds(t)
    <3>1. CASE \/ StartTransport(t) \/ Ready(t) \/ CloseTransport(t)
               \/ EndCall(t)
      BY <2>1, <3>1 DEF StartTransport, Ready, CloseTransport, EndCall, wireVars
    <3>2. CASE Send(t)  BY <2>1, <2>2, <3>2 DEF Send
    <3>. QED  BY <2>1, <2>4, <3>1, <3>2, PlainSteps
              DEF Proceeds, CallStep, Plain, wireVars
  <2>. QED  BY <2>1, <2>3, <2>4 DEF wireVars
<1>. QED  BY <1>0, <1>2, <1>3, <1>4, <1>5, <1>6 DEF ClientEffects

-----------------------------------------------------------------------------
(***************************************************************************)
(* The wrapper's steps.                                                    *)
(***************************************************************************)

\* Thread t has nothing to do with a request for a floor.
Unaware(t) == call[t].op # "RequestFloor" /\ frame[t].op # "RequestFloor"

\* Thread t has at most entered Connect or Close.
Fresh(t) ==
  /\ Idle(t) /\ frame[t].op \in {"none", "Connect", "Close"}
  /\ frame[t].at \in {"idle", "lock", "unlock"}

\* What is left to say of a step of the wrapper in thread t.
WrapperEffects(t) ==
  /\ \A u \in Threads : u # t => frame'[u] = frame[u]
  /\ mu' = mu \/ mu \in {None, t}
  /\ FrameOf(t)'
  /\ hasClient' => hasClient \/ frame'[t].at = "dial"
  /\ frame[t].at = "dial" => frame'[t].at = "dial" \/ Opened'
  /\ ~hasClient' => ~hasClient /\ (vconnected' => vconnected) /\ Fresh(t)'
  /\ Unaware(t) => Unaware(t)' \/ (hasClient' /\ ~vclosed')
  /\ Closing' => Closing \/ setup.breaks \/ Bye \/ ~hasClient

LEMMA WrapperKeeps ==
  ASSUME NEW t \in Threads, ByeInv, setup.virtual, UNCHANGED setup,
         ClientEffects(t), WrapperEffects(t)
  PROVE  WrapperInv' /\ CloseInv'
<1>0. None \notin Threads  BY NoneFacts
<1>1. \A u \in Threads : u # t => /\ call'[u] = call[u] /\ frame'[u] = frame[u]
                                  /\ Idle(u)' <=> Idle(u)
  BY DEF ClientEffects, WrapperEffects, Idle
<1>2. ASSUME NEW u \in Threads  PROVE FrameOf(u)'
  <2>1. CASE u = t  BY <2>1 DEF WrapperEffects
  <2>2. CASE u # t
    <3>1. FrameOf(u)  BY DEF ByeInv, WrapperInv
    <3>2. frame[u].at = "dial" => mu' = u
      BY <1>0, <2>2, <3>1 DEF FrameOf, WrapperEffects
    <3>3. Opened => Opened'  BY DEF ClientEffects
    <3>. QED  BY <1>1, <2>2, <3>1, <3>2, <3>3 DEF FrameOf
  <2>. QED  BY <2>1, <2>2
<1>3. ASSUME hasClient'
      PROVE  Opened' \/ \E u \in Threads : frame'[u].at = "dial"
  <2>1. CASE hasClient
    <3>1. Opened \/ \E u \in Threads : frame[u].at = "dial"
      BY <2>1 DEF ByeInv, WrapperInv
    <3>. QED  BY <1>1, <3>1 DEF ClientEffects, WrapperEffects
  <2>. QED  BY <1>3, <2>1 DEF WrapperEffects
<1>4. ASSUME Unused, hasClient' => vclosed'  PROVE Unused'
  <2>1. \A u \in Threads : Unaware(u)  BY <1>4 DEF Unused, Unaware
  <2>2. \A u \in Threads : Unaware(u)'
    BY <1>1, <1>4, <2>1 DEF WrapperEffects, Unaware
  <2>. QED  BY <1>4, <2>1, <2>2 DEF Unused, Unaware, ClientEffects
<1>5. ASSUME ~hasClient'  PROVE BeforeConnect'
  <2>1. ~hasClient /\ BeforeConnect
    BY <1>5 DEF WrapperEffects, ByeInv, WrapperInv
  <2>2. \A u \in Threads : Fresh(u)
    BY <2>1 DEF BeforeConnect, Fresh
  <2>3. \A u \in Threads : Fresh(u)'
    BY <1>1, <1>5, <2>2 DEF WrapperEffects, Fresh
  <2>. QED  BY <1>4, <1>5, <2>1, <2>3 DEF BeforeConnect, Fresh, WrapperEffects
<1>6. CloseInv'
  <2>. SUFFICES ASSUME Closing', ~setup.breaks  PROVE Bye' \/ Unused'
    BY DEF CloseInv
  <2>1. Bye \/ Unused
    BY DEF WrapperEffects, ByeInv, WrapperInv, BeforeConnect, CloseInv
  <2>2. vclosed'  BY DEF Closing
  <2>. QED  BY <1>4, <2>1, <2>2 DEF ClientEffects
<1>. QED  BY <1>2, <1>3, <1>5, <1>6 DEF WrapperInv

\* The wrapped client goes on in thread t; the wrapper waits for it.
LEMMA AdvanceKeeps ==
  ASSUME IInv, ByeInv, setup.virtual, NEW t \in Threads, ClientEffects(t),
         CallStep(t) \/ Timeout(t) \/ Ready(t) \/ Callback(t),
         UNCHANGED <<mu, hasClient, vclosed, frame>>
  PROVE  WrapperEffects(t)
<1>1. call \in [Threads -> SoundCall]  BY DEF IInv, ClientSound
<1>a. DOMAIN call[t] = {"op", "at", "floor", "tx", "req", "resp", "ok"}
  BY <1>1 DEF SoundCall, CallRecord
<1>2. /\ ~Idle(t) /\ ~Idle(t)' /\ call'[t].op = call[t].op
      /\ call'[t].op = "Connect" /\ call'[t].at = "return" => Opened'
  <2>1. CASE StartTransport(t)
    BY <1>1, <1>a, <2>1 DEF StartTransport, Goto, Idle
  <2>2. CASE Ready(t)
    BY <1>1, <1>a, <2>2 DEF Ready, Return, Idle, Opened
  <2>3. CASE CloseTransport(t)
    BY <1>1, <1>a, <2>3 DEF CloseTransport, Return, Idle, Opened
  <2>4. CASE Send(t)
    <3>0. call[t].op # "Connect"  BY <1>1, <2>4 DEF Send, SoundCall, Waiting
    <3>1. CASE call[t].op = "Disconnect"
      BY <1>1, <1>a, <2>4, <3>1 DEF Send, Goto, Idle
    <3>2. CASE call[t].op = "Goodbye"
      BY <1>1, <1>a, <2>4, <3>2 DEF Send, Return, Idle
    <3>3. CASE call[t].op \notin {"Goodbye", "Disconnect"}
      BY <1>1, <1>a, <2>4, <3>0, <3>3 DEF Send, Goto, Idle
    <3>. QED  BY <3>1, <3>2, <3>3
  <2>5. CASE Plain(t)  BY <2>5 DEF Plain, Waiting, Idle
  <2>. QED  BY <2>1, <2>2, <2>3, <2>4, <2>5, PlainSteps DEF CallStep
<1>3. FrameOf(t) /\ hasClient
  BY <1>2 DEF ByeInv, WrapperInv, BeforeConnect
<1>4. FrameOf(t)'
  BY <1>2, <1>3 DEF FrameOf, ClientEffects
<1>. QED  BY <1>2, <1>3, <1>4 DEF WrapperEffects, Unaware, Closing

\* A call of the wrapper begins or ends in thread t.
LEMMA FrameKeeps ==
  ASSUME IInv, ByeInv, setup.virtual, NEW t \in Threads, ClientEffects(t),
         FrameStep(t)
  PROVE  WrapperEffects(t)
<1>1. call \in [Threads -> SoundCall] /\ frame \in [Threads -> SoundFrame]
  BY DEF IInv, ClientSound, VirtualSound
<1>a. DOMAIN frame[t] = {"op", "at", "floor", "req", "todo"}
  BY <1>1 DEF SoundFrame, FrameRecord
<1>2. FrameOf(t) /\ (~hasClient => ~vconnected /\ Fresh(t))
  BY DEF ByeInv, WrapperInv, BeforeConnect, Fresh
<1>3. ASSUME NEW p, FrameGoto(t, p)
      PROVE  /\ frame'[t].at = p /\ frame'[t].op = frame[t].op
             /\ \A u \in Threads : u # t => frame'[u] = frame[u]
  BY <1>1, <1>a, <1>3 DEF FrameGoto
<1>4. ASSUME EndCall(t)
      PROVE  Idle(t)' /\ call'[t].op = "none"
  BY <1>1, <1>4 DEF EndCall, NoCall, Idle
<1>5. ASSUME NEW op, NEW f, NEW r, Begin(t, op, f, r)
      PROVE  call'[t].op = op /\ call'[t].at = "send" /\ ~Idle(t)'
  BY <1>1, <1>5 DEF Begin, Idle
<1>6. CASE VDial(t)
  <2>1. call'[t].op = "Connect" /\ call'[t].at = "start"
    BY <1>1, <1>6 DEF VDial, Dial, NoCall
  <2>2. /\ frame'[t].at = "dial" /\ frame'[t].op = "Connect" /\ mu' = t
        /\ \A u \in Threads : u # t => frame'[u] = frame[u]
        /\ mu = None /\ hasClient' /\ vclosed' = vclosed
        /\ frame[t].op = "Connect" /\ frame[t].at = "lock"
    BY <1>3, <1>6 DEF VDial
  <2>3. FrameOf(t)'  BY <2>1, <2>2 DEF FrameOf
  <2>. QED  BY <2>1, <2>2, <2>3 DEF WrapperEffects, Unaware, Closing, Idle
<1>7. CASE VReady(t)  BY <1>7, AdvanceKeeps DEF VReady
<1>8. CASE VDialled(t)
  <2>1. Opened /\ hasClient
    BY <1>2, <1>8 DEF VDialled, Returned, FrameOf, Fresh
  <2>2. /\ frame'[t].at = "hello" /\ frame'[t].op = frame[t].op
        /\ \A u \in Threads : u # t => frame'[u] = frame[u]
        /\ UNCHANGED <<mu, hasClient, vclosed, vconnected>>
        /\ Idle(t)' /\ call'[t].op = "none" /\ frame[t].at = "dial"
    BY <1>3, <1>4, <1>8 DEF VDialled
  <2>3. FrameOf(t)'  BY <1>2, <2>2 DEF FrameOf
  <2>. QED  BY <2>1, <2>2, <2>3 DEF WrapperEffects, Unaware, Closing,
            ClientEffects
<1>9. CASE VHello(t)
  <2>1. UNCHANGED <<mu, hasClient, vclosed, vconnected>> /\ frame[t].at = "hello"
    BY <1>9 DEF VHello
  <2>2. frame[t].op # "Close" /\ hasClient  BY <1>2, <2>1 DEF FrameOf, Fresh
  <2>3. CASE Hello(t) /\ frame' = frame
    <3>1. call'[t].op = "Hello" /\ call'[t].at = "send"
      BY <1>5, <2>3 DEF Hello
    <3>2. FrameOf(t)'  BY <1>2, <2>1, <2>2, <2>3, <3>1 DEF FrameOf
    <3>. QED  BY <2>1, <2>2, <2>3, <3>1, <3>2 DEF WrapperEffects, Unaware, Closing
  <2>4. CASE FrameGoto(t, "hangup") /\ call' = call /\ Idle(t)
    <3>1. FrameOf(t)'  BY <1>2, <1>3, <2>1, <2>2, <2>4 DEF FrameOf, Idle
    <3>. QED  BY <1>3, <2>1, <2>2, <2>4, <3>1 DEF WrapperEffects, Unaware, Closing
  <2>. QED  BY <1>9, <2>3, <2>4 DEF VHello, clientVars
<1>10. CASE VHelloDone(t)
  <2>1. /\ UNCHANGED <<mu, hasClient, vclosed, vconnected>> /\ frame[t].at = "hello"
        /\ Idle(t)' /\ call'[t].op = "none"
    BY <1>4, <1>10 DEF VHelloDone
  <2>2. frame[t].op # "Close" /\ hasClient  BY <1>2, <2>1 DEF FrameOf, Fresh
  <2>3. /\ frame'[t].at \in {"unlock", "hangup"} /\ frame'[t].op = frame[t].op
        /\ \A u \in Threads : u # t => frame'[u] = frame[u]
    BY <1>3, <1>10 DEF VHelloDone
  <2>4. FrameOf(t)'  BY <2>1, <2>2, <2>3 DEF FrameOf
  <2>. QED  BY <2>1, <2>2, <2>3, <2>4 DEF WrapperEffects, Unaware, Closing
<1>11. CASE VHangup(t)
  <2>1. UNCHANGED <<mu, hasClient, vclosed, vconnected>> /\ frame[t].at = "hangup"
    BY <1>11 DEF VHangup
  <2>2. hasClient  BY <1>2, <2>1 DEF Fresh
  <2>3. CASE Disconnect(t) /\ frame' = frame
    <3>1. call'[t].op = "Disconnect" /\ call'[t].at = "send"
      BY <1>5, <2>3 DEF Disconnect
    <3>2. FrameOf(t)'
      BY <1>2, <2>1, <2>3, <3>1 DEF FrameOf, ClientEffects
    <3>. QED  BY <2>1, <2>2, <2>3, <3>1, <3>2 DEF WrapperEffects, Unaware, Closing
  <2>4. CASE ~connected /\ FrameGoto(t, "unlock") /\ call' = call /\ Idle(t)
    <3>1. FrameOf(t)'  BY <1>2, <1>3, <2>1, <2>4 DEF FrameOf, Idle
    <3>2. frame[t].op = "Close" => setup.breaks \/ Bye
      BY <1>2, <2>1, <2>4 DEF FrameOf, Opened, ByeInv, HangupInv
    <3>. QED  BY <1>3, <2>1, <2>2, <2>4, <3>1, <3>2
              DEF WrapperEffects, Unaware, Closing
  <2>. QED  BY <1>11, <2>3, <2>4 DEF VHangup, clientVars
<1>12. CASE VHangupDone(t)
  <2>1. /\ UNCHANGED <<mu, hasClient, vclosed, vconnected>> /\ frame[t].at = "hangup"
        /\ Idle(t)' /\ call'[t].op = "none" /\ call[t].at = "return"
        /\ frame'[t].at = "unlock" /\ frame'[t].op = frame[t].op
        /\ \A u \in Threads : u # t => frame'[u] = frame[u]
    BY <1>3, <1>4, <1>12 DEF VHangupDone, Returned
  <2>2. hasClient  BY <1>2, <2>1 DEF Fresh
  <2>3. setup.breaks \/ Bye  BY <1>2, <2>1 DEF FrameOf, Idle, ByeInv, HangupInv
  <2>4. FrameOf(t)'  BY <2>1 DEF FrameOf
  <2>. QED  BY <2>1, <2>2, <2>3, <2>4 DEF WrapperEffects, Unaware
<1>13. CASE VReturn(t)
  <2>1. /\ UNCHANGED <<hasClient, vclosed, vconnected>> /\ frame[t].at = "unlock"
        /\ call' = call /\ (mu' = mu \/ mu = t)
        /\ frame'[t] = NoFrame /\ \A u \in Threads : u # t => frame'[u] = frame[u]
    BY <1>1, <1>13 DEF VReturn, FrameEnd, clientVars
  <2>2. frame'[t].op = "none" /\ frame'[t].at = "idle"  BY <2>1 DEF NoFrame
  <2>3. Idle(t) /\ Idle(t)'  BY <1>2, <2>1 DEF FrameOf, Idle
  <2>4. FrameOf(t)'  BY <2>1, <2>2, <2>3 DEF FrameOf, Idle
  <2>. QED  BY <1>2, <2>1, <2>2, <2>3, <2>4 DEF WrapperEffects, Unaware, Closing,
            Fresh
<1>14. CASE VRequestSend(t)
  <2>1. /\ UNCHANGED <<hasClient, vclosed, vconnected>>
        /\ frame[t].op = "RequestFloor" /\ frame[t].at = "lock"
        /\ mu = None
    BY <1>14 DEF VRequestSend
  <2>2. hasClient /\ Idle(t)  BY <1>2, <2>1 DEF Fresh, FrameOf
  <2>3. /\ frame'[t].op = "RequestFloor" /\ frame'[t].at \in {"request", "unlock"}
        /\ \A u \in Threads : u # t => frame'[u] = frame[u]
        /\ frame'[t].at = "unlock" => Idle(t)'
        /\ call'[t].op = "Connect" => call'[t].at # "return"
    BY <1>3, <1>5, <1>14, <2>1, <2>2 DEF VRequestSend, RequestFloor, clientVars, Idle
  <2>4. FrameOf(t)'  BY <2>3 DEF FrameOf
  <2>. QED  BY <2>1, <2>2, <2>3, <2>4 DEF WrapperEffects, Unaware, Closing
<1>15. CASE VRequestDone(t)
  <2>1. /\ UNCHANGED <<mu, hasClient, vclosed, vconnected>>
        /\ frame[t].at = "request"
        /\ Idle(t)' /\ call'[t].op = "none"
        /\ frame'[t].at = "unlock" /\ frame'[t].op = frame[t].op
        /\ \A u \in Threads : u # t => frame'[u] = frame[u]
    BY <1>3, <1>4, <1>15 DEF VRequestDone
  <2>2. hasClient /\ frame[t].op # "Close"  BY <1>2, <2>1 DEF Fresh, FrameOf
  <2>3. FrameOf(t)'  BY <2>1, <2>2 DEF FrameOf
  <2>. QED  BY <2>1, <2>2, <2>3 DEF WrapperEffects, Unaware, Closing
<1>16. CASE VReleaseLook(t)
  <2>1. /\ UNCHANGED <<mu, hasClient, vclosed, vconnected, call>>
        /\ frame[t].op \in {"ReleaseFloor", "ReleaseAllFloors"}
        /\ frame[t].at = "lock"
        /\ frame'[t].at = "release" /\ frame'[t].op = frame[t].op
        /\ \A u \in Threads : u # t => frame'[u] = frame[u]
    BY <1>1, <1>a, <1>16 DEF VReleaseLook, clientVars
  <2>2. hasClient /\ Idle(t)  BY <1>2, <2>1 DEF Fresh, FrameOf
  <2>3. FrameOf(t)'  BY <1>2, <2>1, <2>2 DEF FrameOf, Idle
  <2>. QED  BY <2>1, <2>2, <2>3 DEF WrapperEffects, Unaware, Closing
<1>17. CASE VReleaseNext(t)
  <2>1. /\ UNCHANGED <<mu, hasClient, vclosed, vconnected>>
        /\ frame[t].at = "release" /\ Idle(t)
        /\ frame'[t].at = "release" /\ frame'[t].op = frame[t].op
        /\ \A u \in Threads : u # t => frame'[u] = frame[u]
    BY <1>1, <1>a, <1>17 DEF VReleaseNext
  <2>2. hasClient /\ frame[t].op # "Close"  BY <1>2, <2>1 DEF Fresh, FrameOf
  <2>3. /\ call'[t].op \in {call[t].op, "ReleaseFloor"}
        /\ call'[t].at # "return"
    BY <1>5, <1>17, <2>1 DEF VReleaseNext, ReleaseFloor, clientVars, Idle
  <2>4. FrameOf(t)'  BY <2>1, <2>2, <2>3 DEF FrameOf
  <2>. QED  BY <2>1, <2>2, <2>3, <2>4 DEF WrapperEffects, Unaware, Closing
<1>18. CASE VReleaseReturned(t)
  <2>1. /\ UNCHANGED <<mu, hasClient, vclosed, vconnected, frame>>
        /\ frame[t].at = "release" /\ Idle(t)' /\ call'[t].op = "none"
    BY <1>4, <1>18 DEF VReleaseReturned, virtualVars
  <2>2. hasClient /\ frame[t].op # "Close"  BY <1>2, <2>1 DEF Fresh, FrameOf
  <2>3. FrameOf(t)'  BY <2>1, <2>2 DEF FrameOf
  <2>. QED  BY <2>1, <2>2, <2>3 DEF WrapperEffects, Unaware, Closing
<1>19. CASE VReleaseDone(t)
  <2>1. /\ UNCHANGED <<mu, hasClient, vclosed, vconnected, call>>
        /\ frame[t].at = "release" /\ Idle(t)
        /\ frame'[t].at = "unlock" /\ frame'[t].op = frame[t].op
        /\ \A u \in Threads : u # t => frame'[u] = frame[u]
    BY <1>3, <1>19 DEF VReleaseDone, clientVars
  <2>2. hasClient /\ frame[t].op # "Close"  BY <1>2, <2>1 DEF Fresh, FrameOf
  <2>3. FrameOf(t)'  BY <1>2, <2>1, <2>2 DEF FrameOf, Idle
  <2>. QED  BY <2>1, <2>2, <2>3 DEF WrapperEffects, Unaware, Closing
<1>20. CASE VCloseLook(t)
  <2>1. /\ UNCHANGED <<mu, hasClient, vclosed, vconnected, call>>
        /\ frame[t].op = "Close" /\ frame[t].at = "lock" /\ mu = None
        /\ frame'[t].at = IF hasClient THEN "hangup" ELSE "unlock"
        /\ frame'[t].op = "Close"
        /\ \A u \in Threads : u # t => frame'[u] = frame[u]
    BY <1>3, <1>20 DEF VCloseLook, clientVars
  <2>2. hasClient => Opened
    <3>1. \A u \in Threads : frame[u].at # "dial"
      BY <2>1, NoneFacts DEF ByeInv, WrapperInv, FrameOf
    <3>. QED  BY <3>1 DEF ByeInv, WrapperInv
  <2>3. Idle(t) /\ Idle(t)'  BY <1>2, <2>1 DEF FrameOf, Idle
  <2>4. FrameOf(t)'
    BY <2>1, <2>2, <2>3 DEF FrameOf, ClientEffects, Idle
  <2>5. Closing' => ~hasClient  BY <2>1 DEF Closing
  <2>. QED  BY <1>2, <2>1, <2>2, <2>3, <2>4, <2>5 DEF WrapperEffects, Unaware, Fresh
<1>21. CASE VCallback(t)  BY <1>21, AdvanceKeeps DEF VCallback, OnFloor
<1>. QED  BY <1>6, <1>7, <1>8, <1>9, <1>10, <1>11, <1>12, <1>13, <1>14, <1>15,
             <1>16, <1>17, <1>18, <1>19, <1>20, <1>21 DEF FrameStep

\* The application enters a method of the wrapper.
LEMMA EnterKeeps ==
  ASSUME IInv, ByeInv, setup.virtual, NEW t \in Threads, ClientEffects(t),
         VirtualCall(t) \/ VClose(t)
  PROVE  WrapperEffects(t)
<1>1. frame \in [Threads -> SoundFrame]  BY DEF IInv, VirtualSound
<1>2. call' = call /\ frame[t] = NoFrame
  BY DEF VirtualCall, VClose, VConnect, VReleaseAllFloors, VRequestFloor,
         VReleaseFloor, Enter, clientVars
<1>3. Idle(t) /\ Idle(t)'
  <2>1. frame[t].at = "idle"  BY <1>2 DEF NoFrame
  <2>. QED  BY <1>2, <2>1 DEF ByeInv, WrapperInv, FrameOf, Idle
<1>4. ASSUME NEW op, NEW f, Enter(t, op, "lock", f)
      PROVE  /\ frame'[t].op = op /\ frame'[t].at = "lock"
             /\ \A u \in Threads : u # t => frame'[u] = frame[u]
  BY <1>1, <1>4 DEF Enter, NoFrame
<1>5. /\ frame'[t].at = "lock"
      /\ \A u \in Threads : u # t => frame'[u] = frame[u]
      /\ UNCHANGED <<mu, hasClient, vconnected>>
  <2>1. CASE VConnect(t) \/ VClose(t)
    BY <1>4, <2>1 DEF VConnect, VClose
  <2>2. CASE VReleaseAllFloors(t) \/ \E f \in FloorIDs : VRequestFloor(t, f)
    BY <1>4, <2>2 DEF VReleaseAllFloors, VRequestFloor
  <2>3. ASSUME NEW r \in ReqIDs, VReleaseFloor(t, r)
        PROVE  /\ frame'[t].at = "lock"
               /\ \A u \in Threads : u # t => frame'[u] = frame[u]
               /\ UNCHANGED <<mu, hasClient, vconnected>>
    <3>1. frame'[t] = [NoFrame EXCEPT !.op = "ReleaseFloor", !.at = "lock",
                                      !.req = r]
      BY <1>1, <2>3 DEF VReleaseFloor
    <3>2. frame'[t].at = "lock"  BY <3>1 DEF NoFrame
    <3>. QED  BY <1>1, <2>3, <3>2 DEF VReleaseFloor
  <2>. QED  BY <2>1, <2>2, <2>3 DEF VirtualCall
<1>6. FrameOf(t)'  BY <1>3, <1>5 DEF FrameOf, Idle
<1>7. CASE VConnect(t)
  <2>1. frame'[t].op = "Connect" /\ ~vclosed'  BY <1>4, <1>7 DEF VConnect
  <2>. QED  BY <1>2, <1>3, <1>5, <1>6, <2>1 DEF WrapperEffects, Unaware, Closing,
            Fresh, NoFrame
<1>8. CASE VClose(t)
  <2>1. frame'[t].op = "Close"  BY <1>4, <1>8 DEF VClose
  <2>2. ~Closing'  BY <1>5, <2>1 DEF Closing
  <2>. QED  BY <1>2, <1>3, <1>5, <1>6, <2>1, <2>2 DEF WrapperEffects, Unaware,
            Fresh, NoFrame
<1>9. CASE Usable /\ vclosed' = vclosed
  <2>1. ~vclosed' /\ hasClient'
    BY <1>5, <1>9 DEF Usable, ByeInv, WrapperInv, BeforeConnect
  <2>. QED  BY <1>2, <1>5, <1>6, <2>1 DEF WrapperEffects, Closing, NoFrame
<1>. QED  BY <1>7, <1>8, <1>9 DEF VirtualCall, VReleaseAllFloors, VRequestFloor,
          VReleaseFloor

-----------------------------------------------------------------------------
(***************************************************************************)
(* All steps together.                                                     *)
(***************************************************************************)

LEMMA PlainClientKeeps ==
  ASSUME ByeInv, ~setup.virtual, UNCHANGED <<virtualVars, setup>>
  PROVE  WrapperInv' /\ CloseInv'
BY DEF ByeInv, WrapperInv, CloseInv, virtualVars

LEMMA ThreadKeeps ==
  ASSUME IInv, ByeInv, NEW t \in Threads, ~crashed,
         ApplicationCall(t) \/ ThreadStep(t),
         UNCHANGED <<serverVars, setup>>
  PROVE  ByeInv'
<1>1. ASSUME Starts(t) \/ Proceeds(t) \/ UNCHANGED <<clientVars, wireVars>>
      PROVE  LinkInv' /\ HangupInv' /\ ClientEffects(t)
  BY <1>1, ClientKeeps DEF ByeInv
<1>2. CASE ~setup.virtual
  <2>1. UNCHANGED virtualVars /\ (Starts(t) \/ Proceeds(t))
    BY <1>2 DEF ApplicationCall, ThreadStep, Starts, Proceeds
  <2>. QED  BY <1>1, <1>2, <2>1, PlainClientKeeps DEF ByeInv
<1>3. CASE setup.virtual
  <2>1. CASE VirtualCall(t) \/ VClose(t)
    <3>1. UNCHANGED <<clientVars, wireVars>>
      BY <2>1 DEF VirtualCall, VClose, VConnect, VReleaseAllFloors,
                  VRequestFloor, VReleaseFloor
    <3>. QED  BY <1>1, <1>3, <2>1, <3>1, EnterKeeps, WrapperKeeps DEF ByeInv
  <2>2. CASE (CallStep(t) \/ Timeout(t)) /\ UNCHANGED virtualVars
    BY <1>1, <1>3, <2>2, AdvanceKeeps, WrapperKeeps DEF Proceeds, virtualVars, ByeInv
  <2>3. CASE FrameStep(t)
    <3>1. Starts(t) \/ Proceeds(t) \/ UNCHANGED <<clientVars, wireVars>>
      BY <2>3, FrameStepSound DEF IInv
    <3>. QED  BY <1>1, <1>3, <2>3, <3>1, FrameKeeps, WrapperKeeps DEF ByeInv
  <2>. QED  BY <1>3, <2>1, <2>2, <2>3 DEF ApplicationCall, ThreadStep
<1>. QED  BY <1>2, <1>3

LEMMA ReaderKeeps ==
  ASSUME IInv, ByeInv, ~crashed, ReadLoop, UNCHANGED <<serverVars, setup>>
  PROVE  ByeInv'
<1>1. ReaderActs
  BY DEF ReadLoop, ReaderActs, VReaderCallback, VOnClose
<1>2. ClientMoves /\ LinkInv' /\ HangupInv'
  BY <1>1, ReaderKeepsLink DEF ByeInv
<1>3. (Bye => Bye') /\ (NoFloors => NoFloors')
  BY <1>2, ClientKeepsBye DEF ByeInv
<1>4. /\ pc' = pc /\ call' = call /\ outbox' = outbox
      /\ Opened => Opened'
  <2>1. pc' = pc /\ call' = call /\ outbox' = outbox
    BY <1>1 DEF serverVars, ReaderActs, ReaderStep, ReadMessage, Deliver,
       HandleMessage, ReaderSetState, ReadExit, ReaderCallback, OnClose, wireVars
  <2>2. CASE OnClose  BY <2>1, <2>2 DEF OnClose, ByeInv, LinkInv, Opened
  <2>3. CASE ~OnClose
    BY <1>1, <2>1, <2>3 DEF ReaderActs, ReaderStep, ReadMessage, Deliver,
       HandleMessage, ReaderSetState, ReadExit, ReaderCallback, Opened
  <2>. QED  BY <2>1, <2>2, <2>3
<1>5. UNCHANGED <<mu, hasClient, vclosed, frame>> /\ (vconnected' => vconnected)
  BY DEF ReadLoop, VReaderCallback, VOnClose, OnFloor, virtualVars
<1>6. Unused => Unused'
  BY <1>3, <1>4, <1>5 DEF Unused, Sent
<1>7. WrapperInv'
  BY <1>4, <1>5, <1>6 DEF ByeInv, WrapperInv, FrameOf, BeforeConnect, Idle
<1>8. CloseInv'  BY <1>3, <1>5, <1>6 DEF ByeInv, CloseInv, Closing
<1>. QED  BY <1>2, <1>7, <1>8 DEF ByeInv

LEMMA NextKeeps ==
  ASSUME S!OneConnectionPerUser, IInv, P!IInv, ServerFacts, ByeInv, [Next]_vars
  PROVE  ByeInv'
<1>1. CASE UNCHANGED vars
  <2>1. UNCHANGED <<clientVars, virtualVars, wireVars, serverVars, setup>>
    BY <1>1 DEF vars
  <2>2. UNCHANGED <<tr, connected, reader, call, crashed, mu, hasClient, vclosed,
                    vconnected, frame, link, outbox, conn, pc, session, floors,
                    fsm, setup>>
    BY <2>1 DEF clientVars, virtualVars, wireVars, serverVars
  <2>3. (Bye' <=> Bye) /\ (NoFloors' <=> NoFloors)
        /\ (Sent("FloorRequest")' <=> Sent("FloorRequest"))
    BY <2>2 DEF Bye, NoFloors, Sent, P!Owns
  <2>4. Unused' <=> Unused  BY <2>2, <2>3 DEF Unused
  <2>5. LinkInv' /\ HangupInv'
    BY <2>2, <2>3 DEF ByeInv, LinkInv, HangupInv, Idle
  <2>6. WrapperInv' /\ CloseInv'
    BY <2>2, <2>3, <2>4 DEF ByeInv, WrapperInv, CloseInv, Closing, FrameOf,
       BeforeConnect, Opened, Idle
  <2>. QED  BY <2>5, <2>6 DEF ByeInv
<1>2. CASE ReaderRuns  BY <1>2, ReaderKeeps DEF ReaderRuns
<1>3. ASSUME NEW t \in setup.threads, Calls(t) \/ ThreadRuns(t)
      PROVE  ByeInv'
  <2>1. t \in Threads  BY <1>3 DEF IInv, AllSetups
  <2>. QED  BY <1>3, <2>1, ThreadKeeps DEF Calls, ThreadRuns
<1>4. CASE ServerActs  BY <1>4, ServerKeeps
<1>. QED  BY <1>1, <1>2, <1>3, <1>4 DEF Next, ServerActs

LEMMA InitKeeps == Init => ByeInv
<1>. SUFFICES ASSUME Init  PROVE ByeInv  OBVIOUS
<1>0. Me \in Conns /\ Nil \notin Cells  BY ClientServerAssumption
<1>1. /\ link = "none" /\ outbox = <<>> /\ tr = "nil" /\ connected = FALSE
      /\ reader.at = "off" /\ crashed = FALSE
      /\ \A t \in Threads : call[t].op = "none" /\ call[t].at = "idle"
  BY DEF Init, ClientInit, NoCall
<1>2. /\ hasClient = FALSE /\ vclosed = FALSE /\ vconnected = FALSE
      /\ \A t \in Threads : frame[t].op = "none" /\ frame[t].at = "idle"
  BY DEF Init, VirtualInit, NoFrame
<1>3. /\ conn[Me] = "none" /\ pc[Me] = "read"
      /\ \A f \in FloorIDs : floors[f] = Nil
  BY <1>0 DEF Init, S!Init
<1>4. NoFloors  BY <1>3 DEF NoFloors, P!Owns
<1>5. Unused  BY <1>1, <1>2, <1>3, <1>4 DEF Unused, Sent
<1>6. LinkInv /\ HangupInv  BY <1>1, <1>3 DEF LinkInv, HangupInv, Idle
<1>7. WrapperInv /\ CloseInv
  BY <1>1, <1>2, <1>5 DEF WrapperInv, CloseInv, Closing, FrameOf, BeforeConnect, Idle
<1>. QED  BY <1>6, <1>7 DEF ByeInv

\* Once Close has returned and the connection is gone, on a network that did not
\* break it, the user of the virtual client has no floor, pending or granted:
\* the Goodbye that Close sends makes up for the ReleaseAllFloors it loses to its
\* own closed flag (virtual/client.go:432-437).  Holds where users are not shared
\* between connections and the operator leaves the floors alone.
THEOREM CloseGivesBack ==
  ASSUME S!OneConnectionPerUser, S!HandsOff
  PROVE  Spec => []CloseFreesFloors
<1>1. Spec => [](IInv /\ P!IInv /\ ServerFacts)  BY ServerFactsHold
<1>2. Init => ByeInv  BY InitKeeps
<1>3. IInv /\ P!IInv /\ ServerFacts /\ ByeInv /\ [Next]_vars => ByeInv'
  BY NextKeeps
<1>4. ServerFacts /\ ByeInv => CloseFreesFloors
  <2>. SUFFICES ASSUME ServerFacts, ByeInv, vclosed, ~setup.breaks,
                       \A t \in Threads : frame[t] = NoFrame,
                       conn[Me] = "none", link = "down",
                       NEW f \in FloorIDs, floors[f] # Nil
                PROVE  fsm[floors[f]].owner # User
    BY DEF CloseFreesFloors
  <2>1. setup.virtual  BY DEF ByeInv, WrapperInv
  <2>2. Closing  BY DEF Closing, NoFrame
  <2>3. Bye \/ Unused  BY <2>1, <2>2 DEF ByeInv, CloseInv
  <2>4. ~Sent("Goodbye")  BY DEF ByeInv, LinkInv, Sent
  <2>5. NoFloors  BY <2>3, <2>4 DEF Bye, Unused, ServerFacts
  <2>. QED  BY <2>5 DEF NoFloors, P!Owns
<1>. QED  BY <1>1, <1>2, <1>3, <1>4, PTL DEF Spec

=============================================================================
