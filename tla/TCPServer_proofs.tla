--------------------------- MODULE TCPServer_proofs ---------------------------
(***************************************************************************)
(* Theorems about TCPServer, for every value of its constants.             *)
(***************************************************************************)
EXTENDS TCPServer, TLAPS

\* The counter's next value is an ID (nextTxID, truncated to uint16).
LEMMA NextIDType ==
  ASSUME nextTxID \in RequestIDs
  PROVE  NextID \in RequestIDs
BY ConstantsAssumption DEF NextID, RequestIDs

LEMMA UserTypes ==
  ASSUME NEW c \in Conns
  PROVE  UserOf[c] \in Users
BY ConstantsAssumption DEF Users

\* 0 is a request ID: FloorRequestID of a free floor.
LEMMA ZeroID == 0 \in RequestIDs
BY ConstantsAssumption DEF RequestIDs

LEMMA NoJobType == NoJob \in Jobs
BY ZeroID DEF NoJob, Jobs

\* A handler's loops take elements out of their snapshots.
LEMMA JobUpdates ==
  ASSUME NEW j \in Jobs
  PROVE  /\ \A o : [j EXCEPT !.todo = j.todo \ {o}] \in Jobs
         /\ \A d : [j EXCEPT !.dest = j.dest \ {d}] \in Jobs
         /\ \A D \in SUBSET Conns : [j EXCEPT !.dest = D] \in Jobs
<1>1. \A o : [j EXCEPT !.todo = j.todo \ {o}] \in Jobs  BY DEF Jobs
<1>2. \A d : [j EXCEPT !.dest = j.dest \ {d}] \in Jobs  BY DEF Jobs
<1>3. \A D \in SUBSET Conns : [j EXCEPT !.dest = D] \in Jobs  BY DEF Jobs
<1>. QED  BY <1>1, <1>2, <1>3

\* What each FloorStateMachine method returns is again a floor.
LEMMA FloorTypes ==
  ASSUME NEW m \in Floors
  PROVE  /\ \A u \in Users, r \in RequestIDs : Request(m, u, r) \in Floors
         /\ Grant(m) \in Floors
         /\ Deny(m) \in Floors
         /\ Release(m) \in Floors
         /\ Revoke(m) \in Floors
BY ZeroID DEF Floors, FloorStates, Request, Grant, Deny, Release, Revoke

LEMMA NewFloorType ==
  ASSUME NEW f \in FloorIDs \cup {Nil}
  PROVE  NewFloorStateMachine(f) \in Floors
BY ZeroID DEF Floors, FloorStates, NewFloorStateMachine

LEMMA SendType ==
  ASSUME TypeOK, NEW c \in Conns, NEW f, NEW st \in FloorStates, Send(c, f, st)
  PROVE  told' \in [Conns -> [FloorIDs -> FloorStates \cup {"nothing"}]]
BY DEF TypeOK, Send

LEMMA ReturnType ==
  ASSUME TypeOK, NEW c \in Conns, Return(c)
  PROVE  pc' \in [Conns -> Labels] /\ job' \in [Conns -> Jobs]
BY NoJobType DEF TypeOK, Return, Goto, Labels

-----------------------------------------------------------------------------
(***************************************************************************)
(* Type correctness.                                                       *)
(***************************************************************************)

LEMMA InitType == Init => TypeOK
BY ZeroID, NoJobType, NewFloorType
DEF Init, TypeOK, Labels, SessionStates

LEMMA ConnectionType ==
  ASSUME TypeOK, NEW c \in Conns, ConnectionStep(c) \/ Hello(c)
  PROVE  TypeOK'
<1>1. CASE Accept(c)     BY <1>1 DEF TypeOK, Accept
<1>2. CASE PeerLost(c)   BY <1>2 DEF TypeOK, PeerLost
<1>3. CASE ReadExit(c)   BY <1>3 DEF TypeOK, ReadExit, SessionStates
<1>4. CASE Keepalive(c)  BY <1>4, NextIDType DEF TypeOK, Keepalive
<1>5. CASE Hello(c)      BY <1>5 DEF TypeOK, Hello, SessionStates
<1>. QED  BY <1>1, <1>2, <1>3, <1>4, <1>5 DEF ConnectionStep

LEMMA FloorRequestType ==
  ASSUME TypeOK, NEW c \in Conns,
         \/ \E f \in FloorIDs, g \in Decisions : HandleFloorRequest(c, f, g)
         \/ FloorRequest(c) \/ SendPending(c) \/ Decide(c)
         \/ TellGranted(c) \/ TellDenied(c)
  PROVE  TypeOK'
<1>1. ASSUME NEW f \in FloorIDs, NEW g \in Decisions, HandleFloorRequest(c, f, g)
      PROVE  TypeOK'
  <2>1. PICK o \in Cells :
          /\ \/ floors[f] = o /\ UNCHANGED floorVars
             \/ NewFloor(f, o)
          /\ job' = [job EXCEPT ![c] =
               [NoJob EXCEPT !.floor = o, !.req = NextID, !.grant = g]]
    BY <1>1 DEF HandleFloorRequest
  <2>. NewFloorStateMachine(f) \in Floors  BY NewFloorType
  <2>2. floors' \in [FloorIDs -> Cells \cup {Nil}] /\ fsm' \in [Cells -> Floors]
    BY <2>1 DEF TypeOK, NewFloor, floorVars
  <2>3. [NoJob EXCEPT !.floor = o, !.req = NextID, !.grant = g] \in Jobs
    BY NextIDType, ConstantsAssumption DEF TypeOK, NoJob, Jobs
  <2>4. job' \in [Conns -> Jobs]  BY <2>1, <2>3 DEF TypeOK
  <2>. QED  BY <1>1, <2>2, <2>4, NextIDType
            DEF TypeOK, HandleFloorRequest, Goto, Labels, connVars, seenVars
<1>2. CASE FloorRequest(c)
  <2>1. job[c].req \in RequestIDs  BY DEF TypeOK, Jobs
  <2>a. \A m \in Floors : Request(m, UserOf[c], job[c].req) \in Floors
    BY <2>1, FloorTypes, UserTypes
  <2>2. fsm' \in [Cells -> Floors]
    BY <1>2, <2>a DEF TypeOK, FloorRequest
  <2>3. pc' \in [Conns -> Labels] /\ job' \in [Conns -> Jobs]
    BY <1>2, ReturnType DEF TypeOK, FloorRequest, Goto, Labels
  <2>. QED  BY <1>2, <2>2, <2>3 DEF TypeOK, FloorRequest, connVars, seenVars
<1>3. CASE SendPending(c)
  <2>1. told' \in [Conns -> [FloorIDs -> FloorStates \cup {"nothing"}]]
    BY <1>3, SendType DEF SendPending, FloorStates
  <2>. QED  BY <1>3, <2>1
            DEF TypeOK, SendPending, Goto, Labels, connVars, floorVars
<1>4. CASE Decide(c)
  <2>1. fsm' \in [Cells -> Floors]
    BY <1>4, FloorTypes DEF TypeOK, Decide
  <2>2. pc' \in [Conns -> Labels] /\ job' \in [Conns -> Jobs]
    BY <1>4, ReturnType DEF TypeOK, Decide, Goto, Labels
  <2>. QED  BY <1>4, <2>1, <2>2 DEF TypeOK, Decide, connVars, seenVars
<1>5. CASE TellGranted(c)
  <2>1. told' \in [Conns -> [FloorIDs -> FloorStates \cup {"nothing"}]]
    BY <1>5, SendType DEF TellGranted, FloorStates
  <2>2. pc' \in [Conns -> Labels] /\ job' \in [Conns -> Jobs]
    BY <1>5, ReturnType DEF TellGranted
  <2>3. active' \in [FloorIDs -> SUBSET Users]
    BY <1>5, UserTypes DEF TypeOK, TellGranted
  <2>. QED  BY <1>5, <2>1, <2>2, <2>3
            DEF TypeOK, TellGranted, SessionStates, floorVars
<1>6. CASE TellDenied(c)
  <2>1. told' \in [Conns -> [FloorIDs -> FloorStates \cup {"nothing"}]]
    BY <1>6, SendType DEF TellDenied, FloorStates
  <2>2. pc' \in [Conns -> Labels] /\ job' \in [Conns -> Jobs]
    BY <1>6, ReturnType DEF TellDenied
  <2>. QED  BY <1>6, <2>1, <2>2 DEF TypeOK, TellDenied, SessionStates, floorVars
<1>. QED  BY <1>1, <1>2, <1>3, <1>4, <1>5, <1>6

LEMMA StartReleaseType ==
  ASSUME TypeOK, NEW c \in Conns, NEW o \in Cells, StartRelease(c, o)
  PROVE  pc' \in [Conns -> Labels] /\ job' \in [Conns -> Jobs]
BY NoJobType DEF TypeOK, StartRelease, NoJob, Jobs, Goto, Labels

LEMMA FloorReleaseType ==
  ASSUME TypeOK, NEW c \in Conns,
         \/ \E f \in FloorIDs : ReleaseByFloorID(c, f)
         \/ \E r \in RequestIDs : ReleaseByRequestID(c, r)
         \/ ReleaseFallback(c) \/ FloorRelease(c) \/ TellReleased(c)
         \/ SendBroadcast(c) \/ ReleaseDone(c)
  PROVE  TypeOK'
<1>1. CASE \E f \in FloorIDs : ReleaseByFloorID(c, f)
  <2>1. PICK f \in FloorIDs : ReleaseByFloorID(c, f)  BY <1>1
  <2>2. pc' \in [Conns -> Labels] /\ job' \in [Conns -> Jobs]
    BY <2>1, StartReleaseType DEF TypeOK, ReleaseByFloorID
  <2>. QED  BY <2>1, <2>2
            DEF TypeOK, ReleaseByFloorID, connVars, floorVars, seenVars
<1>2. CASE \E r \in RequestIDs : ReleaseByRequestID(c, r)
  <2>1. PICK r \in RequestIDs : ReleaseByRequestID(c, r)  BY <1>2
  <2>2. pc' \in [Conns -> Labels] /\ job' \in [Conns -> Jobs]
    <3>1. ASSUME NEW f \in FloorsByRequestID(r), StartRelease(c, floors[f])
          PROVE  pc' \in [Conns -> Labels] /\ job' \in [Conns -> Jobs]
      BY <3>1, StartReleaseType DEF TypeOK, FloorsByRequestID
    <3>. QED  BY <2>1, <3>1 DEF TypeOK, ReleaseByRequestID, Goto, Labels
  <2>. QED  BY <2>1, <2>2
            DEF TypeOK, ReleaseByRequestID, connVars, floorVars, seenVars
<1>3. CASE ReleaseFallback(c)
  <2>1. pc' \in [Conns -> Labels] /\ job' \in [Conns -> Jobs]
    <3>1. ASSUME NEW f \in FloorsOwnedBy(UserOf[c]), StartRelease(c, floors[f])
          PROVE  pc' \in [Conns -> Labels] /\ job' \in [Conns -> Jobs]
      BY <3>1, StartReleaseType DEF TypeOK, FloorsOwnedBy
    <3>. QED  BY <1>3, <3>1, ReturnType DEF ReleaseFallback
  <2>. QED  BY <1>3, <2>1
            DEF TypeOK, ReleaseFallback, connVars, floorVars, seenVars
<1>4. CASE FloorRelease(c)
  <2>1. fsm' \in [Cells -> Floors]
    BY <1>4, FloorTypes DEF TypeOK, FloorRelease
  <2>2. pc' \in [Conns -> Labels] /\ job' \in [Conns -> Jobs]
    BY <1>4, ReturnType DEF TypeOK, FloorRelease, Goto, Labels
  <2>. QED  BY <1>4, <2>1, <2>2 DEF TypeOK, FloorRelease, connVars, seenVars
<1>5. CASE TellReleased(c)
  <2>1. told' \in [Conns -> [FloorIDs -> FloorStates \cup {"nothing"}]]
    BY <1>5, SendType DEF TellReleased, FloorStates
  <2>2. job' \in [Conns -> Jobs]
    <3>1. job' = [job EXCEPT ![c].dest = sessions \ {c}]
      BY <1>5 DEF TellReleased
    <3>2. [job[c] EXCEPT !.dest = sessions \ {c}] \in Jobs
      BY JobUpdates DEF TypeOK
    <3>. QED  BY <3>1, <3>2 DEF TypeOK
  <2>. QED  BY <1>5, <2>1, <2>2
            DEF TypeOK, TellReleased, Goto, Labels, SessionStates, floorVars
<1>6. CASE SendBroadcast(c)
  <2>1. PICK d \in job[c].dest :
          /\ Send(d, Fid(c), "Released")
          /\ job' = [job EXCEPT ![c].dest = @ \ {d}]
    BY <1>6 DEF SendBroadcast
  <2>2. d \in Conns  BY DEF TypeOK, Jobs
  <2>3. told' \in [Conns -> [FloorIDs -> FloorStates \cup {"nothing"}]]
    BY <2>1, <2>2, SendType DEF FloorStates
  <2>4. job' \in [Conns -> Jobs]
    <3>1. [job[c] EXCEPT !.dest = job[c].dest \ {d}] \in Jobs
      BY JobUpdates DEF TypeOK
    <3>. QED  BY <2>1, <3>1 DEF TypeOK
  <2>. QED  BY <1>6, <2>3, <2>4, NextIDType
            DEF TypeOK, SendBroadcast, connVars, floorVars
<1>7. CASE ReleaseDone(c)
  BY <1>7, ReturnType
  DEF TypeOK, ReleaseDone, connVars, floorVars, seenVars
<1>. QED  BY <1>1, <1>2, <1>3, <1>4, <1>5, <1>6, <1>7

LEMMA QueryAndGoodbyeType ==
  ASSUME TypeOK, NEW c \in Conns,
         \/ \E f \in FloorIDs : HandleFloorQuery(c, f)
         \/ AnswerQuery(c) \/ HandleGoodbye(c)
         \/ GoodbyeRelease(c) \/ GoodbyeNotify(c) \/ GoodbyeEnd(c)
  PROVE  TypeOK'
<1>1. ASSUME NEW f \in FloorIDs, HandleFloorQuery(c, f)  PROVE TypeOK'
  <2>1. fsm[floors[f]].requestID \in RequestIDs /\ floors[f] \in Cells
    BY <1>1 DEF TypeOK, HandleFloorQuery, Floors
  <2>2. job' \in [Conns -> Jobs]
    BY <1>1, <2>1, NoJobType DEF TypeOK, HandleFloorQuery, NoJob, Jobs
  <2>. QED  BY <1>1, <2>2 DEF TypeOK, HandleFloorQuery, Goto, Labels,
                               connVars, floorVars, seenVars
<1>2. CASE AnswerQuery(c)
  BY <1>2, ReturnType DEF TypeOK, AnswerQuery, connVars, floorVars, seenVars
<1>3. CASE HandleGoodbye(c)
  <2>1. job' \in [Conns -> Jobs]
    BY <1>3, NoJobType DEF TypeOK, HandleGoodbye, NoJob, Jobs
  <2>. QED  BY <1>3, <2>1 DEF TypeOK, HandleGoodbye, Goto, Labels,
                               connVars, floorVars, seenVars
<1>4. CASE GoodbyeRelease(c)
  <2>1. PICK o \in job[c].todo :
          IF CanRelease(fsm[o], UserOf[c])
            THEN /\ fsm' = [fsm EXCEPT ![o] = Release(@)]
                 /\ job' = [job EXCEPT ![c] = [NoJob EXCEPT
                      !.floor = o, !.todo = job[c].todo \ {o},
                      !.dest = sessions \ {c}]]
                 /\ Goto(c, "byeBroadcast")
            ELSE /\ job' = [job EXCEPT ![c].todo = @ \ {o}]
                 /\ UNCHANGED <<fsm, pc>>
    BY <1>4 DEF GoodbyeRelease
  <2>2. o \in Cells  BY DEF TypeOK, Jobs
  <2>3. fsm' \in [Cells -> Floors]  BY <2>1, <2>2, FloorTypes DEF TypeOK
  <2>4. job' \in [Conns -> Jobs]
    <3>1. [NoJob EXCEPT !.floor = o, !.todo = job[c].todo \ {o},
             !.dest = sessions \ {c}] \in Jobs
      BY <2>2, ZeroID DEF TypeOK, NoJob, Jobs
    <3>2. [job[c] EXCEPT !.todo = job[c].todo \ {o}] \in Jobs
      BY JobUpdates DEF TypeOK
    <3>. QED  BY <2>1, <3>1, <3>2 DEF TypeOK
  <2>5. pc' \in [Conns -> Labels]  BY <2>1 DEF TypeOK, Goto, Labels
  <2>. QED  BY <1>4, <2>3, <2>4, <2>5 DEF TypeOK, GoodbyeRelease, connVars, seenVars
<1>5. CASE GoodbyeNotify(c)
  BY <1>5 DEF TypeOK, GoodbyeNotify, Goto, Labels, connVars, floorVars
<1>6. CASE GoodbyeEnd(c)
  BY <1>6, ReturnType
  DEF TypeOK, GoodbyeEnd, SessionStates, floorVars, seenVars
<1>. QED  BY <1>1, <1>2, <1>3, <1>4, <1>5, <1>6

LEMMA ApplicationType ==
  ASSUME TypeOK, Application
  PROVE  TypeOK'
<1>1. ASSUME NEW f \in FloorIDs, CreateFloor(f)  PROVE TypeOK'
  BY <1>1, NewFloorType DEF TypeOK, CreateFloor, NewFloor, connVars, seenVars
<1>2. ASSUME NEW f \in FloorIDs, AppGetFloor(f)  PROVE TypeOK'
  BY <1>2 DEF TypeOK, AppGetFloor, connVars, floorVars, seenVars
<1>3. ASSUME NEW f \in FloorIDs, ReleaseFloor(f)  PROVE TypeOK'
  BY <1>3 DEF TypeOK, ReleaseFloor, connVars, seenVars
<1>4. CASE AppCall
  <2>1. fsm' \in [Cells -> Floors]  BY <1>4, FloorTypes DEF TypeOK, AppCall
  <2>. QED  BY <1>4, <2>1 DEF TypeOK, AppCall, connVars, seenVars
<1>5. CASE ServerClose    BY <1>5 DEF TypeOK, ServerClose, seenVars
<1>6. ASSUME NEW c \in Conns, CloseSession(c)  PROVE TypeOK'
  BY <1>6 DEF TypeOK, CloseSession, seenVars
<1>7. CASE CloseListener  BY <1>7 DEF TypeOK, CloseListener, seenVars
<1>. QED  BY <1>1, <1>2, <1>3, <1>4, <1>5, <1>6, <1>7 DEF Application

LEMMA NextType == TypeOK /\ [Next]_vars => TypeOK'
<1>. SUFFICES ASSUME TypeOK, [Next]_vars  PROVE TypeOK'
  OBVIOUS
<1>1. CASE UNCHANGED vars  BY <1>1 DEF TypeOK, vars
<1>2. ASSUME NEW c \in Conns, Dispatch(c)  PROVE TypeOK'
  BY <1>2, ConnectionType, FloorRequestType, FloorReleaseType,
     QueryAndGoodbyeType DEF Dispatch
<1>3. ASSUME NEW c \in Conns, HandlerStep(c)  PROVE TypeOK'
  BY <1>3, FloorRequestType, FloorReleaseType, QueryAndGoodbyeType
  DEF HandlerStep
<1>4. ASSUME NEW c \in Conns, ConnectionStep(c)  PROVE TypeOK'
  BY <1>4, ConnectionType
<1>. QED  BY <1>1, <1>2, <1>3, <1>4, ApplicationType DEF Next

\* Every variable keeps its type (server.go, state.go), for every number of
\* connections, floors and cells and every use of the application interface.
THEOREM TypeCorrect == Spec => []TypeOK
BY InitType, NextType, PTL DEF Spec

-----------------------------------------------------------------------------
(***************************************************************************)
(* What a step does to the floors.  Every step of the server leaves them   *)
(* alone, publishes a new floor, forgets one, or applies one method of the *)
(* state machine to one cell; the invariants about floors and the          *)
(* refinement only need to look at these four cases.                       *)
(***************************************************************************)

\* One method of the state machine in cell o, called when it may change it.
Method(o) ==
  /\ UNCHANGED floors
  /\ \/ \E u \in Users, r \in RequestIDs :
          /\ CanRequest(fsm[o])
          /\ fsm' = [fsm EXCEPT ![o] = Request(fsm[o], u, r)]
     \/ CanGrant(fsm[o]) /\ fsm' = [fsm EXCEPT ![o] = Grant(fsm[o])]
     \/ CanDeny(fsm[o]) /\ fsm' = [fsm EXCEPT ![o] = Deny(fsm[o])]
     \/ fsm' = [fsm EXCEPT ![o] = Release(fsm[o])]
     \/ fsm' = [fsm EXCEPT ![o] = Revoke(fsm[o])]

FloorsStep ==
  \/ UNCHANGED <<floors, fsm>>
  \/ \E f \in FloorIDs, o \in Cells : NewFloor(f, o)
  \/ \E f \in FloorIDs : floors' = [floors EXCEPT ![f] = Nil] /\ UNCHANGED fsm
  \/ \E o \in Cells : Method(o)

\* A method called through a nil pointer would change no cell.
LEMMA MethodOrNothing ==
  ASSUME TypeOK, NEW o \in Cells \cup {Nil}, Method(o)
  PROVE  FloorsStep
<1>1. CASE o \in Cells  BY <1>1 DEF FloorsStep
<1>2. CASE o \notin Cells
  <2>1. \A x : [fsm EXCEPT ![o] = x] = fsm  BY <1>2 DEF TypeOK
  <2>2. UNCHANGED <<floors, fsm>>  BY <2>1 DEF Method
  <2>. QED  BY <2>2 DEF FloorsStep
<1>. QED  BY <1>1, <1>2

LEMMA NextFloors ==
  ASSUME TypeOK, [Next]_vars
  PROVE  FloorsStep
<1>1. CASE UNCHANGED vars  BY <1>1 DEF vars, FloorsStep
<1>2. ASSUME NEW c \in Conns, Dispatch(c)  PROVE FloorsStep
  <2>1. ASSUME NEW f \in FloorIDs, NEW g \in Decisions,
               HandleFloorRequest(c, f, g)
        PROVE  FloorsStep
    BY <2>1 DEF HandleFloorRequest, floorVars, FloorsStep
  <2>2. CASE Hello(c)  BY <2>2 DEF Hello, FloorsStep
  <2>3. ASSUME NEW f \in FloorIDs, ReleaseByFloorID(c, f)  PROVE FloorsStep
    BY <2>3 DEF ReleaseByFloorID, floorVars, FloorsStep
  <2>4. ASSUME NEW r \in RequestIDs, ReleaseByRequestID(c, r)  PROVE FloorsStep
    BY <2>4 DEF ReleaseByRequestID, floorVars, FloorsStep
  <2>5. ASSUME NEW f \in FloorIDs, HandleFloorQuery(c, f)  PROVE FloorsStep
    BY <2>5 DEF HandleFloorQuery, floorVars, FloorsStep
  <2>6. CASE HandleGoodbye(c)  BY <2>6 DEF HandleGoodbye, floorVars, FloorsStep
  <2>. QED  BY <1>2, <2>1, <2>2, <2>3, <2>4, <2>5, <2>6 DEF Dispatch
<1>3. ASSUME NEW c \in Conns, HandlerStep(c)  PROVE FloorsStep
  <2>. DEFINE o == job[c].floor
  <2>1. o \in Cells \cup {Nil} /\ job[c].req \in RequestIDs
    BY DEF TypeOK, Jobs
  <2>2. CASE FloorRequest(c)
    <3>1. CASE CanRequest(Floor(c))
      <4>1. Method(o)
        BY <2>2, <3>1, <2>1, UserTypes DEF FloorRequest, Floor, Method
      <4>. QED  BY <2>1, <4>1, MethodOrNothing
    <3>2. CASE ~CanRequest(Floor(c))
      BY <2>2, <3>2 DEF FloorRequest, FloorsStep
    <3>. QED  BY <3>1, <3>2
  <2>3. CASE Decide(c)
    <3>1. Method(o) \/ UNCHANGED <<floors, fsm>>
      BY <2>3 DEF Decide, Floor, Method
    <3>. QED  BY <2>1, <3>1, MethodOrNothing DEF FloorsStep
  <2>4. CASE FloorRelease(c)
    <3>1. Method(o) \/ UNCHANGED <<floors, fsm>>
      BY <2>4 DEF FloorRelease, Floor, Method
    <3>. QED  BY <2>1, <3>1, MethodOrNothing DEF FloorsStep
  <2>5. CASE GoodbyeRelease(c)
    <3>1. \E p \in job[c].todo : Method(p) \/ UNCHANGED <<floors, fsm>>
      BY <2>5 DEF GoodbyeRelease, Method
    <3>2. job[c].todo \in SUBSET Cells  BY DEF TypeOK, Jobs
    <3>. QED  BY <3>1, <3>2 DEF FloorsStep
  <2>6. CASE SendPending(c) \/ TellGranted(c) \/ TellDenied(c) \/ TellReleased(c)
    BY <2>6 DEF SendPending, TellGranted, TellDenied, TellReleased, floorVars,
                FloorsStep
  <2>7. CASE ReleaseFallback(c) \/ SendBroadcast(c) \/ ReleaseDone(c)
    BY <2>7 DEF ReleaseFallback, SendBroadcast, ReleaseDone, floorVars, FloorsStep
  <2>8. CASE AnswerQuery(c) \/ GoodbyeNotify(c) \/ GoodbyeEnd(c)
    BY <2>8 DEF AnswerQuery, GoodbyeNotify, GoodbyeEnd, floorVars, FloorsStep
  <2>. QED  BY <1>3, <2>2, <2>3, <2>4, <2>5, <2>6, <2>7, <2>8 DEF HandlerStep
<1>4. ASSUME NEW c \in Conns, ConnectionStep(c)  PROVE FloorsStep
  BY <1>4 DEF ConnectionStep, Accept, PeerLost, ReadExit, Keepalive, FloorsStep
<1>5. CASE Application
  <2>1. ASSUME NEW f \in FloorIDs,
               CreateFloor(f) \/ AppGetFloor(f) \/ ReleaseFloor(f)
        PROVE  FloorsStep
    BY <2>1 DEF CreateFloor, AppGetFloor, ReleaseFloor, floorVars, FloorsStep
  <2>2. CASE AppCall
    <3>1. Method(app)  BY <2>2 DEF AppCall, Method
    <3>. QED  BY <3>1, MethodOrNothing DEF TypeOK
  <2>3. CASE ServerClose \/ CloseListener
    BY <2>3 DEF ServerClose, CloseListener, FloorsStep
  <2>4. ASSUME NEW c \in Conns, CloseSession(c)  PROVE FloorsStep
    BY <2>4 DEF CloseSession, FloorsStep
  <2>. QED  BY <1>5, <2>1, <2>2, <2>3, <2>4 DEF Application
<1>. QED  BY <1>1, <1>2, <1>3, <1>4, <1>5 DEF Next

-----------------------------------------------------------------------------
(***************************************************************************)
(* Floors and their owners, and the refinement of FloorControl.            *)
(***************************************************************************)

\* A floor in the map carries the identifier it is registered under, so no
\* cell is registered twice.
MapIsFaithful == \A f \in FloorIDs : floors[f] # Nil => fsm[floors[f]].fid = f

LEMMA HeldIffOwnedStep ==
  ASSUME TypeOK, HeldIffOwned, FloorsStep
  PROVE  HeldIffOwned'
<1>. USE DEF HeldIffOwned, Held
<1>1. CASE UNCHANGED <<floors, fsm>>  BY <1>1
<1>2. ASSUME NEW f \in FloorIDs, NEW o \in Cells, NewFloor(f, o)
      PROVE  HeldIffOwned'
  BY <1>2 DEF NewFloor, NewFloorStateMachine, TypeOK
<1>3. ASSUME NEW o \in Cells, Method(o)  PROVE HeldIffOwned'
  <2>1. ASSUME NEW u \in Users, NEW r \in RequestIDs,
               fsm' = [fsm EXCEPT ![o] = Request(fsm[o], u, r)]
        PROVE  HeldIffOwned'
    BY <2>1 DEF Request, TypeOK, Floors
  <2>2. CASE CanGrant(fsm[o]) /\ fsm' = [fsm EXCEPT ![o] = Grant(fsm[o])]
    BY <2>2 DEF CanGrant, Grant, TypeOK, Floors
  <2>3. CASE CanDeny(fsm[o]) /\ fsm' = [fsm EXCEPT ![o] = Deny(fsm[o])]
    BY <2>3 DEF Deny, TypeOK, Floors
  <2>4. CASE fsm' = [fsm EXCEPT ![o] = Release(fsm[o])]
    BY <2>4 DEF Release, TypeOK, Floors
  <2>5. CASE fsm' = [fsm EXCEPT ![o] = Revoke(fsm[o])]
    BY <2>5 DEF Revoke, TypeOK, Floors
  <2>. QED  BY <1>3, <2>1, <2>2, <2>3, <2>4, <2>5 DEF Method
<1>. QED  BY <1>1, <1>2, <1>3 DEF FloorsStep

\* No method changes the FloorID field.
LEMMA MethodKeepsFid ==
  ASSUME NEW m \in Floors
  PROVE  /\ \A u, r : Request(m, u, r).fid = m.fid
         /\ Grant(m).fid = m.fid
         /\ Deny(m).fid = m.fid
         /\ Release(m).fid = m.fid
         /\ Revoke(m).fid = m.fid
BY DEF Floors, Request, Grant, Deny, Release, Revoke

LEMMA MapIsFaithfulStep ==
  ASSUME TypeOK, MapIsFaithful, FloorsStep
  PROVE  MapIsFaithful'
<1>. USE DEF MapIsFaithful
<1>1. CASE UNCHANGED <<floors, fsm>>  BY <1>1
<1>2. ASSUME NEW f \in FloorIDs, NEW o \in Cells, NewFloor(f, o)
      PROVE  MapIsFaithful'
  BY <1>2 DEF NewFloor, NewFloorStateMachine, Fresh, TypeOK
<1>3. ASSUME NEW f \in FloorIDs,
             floors' = [floors EXCEPT ![f] = Nil] /\ UNCHANGED fsm
      PROVE  MapIsFaithful'
  BY <1>3 DEF TypeOK
<1>4. ASSUME NEW o \in Cells, Method(o)  PROVE MapIsFaithful'
  <2>1. PICK m : fsm' = [fsm EXCEPT ![o] = m] /\ m.fid = fsm[o].fid
    <3>1. fsm[o] \in Floors  BY DEF TypeOK
    <3>. QED  BY <1>4, <3>1, MethodKeepsFid DEF Method
  <2>. QED  BY <1>4, <2>1 DEF Method, TypeOK
<1>. QED  BY <1>1, <1>2, <1>3, <1>4 DEF FloorsStep

FloorInv == TypeOK /\ HeldIffOwned /\ MapIsFaithful

LEMMA FloorInvInductive == Spec => []FloorInv
<1>1. Init => FloorInv
  <2>1. Init => HeldIffOwned
    BY DEF Init, HeldIffOwned, Held, NewFloorStateMachine
  <2>2. Init => MapIsFaithful  BY DEF Init, MapIsFaithful
  <2>. QED  BY <2>1, <2>2, InitType DEF FloorInv
<1>2. FloorInv /\ [Next]_vars => FloorInv'
  BY NextType, NextFloors, HeldIffOwnedStep, MapIsFaithfulStep DEF FloorInv
<1>. QED  BY <1>1, <1>2, PTL DEF Spec

\* A connection's user is recorded as owner exactly while a floor is pending or
\* granted (state.go), whatever clients and application do and whatever user IDs,
\* 0 included, the clients put in their messages.
THEOREM OwnershipCorrect == Spec => []HeldIffOwned
<1>1. FloorInv => HeldIffOwned  BY DEF FloorInv
<1>. QED  BY <1>1, FloorInvInductive, PTL

\* The refinement mapping.
Phase == [f \in FloorIDs |->
            IF floors[f] = Nil THEN "Released" ELSE fsm[floors[f]].state]
Holder == [f \in FloorIDs |->
            IF floors[f] = Nil THEN NoUser ELSE fsm[floors[f]].owner]

\* A method on a floor that is not registered (any more) is a stuttering step;
\* on a registered one it changes the phase and holder of that floor only.
LEMMA MethodAtFloor ==
  ASSUME FloorInv, NEW o \in Cells, NEW m,
         UNCHANGED floors, fsm' = [fsm EXCEPT ![o] = m]
  PROVE  \/ Phase' = Phase /\ Holder' = Holder
         \/ \E f \in FloorIDs :
              /\ Phase[f] = fsm[o].state /\ Holder[f] = fsm[o].owner
              /\ Phase' = [Phase EXCEPT ![f] = m.state]
              /\ Holder' = [Holder EXCEPT ![f] = m.owner]
<1>. USE DEF Phase, Holder
<1>1. CASE \A f \in FloorIDs : floors[f] # o
  BY <1>1 DEF FloorInv, TypeOK
<1>2. ASSUME NEW f \in FloorIDs, floors[f] = o
      PROVE  /\ Phase[f] = fsm[o].state /\ Holder[f] = fsm[o].owner
             /\ Phase' = [Phase EXCEPT ![f] = m.state]
             /\ Holder' = [Holder EXCEPT ![f] = m.owner]
  <2>1. o # Nil  BY ConstantsAssumption
  <2>2. \A g \in FloorIDs : floors[g] = o => g = f
    BY <1>2, <2>1 DEF FloorInv, MapIsFaithful
  <2>3. fsm'[o] = m /\ \A p \in Cells : p # o => fsm'[p] = fsm[p]
    BY DEF FloorInv, TypeOK
  <2>4. Phase[f] = fsm[o].state /\ Holder[f] = fsm[o].owner
    BY <1>2, <2>1
  <2>5. \A g \in FloorIDs :
          /\ Phase'[g] = IF g = f THEN m.state ELSE Phase[g]
          /\ Holder'[g] = IF g = f THEN m.owner ELSE Holder[g]
    BY <1>2, <2>1, <2>2, <2>3 DEF FloorInv, TypeOK
  <2>6. Phase' = [Phase EXCEPT ![f] = m.state]  BY <2>5
  <2>7. Holder' = [Holder EXCEPT ![f] = m.owner]  BY <2>5
  <2>. QED  BY <2>4, <2>6, <2>7
<1>. QED  BY <1>1, <1>2

LEMMA FloorsStepRefines ==
  ASSUME FloorInv, FloorsStep
  PROVE  FC!Next \/ (Phase' = Phase /\ Holder' = Holder)
<1>. USE DEF FC!Next, FC!Request, FC!Grant, FC!Deny, FC!Free
<1>1. CASE UNCHANGED <<floors, fsm>>  BY <1>1 DEF Phase, Holder
<1>2. ASSUME NEW f \in FloorIDs, NEW o \in Cells, NewFloor(f, o)
      PROVE  Phase' = Phase /\ Holder' = Holder
  BY <1>2, ConstantsAssumption
  DEF NewFloor, NewFloorStateMachine, Fresh, Phase, Holder, FloorInv, TypeOK
<1>3. ASSUME NEW f \in FloorIDs,
             floors' = [floors EXCEPT ![f] = Nil] /\ UNCHANGED fsm
      PROVE  FC!Free(f)
  <2>1. /\ Phase' = [Phase EXCEPT ![f] = "Released"]
        /\ Holder' = [Holder EXCEPT ![f] = NoUser]
    BY <1>3 DEF Phase, Holder, FloorInv, TypeOK
  <2>. QED  BY <2>1 DEF Phase, Holder
<1>4. ASSUME NEW o \in Cells, Method(o)
      PROVE  FC!Next \/ (Phase' = Phase /\ Holder' = Holder)
  <2>. SUFFICES ASSUME ~(Phase' = Phase /\ Holder' = Holder)  PROVE FC!Next
    OBVIOUS
  <2>0. fsm[o] \in Floors  BY DEF FloorInv, TypeOK
  <2>. DEFINE At(m) ==
         \E f \in FloorIDs :
           /\ Phase[f] = fsm[o].state /\ Holder[f] = fsm[o].owner
           /\ Phase' = [Phase EXCEPT ![f] = m.state]
           /\ Holder' = [Holder EXCEPT ![f] = m.owner]
  <2>a. ASSUME NEW m, fsm' = [fsm EXCEPT ![o] = m]  PROVE At(m)
    BY <1>4, <2>a, MethodAtFloor DEF Method
  <2>1. ASSUME NEW u \in Users, NEW r \in RequestIDs, CanRequest(fsm[o]),
               fsm' = [fsm EXCEPT ![o] = Request(fsm[o], u, r)]
        PROVE  FC!Next
    <3>1. fsm[o].state = "Released" /\ fsm[o].owner = NoUser
      BY <2>1 DEF CanRequest, FloorInv, HeldIffOwned, Held
    <3>2. /\ Request(fsm[o], u, r).state = "Pending"
          /\ Request(fsm[o], u, r).owner = u
      BY <2>0 DEF Request, Floors
    <3>3. PICK f \in FloorIDs :
            /\ Phase[f] = "Released" /\ Holder[f] = NoUser
            /\ Phase' = [Phase EXCEPT ![f] = "Pending"]
            /\ Holder' = [Holder EXCEPT ![f] = u]
      <4>1. At(Request(fsm[o], u, r))  BY <2>1, <2>a
      <4>. QED  BY <3>1, <3>2, <4>1
    <3>4. FC!Request(f, u)  BY <3>3 DEF Phase, Holder
    <3>. QED  BY <3>4
  <2>2. ASSUME CanGrant(fsm[o]), fsm' = [fsm EXCEPT ![o] = Grant(fsm[o])]
        PROVE  FC!Next
    <3>1. /\ fsm[o].state = "Pending"
          /\ Grant(fsm[o]).state = "Granted"
          /\ Grant(fsm[o]).owner = fsm[o].owner
      BY <2>0, <2>2 DEF CanGrant, Grant, Floors
    <3>2. PICK f \in FloorIDs :
            /\ Phase[f] = "Pending"
            /\ Phase' = [Phase EXCEPT ![f] = "Granted"]
            /\ Holder' = [Holder EXCEPT ![f] = Holder[f]]
      <4>1. At(Grant(fsm[o]))  BY <2>2, <2>a
      <4>. QED  BY <3>1, <4>1, ZenonT(60)
    <3>3. Holder' = Holder  BY <3>2 DEF Holder
    <3>4. FC!Grant(f)  BY <3>2, <3>3 DEF Phase, Holder
    <3>. QED  BY <3>4
  <2>3. ASSUME CanDeny(fsm[o]), fsm' = [fsm EXCEPT ![o] = Deny(fsm[o])]
        PROVE  FC!Next
    <3>1. /\ fsm[o].state = "Pending"
          /\ Deny(fsm[o]).state = "Denied"
          /\ Deny(fsm[o]).owner = NoUser
      BY <2>0, <2>3 DEF CanDeny, Deny, Floors
    <3>2. PICK f \in FloorIDs :
            /\ Phase[f] = "Pending"
            /\ Phase' = [Phase EXCEPT ![f] = "Denied"]
            /\ Holder' = [Holder EXCEPT ![f] = NoUser]
      <4>1. At(Deny(fsm[o]))  BY <2>3, <2>a
      <4>. QED  BY <3>1, <4>1, ZenonT(60)
    <3>3. FC!Deny(f)  BY <3>2 DEF Phase, Holder
    <3>. QED  BY <3>3
  <2>4. ASSUME NEW m, fsm' = [fsm EXCEPT ![o] = m],
               m.state = "Released" /\ m.owner = NoUser
        PROVE  FC!Next
    <3>1. PICK f \in FloorIDs :
            /\ Phase' = [Phase EXCEPT ![f] = "Released"]
            /\ Holder' = [Holder EXCEPT ![f] = NoUser]
      <4>1. At(m)  BY <2>4, <2>a
      <4>. QED  BY <2>4, <4>1
    <3>2. FC!Free(f)  BY <3>1 DEF Phase, Holder
    <3>. QED  BY <3>2
  <2>5. CASE fsm' = [fsm EXCEPT ![o] = Release(fsm[o])]
    <3>1. Release(fsm[o]).state = "Released" /\ Release(fsm[o]).owner = NoUser
      BY <2>0 DEF Release, Floors
    <3>. QED  BY <2>4, <2>5, <3>1
  <2>6. CASE fsm' = [fsm EXCEPT ![o] = Revoke(fsm[o])]
    <3>1. Revoke(fsm[o]).state = "Released" /\ Revoke(fsm[o]).owner = NoUser
      BY <2>0 DEF Revoke, Floors
    <3>. QED  BY <2>4, <2>6, <3>1
  <2>. QED  BY <1>4, <2>1, <2>2, <2>3, <2>5, <2>6 DEF Method
<1>. QED  BY <1>1, <1>2, <1>3, <1>4 DEF FloorsStep

\* The server implements FloorControl (server.go, state.go): for every set of
\* clients, any interleaving of handlers and any use of the application
\* interface, a floor goes from one user to another only by becoming free.
THEOREM Refinement == Spec => ImplementsFloorControl
<1>1. Init => FC!Init
  BY DEF Init, FC!Init
<1>2. FloorInv /\ [Next]_vars => [FC!Next]_(FC!vars)
  <2>. SUFFICES ASSUME FloorInv, [Next]_vars  PROVE [FC!Next]_(FC!vars)
    OBVIOUS
  <2>1. FloorsStep  BY NextFloors DEF FloorInv
  <2>2. FC!Next \/ (Phase' = Phase /\ Holder' = Holder)
    BY <2>1, FloorsStepRefines
  <2>. QED  BY <2>2 DEF FC!vars, Phase, Holder
<1>. QED  BY <1>1, <1>2, FloorInvInductive, PTL
          DEF Spec, ImplementsFloorControl, FC!Spec

===============================================================================
