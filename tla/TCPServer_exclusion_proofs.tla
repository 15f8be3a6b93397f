---------------------- MODULE TCPServer_exclusion_proofs ----------------------
(***************************************************************************)
(* What each client can rely on when every connection is a user of its     *)
(* own, none has user ID 0, and the application leaves held floors alone:  *)
(* mutual exclusion, stable requests, paired callbacks and a Goodbye that  *)
(* frees everything; and what holds of denied and of granted floors for    *)
(* any user IDs.  The argument is rely/guarantee: a step that is not       *)
(* connection d's own leaves what d depends on alone (Foreign), so an      *)
(* invariant about d only has to be checked against d's own steps.         *)
(***************************************************************************)
EXTENDS TCPServer_proofs

\* A cell some floor identifier maps to.
Registered(o) == \E f \in FloorIDs : floors[f] = o

\* The labels at which a handler is working on a floor.
FloorLabels == {"request", "pending", "decide", "granted", "denied", "release",
                "released", "broadcast", "query", "byeBroadcast"}

\* The pointers of c's handler are floors of the map.
PointersOf(c) ==
  /\ pc[c] \in FloorLabels => job[c].floor # Nil
  /\ job[c].floor # Nil => Registered(job[c].floor)
  /\ \A o \in job[c].todo : Registered(o)

\* From floor.Request to the decision, the floor has c's own request.
RequestOf(c) ==
  pc[c] \in {"pending", "decide"} =>
    /\ Floor(c).state = "Pending"
    /\ Floor(c).owner = UserOf[c]
    /\ Floor(c).requestID = job[c].req

\* Once granted, it is granted to c; once released, it is not c's.
OutcomeOf(c) ==
  /\ pc[c] = "granted" => /\ Floor(c).state = "Granted"
                          /\ Floor(c).owner = UserOf[c]
  /\ pc[c] \in {"released", "byeBroadcast"} => Floor(c).owner # UserOf[c]

\* A new connection has been told nothing, and Granted is only told to a holder.
ToldTo(c) ==
  /\ conn[c] = "none" => \A f \in FloorIDs : told[c][f] = "nothing"
  /\ \A f \in FloorIDs : Believes(c, f) => HolderIs(f, UserOf[c])

\* The callbacks lag behind the floor only while c's handler is about to call.
CallbacksOf(c) ==
  \A f \in FloorIDs :
    \/ UserOf[c] \in active[f] <=> HolderIs(f, UserOf[c])
    \/ pc[c] \in {"granted", "released", "byeBroadcast"} /\ Fid(c) = f

\* Floor f is pending or granted for user u.
Owns(f, u) == floors[f] # Nil /\ fsm[floors[f]].owner = u

\* During a Goodbye the floors c still has are those it is going to release.
GoodbyeOf(c) ==
  /\ pc[c] \in {"goodbye", "byeBroadcast"} =>
       \A f \in FloorIDs : Owns(f, UserOf[c]) => floors[f] \in job[c].todo
  /\ session[c] = "Disconnected" =>
       /\ conn[c] = "closed" /\ pc[c] = "read"
       /\ \A f \in FloorIDs : ~Owns(f, UserOf[c])

ClientInv(c) ==
  /\ PointersOf(c)
  /\ RequestOf(c)
  /\ OutcomeOf(c)
  /\ ToldTo(c)
  /\ CallbacksOf(c)
  /\ GoodbyeOf(c)

IInv == FloorInv /\ \A c \in Conns : ClientInv(c)

-----------------------------------------------------------------------------
(***************************************************************************)
(* What a connection's own step does to the floors: at most it applies a   *)
(* method to one cell, which is free or its own and is so afterwards.      *)
(***************************************************************************)

FloorsStepBy(c) ==
  \/ UNCHANGED <<floors, fsm>>
  \/ \E f \in FloorIDs, o \in Cells : NewFloor(f, o)
  \/ /\ UNCHANGED floors
     /\ \E o \in Cells, m \in Floors :
          /\ fsm' = [fsm EXCEPT ![o] = m]
          /\ m.fid = fsm[o].fid
          /\ fsm[o].owner \in {NoUser, UserOf[c]}
          /\ m.owner \in {NoUser, UserOf[c]}

LEMMA DispatchFloors ==
  ASSUME NEW c \in Conns, Dispatch(c)
  PROVE  FloorsStepBy(c)
<1>. USE DEF FloorsStepBy, floorVars
<1>1. ASSUME NEW f \in FloorIDs, NEW g \in Decisions,
             HandleFloorRequest(c, f, g)
      PROVE  FloorsStepBy(c)
  BY <1>1 DEF HandleFloorRequest
<1>2. CASE Hello(c)  BY <1>2 DEF Hello
<1>3. ASSUME NEW f \in FloorIDs, ReleaseByFloorID(c, f) \/ HandleFloorQuery(c, f)
      PROVE  FloorsStepBy(c)
  BY <1>3 DEF ReleaseByFloorID, HandleFloorQuery
<1>4. ASSUME NEW r \in RequestIDs, ReleaseByRequestID(c, r)
      PROVE  FloorsStepBy(c)
  BY <1>4 DEF ReleaseByRequestID
<1>5. CASE HandleGoodbye(c)  BY <1>5 DEF HandleGoodbye
<1>. QED  BY <1>1, <1>2, <1>3, <1>4, <1>5, Dispatch(c) DEF Dispatch

LEMMA HandlerFloors ==
  ASSUME NamedUsers, FloorInv, NEW c \in Conns, PointersOf(c), RequestOf(c),
         HandlerStep(c)
  PROVE  FloorsStepBy(c)
<1>. USE DEF FloorsStepBy, floorVars
<1>. DEFINE o == job[c].floor
<1>0. TypeOK /\ job[c].req \in RequestIDs /\ job[c].todo \in SUBSET Cells
  BY DEF FloorInv, TypeOK, Jobs
<1>1. pc[c] \in FloorLabels => o \in Cells /\ fsm[o] \in Floors
  BY <1>0 DEF PointersOf, TypeOK, Jobs
<1>2. CASE FloorRequest(c)
  <2>1. CASE CanRequest(Floor(c))
    <3>1. o \in Cells /\ fsm[o] \in Floors
      BY <1>1, <1>2 DEF FloorRequest, FloorLabels
    <3>2. fsm[o].owner = NoUser
      BY <2>1, <3>1 DEF CanRequest, Floor, FloorInv, HeldIffOwned, Held
    <3>. DEFINE m == Request(fsm[o], UserOf[c], job[c].req)
    <3>3. m \in Floors  BY <1>0, <3>1, FloorTypes, UserTypes
    <3>4. m.fid = fsm[o].fid /\ m.owner = UserOf[c]
      BY <3>1 DEF Request, Floors
    <3>5. fsm' = [fsm EXCEPT ![o] = m] /\ UNCHANGED floors
      BY <1>2, <2>1 DEF FloorRequest, Floor
    <3>. HIDE DEF m
    <3>. QED  BY <3>1, <3>2, <3>3, <3>4, <3>5
  <2>2. CASE ~CanRequest(Floor(c))  BY <1>2, <2>2 DEF FloorRequest
  <2>. QED  BY <2>1, <2>2
<1>3. CASE Decide(c)
  <2>1. o \in Cells /\ fsm[o] \in Floors
    BY <1>1, <1>3 DEF Decide, FloorLabels
  <2>2. fsm[o].owner = UserOf[c]
    BY <1>3 DEF Decide, RequestOf, Floor
  <2>3. /\ Grant(fsm[o]) \in Floors /\ Deny(fsm[o]) \in Floors
        /\ Grant(fsm[o]).fid = fsm[o].fid /\ Deny(fsm[o]).fid = fsm[o].fid
        /\ Grant(fsm[o]).owner = fsm[o].owner /\ Deny(fsm[o]).owner = NoUser
    <3>1. Grant(fsm[o]) \in Floors /\ Deny(fsm[o]) \in Floors
      BY <2>1, FloorTypes
    <3>. QED  BY <3>1, <2>1 DEF Grant, Deny, Floors
  <2>4. CASE fsm' = [fsm EXCEPT ![o] = Grant(fsm[o])] /\ UNCHANGED floors
    BY <2>1, <2>2, <2>3, <2>4
  <2>5. CASE fsm' = [fsm EXCEPT ![o] = Deny(fsm[o])] /\ UNCHANGED floors
    BY <2>1, <2>2, <2>3, <2>5
  <2>6. CASE UNCHANGED <<floors, fsm>>  BY <2>6
  <2>. QED  BY <1>3, <2>4, <2>5, <2>6 DEF Decide
<1>4. ASSUME NEW p \in Cells, CanRelease(fsm[p], UserOf[c]), UNCHANGED floors,
             fsm' = [fsm EXCEPT ![p] = Release(fsm[p])]
      PROVE  FloorsStepBy(c)
  <2>1. fsm[p] \in Floors  BY <1>0 DEF TypeOK
  <2>2. fsm[p].owner = UserOf[c]  BY <1>4, NamedUsers DEF NamedUsers, CanRelease
  <2>3. Release(fsm[p]) \in Floors  BY <2>1, FloorTypes
  <2>4. Release(fsm[p]).fid = fsm[p].fid /\ Release(fsm[p]).owner = NoUser
    BY <2>1 DEF Release, Floors
  <2>. QED  BY <1>4, <2>1, <2>2, <2>3, <2>4
<1>5. CASE FloorRelease(c)
  <2>1. o \in Cells  BY <1>1, <1>5 DEF FloorRelease, FloorLabels
  <2>. QED  BY <1>4, <1>5, <2>1 DEF FloorRelease, Floor
<1>6. CASE GoodbyeRelease(c)
  <2>1. PICK p \in job[c].todo :
          \/ /\ CanRelease(fsm[p], UserOf[c])
             /\ fsm' = [fsm EXCEPT ![p] = Release(fsm[p])]
          \/ UNCHANGED fsm
    BY <1>6 DEF GoodbyeRelease
  <2>2. p \in Cells /\ UNCHANGED floors  BY <1>0, <1>6 DEF GoodbyeRelease
  <2>. QED  BY <1>4, <2>1, <2>2
<1>7. CASE SendPending(c) \/ TellGranted(c) \/ TellDenied(c) \/ TellReleased(c)
  BY <1>7 DEF SendPending, TellGranted, TellDenied, TellReleased
<1>8. CASE ReleaseFallback(c) \/ SendBroadcast(c) \/ ReleaseDone(c)
  BY <1>8 DEF ReleaseFallback, SendBroadcast, ReleaseDone
<1>9. CASE AnswerQuery(c) \/ GoodbyeNotify(c) \/ GoodbyeEnd(c)
  BY <1>9 DEF AnswerQuery, GoodbyeNotify, GoodbyeEnd
<1>. QED  BY <1>2, <1>3, <1>5, <1>6, <1>7, <1>8, <1>9, HandlerStep(c)
          DEF HandlerStep

-----------------------------------------------------------------------------
(***************************************************************************)
(* What a step of anybody else leaves alone for connection d.              *)
(***************************************************************************)

\* Floors stay registered, keep their identifier, and d's own are untouched;
\* no one makes d an owner.
FloorsKept(d) ==
  /\ \A f \in FloorIDs : floors[f] # Nil => floors'[f] = floors[f]
  /\ \A f \in FloorIDs : floors[f] = Nil => ~Owns(f, UserOf[d])'
  /\ \A o \in Cells : Registered(o) =>
       /\ fsm'[o].fid = fsm[o].fid
       /\ fsm[o].owner = UserOf[d] => fsm'[o] = fsm[o]
       /\ fsm'[o].owner = UserOf[d] => fsm[o].owner = UserOf[d]

Foreign(d) ==
  /\ pc'[d] = pc[d] /\ job'[d] = job[d] /\ session'[d] = session[d]
  /\ conn'[d] = conn[d] \/ (conn[d] # "none" /\ conn'[d] = "closed")
  /\ \A f \in FloorIDs :
       \/ told'[d][f] = told[d][f]
       \/ conn[d] = "open" /\ told'[d][f] = "Released"
  /\ \A f \in FloorIDs : UserOf[d] \in active'[f] <=> UserOf[d] \in active[f]
  /\ FloorsKept(d)

\* The connection a step is of.
StepOf(c) == Dispatch(c) \/ HandlerStep(c) \/ ConnectionStep(c)

LEMMA NewFloorKeeps ==
  ASSUME NamedUsers, TypeOK, NEW d \in Conns, NEW f \in FloorIDs, NEW o \in Cells,
         NewFloor(f, o)
  PROVE  FloorsKept(d)
<1>1. \A g \in FloorIDs : floors[g] # Nil => floors'[g] = floors[g]
  BY DEF NewFloor, TypeOK
<1>2. \A g \in FloorIDs : floors[g] = Nil => ~Owns(g, UserOf[d])'
  <2>1. fsm'[o].owner = NoUser /\ floors'[f] = o
    BY DEF NewFloor, NewFloorStateMachine, TypeOK
  <2>2. \A g \in FloorIDs : floors[g] = Nil => floors'[g] \in {o, Nil}
    BY DEF NewFloor, TypeOK
  <2>. QED  BY <2>1, <2>2 DEF NamedUsers, Owns
<1>3. \A p \in Cells : Registered(p) => fsm'[p] = fsm[p]
  BY DEF NewFloor, Fresh, Registered, TypeOK
<1>. QED  BY <1>1, <1>2, <1>3 DEF FloorsKept

LEMMA NothingKeeps ==
  ASSUME NEW d \in Conns, UNCHANGED <<floors, fsm>>
  PROVE  FloorsKept(d)
BY DEF FloorsKept, Owns

LEMMA OthersKeep ==
  ASSUME TypeOK, OneConnectionPerUser, NEW c \in Conns, NEW d \in Conns, c # d,
         FloorsStepBy(c)
  PROVE  FloorsKept(d)
<1>0. NamedUsers /\ UserOf[c] # UserOf[d] /\ UserOf[d] # NoUser
  BY DEF OneConnectionPerUser, NamedUsers
<1>1. CASE UNCHANGED <<floors, fsm>>  BY <1>1, NothingKeeps
<1>2. CASE \E f \in FloorIDs, o \in Cells : NewFloor(f, o)
  BY <1>0, <1>2, NewFloorKeeps
<1>3. ASSUME UNCHANGED floors, NEW o \in Cells, NEW m \in Floors,
             fsm' = [fsm EXCEPT ![o] = m],
             m.fid = fsm[o].fid,
             fsm[o].owner \in {NoUser, UserOf[c]},
             m.owner \in {NoUser, UserOf[c]}
      PROVE  FloorsKept(d)
  <2>1. \A p \in Cells :
          /\ fsm'[p].fid = fsm[p].fid
          /\ fsm[p].owner = UserOf[d] => fsm'[p] = fsm[p]
          /\ fsm'[p].owner = UserOf[d] => fsm[p].owner = UserOf[d]
    BY <1>0, <1>3 DEF TypeOK
  <2>. QED  BY <1>3, <2>1 DEF FloorsKept, Owns
<1>. QED  BY <1>1, <1>2, <1>3, FloorsStepBy(c) DEF FloorsStepBy

\* The floors, for a step of another connection.
LEMMA StepKeepsFloors ==
  ASSUME OneConnectionPerUser, FloorInv, NEW c \in Conns, NEW d \in Conns,
         c # d, ClientInv(c), StepOf(c)
  PROVE  FloorsKept(d)
<1>0. NamedUsers /\ TypeOK /\ PointersOf(c) /\ RequestOf(c)
  BY DEF OneConnectionPerUser, FloorInv, ClientInv
<1>1. CASE Dispatch(c)  BY <1>0, <1>1, DispatchFloors, OthersKeep
<1>2. CASE HandlerStep(c)  BY <1>0, <1>2, HandlerFloors, OthersKeep
<1>3. CASE ConnectionStep(c)
  BY <1>3, NothingKeeps
  DEF ConnectionStep, Accept, PeerLost, ReadExit, Keepalive
<1>. QED  BY <1>1, <1>2, <1>3, StepOf(c) DEF StepOf

\* The rest of d's state, for a step of another connection.
Apart(d) ==
  /\ pc'[d] = pc[d] /\ job'[d] = job[d] /\ session'[d] = session[d]
  /\ conn'[d] = conn[d]
  /\ \A f \in FloorIDs :
       \/ told'[d][f] = told[d][f]
       \/ conn[d] = "open" /\ told'[d][f] = "Released"
  /\ \A f \in FloorIDs : UserOf[d] \in active'[f] <=> UserOf[d] \in active[f]

LEMMA StepApart ==
  ASSUME OneConnectionPerUser, TypeOK, NEW c \in Conns, NEW d \in Conns,
         c # d, StepOf(c)
  PROVE  Apart(d)
<1>. USE DEF TypeOK, Apart, connVars, floorVars, seenVars, Goto, Return
<1>0. UserOf[c] # UserOf[d]  BY DEF OneConnectionPerUser
<1>1. CASE Dispatch(c)
  <2>1. CASE Hello(c)  BY <2>1 DEF Hello
  <2>2. ASSUME NEW f \in FloorIDs, NEW g \in Decisions,
               HandleFloorRequest(c, f, g)
        PROVE  Apart(d)
    BY <2>2 DEF HandleFloorRequest
  <2>3. ASSUME NEW f \in FloorIDs, ReleaseByFloorID(c, f)  PROVE Apart(d)
    BY <2>3 DEF ReleaseByFloorID, StartRelease
  <2>4. ASSUME NEW r \in RequestIDs, ReleaseByRequestID(c, r)  PROVE Apart(d)
    BY <2>4 DEF ReleaseByRequestID, StartRelease
  <2>5. ASSUME NEW f \in FloorIDs, HandleFloorQuery(c, f)  PROVE Apart(d)
    BY <2>5 DEF HandleFloorQuery
  <2>6. CASE HandleGoodbye(c)  BY <2>6 DEF HandleGoodbye
  <2>. QED  BY <1>1, <2>1, <2>2, <2>3, <2>4, <2>5, <2>6 DEF Dispatch
<1>2. CASE HandlerStep(c)
  <2>1. CASE FloorRequest(c) \/ Decide(c) \/ FloorRelease(c)
    BY <2>1 DEF FloorRequest, Decide, FloorRelease
  <2>2. CASE SendPending(c) \/ TellDenied(c)
    BY <2>2 DEF SendPending, TellDenied, Send
  <2>3. CASE TellGranted(c)  BY <1>0, <2>3 DEF TellGranted, Send
  <2>4. CASE TellReleased(c)  BY <1>0, <2>4 DEF TellReleased, Send
  <2>5. CASE SendBroadcast(c)
    <3>1. PICK e \in job[c].dest :
            /\ Send(e, Fid(c), "Released")
            /\ job' = [job EXCEPT ![c].dest = @ \ {e}]
      BY <2>5 DEF SendBroadcast
    <3>2. \A f \in FloorIDs : \/ told'[d][f] = told[d][f]
                              \/ conn[d] = "open" /\ told'[d][f] = "Released"
      BY <3>1 DEF Send
    <3>. QED  BY <2>5, <3>1, <3>2 DEF SendBroadcast
  <2>6. CASE ReleaseFallback(c)  BY <2>6 DEF ReleaseFallback, StartRelease
  <2>7. CASE ReleaseDone(c) \/ AnswerQuery(c) \/ GoodbyeEnd(c)
    BY <2>7 DEF ReleaseDone, AnswerQuery, GoodbyeEnd
  <2>8. CASE GoodbyeRelease(c)  BY <2>8 DEF GoodbyeRelease
  <2>9. CASE GoodbyeNotify(c)  BY <1>0, <2>9 DEF GoodbyeNotify
  <2>. QED  BY <1>2, <2>1, <2>2, <2>3, <2>4, <2>5, <2>6, <2>7, <2>8, <2>9
            DEF HandlerStep
<1>3. CASE ConnectionStep(c)
  BY <1>3 DEF ConnectionStep, Accept, PeerLost, ReadExit, Keepalive
<1>. QED  BY <1>1, <1>2, <1>3, StepOf(c) DEF StepOf

LEMMA ApplicationForeign ==
  ASSUME NamedUsers, HandsOff, TypeOK, NEW d \in Conns,
         Application \/ UNCHANGED vars
  PROVE  Foreign(d)
<1>. USE DEF Foreign, TypeOK, connVars, floorVars, seenVars
<1>1. ASSUME NEW f \in FloorIDs, CreateFloor(f)  PROVE Foreign(d)
  BY <1>1, NewFloorKeeps DEF CreateFloor
<1>2. ASSUME NEW f \in FloorIDs, AppGetFloor(f) \/ ReleaseFloor(f)
      PROVE  Foreign(d)
  BY <1>2 DEF AppGetFloor, ReleaseFloor, HandsOff
<1>3. CASE AppCall  BY <1>3 DEF AppCall, HandsOff
<1>4. CASE ServerClose \/ CloseListener
  BY <1>4, NothingKeeps DEF ServerClose, CloseListener
<1>5. ASSUME NEW c \in Conns, CloseSession(c)  PROVE Foreign(d)
  BY <1>5, NothingKeeps DEF CloseSession
<1>6. CASE UNCHANGED vars  BY <1>6, NothingKeeps DEF vars
<1>. QED  BY <1>1, <1>2, <1>3, <1>4, <1>5, <1>6, Application \/ UNCHANGED vars
          DEF Application

\* Every step is d's own or leaves d alone.
LEMMA OwnOrForeign ==
  ASSUME OneConnectionPerUser, HandsOff, IInv, [Next]_vars, NEW d \in Conns
  PROVE  StepOf(d) \/ Foreign(d)
<1>0. NamedUsers /\ TypeOK /\ FloorInv
  BY DEF OneConnectionPerUser, IInv, FloorInv
<1>1. ASSUME NEW c \in Conns, c # d, StepOf(c)  PROVE Foreign(d)
  BY <1>0, <1>1, StepKeepsFloors, StepApart DEF IInv, Foreign, Apart
<1>2. ASSUME Application \/ UNCHANGED vars  PROVE Foreign(d)
  BY <1>0, <1>2, ApplicationForeign
<1>. QED  BY <1>1, <1>2 DEF Next, StepOf

-----------------------------------------------------------------------------
(***************************************************************************)
(* A step of somebody else keeps d's invariant.                            *)
(***************************************************************************)

\* What d owns does not change.
LEMMA KeptFloors ==
  ASSUME TypeOK, NEW d \in Conns, FloorsKept(d)
  PROVE  /\ \A o \in Cells : Registered(o) => Registered(o)'
         /\ \A f \in FloorIDs : /\ Owns(f, UserOf[d])' <=> Owns(f, UserOf[d])
                                /\ Owns(f, UserOf[d])' => floors'[f] = floors[f]
         /\ \A f \in FloorIDs : HolderIs(f, UserOf[d])' <=> HolderIs(f, UserOf[d])
<1>. DEFINE u == UserOf[d]
<1>1. \A o \in Cells : Registered(o) => Registered(o)'
  BY ConstantsAssumption DEF FloorsKept, Registered
<1>2. \A f \in FloorIDs : floors[f] # Nil =>
        /\ floors[f] \in Cells /\ Registered(floors[f])
        /\ floors'[f] = floors[f]
        /\ fsm[floors[f]].owner = u => fsm'[floors[f]] = fsm[floors[f]]
        /\ fsm'[floors[f]].owner = u => fsm[floors[f]].owner = u
  BY DEF FloorsKept, Registered, TypeOK
<1>3. \A f \in FloorIDs : floors[f] = Nil => ~Owns(f, u)' /\ ~Owns(f, u)
  BY DEF FloorsKept, Owns
<1>4. \A f \in FloorIDs : /\ Owns(f, u)' <=> Owns(f, u)
                          /\ Owns(f, u)' => floors'[f] = floors[f]
  BY <1>2, <1>3 DEF Owns
<1>5. \A f \in FloorIDs : HolderIs(f, u)' <=> HolderIs(f, u)
  <2>. SUFFICES ASSUME NEW f \in FloorIDs  PROVE HolderIs(f, u)' <=> HolderIs(f, u)
    OBVIOUS
  <2>1. CASE floors[f] = Nil  BY <1>3, <2>1 DEF HolderIs, Owns
  <2>2. CASE floors[f] # Nil  BY <1>2, <2>2 DEF HolderIs
  <2>. QED  BY <2>1, <2>2
<1>. QED  BY <1>1, <1>4, <1>5

\* Where the pointer of d's handler leads does not change.
LEMMA KeptPointer ==
  ASSUME TypeOK, NEW d \in Conns, PointersOf(d), FloorsKept(d),
         job[d].floor # Nil, job'[d].floor = job[d].floor
  PROVE  /\ Fid(d)' = Fid(d)
         /\ Floor(d).owner = UserOf[d] => Floor(d)' = Floor(d)
         /\ Floor(d)'.owner = UserOf[d] => Floor(d).owner = UserOf[d]
<1>1. job[d].floor \in Cells /\ Registered(job[d].floor)
  BY DEF PointersOf, TypeOK, Jobs
<1>. QED  BY <1>1 DEF FloorsKept, Fid, Floor

LEMMA ForeignKeeps ==
  ASSUME TypeOK, NEW d \in Conns, ClientInv(d), Foreign(d)
  PROVE  ClientInv(d)'
<1>. DEFINE u == UserOf[d]
<1>0. /\ PointersOf(d) /\ FloorsKept(d)
      /\ pc'[d] = pc[d] /\ job'[d] = job[d] /\ session'[d] = session[d]
  BY DEF ClientInv, Foreign
<1>1. \A o \in Cells : Registered(o) => Registered(o)'
  BY <1>0, KeptFloors
<1>2. \A f \in FloorIDs : /\ Owns(f, u)' <=> Owns(f, u)
                          /\ Owns(f, u)' => floors'[f] = floors[f]
  BY <1>0, KeptFloors
<1>3. \A f \in FloorIDs : HolderIs(f, u)' <=> HolderIs(f, u)
  BY <1>0, KeptFloors
<1>4. job[d].floor # Nil => /\ Fid(d)' = Fid(d)
                            /\ Floor(d).owner = u => Floor(d)' = Floor(d)
                            /\ Floor(d)'.owner = u => Floor(d).owner = u
  BY <1>0, KeptPointer
<1>5. pc[d] \in FloorLabels => job[d].floor # Nil  BY <1>0 DEF PointersOf
<1>6. job[d].floor \in Cells \cup {Nil} /\ job[d].todo \in SUBSET Cells
  BY DEF TypeOK, Jobs
<1>7. PointersOf(d)'  BY <1>0, <1>1, <1>6 DEF PointersOf
<1>8. RequestOf(d)'
  BY <1>0, <1>4, <1>5 DEF ClientInv, RequestOf, FloorLabels
<1>9. OutcomeOf(d)'
  BY <1>0, <1>4, <1>5 DEF ClientInv, OutcomeOf, FloorLabels
<1>10. ToldTo(d)'
  <2>1. \A f \in FloorIDs : GivingUp(d, f)' <=> GivingUp(d, f)
    BY <1>0, <1>4, <1>5 DEF GivingUp, FloorLabels
  <2>2. \A f \in FloorIDs : Believes(d, f)' => Believes(d, f)
    BY <2>1 DEF Foreign, Believes
  <2>3. conn'[d] = "none" => conn[d] = "none"  BY DEF Foreign
  <2>4. conn'[d] = "none" => \A f \in FloorIDs : told'[d][f] = "nothing"
    BY <2>3 DEF Foreign, ClientInv, ToldTo
  <2>. QED  BY <1>3, <2>2, <2>4 DEF ClientInv, ToldTo
<1>11. CallbacksOf(d)'
  <2>1. \A f \in FloorIDs : u \in active'[f] <=> u \in active[f]
    BY DEF Foreign
  <2>2. pc[d] \in {"granted", "released", "byeBroadcast"} => Fid(d)' = Fid(d)
    BY <1>4, <1>5 DEF FloorLabels
  <2>. QED  BY <1>0, <1>3, <2>1, <2>2 DEF ClientInv, CallbacksOf
<1>12. GoodbyeOf(d)'
  <2>1. session[d] = "Disconnected" => conn'[d] = "closed"
    BY DEF Foreign, ClientInv, GoodbyeOf
  <2>. QED  BY <1>0, <1>2, <2>1 DEF ClientInv, GoodbyeOf
<1>. QED  BY <1>7, <1>8, <1>9, <1>10, <1>11, <1>12 DEF ClientInv

-----------------------------------------------------------------------------
(***************************************************************************)
(* A step of d's own keeps d's invariant.                                  *)
(***************************************************************************)

\* A registered cell is one floor identifier's.
LEMMA FidOfCell ==
  ASSUME FloorInv, NEW o \in Cells, Registered(o)
  PROVE  fsm[o].fid \in FloorIDs /\ floors[fsm[o].fid] = o
BY ConstantsAssumption DEF FloorInv, Registered, MapIsFaithful

\* A method applied to a registered cell concerns that identifier only.
LEMMA AtCell ==
  ASSUME FloorInv, NEW d \in Conns, NEW g \in FloorIDs, NEW o \in Cells,
         floors[g] = o, floors' = floors,
         \A p \in Cells : p # o => fsm'[p] = fsm[p]
  PROVE  /\ \A p \in Cells : Registered(p) => Registered(p)'
         /\ \A f \in FloorIDs : f # g =>
              /\ floors[f] # o
              /\ Owns(f, UserOf[d])' <=> Owns(f, UserOf[d])
              /\ HolderIs(f, UserOf[d])' <=> HolderIs(f, UserOf[d])
         /\ Owns(g, UserOf[d])' <=> fsm'[o].owner = UserOf[d]
         /\ HolderIs(g, UserOf[d])' <=>
              fsm'[o].state = "Granted" /\ fsm'[o].owner = UserOf[d]
<1>. DEFINE u == UserOf[d]
<1>0. TypeOK /\ MapIsFaithful /\ o # Nil
  BY ConstantsAssumption DEF FloorInv
<1>1. \A f \in FloorIDs : f # g => floors[f] # o
  BY <1>0 DEF MapIsFaithful
<1>2. \A f \in FloorIDs : f # g => /\ Owns(f, u)' <=> Owns(f, u)
                                   /\ HolderIs(f, u)' <=> HolderIs(f, u)
  BY <1>0, <1>1 DEF Owns, HolderIs, TypeOK
<1>3. /\ Owns(g, u)' <=> fsm'[o].owner = u
      /\ HolderIs(g, u)' <=> fsm'[o].state = "Granted" /\ fsm'[o].owner = u
  BY <1>0 DEF Owns, HolderIs
<1>4. \A p \in Cells : Registered(p) => Registered(p)'  BY DEF Registered
<1>. QED  BY <1>1, <1>2, <1>3, <1>4

LEMMA OwnConnection ==
  ASSUME TypeOK, NEW d \in Conns, ClientInv(d), ConnectionStep(d) \/ Hello(d)
  PROVE  ClientInv(d)'
<1>. USE DEF ClientInv, TypeOK
<1>1. UNCHANGED <<floors, fsm, active>> /\ pc'[d] = pc[d] /\ job'[d] = job[d]
  BY DEF ConnectionStep, Accept, PeerLost, ReadExit, Keepalive, Hello
<1>2. PointersOf(d)'  BY <1>1 DEF PointersOf, Registered
<1>3. RequestOf(d)'  BY <1>1 DEF RequestOf, Floor
<1>4. OutcomeOf(d)'  BY <1>1 DEF OutcomeOf, Floor
<1>5. ToldTo(d)'
  <2>1. \A f \in FloorIDs : /\ HolderIs(f, UserOf[d])' <=> HolderIs(f, UserOf[d])
                            /\ GivingUp(d, f)' <=> GivingUp(d, f)
    BY <1>1 DEF HolderIs, GivingUp, Fid, Floor
  <2>2. CASE Accept(d)  BY <2>1, <2>2 DEF Accept, ToldTo, Believes
  <2>3. CASE PeerLost(d)  BY <2>1, <2>3 DEF PeerLost, ToldTo, Believes
  <2>4. CASE ReadExit(d)  BY <2>1, <2>4 DEF ReadExit, ToldTo, Believes
  <2>5. CASE Keepalive(d)  BY <2>1, <2>5 DEF Keepalive, ToldTo, Believes
  <2>6. CASE Hello(d)  BY <2>1, <2>6 DEF Hello, ToldTo, Believes
  <2>. QED  BY <2>2, <2>3, <2>4, <2>5, <2>6 DEF ConnectionStep
<1>6. CallbacksOf(d)'  BY <1>1 DEF CallbacksOf, HolderIs, Fid, Floor
<1>7. GoodbyeOf(d)'
  <2>1. session'[d] = "Disconnected" => session[d] = "Disconnected" /\ conn'[d] = conn[d]
    BY DEF ConnectionStep, Accept, PeerLost, ReadExit, Keepalive, Hello, GoodbyeOf
  <2>. QED  BY <1>1, <2>1 DEF GoodbyeOf, Owns
<1>. QED  BY <1>2, <1>3, <1>4, <1>5, <1>6, <1>7

\* A message taken from the read loop, other than Hello: only the pointers and,
\* for a Goodbye, the list of floors to release are new.
LEMMA OwnDispatch ==
  ASSUME NamedUsers, FloorInv, NEW d \in Conns, ClientInv(d), Dispatch(d),
         ~Hello(d)
  PROVE  ClientInv(d)'
<1>. DEFINE u == UserOf[d]
<1>. USE DEF Goto, connVars, floorVars, seenVars
<1>0. TypeOK  BY DEF FloorInv
<1>1. ASSUME pc[d] = "read", pc'[d] \in {"request", "fallback", "release", "query", "goodbye"},
             UNCHANGED <<conn, session, told, active>>, FloorsKept(d),
             PointersOf(d)',
             pc'[d] = "goodbye" =>
               \A f \in FloorIDs : Owns(f, u)' => floors'[f] \in job'[d].todo,
             conn[d] = "open"
      PROVE  ClientInv(d)'
  <2>1. \A f \in FloorIDs : /\ HolderIs(f, u)' <=> HolderIs(f, u)
                            /\ Owns(f, u)' <=> Owns(f, u)
    BY <1>0, <1>1, KeptFloors
  <2>2. RequestOf(d)' /\ OutcomeOf(d)'  BY <1>1 DEF RequestOf, OutcomeOf
  <2>3. ToldTo(d)'
    <3>1. \A f \in FloorIDs : Believes(d, f)' => Believes(d, f)
      BY <1>1 DEF Believes, GivingUp
    <3>. QED  BY <1>1, <2>1, <3>1 DEF ClientInv, ToldTo
  <2>4. CallbacksOf(d)'
    <3>1. \A f \in FloorIDs : u \in active[f] <=> HolderIs(f, u)
      BY <1>1 DEF ClientInv, CallbacksOf
    <3>. QED  BY <1>1, <2>1, <3>1 DEF CallbacksOf
  <2>5. GoodbyeOf(d)'
    <3>1. session[d] # "Disconnected"  BY <1>1 DEF ClientInv, GoodbyeOf
    <3>. QED  BY <1>1, <3>1 DEF GoodbyeOf
  <2>. QED  BY <1>1, <2>2, <2>3, <2>4, <2>5 DEF ClientInv
<1>2. ASSUME NEW f \in FloorIDs, NEW g \in Decisions, HandleFloorRequest(d, f, g)
      PROVE  ClientInv(d)'
  <2>1. PICK o \in Cells :
          /\ (floors[f] = o /\ UNCHANGED floorVars) \/ NewFloor(f, o)
          /\ job' = [job EXCEPT ![d] =
               [NoJob EXCEPT !.floor = o, !.req = NextID, !.grant = g]]
    BY <1>2 DEF HandleFloorRequest
  <2>2. job'[d].floor = o /\ job'[d].todo = {}
    BY <1>0, <2>1 DEF TypeOK, NoJob
  <2>3. floors'[f] = o  BY <1>0, <2>1 DEF NewFloor, TypeOK
  <2>4. FloorsKept(d)  BY <1>0, <2>1, NewFloorKeeps, NothingKeeps
  <2>5. PointersOf(d)'
    BY <2>2, <2>3, ConstantsAssumption DEF PointersOf, Registered
  <2>6. pc[d] = "read" /\ pc'[d] = "request" /\ conn[d] = "open"
    BY <1>0, <1>2 DEF HandleFloorRequest, Reading, TypeOK
  <2>. QED  BY <1>1, <1>2, <2>4, <2>5, <2>6 DEF HandleFloorRequest
<1>3. ASSUME NEW f \in FloorIDs, floors[f] # Nil, StartRelease(d, floors[f]),
             UNCHANGED floors
      PROVE  PointersOf(d)' /\ pc'[d] = "release"
  <2>1. job'[d].floor = floors[f] /\ job'[d].todo = {} /\ pc'[d] = "release"
    BY <1>0, <1>3 DEF TypeOK, NoJob, StartRelease
  <2>. QED  BY <1>3, <2>1 DEF PointersOf, Registered
<1>4. ASSUME NEW f \in FloorIDs, ReleaseByFloorID(d, f)  PROVE ClientInv(d)'
  <2>1. FloorsKept(d)  BY <1>4, NothingKeeps DEF ReleaseByFloorID
  <2>. QED  BY <1>1, <1>3, <1>4, <2>1 DEF ReleaseByFloorID, Reading
<1>5. ASSUME NEW r \in RequestIDs, ReleaseByRequestID(d, r)  PROVE ClientInv(d)'
  <2>1. FloorsKept(d) /\ UNCHANGED floors
    BY <1>5, NothingKeeps DEF ReleaseByRequestID
  <2>2. PointersOf(d)' /\ pc'[d] \in {"release", "fallback"}
    <3>1. CASE \E f \in FloorsByRequestID(r) : StartRelease(d, floors[f])
      BY <1>3, <2>1, <3>1 DEF FloorsByRequestID
    <3>2. CASE Goto(d, "fallback") /\ UNCHANGED job
      <4>1. pc'[d] = "fallback" /\ job'[d] = job[d]  BY <1>0, <3>2 DEF TypeOK
      <4>. QED  BY <2>1, <4>1 DEF ClientInv, PointersOf, Registered, FloorLabels
    <3>. QED  BY <1>5, <3>1, <3>2 DEF ReleaseByRequestID
  <2>. QED  BY <1>1, <1>5, <2>1, <2>2 DEF ReleaseByRequestID, Reading
<1>6. ASSUME NEW f \in FloorIDs, HandleFloorQuery(d, f)  PROVE ClientInv(d)'
  <2>1. FloorsKept(d)  BY <1>6, NothingKeeps DEF HandleFloorQuery
  <2>2. job'[d].floor = floors[f] /\ job'[d].todo = {} /\ pc'[d] = "query"
    BY <1>0, <1>6 DEF TypeOK, NoJob, HandleFloorQuery
  <2>3. PointersOf(d)'
    BY <1>6, <2>2 DEF HandleFloorQuery, PointersOf, Registered
  <2>. QED  BY <1>1, <1>6, <2>1, <2>2, <2>3 DEF HandleFloorQuery, Reading
<1>7. CASE HandleGoodbye(d)
  <2>1. FloorsKept(d)  BY <1>7, NothingKeeps DEF HandleGoodbye
  <2>2. /\ job'[d].floor = Nil /\ pc'[d] = "goodbye"
        /\ job'[d].todo = {o \in Cells : Registered(o) /\ fsm[o].owner = u}
    BY <1>0, <1>7 DEF TypeOK, NoJob, HandleGoodbye, Registered
  <2>3. UNCHANGED <<floors, fsm>>  BY <1>7 DEF HandleGoodbye
  <2>4. PointersOf(d)'
    BY <2>2, <2>3 DEF PointersOf, Registered, FloorLabels
  <2>5. \A f \in FloorIDs : Owns(f, u)' => floors'[f] \in job'[d].todo
    BY <1>0, <2>2, <2>3 DEF Owns, Registered, TypeOK
  <2>. QED  BY <1>1, <1>7, <2>1, <2>2, <2>4, <2>5 DEF HandleGoodbye, Reading
<1>. QED  BY <1>2, <1>4, <1>5, <1>6, <1>7 DEF Dispatch

\* A handler that returns with nothing more to tell.
LEMMA OwnReturn ==
  ASSUME TypeOK, NEW d \in Conns, ClientInv(d), Return(d),
         pc[d] \in {"request", "decide", "fallback", "release", "broadcast", "query"},
         UNCHANGED <<conn, session, told, active, floors, fsm>>
  PROVE  ClientInv(d)'
<1>1. pc'[d] = "read" /\ job'[d].floor = Nil /\ job'[d].todo = {}
  BY DEF Return, Goto, TypeOK, NoJob
<1>2. PointersOf(d)' /\ RequestOf(d)' /\ OutcomeOf(d)'
  BY <1>1 DEF PointersOf, FloorLabels, RequestOf, OutcomeOf
<1>3. ToldTo(d)'
  BY <1>1 DEF ClientInv, ToldTo, Believes, GivingUp, HolderIs
<1>4. CallbacksOf(d)'  BY <1>1 DEF ClientInv, CallbacksOf, HolderIs
<1>5. GoodbyeOf(d)'  BY <1>1 DEF ClientInv, GoodbyeOf
<1>. QED  BY <1>2, <1>3, <1>4, <1>5 DEF ClientInv

\* The handler's writes and callbacks: the floors do not change.
LEMMA OwnTelling ==
  ASSUME FloorInv, NEW d \in Conns, ClientInv(d),
         \/ SendPending(d) \/ TellGranted(d) \/ TellDenied(d)
         \/ TellReleased(d) \/ SendBroadcast(d) \/ GoodbyeNotify(d)
  PROVE  ClientInv(d)'
<1>. DEFINE u == UserOf[d]
            g == Fid(d)
<1>. USE DEF Goto, Return, connVars, floorVars
<1>0. TypeOK  BY DEF FloorInv
<1>1. /\ pc[d] \in {"pending", "granted", "denied", "released", "broadcast",
                    "byeBroadcast"}
      /\ UNCHANGED <<floors, fsm, conn>>
  BY DEF SendPending, TellGranted, TellDenied, TellReleased, SendBroadcast,
         GoodbyeNotify
<1>2. /\ job[d].floor \in Cells /\ g \in FloorIDs
      /\ floors[g] = job[d].floor /\ floors[g] # Nil
  <2>1. job[d].floor \in Cells /\ Registered(job[d].floor)
    BY <1>0, <1>1 DEF ClientInv, PointersOf, FloorLabels, TypeOK, Jobs
  <2>. QED  BY <2>1, FidOfCell, ConstantsAssumption DEF Fid, Floor
<1>3. HolderIs(g, u) <=> Floor(d).state = "Granted" /\ Floor(d).owner = u
  BY <1>2 DEF HolderIs, Floor
<1>4. session[d] # "Disconnected"  BY <1>1 DEF ClientInv, GoodbyeOf
<1>5. \A f \in FloorIDs : /\ HolderIs(f, u)' <=> HolderIs(f, u)
                          /\ Owns(f, u)' <=> Owns(f, u)
  BY <1>1 DEF HolderIs, Owns
<1>6. ASSUME job'[d].floor = job[d].floor, job'[d].todo = job[d].todo
      PROVE  PointersOf(d)'
  BY <1>1, <1>2, <1>6, ConstantsAssumption DEF ClientInv, PointersOf, Registered
<1>7. CASE SendPending(d)
  <2>1. pc[d] = "pending" /\ pc'[d] = "decide" /\ UNCHANGED <<job, session, active>>
    BY <1>0, <1>7 DEF SendPending, TypeOK
  <2>2. \A f \in FloorIDs : Believes(d, f)' => Believes(d, f)
    BY <1>0, <1>7, <2>1 DEF SendPending, Send, Believes, GivingUp, TypeOK
  <2>3. conn[d] = "none" => told' = told  BY <1>7 DEF SendPending, Send
  <2>4. ToldTo(d)'  BY <1>1, <1>5, <2>2, <2>3 DEF ClientInv, ToldTo
  <2>5. RequestOf(d)'  BY <1>1, <2>1 DEF ClientInv, RequestOf, Floor
  <2>6. OutcomeOf(d)' /\ GoodbyeOf(d)'
    BY <1>4, <2>1 DEF OutcomeOf, GoodbyeOf
  <2>7. CallbacksOf(d)'  BY <1>5, <2>1 DEF ClientInv, CallbacksOf
  <2>. QED  BY <1>6, <2>1, <2>4, <2>5, <2>6, <2>7 DEF ClientInv
<1>8. CASE TellGranted(d)
  <2>1. /\ pc[d] = "granted" /\ pc'[d] = "read"
        /\ job'[d].floor = Nil /\ job'[d].todo = {}
        /\ session'[d] = "FloorGranted"
        /\ active' = [active EXCEPT ![g] = @ \cup {u}]
    BY <1>0, <1>8 DEF TellGranted, TypeOK, NoJob
  <2>2. HolderIs(g, u)  BY <1>3, <2>1 DEF ClientInv, OutcomeOf
  <2>3. \A f \in FloorIDs : Believes(d, f)' => f = g \/ Believes(d, f)
    BY <1>0, <1>8, <2>1 DEF TellGranted, Send, Believes, GivingUp, TypeOK
  <2>4. conn[d] = "none" => told' = told  BY <1>8 DEF TellGranted, Send
  <2>5. ToldTo(d)'
    <3>1. \A f \in FloorIDs : Believes(d, f)' => HolderIs(f, u)'
      BY <1>5, <2>2, <2>3 DEF ClientInv, ToldTo
    <3>. QED  BY <1>1, <2>4, <3>1 DEF ClientInv, ToldTo
  <2>6. CallbacksOf(d)'
    <3>1. \A f \in FloorIDs : f # g => (u \in active[f] <=> HolderIs(f, u))
      BY DEF ClientInv, CallbacksOf
    <3>2. \A f \in FloorIDs : u \in active'[f] <=> f = g \/ u \in active[f]
      BY <1>0, <2>1 DEF TypeOK
    <3>. QED  BY <1>5, <2>2, <3>1, <3>2 DEF CallbacksOf
  <2>7. PointersOf(d)' /\ RequestOf(d)' /\ OutcomeOf(d)' /\ GoodbyeOf(d)'
    BY <2>1 DEF PointersOf, FloorLabels, RequestOf, OutcomeOf, GoodbyeOf
  <2>. QED  BY <2>5, <2>6, <2>7 DEF ClientInv
<1>9. CASE TellDenied(d)
  <2>1. /\ pc[d] = "denied" /\ pc'[d] = "read"
        /\ job'[d].floor = Nil /\ job'[d].todo = {}
        /\ session'[d] = "FloorDenied" /\ UNCHANGED active
    BY <1>0, <1>9 DEF TellDenied, TypeOK, NoJob
  <2>2. \A f \in FloorIDs : Believes(d, f)' => Believes(d, f)
    BY <1>0, <1>9, <2>1 DEF TellDenied, Send, Believes, GivingUp, TypeOK
  <2>3. conn[d] = "none" => told' = told  BY <1>9 DEF TellDenied, Send
  <2>4. ToldTo(d)'  BY <1>1, <1>5, <2>2, <2>3 DEF ClientInv, ToldTo
  <2>5. CallbacksOf(d)'  BY <1>5, <2>1 DEF ClientInv, CallbacksOf
  <2>6. PointersOf(d)' /\ RequestOf(d)' /\ OutcomeOf(d)' /\ GoodbyeOf(d)'
    BY <2>1 DEF PointersOf, FloorLabels, RequestOf, OutcomeOf, GoodbyeOf
  <2>. QED  BY <2>4, <2>5, <2>6 DEF ClientInv
<1>10. CASE TellReleased(d)
  <2>1. /\ pc[d] = "released" /\ pc'[d] = "broadcast"
        /\ job'[d].floor = job[d].floor /\ job'[d].todo = job[d].todo
        /\ session'[d] = "FloorReleased"
        /\ active' = [active EXCEPT ![g] = @ \ {u}]
    BY <1>0, <1>10 DEF TellReleased, TypeOK, Jobs
  <2>2. ~HolderIs(g, u)  BY <1>3, <2>1 DEF ClientInv, OutcomeOf
  <2>3. \A f \in FloorIDs : Believes(d, f)' => Believes(d, f)
    BY <1>0, <1>2, <1>10, <2>1 DEF TellReleased, Send, Believes, GivingUp, TypeOK
  <2>4. conn[d] = "none" => told' = told  BY <1>10 DEF TellReleased, Send
  <2>5. ToldTo(d)'  BY <1>1, <1>5, <2>3, <2>4 DEF ClientInv, ToldTo
  <2>6. CallbacksOf(d)'
    <3>1. \A f \in FloorIDs : f # g => (u \in active[f] <=> HolderIs(f, u))
      BY DEF ClientInv, CallbacksOf
    <3>2. \A f \in FloorIDs : u \in active'[f] <=> f # g /\ u \in active[f]
      BY <1>0, <2>1 DEF TypeOK
    <3>. QED  BY <1>5, <2>2, <3>1, <3>2 DEF CallbacksOf
  <2>7. RequestOf(d)' /\ OutcomeOf(d)' /\ GoodbyeOf(d)'
    BY <2>1 DEF RequestOf, OutcomeOf, GoodbyeOf
  <2>. QED  BY <1>6, <2>1, <2>5, <2>6, <2>7 DEF ClientInv
<1>11. CASE SendBroadcast(d)
  <2>1. PICK e \in job[d].dest : /\ Send(e, g, "Released")
                                 /\ job' = [job EXCEPT ![d].dest = @ \ {e}]
    BY <1>11 DEF SendBroadcast
  <2>2. /\ job'[d].floor = job[d].floor /\ job'[d].todo = job[d].todo
        /\ UNCHANGED <<pc, session, active>>
        /\ pc[d] \in {"broadcast", "byeBroadcast"}
    BY <1>0, <1>11, <2>1 DEF SendBroadcast, TypeOK, Jobs
  <2>3. Floor(d)' = Floor(d) /\ Fid(d)' = Fid(d)
    BY <1>1, <2>2 DEF Floor, Fid
  <2>4. \A f \in FloorIDs : Believes(d, f)' => Believes(d, f)
    BY <1>0, <1>1, <2>1, <2>2, <2>3 DEF Send, Believes, GivingUp, TypeOK
  <2>5. conn[d] = "none" =>
          \A f \in FloorIDs : told'[d][f] = told[d][f]
    BY <1>0, <2>1 DEF Send, TypeOK
  <2>6. ToldTo(d)'  BY <1>1, <1>5, <2>4, <2>5 DEF ClientInv, ToldTo
  <2>7. RequestOf(d)' /\ OutcomeOf(d)' /\ CallbacksOf(d)'
    BY <1>5, <2>2, <2>3 DEF ClientInv, RequestOf, OutcomeOf, CallbacksOf
  <2>8. GoodbyeOf(d)'  BY <1>1, <1>4, <1>5, <2>2 DEF ClientInv, GoodbyeOf
  <2>. QED  BY <1>6, <2>2, <2>6, <2>7, <2>8 DEF ClientInv
<1>12. CASE GoodbyeNotify(d)
  <2>1. /\ pc[d] = "byeBroadcast" /\ pc'[d] = "goodbye"
        /\ UNCHANGED <<job, session, told>>
        /\ active' = [active EXCEPT ![g] = @ \ {u}]
    BY <1>0, <1>12 DEF GoodbyeNotify, TypeOK
  <2>2. ~HolderIs(g, u)  BY <1>3, <2>1 DEF ClientInv, OutcomeOf
  <2>3. ToldTo(d)'
    BY <1>1, <1>5, <2>1 DEF ClientInv, ToldTo, Believes, GivingUp
  <2>4. CallbacksOf(d)'
    <3>1. \A f \in FloorIDs : f # g => (u \in active[f] <=> HolderIs(f, u))
      BY DEF ClientInv, CallbacksOf
    <3>2. \A f \in FloorIDs : u \in active'[f] <=> f # g /\ u \in active[f]
      BY <1>0, <2>1 DEF TypeOK
    <3>. QED  BY <1>5, <2>2, <3>1, <3>2 DEF CallbacksOf
  <2>5. RequestOf(d)' /\ OutcomeOf(d)'  BY <2>1 DEF RequestOf, OutcomeOf
  <2>6. GoodbyeOf(d)'  BY <1>1, <1>4, <1>5, <2>1 DEF ClientInv, GoodbyeOf
  <2>. QED  BY <1>6, <2>1, <2>3, <2>4, <2>5, <2>6 DEF ClientInv
<1>. QED  BY <1>7, <1>8, <1>9, <1>10, <1>11, <1>12

\* The handler's floor methods of handleFloorRequest and handleFloorRelease.
LEMMA OwnMethod ==
  ASSUME NamedUsers, FloorInv, NEW d \in Conns, ClientInv(d),
         FloorRequest(d) \/ Decide(d) \/ FloorRelease(d)
  PROVE  ClientInv(d)'
<1>. DEFINE u == UserOf[d]
<1>. USE DEF Goto, connVars, seenVars
<1>0. TypeOK /\ u # NoUser  BY DEF NamedUsers, FloorInv
<1>1. /\ pc[d] \in {"request", "decide", "release"}
      /\ UNCHANGED <<floors, conn, session, told, active>>
  BY DEF FloorRequest, Decide, FloorRelease
<1>2. PICK o \in Cells : o = job[d].floor /\ Registered(o)
  BY <1>0, <1>1 DEF ClientInv, PointersOf, FloorLabels, TypeOK, Jobs
<1>3. PICK g \in FloorIDs : fsm[o].fid = g /\ floors[g] = o
  BY <1>2, FidOfCell
<1>4. fsm[o] \in Floors  BY <1>0 DEF TypeOK
<1>5. session[d] # "Disconnected"  BY <1>1 DEF ClientInv, GoodbyeOf
<1>6. \A f \in FloorIDs : u \in active[f] <=> HolderIs(f, u)
  BY <1>1 DEF ClientInv, CallbacksOf
<1>7. HolderIs(g, u) <=> fsm[o].state = "Granted" /\ fsm[o].owner = u
  BY <1>3, ConstantsAssumption DEF HolderIs
\* What every successful method has in common.
<1>8. ASSUME NEW m \in Floors, fsm' = [fsm EXCEPT ![o] = m], UNCHANGED job,
             m.fid = g,
             pc'[d] \in {"pending", "granted", "denied", "released"},
             HolderIs(g, u) =>
               (m.state = "Granted" /\ m.owner = u) \/ pc'[d] = "released",
             m.state = "Granted" /\ m.owner = u =>
               HolderIs(g, u) \/ pc'[d] = "granted",
             RequestOf(d)', OutcomeOf(d)'
      PROVE  ClientInv(d)'
  <2>1. /\ \A p \in Cells : Registered(p) => Registered(p)'
        /\ fsm'[o] = m
        /\ \A f \in FloorIDs : f # g => (HolderIs(f, u)' <=> HolderIs(f, u))
        /\ HolderIs(g, u)' <=> m.state = "Granted" /\ m.owner = u
    <3>1. fsm'[o] = m /\ \A p \in Cells : p # o => fsm'[p] = fsm[p]
      BY <1>0, <1>8 DEF TypeOK
    <3>. QED  BY <1>1, <1>3, <3>1, AtCell
  <2>2. Fid(d)' = g  BY <1>2, <1>8, <2>1 DEF Fid, Floor
  <2>3. PointersOf(d)'
    <3>1. job[d].todo \in SUBSET Cells  BY <1>0 DEF TypeOK, Jobs
    <3>2. o # Nil  BY ConstantsAssumption
    <3>. QED  BY <1>2, <1>8, <2>1, <3>1, <3>2 DEF ClientInv, PointersOf
  <2>4. ToldTo(d)'
    <3>1. \A f \in FloorIDs : Believes(d, f)' =>
            Believes(d, f) /\ ~(f = g /\ pc'[d] = "released")
      BY <1>1, <1>8, <2>2 DEF Believes, GivingUp
    <3>2. \A f \in FloorIDs : Believes(d, f)' => HolderIs(f, u)'
      BY <1>8, <2>1, <3>1 DEF ClientInv, ToldTo
    <3>. QED  BY <1>1, <3>2 DEF ClientInv, ToldTo
  <2>5. CallbacksOf(d)'
    <3>1. \A f \in FloorIDs : f # g => (u \in active'[f] <=> HolderIs(f, u)')
      BY <1>1, <1>6, <2>1
    <3>2. \/ u \in active'[g] <=> HolderIs(g, u)'
          \/ pc'[d] \in {"granted", "released"}
      BY <1>1, <1>6, <1>8, <2>1
    <3>. QED  BY <2>2, <3>1, <3>2 DEF CallbacksOf
  <2>6. GoodbyeOf(d)'  BY <1>1, <1>5, <1>8 DEF GoodbyeOf
  <2>. QED  BY <1>8, <2>3, <2>4, <2>5, <2>6 DEF ClientInv
<1>9. CASE FloorRequest(d)
  <2>1. CASE CanRequest(Floor(d))
    <3>. DEFINE m == Request(fsm[o], u, job[d].req)
    <3>1. job[d].req \in RequestIDs  BY <1>0 DEF TypeOK, Jobs
    <3>2. m \in Floors  BY <1>4, <3>1, FloorTypes, UserTypes
    <3>3. /\ m.fid = g /\ m.state = "Pending" /\ m.owner = u
          /\ m.requestID = job[d].req
      BY <1>3, <1>4 DEF Request, Floors
    <3>4. fsm' = [fsm EXCEPT ![o] = m] /\ UNCHANGED job /\ pc'[d] = "pending"
      BY <1>0, <1>2, <1>9, <2>1 DEF FloorRequest, Floor, TypeOK
    <3>5. ~HolderIs(g, u)  BY <1>2, <1>7, <2>1 DEF CanRequest, Floor
    <3>. HIDE DEF m
    <3>6. fsm'[o] = m  BY <1>0, <3>4 DEF TypeOK
    <3>7. RequestOf(d)' /\ OutcomeOf(d)'
      BY <1>2, <3>3, <3>4, <3>6 DEF RequestOf, OutcomeOf, Floor
    <3>. QED  BY <1>8, <3>2, <3>3, <3>4, <3>5, <3>7
  <2>2. CASE ~CanRequest(Floor(d))
    BY <1>0, <1>1, <1>9, <2>2, OwnReturn DEF FloorRequest
  <2>. QED  BY <2>1, <2>2
<1>10. CASE Decide(d)
  <2>1. fsm[o].state = "Pending" /\ fsm[o].owner = u
    BY <1>2, <1>10 DEF Decide, ClientInv, RequestOf, Floor
  <2>2. CASE job[d].grant
    <3>. DEFINE m == Grant(fsm[o])
    <3>1. m \in Floors  BY <1>4, FloorTypes
    <3>2. m.fid = g /\ m.state = "Granted" /\ m.owner = u
      BY <1>3, <1>4, <2>1 DEF Grant, Floors
    <3>3. fsm' = [fsm EXCEPT ![o] = m] /\ UNCHANGED job /\ pc'[d] = "granted"
      BY <1>0, <1>2, <1>10, <2>1, <2>2
      DEF Decide, CanGrant, CanDeny, Floor, TypeOK
    <3>. HIDE DEF m
    <3>4. fsm'[o] = m  BY <1>0, <3>3 DEF TypeOK
    <3>5. RequestOf(d)' /\ OutcomeOf(d)'
      BY <1>2, <3>2, <3>3, <3>4 DEF RequestOf, OutcomeOf, Floor
    <3>. QED  BY <1>8, <3>1, <3>2, <3>3, <3>5
  <2>3. CASE ~job[d].grant
    <3>. DEFINE m == Deny(fsm[o])
    <3>1. m \in Floors  BY <1>4, FloorTypes
    <3>2. m.fid = g /\ m.state = "Denied"
      BY <1>3, <1>4 DEF Deny, Floors
    <3>3. fsm' = [fsm EXCEPT ![o] = m] /\ UNCHANGED job /\ pc'[d] = "denied"
      BY <1>0, <1>2, <1>10, <2>1, <2>3
      DEF Decide, CanGrant, CanDeny, Floor, TypeOK
    <3>4. ~HolderIs(g, u)  BY <1>7, <2>1
    <3>. HIDE DEF m
    <3>5. RequestOf(d)' /\ OutcomeOf(d)'
      BY <3>3 DEF RequestOf, OutcomeOf
    <3>. QED  BY <1>8, <3>1, <3>2, <3>3, <3>4, <3>5
  <2>. QED  BY <2>2, <2>3
<1>11. CASE FloorRelease(d)
  <2>1. CASE CanRelease(Floor(d), u)
    <3>. DEFINE m == Release(fsm[o])
    <3>1. m \in Floors  BY <1>4, FloorTypes
    <3>2. m.fid = g /\ m.state = "Released" /\ m.owner = NoUser
      BY <1>3, <1>4 DEF Release, Floors
    <3>3. fsm' = [fsm EXCEPT ![o] = m] /\ UNCHANGED job /\ pc'[d] = "released"
      BY <1>0, <1>2, <1>11, <2>1 DEF FloorRelease, Floor, TypeOK
    <3>. HIDE DEF m
    <3>4. fsm'[o] = m  BY <1>0, <3>3 DEF TypeOK
    <3>5. RequestOf(d)' /\ OutcomeOf(d)'
      BY <1>0, <1>2, <3>2, <3>3, <3>4 DEF RequestOf, OutcomeOf, Floor
    <3>. QED  BY <1>8, <3>1, <3>2, <3>3, <3>5
  <2>2. CASE ~CanRelease(Floor(d), u)
    BY <1>0, <1>1, <1>11, <2>2, OwnReturn DEF FloorRelease
  <2>. QED  BY <2>1, <2>2
<1>. QED  BY <1>9, <1>10, <1>11

\* The rest of handleGoodbye, and the handlers' ways back to the read loop.
LEMMA OwnGoodbye ==
  ASSUME NamedUsers, FloorInv, NEW d \in Conns, ClientInv(d),
         GoodbyeRelease(d)
  PROVE  ClientInv(d)'
<1>. DEFINE u == UserOf[d]
<1>. USE DEF Goto, connVars, seenVars
<1>0. TypeOK /\ u # NoUser  BY DEF NamedUsers, FloorInv
<1>1. /\ pc[d] = "goodbye" /\ session[d] # "Disconnected"
      /\ UNCHANGED <<floors, conn, session, told, active>>
      /\ job[d].todo \in SUBSET Cells
  BY <1>0 DEF GoodbyeRelease, ClientInv, GoodbyeOf, TypeOK, Jobs
<1>2. \A f \in FloorIDs : u \in active[f] <=> HolderIs(f, u)
  BY <1>1 DEF ClientInv, CallbacksOf
<1>3. PICK o \in job[d].todo :
        IF CanRelease(fsm[o], u)
          THEN /\ fsm' = [fsm EXCEPT ![o] = Release(fsm[o])]
               /\ job' = [job EXCEPT ![d] = [NoJob EXCEPT
                    !.floor = o, !.todo = job[d].todo \ {o},
                    !.dest = sessions \ {d}]]
               /\ Goto(d, "byeBroadcast")
          ELSE /\ job' = [job EXCEPT ![d].todo = @ \ {o}]
               /\ UNCHANGED <<fsm, pc>>
  BY DEF GoodbyeRelease
<1>4. o \in Cells /\ Registered(o) /\ o # Nil
  BY <1>1, ConstantsAssumption DEF ClientInv, PointersOf
<1>5. PICK g \in FloorIDs : fsm[o].fid = g /\ floors[g] = o
  BY <1>4, FidOfCell
<1>6. CASE CanRelease(fsm[o], u)
  <2>. DEFINE m == Release(fsm[o])
  <2>1. m.fid = g /\ m.state = "Released" /\ m.owner = NoUser
    <3>1. fsm[o] \in Floors  BY <1>0, <1>4 DEF TypeOK
    <3>. QED  BY <1>5, <3>1 DEF Release, Floors
  <2>2. fsm' = [fsm EXCEPT ![o] = m]  BY <1>3, <1>6
  <2>3. /\ pc'[d] = "byeBroadcast" /\ job'[d].floor = o
        /\ job'[d].todo = job[d].todo \ {o}
    <3>1. /\ job' = [job EXCEPT ![d] = [NoJob EXCEPT
               !.floor = o, !.todo = job[d].todo \ {o}, !.dest = sessions \ {d}]]
          /\ pc' = [pc EXCEPT ![d] = "byeBroadcast"]
      BY <1>3, <1>6
    <3>. QED  BY <1>0, <3>1 DEF TypeOK, NoJob
  <2>. HIDE DEF m
  <2>4. /\ \A p \in Cells : Registered(p) => Registered(p)'
        /\ fsm'[o] = m
        /\ \A f \in FloorIDs : f # g =>
             /\ floors[f] # o
             /\ Owns(f, u)' <=> Owns(f, u)
             /\ HolderIs(f, u)' <=> HolderIs(f, u)
        /\ Owns(g, u)' <=> m.owner = u
    <3>1. fsm'[o] = m /\ \A p \in Cells : p # o => fsm'[p] = fsm[p]
      BY <1>0, <1>4, <2>2 DEF TypeOK
    <3>. QED  BY <1>1, <1>4, <1>5, <3>1, AtCell
  <2>5. PointersOf(d)'
    BY <1>1, <1>4, <2>3, <2>4 DEF ClientInv, PointersOf
  <2>6. RequestOf(d)' /\ OutcomeOf(d)'
    BY <1>0, <2>1, <2>3, <2>4 DEF RequestOf, OutcomeOf, Floor
  <2>7. ToldTo(d)'
    BY <1>1, <2>3 DEF ClientInv, ToldTo, Believes, GivingUp
  <2>8. CallbacksOf(d)'
    <3>1. Fid(d)' = g  BY <2>1, <2>3, <2>4 DEF Fid, Floor
    <3>. QED  BY <1>1, <1>2, <2>3, <2>4, <3>1 DEF CallbacksOf
  <2>9. GoodbyeOf(d)'
    <3>1. \A f \in FloorIDs : Owns(f, u)' => floors'[f] \in job'[d].todo
      BY <1>0, <1>1, <2>1, <2>3, <2>4 DEF ClientInv, GoodbyeOf
    <3>. QED  BY <1>1, <3>1 DEF GoodbyeOf
  <2>. QED  BY <2>5, <2>6, <2>7, <2>8, <2>9 DEF ClientInv
<1>7. CASE ~CanRelease(fsm[o], u)
  <2>1. /\ UNCHANGED <<fsm, pc>> /\ job'[d].floor = job[d].floor
        /\ job'[d].todo = job[d].todo \ {o}
    BY <1>0, <1>3, <1>7 DEF TypeOK, Jobs
  <2>2. PointersOf(d)'
    BY <1>1, <2>1 DEF ClientInv, PointersOf, Registered
  <2>3. RequestOf(d)' /\ OutcomeOf(d)'
    BY <1>1, <2>1 DEF RequestOf, OutcomeOf
  <2>4. ToldTo(d)'
    BY <1>1, <2>1 DEF ClientInv, ToldTo, Believes, GivingUp
  <2>5. CallbacksOf(d)'
    BY <1>1, <1>2, <2>1 DEF CallbacksOf, HolderIs
  <2>6. GoodbyeOf(d)'
    <3>1. fsm[o].owner # u  BY <1>7 DEF CanRelease
    <3>2. \A f \in FloorIDs : Owns(f, u)' => floors'[f] \in job'[d].todo
      BY <1>1, <2>1, <3>1 DEF ClientInv, GoodbyeOf, Owns
    <3>. QED  BY <1>1, <3>2 DEF GoodbyeOf
  <2>. QED  BY <2>2, <2>3, <2>4, <2>5, <2>6 DEF ClientInv
<1>. QED  BY <1>6, <1>7

LEMMA OwnEnd ==
  ASSUME FloorInv, NEW d \in Conns, ClientInv(d),
         ReleaseFallback(d) \/ ReleaseDone(d) \/ AnswerQuery(d) \/ GoodbyeEnd(d)
  PROVE  ClientInv(d)'
<1>. DEFINE u == UserOf[d]
<1>. USE DEF Goto, connVars, floorVars, seenVars
<1>0. TypeOK  BY DEF FloorInv
<1>1. CASE ReleaseDone(d)  BY <1>0, <1>1, OwnReturn DEF ReleaseDone
<1>2. CASE AnswerQuery(d)  BY <1>0, <1>2, OwnReturn DEF AnswerQuery
<1>3. CASE ReleaseFallback(d)
  <2>1. CASE Return(d)  BY <1>0, <1>3, <2>1, OwnReturn DEF ReleaseFallback
  <2>2. CASE \E f \in FloorsOwnedBy(u) : StartRelease(d, floors[f])
    <3>1. PICK f \in FloorIDs : floors[f] # Nil /\ StartRelease(d, floors[f])
      BY <2>2 DEF FloorsOwnedBy
    <3>2. /\ pc[d] = "fallback" /\ pc'[d] = "release"
          /\ job'[d].floor = floors[f] /\ job'[d].todo = {}
          /\ UNCHANGED <<floors, fsm, conn, session, told, active>>
      <4>1. /\ job' = [job EXCEPT ![d] = [NoJob EXCEPT !.floor = floors[f]]]
            /\ pc' = [pc EXCEPT ![d] = "release"]
        BY <3>1 DEF StartRelease
      <4>2. /\ job'[d].floor = floors[f] /\ job'[d].todo = {}
            /\ pc'[d] = "release"
        BY <1>0, <4>1 DEF NoJob, TypeOK
      <4>. QED  BY <1>3, <4>2 DEF ReleaseFallback
    <3>3. PointersOf(d)'
      BY <3>1, <3>2 DEF PointersOf, Registered
    <3>4. RequestOf(d)' /\ OutcomeOf(d)'  BY <3>2 DEF RequestOf, OutcomeOf
    <3>5. ToldTo(d)'
      BY <3>2 DEF ClientInv, ToldTo, Believes, GivingUp, HolderIs
    <3>6. CallbacksOf(d)'  BY <3>2 DEF ClientInv, CallbacksOf, HolderIs
    <3>7. GoodbyeOf(d)'  BY <3>2 DEF ClientInv, GoodbyeOf
    <3>. QED  BY <3>3, <3>4, <3>5, <3>6, <3>7 DEF ClientInv
  <2>. QED  BY <1>3, <2>1, <2>2 DEF ReleaseFallback
<1>4. CASE GoodbyeEnd(d)
  <2>1. /\ pc[d] = "goodbye" /\ job[d].todo = {}
        /\ pc'[d] = "read" /\ conn'[d] = "closed"
        /\ job'[d].floor = Nil /\ job'[d].todo = {}
        /\ UNCHANGED <<floors, fsm, active>>
    BY <1>0, <1>4 DEF GoodbyeEnd, Return, NoJob, TypeOK
  <2>2. PointersOf(d)' /\ RequestOf(d)' /\ OutcomeOf(d)'
    BY <2>1 DEF PointersOf, FloorLabels, RequestOf, OutcomeOf
  <2>3. ToldTo(d)'  BY <2>1 DEF ToldTo, Believes
  <2>4. CallbacksOf(d)'  BY <2>1 DEF ClientInv, CallbacksOf, HolderIs
  <2>5. GoodbyeOf(d)'  BY <2>1 DEF ClientInv, GoodbyeOf, Owns
  <2>. QED  BY <2>2, <2>3, <2>4, <2>5 DEF ClientInv
<1>. QED  BY <1>1, <1>2, <1>3, <1>4

-----------------------------------------------------------------------------
(***************************************************************************)
(* The invariant is inductive, and what follows from it.                   *)
(***************************************************************************)

LEMMA OwnKeeps ==
  ASSUME NamedUsers, FloorInv, NEW d \in Conns, ClientInv(d), StepOf(d)
  PROVE  ClientInv(d)'
<1>1. CASE ConnectionStep(d) \/ Hello(d)
  BY <1>1, OwnConnection DEF FloorInv
<1>2. CASE Dispatch(d) /\ ~Hello(d)  BY <1>2, OwnDispatch
<1>3. CASE HandlerStep(d)
  BY <1>3, OwnMethod, OwnTelling, OwnGoodbye, OwnEnd DEF HandlerStep
<1>. QED  BY <1>1, <1>2, <1>3 DEF StepOf

LEMMA IInvInductive ==
  ASSUME OneConnectionPerUser, HandsOff
  PROVE  Spec => []IInv
<1>1. Init => \A c \in Conns : ClientInv(c)
  BY DEF Init, ClientInv, PointersOf, FloorLabels, NoJob, RequestOf, OutcomeOf,
         ToldTo, Believes, CallbacksOf, HolderIs, GoodbyeOf
<1>2. IInv /\ [Next]_vars => \A c \in Conns : ClientInv(c)'
  <2>. SUFFICES ASSUME IInv, [Next]_vars, NEW c \in Conns  PROVE ClientInv(c)'
    OBVIOUS
  <2>1. NamedUsers /\ FloorInv /\ TypeOK /\ ClientInv(c)
    BY DEF OneConnectionPerUser, IInv, FloorInv
  <2>2. CASE StepOf(c)  BY <2>1, <2>2, OwnKeeps
  <2>3. CASE Foreign(c)  BY <2>1, <2>3, ForeignKeeps
  <2>. QED  BY <2>2, <2>3, OwnOrForeign
<1>. DEFINE Clients == \A c \in Conns : ClientInv(c)
<1>3. Init => Clients  BY <1>1
<1>4. FloorInv /\ Clients /\ [Next]_vars => Clients'  BY <1>2 DEF IInv
<1>5. IInv <=> FloorInv /\ Clients  BY DEF IInv
<1>. HIDE DEF Clients
<1>. QED  BY <1>3, <1>4, <1>5, FloorInvInductive, PTL DEF Spec

\* Nothing overtakes a request between Pending and its decision
\* (handleFloorRequest, server.go:904-917).
THEOREM RequestsAreStable ==
  ASSUME OneConnectionPerUser, HandsOff
  PROVE  Spec => []HandlerKeepsItsRequest
<1>1. IInv => HandlerKeepsItsRequest
  BY DEF IInv, ClientInv, RequestOf, HandlerKeepsItsRequest
<1>. QED  BY <1>1, IInvInductive, PTL

\* A client that was last told Granted holds the floor.
THEOREM GrantsAreTrue ==
  ASSUME OneConnectionPerUser, HandsOff
  PROVE  Spec => []GrantedIsHolder
<1>1. IInv => GrantedIsHolder
  BY DEF IInv, ClientInv, ToldTo, GrantedIsHolder
<1>. QED  BY <1>1, IInvInductive, PTL

\* Mutual exclusion on the wire: no two clients are both last told Granted
\* about one floor.
THEOREM GrantsExclude ==
  ASSUME OneConnectionPerUser, HandsOff
  PROVE  Spec => []ExclusiveGrant
<1>1. IInv => ExclusiveGrant
  BY DEF IInv, ClientInv, ToldTo, ExclusiveGrant, HolderIs, OneConnectionPerUser
<1>. QED  BY <1>1, IInvInductive, PTL

\* OnFloorGranted and OnFloorReleased tell the application who holds a floor.
THEOREM CallbacksPair ==
  ASSUME OneConnectionPerUser, HandsOff
  PROVE  Spec => []CallbacksMatchFloors
<1>1. IInv => CallbacksMatchFloors
  BY DEF IInv, ClientInv, CallbacksOf, CallbacksMatchFloors
<1>. QED  BY <1>1, IInvInductive, PTL

\* A user whose Goodbye has been handled has no floor left
\* (handleGoodbye, server.go:1002).
THEOREM GoodbyeIsFinal ==
  ASSUME OneConnectionPerUser, HandsOff
  PROVE  Spec => []GoodbyeFreesFloors
<1>1. IInv => GoodbyeFreesFloors
  BY DEF IInv, ClientInv, GoodbyeOf, Owns, GoodbyeFreesFloors
<1>. QED  BY <1>1, IInvInductive, PTL

-----------------------------------------------------------------------------
(***************************************************************************)
(* What a single step of the server may do to a granted or a denied floor, *)
(* and that the session map holds live connections only.                   *)
(***************************************************************************)


\* What a handler of c does to the floors: nothing, or it changes one floor,
\* which nobody holds, or is pending, or is released by an owner check that
\* accepts c's user.
MayChange(c, o) ==
  \/ fsm[o].state \in {"Released", "Pending"}
  \/ CanRelease(fsm[o], UserOf[c]) /\ Releases(c, o)

HandlerEffect(c) ==
  \/ UNCHANGED <<floors, fsm>>
  \/ /\ UNCHANGED floors
     /\ \E o \in Cells :
          /\ MayChange(c, o)
          /\ \A p \in Cells : p # o => fsm'[p] = fsm[p]

\* A method called on cell o changes that cell alone, and none if o is nil.
LEMMA OneCell ==
  ASSUME TypeOK, NEW c \in Conns, NEW o \in Cells \cup {Nil}, NEW m,
         UNCHANGED floors, fsm' = [fsm EXCEPT ![o] = m],
         o \in Cells => MayChange(c, o)
  PROVE  HandlerEffect(c)
<1>1. CASE o \in Cells
  <2>1. \A p \in Cells : p # o => fsm'[p] = fsm[p]  BY DEF TypeOK
  <2>. QED  BY <1>1, <2>1 DEF HandlerEffect
<1>2. CASE o \notin Cells
  <2>1. fsm' = fsm  BY <1>2 DEF TypeOK
  <2>. QED  BY <2>1 DEF HandlerEffect
<1>. QED  BY <1>1, <1>2

LEMMA HandlerEffects ==
  ASSUME TypeOK, NEW c \in Conns, HandlerStep(c)
  PROVE  HandlerEffect(c)
<1>. DEFINE o == job[c].floor
<1>0. o \in Cells \cup {Nil} /\ job[c].todo \in SUBSET Cells
  BY DEF TypeOK, Jobs
<1>1. CASE FloorRequest(c)
  <2>1. CASE CanRequest(Floor(c))
    <3>1. MayChange(c, o)  BY <2>1 DEF CanRequest, Floor, MayChange
    <3>2. /\ UNCHANGED floors
          /\ fsm' = [fsm EXCEPT ![o] = Request(fsm[o], UserOf[c], job[c].req)]
      BY <1>1, <2>1 DEF FloorRequest
    <3>. QED  BY <1>0, <3>1, <3>2, OneCell
  <2>2. CASE ~CanRequest(Floor(c))
    BY <1>1, <2>2 DEF FloorRequest, HandlerEffect
  <2>. QED  BY <2>1, <2>2
<1>2. CASE Decide(c)
  <2>1. UNCHANGED floors  BY <1>2 DEF Decide
  <2>2. CASE UNCHANGED fsm  BY <2>1, <2>2 DEF HandlerEffect
  <2>3. CASE Floor(c).state = "Pending" /\ \E m : fsm' = [fsm EXCEPT ![o] = m]
    <3>1. MayChange(c, o)  BY <2>3 DEF Floor, MayChange
    <3>2. PICK m : fsm' = [fsm EXCEPT ![o] = m]  BY <2>3
    <3>. QED  BY <1>0, <2>1, <3>1, <3>2, OneCell
  <2>. QED  BY <1>2, <2>2, <2>3 DEF Decide, CanGrant, CanDeny
<1>3. CASE FloorRelease(c)
  <2>1. CASE CanRelease(Floor(c), UserOf[c])
    <3>1. pc[c] = "release" /\ pc'[c] = "released" /\ job' = job
      BY <1>3, <2>1 DEF FloorRelease, Goto, TypeOK
    <3>2. MayChange(c, o)  BY <2>1, <3>1 DEF Floor, MayChange, Releases
    <3>3. UNCHANGED floors /\ fsm' = [fsm EXCEPT ![o] = Release(fsm[o])]
      BY <1>3, <2>1 DEF FloorRelease
    <3>. QED  BY <1>0, <3>2, <3>3, OneCell
  <2>2. CASE ~CanRelease(Floor(c), UserOf[c])
    BY <1>3, <2>2 DEF FloorRelease, HandlerEffect
  <2>. QED  BY <2>1, <2>2
<1>4. CASE GoodbyeRelease(c)
  <2>1. UNCHANGED floors /\ pc[c] = "goodbye"  BY <1>4 DEF GoodbyeRelease
  <2>2. CASE UNCHANGED fsm  BY <2>1, <2>2 DEF HandlerEffect
  <2>3. ASSUME NEW p \in job[c].todo, CanRelease(fsm[p], UserOf[c]),
               fsm' = [fsm EXCEPT ![p] = Release(fsm[p])],
               Goto(c, "byeBroadcast"), job'[c].floor = p
        PROVE  HandlerEffect(c)
    <3>1. pc'[c] = "byeBroadcast"  BY <2>3 DEF Goto, TypeOK
    <3>2. MayChange(c, p)  BY <2>1, <2>3, <3>1 DEF MayChange, Releases
    <3>. QED  BY <1>0, <2>1, <2>3, <3>2, OneCell
  <2>4. ASSUME NEW p \in job[c].todo,
               job' = [job EXCEPT ![c] = [NoJob EXCEPT
                 !.floor = p, !.todo = job[c].todo \ {p}, !.dest = sessions \ {c}]]
        PROVE  job'[c].floor = p
    BY <2>4 DEF TypeOK, NoJob
  <2>. QED  BY <1>4, <2>2, <2>3, <2>4 DEF GoodbyeRelease
<1>5. CASE SendPending(c) \/ TellGranted(c) \/ TellDenied(c) \/ TellReleased(c)
  BY <1>5 DEF SendPending, TellGranted, TellDenied, TellReleased, floorVars,
              HandlerEffect
<1>6. CASE ReleaseFallback(c) \/ SendBroadcast(c) \/ ReleaseDone(c)
  BY <1>6 DEF ReleaseFallback, SendBroadcast, ReleaseDone, floorVars,
              HandlerEffect
<1>7. CASE AnswerQuery(c) \/ GoodbyeNotify(c) \/ GoodbyeEnd(c)
  BY <1>7 DEF AnswerQuery, GoodbyeNotify, GoodbyeEnd, floorVars, HandlerEffect
<1>. QED  BY <1>1, <1>2, <1>3, <1>4, <1>5, <1>6, <1>7 DEF HandlerStep

\* A step that is no handler's and not of the application leaves registered
\* floors alone.
Quiet == \A f \in FloorIDs : floors[f] # Nil =>
           floors'[f] = floors[f] /\ fsm'[floors[f]] = fsm[floors[f]]

LEMMA NewFloorIsQuiet ==
  ASSUME TypeOK, NEW f \in FloorIDs, NEW o \in Cells, NewFloor(f, o)
  PROVE  Quiet
<1>1. \A g \in FloorIDs : floors[g] # Nil => floors[g] \in Cells \ {o}
  BY DEF NewFloor, Fresh, TypeOK
<1>. QED  BY <1>1 DEF NewFloor, Quiet, TypeOK

LEMMA OtherSteps ==
  ASSUME TypeOK, [Next]_vars
  PROVE  \/ Quiet
         \/ \E c \in Conns : HandlerStep(c)
         \/ \E f \in FloorIDs : ReleaseFloor(f)
         \/ AppCall
<1>1. CASE UNCHANGED vars  BY <1>1 DEF vars, Quiet
<1>2. ASSUME NEW c \in Conns, Dispatch(c)  PROVE Quiet
  <2>. USE DEF floorVars, Quiet
  <2>1. ASSUME NEW f \in FloorIDs, NEW g \in Decisions,
               HandleFloorRequest(c, f, g)
        PROVE  Quiet
    BY <2>1, NewFloorIsQuiet DEF HandleFloorRequest
  <2>2. CASE Hello(c)  BY <2>2 DEF Hello
  <2>3. ASSUME NEW f \in FloorIDs, ReleaseByFloorID(c, f)  PROVE Quiet
    BY <2>3 DEF ReleaseByFloorID
  <2>4. ASSUME NEW r \in RequestIDs, ReleaseByRequestID(c, r)  PROVE Quiet
    BY <2>4 DEF ReleaseByRequestID
  <2>5. ASSUME NEW f \in FloorIDs, HandleFloorQuery(c, f)  PROVE Quiet
    BY <2>5 DEF HandleFloorQuery
  <2>6. CASE HandleGoodbye(c)  BY <2>6 DEF HandleGoodbye
  <2>. QED  BY <1>2, <2>1, <2>2, <2>3, <2>4, <2>5, <2>6 DEF Dispatch
<1>3. ASSUME NEW c \in Conns, ConnectionStep(c)  PROVE Quiet
  BY <1>3 DEF ConnectionStep, Accept, PeerLost, ReadExit, Keepalive, Quiet
<1>4. ASSUME NEW f \in FloorIDs, CreateFloor(f)  PROVE Quiet
  BY <1>4, NewFloorIsQuiet DEF CreateFloor
<1>5. ASSUME NEW f \in FloorIDs, AppGetFloor(f)  PROVE Quiet
  BY <1>5 DEF AppGetFloor, floorVars, Quiet
<1>6. CASE ServerClose \/ CloseListener
  BY <1>6 DEF ServerClose, CloseListener, Quiet
<1>7. ASSUME NEW c \in Conns, CloseSession(c)  PROVE Quiet
  BY <1>7 DEF CloseSession, Quiet
<1>. QED  BY <1>1, <1>2, <1>3, <1>4, <1>5, <1>6, <1>7 DEF Next, Application

-----------------------------------------------------------------------------
(***************************************************************************)
(* The two action properties.                                              *)
(***************************************************************************)

\* A denied floor stays denied unless the application or a message with user ID
\* 0 steps in: for any connections, shared user IDs included, and any
\* interleaving of handlers (state.go:46, 79, 90).
THEOREM DenialsAreFinal == Spec => DeniedIsFinal
<1>. DEFINE D == \A f \in FloorIDs :
       /\ floors[f] # Nil /\ floors'[f] = floors[f]
       /\ fsm[floors[f]].state = "Denied" /\ fsm'[floors[f]].state # "Denied"
       => \/ AppTakes(f)
          \/ \E c \in Conns : UserOf[c] = NoUser /\ Releases(c, floors[f])
<1>1. FloorInv /\ [Next]_vars => D
  <2>. SUFFICES ASSUME FloorInv, [Next]_vars, NEW f \in FloorIDs,
                       floors[f] # Nil, floors'[f] = floors[f],
                       fsm[floors[f]].state = "Denied",
                       fsm'[floors[f]].state # "Denied"
                PROVE  \/ AppTakes(f)
                       \/ \E c \in Conns :
                            UserOf[c] = NoUser /\ Releases(c, floors[f])
    OBVIOUS
  <2>0. TypeOK /\ floors[f] \in Cells  BY DEF FloorInv, TypeOK
  <2>1. ~Quiet  BY DEF Quiet
  <2>2. ASSUME NEW c \in Conns, HandlerStep(c)
        PROVE  UserOf[c] = NoUser /\ Releases(c, floors[f])
    <3>1. HandlerEffect(c)  BY <2>0, <2>2, HandlerEffects
    <3>2. fsm[floors[f]].owner = NoUser
      BY <2>0 DEF FloorInv, HeldIffOwned, Held
    <3>3. MayChange(c, floors[f])  BY <2>0, <3>1 DEF HandlerEffect
    <3>. QED  BY <3>2, <3>3 DEF MayChange, CanRelease
  <2>3. ASSUME NEW g \in FloorIDs, ReleaseFloor(g)  PROVE FALSE
    BY <2>3 DEF ReleaseFloor
  <2>4. CASE AppCall
    <3>1. PICK m : fsm' = [fsm EXCEPT ![app] = m]  BY <2>4 DEF AppCall
    <3>2. app = floors[f]  BY <2>0, <3>1 DEF TypeOK
    <3>. QED  BY <2>4, <3>2 DEF AppCall, AppTakes
  <2>. QED  BY <2>0, <2>1, <2>2, <2>3, <2>4, OtherSteps
<1>2. DeniedIsFinal <=> [][D]_vars  BY DEF DeniedIsFinal
<1>3. FloorInv /\ [Next]_vars => [D]_vars  BY <1>1
<1>. HIDE DEF D
<1>. QED  BY <1>2, <1>3, FloorInvInductive, PTL DEF Spec

\* A granted floor is lost only through a FloorRelease or a Goodbye of its own
\* user or of user ID 0, or through the application; two connections may speak
\* for one user (server.go:956, 1002).
THEOREM HolderDecides == Spec => OnlyHolderGivesUp
<1>. DEFINE A == \A f \in FloorIDs, u \in Users :
       HolderIs(f, u) /\ ~HolderIs(f, u)' =>
         \/ AppTakes(f)
         \/ \E c \in Conns : UserOf[c] \in {u, NoUser} /\ Releases(c, floors[f])
<1>1. FloorInv /\ [Next]_vars => A
  <2>. SUFFICES ASSUME FloorInv, [Next]_vars, NEW f \in FloorIDs,
                       NEW u \in Users, HolderIs(f, u), ~HolderIs(f, u)'
                PROVE  \/ AppTakes(f)
                       \/ \E c \in Conns :
                            UserOf[c] \in {u, NoUser} /\ Releases(c, floors[f])
    OBVIOUS
  <2>0. TypeOK /\ floors[f] \in Cells  BY DEF FloorInv, TypeOK, HolderIs
  <2>1. ~Quiet  BY DEF Quiet, HolderIs
  <2>2. ASSUME NEW c \in Conns, HandlerStep(c)
        PROVE  UserOf[c] \in {u, NoUser} /\ Releases(c, floors[f])
    <3>1. HandlerEffect(c)  BY <2>0, <2>2, HandlerEffects
    <3>2. MayChange(c, floors[f])
      BY <2>0, <3>1 DEF HandlerEffect, HolderIs
    <3>. QED  BY <3>2 DEF MayChange, CanRelease, HolderIs
  <2>3. ASSUME NEW g \in FloorIDs, ReleaseFloor(g)  PROVE AppTakes(f)
    <3>1. g = f  BY <2>0, <2>3 DEF ReleaseFloor, TypeOK, HolderIs
    <3>. QED  BY <2>0, <2>3, <3>1 DEF ReleaseFloor, TypeOK, AppTakes
  <2>4. CASE AppCall
    <3>1. PICK m : fsm' = [fsm EXCEPT ![app] = m] /\ floors' = floors
      BY <2>4 DEF AppCall
    <3>2. app = floors[f]  BY <2>0, <3>1 DEF TypeOK, HolderIs
    <3>. QED  BY <2>4, <3>2 DEF AppCall, AppTakes
  <2>. QED  BY <2>0, <2>1, <2>2, <2>3, <2>4, OtherSteps
<1>2. OnlyHolderGivesUp <=> [][A]_vars  BY DEF OnlyHolderGivesUp
<1>3. FloorInv /\ [Next]_vars => [A]_vars  BY <1>1
<1>. HIDE DEF A
<1>. QED  BY <1>2, <1>3, FloorInvInductive, PTL DEF Spec

-----------------------------------------------------------------------------
(***************************************************************************)
(* The session map.                                                        *)
(***************************************************************************)

\* A handler that has returned holds no pointers.
IdleIsClean == \A c \in Conns : pc[c] = "read" => job[c] = NoJob

\* A connection without a read loop runs no handler.
NoneIsIdle == \A c \in Conns : conn[c] = "none" => pc[c] = "read"

\* SessionsAreLive needs that a read loop that exits has cleaned up.
SessionInv ==
  /\ \A c \in sessions : conn[c] # "none"
  /\ IdleIsClean
  /\ NoneIsIdle

\* Steps that end no read loop, add no session, and leave idle handlers clean.
Tame ==
  /\ sessions' \subseteq sessions
  /\ \A c \in Conns : conn'[c] = "none" <=> conn[c] = "none"
  /\ \A c \in Conns : \/ pc'[c] = pc[c] /\ job'[c] = job[c]
                      \/ /\ conn[c] # "none"
                         /\ pc'[c] # "read" \/ job'[c] = NoJob

LEMMA TameKeeps ==
  ASSUME TypeOK, SessionInv, Tame
  PROVE  SessionInv'
BY DEF TypeOK, SessionInv, IdleIsClean, NoneIsIdle, Tame

LEMMA HandlerIsTame ==
  ASSUME TypeOK, SessionInv, NEW c \in Conns, HandlerStep(c)
  PROVE  Tame
<1>. USE DEF TypeOK, Tame, Goto, Return, StartRelease, connVars
<1>0. pc[c] # "read" => conn[c] # "none"  BY DEF SessionInv, NoneIsIdle
<1>1. CASE FloorRequest(c)  BY <1>0, <1>1 DEF FloorRequest
<1>2. CASE SendPending(c)  BY <1>0, <1>2 DEF SendPending
<1>3. CASE Decide(c)  BY <1>0, <1>3 DEF Decide
<1>4. CASE TellGranted(c) \/ TellDenied(c)
  BY <1>0, <1>4 DEF TellGranted, TellDenied
<1>5. CASE ReleaseFallback(c)  BY <1>0, <1>5 DEF ReleaseFallback
<1>6. CASE FloorRelease(c)  BY <1>0, <1>6 DEF FloorRelease
<1>7. CASE TellReleased(c)  BY <1>0, <1>7 DEF TellReleased
<1>8. CASE SendBroadcast(c)  BY <1>0, <1>8 DEF SendBroadcast
<1>9. CASE ReleaseDone(c) \/ AnswerQuery(c)
  BY <1>0, <1>9 DEF ReleaseDone, AnswerQuery
<1>10. CASE GoodbyeRelease(c)  BY <1>0, <1>10 DEF GoodbyeRelease
<1>11. CASE GoodbyeNotify(c)  BY <1>0, <1>11 DEF GoodbyeNotify
<1>12. CASE GoodbyeEnd(c)  BY <1>0, <1>12 DEF GoodbyeEnd
<1>. QED  BY <1>1, <1>2, <1>3, <1>4, <1>5, <1>6, <1>7, <1>8, <1>9, <1>10,
             <1>11, <1>12 DEF HandlerStep

LEMMA DispatchIsTame ==
  ASSUME TypeOK, SessionInv, NEW c \in Conns, Dispatch(c), ~Hello(c)
  PROVE  Tame
<1>. USE DEF TypeOK, Tame, Goto, Reading, StartRelease, connVars
<1>1. ASSUME NEW f \in FloorIDs, NEW g \in Decisions,
             HandleFloorRequest(c, f, g)
      PROVE  Tame
  BY <1>1 DEF HandleFloorRequest
<1>2. ASSUME NEW f \in FloorIDs, ReleaseByFloorID(c, f)  PROVE Tame
  BY <1>2 DEF ReleaseByFloorID
<1>3. ASSUME NEW r \in RequestIDs, ReleaseByRequestID(c, r)  PROVE Tame
  BY <1>3 DEF ReleaseByRequestID
<1>4. ASSUME NEW f \in FloorIDs, HandleFloorQuery(c, f)  PROVE Tame
  BY <1>4 DEF HandleFloorQuery
<1>5. CASE HandleGoodbye(c)  BY <1>5 DEF HandleGoodbye
<1>. QED  BY <1>1, <1>2, <1>3, <1>4, <1>5 DEF Dispatch

LEMMA ApplicationIsTame ==
  ASSUME TypeOK, Application \/ UNCHANGED vars
  PROVE  Tame
<1>. USE DEF TypeOK, Tame, connVars
<1>1. ASSUME NEW f \in FloorIDs,
             CreateFloor(f) \/ AppGetFloor(f) \/ ReleaseFloor(f)
      PROVE  Tame
  BY <1>1 DEF CreateFloor, AppGetFloor, ReleaseFloor
<1>2. CASE AppCall  BY <1>2 DEF AppCall
<1>3. CASE ServerClose \/ CloseListener
  BY <1>3 DEF ServerClose, CloseListener
<1>4. ASSUME NEW c \in Conns, CloseSession(c)  PROVE Tame
  BY <1>4 DEF CloseSession
<1>5. CASE UNCHANGED vars  BY <1>5 DEF vars
<1>. QED  BY <1>1, <1>2, <1>3, <1>4, <1>5 DEF Application

LEMMA SessionStep ==
  ASSUME TypeOK, SessionInv, [Next]_vars
  PROVE  SessionInv'
<1>. USE DEF TypeOK, SessionInv, IdleIsClean, NoneIsIdle
<1>1. ASSUME NEW c \in Conns, ConnectionStep(c)  PROVE SessionInv'
  <2>1. CASE Accept(c)  BY <2>1 DEF Accept
  <2>2. CASE PeerLost(c)  BY <2>2 DEF PeerLost
  <2>3. CASE ReadExit(c)  BY <2>3 DEF ReadExit
  <2>4. CASE Keepalive(c)  BY <2>4 DEF Keepalive
  <2>. QED  BY <1>1, <2>1, <2>2, <2>3, <2>4 DEF ConnectionStep
<1>2. ASSUME NEW c \in Conns, Hello(c)  PROVE SessionInv'
  BY <1>2 DEF Hello, Reading
<1>3. CASE Tame  BY <1>3, TameKeeps
<1>. QED  BY <1>1, <1>2, <1>3, HandlerIsTame, DispatchIsTame,
             ApplicationIsTame DEF Next

\* The sessions are those of live connections, for every interleaving of
\* handlers, Goodbyes, lost peers and Server.Close (server.go:313): OnClose
\* runs last, when no handler of the connection is left to add it again.
THEOREM SessionsLive == Spec => []SessionsAreLive
<1>1. Init => SessionInv  BY DEF Init, SessionInv, IdleIsClean, NoneIsIdle
<1>2. TypeOK /\ SessionInv /\ [Next]_vars => SessionInv'  BY SessionStep
<1>3. SessionInv => SessionsAreLive
  BY DEF SessionInv, IdleIsClean, NoneIsIdle, SessionsAreLive
<1>. QED  BY <1>1, <1>2, <1>3, TypeCorrect, PTL DEF Spec

-----------------------------------------------------------------------------
(***************************************************************************)
(* The floors that handlers speak about in their messages.                 *)
(***************************************************************************)

IsNamed(o) == o \in Cells /\ fsm[o].fid \in FloorIDs

\* Every floor a handler can reach carries a floor ID, also when the map has
\* dropped it meanwhile.
PointersNamed ==
  \A c \in Conns :
    /\ pc[c] \in FloorLabels => IsNamed(job[c].floor)
    /\ \A o \in job[c].todo : IsNamed(o)

LEMMA NamesLast ==
  ASSUME TypeOK, FloorsStep, NEW o, IsNamed(o)
  PROVE  IsNamed(o)'
<1>. USE DEF IsNamed
<1>1. CASE UNCHANGED fsm  BY <1>1
<1>2. ASSUME NEW f \in FloorIDs, NEW p \in Cells, NewFloor(f, p)
      PROVE  IsNamed(o)'
  BY <1>2 DEF NewFloor, NewFloorStateMachine, TypeOK
<1>3. ASSUME NEW p \in Cells, Method(p)  PROVE IsNamed(o)'
  <2>1. PICK m : fsm' = [fsm EXCEPT ![p] = m] /\ m.fid = fsm[p].fid
    <3>1. fsm[p] \in Floors  BY DEF TypeOK
    <3>. QED  BY <1>3, <3>1, MethodKeepsFid DEF Method
  <2>. QED  BY <2>1 DEF TypeOK
<1>. QED  BY <1>1, <1>2, <1>3 DEF FloorsStep

\* A step of c takes the pointers of its handler from those it had, or from the
\* map.
Takes(c) ==
  /\ \A d \in Conns : d # c => pc'[d] = pc[d] /\ job'[d] = job[d]
  /\ pc'[c] \in FloorLabels =>
       \/ pc[c] \in FloorLabels /\ job'[c].floor = job[c].floor
       \/ job'[c].floor \in job[c].todo
       \/ Registered(job'[c].floor) /\ job'[c].floor \in Cells
       \/ /\ \E f \in FloorIDs : floors'[f] = job'[c].floor
          /\ job'[c].floor \in Cells
  /\ \A o \in job'[c].todo : o \in job[c].todo \/ (Registered(o) /\ o \in Cells)

LEMMA TakesKeeps ==
  ASSUME TypeOK, MapIsFaithful, MapIsFaithful', PointersNamed,
         FloorsStep, NEW c \in Conns, Takes(c)
  PROVE  PointersNamed'
<1>. SUFFICES ASSUME NEW d \in Conns
              PROVE  /\ pc'[d] \in FloorLabels => IsNamed(job[d].floor)'
                     /\ \A o \in job'[d].todo : IsNamed(o)'
  BY DEF PointersNamed
<1>1. \A o : IsNamed(o) => IsNamed(o)'  BY NamesLast
<1>2. \A o \in Cells : Registered(o) => IsNamed(o)
  BY ConstantsAssumption DEF Registered, MapIsFaithful, IsNamed
<1>4. CASE d # c
  <2>1. pc'[d] = pc[d] /\ job'[d] = job[d]  BY <1>4 DEF Takes
  <2>. QED  BY <1>1, <2>1 DEF PointersNamed, IsNamed
<1>5. CASE d = c
  <2>1. ASSUME pc'[c] \in FloorLabels  PROVE IsNamed(job[c].floor)'
    <3>1. CASE pc[c] \in FloorLabels /\ job'[c].floor = job[c].floor
      BY <1>1, <3>1 DEF PointersNamed, IsNamed
    <3>2. CASE job'[c].floor \in job[c].todo
      BY <1>1, <3>2 DEF PointersNamed, IsNamed
    <3>3. CASE Registered(job'[c].floor) /\ job'[c].floor \in Cells
      BY <1>1, <1>2, <3>3 DEF IsNamed
    <3>4. CASE (\E f \in FloorIDs : floors'[f] = job'[c].floor)
               /\ job'[c].floor \in Cells
      BY <3>4, ConstantsAssumption DEF MapIsFaithful, IsNamed
    <3>. QED  BY <2>1, <3>1, <3>2, <3>3, <3>4 DEF Takes
  <2>2. \A o \in job'[c].todo : IsNamed(o)'
    BY <1>1, <1>2 DEF Takes, PointersNamed
  <2>. QED  BY <1>5, <2>1, <2>2
<1>. QED  BY <1>4, <1>5

LEMMA HandlerTakes ==
  ASSUME TypeOK, NEW c \in Conns, HandlerStep(c)
  PROVE  Takes(c)
<1>. USE DEF TypeOK, Takes, FloorLabels, Goto, Return, NoJob, Registered
<1>0. job[c].todo \in SUBSET Cells  BY DEF Jobs
<1>1. CASE FloorRequest(c)  BY <1>1 DEF FloorRequest
<1>2. CASE SendPending(c)  BY <1>2 DEF SendPending
<1>3. CASE Decide(c)  BY <1>3 DEF Decide
<1>4. CASE TellGranted(c) \/ TellDenied(c)  BY <1>4 DEF TellGranted, TellDenied
<1>5. CASE ReleaseFallback(c)
  BY <1>5 DEF ReleaseFallback, StartRelease, FloorsOwnedBy
<1>6. CASE FloorRelease(c)  BY <1>6 DEF FloorRelease
<1>7. CASE TellReleased(c)  BY <1>7 DEF TellReleased
<1>8. CASE SendBroadcast(c)  BY <1>8 DEF SendBroadcast
<1>9. CASE ReleaseDone(c) \/ AnswerQuery(c)  BY <1>9 DEF ReleaseDone, AnswerQuery
<1>10. CASE GoodbyeRelease(c)
  <2>1. PICK o \in job[c].todo :
          \/ /\ job' = [job EXCEPT ![c] = [NoJob EXCEPT
                  !.floor = o, !.todo = job[c].todo \ {o},
                  !.dest = sessions \ {c}]]
             /\ pc' = [pc EXCEPT ![c] = "byeBroadcast"]
          \/ /\ job' = [job EXCEPT ![c].todo = @ \ {o}]
             /\ pc' = pc
    BY <1>10 DEF GoodbyeRelease
  <2>2. pc[c] = "goodbye"  BY <1>10 DEF GoodbyeRelease
  <2>3. \A d \in Conns : d # c => pc'[d] = pc[d] /\ job'[d] = job[d]  BY <2>1
  <2>4. /\ pc'[c] \in FloorLabels => job'[c].floor = o
        /\ job'[c].todo = job[c].todo \ {o}
    <3>1. CASE /\ job' = [job EXCEPT ![c] = [NoJob EXCEPT
                    !.floor = o, !.todo = job[c].todo \ {o},
                    !.dest = sessions \ {c}]]
               /\ pc' = [pc EXCEPT ![c] = "byeBroadcast"]
      BY <3>1
    <3>2. CASE job' = [job EXCEPT ![c].todo = @ \ {o}] /\ pc' = pc
      BY <2>2, <3>2 DEF Jobs
    <3>. QED  BY <2>1, <3>1, <3>2
  <2>. QED  BY <2>3, <2>4
<1>11. CASE GoodbyeNotify(c)  BY <1>11 DEF GoodbyeNotify
<1>12. CASE GoodbyeEnd(c)  BY <1>12 DEF GoodbyeEnd
<1>. QED  BY <1>1, <1>2, <1>3, <1>4, <1>5, <1>6, <1>7, <1>8, <1>9, <1>10,
             <1>11, <1>12 DEF HandlerStep

LEMMA DispatchTakes ==
  ASSUME TypeOK, NEW c \in Conns, Dispatch(c) \/ ConnectionStep(c)
  PROVE  Takes(c)
<1>. USE DEF TypeOK, Takes, FloorLabels, Goto, NoJob, Registered
<1>1. ASSUME NEW f \in FloorIDs, NEW g \in Decisions, HandleFloorRequest(c, f, g)
      PROVE  Takes(c)
  <2>1. PICK o \in Cells :
          /\ floors[f] = o \/ NewFloor(f, o)
          /\ job' = [job EXCEPT ![c] =
               [NoJob EXCEPT !.floor = o, !.req = NextID, !.grant = g]]
    BY <1>1 DEF HandleFloorRequest
  <2>2. job'[c].floor = o /\ job'[c].todo = {}  BY <2>1
  <2>3. floors[f] = o \/ floors'[f] = o  BY <2>1 DEF NewFloor
  <2>. QED  BY <1>1, <2>1, <2>2, <2>3 DEF HandleFloorRequest
<1>2. ASSUME NEW f \in FloorIDs, ReleaseByFloorID(c, f)  PROVE Takes(c)
  BY <1>2 DEF ReleaseByFloorID, StartRelease
<1>3. ASSUME NEW r \in RequestIDs, ReleaseByRequestID(c, r)  PROVE Takes(c)
  BY <1>3 DEF ReleaseByRequestID, StartRelease, FloorsByRequestID
<1>4. ASSUME NEW f \in FloorIDs, HandleFloorQuery(c, f)  PROVE Takes(c)
  BY <1>4 DEF HandleFloorQuery
<1>5. CASE HandleGoodbye(c)  BY <1>5 DEF HandleGoodbye
<1>6. CASE Hello(c) \/ ConnectionStep(c)
  BY <1>6 DEF Hello, ConnectionStep, Accept, PeerLost, ReadExit, Keepalive
<1>. QED  BY <1>1, <1>2, <1>3, <1>4, <1>5, <1>6 DEF Dispatch

LEMMA PointersNamedStep ==
  ASSUME FloorInv, PointersNamed, [Next]_vars
  PROVE  PointersNamed'
<1>0. TypeOK /\ MapIsFaithful /\ FloorsStep /\ MapIsFaithful'
  BY NextFloors, MapIsFaithfulStep DEF FloorInv
<1>1. ASSUME NEW c \in Conns, Takes(c)  PROVE PointersNamed'
  BY <1>0, <1>1, TakesKeeps
<1>2. CASE UNCHANGED <<pc, job>>
  <2>1. \A o : IsNamed(o) => IsNamed(o)'  BY <1>0, NamesLast
  <2>. QED  BY <1>2, <2>1 DEF PointersNamed, IsNamed
<1>3. Application \/ UNCHANGED vars => UNCHANGED <<pc, job>>
  BY DEF vars, Application, CreateFloor, AppGetFloor, ReleaseFloor, AppCall,
         ServerClose, CloseSession, CloseListener
<1>. QED  BY <1>0, <1>1, <1>2, <1>3, HandlerTakes, DispatchTakes DEF Next

\* The same for the two halves of FloorInv that are not about types.
LEMMA FloorInvStep ==
  ASSUME FloorInv, [Next]_vars
  PROVE  FloorInv'
BY NextType, NextFloors, HeldIffOwnedStep, MapIsFaithfulStep DEF FloorInv

LEMMA ServerInit == Init => FloorInv /\ PointersNamed /\ SessionInv
<1>1. Init => HeldIffOwned
  BY DEF Init, HeldIffOwned, Held, NewFloorStateMachine
<1>2. Init => MapIsFaithful  BY DEF Init, MapIsFaithful
<1>3. Init => PointersNamed
  BY DEF Init, PointersNamed, FloorLabels, NoJob
<1>4. Init => SessionInv
  BY DEF Init, SessionInv, IdleIsClean, NoneIsIdle
<1>. QED  BY <1>1, <1>2, <1>3, <1>4, InitType DEF FloorInv

===============================================================================
