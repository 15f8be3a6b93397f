------------------------------ MODULE TCPServer ------------------------------
(***************************************************************************)
(* The TCP side of the floor control server (server.go) with the           *)
(* per-connection read loop that drives it (transport.go).                 *)
(*                                                                         *)
(* Every accepted connection has one read-loop goroutine, which handles    *)
(* its messages one at a time; the handlers of different connections run   *)
(* concurrently and share the floor map, the session map, the floors and   *)
(* one transaction counter.  A step of this module is one critical section *)
(* (Server.mu or FloorStateMachine.mu), one atomic counter access or one   *)
(* write to a connection; pc[c] is where connection c's handler stands     *)
(* between two of them.  A handler that only answers with an Error message *)
(* goes back to the read loop.                                             *)
(*                                                                         *)
(* Abstracted: message contents other than the floor, the request ID and   *)
(* the status; logging and the OnMessageIn/OnMessageOut hooks; a peer that *)
(* vanishes (PeerLost) does so once the server has read all it sent. The   *)
(* user ID a connection puts in its messages is the constant UserOf[c];    *)
(* the server does not check it, and it may be 0.                          *)
(*                                                                         *)
(* Some steps are more than one critical section: a scan of the floor map  *)
(* under Server.mu, which takes the floors' locks one after the other; the *)
(* lookup of a requested floor and the draw of its request ID;             *)
(* TellReleased, whose write, callback and snapshot of the sessions nobody *)
(* waits between; and in handleGoodbye the release of a floor with the     *)
(* read of its request ID, which the model does not send, and the          *)
(* snapshot, so that a session that says Hello between the two is not      *)
(* told. BroadcastFloorStatus and BroadcastFloorState as calls of the      *)
(* application are left out.                                               *)
(***************************************************************************)
EXTENDS FloorStateMachine, FiniteSets

CONSTANTS
  Conns,      \* client connections (remote addresses)
  FloorIDs,   \* floor identifiers clients may name
  Cells,      \* heap cells for *FloorStateMachine values
  Nil,        \* the nil pointer
  UserOf,     \* the BFCP user ID behind each connection
  IdSpace,    \* request IDs are 0..IdSpace-1; 2^16 in the code
  Messages,   \* the primitives clients send
  Decisions,  \* what AutoGrant or the OnFloorRequest callback may answer
  AppOps      \* which server methods the embedding application calls

Users == {UserOf[c] : c \in Conns}
RequestIDs == 0 .. IdSpace - 1

ASSUME ConstantsAssumption ==
  /\ UserOf \in [Conns -> Nat]
  /\ IdSpace \in Nat \ {0}
  /\ Nil \notin Cells /\ Nil \notin FloorIDs
  /\ Messages \subseteq {"Hello", "FloorRequest", "FloorRelease", "FloorQuery",
                         "Goodbye"}
  /\ Decisions \subseteq BOOLEAN
  /\ AppOps \subseteq {"Grant", "Deny", "Revoke", "Release",
                       "ReleaseFloor", "Close"}

VARIABLES
  conn,      \* conn[c]: "none", "open", "lost" (peer gone) or "closed" (by us)
  pc,        \* pc[c]: where the read-loop goroutine of c stands
  job,       \* job[c]: the local variables of the running handler
  sessions,  \* the keys of Server.sessions
  session,   \* session[c]: SessionStateMachine.CurrentState
  floors,    \* Server.floors
  fsm,       \* fsm[o]: the FloorStateMachine in cell o
  nextTxID,  \* Server.nextTxID, truncated as its users truncate it
  told,      \* told[c][f]: last FloorRequestStatus about f written to c
  active,    \* active[f]: users with OnFloorGranted and no OnFloorReleased since
  srv,       \* "up", "closing" (inside Server.Close) or "down"
  shut,      \* sessions Server.Close has yet to close
  app        \* the floor pointer the application works on

vars == <<conn, pc, job, sessions, session, floors, fsm, nextTxID, told,
          active, srv, shut, app>>

connVars == <<conn, sessions, session, srv, shut>>
floorVars == <<floors, fsm>>
seenVars == <<told, active>>

Labels == {"read", "request", "pending", "decide", "granted", "denied",
           "fallback", "release", "released", "broadcast", "query",
           "goodbye", "byeBroadcast"}

SessionStates == {"Connected", "WaitFloorRequest", "FloorGranted",
                  "FloorDenied", "FloorReleased", "Disconnected"}

NoJob == [floor |-> Nil, req |-> 0, grant |-> FALSE, todo |-> {}, dest |-> {}]

Jobs == [floor : Cells \cup {Nil}, req : RequestIDs, grant : BOOLEAN,
         todo : SUBSET Cells, dest : SUBSET Conns]

Floors == [fid : FloorIDs \cup {Nil}, state : FloorStates,
           owner : Users \cup {NoUser}, requestID : RequestIDs]

TypeOK ==
  /\ conn \in [Conns -> {"none", "open", "lost", "closed"}]
  /\ pc \in [Conns -> Labels]
  /\ job \in [Conns -> Jobs]
  /\ sessions \in SUBSET Conns
  /\ session \in [Conns -> SessionStates]
  /\ floors \in [FloorIDs -> Cells \cup {Nil}]
  /\ fsm \in [Cells -> Floors]
  /\ nextTxID \in RequestIDs
  /\ told \in [Conns -> [FloorIDs -> FloorStates \cup {"nothing"}]]
  /\ active \in [FloorIDs -> SUBSET Users]
  /\ srv \in {"up", "closing", "down"}
  /\ shut \in SUBSET Conns
  /\ app \in Cells \cup {Nil}

Init ==
  /\ conn = [c \in Conns |-> "none"]
  /\ pc = [c \in Conns |-> "read"]
  /\ job = [c \in Conns |-> NoJob]
  /\ sessions = {}
  /\ session = [c \in Conns |-> "Connected"]
  /\ floors = [f \in FloorIDs |-> Nil]
  /\ fsm = [o \in Cells |-> NewFloorStateMachine(Nil)]
  /\ nextTxID = 0
  /\ told = [c \in Conns |-> [f \in FloorIDs |-> "nothing"]]
  /\ active = [f \in FloorIDs |-> {}]
  /\ srv = "up"
  /\ shut = {}
  /\ app = Nil

-----------------------------------------------------------------------------
\* Helpers shared by the handlers.

Goto(c, label) == pc' = [pc EXCEPT ![c] = label]

\* The handler returns to the read loop.
Return(c) ==
  /\ Goto(c, "read")
  /\ job' = [job EXCEPT ![c] = NoJob]

\* The floor a handler works on, and its FloorID field.
Floor(c) == fsm[job[c].floor]
Fid(c) == Floor(c).fid

\* Session.send of a FloorRequestStatus: Transport.sendMessage refuses a closed
\* transport, and what is written to a vanished peer reaches nobody.
Send(c, f, status) ==
  told' = IF conn[c] = "open" THEN [told EXCEPT ![c][f] = status] ELSE told

\* A mutant: the counter is used at its full width.
NextIDUntruncated == nextTxID + 1

\* nextTxID.Add(1) as its callers see it: truncated to uint16, zero included.
NextID == (nextTxID + 1) % IdSpace

\* No live pointer refers to the cell.
Fresh(o) ==
  /\ \A f \in FloorIDs : floors[f] # o
  /\ \A c \in Conns : job[c].floor # o /\ o \notin job[c].todo
  /\ app # o

\* Server.CreateFloor on an absent floor: allocate and publish under Server.mu.
NewFloor(f, o) ==
  /\ floors[f] = Nil
  /\ Fresh(o)
  /\ floors' = [floors EXCEPT ![f] = o]
  /\ fsm' = [fsm EXCEPT ![o] = NewFloorStateMachine(f)]

\* The read loop of c is about to dispatch a message.
Reading(c) == conn[c] = "open" /\ pc[c] = "read"

\* Some loop over a snapshot of Server.sessions still holds c's session.
Snapshotted(c) == c \in shut \/ \E d \in Conns : c \in job[d].dest

-----------------------------------------------------------------------------
\* The life of a connection.

\* Listener.acceptLoop and handleConnection.  The address is a new one: no
\* session snapshot still refers to an earlier connection of that name.
Accept(c) ==
  /\ conn[c] = "none" /\ srv # "down" /\ ~Snapshotted(c)
  /\ conn' = [conn EXCEPT ![c] = "open"]
  /\ UNCHANGED <<pc, job, sessions, session, floors, fsm, nextTxID, told,
                 active, srv, shut, app>>

\* The peer resets the connection or dies.
PeerLost(c) ==
  /\ conn[c] = "open"
  /\ conn' = [conn EXCEPT ![c] = "lost"]
  /\ UNCHANGED <<pc, job, sessions, session, floors, fsm, nextTxID, told,
                 active, srv, shut, app>>

\* A mutant: OnClose keeps the session when the server closed it itself.
ReadExitKeepsClosed(c) ==
  /\ pc[c] = "read" /\ conn[c] \in {"lost", "closed"}
  /\ conn' = [conn EXCEPT ![c] = "none"]
  /\ sessions' = IF conn[c] = "lost" THEN sessions \ {c} ELSE sessions
  /\ session' = [session EXCEPT ![c] = "Connected"]
  /\ told' = [told EXCEPT ![c] = [f \in FloorIDs |-> "nothing"]]
  /\ UNCHANGED <<pc, job, floors, fsm, nextTxID, active, srv, shut, app>>

\* readLoop returns: Transport.Close, then OnClose forgets the session.  The
\* floors the user holds are left alone.
ReadExit(c) ==
  /\ pc[c] = "read" /\ conn[c] \in {"lost", "closed"}
  /\ conn' = [conn EXCEPT ![c] = "none"]
  /\ sessions' = sessions \ {c}
  /\ session' = [session EXCEPT ![c] = "Connected"]
  /\ told' = [told EXCEPT ![c] = [f \in FloorIDs |-> "nothing"]]
  /\ UNCHANGED <<pc, job, floors, fsm, nextTxID, active, srv, shut, app>>

\* handleHello: register the session and start its keepalive.
Hello(c) ==
  /\ Reading(c)
  /\ sessions' = sessions \cup {c}
  /\ session' = [session EXCEPT ![c] = "WaitFloorRequest"]
  /\ UNCHANGED <<conn, pc, job, floors, fsm, nextTxID, told, active, srv,
                 shut, app>>

\* One tick of keepaliveLoop: a Hello with a fresh transaction ID.
Keepalive(c) ==
  /\ c \in sessions /\ conn[c] \in {"open", "lost"}
  /\ nextTxID' = NextID
  /\ UNCHANGED <<conn, pc, job, sessions, session, floors, fsm, told, active,
                 srv, shut, app>>

-----------------------------------------------------------------------------
\* handleFloorRequest.

\* Look the floor up, creating it if need be; draw the request ID; let
\* AutoGrant or OnFloorRequest decide.  floor.Request comes next.
HandleFloorRequest(c, f, grant) ==
  /\ Reading(c)
  /\ \E o \in Cells :
       /\ \/ floors[f] = o /\ UNCHANGED floorVars
          \/ NewFloor(f, o)
       /\ job' = [job EXCEPT ![c] =
            [NoJob EXCEPT !.floor = o, !.req = NextID, !.grant = grant]]
  /\ nextTxID' = NextID
  /\ Goto(c, "request")
  /\ UNCHANGED <<connVars, seenVars, app>>

\* floor.Request: an error reply when the floor is not available.
FloorRequest(c) ==
  /\ pc[c] = "request"
  /\ IF CanRequest(Floor(c))
       THEN /\ fsm' = [fsm EXCEPT ![job[c].floor] =
                         Request(@, UserOf[c], job[c].req)]
            /\ Goto(c, "pending")
            /\ UNCHANGED job
       ELSE Return(c) /\ UNCHANGED fsm
  /\ UNCHANGED <<connVars, seenVars, floors, nextTxID, app>>

SendPending(c) ==
  /\ pc[c] = "pending"
  /\ Send(c, Fid(c), "Pending")
  /\ Goto(c, "decide")
  /\ UNCHANGED <<connVars, floorVars, job, nextTxID, active, app>>

\* A mutant: the decision is dropped when the connection has gone meanwhile.
DecideIfOpen(c) ==
  /\ pc[c] = "decide"
  /\ IF CanGrant(Floor(c)) /\ conn[c] = "open"
       THEN /\ fsm' = [fsm EXCEPT ![job[c].floor] =
                         IF job[c].grant THEN Grant(@) ELSE Deny(@)]
            /\ Goto(c, IF job[c].grant THEN "granted" ELSE "denied")
            /\ UNCHANGED job
       ELSE Return(c) /\ UNCHANGED fsm
  /\ UNCHANGED <<connVars, seenVars, floors, nextTxID, app>>

\* After the 150 ms pause Grant, or at once Deny; nothing is sent when the
\* floor is no longer pending.
Decide(c) ==
  /\ pc[c] = "decide"
  /\ \/ /\ job[c].grant /\ CanGrant(Floor(c))
        /\ fsm' = [fsm EXCEPT ![job[c].floor] = Grant(@)]
        /\ Goto(c, "granted")
        /\ UNCHANGED job
     \/ /\ ~job[c].grant /\ CanDeny(Floor(c))
        /\ fsm' = [fsm EXCEPT ![job[c].floor] = Deny(@)]
        /\ Goto(c, "denied")
        /\ UNCHANGED job
     \/ /\ IF job[c].grant THEN ~CanGrant(Floor(c)) ELSE ~CanDeny(Floor(c))
        /\ Return(c)
        /\ UNCHANGED fsm
  /\ UNCHANGED <<connVars, seenVars, floors, nextTxID, app>>

\* Tell the requester, SetState, OnFloorGranted.
TellGranted(c) ==
  /\ pc[c] = "granted"
  /\ Send(c, Fid(c), "Granted")
  /\ session' = [session EXCEPT ![c] = "FloorGranted"]
  /\ active' = [active EXCEPT ![Fid(c)] = @ \cup {UserOf[c]}]
  /\ Return(c)
  /\ UNCHANGED <<conn, sessions, floorVars, nextTxID, srv, shut, app>>

\* Tell the requester, SetState, OnFloorDenied.
TellDenied(c) ==
  /\ pc[c] = "denied"
  /\ Send(c, Fid(c), "Denied")
  /\ session' = [session EXCEPT ![c] = "FloorDenied"]
  /\ Return(c)
  /\ UNCHANGED <<conn, sessions, floorVars, nextTxID, active, srv, shut, app>>

-----------------------------------------------------------------------------
\* handleFloorRelease.

StartRelease(c, o) ==
  /\ job' = [job EXCEPT ![c] = [NoJob EXCEPT !.floor = o]]
  /\ Goto(c, "release")

\* The message names the floor.  (An unknown floor is only an Error reply.)
ReleaseByFloorID(c, f) ==
  /\ Reading(c)
  /\ floors[f] # Nil
  /\ StartRelease(c, floors[f])
  /\ UNCHANGED <<connVars, floorVars, seenVars, nextTxID, app>>

\* GetFloorByRequestID: any floor whose current request ID matches, in the
\* random order of a Go map.
FloorsByRequestID(r) ==
  {f \in FloorIDs : floors[f] # Nil /\ fsm[floors[f]].requestID = r}

\* floorOwnedBy: any floor pending or granted for the user.
FloorsOwnedBy(u) ==
  {f \in FloorIDs : /\ floors[f] # Nil
                    /\ fsm[floors[f]].state # "Released"
                    /\ fsm[floors[f]].owner = u}

\* The message names only a request ID.
ReleaseByRequestID(c, r) ==
  /\ Reading(c)
  /\ \/ \E f \in FloorsByRequestID(r) : StartRelease(c, floors[f])
     \/ FloorsByRequestID(r) = {} /\ Goto(c, "fallback") /\ UNCHANGED job
  /\ UNCHANGED <<connVars, floorVars, seenVars, nextTxID, app>>

\* The request ID is unknown: take a floor the user has, or reply with an Error.
ReleaseFallback(c) ==
  /\ pc[c] = "fallback"
  /\ \/ \E f \in FloorsOwnedBy(UserOf[c]) : StartRelease(c, floors[f])
     \/ FloorsOwnedBy(UserOf[c]) = {} /\ Return(c)
  /\ UNCHANGED <<connVars, floorVars, seenVars, nextTxID, app>>

\* floor.Release: an error reply to anyone but the owner.
FloorRelease(c) ==
  /\ pc[c] = "release"
  /\ IF CanRelease(Floor(c), UserOf[c])
       THEN /\ fsm' = [fsm EXCEPT ![job[c].floor] = Release(@)]
            /\ Goto(c, "released")
            /\ UNCHANGED job
       ELSE Return(c) /\ UNCHANGED fsm
  /\ UNCHANGED <<connVars, seenVars, floors, nextTxID, app>>

\* Tell the releaser, SetState, OnFloorReleased; broadcastFloorStatus takes its
\* snapshot of the other sessions.
TellReleased(c) ==
  /\ pc[c] = "released"
  /\ Send(c, Fid(c), "Released")
  /\ session' = [session EXCEPT ![c] = "FloorReleased"]
  /\ active' = [active EXCEPT ![Fid(c)] = @ \ {UserOf[c]}]
  /\ job' = [job EXCEPT ![c].dest = sessions \ {c}]
  /\ Goto(c, "broadcast")
  /\ UNCHANGED <<conn, sessions, floorVars, nextTxID, srv, shut, app>>

\* One turn of the broadcast loop: a fresh transaction ID, then a write.
SendBroadcast(c) ==
  /\ pc[c] \in {"broadcast", "byeBroadcast"}
  /\ \E d \in job[c].dest :
       /\ Send(d, Fid(c), "Released")
       /\ job' = [job EXCEPT ![c].dest = @ \ {d}]
  /\ nextTxID' = NextID
  /\ UNCHANGED <<connVars, floorVars, pc, active, app>>

ReleaseDone(c) ==
  /\ pc[c] = "broadcast" /\ job[c].dest = {}
  /\ Return(c)
  /\ UNCHANGED <<connVars, floorVars, seenVars, nextTxID, app>>

-----------------------------------------------------------------------------
\* handleFloorQuery: GetFloorRequestID and GetState are two critical sections.

HandleFloorQuery(c, f) ==
  /\ Reading(c)
  /\ floors[f] # Nil
  /\ job' = [job EXCEPT ![c] = [NoJob EXCEPT
               !.floor = floors[f], !.req = fsm[floors[f]].requestID]]
  /\ Goto(c, "query")
  /\ UNCHANGED <<connVars, floorVars, seenVars, nextTxID, app>>

AnswerQuery(c) ==
  /\ pc[c] = "query"
  /\ Return(c)
  /\ UNCHANGED <<connVars, floorVars, seenVars, nextTxID, app>>

-----------------------------------------------------------------------------
\* handleGoodbye.

\* A mutant: only one of the user's floors is looked up.
HandleGoodbyeOneFloor(c) ==
  /\ Reading(c)
  /\ \E F \in SUBSET FloorsOwnedBy(UserOf[c]) :
       /\ Cardinality(F) = (IF FloorsOwnedBy(UserOf[c]) = {} THEN 0 ELSE 1)
       /\ job' = [job EXCEPT ![c] = [NoJob EXCEPT
                    !.todo = {floors[f] : f \in F}]]
  /\ Goto(c, "goodbye")
  /\ UNCHANGED <<connVars, floorVars, seenVars, nextTxID, app>>

\* Collect the floors the user owns.
HandleGoodbye(c) ==
  /\ Reading(c)
  /\ job' = [job EXCEPT ![c] = [NoJob EXCEPT
               !.todo = {o \in Cells : /\ \E f \in FloorIDs : floors[f] = o
                                       /\ fsm[o].owner = UserOf[c]}]]
  /\ Goto(c, "goodbye")
  /\ UNCHANGED <<connVars, floorVars, seenVars, nextTxID, app>>

\* Release the next of them; on success snapshot the sessions to tell.
GoodbyeRelease(c) ==
  /\ pc[c] = "goodbye"
  /\ \E o \in job[c].todo :
       IF CanRelease(fsm[o], UserOf[c])
         THEN /\ fsm' = [fsm EXCEPT ![o] = Release(@)]
              /\ job' = [job EXCEPT ![c] = [NoJob EXCEPT
                   !.floor = o, !.todo = job[c].todo \ {o},
                   !.dest = sessions \ {c}]]
              /\ Goto(c, "byeBroadcast")
         ELSE /\ job' = [job EXCEPT ![c].todo = @ \ {o}]
              /\ UNCHANGED <<fsm, pc>>
  /\ UNCHANGED <<connVars, seenVars, floors, nextTxID, app>>

\* A mutant: Goodbye frees the floor without OnFloorReleased.
GoodbyeNotifyNobody(c) ==
  /\ pc[c] = "byeBroadcast" /\ job[c].dest = {}
  /\ Goto(c, "goodbye")
  /\ UNCHANGED <<connVars, floorVars, job, told, active, nextTxID, app>>

\* OnFloorReleased, once the broadcast about this floor is out.
GoodbyeNotify(c) ==
  /\ pc[c] = "byeBroadcast" /\ job[c].dest = {}
  /\ active' = [active EXCEPT ![Fid(c)] = @ \ {UserOf[c]}]
  /\ Goto(c, "goodbye")
  /\ UNCHANGED <<connVars, floorVars, job, told, nextTxID, app>>

\* A mutant: Goodbye leaves the connection to the peer.
GoodbyeEndKeepsOpen(c) ==
  /\ pc[c] = "goodbye" /\ job[c].todo = {}
  /\ session' = [session EXCEPT ![c] = "Disconnected"]
  /\ Return(c)
  /\ UNCHANGED <<conn, sessions, floorVars, seenVars, nextTxID, srv, shut, app>>

\* GoodbyeAck, SetState, Transport.Close.
GoodbyeEnd(c) ==
  /\ pc[c] = "goodbye" /\ job[c].todo = {}
  /\ conn' = [conn EXCEPT ![c] = "closed"]
  /\ session' = [session EXCEPT ![c] = "Disconnected"]
  /\ Return(c)
  /\ UNCHANGED <<sessions, floorVars, seenVars, nextTxID, srv, shut, app>>

-----------------------------------------------------------------------------
\* The embedding application: one thread that may hold one floor pointer.

\* Server.CreateFloor of an absent floor (an existing one is just looked up).
CreateFloor(f) ==
  /\ \E o \in Cells : NewFloor(f, o)
  /\ UNCHANGED <<connVars, seenVars, pc, job, nextTxID, app>>

\* Server.GetFloor (or CreateFloor, ListFloors) returns a pointer.
AppGetFloor(f) ==
  /\ AppOps \cap {"Grant", "Deny", "Revoke", "Release"} # {}
  /\ floors[f] # Nil
  /\ app' = floors[f]
  /\ UNCHANGED <<connVars, floorVars, seenVars, pc, job, nextTxID>>

\* A method called through that pointer.  Server.GrantFloor is AppGetFloor
\* followed by "Grant": the userID it is given is not looked at.
AppCall ==
  /\ app # Nil
  /\ \/ /\ "Grant" \in AppOps /\ CanGrant(fsm[app])
        /\ fsm' = [fsm EXCEPT ![app] = Grant(@)]
     \/ /\ "Deny" \in AppOps /\ CanDeny(fsm[app])
        /\ fsm' = [fsm EXCEPT ![app] = Deny(@)]
     \/ /\ "Revoke" \in AppOps
        /\ fsm' = [fsm EXCEPT ![app] = Revoke(@)]
     \/ /\ "Release" \in AppOps /\ CanRelease(fsm[app], NoUser)
        /\ fsm' = [fsm EXCEPT ![app] = Release(@)]
  /\ app' = Nil
  /\ UNCHANGED <<connVars, seenVars, floors, pc, job, nextTxID>>

\* Server.ReleaseFloor: forget the floor, whoever holds it.
ReleaseFloor(f) ==
  /\ "ReleaseFloor" \in AppOps
  /\ floors[f] # Nil
  /\ floors' = [floors EXCEPT ![f] = Nil]
  /\ UNCHANGED <<connVars, seenVars, fsm, pc, job, nextTxID, app>>

\* Server.Close snapshots the sessions ...
ServerClose ==
  /\ "Close" \in AppOps /\ srv = "up"
  /\ srv' = "closing"
  /\ shut' = sessions
  /\ UNCHANGED <<conn, pc, job, sessions, session, floors, fsm, nextTxID,
                 seenVars, app>>

\* A mutant: Close passes over a session whose handler is running.
CloseSessionIfIdle(c) ==
  /\ srv = "closing" /\ c \in shut
  /\ shut' = shut \ {c}
  /\ conn' = [conn EXCEPT ![c] = IF pc[c] = "read" THEN "closed" ELSE @]
  /\ UNCHANGED <<pc, job, sessions, session, floors, fsm, nextTxID, seenVars,
                 srv, app>>

\* ... closes their transports one by one ...
CloseSession(c) ==
  /\ srv = "closing" /\ c \in shut
  /\ shut' = shut \ {c}
  /\ conn' = [conn EXCEPT ![c] = IF @ = "none" THEN @ ELSE "closed"]
  /\ UNCHANGED <<pc, job, sessions, session, floors, fsm, nextTxID, seenVars,
                 srv, app>>

\* ... and then the listener.
CloseListener ==
  /\ srv = "closing" /\ shut = {}
  /\ srv' = "down"
  /\ UNCHANGED <<conn, pc, job, sessions, session, floors, fsm, nextTxID,
                 seenVars, shut, app>>

-----------------------------------------------------------------------------
\* handleMessage: the read loop of c takes the next message.  Acks and Errors
\* from a client, and unknown primitives, are only logged.
Dispatch(c) ==
  \/ "Hello" \in Messages /\ Hello(c)
  \/ /\ "FloorRequest" \in Messages
     /\ \E f \in FloorIDs, g \in Decisions : HandleFloorRequest(c, f, g)
  \/ /\ "FloorRelease" \in Messages
     /\ \/ \E f \in FloorIDs : ReleaseByFloorID(c, f)
        \/ \E r \in RequestIDs : ReleaseByRequestID(c, r)
  \/ /\ "FloorQuery" \in Messages
     /\ \E f \in FloorIDs : HandleFloorQuery(c, f)
  \/ "Goodbye" \in Messages /\ HandleGoodbye(c)

\* The handler of c goes on.
HandlerStep(c) ==
  \/ FloorRequest(c) \/ SendPending(c) \/ Decide(c)
  \/ TellGranted(c) \/ TellDenied(c)
  \/ ReleaseFallback(c) \/ FloorRelease(c) \/ TellReleased(c)
  \/ SendBroadcast(c) \/ ReleaseDone(c)
  \/ AnswerQuery(c)
  \/ GoodbyeRelease(c) \/ GoodbyeNotify(c) \/ GoodbyeEnd(c)

ConnectionStep(c) == Accept(c) \/ PeerLost(c) \/ ReadExit(c) \/ Keepalive(c)

Application ==
  \/ \E f \in FloorIDs : CreateFloor(f) \/ AppGetFloor(f) \/ ReleaseFloor(f)
  \/ AppCall
  \/ ServerClose
  \/ \E c \in Conns : CloseSession(c)
  \/ CloseListener

Next ==
  \/ \E c \in Conns : Dispatch(c) \/ HandlerStep(c) \/ ConnectionStep(c)
  \/ Application

Spec == Init /\ [][Next]_vars

\* Goroutines are scheduled, the 150 ms pause ends and a write returns within
\* its 5 s deadline; a read loop whose transport is gone gets an error.
\* Clients, peers and the application owe nothing.
Fairness ==
  /\ \A c \in Conns : WF_vars(HandlerStep(c)) /\ WF_vars(ReadExit(c))
  /\ \A c \in Conns : WF_vars(CloseSession(c))
  /\ WF_vars(CloseListener)

FairSpec == Spec /\ Fairness

-----------------------------------------------------------------------------
(***************************************************************************)
(* Properties.  OneConnectionPerUser is the configuration the README       *)
(* describes: one BFCP user per endpoint, and no user has the ID 0.        *)
(* HandsOff says the application leaves pending and granted floors to the  *)
(* protocol handlers.                                                      *)
(***************************************************************************)
NamedUsers == \A c \in Conns : UserOf[c] # NoUser

OneConnectionPerUser ==
  NamedUsers /\ \A c, d \in Conns : UserOf[c] = UserOf[d] => c = d

HandsOff == AppOps \subseteq {"Close"}

\* Floor f is granted to user u.
HolderIs(f, u) ==
  /\ floors[f] # Nil
  /\ fsm[floors[f]].state = "Granted"
  /\ fsm[floors[f]].owner = u

\* Connection c's handler has freed f (or is freeing everything) and has not
\* told its own client yet.
GivingUp(c, f) ==
  \/ pc[c] = "released" /\ Fid(c) = f
  \/ pc[c] \in {"goodbye", "byeBroadcast"}

\* What a client may conclude from the last status it got: c has f.
Believes(c, f) ==
  conn[c] = "open" /\ told[c][f] = "Granted" /\ ~GivingUp(c, f)

\* A floor records a connection's user exactly while it is pending or granted,
\* so the owner check of Release (state.go:90) never lets a former owner in.
HeldIffOwned ==
  \A o \in Cells : IF Held(fsm[o]) THEN fsm[o].owner \in Users
                                   ELSE fsm[o].owner = NoUser

\* While a handler sends Pending and sleeps before Grant (server.go:904-909),
\* the floor still carries this handler's own request.
HandlerKeepsItsRequest ==
  \A c \in Conns : pc[c] \in {"pending", "decide"} =>
    /\ Floor(c).state = "Pending"
    /\ Floor(c).owner = UserOf[c]
    /\ Floor(c).requestID = job[c].req

\* A client whose last status about a floor is Granted does have the floor.
GrantedIsHolder ==
  \A c \in Conns, f \in FloorIDs : Believes(c, f) => HolderIs(f, UserOf[c])

\* Two clients never both have Granted as their last status about one floor:
\* the mutual exclusion floor control is for, seen from the wire.
ExclusiveGrant ==
  \A c, d \in Conns, f \in FloorIDs : Believes(c, f) /\ Believes(d, f) => c = d

\* The OnFloorGranted and OnFloorReleased callbacks pair up with the floor:
\* between two messages of a user, the application counts the user as a holder
\* exactly when the floor is granted to it, across lost connections too.
CallbacksMatchFloors ==
  \A c \in Conns, f \in FloorIDs : pc[c] = "read" =>
    (UserOf[c] \in active[f] <=> HolderIs(f, UserOf[c]))

\* After a Goodbye is acknowledged the user has no floor left, pending or
\* granted (handleGoodbye, server.go:1002).
GoodbyeFreesFloors ==
  \A c \in Conns, f \in FloorIDs : session[c] = "Disconnected" =>
    ~(floors[f] # Nil /\ fsm[floors[f]].owner = UserOf[c])

\* In this step the handler of c, in a FloorRelease or a Goodbye, releases the
\* floor in cell o.
Releases(c, o) ==
  /\ pc[c] \in {"release", "goodbye"} /\ pc'[c] \in {"released", "byeBroadcast"}
  /\ job'[c].floor = o

\* The application's own call on floor f: a method through its pointer, or
\* Server.ReleaseFloor.
AppTakes(f) == (app = floors[f] /\ app' = Nil) \/ floors'[f] = Nil

\* A granted floor is only lost by a FloorRelease or Goodbye of its own user, by
\* the application, or by a message that carries user ID 0: the server does not
\* check the ID it is given (server.go:965, 1015), and Release asks no owner of
\* user 0 (state.go:90).
OnlyHolderGivesUp ==
  [][\A f \in FloorIDs, u \in Users : HolderIs(f, u) /\ ~HolderIs(f, u)' =>
       \/ AppTakes(f)
       \/ \E c \in Conns : UserOf[c] \in {u, NoUser} /\ Releases(c, floors[f])]_vars

\* A denied floor stays denied: Deny leaves it without an owner and Request
\* takes released floors only (state.go:46, 79), so that no message of a named
\* user, nor a handler still at work on an earlier request, brings it back.  Only
\* a FloorRelease or Goodbye with user ID 0, the application's Revoke or Release,
\* or removing the floor does.
DeniedIsFinal ==
  [][\A f \in FloorIDs :
       /\ floors[f] # Nil /\ floors'[f] = floors[f]
       /\ fsm[floors[f]].state = "Denied" /\ fsm'[floors[f]].state # "Denied"
       => \/ AppTakes(f)
          \/ \E c \in Conns : UserOf[c] = NoUser /\ Releases(c, floors[f])]_vars

\* Server.sessions holds live connections only, so a broadcast never goes to a
\* connection that ended before the broadcast began (OnClose, server.go:313).
SessionsAreLive ==
  /\ \A c \in sessions : conn[c] # "none"
  /\ \A c \in Conns : conn[c] = "none" => pc[c] = "read" /\ job[c] = NoJob

\* Every pending request is decided, whatever becomes of its connection.
RequestDecided ==
  \A o \in Cells : fsm[o].state = "Pending" ~> fsm[o].state # "Pending"

\* A Goodbye always ends in a closed connection: no handler waits for another.
GoodbyeCompletes ==
  \A c \in Conns : pc[c] = "goodbye" ~> conn[c] = "none"

\* Server.Close gets to the end of every session it found.
CloseEndsSessions ==
  \A c \in Conns : c \in shut ~> conn[c] = "none"

\* The server implements the abstract floor control specification; a floor that
\* is not in the map counts as free.
FC == INSTANCE FloorControl WITH
  phase <- [f \in FloorIDs |->
              IF floors[f] = Nil THEN "Released" ELSE fsm[floors[f]].state],
  holder <- [f \in FloorIDs |->
              IF floors[f] = Nil THEN NoUser ELSE fsm[floors[f]].owner]

ImplementsFloorControl == FC!Spec

=============================================================================
