---------------------------- MODULE ClientServer ----------------------------
(***************************************************************************)
(* The client stack against the server: one TCP client (client.go), used   *)
(* directly or through a virtual client (virtual/client.go), connected to  *)
(* the server of TCPServer.tla as its connection Me.  The other            *)
(* connections of the server are plain peers.                              *)
(*                                                                         *)
(* Every step of the server is a step of TCPServer; what this module adds  *)
(* is the two wires.  A handler of Me is started by the message at the     *)
(* head of outbox, and each write of the server to Me puts a message into  *)
(* inbox, with the transaction ID of the request (handling) or, for        *)
(* broadcasts and keepalives, one of the server's own counter.             *)
(*                                                                         *)
(* A setup says what surrounds the client: whether it is wrapped in a      *)
(* virtual client, whether the connection may break, whether the server's  *)
(* own transaction IDs can equal the client's (collide), what the server   *)
(* decides, which other connections and which threads of the application   *)
(* are active, how many transaction IDs may be drawn before the last call  *)
(* begins, and whether timing is benign (timely): then the 150 ms pause    *)
(* before Grant outlasts the client's running goroutines, and the 5 s      *)
(* timer of sendAndWait only fires when no answer can come any more.       *)
(***************************************************************************)
EXTENDS VirtualClient

CONSTANTS
  Conns, Cells, Nil, UserOf, IdSpace, Messages, Decisions, AppOps,
  Me,         \* the client's connection
  Setups,     \* the environments to check
  MaxInbox    \* bound on the messages on their way to the client

VARIABLES conn, pc, job, sessions, session, floors, fsm, nextTxID, told,
          active, srv, shut, app

VARIABLES
  handling,   \* the client's message the server is handling
  setup       \* the environment of this behaviour

S == INSTANCE TCPServer

serverVars == <<conn, pc, job, sessions, session, floors, fsm, nextTxID, told,
                active, srv, shut, app>>
vars == <<clientVars, virtualVars, wireVars, serverVars, handling, setup>>

AllSetups == [virtual : BOOLEAN, breaks : BOOLEAN, collide : BOOLEAN,
              timely : BOOLEAN, decisions : SUBSET Decisions,
              peers : SUBSET (Conns \ {Me}), threads : SUBSET Threads,
              calls : Nat]

ASSUME ClientServerAssumption ==
  /\ Me \in Conns /\ MaxInbox \in Nat
  /\ UserOf \in [Conns -> Nat]
  /\ IdSpace \in Nat \ {0} /\ S!RequestIDs \subseteq ReqIDs
  /\ Nil \notin Cells /\ Nil \notin FloorIDs
  /\ Messages = {"Hello", "FloorRequest", "FloorRelease", "FloorQuery",
                  "Goodbye"}
  /\ Decisions \subseteq BOOLEAN
  /\ AppOps \subseteq {"Grant", "Deny", "Revoke", "Release",
                       "ReleaseFloor", "Close"}
  /\ Setups \subseteq AllSetups
  /\ None \notin Threads /\ None \notin FloorIDs
  /\ None \notin ReqIDs /\ None \notin Message /\ None \notin Statuses
  /\ None \notin [req : ReqIDs, status : Statuses]
  /\ Closed \notin Threads /\ Closed # None

TypeOK ==
  /\ ClientTypeOK /\ VirtualTypeOK /\ S!TypeOK
  /\ handling \in Message \cup {None}
  /\ setup \in AllSetups
  /\ Len(inbox) <= MaxInbox

Init ==
  /\ ClientInit /\ VirtualInit /\ S!Init
  /\ handling = None
  /\ setup \in Setups

-----------------------------------------------------------------------------
\* The wires.

\* The server writes m to the client: lost when the connection is gone, held
\* back while MaxInbox messages are on their way.
Write(m) ==
  /\ Len(inbox) < MaxInbox
  /\ inbox' = IF conn[Me] = "open" /\ link = "up" THEN Append(inbox, m) ELSE inbox
  /\ UNCHANGED <<link, outbox>>

Reply(prim, f, r, status) ==
  Write([prim |-> prim, tx |-> handling.tx, floor |-> f, req |-> r,
         status |-> status])

\* A handler that gives up has sent an Error.
ErrorOrNothing ==
  IF pc'[Me] = "read" THEN Reply("Error", None, None, None)
                      ELSE UNCHANGED wireVars

\* A message of the server's own, with the next ID of its counter; 0 is an ID
\* the client never draws.
Announce(prim, f, r, status) ==
  Write([prim |-> prim, tx |-> IF setup.collide THEN S!NextID ELSE 0,
         floor |-> f, req |-> r, status |-> status])

Take(m) ==
  /\ outbox # <<>> /\ m = Head(outbox)
  /\ outbox' = Tail(outbox)
  /\ handling' = m
  /\ UNCHANGED <<link, inbox>>

-----------------------------------------------------------------------------
\* The client's goroutines.

\* Thread t waits: for a call, for the lock or for an answer.
Rests(t) ==
  \/ Idle(t) /\ (frame[t] = NoFrame \/ (frame[t].at = "lock" /\ mu # None))
  \/ call[t].at = "wait" /\ chan[t] = None
  \/ call[t].at = "callback" /\ setup.virtual /\ mu # None

\* Nothing but the start of a call, or a timer, can happen in the client now.
Resting ==
  /\ \A t \in Threads : Rests(t)
  /\ \/ reader.at = "read" /\ inbox = <<>>
     \/ reader.at = "callback" /\ setup.virtual /\ mu # None
     \/ reader.at \in {"off", "done"}

\* No answer can come any more.
Hopeless ==
  /\ Resting
  /\ reader.at # "read" \/ (outbox = <<>> /\ pc[Me] = "read")

\* The application starts a call.  A virtual client may always be closed.
ApplicationCall(t) ==
  \/ /\ ~setup.virtual /\ lastTx < setup.calls
     /\ \/ Dial(t) \/ Hello(t) \/ Goodbye(t) \/ Disconnect(t)
        \/ \E f \in FloorIDs : RequestFloor(t, f) \/ ReleaseFloor(t, f)
                               \/ QueryFloor(t, f)
     /\ UNCHANGED virtualVars
  \/ setup.virtual /\ lastTx < setup.calls /\ VirtualCall(t)
  \/ setup.virtual /\ VClose(t)

ThreadStep(t) ==
  \/ CallStep(t) /\ UNCHANGED virtualVars
  \/ Timeout(t) /\ (setup.timely => Hopeless) /\ UNCHANGED virtualVars
  \/ /\ ~setup.virtual
     /\ Ready(t) \/ Callback(t) \/ (Returned(t) /\ EndCall(t))
     /\ UNCHANGED virtualVars
  \/ setup.virtual /\ FrameStep(t)

ReadLoop ==
  \/ ReaderStep /\ UNCHANGED virtualVars
  \/ ~setup.virtual /\ (ReaderCallback \/ OnClose) /\ UNCHANGED virtualVars
  \/ setup.virtual /\ (VReaderCallback \/ VOnClose)

Calls(t) ==
  /\ ~crashed /\ ApplicationCall(t)
  /\ UNCHANGED <<serverVars, handling, setup>>

ThreadRuns(t) ==
  /\ ~crashed /\ ThreadStep(t)
  /\ UNCHANGED <<serverVars, handling, setup>>

ReaderRuns ==
  /\ ~crashed /\ ReadLoop
  /\ UNCHANGED <<serverVars, handling, setup>>

-----------------------------------------------------------------------------
\* The server's side of connection Me.

\* handleMessage of the next message.  A FloorRelease of this client names the
\* floor; an unknown floor is answered with an Error.
ServerReads ==
  \E m \in {Head(outbox) : i \in 1 .. Len(outbox)} :
    /\ Take(m)
    /\ \/ m.prim = "FloorRequest" /\ \E g \in setup.decisions :
                                       S!HandleFloorRequest(Me, m.floor, g)
       \/ m.prim = "FloorRelease" /\ S!ReleaseByFloorID(Me, m.floor)
       \/ m.prim = "FloorQuery" /\ S!HandleFloorQuery(Me, m.floor)
       \/ m.prim = "Goodbye" /\ S!HandleGoodbye(Me)

\* The messages that are answered at once.
ServerAnswers ==
  /\ outbox # <<>> /\ S!Reading(Me)
  /\ Len(inbox) < MaxInbox
  /\ LET m == Head(outbox)
         Answer(prim) == inbox' = Append(inbox,
           [prim |-> prim, tx |-> m.tx, floor |-> None, req |-> None,
            status |-> None])
     IN \/ m.prim = "Hello" /\ S!Hello(Me) /\ Answer("HelloAck")
        \/ /\ m.prim \in {"FloorRelease", "FloorQuery"} /\ floors[m.floor] = Nil
           /\ Answer("Error")
           /\ UNCHANGED serverVars
  /\ outbox' = Tail(outbox)
  /\ UNCHANGED <<link, handling>>

\* The 150 ms before Grant have passed.
PauseOver(c) ==
  pc[c] = "decide" /\ job[c].grant /\ setup.timely => Resting

\* The handler goes on, and says what it has to say to the client.
ServerHandles ==
  /\ \/ S!FloorRequest(Me) /\ ErrorOrNothing
     \/ S!SendPending(Me) /\ Reply("FloorRequestStatus", S!Fid(Me), job[Me].req,
                                   "Pending")
     \/ S!Decide(Me) /\ PauseOver(Me) /\ UNCHANGED wireVars
     \/ S!TellGranted(Me) /\ Reply("FloorRequestStatus", S!Fid(Me), job[Me].req,
                                   "Granted")
     \/ S!TellDenied(Me) /\ Reply("FloorRequestStatus", S!Fid(Me), job[Me].req,
                                  "Denied")
     \/ S!FloorRelease(Me) /\ ErrorOrNothing
     \/ S!TellReleased(Me) /\ Reply("FloorRequestStatus", S!Fid(Me),
                                    handling.req, "Released")
     \/ S!AnswerQuery(Me) /\ Reply("FloorStatus", S!Fid(Me), job[Me].req,
                                   S!Floor(Me).state)
     \/ S!GoodbyeEnd(Me) /\ Reply("GoodbyeAck", None, None, None)
     \/ /\ S!SendBroadcast(Me) \/ S!ReleaseDone(Me) \/ S!GoodbyeRelease(Me)
           \/ S!GoodbyeNotify(Me)
        /\ UNCHANGED wireVars
  /\ handling' = IF pc'[Me] = "read" THEN None ELSE handling

\* A broadcast of another handler reaches Me, if Me is among its sessions.  It
\* carries the request ID the peer put in its FloorRelease, which may be any.
OtherHandles(c) ==
  \/ /\ S!HandlerStep(c) /\ PauseOver(c)
     /\ Me \in job[c].dest => Me \in job'[c].dest
     /\ UNCHANGED wireVars
  \/ /\ S!SendBroadcast(c)
     /\ Me \in job[c].dest /\ Me \notin job'[c].dest
     /\ \E r \in S!RequestIDs :
          Announce("FloorRequestStatus", S!Fid(c), r, "Released")

ServerRuns ==
  /\ ServerReads \/ ServerAnswers \/ ServerHandles
  /\ UNCHANGED <<clientVars, virtualVars, setup>>

\* The other participants ask for floors and release them.  They say no Hello,
\* so that the broadcasts of Me go to nobody, and no Goodbye: to Me it would be
\* one Released broadcast per floor, as after a release.
Peer(c) ==
  /\ \/ OtherHandles(c)
     \/ /\ \/ S!Accept(c)
           \/ \E f \in FloorIDs, g \in setup.decisions : S!HandleFloorRequest(c, f, g)
           \/ \E f \in FloorIDs : S!ReleaseByFloorID(c, f)
        /\ UNCHANGED wireVars
  /\ UNCHANGED <<clientVars, virtualVars, handling, setup>>

\* Keepalives matter to the client only by their transaction IDs.
Keepalive ==
  /\ setup.collide /\ S!Keepalive(Me)
  /\ Announce("Hello", None, None, None)
  /\ UNCHANGED <<clientVars, virtualVars, handling, setup>>

-----------------------------------------------------------------------------
\* The connection.

\* The server accepts the dialled connection.
Accepted ==
  /\ link = "up" /\ S!Accept(Me)
  /\ UNCHANGED wireVars

\* The client closed its end or died, and the server has read all it wrote.
ServerSeesEOF ==
  /\ tr = "closed" \/ crashed
  /\ outbox = <<>>
  /\ S!PeerLost(Me)
  /\ UNCHANGED wireVars

\* The server's read loop ends; the client's reads fail from now on.
ServerHangsUp ==
  /\ S!ReadExit(Me)
  /\ link' = "down" /\ outbox' = <<>>
  /\ UNCHANGED inbox

\* The network gives up: what was under way is lost, from some message on.
Break ==
  /\ setup.breaks /\ link = "up" /\ conn[Me] = "open"
  /\ S!PeerLost(Me)
  /\ link' = "down" /\ outbox' = <<>>
  /\ \E k \in 0 .. Len(inbox) : inbox' = SubSeq(inbox, 1, k)

Connection ==
  /\ Accepted \/ ServerSeesEOF \/ ServerHangsUp
  /\ UNCHANGED <<clientVars, virtualVars, handling, setup>>

NetworkFails == Break /\ UNCHANGED <<clientVars, virtualVars, handling, setup>>

-----------------------------------------------------------------------------
Next ==
  \/ \E t \in setup.threads : Calls(t) \/ ThreadRuns(t)
  \/ ReaderRuns
  \/ ServerRuns
  \/ \E c \in setup.peers : Peer(c)
  \/ Keepalive
  \/ Connection
  \/ NetworkFails

Spec == Init /\ [][Next]_vars

\* Goroutines are scheduled, timers fire, TCP delivers what it does not lose.
\* The application, the other participants and the network owe nothing.
Fairness ==
  /\ \A t \in Threads : WF_vars(t \in setup.threads /\ ThreadRuns(t))
  /\ WF_vars(ReaderRuns) /\ WF_vars(ServerRuns) /\ WF_vars(Connection)

FairSpec == Spec /\ Fairness

-----------------------------------------------------------------------------
(***************************************************************************)
(* Properties.                                                             *)
(***************************************************************************)
User == UserOf[Me]

\* The client is giving floors up: a release or a goodbye is under way.
GivingUp ==
  \/ \E t \in Threads :
       call[t].op \in {"ReleaseFloor", "Goodbye", "Disconnect"}
  \/ \E i \in 1 .. Len(outbox) : outbox[i].prim \in {"FloorRelease", "Goodbye"}
  \/ handling # None /\ handling.prim \in {"FloorRelease", "Goodbye"}

\* The client has read and handled all the server wrote to it.
CaughtUp == conn[Me] = "open" /\ inbox = <<>> /\ reader.at = "read"

\* Nothing is under way between the application and the server.
Settled ==
  /\ CaughtUp /\ Resting
  /\ \A t \in Threads : Idle(t) /\ frame[t] = NoFrame
  /\ outbox = <<>> /\ pc[Me] = "read" /\ link = "up" /\ ~crashed

\* With benign timing the client takes a floor for granted (in activeRequests,
\* or in the last callback it made) only while the server has the floor granted
\* to its user, even if foreign messages carry its transaction IDs
\* (handleMessage, client.go:363-388).
ClientGrantIsHolder ==
  \A f \in FloorIDs :
    /\ setup.timely /\ CaughtUp /\ ~GivingUp
    /\ \/ requests[f] # None /\ requests[f].status = "Granted"
       \/ notified[f] = "Granted"
    => S!HolderIs(f, User)

\* With benign timing and one calling goroutine, the client of a user that holds
\* a floor still has the entry ReleaseFloor asks for (client.go:291-297), even
\* after a broadcast about somebody else's request has rewritten its status.
HolderCanRelease ==
  \A f \in FloorIDs :
    /\ setup.timely /\ ~setup.collide /\ ~setup.virtual
    /\ \E t \in Threads : setup.threads = {t}
    /\ Settled /\ S!HolderIs(f, User)
    => requests[f] # None

\* heldFloors of a virtual client only lists floors its user has, also when the
\* callbacks had to wait for c.mu (virtual/client.go:182-233).
HeldIsHolder ==
  \A f \in FloorIDs :
    setup.timely /\ CaughtUp /\ ~GivingUp /\ held[f] # None
    => S!HolderIs(f, User)

\* Close of a virtual client leaves its user no floor, pending or granted, on a
\* connection that works: the server's handleGoodbye does what the refused
\* ReleaseAllFloors does not (virtual/client.go:432-437).
CloseFreesFloors ==
  \A f \in FloorIDs :
    /\ vclosed /\ \A t \in Threads : frame[t] = NoFrame
    /\ ~setup.breaks /\ conn[Me] = "none" /\ link = "down"
    /\ floors[f] # Nil
    => fsm[floors[f]].owner # User

\* Thread t is inside a method.
Busy(t) == ~Idle(t) \/ frame[t] # NoFrame

\* Every method of the client and of the virtual client returns, unless the
\* process dies: a callback that waits for c.mu always gets it
\* (virtual/client.go:182-183, 294).
CallsReturn == \A t \in Threads : Busy(t) ~> crashed \/ ~Busy(t)

\* A connection lost while the read loop runs is noticed, however busy the read
\* loop is with callbacks (transport.go:180-186, client.go:109-116).
LossIsNoticed ==
  link = "down" /\ connected /\ reader.at # "done" ~> crashed \/ ~connected

-----------------------------------------------------------------------------
\* What the documents say and the code does not keep.

\* README.md:310: "All operations are concurrent-safe".  The read loop never
\* sends on a channel that sendAndWait has closed (client.go:372, 483).
NeverPanics == ~crashed

\* virtual/client.go:317: "ReleaseFloor releases a previously granted floor."  A
\* virtual client at rest knows the request of every floor it holds.
HeldCanBeReleased ==
  \A f \in FloorIDs : Settled /\ held[f] # None => tracked[held[f]] = f

=============================================================================
