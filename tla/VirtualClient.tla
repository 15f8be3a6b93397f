---------------------------- MODULE VirtualClient ----------------------------
(***************************************************************************)
(* The virtual client (virtual/client.go): a wrapper that numbers floor    *)
(* requests for its user and keeps two tables, activeRequests and          *)
(* heldFloors, under one lock, c.mu.  Connect and RequestFloor hold that   *)
(* lock while the wrapped client waits for the server; the callbacks the   *)
(* wrapped client makes, from its read loop or from the calling thread,    *)
(* take it.                                                                *)
(*                                                                         *)
(* frame[t] is the method of the wrapper thread t is in, call[t] the       *)
(* method of the wrapped client that it is waiting for.  Abstracted: the   *)
(* status, priority and texts of a tracked request; the user's callbacks   *)
(* do nothing; New, GetStatus and the other getters have no step.  Connect *)
(* of the wrapped client stores connected and calls OnConnected in one     *)
(* step (VReady): a loss between the two, which would leave the wrapper's  *)
(* flag set, is left out.                                                  *)
(***************************************************************************)
EXTENDS Client

VARIABLES
  mu,          \* Client.mu: the thread that holds it, or None
  hasClient,   \* Client.client is set
  vclosed,     \* Client.closed
  vconnected,  \* Client.connected of the wrapper
  tracked,     \* Client.activeRequests: request ID to floor
  held,        \* Client.heldFloors: floor to request ID
  frame        \* frame[t]: the wrapper's method thread t is in

virtualVars == <<mu, hasClient, vclosed, vconnected, tracked, held, frame>>
tables == <<tracked, held>>

NoFrame == [op |-> "none", at |-> "idle", floor |-> None, req |-> None,
            todo |-> {}]

FrameRecord ==
  [op : {"none", "Connect", "RequestFloor", "ReleaseFloor",
         "ReleaseAllFloors", "Close"},
   at : {"idle", "lock", "dial", "hello", "hangup", "request", "release",
         "unlock"},
   floor : FloorIDs \cup {None}, req : ReqIDs \cup {None},
   todo : SUBSET FloorIDs]

VirtualTypeOK ==
  /\ mu \in Threads \cup {None}
  /\ hasClient \in BOOLEAN /\ vclosed \in BOOLEAN /\ vconnected \in BOOLEAN
  /\ tracked \in [ReqIDs -> FloorIDs \cup {None}]
  /\ held \in [FloorIDs -> ReqIDs \cup {None}]
  /\ frame \in [Threads -> FrameRecord]

VirtualInit ==
  /\ mu = None /\ hasClient = FALSE /\ vclosed = FALSE /\ vconnected = FALSE
  /\ tracked = [r \in ReqIDs |-> None]
  /\ held = [f \in FloorIDs |-> None]
  /\ frame = [t \in Threads |-> NoFrame]

FrameGoto(t, place) == frame' = [frame EXCEPT ![t].at = place]
FrameEnd(t) == frame' = [frame EXCEPT ![t] = NoFrame]

Enter(t, op, place, f) ==
  /\ frame[t] = NoFrame
  /\ frame' = [frame EXCEPT ![t] = [NoFrame EXCEPT !.op = op, !.at = place,
                                                   !.floor = f]]

\* The call of the wrapped client has returned.
Returned(t) == call[t].at = "return"

\* Forget the finished call.
EndCall(t) ==
  /\ call' = [call EXCEPT ![t] = NoCall]
  /\ UNCHANGED <<wireVars, tr, connected, state, requests, lastTx, chan,
                 reader, crashed, notified>>

Idle(t) == call[t].at = "idle"

-----------------------------------------------------------------------------
\* Connect, under the lock from beginning to end.

VConnect(t) ==
  /\ ~vclosed /\ ~hasClient /\ \A u \in Threads : frame[u].op # "Connect"
  /\ Enter(t, "Connect", "lock", None)
  /\ UNCHANGED <<clientVars, wireVars, mu, hasClient, vclosed, vconnected,
                 tables>>

VDial(t) ==
  /\ frame[t].op = "Connect" /\ frame[t].at = "lock" /\ mu = None
  /\ mu' = t /\ hasClient' = TRUE
  /\ Dial(t)
  /\ FrameGoto(t, "dial")
  /\ UNCHANGED <<vclosed, vconnected, tables>>

\* Ready calls OnConnected, which sets the wrapper's flag.
VReady(t) ==
  /\ Ready(t)
  /\ vconnected' = TRUE
  /\ UNCHANGED <<mu, hasClient, vclosed, tables, frame>>

VDialled(t) ==
  /\ frame[t].at = "dial" /\ Returned(t)
  /\ EndCall(t)
  /\ FrameGoto(t, "hello")
  /\ UNCHANGED <<mu, hasClient, vclosed, vconnected, tables>>

\* client.Hello, refused when the connection is already gone.
VHello(t) ==
  /\ frame[t].at = "hello" /\ Idle(t)
  /\ \/ Hello(t) /\ UNCHANGED frame
     \/ ~connected /\ FrameGoto(t, "hangup") /\ UNCHANGED <<clientVars, wireVars>>
  /\ UNCHANGED <<mu, hasClient, vclosed, vconnected, tables>>

\* A failed handshake disconnects.
VHelloDone(t) ==
  /\ frame[t].at = "hello" /\ Returned(t)
  /\ FrameGoto(t, IF call[t].ok THEN "unlock" ELSE "hangup")
  /\ EndCall(t)
  /\ UNCHANGED <<mu, hasClient, vclosed, vconnected, tables>>

\* client.Disconnect, for Connect and Close.
VHangup(t) ==
  /\ frame[t].at = "hangup" /\ Idle(t)
  /\ \/ Disconnect(t) /\ UNCHANGED frame
     \/ ~connected /\ FrameGoto(t, "unlock") /\ UNCHANGED <<clientVars, wireVars>>
  /\ UNCHANGED <<mu, hasClient, vclosed, vconnected, tables>>

VHangupDone(t) ==
  /\ frame[t].at = "hangup" /\ Returned(t)
  /\ EndCall(t)
  /\ FrameGoto(t, "unlock")
  /\ UNCHANGED <<mu, hasClient, vclosed, vconnected, tables>>

\* The method returns; its deferred Unlock runs if it has the lock.
VReturn(t) ==
  /\ frame[t].at = "unlock"
  /\ mu' = IF mu = t THEN None ELSE mu
  /\ FrameEnd(t)
  /\ UNCHANGED <<clientVars, wireVars, hasClient, vclosed, vconnected, tables>>

-----------------------------------------------------------------------------
\* RequestFloor, under the lock from the call to the entry in activeRequests.

Usable == ~vclosed /\ vconnected

VRequestFloor(t, f) ==
  /\ Usable
  /\ Enter(t, "RequestFloor", "lock", f)
  /\ UNCHANGED <<clientVars, wireVars, mu, hasClient, vclosed, vconnected,
                 tables>>

VRequestSend(t) ==
  /\ frame[t].op = "RequestFloor" /\ frame[t].at = "lock" /\ mu = None
  /\ mu' = t
  /\ \/ RequestFloor(t, frame[t].floor) /\ FrameGoto(t, "request")
     \/ /\ ~connected
        /\ FrameGoto(t, "unlock")
        /\ UNCHANGED <<clientVars, wireVars>>
  /\ UNCHANGED <<hasClient, vclosed, vconnected, tables>>

VRequestDone(t) ==
  /\ frame[t].at = "request" /\ Returned(t)
  /\ tracked' = IF call[t].ok
                  THEN [tracked EXCEPT ![call[t].resp.req] = frame[t].floor]
                  ELSE tracked
  /\ EndCall(t)
  /\ FrameGoto(t, "unlock")
  /\ UNCHANGED <<mu, hasClient, vclosed, vconnected, held>>

-----------------------------------------------------------------------------
\* ReleaseFloor and ReleaseAllFloors look their floors up under the lock and
\* call the wrapped client without it.

\* The request ID 0 is invalid.
VReleaseFloor(t, r) ==
  /\ Usable /\ r # 0
  /\ frame[t] = NoFrame
  /\ frame' = [frame EXCEPT ![t] = [NoFrame EXCEPT !.op = "ReleaseFloor",
                                                   !.at = "lock", !.req = r]]
  /\ UNCHANGED <<clientVars, wireVars, mu, hasClient, vclosed, vconnected,
                 tables>>

VReleaseAllFloors(t) ==
  /\ Usable
  /\ Enter(t, "ReleaseAllFloors", "lock", None)
  /\ UNCHANGED <<clientVars, wireVars, mu, hasClient, vclosed, vconnected,
                 tables>>

\* What a thread is going to release: the floor of its request, if that is
\* known, or all floors it holds.
ToRelease(t) ==
  IF frame[t].op = "ReleaseFloor" THEN {tracked[frame[t].req]} \ {None}
  ELSE {f \in FloorIDs : held[f] # None}

\* A mutant: the lock is kept across the call.
VReleaseLookLocked(t) ==
  /\ frame[t].op \in {"ReleaseFloor", "ReleaseAllFloors"}
  /\ frame[t].at = "lock" /\ mu = None
  /\ mu' = t
  /\ frame' = [frame EXCEPT ![t].at = "release", ![t].todo = ToRelease(t)]
  /\ UNCHANGED <<clientVars, wireVars, hasClient, vclosed, vconnected, tables>>

VReleaseLook(t) ==
  /\ frame[t].op \in {"ReleaseFloor", "ReleaseAllFloors"}
  /\ frame[t].at = "lock" /\ mu = None
  /\ frame' = [frame EXCEPT ![t].at = "release", ![t].todo = ToRelease(t)]
  /\ UNCHANGED <<clientVars, wireVars, mu, hasClient, vclosed, vconnected,
                 tables>>

\* client.ReleaseFloor of the next floor, or its refusal.
VReleaseNext(t) ==
  /\ frame[t].at = "release" /\ Idle(t)
  /\ \E f \in frame[t].todo :
       /\ frame' = [frame EXCEPT ![t].todo = @ \ {f}]
       /\ \/ ReleaseFloor(t, f)
          \/ /\ ~connected \/ requests[f] = None
             /\ UNCHANGED <<clientVars, wireVars>>
  /\ UNCHANGED <<mu, hasClient, vclosed, vconnected, tables>>

VReleaseReturned(t) ==
  /\ frame[t].at = "release" /\ Returned(t)
  /\ EndCall(t)
  /\ UNCHANGED virtualVars

VReleaseDone(t) ==
  /\ frame[t].at = "release" /\ Idle(t) /\ frame[t].todo = {}
  /\ FrameGoto(t, "unlock")
  /\ UNCHANGED <<clientVars, wireVars, mu, hasClient, vclosed, vconnected,
                 tables>>

-----------------------------------------------------------------------------
\* Close: the flag first, then the lock for a look at c.client.  The call of
\* ReleaseAllFloors that follows is refused, because the flag is set: no step.

VClose(t) ==
  /\ ~vclosed
  /\ vclosed' = TRUE
  /\ Enter(t, "Close", "lock", None)
  /\ UNCHANGED <<clientVars, wireVars, mu, hasClient, vconnected, tables>>

\* A mutant: Close only closes the connection.
VCloseLookNoGoodbye(t) ==
  /\ frame[t].op = "Close" /\ frame[t].at = "lock" /\ mu = None
  /\ FrameGoto(t, "unlock")
  /\ tr' = IF hasClient THEN "closed" ELSE tr
  /\ UNCHANGED <<connected, state, requests, lastTx, call, chan, reader,
                 crashed, notified, wireVars, mu, hasClient, vclosed,
                 vconnected, tables>>

VCloseLook(t) ==
  /\ frame[t].op = "Close" /\ frame[t].at = "lock" /\ mu = None
  /\ FrameGoto(t, IF hasClient THEN "hangup" ELSE "unlock")
  /\ UNCHANGED <<clientVars, wireVars, mu, hasClient, vclosed, vconnected,
                 tables>>

-----------------------------------------------------------------------------
\* The callbacks Connect installs: each takes the lock.

\* A mutant: OnFloorReleased forgets the request and not the floor.
OnFloorKeepsHeld(ev, f, r) ==
  /\ mu = None
  /\ held' = IF ev = "Granted" THEN [held EXCEPT ![f] = r] ELSE held
  /\ tracked' = IF ev = "Granted" \/ held[f] = None THEN tracked
                ELSE [tracked EXCEPT ![held[f]] = None]
  /\ UNCHANGED <<mu, hasClient, vclosed, vconnected, frame>>

OnFloor(ev, f, r) ==
  /\ mu = None
  /\ \/ /\ ev = "Granted"
        /\ held' = [held EXCEPT ![f] = r]
        /\ UNCHANGED tracked
     \/ /\ ev = "Denied"
        /\ tracked' = [tracked EXCEPT ![r] = None]
        /\ UNCHANGED held
     \/ /\ ev \in {"Released", "Revoked"}
        /\ held' = [held EXCEPT ![f] = None]
        /\ tracked' = IF held[f] = None THEN tracked
                      ELSE [tracked EXCEPT ![held[f]] = None]
  /\ UNCHANGED <<mu, hasClient, vclosed, vconnected, frame>>

VCallback(t) ==
  /\ Callback(t)
  /\ OnFloor(Event(t), call[t].floor, call[t].resp.req)

VReaderCallback ==
  /\ ReaderCallback
  /\ IF reader.msg.prim = "FloorStatus"
       THEN mu = None /\ UNCHANGED virtualVars
       ELSE OnFloor(reader.msg.status, reader.msg.floor, reader.msg.req)

\* OnDisconnected.
VOnClose ==
  /\ OnClose
  /\ vconnected' = FALSE
  /\ UNCHANGED <<mu, hasClient, vclosed, tables, frame>>

-----------------------------------------------------------------------------
\* What the user of a virtual client may call, and the steps that follow.

VirtualCall(t) ==
  \/ VConnect(t) \/ VReleaseAllFloors(t)
  \/ \E f \in FloorIDs : VRequestFloor(t, f)
  \/ \E r \in ReqIDs : VReleaseFloor(t, r)

FrameStep(t) ==
  \/ VDial(t) \/ VReady(t) \/ VDialled(t) \/ VHello(t) \/ VHelloDone(t)
  \/ VHangup(t) \/ VHangupDone(t) \/ VReturn(t)
  \/ VRequestSend(t) \/ VRequestDone(t)
  \/ VReleaseLook(t) \/ VReleaseNext(t) \/ VReleaseReturned(t) \/ VReleaseDone(t)
  \/ VCloseLook(t) \/ VCallback(t)

=============================================================================
