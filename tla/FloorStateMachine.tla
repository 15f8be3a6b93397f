-------------------------- MODULE FloorStateMachine --------------------------
(***************************************************************************)
(* The FloorStateMachine of state.go: the state of one floor.  Every       *)
(* method of the Go type takes the floor's mutex for its whole body, so    *)
(* one method is one operator on the record of the guarded fields.  The    *)
(* guard of a method is its error return: CanX(m) holds iff the method X   *)
(* returns a nil error (or its error return changes nothing).              *)
(*                                                                         *)
(* Abstracted: ConferenceID (one conference per server), Priority and the  *)
(* two timestamps, which no code of the repository reads back.             *)
(***************************************************************************)
EXTENDS Naturals

\* The RequestStatus values a floor's CurrentState takes.  Accepted, Cancelled
\* and Revoked are never the state of a floor outside a method.
FloorStates == {"Released", "Pending", "Granted", "Denied"}

\* OwnerUserID when nobody has the floor.
NoUser == 0

\* The states in which the code keeps an owner in the record.
Held(m) == m.state \in {"Pending", "Granted"}

NewFloorStateMachine(fid) ==
  [fid |-> fid, state |-> "Released", owner |-> NoUser, requestID |-> 0]

\* A mutant: the in-use check looks at granted floors only.
CanRequestUnlessGranted(m) == m.state \in {"Released", "Pending"}

CanRequest(m) == m.state = "Released"

Request(m, userID, requestID) ==
  [m EXCEPT !.state = "Pending", !.owner = userID, !.requestID = requestID]

\* A mutant: Grant does not check that a request is pending.
CanGrantAlways(m) == m.state # "Granted"

CanGrant(m) == m.state = "Pending"

Grant(m) == [m EXCEPT !.state = "Granted"]

CanDeny(m) == m.state = "Pending"

\* A mutant: Deny leaves the loser in OwnerUserID.
DenyKeepsOwner(m) == [m EXCEPT !.state = "Denied", !.requestID = 0]

Deny(m) ==
  [m EXCEPT !.state = "Denied", !.owner = NoUser, !.requestID = 0]

\* A mutant: Release does not compare the caller with the owner.
CanReleaseAnyone(m, userID) == m.state # "Denied"

\* The owner check is skipped for user ID 0, whoever passes it: the server's
\* handlers pass the UserID field of the message as it is.
CanRelease(m, userID) == m.owner = userID \/ userID = NoUser

Release(m) ==
  [m EXCEPT !.state = "Released", !.owner = NoUser, !.requestID = 0]

\* Revoke frees the floor even when it then reports "no user to revoke".
Revoke(m) ==
  [m EXCEPT !.state = "Released", !.owner = NoUser, !.requestID = 0]

=============================================================================
