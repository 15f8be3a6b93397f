---------------------------- MODULE FloorControl ----------------------------
(***************************************************************************)
(* What the server promises about floors, without connections, handlers,   *)
(* request IDs or messages: a floor goes to one user at a time, a request  *)
(* is only taken while the floor is free, the user who asked is the user   *)
(* who gets it, and the floor changes hands only by becoming free again.   *)
(***************************************************************************)
CONSTANTS FloorIDs, Users, NoUser

VARIABLES
  phase,   \* phase[f]: "Released", "Pending", "Granted" or "Denied"
  holder   \* holder[f]: the user a pending or granted floor belongs to

vars == <<phase, holder>>

Init ==
  /\ phase = [f \in FloorIDs |-> "Released"]
  /\ holder = [f \in FloorIDs |-> NoUser]

Request(f, u) ==
  /\ phase[f] = "Released" /\ holder[f] = NoUser
  /\ phase' = [phase EXCEPT ![f] = "Pending"]
  /\ holder' = [holder EXCEPT ![f] = u]

Grant(f) ==
  /\ phase[f] = "Pending"
  /\ phase' = [phase EXCEPT ![f] = "Granted"]
  /\ UNCHANGED holder

Deny(f) ==
  /\ phase[f] = "Pending"
  /\ phase' = [phase EXCEPT ![f] = "Denied"]
  /\ holder' = [holder EXCEPT ![f] = NoUser]

\* The holder gives the floor back, or the application takes it away.
Free(f) ==
  /\ phase' = [phase EXCEPT ![f] = "Released"]
  /\ holder' = [holder EXCEPT ![f] = NoUser]

Next ==
  \E f \in FloorIDs :
    \/ \E u \in Users : Request(f, u)
    \/ Grant(f) \/ Deny(f) \/ Free(f)

Spec == Init /\ [][Next]_vars

=============================================================================
