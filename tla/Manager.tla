------------------------------- MODULE Manager -------------------------------
(***************************************************************************)
(* The manager of virtual clients (virtual/manager.go): the client map     *)
(* under Manager.mu, the pool of user IDs under UserIDPool.mu, and of each *)
(* virtual client (virtual/client.go) what its removal depends on: the     *)
(* closed flag, Connect and Close, and its connection as the server sees   *)
(* it.  Removal is three steps (delete from the map, Close, return the     *)
(* user ID), taken without the manager's lock; the application may call    *)
(* Connect and Close of a client at any time, in a thread of its own.      *)
(*                                                                         *)
(* Abstracted: callbacks and timeouts; the application calls Connect only  *)
(* while the client has no connection.                                     *)
(***************************************************************************)
EXTENDS Naturals

CONSTANTS
  Ids,       \* client identifiers
  Objs,      \* heap cells for *Client values
  Nil,
  Start,     \* the configured range of user IDs
  End,
  Width      \* user IDs are 0..Width-1; 2^16 in the code

ASSUME RangeAssumption ==
  /\ Width \in Nat
  /\ Start \in 1 .. Width - 1
  /\ End \in Start .. Width - 1
  /\ Nil \notin Objs

VARIABLES
  clients,    \* Manager.clients
  allocated,  \* UserIDPool.allocated
  user,       \* user[o]: the client's user ID
  rm,         \* rm[o]: the thread removing o, see RmLabels
  own,        \* own[o]: the application's thread in a method of o
  closed,     \* closed[o]: Client.closed
  link        \* link[o]: the client's connection, as the server sees it

vars == <<clients, allocated, user, rm, own, closed, link>>

\* "fresh": not created; "managed": in the map; then the steps of a removal.
RmLabels == {"fresh", "managed", "close", "disconnect", "release", "done"}
OwnLabels == {"idle", "connect", "dial", "disconnect"}
Links == {"down", "up", "leaving"}
UserIDs == 0 .. Width - 1

TypeOK ==
  /\ clients \in [Ids -> Objs \cup {Nil}]
  /\ allocated \in SUBSET UserIDs
  /\ user \in [Objs -> UserIDs]
  /\ rm \in [Objs -> RmLabels]
  /\ own \in [Objs -> OwnLabels]
  /\ closed \in [Objs -> BOOLEAN]
  /\ link \in [Objs -> Links]

Init ==
  /\ clients = [i \in Ids |-> Nil]
  /\ allocated = {}
  /\ user = [o \in Objs |-> 0]
  /\ rm = [o \in Objs |-> "fresh"]
  /\ own = [o \in Objs |-> "idle"]
  /\ closed = [o \in Objs |-> FALSE]
  /\ link = [o \in Objs |-> "down"]

-----------------------------------------------------------------------------
\* UserIDPool.

\* How many values "for id := start; id <= end; id++" visits: at the top of the
\* uint16 range id wraps to 0 and the condition never fails.
ScanLength == IF End = Width - 1 THEN Width ELSE End + 1 - Start

\* Allocate returns u: the first value in scan order that is not allocated.
ScanFinds(u) ==
  \E k \in 0 .. ScanLength - 1 :
    /\ u = (Start + k) % Width
    /\ u \notin allocated
    /\ \A j \in 0 .. k - 1 : (Start + j) % Width \in allocated

\* New and m.clients[id] = client, after either kind of allocation.
AddClient(id, u) ==
  /\ clients[id] = Nil
  /\ \E o \in Objs :
       /\ rm[o] = "fresh"
       /\ rm' = [rm EXCEPT ![o] = "managed"]
       /\ user' = [user EXCEPT ![o] = u]
       /\ clients' = [clients EXCEPT ![id] = o]
  /\ allocated' = allocated \cup {u}
  /\ UNCHANGED <<own, closed, link>>

\* CreateClient, under Manager.mu; an existing ID or an empty pool is an error.
CreateClient(id) == \E u \in UserIDs : ScanFinds(u) /\ AddClient(id, u)

\* A mutant: AllocateSpecific does not check the range.
CreateClientWithAnyUserID(id, u) == u \notin allocated /\ AddClient(id, u)

\* CreateClientWithUserID: AllocateSpecific of an ID in range and not allocated.
CreateClientWithUserID(id, u) ==
  u \in Start .. End /\ u \notin allocated /\ AddClient(id, u)

-----------------------------------------------------------------------------
\* Removal.

\* A mutant: the user ID goes back before the client is closed.
RemoveClientReleasesFirst(id) ==
  /\ clients[id] # Nil
  /\ clients' = [clients EXCEPT ![id] = Nil]
  /\ rm' = [rm EXCEPT ![clients[id]] = "close"]
  /\ allocated' = allocated \ {user[clients[id]]}
  /\ UNCHANGED <<user, own, closed, link>>

\* RemoveClient takes the client out of the map.
RemoveClient(id) ==
  /\ clients[id] # Nil
  /\ clients' = [clients EXCEPT ![id] = Nil]
  /\ rm' = [rm EXCEPT ![clients[id]] = "close"]
  /\ UNCHANGED <<allocated, user, own, closed, link>>

\* A mutant: RemoveAll does not install a new map.
RemoveAllKeepsMap ==
  /\ rm' = [o \in Objs |-> IF rm[o] = "managed" THEN "close" ELSE rm[o]]
  /\ UNCHANGED <<clients, allocated, user, own, closed, link>>

\* RemoveAll takes all of them out at once.  Its loop closes them in turn; here
\* each goes on by itself, which allows every order of the loop.
RemoveAll ==
  /\ clients' = [i \in Ids |-> Nil]
  /\ rm' = [o \in Objs |-> IF rm[o] = "managed" THEN "close" ELSE rm[o]]
  /\ UNCHANGED <<allocated, user, own, closed, link>>

\* A mutant: Close of a closed client waits instead of returning.
RemoveCloseWaits(o) ==
  /\ rm[o] = "close" /\ ~closed[o]
  /\ rm' = [rm EXCEPT ![o] = "disconnect"]
  /\ closed' = [closed EXCEPT ![o] = TRUE]
  /\ UNCHANGED <<clients, allocated, user, own, link>>

\* client.Close of a removal: a client closed already is not waited for.
RemoveClose(o) ==
  /\ rm[o] = "close"
  /\ rm' = [rm EXCEPT ![o] = IF closed[o] THEN "release" ELSE "disconnect"]
  /\ closed' = [closed EXCEPT ![o] = TRUE]
  /\ UNCHANGED <<clients, allocated, user, own, link>>

\* Client.Disconnect writes Goodbye and closes; the server has yet to read it.
Disconnect(o) ==
  link' = [link EXCEPT ![o] = IF @ = "up" THEN "leaving" ELSE @]

\* The rest of Close, once Connect lets go of Client.mu.
RemoveDisconnect(o) ==
  /\ rm[o] = "disconnect" /\ own[o] # "dial"
  /\ Disconnect(o)
  /\ rm' = [rm EXCEPT ![o] = "release"]
  /\ UNCHANGED <<clients, allocated, user, own, closed>>

\* A mutant: the user ID goes back only if the client still has a connection.
ReleaseUserIDIfConnected(o) ==
  /\ rm[o] = "release"
  /\ rm' = [rm EXCEPT ![o] = "done"]
  /\ allocated' = IF link[o] = "down" THEN allocated ELSE allocated \ {user[o]}
  /\ UNCHANGED <<clients, user, own, closed, link>>

\* userIDPool.Release, whether or not Close failed.
ReleaseUserID(o) ==
  /\ rm[o] = "release"
  /\ rm' = [rm EXCEPT ![o] = "done"]
  /\ allocated' = allocated \ {user[o]}
  /\ UNCHANGED <<clients, user, own, closed, link>>

-----------------------------------------------------------------------------
\* The application's use of a client, and the server's view of it.

\* Connect tests the closed flag ...
Connect(o) ==
  /\ rm[o] # "fresh" /\ own[o] = "idle" /\ link[o] = "down" /\ ~closed[o]
  /\ own' = [own EXCEPT ![o] = "connect"]
  /\ UNCHANGED <<clients, allocated, user, rm, closed, link>>

\* ... takes Client.mu ...
ConnectLock(o) ==
  /\ own[o] = "connect"
  /\ own' = [own EXCEPT ![o] = "dial"]
  /\ UNCHANGED <<clients, allocated, user, rm, closed, link>>

\* ... and dials and says Hello; or the dial fails; or the HelloAck does not
\* come and Connect disconnects again.
ConnectDial(o) ==
  /\ own[o] = "dial"
  /\ own' = [own EXCEPT ![o] = "idle"]
  /\ \E l \in Links : link' = [link EXCEPT ![o] = l]
  /\ UNCHANGED <<clients, allocated, user, rm, closed>>

\* The application closes the client itself.
Close(o) ==
  /\ rm[o] # "fresh" /\ own[o] = "idle" /\ ~closed[o]
  /\ closed' = [closed EXCEPT ![o] = TRUE]
  /\ own' = [own EXCEPT ![o] = "disconnect"]
  /\ UNCHANGED <<clients, allocated, user, rm, link>>

CloseDisconnect(o) ==
  /\ own[o] = "disconnect"
  /\ Disconnect(o)
  /\ own' = [own EXCEPT ![o] = "idle"]
  /\ UNCHANGED <<clients, allocated, user, rm, closed>>

\* The server handles the Goodbye, or notices that the connection is gone.
ServerForgets(o) ==
  /\ link[o] \in {"up", "leaving"}
  /\ link' = [link EXCEPT ![o] = "down"]
  /\ UNCHANGED <<clients, allocated, user, rm, own, closed>>

RemovalStep(o) == RemoveClose(o) \/ RemoveDisconnect(o) \/ ReleaseUserID(o)

Next ==
  \/ \E id \in Ids : CreateClient(id) \/ RemoveClient(id)
  \/ \E id \in Ids, u \in UserIDs : CreateClientWithUserID(id, u)
  \/ RemoveAll
  \/ \E o \in Objs :
       \/ RemovalStep(o)
       \/ Connect(o) \/ ConnectLock(o) \/ ConnectDial(o)
       \/ Close(o) \/ CloseDisconnect(o)
       \/ ServerForgets(o)

Spec == Init /\ [][Next]_vars

\* A removal in progress goes on, and a dial ends within its timeouts.
FairSpec ==
  /\ Spec
  /\ \A o \in Objs : WF_vars(RemovalStep(o)) /\ WF_vars(ConnectDial(o))

-----------------------------------------------------------------------------
\* The clients whose user ID has not gone back to the pool.
Live(o) == rm[o] \in {"managed", "close", "disconnect", "release"}

\* Clients that are managed, or removed and not yet done, have different user
\* IDs (manager.go:105-213): an ID is not handed out again too early.
UniqueUserIDs ==
  \A o, p \in Objs : Live(o) /\ Live(p) /\ user[o] = user[p] => o = p

\* The pool holds exactly the IDs of those clients: none leaks, through any
\* mix of RemoveClient, RemoveAll and Close (manager.go:333-337).
PoolIsExact == allocated = {user[o] : o \in {p \in Objs : Live(p)}}

\* The IDs handed out are in the configured range, provided that it ends below
\* the largest uint16 (manager.go:278-280): beyond, the scan of Allocate wraps
\* to the IDs below the range.
AllocatesInRange == End < Width - 1 => allocated \subseteq Start .. End

\* The map and the removals do not overlap: a client is managed exactly when
\* one identifier maps to it, so no two threads remove the same client.
ManagedOnce ==
  /\ \A o \in Objs : rm[o] = "managed" <=> \E id \in Ids : clients[id] = o
  /\ \A i, j \in Ids : clients[i] # Nil /\ clients[i] = clients[j] => i = j

\* Every removal returns its user ID, also when Connect is in the way.
RemovalCompletes ==
  \A o \in Objs : rm[o] = "close" ~> rm[o] = "done"

=============================================================================
