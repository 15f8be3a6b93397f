# A TLA+ verification of the bfcp library

The repository is a Go library for the Binary Floor Control Protocol (RFC 8855):
a server that hands out *floors* (the right to send a shared media stream) to
users, TCP and UDP transports, a TCP client, a UDP client that shares the
server's socket, and a manager of "virtual" clients for WebRTC participants.
This directory holds TLA+ models of its concurrent core, the TLC instances that
check them, and proofs checked by TLAPS.

## Inventory

| Component (source) | State | Operations | Interacts with | What makes it correct |
|---|---|---|---|---|
| Floor state machine (`state.go`) | state, owner, request ID of one floor, one mutex | Request, Grant, Deny, Release, Revoke | called by the server's handlers and by the application, through a pointer | one owner at a time; an owner exactly while pending or granted |
| TCP server (`server.go`) | floor map, session map, one mutex; one atomic counter for request and transaction IDs | Hello, FloorRequest, FloorRelease, FloorQuery, Goodbye per connection, each in the read loop of its connection; CreateFloor, GetFloor, ReleaseFloor, GrantFloor, Close by the application | floors, transports, callbacks of the application | clients and callbacks are told what is true of the floor; requests are decided; Goodbye frees everything; Close ends the sessions |
| UDP server (`server.go`) | the same maps and counter | the same messages, one after the other in the listener's read loop; RegisterClient | UDP listener, floors | the same floor discipline with duplicated and reordered datagrams |
| UDP client (`udpclient.go`) | pending transactions, active requests, closed flag | Hello, RequestFloor, ReleaseFloor, Goodbye, Close; notifications in the read loop | UDP listener of its own server | believes only in real grants; every call returns |
| Transports, listeners (`transport.go`) | closed flag, keepalive goroutines, connection | Start, read loop, send, keepalive, Close, accept loop | callbacks into server and client | messages arrive as sent and in order; a closed transport comes to rest; no half-open connection |
| TCP client (`client.go`) | active requests, pending responses, connected flag | Connect, Hello, RequestFloor, ReleaseFloor, Goodbye, Disconnect; notifications | transport, callbacks | answers go to the call that waits for them; every call returns; what it believes about a floor is true |
| Virtual client manager (`virtual/manager.go`) | client map, pool of user IDs | CreateClient, CreateClientWithUserID, RemoveClient, RemoveAll | virtual clients | user IDs are unique and never leak |
| Virtual client (`virtual/client.go`) | closed flag, held floors, active requests, a TCP client | Connect, RequestFloor, ReleaseFloor, ReleaseAllFloors, Close | TCP client's callbacks, taken under its own lock | held floors are held; Close gives everything up; no lock is held against a callback for ever |
| Request queue (`state.go`) | a priority queue | Add, Remove, GetNext, PopNext | nothing: no code uses it | priority order |
| Codec (`message.go`, `grouped.go`, `types.go`) | none | encode and decode TLV attributes | transports, clients, server | a receiver reads what the sender put in, at every width |

What is hard here: handlers of several connections work on one floor between
each other's critical sections; a handler sleeps 150 ms between Request and
Grant; broadcasts go over a snapshot of the sessions; connections vanish between
any two steps; the application may change floors through pointers it keeps; one
16-bit counter numbers requests, keepalives and broadcasts and wraps; datagrams
are lost, duplicated, reordered and late; a client's read loop calls back into
code that waits for a lock its own callers hold; deadlines expire in the middle
of a message; lengths are octets. `PROJECT.json` lists each of these
hazards with its line and the properties that would notice it going wrong.

## Modules

| Module | Models |
|---|---|
| `FloorStateMachine` | the methods of `FloorStateMachine`, as operators on a record, each with its error return as a guard `CanX` |
| `FloorControl` | abstract specification: what any floor control server promises about its floors |
| `TCPServer` | the server's TCP handlers, the life of a connection, the application, `Server.Close` |
| `UDPFloor` | the UDP handlers of the server, `UDPClient`, and the network between them |
| `Manager` | the client manager, the pool, and Connect and Close of virtual clients |
| `Client` | the TCP client: its methods, its read loop and callbacks; open towards the network |
| `VirtualClient` | extends `Client` by the wrapper of `virtual/client.go` and its lock |
| `ClientServer` | composes `VirtualClient` with `TCPServer` over two wires |
| `Codec` | the wire format on octets: builders, Encode, Decode, getters |
| `Transport` | extends `Codec`: two TCP transports, their goroutines and the octets between them |
| `MCServer`, `MCUDP`, `MCManager`, `MCClient`, `MCTransport` | instances for TLC |
| `TCPServer_proofs` | type correctness, ownership, refinement |
| `TCPServer_exclusion_proofs` | what clients and the application are told is true; what a step may never do to a floor; live sessions |
| `Manager_proofs` | the pool of user IDs |
| `UDPFloor_proofs` | types, real grants and refinement over UDP, under every fault; true `HasFloor` on a network that only reorders |
| `ClientServer_proofs` | types of the composition; it implements `TCPServer` |
| `ClientServer_close_proofs` | Close of a virtual client gives its floors back |
| `ClientServer_grant_proofs` | what client and virtual client believe about their floors is true |
| `ClientServer_release_proofs` | a client can release what its user holds |

**TCPServer.** `pc[c]` is the place of connection `c`'s read-loop goroutine in
its handler; a step is one critical section of `Server.mu` or of a floor, one
access to the counter, or one write, except for the steps the head of the module
lists, which join two or three of them. `UserOf[c]` is the user ID in the messages
of `c`; the server does not check it, and it may be 0 or another connection's.
`job[c]` holds the handler's locals: the
floor pointer, the request ID it drew, AutoGrant's decision, the floors a
Goodbye has yet to release, the sessions a broadcast has yet to write to. Floors
live in heap cells (`fsm[o]`) and the map holds pointers (`floors[f]`), because
`Server.ReleaseFloor` drops a pointer that handlers may still hold. `told[c][f]`
is the last FloorRequestStatus written to `c`, which is all a client knows;
`active[f]` is what an application knows that counts its OnFloorGranted and
OnFloorReleased callbacks. A floor dropped from the map while granted keeps
living in its cell until the last handler lets go of it.

**UDPFloor.** The UDP listener has one read loop, so handlers do not interleave;
`serving` is the handler in progress. A client has a caller (`call`, one method
at a time) and a read loop (`notice`, a notification between its two critical
sections). Datagrams are sets: they have no order. `setup`, chosen once from
`Setups`, says which clients, floors and calls take part and which faults there
are: loss, duplication (a datagram stays after delivery), delay (the timer fires
while the answer is under way). `known` is the set of floors in the server's map.

**Manager.** Removal is three steps without a common lock: out of the map, Close,
ID back to the pool. `rm[o]` is the thread that removes client `o`, `own[o]` the
application's thread inside Connect or Close of it, `link[o]` its connection as
the server sees it ("leaving": a Goodbye is written and not read yet).

**Client, VirtualClient.** `call[t]` is the method goroutine `t` is in and its
place there; a step is one critical section, channel operation, write or
callback. `pendingResponses` needs no variable: a channel is in the table between
two places of its owner (`Registered`). `reader` is the read loop with the message
it handles and the channel it has looked up; a channel that its owner closes
meanwhile becomes `Closed`, and a send to it sets `crashed`. `frame[t]` is the
wrapper's method around `call[t]`, `mu` its lock, `tracked` and `held` its two
maps. `Client` models the callbacks as steps of their own, and `VirtualClient`
conjoins to each what the wrapper does in it, enabled when the lock is free.

**ClientServer.** Every step of the server is a step of `TCPServer` for the
client's connection `Me` or another one; the composition only adds what is
written to the wires: answers with the transaction ID of the request, broadcasts
and keepalives with one of the server's counter. `setup` names the surroundings
of the client: wrapped or not, which threads and other participants, whether the
connection may break, whether server IDs may equal the client's (`collide`), what
is decided, and whether timing is benign (`timely`: the server's 150 ms pause
outlasts runnable goroutines of the client, and a 5 s timer fires only when no
answer can come any more).

**Codec, Transport.** A message is the octets Encode makes of it, with the real
widths; `Says` is what a sender puts into a message and `Heard` what the
receiver's getters find. `stream[e]` holds the octets on their way to end `e`; a
read deadline may take any part of them, a write deadline may leave out the rest
of a message. A Transport has its read loop, up to two keepalive loops (the
server starts one per Hello), one goroutine that sends and one that calls Close.
A write holds `t.mu` for reading, so Close waits for it, and a goroutine waiting
in Close keeps new writes out (`LockWanted`, Go's RWMutex). The context of a
`DialContext` transport is the caller's (`foreign`) and Close does not cancel it.

## Runs

Passing runs:

| Run | Checks |
|---|---|
| `server_one_floor` | two users, one floor, all messages, lost connections, `Server.Close`, a counter that wraps: types, the sleeping handler keeps its request, `GrantedIsHolder`, `ExclusiveGrant`, callbacks, `OnlyHolderGivesUp` |
| `server_two_floors` | two users, two floors: what clients and callbacks are told, and that Goodbye frees all floors |
| `server_app` | the application grants, denies, revokes and releases floors at any time and drops floors that handlers hold, and one of the two participants has user ID 0, whose releases pass the owner check: ownership, refinement of `FloorControl`, and that only the holder, user 0 or the application ends a grant (`OnlyHolderGivesUp`) and only user 0 or the application brings a denied floor back (`DeniedIsFinal`) |
| `server_live` | with fairness, vanishing peers and `Server.Close` against running handlers: pending requests are decided, Goodbyes complete, every session Close found is ended, no dead session stays in the map |
| `manager` | unique IDs, exact pool, IDs in range, one owner of each removal; with fairness every removal returns its ID |
| `udp` | three surroundings: one client under duplicates, reordering and late answers, with two floors that are granted or with one that may be denied; two clients, one floor, reordering alone. Types, and IDs within their width; a client believes only in grants made to it; on the benign network a client with `HasFloor` holds the floor, until it closes and except inside its own ReleaseFloor; the server refines `FloorControl` |
| `udp_live` | with losses and retransmissions, Goodbye and Close included: every call returns, and the server refines `FloorControl` |
| `client` | the TCP client and the virtual client against the server, in eight surroundings: types; a floor the client takes for granted is granted to its user (`ClientGrantIsHolder`), even when foreign messages carry its transaction IDs; a holder still has the entry `ReleaseFloor` asks for, after broadcasts about others (`HolderCanRelease`); `heldFloors` is true although its callbacks waited for the lock (`HeldIsHolder`); Close leaves no floor although its `ReleaseAllFloors` is refused (`CloseFreesFloors`) |
| `client_live` | timers at any time, broken connections, two goroutines on one virtual client: every call returns, a lost connection is noticed |
| `wire` | every message of the library through Encode, the stream, Decode and the getters, values on both sides of each width; deadlines in the middle of messages; Hellos, Goodbyes, resets and Close from both ends: `FramingHolds`, `SentIsDelivered`, `CloseEndsEverything`, `HangUpSpreads` |

Each run named `claim_*` checks one statement quoted from the repository and
finds it violated; `PROJECT.json` ("findings") quotes the statement. In
`claim_panic` a server with AutoGrant off answers a FloorRequest with Pending and
at once with Denied, both with the request's transaction ID: the read loop looks
the channel up for the second answer before the call has removed it, and sends
after the call has closed it. In `claim_held` a Released broadcast is read while
`virtual.Client.RequestFloor` holds the lock; the callback blocks the read loop
in front of the answer, the call times out without tracking its request, and the
Granted that follows leaves a held floor whose request ID `ReleaseFloor` does not
know; the wrapped client has no entry for it either, so only Goodbye gives it up.

### Behaviours worth knowing

What the models show of the code beside the two claims; none of these has a run
of its own.

* The grant after the 150 ms pause goes to whatever request is pending then
  (`server.go:909`): when the application revokes or releases in between and
  another user asks, the first user is told Granted. Without such an application
  `HandlerKeepsItsRequest` holds.
* A Released broadcast can be written after the floor was granted again
  (`server.go:1129`), also to the new holder, whose OnFloorReleased then fires,
  against `virtual/callbacks.go:42-43`. The client's entry survives it
  (`HolderCanRelease`).
* The server takes the user ID of a message as it comes (`server.go:894`, `965`,
  `1008`, `1015`, on UDP `583`), and `Release` asks no owner of user ID 0
  (`state.go:90`). A FloorRelease with user ID 0 frees the granted floor of
  anybody, who is not asked, and a FloorRelease or Goodbye with it takes a denied
  floor back to Released. A FloorRequest with user ID 0 makes a floor pending or
  granted with owner 0, the value for "no owner". `OnlyHolderGivesUp` and
  `DeniedIsFinal` name this exception; what clients are told
  (`GrantedIsHolder` and the rest) is checked and proved for other IDs.
* A denied floor refuses every later request of the other users (`state.go:79`,
  `DeniedIsFinal`).
* AutoGrant=false denies at once (`server.go:917`), README.md:219 documents a
  manual GrantFloor for that case.
* FloorQuery reads request ID and state under two locks (`server.go:996-997`) and
  can answer with a pair the floor never had.
* Request IDs wrap to 0, the ID of every free floor (`server.go:877`), and
  `virtual.Client.ReleaseFloor` refuses request ID 0.
* `Server.Close` leaves connections open that have not said Hello
  (`server.go:258`).
* A pool whose range ends at 65535 scans on from 0 (`virtual/manager.go:304`);
  `AllocatesInRange` is stated for the other ranges.
* A user ID can be in use again before the server has read the Goodbye of its
  former user (`virtual/manager.go:210`).
* `virtual.Client.Connect` tests `closed` before it takes the lock
  (`virtual/client.go:159`): a Close in between finds nothing to disconnect and
  the closed client stays connected, against `virtual/client.go:419-420`.
* `Client.Connect` sets `connected` after it has started the read loop
  (`client.go:118-119`): a connection that is lost in between leaves the flag set,
  and nothing takes it back, not even the failing Hello of a virtual client.
  `LossIsNoticed` is about losses while the read loop runs.
* `UDPClient.HasFloor` stays true after Goodbye (`udpclient.go:228`), and when a
  client closes while the answer to its release is on its way
  (`udpclient.go:91`): nothing removes the entry then.
* A UDP release names its floor by the request ID alone (`server.go:565`). IDs
  are 16 bits of one counter, so a floor that stays held while the counter goes
  round can share its ID with another floor of the same user; a release of one
  may then free the other, and the client goes on believing in the wrong one.
* A UDP broadcast may carry the transaction ID of a client's pending call and is
  then taken for its answer (`server.go:724`, against the comment at 1164).
* A FloorRequest retransmitted after its answer was lost is answered with an
  Error although the floor is granted (`server.go:517`).
* A read or write deadline in the middle of a message leaves the stream out of
  step (`transport.go:216`, `306`): the receiver takes payload for a header and
  may even find a well-formed message there. `FramingHolds` is stated up to the
  cut (`torn`); the goroutines still come to rest.
* An attribute value of up to 253 octets is safe. 254 or 255 octets wrap its
  length octet to 0 or 1 (`message.go:538`), the receiver's Decode fails and it
  closes; 256 or more wrap `Attribute.Length` (`message.go:49`) and the text is
  silently cut with the framing intact. Only error texts are that free in length.

**Bounds.** Two connections are enough for every pairwise race of handlers; what
a third could add on the wire is one more snapshot entry. Two heap cells allow a
dropped floor beside its successor. `IdSpace` (2 or 4 instead of 2^16) makes the
counter wrap within a run; 1, in the runs with more floors or more operations,
gives every request the same ID, so that a release by request ID may pick any
floor. Three calls per UDP client allow request, release, request. `retries` is 1
where retries add only copies of a datagram that "duplicate" makes anyway, 3
where they are the point. Three client objects and two identifiers let a new
virtual client meet one in removal and one just removed. The range 1..2 of 4 user
IDs lets the pool run empty. In the client runs three transaction IDs (four with
`collide`) are Hello, a request and a release or a second request, and a call
begun at the bound may still draw one more (beside peers the direct client has
two, Hello and a request, and the wrapped one three, which take it through the
same client code to the release); two messages may be on their way to
the client (`MaxInbox`), which lets Denied follow Pending and a broadcast stand
before an answer. The difficulties are taken one by one (`SafetySetups`), because
their product is out of reach. In `wire` two messages in a row show that framing
resumes; two keepalive loops stand for any number.

**Fairness.** The server's handlers (`HandlerStep`), the end of a dead read loop
(`ReadExit`) and the steps of `Server.Close` are weakly fair: goroutines are
scheduled, the pause is a timer, a write has a 5 s deadline, a read on a closed
connection returns. Nothing is asked of clients, peers or the application. In
`UDPFloor` only a client's own call is fair (its timers fire); the network and
the server may do nothing at all. In `Manager` a removal goes on and a dial ends
(`RemovalStep`, `ConnectDial`; both have timeouts). In `ClientServer` the client's
goroutines, its read loop, the server's handlers and the end of a connection are
fair; the application, other participants and the network owe nothing. In
`Transport` writes end (deadline), a caller inside Close goes on, the read loop
runs and tickers fire. No lock needs strong fairness: a writer that waits for
Go's RWMutex keeps new readers out, which `LockWanted` says.

Deadlock checking is off in the runs of `Manager`, `UDPFloor`, `ClientServer` and
`Transport`, whose bounded supply of clients, calls and messages runs out, and in the two runs with `Server.Close`,
after which nothing need happen. The other runs of the TCP server check it.

## Proofs

Every theorem holds for all values of the constants that the module's `ASSUME`
allows: any sets of connections, clients, floors and identifiers, any ID space,
any bounds. Hypotheses beyond that are stated in the theorem.

**The TCP server** (`TCPServer_proofs`, `TCPServer_exclusion_proofs`).

* `TypeCorrect`: `TypeOK` is inductive. The lemmas say what each FloorStateMachine
  operator returns on a well-typed floor.
* `OwnershipCorrect`: `HeldIffOwned` is inductive with `TypeOK`, whatever the
  application does and whatever user IDs the clients use.
* `Refinement`: under the mapping `FC` every step of the server is a step of
  `FloorControl` or a stutter. It needs `HeldIffOwned` (a free floor has no
  owner) and that the map is injective and each mapped cell carries the floor ID
  of its key, so that a step on one cell changes one abstract floor.
* `RequestsAreStable`, `GrantsAreTrue`, `GrantsExclude`, `CallbacksPair`,
  `GoodbyeIsFinal` assume `OneConnectionPerUser` and `HandsOff` (the application
  calls no floor operation but CreateFloor, GetFloor and Close);
  `OneConnectionPerUser` includes that no connection has user ID 0
  (`NamedUsers`). Without them the properties are false, as the behaviours above
  show for an application that revokes and for user ID 0.
  None of the five is inductive. Their common strengthening `IInv` says, for each
  connection and each place of its handler, what the floors look like to its user:
  which floor may be owned by the user, in which state, what was told and which
  callbacks were made. Because one connection speaks for a user, the steps of
  other connections (`Foreign`) leave this view alone but for a Released broadcast,
  and the connection's own steps (`Own`) move from one place's view to the next.
* `DenialsAreFinal` and `HolderDecides`, whatever the application does and for any
  user IDs, 0 and shared ones included: a step changes at most one cell (with
  `TypeOK` and the injective map), so each action is asked what it does to the
  floor in question.
* `SessionsLive`: inductive once it is said which places a handler can be in
  while its connection is open, dead or gone.

**The manager** (`Manager_proofs`). `UserIDsAreUnique`, `PoolExact`,
`RemovalsDisjoint`, `RangeRespected` rest on one inductive invariant, `PoolInv`:
types, the map and the removals do not overlap, every ID in the pool belongs to
one client that is managed or in removal. None of the four properties is
inductive by itself: that an ID goes back once needs to know that one thread
removes the client, and that a fresh ID is unique needs the pool to be exact.

**UDP** (`UDPFloor_proofs`). `TypeCorrect`, `NoForgedGrants` and `Refinement` hold
under every combination of loss, duplication and delay. `UDPInv` is `TypeOK`, what
the handler in progress knows (`ServerInv`), what the call in progress has been
sent as (`CallInv`), and `GrantInv`: every Granted on the wire or in a response
channel was issued to the client it goes to, under its floor and request ID, and
answers a request for that floor; every entry of a client, whatever its status,
carries the ID of a request that was granted to it. The last part is needed
because a notification is applied in two critical sections and may meet a newer
entry: it changes the status, never the request ID.

**UDP, benign network** (`UDPFloor_proofs`). `HasFloorIsTrue` assumes
`OneClientPerUser` and, of the behaviour, `[]DistinctIDs`: no two held floors have
the same request ID at one time. Both are needed: two clients of one user may
release each other's floors, a client with user ID 0 (which `OneClientPerUser`
excludes) those of all, and with two floors and a counter of two IDs TLC finds
the release of the wrong floor. With one floor, or while the counter has not gone
round, `DistinctIDs` holds by itself. `HolderInv` follows the release: a
FloorRelease under way names a floor the client holds or is about to know it lost,
an entry Granted is true unless a release of this request is under way, and
what the wire says of a request is still so when it arrives, since nobody else can
end it.

**The client stack** (`ClientServer_proofs`). `TypeCorrect` needs more than types:
`IInv` also says that a message carries the fields its primitive needs
(`WellFormed`), that a call or the read loop stands only at places its method has
and holds the response they look at (`SoundCall`, `SoundReader`), and that a
handler of the server has the message it works on (`HandlingSound`).
`ImplementsServer` then reads each step of the composition as a step of
`TCPServer` or a stutter. `P` is an instance of the server's proof module, so that
its theorems are cited here for the server inside the composition; `SameStep` and
`SameServer` identify the two instances. `ClientServerAssumption` repeats the
server's assumption, puts the request IDs the server draws among those the client
knows, and keeps `None` and `Closed` apart from real values.

**Close** (`ClientServer_close_proofs`). `CloseGivesBack` assumes
`OneConnectionPerUser` and `HandsOff`, as the server's theorems it rests on do.
`ByeInv` follows the Goodbye of Disconnect: `Bye` says it is on the wire, in its
handler, or has done its work; nothing takes it back while the network holds
(`ServerKeepsBye`, `ClientKeepsBye`). `HangupInv` says that, until then, neither
end closes unless the process died, `WrapperInv` that Close reaches Disconnect once
Connect has had the lock (otherwise the client is `Unused`: it asked for nothing,
and a closed client asks for nothing later), and `CloseInv` that a Close that is
past its Disconnect leaves `Bye` or `Unused`. Close waits for the lock, so a Connect
that holds it while it dials is over before Close looks at `c.client`; this is what
makes the invariant inductive.

**What the client believes** (`ClientServer_grant_proofs`). `ClientBelievesTruth` and
`HeldFloorsAreHeld` assume `OneConnectionPerUser` and `HandsOff`; that timing is
benign, that the client has read all the server wrote and that it gives nothing up
are conditions of the properties themselves. Neither property is inductive, since
a belief is made true by a message that arrives later than the floor changed hands.
`GInv` says that, while the connection lasts:

* `TxInv`, `ErrorInv`, `ResponseInv`: a transaction ID belongs to one call and one
  message on the wire, an Error answers a request the server is done with, and the
  read loop and the channels carry a response only to the call with its ID;
* `HandlerInv`, `StartInv`, `LockInv`: what the server's handler works on, that the
  read loop runs before the first call and is started once, and which calls of the
  virtual client are made with `c.mu` held;
* `GrantInv`: nobody waits for a grant. The server pauses before it decides until
  the call that asked has its Pending answer, or until the read loop cannot deliver
  one (`Stuck`: it ended, or its callback waits for a lock whose holder waits for
  the read loop). So a Granted always goes through `handleMessage`, never into
  `RequestFloor`, whose write to the table comes late. This is where `timely` is used;
* `BeliefInv`: of each floor, the user holds it, or the client neither believes so
  nor is about to (`NoGrant`: not in the table, the last callback or `heldFloors`,
  no grant on the wire or in the read loop), or the news that it is gone is under way
  (`Leaving`): in the server's handler, on the wire with no grant behind it, in the
  read loop, or with a `ReleaseFloor` that is about to clear its entry.

Each step keeps it by one lemma per action, through three summaries of what a step
does: of a thread (`Fits`, `ThreadCore`), of the read loop (`ReaderRunsCore`) and of
the server (`ServerActsCore`, which takes from the server's own proofs that the
floors of a user change only by the user's handler). A client that has caught up and
gives nothing up can be in no part of `Leaving`, which leaves the first two.

**Who holds can release** (`ClientServer_release_proofs`). `HoldersCanRelease`, under
the same two assumptions; one goroutine, benign timing and transaction IDs of the
server that do not meet the client's are conditions of the property. That the client
believes nothing false does not help here: a client that believed nothing at all
would satisfy it. `LoneInv`, on top of `GInv`, says of the calling goroutine `t`,
while the connection lasts:

* `CallerOf`: the server works on a FloorRequest or FloorRelease only while `t` waits
  for the answer and none is under way (`Expects`); no message in the client is of a
  transaction it has not begun. A timer that fired earlier would break this: the next
  call would find the server still busy with the last one;
* `ReleaseOf`: once the server has accepted `t`'s release, the user does not have the
  floor, so that the entry that `ReleaseFloor` deletes is of no use any more;
* `EntryOf`: a floor the user has, pending or granted, is in `activeRequests`, or `t`
  is on the way to put it there (`Entering`: its request is accepted, and every answer
  to it that is under way is a FloorRequestStatus);
* `EndInv`: the client closes its end only behind a Goodbye. At rest there is none, so
  the transport is open. Unlike `HangupInv` it says so of a network that may break.

The server's steps come in through two summaries, what it takes up and answers
(`ServerDeals`) and which floors the user has afterwards (`ServerGives`), the client's
through one lemma per step of a call (`CallerTable`) and of the read loop
(`ReaderTable`).

Only model-checked: the liveness properties (`RequestDecided`,
`GoodbyeCompletes`, `CloseEndsSessions`, `CallsReturn`, `RemovalCompletes`,
`LossIsNoticed`, `SentIsDelivered`, `CloseEndsEverything`, `HangUpSpreads`), which
the prover cannot treat, and the properties of `Transport`, whose Encode and Decode
recur over data the prover cannot induct on.

## Not modelled

Logging, the OnMessage and OnError hooks, priorities and timestamps in the floor
logic (no code reads them back), the application's own BroadcastFloorStatus and
BroadcastFloorState, Close of a UDP server, a second Connect of one client. In
`ClientServer` the other participants say neither Hello nor Goodbye: to the client
a Goodbye is one Released broadcast per floor, as after a release, and with both the
`client` run takes too long; `server_two_floors` has them. Some gaps between two
statements are closed because no property looks into them: a session that says
Hello between a Goodbye's release of a floor and the snapshot of its broadcast is
not told (`server.go:1015`, `1122`), and `Client.Connect` stores `connected` and
calls OnConnected in one step (`client.go:119-124`). A UDP
call whose first datagram cannot be sent returns at once (`udpclient.go:260`) and has
done nothing; when a later attempt cannot be sent the call ends in `GiveUp`. The
codec functions nothing calls: `AddGroupedAttribute` (whose inner length octet
leaves out its own header, unlike Encode), `AddFloorRequestInformation`,
`buildGroupedAttr`, `WriteMessage`. `FloorRequestQueue` is dead code: nothing
creates one. The examples only call the library.

## Plan

The components are modelled, and every safety property the runs check is proved,
except those of `Transport`. A next step would be `FloorQuery`'s answer, read under
two locks, with a property that says what a caller may conclude from it.
