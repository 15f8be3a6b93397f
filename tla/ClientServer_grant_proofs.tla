------------------------ MODULE ClientServer_grant_proofs ------------------------
(***************************************************************************)
(* What the client believes about its floors is true.  The client takes a  *)
(* floor for granted by a message the server sent while it had granted the *)
(* floor; the argument follows that message and the ones that take it back *)
(* (BeliefInv): the user holds the floor, or the client neither believes   *)
(* so nor is about to, or the news that the floor is gone is on its way    *)
(* and nothing overtakes it.  Benign timing is what keeps a grant from     *)
(* being taken for the answer to a request (GrantInv): the call that asked *)
(* has gone on with the Pending answer before the server grants.           *)
(***************************************************************************)
EXTENDS ClientServer_close_proofs

\* The connection has ended, or is about to: what the server writes is lost.
Gone == conn[Me] \in {"lost", "closed"} \/ link = "down"

\* Thread t is in a call with a transaction ID.
Asks(t) == call[t].op \in Waiting \cup {"Goodbye", "Disconnect"}

IsGrant(m) == m # None /\ m.prim = "FloorRequestStatus" /\ m.status = "Granted"
GrantOf(m, f) == IsGrant(m) /\ m.floor = f
IsRelease(m, f) ==
  /\ m # None /\ m.prim = "FloorRequestStatus"
  /\ m.status = "Released" /\ m.floor = f
IsError(m) == m # None /\ m.prim = "Error"

\* The messages on a wire; whether their transaction IDs differ; and those that
\* no grant of f follows.
Contents(s) == {s[i] : i \in 1 .. Len(s)}
Distinct(s) == \A i, j \in 1 .. Len(s) : s[i].tx = s[j].tx => i = j
Recent(s, f) ==
  {s[i] : i \in {k \in 1 .. Len(s) :
                   \A j \in 1 .. Len(s) : j > k => ~GrantOf(s[j], f)}}

-----------------------------------------------------------------------------
(***************************************************************************)
(* Requests and answers.                                                   *)
(***************************************************************************)

\* m was sent, and if its call is still there, by that call.
Underway(m) ==
  /\ m.tx <= lastTx
  /\ \A t \in Threads :
       Asks(t) /\ call[t].tx = m.tx => call[t].at # "send" /\ m = Request(t)

\* A transaction ID belongs to one call and to one message.
TxInv ==
  /\ \A t \in Threads : Asks(t) => call[t].tx <= lastTx
  /\ \A t, u \in Threads :
       Asks(t) /\ Asks(u) /\ call[t].tx = call[u].tx => t = u
  /\ \A m \in Contents(outbox) : Underway(m)
  /\ Distinct(outbox)
  /\ handling # None =>
       /\ Underway(handling)
       /\ \A m \in Contents(outbox) : m.tx # handling.tx

\* The IDs of requests the server has decided about.
Over ==
  {x \in 0 .. lastTx :
    /\ \A m \in Contents(outbox) : m.tx # x
    /\ handling # None => handling.tx # x \/ pc[Me] = "broadcast"
    /\ \A t \in Threads : call[t].at = "send" => call[t].tx # x}

\* An Error is the server's last word about a request.
ErrorInv ==
  /\ \A m \in Contents(inbox) : IsError(m) => m.tx \in Over
  /\ IsError(reader.msg) => reader.msg.tx \in Over
  /\ \A t \in Threads :
       /\ IsError(chan[t]) => call[t].tx \in Over
       /\ call[t].at = "got" /\ IsError(call[t].resp) => call[t].tx \in Over

\* A response goes to the call with its transaction ID.
ResponseInv ==
  \A t \in Threads :
    /\ reader.at = "deliver" /\ reader.to = t =>
         Registered(t) /\ call[t].tx = reader.msg.tx
    /\ chan[t] # None => Registered(t)
    /\ call[t].at \in {"send", "wait"} => call[t].resp = None

\* The handler of Me works on the client's message.
HandlerInv ==
  /\ pc[Me] = "read" => handling = None
  /\ pc[Me] \in {"request", "pending", "decide", "granted", "denied"} =>
       handling.prim = "FloorRequest"
  /\ pc[Me] \in {"release", "released"} => job[Me].floor = floors[handling.floor]
  /\ pc[Me] \in {"goodbye", "byeBroadcast"} => handling.prim = "Goodbye"

\* The read loop is started once, before the first call.
StartInv ==
  /\ connected => reader.at # "off"
  /\ \A t \in Threads :
       /\ Asks(t) \/ call[t].at = "ready" => reader.at # "off"
       /\ call[t].at = "start" =>
            /\ reader.at = "off"
            /\ \A u \in Threads : u # t => call[u].at = "idle"
       /\ call[t].at = "idle" => call[t].op = "none"

\* Who holds c.mu, and which calls are made with it.
LockOf(t) ==
  /\ mu = t => frame[t].at \in {"dial", "hello", "hangup", "request", "unlock"}
  /\ frame[t].at = "request" => mu = t
  /\ call[t].op = "RequestFloor" => frame[t].at = "request"
  /\ call[t].op = "ReleaseFloor" => frame[t].at = "release"

LockInv ==
  /\ ~setup.virtual => \A f \in FloorIDs : held[f] = None
  /\ setup.virtual => \A t \in Threads : LockOf(t)

-----------------------------------------------------------------------------
(***************************************************************************)
(* Grants come when nobody waits for them.                                 *)
(***************************************************************************)

\* The read loop does not come to take the answer to t's request.
Stuck(t) ==
  \/ reader.at \in {"onClose", "done"}
  \/ setup.virtual /\ reader.at = "callback" /\ mu = t

\* The IDs of answers that no call will be given.
Unclaimed ==
  {x \in 0 .. lastTx :
    \A t \in Threads : Registered(t) /\ call[t].tx = x => Stuck(t)}

\* An answer is on its way to t, or there.
Answered(t) ==
  \/ \E m \in Contents(inbox) : m.tx = call[t].tx
  \/ reader.at = "deliver" /\ reader.to = t
  \/ chan[t] # None \/ call[t].at = "got"

\* The read loop waits for a lock whose holder waits for the read loop.
Blocked ==
  \/ reader.at \in {"onClose", "done"}
  \/ /\ setup.virtual /\ reader.at = "callback"
     /\ \E u \in Threads : mu = u /\ call[u].at = "wait" /\ chan[u] = None

GrantInv ==
  /\ pc[Me] = "decide" =>
       \A t \in Threads : Registered(t) /\ call[t].tx = handling.tx => Answered(t)
  /\ pc[Me] = "granted" => handling.tx \in Unclaimed
  /\ \A m \in Contents(inbox) : IsGrant(m) => m.tx \in Unclaimed
  /\ reader.at = "deliver" => ~IsGrant(reader.msg)
  /\ \A t \in Threads :
       /\ ~IsGrant(chan[t]) /\ ~IsGrant(call[t].resp)
       /\ call[t].op = "RequestFloor" => call[t].at # "callback"
       /\ call[t].op = "ReleaseFloor" /\ call[t].at = "got" /\ call[t].resp = None =>
            Blocked \/ call[t].tx \in Over

-----------------------------------------------------------------------------
(***************************************************************************)
(* What the client believes.                                               *)
(***************************************************************************)

GrantIn(f) == \E m \in Contents(inbox) : GrantOf(m, f)
GrantRead(f) ==
  reader.at \in {"handle", "state", "callback"} /\ GrantOf(reader.msg, f)
Entered(f) == requests[f] # None /\ requests[f].status = "Granted"

\* The client neither takes f for granted nor is about to.
NoGrant(f) ==
  /\ ~Entered(f) /\ notified[f] # "Granted" /\ held[f] = None
  /\ ~GrantIn(f) /\ ~GrantRead(f)

\* The IDs of answers for nobody, or for a ReleaseFloor of f that will take the
\* answer, or the one it has, for a success.
Claimed(f) ==
  {x \in Over :
    /\ \A m \in Contents(inbox) : IsError(m) => m.tx # x
    /\ IsError(reader.msg) => reader.msg.tx # x
    /\ \A t \in Threads : Registered(t) /\ call[t].tx = x =>
         /\ call[t].op = "ReleaseFloor" /\ call[t].floor = f
         /\ ~IsError(chan[t])
         /\ call[t].at = "got" =>
              Blocked \/ (call[t].resp # None /\ ~IsError(call[t].resp))}

\* Thread t is about to take f off the table.
Clearing(t, f) ==
  /\ call[t].op = "ReleaseFloor" /\ call[t].floor = f
  /\ \/ call[t].at = "wait" /\ chan[t] # None /\ ~IsError(chan[t])
     \/ call[t].at = "got" /\ call[t].resp # None /\ ~IsError(call[t].resp)
     \/ call[t].at = "apply"
     \/ call[t].at \in {"state", "callback"} /\ ~Entered(f)

\* The news that f is released is on its way to the table.
ReleaseIn(f) ==
  \E m \in Recent(inbox, f) : IsRelease(m, f) /\ m.tx \in Claimed(f)

ReleaseRead(f) ==
  /\ reader.at \in {"deliver", "handle", "state", "callback"}
  /\ IsRelease(reader.msg, f) /\ ~GrantIn(f)
  /\ reader.at = "deliver" => reader.msg.tx \in Claimed(f)
  /\ reader.at \in {"state", "callback"} => ~Entered(f)

ReleaseTaken(f) ==
  /\ \E t \in Threads : Clearing(t, f)
  /\ ~GrantIn(f) /\ ~GrantRead(f)

Leaving(f) ==
  \/ pc[Me] \in {"goodbye", "byeBroadcast"}
  \/ pc[Me] = "released" /\ handling.floor = f
  \/ ReleaseIn(f) \/ ReleaseRead(f) \/ ReleaseTaken(f)

BeliefInv ==
  \A f \in FloorIDs : S!HolderIs(f, User) \/ NoGrant(f) \/ Leaving(f)

-----------------------------------------------------------------------------
ConnInv == conn[Me] = "open" => link = "up"

Timely == setup.timely /\ ~Gone

Core == TxInv /\ ErrorInv /\ ResponseInv /\ HandlerInv /\ StartInv /\ LockInv
        /\ GrantInv /\ BeliefInv

GInv == ConnInv /\ (Timely => Core)
-----------------------------------------------------------------------------
(***************************************************************************)
(* Wires.                                                                  *)
(***************************************************************************)

LEMMA AppendFacts ==
  ASSUME NEW s \in Seq(Sound), NEW m \in Sound
  PROVE  /\ Contents(Append(s, m)) = Contents(s) \cup {m}
         /\ Distinct(s) /\ (\A n \in Contents(s) : n.tx # m.tx) =>
              Distinct(Append(s, m))
         /\ \A f : /\ m \in Recent(Append(s, m), f)
                   /\ ~GrantOf(m, f) => Recent(s, f) \subseteq Recent(Append(s, m), f)
<1>. DEFINE r == Append(s, m)
            n == Len(s)
<1>1. /\ n \in Nat /\ Len(r) = n + 1
      /\ \A i \in 1 .. n : r[i] = s[i]
      /\ r[n + 1] = m
  BY AppendProperties, LenProperties
<1>. HIDE DEF r, n
<1>2. \A i : i \in 1 .. n + 1 <=> i \in 1 .. n \/ i = n + 1  BY <1>1
<1>3. Contents(r) = Contents(s) \cup {m}
  <2>1. Contents(r) \subseteq Contents(s) \cup {m}
    BY <1>1, <1>2 DEF Contents, n
  <2>2. Contents(s) \cup {m} \subseteq Contents(r)
    BY <1>1, <1>2 DEF Contents, n
  <2>. QED  BY <2>1, <2>2
<1>4. ASSUME Distinct(s), \A k \in Contents(s) : k.tx # m.tx
      PROVE  Distinct(r)
  <2>1. \A i \in 1 .. n : s[i].tx # m.tx  BY <1>4 DEF Contents, n
  <2>. QED  BY <1>1, <1>2, <1>4, <2>1 DEF Distinct, n
<1>5. ASSUME NEW f  PROVE m \in Recent(r, f)
  <2>1. n + 1 \in {k \in 1 .. Len(r) :
                     \A j \in 1 .. Len(r) : j > k => ~GrantOf(r[j], f)}
    BY <1>1
  <2>. QED  BY <1>1, <2>1 DEF Recent
<1>6. ASSUME NEW f, ~GrantOf(m, f), NEW k \in Recent(s, f)
      PROVE  k \in Recent(r, f)
  <2>1. PICK i \in 1 .. n : /\ k = s[i]
                            /\ \A j \in 1 .. n : j > i => ~GrantOf(s[j], f)
    BY <1>6 DEF Recent, n
  <2>2. i \in 1 .. Len(r) /\ r[i] = k  BY <1>1, <2>1
  <2>3. ASSUME NEW j \in 1 .. Len(r), j > i  PROVE ~GrantOf(r[j], f)
    <3>1. CASE j \in 1 .. n  BY <1>1, <2>1, <2>3, <3>1
    <3>2. CASE j = n + 1
      <4>1. r[j] = m  BY <1>1, <3>2
      <4>. QED  BY <1>6, <4>1
    <3>. QED  BY <1>1, <1>2, <3>1, <3>2
  <2>. QED  BY <2>2, <2>3 DEF Recent
<1>. QED  BY <1>3, <1>4, <1>5, <1>6 DEF r

LEMMA TailFacts ==
  ASSUME NEW s \in Seq(Sound), s # <<>>
  PROVE  /\ Head(s) \in Sound /\ Tail(s) \in Seq(Sound)
         /\ Contents(s) = Contents(Tail(s)) \cup {Head(s)}
         /\ Distinct(s) => /\ Distinct(Tail(s))
                           /\ \A m \in Contents(Tail(s)) : m.tx # Head(s).tx
         /\ \A f : \A m \in Recent(s, f) :
              \/ m \in Recent(Tail(s), f)
              \/ m = Head(s) /\ \A n \in Contents(Tail(s)) : ~GrantOf(n, f)
<1>. DEFINE r == Tail(s)
            n == Len(r)
<1>1. /\ n \in Nat /\ Len(s) = n + 1 /\ r \in Seq(Sound) /\ Head(s) \in Sound
      /\ \A i \in 1 .. n : r[i] = s[i + 1]
      /\ s[1] = Head(s)
  BY EmptySeq, HeadTailProperties, LenProperties
<1>. HIDE DEF r, n
<1>2. /\ \A i \in 1 .. n + 1 : i = 1 \/ \E k \in 1 .. n : i = k + 1
      /\ 1 \in 1 .. n + 1 /\ \A k \in 1 .. n : k + 1 \in 1 .. n + 1
  <2>1. \A i \in 1 .. n + 1 : i # 1 => i - 1 \in 1 .. n /\ i = (i - 1) + 1
    BY <1>1
  <2>2. 1 \in 1 .. n + 1 /\ \A k \in 1 .. n : k + 1 \in 1 .. n + 1  BY <1>1
  <2>. QED  BY <2>1, <2>2
<1>3. Contents(s) = Contents(r) \cup {Head(s)}
  <2>1. ASSUME NEW i \in 1 .. n + 1  PROVE s[i] \in Contents(r) \cup {Head(s)}
    <3>1. CASE i = 1  BY <1>1, <3>1
    <3>2. ASSUME NEW k \in 1 .. n, i = k + 1  PROVE s[i] \in Contents(r)
      <4>1. s[i] = r[k]  BY <1>1, <3>2
      <4>. QED  BY <4>1 DEF Contents, n
    <3>. QED  BY <1>2, <3>1, <3>2
  <2>3. Contents(s) \subseteq Contents(r) \cup {Head(s)}
    BY <1>1, <2>1 DEF Contents
  <2>2. Contents(r) \cup {Head(s)} \subseteq Contents(s)
    BY <1>1, <1>2 DEF Contents, n
  <2>. QED  BY <2>2, <2>3
<1>4. ASSUME Distinct(s)
      PROVE  Distinct(r) /\ \A m \in Contents(r) : m.tx # Head(s).tx
  <2>1. \A i \in 1 .. n : i + 1 \in 1 .. Len(s) /\ i + 1 # 1  BY <1>1
  <2>2. 1 \in 1 .. Len(s)  BY <1>1
  <2>3. Distinct(r)
    <3>. SUFFICES ASSUME NEW i \in 1 .. n, NEW j \in 1 .. n, r[i].tx = r[j].tx
                  PROVE  i = j
      BY DEF Distinct, n
    <3>1. i + 1 = j + 1  BY <1>1, <1>4, <2>1 DEF Distinct
    <3>. QED  BY <3>1
  <2>4. ASSUME NEW m \in Contents(r)  PROVE m.tx # Head(s).tx
    <3>1. PICK i \in 1 .. n : m = r[i]  BY DEF Contents, n
    <3>. QED  BY <1>1, <1>4, <2>1, <2>2, <3>1 DEF Distinct
  <2>. QED  BY <2>3, <2>4
<1>5. ASSUME NEW f, NEW m \in Recent(s, f)
      PROVE  \/ m \in Recent(r, f)
             \/ m = Head(s) /\ \A k \in Contents(r) : ~GrantOf(k, f)
  <2>1. PICK i \in 1 .. n + 1 :
          m = s[i] /\ \A j \in 1 .. n + 1 : j > i => ~GrantOf(s[j], f)
    BY <1>1, <1>5 DEF Recent
  <2>2. \A j \in 1 .. n : j + 1 > i => ~GrantOf(r[j], f)
    <3>1. \A j \in 1 .. n : j + 1 \in 1 .. n + 1  BY <1>1
    <3>. QED  BY <1>1, <2>1, <3>1
  <2>3. CASE i = 1
    <3>1. \A j \in 1 .. n : j + 1 > i  BY <1>1, <2>3
    <3>. QED  BY <1>1, <2>1, <2>2, <2>3, <3>1 DEF Contents, n
  <2>4. CASE i # 1
    <3>1. PICK k \in 1 .. n : i = k + 1  BY <1>2, <2>1, <2>4
    <3>2. m = r[k]  BY <1>1, <2>1, <3>1
    <3>3. \A j \in 1 .. n : j > k => j + 1 > i  BY <1>1, <3>1
    <3>. QED  BY <2>2, <3>2, <3>3 DEF Recent, n
  <2>. QED  BY <2>3, <2>4
<1>. QED  BY <1>1, <1>3, <1>4, <1>5 DEF r

LEMMA EmptyFacts == Contents(<<>>) = {} /\ \A f : Recent(<<>>, f) = {}
BY EmptySeq DEF Contents, Recent

LEMMA ContentsSound == ASSUME NEW s \in Seq(Sound)  PROVE Contents(s) \subseteq Sound
BY ElementOfSeq DEF Contents
-----------------------------------------------------------------------------
(***************************************************************************)
(* A step of a thread.                                                     *)
(***************************************************************************)

\* What thread t leaves alone.  A timer fires only when all others rest.
ThreadMove(t) ==
  /\ UNCHANGED <<inbox, handling, setup, pc, job, floors, fsm>>
  /\ lastTx <= lastTx'
  /\ \A u \in Threads : u # t => call'[u] = call[u] /\ chan'[u] = chan[u]
  /\ reader'.msg = reader.msg
  /\ reader'.at = reader.at \/ (reader.at = "off" /\ reader'.at = "read")
  /\ reader'.to = reader.to \/ (reader.to = t /\ reader'.to = Closed)
  /\ \A u \in Threads : mu = u /\ call[u].at # "idle" => mu' = u
  /\ call[t].at = "wait" /\ chan[t] = None =>
       \/ call'[t].at = "wait" /\ chan'[t] = None
       \/ \A u \in Threads : call[u].at # "got"

\* t's channel and response afterwards.
ResponseKept(t) ==
  /\ chan'[t] \in {chan[t], None}
  /\ chan'[t] # None => Registered(t)' /\ call'[t].tx = call[t].tx
  /\ call'[t].resp \in {call[t].resp, chan[t], None}
  /\ call'[t].at \in {"send", "wait"} => call'[t].resp = None

\* t stays in the table of pending responses, leaves it, or is new there.
TableMove(t) ==
  /\ Registered(t) => \/ Registered(t)' /\ call'[t].tx = call[t].tx
                      \/ reader'.to # t
  /\ Registered(t)' =>
       \/ /\ Registered(t) /\ call'[t].tx = call[t].tx
          /\ call'[t].op = call[t].op /\ call'[t].floor = call[t].floor
       \/ call'[t].tx = lastTx + 1
  /\ Registered(t) /\ Registered(t)' /\ Answered(t) => Answered(t)'

\* How t may have got what it has.
GotBy(t) ==
  call'[t].at = "got" =>
    /\ call'[t].tx = call[t].tx
    /\ \/ call[t].at = "send" /\ call'[t].resp = None
       \/ call'[t] = call[t]
       \/ chan[t] # None /\ call'[t].resp = chan[t]
       \/ /\ call'[t].resp = None
          /\ \/ call'[t].op # "ReleaseFloor" \/ Blocked'
             \/ inbox = <<>> /\ reader.at # "deliver"
    /\ call'[t].op = "ReleaseFloor" /\ call'[t].resp = None =>
         call'[t] = call[t] \/ Blocked' \/ call'[t].tx \in Over'

\* What the client believes afterwards.
BeliefKept(t) ==
  /\ call'[t].op = "RequestFloor" => call'[t].at # "callback"
  /\ \A f \in FloorIDs :
       /\ Entered(f)' => Entered(f)
       /\ notified'[f] = "Granted" => notified[f] = "Granted"
       /\ held'[f] # None => held[f] # None
       /\ Clearing(t, f) /\ ~GrantIn(f) /\ ~GrantRead(f) =>
            Clearing(t, f)' \/ NoGrant(f)'

Fits(t) ==
  /\ TxInv' /\ Over \subseteq Over'
  /\ ResponseKept(t) /\ TableMove(t) /\ GotBy(t) /\ BeliefKept(t)

\* Everything Core says but for the calls' start and the lock.
Rest == ErrorInv /\ ResponseInv /\ HandlerInv /\ GrantInv /\ BeliefInv

LEMMA BlockedKept ==
  ASSUME NEW t \in Threads, ThreadMove(t), Blocked,
         NEW u \in Threads, call[u].at = "got"
  PROVE  Blocked'
<1>1. CASE reader.at \in {"onClose", "done"}
  BY <1>1 DEF ThreadMove, Blocked
<1>2. CASE reader.at \notin {"onClose", "done"}
  <2>1. PICK w \in Threads : /\ setup.virtual /\ reader.at = "callback"
                             /\ mu = w /\ call[w].at = "wait" /\ chan[w] = None
    BY <1>2 DEF Blocked
  <2>2. mu' = w /\ reader'.at = "callback" /\ setup'.virtual
    BY <2>1 DEF ThreadMove
  <2>3. call'[w].at = "wait" /\ chan'[w] = None  BY <2>1 DEF ThreadMove
  <2>. QED  BY <2>2, <2>3 DEF Blocked
<1>. QED  BY <1>1, <1>2

LEMMA ThreadErrors ==
  ASSUME NEW t \in Threads, ThreadMove(t), Fits(t), ErrorInv, ResponseInv
  PROVE  ErrorInv' /\ ResponseInv'
<1>. USE DEF ThreadMove, Fits
<1>0. Closed \notin Threads  BY NoneFacts
<1>1. \A m \in Contents(inbox') : IsError(m) => m.tx \in Over'
  BY DEF ErrorInv
<1>2. IsError(reader'.msg) => reader'.msg.tx \in Over'
  BY DEF ErrorInv
<1>3. ASSUME NEW u \in Threads
      PROVE  /\ IsError(chan'[u]) => call'[u].tx \in Over'
             /\ call'[u].at = "got" /\ IsError(call'[u].resp) => call'[u].tx \in Over'
  <2>1. CASE u # t  BY <2>1 DEF ErrorInv
  <2>2. CASE u = t
    <3>1. ~IsError(None)  BY DEF IsError
    <3>2. IsError(chan'[t]) => call'[t].tx \in Over'
      BY <3>1 DEF ErrorInv, ResponseKept, IsError
    <3>3. call'[t].at = "got" /\ IsError(call'[t].resp) => call'[t].tx \in Over'
      BY <3>1 DEF ErrorInv, GotBy
    <3>. QED  BY <2>2, <3>2, <3>3
  <2>. QED  BY <2>1, <2>2
<1>4. ErrorInv'  BY <1>1, <1>2, <1>3 DEF ErrorInv
<1>5. ASSUME NEW u \in Threads
      PROVE  /\ reader'.at = "deliver" /\ reader'.to = u =>
                  Registered(u)' /\ call'[u].tx = reader'.msg.tx
             /\ chan'[u] # None => Registered(u)'
             /\ call'[u].at \in {"send", "wait"} => call'[u].resp = None
  <2>1. CASE u # t  BY <1>0, <2>1 DEF ResponseInv, Registered
  <2>2. CASE u = t
    <3>1. reader'.at = "deliver" /\ reader'.to = t =>
            Registered(t)' /\ call'[t].tx = reader'.msg.tx
      BY <1>0 DEF ResponseInv, TableMove
    <3>. QED  BY <2>2, <3>1 DEF ResponseKept
  <2>. QED  BY <2>1, <2>2
<1>6. ResponseInv'  BY <1>5 DEF ResponseInv
<1>. QED  BY <1>4, <1>6

LEMMA ThreadGrants ==
  ASSUME NEW t \in Threads, ThreadMove(t), Fits(t), lastTx \in Nat,
         lastTx' \in Nat, call[t].tx \in Nat, handling # None => handling.tx \in Nat,
         pc[Me] # "read" => handling # None,
         TxInv, GrantInv
  PROVE  GrantInv'
<1>. USE DEF ThreadMove, Fits
<1>1. ASSUME NEW u \in Threads, Registered(u)', call'[u].tx <= lastTx
      PROVE  Registered(u) /\ call'[u].tx = call[u].tx
  BY <1>1 DEF TableMove, Registered
<1>2. Unclaimed \subseteq Unclaimed'
  <2>. SUFFICES ASSUME NEW x \in Unclaimed, NEW u \in Threads,
                       Registered(u)', call'[u].tx = x
                PROVE  x \in 0 .. lastTx' /\ Stuck(u)'
    <3>1. \A x \in Unclaimed : x \in 0 .. lastTx'  BY DEF Unclaimed
    <3>. QED  BY <3>1 DEF Unclaimed
  <2>1. x \in 0 .. lastTx  BY DEF Unclaimed
  <2>2. Registered(u) /\ call[u].tx = x  BY <1>1, <2>1
  <2>3. Stuck(u) /\ call[u].at # "idle"  BY <2>2 DEF Unclaimed, Registered
  <2>. QED  BY <2>1, <2>3 DEF Stuck
<1>3. ASSUME pc[Me] = "decide", NEW u \in Threads, Registered(u)',
             call'[u].tx = handling.tx
      PROVE  Answered(u)'
  <2>1. handling.tx <= lastTx  BY <1>3 DEF TxInv, Underway
  <2>2. Registered(u) /\ call[u].tx = handling.tx  BY <1>1, <1>3, <2>1
  <2>3. Answered(u)  BY <1>3, <2>2 DEF GrantInv
  <2>4. CASE u = t  BY <1>3, <2>2, <2>3, <2>4 DEF TableMove
  <2>5. CASE u # t
    <3>1. reader.at = "deliver" /\ reader.to = u => reader'.at = "deliver" /\ reader'.to = u
      BY <2>5
    <3>. QED  BY <2>3, <2>5, <3>1 DEF Answered
  <2>. QED  BY <2>4, <2>5
<1>4. ASSUME NEW u \in Threads
      PROVE  /\ ~IsGrant(chan'[u]) /\ ~IsGrant(call'[u].resp)
             /\ call'[u].op = "RequestFloor" => call'[u].at # "callback"
  <2>1. CASE u # t  BY <2>1 DEF GrantInv
  <2>2. CASE u = t
    <3>1. ~IsGrant(None)  BY DEF IsGrant
    <3>2. ~IsGrant(chan'[t]) /\ ~IsGrant(call'[t].resp)
      BY <3>1 DEF GrantInv, ResponseKept
    <3>. QED  BY <2>2, <3>2 DEF BeliefKept
  <2>. QED  BY <2>1, <2>2
<1>5. ASSUME NEW u \in Threads, call'[u].op = "ReleaseFloor", call'[u].at = "got",
             call'[u].resp = None
      PROVE  Blocked' \/ call'[u].tx \in Over'
  <2>1. CASE call'[u] = call[u]
    <3>1. Blocked \/ call[u].tx \in Over  BY <1>5, <2>1 DEF GrantInv
    <3>. QED  BY <1>5, <2>1, <3>1, BlockedKept
  <2>2. CASE call'[u] # call[u]
    <3>1. u = t  BY <2>2
    <3>. QED  BY <1>5, <2>2, <3>1 DEF GotBy
  <2>. QED  BY <2>1, <2>2
<1>6. reader'.at = "deliver" => ~IsGrant(reader'.msg)
  BY DEF GrantInv
<1>7. /\ pc'[Me] = "granted" => handling'.tx \in Unclaimed'
      /\ \A m \in Contents(inbox') : IsGrant(m) => m.tx \in Unclaimed'
  BY <1>2 DEF GrantInv
<1>. QED  BY <1>3, <1>4, <1>5, <1>6, <1>7 DEF GrantInv

LEMMA ThreadClaims ==
  ASSUME NEW t \in Threads, ThreadMove(t), Fits(t), lastTx \in Nat, TxInv,
         inbox # <<>> \/ reader.at = "deliver", NEW f
  PROVE  Claimed(f) \subseteq Claimed(f)'
<1>. USE DEF ThreadMove, Fits
<1>. SUFFICES ASSUME NEW x \in Claimed(f)  PROVE x \in Claimed(f)'
  OBVIOUS
<1>1. x \in Over /\ x \in Over' /\ x \in 0 .. lastTx  BY DEF Claimed, Over
<1>2. /\ \A m \in Contents(inbox') : IsError(m) => m.tx # x
      /\ IsError(reader'.msg) => reader'.msg.tx # x
  BY DEF Claimed
<1>3. ASSUME NEW u \in Threads, Registered(u)', call'[u].tx = x
      PROVE  /\ call'[u].op = "ReleaseFloor" /\ call'[u].floor = f
             /\ ~IsError(chan'[u])
             /\ call'[u].at = "got" =>
                  Blocked' \/ (call'[u].resp # None /\ ~IsError(call'[u].resp))
  <2>1. /\ Registered(u) /\ call[u].tx = x
        /\ call'[u].op = call[u].op /\ call'[u].floor = call[u].floor
    <3>1. CASE u # t  BY <1>3, <3>1 DEF Registered
    <3>2. CASE u = t  BY <1>1, <1>3, <3>2 DEF TableMove
    <3>. QED  BY <3>1, <3>2
  <2>2. /\ call[u].op = "ReleaseFloor" /\ call[u].floor = f
        /\ ~IsError(chan[u])
        /\ call[u].at = "got" =>
             Blocked \/ (call[u].resp # None /\ ~IsError(call[u].resp))
    BY <2>1 DEF Claimed
  <2>3. ~IsError(chan'[u])
    <3>1. ~IsError(None)  BY DEF IsError
    <3>. QED  BY <2>2, <3>1 DEF ResponseKept
  <2>4. CASE call'[u] = call[u]
    <3>1. call[u].at = "got" /\ Blocked => Blocked'  BY BlockedKept
    <3>. QED  BY <2>2, <2>3, <2>4, <3>1
  <2>5. CASE call'[u] # call[u]
    <3>0. u = t  BY <2>5
    <3>1. call[t].at # "send"  BY <1>1, <2>1, <3>0 DEF Over
    <3>2. call'[t].at = "got" =>
            Blocked' \/ (call'[t].resp # None /\ ~IsError(call'[t].resp))
      BY <2>1, <2>2, <2>5, <3>0, <3>1 DEF GotBy
    <3>. QED  BY <2>1, <2>2, <2>3, <3>0, <3>2
  <2>. QED  BY <2>4, <2>5
<1>. QED  BY <1>1, <1>2, <1>3 DEF Claimed

LEMMA ThreadBeliefs ==
  ASSUME NEW t \in Threads, ThreadMove(t), Fits(t), lastTx \in Nat, TxInv, BeliefInv
  PROVE  BeliefInv'
<1>. USE DEF ThreadMove, Fits
<1>. SUFFICES ASSUME NEW f \in FloorIDs
              PROVE  (S!HolderIs(f, User) \/ NoGrant(f) \/ Leaving(f))'
  BY DEF BeliefInv
<1>0. S!HolderIs(f, User) \/ NoGrant(f) \/ Leaving(f)  BY DEF BeliefInv
<1>a. /\ GrantIn(f)' <=> GrantIn(f)
      /\ GrantRead(f)' <=> GrantRead(f)
      /\ Recent(inbox', f) = Recent(inbox, f)
  BY DEF GrantIn, GrantRead
<1>1. CASE S!HolderIs(f, User)
  BY <1>1 DEF S!HolderIs, User
<1>2. CASE NoGrant(f)
  BY <1>2, <1>a DEF NoGrant, BeliefKept
<1>3. CASE pc[Me] \in {"goodbye", "byeBroadcast"}
           \/ (pc[Me] = "released" /\ handling.floor = f)
  BY <1>3 DEF Leaving
<1>4. CASE ReleaseIn(f)
  <2>1. inbox # <<>>  BY <1>4, EmptyFacts DEF ReleaseIn
  <2>2. Claimed(f) \subseteq Claimed(f)'  BY <2>1, ThreadClaims
  <2>3. ReleaseIn(f)'  BY <1>4, <1>a, <2>2 DEF ReleaseIn
  <2>. QED  BY <2>3 DEF Leaving
<1>5. CASE ReleaseRead(f)
  <2>1. reader.at = "deliver" => Claimed(f) \subseteq Claimed(f)'
    BY ThreadClaims
  <2>2. ReleaseRead(f)'  BY <1>5, <1>a, <2>1 DEF ReleaseRead, BeliefKept
  <2>. QED  BY <2>2 DEF Leaving
<1>6. CASE ReleaseTaken(f)
  <2>1. PICK u \in Threads : Clearing(u, f)  BY <1>6 DEF ReleaseTaken
  <2>2. ~GrantIn(f) /\ ~GrantRead(f)  BY <1>6 DEF ReleaseTaken
  <2>3. Clearing(u, f)' \/ NoGrant(f)'
    <3>1. CASE u = t  BY <2>1, <2>2, <3>1 DEF BeliefKept
    <3>2. CASE u # t
      <4>1. Entered(f)' => Entered(f)  BY DEF BeliefKept
      <4>. QED  BY <2>1, <3>2, <4>1 DEF Clearing
    <3>. QED  BY <3>1, <3>2
  <2>. QED  BY <1>a, <2>2, <2>3 DEF ReleaseTaken, Leaving
<1>. QED  BY <1>0, <1>1, <1>2, <1>3, <1>4, <1>5, <1>6 DEF Leaving

LEMMA ThreadKeepsRest ==
  ASSUME NEW t \in Threads, ThreadMove(t), Fits(t), IInv, IInv', TxInv, Rest
  PROVE  Rest'
<1>1. /\ lastTx \in Nat /\ lastTx' \in Nat /\ call[t] \in CallRecord
      /\ handling \in Sound \cup {None} /\ (pc[Me] # "read" => handling # None)
  BY DEF IInv, ClientSound, SoundCall, HandlingSound
<1>2. call[t].tx \in Nat /\ (handling # None => handling.tx \in Nat)
  BY <1>1 DEF CallRecord, Sound, Message
<1>3. HandlerInv'  BY DEF Rest, HandlerInv, ThreadMove
<1>. QED  BY <1>1, <1>2, <1>3, ThreadErrors, ThreadGrants, ThreadBeliefs DEF Rest

-----------------------------------------------------------------------------
(***************************************************************************)
(* The steps of a thread, one by one.                                      *)
(***************************************************************************)

Same(t) ==
  /\ call'[t].op = call[t].op /\ call'[t].tx = call[t].tx
  /\ call'[t].floor = call[t].floor /\ call'[t].req = call[t].req

Others(t) == \A u \in Threads : u # t => call'[u] = call[u]

\* Nothing is sent, and no ID is drawn.
Calm(t) ==
  /\ UNCHANGED <<lastTx, outbox, handling>> /\ pc'[Me] = pc[Me]
  /\ Others(t)
  /\ \/ Same(t) /\ (call'[t].at = "send" => call[t].at = "send")
     \/ ~Asks(t)' /\ call'[t].at # "send"

LEMMA CalmKeeps ==
  ASSUME NEW t \in Threads, Calm(t), TxInv
  PROVE  TxInv' /\ Over \subseteq Over'
<1>. USE DEF Calm, Others, Same
<1>1. ASSUME NEW u \in Threads, Asks(u)'
      PROVE  /\ Asks(u) /\ call'[u].tx = call[u].tx /\ Request(u)' = Request(u)
             /\ call'[u].at = "send" => call[u].at = "send"
  BY <1>1 DEF Asks, Request
<1>2. ASSUME NEW m, Underway(m)  PROVE Underway(m)'
  BY <1>1, <1>2 DEF Underway
<1>3. TxInv'  BY <1>1, <1>2 DEF TxInv
<1>4. \A u \in Threads : call'[u].at = "send" =>
                           call[u].at = "send" /\ call'[u].tx = call[u].tx
  OBVIOUS
<1>5. Over \subseteq Over'  BY <1>4 DEF Over
<1>. QED  BY <1>3, <1>5

LEMMA Moved ==
  ASSUME IInv, NEW t \in Threads, NEW p,
         Goto(t, p) \/ \E b : p = "return" /\ Return(t, b)
  PROVE  /\ call'[t].at = p /\ call'[t].resp = call[t].resp
         /\ Same(t) /\ Others(t)
<1>1. call \in [Threads -> SoundCall]  BY DEF IInv, ClientSound
<1>2. DOMAIN call[t] = {"op", "at", "floor", "tx", "req", "resp", "ok"}
  BY <1>1 DEF SoundCall, CallRecord
<1>. QED  BY <1>1, <1>2 DEF Goto, Return, Same, Others

\* What the rest of the system does in a step of thread t.
Aside(t) ==
  /\ UNCHANGED <<handling, setup, serverVars>>
  /\ \A u \in Threads : mu = u /\ call[u].at # "idle" => mu' = u
  /\ \A f \in FloorIDs : held'[f] # None => held[f] # None

\* Thread t neither is nor comes near its channel.
QuietMove(t) ==
  /\ call[t].at \notin {"send", "wait", "got"}
  /\ call'[t].at \notin {"send", "wait", "got"}
  /\ call'[t].resp \in {call[t].resp, None}
  /\ Calm(t) /\ UNCHANGED <<inbox, chan>>
  /\ reader' = reader \/ (reader.at = "off" /\ reader' = [reader EXCEPT !.at = "read"])
  /\ BeliefKept(t)

LEMMA QuietFits ==
  ASSUME NEW t \in Threads, IInv, Core, Aside(t), QuietMove(t)
  PROVE  ThreadMove(t) /\ Fits(t)
<1>. USE DEF QuietMove, Aside
<1>1. DOMAIN reader = {"at", "msg", "to"} /\ reader \in SoundReader /\ lastTx \in Nat
  BY DEF IInv, ClientSound, SoundReader, ReaderRecord
<1>2. /\ reader'.msg = reader.msg /\ reader'.to = reader.to
      /\ reader'.at = reader.at \/ (reader.at = "off" /\ reader'.at = "read")
  BY <1>1 DEF SoundReader, ReaderRecord
<1>3. ThreadMove(t)
  BY <1>1, <1>2 DEF ThreadMove, serverVars, Calm, Others
<1>4. TxInv' /\ Over \subseteq Over'  BY CalmKeeps DEF Core
<1>5. ~Registered(t) /\ ~Registered(t)' /\ chan[t] = None
  BY DEF Registered, Core, ResponseInv
<1>6. ResponseKept(t)  BY <1>5 DEF ResponseKept
<1>7. TableMove(t)  BY <1>5 DEF TableMove
<1>8. GotBy(t)  BY DEF GotBy
<1>. QED  BY <1>3, <1>4, <1>6, <1>7, <1>8 DEF Fits

\* The entries are as before, and t is not about to take one off.
LEMMA Unmoved ==
  ASSUME NEW t \in Threads, Aside(t), UNCHANGED <<requests, notified>>,
         call[t].at \notin {"wait", "got", "apply", "state", "callback"},
         call'[t].at # "callback"
  PROVE  BeliefKept(t)
BY DEF BeliefKept, Aside, Clearing, Entered

LEMMA DialFits ==
  ASSUME NEW t \in Threads, IInv, Core, Aside(t), Dial(t)
  PROVE  ThreadMove(t) /\ Fits(t)
<1>1. call \in [Threads -> SoundCall]  BY DEF IInv, ClientSound
<1>2. /\ call'[t].at = "start" /\ call'[t].op = "Connect" /\ call'[t].resp = None
      /\ Others(t)
  BY <1>1 DEF Dial, NoCall, Others
<1>3. Calm(t)  BY <1>2 DEF Calm, Asks, Waiting, Dial, Aside, serverVars
<1>4. BeliefKept(t)  BY <1>2, Unmoved DEF Dial
<1>5. QuietMove(t)  BY <1>2, <1>3, <1>4 DEF QuietMove, Dial
<1>. QED  BY <1>5, QuietFits

LEMMA StartFits ==
  ASSUME NEW t \in Threads, IInv, Core, Aside(t), StartTransport(t)
  PROVE  ThreadMove(t) /\ Fits(t)
<1>1. call'[t].at = "ready" /\ call'[t].resp = call[t].resp /\ Same(t) /\ Others(t)
  BY Moved DEF StartTransport
<1>2. reader.at = "off"  BY DEF StartTransport, Core, StartInv
<1>3. Calm(t)  BY <1>1 DEF Calm, StartTransport, wireVars, Aside, serverVars
<1>4. BeliefKept(t)  BY <1>1, Unmoved DEF StartTransport
<1>5. QuietMove(t)
  BY <1>1, <1>2, <1>3, <1>4 DEF QuietMove, StartTransport, ReaderGoto, wireVars
<1>. QED  BY <1>5, QuietFits

LEMMA ReturnFits ==
  ASSUME NEW t \in Threads, IInv, Core, Aside(t),
         Ready(t) \/ CloseTransport(t) \/ (Returned(t) /\ EndCall(t))
  PROVE  ThreadMove(t) /\ Fits(t)
<1>0. call \in [Threads -> SoundCall]  BY DEF IInv, ClientSound
<1>a. /\ call[t].at \in {"ready", "close", "return"}
      /\ UNCHANGED <<lastTx, outbox, inbox, chan, reader, requests, notified>>
  BY DEF Ready, CloseTransport, Returned, EndCall, wireVars
<1>b. handling' = handling /\ pc' = pc  BY DEF Aside, serverVars
<1>1. CASE Ready(t) \/ CloseTransport(t)
  <2>1. call'[t].at = "return" /\ call'[t].resp = call[t].resp /\ Same(t) /\ Others(t)
    <3>1. Return(t, TRUE)  BY <1>1 DEF Ready, CloseTransport
    <3>. QED  BY <3>1, Moved
  <2>2. Calm(t)  BY <1>a, <1>b, <2>1 DEF Calm
  <2>3. BeliefKept(t)  BY <1>a, <2>1, Unmoved
  <2>4. QuietMove(t)  BY <1>a, <2>1, <2>2, <2>3 DEF QuietMove
  <2>. QED  BY <2>4, QuietFits
<1>2. CASE Returned(t) /\ EndCall(t)
  <2>1. /\ call'[t].at = "idle" /\ call'[t].op = "none" /\ call'[t].resp = None
        /\ Others(t)
    BY <1>0, <1>2 DEF EndCall, NoCall, Others
  <2>2. Calm(t)  BY <1>a, <1>b, <2>1 DEF Calm, Asks, Waiting
  <2>3. BeliefKept(t)  BY <1>a, <2>1, Unmoved
  <2>4. QuietMove(t)  BY <1>a, <2>1, <2>2, <2>3 DEF QuietMove
  <2>. QED  BY <2>4, QuietFits
<1>. QED  BY <1>1, <1>2

LEMMA SetStateFits ==
  ASSUME NEW t \in Threads, IInv, Core, Aside(t), SetState(t)
  PROVE  ThreadMove(t) /\ Fits(t)
<1>0. /\ call[t] \in SoundCall /\ call[t].at = "state"
      /\ UNCHANGED <<lastTx, outbox, inbox, chan, reader, requests, notified>>
  BY DEF SetState, IInv, ClientSound, wireVars
<1>b. handling' = handling /\ pc' = pc  BY DEF Aside, serverVars
<1>1. ~(call[t].op = "RequestFloor" /\ call[t].resp.status = "Granted")
  BY <1>0 DEF SoundCall, Core, GrantInv, IsGrant
<1>2. PICK p \in {"return", "callback"} :
        /\ Goto(t, p) \/ \E b : p = "return" /\ Return(t, b)
        /\ p = "callback" <=> call[t].op = "ReleaseFloor"
  BY <1>1 DEF SetState
<1>3. call'[t].at = p /\ call'[t].resp = call[t].resp /\ Same(t) /\ Others(t)
  BY <1>2, Moved
<1>4. Calm(t)  BY <1>0, <1>b, <1>2, <1>3 DEF Calm
<1>5. BeliefKept(t)
  <2>1. call'[t].op = "RequestFloor" => call'[t].at # "callback"
    BY <1>2, <1>3 DEF Same
  <2>2. \A f \in FloorIDs : Entered(f)' <=> Entered(f)  BY <1>0 DEF Entered
  <2>3. \A f \in FloorIDs : Clearing(t, f) => Clearing(t, f)'
    BY <1>0, <1>2, <1>3, <2>2 DEF Clearing, Same
  <2>. QED  BY <1>0, <2>1, <2>2, <2>3 DEF BeliefKept, Aside
<1>6. QuietMove(t)  BY <1>0, <1>3, <1>4, <1>5, <1>2 DEF QuietMove
<1>. QED  BY <1>6, QuietFits

LEMMA ApplyFits ==
  ASSUME NEW t \in Threads, IInv, Core, Aside(t), Apply(t)
  PROVE  ThreadMove(t) /\ Fits(t)
<1>. DEFINE g == call[t].floor
<1>0. /\ call[t] \in SoundCall /\ call[t].at = "apply"
      /\ UNCHANGED <<lastTx, outbox, inbox, chan, reader, notified>>
      /\ requests \in [FloorIDs -> Entry]
  BY DEF Apply, IInv, ClientSound, wireVars
<1>b. handling' = handling /\ pc' = pc  BY DEF Aside, serverVars
<1>1. /\ call[t].op \in {"RequestFloor", "ReleaseFloor"} /\ g \in FloorIDs
      /\ call[t].op = "RequestFloor" => call[t].resp.status # "Granted"
  BY <1>0 DEF SoundCall, Core, GrantInv, IsGrant
<1>2. PICK p \in {"return", "state"} :
        /\ Goto(t, p) \/ \E b : p = "return" /\ Return(t, b)
        /\ call[t].op = "ReleaseFloor" => p = "state"
  BY <1>1 DEF Apply
<1>3. call'[t].at = p /\ call'[t].resp = call[t].resp /\ Same(t) /\ Others(t)
  BY <1>2, Moved
<1>4. Calm(t)  BY <1>0, <1>b, <1>2, <1>3 DEF Calm
<1>5. /\ \A f \in FloorIDs : f # g => requests'[f] = requests[f]
      /\ \A f \in FloorIDs : f = g => ~Entered(f)'
  <2>1. requests' = [requests EXCEPT ![g] =
          IF call[t].op = "RequestFloor"
            THEN [req |-> call[t].resp.req, status |-> call[t].resp.status]
            ELSE None]
    BY DEF Apply
  <2>. QED  BY <1>0, <1>1, <2>1 DEF Entered
<1>6. BeliefKept(t)
  <2>1. call'[t].op = "RequestFloor" => call'[t].at # "callback"
    BY <1>2, <1>3
  <2>2. ASSUME NEW f \in FloorIDs, Entered(f)'  PROVE Entered(f)
    <3>1. f # g  BY <1>5, <2>2
    <3>. QED  BY <1>5, <2>2, <3>1 DEF Entered
  <2>3. ASSUME NEW f \in FloorIDs, Clearing(t, f)  PROVE Clearing(t, f)'
    <3>1. f = g /\ call[t].op = "ReleaseFloor"  BY <2>3 DEF Clearing
    <3>2. ~Entered(f)'  BY <1>5, <3>1
    <3>. QED  BY <1>2, <1>3, <3>1, <3>2 DEF Clearing, Same
  <2>. QED  BY <1>0, <2>1, <2>2, <2>3 DEF BeliefKept, Aside
<1>7. QuietMove(t)  BY <1>0, <1>3, <1>4, <1>6, <1>2 DEF QuietMove
<1>. QED  BY <1>7, QuietFits

LEMMA CallbackFits ==
  ASSUME NEW t \in Threads, IInv, Core, Aside(t), Callback(t),
         held'[call[t].floor] = None
  PROVE  ThreadMove(t) /\ Fits(t)
<1>. DEFINE g == call[t].floor
<1>0. /\ call[t] \in SoundCall /\ call[t].at = "callback"
      /\ UNCHANGED <<lastTx, outbox, inbox, chan, reader, requests>>
      /\ notified \in [FloorIDs -> Statuses \cup {None}]
  BY DEF Callback, IInv, ClientSound, wireVars
<1>b. handling' = handling /\ pc' = pc  BY DEF Aside, serverVars
<1>1. call[t].op = "ReleaseFloor" /\ g \in FloorIDs
  BY <1>0 DEF SoundCall, Core, GrantInv
<1>2. call'[t].at = "return" /\ call'[t].resp = call[t].resp /\ Same(t) /\ Others(t)
  BY Moved DEF Callback
<1>3. Calm(t)  BY <1>0, <1>b, <1>2 DEF Calm
<1>4. /\ \A f \in FloorIDs : f # g => notified'[f] = notified[f]
      /\ notified'[g] = "Released"
  BY <1>0, <1>1 DEF Callback, Event
<1>5. BeliefKept(t)
  <2>1. \A f \in FloorIDs : Entered(f)' <=> Entered(f)  BY <1>0 DEF Entered
  <2>2. ASSUME NEW f \in FloorIDs, Clearing(t, f), ~GrantIn(f), ~GrantRead(f)
        PROVE  NoGrant(f)'
    <3>1. f = g /\ ~Entered(f)  BY <1>0, <2>2 DEF Clearing
    <3>2. ~GrantIn(f)' /\ ~GrantRead(f)'  BY <1>0, <2>2 DEF GrantIn, GrantRead
    <3>. QED  BY <1>4, <2>1, <3>1, <3>2 DEF NoGrant
  <2>3. \A f \in FloorIDs : notified'[f] = "Granted" => notified[f] = "Granted"
    BY <1>4
  <2>. QED  BY <1>2, <2>1, <2>2, <2>3 DEF BeliefKept, Aside
<1>6. QuietMove(t)  BY <1>0, <1>2, <1>3, <1>5 DEF QuietMove
<1>. QED  BY <1>6, QuietFits

LEMMA NothingFits ==
  ASSUME NEW t \in Threads, IInv, Core, Aside(t), UNCHANGED <<clientVars, wireVars>>
  PROVE  ThreadMove(t) /\ Fits(t)
<1>0. UNCHANGED <<lastTx, call, chan, reader, requests, notified, inbox, outbox>>
  BY DEF clientVars, wireVars
<1>b. handling' = handling /\ pc' = pc  BY DEF Aside, serverVars
<1>1. ThreadMove(t)
  BY <1>0 DEF ThreadMove, Aside, serverVars, IInv, ClientSound
<1>2. Calm(t)  BY <1>0, <1>b DEF Calm, Same, Others
<1>3. TxInv' /\ Over \subseteq Over'  BY <1>2, CalmKeeps DEF Core
<1>4. ResponseKept(t)
  BY <1>0 DEF ResponseKept, Registered, Core, ResponseInv
<1>5. TableMove(t)
  <2>1. (Registered(t)' <=> Registered(t)) /\ (Answered(t)' <=> Answered(t))
    BY <1>0 DEF Registered, Answered
  <2>. QED  BY <1>0, <2>1 DEF TableMove
<1>6. GotBy(t)  BY <1>0 DEF GotBy
<1>7. BeliefKept(t)
  <2>1. \A f \in FloorIDs : /\ Entered(f)' <=> Entered(f)
                            /\ Clearing(t, f)' <=> Clearing(t, f)
    BY <1>0 DEF Entered, Clearing
  <2>. QED  BY <1>0, <2>1 DEF BeliefKept, Aside, Core, GrantInv
<1>. QED  BY <1>1, <1>3, <1>4, <1>5, <1>6, <1>7 DEF Fits

LEMMA BeginFits ==
  ASSUME NEW t \in Threads, IInv, Core, Aside(t), NEW op, NEW f, NEW r,
         Begin(t, op, f, r)
  PROVE  ThreadMove(t) /\ Fits(t)
<1>0. /\ call \in [Threads -> SoundCall] /\ lastTx \in Nat /\ call[t].at = "idle"
      /\ UNCHANGED <<chan, reader, requests, notified, inbox, outbox>>
      /\ lastTx' = lastTx + 1
  BY DEF IInv, ClientSound, Begin, wireVars
<1>b. handling' = handling /\ pc' = pc  BY DEF Aside, serverVars
<1>1. /\ call'[t].op = op /\ call'[t].at = "send" /\ call'[t].tx = lastTx + 1
      /\ call'[t].resp = None /\ Others(t)
  BY <1>0 DEF Begin, Others
<1>2. ThreadMove(t)
  BY <1>0, <1>1 DEF ThreadMove, Aside, serverVars, Others
<1>3. ASSUME NEW m \in Sound, Underway(m)  PROVE Underway(m)'
  <2>1. m.tx <= lastTx' /\ m.tx # lastTx + 1
    BY <1>0, <1>3 DEF Underway, Sound, Message
  <2>2. ASSUME NEW u \in Threads, Asks(u)', call'[u].tx = m.tx
        PROVE  (call[u].at # "send" /\ m = Request(u))'
    <3>1. u # t  BY <1>1, <2>1, <2>2
    <3>2. call'[u] = call[u]  BY <1>1, <3>1 DEF Others
    <3>3. call[u].at # "send" /\ m = Request(u)
      BY <1>3, <2>2, <3>2 DEF Underway, Asks
    <3>. QED  BY <3>2, <3>3 DEF Request
  <2>. QED  BY <2>1, <2>2 DEF Underway
<1>4. TxInv'
  <2>0. TxInv  BY DEF Core
  <2>1. \A u \in Threads : u # t /\ Asks(u)' =>
          Asks(u) /\ call'[u].tx = call[u].tx /\ call[u].tx <= lastTx
    BY <1>1, <2>0 DEF Others, Asks, TxInv
  <2>2. \A u \in Threads : call[u].tx \in Nat
    BY <1>0 DEF SoundCall, CallRecord
  <2>3. \A u \in Threads : Asks(u)' => call'[u].tx <= lastTx'
    BY <1>0, <1>1, <2>1, <2>2
  <2>4. \A u, v \in Threads :
          Asks(u)' /\ Asks(v)' /\ call'[u].tx = call'[v].tx => u = v
    BY <1>0, <1>1, <2>0, <2>1, <2>2 DEF TxInv
  <2>5. \A m \in Contents(outbox) : m \in Sound /\ Underway(m)'
    <3>1. outbox \in Seq(Sound)  BY DEF IInv, WiresSound
    <3>2. Contents(outbox) \subseteq Sound  BY <3>1, ContentsSound
    <3>. QED  BY <1>3, <2>0, <3>2 DEF TxInv
  <2>6. handling # None => Underway(handling)'
    <3>1. \A m \in Sound : m = handling /\ Underway(handling) => Underway(m)'
      BY <1>3
    <3>2. handling # None => handling \in Sound /\ Underway(handling)
      BY <2>0 DEF IInv, HandlingSound, TxInv
    <3>. QED  BY <1>b, <3>1, <3>2 DEF Underway
  <2>. QED  BY <1>0, <1>b, <2>0, <2>3, <2>4, <2>5, <2>6 DEF TxInv
<1>5. Over \subseteq Over'
  <2>. SUFFICES ASSUME NEW x \in Over  PROVE x \in Over'  OBVIOUS
  <2>1. x \in 0 .. lastTx /\ x \in 0 .. lastTx' /\ x # lastTx + 1
    BY <1>0 DEF Over
  <2>2. \A u \in Threads : call'[u].at = "send" => call'[u].tx # x
    BY <1>1, <2>1 DEF Over, Others
  <2>. QED  BY <1>0, <1>b, <2>1, <2>2 DEF Over
<1>6. ~Registered(t) /\ chan[t] = None
  BY <1>0 DEF Registered, Core, ResponseInv
<1>7. ResponseKept(t)  BY <1>0, <1>1, <1>6 DEF ResponseKept
<1>8. TableMove(t)  BY <1>1, <1>6 DEF TableMove
<1>9. GotBy(t)  BY <1>1 DEF GotBy
<1>10. BeliefKept(t)  BY <1>0, <1>1, Unmoved
<1>. QED  BY <1>2, <1>4, <1>5, <1>7, <1>8, <1>9, <1>10 DEF Fits

\* A message that leaves is the only one of its ID.
LEMMA SendOut ==
  ASSUME NEW t \in Threads, IInv, TxInv, call[t].at = "send", call'[t].at # "send",
         Same(t), Others(t), UNCHANGED <<lastTx, handling>>, pc'[Me] = pc[Me],
         outbox' = Append(outbox, Request(t))
  PROVE  TxInv' /\ Over \subseteq Over'
<1>. PICK q : q = Request(t)  OBVIOUS
<1>0. /\ call \in [Threads -> SoundCall] /\ outbox \in Seq(Sound) /\ lastTx \in Nat
      /\ q \in Sound /\ q.tx = call[t].tx /\ Asks(t)
  <2>1. call \in [Threads -> SoundCall] /\ outbox \in Seq(Sound) /\ lastTx \in Nat
    BY DEF IInv, ClientSound, WiresSound
  <2>2. q \in Sound  BY <2>1, RequestSound
  <2>3. q.tx = call[t].tx  BY DEF Request
  <2>4. Asks(t)  BY <2>1 DEF SoundCall, Asks
  <2>. QED  BY <2>1, <2>2, <2>3, <2>4
<1>1. \A u \in Threads : /\ Asks(u)' <=> Asks(u)
                         /\ call'[u].tx = call[u].tx
                         /\ Request(u)' = Request(u)
                         /\ call'[u].at = "send" => call[u].at = "send"
  BY DEF Asks, Request, Same, Others
<1>2. ASSUME NEW m, Underway(m)  PROVE Underway(m)' /\ m.tx # q.tx
  BY <1>0, <1>1, <1>2 DEF Underway
<1>3. Underway(q)'
  <2>1. ASSUME NEW u \in Threads, Asks(u)', call'[u].tx = q.tx  PROVE u = t
    BY <1>0, <1>1, <2>1 DEF TxInv
  <2>2. q.tx <= lastTx'  BY <1>0 DEF TxInv
  <2>3. q = Request(t)'  BY <1>1
  <2>4. call'[t].at # "send"  OBVIOUS
  <2>. QED  BY <2>1, <2>2, <2>3, <2>4 DEF Underway
<1>4. Contents(outbox') = Contents(outbox) \cup {q} /\ Distinct(outbox')
  <2>1. \A m \in Contents(outbox) : m.tx # q.tx  BY <1>2 DEF TxInv
  <2>2. outbox' = Append(outbox, q)  OBVIOUS
  <2>. QED  BY <1>0, <2>1, <2>2, AppendFacts DEF TxInv
<1>5. TxInv'
  <2>1. \A u \in Threads : Asks(u)' => call'[u].tx <= lastTx'
    BY <1>1 DEF TxInv
  <2>2. \A u, v \in Threads :
          Asks(u)' /\ Asks(v)' /\ call'[u].tx = call'[v].tx => u = v
    BY <1>1 DEF TxInv
  <2>3. \A m \in Contents(outbox') : Underway(m)'  BY <1>2, <1>3, <1>4 DEF TxInv
  <2>4. handling' # None => /\ Underway(handling)'
                            /\ \A m \in Contents(outbox') : m.tx # handling'.tx
    <3>1. handling # None => (\A m : m = handling => Underway(m))
      BY DEF TxInv
    <3>2. handling # None => handling.tx # q.tx /\ \A m : m = handling => Underway(m)'
      BY <1>2, <3>1
    <3>3. Underway(handling)' <=> \A m : m = handling => Underway(m)'
      BY DEF Underway
    <3>. QED  BY <1>4, <3>2, <3>3 DEF TxInv
  <2>. QED  BY <1>4, <2>1, <2>2, <2>3, <2>4 DEF TxInv
<1>6. Over \subseteq Over'
  <2>1. \A x \in Over : x # q.tx  BY <1>0 DEF Over
  <2>. QED  BY <1>1, <1>4, <2>1 DEF Over
<1>. QED  BY <1>5, <1>6

LEMMA SendFits ==
  ASSUME NEW t \in Threads, IInv, LinkInv, Timely, Core, Aside(t), Send(t)
  PROVE  ThreadMove(t) /\ Fits(t)
<1>0. /\ call \in [Threads -> SoundCall] /\ call[t].at = "send" /\ lastTx \in Nat
      /\ UNCHANGED <<chan, reader, requests, notified, inbox, lastTx>>
      /\ call[t].op \in Waiting \cup {"Goodbye", "Disconnect"}
  BY DEF IInv, ClientSound, Send, SoundCall
<1>b. handling' = handling /\ pc' = pc  BY DEF Aside, serverVars
<1>1. PICK p \in {"wait", "got", "close", "return"} :
        /\ Goto(t, p) \/ \E b : p = "return" /\ Return(t, b)
        /\ p \in {"wait", "got"} <=> call[t].op \in Waiting
        /\ \/ p # "got" /\ outbox' = Append(outbox, Request(t))
           \/ p # "wait" /\ outbox' = outbox
  <2>1. tr = "open" => link = "up"
    BY DEF Timely, Gone, LinkInv, IInv, WiresSound
  <2>2. CASE call[t].op = "Disconnect"
    <3>1. Goto(t, "close") /\ outbox' \in {outbox, Append(outbox, Request(t))}
      BY <2>2 DEF Send
    <3>. QED  BY <2>2, <3>1 DEF Waiting
  <2>3. CASE call[t].op = "Goodbye"
    <3>1. /\ \E b : Return(t, b)
          /\ outbox' \in {outbox, Append(outbox, Request(t))}
      BY <2>3 DEF Send
    <3>. QED  BY <2>3, <3>1 DEF Waiting
  <2>4. CASE call[t].op \in Waiting
    <3>1. call[t].op \notin {"Disconnect", "Goodbye"}  BY <2>4 DEF Waiting
    <3>2. \/ Goto(t, "wait") /\ outbox' = Append(outbox, Request(t))
          \/ Goto(t, "got") /\ outbox' = outbox
      BY <2>1, <3>1 DEF Send
    <3>. QED  BY <2>4, <3>2
  <2>. QED  BY <1>0, <2>2, <2>3, <2>4
<1>2. call'[t].at = p /\ call'[t].resp = call[t].resp /\ Same(t) /\ Others(t)
  BY <1>1, Moved
<1>3. ThreadMove(t)
  BY <1>0, <1>2 DEF ThreadMove, Aside, serverVars, Others
<1>4. TxInv' /\ Over \subseteq Over'
  <2>1. CASE outbox' = outbox
    <3>1. Calm(t)  BY <1>0, <1>b, <1>1, <1>2, <2>1 DEF Calm
    <3>. QED  BY <3>1, CalmKeeps DEF Core
  <2>2. CASE outbox' = Append(outbox, Request(t))
    BY <1>0, <1>b, <1>1, <1>2, <2>2, SendOut DEF Core
  <2>. QED  BY <1>1, <2>1, <2>2
<1>5. /\ Registered(t)' <=> Registered(t)
      /\ call'[t].tx = call[t].tx /\ call'[t].op = call[t].op
      /\ call'[t].floor = call[t].floor
      /\ call[t].resp = None
      /\ chan[t] # None => Registered(t)
  BY <1>0, <1>1, <1>2 DEF Registered, Same, Core, ResponseInv
<1>6. ResponseKept(t)  BY <1>0, <1>2, <1>5 DEF ResponseKept
<1>7. TableMove(t)
  <2>1. Answered(t) => Answered(t)'  BY <1>0, <1>5 DEF Answered
  <2>. QED  BY <1>5, <2>1 DEF TableMove
<1>8. p = "got" => call[t].tx \in Over'
  <2>. SUFFICES ASSUME p = "got"  PROVE call[t].tx \in Over'
    OBVIOUS
  <2>0. outbox' = outbox /\ call[t].tx \in Nat
    BY <1>0, <1>1 DEF SoundCall, CallRecord
  <2>1. Asks(t) /\ \A u \in Threads : call'[u].at = "send" => Asks(u) /\ u # t
    BY <1>0, <1>2 DEF Asks, SoundCall, Others
  <2>2. /\ call[t].tx <= lastTx
        /\ \A m \in Contents(outbox) : m.tx # call[t].tx
        /\ handling # None => handling.tx # call[t].tx
    BY <1>0, <2>1 DEF Core, TxInv, Underway
  <2>3. \A u \in Threads : call'[u].at = "send" => call'[u].tx # call[t].tx
    BY <1>2, <2>1 DEF Core, TxInv, Others
  <2>. QED  BY <1>0, <1>b, <2>0, <2>2, <2>3 DEF Over
<1>9. GotBy(t)  BY <1>0, <1>2, <1>5, <1>8 DEF GotBy
<1>10. BeliefKept(t)  BY <1>0, <1>1, <1>2, Unmoved
<1>. QED  BY <1>3, <1>4, <1>6, <1>7, <1>9, <1>10 DEF Fits

LEMMA ReceiveFits ==
  ASSUME NEW t \in Threads, IInv, Core, Aside(t), Receive(t)
  PROVE  ThreadMove(t) /\ Fits(t)
<1>0. /\ call[t] \in SoundCall /\ call[t].at = "wait" /\ chan[t] # None
      /\ UNCHANGED <<lastTx, outbox, inbox, reader, requests, notified>>
      /\ call \in [Threads -> SoundCall]
      /\ chan \in [Threads -> Sound \cup {None}] /\ lastTx \in Nat
  BY DEF Receive, IInv, ClientSound, wireVars
<1>b. handling' = handling /\ pc' = pc  BY DEF Aside, serverVars
<1>1. /\ call'[t].at = "got" /\ call'[t].resp = chan[t] /\ Same(t) /\ Others(t)
      /\ chan'[t] = None /\ \A u \in Threads : u # t => chan'[u] = chan[u]
  <2>1. DOMAIN call[t] = {"op", "at", "floor", "tx", "req", "resp", "ok"}
    BY <1>0 DEF SoundCall, CallRecord
  <2>. QED  BY <1>0, <2>1 DEF Receive, Same, Others
<1>2. ThreadMove(t)
  BY <1>0, <1>1 DEF ThreadMove, Aside, serverVars, Others
<1>3. Calm(t)  BY <1>0, <1>b, <1>1 DEF Calm
<1>4. TxInv' /\ Over \subseteq Over'  BY <1>3, CalmKeeps DEF Core
<1>5. Registered(t) /\ Registered(t)'
  BY <1>0, <1>1 DEF SoundCall, Registered, Same
<1>6. ResponseKept(t)  BY <1>1 DEF ResponseKept
<1>7. TableMove(t)
  <2>1. Answered(t)'  BY <1>1 DEF Answered
  <2>. QED  BY <1>1, <1>5, <2>1 DEF TableMove, Same
<1>8. GotBy(t)  BY <1>0, <1>1 DEF GotBy, Same
<1>9. BeliefKept(t)
  <2>1. \A f \in FloorIDs : Entered(f)' <=> Entered(f)  BY <1>0 DEF Entered
  <2>2. \A f \in FloorIDs : Clearing(t, f) => Clearing(t, f)'
    BY <1>0, <1>1 DEF Clearing, Same
  <2>. QED  BY <1>0, <1>1, <2>1, <2>2 DEF BeliefKept, Aside
<1>. QED  BY <1>2, <1>4, <1>6, <1>7, <1>8, <1>9 DEF Fits

\* A timer that fires in time: nothing more can come.
LEMMA TimeoutFits ==
  ASSUME NEW t \in Threads, IInv, Core, Aside(t), Timeout(t), Hopeless
  PROVE  ThreadMove(t) /\ Fits(t)
<1>0. /\ call[t] \in SoundCall /\ call[t].at = "wait"
      /\ UNCHANGED <<lastTx, outbox, inbox, chan, reader, requests, notified>>
      /\ call \in [Threads -> SoundCall] /\ lastTx \in Nat
      /\ mu \in Threads \cup {None} /\ None \notin Threads
  BY NoneFacts DEF Timeout, IInv, ClientSound, VirtualSound, wireVars
<1>b. handling' = handling /\ pc' = pc /\ setup' = setup  BY DEF Aside, serverVars
<1>c. \A u \in Threads : call[u].at \notin {"got", "send"}
  BY DEF Hopeless, Resting, Rests, Idle
<1>d. chan[t] = None  BY <1>0 DEF Hopeless, Resting, Rests, Idle
<1>e. call[t].resp = None /\ call[t].op \in Waiting /\ Asks(t)
  BY <1>0 DEF Core, ResponseInv, SoundCall, Asks
<1>1. call'[t].at = "got" /\ call'[t].resp = None /\ Same(t) /\ Others(t)
  BY <1>e, Moved DEF Timeout
<1>2. ThreadMove(t)
  BY <1>0, <1>c, <1>1 DEF ThreadMove, Aside, serverVars, Others
<1>3. Calm(t)  BY <1>0, <1>b, <1>1 DEF Calm
<1>4. TxInv' /\ Over \subseteq Over'  BY <1>3, CalmKeeps DEF Core
<1>5. Registered(t) /\ Registered(t)'
  BY <1>0, <1>1, <1>e DEF Registered, Same
<1>6. ResponseKept(t)  BY <1>0, <1>1, <1>d DEF ResponseKept
<1>7. TableMove(t)
  <2>1. Answered(t)'  BY <1>1 DEF Answered
  <2>. QED  BY <1>1, <1>5, <2>1 DEF TableMove, Same
<1>8. \/ call[t].op # "ReleaseFloor" \/ Blocked'
      \/ reader.at = "read" /\ inbox = <<>>
  <2>. SUFFICES ASSUME call[t].op = "ReleaseFloor",
                       ~(reader.at = "read" /\ inbox = <<>>)
                PROVE  Blocked'
    OBVIOUS
  <2>1. reader.at # "off"  BY <1>e DEF Core, StartInv
  <2>2. CASE reader.at = "done"  BY <1>0, <2>2 DEF Blocked
  <2>3. CASE reader.at = "callback" /\ setup.virtual /\ mu # None
    <3>1. PICK w \in Threads : mu = w  BY <1>0, <2>3
    <3>2. LockOf(t) /\ LockOf(w)  BY <2>3 DEF Core, LockInv
    <3>3. w # t  BY <3>1, <3>2 DEF LockOf
    <3>4. call[w].at = "wait" /\ chan[w] = None
      <4>1. Rests(w)  BY DEF Hopeless, Resting
      <4>2. ASSUME Idle(w), frame[w] = NoFrame \/ (frame[w].at = "lock" /\ mu # None)
            PROVE  FALSE
        BY <3>1, <3>2, <4>2 DEF LockOf, NoFrame
      <4>3. ASSUME call[w].at = "callback"  PROVE FALSE
        <5>1. call[w].op = "ReleaseFloor"
          BY <1>0, <4>3 DEF Core, GrantInv, SoundCall
        <5>. QED  BY <3>1, <3>2, <5>1 DEF LockOf
      <4>. QED  BY <4>1, <4>2, <4>3 DEF Rests
    <3>5. mu' = w  BY <3>1, <3>4 DEF Aside
    <3>6. call'[w].at = "wait" /\ chan'[w] = None
      BY <1>0, <1>1, <3>3, <3>4 DEF Others
    <3>. QED  BY <1>0, <1>b, <2>3, <3>5, <3>6 DEF Blocked
  <2>. QED  BY <2>1, <2>2, <2>3 DEF Hopeless, Resting
<1>9. reader.at = "read" /\ inbox = <<>> => call[t].tx \in Over'
  <2>. SUFFICES ASSUME reader.at = "read"  PROVE call[t].tx \in Over'
    OBVIOUS
  <2>1. outbox' = <<>> /\ pc[Me] = "read" /\ handling' = None
    BY <1>0, <1>b DEF Hopeless, Core, HandlerInv
  <2>2. call[t].tx \in 0 .. lastTx'
    BY <1>0, <1>e DEF Core, TxInv, SoundCall, CallRecord
  <2>3. \A u \in Threads : call'[u].at # "send"  BY <1>c, <1>1 DEF Others
  <2>. QED  BY <2>1, <2>2, <2>3, EmptyFacts DEF Over
<1>10. GotBy(t)  BY <1>1, <1>8, <1>9 DEF GotBy, Same
<1>11. BeliefKept(t)
  <2>1. \A f \in FloorIDs : Entered(f)' <=> Entered(f)  BY <1>0 DEF Entered
  <2>2. \A f \in FloorIDs : ~Clearing(t, f)  BY <1>0, <1>d DEF Clearing
  <2>. QED  BY <1>0, <1>1, <2>1, <2>2 DEF BeliefKept, Aside
<1>. QED  BY <1>2, <1>4, <1>6, <1>7, <1>10, <1>11 DEF Fits

LEMMA FinishFits ==
  ASSUME NEW t \in Threads, IInv, Core, Aside(t), Finish(t)
  PROVE  ThreadMove(t) /\ Fits(t)
<1>0. /\ call[t] \in SoundCall /\ call[t].at = "got"
      /\ UNCHANGED <<lastTx, outbox, inbox, requests, notified>>
      /\ chan \in [Threads -> Sound \cup {None}] /\ lastTx \in Nat
      /\ reader \in SoundReader /\ Closed \notin Threads
  BY NoneFacts DEF Finish, IInv, ClientSound, wireVars
<1>b. handling' = handling /\ pc' = pc  BY DEF Aside, serverVars
<1>1. PICK p \in {"return", "state", "apply"} :
        /\ Goto(t, p) \/ \E b : p = "return" /\ Return(t, b)
        /\ call[t].op = "ReleaseFloor" /\ Accepts(call[t].op, call[t].resp) => p = "apply"
  <2>1. CASE ~Accepts(call[t].op, call[t].resp)  BY <2>1 DEF Finish
  <2>2. CASE Accepts(call[t].op, call[t].resp) /\ call[t].op = "QueryFloor"
    BY <2>2 DEF Finish
  <2>3. CASE Accepts(call[t].op, call[t].resp) /\ call[t].op = "Hello"
    BY <2>3 DEF Finish
  <2>4. CASE Accepts(call[t].op, call[t].resp) /\ call[t].op \notin {"QueryFloor", "Hello"}
    BY <2>4 DEF Finish
  <2>. QED  BY <2>1, <2>2, <2>3, <2>4
<1>2. /\ call'[t].at = p /\ call'[t].resp = call[t].resp /\ Same(t) /\ Others(t)
  BY <1>1, Moved
<1>3. chan'[t] = None /\ \A u \in Threads : u # t => chan'[u] = chan[u]
  BY <1>0 DEF Finish
<1>4. /\ reader'.at = reader.at /\ reader'.msg = reader.msg
      /\ reader'.to = reader.to \/ (reader.to = t /\ reader'.to = Closed)
      /\ reader'.to # t
  <2>1. DOMAIN reader = {"at", "msg", "to"}
    BY <1>0 DEF SoundReader, ReaderRecord
  <2>2. reader' = IF reader.to = t THEN [reader EXCEPT !.to = Closed] ELSE reader
    BY DEF Finish
  <2>. QED  BY <1>0, <2>1, <2>2
<1>5. ThreadMove(t)
  BY <1>0, <1>2, <1>3, <1>4 DEF ThreadMove, Aside, serverVars, Others
<1>6. Calm(t)  BY <1>0, <1>b, <1>1, <1>2 DEF Calm
<1>7. TxInv' /\ Over \subseteq Over'  BY <1>6, CalmKeeps DEF Core
<1>8. ResponseKept(t)  BY <1>1, <1>2, <1>3 DEF ResponseKept
<1>9. ~Registered(t)'  BY <1>1, <1>2 DEF Registered
<1>10. TableMove(t)  BY <1>4, <1>9 DEF TableMove
<1>11. GotBy(t)  BY <1>1, <1>2 DEF GotBy
<1>12. BeliefKept(t)
  <2>1. \A f \in FloorIDs : Entered(f)' <=> Entered(f)  BY <1>0 DEF Entered
  <2>2. ASSUME NEW f \in FloorIDs, Clearing(t, f)  PROVE Clearing(t, f)'
    <3>1. /\ call[t].op = "ReleaseFloor" /\ call[t].floor = f
          /\ call[t].resp # None /\ ~IsError(call[t].resp)
      BY <1>0, <2>2 DEF Clearing
    <3>2. p = "apply"  BY <1>1, <3>1 DEF Accepts, IsError
    <3>. QED  BY <1>2, <3>1, <3>2 DEF Clearing, Same
  <2>. QED  BY <1>0, <1>1, <1>2, <2>1, <2>2 DEF BeliefKept, Aside
<1>. QED  BY <1>5, <1>7, <1>8, <1>10, <1>11, <1>12 DEF Fits

-----------------------------------------------------------------------------
(***************************************************************************)
(* The steps of a thread together.                                         *)
(***************************************************************************)

\* A step of thread t in the client, or none.
StepOf(t) ==
  \/ Starts(t) \/ CallStep(t) \/ (Timeout(t) /\ Hopeless)
  \/ Ready(t) \/ (Returned(t) /\ EndCall(t))
  \/ Callback(t) /\ held'[call[t].floor] = None
  \/ UNCHANGED <<clientVars, wireVars>>

LEMMA StepFits ==
  ASSUME NEW t \in Threads, IInv, LinkInv, Timely, Core, Aside(t), StepOf(t)
  PROVE  ThreadMove(t) /\ Fits(t)
<1>1. CASE Starts(t)
  BY <1>1, DialFits, BeginFits
  DEF Starts, Hello, Goodbye, Disconnect, RequestFloor, ReleaseFloor, QueryFloor
<1>2. CASE CallStep(t)
  BY <1>2, StartFits, SendFits, ReceiveFits, FinishFits, ApplyFits, SetStateFits,
     ReturnFits
  DEF CallStep
<1>3. CASE Timeout(t) /\ Hopeless  BY <1>3, TimeoutFits
<1>4. CASE Ready(t) \/ (Returned(t) /\ EndCall(t))  BY <1>4, ReturnFits
<1>5. CASE Callback(t) /\ held'[call[t].floor] = None  BY <1>5, CallbackFits
<1>6. CASE UNCHANGED <<clientVars, wireVars>>  BY <1>6, NothingFits
<1>. QED  BY <1>1, <1>2, <1>3, <1>4, <1>5, <1>6 DEF StepOf

\* Where thread t comes from.
LEMMA CallGoesOn ==
  ASSUME NEW t \in Threads, IInv,
         CallStep(t) \/ Timeout(t) \/ Ready(t) \/ Callback(t)
         \/ (Returned(t) /\ EndCall(t))
  PROVE  /\ call[t].at # "idle" /\ call'[t].at # "start" /\ Others(t)
         /\ \/ call'[t].op = call[t].op /\ call'[t].at # "idle"
            \/ call'[t] = NoCall
         /\ connected' => connected \/ call[t].at = "ready"
         /\ call'[t].at = "ready" => reader'.at = "read"
<1>0. call \in [Threads -> SoundCall] /\ reader \in SoundReader
  BY DEF IInv, ClientSound
<1>1. CASE Returned(t) /\ EndCall(t)
  BY <1>0, <1>1 DEF Returned, EndCall, NoCall, Others
<1>2. CASE StartTransport(t)
  <2>1. call'[t].at = "ready" /\ Same(t) /\ Others(t)
    BY <1>2, Moved DEF StartTransport
  <2>2. reader'.at = "read"
    BY <1>0, <1>2 DEF StartTransport, ReaderGoto, SoundReader, ReaderRecord
  <2>. QED  BY <1>2, <2>1, <2>2 DEF StartTransport, Same
<1>3. CASE Ready(t)
  <2>1. call'[t].at = "return" /\ Same(t) /\ Others(t)  BY <1>3, Moved DEF Ready
  <2>. QED  BY <1>3, <2>1 DEF Ready, Same
<1>4. CASE Send(t)
  <2>1. PICK p \in {"wait", "got", "close", "return"} :
          Goto(t, p) \/ \E b : p = "return" /\ Return(t, b)
    <3>1. CASE call[t].op = "Disconnect"  BY <1>4, <3>1 DEF Send
    <3>2. CASE call[t].op = "Goodbye"  BY <1>4, <3>2 DEF Send
    <3>3. CASE call[t].op \notin {"Goodbye", "Disconnect"}  BY <1>4, <3>3 DEF Send
    <3>. QED  BY <3>1, <3>2, <3>3
  <2>2. call'[t].at = p /\ Same(t) /\ Others(t)  BY <2>1, Moved
  <2>. QED  BY <1>4, <2>1, <2>2 DEF Send, Same
<1>5. CASE Receive(t)
  <2>1. DOMAIN call[t] = {"op", "at", "floor", "tx", "req", "resp", "ok"}
    BY <1>0 DEF SoundCall, CallRecord
  <2>. QED  BY <1>0, <1>5, <2>1 DEF Receive, Others
<1>6. CASE Timeout(t)
  <2>1. call'[t].at = "got" /\ Same(t) /\ Others(t)  BY <1>6, Moved DEF Timeout
  <2>. QED  BY <1>6, <2>1 DEF Timeout, Same
<1>7. CASE Finish(t)
  <2>1. PICK p \in {"return", "state", "apply"} :
          Goto(t, p) \/ \E b : p = "return" /\ Return(t, b)
    <3>1. CASE ~Accepts(call[t].op, call[t].resp)  BY <1>7, <3>1 DEF Finish
    <3>2. CASE Accepts(call[t].op, call[t].resp) /\ call[t].op = "QueryFloor"
      BY <1>7, <3>2 DEF Finish
    <3>3. CASE Accepts(call[t].op, call[t].resp) /\ call[t].op = "Hello"
      BY <1>7, <3>3 DEF Finish
    <3>4. CASE Accepts(call[t].op, call[t].resp)
               /\ call[t].op \notin {"QueryFloor", "Hello"}
      BY <1>7, <3>4 DEF Finish
    <3>. QED  BY <3>1, <3>2, <3>3, <3>4
  <2>2. call'[t].at = p /\ Same(t) /\ Others(t)  BY <2>1, Moved
  <2>. QED  BY <1>7, <2>1, <2>2 DEF Finish, Same
<1>8. CASE Apply(t)
  <2>1. PICK p \in {"return", "state"} :
          Goto(t, p) \/ \E b : p = "return" /\ Return(t, b)
    BY <1>8 DEF Apply
  <2>2. call'[t].at = p /\ Same(t) /\ Others(t)  BY <2>1, Moved
  <2>. QED  BY <1>8, <2>1, <2>2 DEF Apply, Same
<1>9. CASE SetState(t)
  <2>1. PICK p \in {"return", "callback"} :
          Goto(t, p) \/ \E b : p = "return" /\ Return(t, b)
    BY <1>9 DEF SetState
  <2>2. call'[t].at = p /\ Same(t) /\ Others(t)  BY <2>1, Moved
  <2>. QED  BY <1>9, <2>1, <2>2 DEF SetState, Same
<1>10. CASE CloseTransport(t) \/ Callback(t)
  <2>1. call'[t].at = "return" /\ Same(t) /\ Others(t)
    BY <1>10, Moved DEF CloseTransport, Callback
  <2>2. call[t].at \in {"close", "callback"} /\ connected' = connected
    BY <1>10 DEF CloseTransport, Callback
  <2>. QED  BY <2>1, <2>2 DEF Same
<1>. QED
  BY <1>1, <1>2, <1>3, <1>4, <1>5, <1>6, <1>7, <1>8, <1>9, <1>10 DEF CallStep

LEMMA StepStarts ==
  ASSUME NEW t \in Threads, IInv, LinkInv, StartInv, StepOf(t),
         reader'.at = reader.at \/ (reader.at = "off" /\ reader'.at = "read")
  PROVE  StartInv'
<1>0. call \in [Threads -> SoundCall]  BY DEF IInv, ClientSound
<1>1. CASE UNCHANGED <<clientVars, wireVars>>
  BY <1>1 DEF clientVars, StartInv, Asks
<1>2. CASE Dial(t)
  <2>1. /\ reader.at = "off" /\ ~connected
        /\ \A u \in Threads : Idle(u)
    BY <1>2 DEF Dial, LinkInv
  <2>2. /\ call'[t].at = "start" /\ call'[t].op = "Connect"
        /\ Others(t) /\ connected' = connected /\ reader' = reader
    BY <1>0, <1>2 DEF Dial, NoCall, Others
  <2>. QED  BY <2>1, <2>2 DEF StartInv, Asks, Idle, Others, Waiting
<1>3. ASSUME connected, NEW op, NEW f, NEW r, Begin(t, op, f, r)
      PROVE  StartInv'
  <2>1. reader.at # "off"  BY <1>3 DEF StartInv
  <2>2. call'[t].at = "send" /\ Others(t) /\ connected' = connected
    BY <1>0, <1>3 DEF Begin, Others
  <2>3. \A u \in Threads : call'[u].at # "start" /\ reader'.at # "off"
    BY <2>1, <2>2 DEF StartInv, Others
  <2>4. ASSUME NEW u \in Threads, call'[u].at = "idle"  PROVE call'[u].op = "none"
    BY <2>2, <2>4 DEF StartInv, Others
  <2>. QED  BY <2>1, <2>2, <2>3, <2>4 DEF StartInv
<1>4. CASE CallStep(t) \/ Timeout(t) \/ Ready(t) \/ Callback(t)
           \/ (Returned(t) /\ EndCall(t))
  <2>1. /\ call[t].at # "idle" /\ call'[t].at # "start" /\ Others(t)
        /\ \/ call'[t].op = call[t].op /\ call'[t].at # "idle"
           \/ call'[t] = NoCall
        /\ connected' => connected \/ call[t].at = "ready"
        /\ call'[t].at = "ready" => reader'.at = "read"
    BY <1>4, CallGoesOn
  <2>2. \A u \in Threads : call'[u].at = "start" => FALSE
    BY <2>1 DEF StartInv, Others
  <2>3. Asks(t)' => Asks(t)  BY <2>1 DEF Asks, NoCall, Waiting
  <2>4. call'[t].at = "idle" => call'[t].op = "none"  BY <2>1 DEF NoCall
  <2>. QED  BY <2>1, <2>2, <2>3, <2>4 DEF StartInv, Asks, Others
<1>. QED
  BY <1>1, <1>2, <1>3, <1>4
  DEF StepOf, Starts, Hello, Goodbye, Disconnect, RequestFloor, ReleaseFloor,
      QueryFloor

LEMMA StepCore ==
  ASSUME NEW t \in Threads, IInv, IInv', LinkInv, Timely, Core, Aside(t), StepOf(t),
         LockInv'
  PROVE  Core'
<1>1. ThreadMove(t) /\ Fits(t)  BY StepFits
<1>2. StartInv'  BY <1>1, StepStarts DEF Core, ThreadMove
<1>3. Rest'  BY <1>1, ThreadKeepsRest DEF Core, Rest
<1>. QED  BY <1>1, <1>2, <1>3 DEF Core, Rest, Fits

-----------------------------------------------------------------------------
(***************************************************************************)
(* The wrapper's lock.                                                     *)
(***************************************************************************)

\* Thread t takes the lock, gives it back at the end of a method, or neither.
LockMove(t) ==
  /\ \A u \in Threads : u # t => frame'[u] = frame[u]
  /\ \/ mu' = mu
     \/ mu = None /\ mu' = t
     \/ mu = t /\ mu' = None /\ Idle(t)
  /\ LockOf(t)'

LEMMA LocksKept ==
  ASSUME NEW t \in Threads, IInv, IInv', LinkInv, Timely, Core, StepOf(t),
         LockMove(t), setup.virtual, UNCHANGED <<handling, setup, serverVars>>,
         \A f \in FloorIDs : held'[f] # None => held[f] # None
  PROVE  Core'
<1>0. None \notin Threads  BY NoneFacts
<1>1. Aside(t)
  BY <1>0 DEF Aside, LockMove, Idle
<1>2. ThreadMove(t)  BY <1>1, StepFits
<1>3. ASSUME NEW u \in Threads  PROVE LockOf(u)'
  <2>1. CASE u = t  BY <2>1 DEF LockMove
  <2>2. CASE u # t
    <3>1. LockOf(u)  BY DEF Core, LockInv
    <3>2. call'[u] = call[u] /\ frame'[u] = frame[u]
      BY <2>2, <1>2 DEF ThreadMove, LockMove
    <3>. QED  BY <1>0, <2>2, <3>1, <3>2 DEF LockOf, LockMove
  <2>. QED  BY <2>1, <2>2
<1>4. LockInv'  BY <1>3 DEF LockInv
<1>. QED  BY <1>1, <1>4, StepCore

\* A step in which the wrapper is not involved.
LEMMA PlainCore ==
  ASSUME NEW t \in Threads, IInv, IInv', LinkInv, Timely, Core, StepOf(t),
         UNCHANGED <<handling, setup, serverVars, virtualVars>>,
         CallStep(t) \/ Timeout(t) \/ Ready(t) \/ ~setup.virtual
  PROVE  Core'
<1>1. UNCHANGED <<mu, held, frame>>  BY DEF virtualVars
<1>2. CASE ~setup.virtual
  <2>1. Aside(t)  BY <1>1 DEF Aside
  <2>2. LockInv'  BY <1>1, <1>2 DEF Core, LockInv
  <2>. QED  BY <2>1, <2>2, StepCore
<1>3. CASE setup.virtual
  <2>1. LockOf(t)  BY <1>3 DEF Core, LockInv
  <2>2. call'[t].op = call[t].op \/ call'[t] = NoCall  BY <1>3, CallGoesOn
  <2>3. LockOf(t)'  BY <1>1, <2>1, <2>2 DEF LockOf, NoCall
  <2>4. LockMove(t)  BY <1>1, <2>3 DEF LockMove
  <2>. QED  BY <1>1, <1>3, <2>4, LocksKept
<1>. QED  BY <1>2, <1>3

LEMMA FrameMoved ==
  ASSUME NEW t \in Threads, frame \in [Threads -> SoundFrame], NEW p
  PROVE  /\ FrameGoto(t, p) => frame'[t].at = p
         /\ FrameEnd(t) => frame'[t].at = "idle"
         /\ FrameGoto(t, p) \/ FrameEnd(t) =>
              \A u \in Threads : u # t => frame'[u] = frame[u]
<1>1. DOMAIN frame[t] = {"op", "at", "floor", "req", "todo"}
  BY DEF SoundFrame, FrameRecord
<1>. QED  BY <1>1 DEF FrameGoto, FrameEnd, NoFrame

LEMMA FrameCore ==
  ASSUME NEW t \in Threads, IInv, IInv', LinkInv, WrapperInv, Timely, Core,
         setup.virtual, FrameStep(t), UNCHANGED <<handling, setup, serverVars>>
  PROVE  Core'
<1>0. /\ frame \in [Threads -> SoundFrame] /\ call \in [Threads -> SoundCall]
      /\ held \in [FloorIDs -> ReqIDs \cup {None}]
  BY DEF IInv, VirtualSound, ClientSound
<1>a. FrameOf(t) /\ LockOf(t) /\ None \notin Threads
  BY NoneFacts DEF WrapperInv, Core, LockInv
<1>b. Idle(t) => call[t].op = "none"  BY DEF Idle, Core, StartInv
<1>c. EndCall(t) => call'[t].op = "none"  BY <1>0 DEF EndCall, NoCall
<1>d. \A op, f, r : Begin(t, op, f, r) => call'[t].op = op  BY <1>0 DEF Begin
<1>e. UNCHANGED <<clientVars, wireVars>> => call'[t] = call[t]  BY DEF clientVars
<1>f. \A p : /\ FrameGoto(t, p) => frame'[t].at = p
             /\ FrameEnd(t) => frame'[t].at = "idle"
             /\ FrameGoto(t, p) \/ FrameEnd(t) =>
                  \A u \in Threads : u # t => frame'[u] = frame[u]
  BY <1>0, FrameMoved
<1>g. UNCHANGED <<clientVars, wireVars>> => StepOf(t)  BY DEF StepOf
<1>h. ASSUME StepOf(t), held' = held, LockMove(t)  PROVE Core'
  BY <1>h, LocksKept
<1>1. CASE VDial(t)
  <2>1. call'[t].op = "Connect"  BY <1>0, <1>1 DEF VDial, Dial, NoCall
  <2>2. frame'[t].at = "dial" /\ mu' = t /\ mu = None /\ held' = held
        /\ \A u \in Threads : u # t => frame'[u] = frame[u]
    BY <1>1, <1>f DEF VDial, tables
  <2>3. LockMove(t)  BY <2>1, <2>2 DEF LockMove, LockOf
  <2>4. StepOf(t)  BY <1>1 DEF VDial, StepOf, Starts
  <2>. QED  BY <1>h, <2>2, <2>3, <2>4
<1>2. CASE VReady(t)
  <2>1. Ready(t) /\ UNCHANGED <<mu, held, frame>>  BY <1>2 DEF VReady, tables
  <2>2. call'[t].op = call[t].op \/ call'[t] = NoCall  BY <2>1, CallGoesOn
  <2>3. LockMove(t)  BY <1>a, <2>1, <2>2 DEF LockMove, LockOf, NoCall
  <2>. QED  BY <1>h, <2>1, <2>3 DEF StepOf
<1>3. CASE VDialled(t) \/ VHelloDone(t) \/ VHangupDone(t)
  <2>1. /\ Returned(t) /\ EndCall(t) /\ UNCHANGED <<mu, held>>
        /\ frame[t].at \in {"dial", "hello", "hangup"}
        /\ frame'[t].at \in {"hello", "unlock", "hangup"}
        /\ \A u \in Threads : u # t => frame'[u] = frame[u]
    BY <1>3, <1>f DEF VDialled, VHelloDone, VHangupDone, tables
  <2>2. LockMove(t)  BY <1>a, <1>c, <2>1 DEF LockMove, LockOf
  <2>. QED  BY <1>h, <2>1, <2>2 DEF StepOf
<1>4. CASE VHello(t) \/ VHangup(t)
  <2>1. /\ Idle(t) /\ UNCHANGED <<mu, held>>
        /\ frame[t].at \in {"hello", "hangup"}
        /\ \/ frame' = frame
           \/ /\ frame'[t].at \in {"unlock", "hangup"}
              /\ \A u \in Threads : u # t => frame'[u] = frame[u]
        /\ Hello(t) \/ Disconnect(t) \/ UNCHANGED <<clientVars, wireVars>>
    BY <1>4, <1>f DEF VHello, VHangup, tables
  <2>2. call'[t].op \in {"Hello", "Disconnect", "none"}
    BY <1>b, <1>d, <1>e, <2>1 DEF Hello, Disconnect
  <2>3. LockMove(t)  BY <1>a, <2>1, <2>2 DEF LockMove, LockOf
  <2>4. StepOf(t)  BY <2>1, <1>g DEF StepOf, Starts
  <2>. QED  BY <1>h, <2>1, <2>3, <2>4
<1>5. CASE VReturn(t)
  <2>1. /\ frame[t].at = "unlock" /\ Idle(t) /\ held' = held
        /\ mu' = IF mu = t THEN None ELSE mu
        /\ frame'[t].at = "idle"
        /\ \A u \in Threads : u # t => frame'[u] = frame[u]
        /\ UNCHANGED <<clientVars, wireVars>>
    BY <1>5, <1>a, <1>f DEF VReturn, FrameOf, tables
  <2>2. call'[t].op = "none"  BY <1>b, <1>e, <2>1
  <2>3. LockMove(t)  BY <1>a, <2>1, <2>2 DEF LockMove, LockOf
  <2>. QED  BY <1>g, <1>h, <2>1, <2>3
<1>6. CASE VRequestSend(t)
  <2>1. /\ frame[t].at = "lock" /\ Idle(t) /\ mu = None /\ mu' = t /\ held' = held
        /\ frame[t].op = "RequestFloor"
        /\ \A u \in Threads : u # t => frame'[u] = frame[u]
        /\ \/ RequestFloor(t, frame[t].floor) /\ frame'[t].at = "request"
           \/ UNCHANGED <<clientVars, wireVars>> /\ frame'[t].at = "unlock"
    BY <1>6, <1>a, <1>f DEF VRequestSend, FrameOf, tables
  <2>2. \/ call'[t].op = "RequestFloor" /\ frame'[t].at = "request"
        \/ call'[t].op = "none" /\ frame'[t].at = "unlock"
    BY <1>b, <1>d, <1>e, <2>1 DEF RequestFloor
  <2>3. LockMove(t)  BY <2>1, <2>2 DEF LockMove, LockOf
  <2>4. frame[t].floor \in FloorIDs  BY <1>0, <2>1 DEF SoundFrame
  <2>5. StepOf(t)  BY <1>g, <2>1, <2>4 DEF StepOf, Starts
  <2>. QED  BY <1>h, <2>1, <2>3, <2>5
<1>7. CASE VRequestDone(t)
  <2>1. /\ Returned(t) /\ EndCall(t) /\ UNCHANGED <<mu, held>>
        /\ frame[t].at = "request" /\ frame'[t].at = "unlock"
        /\ \A u \in Threads : u # t => frame'[u] = frame[u]
    BY <1>7, <1>f DEF VRequestDone
  <2>2. LockMove(t)  BY <1>a, <1>c, <2>1 DEF LockMove, LockOf
  <2>. QED  BY <1>h, <2>1, <2>2 DEF StepOf
<1>8. CASE VReleaseLook(t) \/ VCloseLook(t)
  <2>1. /\ frame[t].at = "lock" /\ Idle(t) /\ mu = None /\ mu' = None /\ held' = held
        /\ frame'[t].at \in {"release", "hangup", "unlock"}
        /\ \A u \in Threads : u # t => frame'[u] = frame[u]
        /\ UNCHANGED <<clientVars, wireVars>>
    <3>1. CASE VReleaseLook(t)
      <4>1. DOMAIN frame[t] = {"op", "at", "floor", "req", "todo"}
        BY <1>0 DEF SoundFrame, FrameRecord
      <4>. QED  BY <1>0, <1>a, <3>1, <4>1 DEF VReleaseLook, FrameOf, tables
    <3>2. CASE VCloseLook(t)
      BY <1>a, <1>f, <3>2 DEF VCloseLook, FrameOf, tables
    <3>. QED  BY <1>8, <3>1, <3>2
  <2>2. call'[t].op = "none"  BY <1>b, <1>e, <2>1
  <2>3. LockMove(t)  BY <1>a, <2>1, <2>2 DEF LockMove, LockOf
  <2>. QED  BY <1>g, <1>h, <2>1, <2>3
<1>9. CASE VReleaseNext(t)
  <2>1. PICK f \in frame[t].todo :
          /\ frame' = [frame EXCEPT ![t].todo = @ \ {f}]
          /\ ReleaseFloor(t, f) \/ UNCHANGED <<clientVars, wireVars>>
    BY <1>9 DEF VReleaseNext
  <2>2. frame[t].at = "release" /\ Idle(t) /\ UNCHANGED <<mu, held>>
    BY <1>9 DEF VReleaseNext, tables
  <2>3. f \in FloorIDs /\ DOMAIN frame[t] = {"op", "at", "floor", "req", "todo"}
    BY <1>0 DEF SoundFrame, FrameRecord
  <2>4. /\ frame'[t].at = "release"
        /\ \A u \in Threads : u # t => frame'[u] = frame[u]
    BY <1>0, <2>1, <2>2, <2>3
  <2>5. call'[t].op \in {"ReleaseFloor", "none"}
    BY <1>b, <1>d, <1>e, <2>1, <2>2 DEF ReleaseFloor
  <2>6. LockMove(t)  BY <1>a, <2>2, <2>4, <2>5 DEF LockMove, LockOf
  <2>7. StepOf(t)  BY <1>g, <2>1, <2>3 DEF StepOf, Starts
  <2>. QED  BY <1>h, <2>2, <2>6, <2>7
<1>10. CASE VReleaseReturned(t)
  <2>1. Returned(t) /\ EndCall(t) /\ UNCHANGED <<mu, held, frame>>
    BY <1>10 DEF VReleaseReturned, virtualVars
  <2>2. LockMove(t)  BY <1>a, <1>c, <2>1 DEF LockMove, LockOf
  <2>. QED  BY <1>h, <2>1, <2>2 DEF StepOf
<1>11. CASE VReleaseDone(t)
  <2>1. /\ frame[t].at = "release" /\ Idle(t) /\ UNCHANGED <<mu, held>>
        /\ frame'[t].at = "unlock"
        /\ \A u \in Threads : u # t => frame'[u] = frame[u]
        /\ UNCHANGED <<clientVars, wireVars>>
    BY <1>11, <1>f DEF VReleaseDone, tables
  <2>2. call'[t].op = "none"  BY <1>b, <1>e, <2>1
  <2>3. LockMove(t)  BY <1>a, <2>1, <2>2 DEF LockMove, LockOf
  <2>. QED  BY <1>g, <1>h, <2>1, <2>3
<1>12. CASE VCallback(t)
  <2>1. Callback(t) /\ call[t].at = "callback"  BY <1>12 DEF VCallback, Callback
  <2>2. call[t].op = "ReleaseFloor" /\ call[t].floor \in FloorIDs
    BY <1>0, <2>1 DEF SoundCall, Core, GrantInv
  <2>3. held' = [held EXCEPT ![call[t].floor] = None] /\ UNCHANGED <<mu, frame>>
    BY <1>12, <2>2 DEF VCallback, OnFloor, Event
  <2>4. /\ held'[call[t].floor] = None
        /\ \A f \in FloorIDs : held'[f] # None => held[f] # None
    BY <1>0, <2>2, <2>3
  <2>5. call'[t].op = call[t].op \/ call'[t] = NoCall  BY <2>1, CallGoesOn
  <2>6. LockMove(t)  BY <1>a, <2>3, <2>5 DEF LockMove, LockOf, NoCall
  <2>7. StepOf(t)  BY <2>1, <2>4 DEF StepOf
  <2>. QED  BY <2>4, <2>6, <2>7, LocksKept
<1>. QED
  BY <1>1, <1>2, <1>3, <1>4, <1>5, <1>6, <1>7, <1>8, <1>9, <1>10, <1>11, <1>12
  DEF FrameStep

\* The wrapper's methods begin: only the frame changes.
LEMMA EnterCore ==
  ASSUME NEW t \in Threads, IInv, IInv', LinkInv, WrapperInv, Timely, Core,
         setup.virtual, VirtualCall(t) \/ VClose(t),
         UNCHANGED <<handling, setup, serverVars>>
  PROVE  Core'
<1>0. frame \in [Threads -> SoundFrame]  BY DEF IInv, VirtualSound
<1>1. /\ frame[t] = NoFrame /\ frame'[t].at = "lock"
      /\ \A u \in Threads : u # t => frame'[u] = frame[u]
      /\ UNCHANGED <<clientVars, wireVars, mu, held>>
  <2>1. ASSUME NEW op, NEW f, Enter(t, op, "lock", f)
        PROVE  /\ frame[t] = NoFrame /\ frame'[t].at = "lock"
               /\ \A u \in Threads : u # t => frame'[u] = frame[u]
    BY <1>0, <2>1 DEF Enter, NoFrame
  <2>2. CASE VConnect(t) \/ VReleaseAllFloors(t) \/ VClose(t)
    BY <2>1, <2>2 DEF VConnect, VReleaseAllFloors, VClose, tables
  <2>3. ASSUME NEW f \in FloorIDs, VRequestFloor(t, f)
        PROVE  /\ frame[t] = NoFrame /\ frame'[t].at = "lock"
               /\ \A u \in Threads : u # t => frame'[u] = frame[u]
               /\ UNCHANGED <<clientVars, wireVars, mu, held>>
    BY <2>1, <2>3 DEF VRequestFloor, tables
  <2>4. ASSUME NEW r \in ReqIDs, VReleaseFloor(t, r)
        PROVE  /\ frame[t] = NoFrame /\ frame'[t].at = "lock"
               /\ \A u \in Threads : u # t => frame'[u] = frame[u]
               /\ UNCHANGED <<clientVars, wireVars, mu, held>>
    BY <1>0, <2>4 DEF VReleaseFloor, NoFrame, tables
  <2>. QED  BY <2>2, <2>3, <2>4 DEF VirtualCall
<1>2. LockOf(t) /\ FrameOf(t)  BY DEF Core, LockInv, WrapperInv
<1>3. call'[t].op = "none" /\ mu # t
  BY <1>1, <1>2 DEF clientVars, FrameOf, LockOf, NoFrame, Idle, Core, StartInv
<1>4. LockMove(t)  BY <1>1, <1>3 DEF LockMove, LockOf
<1>5. StepOf(t)  BY <1>1 DEF StepOf
<1>. QED  BY <1>1, <1>4, <1>5, LocksKept

LEMMA ThreadCore ==
  ASSUME NEW t \in Threads, IInv, IInv', LinkInv, WrapperInv, Timely, Core,
         Calls(t) \/ ThreadRuns(t)
  PROVE  Core'
<1>0. UNCHANGED <<handling, setup, serverVars>>  BY DEF Calls, ThreadRuns
<1>1. CASE Calls(t)
  <2>1. CASE ~setup.virtual
    <3>1. Starts(t) /\ UNCHANGED virtualVars
      BY <1>1, <2>1 DEF Calls, ApplicationCall, Starts
    <3>2. StepOf(t)  BY <3>1 DEF StepOf
    <3>. QED  BY <1>0, <2>1, <3>1, <3>2, PlainCore
  <2>2. CASE setup.virtual
    BY <1>0, <1>1, <2>2, EnterCore DEF Calls, ApplicationCall
  <2>. QED  BY <2>1, <2>2
<1>2. CASE ThreadRuns(t)
  <2>0. ThreadStep(t)  BY <1>2 DEF ThreadRuns
  <2>1. CASE CallStep(t) /\ UNCHANGED virtualVars
    <3>1. StepOf(t)  BY <2>1 DEF StepOf
    <3>. QED  BY <1>0, <2>1, <3>1, PlainCore
  <2>2. CASE Timeout(t) /\ (setup.timely => Hopeless) /\ UNCHANGED virtualVars
    <3>1. StepOf(t)  BY <2>2 DEF StepOf, Timely
    <3>. QED  BY <1>0, <2>2, <3>1, PlainCore
  <2>3. CASE /\ ~setup.virtual
             /\ Ready(t) \/ Callback(t) \/ (Returned(t) /\ EndCall(t))
             /\ UNCHANGED virtualVars
    <3>1. Callback(t) => held'[call[t].floor] = None
      <4>. SUFFICES ASSUME Callback(t)  PROVE held'[call[t].floor] = None
        OBVIOUS
      <4>1. call[t] \in SoundCall /\ call[t].at = "callback"
        BY DEF IInv, ClientSound, Callback
      <4>2. call[t].floor \in FloorIDs  BY <4>1 DEF SoundCall
      <4>. QED  BY <2>3, <4>2 DEF Core, LockInv, virtualVars
    <3>2. StepOf(t)  BY <2>3, <3>1 DEF StepOf
    <3>. QED  BY <1>0, <2>3, <3>2, PlainCore
  <2>4. CASE setup.virtual /\ FrameStep(t)
    BY <1>0, <2>4, FrameCore
  <2>. QED  BY <2>0, <2>1, <2>2, <2>3, <2>4 DEF ThreadStep
<1>. QED  BY <1>1, <1>2

-----------------------------------------------------------------------------
(***************************************************************************)
(* The read loop.                                                          *)
(***************************************************************************)

\* The read loop is not stuck, or has ended.
Awake ==
  \/ /\ reader.at \notin {"onClose", "done"}
     /\ setup.virtual /\ reader.at = "callback" => mu = None
  \/ reader'.at \in {"onClose", "done"}

\* What the read loop leaves alone.
ReaderMove ==
  /\ UNCHANGED <<call, lastTx, outbox, handling, setup, pc, job, floors, fsm, mu,
                 frame>>
  /\ reader.at # "off" /\ reader'.at # "off"
  /\ connected' => connected
  /\ ~setup.virtual => held' = held
  /\ Awake

\* Where its messages come from and go to.
ReaderPasses ==
  /\ Contents(inbox') \subseteq Contents(inbox)
  /\ reader'.msg \in Contents(inbox) \cup {reader.msg, None}
  /\ \A t \in Threads :
       \/ chan'[t] = chan[t]
       \/ /\ chan[t] = None /\ chan'[t] = reader.msg /\ reader.at = "deliver"
          /\ Registered(t) /\ call[t].tx = reader.msg.tx
  /\ reader'.at = "deliver" =>
       /\ ~IsGrant(reader'.msg)
       /\ \A t \in Threads : reader'.to = t =>
            Registered(t) /\ call[t].tx = reader'.msg.tx
  /\ \A t \in Threads : Registered(t) /\ Answered(t) => Answered(t)'

\* What becomes of the client's belief in f.
ReaderBelieves(f) ==
  /\ Entered(f)' => Entered(f) \/ GrantRead(f)
  /\ GrantRead(f)' => GrantRead(f) \/ GrantIn(f)
  /\ notified'[f] = "Granted" => notified[f] = "Granted" \/ GrantRead(f)
  /\ held'[f] # None => held[f] # None \/ GrantRead(f)
  /\ ReleaseRead(f) => ReleaseRead(f)' \/ ReleaseTaken(f)' \/ NoGrant(f)'
  /\ \A m \in Recent(inbox, f) :
       \/ m \in Recent(inbox', f)
       \/ m = reader'.msg /\ reader'.at \in {"deliver", "handle"} /\ ~GrantIn(f)'

LEMMA ReaderCommon ==
  ASSUME ReaderMove, Core
  PROVE  TxInv' /\ Over' = Over /\ StartInv' /\ LockInv' /\ HandlerInv'
<1>. USE DEF ReaderMove
<1>1. TxInv'  BY DEF Core, TxInv, Underway, Asks, Request
<1>2. Over' = Over  BY DEF Over
<1>3. StartInv'  BY DEF Core, StartInv, Asks
<1>4. LockInv'
  <2>1. \A t \in Threads : LockOf(t)' <=> LockOf(t)  BY DEF LockOf
  <2>. QED  BY <2>1 DEF Core, LockInv
<1>5. HandlerInv'  BY DEF Core, HandlerInv
<1>. QED  BY <1>1, <1>2, <1>3, <1>4, <1>5

LEMMA ReaderErrors ==
  ASSUME ReaderMove, ReaderPasses, Core
  PROVE  ErrorInv' /\ ResponseInv' /\ GrantInv'
<1>. USE DEF ReaderMove, ReaderPasses
<1>0. Over' = Over /\ None \notin Threads  BY ReaderCommon, NoneFacts
<1>a. \A t \in Threads : Registered(t)' <=> Registered(t)  BY DEF Registered
<1>b. ~IsError(None) /\ ~IsGrant(None)  BY DEF IsError, IsGrant
<1>1. ErrorInv'
  <2>1. \A m \in Contents(inbox') : IsError(m) => m.tx \in Over'
    BY <1>0 DEF Core, ErrorInv
  <2>2. IsError(reader'.msg) => reader'.msg.tx \in Over'
    BY <1>0, <1>b DEF Core, ErrorInv
  <2>3. ASSUME NEW t \in Threads
        PROVE  /\ IsError(chan'[t]) => call'[t].tx \in Over'
               /\ call'[t].at = "got" /\ IsError(call'[t].resp) => call'[t].tx \in Over'
    <3>1. CASE chan'[t] = chan[t]  BY <1>0, <3>1 DEF Core, ErrorInv
    <3>2. CASE chan'[t] # chan[t]
      <4>1. chan'[t] = reader.msg /\ call[t].tx = reader.msg.tx  BY <3>2
      <4>. QED  BY <1>0, <4>1 DEF Core, ErrorInv
    <3>. QED  BY <3>1, <3>2
  <2>. QED  BY <2>1, <2>2, <2>3 DEF ErrorInv
<1>2. ResponseInv'
  BY <1>a DEF Core, ResponseInv
<1>3. \A t \in Threads : Stuck(t) => Stuck(t)'
  BY <1>0 DEF Stuck, Awake
<1>4. Unclaimed \subseteq Unclaimed'
  BY <1>a, <1>3 DEF Unclaimed
<1>5. Blocked => Blocked'
  BY <1>0 DEF Blocked, Awake
<1>6. \A t \in Threads : ~IsGrant(chan'[t])
  BY DEF Core, GrantInv
<1>7. GrantInv'
  <2>1. pc'[Me] = "decide" =>
          \A t \in Threads : Registered(t)' /\ call'[t].tx = handling'.tx => Answered(t)'
    BY <1>a DEF Core, GrantInv
  <2>2. /\ pc'[Me] = "granted" => handling'.tx \in Unclaimed'
        /\ \A m \in Contents(inbox') : IsGrant(m) => m.tx \in Unclaimed'
    BY <1>4 DEF Core, GrantInv
  <2>3. \A t \in Threads :
          /\ ~IsGrant(call'[t].resp)
          /\ call'[t].op = "RequestFloor" => call'[t].at # "callback"
          /\ call'[t].op = "ReleaseFloor" /\ call'[t].at = "got"
               /\ call'[t].resp = None => Blocked' \/ call'[t].tx \in Over'
    BY <1>0, <1>5 DEF Core, GrantInv
  <2>. QED  BY <1>6, <2>1, <2>2, <2>3 DEF GrantInv
<1>. QED  BY <1>1, <1>2, <1>7

LEMMA ReaderClaims ==
  ASSUME ReaderMove, ReaderPasses, Core, NEW f
  PROVE  Claimed(f) \subseteq Claimed(f)'
<1>. USE DEF ReaderMove, ReaderPasses
<1>. SUFFICES ASSUME NEW x \in Claimed(f)  PROVE x \in Claimed(f)'
  OBVIOUS
<1>0. Over' = Over /\ None \notin Threads  BY ReaderCommon, NoneFacts
<1>1. ~IsError(None)  BY DEF IsError
<1>2. /\ \A m \in Contents(inbox') : IsError(m) => m.tx # x
      /\ IsError(reader'.msg) => reader'.msg.tx # x
  BY <1>1 DEF Claimed
<1>3. Blocked => Blocked'  BY <1>0 DEF Blocked, Awake
<1>4. ASSUME NEW t \in Threads, Registered(t)', call'[t].tx = x
      PROVE  /\ call'[t].op = "ReleaseFloor" /\ call'[t].floor = f
             /\ ~IsError(chan'[t])
             /\ call'[t].at = "got" =>
                  Blocked' \/ (call'[t].resp # None /\ ~IsError(call'[t].resp))
  <2>1. Registered(t) /\ call[t].tx = x  BY <1>4 DEF Registered
  <2>2. /\ call[t].op = "ReleaseFloor" /\ call[t].floor = f
        /\ ~IsError(chan[t])
        /\ call[t].at = "got" =>
             Blocked \/ (call[t].resp # None /\ ~IsError(call[t].resp))
    BY <2>1 DEF Claimed
  <2>3. ~IsError(chan'[t])
    <3>1. IsError(reader.msg) => reader.msg.tx # x  BY DEF Claimed
    <3>. QED  BY <2>1, <2>2, <3>1
  <2>. QED  BY <1>3, <2>2, <2>3
<1>. QED  BY <1>0, <1>2, <1>4 DEF Claimed

LEMMA ReaderCore ==
  ASSUME ReaderMove, ReaderPasses, \A f \in FloorIDs : ReaderBelieves(f), Core
  PROVE  Core'
<1>1. ASSUME NEW f \in FloorIDs
      PROVE  (S!HolderIs(f, User) \/ NoGrant(f) \/ Leaving(f))'
  <2>0. ReaderBelieves(f) /\ (S!HolderIs(f, User) \/ NoGrant(f) \/ Leaving(f))
    BY DEF Core, BeliefInv
  <2>a. Claimed(f) \subseteq Claimed(f)'  BY ReaderClaims
  <2>b. GrantIn(f)' => GrantIn(f)  BY DEF GrantIn, ReaderPasses
  <2>1. CASE S!HolderIs(f, User)
    BY <2>1 DEF S!HolderIs, User, ReaderMove
  <2>2. CASE NoGrant(f)
    <3>1. NoGrant(f)'  BY <2>0, <2>2, <2>b DEF NoGrant, ReaderBelieves
    <3>. QED  BY <3>1
  <2>3. CASE pc[Me] \in {"goodbye", "byeBroadcast"}
             \/ (pc[Me] = "released" /\ handling.floor = f)
    BY <2>3 DEF Leaving, ReaderMove
  <2>4. CASE ReleaseIn(f)
    <3>1. PICK m \in Recent(inbox, f) : IsRelease(m, f) /\ m.tx \in Claimed(f)
      BY <2>4 DEF ReleaseIn
    <3>2. CASE m \in Recent(inbox', f)
      BY <2>a, <3>1, <3>2 DEF ReleaseIn, Leaving
    <3>3. CASE /\ m = reader'.msg /\ reader'.at \in {"deliver", "handle"}
               /\ ~GrantIn(f)'
      BY <2>a, <3>1, <3>3 DEF ReleaseRead, Leaving
    <3>. QED  BY <2>0, <3>2, <3>3 DEF ReaderBelieves
  <2>5. CASE ReleaseRead(f)
    BY <2>0, <2>5 DEF ReaderBelieves, Leaving
  <2>6. CASE ReleaseTaken(f)
    <3>1. PICK t \in Threads : Clearing(t, f)  BY <2>6 DEF ReleaseTaken
    <3>2. ~GrantIn(f)' /\ ~GrantRead(f)' /\ (Entered(f)' => Entered(f))
      BY <2>0, <2>6, <2>b DEF ReleaseTaken, ReaderBelieves
    <3>3. chan[t] # None => chan'[t] = chan[t]  BY DEF ReaderPasses
    <3>4. Clearing(t, f)'  BY <3>1, <3>2, <3>3 DEF Clearing, ReaderMove
    <3>. QED  BY <3>2, <3>4 DEF ReleaseTaken, Leaving
  <2>. QED  BY <2>0, <2>1, <2>2, <2>3, <2>4, <2>5, <2>6 DEF Leaving
<1>2. BeliefInv'  BY <1>1 DEF BeliefInv
<1>. QED  BY <1>2, ReaderCommon, ReaderErrors DEF Core

LEMMA ReaderEnds ==
  ASSUME IInv, Core, ReadExit \/ OnClose,
         UNCHANGED <<handling, setup, serverVars, mu, held, frame>>
  PROVE  Core'
<1>0. DOMAIN reader = {"at", "msg", "to"}
  BY DEF IInv, ClientSound, SoundReader, ReaderRecord
<1>1. /\ reader.at \in {"read", "onClose"} /\ reader'.at \in {"onClose", "done"}
      /\ reader'.msg = reader.msg
      /\ UNCHANGED <<call, lastTx, outbox, inbox, chan, requests, notified>>
      /\ connected' => connected
  BY <1>0 DEF ReadExit, OnClose, ReaderGoto, wireVars
<1>2. ReaderMove
  BY <1>1 DEF ReaderMove, Awake, serverVars
<1>3. ReaderPasses
  BY <1>1 DEF ReaderPasses, Answered
<1>4. ASSUME NEW f \in FloorIDs  PROVE ReaderBelieves(f)
  <2>1. Entered(f)' <=> Entered(f)  BY <1>1 DEF Entered
  <2>2. ~GrantRead(f)' /\ ~ReleaseRead(f)  BY <1>1 DEF GrantRead, ReleaseRead
  <2>. QED  BY <1>1, <2>1, <2>2 DEF ReaderBelieves
<1>. QED  BY <1>2, <1>3, <1>4, ReaderCore

LEMMA ReadMessageCore ==
  ASSUME IInv, Core, ReadMessage,
         UNCHANGED <<handling, setup, serverVars, mu, held, frame>>
  PROVE  Core'
<1>. PICK m : m = Head(inbox)  OBVIOUS
<1>. DEFINE waiters == {t \in Threads : Registered(t) /\ call[t].tx = m.tx}
<1>0. /\ inbox \in Seq(Sound) /\ inbox # <<>> /\ inbox' = Tail(inbox)
      /\ reader.at = "read"
      /\ UNCHANGED <<call, lastTx, outbox, chan, requests, notified, connected>>
  BY DEF IInv, WiresSound, ReadMessage
<1>1. /\ m \in Sound /\ Contents(inbox) = Contents(inbox') \cup {m}
      /\ \A f : \A n \in Recent(inbox, f) :
           \/ n \in Recent(inbox', f)
           \/ n = m /\ \A k \in Contents(inbox') : ~GrantOf(k, f)
  BY <1>0, TailFacts
<1>2. /\ reader'.msg = m
      /\ reader'.at = IF waiters = {} THEN "handle" ELSE "deliver"
      /\ waiters # {} => reader'.to \in waiters
  BY DEF ReadMessage
<1>3. /\ reader'.at \in {"handle", "deliver"}
      /\ reader'.at = "deliver" <=> waiters # {}
  BY <1>2
<1>. HIDE DEF waiters
<1>4. reader'.at = "deliver" => ~IsGrant(m)
  <2>. SUFFICES ASSUME IsGrant(m), waiters # {}  PROVE FALSE
    BY <1>3
  <2>1. m.tx \in Unclaimed  BY <1>1 DEF Core, GrantInv
  <2>2. PICK t \in Threads : Registered(t) /\ call[t].tx = m.tx  BY DEF waiters
  <2>3. Stuck(t)  BY <2>1, <2>2 DEF Unclaimed
  <2>. QED  BY <1>0, <2>3 DEF Stuck
<1>5. ASSUME NEW t \in Threads, Registered(t), Answered(t)  PROVE Answered(t)'
  <2>1. CASE call[t].tx = m.tx
    <3>1. t \in waiters  BY <1>5, <2>1 DEF waiters
    <3>2. reader'.at = "deliver" /\ reader'.to \in waiters  BY <1>2, <1>3, <3>1
    <3>3. PICK u \in Threads : u = reader'.to /\ Registered(u) /\ call[u].tx = m.tx
      BY <3>2 DEF waiters
    <3>4. Asks(t) /\ Asks(u)  BY <1>5, <3>3 DEF Registered, Asks
    <3>5. u = t  BY <2>1, <3>3, <3>4 DEF Core, TxInv
    <3>. QED  BY <3>2, <3>3, <3>5 DEF Answered
  <2>2. CASE call[t].tx # m.tx
    BY <1>0, <1>1, <1>5, <2>2 DEF Answered
  <2>. QED  BY <2>1, <2>2
<1>6. \A t \in Threads : reader'.at = "deliver" /\ reader'.to = t =>
                           Registered(t) /\ call[t].tx = m.tx
  BY <1>2, <1>3 DEF waiters
<1>7. ReaderMove
  BY <1>0, <1>3 DEF ReaderMove, Awake, serverVars
<1>8. ReaderPasses
  BY <1>0, <1>1, <1>2, <1>4, <1>5, <1>6 DEF ReaderPasses
<1>9. ASSUME NEW f \in FloorIDs  PROVE ReaderBelieves(f)
  <2>1. Entered(f)' <=> Entered(f)  BY <1>0 DEF Entered
  <2>2. GrantRead(f)' => GrantIn(f)  BY <1>1, <1>2 DEF GrantRead, GrantIn
  <2>3. ~ReleaseRead(f)  BY <1>0 DEF ReleaseRead
  <2>4. \A n \in Recent(inbox, f) :
          n \in Recent(inbox', f) \/ (n = m /\ ~GrantIn(f)')
    BY <1>1 DEF GrantIn
  <2>. QED  BY <1>0, <1>2, <1>3, <2>1, <2>2, <2>3, <2>4 DEF ReaderBelieves
<1>. QED  BY <1>7, <1>8, <1>9, ReaderCore

LEMMA DeliverCore ==
  ASSUME IInv, Core, Deliver,
         UNCHANGED <<handling, setup, serverVars, mu, held, frame>>
  PROVE  Core'
<1>0. /\ reader.at = "deliver" /\ reader \in SoundReader
      /\ UNCHANGED <<call, lastTx, outbox, inbox, requests, notified, connected>>
      /\ chan \in [Threads -> Sound \cup {None}]
      /\ reader.msg \in Sound /\ ~IsGrant(reader.msg)
      /\ Closed \notin Threads /\ None \notin Threads
      /\ DOMAIN reader = {"at", "msg", "to"}
  BY NoneFacts
  DEF Deliver, IInv, ClientSound, SoundReader, ReaderRecord, wireVars, Core, GrantInv
<1>a. \A f \in FloorIDs : Entered(f)' <=> Entered(f)  BY <1>0 DEF Entered
<1>b. ~Blocked  BY <1>0 DEF Blocked
<1>1. CASE reader.to = Closed
  <2>1. UNCHANGED <<reader, chan>>  BY <1>1 DEF Deliver
  <2>2. ReaderMove  BY <1>0, <2>1 DEF ReaderMove, Awake, serverVars
  <2>3. ReaderPasses
    BY <1>0, <1>1, <2>1 DEF ReaderPasses, Answered
  <2>4. ASSUME NEW f \in FloorIDs  PROVE ReaderBelieves(f)
    <3>1. /\ Claimed(f) \subseteq Claimed(f)'
          /\ (GrantIn(f)' <=> GrantIn(f)) /\ (GrantRead(f)' <=> GrantRead(f))
      BY <1>0, <2>1, <2>2, <2>3, ReaderClaims DEF GrantIn, GrantRead
    <3>2. ReleaseRead(f) => ReleaseRead(f)'
      BY <1>0, <1>a, <2>1, <3>1 DEF ReleaseRead
    <3>. QED  BY <1>0, <1>a, <3>1, <3>2 DEF ReaderBelieves
  <2>. QED  BY <2>2, <2>3, <2>4, ReaderCore
<1>2. ASSUME NEW t \in Threads, reader.to = t, chan[t] = None  PROVE Core'
  <2>1. /\ chan' = [chan EXCEPT ![t] = reader.msg]
        /\ reader'.at = "read" /\ reader'.msg = None /\ reader'.to = None
    BY <1>0, <1>2 DEF Deliver, ReadOn
  <2>2. chan'[t] = reader.msg /\ \A u \in Threads : u # t => chan'[u] = chan[u]
    BY <1>0, <2>1
  <2>3. Registered(t) /\ call[t].tx = reader.msg.tx
    BY <1>0, <1>2 DEF Core, ResponseInv
  <2>4. ReaderMove  BY <1>0, <2>1 DEF ReaderMove, Awake, serverVars
  <2>5. ASSUME NEW u \in Threads, Answered(u)  PROVE Answered(u)'
    <3>1. CASE u = t
      <4>1. chan'[t] # None  BY <1>0, <2>2, NoneFacts
      <4>. QED  BY <3>1, <4>1 DEF Answered
    <3>2. CASE u # t
      BY <1>0, <1>2, <2>2, <2>5, <3>2 DEF Answered
    <3>. QED  BY <3>1, <3>2
  <2>6. ReaderPasses
    BY <1>0, <1>2, <2>1, <2>2, <2>3, <2>5 DEF ReaderPasses
  <2>7. ASSUME NEW f \in FloorIDs  PROVE ReaderBelieves(f)
    <3>1. ~GrantRead(f)'  BY <2>1 DEF GrantRead
    <3>2. ASSUME ReleaseRead(f)  PROVE ReleaseTaken(f)'
      <4>1. /\ IsRelease(reader.msg, f) /\ reader.msg.tx \in Claimed(f) /\ ~GrantIn(f)
        BY <1>0, <3>2 DEF ReleaseRead
      <4>2. /\ call[t].op = "ReleaseFloor" /\ call[t].floor = f
            /\ call[t].at = "got" => call[t].resp # None /\ ~IsError(call[t].resp)
        BY <1>b, <2>3, <4>1 DEF Claimed
      <4>3. call[t].at # "send"  BY <2>3, <4>1 DEF Claimed, Over
      <4>4. call[t].at \in {"wait", "got"}  BY <2>3, <4>3 DEF Registered
      <4>5. chan'[t] # None /\ ~IsError(chan'[t])
        BY <1>0, <2>2, <4>1, NoneFacts DEF IsRelease, IsError
      <4>6. Clearing(t, f)'  BY <1>0, <4>2, <4>4, <4>5 DEF Clearing
      <4>7. ~GrantIn(f)'  BY <1>0, <4>1 DEF GrantIn
      <4>. QED  BY <3>1, <4>6, <4>7 DEF ReleaseTaken
    <3>. QED  BY <1>0, <1>a, <3>1, <3>2 DEF ReaderBelieves
  <2>. QED  BY <2>4, <2>6, <2>7, ReaderCore
<1>3. ASSUME NEW t \in Threads, reader.to = t, chan[t] # None  PROVE Core'
  <2>1. /\ chan' = chan /\ reader'.at = "handle" /\ reader'.msg = reader.msg
    BY <1>0, <1>3 DEF Deliver, ReaderGoto
  <2>2. ReaderMove  BY <1>0, <2>1 DEF ReaderMove, Awake, serverVars
  <2>3. \A u \in Threads : Answered(u) => Answered(u)'
    BY <1>0, <1>3, <2>1 DEF Answered
  <2>4. ReaderPasses  BY <1>0, <2>1, <2>3 DEF ReaderPasses
  <2>5. ASSUME NEW f \in FloorIDs  PROVE ReaderBelieves(f)
    <3>1. ~GrantRead(f)' /\ (GrantIn(f)' <=> GrantIn(f))
      BY <1>0, <2>1 DEF GrantRead, GrantIn, GrantOf
    <3>2. ReleaseRead(f) => ReleaseRead(f)'
      BY <2>1, <3>1 DEF ReleaseRead
    <3>. QED  BY <1>0, <1>a, <3>1, <3>2 DEF ReaderBelieves
  <2>. QED  BY <2>2, <2>4, <2>5, ReaderCore
<1>4. reader.to \in Threads \cup {Closed}
  BY <1>0 DEF SoundReader, ReaderRecord
<1>. QED  BY <1>1, <1>2, <1>3, <1>4

LEMMA HandleMessageCore ==
  ASSUME IInv, Core, HandleMessage,
         UNCHANGED <<handling, setup, serverVars, mu, held, frame>>
  PROVE  Core'
<1>. PICK m : m = reader.msg  OBVIOUS
<1>0. /\ reader.at = "handle" /\ m \in Sound
      /\ UNCHANGED <<call, lastTx, outbox, inbox, notified, connected, chan>>
      /\ requests \in [FloorIDs -> Entry]
      /\ DOMAIN reader = {"at", "msg", "to"}
  BY DEF HandleMessage, IInv, ClientSound, SoundReader, ReaderRecord, wireVars
<1>1. /\ reader'.at \in {"read", "state", "callback"} /\ reader'.msg \in {m, None}
      /\ reader'.at # "read" => reader'.msg = m
      /\ m.prim = "FloorRequestStatus" /\ m.status # "Pending" => reader'.at = "state"
      /\ reader'.at = "state" => m.prim = "FloorRequestStatus"
  BY <1>0 DEF HandleMessage, ReadOn, ReaderGoto
<1>2. ASSUME NEW f \in FloorIDs
      PROVE  /\ Entered(f)' => Entered(f) \/ GrantOf(m, f)
             /\ IsRelease(m, f) => ~Entered(f)'
  <2>1. CASE m.prim = "FloorRequestStatus"
    <3>1. m.floor \in FloorIDs  BY <1>0, <2>1 DEF Sound, WellFormed
    <3>2. requests' = [requests EXCEPT ![m.floor] =
                         IF @ = None THEN @ ELSE [@ EXCEPT !.status = m.status]]
      BY <2>1 DEF HandleMessage
    <3>3. f # m.floor => requests'[f] = requests[f]  BY <1>0, <3>1, <3>2
    <3>4. f = m.floor => \/ requests'[f] = None
                         \/ requests'[f].status = m.status
      <4>1. requests[f] # None => DOMAIN requests[f] = {"req", "status"}
        BY <1>0 DEF Entry
      <4>. QED  BY <1>0, <3>1, <3>2, <4>1
    <3>5. Entered(f)' <=> requests'[f] # None /\ requests'[f].status = "Granted"
      BY DEF Entered
    <3>6. m # None  BY <1>0, NoneFacts
    <3>. QED
      BY <2>1, <3>3, <3>4, <3>5, <3>6 DEF Entered, GrantOf, IsGrant, IsRelease
  <2>2. CASE m.prim # "FloorRequestStatus"
    <3>1. requests' = requests /\ ~IsRelease(m, f)
      BY <2>2 DEF HandleMessage, IsRelease
    <3>. QED  BY <3>1 DEF Entered
  <2>. QED  BY <2>1, <2>2
<1>3. ReaderMove  BY <1>0, <1>1 DEF ReaderMove, Awake, serverVars
<1>4. ReaderPasses
  <2>1. \A t \in Threads : Answered(t) => Answered(t)'  BY <1>0 DEF Answered
  <2>. QED  BY <1>0, <1>1, <2>1 DEF ReaderPasses
<1>5. ASSUME NEW f \in FloorIDs  PROVE ReaderBelieves(f)
  <2>1. GrantRead(f) <=> GrantOf(m, f)  BY <1>0 DEF GrantRead
  <2>2. GrantRead(f)' => GrantOf(m, f)  BY <1>1 DEF GrantRead
  <2>3. ASSUME ReleaseRead(f)  PROVE ReleaseRead(f)'
    <3>1. IsRelease(m, f) /\ ~GrantIn(f)  BY <2>3 DEF ReleaseRead
    <3>2. reader'.at = "state" /\ reader'.msg = m
      BY <1>1, <3>1 DEF IsRelease
    <3>3. ~Entered(f)'  BY <1>2, <3>1
    <3>4. ~GrantIn(f)'  BY <1>0, <3>1 DEF GrantIn
    <3>. QED  BY <3>1, <3>2, <3>3, <3>4 DEF ReleaseRead
  <2>. QED  BY <1>0, <1>2, <2>1, <2>2, <2>3 DEF ReaderBelieves
<1>. QED  BY <1>3, <1>4, <1>5, ReaderCore

LEMMA ReaderSetStateCore ==
  ASSUME IInv, Core, ReaderSetState,
         UNCHANGED <<handling, setup, serverVars, mu, held, frame>>
  PROVE  Core'
<1>0. /\ reader.at = "state" /\ reader'.at = "callback" /\ reader'.msg = reader.msg
      /\ UNCHANGED <<call, lastTx, outbox, inbox, notified, requests, connected, chan>>
  <2>1. DOMAIN reader = {"at", "msg", "to"}
    BY DEF IInv, ClientSound, SoundReader, ReaderRecord
  <2>. QED  BY <2>1 DEF ReaderSetState, ReaderGoto, wireVars
<1>1. ReaderMove  BY <1>0 DEF ReaderMove, Awake, serverVars
<1>2. ReaderPasses
  <2>1. \A t \in Threads : Answered(t) => Answered(t)'  BY <1>0 DEF Answered
  <2>. QED  BY <1>0, <2>1 DEF ReaderPasses
<1>3. ASSUME NEW f \in FloorIDs  PROVE ReaderBelieves(f)
  <2>1. /\ (Entered(f)' <=> Entered(f)) /\ (GrantRead(f)' <=> GrantRead(f))
        /\ (GrantIn(f)' <=> GrantIn(f))
    BY <1>0 DEF Entered, GrantRead, GrantIn
  <2>2. ReleaseRead(f) => ReleaseRead(f)'  BY <1>0, <2>1 DEF ReleaseRead
  <2>. QED  BY <1>0, <2>1, <2>2 DEF ReaderBelieves
<1>. QED  BY <1>1, <1>2, <1>3, ReaderCore

LEMMA ReaderCallbackCore ==
  ASSUME IInv, Core, ReaderCallback, UNCHANGED <<handling, setup, serverVars>>,
         \/ ~setup.virtual /\ UNCHANGED virtualVars
         \/ setup.virtual /\ VReaderCallback
  PROVE  Core'
<1>. PICK m : m = reader.msg  OBVIOUS
<1>0. /\ reader.at = "callback" /\ m \in Sound /\ m # None
      /\ m.prim \in {"FloorRequestStatus", "FloorStatus"}
      /\ UNCHANGED <<call, lastTx, outbox, inbox, requests, connected, chan>>
      /\ notified \in [FloorIDs -> Statuses \cup {None}]
      /\ held \in [FloorIDs -> ReqIDs \cup {None}]
      /\ reader'.at = "read" /\ reader'.msg = None
  BY DEF ReaderCallback, ReadOn, IInv, ClientSound, VirtualSound, SoundReader, wireVars
<1>1. /\ UNCHANGED <<mu, frame>> /\ (setup.virtual => mu = None)
      /\ ~setup.virtual => held' = held
  BY DEF VReaderCallback, OnFloor, virtualVars
<1>2. ASSUME NEW f \in FloorIDs
      PROVE  /\ notified'[f] = "Granted" => notified[f] = "Granted" \/ GrantOf(m, f)
             /\ held'[f] # None => held[f] # None \/ GrantOf(m, f)
             /\ IsRelease(m, f) => notified'[f] # "Granted" /\ held'[f] = None
  <2>1. CASE m.prim = "FloorStatus"
    <3>1. notified' = notified /\ held' = held
      BY <2>1 DEF ReaderCallback, VReaderCallback, virtualVars
    <3>. QED  BY <2>1, <3>1 DEF IsRelease
  <2>2. CASE m.prim = "FloorRequestStatus"
    <3>1. m.floor \in FloorIDs  BY <1>0, <2>2 DEF Sound, WellFormed
    <3>2. notified' = [notified EXCEPT ![m.floor] = m.status]
      BY <2>2 DEF ReaderCallback
    <3>3. /\ f # m.floor => notified'[f] = notified[f]
          /\ f = m.floor => notified'[f] = m.status
      BY <1>0, <3>1, <3>2
    <3>4. CASE ~setup.virtual
      <4>1. held'[f] = None  BY <1>1, <3>4 DEF Core, LockInv
      <4>. QED  BY <1>0, <2>2, <3>3, <4>1 DEF GrantOf, IsGrant, IsRelease
    <3>5. CASE setup.virtual
      <4>1. OnFloor(m.status, m.floor, m.req)
        BY <2>2, <3>5 DEF VReaderCallback
      <4>2. /\ held'[f] # None => \/ held[f] # None
                                  \/ f = m.floor /\ m.status = "Granted"
            /\ f = m.floor /\ m.status = "Released" => held'[f] = None
        BY <1>0, <3>1, <4>1 DEF OnFloor
      <4>. QED  BY <1>0, <2>2, <3>3, <4>2 DEF GrantOf, IsGrant, IsRelease
    <3>. QED  BY <3>4, <3>5
  <2>. QED  BY <1>0, <2>1, <2>2
<1>3. ReaderMove  BY <1>0, <1>1 DEF ReaderMove, Awake, serverVars
<1>4. ReaderPasses
  <2>1. \A t \in Threads : Answered(t) => Answered(t)'  BY <1>0 DEF Answered
  <2>. QED  BY <1>0, <2>1 DEF ReaderPasses
<1>5. ASSUME NEW f \in FloorIDs  PROVE ReaderBelieves(f)
  <2>1. /\ Entered(f)' <=> Entered(f)
        /\ GrantRead(f) <=> GrantOf(m, f)
        /\ ~GrantRead(f)'
        /\ GrantIn(f)' <=> GrantIn(f)
    BY <1>0 DEF Entered, GrantRead, GrantIn
  <2>2. ASSUME ReleaseRead(f)  PROVE NoGrant(f)'
    <3>1. IsRelease(m, f) /\ ~GrantIn(f) /\ ~Entered(f)
      BY <1>0, <2>2 DEF ReleaseRead
    <3>. QED  BY <1>2, <2>1, <3>1 DEF NoGrant
  <2>. QED  BY <1>0, <1>2, <2>1, <2>2 DEF ReaderBelieves
<1>. QED  BY <1>3, <1>4, <1>5, ReaderCore

LEMMA ReaderRunsCore == ASSUME IInv, Core, ReaderRuns  PROVE Core'
<1>0. UNCHANGED <<handling, setup, serverVars>>  BY DEF ReaderRuns
<1>1. CASE ReaderStep /\ UNCHANGED virtualVars
  <2>1. UNCHANGED <<mu, held, frame>>  BY <1>1 DEF virtualVars
  <2>. QED
    BY <1>0, <1>1, <2>1, ReadMessageCore, DeliverCore, HandleMessageCore,
       ReaderSetStateCore, ReaderEnds
    DEF ReaderStep
<1>2. CASE ~setup.virtual /\ (ReaderCallback \/ OnClose) /\ UNCHANGED virtualVars
  <2>1. UNCHANGED <<mu, held, frame>>  BY <1>2 DEF virtualVars
  <2>. QED  BY <1>0, <1>2, <2>1, ReaderCallbackCore, ReaderEnds
<1>3. CASE setup.virtual /\ (VReaderCallback \/ VOnClose)
  <2>1. CASE VReaderCallback
    <3>1. ReaderCallback  BY <2>1 DEF VReaderCallback
    <3>. QED  BY <1>0, <1>3, <2>1, <3>1, ReaderCallbackCore
  <2>2. CASE VOnClose
    <3>1. OnClose /\ UNCHANGED <<mu, held, frame>>  BY <2>2 DEF VOnClose, tables
    <3>. QED  BY <1>0, <3>1, ReaderEnds
  <2>. QED  BY <1>3, <2>1, <2>2
<1>. QED  BY <1>1, <1>2, <1>3 DEF ReaderRuns, ReadLoop

-----------------------------------------------------------------------------
(***************************************************************************)
(* The server.                                                             *)
(***************************************************************************)

\* The server says m, or nothing.
Says(m) ==
  \/ m \in Sound /\ inbox' = Append(inbox, m)
  \/ m = None /\ inbox' = inbox

\* Where the handler of Me takes its message from.
ServerMove ==
  /\ UNCHANGED <<clientVars, virtualVars, setup>>
  /\ \/ outbox' = outbox /\ handling' \in {handling, None}
     \/ /\ outbox # <<>> /\ outbox' = Tail(outbox)
        /\ handling = None /\ handling' \in {None, Head(outbox)}
  /\ pc[Me] = "broadcast" => pc'[Me] = "broadcast" \/ handling' = None
  /\ HandlerInv'

\* What the server says about requests.
ServerAgrees(m) ==
  /\ IsError(m) => m.tx \in Over' /\ m.tx \notin Over
  /\ IsGrant(m) => m.tx \in Unclaimed /\ S!HolderIs(m.floor, User)'
  /\ pc'[Me] = "decide" =>
       /\ handling' = handling
       /\ pc[Me] = "decide" \/ (m # None /\ m.tx = handling.tx)
  /\ pc'[Me] = "granted" => handling'.tx \in Unclaimed

\* How the client's user loses f, and how the client is told.
ServerTells(m, f) ==
  /\ S!HolderIs(f, User) =>
       \/ S!HolderIs(f, User)'
       \/ pc'[Me] \in {"goodbye", "byeBroadcast"}
       \/ pc'[Me] = "released" /\ handling'.floor = f
  /\ pc[Me] \in {"goodbye", "byeBroadcast"} =>
       pc'[Me] \in {"goodbye", "byeBroadcast"}
  /\ pc[Me] = "released" /\ handling.floor = f =>
       \/ pc'[Me] = "released" /\ handling' = handling
       \/ IsRelease(m, f) /\ m.tx = handling.tx /\ m.tx \in Over'

LEMMA ServerCommon ==
  ASSUME IInv, Core, ServerMove
  PROVE  /\ TxInv' /\ Over \subseteq Over' /\ StartInv' /\ LockInv' /\ ResponseInv'
         /\ Unclaimed' = Unclaimed /\ (Blocked' <=> Blocked)
         /\ UNCHANGED <<call, lastTx, chan, reader, requests, notified, connected,
                        mu, held, frame, setup>>
         /\ \A t \in Threads : Registered(t)' <=> Registered(t)
<1>. USE DEF ServerMove
<1>0. UNCHANGED <<call, lastTx, chan, reader, requests, notified, connected,
                  mu, held, frame, setup>>
  BY DEF clientVars, virtualVars
<1>a. \A t \in Threads : Registered(t)' <=> Registered(t)
  BY <1>0 DEF Registered
<1>b. \A m : Underway(m)' <=> Underway(m)
  BY <1>0 DEF Underway, Asks, Request
<1>1. ASSUME outbox' = outbox, handling' \in {handling, None}
      PROVE  TxInv' /\ Over \subseteq Over'
  <2>1. TxInv'
    BY <1>0, <1>1, <1>b DEF Core, TxInv, Asks
  <2>2. Over \subseteq Over'
    BY <1>0, <1>1 DEF Over
  <2>. QED  BY <2>1, <2>2
<1>2. ASSUME outbox # <<>>, outbox' = Tail(outbox), handling = None,
             handling' \in {None, Head(outbox)}
      PROVE  TxInv' /\ Over \subseteq Over'
  <2>0. outbox \in Seq(Sound)  BY DEF IInv, WiresSound
  <2>1. /\ Contents(outbox) = Contents(outbox') \cup {Head(outbox)}
        /\ Distinct(outbox) => /\ Distinct(outbox')
                               /\ \A m \in Contents(outbox') : m.tx # Head(outbox).tx
    BY <1>2, <2>0, TailFacts
  <2>2. Distinct(outbox) /\ \A m \in Contents(outbox) : Underway(m)
    BY DEF Core, TxInv
  <2>3. /\ \A m \in Contents(outbox') : Underway(m)'
        /\ Distinct(outbox)'
        /\ handling' # None => /\ Underway(handling)'
                               /\ \A m \in Contents(outbox') : m.tx # handling'.tx
    <3>1. \A m \in Contents(outbox') : Underway(m)'  BY <1>b, <2>1, <2>2
    <3>2. Distinct(outbox)'  BY <2>1, <2>2 DEF Distinct
    <3>3. ASSUME handling' # None
          PROVE  Underway(handling)' /\ \A m \in Contents(outbox') : m.tx # handling'.tx
      <4>1. handling' = Head(outbox)  BY <1>2, <3>3
      <4>2. PICK h : h = handling'  OBVIOUS
      <4>3. Underway(h)'  BY <1>b, <2>1, <2>2, <4>1, <4>2
      <4>4. Underway(handling)'  BY <4>2, <4>3 DEF Underway
      <4>. QED  BY <2>1, <2>2, <4>1, <4>4
    <3>. QED  BY <3>1, <3>2, <3>3
  <2>4. Contents(outbox)' = Contents(outbox')  BY DEF Contents
  <2>5. TxInv'
    BY <1>0, <2>3, <2>4 DEF Core, TxInv, Asks
  <2>6. Over \subseteq Over'
    <3>. SUFFICES ASSUME NEW x \in Over  PROVE x \in Over'
      OBVIOUS
    <3>1. \A m \in Contents(outbox) : m.tx # x  BY DEF Over
    <3>2. handling' # None => handling'.tx # x  BY <1>2, <2>1, <3>1
    <3>. QED  BY <1>0, <2>1, <2>4, <3>1, <3>2 DEF Over
  <2>. QED  BY <2>5, <2>6
<1>3. StartInv'  BY <1>0 DEF Core, StartInv, Asks
<1>4. LockInv'
  <2>1. \A t \in Threads : LockOf(t)' <=> LockOf(t)  BY <1>0 DEF LockOf
  <2>. QED  BY <1>0, <2>1 DEF Core, LockInv
<1>5. ResponseInv'  BY <1>0, <1>a DEF Core, ResponseInv
<1>6. Unclaimed' = Unclaimed
  <2>1. \A t \in Threads : Stuck(t)' <=> Stuck(t)  BY <1>0 DEF Stuck
  <2>. QED  BY <1>0, <1>a, <2>1 DEF Unclaimed
<1>7. Blocked' <=> Blocked  BY <1>0 DEF Blocked
<1>. QED  BY <1>0, <1>a, <1>1, <1>2, <1>3, <1>4, <1>5, <1>6, <1>7

\* What the inbox holds afterwards.
LEMMA SaysFacts ==
  ASSUME IInv, NEW m, Says(m)
  PROVE  /\ \A n \in Contents(inbox) : n \in Contents(inbox')
         /\ \A n \in Contents(inbox') : n \in Contents(inbox) \/ (n = m /\ m # None)
         /\ m # None => m \in Contents(inbox')
         /\ \A f : /\ m # None => m \in Recent(inbox', f)
                   /\ ~GrantOf(m, f) => Recent(inbox, f) \subseteq Recent(inbox', f)
         /\ \A f : (GrantIn(f)' <=> GrantIn(f) \/ GrantOf(m, f))
<1>0. inbox \in Seq(Sound) /\ None \notin Sound
  BY NoneFacts DEF IInv, WiresSound
<1>1. CASE m \in Sound /\ inbox' = Append(inbox, m)
  <2>1. /\ Contents(inbox') = Contents(inbox) \cup {m}
        /\ \A f : /\ m \in Recent(inbox', f)
                  /\ ~GrantOf(m, f) => Recent(inbox, f) \subseteq Recent(inbox', f)
    BY <1>0, <1>1, AppendFacts
  <2>2. \A f : (GrantIn(f)' <=> GrantIn(f) \/ GrantOf(m, f))
    BY <2>1 DEF GrantIn
  <2>. QED  BY <1>0, <1>1, <2>1, <2>2
<1>2. CASE m = None /\ inbox' = inbox
  BY <1>2 DEF GrantIn, GrantOf, IsGrant
<1>. QED  BY <1>1, <1>2 DEF Says

LEMMA ServerClaims ==
  ASSUME IInv, Core, ServerMove, NEW m, Says(m), ServerAgrees(m), NEW f
  PROVE  Claimed(f) \subseteq Claimed(f)'
<1>. SUFFICES ASSUME NEW x \in Claimed(f)  PROVE x \in Claimed(f)'
  OBVIOUS
<1>0. /\ Over \subseteq Over' /\ (Blocked' <=> Blocked)
      /\ UNCHANGED <<call, chan, reader>>
      /\ \A t \in Threads : Registered(t)' <=> Registered(t)
  BY ServerCommon
<1>1. x \in Over  BY DEF Claimed
<1>2. \A n \in Contents(inbox') : IsError(n) => n.tx # x
  BY <1>1, SaysFacts DEF Claimed, ServerAgrees
<1>. QED  BY <1>0, <1>1, <1>2 DEF Claimed

LEMMA ServerAnswered ==
  ASSUME IInv, Core, ServerMove, NEW m, Says(m), ServerAgrees(m)
  PROVE  ErrorInv' /\ GrantInv'
<1>0. /\ Over \subseteq Over' /\ (Blocked' <=> Blocked) /\ Unclaimed' = Unclaimed
      /\ UNCHANGED <<call, chan, reader>>
      /\ \A t \in Threads : Registered(t)' <=> Registered(t)
  BY ServerCommon
<1>1. /\ \A n \in Contents(inbox) : n \in Contents(inbox')
      /\ \A n \in Contents(inbox') : n \in Contents(inbox) \/ (n = m /\ m # None)
      /\ m # None => m \in Contents(inbox')
  BY SaysFacts
<1>2. ErrorInv'
  <2>1. \A n \in Contents(inbox') : IsError(n) => n.tx \in Over'
    BY <1>0, <1>1 DEF Core, ErrorInv, ServerAgrees
  <2>. QED  BY <1>0, <2>1 DEF Core, ErrorInv
<1>3. GrantInv'
  <2>1. ASSUME pc'[Me] = "decide", NEW t \in Threads, Registered(t)',
               call'[t].tx = handling'.tx
        PROVE  Answered(t)'
    <3>1. Registered(t) /\ call[t].tx = handling.tx  BY <1>0, <2>1 DEF ServerAgrees
    <3>2. CASE pc[Me] = "decide"
      <4>1. Answered(t)  BY <3>1, <3>2 DEF Core, GrantInv
      <4>. QED  BY <1>0, <1>1, <4>1 DEF Answered
    <3>3. CASE m # None /\ m.tx = handling.tx
      BY <1>0, <1>1, <3>1, <3>3 DEF Answered
    <3>. QED  BY <2>1, <3>2, <3>3 DEF ServerAgrees
  <2>2. pc'[Me] = "granted" => handling'.tx \in Unclaimed'
    BY <1>0 DEF ServerAgrees
  <2>3. \A n \in Contents(inbox') : IsGrant(n) => n.tx \in Unclaimed'
    BY <1>0, <1>1 DEF Core, GrantInv, ServerAgrees
  <2>4. reader'.at = "deliver" => ~IsGrant(reader'.msg)
    BY <1>0 DEF Core, GrantInv
  <2>5. \A t \in Threads :
          /\ ~IsGrant(chan'[t]) /\ ~IsGrant(call'[t].resp)
          /\ call'[t].op = "RequestFloor" => call'[t].at # "callback"
          /\ call'[t].op = "ReleaseFloor" /\ call'[t].at = "got"
               /\ call'[t].resp = None => Blocked' \/ call'[t].tx \in Over'
    BY <1>0 DEF Core, GrantInv
  <2>. QED  BY <2>1, <2>2, <2>3, <2>4, <2>5 DEF GrantInv
<1>. QED  BY <1>2, <1>3

\* A release is answered to the call that asked for it, or to nobody.
LEMMA ReleaseIsClaimed ==
  ASSUME IInv, Core, ServerMove, NEW m, Says(m), ServerAgrees(m), NEW f,
         pc[Me] = "released", handling.floor = f, IsRelease(m, f),
         m.tx = handling.tx, m.tx \in Over'
  PROVE  m.tx \in Claimed(f)'
<1>0. /\ Over \subseteq Over' /\ (Blocked' <=> Blocked)
      /\ UNCHANGED <<call, chan, reader>>
      /\ \A t \in Threads : Registered(t)' <=> Registered(t)
  BY ServerCommon
<1>1. /\ handling # None /\ handling.prim = "FloorRelease" /\ Underway(handling)
  BY DEF IInv, HandlingSound, Core, TxInv
<1>2. m.tx \notin Over  BY <1>1 DEF Over
<1>3. ~IsError(m)  BY DEF IsRelease, IsError
<1>4. \A n \in Contents(inbox') : IsError(n) => n.tx # m.tx
  BY <1>2, <1>3, SaysFacts DEF Core, ErrorInv
<1>5. IsError(reader'.msg) => reader'.msg.tx # m.tx
  BY <1>0, <1>2 DEF Core, ErrorInv
<1>6. ASSUME NEW t \in Threads, Registered(t), call[t].tx = m.tx
      PROVE  /\ call[t].op = "ReleaseFloor" /\ call[t].floor = f
             /\ ~IsError(chan[t])
             /\ call[t].at = "got" =>
                  Blocked \/ (call[t].resp # None /\ ~IsError(call[t].resp))
  <2>1. Asks(t)  BY <1>6 DEF Registered, Asks
  <2>2. handling = Request(t)  BY <1>1, <1>6, <2>1 DEF Underway
  <2>3. call[t].op = "ReleaseFloor" /\ call[t].floor = f
    <3>1. call[t].op \in Waiting  BY <1>6 DEF Registered
    <3>. QED  BY <1>1, <2>2, <3>1 DEF Request, Waiting
  <2>4. ~IsError(chan[t])  BY <1>2, <1>6 DEF Core, ErrorInv
  <2>5. ASSUME call[t].at = "got", ~Blocked
        PROVE  call[t].resp # None /\ ~IsError(call[t].resp)
    <3>1. ~IsError(call[t].resp)  BY <1>2, <1>6, <2>5 DEF Core, ErrorInv
    <3>2. call[t].resp # None  BY <1>2, <1>6, <2>3, <2>5 DEF Core, GrantInv
    <3>. QED  BY <3>1, <3>2
  <2>. QED  BY <2>3, <2>4, <2>5
<1>. QED  BY <1>0, <1>4, <1>5, <1>6 DEF Claimed

LEMMA ServerCore ==
  ASSUME IInv, Core, ServerMove, NEW m, Says(m), ServerAgrees(m),
         \A f \in FloorIDs : ServerTells(m, f)
  PROVE  Core'
<1>0. UNCHANGED <<call, chan, reader, requests, notified, held>>
  BY ServerCommon
<1>1. ASSUME NEW f \in FloorIDs
      PROVE  (S!HolderIs(f, User) \/ NoGrant(f) \/ Leaving(f))'
  <2>0. ServerTells(m, f) /\ (S!HolderIs(f, User) \/ NoGrant(f) \/ Leaving(f))
    BY DEF Core, BeliefInv
  <2>1. CASE S!HolderIs(f, User)  BY <2>0, <2>1 DEF ServerTells, Leaving
  <2>2. CASE GrantOf(m, f)
    BY <2>2 DEF ServerAgrees, GrantOf
  <2>3. CASE pc[Me] \in {"goodbye", "byeBroadcast"}
    BY <2>0, <2>3 DEF ServerTells, Leaving
  <2>4. CASE pc[Me] = "released" /\ handling.floor = f
    <3>1. CASE pc'[Me] = "released" /\ handling' = handling
      BY <2>4, <3>1 DEF Leaving
    <3>2. CASE IsRelease(m, f) /\ m.tx = handling.tx /\ m.tx \in Over'
      <4>1. m.tx \in Claimed(f)'  BY <2>4, <3>2, ReleaseIsClaimed
      <4>2. m \in Recent(inbox', f)  BY <3>2, SaysFacts DEF IsRelease
      <4>3. ReleaseIn(f)'  BY <3>2, <4>1, <4>2 DEF ReleaseIn
      <4>. QED  BY <4>3 DEF Leaving
    <3>. QED  BY <2>0, <2>4, <3>1, <3>2 DEF ServerTells
  <2>5. ASSUME ~GrantOf(m, f), NoGrant(f) \/ ReleaseIn(f) \/ ReleaseRead(f)
                               \/ ReleaseTaken(f)
        PROVE  (NoGrant(f) \/ Leaving(f))'
    <3>1. /\ Claimed(f) \subseteq Claimed(f)'
          /\ Recent(inbox, f) \subseteq Recent(inbox', f)
          /\ GrantIn(f)' <=> GrantIn(f)
      BY <2>5, ServerClaims, SaysFacts
    <3>2. (Entered(f)' <=> Entered(f)) /\ (GrantRead(f)' <=> GrantRead(f))
      BY <1>0 DEF Entered, GrantRead
    <3>3. NoGrant(f) => NoGrant(f)'  BY <1>0, <3>1, <3>2 DEF NoGrant
    <3>4. ReleaseIn(f) => ReleaseIn(f)'  BY <3>1 DEF ReleaseIn
    <3>5. ReleaseRead(f) => ReleaseRead(f)'  BY <1>0, <3>1, <3>2 DEF ReleaseRead
    <3>6. ReleaseTaken(f) => ReleaseTaken(f)'
      BY <1>0, <3>1, <3>2 DEF ReleaseTaken, Clearing
    <3>. QED  BY <2>5, <3>3, <3>4, <3>5, <3>6 DEF Leaving
  <2>. QED  BY <2>0, <2>1, <2>2, <2>3, <2>4, <2>5 DEF Leaving
<1>2. BeliefInv'  BY <1>1 DEF BeliefInv
<1>3. HandlerInv'  BY DEF ServerMove
<1>. QED  BY <1>2, <1>3, ServerCommon, ServerAnswered DEF Core

\* A write reaches the client while the connection is there.
LEMMA ServerWrites ==
  ASSUME NEW m \in Sound, Write(m)
  PROVE  /\ outbox' = outbox
         /\ Says(m) \/ Says(None)
         /\ conn[Me] = "open" /\ link = "up" => Says(m)
BY DEF Write, Says

LEMMA HandlerConnected ==
  ASSUME IInv, ServerFacts, ConnInv, ~Gone, pc[Me] # "read"
  PROVE  conn[Me] = "open" /\ link = "up"
<1>1. conn[Me] \in {"none", "open", "lost", "closed"}
  BY ClientServerAssumption DEF ServerFacts, P!TypeOK
<1>. QED  BY <1>1 DEF ServerFacts, ConnInv, Gone

\* A step that does not move the handler of Me.
LEMMA BystanderCore ==
  ASSUME IInv, Core, UNCHANGED <<clientVars, virtualVars, setup>>,
         handling' = handling, outbox' = outbox,
         pc'[Me] = pc[Me], job'[Me] = job[Me],
         \A f \in FloorIDs : S!HolderIs(f, User) => S!HolderIs(f, User)',
         pc[Me] \in {"release", "released"} =>
           floors'[handling.floor] = floors[handling.floor],
         NEW m, Says(m), ~IsError(m), ~IsGrant(m)
  PROVE  Core'
<1>1. HandlerInv'  BY DEF Core, HandlerInv
<1>2. ServerMove  BY <1>1 DEF ServerMove
<1>3. ServerAgrees(m)
  BY DEF ServerAgrees, Core, GrantInv
<1>4. \A f \in FloorIDs : ServerTells(m, f)  BY DEF ServerTells
<1>. QED  BY <1>2, <1>3, <1>4, ServerCore

LEMMA PeerCore ==
  ASSUME S!OneConnectionPerUser, IInv, P!IInv, Core, NEW c \in setup.peers, Peer(c)
  PROVE  Core'
<1>0. /\ Me \in Conns /\ c \in Conns /\ c # Me
      /\ P!FloorInv /\ P!TypeOK /\ P!ClientInv(c) /\ P!ClientInv(Me)
      /\ P!OneConnectionPerUser
  BY ClientServerAssumption, SameUsers DEF IInv, AllSetups, P!IInv, P!FloorInv
<1>1. P!StepOf(c)
  <2>1. S!Dispatch(c) \/ S!HandlerStep(c) \/ S!ConnectionStep(c)
    <3>1. setup.decisions \subseteq Decisions  BY DEF IInv, AllSetups
    <3>. QED  BY <3>1, ClientServerAssumption DEF Peer, OtherHandles,
              S!HandlerStep, S!Dispatch, S!ConnectionStep
  <2>. QED  BY <2>1, SameStep
<1>2. P!Apart(Me)
  BY <1>0, <1>1, ServerConstants, P!StepApart DEF P!ConstantsAssumption
<1>3. P!FloorsKept(Me)
  BY <1>0, <1>1, ServerConstants, P!StepKeepsFloors DEF P!ConstantsAssumption
<1>4. \A f \in FloorIDs : P!HolderIs(f, UserOf[Me])' <=> P!HolderIs(f, UserOf[Me])
  BY <1>0, <1>3, ServerConstants, P!KeptFloors DEF P!ConstantsAssumption
<1>5. \A f \in FloorIDs : S!HolderIs(f, User) => S!HolderIs(f, User)'
  BY <1>4 DEF P!HolderIs, S!HolderIs, User
<1>6. pc[Me] \in {"release", "released"} =>
        floors'[handling.floor] = floors[handling.floor]
  <2>. SUFFICES ASSUME pc[Me] \in {"release", "released"}
                PROVE  floors'[handling.floor] = floors[handling.floor]
    OBVIOUS
  <2>1. handling \in Sound /\ handling.prim = "FloorRelease"
    BY DEF IInv, HandlingSound
  <2>2. handling.floor \in FloorIDs  BY <2>1 DEF Sound, WellFormed
  <2>3. job[Me].floor = floors[handling.floor]  BY DEF Core, HandlerInv
  <2>4. job[Me].floor # Nil
    BY <1>0 DEF P!ClientInv, P!PointersOf, P!FloorLabels
  <2>. QED  BY <1>3, <2>2, <2>3, <2>4 DEF P!FloorsKept
<1>7. outbox' = outbox /\ \E m : Says(m) /\ ~IsError(m) /\ ~IsGrant(m)
  <2>0. ~IsError(None) /\ ~IsGrant(None)  BY DEF IsError, IsGrant
  <2>1. CASE UNCHANGED wireVars
    BY <2>0, <2>1 DEF wireVars, Says
  <2>2. ASSUME S!SendBroadcast(c), NEW r \in S!RequestIDs,
               Announce("FloorRequestStatus", S!Fid(c), r, "Released")
        PROVE  outbox' = outbox /\ \E m : Says(m) /\ ~IsError(m) /\ ~IsGrant(m)
    <3>. DEFINE m == [prim |-> "FloorRequestStatus",
                      tx |-> IF setup.collide THEN S!NextID ELSE 0,
                      floor |-> S!Fid(c), req |-> r, status |-> "Released"]
    <3>1. pc[c] \in P!FloorLabels  BY <2>2 DEF S!SendBroadcast, P!FloorLabels
    <3>2. S!Fid(c) \in FloorIDs /\ r \in ReqIDs /\ S!NextID \in Nat
      BY <1>0, <3>1, ServerFields, SameIDs DEF IInv
    <3>3. m \in Sound
      BY <3>2 DEF Sound, WellFormed, Message, Statuses
    <3>4. Write(m)  BY <2>2 DEF Announce
    <3>5. ~IsError(m) /\ ~IsGrant(m)  BY DEF IsError, IsGrant
    <3>. HIDE DEF m
    <3>. QED  BY <2>0, <3>3, <3>4, <3>5, ServerWrites
  <2>. QED  BY <2>1, <2>2 DEF Peer, OtherHandles
<1>8. UNCHANGED <<clientVars, virtualVars, setup>> /\ handling' = handling
  BY DEF Peer
<1>9. pc'[Me] = pc[Me] /\ job'[Me] = job[Me]  BY <1>2 DEF P!Apart
<1>. QED  BY <1>5, <1>6, <1>7, <1>8, <1>9, BystanderCore

LEMMA ConnectionCore ==
  ASSUME IInv, Core, Keepalive \/ Accepted,
         UNCHANGED <<clientVars, virtualVars, handling, setup>>
  PROVE  Core'
<1>0. Me \in Conns  BY ClientServerAssumption
<1>1. UNCHANGED <<pc, job, floors, fsm>>
  BY DEF Keepalive, Accepted, S!Keepalive, S!Accept
<1>2. \A f \in FloorIDs : S!HolderIs(f, User) => S!HolderIs(f, User)'
  BY <1>1 DEF S!HolderIs, User
<1>3. outbox' = outbox /\ \E m : Says(m) /\ ~IsError(m) /\ ~IsGrant(m)
  <2>0. ~IsError(None) /\ ~IsGrant(None)  BY DEF IsError, IsGrant
  <2>1. CASE Accepted
    BY <2>0, <2>1 DEF Accepted, wireVars, Says
  <2>2. CASE Keepalive
    <3>. DEFINE m == [prim |-> "Hello",
                      tx |-> IF setup.collide THEN S!NextID ELSE 0,
                      floor |-> None, req |-> None, status |-> None]
    <3>1. S!NextID \in Nat  BY <1>0, ServerFields DEF IInv
    <3>2. m \in Sound  BY <3>1 DEF Sound, WellFormed, Message
    <3>3. Write(m)  BY <2>2 DEF Keepalive, Announce
    <3>4. ~IsError(m) /\ ~IsGrant(m)  BY DEF IsError, IsGrant
    <3>. HIDE DEF m
    <3>. QED  BY <2>0, <3>2, <3>3, <3>4, ServerWrites
  <2>. QED  BY <2>1, <2>2
<1>. QED  BY <1>1, <1>2, <1>3, BystanderCore

\* The handler of Me takes up a message.
LEMMA ServerReadsCore ==
  ASSUME IInv, Core, ServerReads, UNCHANGED <<clientVars, virtualVars, setup>>
  PROVE  Core'
<1>0. /\ Me \in Conns /\ P!TypeOK /\ pc \in [Conns -> P!Labels]
      /\ job \in [Conns -> P!Jobs] /\ outbox \in Seq(Sound)
  BY ClientServerAssumption
  DEF IInv, WiresSound, ServerSound, P!FloorInv, P!TypeOK
<1>1. PICK m \in {Head(outbox) : i \in 1 .. Len(outbox)} :
        /\ Take(m)
        /\ \/ m.prim = "FloorRequest" /\ \E g \in setup.decisions :
                                           S!HandleFloorRequest(Me, m.floor, g)
           \/ m.prim = "FloorRelease" /\ S!ReleaseByFloorID(Me, m.floor)
           \/ m.prim = "FloorQuery" /\ S!HandleFloorQuery(Me, m.floor)
           \/ m.prim = "Goodbye" /\ S!HandleGoodbye(Me)
  BY DEF ServerReads
<1>2. /\ outbox # <<>> /\ m = Head(outbox) /\ outbox' = Tail(outbox)
      /\ handling' = m /\ inbox' = inbox
  BY <1>1 DEF Take
<1>3. m \in Sound /\ None \notin Sound  BY <1>0, <1>2, TailFacts, NoneFacts
<1>4. /\ pc[Me] = "read"
      /\ \/ m.prim = "FloorRequest" /\ pc'[Me] = "request"
         \/ /\ m.prim = "FloorRelease" /\ pc'[Me] = "release"
            /\ job'[Me].floor = floors[m.floor] /\ floors' = floors
         \/ m.prim = "FloorQuery" /\ pc'[Me] = "query"
         \/ m.prim = "Goodbye" /\ pc'[Me] = "goodbye"
  BY <1>0, <1>1 DEF S!HandleFloorRequest, S!ReleaseByFloorID,
     S!HandleFloorQuery, S!HandleGoodbye, S!StartRelease, S!Goto, S!Reading,
     S!floorVars, S!NoJob
<1>5. P!Quiet
  <2>1. CASE UNCHANGED <<floors, fsm>>  BY <2>1 DEF P!Quiet
  <2>2. ASSUME m.prim = "FloorRequest", NEW g \in setup.decisions,
               S!HandleFloorRequest(Me, m.floor, g)
        PROVE  P!Quiet
    <3>1. m.floor \in FloorIDs  BY <1>3, <2>2 DEF Sound, WellFormed
    <3>2. CASE UNCHANGED S!floorVars  BY <2>1, <3>2 DEF S!floorVars
    <3>3. ASSUME NEW o \in Cells, S!NewFloor(m.floor, o)  PROVE P!Quiet
      <4>1. P!NewFloor(m.floor, o)
        BY <3>3 DEF S!NewFloor, P!NewFloor, S!Fresh, P!Fresh,
           S!NewFloorStateMachine, P!NewFloorStateMachine, S!NoUser, P!NoUser
      <4>. QED
        BY <1>0, <3>1, <4>1, ServerConstants, P!NewFloorIsQuiet
        DEF P!ConstantsAssumption
    <3>. QED  BY <2>2, <3>2, <3>3 DEF S!HandleFloorRequest
  <2>. QED
    BY <1>1, <2>1, <2>2 DEF S!ReleaseByFloorID, S!HandleFloorQuery,
       S!HandleGoodbye, S!floorVars
<1>6. \A f \in FloorIDs : S!HolderIs(f, User) => S!HolderIs(f, User)'
  BY <1>5 DEF P!Quiet, S!HolderIs, User
<1>7. HandlerInv'  BY <1>2, <1>4 DEF HandlerInv
<1>8. ServerMove
  BY <1>2, <1>4, <1>7 DEF ServerMove, Core, HandlerInv
<1>9. Says(None)  BY <1>2 DEF Says
<1>10. ServerAgrees(None)
  BY <1>4 DEF ServerAgrees, IsError, IsGrant
<1>11. \A f \in FloorIDs : ServerTells(None, f)
  BY <1>4, <1>6 DEF ServerTells
<1>. QED  BY <1>8, <1>9, <1>10, <1>11, ServerCore

LEMMA ServerAnswersCore ==
  ASSUME IInv, Core, ServerAnswers, UNCHANGED <<clientVars, virtualVars, setup>>
  PROVE  Core'
<1>. PICK h : h = Head(outbox)  OBVIOUS
<1>0. /\ Me \in Conns /\ outbox \in Seq(Sound) /\ outbox # <<>>
      /\ outbox' = Tail(outbox) /\ handling' = handling
      /\ pc[Me] = "read" /\ lastTx \in Nat
      /\ call \in [Threads -> SoundCall]
  BY ClientServerAssumption
  DEF IInv, WiresSound, ClientSound, ServerAnswers, S!Reading
<1>1. PICK prim \in {"HelloAck", "Error"} : inbox' = Append(inbox,
        [prim |-> prim, tx |-> h.tx, floor |-> None, req |-> None, status |-> None])
  BY DEF ServerAnswers
<1>2. UNCHANGED <<pc, job, floors, fsm>>
  BY DEF ServerAnswers, S!Hello, serverVars
<1>3. /\ h \in Sound /\ Contents(outbox) = Contents(outbox') \cup {h}
      /\ Distinct(outbox) => \A n \in Contents(outbox') : n.tx # h.tx
  BY <1>0, TailFacts
<1>. DEFINE m == [prim |-> prim, tx |-> h.tx, floor |-> None, req |-> None,
                  status |-> None]
<1>4. m \in Sound /\ m.tx = h.tx /\ ~IsGrant(m)
  BY <1>1, <1>3 DEF Sound, WellFormed, Message, IsGrant
<1>5. Says(m)  BY <1>1, <1>4 DEF Says
<1>. HIDE DEF m
<1>6. handling = None  BY <1>0 DEF Core, HandlerInv
<1>7. HandlerInv'  BY <1>0, <1>2 DEF Core, HandlerInv
<1>8. ServerMove
  BY <1>0, <1>2, <1>6, <1>7 DEF ServerMove
<1>9. m.tx \in Over' /\ m.tx \notin Over
  <2>1. h.tx \notin Over  BY <1>3 DEF Over
  <2>2. Underway(h) /\ \A n \in Contents(outbox') : n.tx # h.tx
    BY <1>3 DEF Core, TxInv
  <2>3. h.tx \in 0 .. lastTx
    <3>1. h.tx \in Nat  BY <1>3 DEF Sound, Message
    <3>. QED  BY <1>0, <2>2, <3>1 DEF Underway
  <2>4. \A t \in Threads : call[t].at = "send" => call[t].tx # h.tx
    <3>1. \A t \in Threads : call[t].at = "send" => Asks(t)
      BY <1>0 DEF SoundCall, Asks
    <3>. QED  BY <2>2, <3>1 DEF Underway
  <2>5. lastTx' = lastTx /\ call' = call  BY DEF clientVars
  <2>6. h.tx \in Over'
    BY <1>0, <1>6, <2>2, <2>3, <2>4, <2>5 DEF Over
  <2>. QED  BY <1>4, <2>1, <2>6
<1>10. ServerAgrees(m)
  BY <1>0, <1>2, <1>4, <1>9 DEF ServerAgrees
<1>11. \A f \in FloorIDs : ServerTells(m, f)
  BY <1>0, <1>2 DEF ServerTells, S!HolderIs, User
<1>. QED  BY <1>5, <1>8, <1>10, <1>11, ServerCore

\* The labels the handler of Me goes through.
HandlerGoes ==
  /\ pc[Me] \notin {"read", "fallback"} /\ pc'[Me] # "request"
  /\ pc'[Me] = "pending" => pc[Me] = "request"
  /\ pc'[Me] = "decide" => pc[Me] = "pending"
  /\ pc'[Me] \in {"granted", "denied"} => pc[Me] = "decide"
  /\ pc'[Me] \in {"release", "released"} =>
       /\ pc[Me] = "release" /\ pc'[Me] = "released"
       /\ job'[Me].floor = job[Me].floor /\ floors' = floors
  /\ pc[Me] = "released" => pc'[Me] = "broadcast"
  /\ pc[Me] = "broadcast" => pc'[Me] \in {"broadcast", "read"}
  /\ pc'[Me] \in {"goodbye", "byeBroadcast"} <=> pc[Me] \in {"goodbye", "byeBroadcast"}

LEMMA HandlerGoesOn ==
  ASSUME IInv, ServerHandles, ~S!GoodbyeEnd(Me)
  PROVE  HandlerGoes
<1>0. /\ Me \in Conns /\ pc \in [Conns -> P!Labels] /\ job \in [Conns -> P!Jobs]
  BY ClientServerAssumption DEF IInv, ServerSound, P!FloorInv, P!TypeOK
<1>. USE <1>0 DEF HandlerGoes, S!Goto, S!Return
<1>1. CASE S!FloorRequest(Me) \/ S!SendPending(Me) \/ S!Decide(Me)
  BY <1>1 DEF S!FloorRequest, S!SendPending, S!Decide
<1>2. CASE S!TellGranted(Me) \/ S!TellDenied(Me) \/ S!AnswerQuery(Me)
  BY <1>2 DEF S!TellGranted, S!TellDenied, S!AnswerQuery
<1>3. CASE S!FloorRelease(Me)  BY <1>3 DEF S!FloorRelease
<1>4. CASE S!TellReleased(Me) \/ S!SendBroadcast(Me) \/ S!ReleaseDone(Me)
  BY <1>4 DEF S!TellReleased, S!SendBroadcast, S!ReleaseDone
<1>5. CASE S!GoodbyeRelease(Me) \/ S!GoodbyeNotify(Me)
  BY <1>5 DEF S!GoodbyeRelease, S!GoodbyeNotify
<1>. QED  BY <1>1, <1>2, <1>3, <1>4, <1>5 DEF ServerHandles

LEMMA HandlerMoves ==
  ASSUME IInv, Core, ServerHandles, ~S!GoodbyeEnd(Me),
         UNCHANGED <<clientVars, virtualVars, setup>>
  PROVE  ServerMove
<1>1. HandlerGoes  BY HandlerGoesOn
<1>2. outbox' = outbox
  BY DEF ServerHandles, Reply, ErrorOrNothing, Write, wireVars
<1>3. handling' = IF pc'[Me] = "read" THEN None ELSE handling
  BY DEF ServerHandles
<1>4. HandlerInv'
  BY <1>1, <1>3 DEF HandlerGoes, Core, HandlerInv
<1>. QED  BY <1>1, <1>2, <1>3, <1>4 DEF ServerMove, HandlerGoes

\* The handler of c releases a floor.
GivesUp(c) ==
  /\ pc[c] \in {"release", "goodbye"}
  /\ pc'[c] \in {"released", "byeBroadcast"}

\* The user keeps the floors it has while its handler gives none up.
LEMMA HandlerKeepsFloors ==
  ASSUME IInv, S!HandlerStep(Me), ~GivesUp(Me), NEW f \in FloorIDs,
         S!HolderIs(f, User)
  PROVE  S!HolderIs(f, User)'
<1>0. Me \in Conns /\ P!TypeOK  BY ClientServerAssumption
  DEF IInv, ServerSound, P!FloorInv
<1>1. P!StepOf(Me)  BY SameStep
<1>2. floors[f] \in Cells /\ fsm[floors[f]].state = "Granted"
  BY <1>0 DEF P!TypeOK, S!HolderIs
<1>3. CASE P!HandlerStep(Me)
  <2>1. P!HandlerEffect(Me)
    BY <1>0, <1>3, ServerConstants, P!HandlerEffects DEF P!ConstantsAssumption
  <2>2. ~P!MayChange(Me, floors[f])
    BY <1>2 DEF P!MayChange, P!Releases, GivesUp
  <2>3. floors' = floors /\ fsm'[floors[f]] = fsm[floors[f]]
    BY <1>2, <2>1, <2>2 DEF P!HandlerEffect
  <2>. QED  BY <2>3 DEF S!HolderIs, User
<1>4. pc[Me] # "read"
  BY <1>0, HandlerLabels DEF P!TypeOK
<1>5. CASE P!Dispatch(Me)
  BY <1>4, <1>5 DEF P!Dispatch, P!Hello, P!HandleFloorRequest,
     P!ReleaseByFloorID, P!ReleaseByRequestID, P!HandleFloorQuery,
     P!HandleGoodbye, P!Reading
<1>6. CASE P!ConnectionStep(Me)
  BY <1>6 DEF P!ConnectionStep, P!Accept, P!PeerLost, P!ReadExit,
     P!Keepalive, S!HolderIs, User
<1>. QED  BY <1>1, <1>3, <1>5, <1>6 DEF P!StepOf

\* The request is decided with this step.
LEMMA HandlingOver ==
  ASSUME IInv, Core, pc[Me] \notin {"read", "broadcast"},
         UNCHANGED <<clientVars, virtualVars, setup>>, outbox' = outbox,
         handling' = None \/ (pc'[Me] = "broadcast" /\ handling' = handling)
  PROVE  handling.tx \in Over' /\ handling.tx \notin Over
<1>0. /\ handling # None /\ handling \in Sound /\ lastTx \in Nat
      /\ call \in [Threads -> SoundCall]
  BY DEF IInv, HandlingSound, ClientSound
<1>1. Underway(handling) /\ \A n \in Contents(outbox) : n.tx # handling.tx
  BY <1>0 DEF Core, TxInv
<1>2. handling.tx \in 0 .. lastTx
  <2>1. handling.tx \in Nat  BY <1>0 DEF Sound, Message
  <2>. QED  BY <1>0, <1>1, <2>1 DEF Underway
<1>3. \A t \in Threads : call[t].at = "send" => call[t].tx # handling.tx
  <2>1. \A t \in Threads : call[t].at = "send" => Asks(t)
    BY <1>0 DEF SoundCall, Asks
  <2>. QED  BY <1>1, <2>1 DEF Underway
<1>4. lastTx' = lastTx /\ call' = call  BY DEF clientVars
<1>5. handling.tx \in Over'
  BY <1>1, <1>2, <1>3, <1>4 DEF Over
<1>. QED  BY <1>0, <1>5 DEF Over

\* When the pause before Grant is over, nobody waits for the answer who could
\* still get it.
LEMMA PauseSuffices ==
  ASSUME IInv, Core, Resting, pc[Me] = "decide"
  PROVE  handling.tx \in Unclaimed
<1>0. /\ handling # None /\ handling \in Sound /\ lastTx \in Nat
      /\ handling.prim = "FloorRequest" /\ Underway(handling)
  BY DEF IInv, HandlingSound, ClientSound, Core, HandlerInv, TxInv
<1>1. handling.tx \in 0 .. lastTx
  <2>1. handling.tx \in Nat  BY <1>0 DEF Sound, Message
  <2>. QED  BY <1>0, <2>1 DEF Underway
<1>2. ASSUME NEW t \in Threads, Registered(t), call[t].tx = handling.tx
      PROVE  Stuck(t)
  <2>1. Answered(t)  BY <1>2 DEF Core, GrantInv
  <2>2. call[t].at = "wait" /\ chan[t] = None
    BY <1>2 DEF Resting, Rests, Registered, Idle
  <2>3. Asks(t)  BY <1>2 DEF Registered, Asks
  <2>4. call[t].op = "RequestFloor"
    <3>1. handling = Request(t)  BY <1>0, <1>2, <2>3 DEF Underway
    <3>2. call[t].op \in Waiting  BY <1>2 DEF Registered
    <3>. QED  BY <1>0, <3>1, <3>2 DEF Request, Waiting
  <2>5. CASE reader.at = "read" /\ inbox = <<>>
    BY <2>1, <2>2, <2>5, EmptyFacts DEF Answered
  <2>6. CASE reader.at = "callback" /\ setup.virtual /\ mu # None
    BY <2>4, <2>6 DEF Core, LockInv, LockOf, Stuck
  <2>7. CASE reader.at \in {"off", "done"}
    BY <2>3, <2>7 DEF Core, StartInv, Stuck
  <2>. QED  BY <2>5, <2>6, <2>7 DEF Resting
<1>. QED  BY <1>1, <1>2 DEF Unclaimed

\* The handler of Me goes on.
LEMMA ServerHandlesCore ==
  ASSUME IInv, P!IInv, ServerFacts, ConnInv, Timely, Core, ServerHandles,
         ~S!GoodbyeEnd(Me), UNCHANGED <<clientVars, virtualVars, setup>>
  PROVE  Core'
<1>0. /\ Me \in Conns /\ pc \in [Conns -> P!Labels] /\ job \in [Conns -> P!Jobs]
      /\ P!FloorInv /\ P!MapIsFaithful /\ P!ClientInv(Me)
      /\ floors \in [FloorIDs -> Cells \cup {Nil}]
      /\ fsm \in [Cells -> P!Floors]
  BY ClientServerAssumption
  DEF IInv, ServerSound, P!IInv, P!FloorInv, P!TypeOK
<1>1. HandlerGoes /\ ServerMove  BY HandlerGoesOn, HandlerMoves
<1>2. S!HandlerStep(Me)  BY DEF ServerHandles, S!HandlerStep
<1>3. /\ handling' = IF pc'[Me] = "read" THEN None ELSE handling
      /\ outbox' = outbox
  BY DEF ServerHandles, Reply, ErrorOrNothing, Write, wireVars
<1>4. /\ conn[Me] = "open" /\ link = "up"
      /\ handling \in Sound /\ handling # None /\ handling.tx \in Nat
  <2>1. pc[Me] # "read"  BY <1>1 DEF HandlerGoes
  <2>2. conn[Me] = "open" /\ link = "up"
    BY <2>1, HandlerConnected DEF Timely
  <2>3. handling \in Sound /\ handling # None
    BY <2>1 DEF IInv, HandlingSound
  <2>. QED  BY <2>2, <2>3 DEF Sound, Message
<1>5. ~IsError(None) /\ ~IsGrant(None)  BY DEF IsError, IsGrant
<1>6. pc[Me] \in P!FloorLabels => S!Fid(Me) \in FloorIDs
  BY <1>0, ServerFields DEF IInv
<1>7. job[Me].req \in ReqIDs  BY <1>0, ServerFields DEF IInv
\* The handlers' messages.
<1>8. ASSUME NEW prim \in {"FloorRequestStatus", "FloorStatus", "Error"},
             NEW f \in FloorIDs \cup {None}, NEW r \in ReqIDs \cup {None},
             NEW st \in Statuses \cup {None},
             prim = "FloorRequestStatus" =>
               f \in FloorIDs /\ r \in ReqIDs /\ st \in Statuses,
             Reply(prim, f, r, st)
      PROVE  \E m \in Sound : /\ Says(m) /\ m.tx = handling.tx /\ m.prim = prim
                              /\ m.floor = f /\ m.status = st
  <2>. DEFINE m == [prim |-> prim, tx |-> handling.tx, floor |-> f, req |-> r,
                    status |-> st]
  <2>1. m \in Sound  BY <1>4, <1>8 DEF Sound, WellFormed, Message
  <2>2. Write(m)  BY <1>8 DEF Reply
  <2>3. /\ m.tx = handling.tx /\ m.prim = prim /\ m.floor = f /\ m.status = st
    OBVIOUS
  <2>. HIDE DEF m
  <2>4. Says(m)  BY <1>4, <2>1, <2>2, ServerWrites
  <2>. QED  BY <2>1, <2>3, <2>4
\* A step that gives no floor up and has no release to tell.
<1>9. ASSUME NEW m, Says(m), ServerAgrees(m), ~GivesUp(Me), pc[Me] # "released"
      PROVE  Core'
  <2>1. ASSUME NEW f \in FloorIDs  PROVE ServerTells(m, f)
    <3>1. S!HolderIs(f, User) => S!HolderIs(f, User)'
      BY <1>2, <1>9, HandlerKeepsFloors
    <3>. QED  BY <1>1, <1>9, <3>1 DEF ServerTells, HandlerGoes
  <2>. QED  BY <1>1, <1>9, <2>1, ServerCore
\* An Error, and nothing said.
<1>10. ASSUME Reply("Error", None, None, None), pc'[Me] = "read",
              pc[Me] \in {"request", "release"}
       PROVE  Core'
  <2>1. PICK m \in Sound : Says(m) /\ m.tx = handling.tx /\ m.prim = "Error"
    BY <1>8, <1>10
  <2>2. handling.tx \in Over' /\ handling.tx \notin Over
    BY <1>3, <1>10, HandlingOver
  <2>3. ServerAgrees(m)
    BY <1>10, <2>1, <2>2 DEF ServerAgrees, IsGrant
  <2>. QED  BY <1>9, <1>10, <2>1, <2>3 DEF GivesUp
<1>11. ASSUME UNCHANGED wireVars, pc'[Me] \notin {"decide", "granted"}
       PROVE  Says(None) /\ ServerAgrees(None)
  BY <1>5, <1>11 DEF Says, wireVars, ServerAgrees
<1>12. CASE S!FloorRequest(Me) /\ ErrorOrNothing
  <2>1. pc[Me] = "request" /\ pc'[Me] \in {"pending", "read"}
    BY <1>0, <1>12 DEF S!FloorRequest, S!Goto, S!Return
  <2>2. CASE pc'[Me] = "read"  BY <1>10, <1>12, <2>1, <2>2 DEF ErrorOrNothing
  <2>3. CASE pc'[Me] = "pending"
    BY <1>9, <1>11, <1>12, <2>1, <2>3 DEF ErrorOrNothing, GivesUp
  <2>. QED  BY <2>1, <2>2, <2>3
<1>13. CASE S!SendPending(Me)
            /\ Reply("FloorRequestStatus", S!Fid(Me), job[Me].req, "Pending")
  <2>1. pc[Me] = "pending" /\ pc'[Me] = "decide" /\ pc[Me] \in P!FloorLabels
    BY <1>0, <1>13 DEF S!SendPending, S!Goto, P!FloorLabels
  <2>2. PICK m \in Sound : /\ Says(m) /\ m.tx = handling.tx
                           /\ m.prim = "FloorRequestStatus" /\ m.status = "Pending"
    BY <1>6, <1>7, <1>8, <1>13, <2>1 DEF Statuses
  <2>3. ServerAgrees(m)
    BY <1>3, <2>1, <2>2, NoneFacts DEF ServerAgrees, IsError, IsGrant
  <2>. QED  BY <1>9, <2>1, <2>2, <2>3 DEF GivesUp
<1>14. CASE S!Decide(Me) /\ PauseOver(Me) /\ UNCHANGED wireVars
  <2>1. /\ pc[Me] = "decide" /\ pc'[Me] \in {"granted", "denied", "read"}
        /\ pc'[Me] = "granted" => job[Me].grant
    BY <1>0, <1>14 DEF S!Decide, S!Goto, S!Return
  <2>2. CASE pc'[Me] = "granted"
    <3>1. Resting  BY <1>14, <2>1, <2>2 DEF PauseOver, Timely
    <3>2. handling.tx \in Unclaimed  BY <2>1, <3>1, PauseSuffices
    <3>3. Says(None) /\ ServerAgrees(None)
      BY <1>3, <1>5, <1>14, <2>2, <3>2 DEF Says, wireVars, ServerAgrees
    <3>. QED  BY <1>9, <2>1, <3>3 DEF GivesUp
  <2>3. CASE pc'[Me] # "granted"
    BY <1>9, <1>11, <1>14, <2>1, <2>3 DEF GivesUp
  <2>. QED  BY <2>2, <2>3
<1>15. CASE S!TellGranted(Me)
            /\ Reply("FloorRequestStatus", S!Fid(Me), job[Me].req, "Granted")
  <2>1. /\ pc[Me] = "granted" /\ pc'[Me] = "read" /\ pc[Me] \in P!FloorLabels
        /\ floors' = floors /\ fsm' = fsm
    BY <1>0, <1>15 DEF S!TellGranted, S!Goto, S!Return, P!FloorLabels, S!floorVars
  <2>2. PICK m \in Sound : /\ Says(m) /\ m.tx = handling.tx
                           /\ m.prim = "FloorRequestStatus"
                           /\ m.floor = S!Fid(Me) /\ m.status = "Granted"
    BY <1>6, <1>7, <1>8, <1>15, <2>1 DEF Statuses
  <2>3. handling.tx \in Unclaimed  BY <2>1 DEF Core, GrantInv
  <2>4. S!HolderIs(m.floor, User)'
    <3>1. /\ job[Me].floor \in Cells /\ P!Registered(job[Me].floor)
          /\ fsm[job[Me].floor].state = "Granted"
          /\ fsm[job[Me].floor].owner = UserOf[Me]
      BY <1>0, <2>1 DEF P!ClientInv, P!PointersOf, P!OutcomeOf, P!Floor, P!Jobs
    <3>2. floors[fsm[job[Me].floor].fid] = job[Me].floor
      BY <1>0, <3>1, ServerConstants, P!FidOfCell DEF P!ConstantsAssumption
    <3>3. Nil \notin Cells  BY ClientServerAssumption
    <3>4. m.floor = fsm[job[Me].floor].fid  BY <2>2 DEF S!Fid, S!Floor
    <3>. QED  BY <2>1, <3>1, <3>2, <3>3, <3>4 DEF S!HolderIs, User
  <2>5. ServerAgrees(m)
    BY <2>1, <2>2, <2>3, <2>4 DEF ServerAgrees, IsError
  <2>. QED  BY <1>9, <2>1, <2>2, <2>5 DEF GivesUp
<1>16. CASE S!TellDenied(Me)
            /\ Reply("FloorRequestStatus", S!Fid(Me), job[Me].req, "Denied")
  <2>1. pc[Me] = "denied" /\ pc'[Me] = "read" /\ pc[Me] \in P!FloorLabels
    BY <1>0, <1>16 DEF S!TellDenied, S!Goto, S!Return, P!FloorLabels
  <2>2. PICK m \in Sound : /\ Says(m) /\ m.tx = handling.tx
                           /\ m.prim = "FloorRequestStatus" /\ m.status = "Denied"
    BY <1>6, <1>7, <1>8, <1>16, <2>1 DEF Statuses
  <2>3. ServerAgrees(m)  BY <2>1, <2>2 DEF ServerAgrees, IsError, IsGrant
  <2>. QED  BY <1>9, <2>1, <2>2, <2>3 DEF GivesUp
<1>17. CASE S!FloorRelease(Me) /\ ErrorOrNothing
  <2>1. pc[Me] = "release" /\ pc'[Me] \in {"released", "read"}
    BY <1>0, <1>17 DEF S!FloorRelease, S!Goto, S!Return
  <2>2. CASE pc'[Me] = "read"  BY <1>10, <1>17, <2>1, <2>2 DEF ErrorOrNothing
  <2>3. CASE pc'[Me] = "released"
    <3>1. Says(None) /\ ServerAgrees(None)
      BY <1>11, <1>17, <2>3 DEF ErrorOrNothing
    <3>2. ASSUME NEW f \in FloorIDs  PROVE ServerTells(None, f)
      <4>1. ASSUME S!HolderIs(f, User), ~S!HolderIs(f, User)'
            PROVE  handling.floor = f
        <5>1. /\ floors' = floors
              /\ \A o \in Cells : o # job[Me].floor => fsm'[o] = fsm[o]
          BY <1>0, <1>17 DEF S!FloorRelease
        <5>2. floors[f] \in Cells /\ floors[f] # Nil
          BY <1>0, <4>1 DEF S!HolderIs
        <5>3. job[Me].floor = floors[f]
          BY <4>1, <5>1, <5>2 DEF S!HolderIs, User
        <5>4. job[Me].floor = floors[handling.floor]
          BY <2>1 DEF Core, HandlerInv
        <5>5. handling.floor \in FloorIDs
          BY <1>4, <2>1 DEF IInv, HandlingSound, Sound, WellFormed
        <5>. QED  BY <1>0, <5>2, <5>3, <5>4, <5>5 DEF P!MapIsFaithful
      <4>. QED  BY <1>3, <2>1, <2>3, <4>1 DEF ServerTells
    <3>. QED  BY <1>1, <3>1, <3>2, ServerCore
  <2>. QED  BY <2>1, <2>2, <2>3
<1>18. CASE S!TellReleased(Me)
            /\ Reply("FloorRequestStatus", S!Fid(Me), handling.req, "Released")
  <2>1. /\ pc[Me] = "released" /\ pc'[Me] = "broadcast" /\ pc[Me] \in P!FloorLabels
    BY <1>0, <1>18 DEF S!TellReleased, S!Goto, P!FloorLabels
  <2>2. /\ handling.req \in ReqIDs /\ handling.floor \in FloorIDs
    BY <1>4, <2>1 DEF IInv, HandlingSound, Sound, WellFormed
  <2>3. PICK m \in Sound : /\ Says(m) /\ m.tx = handling.tx
                           /\ m.prim = "FloorRequestStatus"
                           /\ m.floor = S!Fid(Me) /\ m.status = "Released"
    BY <1>6, <1>8, <1>18, <2>1, <2>2 DEF Statuses
  <2>4. ServerAgrees(m)  BY <2>1, <2>3 DEF ServerAgrees, IsError, IsGrant
  <2>5. m.floor = handling.floor
    <3>1. job[Me].floor = floors[handling.floor]  BY <2>1 DEF Core, HandlerInv
    <3>2. job[Me].floor # Nil  BY <1>0, <2>1 DEF P!ClientInv, P!PointersOf
    <3>. QED
      BY <1>0, <2>2, <2>3, <3>1, <3>2 DEF P!MapIsFaithful, S!Fid, S!Floor
  <2>6. m.tx \in Over'  BY <1>3, <2>1, <2>3, HandlingOver
  <2>7. ASSUME NEW f \in FloorIDs  PROVE ServerTells(m, f)
    <3>1. S!HolderIs(f, User) => S!HolderIs(f, User)'
      BY <1>2, <2>1, HandlerKeepsFloors DEF GivesUp
    <3>2. m # None  BY <2>3, NoneFacts
    <3>. QED  BY <2>1, <2>3, <2>5, <2>6, <3>1, <3>2 DEF ServerTells, IsRelease
  <2>. QED  BY <1>1, <2>3, <2>4, <2>7, ServerCore
<1>19. CASE S!AnswerQuery(Me)
            /\ Reply("FloorStatus", S!Fid(Me), job[Me].req, S!Floor(Me).state)
  <2>1. pc[Me] = "query" /\ pc'[Me] = "read" /\ pc[Me] \in P!FloorLabels
    BY <1>0, <1>19 DEF S!AnswerQuery, S!Goto, S!Return, P!FloorLabels
  <2>2. S!Floor(Me).state \in Statuses  BY <1>0, <2>1, ServerFields DEF IInv
  <2>3. PICK m \in Sound : /\ Says(m) /\ m.tx = handling.tx /\ m.prim = "FloorStatus"
    BY <1>6, <1>7, <1>8, <1>19, <2>1, <2>2
  <2>4. ServerAgrees(m)  BY <2>1, <2>3 DEF ServerAgrees, IsError, IsGrant
  <2>. QED  BY <1>9, <2>1, <2>3, <2>4 DEF GivesUp
<1>20. CASE S!SendBroadcast(Me) /\ UNCHANGED wireVars
  <2>1. pc[Me] \in {"broadcast", "byeBroadcast"} /\ pc'[Me] = pc[Me]
    BY <1>20 DEF S!SendBroadcast
  <2>. QED  BY <1>9, <1>11, <1>20, <2>1 DEF GivesUp
<1>21. CASE (S!ReleaseDone(Me) \/ S!GoodbyeNotify(Me)) /\ UNCHANGED wireVars
  <2>1. /\ pc[Me] \in {"broadcast", "byeBroadcast"}
        /\ pc'[Me] \in {"read", "goodbye"}
    BY <1>0, <1>21 DEF S!ReleaseDone, S!GoodbyeNotify, S!Goto, S!Return
  <2>. QED  BY <1>9, <1>11, <1>21, <2>1 DEF GivesUp
<1>22. CASE S!GoodbyeRelease(Me) /\ UNCHANGED wireVars
  <2>1. pc[Me] = "goodbye"  BY <1>22 DEF S!GoodbyeRelease
  <2>2. pc'[Me] \in {"goodbye", "byeBroadcast"}
    BY <1>1, <2>1 DEF HandlerGoes
  <2>3. \A f \in FloorIDs : ServerTells(None, f)
    BY <2>1, <2>2 DEF ServerTells
  <2>. QED  BY <1>1, <1>11, <1>22, <2>2, <2>3, ServerCore
<1>. QED
  BY <1>12, <1>13, <1>14, <1>15, <1>16, <1>17, <1>18, <1>19, <1>20, <1>21, <1>22
  DEF ServerHandles

LEMMA ServerActsCore ==
  ASSUME S!OneConnectionPerUser, IInv, P!IInv, ServerFacts, ConnInv,
         Timely, Core, ServerActs, ~Gone'
  PROVE  Core'
<1>0. /\ Me \in Conns /\ conn \in [Conns -> {"none", "open", "lost", "closed"}]
  BY ClientServerAssumption DEF ServerFacts, P!TypeOK
<1>1. CASE ServerRuns
  <2>1. UNCHANGED <<clientVars, virtualVars, setup>>  BY <1>1 DEF ServerRuns
  <2>2. ~S!GoodbyeEnd(Me)  BY <1>0 DEF S!GoodbyeEnd, Gone
  <2>. QED
    BY <1>1, <2>1, <2>2, ServerReadsCore, ServerAnswersCore, ServerHandlesCore
    DEF ServerRuns
<1>2. CASE Keepalive  BY <1>2, ConnectionCore DEF Keepalive
<1>3. CASE Connection
  <2>1. ~ServerSeesEOF /\ ~ServerHangsUp
    BY <1>0 DEF ServerSeesEOF, ServerHangsUp, S!PeerLost, Gone
  <2>. QED  BY <1>3, <2>1, ConnectionCore DEF Connection
<1>4. CASE NetworkFails  BY <1>4 DEF NetworkFails, Break, Gone
<1>. QED  BY <1>1, <1>2, <1>3, <1>4, PeerCore DEF ServerActs

-----------------------------------------------------------------------------
(***************************************************************************)
(* A connection that has ended stays so.                                   *)
(***************************************************************************)

\* Nothing brings the connection back.
ConnKept == ConnInv' /\ (Gone => Gone') /\ setup' = setup

LEMMA ThreadKeepsConn ==
  ASSUME IInv, LinkInv, ConnInv, NEW t \in Threads, Calls(t) \/ ThreadRuns(t)
  PROVE  ConnKept
<1>0. conn' = conn /\ setup' = setup
  BY DEF Calls, ThreadRuns, serverVars
<1>1. Starts(t) \/ Proceeds(t) \/ UNCHANGED <<clientVars, wireVars>>
  <2>1. CASE VirtualCall(t) \/ VClose(t)
    BY <2>1 DEF VirtualCall, VClose, VConnect, VReleaseAllFloors, VRequestFloor,
                VReleaseFloor
  <2>2. CASE FrameStep(t)  BY <2>2, FrameStepSound DEF IInv
  <2>. QED  BY <2>1, <2>2 DEF Calls, ThreadRuns, ApplicationCall, ThreadStep,
            Starts, Proceeds
<1>2. link' = link \/ (tr = "nil" /\ link' = "up")
  <2>1. CASE Starts(t)
    BY <2>1 DEF Starts, Dial, Hello, Goodbye, Disconnect, RequestFloor,
                ReleaseFloor, QueryFloor, Begin, wireVars
  <2>2. CASE Proceeds(t)
    BY <2>2 DEF Proceeds, CallStep, StartTransport, Ready, Send, Receive, Finish,
                Apply, SetState, Callback, CloseTransport, Timeout, Goto, Return,
                EndCall, wireVars
  <2>. QED  BY <1>1, <2>1, <2>2 DEF wireVars
<1>. QED  BY <1>0, <1>2 DEF ConnKept, ConnInv, Gone, LinkInv

LEMMA ReaderKeepsConn ==
  ASSUME ConnInv, ReaderRuns
  PROVE  ConnKept
<1>0. conn' = conn /\ setup' = setup  BY DEF ReaderRuns, serverVars
<1>1. ReaderActs
  BY DEF ReaderRuns, ReadLoop, ReaderActs, VReaderCallback, VOnClose
<1>2. link' = link
  BY <1>1 DEF ReaderActs, ReaderStep, ReadMessage, Deliver, HandleMessage,
              ReaderSetState, ReadExit, ReaderCallback, OnClose, wireVars
<1>. QED  BY <1>0, <1>2 DEF ConnKept, ConnInv, Gone

LEMMA ServerKeepsConn ==
  ASSUME S!OneConnectionPerUser, IInv, P!IInv, ConnInv, ServerActs
  PROVE  ConnKept
<1>0. setup' = setup
  BY DEF ServerActs, ServerRuns, Keepalive, Connection, NetworkFails, Peer
<1>1. Elsewhere \/ Reads \/ Handles \/ Connects  BY ServerEffects
<1>. QED  BY <1>0, <1>1 DEF ConnKept, ConnInv, Gone, Elsewhere, Reads, Handles,
          Connects

LEMMA NothingKeepsConn == ASSUME ConnInv, UNCHANGED vars  PROVE ConnKept
BY DEF ConnKept, ConnInv, Gone, vars, serverVars, wireVars

-----------------------------------------------------------------------------
(***************************************************************************)
(* All steps together, and the theorems.                                   *)
(***************************************************************************)

LEMMA StutterCore == ASSUME Core, UNCHANGED vars  PROVE Core'
<1>1. UNCHANGED <<clientVars, virtualVars, wireVars, serverVars, handling, setup>>
  BY DEF vars
<1>2. /\ tr' = tr /\ connected' = connected /\ requests' = requests
      /\ lastTx' = lastTx /\ call' = call /\ chan' = chan /\ reader' = reader
      /\ notified' = notified
  BY <1>1 DEF clientVars
<1>3. mu' = mu /\ held' = held /\ frame' = frame  BY <1>1 DEF virtualVars
<1>4. inbox' = inbox /\ outbox' = outbox  BY <1>1 DEF wireVars
<1>5. pc' = pc /\ job' = job /\ floors' = floors /\ fsm' = fsm
  BY <1>1 DEF serverVars
<1>6. handling' = handling /\ setup' = setup  BY <1>1
<1>7. TxInv'
  BY <1>2, <1>4, <1>6 DEF Core, TxInv, Asks, Underway, Contents, Distinct, Request
<1>8. Over' = Over
  BY <1>2, <1>4, <1>5, <1>6 DEF Over, Contents
<1>9. ErrorInv'
  BY <1>2, <1>4, <1>8 DEF Core, ErrorInv, IsError, Contents
<1>10. ResponseInv' /\ HandlerInv' /\ StartInv' /\ LockInv'
  BY <1>2, <1>3, <1>5, <1>6 DEF Core, ResponseInv, Registered, HandlerInv, StartInv,
     Asks, LockInv, LockOf
<1>11. Unclaimed' = Unclaimed /\ Blocked' = Blocked
  BY <1>2, <1>3, <1>6 DEF Unclaimed, Registered, Stuck, Blocked
<1>12. GrantInv'
  BY <1>2, <1>4, <1>5, <1>6, <1>8, <1>11 DEF Core, GrantInv, Answered, Registered,
     IsGrant, Contents
<1>13. ASSUME NEW f \in FloorIDs
       PROVE  /\ S!HolderIs(f, User)' = S!HolderIs(f, User)
              /\ NoGrant(f)' = NoGrant(f) /\ Leaving(f)' = Leaving(f)
  <2>1. S!HolderIs(f, User)' = S!HolderIs(f, User)
    BY <1>5 DEF S!HolderIs, User
  <2>2. /\ GrantIn(f)' = GrantIn(f) /\ GrantRead(f)' = GrantRead(f)
        /\ Entered(f)' = Entered(f)
    BY <1>2, <1>4 DEF GrantIn, GrantRead, Entered, Contents, GrantOf, IsGrant
  <2>3. NoGrant(f)' = NoGrant(f)  BY <1>2, <1>3, <2>2 DEF NoGrant
  <2>4. Claimed(f)' = Claimed(f)
    BY <1>2, <1>4, <1>8, <1>11 DEF Claimed, Contents, IsError, Registered
  <2>5. ReleaseIn(f)' = ReleaseIn(f)
    BY <1>4, <2>4 DEF ReleaseIn, Recent, GrantOf, IsGrant, IsRelease
  <2>6. ReleaseRead(f)' = ReleaseRead(f)
    BY <1>2, <2>2, <2>4 DEF ReleaseRead, IsRelease
  <2>7. ReleaseTaken(f)' = ReleaseTaken(f)
    BY <1>2, <2>2 DEF ReleaseTaken, Clearing, IsError
  <2>. QED  BY <1>5, <1>6, <2>1, <2>3, <2>5, <2>6, <2>7 DEF Leaving
<1>14. BeliefInv'  BY <1>13 DEF Core, BeliefInv
<1>. QED  BY <1>7, <1>9, <1>10, <1>12, <1>14 DEF Core

LEMMA NextKeepsConn ==
  ASSUME S!OneConnectionPerUser, IInv, P!IInv, LinkInv, ConnInv, [Next]_vars
  PROVE  ConnKept
<1>1. ASSUME NEW t \in setup.threads, Calls(t) \/ ThreadRuns(t)  PROVE ConnKept
  <2>1. t \in Threads  BY <1>1 DEF IInv, AllSetups
  <2>. QED  BY <1>1, <2>1, ThreadKeepsConn
<1>. QED  BY <1>1, ReaderKeepsConn, ServerKeepsConn, NothingKeepsConn
          DEF Next, ServerActs

LEMMA NextGrants ==
  ASSUME S!OneConnectionPerUser, IInv, P!IInv, ServerFacts, ByeInv, GInv,
         [Next]_vars
  PROVE  GInv'
<1>1. ConnKept  BY NextKeepsConn DEF ByeInv, GInv
<1>. SUFFICES ASSUME Timely'  PROVE Core'
  BY <1>1 DEF GInv, ConnKept
<1>2. Timely /\ Core /\ ~Gone'  BY <1>1 DEF GInv, ConnKept, Timely
<1>3. CASE UNCHANGED vars  BY <1>2, <1>3, StutterCore
<1>4. CASE ReaderRuns  BY <1>2, <1>4, ReaderRunsCore
<1>5. ASSUME NEW t \in setup.threads, Calls(t) \/ ThreadRuns(t)  PROVE Core'
  <2>1. t \in Threads  BY <1>5 DEF IInv, AllSetups
  <2>2. IInv'  BY NextSound
  <2>. QED  BY <1>2, <1>5, <2>1, <2>2, ThreadCore DEF ByeInv
<1>6. CASE ServerActs  BY <1>2, <1>6, ServerActsCore DEF GInv
<1>. QED  BY <1>3, <1>4, <1>5, <1>6 DEF Next, ServerActs

LEMMA InitGrants == Init => GInv
<1>. SUFFICES ASSUME Init  PROVE GInv  OBVIOUS
<1>0. Me \in Conns  BY ClientServerAssumption
<1>1. /\ link = "none" /\ outbox = <<>> /\ inbox = <<>> /\ connected = FALSE
      /\ \A f \in FloorIDs : requests[f] = None /\ notified[f] = None
      /\ lastTx = 0 /\ reader.at = "off" /\ reader.msg = None
      /\ \A t \in Threads : /\ call[t].op = "none" /\ call[t].at = "idle"
                            /\ call[t].resp = None /\ chan[t] = None
  BY DEF Init, ClientInit, NoCall
<1>2. /\ mu = None /\ \A f \in FloorIDs : held[f] = None
      /\ \A t \in Threads : frame[t].at = "idle"
  BY DEF Init, VirtualInit, NoFrame
<1>3. conn[Me] = "none" /\ pc[Me] = "read" /\ handling = None
  BY <1>0 DEF Init, S!Init
<1>4. Contents(outbox) = {} /\ Contents(inbox) = {}  BY <1>1, EmptyFacts
<1>5. Distinct(outbox)  BY <1>1 DEF Distinct
<1>6. ASSUME NEW t \in Threads
      PROVE  ~Asks(t) /\ ~Registered(t) /\ LockOf(t)
  <2>1. mu # t  BY <1>2, ClientServerAssumption
  <2>. QED  BY <1>1, <1>2, <1>6, <2>1 DEF Asks, Registered, Waiting, LockOf
<1>7. TxInv /\ ErrorInv /\ ResponseInv
  BY <1>1, <1>3, <1>4, <1>5, <1>6 DEF TxInv, ErrorInv, ResponseInv, IsError
<1>8. HandlerInv /\ StartInv /\ LockInv
  BY <1>1, <1>2, <1>3, <1>6 DEF HandlerInv, StartInv, LockInv
<1>9. GrantInv
  BY <1>1, <1>3, <1>4 DEF GrantInv, IsGrant
<1>10. BeliefInv
  BY <1>1, <1>2, <1>4, ClientServerAssumption
     DEF BeliefInv, NoGrant, Entered, GrantIn, GrantRead, Statuses
<1>. QED  BY <1>3, <1>7, <1>8, <1>9, <1>10 DEF GInv, ConnInv, Core

LEMMA GInvInductive ==
  ASSUME S!OneConnectionPerUser, S!HandsOff
  PROVE  Spec => [](IInv /\ P!IInv /\ ServerFacts /\ ByeInv /\ GInv)
<1>1. Spec => [](IInv /\ P!IInv /\ ServerFacts)  BY ServerFactsHold
<1>2. Init => ByeInv /\ GInv  BY InitKeeps, InitGrants
<1>3. IInv /\ P!IInv /\ ServerFacts /\ ByeInv /\ GInv /\ [Next]_vars
        => ByeInv' /\ GInv'
  BY NextKeeps, NextGrants
<1>. QED  BY <1>1, <1>2, <1>3, PTL DEF Spec

\* A client that has caught up and gives nothing up believes only what is true.
LEMMA CaughtUpBelieves ==
  ASSUME IInv, GInv, setup.timely, CaughtUp, ~GivingUp, NEW f \in FloorIDs
  PROVE  S!HolderIs(f, User) \/ NoGrant(f)
<1>1. Core  BY DEF CaughtUp, GInv, ConnInv, Timely, Gone
<1>2. ~ReleaseIn(f) /\ ~ReleaseRead(f)
  BY EmptyFacts DEF CaughtUp, ReleaseIn, ReleaseRead
<1>3. ~ReleaseTaken(f)  BY DEF GivingUp, ReleaseTaken, Clearing
<1>4. ASSUME pc[Me] \in {"goodbye", "byeBroadcast"}  PROVE FALSE
  <2>1. handling.prim = "Goodbye"  BY <1>1, <1>4 DEF Core, HandlerInv
  <2>2. handling # None  BY <1>4 DEF IInv, HandlingSound
  <2>. QED  BY <2>1, <2>2 DEF GivingUp
<1>5. ASSUME pc[Me] = "released"  PROVE FALSE
  <2>1. handling # None /\ handling.prim = "FloorRelease"
    BY <1>5 DEF IInv, HandlingSound
  <2>. QED  BY <2>1 DEF GivingUp
<1>. QED  BY <1>1, <1>2, <1>3, <1>4, <1>5 DEF Core, BeliefInv, Leaving

\* With benign timing, a client that has caught up with what the server wrote and
\* is not giving anything up takes a floor for granted, in activeRequests or in
\* the last callback it made, only while the server has granted the floor to its
\* user (handleMessage, client.go:363-388), for any number of goroutines, floors
\* and other participants, with or without the virtual wrapper.  Holds where
\* users are not shared between connections and the operator leaves the floors
\* alone.
THEOREM ClientBelievesTruth ==
  ASSUME S!OneConnectionPerUser, S!HandsOff
  PROVE  Spec => []ClientGrantIsHolder
<1>1. IInv /\ GInv => ClientGrantIsHolder
  BY CaughtUpBelieves DEF ClientGrantIsHolder, NoGrant, Entered
<1>. QED  BY <1>1, GInvInductive, PTL

\* Under the same conditions heldFloors of a virtual client lists only floors
\* that its user holds at the server, although its callbacks run with a delay,
\* when they get c.mu (virtual/client.go:182-233).
THEOREM HeldFloorsAreHeld ==
  ASSUME S!OneConnectionPerUser, S!HandsOff
  PROVE  Spec => []HeldIsHolder
<1>1. IInv /\ GInv => HeldIsHolder
  BY CaughtUpBelieves DEF HeldIsHolder, NoGrant
<1>. QED  BY <1>1, GInvInductive, PTL
=============================================================================
