------------------------ MODULE ClientServer_release_proofs ------------------------
(***************************************************************************)
(* HolderCanRelease: with one calling goroutine and benign timing, what    *)
(* the user has is in activeRequests, so that ReleaseFloor finds it.  The  *)
(* converse of ClientServer_grant_proofs: the argument follows a request   *)
(* from the call that makes it to the entry, and a release from the server *)
(* to the call that removes the entry.                                     *)
(***************************************************************************)
EXTENDS ClientServer_grant_proofs

\* t is the only caller, timing is benign, and neither side has hung up.
Lone(t) ==
  /\ Timely /\ ~setup.collide /\ ~setup.virtual /\ tr # "closed"
  /\ setup.threads = {t}

\* What the server said to t's call, wherever it is now.
Answers(t) ==
  {m \in Contents(inbox) \cup {reader.msg} : m # None /\ m.tx = call[t].tx}
    \cup ({chan[t], call[t].resp} \ {None})

\* m asks for a floor or gives one back, and t waits for the answer to it, which
\* the server has not given yet.
Expects(t, m) ==
  /\ call[t].op \in {"RequestFloor", "ReleaseFloor"} /\ call[t].at = "wait"
  /\ call[t].tx = m.tx /\ Answers(t) = {}

\* The answers the client has are to requests it made, and the server works on
\* requests whose caller still waits.
CallerOf(t) ==
  /\ Asks(t) => call[t].tx > 0
  /\ call[t].at = "send" => Answers(t) = {}
  /\ \A m \in Contents(inbox) : m.tx <= lastTx
  /\ reader.msg # None => reader.msg.tx <= lastTx
  /\ \A m \in Contents(outbox) :
       m.prim \in {"FloorRequest", "FloorRelease"} => Expects(t, m)
  /\ pc[Me] \in {"request", "pending", "release", "released"} =>
       Expects(t, handling)
  /\ pc[Me] = "request" => job[Me].floor = floors[handling.floor]
  /\ pc[Me] = "query" => handling.prim = "FloorQuery"

\* Once the server has accepted t's release, the user does not have the floor.
ReleaseOf(t) ==
  /\ call[t].op = "ReleaseFloor"
  /\ \/ pc[Me] = "released" /\ handling.tx = call[t].tx
     \/ \E m \in Answers(t) : m.prim # "Error"
     \/ call[t].at = "apply"
  => ~P!Owns(call[t].floor, User)

\* The server has accepted t's request for f, and t is going to enter it.
Entering(t, f) ==
  /\ call[t].op = "RequestFloor" /\ call[t].floor = f
  /\ \A m \in Answers(t) : m.prim = "FloorRequestStatus"
  /\ \/ /\ call[t].at = "wait"
        /\ \/ pc[Me] = "pending" /\ handling.tx = call[t].tx
           \/ Answered(t)
     \/ call[t].at = "got" /\ call[t].resp # None
     \/ call[t].at = "apply"

\* A floor the user has, pending or granted, is in the table or about to be.
EntryOf(t) ==
  \A f \in FloorIDs : P!Owns(f, User) => requests[f] # None \/ Entering(t, f)

TableOf(t) == CallerOf(t) /\ ReleaseOf(t) /\ EntryOf(t)

\* A Goodbye is on its way to the server, or there.
ByeSent == Sent("Goodbye") \/ pc[Me] \in {"goodbye", "byeBroadcast"}

\* The client closes its end only behind a Goodbye.
EndInv ==
  /\ tr = "closed" => ByeSent
  /\ \A t \in Threads :
       call[t].op = "Disconnect" /\ call[t].at \in {"close", "return"} => ByeSent

LoneInv ==
  /\ ~Gone => EndInv
  /\ \A t \in Threads : Lone(t) => TableOf(t)

-----------------------------------------------------------------------------
(***************************************************************************)
(* The calling goroutine.                                                  *)
(***************************************************************************)

\* What t's steps leave alone.
CallerMove ==
  /\ UNCHANGED <<inbox, handling, setup, pc, job, floors, fsm>>
  /\ reader'.msg = reader.msg
  /\ lastTx \in Nat /\ lastTx' \in Nat /\ lastTx' >= lastTx
  /\ \A m \in Contents(inbox) : m.tx \in Nat
  /\ reader.msg # None => reader.msg.tx \in Nat

\* A step of t that is not about its wait: no request is under way.
LEMMA AwayFromWait ==
  ASSUME NEW t \in Threads, TableOf(t), CallerMove, outbox' = outbox,
         call[t].at # "wait" \/ Answers(t) # {},
         call'[t].at # "wait",
         Asks(t)' => call'[t].tx > 0,
         call'[t].at = "send" => Answers(t)' = {},
         call'[t].op = "ReleaseFloor"
           /\ ((\E m \in Answers(t)' : m.prim # "Error") \/ call'[t].at = "apply")
           => ~P!Owns(call'[t].floor, User),
         \A f \in FloorIDs : P!Owns(f, User) => requests'[f] # None \/ Entering(t, f)'
  PROVE  TableOf(t)'
<1>. USE DEF CallerMove
<1>0. \A m : ~Expects(t, m)  BY DEF Expects
<1>1. \A f : P!Owns(f, User)' <=> P!Owns(f, User)  BY DEF P!Owns, User
<1>2. CallerOf(t)'
  <2>1. \A m \in Contents(inbox') : m.tx <= lastTx'  BY DEF TableOf, CallerOf
  <2>2. reader'.msg # None => reader'.msg.tx <= lastTx'  BY DEF TableOf, CallerOf
  <2>3. \A m \in Contents(outbox') : m.prim \notin {"FloorRequest", "FloorRelease"}
    BY <1>0 DEF TableOf, CallerOf
  <2>4. pc'[Me] \notin {"request", "pending", "release", "released"}
    BY <1>0 DEF TableOf, CallerOf
  <2>5. pc'[Me] = "query" => handling'.prim = "FloorQuery"
    BY DEF TableOf, CallerOf
  <2>. QED  BY <2>1, <2>2, <2>3, <2>4, <2>5 DEF CallerOf
<1>3. ReleaseOf(t)'
  <2>1. pc'[Me] # "released"  BY <1>0 DEF TableOf, CallerOf
  <2>. QED  BY <2>1 DEF ReleaseOf, P!Owns, User
<1>4. EntryOf(t)'  BY <1>1 DEF EntryOf
<1>. QED  BY <1>2, <1>3, <1>4 DEF TableOf

LEMMA BeginTable ==
  ASSUME NEW t \in Threads, IInv, ResponseInv, TableOf(t), CallerMove,
         NEW op, NEW f, NEW r, Begin(t, op, f, r)
  PROVE  TableOf(t)'
<1>0. call[t] \in SoundCall /\ call \in [Threads -> SoundCall]
  BY DEF IInv, ClientSound
<1>1. /\ call[t].at = "idle"
      /\ call'[t] = [op |-> op, at |-> "send", floor |-> f, tx |-> lastTx + 1,
                     req |-> r, resp |-> None, ok |-> TRUE]
      /\ chan' = chan /\ outbox' = outbox /\ requests' = requests
  BY <1>0 DEF Begin, wireVars
<1>2. chan[t] = None  BY <1>1 DEF ResponseInv, Registered
<1>3. Answers(t)' = {}
  <2>1. \A m \in Contents(inbox') : m.tx # lastTx + 1
    BY DEF CallerMove, TableOf, CallerOf
  <2>2. reader'.msg # None => reader'.msg.tx # lastTx + 1
    BY DEF CallerMove, TableOf, CallerOf
  <2>. QED  BY <1>1, <1>2, <2>1, <2>2 DEF Answers
<1>4. \A g \in FloorIDs : P!Owns(g, User) => requests'[g] # None
  BY <1>1 DEF TableOf, EntryOf, Entering
<1>. QED  BY <1>1, <1>3, <1>4, AwayFromWait DEF CallerMove

\* The steps that concern neither the wires nor the table.
LEMMA IdleStepTable ==
  ASSUME NEW t \in Threads, TableOf(t), CallerMove,
         UNCHANGED <<outbox, requests, chan>>,
         call[t].at \notin {"send", "wait", "got", "apply"},
         call'[t].at \notin {"send", "wait", "got", "apply"},
         \/ call'[t].op = call[t].op /\ call'[t].tx = call[t].tx
            /\ call'[t].floor = call[t].floor /\ call'[t].resp = call[t].resp
         \/ call'[t].op \in {"none", "Connect"}
  PROVE  TableOf(t)'
<1>1. ASSUME call'[t].op = "ReleaseFloor", NEW m \in Answers(t)', m.prim # "Error"
      PROVE  ~P!Owns(call'[t].floor, User)
  <2>1. m \in Answers(t)  BY <1>1 DEF Answers, CallerMove
  <2>. QED  BY <1>1, <2>1 DEF TableOf, ReleaseOf
<1>2. \A g \in FloorIDs : P!Owns(g, User) => requests'[g] # None
  BY DEF TableOf, EntryOf, Entering
<1>3. Asks(t)' => call'[t].tx > 0
  BY DEF TableOf, CallerOf, Asks, Waiting
<1>. QED  BY <1>1, <1>2, <1>3, AwayFromWait

LEMMA ReceiveTable ==
  ASSUME NEW t \in Threads, IInv, ResponseInv, TableOf(t), CallerMove, Receive(t)
  PROVE  TableOf(t)'
<1>0. call[t] \in SoundCall /\ call \in [Threads -> SoundCall]
      /\ chan \in [Threads -> Sound \cup {None}]
  BY DEF IInv, ClientSound
<1>1. /\ call[t].at = "wait" /\ call[t].resp = None /\ chan[t] # None
      /\ call'[t].at = "got" /\ call'[t].resp = chan[t] /\ chan'[t] = None
      /\ call'[t].op = call[t].op /\ call'[t].tx = call[t].tx
      /\ call'[t].floor = call[t].floor
      /\ outbox' = outbox /\ requests' = requests
  <2>1. DOMAIN call[t] = {"op", "at", "floor", "tx", "req", "resp", "ok"}
    BY <1>0 DEF SoundCall, CallRecord
  <2>. QED  BY <1>0, <2>1 DEF Receive, wireVars, ResponseInv
<1>2. Answers(t)' = Answers(t) /\ chan[t] \in Answers(t)
  BY <1>1 DEF Answers, CallerMove
<1>3. \A f : Entering(t, f) => Entering(t, f)'
  BY <1>1, <1>2 DEF Entering
<1>4. Asks(t)' => call'[t].tx > 0
  BY <1>1 DEF TableOf, CallerOf, Asks
<1>5. call'[t].op = "ReleaseFloor" /\ (\E m \in Answers(t)' : m.prim # "Error")
        => ~P!Owns(call'[t].floor, User)
  BY <1>1, <1>2 DEF TableOf, ReleaseOf
<1>6. \A f \in FloorIDs : P!Owns(f, User) => requests'[f] # None \/ Entering(t, f)'
  BY <1>1, <1>3 DEF TableOf, EntryOf
<1>. QED  BY <1>1, <1>2, <1>4, <1>5, <1>6, AwayFromWait

LEMMA FinishTable ==
  ASSUME NEW t \in Threads, IInv, TableOf(t), CallerMove, Finish(t)
  PROVE  TableOf(t)'
<1>0. call[t] \in SoundCall /\ call \in [Threads -> SoundCall]
      /\ chan \in [Threads -> Sound \cup {None}]
  BY DEF IInv, ClientSound
<1>1. /\ call[t].at = "got" /\ call'[t].at \in {"return", "state", "apply"}
      /\ Accepts(call[t].op, call[t].resp) /\ call[t].op = "RequestFloor" =>
           call'[t].at = "apply"
      /\ call'[t].at = "apply" => Accepts(call[t].op, call[t].resp)
      /\ call'[t].op = call[t].op /\ call'[t].tx = call[t].tx
      /\ call'[t].floor = call[t].floor /\ call'[t].resp = call[t].resp
      /\ chan'[t] = None /\ outbox' = outbox /\ requests' = requests
  <2>1. DOMAIN call[t] = {"op", "at", "floor", "tx", "req", "resp", "ok"}
    BY <1>0 DEF SoundCall, CallRecord
  <2>2. CASE ~Accepts(call[t].op, call[t].resp)
    BY <1>0, <2>1, <2>2 DEF Finish, Return, wireVars
  <2>3. CASE Accepts(call[t].op, call[t].resp)
    BY <1>0, <2>1, <2>3 DEF Finish, Return, Goto, wireVars
  <2>. QED  BY <2>2, <2>3
<1>2. Answers(t)' \subseteq Answers(t)
      /\ (call[t].resp # None => call[t].resp \in Answers(t))
  BY <1>1 DEF Answers, CallerMove
<1>3. \A f : Entering(t, f) => Entering(t, f)'
  BY <1>1, <1>2 DEF Entering, Accepts
<1>4. Asks(t)' => call'[t].tx > 0
  BY <1>1 DEF TableOf, CallerOf, Asks
<1>5. call'[t].op = "ReleaseFloor"
        /\ ((\E m \in Answers(t)' : m.prim # "Error") \/ call'[t].at = "apply")
        => ~P!Owns(call'[t].floor, User)
  BY <1>1, <1>2 DEF TableOf, ReleaseOf, Accepts
<1>6. \A f \in FloorIDs : P!Owns(f, User) => requests'[f] # None \/ Entering(t, f)'
  BY <1>1, <1>3 DEF TableOf, EntryOf
<1>. QED  BY <1>1, <1>4, <1>5, <1>6, AwayFromWait

LEMMA ApplyTable ==
  ASSUME NEW t \in Threads, IInv, TableOf(t), CallerMove, Apply(t)
  PROVE  TableOf(t)'
<1>0. /\ call[t] \in SoundCall /\ call \in [Threads -> SoundCall]
      /\ requests \in [FloorIDs -> Entry]
  BY DEF IInv, ClientSound
<1>1. /\ call[t].at = "apply" /\ call'[t].at \in {"return", "state"}
      /\ call'[t].op = call[t].op /\ call'[t].tx = call[t].tx
      /\ call'[t].floor = call[t].floor /\ call'[t].resp = call[t].resp
      /\ chan' = chan /\ outbox' = outbox
      /\ call[t].op \in {"RequestFloor", "ReleaseFloor"}
      /\ call[t].floor \in FloorIDs
  <2>1. DOMAIN call[t] = {"op", "at", "floor", "tx", "req", "resp", "ok"}
    BY <1>0 DEF SoundCall, CallRecord
  <2>. QED  BY <1>0, <2>1 DEF Apply, Return, Goto, wireVars, SoundCall
<1>2. Answers(t)' = Answers(t)
  BY <1>1 DEF Answers, CallerMove
<1>4. Asks(t)' => call'[t].tx > 0
  BY <1>1 DEF TableOf, CallerOf, Asks
<1>5. call'[t].op = "ReleaseFloor" => ~P!Owns(call'[t].floor, User)
  BY <1>1 DEF TableOf, ReleaseOf
<1>6. ASSUME NEW f \in FloorIDs, P!Owns(f, User)  PROVE requests'[f] # None
  <2>1. CASE call[t].op = "RequestFloor" /\ call[t].floor = f
    <3>1. /\ call[t].resp \in Sound /\ call[t].resp.prim = "FloorRequestStatus"
      BY <1>0, <1>1, <2>1 DEF SoundCall
    <3>2. requests'[f] = [req |-> call[t].resp.req, status |-> call[t].resp.status]
      BY <1>0, <2>1 DEF Apply
    <3>3. requests'[f] \in [req : ReqIDs, status : Statuses]
      BY <3>1, <3>2 DEF Sound, WellFormed
    <3>. QED  BY <3>3, ClientServerAssumption
  <2>2. CASE call[t].op = "ReleaseFloor" \/ call[t].floor # f
    <3>1. call[t].op = "ReleaseFloor" => call[t].floor # f
      BY <1>1, <1>5, <1>6
    <3>2. ~Entering(t, f)  BY <2>2 DEF Entering
    <3>3. requests'[f] = requests[f]
      BY <1>0, <1>1, <2>2, <3>1 DEF Apply
    <3>. QED  BY <1>6, <3>2, <3>3 DEF TableOf, EntryOf
  <2>. QED  BY <1>1, <2>1, <2>2
<1>. QED  BY <1>1, <1>4, <1>5, <1>6, AwayFromWait

LEMMA SendTable ==
  ASSUME NEW t \in Threads, IInv, LinkInv, Lone(t), TableOf(t), CallerMove, Send(t)
  PROVE  TableOf(t)'
<1>0. /\ call[t] \in SoundCall /\ call \in [Threads -> SoundCall]
      /\ outbox \in Seq(Sound) /\ link \in {"none", "up", "down"}
  BY DEF IInv, ClientSound, WiresSound
<1>1. call[t].at = "send" /\ tr = "open" /\ link = "up"
  BY <1>0 DEF Send, Lone, Timely, Gone, LinkInv, Idle
<1>2. /\ outbox' = Append(outbox, Request(t))
      /\ call'[t].at \in {"close", "return", "wait"}
      /\ call[t].op \notin {"Goodbye", "Disconnect"} => call'[t].at = "wait"
      /\ call'[t].op = call[t].op /\ call'[t].tx = call[t].tx
      /\ call'[t].floor = call[t].floor /\ call'[t].resp = call[t].resp
      /\ requests' = requests /\ chan' = chan
  <2>1. DOMAIN call[t] = {"op", "at", "floor", "tx", "req", "resp", "ok"}
    BY <1>0 DEF SoundCall, CallRecord
  <2>2. CASE call[t].op = "Disconnect"
    BY <1>0, <1>1, <2>1, <2>2 DEF Send, Goto, Lone, Timely, Gone
  <2>3. CASE call[t].op = "Goodbye"
    BY <1>0, <1>1, <2>1, <2>3 DEF Send, Return, Lone, Timely, Gone
  <2>4. CASE call[t].op \notin {"Goodbye", "Disconnect"}
    <3>1. outbox' = Append(outbox, Request(t)) /\ Goto(t, "wait")
      BY <1>1, <2>4 DEF Send, Lone, Timely, Gone
    <3>2. requests' = requests /\ chan' = chan  BY DEF Send
    <3>. QED  BY <1>0, <2>1, <3>1, <3>2 DEF Goto
  <2>. QED  BY <2>2, <2>3, <2>4
<1>3. \A m : ~Expects(t, m)  BY <1>1 DEF Expects
<1>4. Answers(t)' = {}
  <2>1. Answers(t)' = Answers(t)  BY <1>2 DEF Answers, CallerMove
  <2>. QED  BY <1>1, <2>1 DEF TableOf, CallerOf
<1>5. /\ pc' = pc /\ pc[Me] \notin {"request", "pending", "release", "released"}
      /\ handling' = handling
  BY <1>3 DEF TableOf, CallerOf, CallerMove
<1>6. ASSUME NEW m \in Contents(outbox'), m.prim \in {"FloorRequest", "FloorRelease"}
      PROVE  Expects(t, m)'
  <2>1. Contents(outbox') = Contents(outbox) \cup {Request(t)}
    BY <1>0, <1>2, RequestSound, AppendFacts
  <2>2. m = Request(t)
    BY <1>3, <1>6, <2>1 DEF TableOf, CallerOf
  <2>3. call[t].op \in {"RequestFloor", "ReleaseFloor"} /\ m.tx = call[t].tx
    BY <1>6, <2>2 DEF Request
  <2>. QED  BY <1>2, <1>4, <2>3 DEF Expects
<1>7. CallerOf(t)'
  <2>1. \A m \in Contents(inbox') : m.tx <= lastTx'
    BY DEF TableOf, CallerOf, CallerMove
  <2>2. reader'.msg # None => reader'.msg.tx <= lastTx'
    BY DEF TableOf, CallerOf, CallerMove
  <2>3. Asks(t)' => call'[t].tx > 0  BY <1>2 DEF TableOf, CallerOf, Asks
  <2>4. pc'[Me] = "query" => handling'.prim = "FloorQuery"
    BY <1>5 DEF TableOf, CallerOf
  <2>. QED  BY <1>4, <1>5, <1>6, <2>1, <2>2, <2>3, <2>4 DEF CallerOf
<1>8. ReleaseOf(t)'  BY <1>2, <1>4, <1>5 DEF ReleaseOf
<1>9. EntryOf(t)'
  <2>1. \A f : P!Owns(f, User)' <=> P!Owns(f, User)
    BY DEF P!Owns, User, CallerMove
  <2>2. \A f : ~Entering(t, f)  BY <1>1 DEF Entering
  <2>. QED  BY <1>2, <2>1, <2>2 DEF TableOf, EntryOf
<1>. QED  BY <1>7, <1>8, <1>9 DEF TableOf

LEMMA TimeoutTable ==
  ASSUME NEW t \in Threads, IInv, LinkInv, StartInv, Lone(t), TableOf(t), CallerMove,
         Timeout(t), Hopeless
  PROVE  TableOf(t)'
<1>0. call[t] \in SoundCall /\ call \in [Threads -> SoundCall]
  BY DEF IInv, ClientSound
<1>1. /\ call[t].at = "wait" /\ call'[t].at = "got"
      /\ call'[t].op = call[t].op /\ call'[t].tx = call[t].tx
      /\ call'[t].floor = call[t].floor /\ call'[t].resp = call[t].resp
      /\ chan' = chan /\ outbox' = outbox /\ requests' = requests
  <2>1. DOMAIN call[t] = {"op", "at", "floor", "tx", "req", "resp", "ok"}
    BY <1>0 DEF SoundCall, CallRecord
  <2>. QED  BY <1>0, <2>1 DEF Timeout, Goto, wireVars
<1>2. Asks(t)  BY <1>0, <1>1 DEF SoundCall, Asks
<1>3. chan[t] = None  BY <1>1 DEF Hopeless, Resting, Rests, Idle
<1>4. reader.at = "read" /\ inbox = <<>>
  BY <1>2 DEF Hopeless, Resting, StartInv, LinkInv, Lone
<1>5. outbox = <<>> /\ pc[Me] = "read"  BY <1>4 DEF Hopeless
<1>6. Answers(t)' = Answers(t)  BY <1>1 DEF Answers, CallerMove
<1>7. CallerOf(t)'
  <2>1. Contents(outbox') = {}  BY <1>1, <1>5, EmptyFacts
  <2>2. pc'[Me] = "read"  BY <1>5 DEF CallerMove
  <2>3. Asks(t)' => call'[t].tx > 0  BY <1>1 DEF TableOf, CallerOf, Asks
  <2>4. \A m \in Contents(inbox') : m.tx <= lastTx'
    BY DEF TableOf, CallerOf, CallerMove
  <2>5. reader'.msg # None => reader'.msg.tx <= lastTx'
    BY DEF TableOf, CallerOf, CallerMove
  <2>. QED  BY <1>1, <2>1, <2>2, <2>3, <2>4, <2>5 DEF CallerOf
<1>8. ReleaseOf(t)'
  BY <1>1, <1>5, <1>6 DEF TableOf, ReleaseOf, CallerMove, P!Owns, User
<1>9. EntryOf(t)'
  <2>1. \A f : P!Owns(f, User)' <=> P!Owns(f, User)
    BY DEF P!Owns, User, CallerMove
  <2>2. ~Answered(t)  BY <1>1, <1>3, <1>4, EmptyFacts DEF Answered
  <2>3. \A f : ~Entering(t, f)  BY <1>1, <1>5, <2>2 DEF Entering
  <2>. QED  BY <1>1, <2>1, <2>3 DEF TableOf, EntryOf
<1>. QED  BY <1>7, <1>8, <1>9 DEF TableOf

LEMMA CallerTable ==
  ASSUME NEW t \in Threads, IInv, IInv', LinkInv, Core, Lone(t), TableOf(t),
         Calls(t) \/ ThreadRuns(t), tr' # "closed"
  PROVE  TableOf(t)'
<1>0. /\ call \in [Threads -> SoundCall] /\ call[t] \in SoundCall
      /\ lastTx \in Nat /\ lastTx' \in Nat /\ inbox \in Seq(Sound)
      /\ reader \in SoundReader
      /\ DOMAIN call[t] = {"op", "at", "floor", "tx", "req", "resp", "ok"}
      /\ DOMAIN reader = {"at", "msg", "to"}
  BY DEF IInv, ClientSound, WiresSound, SoundCall, CallRecord, SoundReader,
         ReaderRecord
<1>1. /\ UNCHANGED <<handling, setup, pc, job, floors, fsm>>
  BY DEF Calls, ThreadRuns, serverVars
<1>2. /\ \A m \in Contents(inbox) : m.tx \in Nat
      /\ reader.msg # None => reader.msg.tx \in Nat
  <2>1. \A m \in Sound : m.tx \in Nat  BY DEF Sound, Message
  <2>. QED  BY <1>0, <2>1, ContentsSound DEF SoundReader
<1>3. \/ \E op, f, r : Begin(t, op, f, r)
      \/ Dial(t) \/ StartTransport(t) \/ Ready(t) \/ SetState(t) \/ Callback(t)
      \/ CloseTransport(t) \/ (Returned(t) /\ EndCall(t))
      \/ Send(t) \/ Receive(t) \/ Finish(t) \/ Apply(t)
      \/ (Timeout(t) /\ Hopeless)
  <2>1. CASE ApplicationCall(t)
    <3>1. \/ Dial(t) \/ Hello(t) \/ Goodbye(t) \/ Disconnect(t)
          \/ \E f \in FloorIDs : RequestFloor(t, f) \/ ReleaseFloor(t, f)
                                \/ QueryFloor(t, f)
      BY <2>1 DEF ApplicationCall, Lone
    <3>2. CASE Hello(t) \/ Goodbye(t) \/ Disconnect(t)
      BY <3>2 DEF Hello, Goodbye, Disconnect
    <3>3. ASSUME NEW f \in FloorIDs, RequestFloor(t, f) \/ ReleaseFloor(t, f)
                                     \/ QueryFloor(t, f)
          PROVE  \E op, g, r : Begin(t, op, g, r)
      BY <3>3 DEF RequestFloor, ReleaseFloor, QueryFloor
    <3>. QED  BY <3>1, <3>2, <3>3
  <2>2. CASE ThreadStep(t)  BY <2>2 DEF ThreadStep, CallStep, Lone, Timely
  <2>. QED  BY <2>1, <2>2 DEF Calls, ThreadRuns
<1>4. CallerMove
  <2>1. inbox' = inbox
    BY <1>3 DEF Begin, Dial, StartTransport, Ready, SetState, Callback,
       CloseTransport, EndCall, Send, Receive, Finish, Apply, Timeout, wireVars
  <2>2. reader'.msg = reader.msg
    <3>1. CASE StartTransport(t)  BY <1>0, <3>1 DEF StartTransport, ReaderGoto
    <3>2. CASE Finish(t)  BY <1>0, <3>2 DEF Finish
    <3>. QED
      BY <1>3, <3>1, <3>2 DEF Begin, Dial, Ready, SetState, Callback,
         CloseTransport, EndCall, Send, Receive, Apply, Timeout
  <2>3. lastTx' >= lastTx
    <3>1. lastTx' = lastTx \/ lastTx' = lastTx + 1
      BY <1>3 DEF Begin, Dial, StartTransport, Ready, SetState, Callback,
         CloseTransport, EndCall, Send, Receive, Finish, Apply, Timeout
    <3>. QED  BY <1>0, <3>1
  <2>. QED  BY <1>0, <1>1, <1>2, <2>1, <2>2, <2>3 DEF CallerMove
<1>5. CASE \E op, f, r : Begin(t, op, f, r)
  BY <1>4, <1>5, BeginTable DEF Core
<1>6. CASE \/ Dial(t) \/ StartTransport(t) \/ Ready(t) \/ SetState(t)
           \/ Callback(t) \/ (Returned(t) /\ EndCall(t))
  <2>1. UNCHANGED <<outbox, requests, chan>>
    BY <1>6 DEF Dial, StartTransport, Ready, SetState, Callback, EndCall, wireVars
  <2>2. call[t].at \notin {"send", "wait", "got", "apply"}
    BY <1>6 DEF Dial, StartTransport, Ready, SetState, Callback, Returned
  <2>3. /\ call'[t].at \notin {"send", "wait", "got", "apply"}
        /\ \/ call'[t].op = call[t].op /\ call'[t].tx = call[t].tx
              /\ call'[t].floor = call[t].floor /\ call'[t].resp = call[t].resp
           \/ call'[t].op \in {"none", "Connect"}
    <3>1. CASE Dial(t)
      <4>1. call'[t].at = "start" /\ call'[t].op = "Connect"
        BY <1>0, <3>1 DEF Dial, NoCall
      <4>. QED  BY <4>1
    <3>2. CASE EndCall(t)
      <4>1. call'[t].at = "idle" /\ call'[t].op = "none"
        BY <1>0, <3>2 DEF EndCall, NoCall
      <4>. QED  BY <4>1
    <3>3. CASE StartTransport(t) \/ Ready(t) \/ Callback(t)
      BY <1>0, <3>3 DEF StartTransport, Ready, Callback, Goto, Return
    <3>4. CASE SetState(t)
      <4>1. Goto(t, "callback") \/ Return(t, TRUE)  BY <3>4 DEF SetState
      <4>. QED  BY <1>0, <4>1 DEF Goto, Return
    <3>. QED  BY <1>6, <3>1, <3>2, <3>3, <3>4
  <2>. QED  BY <1>4, <2>1, <2>2, <2>3, IdleStepTable
<1>7. CASE CloseTransport(t)  BY <1>7 DEF CloseTransport
<1>8. CASE Send(t)  BY <1>4, <1>8, SendTable
<1>9. CASE Receive(t)  BY <1>4, <1>9, ReceiveTable DEF Core
<1>10. CASE Finish(t) \/ Apply(t)  BY <1>4, <1>10, FinishTable, ApplyTable
<1>11. CASE Timeout(t) /\ Hopeless  BY <1>4, <1>11, TimeoutTable DEF Core
<1>. QED  BY <1>3, <1>5, <1>6, <1>7, <1>8, <1>9, <1>10, <1>11

-----------------------------------------------------------------------------
(***************************************************************************)
(* The read loop.                                                          *)
(***************************************************************************)

\* What becomes of the answers to t and of the table.
ReaderBrings(t) ==
  /\ Contents(inbox') \subseteq Contents(inbox)
  /\ reader'.msg \in Contents(inbox) \cup {reader.msg, None}
  /\ \/ chan'[t] = chan[t]
     \/ chan'[t] = reader.msg /\ reader.msg # None /\ reader.msg.tx = call[t].tx
  /\ Registered(t) /\ Answered(t) => Answered(t)'
  /\ \A f \in FloorIDs : requests[f] # None => requests'[f] # None

LEMMA BringsTable ==
  ASSUME NEW t \in Threads, IInv, TableOf(t), ReaderBrings(t),
         UNCHANGED <<call, lastTx, outbox, handling, setup, pc, job, floors, fsm>>
  PROVE  TableOf(t)'
<1>1. Answers(t)' \subseteq Answers(t)
  BY DEF Answers, ReaderBrings
<1>2. \A m : Expects(t, m) => Expects(t, m)'
  BY <1>1 DEF Expects
<1>3. \A f : P!Owns(f, User)' <=> P!Owns(f, User)  BY DEF P!Owns, User
<1>4. CallerOf(t)'
  <2>1. Asks(t)' => call'[t].tx > 0  BY DEF TableOf, CallerOf, Asks
  <2>2. call'[t].at = "send" => Answers(t)' = {}  BY <1>1 DEF TableOf, CallerOf
  <2>3. \A m \in Contents(inbox') : m.tx <= lastTx'
    BY DEF TableOf, CallerOf, ReaderBrings
  <2>4. reader'.msg # None => reader'.msg.tx <= lastTx'
    BY DEF TableOf, CallerOf, ReaderBrings
  <2>5. \A m \in Contents(outbox') :
          m.prim \in {"FloorRequest", "FloorRelease"} => Expects(t, m)'
    BY <1>2 DEF TableOf, CallerOf
  <2>6. pc'[Me] \in {"request", "pending", "release", "released"} =>
          Expects(t, handling)'
    <3>. PICK h : h = handling  OBVIOUS
    <3>1. Expects(t, h) => Expects(t, h)'  BY <1>2
    <3>2. Expects(t, handling)' <=> Expects(t, h)'  BY DEF Expects
    <3>. QED  BY <3>1, <3>2 DEF TableOf, CallerOf
  <2>. QED  BY <2>1, <2>2, <2>3, <2>4, <2>5, <2>6 DEF TableOf, CallerOf
<1>5. ReleaseOf(t)'
  BY <1>1 DEF TableOf, ReleaseOf, P!Owns, User
<1>6. EntryOf(t)'
  <2>1. ASSUME NEW f, Entering(t, f)  PROVE Entering(t, f)'
    <3>1. call[t].at = "wait" => Registered(t)
      BY <2>1 DEF Entering, Registered, Waiting
    <3>. QED  BY <1>1, <2>1, <3>1 DEF Entering, ReaderBrings
  <2>. QED  BY <1>3, <2>1 DEF TableOf, EntryOf, ReaderBrings
<1>. QED  BY <1>4, <1>5, <1>6 DEF TableOf

LEMMA ReadMessageBrings ==
  ASSUME NEW t \in Threads, IInv, Core, ReadMessage
  PROVE  ReaderBrings(t)
<1>. PICK m : m = Head(inbox)  OBVIOUS
<1>. DEFINE waiters == {u \in Threads : Registered(u) /\ call[u].tx = m.tx}
<1>0. inbox \in Seq(Sound)  BY DEF IInv, WiresSound
<1>1. /\ inbox # <<>> /\ inbox' = Tail(inbox) /\ reader.at = "read"
      /\ chan' = chan /\ requests' = requests /\ call' = call
      /\ reader'.msg = m
      /\ waiters # {} => reader'.at = "deliver" /\ reader'.to \in waiters
  BY DEF ReadMessage
<1>2. Contents(inbox) = Contents(inbox') \cup {m}  BY <1>0, <1>1, TailFacts
<1>3. ASSUME Registered(t), Answered(t)  PROVE Answered(t)'
  <2>1. CASE m.tx = call[t].tx
    <3>1. reader'.at = "deliver" /\ reader'.to \in waiters  BY <1>1, <1>3, <2>1
    <3>2. reader'.to = t
      BY <1>3, <2>1, <3>1 DEF Core, TxInv, Asks, Registered
    <3>. QED  BY <3>1, <3>2 DEF Answered
  <2>2. CASE m.tx # call[t].tx
    BY <1>1, <1>2, <1>3, <2>2 DEF Answered
  <2>. QED  BY <2>1, <2>2
<1>. QED  BY <1>1, <1>2, <1>3 DEF ReaderBrings

LEMMA DeliverBrings ==
  ASSUME NEW t \in Threads, IInv, Core, Deliver
  PROVE  ReaderBrings(t)
<1>0. /\ reader \in SoundReader /\ reader.msg # None
      /\ DOMAIN reader = {"at", "msg", "to"} /\ DOMAIN chan = Threads
      /\ reader.at = "deliver"
  BY DEF IInv, ClientSound, SoundReader, ReaderRecord, Deliver
<1>1. inbox' = inbox /\ requests' = requests /\ call' = call
  BY DEF Deliver, wireVars
<1>2. CASE reader.to = Closed /\ UNCHANGED <<reader, chan>>
  BY <1>1, <1>2 DEF ReaderBrings, Answered
<1>3. CASE /\ reader.to # Closed /\ chan[reader.to] = None
           /\ chan' = [chan EXCEPT ![reader.to] = reader.msg] /\ ReadOn
  <2>1. reader'.msg = None  BY <1>3 DEF ReadOn
  <2>2. CASE reader.to = t
    <3>1. chan'[t] = reader.msg /\ reader.msg.tx = call[t].tx
      BY <1>0, <1>3, <2>2 DEF Core, ResponseInv
    <3>. QED  BY <1>0, <1>1, <2>1, <3>1 DEF ReaderBrings, Answered
  <2>3. CASE reader.to # t
    <3>1. chan'[t] = chan[t]  BY <1>0, <1>3, <2>3
    <3>. QED  BY <1>1, <2>1, <2>3, <3>1 DEF ReaderBrings, Answered
  <2>. QED  BY <2>2, <2>3
<1>4. CASE /\ reader.to # Closed /\ chan[reader.to] # None
           /\ ReaderGoto("handle") /\ chan' = chan
  <2>1. reader'.msg = reader.msg  BY <1>0, <1>4 DEF ReaderGoto
  <2>. QED  BY <1>1, <1>4, <2>1 DEF ReaderBrings, Answered
<1>. QED  BY <1>2, <1>3, <1>4 DEF Deliver

LEMMA ReaderTable ==
  ASSUME NEW t \in Threads, IInv, Core, Lone(t), TableOf(t), ReaderRuns
  PROVE  TableOf(t)'
<1>0. /\ reader \in SoundReader /\ DOMAIN reader = {"at", "msg", "to"}
      /\ requests \in [FloorIDs -> Entry]
  BY DEF IInv, ClientSound, SoundReader, ReaderRecord
<1>1. \/ ReadMessage \/ Deliver \/ HandleMessage \/ ReaderSetState \/ ReadExit
      \/ ReaderCallback \/ OnClose
  BY DEF ReaderRuns, ReadLoop, ReaderStep, Lone
<1>2. UNCHANGED <<call, lastTx, outbox, handling, setup, pc, job, floors, fsm>>
  <2>1. UNCHANGED <<handling, setup, pc, job, floors, fsm>>
    BY DEF ReaderRuns, serverVars
  <2>2. UNCHANGED <<call, lastTx, outbox>>
    BY <1>1 DEF ReadMessage, Deliver, HandleMessage, ReaderSetState, ReadExit,
       ReaderCallback, OnClose, wireVars
  <2>. QED  BY <2>1, <2>2
<1>3. CASE HandleMessage
  <2>1. inbox' = inbox /\ chan' = chan /\ reader.at = "handle"
    BY <1>3 DEF HandleMessage, wireVars
  <2>2. reader'.msg \in {reader.msg, None}
    BY <1>0, <1>3 DEF HandleMessage, ReadOn, ReaderGoto
  <2>3. ASSUME NEW f \in FloorIDs, requests[f] # None  PROVE requests'[f] # None
    <3>1. CASE requests'[f] = requests[f]  BY <2>3, <3>1
    <3>2. CASE requests'[f] # requests[f]
      <4>1. /\ reader.msg.prim = "FloorRequestStatus"
            /\ requests'[f] = [requests[f] EXCEPT !.status = reader.msg.status]
        BY <1>0, <1>3, <2>3, <3>2 DEF HandleMessage
      <4>2. reader.msg \in Sound /\ reader.msg.status \in Statuses
        BY <1>0, <2>1, <4>1 DEF SoundReader, Sound, WellFormed
      <4>3. requests[f] \in [req : ReqIDs, status : Statuses]
        BY <1>0, <2>3 DEF Entry
      <4>4. requests'[f] \in [req : ReqIDs, status : Statuses]
        BY <4>1, <4>2, <4>3
      <4>. QED  BY <4>4, ClientServerAssumption
    <3>. QED  BY <3>1, <3>2
  <2>4. Answered(t) => Answered(t)'
    BY <1>2, <2>1 DEF Answered
  <2>5. ReaderBrings(t)  BY <2>1, <2>2, <2>3, <2>4 DEF ReaderBrings
  <2>. QED  BY <1>2, <2>5, BringsTable
<1>4. CASE ReaderSetState \/ ReadExit \/ ReaderCallback \/ OnClose
  <2>1. inbox' = inbox /\ chan' = chan /\ requests' = requests
    BY <1>4 DEF ReaderSetState, ReadExit, ReaderCallback, OnClose, wireVars
  <2>2. reader.at # "deliver" /\ reader'.msg \in {reader.msg, None}
    BY <1>0, <1>4 DEF ReaderSetState, ReadExit, ReaderCallback, OnClose, ReadOn,
       ReaderGoto
  <2>3. Answered(t) => Answered(t)'
    BY <1>2, <2>1, <2>2 DEF Answered
  <2>4. ReaderBrings(t)  BY <2>1, <2>2, <2>3 DEF ReaderBrings
  <2>. QED  BY <1>2, <2>4, BringsTable
<1>5. CASE ReadMessage  BY <1>2, <1>5, ReadMessageBrings, BringsTable
<1>6. CASE Deliver  BY <1>2, <1>6, DeliverBrings, BringsTable
<1>. QED  BY <1>1, <1>3, <1>4, <1>5, <1>6

-----------------------------------------------------------------------------
(***************************************************************************)
(* The server.                                                             *)
(***************************************************************************)

\* The server answers t's call with m.
ToCaller(t, m) == m # None /\ m.tx = call[t].tx

\* How the server takes up messages and answers them (m, or nothing).
ServerDeals(t, m) ==
  /\ m # None => m.tx <= lastTx
  /\ Contents(outbox') \subseteq Contents(outbox)
  /\ ToCaller(t, m) =>
       /\ call[t].at # "send"
       /\ \A n \in Contents(outbox') :
            n.prim \in {"FloorRequest", "FloorRelease"} => n.tx # m.tx
       /\ pc'[Me] \notin {"request", "pending", "release", "released"}
       /\ \A f : Entering(t, f) => m.prim = "FloorRequestStatus"
       /\ call[t].op = "ReleaseFloor" /\ m.prim # "Error" =>
            ~P!Owns(call[t].floor, User)'
  /\ pc'[Me] \in {"request", "pending", "release", "released"} =>
       Expects(t, handling')
  /\ pc'[Me] = "request" => job'[Me].floor = floors'[handling'.floor]
  /\ pc'[Me] = "query" => handling'.prim = "FloorQuery"
  /\ call[t].op = "ReleaseFloor" /\ pc'[Me] = "released"
       /\ handling'.tx = call[t].tx => ~P!Owns(call[t].floor, User)'
  /\ pc[Me] = "pending" /\ handling.tx = call[t].tx =>
       \/ pc'[Me] = "pending" /\ handling' = handling
       \/ ToCaller(t, m)

\* Which floors the user has afterwards.
ServerGives(t) ==
  \A f \in FloorIDs : P!Owns(f, User)' =>
    \/ P!Owns(f, User)
    \/ /\ call[t].op = "RequestFloor" /\ call[t].floor = f /\ call[t].at = "wait"
       /\ Answers(t) = {}
       /\ pc'[Me] = "pending" /\ handling'.tx = call[t].tx

LEMMA ServerTable ==
  ASSUME NEW t \in Threads, IInv, TableOf(t), UNCHANGED <<clientVars, setup>>,
         NEW m, Says(m), ServerDeals(t, m), ServerGives(t)
  PROVE  TableOf(t)'
<1>0. /\ UNCHANGED <<call, lastTx, chan, reader, requests>>
      /\ lastTx \in Nat
      /\ call[t].op \in {"RequestFloor", "ReleaseFloor"} => call[t].floor \in FloorIDs
  BY DEF clientVars, IInv, ClientSound, SoundCall
<1>1. /\ \A n \in Contents(inbox) : n \in Contents(inbox')
      /\ \A n \in Contents(inbox') : n \in Contents(inbox) \/ (n = m /\ m # None)
      /\ m # None => m \in Contents(inbox')
  BY SaysFacts
<1>2. /\ \A n \in Answers(t)' : n \in Answers(t) \/ (n = m /\ ToCaller(t, m))
      /\ ~ToCaller(t, m) => Answers(t)' = Answers(t)
      /\ ToCaller(t, m) => Answered(t)'
      /\ Answered(t) => Answered(t)'
  <2>1. \A n \in Answers(t)' : n \in Answers(t) \/ (n = m /\ ToCaller(t, m))
    BY <1>0, <1>1 DEF Answers, ToCaller
  <2>2. \A n \in Answers(t) : n \in Answers(t)'
    BY <1>0, <1>1 DEF Answers
  <2>3. ToCaller(t, m) => Answered(t)'
    BY <1>0, <1>1 DEF Answered, ToCaller
  <2>4. Answered(t) => Answered(t)'
    BY <1>0, <1>1 DEF Answered
  <2>. QED  BY <2>1, <2>2, <2>3, <2>4
<1>3. ASSUME NEW n, Expects(t, n), ~ToCaller(t, m)  PROVE Expects(t, n)'
  BY <1>0, <1>2, <1>3 DEF Expects
<1>4. CallerOf(t)'
  <2>1. Asks(t)' => call'[t].tx > 0  BY <1>0 DEF TableOf, CallerOf, Asks
  <2>2. call'[t].at = "send" => Answers(t)' = {}
    BY <1>0, <1>2 DEF TableOf, CallerOf, ServerDeals
  <2>3. \A n \in Contents(inbox') : n.tx <= lastTx'
    BY <1>0, <1>1 DEF TableOf, CallerOf, ServerDeals
  <2>4. reader'.msg # None => reader'.msg.tx <= lastTx'
    BY <1>0 DEF TableOf, CallerOf
  <2>5. ASSUME NEW n \in Contents(outbox'), n.prim \in {"FloorRequest", "FloorRelease"}
        PROVE  Expects(t, n)'
    <3>1. Expects(t, n)  BY <2>5 DEF TableOf, CallerOf, ServerDeals
    <3>2. ~ToCaller(t, m)  BY <2>5, <3>1 DEF ServerDeals, Expects, ToCaller
    <3>. QED  BY <1>3, <3>1, <3>2
  <2>6. ASSUME pc'[Me] \in {"request", "pending", "release", "released"}
        PROVE  Expects(t, handling)'
    <3>. PICK h : h = handling'  OBVIOUS
    <3>1. Expects(t, h) /\ ~ToCaller(t, m)  BY <2>6 DEF ServerDeals
    <3>2. Expects(t, h)'  BY <1>3, <3>1
    <3>. QED  BY <3>2 DEF Expects
  <2>7. /\ pc'[Me] = "request" => job'[Me].floor = floors'[handling'.floor]
        /\ pc'[Me] = "query" => handling'.prim = "FloorQuery"
    BY DEF ServerDeals
  <2>. QED  BY <2>1, <2>2, <2>3, <2>4, <2>5, <2>6, <2>7 DEF CallerOf
<1>5. ReleaseOf(t)'
  <2>. PICK f : f = call[t].floor  OBVIOUS
  <2>. SUFFICES ASSUME call[t].op = "ReleaseFloor",
                       \/ pc'[Me] = "released" /\ handling'.tx = call[t].tx
                       \/ \E n \in Answers(t)' : n.prim # "Error"
                       \/ call[t].at = "apply"
                PROVE  ~P!Owns(f, User)'
    BY <1>0 DEF ReleaseOf, P!Owns
  <2>0. f \in FloorIDs  BY <1>0
  <2>1. ~P!Owns(f, User) => ~P!Owns(f, User)'
    BY <2>0 DEF ServerGives
  <2>2. ASSUME P!Owns(call[t].floor, User)' PROVE P!Owns(f, User)'
    BY <1>0, <2>2 DEF P!Owns
  <2>3. ASSUME ~P!Owns(call[t].floor, User)' PROVE ~P!Owns(f, User)'
    BY <1>0, <2>3 DEF P!Owns
  <2>4. CASE pc'[Me] = "released" /\ handling'.tx = call[t].tx
    BY <2>3, <2>4 DEF ServerDeals
  <2>5. ASSUME NEW n \in Answers(t)', n.prim # "Error"
        PROVE  ~P!Owns(f, User)'
    <3>1. CASE n \in Answers(t)
      BY <2>1, <2>5, <3>1 DEF TableOf, ReleaseOf
    <3>2. CASE n = m /\ ToCaller(t, m)
      BY <2>3, <2>5, <3>2 DEF ServerDeals
    <3>. QED  BY <1>2, <3>1, <3>2
  <2>6. CASE call[t].at = "apply"
    BY <2>1, <2>6 DEF TableOf, ReleaseOf
  <2>. QED  BY <2>4, <2>5, <2>6
<1>6. EntryOf(t)'
  <2>. SUFFICES ASSUME NEW f \in FloorIDs, P!Owns(f, User)', requests[f] = None
                PROVE  Entering(t, f)'
    BY <1>0 DEF EntryOf
  <2>1. CASE P!Owns(f, User)
    <3>1. Entering(t, f)  BY <2>1 DEF TableOf, EntryOf
    <3>2. \A n \in Answers(t)' : n.prim = "FloorRequestStatus"
      BY <1>2, <3>1 DEF Entering, ServerDeals
    <3>3. CASE call[t].at = "wait" /\ Answered(t)
      BY <1>0, <1>2, <3>1, <3>2, <3>3 DEF Entering
    <3>4. CASE call[t].at = "wait" /\ pc[Me] = "pending" /\ handling.tx = call[t].tx
      BY <1>0, <1>2, <3>1, <3>2, <3>4 DEF Entering, ServerDeals
    <3>5. CASE call[t].at # "wait"
      BY <1>0, <3>1, <3>2, <3>5 DEF Entering
    <3>. QED  BY <3>1, <3>3, <3>4, <3>5 DEF Entering
  <2>2. CASE /\ call[t].op = "RequestFloor" /\ call[t].floor = f
             /\ call[t].at = "wait" /\ Answers(t) = {}
             /\ pc'[Me] = "pending" /\ handling'.tx = call[t].tx
    <3>1. ~ToCaller(t, m)  BY <2>2 DEF ServerDeals
    <3>2. Answers(t)' = {}  BY <1>2, <2>2, <3>1
    <3>. QED  BY <1>0, <2>2, <3>2 DEF Entering
  <2>. QED  BY <2>1, <2>2 DEF ServerGives
<1>. QED  BY <1>4, <1>5, <1>6 DEF TableOf

\* A step that does not move the handler of Me.
LEMMA BystanderDeals ==
  ASSUME NEW t \in Threads, IInv, TableOf(t), UNCHANGED clientVars,
         handling' = handling, outbox' = outbox,
         pc'[Me] = pc[Me], job'[Me] = job[Me],
         \A f \in FloorIDs : P!Owns(f, User)' => P!Owns(f, User),
         pc[Me] = "request" => floors'[handling.floor] = floors[handling.floor],
         NEW m, m # None => m.tx = 0
  PROVE  ServerDeals(t, m) /\ ServerGives(t)
<1>0. call' = call /\ call[t] \in SoundCall /\ lastTx \in Nat
  BY DEF clientVars, IInv, ClientSound
<1>1. ASSUME ToCaller(t, m)
      PROVE  /\ call[t].op \notin {"RequestFloor", "ReleaseFloor"}
             /\ call[t].at # "send"
  <2>1. ~Asks(t)  BY <1>1 DEF ToCaller, TableOf, CallerOf
  <2>. QED  BY <1>0, <2>1 DEF Asks, Waiting, SoundCall
<1>2. ToCaller(t, m) =>
        /\ \A n \in Contents(outbox') :
             n.prim \in {"FloorRequest", "FloorRelease"} => n.tx # m.tx
        /\ pc'[Me] \notin {"request", "pending", "release", "released"}
        /\ \A f : Entering(t, f) => m.prim = "FloorRequestStatus"
  BY <1>1 DEF TableOf, CallerOf, Expects, Entering
<1>3. call[t].op = "ReleaseFloor" /\ pc'[Me] = "released"
        /\ handling'.tx = call[t].tx => ~P!Owns(call[t].floor, User)'
  <2>. SUFFICES ASSUME call[t].op = "ReleaseFloor", pc[Me] = "released",
                       handling.tx = call[t].tx, P!Owns(call[t].floor, User)'
                PROVE  FALSE
    OBVIOUS
  <2>. PICK f : f = call[t].floor  OBVIOUS
  <2>1. f \in FloorIDs  BY <1>0 DEF SoundCall
  <2>2. P!Owns(f, User)'  BY <1>0 DEF P!Owns
  <2>3. P!Owns(f, User)  BY <2>1, <2>2
  <2>. QED  BY <2>3 DEF TableOf, ReleaseOf
<1>4. ServerDeals(t, m)
  BY <1>0, <1>1, <1>2, <1>3 DEF ServerDeals, TableOf, CallerOf
<1>5. ServerGives(t)  BY DEF ServerGives
<1>. QED  BY <1>4, <1>5

LEMMA PeerTable ==
  ASSUME NEW t \in Threads, S!OneConnectionPerUser, IInv, P!IInv, Core, Lone(t),
         TableOf(t), NEW c \in setup.peers, Peer(c)
  PROVE  TableOf(t)'
<1>0. /\ Me \in Conns /\ c \in Conns /\ c # Me
      /\ P!FloorInv /\ P!TypeOK /\ P!ClientInv(c) /\ P!ClientInv(Me)
      /\ P!OneConnectionPerUser
  BY ClientServerAssumption, SameUsers DEF IInv, AllSetups, P!IInv, P!FloorInv
<1>1. P!StepOf(c)
  <2>1. S!Dispatch(c) \/ S!HandlerStep(c) \/ S!ConnectionStep(c)
    <3>1. setup.decisions \subseteq Decisions  BY DEF IInv, AllSetups
    <3>. QED  BY <3>1, ClientServerAssumption DEF Peer, OtherHandles,
              S!HandlerStep, S!Dispatch, S!ConnectionStep
  <2>. QED  BY <2>1, SameStep
<1>2. P!Apart(Me)
  BY <1>0, <1>1, ServerConstants, P!StepApart DEF P!ConstantsAssumption
<1>3. P!FloorsKept(Me)
  BY <1>0, <1>1, ServerConstants, P!StepKeepsFloors DEF P!ConstantsAssumption
<1>4. ASSUME NEW f \in FloorIDs, P!Owns(f, User)'  PROVE P!Owns(f, User)
  <2>1. floors[f] # Nil => floors[f] \in Cells /\ P!Registered(floors[f])
    BY <1>0 DEF P!TypeOK, P!Registered
  <2>. QED  BY <1>3, <1>4, <2>1 DEF P!FloorsKept, P!Owns, User
<1>5. pc[Me] = "request" => floors'[handling.floor] = floors[handling.floor]
  <2>. SUFFICES ASSUME pc[Me] = "request"
                PROVE  floors'[handling.floor] = floors[handling.floor]
    OBVIOUS
  <2>1. handling \in Sound /\ handling.prim = "FloorRequest"
    BY DEF IInv, HandlingSound, Core, HandlerInv
  <2>2. handling.floor \in FloorIDs  BY <2>1 DEF Sound, WellFormed
  <2>3. job[Me].floor = floors[handling.floor]  BY DEF TableOf, CallerOf
  <2>4. job[Me].floor # Nil
    BY <1>0 DEF P!ClientInv, P!PointersOf, P!FloorLabels
  <2>. QED  BY <1>3, <2>2, <2>3, <2>4 DEF P!FloorsKept
<1>6. outbox' = outbox /\ \E m : Says(m) /\ (m # None => m.tx = 0)
  <2>1. CASE UNCHANGED wireVars
    BY <2>1 DEF wireVars, Says
  <2>2. ASSUME S!SendBroadcast(c), NEW r \in S!RequestIDs,
               Announce("FloorRequestStatus", S!Fid(c), r, "Released")
        PROVE  outbox' = outbox /\ \E m : Says(m) /\ (m # None => m.tx = 0)
    <3>. DEFINE m == [prim |-> "FloorRequestStatus", tx |-> 0,
                      floor |-> S!Fid(c), req |-> r, status |-> "Released"]
    <3>1. pc[c] \in P!FloorLabels  BY <2>2 DEF S!SendBroadcast, P!FloorLabels
    <3>2. S!Fid(c) \in FloorIDs /\ r \in ReqIDs
      BY <1>0, <3>1, ServerFields, SameIDs DEF IInv
    <3>3. m \in Sound
      BY <3>2 DEF Sound, WellFormed, Message, Statuses
    <3>4. Write(m)  BY <2>2 DEF Announce, Lone
    <3>5. m.tx = 0  OBVIOUS
    <3>. HIDE DEF m
    <3>. QED  BY <3>3, <3>4, <3>5, ServerWrites
  <2>. QED  BY <2>1, <2>2 DEF Peer, OtherHandles
<1>7. UNCHANGED <<clientVars, setup>> /\ handling' = handling
  BY DEF Peer
<1>8. pc'[Me] = pc[Me] /\ job'[Me] = job[Me]  BY <1>2 DEF P!Apart
<1>9. PICK m : Says(m) /\ (m # None => m.tx = 0)  BY <1>6
<1>10. ServerDeals(t, m) /\ ServerGives(t)
  BY <1>4, <1>5, <1>6, <1>7, <1>8, <1>9, BystanderDeals
<1>. QED  BY <1>7, <1>9, <1>10, ServerTable

LEMMA AcceptedTable ==
  ASSUME NEW t \in Threads, IInv, TableOf(t), Accepted,
         UNCHANGED <<clientVars, handling, setup>>
  PROVE  TableOf(t)'
<1>1. UNCHANGED <<pc, job, floors, fsm, outbox>> /\ Says(None)
  BY DEF Accepted, S!Accept, wireVars, Says
<1>2. \A f \in FloorIDs : P!Owns(f, User)' => P!Owns(f, User)
  BY <1>1 DEF P!Owns, User
<1>3. ServerDeals(t, None) /\ ServerGives(t)
  BY <1>1, <1>2, BystanderDeals
<1>. QED  BY <1>1, <1>3, ServerTable

\* A message of the caller's transaction is the caller's request.
LEMMA OwnRequest ==
  ASSUME NEW t \in Threads, NEW n, Underway(n), n.tx = call[t].tx, call[t] \in SoundCall
  PROVE  /\ call[t].at # "send"
         /\ call[t].op = "RequestFloor" => n.prim = "FloorRequest"
         /\ call[t].op = "ReleaseFloor" =>
              n.prim = "FloorRelease" /\ n.floor = call[t].floor
<1>1. CASE Asks(t)
  <2>1. call[t].at # "send" /\ n = Request(t)  BY <1>1 DEF Underway
  <2>. QED  BY <2>1 DEF Request
<1>2. CASE ~Asks(t)  BY <1>2 DEF Asks, Waiting, SoundCall
<1>. QED  BY <1>1, <1>2

LEMMA ServerReadsTable ==
  ASSUME NEW t \in Threads, S!OneConnectionPerUser, IInv, TableOf(t),
         ServerReads, UNCHANGED <<clientVars, setup>>
  PROVE  TableOf(t)'
<1>0. /\ Me \in Conns /\ P!TypeOK /\ pc \in [Conns -> P!Labels]
      /\ job \in [Conns -> P!Jobs] /\ outbox \in Seq(Sound)
      /\ floors \in [FloorIDs -> Cells \cup {Nil}]
  BY ClientServerAssumption
  DEF IInv, WiresSound, ServerSound, P!FloorInv, P!TypeOK
<1>1. PICK h \in {Head(outbox) : i \in 1 .. Len(outbox)} :
        /\ Take(h)
        /\ \/ h.prim = "FloorRequest" /\ \E g \in setup.decisions :
                                           S!HandleFloorRequest(Me, h.floor, g)
           \/ h.prim = "FloorRelease" /\ S!ReleaseByFloorID(Me, h.floor)
           \/ h.prim = "FloorQuery" /\ S!HandleFloorQuery(Me, h.floor)
           \/ h.prim = "Goodbye" /\ S!HandleGoodbye(Me)
  BY DEF ServerReads
<1>2. /\ outbox # <<>> /\ h = Head(outbox) /\ outbox' = Tail(outbox)
      /\ handling' = h /\ inbox' = inbox
  BY <1>1 DEF Take
<1>3. /\ h \in Sound /\ Contents(outbox) = Contents(outbox') \cup {h}
  BY <1>0, <1>2, TailFacts
<1>4. h.prim \in {"FloorRequest", "FloorRelease", "FloorQuery"} =>
        h.floor \in FloorIDs
  BY <1>3 DEF Sound, WellFormed
<1>5. /\ pc[Me] = "read"
      /\ \/ /\ h.prim = "FloorRequest" /\ pc'[Me] = "request"
            /\ job'[Me].floor = floors'[h.floor]
         \/ h.prim = "FloorRelease" /\ pc'[Me] = "release"
         \/ h.prim = "FloorQuery" /\ pc'[Me] = "query"
         \/ h.prim = "Goodbye" /\ pc'[Me] = "goodbye"
  <2>1. ASSUME NEW g \in setup.decisions, S!HandleFloorRequest(Me, h.floor, g),
               h.prim = "FloorRequest"
        PROVE  /\ pc[Me] = "read" /\ pc'[Me] = "request"
               /\ job'[Me].floor = floors'[h.floor]
    <3>1. pc[Me] = "read" /\ pc'[Me] = "request"
      BY <1>0, <2>1 DEF S!HandleFloorRequest, S!Reading, S!Goto
    <3>2. PICK o \in Cells :
            /\ \/ floors[h.floor] = o /\ UNCHANGED S!floorVars
               \/ S!NewFloor(h.floor, o)
            /\ job' = [job EXCEPT ![Me] =
                 [S!NoJob EXCEPT !.floor = o, !.req = S!NextID, !.grant = g]]
      BY <2>1 DEF S!HandleFloorRequest
    <3>3. floors'[h.floor] = o
      BY <1>0, <1>4, <2>1, <3>2 DEF S!NewFloor, S!floorVars
    <3>4. job'[Me].floor = o  BY <1>0, <3>2 DEF S!NoJob
    <3>. QED  BY <3>1, <3>3, <3>4
  <2>2. CASE h.prim = "FloorRelease" /\ S!ReleaseByFloorID(Me, h.floor)
    BY <1>0, <2>2 DEF S!ReleaseByFloorID, S!StartRelease, S!Goto, S!Reading
  <2>3. CASE h.prim = "FloorQuery" /\ S!HandleFloorQuery(Me, h.floor)
    BY <1>0, <2>3 DEF S!HandleFloorQuery, S!Goto, S!Reading
  <2>4. CASE h.prim = "Goodbye" /\ S!HandleGoodbye(Me)
    BY <1>0, <2>4 DEF S!HandleGoodbye, S!Goto, S!Reading
  <2>. QED  BY <1>1, <2>1, <2>2, <2>3, <2>4
<1>6. S!Dispatch(Me)
  <2>1. setup.decisions \subseteq Decisions  BY DEF IInv, AllSetups
  <2>. QED  BY <1>1, <1>4, <2>1, ClientServerAssumption DEF S!Dispatch
<1>7. \A f \in FloorIDs : P!Owns(f, User)' => P!Owns(f, User)
  BY <1>0, <1>5, <1>6, SameStep, OwnStepsGiveNone
<1>8. h.prim \in {"FloorRequest", "FloorRelease"} => Expects(t, h)
  BY <1>3 DEF TableOf, CallerOf
<1>9. ServerDeals(t, None)
  BY <1>2, <1>3, <1>5, <1>8 DEF ServerDeals, ToCaller
<1>10. ServerGives(t)  BY <1>7 DEF ServerGives
<1>11. Says(None)  BY <1>2 DEF Says
<1>. QED  BY <1>9, <1>10, <1>11, ServerTable

LEMMA ServerAnswersTable ==
  ASSUME NEW t \in Threads, IInv, Core, TableOf(t), ServerAnswers,
         UNCHANGED <<clientVars, setup>>
  PROVE  TableOf(t)'
<1>. PICK h : h = Head(outbox)  OBVIOUS
<1>0. /\ Me \in Conns /\ outbox \in Seq(Sound) /\ outbox # <<>>
      /\ outbox' = Tail(outbox) /\ pc[Me] = "read" /\ lastTx \in Nat
      /\ call[t] \in SoundCall
  BY ClientServerAssumption
  DEF IInv, WiresSound, ClientSound, ServerAnswers, S!Reading
<1>1. PICK prim \in {"HelloAck", "Error"} :
        /\ inbox' = Append(inbox, [prim |-> prim, tx |-> h.tx, floor |-> None,
                                   req |-> None, status |-> None])
        /\ \/ h.prim = "Hello"
           \/ h.prim \in {"FloorRelease", "FloorQuery"} /\ prim = "Error"
  BY DEF ServerAnswers
<1>2. UNCHANGED <<pc, floors, fsm>>
  BY DEF ServerAnswers, S!Hello, serverVars
<1>3. /\ h \in Sound /\ Contents(outbox) = Contents(outbox') \cup {h}
      /\ Distinct(outbox) => \A n \in Contents(outbox') : n.tx # h.tx
  BY <1>0, TailFacts
<1>. DEFINE m == [prim |-> prim, tx |-> h.tx, floor |-> None, req |-> None,
                  status |-> None]
<1>4. m \in Sound /\ m.tx = h.tx /\ m.prim = prim
  BY <1>1, <1>3 DEF Sound, WellFormed, Message
<1>5. Says(m)  BY <1>1, <1>4 DEF Says
<1>. HIDE DEF m
<1>6. Underway(h) /\ \A n \in Contents(outbox') : n.tx # h.tx
  BY <1>3 DEF Core, TxInv
<1>7. ToCaller(t, m) => /\ call[t].at # "send" /\ call[t].op # "RequestFloor"
                        /\ call[t].op = "ReleaseFloor" => m.prim = "Error"
  BY <1>0, <1>1, <1>4, <1>6, OwnRequest DEF ToCaller
<1>8. ServerDeals(t, m)
  BY <1>0, <1>2, <1>3, <1>4, <1>6, <1>7 DEF ServerDeals, Underway, Entering
<1>9. ServerGives(t)  BY <1>2 DEF ServerGives, P!Owns, User
<1>. QED  BY <1>5, <1>8, <1>9, ServerTable

\* An answer to a call that waits is among the call's answers.
LEMMA AnsweredHasAnswers ==
  ASSUME NEW t \in Threads, IInv, ResponseInv, Answers(t) = {}, call[t].at = "wait"
  PROVE  ~Answered(t)
<1>1. inbox \in Seq(Sound) /\ None \notin Sound /\ reader \in SoundReader
  BY NoneFacts DEF IInv, WiresSound, ClientSound
<1>2. \A m \in Contents(inbox) : m # None  BY <1>1, ContentsSound
<1>3. ~(\E m \in Contents(inbox) : m.tx = call[t].tx)
  BY <1>2 DEF Answers
<1>4. ~(reader.at = "deliver" /\ reader.to = t)
  BY <1>1 DEF SoundReader, ResponseInv, Answers
<1>5. chan[t] = None  BY DEF Answers
<1>. QED  BY <1>3, <1>4, <1>5 DEF Answered

\* A step of the handler that says m, and what it may say.
LEMMA HandlerSays ==
  ASSUME NEW t \in Threads, IInv, Core, TableOf(t), ServerHandles,
         ~S!GoodbyeEnd(Me), UNCHANGED <<clientVars, setup>>,
         NEW m \in Sound, Says(m), m.tx = handling.tx,
         pc'[Me] \notin {"request", "pending", "release", "released", "query"},
         \/ m.prim = "Error" /\ pc[Me] \in {"request", "release"}
         \/ /\ m.prim = "FloorRequestStatus"
            /\ pc[Me] \in {"pending", "granted", "denied", "released"}
         \/ m.prim = "FloorStatus" /\ pc[Me] = "query",
         \A f \in FloorIDs : P!Owns(f, User)' => P!Owns(f, User)
  PROVE  TableOf(t)'
<1>0. /\ call[t] \in SoundCall /\ call' = call /\ lastTx \in Nat
      /\ outbox' = outbox /\ pc[Me] # "read"
  BY HandlerGoesOn
  DEF clientVars, IInv, ClientSound, ServerHandles, Reply, ErrorOrNothing,
      Write, wireVars, HandlerGoes
<1>1. m # None /\ handling # None  BY <1>0, NoneFacts DEF IInv, HandlingSound
<1>2. Underway(handling) /\ \A n \in Contents(outbox) : n.tx # handling.tx
  BY <1>1 DEF Core, TxInv
<1>3. ToCaller(t, m) =>
        /\ call[t].at # "send"
        /\ call[t].op = "RequestFloor" => handling.prim = "FloorRequest"
        /\ call[t].op = "ReleaseFloor" => handling.prim = "FloorRelease"
  BY <1>0, <1>2, OwnRequest DEF ToCaller
<1>4. ASSUME ToCaller(t, m), NEW f, Entering(t, f)
      PROVE  m.prim = "FloorRequestStatus"
  <2>1. CASE m.prim = "Error" /\ pc[Me] \in {"request", "release"}
    <3>1. call[t].at = "wait" /\ Answers(t) = {}
      BY <2>1 DEF TableOf, CallerOf, Expects
    <3>2. ~Answered(t)  BY <3>1, AnsweredHasAnswers DEF Core
    <3>. QED  BY <1>4, <2>1, <3>1, <3>2 DEF Entering
  <2>2. CASE m.prim = "FloorStatus" /\ pc[Me] = "query"
    BY <1>3, <1>4, <2>2 DEF Entering, TableOf, CallerOf
  <2>. QED  BY <2>1, <2>2
<1>5. ASSUME ToCaller(t, m), call[t].op = "ReleaseFloor", m.prim # "Error"
      PROVE  ~P!Owns(call[t].floor, User)'
  <2>. PICK f : f = call[t].floor  OBVIOUS
  <2>1. pc[Me] = "released"
    BY <1>3, <1>5 DEF Core, HandlerInv, TableOf, CallerOf
  <2>2. ~P!Owns(f, User)
    BY <1>5, <2>1 DEF ToCaller, TableOf, ReleaseOf
  <2>3. f \in FloorIDs  BY <1>0, <1>5 DEF SoundCall
  <2>4. ~P!Owns(f, User)'  BY <2>2, <2>3
  <2>. QED  BY <1>0, <2>4 DEF P!Owns
<1>6. ServerDeals(t, m)
  BY <1>0, <1>1, <1>2, <1>3, <1>4, <1>5 DEF ServerDeals, ToCaller, Underway
<1>7. ServerGives(t)  BY DEF ServerGives
<1>. QED  BY <1>6, <1>7, ServerTable

\* A step of the handler that says nothing to the client and takes it nowhere
\* the caller waits for.
LEMMA HandlerSilent ==
  ASSUME NEW t \in Threads, IInv, TableOf(t), UNCHANGED <<clientVars, setup>>,
         UNCHANGED wireVars, pc[Me] # "pending",
         pc'[Me] \notin {"request", "pending", "release", "released", "query"},
         \A f \in FloorIDs : P!Owns(f, User)' => P!Owns(f, User)
  PROVE  TableOf(t)'
<1>1. Says(None) /\ outbox' = outbox  BY DEF Says, wireVars
<1>2. ServerDeals(t, None)  BY <1>1 DEF ServerDeals, ToCaller
<1>3. ServerGives(t)  BY DEF ServerGives
<1>. QED  BY <1>1, <1>2, <1>3, ServerTable

\* floor.Request makes the user the owner of the floor it asked for.
LEMMA RequestTable ==
  ASSUME NEW t \in Threads, IInv, P!IInv, Core, TableOf(t),
         UNCHANGED <<clientVars, setup, wireVars, handling>>,
         S!FloorRequest(Me), pc'[Me] = "pending"
  PROVE  TableOf(t)'
<1>0. /\ Me \in Conns /\ P!MapIsFaithful
      /\ pc \in [Conns -> P!Labels]
      /\ floors \in [FloorIDs -> Cells \cup {Nil}] /\ fsm \in [Cells -> P!Floors]
      /\ call[t] \in SoundCall /\ Nil \notin Cells
  BY ClientServerAssumption
  DEF IInv, ClientSound, P!IInv, P!FloorInv, P!TypeOK
<1>1. /\ pc[Me] = "request" /\ floors' = floors
      /\ \A o \in Cells : o # job[Me].floor => fsm'[o] = fsm[o]
  BY <1>0 DEF S!FloorRequest
<1>2. /\ Expects(t, handling) /\ job[Me].floor = floors[handling.floor]
      /\ handling.prim = "FloorRequest" /\ handling \in Sound /\ handling # None
  BY <1>1 DEF TableOf, CallerOf, Core, HandlerInv, IInv, HandlingSound
<1>3. Underway(handling)  BY <1>2 DEF Core, TxInv
<1>4. /\ call[t].op = "RequestFloor" /\ call[t].floor = handling.floor
      /\ call[t].at = "wait" /\ call[t].tx = handling.tx /\ Answers(t) = {}
  <2>1. call[t].op \in {"RequestFloor", "ReleaseFloor"} /\ call[t].tx = handling.tx
    BY <1>2 DEF Expects
  <2>2. handling = Request(t)  BY <1>3, <2>1 DEF Underway, Asks, Waiting
  <2>3. handling.floor = call[t].floor  BY <2>2 DEF Request
  <2>. QED  BY <1>0, <1>2, <1>3, <2>1, <2>3, OwnRequest DEF Expects
<1>5. handling.floor \in FloorIDs  BY <1>2 DEF Sound, WellFormed
<1>6. ServerGives(t)
  <2>. SUFFICES ASSUME NEW f \in FloorIDs, P!Owns(f, User)', ~P!Owns(f, User)
                PROVE  f = handling.floor
    BY <1>4 DEF ServerGives
  <2>1. floors[f] # Nil /\ floors[f] \in Cells  BY <1>0, <1>1 DEF P!Owns
  <2>2. floors[f] = floors[handling.floor]
    BY <1>1, <1>2, <2>1 DEF P!Owns, User
  <2>. QED  BY <1>0, <1>5, <2>1, <2>2 DEF P!MapIsFaithful
<1>7. Says(None) /\ outbox' = outbox  BY DEF Says, wireVars
<1>8. ServerDeals(t, None)
  BY <1>1, <1>2, <1>4, <1>7 DEF ServerDeals, ToCaller
<1>. QED  BY <1>6, <1>7, <1>8, ServerTable

\* floor.Release takes the floor of the release from the user.
LEMMA ReleaseTable ==
  ASSUME NEW t \in Threads, S!OneConnectionPerUser, IInv, Core, TableOf(t),
         UNCHANGED <<clientVars, setup, wireVars, handling>>,
         S!FloorRelease(Me), pc'[Me] = "released",
         \A f \in FloorIDs : P!Owns(f, User)' => P!Owns(f, User)
  PROVE  TableOf(t)'
<1>0. /\ Me \in Conns /\ P!TypeOK /\ User # P!NoUser
      /\ pc \in [Conns -> P!Labels]
      /\ floors \in [FloorIDs -> Cells \cup {Nil}] /\ fsm \in [Cells -> P!Floors]
      /\ call[t] \in SoundCall /\ call' = call /\ Nil \notin Cells
  BY ClientServerAssumption, SameUsers
  DEF IInv, ServerSound, ClientSound, clientVars, P!FloorInv, P!TypeOK, User
<1>1. /\ pc[Me] = "release" /\ floors' = floors
      /\ fsm' = [fsm EXCEPT ![job[Me].floor] = S!Release(fsm[job[Me].floor])]
  BY <1>0 DEF S!FloorRelease, S!Return, S!Goto
<1>2. /\ Expects(t, handling) /\ job[Me].floor = floors[handling.floor]
      /\ handling # None
  BY <1>1 DEF TableOf, CallerOf, Core, HandlerInv, IInv, HandlingSound
<1>3. Underway(handling)  BY <1>2 DEF Core, TxInv
<1>4. ASSUME call[t].op = "ReleaseFloor", handling.tx = call[t].tx
      PROVE  ~P!Owns(call[t].floor, User)'
  <2>1. handling.floor = call[t].floor  BY <1>0, <1>3, <1>4, OwnRequest
  <2>2. floors[call[t].floor] = job[Me].floor  BY <1>2, <2>1
  <2>3. call[t].floor \in FloorIDs  BY <1>0, <1>4 DEF SoundCall
  <2>4. ASSUME job[Me].floor \in Cells
        PROVE  fsm'[job[Me].floor].owner = P!NoUser
    <3>1. fsm'[job[Me].floor] = S!Release(fsm[job[Me].floor])
      BY <1>0, <1>1, <2>4
    <3>2. fsm[job[Me].floor] \in P!Floors  BY <1>0, <2>4
    <3>. QED  BY <3>1, <3>2 DEF S!Release, P!Floors, P!NoUser, S!NoUser
  <2>. QED  BY <1>0, <1>1, <2>2, <2>3, <2>4 DEF P!Owns, User
<1>5. Says(None) /\ outbox' = outbox  BY DEF Says, wireVars
<1>6. ServerDeals(t, None)
  BY <1>1, <1>2, <1>4, <1>5 DEF ServerDeals, ToCaller
<1>7. ServerGives(t)  BY DEF ServerGives
<1>. QED  BY <1>5, <1>6, <1>7, ServerTable

LEMMA ServerHandlesTable ==
  ASSUME NEW t \in Threads, S!OneConnectionPerUser, IInv, P!IInv, ServerFacts,
         ConnInv, Core, Lone(t), TableOf(t), ServerHandles, ~S!GoodbyeEnd(Me),
         UNCHANGED <<clientVars, setup>>
  PROVE  TableOf(t)'
<1>0. /\ Me \in Conns /\ P!TypeOK /\ P!FloorInv
      /\ pc \in [Conns -> P!Labels] /\ job \in [Conns -> P!Jobs]
  BY ClientServerAssumption
  DEF IInv, ServerSound, P!FloorInv, P!TypeOK
<1>1. HandlerGoes  BY HandlerGoesOn
<1>2. handling' = IF pc'[Me] = "read" THEN None ELSE handling
  BY DEF ServerHandles
<1>3. /\ conn[Me] = "open" /\ link = "up"
      /\ handling \in Sound /\ handling # None /\ handling.tx \in Nat
  <2>1. pc[Me] # "read"  BY <1>1 DEF HandlerGoes
  <2>2. conn[Me] = "open" /\ link = "up"
    BY <2>1, HandlerConnected DEF Lone, Timely
  <2>3. handling \in Sound /\ handling # None
    BY <2>1 DEF IInv, HandlingSound
  <2>. QED  BY <2>2, <2>3 DEF Sound, Message
<1>4. ASSUME pc[Me] # "request", NEW f \in FloorIDs, P!Owns(f, User)'
      PROVE  P!Owns(f, User)
  <2>1. S!HandlerStep(Me)  BY DEF ServerHandles, S!HandlerStep
  <2>. QED  BY <1>0, <1>4, <2>1, SameStep, OwnStepsGiveNone
<1>5. pc[Me] \in P!FloorLabels => S!Fid(Me) \in FloorIDs
  BY <1>0, ServerFields DEF IInv
<1>6. job[Me].req \in ReqIDs  BY <1>0, ServerFields DEF IInv
<1>7. ASSUME NEW prim \in {"FloorRequestStatus", "FloorStatus", "Error"},
             NEW f \in FloorIDs \cup {None}, NEW r \in ReqIDs \cup {None},
             NEW st \in Statuses \cup {None},
             prim = "FloorRequestStatus" =>
               f \in FloorIDs /\ r \in ReqIDs /\ st \in Statuses,
             Reply(prim, f, r, st)
      PROVE  \E m \in Sound : Says(m) /\ m.tx = handling.tx /\ m.prim = prim
  <2>. DEFINE m == [prim |-> prim, tx |-> handling.tx, floor |-> f, req |-> r,
                    status |-> st]
  <2>1. m \in Sound  BY <1>3, <1>7 DEF Sound, WellFormed, Message
  <2>2. Write(m)  BY <1>7 DEF Reply
  <2>3. m.tx = handling.tx /\ m.prim = prim  OBVIOUS
  <2>. HIDE DEF m
  <2>4. Says(m)  BY <1>3, <2>1, <2>2, ServerWrites
  <2>. QED  BY <2>1, <2>3, <2>4
<1>8. ASSUME Reply("Error", None, None, None), pc'[Me] = "read",
             pc[Me] \in {"request", "release"},
             \A f \in FloorIDs : P!Owns(f, User)' => P!Owns(f, User)
      PROVE  TableOf(t)'
  <2>1. PICK m \in Sound : Says(m) /\ m.tx = handling.tx /\ m.prim = "Error"
    BY <1>7, <1>8
  <2>. QED  BY <1>8, <2>1, HandlerSays
<1>9. ASSUME NEW st \in Statuses, NEW r \in ReqIDs,
             Reply("FloorRequestStatus", S!Fid(Me), r, st),
             pc[Me] \in {"pending", "granted", "denied", "released"},
             pc'[Me] \in {"decide", "read", "broadcast"}
      PROVE  TableOf(t)'
  <2>1. S!Fid(Me) \in FloorIDs  BY <1>5, <1>9 DEF P!FloorLabels
  <2>2. PICK m \in Sound : /\ Says(m) /\ m.tx = handling.tx
                           /\ m.prim = "FloorRequestStatus"
    BY <1>7, <1>9, <2>1
  <2>. QED  BY <1>4, <1>9, <2>2, HandlerSays
<1>10. CASE S!FloorRequest(Me) /\ ErrorOrNothing
  <2>1. /\ pc[Me] = "request" /\ pc'[Me] \in {"pending", "read"}
        /\ pc'[Me] = "read" => UNCHANGED <<floors, fsm>>
    BY <1>0, <1>10 DEF S!FloorRequest, S!Goto, S!Return
  <2>2. CASE pc'[Me] = "read"
    <3>1. \A f \in FloorIDs : P!Owns(f, User)' => P!Owns(f, User)
      BY <2>1, <2>2 DEF P!Owns, User
    <3>. QED  BY <1>8, <1>10, <2>1, <2>2, <3>1 DEF ErrorOrNothing
  <2>3. CASE pc'[Me] = "pending"
    BY <1>2, <1>10, <2>3, RequestTable DEF ErrorOrNothing
  <2>. QED  BY <2>1, <2>2, <2>3
<1>11. CASE S!SendPending(Me)
            /\ Reply("FloorRequestStatus", S!Fid(Me), job[Me].req, "Pending")
  <2>1. pc[Me] = "pending" /\ pc'[Me] = "decide"
    BY <1>0, <1>11 DEF S!SendPending, S!Goto
  <2>. QED  BY <1>6, <1>9, <1>11, <2>1 DEF Statuses
<1>12. CASE S!Decide(Me) /\ UNCHANGED wireVars
  <2>1. pc[Me] = "decide" /\ pc'[Me] \in {"granted", "denied", "read"}
    BY <1>0, <1>12 DEF S!Decide, S!Goto, S!Return
  <2>. QED  BY <1>4, <1>12, <2>1, HandlerSilent
<1>13. CASE S!TellGranted(Me)
            /\ Reply("FloorRequestStatus", S!Fid(Me), job[Me].req, "Granted")
  <2>1. pc[Me] = "granted" /\ pc'[Me] = "read"
    BY <1>0, <1>13 DEF S!TellGranted, S!Goto, S!Return
  <2>. QED  BY <1>6, <1>9, <1>13, <2>1 DEF Statuses
<1>14. CASE S!TellDenied(Me)
            /\ Reply("FloorRequestStatus", S!Fid(Me), job[Me].req, "Denied")
  <2>1. pc[Me] = "denied" /\ pc'[Me] = "read"
    BY <1>0, <1>14 DEF S!TellDenied, S!Goto, S!Return
  <2>. QED  BY <1>6, <1>9, <1>14, <2>1 DEF Statuses
<1>15. CASE S!FloorRelease(Me) /\ ErrorOrNothing
  <2>1. pc[Me] = "release" /\ pc'[Me] \in {"released", "read"}
    BY <1>0, <1>15 DEF S!FloorRelease, S!Goto, S!Return
  <2>2. CASE pc'[Me] = "read"
    BY <1>4, <1>8, <1>15, <2>1, <2>2 DEF ErrorOrNothing
  <2>3. CASE pc'[Me] = "released"
    BY <1>2, <1>4, <1>15, <2>1, <2>3, ReleaseTable DEF ErrorOrNothing
  <2>. QED  BY <2>1, <2>2, <2>3
<1>16. CASE S!TellReleased(Me)
            /\ Reply("FloorRequestStatus", S!Fid(Me), handling.req, "Released")
  <2>1. pc[Me] = "released" /\ pc'[Me] = "broadcast"
    BY <1>0, <1>16 DEF S!TellReleased, S!Goto
  <2>2. handling.req \in ReqIDs
    BY <1>3, <2>1 DEF IInv, HandlingSound, Sound, WellFormed
  <2>. QED  BY <1>9, <1>16, <2>1, <2>2 DEF Statuses
<1>17. CASE S!AnswerQuery(Me)
            /\ Reply("FloorStatus", S!Fid(Me), job[Me].req, S!Floor(Me).state)
  <2>1. pc[Me] = "query" /\ pc'[Me] = "read" /\ pc[Me] \in P!FloorLabels
    BY <1>0, <1>17 DEF S!AnswerQuery, S!Goto, S!Return, P!FloorLabels
  <2>2. S!Floor(Me).state \in Statuses  BY <1>0, <2>1, ServerFields DEF IInv
  <2>3. PICK m \in Sound : Says(m) /\ m.tx = handling.tx /\ m.prim = "FloorStatus"
    BY <1>5, <1>6, <1>7, <1>17, <2>1, <2>2
  <2>. QED  BY <1>4, <2>1, <2>3, HandlerSays
<1>18. CASE /\ S!SendBroadcast(Me) \/ S!ReleaseDone(Me) \/ S!GoodbyeRelease(Me)
               \/ S!GoodbyeNotify(Me)
            /\ UNCHANGED wireVars
  <2>1. pc[Me] \in {"broadcast", "byeBroadcast", "goodbye"}
    BY <1>18 DEF S!SendBroadcast, S!ReleaseDone, S!GoodbyeRelease, S!GoodbyeNotify
  <2>2. pc'[Me] \in {"broadcast", "byeBroadcast", "goodbye", "read"}
    BY <1>1, <2>1 DEF HandlerGoes
  <2>. QED  BY <1>4, <1>18, <2>1, <2>2, HandlerSilent
<1>. QED
  BY <1>10, <1>11, <1>12, <1>13, <1>14, <1>15, <1>16, <1>17, <1>18
  DEF ServerHandles

LEMMA ServerActsTable ==
  ASSUME NEW t \in Threads, S!OneConnectionPerUser, IInv, P!IInv, ServerFacts,
         ConnInv, Core, Lone(t), TableOf(t), ServerActs, ~Gone'
  PROVE  TableOf(t)'
<1>0. /\ Me \in Conns /\ conn \in [Conns -> {"none", "open", "lost", "closed"}]
  BY ClientServerAssumption DEF ServerFacts, P!TypeOK
<1>1. CASE ServerRuns
  <2>1. UNCHANGED <<clientVars, setup>>  BY <1>1 DEF ServerRuns
  <2>2. ~S!GoodbyeEnd(Me)  BY <1>0 DEF S!GoodbyeEnd, Gone
  <2>. QED
    BY <1>1, <2>1, <2>2, ServerReadsTable, ServerAnswersTable, ServerHandlesTable
    DEF ServerRuns
<1>2. ~Keepalive  BY DEF Keepalive, Lone
<1>3. CASE Connection
  <2>1. ~ServerSeesEOF /\ ~ServerHangsUp
    BY <1>0 DEF ServerSeesEOF, ServerHangsUp, S!PeerLost, Gone
  <2>. QED  BY <1>3, <2>1, AcceptedTable DEF Connection
<1>4. CASE NetworkFails  BY <1>4 DEF NetworkFails, Break, Gone
<1>. QED  BY <1>1, <1>2, <1>3, <1>4, PeerTable DEF ServerActs

LEMMA StutterTable ==
  ASSUME NEW t \in Threads, TableOf(t), UNCHANGED vars
  PROVE  TableOf(t)'
<1>1. UNCHANGED <<call, lastTx, chan, reader, requests, inbox, outbox, handling,
                  pc, job, floors, fsm>>
  BY DEF vars, clientVars, wireVars, serverVars
<1>2. Answers(t)' = Answers(t)  BY <1>1 DEF Answers
<1>3. CallerOf(t)'
  BY <1>1, <1>2 DEF TableOf, CallerOf, Asks, Expects
<1>4. \A f : P!Owns(f, User)' <=> P!Owns(f, User)  BY <1>1 DEF P!Owns, User
<1>5. ReleaseOf(t)'
  BY <1>1, <1>2 DEF TableOf, ReleaseOf, P!Owns, User
<1>6. \A f : Entering(t, f) => Entering(t, f)'
  BY <1>1, <1>2 DEF Entering, Answered
<1>7. EntryOf(t)'  BY <1>1, <1>4, <1>6 DEF TableOf, EntryOf
<1>. QED  BY <1>3, <1>5, <1>7 DEF TableOf

-----------------------------------------------------------------------------
(***************************************************************************)
(* The client closes its end only behind a Goodbye.                        *)
(***************************************************************************)

\* A step that keeps a Goodbye on its way.
EndKept == EndInv' /\ (tr = "closed" => tr' = "closed")

\* What the client does to the connection does not take a Goodbye back.
LEMMA ClientKeepsSent ==
  ASSUME IInv, ClientMoves, pc' = pc
  PROVE  ByeSent => ByeSent'
<1>1. outbox \in Seq(Sound)  BY DEF IInv, WiresSound
<1>2. Sent("Goodbye") => Sent("Goodbye")'
  BY <1>1, HasFacts DEF ClientMoves, Sent, Has
<1>. QED  BY <1>2 DEF ByeSent

LEMMA StartsEnd ==
  ASSUME IInv, LinkInv, HangupInv, EndInv, NEW t \in Threads, Starts(t),
         UNCHANGED <<serverVars, setup>>
  PROVE  EndKept
<1>0. call \in [Threads -> SoundCall] /\ pc' = pc
  BY DEF IInv, ClientSound, serverVars
<1>1. ByeSent => ByeSent'  BY <1>0, StartsKeepLink, ClientKeepsSent
<1>2. CASE Dial(t)
  <2>1. /\ call'[t].op = "Connect" /\ \A u \in Threads : u # t => call'[u] = call[u]
        /\ tr = "nil" /\ tr' = "open"
    BY <1>0, <1>2 DEF Dial, NoCall
  <2>. QED  BY <1>1, <2>1 DEF EndKept, EndInv
<1>3. ASSUME NEW op, NEW f, NEW r, Begin(t, op, f, r)  PROVE EndKept
  <2>1. /\ call'[t].at = "send" /\ \A u \in Threads : u # t => call'[u] = call[u]
        /\ tr' = tr
    BY <1>0, <1>3 DEF Begin
  <2>. QED  BY <1>1, <2>1 DEF EndKept, EndInv
<1>. QED  BY <1>2, <1>3 DEF Starts, Hello, Goodbye, Disconnect, RequestFloor,
          ReleaseFloor, QueryFloor

LEMMA ProceedsEnd ==
  ASSUME IInv, LinkInv, HangupInv, EndInv, ~Gone, NEW t \in Threads, Proceeds(t),
         ~crashed, UNCHANGED <<serverVars, setup>>
  PROVE  EndKept
<1>0. /\ call \in [Threads -> SoundCall] /\ pc' = pc /\ outbox \in Seq(Sound)
      /\ DOMAIN call[t] = {"op", "at", "floor", "tx", "req", "resp", "ok"}
  BY DEF IInv, ClientSound, WiresSound, serverVars, SoundCall, CallRecord
<1>1. ByeSent => ByeSent'  BY <1>0, ProceedsKeepLink, ClientKeepsSent
<1>2. CASE Plain(t)
  BY <1>1, <1>2 DEF Plain, Waiting, EndKept, EndInv
<1>3. CASE Ready(t) \/ StartTransport(t)
  <2>1. /\ call'[t].op = "Connect" /\ tr' = tr
        /\ \A u \in Threads : u # t => call'[u] = call[u]
    BY <1>0, <1>3 DEF Ready, StartTransport, Goto, Return, SoundCall
  <2>. QED  BY <1>1, <2>1 DEF EndKept, EndInv
<1>4. CASE Send(t)
  <2>1. /\ call'[t].op = call[t].op /\ tr' = tr
        /\ \A u \in Threads : u # t => call'[u] = call[u]
    <3>1. CASE call[t].op = "Disconnect"
      BY <1>0, <1>4, <3>1 DEF Send, Goto
    <3>2. CASE call[t].op = "Goodbye"
      BY <1>0, <1>4, <3>2 DEF Send, Return
    <3>3. CASE call[t].op \notin {"Goodbye", "Disconnect"}
      BY <1>0, <1>4, <3>3 DEF Send, Goto
    <3>. QED  BY <3>1, <3>2, <3>3
  <2>2. call[t].op = "Disconnect" => ByeSent'
    <3>1. CASE tr = "open" /\ link = "up" /\ outbox' = Append(outbox, Request(t))
      <4>1. Request(t) \in Sound
        BY <1>0, <1>4, RequestSound DEF Send
      <4>2. call[t].op = "Disconnect" => Request(t).prim = "Goodbye"
        BY DEF Request
      <4>3. call[t].op = "Disconnect" => Has(outbox', "Goodbye")
        BY <1>0, <3>1, <4>1, <4>2, HasFacts
      <4>. QED  BY <4>3 DEF Has, ByeSent, Sent
    <3>2. CASE tr = "closed"  BY <1>1, <3>2 DEF EndInv
    <3>. QED  BY <1>4, <3>1, <3>2 DEF Send, LinkInv, IInv, WiresSound, Gone
  <2>. QED  BY <1>1, <2>1, <2>2 DEF EndKept, EndInv
<1>5. CASE CloseTransport(t)
  <2>1. call[t].op = "Disconnect" /\ call[t].at = "close"
    BY <1>0, <1>5 DEF CloseTransport, SoundCall
  <2>2. ByeSent'  BY <1>1, <2>1 DEF EndInv
  <2>. QED  BY <1>5, <2>2 DEF CloseTransport, EndKept, EndInv
<1>6. CASE EndCall(t)
  <2>1. call'[t] = NoCall /\ \A u \in Threads : u # t => call'[u] = call[u]
    BY <1>0, <1>6 DEF EndCall
  <2>. QED  BY <1>1, <1>6, <2>1 DEF EndCall, NoCall, EndKept, EndInv
<1>. QED  BY <1>2, <1>3, <1>4, <1>5, <1>6, PlainSteps DEF Proceeds, CallStep

LEMMA ThreadEnd ==
  ASSUME IInv, ByeInv, EndInv, ~Gone, NEW t \in Threads, Calls(t) \/ ThreadRuns(t)
  PROVE  EndKept
<1>0. ~crashed /\ UNCHANGED <<serverVars, setup>>  BY DEF Calls, ThreadRuns
<1>1. Starts(t) \/ Proceeds(t) \/ UNCHANGED <<clientVars, wireVars>>
  <2>1. CASE VirtualCall(t) \/ VClose(t)
    BY <2>1 DEF VirtualCall, VClose, VConnect, VReleaseAllFloors, VRequestFloor,
                VReleaseFloor
  <2>2. CASE FrameStep(t)  BY <2>2, FrameStepSound DEF IInv
  <2>. QED  BY <2>1, <2>2 DEF Calls, ThreadRuns, ApplicationCall, ThreadStep,
            Starts, Proceeds
<1>2. CASE UNCHANGED <<clientVars, wireVars>>
  BY <1>0, <1>2 DEF clientVars, wireVars, serverVars, EndKept, EndInv, ByeSent, Sent
<1>. QED  BY <1>0, <1>1, <1>2, StartsEnd, ProceedsEnd DEF ByeInv

LEMMA ReaderEnd ==
  ASSUME IInv, ByeInv, EndInv, ~Gone, ReaderRuns
  PROVE  EndKept
<1>0. pc' = pc  BY DEF ReaderRuns, serverVars
<1>1. ReaderActs
  BY DEF ReaderRuns, ReadLoop, ReaderActs, VReaderCallback, VOnClose
<1>2. call' = call /\ outbox' = outbox
  BY <1>1 DEF ReaderActs, ReaderStep, ReadMessage, Deliver, HandleMessage,
              ReaderSetState, ReadExit, ReaderCallback, OnClose, wireVars
<1>3. ByeSent <=> ByeSent'  BY <1>0, <1>2 DEF ByeSent, Sent
<1>4. tr' = tr \/ (tr' = "closed" /\ tr = "closed")
  <2>1. CASE ReadExit  BY <2>1 DEF ReadExit, Gone
  <2>2. CASE ~ReadExit
    BY <1>1, <2>2 DEF ReaderActs, ReaderStep, ReadMessage, Deliver, HandleMessage,
       ReaderSetState, ReaderCallback, OnClose
  <2>. QED  BY <2>1, <2>2
<1>. QED  BY <1>2, <1>3, <1>4 DEF EndKept, EndInv

LEMMA ServerEnd ==
  ASSUME S!OneConnectionPerUser, IInv, P!IInv, ServerFacts', EndInv, ServerActs,
         ~Gone'
  PROVE  EndKept
<1>0. call' = call /\ tr' = tr
  BY DEF ServerActs, ServerRuns, Keepalive, Connection, NetworkFails, Peer,
         clientVars
<1>1. outbox \in Seq(Sound)  BY DEF IInv, WiresSound
<1>2. Elsewhere \/ Reads \/ Handles \/ Connects  BY ServerEffects
<1>3. ByeSent => ByeSent'
  <2>1. CASE Elsewhere  BY <2>1 DEF Elsewhere, ByeSent, Sent
  <2>2. CASE Reads
    <3>1. Has(outbox, "Goodbye") =>
            Head(outbox).prim = "Goodbye" \/ Has(outbox', "Goodbye")
      BY <1>1, <2>2, HasFacts DEF Reads
    <3>. QED  BY <2>2, <3>1 DEF Reads, ByeSent, Sent, Has
  <2>3. CASE Handles
    BY <2>3 DEF Handles, ByeSent, Sent, ServerFacts, Gone
  <2>4. CASE Connects  BY <2>4 DEF Connects, ByeSent, Sent, Gone
  <2>. QED  BY <1>2, <2>1, <2>2, <2>3, <2>4
<1>. QED  BY <1>0, <1>3 DEF EndKept, EndInv

-----------------------------------------------------------------------------
(***************************************************************************)
(* All steps together, and the theorem.                                    *)
(***************************************************************************)

LEMMA NextReleases ==
  ASSUME S!OneConnectionPerUser, IInv, IInv', P!IInv, ServerFacts, ServerFacts',
         ByeInv, GInv, LoneInv, [Next]_vars
  PROVE  LoneInv'
<1>0. LinkInv /\ ConnInv  BY DEF ByeInv, GInv
<1>1. ConnKept  BY <1>0, NextKeepsConn
<1>. SUFFICES ASSUME ~Gone'
              PROVE  EndInv' /\ \A t \in Threads : Lone(t)' => TableOf(t)'
  BY DEF LoneInv, Lone, Timely
<1>2. ~Gone /\ EndInv  BY <1>1 DEF ConnKept, LoneInv
<1>3. setup.threads \subseteq Threads  BY DEF IInv, AllSetups
<1>4. EndKept
  <2>1. CASE UNCHANGED vars
    BY <1>2, <2>1 DEF vars, clientVars, wireVars, serverVars, EndKept, EndInv,
       ByeSent, Sent
  <2>. QED  BY <1>2, <1>3, <2>1, ThreadEnd, ReaderEnd, ServerEnd
            DEF Next, ServerActs
<1>5. ASSUME NEW t \in Threads, Lone(t)'  PROVE TableOf(t)'
  <2>1. Lone(t) /\ tr' # "closed"
    BY <1>1, <1>2, <1>4, <1>5 DEF Lone, Timely, ConnKept, EndKept
  <2>2. Core /\ TableOf(t)  BY <2>1 DEF Lone, GInv, LoneInv
  <2>3. ASSUME NEW u \in setup.threads, Calls(u) \/ ThreadRuns(u)  PROVE TableOf(t)'
    <3>1. u = t  BY <2>1, <2>3 DEF Lone
    <3>. QED  BY <1>0, <2>1, <2>2, <2>3, <3>1, CallerTable
  <2>4. CASE ReaderRuns  BY <2>1, <2>2, <2>4, ReaderTable
  <2>5. CASE ServerActs  BY <1>0, <2>1, <2>2, <2>5, ServerActsTable
  <2>6. CASE UNCHANGED vars  BY <2>2, <2>6, StutterTable
  <2>. QED  BY <2>3, <2>4, <2>5, <2>6 DEF Next, ServerActs
<1>. QED  BY <1>4, <1>5 DEF EndKept

LEMMA InitReleases == Init => LoneInv
<1>. SUFFICES ASSUME Init  PROVE LoneInv  OBVIOUS
<1>0. Me \in Conns  BY ClientServerAssumption
<1>1. /\ tr = "nil" /\ outbox = <<>> /\ inbox = <<>> /\ lastTx = 0
      /\ reader.msg = None
      /\ \A t \in Threads : /\ call[t].op = "none" /\ call[t].at = "idle"
                            /\ call[t].resp = None /\ chan[t] = None
  BY DEF Init, ClientInit, NoCall
<1>2. pc[Me] = "read" /\ \A f \in FloorIDs : floors[f] = Nil
  BY <1>0 DEF Init, S!Init
<1>3. Contents(outbox) = {} /\ Contents(inbox) = {}  BY <1>1, EmptyFacts
<1>4. EndInv  BY <1>1 DEF EndInv
<1>5. ASSUME NEW t \in Threads  PROVE TableOf(t)
  <2>1. CallerOf(t)
    BY <1>1, <1>2, <1>3 DEF CallerOf, Asks, Waiting
  <2>2. ReleaseOf(t)  BY <1>1 DEF ReleaseOf
  <2>3. EntryOf(t)  BY <1>2 DEF EntryOf, P!Owns
  <2>. QED  BY <2>1, <2>2, <2>3 DEF TableOf
<1>. QED  BY <1>4, <1>5 DEF LoneInv

\* With benign timing and one calling goroutine, ReleaseFloor of a client at rest
\* finds the entry of every floor its user holds at the server
\* (client.go:291-297): the entry outlives the broadcasts that rewrite its
\* status, no answer goes to the wrong call, and only a release the server has
\* carried out removes it.  Holds for any number of floors and other
\* participants, on a network that may break, where users are not shared between
\* connections and the operator leaves the floors alone.
THEOREM HoldersCanRelease ==
  ASSUME S!OneConnectionPerUser, S!HandsOff
  PROVE  Spec => []HolderCanRelease
<1>1. Init => LoneInv  BY InitReleases
<1>2. /\ IInv /\ P!IInv /\ ServerFacts /\ ByeInv /\ GInv
      /\ IInv' /\ ServerFacts'
      /\ LoneInv /\ [Next]_vars
      => LoneInv'
  BY NextReleases
<1>3. IInv /\ GInv /\ LoneInv => HolderCanRelease
  <2>. SUFFICES ASSUME IInv, GInv, LoneInv, NEW f \in FloorIDs,
                       setup.timely, ~setup.collide, ~setup.virtual,
                       NEW t \in Threads, setup.threads = {t},
                       Settled, S!HolderIs(f, User)
                PROVE  requests[f] # None
    BY DEF HolderCanRelease
  <2>1. ~Gone  BY DEF Settled, CaughtUp, Gone
  <2>2. ~ByeSent  BY DEF Settled, ByeSent, Sent
  <2>3. Lone(t)  BY <2>1, <2>2 DEF Lone, Timely, LoneInv, EndInv
  <2>4. P!Owns(f, User)  BY DEF S!HolderIs, P!Owns
  <2>5. ~Entering(t, f)  BY DEF Settled, Idle, Entering
  <2>. QED  BY <2>3, <2>4, <2>5 DEF LoneInv, TableOf, EntryOf
<1>. QED  BY <1>1, <1>2, <1>3, GInvInductive, PTL DEF Spec
=============================================================================
