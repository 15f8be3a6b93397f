--------------------------- MODULE ClientServer_proofs ---------------------------
(***************************************************************************)
(* The composition of the client stack and the server: its types, and that *)
(* it implements the server's own specification.                           *)
(***************************************************************************)
EXTENDS ClientServer, SequenceTheorems, TLAPS

P == INSTANCE TCPServer_exclusion_proofs

\* A message carries the fields its primitive needs.
WellFormed(m) ==
  /\ m.prim \in {"FloorRequest", "FloorRelease", "FloorQuery",
                 "FloorRequestStatus"} => m.floor \in FloorIDs
  /\ m.prim \in {"FloorRelease", "FloorRequestStatus"} => m.req \in ReqIDs
  /\ m.prim = "FloorRequestStatus" => m.status \in Statuses

Sound == {m \in Message : WellFormed(m)}

\* A call stands where its method has steps, with the response they need.
SoundCall ==
  {k \in CallRecord :
    /\ k.op \in {"RequestFloor", "ReleaseFloor", "QueryFloor"} =>
         k.floor \in FloorIDs
    /\ k.op = "ReleaseFloor" => k.req \in ReqIDs
    /\ k.at \in {"start", "ready"} => k.op = "Connect"
    /\ k.at = "send" => k.op \in Waiting \cup {"Goodbye", "Disconnect"}
    /\ k.at \in {"wait", "got"} => k.op \in Waiting
    /\ k.at \in {"apply", "callback"} => k.op \in {"RequestFloor", "ReleaseFloor"}
    /\ k.at = "state" => k.op \in {"Hello", "RequestFloor", "ReleaseFloor"}
    /\ k.at = "close" => k.op = "Disconnect"
    /\ k.at \in {"apply", "state", "callback"} /\ k.op = "RequestFloor" =>
         k.resp # None /\ k.resp.prim = "FloorRequestStatus"
    /\ k.resp \in Sound \cup {None}}

\* What the read loop works on.
SoundReader ==
  {r \in ReaderRecord :
    /\ r.msg \in Sound \cup {None}
    /\ r.at \in {"deliver", "handle", "state", "callback"} => r.msg # None
    /\ r.at = "deliver" => r.to # None
    /\ r.at = "state" => r.msg.prim = "FloorRequestStatus"
    /\ r.at = "callback" => r.msg.prim \in {"FloorRequestStatus", "FloorStatus"}}

SoundFrame ==
  {k \in FrameRecord : /\ k.op = "RequestFloor" => k.floor \in FloorIDs
                       /\ k.op = "ReleaseFloor" => k.req \in ReqIDs}

ClientStates == {"Disconnected", "Connected", "WaitFloorRequest",
                 "FloorRequested", "FloorGranted", "FloorDenied",
                 "FloorReleased"}

Entry == [req : ReqIDs, status : Statuses] \cup {None}

\* The strengthened types, one part per owner of the variables.
ClientSound ==
  /\ tr \in {"nil", "open", "closed"}
  /\ connected \in BOOLEAN /\ crashed \in BOOLEAN
  /\ state \in ClientStates
  /\ requests \in [FloorIDs -> Entry]
  /\ lastTx \in Nat
  /\ call \in [Threads -> SoundCall]
  /\ chan \in [Threads -> Sound \cup {None}]
  /\ reader \in SoundReader
  /\ notified \in [FloorIDs -> Statuses \cup {None}]

WiresSound ==
  /\ link \in {"none", "up", "down"}
  /\ outbox \in Seq(Sound) /\ inbox \in Seq(Sound)
  /\ Len(inbox) <= MaxInbox

VirtualSound ==
  /\ mu \in Threads \cup {None}
  /\ hasClient \in BOOLEAN /\ vclosed \in BOOLEAN /\ vconnected \in BOOLEAN
  /\ tracked \in [ReqIDs -> FloorIDs \cup {None}]
  /\ held \in [FloorIDs -> ReqIDs \cup {None}]
  /\ frame \in [Threads -> SoundFrame]

\* The server's handler knows the message it works on.
HandlingSound ==
  /\ handling \in Sound \cup {None}
  /\ pc[Me] # "read" => handling # None
  /\ pc[Me] \in {"release", "released"} => handling.prim = "FloorRelease"

ServerSound == P!FloorInv /\ P!PointersNamed

IInv ==
  /\ ClientSound /\ WiresSound /\ VirtualSound
  /\ HandlingSound /\ ServerSound
  /\ setup \in AllSetups

-----------------------------------------------------------------------------
(***************************************************************************)
(* Constants and messages.                                                 *)
(***************************************************************************)

LEMMA ServerConstants == P!ConstantsAssumption
BY ClientServerAssumption DEF P!ConstantsAssumption

LEMMA SameIDs == S!RequestIDs \subseteq ReqIDs
BY ClientServerAssumption DEF S!RequestIDs

LEMMA SameUsers ==
  ASSUME S!OneConnectionPerUser
  PROVE  P!OneConnectionPerUser /\ UserOf[Me] # P!NoUser
BY ClientServerAssumption
DEF S!OneConnectionPerUser, P!OneConnectionPerUser, S!NamedUsers, P!NamedUsers,
    S!NoUser, P!NoUser

LEMMA SeqFacts ==
  /\ <<>> \in Seq(Sound) /\ Len(<<>>) = 0
  /\ \A s \in Seq(Sound) :
       /\ Len(s) \in Nat
       /\ s # <<>> => /\ Head(s) \in Sound /\ Tail(s) \in Seq(Sound)
                      /\ Len(Tail(s)) = Len(s) - 1
       /\ \A m \in Sound : /\ Append(s, m) \in Seq(Sound)
                           /\ Len(Append(s, m)) = Len(s) + 1
<1>1. <<>> \in Seq(Sound) /\ Len(<<>>) = 0  BY EmptySeq
<1>2. ASSUME NEW s \in Seq(Sound)
      PROVE  /\ Len(s) \in Nat
             /\ s # <<>> => /\ Head(s) \in Sound /\ Tail(s) \in Seq(Sound)
                            /\ Len(Tail(s)) = Len(s) - 1
  BY HeadTailProperties, LenProperties
<1>3. ASSUME NEW s \in Seq(Sound), NEW m \in Sound
      PROVE  Append(s, m) \in Seq(Sound) /\ Len(Append(s, m)) = Len(s) + 1
  BY AppendProperties
<1>. QED  BY <1>1, <1>2, <1>3

LEMMA NoneFacts ==
  /\ None \notin Sound /\ None \notin ReqIDs /\ None \notin FloorIDs
  /\ None \notin Threads /\ Closed \notin Threads /\ Closed # None
BY ClientServerAssumption DEF Sound

LEMMA RequestSound ==
  ASSUME NEW t \in Threads, call[t] \in SoundCall
  PROVE  Request(t) \in Sound
BY DEF SoundCall, CallRecord, Request, Sound, WellFormed, Message

-----------------------------------------------------------------------------
(***************************************************************************)
(* The client's own steps.                                                 *)
(***************************************************************************)

\* Places of a call that need no response.
LEMMA CallMoves ==
  ASSUME NEW k \in SoundCall
  PROVE  /\ k.op = "Connect" => [k EXCEPT !.at = "ready"] \in SoundCall
         /\ k.op = "Disconnect" => [k EXCEPT !.at = "close"] \in SoundCall
         /\ \A b \in BOOLEAN :
              [k EXCEPT !.at = "return", !.ok = b] \in SoundCall
         /\ k.op \in Waiting =>
              \A p \in {"wait", "got"} : [k EXCEPT !.at = p] \in SoundCall
         /\ k.op \in Waiting =>
              \A m \in Sound : [k EXCEPT !.at = "got", !.resp = m] \in SoundCall
<1>. USE DEF SoundCall, CallRecord
<1>1. /\ k.op = "Connect" => [k EXCEPT !.at = "ready"] \in SoundCall
      /\ k.op = "Disconnect" => [k EXCEPT !.at = "close"] \in SoundCall
  OBVIOUS
<1>2. \A b \in BOOLEAN : [k EXCEPT !.at = "return", !.ok = b] \in SoundCall
  OBVIOUS
<1>3. k.op \in Waiting =>
        \A p \in {"wait", "got"} : [k EXCEPT !.at = p] \in SoundCall
  OBVIOUS
<1>4. k.op \in Waiting =>
        \A m \in Sound : [k EXCEPT !.at = "got", !.resp = m] \in SoundCall
  BY DEF Sound
<1>. QED  BY <1>1, <1>2, <1>3, <1>4

\* Places that come after an accepted response.
LEMMA CallAdvances ==
  ASSUME NEW k \in SoundCall
  PROVE  /\ k.at = "got" /\ Accepts(k.op, k.resp) /\ k.op = "Hello" =>
              [k EXCEPT !.at = "state"] \in SoundCall
         /\ k.at = "got" /\ Accepts(k.op, k.resp)
              /\ k.op \notin {"Hello", "QueryFloor"} =>
              [k EXCEPT !.at = "apply"] \in SoundCall
         /\ k.at = "apply" => [k EXCEPT !.at = "state"] \in SoundCall
         /\ k.at = "state" /\ k.op \in {"RequestFloor", "ReleaseFloor"} =>
              [k EXCEPT !.at = "callback"] \in SoundCall
BY DEF SoundCall, CallRecord, Accepts, Waiting

LEMMA NewCalls ==
  /\ NoCall \in SoundCall
  /\ [NoCall EXCEPT !.op = "Connect", !.at = "start"] \in SoundCall
  /\ \A op \in {"Hello", "Goodbye", "Disconnect"}, n \in Nat :
       [op |-> op, at |-> "send", floor |-> None, tx |-> n, req |-> None,
        resp |-> None, ok |-> TRUE] \in SoundCall
  /\ \A op \in {"RequestFloor", "QueryFloor"}, f \in FloorIDs, n \in Nat :
       [op |-> op, at |-> "send", floor |-> f, tx |-> n, req |-> None,
        resp |-> None, ok |-> TRUE] \in SoundCall
  /\ \A f \in FloorIDs, r \in ReqIDs, n \in Nat :
       [op |-> "ReleaseFloor", at |-> "send", floor |-> f, tx |-> n, req |-> r,
        resp |-> None, ok |-> TRUE] \in SoundCall
BY DEF SoundCall, CallRecord, NoCall, Waiting

\* The methods an application starts.
Starts(t) ==
  \/ Dial(t) \/ Hello(t) \/ Goodbye(t) \/ Disconnect(t)
  \/ \E f \in FloorIDs : RequestFloor(t, f) \/ ReleaseFloor(t, f)
                         \/ QueryFloor(t, f)

LEMMA StartsSound ==
  ASSUME ClientSound, WiresSound, NEW t \in Threads, Starts(t)
  PROVE  ClientSound' /\ WiresSound'
<1>. USE DEF ClientSound, WiresSound
<1>1. CASE Dial(t)  BY <1>1, NewCalls DEF Dial, ClientStates
<1>2. ASSUME NEW op, NEW f, NEW r, Begin(t, op, f, r),
             \A n \in Nat : [op |-> op, at |-> "send", floor |-> f, tx |-> n,
                             req |-> r, resp |-> None, ok |-> TRUE] \in SoundCall
      PROVE  ClientSound' /\ WiresSound'
  <2>1. lastTx' \in Nat /\ call' \in [Threads -> SoundCall]
    BY <1>2 DEF Begin
  <2>. QED  BY <1>2, <2>1 DEF Begin, wireVars
<1>3. CASE Hello(t) \/ Goodbye(t) \/ Disconnect(t)
  BY <1>2, <1>3, NewCalls DEF Hello, Goodbye, Disconnect
<1>4. ASSUME NEW f \in FloorIDs, RequestFloor(t, f) \/ QueryFloor(t, f)
      PROVE  ClientSound' /\ WiresSound'
  BY <1>2, <1>4, NewCalls DEF RequestFloor, QueryFloor
<1>5. ASSUME NEW f \in FloorIDs, ReleaseFloor(t, f)
      PROVE  ClientSound' /\ WiresSound'
  <2>1. requests[f].req \in ReqIDs  BY <1>5 DEF ReleaseFloor, Entry
  <2>. QED  BY <1>2, <1>5, <2>1, NewCalls DEF ReleaseFloor
<1>. QED  BY <1>1, <1>3, <1>4, <1>5 DEF Starts

\* The steps of a method under way.
Proceeds(t) ==
  CallStep(t) \/ Timeout(t) \/ Ready(t) \/ Callback(t) \/ EndCall(t)

LEMMA ProceedsSound ==
  ASSUME ClientSound, WiresSound, NEW t \in Threads, Proceeds(t)
  PROVE  ClientSound' /\ WiresSound'
<1>. USE DEF ClientSound, WiresSound, wireVars, Goto, Return
<1>. DEFINE k == call[t]
<1>0. k \in SoundCall  OBVIOUS
<1>a. \A x \in SoundCall : [call EXCEPT ![t] = x] \in [Threads -> SoundCall]
  OBVIOUS
<1>b. k.floor \in FloorIDs \cup {None} /\ k.resp \in Sound \cup {None}
  BY DEF SoundCall, CallRecord
<1>1. CASE StartTransport(t)
  <2>1. call' \in [Threads -> SoundCall]
    <3>1. k.op = "Connect"  BY <1>0, <1>1 DEF StartTransport, SoundCall
    <3>2. [k EXCEPT !.at = "ready"] \in SoundCall  BY <1>0, <3>1, CallMoves
    <3>3. call' = [call EXCEPT ![t] = [k EXCEPT !.at = "ready"]]
      BY <1>1 DEF StartTransport
    <3>. QED  BY <1>a, <3>2, <3>3
  <2>2. reader' \in SoundReader
    BY <1>1 DEF StartTransport, ReaderGoto, SoundReader, ReaderRecord
  <2>. QED  BY <1>1, <2>1, <2>2 DEF StartTransport
<1>2. CASE Ready(t)  BY <1>0, <1>2, CallMoves DEF Ready
<1>3. CASE Send(t)
  <2>1. k.op \in Waiting \cup {"Goodbye", "Disconnect"}
    BY <1>0, <1>3 DEF Send, SoundCall
  <2>2. /\ k.op = "Disconnect" => [k EXCEPT !.at = "close"] \in SoundCall
        /\ \A b \in BOOLEAN : [k EXCEPT !.at = "return", !.ok = b] \in SoundCall
    BY <1>0, CallMoves
  <2>3. call' \in [Threads -> SoundCall]
    <3>1. CASE k.op \in Waiting
      <4>1. k.op \notin {"Goodbye", "Disconnect"}  BY <3>1 DEF Waiting
      <4>2. /\ [k EXCEPT !.at = "wait"] \in SoundCall
            /\ [k EXCEPT !.at = "got"] \in SoundCall
        BY <1>0, <3>1, CallMoves
      <4>3. \/ call' = [call EXCEPT ![t] = [k EXCEPT !.at = "wait"]]
            \/ call' = [call EXCEPT ![t] = [k EXCEPT !.at = "got"]]
        BY <1>3, <4>1 DEF Send
      <4>. QED  BY <1>a, <4>2, <4>3
    <3>2. CASE k.op = "Goodbye"
      <4>1. \E b \in BOOLEAN :
              call' = [call EXCEPT ![t] = [k EXCEPT !.at = "return", !.ok = b]]
        BY <1>3, <3>2 DEF Send
      <4>. QED  BY <1>a, <2>2, <4>1
    <3>3. CASE k.op = "Disconnect"
      <4>1. call' = [call EXCEPT ![t] = [k EXCEPT !.at = "close"]]
        BY <1>3, <3>3 DEF Send
      <4>. QED  BY <1>a, <2>2, <3>3, <4>1
    <3>. QED  BY <2>1, <3>1, <3>2, <3>3
  <2>4. outbox' \in Seq(Sound)
    BY <1>0, <1>3, RequestSound, SeqFacts DEF Send
  <2>. QED  BY <1>3, <2>3, <2>4 DEF Send
<1>4. CASE Receive(t)
  <2>1. k.op \in Waiting  BY <1>4 DEF Receive, SoundCall
  <2>2. chan[t] \in Sound  BY <1>4 DEF Receive
  <2>3. [k EXCEPT !.at = "got", !.resp = chan[t]] \in SoundCall
    BY <2>1, <2>2, CallMoves
  <2>4. call' = [call EXCEPT ![t] = [k EXCEPT !.at = "got", !.resp = chan[t]]]
    BY <1>4 DEF Receive
  <2>. QED  BY <1>4, <2>3, <2>4 DEF Receive
<1>5. CASE Timeout(t)
  <2>1. k.op \in Waiting  BY <1>5 DEF Timeout, SoundCall
  <2>2. [k EXCEPT !.at = "got"] \in SoundCall  BY <1>0, <2>1, CallMoves
  <2>3. call' = [call EXCEPT ![t] = [k EXCEPT !.at = "got"]]
    BY <1>5 DEF Timeout
  <2>. QED  BY <1>a, <1>5, <2>2, <2>3 DEF Timeout
<1>6. CASE Finish(t)
  <2>1. reader' \in SoundReader
    BY <1>6, NoneFacts DEF Finish, SoundReader, ReaderRecord
  <2>2. call' \in [Threads -> SoundCall]
    <3>0. k.at = "got" /\ k.op \in Waiting  BY <1>0, <1>6 DEF Finish, SoundCall
    <3>1. \A b \in BOOLEAN : [k EXCEPT !.at = "return", !.ok = b] \in SoundCall
      BY <1>0, CallMoves
    <3>2. CASE ~Accepts(k.op, k.resp)
      <4>1. call' = [call EXCEPT ![t] = [k EXCEPT !.at = "return", !.ok = FALSE]]
        BY <1>6, <3>2 DEF Finish
      <4>. QED  BY <1>a, <3>1, <4>1
    <3>5. CASE Accepts(k.op, k.resp) /\ k.op = "QueryFloor"
      <4>1. call' = [call EXCEPT ![t] = [k EXCEPT !.at = "return", !.ok = TRUE]]
        BY <1>6, <3>5 DEF Finish
      <4>. QED  BY <1>a, <3>1, <4>1
    <3>3. CASE Accepts(k.op, k.resp) /\ k.op = "Hello"
      <4>1. [k EXCEPT !.at = "state"] \in SoundCall
        BY <1>0, <3>0, <3>3, CallAdvances
      <4>2. call' = [call EXCEPT ![t] = [k EXCEPT !.at = "state"]]
        BY <1>6, <3>3 DEF Finish
      <4>. QED  BY <1>a, <4>1, <4>2
    <3>4. CASE Accepts(k.op, k.resp) /\ k.op \notin {"Hello", "QueryFloor"}
      <4>1. [k EXCEPT !.at = "apply"] \in SoundCall
        BY <1>0, <3>0, <3>4, CallAdvances
      <4>2. call' = [call EXCEPT ![t] = [k EXCEPT !.at = "apply"]]
        BY <1>6, <3>4 DEF Finish
      <4>. QED  BY <1>a, <4>1, <4>2
    <3>. QED  BY <3>2, <3>3, <3>4, <3>5
  <2>. QED  BY <1>6, <2>1, <2>2 DEF Finish
<1>7. CASE Apply(t)
  <2>1. k.op \in {"RequestFloor", "ReleaseFloor"} /\ k.at = "apply"
    BY <1>7 DEF Apply, SoundCall
  <2>2. k.op = "RequestFloor" =>
          [req |-> k.resp.req, status |-> k.resp.status] \in Entry
    BY <2>1 DEF SoundCall, Sound, WellFormed, Entry
  <2>3. requests' \in [FloorIDs -> Entry]
    BY <1>7, <2>1, <2>2 DEF Apply, Entry
  <2>4. call' \in [Threads -> SoundCall]
    <3>1. /\ [k EXCEPT !.at = "state"] \in SoundCall
          /\ [k EXCEPT !.at = "return", !.ok = TRUE] \in SoundCall
      BY <1>0, <2>1, CallMoves, CallAdvances
    <3>. QED  BY <1>7, <3>1 DEF Apply
  <2>. QED  BY <1>7, <2>3, <2>4 DEF Apply
<1>8. CASE SetState(t)
  <2>1. state' \in ClientStates
    <3>1. state' \in {"WaitFloorRequest", "FloorReleased", "FloorGranted",
                      "FloorRequested"}
      BY <1>8 DEF SetState
    <3>. QED  BY <3>1 DEF ClientStates
  <2>2. call' \in [Threads -> SoundCall]
    <3>1. [k EXCEPT !.at = "return", !.ok = TRUE] \in SoundCall
      BY <1>0, CallMoves
    <3>2. k.at = "state" /\ k.op \in {"RequestFloor", "ReleaseFloor"} =>
            [k EXCEPT !.at = "callback"] \in SoundCall
      BY <1>0, CallAdvances
    <3>3. \/ call' = [call EXCEPT ![t] = [k EXCEPT !.at = "return", !.ok = TRUE]]
          \/ /\ k.at = "state" /\ k.op \in {"RequestFloor", "ReleaseFloor"}
             /\ call' = [call EXCEPT ![t] = [k EXCEPT !.at = "callback"]]
      BY <1>8 DEF SetState
    <3>. QED  BY <1>a, <3>1, <3>2, <3>3
  <2>. QED  BY <1>8, <2>1, <2>2 DEF SetState
<1>9. CASE Callback(t)
  <2>1. notified' \in [FloorIDs -> Statuses \cup {None}]
    BY <1>9 DEF Callback, Event, Statuses
  <2>. QED  BY <1>0, <1>9, <2>1, CallMoves DEF Callback
<1>10. CASE CloseTransport(t)  BY <1>0, <1>10, CallMoves DEF CloseTransport
<1>11. CASE EndCall(t)  BY <1>11, NewCalls DEF EndCall
<1>. QED  BY <1>1, <1>2, <1>3, <1>4, <1>5, <1>6, <1>7, <1>8, <1>9, <1>10,
             <1>11 DEF Proceeds, CallStep

\* The read loop.
ReaderActs == ReaderStep \/ ReaderCallback \/ OnClose

LEMMA ReadMessageSound ==
  ASSUME ClientSound, WiresSound, ReadMessage
  PROVE  ClientSound' /\ WiresSound'
<1>. USE DEF ClientSound, WiresSound
<1>. DEFINE m == Head(inbox)
            waiters == {t \in Threads : Registered(t) /\ call[t].tx = m.tx}
            to == IF waiters = {} THEN None ELSE CHOOSE t \in waiters : TRUE
<1>1. m \in Sound /\ inbox' \in Seq(Sound) /\ Len(inbox') <= MaxInbox
  <2>1. /\ Len(inbox) \in Nat /\ m \in Sound /\ Tail(inbox) \in Seq(Sound)
        /\ Len(Tail(inbox)) = Len(inbox) - 1
    BY SeqFacts DEF ReadMessage
  <2>2. inbox' = Tail(inbox)  BY DEF ReadMessage
  <2>. QED  BY <2>1, <2>2, ClientServerAssumption
<1>2. to \in Threads \cup {None} /\ (waiters # {} => to # None)
  BY NoneFacts
<1>3. reader' = [at |-> IF waiters = {} THEN "handle" ELSE "deliver",
                 msg |-> m, to |-> to]
  BY DEF ReadMessage
<1>4. reader' \in SoundReader
  BY <1>1, <1>2, <1>3, NoneFacts DEF SoundReader, ReaderRecord, Sound
<1>. QED  BY <1>1, <1>4 DEF ReadMessage

LEMMA ReaderSound ==
  ASSUME ClientSound, WiresSound, ReaderActs
  PROVE  ClientSound' /\ WiresSound'
<1>. USE DEF ClientSound, WiresSound, wireVars, ReaderGoto, ReadOn
<1>. DEFINE m == reader.msg
<1>0. [at |-> "read", msg |-> None, to |-> None] \in SoundReader
  BY DEF SoundReader, ReaderRecord
<1>a. /\ reader.to \in Threads \cup {None, Closed} /\ m \in Sound \cup {None}
      /\ reader.at \in {"deliver", "handle", "state", "callback"} => m \in Sound
  BY DEF SoundReader, ReaderRecord
<1>1. CASE Deliver
  <2>1. CASE reader.to = Closed
    BY <1>1, <2>1 DEF Deliver
  <2>2. CASE reader.to # Closed
    <3>1. reader.to \in Threads /\ m \in Sound
      BY <1>1, <2>2, <1>a DEF Deliver, SoundReader
    <3>2. chan' \in [Threads -> Sound \cup {None}]
      BY <1>1, <2>2, <3>1 DEF Deliver
    <3>3. reader' \in SoundReader
      BY <1>1, <2>2, <3>1, <1>0, NoneFacts DEF Deliver, SoundReader, ReaderRecord
    <3>. QED  BY <1>1, <2>2, <3>2, <3>3 DEF Deliver
  <2>. QED  BY <2>1, <2>2
<1>2. CASE HandleMessage
  <2>0. reader.at = "handle" /\ m \in Sound  BY <1>a, <1>2 DEF HandleMessage
  <2>1. requests' \in [FloorIDs -> Entry]
    <3>1. CASE m.prim = "FloorRequestStatus"
      <4>1. m.floor \in FloorIDs /\ m.status \in Statuses
        BY <2>0, <3>1 DEF Sound, WellFormed
      <4>2. \A e \in Entry :
              (IF e = None THEN e ELSE [e EXCEPT !.status = m.status]) \in Entry
        BY <4>1 DEF Entry
      <4>3. requests' = [requests EXCEPT ![m.floor] =
              IF @ = None THEN @ ELSE [@ EXCEPT !.status = m.status]]
        BY <1>2, <3>1 DEF HandleMessage
      <4>. QED  BY <4>1, <4>2, <4>3
    <3>. QED  BY <1>2, <3>1 DEF HandleMessage
  <2>2. reader' \in SoundReader
    BY <1>0, <1>2, <2>0 DEF HandleMessage, SoundReader, ReaderRecord
  <2>. QED  BY <1>2, <2>1, <2>2 DEF HandleMessage
<1>3. CASE ReaderSetState
  <2>1. state' \in {"FloorGranted", "FloorDenied", "FloorReleased"}
    BY <1>3 DEF ReaderSetState
  <2>2. reader' \in SoundReader
    BY <1>3 DEF ReaderSetState, SoundReader, ReaderRecord
  <2>. QED  BY <1>3, <2>1, <2>2 DEF ReaderSetState, ClientStates
<1>4. CASE ReaderCallback
  <2>1. reader.at = "callback" /\ m \in Sound  BY <1>a, <1>4 DEF ReaderCallback
  <2>2. m.prim # "FloorStatus" => m.floor \in FloorIDs /\ m.status \in Statuses
    BY <2>1 DEF SoundReader, Sound, WellFormed
  <2>. QED  BY <1>0, <1>4, <2>2 DEF ReaderCallback
<1>5. CASE ReadExit
  BY <1>5 DEF ReadExit, SoundReader, ReaderRecord
<1>6. CASE OnClose
  BY <1>6 DEF OnClose, SoundReader, ReaderRecord, ClientStates
<1>. QED  BY <1>1, <1>2, <1>3, <1>4, <1>5, <1>6, ReadMessageSound
          DEF ReaderActs, ReaderStep

-----------------------------------------------------------------------------
(***************************************************************************)
(* The virtual client.                                                     *)
(***************************************************************************)

LEMMA FrameMoves ==
  ASSUME NEW k \in SoundFrame
  PROVE  /\ NoFrame \in SoundFrame
         /\ \A p \in {"dial", "hello", "hangup", "request", "release", "unlock"} :
              [k EXCEPT !.at = p] \in SoundFrame
         /\ \A T \in SUBSET FloorIDs :
              /\ [k EXCEPT !.todo = T] \in SoundFrame
              /\ [k EXCEPT !.at = "release", !.todo = T] \in SoundFrame
BY DEF SoundFrame, FrameRecord, NoFrame

LEMMA EnterSound ==
  ASSUME VirtualSound, NEW t \in Threads,
         NEW op \in {"Connect", "RequestFloor", "ReleaseAllFloors", "Close"},
         NEW f \in FloorIDs \cup {None}, op = "RequestFloor" => f \in FloorIDs,
         Enter(t, op, "lock", f)
  PROVE  frame' \in [Threads -> SoundFrame]
<1>1. [NoFrame EXCEPT !.op = op, !.at = "lock", !.floor = f] \in SoundFrame
  BY DEF SoundFrame, FrameRecord, NoFrame
<1>. QED  BY <1>1 DEF Enter, VirtualSound

LEMMA VirtualCallSound ==
  ASSUME VirtualSound, NEW t \in Threads, VirtualCall(t) \/ VClose(t)
  PROVE  VirtualSound' /\ UNCHANGED <<clientVars, wireVars>>
<1>. USE DEF VirtualSound, tables
<1>1. CASE VConnect(t)  BY <1>1, EnterSound DEF VConnect
<1>2. CASE VReleaseAllFloors(t)  BY <1>2, EnterSound DEF VReleaseAllFloors
<1>3. ASSUME NEW f \in FloorIDs, VRequestFloor(t, f)
      PROVE  VirtualSound' /\ UNCHANGED <<clientVars, wireVars>>
  BY <1>3, EnterSound DEF VRequestFloor
<1>4. ASSUME NEW r \in ReqIDs, VReleaseFloor(t, r)
      PROVE  VirtualSound' /\ UNCHANGED <<clientVars, wireVars>>
  BY <1>4 DEF VReleaseFloor, SoundFrame, FrameRecord, NoFrame
<1>5. CASE VClose(t)  BY <1>5, EnterSound DEF VClose
<1>. QED  BY <1>1, <1>2, <1>3, <1>4, <1>5 DEF VirtualCall

\* The tables, whatever the event.
LEMMA OnFloorSound ==
  ASSUME VirtualSound, NEW ev, NEW f, NEW r, OnFloor(ev, f, r),
         ev = "Granted" => r \in ReqIDs
  PROVE  VirtualSound'
BY DEF OnFloor, VirtualSound

\* A step of the wrapper does what the wrapped client does, or leaves it alone.
LEMMA FrameStepSound ==
  ASSUME ClientSound, VirtualSound, NEW t \in Threads, FrameStep(t)
  PROVE  /\ VirtualSound'
         /\ Starts(t) \/ Proceeds(t) \/ UNCHANGED <<clientVars, wireVars>>
<1>. USE DEF VirtualSound, tables, FrameGoto
<1>. DEFINE k == frame[t]
<1>0. k \in SoundFrame  OBVIOUS
<1>a. k.floor \in FloorIDs \cup {None} /\ k.todo \in SUBSET FloorIDs
  BY DEF SoundFrame, FrameRecord
<1>b. \A p \in {"dial", "hello", "hangup", "request", "release", "unlock"} :
        FrameGoto(t, p) => frame' \in [Threads -> SoundFrame]
  <2>. SUFFICES ASSUME NEW p \in {"dial", "hello", "hangup", "request", "release",
                                  "unlock"},
                       FrameGoto(t, p)
                PROVE  frame' \in [Threads -> SoundFrame]
    BY Zenon
  <2>1. [k EXCEPT !.at = p] \in SoundFrame  BY <1>0, FrameMoves
  <2>2. frame' = [frame EXCEPT ![t] = [k EXCEPT !.at = p]]  OBVIOUS
  <2>. QED  BY <2>1, <2>2
<1>. HIDE DEF FrameGoto
<1>1. CASE VDial(t)
  BY <1>1, <1>b DEF VDial, Starts
<1>2. CASE VReady(t)  BY <1>2 DEF VReady, Proceeds
<1>3. CASE VDialled(t)  BY <1>3, <1>b DEF VDialled, Proceeds
<1>4. CASE VHello(t)  BY <1>4, <1>b DEF VHello, Starts
<1>5. CASE VHelloDone(t)  BY <1>5, <1>b DEF VHelloDone, Proceeds
<1>6. CASE VHangup(t)  BY <1>6, <1>b DEF VHangup, Starts
<1>7. CASE VHangupDone(t)  BY <1>7, <1>b DEF VHangupDone, Proceeds
<1>8. CASE VReturn(t)  BY <1>8, FrameMoves DEF VReturn, FrameEnd
<1>9. CASE VRequestSend(t)
  <2>1. frame' \in [Threads -> SoundFrame]  BY <1>9, <1>b DEF VRequestSend
  <2>2. k.floor \in FloorIDs  BY <1>0, <1>9 DEF VRequestSend, SoundFrame
  <2>3. Starts(t) \/ UNCHANGED <<clientVars, wireVars>>
    BY <1>9, <2>2 DEF VRequestSend, Starts
  <2>. QED  BY <1>9, <2>1, <2>3 DEF VRequestSend
<1>10. CASE VRequestDone(t)
  <2>1. tracked' \in [ReqIDs -> FloorIDs \cup {None}]
    BY <1>10, <1>a DEF VRequestDone
  <2>. QED  BY <1>10, <1>b, <2>1 DEF VRequestDone, Proceeds
<1>11. CASE VReleaseLook(t)
  <2>1. ToRelease(t) \in SUBSET FloorIDs
    BY <1>0 DEF ToRelease, SoundFrame
  <2>2. [k EXCEPT !.at = "release", !.todo = ToRelease(t)] \in SoundFrame
    BY <1>0, <2>1, FrameMoves
  <2>3. frame' = [frame EXCEPT ![t] =
                    [k EXCEPT !.at = "release", !.todo = ToRelease(t)]]
    BY <1>11 DEF VReleaseLook
  <2>. QED  BY <1>11, <2>2, <2>3 DEF VReleaseLook
<1>12. CASE VReleaseNext(t)
  <2>1. PICK f \in k.todo :
          /\ frame' = [frame EXCEPT ![t].todo = @ \ {f}]
          /\ ReleaseFloor(t, f) \/ UNCHANGED <<clientVars, wireVars>>
    BY <1>12 DEF VReleaseNext
  <2>2. [k EXCEPT !.todo = k.todo \ {f}] \in SoundFrame
    BY <1>0, <1>a, FrameMoves
  <2>3. frame' = [frame EXCEPT ![t] = [k EXCEPT !.todo = k.todo \ {f}]]
    BY <2>1
  <2>4. f \in FloorIDs  BY <1>a, <2>1
  <2>. QED  BY <1>12, <2>1, <2>2, <2>3, <2>4 DEF VReleaseNext, Starts
<1>13. CASE VReleaseReturned(t)
  BY <1>13 DEF VReleaseReturned, virtualVars, Proceeds
<1>14. CASE VReleaseDone(t)  BY <1>14, <1>b DEF VReleaseDone
<1>15. CASE VCloseLook(t)  BY <1>15, <1>b DEF VCloseLook
<1>16. CASE VCallback(t)
  <2>1. Event(t) = "Granted" => call[t].resp.req \in ReqIDs
    BY <1>16 DEF VCallback, Callback, Event, ClientSound, SoundCall, Sound,
                 WellFormed
  <2>. QED  BY <1>16, <2>1, OnFloorSound DEF VCallback, Proceeds
<1>. QED  BY <1>1, <1>2, <1>3, <1>4, <1>5, <1>6, <1>7, <1>8, <1>9, <1>10,
             <1>11, <1>12, <1>13, <1>14, <1>15, <1>16 DEF FrameStep

LEMMA VirtualReaderSound ==
  ASSUME ClientSound, VirtualSound, VReaderCallback \/ VOnClose
  PROVE  VirtualSound' /\ ReaderActs
<1>1. CASE VReaderCallback
  <2>1. /\ reader.msg.prim # "FloorStatus" /\ reader.msg.status = "Granted"
             => reader.msg.req \in ReqIDs
        /\ reader.msg.prim # "FloorStatus" => reader.msg.prim = "FloorRequestStatus"
    BY <1>1 DEF VReaderCallback, ReaderCallback, ClientSound, SoundReader, Sound,
                WellFormed
  <2>2. CASE reader.msg.prim = "FloorStatus"
    BY <1>1, <2>2 DEF VReaderCallback, virtualVars, VirtualSound, ReaderActs
  <2>3. CASE reader.msg.prim # "FloorStatus"
    BY <1>1, <2>1, <2>3, OnFloorSound DEF VReaderCallback, ReaderActs
  <2>. QED  BY <2>2, <2>3
<1>2. CASE VOnClose
  BY <1>2 DEF VOnClose, tables, VirtualSound, ReaderActs
<1>. QED  BY <1>1, <1>2

-----------------------------------------------------------------------------
(***************************************************************************)
(* The server's side.  P!X is TCPServer's definition X seen through its    *)
(* proofs, S!X the same through the composition.                           *)
(***************************************************************************)

LEMMA SameStep ==
  ASSUME NEW c
  PROVE  S!Dispatch(c) \/ S!HandlerStep(c) \/ S!ConnectionStep(c) <=> P!StepOf(c)
BY DEF P!StepOf, S!connVars, P!connVars, S!floorVars, P!floorVars,
       S!seenVars, P!seenVars, S!NoJob, P!NoJob, S!Users, P!Users,
       S!RequestIDs, P!RequestIDs, S!Goto, P!Goto, S!Return, P!Return,
       S!Floor, P!Floor, S!Fid, P!Fid, S!Send, P!Send, S!NextID, P!NextID,
       S!Fresh, P!Fresh, S!NewFloor, P!NewFloor, S!Reading, P!Reading,
       S!Snapshotted, P!Snapshotted, S!Accept, P!Accept,
       S!PeerLost, P!PeerLost, S!ReadExit, P!ReadExit, S!Hello, P!Hello,
       S!Keepalive, P!Keepalive, S!HandleFloorRequest, P!HandleFloorRequest,
       S!FloorRequest, P!FloorRequest, S!SendPending, P!SendPending,
       S!Decide, P!Decide, S!TellGranted, P!TellGranted,
       S!TellDenied, P!TellDenied, S!StartRelease, P!StartRelease,
       S!ReleaseByFloorID, P!ReleaseByFloorID,
       S!FloorsByRequestID, P!FloorsByRequestID,
       S!FloorsOwnedBy, P!FloorsOwnedBy,
       S!ReleaseByRequestID, P!ReleaseByRequestID,
       S!ReleaseFallback, P!ReleaseFallback, S!FloorRelease, P!FloorRelease,
       S!TellReleased, P!TellReleased, S!SendBroadcast, P!SendBroadcast,
       S!ReleaseDone, P!ReleaseDone, S!HandleFloorQuery, P!HandleFloorQuery,
       S!AnswerQuery, P!AnswerQuery, S!HandleGoodbye, P!HandleGoodbye,
       S!GoodbyeRelease, P!GoodbyeRelease, S!GoodbyeNotify, P!GoodbyeNotify,
       S!GoodbyeEnd, P!GoodbyeEnd, S!Dispatch, P!Dispatch,
       S!HandlerStep, P!HandlerStep, S!ConnectionStep, P!ConnectionStep,
       S!NoUser, P!NoUser, S!Held, P!Held,
       S!NewFloorStateMachine, P!NewFloorStateMachine,
       S!CanRequest, P!CanRequest, S!Request, P!Request,
       S!CanGrant, P!CanGrant, S!Grant, P!Grant, S!CanDeny, P!CanDeny,
       S!Deny, P!Deny, S!CanRelease, P!CanRelease, S!Release, P!Release

LEMMA SameServer == S!Next <=> P!Next
BY SameStep DEF P!StepOf, S!connVars, P!connVars, S!seenVars, P!seenVars,
       S!floorVars, P!floorVars, S!Fresh, P!Fresh, S!NewFloor, P!NewFloor,
       S!NewFloorStateMachine, P!NewFloorStateMachine, S!NoUser, P!NoUser,
       S!CreateFloor, P!CreateFloor, S!AppGetFloor, P!AppGetFloor,
       S!AppCall, P!AppCall, S!ReleaseFloor, P!ReleaseFloor,
       S!ServerClose, P!ServerClose, S!CloseSession, P!CloseSession,
       S!CloseListener, P!CloseListener, S!Application, P!Application,
       S!Held, P!Held, S!CanGrant, P!CanGrant, S!Grant, P!Grant,
       S!CanDeny, P!CanDeny, S!Deny, P!Deny, S!CanRelease, P!CanRelease,
       S!Release, P!Release, S!Revoke, P!Revoke, S!Next, P!Next

LEMMA SameTypes == S!TypeOK <=> P!TypeOK
BY DEF S!Users, P!Users, S!RequestIDs, P!RequestIDs, S!Labels, P!Labels,
       S!SessionStates, P!SessionStates, S!Jobs, P!Jobs, S!Floors, P!Floors,
       S!TypeOK, P!TypeOK, S!FloorStates, P!FloorStates, S!NoUser, P!NoUser

LEMMA SameInit == S!Init <=> P!Init
BY DEF S!Init, P!Init, S!NoJob, P!NoJob, S!NewFloorStateMachine,
       P!NewFloorStateMachine, S!NoUser, P!NoUser

LEMMA ServerStepSound ==
  ASSUME ServerSound, [S!Next]_serverVars
  PROVE  ServerSound'
<1>1. [P!Next]_(P!vars)  BY SameServer DEF serverVars, P!vars
<1>2. P!FloorInv'
  BY <1>1, ServerConstants, P!FloorInvStep DEF ServerSound, P!ConstantsAssumption
<1>3. P!PointersNamed'
  BY <1>1, ServerConstants, P!PointersNamedStep
     DEF ServerSound, P!ConstantsAssumption
<1>. QED  BY <1>2, <1>3 DEF ServerSound

LEMMA WriteSound ==
  ASSUME WiresSound, NEW m \in Sound, Write(m)
  PROVE  WiresSound'
<1>1. /\ Len(inbox) \in Nat /\ Append(inbox, m) \in Seq(Sound)
      /\ Len(Append(inbox, m)) = Len(inbox) + 1
  BY SeqFacts DEF WiresSound
<1>2. Len(inbox) < MaxInbox /\ MaxInbox \in Nat
  BY ClientServerAssumption DEF Write
<1>3. inbox' \in {inbox, Append(inbox, m)} /\ link' = link /\ outbox' = outbox
  BY DEF Write
<1>. QED  BY <1>1, <1>2, <1>3 DEF WiresSound

\* What the handlers put into their messages.
LEMMA ServerFields ==
  ASSUME ServerSound, NEW c \in Conns
  PROVE  /\ job[c].req \in ReqIDs /\ S!NextID \in Nat
         /\ pc[c] \in P!FloorLabels =>
              /\ S!Fid(c) \in FloorIDs
              /\ S!Floor(c).state \in Statuses
              /\ S!Floor(c).requestID \in ReqIDs
<1>. USE ClientServerAssumption DEF S!RequestIDs, P!RequestIDs
<1>1. P!TypeOK /\ P!PointersNamed  BY DEF ServerSound, P!FloorInv
<1>2. job[c].req \in ReqIDs  BY <1>1 DEF P!TypeOK, P!Jobs
<1>3. S!NextID \in Nat  BY <1>1 DEF P!TypeOK, S!NextID
<1>4. ASSUME pc[c] \in P!FloorLabels
      PROVE  /\ S!Fid(c) \in FloorIDs
             /\ S!Floor(c).state \in Statuses
             /\ S!Floor(c).requestID \in ReqIDs
  <2>1. job[c].floor \in Cells /\ fsm[job[c].floor].fid \in FloorIDs
    BY <1>1, <1>4 DEF P!PointersNamed, P!IsNamed
  <2>2. fsm[job[c].floor] \in P!Floors  BY <1>1, <2>1 DEF P!TypeOK
  <2>. QED  BY <2>1, <2>2 DEF S!Fid, S!Floor, P!Floors, P!FloorStates, Statuses
<1>. QED  BY <1>2, <1>3, <1>4

LEMMA ReplySound ==
  ASSUME WiresSound, HandlingSound, pc[Me] # "read",
         NEW prim \in {"FloorRequestStatus", "FloorStatus", "GoodbyeAck", "Error"},
         NEW f \in FloorIDs \cup {None}, NEW r \in ReqIDs \cup {None},
         NEW st \in Statuses \cup {None},
         prim = "FloorRequestStatus" =>
           f \in FloorIDs /\ r \in ReqIDs /\ st \in Statuses,
         Reply(prim, f, r, st)
  PROVE  WiresSound'
<1>1. handling \in Sound  BY DEF HandlingSound
<1>2. [prim |-> prim, tx |-> handling.tx, floor |-> f, req |-> r,
       status |-> st] \in Sound
  BY <1>1 DEF Sound, WellFormed, Message
<1>. QED  BY <1>2, WriteSound DEF Reply

LEMMA AnnounceSound ==
  ASSUME WiresSound, ServerSound,
         NEW prim \in {"FloorRequestStatus", "Hello"},
         NEW f \in FloorIDs \cup {None}, NEW r \in ReqIDs \cup {None},
         NEW st \in Statuses \cup {None},
         prim = "FloorRequestStatus" =>
           f \in FloorIDs /\ r \in ReqIDs /\ st \in Statuses,
         Announce(prim, f, r, st)
  PROVE  WiresSound'
<1>0. Me \in Conns  BY ClientServerAssumption
<1>1. (IF setup.collide THEN S!NextID ELSE 0) \in Nat  BY <1>0, ServerFields
<1>2. [prim |-> prim, tx |-> IF setup.collide THEN S!NextID ELSE 0, floor |-> f,
       req |-> r, status |-> st] \in Sound
  BY <1>1 DEF Sound, WellFormed, Message
<1>. QED  BY <1>2, WriteSound DEF Announce

\* The handler of the client's connection starts.
LEMMA ServerReadsSound ==
  ASSUME IInv, ServerReads
  PROVE  S!Next /\ WiresSound' /\ HandlingSound'
<1>. USE DEF IInv
<1>0. Me \in Conns /\ pc \in [Conns -> P!Labels]
  BY ClientServerAssumption DEF ServerSound, P!FloorInv, P!TypeOK
<1>1. PICK m \in {Head(outbox) : i \in 1 .. Len(outbox)} :
        /\ Take(m)
        /\ \/ m.prim = "FloorRequest" /\ \E g \in setup.decisions :
                                           S!HandleFloorRequest(Me, m.floor, g)
           \/ m.prim = "FloorRelease" /\ S!ReleaseByFloorID(Me, m.floor)
           \/ m.prim = "FloorQuery" /\ S!HandleFloorQuery(Me, m.floor)
           \/ m.prim = "Goodbye" /\ S!HandleGoodbye(Me)
  BY DEF ServerReads
<1>2. m \in Sound /\ outbox' \in Seq(Sound) /\ handling' = m
  BY <1>1, SeqFacts DEF Take, WiresSound
<1>3. WiresSound'  BY <1>1, <1>2 DEF Take, WiresSound
<1>4. m.prim \in {"FloorRequest", "FloorRelease", "FloorQuery"} =>
        m.floor \in FloorIDs
  BY <1>2 DEF Sound, WellFormed
<1>5. setup.decisions \subseteq Decisions  BY DEF AllSetups
<1>6. S!Dispatch(Me)
  BY <1>1, <1>4, <1>5, ClientServerAssumption DEF S!Dispatch
<1>7. pc'[Me] \in {"release", "released"} => m.prim = "FloorRelease"
  BY <1>0, <1>1 DEF S!HandleFloorRequest, S!HandleFloorQuery, S!HandleGoodbye,
                    S!Goto
<1>8. HandlingSound'  BY <1>2, <1>7, NoneFacts DEF HandlingSound
<1>. QED  BY <1>0, <1>3, <1>6, <1>8 DEF S!Next

LEMMA ServerAnswersSound ==
  ASSUME IInv, ServerAnswers
  PROVE  [S!Next]_serverVars /\ WiresSound' /\ HandlingSound'
<1>. USE DEF IInv
<1>. DEFINE m == Head(outbox)
<1>0. Me \in Conns  BY ClientServerAssumption
<1>1. m \in Sound /\ outbox' \in Seq(Sound) /\ Len(inbox) \in Nat
      /\ Len(inbox) < MaxInbox /\ link' = link /\ handling' = handling
  BY SeqFacts DEF ServerAnswers, WiresSound
<1>2. \E prim \in {"HelloAck", "Error"} : inbox' = Append(inbox,
        [prim |-> prim, tx |-> m.tx, floor |-> None, req |-> None,
         status |-> None])
  BY DEF ServerAnswers
<1>3. \A prim \in {"HelloAck", "Error"} :
        [prim |-> prim, tx |-> m.tx, floor |-> None, req |-> None,
         status |-> None] \in Sound
  BY <1>1 DEF Sound, WellFormed, Message
<1>4. inbox' \in Seq(Sound) /\ Len(inbox') <= MaxInbox
  BY <1>1, <1>2, <1>3, SeqFacts, ClientServerAssumption DEF WiresSound
<1>5. S!Hello(Me) \/ UNCHANGED serverVars  BY DEF ServerAnswers
<1>6. [S!Next]_serverVars
  BY <1>0, <1>5, ClientServerAssumption DEF S!Next, S!Dispatch
<1>7. pc' = pc  BY <1>5 DEF S!Hello, serverVars
<1>. QED  BY <1>1, <1>4, <1>6, <1>7 DEF WiresSound, HandlingSound

\* The steps of a handler, by the labels they leave and reach.
LEMMA HandlerLabels ==
  ASSUME pc \in [Conns -> P!Labels], NEW c \in Conns, S!HandlerStep(c)
  PROVE  /\ pc[c] # "read"
         /\ \A d \in Conns : d # c => pc'[d] = pc[d]
         /\ pc'[c] \in {"release", "released"} => pc[c] \in {"release", "fallback"}
<1>. USE DEF S!Goto, S!Return
<1>1. CASE S!FloorRequest(c) \/ S!SendPending(c) \/ S!Decide(c)
  BY <1>1 DEF S!FloorRequest, S!SendPending, S!Decide
<1>2. CASE S!TellGranted(c) \/ S!TellDenied(c) \/ S!ReleaseFallback(c)
  BY <1>2 DEF S!TellGranted, S!TellDenied, S!ReleaseFallback, S!StartRelease
<1>3. CASE S!FloorRelease(c) \/ S!TellReleased(c) \/ S!SendBroadcast(c)
  BY <1>3 DEF S!FloorRelease, S!TellReleased, S!SendBroadcast
<1>4. CASE S!ReleaseDone(c) \/ S!AnswerQuery(c) \/ S!GoodbyeRelease(c)
  BY <1>4 DEF S!ReleaseDone, S!AnswerQuery, S!GoodbyeRelease
<1>5. CASE S!GoodbyeNotify(c) \/ S!GoodbyeEnd(c)
  BY <1>5 DEF S!GoodbyeNotify, S!GoodbyeEnd
<1>. QED  BY <1>1, <1>2, <1>3, <1>4, <1>5 DEF S!HandlerStep

LEMMA ServerHandlesSound ==
  ASSUME IInv, ServerHandles
  PROVE  S!Next /\ WiresSound' /\ HandlingSound'
<1>. USE DEF IInv
<1>0. Me \in Conns /\ pc \in [Conns -> P!Labels]
  BY ClientServerAssumption DEF ServerSound, P!FloorInv, P!TypeOK
<1>1. S!HandlerStep(Me) /\ pc[Me] # "fallback"
  <2>1. S!HandlerStep(Me)  BY DEF ServerHandles, S!HandlerStep
  <2>2. pc[Me] # "fallback"
    BY DEF ServerHandles, S!FloorRequest, S!SendPending, S!Decide,
           S!TellGranted, S!TellDenied, S!FloorRelease, S!TellReleased,
           S!SendBroadcast, S!ReleaseDone, S!AnswerQuery, S!GoodbyeRelease,
           S!GoodbyeNotify, S!GoodbyeEnd
  <2>. QED  BY <2>1, <2>2
<1>2. /\ pc[Me] # "read"
      /\ pc'[Me] \in {"release", "released"} => pc[Me] = "release"
  BY <1>0, <1>1, HandlerLabels
<1>3. HandlingSound'
  BY <1>2 DEF ServerHandles, HandlingSound
<1>4. handling \in Sound  BY <1>2 DEF HandlingSound
<1>5. WiresSound'
  <2>1. CASE UNCHANGED wireVars  BY <2>1 DEF wireVars, WiresSound
  <2>2. CASE ErrorOrNothing
    <3>1. CASE Reply("Error", None, None, None)  BY <1>2, <3>1, ReplySound
    <3>. QED  BY <2>1, <2>2, <3>1 DEF ErrorOrNothing
  <2>3. CASE Reply("GoodbyeAck", None, None, None)  BY <1>2, <2>3, ReplySound
  <2>4. ASSUME NEW r \in ReqIDs, NEW st \in Statuses, pc[Me] \in P!FloorLabels,
               NEW prim \in {"FloorRequestStatus", "FloorStatus"},
               Reply(prim, S!Fid(Me), r, st)
        PROVE  WiresSound'
    <3>1. S!Fid(Me) \in FloorIDs  BY <1>0, <2>4, ServerFields
    <3>. QED  BY <1>2, <2>4, <3>1, ReplySound
  <2>5. job[Me].req \in ReqIDs  BY <1>0, ServerFields
  <2>6. CASE /\ S!SendPending(Me)
             /\ Reply("FloorRequestStatus", S!Fid(Me), job[Me].req, "Pending")
    BY <2>4, <2>5, <2>6 DEF S!SendPending, P!FloorLabels, Statuses
  <2>7. CASE /\ S!TellGranted(Me)
             /\ Reply("FloorRequestStatus", S!Fid(Me), job[Me].req, "Granted")
    BY <2>4, <2>5, <2>7 DEF S!TellGranted, P!FloorLabels, Statuses
  <2>8. CASE /\ S!TellDenied(Me)
             /\ Reply("FloorRequestStatus", S!Fid(Me), job[Me].req, "Denied")
    BY <2>4, <2>5, <2>8 DEF S!TellDenied, P!FloorLabels, Statuses
  <2>9. CASE /\ S!TellReleased(Me)
             /\ Reply("FloorRequestStatus", S!Fid(Me), handling.req, "Released")
    <3>1. pc[Me] = "released"  BY <2>9 DEF S!TellReleased
    <3>2. handling.req \in ReqIDs
      BY <1>4, <3>1 DEF HandlingSound, Sound, WellFormed
    <3>. QED  BY <2>4, <2>9, <3>1, <3>2 DEF P!FloorLabels, Statuses
  <2>10. CASE /\ S!AnswerQuery(Me)
              /\ Reply("FloorStatus", S!Fid(Me), job[Me].req, S!Floor(Me).state)
    <3>1. pc[Me] \in P!FloorLabels  BY <2>10 DEF S!AnswerQuery, P!FloorLabels
    <3>2. S!Floor(Me).state \in Statuses  BY <1>0, <3>1, ServerFields
    <3>. QED  BY <2>4, <2>5, <2>10, <3>1, <3>2
  <2>. QED  BY <2>1, <2>2, <2>3, <2>6, <2>7, <2>8, <2>9, <2>10 DEF ServerHandles
<1>. QED  BY <1>0, <1>1, <1>3, <1>5 DEF S!Next

LEMMA PeerSound ==
  ASSUME IInv, NEW c \in setup.peers, Peer(c)
  PROVE  S!Next /\ WiresSound' /\ HandlingSound'
<1>. USE DEF IInv
<1>0. Me \in Conns /\ c \in Conns /\ c # Me /\ pc \in [Conns -> P!Labels]
  BY ClientServerAssumption DEF ServerSound, P!FloorInv, P!TypeOK, AllSetups
<1>1. CASE OtherHandles(c)
  <2>1. S!HandlerStep(c)  BY <1>1 DEF OtherHandles, S!HandlerStep
  <2>2. pc'[Me] = pc[Me]  BY <1>0, <2>1, HandlerLabels
  <2>3. WiresSound'
    <3>1. CASE UNCHANGED wireVars  BY <3>1 DEF wireVars, WiresSound
    <3>2. ASSUME S!SendBroadcast(c), NEW r \in S!RequestIDs,
                 Announce("FloorRequestStatus", S!Fid(c), r, "Released")
          PROVE  WiresSound'
      <4>1. pc[c] \in P!FloorLabels  BY <3>2 DEF S!SendBroadcast, P!FloorLabels
      <4>2. S!Fid(c) \in FloorIDs /\ r \in ReqIDs
        BY <1>0, <4>1, ServerFields, SameIDs
      <4>. QED  BY <3>2, <4>2, AnnounceSound DEF Statuses
    <3>. QED  BY <1>1, <3>1, <3>2 DEF OtherHandles
  <2>4. handling' = handling  BY DEF Peer
  <2>. QED  BY <1>0, <2>1, <2>2, <2>3, <2>4 DEF S!Next, HandlingSound
<1>2. CASE /\ \/ S!Accept(c)
              \/ \E f \in FloorIDs, g \in setup.decisions :
                   S!HandleFloorRequest(c, f, g)
              \/ \E f \in FloorIDs : S!ReleaseByFloorID(c, f)
           /\ UNCHANGED wireVars
  <2>1. setup.decisions \subseteq Decisions  BY DEF AllSetups
  <2>2. S!Dispatch(c) \/ S!ConnectionStep(c)
    BY <1>2, <2>1, ClientServerAssumption DEF S!Dispatch, S!ConnectionStep
  <2>3. pc'[Me] = pc[Me]
    BY <1>0, <1>2 DEF S!Accept, S!HandleFloorRequest, S!ReleaseByFloorID,
                      S!StartRelease, S!Goto
  <2>4. handling' = handling  BY DEF Peer
  <2>. QED  BY <1>0, <1>2, <2>2, <2>3, <2>4
            DEF S!Next, wireVars, WiresSound, HandlingSound
<1>. QED  BY <1>1, <1>2 DEF Peer

LEMMA ConnectionSound ==
  ASSUME IInv, Keepalive \/ Connection \/ NetworkFails
  PROVE  S!Next /\ WiresSound' /\ HandlingSound'
<1>. USE DEF IInv
<1>0. Me \in Conns  BY ClientServerAssumption
<1>1. S!ConnectionStep(Me)
  BY DEF Keepalive, Connection, NetworkFails, Accepted, ServerSeesEOF,
         ServerHangsUp, Break, S!ConnectionStep
<1>2. pc' = pc /\ handling' = handling
  BY <1>1 DEF Keepalive, Connection, NetworkFails, S!ConnectionStep, S!Accept,
              S!PeerLost, S!ReadExit, S!Keepalive
<1>3. WiresSound'
  <2>1. CASE UNCHANGED wireVars  BY <2>1 DEF wireVars, WiresSound
  <2>2. CASE Keepalive  BY <2>2, AnnounceSound DEF Keepalive
  <2>3. CASE ServerHangsUp  BY <2>3, SeqFacts DEF ServerHangsUp, WiresSound
  <2>4. CASE Break
    <3>1. PICK k \in 0 .. Len(inbox) : inbox' = SubSeq(inbox, 1, k)
      BY <2>4 DEF Break
    <3>2. Len(inbox) \in Nat /\ \A i \in 1 .. k : inbox[i] \in Sound
      BY ElementOfSeq, SeqFacts DEF WiresSound
    <3>3. /\ SubSeq(inbox, 1, k) \in Seq(Sound)
          /\ Len(SubSeq(inbox, 1, k)) = IF 1 <= k THEN k - 1 + 1 ELSE 0
      BY <3>2, SubSeqProperties
    <3>. QED  BY <2>4, <3>1, <3>2, <3>3, SeqFacts, ClientServerAssumption
              DEF Break, WiresSound
  <2>. QED  BY <2>1, <2>2, <2>3, <2>4
            DEF Connection, NetworkFails, Accepted, ServerSeesEOF
<1>. QED  BY <1>0, <1>1, <1>2, <1>3 DEF S!Next, HandlingSound

-----------------------------------------------------------------------------
(***************************************************************************)
(* The step of the whole system, and the theorems.                         *)
(***************************************************************************)

\* A step of the client's side.
LEMMA ClientRunsSound ==
  ASSUME ClientSound, WiresSound, VirtualSound,
         \/ \E t \in Threads : ApplicationCall(t) \/ ThreadStep(t)
         \/ ReadLoop
  PROVE  ClientSound' /\ WiresSound' /\ VirtualSound'
<1>1. UNCHANGED <<clientVars, wireVars>> => ClientSound' /\ WiresSound'
  BY DEF clientVars, wireVars, ClientSound, WiresSound
<1>2. UNCHANGED virtualVars => VirtualSound'  BY DEF virtualVars, VirtualSound
<1>3. ASSUME NEW t \in Threads, ApplicationCall(t)
      PROVE  ClientSound' /\ WiresSound' /\ VirtualSound'
  <2>1. CASE Starts(t) /\ UNCHANGED virtualVars
    BY <1>2, <2>1, StartsSound
  <2>2. CASE VirtualCall(t) \/ VClose(t)
    BY <1>1, <2>2, VirtualCallSound
  <2>. QED  BY <1>3, <2>1, <2>2 DEF ApplicationCall, Starts
<1>4. ASSUME NEW t \in Threads, ThreadStep(t)
      PROVE  ClientSound' /\ WiresSound' /\ VirtualSound'
  <2>1. CASE Proceeds(t) /\ UNCHANGED virtualVars
    BY <1>2, <2>1, ProceedsSound
  <2>2. CASE FrameStep(t)
    <3>1. /\ VirtualSound'
          /\ Starts(t) \/ Proceeds(t) \/ UNCHANGED <<clientVars, wireVars>>
      BY <2>2, FrameStepSound
    <3>. QED  BY <1>1, <3>1, StartsSound, ProceedsSound
  <2>. QED  BY <1>4, <2>1, <2>2 DEF ThreadStep, Proceeds
<1>5. ASSUME ReadLoop
      PROVE  ClientSound' /\ WiresSound' /\ VirtualSound'
  <2>1. CASE ReaderActs /\ UNCHANGED virtualVars
    BY <1>2, <2>1, ReaderSound
  <2>2. CASE VReaderCallback \/ VOnClose
    BY <2>2, VirtualReaderSound, ReaderSound
  <2>. QED  BY <1>5, <2>1, <2>2 DEF ReadLoop, ReaderActs
<1>. QED  BY <1>3, <1>4, <1>5

LEMMA NextSound ==
  ASSUME IInv, [Next]_vars
  PROVE  IInv' /\ [S!Next]_serverVars
<1>1. CASE UNCHANGED vars
  <2>1. UNCHANGED <<clientVars, virtualVars, wireVars, serverVars, handling, setup>>
    BY <1>1 DEF vars
  <2>2. ServerSound'  BY <2>1, ServerStepSound DEF IInv
  <2>3. pc' = pc  BY <2>1 DEF serverVars
  <2>. QED  BY <2>1, <2>2, <2>3 DEF IInv, clientVars, virtualVars, wireVars,
            ClientSound, VirtualSound, WiresSound, HandlingSound
<1>2. CASE ReaderRuns \/ \E t \in setup.threads : Calls(t) \/ ThreadRuns(t)
  <2>1. UNCHANGED <<serverVars, handling, setup>>
    BY <1>2 DEF ReaderRuns, Calls, ThreadRuns
  <2>2. \/ \E t \in Threads : ApplicationCall(t) \/ ThreadStep(t)
        \/ ReadLoop
    BY <1>2 DEF ReaderRuns, Calls, ThreadRuns, IInv, AllSetups
  <2>3. ClientSound' /\ WiresSound' /\ VirtualSound'
    BY <2>2, ClientRunsSound DEF IInv
  <2>4. ServerSound'  BY <2>1, ServerStepSound DEF IInv
  <2>5. pc' = pc  BY <2>1 DEF serverVars
  <2>. QED  BY <2>1, <2>3, <2>4, <2>5 DEF IInv, HandlingSound
<1>3. CASE \/ ServerRuns \/ Keepalive \/ Connection \/ NetworkFails
           \/ \E c \in setup.peers : Peer(c)
  <2>1. [S!Next]_serverVars /\ WiresSound' /\ HandlingSound'
    BY <1>3, ServerReadsSound, ServerAnswersSound, ServerHandlesSound,
       PeerSound, ConnectionSound DEF ServerRuns
  <2>2. UNCHANGED <<clientVars, virtualVars, setup>>
    BY <1>3 DEF ServerRuns, Keepalive, Connection, NetworkFails, Peer
  <2>3. ServerSound'  BY <2>1, ServerStepSound DEF IInv
  <2>. QED  BY <2>1, <2>2, <2>3 DEF IInv, clientVars, virtualVars, ClientSound,
            VirtualSound
<1>. QED  BY <1>1, <1>2, <1>3 DEF Next

LEMMA InitSound == Init => IInv
<1>. SUFFICES ASSUME Init PROVE IInv  OBVIOUS
<1>1. ClientSound
  BY NewCalls DEF Init, ClientInit, ClientSound, ClientStates, Entry, SoundReader,
                  ReaderRecord
<1>2. WiresSound
  BY SeqFacts, ClientServerAssumption DEF Init, ClientInit, WiresSound
<1>3. VirtualSound
  BY DEF Init, VirtualInit, VirtualSound, NoFrame, SoundFrame, FrameRecord
<1>4. ServerSound
  BY SameInit, ServerConstants, P!ServerInit
     DEF Init, ServerSound, P!ConstantsAssumption
<1>5. HandlingSound
  BY ClientServerAssumption DEF Init, HandlingSound, S!Init
<1>6. setup \in AllSetups  BY ClientServerAssumption DEF Init
<1>. QED  BY <1>1, <1>2, <1>3, <1>4, <1>5, <1>6 DEF IInv

LEMMA IInvType == IInv => TypeOK
<1>. SUFFICES ASSUME IInv PROVE TypeOK  OBVIOUS
<1>0. Sound \subseteq Message  BY DEF Sound
<1>1. outbox \in Seq(Message) /\ inbox \in Seq(Message)
  BY <1>0, SeqMonotonic DEF IInv, WiresSound
<1>a. /\ SoundCall \subseteq CallRecord /\ SoundReader \subseteq ReaderRecord
      /\ SoundFrame \subseteq FrameRecord
  BY DEF SoundCall, SoundReader, SoundFrame
<1>2. ClientTypeOK
  <2>1. call \in [Threads -> CallRecord] /\ reader \in ReaderRecord
    BY <1>a DEF IInv, ClientSound
  <2>2. chan \in [Threads -> Message \cup {None}]
    BY <1>0 DEF IInv, ClientSound
  <2>. QED  BY <1>1, <2>1, <2>2 DEF IInv, ClientSound, WiresSound, ClientTypeOK,
            ClientStates, Entry
<1>3. VirtualTypeOK
  <2>1. frame \in [Threads -> FrameRecord]  BY <1>a DEF IInv, VirtualSound
  <2>. QED  BY <2>1 DEF IInv, VirtualSound, VirtualTypeOK
<1>4. S!TypeOK  BY SameTypes DEF IInv, ServerSound, P!FloorInv
<1>. QED  BY <1>0, <1>2, <1>3, <1>4 DEF TypeOK, IInv, WiresSound, HandlingSound

LEMMA IInvInductive == Spec => []IInv
BY InitSound, NextSound, PTL DEF Spec

\* The composition keeps its types for any number of threads, floors, peers and
\* any setup: in particular every message on either wire is well-formed, a
\* request the read loop or a callback looks at is there, and the server never
\* answers without a message to answer (client.go:205-388, virtual/client.go:150,
\* server.go:896-1040).
THEOREM TypeCorrect == Spec => []TypeOK
BY IInvInductive, IInvType, PTL

\* Behind the wires the server behaves as its own specification says: every
\* behaviour of the composition is one of TCPServer, so that what is proved of
\* TCPServer holds of the server this client talks to (server.go:296-1040).
THEOREM ImplementsServer == Spec => S!Spec
<1>1. Init => S!Init  BY DEF Init
<1>2. IInv /\ [Next]_vars => [S!Next]_(S!vars)
  BY NextSound DEF serverVars, S!vars
<1>. QED  BY <1>1, <1>2, IInvInductive, PTL DEF Spec, S!Spec

=============================================================================
