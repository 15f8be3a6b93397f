----------------------------- MODULE Transport -----------------------------
(***************************************************************************)
(* transport.go, the TCP half: two Transports at the ends of one           *)
(* connection, the octets between them, and the goroutines of each: the    *)
(* read loop, the keepalive loops, a goroutine that sends and one that     *)
(* calls Close.                                                            *)
(*                                                                         *)
(* A write holds t.mu for reading until its octets are out or its deadline *)
(* is over, so Close waits for it.  An incomplete read is no state of its  *)
(* own: the octets of stream[e] arrive at any time, and only a deadline    *)
(* tells how many of them have.                                            *)
(***************************************************************************)
EXTENDS Codec, FiniteSets

CONSTANTS
  Ends,       \* the client and the server
  Server,     \* the end whose handler starts keepalives and hangs up on Goodbye
  Tickers,    \* keepalive goroutines of one Transport, at most
  Setups      \* what the ends do and which faults there are, one record per case

VARIABLES
  setup,      \* the case
  closed,     \* Transport.closed
  cancelled,  \* Transport.ctx is done
  conn,       \* each end's half of the connection: "open" or "closed"
  broken,     \* the connection is reset
  stream,     \* octets on their way to an end
  sent,       \* what the sends of an end that succeeded said
  received,   \* the messages, in octets, that an end's OnMessage was called with
  reader,     \* read loop: place and the common header it has read
  writer,     \* the goroutine that calls SendMessage or SendRawData
  ticker,     \* keepalive loops
  closer,     \* the goroutine that calls Close
  torn        \* history: a deadline cut a message on its way to an end

vars == <<setup, closed, cancelled, conn, broken, stream, sent, received,
          reader, writer, ticker, closer, torn>>

ASSUME TransportAssumption == Server \in Ends /\ Cardinality(Ends) = 2

Peer(e) == CHOOSE p \in Ends : p # e

Idle == [pc |-> "idle"]

Init ==
  /\ setup \in Setups
  /\ closed = [e \in Ends |-> FALSE]
  /\ cancelled = [e \in Ends |-> FALSE]
  /\ conn = [e \in Ends |-> "open"]
  /\ broken = FALSE
  /\ stream = [e \in Ends |-> <<>>]
  /\ sent = [e \in Ends |-> <<>>]
  /\ received = [e \in Ends |-> <<>>]
  /\ reader = [e \in Ends |-> [pc |-> "loop"]]
  /\ writer = [e \in Ends |-> Idle]
  /\ ticker = [e \in Ends |-> [k \in Tickers |-> "none"]]
  /\ closer = [e \in Ends |-> "idle"]
  /\ torn = [e \in Ends |-> FALSE]

------------------------------------------------------------------------------
(* Sending. *)

\* t.mu is held for reading by a write that is under way.
Writing(e) == writer[e].pc = "writing" \/ \E k \in Tickers : ticker[e][k] = "writing"

\* The read loop is at t.mu.Lock, in Close: a sync.RWMutex lets no new reader in.
LockWanted(e) == reader[e].pc \in {"exit", "hangup"}

\* SendMessage or SendRawData up to the write; a closed transport refuses.
Send(e) ==
  /\ writer[e] = Idle
  /\ Len(sent[e]) < setup.sends[e]
  /\ ~closed[e] /\ ~LockWanted(e)
  /\ \E says \in setup.says[e], pushed \in BOOLEAN :
       /\ pushed => says.kind = "FloorStatus" /\ ~says.response
       /\ writer' = [writer EXCEPT ![e] = [pc |-> "writing", says |-> says,
                                           data |-> Octetted(says, pushed)]]
  /\ UNCHANGED <<setup, closed, cancelled, conn, broken, stream, sent, received,
                 reader, ticker, closer, torn>>

\* conn.Write: the whole message, or what the deadline leaves of it, or an
\* error of the connection.  After an error the transport stays in use.  What is
\* written to a peer that has closed is lost, with an error or without one.
Write(e, says, data) ==
  \/ /\ ~broken /\ conn[Peer(e)] = "open"
     /\ stream' = [stream EXCEPT ![Peer(e)] = @ \o data]
     /\ sent' = [sent EXCEPT ![e] = Append(@, says)]
     /\ UNCHANGED torn
  \/ /\ ~broken /\ conn[Peer(e)] = "open"
     /\ "write deadline" \in setup.faults /\ ~torn[Peer(e)]
     /\ \E n \in 1..(Len(data) - 1) :
          stream' = [stream EXCEPT ![Peer(e)] = @ \o SubSeq(data, 1, n)]
     /\ torn' = [torn EXCEPT ![Peer(e)] = TRUE]
     /\ UNCHANGED sent
  \/ /\ ~broken /\ conn[Peer(e)] = "closed"
     /\ sent' = [sent EXCEPT ![e] = Append(@, says)]
     /\ UNCHANGED <<stream, torn>>
  \/ /\ broken \/ conn[Peer(e)] = "closed"
     /\ UNCHANGED <<stream, sent, torn>>

SendEnds(e) ==
  /\ writer[e].pc = "writing"
  /\ Write(e, writer[e].says, writer[e].data)
  /\ writer' = [writer EXCEPT ![e] = Idle]
  /\ UNCHANGED <<setup, closed, cancelled, conn, broken, received, reader, ticker, closer>>

------------------------------------------------------------------------------
(* Keepalives. *)

\* A mutant: the loop trusts its context alone.
TickUnchecked(e, k) ==
  /\ ticker[e][k] = "idle" /\ ~LockWanted(e)
  /\ closed[e] \/ Len(sent[e]) < setup.sends[e]
  /\ ticker' = [ticker EXCEPT ![e][k] = "ticked"]
  /\ UNCHANGED <<setup, closed, cancelled, conn, broken, stream, sent, received,
                 reader, writer, closer, torn>>

\* The ticker fires: a closed transport ends the loop.
Tick(e, k) ==
  /\ ticker[e][k] = "idle" /\ ~LockWanted(e)
  /\ closed[e] \/ Len(sent[e]) < setup.sends[e]
  /\ ticker' = [ticker EXCEPT ![e][k] = IF closed[e] THEN "done" ELSE "ticked"]
  /\ UNCHANGED <<setup, closed, cancelled, conn, broken, stream, sent, received,
                 reader, writer, closer, torn>>

\* keepaliveSender up to the write.
KeepaliveSend(e, k) ==
  /\ ticker[e][k] = "ticked" /\ ~LockWanted(e)
  /\ ticker' = [ticker EXCEPT ![e][k] = IF closed[e] THEN "idle" ELSE "writing"]
  /\ UNCHANGED <<setup, closed, cancelled, conn, broken, stream, sent, received,
                 reader, writer, closer, torn>>

KeepaliveSent(e, k) ==
  /\ ticker[e][k] = "writing"
  /\ Write(e, setup.keepalive, Octetted(setup.keepalive, FALSE))
  /\ ticker' = [ticker EXCEPT ![e][k] = "idle"]
  /\ UNCHANGED <<setup, closed, cancelled, conn, broken, received, reader, writer, closer>>

KeepaliveStops(e, k) ==
  /\ ticker[e][k] = "idle"
  /\ cancelled[e]
  /\ ticker' = [ticker EXCEPT ![e][k] = "done"]
  /\ UNCHANGED <<setup, closed, cancelled, conn, broken, stream, sent, received,
                 reader, writer, closer, torn>>

keepaliveLoop(e) ==
  \E k \in Tickers :
    Tick(e, k) \/ KeepaliveSend(e, k) \/ KeepaliveSent(e, k) \/ KeepaliveStops(e, k)

------------------------------------------------------------------------------
(* Close. *)

\* Marks the transport closed and cancels its context; the context of a
\* Transport of DialContext belongs to the caller and is not cancelled.
MarkClosed(e) ==
  /\ ~Writing(e)
  /\ closed' = [closed EXCEPT ![e] = TRUE]
  /\ cancelled' = [cancelled EXCEPT ![e] = @ \/ e \notin setup.foreign]

\* keepaliveWg.Wait, then conn.Close.
Hangup(e) ==
  /\ \A k \in Tickers : ticker[e][k] \in {"none", "done"}
  /\ conn' = [conn EXCEPT ![e] = "closed"]

Close(e) ==
  /\ closer[e] = "idle"
  /\ e \in setup.closes
  /\ MarkClosed(e)
  /\ closer' = [closer EXCEPT ![e] = IF closed[e] THEN "returned" ELSE "waiting"]
  /\ UNCHANGED <<setup, conn, broken, stream, sent, received, reader, writer, ticker, torn>>

CloseReturn(e) ==
  /\ closer[e] = "waiting"
  /\ Hangup(e)
  /\ closer' = [closer EXCEPT ![e] = "returned"]
  /\ UNCHANGED <<setup, closed, cancelled, broken, stream, sent, received,
                 reader, writer, ticker, torn>>

------------------------------------------------------------------------------
(* The read loop. *)

Goto(e, place) == reader' = [reader EXCEPT ![e] = [pc |-> place]]

\* The context is checked, the deadline set; SetReadDeadline fails on a
\* connection that is closed.
LoopTop(e) ==
  /\ reader[e].pc = "loop"
  /\ Goto(e, IF cancelled[e] \/ conn[e] = "closed" THEN "exit" ELSE "header")
  /\ UNCHANGED <<setup, closed, cancelled, conn, broken, stream, sent, received,
                 writer, ticker, closer, torn>>

\* Octets that ReadMessage waits for.
Needs(e) == IF reader[e].pc = "header" THEN CommonHeaderLength ELSE PayloadSize(reader[e].header)

Reading(e) == reader[e].pc \in {"header", "payload"}
Readable(e) == conn[e] = "open" /\ ~broken
Take(e, n) == stream' = [stream EXCEPT ![e] = SubSeq(@, n + 1, Len(@))]

ReadHeader(e) ==
  /\ reader[e].pc = "header" /\ Readable(e) /\ Len(stream[e]) >= Needs(e)
  /\ Take(e, CommonHeaderLength)
  /\ reader' = [reader EXCEPT ![e] =
                  [pc |-> "payload", header |-> SubSeq(stream[e], 1, CommonHeaderLength)]]
  /\ UNCHANGED <<setup, closed, cancelled, conn, broken, sent, received,
                 writer, ticker, closer, torn>>

\* ReadMessage hands the message to OnMessage; a message that does not decode
\* ends the loop.
ReadPayload(e) ==
  /\ reader[e].pc = "payload" /\ Readable(e) /\ Len(stream[e]) >= Needs(e)
  /\ Take(e, Needs(e))
  /\ LET data == reader[e].header \o SubSeq(stream[e], 1, Needs(e)) IN
       IF Decode(data).ok
         THEN received' = [received EXCEPT ![e] = Append(@, data)] /\ Goto(e, "handling")
         ELSE Goto(e, "exit") /\ UNCHANGED received
  /\ UNCHANGED <<setup, closed, cancelled, conn, broken, sent, writer, ticker, closer, torn>>

\* A mutant: the end of the stream is reported before the octets in front of it.
ReadFailsEarly(e) ==
  /\ Reading(e)
  /\ ~Readable(e) \/ conn[Peer(e)] = "closed"
  /\ Goto(e, "exit")
  /\ UNCHANGED <<setup, closed, cancelled, conn, broken, stream, sent, received,
                 writer, ticker, closer, torn>>

\* EOF, also in the middle of a message, a reset, or the end's own Close.
ReadFails(e) ==
  /\ Reading(e)
  /\ ~Readable(e) \/ (conn[Peer(e)] = "closed" /\ Len(stream[e]) < Needs(e))
  /\ Goto(e, "exit")
  /\ UNCHANGED <<setup, closed, cancelled, conn, broken, stream, sent, received,
                 writer, ticker, closer, torn>>

\* The deadline expires with n octets read, which are gone.  Once the octets
\* are out of step every further deadline takes all there are.
ReadDeadline(e) ==
  /\ Reading(e) /\ Readable(e)
  /\ \E n \in 0..(Needs(e) - 1) :
       /\ n <= Len(stream[e])
       /\ \/ Len(stream[e]) = 0 /\ reader[e].pc = "header" /\ conn[Peer(e)] = "open"
          \/ "read deadline" \in setup.faults /\ ~torn[e] /\ (n > 0 \/ reader[e].pc = "payload")
          \/ torn[e] /\ n = Len(stream[e]) /\ conn[Peer(e)] = "open"
       /\ Take(e, n)
       /\ torn' = [torn EXCEPT ![e] = @ \/ n > 0 \/ reader[e].pc = "payload"]
  /\ Goto(e, "loop")
  /\ UNCHANGED <<setup, closed, cancelled, conn, broken, sent, received, writer, ticker, closer>>

\* OnMessage: handleHello of the server starts a keepalive loop, handleGoodbye
\* closes the transport from the read loop.
OnMessage(e) ==
  LET primitive == Last(received[e])[2]
      free == {k \in Tickers : ticker[e][k] = "none"}
  IN
  /\ reader[e].pc = "handling"
  /\ Goto(e, IF e = Server /\ primitive = Primitive.Goodbye THEN "hangup" ELSE "loop")
  /\ ticker' = IF e = Server /\ primitive = Primitive.Hello /\ free # {}
                 THEN [ticker EXCEPT ![e][CHOOSE k \in free : TRUE] = "idle"]
                 ELSE ticker
  /\ UNCHANGED <<setup, closed, cancelled, conn, broken, stream, sent, received,
                 writer, closer, torn>>

\* handleGoodbye calls Close.
OnMessageCloses(e) ==
  /\ reader[e].pc = "hangup"
  /\ MarkClosed(e)
  /\ Goto(e, IF closed[e] THEN "loop" ELSE "closing")
  /\ UNCHANGED <<setup, conn, broken, stream, sent, received, writer, ticker, closer, torn>>

OnMessageReturns(e) ==
  /\ reader[e].pc = "closing"
  /\ Hangup(e)
  /\ Goto(e, "loop")
  /\ UNCHANGED <<setup, closed, cancelled, broken, stream, sent, received,
                 writer, ticker, closer, torn>>

\* A mutant: the read loop leaves the connection to whoever calls Close.
ReadExitNoClose(e) ==
  /\ reader[e].pc = "exit"
  /\ Goto(e, "onclose")
  /\ UNCHANGED <<setup, closed, cancelled, conn, broken, stream, sent, received,
                 writer, ticker, closer, torn>>

\* The deferred Close of the read loop.
ReadExit(e) ==
  /\ reader[e].pc = "exit"
  /\ MarkClosed(e)
  /\ Goto(e, IF closed[e] THEN "onclose" ELSE "leaving")
  /\ UNCHANGED <<setup, conn, broken, stream, sent, received, writer, ticker, closer, torn>>

ReadExitWaits(e) ==
  /\ reader[e].pc = "leaving"
  /\ Hangup(e)
  /\ Goto(e, "onclose")
  /\ UNCHANGED <<setup, closed, cancelled, broken, stream, sent, received,
                 writer, ticker, closer, torn>>

OnClose(e) ==
  /\ reader[e].pc = "onclose"
  /\ Goto(e, "ended")
  /\ UNCHANGED <<setup, closed, cancelled, conn, broken, stream, sent, received,
                 writer, ticker, closer, torn>>

readLoop(e) ==
  \/ LoopTop(e) \/ ReadHeader(e) \/ ReadPayload(e) \/ ReadFails(e) \/ ReadDeadline(e)
  \/ OnMessage(e) \/ OnMessageCloses(e) \/ OnMessageReturns(e)
  \/ ReadExit(e) \/ ReadExitWaits(e) \/ OnClose(e)

------------------------------------------------------------------------------

\* The caller of DialContext cancels.
CancelContext(e) ==
  /\ e \in setup.foreign /\ ~cancelled[e]
  /\ cancelled' = [cancelled EXCEPT ![e] = TRUE]
  /\ UNCHANGED <<setup, closed, conn, broken, stream, sent, received,
                 reader, writer, ticker, closer, torn>>

Reset ==
  /\ "reset" \in setup.faults /\ ~broken
  /\ broken' = TRUE
  /\ UNCHANGED <<setup, closed, cancelled, conn, stream, sent, received,
                 reader, writer, ticker, closer, torn>>

Next ==
  \/ \E e \in Ends :
       Send(e) \/ SendEnds(e) \/ keepaliveLoop(e) \/ Close(e) \/ CloseReturn(e)
         \/ readLoop(e) \/ CancelContext(e)
  \/ Reset

Spec == Init /\ [][Next]_vars

\* Goroutines run, writes and reads have deadlines, tickers fire.
Fairness ==
  \A e \in Ends :
    /\ WF_vars(SendEnds(e))
    /\ WF_vars(CloseReturn(e))
    /\ WF_vars(readLoop(e))
    /\ \A k \in Tickers :
         WF_vars(Tick(e, k) \/ KeepaliveSend(e, k) \/ KeepaliveSent(e, k) \/ KeepaliveStops(e, k))

FairSpec == Spec /\ Fairness
------------------------------------------------------------------------------
(* Properties. *)

Places == {"loop", "header", "payload", "handling", "hangup", "closing", "exit", "leaving",
           "onclose", "ended"}

\* Octets are octets, also where a length or an ID is written into one, and
\* every goroutine is at one of its places.
TypeOK ==
  /\ setup \in Setups
  /\ closed \in [Ends -> BOOLEAN] /\ cancelled \in [Ends -> BOOLEAN]
  /\ conn \in [Ends -> {"open", "closed"}] /\ broken \in BOOLEAN
  /\ \A e \in Ends : \A i \in DOMAIN stream[e] : stream[e][i] \in 0..255
  /\ \A e \in Ends : reader[e].pc \in Places /\ writer[e].pc \in {"idle", "writing"}
  /\ ticker \in [Ends -> [Tickers -> {"none", "idle", "ticked", "writing", "done"}]]
  /\ closer \in [Ends -> {"idle", "waiting", "returned"}]
  /\ torn \in [Ends -> BOOLEAN]

\* What the receiver of the octets reads out of them.
HeardIn(data) == Heard(Decode(data).message)

\* The longest value that its length octet can count.
MaxValue == 253

\* A text that is too long may be lost, the rest of its message may not.
Agree(heard, says) ==
  IF Len(says.info) <= MaxValue THEN heard = says ELSE [heard EXCEPT !.info = says.info] = says

\* What OnMessage is called with is what the other end sent, in that order:
\* Decode and the getters give back what went into Encode or
\* BuildFloorStatusMessage, and ReadMessage starts where the last one ended,
\* unless a deadline expired in the middle of a message.
FramingHolds ==
  \A e \in Ends : ~torn[e] =>
    /\ Len(received[e]) <= Len(sent[Peer(e)])
    /\ \A i \in DOMAIN received[e] : Agree(HeardIn(received[e][i]), sent[Peer(e)][i])

\* The end itself has a reason to stop reading.
Stops(e) ==
  \/ closer[e] # "idle" \/ cancelled[e] \/ broken \/ torn[e]
  \/ e = Server /\ \E i \in DOMAIN received[e] : received[e][i][2] = Primitive.Goodbye
  \/ \E i \in DOMAIN sent[Peer(e)] : Len(sent[Peer(e)][i].info) > MaxValue

\* A message whose send succeeded reaches OnMessage, also when its sender hangs
\* up right after it, unless the receiver closes (the server does so on
\* Goodbye), the connection is reset, a deadline cuts the octets or a value is
\* too long for its length octet.
SentIsDelivered ==
  []<>(\A e \in Ends : Len(received[e]) = Len(sent[Peer(e)]) \/ Stops(e))

\* A transport that is marked closed, by whichever goroutine, comes to rest:
\* Close returns, the connection is closed, OnClose has been called and no
\* keepalive loop is left, with a write or a Hello under way or not.
CloseEndsEverything ==
  []<>(\A e \in Ends : closed[e] =>
         /\ conn[e] = "closed" /\ reader[e].pc = "ended" /\ closer[e] # "waiting"
         /\ \A k \in Tickers : ticker[e][k] \in {"none", "done"})

\* No half-open connection: when one end has closed it, or it is reset, the
\* other end closes it too.
HangUpSpreads ==
  []<>(\A e \in Ends : conn[e] = "closed" \/ broken => conn[Peer(e)] = "closed")
==============================================================================
