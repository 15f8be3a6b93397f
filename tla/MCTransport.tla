---------------------------- MODULE MCTransport ----------------------------
(* Instances of Transport for TLC. *)
EXTENDS Transport

\* Numbers on both sides of an octet's and a half word's boundary.
Keepalive == Says("Hello", 1, <<0, 1>>, 65535, 256)
Client(kind) == Says(kind, 1, <<1, 65535>>, 255, 7)
Reply(kind) == Says(kind, 2, <<32768, 0>>, 256, 65535)

Text(n) == [i \in 1..n |-> 65 + (i % 26)]

Requests ==
  {[Client("FloorRequest") EXCEPT !.floor = f, !.beneficiary = b, !.priority = p] :
     f \in {1, 256}, b \in {Missing, 258}, p \in {Missing, 1023}}

Reports ==
  UNION {{[Reply("FloorRequestStatus") EXCEPT !.floor = f, !.request = r, !.status = 3],
          [Reply("FloorStatus") EXCEPT !.floor = f, !.request = r, !.status = 6]} :
           f \in {1, 257}, r \in {1, 512}}

Errors == {[Reply("Error") EXCEPT !.code = 6, !.info = Text(n)] :
             n \in {0, 1, 2, 3, 253, 254, 255, 256, 259}}

ClientHello == [Client("Hello") EXCEPT !.primitives = ClientPrimitives,
                                       !.attributes = ClientAttributes]
HelloAck == [Reply("HelloAck") EXCEPT !.primitives = ServerPrimitives,
                                      !.attributes = ServerAttributes]

\* To a version 2 client the UDP server answers with the R flag set (sendUDP).
Flagged(says) == [says EXCEPT !.response = TRUE]

Release == [Client("FloorRelease") EXCEPT !.floor = 1, !.request = 513]
Query == [Client("FloorQuery") EXCEPT !.floor = 65535]

Quiet == [says |-> [e \in Ends |-> {}], sends |-> [e \in Ends |-> 0], keepalive |-> Keepalive,
          faults |-> {}, foreign |-> {}, closes |-> {}]

\* Every message of the library, two in a row.
Traffic ==
  {[Quiet EXCEPT !.says["client"] = Requests \cup {Release, Query, ClientHello}, !.sends["client"] = 2],
   [Quiet EXCEPT !.says["server"] = Reports \cup Errors \cup {HelloAck, Reply("GoodbyeAck")}
                   \cup {Flagged(says) : says \in Reports \cup {HelloAck}},
                 !.sends["server"] = 2]}

\* Deadlines in the middle of a message.
Slow ==
  {[Quiet EXCEPT !.says["server"] = {[Reply("FloorStatus") EXCEPT !.floor = 1, !.request = 1,
                                                                  !.status = 3]},
                 !.sends["server"] = 2, !.faults = f] :
     f \in {{"read deadline"}, {"write deadline"}}}

\* A server that starts keepalives on every Hello, and both ends closing.
Lives ==
  {[Quiet EXCEPT !.says["client"] = {ClientHello, Client("Goodbye")}, !.sends["client"] = 2,
                 !.sends["server"] = 1, !.closes = c, !.foreign = f] :
     c \in {{"server"}, {"client"}}, f \in {{}, {"server"}}}
  \cup
  {[Quiet EXCEPT !.says["client"] = {ClientHello}, !.sends = [e \in Ends |-> 1],
                 !.closes = Ends, !.foreign = {"client"}, !.faults = {"reset"}]}

WireSetups == Traffic \cup Slow \cup Lives
==============================================================================
