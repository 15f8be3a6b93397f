------------------------------- MODULE MCUDP -------------------------------
(***************************************************************************)
(* Instances of UDPFloor for TLC.                                          *)
(***************************************************************************)
EXTENDS UDPFloor, TLC

CONSTANTS a, b

TwoUsers == (a :> 1 @@ b :> 2)

\* One client, request IDs that wrap, and datagrams that come late and more
\* than once: two floors that are granted, or one that may be denied.
Faulty(floorIDs, decided) ==
  [clients |-> {a}, floors |-> floorIDs, ids |-> 2,
   calls |-> {"FloorRequest", "FloorRelease"}, retries |-> 1,
   decisions |-> decided, preset |-> {}, faults |-> {"duplicate", "delay"}]

\* Two clients compete for a floor, one of them registered by the application.
Benign ==
  [clients |-> {a, b}, floors |-> {"f1"}, ids |-> 4,
   calls |-> {"Hello", "FloorRequest", "FloorRelease"}, retries |-> 1,
   decisions |-> {TRUE}, preset |-> {a}, faults |-> {}]

\* Datagrams are lost and sent again, and the client may say Goodbye and close.
Lossy ==
  [clients |-> {a}, floors |-> {"f1"}, ids |-> 2,
   calls |-> {"FloorRequest", "FloorRelease", "Goodbye", "Close"}, retries |-> 3,
   decisions |-> {TRUE, FALSE}, preset |-> {}, faults |-> {"lose", "delay"}]

SafetySetups == {Faulty({"f1", "f2"}, {TRUE}), Faulty({"f1"}, {TRUE, FALSE}), Benign}

LiveSetups == {Lossy}

=============================================================================
