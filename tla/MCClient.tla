------------------------------ MODULE MCClient ------------------------------
(***************************************************************************)
(* Instances of ClientServer for TLC.                                      *)
(***************************************************************************)
EXTENDS ClientServer, TLC

CONSTANTS me, other, t1, t2

\* The client's user and another participant.
TwoUsers == (me :> 1 @@ other :> 2)

\* One goroutine that uses the client directly, nobody else, nothing fails.
Base == [virtual |-> FALSE, breaks |-> FALSE, collide |-> FALSE,
         timely |-> TRUE, decisions |-> {TRUE}, peers |-> {},
         threads |-> {t1}, calls |-> 3]

\* The same through a virtual client.
Wrapped == [Base EXCEPT !.virtual = TRUE]

\* Safety: each difficulty by itself.  Beside peers the direct calls
\* stop before a release: the virtual client's go on to it.
SafetySetups ==
  {[Base EXCEPT !.peers = {other}, !.calls = 2],
   [Base EXCEPT !.decisions = BOOLEAN],
   [Base EXCEPT !.breaks = TRUE],
   [Base EXCEPT !.collide = TRUE, !.calls = 4],
   [Wrapped EXCEPT !.peers = {other}],
   [Wrapped EXCEPT !.threads = {t1, t2}],
   [Wrapped EXCEPT !.decisions = BOOLEAN],
   [Wrapped EXCEPT !.breaks = TRUE, !.collide = TRUE]}

\* Liveness: timers that fire at any time, lost connections, and two threads
\* that wait for each other and for the read loop.
LiveSetups ==
  {[Base EXCEPT !.timely = FALSE, !.breaks = TRUE, !.calls = 2],
   [Wrapped EXCEPT !.timely = FALSE, !.breaks = TRUE],
   [Wrapped EXCEPT !.threads = {t1, t2}]}

DenyingServer == {[Base EXCEPT !.decisions = {FALSE}]}

BusyServer == {[Wrapped EXCEPT !.peers = {other}]}

=============================================================================
