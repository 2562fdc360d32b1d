------------------------------- MODULE RpcFrames -------------------------------
(***************************************************************************)
(* One call of the research RPC, as frames on a local stream socket.  A    *)
(* frame is a 4-byte header and a body; the body is counted in segments,   *)
(* the pieces the kernel copies, and a socket buffer holds only some of    *)
(* them.  ResearchSessions takes a call as one step; this module is what   *)
(* such a step stands on.                                                  *)
(*                                                                         *)
(* The client's stream is unbuffered: each write is one send and each read *)
(* one recv.  The server's, of socketserver, is buffered: a read goes on   *)
(* until the frame is whole, a write until all of it is sent.              *)
(***************************************************************************)
EXTENDS Naturals

CONSTANTS
  MaxFrame,  \* MAX_RPC_BYTES, in segments
  Buffer     \* segments a socket buffer holds

VARIABLES
  client,    \* where call is, or how it ended
  server,    \* where the handler is
  request,   \* segments of the request
  answer,    \* segments of the reply, 0 before there is one
  sent,      \* segments each side has handed to its socket
  wire,      \* segments in the socket buffer of each direction
  got        \* segments of the request the server has read

vars == <<client, server, request, answer, sent, wire, got>>

Sizes == 1..(MaxFrame + 1)
Ended == {"returned", "rejected", "broken", "timed out"}

Init ==
  /\ client = "write"
  /\ server = "read"
  /\ request \in Sizes
  /\ answer = 0
  /\ sent = [up |-> 0, down |-> 0]
  /\ wire = [up |-> 0, down |-> 0]
  /\ got = 0

\* write_message refuses a frame that is too large, before the first byte.
RequestTooLarge ==
  /\ client = "write"
  /\ request > MaxFrame
  /\ client' = "rejected"
  /\ UNCHANGED <<server, request, answer, sent, wire, got>>

\* The one send of the body copies segments for as long as the buffer has room,
\* while the server may be reading.
SendCopies ==
  /\ client = "write"
  /\ request <= MaxFrame
  /\ sent.up < request
  /\ wire.up < Buffer
  /\ sent' = [sent EXCEPT !.up = @ + 1]
  /\ wire' = [wire EXCEPT !.up = @ + 1]
  /\ UNCHANGED <<client, server, request, answer, got>>

\* It returns the count it copied, all of the body or not; nobody looks at it.
SendReturns ==
  /\ client = "write"
  /\ sent.up > 0
  /\ sent.up = request \/ wire.up = Buffer
  /\ client' = "read"
  /\ UNCHANGED <<server, request, answer, sent, wire, got>>

\* The one recv of the body takes what is there, at least one segment.
Receive ==
  /\ client = "read"
  /\ wire.down > 0
  /\ client' = IF wire.down = answer THEN "returned" ELSE "broken"
  /\ wire' = [wire EXCEPT !.down = 0]
  /\ UNCHANGED <<server, request, answer, sent, got>>

\* Nothing arrives within the time-out of the socket.
TimeOut ==
  /\ client = "read"
  /\ wire.down = 0
  /\ client' = "timed out"
  /\ UNCHANGED <<server, request, answer, sent, wire, got>>

ServerReads ==
  /\ server = "read"
  /\ wire.up > 0
  /\ wire' = [wire EXCEPT !.up = @ - 1]
  /\ got' = got + 1
  /\ server' = IF got' = request THEN "work" ELSE "read"
  /\ UNCHANGED <<client, request, answer, sent>>

\* The client is gone: the frame stays incomplete, or the reply cannot be sent.
ServerGivesUp ==
  /\ client \in Ended
  /\ \/ server = "read" /\ wire.up = 0
     \/ server = "write"
  /\ server' = "closed"
  /\ UNCHANGED <<client, request, answer, sent, wire, got>>

\* The handler has a result; one too large is replaced by a short error.
ServerAnswers ==
  /\ server = "work"
  /\ \E n \in Sizes : answer' = IF n > MaxFrame THEN 1 ELSE n
  /\ server' = "write"
  /\ UNCHANGED <<client, request, sent, wire, got>>

ServerWrites ==
  /\ server = "write"
  /\ client \notin Ended
  /\ wire.down < Buffer
  /\ sent' = [sent EXCEPT !.down = @ + 1]
  /\ wire' = [wire EXCEPT !.down = @ + 1]
  /\ server' = IF sent'.down = answer THEN "closed" ELSE "write"
  /\ UNCHANGED <<client, request, answer, got>>

Next ==
  \/ RequestTooLarge \/ SendCopies \/ SendReturns \/ Receive \/ TimeOut
  \/ ServerReads \/ ServerAnswers \/ ServerWrites \/ ServerGivesUp

Spec == Init /\ [][Next]_vars

-------------------------------------------------------------------------------
(* Properties.                                                             *)

\* A frame within the limit is delivered whole: call never waits for the answer to
\* a request of which it has sent a part, and never takes a reply for a broken one.
FrameDelivered ==
  /\ client = "read" => sent.up = request
  /\ client # "broken"
===============================================================================
