------------------------------ MODULE MCGateway ------------------------------
(* Frames without a payload, with one, and with an unknown opcode and, in  *)
(* the payload, what looks like the beginning of a packet of one byte.     *)
EXTENDS GatewayHistory

Empty == [mac |-> "a", payload |-> <<>>]
Task == [mac |-> "a", payload |-> <<32>>]
Tricky == [mac |-> "b", payload |-> <<7, 222, 173, 0, 1>>]

MCFrame == {Empty, Task, Tricky}
MCArchive == [f \in MCFrame |-> f.payload \o <<Len(f.payload)>>]

ASSUME FramesUnmistakable == Unmistakable
=============================================================================
