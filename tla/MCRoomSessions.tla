--------------------------- MODULE MCRoomSessions ---------------------------
(***************************************************************************)
(* Two sockets and a room for one: socket a switches between two boards    *)
(* and sends an event, socket c wants one of them, and its handlers may    *)
(* fail or its heartbeats stop.                                            *)
(***************************************************************************)
EXTENDS RoomSessions

CONSTANTS a, c

Two(x, y) == [s \in Sockets |-> IF s = a THEN x ELSE y]
JoinBound == Two(2, 1)
ActivityBound == Two(1, 0)
FaultBound == Two(0, 1)
AccessOf == [s \in Sockets |-> IF s = a THEN Boards ELSE {CHOOSE b \in Boards : TRUE}]
=============================================================================
