------------------------ MODULE MCCollaborationRooms ------------------------
(* A bounded instance of CollaborationRooms for TLC.                         *)
EXTENDS CollaborationRooms

CONSTANTS a, b, r1, r2

\* b is connected to a replica of its own; each security epoch's first room epoch is its number.
MCHome == [e \in Editor |-> IF e = b THEN r2 ELSE r1]
MCInitialOf == [s \in Sec |-> s]
=============================================================================
