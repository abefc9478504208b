----------------------- MODULE MCCollaborationSaveFence -----------------------
(* Bounded instances of CollaborationSaveFence for TLC: every lease is taken *)
(* on a device of its own.                                                   *)
EXTENDS CollaborationSaveFence

CONSTANTS l1, l2, w1

OwnDevices == [l \in Lease |-> IF l = l1 THEN 1 ELSE 2]
=============================================================================
