------------------------ MODULE MCSyncCommandDelivery ------------------------
(* A bounded instance of SyncCommandDelivery for TLC.                        *)
EXTENDS SyncCommandDelivery

CONSTANTS c1, d1

MCCmdOf == [e \in Executor |-> c1]
MCDigestOf == [e \in Executor |-> d1]
MCAskOf == [q \in Query |-> c1]
MCAskDigests == [q \in Query |-> Digest]
=============================================================================
