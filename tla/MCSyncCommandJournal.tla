------------------------- MODULE MCSyncCommandJournal -------------------------
(* A bounded instance of SyncCommandJournal for TLC.                         *)
EXTENDS SyncCommandJournal

CONSTANTS c1, d1, d2

\* Every caller presents the one command as the same request; a status query
\* may name another.
MCCmdOf == [e \in Executor |-> c1]
MCDigestOf == [e \in Executor |-> d1]
MCAskOf == [q \in Query |-> c1]
MCAskDigests == [q \in Query |-> Digest]
=============================================================================
