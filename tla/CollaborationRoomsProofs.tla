----------------------- MODULE CollaborationRoomsProofs -----------------------
(***************************************************************************)
(* Proofs about what Redis keeps of a collaboration room (RoomLeases):     *)
(* first whatever the gateways send and in whatever order, and whatever    *)
(* expires or is lost in between; then that the replicas of                *)
(* CollaborationRooms drive the scripts within that: whatever they send,   *)
(* late, again or after they gave up on it, names a lease that was         *)
(* reserved for an epoch that was drawn.  What is proved of the scripts    *)
(* therefore holds of the rooms.                                           *)
(***************************************************************************)
EXTENDS CollaborationRooms, FiniteSetTheorems, TLAPS

\* A lineage that has been seeded is marked as initialised, so that its room is not given
\* away again when it is empty; and of the leases that Redis counts one at most is elected,
\* the one that has seeded the lineage if any has.
SeedsOfRoom == {s \in seeds : s.epoch = room.epoch}
Elected == {k \in Live : key[k].elected}

SeededIsInitialized == SeedsOfRoom # {} => room.initialized
OneElected == \A k, l \in Elected : k = l
ElectedSeeded == \A k \in Elected, s \in SeedsOfRoom : s.res = key[k].res

StoreInv ==
    /\ StoreTypeOK
    /\ room = NoRoom => seeds = {}
    /\ OneLineage
    /\ ElectedOnce
    /\ SeededIsInitialized
    /\ OneElected
    /\ ElectedSeeded

-----------------------------------------------------------------------------
\* No epoch is drawn twice.
LEMMA FreshUnused ==
    ASSUME Unused # {}
    PROVE  Fresh \in Epoch /\ \A l \in used : l.epoch # Fresh
  BY DEF Fresh, Unused

\* A room that has a state has an epoch, unlike none.
LEMMA RoomsExist ==
    ASSUME NEW epoch \in Epoch, NEW sec
    PROVE  Room(epoch, sec) # NoRoom
  BY LeaseAssumption DEF Room, NoRoom

\* Nothing is reserved at first.
LEMMA InitStore == StoreInit => StoreInv
<1> SUFFICES ASSUME StoreInit PROVE StoreInv
    OBVIOUS
<1> USE LeaseAssumption DEF StoreInit
<1>1. StoreTypeOK
  BY DEF StoreTypeOK, NoRoom, NoKey, Epochs
<1>2. OneLineage /\ ElectedOnce /\ SeededIsInitialized
  BY DEF OneLineage, ElectedOnce, SeededIsInitialized, SeedsOfRoom
<1>3. OneElected /\ ElectedSeeded
  BY DEF OneElected, ElectedSeeded, Elected, Live, SeedsOfRoom
<1>. QED BY <1>1, <1>2, <1>3 DEF StoreInv

\* What a script does to the room and the leases, given what it may write.
LEMMA RotatedType ==
    ASSUME StoreTypeOK, NEW sec \in Sec, Rotate(sec)
    PROVE  /\ room' \in [epoch : Epoch \cup {NoEpoch}, sec : Nat, initialized : BOOLEAN]
           /\ Epochs(room'.epoch, room'.sec) \in used' /\ room' # NoRoom
           /\ used' \subseteq [epoch : Epoch, sec : Sec] /\ used \subseteq used'
           /\ \A l \in used : l.epoch # room'.epoch
<1>1. Fresh \in Epoch /\ \A l \in used : l.epoch # Fresh
  BY FreshUnused DEF Rotate
<1>2. room' = [epoch |-> Fresh, sec |-> sec, initialized |-> FALSE]
  BY DEF Rotate, Room
<1>3. used' = used \cup {[epoch |-> Fresh, sec |-> sec]}
  BY DEF Rotate, Epochs
<1>4. room' # NoRoom
  BY <1>1, RoomsExist DEF Rotate
<1>. QED BY <1>1, <1>2, <1>3, <1>4, LeaseAssumption DEF StoreTypeOK, Epochs

\* A room that gets a fresh epoch is empty, and has not been seeded.
LEMMA RotatedInv ==
    ASSUME StoreInv, NEW sec \in Sec, Rotate(sec), members' = {}, UNCHANGED seeds,
           key' \in [Editor -> [phase : {"none", "pending", "active", "detached"}, res : Nat,
                                epoch : Epoch \cup {NoEpoch}, sec : Nat, elected : BOOLEAN]]
    PROVE  StoreInv'
<1> USE DEF StoreInv
<1>1. /\ room' \in [epoch : Epoch \cup {NoEpoch}, sec : Nat, initialized : BOOLEAN]
      /\ Epochs(room'.epoch, room'.sec) \in used' /\ room' # NoRoom
      /\ used' \subseteq [epoch : Epoch, sec : Sec] /\ used \subseteq used'
      /\ \A l \in used : l.epoch # room'.epoch
  BY RotatedType
<1>2. StoreTypeOK'
  BY <1>1 DEF StoreTypeOK
<1>3. SeedsOfRoom' = {}
  BY <1>1 DEF SeedsOfRoom, StoreTypeOK
<1>4. (Live = {})' /\ (Elected = {})'
  BY DEF Live, Elected
<1>5. OneLineage' /\ ElectedOnce'
  BY <1>4 DEF OneLineage, ElectedOnce
<1>6. SeededIsInitialized' /\ OneElected' /\ ElectedSeeded'
  BY <1>3, <1>4 DEF SeededIsInitialized, OneElected, ElectedSeeded
<1>. QED BY <1>1, <1>2, <1>5, <1>6

\* Leases that end, and nothing else that changes, leave the invariant as it is.
LEMMA FewerInv ==
    ASSUME StoreInv, UNCHANGED <<room, used, seeds>>, members' \subseteq members,
           \A k \in Editor : key'[k] = key[k] \/ key'[k] = NoKey,
           key' \in [Editor -> [phase : {"none", "pending", "active", "detached"}, res : Nat,
                                epoch : Epoch \cup {NoEpoch}, sec : Nat, elected : BOOLEAN]]
    PROVE  StoreInv'
<1> USE DEF StoreInv
<1>1. StoreTypeOK' /\ ElectedOnce' /\ (room = NoRoom => seeds = {})'
  BY DEF StoreTypeOK, ElectedOnce, NoRoom
<1>2. \A k \in Live' : k \in Live /\ key'[k] = key[k]
  BY DEF Live, Exists, NoKey, StoreTypeOK
<1>3. Elected' \subseteq Elected /\ SeedsOfRoom' = SeedsOfRoom
  BY <1>2 DEF Elected, SeedsOfRoom
<1>4. OneLineage'
  BY <1>2 DEF OneLineage, NoRoom
<1>5. SeededIsInitialized' /\ OneElected'
  BY <1>3 DEF SeededIsInitialized, OneElected
<1>6. ElectedSeeded'
  BY <1>2, <1>3 DEF ElectedSeeded, Elected
<1>. QED BY <1>1, <1>4, <1>5, <1>6

-----------------------------------------------------------------------------
\* A reservation is granted in a lineage that still has leases, or was never seeded.
LEMMA GrantInv ==
    ASSUME StoreInv, NEW k \in Editor, NEW res \in Nat, NEW l \in used, NEW answer,
           Grant(k, res, l.epoch, l.sec, answer)
    PROVE  StoreInv'
<1> USE DEF StoreInv
<1>1. l \in [epoch : Epoch, sec : Sec] /\ l.sec \in Nat /\ l = Epochs(l.epoch, l.sec)
  BY LeaseAssumption DEF StoreTypeOK, Epochs
<1>2. /\ room' \in [epoch : Epoch \cup {NoEpoch}, sec : Nat, initialized : BOOLEAN]
      /\ room' # NoRoom /\ room'.epoch = l.epoch /\ room'.sec = l.sec
  <2>1. CASE room = NoRoom
    BY <1>1, <2>1, RoomsExist DEF Grant, Room
  <2>2. CASE room # NoRoom
    BY <2>2 DEF Grant, Serves, StoreTypeOK
  <2>. QED BY <2>1, <2>2
<1>3. key' \in [Editor -> [phase : {"none", "pending", "active", "detached"}, res : Nat,
                           epoch : Epoch \cup {NoEpoch}, sec : Nat, elected : BOOLEAN]]
  BY <1>1 DEF Grant, StoreTypeOK
<1>4. StoreTypeOK' /\ ElectedOnce'
  BY <1>1, <1>2, <1>3 DEF Grant, StoreTypeOK, ElectedOnce, Live
<1>5. /\ \A m \in Live' : m # k => m \in Live /\ key'[m] = key[m]
      /\ key'[k].epoch = l.epoch /\ key'[k].sec = l.sec /\ key'[k].elected = (Live = {})
  BY DEF Grant, Live, Exists, StoreTypeOK
<1>6. OneLineage'
  <2>1. \A m \in Live : room # NoRoom /\ key[m].epoch = l.epoch /\ key[m].sec = l.sec
    BY DEF Grant, Serves, Revokes, OneLineage
  <2>. QED BY <1>2, <1>5, <2>1 DEF OneLineage
<1>7. Live = {} => SeedsOfRoom' = {}
  BY <1>2 DEF Grant, Ended, Serves, SeededIsInitialized, SeedsOfRoom
<1>8. SeededIsInitialized'
  BY <1>2 DEF Grant, Serves, SeededIsInitialized, SeedsOfRoom
<1>9. OneElected' /\ ElectedSeeded'
  <2>1. CASE Live = {}
    BY <1>5, <1>7, <2>1 DEF OneElected, ElectedSeeded, Elected
  <2>2. CASE Live # {}
    <3>1. Elected' \subseteq Elected /\ \A m \in Elected' : key'[m] = key[m]
      BY <1>5, <2>2 DEF Elected
    <3>2. room # NoRoom
      BY <2>2 DEF Grant, Serves, Revokes
    <3>3. SeedsOfRoom' = SeedsOfRoom
      BY <3>2 DEF Grant, SeedsOfRoom
    <3>. QED BY <3>1, <3>3 DEF OneElected, ElectedSeeded
  <2>. QED BY <2>1, <2>2
<1>. QED BY <1>2, <1>4, <1>6, <1>8, <1>9

\* An activation is of a lease of the room, and no other one is elected.
LEMMA ActivateInv ==
    ASSUME StoreInv, NEW k \in Editor, NEW value \in Value, NEW l \in used, NEW answer,
           Activate(k, value, l.epoch, l.sec, answer)
    PROVE  StoreInv'
<1> USE DEF StoreInv
<1>1. l \in [epoch : Epoch, sec : Sec]
  BY DEF StoreTypeOK
<1>2. room # NoRoom /\ room.epoch = l.epoch /\ k \in members
  BY <1>1, LeaseAssumption DEF Activate, Owned, NoRoom
<1>3. /\ room' = [room EXCEPT !.initialized = TRUE] /\ room' # NoRoom
      /\ room'.initialized /\ room'.epoch = room.epoch /\ room'.sec = room.sec
  BY <1>2 DEF Activate, StoreTypeOK, NoRoom
<1>4. /\ key' = [key EXCEPT ![k].phase = "active"]
      /\ \A m \in Editor : /\ key'[m].res = key[m].res /\ key'[m].elected = key[m].elected
                           /\ key'[m].epoch = key[m].epoch /\ key'[m].sec = key[m].sec
  BY DEF Activate, StoreTypeOK
<1>5. members' = Live /\ Live' \subseteq Live /\ Elected' \subseteq Elected
  BY <1>4 DEF Activate, Live, Elected, StoreTypeOK
<1>6. seeds' \subseteq seeds \cup {[epoch |-> l.epoch, res |-> key[k].res]}
  BY DEF Activate
<1>7. StoreTypeOK'
  <2>1. seeds' \subseteq [epoch : {m.epoch : m \in used}, res : Nat]
    BY <1>6 DEF StoreTypeOK
  <2>2. key' \in [Editor -> [phase : {"none", "pending", "active", "detached"}, res : Nat,
                             epoch : Epoch \cup {NoEpoch}, sec : Nat, elected : BOOLEAN]]
    BY <1>4 DEF StoreTypeOK
  <2>3. room' \in [epoch : Epoch \cup {NoEpoch}, sec : Nat, initialized : BOOLEAN]
    BY <1>3 DEF StoreTypeOK
  <2>. QED BY <1>2, <1>3, <1>5, <2>1, <2>2, <2>3 DEF StoreTypeOK, Activate, Live
<1>8. OneLineage' /\ OneElected' /\ SeededIsInitialized'
  BY <1>2, <1>3, <1>4, <1>5 DEF OneLineage, OneElected, SeededIsInitialized, Live, StoreTypeOK
<1>9. k \in Live
  BY <1>2 DEF Activate, Owned, Holds, Live, Exists, Value
<1>10. ElectedOnce' /\ ElectedSeeded'
  <2>1. CASE ~key[k].elected
    <3>1. seeds' = seeds /\ SeedsOfRoom' = SeedsOfRoom
      BY <1>3, <2>1 DEF Activate, SeedsOfRoom
    <3>. QED BY <1>4, <1>5, <3>1 DEF ElectedOnce, ElectedSeeded, Elected, Live, StoreTypeOK
  <2>2. CASE key[k].elected
    <3>1. k \in Elected /\ \A m \in Elected : m = k
      BY <1>9, <2>2 DEF Elected, OneElected
    <3>2. \A s \in seeds' : s.epoch = l.epoch => s.res = key[k].res
      BY <1>2, <1>6, <3>1 DEF ElectedSeeded, SeedsOfRoom
    <3>3. \A s \in seeds' : s.epoch = l.epoch => s = [epoch |-> l.epoch, res |-> key[k].res]
      BY <1>7, <3>2 DEF StoreTypeOK
    <3>4. \A s \in seeds' : s.epoch # l.epoch => s \in seeds
      BY <1>6
    <3>5. ElectedOnce'
      BY <3>3, <3>4 DEF ElectedOnce
    <3>6. ElectedSeeded'
      BY <1>2, <1>3, <1>4, <1>5, <3>1, <3>2 DEF ElectedSeeded, SeedsOfRoom
    <3>. QED BY <3>5, <3>6
  <2>. QED BY <2>1, <2>2
<1>. QED BY <1>3, <1>7, <1>8, <1>10

-----------------------------------------------------------------------------
\* Every script and every loss keeps the invariant.
LEMMA NextStore == StoreInv /\ [StoreNext]_storeVars => StoreInv'
<1> SUFFICES ASSUME StoreInv, [StoreNext]_storeVars PROVE StoreInv'
    OBVIOUS
<1> DEFINE Key == [phase : {"none", "pending", "active", "detached"}, res : Nat,
                   epoch : Epoch \cup {NoEpoch}, sec : Nat, elected : BOOLEAN]
<1>1. key \in [Editor -> Key] /\ NoKey \in Key
  BY DEF StoreInv, StoreTypeOK, NoKey
<1>2. \A l \in used : l.sec \in Sec
  BY DEF StoreInv, StoreTypeOK
<1>3. ASSUME NEW k \in Editor, NEW l \in used, NEW value \in Value, NEW answer \in Answer,
             ReserveScript(k, value.res, l.epoch, l.sec, answer)
      PROVE  StoreInv'
  <2>1. CASE Revoke(l.sec, answer)
    <3>1. key' \in [Editor -> Key]
      BY <1>1, <2>1 DEF Revoke
    <3>. QED BY <1>2, <2>1, <3>1, RotatedInv DEF Revoke
  <2>2. CASE RefuseEpoch(l.epoch, l.sec, answer)
    BY <1>1, <2>2, FewerInv DEF RefuseEpoch, Live
  <2>3. CASE RotateEnded(l.epoch, l.sec, answer)
    BY <1>1, <1>2, <2>3, RotatedInv DEF RotateEnded
  <2>4. CASE Grant(k, value.res, l.epoch, l.sec, answer)
    <3>1. value.res \in Nat
      BY DEF Value
    <3>. QED BY <2>4, <3>1, GrantInv
  <2>. QED BY <1>3, <2>1, <2>2, <2>3, <2>4 DEF ReserveScript
<1>4. ASSUME NEW k \in Editor, NEW l \in used, NEW value \in Value, NEW answer \in Answer,
             Activate(k, value, l.epoch, l.sec, answer)
      PROVE  StoreInv'
  BY <1>4, ActivateInv
<1>5. ASSUME NEW k \in Editor, NEW l \in used, NEW value \in Value, NEW answer \in Answer,
             Refresh(k, value, l.epoch, l.sec, answer)
      PROVE  StoreInv'
  BY <1>1, <1>5, FewerInv DEF Refresh, Live
<1>6. ASSUME NEW k \in Editor, NEW value \in Value, NEW answer \in Answer, Detach(k, value, answer)
      PROVE  StoreInv'
  <2>1. /\ key' \in [Editor -> Key]
        /\ \A m \in Editor : /\ key'[m].res = key[m].res /\ key'[m].elected = key[m].elected
                             /\ key'[m].epoch = key[m].epoch /\ key'[m].sec = key[m].sec
    BY <1>1, <1>6 DEF Detach
  <2>2. Exists(k)
    BY <1>6 DEF Detach, Holds, Exists, Value
  <2>3. Live' = Live
    BY <1>1, <1>6, <2>2 DEF Detach, Live, Exists, StoreInv, StoreTypeOK
  <2>4. Elected' = Elected /\ SeedsOfRoom' = SeedsOfRoom /\ UNCHANGED <<room, members, used, seeds>>
    BY <1>6, <2>1, <2>3 DEF Detach, Elected, SeedsOfRoom, Live, StoreInv, StoreTypeOK
  <2>5. StoreTypeOK' /\ ElectedOnce' /\ SeededIsInitialized' /\ (room = NoRoom => seeds = {})'
    BY <2>1, <2>4 DEF StoreInv, StoreTypeOK, ElectedOnce, SeededIsInitialized, NoRoom
  <2>6. OneLineage' /\ OneElected' /\ ElectedSeeded'
    BY <2>1, <2>3, <2>4 DEF StoreInv, StoreTypeOK, OneLineage, OneElected, ElectedSeeded, Elected, Live, NoRoom
  <2>. QED BY <2>5, <2>6 DEF StoreInv
<1>7. ASSUME NEW k \in Editor, NEW l \in used, NEW value \in Value, NEW answer \in Answer,
             Release(k, value, l.epoch, l.sec, answer)
      PROVE  StoreInv'
  <2>1. key' \in [Editor -> Key] /\ \A m \in Editor : key'[m] = key[m] \/ key'[m] = NoKey
    BY <1>1, <1>7 DEF Release
  <2>2. CASE members \subseteq {k} /\ room.epoch = l.epoch /\ room.sec = l.sec
    <3>1. members' = {} /\ Rotate(l.sec) /\ UNCHANGED seeds
      BY <1>7, <2>2 DEF Release
    <3>. QED BY <1>2, <2>1, <3>1, RotatedInv
  <2>3. CASE ~(members \subseteq {k} /\ room.epoch = l.epoch /\ room.sec = l.sec)
    <3>1. members' \subseteq members /\ UNCHANGED <<room, used, seeds>>
      BY <1>7, <2>3 DEF Release
    <3>. QED BY <2>1, <3>1, FewerInv
  <2>. QED BY <2>2, <2>3
<1>8. ASSUME NEW k \in Editor, Expire(k)
      PROVE  StoreInv'
  BY <1>1, <1>8, FewerInv DEF Expire
<1>9. CASE StateLost
  <2>1. room' = NoRoom /\ seeds' = {} /\ UNCHANGED <<members, key, used>>
    BY <1>9 DEF StateLost
  <2>2. StoreTypeOK' /\ (Elected = Elected' /\ SeedsOfRoom' = {})
    BY <2>1 DEF StoreInv, StoreTypeOK, NoRoom, Elected, Live, Exists, SeedsOfRoom
  <2>3. OneLineage' /\ ElectedOnce' /\ SeededIsInitialized' /\ ElectedSeeded'
    BY <2>1, <2>2 DEF OneLineage, ElectedOnce, SeededIsInitialized, ElectedSeeded, NoRoom
  <2>. QED BY <2>1, <2>2, <2>3 DEF StoreInv, OneElected
<1>10. CASE MembersLost
  BY <1>1, <1>10, FewerInv DEF MembersLost
<1>11. CASE RedisRestarts
  <2>1. room' = NoRoom /\ seeds' = {} /\ members' = {} /\ key' \in [Editor -> Key] /\ used' = used
    BY <1>1, <1>11 DEF RedisRestarts
  <2>2. StoreTypeOK' /\ Live' = {} /\ Elected' = {} /\ SeedsOfRoom' = {}
    BY <2>1 DEF StoreInv, StoreTypeOK, NoRoom, Elected, Live, SeedsOfRoom
  <2>3. OneLineage' /\ ElectedOnce' /\ SeededIsInitialized' /\ ElectedSeeded' /\ OneElected'
    BY <2>1, <2>2 DEF OneLineage, ElectedOnce, SeededIsInitialized, ElectedSeeded, OneElected
  <2>. QED BY <2>1, <2>2, <2>3 DEF StoreInv
<1>12. CASE UNCHANGED storeVars
  <2>1. key' \in [Editor -> Key] /\ UNCHANGED <<room, members, key, used, seeds>>
    BY <1>1, <1>12 DEF storeVars
  <2>. QED BY <2>1, FewerInv
<1>. QED
  BY <1>3, <1>4, <1>5, <1>6, <1>7, <1>8, <1>9, <1>10, <1>11, <1>12
  DEF StoreNext, RefreshLost, DetachLost, ReleaseRefused

LEMMA StoreInvariant == StoreSpec => []StoreInv
  BY InitStore, NextStore, PTL DEF StoreSpec

-----------------------------------------------------------------------------
\* What Redis keeps of a room keeps its type; rooms have epochs that were drawn.
THEOREM StoreTyped == StoreSpec => []StoreTypeOK
<1>1. StoreInv => StoreTypeOK
  BY DEF StoreInv
<1>. QED BY <1>1, StoreInvariant, PTL

\* Every lease Redis counts belongs to the epoch and security epoch the room has, whatever
\* rotations, revocations and late releases the scripts are asked for in between.
THEOREM LeasesOfOneLineage == StoreSpec => []OneLineage
<1>1. StoreInv => OneLineage
  BY DEF StoreInv
<1>. QED BY <1>1, StoreInvariant, PTL

\* A lineage is seeded by one elected reservation at most while the room's state lasts, for
\* any editors, epochs and security epochs and any order of scripts, expiries and losses.
THEOREM SeededOnce == StoreSpec => []ElectedOnce
<1>1. StoreInv => ElectedOnce
  BY DEF StoreInv
<1>. QED BY <1>1, StoreInvariant, PTL

\* A room never goes back to an earlier security generation, and keeps nobody of one.
THEOREM GenerationsOnlyGrow == StoreSpec => RevokedForGood
<1> DEFINE Grows == room # NoRoom /\ room' # NoRoom =>
                      /\ room'.sec >= room.sec
                      /\ \A k \in members' : key'[k].phase # "none" => key'[k].sec >= room.sec
<1>1. StoreInv /\ StoreInv' /\ [StoreNext]_storeVars => Grows
  <2> SUFFICES ASSUME StoreInv, StoreInv', [StoreNext]_storeVars, room # NoRoom, room' # NoRoom
               PROVE  /\ room'.sec >= room.sec
                      /\ \A k \in members' : key'[k].phase # "none" => key'[k].sec >= room.sec
      OBVIOUS
  <2>1. \A l \in used : l.sec \in Nat
    BY LeaseAssumption DEF StoreInv, StoreTypeOK
  <2>2. \A sec \in Nat : Rotate(sec) => room'.sec = sec
    BY DEF Rotate, Room
  <2>3. room.sec \in Nat /\ room'.sec \in Nat
    BY DEF StoreInv, StoreTypeOK
  <2>4. ASSUME NEW k \in Editor, NEW l \in used, NEW value \in Value, NEW answer \in Answer,
               ReserveScript(k, value.res, l.epoch, l.sec, answer)
        PROVE  room'.sec >= room.sec
    <3>1. CASE Revoke(l.sec, answer)
      BY <2>1, <2>2, <2>3, <3>1 DEF Revoke, Revokes
    <3>2. CASE RotateEnded(l.epoch, l.sec, answer)
      BY <2>1, <2>2, <2>3, <3>2 DEF RotateEnded, Serves
    <3>3. CASE RefuseEpoch(l.epoch, l.sec, answer) \/ Grant(k, value.res, l.epoch, l.sec, answer)
      BY <2>3, <3>3 DEF RefuseEpoch, Grant
    <3>. QED BY <2>4, <3>1, <3>2, <3>3 DEF ReserveScript
  <2>5. ASSUME NEW k \in Editor, NEW l \in used, NEW value \in Value, NEW answer \in Answer,
               Release(k, value, l.epoch, l.sec, answer)
        PROVE  room'.sec >= room.sec
    BY <2>1, <2>2, <2>3, <2>5 DEF Release
  <2>6. ASSUME NEW k \in Editor, NEW l \in used, NEW value \in Value, NEW answer \in Answer,
               Activate(k, value, l.epoch, l.sec, answer)
        PROVE  room'.sec >= room.sec
    BY <2>3, <2>6 DEF Activate, StoreInv, StoreTypeOK
  <2>7. room'.sec >= room.sec
    BY <2>3, <2>4, <2>5, <2>6
    DEF StoreNext, Refresh, RefreshLost, Detach, DetachLost, ReleaseRefused, Expire, StateLost,
        MembersLost, RedisRestarts, storeVars
  <2>8. \A k \in members' : key'[k].phase # "none" => key'[k].sec = room'.sec
    BY DEF StoreInv, OneLineage, Live, Exists
  <2>. QED BY <2>7, <2>8
<1>. QED
  BY <1>1, StoreInvariant, PTL DEF StoreSpec, RevokedForGood

-----------------------------------------------------------------------------
(* The replicas                                                            *)

\* A lease that was reserved: it names a reservation, and epochs that were drawn.
Reservation == {l \in [phase : {"pending", "active", "detached"}, res : Nat \ {0}, epoch : Epoch, sec : Sec] :
                  Epochs(l.epoch, l.sec) \in used}
MaybeLease == Reservation \cup {NoLease}

\* A command about such a lease, whoever waits for it and whatever its answer.
Request == {c \in [of : Editor, op : {"reserve", "activate", "refresh", "detach", "release"},
                   phase : {"pending", "active", "detached"}, res : Nat \ {0}, epoch : Epoch, sec : Sec,
                   for : {"call", "beat", "release", "detach", "cleanup", "nobody"},
                   answer : Answer \cup {"none", "rejected"}] : Epochs(c.epoch, c.sec) \in used}

LeaseMap == [Editor -> MaybeLease]
Pipes == [Replica -> Seq(Request)]

RequestsInv ==
    /\ lease \in LeaseMap /\ parked \in LeaseMap /\ queued \in LeaseMap
    /\ sent \in Pipes
    /\ drawn \in Nat

-----------------------------------------------------------------------------
\* What has a lease has a reservation.
LEMMA LeasesReserved ==
    ASSUME NEW l \in LeaseMap, NEW e \in Editor, l[e] # NoLease
    PROVE  l[e] \in Reservation
  BY DEF LeaseMap, MaybeLease

LEMMA ForgetTyped ==
    ASSUME NEW l \in LeaseMap, NEW S
    PROVE  Forget(l, S) \in LeaseMap
  BY DEF Forget, LeaseMap, MaybeLease

LEMMA SomeEditors ==
    ASSUME NEW r, NEW q
    PROVE  On(r) \subseteq Editor /\ Queued(q, r) \subseteq Editor /\ Held(r) \subseteq Editor
  BY DEF On, Queued, Held

\* The commands for a set of editors are about their leases.
LEMMA CommandsTyped ==
    ASSUME NEW S \in SUBSET Editor, NEW l, \A e \in S : l[e] \in Reservation,
           NEW op \in {"reserve", "activate", "refresh", "detach", "release"},
           NEW for \in {"call", "beat", "release", "detach", "cleanup", "nobody"},
           NEW answer \in {"none", "rejected"}
    PROVE  Commands(S, op, l, for, answer) \in Seq(Request)
<1>1. IsFiniteSet(S)
  BY RoomsAssumption, FS_Subset
<1>2. Cardinality(S) \in Nat /\ ExistsBijection(1..Cardinality(S), S)
  BY <1>1, FS_CardinalityType
<1>3. \E f \in [1..Cardinality(S) -> S] : IsInjective(f)
  BY <1>2 DEF ExistsBijection, Bijection, Injection
<1>4. SetToSeq(S) \in [1..Cardinality(S) -> S]
  BY <1>3 DEF SetToSeq
<1>5. \A e \in S : Command(e, op, l[e], for, answer) \in Request
  BY DEF Command, Reservation, Request
<1>6. Commands(S, op, l, for, answer) \in [1..Cardinality(S) -> Request]
  BY <1>4, <1>5 DEF Commands
<1>. QED BY <1>2, <1>6

LEMMA SendOnTyped ==
    ASSUME NEW linked, NEW p \in Pipes, NEW r \in Replica,
           NEW S \in SUBSET Editor, NEW l, \A e \in S : l[e] \in Reservation,
           NEW op \in {"reserve", "activate", "refresh", "detach", "release"},
           NEW for \in {"call", "beat", "release", "detach", "cleanup", "nobody"}
    PROVE  SendOn(linked, p, r, S, op, l, for) \in Pipes
<1> DEFINE a == IF linked THEN "none" ELSE "rejected"
<1>1. Commands(S, op, l, for, a) \in Seq(Request)
  BY CommandsTyped
<1>2. p[r] \o Commands(S, op, l, for, a) \in Seq(Request)
  BY <1>1 DEF Pipes
<1>. QED BY <1>2 DEF SendOn, Pipes

LEMMA SendTyped ==
    ASSUME NEW p \in Pipes, NEW r \in Replica,
           NEW S \in SUBSET Editor, NEW l, \A e \in S : l[e] \in Reservation,
           NEW op \in {"reserve", "activate", "refresh", "detach", "release"},
           NEW for \in {"call", "beat", "release", "detach", "cleanup", "nobody"}
    PROVE  Send(p, r, S, op, l, for) \in Pipes
  BY SendOnTyped DEF Send

\* A replica that sends what it has of some leases sends reservations.
LEMMA QueuedReserved ==
    ASSUME NEW q \in LeaseMap, NEW r
    PROVE  Queued(q, r) \in SUBSET Editor /\ \A e \in Queued(q, r) : q[e] \in Reservation
  BY LeasesReserved, SomeEditors DEF Queued

LEMMA HeldReserved ==
    ASSUME lease \in LeaseMap, NEW r
    PROVE  Held(r) \in SUBSET Editor /\ \A e \in Held(r) : lease[e] \in Reservation
  BY LeasesReserved, SomeEditors DEF Held

\* The first command of a replica, and what is left when it is answered.
LEMMA HeadTyped ==
    ASSUME sent \in Pipes, NEW r \in Replica, sent[r] # <<>>
    PROVE  /\ Head(sent[r]) \in Request /\ Editing(r) \in Editor
           /\ LeaseOf(Head(sent[r])) \in Reservation
           /\ Answered(r) \in Pipes
<1>1. sent[r] \in Seq(Request)
  BY DEF Pipes
<1>2. Head(sent[r]) \in Request /\ Tail(sent[r]) \in Seq(Request)
  BY <1>1
<1>3. Answered(r) \in Pipes
  BY <1>2 DEF Answered, Pipes
<1>. QED BY <1>2, <1>3 DEF Editing, LeaseOf, Lease, Request, Reservation

\* What is done with the commands of a replica in place.
LEMMA EachTyped ==
    ASSUME sent \in Pipes, NEW r \in Replica, NEW i \in DOMAIN sent[r]
    PROVE  /\ sent[r][i] \in Request
           /\ Without(r, i) \in Pipes
           /\ \A a \in Answer : [sent EXCEPT ![r][i].answer = a] \in Pipes
           /\ [sent EXCEPT ![r][i].for = "nobody"] \in Pipes
<1>1. sent[r] \in Seq(Request) /\ i \in 1..Len(sent[r]) /\ Len(sent[r]) \in Nat
  BY DEF Pipes
<1>2. sent[r][i] \in Request
  BY <1>1
<1>3. RemoveAt(sent[r], i) \in Seq(Request)
  <2>1. /\ SubSeq(sent[r], 1, i - 1) \in Seq(Request)
        /\ SubSeq(sent[r], i + 1, Len(sent[r])) \in Seq(Request)
    BY <1>1
  <2>. QED BY <2>1 DEF RemoveAt
<1>4. Without(r, i) \in Pipes
  BY <1>3 DEF Without, Pipes
<1>5. ASSUME NEW a \in Answer
      PROVE  [sent EXCEPT ![r][i].answer = a] \in Pipes
  <2>1. [sent[r][i] EXCEPT !.answer = a] \in Request
    BY <1>2 DEF Request
  <2>2. [sent[r] EXCEPT ![i].answer = a] \in Seq(Request)
    BY <1>1, <2>1
  <2>. QED BY <2>2 DEF Pipes
<1>6. [sent EXCEPT ![r][i].for = "nobody"] \in Pipes
  <2>1. [sent[r][i] EXCEPT !.for = "nobody"] \in Request
    BY <1>2 DEF Request
  <2>2. [sent[r] EXCEPT ![i].for = "nobody"] \in Seq(Request)
    BY <1>1, <2>1
  <2>. QED BY <2>2 DEF Pipes
<1>. QED BY <1>2, <1>4, <1>5, <1>6

-----------------------------------------------------------------------------
(* What the handlers have in common                                        *)

LEMMA LetGoTyped ==
    ASSUME RequestsInv, NEW p \in Pipes, NEW e \in Editor, LetGo(p, e)
    PROVE  lease' \in LeaseMap /\ sent' \in Pipes
<1>1. Home[e] \in Replica
  BY RoomsAssumption
<1>2. /\ {e} \cap Held(Home[e]) \in SUBSET Editor
      /\ \A m \in {e} \cap Held(Home[e]) : lease[m] \in Reservation
  BY HeldReserved DEF RequestsInv
<1>. QED BY <1>1, <1>2, ForgetTyped, SendTyped DEF LetGo, RequestsInv

LEMMA CloseRelayTyped ==
    ASSUME RequestsInv, NEW p \in Pipes, NEW r \in Replica,
           NEW linked, NEW ready, NEW subscribed, CloseRelay(p, r, linked, ready, subscribed)
    PROVE  lease' \in LeaseMap /\ queued' \in LeaseMap /\ sent' \in Pipes
<1> DEFINE q == [e \in Editor |-> IF e \in Held(r) THEN lease[e] ELSE queued[e]]
<1>1. q \in LeaseMap
  BY DEF LeaseMap, RequestsInv
<1>2. Queued(q, r) \in SUBSET Editor /\ \A e \in Queued(q, r) : q[e] \in Reservation
  BY <1>1, QueuedReserved
<1>3. Send(p, r, Queued(q, r), "release", q, "cleanup") \in Pipes
  <2> HIDE DEF q
  <2>. QED BY <1>2, SendTyped
<1>4. lease' \in LeaseMap
  BY ForgetTyped DEF CloseRelay, RequestsInv
<1>5. queued' = q
  BY DEF CloseRelay
<1>6. sent' \in Pipes
  BY <1>3 DEF CloseRelay
<1>. QED BY <1>1, <1>4, <1>5, <1>6

LEMMA DenyAndReleaseTyped ==
    ASSUME RequestsInv, NEW p \in Pipes, NEW r \in Replica, DenyAndRelease(p, r)
    PROVE  lease' \in LeaseMap /\ parked' \in LeaseMap /\ sent' \in Pipes
<1>1. Send(p, r, Queued(parked, r), "release", parked, "release") \in Pipes
  BY QueuedReserved, SendTyped DEF RequestsInv
<1>2. sent' \in Pipes
  BY <1>1, HeldReserved, SendTyped DEF DenyAndRelease, RequestsInv
<1>. QED BY <1>2, ForgetTyped DEF DenyAndRelease, RequestsInv

LEMMA BatchStepTyped ==
    ASSUME NEW p \in Pipes, NEW r \in Replica, NEW e, NEW q \in LeaseMap, NEW released,
           BatchStep(p, r, e, q, released)
    PROVE  queued' \in LeaseMap /\ sent' \in Pipes
<1>1. Send(p, r, Queued(q, r), "release", q, "cleanup") \in Pipes
  BY QueuedReserved, SendTyped
<1>. QED BY <1>1 DEF BatchStep

LEMMA DetachFailsTyped ==
    ASSUME RequestsInv, NEW p \in Pipes, NEW r \in Replica, NEW c \in Request, DetachFails(c, p, r)
    PROVE  RequestsInv' /\ UNCHANGED storeVars
<1> DEFINE l == [NoLeases EXCEPT ![c.of] = LeaseOf(c)]
<1>1. c.of \in Editor /\ l[c.of] \in Reservation
  BY DEF Request, Reservation, LeaseOf, Lease, NoLeases
<1>2. sent' \in Pipes
  <2>1. Send(p, r, {c.of}, "release", l, "release") \in Pipes
    <3> HIDE DEF l
    <3>. QED BY <1>1, SendTyped
  <2>. QED BY <2>1 DEF DetachFails
<1>. QED BY <1>2
  DEF DetachFails, RequestsInv, bridgeVars, storeVars, LeaseMap, MaybeLease, Pipes, Reservation, Request

LEMMA FailsTyped ==
    ASSUME RequestsInv, NEW p \in Pipes, NEW r \in Replica, NEW c \in Request, Fails(c, p, r)
    PROVE  RequestsInv' /\ UNCHANGED storeVars
<1> USE DEF Fails, RequestsInv
<1>0. UNCHANGED <<storeVars, drawn>>
  BY DEF DetachFails
<1>1. LeaseMap' = LeaseMap /\ Pipes' = Pipes
  BY <1>0 DEF storeVars, LeaseMap, MaybeLease, Pipes, Reservation, Request
<1>2. CASE c.for \in {"call", "beat"}
  BY <1>0, <1>1, <1>2, CloseRelayTyped DEF CommandsUnavailable
<1>3. CASE c.for = "release"
  <2>1. c.of \in Editor /\ LeaseOf(c) \in Reservation
    BY DEF Request, Reservation, LeaseOf, Lease
  <2>2. queued' \in LeaseMap
    BY <1>3, <2>1 DEF Requeue, LeaseMap, MaybeLease
  <2>. QED BY <1>0, <1>1, <1>3, <2>2
<1>4. CASE c.for = "detach"
  BY <1>0, <1>4, DetachFailsTyped
<1>5. CASE c.for = "cleanup"
  BY <1>0, <1>1, <1>5, BatchStepTyped
<1>. QED BY <1>0, <1>2, <1>3, <1>4, <1>5

-----------------------------------------------------------------------------
(* Steps of the replicas: the store is left alone.                         *)

\* Then reservations stay reservations.
LEMMA SameEpochs ==
    ASSUME UNCHANGED storeVars
    PROVE  LeaseMap' = LeaseMap /\ Pipes' = Pipes
  BY DEF storeVars, LeaseMap, MaybeLease, Pipes, Reservation, Request

LEMMA FrameStep ==
    ASSUME StoreInv, RequestsInv, NEW e \in Editor, Frame(e)
    PROVE  RequestsInv' /\ UNCHANGED storeVars
<1>0. UNCHANGED storeVars
  BY DEF Frame, Reserve, ReserveAgain, ReserveRefused, Join, JoinAgain, JoinDenied, Leave
<1>1. LeaseMap' = LeaseMap /\ Pipes' = Pipes
  BY <1>0, SameEpochs
<1>2. Home[e] \in Replica
  BY RoomsAssumption
<1>3. ASSUME NEW l \in used, Reserve(e, l.epoch, l.sec)
      PROVE  RequestsInv'
  <2> DEFINE m == [NoLeases EXCEPT ![e] = Lease("pending", drawn + 1, l.epoch, l.sec)]
  <2>1. l \in [epoch : Epoch, sec : Sec] /\ l = Epochs(l.epoch, l.sec)
    BY DEF StoreInv, StoreTypeOK, Epochs
  <2>2. drawn' \in Nat /\ drawn' = drawn + 1 /\ drawn + 1 \in Nat \ {0}
    BY <1>3 DEF Reserve, RequestsInv
  <2>3. m[e] \in Reservation
    BY <2>1, <2>2 DEF Reservation, Lease, NoLeases
  <2>4. sent' \in Pipes
    <3>1. \A x \in {e} : m[x] \in Reservation
      BY <2>3
    <3>2. sent' = Send(sent, Home[e], {e}, "reserve", m, "call")
      BY <1>3 DEF Reserve
    <3> HIDE DEF m
    <3>. QED BY <1>2, <3>1, <3>2, SendTyped DEF RequestsInv
  <2>. QED BY <1>1, <1>3, <2>2, <2>4 DEF Reserve, RequestsInv, bridgeVars
<1>4. CASE ReserveAgain(e)
  <2>1. lease[e] \in Reservation
    BY <1>4, LeasesReserved DEF ReserveAgain, RequestsInv
  <2>2. Send(sent, Home[e], {e}, "refresh", lease, "call") \in Pipes
    BY <1>2, <2>1, SendTyped DEF RequestsInv
  <2>. QED BY <1>1, <1>4, <2>2 DEF ReserveAgain, RequestsInv, bridgeVars
<1>5. CASE ReserveRefused(e) \/ JoinDenied(e) \/ Leave(e)
  <2>1. lease' \in LeaseMap /\ sent' \in Pipes
    BY <1>5, LetGoTyped DEF ReserveRefused, JoinDenied, Leave, RequestsInv
  <2>. QED BY <1>1, <1>5, <2>1 DEF ReserveRefused, JoinDenied, Leave, RequestsInv
<1>6. CASE Join(e)
  <2>1. lease[e] \in Reservation
    BY <1>6, LeasesReserved DEF Join, RequestsInv, NoLease, Lease
  <2>2. Send(sent, Home[e], {e}, "activate", lease, "call") \in Pipes
    BY <1>2, <2>1, SendTyped DEF RequestsInv
  <2>. QED BY <1>1, <1>6, <2>2 DEF Join, RequestsInv, bridgeVars
<1>7. CASE JoinAgain(e)
  BY <1>1, <1>7 DEF JoinAgain, RequestsInv, bridgeVars
<1>. QED BY <1>0, <1>3, <1>4, <1>5, <1>6, <1>7 DEF Frame

LEMMA ElapseStep ==
    ASSUME RequestsInv, NEW e \in Editor, Elapse(e)
    PROVE  RequestsInv' /\ UNCHANGED storeVars
<1>0. UNCHANGED storeVars
  BY DEF Elapse, SlotExpires, MembershipLapses, LeaseLapses, ConnectionEnds, Sweep, GraceEnds
<1>1. LeaseMap' = LeaseMap /\ Pipes' = Pipes
  BY <1>0, SameEpochs
<1>2. Home[e] \in Replica
  BY RoomsAssumption
<1>3. CASE SlotExpires(e) \/ LeaseLapses(e)
  <2>1. lease' \in LeaseMap /\ sent' \in Pipes
    BY <1>3, LetGoTyped DEF SlotExpires, LeaseLapses, RequestsInv
  <2>. QED BY <1>1, <1>3, <2>1 DEF SlotExpires, LeaseLapses, RequestsInv
<1>4. CASE MembershipLapses(e) \/ ConnectionEnds(e, "lost") \/ ConnectionEnds(e, "ended")
  BY <1>1, <1>4 DEF MembershipLapses, ConnectionEnds, RequestsInv, bridgeVars
<1>5. CASE Sweep(e)
  <2>1. CASE conn[e] = "lost" /\ lease[e].phase = "active"
    <3>1. lease[e] \in Reservation
      BY <2>1, LeasesReserved DEF RequestsInv, NoLease, Lease
    <3>2. sent' \in Pipes /\ lease' \in LeaseMap
      BY <1>2, <1>5, <2>1, <3>1, SendTyped, ForgetTyped DEF Sweep, RequestsInv
    <3>. QED BY <1>1, <1>5, <3>2 DEF Sweep, RequestsInv
  <2>2. CASE ~(conn[e] = "lost" /\ lease[e].phase = "active")
    <3>1. lease' \in LeaseMap /\ sent' \in Pipes
      BY <1>5, <2>2, LetGoTyped DEF Sweep, RequestsInv
    <3>. QED BY <1>1, <1>5, <3>1 DEF Sweep, RequestsInv
  <2>. QED BY <2>1, <2>2
<1>6. CASE GraceEnds(e)
  <2>1. parked[e] \in Reservation
    BY <1>6, LeasesReserved DEF GraceEnds, RequestsInv
  <2>2. sent' \in Pipes /\ parked' \in LeaseMap
    BY <1>2, <1>6, <2>1, SendTyped, ForgetTyped DEF GraceEnds, RequestsInv
  <2>. QED BY <1>1, <1>6, <2>2 DEF GraceEnds, RequestsInv
<1>. QED BY <1>0, <1>3, <1>4, <1>5, <1>6 DEF Elapse

\* An answer is for an editor of a reservation, which the replica may keep, release or park.
LEMMA AnswerStep ==
    ASSUME RequestsInv, NEW r \in Replica,
           \/ Reserved(r) \/ Renewed(r) \/ ReserveDenied(r) \/ ReserveRevoked(r)
           \/ Joined(r) \/ LeaseRefused(r) \/ Refreshed(r)
           \/ Released(r) \/ Detached(r) \/ DetachRefused(r) \/ CleanedUp(r) \/ Ignored(r)
    PROVE  RequestsInv' /\ UNCHANGED storeVars
<1> DEFINE c == Head(sent[r])
           e == Editing(r)
<1>0. UNCHANGED storeVars /\ sent[r] # <<>>
  BY DEF Reserved, Renewed, ReserveDenied, ReserveRevoked, Joined, LeaseRefused, Refreshed, Released,
         Detached, DetachRefused, DetachFails, CleanedUp, Ignored, Arrives
<1>1. LeaseMap' = LeaseMap /\ Pipes' = Pipes
  BY <1>0, SameEpochs
<1>2. c \in Request /\ e \in Editor /\ LeaseOf(c) \in Reservation /\ Answered(r) \in Pipes
  BY <1>0, HeadTyped DEF RequestsInv
<1> HIDE DEF c
<1>3. CASE Reserved(r)
  <2> DEFINE l == [lease EXCEPT ![e] = LeaseOf(c)]
  <2>1. l \in LeaseMap /\ l[e] \in Reservation
    BY <1>2 DEF RequestsInv, LeaseMap, MaybeLease
  <2>2. Send(Answered(r), r, {e}, "release", l, "release") \in Pipes
    <3> HIDE DEF l, e
    <3>. QED BY <1>2, <2>1, SendTyped
  <2>3. lease' \in LeaseMap /\ sent' \in Pipes
    BY <1>2, <1>3, <2>1, <2>2 DEF Reserved, RequestsInv, c
  <2>. QED BY <1>1, <1>3, <2>3 DEF Reserved, RequestsInv
<1>4. CASE Renewed(r)
  <2>1. lease' \in LeaseMap /\ sent' \in Pipes
    BY <1>2, <1>4, LetGoTyped DEF Renewed, RequestsInv
  <2>. QED BY <1>1, <1>4, <2>1 DEF Renewed, RequestsInv
<1>5. CASE ReserveDenied(r) \/ Released(r) \/ Ignored(r)
  BY <1>1, <1>2, <1>5 DEF ReserveDenied, Released, Ignored, RequestsInv, bridgeVars
<1>6. CASE ReserveRevoked(r)
  BY <1>1, <1>2, <1>6, ForgetTyped DEF ReserveRevoked, RequestsInv
<1>7. CASE Joined(r)
  <2> DEFINE l == IF lease[e].res = c.res THEN [lease EXCEPT ![e].phase = "active"] ELSE lease
  <2>1. e \in Held(r) => lease[e] \in Reservation
    BY HeldReserved DEF RequestsInv
  <2>2. e \in Held(r) => l[e] \in Reservation
    BY <1>2, <2>1 DEF RequestsInv, LeaseMap, Reservation
  <2>3. Send(Answered(r), r, {e} \cap Held(r), "release", l, "release") \in Pipes
    <3>1. {e} \cap Held(r) \in SUBSET Editor /\ \A m \in {e} \cap Held(r) : l[m] \in Reservation
      BY <1>2, <2>2
    <3> HIDE DEF l, e
    <3>. QED BY <1>2, <3>1, SendTyped
  <2>4. l \in LeaseMap
    <3>1. lease[e].res = c.res => lease[e] # NoLease
      BY <1>2 DEF Request, NoLease, Lease
    <3>2. lease[e].res = c.res => lease[e] \in Reservation
      BY <1>2, <3>1, LeasesReserved DEF RequestsInv
    <3>3. lease[e].res = c.res => [lease[e] EXCEPT !.phase = "active"] \in Reservation
      BY <3>2 DEF Reservation
    <3>. QED BY <1>2, <3>3 DEF RequestsInv, LeaseMap, MaybeLease
  <2>5. lease' \in LeaseMap /\ sent' \in Pipes
    BY <1>2, <1>7, <2>3, <2>4, ForgetTyped DEF Joined, RequestsInv, c
  <2>. QED BY <1>1, <1>7, <2>5 DEF Joined, RequestsInv
<1>8. CASE LeaseRefused(r)
  <2>1. lease' \in LeaseMap /\ parked' \in LeaseMap /\ sent' \in Pipes
    BY <1>2, <1>8, DenyAndReleaseTyped DEF LeaseRefused
  <2>. QED BY <1>1, <1>8, <2>1 DEF LeaseRefused, RequestsInv
<1>9. CASE Refreshed(r)
  <2>1. lease' \in LeaseMap /\ parked' \in LeaseMap /\ sent' \in Pipes
    BY <1>2, <1>9, DenyAndReleaseTyped DEF Refreshed, RequestsInv
  <2>. QED BY <1>1, <1>9, <2>1 DEF Refreshed, RequestsInv
<1>10. CASE Detached(r)
  <2>1. [LeaseOf(c) EXCEPT !.phase = "detached"] \in Reservation
    BY <1>2 DEF Reservation
  <2>2. parked' \in LeaseMap
    BY <1>2, <1>10, <2>1 DEF Detached, RequestsInv, LeaseMap, MaybeLease, c
  <2>. QED BY <1>1, <1>2, <1>10, <2>2 DEF Detached, RequestsInv
<1>11. CASE DetachRefused(r)
  BY <1>2, <1>11, DetachFailsTyped DEF DetachRefused, c
<1>12. CASE CleanedUp(r)
  <2> DEFINE q == IF queued[e].res = c.res THEN Forget(queued, {e}) ELSE queued
  <2>1. q \in LeaseMap
    BY ForgetTyped DEF RequestsInv
  <2>2. BatchStep(Answered(r), r, e, q, TRUE)
    BY <1>12 DEF CleanedUp, c
  <2>3. queued' \in LeaseMap /\ sent' \in Pipes
    <3> HIDE DEF q, e
    <3>. QED BY <1>2, <2>1, <2>2, BatchStepTyped
  <2>. QED BY <1>1, <1>12, <2>3 DEF CleanedUp, RequestsInv
<1>. QED BY <1>0, <1>3, <1>4, <1>5, <1>6, <1>7, <1>8, <1>9, <1>10, <1>11, <1>12

LEMMA FailureStep ==
    ASSUME RequestsInv, NEW r \in Replica, Rejected(r) \/ GiveUp(r) \/ ConnectionDrops(r) \/ SubscriberLost(r)
    PROVE  RequestsInv' /\ UNCHANGED storeVars
<1>1. CASE Rejected(r)
  <2> PICK i \in DOMAIN sent[r] : Fails(sent[r][i], Without(r, i), r)
      BY <1>1 DEF Rejected
  <2>. QED BY EachTyped, FailsTyped DEF RequestsInv
<1>2. CASE GiveUp(r)
  <2> PICK i \in DOMAIN sent[r] : \/ Fails(sent[r][i], [sent EXCEPT ![r][i].for = "nobody"], r)
                                  \/ Fails(sent[r][i], Without(r, i), r)
      BY <1>2 DEF GiveUp
  <2>. QED BY EachTyped, FailsTyped DEF RequestsInv
<1>3. CASE ConnectionDrops(r)
  <2> DEFINE again == [i \in DOMAIN sent[r] |->
                         [sent[r][i] EXCEPT !.answer = IF @ = "rejected" THEN @ ELSE "none"]]
             p == [sent EXCEPT ![r] = again]
  <2>1. sent[r] \in Seq(Request)
    BY DEF RequestsInv, Pipes
  <2>2. \A c \in Request : [c EXCEPT !.answer = IF @ = "rejected" THEN @ ELSE "none"] \in Request
    BY DEF Request
  <2>3. Len(sent[r]) \in Nat /\ again \in [1..Len(sent[r]) -> Request]
    BY <2>1, <2>2
  <2>4. again \in Seq(Request)
    BY <2>3
  <2>5. p \in Pipes
    BY <2>4 DEF RequestsInv, Pipes
  <2>6. CloseRelay(p, r, FALSE, FALSE, relay[r].subscribed) /\ UNCHANGED <<storeVars, parked, drawn>>
    BY <1>3 DEF ConnectionDrops, CommandsUnavailable
  <2>7. lease' \in LeaseMap /\ queued' \in LeaseMap /\ sent' \in Pipes
    BY <2>5, <2>6, CloseRelayTyped
  <2>. QED BY <2>6, <2>7, SameEpochs DEF RequestsInv
<1>4. CASE SubscriberLost(r)
  <2>1. lease' \in LeaseMap /\ queued' \in LeaseMap /\ sent' \in Pipes
    BY <1>4, CloseRelayTyped DEF SubscriberLost, RequestsInv
  <2>. QED BY <1>4, <2>1, SameEpochs DEF SubscriberLost, RequestsInv
<1>. QED BY <1>1, <1>2, <1>3, <1>4

LEMMA RelayStep ==
    ASSUME RequestsInv, NEW r \in Replica,
           Beat(r) \/ RetryCleanup(r) \/ CommandsReady(r) \/ Resubscribed(r) \/ Crash(r)
    PROVE  RequestsInv' /\ UNCHANGED storeVars
<1>0. UNCHANGED storeVars
  BY DEF Beat, RetryCleanup, CommandsReady, Resubscribed, Crash
<1>1. LeaseMap' = LeaseMap /\ Pipes' = Pipes
  BY <1>0, SameEpochs
<1>2. CASE Beat(r)
  <2>1. Send(sent, r, Held(r), "refresh", lease, "beat") \in Pipes
    BY HeldReserved, SendTyped DEF RequestsInv
  <2>. QED BY <1>1, <1>2, <2>1 DEF Beat, RequestsInv, bridgeVars
<1>3. CASE RetryCleanup(r)
  <2>1. Send(sent, r, Queued(queued, r), "release", queued, "cleanup") \in Pipes
    BY QueuedReserved, SendTyped DEF RequestsInv
  <2>. QED BY <1>1, <1>3, <2>1 DEF RetryCleanup, RequestsInv
<1>4. CASE CommandsReady(r)
  <2>1. SendOn(TRUE, sent, r, Queued(queued, r), "release", queued, "cleanup") \in Pipes
    BY QueuedReserved, SendOnTyped DEF RequestsInv
  <2>. QED BY <1>1, <1>4, <2>1 DEF CommandsReady, RequestsInv
<1>5. CASE Resubscribed(r)
  BY <1>1, <1>5 DEF Resubscribed, RequestsInv
<1>6. CASE Crash(r)
  <2> DEFINE orphans == [i \in DOMAIN sent[r] |-> [sent[r][i] EXCEPT !.for = "nobody"]]
  <2>1. sent[r] \in Seq(Request)
    BY DEF RequestsInv, Pipes
  <2>2. \A c \in Request : [c EXCEPT !.for = "nobody"] \in Request
    BY DEF Request
  <2>3. Len(sent[r]) \in Nat /\ orphans \in [1..Len(sent[r]) -> Request]
    BY <2>1, <2>2
  <2>4. orphans \in Seq(Request)
    <3> HIDE DEF orphans
    <3>. QED BY <2>3
  <2>5. sent' = [sent EXCEPT ![r] = orphans]
    BY <1>6 DEF Crash, RequestsInv, Pipes
  <2>6. sent' \in Pipes
    BY <2>4, <2>5 DEF RequestsInv, Pipes
  <2>. QED BY <1>1, <1>6, <2>6, ForgetTyped DEF Crash, RequestsInv
<1>. QED BY <1>0, <1>2, <1>3, <1>4, <1>5, <1>6

-----------------------------------------------------------------------------
\* A command Redis executes is one of the scripts, for a lease and an epoch it may name.
LEMMA ScriptStep ==
    ASSUME StoreInv, NEW c \in Request, NEW answer \in Answer, Script(c, answer)
    PROVE  StoreNext
<1> DEFINE v == [phase |-> c.phase, res |-> c.res]
           l == Epochs(c.epoch, c.sec)
<1>1. c.of \in Editor /\ v \in Value /\ l \in used /\ l.epoch = c.epoch /\ l.sec = c.sec
  BY DEF Request, Value, Epochs
<1>2. \/ ReserveScript(c.of, v.res, l.epoch, l.sec, answer)
      \/ Activate(c.of, v, l.epoch, l.sec, answer)
      \/ Refresh(c.of, v, l.epoch, l.sec, answer)
      \/ RefreshLost(c.of, v, l.epoch, l.sec, answer)
      \/ Detach(c.of, v, answer)
      \/ DetachLost(c.of, v, answer)
      \/ ReleaseRefused(c.of, v, answer)
      \/ Release(c.of, v, l.epoch, l.sec, answer)
  BY <1>1 DEF Script, Activate, Refresh, RefreshLost, Detach, DetachLost, ReleaseRefused, Release,
              Owned, Holds, Releasable
<1> HIDE DEF v, l
<1>. QED BY <1>1, <1>2 DEF StoreNext

\* No step of the store takes an epoch back.
LEMMA EpochsStay ==
    ASSUME StoreNext
    PROVE  used \subseteq used'
  BY DEF StoreNext, ReserveScript, Revoke, RefuseEpoch, RotateEnded, Grant, Activate, Refresh,
         RefreshLost, Detach, DetachLost, ReleaseRefused, Release, Rotate, Expire, StateLost,
         MembersLost, RedisRestarts, storeVars

LEMMA ReservationsStay ==
    ASSUME used \subseteq used'
    PROVE  /\ LeaseMap \subseteq LeaseMap'
           /\ Pipes \subseteq Pipes'
<1>1. Reservation \subseteq Reservation' /\ Request \subseteq Request'
  BY DEF Reservation, Request
<1>2. LeaseMap \subseteq LeaseMap'
  BY <1>1 DEF LeaseMap, MaybeLease
<1>3. ASSUME NEW p \in Pipes, NEW r \in Replica
      PROVE  p[r] \in Seq(Request')
  <2>1. p[r] \in Seq(Request)
    BY DEF Pipes
  <2>2. Len(p[r]) \in Nat /\ p[r] \in [1..Len(p[r]) -> Request]
    BY <2>1
  <2>3. p[r] \in [1..Len(p[r]) -> Request']
    BY <1>1, <2>2
  <2>. QED BY <2>2, <2>3
<1>. QED BY <1>2, <1>3 DEF Pipes

LEMMA ExecuteStep ==
    ASSUME StoreInv, RequestsInv, NEW r \in Replica, Execute(r)
    PROVE  RequestsInv' /\ StoreNext
<1> PICK i \in DOMAIN sent[r], answer \in Answer :
        /\ Script(sent[r][i], answer)
        /\ sent' = [sent EXCEPT ![r][i].answer = answer]
        /\ UNCHANGED <<bridgeVars, registryVars, drawn, events>>
    BY DEF Execute
<1>1. StoreNext
  BY EachTyped, ScriptStep DEF RequestsInv
<1>2. sent' \in Pipes
  BY EachTyped DEF RequestsInv
<1>. QED BY <1>1, <1>2, EpochsStay, ReservationsStay DEF RequestsInv, bridgeVars

LEMMA StoreStepStep ==
    ASSUME RequestsInv, StoreStep
    PROVE  RequestsInv' /\ StoreNext
<1>1. StoreNext
  BY DEF StoreStep, StoreNext
<1>. QED BY <1>1, EpochsStay, ReservationsStay DEF StoreStep, RequestsInv, bridgeVars

-----------------------------------------------------------------------------
LEMMA InitRequests == Init => RequestsInv
<1> SUFFICES ASSUME Init PROVE RequestsInv
    OBVIOUS
<1>1. NoLeases \in LeaseMap
  BY DEF NoLeases, LeaseMap, MaybeLease
<1>2. sent \in Pipes
  BY DEF Init, Pipes
<1>. QED BY <1>1, <1>2 DEF Init, RequestsInv

\* Every step of the replicas is a step of the store or leaves it alone.
LEMMA NextRooms ==
    ASSUME StoreInv, RequestsInv, [Next]_vars
    PROVE  RequestsInv' /\ [StoreNext]_storeVars
<1>1. ASSUME NEW e \in Editor, Frame(e) \/ Elapse(e)
      PROVE  RequestsInv' /\ [StoreNext]_storeVars
  BY <1>1, FrameStep, ElapseStep
<1>2. ASSUME NEW r \in Replica, Beat(r) \/ RetryCleanup(r) \/ GiveUp(r) \/ ConnectionDrops(r)
             \/ CommandsReady(r) \/ SubscriberLost(r) \/ Resubscribed(r) \/ Crash(r)
      PROVE  RequestsInv' /\ [StoreNext]_storeVars
  BY <1>2, FailureStep, RelayStep
<1>3. ASSUME NEW r \in Replica, Serve(r)
      PROVE  RequestsInv' /\ [StoreNext]_storeVars
  BY <1>3, ExecuteStep, AnswerStep, FailureStep DEF Serve
<1>4. CASE StoreStep
  BY <1>4, StoreStepStep
<1>5. CASE UNCHANGED vars
  <2>1. UNCHANGED storeVars
    BY <1>5 DEF vars
  <2>. QED BY <1>5, <2>1, SameEpochs DEF vars, RequestsInv, bridgeVars
<1>. QED BY <1>1, <1>2, <1>3, <1>4, <1>5 DEF Next

LEMMA RoomsInvariant == Spec => [](StoreInv /\ RequestsInv)
<1>1. Init => StoreInv /\ RequestsInv
  BY InitStore, InitRequests DEF Init
<1>2. StoreInv /\ RequestsInv /\ [Next]_vars => (StoreInv /\ RequestsInv)'
  BY NextRooms, NextStore
<1>. QED BY <1>1, <1>2, PTL DEF Spec

\* Gateway replicas, however their commands are delayed, repeated by the connection or given
\* up, change what Redis keeps of a room only as RoomLeases says.
THEOREM RoomsImplementStore == Spec => StoreSpec
<1>1. Init => StoreInit
  BY DEF Init
<1>2. StoreInv /\ RequestsInv /\ [Next]_vars => [StoreNext]_storeVars
  BY NextRooms
<1>. QED BY <1>1, <1>2, RoomsInvariant, PTL DEF Spec, StoreSpec

\* Every lease Redis counts belongs to the epoch and security epoch the room has, for any
\* editors and replicas, and with every failure of the connections between them.
THEOREM RoomsOneLineage == Spec => []OneLineage
  BY RoomsImplementStore, LeasesOfOneLineage, PTL

\* A lineage is seeded by one elected reservation at most while the room's state lasts,
\* whatever becomes of the replica that asked for it.
THEOREM RoomsSeededOnce == Spec => []ElectedOnce
  BY RoomsImplementStore, SeededOnce, PTL

\* A room never goes back to an earlier security generation, and keeps nobody of one, also
\* when commands of that generation are still on their way.
THEOREM RoomsRevokeForGood == Spec => RevokedForGood
  BY RoomsImplementStore, GenerationsOnlyGrow, PTL
=============================================================================
