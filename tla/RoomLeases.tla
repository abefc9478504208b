------------------------------ MODULE RoomLeases ------------------------------
(***************************************************************************)
(* What Redis keeps of one collaboration room, and the Lua scripts that    *)
(* change it (collaborationRedisBridge.ts): the room's state (its epoch,   *)
(* security epoch and whether its lineage was initialised), the set of     *)
(* lease keys, and the lease keys themselves.  A script runs alone, so     *)
(* each is one step; an operator's last argument is its answer.            *)
(*                                                                         *)
(* A lease value names a reservation and a phase.  Security epochs are     *)
(* numbered in the order of their generations, for authorizations of a     *)
(* later one are issued later.  A random epoch is drawn when it is first   *)
(* written.  All leases speak the one protocol version there is, and the   *)
(* limit of 64 to a room is not reached.                                   *)
(***************************************************************************)
EXTENDS Integers

CONSTANTS
    Editor,    \* logical editors: a connection and a request id, which make a lease key
    Epoch,     \* room epochs; those drawn are never drawn again
    Sec,       \* security epochs
    InitialOf, \* the room epoch every client derives for a security epoch
    NoEpoch

ASSUME LeaseAssumption ==
    /\ Sec \subseteq Nat
    /\ InitialOf \in [Sec -> Epoch] /\ NoEpoch \notin Epoch

VARIABLES
    room,    \* the room-state key: [epoch, sec, initialized], NoRoom when it is gone
    members, \* the room set: lease keys, some of which may have expired
    key,     \* the lease keys: [phase, res, epoch, sec] and, as history, elected
    used,    \* the epochs drawn so far, each with its security epoch
    seeds    \* history: [epoch, res] of each elected reservation activated since the
             \* room's state was last lost

storeVars == <<room, members, key, used, seeds>>

Epochs(epoch, sec) == [epoch |-> epoch, sec |-> sec]
Room(epoch, sec) == [epoch |-> epoch, sec |-> sec, initialized |-> FALSE]
NoRoom == [epoch |-> NoEpoch, sec |-> 0, initialized |-> FALSE]
NoKey == [phase |-> "none", res |-> 0, epoch |-> NoEpoch, sec |-> 0, elected |-> FALSE]

StoreInit ==
    /\ room = NoRoom
    /\ members = {}
    /\ key = [k \in Editor |-> NoKey]
    /\ used = {Epochs(InitialOf[s], s) : s \in Sec}
    /\ seeds = {}

Exists(k) == key[k].phase # "none"

\* The leases a script counts; it removes the others from the room set.
Live == {k \in members : Exists(k)}

Holds(k, value) == key[k].phase = value.phase /\ key[k].res = value.res

Unused == Epoch \ {l.epoch : l \in used}
Fresh == CHOOSE e \in Unused : TRUE

\* A random epoch replaces the room's.
Rotate(sec) ==
    /\ Unused # {}
    /\ room' = Room(Fresh, sec)
    /\ used' = used \cup {Epochs(Fresh, sec)}

-----------------------------------------------------------------------------
(* RESERVE_LEASE_SCRIPT                                                    *)

RevokesAnyOther(sec) ==  \* mutant: issue times are not compared
    IF room = NoRoom THEN Live # {} ELSE sec # room.sec

\* Leases outlive the room's state only if it was evicted: they cannot be trusted.
\* A later security generation ends those of an earlier one.
Revokes(sec) == IF room = NoRoom THEN Live # {} ELSE sec > room.sec

Revoke(sec, answer) ==
    /\ answer = "revoked" /\ Revokes(sec)
    /\ key' = [k \in Editor |-> IF k \in members THEN NoKey ELSE key[k]]
    /\ members' = {}
    /\ Rotate(sec)
    /\ UNCHANGED seeds

RefuseEpoch(epoch, sec, answer) ==
    /\ answer = "epoch" /\ ~Revokes(sec)
    /\ room # NoRoom /\ (sec < room.sec \/ epoch # room.epoch)
    /\ members' = Live
    /\ UNCHANGED <<room, key, used, seeds>>

Serves(epoch, sec) == ~Revokes(sec) /\ (room = NoRoom \/ (room.epoch = epoch /\ room.sec = sec))

EndedNever == FALSE  \* mutant: the suffix of the state is not looked at

\* The last lease of an initialised lineage is gone: what its editors shared may still
\* come back, so a text-derived document must not enter under the same epoch.
Ended == Live = {} /\ room.initialized

RotateEnded(epoch, sec, answer) ==
    /\ answer = "epoch" /\ Serves(epoch, sec) /\ Ended
    /\ members' = {}
    /\ Rotate(sec)
    /\ UNCHANGED <<key, seeds>>

\* Whoever finds the room empty is elected to bootstrap it.
Grant(k, res, epoch, sec, answer) ==
    /\ Serves(epoch, sec) /\ ~Ended
    /\ answer = IF Live = {} THEN "elected" ELSE "follows"
    /\ room' = IF room = NoRoom THEN Room(epoch, sec) ELSE room
    /\ key' = [key EXCEPT ![k] = [phase |-> "pending", res |-> res, epoch |-> epoch, sec |-> sec,
                                  elected |-> Live = {}]]
    /\ members' = Live \cup {k}
    /\ UNCHANGED <<used, seeds>>

ReserveScript(k, res, epoch, sec, answer) ==
    \/ Revoke(sec, answer)
    \/ RefuseEpoch(epoch, sec, answer)
    \/ RotateEnded(epoch, sec, answer)
    \/ Grant(k, res, epoch, sec, answer)

-----------------------------------------------------------------------------
(* REFRESH_OWNED_LEASE_SCRIPT, DETACH_LEASE_SCRIPT, RELEASE_LEASE_SCRIPT   *)

OwnedByValue(k, value, epoch, sec) == Holds(k, value)  \* mutant: only the lease key is compared

Owned(k, value, epoch, sec) ==
    /\ k \in members /\ Holds(k, value)
    /\ room.epoch = epoch /\ room.sec = sec

\* Activation marks the lineage as initialised with the same write.
Activate(k, value, epoch, sec, answer) ==
    /\ answer = "ok" /\ Owned(k, value, epoch, sec)
    /\ key' = [key EXCEPT ![k].phase = "active"]
    /\ room' = [room EXCEPT !.initialized = TRUE]
    /\ seeds' = IF key[k].elected THEN seeds \cup {[epoch |-> epoch, res |-> key[k].res]} ELSE seeds
    /\ members' = Live
    /\ UNCHANGED used

Refresh(k, value, epoch, sec, answer) ==
    /\ answer = "ok" /\ Owned(k, value, epoch, sec)
    /\ members' = Live
    /\ UNCHANGED <<room, key, used, seeds>>

RefreshLost(k, value, epoch, sec, answer) ==
    /\ answer = "lost" /\ ~Owned(k, value, epoch, sec)
    /\ UNCHANGED storeVars

Detach(k, value, answer) ==
    /\ answer = "ok" /\ Holds(k, value)
    /\ key' = [key EXCEPT ![k].phase = "detached"]
    /\ UNCHANGED <<room, members, used, seeds>>

DetachLost(k, value, answer) ==
    /\ answer = "lost" /\ ~Holds(k, value)
    /\ UNCHANGED storeVars

ReleasableExactly(k, value) == Exists(k) => Holds(k, value)  \* mutant: a pending value owns no active key

\* A reservation owns what it became when it was activated, whether or not its holder was
\* told; a key that is gone may be released by anyone.
Releasable(k, value) ==
    Exists(k) => Holds(k, value) \/ (key[k].res = value.res /\ value.phase = "pending")

ReleaseRefused(k, value, answer) ==
    /\ answer = "ok" /\ ~Releasable(k, value)
    /\ UNCHANGED storeVars

\* The last one to leave takes the epoch with it.
Release(k, value, epoch, sec, answer) ==
    /\ answer = "ok" /\ Releasable(k, value)
    /\ key' = [key EXCEPT ![k] = NoKey]
    /\ members' = members \ {k}
    /\ IF members \subseteq {k} /\ room.epoch = epoch /\ room.sec = sec
       THEN Rotate(sec)
       ELSE UNCHANGED <<room, used>>
    /\ UNCHANGED seeds

-----------------------------------------------------------------------------
(* Time and Redis itself                                                   *)

Expire(k) ==
    /\ Exists(k)
    /\ key' = [key EXCEPT ![k] = NoKey]
    /\ UNCHANGED <<room, members, used, seeds>>

\* The 24-hour tombstone runs out, or the state is evicted.
StateLost ==
    /\ room # NoRoom
    /\ room' = NoRoom /\ seeds' = {}
    /\ UNCHANGED <<members, key, used>>

MembersLost ==
    /\ members # {}
    /\ members' = {}
    /\ UNCHANGED <<room, key, used, seeds>>

RedisRestarts ==
    /\ room' = NoRoom /\ members' = {} /\ seeds' = {}
    /\ key' = [k \in Editor |-> NoKey]
    /\ UNCHANGED used

Answer == {"elected", "follows", "epoch", "revoked", "ok", "lost"}
Value == [phase : {"pending", "active", "detached"}, res : Nat]

\* Whatever the gateways send, in whatever order, with epochs they have learnt.
StoreNext ==
    \/ \E k \in Editor, l \in used, value \in Value, answer \in Answer :
          \/ ReserveScript(k, value.res, l.epoch, l.sec, answer)
          \/ Activate(k, value, l.epoch, l.sec, answer)
          \/ Refresh(k, value, l.epoch, l.sec, answer)
          \/ RefreshLost(k, value, l.epoch, l.sec, answer)
          \/ Detach(k, value, answer)
          \/ DetachLost(k, value, answer)
          \/ ReleaseRefused(k, value, answer)
          \/ Release(k, value, l.epoch, l.sec, answer)
    \/ \E k \in Editor : Expire(k)
    \/ StateLost \/ MembersLost \/ RedisRestarts

StoreSpec == StoreInit /\ [][StoreNext]_storeVars

-----------------------------------------------------------------------------
StoreTypeOK ==
    /\ room \in [epoch : Epoch \cup {NoEpoch}, sec : Nat, initialized : BOOLEAN]
    /\ room # NoRoom => Epochs(room.epoch, room.sec) \in used
    /\ members \subseteq Editor
    /\ key \in [Editor -> [phase : {"none", "pending", "active", "detached"}, res : Nat,
                           epoch : Epoch \cup {NoEpoch}, sec : Nat, elected : BOOLEAN]]
    /\ used \subseteq [epoch : Epoch, sec : Sec]
    /\ seeds \subseteq [epoch : {l.epoch : l \in used}, res : Nat]

\* In the room the scripts see, every lease belongs to the room's own epoch and security
\* epoch: no rotation, revocation or late release leaves one behind of another lineage.
OneLineage ==
    room # NoRoom => \A k \in Live : key[k].epoch = room.epoch /\ key[k].sec = room.sec

\* A lineage is seeded by one elected reservation at most, however reservations expire,
\* activate late, are retried or are released by someone who was cut off; only losing the
\* room's state ends what Redis can promise.
ElectedOnce == \A s, t \in seeds : s.epoch = t.epoch => s = t

\* Once a room has moved to a later security generation, nobody of an earlier one is in it
\* and no reservation brings the room back, as long as its state lasts.
RevokedForGood ==
    [][room # NoRoom /\ room' # NoRoom =>
          /\ room'.sec >= room.sec
          /\ \A k \in members' : key'[k].phase # "none" => key'[k].sec >= room.sec]_storeVars
=============================================================================
