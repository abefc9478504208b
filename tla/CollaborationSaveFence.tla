------------------------- MODULE CollaborationSaveFence -------------------------
(***************************************************************************)
(* The saver fence of collaborative notes (SQLCollaborationSaveFence): an  *)
(* editor's lease claims a note's fence row and is given a token and the   *)
(* note's revision; saves lock the fence rows of all their notes, in order,*)
(* until they commit, and go through only with the current token, or with  *)
(* none where no claim is live.                                            *)
(*                                                                         *)
(* claim, renew and release are one transaction on one row each and read   *)
(* and write under its lock, so each is one step taken while no save holds *)
(* the row.  Time is a claim that is live or has run out; renewing a live  *)
(* claim leaves it live and is no step.                                    *)
(***************************************************************************)
EXTENDS Integers

CONSTANTS
    Room,        \* notes, numbered in the order of their uuids
    Lease,       \* editors' leases
    DeviceOf,    \* the user's device each lease was taken on
    Writer,      \* clients that save without a proof
    MaxTokens,   \* bound: how many tokens are drawn
    MaxRevision, \* bound: how often a note is saved
    Nobody

ASSUME FenceAssumption ==
    /\ Room \subseteq Nat
    /\ Lease \cap Writer = {} /\ Nobody \notin Lease \cup Writer
    /\ DeviceOf \in [Lease -> Nat]
    /\ MaxTokens \in Nat /\ MaxRevision \in Nat

Saver == Lease \cup Writer

VARIABLES
    fence,    \* each room's row: [lease, token]; token 0 is the empty one
    live,     \* rooms whose row has not expired
    tokens,   \* tokens drawn so far
    revision, \* the committed revision of each note
    under,    \* the token it was saved under, 0 if it was saved without one
    lock,     \* whose open save holds each fence row
    grant,    \* the last claim answered to each lease: [token, revision]
    knows,    \* the revision of each note each client holds
    save      \* each client's save: [step, rooms, proof, base]

vars == <<fence, live, tokens, revision, under, lock, grant, knows, save>>

NoGrant == [token |-> 0, revision |-> 0]
NoSave == [step |-> "idle", rooms |-> {}, proof |-> [r \in Room |-> 0], base |-> [r \in Room |-> 0]]

Init ==
    /\ fence = [r \in Room |-> [lease |-> Nobody, token |-> 0]]
    /\ live = {}
    /\ tokens = 0
    /\ revision = [r \in Room |-> 0]
    /\ under = [r \in Room |-> 0]
    /\ lock = [r \in Room |-> Nobody]
    /\ grant = [l \in Lease |-> [r \in Room |-> NoGrant]]
    /\ knows = [s \in Saver |-> [r \in Room |-> 0]]
    /\ save = [s \in Saver |-> NoSave]

-----------------------------------------------------------------------------
(* SQLCollaborationSaveFence.request                                       *)

ClaimUnlocked(l, r, answered) ==  \* mutant: the row is not locked before it is read
    LET fresh == r \notin live
        token == IF fresh THEN tokens + 1 ELSE fence[r].token
    IN  /\ r \in live => fence[r].lease = l
        /\ token <= MaxTokens
        /\ tokens' = IF fresh THEN token ELSE tokens
        /\ fence' = [fence EXCEPT ![r] = [lease |-> l, token |-> token]]
        /\ live' = live \cup {r}
        /\ grant' = IF answered
                    THEN [grant EXCEPT ![l][r] = [token |-> token, revision |-> revision[r]]]
                    ELSE grant
        /\ UNCHANGED <<revision, under, lock, knows, save>>

\* A claim of a row that is free, has run out or is the lease's own; a live claim of its
\* own keeps its token.  The answer may be lost.
Claim(l, r, answered) ==
    LET fresh == r \notin live
        token == IF fresh THEN tokens + 1 ELSE fence[r].token
    IN  /\ lock[r] = Nobody
        /\ r \in live => fence[r].lease = l
        /\ token <= MaxTokens
        /\ tokens' = IF fresh THEN token ELSE tokens
        /\ fence' = [fence EXCEPT ![r] = [lease |-> l, token |-> token]]
        /\ live' = live \cup {r}
        /\ grant' = IF answered
                    THEN [grant EXCEPT ![l][r] = [token |-> token, revision |-> revision[r]]]
                    ELSE grant
        /\ UNCHANGED <<revision, under, lock, knows, save>>

\* A release, perhaps sent long ago: it must name the live claim's token.
Release(l, r, token) ==
    /\ lock[r] = Nobody
    /\ r \in live /\ fence[r] = [lease |-> l, token |-> token]
    /\ fence' = [fence EXCEPT ![r] = [lease |-> l, token |-> 0]]
    /\ live' = live \ {r}
    /\ UNCHANGED <<tokens, revision, under, lock, grant, knows, save>>

\* expires_at passes without a renewal, whether or not a save is under way.
Expire(r) ==
    /\ r \in live
    /\ live' = live \ {r}
    /\ UNCHANGED <<fence, tokens, revision, under, lock, grant, knows, save>>

-----------------------------------------------------------------------------
(* SQLCollaborationSaveFence.run                                           *)

\* A client learns the current revision of a note by an ordinary sync.
CatchUp(s, r) ==
    /\ save[s].step = "idle" /\ knows[s][r] # revision[r]
    /\ knows' = [knows EXCEPT ![s][r] = revision[r]]
    /\ UNCHANGED <<fence, live, tokens, revision, under, lock, grant, save>>

\* A save is sent, with the proofs its client has by then of the notes in it.
BeginSave(s, rooms) ==
    /\ save[s].step = "idle" /\ rooms # {}
    /\ save' = [save EXCEPT ![s] =
                  [step |-> "locking", rooms |-> rooms, base |-> knows[s],
                   proof |-> [r \in Room |-> IF s \in Lease /\ r \in rooms THEN grant[s][r].token ELSE 0]]]
    /\ UNCHANGED <<fence, live, tokens, revision, under, lock, grant, knows>>

Held(s) == {r \in Room : lock[r] = s}

Unlocked(s) == save[s].rooms \ Held(s)

IsNextAsSent(s, r) == r \in Unlocked(s)  \* mutant: the rooms are not sorted

\* The rooms are locked in the order of their uuids.
IsNext(s, r) == r \in Unlocked(s) /\ \A q \in Unlocked(s) : r <= q

AdmitsLiveOwner(s, r) ==  \* mutant: the token is not compared
    IF save[s].proof[r] # 0
    THEN r \in live /\ DeviceOf[fence[r].lease] = DeviceOf[s]
    ELSE r \notin live

\* What the row must say for the save: the proof's token, live and on its device; or,
\* without a proof, no live claim.
Admits(s, r) ==
    IF save[s].proof[r] # 0
    THEN /\ fence[r].token = save[s].proof[r] /\ r \in live
         /\ DeviceOf[fence[r].lease] = DeviceOf[s]
    ELSE r \notin live

LockRoom(s, r) ==
    /\ save[s].step = "locking" /\ IsNext(s, r)
    /\ lock[r] = Nobody /\ Admits(s, r)
    /\ lock' = [lock EXCEPT ![r] = s]
    /\ UNCHANGED <<fence, live, tokens, revision, under, grant, knows, save>>

\* The save ends, one way or the other, and its locks with it.
Finish(s) ==
    /\ save' = [save EXCEPT ![s] = NoSave]
    /\ lock' = [r \in Room |-> IF lock[r] = s THEN Nobody ELSE lock[r]]

\* 'collaboration_save_fence_lost': nothing is saved.
FenceLost(s, r) ==
    /\ save[s].step = "locking" /\ IsNext(s, r)
    /\ lock[r] = Nobody /\ ~Admits(s, r)
    /\ Finish(s)
    /\ UNCHANGED <<fence, live, tokens, revision, under, grant, knows>>

\* The process dies, the deadlock detector picks it, or a statement fails.
Fail(s) ==
    /\ save[s].step = "locking"
    /\ Finish(s)
    /\ UNCHANGED <<fence, live, tokens, revision, under, grant, knows>>

\* Every row is locked: the notes whose stored revision is the one the client had are
\* saved, the others are conflicts, and the transaction commits.
Commit(s, answered) ==
    LET saved == {r \in save[s].rooms : save[s].base[r] = revision[r] /\ revision[r] < MaxRevision} IN
    /\ save[s].step = "locking" /\ Unlocked(s) = {}
    /\ revision' = [r \in Room |-> revision[r] + IF r \in saved THEN 1 ELSE 0]
    /\ under' = [r \in Room |-> IF r \in saved THEN save[s].proof[r] ELSE under[r]]
    /\ knows' = IF answered
                THEN [knows EXCEPT ![s] = [r \in Room |-> IF r \in save[s].rooms THEN revision'[r] ELSE @[r]]]
                ELSE knows
    /\ Finish(s)
    /\ UNCHANGED <<fence, live, tokens, grant>>

-----------------------------------------------------------------------------
Saving(s) ==
    \/ \E r \in Room : LockRoom(s, r) \/ FenceLost(s, r)
    \/ \E answered \in BOOLEAN : Commit(s, answered)

Next ==
    \/ \E l \in Lease, r \in Room :
         \/ \E answered \in BOOLEAN : Claim(l, r, answered)
         \/ \E token \in 1 .. MaxTokens : Release(l, r, token)
    \/ \E r \in Room : Expire(r)
    \/ \E s \in Saver :
         \/ \E rooms \in SUBSET Room : BeginSave(s, rooms)
         \/ \E r \in Room : CatchUp(s, r)
         \/ Saving(s) \/ Fail(s)

Spec == Init /\ [][Next]_vars

\* A lock wait ends when the row is free often enough: the database queues for it.
FairSpec == Spec /\ \A s \in Saver : SF_vars(Saving(s))

-----------------------------------------------------------------------------
(* Properties                                                              *)

SaveState == [step : {"idle", "locking"}, rooms : SUBSET Room,
              proof : [Room -> 0 .. MaxTokens], base : [Room -> 0 .. MaxRevision]]

\* Every lock belongs to a save under way, of that very note.
LocksKnown ==
    \A r \in Room : lock[r] # Nobody => save[lock[r]].step = "locking" /\ r \in save[lock[r]].rooms

\* The variables have their types, and no lock outlives its save (run).
TypeOK ==
    /\ fence \in [Room -> [lease : Lease \cup {Nobody}, token : 0 .. MaxTokens]]
    /\ live \subseteq Room
    /\ tokens \in 0 .. MaxTokens
    /\ revision \in [Room -> 0 .. MaxRevision]
    /\ under \in [Room -> 0 .. MaxTokens]
    /\ lock \in [Room -> Saver \cup {Nobody}]
    /\ grant \in [Lease -> [Room -> [token : 0 .. MaxTokens, revision : 0 .. MaxRevision]]]
    /\ knows \in [Saver -> [Room -> 0 .. MaxRevision]]
    /\ save \in [Saver -> SaveState]
    /\ LocksKnown

\* A grant is not a guess: while the claim it answers is live, the note has the granted
\* revision or was saved under that very claim, so a client whose clean note matches the
\* revision may save without catching up first (SQLCollaborationSaveFence.ts:129-131).
GrantExact ==
    \A l \in Lease, r \in Room :
        r \in live /\ grant[l][r].token = fence[r].token
          => revision[r] = grant[l][r].revision \/ under[r] = fence[r].token

\* A saver that lost its fence writes nothing: a note changes only under the token its
\* row carries, or, without a proof, while no claim is live ("an old in-flight save either
\* commits before a new claim, or sees the new token and fails before touching the note").
OnlyHolderSaves ==
    [][\A r \in Room : revision'[r] # revision[r] =>
         IF under'[r] = 0 THEN r \notin live ELSE under'[r] = fence[r].token]_vars

\* Saves of overlapping sets of notes never wait for each other in a circle.
SavesEnd == \A s \in Saver : save[s].step # "idle" ~> save[s].step = "idle"
=============================================================================
