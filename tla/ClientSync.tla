------------------------------ MODULE ClientSync ------------------------------
(***************************************************************************)
(* One item on one device: the user edits it in memory while SyncService   *)
(* saves it to the local database, uploads it, and resolves what the       *)
(* server answers against a snapshot of memory (the payload deltas).  The  *)
(* page can be reloaded at any moment: memory goes, and the database and   *)
(* the outbox record of an unanswered command stay.                        *)
(*                                                                         *)
(* An item's content is the set of the writes it incorporates: an edit     *)
(* adds one to the content the user is looking at, and a write of another  *)
(* device adds one to the server's row.  A write is lost when no copy of   *)
(* the item anywhere incorporates it.                                      *)
(***************************************************************************)
EXTENDS Integers, FiniteSets

CONSTANTS
    Edit,      \* the user's edits on this device, as numbers: made in this order
    PeerWrite, \* the writes of other devices, as other numbers
    Deletions, \* bound: how many writes may be deletions
    MaxMishaps,\* bound: reloads, failed writes, lost answers, refused saves
    Closed     \* windows of the concurrency that nothing falls into, see MayEdit

ASSUME ClientSyncAssumption ==
    /\ Edit \cup PeerWrite \subseteq Nat /\ Edit \cap PeerWrite = {}
    /\ IsFiniteSet(Edit) /\ IsFiniteSet(PeerWrite)
    /\ Deletions \in Nat /\ MaxMishaps \in Nat
    /\ Closed \subseteq {"snapshot", "zero", "removal", "recovery", "rollback"}

VARIABLES
    mem,      \* PayloadManager's payload of the item
    copies,   \* the contents of its conflict copies, in memory
    disk,     \* the payload in the local database, which keeps no dirty index
    diskCopies,
    counter,  \* DirtyCounter: restarts at 0 with the page
    presaved, \* dirtyIndexAtLastPresyncSave
    token,    \* the persisted sync token: the stamp it claims to have shown
    op,       \* the round in progress, see Idle
    req,      \* the request it sent; one with an outbox record outlives the page
    late,     \* uploads given up by the device that the server may still execute
    server,   \* the server's row
    push,     \* an items-pushed message under way
    done,     \* history: the writes made so far
    owed,     \* history: the writes that nobody has deleted, and no reload forgot
    saved,    \* history: the edits whose pre-sync save was acknowledged
    uploaded, \* history: the writes the server has held
    deleted,  \* how many writes were deletions
    mishaps

clientVars == <<mem, copies, counter, presaved>>
durableVars == <<disk, diskCopies, token>>
serverVars == <<server, push, late>>
history == <<done, owed, saved, uploaded, deleted>>
vars == <<clientVars, durableVars, op, req, serverVars, history, mishaps>>

Write == Edit \cup PeerWrite

\* A payload; "none" when the collection has no such uuid.  An index of 0 is undefined.
Payload(kind, content, dirty, di, gdi, ts) ==
    [kind |-> kind, content |-> content, dirty |-> dirty,
     dirtyIndex |-> di, lastSync |-> gdi, ts |-> ts]
Gone == Payload("none", {}, FALSE, 0, 0, 0)

Row(kind, content, ts) == [kind |-> kind, content |-> content, ts |-> ts]
NoRow == Row("none", {}, 0)
Received(r) == Payload(r.kind, r.content, FALSE, 0, 0, r.ts)

\* What an answer says: the stamp of the accepted save, the row in a sync conflict,
\* the row retrieved, and the next token.
Answer(savedAt, conflict, got, tok) ==
    [saved |-> savedAt, conflict |-> conflict, got |-> got, token |-> tok]
NoAnswer == Answer(0, NoRow, NoRow, 0)

NoRequest == [sent |-> FALSE, upload |-> NoRow, recorded |-> FALSE, token |-> 0,
              answered |-> FALSE, answer |-> NoAnswer]

\* A round: what prepareForSync read (the item, whether to upload it, whether it was
\* deleted before it ever reached the server), the index frozen then, the snapshot taken
\* when the answer arrived, and the payloads replaced and applied.
Idle == [step |-> "idle", item |-> Gone, want |-> FALSE, doomed |-> FALSE, frozen |-> 0,
         answer |-> NoAnswer, saving |-> FALSE, pushed |-> FALSE,
         base |-> Gone, baseCopies |-> {}, before |-> Gone, after |-> Gone, made |-> {}]

\* Discardable payloads leave the collection (applyPayloads).
Kept(p) == IF p.kind = "deleted" /\ ~p.dirty THEN Gone ELSE p

\* The item is new here, or synced.
Init ==
    /\ \/ /\ mem = Payload("live", {}, TRUE, 1, 0, 0) /\ disk = Gone
          /\ server = NoRow /\ counter = 1 /\ token = 0
       \/ /\ mem = Payload("live", {}, FALSE, 0, 0, 1) /\ disk = mem
          /\ server = Row("live", {}, 1) /\ counter = 0 /\ token = 1
    /\ copies = {} /\ diskCopies = {}
    /\ presaved = -1 /\ op = Idle /\ req = NoRequest /\ late = {} /\ push = NoRow
    /\ done = {} /\ owed = {} /\ saved = {} /\ uploaded = {}
    /\ deleted = 0 /\ mishaps = 0

Mishap == mishaps < MaxMishaps /\ mishaps' = mishaps + 1

-----------------------------------------------------------------------------
(* The user, and the windows that may be closed.  "snapshot": no edit falls *)
(* between the snapshot an answer is resolved against and the emission of   *)
(* the result; "zero": none while an upload begun at the index 0 is         *)
(* unanswered, be it recovered from its record;                             *)
(* "removal": an item is not deleted while its creation is under way;       *)
(* "recovery": while an upload with an outbox record is unacknowledged the  *)
(* page is not reloaded and no push is applied; "rollback": the write of a  *)
(* result does not fail after an edit landed on that result.               *)

MayEdit ==
    /\ "snapshot" \in Closed => op.step # "answered"
    /\ "zero" \in Closed => ~(req.upload.kind # "none" /\ mem.lastSync = 0)

MayDelete == "removal" \in Closed =>
    (mem.ts = 0 => server.kind = "none" /\ late = {} /\ req.upload.kind = "none")

MayForget == "recovery" \in Closed => ~(req.recorded /\ req.upload.kind # "none")
MayFailToPersist == "rollback" \in Closed => mem = op.after

DirtiedInPart(kind, content) ==  \* mutant: a deletion keeps the content
    Payload(kind, mem.content \cup content, TRUE, counter + 1, mem.lastSync, mem.ts)

\* mutateItem: a new payload, dirty under a new index.
Dirtied(kind, content) ==
    Payload(kind, content, TRUE, counter + 1, mem.lastSync, mem.ts)

NextEdit(e) == e \in Edit \ done /\ \A f \in Edit \ done : e <= f

EditItem(e) ==
    /\ NextEdit(e) /\ mem.kind = "live" /\ MayEdit
    /\ mem' = Dirtied("live", mem.content \cup {e})
    /\ counter' = counter + 1
    /\ done' = done \cup {e} /\ owed' = owed \cup {e}
    /\ UNCHANGED <<copies, presaved, durableVars, op, req, serverVars, saved, uploaded, deleted, mishaps>>

DeleteItem(e) ==
    /\ NextEdit(e) /\ mem.kind = "live" /\ MayEdit /\ MayDelete /\ deleted < Deletions
    /\ mem' = Dirtied("deleted", {})
    /\ counter' = counter + 1
    /\ deleted' = deleted + 1 /\ done' = done \cup {e} /\ owed' = owed \ mem.content
    /\ UNCHANGED <<copies, presaved, durableVars, op, req, serverVars, saved, uploaded, mishaps>>

-----------------------------------------------------------------------------
(* prepareForSync                                                          *)

\* Items whose deletion never has to reach the server are only removed here.
NeverSyncedDeleted == mem.dirty /\ mem.kind = "deleted" /\ mem.ts = 0

\* The dirty items are read and the index frozen.
Prepare ==
    /\ op.step = "idle" /\ ~req.sent
    /\ op' = [Idle EXCEPT !.step = "presaving", !.item = mem, !.frozen = counter,
                          !.want = mem.dirty /\ ~NeverSyncedDeleted, !.doomed = NeverSyncedDeleted]
    /\ UNCHANGED <<clientVars, durableVars, req, serverVars, history, mishaps>>

\* popPayloadsNeedingPreSyncSave
NeedsSaving == op.want /\ (op.item.dirtyIndex = 0 \/ op.item.dirtyIndex > presaved)

PresaveWith(watermark) ==
    /\ op.step = "presaving"
    /\ disk' = IF NeedsSaving THEN [op.item EXCEPT !.dirtyIndex = 0, !.lastSync = 0] ELSE disk
    /\ presaved' = watermark
    /\ saved' = IF op.want THEN saved \cup (op.item.content \cap Edit) ELSE saved
    /\ op' = [op EXCEPT !.step = "ready"]
    /\ UNCHANGED <<mem, copies, counter, diskCopies, token, req, serverVars, done, owed, uploaded, deleted, mishaps>>

PresaveUpToNow == PresaveWith(counter)  \* mutant: the watermark is the index of now

\* The write commits; the watermark advances to the frozen index, and onPresyncSave.
Presave == PresaveWith(op.frozen)

PresaveFails ==
    /\ op.step = "presaving" /\ NeedsSaving /\ Mishap
    /\ op' = Idle
    /\ UNCHANGED <<clientVars, durableVars, req, serverVars, history>>

\* setLastSyncBeganForItems and the request: of the item as it is by now.  A request over
\* the socket has an outbox record; one over HTTP has none.
Send(recorded) ==
    /\ op.step = "ready"
    /\ LET uploads == op.want /\ mem.kind # "none" IN
       /\ mem' = IF uploads THEN [mem EXCEPT !.lastSync = op.frozen] ELSE mem
       /\ req' = [NoRequest EXCEPT !.sent = TRUE, !.recorded = recorded, !.token = token,
                      !.upload = IF uploads THEN Row(mem.kind, mem.content, mem.ts) ELSE NoRow]
    /\ op' = [op EXCEPT !.step = "sent", !.item = Gone]
    /\ UNCHANGED <<copies, counter, presaved, durableVars, serverVars, history, mishaps>>

RecoverUnanswered ==  \* mutant: an answer that was seen is not recovered again
    /\ op.step = "idle" /\ req.sent /\ ~req.answered
    /\ op' = [Idle EXCEPT !.step = "sent"]
    /\ UNCHANGED <<clientVars, durableVars, req, serverVars, history, mishaps>>

\* recoverPending: an earlier command's answer first, before the dirty set is read.
Recover ==
    /\ op.step = "idle" /\ req.sent
    /\ op' = [Idle EXCEPT !.step = "sent"]
    /\ UNCHANGED <<clientVars, durableVars, req, serverVars, history, mishaps>>

-----------------------------------------------------------------------------
(* The server and the other devices                                        *)

Accepts(u) == u.kind # "none" /\ u.ts = server.ts
Retrieved(t) == IF server.ts > t THEN server ELSE NoRow

\* SyncItems: the save under optimistic concurrency control, and the answer.  The device's
\* own write is skipped by its next retrieval unless its session was not recorded (echo).
Execute(echo) ==
    /\ req.sent /\ ~req.answered
    /\ IF Accepts(req.upload)
       THEN /\ server' = Row(req.upload.kind, req.upload.content, server.ts + 1)
            /\ uploaded' = uploaded \cup req.upload.content
            /\ req' = [req EXCEPT !.answered = TRUE,
                           !.answer = Answer(server'.ts, NoRow, Retrieved(req.token),
                                             IF echo THEN server.ts ELSE server'.ts)]
       ELSE /\ req' = [req EXCEPT !.answered = TRUE,
                           !.answer = IF req.upload.kind # "none"
                                      THEN Answer(0, server, NoRow, server.ts)
                                      ELSE Answer(0, NoRow, Retrieved(req.token), server.ts)]
            /\ UNCHANGED <<server, uploaded>>
    /\ UNCHANGED <<clientVars, durableVars, op, push, late, done, owed, saved, deleted, mishaps>>

\* The save fails: the item is neither saved nor a conflict.
ExecuteRefusing ==
    /\ req.sent /\ ~req.answered /\ req.upload.kind # "none" /\ Mishap
    /\ req' = [req EXCEPT !.answered = TRUE,
                   !.answer = Answer(0, NoRow, Retrieved(req.token), server.ts)]
    /\ UNCHANGED <<clientVars, durableVars, op, serverVars, history>>

\* A request the device gave up on is executed after all.
ExecuteLate(u) ==
    /\ u \in late /\ late' = late \ {u}
    /\ IF Accepts(u)
       THEN /\ server' = Row(u.kind, u.content, server.ts + 1)
            /\ uploaded' = uploaded \cup u.content
       ELSE UNCHANGED <<server, uploaded>>
    /\ UNCHANGED <<clientVars, durableVars, op, req, push, done, owed, saved, deleted, mishaps>>

\* Another device saves on top of the row, and the server pushes the row.
PeerSaves(p) ==
    /\ p \in PeerWrite \ done /\ server.kind = "live"
    /\ server' = Row("live", server.content \cup {p}, server.ts + 1)
    /\ push' = server'
    /\ done' = done \cup {p} /\ owed' = owed \cup {p} /\ uploaded' = uploaded \cup {p}
    /\ UNCHANGED <<clientVars, durableVars, op, req, late, saved, deleted, mishaps>>

PeerDeletes(p) ==
    /\ p \in PeerWrite \ done /\ server.kind = "live" /\ deleted < Deletions
    /\ server' = Row("deleted", {}, server.ts + 1)
    /\ push' = server'
    /\ done' = done \cup {p} /\ owed' = owed \ server.content /\ deleted' = deleted + 1
    /\ UNCHANGED <<clientVars, durableVars, op, req, late, saved, uploaded, mishaps>>

-----------------------------------------------------------------------------
(* The deltas: an answer resolved against a base payload.  A resolution is  *)
(* the payload to emit and the contents to duplicate as conflict copies.    *)

Emits(p, dups) == [payload |-> p, dups |-> dups]

\* isStaleSelfEchoOfBase
IsStaleSelfEcho(row, b) == row.ts # 0 /\ row.ts <= b.ts

StillDirtyNever(b) == FALSE  \* mutant: what was sent is taken for what is there

\* payloadByFinalizingSyncState: edited since the index frozen for the last sync?  Both
\* indices must be defined, and 0 is not.
StillDirty(b) == b.dirtyIndex # 0 /\ b.lastSync # 0 /\ b.dirtyIndex > b.lastSync

Finalize(p, b) == [p EXCEPT !.dirty = StillDirty(b),
                            !.dirtyIndex = IF StillDirty(b) THEN counter + 1 ELSE 0]

KeepBase(b, row) == Emits([b EXCEPT !.ts = row.ts, !.dirty = TRUE, !.dirtyIndex = counter + 1], {})
KeepApply(row) == Emits(Received(row), {})
KeepBaseDuplicateApply(b, row) == [KeepBase(b, row) EXCEPT !.dups = {row.content}]
DuplicateBaseKeepApply(b, row) == Emits(Received(row), {b.content})

AlwaysKeepApply(b, duplicates, row) == {KeepApply(row)}  \* mutant: the server's version wins

\* getConflictStrategy and strategyWhenConflictingWithItem.  The newest history revision
\* may be the incoming content only if the base is built on it; whether it is, and
\* whether the user edited in the last twenty seconds, is left open.
Strategies(b, duplicates, row) ==
    IF b.kind # "live" THEN {KeepApply(row)}
    ELSE IF row.kind # "live" THEN {IF b.dirty THEN DuplicateBaseKeepApply(b, row) ELSE KeepApply(row)}
    ELSE IF row.content \in duplicates THEN {KeepBase(b, row)}
    ELSE IF row.content = b.content THEN {KeepApply(row)}
    ELSE {KeepBaseDuplicateApply(b, row), DuplicateBaseKeepApply(b, row)}
         \cup (IF row.content \subseteq b.content THEN {KeepBase(b, row)} ELSE {})

Nothing == Emits(NoRow, {})

\* DeltaRemoteRetrieved
RetrievedEmits(b, duplicates, row, saving) ==
    IF row.kind = "none" THEN {Nothing}
    ELSE IF saving THEN IF b.kind = "none" THEN {Nothing} ELSE Strategies(b, duplicates, row)
    ELSE IF b.dirty
         THEN IF IsStaleSelfEcho(row, b) THEN {Nothing} ELSE Strategies(b, duplicates, row)
    ELSE {Emits(Finalize(Received(row), b), {})}

\* DeltaRemoteSaved: a saved deletion is final; a deletion made meanwhile stays to be sent.
SavedEmits(b, savedAt, savedKind) ==
    IF savedAt = 0 THEN {Nothing}
    ELSE IF b.kind = "none" THEN {Emits(Gone, {})}
    ELSE IF b.kind = "deleted"
         THEN {Emits(IF savedKind = "deleted" THEN Gone
                     ELSE Payload("deleted", {}, TRUE, counter + 1, 0, savedAt), {})}
    ELSE {Emits(Finalize([b EXCEPT !.ts = savedAt], b), {})}

\* DeltaRemoteDataConflicts
ConflictEmits(b, duplicates, row) ==
    IF row.kind = "none" THEN {Nothing}
    ELSE IF b.kind = "none" THEN {Emits(Received(row), {})}
    ELSE Strategies(b, duplicates, row)

\* ServerSyncResponseResolver: retrieved, saved, conflicts, emitted in this order.
Resolved(p, emits) == IF emits = Nothing THEN p ELSE Kept(emits.payload)

Resolutions(b, duplicates, a, saving, savedKind, now) ==
    {[payload |-> Resolved(Resolved(Resolved(now, r), s), c), dups |-> r.dups \cup c.dups,
      emitted |-> {r, s, c} # {Nothing}] :
        r \in RetrievedEmits(b, duplicates, a.got, saving),
        s \in SavedEmits(b, a.saved, savedKind),
        c \in ConflictEmits(b, duplicates, a.conflict)}

-----------------------------------------------------------------------------
(* handleSuccessServerResponse                                             *)

\* The snapshot is taken; notifications and decryption are awaited after it.
Snapshot ==
    /\ op.step = "sent" /\ req.answered
    /\ op' = [op EXCEPT !.step = "answered", !.answer = req.answer,
                        !.saving = req.upload.kind # "none",
                        !.base = mem, !.baseCopies = copies]
    /\ UNCHANGED <<clientVars, durableVars, req, serverVars, history, mishaps>>

\* emitDeltasAndPersist: the result replaces the payload, whatever it is by now.
Emitting(base, duplicates) ==
    \E r \in Resolutions(base, duplicates, op.answer, op.saving, req.upload.kind, mem) :
        /\ mem' = r.payload
        /\ copies' = copies \cup r.dups
        /\ counter' = IF r.payload.dirtyIndex = counter + 1 THEN counter + 1 ELSE counter
        /\ op' = [op EXCEPT !.step = "emitted", !.base = Gone, !.baseCopies = {}, !.item = Gone,
                            !.before = mem, !.after = r.payload, !.made = r.dups \ copies,
                            !.saving = r.emitted]
        /\ UNCHANGED <<presaved, durableVars, req, serverVars, history, mishaps>>

Emit == op.step = "answered" /\ Emitting(op.base, op.baseCopies)

\* handleItemsPushedOverWebSocket: only when caught up to just before the push, and with
\* the lock held; the snapshot is taken after the decryption.
AcceptPush ==
    /\ push.kind # "none" /\ op.step = "idle" /\ token = push.ts - 1 /\ MayForget
    /\ op' = [Idle EXCEPT !.step = "pushed", !.pushed = TRUE,
                          !.answer = Answer(0, NoRow, push, push.ts)]
    /\ push' = NoRow
    /\ UNCHANGED <<clientVars, durableVars, req, server, late, history, mishaps>>

EmitPushed == op.step = "pushed" /\ Emitting(mem, copies)

\* The applied payloads, and not what memory holds by now, are written.
Persist ==
    /\ op.step = "emitted"
    /\ IF op.saving
       THEN /\ disk' = [op.after EXCEPT !.dirtyIndex = 0, !.lastSync = 0]
            /\ diskCopies' = diskCopies \cup op.made
       ELSE UNCHANGED <<disk, diskCopies>>
    /\ op' = [op EXCEPT !.step = "stored", !.before = Gone, !.after = Gone, !.made = {}, !.saving = FALSE]
    /\ UNCHANGED <<clientVars, token, req, serverVars, history, mishaps>>

\* The round is over; a request without a record is forgotten with it.
Ended == op' = Idle /\ req' = IF req.recorded \/ op.pushed THEN req ELSE NoRequest

\* restorePayloadsAfterFailedPersistence: only what is still what was applied.
IsStillApplied(current) == current = op.after

PersistFails ==
    /\ op.step = "emitted" /\ op.saving /\ MayFailToPersist /\ Mishap
    /\ mem' = IF IsStillApplied(mem) THEN op.before ELSE mem
    /\ copies' = copies \ op.made
    /\ Ended
    /\ UNCHANGED <<counter, presaved, durableVars, serverVars, history>>

NoteTokenFirst ==  \* mutant: the token advances before the items are stored
    /\ op.step = "emitted" /\ token # op.answer.token
    /\ token' = op.answer.token
    /\ UNCHANGED <<clientVars, disk, diskCopies, op, req, serverVars, history, mishaps>>

\* setSyncTokens
NoteToken ==
    /\ op.step = "stored"
    /\ token' = op.answer.token
    /\ op' = [op EXCEPT !.step = "noted"]
    /\ UNCHANGED <<clientVars, disk, diskCopies, req, serverVars, history, mishaps>>

NoteTokenFails ==
    /\ op.step = "stored" /\ Mishap /\ Ended
    /\ UNCHANGED <<clientVars, durableVars, serverVars, history>>

\* markCheckpointDurable; then handleSyncOperationFinish removes what was deleted unsynced.
Finish ==
    /\ op.step = "noted"
    /\ req' = IF op.pushed THEN req ELSE NoRequest
    /\ mem' = IF op.doomed THEN Gone ELSE mem
    /\ disk' = IF op.doomed THEN Gone ELSE disk
    /\ op' = Idle
    /\ UNCHANGED <<copies, counter, presaved, diskCopies, token, serverVars, history, mishaps>>

\* The record is not removed: the next round recovers the same answer again.
FinishUnacknowledged ==
    /\ op.step = "noted" /\ req.recorded /\ ~op.pushed /\ Mishap
    /\ op' = Idle
    /\ UNCHANGED <<clientVars, durableVars, req, serverVars, history>>

-----------------------------------------------------------------------------
(* Failures                                                                *)

Abandoned == IF req.sent /\ ~req.recorded /\ ~req.answered /\ req.upload.kind # "none"
             THEN late \cup {req.upload} ELSE late

\* No answer: what has a record is recovered by the next round.
RequestFails ==
    /\ op.step = "sent" /\ Mishap /\ Ended
    /\ late' = IF req.recorded THEN late ELSE Abandoned
    /\ UNCHANGED <<clientVars, durableVars, server, push, history>>

\* The transport learns that the recorded command never applied.
NeverApplied ==
    /\ op.step = "sent" /\ req.recorded /\ ~req.answered /\ Mishap
    /\ op' = Idle /\ req' = NoRequest
    /\ UNCHANGED <<clientVars, durableVars, serverVars, history>>

\* loadDatabasePayloads: what was only in memory is gone, and the indices with it.
Reload ==
    /\ MayForget /\ Mishap
    /\ mem' = disk /\ copies' = diskCopies /\ counter' = 0 /\ presaved' = -1
    /\ op' = Idle
    /\ late' = Abandoned
    /\ req' = IF req.recorded THEN req ELSE NoRequest
    /\ owed' = owed \cap (saved \cup uploaded)
    /\ UNCHANGED <<durableVars, server, push, done, saved, uploaded, deleted>>

-----------------------------------------------------------------------------
Emission == Emit \/ EmitPushed
Sync == Prepare \/ Presave \/ (\E recorded \in BOOLEAN : Send(recorded)) \/ Recover
        \/ Snapshot \/ Emission \/ Persist \/ NoteToken \/ Finish
Serve == \E echo \in BOOLEAN : Execute(echo)
User == \E e \in Edit : EditItem(e) \/ DeleteItem(e)
Peers == \E p \in PeerWrite : PeerSaves(p) \/ PeerDeletes(p)
Faults == PresaveFails \/ ExecuteRefusing \/ PersistFails \/ NoteTokenFails \/ FinishUnacknowledged
          \/ RequestFails \/ NeverApplied \/ Reload

Next == Sync \/ Serve \/ User \/ Peers \/ Faults \/ AcceptPush \/ \E u \in late : ExecuteLate(u)

Spec == Init /\ [][Next]_vars

\* A round goes on until it ends, an idle device starts the next (autoSync, the failure
\* backoff), and the server executes what reaches it.
FairSpec == Spec /\ WF_vars(Sync) /\ WF_vars(Serve)

-----------------------------------------------------------------------------
Kinds == {"none", "live", "deleted"}
Content == SUBSET Write
IsPayload(p) == p.kind \in Kinds /\ p.content \in Content /\ p.dirty \in BOOLEAN
                /\ {p.dirtyIndex, p.lastSync, p.ts} \subseteq Nat
IsRow(r) == r.kind \in Kinds /\ r.content \in Content /\ r.ts \in Nat

\* The shape of the state; and a payload without content is never anything but a deletion.
TypeOK ==
    /\ \A p \in {mem, disk, op.item, op.base, op.before, op.after} : IsPayload(p)
    /\ \A r \in {server, push, req.upload, req.answer.got, req.answer.conflict} \cup late : IsRow(r)
    /\ copies \subseteq Content /\ diskCopies \subseteq Content
    /\ {counter, token} \subseteq Nat /\ presaved \in Nat \cup {-1}
    /\ owed \subseteq done /\ done \subseteq Write /\ saved \subseteq Edit
    /\ \A p \in {mem, disk} : p.kind # "live" => p.content = {}

\* No write is lost: whatever the user typed here since the last reload, or had saved
\* before it, and whatever other devices wrote, is in the item, in a conflict copy or in
\* the server's row, unless somebody who saw it deleted the item.
NothingLost == owed \subseteq mem.content \cup (UNION copies) \cup server.content

\* An item is shown as synced only if all of it has reached the server: the dirty flag is
\* never cleared for an edit that was not part of what was sent.
CleanMeansUploaded ==
    \A p \in {mem, disk} : p.kind = "live" /\ ~p.dirty => p.content \subseteq uploaded

\* SyncService.ts:1662-1663: "an item dirtied at any point after this date is marked as
\* needing another sync": what the user wrote is still to be uploaded until it has been.
DirtiedLaterSyncsAgain ==
    \A e \in (Edit \cap owed) \ uploaded : e \in UNION copies \/ (mem.dirty /\ e \in mem.content)

\* An edit whose pre-sync save was acknowledged is on disk until the server has it.
SavedSurvivesReload ==
    saved \cap owed \subseteq disk.content \cup (UNION diskCopies) \cup server.content

\* The persisted token never skips a row that the local database does not hold; the
\* answer of a command whose record remains will be applied once more, token and all.
TokenHonest ==
    /\ ~(req.recorded /\ req.answered) /\ token >= server.ts
    /\ server.kind = "live" /\ disk.kind = "live"
    => server.content \subseteq disk.content \cup UNION diskCopies

\* When the edits and the mishaps are over, the device and the server agree.
InSync ==
    /\ ~mem.dirty
    /\ mem.kind = "live" \/ server.kind = "live" => mem.content = server.content /\ mem.kind = server.kind
Converges == <>[]InSync
==============================================================================
