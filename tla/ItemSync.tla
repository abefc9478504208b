------------------------------- MODULE ItemSync -------------------------------
(***************************************************************************)
(* One account's items on the syncing server and the devices that sync     *)
(* them: each request reads one page of changes (GetItems), saves what the *)
(* device sends under optimistic concurrency control (SaveItems), and is   *)
(* answered with a token that claims what the device has been shown        *)
(* (SyncItems.responseSyncToken); the device persists the items and then   *)
(* the token (handleSuccessServerResponse).                                *)
(*                                                                         *)
(* An item's content is abstracted to the stamp (updated_at_timestamp) of  *)
(* its version: a version is exactly what one save wrote.  Every reading   *)
(* of the server's microsecond timer is a later one.                       *)
(***************************************************************************)
EXTENDS Integers, FiniteSets, FiniteSetsExt

CONSTANTS
    Item,      \* item uuids, as numbers: a keyset cursor orders by them
    Existing,  \* the items the server holds at first; the rest are created
    Device,    \* devices, or tabs, of the account: one request at a time each
    Session,   \* sessions: one of each browser, whose tabs share it
    Synced,    \* devices that have synced before and are up to date at first
    Limit,     \* items per page
    Deployments, \* [closed, sessions]: the windows closed (MayRun) and who shares a session
    MaxSaves,  \* bound: how many items one request saves
    MaxClock,  \* bound: the last timer reading
    NoSession  \* no own-write skip

ASSUME ItemSyncAssumption ==
    /\ Item # {} /\ Item \subseteq 1 .. MaxClock /\ Existing \subseteq Item
    /\ Synced \subseteq Device /\ NoSession \notin Session
    /\ Limit \in Nat \ {0} /\ MaxSaves \in Nat /\ MaxClock \in Nat
    /\ Deployments \subseteq [closed : SUBSET {"save", "page"}, sessions : [Device -> Session]]

VARIABLES
    deployment, \* the one the account is on
    rows,   \* committed: [stamp, session] of each item, stamp 0 if there is none; and,
            \* for the properties, by: the device or tab that wrote it, if one did
    clock,  \* the last timer reading
    staged, \* the writes of each device's open transaction: [item, stamp]
    call,   \* the request each device has in progress, see Idle
    shown,  \* persisted on the device: the stamp of each item it holds
    token,  \* persisted on the device: the sync token it presents next
    cursor  \* persisted on the device: the cursor it presents next, see Start

vars == <<deployment, rows, clock, staged, call, shown, token, cursor>>
deviceVars == <<shown, token, cursor>>

SessionOf(d) == deployment.sessions[d]

Start == [stamp |-> 0, item |-> 0]  \* before every row: no cursor
NoToken == [position |-> 0, session |-> NoSession, ceiling |-> 0]

\* A request: its retrieval horizon and page, the rows fetched for it and whether more
\* remain; the items still to save, the one being saved and the stamp drawn for it;
\* when saving began, and what was saved and what conflicted.
Idle == [step |-> "idle", horizon |-> 0, page |-> {}, got |-> {}, more |-> FALSE,
         todo |-> {}, item |-> 0, stamp |-> 0, started |-> 0, saved |-> {}, conflicts |-> {}]

Steps == {"idle", "reading", "fetching", "saving", "writing", "replying", "applied"}
Version == [item : Item, stamp : 0 .. MaxClock]

Init ==
    /\ deployment \in Deployments
    /\ rows = [i \in Item |-> [stamp |-> IF i \in Existing THEN i ELSE 0, session |-> NoSession, by |-> {}]]
    /\ clock = Max(Item)
    /\ staged = [d \in Device |-> {}]
    /\ call = [d \in Device |-> Idle]
    /\ shown = [d \in Device |-> [i \in Item |-> IF d \in Synced THEN rows[i].stamp ELSE 0]]
    /\ token = [d \in Device |-> IF d \in Synced THEN [NoToken EXCEPT !.position = clock] ELSE NoToken]
    /\ cursor = [d \in Device |-> Start]

-----------------------------------------------------------------------------
(* What the deployment serialises.  "save" and "page" close the windows     *)
(* between drawing a stamp and committing it, and between the two reads of  *)
(* a page.  SQLite, whose transactions run one at a time, closes both for   *)
(* sync commands; MariaDB closes neither.                                   *)

InWindow(o) ==
    \/ "save" \in deployment.closed /\ (call[o].step = "writing" \/ staged[o] # {})
    \/ "page" \in deployment.closed /\ call[o].step = "fetching"

MayRun(d) == \A o \in Device \ {d} : ~InWindow(o)

-----------------------------------------------------------------------------
(* GetItems                                                                *)

\* The keyset order of (updated_at_timestamp, uuid).
Beyond(v, p) == v.stamp > p.stamp \/ (v.stamp = p.stamp /\ v.item > p.item)
At(i) == [item |-> i, stamp |-> rows[i].stamp]

\* The rows a request asks for: those past its cursor if it has one, else those past
\* its token's position but for the session's own writes up to the token's ceiling.
Matches(d, i) ==
    /\ rows[i].stamp > 0
    /\ IF cursor[d] # Start
       THEN Beyond(At(i), cursor[d])
       ELSE /\ rows[i].stamp > token[d].position
            /\ ~(rows[i].session = token[d].session /\ rows[i].stamp <= token[d].ceiling)

Matching(d) == {i \in Item : Matches(d, i)}

PageOfNewest(d) ==  \* mutant: ordered by the newest first
    {i \in Matching(d) : Cardinality({j \in Matching(d) : ~Beyond(At(i), At(j))}) <= Limit}

\* The first Limit rows in order.
Page(d) == {i \in Matching(d) : Cardinality({j \in Matching(d) : ~Beyond(At(j), At(i))}) <= Limit}

\* The request arrives; the retrieval horizon is read before any row.  A device saves
\* what it has changed, on top of the versions it holds.
Request(d, todo) ==
    /\ MayRun(d) /\ call[d].step = "idle" /\ clock < MaxClock
    /\ Cardinality(todo) <= MaxSaves
    /\ clock' = clock + 1
    /\ call' = [call EXCEPT ![d] = [Idle EXCEPT !.step = "reading", !.horizon = clock', !.todo = todo]]
    /\ UNCHANGED <<deployment, rows, staged, deviceVars>>

\* findContentSizeForComputingTransferLimit: which rows make up the page.
ReadDescriptors(d) ==
    /\ MayRun(d) /\ call[d].step = "reading"
    /\ call' = [call EXCEPT ![d].step = "fetching", ![d].page = Page(d)]
    /\ UNCHANGED <<deployment, rows, clock, staged, deviceVars>>

\* findAll by uuid and countAll: the rows as they are by now.  SaveItems begins.
FetchPage(d) ==
    /\ MayRun(d) /\ call[d].step = "fetching"
    /\ call' = [call EXCEPT ![d].step = "saving",
                            ![d].got = {At(i) : i \in call[d].page},
                            ![d].more = Cardinality(Matching(d)) > Limit,
                            ![d].started = clock]
    /\ UNCHANGED <<deployment, rows, clock, staged, deviceVars>>

-----------------------------------------------------------------------------
(* SaveItems                                                               *)

\* The save of one item ends; a refused one is answered with the server's version.
Saved(d, v) == [call[d] EXCEPT !.step = "saving", !.item = 0, !.stamp = 0,
                               !.todo = @ \ {v.item}, !.saved = @ \cup {v}]
Conflicting(d, i) == [call[d] EXCEPT !.step = "saving", !.item = 0, !.stamp = 0,
                                     !.todo = @ \ {i}, !.conflicts = @ \cup {At(i)}]

\* The row is read and the client's stamp compared with it (TimeDifferenceFilter) ...
Refuse(d, i) ==
    /\ MayRun(d) /\ call[d].step = "saving" /\ i \in call[d].todo
    /\ rows[i].stamp # shown[d][i]
    /\ call' = [call EXCEPT ![d] = Conflicting(d, i)]
    /\ UNCHANGED <<deployment, rows, clock, staged, deviceVars>>

\* ... and the new version is stamped, later than the one that was read.
Stamp(d, i) ==
    /\ MayRun(d) /\ call[d].step = "saving" /\ i \in call[d].todo
    /\ rows[i].stamp = shown[d][i] /\ clock < MaxClock
    /\ clock' = clock + 1
    /\ call' = [call EXCEPT ![d].step = "writing", ![d].item = i,
                            ![d].stamp = Max({clock', rows[i].stamp + 1})]
    /\ UNCHANGED <<deployment, rows, staged, deviceVars>>

\* UPDATE ... WHERE updated_at_timestamp = <the stamp that was read> (or INSERT): it
\* waits for the row lock of another transaction, then matches the row or nothing.
RowFree(d, i) == \A o \in Device \ {d} : \A v \in staged[o] : v.item # i

WriteUnconditionally(d) ==  \* mutant: UPDATE ... WHERE uuid = ? alone
    LET i == call[d].item
        v == [item |-> i, stamp |-> call[d].stamp]
    IN  /\ MayRun(d) /\ call[d].step = "writing" /\ RowFree(d, i)
        /\ staged' = [staged EXCEPT ![d] = @ \cup {v}]
        /\ call' = [call EXCEPT ![d] = Saved(d, v)]
        /\ UNCHANGED <<deployment, rows, clock, deviceVars>>

Write(d) ==
    LET i == call[d].item
        v == [item |-> i, stamp |-> call[d].stamp]
    IN  /\ MayRun(d) /\ call[d].step = "writing" /\ RowFree(d, i)
        /\ rows[i].stamp = shown[d][i]
        /\ staged' = [staged EXCEPT ![d] = @ \cup {v}]
        /\ call' = [call EXCEPT ![d] = Saved(d, v)]
        /\ UNCHANGED <<deployment, rows, clock, deviceVars>>

\* ConcurrentItemUpdateError
WriteConflict(d) ==
    LET i == call[d].item IN
    /\ MayRun(d) /\ call[d].step = "writing" /\ RowFree(d, i)
    /\ shown[d][i] # 0 /\ rows[i].stamp # shown[d][i]
    /\ call' = [call EXCEPT ![d] = Conflicting(d, i)]
    /\ UNCHANGED <<deployment, rows, clock, staged, deviceVars>>

\* The statement fails, as the INSERT of an item another device has created meanwhile
\* does: the item is neither saved nor a conflict, and the rest of the batch goes on.
WriteFailed(d) ==
    /\ MayRun(d) /\ call[d].step = "writing"
    /\ call' = [call EXCEPT ![d].step = "saving", ![d].item = 0, ![d].stamp = 0,
                            ![d].todo = @ \ {call[d].item}]
    /\ UNCHANGED <<deployment, rows, clock, staged, deviceVars>>

\* The transaction commits: its rows become visible, with the stamps drawn before.
Commit(d) ==
    /\ MayRun(d) /\ call[d].step = "saving" /\ call[d].todo = {}
    /\ rows' = [i \in Item |->
                  IF \E v \in staged[d] : v.item = i
                  THEN [stamp |-> (CHOOSE v \in staged[d] : v.item = i).stamp,
                        session |-> SessionOf(d), by |-> {d}]
                  ELSE rows[i]]
    /\ staged' = [staged EXCEPT ![d] = {}]
    /\ call' = [call EXCEPT ![d].step = "replying"]
    /\ UNCHANGED <<deployment, clock, deviceVars>>

\* The transaction is rolled back, or the answer is lost: the device will ask again.
Fail(d) ==
    /\ call[d].step \notin {"idle", "applied"}
    /\ staged' = [staged EXCEPT ![d] = {}]
    /\ call' = [call EXCEPT ![d] = Idle]
    /\ UNCHANGED <<deployment, rows, clock, deviceVars>>

-----------------------------------------------------------------------------
(* SyncItems and the device                                                *)

\* SaveItems.calculateSyncToken
SaveTokenPosition(d) ==
    1 + IF call[d].saved = {} THEN call[d].started ELSE Max({v.stamp : v \in call[d].saved})

UnclampedToken(d) ==  \* mutant: the position is the save token's
    [position |-> SaveTokenPosition(d), session |-> NoSession, ceiling |-> 0]

UnboundedSkip(d) ==  \* mutant: the own-write skip has no ceiling
    LET position == Min({SaveTokenPosition(d), call[d].horizon})
        skip == position < SaveTokenPosition(d) /\ call[d].saved # {}
    IN  [position |-> position,
         session |-> IF skip THEN SessionOf(d) ELSE NoSession,
         ceiling |-> IF skip THEN MaxClock ELSE 0]

\* The position is clamped to the retrieval horizon, and the next retrieval may skip the
\* session's own writes up to the save position.
ResponseToken(d) ==
    LET position == Min({SaveTokenPosition(d), call[d].horizon})
        skip == position < SaveTokenPosition(d) /\ call[d].saved # {}
    IN  [position |-> position,
         session |-> IF skip THEN SessionOf(d) ELSE NoSession,
         ceiling |-> IF skip THEN SaveTokenPosition(d) ELSE 0]

\* The last row fetched, if more remain.
ResponseCursor(d) ==
    LET got == call[d].got IN
    IF call[d].more /\ got # {}
    THEN CHOOSE v \in got : \A w \in got : ~Beyond(w, v)
    ELSE Start

\* The device persists what it was shown and what it saved ...
Apply(d) ==
    LET news == call[d].got \cup call[d].saved \cup call[d].conflicts IN
    /\ call[d].step = "replying"
    /\ shown' = [shown EXCEPT ![d] =
                   [i \in Item |-> Max({shown[d][i]} \cup {v.stamp : v \in {v \in news : v.item = i}})]]
    /\ call' = [call EXCEPT ![d].step = "applied"]
    /\ UNCHANGED <<deployment, rows, clock, staged, token, cursor>>

\* ... and then the token and the cursor, as one record; or it dies before.
Checkpoint(d) ==
    /\ call[d].step = "applied"
    /\ token' = [token EXCEPT ![d] = ResponseToken(d)]
    /\ cursor' = [cursor EXCEPT ![d] = ResponseCursor(d)]
    /\ call' = [call EXCEPT ![d] = Idle]
    /\ UNCHANGED <<deployment, rows, clock, staged, shown>>

DeviceDies(d) ==
    /\ call[d].step = "applied"
    /\ call' = [call EXCEPT ![d] = Idle]
    /\ UNCHANGED <<deployment, rows, clock, staged, deviceVars>>

-----------------------------------------------------------------------------
\* SaveItems.executeUnfenced: the items one after the other.
SaveNextItem(d) ==
    \/ \E i \in Item : Refuse(d, i) \/ Stamp(d, i)
    \/ Write(d) \/ WriteConflict(d) \/ WriteFailed(d)

\* SyncItems.execute: the retrieval, then the saves, then the answer.
Serve(d) == ReadDescriptors(d) \/ FetchPage(d) \/ SaveNextItem(d) \/ Commit(d) \/ Fail(d)

Next ==
    \E d \in Device :
        \/ \E todo \in SUBSET Item : Request(d, todo)
        \/ Serve(d)
        \/ Apply(d) \/ Checkpoint(d) \/ DeviceDies(d)

Spec == Init /\ [][Next]_vars

-----------------------------------------------------------------------------
(* Properties                                                              *)

\* The variables have their types: no position is past the last timer reading, to which
\* responseSyncToken clamps it.
TypeOK ==
    /\ deployment \in Deployments
    /\ rows \in [Item -> [stamp : 0 .. MaxClock, session : Session \cup {NoSession}, by : SUBSET Device]]
    /\ clock \in 0 .. MaxClock
    /\ \A d \in Device :
         /\ staged[d] \subseteq Version
         /\ call[d].step \in Steps /\ call[d].page \subseteq Item /\ call[d].todo \subseteq Item
         /\ call[d].got \cup call[d].saved \cup call[d].conflicts \subseteq Version
         /\ shown[d] \in [Item -> 0 .. MaxClock]
         /\ token[d].position \in 0 .. MaxClock /\ token[d].ceiling \in 0 .. MaxClock + 1

HasBeenShown(d, i) == shown[d][i] >= rows[i].stamp

\* Another tab of the device's browser wrote the row: the same session, not the same copy.
FromPeerTab(d, i) == \E o \in rows[i].by \ {d} : SessionOf(o) = SessionOf(d)

\* The own-write skip withholds what "the response that issued this token already handed
\* ... back as savedItems" (SyncToken.ts:46-48).  Of what it withholds from a device, the
\* device lacks nothing it wrote itself, whichever answers were lost, and nothing of
\* another session: only what another tab of its browser saved, stamped after the
\* request's horizon and no later than the ceiling.
SkipHonest ==
    \A d \in Device, i \in Item :
        /\ cursor[d] = Start /\ token[d].session # NoSession
        /\ rows[i].session = token[d].session
        /\ rows[i].stamp > token[d].position /\ rows[i].stamp <= token[d].ceiling
        => HasBeenShown(d, i) \/ FromPeerTab(d, i)

\* A position is a promise (SyncToken.ts:7): the device "has been shown every row at or
\* below this microsecond", whatever other devices saved while its request ran.  A
\* device in the middle of a page chain is promised the rows up to its cursor.
PositionPromise ==
    \A d \in Device, i \in Item :
        cursor[d] = Start /\ rows[i].stamp <= token[d].position => HasBeenShown(d, i)

Serialised == deployment.closed = {"save", "page"}

\* The promise is kept where saves and pages are serialised, as on SQLite: the position
\* is clamped to what the request had read before it began to save.  What a skip has
\* withheld of another tab stays withheld, and is all that does.
PositionHonest ==
    Serialised => \A d \in Device, i \in Item :
        cursor[d] = Start /\ rows[i].stamp <= token[d].position => HasBeenShown(d, i) \/ FromPeerTab(d, i)

\* A cursor is one too: the page chain continues behind the last row the device was
\* shown and leaves no row of it out (GetItems.execute), but for those.
CursorHonest ==
    Serialised => \A d \in Device, i \in Item :
        cursor[d] # Start /\ rows[i].stamp > 0 /\ ~Beyond(At(i), cursor[d]) => HasBeenShown(d, i) \/ FromPeerTab(d, i)

\* No update is lost: a version is only ever replaced by a device that held it, however
\* reads, stamps and commits of different requests interleave.
NoLostUpdate ==
    [][\A i \in Item : rows'[i] # rows[i] =>
         \E d \in Device : call[d].step = "saving" /\ shown[d][i] = rows[i].stamp /\ staged[d] # staged'[d]]_vars
=============================================================================
