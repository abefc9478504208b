-------------------------- MODULE SyncCommandJournal --------------------------
(***************************************************************************)
(* The durable sync-command journal of the syncing server: a command is    *)
(* accepted in one transaction, then claimed, executed and stored in a     *)
(* second one (ExecuteSyncCommand), while other calls present the same     *)
(* command, status queries ask about it (GetSyncCommandStatus), retention  *)
(* drops old rows (CleanupSyncCommands), the database aborts transactions  *)
(* and processes crash.                                                    *)
(*                                                                         *)
(* `row` is what is committed in the table; an open transaction's claim is *)
(* the row lock `lock`, and its writes are the `buffer` of the executor    *)
(* that holds it.  Timestamps are abstracted to the age of a row, which is *)
(* all any predicate of the code compares them for.                        *)
(***************************************************************************)
EXTENDS Naturals, FiniteSets

CONSTANTS
    Command,      \* (user, session, command id): the key of a journal row
    Digest,       \* request digests presented for a command
    Executor,     \* callers of ExecuteSyncCommand.execute; one may call again
    CmdOf,        \* the command each executor presents
    DigestOf,     \* and the digest it presents with it
    Query,        \* callers of GetSyncCommandStatus.execute
    AskOf,        \* the command each query asks about
    AskDigests,   \* the digests it accepts (all of them if it names none)
    Part,         \* the row changes one command makes (items, outbox rows)
    MaxAttempts,  \* MAX_SYNC_COMMAND_EXECUTION_ATTEMPTS
    MaxRows,      \* bound: how many journal rows are ever inserted
    NoRow, Nobody \* no row under this key; no transaction holds the lock

Age == {"fresh", "aged", "expired"}
Row == [uuid : 1 .. MaxRows, digest : Digest, status : {"accepted", "committed"}, age : Age]

\* One execution that reached its commit: the row it claimed, by whom, which attempt.
Run == [cmd : Command, uuid : 1 .. MaxRows, by : Executor, attempt : 1 .. MaxAttempts]

ASSUME JournalAssumption ==
    /\ CmdOf \in [Executor -> Command] /\ DigestOf \in [Executor -> Digest]
    /\ AskOf \in [Query -> Command] /\ AskDigests \in [Query -> SUBSET Digest]
    /\ MaxAttempts \in Nat \ {0} /\ MaxRows \in Nat
    /\ Part # {}
    /\ Nobody \notin Executor
    /\ NoRow \notin Row

VARIABLES
    row,      \* the committed row of each command, or NoRow
    inserted, \* how many rows were ever inserted: the source of fresh uuids
    lock,     \* whose open transaction holds the row lock of a command
    pc,       \* where each executor is
    seen,     \* the row uuid the executor's attempt read
    attempt,  \* the executor's attempt number
    aborted,  \* the database rolled the open transaction back (`abortedBy`)
    left,     \* the parts the execution has still to write
    buffer,   \* the parts written by the open transaction
    qpc,      \* where each status query is
    qseen,    \* the row uuid the status query read
    durable,  \* history: committed writes, each [run, part]
    retired,  \* history: runs whose journal row retention has dropped
    denied    \* history: rows inserted when a command was last called unknown

execVars  == <<pc, seen, attempt, aborted, left, buffer>>
queryVars == <<qpc, qseen>>
history   == <<durable, retired, denied>>
vars == <<row, inserted, lock, execVars, queryVars, history>>

Init ==
    /\ row = [c \in Command |-> NoRow]
    /\ inserted = 0
    /\ lock = [c \in Command |-> Nobody]
    /\ pc = [e \in Executor |-> "idle"]
    /\ seen = [e \in Executor |-> 0]
    /\ attempt = [e \in Executor |-> 1]
    /\ aborted = [e \in Executor |-> FALSE]
    /\ left = [e \in Executor |-> {}]
    /\ buffer = [e \in Executor |-> {}]
    /\ qpc = [q \in Query |-> "idle"]
    /\ qseen = [q \in Query |-> 0]
    /\ durable = {}
    /\ retired = {}
    /\ denied = [c \in Command |-> 0]

-----------------------------------------------------------------------------
(* Predicates of the repository's statements                               *)

Has(c, status) == row[c] # NoRow /\ row[c].status = status

RunOf(e) == [cmd |-> CmdOf[e], uuid |-> seen[e], by |-> e, attempt |-> attempt[e]]

UnclaimedInAnyStatus(c) == row[c] # NoRow /\ lock[c] = Nobody \* mutant: no status check

\* WHERE status = 'accepted' AND execution_token IS NULL.  A claim is never
\* committed as such, so a claimed row is one whose lock is held, and the
\* statement waits behind that lock before it looks at the row.
Unclaimed(c) == Has(c, "accepted") /\ lock[c] = Nobody

ClaimByKey(e) == Unclaimed(CmdOf[e])  \* mutant: by command id instead of row uuid

\* UPDATE ... SET execution_token WHERE uuid = ? AND (unclaimed) affects its row.
ClaimAffects(e) == Unclaimed(CmdOf[e]) /\ row[CmdOf[e]].uuid = seen[e]

-----------------------------------------------------------------------------
(* ExecuteSyncCommand.execute                                              *)

\* The call is over, answered or failed: nothing of it is kept in memory.
Rest(e) ==
    /\ pc' = [pc EXCEPT ![e] = "idle"]
    /\ seen' = [seen EXCEPT ![e] = 0]
    /\ attempt' = [attempt EXCEPT ![e] = 1]
    /\ aborted' = [aborted EXCEPT ![e] = FALSE]
    /\ left' = [left EXCEPT ![e] = {}]
    /\ buffer' = [buffer EXCEPT ![e] = {}]

\* The open transaction of e, if any, is rolled back: its lock and writes are gone.
Rollback(e) ==
    /\ lock' = [c \in Command |-> IF lock[c] = e THEN Nobody ELSE lock[c]]
    /\ buffer' = [buffer EXCEPT ![e] = {}]

Goto(e, step) ==
    /\ pc' = [pc EXCEPT ![e] = step]
    /\ UNCHANGED <<attempt, aborted>>

\* The first transaction: insert or ignore, read back, compare the digests.  A
\* mismatch is answered with an error and changes nothing.
Accept(e) ==
    LET c == CmdOf[e] IN
    /\ pc[e] = "idle"
    /\ \/ /\ row[c] = NoRow /\ inserted < MaxRows
          /\ inserted' = inserted + 1
          /\ row' = [row EXCEPT ![c] = [uuid |-> inserted + 1, digest |-> DigestOf[e],
                                        status |-> "accepted", age |-> "fresh"]]
       \/ /\ row[c] # NoRow /\ row[c].digest = DigestOf[e]
          /\ UNCHANGED <<row, inserted>>
    /\ Goto(e, "accepted")
    /\ UNCHANGED <<lock, seen, left, buffer, queryVars, history>>

\* An attempt reads the row without locking it: it may have disappeared, ...
FindMissing(e) ==
    /\ pc[e] = "accepted" /\ row[CmdOf[e]] = NoRow
    /\ Goto(e, "failed")
    /\ UNCHANGED <<row, inserted, lock, seen, left, buffer, queryVars, history>>

\* ... be committed (its result is replayed) or stand under another digest, ...
FindAnswered(e) ==
    LET c == CmdOf[e] IN
    /\ pc[e] = "accepted" /\ row[c] # NoRow
    /\ row[c].digest # DigestOf[e] \/ row[c].status = "committed"
    /\ Rest(e)
    /\ UNCHANGED <<row, inserted, lock, queryVars, history>>

\* ... or be there to claim.
FindAccepted(e) ==
    LET c == CmdOf[e] IN
    /\ pc[e] = "accepted" /\ Has(c, "accepted") /\ row[c].digest = DigestOf[e]
    /\ seen' = [seen EXCEPT ![e] = row[c].uuid]
    /\ Goto(e, "found")
    /\ UNCHANGED <<row, inserted, lock, left, buffer, queryVars, history>>

\* claimAccepted: waits for the row lock, then matches the row it read or nothing.
Claim(e) ==
    /\ pc[e] = "found" /\ ClaimAffects(e)
    /\ lock' = [lock EXCEPT ![CmdOf[e]] = e]
    /\ left' = [left EXCEPT ![e] = Part]
    /\ Goto(e, "claimed")
    /\ UNCHANGED <<row, inserted, seen, buffer, queryVars, history>>

\* The row was committed, dropped or replaced meanwhile: a replay, or
\* 'sync_command_pending'; either way the call is answered as it stands.
ClaimRefused(e) ==
    /\ pc[e] = "found" /\ lock[CmdOf[e]] = Nobody /\ ~ClaimAffects(e)
    /\ Rest(e)
    /\ UNCHANGED <<row, inserted, lock, queryVars, history>>

RetryUncounted(e) ==  \* mutant: attempts are not counted
    /\ pc' = [pc EXCEPT ![e] = "accepted"]
    /\ aborted' = [aborted EXCEPT ![e] = FALSE]
    /\ seen' = [seen EXCEPT ![e] = 0]
    /\ left' = [left EXCEPT ![e] = {}]
    /\ Rollback(e)
    /\ UNCHANGED attempt

\* The database gave up on the transaction: start over, or fail after the last attempt.
RetryOrFail(e) ==
    /\ IF attempt[e] < MaxAttempts
       THEN /\ attempt' = [attempt EXCEPT ![e] = @ + 1]
            /\ pc' = [pc EXCEPT ![e] = "accepted"]
       ELSE /\ pc' = [pc EXCEPT ![e] = "failed"]
            /\ UNCHANGED attempt
    /\ aborted' = [aborted EXCEPT ![e] = FALSE]
    /\ seen' = [seen EXCEPT ![e] = 0]
    /\ left' = [left EXCEPT ![e] = {}]
    /\ Rollback(e)

\* A lock wait timeout or a deadlock while waiting for another caller's claim.
LockWaitTimeout(e) ==
    /\ pc[e] = "found" /\ lock[CmdOf[e]] # Nobody
    /\ RetryOrFail(e)
    /\ UNCHANGED <<row, inserted, queryVars, history>>

SendsUnguarded(e) == TRUE  \* mutant: the query runner is not guarded

\* guardedQuery: nothing is sent once a statement reported that the transaction is gone.
Sends(e) == ~aborted[e]

\* The row changes are made one after the other.
NextPart(e) == CHOOSE p \in left[e] : TRUE

\* dto.execute(): one more row change, its own failure swallowed if it is refused.  To the
\* database a statement is part of the open transaction or, if it rolled that back, one of
\* its own that is kept at once.
Write(e) ==
    LET p == NextPart(e)
        open == lock[CmdOf[e]] = e
    IN
    /\ pc[e] = "claimed" /\ left[e] # {}
    /\ left' = [left EXCEPT ![e] = @ \ {p}]
    /\ buffer' = IF Sends(e) /\ open THEN [buffer EXCEPT ![e] = @ \cup {p}] ELSE buffer
    /\ durable' = IF Sends(e) /\ ~open THEN durable \cup {[run |-> RunOf(e), part |-> p]} ELSE durable
    /\ UNCHANGED <<row, inserted, lock, pc, seen, attempt, aborted, queryVars, retired, denied>>

\* A statement fails because the database rolled the whole transaction back ...
Aborted(e) ==
    /\ pc[e] \in {"claimed", "stored"} /\ ~aborted[e]
    /\ RetryOrFail(e)
    /\ UNCHANGED <<row, inserted, queryVars, history>>

\* ... and the save of that item swallows the error: the execution goes on.
AbortSwallowed(e) ==
    /\ pc[e] = "claimed" /\ ~aborted[e]
    /\ left[e] # {} /\ left' = [left EXCEPT ![e] = @ \ {NextPart(e)}]
    /\ aborted' = [aborted EXCEPT ![e] = TRUE]
    /\ Rollback(e)
    /\ UNCHANGED <<row, inserted, pc, seen, attempt, queryVars, history>>

\* A refused statement that is not swallowed finds the abort out, at the latest
\* assertOutboxHealthy and the refused commit statement.
StoreRefused(e) ==
    /\ pc[e] = "claimed" /\ aborted[e]
    /\ RetryOrFail(e)
    /\ UNCHANGED <<row, inserted, queryVars, history>>

\* The execution is through; assertOutboxHealthy, and commandRepository.commit stores the
\* result in the same transaction.
Store(e) ==
    /\ pc[e] = "claimed" /\ left[e] = {} /\ ~aborted[e]
    /\ Goto(e, "stored")
    /\ UNCHANGED <<row, inserted, lock, seen, left, buffer, queryVars, history>>

\* COMMIT.  Its acknowledgement may be lost, and the caller then sees a failure.
Commit(e, outcome) ==
    LET c == CmdOf[e] IN
    /\ pc[e] = "stored" /\ outcome \in {"committed", "failed"}
    /\ row' = [row EXCEPT ![c].status = "committed", ![c].age = "fresh"]
    /\ durable' = durable \cup {[run |-> RunOf(e), part |-> p] : p \in buffer[e]}
    /\ Rollback(e)
    /\ Goto(e, outcome)
    /\ UNCHANGED <<inserted, seen, left, queryVars, retired, denied>>

\* Deferred operations, the dispatcher's wake-up, and the answer.
AfterCommit(e) ==
    /\ pc[e] = "committed"
    /\ Rest(e)
    /\ UNCHANGED <<row, inserted, lock, queryVars, history>>

\* Any other error of the attempt rolls its transaction back and fails the call.
ExecutionError(e) ==
    /\ pc[e] \in {"accepted", "found", "claimed", "stored"}
    /\ left' = [left EXCEPT ![e] = {}]
    /\ Rollback(e)
    /\ Goto(e, "failed")
    /\ UNCHANGED <<row, inserted, seen, queryVars, history>>

\* abandonAcceptance: an acceptance nobody claims is deleted before the error is
\* reported ...
Abandon(e) ==
    LET c == CmdOf[e] IN
    /\ pc[e] = "failed" /\ lock[c] = Nobody
    /\ row' = IF Unclaimed(c) THEN [row EXCEPT ![c] = NoRow] ELSE row
    /\ Rest(e)
    /\ UNCHANGED <<inserted, lock, queryVars, history>>

\* ... and an error of that deletion is swallowed.
AbandonSwallowed(e) ==
    /\ pc[e] = "failed"
    /\ Rest(e)
    /\ UNCHANGED <<row, inserted, lock, queryVars, history>>

\* The process dies: the database rolls its open transaction back.
Crash(e) ==
    /\ pc[e] # "idle"
    /\ lock' = [c \in Command |-> IF lock[c] = e THEN Nobody ELSE lock[c]]
    /\ Rest(e)
    /\ UNCHANGED <<row, inserted, queryVars, history>>

-----------------------------------------------------------------------------
(* GetSyncCommandStatus.execute: its statements run outside a transaction.  *)
(* Answers that change nothing (committed, accepted and still young, another*)
(* digest) are not steps.                                                   *)

Answer(q) ==
    /\ qpc' = [qpc EXCEPT ![q] = "idle"]
    /\ qseen' = [qseen EXCEPT ![q] = 0]

\* 'unknown': the server states that the command did not take effect.
AnswerUnknown(q) ==
    /\ Answer(q)
    /\ denied' = [denied EXCEPT ![AskOf[q]] = inserted]

StatusUnknown(q) ==
    /\ qpc[q] \in {"idle", "recheck"} /\ row[AskOf[q]] = NoRow
    /\ AnswerUnknown(q)
    /\ UNCHANGED <<row, inserted, lock, execVars, durable, retired>>

StatusStaleAtExpiry(q) ==  \* mutant: waits for the time to live, not for the grace period
    LET c == AskOf[q] IN
    /\ qpc[q] = "idle"
    /\ Has(c, "accepted") /\ row[c].age = "expired" /\ row[c].digest \in AskDigests[q]
    /\ qpc' = [qpc EXCEPT ![q] = "stale"]
    /\ qseen' = [qseen EXCEPT ![q] = row[c].uuid]
    /\ UNCHANGED <<row, inserted, lock, execVars, history>>

\* An acceptance past SYNC_COMMAND_UNCLAIMED_GRACE_MS that still says accepted.
StatusStale(q) ==
    LET c == AskOf[q] IN
    /\ qpc[q] = "idle"
    /\ Has(c, "accepted") /\ row[c].age # "fresh" /\ row[c].digest \in AskDigests[q]
    /\ qpc' = [qpc EXCEPT ![q] = "stale"]
    /\ qseen' = [qseen EXCEPT ![q] = row[c].uuid]
    /\ UNCHANGED <<row, inserted, lock, execVars, history>>

StatusDeniesUndeleted(q) ==  \* mutant: 'unknown' whether or not the row was deleted
    LET c == AskOf[q] IN
    /\ qpc[q] = "stale"
    /\ row' = IF Unclaimed(c) /\ row[c].uuid = qseen[q] THEN [row EXCEPT ![c] = NoRow] ELSE row
    /\ AnswerUnknown(q)
    /\ UNCHANGED <<inserted, lock, execVars, durable, retired>>

\* deleteAcceptedIfUnclaimed with the cutoff: a row inserted since is younger than
\* the cutoff, so the row that was read is the only one it can match.
StatusDelete(q) ==
    LET c == AskOf[q] IN
    /\ qpc[q] = "stale" /\ lock[c] = Nobody
    /\ IF Unclaimed(c) /\ row[c].uuid = qseen[q]
       THEN /\ row' = [row EXCEPT ![c] = NoRow]
            /\ AnswerUnknown(q)
       ELSE /\ qpc' = [qpc EXCEPT ![q] = "recheck"]
            /\ UNCHANGED <<row, qseen, denied>>
    /\ UNCHANGED <<inserted, lock, execVars, durable, retired>>

\* Nothing was removed and the row is still there: it is reported as it is.
StatusReported(q) ==
    /\ qpc[q] = "recheck" /\ row[AskOf[q]] # NoRow
    /\ Answer(q)
    /\ UNCHANGED <<row, inserted, lock, execVars, history>>

-----------------------------------------------------------------------------
(* Time and retention                                                      *)

\* Time passes: the grace period of the acceptance ends, then its time to live.
GrowOld(c) ==
    /\ row[c] # NoRow /\ row[c].age # "expired"
    /\ row' = [row EXCEPT ![c].age = IF @ = "fresh" THEN "aged" ELSE "expired"]
    /\ UNCHANGED <<inserted, lock, execVars, queryVars, history>>

\* CleanupSyncCommands: deleteExpired, whatever the status, behind the row lock.
DeleteExpired(c) ==
    /\ row[c] # NoRow /\ row[c].age = "expired" /\ lock[c] = Nobody
    /\ row' = [row EXCEPT ![c] = NoRow]
    /\ retired' = retired \cup {w.run : w \in {w \in durable : w.run.cmd = c}}
    /\ UNCHANGED <<inserted, lock, execVars, queryVars, durable, denied>>

-----------------------------------------------------------------------------
\* What one call does of its own accord, and what happens to it.
Attempt(e) ==
    \/ FindMissing(e) \/ FindAnswered(e) \/ FindAccepted(e)
    \/ Claim(e) \/ ClaimRefused(e) \/ LockWaitTimeout(e)
    \/ Write(e) \/ StoreRefused(e) \/ Store(e)
    \/ AfterCommit(e) \/ Abandon(e) \/ AbandonSwallowed(e)

Progress(e) == Attempt(e) \/ \E outcome \in {"committed", "failed"} : Commit(e, outcome)

Mishap(e) == Aborted(e) \/ AbortSwallowed(e) \/ ExecutionError(e) \/ Crash(e)

Ask(q) == StatusUnknown(q) \/ StatusStale(q) \/ StatusDelete(q) \/ StatusReported(q)

\* Every step but the commit of a command.
Surroundings ==
    \/ \E e \in Executor : Accept(e) \/ Attempt(e) \/ Mishap(e)
    \/ \E q \in Query : Ask(q)
    \/ \E c \in Command : GrowOld(c) \/ DeleteExpired(c)

Next ==
    \/ Surroundings
    \/ \E e \in Executor, outcome \in {"committed", "failed"} : Commit(e, outcome)

Spec == Init /\ [][Next]_vars

\* A client asks when its call is over and it does not know the outcome.
Wondering(q) == \E e \in Executor : CmdOf[e] = AskOf[q] /\ pc[e] = "idle"

\* Calls run to their end, clients keep asking about what they are not sure of
\* (a waiting DELETE is queued on the row lock), and the grace period passes.
Fairness ==
    /\ \A e \in Executor : WF_vars(Progress(e))
    /\ \A q \in Query : SF_vars(StatusStale(q) /\ Wondering(q)) /\ SF_vars(StatusDelete(q))
    /\ \A q \in Query : WF_vars(StatusReported(q) \/ (StatusUnknown(q) /\ qpc[q] = "recheck"))
    /\ \A c \in Command : WF_vars(GrowOld(c) /\ row[c].age = "fresh")

FairSpec == Spec /\ Fairness

-----------------------------------------------------------------------------
(* Properties                                                              *)

\* The variables have their types; no call makes more than MaxAttempts attempts
\* (runAttempts).
TypeOK ==
    /\ row \in [Command -> Row \cup {NoRow}]
    /\ inserted \in 0 .. MaxRows
    /\ lock \in [Command -> Executor \cup {Nobody}]
    /\ pc \in [Executor -> {"idle", "accepted", "found", "claimed", "stored", "committed", "failed"}]
    /\ seen \in [Executor -> 0 .. MaxRows]
    /\ attempt \in [Executor -> 1 .. MaxAttempts]
    /\ aborted \in [Executor -> BOOLEAN]
    /\ left \in [Executor -> SUBSET Part] /\ buffer \in [Executor -> SUBSET Part]
    /\ qpc \in [Query -> {"idle", "stale", "recheck"}]
    /\ qseen \in [Query -> 0 .. MaxRows]
    /\ durable \subseteq [run : Run, part : Part]
    /\ retired \subseteq Run
    /\ denied \in [Command -> 0 .. MaxRows]

Runs == {w.run : w \in durable}

\* A command's changes and the record that it happened are kept or lost together:
\* whatever transaction died on the way, and although the execution goes on when the
\* save of an item swallowed that, nothing of a run is durable without the rest of it
\* (executeOnce, and the guarded query of SyncCommandTransactionContext).
AtomicEffect ==
    \A w \in durable, p \in Part : [run |-> w.run, part |-> p] \in durable

\* However often a command is presented, retried, abandoned, queried and crashed, it
\* takes effect once for as long as its record is retained, and it is that record
\* which remembers it.
AtMostOnce ==
    /\ \A r, s \in Runs \ retired : r.cmd = s.cmd => r = s
    /\ \A r \in Runs \ retired : Has(r.cmd, "committed")

\* A command id stands for one request: what took effect under it is what the record's
\* digest names, also when callers present the id with different digests.
OneRequestPerId == \A r \in Runs \ retired : DigestOf[r.by] = row[r.cmd].digest

\* 'unknown' is final: after the answer, no execution that was accepted before it can
\* still take effect; only a command accepted anew can (GetSyncCommandStatus).
UnknownIsFinal ==
    [][\A c \in Command :
         ~Has(c, "committed") /\ Has(c, "committed")' => row'[c].uuid > denied[c]]_vars

\* No call of execute waits forever for another one's claim.
CallsEnd == \A e \in Executor : []<>(pc[e] = "idle")

\* A command does not go on saying that it might still take effect: an acceptance is
\* claimed and committed, given up, or cleared by the next status query after its
\* grace period, even when the process that accepted it died.
AcceptedResolves == \A c \in Command : []<>~Has(c, "accepted")

-----------------------------------------------------------------------------
(* The promise the journal implements, and the invariant that carries it    *)

\* The acceptance on record and the fate of every acceptance, as the ledger sees them.
OnRecord == [c \in Command |-> IF row[c] = NoRow THEN 0 ELSE row[c].uuid]

RanOnce(n) == \A r, s \in Runs : r.uuid = n /\ s.uuid = n => r = s

FateOf(n) ==
    IF n > inserted THEN "unborn"
    ELSE IF \E r \in Runs : r.uuid = n THEN IF RanOnce(n) THEN "done" ELSE "done twice"
    ELSE IF \E c \in Command : OnRecord[c] = n THEN "open"
    ELSE "void"

Fate == [n \in 1 .. MaxRows |-> FateOf(n)]

Ledger == INSTANCE CommandLedger WITH holder <- OnRecord, fate <- Fate, count <- inserted

\* Every acceptance has one fate: it takes effect once, or is given up for good and
\* never does, whatever transactions die and whichever statements race (executeOnce,
\* abandonAcceptance, deleteAcceptedIfUnclaimed, deleteExpired).
ImplementsLedger == Ledger!LedgerSpec

InTransaction(e) == pc[e] \in {"claimed", "stored"} /\ ~aborted[e]

\* A row lock belongs to an open transaction, and an open transaction has the row it
\* claimed, as it read it, and holds what the execution has written so far.
ClaimsHold ==
    /\ \A c \in Command : lock[c] # Nobody => c = CmdOf[lock[c]] /\ InTransaction(lock[c])
    /\ \A e \in Executor : InTransaction(e) =>
         /\ lock[CmdOf[e]] = e /\ Has(CmdOf[e], "accepted")
         /\ row[CmdOf[e]].uuid = seen[e] /\ row[CmdOf[e]].digest = DigestOf[e]
    /\ \A e \in Executor : InTransaction(e) => buffer[e] \cup left[e] = Part
    /\ \A e \in Executor : pc[e] = "stored" => left[e] = {}
    /\ \A e \in Executor : aborted[e] => pc[e] \in {"claimed", "failed"}

\* What an attempt has read is a row of its own digest, if that row is still there.
ReadsMatch ==
    \A e \in Executor :
        /\ seen[e] <= inserted
        /\ pc[e] = "found" /\ row[CmdOf[e]] # NoRow /\ row[CmdOf[e]].uuid = seen[e]
             => row[CmdOf[e]].digest = DigestOf[e]

\* Row uuids are never used twice.
RecordsUnique ==
    /\ \A c \in Command : row[c] # NoRow => row[c].uuid <= inserted
    /\ \A c, d \in Command : row[c] # NoRow /\ row[d] # NoRow /\ row[c].uuid = row[d].uuid => c = d

\* A run and the row it claimed tell the same story for as long as both are kept.
RunsRecorded ==
    /\ \A r \in Runs : r.uuid <= inserted
    /\ \A r, s \in Runs : r.uuid = s.uuid => r = s
    /\ \A r \in Runs, c \in Command :
         row[c] # NoRow /\ row[c].uuid = r.uuid => r.cmd = c /\ row[c].status = "committed"
    /\ \A c \in Command : Has(c, "committed") => \E r \in Runs : r.uuid = row[c].uuid
    /\ \A r \in Runs \ retired :
         /\ Has(r.cmd, "committed") /\ row[r.cmd].uuid = r.uuid
         /\ row[r.cmd].digest = DigestOf[r.by]

\* What may still take effect was accepted after the last 'unknown'.
DenialsPast ==
    \A c \in Command : denied[c] <= inserted /\ (Has(c, "accepted") => denied[c] < row[c].uuid)

\* The inductive invariant behind the safety properties: a claim is exclusive from the
\* UPDATE to the end of its transaction, so that the row a run commits is the one it
\* read (claimAccepted, commit, and every DELETE waiting on the claimed row's lock).
JournalInv ==
    TypeOK /\ ClaimsHold /\ ReadsMatch /\ RecordsUnique /\ AtomicEffect /\ RunsRecorded /\ DenialsPast
=============================================================================
