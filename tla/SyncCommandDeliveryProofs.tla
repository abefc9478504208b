----------------------- MODULE SyncCommandDeliveryProofs -----------------------
(***************************************************************************)
(* Proofs about the command journal and its outbox for every set of        *)
(* commands, callers, queries, row changes and dispatchers and every       *)
(* number of attempts, dispatches and mishaps.                             *)
(*                                                                         *)
(* First the journal by itself: the inductive invariant is JournalInv; its *)
(* parts are shown to be kept one by one, the parts about the table from a *)
(* lemma that says what any step may do to it. Then the journal with its   *)
(* outbox: the outbox tells exactly what took effect, and no dispatcher    *)
(* loses, revives or steals an event. The journal's own invariant holds    *)
(* there because every step is one of the journal's, or leaves it alone.   *)
(***************************************************************************)
EXTENDS SyncCommandDelivery, TLAPS

-----------------------------------------------------------------------------
(* Types                                                                   *)

\* An empty table has the types.
LEMMA InitTypeOK == Init => TypeOK
  BY JournalAssumption, SMT DEF Init, TypeOK, Row, Run

\* A row change is part of the transaction, or is not sent: nothing is kept outside it.
LEMMA GuardedWrite ==
    ASSUME TypeOK, ClaimsHold, NEW e \in Executor, Write(e)
    PROVE  \E p \in left[e] :
             /\ pc[e] = "claimed" /\ left' = [left EXCEPT ![e] = @ \ {p}]
             /\ \/ ~aborted[e] /\ buffer' = [buffer EXCEPT ![e] = @ \cup {p}]
                \/ aborted[e] /\ buffer' = buffer
             /\ UNCHANGED <<row, inserted, lock, pc, seen, attempt, aborted, queryVars, history>>
<1> DEFINE p == NextPart(e)
<1>1. p \in left[e]
  BY DEF Write, NextPart
<1>2. pc[e] = "claimed" /\ left' = [left EXCEPT ![e] = @ \ {p}]
  BY DEF Write
<1>3. ~aborted[e] => lock[CmdOf[e]] = e
  BY <1>2 DEF ClaimsHold, InTransaction
<1>4. /\ durable' = durable
      /\ \/ ~aborted[e] /\ buffer' = [buffer EXCEPT ![e] = @ \cup {p}]
         \/ aborted[e] /\ buffer' = buffer
  BY <1>3 DEF Write, Sends
<1>. QED BY <1>1, <1>2, <1>4 DEF Write, history

\* A commit finds the row it claimed, hence the second hypothesis.
LEMMA NextTypeOK == TypeOK /\ ClaimsHold /\ [Next]_vars => TypeOK'
<1> SUFFICES ASSUME TypeOK, ClaimsHold, [Next]_vars PROVE TypeOK'
    OBVIOUS
<1> USE JournalAssumption DEF TypeOK
<1>1. ASSUME NEW e \in Executor, Accept(e) PROVE TypeOK'
  <2>1. inserted < MaxRows =>
          [uuid |-> inserted + 1, digest |-> DigestOf[e], status |-> "accepted", age |-> "fresh"] \in Row
    BY DEF Row, Age
  <2>2. row' \in [Command -> Row \cup {NoRow}] /\ inserted' \in 0 .. MaxRows
    BY <1>1, <2>1 DEF Accept
  <2>. QED BY <1>1, <2>2 DEF Accept, Goto, queryVars, history
<1>2. ASSUME NEW e \in Executor, Attempt(e) PROVE TypeOK'
  <2>1. CASE FindMissing(e) BY <2>1 DEF FindMissing, Goto, queryVars, history
  <2>2. CASE FindAnswered(e) BY <2>2 DEF FindAnswered, Rest, queryVars, history
  <2>3. CASE FindAccepted(e)
    BY <2>3 DEF FindAccepted, Has, Row, Goto, queryVars, history
  <2>4. CASE Claim(e) BY <2>4 DEF Claim, Goto, queryVars, history
  <2>5. CASE ClaimRefused(e) BY <2>5 DEF ClaimRefused, Rest, queryVars, history
  <2>6. CASE LockWaitTimeout(e)
    BY <2>6 DEF LockWaitTimeout, RetryOrFail, Rollback, queryVars, history
  <2>7. CASE Write(e)
    <3>1. PICK p \in left[e] :
            /\ left' = [left EXCEPT ![e] = @ \ {p}]
            /\ buffer' = [buffer EXCEPT ![e] = @ \cup {p}] \/ buffer' = buffer
            /\ UNCHANGED <<row, inserted, lock, pc, seen, attempt, aborted, queryVars, history>>
      BY <2>7, GuardedWrite
    <3>2. p \in Part
      OBVIOUS
    <3>. QED BY <3>1, <3>2 DEF queryVars, history
  <2>8. CASE StoreRefused(e)
    BY <2>8 DEF StoreRefused, RetryOrFail, Rollback, queryVars, history
  <2>9. CASE Store(e) BY <2>9 DEF Store, Goto, queryVars, history
  <2>10. CASE AfterCommit(e) BY <2>10 DEF AfterCommit, Rest, queryVars, history
  <2>11. CASE Abandon(e) BY <2>11 DEF Abandon, Rest, queryVars, history
  <2>12. CASE AbandonSwallowed(e) BY <2>12 DEF AbandonSwallowed, Rest, queryVars, history
  <2>. QED BY <1>2, <2>1, <2>2, <2>3, <2>4, <2>5, <2>6, <2>7, <2>8, <2>9, <2>10, <2>11, <2>12
           DEF Attempt
<1>3. ASSUME NEW e \in Executor, Mishap(e) PROVE TypeOK'
  <2>1. CASE Aborted(e) BY <2>1 DEF Aborted, RetryOrFail, Rollback, queryVars, history
  <2>2. CASE AbortSwallowed(e)
    BY <2>2 DEF AbortSwallowed, Rollback, queryVars, history
  <2>3. CASE ExecutionError(e) BY <2>3 DEF ExecutionError, Rollback, Goto, queryVars, history
  <2>4. CASE Crash(e) BY <2>4 DEF Crash, Rest, queryVars, history
  <2>. QED BY <1>3, <2>1, <2>2, <2>3, <2>4 DEF Mishap
<1>4. ASSUME NEW q \in Query, Ask(q) PROVE TypeOK'
  <2>1. CASE StatusUnknown(q)
    BY <2>1 DEF StatusUnknown, AnswerUnknown, Answer, execVars
  <2>2. CASE StatusStale(q) BY <2>2 DEF StatusStale, Has, Row, execVars, history
  <2>3. CASE StatusDelete(q)
    BY <2>3 DEF StatusDelete, AnswerUnknown, Answer, execVars
  <2>4. CASE StatusReported(q) BY <2>4 DEF StatusReported, Answer, execVars, history
  <2>. QED BY <1>4, <2>1, <2>2, <2>3, <2>4 DEF Ask
<1>5. ASSUME NEW c \in Command, GrowOld(c) PROVE TypeOK'
  <2>1. row' \in [Command -> Row \cup {NoRow}]
    BY <1>5 DEF GrowOld, Row, Age
  <2>. QED BY <1>5, <2>1 DEF GrowOld, execVars, queryVars, history
<1>6. ASSUME NEW c \in Command, DeleteExpired(c) PROVE TypeOK'
  <2>1. retired' \subseteq Run
    BY <1>6 DEF DeleteExpired
  <2>. QED BY <1>6, <2>1 DEF DeleteExpired, execVars, queryVars
<1>7. ASSUME NEW e \in Executor, NEW outcome \in {"committed", "failed"}, Commit(e, outcome)
      PROVE TypeOK'
  <2> DEFINE c == CmdOf[e]
  <2>1. row[c] \in Row /\ seen[e] = row[c].uuid
    BY <1>7 DEF Commit, ClaimsHold, InTransaction, Has
  <2>2. [row[c] EXCEPT !.status = "committed", !.age = "fresh"] \in Row
    BY <2>1 DEF Row, Age
  <2>3. row' \in [Command -> Row \cup {NoRow}]
    BY <1>7, <2>2 DEF Commit
  <2>4. RunOf(e) \in Run
    BY <2>1 DEF RunOf, Run, Row
  <2>5. durable' \subseteq [run : Run, part : Part]
    BY <1>7, <2>4 DEF Commit
  <2>. QED BY <1>7, <2>3, <2>5 DEF Commit, Rollback, Goto, queryVars
<1>8. CASE UNCHANGED vars
  BY <1>8 DEF vars, execVars, queryVars, history
<1>. QED BY <1>1, <1>2, <1>3, <1>4, <1>5, <1>6, <1>7, <1>8 DEF Next, Surroundings

-----------------------------------------------------------------------------
(* What a step may do to the table                                          *)

\* A row of a command that is not on record is inserted.
Inserts(c) ==
    /\ row[c] = NoRow /\ inserted' = inserted + 1 /\ inserted' <= MaxRows
    /\ \E d \in Digest :
         row' = [row EXCEPT ![c] = [uuid |-> inserted', digest |-> d,
                                    status |-> "accepted", age |-> "fresh"]]
    /\ UNCHANGED <<durable, retired>>

\* The row an executor has claimed is committed, with everything it was to write.
Commits(e) ==
    /\ InTransaction(e) /\ RunOf(e) \in Run
    /\ row' = [row EXCEPT ![CmdOf[e]] = [@ EXCEPT !.status = "committed", !.age = "fresh"]]
    /\ durable' = durable \cup {[run |-> RunOf(e), part |-> p] : p \in Part}
    /\ UNCHANGED <<inserted, retired>>

\* A row that no open transaction holds is deleted.
Drops(c) ==
    /\ row[c] # NoRow /\ lock[c] = Nobody
    /\ row' = [row EXCEPT ![c] = NoRow]
    /\ retired' = retired \cup {r \in Runs : r.cmd = c} \/ (retired' = retired /\ Has(c, "accepted"))
    /\ UNCHANGED <<inserted, durable>>

\* A row grows older.
Ages(c) ==
    /\ row[c] # NoRow
    /\ \E a \in Age : row' = [row EXCEPT ![c] = [@ EXCEPT !.age = a]]
    /\ UNCHANGED <<inserted, durable, retired>>

Keeps == UNCHANGED <<row, inserted, durable, retired>>

\* What any step does to the table and the runs, one case for each kind of change.
LEMMA TableStep ==
    ASSUME TypeOK, ClaimsHold, [Next]_vars
    PROVE  \/ Keeps
           \/ \E e \in Executor : Commits(e)
           \/ \E c \in Command : Inserts(c) \/ Drops(c) \/ Ages(c)
<1> USE JournalAssumption DEF TypeOK
<1>1. ASSUME NEW e \in Executor, Accept(e) PROVE Keeps \/ Inserts(CmdOf[e])
  BY <1>1 DEF Accept, Keeps, Inserts, history
<1>2. ASSUME NEW e \in Executor, Attempt(e) PROVE Keeps \/ Drops(CmdOf[e])
  <2>1. CASE Abandon(e)
    BY <2>1 DEF Abandon, Keeps, Drops, Unclaimed, Has, history
  <2>. QED
    BY <1>2, <2>1, GuardedWrite DEF Attempt, Keeps, FindMissing, FindAnswered, FindAccepted, Claim, ClaimRefused,
       LockWaitTimeout, StoreRefused, Store, AfterCommit, AbandonSwallowed, history
<1>3. ASSUME NEW e \in Executor, Mishap(e) PROVE Keeps
  BY <1>3 DEF Mishap, Keeps, Aborted, AbortSwallowed, ExecutionError, Crash, history
<1>4. ASSUME NEW q \in Query, Ask(q) PROVE Keeps \/ \E c \in Command : Drops(c)
  <2>1. CASE StatusDelete(q)
    <3>1. AskOf[q] \in Command OBVIOUS
    <3>2. Keeps \/ Drops(AskOf[q])
      BY <2>1 DEF StatusDelete, Keeps, Drops, Unclaimed, Has
    <3>. QED BY <3>1, <3>2
  <2>. QED
    BY <1>4, <2>1 DEF Ask, Keeps, StatusUnknown, StatusStale, StatusReported, history
<1>5. ASSUME NEW c \in Command, GrowOld(c) PROVE Ages(c)
  BY <1>5 DEF GrowOld, Ages, Age, history
<1>6. ASSUME NEW c \in Command, DeleteExpired(c) PROVE Drops(c)
  <2>1. {w.run : w \in {w \in durable : w.run.cmd = c}} = {r \in Runs : r.cmd = c}
    BY DEF Runs
  <2>. QED BY <1>6, <2>1 DEF DeleteExpired, Drops
<1>7. ASSUME NEW e \in Executor, NEW outcome \in {"committed", "failed"}, Commit(e, outcome)
      PROVE Commits(e)
  <2>1. InTransaction(e) /\ buffer[e] = Part
    <3>1. InTransaction(e) /\ buffer[e] \cup left[e] = Part /\ left[e] = {}
      BY <1>7 DEF Commit, ClaimsHold, InTransaction
    <3>. QED BY <3>1
  <2>2. row[CmdOf[e]] \in Row /\ seen[e] = row[CmdOf[e]].uuid
    BY <2>1 DEF ClaimsHold, Has
  <2>3. RunOf(e) \in Run
    BY <2>2 DEF RunOf, Run, Row
  <2>. QED BY <1>7, <2>1, <2>2, <2>3 DEF Commit, Commits
<1>8. CASE UNCHANGED vars
  BY <1>8 DEF vars, history, Keeps
<1>. QED
  BY <1>1, <1>2, <1>3, <1>4, <1>5, <1>6, <1>7, <1>8 DEF Next, Surroundings

\* A row that is there after a step was there before, but for its status and its age, or
\* it has just been inserted.
RowFollows(c) ==
    row'[c] # NoRow =>
        \/ /\ row[c] # NoRow /\ row'[c].uuid = row[c].uuid /\ row'[c].digest = row[c].digest
           /\ row'[c].status \in {row[c].status, "committed"}
        \/ /\ row[c] = NoRow /\ inserted' = inserted + 1
           /\ row'[c].uuid = inserted' /\ row'[c].status = "accepted"
           /\ \A d \in Command \ {c} : row'[d] = row[d]

\* No row is changed in any other way.
LEMMA RowStep ==
    ASSUME TypeOK, ClaimsHold, [Next]_vars
    PROVE  inserted' >= inserted /\ \A c \in Command : RowFollows(c)
<1> USE JournalAssumption DEF TypeOK, RowFollows
<1>1. CASE Keeps BY <1>1 DEF Keeps
<1>2. ASSUME NEW e \in Executor, Commits(e) PROVE inserted' >= inserted /\ \A b \in Command : RowFollows(b)
  <2>1. row[CmdOf[e]] \in Row /\ row[CmdOf[e]] # NoRow
    BY <1>2 DEF Commits, ClaimsHold, Has
  <2>. QED BY <1>2, <2>1 DEF Commits, Row
<1>3. ASSUME NEW c \in Command, Inserts(c) PROVE inserted' >= inserted /\ \A b \in Command : RowFollows(b)
  BY <1>3 DEF Inserts
<1>4. ASSUME NEW c \in Command, Drops(c) PROVE inserted' >= inserted /\ \A b \in Command : RowFollows(b)
  BY <1>4 DEF Drops
<1>5. ASSUME NEW c \in Command, Ages(c) PROVE inserted' >= inserted /\ \A b \in Command : RowFollows(b)
  <2>1. row[c] \in Row BY <1>5 DEF Ages
  <2>. QED BY <1>5, <2>1 DEF Ages, Row
<1>. QED BY <1>1, <1>2, <1>3, <1>4, <1>5, TableStep

-----------------------------------------------------------------------------
(* Claims: what the executors know about the table                          *)

\* Nobody's open transaction is touched by a step that leaves locks, executors and
\* claimed rows alone.
LEMMA ClaimsUntouched ==
    ASSUME TypeOK, ClaimsHold, UNCHANGED <<lock, execVars>>,
           \A c \in Command : lock[c] # Nobody =>
             row[c] = row'[c] \/ (\E a \in Age : row'[c] = [row[c] EXCEPT !.age = a])
    PROVE  ClaimsHold'
<1> USE JournalAssumption DEF TypeOK
<1>1. ASSUME NEW e \in Executor, InTransaction(e)
      PROVE  /\ lock[CmdOf[e]] = e /\ row'[CmdOf[e]] # NoRow
             /\ row'[CmdOf[e]].status = "accepted" /\ row'[CmdOf[e]].uuid = seen[e]
             /\ row'[CmdOf[e]].digest = DigestOf[e]
  <2> DEFINE c == CmdOf[e]
  <2>1. c \in Command /\ lock[c] = e /\ lock[c] # Nobody /\ row[c] # NoRow /\ row[c] \in Row
    BY <1>1 DEF ClaimsHold, Has
  <2>2. row[c].status = "accepted" /\ row[c].uuid = seen[e] /\ row[c].digest = DigestOf[e]
    BY <1>1 DEF ClaimsHold, Has
  <2>4. ASSUME NEW a \in Age, row'[c] = [row[c] EXCEPT !.age = a]
        PROVE  row'[c] \in Row /\ row'[c].status = row[c].status /\ row'[c].uuid = row[c].uuid
               /\ row'[c].digest = row[c].digest
    BY <2>1, <2>4 DEF Row
  <2>5. row'[c] = row[c] \/ \E a \in Age : row'[c] = [row[c] EXCEPT !.age = a]
    BY <2>1
  <2>6. row'[c] \in Row /\ row'[c].status = row[c].status /\ row'[c].uuid = row[c].uuid
        /\ row'[c].digest = row[c].digest
    BY <2>1, <2>4, <2>5
  <2>7. row'[c] # NoRow
    BY <2>6
  <2> HIDE DEF c, TypeOK
  <2>8. row'[c].status = "accepted" /\ row'[c].uuid = seen[e] /\ row'[c].digest = DigestOf[e]
    BY <2>2, <2>6
  <2>. QED BY <2>1, <2>7, <2>8 DEF c
<1>2. UNCHANGED <<lock, pc, seen, aborted, left, buffer>>
  BY DEF execVars
<1> HIDE DEF TypeOK
<1>. QED BY <1>1, <1>2 DEF ClaimsHold, InTransaction, Has

\* A claim stays exclusive: whatever another call does to the row waits for its lock.
LEMMA NextClaimsHold == TypeOK /\ ClaimsHold /\ ReadsMatch /\ [Next]_vars => ClaimsHold'
<1> SUFFICES ASSUME TypeOK, ClaimsHold, ReadsMatch, [Next]_vars PROVE ClaimsHold'
    OBVIOUS
<1> USE JournalAssumption DEF TypeOK
<1>1. ASSUME NEW e \in Executor, Accept(e) PROVE ClaimsHold'
  BY <1>1 DEF Accept, Goto, ClaimsHold, InTransaction, Has
<1>2. ASSUME NEW e \in Executor, Attempt(e) PROVE ClaimsHold'
  <2>1. CASE FindMissing(e)
    BY <2>1 DEF FindMissing, Goto, ClaimsHold, InTransaction, Has
  <2>2. CASE FindAnswered(e)
    BY <2>2 DEF FindAnswered, Rest, ClaimsHold, InTransaction, Has
  <2>3. CASE FindAccepted(e)
    BY <2>3 DEF FindAccepted, Goto, ClaimsHold, InTransaction, Has
  <2>4. CASE Claim(e)
    BY <2>4 DEF Claim, ClaimAffects, Unclaimed, ReadsMatch, Goto, ClaimsHold, InTransaction, Has
  <2>5. CASE ClaimRefused(e)
    BY <2>5 DEF ClaimRefused, Rest, ClaimsHold, InTransaction, Has
  <2>6. CASE LockWaitTimeout(e)
    BY <2>6 DEF LockWaitTimeout, RetryOrFail, Rollback, ClaimsHold, InTransaction, Has
  <2>7. CASE Write(e)
    <3>1. PICK p \in left[e] :
            /\ pc[e] = "claimed" /\ left' = [left EXCEPT ![e] = @ \ {p}]
            /\ \/ ~aborted[e] /\ buffer' = [buffer EXCEPT ![e] = @ \cup {p}]
               \/ aborted[e] /\ buffer' = buffer
            /\ UNCHANGED <<row, inserted, lock, pc, seen, attempt, aborted>>
      BY <2>7, GuardedWrite
    <3>. QED BY <3>1 DEF ClaimsHold, InTransaction, Has
  <2>8. CASE StoreRefused(e)
    BY <2>8 DEF StoreRefused, RetryOrFail, Rollback, ClaimsHold, InTransaction, Has
  <2>9. CASE Store(e)
    BY <2>9 DEF Store, Goto, ClaimsHold, InTransaction, Has
  <2>10. CASE AfterCommit(e)
    BY <2>10 DEF AfterCommit, Rest, ClaimsHold, InTransaction, Has
  <2>11. CASE Abandon(e)
    BY <2>11 DEF Abandon, Unclaimed, Rest, ClaimsHold, InTransaction, Has
  <2>12. CASE AbandonSwallowed(e)
    BY <2>12 DEF AbandonSwallowed, Rest, ClaimsHold, InTransaction, Has
  <2>. QED BY <1>2, <2>1, <2>2, <2>3, <2>4, <2>5, <2>6, <2>7, <2>8, <2>9, <2>10, <2>11, <2>12
           DEF Attempt
<1>3. ASSUME NEW e \in Executor, Mishap(e) PROVE ClaimsHold'
  <2>1. CASE Aborted(e)
    BY <2>1 DEF Aborted, RetryOrFail, Rollback, ClaimsHold, InTransaction, Has
  <2>2. CASE AbortSwallowed(e)
    BY <2>2 DEF AbortSwallowed, Rollback, ClaimsHold, InTransaction, Has
  <2>3. CASE ExecutionError(e)
    BY <2>3 DEF ExecutionError, Rollback, Goto, ClaimsHold, InTransaction, Has
  <2>4. CASE Crash(e)
    BY <2>4 DEF Crash, Rest, ClaimsHold, InTransaction, Has
  <2>. QED BY <1>3, <2>1, <2>2, <2>3, <2>4 DEF Mishap
<1>4. ASSUME NEW q \in Query, Ask(q) PROVE ClaimsHold'
  <2>1. AskOf[q] \in Command OBVIOUS
  <2>2. UNCHANGED <<lock, execVars>> /\ \A c \in Command : lock[c] # Nobody => row'[c] = row[c]
    BY <1>4, <2>1 DEF Ask, StatusUnknown, StatusStale, StatusDelete, StatusReported
  <2>. QED BY <2>2, ClaimsUntouched
<1>5. ASSUME NEW c \in Command, GrowOld(c) PROVE ClaimsHold'
  BY <1>5, ClaimsUntouched DEF GrowOld, Age
<1>6. ASSUME NEW c \in Command, DeleteExpired(c) PROVE ClaimsHold'
  BY <1>6, ClaimsUntouched DEF DeleteExpired
<1>7. ASSUME NEW e \in Executor, NEW outcome \in {"committed", "failed"}, Commit(e, outcome)
      PROVE ClaimsHold'
  <2>1. lock[CmdOf[e]] = e
    BY <1>7 DEF Commit, ClaimsHold, InTransaction
  <2>2. \A f \in Executor \ {e} : InTransaction(f) => CmdOf[f] # CmdOf[e]
    BY <2>1 DEF ClaimsHold
  <2>. QED BY <1>7, <2>1, <2>2 DEF Commit, Rollback, Goto, ClaimsHold, InTransaction, Has
<1>8. CASE UNCHANGED vars
  BY <1>8 DEF vars, execVars, ClaimsHold, InTransaction, Has
<1>. QED BY <1>1, <1>2, <1>3, <1>4, <1>5, <1>6, <1>7, <1>8 DEF Next, Surroundings

\* What a step may do to what an executor has read.
ReadsAnew(e) ==
    /\ pc'[e] = "found" /\ UNCHANGED <<row, inserted>>
    /\ row[CmdOf[e]] # NoRow /\ row[CmdOf[e]].digest = DigestOf[e]
    /\ seen'[e] = row[CmdOf[e]].uuid

ReadsNothing(e) ==
    \/ (pc'[e] = "found" => pc[e] = "found") /\ seen'[e] = seen[e]
    \/ pc'[e] # "found" /\ seen'[e] = 0

\* A row that was found is the one on record, or none will carry its uuid again.
LEMMA NextReadsMatch ==
    TypeOK /\ ClaimsHold /\ ReadsMatch /\ RecordsUnique /\ [Next]_vars => ReadsMatch'
<1> SUFFICES ASSUME TypeOK, ClaimsHold, ReadsMatch, RecordsUnique, [Next]_vars,
                    NEW e \in Executor
             PROVE  /\ seen'[e] <= inserted'
                    /\ pc'[e] = "found" /\ row'[CmdOf[e]] # NoRow /\ row'[CmdOf[e]].uuid = seen'[e]
                         => row'[CmdOf[e]].digest = DigestOf[e]
    BY DEF ReadsMatch
<1> USE JournalAssumption DEF TypeOK
<1>1. ReadsAnew(e) \/ ReadsNothing(e)
  <2> USE DEF ReadsNothing
  <2>1. ASSUME NEW f \in Executor, Accept(f) PROVE ReadsNothing(e)
    BY <2>1 DEF Accept, Goto
  <2>2. ASSUME NEW f \in Executor, FindAccepted(f) PROVE ReadsAnew(e) \/ ReadsNothing(e)
    BY <2>2 DEF FindAccepted, Goto, Has, ReadsAnew
  <2>3. ASSUME NEW f \in Executor, Attempt(f), ~FindAccepted(f) PROVE ReadsNothing(e)
    BY <2>3 DEF Attempt, FindMissing, FindAnswered, Claim, ClaimRefused, LockWaitTimeout, Write,
       StoreRefused, Store, AfterCommit, Abandon, AbandonSwallowed, RetryOrFail, Rest, Goto
  <2>4. ASSUME NEW f \in Executor, Mishap(f) PROVE ReadsNothing(e)
    BY <2>4 DEF Mishap, Aborted, AbortSwallowed, ExecutionError, Crash, RetryOrFail, Rest, Goto
  <2>5. ASSUME NEW q \in Query, Ask(q) PROVE ReadsNothing(e)
    BY <2>5 DEF Ask, StatusUnknown, StatusStale, StatusDelete, StatusReported, execVars
  <2>6. ASSUME NEW c \in Command, GrowOld(c) \/ DeleteExpired(c) PROVE ReadsNothing(e)
    BY <2>6 DEF GrowOld, DeleteExpired, execVars
  <2>7. ASSUME NEW f \in Executor, NEW outcome \in {"committed", "failed"}, Commit(f, outcome)
        PROVE ReadsNothing(e)
    BY <2>7 DEF Commit, Goto
  <2>8. CASE UNCHANGED vars BY <2>8 DEF vars, execVars
  <2>. QED BY <2>1, <2>2, <2>3, <2>4, <2>5, <2>6, <2>7, <2>8 DEF Next, Surroundings
<1>2. CASE ReadsAnew(e)
  BY <1>2 DEF ReadsAnew, RecordsUnique
<1>3. CASE ReadsNothing(e)
  <2>1. inserted' >= inserted /\ RowFollows(CmdOf[e])
    BY RowStep
  <2>2. seen[e] \in Nat /\ inserted \in Nat /\ seen[e] <= inserted /\ inserted' \in Nat
    BY NextTypeOK DEF ReadsMatch
  <2>3. CASE pc'[e] # "found" /\ seen'[e] = 0
    BY <2>1, <2>2, <2>3
  <2>4. CASE (pc'[e] = "found" => pc[e] = "found") /\ seen'[e] = seen[e]
    BY <2>1, <2>2, <2>4 DEF ReadsMatch, RowFollows
  <2>. QED BY <1>3, <2>3, <2>4 DEF ReadsNothing
<1>. QED BY <1>1, <1>2, <1>3

-----------------------------------------------------------------------------
(* The table and the runs                                                   *)

\* A commit adds one run, the others add none.
LEMMA CommitsRuns ==
    ASSUME TypeOK, NEW e \in Executor, Commits(e)
    PROVE  Runs' = Runs \cup {RunOf(e)}
<1>1. \A p \in Part : [run |-> RunOf(e), part |-> p].run = RunOf(e)
  OBVIOUS
<1>2. PICK p \in Part : TRUE
  BY JournalAssumption
<1>3. [run |-> RunOf(e), part |-> p] \in durable'
  BY <1>2 DEF Commits
<1>4. Runs \cup {RunOf(e)} \subseteq Runs'
  BY <1>1, <1>3 DEF Runs, Commits
<1>5. Runs' \subseteq Runs \cup {RunOf(e)}
  BY <1>1 DEF Runs, Commits
<1>. QED BY <1>4, <1>5

\* No write becomes durable: no run is added.
LEMMA RunsKept == ASSUME UNCHANGED durable PROVE Runs' = Runs
  BY DEF Runs

\* A row is inserted under a uuid past every other one.
LEMMA NextRecordsUnique == TypeOK /\ ClaimsHold /\ RecordsUnique /\ [Next]_vars => RecordsUnique'
<1> SUFFICES ASSUME TypeOK, ClaimsHold, RecordsUnique, [Next]_vars PROVE RecordsUnique'
    OBVIOUS
<1>1. inserted' >= inserted /\ \A c \in Command : RowFollows(c)
  BY RowStep
<1>2. inserted \in Nat /\ inserted' \in Nat
  BY NextTypeOK, JournalAssumption DEF TypeOK
<1>3. \A c \in Command : row[c] # NoRow => row[c].uuid \in Nat
  BY JournalAssumption DEF TypeOK, Row
<1>. QED BY <1>1, <1>2, <1>3 DEF RecordsUnique, RowFollows

\* Nothing becomes durable but by a commit (GuardedWrite), and a commit finds all parts in
\* its transaction: none was lost with an earlier one, since the claim was lost with it.
LEMMA NextAtomicEffect == TypeOK /\ ClaimsHold /\ AtomicEffect /\ [Next]_vars => AtomicEffect'
<1> SUFFICES ASSUME TypeOK, ClaimsHold, AtomicEffect, [Next]_vars PROVE AtomicEffect'
    OBVIOUS
<1>1. ASSUME NEW e \in Executor, Commits(e) PROVE AtomicEffect'
  <2> SUFFICES ASSUME NEW w \in durable', NEW p \in Part
               PROVE  [run |-> w.run, part |-> p] \in durable'
      BY DEF AtomicEffect
  <2>1. CASE w \in durable BY <1>1, <2>1 DEF Commits, AtomicEffect
  <2>2. CASE w \notin durable BY <1>1, <2>2 DEF Commits
  <2>. QED BY <2>1, <2>2
<1>2. CASE UNCHANGED durable BY <1>2 DEF AtomicEffect
<1>. QED BY <1>1, <1>2, TableStep DEF Keeps, Inserts, Drops, Ages

\* The record of a run changes only when it is written and when retention drops it.
LEMMA NextRunsRecorded ==
    TypeOK /\ ClaimsHold /\ RecordsUnique /\ RunsRecorded /\ [Next]_vars => RunsRecorded'
<1> SUFFICES ASSUME TypeOK, ClaimsHold, RecordsUnique, RunsRecorded, [Next]_vars
             PROVE  RunsRecorded'
    OBVIOUS
<1> USE JournalAssumption
<1>a. Runs \subseteq Run /\ Runs' \subseteq Run
  BY NextTypeOK DEF TypeOK, Runs
<1>b. inserted \in Nat /\ inserted' \in Nat /\ inserted' >= inserted
  BY NextTypeOK, RowStep DEF TypeOK
<1>c. \A c \in Command : row[c] # NoRow => row[c] \in Row
  BY DEF TypeOK
<1>1. CASE Keeps
  BY <1>1, RunsKept DEF Keeps, RunsRecorded, Has
<1>2. ASSUME NEW e \in Executor, Commits(e) PROVE RunsRecorded'
  <2> DEFINE c == CmdOf[e]
             run == RunOf(e)
  <2>1. c \in Command /\ run.cmd = c /\ run.uuid = seen[e] /\ run.by = e
    BY DEF RunOf
  <2>2. /\ row[c] \in Row /\ row[c] # NoRow /\ row[c].status = "accepted"
        /\ row[c].uuid = seen[e] /\ row[c].digest = DigestOf[e]
    BY <1>2, <1>c, <2>1 DEF Commits, ClaimsHold, Has
  <2>3. /\ row'[c] # NoRow /\ row'[c].status = "committed"
        /\ row'[c].uuid = seen[e] /\ row'[c].digest = DigestOf[e]
        /\ \A d \in Command \ {c} : row'[d] = row[d]
    <3>1. row'[c] = [row[c] EXCEPT !.status = "committed", !.age = "fresh"]
      BY <1>2, <2>1 DEF Commits, TypeOK
    <3>2. [row[c] EXCEPT !.status = "committed", !.age = "fresh"] \in Row
      BY <2>2 DEF Row, Age
    <3>. QED BY <1>2, <2>2, <3>1, <3>2 DEF Commits, TypeOK, Row
  <2>4. Runs' = Runs \cup {run}
    BY <1>2, CommitsRuns
  <2>5. \A r \in Runs : r.uuid # seen[e]
    BY <2>1, <2>2 DEF RunsRecorded
  <2>6. \A r \in Runs \ retired : r.cmd # c
    BY <2>2 DEF RunsRecorded, Has
  <2>7. inserted' = inserted /\ retired' = retired
    BY <1>2 DEF Commits
  <2>8. (\A r \in Runs : r.uuid <= inserted)'
    BY <2>1, <2>2, <2>4, <2>7 DEF RunsRecorded, RecordsUnique
  <2>9. (\A r, s \in Runs : r.uuid = s.uuid => r = s)'
    BY <2>1, <2>4, <2>5 DEF RunsRecorded
  <2>10. (\A r \in Runs, d \in Command :
            row[d] # NoRow /\ row[d].uuid = r.uuid => r.cmd = d /\ row[d].status = "committed")'
    BY <2>1, <2>2, <2>3, <2>4, <2>5 DEF RunsRecorded, RecordsUnique
  <2>11. (\A d \in Command : Has(d, "committed") => \E r \in Runs : r.uuid = row[d].uuid)'
    BY <2>1, <2>3, <2>4 DEF RunsRecorded, Has
  <2>12. (\A r \in Runs \ retired :
            /\ Has(r.cmd, "committed") /\ row[r.cmd].uuid = r.uuid
            /\ row[r.cmd].digest = DigestOf[r.by])'
    BY <1>a, <2>1, <2>3, <2>4, <2>6, <2>7 DEF RunsRecorded, Has, Run
  <2>. QED BY <2>8, <2>9, <2>10, <2>11, <2>12 DEF RunsRecorded
<1>3. ASSUME NEW c \in Command, Inserts(c) PROVE RunsRecorded'
  <2>1. Runs' = Runs
    BY <1>3, RunsKept DEF Inserts
  <2>2. PICK d \in Digest :
          row' = [row EXCEPT ![c] = [uuid |-> inserted', digest |-> d,
                                     status |-> "accepted", age |-> "fresh"]]
    BY <1>3 DEF Inserts
  <2>3. row'[c].uuid = inserted + 1 /\ row'[c].status = "accepted"
        /\ \A b \in Command \ {c} : row'[b] = row[b]
    BY <1>3, <2>2 DEF Inserts, TypeOK
  <2>4. \A r \in Runs : r.uuid <= inserted /\ r.uuid \in Nat
    BY <1>a DEF RunsRecorded, Run
  <2>5. \A r \in Runs \ retired : r.cmd \in Command \ {c}
    BY <1>3, <1>a DEF RunsRecorded, Inserts, Has, Run
  <2>. QED BY <1>3, <1>a, <1>b, <2>1, <2>3, <2>4, <2>5 DEF RunsRecorded, Inserts, Has
<1>4. ASSUME NEW c \in Command, Drops(c) PROVE RunsRecorded'
  <2>1. Runs' = Runs /\ inserted' = inserted
    BY <1>4, RunsKept DEF Drops
  <2>2. row'[c] = NoRow /\ \A b \in Command \ {c} : row'[b] = row[b]
    BY <1>4 DEF Drops, TypeOK
  <2>3. \A r \in Runs' \ retired' : r \in Runs \ retired /\ r.cmd \in Command \ {c}
    BY <1>4, <1>a, <2>1 DEF Drops, RunsRecorded, Has, Run
  <2>. QED BY <2>1, <2>2, <2>3 DEF RunsRecorded, Has
<1>5. ASSUME NEW c \in Command, Ages(c) PROVE RunsRecorded'
  <2>1. Runs' = Runs /\ inserted' = inserted /\ retired' = retired
    BY <1>5, RunsKept DEF Ages
  <2>2. PICK a \in Age : row' = [row EXCEPT ![c] = [@ EXCEPT !.age = a]]
    BY <1>5 DEF Ages
  <2>3. row[c] \in Row /\ row[c] # NoRow /\ row'[c] = [row[c] EXCEPT !.age = a]
    BY <1>5, <1>c, <2>2 DEF Ages, TypeOK
  <2>4. [row[c] EXCEPT !.age = a] \in Row
    BY <2>3 DEF Row
  <2>5. row'[c] # NoRow /\ row'[c].uuid = row[c].uuid /\ row'[c].status = row[c].status
        /\ row'[c].digest = row[c].digest
    BY <2>3, <2>4 DEF Row
  <2>6. \A b \in Command \ {c} : row'[b] = row[b]
    BY <2>2 DEF TypeOK
  <2>7. \A b \in Command : (row'[b] # NoRow <=> row[b] # NoRow) /\ row'[b].uuid = row[b].uuid
          /\ row'[b].status = row[b].status /\ row'[b].digest = row[b].digest
    BY <2>3, <2>5, <2>6
  <2>. QED BY <1>a, <2>1, <2>7 DEF RunsRecorded, Has, Run
<1>. QED BY <1>1, <1>2, <1>3, <1>4, <1>5, TableStep

\* 'unknown' is answered where no row is left; a row inserted later has a greater uuid.
LEMMA NextDenialsPast ==
    TypeOK /\ ClaimsHold /\ RecordsUnique /\ DenialsPast /\ [Next]_vars => DenialsPast'
<1> SUFFICES ASSUME TypeOK, ClaimsHold, RecordsUnique, DenialsPast, [Next]_vars,
                    NEW c \in Command
             PROVE  /\ denied'[c] <= inserted'
                    /\ Has(c, "accepted")' => denied'[c] < row'[c].uuid
    BY DEF DenialsPast
<1> USE JournalAssumption
<1>1. denied'[c] = denied[c] \/ (denied'[c] = inserted /\ row'[c] = NoRow /\ inserted' = inserted)
  <2>1. ASSUME NEW e \in Executor, Accept(e) \/ Attempt(e) \/ Mishap(e) PROVE denied' = denied
    BY <2>1 DEF Accept, Attempt, Mishap, FindMissing, FindAnswered, FindAccepted, Claim,
       ClaimRefused, LockWaitTimeout, Write, StoreRefused, Store, AfterCommit, Abandon,
       AbandonSwallowed, Aborted, AbortSwallowed, ExecutionError, Crash, history
  <2>2. ASSUME NEW q \in Query, Ask(q)
        PROVE  denied'[c] = denied[c]
               \/ (denied'[c] = inserted /\ row'[c] = NoRow /\ inserted' = inserted)
    BY <2>2 DEF TypeOK, Ask, StatusUnknown, StatusStale, StatusDelete, StatusReported, Answer,
       AnswerUnknown, history
  <2>3. ASSUME NEW d \in Command, GrowOld(d) \/ DeleteExpired(d) PROVE denied' = denied
    BY <2>3 DEF GrowOld, DeleteExpired, history
  <2>4. ASSUME NEW e \in Executor, NEW outcome \in {"committed", "failed"}, Commit(e, outcome)
        PROVE denied' = denied
    BY <2>4 DEF Commit
  <2>5. CASE UNCHANGED vars BY <2>5 DEF vars, history
  <2>. QED BY <2>1, <2>2, <2>3, <2>4, <2>5 DEF Next, Surroundings
<1>2. inserted' >= inserted /\ RowFollows(c)
  BY RowStep
<1>3. denied[c] \in Nat /\ inserted \in Nat /\ inserted' \in Nat /\ denied[c] <= inserted
  BY NextTypeOK DEF TypeOK, DenialsPast
<1>. QED BY <1>1, <1>2, <1>3 DEF DenialsPast, RowFollows, Has

-----------------------------------------------------------------------------
(* The theorems                                                             *)

\* The inductive invariant: it holds at first ...
LEMMA InitJournalInv == Init => JournalInv
<1> SUFFICES ASSUME Init PROVE JournalInv
    OBVIOUS
<1>1. Runs = {}
  BY DEF Init, Runs
<1>. QED
  BY <1>1, InitTypeOK, JournalAssumption, SMT
  DEF Init, JournalInv, ClaimsHold, InTransaction, ReadsMatch, RecordsUnique, AtomicEffect,
      RunsRecorded, DenialsPast, Has

\* ... and every step keeps it.
LEMMA NextJournalInv == JournalInv /\ [Next]_vars => JournalInv'
  BY NextTypeOK, NextClaimsHold, NextReadsMatch, NextRecordsUnique, NextAtomicEffect,
     NextRunsRecorded, NextDenialsPast DEF JournalInv

\* The invariant holds in every reachable state: claims are exclusive from the UPDATE to
\* the end of their transaction, and the table tells what the runs did.
THEOREM JournalInvariant == Spec => []JournalInv
  BY InitJournalInv, NextJournalInv, PTL DEF Spec

\* Every variable has its type: in particular a commit always finds the row it claimed.
THEOREM TypeCorrect == Spec => []TypeOK
<1>1. JournalInv => TypeOK
  BY DEF JournalInv
<1>. QED BY <1>1, JournalInvariant, PTL

\* The changes of a run are durable all together or not at all, although an execution may
\* go on writing after the database has rolled its transaction back: the guarded query
\* runner is what keeps those writes from being kept one by one.
THEOREM EffectsAtomic == Spec => []AtomicEffect
<1>1. JournalInv => AtomicEffect
  BY DEF JournalInv
<1>. QED BY <1>1, JournalInvariant, PTL

\* A command takes effect at most once while its record is retained.
THEOREM CommandsAtMostOnce == Spec => []AtMostOnce
<1>1. JournalInv => AtMostOnce
  BY DEF JournalInv, RunsRecorded, AtMostOnce
<1>. QED BY <1>1, JournalInvariant, PTL

\* What took effect under an id is the request its record's digest names.
THEOREM IdsNameOneRequest == Spec => []OneRequestPerId
<1>1. JournalInv => OneRequestPerId
  BY DEF JournalInv, RunsRecorded, OneRequestPerId
<1>. QED BY <1>1, JournalInvariant, PTL

\* No command that was called unknown takes effect without being accepted anew.
THEOREM UnknownsFinal == Spec => UnknownIsFinal
<1>1. ASSUME JournalInv, [Next]_vars, NEW c \in Command,
             ~Has(c, "committed"), Has(c, "committed")'
      PROVE  row'[c].uuid > denied[c]
  <2>1. TypeOK /\ ClaimsHold /\ DenialsPast /\ RowFollows(c)
    BY <1>1, RowStep DEF JournalInv
  <2>2. row[c] # NoRow /\ row[c] \in Row /\ row'[c].uuid = row[c].uuid
    BY <1>1, <2>1 DEF RowFollows, Has, TypeOK
  <2>3. row[c].status = "accepted"
    BY <1>1, <2>2 DEF Row, Has
  <2>. QED BY <2>1, <2>2, <2>3, JournalAssumption DEF DenialsPast, Has, TypeOK, Row
<1>2. JournalInv /\ [Next]_vars =>
        [\A c \in Command :
           ~Has(c, "committed") /\ Has(c, "committed")' => row'[c].uuid > denied[c]]_vars
  BY <1>1
<1>. QED BY <1>2, JournalInvariant, PTL DEF Spec, UnknownIsFinal

-----------------------------------------------------------------------------
(* The journal implements the ledger                                        *)

\* An empty journal is an empty ledger.
LEMMA LedgerInitial == Init => Ledger!LedgerInit
<1> SUFFICES ASSUME Init PROVE Ledger!LedgerInit
    OBVIOUS
<1>1. OnRecord = [c \in Command |-> 0]
  BY DEF Init, OnRecord
<1>2. \A n \in 1 .. MaxRows : Fate[n] = "unborn"
  BY JournalAssumption DEF Init, Fate, FateOf
<1>3. Fate = [n \in 1 .. MaxRows |-> "unborn"]
  BY <1>2 DEF Fate
<1>. QED BY <1>1, <1>3 DEF Ledger!LedgerInit, Init

\* What Fate says of an acceptance that has not taken effect twice.
FateSoFar(n) ==
    IF n > inserted THEN "unborn"
    ELSE IF \E r \in Runs : r.uuid = n THEN "done"
    ELSE IF \E c \in Command : OnRecord[c] = n THEN "open"
    ELSE "void"

\* Every change of the table is a step of the ledger or none.
LEMMA LedgerStep == JournalInv /\ [Next]_vars => [Ledger!LedgerNext]_Ledger!ledgerVars
<1> SUFFICES ASSUME JournalInv, [Next]_vars
             PROVE  Ledger!LedgerNext \/ UNCHANGED Ledger!ledgerVars
    BY DEF Ledger!ledgerVars
<1> USE JournalAssumption
<1>a. TypeOK /\ ClaimsHold /\ RecordsUnique /\ RunsRecorded
  BY DEF JournalInv
<1>b. /\ inserted \in Nat
      /\ \A c \in Command : row[c] # NoRow => row[c] \in Row /\ row[c].uuid \in 1 .. inserted
      /\ Runs \subseteq Run
  BY <1>a DEF TypeOK, Row, RecordsUnique, Runs
<1>c. /\ \A c \in Command : OnRecord[c] = IF row[c] = NoRow THEN 0 ELSE row[c].uuid
      /\ \A c \in Command : OnRecord'[c] = IF row'[c] = NoRow THEN 0 ELSE row'[c].uuid
      /\ \A n \in 1 .. MaxRows : Fate[n] = FateSoFar(n) /\ Fate'[n] = FateSoFar(n)'
  <2>1. \A r, s \in Runs : r.uuid = s.uuid => r = s
    BY <1>a DEF RunsRecorded
  <2>2. \A r, s \in Runs' : r.uuid = s.uuid => r = s
    BY <1>a, NextRunsRecorded DEF RunsRecorded
  <2>3. ASSUME NEW n \in 1 .. MaxRows PROVE Fate[n] = FateSoFar(n)
    BY <2>1 DEF Fate, FateOf, RanOnce, FateSoFar
  <2>4. ASSUME NEW n \in 1 .. MaxRows PROVE Fate'[n] = FateSoFar(n)'
    BY <2>2 DEF Fate, FateOf, RanOnce, FateSoFar
  <2>. QED BY <2>3, <2>4 DEF OnRecord
<1>d. Fate = [n \in 1 .. MaxRows |-> Fate[n]] /\ Fate' = [n \in 1 .. MaxRows |-> Fate'[n]]
  BY DEF Fate
<1>1. CASE Keeps
  <2>1. Runs' = Runs /\ OnRecord' = OnRecord /\ inserted' = inserted
    BY <1>1, RunsKept DEF Keeps, OnRecord
  <2>2. Fate' = Fate
    BY <2>1 DEF Fate, FateOf, RanOnce
  <2>. QED BY <2>1, <2>2 DEF Ledger!ledgerVars
<1>2. ASSUME NEW e \in Executor, Commits(e) PROVE Ledger!TakeEffect(CmdOf[e])
  <2> DEFINE c == CmdOf[e]
  <2>1. /\ c \in Command /\ row[c] \in Row /\ row[c] # NoRow
        /\ row[c].status = "accepted" /\ row[c].uuid = seen[e]
    BY <1>2, <1>a DEF Commits, ClaimsHold, Has, TypeOK
  <2>2. OnRecord' = OnRecord
    <3>1. row'[c] = [row[c] EXCEPT !.status = "committed", !.age = "fresh"]
      BY <1>2, <1>a, <2>1 DEF Commits, TypeOK
    <3>2. [row[c] EXCEPT !.status = "committed", !.age = "fresh"] \in Row
      BY <2>1 DEF Row, Age
    <3>3. row'[c] # NoRow /\ row'[c].uuid = row[c].uuid
      BY <2>1, <3>1, <3>2 DEF Row
    <3>4. \A d \in Command \ {c} : row'[d] = row[d]
      BY <1>2, <1>a DEF Commits, TypeOK
    <3>. QED BY <2>1, <3>3, <3>4 DEF OnRecord
  <2>3. Runs' = Runs \cup {RunOf(e)} /\ RunOf(e).uuid = seen[e] /\ inserted' = inserted
    BY <1>2, <1>a, CommitsRuns DEF RunOf, Commits
  <2>4. OnRecord[c] = seen[e] /\ seen[e] \in 1 .. inserted /\ seen[e] \in 1 .. MaxRows
    BY <1>a, <1>b, <1>c, <2>1 DEF Row
  <2>5. \A r \in Runs : r.uuid # seen[e]
    BY <1>a, <2>1 DEF RunsRecorded
  <2>6. Fate[seen[e]] = "open"
    BY <1>b, <1>c, <2>1, <2>4, <2>5 DEF FateSoFar
  <2>7. Fate'[seen[e]] = "done"
    BY <1>b, <1>c, <2>3, <2>4 DEF FateSoFar
  <2>8. \A n \in 1 .. MaxRows : n # seen[e] => Fate'[n] = Fate[n]
    BY <1>c, <2>2, <2>3 DEF FateSoFar
  <2>9. Fate' = [Fate EXCEPT ![seen[e]] = "done"]
    BY <1>d, <2>4, <2>7, <2>8
  <2>. QED BY <1>b, <2>2, <2>3, <2>4, <2>6, <2>9 DEF Ledger!TakeEffect
<1>3. ASSUME NEW c \in Command, Inserts(c) PROVE Ledger!Open(c)
  <2>1. PICK d \in Digest :
          row' = [row EXCEPT ![c] = [uuid |-> inserted', digest |-> d,
                                     status |-> "accepted", age |-> "fresh"]]
    BY <1>3 DEF Inserts
  <2>2. /\ row[c] = NoRow /\ inserted' = inserted + 1 /\ inserted' \in 1 .. MaxRows
        /\ Runs' = Runs
    BY <1>3, <1>b, RunsKept DEF Inserts
  <2>3. [uuid |-> inserted', digest |-> d, status |-> "accepted", age |-> "fresh"] \in Row
    BY <2>2 DEF Row, Age
  <2>4. row'[c] # NoRow /\ row'[c].uuid = inserted + 1
    BY <1>a, <2>1, <2>2, <2>3 DEF TypeOK
  <2>5. \A b \in Command \ {c} : row'[b] = row[b]
    BY <1>a, <2>1 DEF TypeOK
  <2>6. OnRecord' = [OnRecord EXCEPT ![c] = inserted + 1]
    BY <2>4, <2>5 DEF OnRecord
  <2>7. Fate'[inserted + 1] = "open"
    <3>1. OnRecord'[c] = inserted + 1
      BY <2>6 DEF OnRecord
    <3>2. ~ \E r \in Runs : r.uuid = inserted + 1
      BY <1>a, <1>b DEF RunsRecorded, Run
    <3>. QED BY <1>b, <1>c, <2>2, <3>1, <3>2 DEF FateSoFar
  <2>8. \A n \in 1 .. MaxRows : n # inserted + 1 => Fate'[n] = Fate[n]
    <3> SUFFICES ASSUME NEW n \in 1 .. MaxRows, n # inserted + 1 PROVE Fate'[n] = Fate[n]
        OBVIOUS
    <3>1. (\E b \in Command : OnRecord'[b] = n) <=> (\E b \in Command : OnRecord[b] = n)
      BY <1>c, <2>2, <2>4, <2>5
    <3>2. n > inserted' <=> n > inserted
      BY <1>b, <2>2
    <3>. QED BY <1>c, <2>2, <3>1, <3>2 DEF FateSoFar
  <2>9. Fate' = [Fate EXCEPT ![inserted + 1] = "open"]
    BY <1>d, <2>2, <2>7, <2>8
  <2>. QED BY <1>b, <1>c, <2>2, <2>6, <2>9 DEF Ledger!Open, TypeOK
<1>4. ASSUME NEW c \in Command, Drops(c) PROVE Ledger!Drop(c)
  <2> DEFINE u == row[c].uuid
  <2>1. Runs' = Runs /\ inserted' = inserted /\ row[c] # NoRow
    BY <1>4, RunsKept DEF Drops
  <2>2. row'[c] = NoRow /\ \A b \in Command \ {c} : row'[b] = row[b]
    BY <1>4, <1>a DEF Drops, TypeOK
  <2>3. u \in 1 .. inserted /\ u \in 1 .. MaxRows /\ OnRecord[c] = u
    BY <1>b, <1>c, <2>1 DEF Row
  <2>4. OnRecord' = [OnRecord EXCEPT ![c] = 0]
    BY <2>2 DEF OnRecord
  <2>5. \A b \in Command : OnRecord'[b] # u
    BY <1>a, <1>c, <2>1, <2>2, <2>3 DEF RecordsUnique
  <2>6. Fate'[u] = IF Fate[u] = "open" THEN "void" ELSE Fate[u]
    BY <1>b, <1>c, <2>1, <2>3, <2>5 DEF FateSoFar
  <2>7. \A n \in 1 .. MaxRows : n # u => Fate'[n] = Fate[n]
    <3> SUFFICES ASSUME NEW n \in 1 .. MaxRows, n # u PROVE Fate'[n] = Fate[n]
        OBVIOUS
    <3>1. (\E b \in Command : OnRecord'[b] = n) <=> (\E b \in Command : OnRecord[b] = n)
      BY <1>c, <2>1, <2>2
    <3>. QED BY <1>c, <2>1, <3>1 DEF FateSoFar
  <2>8. Fate' = [Fate EXCEPT ![u] = IF @ = "open" THEN "void" ELSE @]
    BY <1>d, <2>3, <2>6, <2>7
  <2>. QED BY <1>b, <2>1, <2>3, <2>4, <2>8 DEF Ledger!Drop
<1>5. ASSUME NEW c \in Command, Ages(c) PROVE UNCHANGED Ledger!ledgerVars
  <2>1. Runs' = Runs /\ inserted' = inserted
    BY <1>5, RunsKept DEF Ages
  <2>2. PICK a \in Age : row' = [row EXCEPT ![c] = [@ EXCEPT !.age = a]]
    BY <1>5 DEF Ages
  <2>3. row'[c] = [row[c] EXCEPT !.age = a] /\ row[c] \in Row /\ row[c] # NoRow
    BY <1>5, <1>a, <1>b, <2>2 DEF TypeOK, Ages
  <2>4. row'[c] # NoRow /\ row'[c].uuid = row[c].uuid
    BY <2>3 DEF Row
  <2>5. \A b \in Command \ {c} : row'[b] = row[b]
    BY <1>a, <2>2 DEF TypeOK
  <2>6. OnRecord' = OnRecord
    BY <2>3, <2>4, <2>5 DEF OnRecord
  <2>7. Fate' = Fate
    BY <2>1, <2>6 DEF Fate, FateOf, RanOnce
  <2>. QED BY <2>1, <2>6, <2>7 DEF Ledger!ledgerVars
<1>6. \A e \in Executor : CmdOf[e] \in Command
  OBVIOUS
<1>. QED BY <1>a, <1>1, <1>2, <1>3, <1>4, <1>5, <1>6, TableStep DEF Ledger!LedgerNext

\* Every acceptance has one fate: the journal, with its transactions, locks, retries and
\* status deletions, implements the ledger.
THEOREM JournalImplementsLedger == Spec => ImplementsLedger
  BY LedgerInitial, LedgerStep, JournalInvariant, PTL DEF Spec, ImplementsLedger, Ledger!LedgerSpec


-----------------------------------------------------------------------------
(* The journal inside the delivery                                         *)

LEMMA JournalStep == [DeliveryNext]_deliveryVars => [Next]_vars
  BY DEF DeliveryNext, CommitAndEnqueue, Next, deliveryVars

LEMMA JournalWithin == DeliverySpec => []JournalInv
<1>1. DeliveryInit => Init
  BY DEF DeliveryInit
<1>. QED BY <1>1, JournalStep, InitJournalInv, NextJournalInv, PTL DEF DeliverySpec

\* What a step does to the outbox: a commit enqueues the event of the row it claimed,
\* and nothing else touches a row that is not there yet.
LEMMA OutboxStep ==
    ASSUME JournalInv, [DeliveryNext]_deliveryVars
    PROVE  \/ UNCHANGED outboxVars
           \/ O!Dispatch
           \/ \E v \in Event : O!Enqueue(v)
<1> USE JournalAssumption DEF JournalInv, TypeOK
<1>1. ASSUME NEW e \in Executor, NEW outcome \in {"committed", "failed"}, CommitAndEnqueue(e, outcome)
      PROVE  \E v \in Event : O!Enqueue(v)
  <2>1. InTransaction(e) /\ Has(CmdOf[e], "accepted") /\ row[CmdOf[e]].uuid = seen[e]
    BY <1>1 DEF CommitAndEnqueue, Commit, ClaimsHold, InTransaction
  <2>2. row[CmdOf[e]] \in Row
    BY <2>1 DEF Has
  <2>3. seen[e] \in Event
    BY <2>1, <2>2 DEF Row, Event
  <2>. QED BY <1>1, <2>3 DEF CommitAndEnqueue
<1>. QED BY <1>1 DEF DeliveryNext, deliveryVars

-----------------------------------------------------------------------------
(* Types of the outbox                                                     *)

LEMMA EventNumbered == Event \subseteq Nat /\ None \notin Event
  BY DeliveryAssumption, JournalAssumption DEF Event

LEMMA InitOutboxTypeOK == DeliveryInit => OutboxTypeOK
  BY DeliveryAssumption DEF DeliveryInit, O!OutboxInit, OutboxTypeOK, O!OutboxTypeOK, O!Settled

\* The two halves of the type invariant: the rows, and what the dispatchers remember.
RowsOK ==
    /\ status \in [Event -> {"absent", "waiting", "pending", "dispatching",
                            "published", "dead", "removed"}]
    /\ owner \in [Event -> Dispatcher \cup {None}]
    /\ stale \subseteq Event
    /\ attempts \in [Event -> 0 .. MaxDispatch + 1]
    /\ \A v \in Event : status[v] = "dispatching" <=> owner[v] # None
    /\ \A v \in stale : status[v] = "dispatching"

ProcsOK ==
    /\ dpc \in [Dispatcher -> {"idle", "chosen", "taken", "publishing", "sent", "unsent"}]
    /\ held \in [Dispatcher -> Event \cup {None}]
    /\ tries \in [Dispatcher -> 0 .. MaxDispatch + 1]
    /\ \A d \in Dispatcher : dpc[d] = "idle" <=> held[d] = None

LEMMA Halves ==
    OutboxTypeOK <=> RowsOK /\ ProcsOK /\ delivered \subseteq Event /\ mishaps \in 0 .. MaxMishaps
<1>1. {"absent", "waiting", "pending", "dispatching"} \cup O!Settled
        = {"absent", "waiting", "pending", "dispatching", "published", "dead", "removed"}
  BY DEF O!Settled
<1>. QED BY <1>1 DEF OutboxTypeOK, O!OutboxTypeOK, RowsOK, ProcsOK

LEMMA SettleKeepsRows ==
    ASSUME RowsOK, NEW v \in Event, NEW s \in {"waiting", "published", "dead"}, O!SettleRow(v, s)
    PROVE  RowsOK'
  BY DeliveryAssumption DEF RowsOK, O!SettleRow

LEMMA OwnedKeepsRows ==
    ASSUME RowsOK, ProcsOK, NEW d \in Dispatcher, held[d] # None,
           NEW s \in {"waiting", "dead"}, O!SettleOwned(d, s)
    PROVE  RowsOK'
<1>1. held[d] \in Event
  BY DEF ProcsOK
<1>2. CASE UNCHANGED <<status, owner, stale, attempts>>
  BY <1>2 DEF RowsOK
<1>3. CASE O!SettleRow(held[d], s)
  BY <1>1, <1>3, SettleKeepsRows
<1>. QED BY <1>2, <1>3 DEF O!SettleOwned, O!rowVars

LEMMA NextRowKeepsProcs ==
    ASSUME ProcsOK, NEW d \in Dispatcher, O!NextRow(d) PROVE ProcsOK'
  BY DeliveryAssumption DEF ProcsOK, O!NextRow, O!Step

LEMMA StepKeepsProcs ==
    ASSUME ProcsOK, NEW d \in Dispatcher, held[d] # None, UNCHANGED <<held, tries>>,
           NEW s \in {"taken", "sent", "unsent"}, O!Step(d, s)
    PROVE  ProcsOK'
  BY DEF ProcsOK, O!Step

\* A step of the outbox, one case for each action.
LEMMA NextOutboxTypeOK ==
    OutboxTypeOK /\ (O!Dispatch \/ \E v \in Event : O!Enqueue(v)) => OutboxTypeOK'
<1> SUFFICES ASSUME RowsOK, ProcsOK, delivered \subseteq Event, mishaps \in 0 .. MaxMishaps,
                    O!Dispatch \/ \E v \in Event : O!Enqueue(v)
             PROVE  RowsOK' /\ ProcsOK' /\ delivered' \subseteq Event /\ mishaps' \in 0 .. MaxMishaps
  <2>1. OutboxTypeOK' <=> (RowsOK /\ ProcsOK /\ delivered \subseteq Event /\ mishaps \in 0 .. MaxMishaps)'
    BY Halves, PTL
  <2>. QED BY <2>1, Halves
<1> DEFINE Kept == RowsOK' /\ ProcsOK' /\ delivered' \subseteq Event /\ mishaps' \in 0 .. MaxMishaps
<1> USE DeliveryAssumption, EventNumbered DEF O!rowVars, O!procVars
<1>a. UNCHANGED <<status, owner, stale, attempts>> => RowsOK'
  BY DEF RowsOK
<1>b. UNCHANGED <<dpc, held, tries>> => ProcsOK'
  BY DEF ProcsOK
<1>c. \A d \in Dispatcher : dpc[d] # "idle" => held[d] # None /\ held[d] \in Event
  BY DEF ProcsOK
<1>1. ASSUME NEW v \in Event, O!Enqueue(v) PROVE Kept
  <2>1. RowsOK' BY <1>1 DEF O!Enqueue, RowsOK
  <2>. QED BY <1>1, <1>b, <2>1 DEF O!Enqueue
<1>2. ASSUME NEW d \in Dispatcher, NEW v \in Event, O!Choose(d, v) PROVE Kept
  <2>1. ProcsOK' BY <1>2 DEF O!Choose, O!Step, ProcsOK
  <2>. QED BY <1>2, <1>a, <2>1 DEF O!Choose
<1>3. ASSUME NEW d \in Dispatcher, O!Take(d) PROVE Kept
  <2>1. held[d] \in Event /\ held[d] # None
    BY <1>3, <1>c DEF O!Take
  <2>2. RowsOK'
    <3>1. /\ status' = [status EXCEPT ![held[d]] = "dispatching"]
          /\ owner' = [owner EXCEPT ![held[d]] = d]
          /\ stale' \subseteq stale
      BY <1>3 DEF O!Take
    <3>2. attempts' \in [Event -> 0 .. MaxDispatch + 1]
      <4>1. attempts[held[d]] \in 0 .. MaxDispatch + 1 /\ attempts \in [Event -> 0 .. MaxDispatch + 1]
        BY <2>1 DEF RowsOK
      <4>2. attempts' = [attempts EXCEPT ![held[d]] = IF @ > MaxDispatch THEN @ ELSE @ + 1]
        BY <1>3 DEF O!Take
      <4>3. (IF attempts[held[d]] > MaxDispatch THEN attempts[held[d]] ELSE attempts[held[d]] + 1)
              \in 0 .. MaxDispatch + 1
        BY <4>1
      <4>. QED BY <4>1, <4>2, <4>3
    <3>. QED BY <2>1, <3>1, <3>2 DEF RowsOK
  <2>3. ProcsOK'
    BY <1>3, <2>1, StepKeepsProcs DEF O!Take
  <2>. QED BY <1>3, <2>2, <2>3 DEF O!Take
<1>4. ASSUME NEW d \in Dispatcher, O!TakeMissed(d) PROVE Kept
  BY <1>4, <1>a, NextRowKeepsProcs DEF O!TakeMissed
<1>5. ASSUME NEW d \in Dispatcher, O!Confirm(d) PROVE Kept
  <2>1. CASE owner[held[d]] = d
    <3>1. held[d] \in Event /\ held[d] # None
      BY <1>5, <1>c DEF O!Confirm
    <3>2. /\ dpc' = [dpc EXCEPT ![d] = "publishing"] /\ held' = held
          /\ tries' = [tries EXCEPT ![d] = attempts[held[d]]]
      BY <1>5, <2>1 DEF O!Confirm, O!Step
    <3>3. attempts[held[d]] \in 0 .. MaxDispatch + 1
      BY <3>1 DEF RowsOK
    <3>4. ProcsOK'
      BY <3>1, <3>2, <3>3 DEF ProcsOK
    <3>. QED BY <1>5, <1>a, <3>4 DEF O!Confirm
  <2>2. CASE owner[held[d]] # d
    BY <1>5, <1>a, <2>2, NextRowKeepsProcs DEF O!Confirm
  <2>. QED BY <2>1, <2>2
<1>6. ASSUME NEW d \in Dispatcher, NEW accepted \in BOOLEAN, NEW answer \in {"sent", "unsent"},
             O!Publish(d, accepted, answer)
      PROVE  Kept
  <2>1. held[d] \in Event /\ held[d] # None
    BY <1>6, <1>c DEF O!Publish
  <2>. QED BY <1>6, <1>a, <2>1, StepKeepsProcs DEF O!Publish
<1>7. ASSUME NEW d \in Dispatcher, O!MarkPublished(d) PROVE Kept
  <2>1. held[d] \in Event
    BY <1>7, <1>c DEF O!MarkPublished
  <2>. QED BY <1>7, <2>1, SettleKeepsRows, NextRowKeepsProcs DEF O!MarkPublished
<1>8. ASSUME NEW d \in Dispatcher, O!MarkFailed(d) PROVE Kept
  BY <1>8, <1>a, <1>c, StepKeepsProcs DEF O!MarkFailed
<1>9. ASSUME NEW d \in Dispatcher, O!MarkDead(d) PROVE Kept
  BY <1>9, <1>c, OwnedKeepsRows, NextRowKeepsProcs DEF O!MarkDead
<1>10. ASSUME NEW d \in Dispatcher, O!ReleaseForRetry(d) PROVE Kept
  BY <1>10, <1>c, OwnedKeepsRows, NextRowKeepsProcs DEF O!ReleaseForRetry
<1>11. ASSUME NEW d \in Dispatcher, O!DrainDies(d) PROVE Kept
  BY <1>11, <1>a, NextRowKeepsProcs DEF O!DrainDies
<1>12. ASSUME NEW v \in Event, O!RetryDue(v) \/ O!DeletePublishedBefore(v) PROVE Kept
  <2>1. RowsOK' BY <1>12 DEF O!RetryDue, O!DeletePublishedBefore, RowsOK
  <2>. QED BY <1>12, <1>b, <2>1 DEF O!RetryDue, O!DeletePublishedBefore
<1>13. ASSUME NEW v \in Event, O!LeaseExpires(v) PROVE Kept
  <2>1. RowsOK' BY <1>13 DEF O!LeaseExpires, RowsOK
  <2>2. mishaps' \in 0 .. MaxMishaps BY <1>13 DEF O!LeaseExpires
  <2>. QED BY <1>13, <1>b, <2>1, <2>2 DEF O!LeaseExpires
<1>. QED
  BY <1>1, <1>2, <1>3, <1>4, <1>5, <1>6, <1>7, <1>8, <1>9, <1>10, <1>11, <1>12, <1>13
  DEF O!Dispatch, O!Drain

\* The variables of the outbox have their types in every reachable state; a row carries a
\* token exactly while it is in dispatch, and only a dispatcher at work holds a row.
THEOREM OutboxTyped == DeliverySpec => []OutboxTypeOK
<1>1. JournalInv /\ OutboxTypeOK /\ [DeliveryNext]_deliveryVars => OutboxTypeOK'
  <2>1. UNCHANGED outboxVars /\ OutboxTypeOK => OutboxTypeOK'
    BY DEF outboxVars, OutboxTypeOK, O!OutboxTypeOK
  <2>. QED BY <2>1, OutboxStep, NextOutboxTypeOK
<1>. QED BY <1>1, InitOutboxTypeOK, JournalWithin, PTL DEF DeliverySpec

-----------------------------------------------------------------------------
(* No event is lost                                                        *)

\* What a dispatcher remembers of its row is not more than what the row says, and what it
\* believes to be sent the broker has.
Remembered ==
    \A d \in Dispatcher :
        /\ dpc[d] \in {"publishing", "sent", "unsent"} => tries[d] <= attempts[held[d]]
        /\ dpc[d] = "sent" => held[d] \in delivered

\* Attempts are only ever added, and the broker gives nothing back.
LEMMA NothingTakenBack ==
    ASSUME OutboxTypeOK, O!Dispatch \/ \E v \in Event : O!Enqueue(v)
    PROVE  (\A v \in Event : attempts'[v] >= attempts[v]) /\ delivered \subseteq delivered'
<1>0. \A v \in Event : attempts[v] \in Nat
  BY DeliveryAssumption DEF OutboxTypeOK, O!OutboxTypeOK
<1>a. attempts' = attempts => \A v \in Event : attempts'[v] >= attempts[v]
  BY <1>0
<1>1. ASSUME NEW d \in Dispatcher, O!Take(d)
      PROVE  (\A v \in Event : attempts'[v] >= attempts[v]) /\ delivered' = delivered
  <2>1. attempts' = [attempts EXCEPT ![held[d]] = IF @ > MaxDispatch THEN @ ELSE @ + 1]
    BY <1>1 DEF O!Take
  <2>2. \A v \in Event : attempts'[v] = attempts[v] \/ attempts'[v] = attempts[v] + 1
    BY <2>1 DEF OutboxTypeOK, O!OutboxTypeOK
  <2>. QED BY <1>0, <1>1, <2>2 DEF O!Take
<1>2. ASSUME NEW d \in Dispatcher, O!Drain(d) \/ O!DrainDies(d), ~O!Take(d)
      PROVE  attempts' = attempts /\ delivered \subseteq delivered'
  BY <1>2 DEF O!Drain, O!DrainDies, O!Choose, O!TakeMissed, O!Confirm, O!Publish, O!MarkPublished,
     O!MarkFailed, O!MarkDead, O!ReleaseForRetry, O!SettleOwned, O!SettleRow, O!rowVars
<1>3. ASSUME NEW v \in Event,
             O!Enqueue(v) \/ O!RetryDue(v) \/ O!LeaseExpires(v) \/ O!DeletePublishedBefore(v)
      PROVE  attempts' = attempts /\ delivered' = delivered
  BY <1>3 DEF O!Enqueue, O!RetryDue, O!LeaseExpires, O!DeletePublishedBefore
<1>. QED BY <1>a, <1>1, <1>2, <1>3 DEF O!Dispatch

LEMMA NextRemembered ==
    ASSUME OutboxTypeOK, Remembered, O!Dispatch \/ \E v \in Event : O!Enqueue(v)
    PROVE  Remembered'
<1>a. /\ \A v \in Event : attempts'[v] >= attempts[v] /\ attempts[v] \in Nat /\ attempts'[v] \in Nat
      /\ delivered \subseteq delivered'
      /\ \A d \in Dispatcher : tries[d] \in Nat
      /\ \A d \in Dispatcher : dpc[d] # "idle" => held[d] \in Event
  BY NothingTakenBack, NextOutboxTypeOK, DeliveryAssumption DEF OutboxTypeOK, O!OutboxTypeOK
<1>b. ASSUME NEW d \in Dispatcher, dpc'[d] = dpc[d], held'[d] = held[d], tries'[d] = tries[d]
      PROVE  /\ dpc'[d] \in {"publishing", "sent", "unsent"} => tries'[d] <= attempts'[held'[d]]
             /\ dpc'[d] = "sent" => held'[d] \in delivered'
  <2>1. CASE dpc[d] \in {"publishing", "sent", "unsent"}
    <3>1. /\ held[d] \in Event /\ tries[d] <= attempts[held[d]]
          /\ attempts'[held[d]] >= attempts[held[d]]
          /\ attempts[held[d]] \in Nat /\ attempts'[held[d]] \in Nat /\ tries[d] \in Nat
      BY <1>a, <2>1 DEF Remembered
    <3>2. tries[d] <= attempts'[held[d]]
      BY <3>1
    <3>. QED BY <1>a, <1>b, <3>2 DEF Remembered
  <2>. QED BY <1>b, <2>1
<1>c. ASSUME NEW d \in Dispatcher, dpc' = [dpc EXCEPT ![d] = dpc'[d]], held' = [held EXCEPT ![d] = held'[d]],
             tries' = [tries EXCEPT ![d] = tries'[d]],
             dpc'[d] \in {"publishing", "sent", "unsent"} => tries'[d] <= attempts'[held'[d]],
             dpc'[d] = "sent" => held'[d] \in delivered'
      PROVE  Remembered'
  <2>1. \A c \in Dispatcher \ {d} : dpc'[c] = dpc[c] /\ held'[c] = held[c] /\ tries'[c] = tries[c]
    BY <1>c DEF OutboxTypeOK, O!OutboxTypeOK
  <2>. QED BY <1>b, <1>c, <2>1 DEF Remembered
<1>d. ASSUME NEW d \in Dispatcher, O!NextRow(d) PROVE Remembered'
  <2>1. dpc'[d] = "idle" /\ dpc' = [dpc EXCEPT ![d] = dpc'[d]]
        /\ held' = [held EXCEPT ![d] = held'[d]] /\ tries' = [tries EXCEPT ![d] = tries'[d]]
    BY <1>d DEF O!NextRow, O!Step, OutboxTypeOK, O!OutboxTypeOK
  <2>. QED BY <1>c, <2>1
<1>e. ASSUME NEW d \in Dispatcher, NEW s, O!Step(d, s)
      PROVE  dpc' = [dpc EXCEPT ![d] = dpc'[d]] /\ dpc'[d] = s
  BY <1>e DEF O!Step, OutboxTypeOK, O!OutboxTypeOK
<1>f. ASSUME NEW d \in Dispatcher
      PROVE  /\ held' = held => held' = [held EXCEPT ![d] = held'[d]]
             /\ tries' = tries => tries' = [tries EXCEPT ![d] = tries'[d]]
  BY DEF OutboxTypeOK, O!OutboxTypeOK
<1>1. ASSUME NEW d \in Dispatcher, NEW v \in Event, O!Choose(d, v) PROVE Remembered'
  <2>1. held' = [held EXCEPT ![d] = held'[d]]
    BY <1>1 DEF O!Choose, OutboxTypeOK, O!OutboxTypeOK
  <2>2. O!Step(d, "chosen") /\ tries' = tries
    BY <1>1 DEF O!Choose
  <2>. QED BY <1>c, <1>e, <1>f, <2>1, <2>2
<1>2. ASSUME NEW d \in Dispatcher, O!Take(d) PROVE Remembered'
  <2>1. O!Step(d, "taken") /\ held' = held /\ tries' = tries
    BY <1>2 DEF O!Take
  <2>. QED BY <1>c, <1>e, <1>f, <2>1
<1>3. ASSUME NEW d \in Dispatcher, O!TakeMissed(d) PROVE Remembered'
  BY <1>3, <1>d DEF O!TakeMissed
<1>4. ASSUME NEW d \in Dispatcher, O!Confirm(d) PROVE Remembered'
  <2>1. CASE O!NextRow(d) BY <1>d, <2>1
  <2>2. CASE ~O!NextRow(d)
    <3>1. /\ O!Step(d, "publishing") /\ held' = held /\ attempts' = attempts
          /\ tries' = [tries EXCEPT ![d] = attempts[held[d]]] /\ dpc[d] # "idle"
      BY <1>4, <2>2 DEF O!Confirm, O!rowVars
    <3>2. tries'[d] = attempts[held[d]] /\ tries' = [tries EXCEPT ![d] = tries'[d]]
      BY <3>1 DEF OutboxTypeOK, O!OutboxTypeOK
    <3>3. attempts'[held'[d]] = attempts[held[d]] /\ attempts[held[d]] \in Nat
      BY <1>a, <3>1
    <3>4. tries'[d] <= attempts'[held'[d]]
      BY <3>2, <3>3
    <3>5. dpc'[d] = "publishing" /\ dpc' = [dpc EXCEPT ![d] = dpc'[d]]
      BY <1>e, <3>1
    <3>6. held' = [held EXCEPT ![d] = held'[d]]
      BY <1>f, <3>1
    <3>. QED BY <1>c, <3>2, <3>4, <3>5, <3>6
  <2>. QED BY <2>1, <2>2
<1>5. ASSUME NEW d \in Dispatcher, NEW accepted \in BOOLEAN, NEW answer \in {"sent", "unsent"},
             O!Publish(d, accepted, answer)
      PROVE  Remembered'
  <2>1. /\ O!Step(d, answer) /\ held' = held /\ tries' = tries /\ attempts' = attempts
        /\ dpc[d] = "publishing" /\ (answer = "sent" => held[d] \in delivered')
    BY <1>5 DEF O!Publish, O!rowVars
  <2>2. tries[d] <= attempts[held[d]]
    BY <2>1 DEF Remembered
  <2>. QED BY <1>c, <1>e, <1>f, <2>1, <2>2
<1>6. ASSUME NEW d \in Dispatcher, O!MarkPublished(d) PROVE Remembered'
  BY <1>6, <1>d DEF O!MarkPublished
<1>7. ASSUME NEW d \in Dispatcher, O!MarkFailed(d) PROVE Remembered'
  <2>1. /\ O!Step(d, "unsent") /\ held' = held /\ tries' = tries /\ attempts' = attempts
        /\ dpc[d] = "sent"
    BY <1>7 DEF O!MarkFailed, O!rowVars
  <2>2. tries[d] <= attempts[held[d]]
    BY <2>1 DEF Remembered
  <2>. QED BY <1>c, <1>e, <1>f, <2>1, <2>2
<1>8. ASSUME NEW d \in Dispatcher, O!MarkDead(d) \/ O!ReleaseForRetry(d) \/ O!DrainDies(d)
      PROVE  Remembered'
  BY <1>8, <1>d DEF O!MarkDead, O!ReleaseForRetry, O!DrainDies
<1>9. ASSUME NEW v \in Event,
             O!Enqueue(v) \/ O!RetryDue(v) \/ O!LeaseExpires(v) \/ O!DeletePublishedBefore(v)
      PROVE  Remembered'
  <2>1. UNCHANGED <<dpc, held, tries>>
    BY <1>9 DEF O!Enqueue, O!RetryDue, O!LeaseExpires, O!DeletePublishedBefore, O!procVars
  <2>. QED BY <1>b, <2>1 DEF Remembered
<1>. QED BY <1>1, <1>2, <1>3, <1>4, <1>5, <1>6, <1>7, <1>8, <1>9 DEF O!Dispatch, O!Drain

\* A row is settled by a dispatcher that has the broker's word for it or has no attempt left.
LEMMA NextNoEventLost ==
    ASSUME OutboxTypeOK, Remembered, NoEventLost, O!Dispatch \/ \E v \in Event : O!Enqueue(v)
    PROVE  NoEventLost'
<1> USE DEF O!Settled
<1>a. /\ \A v \in Event : attempts'[v] >= attempts[v] /\ attempts[v] \in Nat /\ attempts'[v] \in Nat
      /\ delivered \subseteq delivered' /\ MaxDispatch \in Nat
      /\ \A d \in Dispatcher : tries[d] \in Nat
      /\ \A d \in Dispatcher : dpc[d] # "idle" => held[d] \in Event
  BY NothingTakenBack, NextOutboxTypeOK, DeliveryAssumption DEF OutboxTypeOK, O!OutboxTypeOK
<1>b. ASSUME NEW v \in Event, v \in delivered \/ attempts[v] >= MaxDispatch
      PROVE  v \in delivered' \/ attempts'[v] >= MaxDispatch
  BY <1>a, <1>b
<1>c. ASSUME NEW u \in Event, NEW s, u \in delivered \/ attempts[u] >= MaxDispatch,
             status' = [status EXCEPT ![u] = s]
      PROVE  NoEventLost'
  <2>1. \A v \in Event \ {u} : status'[v] = status[v]
    BY <1>c DEF OutboxTypeOK, O!OutboxTypeOK
  <2>. QED BY <1>b, <1>c, <2>1 DEF NoEventLost, O!NoEventLost
<1>d. ASSUME NEW u \in Event, NEW s, s \notin O!Settled, status' = [status EXCEPT ![u] = s]
      PROVE  NoEventLost'
  <2>1. status'[u] = s /\ \A v \in Event \ {u} : status'[v] = status[v]
    BY <1>d DEF OutboxTypeOK, O!OutboxTypeOK
  <2>. QED BY <1>b, <1>d, <2>1 DEF NoEventLost, O!NoEventLost
<1>e. status' = status => NoEventLost'
  BY <1>b DEF NoEventLost, O!NoEventLost
<1>1. ASSUME NEW d \in Dispatcher, O!Take(d) PROVE NoEventLost'
  BY <1>1, <1>a, <1>d DEF O!Take
<1>2. ASSUME NEW d \in Dispatcher, O!MarkPublished(d) PROVE NoEventLost'
  BY <1>2, <1>a, <1>c DEF O!MarkPublished, O!SettleRow, Remembered
<1>3. ASSUME NEW d \in Dispatcher, O!MarkDead(d) PROVE NoEventLost'
  <2>1. held[d] \in Event /\ attempts[held[d]] >= MaxDispatch
    <3>1. held[d] \in Event /\ tries[d] >= MaxDispatch /\ tries[d] <= attempts[held[d]]
      BY <1>3, <1>a DEF O!MarkDead, Remembered
    <3>. QED BY <1>a, <3>1
  <2>2. status' = status \/ status' = [status EXCEPT ![held[d]] = "dead"]
    BY <1>3 DEF O!MarkDead, O!SettleOwned, O!SettleRow, O!rowVars
  <2>. QED BY <1>c, <1>e, <2>1, <2>2
<1>4. ASSUME NEW d \in Dispatcher, O!ReleaseForRetry(d) PROVE NoEventLost'
  <2>1. held[d] \in Event
    BY <1>4, <1>a DEF O!ReleaseForRetry
  <2>2. status' = status \/ status' = [status EXCEPT ![held[d]] = "waiting"]
    BY <1>4 DEF O!ReleaseForRetry, O!SettleOwned, O!SettleRow, O!rowVars
  <2>. QED BY <1>d, <1>e, <2>1, <2>2
<1>5. ASSUME NEW d \in Dispatcher, NEW v \in Event, O!Choose(d, v) PROVE NoEventLost'
  BY <1>5, <1>e DEF O!Choose, O!rowVars
<1>6. ASSUME NEW d \in Dispatcher, NEW accepted \in BOOLEAN, NEW answer \in {"sent", "unsent"},
             O!Publish(d, accepted, answer)
      PROVE  NoEventLost'
  BY <1>6, <1>e DEF O!Publish, O!rowVars
<1>7. ASSUME NEW d \in Dispatcher, O!TakeMissed(d) \/ O!Confirm(d) \/ O!MarkFailed(d) \/ O!DrainDies(d)
      PROVE  NoEventLost'
  BY <1>7, <1>e DEF O!TakeMissed, O!Confirm, O!MarkFailed, O!DrainDies, O!rowVars
<1>8. ASSUME NEW v \in Event, O!Enqueue(v) \/ O!RetryDue(v) PROVE NoEventLost'
  BY <1>8, <1>d DEF O!Enqueue, O!RetryDue
<1>9. ASSUME NEW v \in Event, O!LeaseExpires(v) PROVE NoEventLost'
  BY <1>9, <1>e DEF O!LeaseExpires
<1>10. ASSUME NEW v \in Event, O!DeletePublishedBefore(v) PROVE NoEventLost'
  BY <1>10, <1>c DEF O!DeletePublishedBefore, NoEventLost, O!NoEventLost
<1>. QED BY <1>1, <1>2, <1>3, <1>4, <1>5, <1>6, <1>7, <1>8, <1>9, <1>10 DEF O!Dispatch, O!Drain

\* No event is lost, whoever claimed it, lost it and took it over on the way.
THEOREM EventsNotLost == DeliverySpec => []NoEventLost
<1>1. DeliveryInit => Remembered /\ NoEventLost
  BY DEF DeliveryInit, O!OutboxInit, Remembered, NoEventLost, O!NoEventLost, O!Settled
<1>2. JournalInv /\ OutboxTypeOK /\ Remembered /\ NoEventLost /\ [DeliveryNext]_deliveryVars
        => Remembered' /\ NoEventLost'
  <2>1. UNCHANGED outboxVars /\ Remembered /\ NoEventLost => Remembered' /\ NoEventLost'
    BY DEF outboxVars, Remembered, NoEventLost, O!NoEventLost
  <2>. QED BY <2>1, OutboxStep, NextRemembered, NextNoEventLost
<1>. QED BY <1>1, <1>2, JournalWithin, OutboxTyped, PTL DEF DeliverySpec

-----------------------------------------------------------------------------
(* The outbox tells what took effect                                       *)

\* Only a commit adds to the runs, ...
LEMMA SurroundingsAddNoRun == JournalInv /\ Surroundings => Runs' = Runs
<1> SUFFICES ASSUME JournalInv, Surroundings PROVE durable' = durable
    BY RunsKept
<1>1. ASSUME NEW e \in Executor, Accept(e) \/ Attempt(e) \/ Mishap(e) PROVE durable' = durable
  BY <1>1, GuardedWrite DEF JournalInv, Accept, Attempt, Mishap, FindMissing, FindAnswered, FindAccepted,
     Claim, ClaimRefused, LockWaitTimeout, StoreRefused, Store, AfterCommit, Abandon,
     AbandonSwallowed, Aborted, AbortSwallowed, ExecutionError, Crash, history
<1>2. ASSUME NEW q \in Query, Ask(q) PROVE durable' = durable
  BY <1>2 DEF Ask, StatusUnknown, StatusStale, StatusDelete, StatusReported, history
<1>3. ASSUME NEW c \in Command, GrowOld(c) \/ DeleteExpired(c) PROVE durable' = durable
  BY <1>3 DEF GrowOld, DeleteExpired, history
<1>. QED BY <1>1, <1>2, <1>3 DEF Surroundings

\* ... and the run it adds is of the row whose event it enqueues.
LEMMA CommitAddsRun ==
    ASSUME JournalInv, NEW e \in Executor, NEW outcome \in {"committed", "failed"}, Commit(e, outcome)
    PROVE  Runs' = Runs \cup {RunOf(e)} /\ RunOf(e).uuid = seen[e]
<1>1. InTransaction(e) /\ buffer[e] = Part
  <2>1. InTransaction(e) /\ buffer[e] \cup left[e] = Part /\ left[e] = {}
    BY DEF Commit, JournalInv, ClaimsHold, InTransaction
  <2>. QED BY <2>1
<1>2. durable' = durable \cup {[run |-> RunOf(e), part |-> p] : p \in Part}
  BY <1>1 DEF Commit
<1>3. PICK p \in Part : TRUE
  BY JournalAssumption
<1>4. Runs' \subseteq Runs \cup {RunOf(e)}
  BY <1>2 DEF Runs
<1>5. [run |-> RunOf(e), part |-> p] \in durable' /\ [run |-> RunOf(e), part |-> p].run = RunOf(e)
  BY <1>2
<1>6. Runs \cup {RunOf(e)} \subseteq Runs'
  BY <1>2, <1>5 DEF Runs
<1>. QED BY <1>4, <1>6 DEF RunOf

\* A dispatcher neither makes an event nor makes it as if it had never been.
LEMMA DispatchKeepsPresence ==
    ASSUME OutboxTypeOK, O!Dispatch, NEW v \in Event
    PROVE  status'[v] = "absent" <=> status[v] = "absent"
<1>1. ASSUME NEW u \in Event, NEW s, s # "absent", status[u] # "absent",
             status' = [status EXCEPT ![u] = s]
      PROVE  status'[v] = "absent" <=> status[v] = "absent"
  BY <1>1 DEF OutboxTypeOK, O!OutboxTypeOK
<1>2. \A d \in Dispatcher : dpc[d] # "idle" => held[d] \in Event
  BY DEF OutboxTypeOK, O!OutboxTypeOK
<1>3. ASSUME NEW d \in Dispatcher, O!Take(d)
      PROVE  status'[v] = "absent" <=> status[v] = "absent"
  BY <1>1, <1>2, <1>3 DEF O!Take, O!Claimable
<1>4. ASSUME NEW d \in Dispatcher, O!MarkPublished(d)
      PROVE  status'[v] = "absent" <=> status[v] = "absent"
  BY <1>1, <1>2, <1>4 DEF O!MarkPublished, O!SettleRow, O!Owns
<1>5. ASSUME NEW d \in Dispatcher, O!MarkDead(d) \/ O!ReleaseForRetry(d)
      PROVE  status'[v] = "absent" <=> status[v] = "absent"
  <2>1. held[d] \in Event
    BY <1>2, <1>5 DEF O!MarkDead, O!ReleaseForRetry
  <2>2. status' = status \/ (status[held[d]] = "dispatching"
                             /\ \E s \in {"dead", "waiting"} : status' = [status EXCEPT ![held[d]] = s])
    BY <1>5 DEF O!MarkDead, O!ReleaseForRetry, O!SettleOwned, O!SettleRow, O!Owns, O!rowVars
  <2>. QED BY <1>1, <2>1, <2>2
<1>6. ASSUME NEW d \in Dispatcher, O!Drain(d) \/ O!DrainDies(d),
             ~(O!Take(d) \/ O!MarkPublished(d) \/ O!MarkDead(d) \/ O!ReleaseForRetry(d))
      PROVE  status' = status
  BY <1>6 DEF O!Drain, O!DrainDies, O!Choose, O!TakeMissed, O!Confirm, O!Publish, O!MarkFailed, O!rowVars
<1>7. ASSUME NEW u \in Event, O!RetryDue(u) \/ O!DeletePublishedBefore(u)
      PROVE  status'[v] = "absent" <=> status[v] = "absent"
  BY <1>1, <1>7 DEF O!RetryDue, O!DeletePublishedBefore
<1>8. ASSUME NEW u \in Event, O!LeaseExpires(u) PROVE status' = status
  BY <1>8 DEF O!LeaseExpires
<1>. QED BY <1>3, <1>4, <1>5, <1>6, <1>7, <1>8 DEF O!Dispatch

\* Nothing is announced that did not happen, and nothing that happened lacks its
\* announcement, however calls, retries, crashes and dispatchers interleave.
THEOREM EventsAreEffects == DeliverySpec => []EventIffEffect
<1>1. DeliveryInit => EventIffEffect
  BY DEF DeliveryInit, Init, O!OutboxInit, EventIffEffect, Runs
<1>2. ASSUME JournalInv, OutboxTypeOK, EventIffEffect, [DeliveryNext]_deliveryVars
      PROVE  EventIffEffect'
  <2>1. CASE Surroundings /\ UNCHANGED outboxVars
    BY <1>2, <2>1, SurroundingsAddNoRun DEF EventIffEffect, outboxVars
  <2>2. ASSUME NEW e \in Executor, NEW outcome \in {"committed", "failed"}, CommitAndEnqueue(e, outcome)
        PROVE  EventIffEffect'
    <3>1. Runs' = Runs \cup {RunOf(e)} /\ RunOf(e).uuid = seen[e]
      BY <1>2, <2>2, CommitAddsRun DEF CommitAndEnqueue
    <3>2. status' = [status EXCEPT ![seen[e]] = "pending"]
      BY <2>2 DEF CommitAndEnqueue, O!Enqueue
    <3>3. \A v \in Event : status'[v] = IF v = seen[e] THEN "pending" ELSE status[v]
      BY <1>2, <3>2 DEF OutboxTypeOK, O!OutboxTypeOK
    <3>. QED BY <1>2, <3>1, <3>3 DEF EventIffEffect
  <2>3. CASE O!Dispatch /\ UNCHANGED vars
    <3>1. Runs' = Runs
      BY <2>3, RunsKept DEF vars, history
    <3>. QED BY <1>2, <2>3, <3>1, DispatchKeepsPresence DEF EventIffEffect
  <2>4. CASE UNCHANGED deliveryVars
    <3>1. Runs' = Runs
      BY <2>4, RunsKept DEF deliveryVars, vars, history
    <3>. QED BY <1>2, <2>4, <3>1 DEF EventIffEffect, deliveryVars, outboxVars
  <2>. QED BY <1>2, <2>1, <2>2, <2>3, <2>4 DEF DeliveryNext
<1>3. JournalInv /\ OutboxTypeOK /\ EventIffEffect /\ [DeliveryNext]_deliveryVars => EventIffEffect'
  BY <1>2
<1>. QED BY <1>1, <1>3, JournalWithin, OutboxTyped, PTL DEF DeliverySpec

-----------------------------------------------------------------------------
(* Settling                                                                *)

\* A row in dispatch is settled only by the dispatcher whose token it carries, and what is
\* settled stays settled, however late a dispatcher wakes up.
THEOREM SettledOnce == DeliverySpec => SettledOnceByOwner
<1> DEFINE ByOwner(v) ==
      status[v] = "dispatching" /\ status'[v] # "dispatching"
        => /\ owner[v] # None
           /\ held[owner[v]] = v /\ dpc[owner[v]] \in {"sent", "unsent"}
           /\ dpc'[owner[v]] = "idle"
<1> DEFINE ForGood(v) == status[v] \in O!Settled => status'[v] \in O!Settled
<1>1. ASSUME OutboxTypeOK, O!Dispatch \/ \E u \in Event : O!Enqueue(u), NEW v \in Event
      PROVE  ByOwner(v) /\ ForGood(v)
  <2> USE DEF O!Settled
  <2>a. ASSUME NEW u \in Event, NEW s, status' = [status EXCEPT ![u] = s],
               u # v \/ (status[u] # "dispatching" /\ (status[u] \in O!Settled => s \in O!Settled))
                 \/ (s = "dispatching" /\ status[u] \notin O!Settled)
        PROVE  ByOwner(v) /\ ForGood(v)
    BY <1>1, <2>a DEF OutboxTypeOK, O!OutboxTypeOK
  <2>b. ASSUME NEW d \in Dispatcher, dpc[d] \in {"sent", "unsent"}, O!SettleOwned(d, "dead") \/ O!SettleOwned(d, "waiting")
                 \/ (O!Owns(d, held[d]) /\ O!SettleRow(held[d], "published")), O!NextRow(d)
        PROVE  ByOwner(v) /\ ForGood(v)
    <3>1. held[d] \in Event /\ dpc'[d] = "idle" /\ d # None
      BY <1>1, <2>b, DeliveryAssumption DEF O!NextRow, O!Step, OutboxTypeOK, O!OutboxTypeOK
    <3>2. CASE status' = status BY <3>2
    <3>3. CASE O!Owns(d, held[d]) /\ \E s : status' = [status EXCEPT ![held[d]] = s]
      <4>1. status[held[d]] = "dispatching" /\ owner[held[d]] = d
        BY <3>3 DEF O!Owns
      <4>2. CASE v = held[d] BY <2>b, <3>1, <4>1, <4>2
      <4>3. CASE v # held[d] BY <2>a, <3>1, <3>3, <4>3
      <4>. QED BY <4>2, <4>3
    <3>. QED BY <2>b, <3>2, <3>3 DEF O!SettleOwned, O!SettleRow, O!rowVars
  <2>c. \A d \in Dispatcher : dpc[d] # "idle" => held[d] \in Event
    BY <1>1 DEF OutboxTypeOK, O!OutboxTypeOK
  <2>1. ASSUME NEW d \in Dispatcher, O!Take(d) PROVE ByOwner(v) /\ ForGood(v)
    <3>1. /\ held[d] \in Event /\ status[held[d]] \notin O!Settled
          /\ status' = [status EXCEPT ![held[d]] = "dispatching"]
      BY <2>1, <2>c DEF O!Take, O!Claimable
    <3>. QED BY <2>a, <3>1
  <2>2. ASSUME NEW d \in Dispatcher, O!MarkPublished(d) \/ O!MarkDead(d) \/ O!ReleaseForRetry(d)
        PROVE  ByOwner(v) /\ ForGood(v)
    BY <2>2, <2>b DEF O!MarkPublished, O!MarkDead, O!ReleaseForRetry
  <2>3. ASSUME NEW d \in Dispatcher, O!Drain(d) \/ O!DrainDies(d),
               ~(O!Take(d) \/ O!MarkPublished(d) \/ O!MarkDead(d) \/ O!ReleaseForRetry(d))
        PROVE  status' = status
    BY <2>3 DEF O!Drain, O!DrainDies, O!Choose, O!TakeMissed, O!Confirm, O!Publish, O!MarkFailed, O!rowVars
  <2>4. ASSUME NEW u \in Event, O!Enqueue(u) \/ O!RetryDue(u) \/ O!DeletePublishedBefore(u)
        PROVE  ByOwner(v) /\ ForGood(v)
    <3>1. \E s : /\ status' = [status EXCEPT ![u] = s] /\ status[u] # "dispatching"
                 /\ status[u] \in O!Settled => s \in O!Settled
      BY <2>4 DEF O!Enqueue, O!RetryDue, O!DeletePublishedBefore
    <3>. QED BY <2>a, <3>1
  <2>5. ASSUME NEW u \in Event, O!LeaseExpires(u) PROVE status' = status
    BY <2>5 DEF O!LeaseExpires
  <2>. QED BY <1>1, <2>1, <2>2, <2>3, <2>4, <2>5 DEF O!Dispatch
<1>2. JournalInv /\ OutboxTypeOK /\ [DeliveryNext]_deliveryVars
        => [\A v \in Event : ByOwner(v)]_O!outboxVars /\ [\A v \in Event : ForGood(v)]_O!outboxVars
  <2>1. UNCHANGED outboxVars => UNCHANGED O!outboxVars
    BY DEF outboxVars, O!outboxVars, O!rowVars, O!procVars
  <2> SUFFICES ASSUME JournalInv, OutboxTypeOK, [DeliveryNext]_deliveryVars, NEW v \in Event
               PROVE  UNCHANGED O!outboxVars \/ (ByOwner(v) /\ ForGood(v))
      OBVIOUS
  <2> HIDE DEF ByOwner, ForGood
  <2>. QED BY <1>1, <2>1, OutboxStep
<1>3. DeliverySpec => [][\A v \in Event : ByOwner(v)]_O!outboxVars /\ [][\A v \in Event : ForGood(v)]_O!outboxVars
  <2> HIDE DEF ByOwner, ForGood
  <2>. QED BY <1>2, JournalWithin, OutboxTyped, PTL DEF DeliverySpec
<1>. QED BY <1>3 DEF SettledOnceByOwner, O!OnlyOwnerSettles, O!SettledForGood
=============================================================================
