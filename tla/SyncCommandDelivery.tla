-------------------------- MODULE SyncCommandDelivery --------------------------
(***************************************************************************)
(* The command journal and its outbox together: the domain events of a     *)
(* command are outbox rows written by its transaction                      *)
(* (TransactionAwareDomainEventPublisher), so they become visible to the   *)
(* dispatchers at the command's commit and at no other moment.             *)
(***************************************************************************)
EXTENDS SyncCommandJournal

CONSTANTS Dispatcher, MaxDispatch, MaxMishaps, None

ASSUME DeliveryAssumption ==
    /\ None \notin Nat /\ None \notin Dispatcher
    /\ MaxDispatch \in Nat \ {0} /\ MaxMishaps \in Nat

VARIABLES status, owner, stale, attempts, dpc, held, tries, delivered, mishaps

\* One event per execution; a row uuid belongs to at most one that commits.
Event == 1 .. MaxRows

O == INSTANCE SyncCommandOutbox

outboxVars == <<status, owner, stale, attempts, dpc, held, tries, delivered, mishaps>>
deliveryVars == <<vars, outboxVars>>

DeliveryInit == Init /\ O!OutboxInit

CommitThenEnqueue(e, outcome) ==  \* mutant: published once COMMIT is acknowledged
    /\ Commit(e, outcome)
    /\ IF outcome = "committed" THEN O!Enqueue(seen[e]) ELSE UNCHANGED outboxVars

\* COMMIT makes the mutation, the stored result and the outbox row visible at once.
CommitAndEnqueue(e, outcome) == Commit(e, outcome) /\ O!Enqueue(seen[e])

DeliveryNext ==
    \/ Surroundings /\ UNCHANGED outboxVars
    \/ \E e \in Executor, outcome \in {"committed", "failed"} : CommitAndEnqueue(e, outcome)
    \/ O!Dispatch /\ UNCHANGED vars

DeliverySpec == DeliveryInit /\ [][DeliveryNext]_deliveryVars

FairDeliverySpec == DeliverySpec /\ O!OutboxFairness

-----------------------------------------------------------------------------
\* Nothing is announced that did not happen, and nothing that happened is without its
\* announcement: the outbox holds, or has held, exactly the events of the executions
\* whose changes are durable, through rollbacks, retries and lost acknowledgements.
EventIffEffect ==
    \A v \in Event : status[v] # "absent" <=> \E r \in Runs : r.uuid = v

\* A command that took effect is announced, or its event is given up as dead, even if
\* the process that executed it died before it could wake the dispatcher.
EffectAnnounced ==
    \A v \in Event :
        (\E r \in Runs : r.uuid = v) ~> (v \in delivered \/ status[v] \in {"dead", "removed"})

\* The outbox keeps what SyncCommandOutbox says of it also when its events come from
\* commands: a row has a token exactly while it is in dispatch (claimNext, settle),
OutboxTypeOK == O!OutboxTypeOK

\* no row stops being retried before the broker has its event or its attempts are used up
\* (release, markDead),
NoEventLost == O!NoEventLost

\* and a dispatcher whose lease another one took over settles nothing any more (lock_token
\* in every settling statement), nor is a settled event ever dispatched again (the status
\* condition of the claim).
SettledOnceByOwner == O!OnlyOwnerSettles /\ O!SettledForGood
=============================================================================
