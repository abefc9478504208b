--------------------------- MODULE SyncCommandOutbox ---------------------------
(***************************************************************************)
(* The transactional outbox of durable sync commands: rows enqueued by     *)
(* committed commands are claimed under a lease, published to the broker   *)
(* and settled by the dispatchers of several processes                     *)
(* (SyncCommandOutboxDispatcher over TypeORMSyncCommandOutboxRepository),  *)
(* while leases run out, publishing fails and processes crash.             *)
(*                                                                         *)
(* A claim token is drawn afresh for every claim and a dispatcher works on *)
(* one claim at a time, so `owner` names the dispatcher for its token; a   *)
(* claim of a crashed process is owned by a dispatcher that is idle.       *)
(***************************************************************************)
EXTENDS Integers

CONSTANTS
    Event,        \* outbox rows, numbered in the order of created_at_timestamp
    Dispatcher,   \* one per process: activeDrain admits one drain at a time
    MaxDispatch,  \* SYNC_COMMAND_OUTBOX_MAX_ATTEMPTS_DEFAULT
    MaxMishaps,   \* bound: how often a process dies or outlives its lease
    None          \* no claim token; a dispatcher that holds no event

VARIABLES
    status,    \* of each row; "waiting" is pending with a future available_at
    owner,     \* whose claim token the row carries
    stale,     \* rows whose lease has run out
    attempts,  \* claims of each row, counted up to one past MaxDispatch
    dpc,       \* where each dispatcher is
    held,      \* the row each dispatcher is working on
    tries,     \* the attempts of the row as the dispatcher read them back
    delivered, \* history: events the broker has accepted at least once
    mishaps    \* how many processes have died or outlived a lease

rowVars == <<status, owner, stale, attempts>>
procVars == <<dpc, held, tries>>
outboxVars == <<rowVars, procVars, delivered, mishaps>>

Settled == {"published", "dead", "removed"}

OutboxInit ==
    /\ status = [v \in Event |-> "absent"]
    /\ owner = [v \in Event |-> None]
    /\ stale = {}
    /\ attempts = [v \in Event |-> 0]
    /\ dpc = [d \in Dispatcher |-> "idle"]
    /\ held = [d \in Dispatcher |-> None]
    /\ tries = [d \in Dispatcher |-> 0]
    /\ delivered = {}
    /\ mishaps = 0

-----------------------------------------------------------------------------

ClaimablePending(v) == status[v] = "pending"  \* mutant: no claim is ever taken over

Claimable(v) == status[v] = "pending" \/ (status[v] = "dispatching" /\ v \in stale)

OwnsAny(d, v) == status[v] = "dispatching"  \* mutant: no lock_token in the WHERE

\* WHERE uuid = ? AND status = 'dispatching' AND lock_token = ?
Owns(d, v) == status[v] = "dispatching" /\ owner[v] = d

\* The row leaves 'dispatching': its token and lease are cleared.
SettleRow(v, s) ==
    /\ status' = [status EXCEPT ![v] = s]
    /\ owner' = [owner EXCEPT ![v] = None]
    /\ stale' = stale \ {v}
    /\ UNCHANGED attempts

Step(d, s) == dpc' = [dpc EXCEPT ![d] = s]

\* The drain goes on to the next row, or ends and is woken again.
NextRow(d) ==
    /\ Step(d, "idle")
    /\ held' = [held EXCEPT ![d] = None]
    /\ tries' = [tries EXCEPT ![d] = 0]

\* Insert of a command's event, committed with the command.
Enqueue(v) ==
    /\ status[v] = "absent"
    /\ status' = [status EXCEPT ![v] = "pending"]
    /\ UNCHANGED <<owner, stale, attempts, procVars, delivered, mishaps>>

\* claimNext reads the oldest candidate, ...
Choose(d, v) ==
    /\ dpc[d] = "idle"
    /\ Claimable(v) /\ \A older \in Event : Claimable(older) => v <= older
    /\ held' = [held EXCEPT ![d] = v]
    /\ Step(d, "chosen")
    /\ UNCHANGED <<rowVars, tries, delivered, mishaps>>

\* ... takes it if it is still claimable (else it looks again), ...
Take(d) ==
    LET v == held[d] IN
    /\ dpc[d] = "chosen" /\ Claimable(v)
    /\ status' = [status EXCEPT ![v] = "dispatching"]
    /\ owner' = [owner EXCEPT ![v] = d]
    /\ stale' = stale \ {v}
    /\ attempts' = [attempts EXCEPT ![v] = IF @ > MaxDispatch THEN @ ELSE @ + 1]
    /\ Step(d, "taken")
    /\ UNCHANGED <<held, tries, delivered, mishaps>>

TakeMissed(d) ==
    /\ dpc[d] = "chosen" /\ ~Claimable(held[d])
    /\ NextRow(d)
    /\ UNCHANGED <<rowVars, delivered, mishaps>>

\* ... and reads it back by its token.
Confirm(d) ==
    LET v == held[d] IN
    /\ dpc[d] = "taken"
    /\ IF owner[v] = d
       THEN /\ Step(d, "publishing")
            /\ tries' = [tries EXCEPT ![d] = attempts[v]]
            /\ UNCHANGED held
       ELSE NextRow(d)
    /\ UNCHANGED <<rowVars, delivered, mishaps>>

PublishUnconfirmed(d, accepted, answer) ==  \* mutant: the publisher swallows the error
    /\ dpc[d] = "publishing"
    /\ answer = "sent"
    /\ delivered' = IF accepted THEN delivered \cup {held[d]} ELSE delivered
    /\ Step(d, answer)
    /\ UNCHANGED <<rowVars, held, tries, mishaps>>

\* The broker accepts the event, refuses it, or accepts it and the answer is lost.
Publish(d, accepted, answer) ==
    /\ dpc[d] = "publishing"
    /\ answer = "sent" => accepted
    /\ answer \in {"sent", "unsent"}
    /\ delivered' = IF accepted THEN delivered \cup {held[d]} ELSE delivered
    /\ Step(d, answer)
    /\ UNCHANGED <<rowVars, held, tries, mishaps>>

\* markPublished; it throws when the claim was lost, or when the database fails.
MarkPublished(d) ==
    /\ dpc[d] = "sent" /\ Owns(d, held[d])
    /\ SettleRow(held[d], "published")
    /\ NextRow(d)
    /\ UNCHANGED <<delivered, mishaps>>

MarkFailed(d) ==
    /\ dpc[d] = "sent"
    /\ Step(d, "unsent")
    /\ UNCHANGED <<rowVars, held, tries, delivered, mishaps>>

\* After a failure: dead once the attempts are used up, otherwise back for a retry.
\* Neither touches a row another dispatcher has taken over.
SettleOwned(d, s) ==
    IF Owns(d, held[d]) THEN SettleRow(held[d], s) ELSE UNCHANGED rowVars

MarkDead(d) ==
    /\ dpc[d] = "unsent" /\ tries[d] >= MaxDispatch
    /\ SettleOwned(d, "dead")
    /\ NextRow(d)
    /\ UNCHANGED <<delivered, mishaps>>

ReleaseForRetry(d) ==
    /\ dpc[d] = "unsent" /\ tries[d] < MaxDispatch
    /\ SettleOwned(d, "waiting")
    /\ NextRow(d)
    /\ UNCHANGED <<delivered, mishaps>>

\* The process dies, or a statement of the drain throws: its claim stays behind.
DrainDies(d) ==
    /\ dpc[d] # "idle" /\ mishaps < MaxMishaps
    /\ mishaps' = mishaps + 1
    /\ NextRow(d)
    /\ UNCHANGED <<rowVars, delivered>>

-----------------------------------------------------------------------------
(* Time: the retry delay, the lease and the retention of settled rows.      *)

RetryDue(v) ==
    /\ status[v] = "waiting"
    /\ status' = [status EXCEPT ![v] = "pending"]
    /\ UNCHANGED <<owner, stale, attempts, procVars, delivered, mishaps>>

\* The lease of a row whose claimant is gone, or is still at work and slow.
Working(d, v) == Owns(d, v) /\ held[d] = v

LeaseExpires(v) ==
    /\ status[v] = "dispatching" /\ v \notin stale
    /\ stale' = stale \cup {v}
    /\ IF \E d \in Dispatcher : Working(d, v)
       THEN mishaps < MaxMishaps /\ mishaps' = mishaps + 1
       ELSE UNCHANGED mishaps
    /\ UNCHANGED <<status, owner, attempts, procVars, delivered>>

DeletePublishedBefore(v) ==
    /\ status[v] \in {"published", "dead"}
    /\ status' = [status EXCEPT ![v] = "removed"]
    /\ UNCHANGED <<owner, stale, attempts, procVars, delivered, mishaps>>

-----------------------------------------------------------------------------
Drain(d) ==
    \/ \E v \in Event : Choose(d, v)
    \/ Take(d) \/ TakeMissed(d) \/ Confirm(d)
    \/ \E accepted \in BOOLEAN, answer \in {"sent", "unsent"} : Publish(d, accepted, answer)
    \/ MarkPublished(d) \/ MarkFailed(d) \/ MarkDead(d) \/ ReleaseForRetry(d)

Dispatch ==
    \/ \E d \in Dispatcher : Drain(d) \/ DrainDies(d)
    \/ \E v \in Event : RetryDue(v) \/ LeaseExpires(v) \/ DeletePublishedBefore(v)

OutboxNext == Dispatch \/ \E v \in Event : Enqueue(v)

OutboxSpec == OutboxInit /\ [][OutboxNext]_outboxVars

\* The maintenance interval wakes every drain, statements and publishing end, and
\* the retry delay passes; a lease must run out only where nobody works under it.
OutboxFairness ==
    /\ \A d \in Dispatcher : WF_outboxVars(Drain(d))
    /\ \A v \in Event : WF_outboxVars(RetryDue(v))
    /\ \A v \in Event : WF_outboxVars(LeaseExpires(v) /\ \A d \in Dispatcher : ~Working(d, v))

FairOutboxSpec == OutboxSpec /\ OutboxFairness

-----------------------------------------------------------------------------
(* Properties                                                              *)

\* The variables have their types; a row carries a token exactly while it is in dispatch,
\* and a dispatcher holds a row exactly while it works (claimNext, settling statements).
OutboxTypeOK ==
    /\ status \in [Event -> {"absent", "waiting", "pending", "dispatching"} \cup Settled]
    /\ owner \in [Event -> Dispatcher \cup {None}]
    /\ stale \subseteq Event
    /\ attempts \in [Event -> 0 .. MaxDispatch + 1]
    /\ dpc \in [Dispatcher -> {"idle", "chosen", "taken", "publishing", "sent", "unsent"}]
    /\ held \in [Dispatcher -> Event \cup {None}]
    /\ tries \in [Dispatcher -> 0 .. MaxDispatch + 1]
    /\ delivered \subseteq Event
    /\ mishaps \in 0 .. MaxMishaps
    /\ \A v \in Event : status[v] = "dispatching" <=> owner[v] # None
    /\ \A v \in stale : status[v] = "dispatching"
    /\ \A d \in Dispatcher : dpc[d] = "idle" <=> held[d] = None

\* No event is lost: a row stops being retried only when the broker has the event or
\* its attempts are used up, whoever claimed it, lost it and took it over on the way.
NoEventLost ==
    \A v \in Event :
        status[v] \in Settled => v \in delivered \/ attempts[v] >= MaxDispatch

\* A dispatcher whose lease another one took over changes nothing any more: a row in
\* dispatch is settled or released only by the dispatcher whose token it carries.
OnlyOwnerSettles ==
    [][\A v \in Event :
         status[v] = "dispatching" /\ status'[v] # "dispatching"
           => /\ owner[v] # None
              /\ held[owner[v]] = v /\ dpc[owner[v]] \in {"sent", "unsent"}
              /\ dpc'[owner[v]] = "idle"]_outboxVars

\* A settled event is never dispatched again, also not by a dispatcher that claimed it
\* before it was settled and wakes up late.
SettledForGood ==
    [][\A v \in Event : status[v] \in Settled => status'[v] \in Settled]_outboxVars
=============================================================================
