---------------------------- MODULE CommandTransport ----------------------------
(***************************************************************************)
(* The client's durable command outbox: the sync workers of the tabs of    *)
(* one session, the IndexedDB store they share (command records, and one   *)
(* lease per transport scope), the calls they have under way over sockets  *)
(* and HTTP, and the server's journal, here as the CommandLedger it        *)
(* implements.  A worker stores a command before it sends it, resolves it  *)
(* by STATUS whenever the answer is lost, replays it over HTTP under the   *)
(* same identity only when that cannot apply it twice, and drops the       *)
(* record after the page has made the answer durable.                      *)
(***************************************************************************)
EXTENDS Naturals, Sequences, FiniteSets

CONSTANTS
    Worker,     \* sync workers, one per tab; also the transport scope each one mints under
    Command,    \* command identities (id and digest)
    Home,       \* the worker that mints each command
    MaxRows,    \* acceptances the journal may record (bound)
    Faults,     \* the kinds of mishap of this instance
    MaxMishaps, \* bound on the mishaps of a behaviour
    None

VARIABLES
    holder, fate, count, \* the journal: see CommandLedger
    calls,       \* requests under way at the gateway or the server; w = None: nobody listens
    stored,      \* durable record of each command: "none", "stored", "dispatched"
    quarantined, \* commands whose record is marked revoked
    minted,      \* commands in the order of their first record (createdAt)
    lease,       \* live lease of each transport scope: its owner, or None (absent or expired)
    claims,      \* scopes a worker has leased for records it adopted
    link,        \* "none": no transport scope; "lost": scope but no socket; "up": READY socket
    tab,         \* of each worker: see Tab
    socketOnly,  \* commands of live collaboration, which HTTP may not carry
    shut, acked, \* workers whose session revocation has begun, and has been acknowledged
    settled,     \* history: commands whose answer and checkpoint the page has made durable
    refused,     \* history: records dropped because a refusal proved them unapplied
    unknown,     \* history: socket-only records dropped because STATUS answered UNKNOWN
    overrun,     \* history: scopes whose lease ran out under a worker that was using it
    mishaps      \* mishaps so far

ledger == <<holder, fate, count>>
store == <<stored, quarantined, minted>>
leases == <<lease, claims>>
session == <<shut, socketOnly>>
history == <<acked, settled, refused, unknown, overrun>>
vars == <<ledger, calls, store, leases, link, tab, session, history, mishaps>>

Ledger == INSTANCE CommandLedger

ASSUME TransportAssumption == /\ Home \in [Command -> Worker]
                              /\ None \notin Worker \cup Command
                              /\ MaxRows \in Nat /\ MaxMishaps \in Nat

-----------------------------------------------------------------------------
\* A worker's request.  pc: "idle" between syncs; "recover", "fresh": the phases of a sync
\* before it has a request; "dial": a request waits for a socket; "store", "mark": a journal
\* write is under way; "await": a frame is; "retry": the frame was refused and will be sent
\* again; "refresh": it was refused with SESSION_STALE and the credential is being repaired in
\* place; "http", "plain": the page uses HTTP with and without the identity; "result", "ack":
\* the page makes the answer durable and then has the record dropped; "stuck": it failed to.
\* has: outboxRecord is set.  sent: commandSent.  asked: what the last frame was, "COMMAND" as
\* long as commandFrameRequestId is set.  slot: active is set.  reticketed:
\* reticketedForStaleSession.
Tab == [pc : {"idle", "recover", "fresh", "dial", "store", "mark", "await", "retry", "refresh",
              "http", "plain", "result", "ack", "stuck", "off"},
        mode : {"execute", "recover"}, cmd : Command \cup {None}, has : BOOLEAN,
        sent : BOOLEAN, asked : {"COMMAND", "STATUS"}, slot : BOOLEAN, reticketed : BOOLEAN]

Vacant(at) == [pc |-> at, mode |-> "recover", cmd |-> None, has |-> FALSE, sent |-> FALSE,
               asked |-> "STATUS", slot |-> FALSE, reticketed |-> FALSE]

Init ==
    /\ Ledger!LedgerInit
    /\ calls = {}
    /\ stored = [c \in Command |-> "none"]
    /\ quarantined = {} /\ minted = <<>>
    /\ lease = [w \in Worker |-> None] /\ claims = [w \in Worker |-> {}]
    /\ link = [w \in Worker |-> "none"]
    /\ tab = [w \in Worker |-> Vacant("idle")]
    /\ shut = {} /\ socketOnly = {} /\ acked = {} /\ settled = {} /\ refused = {}
    /\ unknown = {} /\ overrun = {} /\ mishaps = 0

At(w, at) == tab[w].pc = at /\ w \notin shut
Become(w, t) == tab' = [tab EXCEPT ![w] = t]
Goto(w, at) == Become(w, [tab[w] EXCEPT !.pc = at])
Mishap(kind) == kind \in Faults /\ mishaps < MaxMishaps /\ mishaps' = mishaps + 1
NoMishap == UNCHANGED mishaps

Minted == {minted[i] : i \in 1 .. Len(minted)}
Free(w, s) == lease[s] \in {None, w}

AdoptableTaken(w) ==  \* mutant: the leases of siblings are not looked at
    {c \in Command : stored[c] # "none" /\ c \notin quarantined}

AdoptableOwn(w) ==  \* mutant: no tab adopts what another one left
    {c \in Command : stored[c] # "none" /\ c \notin quarantined /\ Home[c] = w}

\* The records oldest() considers: not revoked, and no sibling holds a live lease on them.
Adoptable(w) == {c \in Command : stored[c] # "none" /\ c \notin quarantined /\ Free(w, Home[c])}
Oldest(w) ==
    minted[CHOOSE i \in 1 .. Len(minted) :
             /\ minted[i] \in Adoptable(w)
             /\ \A j \in 1 .. i - 1 : minted[j] \notin Adoptable(w)]

\* oldest() leases the scope of the record it returns.
Adopt(w, c) ==
    /\ lease' = [lease EXCEPT ![Home[c]] = w]
    /\ claims' = [claims EXCEPT ![w] = @ \cup {Home[c]}]

\* closeSocketAndReleaseOwner: the leases go only while the transport scope is known.
Release(w) ==
    /\ link' = [link EXCEPT ![w] = "none"]
    /\ IF link[w] = "none"
       THEN UNCHANGED leases
       ELSE /\ lease' = [s \in Worker |-> IF lease[s] = w /\ s \in claims[w] \cup {w}
                                          THEN None ELSE lease[s]]
            /\ claims' = [claims EXCEPT ![w] = {}]

Call(w, c, kind) == [w |-> w, cmd |-> c, kind |-> kind, acc |-> 0]
Awaited(w) == {k \in calls : k.w = w}
\* Nobody will hear the answers to w's calls any more; a STATUS leaves no trace.
Unheard(w) == {k \in calls : k.w # w} \cup
              {[k EXCEPT !.w = None] : k \in {q \in Awaited(w) : q.kind # "STATUS"}}
-----------------------------------------------------------------------------
(* The server.                                                             *)

\* The journal accepts an execution, or lets it join the acceptance on record.
Accept(k) ==
    /\ k.kind # "STATUS" /\ k.acc = 0
    /\ \/ /\ Ledger!Open(k.cmd)
          /\ calls' = (calls \ {k}) \cup {[k EXCEPT !.acc = count + 1]}
       \/ /\ holder[k.cmd] # 0
          /\ calls' = (calls \ {k}) \cup {[k EXCEPT !.acc = holder[k.cmd]]}
          /\ UNCHANGED ledger
    /\ UNCHANGED <<store, leases, link, tab, session, history, mishaps>>

Execute(k) ==
    /\ k.acc # 0 /\ holder[k.cmd] = k.acc
    /\ Ledger!TakeEffect(k.cmd)
    /\ UNCHANGED <<calls, store, leases, link, tab, session, history, mishaps>>

\* A run rolls back and its acceptance is abandoned; or its process dies and leaves it open.
RunFails(k) ==
    /\ k.acc # 0 /\ holder[k.cmd] = k.acc /\ fate[k.acc] = "open"
    /\ Mishap("run")
    /\ \/ Ledger!Drop(k.cmd) /\ UNCHANGED calls
       \/ calls' = calls \ {k} /\ UNCHANGED ledger
    /\ UNCHANGED <<store, leases, link, tab, session, history>>

\* An acceptance nobody executes is given up once it is past its grace period.
GiveUpStale(c) ==
    /\ holder[c] # 0 /\ fate[holder[c]] = "open"
    /\ \A k \in calls : ~(k.cmd = c /\ k.acc = holder[c])
    /\ Ledger!Drop(c)
    /\ UNCHANGED <<calls, store, leases, link, tab, session, history, mishaps>>

\* A request nobody waits for ends: answered into the void, aborted before the backend
\* was called, or lost.
CallEnds(k) ==
    /\ k.w = None
    /\ k.acc # 0 => fate[k.acc] # "open"
    /\ calls' = calls \ {k}
    /\ UNCHANGED <<ledger, store, leases, link, tab, session, history, mishaps>>

Server == \/ \E k \in calls : Accept(k) \/ Execute(k) \/ RunFails(k) \/ CallEnds(k)
          \/ \E c \in Command : GiveUpStale(c)

-----------------------------------------------------------------------------
(* Ways a request ends without its answer.                                 *)

\* requireDurableRecovery: the record stays and the next recovery asks STATUS about it.
DurableRecovery(w) ==
    /\ Become(w, Vacant("idle")) /\ Release(w) /\ calls' = Unheard(w)

\* HTTP_FALLBACK: the page sends the body over HTTP, with the identity if it was recorded.
OverHttp(w, keepSocket) ==
    /\ IF tab[w].has
       THEN /\ Become(w, [tab[w] EXCEPT !.pc = "http", !.slot = FALSE])
            /\ calls' = Unheard(w) \cup {Call(w, tab[w].cmd, "HTTP")}
       ELSE Become(w, Vacant("plain")) /\ calls' = Unheard(w)
    /\ IF keepSocket THEN UNCHANGED <<link, leases>> ELSE Release(w)

\* fallback: over HTTP only what cannot have been applied, unless the journal is known to
\* make the replay idempotent and no STATUS can be asked (confirmed).
Fallback(w, confirmed, keepSocket) ==
    IF tab[w].cmd \in socketOnly \/ (tab[w].has /\ tab[w].sent /\ ~confirmed)
    THEN DurableRecovery(w)
    ELSE OverHttp(w, keepSocket)

-----------------------------------------------------------------------------
(* A sync: first the recovery of what is on record, then new uploads.      *)

SyncStarts(w) ==
    /\ At(w, "idle")
    /\ Goto(w, "recover")
    /\ UNCHANGED <<ledger, calls, store, leases, link, session, history>> /\ NoMishap

RecoverEmpty(w) ==
    /\ At(w, "recover") /\ Adoptable(w) = {}
    /\ Goto(w, "fresh")
    /\ UNCHANGED <<ledger, calls, store, leases, link, session, history>> /\ NoMishap

\* A sibling drives this worker's own lane: leave the record to it and sync without recovery.
RecoverDeferred(w) ==
    /\ At(w, "recover") /\ Adoptable(w) # {} /\ ~Free(w, w)
    /\ Adopt(w, Oldest(w))
    /\ Goto(w, "fresh")
    /\ UNCHANGED <<ledger, calls, store, link, session, history>> /\ NoMishap

Recovering(w, c, at) ==
    [pc |-> at, mode |-> "recover", cmd |-> c, has |-> TRUE, sent |-> stored[c] = "dispatched",
     asked |-> "STATUS", slot |-> at # "http", reticketed |-> FALSE]

RecoverAdopts(w) ==
    /\ At(w, "recover") /\ Adoptable(w) # {} /\ Free(w, w)
    /\ Adopt(w, Oldest(w))
    /\ Become(w, Recovering(w, Oldest(w), "dial"))
    /\ UNCHANGED <<ledger, calls, store, link, session, history>> /\ NoMishap

\* No socket will ever exist for the session (replayOverHttp): the identity goes over HTTP.
RecoverOverHttp(w) ==
    /\ At(w, "recover") /\ Adoptable(w) # {} /\ "nolane" \in Faults
    /\ Oldest(w) \notin socketOnly
    /\ Adopt(w, Oldest(w))
    /\ Become(w, Recovering(w, Oldest(w), "http"))
    /\ calls' = calls \cup {Call(w, Oldest(w), "HTTP")}
    /\ UNCHANGED <<ledger, store, link, session, history>> /\ NoMishap

\* No command follows the recovery: the bound of an instance, whose commands are few.
SyncEnds(w) ==
    /\ At(w, "fresh")
    /\ Goto(w, "idle")
    /\ UNCHANGED <<ledger, calls, store, leases, link, session, history>> /\ NoMishap

\* executeAfterJournal: a record that appeared meanwhile must be reconciled first.
ExecuteBlocked(w) ==
    /\ At(w, "fresh") /\ Adoptable(w) # {} /\ Free(w, w)
    /\ Adopt(w, Oldest(w))
    /\ Goto(w, "idle")
    /\ UNCHANGED <<ledger, calls, store, link, session, history>> /\ NoMishap

ExecuteStarts(w) ==
    /\ At(w, "fresh")
    /\ IF Adoptable(w) = {} THEN UNCHANGED leases ELSE ~Free(w, w) /\ Adopt(w, Oldest(w))
    /\ \E c \in Command \ Minted :
          /\ Home[c] = w
          /\ \E live \in BOOLEAN : socketOnly' = IF live THEN socketOnly \cup {c} ELSE socketOnly
          /\ Become(w, [Vacant("dial") EXCEPT !.mode = "execute", !.cmd = c, !.slot = TRUE])
    /\ UNCHANGED <<ledger, calls, store, link, shut, history>> /\ NoMishap

-----------------------------------------------------------------------------
(* The socket.                                                             *)

DialTaken(w) ==
    /\ At(w, "dial") /\ link[w] # "up" /\ ~Free(w, w)
    /\ Fallback(w, FALSE, FALSE)
    /\ UNCHANGED <<ledger, store, session, history>> /\ NoMishap

Dial(w) ==
    /\ At(w, "dial") /\ link[w] # "up" /\ Free(w, w)
    /\ lease' = [lease EXCEPT ![w] = w]
    /\ link' = [link EXCEPT ![w] = "up"]
    /\ UNCHANGED <<ledger, calls, store, claims, tab, session, history>> /\ NoMishap

\* No ticket, or the reconnect attempts are spent; a permanent reason answers a recovery
\* by HTTP.
DialFails(w) ==
    /\ At(w, "dial") /\ link[w] # "up" /\ Mishap("dial")
    /\ \E permanent \in BOOLEAN : Fallback(w, permanent /\ tab[w].mode = "recover", FALSE)
    /\ UNCHANGED <<ledger, store, session, history>>

Send(w, kind) ==
    /\ Become(w, [tab[w] EXCEPT !.pc = "await", !.asked = kind])
    /\ calls' = calls \cup {Call(w, tab[w].cmd, kind)}

\* The session may not send items over the socket (not negotiated, or live sync is off).
PrepareUnavailable(w) ==
    /\ At(w, "dial") /\ link[w] = "up" /\ Mishap("unavailable")
    /\ Fallback(w, TRUE, TRUE)
    /\ UNCHANGED <<ledger, store, session, history>>

\* A command that has a record is asked about, whatever the request wanted of it.
PrepareStatus(w) ==
    /\ At(w, "dial") /\ link[w] = "up" /\ tab[w].has
    /\ Send(w, "STATUS")
    /\ UNCHANGED <<ledger, store, leases, link, session, history>> /\ NoMishap

PrepareStale(w) ==
    /\ At(w, "dial") /\ link[w] = "up" /\ ~tab[w].has /\ Adoptable(w) # {}
    /\ Become(w, Vacant("idle")) /\ link' = [link EXCEPT ![w] = "none"]
    /\ lease' = [s \in Worker |-> IF lease[s] = w /\ s \in claims[w] \cup {w, Home[Oldest(w)]}
                                  THEN None ELSE lease[s]]
    /\ claims' = [claims EXCEPT ![w] = {}]
    /\ UNCHANGED <<ledger, calls, store, session, history>> /\ NoMishap

PrepareStore(w) ==
    /\ At(w, "dial") /\ link[w] = "up" /\ ~tab[w].has /\ Adoptable(w) = {}
    /\ Goto(w, "store")
    /\ UNCHANGED <<ledger, calls, store, leases, link, session, history>> /\ NoMishap

PutAgain(w, as) ==  \* mutant: the second write makes the record the youngest
    /\ Free(w, w) /\ tab[w].cmd \notin quarantined
    /\ stored' = [stored EXCEPT ![tab[w].cmd] = as]
    /\ minted' = Append(minted, tab[w].cmd)
    /\ lease' = [lease EXCEPT ![w] = w]
    /\ UNCHANGED <<quarantined, claims>>

\* put: one transaction over the record and the lease of its scope.
Put(w, as) ==
    /\ Free(w, w)
    /\ tab[w].cmd \notin quarantined
    /\ stored' = [stored EXCEPT ![tab[w].cmd] = as]
    /\ minted' = IF tab[w].cmd \in Minted THEN minted ELSE Append(minted, tab[w].cmd)
    /\ lease' = [lease EXCEPT ![w] = w]
    /\ UNCHANGED <<quarantined, claims>>

\* The first write: the record.
Store(w) ==
    /\ tab[w].pc = "store"
    /\ Put(w, "stored")
    /\ Become(w, [tab[w] EXCEPT !.pc = IF w \in shut THEN "idle"
                                       ELSE IF link[w] = "up" THEN "mark" ELSE "dial",
                                !.has = TRUE])
    /\ UNCHANGED <<ledger, calls, link, session, history>> /\ NoMishap

\* The second write: dispatchedAt.  Only then is the frame written.
MarkAndSend(w) ==
    /\ tab[w].pc = "mark"
    /\ Put(w, "dispatched")
    /\ IF w \notin shut /\ link[w] = "up"
       THEN /\ Become(w, [tab[w] EXCEPT !.pc = "await", !.asked = "COMMAND", !.sent = TRUE])
            /\ calls' = calls \cup {Call(w, tab[w].cmd, "COMMAND")}
       ELSE Goto(w, IF w \in shut THEN "idle" ELSE "dial") /\ UNCHANGED calls
    /\ UNCHANGED <<ledger, link, session, history>> /\ NoMishap

\* A journal write is refused: a sibling leases the scope, or the record was revoked.
PutRefused(w) ==
    /\ At(w, "store") \/ At(w, "mark")
    /\ ~Free(w, w) \/ tab[w].cmd \in quarantined
    /\ Fallback(w, FALSE, FALSE)
    /\ UNCHANGED <<ledger, store, session, history>> /\ NoMishap

-----------------------------------------------------------------------------
(* Answers on the socket.                                                  *)

\* COMMITTED answers the COMMAND, or a STATUS.
SaysCommitted(k) ==
    \/ k.kind = "COMMAND" /\ k.acc # 0 /\ fate[k.acc] = "done"
    \/ k.kind = "STATUS" /\ holder[k.cmd] # 0 /\ fate[holder[k.cmd]] = "done"

CommittedAcknowledged(w) ==  \* mutant: the record goes before the page has saved the result
    /\ At(w, "await") /\ \E k \in Awaited(w) : SaysCommitted(k)
    /\ Goto(w, "ack") /\ calls' = calls \ Awaited(w)
    /\ UNCHANGED <<ledger, store, leases, link, session, history>> /\ NoMishap

\* The result goes to the page, or is too large for a frame and is fetched over HTTP.
Committed(w) ==
    /\ At(w, "await") /\ \E k \in Awaited(w) : SaysCommitted(k)
    /\ \/ /\ Goto(w, "result") /\ calls' = calls \ Awaited(w)
          /\ UNCHANGED <<leases, link>>
       \/ /\ (IF tab[w].cmd \in socketOnly THEN "oversizelive" ELSE "oversize") \in Faults
          /\ Fallback(w, TRUE, TRUE)
    /\ UNCHANGED <<ledger, store, session, history>> /\ NoMishap

\* A record's scope lease goes with its last record, unless the scope is the worker's own.
ReleaseScope(w, s) ==
    IF s # w /\ \A c \in Command : Home[c] = s => stored'[c] = "none" \/ c \in quarantined
    THEN lease' = [lease EXCEPT ![s] = None] /\ claims' = [claims EXCEPT ![w] = @ \ {s}]
    ELSE UNCHANGED leases

DropRecord(w, c) ==
    /\ Free(w, Home[c])
    /\ stored' = [stored EXCEPT ![c] = "none"]
    /\ IF stored[c] = "none" THEN UNCHANGED leases ELSE ReleaseScope(w, Home[c])
    /\ UNCHANGED <<quarantined, minted>>

StatusUnknown(w) ==
    /\ At(w, "await") /\ \E k \in Awaited(w) : k.kind = "STATUS" /\ holder[k.cmd] = 0
    /\ IF tab[w].cmd \in socketOnly
       THEN /\ DropRecord(w, tab[w].cmd)
            /\ unknown' = unknown \cup {tab[w].cmd}
            /\ Become(w, Vacant(IF tab[w].mode = "recover" THEN "fresh" ELSE "idle"))
            /\ calls' = calls \ Awaited(w) /\ UNCHANGED <<link, acked, settled, refused, overrun>>
       ELSE Fallback(w, TRUE, FALSE) /\ UNCHANGED <<store, history>>
    /\ UNCHANGED <<ledger, session>> /\ NoMishap

\* STATUS ACCEPTED: the verdict is open; the ack deadline will lead to another STATUS.
StatusAccepted(w) ==
    /\ At(w, "await")
    /\ \E k \in Awaited(w) : k.kind = "STATUS" /\ holder[k.cmd] # 0 /\ fate[holder[k.cmd]] = "open"
    /\ calls' = calls \ Awaited(w)
    /\ UNCHANGED <<ledger, store, leases, link, tab, session, history>> /\ NoMishap

\* The ERROR answers the COMMAND frame itself, of a request in execute mode.
ProvesUnapplied(w) == tab[w].mode = "execute" /\ tab[w].asked = "COMMAND"

\* A refused frame leaves nothing under way; the page sends the command over HTTP.
RefusedOverHttp(w) ==
    /\ Become(w, [tab[w] EXCEPT !.pc = "http", !.slot = FALSE])
    /\ calls' = (calls \ Awaited(w)) \cup {Call(w, tab[w].cmd, "HTTP")}
    /\ UNCHANGED <<leases, link>>

\* A policy refusal, before the backend is called.
Refused(w) ==
    /\ At(w, "await") /\ ProvesUnapplied(w) /\ Mishap("refuse")
    /\ \E k \in Awaited(w) : k.kind = "COMMAND" /\ k.acc = 0
    /\ IF tab[w].cmd \in socketOnly
       THEN /\ DropRecord(w, tab[w].cmd)
            /\ refused' = refused \cup {tab[w].cmd}
            /\ Become(w, Vacant("idle")) /\ UNCHANGED link
            /\ calls' = calls \ Awaited(w)
       ELSE RefusedOverHttp(w) /\ UNCHANGED <<store, refused>>
    /\ UNCHANGED <<ledger, session, acked, settled, unknown, overrun>>

\* The save fence refuses inside the execution, which rolls back: the command is dropped.
FenceRefused(w) ==
    /\ At(w, "await") /\ ProvesUnapplied(w) /\ "refuse" \in Faults
    /\ \E k \in Awaited(w) : k.kind = "COMMAND" /\ k.acc # 0 /\ fate[k.acc] = "void"
    /\ DropRecord(w, tab[w].cmd)
    /\ refused' = refused \cup {tab[w].cmd}
    /\ Become(w, Vacant("idle"))
    /\ calls' = calls \ Awaited(w)
    /\ UNCHANGED <<ledger, link, session, acked, settled, unknown, overrun>> /\ NoMishap

\* BUSY instead of a dispatch: the same frame may be sent again.
Busy(w) ==
    /\ At(w, "await") /\ tab[w].mode = "execute" /\ Mishap("busy")
    /\ \E k \in Awaited(w) : k.kind = "COMMAND" /\ k.acc = 0
    /\ Goto(w, "retry") /\ calls' = calls \ Awaited(w)
    /\ UNCHANGED <<ledger, store, leases, link, session, history>>

BackendTimeoutResent(w) ==  \* mutant: the command itself is sent again
    /\ At(w, "await") /\ Awaited(w) # {} /\ Mishap("timeout")
    /\ Goto(w, "retry")
    /\ calls' = Unheard(w)
    /\ UNCHANGED <<ledger, store, leases, link, session, history>>

\* BACKEND_TIMEOUT: the execution goes on without the gateway; only STATUS may be asked.
BackendTimeout(w) ==
    /\ At(w, "await") /\ Awaited(w) # {} /\ Mishap("timeout")
    /\ Become(w, [tab[w] EXCEPT !.pc = "retry", !.asked = "STATUS"])
    /\ calls' = Unheard(w)
    /\ UNCHANGED <<ledger, store, leases, link, session, history>>

Retry(w) ==
    /\ At(w, "retry") /\ link[w] = "up"
    /\ Send(w, tab[w].asked)
    /\ UNCHANGED <<ledger, store, leases, link, session, history>> /\ NoMishap

\* The execution was rolled back or given up (BACKEND_ERROR): a server kill like any other.
Voided(w) ==
    /\ At(w, "await") /\ \E k \in Awaited(w) : k.acc # 0 /\ fate[k.acc] = "void"
    /\ Fallback(w, FALSE, FALSE)
    /\ UNCHANGED <<ledger, store, session, history>> /\ NoMishap

\* The gateway answers an ERROR before it calls the backend.
RefusedEarly(w) == At(w, "await") /\ \E k \in Awaited(w) : k.acc = 0

\* LIVE_SYNC_DISABLED: the socket stays, and items go over HTTP from now on.
LiveSyncDisabled(w) ==
    /\ RefusedEarly(w) /\ Mishap("unavailable")
    /\ IF tab[w].cmd \in socketOnly
       THEN Become(w, Vacant("idle")) /\ Release(w) /\ calls' = calls \ Awaited(w)
       ELSE RefusedOverHttp(w)
    /\ UNCHANGED <<ledger, store, session, history>>

\* The socket and all leases go, an adopted record's too, while the request goes on: it dials
\* again, which looks at the worker's own scope only, and asks STATUS.
Reticket(w) ==
    /\ ~tab[w].reticketed
    /\ Become(w, [tab[w] EXCEPT !.pc = "dial", !.reticketed = TRUE])
    /\ Release(w) /\ calls' = calls \ Awaited(w)

\* SESSION_STALE: the credential is repaired in place, or where that is not possible by a
\* fresh ticket, once.
SessionStale(w) ==
    /\ RefusedEarly(w) /\ Mishap("stale")
    /\ \/ /\ Goto(w, "refresh") /\ calls' = calls \ Awaited(w)
          /\ UNCHANGED <<leases, link>>
       \/ Reticket(w)
    /\ UNCHANGED <<ledger, store, session, history>>

\* The parked command is resumed by STATUS ...
Refreshed(w) ==
    /\ At(w, "refresh")
    /\ Send(w, "STATUS")
    /\ UNCHANGED <<ledger, store, leases, link, session, history>> /\ NoMishap

\* ... or the refresh fails or takes too long, or says that the session is revoked.
RefreshFails(w) ==
    /\ At(w, "refresh")
    /\ Reticket(w) \/ Fallback(w, FALSE, FALSE)
    /\ UNCHANGED <<ledger, store, session, history>> /\ NoMishap

\* Any other ERROR, a spent retry budget, or a send buffer that does not drain.
ServerKill(w) ==
    /\ At(w, "await") /\ Mishap("kill")
    /\ Fallback(w, FALSE, FALSE)
    /\ UNCHANGED <<ledger, store, session, history>>

\* onClose: a request under way is kept and dials again; an idle worker lets the lane go.
SocketCloses(w) ==
    /\ IF tab[w].slot
       THEN /\ link' = [link EXCEPT ![w] = "lost"]
            /\ Goto(w, IF tab[w].pc \in {"await", "retry", "refresh"} THEN "dial" ELSE tab[w].pc)
            /\ calls' = Unheard(w)
            /\ UNCHANGED leases
       ELSE Release(w) /\ UNCHANGED <<tab, calls>>
    /\ UNCHANGED <<ledger, store, session, history>>

SocketLost(w) ==
    /\ w \notin shut /\ link[w] = "up"
    /\ Mishap("socket") /\ SocketCloses(w)

\* Nothing came before the ack deadline, which closes the socket (4000).
AckDeadline(w) ==
    /\ At(w, "await") /\ Awaited(w) = {} /\ link[w] = "up"
    /\ SocketCloses(w) /\ NoMishap

-----------------------------------------------------------------------------
(* The page: HTTP answers, and making an answer durable.                   *)

HttpOk(w) ==
    /\ At(w, "http")
    /\ \E k \in Awaited(w) : k.acc # 0 /\ fate[k.acc] = "done"
    /\ Goto(w, "result") /\ calls' = calls \ Awaited(w)
    /\ UNCHANGED <<ledger, store, leases, link, session, history>> /\ NoMishap

\* The server answers with an error, or went down with the request.
HttpVoided(w) ==
    /\ At(w, "http")
    /\ \A k \in Awaited(w) : k.acc # 0 /\ fate[k.acc] = "void"
    /\ Become(w, Vacant("idle")) /\ calls' = Unheard(w)
    /\ UNCHANGED <<ledger, store, leases, link, session, history>> /\ NoMishap

HttpFails(w) ==
    /\ At(w, "http")
    /\ Mishap("http")
    /\ Become(w, Vacant("idle")) /\ calls' = Unheard(w)
    /\ UNCHANGED <<ledger, store, leases, link, session, history>>

PlainDone(w) ==
    /\ At(w, "plain")
    /\ Goto(w, "idle")
    /\ UNCHANGED <<ledger, calls, store, leases, link, session, history>> /\ NoMishap

\* The answer's payloads, and the checkpoint they belong to, reach the page's database.
Persist(w) ==
    /\ At(w, "result")
    /\ Goto(w, "ack")
    /\ settled' = settled \cup {tab[w].cmd}
    /\ UNCHANGED <<ledger, calls, store, leases, link, session, acked, refused, unknown, overrun>> /\ NoMishap

\* The worker is not told: a slot that holds a delivered result stays taken.
Unsettled(w) == IF tab[w].slot THEN Goto(w, "stuck") ELSE Become(w, Vacant("idle"))

PersistFails(w) ==
    /\ At(w, "result") /\ Mishap("persist")
    /\ Unsettled(w)
    /\ UNCHANGED <<ledger, calls, store, leases, link, session, history>>

CheckpointCleared(w) ==
    /\ At(w, "ack")
    /\ DropRecord(w, tab[w].cmd)
    /\ Become(w, Vacant(IF tab[w].mode = "recover" THEN "recover" ELSE "idle"))
    /\ UNCHANGED <<ledger, calls, link, session, history>> /\ NoMishap

CheckpointFailed(w) ==
    /\ At(w, "ack") /\ ~Free(w, Home[tab[w].cmd])
    /\ Unsettled(w)
    /\ UNCHANGED <<ledger, calls, store, leases, link, session, history>> /\ NoMishap

-----------------------------------------------------------------------------
(* Leases, crashes and revocation.                                         *)

Delivered(w) == tab[w].slot /\ tab[w].pc \in {"result", "ack", "stuck"}

\* A delivered result's slot is given back without its record: the page goes on by itself.
SlotFreed(w) ==
    /\ IF tab[w].pc = "stuck" THEN Become(w, Vacant("idle"))
       ELSE Become(w, [tab[w] EXCEPT !.slot = FALSE])
    /\ Release(w) /\ calls' = calls

Redial(w) ==
    /\ w \notin shut /\ Delivered(w) /\ link[w] = "lost"
    /\ \/ /\ Free(w, w) /\ NoMishap
          /\ lease' = [lease EXCEPT ![w] = w] /\ link' = [link EXCEPT ![w] = "up"]
          /\ UNCHANGED <<calls, claims, tab>>
       \/ /\ IF Free(w, w) THEN Mishap("dial") ELSE NoMishap
          /\ SlotFreed(w)
    /\ UNCHANGED <<ledger, store, session, history>>

\* The owner renewal finds a scope no longer leased to this worker.
Surrender(w) ==
    /\ tab[w].pc # "off" /\ w \notin shut /\ link[w] # "none"
    /\ \E s \in {w} \cup claims[w] : lease[s] # w
    /\ IF Delivered(w) THEN SlotFreed(w)
       ELSE IF tab[w].slot THEN Fallback(w, FALSE, FALSE)
       ELSE Release(w) /\ UNCHANGED <<tab, calls>>
    /\ \/ UNCHANGED <<stored, minted>>
       \/ /\ tab[w].pc = "mark" /\ Free(w, w) \* the write under way still lands
          /\ stored' = [stored EXCEPT ![tab[w].cmd] = "dispatched"]
          /\ UNCHANGED minted
       \/ /\ tab[w].pc = "store" /\ Free(w, w)
          /\ stored' = [stored EXCEPT ![tab[w].cmd] = "stored"]
          /\ minted' = Append(minted, tab[w].cmd)
    /\ UNCHANGED <<ledger, quarantined, session, history>> /\ NoMishap

\* A worker with a lane renews its leases; one at a request took them within the TTL.
Renews(w) == tab[w].pc # "off" /\ w \notin shut /\ (link[w] # "none" \/ tab[w].cmd # None)

\* A lease nobody renews runs out.  Its TTL is longer than the moment between the two
\* phases of a sync.
MayLapse(s) == ~Renews(lease[s]) /\ \A w \in Worker : tab[w].pc # "fresh"

Lapse(s) ==
    /\ lease[s] # None /\ MayLapse(s)
    /\ lease' = [lease EXCEPT ![s] = None]
    /\ UNCHANGED <<ledger, calls, store, claims, link, tab, session, history>> /\ NoMishap

\* A frozen tab misses its renewals, a request without a lane outlasts the TTL, or a sync
\* pauses between its phases.
Freeze(s) ==
    /\ lease[s] # None /\ ~MayLapse(s) /\ Mishap("freeze")
    /\ lease' = [lease EXCEPT ![s] = None]
    /\ overrun' = overrun \cup {s}
    /\ UNCHANGED <<ledger, calls, store, claims, link, tab, session, acked, settled, refused, unknown>>

Crash(w) ==
    /\ tab[w].pc # "off" /\ w \notin shut /\ Mishap("crash")
    /\ \E v \in Worker \ {w} : tab[v].pc # "off" /\ v \notin shut
    /\ Become(w, Vacant("off"))
    /\ link' = [link EXCEPT ![w] = "none"] /\ claims' = [claims EXCEPT ![w] = {}]
    /\ calls' = Unheard(w)
    /\ UNCHANGED <<ledger, store, lease, session, history>>

\* revokeSession: no journal write begins any more; one under way is awaited ...
RevokeStarts(w) ==
    /\ tab[w].pc # "off" /\ w \notin shut /\ Mishap("revoke")
    /\ shut' = shut \cup {w}
    /\ UNCHANGED <<ledger, calls, store, leases, link, tab, socketOnly, history>>

QuarantineAtOnce(w) ==  \* mutant: the write under way is not awaited
    /\ w \in shut \ acked
    /\ quarantined' = quarantined \cup {c \in Command : stored[c] # "none"}
    /\ acked' = acked \cup {w}
    /\ Release(w) /\ calls' = Unheard(w)
    /\ UNCHANGED <<ledger, stored, minted, tab, session, settled, refused, unknown, overrun>> /\ NoMishap

\* ... before every record of the session is marked, and the revocation acknowledged.
Quarantine(w) ==
    /\ w \in shut \ acked /\ tab[w].pc \notin {"store", "mark"}
    /\ quarantined' = quarantined \cup {c \in Command : stored[c] # "none"}
    /\ acked' = acked \cup {w}
    /\ Release(w) /\ calls' = Unheard(w)
    /\ UNCHANGED <<ledger, stored, minted, tab, session, settled, refused, unknown, overrun>> /\ NoMishap

-----------------------------------------------------------------------------
Sync(w) ==
    \/ SyncStarts(w) \/ RecoverEmpty(w) \/ RecoverDeferred(w) \/ RecoverAdopts(w)
    \/ RecoverOverHttp(w) \/ SyncEnds(w) \/ ExecuteBlocked(w)

Socket(w) ==
    \/ DialTaken(w) \/ Dial(w) \/ PrepareStatus(w) \/ PrepareStale(w) \/ PrepareStore(w)
    \/ Store(w) \/ MarkAndSend(w) \/ PutRefused(w) \/ Retry(w) \/ Refreshed(w)
    \/ RefreshFails(w) \/ AckDeadline(w) \/ Redial(w) \/ Surrender(w)

Answer(w) ==
    \/ Committed(w) \/ StatusUnknown(w) \/ StatusAccepted(w) \/ Voided(w)
    \/ HttpOk(w) \/ HttpVoided(w) \/ PlainDone(w) \/ Persist(w) \/ CheckpointCleared(w) \/ CheckpointFailed(w) \/ Quarantine(w)

\* Answers that fail, and what may go wrong.
Trouble(w) ==
    \/ DialFails(w) \/ PrepareUnavailable(w) \/ Refused(w) \/ FenceRefused(w) \/ Busy(w) \/ BackendTimeout(w)
    \/ LiveSyncDisabled(w) \/ SessionStale(w) \/ ServerKill(w) \/ HttpFails(w) \/ SocketLost(w) \/ PersistFails(w)
    \/ Crash(w) \/ RevokeStarts(w)

Next ==
    \/ Server
    \/ \E w \in Worker : Sync(w) \/ ExecuteStarts(w) \/ Socket(w) \/ Answer(w) \/ Trouble(w)
    \/ \E s \in Worker : Lapse(s) \/ Freeze(s)

Spec == Init /\ [][Next]_vars

Fairness ==
    /\ WF_vars(Server)
    /\ \A w \in Worker : WF_vars(Sync(w)) /\ WF_vars(Socket(w) \/ Answer(w))
    /\ \A s \in Worker : SF_vars(Lapse(s))

FairSpec == Spec /\ Fairness

-----------------------------------------------------------------------------
(* Properties.                                                             *)

\* The variables keep their types; a request knows its command, and at most one call of a
\* worker is awaited.
TypeOK ==
    /\ holder \in [Command -> 0 .. MaxRows]
    /\ fate \in [1 .. MaxRows -> {"unborn", "open", "done", "void"}] /\ count \in 0 .. MaxRows
    /\ \A k \in calls : /\ k.w \in Worker \cup {None} /\ k.cmd \in Command
                        /\ k.kind \in {"COMMAND", "STATUS", "HTTP"} /\ k.acc \in 0 .. count
    /\ stored \in [Command -> {"none", "stored", "dispatched"}] /\ quarantined \subseteq Command
    /\ Minted = Command \cap Minted /\ Cardinality(Minted) = Len(minted)
    /\ lease \in [Worker -> Worker \cup {None}] /\ claims \in [Worker -> SUBSET Worker]
    /\ link \in [Worker -> {"none", "lost", "up"}]
    /\ tab \in [Worker -> Tab]
    /\ \A w \in Worker :
          /\ Cardinality(Awaited(w)) <= 1
          /\ tab[w].pc \in {"dial", "store", "mark", "await", "retry", "refresh", "http", "result",
                             "ack"} =>
                 tab[w].cmd # None
    /\ unknown \subseteq socketOnly /\ socketOnly \subseteq Command /\ shut \subseteq Worker /\ acked \subseteq shut
    /\ settled \cup refused \cup unknown \subseteq Minted /\ mishaps \in 0 .. MaxMishaps /\ overrun \subseteq Worker

Applied(c) == holder[c] # 0 /\ fate[holder[c]] = "done"

\* What the server has executed, the client can still ask about or has made durable: no
\* answer is lost, whatever became of the socket, the tab, the lease or the HTTP replay
\* (put before the frame, delete only after CHECKPOINT_DURABLE or a proof).  Nor does the
\* page make an answer durable to something the server has not done.
AppliedIsRemembered ==
    /\ \A c \in Command \ (unknown \cup refused) : Applied(c) => stored[c] # "none" \/ c \in settled
    /\ \A c \in settled : Applied(c)

\* A record dropped because an ERROR answered its COMMAND frame belongs to a command that
\* was not applied, and no frame or replay still under way applies it later; unless the lease
\* ran out meanwhile and a sibling replayed the record.
RefusedNeverApplies == \A c \in refused : Applied(c) => Home[c] \in overrun

\* The request goes on with an adopted record whose lease it gave up for a fresh ticket.
Unleased(w) == tab[w].reticketed /\ Home[tab[w].cmd] # w

\* Two tabs never have a question about the same record on their sockets, whoever minted it
\* and however often it changed hands: what one tab resolves, no other one is resolving
\* (oldest, put and delete take the lease in the transaction that reads or writes the
\* record).  Two things break it and nothing else does: the lease runs out under a tab that
\* was using it, and a tab whose session went stale goes on with a record it had adopted,
\* whose lease it released (SyncTransportWorkerRuntime.ts:2892-2900).
OneTabAsks ==
    \A v, w \in Worker :
        v # w /\ At(v, "await") /\ At(w, "await") /\ tab[v].cmd = tab[w].cmd =>
            Home[tab[w].cmd] \in overrun \/ Unleased(v) \/ Unleased(w)

\* After SESSION_REVOKED_ACK no record of the worker's own is left unmarked, the one a
\* write was appending when the revocation arrived included.
QuarantineHolds ==
    \A c \in Command : Home[c] \in acked /\ stored[c] # "none" => c \in quarantined

\* Every record is eventually resolved, by a worker of its own tab or by a sibling that
\* adopts it, unless the session is revoked or the page failed to make a delivered result
\* durable, which its worker is not told and holds on to.
RecordResolves ==
    \A c \in Command :
        stored[c] # "none" ~> \/ stored[c] = "none" \/ c \in quarantined \/ shut = Worker
                              \/ \E w \in Worker : tab[w].pc = "stuck"

\* SyncTransportWorkerRuntime.ts:2878-2885 says of a result that is too large for a frame
\* that "the HTTP path carries" its identity and serves it "over the unbounded transport",
\* and that the wedge of asking STATUS over and over is gone: the answer to what the server
\* has executed arrives.
LargeResultArrives ==
    \A c \in Command : Applied(c) /\ stored[c] # "none" ~> stored[c] = "none"
=============================================================================
