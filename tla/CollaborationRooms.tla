-------------------------- MODULE CollaborationRooms --------------------------
(***************************************************************************)
(* Gateway replicas that share one collaboration room through Redis        *)
(* (CollaborationRedisBridge, rooms.ts, and gateway.ts where a connection  *)
(* ends): an editor reserves a lease, activates it within the time of its  *)
(* reservation and is then a member of the room; leases are refreshed,     *)
(* detached and released; a replica whose paths to Redis fail denies its   *)
(* room, queues the leases it held for release, and reopens without any.   *)
(*                                                                         *)
(* A replica's commands go through one connection: they are executed, and  *)
(* answered later, in the order they were sent; bounded() may have given   *)
(* up on a command by then.  Frames of a client's connection are handled   *)
(* one after the other; everything else runs between any two steps.  A     *)
(* handler that ends by releasing a lease is not made to wait for that.    *)
(***************************************************************************)
EXTENDS RoomLeases, SequencesExt

CONSTANTS
    Replica,
    Home,     \* the replica each editor is connected to, each by its own connection
    Events,   \* what clients, time and failures may do besides an editor's way into the room
    MaxTurns, \* bound: reservations drawn and events together
    MaxSent   \* bound: commands of a replica under way when an editor begins another

ASSUME RoomsAssumption ==
    /\ IsFiniteSet(Editor) /\ Home \in [Editor -> Replica]
    /\ MaxTurns \in Nat /\ MaxSent \in Nat
    /\ Events \subseteq {"again", "leave", "late", "lapse", "beat", "lost", "ended", "expire",
                         "slow", "drop", "unsubscribe", "crash", "loseState", "loseMembers", "restart"}

VARIABLES
    lease,   \* leases: the value, epoch and security epoch a replica holds for each editor
    parked,  \* detachedLeases, each with its timer
    queued,  \* pendingLeaseReleases
    slot,    \* editors with a pending editor reservation in the room registry
    member,  \* editors that are members of the room in the registry
    busy,    \* editors whose connection has a frame that waits for Redis
    conn,    \* each connection: open, lost or ended; swept, when releaseAll has run; crashed
    sent,    \* each replica's commands whose answers have not been received
    relay,   \* each replica's [healthy, linked, ready, subscribed]: linked, while its command
             \* connection stands; ready, since the last ready event and until a command fails
    cleanup, \* each replica's [batch, failed, timer]: startPendingLeaseCleanup
    drawn,   \* reservations drawn so far
    events

bridgeVars == <<lease, parked, queued, relay, cleanup>>
registryVars == <<slot, member, busy, conn>>
vars == <<storeVars, bridgeVars, registryVars, sent, drawn, events>>

Lease(phase, res, epoch, sec) == [phase |-> phase, res |-> res, epoch |-> epoch, sec |-> sec]
NoLease == Lease("none", 0, NoEpoch, 0)
NoLeases == [e \in Editor |-> NoLease]

On(r) == {e \in Editor : Home[e] = r}
Queued(q, r) == {e \in On(r) : q[e] # NoLease}
Held(r) == {e \in On(r) : lease[e] # NoLease}

Open == [healthy |-> TRUE, linked |-> TRUE, ready |-> TRUE, subscribed |-> TRUE]
Idle == [batch |-> {}, failed |-> FALSE, timer |-> FALSE]

Init ==
    /\ StoreInit
    /\ lease = NoLeases /\ parked = NoLeases /\ queued = NoLeases
    /\ slot = {} /\ member = {} /\ busy = {}
    /\ conn = [e \in Editor |-> "open"]
    /\ sent = [r \in Replica |-> <<>>]
    /\ relay = [r \in Replica |-> Open]
    /\ cleanup = [r \in Replica |-> Idle]
    /\ drawn = 0 /\ events = 0

Happens(kind) ==
    /\ kind \in Events /\ drawn + events < MaxTurns
    /\ events' = events + 1

-----------------------------------------------------------------------------
(* Commands                                                                *)

\* for names who waits for the answer; without a connection a command is rejected at once.
Command(e, op, l, for, answer) == [of |-> e, op |-> op, phase |-> l.phase, res |-> l.res,
                                   epoch |-> l.epoch, sec |-> l.sec, for |-> for, answer |-> answer]
LeaseOf(c) == Lease(c.phase, c.res, c.epoch, c.sec)

Commands(S, op, l, for, answer) ==
    LET order == SetToSeq(S)
    IN  [i \in 1..Cardinality(S) |-> Command(order[i], op, l[order[i]], for, answer)]

SendOn(linked, p, r, S, op, l, for) ==
    [p EXCEPT ![r] = @ \o Commands(S, op, l, for, IF linked THEN "none" ELSE "rejected")]

Send(p, r, S, op, l, for) == SendOn(relay[r].linked, p, r, S, op, l, for)

Answered(r) == [sent EXCEPT ![r] = Tail(@)]
Forget(l, S) == [e \in Editor |-> IF e \in S THEN NoLease ELSE l[e]]

\* releaseLease: what the replica has in its map, and nothing if it is gone from there.
LetGo(p, e) ==
    /\ lease' = Forget(lease, {e})
    /\ sent' = Send(p, Home[e], {e} \cap Held(Home[e]), "release", lease, "release")

-----------------------------------------------------------------------------
(* The health of the relay                                                 *)

\* startPendingLeaseCleanup, of the leases q, unless a batch is under way.
Starts(r, ready, q, batch) == ready /\ batch = {} /\ Queued(q, r) # {}

\* maybeEnableRelay
Reopens(r, ready, subscribed, q, batch) == ready /\ subscribed /\ Queued(q, r) = {} /\ batch = {}

\* denyRoom, for everyone on a replica.
Deny(r) ==
    /\ slot' = slot \ On(r)
    /\ member' = member \ On(r)

\* markRelayUnhealthy: what the replica held waits to be released.
CloseRelay(p, r, linked, ready, subscribed) ==
    LET q == [e \in Editor |-> IF e \in Held(r) THEN lease[e] ELSE queued[e]]
        starts == Starts(r, ready, q, cleanup[r].batch)
    IN  /\ Deny(r)
        /\ lease' = Forget(lease, On(r))
        /\ queued' = q
        /\ relay' = [relay EXCEPT ![r] = [healthy |-> FALSE, linked |-> linked, ready |-> ready,
                                          subscribed |-> subscribed]]
        /\ cleanup' = [cleanup EXCEPT ![r] = [batch |-> IF starts THEN Queued(q, r) ELSE @.batch,
                                              failed |-> ~starts /\ @.failed,
                                              timer |-> @.timer /\ ready]]
        /\ sent' = IF starts THEN Send(p, r, Queued(q, r), "release", q, "cleanup") ELSE p

\* handleCommandUnavailable: only the next ready event makes the commands ready again.
CommandsUnavailable(p, r, linked) == CloseRelay(p, r, linked, FALSE, relay[r].subscribed)

\* denyAndReleaseRoom: a lease of this replica was refused, so none of them is trusted.
DenyAndRelease(p, r) ==
    LET away == Queued(parked, r)
    IN  /\ Deny(r)
        /\ lease' = Forget(lease, On(r))
        /\ parked' = Forget(parked, On(r))
        /\ sent' = Send(Send(p, r, away, "release", parked, "release"),
                        r, Held(r), "release", lease, "release")

\* releaseOrQueue, when the release failed.
Requeue(e, l) ==
    /\ queued' = [queued EXCEPT ![e] = l]
    /\ cleanup' = [cleanup EXCEPT ![Home[e]].timer = @ \/ relay[Home[e]].ready]

-----------------------------------------------------------------------------
(* Frames of an editor's connection                                        *)

Ready(e) == conn[e] = "open" /\ e \notin busy /\ Len(sent[Home[e]]) < MaxSent

\* No new reservation while this replica still has a lease of the room to release.
Admits(r) == relay[r].healthy /\ Queued(queued, r) = {}

\* room-reserve, with an authorization for an epoch the client was told of at some time.
Reserve(e, epoch, sec) ==
    /\ Ready(e) /\ Admits(Home[e]) /\ lease[e] = NoLease
    /\ drawn + events < MaxTurns
    /\ drawn' = drawn + 1
    /\ slot' = slot \cup {e} /\ busy' = busy \cup {e}
    /\ sent' = Send(sent, Home[e], {e}, "reserve",
                    [NoLeases EXCEPT ![e] = Lease("pending", drawn + 1, epoch, sec)], "call")
    /\ UNCHANGED <<storeVars, bridgeVars, member, conn, events>>

\* The same reservation again renews a pending lease and leaves an active one as it is.
ReserveAgain(e) ==
    /\ Happens("again")
    /\ Ready(e) /\ Admits(Home[e]) /\ lease[e] # NoLease
    /\ slot' = slot \cup {e}
    /\ IF lease[e].phase = "active"
       THEN UNCHANGED <<busy, sent>>
       ELSE /\ busy' = busy \cup {e}
            /\ sent' = Send(sent, Home[e], {e}, "refresh", lease, "call")
    /\ UNCHANGED <<storeVars, bridgeVars, member, conn, drawn>>

\* A reservation refused before Redis is asked, for its epoch or while this replica cannot
\* take one, gives up what the editor had.
ReserveRefused(e) ==
    /\ Happens("again")
    /\ Ready(e)
    /\ \/ ~Admits(Home[e])
       \/ \E l \in used : lease[e] # NoLease /\ lease[e].epoch # l.epoch
    /\ lease[e] # NoLease \/ e \in slot
    /\ slot' = slot \ {e}
    /\ LetGo(sent, e)
    /\ UNCHANGED <<storeVars, parked, queued, relay, cleanup, member, busy, conn, drawn>>

\* room-join within the reservation's time.
Join(e) ==
    /\ Ready(e) /\ e \in slot \ member /\ lease[e].phase = "pending"
    /\ relay[Home[e]].healthy
    /\ busy' = busy \cup {e}
    /\ sent' = Send(sent, Home[e], {e}, "activate", lease, "call")
    /\ UNCHANGED <<storeVars, bridgeVars, slot, member, conn, drawn, events>>

\* A member that joins again is only told so.
JoinAgain(e) ==
    /\ Ready(e) /\ e \in slot \cap member
    /\ slot' = slot \ {e}
    /\ UNCHANGED <<storeVars, bridgeVars, member, busy, conn, sent, drawn, events>>

\* The capability or the challenge is not the reservation's, its time has run out, or the
\* relay is unhealthy.
JoinDenied(e) ==
    /\ Happens("leave")
    /\ Ready(e) /\ e \notin member /\ (lease[e] # NoLease \/ e \in slot)
    /\ slot' = slot \ {e}
    /\ LetGo(sent, e)
    /\ UNCHANGED <<storeVars, parked, queued, relay, cleanup, member, busy, conn, drawn>>

Leave(e) ==
    /\ Happens("leave")
    /\ Ready(e) /\ (lease[e] # NoLease \/ e \in slot \cup member)
    /\ slot' = slot \ {e} /\ member' = member \ {e}
    /\ LetGo(sent, e)
    /\ UNCHANGED <<storeVars, parked, queued, relay, cleanup, busy, conn, drawn>>

-----------------------------------------------------------------------------
(* The heartbeat, timers and the end of a connection                       *)

\* evictExpired: a reservation that was not joined in time takes the lease with it.
SlotExpires(e) ==
    /\ Happens("late")
    /\ e \in slot
    /\ slot' = slot \ {e}
    /\ LetGo(sent, e)
    /\ UNCHANGED <<storeVars, parked, queued, relay, cleanup, member, busy, conn, drawn>>

\* pruneExpiredLeases: the capability a member joined with runs out.
MembershipLapses(e) ==
    /\ Happens("lapse")
    /\ e \in member
    /\ member' = member \ {e}
    /\ UNCHANGED <<storeVars, bridgeVars, slot, busy, conn, sent, drawn>>

\* refreshLeases, of a lease whose time is over: an active one's is its membership's.
LeaseLapses(e) ==
    /\ lease[e] # NoLease /\ (lease[e].phase = "active" => e \notin member)
    /\ LetGo(sent, e)
    /\ UNCHANGED <<storeVars, parked, queued, relay, cleanup, registryVars, drawn, events>>

\* refreshLeases
Beat(r) ==
    /\ Happens("beat")
    /\ Held(r) # {} /\ Len(sent[r]) < MaxSent
    /\ \A i \in DOMAIN sent[r] : sent[r][i].for # "beat"
    /\ sent' = Send(sent, r, Held(r), "refresh", lease, "beat")
    /\ UNCHANGED <<storeVars, bridgeVars, registryVars, drawn>>

ConnectionEnds(e, how) ==
    /\ conn[e] = "open" /\ Happens(how)
    /\ conn' = [conn EXCEPT ![e] = how]
    /\ slot' = slot \ {e} /\ member' = member \ {e}
    /\ UNCHANGED <<storeVars, bridgeVars, busy, sent, drawn>>

\* releaseAll, once the frames already queued are handled: an unexpected loss of an active
\* editor keeps its place in the lineage for a while.
Sweep(e) ==
    /\ conn[e] \in {"lost", "ended"} /\ e \notin busy
    /\ conn' = [conn EXCEPT ![e] = "swept"]
    /\ slot' = slot \ {e} /\ member' = member \ {e}
    /\ IF conn[e] = "lost" /\ lease[e].phase = "active"
       THEN /\ lease' = Forget(lease, {e})
            /\ sent' = Send(sent, Home[e], {e}, "detach", lease, "detach")
       ELSE LetGo(sent, e)
    /\ UNCHANGED <<storeVars, parked, queued, relay, cleanup, busy, drawn, events>>

GraceEnds(e) ==
    /\ parked[e] # NoLease
    /\ parked' = Forget(parked, {e})
    /\ sent' = Send(sent, Home[e], {e}, "release", parked, "release")
    /\ UNCHANGED <<storeVars, lease, queued, relay, cleanup, registryVars, drawn, events>>

RetryCleanup(r) ==
    LET starts == Starts(r, relay[r].ready, queued, cleanup[r].batch)
    IN  /\ cleanup[r].timer
        /\ cleanup' = [cleanup EXCEPT ![r] = [batch |-> IF starts THEN Queued(queued, r) ELSE @.batch,
                                              failed |-> ~starts /\ @.failed, timer |-> FALSE]]
        /\ sent' = IF starts THEN Send(sent, r, Queued(queued, r), "release", queued, "cleanup") ELSE sent
        /\ UNCHANGED <<storeVars, lease, parked, queued, relay, registryVars, drawn, events>>

-----------------------------------------------------------------------------
(* Redis executes a command                                                *)

Script(c, answer) ==
    \/ c.op = "reserve" /\ ReserveScript(c.of, c.res, c.epoch, c.sec, answer)
    \/ c.op = "activate" /\ (\/ Activate(c.of, c, c.epoch, c.sec, answer)
                              \/ RefreshLost(c.of, c, c.epoch, c.sec, answer))
    \/ c.op = "refresh" /\ (\/ Refresh(c.of, c, c.epoch, c.sec, answer)
                             \/ RefreshLost(c.of, c, c.epoch, c.sec, answer))
    \/ c.op = "detach" /\ (Detach(c.of, c, answer) \/ DetachLost(c.of, c, answer))
    \/ c.op = "release" /\ (\/ Release(c.of, c, c.epoch, c.sec, answer)
                             \/ ReleaseRefused(c.of, c, answer))

Unanswered(s) == {i \in DOMAIN s : s[i].answer = "none"}
Awaited(s) == {i \in DOMAIN s : s[i].for # "nobody"}
IsFirst(i, S) == i \in S /\ \A j \in S : i <= j

Execute(r) ==
    \E i \in DOMAIN sent[r], answer \in Answer :
        /\ IsFirst(i, Unanswered(sent[r])) /\ relay[r].linked
        /\ Script(sent[r][i], answer)
        /\ sent' = [sent EXCEPT ![r][i].answer = answer]
        /\ UNCHANGED <<bridgeVars, registryVars, drawn, events>>

-----------------------------------------------------------------------------
(* An answer arrives                                                       *)

Arrives(r, op, for, answers) ==
    /\ relay[r].linked /\ sent[r] # <<>>
    /\ Head(sent[r]).op = op /\ Head(sent[r]).for = for
    /\ Head(sent[r]).answer \in answers

Editing(r) == Head(sent[r]).of
FrameDone(r) == busy' = busy \ {Editing(r)}

\* The reservation is kept if its slot is still there: not if the relay has failed since.
Reserved(r) ==
    /\ Arrives(r, "reserve", "call", {"elected", "follows"})
    /\ LET e == Editing(r)
           l == [lease EXCEPT ![e] = LeaseOf(Head(sent[r]))]
       IN  IF conn[e] = "open" /\ e \in slot
           THEN /\ lease' = l /\ sent' = Answered(r)
                /\ UNCHANGED slot
           ELSE /\ sent' = Send(Answered(r), r, {e}, "release", l, "release")
                /\ slot' = slot \ {e}
                /\ UNCHANGED lease
    /\ FrameDone(r)
    /\ UNCHANGED <<storeVars, parked, queued, relay, cleanup, member, conn, drawn, events>>

Renewed(r) ==
    /\ Arrives(r, "refresh", "call", {"ok"})
    /\ LET e == Editing(r)
       IN  IF conn[e] = "open" /\ e \in slot
           THEN sent' = Answered(r) /\ UNCHANGED <<slot, lease>>
           ELSE LetGo(Answered(r), e) /\ slot' = slot \ {e}
    /\ FrameDone(r)
    /\ UNCHANGED <<storeVars, parked, queued, relay, cleanup, member, conn, drawn, events>>

ReserveDenied(r) ==
    /\ Arrives(r, "reserve", "call", {"epoch"})
    /\ slot' = slot \ {Editing(r)}
    /\ sent' = Answered(r)
    /\ FrameDone(r)
    /\ UNCHANGED <<storeVars, bridgeVars, member, conn, drawn, events>>

\* discardRevokedRoom: the leases of the earlier generation went with the script.
ReserveRevoked(r) ==
    /\ Arrives(r, "reserve", "call", {"revoked"})
    /\ Deny(r)
    /\ lease' = Forget(lease, On(r))
    /\ sent' = Answered(r)
    /\ FrameDone(r)
    /\ UNCHANGED <<storeVars, parked, queued, relay, cleanup, conn, drawn, events>>

\* The editor joins if its connection is still open, whatever has become of its lease here.
Joined(r) ==
    /\ Arrives(r, "activate", "call", {"ok"})
    /\ LET e == Editing(r)
           l == IF lease[e].res = Head(sent[r]).res THEN [lease EXCEPT ![e].phase = "active"] ELSE lease
       IN  /\ slot' = slot \ {e}
           /\ IF conn[e] = "open"
              THEN /\ member' = member \cup {e}
                   /\ lease' = l /\ sent' = Answered(r)
              ELSE /\ lease' = Forget(lease, {e})
                   /\ sent' = Send(Answered(r), r, {e} \cap Held(r), "release", l, "release")
                   /\ UNCHANGED member
    /\ FrameDone(r)
    /\ UNCHANGED <<storeVars, parked, queued, relay, cleanup, conn, drawn, events>>

\* An activation or renewal is refused.
LeaseRefused(r) ==
    /\ Arrives(r, "activate", "call", {"lost"}) \/ Arrives(r, "refresh", "call", {"lost"})
    /\ DenyAndRelease(Answered(r), r)
    /\ FrameDone(r)
    /\ UNCHANGED <<storeVars, queued, relay, cleanup, conn, drawn, events>>

\* A refused heartbeat says nothing of a lease that has taken the place of its own.
Refreshed(r) ==
    /\ Arrives(r, "refresh", "beat", {"ok", "lost"})
    /\ IF Head(sent[r]).answer = "lost" /\ lease[Editing(r)].res = Head(sent[r]).res
       THEN DenyAndRelease(Answered(r), r)
       ELSE /\ sent' = Answered(r)
            /\ UNCHANGED <<slot, member, lease, parked>>
    /\ UNCHANGED <<storeVars, queued, relay, cleanup, busy, conn, drawn, events>>

Released(r) ==
    /\ Arrives(r, "release", "release", {"ok"})
    /\ sent' = Answered(r)
    /\ UNCHANGED <<storeVars, bridgeVars, registryVars, drawn, events>>

Detached(r) ==
    /\ Arrives(r, "detach", "detach", {"ok"})
    /\ parked' = [parked EXCEPT ![Editing(r)] = [LeaseOf(Head(sent[r])) EXCEPT !.phase = "detached"]]
    /\ sent' = Answered(r)
    /\ UNCHANGED <<storeVars, lease, queued, relay, cleanup, registryVars, drawn, events>>

DetachFails(c, p, r) ==
    /\ sent' = Send(p, r, {c.of}, "release", [NoLeases EXCEPT ![c.of] = LeaseOf(c)], "release")
    /\ UNCHANGED <<storeVars, bridgeVars, registryVars, drawn>>

DetachRefused(r) ==
    /\ Arrives(r, "detach", "detach", {"lost"})
    /\ DetachFails(Head(sent[r]), Answered(r), r)
    /\ UNCHANGED events

BatchStepForgetful(p, r, e, q, released) ==  \* mutant: a batch that failed is not tried again
    LET batch == cleanup[r].batch \ {e}
        again == Starts(r, relay[r].ready, q, batch) /\ released /\ ~cleanup[r].failed
    IN  /\ queued' = q
        /\ cleanup' = [cleanup EXCEPT ![r].batch = IF again THEN Queued(q, r) ELSE batch,
                                      ![r].failed = (@ \/ ~released) /\ batch # {}]
        /\ sent' = IF again THEN Send(p, r, Queued(q, r), "release", q, "cleanup") ELSE p
        /\ relay' = [relay EXCEPT ![r].healthy =
                       @ \/ (~again /\ Reopens(r, relay[r].ready, relay[r].subscribed, q, batch))]

\* One release of a batch has ended.  After the last one, if any has failed the rest is tried
\* again later, leases queued meanwhile at once, and without any the relay reopens.
BatchStep(p, r, e, q, released) ==
    LET batch == cleanup[r].batch \ {e}
        failed == cleanup[r].failed \/ ~released
        again == ~failed /\ Starts(r, relay[r].ready, q, batch)
    IN  /\ queued' = q
        /\ cleanup' = [cleanup EXCEPT ![r] =
                         [batch |-> IF again THEN Queued(q, r) ELSE batch,
                          failed |-> failed /\ batch # {},
                          timer |-> IF batch # {} THEN @.timer
                                    ELSE failed /\ (@.timer \/ (relay[r].ready /\ Queued(q, r) # {}))]]
        /\ sent' = IF again THEN Send(p, r, Queued(q, r), "release", q, "cleanup") ELSE p
        /\ relay' = [relay EXCEPT ![r].healthy =
                       @ \/ (~again /\ Reopens(r, relay[r].ready, relay[r].subscribed, q, batch))]

CleanedUp(r) ==
    LET e == Editing(r)
    IN  /\ Arrives(r, "release", "cleanup", {"ok"})
        /\ BatchStep(Answered(r), r, e,
                     IF queued[e].res = Head(sent[r]).res THEN Forget(queued, {e}) ELSE queued, TRUE)
        /\ UNCHANGED <<storeVars, lease, parked, registryVars, drawn, events>>

\* The answer to a command that was given up, or the end of it without a connection.
Ignored(r) ==
    /\ sent[r] # <<>> /\ Head(sent[r]).for = "nobody"
    /\ Head(sent[r]).answer # "none" \/ ~relay[r].linked
    /\ sent' = Answered(r)
    /\ UNCHANGED <<storeVars, bridgeVars, registryVars, drawn, events>>

-----------------------------------------------------------------------------
(* Failures                                                                *)

\* What bounded() throws for the command c, whose place in the replica's commands p tells.
Fails(c, p, r) ==
    \/ /\ c.for = "call"
       /\ CommandsUnavailable(p, r, relay[r].linked)
       /\ busy' = busy \ {c.of}
       /\ UNCHANGED <<storeVars, parked, conn, drawn>>
    \/ /\ c.for = "beat"
       /\ CommandsUnavailable(p, r, relay[r].linked)
       /\ UNCHANGED <<storeVars, parked, busy, conn, drawn>>
    \/ /\ c.for = "release"
       /\ Requeue(c.of, LeaseOf(c))
       /\ sent' = p
       /\ UNCHANGED <<storeVars, lease, parked, relay, registryVars, drawn>>
    \/ c.for = "detach" /\ DetachFails(c, p, r)
    \/ /\ c.for = "cleanup"
       /\ BatchStep(p, r, c.of, queued, FALSE)
       /\ UNCHANGED <<storeVars, lease, parked, registryVars, drawn>>

FirstAwaited(r, i) == IsFirst(i, Awaited(sent[r]))
Without(r, i) == [sent EXCEPT ![r] = RemoveAt(@, i)]

\* A command sent without a connection fails at once.
Rejected(r) ==
    \E i \in DOMAIN sent[r] :
        /\ FirstAwaited(r, i) /\ sent[r][i].answer = "rejected"
        /\ Fails(sent[r][i], Without(r, i), r)
        /\ UNCHANGED events

\* bounded() gives up on the first command it waits for.  Once one was late others may be.
\* What is late is still executed some time, unless it is flushed without a connection.
GiveUp(r) ==
    \E i \in DOMAIN sent[r] :
        /\ FirstAwaited(r, i) /\ sent[r][i].answer # "rejected"
        /\ IF relay[r].ready THEN Happens("slow") ELSE UNCHANGED events
        /\ \/ Fails(sent[r][i], [sent EXCEPT ![r][i].for = "nobody"], r)
           \/ ~relay[r].linked /\ Fails(sent[r][i], Without(r, i), r)

\* The command connection is lost; what was executed and not answered is sent again.
ConnectionDrops(r) ==
    LET again == [i \in DOMAIN sent[r] |->
                    [sent[r][i] EXCEPT !.answer = IF @ = "rejected" THEN @ ELSE "none"]]
    IN  /\ relay[r].linked /\ Happens("drop")
        /\ CommandsUnavailable([sent EXCEPT ![r] = again], r, FALSE)
        /\ UNCHANGED <<storeVars, parked, busy, conn, drawn>>

CommandsReady(r) ==
    LET starts == Starts(r, TRUE, queued, cleanup[r].batch)
    IN  /\ ~relay[r].linked
        /\ cleanup' = [cleanup EXCEPT ![r] = [batch |-> IF starts THEN Queued(queued, r) ELSE @.batch,
                                              failed |-> ~starts /\ @.failed, timer |-> FALSE]]
        /\ sent' = IF starts THEN SendOn(TRUE, sent, r, Queued(queued, r), "release", queued, "cleanup") ELSE sent
        /\ relay' = [relay EXCEPT ![r] =
                       [healthy |-> Reopens(r, TRUE, @.subscribed, queued, cleanup[r].batch),
                        linked |-> TRUE, ready |-> TRUE, subscribed |-> @.subscribed]]
        /\ UNCHANGED <<storeVars, lease, parked, queued, registryVars, drawn, events>>

\* The subscriber's connection is lost, or a frame it published reached nobody.
SubscriberLost(r) ==
    /\ relay[r].subscribed /\ Happens("unsubscribe")
    /\ CloseRelay(sent, r, relay[r].linked, relay[r].ready, FALSE)
    /\ UNCHANGED <<storeVars, parked, busy, conn, drawn>>

Resubscribed(r) ==
    /\ ~relay[r].subscribed
    /\ relay' = [relay EXCEPT ![r].subscribed = TRUE,
                              ![r].healthy = Reopens(r, relay[r].ready, TRUE, queued, cleanup[r].batch)]
    /\ UNCHANGED <<storeVars, lease, parked, queued, cleanup, registryVars, sent, drawn, events>>

\* A replica's process dies and comes back with nothing but new connections.
Crash(r) ==
    /\ Happens("crash")
    /\ Deny(r)
    /\ lease' = Forget(lease, On(r)) /\ parked' = Forget(parked, On(r)) /\ queued' = Forget(queued, On(r))
    /\ busy' = busy \ On(r)
    /\ conn' = [e \in Editor |-> IF e \in On(r) THEN "crashed" ELSE conn[e]]
    /\ sent' = [sent EXCEPT ![r] = [i \in DOMAIN @ |-> [@[i] EXCEPT !.for = "nobody"]]]
    /\ relay' = [relay EXCEPT ![r] = Open]
    /\ cleanup' = [cleanup EXCEPT ![r] = Idle]
    /\ UNCHANGED <<storeVars, drawn>>

\* Time and Redis's own failures, which reach no replica.
StoreStep ==
    /\ \/ (\E k \in Editor : Expire(k)) /\ Happens("expire")
       \/ StateLost /\ Happens("loseState")
       \/ MembersLost /\ Happens("loseMembers")
       \/ RedisRestarts /\ Happens("restart")
    /\ UNCHANGED <<bridgeVars, registryVars, sent, drawn>>

-----------------------------------------------------------------------------
Frame(e) ==
    \/ \E l \in used : Reserve(e, l.epoch, l.sec)
    \/ ReserveAgain(e) \/ ReserveRefused(e)
    \/ Join(e) \/ JoinAgain(e) \/ JoinDenied(e)
    \/ Leave(e)

Elapse(e) ==
    \/ SlotExpires(e) \/ MembershipLapses(e) \/ LeaseLapses(e)
    \/ ConnectionEnds(e, "lost") \/ ConnectionEnds(e, "ended")
    \/ Sweep(e) \/ GraceEnds(e)

Serve(r) ==
    \/ Execute(r)
    \/ Reserved(r) \/ Renewed(r) \/ ReserveDenied(r) \/ ReserveRevoked(r)
    \/ Joined(r) \/ LeaseRefused(r) \/ Refreshed(r)
    \/ Released(r) \/ Detached(r) \/ DetachRefused(r) \/ CleanedUp(r) \/ Ignored(r) \/ Rejected(r)

Next ==
    \/ \E e \in Editor : Frame(e) \/ Elapse(e)
    \/ \E r \in Replica :
          \/ Beat(r) \/ RetryCleanup(r) \/ Serve(r) \/ GiveUp(r)
          \/ ConnectionDrops(r) \/ CommandsReady(r)
          \/ SubscriberLost(r) \/ Resubscribed(r) \/ Crash(r)
    \/ StoreStep

Spec == Init /\ [][Next]_vars

\* Redis serves a connection that stands; ioredis connects again without end, and the
\* subscription is then accepted; timers fire.
FairSpec ==
    /\ Spec
    /\ \A r \in Replica : /\ WF_vars(Serve(r)) /\ WF_vars(RetryCleanup(r))
                         /\ WF_vars(CommandsReady(r)) /\ WF_vars(Resubscribed(r))

-----------------------------------------------------------------------------
\* An activated lease that Redis still counts is known to the replica it was granted to, which
\* holds it, waits to release it, or has a command about it under way: no answer lost, given
\* up or late, and nothing that ends meanwhile, leaves it to its 75 seconds.  Only a process
\* that died does.
ActiveLeaseTracked ==
    \A e \in members : key[e].phase = "active" /\ conn[e] # "crashed" =>
        \/ key[e].res \in {lease[e].res, queued[e].res, parked[e].res}
        \/ \E i \in DOMAIN sent[Home[e]] :
              sent[Home[e]][i].of = e /\ sent[Home[e]][i].res = key[e].res

\* A relay that closed with its connection, or because of the subscription, opens again, and
\* only when all the leases that were denied are released, however releases fail meanwhile.
\* A command that is given up while the connection stands is another matter: then no ready
\* event is due, and the relay stays closed until the connection happens to be lost.
RelayReopens ==
    \A r \in Replica :
        (~relay[r].healthy /\ (relay[r].ready \/ ~relay[r].linked))
            ~> (relay[r].healthy \/ (~relay[r].ready /\ relay[r].linked))
=============================================================================
