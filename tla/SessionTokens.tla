----------------------------- MODULE SessionTokens -----------------------------
(***************************************************************************)
(* Sessions and their token pairs in the auth service.  A sign-in inserts  *)
(* a session stamped with the account's authentication generation; a       *)
(* refresh replaces its pair (access and refresh token) and puts the old   *)
(* one into a short cooldown, so that a client whose answer was lost can   *)
(* still present it.  A reset moves the generation on, a revocation        *)
(* deletes the session, and a session unused for too long is revoked by    *)
(* whoever checks it next.  Every await of a handler is a step boundary;   *)
(* the session row, the generation, the activity row and the cooldown      *)
(* live in different stores.                                               *)
(***************************************************************************)
EXTENDS Integers, FiniteSets

CONSTANTS
    Session,     \* sessions of one account; each has one device
    Ephemeral,   \* those kept in the cache and not in the sessions table
    Handler,     \* refresh requests the server can be executing at a time
    MaxPair,     \* bound: token pairs minted for a session
    MaxResets,   \* bound: resets of the account's authentication
    MaxMishaps,  \* bound: answers lost and processes killed
    Closed       \* windows left out of an instance: "overlap", "crash", "twice"

ASSUME SessionAssumption ==
    /\ Session # {} /\ Ephemeral \subseteq Session
    /\ MaxPair \in Nat \ {0} /\ MaxResets \in Nat /\ MaxMishaps \in Nat
    /\ Closed \subseteq {"overlap", "crash", "twice"}

VARIABLES
    gen,       \* users.auth_generation
    row,       \* [Session -> stored session], in the table or the cache
    revoked,   \* sessions whose activity row carries revoked_at
    idle,      \* sessions last seen longer ago than the inactivity limit
    cooldown,  \* [Session -> pairs under the session's cooldown key]
    signin,    \* [Session -> step of its sign-in]
    expected,  \* [Session -> generation of the user its sign-in loaded]
    device,    \* [Session -> pair its device holds, 0 for none]
    minted,    \* [Session -> pairs minted so far]
    pc,        \* [Handler -> step of the refresh]
    about,     \* [Handler -> session it looked up]
    given,     \* [Handler -> pair presented]
    copy,      \* [Handler -> session object it works on]
    fresh,     \* [Handler -> pair it minted]
    lapsed,    \* sessions whose device let the cooldown of its pair run out
    mishaps

accounts == <<gen, row, revoked, idle, cooldown>>
clients == <<signin, expected, device, minted, lapsed>>
handlers == <<pc, about, given, copy, fresh>>
vars == <<accounts, clients, handlers, mishaps>>

-----------------------------------------------------------------------------
NoRow == [gen |-> -1, pair |-> 0]
Pair == 1 .. MaxPair
Row == [gen : 0 .. MaxResets, pair : Pair]

Exists(s) == row[s] # NoRow

\* What every authenticated request asks of a session before it looks at the tokens.
Live(s) == Exists(s) /\ row[s].gen = gen /\ s \notin revoked

Busy(s) == \E q \in Handler : pc[q] # "idle" /\ about[q] = s
Goto(q, step) == pc' = [pc EXCEPT ![q] = step]
KeepHandler == UNCHANGED <<about, given, copy, fresh>>

Steps == {"idle", "lookup", "generation", "activity", "match", "again", "check",
          "update", "recheck", "observe", "cool", "save", "answer", "purge"}

Init ==
    /\ gen = 0 /\ row = [s \in Session |-> NoRow] /\ revoked = {} /\ idle = {}
    /\ cooldown = [s \in Session |-> {}]
    /\ signin = [s \in Session |-> "none"]
    /\ expected = [s \in Session |-> 0]
    /\ device = [s \in Session |-> 0] /\ minted = [s \in Session |-> 0]
    /\ pc = [q \in Handler |-> "idle"]
    /\ about = [q \in Handler |-> CHOOSE s \in Session : TRUE]
    /\ given = [q \in Handler |-> 0] /\ copy = [q \in Handler |-> NoRow]
    /\ fresh = [q \in Handler |-> 0]
    /\ lapsed = {} /\ mishaps = 0

-----------------------------------------------------------------------------
(* Sign-in.                                                                 *)

KeepSignIn == UNCHANGED <<lapsed, handlers, mishaps>>

\* The credentials are verified against the user loaded here.
LoadUser(s) ==
    /\ signin[s] = "none"
    /\ signin' = [signin EXCEPT ![s] = "loaded"]
    /\ expected' = [expected EXCEPT ![s] = gen]
    /\ UNCHANGED <<accounts, device, minted>> /\ KeepSignIn

\* An ephemeral session has no transaction around its insert, so the generation is
\* read before it ...
CheckSignIn(s) ==
    /\ s \in Ephemeral /\ signin[s] = "loaded"
    /\ signin' = [signin EXCEPT ![s] = IF gen = expected[s] THEN "checked" ELSE "failed"]
    /\ UNCHANGED <<accounts, expected, device, minted>> /\ KeepSignIn

\* mutant: stamped with the generation of the moment of the insert
InsertUnfenced(s) ==
    /\ signin[s] = (IF s \in Ephemeral THEN "checked" ELSE "loaded")
    /\ minted' = [minted EXCEPT ![s] = 1]
    /\ row' = [row EXCEPT ![s] = [gen |-> gen, pair |-> 1]]
    /\ signin' = [signin EXCEPT ![s] = "inserted"]
    /\ UNCHANGED <<gen, revoked, idle, cooldown, expected, device>> /\ KeepSignIn

\* ... while a durable one is inserted under a lock on the user's generation.
InsertSession(s) ==
    /\ signin[s] = (IF s \in Ephemeral THEN "checked" ELSE "loaded")
    /\ s \in Ephemeral \/ gen = expected[s]
    /\ minted' = [minted EXCEPT ![s] = 1]
    /\ row' = [row EXCEPT ![s] = [gen |-> expected[s], pair |-> 1]]
    /\ signin' = [signin EXCEPT ![s] = "inserted"]
    /\ UNCHANGED <<gen, revoked, idle, cooldown, expected, device>> /\ KeepSignIn

InsertRefused(s) ==
    /\ s \notin Ephemeral /\ signin[s] = "loaded" /\ gen # expected[s]
    /\ signin' = [signin EXCEPT ![s] = "failed"]
    /\ UNCHANGED <<accounts, expected, device, minted>> /\ KeepSignIn

AnswerSignIn(s) ==
    /\ signin[s] = "inserted"
    /\ s \in Ephemeral => gen = expected[s]
    /\ device' = [device EXCEPT ![s] = 1]
    /\ signin' = [signin EXCEPT ![s] = "in"]
    /\ UNCHANGED <<accounts, expected, minted>> /\ KeepSignIn

\* An ephemeral session is taken back if the generation moved on during the insert.
TakeBack(s) ==
    /\ s \in Ephemeral /\ signin[s] = "inserted" /\ gen # expected[s]
    /\ row' = [row EXCEPT ![s] = NoRow]
    /\ signin' = [signin EXCEPT ![s] = "failed"]
    /\ UNCHANGED <<gen, revoked, idle, cooldown, expected, device, minted>> /\ KeepSignIn

\* The process dies before it answers: the session stays behind.
SignInDies(s) ==
    /\ signin[s] = "inserted" /\ mishaps < MaxMishaps
    /\ mishaps' = mishaps + 1
    /\ signin' = [signin EXCEPT ![s] = "failed"]
    /\ UNCHANGED <<accounts, expected, device, minted, lapsed, handlers>>

-----------------------------------------------------------------------------
(* The refresh of a session's tokens.                                       *)

KeepClients == UNCHANGED clients

Stale(s) == Exists(s) /\ device[s] # row[s].pair

\* The device presents the pair it holds, because a call was answered 498 or because
\* the pair is about to expire.  One refresh at a time is the client's intent; a retry
\* or a second tab overlaps with a refresh the server is still executing.
Present(q, s) ==
    /\ pc[q] = "idle" /\ signin[s] = "in"
    /\ "overlap" \in Closed => ~Busy(s)
    /\ minted[s] + Cardinality({r \in Handler : pc[r] # "idle" /\ about[r] = s}) < MaxPair
    /\ Stale(s) \/ minted[s] < MaxPair - MaxMishaps
    /\ Goto(q, "lookup")
    /\ about' = [about EXCEPT ![q] = s]
    /\ given' = [given EXCEPT ![q] = device[s]]
    /\ UNCHANGED <<copy, fresh, accounts, mishaps>> /\ KeepClients

\* The session object the handler works on from here; it is not read again.
Lookup(q) ==
    /\ pc[q] = "lookup"
    /\ copy' = [copy EXCEPT ![q] = row[about[q]]]
    /\ Goto(q, IF Exists(about[q]) THEN "generation" ELSE "idle")
    /\ UNCHANGED <<about, given, fresh, accounts, mishaps>> /\ KeepClients

CheckGeneration(q) ==
    /\ pc[q] \in {"generation", "check"}
    /\ Goto(q, IF copy[q].gen # gen THEN "idle"
               ELSE IF pc[q] = "generation" THEN "activity" ELSE "update")
    /\ KeepHandler /\ UNCHANGED <<accounts, mishaps>> /\ KeepClients

\* SessionInactivityService.check, one transaction on the activity row; the last of the
\* three also records that the session was seen.
StillActive(q) ==
    /\ pc[q] \in {"activity", "again", "observe"}
    /\ about[q] \notin revoked \union idle
    /\ Goto(q, IF pc[q] = "activity" THEN "match" ELSE IF pc[q] = "observe" THEN "cool"
               ELSE IF about[q] \in Ephemeral THEN "check" ELSE "update")
    /\ KeepHandler /\ UNCHANGED <<accounts, mishaps>> /\ KeepClients

\* A session unseen for too long is marked and deleted by the check, an ephemeral one
\* deleted a step later.
Inactive(q) ==
    /\ pc[q] \in {"activity", "again", "observe"}
    /\ about[q] \in revoked \union idle
    /\ revoked' = revoked \union {about[q]}
    /\ row' = IF about[q] \in Ephemeral THEN row ELSE [row EXCEPT ![about[q]] = NoRow]
    /\ Goto(q, IF about[q] \in Ephemeral THEN "purge" ELSE "idle")
    /\ KeepHandler /\ UNCHANGED <<gen, idle, cooldown, mishaps>> /\ KeepClients

Purge(q) ==
    /\ pc[q] = "purge"
    /\ row' = [row EXCEPT ![about[q]] = NoRow]
    /\ Goto(q, "idle")
    /\ KeepHandler /\ UNCHANGED <<gen, revoked, idle, cooldown, mishaps>> /\ KeepClients

\* A cache that is down is reported and leaves the ephemeral session where it is.
PurgeFails(q) ==
    /\ pc[q] = "purge" /\ mishaps < MaxMishaps
    /\ mishaps' = mishaps + 1
    /\ Goto(q, "idle")
    /\ KeepHandler /\ UNCHANGED accounts /\ KeepClients

MatchCurrent(q) ==  \* mutant: the cooldown is not asked
    /\ pc[q] = "match"
    /\ given[q] = copy[q].pair
    /\ Goto(q, "again")
    /\ KeepHandler /\ UNCHANGED <<accounts, mishaps>> /\ KeepClients

\* The presented pair is the session's, or the one read from under its cooldown key.
Match(q) ==
    /\ pc[q] = "match"
    /\ given[q] = copy[q].pair \/ given[q] \in cooldown[about[q]]
    /\ Goto(q, "again")
    /\ KeepHandler /\ UNCHANGED <<accounts, mishaps>> /\ KeepClients

NoMatch(q) ==
    /\ pc[q] = "match"
    /\ given[q] # copy[q].pair /\ cooldown[about[q]] # {given[q]}
    /\ Goto(q, "idle")
    /\ KeepHandler /\ UNCHANGED <<accounts, mishaps>> /\ KeepClients

\* mutant: the row is written whether or not it is still there
RotateUpserting(q) ==
    /\ pc[q] = "update"
    /\ about[q] \in Ephemeral \/ copy[q].gen = gen
    /\ row' = [row EXCEPT ![about[q]] = [gen |-> copy[q].gen, pair |-> minted[about[q]] + 1]]
    /\ minted' = [minted EXCEPT ![about[q]] = @ + 1]
    /\ fresh' = [fresh EXCEPT ![q] = minted[about[q]] + 1]
    /\ Goto(q, IF about[q] \in Ephemeral THEN "recheck" ELSE "observe")
    /\ UNCHANGED <<about, given, copy, gen, revoked, idle, cooldown, mishaps>>
    /\ UNCHANGED <<signin, expected, device, lapsed>>

\* createTokens and the conditional update: of a durable session in a transaction that
\* holds the user's generation, of an ephemeral one in the cache.  Neither looks at the
\* pair it overwrites.
Rotate(q) ==
    /\ pc[q] = "update"
    /\ Exists(about[q])
    /\ about[q] \in Ephemeral \/ copy[q].gen = gen
    /\ row' = [row EXCEPT ![about[q]] = [gen |-> copy[q].gen, pair |-> minted[about[q]] + 1]]
    /\ minted' = [minted EXCEPT ![about[q]] = @ + 1]
    /\ fresh' = [fresh EXCEPT ![q] = minted[about[q]] + 1]
    /\ Goto(q, IF about[q] \in Ephemeral THEN "recheck" ELSE "observe")
    /\ UNCHANGED <<about, given, copy, gen, revoked, idle, cooldown, mishaps>>
    /\ UNCHANGED <<signin, expected, device, lapsed>>

RotateRefused(q) ==
    /\ pc[q] = "update"
    /\ ~Exists(about[q]) \/ (about[q] \notin Ephemeral /\ copy[q].gen # gen)
    /\ Goto(q, "idle")
    /\ KeepHandler /\ UNCHANGED <<accounts, mishaps>> /\ KeepClients

Recheck(q) ==
    /\ pc[q] = "recheck" /\ copy[q].gen = gen
    /\ Goto(q, "observe")
    /\ KeepHandler /\ UNCHANGED <<accounts, mishaps>> /\ KeepClients

\* An ephemeral session refreshed across a reset is deleted again.
Undo(q) ==
    /\ pc[q] = "recheck" /\ copy[q].gen # gen
    /\ row' = [row EXCEPT ![about[q]] = NoRow]
    /\ Goto(q, "idle")
    /\ KeepHandler /\ UNCHANGED <<gen, revoked, idle, cooldown, mishaps>> /\ KeepClients

\* setCooldown in the cache table: the key's row is removed ...
ForgetCooldown(q) ==
    /\ pc[q] = "cool"
    /\ cooldown' = [cooldown EXCEPT ![about[q]] = {}]
    /\ Goto(q, "save")
    /\ KeepHandler /\ UNCHANGED <<gen, row, revoked, idle, mishaps>> /\ KeepClients

SavePair(q, p) ==
    /\ pc[q] = "save"
    /\ cooldown' = [cooldown EXCEPT ![about[q]] = @ \union {p}]
    /\ Goto(q, "answer")
    /\ KeepHandler /\ UNCHANGED <<gen, row, revoked, idle, mishaps>> /\ KeepClients

SaveGiven(q) == SavePair(q, given[q])  \* mutant: the pair the device presented
SaveFresh(q) == SavePair(q, fresh[q])  \* mutant: read from the session after the refresh

\* ... and another one inserted, with the pair the session object held before the refresh.
SaveCooldown(q) == SavePair(q, copy[q].pair)

Answer(q) ==
    /\ pc[q] = "answer"
    /\ device' = [device EXCEPT ![about[q]] = fresh[q]]
    /\ lapsed' = lapsed \ {about[q]}
    /\ Goto(q, "idle")
    /\ KeepHandler /\ UNCHANGED <<accounts, signin, expected, minted, mishaps>>

\* The device never hears of the rotation, for the second time running if the pair it
\* presented was in the cooldown already.
AnswerLost(q) ==
    /\ pc[q] = "answer" /\ mishaps < MaxMishaps
    /\ "twice" \in Closed => given[q] = copy[q].pair
    /\ mishaps' = mishaps + 1
    /\ Goto(q, "idle")
    /\ KeepHandler /\ UNCHANGED accounts /\ KeepClients

\* The process dies, or the cache refuses the cooldown.
HandlerDies(q) ==
    /\ pc[q] \notin {"idle", "answer"} /\ mishaps < MaxMishaps
    /\ "crash" \in Closed => pc[q] \notin {"recheck", "observe", "cool", "save"}
    /\ mishaps' = mishaps + 1
    /\ Goto(q, "idle")
    /\ KeepHandler /\ UNCHANGED accounts /\ KeepClients

-----------------------------------------------------------------------------
(* Everyone else.                                                           *)

KeepRest == KeepClients /\ UNCHANGED <<handlers, mishaps>>

\* Signed out by the user, from another device or by an administrator's sweep.
Revoke(s) ==
    /\ Exists(s)
    /\ row' = [row EXCEPT ![s] = NoRow]
    /\ UNCHANGED <<gen, revoked, idle, cooldown>> /\ KeepRest

Reset ==
    /\ gen < MaxResets
    /\ gen' = gen + 1
    /\ UNCHANGED <<row, revoked, idle, cooldown>> /\ KeepRest

\* Too long without a call that records the session as seen.
GoIdle(s) ==
    /\ Exists(s) /\ s \notin idle
    /\ idle' = idle \union {s}
    /\ UNCHANGED <<gen, row, revoked, cooldown>> /\ KeepRest

\* The hourly pass of SessionInactivityService.
CleanUp(s) ==
    /\ Exists(s) /\ s \in idle \ revoked
    /\ revoked' = revoked \union {s}
    /\ row' = IF s \in Ephemeral THEN row ELSE [row EXCEPT ![s] = NoRow]
    /\ UNCHANGED <<gen, idle, cooldown>> /\ KeepRest

\* COOLDOWN_SESSION_TOKENS_TTL runs out.
CooldownEnds(s) ==
    /\ cooldown[s] # {}
    /\ cooldown' = [cooldown EXCEPT ![s] = {}]
    /\ lapsed' = IF device[s] \in cooldown[s] THEN lapsed \union {s} ELSE lapsed
    /\ UNCHANGED <<gen, row, revoked, idle, signin, expected, device, minted>>
    /\ UNCHANGED <<handlers, mishaps>>

SignIn(s) ==
    \/ LoadUser(s) \/ CheckSignIn(s) \/ InsertSession(s) \/ InsertRefused(s)
    \/ AnswerSignIn(s) \/ TakeBack(s)

Serve(q) ==
    \/ Lookup(q) \/ CheckGeneration(q) \/ StillActive(q) \/ Inactive(q) \/ Purge(q)
    \/ Match(q) \/ NoMatch(q) \/ Rotate(q) \/ RotateRefused(q) \/ Recheck(q) \/ Undo(q)
    \/ ForgetCooldown(q) \/ SaveCooldown(q) \/ Answer(q)

Fault(q) == PurgeFails(q) \/ AnswerLost(q) \/ HandlerDies(q)

Next ==
    \/ \E s \in Session : SignIn(s) \/ SignInDies(s) \/ Revoke(s)
    \/ \E s \in Session : GoIdle(s) \/ CleanUp(s) \/ CooldownEnds(s)
    \/ \E q \in Handler, s \in Session : Present(q, s)
    \/ \E q \in Handler : Serve(q) \/ Fault(q)
    \/ Reset

Spec == Init /\ [][Next]_vars

\* The server's handlers run on, and a device whose pair was replaced calls again and is
\* told to refresh by a 498; that the other sessions' refreshes leave it a handler (SF)
\* is the price of modelling few of them.
Fairness ==
    /\ \A q \in Handler : WF_vars(Serve(q))
    /\ \A s \in Session : SF_vars(\E q \in Handler : Stale(s) /\ Present(q, s))

FairSpec == Spec /\ Fairness

-----------------------------------------------------------------------------
\* Types; and two rows never share a session's cooldown key, where the older one might be
\* read instead of the newer one, as long as the session's refreshes do not overlap.
TypeOK ==
    /\ gen \in 0 .. MaxResets /\ row \in [Session -> Row \union {NoRow}]
    /\ revoked \subseteq Session /\ idle \subseteq Session /\ lapsed \subseteq Session
    /\ cooldown \in [Session -> SUBSET Pair]
    /\ signin \in [Session -> {"none", "loaded", "checked", "inserted", "in", "failed"}]
    /\ expected \in [Session -> 0 .. MaxResets]
    /\ device \in [Session -> 0 .. MaxPair] /\ minted \in [Session -> 0 .. MaxPair]
    /\ pc \in [Handler -> Steps] /\ about \in [Handler -> Session]
    /\ given \in [Handler -> 0 .. MaxPair] /\ fresh \in [Handler -> 0 .. MaxPair]
    /\ copy \in [Handler -> Row \union {NoRow}]
    /\ mishaps \in 0 .. MaxMishaps
    /\ "overlap" \in Closed => \A s \in Session : Cardinality(cooldown[s]) <= 1

\* No sign-in or refresh that began before the account's authentication was reset yields
\* a session that is honoured after it, wherever its handler was when the reset came.
NoneOutlivesReset == \A s \in Session : expected[s] < gen => ~Live(s)

Ended(s) == signin[s] \in {"inserted", "in", "failed"} /\ ~Live(s)

\* A session that was revoked, reset or left unused for too long is never honoured
\* again: a refresh under way at that moment does not bring it back.
EndedStaysEnded == [][\A s \in Session : Ended(s) => Ended(s)']_vars

Usable(s, p) == (Exists(s) /\ p = row[s].pair) \/ p \in cooldown[s]

\* A pair taken out of use comes back for no one but the refresh that replaced it, which
\* has yet to put it into the cooldown: presenting a cooled pair does not renew it.
RetiredStaysRetired ==
    [][\A s \in Session : \A p \in 1 .. minted[s] :
         /\ ~Usable(s, p) /\ signin[s] = "in"
         /\ p \notin {copy[q].pair : q \in {r \in Handler : pc[r] # "idle" /\ about[r] = s}}
         => ~Usable(s, p)']_vars

\* A device whose answer was lost is not locked out: between refreshes it holds the
\* session's pair or the one in the cooldown, unless it let the cooldown run out.
NeverLockedOut ==
    \A s \in Session :
        signin[s] = "in" /\ Live(s) /\ ~Busy(s) /\ s \notin lapsed
            => device[s] = row[s].pair \/ device[s] \in cooldown[s]

\* The pair the cooldown was kept for reaches the device in the end.
LostAnswerRecovers ==
    \A s \in Session :
        signin[s] = "in" /\ Live(s) /\ Stale(s)
            ~> ~Live(s) \/ s \in lapsed \/ device[s] = row[s].pair
=============================================================================
