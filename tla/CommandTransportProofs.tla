------------------------ MODULE CommandTransportProofs ------------------------
(***************************************************************************)
(* Proofs that the client's command outbox forgets no answer, leaves no    *)
(* record behind a revocation, has one tab ask about a record, and drops   *)
(* as refused only what is never applied (CommandTransport), for any tabs, *)
(* commands and number of mishaps.                                         *)
(***************************************************************************)
EXTENDS CommandTransport, WellFoundedInduction, FiniteSetTheorems, TLAPS

\* A record once stored is there, or it is known why it is not.
Kept(c) == stored[c] # "none" \/ c \in settled \cup unknown \cup refused

\* The journal never accepts what no client has on record ...
LedgerOK ==
    /\ holder \in [Command -> 0 .. count] /\ count \in 0 .. MaxRows /\ DOMAIN fate = 1 .. MaxRows
    /\ \A c \in Command : holder[c] # 0 => Kept(c)

StoreOK ==
    /\ DOMAIN stored = Command /\ minted \in Seq(Command)
    /\ \A c \in Command : Kept(c) => c \in Minted

\* ... because what is under way is on record; an awaited call is about the request's own
\* command, and its acceptance is the one the journal holds unless it was given up.
CallOK(k) ==
    /\ k \in [w : Worker \cup {None}, cmd : Command, kind : {"COMMAND", "STATUS", "HTTP"}, acc : 0 .. count]
    /\ Kept(k.cmd)
    /\ k.w # None => tab[k.w].pc \in {"await", "http"} /\ k.cmd = tab[k.w].cmd
    /\ k.acc # 0 => fate[k.acc] = "void" \/ holder[k.cmd] = k.acc

\* A request that may send has its record, one that writes it writes its own, and the one
\* that makes an answer durable has an answer.
TabOK(w) ==
    /\ tab[w] \in Tab
    /\ tab[w].has => tab[w].cmd \in Command /\ Kept(tab[w].cmd)
    /\ tab[w].pc \in {"mark", "await", "retry", "refresh", "http", "result", "ack"} => tab[w].has
    /\ tab[w].pc \in {"dial", "store"} => tab[w].cmd \in Command
    /\ tab[w].pc \in {"store", "mark"} \/ (tab[w].pc = "dial" /\ ~tab[w].has) => Home[tab[w].cmd] = w
    /\ tab[w].pc \in {"result", "ack"} => Applied(tab[w].cmd)
    /\ tab[w].pc = "ack" => tab[w].cmd \in settled

\* A revocation is acknowledged when no write is under way, and none begins after it.
Revoked(w) == w \in acked => w \in shut /\ tab[w].pc \notin {"store", "mark"}

TransportInv ==
    /\ LedgerOK /\ StoreOK /\ DOMAIN tab = Worker
    /\ \A k \in calls : CallOK(k)
    /\ \A w \in Worker : TabOK(w) /\ Revoked(w)
    /\ \A c \in settled : c \in Command /\ Applied(c)
    /\ QuarantineHolds

-----------------------------------------------------------------------------
LEMMA InitTransport == Init => TransportInv
  BY TransportAssumption DEF Init, Ledger!LedgerInit, TransportInv, LedgerOK, StoreOK, Kept, CallOK, TabOK,
     Tab, Vacant, Revoked, QuarantineHolds

\* What a step of w does to the requests, and to the calls: others keep theirs, w's own end
\* or stay the request's, or one is new.
Moves(w) == DOMAIN tab' = Worker /\ \A v \in Worker \ {w} : tab'[v] = tab[v]

Calls(w) ==
    \A k \in calls' :
        \/ k \in calls /\ (k.w = w => tab'[w].pc \in {"await", "http"} /\ tab'[w].cmd = tab[w].cmd)
        \/ \E q \in calls : q.w = w /\ k = [q EXCEPT !.w = None]
        \/ /\ \E kind \in {"COMMAND", "STATUS", "HTTP"} : k = Call(w, tab'[w].cmd, kind)
           /\ tab'[w].pc \in {"await", "http"} /\ tab'[w].has

LEMMA WorkerStep ==
    ASSUME TransportInv, NEW w \in Worker, w \notin acked,
           UNCHANGED <<ledger, shut, acked, quarantined>>,
           StoreOK', \A c \in Command : Kept(c) => Kept(c)',
           \A c \in Command : stored'[c] # "none" /\ stored[c] = "none" => Home[c] = w,
           \A c \in settled' : c \in settled \/ (c \in Command /\ Applied(c)),
           Moves(w), TabOK(w)', Calls(w), settled \subseteq settled'
    PROVE  TransportInv'
<1>1. /\ \A c : Applied(c) <=> Applied(c)'
      /\ LedgerOK' /\ (\A c \in settled' : c \in Command /\ Applied(c)')
  BY DEF TransportInv, LedgerOK, Applied, ledger
<1>2. QuarantineHolds'
  BY DEF TransportInv, QuarantineHolds
<1>3. \A v \in Worker : TabOK(v)' /\ Revoked(v)'
  <2> TAKE v \in Worker
  <2>1. CASE v = w
    BY <2>1 DEF Revoked
  <2>2. CASE v # w
    BY <2>2, <1>1 DEF TransportInv, Moves, TabOK, Revoked
  <2>. QED BY <2>1, <2>2
<1>4. \A k \in calls' : CallOK(k)'
  <2> TAKE k \in calls'
  <2>1. CASE k \in calls /\ (k.w = w => tab'[w].pc \in {"await", "http"} /\ tab'[w].cmd = tab[w].cmd)
    BY <2>1 DEF TransportInv, CallOK, Moves, ledger
  <2>2. ASSUME NEW q \in calls, k = [q EXCEPT !.w = None] PROVE CallOK(k)'
    BY <2>2, TransportAssumption DEF TransportInv, CallOK, ledger
  <2>3. ASSUME NEW kind \in {"COMMAND", "STATUS", "HTTP"}, k = Call(w, tab'[w].cmd, kind),
               tab'[w].pc \in {"await", "http"}, tab'[w].has
        PROVE  CallOK(k)'
    BY <2>3, TransportAssumption DEF TransportInv, CallOK, Call, ledger, TabOK, LedgerOK
  <2>. QED BY <2>1, <2>2, <2>3 DEF Calls
<1>. QED BY <1>1, <1>2, <1>3, <1>4 DEF TransportInv, Moves

\* Most steps of a worker touch neither the store nor what is settled.
LEMMA QuietStep ==
    ASSUME TransportInv, NEW w \in Worker, w \notin shut,
           UNCHANGED <<ledger, store, shut, acked, settled, refused, unknown>>,
           Moves(w), TabOK(w)', Calls(w)
    PROVE  TransportInv'
<1>1. w \notin acked /\ StoreOK' /\ \A c : Kept(c) <=> Kept(c)'
  BY DEF TransportInv, Revoked, StoreOK, Kept, Minted, store
<1>. QED BY <1>1, WorkerStep DEF store

LEMMA NoneAwaited ==
    ASSUME TransportInv, NEW w \in Worker, tab[w].pc \notin {"await", "http"}
    PROVE  Awaited(w) = {}
  BY TransportAssumption DEF TransportInv, CallOK, Awaited

\* The ways in which w's calls end or begin.
LEMMA CallsEnd ==
    ASSUME NEW w \in Worker, calls' = calls \ Awaited(w) \/ calls' = Unheard(w)
    PROVE  Calls(w)
  BY DEF Calls, Awaited, Unheard

LEMMA CallsStay ==
    ASSUME TransportInv, NEW w \in Worker, calls' = calls, tab[w].pc \notin {"await", "http"} \/ tab' = tab
    PROVE  Calls(w)
  BY NoneAwaited DEF Calls, Awaited, TransportInv, CallOK

LEMMA CallsBegin ==
    ASSUME TransportInv, NEW w \in Worker, NEW kind \in {"COMMAND", "STATUS", "HTTP"},
           \/ calls' \in {Unheard(w) \cup {Call(w, tab'[w].cmd, kind)},
                         (calls \ Awaited(w)) \cup {Call(w, tab'[w].cmd, kind)}}
           \/ tab[w].pc \notin {"await", "http"} /\ calls' = calls \cup {Call(w, tab'[w].cmd, kind)},
           tab'[w].pc \in {"await", "http"}, tab'[w].has
    PROVE  Calls(w)
  BY NoneAwaited DEF Calls, Awaited, Unheard

-----------------------------------------------------------------------------
(* Requests that end without their answer.                                 *)

LEMMA FallbackMoves ==
    ASSUME TransportInv, NEW w \in Worker, NEW confirmed \in BOOLEAN, NEW keep \in BOOLEAN,
           Fallback(w, confirmed, keep), \A c \in {tab[w].cmd} : tab[w].has => Kept(c)', UNCHANGED <<settled, ledger>>
    PROVE  Moves(w) /\ TabOK(w)' /\ Calls(w)
<1> USE DEF TransportInv
<1>1. CASE DurableRecovery(w)
  <2>1. Moves(w) /\ TabOK(w)'
    BY <1>1 DEF DurableRecovery, Become, Vacant, Moves, TabOK, Tab
  <2>. QED BY <1>1, <2>1, CallsEnd DEF DurableRecovery
<1>2. CASE OverHttp(w, keep) /\ tab[w].has
  <2>0. tab' = [tab EXCEPT ![w] = [tab[w] EXCEPT !.pc = "http", !.slot = FALSE]]
    BY <1>2 DEF OverHttp, Become
  <2>1. Moves(w) /\ TabOK(w)' /\ tab'[w].has /\ tab'[w].cmd = tab[w].cmd /\ tab'[w].pc = "http"
    BY <1>2, <2>0 DEF Moves, TabOK, Tab
  <2>2. calls' = Unheard(w) \cup {Call(w, tab'[w].cmd, "HTTP")}
    BY <1>2, <2>1 DEF OverHttp
  <2>. QED BY <2>1, <2>2, CallsBegin
<1>3. CASE OverHttp(w, keep) /\ ~tab[w].has
  <2>0. tab' = [tab EXCEPT ![w] = Vacant("plain")]
    BY <1>3 DEF OverHttp, Become
  <2>1. Moves(w) /\ TabOK(w)'
    BY <2>0 DEF Vacant, Moves, TabOK, Tab
  <2>. QED BY <1>3, <2>1, CallsEnd DEF OverHttp
<1>. QED BY <1>1, <1>2, <1>3 DEF Fallback

LEMMA FallbackStep ==
    ASSUME TransportInv, NEW w \in Worker, w \notin shut, NEW confirmed \in BOOLEAN, NEW keep \in BOOLEAN,
           Fallback(w, confirmed, keep), UNCHANGED <<ledger, store, session, history>>
    PROVE  TransportInv'
<1>1. \A c \in {tab[w].cmd} : tab[w].has => Kept(c)'
  <2>1. tab[w].has => Kept(tab[w].cmd)
    BY DEF TransportInv, TabOK
  <2>. QED BY <2>1 DEF Kept, store, history
<1>. QED BY <1>1, FallbackMoves, QuietStep DEF session, history

LEMMA SocketClosesStep ==
    ASSUME TransportInv, NEW w \in Worker, w \notin shut, SocketCloses(w)
    PROVE  TransportInv'
<1> USE DEF TransportInv
<1>1. UNCHANGED <<ledger, store, session, history>>
  BY DEF SocketCloses
<1>2. CASE tab[w].slot
  <2>1. Moves(w) /\ TabOK(w)'
    <3>1. \A c : (Kept(c) <=> Kept(c)') /\ (Applied(c) <=> Applied(c)')
      BY <1>1 DEF Kept, Applied, ledger, store, history
    <3>2. PICK at : at \in {"dial", tab[w].pc} /\ (at = "dial" => tab[w].pc \in {"dial", "await", "retry", "refresh"}) /\ Goto(w, at)
      BY <1>2 DEF SocketCloses
    <3>. QED BY <1>1, <3>1, <3>2 DEF Goto, Become, Moves, TabOK, Tab, history
  <2>. QED BY <1>1, <1>2, <2>1, CallsEnd, QuietStep DEF SocketCloses, session, history
<1>3. CASE ~tab[w].slot
  <2>1. Moves(w) /\ TabOK(w)' /\ calls' = calls /\ tab' = tab
    <3>1. \A c : (Kept(c) <=> Kept(c)') /\ (Applied(c) <=> Applied(c)')
      BY <1>1 DEF Kept, Applied, ledger, store, history
    <3>. QED BY <1>1, <1>3, <3>1 DEF SocketCloses, Release, Moves, TabOK, history
  <2>2. Calls(w)
    BY <2>1 DEF Calls, CallOK
  <2>. QED BY <1>1, <2>1, <2>2, QuietStep DEF session, history
<1>. QED BY <1>2, <1>3

-----------------------------------------------------------------------------
(* The journal of the client.                                              *)

LEMMA MintedGrows ==
    ASSUME minted \in Seq(Command), NEW c \in Command, minted' = Append(minted, c)
    PROVE  minted' \in Seq(Command) /\ Minted \subseteq Minted' /\ c \in Minted'
<1>1. /\ minted' \in Seq(Command) /\ Len(minted') = Len(minted) + 1 /\ minted'[Len(minted) + 1] = c
      /\ \A i \in 1 .. Len(minted) : minted'[i] = minted[i]
  OBVIOUS
<1>2. Len(minted) \in Nat
  OBVIOUS
<1>. QED BY <1>1, <1>2 DEF Minted

\* Whatever is written makes or keeps a record of the request's own command.
LEMMA RecordWritten ==
    ASSUME TransportInv, NEW w \in Worker, tab[w].pc \in {"store", "mark"}, NEW as, as # "none",
           stored' = [stored EXCEPT ![tab[w].cmd] = as],
           minted' = Append(minted, tab[w].cmd) \/ (minted' = minted /\ tab[w].cmd \in Minted),
           UNCHANGED <<settled, unknown, refused>>
    PROVE  /\ StoreOK' /\ (\A c \in Command : Kept(c) => Kept(c)') /\ (\A c \in {tab[w].cmd} : Kept(c)')
           /\ \A c \in Command : stored'[c] # "none" /\ stored[c] = "none" => Home[c] = w
<1>1. tab[w].cmd \in Command /\ Home[tab[w].cmd] = w
  BY DEF TransportInv, TabOK
<1>2. minted' \in Seq(Command) /\ Minted \subseteq Minted' /\ tab[w].cmd \in Minted'
  <2>1. CASE minted' = minted /\ tab[w].cmd \in Minted
    BY <2>1 DEF TransportInv, StoreOK, Minted
  <2>. QED BY <1>1, <2>1, MintedGrows DEF TransportInv, StoreOK
<1>3. DOMAIN stored = Command /\ DOMAIN stored' = Command /\ (\A c \in Command \ {tab[w].cmd} : stored'[c] = stored[c])
      /\ stored'[tab[w].cmd] # "none"
  BY <1>1 DEF TransportInv, StoreOK
<1>4. StoreOK'
  BY <1>1, <1>2, <1>3 DEF TransportInv, StoreOK, Kept
<1>5. (\A c \in Command : Kept(c) => Kept(c)') /\ (\A c \in {tab[w].cmd} : Kept(c)')
  BY <1>1, <1>3 DEF Kept
<1>. QED BY <1>1, <1>3, <1>4, <1>5

LEMMA PutStep ==
    ASSUME TransportInv, NEW w \in Worker, Store(w) \/ MarkAndSend(w)
    PROVE  TransportInv'
<1>1. /\ UNCHANGED <<ledger, shut, acked, quarantined, settled, unknown, refused>>
      /\ tab[w].pc \in {"store", "mark"} /\ w \notin acked
  BY DEF Store, MarkAndSend, Put, session, history, TransportInv, Revoked
<1>2. /\ StoreOK' /\ (\A c \in Command : Kept(c) => Kept(c)') /\ (\A c \in {tab[w].cmd} : Kept(c)')
      /\ \A c \in Command : stored'[c] # "none" /\ stored[c] = "none" => Home[c] = w
  <2>1. PICK as \in {"stored", "dispatched"} : Put(w, as)
    BY DEF Store, MarkAndSend
  <2>2. /\ stored' = [stored EXCEPT ![tab[w].cmd] = as] /\ as # "none"
        /\ minted' = Append(minted, tab[w].cmd) \/ (minted' = minted /\ tab[w].cmd \in Minted)
    BY <2>1 DEF Put
  <2>. QED BY <1>1, <2>2, RecordWritten
<1>3. CASE Store(w)
  <2>1. PICK at \in {"idle", "mark", "dial"} : tab' = [tab EXCEPT ![w] = [tab[w] EXCEPT !.pc = at, !.has = TRUE]]
    BY <1>3 DEF Store, Become
  <2>2. Moves(w) /\ TabOK(w)' /\ calls' = calls
    BY <1>1, <1>2, <1>3, <2>1 DEF Store, Moves, TransportInv, TabOK, Tab
  <2>3. Calls(w)
    <3>1. tab[w].pc \notin {"await", "http"} /\ calls' = calls
      BY <1>1, <2>2
    <3>. QED BY <3>1, CallsStay
  <2>. QED BY <1>1, <1>2, <2>2, <2>3, WorkerStep
<1>4. CASE MarkAndSend(w) /\ w \notin shut /\ link[w] = "up"
  <2>0. tab' = [tab EXCEPT ![w] = [tab[w] EXCEPT !.pc = "await", !.asked = "COMMAND", !.sent = TRUE]] /\ tab[w].pc = "mark"
    BY <1>4 DEF MarkAndSend, Become
  <2>1. Moves(w) /\ TabOK(w)' /\ tab'[w].has /\ tab'[w].pc = "await" /\ tab'[w].cmd = tab[w].cmd
    BY <1>2, <2>0 DEF Moves, TransportInv, TabOK, Tab
  <2>2. Calls(w)
    BY <1>1, <1>4, <2>1, CallsBegin DEF MarkAndSend
  <2>. QED BY <1>1, <1>2, <2>1, <2>2, WorkerStep
<1>5. CASE MarkAndSend(w) /\ ~(w \notin shut /\ link[w] = "up")
  <2>1. PICK at \in {"idle", "dial"} : tab' = [tab EXCEPT ![w] = [tab[w] EXCEPT !.pc = at]]
    BY <1>5 DEF MarkAndSend, Goto, Become
  <2>2. Moves(w) /\ TabOK(w)' /\ calls' = calls
    BY <1>1, <1>2, <1>5, <2>1 DEF MarkAndSend, Moves, TransportInv, TabOK, Tab
  <2>3. Calls(w)
    <3>1. tab[w].pc \notin {"await", "http"} /\ calls' = calls
      BY <1>1, <2>2
    <3>. QED BY <3>1, CallsStay
  <2>. QED BY <1>1, <1>2, <2>2, <2>3, WorkerStep
<1>. QED BY <1>3, <1>4, <1>5

\* A record goes when it is known why.
LEMMA RecordDropped ==
    ASSUME TransportInv, NEW w \in Worker, w \notin shut, DropRecord(w, tab[w].cmd),
           UNCHANGED <<ledger, shut, acked>>,
           settled' = settled, unknown' \in {unknown, unknown \cup {tab[w].cmd}},
           refused' \in {refused, refused \cup {tab[w].cmd}},
           tab[w].cmd \in settled' \cup unknown' \cup refused', tab[w].has,
           Moves(w), ~tab'[w].has, tab'[w] \in Tab, tab'[w].pc \in {"idle", "recover", "fresh"}, Calls(w)
    PROVE  TransportInv'
<1>1. w \notin acked /\ quarantined' = quarantined
  BY DEF TransportInv, Revoked, DropRecord
<1>2. /\ stored' = [stored EXCEPT ![tab[w].cmd] = "none"] /\ minted' = minted
      /\ tab[w].cmd \in Command /\ Kept(tab[w].cmd) /\ StoreOK
  BY DEF TransportInv, TabOK, DropRecord
<1>3. \A c \in Command : (Kept(c) <=> Kept(c)') /\ (stored'[c] # "none" => stored[c] # "none")
  BY <1>2 DEF StoreOK, Kept
<1>4. StoreOK'
  BY <1>2, <1>3 DEF StoreOK, Minted
<1>5. TabOK(w)'
  BY DEF TabOK
<1>. QED BY <1>1, <1>3, <1>4, <1>5, WorkerStep DEF TransportInv

-----------------------------------------------------------------------------
(* The steps of a sync.                                                    *)

\* oldest() finds a record that is there.
LEMMA OldestAdoptable ==
    ASSUME TransportInv, NEW w \in Worker, Adoptable(w) # {}
    PROVE  Oldest(w) \in Adoptable(w) /\ Oldest(w) \in Command /\ stored[Oldest(w)] # "none"
<1> DEFINE S == {i \in 1 .. Len(minted) : minted[i] \in Adoptable(w)}
           Less == {p \in Nat \X Nat : p[1] < p[2]}
<1>1. S # {} /\ S \subseteq Nat
  BY DEF TransportInv, StoreOK, Kept, Adoptable, Minted
<1>2. IsWellFoundedOn(Less, Nat)
  BY NatLessThanWellFounded DEF OpToRel
<1>3. PICK n \in S : \A m \in S : <<m, n>> \notin Less
  <2> HIDE DEF S, Less
  <2>. QED BY <1>1, <1>2, WFMin
<1>4. \A m \in S : ~(m < n)
  BY <1>1, <1>3
<1>5. n \in 1 .. Len(minted) /\ minted[n] \in Adoptable(w) /\ \A j \in 1 .. n - 1 : minted[j] \notin Adoptable(w)
  BY <1>4 DEF TransportInv, StoreOK
<1>6. Oldest(w) \in Adoptable(w)
  BY <1>5 DEF Oldest
<1>. QED BY <1>6 DEF Adoptable

\* The step leaves the request as it is, but for where it stands.
LEMMA GotoStep ==
    ASSUME TransportInv, NEW w \in Worker, w \notin shut,
           NEW at \in {"idle", "recover", "fresh", "store", "retry", "refresh", "stuck"},
           Goto(w, at),
           at \in {"retry", "refresh"} => tab[w].has,
           at = "store" => tab[w].pc = "dial" /\ ~tab[w].has,
           calls' \in {calls \ Awaited(w), Unheard(w)} \/ (calls' = calls /\ tab[w].pc \notin {"await", "http"}),
           UNCHANGED <<ledger, store, shut, acked, settled, refused, unknown>>
    PROVE  TransportInv'
<1>1. tab' = [tab EXCEPT ![w] = [tab[w] EXCEPT !.pc = at]]
  BY DEF Goto, Become
<1>2. Moves(w)
  BY <1>1 DEF Moves, TransportInv
<1>3. TabOK(w)'
  <2>1. \A c : Kept(c) => Kept(c)'
    BY DEF Kept, store
  <2>2. tab'[w] \in Tab /\ tab'[w].pc = at /\ tab'[w].has = tab[w].has /\ tab'[w].cmd = tab[w].cmd
    BY <1>1 DEF TransportInv, TabOK, Tab
  <2>. QED BY <2>1, <2>2 DEF TransportInv, TabOK
<1>4. Calls(w)
  BY CallsEnd, CallsStay
<1>. QED BY <1>2, <1>3, <1>4, QuietStep

\* The request is over.
LEMMA VacantStep ==
    ASSUME TransportInv, NEW w \in Worker, w \notin shut,
           NEW at \in {"idle", "recover", "fresh", "off"},
           Become(w, Vacant(at)),
           calls' \in {calls \ Awaited(w), Unheard(w)} \/ (calls' = calls /\ tab[w].pc \notin {"await", "http"}),
           UNCHANGED <<ledger, store, shut, acked, settled, refused, unknown>>
    PROVE  TransportInv'
<1>1. tab' = [tab EXCEPT ![w] = Vacant(at)]
  BY DEF Become
<1>2. Moves(w) /\ TabOK(w)'
  BY <1>1 DEF Moves, TransportInv, Vacant, TabOK, Tab
<1>3. Calls(w)
  BY CallsEnd, CallsStay
<1>. QED BY <1>2, <1>3, QuietStep

\* The request gets its record, and is asked about.
LEMMA SendStep ==
    ASSUME TransportInv, NEW w \in Worker, w \notin shut, NEW kind \in {"COMMAND", "STATUS"},
           tab[w].pc \notin {"await", "http"}, tab[w].has, Send(w, kind),
           UNCHANGED <<ledger, store, shut, acked, settled, refused, unknown>>
    PROVE  TransportInv'
<1>1. tab' = [tab EXCEPT ![w] = [tab[w] EXCEPT !.pc = "await", !.asked = kind]]
  BY DEF Send, Become
<1>2. Moves(w) /\ tab'[w].pc = "await" /\ tab'[w].has /\ tab'[w].cmd = tab[w].cmd
  BY <1>1 DEF Moves, TransportInv, TabOK, Tab
<1>3. TabOK(w)'
  <2>1. \A c : Kept(c) => Kept(c)'
    BY DEF Kept, store
  <2>2. tab'[w] \in Tab
    <3>1. DOMAIN tab = Worker /\ tab[w] \in Tab
      BY DEF TransportInv, TabOK
    <3>2. [tab[w] EXCEPT !.pc = "await", !.asked = kind] \in Tab
      BY <3>1 DEF Tab
    <3>. QED BY <1>1, <3>1, <3>2
  <2>3. tab[w].cmd \in Command /\ Kept(tab[w].cmd)
    BY DEF TransportInv, TabOK
  <2>. QED BY <1>2, <2>1, <2>2, <2>3 DEF TabOK
<1>4. calls' = calls \cup {Call(w, tab'[w].cmd, kind)}
  BY <1>2 DEF Send
<1>5. Calls(w)
  BY <1>2, <1>4, CallsBegin
<1>. QED BY <1>2, <1>3, <1>5, QuietStep

LEMMA SyncStep ==
    ASSUME TransportInv, NEW w \in Worker, Sync(w)
    PROVE  TransportInv'
<1>1. UNCHANGED <<ledger, store, shut, acked, settled, refused, unknown>> /\ w \notin shut
  BY DEF Sync, SyncStarts, RecoverEmpty, RecoverDeferred, RecoverAdopts, RecoverOverHttp, SyncEnds,
         ExecuteBlocked, At, session, history
<1>2. CASE SyncStarts(w) \/ RecoverEmpty(w) \/ RecoverDeferred(w) \/ SyncEnds(w) \/ ExecuteBlocked(w)
  <2>1. calls' = calls /\ tab[w].pc \in {"idle", "recover", "fresh"} /\ \E at \in {"idle", "recover", "fresh"} : Goto(w, at)
    BY <1>2 DEF SyncStarts, RecoverEmpty, RecoverDeferred, SyncEnds, ExecuteBlocked, At
  <2>. QED BY <1>1, <2>1, GotoStep
<1>3. ASSUME NEW at \in {"dial", "http"}, Adoptable(w) # {}, Become(w, Recovering(w, Oldest(w), at)),
             tab[w].pc = "recover",
             calls' = IF at = "http" THEN calls \cup {Call(w, Oldest(w), "HTTP")} ELSE calls
      PROVE  TransportInv'
  <2>1. tab' = [tab EXCEPT ![w] = Recovering(w, Oldest(w), at)]
    BY <1>3 DEF Become
  <2>2. Moves(w) /\ tab'[w].has /\ tab'[w].pc = at /\ tab'[w].cmd = Oldest(w)
    BY <2>1 DEF Moves, TransportInv, Recovering
  <2>3. Oldest(w) \in Command /\ stored'[Oldest(w)] # "none"
    BY <1>1, <1>3, OldestAdoptable DEF store
  <2>4. tab'[w] \in Tab
    BY <1>3, <2>1, <2>3 DEF Recovering, Tab, TransportInv
  <2>5. TabOK(w)'
    BY <1>3, <2>2, <2>3, <2>4 DEF TabOK, Kept
  <2>6. Calls(w)
    BY <1>3, <2>2, CallsStay, CallsBegin
  <2>. QED BY <1>1, <2>2, <2>5, <2>6, QuietStep
<1>4. CASE RecoverAdopts(w)
  BY <1>3, <1>4 DEF RecoverAdopts, At
<1>5. CASE RecoverOverHttp(w)
  BY <1>3, <1>5 DEF RecoverOverHttp, At
<1>. QED BY <1>2, <1>4, <1>5 DEF Sync

LEMMA ExecuteStep ==
    ASSUME TransportInv, NEW w \in Worker, ExecuteStarts(w)
    PROVE  TransportInv'
<1>1. UNCHANGED <<ledger, store, shut, acked, settled, refused, unknown, calls>> /\ At(w, "fresh")
  BY DEF ExecuteStarts, history
<1>2. PICK c \in Command \ Minted :
        Home[c] = w /\ tab' = [tab EXCEPT ![w] = [Vacant("dial") EXCEPT !.mode = "execute", !.cmd = c, !.slot = TRUE]]
  BY DEF ExecuteStarts, Become
<1>3. Moves(w) /\ TabOK(w)'
  <2> DEFINE new == [Vacant("dial") EXCEPT !.mode = "execute", !.cmd = c, !.slot = TRUE]
  <2>1. new \in Tab /\ new.pc = "dial" /\ new.cmd = c /\ ~new.has
    BY DEF Vacant, Tab
  <2>2. Moves(w) /\ tab'[w] = new
    BY <1>2 DEF Moves, TransportInv
  <2>. HIDE DEF new
  <2>. QED BY <1>2, <2>1, <2>2 DEF TabOK
<1>. QED BY <1>1, <1>3, CallsStay, QuietStep DEF At

-----------------------------------------------------------------------------
(* Answers, and what a worker does with them.                              *)

LEMMA TabKept ==
    ASSUME TransportInv, NEW w \in Worker, tab' = tab, UNCHANGED <<ledger, store, settled, unknown, refused>>
    PROVE  Moves(w) /\ TabOK(w)'
  BY DEF TransportInv, Moves, TabOK, Kept, Applied, ledger, store

\* The awaited call is the request's own, and what it reports the journal holds.
LEMMA AwaitedOwn ==
    ASSUME TransportInv, NEW w \in Worker, NEW k \in Awaited(w)
    PROVE  /\ k.cmd = tab[w].cmd /\ tab[w].pc \in {"await", "http"} /\ tab[w].has
           /\ k.acc # 0 /\ fate[k.acc] = "done" => Applied(tab[w].cmd)
<1>1. w # None /\ k \in calls /\ k.w = w /\ CallOK(k) /\ TabOK(w)
  BY TransportAssumption DEF TransportInv, Awaited
<1>. QED BY <1>1 DEF CallOK, TabOK, Applied

\* The page has the answer to a command that took effect.
LEMMA ResultStep ==
    ASSUME TransportInv, NEW w \in Worker, w \notin shut, Applied(tab[w].cmd), tab[w].has,
           Goto(w, "result"), calls' = calls \ Awaited(w),
           UNCHANGED <<ledger, store, session, history>>
    PROVE  TransportInv'
<1>1. tab' = [tab EXCEPT ![w] = [tab[w] EXCEPT !.pc = "result"]]
  BY DEF Goto, Become
<1>2. Moves(w)
  BY <1>1 DEF Moves, TransportInv
<1>3. TabOK(w)'
  <2>1. \A c : (Kept(c) => Kept(c)') /\ (Applied(c) => Applied(c)')
    BY DEF Kept, Applied, ledger, store, history
  <2>. QED BY <1>1, <2>1 DEF TransportInv, TabOK, Tab
<1>. QED BY <1>2, <1>3, CallsEnd, QuietStep DEF session, history

LEMMA CommittedStep ==
    ASSUME TransportInv, NEW w \in Worker, Committed(w)
    PROVE  TransportInv'
<1>1. PICK k \in Awaited(w) : SaysCommitted(k)
  BY DEF Committed
<1>2. Applied(tab[w].cmd) /\ tab[w].has
  BY <1>1, AwaitedOwn DEF SaysCommitted, Applied
<1>3. w \notin shut /\ UNCHANGED <<ledger, store, session, history>>
  BY DEF Committed, At
<1>. QED BY <1>2, <1>3, ResultStep, FallbackStep DEF Committed

LEMMA HttpOkStep ==
    ASSUME TransportInv, NEW w \in Worker, HttpOk(w)
    PROVE  TransportInv'
<1>1. Applied(tab[w].cmd) /\ tab[w].has
  BY AwaitedOwn DEF HttpOk
<1>. QED BY <1>1, ResultStep DEF HttpOk, At

LEMMA UnknownStep ==
    ASSUME TransportInv, NEW w \in Worker, StatusUnknown(w)
    PROVE  TransportInv'
<1>1. w \notin shut /\ UNCHANGED <<ledger, session>>
  BY DEF StatusUnknown, At
<1>2. CASE tab[w].cmd \in socketOnly
  <2>1. PICK at \in {"idle", "fresh"} : Become(w, Vacant(at))
    BY <1>2 DEF StatusUnknown
  <2>2. DropRecord(w, tab[w].cmd) /\ unknown' = unknown \cup {tab[w].cmd} /\ UNCHANGED <<settled, refused, acked>>
        /\ calls' = calls \ Awaited(w)
    BY <1>2 DEF StatusUnknown
  <2>4. tab[w].has
    BY AwaitedOwn DEF StatusUnknown
  <2>3. Moves(w) /\ ~tab'[w].has /\ tab'[w] \in Tab /\ tab'[w].pc = at
    BY <2>1 DEF Become, Vacant, Moves, TransportInv, Tab
  <2>. QED BY <1>1, <2>2, <2>3, <2>4, CallsEnd, RecordDropped DEF session
<1>3. CASE tab[w].cmd \notin socketOnly
  BY <1>1, <1>3, FallbackStep DEF StatusUnknown
<1>. QED BY <1>2, <1>3

LEMMA PersistStep ==
    ASSUME TransportInv, NEW w \in Worker, Persist(w)
    PROVE  TransportInv'
<1>1. /\ UNCHANGED <<ledger, store, calls, shut, acked, unknown, refused>> /\ w \notin shut
      /\ settled' = settled \cup {tab[w].cmd} /\ tab[w].pc = "result"
      /\ tab' = [tab EXCEPT ![w] = [tab[w] EXCEPT !.pc = "ack"]]
  BY DEF Persist, At, Goto, Become, session
<1>2. tab[w].has /\ tab[w].cmd \in Command /\ Applied(tab[w].cmd) /\ TabOK(w)
  BY <1>1 DEF TransportInv, TabOK
<1>3. /\ w \notin acked /\ UNCHANGED <<stored, quarantined>>
      /\ \A c : (Kept(c) <=> Kept(c)') /\ (Applied(c) => Applied(c)')
  BY <1>1, <1>2 DEF TransportInv, Revoked, TabOK, Kept, Applied, store, ledger
<1>6. StoreOK'
  BY <1>1, <1>3 DEF TransportInv, StoreOK, Minted, store
<1>4. Moves(w)
  BY <1>1 DEF Moves, TransportInv
<1>5. TabOK(w)'
  BY <1>1, <1>2, <1>3 DEF TransportInv, TabOK, Tab
<1>. QED BY <1>1, <1>2, <1>3, <1>4, <1>5, <1>6, CallsStay, WorkerStep

LEMMA ClearedStep ==
    ASSUME TransportInv, NEW w \in Worker, CheckpointCleared(w)
    PROVE  TransportInv'
<1>1. /\ UNCHANGED <<ledger, calls, session, history>> /\ w \notin shut /\ tab[w].pc = "ack"
      /\ DropRecord(w, tab[w].cmd)
  BY DEF CheckpointCleared, At
<1>2. PICK at \in {"idle", "recover"} : Become(w, Vacant(at))
  BY DEF CheckpointCleared
<1>3. tab[w].cmd \in settled /\ tab[w].has
  BY <1>1 DEF TransportInv, TabOK
<1>4. Moves(w) /\ ~tab'[w].has /\ tab'[w] \in Tab /\ tab'[w].pc = at
  BY <1>2 DEF Become, Vacant, Moves, TransportInv, Tab
<1>. QED BY <1>1, <1>3, <1>4, CallsStay, RecordDropped DEF session, history

LEMMA UnsettledStep ==
    ASSUME TransportInv, NEW w \in Worker, CheckpointFailed(w) \/ PersistFails(w)
    PROVE  TransportInv'
<1>1. /\ UNCHANGED <<ledger, calls, store, session, history>> /\ w \notin shut /\ tab[w].pc \in {"result", "ack"}
      /\ Goto(w, "stuck") \/ Become(w, Vacant("idle"))
  BY DEF CheckpointFailed, PersistFails, At, Unsettled
<1>. QED BY <1>1, GotoStep, VacantStep DEF session, history

LEMMA RefusedOverHttpStep ==
    ASSUME TransportInv, NEW w \in Worker, At(w, "await"), RefusedOverHttp(w),
           UNCHANGED <<ledger, store, shut, acked, settled, refused, unknown>>
    PROVE  TransportInv'
<1>1. tab[w].has /\ TabOK(w) /\ tab[w] \in Tab /\ DOMAIN tab = Worker
  BY DEF At, TransportInv, TabOK
<1>2. /\ tab' = [tab EXCEPT ![w] = [tab[w] EXCEPT !.pc = "http", !.slot = FALSE]]
      /\ Moves(w) /\ tab'[w].has /\ tab'[w].cmd = tab[w].cmd /\ tab'[w].pc = "http" /\ tab'[w] \in Tab
  <2>1. tab' = [tab EXCEPT ![w] = [tab[w] EXCEPT !.pc = "http", !.slot = FALSE]]
    BY DEF RefusedOverHttp, Become
  <2>. QED BY <1>1, <2>1 DEF Moves, Tab
<1>3. TabOK(w)'
  BY <1>1, <1>2 DEF TabOK, Kept, store
<1>4. Calls(w)
  BY <1>2, CallsBegin DEF RefusedOverHttp
<1>. QED BY <1>2, <1>3, <1>4, QuietStep DEF At

LEMMA RefusedStep ==
    ASSUME TransportInv, NEW w \in Worker, Refused(w) \/ FenceRefused(w)
    PROVE  TransportInv'
<1>1. /\ UNCHANGED <<ledger, session, acked, settled, unknown>> /\ At(w, "await")
      /\ tab[w].has /\ tab[w].cmd \in Command /\ TabOK(w)
  BY DEF Refused, FenceRefused, At, TransportInv, TabOK
<1>2. CASE DropRecord(w, tab[w].cmd) /\ refused' = refused \cup {tab[w].cmd} /\ Become(w, Vacant("idle"))
           /\ calls' = calls \ Awaited(w)
  <2>1. Moves(w) /\ ~tab'[w].has /\ tab'[w] \in Tab /\ tab'[w].pc = "idle"
    BY <1>2 DEF Become, Vacant, Moves, TransportInv, Tab
  <2>. QED BY <1>1, <1>2, <2>1, CallsEnd, RecordDropped DEF session, At
<1>3. CASE RefusedOverHttp(w) /\ UNCHANGED <<store, refused>>
  BY <1>1, <1>3, RefusedOverHttpStep DEF session
<1>. QED BY <1>2, <1>3 DEF Refused, FenceRefused

LEMMA RetryLaterStep ==
    ASSUME TransportInv, NEW w \in Worker, Busy(w) \/ BackendTimeout(w)
    PROVE  TransportInv'
<1>1. /\ UNCHANGED <<ledger, store, session, history>> /\ At(w, "await") /\ calls' \in {calls \ Awaited(w), Unheard(w)}
      /\ tab[w].has
  BY DEF Busy, BackendTimeout, At, TransportInv, TabOK
<1>2. CASE Busy(w)
  BY <1>1, <1>2, GotoStep DEF Busy, At, session, history
<1>3. CASE BackendTimeout(w)
  <2>1. tab' = [tab EXCEPT ![w] = [tab[w] EXCEPT !.pc = "retry", !.asked = "STATUS"]]
    BY <1>3 DEF BackendTimeout, Become
  <2>2. Moves(w) /\ tab'[w] \in Tab
    BY <2>1 DEF Moves, TransportInv, TabOK, Tab
  <2>3. TabOK(w)'
    BY <1>1, <2>1, <2>2 DEF TransportInv, TabOK, Tab, Kept, store, history
  <2>. QED BY <1>1, <2>2, <2>3, CallsEnd, QuietStep DEF At, session, history
<1>. QED BY <1>2, <1>3

\* The request dials again for a fresh ticket.
LEMMA ReticketMoves ==
    ASSUME TransportInv, NEW w \in Worker, tab[w].pc \in {"await", "refresh"}, Reticket(w),
           UNCHANGED <<ledger, store, settled, unknown, refused>>
    PROVE  /\ Moves(w) /\ TabOK(w)' /\ Calls(w)
           /\ tab' = [tab EXCEPT ![w] = [tab[w] EXCEPT !.pc = "dial", !.reticketed = TRUE]]
           /\ tab[w].has /\ tab[w] \in Tab
<1>1. tab' = [tab EXCEPT ![w] = [tab[w] EXCEPT !.pc = "dial", !.reticketed = TRUE]]
  BY DEF Reticket, Become
<1>2. tab[w].has /\ tab[w] \in Tab /\ DOMAIN tab = Worker
  BY DEF TransportInv, TabOK
<1>3. Moves(w) /\ tab'[w] \in Tab
  BY <1>1, <1>2 DEF Moves, Tab
<1>4. TabOK(w)'
  BY <1>1, <1>2, <1>3 DEF TransportInv, TabOK, Tab, Kept, store
<1>. QED BY <1>1, <1>2, <1>3, <1>4, CallsEnd DEF Reticket

LEMMA StaleStep ==
    ASSUME TransportInv, NEW w \in Worker,
           LiveSyncDisabled(w) \/ SessionStale(w) \/ Refreshed(w) \/ RefreshFails(w)
    PROVE  TransportInv'
<1>1. UNCHANGED <<ledger, store, shut, acked, settled, unknown, refused>> /\ w \notin shut
  BY DEF LiveSyncDisabled, SessionStale, RefusedEarly, Refreshed, RefreshFails, At, session, history
<1>2. CASE LiveSyncDisabled(w)
  BY <1>1, <1>2, VacantStep, RefusedOverHttpStep DEF LiveSyncDisabled, RefusedEarly
<1>3. CASE Reticket(w) /\ tab[w].pc \in {"await", "refresh"}
  BY <1>1, <1>3, ReticketMoves, QuietStep
<1>4. CASE SessionStale(w)
  <2>1. tab[w].pc = "await" /\ tab[w].has
    BY <1>4 DEF SessionStale, RefusedEarly, At, TransportInv, TabOK
  <2>. QED BY <1>1, <1>3, <1>4, <2>1, GotoStep DEF SessionStale
<1>5. CASE Refreshed(w)
  <2>1. tab[w].pc = "refresh" /\ tab[w].has
    BY <1>5 DEF Refreshed, At, TransportInv, TabOK
  <2>. QED BY <1>1, <1>5, <2>1, SendStep DEF Refreshed
<1>6. CASE RefreshFails(w)
  BY <1>1, <1>3, <1>6, FallbackStep DEF RefreshFails, At
<1>. QED BY <1>2, <1>4, <1>5, <1>6

-----------------------------------------------------------------------------
(* Leases and revocation.                                                  *)

LEMMA SlotFreedMoves ==
    ASSUME TransportInv, NEW w \in Worker, Delivered(w), SlotFreed(w),
           UNCHANGED <<ledger, store, settled, unknown, refused>>
    PROVE  Moves(w) /\ TabOK(w)' /\ Calls(w) /\ tab[w].pc \notin {"store", "mark"}
<1>1. tab[w].pc \in {"result", "ack", "stuck"} /\ calls' = calls
  BY DEF Delivered, SlotFreed
<1>2. CASE tab[w].pc = "stuck"
  <2>1. tab' = [tab EXCEPT ![w] = Vacant("idle")]
    BY <1>2 DEF SlotFreed, Become
  <2>2. Moves(w) /\ TabOK(w)'
    BY <2>1 DEF Moves, TransportInv, Vacant, TabOK, Tab
  <2>. QED BY <1>1, <2>2, CallsStay
<1>3. CASE tab[w].pc # "stuck"
  <2>1. tab' = [tab EXCEPT ![w] = [tab[w] EXCEPT !.slot = FALSE]]
    BY <1>3 DEF SlotFreed, Become
  <2>2. \A c : (Kept(c) => Kept(c)') /\ (Applied(c) => Applied(c)')
    BY DEF Kept, Applied, ledger, store
  <2>3. Moves(w) /\ TabOK(w)'
    BY <2>1, <2>2 DEF Moves, TransportInv, TabOK, Tab
  <2>. QED BY <1>1, <2>3, CallsStay
<1>. QED BY <1>2, <1>3

LEMMA RedialStep ==
    ASSUME TransportInv, NEW w \in Worker, Redial(w)
    PROVE  TransportInv'
<1>1. UNCHANGED <<ledger, store, session, history>> /\ w \notin shut /\ Delivered(w)
  BY DEF Redial
<1>2. CASE tab' = tab /\ calls' = calls
  BY <1>1, <1>2, TabKept, CallsStay, QuietStep DEF session, history
<1>3. CASE SlotFreed(w)
  BY <1>1, <1>3, SlotFreedMoves, QuietStep DEF session, history
<1>. QED BY <1>2, <1>3 DEF Redial

\* A lane is given up, while a write under way may still land.
LEMMA SurrenderStep ==
    ASSUME TransportInv, NEW w \in Worker, Surrender(w)
    PROVE  TransportInv'
<1>1. UNCHANGED <<ledger, quarantined, session, history>> /\ w \notin shut
  BY DEF Surrender
<1>2. CASE UNCHANGED <<stored, minted>>
  <2>1. UNCHANGED <<ledger, store, session, history>>
    BY <1>1, <1>2 DEF store
  <2>2. CASE Delivered(w) /\ SlotFreed(w)
    BY <1>1, <2>1, <2>2, SlotFreedMoves, QuietStep DEF session, history
  <2>3. CASE Fallback(w, FALSE, FALSE)
    BY <1>1, <2>1, <2>3, FallbackStep
  <2>4. CASE UNCHANGED <<tab, calls>>
    BY <1>1, <2>1, <2>4, TabKept, CallsStay, QuietStep DEF session, history
  <2>. QED BY <2>2, <2>3, <2>4 DEF Surrender
<1>3. ASSUME NEW as \in {"stored", "dispatched"}, tab[w].pc \in {"store", "mark"},
             stored' = [stored EXCEPT ![tab[w].cmd] = as],
             minted' = Append(minted, tab[w].cmd) \/ (minted' = minted /\ tab[w].cmd \in Minted)
      PROVE  TransportInv'
  <2>1. /\ StoreOK' /\ (\A c \in Command : Kept(c) => Kept(c)') /\ (\A c \in {tab[w].cmd} : Kept(c)')
        /\ \A c \in Command : stored'[c] # "none" /\ stored[c] = "none" => Home[c] = w
    BY <1>1, <1>3, RecordWritten DEF history
  <2>2. Moves(w) /\ TabOK(w)' /\ Calls(w)
    <3>1. CASE Fallback(w, FALSE, FALSE)
      BY <1>1, <2>1, <3>1, FallbackMoves DEF history
    <3>2. CASE UNCHANGED <<tab, calls>>
      <4>1. TabOK(w) /\ \A c : Applied(c) => Applied(c)'
        BY <1>1 DEF TransportInv, Applied, ledger
      <4>2. Moves(w) /\ TabOK(w)'
        BY <1>1, <1>3, <2>1, <3>2, <4>1 DEF Moves, TransportInv, TabOK
      <4>. QED BY <3>2, <4>2, CallsStay
    <3>. QED BY <1>3, <3>1, <3>2 DEF Surrender, Delivered
  <2>3. w \notin acked /\ UNCHANGED <<shut, acked, quarantined, settled>>
    BY <1>1 DEF TransportInv, Revoked, session, history
  <2>. QED BY <1>1, <2>1, <2>2, <2>3, WorkerStep
<1>4. tab[w].pc = "mark" => tab[w].cmd \in Minted
  BY DEF TransportInv, TabOK, StoreOK
<1>. QED BY <1>2, <1>3, <1>4 DEF Surrender

\* The lanes, the leases and the counters are not the invariant's.
LEMMA IdleStep ==
    ASSUME TransportInv,
           UNCHANGED <<ledger, calls, store, tab, shut, acked, settled, refused, unknown>>
    PROVE  TransportInv'
  BY DEF TransportInv, LedgerOK, StoreOK, Minted, Kept, CallOK, TabOK, Revoked, Applied, QuarantineHolds, ledger, store

LEMMA RevokeStep ==
    ASSUME TransportInv, NEW w \in Worker, RevokeStarts(w)
    PROVE  TransportInv'
<1>1. UNCHANGED <<ledger, calls, store, tab, history>> /\ shut \subseteq shut'
  BY DEF RevokeStarts
<1>2. \A c : (Kept(c) <=> Kept(c)') /\ (Applied(c) <=> Applied(c)')
  BY <1>1 DEF Kept, Applied, ledger, store, history
<1>. QED BY <1>1, <1>2 DEF TransportInv, LedgerOK, StoreOK, Minted, CallOK, TabOK, Revoked, QuarantineHolds,
                           ledger, store, history

LEMMA QuarantineStep ==
    ASSUME TransportInv, NEW w \in Worker, Quarantine(w)
    PROVE  TransportInv'
<1>1. /\ UNCHANGED <<ledger, stored, minted, tab, shut, settled, unknown, refused>> /\ acked' = acked \cup {w} /\ w \in shut
      /\ tab[w].pc \notin {"store", "mark"} /\ calls' = Unheard(w)
      /\ quarantined' = quarantined \cup {c \in Command : stored[c] # "none"}
  BY DEF Quarantine, session
<1>2. \A c : (Kept(c) <=> Kept(c)') /\ (Applied(c) <=> Applied(c)')
  BY <1>1 DEF Kept, Applied, ledger
<1>3. LedgerOK' /\ StoreOK' /\ QuarantineHolds' /\ \A c \in settled' : c \in Command /\ Applied(c)'
  BY <1>1, <1>2 DEF TransportInv, LedgerOK, StoreOK, Minted, QuarantineHolds, ledger
<1>4. \A v \in Worker : TabOK(v)' /\ Revoked(v)'
  BY <1>1, <1>2 DEF TransportInv, TabOK, Revoked
<1>5. \A k \in calls' : CallOK(k)'
  <2>1. ASSUME NEW k \in calls PROVE CallOK(k)' /\ CallOK([k EXCEPT !.w = None])'
    BY <1>1, <1>2 DEF TransportInv, CallOK, ledger
  <2>. QED BY <1>1, <2>1 DEF Unheard, Awaited
<1>. QED BY <1>1, <1>3, <1>4, <1>5 DEF TransportInv

-----------------------------------------------------------------------------
LEMMA SocketStep ==
    ASSUME TransportInv, NEW w \in Worker, Socket(w)
    PROVE  TransportInv'
<1>1. CASE DialTaken(w) \/ PutRefused(w)
  <2>1. UNCHANGED <<ledger, store, session, history>> /\ Fallback(w, FALSE, FALSE) /\ w \notin shut
    BY <1>1 DEF DialTaken, PutRefused, At
  <2>. QED BY <2>1, FallbackStep
<1>2. CASE Dial(w)
  BY <1>2, TabKept, CallsStay, QuietStep DEF Dial, At, session, history
<1>3. CASE PrepareStatus(w)
  BY <1>3, SendStep DEF PrepareStatus, At, session, history
<1>4. CASE PrepareStale(w)
  BY <1>4, VacantStep DEF PrepareStale, At, session, history
<1>5. CASE PrepareStore(w)
  BY <1>5, GotoStep DEF PrepareStore, At, session, history
<1>6. CASE Retry(w)
  <2>1. tab[w].pc = "retry" /\ tab[w].has /\ tab[w].asked \in {"COMMAND", "STATUS"}
    BY <1>6 DEF Retry, At, TransportInv, TabOK, Tab
  <2>. QED BY <1>6, <2>1, SendStep DEF Retry, At, session, history
<1>7. CASE AckDeadline(w)
  BY <1>7, SocketClosesStep DEF AckDeadline, At
<1>8. CASE Redial(w)
  BY <1>8, RedialStep
<1>9. CASE Surrender(w)
  BY <1>9, SurrenderStep
<1>10. CASE Refreshed(w) \/ RefreshFails(w)
  BY <1>10, StaleStep
<1>. QED BY <1>1, <1>2, <1>3, <1>4, <1>5, <1>6, <1>7, <1>8, <1>9, <1>10, PutStep DEF Socket

LEMMA AnswerStep ==
    ASSUME TransportInv, NEW w \in Worker, Answer(w)
    PROVE  TransportInv'
<1>1. CASE Committed(w)
  BY <1>1, CommittedStep
<1>2. CASE StatusUnknown(w)
  BY <1>2, UnknownStep
<1>3. CASE StatusAccepted(w)
  <2>1. Moves(w) /\ tab' = tab /\ UNCHANGED <<ledger, store, session, history>>
    BY <1>3 DEF StatusAccepted, Moves, TransportInv
  <2>. QED BY <1>3, <2>1, TabKept, CallsEnd, QuietStep DEF StatusAccepted, At, session, history
<1>4. CASE Voided(w)
  BY <1>4, FallbackStep DEF Voided, At
<1>5. CASE HttpOk(w)
  BY <1>5, HttpOkStep
<1>6. CASE HttpVoided(w)
  BY <1>6, VacantStep DEF HttpVoided, At, session, history
<1>7. CASE PlainDone(w)
  BY <1>7, GotoStep DEF PlainDone, At, session, history
<1>8. CASE Persist(w)
  BY <1>8, PersistStep
<1>9. CASE CheckpointCleared(w)
  BY <1>9, ClearedStep
<1>10. CASE CheckpointFailed(w)
  BY <1>10, UnsettledStep DEF CheckpointFailed
<1>11. CASE Quarantine(w)
  BY <1>11, QuarantineStep
<1>. QED BY <1>1, <1>2, <1>3, <1>4, <1>5, <1>6, <1>7, <1>8, <1>9, <1>10, <1>11 DEF Answer

LEMMA TroubleStep ==
    ASSUME TransportInv, NEW w \in Worker, Trouble(w)
    PROVE  TransportInv'
<1>1. CASE DialFails(w)
  BY <1>1, FallbackStep DEF DialFails, At
<1>2. CASE PrepareUnavailable(w)
  BY <1>2, FallbackStep DEF PrepareUnavailable, At
<1>3. CASE Refused(w) \/ FenceRefused(w)
  BY <1>3, RefusedStep
<1>4. CASE Busy(w) \/ BackendTimeout(w)
  BY <1>4, RetryLaterStep
<1>5. CASE ServerKill(w)
  BY <1>5, FallbackStep DEF ServerKill, At
<1>6. CASE HttpFails(w)
  BY <1>6, VacantStep DEF HttpFails, At, session, history
<1>7. CASE SocketLost(w)
  BY <1>7, SocketClosesStep DEF SocketLost
<1>8. CASE PersistFails(w)
  BY <1>8, UnsettledStep DEF PersistFails
<1>9. CASE Crash(w)
  BY <1>9, VacantStep DEF Crash, session, history
<1>10. CASE RevokeStarts(w)
  BY <1>10, RevokeStep
<1>11. CASE LiveSyncDisabled(w) \/ SessionStale(w)
  BY <1>11, StaleStep
<1>. QED BY <1>1, <1>2, <1>3, <1>4, <1>5, <1>6, <1>7, <1>8, <1>9, <1>10, <1>11 DEF Trouble

-----------------------------------------------------------------------------
(* The server.                                                             *)

\* The journal accepts and settles commands that are on record; what is done it keeps.
LEMMA ServerStep ==
    ASSUME TransportInv, UNCHANGED <<store, tab, session, history>>,
           \A c \in Command : Applied(c) => Applied(c)', LedgerOK',
           \A k \in calls' : CallOK(k)'
    PROVE  TransportInv'
<1>1. \A c : Kept(c) <=> Kept(c)'
  BY DEF Kept, store, history
<1>2. \A w \in Worker : TabOK(w)' /\ Revoked(w)'
  BY <1>1 DEF TransportInv, TabOK, Revoked, session, history
<1>. QED BY <1>1, <1>2 DEF TransportInv, StoreOK, Minted, QuarantineHolds, store, history

LEMMA AcceptStep ==
    ASSUME TransportInv, NEW k \in calls, Accept(k)
    PROVE  TransportInv'
<1>1. UNCHANGED <<store, tab, session, history>> /\ \A c : Kept(c) <=> Kept(c)'
  BY DEF Accept, Kept, store, history
<1>2. CallOK(k) /\ k.cmd \in Command /\ LedgerOK
  BY DEF TransportInv, CallOK
<1>3. CASE Ledger!Open(k.cmd) /\ calls' = (calls \ {k}) \cup {[k EXCEPT !.acc = count + 1]}
  <2>1. /\ holder[k.cmd] = 0 /\ count < MaxRows /\ count' = count + 1
        /\ holder' = [holder EXCEPT ![k.cmd] = count + 1] /\ fate' = [fate EXCEPT ![count + 1] = "open"]
    BY <1>3 DEF Ledger!Open
  <2>2. LedgerOK'
    BY <1>1, <1>2, <2>1, TransportAssumption DEF LedgerOK, CallOK
  <2>3. \A c \in Command : Applied(c) => Applied(c)'
    BY <1>2, <2>1, TransportAssumption DEF LedgerOK, Applied
  <2>4. ASSUME NEW q \in calls PROVE CallOK(q)'
    BY <1>1, <1>2, <2>1, TransportAssumption DEF TransportInv, LedgerOK, CallOK
  <2>5. ASSUME NEW q \in {[k EXCEPT !.acc = count + 1]} PROVE CallOK(q)'
    BY <1>1, <1>2, <1>3, <2>1 DEF LedgerOK, CallOK
  <2>. QED BY <1>1, <1>3, <2>2, <2>3, <2>4, <2>5, ServerStep
<1>4. CASE holder[k.cmd] # 0 /\ calls' = (calls \ {k}) \cup {[k EXCEPT !.acc = holder[k.cmd]]} /\ UNCHANGED ledger
  <2>1. LedgerOK' /\ \A c \in Command : Applied(c) => Applied(c)'
    BY <1>1, <1>2, <1>4 DEF LedgerOK, Applied, ledger
  <2>2. ASSUME NEW q \in calls PROVE CallOK(q)'
    BY <1>1, <1>4 DEF TransportInv, CallOK, ledger
  <2>3. ASSUME NEW q \in {[k EXCEPT !.acc = holder[k.cmd]]} PROVE CallOK(q)'
    BY <1>1, <1>2, <1>4 DEF LedgerOK, CallOK, ledger
  <2>. QED BY <1>1, <1>4, <2>1, <2>2, <2>3, ServerStep
<1>. QED BY <1>3, <1>4 DEF Accept

\* An acceptance on record takes effect, or is given up while it is open.
LEMMA SettleStep ==
    ASSUME TransportInv, NEW c \in Command, holder[c] # 0, fate[holder[c]] = "open",
           Ledger!TakeEffect(c) \/ Ledger!Drop(c), calls' \subseteq calls,
           UNCHANGED <<store, tab, session, history>>
    PROVE  TransportInv'
<1>1. \A d : Kept(d) <=> Kept(d)'
  BY DEF Kept, store, history
<1>2. PICK how \in {"done", "void"} :
         /\ fate' = [fate EXCEPT ![holder[c]] = how] /\ count' = count
         /\ holder' = [holder EXCEPT ![c] = IF how = "void" THEN 0 ELSE @]
  <2>1. CASE Ledger!TakeEffect(c)
    BY <2>1 DEF Ledger!TakeEffect, TransportInv, LedgerOK
  <2>2. CASE Ledger!Drop(c)
    BY <2>2 DEF Ledger!Drop
  <2>. QED BY <2>1, <2>2
<1>3. LedgerOK'
  BY <1>1, <1>2 DEF TransportInv, LedgerOK
<1>4. \A d \in Command : Applied(d) => Applied(d)'
  BY <1>2 DEF TransportInv, LedgerOK, Applied
<1>5. ASSUME NEW k \in calls' PROVE CallOK(k)'
  <2>1. CallOK(k) /\ LedgerOK
    BY DEF TransportInv
  <2>2. k.acc # 0 => fate'[k.acc] = "void" \/ holder'[k.cmd] = k.acc
    <3>1. holder[c] \in DOMAIN fate /\ k.cmd \in Command /\ k.acc \in Nat
      BY <2>1, TransportAssumption DEF LedgerOK, CallOK
    <3>2. \A n \in DOMAIN fate : fate'[n] = IF n = holder[c] THEN how ELSE fate[n]
      BY <1>2
    <3>3. \A d \in Command : holder'[d] = IF d = c /\ how = "void" THEN 0 ELSE holder[d]
      BY <1>2, <2>1 DEF LedgerOK
    <3>4. k.acc # 0 => k.acc \in DOMAIN fate /\ (fate[k.acc] = "void" \/ holder[k.cmd] = k.acc)
      BY <2>1, TransportAssumption DEF LedgerOK, CallOK
    <3>. QED BY <3>1, <3>2, <3>3, <3>4
  <2>. QED BY <1>1, <1>2, <2>1, <2>2 DEF CallOK
<1>. QED BY <1>3, <1>4, <1>5, ServerStep

LEMMA FewerCalls ==
    ASSUME TransportInv, calls' \subseteq calls, UNCHANGED <<ledger, store, tab, session, history>>
    PROVE  TransportInv'
<1>1. \A c : Kept(c) <=> Kept(c)'
  BY DEF Kept, store, history
<1>2. \A k \in calls' : CallOK(k)'
  BY <1>1 DEF TransportInv, CallOK, ledger
<1>3. LedgerOK' /\ \A c : Applied(c) => Applied(c)'
  BY <1>1 DEF TransportInv, LedgerOK, Applied, ledger
<1>. QED BY <1>2, <1>3, ServerStep

LEMMA BackendStep == TransportInv /\ Server => TransportInv'
<1> SUFFICES ASSUME TransportInv, Server PROVE TransportInv'
  OBVIOUS
<1>1. ASSUME NEW k \in calls, Execute(k) \/ RunFails(k) \/ CallEnds(k) PROVE TransportInv'
  <2>1. k.cmd \in Command /\ UNCHANGED <<store, tab, session, history>>
    BY <1>1 DEF TransportInv, CallOK, Execute, RunFails, CallEnds
  <2>2. CASE Execute(k)
    BY <2>1, <2>2, SettleStep DEF Execute, Ledger!TakeEffect
  <2>3. CASE RunFails(k)
    BY <2>1, <2>3, SettleStep, FewerCalls DEF RunFails
  <2>4. CASE CallEnds(k)
    BY <2>1, <2>4, FewerCalls DEF CallEnds
  <2>. QED BY <1>1, <2>2, <2>3, <2>4
<1>2. ASSUME NEW c \in Command, GiveUpStale(c) PROVE TransportInv'
  BY <1>2, SettleStep DEF GiveUpStale
<1>. QED BY <1>1, <1>2, AcceptStep DEF Server

-----------------------------------------------------------------------------
LEMMA NextTransport == TransportInv /\ [Next]_vars => TransportInv'
<1> SUFFICES ASSUME TransportInv, [Next]_vars PROVE TransportInv'
  OBVIOUS
<1>1. ASSUME NEW s \in Worker, Lapse(s) \/ Freeze(s) PROVE TransportInv'
  BY <1>1, IdleStep DEF Lapse, Freeze, session, history
<1>2. CASE UNCHANGED vars
  BY <1>2, IdleStep DEF vars, session, history
<1>. QED BY <1>1, <1>2, BackendStep, SyncStep, ExecuteStep, SocketStep, AnswerStep, TroubleStep DEF Next

LEMMA TransportInvariant == Spec => []TransportInv
  BY InitTransport, NextTransport, PTL DEF Spec

\* No answer is lost: what the server has executed, the client has on record or has made
\* durable, and nothing is made durable that was not executed.
THEOREM AnswersRemembered == Spec => []AppliedIsRemembered
<1>1. TransportInv => AppliedIsRemembered
  BY DEF TransportInv, LedgerOK, Kept, Applied, AppliedIsRemembered
<1>. QED BY <1>1, TransportInvariant, PTL

\* After a revocation was acknowledged no record of the worker's own is left unmarked.
THEOREM RevocationsHold == Spec => []QuarantineHolds
<1>1. TransportInv => QuarantineHolds
  BY DEF TransportInv
<1>. QED BY <1>1, TransportInvariant, PTL

-----------------------------------------------------------------------------
(* What the leases of the scopes are for.                                  *)

Underway == {"dial", "store", "mark", "await", "retry", "refresh"}

\* A request on its way to the socket has its record's scope leased, unless it ran out, or
\* the request dials for a fresh ticket or, about an adopted record, has done so ...
Leased(w) ==
    tab[w].has /\ tab[w].pc \in Underway /\ w \notin shut =>
        \/ lease[Home[tab[w].cmd]] = w
        \/ Home[tab[w].cmd] \in overrun
        \/ Unleased(w)
        \/ tab[w].reticketed /\ tab[w].pc = "dial" /\ link[w] # "up"

\* ... and the slot, so that whatever loses the lane ends it.
SlotTaken(w) == tab[w].pc \in Underway => tab[w].slot

LeaseInv ==
    DOMAIN lease = Worker /\ DOMAIN link = Worker /\ \A w \in Worker : Leased(w) /\ SlotTaken(w)

\* A worker takes and gives up only what is free or its own.
Leases(w) == DOMAIN lease' = Worker /\ \A s \in Worker : lease'[s] = lease[s] \/ lease[s] \in {None, w}

\* A worker opens and closes its own lane only.
Lane(w) == DOMAIN link' = Worker /\ \A v \in Worker \ {w} : link'[v] = link[v]

LEMMA LaneKept ==
    ASSUME LeaseInv, NEW w \in Worker,
           \/ UNCHANGED link
           \/ \E at \in {"none", "lost", "up"} : link' = [link EXCEPT ![w] = at]
           \/ Release(w)
           \/ \E confirmed, keep \in BOOLEAN : Fallback(w, confirmed, keep)
           \/ SocketCloses(w)
    PROVE  Lane(w)
<1>1. ASSUME Release(w) PROVE Lane(w)
  BY <1>1 DEF Release, LeaseInv, Lane
<1>2. ASSUME UNCHANGED link \/ \E at \in {"none", "lost", "up"} : link' = [link EXCEPT ![w] = at] PROVE Lane(w)
  BY <1>2 DEF LeaseInv, Lane
<1>3. ASSUME NEW confirmed \in BOOLEAN, NEW keep \in BOOLEAN, Fallback(w, confirmed, keep) PROVE Lane(w)
  BY <1>1, <1>2, <1>3 DEF Fallback, DurableRecovery, OverHttp
<1>4. ASSUME SocketCloses(w) PROVE Lane(w)
  BY <1>1, <1>2, <1>4 DEF SocketCloses
<1>. QED BY <1>1, <1>2, <1>3, <1>4

LEMMA SyncLane ==
    ASSUME LeaseInv, NEW w \in Worker, Sync(w) \/ ExecuteStarts(w)
    PROVE  Lane(w)
<1>1. UNCHANGED link
  BY DEF Sync, SyncStarts, RecoverEmpty, RecoverDeferred, RecoverAdopts, RecoverOverHttp, SyncEnds,
         ExecuteBlocked, ExecuteStarts
<1>. QED BY <1>1, LaneKept

LEMMA SocketLane ==
    ASSUME LeaseInv, NEW w \in Worker, Socket(w)
    PROVE  Lane(w)
<1>1. CASE DialTaken(w) \/ PutRefused(w) \/ RefreshFails(w)
  BY <1>1, LaneKept DEF DialTaken, PutRefused, RefreshFails, Reticket
<1>2. CASE Dial(w) \/ PrepareStale(w)
  BY <1>2, LaneKept DEF Dial, PrepareStale
<1>3. CASE PrepareStatus(w) \/ PrepareStore(w) \/ Store(w) \/ MarkAndSend(w) \/ Retry(w) \/ Refreshed(w)
  BY <1>3, LaneKept DEF PrepareStatus, PrepareStore, Store, MarkAndSend, Retry, Refreshed
<1>4. CASE AckDeadline(w)
  BY <1>4, LaneKept DEF AckDeadline
<1>5. CASE Redial(w) \/ Surrender(w)
  BY <1>5, LaneKept DEF Redial, Surrender, SlotFreed
<1>. QED BY <1>1, <1>2, <1>3, <1>4, <1>5 DEF Socket

LEMMA AnswerLane ==
    ASSUME LeaseInv, NEW w \in Worker, Answer(w)
    PROVE  Lane(w)
<1>1. CASE Committed(w) \/ Voided(w) \/ StatusUnknown(w)
  BY <1>1, LaneKept DEF Committed, Voided, StatusUnknown
<1>2. CASE \/ StatusAccepted(w) \/ HttpOk(w) \/ HttpVoided(w) \/ PlainDone(w) \/ Persist(w)
           \/ CheckpointCleared(w) \/ CheckpointFailed(w)
  BY <1>2, LaneKept DEF StatusAccepted, HttpOk, HttpVoided, PlainDone, Persist, CheckpointCleared, CheckpointFailed
<1>3. CASE Quarantine(w)
  BY <1>3, LaneKept DEF Quarantine
<1>. QED BY <1>1, <1>2, <1>3 DEF Answer

LEMMA TroubleLane ==
    ASSUME LeaseInv, NEW w \in Worker, Trouble(w)
    PROVE  Lane(w)
<1>1. CASE DialFails(w) \/ PrepareUnavailable(w) \/ ServerKill(w)
  BY <1>1, LaneKept DEF DialFails, PrepareUnavailable, ServerKill
<1>2. CASE \/ Refused(w) \/ FenceRefused(w) \/ Busy(w) \/ BackendTimeout(w) \/ HttpFails(w) \/ PersistFails(w)
           \/ RevokeStarts(w)
  BY <1>2, LaneKept DEF Refused, RefusedOverHttp, FenceRefused, Busy, BackendTimeout, HttpFails, PersistFails, RevokeStarts
<1>3. CASE LiveSyncDisabled(w) \/ SessionStale(w)
  BY <1>3, LaneKept DEF LiveSyncDisabled, RefusedOverHttp, SessionStale, Reticket
<1>4. CASE SocketLost(w)
  BY <1>4, LaneKept DEF SocketLost
<1>5. CASE Crash(w)
  BY <1>5, LaneKept DEF Crash
<1>. QED BY <1>1, <1>2, <1>3, <1>4, <1>5 DEF Trouble

LEMMA LeaseStep ==
    ASSUME TransportInv, LeaseInv, NEW w \in Worker, Moves(w), Leases(w), Lane(w), Leased(w)', SlotTaken(w)',
           overrun' = overrun, shut \subseteq shut'
    PROVE  LeaseInv'
<1>1. ASSUME NEW v \in Worker \ {w} PROVE Leased(v)' /\ SlotTaken(v)'
  <2>1. tab'[v] = tab[v] /\ Leased(v) /\ SlotTaken(v) /\ (tab[v].has => Home[tab[v].cmd] \in Worker)
    BY TransportAssumption DEF Moves, LeaseInv, TransportInv, TabOK
  <2>. QED BY <2>1, TransportAssumption DEF Leases, Lane, Leased, Unleased, SlotTaken
<1>. QED BY <1>1 DEF LeaseInv, Leases, Lane

LEMMA AwayStep ==
    ASSUME TransportInv, LeaseInv, NEW w \in Worker, Moves(w), Leases(w), Lane(w), tab'[w].pc \notin Underway,
           overrun' = overrun, shut \subseteq shut'
    PROVE  LeaseInv'
  BY LeaseStep DEF Leased, SlotTaken

\* A worker's step that leaves leases and records alone stays under its lease, if it does not
\* go on without a lane.
LEMMA StillLeased ==
    ASSUME TransportInv, LeaseInv, NEW w \in Worker, Moves(w), Lane(w), UNCHANGED <<lease, overrun, shut>>,
           tab[w].pc \in Underway, tab'[w].slot = tab[w].slot, tab'[w].has => tab[w].has, tab'[w].cmd = tab[w].cmd,
           tab'[w].reticketed = tab[w].reticketed,
           tab[w].pc = "dial" => link[w] = "up" \/ (tab'[w].pc = "dial" /\ link'[w] # "up")
    PROVE  LeaseInv'
<1>1. Leases(w) /\ SlotTaken(w)'
  BY DEF LeaseInv, Leases, SlotTaken
<1>2. Leased(w)'
  BY DEF LeaseInv, Leased, Unleased
<1>. QED BY <1>1, <1>2, LeaseStep

LEMMA LeasesKept ==
    ASSUME LeaseInv, NEW w \in Worker, UNCHANGED leases \/ Release(w)
    PROVE  Leases(w)
  BY DEF LeaseInv, Leases, Release, leases

LEMMA LeasesAdopted ==
    ASSUME TransportInv, LeaseInv, NEW w \in Worker, Adoptable(w) # {}, Adopt(w, Oldest(w))
    PROVE  Leases(w) /\ lease'[Home[Oldest(w)]] = w
<1>1. Oldest(w) \in Adoptable(w) /\ Oldest(w) \in Command
  BY OldestAdoptable
<1>2. Home[Oldest(w)] \in Worker
  BY <1>1, TransportAssumption
<1>. QED BY <1>1, <1>2 DEF Adoptable, Free, Adopt, LeaseInv, Leases

LEMMA LeasesDropped ==
    ASSUME TransportInv, LeaseInv, NEW w \in Worker, NEW c \in Command, DropRecord(w, c)
    PROVE  Leases(w)
  BY DEF DropRecord, ReleaseScope, Free, leases, LeaseInv, Leases

\* Where a request goes that is not under way any more.
\* A request has a record that it had, that it just wrote, or that it adopts.
Has(w) ==
    tab'[w].has => \/ (tab[w].has \/ tab[w].pc = "store") /\ tab'[w].cmd = tab[w].cmd
                   \/ tab'[w].cmd \in Adoptable(w)

LEMMA Gone ==
    ASSUME TransportInv, NEW w \in Worker,
           \/ \E at \in {"idle", "recover", "fresh", "result", "ack", "stuck", "off", "plain"} :
                 Goto(w, at) \/ Become(w, Vacant(at))
           \/ Become(w, [tab[w] EXCEPT !.pc = "http", !.slot = FALSE])
    PROVE  Moves(w) /\ tab'[w].pc \notin Underway /\ Has(w)
<1>1. DOMAIN tab = Worker /\ tab[w] \in Tab
  BY DEF TransportInv, TabOK
<1>2. ASSUME NEW at \in {"idle", "recover", "fresh", "result", "ack", "stuck", "off", "plain"},
             tab' = [tab EXCEPT ![w] = [tab[w] EXCEPT !.pc = at]] \/ tab' = [tab EXCEPT ![w] = Vacant(at)]
      PROVE  Moves(w) /\ tab'[w].pc = at /\ Has(w)
  BY <1>1, <1>2 DEF Moves, Tab, Vacant, Has
<1>3. CASE tab' = [tab EXCEPT ![w] = [tab[w] EXCEPT !.pc = "http", !.slot = FALSE]]
  BY <1>1, <1>3 DEF Moves, Tab, Underway, Has
<1>. QED BY <1>2, <1>3 DEF Goto, Become, Underway

LEMMA FallbackAway ==
    ASSUME TransportInv, LeaseInv, NEW w \in Worker, NEW confirmed \in BOOLEAN, NEW keep \in BOOLEAN,
           Fallback(w, confirmed, keep), overrun' = overrun, shut' = shut
    PROVE  LeaseInv'
<1>0. Lane(w)
  BY LaneKept
<1>1. Leases(w)
  BY LeasesKept DEF Fallback, DurableRecovery, OverHttp, leases
<1>2. Moves(w) /\ tab'[w].pc \notin Underway
  BY Gone DEF Fallback, DurableRecovery, OverHttp
<1>. QED BY <1>0, <1>1, <1>2, AwayStep

LEMMA SyncLeased ==
    ASSUME TransportInv, LeaseInv, NEW w \in Worker, Sync(w) \/ ExecuteStarts(w)
    PROVE  LeaseInv'
<1>0. UNCHANGED <<overrun, shut>>
  BY DEF Sync, SyncStarts, RecoverEmpty, RecoverDeferred, RecoverAdopts, RecoverOverHttp, SyncEnds,
         ExecuteBlocked, ExecuteStarts, session, history
<1>1. UNCHANGED <<overrun, shut>> /\ Lane(w)
  BY <1>0, SyncLane
<1>2. CASE SyncStarts(w) \/ RecoverEmpty(w) \/ SyncEnds(w)
  BY <1>1, <1>2, Gone, LeasesKept, AwayStep DEF SyncStarts, RecoverEmpty, SyncEnds
<1>3. CASE RecoverDeferred(w) \/ ExecuteBlocked(w)
  BY <1>1, <1>3, Gone, LeasesAdopted, AwayStep DEF RecoverDeferred, ExecuteBlocked
<1>4. CASE RecoverAdopts(w)
  <2>1. Leases(w) /\ lease'[Home[Oldest(w)]] = w /\ tab' = [tab EXCEPT ![w] = Recovering(w, Oldest(w), "dial")]
    BY <1>4, LeasesAdopted DEF RecoverAdopts, Become
  <2>2. Moves(w) /\ tab'[w].cmd = Oldest(w) /\ tab'[w].slot
    BY <2>1 DEF Moves, TransportInv, Recovering
  <2>. QED BY <1>1, <2>1, <2>2, LeaseStep DEF Leased, SlotTaken
<1>5. CASE RecoverOverHttp(w)
  <2>1. tab' = [tab EXCEPT ![w] = Recovering(w, Oldest(w), "http")] /\ Leases(w)
    BY <1>5, LeasesAdopted DEF RecoverOverHttp, Become
  <2>2. Moves(w) /\ tab'[w].pc = "http"
    BY <2>1 DEF Moves, TransportInv, Recovering
  <2>. QED BY <1>1, <2>1, <2>2, AwayStep DEF Underway
<1>6. CASE ExecuteStarts(w)
  <2>1. PICK c \in Command : tab' = [tab EXCEPT ![w] = [Vacant("dial") EXCEPT !.mode = "execute", !.cmd = c, !.slot = TRUE]]
    BY <1>6 DEF ExecuteStarts, Become
  <2>2. Moves(w) /\ ~tab'[w].has /\ tab'[w].slot
    BY <2>1 DEF Moves, TransportInv, Vacant
  <2>3. Leases(w)
    BY <1>6, LeasesKept, LeasesAdopted DEF ExecuteStarts
  <2>. QED BY <1>1, <2>2, <2>3, LeaseStep DEF Leased, SlotTaken
<1>. QED BY <1>2, <1>3, <1>4, <1>5, <1>6 DEF Sync

LEMMA SocketClosesLeased ==
    ASSUME TransportInv, LeaseInv, NEW w \in Worker, SocketCloses(w), UNCHANGED <<overrun, shut>>
    PROVE  LeaseInv'
<1>0. Lane(w)
  BY LaneKept
<1>1. CASE tab[w].slot
  <2>1. PICK at : at \in {"dial", tab[w].pc} /\ (at = "dial" => tab[w].pc \in Underway) /\ Goto(w, at)
    BY <1>1 DEF SocketCloses, Underway
  <2>2. /\ tab' = [tab EXCEPT ![w] = [tab[w] EXCEPT !.pc = at]] /\ lease' = lease
        /\ link'[w] = "lost"
    BY <1>1, <2>1 DEF Goto, Become, SocketCloses, leases, LeaseInv
  <2>3. /\ Moves(w) /\ tab'[w].pc = at /\ tab'[w].slot = tab[w].slot /\ tab'[w].has = tab[w].has
        /\ tab'[w].cmd = tab[w].cmd /\ tab'[w].reticketed = tab[w].reticketed
    BY <2>2 DEF Moves, TransportInv, TabOK, Tab
  <2>4. CASE tab[w].pc \in Underway
    BY <1>0, <2>1, <2>2, <2>3, <2>4, StillLeased
  <2>5. CASE tab[w].pc \notin Underway
    BY <1>0, <2>1, <2>2, <2>3, <2>5, AwayStep DEF Leases, LeaseInv
  <2>. QED BY <2>4, <2>5
<1>2. CASE ~tab[w].slot
  <2>1. tab' = tab /\ Leases(w) /\ tab[w].pc \notin Underway
    BY <1>2, LeasesKept DEF SocketCloses, LeaseInv, SlotTaken
  <2>. QED BY <1>0, <2>1, AwayStep DEF Moves, TransportInv
<1>. QED BY <1>1, <1>2

\* For a fresh ticket the request gives up its leases and goes back to dial.
LEMMA ReticketLeased ==
    ASSUME TransportInv, LeaseInv, NEW w \in Worker, tab[w].pc \in {"await", "refresh"}, Reticket(w),
           UNCHANGED <<ledger, store, session, history>>
    PROVE  LeaseInv'
<1>1. UNCHANGED <<settled, unknown, refused, overrun, shut>>
  BY DEF session, history
<1>2. /\ Moves(w) /\ tab' = [tab EXCEPT ![w] = [tab[w] EXCEPT !.pc = "dial", !.reticketed = TRUE]]
      /\ tab[w] \in Tab /\ w \in DOMAIN tab
  BY <1>1, ReticketMoves DEF TransportInv
<1>3. tab'[w].pc = "dial" /\ tab'[w].reticketed /\ tab'[w].slot = tab[w].slot
  BY <1>2 DEF Tab
<1>4. Lane(w) /\ Leases(w)
  BY LaneKept, LeasesKept DEF Reticket
<1>5. link'[w] = "none"
  BY DEF Reticket, Release, LeaseInv
<1>6. Leased(w)'
  BY <1>3, <1>5 DEF Leased
<1>7. SlotTaken(w)'
  BY <1>3 DEF LeaseInv, SlotTaken, Underway
<1>. QED BY <1>1, <1>2, <1>4, <1>6, <1>7, LeaseStep

LEMMA SocketLeased ==
    ASSUME TransportInv, LeaseInv, NEW w \in Worker, Socket(w)
    PROVE  LeaseInv'
<1>0. UNCHANGED <<overrun, shut>>
  BY DEF Socket, DialTaken, Dial, PrepareStatus, PrepareStale, PrepareStore, Store, MarkAndSend, PutRefused, Retry,
         AckDeadline, SocketCloses, Redial, Refreshed, RefreshFails, Surrender, session, history
<1>1. UNCHANGED <<overrun, shut>> /\ Lane(w)
  BY <1>0, SocketLane
<1>2. CASE DialTaken(w) \/ PutRefused(w)
  BY <1>1, <1>2, FallbackAway DEF DialTaken, PutRefused
<1>3. CASE Dial(w)
  <2>1. Moves(w) /\ Leases(w) /\ tab' = tab
    BY <1>3 DEF Dial, Free, Moves, TransportInv, LeaseInv, Leases
  <2>2. Leased(w)' /\ SlotTaken(w)'
    BY <1>1, <1>3, <2>1 DEF Dial, LeaseInv, Leased, Unleased, SlotTaken
  <2>. QED BY <1>1, <2>1, <2>2, LeaseStep
<1>4. CASE PrepareStatus(w) \/ Retry(w) \/ PrepareStore(w) \/ Refreshed(w)
  <2>1. tab[w].pc \in Underway /\ lease' = lease /\ (tab[w].pc = "dial" => link[w] = "up")
    BY <1>4 DEF PrepareStatus, Retry, PrepareStore, Refreshed, At, Underway, leases
  <2>2. PICK at, kind : tab' = [tab EXCEPT ![w] = [tab[w] EXCEPT !.pc = at, !.asked = kind]]
                        \/ tab' = [tab EXCEPT ![w] = [tab[w] EXCEPT !.pc = at]]
    BY <1>4 DEF PrepareStatus, Retry, PrepareStore, Refreshed, Send, Goto, Become
  <2>3. /\ Moves(w) /\ tab'[w].slot = tab[w].slot /\ tab'[w].has = tab[w].has /\ tab'[w].cmd = tab[w].cmd
        /\ tab'[w].reticketed = tab[w].reticketed
    BY <2>2 DEF Moves, TransportInv, TabOK, Tab
  <2>. QED BY <1>1, <2>1, <2>3, StillLeased
<1>5. CASE PrepareStale(w)
  <2>1. Leases(w)
    BY <1>5 DEF PrepareStale, LeaseInv, Leases
  <2>. QED BY <1>1, <1>5, <2>1, Gone, AwayStep DEF PrepareStale
<1>6. CASE Store(w) \/ MarkAndSend(w)
  <2>1. /\ Leases(w) /\ lease'[w] = w /\ tab[w].pc \in {"store", "mark"}
        /\ Home[tab[w].cmd] = w /\ tab[w].slot
    BY <1>6 DEF Store, MarkAndSend, Put, Free, TransportInv, TabOK, LeaseInv, SlotTaken, Leases, Underway
  <2>2. PICK at : \/ tab' = [tab EXCEPT ![w] = [tab[w] EXCEPT !.pc = at, !.has = TRUE]]
                  \/ tab' = [tab EXCEPT ![w] = [tab[w] EXCEPT !.pc = at, !.asked = "COMMAND", !.sent = TRUE]]
                  \/ tab' = [tab EXCEPT ![w] = [tab[w] EXCEPT !.pc = at]]
    BY <1>6 DEF Store, MarkAndSend, Goto, Become
  <2>3. Moves(w) /\ tab'[w].slot = tab[w].slot /\ tab'[w].cmd = tab[w].cmd
    BY <2>2 DEF Moves, TransportInv, TabOK, Tab
  <2>. QED BY <1>1, <2>1, <2>3, LeaseStep DEF Leased, SlotTaken
<1>7. CASE AckDeadline(w)
  BY <1>1, <1>7, SocketClosesLeased DEF AckDeadline
<1>8. CASE Redial(w)
  <2>1. tab[w].pc \notin Underway
    BY <1>8 DEF Redial, Delivered, Underway
  <2>2. Moves(w) /\ tab'[w].pc \notin Underway
    <3>1. \/ tab' = tab \/ Become(w, Vacant("idle")) \/ tab' = [tab EXCEPT ![w] = [tab[w] EXCEPT !.slot = FALSE]]
      BY <1>8 DEF Redial, SlotFreed, Become
    <3>2. CASE tab' = [tab EXCEPT ![w] = [tab[w] EXCEPT !.slot = FALSE]]
      BY <2>1, <3>2 DEF Moves, TransportInv, TabOK, Tab
    <3>. QED BY <2>1, <3>1, <3>2, Gone DEF Moves, TransportInv
  <2>3. Leases(w)
    BY <1>8, LeasesKept DEF Redial, SlotFreed, Free, LeaseInv, Leases
  <2>. QED BY <1>1, <2>2, <2>3, AwayStep
<1>9. CASE Surrender(w)
  <2>1. CASE Delivered(w) /\ SlotFreed(w)
    <3>1. tab[w].pc \notin Underway
      BY <2>1 DEF Delivered, Underway
    <3>2. Become(w, Vacant("idle")) \/ tab' = [tab EXCEPT ![w] = [tab[w] EXCEPT !.slot = FALSE]]
      BY <2>1 DEF SlotFreed, Become
    <3>3. CASE tab' = [tab EXCEPT ![w] = [tab[w] EXCEPT !.slot = FALSE]]
      <4>1. Moves(w) /\ tab'[w].pc \notin Underway
        BY <3>1, <3>3 DEF Moves, TransportInv, TabOK, Tab
      <4>. QED BY <1>1, <2>1, <4>1, LeasesKept, AwayStep DEF SlotFreed
    <3>. QED BY <1>1, <2>1, <3>2, <3>3, Gone, LeasesKept, AwayStep DEF SlotFreed
  <2>2. CASE Fallback(w, FALSE, FALSE)
    BY <1>1, <2>2, FallbackAway
  <2>3. CASE ~tab[w].slot /\ Release(w) /\ tab' = tab
    <3>1. tab[w].pc \notin Underway /\ Moves(w)
      BY <2>3 DEF LeaseInv, SlotTaken, Moves, TransportInv
    <3>. QED BY <1>1, <2>3, <3>1, LeasesKept, AwayStep
  <2>. QED BY <1>9, <2>1, <2>2, <2>3 DEF Surrender
<1>10. CASE RefreshFails(w)
  BY <1>1, <1>10, ReticketLeased, FallbackAway DEF RefreshFails, At, history
<1>. QED BY <1>2, <1>3, <1>4, <1>5, <1>6, <1>7, <1>8, <1>9, <1>10 DEF Socket

LEMMA AnswerLeased ==
    ASSUME TransportInv, LeaseInv, NEW w \in Worker, Answer(w)
    PROVE  LeaseInv'
<1>0. UNCHANGED <<overrun, shut>>
  BY DEF Answer, Committed, StatusUnknown, StatusAccepted, Voided, HttpOk, HttpVoided, PlainDone, Persist,
         CheckpointCleared, CheckpointFailed, Quarantine, session, history
<1>1. UNCHANGED <<overrun, shut>> /\ Lane(w)
  BY <1>0, AnswerLane
<1>2. CASE Fallback(w, TRUE, TRUE) \/ Fallback(w, TRUE, FALSE) \/ Fallback(w, FALSE, FALSE)
  BY <1>1, <1>2, FallbackAway
<1>3. CASE Goto(w, "result") /\ UNCHANGED leases
  BY <1>1, <1>3, Gone, LeasesKept, AwayStep
<1>4. CASE StatusAccepted(w)
  <2>1. tab' = tab /\ lease' = lease /\ tab[w].pc = "await" /\ Moves(w)
    BY <1>4 DEF StatusAccepted, At, Moves, TransportInv, leases
  <2>. QED BY <1>1, <2>1, StillLeased DEF Underway
<1>5. CASE HttpVoided(w) \/ PlainDone(w) \/ Persist(w)
  BY <1>1, <1>5, Gone, LeasesKept, AwayStep DEF HttpVoided, PlainDone, Persist
<1>6. CASE CheckpointFailed(w)
  BY <1>1, <1>6, Gone, LeasesKept, AwayStep DEF CheckpointFailed, Unsettled
<1>7. ASSUME tab[w].pc \in {"await", "ack"}, DropRecord(w, tab[w].cmd),
             NEW at \in {"idle", "fresh", "recover"}, Become(w, Vacant(at))
      PROVE  LeaseInv'
  <2>1. tab[w].cmd \in Command
    BY <1>7 DEF TransportInv, TabOK
  <2>. QED BY <1>1, <1>7, <2>1, Gone, LeasesDropped, AwayStep
<1>8. CASE Quarantine(w)
  <2>1. tab' = tab /\ Leases(w) /\ Moves(w) /\ w \in shut
    BY <1>8, LeasesKept DEF Quarantine, Moves, TransportInv
  <2>2. Leased(w)' /\ SlotTaken(w)'
    BY <1>1, <2>1 DEF LeaseInv, Leased, SlotTaken
  <2>. QED BY <1>1, <2>1, <2>2, LeaseStep
<1>9. CASE StatusUnknown(w)
  BY <1>2, <1>7, <1>9 DEF StatusUnknown, At
<1>10. CASE CheckpointCleared(w)
  BY <1>7, <1>10 DEF CheckpointCleared, At
<1>11. CASE Committed(w) \/ Voided(w) \/ HttpOk(w)
  BY <1>2, <1>3, <1>11 DEF Committed, Voided, HttpOk, leases
<1>. QED BY <1>4, <1>5, <1>6, <1>8, <1>9, <1>10, <1>11 DEF Answer

LEMMA TroubleLeased ==
    ASSUME TransportInv, LeaseInv, NEW w \in Worker, Trouble(w)
    PROVE  LeaseInv'
<1>0. overrun' = overrun /\ shut \subseteq shut'
  BY DEF Trouble, DialFails, PrepareUnavailable, Refused, FenceRefused, Busy, BackendTimeout, ServerKill, HttpFails,
         SocketLost, SocketCloses, PersistFails, Crash, RevokeStarts, LiveSyncDisabled, SessionStale, session, history
<1>1. overrun' = overrun /\ shut \subseteq shut' /\ Lane(w)
  BY <1>0, TroubleLane
<1>2. CASE DialFails(w) \/ PrepareUnavailable(w) \/ ServerKill(w)
  <2>1. shut' = shut /\ \E confirmed, keep \in BOOLEAN : Fallback(w, confirmed, keep)
    BY <1>2 DEF DialFails, PrepareUnavailable, ServerKill, session
  <2>. QED BY <1>1, <2>1, FallbackAway
<1>3. CASE Refused(w) \/ FenceRefused(w)
  <2>1. tab[w].cmd \in Command
    BY <1>3 DEF Refused, FenceRefused, At, TransportInv, TabOK
  <2>. QED BY <1>1, <1>3, <2>1, Gone, LeasesKept, LeasesDropped, AwayStep DEF Refused, RefusedOverHttp, FenceRefused, leases
<1>4. CASE Busy(w) \/ BackendTimeout(w)
  <2>1. tab[w].pc = "await" /\ UNCHANGED <<lease, shut>>
    BY <1>4 DEF Busy, BackendTimeout, At, leases, session
  <2>2. \/ tab' = [tab EXCEPT ![w] = [tab[w] EXCEPT !.pc = "retry"]]
        \/ tab' = [tab EXCEPT ![w] = [tab[w] EXCEPT !.pc = "retry", !.asked = "STATUS"]]
    BY <1>4 DEF Busy, BackendTimeout, Goto, Become
  <2>3. /\ Moves(w) /\ tab'[w].slot = tab[w].slot /\ tab'[w].has = tab[w].has /\ tab'[w].cmd = tab[w].cmd
        /\ tab'[w].reticketed = tab[w].reticketed
    BY <2>2 DEF Moves, TransportInv, TabOK, Tab
  <2>. QED BY <1>1, <2>1, <2>3, StillLeased DEF Underway
<1>5. CASE HttpFails(w)
  BY <1>1, <1>5, Gone, LeasesKept, AwayStep DEF HttpFails
<1>6. CASE SocketLost(w)
  BY <1>1, <1>6, SocketClosesLeased DEF SocketLost, SocketCloses, session
<1>7. CASE PersistFails(w)
  BY <1>1, <1>7, Gone, LeasesKept, AwayStep DEF PersistFails, Unsettled
<1>8. CASE Crash(w)
  BY <1>1, <1>8, Gone, AwayStep DEF Crash, LeaseInv, Leases
<1>9. CASE RevokeStarts(w)
  BY <1>1, <1>9, LeaseStep DEF RevokeStarts, LeaseInv, Leases, Leased, Unleased, SlotTaken, Moves, TransportInv, leases
<1>10. CASE LiveSyncDisabled(w)
  BY <1>1, <1>10, Gone, LeasesKept, AwayStep DEF LiveSyncDisabled, RefusedOverHttp, leases
<1>11. CASE SessionStale(w)
  <2>1. tab[w].pc = "await" /\ shut' = shut
    BY <1>11 DEF SessionStale, RefusedEarly, At, session
  <2>2. CASE Goto(w, "refresh") /\ lease' = lease
    <3>1. tab' = [tab EXCEPT ![w] = [tab[w] EXCEPT !.pc = "refresh"]]
      BY <2>2 DEF Goto, Become
    <3>2. /\ Moves(w) /\ tab'[w].slot = tab[w].slot /\ tab'[w].has = tab[w].has /\ tab'[w].cmd = tab[w].cmd
          /\ tab'[w].reticketed = tab[w].reticketed
      BY <3>1 DEF Moves, TransportInv, TabOK, Tab
    <3>. QED BY <1>1, <2>1, <2>2, <3>2, StillLeased DEF Underway
  <2>. QED BY <1>11, <2>1, <2>2, ReticketLeased DEF SessionStale, leases
<1>. QED BY <1>2, <1>3, <1>4, <1>5, <1>6, <1>7, <1>8, <1>9, <1>10, <1>11 DEF Trouble

\* A lease that runs out was nobody's who had a request under way, or is an overrun.
LEMMA LapseLeased ==
    ASSUME TransportInv, LeaseInv, NEW s \in Worker, Lapse(s) \/ Freeze(s)
    PROVE  LeaseInv'
<1>1. /\ UNCHANGED <<tab, shut, link>> /\ lease' = [lease EXCEPT ![s] = None] /\ overrun \subseteq overrun'
      /\ ~Renews(lease[s]) \/ s \in overrun'
  BY DEF Lapse, Freeze, MayLapse, session, history
<1>2. ASSUME NEW w \in Worker, tab[w].has, tab[w].pc \in Underway, w \notin shut PROVE Renews(w)
  BY <1>2, TransportAssumption DEF Renews, Underway, TransportInv, TabOK
<1>. QED BY <1>1, <1>2 DEF LeaseInv, Leased, Unleased, SlotTaken

LEMMA LeaseInvariant == Spec => []LeaseInv
<1>1. Init => LeaseInv
  BY DEF Init, LeaseInv, Leased, SlotTaken, Vacant, Underway
<1>2. TransportInv /\ LeaseInv /\ [Next]_vars => LeaseInv'
  <2> SUFFICES ASSUME TransportInv, LeaseInv, [Next]_vars PROVE LeaseInv'
    OBVIOUS
  <2>1. CASE UNCHANGED <<tab, lease, link, shut, overrun>>
    BY <2>1 DEF LeaseInv, Leased, Unleased, SlotTaken
  <2>2. Server \/ UNCHANGED vars => UNCHANGED <<tab, lease, link, shut, overrun>>
    BY DEF Server, Accept, Execute, RunFails, CallEnds, GiveUpStale, vars, leases, session, history
  <2>. QED BY <2>1, <2>2, SyncLeased, SocketLeased, AnswerLeased, TroubleLeased, LapseLeased DEF Next
<1>. QED BY <1>1, <1>2, TransportInvariant, PTL DEF Spec

\* Two tabs do not ask about one record, unless its lease ran out under one of them, or one of
\* them asks about a record it had adopted and let go for a fresh ticket.
THEOREM OneTabAsksForEach == Spec => []OneTabAsks
<1>1. TransportInv /\ LeaseInv => OneTabAsks
  <2> SUFFICES ASSUME TransportInv, LeaseInv, NEW v \in Worker, NEW w \in Worker, v # w,
                      At(v, "await"), At(w, "await"), tab[v].cmd = tab[w].cmd
               PROVE  Home[tab[w].cmd] \in overrun \/ Unleased(v) \/ Unleased(w)
    BY DEF OneTabAsks
  <2>1. tab[v].has /\ tab[w].has
    BY DEF TransportInv, TabOK, At
  <2>. QED BY <2>1 DEF LeaseInv, Leased, Underway, At
<1>. QED BY <1>1, TransportInvariant, LeaseInvariant, PTL

-----------------------------------------------------------------------------
(* What a refusal proves.                                                  *)

\* A worker is about to write the first frame of a new command, or has written only that.
New(w) ==
    /\ w \notin shut /\ tab[w].mode = "execute"
    /\ tab[w].pc = "mark" \/ (tab[w].pc \in {"await", "retry"} /\ tab[w].asked = "COMMAND")

\* Until its record is written, a command has none.
Unminted(w) == tab[w].pc = "store" \/ (tab[w].pc = "dial" /\ ~tab[w].has) => tab[w].cmd \notin Minted

\* The frame is all there is of a new command: no sibling has taken up its record, and the
\* journal has accepted the awaited call or none.
First(w) ==
    New(w) /\ Home[tab[w].cmd] \notin overrun =>
      /\ tab[w].has /\ Home[tab[w].cmd] = w
      /\ \A k \in calls : k.cmd = tab[w].cmd => k.w = w
      /\ \A v \in Worker \ {w} : tab[v].has => tab[v].cmd # tab[w].cmd
      /\ \A k, q \in Awaited(w) : k = q
      /\ holder[tab[w].cmd] # 0 => tab[w].pc = "await" /\ \A k \in Awaited(w) : k.acc = holder[tab[w].cmd]

\* Nothing is left of a refused command that could apply it.
Over(c) ==
    Home[c] \notin overrun =>
      /\ stored[c] = "none" /\ ~Applied(c)
      /\ \A k \in calls : k.cmd # c
      /\ \A v \in Worker : tab[v].has => tab[v].cmd # c

RefusalInv ==
    /\ \A c, d \in Command : holder[c] # 0 /\ holder[c] = holder[d] => c = d
    /\ \A w \in Worker : Unminted(w) /\ First(w)
    /\ \A c \in refused : c \in Command /\ Over(c)

\* A record comes to be by the write of its own worker only.
Writes(w) ==
    /\ \A c \in Minted' : c \in Minted \/ (tab[w].pc = "store" /\ c = tab[w].cmd)
    /\ \A c \in Command : stored'[c] # "none" =>
          stored[c] # "none" \/ (tab[w].pc \in {"store", "mark"} /\ c = tab[w].cmd)

LEMMA RefusalStep ==
    ASSUME TransportInv, LeaseInv, RefusalInv, NEW w \in Worker, UNCHANGED <<ledger, overrun>>, shut \subseteq shut',
           Moves(w), Calls(w), Has(w), Writes(w), Unminted(w)', First(w)',
           \A c \in refused' : c \in refused \/ (c \in Command /\ Over(c)')
    PROVE  RefusalInv'
<1>1. tab[w].pc \in {"store", "mark"} => tab[w].cmd \in Command /\ Home[tab[w].cmd] = w
  BY DEF TransportInv, TabOK
<1>2. ASSUME NEW v \in Worker \ {w} PROVE Unminted(v)'
  <2>1. tab'[v] = tab[v] /\ Unminted(v) /\ TabOK(v)
    BY DEF Moves, TransportInv, RefusalInv
  <2>. QED BY <1>1, <2>1 DEF Unminted, TabOK, Writes
<1>3. ASSUME NEW v \in Worker \ {w}, New(v)', Home[tab[v].cmd] \notin overrun PROVE First(v)'
  <2> DEFINE c == tab[v].cmd
  <2>1. tab'[v] = tab[v] /\ New(v) /\ First(v) /\ Leased(v) /\ v # None
    BY <1>3, TransportAssumption DEF Moves, New, RefusalInv, LeaseInv
  <2>2. tab[v].has /\ Home[c] = v /\ lease[v] = v /\ c \in Command
    BY <1>3, <2>1 DEF First, New, Leased, Unleased, Underway, TransportInv, TabOK
  <2>3. tab'[w].has => tab'[w].cmd # c
    BY <1>1, <1>3, <2>1, <2>2 DEF First, Has, Adoptable, Free
  <2>4. ASSUME NEW k \in calls' PROVE (k.cmd = c => k.w = v) /\ (k.w = v => k \in calls)
    <3>1. \A q \in calls : CallOK(q) /\ (q.cmd = c => q.w = v)
      BY <1>3, <2>1 DEF First, TransportInv
    <3>. QED BY <2>1, <2>3, <3>1 DEF Calls, Call, CallOK
  <2>5. /\ \A u \in Worker \ {v} : tab'[u].has => tab'[u].cmd # c
        /\ \A k \in Awaited(v)' : k \in Awaited(v)
    BY <1>3, <2>1, <2>3, <2>4 DEF First, Moves, Awaited
  <2>6. UNCHANGED <<holder, overrun>>
    BY DEF ledger
  <2>7. /\ \A k, q \in Awaited(v) : k = q
        /\ holder[c] # 0 => tab[v].pc = "await" /\ \A k \in Awaited(v) : k.acc = holder[c]
    BY <1>3, <2>1 DEF First
  <2>. QED BY <2>1, <2>2, <2>4, <2>5, <2>6, <2>7 DEF First
<1>4. ASSUME NEW c \in refused PROVE c \in Command /\ Over(c)'
  <2>1. c \in Command /\ Over(c) /\ c \in Minted
    BY DEF RefusalInv, TransportInv, StoreOK, Kept
  <2>2. SUFFICES ASSUME Home[c] \notin overrun PROVE Over(c)'
    BY <2>1 DEF Over
  <2>3. tab[w].pc \in {"store", "mark"} => tab[w].cmd # c
    BY <2>1, <2>2 DEF Over, TransportInv, TabOK, RefusalInv, Unminted
  <2>4. stored'[c] = "none" /\ ~Applied(c)'
    BY <2>1, <2>2, <2>3 DEF Over, Writes, Applied, ledger
  <2>5. tab'[w].has => tab'[w].cmd # c
    BY <2>1, <2>2, <2>3 DEF Over, Has, Adoptable
  <2>6. ASSUME NEW k \in calls' PROVE k.cmd # c
    <3>1. \A q \in calls : CallOK(q) /\ q.cmd # c
      BY <2>1, <2>2 DEF Over, TransportInv
    <3>. QED BY <2>5, <3>1 DEF Calls, Call, CallOK
  <2>7. \A v \in Worker : tab'[v].has => tab'[v].cmd # c
    BY <2>1, <2>2, <2>5 DEF Over, Moves
  <2>. QED BY <2>4, <2>6, <2>7 DEF Over
<1>5. ASSUME NEW v \in Worker \ {w} PROVE First(v)'
  <2>1. tab'[v] = tab[v] /\ overrun' = overrun
    BY DEF Moves
  <2>. QED BY <1>3, <2>1 DEF First
<1>6. \A c, d \in Command : holder'[c] # 0 /\ holder'[c] = holder'[d] => c = d
  BY DEF RefusalInv, ledger
<1>. QED BY <1>2, <1>4, <1>5, <1>6 DEF RefusalInv

\* Most steps write no record, refuse nothing and do not make a command new.
LEMMA PlainStep ==
    ASSUME TransportInv, LeaseInv, RefusalInv, NEW w \in Worker, UNCHANGED <<ledger, overrun, refused, minted>>,
           shut \subseteq shut', Moves(w), Calls(w), Has(w),
           \A c \in Command : stored'[c] # "none" => stored[c] # "none",
           Unminted(w)', First(w)'
    PROVE  RefusalInv'
<1>1. Writes(w)
  BY DEF Writes, Minted
<1>. QED BY <1>1, RefusalStep

LEMMA GoneStep ==
    ASSUME TransportInv, LeaseInv, RefusalInv, NEW w \in Worker, UNCHANGED <<ledger, overrun, refused, minted>>,
           shut \subseteq shut', Moves(w), Calls(w), Has(w), tab'[w].pc \notin Underway,
           \A c \in Command : stored'[c] # "none" => stored[c] # "none"
    PROVE  RefusalInv'
  BY PlainStep DEF Unminted, First, New, Underway

LEMMA FallbackGone ==
    ASSUME TransportInv, LeaseInv, RefusalInv, NEW w \in Worker, NEW confirmed \in BOOLEAN, NEW keep \in BOOLEAN,
           Fallback(w, confirmed, keep), UNCHANGED <<ledger, store, session, history>>
    PROVE  RefusalInv'
<1>1. Moves(w) /\ tab'[w].pc \notin Underway /\ Has(w)
  BY Gone DEF Fallback, DurableRecovery, OverHttp
<1>2. Calls(w)
  <2>1. \A c \in {tab[w].cmd} : tab[w].has => Kept(c)'
    <3>1. tab[w].has => Kept(tab[w].cmd)
      BY DEF TransportInv, TabOK
    <3>. QED BY <3>1 DEF Kept, store, history
  <2>. QED BY <2>1, FallbackMoves DEF history
<1>. QED BY <1>1, <1>2, GoneStep DEF store, session, history

\* A new command's frame is written when nothing else is under way for it.
LEMMA FrameSent ==
    ASSUME TransportInv, RefusalInv, NEW w \in Worker, First(w), tab[w].pc \in {"mark", "retry"},
           UNCHANGED <<ledger, overrun>>, shut' = shut, Moves(w),
           tab'[w].pc = "await", tab'[w].has = tab[w].has, tab'[w].cmd = tab[w].cmd,
           tab'[w].mode = tab[w].mode, tab'[w].asked = "COMMAND" => tab[w].pc = "mark" \/ tab[w].asked = "COMMAND",
           NEW kind \in {"COMMAND", "STATUS"}, calls' = calls \cup {Call(w, tab[w].cmd, kind)}
    PROVE  First(w)'
<1> SUFFICES ASSUME New(w)', Home[tab'[w].cmd] \notin overrun' PROVE First(w)'
  BY DEF First
<1>1. New(w) /\ Home[tab[w].cmd] \notin overrun
  BY DEF New
<1>2. Awaited(w) = {}
  BY NoneAwaited
<1>3. /\ tab[w].has /\ Home[tab[w].cmd] = w /\ holder[tab[w].cmd] = 0
      /\ \A v \in Worker \ {w} : tab[v].has => tab[v].cmd # tab[w].cmd
      /\ \A k \in calls : k.cmd # tab[w].cmd
  BY <1>1, <1>2 DEF First, Awaited
<1>4. Awaited(w)' = {Call(w, tab[w].cmd, kind)}
  BY <1>2 DEF Awaited, Call
<1>5. UNCHANGED <<holder, overrun>>
  BY DEF ledger
<1>. QED BY <1>3, <1>4, <1>5 DEF First, Moves, Call

LEMMA SyncRefusal ==
    ASSUME TransportInv, LeaseInv, RefusalInv, NEW w \in Worker, Sync(w) \/ ExecuteStarts(w)
    PROVE  RefusalInv'
<1>1. UNCHANGED <<ledger, overrun, shut, refused, minted, stored>>
  BY DEF Sync, SyncStarts, RecoverEmpty, RecoverDeferred, RecoverAdopts, RecoverOverHttp, SyncEnds,
         ExecuteBlocked, ExecuteStarts, store, session, history
<1>2. CASE SyncStarts(w) \/ RecoverEmpty(w) \/ SyncEnds(w) \/ RecoverDeferred(w) \/ ExecuteBlocked(w)
  <2>1. calls' = calls /\ tab[w].pc \in {"idle", "recover", "fresh"} /\ \E at \in {"idle", "recover", "fresh"} : Goto(w, at)
    BY <1>2 DEF SyncStarts, RecoverEmpty, RecoverDeferred, SyncEnds, ExecuteBlocked, At
  <2>. QED BY <1>1, <2>1, Gone, CallsStay, GoneStep
<1>3. CASE RecoverAdopts(w) \/ RecoverOverHttp(w)
  <2>1. PICK at \in {"dial", "http"} :
          /\ tab' = [tab EXCEPT ![w] = Recovering(w, Oldest(w), at)] /\ tab[w].pc = "recover" /\ Adoptable(w) # {}
          /\ calls' = IF at = "http" THEN calls \cup {Call(w, Oldest(w), "HTTP")} ELSE calls
    BY <1>3 DEF RecoverAdopts, RecoverOverHttp, Become, At
  <2>2. Moves(w) /\ tab'[w].has /\ tab'[w].pc = at /\ tab'[w].cmd = Oldest(w)
    BY <2>1 DEF Moves, TransportInv, Recovering
  <2>3. Calls(w) /\ Has(w)
    BY <2>1, <2>2, CallsStay, CallsBegin, OldestAdoptable DEF Has
  <2>4. Unminted(w)' /\ First(w)'
    BY <2>2 DEF Unminted, First, New
  <2>. QED BY <1>1, <2>2, <2>3, <2>4, PlainStep
<1>4. CASE ExecuteStarts(w)
  <2>1. PICK c \in Command \ Minted :
          tab' = [tab EXCEPT ![w] = [Vacant("dial") EXCEPT !.mode = "execute", !.cmd = c, !.slot = TRUE]]
    BY <1>4 DEF ExecuteStarts, Become
  <2>2. Moves(w) /\ Has(w) /\ tab'[w].pc = "dial" /\ tab'[w].cmd = c
    BY <2>1 DEF Moves, TransportInv, Vacant, Has
  <2>3. Unminted(w)' /\ First(w)'
    BY <1>1, <2>2 DEF Unminted, First, New, Minted
  <2>4. Calls(w)
    BY <1>4, CallsStay DEF ExecuteStarts, At
  <2>. QED BY <1>1, <2>2, <2>3, <2>4, PlainStep
<1>. QED BY <1>2, <1>3, <1>4 DEF Sync

\* The lane is lost while the request stands, or goes back to dial.
LEMMA SocketClosesRefusal ==
    ASSUME TransportInv, LeaseInv, RefusalInv, NEW w \in Worker, SocketCloses(w)
    PROVE  RefusalInv'
<1>1. UNCHANGED <<ledger, overrun, shut, refused, minted, stored>>
  BY DEF SocketCloses, store, session, history
<1>2. CASE tab[w].slot
  <2>1. PICK at : /\ tab' = [tab EXCEPT ![w] = [tab[w] EXCEPT !.pc = at]] /\ calls' = Unheard(w)
                  /\ (at = tab[w].pc /\ at \notin {"await", "retry"}) \/ (at = "dial" /\ tab[w].has)
    BY <1>2 DEF SocketCloses, Goto, Become, TransportInv, TabOK
  <2>2. /\ Moves(w) /\ tab'[w].pc = at /\ tab'[w].has = tab[w].has /\ tab'[w].cmd = tab[w].cmd
        /\ tab'[w].mode = tab[w].mode
    BY <2>1 DEF Moves, TransportInv, TabOK, Tab
  <2>3. Calls(w) /\ Has(w) /\ Unminted(w)'
    BY <1>1, <2>1, <2>2, CallsEnd DEF Has, RefusalInv, Unminted, Minted
  <2>4. First(w)'
    <3> SUFFICES ASSUME New(w)', Home[tab'[w].cmd] \notin overrun' PROVE First(w)'
      BY DEF First
    <3>1. New(w) /\ tab[w].pc = "mark" /\ Home[tab[w].cmd] \notin overrun /\ First(w)
      BY <1>1, <2>1, <2>2 DEF New, RefusalInv
    <3>2. Awaited(w) = {}
      BY <3>1, NoneAwaited
    <3>3. calls' = calls
      BY <2>1, <3>2 DEF Unheard, Awaited
    <3>4. UNCHANGED <<holder, overrun>>
      BY <1>1 DEF ledger
    <3>. QED BY <2>2, <3>1, <3>3, <3>4 DEF First, Moves, Awaited
  <2>. QED BY <1>1, <2>2, <2>3, <2>4, PlainStep
<1>3. CASE ~tab[w].slot
  <2>1. tab' = tab /\ calls' = calls /\ tab[w].pc \notin Underway
    BY <1>3 DEF SocketCloses, LeaseInv, SlotTaken
  <2>2. Moves(w) /\ Calls(w) /\ Has(w)
    BY <2>1, CallsStay DEF Moves, Has, TransportInv
  <2>. QED BY <1>1, <2>1, <2>2, GoneStep
<1>. QED BY <1>2, <1>3

\* The record is written: nothing can be under way for a command that had none.
LEMMA StoreRefusal ==
    ASSUME TransportInv, LeaseInv, RefusalInv, NEW w \in Worker, Store(w)
    PROVE  RefusalInv'
<1> DEFINE c == tab[w].cmd
<1>1. /\ UNCHANGED <<ledger, overrun, shut, refused, calls>> /\ tab[w].pc = "store" /\ c \in Command /\ Home[c] = w
      /\ minted' \in {minted, Append(minted, c)} /\ stored' = [stored EXCEPT ![c] = "stored"]
  BY DEF Store, Put, session, history, TransportInv, TabOK
<1>2. PICK at \in {"idle", "mark", "dial"} : tab' = [tab EXCEPT ![w] = [tab[w] EXCEPT !.pc = at, !.has = TRUE]]
  BY DEF Store, Become
<1>3. Moves(w) /\ tab'[w].has /\ tab'[w].cmd = c /\ tab'[w].pc = at
  BY <1>2 DEF Moves, TransportInv, TabOK, Tab
<1>4. Has(w) /\ Writes(w)
  <2>1. \A d \in Minted' : d \in Minted \/ d = c
    BY <1>1 DEF Minted, TransportInv, StoreOK
  <2>. QED BY <1>1, <1>3, <2>1 DEF Has, Writes, TransportInv, StoreOK
<1>5. ~Kept(c) /\ holder[c] = 0
  BY <1>1 DEF RefusalInv, Unminted, TransportInv, StoreOK, LedgerOK
<1>6. First(w)'
  <2>1. \A k \in calls : k.cmd # c
    BY <1>5 DEF TransportInv, CallOK
  <2>2. \A v \in Worker \ {w} : tab[v].has => tab[v].cmd # c
    BY <1>5 DEF TransportInv, TabOK
  <2>3. Awaited(w) = {}
    BY <1>1, NoneAwaited
  <2>4. Awaited(w)' = {} /\ UNCHANGED holder
    BY <1>1, <2>3 DEF Awaited, ledger
  <2>. QED BY <1>1, <1>3, <1>5, <2>1, <2>2, <2>4 DEF First, Moves
<1>7. Unminted(w)' /\ Calls(w)
  BY <1>1, <1>3, CallsStay DEF Unminted
<1>. QED BY <1>1, <1>3, <1>4, <1>6, <1>7, RefusalStep

LEMMA MarkRefusal ==
    ASSUME TransportInv, LeaseInv, RefusalInv, NEW w \in Worker, MarkAndSend(w)
    PROVE  RefusalInv'
<1> DEFINE c == tab[w].cmd
<1>1. /\ UNCHANGED <<ledger, overrun, shut, refused>> /\ tab[w].pc = "mark" /\ tab[w].has /\ c \in Command
      /\ stored' = [stored EXCEPT ![c] = "dispatched"] /\ minted' = minted /\ First(w)
  BY DEF MarkAndSend, Put, session, history, TransportInv, TabOK, StoreOK, RefusalInv
<1>2. Writes(w)
  BY <1>1 DEF Writes, Minted, TransportInv, StoreOK
<1>3. CASE w \notin shut /\ link[w] = "up"
  <2>1. /\ tab' = [tab EXCEPT ![w] = [tab[w] EXCEPT !.pc = "await", !.asked = "COMMAND", !.sent = TRUE]]
        /\ calls' = calls \cup {Call(w, c, "COMMAND")}
    BY <1>3 DEF MarkAndSend, Become
  <2>2. /\ Moves(w) /\ tab'[w].has = tab[w].has /\ tab'[w].cmd = c /\ tab'[w].pc = "await"
        /\ tab'[w].mode = tab[w].mode
    BY <2>1 DEF Moves, TransportInv, TabOK, Tab
  <2>3. First(w)'
    BY <1>1, <2>1, <2>2, FrameSent
  <2>4. Calls(w) /\ Has(w) /\ Unminted(w)'
    BY <1>1, <2>1, <2>2, CallsBegin DEF Has, Unminted
  <2>. QED BY <1>1, <1>2, <2>2, <2>3, <2>4, RefusalStep
<1>4. CASE ~(w \notin shut /\ link[w] = "up")
  <2>1. PICK at \in {"idle", "dial"} : tab' = [tab EXCEPT ![w] = [tab[w] EXCEPT !.pc = at]] /\ calls' = calls
    BY <1>4 DEF MarkAndSend, Goto, Become
  <2>2. Moves(w) /\ tab'[w].has = tab[w].has /\ tab'[w].cmd = c /\ tab'[w].pc = at
    BY <2>1 DEF Moves, TransportInv, TabOK, Tab
  <2>3. Calls(w) /\ Has(w) /\ Unminted(w)' /\ First(w)'
    BY <1>1, <2>1, <2>2, CallsStay DEF Has, Unminted, First, New
  <2>. QED BY <1>1, <1>2, <2>2, <2>3, RefusalStep
<1>. QED BY <1>3, <1>4

LEMMA SurrenderRefusal ==
    ASSUME TransportInv, LeaseInv, RefusalInv, NEW w \in Worker, Surrender(w)
    PROVE  RefusalInv'
<1>1. UNCHANGED <<ledger, overrun, shut, refused, settled, unknown>>
  BY DEF Surrender, session, history
<1>2. /\ tab[w].pc \in {"store", "mark"} => tab[w].cmd \in Command
      /\ tab[w].pc = "mark" => tab[w].cmd \in Minted
  BY DEF TransportInv, TabOK, StoreOK
<1>3. Writes(w) /\ \A c \in {tab[w].cmd} : tab[w].has => Kept(c)'
  <2>1. CASE UNCHANGED <<stored, minted>>
    <3>1. tab[w].has => Kept(tab[w].cmd)
      BY DEF TransportInv, TabOK
    <3>. QED BY <1>1, <2>1, <3>1 DEF Writes, Minted, Kept
  <2>2. ASSUME NEW as \in {"stored", "dispatched"}, stored' = [stored EXCEPT ![tab[w].cmd] = as],
               \/ tab[w].pc = "mark" /\ minted' = minted
               \/ tab[w].pc = "store" /\ minted' = Append(minted, tab[w].cmd)
        PROVE  Writes(w) /\ \A c \in {tab[w].cmd} : tab[w].has => Kept(c)'
    <3>1. stored'[tab[w].cmd] # "none" /\ \A c \in Command \ {tab[w].cmd} : stored'[c] = stored[c]
      BY <1>2, <2>2 DEF TransportInv, StoreOK
    <3>2. \A c \in Minted' : c \in Minted \/ (tab[w].pc = "store" /\ c = tab[w].cmd)
      BY <2>2 DEF Minted, TransportInv, StoreOK
    <3>. QED BY <2>2, <3>1, <3>2 DEF Writes, Kept
  <2>3. CASE tab[w].pc = "mark" /\ stored' = [stored EXCEPT ![tab[w].cmd] = "dispatched"] /\ UNCHANGED minted
    BY <2>2, <2>3
  <2>4. CASE tab[w].pc = "store" /\ stored' = [stored EXCEPT ![tab[w].cmd] = "stored"] /\ minted' = Append(minted, tab[w].cmd)
    BY <2>2, <2>4
  <2>. QED BY <2>1, <2>3, <2>4 DEF Surrender
<1>4. Moves(w) /\ Calls(w) /\ Has(w) /\ tab'[w].pc \notin Underway
  <2>1. CASE Delivered(w) /\ SlotFreed(w)
    <3>1. tab[w].pc \in {"result", "ack", "stuck"} /\ calls' = calls
      BY <2>1 DEF Delivered, SlotFreed
    <3>2. Become(w, Vacant("idle")) \/ tab' = [tab EXCEPT ![w] = [tab[w] EXCEPT !.slot = FALSE]]
      BY <2>1 DEF SlotFreed, Become
    <3>3. CASE tab' = [tab EXCEPT ![w] = [tab[w] EXCEPT !.slot = FALSE]]
      BY <3>1, <3>3, CallsStay DEF Moves, TransportInv, TabOK, Tab, Underway, Has
    <3>. QED BY <3>1, <3>2, <3>3, Gone, CallsStay
  <2>2. CASE Fallback(w, FALSE, FALSE)
    <3>1. Calls(w)
      BY <1>1, <1>3, <2>2, FallbackMoves
    <3>. QED BY <2>2, <3>1, Gone DEF Fallback, DurableRecovery, OverHttp
  <2>3. CASE ~tab[w].slot /\ UNCHANGED <<tab, calls>>
    BY <2>3, CallsStay DEF LeaseInv, SlotTaken, Moves, TransportInv, Has
  <2>. QED BY <2>1, <2>2, <2>3 DEF Surrender
<1>. QED BY <1>1, <1>3, <1>4, RefusalStep DEF Unminted, First, New, Underway

\* A request that stands where its first frame is not under way is not new.
LEMMA ParkedRefusal ==
    ASSUME TransportInv, LeaseInv, RefusalInv, NEW w \in Worker, tab[w].pc \in {"await", "refresh"},
           UNCHANGED <<ledger, store, session, history>>, calls' = calls \ Awaited(w), Moves(w),
           tab'[w].pc \in {"dial", "refresh"}, tab'[w].has = tab[w].has, tab'[w].cmd = tab[w].cmd
    PROVE  RefusalInv'
<1>1. UNCHANGED <<ledger, overrun, shut, refused, minted, stored>> /\ tab[w].has
  BY DEF store, session, history, TransportInv, TabOK
<1>2. Has(w) /\ Unminted(w)' /\ First(w)'
  BY <1>1 DEF Has, Unminted, First, New
<1>. QED BY <1>1, <1>2, CallsEnd, PlainStep

LEMMA ReticketRefusal ==
    ASSUME TransportInv, LeaseInv, RefusalInv, NEW w \in Worker, tab[w].pc \in {"await", "refresh"}, Reticket(w),
           UNCHANGED <<ledger, store, session, history>>
    PROVE  RefusalInv'
<1>1. UNCHANGED <<settled, unknown, refused>>
  BY DEF history
<1>2. /\ Moves(w) /\ tab' = [tab EXCEPT ![w] = [tab[w] EXCEPT !.pc = "dial", !.reticketed = TRUE]]
      /\ tab[w] \in Tab /\ w \in DOMAIN tab
  BY <1>1, ReticketMoves DEF TransportInv
<1>3. tab'[w].pc = "dial" /\ tab'[w].has = tab[w].has /\ tab'[w].cmd = tab[w].cmd
  BY <1>2 DEF Tab
<1>. QED BY <1>2, <1>3, ParkedRefusal DEF Reticket

LEMMA SocketRefusal ==
    ASSUME TransportInv, LeaseInv, RefusalInv, NEW w \in Worker, Socket(w)
    PROVE  RefusalInv'
<1>1. CASE DialTaken(w) \/ PutRefused(w)
  BY <1>1, FallbackGone DEF DialTaken, PutRefused
<1>9. CASE RefreshFails(w)
  BY <1>9, ReticketRefusal, FallbackGone DEF RefreshFails, At
<1>2. CASE Dial(w)
  <2>1. UNCHANGED <<ledger, overrun, shut, refused, minted, stored, tab, calls>> /\ tab[w].pc = "dial"
    BY <1>2 DEF Dial, At, store, session, history
  <2>2. Moves(w) /\ Has(w) /\ Unminted(w)' /\ First(w)'
    BY <2>1 DEF Moves, TransportInv, Has, RefusalInv, Unminted, Minted, First, New
  <2>. QED BY <2>1, <2>2, CallsStay, PlainStep
<1>3. CASE PrepareStatus(w) \/ Refreshed(w)
  <2>1. /\ UNCHANGED <<ledger, overrun, shut, refused, minted, stored>> /\ tab[w].pc \in {"dial", "refresh"} /\ tab[w].has
        /\ tab' = [tab EXCEPT ![w] = [tab[w] EXCEPT !.pc = "await", !.asked = "STATUS"]]
        /\ calls' = calls \cup {Call(w, tab[w].cmd, "STATUS")}
    BY <1>3 DEF PrepareStatus, Refreshed, Send, Become, At, TransportInv, TabOK, store, session, history
  <2>2. Moves(w) /\ tab'[w].pc = "await" /\ tab'[w].has /\ tab'[w].cmd = tab[w].cmd /\ tab'[w].asked = "STATUS"
    BY <2>1 DEF Moves, TransportInv, TabOK, Tab
  <2>3. Calls(w) /\ Has(w) /\ Unminted(w)' /\ First(w)'
    BY <2>1, <2>2, CallsBegin DEF Has, Unminted, First, New
  <2>. QED BY <2>1, <2>2, <2>3, PlainStep
<1>4. CASE PrepareStale(w)
  <2>1. UNCHANGED <<ledger, overrun, shut, refused, minted, stored, calls>> /\ Become(w, Vacant("idle")) /\ tab[w].pc = "dial"
    BY <1>4 DEF PrepareStale, At, store, session, history
  <2>. QED BY <2>1, Gone, CallsStay, GoneStep
<1>5. CASE PrepareStore(w)
  <2>1. /\ UNCHANGED <<ledger, overrun, shut, refused, minted, stored, calls>> /\ tab[w].pc = "dial" /\ ~tab[w].has
        /\ tab' = [tab EXCEPT ![w] = [tab[w] EXCEPT !.pc = "store"]]
    BY <1>5 DEF PrepareStore, Goto, Become, At, store, session, history
  <2>2. Moves(w) /\ tab'[w].pc = "store" /\ ~tab'[w].has /\ tab'[w].cmd = tab[w].cmd
    BY <2>1 DEF Moves, TransportInv, TabOK, Tab
  <2>3. Calls(w) /\ Has(w) /\ Unminted(w)' /\ First(w)'
    BY <2>1, <2>2, CallsStay DEF Has, RefusalInv, Unminted, Minted, First, New
  <2>. QED BY <2>1, <2>2, <2>3, PlainStep
<1>6. CASE Retry(w)
  <2>1. /\ UNCHANGED <<ledger, overrun, shut, refused, minted, stored>> /\ tab[w].pc = "retry" /\ tab[w].has
        /\ tab[w].asked \in {"COMMAND", "STATUS"}
        /\ tab' = [tab EXCEPT ![w] = [tab[w] EXCEPT !.pc = "await", !.asked = tab[w].asked]]
        /\ calls' = calls \cup {Call(w, tab[w].cmd, tab[w].asked)}
    BY <1>6 DEF Retry, Send, Become, At, TransportInv, TabOK, Tab, store, session, history
  <2>2. /\ Moves(w) /\ tab'[w].pc = "await" /\ tab'[w].has = tab[w].has /\ tab'[w].cmd = tab[w].cmd
        /\ tab'[w].asked = tab[w].asked /\ tab'[w].mode = tab[w].mode
    BY <2>1 DEF Moves, TransportInv, TabOK, Tab
  <2>3. First(w)'
    BY <2>1, <2>2, FrameSent DEF RefusalInv
  <2>4. Calls(w)
    <3>1. \E kind \in {"COMMAND", "STATUS", "HTTP"} : calls' = calls \cup {Call(w, tab'[w].cmd, kind)}
      BY <2>1, <2>2
    <3>. QED BY <2>1, <2>2, <3>1, CallsBegin
  <2>5. Has(w) /\ Unminted(w)'
    BY <2>1, <2>2 DEF Has, Unminted
  <2>. QED BY <2>1, <2>2, <2>3, <2>4, <2>5, PlainStep
<1>7. CASE AckDeadline(w)
  BY <1>7, SocketClosesRefusal DEF AckDeadline
<1>8. CASE Redial(w)
  <2>1. UNCHANGED <<ledger, overrun, shut, refused, minted, stored>> /\ tab[w].pc \in {"result", "ack", "stuck"}
        /\ calls' = calls
    BY <1>8 DEF Redial, Delivered, SlotFreed, store, session, history
  <2>2. Moves(w) /\ tab'[w].pc \notin Underway /\ Has(w)
    <3>1. tab' = tab \/ Become(w, Vacant("idle")) \/ tab' = [tab EXCEPT ![w] = [tab[w] EXCEPT !.slot = FALSE]]
      BY <1>8 DEF Redial, SlotFreed, Become
    <3>2. CASE tab' = [tab EXCEPT ![w] = [tab[w] EXCEPT !.slot = FALSE]]
      BY <2>1, <3>2 DEF Moves, TransportInv, TabOK, Tab, Underway, Has
    <3>3. CASE tab' = tab
      BY <2>1, <3>3 DEF Moves, TransportInv, Underway, Has
    <3>. QED BY <3>1, <3>2, <3>3, Gone
  <2>. QED BY <2>1, <2>2, CallsStay, GoneStep
<1>. QED BY <1>1, <1>2, <1>3, <1>4, <1>5, <1>6, <1>7, <1>8, <1>9, StoreRefusal, MarkRefusal, SurrenderRefusal DEF Socket

LEMMA AnswerRefusal ==
    ASSUME TransportInv, LeaseInv, RefusalInv, NEW w \in Worker, Answer(w)
    PROVE  RefusalInv'
<1>1. UNCHANGED <<ledger, overrun, shut, refused, minted>>
  BY DEF Answer, Committed, StatusUnknown, StatusAccepted, Voided, HttpOk, HttpVoided, PlainDone, Persist,
         CheckpointCleared, CheckpointFailed, Quarantine, Fallback, DropRecord, store, session, history
<1>2. CASE UNCHANGED <<store, session, history>> /\ \E confirmed, keep \in BOOLEAN : Fallback(w, confirmed, keep)
  BY <1>1, <1>2, FallbackGone
<1>3. ASSUME NEW at \in {"idle", "recover", "fresh", "result", "ack", "stuck"}, Goto(w, at) \/ Become(w, Vacant(at)),
             Calls(w), \A c \in Command : stored'[c] # "none" => stored[c] # "none"
      PROVE  RefusalInv'
  BY <1>1, <1>3, Gone, GoneStep
<1>4. CASE Committed(w) /\ Goto(w, "result") /\ calls' = calls \ Awaited(w)
  BY <1>3, <1>4, CallsEnd DEF Committed, store
<1>5. CASE Voided(w) \/ (Committed(w) /\ Fallback(w, TRUE, TRUE))
  BY <1>2, <1>5 DEF Voided, Committed
<1>6. CASE StatusUnknown(w)
  <2>1. CASE tab[w].cmd \in socketOnly
    <3>1. PICK at \in {"idle", "fresh"} : Become(w, Vacant(at))
      BY <1>6, <2>1 DEF StatusUnknown
    <3>2. DropRecord(w, tab[w].cmd) /\ calls' = calls \ Awaited(w)
      BY <1>6, <2>1 DEF StatusUnknown
    <3>3. \A c \in Command : stored'[c] # "none" => stored[c] # "none"
      BY <3>2 DEF DropRecord, TransportInv, StoreOK
    <3>. QED BY <1>3, <3>1, <3>2, <3>3, CallsEnd
  <2>2. CASE tab[w].cmd \notin socketOnly
    BY <1>2, <1>6, <2>2 DEF StatusUnknown
  <2>. QED BY <2>1, <2>2
<1>7. CASE StatusAccepted(w)
  <2>1. UNCHANGED <<tab, store>> /\ calls' = calls \ Awaited(w)
    BY <1>7 DEF StatusAccepted
  <2>2. Moves(w) /\ Has(w) /\ Unminted(w)'
    BY <2>1 DEF Moves, TransportInv, Has, RefusalInv, Unminted, Minted, store
  <2>3. First(w)'
    <3>1. First(w) /\ Awaited(w)' = {} /\ calls' \subseteq calls
      BY <2>1 DEF RefusalInv, Awaited
    <3>. QED BY <1>1, <2>1, <3>1 DEF First, New, ledger
  <2>. QED BY <1>1, <2>1, <2>2, <2>3, CallsEnd, PlainStep DEF store
<1>8. CASE HttpOk(w)
  BY <1>3, <1>8, CallsEnd DEF HttpOk, store
<1>9. CASE HttpVoided(w)
  BY <1>3, <1>9, CallsEnd DEF HttpVoided, store
<1>10. CASE PlainDone(w) \/ Persist(w)
  BY <1>3, <1>10, CallsStay DEF PlainDone, Persist, At, store
<1>11. CASE CheckpointCleared(w)
  <2>1. PICK at \in {"idle", "recover"} : Become(w, Vacant(at))
    BY <1>11 DEF CheckpointCleared
  <2>2. calls' = calls /\ tab[w].pc = "ack" /\ stored' = [stored EXCEPT ![tab[w].cmd] = "none"]
    BY <1>11 DEF CheckpointCleared, DropRecord, At
  <2>3. \A c \in Command : stored'[c] # "none" => stored[c] # "none"
    BY <2>2 DEF TransportInv, StoreOK
  <2>. QED BY <1>3, <2>1, <2>2, <2>3, CallsStay
<1>12. CASE CheckpointFailed(w)
  BY <1>3, <1>12, CallsStay DEF CheckpointFailed, Unsettled, At, store
<1>13. CASE Quarantine(w)
  <2>1. UNCHANGED <<tab, stored>> /\ calls' = Unheard(w) /\ w \in shut
    BY <1>13 DEF Quarantine
  <2>2. Moves(w) /\ Has(w) /\ Unminted(w)' /\ First(w)'
    BY <1>1, <2>1 DEF Moves, TransportInv, Has, RefusalInv, Unminted, Minted, First, New
  <2>. QED BY <1>1, <2>1, <2>2, CallsEnd, PlainStep
<1>14. Committed(w) => (Goto(w, "result") /\ calls' = calls \ Awaited(w)) \/ Fallback(w, TRUE, TRUE)
  BY DEF Committed
<1>. QED BY <1>4, <1>5, <1>6, <1>7, <1>8, <1>9, <1>10, <1>11, <1>12, <1>13, <1>14 DEF Answer

LEMMA RefusedOverHttpRefusal ==
    ASSUME TransportInv, LeaseInv, RefusalInv, NEW w \in Worker, At(w, "await"), RefusedOverHttp(w),
           UNCHANGED <<ledger, overrun, shut, refused, minted, stored>>
    PROVE  RefusalInv'
<1>1. tab[w].has /\ tab[w] \in Tab /\ DOMAIN tab = Worker
  BY DEF At, TransportInv, TabOK
<1>2. tab'[w].has /\ tab'[w].cmd = tab[w].cmd /\ tab'[w].pc = "http"
  BY <1>1 DEF RefusedOverHttp, Become, Tab
<1>3. Calls(w)
  BY <1>2, CallsBegin DEF RefusedOverHttp
<1>. QED BY <1>3, Gone, GoneStep DEF RefusedOverHttp

\* The refused call is all that was under way, and its record goes with it.
LEMMA RefusedRefusal ==
    ASSUME TransportInv, LeaseInv, RefusalInv, NEW w \in Worker, Refused(w) \/ FenceRefused(w)
    PROVE  RefusalInv'
<1>1. /\ UNCHANGED <<ledger, overrun, shut, settled, unknown>> /\ At(w, "await") /\ ProvesUnapplied(w)
      /\ tab[w].has /\ tab[w].cmd \in Command
  BY DEF Refused, FenceRefused, At, TransportInv, TabOK, session
<1>2. PICK k \in Awaited(w) : k.acc = 0 \/ fate[k.acc] = "void"
  BY DEF Refused, FenceRefused
<1>3. CASE DropRecord(w, tab[w].cmd) /\ refused' = refused \cup {tab[w].cmd} /\ Become(w, Vacant("idle"))
           /\ calls' = calls \ Awaited(w)
  <2>1. Moves(w) /\ tab'[w].pc \notin Underway /\ Has(w) /\ ~tab'[w].has
    BY <1>3, Gone DEF Become, Vacant, TransportInv
  <2>2. stored' = [stored EXCEPT ![tab[w].cmd] = "none"] /\ minted' = minted /\ DOMAIN stored = Command
    BY <1>3 DEF DropRecord, TransportInv, StoreOK
  <2>3. Writes(w)
    BY <2>2 DEF Writes, Minted
  <2>4. ASSUME NEW c \in {tab[w].cmd} PROVE Over(c)'
    <3> SUFFICES ASSUME Home[c] \notin overrun PROVE Over(c)'
      BY <1>1 DEF Over
    <3>1. New(w) /\ First(w)
      BY <1>1 DEF At, ProvesUnapplied, New, RefusalInv
    <3>2. ~Applied(c)'
      BY <1>1, <1>2, <3>1 DEF First, Applied, ledger
    <3>3. \A q \in calls' : q.cmd # c
      BY <1>3, <3>1 DEF First, Awaited
    <3>4. \A v \in Worker : tab'[v].has => tab'[v].cmd # c
      BY <2>1, <3>1 DEF First, Moves
    <3>. QED BY <2>2, <3>2, <3>3, <3>4, <1>1 DEF Over
  <2>5. \A c \in refused' : c \in refused \/ (c \in Command /\ Over(c)')
    BY <1>1, <1>3, <2>4
  <2>6. Unminted(w)' /\ First(w)'
    BY <2>1 DEF Unminted, First, New, Underway
  <2>. QED BY <1>1, <1>3, <2>1, <2>3, <2>5, <2>6, CallsEnd, RefusalStep
<1>4. CASE RefusedOverHttp(w) /\ UNCHANGED <<store, refused>>
  BY <1>1, <1>4, RefusedOverHttpRefusal DEF store
<1>. QED BY <1>3, <1>4 DEF Refused, FenceRefused

LEMMA RetryLaterRefusal ==
    ASSUME TransportInv, LeaseInv, RefusalInv, NEW w \in Worker, Busy(w) \/ BackendTimeout(w)
    PROVE  RefusalInv'
<1>1. /\ UNCHANGED <<ledger, overrun, shut, refused, minted, stored>> /\ At(w, "await")
      /\ calls' \in {calls \ Awaited(w), Unheard(w)}
  BY DEF Busy, BackendTimeout, store, session, history
<1>2. PICK asked \in {tab[w].asked, "STATUS"} :
        /\ tab' = [tab EXCEPT ![w] = [tab[w] EXCEPT !.pc = "retry", !.asked = asked]]
        /\ asked = "STATUS" \/ (calls' = calls \ Awaited(w) /\ \E k \in Awaited(w) : k.acc = 0)
  <2>1. [tab[w] EXCEPT !.pc = "retry"] = [tab[w] EXCEPT !.pc = "retry", !.asked = tab[w].asked]
    BY DEF TransportInv, TabOK, Tab
  <2>. QED BY <2>1 DEF Busy, BackendTimeout, Goto, Become
<1>3. /\ Moves(w) /\ tab'[w].pc = "retry" /\ tab'[w].has = tab[w].has /\ tab'[w].cmd = tab[w].cmd
      /\ tab'[w].mode = tab[w].mode /\ tab'[w].asked = asked
  BY <1>2 DEF Moves, TransportInv, TabOK, Tab
<1>4. First(w)'
  <2> SUFFICES ASSUME New(w)', Home[tab[w].cmd] \notin overrun PROVE First(w)'
    BY <1>1, <1>3 DEF First
  <2>1. asked = "COMMAND" /\ New(w) /\ First(w)
    BY <1>1, <1>2, <1>3 DEF New, At, RefusalInv
  <2>2. holder[tab[w].cmd] = 0 /\ Awaited(w)' = {} /\ calls' \subseteq calls
    BY <1>2, <2>1 DEF First, Awaited
  <2>. QED BY <1>1, <1>3, <2>1, <2>2 DEF First, Moves, ledger
<1>5. Has(w) /\ Unminted(w)' /\ Calls(w)
  BY <1>1, <1>3, CallsEnd DEF Has, Unminted
<1>. QED BY <1>1, <1>3, <1>4, <1>5, PlainStep

LEMMA TroubleRefusal ==
    ASSUME TransportInv, LeaseInv, RefusalInv, NEW w \in Worker, Trouble(w)
    PROVE  RefusalInv'
<1>1. CASE DialFails(w) \/ PrepareUnavailable(w) \/ ServerKill(w)
  <2>1. UNCHANGED <<ledger, store, session, history>> /\ \E confirmed, keep \in BOOLEAN : Fallback(w, confirmed, keep)
    BY <1>1 DEF DialFails, PrepareUnavailable, ServerKill
  <2>. QED BY <2>1, FallbackGone
<1>2. CASE HttpFails(w) \/ Crash(w)
  <2>1. /\ UNCHANGED <<ledger, store, session, history>> /\ calls' = Unheard(w)
        /\ \E at \in {"idle", "off"} : Become(w, Vacant(at))
    BY <1>2 DEF HttpFails, Crash
  <2>. QED BY <2>1, CallsEnd, Gone, GoneStep DEF store, session, history
<1>3. CASE PersistFails(w)
  <2>1. /\ UNCHANGED <<ledger, store, session, history, calls>> /\ tab[w].pc = "result"
        /\ Goto(w, "stuck") \/ Become(w, Vacant("idle"))
    BY <1>3 DEF PersistFails, Unsettled, At
  <2>. QED BY <2>1, CallsStay, Gone, GoneStep DEF store, session, history
<1>4. CASE RevokeStarts(w)
  <2>1. UNCHANGED <<ledger, store, history, tab, calls>> /\ w \in shut' /\ shut \subseteq shut'
    BY <1>4 DEF RevokeStarts
  <2>2. Moves(w) /\ Has(w) /\ Unminted(w)' /\ First(w)'
    BY <2>1 DEF Moves, TransportInv, Has, RefusalInv, Unminted, Minted, First, New, store
  <2>. QED BY <2>1, <2>2, CallsStay, PlainStep DEF store, history
<1>5. CASE SocketLost(w)
  BY <1>5, SocketClosesRefusal DEF SocketLost
<1>6. CASE LiveSyncDisabled(w)
  <2>1. UNCHANGED <<ledger, overrun, shut, refused, minted, stored>> /\ At(w, "await")
    BY <1>6 DEF LiveSyncDisabled, RefusedEarly, store, session, history
  <2>2. CASE Become(w, Vacant("idle")) /\ calls' = calls \ Awaited(w)
    BY <2>1, <2>2, CallsEnd, Gone, GoneStep
  <2>. QED BY <1>6, <2>1, <2>2, RefusedOverHttpRefusal DEF LiveSyncDisabled
<1>7. CASE SessionStale(w)
  <2>1. UNCHANGED <<ledger, store, session, history>> /\ tab[w].pc = "await"
    BY <1>7 DEF SessionStale, RefusedEarly, At
  <2>2. CASE Goto(w, "refresh") /\ calls' = calls \ Awaited(w)
    <3>1. tab' = [tab EXCEPT ![w] = [tab[w] EXCEPT !.pc = "refresh"]]
      BY <2>2 DEF Goto, Become
    <3>2. Moves(w) /\ tab'[w].pc = "refresh" /\ tab'[w].has = tab[w].has /\ tab'[w].cmd = tab[w].cmd
      BY <3>1 DEF Moves, TransportInv, TabOK, Tab
    <3>. QED BY <2>1, <2>2, <3>2, ParkedRefusal
  <2>. QED BY <1>7, <2>1, <2>2, ReticketRefusal DEF SessionStale
<1>. QED BY <1>1, <1>2, <1>3, <1>4, <1>5, <1>6, <1>7, RefusedRefusal, RetryLaterRefusal DEF Trouble

\* What the server does with calls that are there, to acceptances that are there.
LEMMA SettleRefusal ==
    ASSUME RefusalInv, UNCHANGED <<tab, shut, overrun, stored, minted, refused>>, calls' \subseteq calls,
           \A c \in Command : holder'[c] \in {0, holder[c]},
           \A c \in refused : Over(c) => Home[c] \in overrun \/ ~Applied(c)',
           \A w \in Worker : New(w) => tab[w].cmd \in Command
    PROVE  RefusalInv'
<1>1. \A w \in Worker : Unminted(w)'
  BY DEF RefusalInv, Unminted, Minted
<1>2. ASSUME NEW w \in Worker PROVE First(w)'
  <2>1. First(w) /\ \A k \in Awaited(w)' : k \in Awaited(w)
    BY DEF RefusalInv, Awaited
  <2>2. New(w)' => New(w) /\ holder'[tab[w].cmd] \in {0, holder[tab[w].cmd]}
    BY DEF New
  <2>. QED BY <2>1, <2>2 DEF First
<1>3. ASSUME NEW c \in refused PROVE c \in Command /\ Over(c)'
  BY DEF RefusalInv, Over
<1>4. \A c, d \in Command : holder'[c] # 0 /\ holder'[c] = holder'[d] => c = d
  BY DEF RefusalInv
<1>. QED BY <1>1, <1>2, <1>3, <1>4 DEF RefusalInv

\* An acceptance is new, or the call that joins it is not the first one of its command.
LEMMA AcceptRefusal ==
    ASSUME TransportInv, RefusalInv, NEW k \in calls, Accept(k)
    PROVE  RefusalInv'
<1> DEFINE c == k.cmd
<1>1. /\ UNCHANGED <<tab, shut, overrun, stored, minted, refused>> /\ k.acc = 0
      /\ CallOK(k) /\ c \in Command /\ LedgerOK
  BY DEF Accept, store, session, history, TransportInv, CallOK
<1>2. PICK n : /\ n # 0 /\ calls' = (calls \ {k}) \cup {[k EXCEPT !.acc = n]} /\ holder'[c] = n
               /\ holder[c] # 0 => n = holder[c]
               /\ \A d \in Command \ {c} : holder'[d] = holder[d] /\ (holder[d] # 0 => holder[d] # n)
               /\ \A d \in Command \ {c} : Applied(d)' => Applied(d)
  <2>1. CASE Ledger!Open(c) /\ calls' = (calls \ {k}) \cup {[k EXCEPT !.acc = count + 1]}
    <3>1. /\ holder[c] = 0 /\ count < MaxRows /\ holder' = [holder EXCEPT ![c] = count + 1]
          /\ fate' = [fate EXCEPT ![count + 1] = "open"]
      BY <2>1 DEF Ledger!Open
    <3>2. /\ holder'[c] = count + 1 /\ count + 1 # 0
          /\ \A d \in Command \ {c} : holder'[d] = holder[d] /\ holder[d] # count + 1
      BY <1>1, <3>1 DEF LedgerOK
    <3>3. \A d \in Command \ {c} : Applied(d)' => Applied(d)
      BY <1>1, <3>1, <3>2 DEF Applied, LedgerOK
    <3>. QED BY <2>1, <3>1, <3>2, <3>3
  <2>2. CASE holder[c] # 0 /\ calls' = (calls \ {k}) \cup {[k EXCEPT !.acc = holder[c]]} /\ UNCHANGED ledger
    BY <1>1, <2>2 DEF RefusalInv, Applied, ledger
  <2>. QED BY <2>1, <2>2 DEF Accept
<1>3. [k EXCEPT !.acc = n].w = k.w /\ [k EXCEPT !.acc = n].cmd = c /\ [k EXCEPT !.acc = n].acc = n
  BY <1>1 DEF CallOK
<1>4. \A w \in Worker : Unminted(w)'
  BY <1>1 DEF RefusalInv, Unminted, Minted
<1>5. ASSUME NEW w \in Worker PROVE First(w)'
  <2> SUFFICES ASSUME New(w), Home[tab[w].cmd] \notin overrun PROVE First(w)'
    BY <1>1 DEF First, New
  <2>1. First(w) /\ tab[w].cmd \in Command /\ w # None
    BY TransportAssumption DEF RefusalInv, New, TransportInv, TabOK, First
  <2>2. CASE tab[w].cmd = c
    <3>1. k \in Awaited(w) /\ tab[w].pc = "await" /\ Awaited(w) = {k}
      BY <1>1, <2>1, <2>2 DEF First, Awaited, CallOK, New
    <3>2. Awaited(w)' = {[k EXCEPT !.acc = n]}
      BY <1>2, <1>3, <3>1 DEF Awaited
    <3>. QED BY <1>1, <1>2, <1>3, <2>1, <2>2, <3>1, <3>2 DEF First
  <2>3. CASE tab[w].cmd # c
    <3>1. k.w # w
      BY <1>1, <2>1, <2>3 DEF CallOK
    <3>2. Awaited(w)' = Awaited(w) /\ holder'[tab[w].cmd] = holder[tab[w].cmd]
      BY <1>2, <1>3, <2>1, <2>3, <3>1 DEF Awaited
    <3>. QED BY <1>1, <1>2, <1>3, <2>1, <2>3, <3>2 DEF First
  <2>. QED BY <2>2, <2>3
<1>6. ASSUME NEW d \in refused PROVE d \in Command /\ Over(d)'
  <2>1. d \in Command /\ Over(d)
    BY DEF RefusalInv
  <2>2. CASE Home[d] \notin overrun
    <3>1. d # c /\ ~Applied(d)'
      BY <1>2, <2>1, <2>2 DEF Over
    <3>. QED BY <1>1, <1>2, <1>3, <2>1, <2>2, <3>1 DEF Over
  <2>. QED BY <1>1, <2>1, <2>2 DEF Over
<1>7. \A d, e \in Command : holder'[d] # 0 /\ holder'[d] = holder'[e] => d = e
  BY <1>1, <1>2 DEF RefusalInv
<1>. QED BY <1>1, <1>4, <1>5, <1>6, <1>7 DEF RefusalInv

LEMMA ServerRefusal ==
    ASSUME TransportInv, RefusalInv, Server
    PROVE  RefusalInv'
<1>1. \A w \in Worker : New(w) => tab[w].cmd \in Command
  BY DEF New, TransportInv, TabOK
<1>2. \A c \in refused : c \in Command
  BY DEF RefusalInv
<1>3. ASSUME NEW c \in Command, Ledger!Drop(c), calls' \subseteq calls, UNCHANGED <<store, tab, session, history>>
      PROVE  RefusalInv'
  <2>1. holder' = [holder EXCEPT ![c] = 0] /\ \E how : fate' = [fate EXCEPT ![holder[c]] = how]
    BY <1>3 DEF Ledger!Drop
  <2>2. \A d \in Command : holder'[d] = IF d = c THEN 0 ELSE holder[d]
    BY <2>1 DEF TransportInv, LedgerOK
  <2>3. \A d \in Command : Applied(d)' => Applied(d) \/ (d # c /\ holder[d] = holder[c] /\ holder[d] # 0)
    BY <2>1, <2>2 DEF Applied
  <2>4. \A d \in Command : ~Applied(d) => ~Applied(d)'
    BY <2>3 DEF RefusalInv
  <2>. QED BY <1>1, <1>2, <1>3, <2>2, <2>4, SettleRefusal DEF Over, Applied, store, session, history
<1>4. ASSUME NEW k \in calls, Execute(k) PROVE RefusalInv'
  <2>1. /\ holder[k.cmd] # 0 /\ fate' = [fate EXCEPT ![holder[k.cmd]] = "done"] /\ k.cmd \in Command
        /\ UNCHANGED <<holder, calls, tab, store, session, history>>
    BY <1>4 DEF Execute, Ledger!TakeEffect, TransportInv, CallOK
  <2>2. ASSUME NEW c \in refused, Over(c), Home[c] \notin overrun PROVE ~Applied(c)'
    <3>1. k.cmd # c /\ ~Applied(c)
      BY <2>2 DEF Over
    <3>2. holder[c] # 0 => holder[c] # holder[k.cmd]
      BY <1>2, <2>1, <3>1 DEF RefusalInv
    <3>. QED BY <2>1, <3>1, <3>2 DEF Applied
  <2>. QED BY <1>1, <2>1, <2>2 DEF RefusalInv, Unminted, Minted, First, New, Awaited, Over, store, session, history
<1>5. ASSUME NEW k \in calls, calls' = calls \ {k}, UNCHANGED <<ledger, store, tab, session, history>>
      PROVE  RefusalInv'
  BY <1>1, <1>2, <1>5, SettleRefusal DEF Over, Applied, ledger, store, session, history
<1>6. \A k \in calls : k.cmd \in Command
  BY DEF TransportInv, CallOK
<1>7. ASSUME NEW k \in calls, RunFails(k) \/ CallEnds(k) PROVE RefusalInv'
  BY <1>3, <1>5, <1>6, <1>7 DEF RunFails, CallEnds
<1>8. ASSUME NEW c \in Command, GiveUpStale(c) PROVE RefusalInv'
  BY <1>3, <1>8 DEF GiveUpStale
<1>. QED BY <1>4, <1>7, <1>8, AcceptRefusal DEF Server

LEMMA RefusalInvariant == Spec => []RefusalInv
<1>1. Init => RefusalInv
  BY DEF Init, Ledger!LedgerInit, RefusalInv, Unminted, First, New, Vacant
<1>2. TransportInv /\ LeaseInv /\ RefusalInv /\ [Next]_vars => RefusalInv'
  <2> SUFFICES ASSUME TransportInv, LeaseInv, RefusalInv, [Next]_vars PROVE RefusalInv'
    OBVIOUS
  <2>1. CASE UNCHANGED vars
    BY <2>1 DEF vars, ledger, store, session, history, RefusalInv, Unminted, Minted, First, New, Awaited, Over, Applied
  <2>2. ASSUME NEW s \in Worker, Lapse(s) \/ Freeze(s) PROVE RefusalInv'
    <3>1. UNCHANGED <<ledger, calls, store, tab, session, refused>> /\ overrun \subseteq overrun'
      BY <2>2 DEF Lapse, Freeze, history
    <3>. QED BY <3>1 DEF ledger, store, session, RefusalInv, Unminted, Minted, First, New, Awaited, Over, Applied
  <2>. QED BY <2>1, <2>2, ServerRefusal, SyncRefusal, SocketRefusal, AnswerRefusal, TroubleRefusal DEF Next
<1>. QED BY <1>1, <1>2, TransportInvariant, LeaseInvariant, PTL DEF Spec

\* A command whose record was dropped upon a refusal is not applied, unless the lease of
\* its record ran out meanwhile.
THEOREM RefusalsFinal == Spec => []RefusedNeverApplies
<1>1. RefusalInv => RefusedNeverApplies
  BY DEF RefusalInv, Over, RefusedNeverApplies
<1>. QED BY <1>1, RefusalInvariant, PTL

-----------------------------------------------------------------------------
(* The types of what the tabs, their store and the server keep.            *)

\* A command is in the order of the records once.
RecordsTyped ==
    /\ stored \in [Command -> {"none", "stored", "dispatched"}] /\ quarantined \subseteq Command
    /\ \A i, j \in 1 .. Len(minted) : minted[i] = minted[j] => i = j

LanesTyped ==
    /\ lease \in [Worker -> Worker \cup {None}] /\ claims \in [Worker -> SUBSET Worker]
    /\ link \in [Worker -> {"none", "lost", "up"}]

\* A request has one frame or HTTP call to wait for, or none.
AskedOnce(w) == \A j, k \in Awaited(w) : j = k

SetsTyped ==
    /\ unknown \subseteq socketOnly /\ socketOnly \subseteq Command /\ shut \subseteq Worker /\ acked \subseteq shut
    /\ overrun \subseteq Worker /\ mishaps \in 0 .. MaxMishaps

FateTyped == fate \in [1 .. MaxRows -> {"unborn", "open", "done", "void"}]

TypeInv == FateTyped /\ RecordsTyped /\ LanesTyped /\ SetsTyped /\ \A w \in Worker : AskedOnce(w)

\* What a step of w does with its calls: they end, or a new one takes their place.
Asks(w) ==
    \/ calls' \in {calls, calls \ Awaited(w), Unheard(w)}
    \/ \E c \in Command, kind \in {"COMMAND", "STATUS", "HTTP"} :
          \/ calls' \in {Unheard(w) \cup {Call(w, c, kind)}, (calls \ Awaited(w)) \cup {Call(w, c, kind)}}
          \/ tab[w].pc \notin {"await", "http"} /\ calls' = calls \cup {Call(w, c, kind)}

LEMMA AsksOnce ==
    ASSUME TransportInv, TypeInv, NEW w \in Worker, Asks(w), NEW v \in Worker
    PROVE  AskedOnce(v)'
<1>1. /\ v # None /\ AskedOnce(v)
      /\ \A k \in calls : CallOK(k)
  BY TransportAssumption DEF TypeInv, TransportInv
<1>2. \A k \in Unheard(w) : (k \in calls /\ k.w # w) \/ k.w = None
  BY <1>1 DEF CallOK, Unheard, Awaited
<1>3. tab[w].pc \notin {"await", "http"} => calls = calls \ Awaited(w)
  BY NoneAwaited
<1>4. \A c \in Command, kind \in {"COMMAND", "STATUS", "HTTP"} : Call(w, c, kind).w = w
  BY DEF Call
<1>5. CASE calls' \in {calls, calls \ Awaited(w), Unheard(w)}
  <2>1. \A k \in Awaited(v)' : k \in Awaited(v)
    BY <1>1, <1>2, <1>5 DEF Awaited
  <2>. QED BY <1>1, <2>1 DEF AskedOnce
<1>6. ASSUME NEW c \in Command, NEW kind \in {"COMMAND", "STATUS", "HTTP"},
             calls' \in {Unheard(w) \cup {Call(w, c, kind)}, (calls \ Awaited(w)) \cup {Call(w, c, kind)}}
      PROVE  AskedOnce(v)'
  <2>1. CASE v = w
    <3>1. \A k \in Awaited(v)' : k = Call(w, c, kind)
      BY <1>1, <1>2, <1>6, <2>1 DEF Awaited
    <3>. QED BY <3>1 DEF AskedOnce
  <2>2. CASE v # w
    <3>1. \A k \in Awaited(v)' : k \in Awaited(v)
      BY <1>1, <1>2, <1>4, <1>6, <2>2 DEF Awaited
    <3>. QED BY <1>1, <3>1 DEF AskedOnce
  <2>. QED BY <2>1, <2>2
<1>. QED BY <1>3, <1>5, <1>6 DEF Asks

\* What a step of w leaves in the store.
Writing(w) ==
    /\ stored' = stored \/ \E c \in Command, as \in {"none", "stored", "dispatched"} : stored' = [stored EXCEPT ![c] = as]
    /\ minted' = minted \/ (tab[w].cmd \in Command \ Minted /\ minted' = Append(minted, tab[w].cmd))
    /\ quarantined' \subseteq quarantined \cup Command

LEMMA WritingTyped ==
    ASSUME TransportInv, TypeInv, NEW w \in Worker, Writing(w)
    PROVE  RecordsTyped'
<1>1. minted \in Seq(Command) /\ RecordsTyped
  BY DEF TransportInv, StoreOK, TypeInv
<1>2. stored' \in [Command -> {"none", "stored", "dispatched"}] /\ quarantined' \subseteq Command
  BY <1>1 DEF RecordsTyped, Writing
<1>3. ASSUME NEW c \in Command \ Minted, minted' = Append(minted, c),
             NEW i \in 1 .. Len(minted'), NEW j \in 1 .. Len(minted'), minted'[i] = minted'[j]
      PROVE  i = j
  <2>1. /\ Len(minted') = Len(minted) + 1 /\ minted'[Len(minted) + 1] = c /\ Len(minted) \in Nat
        /\ \A n \in 1 .. Len(minted) : minted'[n] = minted[n]
    BY <1>1, <1>3
  <2>2. \A n \in 1 .. Len(minted) : minted[n] # c
    BY <1>3 DEF Minted
  <2>. QED BY <1>1, <1>3, <2>1, <2>2 DEF RecordsTyped
<1>4. \A i, j \in 1 .. Len(minted') : minted'[i] = minted'[j] => i = j
  BY <1>1, <1>3 DEF RecordsTyped, Writing
<1>. QED BY <1>2, <1>4 DEF RecordsTyped

\* The steps that leave their calls as Asks says, the store as Writing says, the lanes and
\* the sets typed keep the types.
Keeps(w) == UNCHANGED fate /\ Asks(w) /\ Writing(w) /\ LanesTyped' /\ SetsTyped'

LEMMA KeepsTyped ==
    ASSUME TransportInv, TypeInv, NEW w \in Worker, Keeps(w)
    PROVE  TypeInv'
  BY AsksOnce, WritingTyped DEF Keeps, TypeInv, FateTyped

LEMMA LanesReleased ==
    ASSUME LanesTyped, NEW w \in Worker, UNCHANGED <<link, leases>> \/ Release(w)
    PROVE  LanesTyped'
<1>1. CASE UNCHANGED <<link, leases>>
  BY <1>1 DEF LanesTyped, leases
<1>2. CASE Release(w)
  <2>1. CASE link[w] = "none"
    BY <1>2, <2>1 DEF Release, LanesTyped, leases
  <2>2. CASE link[w] # "none"
    BY <1>2, <2>2 DEF Release, LanesTyped
  <2>. QED BY <2>1, <2>2
<1>. QED BY <1>1, <1>2

LEMMA LanesAdopted ==
    ASSUME TransportInv, LanesTyped, NEW w \in Worker, Adoptable(w) # {}, Adopt(w, Oldest(w)), link' = link
    PROVE  LanesTyped'
<1>1. Home[Oldest(w)] \in Worker
  BY OldestAdoptable, TransportAssumption
<1>. QED BY <1>1 DEF Adopt, LanesTyped

LEMMA RecordDroppedTyped ==
    ASSUME LanesTyped, NEW w \in Worker, NEW c \in Command, DropRecord(w, c), link' = link
    PROVE  LanesTyped' /\ Writing(w)
<1>1. Home[c] \in Worker
  BY TransportAssumption
<1>2. LanesTyped'
  BY <1>1 DEF DropRecord, ReleaseScope, leases, LanesTyped
<1>. QED BY <1>2 DEF DropRecord, Writing

\* Mishaps are counted, and nothing else is, as far as the bound goes.
LEMMA Counted ==
    ASSUME SetsTyped, NoMishap \/ \E kind : Mishap(kind)
    PROVE  mishaps' \in 0 .. MaxMishaps
  BY TransportAssumption DEF SetsTyped, NoMishap, Mishap

LEMMA SetsKept ==
    ASSUME SetsTyped, UNCHANGED <<session, history>>, NoMishap \/ \E kind : Mishap(kind)
    PROVE  SetsTyped'
  BY Counted DEF SetsTyped, session, history

LEMMA FallbackKeeps ==
    ASSUME TransportInv, TypeInv, NEW w \in Worker, NEW confirmed \in BOOLEAN, NEW keep \in BOOLEAN,
           Fallback(w, confirmed, keep)
    PROVE  Asks(w) /\ LanesTyped'
<1>1. Asks(w)
  <2>1. tab[w].has => tab[w].cmd \in Command
    BY DEF TransportInv, TabOK
  <2>. QED BY <2>1 DEF Fallback, DurableRecovery, OverHttp, Asks
<1>2. LanesTyped'
  BY LanesReleased DEF Fallback, DurableRecovery, OverHttp, TypeInv
<1>. QED BY <1>1, <1>2

LEMMA SocketClosesKeeps ==
    ASSUME TypeInv, NEW w \in Worker, SocketCloses(w)
    PROVE  UNCHANGED <<fate, session, history>> /\ Asks(w) /\ Writing(w) /\ LanesTyped'
<1>1. UNCHANGED <<fate, session, history>> /\ Asks(w) /\ Writing(w)
  BY DEF SocketCloses, Asks, Writing, ledger, store
<1>2. LanesTyped'
  <2>1. CASE Release(w)
    BY <2>1, LanesReleased DEF TypeInv
  <2>2. CASE link' = [link EXCEPT ![w] = "lost"] /\ UNCHANGED leases
    BY <2>2 DEF TypeInv, LanesTyped, leases
  <2>. QED BY <2>1, <2>2 DEF SocketCloses
<1>. QED BY <1>1, <1>2

LEMMA SyncKeeps ==
    ASSUME TransportInv, TypeInv, NEW w \in Worker, Sync(w) \/ ExecuteStarts(w)
    PROVE  TypeInv'
<1>1. UNCHANGED <<fate, store, link>> /\ NoMishap
  BY DEF Sync, SyncStarts, RecoverEmpty, RecoverDeferred, RecoverAdopts, RecoverOverHttp, SyncEnds,
         ExecuteBlocked, ExecuteStarts, ledger
<1>2. Writing(w)
  BY <1>1 DEF Writing, store
<1>3. LanesTyped'
  <2>1. UNCHANGED leases \/ (Adoptable(w) # {} /\ Adopt(w, Oldest(w)))
    BY DEF Sync, SyncStarts, RecoverEmpty, RecoverDeferred, RecoverAdopts, RecoverOverHttp, SyncEnds,
           ExecuteBlocked, ExecuteStarts
  <2>. QED BY <1>1, <2>1, LanesReleased, LanesAdopted DEF TypeInv
<1>4. Asks(w)
  <2>1. CASE RecoverOverHttp(w)
    BY <2>1, OldestAdoptable DEF RecoverOverHttp, At, Asks
  <2>. QED BY <2>1 DEF Asks, Sync, SyncStarts, RecoverEmpty, RecoverDeferred, RecoverAdopts, SyncEnds,
                      ExecuteBlocked, ExecuteStarts
<1>5. SetsTyped'
  <2>1. UNCHANGED <<shut, history>> /\ socketOnly \subseteq socketOnly' /\ socketOnly' \subseteq socketOnly \cup Command
    BY DEF Sync, SyncStarts, RecoverEmpty, RecoverDeferred, RecoverAdopts, RecoverOverHttp, SyncEnds,
           ExecuteBlocked, ExecuteStarts, session
  <2>2. mishaps' \in 0 .. MaxMishaps
    BY <1>1, Counted DEF TypeInv
  <2>. QED BY <2>1, <2>2 DEF TypeInv, SetsTyped, history
<1>. QED BY <1>1, <1>2, <1>3, <1>4, <1>5, KeepsTyped DEF Keeps

LEMMA SurrenderKeeps ==
    ASSUME TransportInv, RefusalInv, TypeInv, NEW w \in Worker, Surrender(w)
    PROVE  TypeInv'
<1>1. UNCHANGED <<fate, session, history, quarantined>> /\ NoMishap
  BY DEF Surrender, ledger
<1>2. Asks(w) /\ LanesTyped'
  <2>1. CASE SlotFreed(w)
    BY <2>1, LanesReleased DEF SlotFreed, Asks, TypeInv
  <2>2. CASE Fallback(w, FALSE, FALSE)
    BY <2>2, FallbackKeeps
  <2>3. CASE Release(w) /\ calls' = calls
    BY <2>3, LanesReleased DEF Asks, TypeInv
  <2>. QED BY <2>1, <2>2, <2>3 DEF Surrender
<1>3. Writing(w)
  <2>1. tab[w].pc \in {"store", "mark"} => tab[w].cmd \in Command
    BY DEF TransportInv, TabOK
  <2>2. tab[w].pc = "store" => tab[w].cmd \notin Minted
    BY DEF RefusalInv, Unminted
  <2>. QED BY <1>1, <2>1, <2>2 DEF Surrender, Writing
<1>. QED BY <1>1, <1>2, <1>3, SetsKept, KeepsTyped DEF Keeps, TypeInv

LEMMA SocketKeeps ==
    ASSUME TransportInv, RefusalInv, TypeInv, NEW w \in Worker, Socket(w)
    PROVE  TypeInv'
<1>1. CASE DialTaken(w) \/ PutRefused(w) \/ RefreshFails(w)
  <2>1. UNCHANGED <<fate, store, session, history>> /\ NoMishap /\ (Fallback(w, FALSE, FALSE) \/ Reticket(w))
    BY <1>1 DEF DialTaken, PutRefused, RefreshFails, ledger
  <2>2. Asks(w) /\ LanesTyped'
    BY <2>1, FallbackKeeps, LanesReleased DEF Reticket, Asks, TypeInv
  <2>. QED BY <2>1, <2>2, SetsKept, KeepsTyped DEF Keeps, Writing, store, TypeInv
<1>2. CASE Dial(w) \/ PrepareStale(w)
  <2>1. UNCHANGED <<fate, calls, store, session, history>> /\ NoMishap
    BY <1>2 DEF Dial, PrepareStale, ledger
  <2>2. LanesTyped'
    BY <1>2 DEF Dial, PrepareStale, TypeInv, LanesTyped
  <2>. QED BY <2>1, <2>2, SetsKept, KeepsTyped DEF Keeps, Asks, Writing, store, TypeInv
<1>3. CASE PrepareStatus(w) \/ PrepareStore(w) \/ Retry(w) \/ Refreshed(w)
  <2>1. UNCHANGED <<fate, store, leases, link, session, history>> /\ NoMishap
    BY <1>3 DEF PrepareStatus, PrepareStore, Retry, Refreshed, ledger
  <2>2. Asks(w)
    <3>1. tab[w].has => tab[w].cmd \in Command
      BY DEF TransportInv, TabOK
    <3>2. tab[w].pc \in {"retry", "refresh"} => tab[w].has /\ tab[w] \in Tab
      BY DEF TransportInv, TabOK
    <3>3. \A kind \in {"COMMAND", "STATUS"} : tab[w].pc \notin {"await", "http"} /\ tab[w].has /\ Send(w, kind) => Asks(w)
      BY <3>1 DEF Send, Asks
    <3>. QED BY <1>3, <3>2, <3>3 DEF PrepareStatus, PrepareStore, Retry, Refreshed, At, Asks, Tab
  <2>. QED BY <2>1, <2>2, LanesReleased, SetsKept, KeepsTyped DEF Keeps, Writing, store, TypeInv
<1>4. CASE Store(w) \/ MarkAndSend(w)
  <2>1. /\ UNCHANGED <<fate, link, session, history>> /\ NoMishap
        /\ \E as \in {"stored", "dispatched"} : Put(w, as)
    BY <1>4 DEF Store, MarkAndSend, ledger
  <2>2. tab[w].cmd \in Command /\ tab[w].pc \notin {"await", "http"}
    BY <1>4 DEF TransportInv, TabOK, Store, MarkAndSend
  <2>3. Asks(w)
    BY <1>4, <2>2 DEF Store, MarkAndSend, Asks
  <2>4. Writing(w)
    BY <2>1, <2>2 DEF Put, Writing
  <2>5. LanesTyped'
    BY <2>1 DEF Put, TypeInv, LanesTyped
  <2>. QED BY <2>1, <2>3, <2>4, <2>5, SetsKept, KeepsTyped DEF Keeps, TypeInv
<1>5. CASE AckDeadline(w)
  BY <1>5, SocketClosesKeeps, SetsKept, KeepsTyped DEF AckDeadline, Keeps, TypeInv
<1>6. CASE Redial(w)
  <2>1. UNCHANGED <<fate, store, session, history>> /\ Asks(w) /\ (NoMishap \/ \E kind : Mishap(kind))
    BY <1>6 DEF Redial, SlotFreed, Asks, ledger
  <2>2. LanesTyped'
    <3>1. CASE SlotFreed(w)
      BY <3>1, LanesReleased DEF SlotFreed, TypeInv
    <3>2. CASE lease' = [lease EXCEPT ![w] = w] /\ link' = [link EXCEPT ![w] = "up"] /\ UNCHANGED claims
      BY <3>2 DEF TypeInv, LanesTyped
    <3>. QED BY <1>6, <3>1, <3>2 DEF Redial
  <2>. QED BY <2>1, <2>2, SetsKept, KeepsTyped DEF Keeps, Writing, store, TypeInv
<1>. QED BY <1>1, <1>2, <1>3, <1>4, <1>5, <1>6, SurrenderKeeps DEF Socket

LEMMA AnswerKeeps ==
    ASSUME TransportInv, TypeInv, NEW w \in Worker, Answer(w)
    PROVE  TypeInv'
<1>1. UNCHANGED fate /\ NoMishap
  BY DEF Answer, Committed, StatusUnknown, StatusAccepted, Voided, HttpOk, HttpVoided, PlainDone, Persist,
         CheckpointCleared, CheckpointFailed, Quarantine, ledger
<1>2. CASE \/ Committed(w) \/ StatusAccepted(w) \/ Voided(w) \/ HttpOk(w) \/ HttpVoided(w) \/ PlainDone(w)
           \/ CheckpointFailed(w)
  <2>1. UNCHANGED <<store, session, history>>
    BY <1>2 DEF Committed, StatusAccepted, Voided, HttpOk, HttpVoided, PlainDone, CheckpointFailed
  <2>2. \/ \E confirmed, keep \in BOOLEAN : Fallback(w, confirmed, keep)
        \/ UNCHANGED <<link, leases>> /\ calls' \in {calls, calls \ Awaited(w), Unheard(w)}
    BY <1>2 DEF Committed, StatusAccepted, Voided, HttpOk, HttpVoided, PlainDone, CheckpointFailed
  <2>3. Asks(w) /\ LanesTyped'
    BY <2>2, FallbackKeeps, LanesReleased DEF Asks, TypeInv
  <2>. QED BY <1>1, <2>1, <2>3, SetsKept, KeepsTyped DEF Keeps, Writing, store, TypeInv
<1>3. CASE Persist(w)
  <2>1. UNCHANGED <<calls, store, leases, link, session, acked, unknown, overrun>>
    BY <1>3 DEF Persist
  <2>2. SetsTyped'
    BY <1>1, <2>1, Counted DEF SetsTyped, TypeInv, session
  <2>. QED BY <1>1, <2>1, <2>2, LanesReleased, KeepsTyped DEF Keeps, Asks, Writing, store, TypeInv
<1>4. ASSUME DropRecord(w, tab[w].cmd), tab[w].pc \in {"await", "ack"}, UNCHANGED <<link, session, acked, overrun>>,
             calls' \in {calls, calls \ Awaited(w)},
             unknown' = unknown \/ (tab[w].cmd \in socketOnly /\ unknown' = unknown \cup {tab[w].cmd})
      PROVE  TypeInv'
  <2>1. tab[w].cmd \in Command
    BY <1>4 DEF TransportInv, TabOK
  <2>2. LanesTyped' /\ Writing(w)
    BY <1>4, <2>1, RecordDroppedTyped DEF TypeInv
  <2>3. SetsTyped'
    BY <1>1, <1>4, Counted DEF SetsTyped, TypeInv, session
  <2>. QED BY <1>1, <1>4, <2>2, <2>3, KeepsTyped DEF Keeps, Asks
<1>5. CASE CheckpointCleared(w)
  BY <1>4, <1>5 DEF CheckpointCleared, At, history
<1>6. CASE StatusUnknown(w)
  <2>1. CASE tab[w].cmd \in socketOnly
    BY <1>4, <1>6, <2>1 DEF StatusUnknown, At
  <2>2. CASE Fallback(w, TRUE, FALSE) /\ UNCHANGED <<store, session, history>>
    BY <1>1, <2>2, FallbackKeeps, SetsKept, KeepsTyped DEF Keeps, Writing, store, TypeInv
  <2>. QED BY <1>6, <2>1, <2>2 DEF StatusUnknown
<1>7. CASE Quarantine(w)
  <2>1. /\ UNCHANGED <<stored, minted, session, unknown, overrun>> /\ w \in shut /\ acked' = acked \cup {w}
        /\ Release(w) /\ calls' = Unheard(w) /\ quarantined' \subseteq quarantined \cup Command
    BY <1>7 DEF Quarantine
  <2>2. SetsTyped'
    BY <1>1, <2>1, Counted DEF SetsTyped, TypeInv, session
  <2>. QED BY <1>1, <2>1, <2>2, LanesReleased, KeepsTyped DEF Keeps, Asks, Writing, TypeInv
<1>. QED BY <1>2, <1>3, <1>5, <1>6, <1>7 DEF Answer

LEMMA TroubleKeeps ==
    ASSUME TransportInv, TypeInv, NEW w \in Worker, Trouble(w)
    PROVE  TypeInv'
<1>1. UNCHANGED fate /\ (NoMishap \/ \E kind : Mishap(kind))
  BY DEF Trouble, DialFails, PrepareUnavailable, Refused, FenceRefused, Busy, BackendTimeout, ServerKill, HttpFails,
         SocketLost, SocketCloses, PersistFails, Crash, RevokeStarts, LiveSyncDisabled, SessionStale, ledger
<1>2. CASE DialFails(w) \/ PrepareUnavailable(w) \/ ServerKill(w)
  <2>1. UNCHANGED <<store, session, history>> /\ \E confirmed, keep \in BOOLEAN : Fallback(w, confirmed, keep)
    BY <1>2 DEF DialFails, PrepareUnavailable, ServerKill
  <2>. QED BY <1>1, <2>1, FallbackKeeps, SetsKept, KeepsTyped DEF Keeps, Writing, store, TypeInv
<1>3. CASE Busy(w) \/ BackendTimeout(w) \/ HttpFails(w) \/ PersistFails(w)
  <2>1. UNCHANGED <<store, session, history, link, leases>> /\ calls' \in {calls, calls \ Awaited(w), Unheard(w)}
    BY <1>3 DEF Busy, BackendTimeout, HttpFails, PersistFails
  <2>. QED BY <1>1, <2>1, LanesReleased, SetsKept, KeepsTyped DEF Keeps, Asks, Writing, store, TypeInv
<1>4. CASE Refused(w) \/ FenceRefused(w)
  <2>1. /\ UNCHANGED <<link, session, acked, unknown, overrun>> /\ tab[w].pc = "await"
        /\ \/ DropRecord(w, tab[w].cmd) /\ calls' = calls \ Awaited(w)
           \/ UNCHANGED <<store, leases>> /\ calls' = (calls \ Awaited(w)) \cup {Call(w, tab[w].cmd, "HTTP")}
    BY <1>4 DEF Refused, RefusedOverHttp, FenceRefused, At
  <2>2. tab[w].cmd \in Command
    BY <2>1 DEF TransportInv, TabOK
  <2>3. LanesTyped' /\ Writing(w)
    BY <2>1, <2>2, RecordDroppedTyped, LanesReleased DEF TypeInv, Writing, store
  <2>4. SetsTyped'
    BY <1>1, <2>1, Counted DEF SetsTyped, TypeInv, session
  <2>. QED BY <1>1, <2>1, <2>2, <2>3, <2>4, KeepsTyped DEF Keeps, Asks
<1>5. CASE SocketLost(w)
  BY <1>1, <1>5, SocketClosesKeeps, SetsKept, KeepsTyped DEF SocketLost, Keeps, TypeInv
<1>6. CASE Crash(w)
  <2>1. UNCHANGED <<store, session, history>> /\ calls' = Unheard(w)
    BY <1>6 DEF Crash
  <2>2. LanesTyped'
    BY <1>6 DEF Crash, TypeInv, LanesTyped
  <2>. QED BY <1>1, <2>1, <2>2, SetsKept, KeepsTyped DEF Keeps, Asks, Writing, store, TypeInv
<1>7. CASE RevokeStarts(w)
  <2>1. UNCHANGED <<calls, store, link, leases, socketOnly, history>> /\ shut' = shut \cup {w}
    BY <1>7 DEF RevokeStarts
  <2>2. SetsTyped'
    BY <1>1, <2>1, Counted DEF SetsTyped, TypeInv, history
  <2>. QED BY <1>1, <2>1, <2>2, LanesReleased, KeepsTyped DEF Keeps, Asks, Writing, store, TypeInv
<1>8. CASE LiveSyncDisabled(w) \/ SessionStale(w)
  <2>1. UNCHANGED <<store, session, history>> /\ tab[w].pc = "await"
    BY <1>8 DEF LiveSyncDisabled, SessionStale, RefusedEarly, At
  <2>2. tab[w].cmd \in Command
    BY <2>1 DEF TransportInv, TabOK
  <2>3. Asks(w)
    BY <1>8, <2>2 DEF LiveSyncDisabled, RefusedOverHttp, SessionStale, Reticket, Asks
  <2>4. LanesTyped'
    BY <1>8, LanesReleased DEF LiveSyncDisabled, RefusedOverHttp, SessionStale, Reticket, TypeInv
  <2>. QED BY <1>1, <2>1, <2>3, <2>4, SetsKept, KeepsTyped DEF Keeps, Writing, store, TypeInv
<1>. QED BY <1>2, <1>3, <1>4, <1>5, <1>6, <1>7, <1>8 DEF Trouble

\* The server's steps settle an acceptance, and move or end a call that is there.
LEMMA ServerKeeps ==
    ASSUME TransportInv, TypeInv, Server
    PROVE  TypeInv'
<1>1. UNCHANGED <<store, leases, link, session, history>> /\ (NoMishap \/ \E kind : Mishap(kind))
  BY DEF Server, Accept, Execute, RunFails, CallEnds, GiveUpStale, NoMishap
<1>2. RecordsTyped' /\ SetsTyped' /\ LanesTyped'
  BY <1>1, SetsKept DEF RecordsTyped, TypeInv, LanesTyped, store, leases
<1>3. FateTyped'
  <2>1. fate' = fate \/ \E n, how : how \in {"open", "done", "void", fate[n]} /\ fate' = [fate EXCEPT ![n] = how]
    BY DEF Server, Accept, Execute, RunFails, CallEnds, GiveUpStale, Ledger!Open, Ledger!TakeEffect, Ledger!Drop, ledger
  <2>. QED BY <2>1 DEF TypeInv, FateTyped
<1>4. ASSUME NEW w \in Worker PROVE AskedOnce(w)'
  <2>1. \/ calls' \subseteq calls
        \/ \E k \in calls : \E n : calls' = (calls \ {k}) \cup {[k EXCEPT !.acc = n]}
    BY DEF Server, Accept, Execute, RunFails, CallEnds, GiveUpStale
  <2>2. CASE calls' \subseteq calls
    BY <2>2 DEF TypeInv, AskedOnce, Awaited
  <2>3. ASSUME NEW k \in calls, NEW n, calls' = (calls \ {k}) \cup {[k EXCEPT !.acc = n]} PROVE AskedOnce(w)'
    <3>1. [k EXCEPT !.acc = n].w = k.w
      BY DEF TransportInv, CallOK
    <3>. QED BY <2>3, <3>1 DEF TypeInv, AskedOnce, Awaited
  <2>. QED BY <2>1, <2>2, <2>3
<1>. QED BY <1>2, <1>3, <1>4 DEF TypeInv

LEMMA TypeInvariant == Spec => []TypeInv
<1>1. Init => TypeInv
  BY TransportAssumption DEF Init, Ledger!LedgerInit, TypeInv, FateTyped, RecordsTyped, LanesTyped, SetsTyped, AskedOnce, Awaited
<1>2. TransportInv /\ RefusalInv /\ TypeInv /\ [Next]_vars => TypeInv'
  <2> SUFFICES ASSUME TransportInv, RefusalInv, TypeInv, [Next]_vars PROVE TypeInv'
    OBVIOUS
  <2>1. CASE UNCHANGED vars
    BY <2>1 DEF vars, ledger, store, leases, session, history, TypeInv, FateTyped, RecordsTyped, LanesTyped, SetsTyped,
                AskedOnce, Awaited
  <2>2. ASSUME NEW s \in Worker, Lapse(s) \/ Freeze(s) PROVE TypeInv'
    <3>1. /\ UNCHANGED <<ledger, calls, store, claims, link, session, acked, unknown>>
          /\ lease' = [lease EXCEPT ![s] = None] /\ overrun' \subseteq overrun \cup {s}
      BY <2>2 DEF Lapse, Freeze, history
    <3>2. mishaps' \in 0 .. MaxMishaps
      BY <2>2, Counted DEF Lapse, Freeze, TypeInv
    <3>. QED BY <3>1, <3>2 DEF ledger, store, session, TypeInv, FateTyped, RecordsTyped, LanesTyped, SetsTyped,
                               AskedOnce, Awaited
  <2>. QED BY <2>1, <2>2, ServerKeeps, SyncKeeps, SocketKeeps, AnswerKeeps, TroubleKeeps DEF Next
<1>. QED BY <1>1, <1>2, TransportInvariant, RefusalInvariant, PTL DEF Spec

LEMMA TabsTyped == Spec => [](tab \in [Worker -> Tab])
<1>1. Init => tab \in [Worker -> Tab]
  BY DEF Init, Vacant, Tab
<1>2. TransportInv' /\ tab \in [Worker -> Tab] /\ [Next]_vars => (tab \in [Worker -> Tab])'
  <2> SUFFICES ASSUME TransportInv', tab \in [Worker -> Tab], [Next]_vars PROVE tab' \in [Worker -> Tab]
    OBVIOUS
  <2>1. tab' = tab \/ \E w \in Worker : \E t : tab' = [tab EXCEPT ![w] = t]
    <3>1. Server \/ UNCHANGED vars \/ (\E s \in Worker : Lapse(s) \/ Freeze(s)) => tab' = tab
      BY DEF Server, Accept, Execute, RunFails, CallEnds, GiveUpStale, Lapse, Freeze, vars
    <3>2. ASSUME NEW w \in Worker, Sync(w) \/ ExecuteStarts(w) \/ Socket(w) \/ Answer(w) \/ Trouble(w)
          PROVE  tab' = tab \/ \E t : Become(w, t)
      <4>1. \A confirmed, keep \in BOOLEAN : Fallback(w, confirmed, keep) => \E t : Become(w, t)
        BY DEF Fallback, DurableRecovery, OverHttp
      <4>2. SocketCloses(w) => tab' = tab \/ \E t : Become(w, t)
        BY DEF SocketCloses, Goto
      <4>3. CASE Sync(w) \/ ExecuteStarts(w)
        BY <4>3 DEF Sync, SyncStarts, RecoverEmpty, RecoverDeferred, RecoverAdopts, RecoverOverHttp, SyncEnds,
                    ExecuteBlocked, ExecuteStarts, Goto
      <4>4. CASE Socket(w)
        BY <4>1, <4>2, <4>4 DEF Socket, DialTaken, Dial, PrepareStatus, PrepareStale, PrepareStore, Store, MarkAndSend,
                    PutRefused, Retry, Refreshed, RefreshFails, Reticket, AckDeadline, Redial, Surrender, SlotFreed, Send, Goto
      <4>5. CASE Answer(w)
        BY <4>1, <4>5 DEF Answer, Committed, StatusUnknown, StatusAccepted, Voided, HttpOk, HttpVoided, PlainDone, Persist,
                    CheckpointCleared, CheckpointFailed, Unsettled, Quarantine, Goto
      <4>6. CASE Trouble(w)
        BY <4>1, <4>2, <4>6 DEF Trouble, DialFails, PrepareUnavailable, Refused, FenceRefused, Busy, BackendTimeout,
                    LiveSyncDisabled, RefusedOverHttp, SessionStale, Reticket, ServerKill, HttpFails, SocketLost,
                    PersistFails, Unsettled, Crash, RevokeStarts, Goto
      <4>. QED BY <3>2, <4>3, <4>4, <4>5, <4>6
    <3>. QED BY <3>1, <3>2 DEF Next, Become
  <2>2. \A w \in Worker : tab'[w] \in Tab
    BY DEF TransportInv, TabOK
  <2>3. DOMAIN tab' = Worker
    BY DEF TransportInv
  <2>. QED BY <2>1, <2>2, <2>3
<1>. QED BY <1>1, <1>2, TransportInvariant, PTL DEF Spec

\* As many commands as records: none is in the order twice.
LEMMA OnceEach ==
    ASSUME minted \in Seq(Command), \A i, j \in 1 .. Len(minted) : minted[i] = minted[j] => i = j
    PROVE  Cardinality(Minted) = Len(minted)
<1> DEFINE f == [i \in 1 .. Len(minted) |-> minted[i]]
<1>1. f \in Bijection(1 .. Len(minted), Minted)
  BY DEF Minted, Bijection, Injection, IsInjective, Surjection
<1>2. IsFiniteSet(1 .. Len(minted)) /\ Cardinality(1 .. Len(minted)) = Len(minted)
  <2>1. Len(minted) \in Nat
    OBVIOUS
  <2>2. \A n \in Nat : IsFiniteSet(1 .. n) /\ Cardinality(1 .. n) = IF 1 > n THEN 0 ELSE n - 1 + 1
    BY FS_Interval
  <2>3. \A n \in Nat : (IF 1 > n THEN 0 ELSE n - 1 + 1) = n
    OBVIOUS
  <2>. QED BY <2>1, <2>2, <2>3
<1>. QED BY <1>1, <1>2, FS_Bijection DEF ExistsBijection

\* The outbox, the leases and the requests keep their types; no record is listed twice, and
\* no request waits for two frames.
THEOREM TransportTyped == Spec => []TypeOK
<1>1. TransportInv /\ RefusalInv /\ TypeInv /\ tab \in [Worker -> Tab] => TypeOK
  <2> SUFFICES ASSUME TransportInv, RefusalInv, TypeInv, tab \in [Worker -> Tab] PROVE TypeOK
    OBVIOUS
  <2>1. holder \in [Command -> 0 .. MaxRows] /\ count \in 0 .. MaxRows
    BY TransportAssumption DEF TransportInv, LedgerOK
  <2>2. \A k \in calls : /\ k.w \in Worker \cup {None} /\ k.cmd \in Command
                         /\ k.kind \in {"COMMAND", "STATUS", "HTTP"} /\ k.acc \in 0 .. count
    BY DEF TransportInv, CallOK
  <2>3. Minted = Command \cap Minted /\ Cardinality(Minted) = Len(minted)
    BY OnceEach DEF TransportInv, StoreOK, TypeInv, RecordsTyped, Minted
  <2>4. ASSUME NEW w \in Worker
        PROVE  /\ Cardinality(Awaited(w)) <= 1
               /\ tab[w].pc \in {"dial", "store", "mark", "await", "retry", "refresh", "http", "result", "ack"} => tab[w].cmd # None
    <3>1. tab[w].pc \in {"dial", "store", "mark", "await", "retry", "refresh", "http", "result", "ack"} => tab[w].cmd # None
      BY TransportAssumption DEF TransportInv, TabOK
    <3>2. Awaited(w) = {} \/ \E k : Awaited(w) = {k}
      BY DEF TypeInv, AskedOnce
    <3>3. Cardinality(Awaited(w)) <= 1
      <4>1. Cardinality({}) = 0 /\ \A k : Cardinality({k}) = 1
        BY FS_EmptySet, FS_Singleton
      <4>. QED BY <3>2, <4>1
    <3>. QED BY <3>1, <3>3
  <2>5. settled \cup refused \cup unknown \subseteq Minted
    BY DEF TransportInv, RefusalInv, TypeInv, SetsTyped, StoreOK, Kept
  <2>. QED BY <2>1, <2>2, <2>3, <2>4, <2>5 DEF TypeOK, TypeInv, FateTyped, RecordsTyped, LanesTyped, SetsTyped
<1>. QED BY <1>1, TransportInvariant, RefusalInvariant, TypeInvariant, TabsTyped, PTL
=============================================================================
