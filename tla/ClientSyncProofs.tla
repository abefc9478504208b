--------------------------- MODULE ClientSyncProofs ---------------------------
(***************************************************************************)
(* Proofs that the client neither loses a write nor takes one for synced   *)
(* that is not (ClientSync), for any edits, writes of other devices,       *)
(* deletions and mishaps, in any order, as long as nothing falls into the  *)
(* five windows the module names.                                          *)
(***************************************************************************)
EXTENDS ClientSync, TLAPS

\* None of the windows is open.
Orderly == {"snapshot", "zero", "removal", "recovery", "rollback"} \subseteq Closed

-----------------------------------------------------------------------------
(* Types                                                                   *)

Payloads == {p \in [kind : Kinds, content : Content, dirty : BOOLEAN, dirtyIndex : Nat, lastSync : Nat, ts : Nat] :
                p.kind # "live" => p.content = {}}
Rows == {r \in [kind : Kinds, content : Content, ts : Nat] : r.kind # "live" => r.content = {}}
Answers == [saved : Nat, conflict : Rows, got : Rows, token : Nat]
Requests == [sent : BOOLEAN, upload : Rows, recorded : BOOLEAN, token : Nat, answered : BOOLEAN, answer : Answers]
Steps == {"idle", "presaving", "ready", "sent", "answered", "emitted", "stored", "noted", "pushed"}
Rounds == [step : Steps, item : Payloads, want : BOOLEAN, doomed : BOOLEAN, frozen : Nat, answer : Answers,
           saving : BOOLEAN, pushed : BOOLEAN, base : Payloads, baseCopies : SUBSET Content,
           before : Payloads, after : Payloads, made : SUBSET Content]

Types ==
    /\ mem \in Payloads /\ disk \in Payloads /\ copies \subseteq Content /\ diskCopies \subseteq Content
    /\ counter \in Nat /\ token \in Nat /\ presaved \in Nat \cup {-1}
    /\ op \in Rounds /\ req \in Requests /\ late \subseteq Rows /\ server \in Rows /\ push \in Rows
    /\ done \subseteq Write /\ owed \subseteq done /\ saved \subseteq Edit \cap done /\ uploaded \subseteq done

\* What the edits are in: payloads and rows hold writes that were made.
RoundMade ==
    /\ op.item.content \subseteq done /\ op.before.content \subseteq done /\ op.after.content \subseteq done
    /\ op.base.content \subseteq done /\ op.answer.got.content \subseteq done /\ op.answer.conflict.content \subseteq done

RequestMade ==
    /\ req.upload.content \subseteq done
    /\ req.answer.got.content \subseteq done /\ req.answer.conflict.content \subseteq done

Made ==
    /\ mem.content \subseteq done /\ disk.content \subseteq done
    /\ server.content \subseteq done /\ push.content \subseteq done
    /\ \A u \in late : u.content \subseteq done
    /\ RoundMade /\ RequestMade

TypeInv == Types /\ Made

-----------------------------------------------------------------------------
(* The round and its request                                               *)

Uploading == req.upload.kind # "none"

Applying == op.step \in {"emitted", "stored", "noted"}

Phases ==
    /\ ~req.sent => req = NoRequest
    /\ req.sent \/ op.step \in {"idle", "presaving", "ready"} \/ op.pushed
    /\ op.step \in {"presaving", "ready"} => ~req.sent
    /\ op.step = "idle" \/ op.pushed => (req.sent => req.recorded)
    /\ op.step = "pushed" => op.pushed
    /\ op.pushed => op.step = "pushed" \/ Applying
    /\ op.step = "answered" \/ (Applying /\ ~op.pushed) => req.answered /\ op.answer = req.answer
    /\ op.step = "answered" => op.saving = Uploading /\ op.base = mem /\ op.baseCopies = copies
    /\ op.pushed => /\ ~Uploading /\ ~op.doomed /\ op.answer.saved = 0 /\ op.answer.conflict = NoRow
                    /\ op.answer.got.kind # "none" /\ op.answer.token = op.answer.got.ts
    /\ op.step = "pushed" => ~op.saving

-----------------------------------------------------------------------------
(* Indices, stamps and the rows on their way                               *)

Sound(p) ==
    /\ p.dirtyIndex <= counter /\ p.lastSync <= counter /\ p.ts <= server.ts
    /\ ~p.dirty => p.dirtyIndex = 0
    /\ p.kind = "live" /\ ~p.dirty => p.content \subseteq uploaded

RowOK(r) ==
    IF r.kind = "none" THEN r = NoRow
    ELSE /\ 1 <= r.ts /\ r.ts <= server.ts /\ r.content \subseteq uploaded
         /\ r.ts = server.ts => r = server

Empty(a) == a.saved = 0 /\ a.conflict.kind = "none" /\ a.got.kind = "none"

AnswerOK ==
    /\ req.answer.token <= server.ts
    /\ req.answer.conflict.kind # "none" =>
          /\ req.answer.got = NoRow /\ req.answer.saved = 0 /\ Uploading
          /\ req.answer.conflict.ts = req.answer.token /\ req.answer.token >= req.token
    /\ req.answer.got.kind # "none" => /\ req.answer.got.ts > req.token
                                       /\ req.answer.saved = 0 => req.answer.got.ts = req.answer.token
    /\ req.answer.saved # 0 =>
          /\ req.answer.saved <= server.ts /\ req.answer.saved >= req.answer.token /\ req.answer.saved > req.token
          /\ Uploading /\ req.upload.content \subseteq uploaded
          /\ req.answer.saved = server.ts => server.content = req.upload.content
    /\ Empty(req.answer) => req.answer.token <= req.token

SoundInv ==
    /\ Sound(mem) /\ Sound(disk) /\ Sound(op.item) /\ Sound(op.before) /\ Sound(op.after)
    /\ disk.dirtyIndex = 0 /\ disk.lastSync = 0 /\ op.frozen <= counter /\ presaved <= counter
    /\ \A u \in late : u.ts <= server.ts
    /\ req.upload.ts <= server.ts

RowsInv ==
    /\ RowOK(server) /\ RowOK(push)
    /\ RowOK(req.answer.got) /\ RowOK(req.answer.conflict)
    /\ RowOK(op.answer.got) /\ RowOK(op.answer.conflict)

\* What was sent is all of the item, or the item is still dirty.
Sent(p) ==
    Uploading /\ p.kind = "live" => StillDirty(p) \/ p.content \subseteq req.upload.content \cup uploaded

SentInv == Sent(mem) /\ (op.step = "emitted" => Sent(op.before))

-----------------------------------------------------------------------------
(* Memory and disk                                                         *)

CopiesOK ==
    /\ copies = diskCopies \cup op.made /\ op.made \cap diskCopies = {}
    /\ op.step # "emitted" => op.made = {}
    /\ op.step = "emitted" /\ ~op.saving => op.made = {} /\ op.after = op.before

\* The disk's payload is of the version of memory's.
Paired(p) == disk.kind # "none" => p.kind # "none" /\ disk.ts = p.ts

Since(p, index) == mem = p \/ (mem.dirtyIndex > index /\ p.kind = "live" /\ mem.kind # "none" /\ mem.ts = p.ts)

DiskInv ==
    /\ CopiesOK
    /\ IF op.step = "emitted" THEN Paired(op.before) ELSE Paired(mem)
    /\ op.step = "presaving" => Since(op.item, op.frozen) /\ op.item.dirtyIndex <= op.frozen
    /\ op.step = "presaving" /\ op.want => op.item.dirty
    /\ op.step = "presaving" /\ ~op.want => ~op.item.dirty \/ op.item.kind # "live"
    /\ op.step = "emitted" => Since(op.after, presaved)

\* A deletion of what never reached the server: nothing there could bring it back.
NeverSynced(p) == p.kind = "deleted" /\ p.ts = 0

NoneLive ==
    /\ server.kind # "live" /\ push.kind # "live" /\ req.upload.kind # "live"
    /\ req.answer.got.kind # "live" /\ req.answer.conflict.kind # "live"
    /\ op.answer.got.kind # "live" /\ op.answer.conflict.kind # "live"
    /\ \A u \in late : u.kind # "live"

DoomInv ==
    /\ NeverSynced(mem) \/ (op.step = "emitted" /\ NeverSynced(op.before)) => NoneLive
    /\ ~NeverSynced(disk)
    /\ op.step = "presaving" /\ op.want => ~NeverSynced(op.item)
    /\ op.step = "emitted" /\ op.saving => ~NeverSynced(op.after)
    /\ op.doomed => mem.kind # "live"
    /\ op.doomed /\ ~Applying => NeverSynced(mem)

-----------------------------------------------------------------------------
(* Where the writes are                                                    *)

In(e, p, cs) == e \in p.content \/ e \in UNION cs

\* All of these writes are in the payload or in the copies, or are deleted by the payload.
Holds(p, cs, ow, writes) == \A e \in writes : In(e, p, cs) \/ (p.kind # "live" /\ e \notin ow)

Covers(p, cs) == p.kind # "none" /\ p.ts = server.ts => Holds(p, cs, owed, server.content)

CoversUpload(u) ==
    u.kind # "none" /\ u.ts = server.ts => \A e \in server.content \cap owed : e \in u.content \/ e \in UNION diskCopies

HoldsUpload(p, cs) ==
    Uploading /\ (~req.answered \/ req.answer.saved # 0) => Holds(p, cs, owed, req.upload.content)

VersionInv ==
    /\ Covers(mem, copies) /\ Covers(disk, diskCopies)
    /\ Covers(op.item, diskCopies) /\ Covers(op.before, diskCopies) /\ Covers(op.after, copies)
    /\ \A u \in late : CoversUpload(u)
    /\ ~req.answered => CoversUpload(req.upload)
    /\ HoldsUpload(mem, copies)
    /\ op.step = "emitted" => HoldsUpload(op.before, diskCopies)

\* What has not reached the server.
Unsent == owed \ uploaded

OnDisk(p) ==
    p.dirty /\ p.dirtyIndex # 0 /\ p.dirtyIndex <= presaved =>
        \A e \in p.content \cap Unsent : In(e, disk, diskCopies)

WritesInv ==
    /\ \A e \in uploaded \cap owed : e \in server.content \/ e \in UNION diskCopies
    /\ \A e \in Unsent : In(e, mem, copies)
    /\ \A e \in Unsent \cap saved : In(e, disk, diskCopies)
    /\ op.step = "presaving" => \A e \in Unsent \cap saved : In(e, op.item, diskCopies)
    /\ op.step = "emitted" => \A e \in Unsent \cap saved : In(e, op.after, copies)
    /\ op.step = "emitted" /\ mem = op.after => \A e \in Unsent : In(e, op.before, diskCopies)
    /\ OnDisk(mem) /\ (op.step = "emitted" => OnDisk(op.before)) /\ (op.step = "presaving" => OnDisk(op.item))

-----------------------------------------------------------------------------
(* The token                                                               *)

Pending == req.recorded /\ req.answered

Floor(p) ==
    p.kind # "none" => /\ ~Pending => p.ts >= token
                       /\ Pending /\ Empty(req.answer) => p.ts >= req.answer.token

TokenInv ==
    /\ token <= server.ts
    /\ req.sent /\ ~req.answered => req.token <= token
    /\ req.sent /\ ~req.recorded /\ op.step # "noted" => req.token = token
    /\ Pending /\ Empty(req.answer) => token >= req.answer.token
    /\ Floor(mem) /\ (op.step = "emitted" => Floor(op.before))
    /\ Applying /\ mem.kind # "none" => mem.ts >= op.answer.token
    /\ op.step = "noted" => token = op.answer.token
    /\ op.pushed /\ ~Pending => op.answer.token >= token
    /\ op.pushed /\ Pending /\ Empty(req.answer) => op.answer.token >= req.answer.token

SyncInv ==
    TypeInv /\ Phases /\ SoundInv /\ RowsInv /\ AnswerOK /\ SentInv /\ DiskInv /\ DoomInv /\ VersionInv /\ WritesInv /\ TokenInv

-----------------------------------------------------------------------------
(* The deltas are well typed: they put together what they were given        *)

Made1(x, contents) ==
    x # Nothing => /\ x.payload \in Payloads /\ x.payload.content \subseteq contents
                   /\ x.dups \subseteq SUBSET contents

LEMMA PayloadTyped ==
    ASSUME NEW kind \in Kinds, NEW content \in Content, kind # "live" => content = {}, NEW dirty \in BOOLEAN,
           NEW di \in Nat, NEW gdi \in Nat, NEW ts \in Nat
    PROVE  Payload(kind, content, dirty, di, gdi, ts) \in Payloads
  BY DEF Payload, Payloads

LEMMA GoneTyped == Gone \in Payloads /\ NoRow \in Rows /\ NoAnswer \in Answers /\ NoRequest \in Requests /\ Idle \in Rounds
  BY DEF Gone, Payload, Payloads, NoRow, Row, Rows, NoAnswer, Answer, Answers, NoRequest, Requests, Idle, Rounds, Steps, Kinds, Content

LEMMA ReceivedTyped ==
    ASSUME NEW row \in Rows PROVE Received(row) \in Payloads /\ Received(row).content = row.content
  BY DEF Received, Payload, Payloads, Rows

LEMMA FinalizeTyped ==
    ASSUME NEW p \in Payloads, NEW b \in Payloads, counter \in Nat
    PROVE  Finalize(p, b) \in Payloads /\ Finalize(p, b).content = p.content
<1> DEFINE Shape == [kind : Kinds, content : Content, dirty : BOOLEAN, dirtyIndex : Nat, lastSync : Nat, ts : Nat]
<1>1. p \in Shape
  BY DEF Payloads
<1>2. StillDirty(b) \in BOOLEAN /\ (IF StillDirty(b) THEN counter + 1 ELSE 0) \in Nat
  BY DEF StillDirty
<1>3. Finalize(p, b) \in Shape
  BY <1>1, <1>2 DEF Finalize
<1>4. Finalize(p, b).content = p.content /\ Finalize(p, b).kind = p.kind
  BY <1>1 DEF Finalize
<1>. QED BY <1>1, <1>3, <1>4 DEF Payloads

LEMMA StrategiesTyped ==
    ASSUME NEW b \in Payloads, NEW dups, NEW row \in Rows, counter \in Nat, NEW x \in Strategies(b, dups, row)
    PROVE  Made1(x, b.content \cup row.content)
<1> DEFINE Shape == [kind : Kinds, content : Content, dirty : BOOLEAN, dirtyIndex : Nat, lastSync : Nat, ts : Nat]
           kept == [b EXCEPT !.ts = row.ts, !.dirty = TRUE, !.dirtyIndex = counter + 1]
<1>1. CASE x = KeepApply(row) BY <1>1, ReceivedTyped DEF KeepApply, Emits, Made1
<1>2. kept \in Payloads /\ kept.content = b.content
  <2>1. b \in Shape /\ row.ts \in Nat /\ counter + 1 \in Nat
    BY DEF Payloads, Rows
  <2>2. kept \in Shape
    BY <2>1
  <2>3. kept.content = b.content /\ kept.kind = b.kind
    BY <2>1
  <2>. QED BY <2>2, <2>3 DEF Payloads
<1>3. CASE x \in {KeepBase(b, row), KeepBaseDuplicateApply(b, row)}
  <2>1. KeepBase(b, row) = Emits(kept, {})
    BY DEF KeepBase
  <2>2. KeepBaseDuplicateApply(b, row) = [Emits(kept, {}) EXCEPT !.dups = {row.content}]
    BY DEF KeepBaseDuplicateApply, KeepBase
  <2>. HIDE DEF kept
  <2>3. x.payload = kept /\ x.dups \in {{}, {row.content}}
    BY <1>3, <2>1, <2>2 DEF Emits
  <2>. QED BY <1>2, <2>3 DEF Made1
<1>4. CASE x = DuplicateBaseKeepApply(b, row) BY <1>4, ReceivedTyped DEF DuplicateBaseKeepApply, Emits, Made1
<1>. QED BY <1>1, <1>3, <1>4 DEF Strategies

LEMMA RetrievedTyped ==
    ASSUME NEW b \in Payloads, NEW dups, NEW row \in Rows, counter \in Nat, NEW saving, NEW x \in RetrievedEmits(b, dups, row, saving)
    PROVE  Made1(x, b.content \cup row.content)
<1>1. CASE x = Nothing BY <1>1 DEF Made1
<1>2. CASE x \in Strategies(b, dups, row) BY <1>2, StrategiesTyped
<1>3. CASE x = Emits(Finalize(Received(row), b), {})
  BY <1>3, ReceivedTyped, FinalizeTyped DEF Emits, Made1
<1>. QED BY <1>1, <1>2, <1>3 DEF RetrievedEmits

LEMMA SavedTyped ==
    ASSUME NEW b \in Payloads, NEW at \in Nat, NEW kind, counter \in Nat, NEW x \in SavedEmits(b, at, kind)
    PROVE  Made1(x, b.content)
<1>1. CASE x = Nothing BY <1>1 DEF Made1
<1>2. CASE x = Emits(Gone, {}) BY <1>2, GoneTyped DEF Emits, Made1, Gone, Payload
<1>3. CASE x = Emits(Payload("deleted", {}, TRUE, counter + 1, 0, at), {})
  BY <1>3 DEF Emits, Made1, Payload, Payloads, Kinds, Content
<1>4. CASE x = Emits(Finalize([b EXCEPT !.ts = at], b), {})
  <2>1. [b EXCEPT !.ts = at] \in Payloads /\ [b EXCEPT !.ts = at].content = b.content BY DEF Payloads
  <2>. QED BY <1>4, <2>1, FinalizeTyped DEF Emits, Made1
<1>. QED BY <1>1, <1>2, <1>3, <1>4 DEF SavedEmits

LEMMA ConflictTyped ==
    ASSUME NEW b \in Payloads, NEW dups, NEW row \in Rows, counter \in Nat, NEW x \in ConflictEmits(b, dups, row)
    PROVE  Made1(x, b.content \cup row.content)
<1>1. CASE x = Nothing BY <1>1 DEF Made1
<1>2. CASE x \in Strategies(b, dups, row) BY <1>2, StrategiesTyped
<1>3. CASE x = Emits(Received(row), {}) BY <1>3, ReceivedTyped DEF Emits, Made1
<1>. QED BY <1>1, <1>2, <1>3 DEF ConflictEmits

LEMMA KeptTyped ==
    ASSUME NEW p \in Payloads PROVE Kept(p) \in Payloads /\ Kept(p).content \subseteq p.content
  BY GoneTyped DEF Kept, Gone, Payload, Payloads

\* A resolution is put together from one emission of each delta.
Resolution(now, x, y, z) ==
    [payload |-> Resolved(Resolved(Resolved(now, x), y), z), dups |-> x.dups \cup z.dups, emitted |-> {x, y, z} # {Nothing}]

LEMMA Resolves ==
    ASSUME NEW b, NEW dups, NEW a, NEW saving, NEW kind, NEW now, NEW r \in Resolutions(b, dups, a, saving, kind, now)
    PROVE  \E x \in RetrievedEmits(b, dups, a.got, saving), y \in SavedEmits(b, a.saved, kind), z \in ConflictEmits(b, dups, a.conflict) :
             r = Resolution(now, x, y, z)
<1>1. Resolutions(b, dups, a, saving, kind, now) =
        {Resolution(now, x, y, z) : x \in RetrievedEmits(b, dups, a.got, saving), y \in SavedEmits(b, a.saved, kind),
                                    z \in ConflictEmits(b, dups, a.conflict)}
  BY DEF Resolutions, Resolution
<1>. QED BY <1>1

LEMMA ResolutionFields == \A now, x, y, z :
    /\ Resolution(now, x, y, z).payload = Resolved(Resolved(Resolved(now, x), y), z)
    /\ Resolution(now, x, y, z).dups = x.dups \cup z.dups
    /\ Resolution(now, x, y, z).emitted = ({x, y, z} # {Nothing}) /\ Resolution(now, x, y, z).emitted \in BOOLEAN
  BY DEF Resolution

LEMMA ResolutionTyped ==
    ASSUME counter \in Nat, NEW b \in Payloads, NEW dups, NEW a \in Answers, NEW saving, NEW kind, NEW now \in Payloads,
           NEW r \in Resolutions(b, dups, a, saving, kind, now),
           NEW contents, b.content \cup now.content \cup a.got.content \cup a.conflict.content \subseteq contents
    PROVE  r.payload \in Payloads /\ r.payload.content \subseteq contents /\ r.dups \subseteq SUBSET contents
<1>1. PICK x \in RetrievedEmits(b, dups, a.got, saving), y \in SavedEmits(b, a.saved, kind), z \in ConflictEmits(b, dups, a.conflict) :
        r.payload = Resolved(Resolved(Resolved(now, x), y), z) /\ r.dups = x.dups \cup z.dups
  BY Resolves, ResolutionFields, SMT
<1>2. a.got \in Rows /\ a.conflict \in Rows /\ a.saved \in Nat
  BY DEF Answers
<1>3. Made1(x, contents) /\ Made1(y, contents) /\ Made1(z, contents)
  <2>1. Made1(x, b.content \cup a.got.content) BY <1>1, <1>2, RetrievedTyped
  <2>2. Made1(y, b.content) BY <1>1, <1>2, SavedTyped
  <2>3. Made1(z, b.content \cup a.conflict.content) BY <1>1, <1>2, ConflictTyped
  <2>. QED BY <2>1, <2>2, <2>3 DEF Made1
<1>4. ASSUME NEW p \in Payloads, p.content \subseteq contents, NEW w, Made1(w, contents)
      PROVE  Resolved(p, w) \in Payloads /\ Resolved(p, w).content \subseteq contents /\ w.dups \subseteq SUBSET contents
  BY <1>4, KeptTyped DEF Resolved, Made1, Nothing, Emits
<1>. QED BY <1>1, <1>3, <1>4

-----------------------------------------------------------------------------
(* The types hold, whatever falls into which window                         *)

LEMMA Blanks ==
    /\ Gone.kind = "none" /\ Gone.content = {} /\ Gone.dirty = FALSE /\ Gone.dirtyIndex = 0 /\ Gone.lastSync = 0 /\ Gone.ts = 0
    /\ NoRow.kind = "none" /\ NoRow.content = {} /\ NoRow.ts = 0
    /\ NoAnswer.saved = 0 /\ NoAnswer.got = NoRow /\ NoAnswer.conflict = NoRow /\ NoAnswer.token = 0
  BY DEF Gone, Payload, NoRow, Row, NoAnswer, Answer

LEMMA Unsent0 ==
    /\ NoRequest.sent = FALSE /\ NoRequest.upload = NoRow /\ NoRequest.recorded = FALSE /\ NoRequest.token = 0
    /\ NoRequest.answered = FALSE /\ NoRequest.answer = NoAnswer
  BY DEF NoRequest

LEMMA IdleBlank ==
    /\ Idle.step = "idle" /\ Idle.item = Gone /\ Idle.want = FALSE /\ Idle.doomed = FALSE /\ Idle.frozen = 0
    /\ Idle.answer = NoAnswer /\ Idle.saving = FALSE /\ Idle.pushed = FALSE /\ Idle.base = Gone /\ Idle.baseCopies = {}
    /\ Idle.before = Gone /\ Idle.after = Gone /\ Idle.made = {}
  BY DEF Idle

LEMMA InitTypeInv == Init => TypeInv
<1> SUFFICES ASSUME Init PROVE TypeInv
  OBVIOUS
<1>1. op = Idle /\ req = NoRequest /\ push = NoRow /\ late = {}
  BY DEF Init
<1>2. {} \in Content
  BY DEF Content
<1>3. mem \in Payloads /\ disk \in Payloads /\ server \in Rows
  <2>1. Payload("live", {}, TRUE, 1, 0, 0) \in Payloads /\ Payload("live", {}, FALSE, 0, 0, 1) \in Payloads
    BY <1>2, PayloadTyped DEF Kinds
  <2>2. Row("live", {}, 1) \in Rows
    BY <1>2 DEF Row, Rows, Kinds
  <2>. QED BY <2>1, <2>2, GoneTyped DEF Init
<1>4. mem.content = {} /\ disk.content = {} /\ server.content = {}
  BY Blanks DEF Init, Payload, Row
<1>5. counter \in Nat /\ token \in Nat
  <2>1. 0 \in Nat /\ 1 \in Nat
    OBVIOUS
  <2>. QED BY <2>1, Zenon DEF Init
<1>6. Types
  BY <1>1, <1>3, <1>5, GoneTyped DEF Init, Types
<1>7. Made
  BY <1>1, <1>4, Blanks, Unsent0, IdleBlank DEF Made, RoundMade, RequestMade
<1>. QED BY <1>6, <1>7 DEF TypeInv

-----------------------------------------------------------------------------
(* What the steps do, field by field                                        *)

\* All of the round stays but its step.
Moves(step) ==
    /\ op' \in Rounds /\ op'.step = step
    /\ op'.item = op.item /\ op'.want = op.want /\ op'.doomed = op.doomed /\ op'.frozen = op.frozen
    /\ op'.answer = op.answer /\ op'.saving = op.saving /\ op'.pushed = op.pushed
    /\ op'.base = op.base /\ op'.baseCopies = op.baseCopies
    /\ op'.before = op.before /\ op'.after = op.after /\ op'.made = op.made

LEMMA RoundMoves ==
    ASSUME Types, NEW step \in Steps, op' = [op EXCEPT !.step = step] PROVE Moves(step)
<1>1. op' \in Rounds
  BY Zenon DEF Types, Rounds
<1>. QED BY <1>1 DEF Moves, Types, Rounds

\* A payload's new version: kind, content, and what the indices and the stamp become.
Becomes(p, kind, content, dirty, di, gdi, ts) ==
    p \in Payloads /\ p.kind = kind /\ p.content = content /\ p.dirty = dirty
    /\ p.dirtyIndex = di /\ p.lastSync = gdi /\ p.ts = ts

LEMMA PayloadBecomes ==
    ASSUME NEW kind \in Kinds, NEW content \in Content, kind # "live" => content = {}, NEW dirty \in BOOLEAN,
           NEW di \in Nat, NEW gdi \in Nat, NEW ts \in Nat
    PROVE  Becomes(Payload(kind, content, dirty, di, gdi, ts), kind, content, dirty, di, gdi, ts)
  BY DEF Payload, Payloads, Becomes

LEMMA EditStep ==
    ASSUME Types, Made, NEW e \in Edit, EditItem(e)
    PROVE  /\ Becomes(mem', "live", mem.content \cup {e}, TRUE, counter + 1, mem.lastSync, mem.ts)
           /\ e \in Write /\ mem.kind = "live" /\ counter' = counter + 1 /\ e \notin done
           /\ done' = done \cup {e} /\ owed' = owed \cup {e}
           /\ UNCHANGED <<copies, presaved, durableVars, op, req, serverVars, saved, uploaded, deleted, mishaps>>
<1>1. mem.content \cup {e} \in Content /\ e \in Write /\ mem.lastSync \in Nat /\ mem.ts \in Nat /\ counter + 1 \in Nat
  BY DEF Types, Payloads, Content, Write
<1>2. mem' = Payload("live", mem.content \cup {e}, TRUE, counter + 1, mem.lastSync, mem.ts)
  BY DEF EditItem, Dirtied
<1>3. Becomes(mem', "live", mem.content \cup {e}, TRUE, counter + 1, mem.lastSync, mem.ts)
  BY <1>1, <1>2, PayloadBecomes, Zenon DEF Kinds
<1>. QED BY <1>1, <1>3, Zenon DEF EditItem, NextEdit

LEMMA DeleteStep ==
    ASSUME Types, Made, NEW e \in Edit, DeleteItem(e)
    PROVE  /\ Becomes(mem', "deleted", {}, TRUE, counter + 1, mem.lastSync, mem.ts)
           /\ e \in Write /\ mem.kind = "live" /\ counter' = counter + 1 /\ e \notin done
           /\ done' = done \cup {e} /\ owed' = owed \ mem.content
           /\ UNCHANGED <<copies, presaved, durableVars, op, req, serverVars, saved, uploaded, mishaps>>
<1>1. {} \in Content /\ e \in Write /\ mem.lastSync \in Nat /\ mem.ts \in Nat /\ counter + 1 \in Nat
  BY DEF Types, Payloads, Content, Write
<1>2. mem' = Payload("deleted", {}, TRUE, counter + 1, mem.lastSync, mem.ts)
  BY DEF DeleteItem, Dirtied
<1>3. Becomes(mem', "deleted", {}, TRUE, counter + 1, mem.lastSync, mem.ts)
  BY <1>1, <1>2, PayloadBecomes, Zenon DEF Kinds
<1>. QED BY <1>1, <1>3, Zenon DEF DeleteItem, NextEdit

LEMMA PrepareStep ==
    ASSUME Types, Prepare
    PROVE  /\ op.step = "idle" /\ ~req.sent /\ op' \in Rounds /\ op'.step = "presaving" /\ op'.item = mem
           /\ op'.frozen = counter /\ op'.want = (mem.dirty /\ ~NeverSyncedDeleted) /\ op'.doomed = NeverSyncedDeleted
           /\ op'.answer = NoAnswer /\ op'.saving = FALSE /\ op'.pushed = FALSE
           /\ op'.base = Gone /\ op'.baseCopies = {} /\ op'.before = Gone /\ op'.after = Gone /\ op'.made = {}
           /\ UNCHANGED <<clientVars, durableVars, req, serverVars, history, mishaps>>
<1>1. (mem.dirty /\ ~NeverSyncedDeleted) \in BOOLEAN /\ NeverSyncedDeleted \in BOOLEAN
  BY DEF NeverSyncedDeleted, Payloads
<1>2. op' \in Rounds
  BY <1>1, GoneTyped, Zenon DEF Prepare, Rounds, Steps, Types
<1>3. op' = [Idle EXCEPT !.step = "presaving", !.item = mem, !.frozen = counter,
                          !.want = mem.dirty /\ ~NeverSyncedDeleted, !.doomed = NeverSyncedDeleted]
  BY Zenon DEF Prepare
<1>4. op'.step = "presaving" /\ op'.item = mem
      /\ op'.frozen = counter /\ op'.want = (mem.dirty /\ ~NeverSyncedDeleted) /\ op'.doomed = NeverSyncedDeleted
      /\ op'.answer = NoAnswer /\ op'.saving = FALSE /\ op'.pushed = FALSE
      /\ op'.base = Gone /\ op'.baseCopies = {} /\ op'.before = Gone /\ op'.after = Gone /\ op'.made = {}
  BY <1>3 DEF Idle
<1>. QED BY <1>2, <1>4, Zenon DEF Prepare

\* What is stored of a payload.
Stored(p) == [p EXCEPT !.dirtyIndex = 0, !.lastSync = 0]

LEMMA StoredBecomes ==
    ASSUME NEW p \in Payloads
    PROVE  Becomes(Stored(p), p.kind, p.content, p.dirty, 0, 0, p.ts)
<1>1. p \in [kind : Kinds, content : Content, dirty : BOOLEAN, dirtyIndex : Nat, lastSync : Nat, ts : Nat]
  BY DEF Payloads
<1>2. Stored(p) \in [kind : Kinds, content : Content, dirty : BOOLEAN, dirtyIndex : Nat, lastSync : Nat, ts : Nat]
  BY <1>1 DEF Stored
<1>3. /\ Stored(p).kind = p.kind /\ Stored(p).content = p.content /\ Stored(p).dirty = p.dirty
      /\ Stored(p).dirtyIndex = 0 /\ Stored(p).lastSync = 0 /\ Stored(p).ts = p.ts
  BY <1>1 DEF Stored
<1>. QED BY <1>2, <1>3 DEF Becomes, Payloads

LEMMA PresaveStep ==
    ASSUME Types, Presave
    PROVE  /\ op.step = "presaving" /\ Moves("ready") /\ presaved' = op.frozen
           /\ NeedsSaving => Becomes(disk', op.item.kind, op.item.content, op.item.dirty, 0, 0, op.item.ts)
           /\ ~NeedsSaving => disk' = disk
           /\ saved' = IF op.want THEN saved \cup (op.item.content \cap Edit) ELSE saved
           /\ UNCHANGED <<mem, copies, counter, diskCopies, token, req, serverVars, done, owed, uploaded, deleted, mishaps>>
<1>1. op.item \in Payloads /\ "ready" \in Steps
  BY DEF Types, Rounds, Steps
<1>2. op' = [op EXCEPT !.step = "ready"]
  BY Zenon DEF Presave, PresaveWith
<1>3. Moves("ready")
  BY <1>1, <1>2, RoundMoves, Zenon
<1>4. NeedsSaving => disk' = Stored(op.item)
  BY DEF Presave, PresaveWith, Stored
<1>5. NeedsSaving => Becomes(disk', op.item.kind, op.item.content, op.item.dirty, 0, 0, op.item.ts)
  BY <1>1, <1>4, StoredBecomes, Zenon
<1>. QED BY <1>3, <1>5, Zenon DEF Presave, PresaveWith

LEMMA SendStep ==
    ASSUME Types, NEW recorded \in BOOLEAN, Send(recorded)
    PROVE  /\ op.step = "ready"
           /\ Becomes(mem', mem.kind, mem.content, mem.dirty, mem.dirtyIndex,
                      IF op.want /\ mem.kind # "none" THEN op.frozen ELSE mem.lastSync, mem.ts)
           /\ ~(op.want /\ mem.kind # "none") => mem' = mem
           /\ req' \in Requests /\ req'.sent /\ req'.recorded = recorded /\ req'.token = token
           /\ ~req'.answered /\ req'.answer = NoAnswer
           /\ req'.upload = IF op.want /\ mem.kind # "none" THEN Row(mem.kind, mem.content, mem.ts) ELSE NoRow
           /\ op' \in Rounds /\ op'.step = "sent" /\ op'.item = Gone
           /\ op'.want = op.want /\ op'.doomed = op.doomed /\ op'.frozen = op.frozen
           /\ op'.answer = op.answer /\ op'.saving = op.saving /\ op'.pushed = op.pushed
           /\ op'.base = op.base /\ op'.baseCopies = op.baseCopies
           /\ op'.before = op.before /\ op'.after = op.after /\ op'.made = op.made
           /\ UNCHANGED <<copies, counter, presaved, durableVars, serverVars, history, mishaps>>
<1> DEFINE uploads == op.want /\ mem.kind # "none"
<1>1. mem' = IF uploads THEN [mem EXCEPT !.lastSync = op.frozen] ELSE mem
  BY Zenon DEF Send
<1>2. mem \in [kind : Kinds, content : Content, dirty : BOOLEAN, dirtyIndex : Nat, lastSync : Nat, ts : Nat]
      /\ op.frozen \in Nat
  BY DEF Types, Payloads, Rounds
<1>3. mem' \in [kind : Kinds, content : Content, dirty : BOOLEAN, dirtyIndex : Nat, lastSync : Nat, ts : Nat]
  BY <1>1, <1>2
<1>4. /\ mem'.kind = mem.kind /\ mem'.content = mem.content /\ mem'.dirty = mem.dirty
      /\ mem'.dirtyIndex = mem.dirtyIndex /\ mem'.ts = mem.ts
      /\ mem'.lastSync = IF uploads THEN op.frozen ELSE mem.lastSync
  BY <1>1, <1>2
<1>5. Becomes(mem', mem.kind, mem.content, mem.dirty, mem.dirtyIndex, IF uploads THEN op.frozen ELSE mem.lastSync, mem.ts)
  BY <1>3, <1>4 DEF Becomes, Types, Payloads
<1>6. req' = [NoRequest EXCEPT !.sent = TRUE, !.recorded = recorded, !.token = token,
                      !.upload = IF uploads THEN Row(mem.kind, mem.content, mem.ts) ELSE NoRow]
  BY Zenon DEF Send
<1>7. (IF uploads THEN Row(mem.kind, mem.content, mem.ts) ELSE NoRow) \in Rows
  BY GoneTyped DEF Types, Payloads, Row, Rows
<1>8. req' \in Requests
  BY <1>6, <1>7, GoneTyped, Zenon DEF Types, Requests
<1>9. req'.sent /\ req'.recorded = recorded /\ req'.token = token /\ ~req'.answered /\ req'.answer = NoAnswer
      /\ req'.upload = IF uploads THEN Row(mem.kind, mem.content, mem.ts) ELSE NoRow
  BY <1>6 DEF NoRequest
<1>10. op' = [op EXCEPT !.step = "sent", !.item = Gone]
  BY Zenon DEF Send
<1>11. op' \in Rounds
  BY <1>10, GoneTyped, Zenon DEF Types, Rounds, Steps
<1>12. /\ op'.step = "sent" /\ op'.item = Gone
       /\ op'.want = op.want /\ op'.doomed = op.doomed /\ op'.frozen = op.frozen
       /\ op'.answer = op.answer /\ op'.saving = op.saving /\ op'.pushed = op.pushed
       /\ op'.base = op.base /\ op'.baseCopies = op.baseCopies
       /\ op'.before = op.before /\ op'.after = op.after /\ op'.made = op.made
  BY <1>10 DEF Types, Rounds
<1>13. ~uploads => mem' = mem
  BY <1>1
<1>. QED BY <1>5, <1>8, <1>9, <1>11, <1>12, <1>13, Zenon DEF Send

\* The round is only taken up at a step; all else of it is blank.
Blank ==
    /\ op' \in Rounds /\ op'.item = Gone /\ op'.want = FALSE /\ op'.doomed = FALSE /\ op'.frozen = 0
    /\ op'.saving = FALSE /\ op'.base = Gone /\ op'.baseCopies = {}
    /\ op'.before = Gone /\ op'.after = Gone /\ op'.made = {}

LEMMA IdleStep == ASSUME op' = Idle PROVE Blank /\ op'.step = "idle" /\ op'.answer = NoAnswer /\ op'.pushed = FALSE
  BY GoneTyped, IdleBlank DEF Blank

LEMMA RecoverStep ==
    ASSUME Recover
    PROVE  /\ op.step = "idle" /\ req.sent /\ Blank /\ op'.step = "sent" /\ op'.answer = NoAnswer /\ op'.pushed = FALSE
           /\ UNCHANGED <<clientVars, durableVars, req, serverVars, history, mishaps>>
<1>1. op' = [Idle EXCEPT !.step = "sent"]
  BY Zenon DEF Recover
<1>2. op' \in Rounds
  BY <1>1, GoneTyped, Zenon DEF Rounds, Steps
<1>3. Blank /\ op'.step = "sent" /\ op'.answer = NoAnswer /\ op'.pushed = FALSE
  BY <1>1, <1>2 DEF Blank, Idle
<1>. QED BY <1>3, Zenon DEF Recover

LEMMA AcceptPushStep ==
    ASSUME Types, AcceptPush
    PROVE  /\ push.kind # "none" /\ op.step = "idle" /\ token = push.ts - 1 /\ MayForget /\ push' = NoRow
           /\ Blank /\ op'.step = "pushed" /\ op'.pushed = TRUE
           /\ op'.answer \in Answers /\ op'.answer.saved = 0 /\ op'.answer.conflict = NoRow
           /\ op'.answer.got = push /\ op'.answer.token = push.ts
           /\ UNCHANGED <<clientVars, durableVars, req, server, late, history, mishaps>>
<1>1. op' = [Idle EXCEPT !.step = "pushed", !.pushed = TRUE, !.answer = Answer(0, NoRow, push, push.ts)]
  BY Zenon DEF AcceptPush
<1> DEFINE a == Answer(0, NoRow, push, push.ts)
<1>2. a \in Answers /\ a.saved = 0 /\ a.conflict = NoRow /\ a.got = push /\ a.token = push.ts
  BY GoneTyped DEF Answer, Answers, Types, Rows
<1>3. op' \in Rounds
  BY <1>1, <1>2, GoneTyped, Zenon DEF Rounds, Steps
<1>4. Blank /\ op'.step = "pushed" /\ op'.pushed = TRUE /\ op'.answer = a
  BY <1>1, <1>3 DEF Blank, Idle
<1>. QED BY <1>2, <1>4, Zenon DEF AcceptPush

\* The request is answered; nothing else of it changes.
Answered ==
    /\ req.sent /\ ~req.answered /\ req' \in Requests /\ req'.answered
    /\ req'.sent = req.sent /\ req'.upload = req.upload /\ req'.recorded = req.recorded /\ req'.token = req.token

LEMMA AnsweredWith ==
    ASSUME Types, NEW a \in Answers, req.sent, ~req.answered, req' = [req EXCEPT !.answered = TRUE, !.answer = a]
    PROVE  Answered /\ req'.answer = a
<1>1. req' \in Requests
  BY Zenon DEF Types, Requests
<1>. QED BY <1>1 DEF Answered, Types, Requests

LEMMA AnswerFields ==
    ASSUME NEW at \in Nat, NEW conflict \in Rows, NEW got \in Rows, NEW tok \in Nat
    PROVE  /\ Answer(at, conflict, got, tok) \in Answers
           /\ Answer(at, conflict, got, tok).saved = at /\ Answer(at, conflict, got, tok).conflict = conflict
           /\ Answer(at, conflict, got, tok).got = got /\ Answer(at, conflict, got, tok).token = tok
  BY DEF Answer, Answers

\* The server takes the upload.
Takes(u) ==
    /\ Accepts(u) /\ server' \in Rows
    /\ server'.kind = u.kind /\ server'.content = u.content /\ server'.ts = server.ts + 1
    /\ uploaded' = uploaded \cup u.content

LEMMA TakesRow ==
    ASSUME Types, NEW u \in Rows, Accepts(u), server' = Row(u.kind, u.content, server.ts + 1),
           uploaded' = uploaded \cup u.content
    PROVE  Takes(u)
<1>1. u.kind \in Kinds /\ u.content \in Content /\ (u.kind # "live" => u.content = {}) /\ server.ts + 1 \in Nat
  BY DEF Types, Rows
<1>2. server' \in Rows /\ server'.kind = u.kind /\ server'.content = u.content /\ server'.ts = server.ts + 1
  BY <1>1 DEF Row, Rows
<1>. QED BY <1>2 DEF Takes

LEMMA ExecuteStep ==
    ASSUME Types, NEW echo \in BOOLEAN, Execute(echo)
    PROVE  /\ Answered
           /\ UNCHANGED <<clientVars, durableVars, op, push, late, done, owed, saved, deleted, mishaps>>
           /\ Accepts(req.upload) =>
                 /\ Takes(req.upload)
                 /\ req'.answer.saved = server'.ts /\ req'.answer.conflict = NoRow
                 /\ req'.answer.got = Retrieved(req.token) /\ req'.answer.token \in {server.ts, server'.ts}
           /\ ~Accepts(req.upload) =>
                 /\ UNCHANGED <<server, uploaded>>
                 /\ req'.answer.saved = 0 /\ req'.answer.token = server.ts
                 /\ req'.answer.conflict = (IF req.upload.kind # "none" THEN server ELSE NoRow)
                 /\ req'.answer.got = (IF req.upload.kind # "none" THEN NoRow ELSE Retrieved(req.token))
<1>1. req.upload \in Rows /\ server.ts \in Nat /\ server.ts + 1 \in Nat /\ 0 \in Nat /\ Retrieved(req.token) \in Rows /\ NoRow \in Rows
      /\ server \in Rows
  BY GoneTyped DEF Types, Requests, Rows, Retrieved
<1>2. req.sent /\ ~req.answered
  BY Zenon DEF Execute
<1>3. CASE Accepts(req.upload)
  <2> DEFINE tok == IF echo THEN server.ts ELSE server'.ts
             a == Answer(server'.ts, NoRow, Retrieved(req.token), tok)
  <2>1. server' = Row(req.upload.kind, req.upload.content, server.ts + 1) /\ uploaded' = uploaded \cup req.upload.content
        /\ req' = [req EXCEPT !.answered = TRUE, !.answer = a]
    BY <1>3, Zenon DEF Execute
  <2>2. Takes(req.upload)
    BY <1>1, <1>3, <2>1, TakesRow, Zenon
  <2>3. server'.ts \in Nat /\ tok \in Nat /\ tok \in {server.ts, server'.ts}
    BY <1>1, <2>2 DEF Takes
  <2>. HIDE DEF tok
  <2>4. a \in Answers /\ a.saved = server'.ts /\ a.conflict = NoRow /\ a.got = Retrieved(req.token) /\ a.token = tok
    BY <1>1, <2>3, AnswerFields
  <2>5. Answered /\ req'.answer = a
    BY <1>2, <2>1, <2>4, AnsweredWith, Zenon
  <2>. QED BY <1>3, <2>2, <2>3, <2>4, <2>5, Zenon DEF Execute
<1>4. CASE ~Accepts(req.upload)
  <2> DEFINE a == IF req.upload.kind # "none" THEN Answer(0, server, NoRow, server.ts)
                                              ELSE Answer(0, NoRow, Retrieved(req.token), server.ts)
  <2>1. req' = [req EXCEPT !.answered = TRUE, !.answer = a]
    BY <1>4, Zenon DEF Execute
  <2>2. a \in Answers /\ a.saved = 0 /\ a.token = server.ts
        /\ a.conflict = (IF req.upload.kind # "none" THEN server ELSE NoRow)
        /\ a.got = (IF req.upload.kind # "none" THEN NoRow ELSE Retrieved(req.token))
    BY <1>1 DEF Answer, Answers
  <2>3. Answered /\ req'.answer = a
    BY <1>2, <2>1, <2>2, AnsweredWith, Zenon
  <2>. QED BY <1>4, <2>2, <2>3, Zenon DEF Execute
<1>. QED BY <1>3, <1>4

LEMMA RefuseStep ==
    ASSUME Types, ExecuteRefusing
    PROVE  /\ Answered /\ req.upload.kind # "none"
           /\ req'.answer.saved = 0 /\ req'.answer.token = server.ts /\ req'.answer.conflict = NoRow
           /\ req'.answer.got = Retrieved(req.token)
           /\ UNCHANGED <<clientVars, durableVars, op, serverVars, history>>
<1>1. server.ts \in Nat /\ 0 \in Nat /\ Retrieved(req.token) \in Rows /\ NoRow \in Rows
  BY GoneTyped DEF Types, Rows, Retrieved
<1> DEFINE a == Answer(0, NoRow, Retrieved(req.token), server.ts)
<1>2. req' = [req EXCEPT !.answered = TRUE, !.answer = a] /\ req.sent /\ ~req.answered
  BY Zenon DEF ExecuteRefusing
<1>3. a \in Answers /\ a.saved = 0 /\ a.token = server.ts /\ a.conflict = NoRow /\ a.got = Retrieved(req.token)
  BY <1>1, AnswerFields
<1>4. Answered /\ req'.answer = a
  BY <1>2, <1>3, AnsweredWith, Zenon
<1>. QED BY <1>3, <1>4, Zenon DEF ExecuteRefusing

LEMMA LateStep ==
    ASSUME Types, NEW u \in late, ExecuteLate(u)
    PROVE  /\ late' = late \ {u} /\ u \in Rows
           /\ Takes(u) \/ UNCHANGED <<server, uploaded>>
           /\ UNCHANGED <<clientVars, durableVars, op, req, push, done, owed, saved, deleted, mishaps>>
<1>1. u \in Rows
  BY DEF Types
<1>. QED BY <1>1, TakesRow, Zenon DEF ExecuteLate

LEMMA PeerSavesStep ==
    ASSUME Types, NEW p \in PeerWrite, PeerSaves(p)
    PROVE  /\ p \notin done /\ p \in Write /\ server.kind = "live" /\ push' = server' /\ server' \in Rows
           /\ server'.kind = "live" /\ server'.content = server.content \cup {p} /\ server'.ts = server.ts + 1
           /\ done' = done \cup {p} /\ owed' = owed \cup {p} /\ uploaded' = uploaded \cup {p}
           /\ UNCHANGED <<clientVars, durableVars, op, req, late, saved, deleted, mishaps>>
<1>1. "live" \in Kinds /\ server.content \cup {p} \in Content /\ server.ts + 1 \in Nat /\ p \in Write
  BY DEF Types, Rows, Content, Write, Kinds
<1>2. server' = Row("live", server.content \cup {p}, server.ts + 1)
  BY Zenon DEF PeerSaves
<1>3. server' \in Rows /\ server'.kind = "live" /\ server'.content = server.content \cup {p} /\ server'.ts = server.ts + 1
  BY <1>1, <1>2 DEF Row, Rows
<1>. QED BY <1>1, <1>3, Zenon DEF PeerSaves

LEMMA PeerDeletesStep ==
    ASSUME Types, NEW p \in PeerWrite, PeerDeletes(p)
    PROVE  /\ p \notin done /\ p \in Write /\ server.kind = "live" /\ push' = server' /\ server' \in Rows
           /\ server'.kind = "deleted" /\ server'.content = {} /\ server'.ts = server.ts + 1
           /\ done' = done \cup {p} /\ owed' = owed \ server.content
           /\ UNCHANGED <<clientVars, durableVars, op, req, late, saved, uploaded, mishaps>>
<1>1. "deleted" \in Kinds /\ {} \in Content /\ server.ts + 1 \in Nat /\ p \in Write
  BY DEF Types, Rows, Content, Write, Kinds
<1>2. server' = Row("deleted", {}, server.ts + 1)
  BY Zenon DEF PeerDeletes
<1>3. server' \in Rows /\ server'.kind = "deleted" /\ server'.content = {} /\ server'.ts = server.ts + 1
  BY <1>1, <1>2 DEF Row, Rows
<1>. QED BY <1>1, <1>3, Zenon DEF PeerDeletes

LEMMA SnapshotStep ==
    ASSUME Types, Snapshot
    PROVE  /\ op.step = "sent" /\ req.answered /\ op' \in Rounds /\ op'.step = "answered" /\ op'.answer = req.answer
           /\ op'.saving = Uploading /\ op'.base = mem /\ op'.baseCopies = copies
           /\ op'.item = op.item /\ op'.want = op.want /\ op'.doomed = op.doomed /\ op'.frozen = op.frozen
           /\ op'.pushed = op.pushed /\ op'.before = op.before /\ op'.after = op.after /\ op'.made = op.made
           /\ UNCHANGED <<clientVars, durableVars, req, serverVars, history, mishaps>>
<1>1. op' = [op EXCEPT !.step = "answered", !.answer = req.answer, !.saving = Uploading, !.base = mem, !.baseCopies = copies]
  BY Zenon DEF Snapshot, Uploading
<1>2. req.answer \in Answers /\ Uploading \in BOOLEAN
  BY DEF Types, Requests, Uploading
<1>3. op' \in Rounds
  BY <1>1, <1>2, Zenon DEF Types, Rounds, Steps
<1>4. /\ op'.step = "answered" /\ op'.answer = req.answer /\ op'.saving = Uploading /\ op'.base = mem /\ op'.baseCopies = copies
      /\ op'.item = op.item /\ op'.want = op.want /\ op'.doomed = op.doomed /\ op'.frozen = op.frozen
      /\ op'.pushed = op.pushed /\ op'.before = op.before /\ op'.after = op.after /\ op'.made = op.made
  BY <1>1 DEF Types, Rounds
<1>. QED BY <1>3, <1>4, Zenon DEF Snapshot

\* What is emitted: a resolution of the answer against the base.
EmitsAs(r, base, duplicates) ==
    /\ r \in Resolutions(base, duplicates, op.answer, op.saving, req.upload.kind, mem)
    /\ mem' = r.payload /\ copies' = copies \cup r.dups
    /\ counter' = IF r.payload.dirtyIndex = counter + 1 THEN counter + 1 ELSE counter
    /\ op' \in Rounds /\ op'.step = "emitted" /\ op'.base = Gone /\ op'.baseCopies = {} /\ op'.item = Gone
    /\ op'.before = mem /\ op'.after = r.payload /\ op'.made = r.dups \ copies /\ op'.saving = r.emitted
    /\ op'.want = op.want /\ op'.doomed = op.doomed /\ op'.frozen = op.frozen
    /\ op'.answer = op.answer /\ op'.pushed = op.pushed
    /\ r.payload \in Payloads /\ r.dups \subseteq Content
    /\ UNCHANGED <<presaved, durableVars, req, serverVars, history, mishaps>>

LEMMA EmittingStep ==
    ASSUME Types, NEW base \in Payloads, NEW duplicates, Emitting(base, duplicates),
           NEW contents \in Content,
           base.content \cup mem.content \cup op.answer.got.content \cup op.answer.conflict.content \subseteq contents
    PROVE  \E r : EmitsAs(r, base, duplicates) /\ r.payload.content \subseteq contents /\ r.dups \subseteq SUBSET contents
<1>1. PICK r \in Resolutions(base, duplicates, op.answer, op.saving, req.upload.kind, mem) :
        /\ mem' = r.payload /\ copies' = copies \cup r.dups
        /\ counter' = IF r.payload.dirtyIndex = counter + 1 THEN counter + 1 ELSE counter
        /\ op' = [op EXCEPT !.step = "emitted", !.base = Gone, !.baseCopies = {}, !.item = Gone,
                            !.before = mem, !.after = r.payload, !.made = r.dups \ copies, !.saving = r.emitted]
        /\ UNCHANGED <<presaved, durableVars, req, serverVars, history, mishaps>>
  BY Zenon DEF Emitting
<1>2. counter \in Nat /\ op.answer \in Answers /\ mem \in Payloads
  BY DEF Types, Rounds
<1>3. r.payload \in Payloads /\ r.payload.content \subseteq contents /\ r.dups \subseteq SUBSET contents
  BY <1>1, <1>2, ResolutionTyped
<1>4. r.emitted \in BOOLEAN
  BY <1>1, Resolves, ResolutionFields, SMT
<1>5. r.dups \subseteq Content /\ r.dups \ copies \in SUBSET Content
  BY <1>3 DEF Content
<1>6. op' \in Rounds
  BY <1>1, <1>2, <1>3, <1>4, <1>5, GoneTyped, Zenon DEF Types, Rounds, Steps
<1>7. /\ op'.step = "emitted" /\ op'.base = Gone /\ op'.baseCopies = {} /\ op'.item = Gone
      /\ op'.before = mem /\ op'.after = r.payload /\ op'.made = r.dups \ copies /\ op'.saving = r.emitted
      /\ op'.want = op.want /\ op'.doomed = op.doomed /\ op'.frozen = op.frozen
      /\ op'.answer = op.answer /\ op'.pushed = op.pushed
  BY <1>1 DEF Types, Rounds
<1>8. EmitsAs(r, base, duplicates)
  BY <1>1, <1>3, <1>5, <1>6, <1>7, Zenon DEF EmitsAs
<1>. QED BY <1>3, <1>8

LEMMA PersistStep ==
    ASSUME Types, Persist
    PROVE  /\ op.step = "emitted"
           /\ op.saving => /\ Becomes(disk', op.after.kind, op.after.content, op.after.dirty, 0, 0, op.after.ts)
                           /\ diskCopies' = diskCopies \cup op.made
           /\ ~op.saving => UNCHANGED <<disk, diskCopies>>
           /\ op' \in Rounds /\ op'.step = "stored" /\ op'.before = Gone /\ op'.after = Gone /\ op'.made = {} /\ op'.saving = FALSE
           /\ op'.item = op.item /\ op'.want = op.want /\ op'.doomed = op.doomed /\ op'.frozen = op.frozen
           /\ op'.answer = op.answer /\ op'.pushed = op.pushed /\ op'.base = op.base /\ op'.baseCopies = op.baseCopies
           /\ UNCHANGED <<clientVars, token, req, serverVars, history, mishaps>>
<1>1. op' = [op EXCEPT !.step = "stored", !.before = Gone, !.after = Gone, !.made = {}, !.saving = FALSE]
  BY Zenon DEF Persist
<1>2. op' \in Rounds
  BY <1>1, GoneTyped, Zenon DEF Types, Rounds, Steps
<1>3. /\ op'.step = "stored" /\ op'.before = Gone /\ op'.after = Gone /\ op'.made = {} /\ op'.saving = FALSE
      /\ op'.item = op.item /\ op'.want = op.want /\ op'.doomed = op.doomed /\ op'.frozen = op.frozen
      /\ op'.answer = op.answer /\ op'.pushed = op.pushed /\ op'.base = op.base /\ op'.baseCopies = op.baseCopies
  BY <1>1 DEF Types, Rounds
<1>4. op.after \in Payloads
  BY DEF Types, Rounds
<1>5. op.saving => disk' = Stored(op.after)
  BY Zenon DEF Persist, Stored
<1>6. op.saving => Becomes(disk', op.after.kind, op.after.content, op.after.dirty, 0, 0, op.after.ts)
  BY <1>4, <1>5, StoredBecomes, Zenon
<1>. QED BY <1>2, <1>3, <1>6, Zenon DEF Persist

LEMMA NoteTokenStep ==
    ASSUME Types, NoteToken
    PROVE  /\ op.step = "stored" /\ token' = op.answer.token /\ Moves("noted")
           /\ UNCHANGED <<clientVars, disk, diskCopies, req, serverVars, history, mishaps>>
<1>1. op' = [op EXCEPT !.step = "noted"] /\ "noted" \in Steps
  BY Zenon DEF NoteToken, Steps
<1>2. Moves("noted")
  BY <1>1, RoundMoves, Zenon
<1>. QED BY <1>2, Zenon DEF NoteToken

-----------------------------------------------------------------------------
(* The types hold, whatever falls into which window                         *)

\* A round that ends leaves nothing of itself, and may leave its request.
LEMMA EndTyped ==
    ASSUME TypeInv, Blank, op'.answer = NoAnswer, req' \in {req, NoRequest}, done \subseteq done'
    PROVE  op' \in Rounds /\ req' \in Requests /\ RoundMade' /\ RequestMade'
<1>1. op' \in Rounds /\ req' \in Requests
  BY GoneTyped DEF Blank, TypeInv, Types
<1>2. RoundMade'
  BY Blanks DEF Blank, RoundMade
<1>3. RequestMade'
  <2>1. CASE req' = req BY <2>1 DEF TypeInv, Made, RequestMade
  <2>2. CASE req' = NoRequest BY <2>2, Blanks, Unsent0 DEF RequestMade
  <2>. QED BY <2>1, <2>2
<1>. QED BY <1>1, <1>2, <1>3

\* What is kept is still made.
LEMMA KeptMade ==
    ASSUME Made, done \subseteq done'
    PROVE  /\ mem' = mem => mem'.content \subseteq done'
           /\ disk' = disk => disk'.content \subseteq done'
           /\ server' = server => server'.content \subseteq done'
           /\ push' = push => push'.content \subseteq done'
           /\ late' = late => \A u \in late' : u.content \subseteq done'
           /\ op' = op => RoundMade'
           /\ req' = req => RequestMade'
  BY DEF Made, RoundMade, RequestMade

LEMMA SyncTypeInv == TypeInv /\ Sync => TypeInv'
<1> SUFFICES ASSUME TypeInv, Sync PROVE TypeInv'
  OBVIOUS
<1>0. Types /\ Made
  BY DEF TypeInv
<1>1. CASE Prepare
  <2>1. Types'
    BY <1>0, <1>1, PrepareStep DEF Types, clientVars, durableVars, serverVars, history
  <2>2. RoundMade'
    BY <1>0, <1>1, PrepareStep, Blanks DEF Made, RoundMade, history
  <2>3. Made'
    BY <1>0, <1>1, <2>2, PrepareStep, KeptMade DEF Made, clientVars, durableVars, serverVars, history
  <2>. QED BY <2>1, <2>3 DEF TypeInv
<1>2. CASE Presave
  <2>1. op.item \in Payloads
    BY <1>0 DEF Types, Rounds
  <2>2. Types'
    BY <1>0, <1>2, <2>1, PresaveStep DEF Types, Made, RoundMade, Moves, Becomes, Rounds, durableVars, serverVars
  <2>3. RoundMade'
    BY <1>0, <1>2, PresaveStep DEF Made, RoundMade, Moves
  <2>4. Made'
    BY <1>0, <1>2, <2>3, PresaveStep DEF Made, RoundMade, RequestMade, Becomes, serverVars
  <2>. QED BY <2>2, <2>4 DEF TypeInv
<1>3. ASSUME NEW recorded \in BOOLEAN, Send(recorded) PROVE TypeInv'
  <2>1. Types'
    BY <1>0, <1>3, SendStep DEF Types, Becomes, clientVars, durableVars, serverVars, history
  <2>2. RoundMade'
    BY <1>0, <1>3, SendStep, Blanks DEF Made, RoundMade, history
  <2>3. RequestMade'
    BY <1>0, <1>3, SendStep, Blanks DEF Made, RequestMade, Row, history
  <2>4. Made'
    BY <1>0, <1>3, <2>2, <2>3, SendStep, KeptMade DEF Made, Becomes, durableVars, serverVars, history
  <2>. QED BY <2>1, <2>4 DEF TypeInv
<1>4. CASE Recover
  <2>1. op' \in Rounds /\ RoundMade' /\ RequestMade' /\ req' = req
    BY <1>4, RecoverStep, EndTyped DEF history
  <2>. QED BY <1>0, <1>4, <2>1, RecoverStep DEF TypeInv, Types, Made, clientVars, durableVars, serverVars, history
<1>5. CASE Snapshot
  <2>1. Types'
    BY <1>0, <1>5, SnapshotStep DEF Types, clientVars, durableVars, serverVars, history
  <2>2. RoundMade'
    BY <1>0, <1>5, SnapshotStep DEF Made, RoundMade, RequestMade, clientVars, history
  <2>. QED BY <1>0, <1>5, <2>1, <2>2, SnapshotStep, KeptMade DEF TypeInv, Made, clientVars, durableVars, serverVars, history
<1>6. ASSUME NEW base \in {mem, op.base}, NEW duplicates, Emitting(base, duplicates) PROVE TypeInv'
  <2>1. base \in Payloads /\ base.content \subseteq done /\ done \in Content
    BY <1>0 DEF Types, Made, RoundMade, Rounds, Content
  <2>2. base.content \cup mem.content \cup op.answer.got.content \cup op.answer.conflict.content \subseteq done
    BY <1>0, <2>1 DEF Made, RoundMade
  <2>3. PICK r : EmitsAs(r, base, duplicates) /\ r.payload.content \subseteq done
    BY <1>0, <1>6, <2>1, <2>2, EmittingStep
  <2>4. Types'
    BY <1>0, <2>3 DEF EmitsAs, Types, durableVars, serverVars, history
  <2>5. RoundMade'
    BY <1>0, <2>3, Blanks DEF EmitsAs, Made, RoundMade, history
  <2>6. Made'
    BY <1>0, <2>3, <2>5, KeptMade DEF EmitsAs, Made, durableVars, serverVars, history
  <2>. QED BY <2>4, <2>6 DEF TypeInv
<1>7. CASE Persist
  <2>1. Types'
    BY <1>0, <1>7, PersistStep DEF Types, Becomes, Rounds, clientVars, serverVars, history
  <2>2. RoundMade'
    BY <1>0, <1>7, PersistStep, Blanks DEF Made, RoundMade, history
  <2>3. Made'
    BY <1>0, <1>7, <2>2, PersistStep, KeptMade DEF Made, RoundMade, Becomes, clientVars, serverVars, history
  <2>. QED BY <2>1, <2>3 DEF TypeInv
<1>8. CASE NoteToken
  <2>1. Types'
    BY <1>0, <1>8, NoteTokenStep DEF Types, Moves, Rounds, Answers, clientVars, serverVars, history
  <2>2. RoundMade'
    BY <1>0, <1>8, NoteTokenStep DEF Made, RoundMade, Moves, history
  <2>. QED BY <1>0, <1>8, <2>1, <2>2, NoteTokenStep, KeptMade DEF TypeInv, Made, clientVars, serverVars, history
<1>9. CASE Finish
  <2>1. op' = Idle /\ req' \in {req, NoRequest} /\ mem' \in {mem, Gone} /\ disk' \in {disk, Gone}
        /\ UNCHANGED <<copies, counter, presaved, diskCopies, token, serverVars, history, mishaps>>
    BY <1>9, Zenon DEF Finish
  <2>2. op' \in Rounds /\ req' \in Requests /\ RoundMade' /\ RequestMade'
    BY <2>1, IdleStep, EndTyped DEF history
  <2>. QED BY <1>0, <2>1, <2>2, GoneTyped, Blanks DEF TypeInv, Types, Made, serverVars, history
<1>. QED BY <1>0, <1>1, <1>2, <1>3, <1>4, <1>5, <1>6, <1>7, <1>8, <1>9 DEF Sync, Emission, Emit, EmitPushed

\* The request's answer changes, or the server's row, and nothing else.
LEMMA ServeTypeInv == TypeInv /\ Serve => TypeInv'
<1> SUFFICES ASSUME TypeInv, NEW echo \in BOOLEAN, Execute(echo) PROVE TypeInv'
  BY DEF Serve
<1>0. Types /\ Made /\ req.upload \in Rows
  BY DEF TypeInv, Types, Requests
<1>1. NoRow.content = {} /\ Retrieved(req.token).content \subseteq done
  BY <1>0, Blanks DEF Made, Retrieved
<1>2. CASE Accepts(req.upload)
  <2>1. Takes(req.upload) /\ Answered /\ req'.answer.conflict = NoRow /\ req'.answer.got = Retrieved(req.token)
        /\ UNCHANGED <<clientVars, durableVars, op, push, late, done, owed, saved, deleted, mishaps>>
    BY <1>0, <1>2, ExecuteStep
  <2>2. Types'
    BY <1>0, <2>1 DEF Types, Takes, Answered, Made, RequestMade, clientVars, durableVars
  <2>3. RequestMade'
    BY <1>0, <1>1, <2>1 DEF RequestMade, Made, Answered
  <2>4. Made'
    BY <1>0, <2>1, <2>3, KeptMade DEF Made, RequestMade, Takes, clientVars, durableVars
  <2>. QED BY <2>2, <2>4 DEF TypeInv
<1>3. CASE ~Accepts(req.upload)
  <2>1. UNCHANGED <<server, uploaded>> /\ Answered /\ req'.answer.conflict \in {server, NoRow}
        /\ req'.answer.got \in {NoRow, Retrieved(req.token)}
        /\ UNCHANGED <<clientVars, durableVars, op, push, late, done, owed, saved, deleted, mishaps>>
    BY <1>0, <1>3, ExecuteStep
  <2>2. Types'
    BY <1>0, <2>1 DEF Types, Answered, clientVars, durableVars
  <2>3. RequestMade'
    BY <1>0, <1>1, <2>1 DEF RequestMade, Made, Answered
  <2>4. Made'
    BY <1>0, <2>1, <2>3, KeptMade DEF Made, clientVars, durableVars
  <2>. QED BY <2>2, <2>4 DEF TypeInv
<1>. QED BY <1>2, <1>3

LEMMA UserTypeInv == TypeInv /\ User => TypeInv'
<1> SUFFICES ASSUME TypeInv, User PROVE TypeInv'
  OBVIOUS
<1>0. Types /\ Made
  BY DEF TypeInv
<1>1. ASSUME NEW e \in Edit, e \in Write, mem' \in Payloads, mem'.content \subseteq mem.content \cup {e},
             counter' = counter + 1, done' = done \cup {e}, owed' \subseteq owed \cup {e},
             UNCHANGED <<copies, presaved, durableVars, op, req, serverVars, saved, uploaded>>
      PROVE  TypeInv'
  <2>1. Types'
    BY <1>0, <1>1 DEF Types, durableVars, serverVars
  <2>2. Made'
    BY <1>0, <1>1, KeptMade DEF Made, durableVars, serverVars
  <2>. QED BY <2>1, <2>2 DEF TypeInv
<1>2. ASSUME NEW e \in Edit, EditItem(e) PROVE TypeInv'
  <2>1. Becomes(mem', "live", mem.content \cup {e}, TRUE, counter + 1, mem.lastSync, mem.ts)
    BY <1>0, <1>2, EditStep
  <2>2. mem' \in Payloads /\ mem'.content = mem.content \cup {e}
    BY <2>1 DEF Becomes
  <2>. QED BY <1>0, <1>1, <1>2, <2>2, EditStep DEF durableVars, serverVars
<1>3. ASSUME NEW e \in Edit, DeleteItem(e) PROVE TypeInv'
  <2>1. Becomes(mem', "deleted", {}, TRUE, counter + 1, mem.lastSync, mem.ts)
    BY <1>0, <1>3, DeleteStep
  <2>2. mem' \in Payloads /\ mem'.content = {}
    BY <2>1 DEF Becomes
  <2>. QED BY <1>0, <1>1, <1>3, <2>2, DeleteStep DEF durableVars, serverVars
<1>. QED BY <1>2, <1>3 DEF User

LEMMA PeersTypeInv == TypeInv /\ Peers => TypeInv'
<1> SUFFICES ASSUME TypeInv, Peers PROVE TypeInv'
  OBVIOUS
<1>0. Types /\ Made
  BY DEF TypeInv
<1>1. ASSUME NEW p \in PeerWrite, PeerSaves(p) PROVE TypeInv'
  <2>1. Types'
    BY <1>0, <1>1, PeerSavesStep DEF Types, clientVars, durableVars
  <2>2. Made'
    BY <1>0, <1>1, PeerSavesStep, KeptMade DEF Made, clientVars, durableVars
  <2>. QED BY <2>1, <2>2 DEF TypeInv
<1>2. ASSUME NEW p \in PeerWrite, PeerDeletes(p) PROVE TypeInv'
  <2>1. Types'
    BY <1>0, <1>2, PeerDeletesStep DEF Types, clientVars, durableVars
  <2>2. Made'
    BY <1>0, <1>2, PeerDeletesStep, KeptMade DEF Made, clientVars, durableVars
  <2>. QED BY <2>1, <2>2 DEF TypeInv
<1>. QED BY <1>1, <1>2 DEF Peers

LEMMA AcceptPushTypeInv == TypeInv /\ AcceptPush => TypeInv'
<1> SUFFICES ASSUME TypeInv, AcceptPush PROVE TypeInv'
  OBVIOUS
<1>0. Types /\ Made
  BY DEF TypeInv
<1>1. Types'
  BY <1>0, AcceptPushStep, GoneTyped DEF Types, Blank, clientVars, durableVars, history
<1>2. RoundMade'
  BY <1>0, AcceptPushStep, Blanks DEF Made, RoundMade, Blank, history
<1>3. Made'
  BY <1>0, <1>2, AcceptPushStep, KeptMade, Blanks DEF Made, clientVars, durableVars, history
<1>. QED BY <1>1, <1>3 DEF TypeInv

LEMMA LateTypeInv == TypeInv /\ (\E u \in late : ExecuteLate(u)) => TypeInv'
<1> SUFFICES ASSUME TypeInv, NEW u \in late, ExecuteLate(u) PROVE TypeInv'
  OBVIOUS
<1>0. Types /\ Made
  BY DEF TypeInv
<1>1. CASE Takes(u)
  <2>1. Types'
    BY <1>0, <1>1, LateStep DEF Types, Takes, Made, clientVars, durableVars
  <2>2. Made'
    BY <1>0, <1>1, LateStep, KeptMade DEF Made, Takes, clientVars, durableVars
  <2>. QED BY <2>1, <2>2 DEF TypeInv
<1>2. CASE UNCHANGED <<server, uploaded>>
  <2>1. Types'
    BY <1>0, <1>2, LateStep DEF Types, clientVars, durableVars
  <2>2. Made'
    BY <1>0, <1>2, LateStep, KeptMade DEF Made, clientVars, durableVars
  <2>. QED BY <2>1, <2>2 DEF TypeInv
<1>. QED BY <1>0, <1>1, <1>2, LateStep

\* A round that ends early: the item is what it was, before the round or on disk.
LEMMA FaultsTypeInv == TypeInv /\ Faults => TypeInv'
<1> SUFFICES ASSUME TypeInv, Faults PROVE TypeInv'
  OBVIOUS
<1>0. Types /\ Made /\ op.before \in Payloads
  BY DEF TypeInv, Types, Rounds
<1>1. CASE ExecuteRefusing
  <2>1. Retrieved(req.token).content \subseteq done
    BY <1>0, Blanks DEF Made, Retrieved
  <2>2. Types'
    BY <1>0, <1>1, RefuseStep DEF Types, Answered, clientVars, durableVars, serverVars, history
  <2>3. RequestMade'
    BY <1>0, <1>1, <2>1, RefuseStep, Blanks DEF RequestMade, Made, Answered, history
  <2>4. Made'
    BY <1>0, <1>1, <2>3, RefuseStep, KeptMade DEF Made, clientVars, durableVars, serverVars, history
  <2>. QED BY <2>2, <2>4 DEF TypeInv
<1>2. ASSUME op' = Idle, req' \in {req, NoRequest}, late' \in {late, late \cup {req.upload}}, mem' \in {mem, disk, op.before},
             copies' \in {copies, copies \ op.made, diskCopies}, counter' \in {counter, 0}, presaved' \in {presaved, -1},
             owed' \in {owed, owed \cap (saved \cup uploaded)},
             UNCHANGED <<durableVars, server, push, done, saved, uploaded>>
      PROVE  TypeInv'
  <2>1. op' \in Rounds /\ req' \in Requests /\ RoundMade' /\ RequestMade'
    BY <1>2, IdleStep, EndTyped
  <2>2. Types'
    BY <1>0, <1>2, <2>1 DEF Types, Requests, durableVars
  <2>3. mem'.content \subseteq done' /\ \A u \in late' : u.content \subseteq done'
    BY <1>0, <1>2 DEF Made, RoundMade, RequestMade
  <2>4. Made'
    BY <1>0, <1>2, <2>1, <2>3, KeptMade DEF Made, durableVars
  <2>. QED BY <2>2, <2>4 DEF TypeInv
<1>3. CASE PresaveFails
  BY <1>2, <1>3 DEF PresaveFails, clientVars, durableVars, serverVars, history
<1>4. CASE PersistFails
  BY <1>2, <1>4 DEF PersistFails, Ended, durableVars, serverVars, history
<1>5. CASE NoteTokenFails
  BY <1>2, <1>5 DEF NoteTokenFails, Ended, clientVars, durableVars, serverVars, history
<1>6. CASE FinishUnacknowledged
  BY <1>2, <1>6 DEF FinishUnacknowledged, clientVars, durableVars, serverVars, history
<1>7. CASE RequestFails
  BY <1>2, <1>7 DEF RequestFails, Abandoned, Ended, clientVars, durableVars, history
<1>8. CASE NeverApplied
  BY <1>2, <1>8 DEF NeverApplied, clientVars, durableVars, serverVars, history
<1>9. CASE Reload
  BY <1>2, <1>9 DEF Reload, Abandoned, durableVars
<1>. QED BY <1>1, <1>3, <1>4, <1>5, <1>6, <1>7, <1>8, <1>9 DEF Faults

LEMMA NextTypeInv == TypeInv /\ [Next]_vars => TypeInv'
<1>1. TypeInv /\ UNCHANGED vars => TypeInv'
  BY DEF vars, clientVars, durableVars, serverVars, history, TypeInv, Types, Made, RoundMade, RequestMade
<1>. QED BY <1>1, SyncTypeInv, ServeTypeInv, UserTypeInv, PeersTypeInv, FaultsTypeInv, AcceptPushTypeInv, LateTypeInv DEF Next

\* The shape of the state, whatever falls into which window: above all, that a payload without content is never
\* anything but a deletion.
THEOREM ClientTyped == Spec => []TypeOK
<1>1. TypeInv => TypeOK
  <2> SUFFICES ASSUME TypeInv PROVE TypeOK
    OBVIOUS
  <2>1. /\ mem \in Payloads /\ disk \in Payloads
        /\ op.item \in Payloads /\ op.base \in Payloads /\ op.before \in Payloads /\ op.after \in Payloads
    BY DEF TypeInv, Types, Rounds
  <2>2. /\ server \in Rows /\ push \in Rows /\ req.upload \in Rows
        /\ req.answer.got \in Rows /\ req.answer.conflict \in Rows /\ \A u \in late : u \in Rows
    BY DEF TypeInv, Types, Requests, Answers
  <2>3. \A p \in Payloads : IsPayload(p)
    BY DEF Payloads, IsPayload
  <2>4. \A r \in Rows : IsRow(r)
    BY DEF Rows, IsRow
  <2>5. \A p \in {mem, disk, op.item, op.base, op.before, op.after} : IsPayload(p)
    BY <2>1, <2>3
  <2>6. \A r \in {server, push, req.upload, req.answer.got, req.answer.conflict} \cup late : IsRow(r)
    BY <2>2, <2>4
  <2>7. \A p \in {mem, disk} : p.kind # "live" => p.content = {}
    BY <2>1 DEF Payloads
  <2>. QED BY <2>5, <2>6, <2>7 DEF TypeOK, TypeInv, Types
<1>. QED BY <1>1, InitTypeInv, NextTypeInv, PTL DEF Spec

-----------------------------------------------------------------------------
(* What an answer makes of the item                                         *)

LEMMA PayloadNotRow == ASSUME NEW p \in Payloads PROVE p # NoRow
<1>1. "dirty" \in DOMAIN p
  BY DEF Payloads
<1>2. "dirty" \notin DOMAIN NoRow
  BY DEF NoRow, Row
<1>. QED BY <1>1, <1>2

LEMMA EmitsSomething ==
    ASSUME NEW p \in Payloads, NEW dups
    PROVE  Emits(p, dups) # Nothing /\ Emits(p, dups).payload = p /\ Emits(p, dups).dups = dups
  BY PayloadNotRow DEF Emits, Nothing

\* The row takes the item's place, and the item is duplicated unless it adds nothing.
AppliesRow(x, b, row) ==
    /\ x # Nothing /\ x.payload = Received(row) /\ x.dups \in {{}, {b.content}}
    /\ x.dups = {} => b.kind # "live" \/ ~b.dirty \/ (row.kind = "live" /\ row.content = b.content)

\* The item stays, on top of the row, which is duplicated unless it adds nothing.
KeepsBase(x, b, duplicates, row) ==
    /\ x # Nothing /\ b.kind = "live" /\ row.kind = "live" /\ x.dups \in {{}, {row.content}}
    /\ Becomes(x.payload, "live", b.content, TRUE, counter + 1, b.lastSync, row.ts)
    /\ x.dups = {} => row.content \in duplicates \/ row.content \subseteq b.content

LEMMA BaseKept ==
    ASSUME NEW b \in Payloads, NEW row \in Rows, counter \in Nat, b.kind = "live"
    PROVE  Becomes([b EXCEPT !.ts = row.ts, !.dirty = TRUE, !.dirtyIndex = counter + 1],
                   "live", b.content, TRUE, counter + 1, b.lastSync, row.ts)
<1> DEFINE kept == [b EXCEPT !.ts = row.ts, !.dirty = TRUE, !.dirtyIndex = counter + 1]
<1>1. b \in [kind : Kinds, content : Content, dirty : BOOLEAN, dirtyIndex : Nat, lastSync : Nat, ts : Nat]
      /\ row.ts \in Nat /\ counter + 1 \in Nat
  BY DEF Payloads, Rows
<1>2. kept \in [kind : Kinds, content : Content, dirty : BOOLEAN, dirtyIndex : Nat, lastSync : Nat, ts : Nat]
  BY <1>1
<1>3. /\ kept.kind = b.kind /\ kept.content = b.content /\ kept.dirty = TRUE
      /\ kept.dirtyIndex = counter + 1 /\ kept.lastSync = b.lastSync /\ kept.ts = row.ts
  BY <1>1
<1>. QED BY <1>2, <1>3 DEF Becomes, Payloads

LEMMA StrategyOutcome ==
    ASSUME NEW b \in Payloads, NEW duplicates, NEW row \in Rows, counter \in Nat, row.kind # "none",
           NEW x \in Strategies(b, duplicates, row)
    PROVE  AppliesRow(x, b, row) \/ KeepsBase(x, b, duplicates, row)
<1> DEFINE kept == [b EXCEPT !.ts = row.ts, !.dirty = TRUE, !.dirtyIndex = counter + 1]
<1>1. Received(row) \in Payloads
  BY ReceivedTyped
<1>2. CASE x = KeepApply(row) /\ (b.kind # "live" \/ ~b.dirty \/ (row.kind = "live" /\ row.content = b.content))
  BY <1>1, <1>2, EmitsSomething DEF KeepApply, AppliesRow
<1>3. CASE x = DuplicateBaseKeepApply(b, row)
  <2>1. x = Emits(Received(row), {b.content})
    BY <1>3, Zenon DEF DuplicateBaseKeepApply
  <2>2. x # Nothing /\ x.payload = Received(row) /\ x.dups = {b.content}
    BY <1>1, <2>1, EmitsSomething, Zenon
  <2>. QED BY <2>2 DEF AppliesRow
<1>4. ASSUME b.kind = "live" PROVE kept \in Payloads /\ Becomes(kept, "live", b.content, TRUE, counter + 1, b.lastSync, row.ts)
  <2>1. Becomes(kept, "live", b.content, TRUE, counter + 1, b.lastSync, row.ts)
    BY <1>4, BaseKept, Zenon
  <2>. QED BY <2>1 DEF Becomes
<1>5. CASE b.kind = "live" /\ row.kind = "live" /\ x = KeepBase(b, row)
           /\ (row.content \in duplicates \/ row.content \subseteq b.content)
  <2>. HIDE DEF kept
  <2>1. kept \in Payloads /\ x = Emits(kept, {})
    BY <1>4, <1>5 DEF KeepBase, kept
  <2>2. x # Nothing /\ x.payload = kept /\ x.dups = {}
    BY <2>1, EmitsSomething, Zenon
  <2>. QED BY <1>4, <1>5, <2>2, Zenon DEF KeepsBase
<1>6. CASE b.kind = "live" /\ row.kind = "live" /\ x = KeepBaseDuplicateApply(b, row)
  <2>. HIDE DEF kept
  <2>1. kept \in Payloads /\ x = Emits(kept, {row.content})
    <3>1. KeepBaseDuplicateApply(b, row) = Emits(kept, {row.content})
      BY DEF KeepBaseDuplicateApply, KeepBase, Emits, kept
    <3>. QED BY <1>4, <1>6, <3>1, Zenon
  <2>2. x # Nothing /\ x.payload = kept /\ x.dups = {row.content}
    BY <2>1, EmitsSomething, Zenon
  <2>3. x.dups # {}
    BY <2>2
  <2>. QED BY <1>4, <1>6, <2>2, <2>3, Zenon DEF KeepsBase
<1>. QED BY <1>2, <1>3, <1>5, <1>6 DEF Strategies

\* The item was saved; it stays dirty if it was edited meanwhile.
Saves(x, b, at) ==
    /\ x # Nothing /\ x.dups = {}
    /\ b.kind = "live" => Becomes(x.payload, "live", b.content, StillDirty(b),
                                  IF StillDirty(b) THEN counter + 1 ELSE 0, b.lastSync, at)
    /\ b.kind # "live" => x.payload = Gone \/ Becomes(x.payload, "deleted", {}, TRUE, counter + 1, 0, at)

LEMMA SavedOutcome ==
    ASSUME NEW b \in Payloads, NEW at \in Nat, at # 0, counter \in Nat, NEW kind, NEW x \in SavedEmits(b, at, kind)
    PROVE  Saves(x, b, at)
<1>1. b \in [kind : Kinds, content : Content, dirty : BOOLEAN, dirtyIndex : Nat, lastSync : Nat, ts : Nat] /\ b.kind \in Kinds
  BY DEF Payloads
<1>2. CASE x = Emits(Gone, {}) /\ b.kind # "live"
  <2>1. x # Nothing /\ x.payload = Gone /\ x.dups = {}
    BY <1>2, GoneTyped, EmitsSomething, Zenon
  <2>. QED BY <1>2, <2>1, Zenon DEF Saves
<1>3. CASE x = Emits(Payload("deleted", {}, TRUE, counter + 1, 0, at), {}) /\ b.kind # "live"
  <2>1. Becomes(Payload("deleted", {}, TRUE, counter + 1, 0, at), "deleted", {}, TRUE, counter + 1, 0, at)
    BY DEF Payload, Payloads, Becomes, Kinds, Content
  <2> DEFINE p == Payload("deleted", {}, TRUE, counter + 1, 0, at)
  <2>2. p \in Payloads
    BY <2>1 DEF Becomes
  <2>. HIDE DEF p
  <2>3. x = Emits(p, {})
    BY <1>3 DEF p
  <2>4. x # Nothing /\ x.payload = p /\ x.dups = {}
    BY <2>2, <2>3, EmitsSomething
  <2>5. Becomes(x.payload, "deleted", {}, TRUE, counter + 1, 0, at)
    BY <2>1, <2>4, Zenon DEF p
  <2>. QED BY <1>3, <2>4, <2>5, Zenon DEF Saves
<1>4. CASE x = Emits(Finalize([b EXCEPT !.ts = at], b), {}) /\ b.kind = "live"
  <2> DEFINE p == [b EXCEPT !.ts = at]
             q == Finalize(p, b)
             di == IF StillDirty(b) THEN counter + 1 ELSE 0
  <2>1. p \in [kind : Kinds, content : Content, dirty : BOOLEAN, dirtyIndex : Nat, lastSync : Nat, ts : Nat]
    BY <1>1
  <2>2. p.kind = b.kind /\ p.content = b.content /\ p.lastSync = b.lastSync /\ p.ts = at
    BY <1>1
  <2>3. StillDirty(b) \in BOOLEAN /\ di \in Nat
    BY DEF StillDirty
  <2>. HIDE DEF p
  <2>4. q \in [kind : Kinds, content : Content, dirty : BOOLEAN, dirtyIndex : Nat, lastSync : Nat, ts : Nat]
    BY <2>1, <2>3 DEF Finalize
  <2>5. /\ q.kind = b.kind /\ q.content = b.content /\ q.dirty = StillDirty(b)
        /\ q.dirtyIndex = di /\ q.lastSync = b.lastSync /\ q.ts = at
    BY <2>1, <2>2 DEF Finalize
  <2>. HIDE DEF q, di
  <2>6. q \in Payloads /\ Becomes(q, "live", b.content, StillDirty(b), di, b.lastSync, at)
    BY <1>4, <2>4, <2>5 DEF Payloads, Becomes
  <2>7. x = Emits(q, {})
    BY <1>4 DEF p, q
  <2>8. Saves(x, b, at) <=> Becomes(x.payload, "live", b.content, StillDirty(b), di, b.lastSync, at)
    BY <1>4, <2>6, <2>7, EmitsSomething, Zenon DEF Saves, di
  <2>. QED BY <2>6, <2>7, <2>8, EmitsSomething, Zenon
<1>. QED BY <1>1, <1>2, <1>3, <1>4 DEF SavedEmits, Kinds

LEMMA RetrievedOutcome ==
    ASSUME NEW b \in Payloads, NEW duplicates, NEW row \in Rows, NEW saving \in BOOLEAN, counter \in Nat, row.kind # "none",
           ~b.dirty => b.dirtyIndex = 0, NEW x \in RetrievedEmits(b, duplicates, row, saving)
    PROVE  \/ x = Nothing /\ ((b.kind = "none" /\ saving) \/ row.ts <= b.ts)
           \/ AppliesRow(x, b, row) \/ KeepsBase(x, b, duplicates, row)
<1>1. CASE x = Nothing /\ ((b.kind = "none" /\ saving) \/ IsStaleSelfEcho(row, b))
  BY <1>1 DEF IsStaleSelfEcho
<1>2. CASE x \in Strategies(b, duplicates, row)
  BY <1>2, StrategyOutcome
<1>3. CASE x = Emits(Finalize(Received(row), b), {}) /\ ~b.dirty
  <2>1. ~StillDirty(b)
    BY <1>3 DEF StillDirty
  <2> DEFINE q == Finalize(Received(row), b)
  <2>2. q = Received(row)
    <3>1. Received(row) = [kind |-> row.kind, content |-> row.content, dirty |-> FALSE, dirtyIndex |-> 0, lastSync |-> 0, ts |-> row.ts]
      BY DEF Received, Payload
    <3>2. q \in Payloads
      BY FinalizeTyped, ReceivedTyped
    <3>3. q.kind = row.kind /\ q.content = row.content /\ q.dirty = FALSE /\ q.dirtyIndex = 0 /\ q.lastSync = 0 /\ q.ts = row.ts
      BY <2>1, <3>1 DEF Finalize
    <3>. HIDE DEF q
    <3>4. q = [kind |-> q.kind, content |-> q.content, dirty |-> q.dirty, dirtyIndex |-> q.dirtyIndex, lastSync |-> q.lastSync, ts |-> q.ts]
      BY <3>2 DEF Payloads
    <3>5. q = [kind |-> row.kind, content |-> row.content, dirty |-> FALSE, dirtyIndex |-> 0, lastSync |-> 0, ts |-> row.ts]
      BY <3>3, <3>4, Zenon
    <3>. QED BY <3>1, <3>5
  <2> DEFINE p == Received(row)
  <2>3. p \in Payloads /\ x = Emits(p, {})
    BY <1>3, <2>2, ReceivedTyped
  <2>. HIDE DEF p
  <2>4. x # Nothing /\ x.payload = p /\ x.dups = {}
    BY <2>3, EmitsSomething
  <2>. QED BY <1>3, <2>4 DEF AppliesRow, p
<1>. QED BY <1>1, <1>2, <1>3 DEF RetrievedEmits

LEMMA ConflictOutcome ==
    ASSUME NEW b \in Payloads, NEW duplicates, NEW row \in Rows, counter \in Nat, row.kind # "none",
           NEW x \in ConflictEmits(b, duplicates, row)
    PROVE  AppliesRow(x, b, row) \/ KeepsBase(x, b, duplicates, row)
<1>1. CASE x \in Strategies(b, duplicates, row)
  BY <1>1, StrategyOutcome
<1>2. CASE x = Emits(Received(row), {}) /\ b.kind = "none"
  <2>1. x # Nothing /\ x.payload = Received(row) /\ x.dups = {}
    BY <1>2, ReceivedTyped, EmitsSomething, Zenon
  <2>. QED BY <1>2, <2>1 DEF AppliesRow
<1>. QED BY <1>1, <1>2 DEF ConflictEmits

\* What memory holds afterwards, and the copies made, in the four cases.
Untouched(r) == r.payload = mem /\ r.dups = {} /\ r.emitted = FALSE

TookRow(r, row) ==
    /\ r.emitted = TRUE /\ r.dups \in {{}, {mem.content}}
    /\ row.kind = "live" => Becomes(r.payload, "live", row.content, FALSE, 0, 0, row.ts)
    /\ row.kind # "live" => r.payload = Gone
    /\ r.dups = {} => mem.kind # "live" \/ ~mem.dirty \/ (row.kind = "live" /\ row.content = mem.content)

KeptMine(r, row) ==
    /\ r.emitted = TRUE /\ mem.kind = "live" /\ row.kind = "live" /\ r.dups \in {{}, {row.content}}
    /\ Becomes(r.payload, "live", mem.content, TRUE, counter + 1, mem.lastSync, row.ts)
    /\ r.dups = {} => row.content \in copies \/ row.content \subseteq mem.content

SavedMine(r) ==
    /\ r.emitted = TRUE
    /\ mem.kind = "live" => Becomes(r.payload, "live", mem.content, StillDirty(mem),
                                    IF StillDirty(mem) THEN counter + 1 ELSE 0, mem.lastSync, op.answer.saved)
    /\ mem.kind # "live" => r.payload = Gone \/ Becomes(r.payload, "deleted", {}, TRUE, counter + 1, 0, op.answer.saved)

OneOfIt == op.answer.conflict.kind # "none" => op.answer.got.kind = "none" /\ op.answer.saved = 0

LEMMA KeptPayload ==
    /\ Kept(Gone) = Gone
    /\ \A p \in Payloads : p.kind = "live" \/ p.dirty => Kept(p) = p
    /\ \A row \in Rows : row.kind = "live" => Kept(Received(row)) = Received(row)
    /\ \A row \in Rows : row.kind = "deleted" => Kept(Received(row)) = Gone
  BY DEF Kept, Gone, Payload, Received, Payloads

LEMMA RowOutcome ==
    ASSUME Types, NEW row \in Rows, row.kind # "none", NEW x, NEW r,
           AppliesRow(x, mem, row) \/ KeepsBase(x, mem, copies, row),
           r.payload = Kept(x.payload), r.dups = x.dups, r.emitted = TRUE
    PROVE  TookRow(r, row) \/ KeptMine(r, row)
<1>1. CASE AppliesRow(x, mem, row)
  <2>1. CASE row.kind = "live"
    <3>1. r.payload = Received(row)
      BY <1>1, <2>1, KeptPayload DEF AppliesRow
    <3>2. Becomes(Received(row), "live", row.content, FALSE, 0, 0, row.ts)
      BY <2>1, ReceivedTyped DEF Received, Payload, Becomes
    <3>. QED BY <1>1, <2>1, <3>1, <3>2, Zenon DEF AppliesRow, TookRow
  <2>2. CASE row.kind # "live"
    <3>1. row.kind = "deleted"
      BY <2>2 DEF Rows, Kinds
    <3>2. r.payload = Gone
      BY <1>1, <3>1, KeptPayload DEF AppliesRow
    <3>. QED BY <1>1, <2>2, <3>2, Zenon DEF AppliesRow, TookRow
  <2>. QED BY <2>1, <2>2
<1>2. CASE KeepsBase(x, mem, copies, row)
  <2>1. x.payload \in Payloads /\ x.payload.kind = "live"
    BY <1>2 DEF KeepsBase, Becomes
  <2>2. r.payload = x.payload
    BY <2>1, KeptPayload
  <2>. QED BY <1>2, <2>2, Zenon DEF KeepsBase, KeptMine
<1>. QED BY <1>1, <1>2

LEMMA Outcomes ==
    ASSUME Types, Sound(mem), OneOfIt, NEW r \in Resolutions(mem, copies, op.answer, op.saving, req.upload.kind, mem)
    PROVE  \/ /\ Untouched(r) /\ op.answer.saved = 0 /\ op.answer.conflict.kind = "none"
              /\ \/ op.answer.got.kind = "none"
                 \/ mem.kind = "none" /\ op.saving
                 \/ op.answer.got.ts <= mem.ts
           \/ op.answer.saved = 0 /\ \E row \in {op.answer.got, op.answer.conflict} :
                 row.kind # "none" /\ (TookRow(r, row) \/ KeptMine(r, row))
           \/ op.answer.saved # 0 /\ op.answer.conflict.kind = "none" /\ SavedMine(r)
<1> DEFINE a == op.answer
<1>0. mem \in Payloads /\ counter \in Nat /\ a.got \in Rows /\ a.conflict \in Rows /\ a.saved \in Nat /\ op.saving \in BOOLEAN
      /\ (~mem.dirty => mem.dirtyIndex = 0)
  BY DEF Types, Rounds, Answers, Sound
<1>1. PICK x \in RetrievedEmits(mem, copies, a.got, op.saving), y \in SavedEmits(mem, a.saved, req.upload.kind),
           z \in ConflictEmits(mem, copies, a.conflict) :
        r = Resolution(mem, x, y, z)
  BY Resolves, SMT
<1>10. /\ r.payload = Resolved(Resolved(Resolved(mem, x), y), z) /\ r.dups = x.dups \cup z.dups
       /\ r.emitted = ({x, y, z} # {Nothing})
  BY <1>1, ResolutionFields
<1>11. x # Nothing \/ y # Nothing \/ z # Nothing <=> {x, y, z} # {Nothing}
  OBVIOUS
<1>2. Nothing.dups = {}
  BY DEF Nothing, Emits
<1>3. a.got.kind = "none" => x = Nothing
  BY <1>1 DEF RetrievedEmits
<1>4. a.saved = 0 => y = Nothing
  BY <1>1 DEF SavedEmits
<1>5. a.conflict.kind = "none" => z = Nothing
  BY <1>1 DEF ConflictEmits
<1>6. CASE a.saved # 0
  <2>1. z = Nothing /\ a.conflict.kind = "none"
    BY <1>5, <1>6 DEF OneOfIt
  <2>2. Saves(y, mem, a.saved)
    BY <1>0, <1>1, <1>6, SavedOutcome
  <2>3. r.payload = Kept(y.payload) /\ r.emitted = TRUE
    BY <1>10, <1>11, <2>1, <2>2 DEF Resolved, Saves
  <2>4. r.payload = y.payload
    <3>1. CASE y.payload = Gone BY <2>3, <3>1, KeptPayload
    <3>2. CASE y.payload \in Payloads /\ (y.payload.kind = "live" \/ y.payload.dirty) BY <2>3, <3>2, KeptPayload
    <3>. QED BY <2>2, <3>1, <3>2 DEF Saves, Becomes
  <2>. QED BY <1>6, <2>1, <2>2, <2>3, <2>4, Zenon DEF Saves, SavedMine
<1>7. CASE a.saved = 0 /\ a.conflict.kind # "none"
  <2>1. x = Nothing /\ y = Nothing
    BY <1>3, <1>4, <1>7 DEF OneOfIt
  <2>2. AppliesRow(z, mem, a.conflict) \/ KeepsBase(z, mem, copies, a.conflict)
    BY <1>0, <1>1, <1>7, ConflictOutcome
  <2>3. z # Nothing
    BY <2>2 DEF AppliesRow, KeepsBase
  <2>4. r.payload = Kept(z.payload) /\ r.dups = z.dups /\ r.emitted = TRUE
    BY <1>10, <1>11, <1>2, <2>1, <2>3 DEF Resolved
  <2>5. TookRow(r, a.conflict) \/ KeptMine(r, a.conflict)
    BY <1>0, <1>7, <2>2, <2>4, RowOutcome
  <2>. QED BY <1>7, <2>5
<1>8. CASE a.saved = 0 /\ a.conflict.kind = "none" /\ x = Nothing
  <2>1. y = Nothing /\ z = Nothing
    BY <1>4, <1>5, <1>8
  <2>2. Untouched(r)
    BY <1>10, <1>11, <1>2, <1>8, <2>1 DEF Resolved, Untouched
  <2>3. a.got.kind # "none" => (mem.kind = "none" /\ op.saving) \/ a.got.ts <= mem.ts
    <3>1. ASSUME a.got.kind # "none"
          PROVE  \/ x = Nothing /\ ((mem.kind = "none" /\ op.saving) \/ a.got.ts <= mem.ts)
                 \/ AppliesRow(x, mem, a.got) \/ KeepsBase(x, mem, copies, a.got)
      BY <1>0, <1>1, <3>1, RetrievedOutcome
    <3>. QED BY <1>8, <3>1 DEF AppliesRow, KeepsBase
  <2>. QED BY <1>8, <2>2, <2>3
<1>9. CASE a.saved = 0 /\ a.conflict.kind = "none" /\ x # Nothing
  <2>1. y = Nothing /\ z = Nothing /\ a.got.kind # "none"
    BY <1>3, <1>4, <1>5, <1>9
  <2>2. AppliesRow(x, mem, a.got) \/ KeepsBase(x, mem, copies, a.got)
    BY <1>0, <1>1, <1>9, <2>1, RetrievedOutcome
  <2>3. r.payload = Kept(x.payload) /\ r.dups = x.dups /\ r.emitted = TRUE
    BY <1>10, <1>11, <1>2, <1>9, <2>1 DEF Resolved
  <2>4. TookRow(r, a.got) \/ KeptMine(r, a.got)
    BY <1>0, <2>1, <2>2, <2>3, RowOutcome
  <2>. QED BY <1>9, <2>1, <2>4
<1>. QED BY <1>6, <1>7, <1>8, <1>9

\* An emission: the answer is of the request, or it is the pushed row.
Outcome(r) ==
    \/ /\ Untouched(r) /\ op.answer.saved = 0 /\ op.answer.conflict.kind = "none"
       /\ \/ op.answer.got.kind = "none"
          \/ mem.kind = "none" /\ op.saving
          \/ op.answer.got.ts <= mem.ts
    \/ op.answer.saved = 0 /\ \E row \in {op.answer.got, op.answer.conflict} :
          row.kind # "none" /\ (TookRow(r, row) \/ KeptMine(r, row))
    \/ op.answer.saved # 0 /\ op.answer.conflict.kind = "none" /\ SavedMine(r)

Emitted(r) ==
    /\ EmitsAs(r, mem, copies) /\ r.payload.content \subseteq done /\ r.dups \subseteq SUBSET done
    /\ Outcome(r)
    /\ op.step \in {"answered", "pushed"}

LEMMA EmissionStep ==
    ASSUME TypeInv, Phases, SoundInv, AnswerOK, Emission
    PROVE  \E r : Emitted(r)
<1>0. Types /\ Made /\ Sound(mem) /\ mem \in Payloads
  BY DEF TypeInv, SoundInv, Types
<1>1. OneOfIt
  <2>1. CASE op.step = "answered"
    BY <2>1, Blanks DEF Phases, AnswerOK, OneOfIt
  <2>2. CASE op.step = "pushed"
    BY <2>2, Blanks DEF Phases, OneOfIt
  <2>. QED BY <2>1, <2>2 DEF Emission, Emit, EmitPushed
<1>2. Emitting(mem, copies) /\ op.step \in {"answered", "pushed"}
  BY DEF Emission, Emit, EmitPushed, Phases
<1>3. done \in Content /\ mem.content \cup mem.content \cup op.answer.got.content \cup op.answer.conflict.content \subseteq done
  BY <1>0 DEF Types, Made, RoundMade, Content
<1>4. PICK r : EmitsAs(r, mem, copies) /\ r.payload.content \subseteq done /\ r.dups \subseteq SUBSET done
  BY <1>0, <1>2, <1>3, EmittingStep
<1>5. Outcome(r)
  BY <1>0, <1>1, <1>4, Outcomes DEF EmitsAs, Outcome
<1>. QED BY <1>2, <1>4, <1>5 DEF Emitted

-----------------------------------------------------------------------------
(* The round and its request                                               *)

\* How a round may end: what becomes of its request.
Ends ==
    /\ op' = Idle /\ req' \in {req, NoRequest}
    /\ req' = req => ~req.sent \/ req.recorded

LEMMA RoundEnds ==
    ASSUME Phases, Finish \/ (Faults /\ ~ExecuteRefusing)
    PROVE  Ends
<1>1. CASE Finish BY <1>1, Unsent0 DEF Finish, Ends, Phases
<1>2. CASE PresaveFails BY <1>2 DEF PresaveFails, serverVars, Ends, Phases
<1>3. CASE PersistFails BY <1>3, Unsent0 DEF PersistFails, Ended, Ends, Phases
<1>4. CASE NoteTokenFails BY <1>4, Unsent0 DEF NoteTokenFails, Ended, Ends, Phases
<1>5. CASE FinishUnacknowledged BY <1>5 DEF FinishUnacknowledged, Ends, Phases
<1>6. CASE RequestFails BY <1>6, Unsent0 DEF RequestFails, Ended, Ends, Phases
<1>7. CASE NeverApplied BY <1>7, Unsent0 DEF NeverApplied, Ends, Phases
<1>8. CASE Reload BY <1>8, Unsent0 DEF Reload, Ends, Phases
<1>. QED BY <1>1, <1>2, <1>3, <1>4, <1>5, <1>6, <1>7, <1>8 DEF Faults

LEMMA EndsPhases == ASSUME Phases, Ends PROVE Phases'
  BY IdleBlank, Unsent0, Blanks DEF Phases, Ends, Applying, Uploading

LEMMA NextPhases == SyncInv /\ Orderly /\ [Next]_vars => Phases'
<1> SUFFICES ASSUME SyncInv, Orderly, [Next]_vars PROVE Phases'
  OBVIOUS
<1>0. TypeInv /\ Types /\ Made /\ Phases /\ SoundInv /\ AnswerOK
  BY DEF SyncInv, TypeInv
<1>1. CASE UNCHANGED vars
  BY <1>0, <1>1 DEF vars, clientVars, Phases, Applying, Uploading
<1>2. CASE Prepare
  BY <1>0, <1>2, PrepareStep DEF Phases, Applying, Uploading
<1>3. CASE Presave
  BY <1>0, <1>3, PresaveStep DEF Phases, Applying, Uploading, Moves
<1>4. ASSUME NEW recorded \in BOOLEAN, Send(recorded) PROVE Phases'
  BY <1>0, <1>4, SendStep DEF Phases, Applying, Uploading
<1>5. CASE Recover
  BY <1>0, <1>5, RecoverStep DEF Phases, Applying, Uploading, Blank
<1>6. CASE Snapshot
  BY <1>0, <1>6, SnapshotStep DEF Phases, Applying, Uploading, clientVars
<1>7. CASE Emission
  BY <1>0, <1>7, EmissionStep DEF Emitted, EmitsAs, Phases, Applying, Uploading
<1>8. CASE Persist
  BY <1>0, <1>8, PersistStep DEF Phases, Applying, Uploading
<1>9. CASE NoteToken
  BY <1>0, <1>9, NoteTokenStep DEF Phases, Applying, Uploading, Moves
<1>10. CASE Finish \/ (Faults /\ ~ExecuteRefusing)
  BY <1>0, <1>10, RoundEnds, EndsPhases
<1>11. CASE Serve \/ ExecuteRefusing
  <2>1. Answered /\ op' = op /\ UNCHANGED clientVars
    BY <1>0, <1>11, ExecuteStep, RefuseStep DEF Serve
  <2>. QED BY <1>0, <2>1 DEF Answered, Phases, Applying, Uploading, clientVars
<1>12. CASE Peers \/ \E u \in late : ExecuteLate(u)
  BY <1>0, <1>12 DEF Peers, PeerSaves, PeerDeletes, ExecuteLate, clientVars, Phases, Applying, Uploading
<1>13. CASE User
  <2>1. op.step # "answered" /\ op' = op /\ req' = req
    BY <1>13 DEF User, EditItem, DeleteItem, MayEdit, Orderly
  <2>. QED BY <1>0, <2>1 DEF Phases, Applying, Uploading
<1>14. CASE AcceptPush
  <2>1. ~Uploading
    BY <1>0, <1>14, Unsent0, Blanks DEF AcceptPush, MayForget, Orderly, Phases, Uploading
  <2>. QED BY <1>0, <1>14, <2>1, AcceptPushStep DEF Phases, Applying, Uploading, Blank
<1>. QED BY <1>1, <1>2, <1>3, <1>4, <1>5, <1>6, <1>7, <1>8, <1>9, <1>10, <1>11, <1>12, <1>13, <1>14 DEF Next, Sync, Faults

-----------------------------------------------------------------------------
(* Indices and stamps                                                       *)

Grows == counter <= counter' /\ server.ts <= server'.ts /\ uploaded \subseteq uploaded'

LEMMA SoundGrows ==
    ASSUME Types, Types', NEW p \in Payloads, Sound(p), Grows PROVE Sound(p)'
  BY DEF Types, Payloads, Rows, Sound, Grows

LEMMA GoneSound == ASSUME Types PROVE Sound(Gone)
  BY Blanks DEF Sound, Types, Rows

LEMMA TypedPayloads ==
    ASSUME Types
    PROVE  /\ mem \in Payloads /\ disk \in Payloads
           /\ op.item \in Payloads /\ op.base \in Payloads /\ op.before \in Payloads /\ op.after \in Payloads
           /\ op.frozen \in Nat /\ counter \in Nat /\ presaved \in Int /\ server.ts \in Nat
           /\ req.upload \in Rows /\ req.upload.ts \in Nat /\ req.answer \in Answers /\ op.answer \in Answers
           /\ req.token \in Nat /\ token \in Nat
  BY DEF Types, Rounds, Requests, Rows

\* The parts of SoundInv that what is unchanged keeps.
SoundRound == Sound(op.item) /\ Sound(op.before) /\ Sound(op.after) /\ op.frozen <= counter
SoundDisk == Sound(disk) /\ disk.dirtyIndex = 0 /\ disk.lastSync = 0
SoundSent == (\A u \in late : u.ts <= server.ts) /\ req.upload.ts <= server.ts

LEMMA SoundKept ==
    ASSUME Types, Types', SoundInv, Grows
    PROVE  /\ mem' = mem => Sound(mem)'
           /\ disk' = disk => SoundDisk'
           /\ op' = op => SoundRound'
           /\ op'.item = op.item /\ op'.before = op.before /\ op'.after = op.after /\ op'.frozen = op.frozen => SoundRound'
           /\ late' = late /\ req'.upload = req.upload => SoundSent'
           /\ presaved' = presaved => presaved' <= counter'
<1>1. /\ \A p \in {mem, disk, op.item, op.before, op.after} : Sound(p)'
  BY TypedPayloads, SoundGrows DEF SoundInv
<1>2. op.frozen <= counter' /\ presaved <= counter' /\ req.upload.ts <= server'.ts /\ \A u \in late : u.ts <= server'.ts
  BY TypedPayloads DEF SoundInv, Grows, Types, Rows
<1>. QED BY <1>1, <1>2 DEF SoundInv, SoundRound, SoundDisk, SoundSent

\* A round that ends: the item is what it was, what it was before, or what is on disk.
LEMMA RoundEndsWith ==
    ASSUME Phases, Orderly, Finish \/ (Faults /\ ~ExecuteRefusing)
    PROVE  /\ op' = Idle /\ req' \in {req, NoRequest} /\ late' \in {late, late \cup {req.upload}}
           /\ mem' \in {mem, Gone, op.before, disk} /\ disk' \in {disk, Gone}
           /\ UNCHANGED <<server, push, uploaded, done, saved>>
           /\ \/ UNCHANGED <<counter, presaved>>
              \/ counter' = 0 /\ presaved' = -1 /\ mem' = disk /\ disk' = disk
<1>1. CASE Finish BY <1>1 DEF Finish, serverVars, history
<1>2. CASE PresaveFails BY <1>2 DEF PresaveFails, clientVars, durableVars, serverVars, history
<1>3. CASE PersistFails BY <1>3 DEF PersistFails, Ended, durableVars, serverVars, history
<1>4. CASE NoteTokenFails BY <1>4 DEF NoteTokenFails, Ended, clientVars, durableVars, serverVars, history
<1>5. CASE FinishUnacknowledged BY <1>5 DEF FinishUnacknowledged, clientVars, durableVars, serverVars, history
<1>6. CASE RequestFails BY <1>6 DEF RequestFails, Abandoned, Ended, clientVars, durableVars, history
<1>7. CASE NeverApplied BY <1>7 DEF NeverApplied, clientVars, durableVars, serverVars, history
<1>8. CASE Reload BY <1>8 DEF Reload, Abandoned, durableVars
<1>. QED BY <1>1, <1>2, <1>3, <1>4, <1>5, <1>6, <1>7, <1>8 DEF Faults

LEMMA NextSound == SyncInv /\ Orderly /\ [Next]_vars => SoundInv'
<1> SUFFICES ASSUME SyncInv, Orderly, [Next]_vars PROVE SoundInv'
  OBVIOUS
<1>0. TypeInv /\ Types /\ Types' /\ Made /\ Phases /\ SoundInv /\ RowsInv /\ AnswerOK /\ SentInv
  BY NextTypeInv DEF SyncInv, TypeInv
<1>a. Sound(mem)' /\ SoundDisk' /\ SoundRound' /\ SoundSent' /\ presaved' <= counter' => SoundInv'
  BY DEF SoundInv, SoundDisk, SoundRound, SoundSent
<1>b. counter \in Nat /\ server.ts \in Nat /\ presaved \in Int
  BY <1>0, TypedPayloads
<1>1. CASE UNCHANGED vars
  <2>1. Grows BY <1>0, <1>b, <1>1 DEF Grows, vars, clientVars, serverVars, history
  <2>. QED BY <1>0, <1>a, <1>1, <2>1, SoundKept DEF vars, clientVars, durableVars, serverVars, history
<1>2. CASE Prepare
  <2>1. Grows BY <1>0, <1>b, <1>2, PrepareStep DEF Grows, clientVars, serverVars, history
  <2>2. Sound(mem)' /\ Sound(Gone)' /\ SoundDisk' /\ SoundSent' /\ presaved' <= counter'
    BY <1>0, <1>2, <2>1, SoundKept, GoneSound, GoneTyped, SoundGrows, PrepareStep DEF clientVars, durableVars, serverVars
  <2>3. SoundRound'
    BY <1>0, <1>b, <1>2, <2>2, PrepareStep DEF SoundRound, clientVars
  <2>. QED BY <1>a, <2>2, <2>3
<1>3. CASE Presave
  <2>1. Grows BY <1>0, <1>b, <1>3, PresaveStep DEF Grows, serverVars
  <2>2. Sound(mem)' /\ SoundRound' /\ SoundSent'
    BY <1>0, <1>3, <2>1, SoundKept, PresaveStep DEF Moves, serverVars
  <2>3. presaved' <= counter'
    BY <1>0, <1>3, PresaveStep DEF SoundInv
  <2>4. SoundDisk'
    <3>1. CASE ~NeedsSaving
      BY <1>0, <1>3, <2>1, <3>1, SoundKept, PresaveStep
    <3>2. CASE NeedsSaving
      <4>1. Becomes(disk', op.item.kind, op.item.content, op.item.dirty, 0, 0, op.item.ts) /\ uploaded' = uploaded /\ server' = server
        BY <1>0, <1>3, <3>2, PresaveStep DEF serverVars
      <4>. QED BY <1>0, <1>b, <2>1, <4>1 DEF Becomes, SoundInv, Sound, SoundDisk, Grows, Types
    <3>. QED BY <3>1, <3>2
  <2>. QED BY <1>a, <2>2, <2>3, <2>4
<1>4. ASSUME NEW recorded \in BOOLEAN, Send(recorded) PROVE SoundInv'
  <2>1. Grows BY <1>0, <1>b, <1>4, SendStep DEF Grows, serverVars, history
  <2>2. SoundDisk' /\ presaved' <= counter'
    BY <1>0, <1>4, <2>1, SoundKept, SendStep DEF durableVars
  <2>3. Becomes(mem', mem.kind, mem.content, mem.dirty, mem.dirtyIndex, IF op.want /\ mem.kind # "none" THEN op.frozen ELSE mem.lastSync, mem.ts)
        /\ UNCHANGED <<counter, server, late, uploaded>>
    BY <1>0, <1>4, SendStep DEF serverVars, history
  <2>4. Sound(mem)'
    BY <1>0, <2>3 DEF Becomes, Sound, SoundInv
  <2>5. SoundRound'
    BY <1>0, <1>4, <2>3, SendStep, GoneSound DEF SoundRound, SoundInv, Sound
  <2>6. SoundSent'
    BY <1>0, <1>b, <1>4, <2>3, SendStep, Blanks DEF SoundSent, SoundInv, Sound, Row
  <2>. QED BY <1>a, <2>2, <2>4, <2>5, <2>6
<1>5. CASE Recover \/ AcceptPush
  <2>1. Blank /\ UNCHANGED <<mem, disk, counter, presaved, server, uploaded, req, late>>
    BY <1>0, <1>5, RecoverStep, AcceptPushStep DEF clientVars, durableVars, serverVars, history
  <2>2. Grows BY <1>b, <2>1 DEF Grows
  <2>3. SoundRound'
    BY <1>b, <2>1, Blanks DEF Blank, SoundRound, Sound
  <2>. QED BY <1>0, <1>a, <2>1, <2>2, <2>3, SoundKept
<1>6. CASE Snapshot
  <2>1. Grows BY <1>0, <1>b, <1>6, SnapshotStep DEF Grows, clientVars, serverVars, history
  <2>. QED BY <1>0, <1>a, <1>6, <2>1, SnapshotStep, SoundKept DEF clientVars, durableVars, serverVars
<1>7. CASE Emission
  <2>1. PICK r : Emitted(r)
    BY <1>0, <1>7, EmissionStep
  <2>2. r.payload \in Payloads /\ mem \in Payloads /\ op.answer \in Answers /\ req.answer.got.ts \in Nat /\ op.answer.saved \in Nat
    BY <1>0, <2>1, TypedPayloads DEF Emitted, EmitsAs, Types, Requests, Answers, Rows
  <2>3. mem' = r.payload /\ counter' = (IF r.payload.dirtyIndex = counter + 1 THEN counter + 1 ELSE counter)
        /\ UNCHANGED <<presaved, disk, req, server, late, uploaded>>
        /\ op'.item = Gone /\ op'.before = mem /\ op'.after = r.payload /\ op'.frozen = op.frozen
    BY <2>1, Zenon DEF Emitted, EmitsAs, durableVars, serverVars, history
  <2>4. Grows
    BY <1>b, <2>3 DEF Grows
  <2> DEFINE Fine(p) == /\ p.dirtyIndex <= counter' /\ p.lastSync <= counter /\ p.ts <= server.ts
                        /\ ~p.dirty => p.dirtyIndex = 0
                        /\ p.kind = "live" /\ ~p.dirty => p.content \subseteq uploaded
  <2>5. ASSUME Untouched(r) PROVE Fine(r.payload)
    BY <1>0, <1>b, <2>2, <2>3, <2>5 DEF Untouched, SoundInv, Sound, Payloads
  <2>6. ASSUME NEW row \in {op.answer.got, op.answer.conflict}, row.kind # "none", TookRow(r, row) \/ KeptMine(r, row)
        PROVE  Fine(r.payload)
    <3>1. row.ts <= server.ts /\ row.content \subseteq uploaded
      BY <1>0, <2>6 DEF RowsInv, RowOK
    <3>2. CASE TookRow(r, row)
      BY <1>0, <1>b, <2>3, <3>1, <3>2, Blanks DEF TookRow, Becomes
    <3>3. CASE KeptMine(r, row)
      BY <1>0, <1>b, <2>2, <2>3, <3>1, <3>3 DEF KeptMine, Becomes, SoundInv, Sound
    <3>. QED BY <2>6, <3>2, <3>3
  <2>7. ASSUME op.answer.saved # 0, SavedMine(r) PROVE Fine(r.payload)
    <3>1. op.answer = req.answer
      BY <1>0, <2>1, <2>7 DEF Emitted, Phases
    <3>2. op.answer.saved <= server.ts /\ Uploading /\ req.upload.content \subseteq uploaded
      BY <1>0, <2>7, <3>1 DEF AnswerOK
    <3>3. mem.kind = "live" => StillDirty(mem) \/ mem.content \subseteq uploaded
      BY <1>0, <3>2 DEF SentInv, Sent
    <3>4. CASE mem.kind = "live"
      BY <1>0, <1>b, <2>2, <2>3, <2>7, <3>2, <3>3, <3>4 DEF SavedMine, Becomes, SoundInv, Sound
    <3>5. CASE mem.kind # "live"
      BY <1>0, <1>b, <2>2, <2>3, <2>7, <3>2, <3>5, Blanks DEF SavedMine, Becomes
    <3>. QED BY <3>4, <3>5
  <2>8. Fine(r.payload)
    BY <2>1, <2>5, <2>6, <2>7 DEF Emitted, Outcome
  <2>9. Sound(mem)'
    BY <1>b, <2>2, <2>3, <2>8 DEF Sound, Payloads
  <2>10. SoundDisk' /\ SoundSent' /\ presaved' <= counter'
    BY <1>0, <2>3, <2>4, SoundKept
  <2>11. SoundRound'
    <3>1. op.frozen <= counter' /\ Sound(mem)
      BY <1>0, <1>b, <2>3, TypedPayloads DEF SoundInv
    <3>. QED BY <1>b, <2>2, <2>3, <2>8, <3>1, Blanks DEF SoundRound, Sound, Payloads
  <2>. QED BY <1>a, <2>9, <2>10, <2>11
<1>8. CASE Persist
  <2>1. Grows BY <1>0, <1>b, <1>8, PersistStep DEF Grows, clientVars, serverVars, history
  <2>2. Sound(mem)' /\ SoundSent' /\ presaved' <= counter'
    BY <1>0, <1>8, <2>1, SoundKept, PersistStep DEF clientVars, serverVars
  <2>3. SoundDisk'
    <3>1. CASE ~op.saving
      BY <1>0, <1>8, <2>1, <3>1, SoundKept, PersistStep
    <3>2. CASE op.saving
      <4>1. Becomes(disk', op.after.kind, op.after.content, op.after.dirty, 0, 0, op.after.ts)
            /\ UNCHANGED <<uploaded, server, counter>>
        BY <1>0, <1>8, <3>2, PersistStep DEF clientVars, serverVars, history
      <4>. QED BY <1>0, <1>b, <4>1 DEF Becomes, SoundInv, Sound, SoundDisk
    <3>. QED BY <3>1, <3>2
  <2>4. SoundRound'
    <3>1. UNCHANGED <<uploaded, server, counter>> /\ op'.item = op.item /\ op'.frozen = op.frozen /\ op'.before = Gone /\ op'.after = Gone
      BY <1>0, <1>8, PersistStep DEF clientVars, serverVars, history
    <3>. QED BY <1>0, <1>b, <3>1, Blanks DEF SoundInv, Sound, SoundRound
  <2>. QED BY <1>a, <2>2, <2>3, <2>4
<1>9. CASE NoteToken
  <2>1. Grows BY <1>0, <1>b, <1>9, NoteTokenStep DEF Grows, clientVars, serverVars, history
  <2>. QED BY <1>0, <1>a, <1>9, <2>1, NoteTokenStep, SoundKept DEF Moves, clientVars, serverVars
<1>10. CASE Finish \/ (Faults /\ ~ExecuteRefusing)
  <2>1. /\ op' = Idle /\ req' \in {req, NoRequest} /\ late' \in {late, late \cup {req.upload}}
        /\ mem' \in {mem, Gone, op.before, disk} /\ disk' \in {disk, Gone} /\ UNCHANGED <<server, uploaded>>
        /\ \/ UNCHANGED <<counter, presaved>>
           \/ counter' = 0 /\ presaved' = -1 /\ mem' = disk /\ disk' = disk
    BY <1>0, <1>10, RoundEndsWith
  <2>2. counter' \in Nat
    BY <1>0 DEF Types
  <2>3. SoundRound'
    BY <1>b, <2>1, <2>2, IdleBlank, Blanks DEF SoundRound, Sound
  <2>4. SoundSent'
    BY <1>0, <1>b, <2>1, Unsent0, Blanks DEF SoundSent, SoundInv
  <2>5. SoundDisk'
    BY <1>0, <1>b, <2>1, <2>2, Blanks DEF SoundDisk, SoundInv, Sound
  <2>6. Sound(mem)' /\ presaved' <= counter'
    BY <1>0, <1>b, <2>1, <2>2, Blanks DEF SoundInv, Sound
  <2>. QED BY <1>a, <2>3, <2>4, <2>5, <2>6
<1>11. CASE Serve \/ ExecuteRefusing \/ Peers \/ \E u \in late : ExecuteLate(u)
  <2>1. /\ UNCHANGED <<mem, disk, counter, presaved, op>> /\ req'.upload = req.upload /\ late' \subseteq late
        /\ server'.ts \in {server.ts, server.ts + 1} /\ uploaded \subseteq uploaded'
    <3>1. CASE Serve
      BY <1>0, <3>1, ExecuteStep DEF Serve, Answered, Takes, clientVars, durableVars
    <3>2. CASE ExecuteRefusing
      BY <1>0, <3>2, RefuseStep DEF Answered, clientVars, durableVars, serverVars, history
    <3>3. CASE Peers
      BY <1>0, <3>3, PeerSavesStep, PeerDeletesStep DEF Peers, clientVars, durableVars
    <3>4. ASSUME NEW u \in late, ExecuteLate(u) PROVE <2>1
      BY <1>0, <3>4, LateStep DEF Takes, clientVars, durableVars
    <3>. QED BY <1>11, <3>1, <3>2, <3>3, <3>4
  <2>2. Grows
    BY <1>b, <2>1 DEF Grows
  <2>3. SoundSent'
    <3>1. \A u \in late : u.ts \in Nat
      BY <1>0 DEF Types, Rows
    <3>. QED BY <1>0, <1>b, <2>1, <3>1, TypedPayloads DEF SoundSent, SoundInv
  <2>. QED BY <1>0, <1>a, <2>1, <2>2, <2>3, SoundKept
<1>12. CASE User
  <2>1. PICK e \in Edit : EditItem(e) \/ DeleteItem(e)
    BY <1>12 DEF User
  <2>2. /\ mem'.dirty /\ mem'.dirtyIndex = counter + 1 /\ mem'.lastSync = mem.lastSync /\ mem'.ts = mem.ts /\ counter' = counter + 1
        /\ UNCHANGED <<presaved, disk, op, req, server, late, uploaded>>
    BY <1>0, <2>1, EditStep, DeleteStep DEF Becomes, durableVars, serverVars
  <2>3. Grows
    BY <1>b, <2>2 DEF Grows
  <2>4. Sound(mem)'
    BY <1>0, <1>b, <2>2, TypedPayloads DEF SoundInv, Sound, Payloads
  <2>. QED BY <1>0, <1>a, <2>2, <2>3, <2>4, SoundKept
<1>. QED BY <1>1, <1>2, <1>3, <1>4, <1>5, <1>6, <1>7, <1>8, <1>9, <1>10, <1>11, <1>12 DEF Next, Sync, Faults

-----------------------------------------------------------------------------
(* The rows on their way                                                    *)

\* The server's row stays, or a newer one takes its place.
Moved == (server' = server \/ server'.ts = server.ts + 1) /\ uploaded \subseteq uploaded'

LEMMA RowsFrom ==
    ASSUME Types, RowsInv, Moved, RowOK(server)',
           NEW known, known = {NoRow, server, server', push, req.answer.got, req.answer.conflict, op.answer.got, op.answer.conflict},
           push' \in known, req'.answer.got \in known, req'.answer.conflict \in known,
           op'.answer.got \in known, op'.answer.conflict \in known
    PROVE  RowsInv'
<1> DEFINE Later(r) == IF r.kind = "none" THEN r = NoRow
                       ELSE /\ 1 <= r.ts /\ r.ts <= server'.ts /\ r.content \subseteq uploaded'
                            /\ r.ts = server'.ts => r = server'
<1>1. ASSUME NEW r \in Rows, RowOK(r) PROVE Later(r)
  BY <1>1 DEF RowOK, Moved, Types, Rows
<1>2. \A r \in {server, push, req.answer.got, req.answer.conflict, op.answer.got, op.answer.conflict} : r \in Rows /\ RowOK(r)
  BY DEF RowsInv, Types, Requests, Answers, Rounds
<1>3. Later(NoRow) /\ Later(server')
  BY Blanks DEF RowOK
<1>4. \A r \in known : Later(r)
  BY <1>1, <1>2, <1>3
<1>5. Later(push') /\ Later(req'.answer.got) /\ Later(req'.answer.conflict) /\ Later(op'.answer.got) /\ Later(op'.answer.conflict)
  BY <1>4, Zenon
<1>. QED BY <1>5 DEF RowsInv, RowOK

LEMMA TakenOK == ASSUME Types, NEW u \in Rows, Takes(u) PROVE Moved /\ RowOK(server)'
  BY DEF Takes, Accepts, Types, Rows, Moved, RowOK

LEMMA StaysOK == ASSUME RowsInv, UNCHANGED <<server, uploaded>> PROVE Moved /\ RowOK(server)'
  BY DEF RowsInv, Moved, RowOK

LEMMA NextRows == SyncInv /\ Orderly /\ [Next]_vars => RowsInv'
<1> SUFFICES ASSUME SyncInv, Orderly, [Next]_vars PROVE RowsInv'
  OBVIOUS
<1>0. TypeInv /\ Types /\ Made /\ Phases /\ SoundInv /\ AnswerOK /\ RowsInv
  BY DEF SyncInv, TypeInv
<1> DEFINE known == {NoRow, server, server', push, req.answer.got, req.answer.conflict, op.answer.got, op.answer.conflict}
<1>a. Retrieved(req.token) \in known
  BY DEF Retrieved
<1>b. Moved /\ RowOK(server)' /\ push' \in known /\ req'.answer.got \in known /\ req'.answer.conflict \in known
      /\ op'.answer.got \in known /\ op'.answer.conflict \in known => RowsInv'
  BY <1>0, RowsFrom
<1>1. ASSUME UNCHANGED <<server, push, uploaded>>, op'.answer \in {op.answer, NoAnswer, req.answer}, req'.answer \in {req.answer, NoAnswer}
      PROVE  RowsInv'
  <2>1. Moved /\ RowOK(server)'
    BY <1>0, <1>1, StaysOK
  <2>. QED BY <1>b, <1>1, <2>1, Blanks
<1>2. CASE UNCHANGED vars
  BY <1>1, <1>2 DEF vars, serverVars, history
<1>3. CASE Prepare
  BY <1>0, <1>1, <1>3, PrepareStep DEF serverVars, history
<1>4. CASE Presave
  BY <1>0, <1>1, <1>4, PresaveStep DEF Moves, serverVars
<1>5. ASSUME NEW recorded \in BOOLEAN, Send(recorded) PROVE RowsInv'
  BY <1>0, <1>1, <1>5, SendStep DEF serverVars, history
<1>6. CASE Recover
  BY <1>0, <1>1, <1>6, RecoverStep DEF serverVars, history
<1>7. CASE Snapshot
  BY <1>0, <1>1, <1>7, SnapshotStep DEF serverVars, history
<1>8. CASE Emission
  BY <1>0, <1>1, <1>8, EmissionStep DEF Emitted, EmitsAs, serverVars, history
<1>9. CASE Persist
  BY <1>0, <1>1, <1>9, PersistStep DEF serverVars, history
<1>10. CASE NoteToken
  BY <1>0, <1>1, <1>10, NoteTokenStep DEF Moves, serverVars, history
<1>11. CASE Finish \/ (Faults /\ ~ExecuteRefusing)
  BY <1>0, <1>1, <1>11, RoundEndsWith, IdleBlank, Unsent0
<1>12. CASE User
  BY <1>0, <1>1, <1>12 DEF User, EditItem, DeleteItem, serverVars
<1>13. CASE AcceptPush
  <2>1. Moved /\ RowOK(server)'
    BY <1>0, <1>13, AcceptPushStep, StaysOK DEF history
  <2>. QED BY <1>0, <1>b, <1>13, <2>1, AcceptPushStep
<1>14. ASSUME NEW echo \in BOOLEAN, Execute(echo) PROVE RowsInv'
  <2>1. Moved /\ RowOK(server)'
    BY <1>0, <1>14, ExecuteStep, TakenOK, StaysOK DEF Types, Requests
  <2>. QED BY <1>0, <1>a, <1>b, <1>14, <2>1, ExecuteStep
<1>15. CASE ExecuteRefusing
  <2>1. Moved /\ RowOK(server)'
    BY <1>0, <1>15, RefuseStep, StaysOK DEF serverVars, history
  <2>. QED BY <1>0, <1>a, <1>b, <1>15, <2>1, RefuseStep DEF serverVars
<1>16. ASSUME NEW u \in late, ExecuteLate(u) PROVE RowsInv'
  <2>1. Moved /\ RowOK(server)'
    BY <1>0, <1>16, LateStep, TakenOK, StaysOK
  <2>. QED BY <1>b, <1>0, <1>16, <2>1, LateStep
<1>17. CASE Peers
  <2>1. Moved /\ RowOK(server)' /\ push' = server' /\ UNCHANGED <<op, req>>
    BY <1>0, <1>17, PeerSavesStep, PeerDeletesStep DEF Peers, Moved, RowOK, RowsInv, Types, Rows
  <2>. QED BY <1>b, <2>1
<1>. QED BY <1>2, <1>3, <1>4, <1>5, <1>6, <1>7, <1>8, <1>9, <1>10, <1>11, <1>12, <1>13, <1>14, <1>15, <1>16, <1>17
         DEF Next, Sync, Faults, Serve

-----------------------------------------------------------------------------
(* What an answer says                                                      *)

LEMMA Retrieves ==
    ASSUME Types, RowOK(server)
    PROVE  LET row == Retrieved(req.token) IN
           /\ row.kind # "none" => row.ts > req.token /\ row.ts = server.ts
           /\ row.kind = "none" => server.ts <= req.token
  BY TypedPayloads, Blanks DEF Retrieved, RowOK

LEMMA NextAnswer == SyncInv /\ Orderly /\ [Next]_vars => AnswerOK'
<1> SUFFICES ASSUME SyncInv, Orderly, [Next]_vars PROVE AnswerOK'
  OBVIOUS
<1>0. TypeInv /\ Types /\ Types' /\ Made /\ Phases /\ SoundInv /\ AnswerOK /\ RowsInv /\ TokenInv
  BY NextTypeInv DEF SyncInv, TypeInv
<1>a. server.ts \in Nat /\ server'.ts \in Nat /\ req.token \in Nat /\ token \in Nat /\ req.answer.saved \in Nat /\ req.answer.token \in Nat
  BY <1>0, TypedPayloads DEF Types, Rows, Answers
<1>1. ASSUME Moved, req' = req PROVE AnswerOK'
  BY <1>0, <1>a, <1>1 DEF AnswerOK, Moved, Uploading, Empty
<1>2. ASSUME req'.answer = NoAnswer, req'.token \in Nat PROVE AnswerOK'
  BY <1>a, <1>2, Blanks DEF AnswerOK, Uploading, Empty
<1>3. CASE UNCHANGED vars
  BY <1>1, <1>3 DEF vars, serverVars, history, Moved
<1>4. CASE Prepare
  BY <1>0, <1>1, <1>4, PrepareStep DEF serverVars, history, Moved
<1>5. CASE Presave
  BY <1>0, <1>1, <1>5, PresaveStep DEF serverVars, Moved
<1>6. ASSUME NEW recorded \in BOOLEAN, Send(recorded) PROVE AnswerOK'
  BY <1>0, <1>a, <1>2, <1>6, SendStep
<1>7. CASE Recover
  BY <1>0, <1>1, <1>7, RecoverStep DEF serverVars, history, Moved
<1>8. CASE Snapshot
  BY <1>0, <1>1, <1>8, SnapshotStep DEF serverVars, history, Moved
<1>9. CASE Emission
  BY <1>0, <1>1, <1>9, EmissionStep DEF Emitted, EmitsAs, serverVars, history, Moved
<1>10. CASE Persist
  BY <1>0, <1>1, <1>10, PersistStep DEF serverVars, history, Moved
<1>11. CASE NoteToken
  BY <1>0, <1>1, <1>11, NoteTokenStep DEF serverVars, history, Moved
<1>12. CASE Finish \/ (Faults /\ ~ExecuteRefusing)
  BY <1>0, <1>1, <1>2, <1>12, RoundEndsWith, Unsent0 DEF Moved
<1>13. CASE User \/ AcceptPush
  BY <1>0, <1>1, <1>13 DEF User, EditItem, DeleteItem, AcceptPush, serverVars, history, Moved
<1>14. CASE Peers
  BY <1>0, <1>1, <1>14, PeerSavesStep, PeerDeletesStep DEF Peers, Moved
<1>15. ASSUME NEW u \in late, ExecuteLate(u) PROVE AnswerOK'
  BY <1>0, <1>1, <1>15, LateStep, TakenOK DEF Moved
<1>16. ASSUME NEW echo \in BOOLEAN, Execute(echo) PROVE AnswerOK'
  <2> DEFINE row == Retrieved(req.token)
  <2>1. /\ row.kind # "none" => row.ts > req.token /\ row.ts = server.ts
        /\ row.kind = "none" => server.ts <= req.token
    BY <1>0, Retrieves DEF RowsInv
  <2>2. server.kind = "none" => server.ts = 0
    BY <1>0, Blanks DEF RowsInv, RowOK
  <2>3. req.token <= token /\ token <= server.ts
    BY <1>0, <1>16, ExecuteStep DEF TokenInv, Answered
  <2>. HIDE DEF row
  <2>4. CASE Accepts(req.upload)
    <3>1. /\ req'.answer.saved = server.ts + 1 /\ req'.answer.conflict = NoRow /\ req'.answer.got = row
          /\ req'.answer.token \in {server.ts, server.ts + 1} /\ req'.token = req.token /\ req'.upload = req.upload
          /\ server'.ts = server.ts + 1 /\ server'.content = req.upload.content /\ uploaded' = uploaded \cup req.upload.content
          /\ req.upload.kind # "none"
      BY <1>0, <1>16, <2>4, ExecuteStep DEF Answered, Takes, Accepts, row
    <3>. QED BY <1>a, <2>1, <2>3, <3>1, Blanks DEF AnswerOK, Uploading, Empty
  <2>5. CASE ~Accepts(req.upload)
    <3>1. /\ req'.answer.saved = 0 /\ req'.answer.token = server.ts
          /\ req'.answer.conflict = (IF req.upload.kind # "none" THEN server ELSE NoRow)
          /\ req'.answer.got = (IF req.upload.kind # "none" THEN NoRow ELSE row)
          /\ req'.token = req.token /\ req'.upload = req.upload /\ UNCHANGED <<server, uploaded>>
      BY <1>0, <1>16, <2>5, ExecuteStep DEF Answered, row
    <3>. QED BY <1>a, <2>1, <2>2, <2>3, <3>1, Blanks DEF AnswerOK, Uploading, Empty
  <2>. QED BY <2>4, <2>5
<1>17. CASE ExecuteRefusing
  <2> DEFINE row == Retrieved(req.token)
  <2>1. /\ row.kind # "none" => row.ts > req.token /\ row.ts = server.ts
        /\ row.kind = "none" => server.ts <= req.token
    BY <1>0, Retrieves DEF RowsInv
  <2>. HIDE DEF row
  <2>2. /\ req'.answer.saved = 0 /\ req'.answer.token = server.ts /\ req'.answer.conflict = NoRow /\ req'.answer.got = row
        /\ req'.token = req.token /\ req'.upload = req.upload /\ UNCHANGED <<server, uploaded>>
    BY <1>0, <1>17, RefuseStep DEF Answered, row, serverVars, history
  <2>. QED BY <1>a, <2>1, <2>2, Blanks DEF AnswerOK, Uploading, Empty
<1>. QED BY <1>3, <1>4, <1>5, <1>6, <1>7, <1>8, <1>9, <1>10, <1>11, <1>12, <1>13, <1>14, <1>15, <1>16, <1>17
         DEF Next, Sync, Faults, Serve

-----------------------------------------------------------------------------
(* What was sent                                                            *)

\* A round that ends with its request still there, and something uploaded by it, leaves the item, or restores it.
LEMMA RoundEndsSent ==
    ASSUME Phases, Orderly, Finish \/ (Faults /\ ~ExecuteRefusing), req' = req, Uploading
    PROVE  mem' = mem \/ (op.step = "emitted" /\ mem' = op.before)
<1>0. req # NoRequest
  BY Unsent0, Blanks DEF Uploading
<1>1. CASE Finish BY <1>0, <1>1 DEF Finish, Phases
<1>2. CASE PresaveFails BY <1>2 DEF PresaveFails, clientVars
<1>3. CASE PersistFails BY <1>3 DEF PersistFails
<1>4. CASE NoteTokenFails BY <1>4 DEF NoteTokenFails, clientVars
<1>5. CASE FinishUnacknowledged BY <1>5 DEF FinishUnacknowledged, clientVars
<1>6. CASE RequestFails BY <1>6 DEF RequestFails, clientVars
<1>7. CASE NeverApplied BY <1>7 DEF NeverApplied, clientVars
<1>8. CASE Reload BY <1>0, <1>8 DEF Reload, MayForget, Orderly, Uploading
<1>. QED BY <1>1, <1>2, <1>3, <1>4, <1>5, <1>6, <1>7, <1>8 DEF Faults

LEMMA NextSent == SyncInv /\ Orderly /\ [Next]_vars => SentInv'
<1> SUFFICES ASSUME SyncInv, Orderly, [Next]_vars PROVE SentInv'
  OBVIOUS
<1>0. TypeInv /\ Types /\ Made /\ Phases /\ SoundInv /\ AnswerOK /\ RowsInv /\ SentInv
  BY DEF SyncInv, TypeInv
<1>1. ASSUME mem' = mem, req'.upload = req.upload, uploaded \subseteq uploaded', op' = op \/ op'.step # "emitted"
      PROVE  SentInv'
  BY <1>0, <1>1 DEF SentInv, Sent, Uploading, StillDirty
<1>2. CASE UNCHANGED vars
  BY <1>1, <1>2 DEF vars, clientVars, serverVars, history
<1>3. CASE Prepare
  BY <1>0, <1>1, <1>3, PrepareStep DEF clientVars, history
<1>4. CASE Presave
  BY <1>0, <1>1, <1>4, PresaveStep DEF Moves
<1>5. ASSUME NEW recorded \in BOOLEAN, Send(recorded) PROVE SentInv'
  <2>1. /\ mem'.content = mem.content /\ mem'.kind = mem.kind /\ op'.step = "sent"
        /\ req'.upload = IF op.want /\ mem.kind # "none" THEN Row(mem.kind, mem.content, mem.ts) ELSE NoRow
    BY <1>0, <1>5, SendStep DEF Becomes
  <2>. QED BY <2>1, Blanks DEF SentInv, Sent, Uploading, Row
<1>6. CASE Recover
  BY <1>0, <1>1, <1>6, RecoverStep DEF clientVars, history
<1>7. CASE Snapshot
  BY <1>0, <1>1, <1>7, SnapshotStep DEF clientVars, history
<1>8. CASE Emission
  <2>1. PICK r : Emitted(r)
    BY <1>0, <1>8, EmissionStep
  <2>2. mem' = r.payload /\ op'.before = mem /\ req' = req /\ uploaded' = uploaded
    BY <2>1 DEF Emitted, EmitsAs, history
  <2>3. ASSUME NEW row \in {op.answer.got, op.answer.conflict}, row.kind # "none", TookRow(r, row) PROVE Sent(mem)'
    <3>1. row.content \subseteq uploaded
      BY <1>0, <2>3 DEF RowsInv, RowOK
    <3>. QED BY <2>2, <2>3, <3>1, Blanks DEF TookRow, Becomes, Sent
  <2>4. counter \in Nat /\ mem.lastSync \in Nat /\ mem.lastSync <= counter
    BY <1>0, TypedPayloads DEF SoundInv, Sound, Payloads
  <2>5. ASSUME mem'.content = mem.content, mem'.dirtyIndex = counter + 1 \/ ~StillDirty(mem), mem'.lastSync = mem.lastSync,
               mem.kind = "live"
        PROVE  Sent(mem)'
    BY <1>0, <2>2, <2>4, <2>5 DEF SentInv, Sent, StillDirty, Uploading
  <2>6. ASSUME NEW row, KeptMine(r, row) PROVE Sent(mem)'
    BY <2>2, <2>5, <2>6 DEF KeptMine, Becomes
  <2>7. ASSUME SavedMine(r) PROVE Sent(mem)'
    <3>1. CASE mem.kind = "live"
      BY <2>2, <2>5, <2>7, <3>1 DEF SavedMine, Becomes
    <3>2. CASE mem.kind # "live"
      BY <2>2, <2>7, <3>2, Blanks DEF SavedMine, Becomes, Sent
    <3>. QED BY <3>1, <3>2
  <2>8. ASSUME Untouched(r) PROVE Sent(mem)'
    BY <1>0, <2>2, <2>8 DEF Untouched, SentInv, Sent, Uploading, StillDirty
  <2>9. Sent(mem)'
    BY <2>1, <2>3, <2>6, <2>7, <2>8 DEF Emitted, Outcome
  <2>10. Sent(op.before)'
    BY <1>0, <2>2 DEF SentInv, Sent, Uploading, StillDirty
  <2>. QED BY <2>9, <2>10 DEF SentInv
<1>9. CASE Persist
  BY <1>0, <1>1, <1>9, PersistStep DEF clientVars, history
<1>10. CASE NoteToken
  BY <1>0, <1>1, <1>10, NoteTokenStep DEF Moves, clientVars, history
<1>11. CASE Finish \/ (Faults /\ ~ExecuteRefusing)
  <2>1. op'.step # "emitted" /\ req' \in {req, NoRequest} /\ uploaded' = uploaded
    BY <1>0, <1>11, RoundEndsWith, IdleBlank
  <2>2. CASE req' = NoRequest \/ ~Uploading
    BY <2>1, <2>2, Unsent0, Blanks DEF SentInv, Sent, Uploading
  <2>3. CASE req' = req /\ Uploading
    BY <1>0, <1>11, <2>1, <2>3, RoundEndsSent DEF SentInv, Sent, Uploading, StillDirty
  <2>. QED BY <2>1, <2>2, <2>3
<1>12. CASE Serve \/ ExecuteRefusing
  <2>1. Answered /\ mem' = mem /\ op' = op /\ uploaded \subseteq uploaded'
    BY <1>0, <1>12, ExecuteStep, RefuseStep DEF Serve, Takes, clientVars, history
  <2>. QED BY <1>1, <2>1 DEF Answered
<1>13. CASE Peers \/ AcceptPush \/ \E u \in late : ExecuteLate(u)
  BY <1>0, <1>1, <1>13, PeerSavesStep, PeerDeletesStep, LateStep, AcceptPushStep DEF Peers, Takes, clientVars, history
<1>14. ASSUME NEW e \in Edit, EditItem(e) PROVE SentInv'
  <2>1. mem'.dirtyIndex = counter + 1 /\ mem'.lastSync = mem.lastSync /\ req' = req /\ op' = op /\ uploaded' = uploaded
    BY <1>0, <1>14, EditStep DEF Becomes
  <2>2. ~(Uploading /\ mem.lastSync = 0)
    BY <1>14 DEF EditItem, MayEdit, Orderly, Uploading
  <2>3. counter \in Nat /\ mem.lastSync \in Nat /\ mem.lastSync <= counter
    BY <1>0, TypedPayloads DEF SoundInv, Sound, Payloads
  <2>. QED BY <1>0, <2>1, <2>2, <2>3 DEF SentInv, Sent, Uploading, StillDirty
<1>15. ASSUME NEW e \in Edit, DeleteItem(e) PROVE SentInv'
  <2>1. mem'.kind = "deleted" /\ req' = req /\ op' = op /\ uploaded' = uploaded
    BY <1>0, <1>15, DeleteStep DEF Becomes
  <2>. QED BY <1>0, <2>1 DEF SentInv, Sent, Uploading, StillDirty
<1>. QED BY <1>2, <1>3, <1>4, <1>5, <1>6, <1>7, <1>8, <1>9, <1>10, <1>11, <1>12, <1>13, <1>14, <1>15
         DEF Next, Sync, Faults, Serve, User

-----------------------------------------------------------------------------
(* Memory and disk                                                          *)

LEMMA NextDisk == SyncInv /\ Orderly /\ [Next]_vars => DiskInv'
<1> SUFFICES ASSUME SyncInv, Orderly, [Next]_vars PROVE DiskInv'
  OBVIOUS
<1>0. TypeInv /\ Types /\ Made /\ Phases /\ SoundInv /\ AnswerOK /\ DiskInv
  BY DEF SyncInv, TypeInv
<1>a. CopiesOK
  BY <1>0 DEF DiskInv
<1>b. /\ counter \in Nat /\ op.frozen \in Nat /\ presaved \in Int /\ mem.dirtyIndex \in Nat
      /\ op.frozen <= counter /\ presaved <= counter /\ mem.dirtyIndex <= counter
  BY <1>0, TypedPayloads DEF SoundInv, Sound, Payloads
<1>1. ASSUME UNCHANGED <<mem, disk, copies, diskCopies, presaved, op>> PROVE DiskInv'
  BY <1>0, <1>1 DEF DiskInv, CopiesOK, Paired, Since
<1>2. ASSUME UNCHANGED <<disk, copies, diskCopies>>, op.step # "emitted", op'.step \notin {"emitted", "presaving"}, op'.made = {},
             mem'.kind = mem.kind, mem'.ts = mem.ts
      PROVE  DiskInv'
  BY <1>0, <1>2 DEF DiskInv, CopiesOK, Paired
<1>3. CASE UNCHANGED vars
  BY <1>1, <1>3 DEF vars, clientVars, durableVars
<1>4. CASE Prepare
  <2>1. /\ op.step = "idle" /\ op'.step = "presaving" /\ op'.item = mem /\ op'.frozen = counter /\ op'.made = {}
        /\ op'.want = (mem.dirty /\ ~NeverSyncedDeleted) /\ UNCHANGED <<mem, disk, copies, diskCopies, counter>>
    BY <1>0, <1>4, PrepareStep DEF clientVars, durableVars
  <2>2. CopiesOK' /\ Paired(mem)'
    BY <1>0, <2>1 DEF DiskInv, CopiesOK, Paired
  <2>3. op'.want => op'.item.dirty
    BY <2>1
  <2>4. ~op'.want => ~op'.item.dirty \/ op'.item.kind # "live"
    BY <2>1 DEF NeverSyncedDeleted
  <2>. QED BY <1>b, <2>1, <2>2, <2>3, <2>4 DEF DiskInv, Since
<1>5. CASE Presave
  <2>1. op.step = "presaving" /\ op'.step = "ready" /\ op'.made = op.made /\ UNCHANGED <<mem, copies, diskCopies>>
    BY <1>0, <1>5, PresaveStep DEF Moves
  <2>2. disk' = disk \/ (disk'.kind = op.item.kind /\ disk'.ts = op.item.ts)
    BY <1>0, <1>5, PresaveStep DEF Becomes
  <2>. QED BY <1>0, <2>1, <2>2 DEF DiskInv, CopiesOK, Paired, Since
<1>6. ASSUME NEW recorded \in BOOLEAN, Send(recorded) PROVE DiskInv'
  BY <1>0, <1>a, <1>2, <1>6, SendStep DEF Becomes, CopiesOK, durableVars
<1>7. CASE Recover
  BY <1>0, <1>2, <1>7, RecoverStep DEF Blank, clientVars, durableVars
<1>8. CASE Snapshot
  BY <1>0, <1>a, <1>2, <1>8, SnapshotStep DEF CopiesOK, clientVars, durableVars
<1>9. CASE AcceptPush
  BY <1>0, <1>2, <1>9, AcceptPushStep DEF Blank, clientVars, durableVars
<1>10. CASE Emission
  <2>1. PICK r : Emitted(r)
    BY <1>0, <1>10, EmissionStep
  <2>2. /\ mem' = r.payload /\ copies' = copies \cup r.dups /\ op'.step = "emitted" /\ op'.before = mem /\ op'.after = r.payload
        /\ op'.made = r.dups \ copies /\ op'.saving = r.emitted /\ UNCHANGED <<disk, diskCopies>> /\ op.step # "emitted"
    BY <2>1 DEF Emitted, EmitsAs, durableVars
  <2>3. ~r.emitted => r.dups = {} /\ r.payload = mem
    BY <2>1 DEF Emitted, Outcome, Untouched, TookRow, KeptMine, SavedMine
  <2>4. CopiesOK'
    BY <1>a, <2>2, <2>3 DEF CopiesOK
  <2>. QED BY <1>0, <2>2, <2>4 DEF DiskInv, Paired, Since
<1>11. CASE Persist
  <2>1. op.step = "emitted" /\ op'.step = "stored" /\ op'.made = {} /\ UNCHANGED <<mem, copies>>
    BY <1>0, <1>11, PersistStep DEF clientVars
  <2>2. Since(op.after, presaved) /\ Paired(op.before)
    BY <1>0, <2>1 DEF DiskInv
  <2>3. CASE op.saving
    <3>1. disk'.kind = op.after.kind /\ disk'.ts = op.after.ts /\ diskCopies' = diskCopies \cup op.made
      BY <1>0, <1>11, <2>3, PersistStep DEF Becomes
    <3>2. CopiesOK' /\ Paired(mem)'
      BY <1>a, <2>1, <2>2, <3>1 DEF CopiesOK, Paired, Since
    <3>. QED BY <2>1, <3>2 DEF DiskInv
  <2>4. CASE ~op.saving
    <3>1. UNCHANGED <<disk, diskCopies>>
      BY <1>0, <1>11, <2>4, PersistStep
    <3>2. op.made = {} /\ op.after = op.before
      BY <1>a, <2>1, <2>4 DEF CopiesOK
    <3>3. CopiesOK' /\ Paired(mem)'
      BY <1>a, <2>1, <2>2, <3>1, <3>2 DEF CopiesOK, Paired, Since
    <3>. QED BY <2>1, <3>3 DEF DiskInv
  <2>. QED BY <2>3, <2>4
<1>12. CASE NoteToken
  BY <1>0, <1>a, <1>2, <1>12, NoteTokenStep DEF Moves, CopiesOK, clientVars
<1>13. CASE Finish
  <2>1. op.step = "noted" /\ op' = Idle /\ UNCHANGED <<copies, diskCopies>>
        /\ mem' = (IF op.doomed THEN Gone ELSE mem) /\ disk' = (IF op.doomed THEN Gone ELSE disk)
    BY <1>13, Zenon DEF Finish
  <2>. QED BY <1>0, <2>1, IdleBlank, Blanks DEF DiskInv, CopiesOK, Paired
<1>14. CASE PersistFails
  <2>1. op.step = "emitted" /\ op' = Idle /\ copies' = copies \ op.made /\ mem' = op.before /\ UNCHANGED <<disk, diskCopies>>
    BY <1>14 DEF PersistFails, Ended, MayFailToPersist, IsStillApplied, Orderly, durableVars
  <2>. QED BY <1>0, <2>1, IdleBlank DEF DiskInv, CopiesOK, Paired
<1>15. CASE Reload
  <2>1. mem' = disk /\ copies' = diskCopies /\ op' = Idle /\ UNCHANGED <<disk, diskCopies>>
    BY <1>15, Zenon DEF Reload, durableVars
  <2>. QED BY <2>1, IdleBlank DEF DiskInv, CopiesOK, Paired
<1>16. CASE PresaveFails \/ NoteTokenFails \/ FinishUnacknowledged \/ RequestFails \/ NeverApplied
  BY <1>2, <1>16, IdleBlank DEF PresaveFails, NoteTokenFails, FinishUnacknowledged, RequestFails, NeverApplied, Ended, clientVars, durableVars
<1>17. CASE Serve \/ ExecuteRefusing \/ Peers \/ \E u \in late : ExecuteLate(u)
  BY <1>1, <1>17, Zenon DEF Serve, Execute, ExecuteRefusing, Peers, PeerSaves, PeerDeletes, ExecuteLate, clientVars, durableVars
<1>18. CASE User
  <2>1. PICK e \in Edit : EditItem(e) \/ DeleteItem(e)
    BY <1>18 DEF User
  <2>2. /\ mem.kind = "live" /\ mem'.kind # "none" /\ mem'.ts = mem.ts /\ mem'.dirtyIndex = counter + 1
        /\ UNCHANGED <<disk, copies, diskCopies, presaved, op>>
    BY <1>0, <2>1, EditStep, DeleteStep DEF Becomes, durableVars
  <2>3. CopiesOK'
    BY <1>a, <2>2 DEF CopiesOK
  <2>4. Paired(op.before)' = Paired(op.before) /\ (Paired(mem) => Paired(mem)')
    BY <2>2 DEF Paired
  <2>5. op.step = "presaving" => Since(op.item, op.frozen)'
    BY <1>0, <1>b, <2>2 DEF DiskInv, Since
  <2>6. op.step = "emitted" => Since(op.after, presaved)'
    BY <1>0, <1>b, <2>2 DEF DiskInv, Since
  <2>. QED BY <1>0, <2>2, <2>3, <2>4, <2>5, <2>6, Zenon DEF DiskInv
<1>. QED BY <1>3, <1>4, <1>5, <1>6, <1>7, <1>8, <1>9, <1>10, <1>11, <1>12, <1>13, <1>14, <1>15, <1>16, <1>17, <1>18
         DEF Next, Sync, Faults

-----------------------------------------------------------------------------
(* Deletions of what never reached the server                               *)

LEMMA NoneLiveKept ==
    ASSUME NoneLive, server'.kind \in {server.kind, req.upload.kind} \cup {u.kind : u \in late},
           push' \in {push, NoRow}, req'.upload \in {req.upload, NoRow},
           op'.answer \in {op.answer, req.answer, NoAnswer}, req'.answer \in {req.answer, NoAnswer},
           late' \subseteq late \cup {req.upload}
    PROVE  NoneLive'
<1>1. server'.kind # "live"
  BY DEF NoneLive
<1>2. /\ push'.kind # "live" /\ req'.upload.kind # "live" /\ \A u \in late' : u.kind # "live"
  BY Blanks DEF NoneLive
<1>3. /\ req'.answer.got.kind # "live" /\ req'.answer.conflict.kind # "live"
      /\ op'.answer.got.kind # "live" /\ op'.answer.conflict.kind # "live"
  BY Blanks DEF NoneLive
<1>. QED BY <1>1, <1>2, <1>3 DEF NoneLive

\* Nothing is live when the server has no row, nothing is under way and nothing was given up.
LEMMA NothingThere ==
    ASSUME Types, RowsInv, server.kind = "none", late = {}, req.upload.kind = "none"
    PROVE  NoneLive
<1>1. server.ts = 0
  BY Blanks DEF RowsInv, RowOK
<1>2. ASSUME NEW r \in Rows, RowOK(r) PROVE r.kind # "live"
  BY <1>1, <1>2 DEF RowOK, Rows
<1>3. push.kind # "live" /\ req.answer.got.kind # "live" /\ req.answer.conflict.kind # "live"
      /\ op.answer.got.kind # "live" /\ op.answer.conflict.kind # "live"
  BY <1>2 DEF RowsInv, Types, Requests, Answers, Rounds
<1>. QED BY <1>3 DEF NoneLive

LEMMA NextDoom == SyncInv /\ Orderly /\ [Next]_vars => DoomInv'
<1> SUFFICES ASSUME SyncInv, Orderly, [Next]_vars PROVE DoomInv'
  OBVIOUS
<1>0. TypeInv /\ Types /\ Made /\ Phases /\ SoundInv /\ AnswerOK /\ RowsInv /\ DiskInv /\ DoomInv
  BY DEF SyncInv, TypeInv
<1>a. ~NeverSynced(Gone)
  BY Blanks DEF NeverSynced
\* A step of the device that leaves the item and the disk alone.
<1>1. ASSUME mem'.kind = mem.kind, mem'.ts = mem.ts, disk' = disk, op.step # "emitted" \/ op' = op \/ op'.step # "emitted",
             op'.step # "presaving", op'.step # "emitted", NoneLive => NoneLive',
             op'.doomed => op.doomed, op'.doomed /\ op'.step \notin {"stored", "noted"} => op.step \notin {"emitted", "stored", "noted"}
      PROVE  DoomInv'
  BY <1>0, <1>1 DEF DoomInv, NeverSynced, Applying
\* A step of others.
<1>2. ASSUME mem' = mem, disk' = disk, op' = op, NoneLive => NoneLive' \/ server.kind = "live" PROVE DoomInv'
  BY <1>0, <1>2 DEF DoomInv, NeverSynced, Applying, NoneLive
<1>3. CASE UNCHANGED vars
  BY <1>2, <1>3, NoneLiveKept DEF vars, clientVars, durableVars, serverVars
<1>4. CASE Prepare
  <2>1. /\ op'.step = "presaving" /\ op'.item = mem /\ op'.want = (mem.dirty /\ ~NeverSyncedDeleted) /\ op'.doomed = NeverSyncedDeleted
        /\ op'.answer = NoAnswer /\ UNCHANGED <<mem, disk, server, push, late, req>>
    BY <1>0, <1>4, PrepareStep DEF clientVars, durableVars, serverVars
  <2>2. NoneLive => NoneLive'
    BY <2>1, NoneLiveKept
  <2>3. op'.want => ~NeverSynced(mem)
    BY <2>1 DEF NeverSyncedDeleted, NeverSynced
  <2>4. op'.doomed => NeverSynced(mem)
    BY <2>1 DEF NeverSyncedDeleted, NeverSynced
  <2>. QED BY <1>0, <2>1, <2>2, <2>3, <2>4 DEF DoomInv, NeverSynced, Applying
<1>5. CASE Presave
  <2>1. /\ op.step = "presaving" /\ op'.step = "ready" /\ op'.answer = op.answer /\ op'.doomed = op.doomed
        /\ UNCHANGED <<mem, server, push, late, req>>
        /\ disk' = disk \/ (op.want /\ disk'.kind = op.item.kind /\ disk'.ts = op.item.ts)
    BY <1>0, <1>5, PresaveStep DEF Moves, Becomes, NeedsSaving, serverVars
  <2>2. NoneLive => NoneLive'
    BY <2>1, NoneLiveKept
  <2>. QED BY <1>0, <2>1, <2>2 DEF DoomInv, NeverSynced, Applying
<1>6. ASSUME NEW recorded \in BOOLEAN, Send(recorded) PROVE DoomInv'
  <2>1. /\ op.step = "ready" /\ op'.step = "sent" /\ op'.answer = op.answer /\ op'.doomed = op.doomed /\ UNCHANGED <<disk, server, push, late>>
        /\ mem'.kind = mem.kind /\ mem'.ts = mem.ts /\ req'.answer = NoAnswer
        /\ req'.upload.kind \in {mem.kind, "none"}
    BY <1>0, <1>6, SendStep, Blanks DEF Becomes, Row, durableVars, serverVars
  <2>2. NeverSynced(mem) => NoneLive'
    BY <1>0, <2>1, Blanks DEF DoomInv, NeverSynced, NoneLive
  <2>. QED BY <1>0, <2>1, <2>2 DEF DoomInv, NeverSynced, Applying
<1>7. CASE Recover
  <2>1. op' \in Rounds /\ op'.step = "sent" /\ op'.doomed = FALSE /\ op'.answer = NoAnswer /\ UNCHANGED <<mem, disk, server, push, late, req>>
    BY <1>0, <1>7, RecoverStep DEF Blank, clientVars, durableVars, serverVars
  <2>. QED BY <1>1, <2>1, NoneLiveKept
<1>8. CASE Snapshot
  <2>1. op.step = "sent" /\ op'.step = "answered" /\ op'.doomed = op.doomed /\ op'.answer = req.answer /\ UNCHANGED <<mem, disk, server, push, late, req>>
    BY <1>0, <1>8, SnapshotStep DEF clientVars, durableVars, serverVars
  <2>. QED BY <1>1, <2>1, NoneLiveKept
<1>9. CASE AcceptPush
  <2>1. /\ op'.step = "pushed" /\ op'.doomed = FALSE /\ push' = NoRow /\ UNCHANGED <<mem, disk, server, late, req>>
        /\ op'.answer.got = push /\ op'.answer.conflict = NoRow
    BY <1>0, <1>9, AcceptPushStep DEF Blank, clientVars, durableVars
  <2>2. NoneLive => NoneLive'
    BY <2>1, Blanks DEF NoneLive
  <2>. QED BY <1>1, <2>1, <2>2
<1>10. CASE Emission
  <2>1. PICK r : Emitted(r)
    BY <1>0, <1>10, EmissionStep
  <2>2. /\ mem' = r.payload /\ op'.before = mem /\ op'.after = r.payload /\ op'.saving = r.emitted /\ op'.doomed = op.doomed
        /\ op'.answer = op.answer /\ op'.step = "emitted" /\ UNCHANGED <<disk, server, push, late, req>>
        /\ op.step \in {"answered", "pushed"}
    BY <2>1 DEF Emitted, EmitsAs, durableVars, serverVars
  <2>3. NoneLive => NoneLive'
    BY <2>2, NoneLiveKept
  <2>4. op.doomed => NeverSynced(mem) /\ NoneLive
    BY <1>0, <2>2 DEF DoomInv, Applying
  <2>5. /\ NeverSynced(r.payload) => r.payload = mem /\ r.emitted = FALSE
        /\ op.doomed => r.payload.kind # "live"
    <3>1. CASE Untouched(r)
      BY <2>4, <3>1 DEF Untouched, NeverSynced
    <3>2. ASSUME NEW row \in {op.answer.got, op.answer.conflict}, TookRow(r, row) \/ KeptMine(r, row) PROVE <2>5
      BY <2>4, <3>2, Blanks DEF TookRow, KeptMine, Becomes, NeverSynced, NoneLive
    <3>3. CASE SavedMine(r) /\ op.answer.saved # 0
      BY <2>4, <3>3, Blanks DEF SavedMine, Becomes, NeverSynced
    <3>. QED BY <2>1, <3>1, <3>2, <3>3 DEF Emitted, Outcome
  <2>. QED BY <1>0, <2>2, <2>3, <2>5 DEF DoomInv, NeverSynced, Applying
<1>11. CASE Persist
  <2>1. /\ op.step = "emitted" /\ op'.step = "stored" /\ op'.doomed = op.doomed /\ op'.answer = op.answer
        /\ UNCHANGED <<mem, server, push, late, req>>
        /\ disk' = disk \/ (op.saving /\ disk'.kind = op.after.kind /\ disk'.ts = op.after.ts)
    BY <1>0, <1>11, PersistStep DEF Becomes, clientVars, serverVars
  <2>2. NoneLive => NoneLive'
    BY <2>1, NoneLiveKept
  <2>. QED BY <1>0, <2>1, <2>2 DEF DoomInv, NeverSynced, Applying
<1>12. CASE NoteToken
  <2>1. op.step = "stored" /\ op'.step = "noted" /\ op'.doomed = op.doomed /\ op'.answer = op.answer /\ UNCHANGED <<mem, disk, server, push, late, req>>
    BY <1>0, <1>12, NoteTokenStep DEF Moves, clientVars, serverVars
  <2>2. NoneLive => NoneLive'
    BY <2>1, NoneLiveKept
  <2>. QED BY <1>0, <2>1, <2>2 DEF DoomInv, NeverSynced, Applying
<1>13. CASE Finish \/ (Faults /\ ~ExecuteRefusing)
  <2>1. /\ op' = Idle /\ req' \in {req, NoRequest} /\ late' \in {late, late \cup {req.upload}} /\ UNCHANGED <<server, push>>
        /\ mem' \in {mem, Gone, op.before, disk} /\ disk' \in {disk, Gone}
    BY <1>0, <1>13, RoundEndsWith
  <2>2. NoneLive => NoneLive'
    BY <2>1, NoneLiveKept, IdleBlank, Unsent0
  <2>3. mem' = op.before => mem' = mem \/ op.step = "emitted" \/ mem' \in {Gone, disk}
    BY <1>13 DEF Faults, Finish, PresaveFails, PersistFails, NoteTokenFails, FinishUnacknowledged, RequestFails, NeverApplied, Reload, clientVars
  <2>. QED BY <1>0, <1>a, <2>1, <2>2, <2>3, IdleBlank DEF DoomInv, NeverSynced, Applying
<1>14. ASSUME NEW echo \in BOOLEAN, Execute(echo) PROVE DoomInv'
  <2>1. /\ UNCHANGED <<mem, disk, op, push, late>> /\ req'.upload = req.upload
        /\ server'.kind \in {server.kind, req.upload.kind}
        /\ req'.answer.got \in {server, NoRow} /\ req'.answer.conflict \in {server, NoRow}
    BY <1>0, <1>14, ExecuteStep DEF Answered, Takes, Retrieved, clientVars, durableVars
  <2>2. NoneLive => NoneLive'
    BY <2>1, Blanks DEF NoneLive
  <2>. QED BY <1>2, <2>1, <2>2
<1>15. CASE ExecuteRefusing
  <2>1. /\ UNCHANGED <<mem, disk, op, push, late, server>> /\ req'.upload = req.upload
        /\ req'.answer.got \in {server, NoRow} /\ req'.answer.conflict \in {server, NoRow}
    BY <1>0, <1>15, RefuseStep DEF Answered, Retrieved, clientVars, durableVars, serverVars
  <2>2. NoneLive => NoneLive'
    BY <2>1, Blanks DEF NoneLive
  <2>. QED BY <1>2, <2>1, <2>2
<1>16. ASSUME NEW u \in late, ExecuteLate(u) PROVE DoomInv'
  <2>1. /\ UNCHANGED <<mem, disk, op, push, req>> /\ late' \subseteq late /\ server'.kind \in {server.kind, u.kind}
    BY <1>0, <1>16, LateStep DEF Takes, clientVars, durableVars
  <2>2. NoneLive => NoneLive'
    BY <2>1 DEF NoneLive
  <2>. QED BY <1>2, <2>1, <2>2
<1>17. CASE Peers
  BY <1>2, <1>17 DEF Peers, PeerSaves, PeerDeletes, clientVars, durableVars
<1>18. ASSUME NEW e \in Edit, EditItem(e) PROVE DoomInv'
  <2>1. mem.kind = "live" /\ mem'.kind = "live" /\ UNCHANGED <<disk, op, server, push, late, req>>
    BY <1>0, <1>18, EditStep DEF Becomes, durableVars, serverVars
  <2>. QED BY <1>0, <2>1 DEF DoomInv, NeverSynced, Applying, NoneLive
<1>19. ASSUME NEW e \in Edit, DeleteItem(e) PROVE DoomInv'
  <2>1. mem.kind = "live" /\ mem'.kind = "deleted" /\ mem'.ts = mem.ts /\ UNCHANGED <<disk, op, server, push, late, req>>
    BY <1>0, <1>19, DeleteStep DEF Becomes, durableVars, serverVars
  <2>2. mem.ts = 0 => NoneLive
    BY <1>0, <1>19, NothingThere DEF DeleteItem, MayDelete, Orderly
  <2>. QED BY <1>0, <2>1, <2>2 DEF DoomInv, NeverSynced, Applying, NoneLive
<1>. QED BY <1>3, <1>4, <1>5, <1>6, <1>7, <1>8, <1>9, <1>10, <1>11, <1>12, <1>13, <1>14, <1>15, <1>16, <1>17, <1>18, <1>19
         DEF Next, Sync, Faults, Serve, User

-----------------------------------------------------------------------------
(* Who is built on the server's row holds all of it                         *)

LEMMA HoldsMore ==
    ASSUME NEW p, NEW cs, NEW ow, NEW writes, Holds(p, cs, ow, writes),
           NEW q, NEW cs2, NEW ow2, NEW writes2,
           p.content \subseteq q.content, p.kind # "live" => q.kind # "live", cs \subseteq cs2,
           writes2 \subseteq writes, ow2 \cap writes2 \subseteq ow
    PROVE  Holds(q, cs2, ow2, writes2)
  BY DEF Holds, In

\* What Covers, CoversUpload and HoldsUpload say of the next state.
CoversThen(p, cs) == p.kind # "none" /\ p.ts = server'.ts => Holds(p, cs, owed', server'.content)

UploadThen(u) ==
    u.kind # "none" /\ u.ts = server'.ts => \A e \in server'.content \cap owed' : e \in u.content \/ e \in UNION diskCopies'

HoldsThen(p, cs) ==
    req'.upload.kind # "none" /\ (~req'.answered \/ req'.answer.saved # 0) => Holds(p, cs, owed', req'.upload.content)

LEMMA VersionThen ==
    ASSUME CoversThen(mem', copies'), CoversThen(disk', diskCopies'), CoversThen(op'.item, diskCopies'),
           CoversThen(op'.before, diskCopies'), CoversThen(op'.after, copies'),
           \A u \in late' : UploadThen(u), ~req'.answered => UploadThen(req'.upload),
           HoldsThen(mem', copies'), op'.step = "emitted" => HoldsThen(op'.before, diskCopies')
    PROVE  VersionInv'
  BY DEF VersionInv, Covers, CoversThen, CoversUpload, UploadThen, HoldsUpload, HoldsThen, Uploading

\* No write that was made becomes owed, and copies stay on disk.
Frame == (server' = server \/ server'.ts = server.ts + 1) /\ owed' \cap done \subseteq owed /\ diskCopies \subseteq diskCopies'

LEMMA CoversLater ==
    ASSUME Made, Frame, server.ts \in Nat, NEW p, p.ts \in Nat, p.ts <= server.ts, NEW cs, Covers(p, cs),
           NEW q, q.kind = p.kind, q.content = p.content, q.ts = p.ts, NEW cs2, cs \subseteq cs2
    PROVE  CoversThen(q, cs2)
<1>1. CASE server' = server
  <2>1. server.content \subseteq done
    BY DEF Made
  <2>2. owed' \cap server'.content \subseteq owed
    BY <1>1, <2>1 DEF Frame
  <2>3. p.kind # "none" /\ p.ts = server.ts => Holds(p, cs, owed, server.content)
    BY DEF Covers
  <2>4. Holds(p, cs, owed, server.content) => Holds(q, cs2, owed', server'.content)
    BY <1>1, <2>2, HoldsMore
  <2>. QED BY <1>1, <2>3, <2>4 DEF CoversThen
<1>2. CASE server'.ts = server.ts + 1
  BY <1>2 DEF CoversThen
<1>. QED BY <1>1, <1>2 DEF Frame

LEMMA UploadLater ==
    ASSUME Made, Frame, server.ts \in Nat, NEW u, u.ts \in Nat, u.ts <= server.ts, CoversUpload(u)
    PROVE  UploadThen(u)
  BY DEF CoversUpload, UploadThen, Frame, Made

LEMMA GoneCovers == \A cs : CoversThen(Gone, cs)
  BY Blanks DEF CoversThen

\* What a step keeps of VersionInv, part by part.
LEMMA VersionKept ==
    ASSUME Types, Made, SoundInv, VersionInv, Frame
    PROVE  /\ \A cs : copies \subseteq cs => CoversThen(mem, cs) /\ CoversThen(op.after, cs)
           /\ CoversThen(disk, diskCopies') /\ CoversThen(op.item, diskCopies') /\ CoversThen(op.before, diskCopies')
           /\ \A u \in late : UploadThen(u)
           /\ ~req.answered => UploadThen(req.upload)
<1>1. server.ts \in Nat /\ req.upload.ts \in Nat /\ \A u \in late : u.ts \in Nat
  BY TypedPayloads DEF Types, Rows
<1>2. \A p \in {mem, disk, op.item, op.before, op.after} : p.ts \in Nat /\ p.ts <= server.ts
  BY TypedPayloads DEF Payloads, SoundInv, Sound
<1>3. ASSUME NEW cs, copies \subseteq cs PROVE CoversThen(mem, cs) /\ CoversThen(op.after, cs)
  BY <1>1, <1>2, <1>3, CoversLater DEF VersionInv
<1>4. CoversThen(disk, diskCopies') /\ CoversThen(op.item, diskCopies') /\ CoversThen(op.before, diskCopies')
  BY <1>1, <1>2, CoversLater DEF VersionInv, Frame
<1>5. ASSUME NEW u \in late PROVE UploadThen(u)
  BY <1>1, UploadLater DEF VersionInv, SoundInv
<1>6. ~req.answered => UploadThen(req.upload)
  BY <1>1, UploadLater DEF VersionInv, SoundInv
<1>. QED BY <1>3, <1>4, <1>5, <1>6

\* An upload is still held, unless its answer was that it is not saved.
LEMMA HoldsKept ==
    ASSUME Made, req'.upload = req.upload, owed' \cap done \subseteq owed,
           ~req'.answered \/ req'.answer.saved # 0 => ~req.answered \/ req.answer.saved # 0,
           NEW p, NEW cs, HoldsUpload(p, cs),
           NEW q, p.content \subseteq q.content, p.kind # "live" => q.kind # "live", NEW cs2, cs \subseteq cs2
    PROVE  HoldsThen(q, cs2)
<1>1. req.upload.content \subseteq done
  BY DEF Made, RequestMade
<1>2. owed' \cap req'.upload.content \subseteq owed
  BY <1>1
<1>3. Holds(p, cs, owed, req.upload.content) => Holds(q, cs2, owed', req'.upload.content)
  BY <1>2, HoldsMore
<1>. QED BY <1>3 DEF HoldsUpload, HoldsThen, Uploading

LEMMA NothingHeld == ASSUME req'.upload.kind = "none" \/ (req'.answered /\ req'.answer.saved = 0), NEW p, NEW cs PROVE HoldsThen(p, cs)
  BY DEF HoldsThen

LEMMA NextVersion == SyncInv /\ Orderly /\ [Next]_vars => VersionInv'
<1> SUFFICES ASSUME SyncInv, Orderly, [Next]_vars PROVE VersionInv'
  OBVIOUS
<1>0. TypeInv /\ Types /\ Types' /\ Made /\ Phases /\ SoundInv /\ AnswerOK /\ RowsInv /\ DiskInv /\ DoomInv /\ VersionInv
  BY NextTypeInv DEF SyncInv, TypeInv
<1>a. CopiesOK /\ server.ts \in Nat /\ op.step # "emitted" => copies = diskCopies
  BY <1>0, TypedPayloads DEF DiskInv, CopiesOK
<1>b. HoldsUpload(mem, copies) /\ (op.step = "emitted" => HoldsUpload(op.before, diskCopies))
  BY <1>0 DEF VersionInv
<1>c. op.step # "emitted" => copies = diskCopies
  BY <1>0 DEF DiskInv, CopiesOK
<1>d. server.ts \in Nat
  BY <1>0, TypedPayloads
\* A step that leaves the payloads, and may be the end of the round or a step of others.
<1>1. ASSUME Frame, UNCHANGED <<mem, disk, diskCopies>>, copies' = copies, late' \subseteq late,
             op'.item \in {op.item, Gone}, op'.before \in {op.before, Gone}, op'.after \in {op.after, Gone},
             op'.step = "emitted" => op'.before = op.before /\ op.step = "emitted",
             req'.upload = req.upload,
             (req'.answered = req.answered /\ req'.answer = req.answer) \/ (~req.answered /\ req'.answered)
      PROVE  VersionInv'
  <2>1. /\ CoversThen(mem', copies') /\ CoversThen(disk', diskCopies') /\ CoversThen(op'.item, diskCopies')
        /\ CoversThen(op'.before, diskCopies') /\ CoversThen(op'.after, copies')
        /\ \A u \in late' : UploadThen(u)
        /\ ~req'.answered => UploadThen(req'.upload)
    BY <1>0, <1>1, VersionKept, GoneCovers
  <2>2. HoldsThen(mem', copies')
    BY <1>0, <1>1, <1>b, HoldsKept DEF Frame
  <2>3. op'.step = "emitted" => HoldsThen(op'.before, diskCopies')
    BY <1>0, <1>1, <1>b, HoldsKept DEF Frame
  <2>. QED BY <2>1, <2>2, <2>3, VersionThen
\* The server, its rows and the writes are as they were.
<1>2. server' = server /\ owed' = owed /\ diskCopies' = diskCopies => Frame
  BY DEF Frame
<1>3. CASE UNCHANGED vars
  BY <1>1, <1>2, <1>3 DEF vars, clientVars, durableVars, serverVars, history
<1>4. CASE Prepare
  <2>1. /\ op.step = "idle" /\ op'.step = "presaving" /\ op'.item = mem /\ op'.before = Gone /\ op'.after = Gone
        /\ UNCHANGED <<mem, disk, copies, diskCopies, server, late, owed, req>>
    BY <1>0, <1>4, PrepareStep DEF clientVars, durableVars, serverVars, history
  <2>2. Frame /\ copies = diskCopies'
    BY <1>2, <1>c, <2>1
  <2>3. /\ CoversThen(mem', copies') /\ CoversThen(disk', diskCopies') /\ CoversThen(op'.item, diskCopies')
        /\ CoversThen(op'.before, diskCopies') /\ CoversThen(op'.after, copies')
        /\ \A u \in late' : UploadThen(u)
        /\ ~req'.answered => UploadThen(req'.upload)
    BY <1>0, <2>1, <2>2, VersionKept, GoneCovers
  <2>4. HoldsThen(mem', copies')
    BY <1>0, <1>b, <2>1, HoldsKept
  <2>. QED BY <2>1, <2>3, <2>4, VersionThen
<1>5. CASE Presave
  <2>1. /\ op.step = "presaving" /\ op'.step = "ready" /\ op'.item = op.item /\ op'.before = op.before /\ op'.after = op.after
        /\ UNCHANGED <<mem, copies, diskCopies, server, late, owed, req>>
        /\ disk' = disk \/ (disk'.kind = op.item.kind /\ disk'.content = op.item.content /\ disk'.ts = op.item.ts)
    BY <1>0, <1>5, PresaveStep DEF Moves, Becomes, serverVars
  <2>2. Frame
    BY <1>2, <2>1
  <2>3. CoversThen(op.item, diskCopies') /\ CoversThen(disk, diskCopies')
    BY <1>0, <2>2, VersionKept
  <2>4. CoversThen(disk', diskCopies')
    BY <2>1, <2>3 DEF CoversThen, Holds, In
  <2>5. /\ CoversThen(mem', copies') /\ CoversThen(op'.item, diskCopies')
        /\ CoversThen(op'.before, diskCopies') /\ CoversThen(op'.after, copies')
        /\ \A u \in late' : UploadThen(u)
        /\ ~req'.answered => UploadThen(req'.upload)
    BY <1>0, <2>1, <2>2, VersionKept
  <2>6. HoldsThen(mem', copies')
    BY <1>0, <1>b, <2>1, HoldsKept
  <2>. QED BY <2>1, <2>4, <2>5, <2>6, VersionThen
<1>6. ASSUME NEW recorded \in BOOLEAN, Send(recorded) PROVE VersionInv'
  <2>1. /\ op.step = "ready" /\ op'.step = "sent" /\ op'.item = Gone /\ op'.before = op.before /\ op'.after = op.after
        /\ mem'.kind = mem.kind /\ mem'.content = mem.content /\ mem'.ts = mem.ts
        /\ ~req'.answered
        /\ req'.upload = IF op.want /\ mem.kind # "none" THEN Row(mem.kind, mem.content, mem.ts) ELSE NoRow
        /\ UNCHANGED <<copies, disk, diskCopies, server, late, owed>>
    BY <1>0, <1>6, SendStep DEF Becomes, durableVars, serverVars, history
  <2>2. Frame /\ copies = diskCopies'
    BY <1>2, <1>c, <2>1
  <2>3. CoversThen(mem, diskCopies') /\ CoversThen(mem, copies)
    BY <1>0, <2>1, <2>2, VersionKept
  <2>4. CoversThen(mem', copies')
    BY <2>1, <2>3 DEF CoversThen, Holds, In
  <2>5. /\ CoversThen(disk', diskCopies') /\ CoversThen(op'.item, diskCopies')
        /\ CoversThen(op'.before, diskCopies') /\ CoversThen(op'.after, copies')
        /\ \A u \in late' : UploadThen(u)
    BY <1>0, <2>1, <2>2, VersionKept, GoneCovers
  <2>6. UploadThen(req'.upload)
    <3>1. CASE req'.upload = NoRow BY <3>1, Blanks DEF UploadThen
    <3>2. CASE req'.upload = Row(mem.kind, mem.content, mem.ts)
      BY <2>3, <3>2 DEF UploadThen, CoversThen, Holds, In, Row
    <3>. QED BY <2>1, <3>1, <3>2
  <2>7. HoldsThen(mem', copies')
    <3>1. CASE req'.upload = NoRow BY <3>1, Blanks, NothingHeld
    <3>2. CASE req'.upload = Row(mem.kind, mem.content, mem.ts)
      BY <2>1, <3>2 DEF HoldsThen, Holds, In, Row
    <3>. QED BY <2>1, <3>1, <3>2
  <2>. QED BY <2>1, <2>4, <2>5, <2>6, <2>7, VersionThen
<1>7. CASE Recover \/ AcceptPush
  <2>1. Blank /\ op'.step # "emitted" /\ UNCHANGED <<mem, disk, copies, diskCopies, server, late, owed, req>>
    BY <1>0, <1>7, RecoverStep, AcceptPushStep DEF clientVars, durableVars, serverVars, history
  <2>. QED BY <1>1, <1>2, <2>1 DEF Blank
<1>8. CASE Snapshot
  <2>1. /\ op'.step = "answered" /\ op'.item = op.item /\ op'.before = op.before /\ op'.after = op.after
        /\ UNCHANGED <<mem, disk, copies, diskCopies, server, late, owed, req>>
    BY <1>0, <1>8, SnapshotStep DEF clientVars, durableVars, serverVars, history
  <2>. QED BY <1>1, <1>2, <2>1
<1>9. CASE Emission
  <2>1. PICK r : Emitted(r)
    BY <1>0, <1>9, EmissionStep
  <2>2. /\ mem' = r.payload /\ copies' = copies \cup r.dups /\ op'.before = mem /\ op'.after = r.payload /\ op'.item = Gone
        /\ op.step \in {"answered", "pushed"} /\ UNCHANGED <<disk, diskCopies, server, late, owed, req, uploaded>>
    BY <2>1 DEF Emitted, EmitsAs, durableVars, serverVars, history
  <2>3. Frame /\ copies = diskCopies'
    BY <1>2, <1>c, <2>2
  <2>4. /\ CoversThen(disk', diskCopies') /\ CoversThen(op'.item, diskCopies') /\ CoversThen(op'.before, diskCopies')
        /\ \A u \in late' : UploadThen(u)
        /\ ~req'.answered => UploadThen(req'.upload)
        /\ CoversThen(mem, copies')
    BY <1>0, <2>2, <2>3, VersionKept, GoneCovers
  <2>5. HoldsThen(op'.before, diskCopies') /\ HoldsThen(mem, copies')
    BY <1>0, <1>b, <1>c, <2>2, HoldsKept
  <2>6. op.answer.saved = 0 => \A p, cs : HoldsThen(p, cs)
    BY <1>0, <2>2, NothingHeld DEF Phases, Uploading
  <2>7. ASSUME NEW row \in {op.answer.got, op.answer.conflict}, row.kind # "none", TookRow(r, row) PROVE CoversThen(mem', copies')
    <3>1. row.ts = server.ts => row = server
      BY <1>0, <2>7 DEF RowsInv, RowOK
    <3>. QED BY <2>2, <2>7, <3>1, Blanks DEF TookRow, Becomes, CoversThen, Holds, In
  <2>8. ASSUME NEW row \in {op.answer.got, op.answer.conflict}, row.kind # "none", KeptMine(r, row) PROVE CoversThen(mem', copies')
    <3>1. row.ts = server.ts => row = server
      BY <1>0, <2>8 DEF RowsInv, RowOK
    <3>2. mem'.kind = "live" /\ mem'.content = mem.content /\ mem'.ts = row.ts
      BY <2>2, <2>8 DEF KeptMine, Becomes
    <3>3. row.content \in copies' \/ row.content \subseteq mem.content
      BY <2>2, <2>8 DEF KeptMine
    <3>. QED BY <2>2, <3>1, <3>2, <3>3 DEF CoversThen, Holds, In
  <2>9. ASSUME op.answer.saved # 0, SavedMine(r) PROVE CoversThen(mem', copies') /\ HoldsThen(mem', copies')
    <3>1. op.answer = req.answer /\ req.answer.saved = op.answer.saved /\ req.answer.saved # 0
      BY <1>0, <2>1, <2>9 DEF Emitted, Phases
    <3>2. /\ op.answer.saved = server.ts => server.content = req.upload.content
          /\ Uploading
      BY <1>0, <3>1 DEF AnswerOK
    <3>3. /\ mem.kind = "live" => mem'.kind = "live" /\ mem'.content = mem.content /\ mem'.ts = op.answer.saved
          /\ mem.kind # "live" => mem'.kind # "live" /\ mem.content = {} /\ (mem' = Gone \/ mem'.ts = op.answer.saved)
      BY <1>0, <2>2, <2>9, Blanks DEF SavedMine, Becomes, Types, Payloads
    <3>4. Holds(mem, copies', owed', req'.upload.content)
      BY <2>2, <2>5, <3>1, <3>2 DEF HoldsThen, Uploading
    <3>5. Holds(mem', copies', owed', req'.upload.content)
      BY <3>3, <3>4 DEF Holds, In
    <3>. QED BY <2>2, <3>2, <3>3, <3>5, Blanks DEF CoversThen, HoldsThen
  <2>10. ASSUME Untouched(r) PROVE CoversThen(mem', copies')
    BY <2>2, <2>4, <2>10, Zenon DEF Untouched
  <2>11. CoversThen(mem', copies') /\ HoldsThen(mem', copies')
    BY <2>1, <2>6, <2>7, <2>8, <2>9, <2>10 DEF Emitted, Outcome
  <2>. QED BY <2>2, <2>4, <2>5, <2>11, VersionThen
<1>10. CASE Persist
  <2>1. /\ op.step = "emitted" /\ op'.step = "stored" /\ op'.item = op.item /\ op'.before = Gone /\ op'.after = Gone
        /\ UNCHANGED <<mem, copies, server, late, owed, req>> /\ diskCopies \subseteq diskCopies'
        /\ disk' = disk \/ (diskCopies' = diskCopies \cup op.made
                            /\ disk'.kind = op.after.kind /\ disk'.content = op.after.content /\ disk'.ts = op.after.ts)
    BY <1>0, <1>10, PersistStep DEF Becomes, clientVars, serverVars, history
  <2>2. Frame
    BY <2>1 DEF Frame
  <2>3. CoversThen(disk, diskCopies') /\ CoversThen(op.after, copies)
    BY <1>0, <2>2, VersionKept
  <2>4. diskCopies' = diskCopies \cup op.made => copies = diskCopies'
    BY <1>0 DEF DiskInv, CopiesOK
  <2>5. CoversThen(disk', diskCopies')
    BY <2>1, <2>3, <2>4 DEF CoversThen, Holds, In
  <2>6. /\ CoversThen(mem', copies') /\ CoversThen(op'.item, diskCopies')
        /\ CoversThen(op'.before, diskCopies') /\ CoversThen(op'.after, copies')
        /\ \A u \in late' : UploadThen(u)
        /\ ~req'.answered => UploadThen(req'.upload)
    BY <1>0, <2>1, <2>2, VersionKept, GoneCovers
  <2>7. HoldsThen(mem', copies')
    BY <1>0, <1>b, <2>1, HoldsKept
  <2>. QED BY <2>1, <2>5, <2>6, <2>7, VersionThen
<1>11. CASE NoteToken
  <2>1. /\ op'.step = "noted" /\ op'.item = op.item /\ op'.before = op.before /\ op'.after = op.after
        /\ UNCHANGED <<mem, disk, copies, diskCopies, server, late, owed, req>>
    BY <1>0, <1>11, NoteTokenStep DEF Moves, clientVars, serverVars, history
  <2>. QED BY <1>1, <1>2, <2>1
\* A round that ends with the item as it was.
<1>12. ASSUME op' = Idle, UNCHANGED <<mem, disk, copies, diskCopies, server, owed>>, req' \in {req, NoRequest},
              \A u \in late' : u \in late \/ (u = req.upload /\ ~req.answered)
       PROVE  VersionInv'
  <2>1. Frame
    BY <1>2, <1>12
  <2>2. /\ CoversThen(mem', copies') /\ CoversThen(disk', diskCopies') /\ CoversThen(op'.item, diskCopies')
        /\ CoversThen(op'.before, diskCopies') /\ CoversThen(op'.after, copies')
        /\ \A u \in late' : UploadThen(u)
    BY <1>0, <1>12, <2>1, VersionKept, GoneCovers, IdleBlank
  <2>3. CASE req' = req
    <3>1. HoldsThen(mem', copies') /\ (~req'.answered => UploadThen(req'.upload))
      BY <1>0, <1>12, <1>b, <2>1, <2>3, HoldsKept, VersionKept
    <3>. QED BY <1>12, <2>2, <3>1, VersionThen, IdleBlank
  <2>4. CASE req' = NoRequest
    <3>1. HoldsThen(mem', copies') /\ (~req'.answered => UploadThen(req'.upload))
      BY <2>4, Unsent0, Blanks, NothingHeld DEF UploadThen
    <3>. QED BY <1>12, <2>2, <3>1, VersionThen, IdleBlank
  <2>. QED BY <1>12, <2>3, <2>4
<1>13. CASE Finish
  <2>1. /\ op' = Idle /\ UNCHANGED <<copies, diskCopies, server, late, owed>>
        /\ mem' = (IF op.doomed THEN Gone ELSE mem) /\ disk' = (IF op.doomed THEN Gone ELSE disk)
        /\ req' = IF op.pushed THEN req ELSE NoRequest
    BY <1>13, Zenon DEF Finish, serverVars, history
  <2>2. CASE ~op.doomed
    BY <1>12, <2>1, <2>2
  <2>3. CASE op.doomed
    <3>1. req' = NoRequest
      BY <1>0, <2>1, <2>3 DEF Phases
    <3>2. Frame
      BY <1>2, <2>1
    <3>3. /\ CoversThen(mem', copies') /\ CoversThen(disk', diskCopies') /\ CoversThen(op'.item, diskCopies')
          /\ CoversThen(op'.before, diskCopies') /\ CoversThen(op'.after, copies')
          /\ \A u \in late' : UploadThen(u)
      BY <1>0, <2>1, <2>3, <3>2, VersionKept, GoneCovers, IdleBlank
    <3>4. HoldsThen(mem', copies') /\ UploadThen(req'.upload)
      BY <3>1, Unsent0, Blanks, NothingHeld DEF UploadThen
    <3>. QED BY <2>1, <3>3, <3>4, VersionThen, IdleBlank
  <2>. QED BY <2>2, <2>3
<1>14. CASE PersistFails
  <2>1. /\ op.step = "emitted" /\ op' = Idle /\ copies' = copies \ op.made /\ mem' = op.before /\ req' \in {req, NoRequest}
        /\ UNCHANGED <<disk, diskCopies, server, late, owed>>
    BY <1>14 DEF PersistFails, Ended, MayFailToPersist, IsStillApplied, Orderly, durableVars, serverVars, history
  <2>2. Frame /\ copies' = diskCopies
    BY <1>0, <1>2, <2>1 DEF DiskInv, CopiesOK
  <2>3. /\ CoversThen(mem', copies') /\ CoversThen(disk', diskCopies') /\ CoversThen(op'.item, diskCopies')
        /\ CoversThen(op'.before, diskCopies') /\ CoversThen(op'.after, copies')
        /\ \A u \in late' : UploadThen(u)
    BY <1>0, <2>1, <2>2, VersionKept, GoneCovers, IdleBlank
  <2>4. CASE req' = req
    <3>1. HoldsThen(mem', copies') /\ (~req'.answered => UploadThen(req'.upload))
      BY <1>0, <1>b, <2>1, <2>2, <2>4, HoldsKept, VersionKept
    <3>. QED BY <2>1, <2>3, <3>1, VersionThen, IdleBlank
  <2>5. CASE req' = NoRequest
    <3>1. HoldsThen(mem', copies') /\ (~req'.answered => UploadThen(req'.upload))
      BY <2>5, Unsent0, Blanks, NothingHeld DEF UploadThen
    <3>. QED BY <2>1, <2>3, <3>1, VersionThen, IdleBlank
  <2>. QED BY <2>1, <2>4, <2>5
<1>15. CASE PresaveFails \/ NoteTokenFails \/ FinishUnacknowledged \/ NeverApplied
  BY <1>12, <1>15 DEF PresaveFails, NoteTokenFails, FinishUnacknowledged, NeverApplied, Ended, clientVars, durableVars, serverVars, history
<1>16. CASE RequestFails
  BY <1>12, <1>16 DEF RequestFails, Abandoned, Ended, clientVars, durableVars, history
<1>17. CASE Reload
  <2>1. /\ op' = Idle /\ mem' = disk /\ copies' = diskCopies /\ UNCHANGED <<disk, diskCopies, server>> /\ owed' \subseteq owed
        /\ \A u \in late' : u \in late \/ (u = req.upload /\ ~req.answered)
        /\ req' = NoRequest \/ req'.upload.kind = "none"
    BY <1>17, Unsent0 DEF Reload, Abandoned, MayForget, Orderly, durableVars
  <2>2. Frame
    BY <2>1 DEF Frame
  <2>3. /\ CoversThen(mem', copies') /\ CoversThen(disk', diskCopies') /\ CoversThen(op'.item, diskCopies')
        /\ CoversThen(op'.before, diskCopies') /\ CoversThen(op'.after, copies')
        /\ \A u \in late' : UploadThen(u)
    BY <1>0, <2>1, <2>2, VersionKept, GoneCovers, IdleBlank
  <2>4. HoldsThen(mem', copies') /\ UploadThen(req'.upload)
    BY <2>1, Unsent0, Blanks, NothingHeld DEF UploadThen
  <2>. QED BY <2>1, <2>3, <2>4, VersionThen, IdleBlank
<1>18. CASE Serve \/ ExecuteRefusing
  <2>1. /\ Answered /\ UNCHANGED <<mem, disk, copies, diskCopies, late, op, owed>>
        /\ server' = server \/ server'.ts = server.ts + 1
    BY <1>0, <1>18, ExecuteStep, RefuseStep DEF Serve, Takes, clientVars, durableVars, serverVars, history
  <2>. QED BY <1>1, <2>1 DEF Answered, Frame
<1>19. CASE Peers
  <2>1. UNCHANGED <<mem, disk, copies, diskCopies, late, op, req>> /\ server'.ts = server.ts + 1 /\ owed' \cap done \subseteq owed
    BY <1>0, <1>19, PeerSavesStep, PeerDeletesStep DEF Peers, clientVars, durableVars
  <2>. QED BY <1>1, <2>1 DEF Frame
<1>20. ASSUME NEW u \in late, ExecuteLate(u) PROVE VersionInv'
  <2>1. UNCHANGED <<mem, disk, copies, diskCopies, op, req, owed>> /\ late' \subseteq late /\ (server' = server \/ server'.ts = server.ts + 1)
    BY <1>0, <1>20, LateStep DEF Takes, clientVars, durableVars
  <2>. QED BY <1>1, <2>1 DEF Frame
<1>21. ASSUME NEW e \in Edit, EditItem(e) \/ DeleteItem(e) PROVE VersionInv'
  <2>1. /\ UNCHANGED <<disk, copies, diskCopies, server, late, op, req>> /\ owed' \cap done \subseteq owed
        /\ mem.kind = "live" /\ mem'.kind # "none" /\ mem'.ts = mem.ts
        /\ \/ mem'.content = mem.content \cup {e}
           \/ mem'.kind # "live" /\ owed' \cap mem.content = {}
    BY <1>0, <1>21, EditStep, DeleteStep DEF Becomes, durableVars, serverVars
  <2>2. Frame
    BY <2>1 DEF Frame
  <2>3. /\ CoversThen(mem, copies') /\ CoversThen(disk', diskCopies') /\ CoversThen(op'.item, diskCopies')
        /\ CoversThen(op'.before, diskCopies') /\ CoversThen(op'.after, copies')
        /\ \A u \in late' : UploadThen(u)
        /\ ~req'.answered => UploadThen(req'.upload)
    BY <1>0, <2>1, <2>2, VersionKept
  <2>4. HoldsThen(mem, copies')
    BY <1>0, <1>b, <2>1, HoldsKept
  <2>5. ASSUME NEW writes, Holds(mem, copies', owed', writes) PROVE Holds(mem', copies', owed', writes)
    BY <2>1, <2>5 DEF Holds, In
  <2>6. CoversThen(mem', copies') /\ HoldsThen(mem', copies')
    BY <2>1, <2>3, <2>4, <2>5 DEF CoversThen, HoldsThen
  <2>7. op'.step = "emitted" => HoldsThen(op'.before, diskCopies')
    BY <1>0, <1>b, <2>1, HoldsKept
  <2>. QED BY <2>3, <2>6, <2>7, VersionThen
<1>. QED BY <1>3, <1>4, <1>5, <1>6, <1>7, <1>8, <1>9, <1>10, <1>11, <1>13, <1>14, <1>15, <1>16, <1>17, <1>18, <1>19, <1>20, <1>21
         DEF Next, Sync, Faults, User

-----------------------------------------------------------------------------
(* Where the writes are                                                     *)

\* What the server held and nobody deleted is in its row, or in a copy on disk.
Uploads == \A e \in uploaded \cap owed : e \in server.content \/ e \in UNION diskCopies

\* The row is replaced by an upload that is built on it.
LEMMA TakesUploads ==
    ASSUME Uploads, NEW u, CoversUpload(u), Takes(u), UNCHANGED <<owed, diskCopies>>
    PROVE  Uploads'
  BY DEF Uploads, CoversUpload, Takes, Accepts

LEMMA NextWrites == SyncInv /\ Orderly /\ [Next]_vars => WritesInv'
<1> SUFFICES ASSUME SyncInv, Orderly, [Next]_vars PROVE WritesInv'
  OBVIOUS
<1>0. TypeInv /\ Types /\ Made /\ Phases /\ SoundInv /\ AnswerOK /\ RowsInv /\ DiskInv /\ DoomInv /\ VersionInv /\ WritesInv
  BY DEF SyncInv, TypeInv
<1>a. op.step # "emitted" => copies = diskCopies
  BY <1>0 DEF DiskInv, CopiesOK
<1>b. Uploads
  BY <1>0 DEF WritesInv, Uploads
<1>c. /\ mem \in Payloads /\ mem.dirty \in BOOLEAN
      /\ mem.kind # "live" => mem.content = {}
      /\ mem.kind = "live" /\ ~mem.dirty => mem.content \subseteq uploaded
      /\ counter \in Nat /\ presaved \in Int /\ presaved <= counter /\ mem.dirtyIndex \in Nat /\ mem.dirtyIndex <= counter
      /\ op.item.dirtyIndex \in Nat /\ op.frozen \in Nat
  BY <1>0, TypedPayloads DEF Payloads, SoundInv, Sound
\* Neither the item nor the disk changes; the writes not yet sent may become fewer.
<1>1. ASSUME Uploads', Unsent' \subseteq Unsent, UNCHANGED <<copies, disk, diskCopies, presaved, saved>>,
             mem'.content = mem.content, mem'.dirty = mem.dirty, mem'.dirtyIndex = mem.dirtyIndex,
             op'.step \notin {"emitted", "presaving"} \/ (op' = op /\ mem' = mem)
      PROVE  WritesInv'
  BY <1>0, <1>1 DEF WritesInv, Uploads, OnDisk, In
<1>2. UNCHANGED <<server, diskCopies, owed, uploaded>> => Uploads' /\ Unsent' = Unsent
  BY <1>b DEF Uploads, Unsent
<1>3. CASE UNCHANGED vars
  BY <1>1, <1>2, <1>3 DEF vars, clientVars, durableVars, serverVars, history
<1>4. CASE Prepare
  <2>1. /\ op.step = "idle" /\ op'.step = "presaving" /\ op'.item = mem
        /\ UNCHANGED <<mem, disk, copies, diskCopies, presaved, saved, server, owed, uploaded>>
    BY <1>0, <1>4, PrepareStep DEF clientVars, durableVars, serverVars, history
  <2>2. Uploads' /\ Unsent' = Unsent
    BY <1>2, <2>1
  <2>. QED BY <1>0, <1>a, <2>1, <2>2 DEF WritesInv, Uploads, OnDisk, In
<1>5. CASE Presave
  <2>1. /\ op.step = "presaving" /\ op'.step = "ready" /\ presaved' = op.frozen
        /\ UNCHANGED <<mem, copies, diskCopies, server, owed, uploaded>>
        /\ saved' = IF op.want THEN saved \cup (op.item.content \cap Edit) ELSE saved
        /\ NeedsSaving => disk'.content = op.item.content
        /\ ~NeedsSaving => disk' = disk
    BY <1>0, <1>5, PresaveStep DEF Moves, Becomes, serverVars
  <2>2. Uploads' /\ Unsent' = Unsent
    BY <1>2, <2>1
  <2>3. /\ op.want => op.item.dirty
        /\ ~op.want => ~op.item.dirty \/ op.item.kind # "live"
        /\ Since(op.item, op.frozen)
    BY <1>0, <2>1 DEF DiskInv
  <2>4. ASSUME op.want, NEW e \in op.item.content \cap Unsent PROVE In(e, disk, diskCopies)'
    <3>1. CASE NeedsSaving
      BY <2>1, <2>4, <3>1 DEF In
    <3>2. CASE ~NeedsSaving
      <4>1. OnDisk(op.item) /\ op.item.dirty /\ op.item.dirtyIndex # 0 /\ op.item.dirtyIndex <= presaved
        BY <1>0, <1>c, <2>1, <2>3, <2>4, <3>2 DEF WritesInv, NeedsSaving
      <4>2. In(e, disk, diskCopies)
        BY <2>4, <4>1 DEF OnDisk
      <4>. QED BY <2>1, <3>2, <4>2 DEF In
    <3>. QED BY <3>1, <3>2
  <2>5. ASSUME NEW e \in Unsent' \cap saved' PROVE In(e, disk, diskCopies)'
    <3>1. CASE e \in saved
      <4>1. In(e, op.item, diskCopies) /\ In(e, disk, diskCopies)
        BY <1>0, <2>1, <2>2, <2>5, <3>1 DEF WritesInv
      <4>. QED BY <2>1, <4>1 DEF In
    <3>2. CASE e \notin saved
      BY <2>1, <2>2, <2>4, <2>5, <3>2
    <3>. QED BY <3>1, <3>2
  <2>6. OnDisk(mem)'
    <3> SUFFICES ASSUME mem.dirty, mem.dirtyIndex <= op.frozen, NEW e \in mem.content \cap Unsent PROVE In(e, disk, diskCopies)'
      BY <2>1, <2>2 DEF OnDisk
    <3>1. mem = op.item
      BY <1>c, <2>3 DEF Since
    <3>2. op.want
      BY <1>c, <2>3, <3>1
    <3>. QED BY <2>4, <3>1, <3>2
  <2>7. \A e \in Unsent' : In(e, mem, copies)'
    BY <1>0, <2>1, <2>2 DEF WritesInv, In
  <2>. QED BY <2>1, <2>2, <2>5, <2>6, <2>7 DEF WritesInv, Uploads
<1>6. ASSUME NEW recorded \in BOOLEAN, Send(recorded) PROVE WritesInv'
  <2>1. /\ op'.step = "sent" /\ UNCHANGED <<copies, presaved, disk, diskCopies, saved, server, owed, uploaded>>
        /\ mem'.content = mem.content /\ mem'.dirty = mem.dirty /\ mem'.dirtyIndex = mem.dirtyIndex
    BY <1>0, <1>6, SendStep DEF Becomes, durableVars, serverVars, history
  <2>. QED BY <1>1, <1>2, <2>1
<1>7. CASE Recover \/ AcceptPush
  <2>1. op'.step \notin {"emitted", "presaving"} /\ UNCHANGED <<mem, copies, presaved, disk, diskCopies, saved, server, owed, uploaded>>
    BY <1>0, <1>7, RecoverStep, AcceptPushStep DEF clientVars, durableVars, serverVars, history
  <2>. QED BY <1>1, <1>2, <2>1
<1>8. CASE Snapshot
  <2>1. op'.step = "answered" /\ UNCHANGED <<mem, copies, presaved, disk, diskCopies, saved, server, owed, uploaded>>
    BY <1>0, <1>8, SnapshotStep DEF clientVars, durableVars, serverVars, history
  <2>. QED BY <1>1, <1>2, <2>1
<1>9. CASE Emission
  <2>1. PICK r : Emitted(r)
    BY <1>0, <1>9, EmissionStep
  <2>2. /\ mem' = r.payload /\ copies' = copies \cup r.dups /\ op'.before = mem /\ op'.after = r.payload
        /\ op.step \in {"answered", "pushed"} /\ op'.step = "emitted"
        /\ UNCHANGED <<disk, diskCopies, presaved, saved, server, owed, uploaded>>
    BY <2>1 DEF Emitted, EmitsAs, durableVars, serverVars, history
  <2>3. Uploads' /\ Unsent' = Unsent /\ copies = diskCopies
    BY <1>2, <1>a, <2>2
  <2>4. mem.content \cap Unsent \subseteq r.payload.content \cup UNION r.dups
    <3>1. CASE Untouched(r)
      BY <3>1 DEF Untouched
    <3>2. ASSUME NEW row \in {op.answer.got, op.answer.conflict}, row.kind # "none", TookRow(r, row) PROVE <2>4
      <4>1. CASE r.dups = {mem.content}
        BY <4>1
      <4>2. CASE r.dups = {} /\ (mem.kind # "live" \/ ~mem.dirty)
        BY <1>0, <1>c, <4>2 DEF SoundInv, Sound, Unsent
      <4>3. CASE row.kind = "live" /\ row.content = mem.content
        BY <3>2, <4>3 DEF TookRow, Becomes
      <4>. QED BY <3>2, <4>1, <4>2, <4>3 DEF TookRow
    <3>3. ASSUME NEW row, KeptMine(r, row) PROVE <2>4
      BY <3>3 DEF KeptMine, Becomes
    <3>4. CASE SavedMine(r)
      BY <1>c, <3>4 DEF SavedMine, Becomes
    <3>. QED BY <2>1, <3>1, <3>2, <3>3, <3>4 DEF Emitted, Outcome
  <2>5. \A e \in Unsent : In(e, mem, copies)
    BY <1>0 DEF WritesInv
  <2>6. \A e \in Unsent' : In(e, mem, copies)' /\ In(e, op.after, copies)' /\ In(e, op.before, diskCopies)'
    BY <2>2, <2>3, <2>4, <2>5 DEF In
  <2>7. r.payload.dirtyIndex \in {0, counter + 1} \/ Untouched(r)
    BY <2>1, Blanks DEF Emitted, Outcome, TookRow, KeptMine, SavedMine, Becomes
  <2>8. OnDisk(mem)'
    <3>1. CASE Untouched(r)
      BY <1>0, <2>2, <2>3, <3>1 DEF Untouched, WritesInv, OnDisk, In
    <3>2. CASE r.payload.dirtyIndex \in {0, counter + 1}
      BY <1>c, <2>2, <3>2 DEF OnDisk
    <3>. QED BY <2>7, <3>1, <3>2
  <2>9. OnDisk(op.before)'
    BY <1>0, <2>2, <2>3 DEF WritesInv, OnDisk, In
  <2>10. \A e \in Unsent' \cap saved' : In(e, disk, diskCopies)'
    BY <1>0, <2>2, <2>3 DEF WritesInv, In
  <2>. QED BY <2>2, <2>3, <2>6, <2>8, <2>9, <2>10 DEF WritesInv, Uploads
<1>10. CASE Persist
  <2>1. /\ op.step = "emitted" /\ op'.step = "stored" /\ UNCHANGED <<mem, copies, presaved, saved, server, owed, uploaded>>
        /\ op.saving => disk'.content = op.after.content /\ diskCopies' = diskCopies \cup op.made
        /\ ~op.saving => UNCHANGED <<disk, diskCopies>>
    BY <1>0, <1>10, PersistStep DEF Becomes, clientVars, serverVars, history
  <2>2. CASE ~op.saving
    BY <1>1, <1>2, <2>1, <2>2
  <2>3. CASE op.saving
    <3>1. diskCopies' = copies /\ Since(op.after, presaved)
      BY <1>0, <2>1, <2>3 DEF DiskInv, CopiesOK
    <3>2. Uploads' /\ Unsent' = Unsent
      BY <1>b, <2>1, <2>3 DEF Uploads, Unsent
    <3>3. \A e \in Unsent' \cap saved' : In(e, disk, diskCopies)'
      BY <1>0, <2>1, <2>3, <3>1, <3>2 DEF WritesInv, In
    <3>4. OnDisk(mem)'
      BY <1>c, <2>1, <2>3, <3>1 DEF Since, OnDisk, In
    <3>5. \A e \in Unsent' : In(e, mem, copies)'
      BY <1>0, <2>1, <3>2 DEF WritesInv, In
    <3>. QED BY <2>1, <3>2, <3>3, <3>4, <3>5 DEF WritesInv, Uploads
  <2>. QED BY <2>2, <2>3
<1>11. CASE NoteToken
  <2>1. op'.step = "noted" /\ UNCHANGED <<mem, copies, presaved, disk, diskCopies, saved, server, owed, uploaded>>
    BY <1>0, <1>11, NoteTokenStep DEF Moves, clientVars, serverVars, history
  <2>. QED BY <1>1, <1>2, <2>1

<1>12. CASE Finish
  <2>1. /\ op.step = "noted" /\ op' = Idle /\ UNCHANGED <<copies, diskCopies, presaved, saved, server, owed, uploaded>>
        /\ mem' = (IF op.doomed THEN Gone ELSE mem) /\ disk' = (IF op.doomed THEN Gone ELSE disk)
    BY <1>12, Zenon DEF Finish, serverVars, history
  <2>2. CASE ~op.doomed
    BY <1>1, <1>2, <2>1, <2>2, IdleBlank
  <2>3. CASE op.doomed
    <3>1. mem.content = {} /\ mem'.content = {} /\ ~mem'.dirty
      BY <1>0, <1>c, <2>1, <2>3, Blanks DEF DoomInv
    <3>2. Uploads' /\ Unsent' = Unsent
      BY <1>2, <2>1
    <3>3. \A e \in Unsent : e \in UNION copies
      BY <1>0, <3>1 DEF WritesInv, In
    <3>. QED BY <1>a, <2>1, <3>1, <3>2, <3>3, IdleBlank DEF WritesInv, Uploads, OnDisk, In
  <2>. QED BY <2>2, <2>3
<1>13. CASE PersistFails
  <2>1. /\ op.step = "emitted" /\ op' = Idle /\ copies' = copies \ op.made /\ mem = op.after /\ mem' = op.before
        /\ UNCHANGED <<disk, diskCopies, presaved, saved, server, owed, uploaded>>
    BY <1>13 DEF PersistFails, Ended, MayFailToPersist, IsStillApplied, Orderly, durableVars, serverVars, history
  <2>2. copies' = diskCopies
    BY <1>0, <2>1 DEF DiskInv, CopiesOK
  <2>3. Uploads' /\ Unsent' = Unsent
    BY <1>2, <2>1
  <2>. QED BY <1>0, <2>1, <2>2, <2>3, IdleBlank DEF WritesInv, Uploads, OnDisk, In
<1>14. CASE PresaveFails \/ NoteTokenFails \/ FinishUnacknowledged \/ NeverApplied \/ RequestFails
  BY <1>1, <1>2, <1>14, IdleBlank
     DEF PresaveFails, NoteTokenFails, FinishUnacknowledged, NeverApplied, RequestFails, Ended, clientVars, durableVars, serverVars, history
<1>15. CASE Reload
  <2>1. /\ op' = Idle /\ mem' = disk /\ copies' = diskCopies /\ UNCHANGED <<disk, diskCopies, saved, server, uploaded>>
        /\ owed' = owed \cap (saved \cup uploaded) /\ disk.dirtyIndex = 0
    BY <1>0, <1>15 DEF Reload, SoundInv, durableVars
  <2>2. Uploads' /\ Unsent' \subseteq Unsent \cap saved
    BY <1>b, <2>1 DEF Uploads, Unsent
  <2>. QED BY <1>0, <2>1, <2>2, IdleBlank DEF WritesInv, Uploads, OnDisk, In
<1>16. ASSUME NEW echo \in BOOLEAN, Execute(echo) PROVE WritesInv'
  <2>1. /\ Answered /\ UNCHANGED <<mem, copies, disk, diskCopies, presaved, op, owed, saved>>
        /\ (Takes(req.upload) /\ Accepts(req.upload)) \/ UNCHANGED <<server, uploaded>>
    BY <1>0, <1>16, ExecuteStep DEF clientVars, durableVars
  <2>2. Uploads'
    BY <1>0, <1>b, <1>2, <2>1, TakesUploads DEF VersionInv, Answered
  <2>3. Unsent' \subseteq Unsent
    BY <2>1 DEF Unsent, Takes
  <2>. QED BY <1>1, <2>1, <2>2, <2>3
<1>17. CASE ExecuteRefusing
  <2>1. UNCHANGED <<mem, copies, disk, diskCopies, presaved, op, owed, saved, server, uploaded>>
    BY <1>0, <1>17, RefuseStep DEF clientVars, durableVars, serverVars, history
  <2>. QED BY <1>1, <1>2, <2>1
<1>18. ASSUME NEW u \in late, ExecuteLate(u) PROVE WritesInv'
  <2>1. /\ UNCHANGED <<mem, copies, disk, diskCopies, presaved, op, owed, saved>>
        /\ Takes(u) \/ UNCHANGED <<server, uploaded>>
    BY <1>0, <1>18, LateStep DEF clientVars, durableVars
  <2>2. Uploads'
    BY <1>0, <1>b, <1>2, <2>1, TakesUploads DEF VersionInv
  <2>3. Unsent' \subseteq Unsent
    BY <2>1 DEF Unsent, Takes
  <2>. QED BY <1>1, <2>1, <2>2, <2>3
<1>19. CASE Peers
  <2>1. PICK p \in PeerWrite : PeerSaves(p) \/ PeerDeletes(p)
    BY <1>19 DEF Peers
  <2>2. /\ UNCHANGED <<mem, copies, disk, diskCopies, presaved, op, saved>>
        /\ \/ server'.content = server.content \cup {p} /\ uploaded' = uploaded \cup {p} /\ owed' = owed \cup {p}
           \/ uploaded' = uploaded /\ owed' = owed \ server.content
    BY <1>0, <2>1, PeerSavesStep, PeerDeletesStep DEF clientVars, durableVars
  <2>3. Uploads' /\ Unsent' \subseteq Unsent
    BY <1>b, <2>2 DEF Uploads, Unsent
  <2>. QED BY <1>1, <2>2, <2>3
<1>20. ASSUME NEW e \in Edit, EditItem(e) \/ DeleteItem(e) PROVE WritesInv'
  <2>1. /\ UNCHANGED <<copies, presaved, disk, diskCopies, op, server, saved, uploaded>> /\ e \notin done
        /\ mem'.dirtyIndex = counter + 1
        /\ \/ owed' = owed \cup {e} /\ mem'.content = mem.content \cup {e}
           \/ owed' = owed \ mem.content /\ mem'.content = {}
    BY <1>0, <1>20, EditStep, DeleteStep DEF Becomes, durableVars, serverVars
  <2>2. e \notin saved /\ e \notin uploaded /\ e \notin op.before.content /\ e \notin op.item.content
    BY <1>0, <2>1 DEF Types, Made, RoundMade
  <2>3. Uploads' /\ Unsent' \subseteq Unsent \cup {e}
    BY <1>b, <2>1, <2>2 DEF Uploads, Unsent
  <2>4. \A f \in Unsent' : In(f, mem, copies)'
    BY <1>0, <2>1, <2>2 DEF WritesInv, In, Unsent
  <2>5. mem' # op'.after
    BY <1>0, <1>c, <2>1, TypedPayloads DEF SoundInv, Sound, Payloads
  <2>6. OnDisk(mem)'
    BY <1>c, <2>1 DEF OnDisk
  <2>7. (op'.step = "emitted" => OnDisk(op.before)') /\ (op'.step = "presaving" => OnDisk(op.item)')
    BY <1>0, <2>1, <2>2, <2>3 DEF WritesInv, OnDisk, In
  <2>8. /\ \A f \in Unsent' \cap saved' : In(f, disk, diskCopies)'
        /\ op'.step = "presaving" => \A f \in Unsent' \cap saved' : In(f, op.item, diskCopies)'
        /\ op'.step = "emitted" => \A f \in Unsent' \cap saved' : In(f, op.after, copies)'
    BY <1>0, <2>1, <2>2, <2>3 DEF WritesInv, In
  <2>. QED BY <2>3, <2>4, <2>5, <2>6, <2>7, <2>8 DEF WritesInv, Uploads
<1>. QED BY <1>3, <1>4, <1>5, <1>6, <1>7, <1>8, <1>9, <1>10, <1>11, <1>12, <1>13, <1>14, <1>15, <1>16, <1>17, <1>18, <1>19, <1>20
         DEF Next, Sync, Faults, Serve, User

-----------------------------------------------------------------------------
(* The token                                                               *)

\* What an emission leaves in memory is no older than the token, or than the answer: the answer is newer than the
\* request's token, and the request's token is the token unless its answer is to be applied once more.
LEMMA EmissionNewer ==
    ASSUME Types, Types', Phases, AnswerOK, RowsInv, TokenInv, NEW r, Emitted(r), mem'.kind # "none"
    PROVE  /\ mem'.ts >= op.answer.token
           /\ ~Pending => mem'.ts >= token
           /\ Pending /\ Empty(req.answer) => mem'.ts >= req.answer.token
<1>0. /\ token \in Nat /\ req.token \in Nat /\ mem.ts \in Nat /\ mem'.ts \in Nat
      /\ op.answer.token \in Nat /\ req.answer.token \in Nat /\ op.answer.saved \in Nat /\ req.answer.saved \in Nat
      /\ op.answer.got.ts \in Nat /\ op.answer.conflict.ts \in Nat
  BY DEF Types, Payloads, Rounds, Requests, Answers, Rows
<1>1. mem' = r.payload /\ op.step \in {"answered", "pushed"} /\ Outcome(r)
  BY DEF Emitted, EmitsAs
<1> DEFINE From == \/ /\ mem'.kind = mem.kind /\ mem'.ts = mem.ts /\ op.answer.saved = 0 /\ op.answer.conflict.kind = "none"
                      /\ op.answer.got.kind = "none" \/ op.answer.got.ts <= mem.ts
                   \/ op.answer.saved = 0 /\ op.answer.got.kind # "none" /\ mem'.ts = op.answer.got.ts
                   \/ op.answer.saved = 0 /\ op.answer.conflict.kind # "none" /\ mem'.ts = op.answer.conflict.ts
                   \/ op.answer.saved # 0 /\ mem'.ts = op.answer.saved
<1>2. From
  <2>1. CASE Untouched(r) /\ op.answer.saved = 0 /\ op.answer.conflict.kind = "none"
             /\ (op.answer.got.kind = "none" \/ (mem.kind = "none" /\ op.saving) \/ op.answer.got.ts <= mem.ts)
    BY <1>1, <2>1 DEF Untouched
  <2>2. ASSUME op.answer.saved = 0, NEW row \in {op.answer.got, op.answer.conflict}, row.kind # "none",
               TookRow(r, row) \/ KeptMine(r, row)
        PROVE  From
    <3>1. mem'.ts = row.ts
      BY <1>1, <2>2, Blanks DEF TookRow, KeptMine, Becomes
    <3>. QED BY <2>2, <3>1
  <2>3. CASE op.answer.saved # 0 /\ SavedMine(r)
    BY <1>1, <2>3, Blanks DEF SavedMine, Becomes
  <2>. QED BY <1>1, <2>1, <2>2, <2>3 DEF Outcome
<1>3. CASE op.step = "answered"
  <2>1. op.answer = req.answer /\ req.answered /\ req.sent
    BY <1>3, Unsent0 DEF Phases
  <2>2. ~Pending => req.token = token
    BY <1>3, <2>1 DEF TokenInv, Pending
  <2>3. mem.kind # "none" => /\ ~Pending => mem.ts >= token
                             /\ Pending /\ Empty(req.answer) => mem.ts >= req.answer.token
    BY DEF TokenInv, Floor
  <2>4. /\ req.answer.conflict.kind # "none" => req.answer.conflict.ts = req.answer.token /\ req.answer.token >= req.token
                                                /\ req.answer.got.kind = "none"
        /\ req.answer.got.kind # "none" => /\ req.answer.got.ts > req.token
                                           /\ req.answer.saved = 0 => req.answer.got.ts = req.answer.token
        /\ req.answer.saved # 0 => req.answer.saved >= req.answer.token /\ req.answer.saved > req.token
        /\ Empty(req.answer) => req.answer.token <= req.token
    BY Blanks DEF AnswerOK
  <2>5. Empty(req.answer) <=> req.answer.saved = 0 /\ req.answer.conflict.kind = "none" /\ req.answer.got.kind = "none"
    BY DEF Empty
  <2>. HIDE DEF From
  <2>6. From
    BY <1>2
  <2>. QED BY <1>0, <2>1, <2>2, <2>3, <2>4, <2>5, <2>6 DEF From
<1>4. CASE op.step = "pushed"
  <2>1. /\ op.pushed /\ op.answer.saved = 0 /\ op.answer.conflict.kind = "none" /\ op.answer.got.kind # "none"
        /\ op.answer.token = op.answer.got.ts
    BY <1>4, Blanks DEF Phases
  <2>2. /\ ~Pending => op.answer.token >= token
        /\ Pending /\ Empty(req.answer) => op.answer.token >= req.answer.token
    BY <2>1 DEF TokenInv
  <2>. QED BY <1>0, <1>2, <2>1, <2>2
<1>. QED BY <1>1, <1>3, <1>4

LEMMA NextToken == SyncInv /\ Orderly /\ [Next]_vars => TokenInv'
<1> SUFFICES ASSUME SyncInv, Orderly, [Next]_vars PROVE TokenInv'
  OBVIOUS
<1>0. TypeInv /\ Types /\ Types' /\ Made /\ Phases /\ Phases' /\ SoundInv /\ AnswerOK /\ AnswerOK' /\ RowsInv /\ DiskInv /\ TokenInv
  BY NextTypeInv, NextPhases, NextAnswer DEF SyncInv, TypeInv
<1>a. /\ token \in Nat /\ token' \in Nat /\ server.ts \in Nat /\ server'.ts \in Nat
      /\ req.token \in Nat /\ req.answer.token \in Nat /\ req'.answer.token \in Nat /\ op.answer.token \in Nat
      /\ mem.ts \in Nat /\ push.ts \in Nat
  BY <1>0 DEF Types, Payloads, Rounds, Requests, Answers, Rows
\* What the round and the request are does not change; the server's row may.
<1>1. ASSUME UNCHANGED <<token, req>>, op' = op, mem'.kind = mem.kind, mem'.ts = mem.ts, server'.ts = server.ts \/ server'.ts = server.ts + 1
      PROVE  TokenInv'
  BY <1>0, <1>a, <1>1 DEF TokenInv, Floor, Pending, Applying, Empty
\* The round is at another step, at which it applies nothing.
<1>2. ASSUME UNCHANGED <<token, req, server>>, ~op'.pushed, ~(op'.step \in {"emitted", "stored", "noted"}),
             op.step = "noted" => (req.sent => req.recorded), mem'.kind = mem.kind, mem'.ts = mem.ts
      PROVE  TokenInv'
  BY <1>0, <1>a, <1>2 DEF TokenInv, Floor, Pending, Applying, Empty
\* The round is over.
<1>3. ASSUME UNCHANGED <<token, server>>, op' = Idle, req' \in {req, NoRequest}, req' = req => ~req.sent \/ req.recorded,
             mem'.kind # "none" => /\ ~Pending => mem'.ts >= token
                                   /\ Pending /\ Empty(req.answer) => mem'.ts >= req.answer.token
                                   /\ req' = NoRequest => mem'.ts >= token
      PROVE  TokenInv'
  <2>1. CASE req' = NoRequest
    BY <1>0, <1>3, <2>1, Unsent0, IdleBlank DEF TokenInv, Floor, Pending, Applying
  <2>2. CASE req' = req
    BY <1>0, <1>3, <2>2, IdleBlank DEF TokenInv, Floor, Pending, Applying, Empty
  <2>. QED BY <1>3, <2>1, <2>2
\* The request is answered.
<1>4. ASSUME Answered, UNCHANGED <<token, op, mem>>, server'.ts = server.ts \/ server'.ts = server.ts + 1 PROVE TokenInv'
  <2>1. ~Pending /\ req.sent /\ (Pending' <=> req.recorded) /\ req'.token = req.token /\ req'.recorded = req.recorded
        /\ req'.sent
    BY <1>4 DEF Answered, Pending
  <2>2. req.token <= token /\ (op.step # "noted" /\ ~req.recorded => req.token = token)
    BY <1>0, <1>4, <2>1 DEF TokenInv, Answered
  <2>3. Empty(req.answer)' => req'.answer.token <= token
    BY <1>0, <1>a, <2>1, <2>2 DEF AnswerOK
  <2>4. Floor(mem)' /\ (op.step = "emitted" => Floor(op.before)')
    <3>1. Floor(mem) /\ (op.step = "emitted" => Floor(op.before)) /\ op.before.ts \in Nat
      BY <1>0 DEF TokenInv, Types, Rounds, Payloads
    <3>. QED BY <1>a, <1>4, <2>1, <2>3, <3>1 DEF Floor
  <2>5. op'.pushed /\ Pending' /\ Empty(req.answer)' => op'.answer.token >= req'.answer.token
    BY <1>0, <1>a, <1>4, <2>1, <2>3 DEF TokenInv
  <2>6. req'.answered
    BY <1>4 DEF Answered
  <2>. QED BY <1>0, <1>a, <1>4, <2>1, <2>2, <2>3, <2>4, <2>5, <2>6 DEF TokenInv, Applying
<1>5. CASE UNCHANGED vars
  BY <1>1, <1>5 DEF vars, clientVars, durableVars, serverVars
<1>6. CASE Prepare
  BY <1>0, <1>2, <1>6, PrepareStep DEF clientVars, durableVars, serverVars
<1>7. CASE Presave
  <2>1. op.step = "presaving" /\ op'.step = "ready" /\ op'.pushed = op.pushed /\ UNCHANGED <<mem, token, req, server>>
    BY <1>0, <1>7, PresaveStep DEF Moves, serverVars
  <2>. QED BY <1>0, <1>2, <2>1 DEF Phases, Applying
<1>8. ASSUME NEW recorded \in BOOLEAN, Send(recorded) PROVE TokenInv'
  <2>1. /\ op.step = "ready" /\ op'.step = "sent" /\ op'.pushed = op.pushed /\ UNCHANGED <<token, server>>
        /\ mem'.kind = mem.kind /\ mem'.ts = mem.ts /\ req'.token = token /\ ~req'.answered
    BY <1>0, <1>8, SendStep DEF Becomes, durableVars, serverVars
  <2>2. ~op.pushed /\ ~Pending
    BY <1>0, <2>1, Unsent0 DEF Phases, Applying, Pending
  <2>. QED BY <1>0, <1>a, <2>1, <2>2 DEF TokenInv, Floor, Pending, Applying
<1>9. CASE Recover
  BY <1>0, <1>2, <1>9, RecoverStep DEF clientVars, durableVars, serverVars
<1>10. CASE Snapshot
  <2>1. op.step = "sent" /\ op'.step = "answered" /\ op'.pushed = op.pushed /\ UNCHANGED <<mem, token, req, server>>
    BY <1>0, <1>10, SnapshotStep DEF clientVars, durableVars, serverVars
  <2>. QED BY <1>0, <1>2, <2>1 DEF Phases, Applying
<1>11. CASE Emission
  <2>1. PICK r : Emitted(r)
    BY <1>0, <1>11, EmissionStep
  <2>2. /\ op'.step = "emitted" /\ op'.before = mem /\ op'.answer = op.answer /\ op'.pushed = op.pushed
        /\ op.step \in {"answered", "pushed"} /\ UNCHANGED <<token, req, server>>
    BY <2>1 DEF Emitted, EmitsAs, durableVars, serverVars
  <2>3. mem'.kind # "none" => /\ mem'.ts >= op.answer.token
                              /\ ~Pending => mem'.ts >= token
                              /\ Pending /\ Empty(req.answer) => mem'.ts >= req.answer.token
    BY <1>0, <2>1, EmissionNewer
  <2>. QED BY <1>0, <2>2, <2>3 DEF TokenInv, Floor, Pending, Applying, Empty
<1>12. CASE Persist
  <2>1. op.step = "emitted" /\ op'.step = "stored" /\ op'.answer = op.answer /\ op'.pushed = op.pushed /\ UNCHANGED <<mem, token, req, server>>
    BY <1>0, <1>12, PersistStep DEF clientVars, serverVars
  <2>. QED BY <1>0, <2>1 DEF TokenInv, Floor, Pending, Applying, Empty
<1>13. CASE NoteToken
  <2>1. /\ op.step = "stored" /\ op'.step = "noted" /\ op'.answer = op.answer /\ op'.pushed = op.pushed
        /\ token' = op.answer.token /\ UNCHANGED <<mem, req, server>>
    BY <1>0, <1>13, NoteTokenStep DEF Moves, clientVars, serverVars
  <2>2. ~op.pushed => req.answered /\ op.answer = req.answer
    BY <1>0, <2>1 DEF Phases, Applying
  <2>3. op.pushed => op.answer.token = op.answer.got.ts /\ op.answer.got.kind # "none" /\ (req.sent => req.recorded)
    BY <1>0, <2>1 DEF Phases, Applying
  <2>4. op.answer.token <= server.ts
    BY <1>0, <2>2, <2>3 DEF AnswerOK, RowsInv, RowOK
  <2>5. req.sent /\ ~req.answered => req.token <= op.answer.token
    BY <1>0, <1>a, <2>2 DEF TokenInv, Pending
  <2>6. mem.kind # "none" => mem.ts >= op.answer.token
    BY <1>0, <2>1 DEF TokenInv, Applying
  <2>. QED BY <1>0, <1>a, <2>1, <2>2, <2>3, <2>4, <2>5, <2>6 DEF TokenInv, Floor, Pending, Applying, Empty
<1>14. CASE Finish
  <2>1. /\ op.step = "noted" /\ op' = Idle /\ UNCHANGED <<token, server>> /\ mem' = (IF op.doomed THEN Gone ELSE mem)
        /\ req' = (IF op.pushed THEN req ELSE NoRequest)
    BY <1>14, Zenon DEF Finish, serverVars
  <2>2. /\ token = op.answer.token /\ (op.pushed => (req.sent => req.recorded))
        /\ mem.kind # "none" => mem.ts >= op.answer.token
        /\ Floor(mem)
    BY <1>0, <2>1 DEF Phases, TokenInv, Applying
  <2>. QED BY <1>3, <2>1, <2>2, Blanks, Unsent0 DEF Floor
<1>15. CASE PersistFails \/ NoteTokenFails \/ RequestFails
  <2>1. Ended /\ UNCHANGED <<token, server>> /\ (mem' = mem \/ (op.step = "emitted" /\ mem' = op.before))
    BY <1>15 DEF PersistFails, NoteTokenFails, RequestFails, clientVars, durableVars, serverVars
  <2>2. Floor(mem)  /\ (op.step = "emitted" => Floor(op.before))
    BY <1>0 DEF TokenInv
  <2>3. op.pushed => (req.sent => req.recorded)
    BY <1>0 DEF Phases
  <2>. QED BY <1>3, <2>1, <2>2, <2>3, Unsent0 DEF Ended, Floor, Pending
<1>16. CASE PresaveFails \/ NeverApplied \/ FinishUnacknowledged
  <2>1. /\ op' = Idle /\ UNCHANGED <<token, server, mem>>
        /\ (req' = req /\ (~req.sent \/ req.recorded)) \/ (req' = NoRequest /\ ~Pending)
    BY <1>0, <1>16 DEF PresaveFails, NeverApplied, FinishUnacknowledged, clientVars, durableVars, serverVars, Phases, Pending
  <2>2. Floor(mem)
    BY <1>0 DEF TokenInv
  <2>3. Pending => req # NoRequest
    BY Unsent0 DEF Pending
  <2>. QED BY <1>3, <2>1, <2>2, <2>3, Unsent0 DEF Floor
<1>17. CASE Reload
  <2>1. /\ op' = Idle /\ UNCHANGED <<token, server>> /\ mem' = disk /\ req' = IF req.recorded THEN req ELSE NoRequest
    BY <1>17 DEF Reload, durableVars
  <2>2. disk.kind # "none" => \/ mem.kind # "none" /\ disk.ts = mem.ts
                              \/ op.step = "emitted" /\ op.before.kind # "none" /\ disk.ts = op.before.ts
    BY <1>0 DEF DiskInv, Paired
  <2>3. Floor(mem) /\ (op.step = "emitted" => Floor(op.before))
    BY <1>0 DEF TokenInv
  <2>4. req' = NoRequest => ~Pending
    BY <2>1, Unsent0 DEF Pending
  <2>. QED BY <1>3, <2>1, <2>2, <2>3, <2>4, Unsent0 DEF Floor
<1>18. CASE AcceptPush
  <2>1. /\ op.step = "idle" /\ token = push.ts - 1 /\ op'.step = "pushed" /\ op'.answer.token = push.ts
        /\ UNCHANGED <<mem, token, req, server>>
    BY <1>0, <1>18, AcceptPushStep DEF clientVars, durableVars
  <2>. QED BY <1>0, <1>a, <2>1 DEF TokenInv, Floor, Pending, Applying, Empty
<1>19. ASSUME NEW echo \in BOOLEAN, Execute(echo) PROVE TokenInv'
  BY <1>0, <1>4, <1>19, ExecuteStep DEF clientVars, durableVars, Takes
<1>20. CASE ExecuteRefusing
  BY <1>0, <1>4, <1>20, RefuseStep DEF clientVars, durableVars, serverVars
<1>21. ASSUME NEW u \in late, ExecuteLate(u) PROVE TokenInv'
  BY <1>0, <1>1, <1>21, LateStep DEF clientVars, durableVars, Takes
<1>22. CASE Peers
  BY <1>0, <1>1, <1>22, PeerSavesStep, PeerDeletesStep DEF Peers, clientVars, durableVars
<1>23. ASSUME NEW e \in Edit, EditItem(e) \/ DeleteItem(e) PROVE TokenInv'
  <2>1. mem.kind = "live" /\ mem'.kind # "none" /\ mem'.ts = mem.ts /\ UNCHANGED <<token, op, req, server>>
    BY <1>0, <1>23, EditStep, DeleteStep DEF Becomes, durableVars, serverVars
  <2>. QED BY <1>0, <2>1 DEF TokenInv, Floor, Pending, Applying, Empty
<1>. QED BY <1>5, <1>6, <1>7, <1>8, <1>9, <1>10, <1>11, <1>12, <1>13, <1>14, <1>15, <1>16, <1>17, <1>18, <1>19, <1>20, <1>21, <1>22, <1>23
         DEF Next, Sync, Faults, Serve, User

-----------------------------------------------------------------------------
(* The invariant                                                           *)

LEMMA InitSyncInv == Init => SyncInv
<1> SUFFICES ASSUME Init PROVE SyncInv
  OBVIOUS
<1>1. /\ TypeInv /\ copies = {} /\ diskCopies = {} /\ presaved = -1 /\ op = Idle /\ req = NoRequest /\ late = {} /\ push = NoRow
      /\ owed = {} /\ saved = {} /\ uploaded = {}
  BY InitTypeInv DEF Init
<1>2. \/ /\ mem = Payload("live", {}, TRUE, 1, 0, 0) /\ disk = Gone /\ server = NoRow /\ counter = 1 /\ token = 0
      \/ /\ mem = Payload("live", {}, FALSE, 0, 0, 1) /\ disk = mem /\ server = Row("live", {}, 1) /\ counter = 0 /\ token = 1
  BY DEF Init
<1>3. /\ mem.kind = "live" /\ mem.content = {} /\ mem.dirtyIndex <= counter /\ mem.lastSync = 0 /\ mem.ts <= server.ts
      /\ mem.dirty \/ mem.dirtyIndex = 0
      /\ disk.content = {} /\ disk.dirtyIndex = 0 /\ disk.lastSync = 0 /\ disk.kind # "deleted"
      /\ disk.kind # "none" => disk.ts = mem.ts
      /\ disk.ts <= server.ts /\ token <= server.ts /\ mem.ts >= token /\ 0 <= counter /\ 0 <= server.ts
      /\ server.ts \in Nat /\ counter \in Nat
      /\ server.content = {}
      /\ IF server.kind = "none" THEN server = NoRow ELSE 1 <= server.ts
  BY <1>2, Blanks DEF Payload, Row
<1>4. Phases
  BY <1>1, Unsent0, IdleBlank, Blanks DEF Phases, Applying, Uploading
<1>5. SoundInv
  BY <1>1, <1>3, Unsent0, IdleBlank, Blanks DEF SoundInv, Sound
<1>6. RowsInv /\ AnswerOK
  <2>1. RowsInv
    BY <1>1, <1>3, Unsent0, IdleBlank, Blanks DEF RowsInv, RowOK
  <2>2. AnswerOK
    BY <1>1, <1>3, Unsent0, Blanks DEF AnswerOK, Empty, Uploading
  <2>. QED BY <2>1, <2>2
<1>7. SentInv /\ DiskInv
  BY <1>1, <1>3, Unsent0, IdleBlank, Blanks DEF SentInv, Sent, Uploading, DiskInv, CopiesOK, Paired
<1>8. DoomInv
  BY <1>1, <1>3, Unsent0, IdleBlank, Blanks DEF DoomInv, NeverSynced, Applying
<1>9. VersionInv
  BY <1>1, <1>3, Unsent0, IdleBlank, Blanks DEF VersionInv, Covers, CoversUpload, Holds, HoldsUpload, Uploading
<1>10. WritesInv
  BY <1>1, <1>3, IdleBlank DEF WritesInv, Unsent, OnDisk
<1>11. TokenInv
  BY <1>1, <1>3, Unsent0, IdleBlank DEF TokenInv, Floor, Pending, Applying
<1>. QED BY <1>1, <1>4, <1>5, <1>6, <1>7, <1>8, <1>9, <1>10, <1>11 DEF SyncInv

LEMMA NextSyncInv == Orderly /\ SyncInv /\ [Next]_vars => SyncInv'
  BY NextTypeInv, NextPhases, NextSound, NextRows, NextAnswer, NextSent, NextDisk, NextDoom, NextVersion, NextWrites, NextToken
     DEF SyncInv

LEMMA SpecSyncInv == Orderly => (Spec => []SyncInv)
<1> SUFFICES ASSUME Orderly PROVE Spec => []SyncInv
  OBVIOUS
<1>1. SyncInv /\ [Next]_vars => SyncInv'
  BY NextSyncInv
<1>. QED BY <1>1, InitSyncInv, PTL DEF Spec

-----------------------------------------------------------------------------
(* What the user and the other devices rely on                              *)

\* No write is lost: whatever the user typed since the last reload, or had saved before it, and whatever other devices
\* wrote, is in the item, in a conflict copy or in the server's row, unless somebody who saw it deleted it. It holds
\* whatever the order of edits, rounds, answers, pushes and mishaps, when none falls into a window.
THEOREM NothingIsLost == Orderly => (Spec => []NothingLost)
<1>1. ASSUME SyncInv PROVE NothingLost
  <2> SUFFICES ASSUME NEW e \in owed PROVE e \in mem.content \cup (UNION copies) \cup server.content
    BY DEF NothingLost
  <2>1. diskCopies \subseteq copies
    BY <1>1 DEF SyncInv, DiskInv, CopiesOK
  <2>2. CASE e \in uploaded
    <3>1. e \in server.content \/ e \in UNION diskCopies
      BY <1>1, <2>2 DEF SyncInv, WritesInv
    <3>. QED BY <2>1, <3>1
  <2>3. CASE e \notin uploaded
    <3>1. In(e, mem, copies)
      BY <1>1, <2>3 DEF SyncInv, WritesInv, Unsent
    <3>. QED BY <3>1 DEF In
  <2>. QED BY <2>2, <2>3
<1>. QED BY <1>1, SpecSyncInv, PTL

\* An item is shown as synced only if all of it has reached the server: finalizing an answer clears the dirty flag only
\* for what was sent, also when the answer is of an earlier page's request.
THEOREM SyncedIsUploaded == Orderly => (Spec => []CleanMeansUploaded)
<1>1. SyncInv => CleanMeansUploaded
  BY DEF SyncInv, SoundInv, Sound, CleanMeansUploaded
<1>. QED BY <1>1, SpecSyncInv, PTL

\* What the pre-sync save acknowledged is on disk until the server has it: the watermark never passes over an item
\* whose content is not there, and what is persisted later incorporates it.
THEOREM AcknowledgedSurvives == Orderly => (Spec => []SavedSurvivesReload)
<1>1. ASSUME SyncInv PROVE SavedSurvivesReload
  <2> SUFFICES ASSUME NEW e \in saved \cap owed PROVE e \in disk.content \cup (UNION diskCopies) \cup server.content
    BY DEF SavedSurvivesReload
  <2>1. CASE e \in uploaded
    BY <1>1, <2>1 DEF SyncInv, WritesInv
  <2>2. CASE e \notin uploaded
    <3>1. In(e, disk, diskCopies)
      BY <1>1, <2>2 DEF SyncInv, WritesInv, Unsent
    <3>. QED BY <3>1 DEF In
  <2>. QED BY <2>1, <2>2
<1>. QED BY <1>1, SpecSyncInv, PTL

\* The persisted token never skips a row that the local database does not hold: it advances after the items are stored,
\* and the answer of a command whose record remains is applied once more, token and all.
THEOREM TokenSkipsNothing == Orderly => (Spec => []TokenHonest)
<1>1. ASSUME SyncInv PROVE TokenHonest
  <2> SUFFICES ASSUME ~Pending, token >= server.ts, server.kind = "live", disk.kind = "live",
                      NEW e \in server.content
               PROVE  e \in disk.content \cup UNION diskCopies
    BY DEF TokenHonest, Pending
  <2>1. Types /\ Floor(mem) /\ (op.step = "emitted" => Floor(op.before))
    BY <1>1 DEF SyncInv, TypeInv, TokenInv
  <2>2. disk.ts <= server.ts /\ Covers(disk, diskCopies)
    BY <1>1 DEF SyncInv, SoundInv, Sound, VersionInv
  <2>3. \/ mem.kind # "none" /\ disk.ts = mem.ts
        \/ op.step = "emitted" /\ op.before.kind # "none" /\ disk.ts = op.before.ts
    BY <1>1 DEF SyncInv, DiskInv, Paired
  <2>4. disk.ts >= token
    BY <2>1, <2>3 DEF Floor
  <2>5. disk.ts = server.ts
    BY <2>1, <2>2, <2>4 DEF Types, Payloads, Rows
  <2>. QED BY <2>2, <2>5 DEF Covers, Holds, In
<1>. QED BY <1>1, SpecSyncInv, PTL

\* What the user wrote is still to be uploaded until it has been: the item that holds it stays dirty, unless it is in a
\* conflict copy.
THEOREM DirtiedSyncsAgain == Orderly => (Spec => []DirtiedLaterSyncsAgain)
<1>1. ASSUME SyncInv PROVE DirtiedLaterSyncsAgain
  <2> SUFFICES ASSUME NEW e \in (Edit \cap owed) \ uploaded, e \notin UNION copies PROVE mem.dirty /\ e \in mem.content
    BY DEF DirtiedLaterSyncsAgain
  <2>1. e \in mem.content
    BY <1>1 DEF SyncInv, WritesInv, Unsent, In
  <2>2. mem \in Payloads
    BY <1>1 DEF SyncInv, TypeInv, Types
  <2>3. mem.kind = "live"
    BY <2>1, <2>2 DEF Payloads
  <2>. QED BY <1>1, <2>1, <2>3 DEF SyncInv, SoundInv, Sound
<1>. QED BY <1>1, SpecSyncInv, PTL

=============================================================================
