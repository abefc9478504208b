-------------------------- MODULE LeaseTrackingProofs --------------------------
(***************************************************************************)
(* Proof that no activated lease is forgotten by a replica that did not    *)
(* die (ActiveLeaseTracked of CollaborationRooms).                         *)
(*                                                                         *)
(* The property is far from inductive: it does not say which of the        *)
(* commands under way will end the lease, nor that the others do no harm.  *)
(* TrackInv says, of each editor, that an active lease Redis counts, or    *)
(* one about to be activated, is held, queued for release or named by a    *)
(* release or a detach under way (Tracking); what the phase of a lease in  *)
(* the replica's hands tells of its key (Told); what each command under    *)
(* way, and its answer, may assume (About), and what may follow it         *)
(* (Before); and of each replica's connection, that it answers in order    *)
(* and that a revocation about to be heard of has ended what the replica   *)
(* then forgets (Revoking).                                                *)
(*                                                                         *)
(* What a change does to one editor is shown for any two views v and w of  *)
(* the state and any pipes s and t of commands; an action of the           *)
(* specification is then such a change for the editors it is about         *)
(* (StepSome, Lifts), and leaves the others alone.                         *)
(***************************************************************************)
EXTENDS CollaborationRoomsProofs, SequenceTheorems

\* What the tracking of leases is about, besides the commands under way.
View == [key |-> key, members |-> members, lease |-> lease, queued |-> queued, parked |-> parked,
         conn |-> conn, busy |-> busy, drawn |-> drawn]

\* What is under way about an editor.
Own(s, e) == {i \in DOMAIN s : s[i].of = e}

\* A lease whose key can no longer be the reservation's as it was granted, or not at all.
Started(v, e, n) == ~(v.key[e].res = n /\ v.key[e].phase = "pending")
Over(v, e, n) == ~(v.key[e].res = n /\ v.key[e].phase \in {"pending", "active"})
Newest(v, e, n) == v.key[e].res \in {0, n}

\* What the phase of a lease in a replica's hands says of its key.
Told(v, e, l) ==
    /\ l.phase = "active" => Started(v, e, l.res)
    /\ l.phase = "detached" => Over(v, e, l.res)

\* A lease Redis counts that is active, or is about to be.
Hot(v, e, s) ==
    /\ e \in v.members
    /\ \/ v.key[e].phase = "active"
       \/ \E i \in Own(s, e) : s[i].op = "activate" /\ s[i].res = v.key[e].res

Tracker(c) == c.for \in {"release", "detach"}

Tracked(v, e, s) ==
    \/ v.key[e].res \in {v.lease[e].res, v.queued[e].res}
    \/ \E i \in Own(s, e) : Tracker(s[i]) /\ s[i].res = v.key[e].res

\* The leases a replica keeps of an editor.
Holding(v, e) ==
    /\ v.drawn \in Nat
    /\ {v.key[e].res, v.lease[e].res, v.queued[e].res, v.parked[e].res} \subseteq 0 .. v.drawn
    /\ v.key[e].phase = "none" <=> v.key[e].res = 0
    /\ Told(v, e, v.lease[e]) /\ Told(v, e, v.queued[e]) /\ Told(v, e, v.parked[e])
    /\ v.lease[e].res # 0 => /\ v.queued[e].res # v.lease[e].res /\ v.parked[e].res = 0
                             /\ Newest(v, e, v.lease[e].res)
    /\ v.parked[e].res # 0 => v.conn[e] # "open" /\ Newest(v, e, v.parked[e].res)

\* One command, and what its answer says.
About(v, c) ==
    /\ c.res \in 1 .. v.drawn
    /\ c.for = "call" => c.of \in v.busy
    /\ Told(v, c.of, c)
    /\ c.op \in {"reserve", "activate"} => c.phase = "pending"
    /\ c.op = "reserve" => /\ v.lease[c.of].res = 0 /\ v.parked[c.of].res = 0
                           /\ v.queued[c.of].res # c.res
                           /\ v.key[c.of].res = c.res => v.key[c.of].phase = "pending"
    /\ c.op \in {"release", "detach"} => v.lease[c.of].res # c.res
    /\ Tracker(c) => c.op # "reserve" /\ v.lease[c.of].res = 0
    /\ c.op = "activate" /\ c.answer = "ok" => Started(v, c.of, c.res)
    /\ c.op \in {"detach", "release"} /\ c.answer = "ok" => Over(v, c.of, c.res)
    /\ c.op = "reserve" /\ c.for = "call" /\ c.answer \in {"elected", "follows"} => Newest(v, c.of, c.res)
    /\ c.for = "detach" => Newest(v, c.of, c.res) /\ v.conn[c.of] # "open"

\* Two commands about an editor, of which c was sent before d.
Before(c, d) ==
    /\ c.for = "call" => d.for # "call"
    /\ d.op = "reserve" => c.for \notin {"call", "detach"}
    /\ "reserve" \in {c.op, d.op} => c.res # d.res
    /\ c.op \in {"release", "detach"} /\ c.res = d.res => d.op # "activate"
    /\ Tracker(d) => c.op # "reserve"

\* Where a release is under way for another reservation than the key's, the key is of no concern.
Cooled(v, e, s) ==
    \A i \in Own(s, e) : s[i].for = "release" /\ Hot(v, e, s) => Newest(v, e, s[i].res)

Sound(v, e, s) ==
    /\ Holding(v, e)
    /\ \A i \in Own(s, e) : About(v, s[i])
    /\ \A i, j \in Own(s, e) : i < j => Before(s[i], s[j])
    /\ Cooled(v, e, s)

Tracking(v, e, s) == v.conn[e] # "crashed" /\ Hot(v, e, s) => Tracked(v, e, s)

EditorInv(v, e, s) == Sound(v, e, s) /\ Tracking(v, e, s)

\* Commands are answered in the order they were sent.
InOrder(s) ==
    \A i, j \in DOMAIN s : i < j /\ s[j].answer \notin {"none", "rejected"} => s[i].answer # "none"

Bereft(v, e, n) == n # 0 /\ e \in v.members => v.key[e].res # n

\* A revocation that a replica is about to hear of has ended whatever it holds or is told before.
Revoking(v, r, s) ==
    \A i \in DOMAIN s : s[i].answer = "revoked" =>
        /\ \A e \in On(r) : Bereft(v, e, v.lease[e].res)
        /\ \A j \in DOMAIN s : j < i /\ s[j].op = "reserve" => Bereft(v, s[j].of, s[j].res)

PipeInv(v, r, s) ==
    /\ \A i \in DOMAIN s : s[i].of \in On(r)
    /\ InOrder(s)
    /\ Revoking(v, r, s)

EditorsInv == \A e \in Editor : EditorInv(View, e, sent[Home[e]])
PipesInv == \A r \in Replica : PipeInv(View, r, sent[r])
TrackInv == EditorsInv /\ PipesInv

-----------------------------------------------------------------------------
(* Changes of a pipe                                                       *)

\* d is what is left of the command c.
Weaker(c, d) ==
    /\ d.of = c.of /\ d.op = c.op /\ d.phase = c.phase /\ d.res = c.res
    /\ d.for \in {c.for, "nobody"} /\ d.answer \in {c.answer, "none"}

Thins(s, t, e) ==
    \E f : \A i \in Own(t, e) : /\ f[i] \in Own(s, e) /\ Weaker(s[f[i]], t[i])
                                /\ \A j \in Own(t, e) : i < j => f[i] < f[j]

KeepsTrackers(s, t, e) ==
    \A i \in Own(s, e) : Tracker(s[i]) =>
        \E j \in Own(t, e) : Tracker(t[j]) /\ t[j].res = s[i].res

LEMMA ThinHot ==
    ASSUME NEW v, NEW e, NEW s, NEW t, Thins(s, t, e), Hot(v, e, t)
    PROVE  Hot(v, e, s)
  BY DEF Hot, Thins, Weaker

LEMMA ThinSound ==
    ASSUME NEW v, NEW e, NEW s, NEW t, Sound(v, e, s), Thins(s, t, e)
    PROVE  Sound(v, e, t)
<1> PICK f : \A i \in Own(t, e) : /\ f[i] \in Own(s, e) /\ Weaker(s[f[i]], t[i])
                                  /\ \A j \in Own(t, e) : i < j => f[i] < f[j]
    BY DEF Thins
<1>1. ASSUME NEW c, NEW d, About(v, c), Weaker(c, d) PROVE About(v, d)
  BY <1>1 DEF About, Weaker, Told, Tracker
<1>2. ASSUME NEW c1, NEW d1, NEW c2, NEW d2, Before(c1, c2), Weaker(c1, d1), Weaker(c2, d2)
      PROVE  Before(d1, d2)
  BY <1>2 DEF Before, Weaker, Tracker
<1>3. \A i \in Own(t, e) : About(v, t[i])
  BY <1>1 DEF Sound
<1>4. ASSUME NEW i \in Own(t, e), NEW j \in Own(t, e), i < j PROVE Before(t[i], t[j])
  <2>1. f[i] \in Own(s, e) /\ f[j] \in Own(s, e) /\ f[i] < f[j]
    BY <1>4
  <2>2. Before(s[f[i]], s[f[j]])
    BY <2>1 DEF Sound
  <2>. QED BY <1>2, <1>4, <2>2
<1>5. ASSUME NEW i \in Own(t, e), t[i].for = "release", Hot(v, e, t) PROVE Newest(v, e, t[i].res)
  <2>1. f[i] \in Own(s, e) /\ s[f[i]].for = "release" /\ s[f[i]].res = t[i].res
    BY <1>5 DEF Weaker
  <2>. QED BY <1>5, <2>1, ThinHot DEF Sound, Cooled
<1>. QED BY <1>3, <1>4, <1>5 DEF Sound, Cooled

LEMMA ThinTracking ==
    ASSUME NEW v, NEW e, NEW s, NEW t, Tracking(v, e, s), Thins(s, t, e), KeepsTrackers(s, t, e)
    PROVE  Tracking(v, e, t)
  BY ThinHot DEF Tracking, Tracked, KeepsTrackers

\* What is known of each command.
LEMMA EachAbout ==
    ASSUME NEW v, NEW e, NEW s, Sound(v, e, s), NEW i \in Own(s, e)
    PROVE  /\ About(v, s[i]) /\ s[i].of = e /\ i \in DOMAIN s
           /\ s[i].res \in 1 .. v.drawn /\ s[i].res \in 0 .. v.drawn /\ s[i].res # 0
<1>1. About(v, s[i]) /\ s[i].of = e /\ i \in DOMAIN s /\ v.drawn \in Nat
  BY DEF Sound, Own, Holding
<1>2. s[i].res \in 1 .. v.drawn
  BY <1>1 DEF About
<1>. QED BY <1>1, <1>2

\* What a replica does with the commands it has sent.
LEMMA TailThins ==
    ASSUME NEW R, NEW s \in Seq(R), s # <<>>, NEW e
    PROVE  /\ Thins(s, Tail(s), e)
           /\ Head(s).of = e /\ ~Tracker(Head(s)) => KeepsTrackers(s, Tail(s), e)
           /\ Head(s).of # e => KeepsTrackers(s, Tail(s), e)
           /\ \A i \in Own(Tail(s), e) : i + 1 \in Own(s, e) /\ 1 < i + 1 /\ Tail(s)[i] = s[i + 1]
           /\ 1 \in DOMAIN s /\ Head(s) = s[1]
<1> DEFINE t == Tail(s)
           f == [i \in DOMAIN t |-> i + 1]
<1>1. /\ Len(s) \in Nat \ {0} /\ DOMAIN s = 1 .. Len(s)
      /\ DOMAIN t = 1 .. (Len(s) - 1) /\ \A i \in DOMAIN t : t[i] = s[i + 1]
      /\ Head(s) = s[1]
  OBVIOUS
<1> HIDE DEF t
<1>2. \A i \in Own(t, e) : /\ f[i] \in Own(s, e) /\ Weaker(s[f[i]], t[i])
                           /\ \A j \in Own(t, e) : i < j => f[i] < f[j]
  BY <1>1 DEF Own, Weaker
<1>3. Thins(s, t, e)
  BY <1>2 DEF Thins
<1>4. ASSUME Head(s).of # e \/ ~Tracker(Head(s)), NEW i \in Own(s, e), Tracker(s[i])
      PROVE  \E j \in Own(t, e) : Tracker(t[j]) /\ t[j].res = s[i].res
  <2>1. i # 1 /\ i - 1 \in DOMAIN t /\ t[i - 1] = s[i]
    BY <1>1, <1>4 DEF Own
  <2>. QED BY <1>4, <2>1 DEF Own
<1>5. \A i \in Own(t, e) : i + 1 \in Own(s, e) /\ 1 < i + 1 /\ t[i] = s[i + 1]
  BY <1>1 DEF Own
<1>6. 1 \in DOMAIN s /\ Head(s) = s[1]
  BY <1>1
<1>. QED BY <1>3, <1>4, <1>5, <1>6 DEF KeepsTrackers, t

\* One is removed, wherever it is.
LEMMA RemoveAtEffect ==
    ASSUME NEW R, NEW s \in Seq(R), NEW k \in DOMAIN s
    PROVE  /\ Len(s) \in Nat /\ DOMAIN s = 1 .. Len(s) /\ k \in 1 .. Len(s)
           /\ DOMAIN RemoveAt(s, k) = 1 .. (Len(s) - 1)
           /\ \A i \in DOMAIN RemoveAt(s, k) : RemoveAt(s, k)[i] = s[IF i < k THEN i ELSE i + 1]
<1> DEFINE t == RemoveAt(s, k)
<1>0. Len(s) \in Nat /\ DOMAIN s = 1 .. Len(s) /\ k \in 1 .. Len(s)
  OBVIOUS
<1> DEFINE a == SubSeq(s, 1, k - 1)
           b == SubSeq(s, k + 1, Len(s))
<1>1. a \in Seq(R) /\ Len(a) = k - 1 /\ \A i \in 1 .. (k - 1) : a[i] = s[i]
  BY <1>0, SubSeqProperties
<1>2. b \in Seq(R) /\ Len(b) = Len(s) - k /\ \A i \in 1 .. (Len(s) - k) : b[i] = s[k + i]
  <2>1. \A i \in (k + 1) .. Len(s) : s[i] \in R
    BY <1>0
  <2>2. k + 1 \in Int /\ Len(s) \in Int
    BY <1>0
  <2>3. /\ b \in Seq(R) /\ Len(b) = IF k + 1 <= Len(s) THEN Len(s) - (k + 1) + 1 ELSE 0
        /\ \A i \in 1 .. (Len(s) - (k + 1) + 1) : b[i] = s[(k + 1) + i - 1]
    BY <2>1, <2>2, SubSeqProperties
  <2>4. Len(b) = Len(s) - k /\ Len(s) - (k + 1) + 1 = Len(s) - k
    BY <1>0, <2>3
  <2> HIDE DEF b
  <2>5. ASSUME NEW i \in 1 .. (Len(s) - k) PROVE b[i] = s[k + i]
    <3>1. i \in Int /\ (k + 1) + i - 1 = k + i /\ i \in 1 .. (Len(s) - (k + 1) + 1)
      BY <1>0, <2>4
    <3>2. b[i] = s[(k + 1) + i - 1]
      BY <2>3, <3>1
    <3>. QED BY <3>1, <3>2
  <2>. QED BY <2>3, <2>4, <2>5
<1>3. t = a \o b
  BY DEF RemoveAt
<1> HIDE DEF a, b, t
<1>4. /\ Len(t) = Len(a) + Len(b) /\ t \in Seq(R)
      /\ \A i \in 1 .. Len(a) + Len(b) : t[i] = IF i <= Len(a) THEN a[i] ELSE b[i - Len(a)]
  BY <1>1, <1>2, <1>3, ConcatProperties
<1>5. Len(t) = Len(s) - 1 /\ DOMAIN t = 1 .. (Len(s) - 1)
  BY <1>0, <1>1, <1>2, <1>4
<1>6. ASSUME NEW i \in 1 .. (Len(s) - 1) PROVE t[i] = s[IF i < k THEN i ELSE i + 1]
  <2>1. t[i] = IF i <= k - 1 THEN a[i] ELSE b[i - (k - 1)]
    BY <1>0, <1>1, <1>2, <1>4
  <2>2. CASE i < k
    BY <1>0, <1>1, <1>6, <2>1, <2>2
  <2>3. CASE ~(i < k)
    <3>1. i - (k - 1) \in 1 .. (Len(s) - k) /\ k + (i - (k - 1)) = i + 1
      BY <1>0, <1>6, <2>3
    <3>. QED BY <1>0, <1>2, <1>6, <2>1, <2>3, <3>1
  <2>. QED BY <2>2, <2>3
<1>. QED BY <1>0, <1>5, <1>6 DEF t

LEMMA RemoveThins ==
    ASSUME NEW R, NEW s \in Seq(R), NEW k \in DOMAIN s, NEW e
    PROVE  /\ Thins(s, RemoveAt(s, k), e)
           /\ s[k].of # e \/ ~Tracker(s[k]) => KeepsTrackers(s, RemoveAt(s, k), e)
           /\ \A i \in Own(s, e) : i # k => \E j \in Own(RemoveAt(s, k), e) : RemoveAt(s, k)[j] = s[i]
           /\ \A i \in Own(RemoveAt(s, k), e) : \E j \in Own(s, e) \ {k} : RemoveAt(s, k)[i] = s[j]
<1> DEFINE t == RemoveAt(s, k)
           f == [i \in DOMAIN t |-> IF i < k THEN i ELSE i + 1]
<1>1. Len(s) \in Nat /\ DOMAIN s = 1 .. Len(s) /\ k \in 1 .. Len(s)
  BY RemoveAtEffect
<1>2. /\ DOMAIN t = 1 .. (Len(s) - 1)
      /\ \A i \in DOMAIN t : t[i] = s[IF i < k THEN i ELSE i + 1]
  BY RemoveAtEffect
<1> HIDE DEF t
<1>3. \A i \in Own(t, e) : /\ f[i] \in Own(s, e) \ {k} /\ t[i] = s[f[i]] /\ Weaker(s[f[i]], t[i])
                           /\ \A j \in Own(t, e) : i < j => f[i] < f[j]
  BY <1>1, <1>2 DEF Own, Weaker
<1>4. Thins(s, t, e)
  BY <1>3 DEF Thins
<1>5. ASSUME NEW i \in Own(s, e), i # k
      PROVE  \E j \in Own(t, e) : t[j] = s[i]
  <2>1. CASE i < k
    BY <1>1, <1>2, <1>5, <2>1 DEF Own
  <2>2. CASE i > k
    <3>1. i - 1 \in DOMAIN t /\ t[i - 1] = s[i]
      BY <1>1, <1>2, <1>5, <2>2 DEF Own
    <3>. QED BY <1>5, <3>1 DEF Own
  <2>. QED BY <1>1, <1>5, <2>1, <2>2 DEF Own
<1>6. s[k].of # e \/ ~Tracker(s[k]) => KeepsTrackers(s, t, e)
  BY <1>5 DEF KeepsTrackers, Own
<1>7. \A i \in Own(t, e) : \E j \in Own(s, e) \ {k} : t[i] = s[j]
  BY <1>3
<1>. QED BY <1>4, <1>5, <1>6, <1>7 DEF t

\* Each is weakened in its place.
LEMMA EachThins ==
    ASSUME NEW s, NEW t, DOMAIN t = DOMAIN s, \A i \in DOMAIN s : i \in Int /\ Weaker(s[i], t[i]), NEW e
    PROVE  /\ Thins(s, t, e)
           /\ (\A i \in Own(s, e) : Tracker(s[i]) => t[i].for = s[i].for) => KeepsTrackers(s, t, e)
<1> DEFINE f == [i \in DOMAIN s |-> i]
<1>1. \A i \in Own(t, e) : /\ f[i] \in Own(s, e) /\ Weaker(s[f[i]], t[i])
                           /\ \A j \in Own(t, e) : i < j => f[i] < f[j]
  BY DEF Own, Weaker
<1>2. Thins(s, t, e)
  BY <1>1 DEF Thins
<1>3. ASSUME \A i \in Own(s, e) : Tracker(s[i]) => t[i].for = s[i].for PROVE KeepsTrackers(s, t, e)
  <2>1. ASSUME NEW i \in Own(s, e), Tracker(s[i])
        PROVE  i \in Own(t, e) /\ Tracker(t[i]) /\ t[i].res = s[i].res
    BY <1>3, <2>1 DEF Own, Weaker, Tracker
  <2>. QED BY <2>1 DEF KeepsTrackers
<1>. QED BY <1>2, <1>3

\* Nothing new about the editor, or one command more.
Passes(s, t, e) == Own(t, e) = Own(s, e) /\ \A i \in Own(s, e) : t[i] = s[i]

Answers == {"none", "rejected"}

Adds(s, t, e, c) ==
    \E n : /\ Own(t, e) = Own(s, e) \cup {n} /\ t[n] = c
           /\ \A i \in Own(s, e) : t[i] = s[i] /\ i < n /\ ~(n < i)
           /\ ~(n < n)

LEMMA PassesInv ==
    ASSUME NEW v, NEW e, NEW s, NEW t, EditorInv(v, e, s), Passes(s, t, e)
    PROVE  EditorInv(v, e, t)
  BY DEF Passes, EditorInv, Sound, Tracking, Cooled, Hot, Tracked

LEMMA AddSound ==
    ASSUME NEW v, NEW e, NEW s, NEW t, NEW c, Sound(v, e, s), Adds(s, t, e, c), c.of = e,
           About(v, c), \A i \in Own(s, e) : Before(s[i], c),
           c.for = "release" /\ Hot(v, e, s) => Newest(v, e, c.res),
           c.op = "activate" => c.for # "release" /\ \A i \in Own(s, e) : s[i].for # "release"
    PROVE  Sound(v, e, t)
<1> PICK n : /\ Own(t, e) = Own(s, e) \cup {n} /\ t[n] = c
             /\ \A i \in Own(s, e) : t[i] = s[i] /\ i < n /\ ~(n < i)
             /\ ~(n < n)
    BY DEF Adds
<1>1. \A i \in Own(t, e) : About(v, t[i])
  BY DEF Sound
<1>2. ASSUME NEW i \in Own(t, e), NEW j \in Own(t, e), i < j PROVE Before(t[i], t[j])
  <2>1. i \in Own(s, e)
    BY <1>2
  <2>2. CASE j = n
    BY <2>1, <2>2
  <2>3. CASE j # n
    BY <1>2, <2>1, <2>3 DEF Sound
  <2>. QED BY <2>2, <2>3
<1>3. CASE c.op # "activate"
  <2>1. Hot(v, e, t) => Hot(v, e, s)
    BY <1>3 DEF Hot
  <2>2. Cooled(v, e, t)
    BY <2>1 DEF Sound, Cooled
  <2>. QED BY <1>1, <1>2, <2>2 DEF Sound
<1>4. CASE c.op = "activate"
  <2>1. Cooled(v, e, t)
    BY <1>4 DEF Cooled
  <2>. QED BY <1>1, <1>2, <2>1 DEF Sound
<1>. QED BY <1>3, <1>4

LEMMA AddTracking ==
    ASSUME NEW v, NEW e, NEW s, NEW t, NEW c, Tracking(v, e, s), Adds(s, t, e, c), c.op # "activate"
    PROVE  Tracking(v, e, t)
<1> PICK n : /\ Own(t, e) = Own(s, e) \cup {n} /\ t[n] = c
             /\ \A i \in Own(s, e) : t[i] = s[i]
    BY DEF Adds
<1>. QED BY DEF Tracking, Hot, Tracked

\* t is s and more.
Grows(s, t, r) ==
    /\ DOMAIN s \subseteq DOMAIN t
    /\ \A i \in DOMAIN s : t[i] = s[i]
    /\ \A i \in DOMAIN t \ DOMAIN s :
          t[i].of \in On(r) /\ t[i].answer \in Answers /\ \A j \in DOMAIN s : ~(i < j)

\* From p to q a replica sends something about some editors.
Sends(p, q, r, S) ==
    /\ \A r2 \in Replica \ {r} : q[r2] = p[r2]
    /\ Grows(p[r], q[r], r)
    /\ \A e : e \notin S => Passes(p[r], q[r], e)

\* What a replica sends, for each editor it is about once and after everything else.
LEMMA Sending ==
    ASSUME NEW linked, NEW p \in Pipes, NEW r \in Replica, NEW S, S \subseteq On(r), NEW op, NEW l, NEW for,
           NEW q, q = SendOn(linked, p, r, S, op, l, for)
    PROVE  /\ Sends(p, q, r, S)
           /\ \A e \in S : \E a \in Answers : Adds(p[r], q[r], e, Command(e, op, l[e], for, a))
<1>0. S \in SUBSET Editor
  BY DEF On
<1> DEFINE a == IF linked THEN "none" ELSE "rejected"
           s == p[r]
           order == SetToSeq(S)
           n == Cardinality(S)
           u == Commands(S, op, l, for, a)
           t == s \o u
<1>1. s \in Seq(Request) /\ Len(s) \in Nat /\ DOMAIN s = 1 .. Len(s)
  BY DEF Pipes
<1>2. n \in Nat /\ ExistsBijection(1 .. n, S)
  BY <1>0, RoomsAssumption, FS_Subset, FS_CardinalityType
<1>3. \E f \in [1 .. n -> S] : IsInjective(f)
  BY <1>2 DEF ExistsBijection, Bijection, Injection
<1>4. order \in [1 .. n -> S] /\ IsInjective(order)
  BY <1>3 DEF SetToSeq
<1>5. order \in Surjection(1 .. n, S)
  <2>1. IsFiniteSet(S)
    BY <1>0, RoomsAssumption, FS_Subset
  <2>2. Cardinality(1 .. n) = n
    BY <1>2, FS_Interval
  <2>3. order \in Injection(1 .. n, S)
    BY <1>4 DEF Injection, IsInjective
  <2>. QED BY <2>1, <2>2, <2>3, FS_Injection DEF n
<1> HIDE DEF n, order
<1>6. u = [i \in 1 .. n |-> Command(order[i], op, l[order[i]], for, a)]
  BY DEF Commands, n, order
<1>7. u \in Seq({Command(x, op, l[x], for, a) : x \in S}) /\ Len(u) = n
  BY <1>2, <1>4, <1>6
<1> HIDE DEF u, a
<1>8. /\ Len(t) = Len(s) + n /\ DOMAIN t = 1 .. (Len(s) + n)
      /\ \A i \in 1 .. Len(s) : t[i] = s[i]
      /\ \A i \in 1 .. n : t[Len(s) + i] = u[i]
  <2> DEFINE R == Request \cup {Command(x, op, l[x], for, a) : x \in S}
  <2>1. s \in Seq(R) /\ u \in Seq(R)
    <3>1. s \in [1 .. Len(s) -> R]
      BY <1>1
    <3>2. u \in [1 .. n -> R]
      BY <1>4, <1>6
    <3>. QED BY <1>1, <1>2, <3>1, <3>2
  <2> HIDE DEF R, s
  <2>2. t \in Seq(R) /\ Len(t) = Len(s) + Len(u)
        /\ \A i \in 1 .. Len(s) + Len(u) : t[i] = IF i <= Len(s) THEN s[i] ELSE u[i - Len(s)]
    BY <2>1, ConcatProperties
  <2>. QED BY <1>1, <1>2, <1>7, <2>2
<1>9. ASSUME NEW i \in DOMAIN t \ DOMAIN s
      PROVE  /\ i - Len(s) \in 1 .. n /\ t[i] = u[i - Len(s)] /\ t[i].of = order[i - Len(s)]
             /\ t[i].of \in S /\ t[i].answer \in Answers
             /\ \A j \in DOMAIN s : ~(i < j)
  <2>0. DOMAIN s = 1 .. Len(s) /\ Len(s) \in Nat /\ n \in Nat /\ DOMAIN t = 1 .. (Len(s) + n)
    BY <1>1, <1>2, <1>8
  <2>1. /\ i - Len(s) \in 1 .. n /\ Len(s) + (i - Len(s)) = i
        /\ \A j \in DOMAIN s : ~(i < j)
    <3>1. i \in Int /\ i > Len(s) /\ i <= Len(s) + n
      BY <1>9, <2>0
    <3>. QED BY <2>0, <3>1
  <2>2. t[i] = u[i - Len(s)]
    BY <1>8, <2>1
  <2>3. t[i] = Command(order[i - Len(s)], op, l[order[i - Len(s)]], for, a)
    BY <1>6, <2>1, <2>2
  <2>. QED BY <1>4, <2>1, <2>2, <2>3 DEF Command, a, Answers
<1>10. DOMAIN s \subseteq DOMAIN t /\ \A i \in DOMAIN s : t[i] = s[i]
  BY <1>1, <1>2, <1>8
<1>11. ASSUME NEW e, e \notin S PROVE Passes(s, t, e)
  BY <1>9, <1>10, <1>11 DEF Passes, Own
<1>12. ASSUME NEW e \in S PROVE Adds(s, t, e, Command(e, op, l[e], for, a))
  <2>1. PICK k \in 1 .. n : order[k] = e
    BY <1>12, <1>5 DEF Surjection
  <2>2. Len(s) + k \in DOMAIN t \ DOMAIN s /\ Len(s) + k \in Int
    BY <1>1, <1>2, <1>8
  <2>3. t[Len(s) + k] = Command(e, op, l[e], for, a)
    BY <1>6, <1>8, <2>1
  <2>4. \A i \in DOMAIN t \ DOMAIN s : t[i].of = e => i = Len(s) + k
    <3>1. ASSUME NEW i \in DOMAIN t \ DOMAIN s, t[i].of = e PROVE i = Len(s) + k
      <4>1. i - Len(s) \in 1 .. n /\ order[i - Len(s)] = order[k]
        BY <1>9, <2>1, <3>1
      <4>2. i - Len(s) = k
        BY <1>4, <4>1 DEF IsInjective
      <4>. QED BY <1>1, <1>8, <3>1, <4>2
    <3>. QED BY <3>1
  <2>5. t[Len(s) + k].of = e
    BY <2>3 DEF Command
  <2>6. Own(t, e) = Own(s, e) \cup {Len(s) + k}
    BY <1>10, <2>2, <2>4, <2>5 DEF Own
  <2>7. \A i \in Own(s, e) : t[i] = s[i] /\ i < Len(s) + k /\ ~(Len(s) + k < i)
    BY <1>1, <1>2, <1>10 DEF Own
  <2>8. ~(Len(s) + k < Len(s) + k)
    BY <2>2
  <2> DEFINE m == Len(s) + k
  <2> HIDE DEF m, t, s
  <2>9. /\ Own(t, e) = Own(s, e) \cup {m} /\ t[m] = Command(e, op, l[e], for, a)
        /\ \A i \in Own(s, e) : t[i] = s[i] /\ i < m /\ ~(m < i)
        /\ ~(m < m)
    BY <2>3, <2>6, <2>7, <2>8 DEF m
  <2>. QED BY <2>9 DEF Adds
<1>13. q = [p EXCEPT ![r] = t]
  BY DEF SendOn, t, u, a
<1> HIDE DEF t, s
<1>14. /\ \A r2 \in Replica \ {r} : q[r2] = p[r2]
       /\ q[r] = t
  BY <1>13 DEF Pipes
<1>15. a \in Answers
  BY DEF a, Answers
<1>16. /\ \A e : e \notin S => Passes(s, t, e)
       /\ \A e \in S : Adds(s, t, e, Command(e, op, l[e], for, a))
  BY <1>11, <1>12
<1>17. Grows(s, t, r)
  BY <1>9, <1>10 DEF Grows
<1>. QED BY <1>14, <1>15, <1>16, <1>17 DEF s, Sends

-----------------------------------------------------------------------------
(* Changes of what is known of an editor                                   *)

\* Nothing but that its key may be gone, and that more reservations were drawn.
Fades(v, w, e) ==
    /\ w.key[e] = v.key[e] \/ (w.key[e].phase = "none" /\ w.key[e].res = 0)
    /\ e \in w.members => e \in v.members
    /\ w.lease[e] = v.lease[e] /\ w.queued[e] = v.queued[e] /\ w.parked[e] = v.parked[e]
    /\ w.conn[e] = v.conn[e]
    /\ e \in v.busy => e \in w.busy
    /\ w.drawn \in Nat /\ v.drawn <= w.drawn

LEMMA FadesInv ==
    ASSUME NEW v, NEW w, NEW e, NEW s, EditorInv(v, e, s), Fades(v, w, e)
    PROVE  EditorInv(w, e, s)
<1> USE DEF EditorInv, Sound
<1>1. \A n : /\ Started(v, e, n) => Started(w, e, n)
             /\ Over(v, e, n) => Over(w, e, n)
             /\ Newest(v, e, n) => Newest(w, e, n)
  BY DEF Fades, Started, Over, Newest
<1>2. \A l : Told(v, e, l) => Told(w, e, l)
  BY <1>1 DEF Told
<1>3. Holding(w, e)
  <2>1. \A n \in 0 .. v.drawn : n \in 0 .. w.drawn
    BY DEF Fades, Holding
  <2>2. {w.key[e].res, w.lease[e].res, w.queued[e].res, w.parked[e].res} \subseteq 0 .. w.drawn
    BY <2>1 DEF Fades, Holding
  <2>. QED BY <1>1, <1>2, <2>2 DEF Fades, Holding
<1>4. ASSUME NEW i \in Own(s, e) PROVE About(w, s[i])
  <2>1. s[i].of = e /\ About(v, s[i])
    BY DEF Own
  <2>2. s[i].res \in 1 .. w.drawn
    <3>1. s[i].res \in 1 .. v.drawn /\ v.drawn \in Nat /\ w.drawn \in Nat /\ v.drawn <= w.drawn
      BY <2>1 DEF About, Fades, Holding
    <3>. QED BY <3>1
  <2>3. s[i].op = "reserve" /\ w.key[e].res = s[i].res => w.key[e].phase = "pending"
    BY <2>1, <2>2 DEF About, Fades
  <2>. QED BY <1>1, <1>2, <2>1, <2>2, <2>3 DEF About, Fades
<1>5. Hot(w, e, s) => Hot(v, e, s) /\ w.key[e] = v.key[e]
  <2>1. \A i \in Own(s, e) : s[i].res # 0
    BY DEF About, Holding
  <2>. QED BY <2>1 DEF Hot, Fades
<1>6. Cooled(w, e, s)
  BY <1>1, <1>5 DEF Cooled
<1>7. Tracking(w, e, s)
  BY <1>5 DEF Tracking, Tracked, Fades
<1>. QED BY <1>3, <1>4, <1>6, <1>7

\* Nothing but the leases the replica keeps.
Elsewhere(v, w) ==
    w.key = v.key /\ w.members = v.members /\ w.conn = v.conn /\ w.busy = v.busy /\ w.drawn = v.drawn

LEMMA ElsewhereSame ==
    ASSUME NEW v, NEW w, NEW e, Elsewhere(v, w)
    PROVE  /\ \A s : Hot(w, e, s) <=> Hot(v, e, s)
           /\ \A n : /\ Started(w, e, n) <=> Started(v, e, n)
                     /\ Over(w, e, n) <=> Over(v, e, n)
                     /\ Newest(w, e, n) <=> Newest(v, e, n)
           /\ \A l : Told(w, e, l) <=> Told(v, e, l)
<1>1. \A s : Hot(w, e, s) <=> Hot(v, e, s)
  BY DEF Hot, Elsewhere
<1>2. \A n : /\ Started(w, e, n) <=> Started(v, e, n)
             /\ Over(w, e, n) <=> Over(v, e, n)
             /\ Newest(w, e, n) <=> Newest(v, e, n)
  BY DEF Started, Over, Newest, Elsewhere
<1>. QED BY <1>1, <1>2 DEF Told

\* A lease is dropped, or waits to be released.
LEMMA MovesSound ==
    ASSUME NEW v, NEW w, NEW e, NEW R, NEW s \in Seq(R), Sound(v, e, s), Elsewhere(v, w),
           w.lease[e] \in {v.lease[e], NoLease}, w.parked[e] \in {v.parked[e], NoLease},
           \/ w.queued[e] \in {v.queued[e], NoLease}
           \/ w.queued[e] = v.lease[e] /\ v.lease[e].res # 0 /\ w.lease[e] = NoLease
           \/ \E i \in Own(s, e) : Tracker(s[i]) /\ w.queued[e] = LeaseOf(s[i])
    PROVE  Sound(w, e, s)
<1> USE DEF Sound, Elsewhere
<1>0. NoLease.res = 0 /\ NoLease.phase = "none" /\ w.drawn \in Nat
  BY DEF NoLease, Lease, Holding
<1>1. /\ \A n : Started(v, e, n) => Started(w, e, n)
      /\ \A n : Over(v, e, n) => Over(w, e, n)
      /\ \A n : Newest(v, e, n) => Newest(w, e, n)
  BY DEF Started, Over, Newest
<1>2. \A l : Told(v, e, l) => Told(w, e, l)
  BY <1>1 DEF Told
<1>3. Told(w, e, NoLease)
  BY <1>0 DEF Told
<1>4. \A i \in Own(s, e) : /\ s[i].of = e /\ About(v, s[i])
                            /\ LeaseOf(s[i]).res = s[i].res /\ LeaseOf(s[i]).phase = s[i].phase
  BY DEF Own, LeaseOf, Lease
<1>5. Told(w, e, w.queued[e]) /\ w.queued[e].res \in 0 .. w.drawn
  <2>1. CASE w.queued[e] \in {v.queued[e], NoLease}
    BY <1>0, <1>2, <1>3, <2>1 DEF Holding
  <2>2. CASE w.queued[e] = v.lease[e]
    BY <1>2, <2>2 DEF Holding
  <2>3. ASSUME NEW i \in Own(s, e), w.queued[e] = LeaseOf(s[i]) PROVE Told(w, e, w.queued[e]) /\ w.queued[e].res \in 0 .. w.drawn
    <3>1. s[i].res \in 0 .. v.drawn /\ About(v, s[i]) /\ s[i].of = e
      BY EachAbout
    <3>2. LeaseOf(s[i]).res = s[i].res /\ LeaseOf(s[i]).phase = s[i].phase
      BY DEF LeaseOf, Lease
    <3>3. Told(v, e, s[i])
      BY <3>1 DEF About
    <3>4. Told(v, e, LeaseOf(s[i]))
      BY <3>2, <3>3 DEF Told
    <3>. QED BY <1>2, <2>3, <3>1, <3>2, <3>4
  <2>. QED BY <2>1, <2>2, <2>3
<1>6. w.lease[e].res # 0 => w.queued[e].res # w.lease[e].res
  <2>1. CASE w.queued[e] \in {v.queued[e], NoLease}
    BY <1>0, <2>1 DEF Holding
  <2>2. ASSUME NEW i \in Own(s, e), Tracker(s[i]) PROVE w.lease[e].res = 0
    <3>1. About(v, s[i]) /\ s[i].of = e
      BY EachAbout
    <3>2. v.lease[e].res = 0
      BY <2>2, <3>1 DEF About
    <3>. QED BY <1>0, <3>2
  <2>. QED BY <1>0, <2>1, <2>2
<1>7. Holding(w, e)
  <2>1. Told(w, e, w.lease[e]) /\ Told(w, e, w.parked[e])
    BY <1>2, <1>3 DEF Holding
  <2>2. {w.key[e].res, w.lease[e].res, w.queued[e].res, w.parked[e].res} \subseteq 0 .. w.drawn
    BY <1>0, <1>5 DEF Holding
  <2>3. w.lease[e].res # 0 => w.parked[e].res = 0 /\ Newest(w, e, w.lease[e].res)
    BY <1>0, <1>1 DEF Holding
  <2>4. w.parked[e].res # 0 => w.conn[e] # "open" /\ Newest(w, e, w.parked[e].res)
    BY <1>0, <1>1 DEF Holding
  <2>. QED BY <1>0, <1>5, <1>6, <2>1, <2>2, <2>3, <2>4 DEF Holding
<1>8. ASSUME NEW i \in Own(s, e), s[i].op = "reserve" PROVE w.queued[e].res # s[i].res
  <2>1. s[i].res # 0 /\ v.lease[e].res = 0 /\ v.queued[e].res # s[i].res
    <3>1. About(v, s[i]) /\ s[i].of = e /\ s[i].res # 0
      BY EachAbout
    <3>. QED BY <1>8, <3>1 DEF About
  <2>2. \A j \in Own(s, e) : Tracker(s[j]) => s[j].res # s[i].res
    <3>1. ASSUME NEW j \in Own(s, e), Tracker(s[j]) PROVE s[j].res # s[i].res
      <4>1. i # j /\ i \in DOMAIN s /\ j \in DOMAIN s
        BY <1>4, <1>8, <3>1 DEF About, Own
      <4>2. i < j \/ j < i
        BY <4>1
      <4>. QED BY <1>8, <4>2 DEF Before
    <3>. QED BY <3>1
  <2>. QED BY <1>0, <1>4, <2>1, <2>2
<1>9. ASSUME NEW i \in Own(s, e) PROVE About(w, s[i])
  <2>1. About(v, s[i]) /\ s[i].of = e
    BY EachAbout
  <2>2. Told(w, e, s[i])
    BY <1>2, <2>1 DEF About
  <2>3. /\ v.lease[e].res = 0 => w.lease[e].res = 0
        /\ v.parked[e].res = 0 => w.parked[e].res = 0
        /\ s[i].res # 0 /\ v.lease[e].res # s[i].res => w.lease[e].res # s[i].res
    BY <1>0
  <2>4. s[i].res # 0
    BY EachAbout
  <2>. QED BY <1>1, <1>8, <2>1, <2>2, <2>3, <2>4 DEF About
<1>10. Cooled(w, e, s)
  BY <1>1 DEF Cooled, Hot
<1>. QED BY <1>7, <1>9, <1>10

-----------------------------------------------------------------------------
(* What a replica does about an editor                                     *)

\* The tracker that ends a lease the replica no longer keeps.
LEMMA AddTracker ==
    ASSUME NEW v, NEW e, NEW s, NEW t, NEW op \in {"release", "detach"}, NEW l, NEW a \in Answers,
           Sound(v, e, s), Adds(s, t, e, Command(e, op, l, op, a)),
           l.res \in 1 .. v.drawn, Told(v, e, l), Newest(v, e, l.res), v.lease[e].res = 0,
           op = "detach" => v.conn[e] # "open",
           \A i \in Own(s, e) : s[i].op # "reserve"
    PROVE  Sound(v, e, t)
<1> DEFINE c == Command(e, op, l, op, a)
<1>1. c.of = e /\ c.op = op /\ c.for = op /\ c.res = l.res /\ c.phase = l.phase /\ c.answer = a
  BY DEF Command
<1> HIDE DEF c
<1>2. Told(v, e, c)
  BY <1>1 DEF Told
<1>3. About(v, c)
  <2>1. l.res # 0
    BY DEF Sound, Holding
  <2>. QED BY <1>1, <1>2, <2>1 DEF About, Answers, Tracker
<1>4. \A i \in Own(s, e) : Before(s[i], c)
  BY <1>1 DEF Before
<1>5. Adds(s, t, e, c)
  BY DEF c
<1>. QED BY <1>1, <1>3, <1>4, <1>5, AddSound

\* A command of a batch.
LEMMA AddCleanup ==
    ASSUME NEW v, NEW e, NEW s, NEW t, NEW a \in Answers,
           Sound(v, e, s), Adds(s, t, e, Command(e, "release", v.queued[e], "cleanup", a)),
           v.queued[e].res # 0
    PROVE  Sound(v, e, t)
<1> DEFINE c == Command(e, "release", v.queued[e], "cleanup", a)
<1>1. /\ c.of = e /\ c.op = "release" /\ c.for = "cleanup" /\ c.res = v.queued[e].res
      /\ c.phase = v.queued[e].phase /\ c.answer = a
  BY DEF Command
<1> HIDE DEF c
<1>2. Told(v, e, c)
  BY <1>1 DEF Told, Sound, Holding
<1>3. About(v, c)
  <2>1. c.res \in 1 .. v.drawn
    BY <1>1 DEF Sound, Holding
  <2>2. v.lease[e].res # c.res
    BY <1>1 DEF Sound, Holding
  <2>. QED BY <1>1, <1>2, <2>1, <2>2 DEF About, Answers, Tracker
<1>4. ASSUME NEW i \in Own(s, e) PROVE Before(s[i], c)
  <2>1. s[i].op = "reserve" => s[i].res # c.res
    BY <1>1 DEF Sound, About, Own
  <2>. QED BY <1>1, <2>1 DEF Before, Tracker
<1>5. Adds(s, t, e, c)
  BY DEF c
<1>. QED BY <1>1, <1>3, <1>4, <1>5, AddSound

\* A lease, if there is one, is to be released.
Frees(s, t, e, l, for) ==
    IF l.res = 0 THEN Passes(s, t, e)
    ELSE \E a \in Answers : Adds(s, t, e, Command(e, "release", l, for, a))

\* Then it is tracked.
LEMMA FreesTracks ==
    ASSUME NEW e, NEW s, NEW t, NEW l, Frees(s, t, e, l, "release")
    PROVE  /\ \A v : Hot(v, e, t) => Hot(v, e, s)
           /\ \A i \in Own(s, e) : i \in Own(t, e) /\ t[i] = s[i]
           /\ l.res # 0 => \E i \in Own(t, e) : Tracker(t[i]) /\ t[i].res = l.res
<1>1. CASE l.res = 0
  BY <1>1 DEF Frees, Passes, Hot
<1>2. ASSUME l.res # 0, NEW a \in Answers, Adds(s, t, e, Command(e, "release", l, "release", a))
      PROVE  /\ \A v : Hot(v, e, t) => Hot(v, e, s)
             /\ \A i \in Own(s, e) : i \in Own(t, e) /\ t[i] = s[i]
             /\ \E i \in Own(t, e) : Tracker(t[i]) /\ t[i].res = l.res
  BY <1>2 DEF Adds, Hot, Command, Tracker
<1>. QED BY <1>1, <1>2 DEF Frees

LEMMA HotKey ==
    ASSUME NEW v, NEW e, NEW s, Sound(v, e, s), Hot(v, e, s)
    PROVE  v.key[e].res # 0
<1>1. v.key[e].phase = "active" => v.key[e].res # 0
  BY DEF Sound, Holding
<1>2. \A i \in Own(s, e) : s[i].res # 0
  BY DEF Sound, Holding, About
<1>. QED BY <1>1, <1>2 DEF Hot

LEMMA LetGoInv ==
    ASSUME NEW v, NEW w, NEW e, NEW R, NEW s \in Seq(R), NEW t, EditorInv(v, e, s), Elsewhere(v, w),
           w.lease[e] = NoLease, w.parked[e] = v.parked[e], w.queued[e] = v.queued[e],
           Frees(s, t, e, v.lease[e], "release")
    PROVE  EditorInv(w, e, t)
<1>1. Sound(w, e, s)
  BY MovesSound DEF EditorInv
<1>2. Sound(w, e, t)
  <2>1. CASE v.lease[e].res = 0
    BY <1>1, <2>1 DEF Frees, Passes, Sound, Cooled, Hot
  <2>2. CASE v.lease[e].res # 0
    <3>1. PICK a \in Answers : Adds(s, t, e, Command(e, "release", v.lease[e], "release", a))
      BY <2>2 DEF Frees
    <3>2. \A i \in Own(s, e) : s[i].op # "reserve"
      BY <2>2 DEF EditorInv, Sound, About, Own
    <3>3. v.lease[e].res \in 1 .. w.drawn /\ w.lease[e].res = 0
      BY <2>2 DEF EditorInv, Sound, Holding, Elsewhere, NoLease, Lease
    <3>4. Told(w, e, v.lease[e]) /\ Newest(w, e, v.lease[e].res)
      BY <2>2 DEF EditorInv, Sound, Holding, Elsewhere, Told, Newest, Started, Over
    <3>. QED BY <1>1, <3>1, <3>2, <3>3, <3>4, AddTracker
  <2>. QED BY <2>1, <2>2
<1>3. Tracking(w, e, t)
  <2> SUFFICES ASSUME w.conn[e] # "crashed", Hot(w, e, t) PROVE Tracked(w, e, t)
      BY DEF Tracking
  <2>1. /\ Hot(v, e, t) => Hot(v, e, s)
        /\ \A i \in Own(s, e) : i \in Own(t, e) /\ t[i] = s[i]
        /\ v.lease[e].res # 0 => \E i \in Own(t, e) : Tracker(t[i]) /\ t[i].res = v.lease[e].res
    BY FreesTracks
  <2>2. Hot(v, e, s)
    BY <2>1, ElsewhereSame
  <2>3. Tracked(v, e, s) /\ v.key[e].res # 0
    BY <2>2, HotKey DEF EditorInv, Tracking, Elsewhere
  <2>. QED BY <2>1, <2>3 DEF Tracked, Elsewhere
<1>. QED BY <1>2, <1>3 DEF EditorInv

LEMMA GraceInv ==
    ASSUME NEW v, NEW w, NEW e, NEW R, NEW s \in Seq(R), NEW t, EditorInv(v, e, s), Elsewhere(v, w),
           w.parked[e] = NoLease, w.lease[e] = v.lease[e], w.queued[e] = v.queued[e],
           Frees(s, t, e, v.parked[e], "release")
    PROVE  EditorInv(w, e, t)
<1>1. Sound(w, e, s)
  BY MovesSound DEF EditorInv
<1>2. Sound(w, e, t)
  <2>1. CASE v.parked[e].res = 0
    BY <1>1, <2>1 DEF Frees, Passes, Sound, Cooled, Hot
  <2>2. CASE v.parked[e].res # 0
    <3>1. PICK a \in Answers : Adds(s, t, e, Command(e, "release", v.parked[e], "release", a))
      BY <2>2 DEF Frees
    <3>2. \A i \in Own(s, e) : s[i].op # "reserve"
      BY <2>2 DEF EditorInv, Sound, About, Own
    <3>3. v.parked[e].res \in 1 .. w.drawn /\ w.lease[e].res = 0
      BY <2>2 DEF EditorInv, Sound, Holding, Elsewhere, NoLease, Lease
    <3>4. Told(w, e, v.parked[e]) /\ Newest(w, e, v.parked[e].res)
      BY <2>2, ElsewhereSame DEF EditorInv, Sound, Holding
    <3>. QED BY <1>1, <3>1, <3>2, <3>3, <3>4, AddTracker
  <2>. QED BY <2>1, <2>2
<1>3. Tracking(w, e, t)
  <2> SUFFICES ASSUME w.conn[e] # "crashed", Hot(w, e, t) PROVE Tracked(w, e, t)
      BY DEF Tracking
  <2>1. /\ Hot(v, e, t) => Hot(v, e, s)
        /\ \A i \in Own(s, e) : i \in Own(t, e) /\ t[i] = s[i]
    BY FreesTracks
  <2>2. Hot(v, e, s)
    BY <2>1, ElsewhereSame
  <2>3. Tracked(v, e, s)
    BY <2>2 DEF EditorInv, Tracking, Elsewhere
  <2>. QED BY <2>1, <2>3 DEF Tracked, Elsewhere
<1>. QED BY <1>2, <1>3 DEF EditorInv

\* A batch starts with what is queued, or goes on.
LEMMA CleanupInv ==
    ASSUME NEW v, NEW e, NEW s, NEW t, EditorInv(v, e, s),
           Passes(s, t, e) \/ Frees(s, t, e, v.queued[e], "cleanup")
    PROVE  EditorInv(v, e, t)
<1>1. CASE Passes(s, t, e)
  BY <1>1, PassesInv
<1>2. ASSUME v.queued[e].res # 0, NEW a \in Answers,
             Adds(s, t, e, Command(e, "release", v.queued[e], "cleanup", a))
      PROVE  EditorInv(v, e, t)
  <2>1. Sound(v, e, t)
    BY <1>2, AddCleanup DEF EditorInv
  <2>2. Command(e, "release", v.queued[e], "cleanup", a).op # "activate"
    BY DEF Command
  <2>. QED BY <1>2, <2>1, <2>2, AddTracking DEF EditorInv
<1>. QED BY <1>1, <1>2 DEF Frees

\* The relay closes.
LEMMA CloseInv ==
    ASSUME NEW v, NEW w, NEW e, NEW R, NEW s \in Seq(R), EditorInv(v, e, s), Elsewhere(v, w),
           w.lease[e] = NoLease, w.parked[e] = v.parked[e],
           w.queued[e] = IF v.lease[e].res # 0 THEN v.lease[e] ELSE v.queued[e]
    PROVE  EditorInv(w, e, s)
<1>1. Sound(w, e, s)
  BY MovesSound DEF EditorInv
<1>2. Tracking(w, e, s)
  <2> SUFFICES ASSUME w.conn[e] # "crashed", Hot(w, e, s) PROVE Tracked(w, e, s)
      BY DEF Tracking
  <2>1. Hot(v, e, s)
    BY ElsewhereSame
  <2>2. Tracked(v, e, s) /\ v.key[e].res # 0
    BY <2>1, HotKey DEF EditorInv, Tracking, Elsewhere
  <2>3. v.lease[e].res # 0 => v.key[e].res = v.lease[e].res
    BY <2>2 DEF EditorInv, Sound, Holding, Newest
  <2>. QED BY <2>2, <2>3 DEF Tracked, Elsewhere
<1>. QED BY <1>1, <1>2 DEF EditorInv

\* A release that failed.
LEMMA RequeueInv ==
    ASSUME NEW v, NEW w, NEW e, NEW R, NEW s \in Seq(R), NEW p, EditorInv(v, e, s), Thins(s, p, e),
           NEW k \in Own(s, e), s[k].for = "release", Elsewhere(v, w),
           w.lease[e] = v.lease[e], w.parked[e] = v.parked[e], w.queued[e] = LeaseOf(s[k])
    PROVE  EditorInv(w, e, p)
<1>1. Sound(w, e, p)
  <2>1. Sound(w, e, s)
    BY MovesSound DEF EditorInv, Tracker
  <2>. QED BY <2>1, ThinSound
<1>2. Tracking(w, e, p)
  <2> SUFFICES ASSUME w.conn[e] # "crashed", Hot(w, e, p) PROVE Tracked(w, e, p)
      BY DEF Tracking
  <2>1. Hot(v, e, s)
    BY ElsewhereSame, ThinHot
  <2>2. v.key[e].res # 0 /\ Newest(v, e, s[k].res)
    BY <2>1, HotKey DEF EditorInv, Sound, Cooled
  <2>. QED BY <2>2 DEF Tracked, Newest, LeaseOf, Lease, Elsewhere
<1>. QED BY <1>1, <1>2 DEF EditorInv

KeepsOthers(s, p, e, k) ==
    \A i \in Own(s, e) \ {k} : Tracker(s[i]) => \E j \in Own(p, e) : Tracker(p[j]) /\ p[j].res = s[i].res

\* A detachment that failed.
LEMMA DetachFailsInv ==
    ASSUME NEW v, NEW e, NEW R, NEW s \in Seq(R), NEW p, NEW t, EditorInv(v, e, s), Thins(s, p, e),
           NEW k \in Own(s, e), s[k].for = "detach", KeepsOthers(s, p, e, k),
           Frees(p, t, e, LeaseOf(s[k]), "release")
    PROVE  EditorInv(v, e, t)
<1>1. /\ About(v, s[k]) /\ s[k].of = e /\ Tracker(s[k])
      /\ LeaseOf(s[k]).res = s[k].res /\ LeaseOf(s[k]).phase = s[k].phase
      /\ s[k].res # 0 /\ s[k].res \in 1 .. v.drawn
  BY DEF EditorInv, Sound, Holding, About, Own, LeaseOf, Lease, Tracker
<1>2. Sound(v, e, p)
  BY ThinSound DEF EditorInv
<1>3. \A i \in Own(s, e) : s[i].op # "reserve"
  <2>1. ASSUME NEW i \in Own(s, e), s[i].op = "reserve" PROVE FALSE
    <3>1. i \in Int /\ k \in Int
      BY DEF Own
    <3>2. i # k
      BY <1>1, <2>1 DEF About
    <3>3. CASE i < k
      BY <1>1, <2>1, <3>3 DEF EditorInv, Sound, Before
    <3>4. CASE k < i
      BY <2>1, <3>4 DEF EditorInv, Sound, Before
    <3>. QED BY <3>1, <3>2, <3>3, <3>4
  <2>. QED BY <2>1
<1>4. \A i \in Own(p, e) : p[i].op # "reserve"
  BY <1>3 DEF Thins, Weaker
<1>5. PICK a \in Answers : Adds(p, t, e, Command(e, "release", LeaseOf(s[k]), "release", a))
  BY <1>1 DEF Frees
<1>6. Told(v, e, LeaseOf(s[k])) /\ Newest(v, e, s[k].res) /\ v.lease[e].res = 0
  BY <1>1 DEF Told, About
<1>7. Sound(v, e, t)
  BY <1>1, <1>2, <1>4, <1>5, <1>6, AddTracker
<1>8. Tracking(v, e, t)
  <2> SUFFICES ASSUME v.conn[e] # "crashed", Hot(v, e, t) PROVE Tracked(v, e, t)
      BY DEF Tracking
  <2>1. /\ Hot(v, e, p)
        /\ \A i \in Own(p, e) : i \in Own(t, e) /\ t[i] = p[i]
        /\ \E i \in Own(t, e) : Tracker(t[i]) /\ t[i].res = s[k].res
    BY <1>1, FreesTracks
  <2>2. Tracked(v, e, s)
    BY <2>1, ThinHot DEF EditorInv, Tracking
  <2>. QED BY <2>1, <2>2 DEF Tracked, KeepsOthers
<1>. QED BY <1>7, <1>8 DEF EditorInv

-----------------------------------------------------------------------------
(* What an answer does about an editor                                     *)

\* The frame that waits for an answer is the only one of its connection.
LEMMA OneCall ==
    ASSUME NEW v, NEW e, NEW R, NEW s \in Seq(R), Sound(v, e, s), NEW k \in Own(s, e), s[k].for = "call"
    PROVE  \A i \in Own(s, e) \ {k} : s[i].for # "call"
<1> SUFFICES ASSUME NEW i \in Own(s, e) \ {k}, s[i].for = "call" PROVE FALSE
    OBVIOUS
<1>1. i < k \/ k < i
  BY DEF Own
<1>. QED BY <1>1 DEF Sound, Before

\* The frame is done, or the connection ends.
LEMMA SettlesInv ==
    ASSUME NEW v, NEW w, NEW e, NEW s, EditorInv(v, e, s),
           w.key[e] = v.key[e], e \in w.members <=> e \in v.members, w.drawn = v.drawn,
           w.lease[e] = v.lease[e], w.queued[e] = v.queued[e], w.parked[e] = v.parked[e],
           v.conn[e] # "open" => w.conn[e] # "open", v.conn[e] = "crashed" => w.conn[e] = "crashed",
           e \in w.busy \/ \A i \in Own(s, e) : s[i].for # "call"
    PROVE  EditorInv(w, e, s)
<1>1. /\ Hot(w, e, s) <=> Hot(v, e, s)
      /\ \A n : /\ Started(w, e, n) <=> Started(v, e, n)
                /\ Over(w, e, n) <=> Over(v, e, n)
                /\ Newest(w, e, n) <=> Newest(v, e, n)
  BY DEF Hot, Started, Over, Newest
<1>2. \A l : Told(w, e, l) <=> Told(v, e, l)
  BY <1>1 DEF Told
<1>3. Holding(w, e)
  BY <1>1, <1>2 DEF EditorInv, Sound, Holding
<1>4. \A i \in Own(s, e) : About(w, s[i])
  BY <1>1, <1>2 DEF EditorInv, Sound, About, Own
<1>5. Sound(w, e, s)
  BY <1>1, <1>3, <1>4 DEF EditorInv, Sound, Cooled
<1>6. Tracking(w, e, s)
  BY <1>1 DEF EditorInv, Tracking, Tracked
<1>. QED BY <1>5, <1>6 DEF EditorInv

\* The lease a replica keeps has another phase.
LEMMA RephaseInv ==
    ASSUME NEW v, NEW w, NEW e, NEW s, EditorInv(v, e, s), Elsewhere(v, w),
           w.lease[e].res = v.lease[e].res, Told(v, e, w.lease[e]),
           w.parked[e] = v.parked[e], w.queued[e] = v.queued[e]
    PROVE  EditorInv(w, e, s)
<1>1. Holding(w, e)
  BY ElsewhereSame DEF EditorInv, Sound, Holding, Elsewhere
<1>2. \A i \in Own(s, e) : About(w, s[i])
  BY ElsewhereSame DEF EditorInv, Sound, About, Elsewhere, Own
<1>3. Sound(w, e, s)
  BY <1>1, <1>2, ElsewhereSame DEF EditorInv, Sound, Cooled
<1>4. Tracking(w, e, s)
  BY ElsewhereSame DEF EditorInv, Tracking, Tracked, Elsewhere
<1>. QED BY <1>3, <1>4 DEF EditorInv

\* Nothing else about an editor follows its reservation that concerns a lease it may have.
LEMMA AfterReservation ==
    ASSUME NEW v, NEW e, NEW R, NEW s \in Seq(R), s # <<>>, Sound(v, e, s),
           s[1].of = e, s[1].op = "reserve", s[1].for = "call"
    PROVE  \A i \in Own(Tail(s), e) :
              Tail(s)[i].op # "reserve" /\ Tail(s)[i].res # s[1].res /\ ~Tracker(Tail(s)[i])
<1>1. 1 \in Own(s, e)
  BY TailThins DEF Own
<1>2. \A i \in Own(Tail(s), e) : i + 1 \in Own(s, e) /\ 1 < i + 1 /\ Tail(s)[i] = s[i + 1]
  BY TailThins
<1>3. \A i \in Own(Tail(s), e) : Before(s[1], Tail(s)[i])
  BY <1>1, <1>2 DEF Sound
<1>. QED BY <1>3 DEF Before

LEMMA HeadAbout ==
    ASSUME NEW v, NEW e, NEW R, NEW s \in Seq(R), s # <<>>, Sound(v, e, s), s[1].of = e
    PROVE  1 \in Own(s, e) /\ About(v, s[1])
<1>1. 1 \in Own(s, e)
  BY TailThins DEF Own
<1>. QED BY <1>1 DEF Sound

\* The answer to come is to its reservation, which was granted.
Promised(s, e) ==
    /\ s # <<>> /\ s[1].of = e
    /\ s[1].op = "reserve" /\ s[1].for = "call" /\ s[1].answer \in {"elected", "follows"}

LEMMA PromisedAbout ==
    ASSUME NEW v, NEW e, NEW R, NEW s \in Seq(R), Sound(v, e, s), Promised(s, e)
    PROVE  /\ LeaseOf(s[1]).res = s[1].res /\ LeaseOf(s[1]).phase = "pending"
           /\ v.lease[e].res = 0 /\ v.parked[e].res = 0 /\ v.queued[e].res # s[1].res
           /\ Newest(v, e, s[1].res)
           /\ s[1].res \in 1 .. v.drawn /\ s[1].res \in 0 .. v.drawn /\ s[1].res # 0
<1>1. About(v, s[1]) /\ v.drawn \in Nat
  BY HeadAbout DEF Sound, Holding, Promised
<1>2. s[1].res \in 1 .. v.drawn /\ s[1].phase = "pending"
  BY <1>1 DEF About, Promised
<1>3. v.lease[e].res = 0 /\ v.parked[e].res = 0 /\ v.queued[e].res # s[1].res /\ Newest(v, e, s[1].res)
  BY <1>1 DEF About, Promised
<1>. QED BY <1>1, <1>2, <1>3 DEF LeaseOf, Lease

LEMMA ReservedInv ==
    ASSUME NEW v, NEW w, NEW e, NEW R, NEW s \in Seq(R), EditorInv(v, e, s), Promised(s, e),
           Elsewhere(v, w), w.lease[e] = LeaseOf(s[1]), w.parked[e] = v.parked[e], w.queued[e] = v.queued[e]
    PROVE  EditorInv(w, e, Tail(s))
<1> DEFINE c == s[1]
           t == Tail(s)
<1>0. Sound(v, e, s) /\ Tracking(v, e, s)
  BY DEF EditorInv
<1>1. /\ LeaseOf(c).res = c.res /\ LeaseOf(c).phase = "pending"
      /\ v.lease[e].res = 0 /\ v.parked[e].res = 0 /\ v.queued[e].res # c.res /\ Newest(v, e, c.res)
      /\ c.res \in 1 .. v.drawn /\ c.res \in 0 .. v.drawn
  BY <1>0, PromisedAbout
<1>2. \A i \in Own(t, e) : t[i].op # "reserve" /\ t[i].res # c.res /\ ~Tracker(t[i])
  BY <1>0, AfterReservation DEF Promised
<1>3. Sound(v, e, t) /\ Thins(s, t, e)
  BY <1>0, TailThins, ThinSound DEF Promised
<1>4. KeepsTrackers(s, t, e)
  <2>1. s[1] = Head(s) /\ ~Tracker(s[1])
    BY TailThins DEF Tracker, Promised
  <2>. QED BY <2>1, TailThins DEF Promised
<1>5. Tracking(v, e, t)
  BY <1>0, <1>3, <1>4, ThinTracking
<1> HIDE DEF c, t
<1>6. Holding(w, e)
  <2>1. Told(w, e, w.lease[e])
    BY <1>1 DEF Told, c
  <2>2. Told(w, e, w.parked[e]) /\ Told(w, e, w.queued[e]) /\ Newest(w, e, w.lease[e].res)
    BY <1>1, <1>3, ElsewhereSame DEF Sound, Holding, c
  <2>3. {w.key[e].res, w.lease[e].res, w.queued[e].res, w.parked[e].res} \subseteq 0 .. w.drawn
    BY <1>1, <1>3 DEF Sound, Holding, Elsewhere, c
  <2>. QED BY <1>1, <1>3, <2>1, <2>2, <2>3 DEF Sound, Holding, Elsewhere, c
<1>7. ASSUME NEW i \in Own(t, e) PROVE About(w, t[i])
  <2>1. About(v, t[i]) /\ t[i].of = e
    BY <1>3 DEF Sound, Own
  <2>2. t[i].op # "reserve" /\ t[i].res # c.res /\ ~Tracker(t[i]) /\ t[i].for # "detach"
    BY <1>2 DEF Tracker
  <2>3. w.lease[e].res # t[i].res
    BY <1>1, <2>2 DEF c
  <2>. QED BY <2>1, <2>2, <2>3, ElsewhereSame DEF About, Elsewhere
<1>8. Cooled(w, e, t)
  BY <1>2 DEF Cooled, Tracker
<1>9. Sound(w, e, t)
  BY <1>3, <1>6, <1>7, <1>8 DEF Sound
<1>10. Tracking(w, e, t)
  <2> SUFFICES ASSUME w.conn[e] # "crashed", Hot(w, e, t) PROVE Tracked(w, e, t)
      BY DEF Tracking
  <2>1. Hot(v, e, t)
    BY ElsewhereSame
  <2>2. Tracked(v, e, t) /\ v.key[e].res # 0
    BY <1>3, <1>5, <2>1, HotKey DEF Tracking, Elsewhere
  <2>. QED BY <1>1, <2>2 DEF Tracked, Elsewhere
<1>. QED BY <1>9, <1>10 DEF EditorInv, t

LEMMA UnreservedInv ==
    ASSUME NEW v, NEW e, NEW R, NEW s \in Seq(R), EditorInv(v, e, s), Promised(s, e), NEW t,
           Frees(Tail(s), t, e, LeaseOf(s[1]), "release")
    PROVE  EditorInv(v, e, t)
<1> DEFINE c == s[1]
           p == Tail(s)
<1>0. Sound(v, e, s) /\ Tracking(v, e, s)
  BY DEF EditorInv
<1>1. /\ LeaseOf(c).res = c.res /\ LeaseOf(c).phase = "pending"
      /\ v.lease[e].res = 0 /\ Newest(v, e, c.res)
      /\ c.res \in 1 .. v.drawn /\ c.res # 0
  BY <1>0, PromisedAbout
<1>2. \A i \in Own(p, e) : p[i].op # "reserve" /\ p[i].res # c.res /\ ~Tracker(p[i])
  BY <1>0, AfterReservation DEF Promised
<1>3. Sound(v, e, p) /\ Thins(s, p, e)
  BY <1>0, TailThins, ThinSound DEF Promised
<1>4. KeepsTrackers(s, p, e)
  <2>1. s[1] = Head(s) /\ ~Tracker(s[1])
    BY TailThins DEF Tracker, Promised
  <2>. QED BY <2>1, TailThins DEF Promised
<1>5. Tracking(v, e, p)
  BY <1>0, <1>3, <1>4, ThinTracking
<1> HIDE DEF c, p
<1>6. PICK a \in Answers : Adds(p, t, e, Command(e, "release", LeaseOf(c), "release", a))
  BY <1>1 DEF Frees, c, p
<1>7. Told(v, e, LeaseOf(c))
  BY <1>1 DEF Told
<1>8. Sound(v, e, t)
  BY <1>1, <1>2, <1>3, <1>6, <1>7, AddTracker
<1>9. Tracking(v, e, t)
  <2>1. Command(e, "release", LeaseOf(c), "release", a).op # "activate"
    BY DEF Command
  <2>. QED BY <1>5, <1>6, <2>1, AddTracking
<1>. QED BY <1>8, <1>9 DEF EditorInv

\* The answer to come is to what ends a lease of the editor.
Ends(s, e, for) ==
    /\ s # <<>> /\ s[1].of = e
    /\ s[1].op \in {"release", "detach"} /\ s[1].for = for /\ s[1].answer = "ok"

\* A lease that is released or detached is not coming back.
LEMMA OverCold ==
    ASSUME NEW v, NEW e, NEW R, NEW s \in Seq(R), Sound(v, e, s), NEW for, Ends(s, e, for), Hot(v, e, Tail(s))
    PROVE  v.key[e].res # s[1].res
<1>0. /\ s # <<>> /\ s[1].of = e
      /\ s[1].op \in {"release", "detach"} /\ s[1].answer = "ok"
  BY DEF Ends
<1> SUFFICES ASSUME v.key[e].res = s[1].res PROVE FALSE
    OBVIOUS
<1>1. Over(v, e, s[1].res)
  BY <1>0, HeadAbout DEF About
<1>2. v.key[e].phase # "active"
  BY <1>1 DEF Over
<1>3. PICK i \in Own(Tail(s), e) : Tail(s)[i].op = "activate" /\ Tail(s)[i].res = s[1].res
  BY <1>2 DEF Hot
<1>4. 1 \in Own(s, e) /\ i + 1 \in Own(s, e) /\ 1 < i + 1 /\ Tail(s)[i] = s[i + 1]
  BY <1>0, HeadAbout, TailThins
<1>5. Before(s[1], Tail(s)[i])
  BY <1>4 DEF Sound
<1>. QED BY <1>0, <1>3, <1>5 DEF Before

LEMMA ReleasedInv ==
    ASSUME NEW v, NEW e, NEW R, NEW s \in Seq(R), EditorInv(v, e, s), Ends(s, e, "release")
    PROVE  EditorInv(v, e, Tail(s))
<1> DEFINE t == Tail(s)
<1>0. Sound(v, e, s) /\ Tracking(v, e, s) /\ s # <<>>
  BY DEF EditorInv, Ends
<1>1. Sound(v, e, t) /\ Thins(s, t, e)
  BY <1>0, TailThins, ThinSound
<1>2. Tracking(v, e, t)
  <2> SUFFICES ASSUME v.conn[e] # "crashed", Hot(v, e, t) PROVE Tracked(v, e, t)
      BY DEF Tracking
  <2>1. Tracked(v, e, s)
    BY <1>0, <1>1, ThinHot DEF Tracking
  <2>2. v.key[e].res # s[1].res
    BY <1>0, OverCold
  <2>3. ASSUME NEW i \in Own(s, e), Tracker(s[i]), s[i].res = v.key[e].res PROVE Tracked(v, e, t)
    <3>1. s \in Seq(R) /\ 1 \in DOMAIN s /\ i \in DOMAIN s /\ s # <<>>
      BY <1>0, TailThins DEF Own
    <3>2. i # 1
      BY <2>2, <2>3
    <3>3. i - 1 \in DOMAIN t /\ t[i - 1] = s[i]
      BY <3>1, <3>2
    <3>. QED BY <2>3, <3>3 DEF Tracked, Own
  <2>. QED BY <2>1, <2>3 DEF Tracked
<1>. QED BY <1>1, <1>2 DEF EditorInv

LEMMA DetachedInv ==
    ASSUME NEW v, NEW w, NEW e, NEW R, NEW s \in Seq(R), EditorInv(v, e, s), Ends(s, e, "detach"),
           Elsewhere(v, w), w.lease[e] = v.lease[e], w.queued[e] = v.queued[e],
           w.parked[e].phase = "detached", w.parked[e].res = s[1].res
    PROVE  EditorInv(w, e, Tail(s))
<1> DEFINE t == Tail(s)
           c == s[1]
<1>0. Sound(v, e, s) /\ Tracking(v, e, s) /\ s # <<>>
  BY DEF EditorInv, Ends
<1>1. Sound(v, e, t) /\ Thins(s, t, e)
  BY <1>0, TailThins, ThinSound
<1>2. About(v, c) /\ 1 \in Own(s, e) /\ c.of = e /\ Tracker(c) /\ v.drawn \in Nat
  BY <1>0, HeadAbout DEF Ends, Tracker, Sound, Holding
<1>3. /\ c.res \in 0 .. v.drawn /\ Over(v, e, c.res) /\ Newest(v, e, c.res)
      /\ v.conn[e] # "open" /\ v.lease[e].res = 0
  BY <1>2 DEF About, Ends
<1>4. \A i \in Own(t, e) : t[i].op # "reserve"
  <2>1. \A i \in Own(t, e) : i + 1 \in Own(s, e) /\ 1 < i + 1 /\ t[i] = s[i + 1]
    BY <1>0, TailThins
  <2>2. \A i \in Own(t, e) : Before(c, t[i])
    BY <1>0, <1>2, <2>1 DEF Sound
  <2>. QED BY <2>2 DEF Before, Ends
<1>5. Tracking(v, e, t)
  <2> SUFFICES ASSUME v.conn[e] # "crashed", Hot(v, e, t) PROVE Tracked(v, e, t)
      BY DEF Tracking
  <2>1. Tracked(v, e, s)
    BY <1>0, <1>1, ThinHot DEF Tracking
  <2>2. v.key[e].res # s[1].res
    BY <1>0, OverCold
  <2>3. ASSUME NEW i \in Own(s, e), Tracker(s[i]), s[i].res = v.key[e].res PROVE Tracked(v, e, t)
    <3>1. s \in Seq(R) /\ 1 \in DOMAIN s /\ i \in DOMAIN s /\ s # <<>>
      BY <1>0, TailThins DEF Own
    <3>2. i # 1
      BY <2>2, <2>3
    <3>3. i - 1 \in DOMAIN t /\ t[i - 1] = s[i]
      BY <3>1, <3>2
    <3>. QED BY <2>3, <3>3 DEF Tracked, Own
  <2>. QED BY <2>1, <2>3 DEF Tracked
<1> HIDE DEF t, c
<1>6. Holding(w, e)
  <2>1. Told(w, e, w.parked[e])
    <3>1. Over(w, e, w.parked[e].res)
      BY <1>3, ElsewhereSame DEF c
    <3>. QED BY <3>1 DEF Told
  <2>2. Told(w, e, w.lease[e]) /\ Told(w, e, w.queued[e]) /\ Newest(w, e, w.parked[e].res)
    BY <1>1, <1>3, ElsewhereSame DEF Sound, Holding, c
  <2>3. {w.key[e].res, w.lease[e].res, w.queued[e].res, w.parked[e].res} \subseteq 0 .. w.drawn
    BY <1>1, <1>3 DEF Sound, Holding, Elsewhere, c
  <2>. QED BY <1>1, <1>3, <2>1, <2>2, <2>3 DEF Sound, Holding, Elsewhere
<1>7. ASSUME NEW i \in Own(t, e) PROVE About(w, t[i])
  <2>1. About(v, t[i]) /\ t[i].of = e
    BY <1>1 DEF Sound, Own
  <2>. QED BY <1>4, <2>1, ElsewhereSame DEF About, Elsewhere
<1>8. Cooled(w, e, t)
  BY <1>1, ElsewhereSame DEF Sound, Cooled
<1>9. Sound(w, e, t)
  BY <1>1, <1>6, <1>7, <1>8 DEF Sound
<1>10. Tracking(w, e, t)
  BY <1>5, ElsewhereSame DEF Tracking, Tracked, Elsewhere
<1>. QED BY <1>9, <1>10 DEF EditorInv, t

LEMMA CleanedUpInv ==
    ASSUME NEW v, NEW w, NEW e, NEW R, NEW s \in Seq(R), EditorInv(v, e, s), Ends(s, e, "cleanup"),
           Elsewhere(v, w), w.lease[e] = v.lease[e], w.parked[e] = v.parked[e],
           w.queued[e] = IF v.queued[e].res = s[1].res THEN NoLease ELSE v.queued[e]
    PROVE  EditorInv(w, e, Tail(s))
<1> DEFINE t == Tail(s)
<1>0. Sound(v, e, s) /\ Tracking(v, e, s) /\ s # <<>> /\ s[1].of = e
  BY DEF EditorInv, Ends
<1>1. t \in Seq(R) /\ Thins(s, t, e) /\ KeepsTrackers(s, t, e)
  <2>1. Head(s) = s[1] /\ ~Tracker(s[1])
    BY <1>0, TailThins DEF Ends, Tracker
  <2>2. t \in Seq(R)
    BY <1>0
  <2>. QED BY <1>0, <2>1, <2>2, TailThins
<1>2. Sound(v, e, t) /\ Tracking(v, e, t)
  BY <1>0, <1>1, ThinSound, ThinTracking
<1>3. Hot(v, e, t) => v.key[e].res # s[1].res
  BY <1>0, OverCold
<1> HIDE DEF t
<1>4. Sound(w, e, t)
  BY <1>1, <1>2, MovesSound
<1>5. Tracking(w, e, t)
  <2> SUFFICES ASSUME w.conn[e] # "crashed", Hot(w, e, t) PROVE Tracked(w, e, t)
      BY DEF Tracking
  <2>1. Hot(v, e, t)
    BY ElsewhereSame
  <2>. QED BY <1>2, <1>3, <2>1 DEF Tracking, Tracked, Elsewhere
<1>. QED BY <1>4, <1>5 DEF EditorInv, t

\* The leases of an earlier generation are gone.
LEMMA RevokedInv ==
    ASSUME NEW v, NEW w, NEW e, NEW R, NEW s \in Seq(R), EditorInv(v, e, s), Elsewhere(v, w),
           w.lease[e] = NoLease, w.parked[e] = v.parked[e], w.queued[e] = v.queued[e],
           Bereft(v, e, v.lease[e].res)
    PROVE  EditorInv(w, e, s)
<1>1. Sound(w, e, s)
  BY MovesSound DEF EditorInv
<1>2. Tracking(w, e, s)
  <2> SUFFICES ASSUME w.conn[e] # "crashed", Hot(w, e, s) PROVE Tracked(w, e, s)
      BY DEF Tracking
  <2>1. Hot(v, e, s)
    BY ElsewhereSame
  <2>2. Tracked(v, e, s) /\ v.key[e].res # 0 /\ e \in v.members
    BY <2>1, HotKey DEF EditorInv, Tracking, Elsewhere, Hot
  <2>. QED BY <2>2 DEF Tracked, Elsewhere, Bereft
<1>. QED BY <1>1, <1>2 DEF EditorInv

-----------------------------------------------------------------------------
(* What a frame sends                                                      *)

LEMMA ReservesInv ==
    ASSUME NEW v, NEW w, NEW e, NEW s, NEW t, NEW l, NEW a \in Answers, EditorInv(v, e, s),
           e \notin v.busy, v.conn[e] = "open", v.lease[e].res = 0, v.queued[e].res = 0,
           w.key = v.key, w.members = v.members, w.conn = v.conn, w.busy = v.busy \cup {e},
           w.drawn = v.drawn + 1,
           w.lease[e] = v.lease[e], w.queued[e] = v.queued[e], w.parked[e] = v.parked[e],
           l.phase = "pending", l.res = v.drawn + 1,
           Adds(s, t, e, Command(e, "reserve", l, "call", a))
    PROVE  EditorInv(w, e, t)
<1> DEFINE c == Command(e, "reserve", l, "call", a)
<1>0. Sound(v, e, s) /\ v.drawn \in Nat
  BY DEF EditorInv, Sound, Holding
<1>1. /\ c.of = e /\ c.op = "reserve" /\ c.for = "call" /\ c.res = v.drawn + 1
      /\ c.phase = "pending" /\ c.answer = a
  BY DEF Command
<1> HIDE DEF c
<1>2. EditorInv(w, e, s)
  <2>1. Fades(v, w, e)
    BY <1>0 DEF Fades
  <2>. QED BY <2>1, FadesInv
<1>3. About(w, c)
  <2>1. w.lease[e].res = 0 /\ w.parked[e].res = 0 /\ w.queued[e].res # c.res
    BY <1>0, <1>1 DEF Sound, Holding
  <2>2. w.key[e].res # c.res
    BY <1>0, <1>1 DEF Sound, Holding
  <2>. QED BY <1>0, <1>1, <2>1, <2>2 DEF About, Told, Tracker, Answers
<1>4. ASSUME NEW i \in Own(s, e) PROVE Before(s[i], c)
  <2>1. About(v, s[i]) /\ s[i].of = e
    BY <1>0 DEF Sound, Own
  <2>2. s[i].for \notin {"call", "detach"} /\ s[i].res # c.res
    BY <1>0, <1>1, <2>1 DEF About
  <2>. QED BY <1>1, <2>2 DEF Before, Tracker
<1>5. Adds(s, t, e, c)
  BY DEF c
<1>6. Sound(w, e, t)
  BY <1>1, <1>2, <1>3, <1>4, <1>5, AddSound DEF EditorInv
<1>7. Tracking(w, e, t)
  BY <1>1, <1>2, <1>5, AddTracking DEF EditorInv
<1>. QED BY <1>6, <1>7 DEF EditorInv

\* A command about the lease a replica keeps.
LEMMA KeptAbout ==
    ASSUME NEW v, NEW e, NEW s, Sound(v, e, s), v.lease[e].res # 0, NEW c, c.of = e, c.res = v.lease[e].res,
           c.phase = v.lease[e].phase, c.op \in {"refresh", "activate"}, c.for \in {"call", "beat"},
           c.for = "call" => e \in v.busy /\ \A i \in Own(s, e) : s[i].for # "call",
           c.op = "activate" => c.phase = "pending", c.answer \in Answers
    PROVE  About(v, c) /\ \A i \in Own(s, e) : Before(s[i], c)
<1>1. About(v, c)
  <2>1. c.res \in 1 .. v.drawn /\ Told(v, e, c)
    BY DEF Sound, Holding, Told
  <2>. QED BY <2>1 DEF About, Tracker, Answers
<1>2. ASSUME NEW i \in Own(s, e) PROVE Before(s[i], c)
  <2>1. About(v, s[i]) /\ s[i].of = e
    BY DEF Sound, Own
  <2>2. s[i].op # "reserve" /\ (s[i].op \in {"release", "detach"} => s[i].res # c.res)
    BY <2>1 DEF About
  <2>. QED BY <2>2 DEF Before, Tracker
<1>. QED BY <1>1, <1>2

\* A frame that has to wait.
LEMMA WaitsInv ==
    ASSUME NEW v, NEW w, NEW e, NEW s, EditorInv(v, e, s), e \notin v.busy, w.busy = v.busy \cup {e},
           w.key = v.key, w.members = v.members, w.conn = v.conn, w.drawn = v.drawn,
           w.lease[e] = v.lease[e], w.queued[e] = v.queued[e], w.parked[e] = v.parked[e]
    PROVE  EditorInv(w, e, s) /\ \A i \in Own(s, e) : s[i].for # "call"
<1>1. Fades(v, w, e)
  BY DEF EditorInv, Sound, Holding, Fades
<1>2. EditorInv(w, e, s)
  BY <1>1, FadesInv
<1>3. \A i \in Own(s, e) : s[i].for # "call"
  BY DEF EditorInv, Sound, About, Own
<1>. QED BY <1>2, <1>3

LEMMA RefreshInv ==
    ASSUME NEW v, NEW e, NEW s, NEW t, NEW for \in {"call", "beat"}, NEW a \in Answers, EditorInv(v, e, s),
           v.lease[e].res # 0, Adds(s, t, e, Command(e, "refresh", v.lease[e], for, a)),
           for = "call" => e \in v.busy /\ \A i \in Own(s, e) : s[i].for # "call"
    PROVE  EditorInv(v, e, t)
<1> DEFINE c == Command(e, "refresh", v.lease[e], for, a)
<1>0. Sound(v, e, s) /\ Tracking(v, e, s)
  BY DEF EditorInv
<1>1. /\ c.of = e /\ c.op = "refresh" /\ c.for = for /\ c.res = v.lease[e].res
      /\ c.phase = v.lease[e].phase /\ c.answer = a
  BY DEF Command
<1> HIDE DEF c
<1>2. About(v, c) /\ \A i \in Own(s, e) : Before(s[i], c)
  BY <1>0, <1>1, KeptAbout
<1>3. Adds(s, t, e, c)
  BY DEF c
<1>4. Sound(v, e, t)
  BY <1>0, <1>1, <1>2, <1>3, AddSound
<1>5. Tracking(v, e, t)
  BY <1>0, <1>1, <1>3, AddTracking
<1>. QED BY <1>4, <1>5 DEF EditorInv

LEMMA JoinInv ==
    ASSUME NEW v, NEW e, NEW s, NEW t, NEW a \in Answers, EditorInv(v, e, s),
           v.lease[e].phase = "pending", v.lease[e].res # 0,
           Adds(s, t, e, Command(e, "activate", v.lease[e], "call", a)),
           e \in v.busy /\ \A i \in Own(s, e) : s[i].for # "call"
    PROVE  EditorInv(v, e, t)
<1> DEFINE c == Command(e, "activate", v.lease[e], "call", a)
<1>0. Sound(v, e, s) /\ Tracking(v, e, s)
  BY DEF EditorInv
<1>1. /\ c.of = e /\ c.op = "activate" /\ c.for = "call" /\ c.res = v.lease[e].res
      /\ c.phase = v.lease[e].phase /\ c.answer = a
  BY DEF Command
<1> HIDE DEF c
<1>2. About(v, c) /\ \A i \in Own(s, e) : Before(s[i], c)
  BY <1>0, <1>1, KeptAbout
<1>3. Adds(s, t, e, c)
  BY DEF c
<1>4. \A i \in Own(s, e) : s[i].for # "release"
  BY <1>0 DEF Sound, About, Own, Tracker
<1>5. Sound(v, e, t)
  BY <1>0, <1>1, <1>2, <1>3, <1>4, AddSound
<1>6. Tracking(v, e, t)
  <2>1. Newest(v, e, v.lease[e].res)
    BY <1>0 DEF Sound, Holding
  <2>2. Hot(v, e, t) => v.key[e].res # 0
    BY <1>5, HotKey
  <2>. QED BY <2>1, <2>2 DEF Tracking, Tracked, Newest
<1>. QED BY <1>5, <1>6 DEF EditorInv

\* An active lease of an editor that was lost unexpectedly.
LEMMA SweepInv ==
    ASSUME NEW v, NEW w, NEW e, NEW R, NEW s \in Seq(R), NEW t, NEW a \in Answers, EditorInv(v, e, s),
           v.lease[e].res # 0, v.conn[e] # "open", Elsewhere(v, w),
           w.lease[e] = NoLease, w.parked[e] = v.parked[e], w.queued[e] = v.queued[e],
           Adds(s, t, e, Command(e, "detach", v.lease[e], "detach", a))
    PROVE  EditorInv(w, e, t)
<1> DEFINE c == Command(e, "detach", v.lease[e], "detach", a)
<1>0. Sound(v, e, s) /\ Tracking(v, e, s)
  BY DEF EditorInv
<1>1. Sound(w, e, s)
  BY <1>0, MovesSound
<1>2. \A i \in Own(s, e) : s[i].op # "reserve"
  BY <1>0 DEF Sound, About, Own
<1>3. v.lease[e].res \in 1 .. w.drawn /\ w.lease[e].res = 0 /\ w.conn[e] # "open"
  BY <1>0 DEF Sound, Holding, Elsewhere, NoLease, Lease
<1>4. Told(w, e, v.lease[e]) /\ Newest(w, e, v.lease[e].res)
  BY <1>0, ElsewhereSame DEF Sound, Holding
<1>5. Sound(w, e, t)
  BY <1>1, <1>2, <1>3, <1>4, AddTracker
<1>6. Tracking(w, e, t)
  <2> SUFFICES ASSUME w.conn[e] # "crashed", Hot(w, e, t) PROVE Tracked(w, e, t)
      BY DEF Tracking
  <2>1. /\ \A i \in Own(s, e) : i \in Own(t, e) /\ t[i] = s[i]
        /\ \E i \in Own(t, e) : Tracker(t[i]) /\ t[i].res = v.lease[e].res
    BY DEF Adds, Command, Tracker
  <2>2. Hot(v, e, s)
    <3>1. Hot(v, e, t)
      BY ElsewhereSame
    <3>. QED BY <3>1 DEF Hot, Adds, Command
  <2>3. Tracked(v, e, s)
    BY <1>0, <2>2 DEF Tracking, Elsewhere
  <2>. QED BY <2>1, <2>3 DEF Tracked, Elsewhere
<1>. QED BY <1>5, <1>6 DEF EditorInv

-----------------------------------------------------------------------------
(* Redis executes a command of an editor                                   *)

\* The answer says what is so.
LEMMA AnswerInv ==
    ASSUME NEW v, NEW e, NEW s, NEW t, EditorInv(v, e, s), DOMAIN t = DOMAIN s,
           NEW k \in DOMAIN s, \A i \in DOMAIN s \ {k} : t[i] = s[i],
           NEW a,
           s[k].of = e => /\ s[k].op = "activate" /\ a = "ok" => Started(v, e, s[k].res)
                          /\ s[k].op \in {"detach", "release"} /\ a = "ok" => Over(v, e, s[k].res)
                          /\ s[k].op = "reserve" /\ s[k].for = "call" /\ a \in {"elected", "follows"} =>
                                Newest(v, e, s[k].res),
           /\ t[k].of = s[k].of /\ t[k].op = s[k].op /\ t[k].for = s[k].for
           /\ t[k].res = s[k].res /\ t[k].phase = s[k].phase /\ t[k].answer = a
    PROVE  EditorInv(v, e, t)
<1>1. /\ Own(t, e) = Own(s, e)
      /\ \A i \in Own(s, e) : /\ t[i].of = s[i].of /\ t[i].op = s[i].op /\ t[i].for = s[i].for
                              /\ t[i].res = s[i].res /\ t[i].phase = s[i].phase
                              /\ i # k => t[i].answer = s[i].answer
  BY DEF Own
<1>2. \A i \in Own(s, e) : Tracker(t[i]) <=> Tracker(s[i])
  BY <1>1 DEF Tracker
<1>3. Hot(v, e, t) <=> Hot(v, e, s)
  BY <1>1 DEF Hot
<1>4. ASSUME NEW i \in Own(s, e) PROVE About(v, t[i])
  <2>1. About(v, s[i]) /\ s[i].of = e
    BY DEF EditorInv, Sound, Own
  <2>2. Told(v, e, t[i])
    BY <1>1, <2>1 DEF About, Told
  <2>3. CASE i # k
    BY <2>1, <2>3 DEF Own
  <2>4. CASE i = k
    BY <1>1, <1>2, <2>1, <2>2, <2>4 DEF About
  <2>. QED BY <2>3, <2>4
<1>5. ASSUME NEW i \in Own(s, e), NEW j \in Own(s, e), i < j PROVE Before(t[i], t[j])
  <2>1. Before(s[i], s[j])
    BY <1>5 DEF EditorInv, Sound
  <2>. QED BY <1>1, <1>2, <2>1 DEF Before
<1>6. Sound(v, e, t)
  BY <1>1, <1>3, <1>4, <1>5 DEF EditorInv, Sound, Cooled
<1>7. Tracking(v, e, t)
  BY <1>1, <1>2, <1>3 DEF EditorInv, Tracking, Tracked
<1>. QED BY <1>6, <1>7 DEF EditorInv

\* A reservation is asked for once, and by no other command.
LEMMA OwnReservation ==
    ASSUME NEW v, NEW e, NEW R, NEW s \in Seq(R), Sound(v, e, s), NEW k \in Own(s, e),
           NEW i \in Own(s, e) \ {k}, "reserve" \in {s[i].op, s[k].op}
    PROVE  s[i].res # s[k].res
<1>1. i < k \/ k < i
  BY DEF Own
<1>. QED BY <1>1 DEF Sound, Before

\* Nothing but the key.
KeyOnly(v, w, e) ==
    /\ w.lease[e] = v.lease[e] /\ w.queued[e] = v.queued[e] /\ w.parked[e] = v.parked[e]
    /\ w.conn[e] = v.conn[e] /\ w.busy = v.busy /\ w.drawn = v.drawn

LEMMA GrantedInv ==
    ASSUME NEW v, NEW w, NEW e, NEW R, NEW s \in Seq(R), EditorInv(v, e, s), InOrder(s),
           NEW k \in Own(s, e), s[k].op = "reserve", s[k].answer = "none",
           KeyOnly(v, w, e), w.key[e].phase = "pending", w.key[e].res = s[k].res
    PROVE  EditorInv(w, e, s) /\ Newest(w, e, s[k].res)
<1>0. Sound(v, e, s) /\ About(v, s[k]) /\ s[k].of = e /\ v.drawn \in Nat
  BY DEF EditorInv, Sound, Own, Holding
<1>1. /\ v.lease[e].res = 0 /\ v.parked[e].res = 0 /\ v.queued[e].res # s[k].res
      /\ s[k].res \in 1 .. v.drawn /\ s[k].res \in 0 .. v.drawn /\ s[k].res # 0 /\ s[k].phase = "pending"
  BY <1>0 DEF About
<1>2. \A i \in Own(s, e) \ {k} : s[i].res # s[k].res
  BY <1>0, OwnReservation
<1>3. \A m : m # s[k].res => Started(w, e, m) /\ Over(w, e, m)
  BY DEF Started, Over
<1>4. \A i \in Own(s, e) : s[i].for # "detach" /\ (s[i].for = "call" => s[i].answer \notin {"elected", "follows"})
  <2>1. ASSUME NEW i \in Own(s, e), i # k
        PROVE  s[i].for # "detach" /\ (s[i].for = "call" => s[i].answer \notin {"elected", "follows"})
    <3>1. CASE i < k
      BY <1>0, <3>1 DEF Sound, Before
    <3>2. CASE k < i
      <4>1. s[i].for # "detach"
        BY <1>0, <3>2 DEF Sound, Before, Tracker
      <4>2. s[i].answer \in {"none", "rejected"}
        BY <3>2 DEF InOrder, Own
      <4>. QED BY <4>1, <4>2
    <3>. QED BY <2>1, <3>1, <3>2 DEF Own
  <2>2. s[k].for # "detach"
    BY <1>0 DEF About, Tracker
  <2>. QED BY <2>1, <2>2
<1>5. Holding(w, e)
  <2>1. Told(w, e, w.lease[e]) /\ Told(w, e, w.parked[e]) /\ Told(w, e, w.queued[e])
    <3>1. w.lease[e].res # s[k].res /\ w.parked[e].res # s[k].res /\ w.queued[e].res # s[k].res
      BY <1>1 DEF KeyOnly
    <3>. QED BY <1>3, <3>1 DEF Told
  <2>2. {w.key[e].res, w.lease[e].res, w.queued[e].res, w.parked[e].res} \subseteq 0 .. w.drawn
    BY <1>0, <1>1 DEF Sound, Holding, KeyOnly
  <2>. QED BY <1>0, <1>1, <2>1, <2>2 DEF Holding, KeyOnly
<1>6. ASSUME NEW i \in Own(s, e) PROVE About(w, s[i])
  <2>1. About(v, s[i]) /\ s[i].of = e
    BY <1>0 DEF Sound, Own
  <2>2. CASE i # k
    <3>1. s[i].res # s[k].res
      BY <1>2, <2>2
    <3>2. Told(w, e, s[i]) /\ Started(w, e, s[i].res) /\ Over(w, e, s[i].res) /\ w.key[e].res # s[i].res
      BY <1>3, <3>1 DEF Told
    <3>. QED BY <1>4, <2>1, <3>2 DEF About, KeyOnly
  <2>3. CASE i = k
    <3>1. Told(w, e, s[k])
      BY <1>1 DEF Told
    <3>. QED BY <1>0, <1>4, <2>3, <3>1 DEF About, KeyOnly, Tracker
  <2>. QED BY <2>2, <2>3
<1>7. ~Hot(w, e, s)
  <2>1. \A i \in Own(s, e) : s[i].op = "activate" => s[i].res # s[k].res
    BY <1>2
  <2>. QED BY <2>1 DEF Hot
<1>8. Sound(w, e, s)
  BY <1>0, <1>5, <1>6, <1>7 DEF Sound, Cooled
<1>9. Tracking(w, e, s) /\ Newest(w, e, s[k].res)
  BY <1>7 DEF Tracking, Newest
<1>10. EditorInv(w, e, s)
  BY <1>8, <1>9 DEF EditorInv
<1>. QED BY <1>9, <1>10

\* A lease is activated, or detached.
LEMMA ScriptInv ==
    ASSUME NEW v, NEW w, NEW e, NEW R, NEW s \in Seq(R), EditorInv(v, e, s),
           NEW k \in Own(s, e), s[k].op # "reserve", KeyOnly(v, w, e), e \in w.members => e \in v.members,
           v.key[e].res = s[k].res, w.key[e].res = s[k].res,
           \/ s[k].op = "activate" /\ v.key[e].phase = "pending" /\ w.key[e].phase = "active"
           \/ w.key[e].phase = "detached"
    PROVE  /\ EditorInv(w, e, s) /\ Started(w, e, s[k].res)
           /\ w.key[e].phase = "detached" => Over(w, e, s[k].res)
<1>0. Sound(v, e, s) /\ Tracking(v, e, s) /\ v.key[e].res # 0
  <2>1. Sound(v, e, s) /\ Tracking(v, e, s)
    BY DEF EditorInv
  <2>. QED BY <2>1, EachAbout
<1>1. \A i \in Own(s, e) : s[i].op = "reserve" => s[i].res # s[k].res
  BY <1>0, OwnReservation
<1>2. \A n : /\ Started(w, e, n)
             /\ Over(v, e, n) => Over(w, e, n)
             /\ Newest(v, e, n) => Newest(w, e, n)
  BY DEF Started, Over, Newest
<1>3. \A l : Told(v, e, l) => Told(w, e, l)
  BY <1>2 DEF Told
<1>4. Holding(w, e)
  <2>1. {w.key[e].res, w.lease[e].res, w.queued[e].res, w.parked[e].res} \subseteq 0 .. w.drawn
    BY <1>0 DEF Sound, Holding, KeyOnly
  <2>. QED BY <1>0, <1>2, <1>3, <2>1 DEF Sound, Holding, KeyOnly
<1>5. ASSUME NEW i \in Own(s, e) PROVE About(w, s[i])
  <2>1. About(v, s[i]) /\ s[i].of = e
    BY <1>0 DEF Sound, Own
  <2>2. s[i].op = "reserve" => w.key[e].res # s[i].res
    BY <1>1
  <2>. QED BY <1>2, <1>3, <2>1, <2>2 DEF About, KeyOnly
<1>6. Hot(w, e, s) => Hot(v, e, s)
  BY DEF Hot
<1>7. Sound(w, e, s)
  BY <1>0, <1>2, <1>4, <1>5, <1>6 DEF Sound, Cooled
<1>8. Tracking(w, e, s)
  BY <1>0, <1>6 DEF Tracking, Tracked, KeyOnly
<1>9. w.key[e].phase = "detached" => Over(w, e, s[k].res)
  BY DEF Over
<1>. QED BY <1>2, <1>7, <1>8, <1>9 DEF EditorInv

\* A release that is refused is of a lease that is over.
LEMMA RefusedOver ==
    ASSUME NEW v, NEW c, About(v, c), c.phase \in {"pending", "active", "detached"},
           ~(v.key[c.of].phase = c.phase /\ v.key[c.of].res = c.res),
           ~(v.key[c.of].res = c.res /\ c.phase = "pending")
    PROVE  Over(v, c.of, c.res)
  BY DEF About, Told, Started, Over

-----------------------------------------------------------------------------
(* The order of answers                                                    *)

\* t is what is left of s.
Remains(s, t) ==
    \E f : \A i \in DOMAIN t : /\ f[i] \in DOMAIN s
                               /\ t[i].of = s[f[i]].of /\ t[i].op = s[f[i]].op
                               /\ t[i].res = s[f[i]].res /\ t[i].answer = s[f[i]].answer
                               /\ \A j \in DOMAIN t : i < j => f[i] < f[j]

LEMMA PipeRemains ==
    ASSUME NEW v, NEW r, NEW s, NEW t, PipeInv(v, r, s), Remains(s, t)
    PROVE  PipeInv(v, r, t)
<1> PICK f : \A i \in DOMAIN t : /\ f[i] \in DOMAIN s
                                 /\ t[i].of = s[f[i]].of /\ t[i].op = s[f[i]].op
                                 /\ t[i].res = s[f[i]].res /\ t[i].answer = s[f[i]].answer
                                 /\ \A j \in DOMAIN t : i < j => f[i] < f[j]
    BY DEF Remains
<1>1. \A i \in DOMAIN t : t[i].of \in On(r)
  BY DEF PipeInv
<1>2. InOrder(t)
  <2>1. ASSUME NEW i \in DOMAIN t, NEW j \in DOMAIN t, i < j, t[j].answer \notin {"none", "rejected"}
        PROVE  t[i].answer # "none"
    <3>1. f[i] \in DOMAIN s /\ f[j] \in DOMAIN s /\ f[i] < f[j] /\ s[f[j]].answer \notin {"none", "rejected"}
      BY <2>1
    <3>2. s[f[i]].answer # "none"
      BY <3>1 DEF PipeInv, InOrder
    <3>. QED BY <3>2
  <2>. QED BY <2>1 DEF InOrder
<1>3. Revoking(v, r, t)
  <2> SUFFICES ASSUME NEW i \in DOMAIN t, t[i].answer = "revoked"
               PROVE  /\ \A e \in On(r) : Bereft(v, e, v.lease[e].res)
                      /\ \A j \in DOMAIN t : j < i /\ t[j].op = "reserve" => Bereft(v, t[j].of, t[j].res)
      BY DEF Revoking
  <2>1. /\ \A e \in On(r) : Bereft(v, e, v.lease[e].res)
        /\ \A j \in DOMAIN s : j < f[i] /\ s[j].op = "reserve" => Bereft(v, s[j].of, s[j].res)
    BY DEF PipeInv, Revoking
  <2>. QED BY <2>1
<1>. QED BY <1>1, <1>2, <1>3 DEF PipeInv

LEMMA WhatRemains ==
    ASSUME NEW R, NEW s \in Seq(R)
    PROVE  /\ Remains(s, s)
           /\ s # <<>> => Remains(s, Tail(s))
           /\ \A k \in DOMAIN s : Remains(s, RemoveAt(s, k))
<1>1. Remains(s, s)
  <2> DEFINE f == [i \in DOMAIN s |-> i]
  <2>1. \A i \in DOMAIN s : /\ f[i] \in DOMAIN s
                             /\ s[i].of = s[f[i]].of /\ s[i].op = s[f[i]].op
                             /\ s[i].res = s[f[i]].res /\ s[i].answer = s[f[i]].answer
                             /\ \A j \in DOMAIN s : i < j => f[i] < f[j]
    OBVIOUS
  <2>. QED BY <2>1 DEF Remains
<1>2. ASSUME s # <<>> PROVE Remains(s, Tail(s))
  <2> DEFINE t == Tail(s)
             f == [i \in DOMAIN t |-> i + 1]
  <2>1. /\ DOMAIN s = 1 .. Len(s) /\ Len(s) \in Nat /\ DOMAIN t = 1 .. (Len(s) - 1)
        /\ \A i \in DOMAIN t : t[i] = s[i + 1]
    BY <1>2
  <2> HIDE DEF t
  <2>2. \A i \in DOMAIN t : /\ f[i] \in DOMAIN s
                             /\ t[i].of = s[f[i]].of /\ t[i].op = s[f[i]].op
                             /\ t[i].res = s[f[i]].res /\ t[i].answer = s[f[i]].answer
                             /\ \A j \in DOMAIN t : i < j => f[i] < f[j]
    BY <2>1
  <2>. QED BY <2>2 DEF Remains, t
<1>3. ASSUME NEW k \in DOMAIN s PROVE Remains(s, RemoveAt(s, k))
  <2> DEFINE t == RemoveAt(s, k)
             f == [i \in DOMAIN t |-> IF i < k THEN i ELSE i + 1]
  <2>1. /\ DOMAIN s = 1 .. Len(s) /\ Len(s) \in Nat /\ DOMAIN t = 1 .. (Len(s) - 1) /\ k \in 1 .. Len(s)
        /\ \A i \in DOMAIN t : t[i] = s[IF i < k THEN i ELSE i + 1]
    BY RemoveAtEffect
  <2> HIDE DEF t
  <2>2. \A i \in DOMAIN t : /\ f[i] \in DOMAIN s
                             /\ t[i].of = s[f[i]].of /\ t[i].op = s[f[i]].op
                             /\ t[i].res = s[f[i]].res /\ t[i].answer = s[f[i]].answer
                             /\ \A j \in DOMAIN t : i < j => f[i] < f[j]
    BY <2>1
  <2>. QED BY <2>2 DEF Remains, t
<1>. QED BY <1>1, <1>2, <1>3

LEMMA PipeGrows ==
    ASSUME NEW v, NEW r, NEW s, NEW t, PipeInv(v, r, s), Grows(s, t, r)
    PROVE  PipeInv(v, r, t)
<1>1. \A i \in DOMAIN t : t[i].of \in On(r)
  BY DEF PipeInv, Grows
<1>2. InOrder(t)
  BY DEF PipeInv, Grows, InOrder, Answers
<1>3. Revoking(v, r, t)
  <2>1. \A i \in DOMAIN t : t[i].answer = "revoked" => i \in DOMAIN s
    BY DEF Grows, Answers
  <2>. QED BY <2>1 DEF PipeInv, Revoking, Grows
<1>. QED BY <1>1, <1>2, <1>3 DEF PipeInv

\* Nothing but that a key may be gone, and a lease dropped.
Calms(v, w, r) ==
    \A e \in On(r) : /\ e \in w.members => e \in v.members
                     /\ w.key[e].res \in {v.key[e].res, 0}
                     /\ w.lease[e].res \in {v.lease[e].res, 0}

LEMMA PipeCalms ==
    ASSUME NEW v, NEW w, NEW r, NEW s, PipeInv(v, r, s), Calms(v, w, r)
    PROVE  PipeInv(w, r, s)
<1>1. \A e \in On(r) : /\ \A n : Bereft(v, e, n) => Bereft(w, e, n)
                       /\ Bereft(v, e, v.lease[e].res) => Bereft(w, e, w.lease[e].res)
  BY DEF Calms, Bereft
<1>. QED BY <1>1 DEF PipeInv, Revoking

-----------------------------------------------------------------------------
(* Steps of one replica                                                    *)

\* Others' editors, and their commands, are left alone.
LEMMA Lifts ==
    ASSUME RequestsInv, TrackInv, NEW r \in Replica,
           \A x \in Editor \ On(r) : Fades(View, View', x),
           \A q \in Replica \ {r} : sent'[q] = sent[q],
           \A x \in On(r) : EditorInv(View', x, sent'[r]),
           PipeInv(View', r, sent'[r])
    PROVE  TrackInv'
<1>1. ASSUME NEW x \in Editor PROVE EditorInv(View', x, sent'[Home[x]])
  <2>1. CASE x \in On(r)
    BY <2>1 DEF On
  <2>2. CASE x \notin On(r)
    <3>1. Home[x] \in Replica \ {r}
      BY <2>2, RoomsAssumption DEF On
    <3>2. EditorInv(View, x, sent[Home[x]])
      BY DEF TrackInv, EditorsInv
    <3>. QED BY <2>2, <3>1, <3>2, FadesInv
  <2>. QED BY <2>1, <2>2
<1>2. ASSUME NEW q \in Replica PROVE PipeInv(View', q, sent'[q])
  <2>1. CASE q = r
    BY <2>1
  <2>2. CASE q # r
    <3>1. PipeInv(View, q, sent[q])
      BY DEF TrackInv, PipesInv
    <3>2. Calms(View, View', q)
      <4>1. \A x \in On(q) : x \in Editor \ On(r)
        BY <2>2 DEF On
      <4>2. \A x \in On(q) : Fades(View, View', x)
        BY <4>1
      <4>. QED BY <4>2 DEF Calms, Fades
    <3>. QED BY <2>2, <3>1, <3>2, PipeCalms
  <2>. QED BY <2>1, <2>2
<1>3. EditorsInv'
  BY <1>1 DEF EditorsInv
<1>4. PipesInv'
  BY <1>2 DEF PipesInv
<1>. QED BY <1>3, <1>4 DEF TrackInv

Spares(s, t, x) == Thins(s, t, x) /\ KeepsTrackers(s, t, x)

LEMMA SparesInv ==
    ASSUME NEW v, NEW w, NEW x, NEW s, NEW p, NEW t, EditorInv(v, x, s), Fades(v, w, x),
           Spares(s, p, x), Passes(p, t, x)
    PROVE  EditorInv(w, x, t)
<1>1. EditorInv(v, x, p)
  BY ThinSound, ThinTracking DEF EditorInv, Spares
<1>. QED BY <1>1, PassesInv, FadesInv

\* A step leaves an editor alone.
Untouched(x) ==
    /\ lease'[x] = lease[x] /\ queued'[x] = queued[x] /\ parked'[x] = parked[x]
    /\ conn'[x] = conn[x] /\ (x \in busy => x \in busy')

LEMMA UntouchedFades ==
    ASSUME UNCHANGED storeVars, drawn' \in Nat, drawn <= drawn', NEW x, Untouched(x)
    PROVE  Fades(View, View', x)
  BY DEF storeVars, Untouched, Fades, View

\* What is left of what the replicas had sent, with nothing taken from editors besides S.
Left(p, r, S) ==
    /\ p \in Pipes
    /\ \A q \in Replica \ {r} : p[q] = sent[q]
    /\ PipeInv(View, r, p[r])
    /\ \A x \in On(r) \ S : Spares(sent[r], p[r], x)

\* A replica takes note of something about some of its editors.
LEMMA StepSome ==
    ASSUME RequestsInv, TrackInv, NEW r \in Replica, NEW S, S \subseteq On(r), NEW p,
           UNCHANGED storeVars, drawn' \in Nat, drawn <= drawn',
           \A x \in Editor \ S : Untouched(x),
           Left(p, r, S), Sends(p, sent', r, S),
           (\A x \in S : lease'[x].res \in {lease[x].res, 0}) \/ PipeInv(View', r, p[r]),
           \A x \in S : EditorInv(View', x, sent'[r])
    PROVE  TrackInv'
<1>1. \A x \in Editor \ S : Fades(View, View', x)
  BY UntouchedFades
<1>2. \A q \in Replica \ {r} : sent'[q] = sent[q]
  BY DEF Sends, Left
<1>3. ASSUME NEW x \in On(r) PROVE EditorInv(View', x, sent'[r])
  <2>1. CASE x \in S
    BY <2>1
  <2>2. CASE x \notin S
    <3>1. x \in Editor /\ Home[x] = r
      BY DEF On
    <3>2. EditorInv(View, x, sent[r])
      BY <3>1 DEF TrackInv, EditorsInv
    <3>3. Passes(p[r], sent'[r], x) /\ Spares(sent[r], p[r], x)
      BY <2>2 DEF Sends, Left
    <3>. QED BY <1>1, <2>2, <3>1, <3>2, <3>3, SparesInv
  <2>. QED BY <2>1, <2>2
<1>4. PipeInv(View', r, sent'[r])
  <2>1. PipeInv(View', r, p[r])
    <3>1. PipeInv(View, r, p[r])
      BY DEF Left
    <3>2. ASSUME \A x \in S : lease'[x].res \in {lease[x].res, 0} PROVE Calms(View, View', r)
      BY <3>2 DEF Calms, View, storeVars, Untouched, On
    <3>. QED BY <3>1, <3>2, PipeCalms
  <2>2. Grows(p[r], sent'[r], r)
    BY DEF Sends
  <2>. QED BY <2>1, <2>2, PipeGrows
<1>5. \A x \in Editor \ On(r) : Fades(View, View', x)
  BY <1>1 DEF On
<1>. QED BY <1>2, <1>3, <1>4, <1>5, Lifts

LEMMA SendsNothing ==
    ASSUME NEW p, NEW r, NEW S
    PROVE  Sends(p, p, r, S)
  BY DEF Sends, Grows, Passes

\* Where nothing of what was sent has been answered or given up.
LEMMA NothingRemoved ==
    ASSUME RequestsInv, NEW r \in Replica
    PROVE  /\ sent \in Pipes /\ sent[r] \in Seq(Request) /\ Remains(sent[r], sent[r])
           /\ \A x : Spares(sent[r], sent[r], x)
<1>1. sent \in Pipes /\ sent[r] \in Seq(Request)
  BY DEF RequestsInv, Pipes
<1>2. Remains(sent[r], sent[r])
  BY <1>1, WhatRemains
<1>3. ASSUME NEW x PROVE Spares(sent[r], sent[r], x)
  <2>1. DOMAIN sent[r] = 1 .. Len(sent[r]) /\ Len(sent[r]) \in Nat
    BY <1>1
  <2>2. \A i \in DOMAIN sent[r] : i \in Int /\ Weaker(sent[r][i], sent[r][i])
    BY <2>1 DEF Weaker
  <2>. QED BY <2>2, EachThins DEF Spares
<1>. QED BY <1>1, <1>2, <1>3

\* An answer is taken.
LEMMA AnswerTaken ==
    ASSUME RequestsInv, NEW r \in Replica, sent[r] # <<>>
    PROVE  /\ Answered(r) \in Pipes /\ Answered(r)[r] = Tail(sent[r]) /\ sent[r] \in Seq(Request)
           /\ \A q \in Replica \ {r} : Answered(r)[q] = sent[q]
           /\ Remains(sent[r], Tail(sent[r]))
           /\ \A x : Thins(sent[r], Tail(sent[r]), x)
           /\ \A x : x # Editing(r) \/ ~Tracker(sent[r][1]) => Spares(sent[r], Tail(sent[r]), x)
           /\ Head(sent[r]) = sent[r][1] /\ sent[r][1] \in Request /\ sent[r][1].of = Editing(r)
<1>1. sent[r] \in Seq(Request) /\ Answered(r) \in Pipes /\ Head(sent[r]) \in Request
  BY HeadTyped DEF RequestsInv, Pipes
<1>2. Answered(r)[r] = Tail(sent[r]) /\ \A q \in Replica \ {r} : Answered(r)[q] = sent[q]
  BY DEF Answered, RequestsInv, Pipes
<1>3. Remains(sent[r], Tail(sent[r]))
  BY <1>1, WhatRemains
<1>4. Head(sent[r]) = sent[r][1] /\ \A x : Thins(sent[r], Tail(sent[r]), x)
  BY <1>1, TailThins
<1>5. sent[r][1].of = Editing(r)
  BY <1>4 DEF Editing
<1>6. \A x : x # Editing(r) \/ ~Tracker(sent[r][1]) => Spares(sent[r], Tail(sent[r]), x)
  BY <1>1, <1>4, <1>5, TailThins DEF Spares
<1>. QED BY <1>1, <1>2, <1>3, <1>4, <1>5, <1>6

LEMMA NothingLeft ==
    ASSUME RequestsInv, TrackInv, NEW r \in Replica, NEW S
    PROVE  Left(sent, r, S) /\ sent[r] \in Seq(Request)
  BY NothingRemoved DEF Left, TrackInv, PipesInv

LEMMA AnswerLeft ==
    ASSUME RequestsInv, TrackInv, NEW r \in Replica, sent[r] # <<>>, NEW S,
           Editing(r) \in S \/ ~Tracker(sent[r][1])
    PROVE  Left(Answered(r), r, S)
<1>1. \A x \in On(r) \ S : Spares(sent[r], Tail(sent[r]), x)
  BY AnswerTaken
<1>2. PipeInv(View, r, Tail(sent[r]))
  BY AnswerTaken, PipeRemains DEF TrackInv, PipesInv
<1>. QED BY <1>1, <1>2, AnswerTaken DEF Left

\* A lease names a reservation, and none is no lease.
LEMMA NoneReserved ==
    ASSUME NEW l \in LeaseMap, NEW e \in Editor
    PROVE  /\ l[e] = NoLease <=> l[e].res = 0
           /\ l[e].phase # "none" => l[e] # NoLease
           /\ NoLease.res = 0
  BY DEF LeaseMap, MaybeLease, Reservation, NoLease, Lease

\* A lease is let go.
LEMMA LetGoSends ==
    ASSUME RequestsInv, NEW p \in Pipes, NEW r \in Replica, NEW e \in On(r), LetGo(p, e)
    PROVE  /\ Sends(p, sent', r, {e})
           /\ Frees(p[r], sent'[r], e, lease[e], "release")
           /\ lease'[e] = NoLease /\ lease'[e].res = 0 /\ \A x \in Editor \ {e} : lease'[x] = lease[x]
<1>0. e \in Editor /\ Home[e] = r
  BY DEF On
<1>1. lease'[e] = NoLease /\ lease'[e].res = 0 /\ \A x \in Editor \ {e} : lease'[x] = lease[x]
  BY <1>0 DEF LetGo, Forget, NoLease, Lease
<1> DEFINE S == {e} \cap Held(r)
<1>2. S \subseteq On(r) /\ S \subseteq {e}
  OBVIOUS
<1>3. sent' = SendOn(relay[r].linked, p, r, S, "release", lease, "release")
  BY <1>0 DEF LetGo, Send
<1>4. lease[e] = NoLease <=> lease[e].res = 0
  BY <1>0, NoneReserved DEF RequestsInv
<1>5. e \in S <=> lease[e].res # 0
  BY <1>0, <1>4 DEF Held
<1> HIDE DEF S
<1>6. /\ Sends(p, sent', r, S)
      /\ \A x \in S : \E a \in Answers : Adds(p[r], sent'[r], x, Command(x, "release", lease[x], "release", a))
  BY <1>2, <1>3, Sending
<1>7. Sends(p, sent', r, {e})
  BY <1>2, <1>6 DEF Sends
<1>8. Frees(p[r], sent'[r], e, lease[e], "release")
  BY <1>5, <1>6 DEF Frees, Sends
<1>. QED BY <1>1, <1>7, <1>8

\* What is known of an editor, and of what was sent about it.
LEMMA OfEditor ==
    ASSUME TrackInv, NEW e \in Editor
    PROVE  /\ Home[e] \in Replica /\ e \in On(Home[e])
           /\ EditorInv(View, e, sent[Home[e]]) /\ PipeInv(View, Home[e], sent[Home[e]])
  BY RoomsAssumption DEF TrackInv, EditorsInv, PipesInv, On

LEMMA OfReplica ==
    ASSUME TrackInv, NEW r \in Replica, NEW e \in On(r)
    PROVE  e \in Editor /\ Home[e] = r /\ EditorInv(View, e, sent[r]) /\ PipeInv(View, r, sent[r])
  BY DEF TrackInv, EditorsInv, PipesInv, On

-----------------------------------------------------------------------------
(* Frames                                                                  *)

\* Nothing happens to any lease.
LEMMA QuietStep ==
    ASSUME RequestsInv, TrackInv, UNCHANGED <<storeVars, lease, parked, queued, busy, conn, sent, drawn>>
    PROVE  TrackInv'
<1>1. View' = View
  BY DEF View, storeVars
<1>2. EditorsInv' /\ PipesInv'
  BY <1>1 DEF TrackInv, EditorsInv, PipesInv
<1>. QED BY <1>2 DEF TrackInv

LEMMA LetGoStep ==
    ASSUME RequestsInv, TrackInv, NEW e \in Editor, LetGo(sent, e),
           UNCHANGED <<storeVars, parked, queued, busy, conn, drawn>>
    PROVE  TrackInv'
<1> DEFINE r == Home[e]
<1>1. r \in Replica /\ e \in On(r) /\ EditorInv(View, e, sent[r])
  BY OfEditor
<1> HIDE DEF r
<1>2. Left(sent, r, {e}) /\ sent \in Pipes /\ sent[r] \in Seq(Request) /\ drawn \in Nat
  BY <1>1, NothingLeft DEF RequestsInv
<1>3. /\ Sends(sent, sent', r, {e}) /\ Frees(sent[r], sent'[r], e, lease[e], "release")
      /\ lease'[e] = NoLease /\ lease'[e].res = 0 /\ \A x \in Editor \ {e} : lease'[x] = lease[x]
  BY <1>1, <1>2, LetGoSends
<1>4. Elsewhere(View, View')
  BY DEF Elsewhere, View, storeVars
<1>5. EditorInv(View', e, sent'[r])
  <2>1. /\ View'.lease[e] = NoLease /\ View'.parked[e] = View.parked[e] /\ View'.queued[e] = View.queued[e]
        /\ View.lease[e] = lease[e]
    BY <1>3 DEF View
  <2>. QED BY <1>1, <1>2, <1>3, <1>4, <2>1, LetGoInv
<1>6. \A x \in Editor \ {e} : Untouched(x)
  BY <1>3 DEF Untouched
<1>7. drawn' \in Nat /\ drawn <= drawn' /\ {e} \subseteq On(r)
  BY <1>1, <1>2
<1>. QED BY <1>1, <1>2, <1>3, <1>5, <1>6, <1>7, StepSome

\* A command about an editor may follow what was sent.
Takes(v, s, e, op, l, for) ==
    \A a \in Answers : \A t : Adds(s, t, e, Command(e, op, l[e], for, a)) => EditorInv(v, e, t)

\* A frame waits for the answer to a command about its editor.
LEMMA CallStep ==
    ASSUME RequestsInv, TrackInv, NEW e \in Editor, NEW op, NEW l,
           sent' = Send(sent, Home[e], {e}, op, l, "call"),
           UNCHANGED <<storeVars, lease, parked, queued, conn>>, busy' = busy \cup {e},
           drawn' \in Nat, drawn <= drawn', Takes(View', sent[Home[e]], e, op, l, "call")
    PROVE  TrackInv'
<1> DEFINE r == Home[e]
<1>1. r \in Replica /\ e \in On(r)
  BY OfEditor
<1> HIDE DEF r
<1>2. Left(sent, r, {e}) /\ sent \in Pipes /\ {e} \subseteq On(r)
  BY <1>1, NothingLeft DEF RequestsInv
<1>3. sent' = SendOn(relay[r].linked, sent, r, {e}, op, l, "call")
  BY DEF Send, r
<1>4. /\ Sends(sent, sent', r, {e})
      /\ \E a \in Answers : Adds(sent[r], sent'[r], e, Command(e, op, l[e], "call", a))
  BY <1>1, <1>2, <1>3, Sending
<1>5. \A x \in {e} : EditorInv(View', x, sent'[r]) /\ lease'[x].res \in {lease[x].res, 0}
  BY <1>4 DEF r, Takes
<1>6. \A x \in Editor \ {e} : Untouched(x)
  BY DEF Untouched
<1>7. UNCHANGED storeVars /\ drawn' \in Nat /\ drawn <= drawn'
  OBVIOUS
<1>8. Sends(sent, sent', r, {e})
  BY <1>4
<1>9. RequestsInv /\ TrackInv
  OBVIOUS
<1>. QED BY ONLY <1>1, <1>2, <1>5, <1>6, <1>7, <1>8, <1>9, StepSome

\* An editor that has an open connection, and what its connection's frames may count on.
LEMMA ReadyEditor ==
    ASSUME RequestsInv, TrackInv, NEW e \in Editor, Ready(e)
    PROVE  /\ conn[e] = "open" /\ e \notin busy
           /\ EditorInv(View, e, sent[Home[e]]) /\ sent[Home[e]] \in Seq(Request)
           /\ lease[e] # NoLease => lease[e].res # 0
           /\ lease[e].phase = "pending" => lease[e].res # 0
  BY OfEditor, NothingLeft, NoneReserved DEF Ready, RequestsInv

LEMMA ReserveStep ==
    ASSUME RequestsInv, TrackInv, NEW e \in Editor, NEW epoch, NEW sec, Reserve(e, epoch, sec)
    PROVE  TrackInv'
<1> DEFINE l == [NoLeases EXCEPT ![e] = Lease("pending", drawn + 1, epoch, sec)]
           s == sent[Home[e]]
<1>1. Ready(e) /\ lease[e] = NoLease /\ Queued(queued, Home[e]) = {}
  BY DEF Reserve, Admits
<1>2. conn[e] = "open" /\ e \notin busy /\ EditorInv(View, e, s)
  BY <1>1, ReadyEditor
<1>3. lease[e].res = 0 /\ queued[e].res = 0
  BY <1>1, OfEditor, NoneReserved DEF Queued, RequestsInv
<1>4. l[e].phase = "pending" /\ l[e].res = drawn + 1
  BY DEF NoLeases, Lease
<1>5. /\ UNCHANGED storeVars /\ UNCHANGED <<lease, parked, queued, conn>>
      /\ drawn' = drawn + 1 /\ busy' = busy \cup {e}
      /\ sent' = Send(sent, Home[e], {e}, "reserve", l, "call")
  BY DEF Reserve, bridgeVars
<1> HIDE DEF l, s
<1>6. Takes(View', s, e, "reserve", l, "call")
  <2> SUFFICES ASSUME NEW a \in Answers, NEW t, Adds(s, t, e, Command(e, "reserve", l[e], "call", a))
               PROVE  EditorInv(View', e, t)
      BY DEF Takes
  <2> DEFINE w == View'
  <2>1. /\ e \notin View.busy /\ View.conn[e] = "open" /\ View.lease[e].res = 0 /\ View.queued[e].res = 0
        /\ l[e].res = View.drawn + 1
    BY <1>2, <1>3, <1>4 DEF View
  <2>2. /\ w.key = View.key /\ w.members = View.members /\ w.conn = View.conn
        /\ w.busy = View.busy \cup {e} /\ w.drawn = View.drawn + 1
        /\ w.lease[e] = View.lease[e] /\ w.queued[e] = View.queued[e] /\ w.parked[e] = View.parked[e]
    BY <1>5 DEF View, storeVars
  <2> HIDE DEF w
  <2>3. EditorInv(w, e, t)
    BY <1>2, <1>4, <2>1, <2>2, ReservesInv
  <2>. QED BY <2>3 DEF w
<1>7. drawn' \in Nat /\ drawn <= drawn'
  BY <1>5 DEF RequestsInv
<1>. QED BY <1>5, <1>6, <1>7, CallStep DEF s

\* A frame asks about the lease the replica has.
LEMMA WaitingFrame ==
    ASSUME RequestsInv, TrackInv, NEW e \in Editor, Ready(e), UNCHANGED storeVars,
           UNCHANGED <<lease, parked, queued, conn, drawn>>, busy' = busy \cup {e}
    PROVE  /\ EditorInv(View', e, sent[Home[e]])
           /\ e \in View'.busy /\ \A i \in Own(sent[Home[e]], e) : sent[Home[e]][i].for # "call"
           /\ View'.lease[e] = lease[e] /\ drawn' \in Nat /\ drawn <= drawn'
<1>1. e \notin busy /\ EditorInv(View, e, sent[Home[e]])
  BY ReadyEditor
<1> DEFINE w == View'
<1>2. /\ e \notin View.busy /\ w.busy = View.busy \cup {e} /\ w.key = View.key /\ w.members = View.members
      /\ w.conn = View.conn /\ w.drawn = View.drawn /\ w.lease[e] = View.lease[e]
      /\ w.queued[e] = View.queued[e] /\ w.parked[e] = View.parked[e]
  BY <1>1 DEF View, storeVars
<1>3. View'.lease[e] = lease[e] /\ drawn' \in Nat /\ drawn <= drawn' /\ e \in View'.busy
  BY DEF View, RequestsInv
<1> HIDE DEF w
<1>4. EditorInv(w, e, sent[Home[e]]) /\ \A i \in Own(sent[Home[e]], e) : sent[Home[e]][i].for # "call"
  BY <1>1, <1>2, WaitsInv
<1>. QED BY <1>3, <1>4 DEF w

LEMMA RenewStep ==
    ASSUME RequestsInv, TrackInv, NEW e \in Editor, ReserveAgain(e)
    PROVE  TrackInv'
<1>1. CASE lease[e].phase = "active"
  BY <1>1, QuietStep DEF ReserveAgain, bridgeVars
<1>2. CASE lease[e].phase # "active"
  <2> DEFINE s == sent[Home[e]]
  <2>1. /\ Ready(e) /\ UNCHANGED storeVars /\ UNCHANGED <<lease, parked, queued, conn, drawn>>
        /\ busy' = busy \cup {e} /\ lease[e] # NoLease
        /\ sent' = Send(sent, Home[e], {e}, "refresh", lease, "call")
    BY <1>2 DEF ReserveAgain, bridgeVars
  <2>2. /\ EditorInv(View', e, s) /\ e \in View'.busy /\ \A i \in Own(s, e) : s[i].for # "call"
        /\ View'.lease[e] = lease[e] /\ drawn' \in Nat /\ drawn <= drawn'
    BY <2>1, WaitingFrame
  <2>3. lease[e].res # 0
    BY <2>1, ReadyEditor
  <2> HIDE DEF s
  <2>4. Takes(View', s, e, "refresh", lease, "call")
    BY <2>2, <2>3, RefreshInv DEF Takes
  <2>. QED BY <2>1, <2>2, <2>4, CallStep DEF s
<1>. QED BY <1>1, <1>2

LEMMA JoinStep ==
    ASSUME RequestsInv, TrackInv, NEW e \in Editor, Join(e)
    PROVE  TrackInv'
<1> DEFINE s == sent[Home[e]]
<1>1. /\ Ready(e) /\ UNCHANGED storeVars /\ UNCHANGED <<lease, parked, queued, conn, drawn>>
      /\ busy' = busy \cup {e} /\ lease[e].phase = "pending"
      /\ sent' = Send(sent, Home[e], {e}, "activate", lease, "call")
  BY DEF Join, bridgeVars
<1>2. /\ EditorInv(View', e, s) /\ e \in View'.busy /\ \A i \in Own(s, e) : s[i].for # "call"
      /\ View'.lease[e] = lease[e] /\ drawn' \in Nat /\ drawn <= drawn'
  BY <1>1, WaitingFrame
<1>3. lease[e].res # 0
  BY <1>1, ReadyEditor
<1> HIDE DEF s
<1>4. Takes(View', s, e, "activate", lease, "call")
  BY <1>1, <1>2, <1>3, JoinInv DEF Takes
<1>. QED BY <1>1, <1>2, <1>4, CallStep DEF s

LEMMA FrameTracks ==
    ASSUME RequestsInv, TrackInv, NEW e \in Editor, Frame(e)
    PROVE  TrackInv'
<1>1. ASSUME NEW l \in used, Reserve(e, l.epoch, l.sec) PROVE TrackInv'
  BY <1>1, ReserveStep
<1>2. CASE ReserveAgain(e)
  BY <1>2, RenewStep
<1>3. CASE Join(e)
  BY <1>3, JoinStep
<1>4. CASE JoinAgain(e)
  BY <1>4, QuietStep DEF JoinAgain, bridgeVars
<1>5. CASE ReserveRefused(e) \/ JoinDenied(e) \/ Leave(e)
  BY <1>5, LetGoStep DEF ReserveRefused, JoinDenied, Leave
<1>. QED BY <1>1, <1>2, <1>3, <1>4, <1>5 DEF Frame

-----------------------------------------------------------------------------
(* Timers and the end of a connection                                      *)

LEMMA ConnectionEndsStep ==
    ASSUME RequestsInv, TrackInv, NEW e \in Editor, NEW how, ConnectionEnds(e, how)
    PROVE  TrackInv'
<1> DEFINE r == Home[e]
<1>1. r \in Replica /\ e \in On(r) /\ EditorInv(View, e, sent[r])
  BY OfEditor
<1> HIDE DEF r
<1>2. Left(sent, r, {e}) /\ {e} \subseteq On(r) /\ Sends(sent, sent', r, {e})
  <2>1. sent' = sent
    BY DEF ConnectionEnds
  <2>. QED BY <1>1, <2>1, NothingLeft, SendsNothing
<1>3. /\ UNCHANGED storeVars /\ UNCHANGED <<lease, parked, queued, busy, sent, drawn>>
      /\ conn[e] = "open" /\ \A x \in Editor \ {e} : conn'[x] = conn[x]
  BY DEF ConnectionEnds, bridgeVars
<1>4. EditorInv(View', e, sent'[r])
  <2> DEFINE w == View'
  <2>1. /\ w.key[e] = View.key[e] /\ (e \in w.members <=> e \in View.members) /\ w.drawn = View.drawn
        /\ w.lease[e] = View.lease[e] /\ w.queued[e] = View.queued[e] /\ w.parked[e] = View.parked[e]
        /\ View.conn[e] = "open" /\ w.busy = View.busy
    BY <1>3 DEF View, storeVars
  <2>2. e \in w.busy \/ \A i \in Own(sent[r], e) : sent[r][i].for # "call"
    BY <1>1, <2>1 DEF EditorInv, Sound, About, Own
  <2> HIDE DEF w
  <2>3. EditorInv(w, e, sent[r])
    BY <1>1, <2>1, <2>2, SettlesInv
  <2>. QED BY <1>3, <2>3 DEF w
<1>5. \A x \in Editor \ {e} : Untouched(x)
  BY <1>3 DEF Untouched
<1>6. drawn' \in Nat /\ drawn <= drawn' /\ lease'[e].res = lease[e].res
  BY <1>3 DEF RequestsInv
<1>. QED BY <1>1, <1>2, <1>3, <1>4, <1>5, <1>6, StepSome

LEMMA SweepStep ==
    ASSUME RequestsInv, TrackInv, NEW e \in Editor, Sweep(e)
    PROVE  TrackInv'
<1> DEFINE r == Home[e]
           w == [View EXCEPT !.conn = conn']
<1>1. r \in Replica /\ e \in On(r) /\ EditorInv(View, e, sent[r])
  BY OfEditor
<1> HIDE DEF r
<1>2. Left(sent, r, {e}) /\ sent \in Pipes /\ sent[r] \in Seq(Request) /\ {e} \subseteq On(r)
  BY <1>1, NothingLeft DEF RequestsInv
<1>3. /\ UNCHANGED storeVars /\ UNCHANGED <<parked, queued, busy, drawn>> /\ e \notin busy
      /\ conn[e] \in {"lost", "ended"} /\ \A x \in Editor \ {e} : conn'[x] = conn[x]
  BY DEF Sweep
<1>4. conn'[e] # "open"
  <2>1. conn' = [conn EXCEPT ![e] = "swept"]
    BY DEF Sweep
  <2>. QED BY <1>3, <2>1
<1>5. EditorInv(w, e, sent[r])
  <2>1. /\ w.key = View.key /\ w.members = View.members /\ w.drawn = View.drawn
        /\ w.lease = View.lease /\ w.queued = View.queued /\ w.parked = View.parked
        /\ w.busy = View.busy /\ w.conn = conn'
        /\ View.conn[e] \in {"lost", "ended"} /\ e \notin View.busy
    BY <1>3 DEF View
  <2>2. \A i \in Own(sent[r], e) : sent[r][i].for # "call"
    BY <1>1, <2>1 DEF EditorInv, Sound, About, Own
  <2> HIDE DEF w
  <2>. QED BY <1>1, <1>4, <2>1, <2>2, SettlesInv
<1>6. Elsewhere(w, View') /\ View'.parked[e] = w.parked[e] /\ View'.queued[e] = w.queued[e]
      /\ w.lease[e] = lease[e] /\ View'.lease = lease' /\ w.conn[e] # "open"
  BY <1>3, <1>4 DEF Elsewhere, View, storeVars
<1> HIDE DEF w
<1>7. /\ Sends(sent, sent', r, {e}) /\ EditorInv(View', e, sent'[r])
      /\ lease'[e].res = 0 /\ \A x \in Editor \ {e} : lease'[x] = lease[x]
  <2>1. CASE conn[e] = "lost" /\ lease[e].phase = "active"
    <3>1. /\ lease' = Forget(lease, {e})
          /\ sent' = SendOn(relay[r].linked, sent, r, {e}, "detach", lease, "detach")
      BY <2>1 DEF Sweep, Send, r
    <3>2. /\ Sends(sent, sent', r, {e})
          /\ \E a \in Answers : Adds(sent[r], sent'[r], e, Command(e, "detach", lease[e], "detach", a))
      BY <1>1, <1>2, <3>1, Sending
    <3>3. lease[e].res # 0
      BY <2>1, NoneReserved DEF RequestsInv
    <3>4. lease'[e] = NoLease /\ lease'[e].res = 0 /\ \A x \in Editor \ {e} : lease'[x] = lease[x]
      BY <3>1 DEF Forget, NoLease, Lease
    <3>5. EditorInv(View', e, sent'[r])
      BY <1>2, <1>5, <1>6, <3>2, <3>3, <3>4, SweepInv
    <3>. QED BY <3>2, <3>4, <3>5
  <2>2. CASE ~(conn[e] = "lost" /\ lease[e].phase = "active")
    <3>1. LetGo(sent, e)
      BY <2>2 DEF Sweep
    <3>2. /\ Sends(sent, sent', r, {e}) /\ Frees(sent[r], sent'[r], e, lease[e], "release")
          /\ lease'[e] = NoLease /\ lease'[e].res = 0 /\ \A x \in Editor \ {e} : lease'[x] = lease[x]
      BY <1>1, <1>2, <3>1, LetGoSends
    <3>3. EditorInv(View', e, sent'[r])
      BY <1>2, <1>5, <1>6, <3>2, LetGoInv
    <3>. QED BY <3>2, <3>3
  <2>. QED BY <2>1, <2>2
<1>8. \A x \in Editor \ {e} : Untouched(x)
  BY <1>3, <1>7 DEF Untouched
<1>9. drawn' \in Nat /\ drawn <= drawn'
  BY <1>3 DEF RequestsInv
<1>. QED BY <1>1, <1>2, <1>3, <1>7, <1>8, <1>9, StepSome

LEMMA GraceStep ==
    ASSUME RequestsInv, TrackInv, NEW e \in Editor, GraceEnds(e)
    PROVE  TrackInv'
<1> DEFINE r == Home[e]
<1>1. r \in Replica /\ e \in On(r) /\ EditorInv(View, e, sent[r])
  BY OfEditor
<1> HIDE DEF r
<1>2. Left(sent, r, {e}) /\ sent \in Pipes /\ sent[r] \in Seq(Request) /\ {e} \subseteq On(r)
  BY <1>1, NothingLeft DEF RequestsInv
<1>3. /\ UNCHANGED storeVars /\ UNCHANGED <<lease, queued, busy, conn, drawn>>
      /\ parked[e].res # 0 /\ parked' = Forget(parked, {e})
      /\ sent' = SendOn(relay[r].linked, sent, r, {e}, "release", parked, "release")
  <2>1. parked[e].res # 0
    BY NoneReserved DEF GraceEnds, RequestsInv
  <2>. QED BY <2>1 DEF GraceEnds, registryVars, Send, r
<1>4. /\ Sends(sent, sent', r, {e})
      /\ \E a \in Answers : Adds(sent[r], sent'[r], e, Command(e, "release", parked[e], "release", a))
  BY <1>1, <1>2, <1>3, Sending
<1>5. Frees(sent[r], sent'[r], e, parked[e], "release")
  BY <1>3, <1>4 DEF Frees
<1>6. parked'[e] = NoLease /\ \A x \in Editor \ {e} : parked'[x] = parked[x]
  BY <1>3 DEF Forget
<1>7. EditorInv(View', e, sent'[r])
  <2>1. /\ Elsewhere(View, View') /\ View'.parked[e] = NoLease /\ View'.lease[e] = View.lease[e]
        /\ View'.queued[e] = View.queued[e] /\ View.parked[e] = parked[e]
    BY <1>3, <1>6 DEF Elsewhere, View, storeVars
  <2>. QED BY <1>1, <1>2, <1>5, <2>1, GraceInv
<1>8. \A x \in Editor \ {e} : Untouched(x)
  BY <1>3, <1>6 DEF Untouched
<1>9. UNCHANGED storeVars /\ drawn' \in Nat /\ drawn <= drawn' /\ lease'[e].res \in {lease[e].res, 0}
  BY <1>3 DEF RequestsInv
<1>10. Sends(sent, sent', r, {e})
  BY <1>4
<1>. QED BY <1>1, <1>2, <1>7, <1>8, <1>9, <1>10, StepSome

LEMMA ElapseTracks ==
    ASSUME RequestsInv, TrackInv, NEW e \in Editor, Elapse(e)
    PROVE  TrackInv'
<1>1. CASE SlotExpires(e) \/ LeaseLapses(e)
  BY <1>1, LetGoStep DEF SlotExpires, LeaseLapses, registryVars
<1>2. CASE MembershipLapses(e)
  BY <1>2, QuietStep DEF MembershipLapses, bridgeVars
<1>3. CASE ConnectionEnds(e, "lost") \/ ConnectionEnds(e, "ended")
  BY <1>3, ConnectionEndsStep
<1>4. CASE Sweep(e)
  BY <1>4, SweepStep
<1>5. CASE GraceEnds(e)
  BY <1>5, GraceStep
<1>. QED BY <1>1, <1>2, <1>3, <1>4, <1>5 DEF Elapse

-----------------------------------------------------------------------------
(* The heartbeat and the release of what is queued                         *)

LEMMA BeatStep ==
    ASSUME RequestsInv, TrackInv, NEW r \in Replica, Beat(r)
    PROVE  TrackInv'
<1>1. /\ UNCHANGED storeVars /\ UNCHANGED <<lease, parked, queued, busy, conn, drawn>>
      /\ sent' = SendOn(relay[r].linked, sent, r, Held(r), "refresh", lease, "beat")
  BY DEF Beat, bridgeVars, registryVars, Send
<1>2. Left(sent, r, Held(r)) /\ sent \in Pipes /\ Held(r) \subseteq On(r)
  BY NothingLeft DEF RequestsInv, Held
<1>3. /\ Sends(sent, sent', r, Held(r))
      /\ \A x \in Held(r) : \E a \in Answers :
            Adds(sent[r], sent'[r], x, Command(x, "refresh", lease[x], "beat", a))
  BY <1>1, <1>2, Sending
<1>4. View' = View
  BY <1>1 DEF View, storeVars
<1>5. ASSUME NEW x \in Held(r) PROVE EditorInv(View', x, sent'[r])
  <2>1. x \in Editor /\ EditorInv(View, x, sent[r])
    BY <1>2, OfReplica
  <2>2. View.lease[x] = lease[x] /\ lease[x].res # 0
    BY <2>1, NoneReserved DEF View, Held, RequestsInv
  <2>3. EditorInv(View, x, sent'[r])
    BY <1>3, <2>1, <2>2, RefreshInv
  <2>. QED BY <1>4, <2>3
<1>6. \A x \in Editor \ Held(r) : Untouched(x)
  BY <1>1 DEF Untouched
<1>7. drawn' \in Nat /\ drawn <= drawn' /\ \A x \in Held(r) : lease'[x].res \in {lease[x].res, 0}
  BY <1>1 DEF RequestsInv
<1>. QED BY <1>1, <1>2, <1>3, <1>5, <1>6, <1>7, StepSome

\* What is queued is released, or waits.
Batches(p, q, r, l) ==
    q = p \/ \E linked : q = SendOn(linked, p, r, Queued(l, r), "release", l, "cleanup")

LEMMA BatchSends ==
    ASSUME NEW p \in Pipes, NEW r \in Replica, NEW l \in LeaseMap, NEW q, Batches(p, q, r, l)
    PROVE  /\ Sends(p, q, r, On(r))
           /\ \A x \in On(r) : Passes(p[r], q[r], x) \/ Frees(p[r], q[r], x, l[x], "cleanup")
<1>1. CASE q = p
  BY <1>1, SendsNothing DEF Passes
<1>2. ASSUME NEW linked, q = SendOn(linked, p, r, Queued(l, r), "release", l, "cleanup")
      PROVE  /\ Sends(p, q, r, On(r))
             /\ \A x \in On(r) : Passes(p[r], q[r], x) \/ Frees(p[r], q[r], x, l[x], "cleanup")
  <2> DEFINE S == Queued(l, r)
  <2>1. S \subseteq On(r)
    BY DEF Queued
  <2>2. \A x \in On(r) : x \in S => l[x].res # 0
    BY NoneReserved DEF Queued, On
  <2> HIDE DEF S
  <2>3. /\ Sends(p, q, r, S)
        /\ \A x \in S : \E a \in Answers : Adds(p[r], q[r], x, Command(x, "release", l[x], "cleanup", a))
    BY <1>2, <2>1, Sending DEF S
  <2>4. Sends(p, q, r, On(r))
    BY <2>1, <2>3 DEF Sends
  <2>5. \A x \in On(r) : Passes(p[r], q[r], x) \/ Frees(p[r], q[r], x, l[x], "cleanup")
    BY <2>2, <2>3 DEF Frees, Sends
  <2>. QED BY <2>4, <2>5
<1>. QED BY <1>1, <1>2 DEF Batches

LEMMA CleanupStep ==
    ASSUME RequestsInv, TrackInv, NEW r \in Replica, NEW p, Left(p, r, On(r)),
           queued' \in LeaseMap, Batches(p, sent', r, queued'),
           UNCHANGED storeVars, drawn' = drawn,
           \A x \in Editor \ On(r) : Untouched(x),
           \A x \in On(r) : lease'[x].res \in {lease[x].res, 0},
           \A x \in On(r) : EditorInv(View', x, p[r])
    PROVE  TrackInv'
<1>1. /\ Sends(p, sent', r, On(r))
      /\ \A x \in On(r) : Passes(p[r], sent'[r], x) \/ Frees(p[r], sent'[r], x, queued'[x], "cleanup")
  BY BatchSends DEF Left
<1>2. ASSUME NEW x \in On(r) PROVE EditorInv(View', x, sent'[r])
  <2>1. View'.queued[x] = queued'[x] /\ EditorInv(View', x, p[r])
    BY DEF View
  <2>2. Passes(p[r], sent'[r], x) \/ Frees(p[r], sent'[r], x, View'.queued[x], "cleanup")
    BY <1>1, <2>1
  <2>. QED BY <2>1, <2>2, CleanupInv
<1>3. drawn' \in Nat /\ drawn <= drawn'
  BY DEF RequestsInv
<1>. QED BY <1>1, <1>2, <1>3, StepSome

\* No lease changes.
LEMMA RetryStep ==
    ASSUME RequestsInv, TrackInv, NEW r \in Replica, Batches(sent, sent', r, queued),
           UNCHANGED <<storeVars, lease, parked, queued, busy, conn, drawn>>
    PROVE  TrackInv'
<1>1. View' = View
  BY DEF View, storeVars
<1>2. Left(sent, r, On(r))
  BY NothingLeft
<1>3. \A x \in On(r) : EditorInv(View', x, sent[r])
  BY <1>1, OfReplica
<1>4. \A x \in Editor \ On(r) : Untouched(x)
  BY DEF Untouched
<1>5. queued' \in LeaseMap /\ Batches(sent, sent', r, queued')
  BY DEF RequestsInv
<1>. QED BY <1>2, <1>3, <1>4, <1>5, CleanupStep

-----------------------------------------------------------------------------
(* The relay closes                                                        *)

\* What is known when the frames of some connections are done.
Settled(done) ==
    [key |-> key, members |-> members, lease |-> lease, queued |-> queued, parked |-> parked,
     conn |-> conn, busy |-> busy \ done, drawn |-> drawn]

LEMMA CloseStep ==
    ASSUME RequestsInv, TrackInv, NEW r \in Replica, NEW p, Left(p, r, On(r)),
           NEW linked, NEW ready, NEW subscribed, CloseRelay(p, r, linked, ready, subscribed),
           UNCHANGED <<storeVars, parked, conn, drawn>>,
           NEW done, done \subseteq On(r), busy' = busy \ done,
           \A x \in On(r) : EditorInv(Settled(done), x, p[r])
    PROVE  TrackInv'
<1> DEFINE q == [e \in Editor |-> IF e \in Held(r) THEN lease[e] ELSE queued[e]]
<1>1. queued' = q /\ lease' = Forget(lease, On(r)) /\ Batches(p, sent', r, q)
  BY DEF CloseRelay, Send, Batches
<1>2. q \in LeaseMap
  BY DEF LeaseMap, RequestsInv
<1>3. ASSUME NEW x \in On(r)
      PROVE  /\ lease'[x] = NoLease /\ lease'[x].res = 0
             /\ queued'[x] = IF lease[x].res # 0 THEN lease[x] ELSE queued[x]
  <2>1. x \in Editor /\ (x \in Held(r) <=> lease[x].res # 0)
    BY NoneReserved DEF Held, On, RequestsInv
  <2>2. lease'[x] = NoLease
    BY <1>1, <2>1 DEF Forget
  <2>3. q[x] = IF lease[x].res # 0 THEN lease[x] ELSE queued[x]
    BY <2>1
  <2>. QED BY <1>1, <2>2, <2>3 DEF NoLease, Lease
<1>4. \A x \in Editor \ On(r) : Untouched(x)
  <2>1. \A x \in Editor \ On(r) : lease'[x] = lease[x] /\ q[x] = queued[x]
    BY <1>1 DEF Forget, Held
  <2>. QED BY <1>1, <2>1 DEF Untouched
<1> HIDE DEF q
<1>5. ASSUME NEW x \in On(r) PROVE EditorInv(View', x, p[r])
  <2> DEFINE v == Settled(done)
             w == View'
  <2>1. /\ Elsewhere(v, w) /\ w.lease[x] = NoLease /\ w.parked[x] = v.parked[x]
        /\ w.queued[x] = IF v.lease[x].res # 0 THEN v.lease[x] ELSE v.queued[x]
    BY <1>3 DEF Elsewhere, Settled, View, storeVars
  <2>2. p[r] \in Seq(Request) /\ EditorInv(v, x, p[r])
    BY DEF Left, Pipes
  <2> HIDE DEF v, w
  <2>3. EditorInv(w, x, p[r])
    BY <2>1, <2>2, CloseInv
  <2>. QED BY <2>3 DEF w
<1>6. \A x \in On(r) : lease'[x].res \in {lease[x].res, 0}
  BY <1>3
<1>7. queued' \in LeaseMap /\ Batches(p, sent', r, queued')
  BY <1>1, <1>2
<1>. QED BY <1>4, <1>5, <1>6, <1>7, CleanupStep

LEMMA SubscriberStep ==
    ASSUME RequestsInv, TrackInv, NEW r \in Replica, SubscriberLost(r)
    PROVE  TrackInv'
<1>1. /\ CloseRelay(sent, r, relay[r].linked, relay[r].ready, FALSE)
      /\ UNCHANGED <<storeVars, parked, conn, drawn>> /\ busy' = busy \ {}
  BY DEF SubscriberLost
<1>2. Left(sent, r, On(r))
  BY NothingLeft
<1>3. \A x \in On(r) : EditorInv(Settled({}), x, sent[r])
  <2>1. Settled({}) = View
    BY DEF Settled, View
  <2>. QED BY <2>1, OfReplica
<1>. QED BY <1>1, <1>2, <1>3, CloseStep

\* Commands that were executed and not answered are sent again.
LEMMA DropStep ==
    ASSUME RequestsInv, TrackInv, NEW r \in Replica, ConnectionDrops(r)
    PROVE  TrackInv'
<1> DEFINE s == sent[r]
           again == [i \in DOMAIN s |-> [s[i] EXCEPT !.answer = IF @ = "rejected" THEN @ ELSE "none"]]
           p == [sent EXCEPT ![r] = again]
<1>1. /\ CloseRelay(p, r, FALSE, FALSE, relay[r].subscribed)
      /\ UNCHANGED <<storeVars, parked, conn, drawn>> /\ busy' = busy \ {}
  BY DEF ConnectionDrops, CommandsUnavailable
<1>2. s \in Seq(Request) /\ DOMAIN s = 1 .. Len(s) /\ Len(s) \in Nat
  BY DEF RequestsInv, Pipes
<1>3. ASSUME NEW i \in DOMAIN s
      PROVE  /\ i \in Int /\ again[i] \in Request /\ Weaker(s[i], again[i])
             /\ again[i].for = s[i].for /\ again[i].answer \in Answers /\ again[i].of = s[i].of
  <2> DEFINE c == s[i]
             d == [c EXCEPT !.answer = IF @ = "rejected" THEN @ ELSE "none"]
  <2>1. c \in Request /\ i \in Int /\ again[i] = d
    BY <1>2
  <2> HIDE DEF c
  <2>2. /\ d \in Request /\ d.of = c.of /\ d.op = c.op /\ d.phase = c.phase /\ d.res = c.res /\ d.for = c.for
        /\ d.answer \in Answers /\ d.answer \in {c.answer, "none"}
    BY <2>1 DEF Request, Answers
  <2> HIDE DEF d
  <2>3. Weaker(c, d)
    BY <2>2 DEF Weaker
  <2>. QED BY <2>1, <2>2, <2>3 DEF c
<1>4. again \in Seq(Request) /\ DOMAIN again = DOMAIN s
  <2>1. again \in [1 .. Len(s) -> Request]
    BY <1>2, <1>3
  <2>. QED BY <1>2, <2>1
<1>5. p \in Pipes /\ p[r] = again /\ \A q \in Replica \ {r} : p[q] = sent[q]
  BY <1>4 DEF RequestsInv, Pipes
<1> HIDE DEF s, again, p
<1>6. \A x : Spares(s, again, x)
  <2>1. \A x : \A i \in Own(s, x) : Tracker(s[i]) => again[i].for = s[i].for
    BY <1>3 DEF Own
  <2>2. \A i \in DOMAIN s : i \in Int /\ Weaker(s[i], again[i])
    BY <1>3
  <2>. QED BY <1>4, <2>1, <2>2, EachThins DEF Spares
<1>7. PipeInv(View, r, again)
  <2>1. \A i \in DOMAIN again : again[i].of \in On(r) /\ again[i].answer \in Answers
    BY <1>3, <1>4 DEF TrackInv, PipesInv, PipeInv, s
  <2>. QED BY <2>1 DEF PipeInv, InOrder, Revoking, Answers
<1>8. Left(p, r, On(r))
  BY <1>5, <1>7 DEF Left
<1>9. ASSUME NEW x \in On(r) PROVE EditorInv(Settled({}), x, p[r])
  <2>1. EditorInv(View, x, s)
    BY OfReplica DEF s
  <2>2. EditorInv(View, x, again)
    BY <1>6, <2>1, ThinSound, ThinTracking DEF EditorInv, Spares
  <2>3. Settled({}) = View
    BY DEF Settled, View
  <2>. QED BY <1>5, <2>2, <2>3
<1>10. {} \subseteq On(r)
  OBVIOUS
<1>. QED BY <1>1, <1>8, <1>9, <1>10, CloseStep

\* A process that died knows of no lease, and waits for no answer.
LEMMA CrashInv ==
    ASSUME NEW v, NEW w, NEW e, NEW s, Sound(v, e, s), \A i \in Own(s, e) : s[i].for = "nobody",
           w.key = v.key, w.members = v.members, w.drawn = v.drawn, w.conn[e] = "crashed",
           w.lease[e] = NoLease, w.queued[e] = NoLease, w.parked[e] = NoLease
    PROVE  EditorInv(w, e, s)
<1>0. NoLease.res = 0 /\ NoLease.phase = "none"
  BY DEF NoLease, Lease
<1>1. /\ \A n : /\ Started(w, e, n) <=> Started(v, e, n)
                /\ Over(w, e, n) <=> Over(v, e, n)
                /\ Newest(w, e, n) <=> Newest(v, e, n)
  BY DEF Started, Over, Newest
<1>2. \A l : Told(w, e, l) <=> Told(v, e, l)
  BY <1>1 DEF Told
<1>3. Holding(w, e)
  BY <1>0 DEF Sound, Holding, Told
<1>4. ASSUME NEW i \in Own(s, e) PROVE About(w, s[i])
  <2>1. About(v, s[i]) /\ s[i].of = e /\ s[i].for = "nobody" /\ s[i].res # 0
    BY DEF Sound, Own, About, Holding
  <2>. QED BY <1>0, <1>1, <1>2, <2>1 DEF About, Tracker
<1>5. Cooled(w, e, s) /\ Tracking(w, e, s)
  BY DEF Cooled, Tracking
<1>. QED BY <1>3, <1>4, <1>5 DEF EditorInv, Sound

LEMMA CrashStep ==
    ASSUME RequestsInv, TrackInv, NEW r \in Replica, Crash(r)
    PROVE  TrackInv'
<1> DEFINE s == sent[r]
           t == [i \in DOMAIN s |-> [s[i] EXCEPT !.for = "nobody"]]
<1>1. /\ UNCHANGED storeVars /\ drawn' = drawn /\ busy' = busy \ On(r)
      /\ lease' = Forget(lease, On(r)) /\ parked' = Forget(parked, On(r)) /\ queued' = Forget(queued, On(r))
      /\ conn' = [e \in Editor |-> IF e \in On(r) THEN "crashed" ELSE conn[e]]
  BY DEF Crash
<1>2. s \in Seq(Request) /\ DOMAIN s = 1 .. Len(s) /\ Len(s) \in Nat
  BY DEF RequestsInv, Pipes
<1>3. ASSUME NEW i \in DOMAIN s
      PROVE  /\ i \in Int /\ t[i] \in Request /\ Weaker(s[i], t[i]) /\ t[i].for = "nobody"
             /\ t[i].answer = s[i].answer /\ t[i].of = s[i].of /\ t[i].op = s[i].op /\ t[i].res = s[i].res
  <2> DEFINE c == s[i]
             d == [c EXCEPT !.for = "nobody"]
  <2>1. c \in Request /\ i \in Int /\ t[i] = d
    BY <1>2
  <2> HIDE DEF c
  <2>2. /\ d \in Request /\ d.of = c.of /\ d.op = c.op /\ d.phase = c.phase /\ d.res = c.res
        /\ d.for = "nobody" /\ d.answer = c.answer
    BY <2>1 DEF Request
  <2> HIDE DEF d
  <2>3. Weaker(c, d)
    BY <2>2 DEF Weaker
  <2>. QED BY <2>1, <2>2, <2>3 DEF c
<1>4. t \in Seq(Request) /\ DOMAIN t = DOMAIN s
  <2>1. t \in [1 .. Len(s) -> Request]
    BY <1>2, <1>3
  <2>. QED BY <1>2, <2>1
<1>5. sent' \in Pipes /\ sent'[r] = t /\ \A q \in Replica \ {r} : sent'[q] = sent[q]
  <2>1. sent' = [sent EXCEPT ![r] = t]
    BY DEF Crash, RequestsInv, Pipes
  <2>. QED BY <1>4, <2>1 DEF RequestsInv, Pipes
<1> HIDE DEF s, t
<1>6. PipeInv(View, r, t)
  <2> DEFINE f == [i \in DOMAIN s |-> i]
  <2>1. \A i \in DOMAIN t : /\ f[i] \in DOMAIN s
                             /\ t[i].of = s[f[i]].of /\ t[i].op = s[f[i]].op
                             /\ t[i].res = s[f[i]].res /\ t[i].answer = s[f[i]].answer
                             /\ \A j \in DOMAIN t : i < j => f[i] < f[j]
    BY <1>3, <1>4
  <2>2. Remains(s, t)
    BY <2>1 DEF Remains
  <2>. QED BY <2>2, PipeRemains DEF TrackInv, PipesInv, s
<1>7. Left(sent', r, On(r)) /\ Sends(sent', sent', r, On(r))
  BY <1>5, <1>6, SendsNothing DEF Left
<1>8. ASSUME NEW x \in On(r)
      PROVE  EditorInv(View', x, t)
  <2>1. x \in Editor /\ Sound(View, x, s)
    BY OfReplica DEF EditorInv, s
  <2>2. \A i \in DOMAIN s : i \in Int /\ Weaker(s[i], t[i])
    BY <1>3
  <2>3. Sound(View, x, t)
    BY <1>4, <2>1, <2>2, EachThins, ThinSound
  <2>4. \A i \in Own(t, x) : t[i].for = "nobody"
    BY <1>3, <1>4 DEF Own
  <2> DEFINE w == View'
  <2>5. /\ w.key = View.key /\ w.members = View.members /\ w.drawn = View.drawn /\ w.conn[x] = "crashed"
        /\ w.lease[x] = NoLease /\ w.queued[x] = NoLease /\ w.parked[x] = NoLease
    BY <1>1, <2>1 DEF View, storeVars, Forget
  <2> HIDE DEF w
  <2>6. EditorInv(w, x, t)
    BY <2>3, <2>4, <2>5, CrashInv
  <2>. QED BY <2>6 DEF w
<1>9. \A x \in Editor \ On(r) : Untouched(x)
  BY <1>1 DEF Untouched, Forget
<1>10. \A x \in On(r) : lease'[x].res \in {lease[x].res, 0}
  BY <1>1 DEF Forget, NoLease, Lease, On
<1>11. UNCHANGED storeVars /\ drawn' \in Nat /\ drawn <= drawn'
  BY <1>1 DEF RequestsInv
<1>12. \A x \in On(r) : EditorInv(View', x, sent'[r])
  BY <1>5, <1>8
<1>. QED BY <1>7, <1>9, <1>10, <1>11, <1>12, StepSome

LEMMA RelayTracks ==
    ASSUME RequestsInv, TrackInv, NEW r \in Replica,
           \/ Beat(r) \/ RetryCleanup(r) \/ CommandsReady(r) \/ Resubscribed(r) \/ Crash(r)
           \/ ConnectionDrops(r) \/ SubscriberLost(r)
    PROVE  TrackInv'
<1>1. CASE Beat(r)
  BY <1>1, BeatStep
<1>2. CASE RetryCleanup(r)
  <2>1. Batches(sent, sent', r, queued) /\ UNCHANGED <<storeVars, lease, parked, queued, busy, conn, drawn>>
    BY <1>2 DEF RetryCleanup, Batches, Send, registryVars
  <2>. QED BY <2>1, RetryStep
<1>3. CASE CommandsReady(r)
  <2>1. Batches(sent, sent', r, queued) /\ UNCHANGED <<storeVars, lease, parked, queued, busy, conn, drawn>>
    BY <1>3 DEF CommandsReady, Batches, registryVars
  <2>. QED BY <2>1, RetryStep
<1>4. CASE Resubscribed(r)
  BY <1>4, QuietStep DEF Resubscribed, registryVars
<1>5. CASE Crash(r)
  BY <1>5, CrashStep
<1>6. CASE ConnectionDrops(r)
  BY <1>6, DropStep
<1>7. CASE SubscriberLost(r)
  BY <1>7, SubscriberStep
<1>. QED BY <1>1, <1>2, <1>3, <1>4, <1>5, <1>6, <1>7

-----------------------------------------------------------------------------
(* A command fails                                                         *)

\* The replica waits no longer for the command at k; p is what it has sent then.
Dropped(p, r, k) ==
    LET s == sent[r]
        e == s[k].of
    IN  /\ p \in Pipes /\ (\A q \in Replica \ {r} : p[q] = sent[q])
        /\ PipeInv(View, r, p[r])
        /\ \A x : Thins(s, p[r], x)
        /\ \A x : x # e \/ ~Tracker(s[k]) => Spares(s, p[r], x)
        /\ KeepsOthers(s, p[r], e, k)
        /\ \A i \in Own(p[r], e) : p[r][i].for = "call" => \E j \in Own(s, e) \ {k} : s[j].for = "call"

LEMMA RemovedDropped ==
    ASSUME RequestsInv, TrackInv, NEW r \in Replica, NEW k \in DOMAIN sent[r]
    PROVE  Dropped(Without(r, k), r, k)
<1> DEFINE s == sent[r]
           t == RemoveAt(s, k)
           e == s[k].of
<1>1. s \in Seq(Request) /\ Without(r, k) \in Pipes
  BY EachTyped DEF RequestsInv, Pipes
<1>2. Without(r, k)[r] = t /\ \A q \in Replica \ {r} : Without(r, k)[q] = sent[q]
  BY DEF Without, RequestsInv, Pipes
<1>3. PipeInv(View, r, t)
  <2>1. Remains(s, t)
    BY <1>1, WhatRemains
  <2>. QED BY <2>1, PipeRemains DEF TrackInv, PipesInv
<1>4. k \in DOMAIN s
  OBVIOUS
<1> HIDE DEF s
<1>5. \A x : /\ Thins(s, t, x)
             /\ x # e \/ ~Tracker(s[k]) => Spares(s, t, x)
  <2>1. ASSUME NEW x PROVE Thins(s, t, x) /\ (x # e \/ ~Tracker(s[k]) => Spares(s, t, x))
    BY <1>1, <1>4, RemoveThins DEF Spares
  <2>. QED BY <2>1
<1>6. /\ \A i \in Own(s, e) : i # k => \E j \in Own(t, e) : t[j] = s[i]
      /\ \A i \in Own(t, e) : \E j \in Own(s, e) \ {k} : t[i] = s[j]
  BY <1>1, <1>4, RemoveThins
<1> HIDE DEF t, e
<1>7. KeepsOthers(s, t, e, k)
  <2>1. ASSUME NEW i \in Own(s, e) \ {k}, Tracker(s[i])
        PROVE  \E j \in Own(t, e) : Tracker(t[j]) /\ t[j].res = s[i].res
    <3>1. PICK j \in Own(t, e) : t[j] = s[i]
      BY <1>6, <2>1
    <3>. QED BY <2>1, <3>1
  <2>. QED BY <2>1 DEF KeepsOthers
<1>. QED BY <1>1, <1>2, <1>3, <1>5, <1>6, <1>7 DEF Dropped, s, e

LEMMA AbandonedDropped ==
    ASSUME RequestsInv, TrackInv, NEW r \in Replica, NEW k \in DOMAIN sent[r]
    PROVE  Dropped([sent EXCEPT ![r][k].for = "nobody"], r, k)
<1> DEFINE s == sent[r]
           p == [sent EXCEPT ![r][k].for = "nobody"]
           t == p[r]
           e == s[k].of
<1>1. s \in Seq(Request) /\ p \in Pipes /\ DOMAIN s = 1 .. Len(s) /\ Len(s) \in Nat
  <2>1. p \in Pipes
    BY EachTyped DEF RequestsInv
  <2>2. s \in Seq(Request)
    BY DEF RequestsInv, Pipes
  <2>. QED BY <2>1, <2>2
<1>2. \A q \in Replica \ {r} : p[q] = sent[q]
  BY DEF RequestsInv, Pipes
<1>3. t = [s EXCEPT ![k].for = "nobody"]
  BY DEF RequestsInv, Pipes
<1> HIDE DEF s, p, t
<1>4. k \in DOMAIN s /\ s[k] \in Request
  BY <1>1 DEF s
<1>5. DOMAIN t = DOMAIN s /\ (\A i \in DOMAIN s : i # k => t[i] = s[i]) /\ t[k] = [s[k] EXCEPT !.for = "nobody"]
  BY <1>1, <1>3, <1>4
<1>6. /\ DOMAIN t = DOMAIN s /\ \A i \in DOMAIN s : i # k => t[i] = s[i]
      /\ t[k].of = s[k].of /\ t[k].op = s[k].op /\ t[k].phase = s[k].phase /\ t[k].res = s[k].res
      /\ t[k].for = "nobody" /\ t[k].answer = s[k].answer
  BY <1>4, <1>5 DEF Request
<1>7. \A i \in DOMAIN s : i \in Int /\ Weaker(s[i], t[i])
  BY <1>1, <1>6 DEF Weaker
<1>8. \A x : /\ Thins(s, t, x)
             /\ x # e \/ ~Tracker(s[k]) => Spares(s, t, x)
  <2>1. ASSUME NEW x PROVE Thins(s, t, x) /\ (x # e \/ ~Tracker(s[k]) => Spares(s, t, x))
    <3>1. Thins(s, t, x) /\ ((\A i \in Own(s, x) : Tracker(s[i]) => t[i].for = s[i].for) => KeepsTrackers(s, t, x))
      BY <1>6, <1>7, EachThins
    <3>2. x # e \/ ~Tracker(s[k]) => \A i \in Own(s, x) : Tracker(s[i]) => t[i].for = s[i].for
      BY <1>6 DEF Own
    <3>. QED BY <3>1, <3>2 DEF Spares
  <2>. QED BY <2>1
<1>9. PipeInv(View, r, t)
  <2> DEFINE f == [i \in DOMAIN s |-> i]
  <2>1. \A i \in DOMAIN t : /\ f[i] \in DOMAIN s
                             /\ t[i].of = s[f[i]].of /\ t[i].op = s[f[i]].op
                             /\ t[i].res = s[f[i]].res /\ t[i].answer = s[f[i]].answer
                             /\ \A j \in DOMAIN t : i < j => f[i] < f[j]
    BY <1>6
  <2>2. Remains(s, t)
    BY <2>1 DEF Remains
  <2>. QED BY <2>2, PipeRemains DEF TrackInv, PipesInv, s
<1>10. KeepsOthers(s, t, e, k)
  BY <1>6 DEF KeepsOthers, Own
<1>11. \A i \in Own(t, e) : t[i].for = "call" => \E j \in Own(s, e) \ {k} : s[j].for = "call"
  BY <1>6 DEF Own
<1> HIDE DEF e
<1>12. p \in Pipes /\ (\A q \in Replica \ {r} : p[q] = sent[q]) /\ p[r] = t
  BY <1>1, <1>2 DEF t
<1>. QED BY <1>8, <1>9, <1>10, <1>11, <1>12 DEF Dropped, s, e, p

\* The connection's frame is done, and the relay closes.
LEMMA FailedCall ==
    ASSUME RequestsInv, TrackInv, NEW r \in Replica, NEW k \in DOMAIN sent[r], NEW p, Dropped(p, r, k),
           sent[r][k].for \in {"call", "beat"}, Fails(sent[r][k], p, r)
    PROVE  TrackInv'
<1> DEFINE s == sent[r]
           e == s[k].of
           done == IF s[k].for = "call" THEN {e} ELSE {}
<1>1. /\ CloseRelay(p, r, relay[r].linked, FALSE, relay[r].subscribed)
      /\ UNCHANGED <<storeVars, parked, conn, drawn>> /\ busy' = busy \ done
  BY DEF Fails, CommandsUnavailable
<1>2. s \in Seq(Request) /\ e \in On(r) /\ done \subseteq On(r) /\ k \in Own(s, e)
  BY DEF RequestsInv, Pipes, TrackInv, PipesInv, PipeInv, Own
<1>3. /\ ~Tracker(s[k]) /\ (\A x : Spares(s, p[r], x))
      /\ \A i \in Own(p[r], e) : p[r][i].for = "call" => \E j \in Own(s, e) \ {k} : s[j].for = "call"
  BY DEF Tracker, Dropped
<1>4. Left(p, r, On(r))
  BY DEF Left, Dropped
<1> HIDE DEF s, e
<1>5. ASSUME NEW x \in On(r) PROVE EditorInv(Settled(done), x, p[r])
  <2>1. EditorInv(View, x, s)
    BY OfReplica DEF s
  <2>2. EditorInv(View, x, p[r])
    BY <1>3, <2>1, ThinSound, ThinTracking DEF EditorInv, Spares
  <2> DEFINE w == Settled(done)
  <2>3. /\ w.key = View.key /\ w.members = View.members /\ w.drawn = View.drawn /\ w.lease = View.lease
        /\ w.queued = View.queued /\ w.parked = View.parked /\ w.conn = View.conn
        /\ w.busy = View.busy \ done
    BY DEF Settled, View
  <2>4. x \in w.busy \/ \A i \in Own(p[r], x) : p[r][i].for # "call"
    <3>1. CASE x \in done
      <4>1. x = e /\ s[k].for = "call"
        BY <3>1
      <4>2. \A j \in Own(s, e) \ {k} : s[j].for # "call"
        BY <1>2, <2>1, <4>1, OneCall DEF EditorInv
      <4>. QED BY <1>3, <4>1, <4>2
    <3>2. CASE x \notin done
      <4>1. \A i \in Own(p[r], x) : p[r][i].for = "call" => x \in View.busy
        BY <2>2 DEF EditorInv, Sound, About, Own
      <4>. QED BY <2>3, <3>2, <4>1
    <3>. QED BY <3>1, <3>2
  <2> HIDE DEF w
  <2>5. EditorInv(w, x, p[r])
    BY <2>2, <2>3, <2>4, SettlesInv
  <2>. QED BY <2>5 DEF w
<1> HIDE DEF done
<1>. QED BY <1>1, <1>2, <1>4, <1>5, CloseStep

LEMMA FailedRelease ==
    ASSUME RequestsInv, TrackInv, NEW r \in Replica, NEW k \in DOMAIN sent[r], NEW p, Dropped(p, r, k),
           sent[r][k].for = "release", Fails(sent[r][k], p, r)
    PROVE  TrackInv'
<1> DEFINE s == sent[r]
           e == s[k].of
<1>1. /\ queued' = [queued EXCEPT ![e] = LeaseOf(s[k])] /\ sent' = p
      /\ UNCHANGED storeVars /\ UNCHANGED <<lease, parked, busy, conn, drawn>>
  BY DEF Fails, Requeue, registryVars
<1>2. s \in Seq(Request) /\ e \in On(r) /\ {e} \subseteq On(r) /\ k \in Own(s, e) /\ e \in Editor
  BY DEF RequestsInv, Pipes, TrackInv, PipesInv, PipeInv, Own, On
<1>3. Left(p, r, {e}) /\ Sends(p, sent', r, {e}) /\ Thins(s, p[r], e)
  BY <1>1, SendsNothing DEF Left, Dropped
<1>4. EditorInv(View, e, s) /\ s[k].for = "release"
  BY <1>2, OfReplica DEF s
<1>5. queued'[e] = LeaseOf(s[k]) /\ \A x \in Editor \ {e} : queued'[x] = queued[x]
  BY <1>1, <1>2 DEF RequestsInv, LeaseMap
<1> HIDE DEF s, e
<1>6. EditorInv(View', e, sent'[r])
  <2>1. /\ Elsewhere(View, View') /\ View'.lease[e] = View.lease[e] /\ View'.parked[e] = View.parked[e]
        /\ View'.queued[e] = LeaseOf(s[k])
    BY <1>1, <1>5 DEF Elsewhere, View, storeVars
  <2>2. EditorInv(View', e, p[r])
    BY <1>2, <1>3, <1>4, <2>1, RequeueInv
  <2>. QED BY <1>1, <2>2
<1>7. \A x \in Editor \ {e} : Untouched(x)
  BY <1>1, <1>5 DEF Untouched
<1>8. UNCHANGED storeVars /\ drawn' \in Nat /\ drawn <= drawn' /\ lease'[e].res \in {lease[e].res, 0}
  BY <1>1 DEF RequestsInv
<1>. QED BY <1>2, <1>3, <1>6, <1>7, <1>8, StepSome

LEMMA FailedDetach ==
    ASSUME RequestsInv, TrackInv, NEW r \in Replica, NEW k \in DOMAIN sent[r], NEW p, Dropped(p, r, k),
           sent[r][k].for = "detach", DetachFails(sent[r][k], p, r)
    PROVE  TrackInv'
<1> DEFINE s == sent[r]
           e == s[k].of
           l == [NoLeases EXCEPT ![e] = LeaseOf(s[k])]
<1>1. /\ sent' = SendOn(relay[r].linked, p, r, {e}, "release", l, "release")
      /\ UNCHANGED storeVars /\ UNCHANGED <<lease, queued, parked, busy, conn, drawn>>
  BY DEF DetachFails, Send, registryVars, bridgeVars
<1>2. s \in Seq(Request) /\ e \in On(r) /\ {e} \subseteq On(r) /\ k \in Own(s, e) /\ e \in Editor
  BY DEF RequestsInv, Pipes, TrackInv, PipesInv, PipeInv, Own, On
<1>3. Left(p, r, {e}) /\ p \in Pipes /\ Thins(s, p[r], e) /\ KeepsOthers(s, p[r], e, k)
  BY DEF Left, Dropped
<1>4. EditorInv(View, e, s) /\ s[k].for = "detach"
  BY <1>2, OfReplica DEF s
<1>5. l[e] = LeaseOf(s[k])
  BY <1>2 DEF NoLeases
<1> HIDE DEF s, e, l
<1>6. /\ Sends(p, sent', r, {e})
      /\ \E a \in Answers : Adds(p[r], sent'[r], e, Command(e, "release", l[e], "release", a))
  BY <1>1, <1>2, <1>3, Sending
<1>7. Frees(p[r], sent'[r], e, LeaseOf(s[k]), "release")
  <2>1. s[k].res # 0
    BY <1>2, <1>4, EachAbout DEF EditorInv
  <2>2. LeaseOf(s[k]).res # 0
    BY <2>1 DEF LeaseOf, Lease
  <2>. QED BY <1>5, <1>6, <2>2 DEF Frees
<1>8. EditorInv(View', e, sent'[r])
  <2>1. View' = View
    BY <1>1 DEF View, storeVars
  <2>2. EditorInv(View, e, sent'[r])
    BY <1>2, <1>3, <1>4, <1>7, DetachFailsInv
  <2>. QED BY <2>1, <2>2
<1>9. \A x \in Editor \ {e} : Untouched(x)
  BY <1>1 DEF Untouched
<1>10. UNCHANGED storeVars /\ drawn' \in Nat /\ drawn <= drawn' /\ lease'[e].res \in {lease[e].res, 0}
  BY <1>1 DEF RequestsInv
<1>11. Sends(p, sent', r, {e})
  BY <1>6
<1>. QED BY <1>2, <1>3, <1>8, <1>9, <1>10, <1>11, StepSome

LEMMA FailedCleanup ==
    ASSUME RequestsInv, TrackInv, NEW r \in Replica, NEW k \in DOMAIN sent[r], NEW p, Dropped(p, r, k),
           sent[r][k].for = "cleanup", Fails(sent[r][k], p, r)
    PROVE  TrackInv'
<1>1. /\ Batches(p, sent', r, queued) /\ queued' = queued
      /\ UNCHANGED storeVars /\ UNCHANGED <<lease, parked, busy, conn, drawn>>
  BY DEF Fails, BatchStep, Batches, Send, registryVars
<1>2. (\A x : Spares(sent[r], p[r], x)) /\ Left(p, r, On(r))
  BY DEF Dropped, Tracker, Left
<1>3. ASSUME NEW x \in On(r) PROVE EditorInv(View', x, p[r])
  <2>1. EditorInv(View, x, sent[r])
    BY OfReplica
  <2>2. EditorInv(View, x, p[r])
    BY <1>2, <2>1, ThinSound, ThinTracking DEF EditorInv, Spares
  <2>3. View' = View
    BY <1>1 DEF View, storeVars
  <2>. QED BY <2>2, <2>3
<1>4. \A x \in Editor \ On(r) : Untouched(x)
  BY <1>1 DEF Untouched
<1>5. \A x \in On(r) : lease'[x].res \in {lease[x].res, 0}
  BY <1>1
<1>6. queued' \in LeaseMap /\ Batches(p, sent', r, queued') /\ UNCHANGED storeVars /\ drawn' = drawn
  BY <1>1 DEF RequestsInv
<1>. QED BY <1>2, <1>3, <1>4, <1>5, <1>6, CleanupStep

LEMMA FailsTracks ==
    ASSUME RequestsInv, TrackInv, NEW r \in Replica, NEW k \in DOMAIN sent[r], NEW p, Dropped(p, r, k),
           Fails(sent[r][k], p, r)
    PROVE  TrackInv'
<1>1. sent[r][k].for \in {"call", "beat", "release", "detach", "cleanup"}
  BY DEF Fails
<1>2. CASE sent[r][k].for \in {"call", "beat"}
  BY <1>2, FailedCall
<1>3. CASE sent[r][k].for = "release"
  BY <1>3, FailedRelease
<1>4. CASE sent[r][k].for = "detach"
  <2>1. DetachFails(sent[r][k], p, r)
    BY <1>4 DEF Fails
  <2>. QED BY <1>4, <2>1, FailedDetach
<1>5. CASE sent[r][k].for = "cleanup"
  BY <1>5, FailedCleanup
<1>. QED BY <1>1, <1>2, <1>3, <1>4, <1>5

LEMMA FailureTracks ==
    ASSUME RequestsInv, TrackInv, NEW r \in Replica, Rejected(r) \/ GiveUp(r)
    PROVE  TrackInv'
<1>1. PICK k \in DOMAIN sent[r] : \/ Fails(sent[r][k], Without(r, k), r)
                                  \/ Fails(sent[r][k], [sent EXCEPT ![r][k].for = "nobody"], r)
  BY DEF Rejected, GiveUp
<1>. QED BY <1>1, RemovedDropped, AbandonedDropped, FailsTracks

-----------------------------------------------------------------------------
(* An answer arrives                                                       *)

\* What is so when it does.
LEMMA AnswerAbout ==
    ASSUME RequestsInv, TrackInv, NEW r \in Replica, sent[r] # <<>>
    PROVE  /\ Editing(r) \in On(r) /\ Editing(r) \in Editor /\ {Editing(r)} \subseteq On(r)
           /\ Head(sent[r]) = sent[r][1] /\ sent[r][1].of = Editing(r)
           /\ sent[r] \in Seq(Request) /\ sent[r][1] \in Request
           /\ 1 \in DOMAIN sent[r] /\ 1 \in Own(sent[r], Editing(r)) /\ About(View, sent[r][1])
           /\ EditorInv(View, Editing(r), sent[r])
           /\ Answered(r)[r] = Tail(sent[r]) /\ Answered(r) \in Pipes /\ Tail(sent[r]) \in Seq(Request)
<1>1. /\ Head(sent[r]) = sent[r][1] /\ sent[r][1].of = Editing(r) /\ sent[r] \in Seq(Request)
      /\ sent[r][1] \in Request /\ Answered(r)[r] = Tail(sent[r]) /\ Answered(r) \in Pipes
  BY AnswerTaken
<1>2. 1 \in DOMAIN sent[r] /\ 1 \in Own(sent[r], Editing(r))
  BY <1>1, TailThins DEF Own
<1>3. Editing(r) \in On(r)
  BY <1>1, <1>2 DEF TrackInv, PipesInv, PipeInv
<1>4. EditorInv(View, Editing(r), sent[r])
  BY <1>3, OfReplica
<1>5. About(View, sent[r][1])
  BY <1>2, <1>4 DEF EditorInv, Sound
<1>6. Tail(sent[r]) \in Seq(Request)
  BY <1>1
<1>. QED BY <1>1, <1>2, <1>3, <1>4, <1>5, <1>6 DEF On

\* The frame that waited for the answer is done.
LEMMA CallDone ==
    ASSUME RequestsInv, TrackInv, NEW r \in Replica, sent[r] # <<>>, sent[r][1].for = "call"
    PROVE  /\ ~Tracker(sent[r][1])
           /\ \A x \in On(r) : EditorInv(Settled({Editing(r)}), x, Tail(sent[r]))
           /\ \A i \in Own(Tail(sent[r]), Editing(r)) : Tail(sent[r])[i].for # "call"
<1> DEFINE s == sent[r]
           e == Editing(r)
           t == Tail(s)
           w == Settled({e})
<1>1. /\ s \in Seq(Request) /\ 1 \in Own(s, e) /\ EditorInv(View, e, s) /\ s[1].for = "call"
      /\ s # <<>> /\ ~Tracker(s[1])
  BY AnswerAbout DEF Tracker
<1>2. \A x : Spares(s, t, x)
  BY <1>1, AnswerTaken
<1>3. \A i \in Own(t, e) : t[i].for # "call"
  <2>1. \A i \in Own(t, e) : i + 1 \in Own(s, e) /\ 1 < i + 1 /\ t[i] = s[i + 1]
    BY <1>1, TailThins
  <2>2. \A i \in Own(s, e) \ {1} : s[i].for # "call"
    BY <1>1, OneCall DEF EditorInv
  <2> HIDE DEF s, t, e
  <2>. QED BY <2>1, <2>2
<1>4. /\ w.key = View.key /\ w.members = View.members /\ w.drawn = View.drawn /\ w.lease = View.lease
      /\ w.queued = View.queued /\ w.parked = View.parked /\ w.conn = View.conn
      /\ w.busy = View.busy \ {e}
  BY DEF Settled, View
<1>5. \A x \in On(r) : EditorInv(View, x, s)
  BY OfReplica
<1> HIDE DEF s, t, e, w
<1>6. ASSUME NEW x \in On(r) PROVE EditorInv(w, x, t)
  <2>1. EditorInv(View, x, t)
    BY <1>2, <1>5, ThinSound, ThinTracking DEF EditorInv, Spares
  <2>2. x \in w.busy \/ \A i \in Own(t, x) : t[i].for # "call"
    <3>1. CASE x = e
      BY <1>3, <3>1
    <3>2. CASE x # e
      <4>1. \A i \in Own(t, x) : t[i].for = "call" => x \in View.busy
        BY <2>1 DEF EditorInv, Sound, About, Own
      <4>. QED BY <1>4, <3>2, <4>1
    <3>. QED BY <3>1, <3>2
  <2>. QED BY <1>4, <2>1, <2>2, SettlesInv
<1>. QED BY <1>1, <1>3, <1>6 DEF s, t, e, w

\* An answer that says nothing of the leases the replica has.
LEMMA HeardStep ==
    ASSUME RequestsInv, TrackInv, NEW r \in Replica, sent[r] # <<>>, ~Tracker(sent[r][1]),
           sent' = Answered(r), UNCHANGED <<storeVars, lease, parked, queued, busy, conn, drawn>>
    PROVE  TrackInv'
<1>1. Left(Answered(r), r, {}) /\ Sends(Answered(r), sent', r, {})
  BY AnswerLeft, SendsNothing
<1>2. \A x \in Editor \ {} : Untouched(x)
  BY DEF Untouched
<1>3. drawn' \in Nat /\ drawn <= drawn' /\ {} \subseteq On(r) /\ UNCHANGED storeVars
  BY DEF RequestsInv
<1>4. /\ \A x \in {} : lease'[x].res \in {lease[x].res, 0}
      /\ \A x \in {} : EditorInv(View', x, sent'[r])
  OBVIOUS
<1>. QED BY <1>1, <1>2, <1>3, <1>4, StepSome

\* The same of a frame's command.
LEMMA ToldStep ==
    ASSUME RequestsInv, TrackInv, NEW r \in Replica, sent[r] # <<>>, sent[r][1].for = "call",
           sent' = Answered(r), FrameDone(r), UNCHANGED <<storeVars, lease, parked, queued, conn, drawn>>
    PROVE  TrackInv'
<1> DEFINE e == Editing(r)
<1>1. /\ e \in On(r) /\ {e} \subseteq On(r) /\ Answered(r)[r] = Tail(sent[r])
      /\ EditorInv(Settled({e}), e, Tail(sent[r])) /\ ~Tracker(sent[r][1])
  BY AnswerAbout, CallDone
<1>2. Left(Answered(r), r, {e}) /\ Sends(Answered(r), sent', r, {e})
  BY AnswerLeft, SendsNothing
<1>3. busy' = busy \ {e}
  BY DEF FrameDone
<1> HIDE DEF e
<1>4. EditorInv(View', e, sent'[r])
  <2>1. View' = Settled({e})
    BY <1>3 DEF View, Settled, storeVars
  <2>. QED BY <1>1, <2>1
<1>5. \A x \in Editor \ {e} : Untouched(x)
  BY <1>3 DEF Untouched
<1>6. drawn' \in Nat /\ drawn <= drawn' /\ UNCHANGED storeVars /\ lease'[e].res \in {lease[e].res, 0}
  BY DEF RequestsInv
<1>. QED BY <1>1, <1>2, <1>4, <1>5, <1>6, StepSome

-----------------------------------------------------------------------------
(* Answers to frames                                                       *)

LEMMA KeepsReservation ==
    ASSUME RequestsInv, TrackInv, NEW r \in Replica, Arrives(r, "reserve", "call", {"elected", "follows"}),
           lease' = [lease EXCEPT ![Editing(r)] = LeaseOf(Head(sent[r]))], sent' = Answered(r),
           FrameDone(r), UNCHANGED <<storeVars, parked, queued, conn, drawn>>
    PROVE  TrackInv'
<1> DEFINE s == sent[r]
           e == Editing(r)
           w == [View' EXCEPT !.busy = busy]
<1>0. s # <<>> /\ s[1].for = "call" /\ s[1].op = "reserve" /\ s[1].answer \in {"elected", "follows"}
  BY AnswerAbout DEF Arrives
<1>1. /\ e \in On(r) /\ e \in Editor /\ {e} \subseteq On(r) /\ Answered(r)[r] = Tail(s)
      /\ s \in Seq(Request) /\ EditorInv(View, e, s) /\ Head(s) = s[1] /\ s[1].of = e
      /\ \A i \in Own(Tail(s), e) : Tail(s)[i].for # "call"
      /\ ~Tracker(s[1])
  BY <1>0, AnswerAbout, CallDone
<1>2. Left(Answered(r), r, {e}) /\ Sends(Answered(r), sent', r, {e})
  BY <1>0, AnswerLeft, SendsNothing
<1>3. /\ busy' = busy \ {e} /\ lease'[e] = LeaseOf(s[1])
      /\ \A x \in Editor \ {e} : lease'[x] = lease[x]
  BY <1>1 DEF FrameDone, RequestsInv, LeaseMap
<1> HIDE DEF e
<1>4. /\ Elsewhere(View, w) /\ w.lease[e] = LeaseOf(s[1])
      /\ w.parked[e] = View.parked[e] /\ w.queued[e] = View.queued[e]
  BY <1>3 DEF Elsewhere, View, storeVars
<1>5. EditorInv(w, e, Tail(s))
  <2>1. Promised(s, e)
    BY <1>0, <1>1 DEF Promised
  <2> HIDE DEF s, w
  <2>. QED BY <1>1, <1>4, <2>1, ReservedInv
<1>6. EditorInv(View', e, sent'[r])
  <2> DEFINE v == View'
  <2>1. /\ v.key = w.key /\ v.members = w.members /\ v.drawn = w.drawn
        /\ v.lease = w.lease /\ v.queued = w.queued /\ v.parked = w.parked /\ v.conn = w.conn
    BY DEF View
  <2> HIDE DEF v, w
  <2>2. EditorInv(v, e, Tail(s))
    BY <1>1, <1>5, <2>1, SettlesInv
  <2>. QED BY <1>1, <2>2 DEF v
<1>7. PipeInv(View', r, Answered(r)[r])
  <2> DEFINE t == Tail(s)
             v == View'
  <2>1. PipeInv(View, r, s) /\ PipeInv(View, r, t)
    BY <1>1, <1>2 DEF Left, TrackInv, PipesInv
  <2>2. \A i \in DOMAIN t : i + 1 \in DOMAIN s /\ 1 < i + 1 /\ t[i] = s[i + 1]
    BY <1>0, <1>1, TailThins DEF Own
  <2>3. 1 \in DOMAIN s
    BY <1>0, <1>1, TailThins
  <2>4. \A x \in On(r) : \A n : Bereft(v, x, n) <=> Bereft(View, x, n)
    BY DEF Bereft, View, storeVars
  <2>5. v.lease[e].res = s[1].res /\ \A x \in On(r) \ {e} : v.lease[x] = View.lease[x]
    <3>1. LeaseOf(s[1]).res = s[1].res
      BY DEF LeaseOf, Lease
    <3>. QED BY <1>3, <3>1 DEF View, On
  <2>6. s[1].op = "reserve" /\ s[1].of = e
    BY <1>0, <1>1
  <2> HIDE DEF v, t, s
  <2>7. ASSUME NEW i \in DOMAIN t, t[i].answer = "revoked"
        PROVE  /\ \A x \in On(r) : Bereft(v, x, v.lease[x].res)
               /\ \A j \in DOMAIN t : j < i /\ t[j].op = "reserve" => Bereft(v, t[j].of, t[j].res)
    <3>1. /\ \A x \in On(r) : Bereft(View, x, View.lease[x].res)
          /\ Bereft(View, e, s[1].res)
      BY <2>1, <2>2, <2>3, <2>6, <2>7 DEF PipeInv, Revoking
    <3>2. \A x \in On(r) : Bereft(v, x, v.lease[x].res)
      BY <2>4, <2>5, <3>1
    <3>3. \A j \in DOMAIN t : j < i /\ t[j].op = "reserve" => Bereft(View, t[j].of, t[j].res) /\ t[j].of \in On(r)
      BY <2>1, <2>7 DEF PipeInv, Revoking
    <3>. QED BY <2>4, <3>2, <3>3
  <2>8. PipeInv(v, r, t)
    BY <2>1, <2>7 DEF PipeInv, Revoking
  <2>. QED BY <1>1, <2>8 DEF v, t
<1>8. \A x \in Editor \ {e} : Untouched(x)
  BY <1>3 DEF Untouched
<1>9. drawn' \in Nat /\ drawn <= drawn' /\ UNCHANGED storeVars
  BY DEF RequestsInv
<1>10. {e} \subseteq On(r) /\ \A x \in {e} : EditorInv(View', x, sent'[r])
  BY <1>1, <1>6
<1> HIDE DEF w
<1>. QED BY <1>2, <1>7, <1>8, <1>9, <1>10, StepSome

LEMMA GivesUpReservation ==
    ASSUME RequestsInv, TrackInv, NEW r \in Replica, Arrives(r, "reserve", "call", {"elected", "follows"}),
           NEW l, l[Editing(r)] = LeaseOf(Head(sent[r])),
           sent' = Send(Answered(r), r, {Editing(r)}, "release", l, "release"),
           FrameDone(r), UNCHANGED <<storeVars, lease, parked, queued, conn, drawn>>
    PROVE  TrackInv'
<1> DEFINE s == sent[r]
           e == Editing(r)
<1>0. s # <<>> /\ s[1].for = "call" /\ s[1].op = "reserve" /\ s[1].answer \in {"elected", "follows"}
  BY AnswerAbout DEF Arrives
<1>1. /\ e \in On(r) /\ e \in Editor /\ {e} \subseteq On(r) /\ Answered(r)[r] = Tail(s)
      /\ s \in Seq(Request) /\ EditorInv(View, e, s) /\ Head(s) = s[1] /\ s[1].of = e
      /\ (\A i \in Own(Tail(s), e) : Tail(s)[i].for # "call")
      /\ ~Tracker(s[1]) /\ Answered(r) \in Pipes
  BY <1>0, AnswerAbout, CallDone
<1>2. Left(Answered(r), r, {e})
  BY <1>0, AnswerLeft
<1>3. busy' = busy \ {e} /\ sent' = SendOn(relay[r].linked, Answered(r), r, {e}, "release", l, "release")
  BY DEF FrameDone, Send
<1>4. l[e] = LeaseOf(s[1])
  BY <1>1
<1> HIDE DEF e
<1>5. /\ Sends(Answered(r), sent', r, {e})
      /\ \E a \in Answers : Adds(Tail(s), sent'[r], e, Command(e, "release", l[e], "release", a))
  <2> DEFINE p == Answered(r)
             linked == relay[r].linked
  <2>1. p \in Pipes /\ p[r] = Tail(s) /\ sent' = SendOn(linked, p, r, {e}, "release", l, "release")
    BY <1>1, <1>3
  <2>2. {e} \subseteq On(r) /\ e \in {e}
    BY <1>1
  <2> HIDE DEF p, s, linked
  <2>3. /\ Sends(p, sent', r, {e})
        /\ \E a \in Answers : Adds(p[r], sent'[r], e, Command(e, "release", l[e], "release", a))
    BY <2>1, <2>2, Sending
  <2>. QED BY <2>1, <2>3 DEF p
<1>6. Promised(s, e)
  BY <1>0, <1>1 DEF Promised
<1>7. Frees(Tail(s), sent'[r], e, LeaseOf(s[1]), "release")
  <2>1. LeaseOf(s[1]).res # 0
    BY <1>1, <1>6, PromisedAbout DEF EditorInv
  <2>. QED BY <1>4, <1>5, <2>1 DEF Frees
<1>8. EditorInv(View, e, sent'[r])
  BY <1>1, <1>6, <1>7, UnreservedInv
<1>9. EditorInv(View', e, sent'[r])
  <2>1. \A i \in Own(sent'[r], e) : sent'[r][i].for # "call"
    <3> DEFINE t == Tail(s)
               q == sent'[r]
    <3>1. \A i \in Own(t, e) : t[i].for # "call"
      BY <1>1
    <3>2. PICK a \in Answers : Adds(t, q, e, Command(e, "release", l[e], "release", a))
      BY <1>5
    <3> DEFINE c == Command(e, "release", l[e], "release", a)
    <3>3. c.for = "release"
      BY DEF Command
    <3> HIDE DEF t, q, c
    <3>4. Adds(t, q, e, c)
      BY <3>2 DEF c
    <3>5. \A i \in Own(q, e) : q[i].for # "call"
      BY <3>1, <3>3, <3>4 DEF Adds
    <3>. QED BY <3>5 DEF q
  <2> DEFINE v == View'
             t == sent'[r]
  <2>2. /\ v.key = View.key /\ v.members = View.members /\ v.drawn = View.drawn
        /\ v.lease = View.lease /\ v.queued = View.queued /\ v.parked = View.parked /\ v.conn = View.conn
    BY DEF View, storeVars
  <2> HIDE DEF v, t
  <2>3. EditorInv(v, e, t)
    BY <1>8, <2>1, <2>2, SettlesInv DEF t
  <2>. QED BY <2>3 DEF v, t
<1>10. \A x \in Editor \ {e} : Untouched(x)
  BY <1>3 DEF Untouched
<1>11. drawn' \in Nat /\ drawn <= drawn' /\ UNCHANGED storeVars /\ lease'[e].res \in {lease[e].res, 0}
  BY DEF RequestsInv
<1>12. Sends(Answered(r), sent', r, {e}) /\ {e} \subseteq On(r)
  BY <1>1, <1>5
<1>13. \A x \in {e} : EditorInv(View', x, sent'[r]) /\ lease'[x].res \in {lease[x].res, 0}
  BY <1>9, <1>11
<1> HIDE DEF s
<1>. QED BY <1>2, <1>10, <1>11, <1>12, <1>13, StepSome

LEMMA ReservedStep ==
    ASSUME RequestsInv, TrackInv, NEW r \in Replica, Reserved(r)
    PROVE  TrackInv'
<1> DEFINE l == [lease EXCEPT ![Editing(r)] = LeaseOf(Head(sent[r]))]
<1>1. /\ Arrives(r, "reserve", "call", {"elected", "follows"}) /\ FrameDone(r)
      /\ UNCHANGED <<storeVars, parked, queued, conn, drawn>>
  BY DEF Reserved
<1>2. \/ lease' = l /\ sent' = Answered(r)
      \/ lease' = lease /\ sent' = Send(Answered(r), r, {Editing(r)}, "release", l, "release")
  BY DEF Reserved
<1>3. CASE lease' = l /\ sent' = Answered(r)
  BY <1>1, <1>3, KeepsReservation
<1>4. CASE lease' = lease /\ sent' = Send(Answered(r), r, {Editing(r)}, "release", l, "release")
  <2>1. l[Editing(r)] = LeaseOf(Head(sent[r]))
    <3>1. Editing(r) \in Editor
      BY <1>1, AnswerAbout DEF Arrives
    <3>. QED BY <3>1 DEF RequestsInv, LeaseMap
  <2> HIDE DEF l
  <2>. QED BY <1>1, <1>4, <2>1, GivesUpReservation
<1>. QED BY <1>2, <1>3, <1>4

\* What a replica keeps for an editor, under another phase, is released if there is one.
LEMMA FreesSends ==
    ASSUME RequestsInv, NEW p \in Pipes, NEW r \in Replica, NEW e \in On(r), NEW l,
           l[e].res # 0 <=> lease[e].res # 0, NEW linked,
           NEW S, S = {e} \cap Held(r), NEW q, q = SendOn(linked, p, r, S, "release", l, "release")
    PROVE  Sends(p, q, r, {e}) /\ Frees(p[r], q[r], e, l[e], "release")
<1>1. S \subseteq On(r) /\ S \subseteq {e}
  OBVIOUS
<1>2. e \in S <=> l[e].res # 0
  BY NoneReserved DEF Held, On, RequestsInv
<1>3. /\ Sends(p, q, r, S)
      /\ \A x \in S : \E a \in Answers : Adds(p[r], q[r], x, Command(x, "release", l[x], "release", a))
  BY <1>1, Sending
<1>4. Sends(p, q, r, {e})
  BY <1>1, <1>3 DEF Sends
<1>5. Frees(p[r], q[r], e, l[e], "release")
  BY <1>2, <1>3 DEF Frees, Sends
<1>. QED BY <1>4, <1>5

\* The connection is gone, or the reservation's time is over.
LEMMA DropsRenewed ==
    ASSUME RequestsInv, TrackInv, NEW r \in Replica, sent[r] # <<>>, sent[r][1].for = "call",
           LetGo(Answered(r), Editing(r)), FrameDone(r), UNCHANGED <<storeVars, parked, queued, conn, drawn>>
    PROVE  TrackInv'
<1> DEFINE e == Editing(r)
           t == Tail(sent[r])
           v == Settled({e})
<1>1. /\ e \in On(r) /\ e \in Editor /\ Answered(r)[r] = t /\ Answered(r) \in Pipes /\ t \in Seq(Request)
      /\ EditorInv(v, e, t) /\ ~Tracker(sent[r][1])
  BY AnswerAbout, CallDone
<1>2. Left(Answered(r), r, {e})
  BY AnswerLeft
<1>3. busy' = busy \ {e} /\ LetGo(Answered(r), e)
  BY DEF FrameDone
<1> HIDE DEF e, t
<1>4. /\ Sends(Answered(r), sent', r, {e})
      /\ Frees(t, sent'[r], e, lease[e], "release")
      /\ lease'[e] = NoLease /\ lease'[e].res = 0 /\ \A x \in Editor \ {e} : lease'[x] = lease[x]
  <2> DEFINE p == Answered(r)
  <2>1. p \in Pipes /\ LetGo(p, e) /\ p[r] = t
    BY <1>1, <1>3
  <2> HIDE DEF p
  <2>2. /\ Sends(p, sent', r, {e})
        /\ Frees(p[r], sent'[r], e, lease[e], "release")
        /\ lease'[e] = NoLease /\ lease'[e].res = 0 /\ \A x \in Editor \ {e} : lease'[x] = lease[x]
    BY <1>1, <2>1, LetGoSends
  <2>. QED BY <2>1, <2>2 DEF p
<1>5. EditorInv(View', e, sent'[r])
  <2> DEFINE w == View'
  <2>1. /\ Elsewhere(v, w) /\ w.lease[e] = NoLease /\ w.parked[e] = v.parked[e]
        /\ w.queued[e] = v.queued[e] /\ v.lease[e] = lease[e]
    BY <1>3, <1>4 DEF Elsewhere, Settled, View, storeVars
  <2> HIDE DEF v, w
  <2>2. EditorInv(w, e, sent'[r])
    BY <1>1, <1>4, <2>1, LetGoInv
  <2>. QED BY <2>2 DEF w
<1>6. \A x \in Editor \ {e} : Untouched(x)
  BY <1>3, <1>4 DEF Untouched
<1>7. drawn' \in Nat /\ drawn <= drawn' /\ UNCHANGED storeVars /\ {e} \subseteq On(r)
  BY <1>1 DEF RequestsInv
<1>8. \A x \in {e} : EditorInv(View', x, sent'[r]) /\ lease'[x].res \in {lease[x].res, 0}
  BY <1>4, <1>5
<1>9. Sends(Answered(r), sent', r, {e})
  BY <1>4
<1> HIDE DEF v
<1>. QED BY <1>2, <1>6, <1>7, <1>8, <1>9, StepSome

LEMMA RenewedStep ==
    ASSUME RequestsInv, TrackInv, NEW r \in Replica, Renewed(r)
    PROVE  TrackInv'
<1>1. /\ sent[r] # <<>> /\ sent[r][1].for = "call" /\ FrameDone(r)
      /\ UNCHANGED <<storeVars, parked, queued, conn, drawn>>
  BY AnswerAbout DEF Renewed, Arrives
<1>2. \/ sent' = Answered(r) /\ lease' = lease
      \/ LetGo(Answered(r), Editing(r))
  BY DEF Renewed
<1>. QED BY <1>1, <1>2, ToldStep, DropsRenewed

LEMMA DeniedStep ==
    ASSUME RequestsInv, TrackInv, NEW r \in Replica, ReserveDenied(r)
    PROVE  TrackInv'
<1>1. /\ sent[r] # <<>> /\ sent[r][1].for = "call" /\ FrameDone(r) /\ sent' = Answered(r)
      /\ UNCHANGED <<storeVars, lease, parked, queued, conn, drawn>>
  BY AnswerAbout DEF ReserveDenied, Arrives, bridgeVars
<1>. QED BY <1>1, ToldStep

LEMMA RevokedStep ==
    ASSUME RequestsInv, TrackInv, NEW r \in Replica, ReserveRevoked(r)
    PROVE  TrackInv'
<1> DEFINE e == Editing(r)
           t == Tail(sent[r])
           v == Settled({e})
<1>1. /\ sent[r] # <<>> /\ sent[r][1].for = "call" /\ sent[r][1].answer = "revoked"
      /\ FrameDone(r) /\ sent' = Answered(r) /\ lease' = Forget(lease, On(r))
      /\ UNCHANGED <<storeVars, parked, queued, conn, drawn>>
  BY AnswerAbout DEF ReserveRevoked, Arrives
<1>2. /\ e \in On(r) /\ Answered(r)[r] = t /\ t \in Seq(Request) /\ 1 \in DOMAIN sent[r]
      /\ ~Tracker(sent[r][1]) /\ \A x \in On(r) : EditorInv(v, x, t)
  BY <1>1, AnswerAbout, CallDone
<1>3. Left(Answered(r), r, On(r)) /\ Sends(Answered(r), sent', r, On(r))
  BY <1>1, <1>2, AnswerLeft, SendsNothing
<1>4. busy' = busy \ {e}
  BY <1>1 DEF FrameDone
<1>5. \A x \in On(r) : Bereft(View, x, lease[x].res)
  BY <1>1, <1>2 DEF TrackInv, PipesInv, PipeInv, Revoking, View
<1>6. \A x \in On(r) : lease'[x] = NoLease /\ lease'[x].res = 0
  BY <1>1 DEF Forget, NoLease, Lease, On
<1> HIDE DEF e, t
<1>7. ASSUME NEW x \in On(r) PROVE EditorInv(View', x, sent'[r])
  <2> DEFINE w == View'
  <2>1. /\ Elsewhere(v, w) /\ w.lease[x] = NoLease /\ w.parked[x] = v.parked[x] /\ w.queued[x] = v.queued[x]
    BY <1>1, <1>4, <1>6 DEF Elsewhere, Settled, View, storeVars
  <2>2. Bereft(v, x, v.lease[x].res)
    BY <1>5 DEF Bereft, Settled, View
  <2>3. EditorInv(v, x, t)
    BY <1>2
  <2> HIDE DEF v, w
  <2>4. EditorInv(w, x, t)
    BY <1>2, <2>1, <2>2, <2>3, RevokedInv
  <2>. QED BY <1>1, <1>2, <2>4 DEF w
<1>8. \A x \in Editor \ On(r) : Untouched(x)
  BY <1>1, <1>2, <1>4 DEF Untouched, Forget
<1>9. drawn' \in Nat /\ drawn <= drawn' /\ UNCHANGED storeVars
  BY <1>1 DEF RequestsInv
<1>10. \A x \in On(r) : lease'[x].res \in {lease[x].res, 0}
  BY <1>6
<1> HIDE DEF v
<1>. QED BY <1>3, <1>7, <1>8, <1>9, <1>10, StepSome

\* The lease a replica has is the one that was activated, or another.
LEMMA ActivatedInv ==
    ASSUME RequestsInv, TrackInv, NEW r \in Replica, sent[r] # <<>>, sent[r][1].for = "call",
           sent[r][1].op = "activate", sent[r][1].answer = "ok", NEW l,
           l = IF lease[Editing(r)].res = sent[r][1].res
               THEN [lease EXCEPT ![Editing(r)].phase = "active"] ELSE lease
    PROVE  /\ l[Editing(r)].res = lease[Editing(r)].res /\ \A x \in Editor \ {Editing(r)} : l[x] = lease[x]
           /\ EditorInv([Settled({Editing(r)}) EXCEPT !.lease = l], Editing(r), Tail(sent[r]))
<1> DEFINE e == Editing(r)
           c == sent[r][1]
           v == Settled({e})
           w == [v EXCEPT !.lease = l]
           t == Tail(sent[r])
<1>1. e \in Editor /\ c.of = e /\ About(View, c) /\ EditorInv(v, e, t)
  BY AnswerAbout, CallDone
<1>2. Started(View, e, c.res)
  BY <1>1 DEF About
<1>3. lease[e].res = c.res => [lease[e] EXCEPT !.phase = "active"].res = lease[e].res
                              /\ [lease[e] EXCEPT !.phase = "active"].phase = "active"
  <2>1. c.res # 0
    BY AnswerAbout DEF Request
  <2>2. lease[e].res = c.res => lease[e] \in Reservation
    BY <1>1, <2>1, LeasesReserved, NoneReserved DEF RequestsInv
  <2>. QED BY <2>2 DEF Reservation
<1>4. /\ l[e].res = lease[e].res /\ \A x \in Editor \ {e} : l[x] = lease[x]
      /\ l[e] = lease[e] \/ (l[e].phase = "active" /\ lease[e].res = c.res)
  BY <1>1, <1>3 DEF RequestsInv, LeaseMap
<1> HIDE DEF e, c, t
<1>5. /\ Elsewhere(v, w) /\ w.lease[e].res = v.lease[e].res /\ w.parked[e] = v.parked[e]
      /\ w.queued[e] = v.queued[e] /\ w.lease[e] = l[e] /\ v.lease[e] = lease[e]
  BY <1>4 DEF Elsewhere, Settled
<1>6. Told(v, e, w.lease[e])
  <2>1. CASE l[e] = lease[e]
    BY <1>1, <1>5, <2>1 DEF EditorInv, Sound, Holding
  <2>2. CASE l[e].phase = "active" /\ lease[e].res = c.res
    <3>1. Started(v, e, c.res)
      BY <1>2 DEF Started, Settled, View
    <3>. QED BY <1>4, <1>5, <2>2, <3>1 DEF Told
  <2>. QED BY <1>4, <2>1, <2>2
<1> HIDE DEF v, w
<1>7. EditorInv(w, e, t)
  BY <1>1, <1>5, <1>6, RephaseInv
<1>. QED BY <1>4, <1>7 DEF w, v, e, t

LEMMA JoinedStep ==
    ASSUME RequestsInv, TrackInv, NEW r \in Replica, Joined(r)
    PROVE  TrackInv'
<1> DEFINE e == Editing(r)
           t == Tail(sent[r])
           l == IF lease[e].res = Head(sent[r]).res THEN [lease EXCEPT ![e].phase = "active"] ELSE lease
           v == [Settled({e}) EXCEPT !.lease = l]
           w == View'
<1>1. /\ sent[r] # <<>> /\ sent[r][1].for = "call" /\ sent[r][1].op = "activate" /\ sent[r][1].answer = "ok"
      /\ Head(sent[r]) = sent[r][1] /\ FrameDone(r) /\ UNCHANGED <<storeVars, parked, queued, conn, drawn>>
  BY AnswerAbout DEF Joined, Arrives
<1>2. /\ e \in On(r) /\ e \in Editor /\ {e} \subseteq On(r) /\ Answered(r)[r] = t /\ Answered(r) \in Pipes
      /\ t \in Seq(Request) /\ ~Tracker(sent[r][1])
  BY <1>1, AnswerAbout, CallDone
<1>3. Left(Answered(r), r, {e})
  BY <1>1, <1>2, AnswerLeft
<1>4. /\ l[e].res = lease[e].res /\ (\A x \in Editor \ {e} : l[x] = lease[x])
      /\ EditorInv(v, e, t)
  BY <1>1, ActivatedInv
<1>5. \/ lease' = l /\ sent' = Answered(r)
      \/ /\ lease' = Forget(lease, {e})
         /\ sent' = SendOn(relay[r].linked, Answered(r), r, {e} \cap Held(r), "release", l, "release")
  BY DEF Joined, Send
<1>6. busy' = busy \ {e}
  BY <1>1 DEF FrameDone
<1> HIDE DEF e, t, l
<1>7. /\ v.key = key /\ v.members = members /\ v.lease = l /\ v.parked = parked /\ v.queued = queued
      /\ v.conn = conn /\ v.busy = busy \ {e} /\ v.drawn = drawn
  BY DEF Settled
<1>8. /\ w.key = key /\ w.members = members /\ w.lease = lease' /\ w.parked = parked /\ w.queued = queued
      /\ w.conn = conn /\ w.busy = busy \ {e} /\ w.drawn = drawn
  BY <1>1, <1>6 DEF View, storeVars
<1>9. /\ Sends(Answered(r), sent', r, {e}) /\ EditorInv(View', e, sent'[r])
      /\ lease'[e].res \in {lease[e].res, 0} /\ \A x \in Editor \ {e} : lease'[x] = lease[x]
  <2>1. CASE lease' = l /\ sent' = Answered(r)
    <3>1. w = v
      <4>1. w = [key |-> key, members |-> members, lease |-> l, queued |-> queued, parked |-> parked,
                 conn |-> conn, busy |-> busy \ {e}, drawn |-> drawn]
        BY <1>1, <1>6, <2>1 DEF View, storeVars
      <4>. QED BY <4>1 DEF Settled
    <3>. QED BY <1>2, <1>4, <2>1, <3>1, SendsNothing
  <2>2. CASE /\ lease' = Forget(lease, {e})
             /\ sent' = SendOn(relay[r].linked, Answered(r), r, {e} \cap Held(r), "release", l, "release")
    <3> DEFINE p == Answered(r)
               linked == relay[r].linked
    <3>1. p \in Pipes /\ p[r] = t /\ sent' = SendOn(linked, p, r, {e} \cap Held(r), "release", l, "release")
      BY <1>2, <2>2
    <3>2. l[e].res # 0 <=> lease[e].res # 0
      BY <1>4
    <3> HIDE DEF p, linked, v, w
    <3>3. Sends(p, sent', r, {e}) /\ Frees(p[r], sent'[r], e, l[e], "release")
      BY <1>2, <3>1, <3>2, FreesSends
    <3>4. lease'[e] = NoLease /\ lease'[e].res = 0 /\ \A x \in Editor \ {e} : lease'[x] = lease[x]
      BY <1>2, <2>2 DEF Forget, NoLease, Lease
    <3>5. /\ Elsewhere(v, w) /\ w.lease[e] = NoLease /\ w.parked[e] = v.parked[e] /\ w.queued[e] = v.queued[e]
          /\ v.lease[e] = l[e]
      BY <1>7, <1>8, <3>4 DEF Elsewhere
    <3>6. EditorInv(w, e, sent'[r])
      BY <1>2, <1>4, <3>1, <3>3, <3>5, LetGoInv
    <3>. QED BY <3>3, <3>4, <3>6 DEF w, p
  <2>. QED BY <1>5, <2>1, <2>2
<1>10. \A x \in Editor \ {e} : Untouched(x)
  BY <1>1, <1>6, <1>9 DEF Untouched
<1>11. drawn' \in Nat /\ drawn <= drawn' /\ UNCHANGED storeVars
  BY <1>1 DEF RequestsInv
<1>12. \A x \in {e} : EditorInv(View', x, sent'[r]) /\ lease'[x].res \in {lease[x].res, 0}
  BY <1>9
<1>13. Sends(Answered(r), sent', r, {e}) /\ {e} \subseteq On(r)
  BY <1>2, <1>9
<1> HIDE DEF v, w
<1>. QED BY <1>3, <1>10, <1>11, <1>12, <1>13, StepSome

-----------------------------------------------------------------------------
(* A lease is refused                                                      *)

\* The leases among l that a replica has are released.
LEMMA ReleaseSends ==
    ASSUME NEW p \in Pipes, NEW r \in Replica, NEW l \in LeaseMap, NEW S, S = Queued(l, r), NEW linked,
           NEW q, q = SendOn(linked, p, r, S, "release", l, "release")
    PROVE  /\ Sends(p, q, r, On(r)) /\ q \in Pipes
           /\ \A x \in On(r) : Frees(p[r], q[r], x, l[x], "release")
<1>1. S \subseteq On(r) /\ S \in SUBSET Editor /\ \A x \in S : l[x] \in Reservation
  BY QueuedReserved DEF Queued
<1>2. /\ Sends(p, q, r, S)
      /\ \A x \in S : \E a \in Answers : Adds(p[r], q[r], x, Command(x, "release", l[x], "release", a))
  BY <1>1, Sending
<1>3. q \in Pipes
  BY <1>1, SendOnTyped
<1>4. Sends(p, q, r, On(r))
  BY <1>1, <1>2 DEF Sends
<1>5. \A x \in On(r) : x \in S <=> l[x].res # 0
  BY NoneReserved DEF Queued, On
<1>6. \A x \in On(r) : Frees(p[r], q[r], x, l[x], "release")
  BY <1>2, <1>5 DEF Frees, Sends
<1>. QED BY <1>3, <1>4, <1>6

LEMMA DenyStep ==
    ASSUME RequestsInv, TrackInv, NEW r \in Replica, NEW p, Left(p, r, On(r)), DenyAndRelease(p, r),
           UNCHANGED <<storeVars, queued, conn, drawn>>,
           NEW done, done \subseteq On(r), busy' = busy \ done,
           \A x \in On(r) : EditorInv(Settled(done), x, p[r])
    PROVE  TrackInv'
<1> DEFINE linked == relay[r].linked
           away == Queued(parked, r)
           held == Held(r)
           q == SendOn(linked, p, r, away, "release", parked, "release")
           v == Settled(done)
           u == [v EXCEPT !.parked = parked']
           w == View'
<1>1. /\ sent' = SendOn(linked, q, r, held, "release", lease, "release")
      /\ lease' = Forget(lease, On(r)) /\ parked' = Forget(parked, On(r))
  BY DEF DenyAndRelease, Send
<1>2. p \in Pipes /\ parked \in LeaseMap /\ lease \in LeaseMap /\ held = Queued(lease, r)
  BY DEF Left, RequestsInv, Held, Queued
<1>3. ASSUME NEW x \in On(r)
      PROVE  lease'[x] = NoLease /\ parked'[x] = NoLease /\ lease'[x].res = 0
  BY <1>1 DEF Forget, NoLease, Lease, On
<1>4. /\ v.key = key /\ v.members = members /\ v.lease = lease /\ v.parked = parked /\ v.queued = queued
      /\ v.conn = conn /\ v.busy = busy \ done /\ v.drawn = drawn
  BY DEF Settled
<1>5. /\ u.key = key /\ u.members = members /\ u.lease = lease /\ u.parked = parked' /\ u.queued = queued
      /\ u.conn = conn /\ u.busy = busy \ done /\ u.drawn = drawn
  BY DEF Settled
<1>6. /\ w.key = key /\ w.members = members /\ w.lease = lease' /\ w.parked = parked' /\ w.queued = queued
      /\ w.conn = conn /\ w.busy = busy \ done /\ w.drawn = drawn
  BY DEF View, storeVars
<1>7. \A x \in On(r) : EditorInv(v, x, p[r])
  OBVIOUS
<1> HIDE DEF linked, away, held, q, u, v, w
<1>8. /\ Sends(p, q, r, On(r)) /\ q \in Pipes
      /\ \A x \in On(r) : Frees(p[r], q[r], x, parked[x], "release")
  BY <1>2, ReleaseSends DEF q, away
<1>9. /\ Sends(q, sent', r, On(r))
      /\ \A x \in On(r) : Frees(q[r], sent'[r], x, lease[x], "release")
  BY <1>1, <1>2, <1>8, ReleaseSends
<1>10. ASSUME NEW x \in On(r) PROVE EditorInv(w, x, sent'[r])
  <2>1. /\ Elsewhere(v, u) /\ u.parked[x] = NoLease /\ u.lease[x] = v.lease[x] /\ u.queued[x] = v.queued[x]
        /\ v.parked[x] = parked[x]
    BY <1>3, <1>4, <1>5 DEF Elsewhere
  <2>2. p[r] \in Seq(Request) /\ q[r] \in Seq(Request)
    BY <1>2, <1>8 DEF Pipes
  <2>3. EditorInv(v, x, p[r]) /\ Frees(p[r], q[r], x, v.parked[x], "release")
    BY <1>7, <1>8, <2>1
  <2>4. EditorInv(u, x, q[r])
    BY <2>1, <2>2, <2>3, GraceInv
  <2>5. /\ Elsewhere(u, w) /\ w.lease[x] = NoLease /\ w.parked[x] = u.parked[x] /\ w.queued[x] = u.queued[x]
    BY <1>3, <1>5, <1>6 DEF Elsewhere
  <2>6. Frees(q[r], sent'[r], x, u.lease[x], "release")
    BY <1>5, <1>9
  <2>. QED BY <2>2, <2>4, <2>5, <2>6, LetGoInv
<1>11. Left(q, r, On(r))
  <2>1. PipeInv(View, r, q[r])
    BY <1>8, PipeGrows DEF Sends, Left
  <2>2. \A x \in Replica \ {r} : q[x] = sent[x]
    BY <1>8 DEF Sends, Left
  <2>. QED BY <1>8, <2>1, <2>2 DEF Left
<1>12. \A x \in Editor \ On(r) : Untouched(x)
  BY <1>1 DEF Untouched, Forget
<1>13. drawn' \in Nat /\ drawn <= drawn' /\ UNCHANGED storeVars
  BY DEF RequestsInv
<1>14. \A x \in On(r) : EditorInv(View', x, sent'[r]) /\ lease'[x].res \in {lease[x].res, 0}
  BY <1>3, <1>10 DEF w
<1>15. Sends(q, sent', r, On(r))
  BY <1>9
<1>. QED BY <1>11, <1>12, <1>13, <1>14, <1>15, StepSome

LEMMA RefusedStep ==
    ASSUME RequestsInv, TrackInv, NEW r \in Replica, LeaseRefused(r)
    PROVE  TrackInv'
<1> DEFINE p == Answered(r)
           done == {Editing(r)}
<1>1. /\ sent[r] # <<>> /\ sent[r][1].for = "call" /\ DenyAndRelease(p, r) /\ busy' = busy \ done
      /\ UNCHANGED <<storeVars, queued, conn, drawn>>
  BY AnswerAbout DEF LeaseRefused, Arrives, FrameDone
<1>2. Left(p, r, On(r)) /\ done \subseteq On(r) /\ p[r] = Tail(sent[r])
  BY <1>1, AnswerAbout, AnswerLeft
<1>3. \A x \in On(r) : EditorInv(Settled(done), x, p[r])
  BY <1>1, <1>2, CallDone
<1> HIDE DEF p, done
<1>. QED BY <1>1, <1>2, <1>3, DenyStep

LEMMA RefreshedStep ==
    ASSUME RequestsInv, TrackInv, NEW r \in Replica, Refreshed(r)
    PROVE  TrackInv'
<1>1. sent[r] # <<>> /\ sent[r][1].for = "beat" /\ ~Tracker(sent[r][1]) /\ UNCHANGED <<storeVars, queued, busy, conn, drawn>>
  BY AnswerAbout DEF Refreshed, Arrives, Tracker
<1>2. CASE DenyAndRelease(Answered(r), r)
  <2> DEFINE p == Answered(r)
  <2>1. DenyAndRelease(p, r) /\ {} \subseteq On(r) /\ busy' = busy \ {}
    BY <1>1, <1>2
  <2>2. Left(p, r, On(r)) /\ p[r] = Tail(sent[r])
    BY <1>1, AnswerAbout, AnswerLeft
  <2>3. ASSUME NEW x \in On(r) PROVE EditorInv(Settled({}), x, p[r])
    <3>1. Settled({}) = View
      BY DEF Settled, View
    <3>2. EditorInv(View, x, sent[r])
      BY OfReplica
    <3>3. Spares(sent[r], Tail(sent[r]), x)
      BY <1>1, AnswerTaken
    <3>4. EditorInv(View, x, Tail(sent[r]))
      BY <3>2, <3>3, ThinSound, ThinTracking DEF EditorInv, Spares
    <3>. QED BY <2>2, <3>1, <3>4
  <2> HIDE DEF p
  <2>. QED BY <1>1, <2>1, <2>2, <2>3, DenyStep
<1>3. CASE sent' = Answered(r) /\ UNCHANGED <<slot, member, lease, parked>>
  BY <1>1, <1>3, HeardStep
<1>. QED BY <1>2, <1>3 DEF Refreshed

-----------------------------------------------------------------------------
(* A lease was released or detached                                        *)

LEMMA ReleasedStep ==
    ASSUME RequestsInv, TrackInv, NEW r \in Replica, Released(r)
    PROVE  TrackInv'
<1> DEFINE e == Editing(r)
           s == sent[r]
<1>1. /\ s # <<>> /\ s[1].op = "release" /\ s[1].for = "release" /\ s[1].answer = "ok"
      /\ sent' = Answered(r) /\ UNCHANGED <<storeVars, lease, parked, queued, busy, conn, drawn>>
  BY AnswerAbout DEF Released, Arrives, bridgeVars, registryVars
<1>2. /\ e \in On(r) /\ {e} \subseteq On(r) /\ Answered(r)[r] = Tail(s) /\ s \in Seq(Request)
      /\ EditorInv(View, e, s) /\ s[1].of = e
  BY <1>1, AnswerAbout
<1>3. Left(Answered(r), r, {e}) /\ Sends(Answered(r), sent', r, {e})
  BY <1>1, AnswerLeft, SendsNothing
<1> HIDE DEF s, e
<1>4. Ends(s, e, "release")
  BY <1>1, <1>2 DEF Ends
<1>5. EditorInv(View', e, sent'[r])
  <2>1. View' = View
    BY <1>1 DEF View, storeVars
  <2>2. EditorInv(View, e, Tail(s))
    BY <1>2, <1>4, ReleasedInv
  <2>. QED BY <1>1, <1>2, <2>1, <2>2
<1>6. \A x \in Editor \ {e} : Untouched(x)
  BY <1>1 DEF Untouched
<1>7. drawn' \in Nat /\ drawn <= drawn' /\ UNCHANGED storeVars /\ lease'[e].res \in {lease[e].res, 0}
  BY <1>1 DEF RequestsInv
<1>8. \A x \in {e} : EditorInv(View', x, sent'[r]) /\ lease'[x].res \in {lease[x].res, 0}
  BY <1>5, <1>7
<1>. QED BY <1>2, <1>3, <1>6, <1>7, <1>8, StepSome

LEMMA DetachedStep ==
    ASSUME RequestsInv, TrackInv, NEW r \in Replica, Detached(r)
    PROVE  TrackInv'
<1> DEFINE e == Editing(r)
           s == sent[r]
<1>1. /\ s # <<>> /\ s[1].op = "detach" /\ s[1].for = "detach" /\ s[1].answer = "ok" /\ Head(s) = s[1]
      /\ sent' = Answered(r) /\ UNCHANGED <<storeVars, lease, queued, busy, conn, drawn>>
      /\ parked' = [parked EXCEPT ![e] = [LeaseOf(s[1]) EXCEPT !.phase = "detached"]]
  BY AnswerAbout DEF Detached, Arrives, bridgeVars, registryVars
<1>2. /\ e \in On(r) /\ e \in Editor /\ {e} \subseteq On(r) /\ Answered(r)[r] = Tail(s) /\ s \in Seq(Request)
      /\ EditorInv(View, e, s) /\ s[1].of = e
  BY <1>1, AnswerAbout
<1>3. Left(Answered(r), r, {e}) /\ Sends(Answered(r), sent', r, {e})
  BY <1>1, AnswerLeft, SendsNothing
<1>4. /\ parked'[e] = [LeaseOf(s[1]) EXCEPT !.phase = "detached"]
      /\ \A x \in Editor \ {e} : parked'[x] = parked[x]
  BY <1>1, <1>2 DEF RequestsInv, LeaseMap
<1>5. parked'[e].phase = "detached" /\ parked'[e].res = s[1].res
  BY <1>4 DEF LeaseOf, Lease
<1> HIDE DEF s, e
<1>6. Ends(s, e, "detach")
  BY <1>1, <1>2 DEF Ends
<1>7. EditorInv(View', e, sent'[r])
  <2> DEFINE w == View'
  <2>1. /\ Elsewhere(View, w) /\ w.lease[e] = View.lease[e] /\ w.queued[e] = View.queued[e]
        /\ w.parked[e].phase = "detached" /\ w.parked[e].res = s[1].res
    BY <1>1, <1>5 DEF Elsewhere, View, storeVars
  <2> HIDE DEF w
  <2>2. EditorInv(w, e, Tail(s))
    BY <1>2, <1>6, <2>1, DetachedInv
  <2>. QED BY <1>1, <1>2, <2>2 DEF w
<1>8. \A x \in Editor \ {e} : Untouched(x)
  BY <1>1, <1>4 DEF Untouched
<1>9. drawn' \in Nat /\ drawn <= drawn' /\ UNCHANGED storeVars /\ lease'[e].res \in {lease[e].res, 0}
  BY <1>1 DEF RequestsInv
<1>10. \A x \in {e} : EditorInv(View', x, sent'[r]) /\ lease'[x].res \in {lease[x].res, 0}
  BY <1>7, <1>9
<1>. QED BY <1>2, <1>3, <1>8, <1>9, <1>10, StepSome

LEMMA AnsweredDropped ==
    ASSUME RequestsInv, TrackInv, NEW r \in Replica, sent[r] # <<>>
    PROVE  Dropped(Answered(r), r, 1)
<1> DEFINE s == sent[r]
           t == Tail(s)
           e == s[1].of
<1>1. /\ Answered(r) \in Pipes /\ Answered(r)[r] = t /\ s \in Seq(Request) /\ e = Editing(r)
      /\ (\A q \in Replica \ {r} : Answered(r)[q] = sent[q])
      /\ (\A x : Thins(s, t, x)) /\ (\A x : x # e \/ ~Tracker(s[1]) => Spares(s, t, x))
  BY AnswerTaken
<1>2. PipeInv(View, r, t)
  BY AnswerTaken, PipeRemains DEF TrackInv, PipesInv
<1>3. \A i \in Own(t, e) : i + 1 \in Own(s, e) /\ 1 < i + 1 /\ t[i] = s[i + 1]
  BY <1>1, TailThins
<1>4. \A i \in Own(s, e) \ {1} : i - 1 \in Own(t, e) /\ t[i - 1] = s[i]
  <2>1. /\ DOMAIN s = 1 .. Len(s) /\ Len(s) \in Nat /\ DOMAIN t = 1 .. (Len(s) - 1)
        /\ \A i \in DOMAIN t : t[i] = s[i + 1]
    BY <1>1
  <2> HIDE DEF t
  <2>2. \A i \in DOMAIN s \ {1} : i - 1 \in DOMAIN t /\ t[i - 1] = s[i]
    BY <2>1
  <2>. QED BY <2>2 DEF Own
<1> HIDE DEF s, t, e
<1>5. KeepsOthers(s, t, e, 1)
  BY <1>4 DEF KeepsOthers
<1>6. \A i \in Own(t, e) : t[i].for = "call" => \E j \in Own(s, e) \ {1} : s[j].for = "call"
  <2>1. ASSUME NEW i \in Own(t, e), t[i].for = "call" PROVE \E j \in Own(s, e) \ {1} : s[j].for = "call"
    <3>1. i + 1 \in Own(s, e) \ {1} /\ s[i + 1].for = "call"
      BY <1>3, <2>1
    <3>. QED BY <3>1
  <2>. QED BY <2>1
<1>. QED BY <1>1, <1>2, <1>5, <1>6 DEF Dropped, s, e

LEMMA DetachRefusedStep ==
    ASSUME RequestsInv, TrackInv, NEW r \in Replica, DetachRefused(r)
    PROVE  TrackInv'
<1> DEFINE p == Answered(r)
<1>1. /\ sent[r] # <<>> /\ sent[r][1].for = "detach" /\ 1 \in DOMAIN sent[r] /\ DetachFails(sent[r][1], p, r)
  BY AnswerAbout DEF DetachRefused, Arrives
<1>2. Dropped(p, r, 1)
  BY <1>1, AnsweredDropped
<1> HIDE DEF p
<1>. QED BY <1>1, <1>2, FailedDetach

LEMMA CleanedUpStep ==
    ASSUME RequestsInv, TrackInv, NEW r \in Replica, CleanedUp(r)
    PROVE  TrackInv'
<1> DEFINE e == Editing(r)
           s == sent[r]
           p == Answered(r)
           q == IF queued[e].res = s[1].res THEN Forget(queued, {e}) ELSE queued
<1>1. /\ s # <<>> /\ s[1].op = "release" /\ s[1].for = "cleanup" /\ s[1].answer = "ok" /\ Head(s) = s[1]
      /\ UNCHANGED <<storeVars, lease, parked, busy, conn, drawn>>
      /\ BatchStep(p, r, e, q, TRUE)
  BY AnswerAbout DEF CleanedUp, Arrives, registryVars
<1>2. /\ e \in On(r) /\ e \in Editor /\ p[r] = Tail(s) /\ s \in Seq(Request)
      /\ EditorInv(View, e, s) /\ s[1].of = e /\ ~Tracker(s[1])
  BY <1>1, AnswerAbout DEF Tracker
<1>3. Left(p, r, On(r)) /\ \A x : Spares(s, Tail(s), x)
  BY <1>1, <1>2, AnswerLeft, AnswerTaken
<1>4. /\ q[e] = IF queued[e].res = s[1].res THEN NoLease ELSE queued[e]
      /\ \A x \in Editor \ {e} : q[x] = queued[x]
  BY <1>2 DEF Forget
<1>5. q \in LeaseMap
  BY ForgetTyped DEF RequestsInv
<1>6. \A x \in On(r) : EditorInv(View, x, s)
  BY OfReplica
<1> HIDE DEF e, s, p, q
<1>7. queued' = q /\ Batches(p, sent', r, q)
  BY <1>1 DEF BatchStep, Batches, Send
<1>8. ASSUME NEW x \in On(r) PROVE EditorInv(View', x, p[r])
  <2> DEFINE w == View'
  <2>1. /\ w.key = View.key /\ w.members = View.members /\ w.conn = View.conn /\ w.busy = View.busy
        /\ w.drawn = View.drawn /\ w.lease = View.lease /\ w.parked = View.parked
        /\ w.queued = q /\ View.queued = queued
    BY <1>1, <1>7 DEF View, storeVars
  <2> HIDE DEF w
  <2>2. CASE x = e
    <3>1. Ends(s, e, "cleanup")
      BY <1>1, <1>2 DEF Ends
    <3>2. Elsewhere(View, w) /\ w.queued[e] = IF View.queued[e].res = s[1].res THEN NoLease ELSE View.queued[e]
      BY <1>4, <2>1 DEF Elsewhere
    <3>3. EditorInv(w, e, Tail(s))
      BY <1>2, <2>1, <3>1, <3>2, CleanedUpInv
    <3>. QED BY <1>2, <2>2, <3>3 DEF w
  <2>3. CASE x # e
    <3>1. EditorInv(View, x, s) /\ Spares(s, Tail(s), x) /\ q[x] = queued[x]
      BY <1>3, <1>4, <1>6, <2>3 DEF On
    <3>2. Fades(View, w, x)
      BY <2>1, <3>1 DEF Fades, EditorInv, Sound, Holding
    <3>3. Passes(Tail(s), Tail(s), x)
      BY DEF Passes
    <3>4. EditorInv(w, x, Tail(s))
      BY <3>1, <3>2, <3>3, SparesInv
    <3>. QED BY <1>2, <3>4 DEF w
  <2>. QED BY <2>2, <2>3
<1>9. \A x \in Editor \ On(r) : Untouched(x)
  BY <1>1, <1>2, <1>4, <1>7 DEF Untouched
<1>10. \A x \in On(r) : lease'[x].res \in {lease[x].res, 0}
  BY <1>1
<1>11. queued' \in LeaseMap /\ Batches(p, sent', r, queued') /\ UNCHANGED storeVars /\ drawn' = drawn
  BY <1>1, <1>5, <1>7
<1>. QED BY <1>3, <1>8, <1>9, <1>10, <1>11, CleanupStep

LEMMA IgnoredStep ==
    ASSUME RequestsInv, TrackInv, NEW r \in Replica, Ignored(r)
    PROVE  TrackInv'
<1>1. /\ sent[r] # <<>> /\ ~Tracker(sent[r][1]) /\ sent' = Answered(r)
      /\ UNCHANGED <<storeVars, lease, parked, queued, busy, conn, drawn>>
  BY AnswerAbout DEF Ignored, Tracker, bridgeVars, registryVars
<1>. QED BY <1>1, HeardStep

LEMMA AnswerTracks ==
    ASSUME RequestsInv, TrackInv, NEW r \in Replica,
           \/ Reserved(r) \/ Renewed(r) \/ ReserveDenied(r) \/ ReserveRevoked(r)
           \/ Joined(r) \/ LeaseRefused(r) \/ Refreshed(r)
           \/ Released(r) \/ Detached(r) \/ DetachRefused(r) \/ CleanedUp(r) \/ Ignored(r)
    PROVE  TrackInv'
  BY ReservedStep, RenewedStep, DeniedStep, RevokedStep, JoinedStep, RefusedStep, RefreshedStep,
     ReleasedStep, DetachedStep, DetachRefusedStep, CleanedUpStep, IgnoredStep

\* The first command that has no answer is answered: a holds what became of it.
AnswersFirst(s, t, k, a) ==
    /\ k \in DOMAIN s /\ s[k].answer = "none" /\ a \notin {"none", "rejected"}
    /\ \A i \in DOMAIN s : i < k => s[i].answer # "none"
    /\ DOMAIN t = DOMAIN s
    /\ \A i \in DOMAIN s \ {k} : t[i] = s[i]
    /\ t[k].of = s[k].of /\ t[k].op = s[k].op /\ t[k].for = s[k].for
    /\ t[k].res = s[k].res /\ t[k].phase = s[k].phase /\ t[k].answer = a

\* No reservation comes back but the one that the command asks for.
Spoils(v, w, e, n) == Bereft(v, e, n) => Bereft(w, e, n)

LEMMA AnsweredPipe ==
    ASSUME NEW v, NEW w, NEW r, NEW R, NEW s \in Seq(R), PipeInv(v, r, s),
           NEW t, NEW k, NEW a, AnswersFirst(s, t, k, a),
           a = "revoked" => w.members = {},
           \A e \in On(r) : w.lease[e] = v.lease[e],
           \A e \in On(r) : Spoils(v, w, e, v.lease[e].res),
           \A j \in DOMAIN s : j # k /\ s[j].op = "reserve" => Spoils(v, w, s[j].of, s[j].res)
    PROVE  PipeInv(w, r, t)
<1> USE DEF AnswersFirst
<1>0. DOMAIN s \subseteq Int
  OBVIOUS
<1>1. \A i \in DOMAIN t : t[i].of \in On(r)
  BY DEF PipeInv
<1>2. InOrder(t)
  <2>1. ASSUME NEW i \in DOMAIN t, NEW j \in DOMAIN t, i < j, t[j].answer \notin {"none", "rejected"}
        PROVE  t[i].answer # "none"
    <3>1. CASE i = k
      BY <3>1
    <3>2. CASE i # k /\ j = k
      BY <2>1, <3>2
    <3>3. CASE i # k /\ j # k
      BY <2>1, <3>3 DEF PipeInv, InOrder
    <3>. QED BY <3>1, <3>2, <3>3
  <2>. QED BY <2>1 DEF InOrder
<1>3. Revoking(w, r, t)
  <2>1. ASSUME NEW i \in DOMAIN t, t[i].answer = "revoked"
        PROVE  /\ \A e \in On(r) : Bereft(w, e, w.lease[e].res)
               /\ \A j \in DOMAIN t : j < i /\ t[j].op = "reserve" => Bereft(w, t[j].of, t[j].res)
    <3>1. CASE i = k
      BY <2>1, <3>1 DEF Bereft
    <3>2. CASE i # k
      <4>1. s[i].answer = "revoked"
        BY <2>1, <3>2
      <4>2. ~(k < i)
        BY <4>1 DEF PipeInv, InOrder
      <4>3. i < k
        BY <1>0, <3>2, <4>2
      <4>4. /\ \A e \in On(r) : Bereft(v, e, v.lease[e].res)
            /\ \A j \in DOMAIN s : j < i /\ s[j].op = "reserve" => Bereft(v, s[j].of, s[j].res)
        BY <4>1 DEF PipeInv, Revoking
      <4>5. ASSUME NEW j \in DOMAIN t, j < i, t[j].op = "reserve" PROVE Bereft(w, t[j].of, t[j].res)
        <5>1. j # k /\ t[j] = s[j]
          BY <1>0, <4>3, <4>5
        <5>. QED BY <4>4, <4>5, <5>1 DEF Spoils
      <4>. QED BY <4>4, <4>5 DEF Spoils
    <3>. QED BY <3>1, <3>2
  <2>. QED BY <2>1 DEF Revoking
<1>. QED BY <1>1, <1>2, <1>3 DEF PipeInv

-----------------------------------------------------------------------------
(* What a script does                                                      *)

Gone(x) == key'[x] = key[x] \/ (key'[x].phase = "none" /\ key'[x].res = 0)
Keeps(x) == Gone(x) /\ (x \in members' => x \in members)

\* Nothing but that some leases go, with an answer that promises nothing else.
Fading(c, a) ==
    /\ \A x \in Editor : Keeps(x)
    /\ a = "revoked" => members' = {}
    /\ c.op = "reserve" => a \notin {"elected", "follows"}
    /\ c.op \in {"activate", "detach"} => a # "ok"
    /\ c.op = "release" => \/ key'[c.of] = NoKey
                           \/ key'[c.of] = key[c.of] /\ ~Releasable(c.of, c)

Granted(c, a) ==
    /\ c.op = "reserve" /\ a # "revoked"
    /\ key'[c.of].phase = "pending" /\ key'[c.of].res = c.res
    /\ \A x \in Editor \ {c.of} : Keeps(x)

Moved(c, a) ==
    /\ c.op \in {"activate", "detach"} /\ a # "revoked"
    /\ key[c.of].phase = c.phase /\ key[c.of].res = c.res /\ key'[c.of].res = c.res
    /\ \/ c.op = "activate" /\ key'[c.of].phase = "active"
       \/ c.op = "detach" /\ key'[c.of].phase = "detached"
    /\ c.of \in members' => c.of \in members
    /\ \A x \in Editor \ {c.of} : Keeps(x)

LEMMA ScriptEffect ==
    ASSUME StoreInv, NEW c \in Request, NEW a \in Answer, Script(c, a)
    PROVE  Fading(c, a) \/ Granted(c, a) \/ Moved(c, a)
<1>0. c.of \in Editor /\ DOMAIN key = Editor /\ \A x \in Editor : DOMAIN key[x] = {"phase", "res", "epoch", "sec", "elected"}
  BY DEF StoreInv, StoreTypeOK, Request
<1>1. CASE c.op = "reserve" /\ ReserveScript(c.of, c.res, c.epoch, c.sec, a)
  <2>1. CASE Revoke(c.sec, a)
    BY <1>0, <1>1, <2>1 DEF Revoke, Fading, Keeps, Gone, NoKey
  <2>2. CASE RefuseEpoch(c.epoch, c.sec, a)
    BY <1>0, <1>1, <2>2 DEF RefuseEpoch, Fading, Keeps, Gone, Live
  <2>3. CASE RotateEnded(c.epoch, c.sec, a)
    BY <1>0, <1>1, <2>3 DEF RotateEnded, Fading, Keeps, Gone
  <2>4. CASE Grant(c.of, c.res, c.epoch, c.sec, a)
    <3>1. a # "revoked"
      BY <2>4 DEF Grant
    <3>. QED BY <1>0, <1>1, <2>4, <3>1 DEF Grant, Granted, Keeps, Gone, Live
  <2>. QED BY <1>1, <2>1, <2>2, <2>3, <2>4 DEF ReserveScript
<1>2. CASE c.op = "activate" /\ Activate(c.of, c, c.epoch, c.sec, a)
  <2>1. a = "ok" /\ c.of \in members /\ key[c.of].phase = c.phase /\ key[c.of].res = c.res
    BY <1>2 DEF Activate, Owned, Holds
  <2>2. key' = [key EXCEPT ![c.of] = [key[c.of] EXCEPT !.phase = "active"]] /\ members' = Live
    BY <1>2 DEF Activate
  <2>3. key'[c.of].phase = "active" /\ key'[c.of].res = key[c.of].res
    BY <1>0, <2>2
  <2>4. \A x \in Editor \ {c.of} : Keeps(x)
    BY <1>0, <2>2 DEF Keeps, Gone, Live
  <2>. QED BY <1>2, <2>1, <2>3, <2>4 DEF Moved
<1>3. CASE c.op \in {"activate", "refresh"} /\ RefreshLost(c.of, c, c.epoch, c.sec, a)
  BY <1>3 DEF RefreshLost, storeVars, Fading, Keeps, Gone
<1>4. CASE c.op = "refresh" /\ Refresh(c.of, c, c.epoch, c.sec, a)
  BY <1>4 DEF Refresh, Fading, Keeps, Gone, Live
<1>5. CASE c.op = "detach" /\ Detach(c.of, c, a)
  <2>1. a = "ok" /\ key[c.of].phase = c.phase /\ key[c.of].res = c.res /\ members' = members
    BY <1>5 DEF Detach, Holds
  <2>2. key' = [key EXCEPT ![c.of] = [key[c.of] EXCEPT !.phase = "detached"]]
    BY <1>5 DEF Detach
  <2>3. key'[c.of].phase = "detached" /\ key'[c.of].res = key[c.of].res
    BY <1>0, <2>2
  <2>4. \A x \in Editor \ {c.of} : Keeps(x)
    BY <1>0, <2>1, <2>2 DEF Keeps, Gone
  <2>. QED BY <1>5, <2>1, <2>3, <2>4 DEF Moved
<1>6. CASE c.op = "detach" /\ DetachLost(c.of, c, a)
  BY <1>6 DEF DetachLost, storeVars, Fading, Keeps, Gone
<1>7. CASE c.op = "release" /\ Release(c.of, c, c.epoch, c.sec, a)
  BY <1>0, <1>7 DEF Release, Fading, Keeps, Gone, NoKey
<1>8. CASE c.op = "release" /\ ReleaseRefused(c.of, c, a)
  BY <1>8 DEF ReleaseRefused, storeVars, Fading, Keeps, Gone
<1>. QED BY <1>1, <1>2, <1>3, <1>4, <1>5, <1>6, <1>7, <1>8 DEF Script

\* What the step leaves alone.
LEMMA KeepsFades ==
    ASSUME RequestsInv, UNCHANGED <<bridgeVars, registryVars, drawn>>, NEW x, Keeps(x)
    PROVE  Fades(View, View', x)
  BY DEF RequestsInv, bridgeVars, registryVars, Keeps, Gone, Fades, View

\* An answer says what is so.
Says(w, c, a) ==
    /\ c.op = "activate" /\ a = "ok" => Started(w, c.of, c.res)
    /\ c.op \in {"detach", "release"} /\ a = "ok" => Over(w, c.of, c.res)
    /\ c.op = "reserve" /\ c.for = "call" /\ a \in {"elected", "follows"} => Newest(w, c.of, c.res)

LEMMA AnsweredEditor ==
    ASSUME NEW w, NEW e, NEW s, NEW t, NEW k, NEW a, AnswersFirst(s, t, k, a), EditorInv(w, e, s),
           s[k].of = e => Says(w, s[k], a)
    PROVE  EditorInv(w, e, t)
<1>1. /\ DOMAIN t = DOMAIN s /\ k \in DOMAIN s /\ \A i \in DOMAIN s \ {k} : t[i] = s[i]
      /\ t[k].of = s[k].of /\ t[k].op = s[k].op /\ t[k].for = s[k].for
      /\ t[k].res = s[k].res /\ t[k].phase = s[k].phase /\ t[k].answer = a
  BY DEF AnswersFirst
<1>2. s[k].of = e => /\ s[k].op = "activate" /\ a = "ok" => Started(w, e, s[k].res)
                     /\ s[k].op \in {"detach", "release"} /\ a = "ok" => Over(w, e, s[k].res)
                     /\ s[k].op = "reserve" /\ s[k].for = "call" /\ a \in {"elected", "follows"} =>
                           Newest(w, e, s[k].res)
  BY DEF Says
<1>. QED BY <1>1, <1>2, AnswerInv

\* The command k of the replica r is executed with the answer a.
Executed(r, k, a) ==
    /\ AnswersFirst(sent[r], sent'[r], k, a)
    /\ \A q \in Replica \ {r} : sent'[q] = sent[q]
    /\ UNCHANGED <<bridgeVars, registryVars, drawn>>

\* What that does to the leases it is not about, and to what is expected of e's.
Confined(r, k, a, e) ==
    /\ a = "revoked" => members' = {}
    /\ e = sent[r][k].of
    /\ \A x \in Editor \ {e} : Keeps(x)
    /\ Spoils(View, View', e, lease[e].res)
    /\ \A j \in DOMAIN sent[r] : j # k /\ sent[r][j].op = "reserve" /\ sent[r][j].of = e =>
           Spoils(View, View', e, sent[r][j].res)

LEMMA ExecutedStep ==
    ASSUME RequestsInv, TrackInv, NEW r \in Replica, NEW k, NEW a, Executed(r, k, a),
           NEW e, Confined(r, k, a, e), EditorInv(View', e, sent[r]), Says(View', sent[r][k], a)
    PROVE  TrackInv'
<1> USE DEF Executed, Confined
<1>1. sent[r] \in Seq(Request) /\ PipeInv(View, r, sent[r]) /\ k \in DOMAIN sent[r]
  BY DEF RequestsInv, Pipes, TrackInv, PipesInv, AnswersFirst
<1>2. e \in On(r) /\ \A i \in DOMAIN sent[r] : sent[r][i].of \in On(r)
  BY <1>1 DEF PipeInv
<1>3. \A x \in Editor \ {e} : Fades(View, View', x)
  BY KeepsFades
<1>4. \A x \in On(r) : x \in Editor /\ EditorInv(View, x, sent[r])
  BY OfReplica
<1>5. View'.members = members' /\ View'.lease = lease /\ View.lease = lease /\ View.members = members
      /\ View.key = key /\ View'.key = key'
  BY DEF View, bridgeVars
<1>6. \A x \in Editor \ {e} : \A n : Spoils(View, View', x, n)
  <2>1. \A x \in Editor \ {e} : x \in View'.members => x \in View.members
    BY <1>3 DEF Fades
  <2>2. \A x \in Editor \ {e} : View'.key[x].res \in {View.key[x].res, 0}
    BY <1>3 DEF Fades
  <2>. QED BY <2>1, <2>2 DEF Spoils, Bereft
<1> DEFINE v == View
           w == View'
           s == sent[r]
           t == sent'[r]
<1>10. RequestsInv /\ TrackInv
  OBVIOUS
<1>11. AnswersFirst(s, t, k, a) /\ PipeInv(v, r, s) /\ s \in Seq(Request)
  BY <1>1
<1>12. /\ a = "revoked" => w.members = {}
       /\ \A x \in On(r) : w.lease[x] = v.lease[x]
  BY <1>5
<1>13. \A x \in On(r) : Spoils(v, w, x, v.lease[x].res)
  BY <1>4, <1>5, <1>6
<1>14. \A j \in DOMAIN s : j # k /\ s[j].op = "reserve" => Spoils(v, w, s[j].of, s[j].res)
  BY <1>2, <1>4, <1>6
<1>15. \A x \in On(r) : EditorInv(v, x, s) /\ (x # e => Fades(v, w, x))
  BY <1>3, <1>4
<1>16. EditorInv(w, e, s) /\ Says(w, s[k], a) /\ s[k].of = e
  OBVIOUS
<1> HIDE DEF v, w, s, t
<1>17. PipeInv(w, r, t)
  <2>1. AnswersFirst(s, t, k, a)
    BY <1>11
  <2>2. PipeInv(v, r, s)
    BY <1>11
  <2>3. s \in Seq(Request)
    BY <1>11
  <2>4. a = "revoked" => w.members = {}
    BY <1>12
  <2>5. \A x \in On(r) : w.lease[x] = v.lease[x]
    BY <1>12
  <2>. QED BY <1>13, <1>14, <2>1, <2>2, <2>3, <2>4, <2>5, AnsweredPipe, ZenonT(60)
<1>18. ASSUME NEW x \in On(r) PROVE EditorInv(w, x, t)
  <2>1. EditorInv(w, x, s)
    BY <1>15, <1>16, FadesInv
  <2>2. s[k].of = x => Says(w, s[k], a)
    BY <1>16
  <2>. QED BY <1>11, <2>1, <2>2, AnsweredEditor
<1> USE DEF w, t
<1>19. \A x \in On(r) : EditorInv(View', x, sent'[r])
  BY <1>18
<1>20. PipeInv(View', r, sent'[r])
  BY <1>17
<1>21. \A x \in Editor \ On(r) : Fades(View, View', x)
  BY <1>2, <1>3
<1>. QED BY <1>10, <1>19, <1>20, <1>21, Lifts

LEMMA ExecuteTracks ==
    ASSUME StoreInv, RequestsInv, TrackInv, NEW r \in Replica, Execute(r)
    PROVE  TrackInv'
<1> PICK k \in DOMAIN sent[r], a \in Answer :
        /\ IsFirst(k, Unanswered(sent[r]))
        /\ Script(sent[r][k], a)
        /\ sent' = [sent EXCEPT ![r][k].answer = a]
        /\ UNCHANGED <<bridgeVars, registryVars, drawn>>
    BY DEF Execute
<1> DEFINE s == sent[r]
           t == sent'[r]
           c == sent[r][k]
           e == c.of
           v == View
           w == View'
<1>1. s \in Seq(Request) /\ c \in Request /\ DOMAIN sent = Replica
  BY EachTyped DEF RequestsInv, Pipes
<1>2. /\ DOMAIN t = DOMAIN s /\ \A i \in DOMAIN s \ {k} : t[i] = s[i]
      /\ t[k] = [c EXCEPT !.answer = a]
      /\ \A q \in Replica \ {r} : sent'[q] = sent[q]
  BY <1>1
<1>3. AnswersFirst(s, t, k, a)
  <2>1. s[k].answer = "none" /\ \A i \in DOMAIN s : i < k => s[i].answer # "none"
    <3>1. DOMAIN s \subseteq Int
      BY <1>1
    <3>. QED BY <3>1 DEF IsFirst, Unanswered
  <2>2. a \notin {"none", "rejected"}
    BY DEF Answer
  <2> HIDE DEF t, s
  <2>3. /\ t[k].of = c.of /\ t[k].op = c.op /\ t[k].for = c.for
        /\ t[k].res = c.res /\ t[k].phase = c.phase /\ t[k].answer = a
    BY <1>1, <1>2 DEF Request
  <2>4. c = s[k] /\ k \in DOMAIN s
    BY DEF s
  <2> HIDE DEF c
  <2>. QED BY <1>2, <2>1, <2>2, <2>3, <2>4 DEF AnswersFirst
<1>4. PipeInv(v, r, s)
  BY DEF TrackInv, PipesInv
<1>5. e \in On(r)
  BY <1>4 DEF PipeInv
<1>6. EditorInv(v, e, s) /\ e \in Editor /\ k \in Own(s, e)
  BY <1>5, OfReplica DEF Own
<1>7. About(v, c) /\ InOrder(s) /\ Sound(v, e, s)
  BY <1>4, <1>6 DEF EditorInv, Sound, PipeInv
<1>8. KeyOnly(v, w, e) /\ w.key = key' /\ v.key = key /\ w.members = members' /\ v.members = members
      /\ v.lease = lease
  BY DEF View, bridgeVars, registryVars, KeyOnly
<1>9. ASSUME EditorInv(w, e, s), Says(w, c, a), a = "revoked" => members' = {},
             \A x \in Editor \ {e} : Keeps(x), Spoils(v, w, e, lease[e].res),
             \A j \in DOMAIN s : j # k /\ s[j].op = "reserve" /\ s[j].of = e => Spoils(v, w, e, s[j].res)
      PROVE  TrackInv'
  <2>1. Executed(r, k, a)
    BY <1>2, <1>3 DEF Executed
  <2>2. Confined(r, k, a, e)
    BY <1>9 DEF Confined
  <2>. QED BY <1>9, <2>1, <2>2, ExecutedStep
<1>10. CASE Fading(c, a)
  <2>1. \A x \in Editor : Fades(v, w, x)
    BY <1>10, KeepsFades DEF Fading
  <2>2. EditorInv(w, e, s)
    <3> HIDE DEF v, w, s, e
    <3>. QED BY <1>6, <2>1, FadesInv
  <2>3. \A n : Spoils(v, w, e, n)
    <3> HIDE DEF v, w, s
    <3>. QED BY <1>6, <2>1 DEF Fades, Spoils, Bereft
  <2>4. Says(w, c, a)
    <3>1. ASSUME c.op = "release" PROVE Over(w, e, c.res)
      <4>1. CASE key'[e] = NoKey
        <5>1. w.key[e].phase = "none"
          BY <1>8, <4>1 DEF NoKey
        <5>. QED BY <5>1 DEF Over
      <4>2. CASE key'[e] = key[e] /\ ~Releasable(e, c)
        <5>1. w.key[e] = v.key[e] /\ ~Releasable(e, c)
          BY <1>8, <4>2
        <5>2. ~(v.key[e].phase = c.phase /\ v.key[e].res = c.res) /\ ~(v.key[e].res = c.res /\ c.phase = "pending")
          BY <1>8, <4>2 DEF Releasable, Holds
        <5>3. c.phase \in {"pending", "active", "detached"}
          BY <1>1 DEF Request
        <5> HIDE DEF v, w
        <5>4. Over(v, e, c.res)
          BY <1>7, <5>2, <5>3, RefusedOver
        <5>. QED BY <5>1, <5>4 DEF Over
      <4>. QED BY <1>10, <3>1, <4>1, <4>2 DEF Fading
    <3> HIDE DEF v, w
    <3>. QED BY <1>10, <3>1 DEF Fading, Says
  <2>. QED BY <1>9, <1>10, <2>2, <2>3, <2>4 DEF Fading
<1>11. CASE Granted(c, a)
  <2>1. EditorInv(w, e, s) /\ Newest(w, e, c.res)
    <3>1. c.op = "reserve" /\ w.key[e].phase = "pending" /\ w.key[e].res = c.res
      BY <1>8, <1>11 DEF Granted
    <3>2. c = s[k] /\ s[k].answer = "none"
      BY <1>3 DEF AnswersFirst
    <3> HIDE DEF v, w, s, c
    <3>. QED BY <1>1, <1>6, <1>7, <1>8, <3>1, <3>2, GrantedInv
  <2>2. Says(w, c, a)
    BY <1>11, <2>1 DEF Granted, Says
  <2>3. Spoils(v, w, e, lease[e].res)
    <3>1. lease[e].res = 0
      BY <1>7, <1>8, <1>11 DEF About, Granted
    <3>. QED BY <3>1 DEF Spoils, Bereft
  <2>4. ASSUME NEW j \in DOMAIN s, j # k, s[j].op = "reserve", s[j].of = e PROVE Spoils(v, w, e, s[j].res)
    <3>1. j \in Own(s, e) \ {k}
      BY <2>4 DEF Own
    <3>2. s[j].res # c.res
      <4>1. c = s[k]
        OBVIOUS
      <4> HIDE DEF v, s, c
      <4>. QED BY <1>1, <1>6, <1>7, <2>4, <3>1, <4>1, OwnReservation
    <3>3. w.key[e].res = c.res
      BY <1>8, <1>11 DEF Granted
    <3> HIDE DEF w
    <3>. QED BY <3>2, <3>3 DEF Spoils, Bereft
  <2>5. a # "revoked" /\ \A x \in Editor \ {e} : Keeps(x)
    BY <1>11 DEF Granted
  <2>. QED BY <1>9, <2>1, <2>2, <2>3, <2>4, <2>5
<1>12. CASE Moved(c, a)
  <2>1. /\ c.op \in {"activate", "detach"} /\ c.op # "reserve"
        /\ v.key[e].phase = c.phase /\ v.key[e].res = c.res /\ w.key[e].res = c.res
        /\ \/ c.op = "activate" /\ w.key[e].phase = "active"
           \/ c.op = "detach" /\ w.key[e].phase = "detached"
        /\ e \in w.members => e \in v.members
    BY <1>8, <1>12 DEF Moved
  <2>2. c.op = "activate" => v.key[e].phase = "pending"
    BY <1>7, <2>1 DEF About
  <2>3. c = s[k]
    OBVIOUS
  <2>4. EditorInv(w, e, s) /\ Started(w, e, c.res) /\ (c.op = "detach" => Over(w, e, c.res))
    <3>1. \/ c.op = "activate" /\ v.key[e].phase = "pending" /\ w.key[e].phase = "active"
          \/ w.key[e].phase = "detached"
      BY <2>1, <2>2
    <3> HIDE DEF v, w, s, c
    <3>. QED BY <1>1, <1>6, <1>8, <2>1, <2>3, <3>1, ScriptInv
  <2>5. Says(w, c, a)
    BY <2>1, <2>4 DEF Says
  <2>6. \A n : Spoils(v, w, e, n)
    <3> HIDE DEF v, w
    <3>. QED BY <2>1 DEF Spoils, Bereft
  <2>7. a # "revoked" /\ \A x \in Editor \ {e} : Keeps(x)
    BY <1>12 DEF Moved
  <2>. QED BY <1>9, <2>4, <2>5, <2>6, <2>7
<1>. QED BY <1>1, <1>10, <1>11, <1>12, ScriptEffect

-----------------------------------------------------------------------------
(* Every step                                                              *)

\* Whatever fades, whosever it is.
LEMMA StoreStepTracks ==
    ASSUME StoreInv, RequestsInv, TrackInv, StoreStep
    PROVE  TrackInv'
<1>0. UNCHANGED <<bridgeVars, registryVars, drawn, sent>>
  BY DEF StoreStep
<1>1. \A x \in Editor : Keeps(x)
  BY DEF StoreStep, Expire, StateLost, MembersLost, RedisRestarts, Keeps, Gone, NoKey, StoreInv, StoreTypeOK
<1>2. \A x \in Editor : Fades(View, View', x)
  BY <1>0, <1>1, KeepsFades
<1>3. ASSUME NEW x \in Editor PROVE EditorInv(View', x, sent'[Home[x]])
  <2>1. EditorInv(View, x, sent[Home[x]])
    BY DEF TrackInv, EditorsInv
  <2>. QED BY <1>0, <1>2, <2>1, FadesInv
<1>4. ASSUME NEW q \in Replica PROVE PipeInv(View', q, sent'[q])
  <2>1. PipeInv(View, q, sent[q])
    BY DEF TrackInv, PipesInv
  <2>2. Calms(View, View', q)
    BY <1>2 DEF Calms, Fades, On
  <2>. QED BY <1>0, <2>1, <2>2, PipeCalms
<1>. QED BY <1>3, <1>4 DEF TrackInv, EditorsInv, PipesInv

LEMMA InitTracks ==
    ASSUME Init
    PROVE  TrackInv
<1>1. /\ key = [k \in Editor |-> NoKey] /\ members = {} /\ drawn = 0
      /\ lease = NoLeases /\ queued = NoLeases /\ parked = NoLeases
      /\ sent = [r \in Replica |-> <<>>]
  BY DEF Init, StoreInit
<1>2. ASSUME NEW e \in Editor PROVE EditorInv(View, e, <<>>)
  <2>1. Own(<<>>, e) = {}
    BY DEF Own
  <2>2. /\ View.key[e].res = 0 /\ View.key[e].phase = "none" /\ View.members = {} /\ View.drawn = 0
        /\ View.lease[e] = NoLease /\ View.queued[e] = NoLease /\ View.parked[e] = NoLease
    BY <1>1 DEF View, NoKey, NoLeases
  <2>. QED BY <2>1, <2>2 DEF EditorInv, Sound, Tracking, Holding, Cooled, Hot, Told, NoLease, Lease
<1>3. ASSUME NEW r \in Replica PROVE PipeInv(View, r, <<>>)
  BY DEF PipeInv, InOrder, Revoking
<1>. QED BY <1>1, <1>2, <1>3, RoomsAssumption DEF TrackInv, EditorsInv, PipesInv

LEMMA NextTracks ==
    ASSUME StoreInv, RequestsInv, TrackInv, [Next]_vars
    PROVE  TrackInv'
<1>1. CASE UNCHANGED vars
  BY <1>1, QuietStep DEF vars, bridgeVars, registryVars
<1>2. ASSUME NEW e \in Editor, Frame(e) \/ Elapse(e) PROVE TrackInv'
  BY <1>2, FrameTracks, ElapseTracks
<1>3. ASSUME NEW r \in Replica,
             \/ Beat(r) \/ RetryCleanup(r) \/ Serve(r) \/ GiveUp(r)
             \/ ConnectionDrops(r) \/ CommandsReady(r)
             \/ SubscriberLost(r) \/ Resubscribed(r) \/ Crash(r)
      PROVE  TrackInv'
  <2>1. CASE Serve(r)
    BY <2>1, ExecuteTracks, AnswerTracks, FailureTracks DEF Serve
  <2>. QED BY <1>3, <2>1, RelayTracks, FailureTracks
<1>. QED BY <1>1, <1>2, <1>3, StoreStepTracks DEF Next

\* Whatever is lost, late or given up, a replica whose process did not die holds each activated
\* lease that Redis still counts, waits to release it, or has a command about it under way.
THEOREM LeasesTracked == Spec => []ActiveLeaseTracked
<1>1. StoreInv /\ TrackInv => ActiveLeaseTracked
  <2>1. ASSUME TrackInv, NEW e \in Editor, e \in members, key[e].phase = "active", conn[e] # "crashed"
        PROVE  \/ key[e].res \in {lease[e].res, queued[e].res, parked[e].res}
               \/ \E i \in DOMAIN sent[Home[e]] :
                     sent[Home[e]][i].of = e /\ sent[Home[e]][i].res = key[e].res
    <3>1. EditorInv(View, e, sent[Home[e]])
      BY <2>1 DEF TrackInv, EditorsInv
    <3>2. Tracked(View, e, sent[Home[e]])
      BY <2>1, <3>1 DEF EditorInv, Tracking, Hot, View
    <3>3. key[e].res \notin {lease[e].res, queued[e].res} =>
             \E i \in Own(sent[Home[e]], e) : sent[Home[e]][i].res = key[e].res
      BY <3>2 DEF Tracked, View
    <3>. QED BY <3>3 DEF Own
  <2>. QED BY <2>1 DEF ActiveLeaseTracked, StoreInv, StoreTypeOK
<1>2. Init => TrackInv
  BY InitTracks
<1>3. StoreInv /\ RequestsInv /\ TrackInv /\ [Next]_vars => TrackInv'
  BY NextTracks
<1>. QED BY <1>1, <1>2, <1>3, RoomsInvariant, PTL DEF Spec

==============================================================================
