---------------------------- MODULE ItemSyncProofs ----------------------------
(***************************************************************************)
(* Proofs about ItemSync, for every value of the constants.                *)
(*                                                                         *)
(* No update is lost (NoUpdateLost): the stamp is compared outside the     *)
(* row's lock, twice, and the row changes at the commit only.              *)
(*                                                                         *)
(* What a response claims is true: types (ItemsTyped); the own-write skip  *)
(* (SkipsHonest), whatever windows are open; a token's position and a      *)
(* cursor (PositionsHonest, CursorsHonest) where saves and pages are       *)
(* serialised.  The argument is one chain in time: what a device presents  *)
(* is at or before the horizon of its request, the horizon before the      *)
(* start of its saves, that before every stamp drawn for them (TimeInv).   *)
(*                                                                         *)
(* The tabs of one browser share a session, and the skip of one withholds  *)
(* what another saved meanwhile.  The three theorems about claims say that *)
(* this is all a device ever lacks, whoever shares a session with whom.    *)
(***************************************************************************)
EXTENDS ItemSync, FiniteSetTheorems, WellFoundedInduction, TLAPS

\* The variables have their domains; the proof needs nothing else of their types.
ShapeOK ==
    /\ DOMAIN rows = Item /\ DOMAIN staged = Device /\ DOMAIN shown = Device
    /\ DOMAIN call = Device
    /\ \A d \in Device : DOMAIN call[d] = DOMAIN Idle

\* A transaction is open while its request saves, and a stamp is drawn for an item.
OpenWhileSaving ==
    \A d \in Device : /\ staged[d] # {} => call[d].step \in {"saving", "writing"}
                      /\ call[d].step = "writing" => call[d].item \in Item

\* What a transaction has written it still replaces a version its device holds ...
StagedOnHeld ==
    \A d \in Device : \A v \in staged[d] : v.item \in Item /\ rows[v.item].stamp = shown[d][v.item]

\* ... because no other transaction has written the same row.
RowsLocked ==
    \A d, o \in Device : d # o => \A v \in staged[d], w \in staged[o] : v.item # w.item

SaveInv == ShapeOK /\ OpenWhileSaving /\ StagedOnHeld /\ RowsLocked

-----------------------------------------------------------------------------
LEMMA InitSave == Init => SaveInv
  BY DEF Init, SaveInv, ShapeOK, OpenWhileSaving, StagedOnHeld, RowsLocked, Idle

\* A step of one request that writes nothing leaves the transactions as they are.
LEMMA QuietStep ==
    ASSUME SaveInv, NEW d \in Device, UNCHANGED <<rows, staged, shown>>, DOMAIN call' = Device,
           \A o \in Device \ {d} : call'[o] = call[o],
           DOMAIN call'[d] = DOMAIN Idle,
           staged[d] # {} => call'[d].step \in {"saving", "writing"},
           call'[d].step = "writing" => call'[d].item \in Item
    PROVE  SaveInv'
  BY DEF SaveInv, ShapeOK, OpenWhileSaving, StagedOnHeld, RowsLocked

LEMMA RequestStep ==
    ASSUME SaveInv, NEW d \in Device, NEW todo \in SUBSET Item, Request(d, todo)
    PROVE  SaveInv'
<1>1. staged[d] = {} /\ UNCHANGED <<rows, staged, shown>>
  BY DEF Request, SaveInv, OpenWhileSaving, deviceVars
<1>2. /\ DOMAIN call' = Device /\ \A o \in Device \ {d} : call'[o] = call[o]
      /\ DOMAIN call'[d] = DOMAIN Idle /\ call'[d].step = "reading"
  BY DEF Request, SaveInv, ShapeOK, Idle
<1>. QED BY <1>1, <1>2, QuietStep

LEMMA RetrievalStep ==
    ASSUME SaveInv, NEW d \in Device, ReadDescriptors(d) \/ FetchPage(d)
    PROVE  SaveInv'
<1>1. UNCHANGED <<rows, staged, shown>> /\ staged[d] = {}
  BY DEF ReadDescriptors, FetchPage, deviceVars, SaveInv, OpenWhileSaving
<1> DEFINE Moves(step) == /\ DOMAIN call' = Device /\ \A o \in Device \ {d} : call'[o] = call[o]
                          /\ DOMAIN call'[d] = DOMAIN Idle /\ call'[d].step = step
<1>2. CASE ReadDescriptors(d)
  <2>1. Moves("fetching")
    BY <1>2 DEF ReadDescriptors, SaveInv, ShapeOK, Idle
  <2>. QED BY <1>1, <2>1, QuietStep
<1>3. CASE FetchPage(d)
  <2>1. Moves("saving")
    BY <1>3 DEF FetchPage, SaveInv, ShapeOK, Idle
  <2>. QED BY <1>1, <2>1, QuietStep
<1>. QED BY <1>2, <1>3

\* An item that is not written: refused, stamped only, in conflict, or failed.
LEMMA UnsavedStep ==
    ASSUME SaveInv, NEW d \in Device,
           (\E i \in Item : Refuse(d, i) \/ Stamp(d, i)) \/ WriteConflict(d) \/ WriteFailed(d)
    PROVE  SaveInv'
<1>1. UNCHANGED <<rows, staged, shown>>
  BY DEF Refuse, Stamp, WriteConflict, WriteFailed, deviceVars
<1> DEFINE Moves(step) == /\ DOMAIN call' = Device /\ \A o \in Device \ {d} : call'[o] = call[o]
                          /\ DOMAIN call'[d] = DOMAIN Idle /\ call'[d].step = step
<1>2. ASSUME NEW i \in Item, Refuse(d, i) PROVE SaveInv'
  <2>1. Moves("saving")
    BY <1>2 DEF Refuse, Conflicting, SaveInv, ShapeOK, Idle
  <2>. QED BY <1>1, <2>1, QuietStep
<1>3. ASSUME NEW i \in Item, Stamp(d, i) PROVE SaveInv'
  <2>1. Moves("writing") /\ call'[d].item = i
    BY <1>3 DEF Stamp, SaveInv, ShapeOK, Idle
  <2>. QED BY <1>1, <2>1, QuietStep
<1>4. CASE WriteConflict(d)
  <2>1. Moves("saving")
    BY <1>4 DEF WriteConflict, Conflicting, SaveInv, ShapeOK, Idle
  <2>. QED BY <1>1, <2>1, QuietStep
<1>5. CASE WriteFailed(d)
  <2>1. Moves("saving")
    BY <1>5 DEF WriteFailed, SaveInv, ShapeOK, Idle
  <2>. QED BY <1>1, <2>1, QuietStep
<1>. QED BY <1>2, <1>3, <1>4, <1>5

\* A row is written that no other transaction has, on top of the version the device holds.
LEMMA WriteStep ==
    ASSUME SaveInv, NEW d \in Device, Write(d)
    PROVE  SaveInv'
<1> DEFINE i == call[d].item
           v == [item |-> i, stamp |-> call[d].stamp]
<1>1. /\ i \in Item /\ rows[i].stamp = shown[d][i]
      /\ \A o \in Device \ {d} : \A w \in staged[o] : w.item # i
  BY DEF Write, RowFree, SaveInv, OpenWhileSaving
<1>2. UNCHANGED <<rows, shown>> /\ staged' = [staged EXCEPT ![d] = @ \cup {v}]
  BY DEF Write, deviceVars
<1>3. /\ DOMAIN call' = Device /\ \A o \in Device \ {d} : call'[o] = call[o]
      /\ DOMAIN call'[d] = DOMAIN Idle /\ call'[d].step = "saving"
  BY DEF Write, Saved, SaveInv, ShapeOK, Idle
<1>4. ShapeOK' /\ OpenWhileSaving'
  BY <1>2, <1>3 DEF SaveInv, ShapeOK, OpenWhileSaving
<1>5. StagedOnHeld' /\ RowsLocked'
  BY <1>1, <1>2 DEF SaveInv, ShapeOK, StagedOnHeld, RowsLocked
<1>. QED BY <1>4, <1>5 DEF SaveInv

\* The rows of a commit are in no other transaction.
LEMMA CommitStep ==
    ASSUME SaveInv, NEW d \in Device, Commit(d)
    PROVE  SaveInv'
<1>1. /\ DOMAIN rows' = Item /\ shown' = shown /\ staged' = [staged EXCEPT ![d] = {}]
      /\ \A i \in Item : (\A v \in staged[d] : v.item # i) => rows'[i] = rows[i]
  BY DEF Commit, deviceVars
<1>2. /\ DOMAIN call' = Device /\ \A o \in Device \ {d} : call'[o] = call[o]
      /\ DOMAIN call'[d] = DOMAIN Idle /\ call'[d].step = "replying"
  BY DEF Commit, SaveInv, ShapeOK, Idle
<1>3. ShapeOK' /\ OpenWhileSaving' /\ RowsLocked'
  BY <1>1, <1>2 DEF SaveInv, ShapeOK, OpenWhileSaving, RowsLocked
<1>4. ASSUME NEW o \in Device \ {d}, NEW w \in staged[o]
      PROVE  w.item \in Item /\ rows'[w.item].stamp = shown'[o][w.item]
  <2>1. w.item \in Item /\ \A v \in staged[d] : v.item # w.item
    BY DEF SaveInv, StagedOnHeld, RowsLocked
  <2>. QED BY <1>1, <2>1 DEF SaveInv, StagedOnHeld
<1>5. StagedOnHeld'
  BY <1>1, <1>4 DEF SaveInv, ShapeOK, StagedOnHeld
<1>. QED BY <1>3, <1>5 DEF SaveInv

LEMMA EndStep ==
    ASSUME SaveInv, NEW d \in Device, Fail(d) \/ Checkpoint(d) \/ DeviceDies(d)
    PROVE  SaveInv'
<1>1. UNCHANGED <<rows, shown>> /\ DOMAIN staged' = Device
      /\ \A o \in Device : staged'[o] = {} \/ (o # d /\ staged'[o] = staged[o])
  BY DEF Fail, Checkpoint, DeviceDies, SaveInv, ShapeOK, OpenWhileSaving, deviceVars
<1>2. /\ DOMAIN call' = Device /\ \A o \in Device \ {d} : call'[o] = call[o]
      /\ DOMAIN call'[d] = DOMAIN Idle /\ call'[d].step = "idle"
  BY DEF Fail, Checkpoint, DeviceDies, SaveInv, ShapeOK, Idle
<1>3. ShapeOK' /\ OpenWhileSaving'
  BY <1>1, <1>2 DEF SaveInv, ShapeOK, OpenWhileSaving
<1>4. StagedOnHeld' /\ RowsLocked'
  BY <1>1 DEF SaveInv, StagedOnHeld, RowsLocked
<1>. QED BY <1>3, <1>4 DEF SaveInv

\* A device takes up what it was shown when its transaction is over.
LEMMA ApplyStep ==
    ASSUME SaveInv, NEW d \in Device, Apply(d)
    PROVE  SaveInv'
<1>1. /\ UNCHANGED <<rows, staged>> /\ staged[d] = {} /\ DOMAIN shown' = Device
      /\ \A o \in Device \ {d} : shown'[o] = shown[o]
  BY DEF Apply, SaveInv, ShapeOK, OpenWhileSaving
<1>2. /\ DOMAIN call' = Device /\ \A o \in Device \ {d} : call'[o] = call[o]
      /\ DOMAIN call'[d] = DOMAIN Idle /\ call'[d].step = "applied"
  BY DEF Apply, SaveInv, ShapeOK, Idle
<1>3. ShapeOK' /\ OpenWhileSaving'
  BY <1>1, <1>2 DEF SaveInv, ShapeOK, OpenWhileSaving
<1>4. StagedOnHeld' /\ RowsLocked'
  BY <1>1 DEF SaveInv, StagedOnHeld, RowsLocked
<1>. QED BY <1>3, <1>4 DEF SaveInv

LEMMA NextSave == SaveInv /\ [Next]_vars => SaveInv'
<1> SUFFICES ASSUME SaveInv, [Next]_vars PROVE SaveInv'
    OBVIOUS
<1>1. ASSUME NEW d \in Device, NEW todo \in SUBSET Item, Request(d, todo) PROVE SaveInv'
  BY <1>1, RequestStep
<1>2. ASSUME NEW d \in Device, Serve(d) PROVE SaveInv'
  BY <1>2, RetrievalStep, UnsavedStep, WriteStep, CommitStep, EndStep DEF Serve, SaveNextItem
<1>3. ASSUME NEW d \in Device, Apply(d) \/ Checkpoint(d) \/ DeviceDies(d) PROVE SaveInv'
  BY <1>3, ApplyStep, EndStep
<1>4. CASE UNCHANGED vars
  BY <1>4 DEF vars, deviceVars, SaveInv, ShapeOK, OpenWhileSaving, StagedOnHeld, RowsLocked
<1>. QED BY <1>1, <1>2, <1>3, <1>4 DEF Next

LEMMA SaveInvariant == Spec => []SaveInv
  BY InitSave, NextSave, PTL DEF Spec

-----------------------------------------------------------------------------
\* No update is lost: a version is replaced only by a device that held it, for any items,
\* devices and sessions, any number of saves in a request and any windows that are open.
THEOREM NoUpdateLost == Spec => NoLostUpdate
<1> DEFINE Replaces == \A i \in Item : rows'[i] # rows[i] =>
               \E d \in Device : call[d].step = "saving" /\ shown[d][i] = rows[i].stamp /\ staged[d] # staged'[d]
<1>1. SaveInv /\ [Next]_vars => Replaces
  <2> SUFFICES ASSUME SaveInv, [Next]_vars, NEW i \in Item, rows'[i] # rows[i]
               PROVE  \E d \in Device : call[d].step = "saving" /\ shown[d][i] = rows[i].stamp
                                        /\ staged[d] # staged'[d]
      OBVIOUS
  <2>1. \E d \in Device : Commit(d)
    BY DEF Next, Request, Serve, ReadDescriptors, FetchPage, SaveNextItem, Refuse, Stamp, Write,
           WriteConflict, WriteFailed, Fail, Apply, Checkpoint, DeviceDies, vars
  <2>2. PICK d \in Device : Commit(d)
    BY <2>1
  <2>3. PICK v \in staged[d] : v.item = i
    BY <2>2 DEF Commit
  <2>4. staged'[d] = {} /\ call[d].step = "saving"
    BY <2>2 DEF Commit, SaveInv, ShapeOK
  <2>. QED BY <2>3, <2>4 DEF SaveInv, StagedOnHeld
<1>. QED BY <1>1, SaveInvariant, PTL DEF Spec, NoLostUpdate
-----------------------------------------------------------------------------
(* Bounded sets of numbers, and rows in the keyset order.                   *)

\* The greatest of bounded numbers is one of them.
LEMMA MaxOfBounded ==
    ASSUME NEW n \in Nat, NEW S \in SUBSET (0 .. n), S # {}
    PROVE  Max(S) \in S /\ \A x \in S : x <= Max(S)
<1> DEFINE Less == {p \in Nat \X Nat : p[1] < p[2]}
           Below == {n - x : x \in S}
<1>1. IsWellFoundedOn(Less, Nat)
  BY NatLessThanWellFounded DEF OpToRel
<1>2. Below \subseteq Nat /\ Below # {}
  <2>1. PICK x \in S : TRUE
    OBVIOUS
  <2>2. n - x \in Below
    OBVIOUS
  <2>3. \A y \in S : n - y \in Nat
    OBVIOUS
  <2>. QED BY <2>2, <2>3
<1>3. PICK m \in Below : \A k \in Below : <<k, m>> \notin Less
  <2> HIDE DEF Below, Less
  <2>. QED BY <1>1, <1>2, WFMin
<1>4. \A k \in Below : ~(k < m)
  BY <1>2, <1>3
<1>5. PICK x \in S : m = n - x
  OBVIOUS
<1>6. \A y \in S : x >= y
  BY <1>4, <1>5
<1>. QED BY <1>5, <1>6 DEF Max

LEMMA MaxOfTwo ==
    ASSUME NEW x \in Int, NEW y \in Int
    PROVE  Max({x, y}) = IF x >= y THEN x ELSE y
<1>1. \E z \in {x, y} : \A w \in {x, y} : z >= w
  OBVIOUS
<1>2. Max({x, y}) \in {x, y} /\ \A w \in {x, y} : Max({x, y}) >= w
  BY <1>1 DEF Max
<1>. QED BY <1>2

LEMMA MinOfTwo ==
    ASSUME NEW x \in Int, NEW y \in Int
    PROVE  Min({x, y}) = IF x <= y THEN x ELSE y
<1>1. \E z \in {x, y} : \A w \in {x, y} : z =< w
  OBVIOUS
<1>2. Min({x, y}) \in {x, y} /\ \A w \in {x, y} : Min({x, y}) =< w
  BY <1>1 DEF Min
<1>. QED BY <1>2

\* The rows of a page have a last one.
LEMMA LastOfPage ==
    ASSUME NEW S \in SUBSET Version, S # {}
    PROVE  \E v \in S : \A w \in S : ~Beyond(w, v)
<1> DEFINE Stamps == {v.stamp : v \in S}
           Latest == {v \in S : v.stamp = Max(Stamps)}
           Items == {v.item : v \in Latest}
<1>0. MaxClock \in Nat /\ Item \subseteq 1 .. MaxClock
  BY ItemSyncAssumption
<1>1. Stamps \in SUBSET (0 .. MaxClock) /\ Stamps # {}
  BY DEF Version
<1>2. Max(Stamps) \in Stamps /\ \A x \in Stamps : x <= Max(Stamps)
  <2> HIDE DEF Stamps
  <2>. QED BY <1>0, <1>1, MaxOfBounded
<1>3. Items \in SUBSET (0 .. MaxClock) /\ Items # {}
  <2>1. PICK v \in S : v.stamp = Max(Stamps)
    BY <1>2
  <2>2. v.item \in Items
    BY <2>1
  <2>3. \A w \in S : w.item \in Item /\ w.item \in 0 .. MaxClock
    <3>1. \A w \in S : w.item \in Item
      BY DEF Version
    <3>2. \A i \in Item : i \in 0 .. MaxClock
      BY <1>0
    <3>. QED BY <3>1, <3>2
  <2>. QED BY <2>2, <2>3
<1>4. Max(Items) \in Items /\ \A x \in Items : x <= Max(Items)
  <2> HIDE DEF Items
  <2>. QED BY <1>0, <1>3, MaxOfBounded
<1>5. PICK v \in Latest : v.item = Max(Items)
  BY <1>4
<1>6. ASSUME NEW w \in S PROVE ~Beyond(w, v)
  <2>1. /\ w.stamp <= v.stamp /\ (w.stamp = v.stamp => w \in Latest)
        /\ w.stamp \in Int /\ v.stamp \in Int /\ w.item \in Int /\ v.item \in Int
    <3>1. \A u \in S : u.stamp \in Int /\ u.item \in Int
      <4>1. \A u \in S : u.stamp \in Int /\ u.item \in Item
        BY DEF Version
      <4>2. \A i \in Item : i \in Int
        BY <1>0
      <4>. QED BY <4>1, <4>2
    <3>2. v \in S /\ v.stamp = Max(Stamps) /\ w.stamp \in Stamps
      OBVIOUS
    <3>. QED BY <1>2, <3>1, <3>2
  <2>2. w \in Latest => w.item <= v.item
    BY <1>4, <1>5
  <2>. QED BY <2>1, <2>2 DEF Beyond
<1>. QED BY <1>5, <1>6

\* Rows that are asked for have a first one.
LEMMA FirstOfRows ==
    ASSUME NEW I \in SUBSET Item, I # {}, \A i \in I : rows[i].stamp \in 0 .. MaxClock
    PROVE  \E m \in I : \A j \in I : ~Beyond(At(j), At(m)) => j = m
<1> DEFINE Less == {p \in Nat \X Nat : p[1] < p[2]}
           Stamps == {rows[i].stamp : i \in I}
<1>0. MaxClock \in Nat /\ Item \subseteq Nat
  BY ItemSyncAssumption
<1>1. IsWellFoundedOn(Less, Nat)
  BY NatLessThanWellFounded DEF OpToRel
<1>2. Stamps \subseteq Nat /\ Stamps # {}
  <2>1. PICK i \in I : TRUE
    OBVIOUS
  <2>2. rows[i].stamp \in Stamps
    OBVIOUS
  <2>3. \A j \in I : rows[j].stamp \in Nat
    BY <1>0
  <2>. QED BY <2>2, <2>3
<1>3. PICK s \in Stamps : \A t \in Stamps : <<t, s>> \notin Less
  <2> HIDE DEF Stamps, Less
  <2>. QED BY <1>1, <1>2, WFMin
<1> DEFINE Oldest == {i \in I : rows[i].stamp = s}
<1>4. Oldest \subseteq Nat /\ Oldest # {}
  BY <1>0
<1>5. PICK m \in Oldest : \A j \in Oldest : <<j, m>> \notin Less
  <2> HIDE DEF Oldest, Less
  <2>. QED BY <1>1, <1>4, WFMin
<1>6. ASSUME NEW j \in I, ~Beyond(At(j), At(m)) PROVE j = m
  <2>1. rows[j].stamp \in Nat /\ s \in Nat /\ j \in Nat /\ m \in Nat /\ rows[m].stamp = s
    BY <1>0, <1>2, <1>4
  <2>2. ~(rows[j].stamp < s) /\ (j \in Oldest => ~(j < m))
    BY <1>3, <1>5, <2>1
  <2>3. rows[j].stamp <= s /\ (rows[j].stamp = s => j <= m)
    BY <1>6, <2>1 DEF Beyond, At
  <2>. QED BY <2>1, <2>2, <2>3
<1>. QED BY <1>5, <1>6

LEMMA ItemFinite == IsFiniteSet(Item)
<1>1. MaxClock \in Int /\ 1 \in Int /\ Item \subseteq 1 .. MaxClock
  BY ItemSyncAssumption
<1>2. IsFiniteSet(1 .. MaxClock)
  BY <1>1, FS_Interval
<1>. QED BY <1>1, <1>2, FS_Subset

\* A page leaves out no row before one of its rows, is everything if everything fits, and
\* is not empty unless nothing is asked for.
LEMMA PageInOrder ==
    ASSUME NEW d \in Device, \A i \in Item : rows[i].stamp \in 0 .. MaxClock
    PROVE  /\ Page(d) \subseteq Matching(d)
           /\ \A p \in Page(d), i \in Matching(d) : ~Beyond(At(i), At(p)) => i \in Page(d)
           /\ Cardinality(Matching(d)) <= Limit => Page(d) = Matching(d)
           /\ Page(d) = {} => Matching(d) = {}
<1> DEFINE M == Matching(d)
           UpTo(i) == {j \in M : ~Beyond(At(j), At(i))}
<1>0. /\ M \subseteq Item /\ Limit \in Nat /\ 1 <= Limit /\ Item \subseteq Nat
      /\ Page(d) = {i \in M : Cardinality(UpTo(i)) <= Limit}
  BY ItemSyncAssumption DEF Matching, Page
<1>a. ASSUME NEW i \in M PROVE rows[i].stamp \in Int /\ i \in Int
  <2>1. i \in Item
    BY DEF Matching
  <2>. QED BY <2>1, ItemSyncAssumption
<1>1. IsFiniteSet(M)
  BY <1>0, ItemFinite, FS_Subset
<1>2. ASSUME NEW S \in SUBSET M, NEW T \in SUBSET S
      PROVE  IsFiniteSet(S) /\ Cardinality(S) \in Nat /\ Cardinality(T) \in Nat /\ Cardinality(T) <= Cardinality(S)
  <2>1. IsFiniteSet(S)
    BY <1>1, FS_Subset
  <2>. QED BY <2>1, FS_Subset, FS_CardinalityType
<1>3. ASSUME NEW p \in Page(d), NEW i \in M, ~Beyond(At(i), At(p)) PROVE i \in Page(d)
  <2>1. UpTo(i) \subseteq UpTo(p)
    <3> SUFFICES ASSUME NEW j \in M, ~Beyond(At(j), At(i)) PROVE ~Beyond(At(j), At(p))
        OBVIOUS
    <3>1. /\ rows[j].stamp \in Int /\ rows[i].stamp \in Int /\ rows[p].stamp \in Int
          /\ j \in Int /\ i \in Int /\ p \in Int
      <4>1. p \in M
        BY DEF Page
      <4>. QED BY <4>1, <1>a
    <3>. QED BY <1>3, <3>1 DEF Beyond, At
  <2>2. Cardinality(UpTo(i)) \in Nat /\ Cardinality(UpTo(p)) \in Nat /\ Cardinality(UpTo(i)) <= Cardinality(UpTo(p))
    <3>1. UpTo(p) \subseteq M
      OBVIOUS
    <3> HIDE DEF UpTo, M
    <3>. QED BY <1>2, <2>1, <3>1
  <2>. QED BY <1>0, <2>2
<1>4. ASSUME Cardinality(M) <= Limit, NEW i \in M PROVE i \in Page(d)
  <2>1. UpTo(i) \subseteq M
    OBVIOUS
  <2>2. Cardinality(UpTo(i)) \in Nat /\ Cardinality(M) \in Nat /\ Cardinality(UpTo(i)) <= Cardinality(M)
    <3> HIDE DEF UpTo, M
    <3>. QED BY <1>2, <2>1
  <2>. QED BY <1>0, <1>4, <2>2
<1>5. ASSUME M # {} PROVE Page(d) # {}
  <2>1. PICK m \in M : \A j \in M : ~Beyond(At(j), At(m)) => j = m
    <3> HIDE DEF M
    <3>. QED BY <1>0, <1>5, FirstOfRows
  <2>2. ~Beyond(At(m), At(m))
    <3>1. rows[m].stamp \in Int /\ m \in Int
      BY <1>a
    <3>. QED BY <3>1 DEF Beyond, At
  <2>3. UpTo(m) = {m}
    BY <2>1, <2>2
  <2>4. Cardinality(UpTo(m)) = 1
    BY <2>3, FS_Singleton
  <2>. QED BY <1>0, <2>1, <2>4
<1>. QED BY <1>0, <1>3, <1>4, <1>5

-----------------------------------------------------------------------------
(* Types, and the order of positions, horizons and stamps in time.          *)

Sessions == Session \cup {NoSession}
Rows == [stamp : 0 .. MaxClock, session : Sessions, by : SUBSET Device]

CallType ==
    [step : Steps, horizon : 0 .. MaxClock, page : SUBSET Item, got : SUBSET Version, more : BOOLEAN,
     todo : SUBSET Item, item : Item \cup {0}, stamp : 0 .. MaxClock, started : 0 .. MaxClock,
     saved : SUBSET Version, conflicts : SUBSET Version]

Typed ==
    /\ deployment \in Deployments
    /\ rows \in [Item -> Rows]
    /\ clock \in 0 .. MaxClock
    /\ staged \in [Device -> SUBSET Version]
    /\ call \in [Device -> CallType]
    /\ shown \in [Device -> [Item -> 0 .. MaxClock]]
    /\ token \in [Device -> [position : 0 .. MaxClock, session : Sessions, ceiling : 0 .. MaxClock + 1]]
    /\ cursor \in [Device -> [item : Item \cup {0}, stamp : 0 .. MaxClock]]

\* The steps of a request that has fetched its page.
Fetched == {"saving", "writing", "replying", "applied"}

\* What a device presents is older than the horizon of its request, the horizon than the
\* start of its saves, and that than every stamp drawn for them.
Timed(d) ==
    /\ token[d].position <= clock /\ token[d].ceiling <= clock + 1 /\ cursor[d].stamp <= clock
    /\ call[d].step # "idle" =>
         /\ token[d].position <= call[d].horizon /\ token[d].ceiling <= call[d].horizon
         /\ cursor[d].stamp <= call[d].horizon /\ call[d].horizon <= clock
    /\ call[d].step \in Fetched =>
         /\ call[d].horizon <= call[d].started /\ call[d].started <= clock
         /\ \A v \in call[d].got : v.stamp <= call[d].started
         /\ \A v \in call[d].saved : call[d].started < v.stamp /\ v.stamp <= clock
    /\ call[d].step \notin Fetched => call[d].saved = {}
    /\ call[d].step = "writing" =>
         call[d].started < call[d].stamp /\ call[d].stamp <= clock /\ call[d].item \in Item
    /\ staged[d] # {} => call[d].step \in {"saving", "writing"}
    /\ staged[d] \subseteq call[d].saved

TimeInv ==
    /\ \A i \in Item : rows[i].stamp <= clock
    /\ \A d \in Device : Timed(d)

\* A step of one device leaves the others as they are.
Leaves(d) ==
    /\ UNCHANGED deployment
    /\ \A o \in Device \ {d} :
        /\ call'[o] = call[o] /\ staged'[o] = staged[o] /\ shown'[o] = shown[o]
        /\ token'[o] = token[o] /\ cursor'[o] = cursor[o]

LEMMA InTime ==
    ASSUME Typed, TimeInv, NEW d \in Device, Leaves(d), clock' \in Int, clock <= clock',
           \A i \in Item : rows'[i].stamp <= clock', Timed(d)'
    PROVE  TimeInv'
<1> SUFFICES ASSUME NEW o \in Device, o # d PROVE Timed(o)'
    BY DEF TimeInv
<1>1. /\ call'[o] = call[o] /\ staged'[o] = staged[o] /\ token'[o] = token[o] /\ cursor'[o] = cursor[o]
      /\ Timed(o)
  BY DEF Leaves, TimeInv
<1>2. /\ clock \in Int /\ token[o].position \in Int /\ token[o].ceiling \in Int /\ cursor[o].stamp \in Int
      /\ call[o].horizon \in Int /\ call[o].started \in Int /\ call[o].stamp \in Int
      /\ \A v \in call[o].saved : v.stamp \in Int
  BY ItemSyncAssumption DEF Typed, CallType, Version
<1>. QED BY <1>1, <1>2 DEF Timed

LEMMA OwnSession ==
    ASSUME deployment \in Deployments, NEW d \in Device
    PROVE  SessionOf(d) \in Session /\ SessionOf(d) # NoSession
  BY ItemSyncAssumption DEF SessionOf

LEMMA IdleCall == Idle \in CallType
  BY ItemSyncAssumption DEF CallType, Idle, Steps

LEMMA InitTimed == Init => Typed /\ TimeInv
<1> SUFFICES ASSUME Init PROVE Typed /\ TimeInv
    OBVIOUS
<1>0. /\ MaxClock \in Nat /\ Item # {} /\ Item \subseteq 1 .. MaxClock /\ Existing \subseteq Item
      /\ Item \in SUBSET (0 .. MaxClock)
  BY ItemSyncAssumption
<1>1. clock \in 0 .. MaxClock /\ clock \in Item /\ \A i \in Item : i <= clock
  BY <1>0, MaxOfBounded DEF Init
<1>2. rows \in [Item -> Rows] /\ \A i \in Item : rows[i].stamp <= clock
  BY <1>0, <1>1 DEF Init, Sessions, Rows
<1>4. /\ staged \in [Device -> SUBSET Version] /\ call \in [Device -> CallType]
      /\ \A d \in Device : staged[d] = {} /\ call[d] = Idle
  BY IdleCall DEF Init
<1>5. shown \in [Device -> [Item -> 0 .. MaxClock]]
  <2>1. \A d \in Device, i \in Item : (IF d \in Synced THEN rows[i].stamp ELSE 0) \in 0 .. MaxClock
    BY <1>0, <1>2 DEF Rows
  <2>. QED BY <2>1 DEF Init
<1>6. ASSUME NEW d \in Device
      PROVE  /\ token[d] \in [position : 0 .. MaxClock, session : Sessions, ceiling : 0 .. MaxClock + 1]
             /\ token[d].position <= clock /\ token[d].ceiling = 0
  <2>1. token[d] = IF d \in Synced THEN [NoToken EXCEPT !.position = clock] ELSE NoToken
    BY DEF Init
  <2>. QED BY <1>0, <1>1, <2>1 DEF NoToken, Sessions
<1>7. token \in [Device -> [position : 0 .. MaxClock, session : Sessions, ceiling : 0 .. MaxClock + 1]]
  BY <1>6 DEF Init
<1>8. /\ cursor \in [Device -> [item : Item \cup {0}, stamp : 0 .. MaxClock]]
      /\ \A d \in Device : cursor[d] = Start
  BY <1>0 DEF Init, Start
<1>9. Typed
  BY <1>1, <1>2, <1>4, <1>5, <1>7, <1>8 DEF Typed, Init
<1>10. \A d \in Device : Timed(d)
  BY <1>1, <1>4, <1>6, <1>8 DEF Timed, Idle, Start, Fetched
<1>. QED BY <1>2, <1>9, <1>10 DEF TimeInv

LEMMA RequestTimed ==
    ASSUME Typed, TimeInv, NEW d \in Device, NEW todo \in SUBSET Item, Request(d, todo)
    PROVE  Typed' /\ TimeInv' /\ Leaves(d)
<1> DEFINE r == [Idle EXCEPT !.step = "reading", !.horizon = clock + 1, !.todo = todo]
<1>0. MaxClock \in Nat /\ clock \in Int /\ clock + 1 \in 0 .. MaxClock /\ clock' = clock + 1
  BY ItemSyncAssumption DEF Request, Typed
<1>1. call' = [call EXCEPT ![d] = r] /\ UNCHANGED <<deployment, rows, staged, shown, token, cursor>>
  BY DEF Request, deviceVars
<1>2. r \in CallType
  BY <1>0, IdleCall DEF CallType, Steps
<1>3. Typed' /\ Leaves(d)
  <2> HIDE DEF r
  <2>. QED BY <1>0, <1>1, <1>2 DEF Typed, Leaves
<1>4. /\ call'[d].step = "reading" /\ call'[d].horizon = clock + 1 /\ call'[d].saved = {}
      /\ staged[d] = {}
  <2>1. call'[d] = r
    BY <1>1 DEF Typed
  <2>2. staged[d] = {}
    BY DEF Request, TimeInv, Timed
  <2>. QED BY <2>1, <2>2 DEF Idle
<1>5. /\ Timed(d) /\ call[d].step = "idle" /\ token[d].position \in Int /\ token[d].ceiling \in Int /\ cursor[d].stamp \in Int
  BY <1>0 DEF Typed, TimeInv, Request
<1>6. Timed(d)'
  BY <1>0, <1>1, <1>4, <1>5 DEF Timed, Fetched
<1>7. \A i \in Item : rows'[i].stamp <= clock'
  BY <1>0, <1>1 DEF TimeInv, Typed, Rows
<1>. QED BY <1>0, <1>3, <1>6, <1>7, InTime

LEMMA RetrievalTimed ==
    ASSUME Typed, TimeInv, NEW d \in Device, ReadDescriptors(d) \/ FetchPage(d)
    PROVE  Typed' /\ TimeInv' /\ Leaves(d)
<1>0. MaxClock \in Nat /\ clock \in 0 .. MaxClock /\ clock \in Int
  BY ItemSyncAssumption DEF Typed
<1>1. UNCHANGED <<deployment, rows, clock, staged, shown, token, cursor>> /\ staged[d] = {}
  BY DEF ReadDescriptors, FetchPage, deviceVars, TimeInv, Timed
<1>2. Timed(d) /\ call[d] \in CallType /\ call[d].saved = {} /\ call[d].step \notin Fetched
      /\ call[d].step # "idle"
  BY DEF TimeInv, Timed, Typed, ReadDescriptors, FetchPage, Fetched
<1>3. CASE ReadDescriptors(d)
  <2> DEFINE r == [call[d] EXCEPT !.step = "fetching", !.page = Page(d)]
  <2>1. call' = [call EXCEPT ![d] = r]
    BY <1>3 DEF ReadDescriptors, Typed
  <2>2. Page(d) \in SUBSET Item
    BY DEF Page, Matching
  <2>3. r \in CallType
    BY <1>2, <2>2 DEF CallType, Steps
  <2>4. Typed' /\ Leaves(d)
    <3> HIDE DEF r
    <3>. QED BY <1>1, <2>1, <2>3 DEF Typed, Leaves
  <2>5. call'[d].step = "fetching" /\ call'[d].horizon = call[d].horizon /\ call'[d].saved = {}
    BY <1>2, <2>1 DEF Typed, CallType
  <2>6. Timed(d)'
    BY <1>1, <1>2, <2>5 DEF Timed, Fetched
  <2>. QED BY <1>0, <1>1, <2>4, <2>6, InTime DEF TimeInv
<1>4. CASE FetchPage(d)
  <2> DEFINE got == {At(i) : i \in call[d].page}
             more == Cardinality(Matching(d)) > Limit
             r == [call[d] EXCEPT !.step = "saving", !.got = got, !.more = more, !.started = clock]
  <2>1. call' = [call EXCEPT ![d] = r]
    BY <1>4 DEF FetchPage, Typed
  <2>2. got \subseteq Version /\ \A v \in got : v.stamp <= clock
    <3>1. call[d].page \subseteq Item
      BY <1>2 DEF CallType
    <3>2. \A i \in Item : At(i) \in Version /\ At(i).stamp <= clock
      BY DEF At, Version, Typed, TimeInv, Rows
    <3>. QED BY <3>1, <3>2
  <2>3. r \in CallType
    <3>1. more \in BOOLEAN
      OBVIOUS
    <3> HIDE DEF got, more
    <3>. QED BY <1>0, <1>2, <2>2, <3>1 DEF CallType, Steps
  <2>4. Typed' /\ Leaves(d)
    <3> HIDE DEF r
    <3>. QED BY <1>1, <2>1, <2>3 DEF Typed, Leaves
  <2>5. /\ call'[d].step = "saving" /\ call'[d].horizon = call[d].horizon /\ call'[d].saved = {}
        /\ call'[d].started = clock /\ call'[d].got = got
    <3> HIDE DEF got, more
    <3>. QED BY <1>2, <2>1 DEF Typed, CallType
  <2>6. Timed(d)'
    <3> HIDE DEF got, more
    <3>. QED BY <1>0, <1>1, <1>2, <2>2, <2>5 DEF Timed, Fetched
  <2>. QED BY <1>0, <1>1, <2>4, <2>6, InTime DEF TimeInv
<1>. QED BY <1>3, <1>4

\* The request records what became of an item.
LEMMA DecidedCall ==
    ASSUME NEW c \in CallType, NEW todo \in SUBSET Item
    PROVE  /\ [c EXCEPT !.step = "saving", !.item = 0, !.stamp = 0, !.todo = todo] \in CallType
           /\ \A s \in SUBSET Version :
                /\ [c EXCEPT !.step = "saving", !.item = 0, !.stamp = 0, !.todo = todo, !.saved = s] \in CallType
                /\ [c EXCEPT !.step = "saving", !.item = 0, !.stamp = 0, !.todo = todo, !.conflicts = s] \in CallType
<1>1. "saving" \in Steps /\ 0 \in Item \cup {0} /\ 0 \in 0 .. MaxClock
  BY ItemSyncAssumption DEF Steps
<1>. QED BY <1>1 DEF CallType

\* An item is decided without being saved.
LEMMA DecidedTimed ==
    ASSUME Typed, TimeInv, NEW d \in Device, NEW r \in CallType, call' = [call EXCEPT ![d] = r],
           UNCHANGED <<deployment, rows, clock, staged, shown, token, cursor>>,
           call[d].step \in {"saving", "writing"}, r.step = "saving",
           r.horizon = call[d].horizon, r.started = call[d].started, r.got = call[d].got,
           r.saved = call[d].saved
    PROVE  Typed' /\ TimeInv' /\ Leaves(d) /\ call'[d] = r
<1>1. Typed' /\ Leaves(d) /\ call'[d] = r
  BY DEF Typed, Leaves
<1>2. Timed(d)
  BY DEF TimeInv
<1>3. Timed(d)'
  BY <1>1, <1>2 DEF Timed, Fetched
<1>4. clock \in Int /\ \A i \in Item : rows'[i].stamp <= clock'
  BY ItemSyncAssumption DEF Typed, TimeInv
<1>. QED BY <1>1, <1>3, <1>4, InTime

\* What such a step keeps of the request.
KeepsCall(d) ==
    /\ call'[d].horizon = call[d].horizon /\ call'[d].started = call[d].started
    /\ call'[d].got = call[d].got /\ call'[d].more = call[d].more

LEMMA ConflictTimed ==
    ASSUME Typed, TimeInv, NEW d \in Device, NEW i \in Item,
           call[d].step \in {"saving", "writing"}, call' = [call EXCEPT ![d] = Conflicting(d, i)],
           UNCHANGED <<deployment, rows, clock, staged, shown, token, cursor>>
    PROVE  /\ Typed' /\ TimeInv' /\ Leaves(d) /\ KeepsCall(d)
           /\ call'[d].step = "saving" /\ call'[d].saved = call[d].saved
<1> DEFINE r == Conflicting(d, i)
<1>1. call[d] \in CallType /\ At(i) \in Version
  BY DEF Typed, At, Version, Rows
<1>2. MaxClock \in Nat
  BY ItemSyncAssumption
<1>3. /\ r.step = "saving" /\ r.saved = call[d].saved /\ r.horizon = call[d].horizon
      /\ r.started = call[d].started /\ r.got = call[d].got /\ r.more = call[d].more
  BY <1>1 DEF Conflicting, CallType
<1>a. r \in CallType
  <2> DEFINE todo == call[d].todo \ {i}
             conflicts == call[d].conflicts \cup {At(i)}
  <2>1. todo \in SUBSET Item /\ conflicts \in SUBSET Version
    BY <1>1 DEF CallType
  <2>2. r = [call[d] EXCEPT !.step = "saving", !.item = 0, !.stamp = 0, !.todo = todo, !.conflicts = conflicts]
    BY <1>1 DEF Conflicting, CallType
  <2> HIDE DEF todo, conflicts, r
  <2>. QED BY <1>1, <2>1, <2>2, DecidedCall
<1>4. Typed' /\ TimeInv' /\ Leaves(d) /\ call'[d] = r
  <2>1. call' = [call EXCEPT ![d] = r]
    OBVIOUS
  <2> HIDE DEF r
  <2>. QED BY <2>1, <1>3, <1>a, DecidedTimed
<1>. QED BY <1>3, <1>4 DEF KeepsCall

\* The steps of a save that save nothing.
LEMMA UnsavedTimed ==
    ASSUME Typed, TimeInv, NEW d \in Device,
           (\E i \in Item : Refuse(d, i)) \/ WriteConflict(d) \/ WriteFailed(d)
    PROVE  /\ Typed' /\ TimeInv' /\ Leaves(d) /\ KeepsCall(d)
           /\ call[d].step \in {"saving", "writing"} /\ call'[d].step = "saving"
           /\ call'[d].saved = call[d].saved
           /\ UNCHANGED <<deployment, rows, clock, staged, shown, token, cursor>>
<1>1. /\ UNCHANGED <<deployment, rows, clock, staged, shown, token, cursor>>
      /\ call[d].step \in {"saving", "writing"}
  BY DEF Refuse, WriteConflict, WriteFailed, deviceVars
<1>2. ASSUME NEW i \in Item, Refuse(d, i)
      PROVE  call' = [call EXCEPT ![d] = Conflicting(d, i)]
  BY <1>2 DEF Refuse
<1>3. CASE WriteConflict(d)
  <2>1. call[d].item \in Item
    BY <1>3 DEF WriteConflict, TimeInv, Timed
  <2>2. call' = [call EXCEPT ![d] = Conflicting(d, call[d].item)]
    BY <1>3 DEF WriteConflict
  <2>. QED BY <1>1, <2>1, <2>2, ConflictTimed
<1>4. CASE WriteFailed(d)
  <2> DEFINE r == [call[d] EXCEPT !.step = "saving", !.item = 0, !.stamp = 0, !.todo = @ \ {call[d].item}]
  <2>1. call' = [call EXCEPT ![d] = r]
    BY <1>4 DEF WriteFailed, Typed
  <2>2. MaxClock \in Nat /\ call[d] \in CallType
    BY ItemSyncAssumption DEF Typed
  <2>3. /\ r.step = "saving" /\ r.saved = call[d].saved /\ r.horizon = call[d].horizon
        /\ r.started = call[d].started /\ r.got = call[d].got /\ r.more = call[d].more
    BY <2>2 DEF CallType
  <2>a. r \in CallType
    <3> DEFINE todo == call[d].todo \ {call[d].item}
    <3>1. todo \in SUBSET Item
      BY <2>2 DEF CallType
    <3>2. r = [call[d] EXCEPT !.step = "saving", !.item = 0, !.stamp = 0, !.todo = todo]
      BY <2>2 DEF CallType
    <3> HIDE DEF todo, r
    <3>. QED BY <2>2, <3>1, <3>2, DecidedCall
  <2>4. Typed' /\ TimeInv' /\ Leaves(d) /\ call'[d] = r
    <3> HIDE DEF r
    <3>. QED BY <1>1, <2>1, <2>3, <2>a, DecidedTimed
  <2>. QED BY <1>1, <2>3, <2>4 DEF KeepsCall
<1>. QED BY <1>1, <1>2, <1>3, <1>4, ConflictTimed

\* A stamp is drawn: the next reading of the clock, which is past every row.
LEMMA StampTimed ==
    ASSUME Typed, TimeInv, NEW d \in Device, NEW i \in Item, Stamp(d, i)
    PROVE  /\ Typed' /\ TimeInv' /\ Leaves(d) /\ KeepsCall(d)
           /\ call[d].step = "saving" /\ call'[d].step = "writing" /\ call'[d].saved = call[d].saved
           /\ call'[d].stamp = clock + 1
           /\ UNCHANGED <<deployment, rows, staged, shown, token, cursor>>
<1>0. MaxClock \in Nat /\ clock \in Int /\ clock + 1 \in 0 .. MaxClock /\ clock' = clock + 1
  BY ItemSyncAssumption DEF Stamp, Typed
<1>1. Max({clock', rows[i].stamp + 1}) = clock + 1
  <2>1. rows[i].stamp \in Int /\ rows[i].stamp <= clock
    BY ItemSyncAssumption DEF Typed, TimeInv, Rows
  <2>. QED BY <1>0, <2>1, MaxOfTwo
<1> DEFINE r == [call[d] EXCEPT !.step = "writing", !.item = i, !.stamp = clock + 1]
<1>2. call' = [call EXCEPT ![d] = r] /\ UNCHANGED <<deployment, rows, staged, shown, token, cursor>> /\ call[d].step = "saving"
  BY <1>1 DEF Stamp, Typed, deviceVars
<1>3. call[d] \in CallType
  BY DEF Typed
<1>4. /\ r \in CallType /\ r.step = "writing" /\ r.saved = call[d].saved /\ r.horizon = call[d].horizon
      /\ r.started = call[d].started /\ r.got = call[d].got /\ r.more = call[d].more /\ r.stamp = clock + 1
      /\ r.item = i
  BY <1>0, <1>3 DEF CallType, Steps
<1> HIDE DEF r
<1>5. Typed' /\ Leaves(d) /\ call'[d] = r
  BY <1>0, <1>2, <1>4 DEF Typed, Leaves
<1>6. /\ Timed(d) /\ token[d].position \in Int /\ token[d].ceiling \in Int /\ cursor[d].stamp \in Int
      /\ call[d].horizon \in Int /\ call[d].started \in Int
      /\ \A v \in call[d].saved : v.stamp \in Int
  BY <1>0, <1>3 DEF Typed, TimeInv, CallType, Version
<1>7. Timed(d)'
  BY <1>0, <1>2, <1>4, <1>5, <1>6 DEF Timed, Fetched
<1>8. \A j \in Item : rows'[j].stamp <= clock'
  BY <1>0, <1>2 DEF TimeInv, Typed, Rows
<1>9. TimeInv'
  BY <1>0, <1>5, <1>7, <1>8, InTime
<1>. QED BY <1>2, <1>4, <1>5, <1>9 DEF KeepsCall

LEMMA WriteTimed ==
    ASSUME Typed, TimeInv, NEW d \in Device, Write(d)
    PROVE  /\ Typed' /\ TimeInv' /\ Leaves(d) /\ KeepsCall(d)
           /\ call[d].step = "writing" /\ call'[d].step = "saving"
           /\ \A v \in call[d].saved : v \in call'[d].saved
           /\ \A v \in staged'[d] : v \in staged[d] \/ v.stamp = call[d].stamp
           /\ UNCHANGED <<deployment, rows, clock, shown, token, cursor>>
<1> DEFINE v == [item |-> call[d].item, stamp |-> call[d].stamp]
           r == Saved(d, v)
<1>0. MaxClock \in Nat /\ clock \in Int
  BY ItemSyncAssumption DEF Typed
<1>1. /\ call' = [call EXCEPT ![d] = r] /\ staged' = [staged EXCEPT ![d] = @ \cup {v}]
      /\ UNCHANGED <<deployment, rows, clock, shown, token, cursor>> /\ call[d].step = "writing"
  BY DEF Write, deviceVars
<1>2. call[d] \in CallType /\ call[d].item \in Item /\ v \in Version
      /\ call[d].started < v.stamp /\ v.stamp <= clock /\ v.stamp = call[d].stamp
  BY <1>1 DEF Typed, TimeInv, Timed, CallType, Version
<1> HIDE DEF v
<1>3. /\ r.step = "saving" /\ r.saved = call[d].saved \cup {v} /\ r.horizon = call[d].horizon
      /\ r.started = call[d].started /\ r.got = call[d].got /\ r.more = call[d].more
  BY <1>2 DEF CallType, Saved
<1>a. r \in CallType
  <2> DEFINE todo == call[d].todo \ {v.item}
             saved == call[d].saved \cup {v}
  <2>1. todo \in SUBSET Item /\ saved \in SUBSET Version
    BY <1>2 DEF CallType
  <2>2. r = [call[d] EXCEPT !.step = "saving", !.item = 0, !.stamp = 0, !.todo = todo, !.saved = saved]
    BY <1>2 DEF Saved, CallType
  <2> HIDE DEF todo, saved, r
  <2>. QED BY <1>2, <2>1, <2>2, DecidedCall
<1> HIDE DEF r
<1>4. Typed' /\ Leaves(d) /\ call'[d] = r /\ staged'[d] = staged[d] \cup {v}
  BY <1>1, <1>2, <1>a DEF Typed, Leaves
<1>5. Timed(d)
  BY DEF TimeInv
<1>6. Timed(d)'
  BY <1>1, <1>2, <1>3, <1>4, <1>5 DEF Timed, Fetched
<1>7. TimeInv'
  BY <1>0, <1>1, <1>4, <1>6, InTime DEF TimeInv
<1>. QED BY <1>1, <1>2, <1>3, <1>4, <1>7 DEF KeepsCall

\* The committed rows: each written one with one of the stamps drawn for it.
LEMMA CommitTimed ==
    ASSUME Typed, TimeInv, NEW d \in Device, Commit(d)
    PROVE  /\ Typed' /\ TimeInv' /\ Leaves(d) /\ KeepsCall(d)
           /\ call[d].step = "saving" /\ call'[d].step = "replying" /\ call'[d].saved = call[d].saved
           /\ \A i \in Item :
                \/ rows'[i] = rows[i]
                \/ /\ rows'[i].session = SessionOf(d) /\ rows'[i].by = {d}
                   /\ \E v \in staged[d] : v.item = i /\ v.stamp = rows'[i].stamp
           /\ staged'[d] = {}
           /\ UNCHANGED <<deployment, clock, shown, token, cursor>>
<1>0. MaxClock \in Nat /\ clock \in Int
  BY ItemSyncAssumption DEF Typed
<1> DEFINE r == [call[d] EXCEPT !.step = "replying"]
<1>1. /\ call' = [call EXCEPT ![d] = r] /\ staged' = [staged EXCEPT ![d] = {}]
      /\ UNCHANGED <<deployment, clock, shown, token, cursor>> /\ call[d].step = "saving"
  BY DEF Commit, Typed, deviceVars
<1>2. call[d] \in CallType
  BY DEF Typed
<1>3. /\ r \in CallType /\ r.step = "replying" /\ r.saved = call[d].saved /\ r.horizon = call[d].horizon
      /\ r.started = call[d].started /\ r.got = call[d].got /\ r.more = call[d].more
  BY <1>2 DEF CallType, Steps
<1> HIDE DEF r
<1>4. \A i \in Item :
        \/ rows'[i] = rows[i]
        \/ /\ rows'[i].session = SessionOf(d) /\ rows'[i].by = {d}
           /\ \E v \in staged[d] : v.item = i /\ v.stamp = rows'[i].stamp
  BY DEF Commit
<1>5. \A v \in staged[d] : v \in call[d].saved /\ v.stamp \in 0 .. MaxClock /\ v.stamp <= clock
  BY <1>1 DEF TimeInv, Timed, Typed, Version, Fetched
<1>6. rows' \in [Item -> Rows]
  <2> DEFINE new(i) == IF \E v \in staged[d] : v.item = i
                       THEN [stamp |-> (CHOOSE v \in staged[d] : v.item = i).stamp, session |-> SessionOf(d), by |-> {d}]
                       ELSE rows[i]
  <2>1. rows' = [i \in Item |-> new(i)]
    BY DEF Commit
  <2>2. ASSUME NEW i \in Item PROVE new(i) \in Rows
    <3>1. CASE \E v \in staged[d] : v.item = i
      <4>1. (CHOOSE v \in staged[d] : v.item = i) \in staged[d]
        BY <3>1
      <4>2. (CHOOSE v \in staged[d] : v.item = i).stamp \in 0 .. MaxClock /\ SessionOf(d) \in Sessions
        BY <1>5, <4>1, OwnSession DEF Sessions, Typed
      <4>. QED BY <3>1, <4>2 DEF Rows
    <3>2. CASE ~\E v \in staged[d] : v.item = i
      BY <3>2 DEF Typed
    <3>. QED BY <3>1, <3>2
  <2> HIDE DEF new
  <2>. QED BY <2>1, <2>2
<1>7. Typed' /\ Leaves(d) /\ call'[d] = r /\ staged'[d] = {}
  BY <1>1, <1>3, <1>6 DEF Typed, Leaves
<1>8. \A i \in Item : rows'[i].stamp <= clock'
  BY <1>1, <1>4, <1>5 DEF TimeInv
<1>9. Timed(d)
  BY DEF TimeInv
<1>10. Timed(d)'
  BY <1>1, <1>3, <1>7, <1>9 DEF Timed, Fetched
<1>11. TimeInv'
  BY <1>0, <1>1, <1>7, <1>8, <1>10, InTime
<1>. QED BY <1>1, <1>3, <1>4, <1>7, <1>11 DEF KeepsCall

\* A request that is given up, or whose answer the device dies over, is forgotten.
LEMMA GivenUpTimed ==
    ASSUME Typed, TimeInv, NEW d \in Device, Fail(d) \/ DeviceDies(d)
    PROVE  /\ Typed' /\ TimeInv' /\ Leaves(d) /\ call'[d] = Idle /\ staged'[d] = {}
           /\ UNCHANGED <<deployment, rows, clock, shown, token, cursor>>
<1>1. /\ call' = [call EXCEPT ![d] = Idle] /\ UNCHANGED <<deployment, rows, clock, shown, token, cursor>>
      /\ staged' = [staged EXCEPT ![d] = {}]
  <2>1. CASE Fail(d)
    BY <2>1 DEF Fail, deviceVars
  <2>2. CASE DeviceDies(d)
    <3>1. staged[d] = {}
      BY <2>2 DEF DeviceDies, TimeInv, Timed
    <3>. QED BY <2>2, <3>1 DEF DeviceDies, deviceVars, Typed
  <2>. QED BY <2>1, <2>2
<1>2. Typed' /\ Leaves(d) /\ call'[d] = Idle /\ staged'[d] = {}
  BY <1>1, IdleCall DEF Typed, Leaves
<1>3. Timed(d) /\ Idle.step = "idle" /\ Idle.saved = {}
  BY DEF TimeInv, Idle
<1>4. Timed(d)'
  BY <1>1, <1>2, <1>3 DEF Timed, Fetched
<1>5. clock \in Int
  BY ItemSyncAssumption DEF Typed
<1>. QED BY <1>1, <1>2, <1>4, <1>5, InTime DEF TimeInv

\* What a device is shown it takes up, and nothing older in its place.
LEMMA ApplyTimed ==
    ASSUME Typed, TimeInv, NEW d \in Device, Apply(d)
    PROVE  /\ Typed' /\ TimeInv' /\ Leaves(d) /\ KeepsCall(d)
           /\ call[d].step = "replying" /\ call'[d].step = "applied" /\ call'[d].saved = call[d].saved
           /\ \A i \in Item :
                /\ shown[d][i] <= shown'[d][i]
                /\ \A v \in call[d].got \cup call[d].saved : v.item = i => v.stamp <= shown'[d][i]
           /\ UNCHANGED <<deployment, rows, clock, staged, token, cursor>>
<1> DEFINE news == call[d].got \cup call[d].saved \cup call[d].conflicts
           stamps(i) == {shown[d][i]} \cup {v.stamp : v \in {v \in news : v.item = i}}
           r == [call[d] EXCEPT !.step = "applied"]
<1>0. MaxClock \in Nat /\ clock \in Int /\ call[d] \in CallType
  BY ItemSyncAssumption DEF Typed
<1>1. /\ call' = [call EXCEPT ![d] = r] /\ UNCHANGED <<deployment, rows, clock, staged, token, cursor>>
      /\ shown' = [shown EXCEPT ![d] = [i \in Item |-> Max(stamps(i))]] /\ call[d].step = "replying"
  BY DEF Apply, Typed
<1>2. /\ r \in CallType /\ r.step = "applied" /\ r.saved = call[d].saved /\ r.horizon = call[d].horizon
      /\ r.started = call[d].started /\ r.got = call[d].got /\ r.more = call[d].more
  BY <1>0 DEF CallType, Steps
<1>3. ASSUME NEW i \in Item
      PROVE  /\ Max(stamps(i)) \in 0 .. MaxClock /\ shown[d][i] <= Max(stamps(i))
             /\ \A v \in call[d].got \cup call[d].saved : v.item = i => v.stamp <= Max(stamps(i))
  <2>1. \A v \in news : v.stamp \in 0 .. MaxClock
    BY <1>0 DEF CallType, Version
  <2>2. shown[d][i] \in 0 .. MaxClock
    BY DEF Typed
  <2>3. stamps(i) \in SUBSET (0 .. MaxClock) /\ stamps(i) # {} /\ shown[d][i] \in stamps(i)
    BY <2>1, <2>2
  <2>4. \A v \in call[d].got \cup call[d].saved : v.item = i => v.stamp \in stamps(i)
    OBVIOUS
  <2>5. Max(stamps(i)) \in stamps(i) /\ \A x \in stamps(i) : x <= Max(stamps(i))
    <3> HIDE DEF stamps
    <3>. QED BY <1>0, <2>3, MaxOfBounded
  <2> HIDE DEF stamps
  <2>. QED BY <2>3, <2>4, <2>5
<1> HIDE DEF r, stamps
<1>4. /\ shown' \in [Device -> [Item -> 0 .. MaxClock]] /\ \A i \in Item : shown'[d][i] = Max(stamps(i))
      /\ \A o \in Device \ {d} : shown'[o] = shown[o]
  BY <1>1, <1>3 DEF Typed
<1>5. Typed' /\ Leaves(d) /\ call'[d] = r
  BY <1>1, <1>2, <1>4 DEF Typed, Leaves
<1>6. Timed(d)
  BY DEF TimeInv
<1>7. Timed(d)'
  BY <1>1, <1>2, <1>5, <1>6 DEF Timed, Fetched
<1>8. TimeInv'
  BY <1>0, <1>1, <1>5, <1>7, InTime DEF TimeInv
<1>. QED BY <1>1, <1>2, <1>3, <1>4, <1>5, <1>8 DEF KeepsCall

\* The save token is past the start of the saves and every stamp drawn for them.
LEMMA SavePosition ==
    ASSUME Typed, TimeInv, NEW d \in Device, call[d].step \in Fetched
    PROVE  /\ SaveTokenPosition(d) \in Int /\ SaveTokenPosition(d) <= clock + 1
           /\ call[d].started < SaveTokenPosition(d)
           /\ \A v \in call[d].saved : v.stamp < SaveTokenPosition(d)
<1> DEFINE stamps == {v.stamp : v \in call[d].saved}
<1>0. MaxClock \in Nat /\ clock \in Int /\ call[d] \in CallType /\ call[d].started \in Int
  BY ItemSyncAssumption DEF Typed, CallType
<1>1. /\ call[d].started <= clock
      /\ \A v \in call[d].saved : call[d].started < v.stamp /\ v.stamp <= clock
  BY DEF TimeInv, Timed
<1>2. CASE call[d].saved = {}
  BY <1>0, <1>1, <1>2 DEF SaveTokenPosition
<1>3. CASE call[d].saved # {}
  <2>1. \A v \in call[d].saved : v.stamp \in 0 .. MaxClock
    BY <1>0 DEF CallType, Version
  <2>2. stamps \in SUBSET (0 .. MaxClock) /\ stamps # {}
    BY <1>3, <2>1
  <2>3. Max(stamps) \in stamps /\ \A x \in stamps : x <= Max(stamps)
    <3> HIDE DEF stamps
    <3>. QED BY <1>0, <2>2, MaxOfBounded
  <2>4. PICK w \in call[d].saved : w.stamp = Max(stamps)
    BY <2>3
  <2>5. \A v \in call[d].saved : v.stamp \in stamps
    OBVIOUS
  <2>6. SaveTokenPosition(d) = 1 + Max(stamps)
    BY <1>3 DEF SaveTokenPosition
  <2> HIDE DEF stamps
  <2>. QED BY <1>0, <1>1, <2>1, <2>3, <2>4, <2>5, <2>6
<1>. QED BY <1>2, <1>3

\* The position a response claims is its retrieval horizon, and the own-write skip reaches
\* from there to the save token.
LEMMA ClaimedToken ==
    ASSUME Typed, TimeInv, NEW d \in Device, call[d].step \in Fetched
    PROVE  ResponseToken(d) = [position |-> call[d].horizon,
                               session |-> IF call[d].saved # {} THEN SessionOf(d) ELSE NoSession,
                               ceiling |-> IF call[d].saved # {} THEN SaveTokenPosition(d) ELSE 0]
<1>1. /\ call[d].horizon \in Int /\ call[d].started \in Int /\ call[d].horizon <= call[d].started
  BY ItemSyncAssumption DEF Typed, CallType, TimeInv, Timed, Fetched
<1>2. Min({SaveTokenPosition(d), call[d].horizon}) = call[d].horizon /\ call[d].horizon < SaveTokenPosition(d)
  BY <1>1, SavePosition, MinOfTwo
<1>. QED BY <1>2 DEF ResponseToken

\* The cursor a response hands out is a row it fetched, the last one.
LEMMA ClaimedCursor ==
    ASSUME Typed, TimeInv, NEW d \in Device, call[d].step \in Fetched
    PROVE  \/ ResponseCursor(d) = Start /\ (call[d].more => call[d].got = {})
           \/ /\ call[d].more /\ ResponseCursor(d) \in call[d].got
              /\ \A w \in call[d].got : ~Beyond(w, ResponseCursor(d))
              /\ ResponseCursor(d) \in Version /\ ResponseCursor(d).stamp <= call[d].started
<1>1. call[d].got \subseteq Version /\ \A v \in call[d].got : v.stamp <= call[d].started
  BY DEF Typed, CallType, TimeInv, Timed
<1>2. CASE call[d].more /\ call[d].got # {}
  <2>1. \E v \in call[d].got : \A w \in call[d].got : ~Beyond(w, v)
    BY <1>1, <1>2, LastOfPage
  <2>. QED BY <1>1, <1>2, <2>1 DEF ResponseCursor
<1>3. CASE ~(call[d].more /\ call[d].got # {})
  BY <1>3 DEF ResponseCursor
<1>. QED BY <1>2, <1>3

LEMMA CheckpointTimed ==
    ASSUME Typed, TimeInv, NEW d \in Device, Checkpoint(d)
    PROVE  /\ Typed' /\ TimeInv' /\ Leaves(d) /\ call[d].step = "applied" /\ call'[d] = Idle /\ staged[d] = {}
           /\ token'[d] = ResponseToken(d) /\ cursor'[d] = ResponseCursor(d)
           /\ UNCHANGED <<deployment, rows, clock, staged, shown>>
<1>0. /\ MaxClock \in Nat /\ clock \in Int /\ clock <= MaxClock /\ call[d] \in CallType
      /\ call[d].horizon \in 0 .. MaxClock /\ call[d].started \in 0 .. MaxClock
  BY ItemSyncAssumption DEF Typed, CallType
<1>1. /\ call' = [call EXCEPT ![d] = Idle] /\ UNCHANGED <<deployment, rows, clock, staged, shown>>
      /\ token' = [token EXCEPT ![d] = ResponseToken(d)] /\ cursor' = [cursor EXCEPT ![d] = ResponseCursor(d)]
      /\ call[d].step = "applied" /\ call[d].step \in Fetched
  BY DEF Checkpoint, Fetched
<1>2. staged[d] = {} /\ call[d].horizon <= call[d].started /\ call[d].started <= clock
  BY <1>1 DEF TimeInv, Timed
<1>3. /\ ResponseToken(d) \in [position : 0 .. MaxClock, session : Sessions, ceiling : 0 .. MaxClock + 1]
      /\ ResponseToken(d).position = call[d].horizon /\ ResponseToken(d).ceiling <= clock + 1
  <2>1. SaveTokenPosition(d) \in 0 .. MaxClock + 1 /\ SaveTokenPosition(d) <= clock + 1
    BY <1>0, <1>1, <1>2, SavePosition
  <2>2. SessionOf(d) \in Sessions /\ NoSession \in Sessions
    BY OwnSession DEF Sessions, Typed
  <2>. QED BY <1>0, <1>1, <1>2, <2>1, <2>2, ClaimedToken
<1>4. ResponseCursor(d) \in [item : Item \cup {0}, stamp : 0 .. MaxClock] /\ ResponseCursor(d).stamp <= clock
  <2>1. ResponseCursor(d) = Start \/ (ResponseCursor(d) \in Version /\ ResponseCursor(d).stamp <= call[d].started)
    BY <1>1, ClaimedCursor
  <2>2. Start \in [item : Item \cup {0}, stamp : 0 .. MaxClock] /\ Start.stamp = 0
    BY <1>0 DEF Start
  <2>. QED BY <1>0, <1>2, <2>1, <2>2 DEF Version
<1>5. Typed' /\ Leaves(d) /\ call'[d] = Idle /\ token'[d] = ResponseToken(d) /\ cursor'[d] = ResponseCursor(d)
  BY <1>1, <1>3, <1>4, IdleCall DEF Typed, Leaves
<1>6. Idle.step = "idle" /\ Idle.saved = {}
  BY DEF Idle
<1>7. Timed(d)'
  BY <1>0, <1>1, <1>2, <1>3, <1>4, <1>5, <1>6 DEF Timed, Fetched
<1>8. TimeInv'
  BY <1>0, <1>1, <1>5, <1>7, InTime DEF TimeInv
<1>. QED BY <1>1, <1>2, <1>5, <1>8

LEMMA NextTimed == Typed /\ TimeInv /\ [Next]_vars => Typed' /\ TimeInv'
<1> SUFFICES ASSUME Typed, TimeInv, [Next]_vars PROVE Typed' /\ TimeInv'
    OBVIOUS
<1>1. ASSUME NEW d \in Device, NEW todo \in SUBSET Item, Request(d, todo) PROVE Typed' /\ TimeInv'
  BY <1>1, RequestTimed
<1>2. ASSUME NEW d \in Device, Serve(d) PROVE Typed' /\ TimeInv'
  BY <1>2, RetrievalTimed, UnsavedTimed, StampTimed, WriteTimed, CommitTimed, GivenUpTimed
     DEF Serve, SaveNextItem
<1>3. ASSUME NEW d \in Device, Apply(d) \/ Checkpoint(d) \/ DeviceDies(d) PROVE Typed' /\ TimeInv'
  BY <1>3, ApplyTimed, CheckpointTimed, GivenUpTimed
<1>4. CASE UNCHANGED vars
  BY <1>4 DEF vars, deviceVars, Typed, TimeInv, Timed
<1>. QED BY <1>1, <1>2, <1>3, <1>4 DEF Next

LEMMA TimedInvariant == Spec => [](Typed /\ TimeInv)
  BY InitTimed, NextTimed, PTL DEF Spec

\* The variables have their types; in particular no position is past the clock, and a page,
\* a cursor and a token are always ones the server can make.
THEOREM ItemsTyped == Spec => []TypeOK
<1>1. Typed /\ TimeInv => TypeOK
  <2> SUFFICES ASSUME Typed, TimeInv PROVE TypeOK
    OBVIOUS
  <2>1. ASSUME NEW d \in Device
        PROVE  /\ staged[d] \subseteq Version
               /\ call[d].step \in Steps /\ call[d].page \subseteq Item /\ call[d].todo \subseteq Item
               /\ call[d].got \cup call[d].saved \cup call[d].conflicts \subseteq Version
               /\ shown[d] \in [Item -> 0 .. MaxClock]
               /\ token[d].position \in 0 .. MaxClock /\ token[d].ceiling \in 0 .. MaxClock + 1
    BY DEF Typed, CallType
  <2>2. /\ deployment \in Deployments
        /\ rows \in [Item -> [stamp : 0 .. MaxClock, session : Session \cup {NoSession}, by : SUBSET Device]]
        /\ clock \in 0 .. MaxClock
    BY DEF Typed, Rows, Sessions
  <2>. QED BY <2>1, <2>2 DEF TypeOK
<1>. QED BY <1>1, TimedInvariant, PTL

-----------------------------------------------------------------------------
(* The device's own writes.                                                 *)

\* A row bears the session of the device that wrote it.
Signed(i) ==
    \/ rows[i].by = {} /\ rows[i].session = NoSession
    \/ \E o \in Device : rows[i].by = {o} /\ rows[i].session = SessionOf(o)

\* What the device saved itself it holds, or is about to: a committed row of its own is
\* withheld from it only between the position and the ceiling of a token it has not yet
\* used, and is past a request's horizon only once that request has committed it.
Own(d) ==
    /\ token[d].session \in {NoSession, SessionOf(d)}
    /\ token[d].session = NoSession => token[d].ceiling = 0
    /\ \A i \in Item : rows[i].by = {d} =>
         /\ (/\ token[d].session = SessionOf(d) /\ token[d].position < rows[i].stamp
             /\ rows[i].stamp <= token[d].ceiling)
            => rows[i].stamp <= shown[d][i]
         /\ call[d].step # "idle" /\ call[d].horizon < rows[i].stamp =>
              \/ call[d].step = "replying" /\ \E v \in call[d].saved : v.item = i /\ v.stamp = rows[i].stamp
              \/ call[d].step = "applied" /\ rows[i].stamp <= shown[d][i]

OwnInv == (\A d \in Device : Own(d)) /\ \A i \in Item : Signed(i)

LEMMA OwnStep ==
    ASSUME OwnInv, NEW d \in Device, Leaves(d), Own(d)',
           \A i \in Item : rows'[i] = rows[i] \/ (rows'[i].by = {d} /\ rows'[i].session = SessionOf(d))
    PROVE  OwnInv'
<1>1. ASSUME NEW o \in Device, o # d PROVE Own(o)'
  <2>1. call'[o] = call[o] /\ shown'[o] = shown[o] /\ token'[o] = token[o] /\ Own(o)
    BY <1>1 DEF Leaves, OwnInv
  <2>2. \A i \in Item : rows'[i].by = {o} => rows'[i] = rows[i]
    BY <1>1
  <2>3. SessionOf(o)' = SessionOf(o)
    BY DEF Leaves, SessionOf
  <2>. QED BY <2>1, <2>2, <2>3 DEF Own
<1>2. ASSUME NEW i \in Item PROVE Signed(i)'
  <2>1. \A o \in Device : SessionOf(o)' = SessionOf(o)
    BY DEF Leaves, SessionOf
  <2>2. Signed(i)
    BY DEF OwnInv
  <2>. QED BY <2>1, <2>2 DEF Signed
<1>. QED BY <1>1, <1>2 DEF OwnInv

\* While a request retrieves and saves, no row of its own is past its horizon.
LEMMA BusyOwn ==
    ASSUME OwnInv, NEW d \in Device, Leaves(d), UNCHANGED <<rows, shown, token>>,
           call[d].step \in {"reading", "fetching", "saving", "writing"}, call'[d].horizon = call[d].horizon
    PROVE  OwnInv'
<1>1. Own(d)
  BY DEF OwnInv
<1>2. SessionOf(d)' = SessionOf(d)
  BY DEF Leaves, SessionOf
<1>3. Own(d)'
  BY <1>1, <1>2 DEF Own
<1>. QED BY <1>3, OwnStep

\* What a request begins with ...
LEMMA RequestCall ==
    ASSUME Typed, NEW d \in Device, NEW todo \in SUBSET Item, Request(d, todo)
    PROVE  /\ call[d].step = "idle" /\ call'[d].step = "reading" /\ call'[d].horizon = clock + 1
           /\ clock' = clock + 1 /\ UNCHANGED <<rows, staged, shown, token, cursor>>
  BY DEF Request, Typed, Idle, deviceVars

\* ... and what its retrieval makes of it.
LEMMA DescriptorsCall ==
    ASSUME Typed, NEW d \in Device, ReadDescriptors(d)
    PROVE  /\ call[d].step = "reading" /\ call'[d].step = "fetching" /\ call'[d].horizon = call[d].horizon
           /\ call'[d].page = Page(d) /\ UNCHANGED <<rows, clock, staged, shown, token, cursor>>
  BY DEF ReadDescriptors, Typed, CallType, deviceVars

LEMMA FetchCall ==
    ASSUME Typed, NEW d \in Device, FetchPage(d)
    PROVE  /\ call[d].step = "fetching" /\ call'[d].step = "saving" /\ call'[d].horizon = call[d].horizon
           /\ call'[d].got = {At(i) : i \in call[d].page} /\ call'[d].started = clock
           /\ call'[d].more = (Cardinality(Matching(d)) > Limit)
           /\ UNCHANGED <<rows, clock, staged, shown, token, cursor>>
<1> DEFINE got == {At(i) : i \in call[d].page}
           more == Cardinality(Matching(d)) > Limit
<1>1. /\ call[d].step = "fetching" /\ UNCHANGED <<rows, clock, staged, shown, token, cursor>>
      /\ call' = [call EXCEPT ![d].step = "saving", ![d].got = got, ![d].more = more, ![d].started = clock]
  BY DEF FetchPage, deviceVars
<1> HIDE DEF got, more
<1>2. /\ call'[d].step = "saving" /\ call'[d].horizon = call[d].horizon
      /\ call'[d].got = got /\ call'[d].started = clock /\ call'[d].more = more
  BY <1>1 DEF Typed, CallType
<1>. QED BY <1>1, <1>2 DEF got, more

LEMMA InitOwn == Init => OwnInv
<1> SUFFICES ASSUME Init PROVE OwnInv
  OBVIOUS
<1>1. \A i \in Item : rows[i].session = NoSession /\ rows[i].by = {}
  BY DEF Init
<1>2. ASSUME NEW d \in Device PROVE Own(d)
  <2>1. call[d] = Idle
    BY DEF Init
  <2>2. token[d].session = NoSession /\ token[d].ceiling = 0
    <3>1. token[d] = IF d \in Synced THEN [NoToken EXCEPT !.position = clock] ELSE NoToken
      BY DEF Init
    <3>. QED BY <3>1 DEF NoToken
  <2>. QED BY <1>1, <2>1, <2>2 DEF Own
<1>. QED BY <1>1, <1>2 DEF OwnInv, Signed

LEMMA RequestOwn ==
    ASSUME Typed, TimeInv, OwnInv, NEW d \in Device, NEW todo \in SUBSET Item, Request(d, todo)
    PROVE  OwnInv'
<1>1. Own(d) /\ Leaves(d)
  BY RequestTimed DEF OwnInv
<1>2. \A i \in Item : rows[i].stamp \in Int /\ rows[i].stamp <= clock /\ clock \in Int
  BY ItemSyncAssumption DEF Typed, TimeInv, Rows
<1>3. SessionOf(d)' = SessionOf(d)
  BY <1>1 DEF Leaves, SessionOf
<1>4. Own(d)'
  BY <1>1, <1>2, <1>3, RequestCall DEF Own
<1>. QED BY <1>1, <1>4, RequestCall, OwnStep

\* A commit is later than every token the device has, and what it commits was saved.
LEMMA CommitOwn ==
    ASSUME Typed, TimeInv, OwnInv, NEW d \in Device, Commit(d)
    PROVE  OwnInv'
<1>1. /\ Own(d) /\ Leaves(d) /\ UNCHANGED <<shown, token>> /\ call[d].step = "saving" /\ call'[d].step = "replying"
      /\ call'[d].horizon = call[d].horizon /\ call'[d].saved = call[d].saved
      /\ \A i \in Item :
           \/ rows'[i] = rows[i]
           \/ /\ rows'[i].session = SessionOf(d) /\ rows'[i].by = {d}
              /\ \E v \in staged[d] : v.item = i /\ v.stamp = rows'[i].stamp
  BY CommitTimed DEF OwnInv, KeepsCall
<1>2. \A v \in staged[d] : v \in call[d].saved /\ token[d].ceiling < v.stamp
  <2>1. /\ token[d].ceiling \in Int /\ call[d].horizon \in Int /\ call[d].started \in Int
        /\ \A v \in call[d].saved : v.stamp \in Int
    BY ItemSyncAssumption DEF Typed, CallType, Version
  <2>. QED BY <1>1, <2>1 DEF TimeInv, Timed, Fetched
<1>3. ASSUME NEW i \in Item, rows'[i].by = {d}
      PROVE  /\ (/\ token[d].session = SessionOf(d) /\ token[d].position < rows'[i].stamp
                 /\ rows'[i].stamp <= token[d].ceiling)
                => rows'[i].stamp <= shown[d][i]
             /\ call[d].horizon < rows'[i].stamp =>
                  \E v \in call[d].saved : v.item = i /\ v.stamp = rows'[i].stamp
  <2>1. CASE rows'[i] = rows[i]
    BY <1>1, <1>3, <2>1 DEF Own
  <2>2. CASE \E v \in staged[d] : v.item = i /\ v.stamp = rows'[i].stamp
    <3>1. PICK v \in staged[d] : v.item = i /\ v.stamp = rows'[i].stamp
      BY <2>2
    <3>2. v \in call[d].saved /\ ~(rows'[i].stamp <= token[d].ceiling)
      <4>1. v.stamp \in Int /\ token[d].ceiling \in Int
        BY ItemSyncAssumption DEF Typed, Version
      <4>. QED BY <1>2, <3>1, <4>1
    <3>. QED BY <3>1, <3>2
  <2>. QED BY <1>1, <2>1, <2>2
<1>4. SessionOf(d)' = SessionOf(d)
  BY <1>1 DEF Leaves, SessionOf
<1>5. Own(d)'
  BY <1>1, <1>3, <1>4 DEF Own
<1>. QED BY <1>1, <1>5, OwnStep

\* The device takes up what it saved.
LEMMA ApplyOwn ==
    ASSUME Typed, TimeInv, OwnInv, NEW d \in Device, Apply(d)
    PROVE  OwnInv'
<1>1. /\ Own(d) /\ Leaves(d) /\ UNCHANGED <<rows, token>> /\ call[d].step = "replying" /\ call'[d].step = "applied"
      /\ call'[d].horizon = call[d].horizon
      /\ \A i \in Item :
           /\ shown[d][i] <= shown'[d][i]
           /\ \A v \in call[d].saved : v.item = i => v.stamp <= shown'[d][i]
  BY ApplyTimed DEF OwnInv, KeepsCall
<1>2. \A i \in Item : rows[i].stamp \in Int /\ shown[d][i] \in Int /\ shown'[d][i] \in Int
  <2>1. Typed'
    BY ApplyTimed
  <2>. QED BY <2>1, ItemSyncAssumption DEF Typed, Rows
<1>3. SessionOf(d)' = SessionOf(d)
  BY <1>1 DEF Leaves, SessionOf
<1>4. Own(d)'
  BY <1>1, <1>2, <1>3 DEF Own
<1>. QED BY <1>1, <1>4, OwnStep

\* The token it persists then withholds what it has taken up.
LEMMA CheckpointOwn ==
    ASSUME Typed, TimeInv, OwnInv, NEW d \in Device, Checkpoint(d)
    PROVE  OwnInv'
<1>1. /\ Own(d) /\ Leaves(d) /\ UNCHANGED <<rows, shown>> /\ call[d].step = "applied" /\ call'[d] = Idle
      /\ token'[d] = ResponseToken(d)
  BY CheckpointTimed DEF OwnInv
<1>2. token'[d] = [position |-> call[d].horizon,
                   session |-> IF call[d].saved # {} THEN SessionOf(d) ELSE NoSession,
                   ceiling |-> IF call[d].saved # {} THEN SaveTokenPosition(d) ELSE 0]
  BY <1>1, ClaimedToken DEF Fetched
<1>3. SessionOf(d)' = SessionOf(d) /\ SessionOf(d) # NoSession
  BY <1>1, OwnSession DEF Leaves, SessionOf, Typed
<1>4. Own(d)'
  BY <1>1, <1>2, <1>3 DEF Own, Idle
<1>. QED BY <1>1, <1>4, OwnStep

LEMMA GivenUpOwn ==
    ASSUME Typed, TimeInv, OwnInv, NEW d \in Device, Fail(d) \/ DeviceDies(d)
    PROVE  OwnInv'
<1>1. Own(d) /\ Leaves(d) /\ UNCHANGED <<rows, shown, token>> /\ call'[d] = Idle
  BY GivenUpTimed DEF OwnInv
<1>2. SessionOf(d)' = SessionOf(d)
  BY <1>1 DEF Leaves, SessionOf
<1>3. Own(d)'
  BY <1>1, <1>2 DEF Own, Idle
<1>. QED BY <1>1, <1>3, OwnStep

LEMMA NextOwn == Typed /\ TimeInv /\ OwnInv /\ [Next]_vars => OwnInv'
<1> SUFFICES ASSUME Typed, TimeInv, OwnInv, [Next]_vars PROVE OwnInv'
  OBVIOUS
<1>1. ASSUME NEW d \in Device, NEW todo \in SUBSET Item, Request(d, todo) PROVE OwnInv'
  BY <1>1, RequestOwn
<1>2. ASSUME NEW d \in Device, ReadDescriptors(d) \/ FetchPage(d) PROVE OwnInv'
  BY <1>2, RetrievalTimed, DescriptorsCall, FetchCall, BusyOwn
<1>3. ASSUME NEW d \in Device, SaveNextItem(d) PROVE OwnInv'
  BY <1>3, UnsavedTimed, StampTimed, WriteTimed, BusyOwn DEF SaveNextItem, KeepsCall
<1>4. ASSUME NEW d \in Device, Apply(d) \/ Checkpoint(d) \/ DeviceDies(d) \/ Commit(d) \/ Fail(d)
      PROVE  OwnInv'
  BY <1>4, ApplyOwn, CheckpointOwn, GivenUpOwn, CommitOwn
<1>5. CASE UNCHANGED vars
  BY <1>5 DEF vars, deviceVars, OwnInv, Own, Signed, SessionOf
<1>. QED BY <1>1, <1>2, <1>3, <1>4, <1>5 DEF Next, Serve

LEMMA OwnInvariant == Spec => [](Typed /\ TimeInv /\ OwnInv)
  BY InitTimed, NextTimed, InitOwn, NextOwn, PTL DEF Spec

\* What the skip of a device may withhold it has, or another tab of its browser wrote.
LEMMA SkipsOwn ==
    ASSUME Typed, OwnInv, NEW d \in Device, NEW i \in Item, token[d].session # NoSession,
           rows[i].session = token[d].session,
           rows[i].stamp > token[d].position, rows[i].stamp <= token[d].ceiling
    PROVE  HasBeenShown(d, i) \/ FromPeerTab(d, i)
<1>1. /\ rows[i].stamp \in Int /\ token[d].position \in Int /\ shown[d][i] \in Int /\ Own(d) /\ Signed(i)
  BY ItemSyncAssumption DEF Typed, Rows, OwnInv
<1>2. rows[i].session = SessionOf(d) /\ rows[i].session # NoSession
  BY <1>1 DEF Own
<1>3. PICK o \in Device : rows[i].by = {o} /\ rows[i].session = SessionOf(o)
  BY <1>1, <1>2 DEF Signed
<1>4. CASE o = d
  BY <1>1, <1>2, <1>3, <1>4 DEF Own, HasBeenShown
<1>5. CASE o # d
  BY <1>2, <1>3, <1>5 DEF FromPeerTab
<1>. QED BY <1>4, <1>5

\* The own-write skip withholds nothing the device lacks but what another tab of its browser
\* saved, for any devices, sessions, items and page size, whatever windows are open: a
\* device that shares its session with no other lacks nothing.
THEOREM SkipsHonest == Spec => []SkipHonest
<1>1. Typed /\ OwnInv => SkipHonest
  BY SkipsOwn DEF SkipHonest
<1>. QED BY <1>1, OwnInvariant, PTL

-----------------------------------------------------------------------------
(* Positions and cursors, where saves and pages are serialised.             *)

\* The stamps a device has drawn and not committed.
Draws(o, x) ==
    \/ \E v \in staged[o] : v.stamp = x
    \/ call[o].step = "writing" /\ call[o].stamp = x

\* Everything a device presents, or is about to claim, is older than the stamp x.
Before(d, x) ==
    /\ token[d].position < x /\ cursor[d].stamp < x
    /\ call[d].step # "idle" => call[d].horizon < x
    /\ call[d].step \in Fetched => call[d].started < x

\* The device has the row, or lacks it for the sake of another tab.
Settled(d, i) == HasBeenShown(d, i) \/ FromPeerTab(d, i)

\* What the token and the cursor promise, of one row.
Told(d, i) == cursor[d] = Start /\ rows[i].stamp <= token[d].position => Settled(d, i)
Passed(d, i) == cursor[d] # Start /\ rows[i].stamp > 0 /\ ~Beyond(At(i), cursor[d]) => Settled(d, i)

\* A request has fetched every row its response is going to claim, unless the device had it.
Fetches(d, i) ==
    /\ call[d].step \in Fetched /\ rows[i].stamp > 0 /\ rows[i].stamp <= call[d].started
    /\ ResponseCursor(d) = Start \/ ~Beyond(At(i), ResponseCursor(d))
    => Settled(d, i) \/ (call[d].step # "applied" /\ At(i) \in call[d].got)

Kept(d) == \A i \in Item : Told(d, i) /\ Passed(d, i) /\ Fetches(d, i)

\* No device claims a row that another has stamped but not committed; a page is still what
\* it was when it was chosen; and every promise is kept, or about to be.
InSeries ==
    /\ \A d, o \in Device : d # o => \A x \in Int : Draws(o, x) => Before(d, x)
    /\ \A d \in Device : call[d].step = "fetching" => call[d].page = Page(d)
    /\ \A d \in Device : Kept(d)

SerialInv == Serialised => InSeries

\* A row that changed bears a stamp its device had drawn, so no promise reaches it.
LEMMA UnclaimedRow ==
    ASSUME Typed, InSeries, NEW d \in Device, NEW o \in Device, o # d, Leaves(d), NEW i \in Item,
           rows'[i].stamp \in Int, Draws(d, rows'[i].stamp)
    PROVE  Told(o, i)' /\ Passed(o, i)' /\ Fetches(o, i)'
<1>1. call'[o] = call[o] /\ shown'[o] = shown[o] /\ token'[o] = token[o] /\ cursor'[o] = cursor[o]
  BY DEF Leaves
<1>2. Before(o, rows'[i].stamp)
  BY DEF InSeries
<1>3. token[o].position \in Int /\ cursor[o].stamp \in Int /\ call[o].started \in Int
  BY ItemSyncAssumption DEF Typed, CallType
<1>4. /\ ~(rows'[i].stamp <= token[o].position) /\ rows'[i].stamp > cursor[o].stamp
      /\ call[o].step \in Fetched => ~(rows'[i].stamp <= call[o].started)
  BY <1>2, <1>3 DEF Before
<1>. QED BY <1>1, <1>4 DEF Told, Passed, Fetches, Beyond, At

\* A row that did not change is claimed and held as before.
LEMMA SameRow ==
    ASSUME InSeries, NEW d \in Device, NEW o \in Device, o # d, Leaves(d), NEW i \in Item,
           rows'[i] = rows[i]
    PROVE  Told(o, i)' /\ Passed(o, i)' /\ Fetches(o, i)'
<1>1. call'[o] = call[o] /\ shown'[o] = shown[o] /\ token'[o] = token[o] /\ cursor'[o] = cursor[o]
  BY DEF Leaves
<1>2. Told(o, i) /\ Passed(o, i) /\ Fetches(o, i)
  BY DEF InSeries, Kept
<1>3. At(i)' = At(i) /\ ResponseCursor(o)' = ResponseCursor(o) /\ Settled(o, i)' = Settled(o, i)
  BY <1>1 DEF At, ResponseCursor, Settled, HasBeenShown, FromPeerTab, SessionOf, Leaves
<1>. QED BY <1>1, <1>2, <1>3 DEF Told, Passed, Fetches

\* What a step of one device has to show for every promise to stay kept.
LEMMA SeriesStep ==
    ASSUME Typed, Typed', TimeInv, InSeries, NEW d \in Device, Leaves(d),
           \A i \in Item : rows'[i] = rows[i] \/ Draws(d, rows'[i].stamp),
           rows' = rows \/ \A o \in Device \ {d} : call[o].step # "fetching",
           \A x \in Int : Draws(d, x)' => Draws(d, x) \/ clock < x,
           \A o \in Device \ {d} : \A x \in Int : Draws(o, x) => Before(d, x)',
           call'[d].step = "fetching" => call'[d].page = Page(d)',
           Kept(d)'
    PROVE  InSeries'
<1>1. ASSUME NEW p \in Device, NEW o \in Device, p # o, NEW x \in Int, Draws(o, x)' PROVE Before(p, x)'
  <2>1. CASE o = d
    <3>1. Before(p, x)
      <4>1. CASE Draws(d, x)
        BY <1>1, <2>1, <4>1 DEF InSeries
      <4>2. CASE clock < x
        <5>1. /\ clock \in Int /\ token[p].position \in Int /\ cursor[p].stamp \in Int
              /\ call[p].horizon \in Int /\ call[p].started \in Int /\ Timed(p)
          BY ItemSyncAssumption DEF Typed, CallType, TimeInv
        <5>. QED BY <4>2, <5>1 DEF Timed, Before
      <4>. QED BY <1>1, <2>1, <4>1, <4>2
    <3>2. call'[p] = call[p] /\ token'[p] = token[p] /\ cursor'[p] = cursor[p]
      BY <1>1, <2>1 DEF Leaves
    <3>. QED BY <3>1, <3>2 DEF Before
  <2>2. CASE o # d
    <3>1. call'[o] = call[o] /\ staged'[o] = staged[o]
      BY <2>2 DEF Leaves
    <3>2. Draws(o, x)
      BY <1>1, <3>1 DEF Draws
    <3>3. CASE p = d
      BY <2>2, <3>2, <3>3
    <3>4. CASE p # d
      <4>1. Before(p, x)
        BY <1>1, <3>2 DEF InSeries
      <4>2. call'[p] = call[p] /\ token'[p] = token[p] /\ cursor'[p] = cursor[p]
        BY <3>4 DEF Leaves
      <4>. QED BY <4>1, <4>2 DEF Before
    <3>. QED BY <3>3, <3>4
  <2>. QED BY <2>1, <2>2
<1>2. ASSUME NEW o \in Device, call'[o].step = "fetching" PROVE call'[o].page = Page(o)'
  <2>1. CASE o # d
    <3>1. call'[o] = call[o] /\ token'[o] = token[o] /\ cursor'[o] = cursor[o]
      BY <2>1 DEF Leaves
    <3>2. rows' = rows /\ call[o].page = Page(o)
      BY <1>2, <2>1, <3>1 DEF InSeries
    <3>3. Page(o)' = Page(o)
      BY <3>1, <3>2 DEF Page, Matching, Matches, At
    <3>. QED BY <3>1, <3>2, <3>3
  <2>. QED BY <1>2, <2>1
<1>3. ASSUME NEW o \in Device, NEW i \in Item PROVE Told(o, i)' /\ Passed(o, i)' /\ Fetches(o, i)'
  <2>1. CASE o # d
    <3>1. rows'[i].stamp \in Int
      BY ItemSyncAssumption DEF Typed, Rows
    <3>. QED BY <2>1, <3>1, UnclaimedRow, SameRow
  <2>2. CASE o = d
    BY <2>2 DEF Kept
  <2>. QED BY <2>1, <2>2
<1>. QED BY <1>1, <1>2, <1>3 DEF InSeries, Kept

\* While one device draws or commits stamps, or reads a page, no other runs.
LEMMA NoOtherDraws ==
    ASSUME Serialised, NEW d \in Device, MayRun(d)
    PROVE  \A o \in Device \ {d} : call[o].step # "fetching" /\ \A x : ~Draws(o, x)
  BY DEF Serialised, MayRun, InWindow, Draws

\* A step within a request changes nothing that its device claims.
LEMMA BusySeries ==
    ASSUME Typed, Typed', TimeInv, InSeries, NEW d \in Device, Leaves(d),
           UNCHANGED <<rows, shown, token, cursor>>, KeepsCall(d),
           call[d].step \in {"saving", "writing"}, call'[d].step \in {"saving", "writing"},
           \A x \in Int : Draws(d, x)' => Draws(d, x) \/ clock < x
    PROVE  InSeries'
<1>1. \A o \in Device \ {d} : \A x \in Int : Draws(o, x) => Before(d, x)'
  <2> SUFFICES ASSUME NEW o \in Device \ {d}, NEW x \in Int, Draws(o, x) PROVE Before(d, x)'
    OBVIOUS
  <2>1. Before(d, x)
    BY DEF InSeries
  <2>. QED BY <2>1 DEF Before, KeepsCall, Fetched
<1>2. Kept(d)'
  <2> SUFFICES ASSUME NEW i \in Item PROVE Told(d, i)' /\ Passed(d, i)' /\ Fetches(d, i)'
    BY DEF Kept
  <2>1. Told(d, i) /\ Passed(d, i) /\ Fetches(d, i)
    BY DEF InSeries, Kept
  <2>2. At(i)' = At(i) /\ ResponseCursor(d)' = ResponseCursor(d) /\ Settled(d, i)' = Settled(d, i)
    BY DEF At, ResponseCursor, Settled, HasBeenShown, FromPeerTab, SessionOf, Leaves, KeepsCall
  <2>. QED BY <2>1, <2>2 DEF Told, Passed, Fetches, KeepsCall, Fetched
<1>. QED BY <1>1, <1>2, SeriesStep

\* The device's claims while no page of its request is fetched.
LEMMA UnfetchedKept ==
    ASSUME InSeries, NEW d \in Device, Leaves(d), UNCHANGED <<rows, shown, token, cursor>>, call'[d].step \notin Fetched
    PROVE  Kept(d)'
<1> SUFFICES ASSUME NEW i \in Item PROVE Told(d, i)' /\ Passed(d, i)' /\ Fetches(d, i)'
  BY DEF Kept
<1>1. Told(d, i) /\ Passed(d, i)
  BY DEF InSeries, Kept
<1>2. At(i)' = At(i) /\ Settled(d, i)' = Settled(d, i)
  BY DEF At, Settled, HasBeenShown, FromPeerTab, SessionOf, Leaves
<1>. QED BY <1>1, <1>2 DEF Told, Passed, Fetches

LEMMA RequestSeries ==
    ASSUME Serialised, Typed, TimeInv, InSeries, NEW d \in Device, NEW todo \in SUBSET Item, Request(d, todo)
    PROVE  InSeries'
<1>1. Typed' /\ Leaves(d) /\ MayRun(d)
  BY RequestTimed DEF Request
<1>2. /\ call'[d].step = "reading" /\ UNCHANGED <<rows, staged, shown, token, cursor>>
  BY RequestCall
<1>3. \A x \in Int : Draws(d, x)' => Draws(d, x)
  BY <1>2 DEF Draws
<1>4. Kept(d)'
  BY <1>1, <1>2, UnfetchedKept DEF Fetched
<1>5. \A o \in Device \ {d} : \A x \in Int : Draws(o, x) => Before(d, x)'
  BY <1>1, NoOtherDraws
<1>. QED BY <1>1, <1>2, <1>3, <1>4, <1>5, SeriesStep

LEMMA DescriptorsSeries ==
    ASSUME Typed, TimeInv, InSeries, NEW d \in Device, ReadDescriptors(d)
    PROVE  InSeries'
<1>1. Typed' /\ Leaves(d)
  BY RetrievalTimed
<1>2. /\ call[d].step = "reading" /\ call'[d].step = "fetching" /\ call'[d].horizon = call[d].horizon
      /\ call'[d].page = Page(d) /\ UNCHANGED <<rows, staged, shown, token, cursor>>
  BY DescriptorsCall
<1>3. \A x \in Int : Draws(d, x)' => Draws(d, x)
  BY <1>2 DEF Draws
<1>4. Kept(d)'
  BY <1>1, <1>2, UnfetchedKept DEF Fetched
<1>5. \A o \in Device \ {d} : \A x \in Int : Draws(o, x) => Before(d, x)'
  <2> SUFFICES ASSUME NEW o \in Device \ {d}, NEW x \in Int, Draws(o, x) PROVE Before(d, x)'
    OBVIOUS
  <2>1. Before(d, x)
    BY DEF InSeries
  <2>. QED BY <1>2, <2>1 DEF Before, Fetched
<1>6. Page(d)' = Page(d)
  BY <1>2 DEF Page, Matching, Matches, At
<1>. QED BY <1>1, <1>2, <1>3, <1>4, <1>5, <1>6, SeriesStep

\* A row a request does not ask for is one the device has: it is at or below its position or
\* its cursor, or one of its own that the skip withholds.
LEMMA UnaskedHeld ==
    ASSUME Typed, TimeInv, OwnInv, InSeries, NEW d \in Device, NEW i \in Item,
           rows[i].stamp > 0, i \notin Matching(d)
    PROVE  Settled(d, i)
<1>1. /\ rows[i].stamp \in Int /\ token[d].position \in Int /\ token[d].ceiling \in Int /\ shown[d][i] \in Int
  BY ItemSyncAssumption DEF Typed, Rows
<1>2. Told(d, i) /\ Passed(d, i) /\ Own(d)
  BY DEF InSeries, Kept, OwnInv
<1>3. ~Matches(d, i)
  BY DEF Matching
<1>4. CASE cursor[d] # Start
  BY <1>2, <1>3, <1>4 DEF Matches, Passed
<1>5. CASE cursor[d] = Start /\ ~(rows[i].stamp > token[d].position)
  BY <1>1, <1>2, <1>5 DEF Told
<1>6. CASE /\ cursor[d] = Start /\ rows[i].stamp > token[d].position
           /\ rows[i].session = token[d].session /\ rows[i].stamp <= token[d].ceiling
  <2>1. token[d].session # NoSession
    BY <1>1, <1>2, <1>6 DEF Own
  <2>. QED BY <1>6, <2>1, SkipsOwn DEF Settled
<1>. QED BY <1>3, <1>4, <1>5, <1>6 DEF Matches

\* The page leaves out nothing up to the cursor of the response, and nothing at all if the
\* response has none.
LEMMA FetchSeries ==
    ASSUME Serialised, Typed, TimeInv, OwnInv, InSeries, NEW d \in Device, FetchPage(d)
    PROVE  InSeries'
<1>1. Typed' /\ TimeInv' /\ Leaves(d) /\ MayRun(d)
  BY RetrievalTimed DEF FetchPage
<1>2. /\ call[d].step = "fetching" /\ call'[d].step = "saving" /\ call'[d].got = {At(i) : i \in Page(d)}
      /\ call'[d].more = (Cardinality(Matching(d)) > Limit)
      /\ UNCHANGED <<rows, clock, staged, shown, token, cursor>>
  BY FetchCall DEF InSeries
<1>3. \A x \in Int : Draws(d, x)' => Draws(d, x)
  BY <1>2 DEF Draws
<1>4. \A o \in Device \ {d} : \A x \in Int : Draws(o, x) => Before(d, x)'
  BY <1>1, NoOtherDraws
<1>5. /\ Page(d) \subseteq Matching(d)
      /\ \A p \in Page(d), i \in Matching(d) : ~Beyond(At(i), At(p)) => i \in Page(d)
      /\ Cardinality(Matching(d)) <= Limit => Page(d) = Matching(d)
      /\ Page(d) = {} => Matching(d) = {}
  <2>1. \A i \in Item : rows[i].stamp \in 0 .. MaxClock
    BY DEF Typed, Rows
  <2>. QED BY <2>1, PageInOrder
<1>6. Cardinality(Matching(d)) \in Int /\ Limit \in Int
  <2>1. IsFiniteSet(Matching(d))
    BY ItemFinite, FS_Subset DEF Matching
  <2>. QED BY <2>1, FS_CardinalityType, ItemSyncAssumption
<1>7. ASSUME NEW i \in Matching(d),
             ResponseCursor(d)' = Start \/ ~Beyond(At(i), ResponseCursor(d)')
      PROVE  i \in Page(d)
  <2>1. CASE ResponseCursor(d)' = Start /\ (call'[d].more => call'[d].got = {})
    <3>1. CASE call'[d].more
      <4>1. Page(d) = {}
        BY <1>2, <2>1, <3>1
      <4>. QED BY <1>5, <4>1
    <3>2. CASE ~call'[d].more
      <4>1. ~(Cardinality(Matching(d)) > Limit)
        BY <1>2, <3>2, Zenon
      <4>2. Cardinality(Matching(d)) <= Limit
        BY <1>6, <4>1
      <4>. QED BY <1>5, <4>2
    <3>. QED BY <3>1, <3>2
  <2>2. CASE ResponseCursor(d)' \in call'[d].got
    <3>1. PICK p \in Page(d) : ResponseCursor(d)' = At(p)
      BY <1>2, <2>2
    <3>2. At(p) # Start
      <4>1. p # 0
        BY ItemSyncAssumption, <1>5 DEF Matching
      <4>. QED BY <4>1 DEF At, Start
    <3>. QED BY <1>5, <1>7, <3>1, <3>2
  <2>3. \/ ResponseCursor(d)' = Start /\ (call'[d].more => call'[d].got = {})
        \/ ResponseCursor(d)' \in call'[d].got
    <3>1. CASE call'[d].more /\ call'[d].got # {}
      <4>1. call'[d].got \in SUBSET Version
        BY <1>1 DEF Typed, CallType
      <4>2. \E v \in call'[d].got : \A w \in call'[d].got : ~Beyond(w, v)
        BY <3>1, <4>1, LastOfPage
      <4>. QED BY <3>1, <4>2 DEF ResponseCursor
    <3>2. CASE ~(call'[d].more /\ call'[d].got # {})
      BY <3>2 DEF ResponseCursor
    <3>. QED BY <3>1, <3>2
  <2>. QED BY <2>1, <2>2, <2>3
<1>8. ASSUME NEW i \in Item PROVE Told(d, i)' /\ Passed(d, i)' /\ Fetches(d, i)'
  <2>1. At(i)' = At(i) /\ Settled(d, i)' = Settled(d, i)
    BY <1>1, <1>2 DEF At, Settled, HasBeenShown, FromPeerTab, SessionOf, Leaves
  <2>2. Told(d, i)' /\ Passed(d, i)'
    BY <1>2, <2>1 DEF InSeries, Kept, Told, Passed
  <2>3. ASSUME rows[i].stamp > 0, ResponseCursor(d)' = Start \/ ~Beyond(At(i), ResponseCursor(d)')
        PROVE  Settled(d, i) \/ At(i) \in call'[d].got
    <3>1. CASE i \in Matching(d)
      <4>1. i \in Page(d)
        BY <1>7, <2>3, <3>1
      <4>. QED BY <1>2, <4>1
    <3>2. CASE i \notin Matching(d)
      BY <2>3, <3>2, UnaskedHeld
    <3>. QED BY <3>1, <3>2
  <2>4. Fetches(d, i)'
    BY <1>2, <2>1, <2>3 DEF Fetches
  <2>. QED BY <2>2, <2>4
<1>9. Kept(d)'
  BY <1>8 DEF Kept
<1>. QED BY <1>1, <1>2, <1>3, <1>4, <1>9, SeriesStep

\* Stamps are committed by a request that runs alone, and are past all that is claimed.
LEMMA CommitSeries ==
    ASSUME Serialised, Typed, TimeInv, InSeries, NEW d \in Device, Commit(d)
    PROVE  InSeries'
<1>1. /\ Typed' /\ Leaves(d) /\ MayRun(d) /\ call[d].step = "saving" /\ call'[d].step = "replying"
      /\ KeepsCall(d) /\ staged'[d] = {} /\ UNCHANGED <<shown, token, cursor>>
      /\ \A i \in Item : rows'[i] = rows[i] \/ \E v \in staged[d] : v.item = i /\ v.stamp = rows'[i].stamp
  BY CommitTimed DEF Commit
<1>2. \A x \in Int : ~Draws(d, x)'
  BY <1>1 DEF Draws
<1>3. \A i \in Item : rows'[i] = rows[i] \/ Draws(d, rows'[i].stamp)
  BY <1>1 DEF Draws
<1>4. ASSUME NEW i \in Item PROVE Told(d, i)' /\ Passed(d, i)' /\ Fetches(d, i)'
  <2>1. CASE rows'[i] = rows[i]
    <3>1. At(i)' = At(i) /\ ResponseCursor(d)' = ResponseCursor(d) /\ Settled(d, i)' = Settled(d, i)
      BY <1>1, <2>1 DEF At, ResponseCursor, Settled, HasBeenShown, FromPeerTab, SessionOf, Leaves, KeepsCall
    <3>2. Told(d, i) /\ Passed(d, i) /\ Fetches(d, i)
      BY DEF InSeries, Kept
    <3>. QED BY <1>1, <2>1, <3>1, <3>2 DEF Told, Passed, Fetches, KeepsCall, Fetched
  <2>2. CASE \E v \in staged[d] : v.item = i /\ v.stamp = rows'[i].stamp
    <3>1. PICK v \in staged[d] : v.item = i /\ v.stamp = rows'[i].stamp
      BY <2>2
    <3>2. /\ v.stamp \in Int /\ call[d].started \in Int /\ call[d].horizon \in Int
          /\ token[d].position \in Int /\ cursor[d].stamp \in Int
      BY ItemSyncAssumption DEF Typed, CallType, Version
    <3>3. /\ ~(rows'[i].stamp <= token[d].position) /\ rows'[i].stamp > cursor[d].stamp
          /\ ~(rows'[i].stamp <= call[d].started)
      BY <1>1, <3>1, <3>2 DEF TimeInv, Timed, Fetched
    <3>. QED BY <1>1, <3>3 DEF Told, Passed, Fetches, Beyond, At, KeepsCall
  <2>. QED BY <1>1, <2>1, <2>2
<1>5. Kept(d)'
  BY <1>4 DEF Kept
<1>6. \A o \in Device \ {d} : call[o].step # "fetching" /\ \A x : ~Draws(o, x)
  BY <1>1, NoOtherDraws
<1>. QED BY <1>1, <1>2, <1>3, <1>5, <1>6, SeriesStep

\* The device persists what its response claims before it persists the claim.
LEMMA ApplySeries ==
    ASSUME Typed, TimeInv, InSeries, NEW d \in Device, Apply(d)
    PROVE  InSeries'
<1>1. /\ Typed' /\ Leaves(d) /\ KeepsCall(d) /\ call[d].step = "replying" /\ call'[d].step = "applied"
      /\ UNCHANGED <<rows, clock, staged, token, cursor>>
      /\ \A i \in Item :
           /\ shown[d][i] <= shown'[d][i]
           /\ \A v \in call[d].got \cup call[d].saved : v.item = i => v.stamp <= shown'[d][i]
  BY ApplyTimed
<1>2. \A x \in Int : ~Draws(d, x)'
  BY <1>1 DEF Draws, TimeInv, Timed
<1>3. \A o \in Device \ {d} : \A x \in Int : Draws(o, x) => Before(d, x)'
  <2> SUFFICES ASSUME NEW o \in Device \ {d}, NEW x \in Int, Draws(o, x) PROVE Before(d, x)'
    OBVIOUS
  <2>1. Before(d, x)
    BY DEF InSeries
  <2>. QED BY <1>1, <2>1 DEF Before, KeepsCall, Fetched
<1>4. ASSUME NEW i \in Item PROVE Told(d, i)' /\ Passed(d, i)' /\ Fetches(d, i)'
  <2>1. At(i)' = At(i) /\ ResponseCursor(d)' = ResponseCursor(d)
    BY <1>1 DEF At, ResponseCursor, KeepsCall
  <2>2. rows[i].stamp \in Int /\ shown[d][i] \in Int /\ shown'[d][i] \in Int
    BY <1>1, ItemSyncAssumption DEF Typed, Rows
  <2>3. Settled(d, i) => Settled(d, i)'
    BY <1>1, <2>2 DEF Settled, HasBeenShown, FromPeerTab, SessionOf, Leaves
  <2>4. At(i) \in call[d].got => Settled(d, i)'
    BY <1>1, <2>2 DEF Settled, HasBeenShown, At
  <2>5. Told(d, i) /\ Passed(d, i) /\ Fetches(d, i)
    BY DEF InSeries, Kept
  <2>. QED BY <1>1, <2>1, <2>3, <2>4, <2>5 DEF Told, Passed, Fetches, KeepsCall, Fetched
<1>5. Kept(d)'
  BY <1>4 DEF Kept
<1>. QED BY <1>1, <1>2, <1>3, <1>5, SeriesStep

LEMMA CheckpointSeries ==
    ASSUME Typed, TimeInv, InSeries, NEW d \in Device, Checkpoint(d)
    PROVE  InSeries'
<1>1. /\ Typed' /\ Leaves(d) /\ call[d].step = "applied" /\ call[d].step \in Fetched /\ call'[d].step = "idle"
      /\ staged'[d] = {} /\ token'[d].position = call[d].horizon /\ cursor'[d] = ResponseCursor(d)
      /\ UNCHANGED <<rows, clock, shown>>
  <2>1. call[d].step \in Fetched
    BY CheckpointTimed DEF Fetched
  <2>. QED BY <2>1, CheckpointTimed, ClaimedToken DEF Idle
<1>2. \/ ResponseCursor(d) = Start
      \/ ResponseCursor(d) \in Version /\ ResponseCursor(d).stamp <= call[d].started
  BY <1>1, ClaimedCursor
<1>3. /\ call[d].horizon \in Int /\ call[d].started \in Int /\ call[d].horizon <= call[d].started
      /\ 0 <= call[d].started
  BY <1>1, ItemSyncAssumption DEF Typed, CallType, TimeInv, Timed
<1>4. cursor'[d].stamp \in Int /\ cursor'[d].stamp <= call[d].started
  BY <1>1, <1>2, <1>3, ItemSyncAssumption DEF Start, Version
<1>5. \A x \in Int : ~Draws(d, x)'
  BY <1>1 DEF Draws
<1>6. \A o \in Device \ {d} : \A x \in Int : Draws(o, x) => Before(d, x)'
  <2> SUFFICES ASSUME NEW o \in Device \ {d}, NEW x \in Int, Draws(o, x) PROVE Before(d, x)'
    OBVIOUS
  <2>1. call[d].started < x
    BY <1>1 DEF InSeries, Before
  <2>. QED BY <1>1, <1>3, <1>4, <2>1 DEF Before, Fetched
<1>7. ASSUME NEW i \in Item PROVE Told(d, i)' /\ Passed(d, i)' /\ Fetches(d, i)'
  <2>1. At(i)' = At(i) /\ Settled(d, i)' = Settled(d, i)
    BY <1>1 DEF At, Settled, HasBeenShown, FromPeerTab, SessionOf, Leaves
  <2>2. rows[i].stamp \in 0 .. MaxClock /\ rows[i].stamp \in Int /\ shown[d][i] \in 0 .. MaxClock
    BY ItemSyncAssumption DEF Typed, Rows
  <2>3. ASSUME rows[i].stamp <= call[d].started,
               ResponseCursor(d) = Start \/ ~Beyond(At(i), ResponseCursor(d))
        PROVE  Settled(d, i)
    <3>1. CASE rows[i].stamp > 0
      BY <1>1, <2>3, <3>1 DEF InSeries, Kept, Fetches
    <3>2. CASE ~(rows[i].stamp > 0)
      BY <2>2, <3>2 DEF Settled, HasBeenShown
    <3>. QED BY <3>1, <3>2
  <2>4. Told(d, i)'
    BY <1>1, <1>3, <2>1, <2>2, <2>3 DEF Told
  <2>5. Passed(d, i)'
    <3>1. ~Beyond(At(i), ResponseCursor(d)) => rows[i].stamp <= call[d].started
      BY <1>1, <1>3, <1>4, <2>2 DEF Beyond, At
    <3>. QED BY <1>1, <2>1, <2>3, <3>1 DEF Passed
  <2>6. Fetches(d, i)'
    BY <1>1 DEF Fetches, Fetched
  <2>. QED BY <2>4, <2>5, <2>6
<1>8. Kept(d)'
  BY <1>7 DEF Kept
<1>. QED BY <1>1, <1>5, <1>6, <1>8, SeriesStep

LEMMA GivenUpSeries ==
    ASSUME Typed, TimeInv, InSeries, NEW d \in Device, Fail(d) \/ DeviceDies(d)
    PROVE  InSeries'
<1>1. /\ Typed' /\ Leaves(d) /\ call'[d].step = "idle" /\ staged'[d] = {}
      /\ UNCHANGED <<rows, clock, shown, token, cursor>>
  BY GivenUpTimed DEF Idle
<1>2. \A x \in Int : ~Draws(d, x)'
  BY <1>1 DEF Draws
<1>3. \A o \in Device \ {d} : \A x \in Int : Draws(o, x) => Before(d, x)'
  <2> SUFFICES ASSUME NEW o \in Device \ {d}, NEW x \in Int, Draws(o, x) PROVE Before(d, x)'
    OBVIOUS
  <2>1. Before(d, x)
    BY DEF InSeries
  <2>. QED BY <1>1, <2>1 DEF Before, Fetched
<1>4. Kept(d)'
  BY <1>1, UnfetchedKept DEF Fetched
<1>. QED BY <1>1, <1>2, <1>3, <1>4, SeriesStep

LEMMA InitSeries == Init => SerialInv
<1> SUFFICES ASSUME Init PROVE InSeries
  BY DEF SerialInv
<1>1. Typed
  BY InitTimed
<1>2. ASSUME NEW d \in Device
      PROVE  /\ staged[d] = {} /\ call[d].step = "idle" /\ cursor[d] = Start
             /\ \A i \in Item : rows[i].stamp <= token[d].position => Settled(d, i)
  <2>1. /\ staged[d] = {} /\ call[d] = Idle /\ cursor[d] = Start
        /\ token[d] = IF d \in Synced THEN [NoToken EXCEPT !.position = clock] ELSE NoToken
        /\ \A i \in Item : shown[d][i] = IF d \in Synced THEN rows[i].stamp ELSE 0
    BY DEF Init
  <2>2. \A i \in Item : rows[i].stamp \in 0 .. MaxClock /\ rows[i].stamp \in Int
    BY <1>1, ItemSyncAssumption DEF Typed, Rows
  <2>3. d \notin Synced => token[d].position = 0
    BY <2>1 DEF NoToken
  <2>. QED BY <2>1, <2>2, <2>3 DEF Settled, HasBeenShown, Idle
<1>3. \A d \in Device : \A x : ~Draws(d, x)
  BY <1>2 DEF Draws
<1>. QED BY <1>2, <1>3 DEF InSeries, Kept, Told, Passed, Fetches, Fetched

LEMMA SameDeployment == [Next]_vars => UNCHANGED deployment
  BY DEF Next, Serve, SaveNextItem, Request, ReadDescriptors, FetchPage, Refuse, Stamp, Write, WriteConflict,
         WriteFailed, Commit, Fail, Apply, Checkpoint, DeviceDies, vars

LEMMA NextSeries == Typed /\ TimeInv /\ OwnInv /\ SerialInv /\ [Next]_vars => SerialInv'
<1> SUFFICES ASSUME Typed, TimeInv, OwnInv, SerialInv, [Next]_vars, Serialised' PROVE InSeries'
  BY DEF SerialInv
<1>0. Serialised /\ InSeries
  BY SameDeployment DEF SerialInv, Serialised
<1>1. ASSUME NEW d \in Device, NEW todo \in SUBSET Item, Request(d, todo) PROVE InSeries'
  BY <1>0, <1>1, RequestSeries
<1>2. ASSUME NEW d \in Device, ReadDescriptors(d) \/ FetchPage(d) PROVE InSeries'
  BY <1>0, <1>2, DescriptorsSeries, FetchSeries
<1>3. ASSUME NEW d \in Device, (\E i \in Item : Refuse(d, i)) \/ WriteConflict(d) \/ WriteFailed(d) PROVE InSeries'
  <2>1. \A x \in Int : Draws(d, x)' => Draws(d, x)
    BY <1>3, UnsavedTimed DEF Draws
  <2>. QED BY <1>0, <1>3, <2>1, UnsavedTimed, BusySeries
<1>4. ASSUME NEW d \in Device, NEW i \in Item, Stamp(d, i) PROVE InSeries'
  <2>1. clock \in Int
    BY ItemSyncAssumption DEF Typed
  <2>2. \A x \in Int : Draws(d, x)' => Draws(d, x) \/ clock < x
    BY <1>4, <2>1, StampTimed DEF Draws
  <2>. QED BY <1>0, <1>4, <2>2, StampTimed, BusySeries
<1>5. ASSUME NEW d \in Device, Write(d) PROVE InSeries'
  <2>1. \A x \in Int : Draws(d, x)' => Draws(d, x)
    BY <1>5, WriteTimed DEF Draws
  <2>. QED BY <1>0, <1>5, <2>1, WriteTimed, BusySeries
<1>6. ASSUME NEW d \in Device, Apply(d) \/ Checkpoint(d) \/ DeviceDies(d) \/ Commit(d) \/ Fail(d)
      PROVE  InSeries'
  BY <1>0, <1>6, ApplySeries, CheckpointSeries, GivenUpSeries, CommitSeries
<1>7. CASE UNCHANGED vars
  <2>1. UNCHANGED <<deployment, rows, staged, call, shown, token, cursor>>
    BY <1>7 DEF vars
  <2>2. \A d \in Device, i \in Item : Settled(d, i)' = Settled(d, i)
    BY <2>1 DEF Settled, HasBeenShown, FromPeerTab, SessionOf
  <2>3. \A d \in Device : ResponseCursor(d)' = ResponseCursor(d) /\ Page(d)' = Page(d)
    BY <2>1 DEF ResponseCursor, Page, Matching, Matches, At
  <2>. QED BY <1>0, <2>1, <2>2, <2>3 DEF InSeries, Draws, Before, Kept, Told, Passed, Fetches, At
<1>. QED BY <1>1, <1>2, <1>3, <1>4, <1>5, <1>6, <1>7 DEF Next, Serve, SaveNextItem

LEMMA SeriesInvariant == Spec => []SerialInv
  BY OwnInvariant, InitSeries, NextSeries, PTL DEF Spec

\* Where saves and pages are serialised a token's position keeps its promise, but for what
\* another tab of the browser saved, for any devices, sessions, items and page size, whatever
\* fails or dies on the way.
THEOREM PositionsHonest == Spec => []PositionHonest
<1>1. SerialInv => PositionHonest
  BY DEF SerialInv, InSeries, Kept, Told, Settled, PositionHonest
<1>. QED BY <1>1, SeriesInvariant, PTL

\* ... and so does a cursor: a page chain leaves no other row out.
THEOREM CursorsHonest == Spec => []CursorHonest
<1>1. SerialInv => CursorHonest
  BY DEF SerialInv, InSeries, Kept, Passed, Settled, CursorHonest
<1>. QED BY <1>1, SeriesInvariant, PTL
=============================================================================
