---------------------- MODULE CollaborationSaveFenceProofs ----------------------
(***************************************************************************)
(* Proofs about the saver fence for every set of notes, leases and         *)
(* writers: a save that holds a row's lock has been admitted by what the   *)
(* row still says, because nothing but the passing of time changes a       *)
(* locked row, and tokens are never drawn twice.                           *)
(***************************************************************************)
EXTENDS CollaborationSaveFence, TLAPS

\* Tokens are drawn in order, and a live claim has one.
TokensDrawn ==
    /\ \A r \in Room : fence[r].token <= tokens /\ (r \in live => fence[r].token # 0)
    /\ \A l \in Lease, r \in Room : grant[l][r].token <= tokens

\* A save that has locked a row was admitted by it and still would be, unless the claim
\* has run out since.
LocksAdmitted ==
    \A r \in Room : lock[r] # Nobody =>
        IF save[lock[r]].proof[r] # 0
        THEN fence[r].token = save[lock[r]].proof[r]
        ELSE r \notin live

FenceInv == TypeOK /\ TokensDrawn /\ LocksAdmitted /\ GrantExact

-----------------------------------------------------------------------------
\* Nothing is claimed, locked or granted at first.
LEMMA InitFence == Init => FenceInv
  BY FenceAssumption, SMT
  DEF Init, FenceInv, TypeOK, TokensDrawn, LocksAdmitted, GrantExact, NoGrant, NoSave, Saver, SaveState, LocksKnown

\* A token on record is one that was drawn, so a claim that keeps it stays in bounds.
LEMMA NextTypeOK == TypeOK /\ TokensDrawn /\ [Next]_vars => TypeOK'
<1> SUFFICES ASSUME TypeOK, TokensDrawn, [Next]_vars PROVE TypeOK'
    OBVIOUS
<1> USE FenceAssumption DEF TypeOK, Saver, LocksKnown
<1>1. ASSUME NEW l \in Lease, NEW r \in Room, NEW answered \in BOOLEAN, Claim(l, r, answered)
      PROVE  TypeOK'
  <2> DEFINE token == IF r \notin live THEN tokens + 1 ELSE fence[r].token
  <2>1. token \in 0 .. MaxTokens /\ tokens' \in 0 .. MaxTokens
    <3>1. fence[r].token \in 0 .. MaxTokens /\ tokens \in 0 .. MaxTokens
      OBVIOUS
    <3>2. token <= MaxTokens /\ tokens' = IF r \notin live THEN token ELSE tokens
      BY <1>1 DEF Claim
    <3>. QED BY <3>1, <3>2
  <2>2. fence' = [fence EXCEPT ![r] = [lease |-> l, token |-> token]] /\ live' \subseteq Room
    BY <1>1 DEF Claim
  <2>3. grant' \in [Lease -> [Room -> [token : 0 .. MaxTokens, revision : 0 .. MaxRevision]]]
    <3>1. CASE answered
      <4>1. grant' = [grant EXCEPT ![l][r] = [token |-> token, revision |-> revision[r]]]
        BY <1>1, <3>1 DEF Claim
      <4>2. [token |-> token, revision |-> revision[r]]
              \in [token : 0 .. MaxTokens, revision : 0 .. MaxRevision]
        BY <2>1
      <4>. QED BY <4>1, <4>2
    <3>2. CASE ~answered
      BY <1>1, <3>2 DEF Claim
    <3>. QED BY <3>1, <3>2
  <2>. QED BY <1>1, <2>1, <2>2, <2>3 DEF Claim
<1>2. ASSUME NEW l \in Lease, NEW r \in Room, NEW token \in 1 .. MaxTokens, Release(l, r, token)
      PROVE  TypeOK'
  <2>1. fence' = [fence EXCEPT ![r] = [lease |-> l, token |-> 0]] /\ live' \subseteq Room
    BY <1>2 DEF Release
  <2>2. [lease |-> l, token |-> 0] \in [lease : Lease \cup {Nobody}, token : 0 .. MaxTokens]
    OBVIOUS
  <2>3. fence' \in [Room -> [lease : Lease \cup {Nobody}, token : 0 .. MaxTokens]]
    BY <2>1, <2>2
  <2>4. UNCHANGED <<tokens, revision, under, lock, grant, knows, save>>
    BY <1>2 DEF Release
  <2>. QED BY <2>1, <2>3, <2>4
<1>3. ASSUME NEW r \in Room, Expire(r) PROVE TypeOK'
  BY <1>3 DEF Expire
<1>4. ASSUME NEW s \in Saver, NEW rooms \in SUBSET Room, BeginSave(s, rooms) PROVE TypeOK'
  <2> DEFINE proof == [r \in Room |-> IF s \in Lease /\ r \in rooms THEN grant[s][r].token ELSE 0]
             sent == [step |-> "locking", rooms |-> rooms, base |-> knows[s], proof |-> proof]
  <2>1. proof \in [Room -> 0 .. MaxTokens] /\ knows[s] \in [Room -> 0 .. MaxRevision]
    OBVIOUS
  <2>2. sent \in SaveState
    BY <2>1 DEF SaveState
  <2>3. save' = [save EXCEPT ![s] = sent]
    BY <1>4 DEF BeginSave
  <2>4. \A r \in Room : lock[r] # s
    BY <1>4 DEF BeginSave
  <2>. QED BY <1>4, <2>2, <2>3, <2>4 DEF BeginSave
<1>5. ASSUME NEW s \in Saver, NEW r \in Room, CatchUp(s, r) PROVE TypeOK'
  BY <1>5 DEF CatchUp
<1>6. ASSUME NEW s \in Saver, NEW r \in Room, LockRoom(s, r) PROVE TypeOK'
  BY <1>6 DEF LockRoom, IsNext, Unlocked
<1>7. ASSUME NEW s \in Saver, Finish(s)
      PROVE  /\ save' \in [Saver -> SaveState] /\ LocksKnown'
             /\ lock' \in [Room -> Saver \cup {Nobody}]
  <2>1. NoSave \in SaveState
    BY DEF NoSave, SaveState
  <2>. QED BY <1>7, <2>1 DEF Finish, LocksKnown
<1>8. ASSUME NEW s \in Saver, Finish(s), UNCHANGED <<fence, live, tokens, revision, under, grant, knows>>
      PROVE  TypeOK'
  <2>1. save' \in [Saver -> SaveState] /\ LocksKnown' /\ lock' \in [Room -> Saver \cup {Nobody}]
    BY <1>7, <1>8
  <2>. QED BY <1>8, <2>1
<1>9. ASSUME NEW s \in Saver, NEW answered \in BOOLEAN, Commit(s, answered) PROVE TypeOK'
  <2> DEFINE saved == {r \in save[s].rooms : save[s].base[r] = revision[r] /\ revision[r] < MaxRevision}
  <2>1. /\ revision' = [r \in Room |-> revision[r] + IF r \in saved THEN 1 ELSE 0]
        /\ under' = [r \in Room |-> IF r \in saved THEN save[s].proof[r] ELSE under[r]]
        /\ Finish(s) /\ UNCHANGED <<fence, live, tokens, grant>>
    BY <1>9 DEF Commit
  <2>2. revision' \in [Room -> 0 .. MaxRevision]
    <3>1. \A r \in Room : revision[r] \in 0 .. MaxRevision /\ (r \in saved => revision[r] < MaxRevision)
      OBVIOUS
    <3>. HIDE DEF saved
    <3>. QED BY <2>1, <3>1
  <2>3. under' \in [Room -> 0 .. MaxTokens]
    <3>1. save[s].proof \in [Room -> 0 .. MaxTokens]
      BY DEF SaveState
    <3>. HIDE DEF saved
    <3>. QED BY <2>1, <3>1
  <2>4. knows' \in [Saver -> [Room -> 0 .. MaxRevision]]
    BY <1>9, <2>2 DEF Commit
  <2>5. save' \in [Saver -> SaveState] /\ LocksKnown' /\ lock' \in [Room -> Saver \cup {Nobody}]
    BY <1>7, <2>1
  <2>. QED BY <2>1, <2>2, <2>3, <2>4, <2>5
<1>10. CASE UNCHANGED vars BY <1>10 DEF vars
<1> HIDE FenceAssumption DEF TypeOK, Saver, LocksKnown
<1>. QED
  BY <1>1, <1>2, <1>3, <1>4, <1>5, <1>6, <1>8, <1>9, <1>10 DEF Next, Saving, FenceLost, Fail

\* Tokens are only ever drawn one past the last.
LEMMA NextTokensDrawn == TypeOK /\ TokensDrawn /\ [Next]_vars => TokensDrawn'
<1> SUFFICES ASSUME TypeOK, TokensDrawn, [Next]_vars PROVE TokensDrawn'
    OBVIOUS
<1> USE FenceAssumption DEF TypeOK, TokensDrawn, Saver
<1>1. ASSUME NEW l \in Lease, NEW r \in Room, NEW answered \in BOOLEAN, Claim(l, r, answered)
      PROVE  TokensDrawn'
  BY <1>1 DEF Claim
<1>2. ASSUME NEW l \in Lease, NEW r \in Room, NEW token \in 1 .. MaxTokens, Release(l, r, token)
      PROVE  TokensDrawn'
  BY <1>2 DEF Release
<1>3. ASSUME NEW r \in Room, Expire(r) PROVE TokensDrawn'
  BY <1>3 DEF Expire
<1>4. CASE UNCHANGED <<fence, live, tokens, grant>>
  BY <1>4
<1>. QED
  BY <1>1, <1>2, <1>3, <1>4
  DEF Next, Saving, BeginSave, CatchUp, LockRoom, FenceLost, Fail, Commit, vars

\* What a locked row said when it was locked it says until it is unlocked.
LEMMA NextLocksAdmitted == TypeOK /\ LocksAdmitted /\ [Next]_vars => LocksAdmitted'
<1> SUFFICES ASSUME TypeOK, LocksAdmitted, [Next]_vars PROVE LocksAdmitted'
    OBVIOUS
<1> USE FenceAssumption DEF TypeOK, LocksAdmitted, Saver
<1>1. ASSUME NEW l \in Lease, NEW r \in Room, NEW answered \in BOOLEAN, Claim(l, r, answered)
      PROVE  LocksAdmitted'
  BY <1>1 DEF Claim
<1>2. ASSUME NEW l \in Lease, NEW r \in Room, NEW token \in 1 .. MaxTokens, Release(l, r, token)
      PROVE  LocksAdmitted'
  BY <1>2 DEF Release
<1>3. ASSUME NEW r \in Room, Expire(r) PROVE LocksAdmitted'
  BY <1>3 DEF Expire
<1>4. ASSUME NEW s \in Saver, NEW rooms \in SUBSET Room, BeginSave(s, rooms) PROVE LocksAdmitted'
  <2>1. \A r \in Room : lock[r] # s
    BY <1>4 DEF BeginSave, LocksKnown
  <2>. QED BY <1>4, <2>1 DEF BeginSave
<1>5. ASSUME NEW s \in Saver, NEW r \in Room, LockRoom(s, r) PROVE LocksAdmitted'
  BY <1>5 DEF LockRoom, Admits, SaveState
<1>6. ASSUME NEW s \in Saver, Finish(s), UNCHANGED <<fence, live>> PROVE LocksAdmitted'
  BY <1>6 DEF Finish
<1>7. CASE UNCHANGED <<fence, live, lock, save>>
  BY <1>7
<1>8. ASSUME NEW s \in Saver, Saving(s) \/ Fail(s)
      PROVE  (\E r \in Room : LockRoom(s, r)) \/ (Finish(s) /\ UNCHANGED <<fence, live>>)
  BY <1>8 DEF Saving, FenceLost, Fail, Commit
<1>9. ASSUME NEW s \in Saver, NEW r \in Room, CatchUp(s, r) PROVE LocksAdmitted'
  BY <1>7, <1>9 DEF CatchUp
<1>10. UNCHANGED vars => LocksAdmitted'
  BY <1>7 DEF vars
<1> HIDE DEF LocksAdmitted, TypeOK
<1>. QED
  BY <1>1, <1>2, <1>3, <1>4, <1>5, <1>6, <1>8, <1>9, <1>10 DEF Next

\* What a commit does to a note: saved under the token of its row, or while no claim of
\* it is live, or not at all.
LEMMA CommitAdmitted ==
    ASSUME TypeOK, LocksAdmitted, NEW s \in Saver, NEW answered \in BOOLEAN, Commit(s, answered),
           NEW r \in Room
    PROVE  \/ revision'[r] = revision[r] /\ under'[r] = under[r]
           \/ under'[r] # 0 /\ under'[r] = fence[r].token
           \/ under'[r] = 0 /\ r \notin live
<1> USE FenceAssumption DEF TypeOK
<1>1. CASE r \in save[s].rooms /\ save[s].base[r] = revision[r] /\ revision[r] < MaxRevision
  <2>1. lock[r] = s /\ lock[r] # Nobody
    BY <1>1 DEF Commit, Unlocked, Held, Saver
  <2>2. under'[r] = save[s].proof[r]
    BY <1>1 DEF Commit
  <2>. QED BY <2>1, <2>2 DEF LocksAdmitted
<1>2. CASE ~(r \in save[s].rooms /\ save[s].base[r] = revision[r] /\ revision[r] < MaxRevision)
  BY <1>2 DEF Commit
<1>. QED BY <1>1, <1>2

\* A claim answers with the revision it read under the row's lock; after that only its
\* own holder's saves change the note.
LEMMA NextGrantExact == FenceInv /\ [Next]_vars => GrantExact'
<1> SUFFICES ASSUME TypeOK, TokensDrawn, LocksAdmitted, GrantExact, [Next]_vars PROVE GrantExact'
    BY DEF FenceInv
<1> USE FenceAssumption DEF TypeOK
<1>1. ASSUME NEW l \in Lease, NEW r \in Room, NEW answered \in BOOLEAN, Claim(l, r, answered)
      PROVE  GrantExact'
  BY <1>1 DEF Claim, TokensDrawn, GrantExact
<1>2. ASSUME NEW l \in Lease, NEW r \in Room, NEW token \in 1 .. MaxTokens, Release(l, r, token)
      PROVE  GrantExact'
  BY <1>2 DEF Release, GrantExact
<1>3. ASSUME NEW r \in Room, Expire(r) PROVE GrantExact'
  BY <1>3 DEF Expire, GrantExact
<1>4. ASSUME NEW s \in Saver, NEW answered \in BOOLEAN, Commit(s, answered) PROVE GrantExact'
  BY <1>4, CommitAdmitted DEF GrantExact, Commit
<1>5. CASE UNCHANGED <<fence, live, revision, under, grant>>
  BY <1>5 DEF GrantExact
<1>. QED
  BY <1>1, <1>2, <1>3, <1>4, <1>5
  DEF Next, Saving, BeginSave, CatchUp, LockRoom, FenceLost, Fail, vars

\* One step of the inductive invariant, and the invariant.
LEMMA NextFence == FenceInv /\ [Next]_vars => FenceInv'
  BY NextTypeOK, NextTokensDrawn, NextLocksAdmitted, NextGrantExact DEF FenceInv

LEMMA FenceInvariant == Spec => []FenceInv
  BY InitFence, NextFence, PTL DEF Spec

-----------------------------------------------------------------------------
\* A live grant names the note's revision, or the holder has saved the note since.
THEOREM GrantsExact == Spec => []GrantExact
<1>1. FenceInv => GrantExact
  BY DEF FenceInv
<1>. QED BY <1>1, FenceInvariant, PTL

\* Nothing is saved by a saver whose fence another one holds.
THEOREM HoldersSave == Spec => OnlyHolderSaves
<1>1. FenceInv /\ [Next]_vars =>
        [\A r \in Room : revision'[r] # revision[r] =>
           IF under'[r] = 0 THEN r \notin live ELSE under'[r] = fence[r].token]_vars
  <2> SUFFICES ASSUME TypeOK, LocksAdmitted, [Next]_vars, NEW r \in Room,
                      revision'[r] # revision[r]
               PROVE  IF under'[r] = 0 THEN r \notin live ELSE under'[r] = fence[r].token
      BY DEF FenceInv
  <2>1. PICK s \in Saver, answered \in BOOLEAN : Commit(s, answered)
    BY DEF Next, Saving, Claim, Release, Expire, BeginSave, CatchUp, LockRoom, FenceLost, Fail, vars
  <2>. QED BY <2>1, CommitAdmitted
<1>. QED BY <1>1, FenceInvariant, PTL DEF Spec, OnlyHolderSaves
=============================================================================
