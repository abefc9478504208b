-------------------------- MODULE SessionTokensProofs --------------------------
(***************************************************************************)
(* Proofs about the sessions' token pairs, for every number of sessions,   *)
(* refreshes, resets and mishaps: whatever a session or a handler's copy   *)
(* of it carries is the generation its sign-in was verified against, so    *)
(* nothing survives a reset; and a device that refreshes one at a time     *)
(* keeps a pair the server knows.                                          *)
(***************************************************************************)
EXTENDS SessionTokens, TLAPS

\* The types the proofs need; bounds play no part in them.
Shape ==
    /\ gen \in Nat /\ row \in [Session -> [gen : Int, pair : Int]]
    /\ cooldown \in [Session -> SUBSET Int]
    /\ signin \in [Session -> {"none", "loaded", "checked", "inserted", "in", "failed"}]
    /\ expected \in [Session -> Nat]
    /\ device \in [Session -> Int] /\ minted \in [Session -> Int]
    /\ pc \in [Handler -> Steps] /\ about \in [Handler -> Session]
    /\ given \in [Handler -> Int] /\ fresh \in [Handler -> Int]
    /\ copy \in [Handler -> [gen : Int, pair : Int]]

\* A stored session, and a handler's copy of one, carry the generation of the sign-in.
Stamped ==
    /\ \A s \in Session : expected[s] <= gen
    /\ \A s \in Session :
         Exists(s) => row[s].gen = expected[s] /\ signin[s] \in {"inserted", "in", "failed"}
    /\ \A q \in Handler : pc[q] # "idle" => signin[about[q]] = "in"
    /\ \A q \in Handler : pc[q] \notin {"idle", "lookup"} => copy[q].gen = expected[about[q]]

SessionInv == Shape /\ Stamped

-----------------------------------------------------------------------------
\* Nobody has signed in yet.
LEMMA InitSession == Init => SessionInv
  BY SessionAssumption, SMT DEF Init, SessionInv, Shape, Stamped, Exists, NoRow, Steps

\* Every action keeps the types.
LEMMA NextShape == Shape /\ [Next]_vars => Shape'
<1> SUFFICES ASSUME Shape, [Next]_vars PROVE Shape'
    OBVIOUS
<1> USE SessionAssumption DEF Shape, Steps, NoRow
<1>1. ASSUME NEW s \in Session, LoadUser(s) PROVE Shape'
  BY <1>1 DEF LoadUser, KeepSignIn, handlers, accounts
<1>2. ASSUME NEW s \in Session, CheckSignIn(s) PROVE Shape'
  BY <1>2 DEF CheckSignIn, KeepSignIn, handlers, accounts
<1>3. ASSUME NEW s \in Session, InsertSession(s) PROVE Shape'
  BY <1>3 DEF InsertSession, KeepSignIn, handlers
<1>4. ASSUME NEW s \in Session, InsertRefused(s) PROVE Shape'
  BY <1>4 DEF InsertRefused, KeepSignIn, handlers, accounts
<1>5. ASSUME NEW s \in Session, AnswerSignIn(s) PROVE Shape'
  BY <1>5 DEF AnswerSignIn, KeepSignIn, handlers, accounts
<1>6. ASSUME NEW s \in Session, TakeBack(s) PROVE Shape'
  BY <1>6 DEF TakeBack, KeepSignIn, handlers
<1>7. ASSUME NEW s \in Session, SignInDies(s) PROVE Shape'
  BY <1>7 DEF SignInDies, accounts, handlers
<1>8. ASSUME NEW s \in Session, Revoke(s) PROVE Shape'
  BY <1>8 DEF Revoke, KeepRest, KeepClients, clients, handlers
<1>9. ASSUME NEW s \in Session, GoIdle(s) PROVE Shape'
  BY <1>9 DEF GoIdle, KeepRest, KeepClients, clients, handlers
<1>10. ASSUME NEW s \in Session, CleanUp(s) PROVE Shape'
  BY <1>10 DEF CleanUp, KeepRest, KeepClients, clients, handlers
<1>11. ASSUME NEW s \in Session, CooldownEnds(s) PROVE Shape'
  BY <1>11 DEF CooldownEnds, handlers
<1>12. ASSUME NEW q \in Handler, NEW s \in Session, Present(q, s) PROVE Shape'
  BY <1>12 DEF Present, KeepClients, clients, accounts, Goto
<1>13. ASSUME NEW q \in Handler, Lookup(q) PROVE Shape'
  BY <1>13 DEF Lookup, Goto, KeepClients, clients, accounts
<1>14. ASSUME NEW q \in Handler, CheckGeneration(q) PROVE Shape'
  BY <1>14 DEF CheckGeneration, Goto, KeepHandler, KeepClients, clients, accounts
<1>15. ASSUME NEW q \in Handler, StillActive(q) PROVE Shape'
  BY <1>15 DEF StillActive, Goto, KeepHandler, KeepClients, clients, accounts
<1>16. ASSUME NEW q \in Handler, Inactive(q) PROVE Shape'
  BY <1>16 DEF Inactive, Goto, KeepHandler, KeepClients, clients
<1>17. ASSUME NEW q \in Handler, Purge(q) PROVE Shape'
  BY <1>17 DEF Purge, Goto, KeepHandler, KeepClients, clients
<1>18. ASSUME NEW q \in Handler, Match(q) PROVE Shape'
  BY <1>18 DEF Match, Goto, KeepHandler, KeepClients, clients, accounts
<1>19. ASSUME NEW q \in Handler, NoMatch(q) PROVE Shape'
  BY <1>19 DEF NoMatch, Goto, KeepHandler, KeepClients, clients, accounts
<1>20. ASSUME NEW q \in Handler, Rotate(q) PROVE Shape'
  BY <1>20 DEF Rotate, Goto
<1>21. ASSUME NEW q \in Handler, RotateRefused(q) PROVE Shape'
  BY <1>21 DEF RotateRefused, Goto, KeepHandler, KeepClients, clients, accounts
<1>22. ASSUME NEW q \in Handler, Recheck(q) PROVE Shape'
  BY <1>22 DEF Recheck, Goto, KeepHandler, KeepClients, clients, accounts
<1>23. ASSUME NEW q \in Handler, Undo(q) PROVE Shape'
  BY <1>23 DEF Undo, Goto, KeepHandler, KeepClients, clients
<1>24. ASSUME NEW q \in Handler, ForgetCooldown(q) PROVE Shape'
  BY <1>24 DEF ForgetCooldown, Goto, KeepHandler, KeepClients, clients
<1>25. ASSUME NEW q \in Handler, SaveCooldown(q) PROVE Shape'
  BY <1>25 DEF SaveCooldown, Goto, KeepHandler, KeepClients, clients, SavePair
<1>26. ASSUME NEW q \in Handler, Answer(q) PROVE Shape'
  BY <1>26 DEF Answer, Goto, KeepHandler, accounts
<1>27. ASSUME NEW q \in Handler, PurgeFails(q) PROVE Shape'
  BY <1>27 DEF PurgeFails, Goto, KeepHandler, KeepClients, clients, accounts
<1>28. ASSUME NEW q \in Handler, AnswerLost(q) PROVE Shape'
  BY <1>28 DEF AnswerLost, Goto, KeepHandler, KeepClients, clients, accounts
<1>29. ASSUME NEW q \in Handler, HandlerDies(q) PROVE Shape'
  BY <1>29 DEF HandlerDies, Goto, KeepHandler, KeepClients, clients, accounts
<1>30. ASSUME Reset PROVE Shape'
  BY <1>30 DEF Reset, KeepRest, KeepClients, clients, handlers
<1>31. CASE UNCHANGED vars
  BY <1>31 DEF vars, accounts, clients, handlers
<1>. QED
  BY <1>1, <1>2, <1>3, <1>4, <1>5, <1>6, <1>7, <1>8, <1>9, <1>10, <1>11, <1>12, <1>13,
      <1>14, <1>15, <1>16, <1>17, <1>18, <1>19, <1>20, <1>21, <1>22, <1>23, <1>24, <1>25,
      <1>26, <1>27, <1>28, <1>29, <1>30, <1>31 DEF Next, SignIn, Serve, Fault

\* A row is written by its own sign-in or by a refresh from a copy of it.
LEMMA NextStamped == Shape /\ Stamped /\ [Next]_vars => Stamped'
<1> SUFFICES ASSUME Shape, Stamped, [Next]_vars PROVE Stamped'
    OBVIOUS
<1> USE SessionAssumption DEF Shape, Stamped, Exists, NoRow, Steps
<1>1. ASSUME NEW s \in Session, LoadUser(s) PROVE Stamped'
  BY <1>1 DEF LoadUser, KeepSignIn, handlers, accounts
<1>2. ASSUME NEW s \in Session, CheckSignIn(s) PROVE Stamped'
  BY <1>2 DEF CheckSignIn, KeepSignIn, handlers, accounts
<1>3. ASSUME NEW s \in Session, InsertSession(s) PROVE Stamped'
  BY <1>3 DEF InsertSession, KeepSignIn, handlers
<1>4. ASSUME NEW s \in Session, InsertRefused(s) PROVE Stamped'
  BY <1>4 DEF InsertRefused, KeepSignIn, handlers, accounts
<1>5. ASSUME NEW s \in Session, AnswerSignIn(s) PROVE Stamped'
  BY <1>5 DEF AnswerSignIn, KeepSignIn, handlers, accounts
<1>6. ASSUME NEW s \in Session, TakeBack(s) PROVE Stamped'
  BY <1>6 DEF TakeBack, KeepSignIn, handlers
<1>7. ASSUME NEW s \in Session, SignInDies(s) PROVE Stamped'
  BY <1>7 DEF SignInDies, accounts, handlers
<1>8. ASSUME NEW s \in Session, Revoke(s) PROVE Stamped'
  BY <1>8 DEF Revoke, KeepRest, KeepClients, clients, handlers
<1>9. ASSUME NEW s \in Session, GoIdle(s) PROVE Stamped'
  BY <1>9 DEF GoIdle, KeepRest, KeepClients, clients, handlers
<1>10. ASSUME NEW s \in Session, CleanUp(s) PROVE Stamped'
  BY <1>10 DEF CleanUp, KeepRest, KeepClients, clients, handlers
<1>11. ASSUME NEW s \in Session, CooldownEnds(s) PROVE Stamped'
  BY <1>11 DEF CooldownEnds, handlers
<1>12. ASSUME NEW q \in Handler, NEW s \in Session, Present(q, s) PROVE Stamped'
  BY <1>12 DEF Present, KeepClients, clients, accounts, Goto
<1>13. ASSUME NEW q \in Handler, Lookup(q) PROVE Stamped'
  BY <1>13 DEF Lookup, Goto, KeepClients, clients, accounts
<1>14. ASSUME NEW q \in Handler, CheckGeneration(q) PROVE Stamped'
  BY <1>14 DEF CheckGeneration, Goto, KeepHandler, KeepClients, clients, accounts
<1>15. ASSUME NEW q \in Handler, StillActive(q) PROVE Stamped'
  BY <1>15 DEF StillActive, Goto, KeepHandler, KeepClients, clients, accounts
<1>16. ASSUME NEW q \in Handler, Inactive(q) PROVE Stamped'
  BY <1>16 DEF Inactive, Goto, KeepHandler, KeepClients, clients
<1>17. ASSUME NEW q \in Handler, Purge(q) PROVE Stamped'
  BY <1>17 DEF Purge, Goto, KeepHandler, KeepClients, clients
<1>18. ASSUME NEW q \in Handler, Match(q) PROVE Stamped'
  BY <1>18 DEF Match, Goto, KeepHandler, KeepClients, clients, accounts
<1>19. ASSUME NEW q \in Handler, NoMatch(q) PROVE Stamped'
  BY <1>19 DEF NoMatch, Goto, KeepHandler, KeepClients, clients, accounts
<1>20. ASSUME NEW q \in Handler, Rotate(q) PROVE Stamped'
  BY <1>20 DEF Rotate, Goto
<1>21. ASSUME NEW q \in Handler, RotateRefused(q) PROVE Stamped'
  BY <1>21 DEF RotateRefused, Goto, KeepHandler, KeepClients, clients, accounts
<1>22. ASSUME NEW q \in Handler, Recheck(q) PROVE Stamped'
  BY <1>22 DEF Recheck, Goto, KeepHandler, KeepClients, clients, accounts
<1>23. ASSUME NEW q \in Handler, Undo(q) PROVE Stamped'
  BY <1>23 DEF Undo, Goto, KeepHandler, KeepClients, clients
<1>24. ASSUME NEW q \in Handler, ForgetCooldown(q) PROVE Stamped'
  BY <1>24 DEF ForgetCooldown, Goto, KeepHandler, KeepClients, clients
<1>25. ASSUME NEW q \in Handler, SaveCooldown(q) PROVE Stamped'
  BY <1>25 DEF SaveCooldown, Goto, KeepHandler, KeepClients, clients, SavePair
<1>26. ASSUME NEW q \in Handler, Answer(q) PROVE Stamped'
  BY <1>26 DEF Answer, Goto, KeepHandler, accounts
<1>27. ASSUME NEW q \in Handler, PurgeFails(q) PROVE Stamped'
  BY <1>27 DEF PurgeFails, Goto, KeepHandler, KeepClients, clients, accounts
<1>28. ASSUME NEW q \in Handler, AnswerLost(q) PROVE Stamped'
  BY <1>28 DEF AnswerLost, Goto, KeepHandler, KeepClients, clients, accounts
<1>29. ASSUME NEW q \in Handler, HandlerDies(q) PROVE Stamped'
  BY <1>29 DEF HandlerDies, Goto, KeepHandler, KeepClients, clients, accounts
<1>30. ASSUME Reset PROVE Stamped'
  BY <1>30 DEF Reset, KeepRest, KeepClients, clients, handlers
<1>31. CASE UNCHANGED vars
  BY <1>31 DEF vars, accounts, clients, handlers
<1>. QED
  BY <1>1, <1>2, <1>3, <1>4, <1>5, <1>6, <1>7, <1>8, <1>9, <1>10, <1>11, <1>12, <1>13,
      <1>14, <1>15, <1>16, <1>17, <1>18, <1>19, <1>20, <1>21, <1>22, <1>23, <1>24, <1>25,
      <1>26, <1>27, <1>28, <1>29, <1>30, <1>31 DEF Next, SignIn, Serve, Fault

LEMMA SessionInvariant == Spec => []SessionInv
<1>1. SessionInv /\ [Next]_vars => SessionInv'
  BY NextShape, NextStamped DEF SessionInv
<1>. QED BY InitSession, <1>1, PTL DEF Spec

-----------------------------------------------------------------------------
\* What a sign-in or a refresh begun before a reset leaves behind is not honoured after it.
THEOREM NothingOutlivesReset == Spec => []NoneOutlivesReset
<1>1. SessionInv => NoneOutlivesReset
  BY DEF SessionInv, Shape, Stamped, NoneOutlivesReset, Live
<1>. QED BY <1>1, SessionInvariant, PTL

\* A row comes back neither from a sign-in, which inserts it once, nor from a refresh,
\* which only updates it; and no generation becomes current again.
LEMMA EndedStep == SessionInv /\ [Next]_vars => \A s \in Session : Ended(s) => Ended(s)'
<1> SUFFICES ASSUME Shape, Stamped, [Next]_vars, NEW t \in Session, Ended(t) PROVE Ended(t)'
    BY DEF SessionInv
<1> USE SessionAssumption DEF Shape, Stamped, Ended, Live, Exists, NoRow, Steps
<1>1. ASSUME NEW s \in Session, LoadUser(s) PROVE Ended(t)'
  BY <1>1 DEF LoadUser, KeepSignIn, handlers, accounts
<1>2. ASSUME NEW s \in Session, CheckSignIn(s) PROVE Ended(t)'
  BY <1>2 DEF CheckSignIn, KeepSignIn, handlers, accounts
<1>3. ASSUME NEW s \in Session, InsertSession(s) PROVE Ended(t)'
  BY <1>3 DEF InsertSession, KeepSignIn, handlers
<1>4. ASSUME NEW s \in Session, InsertRefused(s) PROVE Ended(t)'
  BY <1>4 DEF InsertRefused, KeepSignIn, handlers, accounts
<1>5. ASSUME NEW s \in Session, AnswerSignIn(s) PROVE Ended(t)'
  BY <1>5 DEF AnswerSignIn, KeepSignIn, handlers, accounts
<1>6. ASSUME NEW s \in Session, TakeBack(s) PROVE Ended(t)'
  BY <1>6 DEF TakeBack, KeepSignIn, handlers
<1>7. ASSUME NEW s \in Session, SignInDies(s) PROVE Ended(t)'
  BY <1>7 DEF SignInDies, accounts, handlers
<1>8. ASSUME NEW s \in Session, Revoke(s) PROVE Ended(t)'
  BY <1>8 DEF Revoke, KeepRest, KeepClients, clients, handlers
<1>9. ASSUME NEW s \in Session, GoIdle(s) PROVE Ended(t)'
  BY <1>9 DEF GoIdle, KeepRest, KeepClients, clients, handlers
<1>10. ASSUME NEW s \in Session, CleanUp(s) PROVE Ended(t)'
  BY <1>10 DEF CleanUp, KeepRest, KeepClients, clients, handlers
<1>11. ASSUME NEW s \in Session, CooldownEnds(s) PROVE Ended(t)'
  BY <1>11 DEF CooldownEnds, handlers
<1>12. ASSUME NEW q \in Handler, NEW s \in Session, Present(q, s) PROVE Ended(t)'
  BY <1>12 DEF Present, KeepClients, clients, accounts, Goto
<1>13. ASSUME NEW q \in Handler, Lookup(q) PROVE Ended(t)'
  BY <1>13 DEF Lookup, Goto, KeepClients, clients, accounts
<1>14. ASSUME NEW q \in Handler, CheckGeneration(q) PROVE Ended(t)'
  BY <1>14 DEF CheckGeneration, Goto, KeepHandler, KeepClients, clients, accounts
<1>15. ASSUME NEW q \in Handler, StillActive(q) PROVE Ended(t)'
  BY <1>15 DEF StillActive, Goto, KeepHandler, KeepClients, clients, accounts
<1>16. ASSUME NEW q \in Handler, Inactive(q) PROVE Ended(t)'
  BY <1>16 DEF Inactive, Goto, KeepHandler, KeepClients, clients
<1>17. ASSUME NEW q \in Handler, Purge(q) PROVE Ended(t)'
  BY <1>17 DEF Purge, Goto, KeepHandler, KeepClients, clients
<1>18. ASSUME NEW q \in Handler, Match(q) PROVE Ended(t)'
  BY <1>18 DEF Match, Goto, KeepHandler, KeepClients, clients, accounts
<1>19. ASSUME NEW q \in Handler, NoMatch(q) PROVE Ended(t)'
  BY <1>19 DEF NoMatch, Goto, KeepHandler, KeepClients, clients, accounts
<1>20. ASSUME NEW q \in Handler, Rotate(q) PROVE Ended(t)'
  <2>1. CASE t # about[q]
    BY <1>20, <2>1 DEF Rotate
  <2>2. CASE t = about[q]
    <3>a. Exists(t) /\ pc[q] = "update" /\ row[t].gen = expected[t] /\ copy[q].gen = expected[t]
      BY <1>20, <2>2 DEF Rotate
    <3>b. row'[t] = [gen |-> copy[q].gen, pair |-> minted[t] + 1]
      BY <1>20, <2>2 DEF Rotate
    <3>1. Exists(t) /\ (row')[t].gen = row[t].gen
      BY <3>a, <3>b
    <3>2. UNCHANGED <<gen, revoked, signin>>
      BY <1>20 DEF Rotate
    <3>. QED BY <3>1, <3>2
  <2>. QED BY <2>1, <2>2
<1>21. ASSUME NEW q \in Handler, RotateRefused(q) PROVE Ended(t)'
  BY <1>21 DEF RotateRefused, Goto, KeepHandler, KeepClients, clients, accounts
<1>22. ASSUME NEW q \in Handler, Recheck(q) PROVE Ended(t)'
  BY <1>22 DEF Recheck, Goto, KeepHandler, KeepClients, clients, accounts
<1>23. ASSUME NEW q \in Handler, Undo(q) PROVE Ended(t)'
  BY <1>23 DEF Undo, Goto, KeepHandler, KeepClients, clients
<1>24. ASSUME NEW q \in Handler, ForgetCooldown(q) PROVE Ended(t)'
  BY <1>24 DEF ForgetCooldown, Goto, KeepHandler, KeepClients, clients
<1>25. ASSUME NEW q \in Handler, SaveCooldown(q) PROVE Ended(t)'
  BY <1>25 DEF SaveCooldown, Goto, KeepHandler, KeepClients, clients, SavePair
<1>26. ASSUME NEW q \in Handler, Answer(q) PROVE Ended(t)'
  BY <1>26 DEF Answer, Goto, KeepHandler, accounts
<1>27. ASSUME NEW q \in Handler, PurgeFails(q) PROVE Ended(t)'
  BY <1>27 DEF PurgeFails, Goto, KeepHandler, KeepClients, clients, accounts
<1>28. ASSUME NEW q \in Handler, AnswerLost(q) PROVE Ended(t)'
  BY <1>28 DEF AnswerLost, Goto, KeepHandler, KeepClients, clients, accounts
<1>29. ASSUME NEW q \in Handler, HandlerDies(q) PROVE Ended(t)'
  BY <1>29 DEF HandlerDies, Goto, KeepHandler, KeepClients, clients, accounts
<1>30. ASSUME Reset PROVE Ended(t)'
  BY <1>30 DEF Reset, KeepRest, KeepClients, clients, handlers
<1>31. CASE UNCHANGED vars
  BY <1>31 DEF vars, accounts, clients, handlers
<1>. QED
  BY <1>1, <1>2, <1>3, <1>4, <1>5, <1>6, <1>7, <1>8, <1>9, <1>10, <1>11, <1>12, <1>13,
      <1>14, <1>15, <1>16, <1>17, <1>18, <1>19, <1>20, <1>21, <1>22, <1>23, <1>24, <1>25,
      <1>26, <1>27, <1>28, <1>29, <1>30, <1>31 DEF Next, SignIn, Serve, Fault

\* A session that has ended stays ended, whatever was under way when it did.
THEOREM EndsForGood == Spec => EndedStaysEnded
<1>1. SessionInv /\ [Next]_vars => [\A s \in Session : Ended(s) => Ended(s)']_vars
  BY EndedStep
<1>. QED BY <1>1, SessionInvariant, PTL DEF Spec, EndedStaysEnded

-----------------------------------------------------------------------------
\* Refreshes one at a time, no process lost between the rotation and the cooldown, and no
\* two answers lost in a row.
Orderly == Closed = {"overlap", "crash", "twice"}

Rotating == {"recheck", "observe", "cool", "save", "answer"}

\* One handler is at work on a session, on behalf of the pair its device still holds.
InSequence ==
    /\ \A q, r \in Handler :
         pc[q] # "idle" /\ pc[r] # "idle" /\ about[q] = about[r] => q = r
    /\ \A q \in Handler : pc[q] # "idle" => given[q] = device[about[q]]

\* From the rotation to the answer the stored pair is the handler's; before the answer the
\* pair it replaced is in the cooldown, where the device finds it if the answer is lost.
Replaced ==
    /\ \A s \in Session : signin[s] = "inserted" /\ Exists(s) => row[s].pair = 1
    /\ \A q \in Handler :
         pc[q] \in Rotating /\ Exists(about[q]) => row[about[q]].pair = fresh[q]
    /\ \A q \in Handler :
         pc[q] = "answer" /\ given[q] = copy[q].pair
             => copy[q].pair \in cooldown[about[q]] \/ about[q] \in lapsed

\* The device of a session that is not being rotated holds a pair the server knows.
Known ==
    \A s \in Session :
        signin[s] = "in" /\ Live(s) /\ s \notin lapsed
        /\ (\A q \in Handler : pc[q] \in Rotating => about[q] # s)
            => device[s] = row[s].pair \/ device[s] \in cooldown[s]

DeviceInv == InSequence /\ Replaced /\ Known

\* A refresh is presented only when none is under way.
LEMMA NextInSequence == Orderly /\ SessionInv /\ InSequence /\ [Next]_vars => InSequence'
<1> SUFFICES ASSUME Orderly, SessionInv, InSequence, [Next]_vars PROVE InSequence'
    OBVIOUS
<1> USE SessionAssumption DEF Orderly, SessionInv, Shape, Stamped, InSequence, Exists,
    NoRow, Steps, Busy
<1>1. ASSUME NEW s \in Session, LoadUser(s) PROVE InSequence'
  BY <1>1 DEF LoadUser, KeepSignIn, handlers, accounts
<1>2. ASSUME NEW s \in Session, CheckSignIn(s) PROVE InSequence'
  BY <1>2 DEF CheckSignIn, KeepSignIn, handlers, accounts
<1>3. ASSUME NEW s \in Session, InsertSession(s) PROVE InSequence'
  BY <1>3 DEF InsertSession, KeepSignIn, handlers
<1>4. ASSUME NEW s \in Session, InsertRefused(s) PROVE InSequence'
  BY <1>4 DEF InsertRefused, KeepSignIn, handlers, accounts
<1>5. ASSUME NEW s \in Session, AnswerSignIn(s) PROVE InSequence'
  BY <1>5 DEF AnswerSignIn, KeepSignIn, handlers, accounts
<1>6. ASSUME NEW s \in Session, TakeBack(s) PROVE InSequence'
  BY <1>6 DEF TakeBack, KeepSignIn, handlers
<1>7. ASSUME NEW s \in Session, SignInDies(s) PROVE InSequence'
  BY <1>7 DEF SignInDies, accounts, handlers
<1>8. ASSUME NEW s \in Session, Revoke(s) PROVE InSequence'
  BY <1>8 DEF Revoke, KeepRest, KeepClients, clients, handlers
<1>9. ASSUME NEW s \in Session, GoIdle(s) PROVE InSequence'
  BY <1>9 DEF GoIdle, KeepRest, KeepClients, clients, handlers
<1>10. ASSUME NEW s \in Session, CleanUp(s) PROVE InSequence'
  BY <1>10 DEF CleanUp, KeepRest, KeepClients, clients, handlers
<1>11. ASSUME NEW s \in Session, CooldownEnds(s) PROVE InSequence'
  BY <1>11 DEF CooldownEnds, handlers
<1>12. ASSUME NEW q \in Handler, NEW s \in Session, Present(q, s) PROVE InSequence'
  BY <1>12 DEF Present, KeepClients, clients, accounts, Goto
<1>13. ASSUME NEW q \in Handler, Lookup(q) PROVE InSequence'
  BY <1>13 DEF Lookup, Goto, KeepClients, clients, accounts
<1>14. ASSUME NEW q \in Handler, CheckGeneration(q) PROVE InSequence'
  BY <1>14 DEF CheckGeneration, Goto, KeepHandler, KeepClients, clients, accounts
<1>15. ASSUME NEW q \in Handler, StillActive(q) PROVE InSequence'
  BY <1>15 DEF StillActive, Goto, KeepHandler, KeepClients, clients, accounts
<1>16. ASSUME NEW q \in Handler, Inactive(q) PROVE InSequence'
  BY <1>16 DEF Inactive, Goto, KeepHandler, KeepClients, clients
<1>17. ASSUME NEW q \in Handler, Purge(q) PROVE InSequence'
  BY <1>17 DEF Purge, Goto, KeepHandler, KeepClients, clients
<1>18. ASSUME NEW q \in Handler, Match(q) PROVE InSequence'
  BY <1>18 DEF Match, Goto, KeepHandler, KeepClients, clients, accounts
<1>19. ASSUME NEW q \in Handler, NoMatch(q) PROVE InSequence'
  BY <1>19 DEF NoMatch, Goto, KeepHandler, KeepClients, clients, accounts
<1>20. ASSUME NEW q \in Handler, Rotate(q) PROVE InSequence'
  BY <1>20 DEF Rotate, Goto
<1>21. ASSUME NEW q \in Handler, RotateRefused(q) PROVE InSequence'
  BY <1>21 DEF RotateRefused, Goto, KeepHandler, KeepClients, clients, accounts
<1>22. ASSUME NEW q \in Handler, Recheck(q) PROVE InSequence'
  BY <1>22 DEF Recheck, Goto, KeepHandler, KeepClients, clients, accounts
<1>23. ASSUME NEW q \in Handler, Undo(q) PROVE InSequence'
  BY <1>23 DEF Undo, Goto, KeepHandler, KeepClients, clients
<1>24. ASSUME NEW q \in Handler, ForgetCooldown(q) PROVE InSequence'
  BY <1>24 DEF ForgetCooldown, Goto, KeepHandler, KeepClients, clients
<1>25. ASSUME NEW q \in Handler, SaveCooldown(q) PROVE InSequence'
  BY <1>25 DEF SaveCooldown, Goto, KeepHandler, KeepClients, clients, SavePair
<1>26. ASSUME NEW q \in Handler, Answer(q) PROVE InSequence'
  BY <1>26 DEF Answer, Goto, KeepHandler, accounts
<1>27. ASSUME NEW q \in Handler, PurgeFails(q) PROVE InSequence'
  BY <1>27 DEF PurgeFails, Goto, KeepHandler, KeepClients, clients, accounts
<1>28. ASSUME NEW q \in Handler, AnswerLost(q) PROVE InSequence'
  BY <1>28 DEF AnswerLost, Goto, KeepHandler, KeepClients, clients, accounts
<1>29. ASSUME NEW q \in Handler, HandlerDies(q) PROVE InSequence'
  BY <1>29 DEF HandlerDies, Goto, KeepHandler, KeepClients, clients, accounts
<1>30. ASSUME Reset PROVE InSequence'
  BY <1>30 DEF Reset, KeepRest, KeepClients, clients, handlers
<1>31. CASE UNCHANGED vars
  BY <1>31 DEF vars, accounts, clients, handlers
<1>. QED
  BY <1>1, <1>2, <1>3, <1>4, <1>5, <1>6, <1>7, <1>8, <1>9, <1>10, <1>11, <1>12, <1>13,
      <1>14, <1>15, <1>16, <1>17, <1>18, <1>19, <1>20, <1>21, <1>22, <1>23, <1>24, <1>25,
      <1>26, <1>27, <1>28, <1>29, <1>30, <1>31 DEF Next, SignIn, Serve, Fault

\* Only the handler at work on a session touches its pair or its cooldown.
LEMMA NextReplaced == Orderly /\ SessionInv /\ InSequence /\ Replaced /\ [Next]_vars => Replaced'
<1> SUFFICES ASSUME Orderly, SessionInv, InSequence, Replaced, [Next]_vars PROVE Replaced'
    OBVIOUS
<1>a. \A q, r \in Handler : pc[q] # "idle" /\ pc[r] # "idle" /\ q # r => about[q] # about[r]
  BY DEF InSequence
<1>3. ASSUME NEW s \in Session, InsertSession(s) PROVE Replaced'
  <2>1. UNCHANGED <<pc, about, given, copy, fresh, cooldown, lapsed>>
    BY <1>3 DEF InsertSession, KeepSignIn, handlers
  <2>2. \A q \in Handler : pc[q] # "idle" => about[q] # s /\ about[q] \in Session
    BY <1>3 DEF InsertSession, SessionInv, Stamped, Shape
  <2>3. row' = [row EXCEPT ![s] = [gen |-> expected[s], pair |-> 1]]
        /\ signin' = [signin EXCEPT ![s] = "inserted"]
    BY <1>3 DEF InsertSession
  <2>4. \A t \in Session : row'[t] = row[t] \/ (t = s /\ row'[t].pair = 1)
    BY <2>3 DEF SessionInv, Shape
  <2>5. \A t \in Session : signin'[t] = signin[t] \/ t = s
    BY <2>3 DEF SessionInv, Shape
  <2>6. \A t \in Session : t = s => row'[t].pair = 1
    BY <2>3 DEF SessionInv, Shape
  <2>. QED BY <2>1, <2>2, <2>4, <2>5, <2>6 DEF Replaced, Exists, Rotating
<1>11. ASSUME NEW s \in Session, CooldownEnds(s) PROVE Replaced'
  <2>1. UNCHANGED <<row, signin, pc, about, given, copy, fresh>>
    BY <1>11 DEF CooldownEnds, handlers
  <2>2. ASSUME NEW q \in Handler, pc[q] = "answer", given[q] = copy[q].pair
        PROVE  copy[q].pair \in cooldown'[about[q]] \/ about[q] \in lapsed'
    <3>1. /\ about[q] \in Session /\ given[q] = device[about[q]]
          /\ copy[q].pair \in cooldown[about[q]] \/ about[q] \in lapsed
      BY <2>2 DEF SessionInv, Shape, InSequence, Replaced
    <3>. QED BY <1>11, <2>2, <3>1 DEF CooldownEnds, SessionInv, Shape
  <2>. QED BY <2>1, <2>2 DEF Replaced, Exists
<1>20. ASSUME NEW q \in Handler, Rotate(q) PROVE Replaced'
  <2>1. /\ UNCHANGED <<about, given, copy, cooldown, signin, lapsed>>
        /\ pc[q] # "idle" /\ about[q] \in Session /\ signin[about[q]] = "in"
    BY <1>20 DEF Rotate, SessionInv, Shape, Stamped
  <2>2. pc'[q] # "answer" /\ \A r \in Handler \ {q} : pc'[r] = pc[r] /\ fresh'[r] = fresh[r]
    BY <1>20 DEF Rotate, Goto, SessionInv, Shape
  <2>3. row'[about[q]].pair = fresh'[q]
    BY <1>20, <2>1 DEF Rotate, SessionInv, Shape
  <2>4. \A t \in Session \ {about[q]} : row'[t] = row[t]
    BY <1>20 DEF Rotate, SessionInv, Shape
  <2>5. \A r \in Handler \ {q} : pc[r] \in Rotating => about[r] # about[q] /\ about[r] \in Session
    BY <1>a, <2>1 DEF Rotating, SessionInv, Shape
  <2>. QED BY <2>1, <2>2, <2>3, <2>4, <2>5 DEF Replaced, Exists
<1>26. ASSUME NEW q \in Handler, Answer(q) PROVE Replaced'
  <2>1. UNCHANGED <<about, given, copy, fresh, cooldown, signin, row>> /\ pc[q] = "answer"
    BY <1>26 DEF Answer, KeepHandler, accounts
  <2>2. pc'[q] = "idle" /\ \A r \in Handler \ {q} : pc'[r] = pc[r]
    BY <1>26 DEF Answer, Goto, SessionInv, Shape
  <2>3. lapsed' = lapsed \ {about[q]}
    BY <1>26 DEF Answer
  <2>4. \A r \in Handler \ {q} : pc[r] = "answer" => about[r] # about[q]
    BY <1>a, <2>1
  <2>. QED BY <2>1, <2>2, <2>3, <2>4 DEF Replaced, Rotating, Exists
<1> USE SessionAssumption DEF Orderly, SessionInv, Shape, Stamped, InSequence, Replaced,
    Rotating, Exists, NoRow, Steps
<1>1. ASSUME NEW s \in Session, LoadUser(s) PROVE Replaced'
  BY <1>1 DEF LoadUser, KeepSignIn, handlers, accounts
<1>2. ASSUME NEW s \in Session, CheckSignIn(s) PROVE Replaced'
  BY <1>2 DEF CheckSignIn, KeepSignIn, handlers, accounts
<1>4. ASSUME NEW s \in Session, InsertRefused(s) PROVE Replaced'
  BY <1>4 DEF InsertRefused, KeepSignIn, handlers, accounts
<1>5. ASSUME NEW s \in Session, AnswerSignIn(s) PROVE Replaced'
  BY <1>5 DEF AnswerSignIn, KeepSignIn, handlers, accounts
<1>6. ASSUME NEW s \in Session, TakeBack(s) PROVE Replaced'
  BY <1>6 DEF TakeBack, KeepSignIn, handlers
<1>7. ASSUME NEW s \in Session, SignInDies(s) PROVE Replaced'
  BY <1>7 DEF SignInDies, accounts, handlers
<1>8. ASSUME NEW s \in Session, Revoke(s) PROVE Replaced'
  BY <1>8 DEF Revoke, KeepRest, KeepClients, clients, handlers
<1>9. ASSUME NEW s \in Session, GoIdle(s) PROVE Replaced'
  BY <1>9 DEF GoIdle, KeepRest, KeepClients, clients, handlers
<1>10. ASSUME NEW s \in Session, CleanUp(s) PROVE Replaced'
  BY <1>10 DEF CleanUp, KeepRest, KeepClients, clients, handlers
<1>12. ASSUME NEW q \in Handler, NEW s \in Session, Present(q, s) PROVE Replaced'
  BY <1>12 DEF Present, KeepClients, clients, accounts, Goto
<1>13. ASSUME NEW q \in Handler, Lookup(q) PROVE Replaced'
  BY <1>13 DEF Lookup, Goto, KeepClients, clients, accounts
<1>14. ASSUME NEW q \in Handler, CheckGeneration(q) PROVE Replaced'
  BY <1>14 DEF CheckGeneration, Goto, KeepHandler, KeepClients, clients, accounts
<1>15. ASSUME NEW q \in Handler, StillActive(q) PROVE Replaced'
  BY <1>15 DEF StillActive, Goto, KeepHandler, KeepClients, clients, accounts
<1>16. ASSUME NEW q \in Handler, Inactive(q) PROVE Replaced'
  BY <1>16 DEF Inactive, Goto, KeepHandler, KeepClients, clients
<1>17. ASSUME NEW q \in Handler, Purge(q) PROVE Replaced'
  BY <1>17 DEF Purge, Goto, KeepHandler, KeepClients, clients
<1>18. ASSUME NEW q \in Handler, Match(q) PROVE Replaced'
  BY <1>18 DEF Match, Goto, KeepHandler, KeepClients, clients, accounts
<1>19. ASSUME NEW q \in Handler, NoMatch(q) PROVE Replaced'
  BY <1>19 DEF NoMatch, Goto, KeepHandler, KeepClients, clients, accounts
<1>21. ASSUME NEW q \in Handler, RotateRefused(q) PROVE Replaced'
  BY <1>21 DEF RotateRefused, Goto, KeepHandler, KeepClients, clients, accounts
<1>22. ASSUME NEW q \in Handler, Recheck(q) PROVE Replaced'
  BY <1>22 DEF Recheck, Goto, KeepHandler, KeepClients, clients, accounts
<1>23. ASSUME NEW q \in Handler, Undo(q) PROVE Replaced'
  BY <1>23 DEF Undo, Goto, KeepHandler, KeepClients, clients
<1>24. ASSUME NEW q \in Handler, ForgetCooldown(q) PROVE Replaced'
  BY <1>24 DEF ForgetCooldown, Goto, KeepHandler, KeepClients, clients
<1>25. ASSUME NEW q \in Handler, SaveCooldown(q) PROVE Replaced'
  BY <1>25 DEF SaveCooldown, Goto, KeepHandler, KeepClients, clients, SavePair
<1>27. ASSUME NEW q \in Handler, PurgeFails(q) PROVE Replaced'
  BY <1>27 DEF PurgeFails, Goto, KeepHandler, KeepClients, clients, accounts
<1>28. ASSUME NEW q \in Handler, AnswerLost(q) PROVE Replaced'
  BY <1>28 DEF AnswerLost, Goto, KeepHandler, KeepClients, clients, accounts
<1>29. ASSUME NEW q \in Handler, HandlerDies(q) PROVE Replaced'
  BY <1>29 DEF HandlerDies, Goto, KeepHandler, KeepClients, clients, accounts
<1>30. ASSUME Reset PROVE Replaced'
  BY <1>30 DEF Reset, KeepRest, KeepClients, clients, handlers
<1>31. CASE UNCHANGED vars
  BY <1>31 DEF vars, accounts, clients, handlers
<1>. QED
  BY <1>1, <1>2, <1>3, <1>4, <1>5, <1>6, <1>7, <1>8, <1>9, <1>10, <1>11, <1>12, <1>13,
      <1>14, <1>15, <1>16, <1>17, <1>18, <1>19, <1>20, <1>21, <1>22, <1>23, <1>24, <1>25,
      <1>26, <1>27, <1>28, <1>29, <1>30, <1>31 DEF Next, SignIn, Serve, Fault

\* Until the handler rotates the pair, and until it answers, what the device holds is as good as it was.
LEMMA KnownUntouched ==
    ASSUME Shape, Known, NEW q \in Handler, NEW k, Goto(q, k), pc[q] \in Rotating => k \in Rotating,
           UNCHANGED <<gen, row, revoked, cooldown, signin, device, lapsed, about>>
    PROVE  Known'
<1>1. ASSUME NEW s \in Session, \A r \in Handler : pc'[r] \in Rotating => about'[r] # s
      PROVE  \A r \in Handler : pc[r] \in Rotating => about[r] # s
  BY <1>1 DEF Goto, Shape
<1>. QED BY <1>1 DEF Known, Live, Exists

\* A rotation ends with the pair in the device or the old one in the cooldown.
LEMMA NextKnown == Orderly /\ SessionInv /\ DeviceInv /\ [Next]_vars => Known'
<1> SUFFICES ASSUME Orderly, SessionInv, DeviceInv, [Next]_vars PROVE Known'
    OBVIOUS
<1>13. ASSUME NEW q \in Handler, Lookup(q) PROVE Known'
  <2>1. /\ pc[q] \notin Rotating /\ \E k : Goto(q, k)
        /\ UNCHANGED <<gen, row, revoked, cooldown, signin, device, lapsed, about>>
    BY <1>13 DEF Lookup, Rotating, KeepHandler, KeepClients, clients, accounts
  <2>. QED BY <2>1, KnownUntouched DEF SessionInv, DeviceInv
<1>14. ASSUME NEW q \in Handler, CheckGeneration(q) PROVE Known'
  <2>1. /\ pc[q] \notin Rotating /\ \E k : Goto(q, k)
        /\ UNCHANGED <<gen, row, revoked, cooldown, signin, device, lapsed, about>>
    BY <1>14 DEF CheckGeneration, Rotating, KeepHandler, KeepClients, clients, accounts
  <2>. QED BY <2>1, KnownUntouched DEF SessionInv, DeviceInv
<1>15. ASSUME NEW q \in Handler, StillActive(q) PROVE Known'
  <2>1. UNCHANGED <<gen, row, revoked, cooldown, signin, device, lapsed, about>>
    BY <1>15 DEF StillActive, KeepHandler, KeepClients, clients, accounts
  <2>2. pc[q] \in {"activity", "again", "observe"}
    BY <1>15 DEF StillActive
  <2>3. CASE pc[q] = "observe"
    BY <1>15, <2>1, <2>3, KnownUntouched DEF StillActive, Rotating, SessionInv, DeviceInv
  <2>4. CASE pc[q] # "observe"
    <3>1. \E k : Goto(q, k)
      BY <1>15 DEF StillActive
    <3>. QED BY <2>1, <2>2, <2>4, <3>1, KnownUntouched DEF Rotating, SessionInv, DeviceInv
  <2>. QED BY <2>3, <2>4
<1>18. ASSUME NEW q \in Handler, Match(q) PROVE Known'
  <2>1. /\ pc[q] \notin Rotating /\ \E k : Goto(q, k)
        /\ UNCHANGED <<gen, row, revoked, cooldown, signin, device, lapsed, about>>
    BY <1>18 DEF Match, Rotating, KeepHandler, KeepClients, clients, accounts
  <2>. QED BY <2>1, KnownUntouched DEF SessionInv, DeviceInv
<1>19. ASSUME NEW q \in Handler, NoMatch(q) PROVE Known'
  <2>1. /\ pc[q] \notin Rotating /\ \E k : Goto(q, k)
        /\ UNCHANGED <<gen, row, revoked, cooldown, signin, device, lapsed, about>>
    BY <1>19 DEF NoMatch, Rotating, KeepHandler, KeepClients, clients, accounts
  <2>. QED BY <2>1, KnownUntouched DEF SessionInv, DeviceInv
<1>21. ASSUME NEW q \in Handler, RotateRefused(q) PROVE Known'
  <2>1. /\ pc[q] \notin Rotating /\ \E k : Goto(q, k)
        /\ UNCHANGED <<gen, row, revoked, cooldown, signin, device, lapsed, about>>
    BY <1>21 DEF RotateRefused, Rotating, KeepHandler, KeepClients, clients, accounts
  <2>. QED BY <2>1, KnownUntouched DEF SessionInv, DeviceInv
<1>27. ASSUME NEW q \in Handler, PurgeFails(q) PROVE Known'
  <2>1. /\ pc[q] \notin Rotating /\ \E k : Goto(q, k)
        /\ UNCHANGED <<gen, row, revoked, cooldown, signin, device, lapsed, about>>
    BY <1>27 DEF PurgeFails, Rotating, KeepHandler, KeepClients, clients, accounts
  <2>. QED BY <2>1, KnownUntouched DEF SessionInv, DeviceInv
<1> USE SessionAssumption DEF Orderly, SessionInv, Shape, Stamped, DeviceInv, InSequence,
    Replaced, Known, Rotating, Live, Exists, NoRow, Steps
<1>1. ASSUME NEW s \in Session, LoadUser(s) PROVE Known'
  BY <1>1 DEF LoadUser, KeepSignIn, handlers, accounts
<1>2. ASSUME NEW s \in Session, CheckSignIn(s) PROVE Known'
  BY <1>2 DEF CheckSignIn, KeepSignIn, handlers, accounts
<1>3. ASSUME NEW s \in Session, InsertSession(s) PROVE Known'
  BY <1>3 DEF InsertSession, KeepSignIn, handlers
<1>4. ASSUME NEW s \in Session, InsertRefused(s) PROVE Known'
  BY <1>4 DEF InsertRefused, KeepSignIn, handlers, accounts
<1>5. ASSUME NEW s \in Session, AnswerSignIn(s) PROVE Known'
  BY <1>5 DEF AnswerSignIn, KeepSignIn, handlers, accounts
<1>6. ASSUME NEW s \in Session, TakeBack(s) PROVE Known'
  BY <1>6 DEF TakeBack, KeepSignIn, handlers
<1>7. ASSUME NEW s \in Session, SignInDies(s) PROVE Known'
  BY <1>7 DEF SignInDies, accounts, handlers
<1>8. ASSUME NEW s \in Session, Revoke(s) PROVE Known'
  BY <1>8 DEF Revoke, KeepRest, KeepClients, clients, handlers
<1>9. ASSUME NEW s \in Session, GoIdle(s) PROVE Known'
  BY <1>9 DEF GoIdle, KeepRest, KeepClients, clients, handlers
<1>10. ASSUME NEW s \in Session, CleanUp(s) PROVE Known'
  BY <1>10 DEF CleanUp, KeepRest, KeepClients, clients, handlers
<1>11. ASSUME NEW s \in Session, CooldownEnds(s) PROVE Known'
  BY <1>11 DEF CooldownEnds, handlers
<1>12. ASSUME NEW q \in Handler, NEW s \in Session, Present(q, s) PROVE Known'
  BY <1>12 DEF Present, KeepClients, clients, accounts, Goto
<1>16. ASSUME NEW q \in Handler, Inactive(q) PROVE Known'
  BY <1>16 DEF Inactive, Goto, KeepHandler, KeepClients, clients
<1>17. ASSUME NEW q \in Handler, Purge(q) PROVE Known'
  BY <1>17 DEF Purge, Goto, KeepHandler, KeepClients, clients
<1>20. ASSUME NEW q \in Handler, Rotate(q) PROVE Known'
  BY <1>20 DEF Rotate, Goto
<1>22. ASSUME NEW q \in Handler, Recheck(q) PROVE Known'
  BY <1>22 DEF Recheck, Goto, KeepHandler, KeepClients, clients, accounts
<1>23. ASSUME NEW q \in Handler, Undo(q) PROVE Known'
  BY <1>23 DEF Undo, Goto, KeepHandler, KeepClients, clients
<1>24. ASSUME NEW q \in Handler, ForgetCooldown(q) PROVE Known'
  BY <1>24 DEF ForgetCooldown, Goto, KeepHandler, KeepClients, clients
<1>25. ASSUME NEW q \in Handler, SaveCooldown(q) PROVE Known'
  BY <1>25 DEF SaveCooldown, Goto, KeepHandler, KeepClients, clients, SavePair
<1>26. ASSUME NEW q \in Handler, Answer(q) PROVE Known'
  BY <1>26 DEF Answer, Goto, KeepHandler, accounts
<1>28. ASSUME NEW q \in Handler, AnswerLost(q) PROVE Known'
  BY <1>28 DEF AnswerLost, Goto, KeepHandler, KeepClients, clients, accounts
<1>29. ASSUME NEW q \in Handler, HandlerDies(q) PROVE Known'
  BY <1>29 DEF HandlerDies, Goto, KeepHandler, KeepClients, clients, accounts
<1>30. ASSUME Reset PROVE Known'
  BY <1>30 DEF Reset, KeepRest, KeepClients, clients, handlers
<1>31. CASE UNCHANGED vars
  BY <1>31 DEF vars, accounts, clients, handlers
<1>. QED
  BY <1>1, <1>2, <1>3, <1>4, <1>5, <1>6, <1>7, <1>8, <1>9, <1>10, <1>11, <1>12, <1>13,
      <1>14, <1>15, <1>16, <1>17, <1>18, <1>19, <1>20, <1>21, <1>22, <1>23, <1>24, <1>25,
      <1>26, <1>27, <1>28, <1>29, <1>30, <1>31 DEF Next, SignIn, Serve, Fault

\* A device that refreshes in sequence survives any number of lost answers, none of them
\* twice in a row, with any number of sessions beside it.
THEOREM DevicesStaySignedIn == ASSUME Orderly PROVE Spec => []NeverLockedOut
<1>1. Init => DeviceInv
  BY SMT DEF Init, DeviceInv, InSequence, Replaced, Known, Rotating, Exists
<1>2. SessionInv /\ DeviceInv /\ [Next]_vars => DeviceInv'
  BY NextInSequence, NextReplaced, NextKnown DEF DeviceInv
<1>3. SessionInv /\ DeviceInv => NeverLockedOut
  BY DEF DeviceInv, Known, Rotating, NeverLockedOut, Busy
<1>. QED BY <1>1, <1>2, <1>3, SessionInvariant, PTL DEF Spec

-----------------------------------------------------------------------------
\* A stored session changes by its sign-in, by a refresh, or by being deleted.
LEMMA RowWrites ==
    ASSUME Shape, [Next]_vars, NEW t \in Session
    PROVE  \/ row'[t] = row[t]
           \/ ~Exists(t)'
           \/ InsertSession(t)
           \/ \E q \in Handler : Rotate(q) /\ about[q] = t
<1> DEFINE Written == \/ row'[t] = row[t]
                      \/ row'[t] = NoRow
                      \/ InsertSession(t)
                      \/ \E q \in Handler : Rotate(q) /\ about[q] = t
<1>1. ASSUME NEW s \in Session, SignIn(s) \/ SignInDies(s) PROVE Written
  <2>1. CASE InsertSession(s)
    BY <2>1 DEF InsertSession, Shape
  <2>2. CASE TakeBack(s)
    BY <2>2 DEF TakeBack, Shape
  <2>. QED
    BY <1>1, <2>1, <2>2 DEF SignIn, SignInDies, LoadUser, CheckSignIn, InsertRefused,
       AnswerSignIn, accounts
<1>2. ASSUME NEW s \in Session, Revoke(s) \/ GoIdle(s) \/ CleanUp(s) \/ CooldownEnds(s)
      PROVE  Written
  BY <1>2 DEF Revoke, GoIdle, CleanUp, CooldownEnds, Shape
<1>3. ASSUME NEW q \in Handler, NEW s \in Session, Present(q, s) PROVE Written
  BY <1>3 DEF Present, accounts
<1>4. ASSUME NEW q \in Handler, Serve(q) PROVE Written
  <2>1. CASE Rotate(q)
    BY <2>1 DEF Rotate, Shape
  <2>2. CASE Inactive(q) \/ Purge(q) \/ Undo(q)
    BY <2>2 DEF Inactive, Purge, Undo, Shape
  <2>. QED
    BY <1>4, <2>1, <2>2 DEF Serve, Lookup, CheckGeneration, StillActive, Match, NoMatch,
       RotateRefused, Recheck, ForgetCooldown, SaveCooldown, SavePair, Answer, accounts
<1>5. ASSUME NEW q \in Handler, Fault(q) PROVE Written
  BY <1>5 DEF Fault, PurgeFails, AnswerLost, HandlerDies, accounts
<1>6. ASSUME Reset \/ UNCHANGED vars PROVE Written
  BY <1>6 DEF Reset, vars, accounts
<1>7. Written
  BY <1>1, <1>2, <1>3, <1>4, <1>5, <1>6 DEF Next
<1>. QED BY <1>7 DEF Exists

\* Only a refresh that has rotated its session puts a pair into the session's cooldown.
LEMMA CooldownWrites ==
    ASSUME Shape, [Next]_vars, NEW t \in Session
    PROVE  \/ cooldown'[t] \subseteq cooldown[t]
           \/ \E q \in Handler :
                 /\ pc[q] = "save" /\ about[q] = t
                 /\ cooldown'[t] = cooldown[t] \union {copy[q].pair}
<1> DEFINE Written == \/ cooldown'[t] \subseteq cooldown[t]
                      \/ \E q \in Handler :
                            /\ pc[q] = "save" /\ about[q] = t
                            /\ cooldown'[t] = cooldown[t] \union {copy[q].pair}
<1>1. ASSUME NEW s \in Session, SignIn(s) \/ SignInDies(s) PROVE Written
  BY <1>1 DEF SignIn, SignInDies, LoadUser, CheckSignIn, InsertSession, InsertRefused,
     AnswerSignIn, TakeBack, accounts
<1>2. ASSUME NEW s \in Session, Revoke(s) \/ GoIdle(s) \/ CleanUp(s) \/ CooldownEnds(s)
      PROVE  Written
  BY <1>2 DEF Revoke, GoIdle, CleanUp, CooldownEnds, Shape
<1>3. ASSUME NEW q \in Handler, NEW s \in Session, Present(q, s) PROVE Written
  BY <1>3 DEF Present, accounts
<1>4. ASSUME NEW q \in Handler, Serve(q) PROVE Written
  <2>1. CASE SaveCooldown(q)
    BY <2>1 DEF SaveCooldown, SavePair, Shape
  <2>2. CASE ForgetCooldown(q)
    BY <2>2 DEF ForgetCooldown, Shape
  <2>. QED
    BY <1>4, <2>1, <2>2 DEF Serve, Lookup, CheckGeneration, StillActive, Inactive, Purge, Match,
       NoMatch, Rotate, RotateRefused, Recheck, Undo, Answer, accounts
<1>5. ASSUME NEW q \in Handler, Fault(q) PROVE Written
  BY <1>5 DEF Fault, PurgeFails, AnswerLost, HandlerDies, accounts
<1>6. ASSUME Reset \/ UNCHANGED vars PROVE Written
  BY <1>6 DEF Reset, vars, accounts
<1>7. Written
  BY <1>1, <1>2, <1>3, <1>4, <1>5, <1>6 DEF Next
<1>. QED BY <1>7

\* A refresh gives the session a pair newer than any it had, and cools the one its own
\* copy carries: however refreshes of one session overlap, neither is an older pair.
THEOREM RetiredForGood == Spec => RetiredStaysRetired
<1> DEFINE Carried(s) == {copy[q].pair : q \in {r \in Handler : pc[r] # "idle" /\ about[r] = s}}
<1>1. ASSUME SessionInv, [Next]_vars, NEW s \in Session, NEW p \in 1 .. minted[s],
             ~Usable(s, p), signin[s] = "in", p \notin Carried(s)
      PROVE  ~Usable(s, p)'
  <2> USE DEF SessionInv
  <2>1. ~(Exists(s)' /\ p = (row[s].pair)')
    <3>1. CASE InsertSession(s)
      BY <1>1, <3>1 DEF InsertSession
    <3>2. CASE \E q \in Handler : Rotate(q) /\ about[q] = s
      <4>1. row'[s].pair = minted[s] + 1
        BY <1>1, <3>2 DEF Rotate, Shape
      <4>2. p < minted[s] + 1
        BY <1>1 DEF Shape
      <4>. QED BY <4>1, <4>2
    <3>3. CASE row'[s] = row[s]
      BY <1>1, <3>3 DEF Usable, Exists
    <3>. QED BY <1>1, <3>1, <3>2, <3>3, RowWrites
  <2>2. p \notin cooldown'[s]
    <3>1. ASSUME NEW q \in Handler, pc[q] = "save", about[q] = s PROVE copy[q].pair # p
      BY <1>1, <3>1
    <3>. QED BY <1>1, <3>1, CooldownWrites DEF Usable
  <2>. QED BY <2>1, <2>2 DEF Usable
<1>2. SessionInv /\ [Next]_vars
        => [\A s \in Session : \A p \in 1 .. minted[s] :
              /\ ~Usable(s, p) /\ signin[s] = "in"
              /\ p \notin {copy[q].pair : q \in {r \in Handler : pc[r] # "idle" /\ about[r] = s}}
              => ~Usable(s, p)']_vars
  BY <1>1
<1>. QED BY <1>2, SessionInvariant, PTL DEF Spec, RetiredStaysRetired
=============================================================================
