----------------------------- MODULE CommandLedger -----------------------------
(***************************************************************************)
(* What the command journal promises, without transactions, locks, calls   *)
(* or crashes: every acceptance of a command has one fate.  It is open     *)
(* until it takes effect once ("done") or is given up ("void"), and what   *)
(* is done or void stays so.  A command has at most one acceptance on      *)
(* record, and is accepted anew only when there is none.                   *)
(***************************************************************************)
EXTENDS Naturals

CONSTANTS Command, MaxRows

VARIABLES
    holder, \* the acceptance on record for each command, 0 if there is none
    fate,   \* of each acceptance: "unborn", "open", "done" or "void"
    count   \* acceptances so far

ledgerVars == <<holder, fate, count>>

LedgerInit ==
    /\ holder = [c \in Command |-> 0]
    /\ fate = [n \in 1 .. MaxRows |-> "unborn"]
    /\ count = 0

\* A command that is not on record is accepted under the next number.
Open(c) ==
    /\ holder[c] = 0 /\ count < MaxRows
    /\ count' = count + 1
    /\ holder' = [holder EXCEPT ![c] = count + 1]
    /\ fate' = [fate EXCEPT ![count + 1] = "open"]

\* The acceptance on record takes effect.
TakeEffect(c) ==
    /\ holder[c] # 0 /\ fate[holder[c]] = "open"
    /\ fate' = [fate EXCEPT ![holder[c]] = "done"]
    /\ UNCHANGED <<holder, count>>

\* The record is dropped: what has not taken effect by then never will.
Drop(c) ==
    /\ holder[c] # 0
    /\ holder' = [holder EXCEPT ![c] = 0]
    /\ fate' = [fate EXCEPT ![holder[c]] = IF @ = "open" THEN "void" ELSE @]
    /\ UNCHANGED count

LedgerNext == \E c \in Command : Open(c) \/ TakeEffect(c) \/ Drop(c)

LedgerSpec == LedgerInit /\ [][LedgerNext]_ledgerVars
=============================================================================
