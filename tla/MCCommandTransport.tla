------------------------- MODULE MCCommandTransport -------------------------
(* Bounded instances of CommandTransport for TLC.                            *)
EXTENDS CommandTransport, TLC

CONSTANTS w1, w2, c1, c2

\* One command from each tab, or only the first one's.
MCHome == [c \in Command |-> IF c = c1 THEN w1 ELSE w2]

\* The two tabs, each with the one command it mints, are alike.
Alike ==
    {f \in Permutations({w1, w2, c1, c2}) : f[w1] \in {w1, w2} /\ (f[w1] = w1 <=> f[c1] = c1)
                                            /\ f[c1] \in {c1, c2}}
=============================================================================
