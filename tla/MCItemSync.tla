----------------------------- MODULE MCItemSync -----------------------------
(* A bounded instance of ItemSync for TLC: two devices, or two tabs of one.  *)
EXTENDS ItemSync

CONSTANTS a, b

Both == {"save", "page"}
OwnSessions == [d \in Device |-> d]
OneSession == [d \in Device |-> a]

\* Two devices, nothing serialised and both windows closed; two tabs, both closed.
DevicesAndTabs ==
    {[closed |-> {}, sessions |-> OwnSessions],
     [closed |-> Both, sessions |-> OwnSessions],
     [closed |-> Both, sessions |-> OneSession]}

\* Two devices, their saves not serialised.
OpenSaves == {[closed |-> {"page"}, sessions |-> OwnSessions]}
=============================================================================
