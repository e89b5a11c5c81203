---------------------------- MODULE MCHandshake ----------------------------
EXTENDS Handshake

CONSTANTS d1, d2

FirstOfGroup == [grouped |-> TRUE, id |-> TRUE, secret |-> FALSE]

Say(to, group, speaks) == [to |-> to, group |-> group, speaks |-> speaks]
Both(a, b) == [d \in Dialer |-> IF d = d1 THEN a ELSE b]

\* Every acceptor and both versions beside a dialer that NewClassicListener's acceptor keeps
\* waiting for Create, and every combination of the group's headers beside one that is refused.
AllHellos ==
    {Both(Say("create", FirstOfGroup, TRUE), Say(to, FirstOfGroup, speaks)) :
        to \in Acceptor, speaks \in BOOLEAN}
    \cup
    {Both(Say("refuse", FirstOfGroup, TRUE), Say("legacy", group, TRUE)) : group \in Grouping}

=============================================================================
