--------------------------- MODULE ChannelGroups ---------------------------
(***************************************************************************)
(* What a MultiListener promises about the groups it assembles: a group    *)
(* has at most one open channel, made by one of its underlays; other       *)
(* underlays join it while it is open; an underlay belongs to one channel  *)
(* only; a channel that has closed does not come back.                     *)
(***************************************************************************)
CONSTANTS Underlay, Id, None

VARIABLES
    open,     \* the open channels of each group, named by the underlay that made them
    member    \* the channel each underlay belongs to

vars == <<open, member>>

Init ==
    /\ open = [i \in Id |-> {}]
    /\ member = [u \in Underlay |-> None]

Create(i, u) ==
    /\ open[i] = {}
    /\ member[u] = None
    /\ open' = [open EXCEPT ![i] = {u}]
    /\ member' = [member EXCEPT ![u] = u]

Join(i, u) ==
    /\ member[u] = None
    /\ \E c \in open[i] : member' = [member EXCEPT ![u] = c]
    /\ UNCHANGED open

Close(i) ==
    /\ open[i] # {}
    /\ open' = [open EXCEPT ![i] = {}]
    /\ UNCHANGED member

Next ==
    \/ \E i \in Id, u \in Underlay : Create(i, u) \/ Join(i, u)
    \/ \E i \in Id : Close(i)

Spec == Init /\ [][Next]_vars

=============================================================================
