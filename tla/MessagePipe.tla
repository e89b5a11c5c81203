----------------------------- MODULE MessagePipe -----------------------------
(***************************************************************************)
(* What a pair of underlays promises the channels above them: each end     *)
(* receives what the other end sent, whole and unaltered; over an ordered  *)
(* underlay in the order of sending, nothing twice and nothing skipped.    *)
(***************************************************************************)
EXTENDS Naturals, Sequences, SequencesExt

VARIABLES
    sent,      \* sent[e]: what end e has sent
    got,       \* got[e]: what end e has received
    ordered    \* a stream, or packets that may be lost, repeated and reordered

Dialer == "dialer"
Listener == "listener"
End == {Dialer, Listener}
Other(e) == IF e = Dialer THEN Listener ELSE Dialer

Init ==
    /\ sent = [e \in End |-> <<>>]
    /\ got = [e \in End |-> <<>>]
    /\ ordered \in BOOLEAN

Send(e) ==
    /\ Len(sent'[e]) = Len(sent[e]) + 1
    /\ IsPrefix(sent[e], sent'[e])
    /\ sent'[Other(e)] = sent[Other(e)]
    /\ UNCHANGED <<got, ordered>>

Receive(e) ==
    /\ \E i \in DOMAIN sent[Other(e)] :
          /\ ordered => i = Len(got[e]) + 1
          /\ got' = [got EXCEPT ![e] = Append(@, sent[Other(e)][i])]
    /\ UNCHANGED <<sent, ordered>>

Next == \E e \in End : Send(e) \/ Receive(e)

Spec == Init /\ [][Next]_<<sent, got, ordered>>
=============================================================================
