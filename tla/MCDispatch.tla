----------------------------- MODULE MCDispatch -----------------------------
EXTENDS Dispatch

CONSTANTS k1, k2

Asks(K) == {Message("ask", k) : k \in K}

\* Two askers on two underlays; one on underlays whose connections break, with a handler for any
\* content type, which gets the replies that come late; one whose request may be requeued; and a
\* channel that is closed twice.
MCConfigs ==
    {[plan |-> <<"ask">>, incoming |-> Asks({k1, k2}), closes |-> {}, breaks |-> {},
      fails |-> {k1}, requeues |-> 0],
     [plan |-> <<"any", "ask">>, incoming |-> Asks({k1}) \cup {Message("note", None)}, closes |-> {},
      breaks |-> Underlay, fails |-> Key, requeues |-> 0],
     [plan |-> <<"any", "ask">>, incoming |-> Asks({k1}), closes |-> {}, breaks |-> Underlay,
      fails |-> Key, requeues |-> 1],
     [plan |-> <<"ask", "note">>, incoming |-> Asks({k2}), closes |-> Closer, breaks |-> {},
      fails |-> Key, requeues |-> 0]}
=============================================================================
