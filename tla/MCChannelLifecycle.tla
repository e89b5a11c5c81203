------------------------ MODULE MCChannelLifecycle ------------------------
EXTENDS ChannelLifecycle, TLC

CONSTANTS u1, u2

Each(n) == [t \in Type |-> n]
Nothing == [t \in {} |-> 0]

\* A dialing channel that wants two underlays and loses as many as there are ...
Dials == [Constrained |-> Type, Desired |-> Each(2), Min |-> Each(0), MinTotal |-> 0,
          HasDialPolicy |-> TRUE, Incoming |-> FALSE, UserCloses |-> FALSE, Supply |-> {u1, u2}]

\* ... one that replaces its only underlay ...
Replaces == [Dials EXCEPT !.Desired = Each(1)]

\* ... and one that closes, by itself below its minimum or by the application.
Closes == [Dials EXCEPT !.Min = Each(1), !.UserCloses = TRUE, !.Supply = {u1}]

\* The listener's end, which needs one underlay of any type.
Listens == [Constrained |-> {}, Desired |-> Nothing, Min |-> Nothing, MinTotal |-> 1,
            HasDialPolicy |-> FALSE, Incoming |-> TRUE, UserCloses |-> TRUE, Supply |-> {u1}]

\* A channel of a single underlay, without constraints.
Simple == [Listens EXCEPT !.MinTotal = 0]

Dialing == {Dials, Replaces}
Ending == {Closes, Listens, Simple}

Symmetry == Permutations({u1, u2})
=============================================================================
