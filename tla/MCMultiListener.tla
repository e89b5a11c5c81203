-------------------------- MODULE MCMultiListener --------------------------
EXTENDS MultiListener

\* The underlays and the group id of the small instance.
CONSTANTS u1, u2, u3, g1
=============================================================================
