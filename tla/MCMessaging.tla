---------------------------- MODULE MCMessaging ----------------------------
EXTENDS Messaging, TLC

Symmetry == Permutations(Caller) \cup Permutations(Underlay)

=============================================================================
