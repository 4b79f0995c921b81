---------------------------- MODULE MCZivpnPanel ----------------------------
EXTENDS ZivpnPanel, TLC

Symmetry == Permutations(Users) \cup Permutations(Passwords)

\* Bound: once the state file was damaged there is at most one account.
SmallOnceDamaged == damages = 0 \/ Cardinality(live) <= 1
=============================================================================
