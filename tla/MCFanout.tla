------------------------------ MODULE MCFanout ------------------------------
(* Small instances of Fanout for TLC.                                      *)
EXTENDS Fanout, FiniteSets, TLC

\* Bound: two items in the tables, both insertions or one a deletion.
MaxPersisted == 2
InBounds     == Cardinality(Persisted') <= MaxPersisted

\* Connection slots and channels are interchangeable (safety runs only).
FanoutSymmetry == Permutations(Conn) \cup Permutations(Channel)
=============================================================================
