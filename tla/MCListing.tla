----------------------------- MODULE MCListing -----------------------------
(* Listing for TLC: the levels are alike.                                  *)
EXTENDS Listing, TLC

\* Every listing and order whose cursor has the time it is sorted by.
SoundOrders == {<<"documents", "created">>, <<"documents", "modified">>,
                <<"permissions", "created">>}

Symmetry == Permutations(Levels)

ModifiedPermissions == {<<"permissions", "modified">>}
=============================================================================
