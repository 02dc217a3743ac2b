---------------------------- MODULE MCDocuments ----------------------------
(* Documents for TLC: requests, users, guests and documents are alike.     *)
EXTENDS Documents, TLC

Symmetry == Permutations(Docs) \cup Permutations(Users)
            \cup Permutations(Guests) \cup Permutations(Requests)
=============================================================================
