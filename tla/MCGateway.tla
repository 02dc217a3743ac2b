----------------------------- MODULE MCGateway -----------------------------
(* Gateway for TLC: requests, users, guests and documents are alike.       *)
EXTENDS Gateway, FiniteSets, TLC

\* Bound: requests overlap while there is one document; when there are two, one
\* request is made after the other.
InBounds ==
    Cardinality({d \in Docs : creator'[d] # Absent}) > 1 =>
        Cardinality({r \in Requests : Open(r)' \/ reply'[r] # "none"}) <= 1

Symmetry == Permutations(Docs) \cup Permutations(Users)
            \cup Permutations(Guests) \cup Permutations(Requests)
=============================================================================
