------------------------------ MODULE MCIngest ------------------------------
(* Small instances of Ingest for TLC.                                      *)
EXTENDS Ingest, TLC

\* Connection slots are interchangeable (safety runs only).
ConnSymmetry == Permutations(Conn)
=============================================================================
