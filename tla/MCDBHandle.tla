----------------------------- MODULE MCDBHandle -----------------------------
(* Instances of DBHandle for TLC.                                          *)
EXTENDS DBHandle, TLC

\* Goroutines of one kind are interchangeable (safety runs only).
Symmetry == Permutations(Queries) \cup Permutations(Viewers)
              \cup Permutations(Setters) \cup Permutations(Closers)
=============================================================================
