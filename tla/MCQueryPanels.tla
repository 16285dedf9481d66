--------------------------- MODULE MCQueryPanels ---------------------------
(* Instances of QueryPanels for TLC.                                       *)
EXTENDS QueryPanels

\* Tabs are interchangeable.
Symmetry == Permutations(Tabs)

\* Without is the library's filter, on every list that is one entry too long
\* or shorter.
ASSUME WithoutIsFilter ==
  \A n \in 0..MaxEntries + 1 : \A h \in [1..n -> Entries], q \in Queries :
    Without(h, q) = SelectSeq(h, LAMBDA e : e.query # q)
=============================================================================
