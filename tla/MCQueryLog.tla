----------------------------- MODULE MCQueryLog -----------------------------
(* Instances of QueryLog for TLC: the constants are all model values.      *)
EXTENDS QueryLog
=============================================================================
