-------------------------- MODULE DataSourceProofs --------------------------
(* The promise of the abstract data source, for any databases and users.   *)
EXTENDS DataSource, TLAPS

\* A query only ever runs on the current database, and that one is open: the
\* reason dbHandle is worth implementing it (options.go:328-332).
THEOREM SourceSafe ==
  ASSUME First \in DBs, NoDB \notin DBs
  PROVE  Spec => [](SourceTypeOK /\ QueriesSafe)
<1> DEFINE Inv == SourceTypeOK /\ QueriesSafe
<1>1. Init => Inv
  BY DEF Init, SourceTypeOK, QueriesSafe
<1>2. Inv /\ [Next]_vars => Inv'
  <2> SUFFICES ASSUME Inv, [Next]_vars
      PROVE  Inv'
    OBVIOUS
  <2> USE DEF SourceTypeOK, QueriesSafe
  <2>1. ASSUME NEW d \in DBs, Offer(d) PROVE Inv'
    BY <2>1 DEF Offer
  <2>2. ASSUME NEW d \in DBs, Install(d) PROVE Inv'
    BY <2>2 DEF Install, Spare, Quiet, Closing
  <2>3. ASSUME NEW d \in DBs, Discard(d) PROVE Inv'
    BY <2>3 DEF Discard, Spare, Closing
  <2>4. CASE Shut
    BY <2>4 DEF Shut, Quiet, Closing
  <2>5. ASSUME NEW u \in Users, Start(u) PROVE Inv'
    BY <2>5 DEF Start
  <2>6. ASSUME NEW u \in Users, Finish(u) PROVE Inv'
    BY <2>6 DEF Finish
  <2>7. CASE UNCHANGED vars
    BY <2>7 DEF vars
  <2> QED
    BY <2>1, <2>2, <2>3, <2>4, <2>5, <2>6, <2>7 DEF Next
<1> QED
  BY <1>1, <1>2, PTL DEF Spec
=============================================================================
