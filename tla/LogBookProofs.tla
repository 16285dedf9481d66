--------------------------- MODULE LogBookProofs ---------------------------
(* The promise of the abstract log, for any calls and texts.               *)
EXTENDS LogBook, TLAPS

\* The types of the log.
BookTypeOK ==
  /\ call \in [Loggers \cup Readers -> {"open", "rows", "ok", "failed", "done", "gone"}]
  /\ page \in [Readers -> SUBSET [by : Loggers, text : Texts]]
  /\ text \in [Loggers -> Texts]

\* Who reports success is in the log with its own text, who reports an error is
\* not, and what a reader has seen stays (local.go:77-121).
THEOREM BookKept ==
  ASSUME Loggers \cap Readers = {}
  PROVE  Spec => []Promise
<1> DEFINE Inv == BookTypeOK /\ Promise
<1>1. Init => Inv
  BY DEF Init, BookTypeOK, Promise
<1>2. Inv /\ [Next]_vars => Inv'
  <2> SUFFICES ASSUME Inv, [Next]_vars
      PROVE  Inv'
    OBVIOUS
  <2> USE DEF BookTypeOK, Promise, Entry, Turn
  <2>1. ASSUME NEW l \in Loggers, Write(l) PROVE Inv'
    BY <2>1 DEF Write
  <2>2. ASSUME NEW l \in Loggers, Succeed(l) \/ GiveUp(l) PROVE Inv'
    BY <2>2 DEF Succeed, GiveUp
  <2>3. ASSUME NEW r \in Readers, Read(r) PROVE Inv'
    BY <2>3 DEF Read
  <2>4. ASSUME NEW r \in Readers, EndRead(r) PROVE Inv'
    BY <2>4 DEF EndRead
  <2>5. CASE Lose
    BY <2>5 DEF Lose
  <2>6. CASE UNCHANGED vars
    BY <2>6 DEF vars
  <2> QED
    BY <2>1, <2>2, <2>3, <2>4, <2>5, <2>6 DEF Next
<1>3. Inv => Promise
  OBVIOUS
<1> QED
  BY <1>1, <1>2, <1>3, PTL DEF Spec
=============================================================================
