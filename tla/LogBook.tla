------------------------------ MODULE LogBook ------------------------------
(***************************************************************************)
(* What the query log promises its callers, without tables, transactions   *)
(* or locks.  The log is a set of entries, one per call that logs, and     *)
(* grows by one entry at a time: in one step of the call, which is then    *)
(* sure to report success unless the process ends before.  A call that     *)
(* reports an error leaves nothing.  Of one that is lost with the process  *)
(* nobody knows: its entry may be there.  A reader has the log of one      *)
(* moment of its call, and keeps it for as long as its rows are open,      *)
(* whatever is logged meanwhile.                                           *)
(***************************************************************************)
CONSTANTS
  Loggers,   \* calls that log a query
  Readers,   \* calls that read the log
  Texts      \* query texts

VARIABLES
  text,    \* per Logger: the query it logs
  call,    \* per call: "open", "rows", or how it ended
  book,    \* the log
  page     \* per Reader: the log as its rows show it

vars == <<text, call, book, page>>

Init ==
  /\ text \in [Loggers -> Texts]
  /\ call = [c \in Loggers \cup Readers |-> "open"]
  /\ book = {}
  /\ page = [r \in Readers |-> {}]

\* The entry a call makes: in its own name, with its own text.
Entry(l) == [by |-> l, text |-> text[l]]

Turn(c, s) == call' = [call EXCEPT ![c] = s]

\* The entry of l is in the log.
Write(l) ==
  /\ call[l] = "open"
  /\ book' = book \cup {Entry(l)}
  /\ UNCHANGED <<text, call, page>>

\* l reports success.
Succeed(l) ==
  /\ call[l] = "open" /\ Entry(l) \in book
  /\ Turn(l, "ok")
  /\ UNCHANGED <<text, book, page>>

\* l reports an error.
GiveUp(l) ==
  /\ call[l] = "open" /\ Entry(l) \notin book
  /\ Turn(l, "failed")
  /\ UNCHANGED <<text, book, page>>

Read(r) ==
  /\ call[r] = "open"
  /\ page' = [page EXCEPT ![r] = book]
  /\ Turn(r, "rows")
  /\ UNCHANGED <<text, book>>

\* The rows of r are closed, or it had an error and none were opened.
EndRead(r) ==
  /\ call[r] \in {"open", "rows"}
  /\ Turn(r, "done")
  /\ UNCHANGED <<text, book, page>>

\* The process ends, and calls with it; the log stays.
Lose ==
  /\ \E Lost \in SUBSET {c \in Loggers \cup Readers : call[c] \in {"open", "rows"}} :
       call' = [c \in Loggers \cup Readers |-> IF c \in Lost THEN "gone" ELSE call[c]]
  /\ UNCHANGED <<text, book, page>>

Next ==
  \/ \E l \in Loggers : Write(l) \/ Succeed(l) \/ GiveUp(l)
  \/ \E r \in Readers : Read(r) \/ EndRead(r)
  \/ Lose

Spec == Init /\ [][Next]_vars

\* The promise: a call that reported success is in the log, with its own text,
\* one that reported an error is not, and nothing a reader has seen is ever
\* taken out again.
Promise ==
  /\ \A e \in book : \E l \in Loggers :
       e = Entry(l) /\ call[l] \in {"open", "ok", "gone"}
  /\ \A l \in Loggers : call[l] = "ok" => Entry(l) \in book
  /\ \A r \in Readers : page[r] \subseteq book
=============================================================================
