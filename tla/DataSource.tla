----------------------------- MODULE DataSource -----------------------------
(***************************************************************************)
(* What a data source promises its users, without locks, goroutines or     *)
(* pending updates.  A source has at most one current database.  Databases *)
(* are handed to it one by one and it owns each until it closes it: it     *)
(* installs it in place of the current one or gives up on it.  A query     *)
(* uses the current database from start to end, so the current database is *)
(* replaced, or shut, only while no query uses it.                         *)
(***************************************************************************)
CONSTANTS
  DBs,      \* all databases
  NoDB,     \* no database: not one of DBs
  First,    \* the database the source starts with, one of DBs
  Users     \* queries

VARIABLES
  current,  \* the installed database
  state,    \* per database: "unused", "open" or "closed"
  using     \* per query: the database it runs on

vars == <<current, state, using>>

SourceTypeOK ==
  /\ current \in DBs \cup {NoDB}
  /\ state \in [DBs -> {"unused", "open", "closed"}]
  /\ using \in [Users -> DBs \cup {NoDB}]

\* The promise: a query only ever runs on an open database, the current one.
QueriesSafe ==
  /\ current # NoDB => state[current] = "open"
  /\ \A u \in Users : using[u] # NoDB => using[u] = current

Init ==
  /\ current = First
  /\ state = [d \in DBs |-> IF d = First THEN "open" ELSE "unused"]
  /\ using = [u \in Users |-> NoDB]

\* Nobody runs a query.
Quiet == \A u \in Users : using[u] = NoDB

\* Databases the source owns but has not installed.
Spare == {d \in DBs : state[d] = "open"} \ {current}

Closing(S) == [d \in DBs |-> IF d \in S THEN "closed" ELSE state[d]]

\* A provider opens a database for the source.
Offer(d) ==
  /\ state[d] = "unused"
  /\ state' = [state EXCEPT ![d] = "open"]
  /\ UNCHANGED <<current, using>>

\* Put d in place of the current database, giving up on at most one other.
Install(d) ==
  /\ d \in Spare
  /\ Quiet
  /\ \E S \in {{}} \cup {{e} : e \in Spare \ {d}} :
       state' = Closing(S \cup ({current} \ {NoDB}))
  /\ current' = d
  /\ UNCHANGED using

\* Give up on a spare database.
Discard(d) ==
  /\ d \in Spare
  /\ state' = Closing({d})
  /\ UNCHANGED <<current, using>>

Shut ==
  /\ current # NoDB
  /\ Quiet
  /\ state' = Closing({current})
  /\ current' = NoDB
  /\ UNCHANGED using

Start(u) ==
  /\ current # NoDB
  /\ using[u] = NoDB
  /\ using' = [using EXCEPT ![u] = current]
  /\ UNCHANGED <<current, state>>

Finish(u) ==
  /\ using[u] # NoDB
  /\ using' = [using EXCEPT ![u] = NoDB]
  /\ UNCHANGED <<current, state>>

Next ==
  \/ \E d \in DBs : Offer(d) \/ Install(d) \/ Discard(d)
  \/ Shut
  \/ \E u \in Users : Start(u) \/ Finish(u)

Spec == Init /\ [][Next]_vars
=============================================================================
