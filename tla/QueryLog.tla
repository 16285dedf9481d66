------------------------------ MODULE QueryLog ------------------------------
(***************************************************************************)
(* The query log of a tailsql server: localState (local.go) and the SQLite *)
(* database behind it.  A Logger is one LogQuery call, at the end of a     *)
(* query of some other source; a Reader is one query of the log itself,    *)
(* through Query and the rows it returns.  txmu orders the transactions of *)
(* this process; SQLite, which is external, has a lock of its own that at  *)
(* most one transaction can write under.  Any statement may fail: the      *)
(* request's context ends, the disk is full, SQLite is busy.  When the     *)
(* context ends database/sql rolls the transaction back by itself, in a    *)
(* goroutine that LogQuery does not wait for.                              *)
(***************************************************************************)
EXTENDS Naturals, RWMutex

CONSTANTS
  Loggers,     \* LogQuery calls
  Readers,     \* Query calls, and the rows each returns
  Texts,       \* query texts
  Ids,         \* query IDs SQLite hands out
  NoId,        \* queryID as it is declared: no ID
  MaxCrashes   \* bound: how often the process ends and is started again

Procs == Loggers \cup Readers

ASSUME LogProcsAssumption == Loggers \cap Readers = {} /\ NoProc \notin Procs
ASSUME LogIdsAssumption == NoId \notin Ids /\ MaxCrashes \in Nat

VARIABLES
  up,       \* the process runs, with its local state open
  crashes,  \* how often it ended
  store,    \* the database as committed: tables queries and raw_query_log
  txmu,     \* localState.txmu
  wlock,    \* the transaction with SQLite's write lock
  text,     \* per LogQuery call: the query it is to log
  txn,      \* per LogQuery call: whether it has a transaction in SQLite
  tx,       \* per LogQuery call: the database as its transaction sees it
  queryID,  \* per LogQuery call: its local variable
  view,     \* per Query call: the database as its rows see it
  pc        \* per goroutine: what it does next, or what it returned

vars == <<up, crashes, store, txmu, wlock, text, txn, tx, queryID, view, pc>>
process == <<up, crashes, text>>

Stores == [queries : SUBSET [id : Ids, text : Texts],
           log     : SUBSET [id : Ids, by : Loggers]]
Empty == [queries |-> {}, log |-> {}]

Places == {"idle", "lock", "begin", "lookup", "insert", "entry", "commit",
           "undo", "unlock", "committed", "query", "rows", "done", "ok",
           "failed", "gone"}

\* A transaction that is over for its call ("ending") may stay open in SQLite:
\* until database/sql has rolled it back, or, after a commit that failed, for
\* as long as the connection lives.
TxStates == {"none", "open", "ending"}

TypeOK ==
  /\ up \in BOOLEAN
  /\ crashes \in 0..MaxCrashes
  /\ store \in Stores
  /\ txmu \in RWMutexes(Procs)
  /\ wlock \in Loggers \cup {NoProc}
  /\ text \in [Loggers -> Texts]
  /\ txn \in [Loggers -> TxStates]
  /\ tx \in [Loggers -> Stores]
  /\ queryID \in [Loggers -> Ids \cup {NoId}]
  /\ view \in [Readers -> Stores]
  /\ pc \in [Procs -> Places]

Init ==
  /\ up = TRUE
  /\ crashes = 0
  /\ store = Empty
  /\ txmu = Unlocked
  /\ wlock = NoProc
  /\ text \in [Loggers -> Texts]
  /\ txn = [p \in Loggers |-> "none"]
  /\ tx = [p \in Loggers |-> Empty]
  /\ queryID = [p \in Loggers |-> NoId]
  /\ view = [r \in Readers |-> Empty]
  /\ pc = [p \in Procs |-> "idle"]
-----------------------------------------------------------------------------
(* Helpers.                                                                *)

Goto(p, l) == pc' = [pc EXCEPT ![p] = l]

\* Where LogQuery uses its transaction.
InTx(p) == pc[p] \in {"lookup", "insert", "entry", "commit"}

\* SQLite lets p write.
MayWrite(p) == wlock \in {NoProc, p}

\* SQLite has ended the transaction of p.
EndTx(p) ==
  /\ txn' = [txn EXCEPT ![p] = "none"]
  /\ wlock' = IF wlock = p THEN NoProc ELSE wlock
-----------------------------------------------------------------------------
(* LogQuery.                                                               *)

(* Mutant of LogQuery: it takes txmu shared.                               *)
AnnounceShared(p) ==
  /\ up /\ pc[p] = "idle"
  /\ CanRLock(txmu)
  /\ txmu' = WithReader(txmu, p)
  /\ Goto(p, "begin")
  /\ UNCHANGED <<process, store, wlock, txn, tx, queryID, view>>

\* txmu.Lock, first half.
Announce(p) ==
  /\ up /\ pc[p] = "idle"
  /\ CanAnnounce(txmu)
  /\ txmu' = WithWriter(txmu, p)
  /\ Goto(p, "lock")
  /\ UNCHANGED <<process, store, wlock, txn, tx, queryID, view>>

Acquire(p) ==
  /\ pc[p] = "lock"
  /\ Exclusive(txmu, p)
  /\ Goto(p, "begin")
  /\ UNCHANGED <<process, store, txmu, wlock, txn, tx, queryID, view>>

BeginTx(p) ==
  /\ pc[p] = "begin"
  /\ txn' = [txn EXCEPT ![p] = "open"]
  /\ tx' = [tx EXCEPT ![p] = store]
  /\ Goto(p, "lookup")
  /\ UNCHANGED <<process, store, txmu, wlock, queryID, view>>

Rows(p) == {row \in tx[p].queries : row.text = text[p]}

(* Mutant of the lookup: ErrNoRows counts as an ID that was found.         *)
LookupIgnoresNoRows(p) ==
  /\ pc[p] = "lookup" /\ txn[p] = "open"
  /\ queryID' = [queryID EXCEPT ![p] =
                   IF Rows(p) = {} THEN NoId ELSE (CHOOSE r \in Rows(p) : TRUE).id]
  /\ Goto(p, "entry")
  /\ UNCHANGED <<process, store, txmu, wlock, txn, tx, view>>

\* SELECT query_id FROM queries WHERE query = ?
Lookup(p) ==
  /\ pc[p] = "lookup" /\ txn[p] = "open"
  /\ \/ /\ Rows(p) = {}
        /\ Goto(p, "insert")
        /\ UNCHANGED queryID
     \/ \E row \in Rows(p) :
          /\ queryID' = [queryID EXCEPT ![p] = row.id]
          /\ Goto(p, "entry")
  /\ UNCHANGED <<process, store, txmu, wlock, txn, tx, view>>

(* Mutant of the insertion: through s.rw, outside the transaction.         *)
InsertOutsideTx(p) ==
  /\ pc[p] = "insert" /\ txn[p] = "open"
  /\ \E n \in Ids \ {row.id : row \in tx[p].queries} :
       /\ store' = [store EXCEPT !.queries = @ \cup {[id |-> n, text |-> text[p]]}]
       /\ tx' = [tx EXCEPT ![p] = store']
       /\ queryID' = [queryID EXCEPT ![p] = n]
  /\ Goto(p, "entry")
  /\ UNCHANGED <<process, txmu, wlock, txn, view>>

\* INSERT INTO QUERIES (query) VALUES (?) RETURNING (query_id)
Insert(p) ==
  /\ pc[p] = "insert" /\ txn[p] = "open"
  /\ MayWrite(p)
  /\ wlock' = p
  /\ \E n \in Ids \ {row.id : row \in tx[p].queries} :
       /\ tx' = [tx EXCEPT ![p].queries = @ \cup {[id |-> n, text |-> text[p]]}]
       /\ queryID' = [queryID EXCEPT ![p] = n]
  /\ Goto(p, "entry")
  /\ UNCHANGED <<process, store, txmu, txn, view>>

(* Mutant of LogQuery: the entry is inserted through s.rw, not through tx.  *)
AddEntryOutsideTx(p) ==
  /\ pc[p] = "entry" /\ txn[p] = "open"
  /\ MayWrite(p)
  /\ wlock' = p
  /\ tx' = [tx EXCEPT ![p].log = @ \cup {[id |-> queryID[p], by |-> p]}]
  /\ store' = [store EXCEPT !.log = @ \cup {[id |-> queryID[p], by |-> p]}]
  /\ Goto(p, "commit")
  /\ UNCHANGED <<process, txmu, txn, queryID, view>>

\* INSERT INTO raw_query_log
AddEntry(p) ==
  /\ pc[p] = "entry" /\ txn[p] = "open"
  /\ MayWrite(p)
  /\ wlock' = p
  /\ tx' = [tx EXCEPT ![p].log = @ \cup {[id |-> queryID[p], by |-> p]}]
  /\ Goto(p, "commit")
  /\ UNCHANGED <<process, store, txmu, txn, queryID, view>>

\* SQLite commits, unless another transaction of its own is in the way.
Commit(p) ==
  /\ pc[p] = "commit" /\ txn[p] = "open"
  /\ \A o \in Loggers \ {p} : txn[o] # "open"
  /\ store' = tx[p]
  /\ EndTx(p)
  /\ Goto(p, "committed")
  /\ UNCHANGED <<process, txmu, tx, queryID, view>>

\* SQLite reports an error for the commit.  For database/sql the transaction is
\* done, so the deferred Rollback does nothing: SQLite has rolled it back, or
\* it stays open on a connection that is back in the pool.
FailCommit(p) ==
  /\ pc[p] = "commit" /\ txn[p] = "open"
  /\ EndTx(p) \/ (txn' = [txn EXCEPT ![p] = "ending"] /\ UNCHANGED wlock)
  /\ Goto(p, "undo")
  /\ UNCHANGED <<process, store, txmu, tx, queryID, view>>

\* BeginTx or a statement reports an error, or Commit does because the context
\* has ended or the transaction is done.
Fail(p) ==
  /\ \/ pc[p] = "begin" /\ Goto(p, "unlock")
     \/ InTx(p) /\ Goto(p, "undo")
  /\ UNCHANGED <<process, store, txmu, wlock, txn, tx, queryID, view>>

\* The deferred Rollback: sql.ErrTxDone, and nothing done, if somebody else has
\* ended the transaction or is about to.
Rollback(p) ==
  /\ pc[p] = "undo"
  /\ IF txn[p] = "open" THEN EndTx(p) ELSE UNCHANGED <<txn, wlock>>
  /\ Goto(p, "unlock")
  /\ UNCHANGED <<process, store, txmu, tx, queryID, view>>

(* Mutant of the error paths: the call reports success.                    *)
ReturnOk(p) ==
  /\ pc[p] \in {"unlock", "committed"}
  /\ txmu' = Unlock(txmu)
  /\ Goto(p, "ok")
  /\ UNCHANGED <<process, store, wlock, txn, tx, queryID, view>>

\* The deferred Unlock, and LogQuery returns.
Return(p) ==
  /\ pc[p] \in {"unlock", "committed"}
  /\ txmu' = Unlock(txmu)
  /\ Goto(p, IF pc[p] = "committed" THEN "ok" ELSE "failed")
  /\ UNCHANGED <<process, store, wlock, txn, tx, queryID, view>>

\* The context ends: from now on the transaction is done for its call, and a
\* goroutine of database/sql is to roll it back.
ContextEnds(p) ==
  /\ txn[p] = "open"
  /\ txn' = [txn EXCEPT ![p] = "ending"]
  /\ UNCHANGED <<process, store, txmu, wlock, tx, queryID, view, pc>>

\* That goroutine, or SQLite, does so, at any time after.
RollbackLate(p) ==
  /\ txn[p] = "ending"
  /\ EndTx(p)
  /\ UNCHANGED <<process, store, txmu, tx, queryID, view, pc>>
-----------------------------------------------------------------------------
(* Query, and the rows it returns.                                         *)

ReadLock(r) ==
  /\ up /\ pc[r] = "idle"
  /\ CanRLock(txmu)
  /\ txmu' = WithReader(txmu, r)
  /\ Goto(r, "query")
  /\ UNCHANGED <<process, store, wlock, txn, tx, queryID, view>>

(* Mutant of Query: it keeps txmu for as long as the rows are open.        *)
QueryHolds(r) ==
  /\ pc[r] = "query"
  /\ view' = [view EXCEPT ![r] = store]
  /\ Goto(r, "rows")
  /\ UNCHANGED <<process, store, txmu, wlock, txn, tx, queryID>>

\* s.ro.QueryContext, then the deferred RUnlock: the rows are still open.
Query(r) ==
  /\ pc[r] = "query"
  /\ txmu' = RUnlock(txmu, r)
  /\ \/ view' = [view EXCEPT ![r] = store] /\ Goto(r, "rows")
     \/ UNCHANGED view /\ Goto(r, "done")
  /\ UNCHANGED <<process, store, wlock, txn, tx, queryID>>

\* runQuery's callback has read the rows and closes them.
CloseRows(r) ==
  /\ pc[r] = "rows"
  /\ Goto(r, "done")
  /\ UNCHANGED <<process, store, txmu, wlock, txn, tx, queryID, view>>
-----------------------------------------------------------------------------
(* The process.                                                            *)

Ended(p) == pc[p] \in {"done", "ok", "failed", "gone"}

\* The process ends: SQLite will roll back what was not committed.
Crash ==
  /\ up
  /\ crashes < MaxCrashes
  /\ crashes' = crashes + 1
  /\ up' = FALSE
  /\ txmu' = Unlocked
  /\ wlock' = NoProc
  /\ txn' = [p \in Loggers |-> "none"]
  /\ pc' = [p \in Procs |-> IF pc[p] = "idle" \/ Ended(p) THEN pc[p] ELSE "gone"]
  /\ UNCHANGED <<store, text, tx, queryID, view>>

\* newLocalState: on an error it closes what it opened and nothing runs.
Start ==
  /\ ~up
  /\ up' = TRUE
  /\ UNCHANGED <<crashes, store, txmu, wlock, text, txn, tx, queryID, view, pc>>

Idle == (\A p \in Procs : Ended(p)) /\ UNCHANGED vars

Log(p) ==
  \/ Announce(p) \/ Acquire(p) \/ BeginTx(p) \/ Lookup(p) \/ Insert(p)
  \/ AddEntry(p) \/ Commit(p) \/ FailCommit(p) \/ Fail(p) \/ Rollback(p)
  \/ Return(p)
Read(r) == ReadLock(r) \/ Query(r)

Next ==
  \/ \E p \in Loggers : Log(p) \/ ContextEnds(p) \/ RollbackLate(p)
  \/ \E r \in Readers : Read(r) \/ CloseRows(r)
  \/ Crash
  \/ Start
  \/ Idle

Spec == Init /\ [][Next]_vars

(* Fairness.  A goroutine that can run again and again does; the process   *)
(* is started again.  Rows, and transactions that are over for their call, *)
(* may stay open for ever.                                                 *)
FairSpec ==
  /\ Spec
  /\ WF_vars(Start)
  /\ \A p \in Loggers : SF_vars(Log(p))
  /\ \A r \in Readers : SF_vars(Read(r))
-----------------------------------------------------------------------------
(* Properties.                                                             *)

Databases == {store} \cup {view[r] : r \in Readers}

\* Every log entry has the text of the query it is for (the join of view
\* query_log, state-schema.sql:24-28), in the file and in what readers see,
\* however calls, failures and crashes interleave (local.go:95-109).
EntriesResolve ==
  \A d \in Databases : \A e \in d.log :
    [id |-> e.id, text |-> text[e.by]] \in d.queries

\* The lookup-or-insert of LogQuery (local.go:96-100) is one unit with the
\* entry: no text is stored twice, and none without an entry, though the call
\* that inserted it may have failed or died half way.
TextsLogged ==
  \A d \in Databases : \A row \in d.queries :
    /\ \A other \in d.queries : other.text = row.text => other = row
    /\ \E e \in d.log : e.id = row.id

\* A call that reports success has left one entry, and one that reports an
\* error none (local.go:83-114), also when the process died in between.
LoggedOnce ==
  \A p \in Loggers :
    /\ pc[p] = "ok" => \E e \in store.log : e.by = p
    /\ pc[p] = "failed" => \A e \in store.log : e.by # p
    /\ \A e, f \in store.log : e.by = p /\ f.by = p => e = f

\* txmu keeps LogQuery calls that can still succeed out of each other's way: a
\* call that finds SQLite's write lock taken finds a transaction that is to be
\* rolled back, of a call that has reported its error, and nobody else has a
\* transaction to commit (local.go:44, 87-93).
NoConflict ==
  \A p \in Loggers :
    /\ pc[p] \in {"insert", "entry"} /\ ~MayWrite(p) =>
         pc[wlock] = "failed" /\ txn[wlock] = "ending"
    /\ InTx(p) => \A o \in Loggers \ {p} : txn[o] # "open"

\* LogQuery calls and Query calls end although the rows of some query of the
\* log are never closed (local.go:117-121).
NotHeldUp ==
  <>(\A p \in Procs : Ended(p) \/ pc[p] = "rows")
-----------------------------------------------------------------------------
(* The abstract log that this module implements.                           *)

\* View query_log: every entry with the text of the row its ID is of.
Joined(d) ==
  UNION {{[by |-> e.by, text |-> row.text] : row \in {q \in d.queries : q.id = e.id}} :
           e \in d.log}

\* What a caller knows of a call: nothing until it returns.
Known(p) == IF pc[p] = "rows" \/ Ended(p) THEN pc[p] ELSE "open"

Book == INSTANCE LogBook
  WITH call <- [p \in Procs |-> Known(p)],
       book <- Joined(store),
       page <- [r \in Readers |-> Joined(view[r])]

\* For those who read it through view query_log the tables, the lookup, the
\* transaction and the two locks are one log, to which a call adds its entry in
\* one step before it reports success, and none if it reports an error, across
\* failures and crashes; rows that are open show one moment of it
\* (local.go:80-121, state-schema.sql:24-28).
ImplementsBook == Book!Spec

\* What the abstract log promises: a call that reported success is in the log,
\* with its own text, one that reported an error is not, and what anyone has
\* seen in the log stays in it (local.go:77-121).
PromiseKept == Book!Promise
=============================================================================
