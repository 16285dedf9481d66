--------------------------- MODULE QueryLogProofs ---------------------------
(***************************************************************************)
(* Proofs about QueryLog, for any number of calls, texts and crashes.      *)
(***************************************************************************)
EXTENDS QueryLog, TLAPS

(* The inductive invariant.                                                *)

\* Where LogQuery has txmu or waits for its readers.
Holds(p) ==
  pc[p] \in {"lock", "begin", "lookup", "insert", "entry", "commit", "undo", "unlock", "committed"}

\* txmu agrees with where the goroutines are: a LogQuery call past the wait
\* for the readers is alone.  Only with txmu can a transaction be used; one that
\* is left belongs to a call that is to report an error, or has.
LockInv ==
  /\ \A p \in Loggers :
       /\ txmu.writer = p <=> Holds(p)
       /\ wlock = p => txn[p] # "none"
       /\ txn[p] = "open" => pc[p] \in {"lookup", "insert", "entry", "commit", "undo"}
       /\ txn[p] = "ending" =>
            pc[p] \in {"lookup", "insert", "entry", "commit", "undo", "unlock", "failed"}
       /\ pc[p] # "query" /\ p \notin txmu.readers
       /\ Holds(p) /\ pc[p] # "lock" => txmu.readers = {}
  /\ \A r \in Readers :
       /\ r \in txmu.readers <=> pc[r] = "query"
       /\ txmu.writer # r /\ pc[r] # "lock"

\* The row that text t has under ID n.
Row(n, t) == [id |-> n, text |-> t]

\* What both tables of a database promise together.
Resolves(d) == \A e \in d.log : Row(e.id, text[e.by]) \in d.queries
Distinct(d) == \A r, o \in d.queries : o.text = r.text \/ o.id = r.id => o = r
Used(d) == \A r \in d.queries : \E e \in d.log : e.id = r.id
Good(d) == Resolves(d) /\ Distinct(d) /\ Used(d)

StoreInv == Good(store) /\ \A r \in Readers : Good(view[r])

\* A call has an entry in the database from its commit on; only the end of the
\* process can keep it from reporting success then.
EntryInv ==
  /\ \A p \in Loggers :
       /\ pc[p] \in {"committed", "ok"} => \E e \in store.log : e.by = p
       /\ (\E e \in store.log : e.by = p) => pc[p] \in {"committed", "ok", "gone"}
  /\ \A e, f \in store.log : e.by = f.by => e = f

\* What a transaction sees: the database as committed, with the row it looked
\* up or inserted, then with its entry.
TxInv ==
  \A p \in Loggers :
    /\ pc[p] \in {"lookup", "insert"} => tx[p] = store
    /\ pc[p] = "insert" => \A r \in tx[p].queries : r.text # text[p]
    /\ pc[p] = "entry" => tx[p].log = store.log
    /\ pc[p] = "commit" =>
         tx[p].log = store.log \cup {[id |-> queryID[p], by |-> p]}
    /\ pc[p] \in {"entry", "commit"} =>
         /\ queryID[p] \in Ids
         /\ Row(queryID[p], text[p]) \in tx[p].queries
         /\ Distinct(tx[p])
         /\ tx[p].queries = store.queries \cup {Row(queryID[p], text[p])}

IInv == TypeOK /\ LockInv /\ StoreInv /\ EntryInv /\ TxInv
-----------------------------------------------------------------------------
\* Every step keeps the types: an entry is added with an ID that was found.
LEMMA TypeStep ==
  TypeOK /\ TxInv /\ [Next]_vars => TypeOK'
<1> SUFFICES ASSUME TypeOK, TxInv, [Next]_vars
    PROVE  TypeOK'
  OBVIOUS
<1> USE LogProcsAssumption, LogIdsAssumption DEF Places, TypeOK, TxStates, Procs, process
<1>1. ASSUME NEW p \in Loggers, Announce(p) PROVE TypeOK'
  BY <1>1 DEF Announce, Goto, CanAnnounce, WithWriter, RWMutexes
<1>2. ASSUME NEW p \in Loggers, Acquire(p) PROVE TypeOK'
  BY <1>2 DEF Acquire, Goto, Exclusive
<1>3. ASSUME NEW p \in Loggers, BeginTx(p) PROVE TypeOK'
  BY <1>3 DEF BeginTx, Goto
<1>4. ASSUME NEW p \in Loggers, Lookup(p) PROVE TypeOK'
  <2>1. \A row \in Rows(p) : row.id \in Ids
    BY DEF Rows, Stores
  <2> QED
    BY <1>4, <2>1 DEF Lookup, Goto
<1>5. ASSUME NEW p \in Loggers, Insert(p) PROVE TypeOK'
  BY <1>5 DEF Insert, Goto, MayWrite, Stores
<1>6. ASSUME NEW p \in Loggers, AddEntry(p) PROVE TypeOK'
  BY <1>6 DEF AddEntry, Goto, MayWrite, Stores, TxInv
<1>7. ASSUME NEW p \in Loggers, Commit(p) PROVE TypeOK'
  BY <1>7 DEF Commit, Goto, EndTx, InTx
<1>8. ASSUME NEW p \in Loggers, Fail(p) PROVE TypeOK'
  BY <1>8 DEF Fail, Goto, InTx
<1>9. ASSUME NEW r \in Readers, ReadLock(r) PROVE TypeOK'
  BY <1>9 DEF ReadLock, Goto, CanRLock, WithReader, RWMutexes
<1>10. ASSUME NEW r \in Readers, Query(r) PROVE TypeOK'
  BY <1>10 DEF Query, Goto, RUnlock, RWMutexes
<1>11. ASSUME NEW r \in Readers, CloseRows(r) PROVE TypeOK'
  BY <1>11 DEF CloseRows, Goto
<1>12. CASE Crash
  <2>1. txmu' \in RWMutexes(Procs)
    BY <1>12 DEF Crash, Unlocked, RWMutexes
  <2>2. pc' \in [Procs -> Places]
    BY <1>12 DEF Crash
  <2>3. crashes' \in 0..MaxCrashes
    BY <1>12 DEF Crash
  <2> QED
    BY <1>12, <2>1, <2>2, <2>3 DEF Crash
<1>13. CASE Start
  BY <1>13 DEF Start
<1>14. CASE UNCHANGED vars
  BY <1>14 DEF vars
<1>15. ASSUME NEW p \in Loggers, FailCommit(p) PROVE TypeOK'
  BY <1>15 DEF FailCommit, EndTx, Goto
<1>16. ASSUME NEW p \in Loggers, Rollback(p) PROVE TypeOK'
  BY <1>16 DEF Rollback, EndTx, Goto
<1>17. ASSUME NEW p \in Loggers, Return(p) PROVE TypeOK'
  BY <1>17 DEF Return, Unlock, Goto, RWMutexes
<1>18. ASSUME NEW p \in Loggers, ContextEnds(p) PROVE TypeOK'
  BY <1>18 DEF ContextEnds
<1>19. ASSUME NEW p \in Loggers, RollbackLate(p) PROVE TypeOK'
  BY <1>19 DEF RollbackLate, EndTx
<1> QED
  BY <1>1, <1>2, <1>3, <1>4, <1>5, <1>6, <1>7, <1>8, <1>9, <1>10, <1>11, <1>12, <1>13, <1>14,
     <1>15, <1>16, <1>17, <1>18, <1>19 DEF Next, Log, Read, Idle

\* txmu and SQLite's lock.
LEMMA LockStep ==
  TypeOK /\ LockInv /\ [Next]_vars => LockInv'
<1> SUFFICES ASSUME TypeOK, LockInv, [Next]_vars
    PROVE  LockInv'
  OBVIOUS
<1> USE LogProcsAssumption, LogIdsAssumption DEF Places, TypeOK, LockInv, Holds, TxStates, RWMutexes, Procs, InTx, process
<1>1. ASSUME NEW p \in Loggers, Announce(p) PROVE LockInv'
  BY <1>1 DEF Announce, Goto, CanAnnounce, WithWriter
<1>2. ASSUME NEW p \in Loggers, Acquire(p) PROVE LockInv'
  BY <1>2 DEF Acquire, Goto, Exclusive
<1>3. ASSUME NEW p \in Loggers, BeginTx(p) PROVE LockInv'
  BY <1>3 DEF BeginTx, Goto
<1>4. ASSUME NEW p \in Loggers, Lookup(p) PROVE LockInv'
  BY <1>4 DEF Lookup, Goto, Rows
<1>5. ASSUME NEW p \in Loggers, Insert(p) PROVE LockInv'
  BY <1>5 DEF Insert, Goto, MayWrite
<1>6. ASSUME NEW p \in Loggers, AddEntry(p) PROVE LockInv'
  BY <1>6 DEF AddEntry, Goto, MayWrite
<1>7. ASSUME NEW p \in Loggers, Commit(p) PROVE LockInv'
  BY <1>7 DEF Commit, Goto, EndTx, InTx
<1>8. ASSUME NEW p \in Loggers, Fail(p) PROVE LockInv'
  BY <1>8 DEF Fail, Goto, InTx
<1>9. ASSUME NEW r \in Readers, ReadLock(r) PROVE LockInv'
  BY <1>9 DEF ReadLock, Goto, CanRLock, WithReader
<1>10. ASSUME NEW r \in Readers, Query(r) PROVE LockInv'
  BY <1>10 DEF Query, Goto, RUnlock
<1>11. ASSUME NEW r \in Readers, CloseRows(r) PROVE LockInv'
  BY <1>11 DEF CloseRows, Goto
<1>12. CASE Crash
  BY <1>12 DEF Crash, Ended, Unlocked
<1>13. CASE Start
  BY <1>13 DEF Start
<1>14. CASE UNCHANGED vars
  BY <1>14 DEF vars
<1>15. ASSUME NEW p \in Loggers, FailCommit(p) PROVE LockInv'
  BY <1>15 DEF FailCommit, EndTx, Goto
<1>16. ASSUME NEW p \in Loggers, Rollback(p) PROVE LockInv'
  BY <1>16 DEF Rollback, EndTx, Goto
<1>17. ASSUME NEW p \in Loggers, Return(p) PROVE LockInv'
  BY <1>17 DEF Return, Unlock, Goto, RWMutexes
<1>18. ASSUME NEW p \in Loggers, ContextEnds(p) PROVE LockInv'
  BY <1>18 DEF ContextEnds
<1>19. ASSUME NEW p \in Loggers, RollbackLate(p) PROVE LockInv'
  BY <1>19 DEF RollbackLate, EndTx
<1> QED
  BY <1>1, <1>2, <1>3, <1>4, <1>5, <1>6, <1>7, <1>8, <1>9, <1>10, <1>11, <1>12, <1>13, <1>14,
     <1>15, <1>16, <1>17, <1>18, <1>19 DEF Next, Log, Read, Idle

\* Nobody changes the database under an open transaction.
LEMMA TxStep ==
  TypeOK /\ LockInv /\ StoreInv /\ TxInv /\ [Next]_vars => TxInv'
<1> SUFFICES ASSUME TypeOK, LockInv, StoreInv, TxInv, [Next]_vars
    PROVE  TxInv'
  OBVIOUS
<1> USE LogProcsAssumption, LogIdsAssumption DEF Places, TypeOK, LockInv, Holds, TxInv, Procs, InTx, process
<1>1. ASSUME NEW p \in Loggers, Announce(p) PROVE TxInv'
  BY <1>1 DEF Announce, Goto, CanAnnounce, WithWriter
<1>2. ASSUME NEW p \in Loggers, Acquire(p) PROVE TxInv'
  BY <1>2 DEF Acquire, Goto, Exclusive
<1>3. ASSUME NEW p \in Loggers, BeginTx(p) PROVE TxInv'
  BY <1>3 DEF BeginTx, Goto
<1>4. ASSUME NEW p \in Loggers, Lookup(p) PROVE TxInv'
  <2>1. \A o \in Loggers \ {p} : pc'[o] = pc[o] /\ ~InTx(o)
    BY <1>4 DEF Lookup, Goto
  <2>2. CASE Rows(p) = {} /\ pc' = [pc EXCEPT ![p] = "insert"]
                          /\ UNCHANGED queryID
    <3>1. \A r \in tx[p].queries : r.text # text[p]
      BY <2>2 DEF Rows
    <3>2. pc'[p] = "insert"
      BY <2>2
    <3> QED
      BY <1>4, <2>1, <3>1, <3>2 DEF Lookup
  <2>3. ASSUME NEW row \in Rows(p),
               queryID' = [queryID EXCEPT ![p] = row.id],
               pc' = [pc EXCEPT ![p] = "entry"]
        PROVE  TxInv'
    <3>1. row \in store.queries /\ row.text = text[p] /\ tx[p] = store
      BY <1>4 DEF Lookup, Rows
    <3>2. row = Row(row.id, text[p]) /\ row.id \in Ids
      BY <3>1 DEF Row, Stores
    <3>3. Distinct(store)
      BY DEF StoreInv, Good
    <3>4. pc'[p] = "entry" /\ queryID'[p] = row.id
      BY <2>3
    <3>5. store.queries = store.queries \cup {row}
      BY <3>1
    <3> QED
      BY <1>4, <2>1, <3>1, <3>2, <3>3, <3>4, <3>5 DEF Lookup
  <2> QED
    BY <1>4, <2>2, <2>3 DEF Lookup, Goto
<1>5. ASSUME NEW p \in Loggers, Insert(p) PROVE TxInv'
  <2>1. \A o \in Loggers \ {p} : pc'[o] = pc[o] /\ ~InTx(o)
    BY <1>5 DEF Insert, Goto
  <2>2. pc'[p] = "entry" /\ tx[p] = store /\ UNCHANGED <<store, text>>
        /\ \A r \in store.queries : r.text # text[p]
    BY <1>5 DEF Insert, Goto
  <2>3. PICK n \in Ids \ {row.id : row \in tx[p].queries} :
          /\ tx' = [tx EXCEPT ![p].queries = @ \cup {[id |-> n, text |-> text[p]]}]
          /\ queryID' = [queryID EXCEPT ![p] = n]
    BY <1>5 DEF Insert
  <2>4. /\ tx'[p].log = store.log /\ queryID'[p] = n
        /\ tx'[p].queries = store.queries \cup {Row(n, text[p])}
    BY <2>2, <2>3 DEF Row, Stores
  <2>5. Distinct(tx'[p])
    <3>1. Distinct(store) /\ \A r \in store.queries : r.id # n /\ r.text # text[p]
      BY <2>2, <2>3 DEF StoreInv, Good
    <3>2. Row(n, text[p]).id = n /\ Row(n, text[p]).text = text[p]
      BY DEF Row
    <3> QED
      BY <2>4, <3>1, <3>2 DEF Distinct
  <2> QED
    BY <2>1, <2>2, <2>3, <2>4, <2>5
<1>6. ASSUME NEW p \in Loggers, AddEntry(p) PROVE TxInv'
  <2>1. \A o \in Loggers \ {p} : pc'[o] = pc[o] /\ ~InTx(o)
    BY <1>6 DEF AddEntry, Goto
  <2>2. pc'[p] = "commit"
    BY <1>6 DEF AddEntry, Goto
  <2>3. tx'[p].log = tx[p].log \cup {[id |-> queryID[p], by |-> p]}
    BY <1>6 DEF AddEntry, Stores
  <2>4. tx'[p].queries = tx[p].queries
    BY <1>6 DEF AddEntry, Stores
  <2>5. Distinct(tx[p])'
    BY <1>6, <2>4 DEF AddEntry, Distinct
  <2> QED
    BY <1>6, <2>1, <2>2, <2>3, <2>4, <2>5 DEF AddEntry
<1>7. ASSUME NEW p \in Loggers, Commit(p) PROVE TxInv'
  BY <1>7 DEF Commit, Goto, EndTx, InTx
<1>8. ASSUME NEW p \in Loggers, Fail(p) PROVE TxInv'
  BY <1>8 DEF Fail, Goto, InTx
<1>9. ASSUME NEW r \in Readers, ReadLock(r) PROVE TxInv'
  BY <1>9 DEF ReadLock, Goto, CanRLock, WithReader
<1>10. ASSUME NEW r \in Readers, Query(r) PROVE TxInv'
  BY <1>10 DEF Query, Goto, RUnlock
<1>11. ASSUME NEW r \in Readers, CloseRows(r) PROVE TxInv'
  BY <1>11 DEF CloseRows, Goto
<1>12. CASE Crash
  BY <1>12 DEF Crash, Ended, Unlocked
<1>13. CASE Start
  BY <1>13 DEF Start
<1>14. CASE UNCHANGED vars
  BY <1>14 DEF vars
<1>15. ASSUME NEW p \in Loggers, FailCommit(p) PROVE TxInv'
  BY <1>15 DEF FailCommit, EndTx, Goto
<1>16. ASSUME NEW p \in Loggers, Rollback(p) PROVE TxInv'
  BY <1>16 DEF Rollback, EndTx, Goto
<1>17. ASSUME NEW p \in Loggers, Return(p) PROVE TxInv'
  BY <1>17 DEF Return, Unlock, Goto, RWMutexes
<1>18. ASSUME NEW p \in Loggers, ContextEnds(p) PROVE TxInv'
  BY <1>18 DEF ContextEnds
<1>19. ASSUME NEW p \in Loggers, RollbackLate(p) PROVE TxInv'
  BY <1>19 DEF RollbackLate, EndTx
<1> QED
  BY <1>1, <1>2, <1>3, <1>4, <1>5, <1>6, <1>7, <1>8, <1>9, <1>10, <1>11, <1>12, <1>13, <1>14,
     <1>15, <1>16, <1>17, <1>18, <1>19 DEF Next, Log, Read, Idle

\* Only a commit adds an entry, and it is the call's own.
LEMMA EntryStep ==
  TypeOK /\ EntryInv /\ TxInv /\ [Next]_vars => EntryInv'
<1> SUFFICES ASSUME TypeOK, EntryInv, TxInv, [Next]_vars
    PROVE  EntryInv'
  OBVIOUS
<1> USE LogProcsAssumption, LogIdsAssumption DEF Places, TypeOK, EntryInv, TxInv, Stores, Procs, InTx, process
<1>1. ASSUME NEW p \in Loggers, Announce(p) PROVE EntryInv'
  BY <1>1 DEF Announce, Goto, CanAnnounce, WithWriter
<1>2. ASSUME NEW p \in Loggers, Acquire(p) PROVE EntryInv'
  BY <1>2 DEF Acquire, Goto, Exclusive
<1>3. ASSUME NEW p \in Loggers, BeginTx(p) PROVE EntryInv'
  BY <1>3 DEF BeginTx, Goto
<1>4. ASSUME NEW p \in Loggers, Lookup(p) PROVE EntryInv'
  BY <1>4 DEF Lookup, Goto, Rows
<1>5. ASSUME NEW p \in Loggers, Insert(p) PROVE EntryInv'
  BY <1>5 DEF Insert, Goto, MayWrite
<1>6. ASSUME NEW p \in Loggers, AddEntry(p) PROVE EntryInv'
  BY <1>6 DEF AddEntry, Goto, MayWrite
<1>7. ASSUME NEW p \in Loggers, Commit(p) PROVE EntryInv'
  <2>1. store'.log = store.log \cup {[id |-> queryID[p], by |-> p]}
    BY <1>7 DEF Commit
  <2>2. pc' = [pc EXCEPT ![p] = "committed"]
    BY <1>7 DEF Commit, Goto
  <2>3. \A e \in store.log : e.by # p
    BY <1>7 DEF Commit
  <2> HIDE DEF TxInv, Stores
  <2>4. \A o \in Loggers :
          /\ pc'[o] \in {"committed", "ok"} => \E e \in store'.log : e.by = o
          /\ (\E e \in store'.log : e.by = o) => pc'[o] \in {"committed", "ok", "gone"}
    <3> TAKE o \in Loggers
    <3>1. CASE o = p
      <4>1. [id |-> queryID[p], by |-> p] \in store'.log
        BY <2>1
      <4>2. [id |-> queryID[p], by |-> p].by = p
        OBVIOUS
      <4>3. pc'[p] = "committed"
        BY <2>2
      <4> QED
        BY <3>1, <4>1, <4>2, <4>3
    <3>2. CASE o # p
      <4>1. pc'[o] = pc[o]
        BY <2>2, <3>2
      <4>2. \A e \in {[id |-> queryID[p], by |-> p]} : e.by # o
        BY <3>2
      <4> QED
        BY <2>1, <4>1, <4>2
    <3> QED
      BY <3>1, <3>2
  <2>5. \A e, f \in store'.log : e.by = f.by => e = f
    BY <2>1, <2>3
  <2> QED
    BY <2>4, <2>5
<1>8. ASSUME NEW p \in Loggers, Fail(p) PROVE EntryInv'
  BY <1>8 DEF Fail, Goto, InTx
<1>9. ASSUME NEW r \in Readers, ReadLock(r) PROVE EntryInv'
  BY <1>9 DEF ReadLock, Goto, CanRLock, WithReader
<1>10. ASSUME NEW r \in Readers, Query(r) PROVE EntryInv'
  BY <1>10 DEF Query, Goto, RUnlock
<1>11. ASSUME NEW r \in Readers, CloseRows(r) PROVE EntryInv'
  BY <1>11 DEF CloseRows, Goto
<1>12. CASE Crash
  BY <1>12 DEF Crash, Ended, Unlocked
<1>13. CASE Start
  BY <1>13 DEF Start
<1>14. CASE UNCHANGED vars
  BY <1>14 DEF vars
<1>15. ASSUME NEW p \in Loggers, FailCommit(p) PROVE EntryInv'
  BY <1>15 DEF FailCommit, EndTx, Goto
<1>16. ASSUME NEW p \in Loggers, Rollback(p) PROVE EntryInv'
  BY <1>16 DEF Rollback, EndTx, Goto
<1>17. ASSUME NEW p \in Loggers, Return(p) PROVE EntryInv'
  BY <1>17 DEF Return, Unlock, Goto, RWMutexes
<1>18. ASSUME NEW p \in Loggers, ContextEnds(p) PROVE EntryInv'
  BY <1>18 DEF ContextEnds
<1>19. ASSUME NEW p \in Loggers, RollbackLate(p) PROVE EntryInv'
  BY <1>19 DEF RollbackLate, EndTx
<1> QED
  BY <1>1, <1>2, <1>3, <1>4, <1>5, <1>6, <1>7, <1>8, <1>9, <1>10, <1>11, <1>12, <1>13, <1>14,
     <1>15, <1>16, <1>17, <1>18, <1>19 DEF Next, Log, Read, Idle

\* A commit adds an entry together with the text it is for.
LEMMA StoreStep ==
  TypeOK /\ StoreInv /\ TxInv /\ [Next]_vars => StoreInv'
<1> SUFFICES ASSUME TypeOK, StoreInv, TxInv, [Next]_vars
    PROVE  StoreInv'
  OBVIOUS
<1> USE LogProcsAssumption, LogIdsAssumption DEF Places, TypeOK, StoreInv, Good, Resolves, Procs, process
<1>1. ASSUME NEW p \in Loggers, Announce(p) PROVE StoreInv'
  BY <1>1 DEF Announce, Goto, CanAnnounce, WithWriter
<1>2. ASSUME NEW p \in Loggers, Acquire(p) PROVE StoreInv'
  BY <1>2 DEF Acquire, Goto, Exclusive
<1>3. ASSUME NEW p \in Loggers, BeginTx(p) PROVE StoreInv'
  BY <1>3 DEF BeginTx, Goto
<1>4. ASSUME NEW p \in Loggers, Lookup(p) PROVE StoreInv'
  BY <1>4 DEF Lookup, Goto, Rows
<1>5. ASSUME NEW p \in Loggers, Insert(p) PROVE StoreInv'
  BY <1>5 DEF Insert, Goto, MayWrite
<1>6. ASSUME NEW p \in Loggers, AddEntry(p) PROVE StoreInv'
  BY <1>6 DEF AddEntry, Goto, MayWrite
<1>7. ASSUME NEW p \in Loggers, Commit(p) PROVE StoreInv'
  <2> DEFINE entry == [id |-> queryID[p], by |-> p]
             row == Row(queryID[p], text[p])
  <2>1. /\ store'.log = store.log \cup {entry}
        /\ store'.queries = store.queries \cup {row}
        /\ Distinct(store')
        /\ text' = text /\ view' = view
    BY <1>7 DEF Commit, TxInv
  <2>2. entry.id = queryID[p] /\ entry.by = p /\ row.id = queryID[p]
    BY DEF Row
  <2>3. Resolves(store)'
    BY <2>1, <2>2
  <2>4. Used(store')
    BY <2>1, <2>2 DEF Used
  <2> QED
    BY <2>1, <2>3, <2>4
<1>8. ASSUME NEW p \in Loggers, Fail(p) PROVE StoreInv'
  BY <1>8 DEF Fail, Goto, InTx
<1>9. ASSUME NEW r \in Readers, ReadLock(r) PROVE StoreInv'
  BY <1>9 DEF ReadLock, Goto, CanRLock, WithReader
<1>10. ASSUME NEW r \in Readers, Query(r) PROVE StoreInv'
  BY <1>10 DEF Query, Goto, RUnlock
<1>11. ASSUME NEW r \in Readers, CloseRows(r) PROVE StoreInv'
  BY <1>11 DEF CloseRows, Goto
<1>12. CASE Crash
  BY <1>12 DEF Crash, Ended, Unlocked
<1>13. CASE Start
  BY <1>13 DEF Start
<1>14. CASE UNCHANGED vars
  BY <1>14 DEF vars
<1>15. ASSUME NEW p \in Loggers, FailCommit(p) PROVE StoreInv'
  BY <1>15 DEF FailCommit, EndTx, Goto
<1>16. ASSUME NEW p \in Loggers, Rollback(p) PROVE StoreInv'
  BY <1>16 DEF Rollback, EndTx, Goto
<1>17. ASSUME NEW p \in Loggers, Return(p) PROVE StoreInv'
  BY <1>17 DEF Return, Unlock, Goto, RWMutexes
<1>18. ASSUME NEW p \in Loggers, ContextEnds(p) PROVE StoreInv'
  BY <1>18 DEF ContextEnds
<1>19. ASSUME NEW p \in Loggers, RollbackLate(p) PROVE StoreInv'
  BY <1>19 DEF RollbackLate, EndTx
<1> QED
  BY <1>1, <1>2, <1>3, <1>4, <1>5, <1>6, <1>7, <1>8, <1>9, <1>10, <1>11, <1>12, <1>13, <1>14,
     <1>15, <1>16, <1>17, <1>18, <1>19 DEF Next, Log, Read, Idle

\* The inductive invariant holds of every run.
LEMMA Invariance == Spec => []IInv
<1>1. Init => IInv
  <2> SUFFICES ASSUME Init
      PROVE  IInv
    OBVIOUS
  <2> USE LogProcsAssumption, LogIdsAssumption DEF Init, Procs
  <2>1. TypeOK
    BY DEF TypeOK, TxStates, Stores, Empty, RWMutexes, Unlocked, Places
  <2>2. LockInv
    BY DEF LockInv, Holds, Unlocked
  <2>3. StoreInv
    BY DEF StoreInv, Good, Resolves, Distinct, Used, Empty
  <2>4. EntryInv
    BY DEF EntryInv, Empty
  <2>5. TxInv
    BY DEF TxInv
  <2> QED
    BY <2>1, <2>2, <2>3, <2>4, <2>5 DEF IInv
<1>2. IInv /\ [Next]_vars => IInv'
  BY TypeStep, LockStep, TxStep, EntryStep, StoreStep DEF IInv
<1> QED
  BY <1>1, <1>2, PTL DEF Spec

\* Type correctness of the log, its lock and the calls.
THEOREM TypeCorrect == Spec => []TypeOK
<1>1. IInv => TypeOK
  BY DEF IInv
<1> QED
  BY Invariance, <1>1, PTL

\* However many calls race, fail or die half way, an entry has the text of the
\* query it logs (LogQuery, local.go:83-114).
THEOREM EntriesAlwaysResolve == Spec => []EntriesResolve
<1>1. IInv => EntriesResolve
  BY DEF IInv, StoreInv, Good, Resolves, Row, EntriesResolve, Databases
<1> QED
  BY Invariance, <1>1, PTL

\* The lookup-or-insert never stores a text twice, nor one without an entry.
THEOREM TextsAlwaysLogged == Spec => []TextsLogged
<1>1. IInv => TextsLogged
  BY DEF IInv, StoreInv, Good, Distinct, Used, TextsLogged, Databases
<1> QED
  BY Invariance, <1>1, PTL

\* A call that reports success has left one entry, one that reports an error
\* none, whatever else fails or dies (LogQuery, local.go:83-114).
THEOREM LoggedExactlyOnce == Spec => []LoggedOnce
<1>1. IInv => LoggedOnce
  BY DEF IInv, EntryInv, LoggedOnce
<1> QED
  BY Invariance, <1>1, PTL

\* A LogQuery call that finds SQLite locked finds a transaction that its call
\* has given up with an error, never one that may still commit.
THEOREM CallsNeverConflict == Spec => []NoConflict
<1>1. IInv => NoConflict
  <2> SUFFICES ASSUME IInv, NEW p \in Loggers, InTx(p)
      PROVE  /\ ~MayWrite(p) => pc[wlock] = "failed" /\ txn[wlock] = "ending"
             /\ \A o \in Loggers \ {p} : txn[o] # "open"
    BY DEF NoConflict, InTx
  <2> USE DEF IInv, LockInv, Holds
  <2>1. txmu.writer = p
    BY DEF InTx
  <2>2. \A o \in Loggers \ {p} : ~Holds(o)
    BY <2>1
  <2>3. \A o \in Loggers \ {p} : txn[o] # "open"
    BY <2>2
  <2>4. ASSUME ~MayWrite(p) PROVE pc[wlock] = "failed" /\ txn[wlock] = "ending"
    <3>1. wlock \in Loggers \ {p}
      BY <2>4 DEF MayWrite, TypeOK
    <3>2. txn[wlock] = "ending"
      BY <2>3, <3>1 DEF TypeOK, TxStates
    <3> QED
      BY <2>2, <3>1, <3>2
  <2> QED
    BY <2>3, <2>4
<1> QED
  BY Invariance, <1>1, PTL
-----------------------------------------------------------------------------
(* Who waits for whom.                                                     *)

\* p waits for txmu: for a LogQuery call before it, or for the readers.
Waits(p) ==
  \/ pc[p] = "idle" /\ txmu.writer # NoProc
  \/ pc[p] = "lock" /\ ~Exclusive(txmu, p)

\* p has something to do that is not up to the reader of its rows.
Unfinished(p) == ~Ended(p) /\ pc[p] # "rows"

NeverStuck ==
  (\E p \in Procs : Unfinished(p)) => \E p \in Procs : Unfinished(p) /\ ~Waits(p)

\* The safety part of NotHeldUp, for any number of calls: a wait for txmu ends
\* at a call that is inside LogQuery or Query and runs, never at one that has
\* returned or at rows that stay open (local.go:87, 117-121).
THEOREM RowsHoldNobody == Spec => []NeverStuck
<1>1. ASSUME IInv, NEW p \in Procs, Unfinished(p)
      PROVE  \E q \in Procs : Unfinished(q) /\ ~Waits(q)
  <2> DEFINE w == txmu.writer
  <2>1. CASE w = NoProc
    <3>1. pc[p] # "lock"
      <4>1. LockInv /\ p # NoProc /\ (p \in Loggers \/ p \in Readers)
        BY <1>1, LogProcsAssumption DEF IInv, Procs
      <4> QED
        BY <2>1, <4>1 DEF LockInv, Holds
    <3> QED
      BY <1>1, <2>1, <3>1 DEF Waits
  <2>2. CASE w # NoProc
    <3>1. w \in Loggers /\ Holds(w)
      BY <1>1, <2>2 DEF IInv, LockInv, TypeOK, RWMutexes, Procs
    <3>2. w \in Procs /\ Unfinished(w)
      BY <3>1 DEF Procs, Unfinished, Ended, Holds
    <3>3. CASE Waits(w)
      <4>1. txmu.readers # {}
        BY <3>1, <3>3 DEF Waits, Exclusive, Holds
      <4>2. PICK r \in txmu.readers : TRUE
        BY <4>1
      <4>3. r \in Procs /\ pc[r] = "query"
        BY <1>1, <4>2 DEF IInv, LockInv, TypeOK, RWMutexes, Procs
      <4> QED
        BY <4>3 DEF Unfinished, Ended, Waits
    <3> QED
      BY <3>2, <3>3
  <2> QED
    BY <2>1, <2>2
<1>2. IInv => NeverStuck
  BY <1>1 DEF NeverStuck
<1> QED
  BY Invariance, <1>2, PTL
-----------------------------------------------------------------------------
(* The refinement.                                                         *)

\* What the view shows of a database: every entry, with its own text.
LEMMA JoinedIs ==
  ASSUME NEW d, Resolves(d), Distinct(d)
  PROVE  Joined(d) = {Book!Entry(e.by) : e \in d.log}
<1>1. ASSUME NEW x \in Joined(d) PROVE x \in {Book!Entry(e.by) : e \in d.log}
  <2>1. PICK e \in d.log, row \in d.queries :
          row.id = e.id /\ x = [by |-> e.by, text |-> row.text]
    BY DEF Joined
  <2>2. Row(e.id, text[e.by]) \in d.queries
    BY DEF Resolves
  <2>3. row = Row(e.id, text[e.by])
    BY <2>1, <2>2 DEF Distinct, Row
  <2> QED
    BY <2>1, <2>3 DEF Book!Entry, Row
<1>2. ASSUME NEW e \in d.log PROVE Book!Entry(e.by) \in Joined(d)
  <2>1. Row(e.id, text[e.by]) \in d.queries
    BY DEF Resolves
  <2> QED
    BY <2>1 DEF Joined, Book!Entry, Row
<1> QED
  BY <1>1, <1>2

\* A call is in the log if it has an entry.
LEMMA EntryKnown ==
  ASSUME Good(store), NEW p \in Loggers
  PROVE  Book!Entry(p) \in Joined(store) <=> \E e \in store.log : e.by = p
<1>1. Joined(store) = {Book!Entry(e.by) : e \in store.log}
  BY JoinedIs DEF Good
<1>2. \A q : Book!Entry(q) = Book!Entry(p) => q = p
  BY DEF Book!Entry
<1> QED
  BY <1>1, <1>2

\* The commit is the step in which the log grows.
LEMMA CommitWrites ==
  ASSUME IInv, NEW p \in Loggers, Commit(p)
  PROVE  Joined(store') = Joined(store) \cup {Book!Entry(p)}
<1> DEFINE entry == [id |-> queryID[p], by |-> p]
<1>1. /\ store'.log = store.log \cup {entry}
      /\ store'.queries = store.queries \cup {Row(queryID[p], text[p])}
      /\ Distinct(store')
  BY DEF Commit, TxInv, IInv
<1>2. Resolves(store) /\ Distinct(store)
  BY DEF IInv, StoreInv, Good
<1>3. Resolves(store')
  BY <1>1, <1>2 DEF Resolves
<1>4. /\ Joined(store) = {Book!Entry(e.by) : e \in store.log}
      /\ Joined(store') = {Book!Entry(e.by) : e \in store'.log}
  BY <1>1, <1>2, <1>3, JoinedIs
<1>5. entry.by = p
  OBVIOUS
<1> HIDE DEF entry
<1>6. ASSUME NEW x \in Joined(store') PROVE x \in Joined(store) \cup {Book!Entry(p)}
  <2>1. PICK e \in store'.log : x = Book!Entry(e.by)
    BY <1>4, <1>6
  <2> QED
    BY <1>1, <1>4, <1>5, <2>1
<1>7. ASSUME NEW x \in Joined(store) \cup {Book!Entry(p)} PROVE x \in Joined(store')
  <2>1. CASE x \in Joined(store)
    BY <1>1, <1>4, <2>1
  <2>2. CASE x = Book!Entry(p)
    BY <1>1, <1>4, <1>5, <2>2
  <2> QED
    BY <2>1, <2>2
<1> QED
  BY <1>6, <1>7

\* What is known of a call after it went to a place: how it ended there, that
\* its rows are open, or nothing yet.
LEMMA KnownStep ==
  ASSUME TypeOK, NEW q \in Procs, NEW l \in Places, Goto(q, l)
  PROVE  [p \in Procs |-> Known(p)]' =
           [[p \in Procs |-> Known(p)] EXCEPT ![q] =
              IF l \in {"rows", "done", "ok", "failed", "gone"} THEN l ELSE "open"]
  BY DEF Goto, Known, Ended, TypeOK

\* Every step is one of the log, or nothing that a caller or a reader sees.
LEMMA StepImplements ==
  IInv /\ [Next]_vars => [Book!Next]_(Book!vars)
<1> SUFFICES ASSUME IInv, [Next]_vars
    PROVE  Book!Next \/ UNCHANGED Book!vars
  OBVIOUS
<1> DEFINE known == [p \in Procs |-> Known(p)]
           pages == [r \in Readers |-> Joined(view[r])]
<1> USE DEF Places
<1>1. TypeOK /\ Loggers \subseteq Procs /\ Readers \subseteq Procs
  BY DEF IInv, Procs
<1>2. \A p \in Procs : known[p] = Known(p)
  OBVIOUS
<1>3. ASSUME UNCHANGED <<store, text, view>>, known' = known
      PROVE  UNCHANGED Book!vars
  BY <1>3 DEF Book!vars
<1>4. ASSUME NEW q \in Procs, NEW l \in Places, Goto(q, l), Known(q) = "open",
             l \notin {"rows", "done", "ok", "failed", "gone"}
      PROVE  known' = known
  <2>1. known' = [known EXCEPT ![q] = "open"]
    BY <1>1, <1>4, KnownStep
  <2>2. known = [p \in Procs |-> known[p]] /\ known[q] = "open"
    BY <1>4
  <2> HIDE DEF known
  <2> QED
    BY <2>1, <2>2
<1>5. ASSUME NEW p \in Loggers,
             Announce(p) \/ Acquire(p) \/ BeginTx(p) \/ Lookup(p) \/ Insert(p) \/ AddEntry(p)
             \/ FailCommit(p) \/ Fail(p) \/ Rollback(p)
      PROVE  UNCHANGED Book!vars
  <2> USE <1>5 DEF Announce, Acquire, BeginTx, Lookup, Insert, AddEntry, FailCommit, Fail, Rollback
  <2>1. UNCHANGED <<store, text, view>>
    BY DEF process
  <2>2. Known(p) = "open"
    BY DEF Known, Ended, InTx
  <2>3. PICK l \in {"lock", "begin", "lookup", "insert", "entry", "commit", "undo", "unlock"} :
          Goto(p, l)
    OBVIOUS
  <2>4. known' = known
    BY <1>1, <1>4, <2>2, <2>3
  <2> QED
    BY <1>3, <2>1, <2>4
<1>6. ASSUME NEW p \in Loggers, Commit(p) PROVE Book!Write(p)
  <2>1. Known(p) = "open" /\ UNCHANGED <<text, view>> /\ Goto(p, "committed")
    BY <1>6 DEF Commit, Known, Ended, process
  <2>2. known' = known
    BY <1>1, <1>4, <2>1
  <2>3. Joined(store') = Joined(store) \cup {Book!Entry(p)}
    BY <1>6, CommitWrites
  <2> QED
    BY <1>1, <2>1, <2>2, <2>3 DEF Book!Write
<1>7. ASSUME NEW p \in Loggers, Return(p) PROVE Book!Succeed(p) \/ Book!GiveUp(p)
  <2>1. Known(p) = "open" /\ UNCHANGED <<store, text, view>>
    BY <1>7 DEF Return, Known, Ended, process
  <2>2. Book!Entry(p) \in Joined(store) <=> \E e \in store.log : e.by = p
    BY EntryKnown DEF IInv, StoreInv
  <2>3. CASE pc[p] = "committed"
    <3>1. known' = [known EXCEPT ![p] = "ok"]
      BY <1>1, <1>7, <2>3, KnownStep DEF Return
    <3>2. Book!Entry(p) \in Joined(store)
      BY <2>2, <2>3 DEF IInv, EntryInv
    <3> QED
      BY <1>1, <2>1, <3>1, <3>2 DEF Book!Succeed, Book!Turn
  <2>4. CASE pc[p] = "unlock"
    <3>1. known' = [known EXCEPT ![p] = "failed"]
      BY <1>1, <1>7, <2>4, KnownStep DEF Return
    <3>2. Book!Entry(p) \notin Joined(store)
      BY <2>2, <2>4 DEF IInv, EntryInv
    <3> QED
      BY <1>1, <2>1, <3>1, <3>2 DEF Book!GiveUp, Book!Turn
  <2> QED
    BY <1>7, <2>3, <2>4 DEF Return
<1>8. ASSUME NEW r \in Readers, ReadLock(r) PROVE UNCHANGED Book!vars
  <2>1. UNCHANGED <<store, text, view>> /\ Known(r) = "open" /\ Goto(r, "query")
    BY <1>8 DEF ReadLock, Known, Ended, process
  <2> QED
    BY <1>1, <1>3, <1>4, <2>1
<1>9. ASSUME NEW r \in Readers, Query(r) PROVE Book!Read(r) \/ Book!EndRead(r)
  <2>1. Known(r) = "open" /\ UNCHANGED <<store, text>>
    BY <1>9 DEF Query, Known, Ended, process
  <2>2. CASE view' = [view EXCEPT ![r] = store] /\ Goto(r, "rows")
    <3>1. known' = [known EXCEPT ![r] = "rows"]
      BY <1>1, <2>2, KnownStep
    <3>2. pages' = [pages EXCEPT ![r] = Joined(store)]
      BY <1>1, <2>2 DEF TypeOK
    <3> QED
      BY <1>1, <2>1, <3>1, <3>2 DEF Book!Read, Book!Turn
  <2>3. CASE UNCHANGED view /\ Goto(r, "done")
    <3>1. known' = [known EXCEPT ![r] = "done"]
      BY <1>1, <2>3, KnownStep
    <3> QED
      BY <1>1, <2>1, <2>3, <3>1 DEF Book!EndRead, Book!Turn
  <2> QED
    BY <1>9, <2>2, <2>3 DEF Query
<1>10. ASSUME NEW r \in Readers, CloseRows(r) PROVE Book!EndRead(r)
  <2>1. Known(r) = "rows" /\ UNCHANGED <<store, text, view>> /\ Goto(r, "done")
    BY <1>10 DEF CloseRows, Known, process
  <2>2. known' = [known EXCEPT ![r] = "done"]
    BY <1>1, <2>1, KnownStep
  <2> QED
    BY <1>1, <2>1, <2>2 DEF Book!EndRead, Book!Turn
<1>11. CASE Crash
  <2> DEFINE Lost == {p \in Procs : pc[p] # "idle" /\ ~Ended(p)}
  <2>1. UNCHANGED <<store, text, view>>
    BY <1>11 DEF Crash
  <2>2. ASSUME NEW p \in Procs PROVE Known(p)' = IF p \in Lost THEN "gone" ELSE Known(p)
    BY <1>1, <1>11 DEF Crash, Known, Ended, TypeOK
  <2>3. known' = [p \in Procs |-> IF p \in Lost THEN "gone" ELSE known[p]]
    BY <2>2
  <2>4. \A p \in Lost : known[p] \in {"open", "rows"}
    BY DEF Known
  <2>5. Lost \in SUBSET {p \in Procs : known[p] \in {"open", "rows"}}
    BY <2>4
  <2>6. pages' = pages
    BY <2>1
  <2>7. Book!Lose
    BY <2>1, <2>3, <2>5, <2>6 DEF Book!Lose, Procs
  <2> QED
    BY <2>7 DEF Book!Next
<1>12. ASSUME \/ Start \/ UNCHANGED vars
              \/ \E p \in Loggers : ContextEnds(p) \/ RollbackLate(p)
       PROVE  UNCHANGED Book!vars
  <2>1. UNCHANGED <<store, text, view, pc>>
    BY <1>12 DEF Start, vars, ContextEnds, RollbackLate, process
  <2> QED
    BY <1>3, <2>1 DEF Known, Ended
<1> QED
  BY <1>5, <1>6, <1>7, <1>8, <1>9, <1>10, <1>11, <1>12 DEF Next, Log, Read, Idle, Book!Next

\* The query log implements LogBook: to callers and readers LogQuery is a step
\* in which its entry comes and one in which it reports success, or one in which
\* it reports an error (local.go:80-121).
THEOREM LogImplementsBook == Spec => ImplementsBook
<1>1. Init => Book!Init
  <2> SUFFICES ASSUME Init
      PROVE  Book!Init
    OBVIOUS
  <2>1. Joined(store) = {}
    BY DEF Init, Empty, Joined
  <2>2. [r \in Readers |-> Joined(view[r])] = [r \in Readers |-> {}]
    BY DEF Init, Empty, Joined
  <2>3. [p \in Procs |-> Known(p)] = [p \in Loggers \cup Readers |-> "open"]
    BY DEF Init, Known, Ended, Procs
  <2> QED
    BY <2>1, <2>2, <2>3 DEF Init, Book!Init
<1>2. IInv /\ [Next]_vars => [Book!Next]_(Book!vars)
  BY StepImplements
<1> QED
  BY Invariance, <1>1, <1>2, PTL DEF Spec, ImplementsBook, Book!Spec

\* The same log, with what is proved about it.
Kept == INSTANCE LogBookProofs
  WITH call <- [p \in Procs |-> Known(p)],
       book <- Joined(store),
       page <- [r \in Readers |-> Joined(view[r])]

\* The promise of LogBook, of the two tables: for those who read them through
\* view query_log a call that reported success is logged, with its own text, one
\* that reported an error is not, and what anyone has seen in the log stays in
\* it, across failures and crashes.  Of a call that the process took with it
\* nothing is promised: it may have died after the commit (local.go:77-121).
THEOREM LogKeepsPromise == Spec => []PromiseKept
<1> USE DEF Kept!Init, Book!Init, Kept!Next, Book!Next, Kept!vars, Book!vars,
            Kept!Write, Book!Write, Kept!Succeed, Book!Succeed, Kept!GiveUp, Book!GiveUp, Kept!Read, Book!Read,
            Kept!EndRead, Book!EndRead, Kept!Lose, Book!Lose, Kept!Turn, Book!Turn,
            Kept!Entry, Book!Entry
<1>1. Kept!Spec => []Kept!Promise
  BY Kept!BookKept, LogProcsAssumption
<1>2. Kept!Init <=> Book!Init
  OBVIOUS
<1>3. [Kept!Next]_(Kept!vars) <=> [Book!Next]_(Book!vars)
  OBVIOUS
<1>4. Kept!Promise <=> Book!Promise
  BY DEF Kept!Promise, Book!Promise
<1> QED
  BY LogImplementsBook, <1>1, <1>2, <1>3, <1>4, PTL DEF ImplementsBook, PromiseKept, Kept!Spec, Book!Spec
=============================================================================
