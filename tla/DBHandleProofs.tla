--------------------------- MODULE DBHandleProofs ---------------------------
(***************************************************************************)
(* Proofs about DBHandle, for any number of goroutines of each kind and    *)
(* any number of secret versions.                                          *)
(***************************************************************************)
EXTENDS DBHandle, TLAPS

(* The inductive invariant, in the order its parts depend on one another.  *)

\* The lock agrees with where the goroutines are, and whoever is past the
\* wait for the readers is alone.
LockInv ==
  \A p \in Procs :
    /\ mu.writer = p <=> pc[p] \in {"drain", "check", "meta", "apply"}
    /\ p \in mu.readers <=> pc[p] \in {"hold", "run", "scan"}
    /\ pc[p] \in {"check", "meta", "apply"} => mu.readers = {}

\* A goroutine carries a database between taking and placing it only.
CarryInv ==
  \A p \in Procs :
    /\ up[p] # NoDB => pc[p] \in {"lock", "drain", "meta", "apply", "store"}
    /\ pc[p] \in {"meta", "apply", "store"} => up[p] # NoDB

\* A database about to be opened was never used.
FreshInv ==
  /\ seen <= secret
  /\ \A v \in Versions : v > seen => state[v] = "unused"
  /\ \A s \in Setters :
       pc[s] \in {"idle", "get", "lock", "drain", "swap"} =>
         state[s] = "unused"

\* Every place that holds a database holds an open one, and no two places
\* hold the same: each database is closed by whoever takes it out.
OwnInv ==
  /\ db # NoDB => state[db] = "open" /\ update # db
  /\ update # NoDB => state[update] = "open"
  /\ \A p \in Procs : up[p] # NoDB =>
       /\ state[up[p]] = "open"
       /\ up[p] # db /\ up[p] # update
       /\ \A r \in Procs : up[r] = up[p] => r = p

\* A query has a database exactly while it is inside WithLock's callback,
\* and it is the installed one.
UsingInv ==
  \A q \in Queries :
    IF pc[q] \in {"run", "scan"} THEN db # NoDB /\ using[q] = db
                                 ELSE using[q] = NoDB

IInv == TypeOK /\ LockInv /\ CarryInv /\ FreshInv /\ OwnInv /\ UsingInv
                /\ CloseOnce
-----------------------------------------------------------------------------
\* The types: what is installed as label and named queries came with a
\* database, since nobody reaches applyUpdateLocked without one.
LEMMA TypeStep ==
  TypeOK /\ CarryInv /\ [Next]_vars => TypeOK'
<1> SUFFICES ASSUME TypeOK, CarryInv, [Next]_vars
    PROVE  TypeOK'
  OBVIOUS
<1> USE ProcsAssumption, DBsAssumption DEF TypeOK, CarryInv, RWMutexes, Labels, DBs, Versions, Procs
<1>1. ASSUME NEW p \in Procs, Begin(p) PROVE TypeOK'
  BY <1>1 DEF Begin, Goto
<1>2. ASSUME NEW p \in Procs, GetCurrent(p) PROVE TypeOK'
  BY <1>2 DEF GetCurrent, Goto, AfterGet
<1>3. ASSUME NEW p \in Procs, GetOpened(p) PROVE TypeOK'
  BY <1>3 DEF GetOpened, Goto, Open
<1>4. ASSUME NEW p \in Procs, Announce(p) PROVE TypeOK'
  BY <1>4 DEF Announce, Goto, CanAnnounce, WithWriter
<1>5. ASSUME NEW p \in Procs, Replace(p) PROVE TypeOK'
  BY <1>5 DEF Replace, Goto, Exclusive, Close, Unlock, AfterGet
<1>6. ASSUME NEW p \in Procs, Release(p) PROVE TypeOK'
  BY <1>6 DEF Release, Goto
<1>7. ASSUME NEW p \in Procs, TryUpdateLocks(p) PROVE TypeOK'
  BY <1>7 DEF TryUpdateLocks, Goto, CanTryLock, WithWriter
<1>8. ASSUME NEW p \in Procs, TryUpdateBusy(p) PROVE TypeOK'
  BY <1>8 DEF TryUpdateBusy, Goto, AfterTry
<1>9. ASSUME NEW p \in Procs, CheckUpdate(p) PROVE TypeOK'
  BY <1>9 DEF CheckUpdate, Goto, Unlock, AfterTry
<1>10. ASSUME NEW p \in Procs, ApplyMeta(p) PROVE TypeOK'
  BY <1>10 DEF ApplyMeta, Goto
<1>11. ASSUME NEW p \in Procs, ApplyDB(p) PROVE TypeOK'
  BY <1>11 DEF ApplyDB, Goto, Unlock, Panic, Close, AfterTry
<1>12. ASSUME NEW p \in Setters, SwapLocks(p) PROVE TypeOK'
  BY <1>12 DEF SwapLocks, Goto, CanTryLock, Panic, WithWriter, Open
<1>13. ASSUME NEW p \in Setters, SwapBusy(p) PROVE TypeOK'
  BY <1>13 DEF SwapBusy, Goto, Open
<1>14. ASSUME NEW p \in Setters, SwapStores(p) PROVE TypeOK'
  BY <1>14 DEF SwapStores, Goto, Close
<1>15. ASSUME NEW p \in Queries \cup Viewers, ReadLock(p) PROVE TypeOK'
  BY <1>15 DEF ReadLock, Goto, CanRLock, WithReader
<1>16. ASSUME NEW p \in Queries, RefuseClosed(p) PROVE TypeOK'
  BY <1>16 DEF RefuseClosed, Goto, RUnlock
<1>17. ASSUME NEW p \in Queries, EnterCallback(p) PROVE TypeOK'
  BY <1>17 DEF EnterCallback, Goto
<1>18. ASSUME NEW p \in Queries, LookupNamed(p) PROVE TypeOK'
  BY <1>18 DEF LookupNamed, Goto
<1>19. ASSUME NEW p \in Viewers, ReadLabel(p) PROVE TypeOK'
  BY <1>19 DEF ReadLabel, Goto, RUnlock
<1>20. ASSUME NEW p \in Closers, CloseHandle(p) PROVE TypeOK'
  BY <1>20 DEF CloseHandle, Goto, Exclusive, Close, Unlock
<1>21. ASSUME NEW p \in Queries, FinishQuery(p) PROVE TypeOK'
  BY <1>21 DEF FinishQuery, Goto, RUnlock
<1>22. CASE Rotate
  BY <1>22 DEF Rotate
<1>23. CASE UNCHANGED vars
  BY <1>23 DEF vars
<1> QED
  BY <1>1, <1>2, <1>3, <1>4, <1>5, <1>6, <1>7, <1>8, <1>9, <1>10, <1>11, <1>12, <1>13, <1>14, <1>15, <1>16, <1>17, <1>18, <1>19, <1>20, <1>21, <1>22, <1>23 DEF Next, Step, Idle

\* h.mu: every step that takes or leaves the lock moves the goroutine with it.
LEMMA LockStep ==
  LockInv /\ TypeOK /\ [Next]_vars => LockInv'
<1> SUFFICES ASSUME LockInv, TypeOK, [Next]_vars
    PROVE  LockInv'
  OBVIOUS
<1> USE ProcsAssumption, DBsAssumption DEF LockInv, TypeOK, RWMutexes, Labels, Procs
<1>1. ASSUME NEW p \in Procs, Begin(p) PROVE LockInv'
  BY <1>1 DEF Begin, Goto
<1>2. ASSUME NEW p \in Procs, GetCurrent(p) PROVE LockInv'
  BY <1>2 DEF GetCurrent, Goto, AfterGet
<1>3. ASSUME NEW p \in Procs, GetOpened(p) PROVE LockInv'
  BY <1>3 DEF GetOpened, Goto, Open
<1>4. ASSUME NEW p \in Procs, Announce(p) PROVE LockInv'
  BY <1>4 DEF Announce, Goto, CanAnnounce, WithWriter
<1>5. ASSUME NEW p \in Procs, Replace(p) PROVE LockInv'
  BY <1>5 DEF Replace, Goto, Exclusive, Close, Unlock, AfterGet
<1>6. ASSUME NEW p \in Procs, Release(p) PROVE LockInv'
  BY <1>6 DEF Release, Goto
<1>7. ASSUME NEW p \in Procs, TryUpdateLocks(p) PROVE LockInv'
  BY <1>7 DEF TryUpdateLocks, Goto, CanTryLock, WithWriter
<1>8. ASSUME NEW p \in Procs, TryUpdateBusy(p) PROVE LockInv'
  BY <1>8 DEF TryUpdateBusy, Goto, AfterTry
<1>9. ASSUME NEW p \in Procs, CheckUpdate(p) PROVE LockInv'
  BY <1>9 DEF CheckUpdate, Goto, Unlock, AfterTry
<1>10. ASSUME NEW p \in Procs, ApplyMeta(p) PROVE LockInv'
  BY <1>10 DEF ApplyMeta, Goto
<1>11. ASSUME NEW p \in Procs, ApplyDB(p) PROVE LockInv'
  BY <1>11 DEF ApplyDB, Goto, Unlock, Panic, Close, AfterTry
<1>12. ASSUME NEW p \in Setters, SwapLocks(p) PROVE LockInv'
  BY <1>12 DEF SwapLocks, Goto, CanTryLock, Panic, WithWriter, Open
<1>13. ASSUME NEW p \in Setters, SwapBusy(p) PROVE LockInv'
  BY <1>13 DEF SwapBusy, Goto, Open
<1>14. ASSUME NEW p \in Setters, SwapStores(p) PROVE LockInv'
  BY <1>14 DEF SwapStores, Goto, Close
<1>15. ASSUME NEW p \in Queries \cup Viewers, ReadLock(p) PROVE LockInv'
  BY <1>15 DEF ReadLock, Goto, CanRLock, WithReader
<1>16. ASSUME NEW p \in Queries, RefuseClosed(p) PROVE LockInv'
  BY <1>16 DEF RefuseClosed, Goto, RUnlock
<1>17. ASSUME NEW p \in Queries, EnterCallback(p) PROVE LockInv'
  BY <1>17 DEF EnterCallback, Goto
<1>18. ASSUME NEW p \in Queries, LookupNamed(p) PROVE LockInv'
  BY <1>18 DEF LookupNamed, Goto
<1>19. ASSUME NEW p \in Viewers, ReadLabel(p) PROVE LockInv'
  BY <1>19 DEF ReadLabel, Goto, RUnlock
<1>20. ASSUME NEW p \in Closers, CloseHandle(p) PROVE LockInv'
  BY <1>20 DEF CloseHandle, Goto, Exclusive, Close, Unlock
<1>21. ASSUME NEW p \in Queries, FinishQuery(p) PROVE LockInv'
  BY <1>21 DEF FinishQuery, Goto, RUnlock
<1>22. CASE Rotate
  BY <1>22 DEF Rotate
<1>23. CASE UNCHANGED vars
  BY <1>23 DEF vars
<1> QED
  BY <1>1, <1>2, <1>3, <1>4, <1>5, <1>6, <1>7, <1>8, <1>9, <1>10, <1>11, <1>12, <1>13, <1>14, <1>15, <1>16, <1>17, <1>18, <1>19, <1>20, <1>21, <1>22, <1>23 DEF Next, Step, Idle

\* What a goroutine carries it puts down before it goes on.
LEMMA CarryStep ==
  CarryInv /\ TypeOK /\ [Next]_vars => CarryInv'
<1> SUFFICES ASSUME CarryInv, TypeOK, [Next]_vars
    PROVE  CarryInv'
  OBVIOUS
<1> USE ProcsAssumption, DBsAssumption DEF CarryInv, TypeOK, Labels, Procs, DBs
<1>1. ASSUME NEW p \in Procs, Begin(p) PROVE CarryInv'
  BY <1>1 DEF Begin, Goto
<1>2. ASSUME NEW p \in Procs, GetCurrent(p) PROVE CarryInv'
  BY <1>2 DEF GetCurrent, Goto, AfterGet
<1>3. ASSUME NEW p \in Procs, GetOpened(p) PROVE CarryInv'
  BY <1>3 DEF GetOpened, Goto, Open
<1>4. ASSUME NEW p \in Procs, Announce(p) PROVE CarryInv'
  BY <1>4 DEF Announce, Goto, CanAnnounce, WithWriter
<1>5. ASSUME NEW p \in Procs, Replace(p) PROVE CarryInv'
  BY <1>5 DEF Replace, Goto, Exclusive, Close, Unlock, AfterGet
<1>6. ASSUME NEW p \in Procs, Release(p) PROVE CarryInv'
  BY <1>6 DEF Release, Goto
<1>7. ASSUME NEW p \in Procs, TryUpdateLocks(p) PROVE CarryInv'
  BY <1>7 DEF TryUpdateLocks, Goto, CanTryLock, WithWriter
<1>8. ASSUME NEW p \in Procs, TryUpdateBusy(p) PROVE CarryInv'
  BY <1>8 DEF TryUpdateBusy, Goto, AfterTry
<1>9. ASSUME NEW p \in Procs, CheckUpdate(p) PROVE CarryInv'
  BY <1>9 DEF CheckUpdate, Goto, Unlock, AfterTry
<1>10. ASSUME NEW p \in Procs, ApplyMeta(p) PROVE CarryInv'
  BY <1>10 DEF ApplyMeta, Goto
<1>11. ASSUME NEW p \in Procs, ApplyDB(p) PROVE CarryInv'
  BY <1>11 DEF ApplyDB, Goto, Unlock, Panic, Close, AfterTry
<1>12. ASSUME NEW p \in Setters, SwapLocks(p) PROVE CarryInv'
  BY <1>12 DEF SwapLocks, Goto, CanTryLock, Panic, WithWriter, Open
<1>13. ASSUME NEW p \in Setters, SwapBusy(p) PROVE CarryInv'
  BY <1>13 DEF SwapBusy, Goto, Open
<1>14. ASSUME NEW p \in Setters, SwapStores(p) PROVE CarryInv'
  BY <1>14 DEF SwapStores, Goto, Close
<1>15. ASSUME NEW p \in Queries \cup Viewers, ReadLock(p) PROVE CarryInv'
  BY <1>15 DEF ReadLock, Goto, CanRLock, WithReader
<1>16. ASSUME NEW p \in Queries, RefuseClosed(p) PROVE CarryInv'
  BY <1>16 DEF RefuseClosed, Goto, RUnlock
<1>17. ASSUME NEW p \in Queries, EnterCallback(p) PROVE CarryInv'
  BY <1>17 DEF EnterCallback, Goto
<1>18. ASSUME NEW p \in Queries, LookupNamed(p) PROVE CarryInv'
  BY <1>18 DEF LookupNamed, Goto
<1>19. ASSUME NEW p \in Viewers, ReadLabel(p) PROVE CarryInv'
  BY <1>19 DEF ReadLabel, Goto, RUnlock
<1>20. ASSUME NEW p \in Closers, CloseHandle(p) PROVE CarryInv'
  BY <1>20 DEF CloseHandle, Goto, Exclusive, Close, Unlock
<1>21. ASSUME NEW p \in Queries, FinishQuery(p) PROVE CarryInv'
  BY <1>21 DEF FinishQuery, Goto, RUnlock
<1>22. CASE Rotate
  BY <1>22 DEF Rotate
<1>23. CASE UNCHANGED vars
  BY <1>23 DEF vars
<1> QED
  BY <1>1, <1>2, <1>3, <1>4, <1>5, <1>6, <1>7, <1>8, <1>9, <1>10, <1>11, <1>12, <1>13, <1>14, <1>15, <1>16, <1>17, <1>18, <1>19, <1>20, <1>21, <1>22, <1>23 DEF Next, Step, Idle

\* Closing never touches a database that was not opened, and each SetSource
\* call and each version brings its database once.
LEMMA FreshStep ==
  FreshInv /\ TypeOK /\ OwnInv /\ [Next]_vars => FreshInv'
<1> SUFFICES ASSUME FreshInv, TypeOK, OwnInv, [Next]_vars
    PROVE  FreshInv'
  OBVIOUS
<1> USE ProcsAssumption, DBsAssumption DEF FreshInv, TypeOK, OwnInv, Labels, Procs, DBs, Versions
<1>1. ASSUME NEW p \in Procs, Begin(p) PROVE FreshInv'
  BY <1>1 DEF Begin, Goto
<1>2. ASSUME NEW p \in Procs, GetCurrent(p) PROVE FreshInv'
  BY <1>2 DEF GetCurrent, Goto, AfterGet
<1>3. ASSUME NEW p \in Procs, GetOpened(p) PROVE FreshInv'
  BY <1>3 DEF GetOpened, Goto, Open
<1>4. ASSUME NEW p \in Procs, Announce(p) PROVE FreshInv'
  BY <1>4 DEF Announce, Goto, CanAnnounce, WithWriter
<1>5. ASSUME NEW p \in Procs, Replace(p) PROVE FreshInv'
  BY <1>5 DEF Replace, Goto, Exclusive, Close, Unlock, AfterGet
<1>6. ASSUME NEW p \in Procs, Release(p) PROVE FreshInv'
  BY <1>6 DEF Release, Goto
<1>7. ASSUME NEW p \in Procs, TryUpdateLocks(p) PROVE FreshInv'
  BY <1>7 DEF TryUpdateLocks, Goto, CanTryLock, WithWriter
<1>8. ASSUME NEW p \in Procs, TryUpdateBusy(p) PROVE FreshInv'
  BY <1>8 DEF TryUpdateBusy, Goto, AfterTry
<1>9. ASSUME NEW p \in Procs, CheckUpdate(p) PROVE FreshInv'
  BY <1>9 DEF CheckUpdate, Goto, Unlock, AfterTry
<1>10. ASSUME NEW p \in Procs, ApplyMeta(p) PROVE FreshInv'
  BY <1>10 DEF ApplyMeta, Goto
<1>11. ASSUME NEW p \in Procs, ApplyDB(p) PROVE FreshInv'
  BY <1>11 DEF ApplyDB, Goto, Unlock, Panic, Close, AfterTry
<1>12. ASSUME NEW p \in Setters, SwapLocks(p) PROVE FreshInv'
  BY <1>12 DEF SwapLocks, Goto, CanTryLock, Panic, WithWriter, Open
<1>13. ASSUME NEW p \in Setters, SwapBusy(p) PROVE FreshInv'
  BY <1>13 DEF SwapBusy, Goto, Open
<1>14. ASSUME NEW p \in Setters, SwapStores(p) PROVE FreshInv'
  BY <1>14 DEF SwapStores, Goto, Close
<1>15. ASSUME NEW p \in Queries \cup Viewers, ReadLock(p) PROVE FreshInv'
  BY <1>15 DEF ReadLock, Goto, CanRLock, WithReader
<1>16. ASSUME NEW p \in Queries, RefuseClosed(p) PROVE FreshInv'
  BY <1>16 DEF RefuseClosed, Goto, RUnlock
<1>17. ASSUME NEW p \in Queries, EnterCallback(p) PROVE FreshInv'
  BY <1>17 DEF EnterCallback, Goto
<1>18. ASSUME NEW p \in Queries, LookupNamed(p) PROVE FreshInv'
  BY <1>18 DEF LookupNamed, Goto
<1>19. ASSUME NEW p \in Viewers, ReadLabel(p) PROVE FreshInv'
  BY <1>19 DEF ReadLabel, Goto, RUnlock
<1>20. ASSUME NEW p \in Closers, CloseHandle(p) PROVE FreshInv'
  BY <1>20 DEF CloseHandle, Goto, Exclusive, Close, Unlock
<1>21. ASSUME NEW p \in Queries, FinishQuery(p) PROVE FreshInv'
  BY <1>21 DEF FinishQuery, Goto, RUnlock
<1>22. CASE Rotate
  BY <1>22 DEF Rotate
<1>23. CASE UNCHANGED vars
  BY <1>23 DEF vars
<1> QED
  BY <1>1, <1>2, <1>3, <1>4, <1>5, <1>6, <1>7, <1>8, <1>9, <1>10, <1>11, <1>12, <1>13, <1>14, <1>15, <1>16, <1>17, <1>18, <1>19, <1>20, <1>21, <1>22, <1>23 DEF Next, Step, Idle

\* Ownership: a database moves from a goroutine to update or to db, from
\* update to a goroutine, and is closed when it leaves db or is displaced.
LEMMA OwnStep ==
  OwnInv /\ TypeOK /\ CarryInv /\ FreshInv /\ [Next]_vars => OwnInv'
<1> SUFFICES ASSUME OwnInv, TypeOK, CarryInv, FreshInv, [Next]_vars
    PROVE  OwnInv'
  OBVIOUS
<1> USE ProcsAssumption, DBsAssumption DEF OwnInv, TypeOK, CarryInv, FreshInv, Labels, Procs, DBs, Versions
<1>1. ASSUME NEW p \in Procs, Begin(p) PROVE OwnInv'
  BY <1>1 DEF Begin, Goto
<1>2. ASSUME NEW p \in Procs, GetCurrent(p) PROVE OwnInv'
  BY <1>2 DEF GetCurrent, Goto, AfterGet
<1>3. ASSUME NEW p \in Procs, GetOpened(p) PROVE OwnInv'
  BY <1>3 DEF GetOpened, Goto, Open
<1>4. ASSUME NEW p \in Procs, Announce(p) PROVE OwnInv'
  BY <1>4 DEF Announce, Goto, CanAnnounce, WithWriter
<1>5. ASSUME NEW p \in Procs, Replace(p) PROVE OwnInv'
  BY <1>5 DEF Replace, Goto, Exclusive, Close, Unlock, AfterGet
<1>6. ASSUME NEW p \in Procs, Release(p) PROVE OwnInv'
  BY <1>6 DEF Release, Goto
<1>7. ASSUME NEW p \in Procs, TryUpdateLocks(p) PROVE OwnInv'
  BY <1>7 DEF TryUpdateLocks, Goto, CanTryLock, WithWriter
<1>8. ASSUME NEW p \in Procs, TryUpdateBusy(p) PROVE OwnInv'
  BY <1>8 DEF TryUpdateBusy, Goto, AfterTry
<1>9. ASSUME NEW p \in Procs, CheckUpdate(p) PROVE OwnInv'
  BY <1>9 DEF CheckUpdate, Goto, Unlock, AfterTry
<1>10. ASSUME NEW p \in Procs, ApplyMeta(p) PROVE OwnInv'
  BY <1>10 DEF ApplyMeta, Goto
<1>11. ASSUME NEW p \in Procs, ApplyDB(p) PROVE OwnInv'
  BY <1>11 DEF ApplyDB, Goto, Unlock, Panic, Close, AfterTry
<1>12. ASSUME NEW p \in Setters, SwapLocks(p) PROVE OwnInv'
  BY <1>12 DEF SwapLocks, Goto, CanTryLock, Panic, WithWriter, Open
<1>13. ASSUME NEW p \in Setters, SwapBusy(p) PROVE OwnInv'
  BY <1>13 DEF SwapBusy, Goto, Open
<1>14. ASSUME NEW p \in Setters, SwapStores(p) PROVE OwnInv'
  BY <1>14 DEF SwapStores, Goto, Close
<1>15. ASSUME NEW p \in Queries \cup Viewers, ReadLock(p) PROVE OwnInv'
  BY <1>15 DEF ReadLock, Goto, CanRLock, WithReader
<1>16. ASSUME NEW p \in Queries, RefuseClosed(p) PROVE OwnInv'
  BY <1>16 DEF RefuseClosed, Goto, RUnlock
<1>17. ASSUME NEW p \in Queries, EnterCallback(p) PROVE OwnInv'
  BY <1>17 DEF EnterCallback, Goto
<1>18. ASSUME NEW p \in Queries, LookupNamed(p) PROVE OwnInv'
  BY <1>18 DEF LookupNamed, Goto
<1>19. ASSUME NEW p \in Viewers, ReadLabel(p) PROVE OwnInv'
  BY <1>19 DEF ReadLabel, Goto, RUnlock
<1>20. ASSUME NEW p \in Closers, CloseHandle(p) PROVE OwnInv'
  BY <1>20 DEF CloseHandle, Goto, Exclusive, Close, Unlock
<1>21. ASSUME NEW p \in Queries, FinishQuery(p) PROVE OwnInv'
  BY <1>21 DEF FinishQuery, Goto, RUnlock
<1>22. CASE Rotate
  BY <1>22 DEF Rotate
<1>23. CASE UNCHANGED vars
  BY <1>23 DEF vars
<1> QED
  BY <1>1, <1>2, <1>3, <1>4, <1>5, <1>6, <1>7, <1>8, <1>9, <1>10, <1>11, <1>12, <1>13, <1>14, <1>15, <1>16, <1>17, <1>18, <1>19, <1>20, <1>21, <1>22, <1>23 DEF Next, Step, Idle

\* The installed database changes only in the exclusive section, when no
\* query is inside its callback.
LEMMA UsingStep ==
  UsingInv /\ TypeOK /\ LockInv /\ [Next]_vars => UsingInv'
<1> SUFFICES ASSUME UsingInv, TypeOK, LockInv, [Next]_vars
    PROVE  UsingInv'
  OBVIOUS
<1> USE ProcsAssumption, DBsAssumption DEF UsingInv, TypeOK, LockInv, RWMutexes, Labels, Procs
<1>1. ASSUME NEW p \in Procs, Begin(p) PROVE UsingInv'
  BY <1>1 DEF Begin, Goto
<1>2. ASSUME NEW p \in Procs, GetCurrent(p) PROVE UsingInv'
  BY <1>2 DEF GetCurrent, Goto, AfterGet
<1>3. ASSUME NEW p \in Procs, GetOpened(p) PROVE UsingInv'
  BY <1>3 DEF GetOpened, Goto, Open
<1>4. ASSUME NEW p \in Procs, Announce(p) PROVE UsingInv'
  BY <1>4 DEF Announce, Goto, CanAnnounce, WithWriter
<1>5. ASSUME NEW p \in Procs, Replace(p) PROVE UsingInv'
  BY <1>5 DEF Replace, Goto, Exclusive, Close, Unlock, AfterGet
<1>6. ASSUME NEW p \in Procs, Release(p) PROVE UsingInv'
  BY <1>6 DEF Release, Goto
<1>7. ASSUME NEW p \in Procs, TryUpdateLocks(p) PROVE UsingInv'
  BY <1>7 DEF TryUpdateLocks, Goto, CanTryLock, WithWriter
<1>8. ASSUME NEW p \in Procs, TryUpdateBusy(p) PROVE UsingInv'
  BY <1>8 DEF TryUpdateBusy, Goto, AfterTry
<1>9. ASSUME NEW p \in Procs, CheckUpdate(p) PROVE UsingInv'
  BY <1>9 DEF CheckUpdate, Goto, Unlock, AfterTry
<1>10. ASSUME NEW p \in Procs, ApplyMeta(p) PROVE UsingInv'
  BY <1>10 DEF ApplyMeta, Goto
<1>11. ASSUME NEW p \in Procs, ApplyDB(p) PROVE UsingInv'
  BY <1>11 DEF ApplyDB, Goto, Unlock, Panic, Close, AfterTry
<1>12. ASSUME NEW p \in Setters, SwapLocks(p) PROVE UsingInv'
  BY <1>12 DEF SwapLocks, Goto, CanTryLock, Panic, WithWriter, Open
<1>13. ASSUME NEW p \in Setters, SwapBusy(p) PROVE UsingInv'
  BY <1>13 DEF SwapBusy, Goto, Open
<1>14. ASSUME NEW p \in Setters, SwapStores(p) PROVE UsingInv'
  BY <1>14 DEF SwapStores, Goto, Close
<1>15. ASSUME NEW p \in Queries \cup Viewers, ReadLock(p) PROVE UsingInv'
  BY <1>15 DEF ReadLock, Goto, CanRLock, WithReader
<1>16. ASSUME NEW p \in Queries, RefuseClosed(p) PROVE UsingInv'
  BY <1>16 DEF RefuseClosed, Goto, RUnlock
<1>17. ASSUME NEW p \in Queries, EnterCallback(p) PROVE UsingInv'
  BY <1>17 DEF EnterCallback, Goto
<1>18. ASSUME NEW p \in Queries, LookupNamed(p) PROVE UsingInv'
  BY <1>18 DEF LookupNamed, Goto
<1>19. ASSUME NEW p \in Viewers, ReadLabel(p) PROVE UsingInv'
  BY <1>19 DEF ReadLabel, Goto, RUnlock
<1>20. ASSUME NEW p \in Closers, CloseHandle(p) PROVE UsingInv'
  BY <1>20 DEF CloseHandle, Goto, Exclusive, Close, Unlock
<1>21. ASSUME NEW p \in Queries, FinishQuery(p) PROVE UsingInv'
  BY <1>21 DEF FinishQuery, Goto, RUnlock
<1>22. CASE Rotate
  BY <1>22 DEF Rotate
<1>23. CASE UNCHANGED vars
  BY <1>23 DEF vars
<1> QED
  BY <1>1, <1>2, <1>3, <1>4, <1>5, <1>6, <1>7, <1>8, <1>9, <1>10, <1>11, <1>12, <1>13, <1>14, <1>15, <1>16, <1>17, <1>18, <1>19, <1>20, <1>21, <1>22, <1>23 DEF Next, Step, Idle

\* What is closed was open: it was owned, and by one place only.
LEMMA CloseOnceStep ==
  CloseOnce /\ TypeOK /\ OwnInv /\ [Next]_vars => CloseOnce'
<1> SUFFICES ASSUME CloseOnce, TypeOK, OwnInv, [Next]_vars
    PROVE  CloseOnce'
  OBVIOUS
<1> USE ProcsAssumption, DBsAssumption DEF CloseOnce, TypeOK, OwnInv, DBs, Procs
<1>1. ASSUME NEW p \in Procs, Begin(p) PROVE CloseOnce'
  BY <1>1 DEF Begin, Goto
<1>2. ASSUME NEW p \in Procs, GetCurrent(p) PROVE CloseOnce'
  BY <1>2 DEF GetCurrent, Goto, AfterGet
<1>3. ASSUME NEW p \in Procs, GetOpened(p) PROVE CloseOnce'
  BY <1>3 DEF GetOpened, Goto, Open
<1>4. ASSUME NEW p \in Procs, Announce(p) PROVE CloseOnce'
  BY <1>4 DEF Announce, Goto, CanAnnounce, WithWriter
<1>5. ASSUME NEW p \in Procs, Replace(p) PROVE CloseOnce'
  BY <1>5 DEF Replace, Goto, Exclusive, Close, Unlock, AfterGet
<1>6. ASSUME NEW p \in Procs, Release(p) PROVE CloseOnce'
  BY <1>6 DEF Release, Goto
<1>7. ASSUME NEW p \in Procs, TryUpdateLocks(p) PROVE CloseOnce'
  BY <1>7 DEF TryUpdateLocks, Goto, CanTryLock, WithWriter
<1>8. ASSUME NEW p \in Procs, TryUpdateBusy(p) PROVE CloseOnce'
  BY <1>8 DEF TryUpdateBusy, Goto, AfterTry
<1>9. ASSUME NEW p \in Procs, CheckUpdate(p) PROVE CloseOnce'
  BY <1>9 DEF CheckUpdate, Goto, Unlock, AfterTry
<1>10. ASSUME NEW p \in Procs, ApplyMeta(p) PROVE CloseOnce'
  BY <1>10 DEF ApplyMeta, Goto
<1>11. ASSUME NEW p \in Procs, ApplyDB(p) PROVE CloseOnce'
  BY <1>11 DEF ApplyDB, Goto, Unlock, Panic, Close, AfterTry
<1>12. ASSUME NEW p \in Setters, SwapLocks(p) PROVE CloseOnce'
  BY <1>12 DEF SwapLocks, Goto, CanTryLock, Panic, WithWriter, Open
<1>13. ASSUME NEW p \in Setters, SwapBusy(p) PROVE CloseOnce'
  BY <1>13 DEF SwapBusy, Goto, Open
<1>14. ASSUME NEW p \in Setters, SwapStores(p) PROVE CloseOnce'
  BY <1>14 DEF SwapStores, Goto, Close
<1>15. ASSUME NEW p \in Queries \cup Viewers, ReadLock(p) PROVE CloseOnce'
  BY <1>15 DEF ReadLock, Goto, CanRLock, WithReader
<1>16. ASSUME NEW p \in Queries, RefuseClosed(p) PROVE CloseOnce'
  BY <1>16 DEF RefuseClosed, Goto, RUnlock
<1>17. ASSUME NEW p \in Queries, EnterCallback(p) PROVE CloseOnce'
  BY <1>17 DEF EnterCallback, Goto
<1>18. ASSUME NEW p \in Queries, LookupNamed(p) PROVE CloseOnce'
  BY <1>18 DEF LookupNamed, Goto
<1>19. ASSUME NEW p \in Viewers, ReadLabel(p) PROVE CloseOnce'
  BY <1>19 DEF ReadLabel, Goto, RUnlock
<1>20. ASSUME NEW p \in Closers, CloseHandle(p) PROVE CloseOnce'
  BY <1>20 DEF CloseHandle, Goto, Exclusive, Close, Unlock
<1>21. ASSUME NEW p \in Queries, FinishQuery(p) PROVE CloseOnce'
  BY <1>21 DEF FinishQuery, Goto, RUnlock
<1>22. CASE Rotate
  BY <1>22 DEF Rotate
<1>23. CASE UNCHANGED vars
  BY <1>23 DEF vars
<1> QED
  BY <1>1, <1>2, <1>3, <1>4, <1>5, <1>6, <1>7, <1>8, <1>9, <1>10, <1>11, <1>12, <1>13, <1>14, <1>15, <1>16, <1>17, <1>18, <1>19, <1>20, <1>21, <1>22, <1>23 DEF Next, Step, Idle

\* The inductive invariant holds of every run.
LEMMA Invariance == Spec => []IInv
<1>1. Init => IInv
  BY ProcsAssumption, DBsAssumption
  DEF Init, IInv, TypeOK, LockInv, CarryInv, FreshInv, OwnInv, UsingInv,
      CloseOnce, RWMutexes, Unlocked, Labels, DBs, Versions, Procs
<1>2. IInv /\ [Next]_vars => IInv'
  BY TypeStep, LockStep, CarryStep, FreshStep, OwnStep, UsingStep,
     CloseOnceStep DEF IInv
<1> QED
  BY <1>1, <1>2, PTL DEF Spec

\* Type correctness of the handle and of the goroutines that use it.
THEOREM TypeCorrect == Spec => []TypeOK
<1>1. IInv => TypeOK
  BY DEF IInv
<1> QED
  BY Invariance, <1>1, PTL

\* No query ever runs on a closed database, whatever swaps, secret rotations,
\* failed TryLocks and Close calls race it (WithLock, options.go:401-417).
THEOREM QueriesOnOpen == Spec => []InFlightOpen
<1>1. IInv => InFlightOpen
  BY DEF IInv, UsingInv, OwnInv, InFlightOpen
<1> QED
  BY Invariance, <1>1, PTL

\* No interleaving closes a database twice, or closes one that the server was
\* not given.
THEOREM ClosedOnce == Spec => []CloseOnce
<1>1. IInv => CloseOnce
  BY DEF IInv
<1> QED
  BY Invariance, <1>1, PTL
-----------------------------------------------------------------------------
(* The named queries belong to the database.                               *)

\* While nobody is between the two halves of applyUpdateLocked, the named
\* queries are those of the installed database, if it came with any, and
\* nobody is while a query is inside its callback.
NamedInv ==
  /\ \A p \in Procs : pc[p] \in {"lock", "drain"} /\ up[p] # NoDB =>
       up[p] \in 1..MaxSecret
  /\ \A p \in Procs : pc[p] = "apply" => meta = up[p]
  /\ db # NoDB /\ (\A p \in Procs : pc[p] # "apply") =>
       meta = db \/ db \in 1..MaxSecret
  /\ NamedMatchesDB

\* NamedInv is inductive relative to IInv.
LEMMA NamedStep ==
  NamedInv /\ IInv /\ [Next]_vars => NamedInv'
<1> SUFFICES ASSUME NamedInv, IInv, [Next]_vars
    PROVE  NamedInv'
  OBVIOUS
<1> USE ProcsAssumption, DBsAssumption DEF NamedInv, NamedMatchesDB, IInv, TypeOK, LockInv, CarryInv, FreshInv, UsingInv, RWMutexes, Labels, Versions, Procs
<1>1. ASSUME NEW p \in Procs, Begin(p) PROVE NamedInv'
  BY <1>1 DEF Begin, Goto
<1>2. ASSUME NEW p \in Procs, GetCurrent(p) PROVE NamedInv'
  BY <1>2 DEF GetCurrent, Goto, AfterGet
<1>3. ASSUME NEW p \in Procs, GetOpened(p) PROVE NamedInv'
  BY <1>3 DEF GetOpened, Goto, Open
<1>4. ASSUME NEW p \in Procs, Announce(p) PROVE NamedInv'
  BY <1>4 DEF Announce, Goto, CanAnnounce, WithWriter
<1>5. ASSUME NEW p \in Procs, Replace(p) PROVE NamedInv'
  BY <1>5 DEF Replace, Goto, Exclusive, Close, Unlock, AfterGet
<1>6. ASSUME NEW p \in Procs, Release(p) PROVE NamedInv'
  BY <1>6 DEF Release, Goto
<1>7. ASSUME NEW p \in Procs, TryUpdateLocks(p) PROVE NamedInv'
  BY <1>7 DEF TryUpdateLocks, Goto, CanTryLock, WithWriter
<1>8. ASSUME NEW p \in Procs, TryUpdateBusy(p) PROVE NamedInv'
  BY <1>8 DEF TryUpdateBusy, Goto, AfterTry
<1>9. ASSUME NEW p \in Procs, CheckUpdate(p) PROVE NamedInv'
  BY <1>9 DEF CheckUpdate, Goto, Unlock, AfterTry
<1>10. ASSUME NEW p \in Procs, ApplyMeta(p) PROVE NamedInv'
  BY <1>10 DEF ApplyMeta, Goto
<1>11. ASSUME NEW p \in Procs, ApplyDB(p) PROVE NamedInv'
  BY <1>11 DEF ApplyDB, Goto, Unlock, Panic, Close, AfterTry
<1>12. ASSUME NEW p \in Setters, SwapLocks(p) PROVE NamedInv'
  BY <1>12 DEF SwapLocks, Goto, CanTryLock, Panic, WithWriter, Open
<1>13. ASSUME NEW p \in Setters, SwapBusy(p) PROVE NamedInv'
  BY <1>13 DEF SwapBusy, Goto, Open
<1>14. ASSUME NEW p \in Setters, SwapStores(p) PROVE NamedInv'
  BY <1>14 DEF SwapStores, Goto, Close
<1>15. ASSUME NEW p \in Queries \cup Viewers, ReadLock(p) PROVE NamedInv'
  BY <1>15 DEF ReadLock, Goto, CanRLock, WithReader
<1>16. ASSUME NEW p \in Queries, RefuseClosed(p) PROVE NamedInv'
  BY <1>16 DEF RefuseClosed, Goto, RUnlock
<1>17. ASSUME NEW p \in Queries, EnterCallback(p) PROVE NamedInv'
  BY <1>17 DEF EnterCallback, Goto
<1>18. ASSUME NEW p \in Queries, LookupNamed(p) PROVE NamedInv'
  BY <1>18 DEF LookupNamed, Goto
<1>19. ASSUME NEW p \in Viewers, ReadLabel(p) PROVE NamedInv'
  BY <1>19 DEF ReadLabel, Goto, RUnlock
<1>20. ASSUME NEW p \in Closers, CloseHandle(p) PROVE NamedInv'
  BY <1>20 DEF CloseHandle, Goto, Exclusive, Close, Unlock
<1>21. ASSUME NEW p \in Queries, FinishQuery(p) PROVE NamedInv'
  BY <1>21 DEF FinishQuery, Goto, RUnlock
<1>22. CASE Rotate
  BY <1>22 DEF Rotate
<1>23. CASE UNCHANGED vars
  BY <1>23 DEF vars
<1> QED
  BY <1>1, <1>2, <1>3, <1>4, <1>5, <1>6, <1>7, <1>8, <1>9, <1>10, <1>11, <1>12, <1>13, <1>14, <1>15, <1>16, <1>17, <1>18, <1>19, <1>20, <1>21, <1>22, <1>23 DEF Next, Step, Idle

\* A query by name runs the text that came with the database it runs on
\* (lookupNamedQuery, options.go:425-432), unless a secret replaced it.
THEOREM NamedConsistent == Spec => []NamedMatchesDB
<1>1. Init => NamedInv
  BY DEF Init, NamedInv, NamedMatchesDB, Procs
<1>2. NamedInv => NamedMatchesDB
  BY DEF NamedInv
<1>3. IInv /\ NamedInv /\ [Next]_vars => NamedInv'
  BY NamedStep
<1> QED
  BY Invariance, <1>1, <1>2, <1>3, PTL DEF Spec
-----------------------------------------------------------------------------
(* The server loses no database.                                           *)

\* Only Close empties a handle.
LeakInv ==
  /\ db = NoDB => \E c \in Closers : pc[c] = "done"
  /\ NoLeak

\* Every open database stays in one of the places that close it; only a
\* handle that Close emptied makes applyUpdateLocked panic.
LEMMA LeakStep ==
  LeakInv /\ IInv /\ [Next]_vars => LeakInv'
<1> SUFFICES ASSUME LeakInv, IInv, [Next]_vars
    PROVE  LeakInv'
  OBVIOUS
<1> USE ProcsAssumption, DBsAssumption DEF LeakInv, NoLeak, IInv, TypeOK, CarryInv, OwnInv, Labels, DBs, Procs
<1>1. ASSUME NEW p \in Procs, Begin(p) PROVE LeakInv'
  BY <1>1 DEF Begin, Goto
<1>2. ASSUME NEW p \in Procs, GetCurrent(p) PROVE LeakInv'
  BY <1>2 DEF GetCurrent, Goto, AfterGet
<1>3. ASSUME NEW p \in Procs, GetOpened(p) PROVE LeakInv'
  BY <1>3 DEF GetOpened, Goto, Open
<1>4. ASSUME NEW p \in Procs, Announce(p) PROVE LeakInv'
  BY <1>4 DEF Announce, Goto, CanAnnounce, WithWriter
<1>5. ASSUME NEW p \in Procs, Replace(p) PROVE LeakInv'
  BY <1>5 DEF Replace, Goto, Exclusive, Close, Unlock, AfterGet
<1>6. ASSUME NEW p \in Procs, Release(p) PROVE LeakInv'
  BY <1>6 DEF Release, Goto
<1>7. ASSUME NEW p \in Procs, TryUpdateLocks(p) PROVE LeakInv'
  BY <1>7 DEF TryUpdateLocks, Goto, CanTryLock, WithWriter
<1>8. ASSUME NEW p \in Procs, TryUpdateBusy(p) PROVE LeakInv'
  BY <1>8 DEF TryUpdateBusy, Goto, AfterTry
<1>9. ASSUME NEW p \in Procs, CheckUpdate(p) PROVE LeakInv'
  BY <1>9 DEF CheckUpdate, Goto, Unlock, AfterTry
<1>10. ASSUME NEW p \in Procs, ApplyMeta(p) PROVE LeakInv'
  BY <1>10 DEF ApplyMeta, Goto
<1>11. ASSUME NEW p \in Procs, ApplyDB(p) PROVE LeakInv'
  BY <1>11 DEF ApplyDB, Goto, Unlock, Panic, Close, AfterTry
<1>12. ASSUME NEW p \in Setters, SwapLocks(p) PROVE LeakInv'
  BY <1>12 DEF SwapLocks, Goto, CanTryLock, Panic, WithWriter, Open
<1>13. ASSUME NEW p \in Setters, SwapBusy(p) PROVE LeakInv'
  BY <1>13 DEF SwapBusy, Goto, Open
<1>14. ASSUME NEW p \in Setters, SwapStores(p) PROVE LeakInv'
  BY <1>14 DEF SwapStores, Goto, Close
<1>15. ASSUME NEW p \in Queries \cup Viewers, ReadLock(p) PROVE LeakInv'
  BY <1>15 DEF ReadLock, Goto, CanRLock, WithReader
<1>16. ASSUME NEW p \in Queries, RefuseClosed(p) PROVE LeakInv'
  BY <1>16 DEF RefuseClosed, Goto, RUnlock
<1>17. ASSUME NEW p \in Queries, EnterCallback(p) PROVE LeakInv'
  BY <1>17 DEF EnterCallback, Goto
<1>18. ASSUME NEW p \in Queries, LookupNamed(p) PROVE LeakInv'
  BY <1>18 DEF LookupNamed, Goto
<1>19. ASSUME NEW p \in Viewers, ReadLabel(p) PROVE LeakInv'
  BY <1>19 DEF ReadLabel, Goto, RUnlock
<1>20. ASSUME NEW p \in Closers, CloseHandle(p) PROVE LeakInv'
  BY <1>20 DEF CloseHandle, Goto, Exclusive, Close, Unlock
<1>21. ASSUME NEW p \in Queries, FinishQuery(p) PROVE LeakInv'
  BY <1>21 DEF FinishQuery, Goto, RUnlock
<1>22. CASE Rotate
  BY <1>22 DEF Rotate
<1>23. CASE UNCHANGED vars
  BY <1>23 DEF vars
<1> QED
  BY <1>1, <1>2, <1>3, <1>4, <1>5, <1>6, <1>7, <1>8, <1>9, <1>10, <1>11, <1>12, <1>13, <1>14, <1>15, <1>16, <1>17, <1>18, <1>19, <1>20, <1>21, <1>22, <1>23 DEF Next, Step, Idle

\* Whatever the order of SetSource calls, rotations, queries and Close, a
\* database the server took stays in its hands until it is closed.
THEOREM NothingLost == Spec => []NoLeak
<1>1. Init => LeakInv
  BY DBsAssumption DEF Init, LeakInv, NoLeak, DBs, Versions
<1>2. LeakInv => NoLeak
  BY DEF LeakInv
<1>3. IInv /\ LeakInv /\ [Next]_vars => LeakInv'
  BY LeakStep
<1> QED
  BY Invariance, <1>1, <1>2, <1>3, PTL DEF Spec
-----------------------------------------------------------------------------
(* Who waits for whom.                                                     *)

\* s.mu agrees with where the goroutines are: from the start of getHandles or
\* SetSource to its end its holder is inside, whoever asks for h.mu with s.mu
\* held runs the callback of a secret that has rotated, and without it is Close.
HolderInv ==
  \A p \in Procs :
    /\ pc[p] \in {"get", "unlock", "swap", "store"} => smu = p
    /\ pc[p] \in {"lock", "drain"} => (smu = p <=> up[p] # NoDB)
    /\ pc[p] \in {"lock", "drain"} => IF up[p] # NoDB THEN secret # 0
                                                    ELSE p \in Closers
    /\ smu = p => pc[p] \in {"get", "lock", "drain", "try", "check", "meta",
                            "apply", "unlock", "swap", "store"}

\* A step moves one goroutine, which takes s.mu only where it is free.
LEMMA HolderStep ==
  HolderInv /\ IInv /\ [Next]_vars => HolderInv'
<1> SUFFICES ASSUME HolderInv, IInv, [Next]_vars
    PROVE  HolderInv'
  OBVIOUS
<1>0. TypeOK /\ seen <= secret /\ CarryInv
  BY DEF IInv, FreshInv
<1> USE <1>0, ProcsAssumption, DBsAssumption DEF HolderInv, TypeOK, CarryInv, Labels, DBs, Versions, Procs
<1>1. ASSUME NEW p \in Procs, Begin(p) PROVE HolderInv'
  BY <1>1 DEF Begin, Goto
<1>2. ASSUME NEW p \in Procs, GetCurrent(p) PROVE HolderInv'
  BY <1>2 DEF GetCurrent, Goto, AfterGet
<1>3. ASSUME NEW p \in Procs, GetOpened(p) PROVE HolderInv'
  BY <1>3 DEF GetOpened, Goto
<1>4. ASSUME NEW p \in Procs, Announce(p) PROVE HolderInv'
  BY <1>4 DEF Announce, Goto
<1>5. ASSUME NEW p \in Procs, Replace(p) PROVE HolderInv'
  BY <1>5 DEF Replace, Goto, AfterGet
<1>6. ASSUME NEW p \in Procs, Release(p) PROVE HolderInv'
  BY <1>6 DEF Release, Goto
<1>7. ASSUME NEW p \in Procs, TryUpdateLocks(p) PROVE HolderInv'
  BY <1>7 DEF TryUpdateLocks, Goto
<1>8. ASSUME NEW p \in Procs, TryUpdateBusy(p) PROVE HolderInv'
  BY <1>8 DEF TryUpdateBusy, Goto, AfterTry
<1>9. ASSUME NEW p \in Procs, CheckUpdate(p) PROVE HolderInv'
  BY <1>9 DEF CheckUpdate, Goto, AfterTry
<1>10. ASSUME NEW p \in Procs, ApplyMeta(p) PROVE HolderInv'
  BY <1>10 DEF ApplyMeta, Goto
<1>11. ASSUME NEW p \in Procs, ApplyDB(p) PROVE HolderInv'
  BY <1>11 DEF ApplyDB, Goto, Panic, AfterTry
<1>12. ASSUME NEW p \in Setters, SwapLocks(p) PROVE HolderInv'
  BY <1>12 DEF SwapLocks, Goto, Panic
<1>13. ASSUME NEW p \in Setters, SwapBusy(p) PROVE HolderInv'
  BY <1>13 DEF SwapBusy, Goto
<1>14. ASSUME NEW p \in Setters, SwapStores(p) PROVE HolderInv'
  BY <1>14 DEF SwapStores, Goto
<1>15. ASSUME NEW p \in Queries \cup Viewers, ReadLock(p) PROVE HolderInv'
  BY <1>15 DEF ReadLock, Goto
<1>16. ASSUME NEW p \in Queries, RefuseClosed(p) PROVE HolderInv'
  BY <1>16 DEF RefuseClosed, Goto
<1>17. ASSUME NEW p \in Queries, EnterCallback(p) PROVE HolderInv'
  BY <1>17 DEF EnterCallback, Goto
<1>18. ASSUME NEW p \in Queries, LookupNamed(p) PROVE HolderInv'
  BY <1>18 DEF LookupNamed, Goto
<1>19. ASSUME NEW p \in Viewers, ReadLabel(p) PROVE HolderInv'
  BY <1>19 DEF ReadLabel, Goto
<1>20. ASSUME NEW p \in Closers, CloseHandle(p) PROVE HolderInv'
  BY <1>20 DEF CloseHandle, Goto
<1>21. ASSUME NEW p \in Queries, FinishQuery(p) PROVE HolderInv'
  BY <1>21 DEF FinishQuery, Goto
<1>22. CASE Rotate
  BY <1>22 DEF Rotate
<1>23. CASE UNCHANGED vars
  BY <1>23 DEF vars
<1> QED
  BY <1>1, <1>2, <1>3, <1>4, <1>5, <1>6, <1>7, <1>8, <1>9, <1>10, <1>11, <1>12, <1>13, <1>14, <1>15, <1>16, <1>17, <1>18, <1>19, <1>20, <1>21, <1>22, <1>23 DEF Next, Step, Idle

LEMMA HolderAlways == Spec => []HolderInv
<1>1. Init => HolderInv
  BY ProcsAssumption DEF Init, HolderInv, Procs
<1>2. IInv /\ HolderInv /\ [Next]_vars => HolderInv'
  BY HolderStep
<1> QED
  BY Invariance, <1>1, <1>2, PTL DEF Spec

\* Whoever has h.mu or waits for its readers has a goroutine before it that
\* does not wait.
LEMMA BehindMutex ==
  ASSUME IInv, mu.writer # NoProc
  PROVE  \E p \in Procs : ~Ended(p) /\ ~Waits(p)
<1> DEFINE w == mu.writer
<1>1. w \in Procs /\ pc[w] \in {"drain", "check", "meta", "apply"}
  BY DEF IInv, TypeOK, RWMutexes, LockInv
<1>2. CASE Waits(w)
  <2>1. pc[w] = "drain" /\ mu.readers # {}
    BY <1>1, <1>2 DEF Waits, Exclusive
  <2>2. PICK r \in mu.readers : TRUE
    BY <2>1
  <2>3. r \in Procs /\ pc[r] \in {"hold", "run", "scan"}
    BY <2>2 DEF IInv, TypeOK, RWMutexes, LockInv
  <2> QED
    BY <2>3 DEF Ended, Waits
<1>3. CASE ~Waits(w)
  BY <1>1, <1>3 DEF Ended
<1> QED
  BY <1>2, <1>3

\* The same of s.mu: its holder runs or waits for h.mu.
LEMMA BehindServer ==
  ASSUME IInv, HolderInv, smu # NoProc
  PROVE  \E p \in Procs : ~Ended(p) /\ ~Waits(p)
<1> DEFINE h == smu
<1>1. h \in Procs /\ ~Ended(h) /\ pc[h] \notin {"idle", "rlock"}
  BY DEF IInv, TypeOK, HolderInv, Ended
<1>2. CASE Waits(h)
  <2>1. CASE mu.writer # NoProc
    BY <2>1, BehindMutex
  <2>2. CASE mu.writer = NoProc
    <3>1. pc[h] = "drain"
      BY <1>1, <1>2, <2>2 DEF Waits
    <3>2. mu.writer = h
      BY <1>1, <3>1 DEF IInv, LockInv
    <3> QED
      BY <1>1, <2>2, <3>2, ProcsAssumption
  <2> QED
    BY <2>1, <2>2
<1> QED
  BY <1>1, <1>2

\* Deadlock freedom for any number of goroutines of each kind: the wait for
\* s.mu, then for the writer, then for readers ends at one that runs, since
\* no reader of h.mu asks for another lock (options.go:428).
THEOREM NobodyStuck == Spec => []NeverStuck
<1>1. IInv /\ HolderInv => NeverStuck
  <2> SUFFICES ASSUME IInv, HolderInv, NEW p \in Procs, ~Ended(p), Waits(p)
      PROVE  \E r \in Procs : ~Ended(r) /\ ~Waits(r)
    BY DEF NeverStuck
  <2>1. CASE smu # NoProc
    BY <2>1, BehindServer
  <2>2. CASE mu.writer # NoProc
    BY <2>2, BehindMutex
  <2>3. CASE smu = NoProc /\ mu.writer = NoProc
    <3>1. pc[p] = "drain"
      BY <2>3 DEF Waits
    <3>2. mu.writer = p
      BY <3>1 DEF IInv, LockInv
    <3> QED
      BY <2>3, <3>2, ProcsAssumption
  <2> QED
    BY <2>1, <2>2, <2>3
<1> QED
  BY Invariance, HolderAlways, <1>1, PTL

\* Before the secret rotates no query and no Close holds up SetSource or
\* getHandles while they have s.mu: only the callback of a rotated secret asks
\* for h.mu in there (options.go:151), and besides it only Close asks at all.
THEOREM HolderAlwaysGoesOn == Spec => []HolderGoesOn
<1>1. HolderInv => HolderGoesOn
  BY DEF HolderInv, HolderGoesOn, Waits
<1> QED
  BY HolderAlways, <1>1, PTL
-----------------------------------------------------------------------------
(* The handle implements DataSource.                                       *)

\* A goroutine outside the abstract source's view leaves it as it is.
Stutter == UNCHANGED <<db, state, using>>

\* Each step of the handle is a step of the data source or none.  The steps
\* that install a database find no query in its callback: the lock is theirs.
LEMMA SourceStep ==
  IInv /\ [Next]_vars => Source!Next \/ Stutter
<1> SUFFICES ASSUME IInv, [Next]_vars
    PROVE  Source!Next \/ Stutter
  OBVIOUS
<1> USE ProcsAssumption, DBsAssumption DEF Stutter, Procs
<1>1. ASSUME NEW p \in Procs, GetOpened(p)
      PROVE  Source!Next
  <2>1. secret \in DBs /\ Source!Offer(secret)
    BY <1>1 DEF GetOpened, Open, Source!Offer, IInv, TypeOK, FreshInv, DBs,
                Versions
  <2> QED
    BY <2>1 DEF Source!Next
<1>2. ASSUME NEW p \in Procs, Replace(p)
      PROVE  Source!Next
  <2>1. Source!Quiet
    BY <1>2 DEF Replace, Exclusive, Source!Quiet, IInv, LockInv, UsingInv
  <2>2. up[p] \in DBs /\ up[p] \in Source!Spare
    BY <1>2 DEF Replace, Source!Spare, IInv, TypeOK, OwnInv
  <2>3. {update} \ {NoDB} \in
          {{}} \cup {{e} : e \in Source!Spare \ {up[p]}}
    <3>1. CASE update = NoDB
      BY <3>1
    <3>2. CASE update # NoDB
      <4>1. update \in Source!Spare \ {up[p]}
        BY <1>2, <3>2 DEF Replace, Source!Spare, IInv, TypeOK, OwnInv
      <4>2. {update} \ {NoDB} = {update}
        BY <3>2
      <4> QED
        BY <4>1, <4>2
    <3> QED
      BY <3>1, <3>2
  <2>4. state' = Source!Closing(({update} \ {NoDB}) \cup ({db} \ {NoDB}))
    BY <1>2 DEF Replace, Close, Source!Closing, IInv, TypeOK, OwnInv
  <2>5. Source!Install(up[p])
    BY <1>2, <2>1, <2>2, <2>3, <2>4 DEF Replace, Source!Install
  <2> QED
    BY <2>2, <2>5 DEF Source!Next
<1>3. ASSUME NEW p \in Procs, ApplyDB(p)
      PROVE  Source!Next \/ Stutter
  <2>1. CASE db = NoDB
    BY <1>3, <2>1 DEF ApplyDB
  <2>2. CASE db # NoDB
    <3>1. Source!Quiet
      BY <1>3 DEF ApplyDB, Source!Quiet, IInv, LockInv, UsingInv
    <3>2. up[p] \in DBs /\ up[p] \in Source!Spare
      BY <1>3 DEF ApplyDB, Source!Spare, IInv, TypeOK, OwnInv, CarryInv
    <3>3. state' = Source!Closing({} \cup ({db} \ {NoDB}))
      BY <1>3, <2>2 DEF ApplyDB, Close, Source!Closing, IInv, TypeOK, OwnInv
    <3>4. Source!Install(up[p])
      BY <1>3, <2>2, <3>1, <3>2, <3>3 DEF ApplyDB, Source!Install
    <3> QED
      BY <3>2, <3>4 DEF Source!Next
  <2> QED
    BY <2>1, <2>2
<1>4. ASSUME NEW p \in Setters, SwapLocks(p)
      PROVE  Source!Next \/ Stutter
  <2>1. CASE db = NoDB
    BY <1>4, <2>1 DEF SwapLocks
  <2>2. CASE db # NoDB
    <3>1. p \in DBs /\ Source!Offer(p)
      BY <1>4, <2>2 DEF SwapLocks, Open, Source!Offer, IInv, TypeOK, FreshInv,
                        DBs
    <3> QED
      BY <3>1 DEF Source!Next
  <2> QED
    BY <2>1, <2>2
<1>5. ASSUME NEW p \in Setters, SwapBusy(p)
      PROVE  Source!Next
  <2>1. p \in DBs /\ Source!Offer(p)
    BY <1>5 DEF SwapBusy, Open, Source!Offer, IInv, TypeOK, FreshInv, DBs
  <2> QED
    BY <2>1 DEF Source!Next
<1>6. ASSUME NEW p \in Setters, SwapStores(p)
      PROVE  Source!Next \/ Stutter
  <2>1. CASE update = NoDB
    BY <1>6, <2>1 DEF SwapStores, Close
  <2>2. CASE update # NoDB
    <3>1. update \in DBs /\ update \in Source!Spare
      BY <2>2 DEF Source!Spare, IInv, TypeOK, OwnInv
    <3>2. state' = Source!Closing({update})
      BY <1>6, <2>2 DEF SwapStores, Close, Source!Closing, IInv, TypeOK, OwnInv
    <3>3. Source!Discard(update)
      BY <1>6, <3>1, <3>2 DEF SwapStores, Source!Discard
    <3> QED
      BY <3>1, <3>3 DEF Source!Next
  <2> QED
    BY <2>1, <2>2
<1>7. ASSUME NEW q \in Queries, EnterCallback(q)
      PROVE  Source!Next
  <2>1. Source!Start(q)
    BY <1>7 DEF EnterCallback, Source!Start, IInv, UsingInv
  <2> QED
    BY <2>1 DEF Source!Next
<1>8. ASSUME NEW q \in Queries, FinishQuery(q)
      PROVE  Source!Next
  <2>1. Source!Finish(q)
    BY <1>8 DEF FinishQuery, Source!Finish, IInv, UsingInv
  <2> QED
    BY <2>1 DEF Source!Next
<1>9. ASSUME NEW c \in Closers, CloseHandle(c)
      PROVE  Source!Next \/ Stutter
  <2>1. CASE db = NoDB
    BY <1>9, <2>1 DEF CloseHandle, Close
  <2>2. CASE db # NoDB
    <3>1. Source!Quiet
      BY <1>9 DEF CloseHandle, Exclusive, Source!Quiet, IInv, LockInv, UsingInv
    <3>2. state' = Source!Closing({db})
      BY <1>9, <2>2 DEF CloseHandle, Close, Source!Closing, IInv, TypeOK, OwnInv
    <3>3. Source!Shut
      BY <1>9, <2>2, <3>1, <3>2 DEF CloseHandle, Source!Shut
    <3> QED
      BY <3>3 DEF Source!Next
  <2> QED
    BY <2>1, <2>2
<1>10. ASSUME NEW p \in Procs,
              Begin(p) \/ GetCurrent(p) \/ Announce(p) \/ Release(p)
                \/ TryUpdateLocks(p) \/ TryUpdateBusy(p) \/ CheckUpdate(p)
                \/ ApplyMeta(p) \/ ReadLock(p) \/ RefuseClosed(p)
                \/ LookupNamed(p) \/ ReadLabel(p)
       PROVE  Stutter
  BY <1>10 DEF Begin, GetCurrent, Announce, Release, TryUpdateLocks,
               TryUpdateBusy, CheckUpdate, ApplyMeta, ReadLock, RefuseClosed,
               LookupNamed, ReadLabel
<1>11. CASE Rotate \/ UNCHANGED vars
  BY <1>11 DEF Rotate, vars
<1> QED
  BY <1>1, <1>2, <1>3, <1>4, <1>5, <1>6, <1>7, <1>8, <1>9, <1>10, <1>11
  DEF Next, Step, Idle

\* The handle implements the abstract data source: whatever its locks,
\* pending updates and rotations do, a query sees one database from start to
\* end, and a database is closed once and only while nobody uses it.
THEOREM HandleImplementsSource == Spec => ImplementsSource
<1>1. Init => Source!Init
  BY DBsAssumption DEF Init, Source!Init
<1>2. IInv /\ [Next]_vars => [Source!Next]_(Source!vars)
  BY SourceStep DEF Stutter, Source!vars
<1> QED
  BY Invariance, <1>1, <1>2, PTL DEF Spec, ImplementsSource, Source!Spec
=============================================================================
