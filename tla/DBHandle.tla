------------------------------ MODULE DBHandle ------------------------------
(***************************************************************************)
(* One data source of a tailsql server: the dbHandle of options.go, the    *)
(* setec updater that may own it, and the goroutines that use it through   *)
(* Server (tailsql.go): requests that query it, page and metadata renders  *)
(* that read its label, SetSource calls that replace its database, Server. *)
(* Close, and requests for other sources, which pass by it in getHandles.  *)
(*                                                                         *)
(* Every goroutine runs one call and ends.  s.mu is a plain mutex and h.mu *)
(* a reader/writer lock; a step is the code between two points at which    *)
(* another goroutine can see or change the handle.                         *)
(*                                                                         *)
(* Databases are named by where they come from: a SetSource call p brings  *)
(* the database p, and the secret's version n opens the database n (0 is   *)
(* the one NewServer opened).  h.label and h.named always change together  *)
(* and are named by the database they were given with.                     *)
(***************************************************************************)
EXTENDS Naturals, RWMutex

CONSTANTS
  Queries,         \* requests that run a query on the source
  Viewers,         \* requests that only list the source (UI, /meta)
  Setters,         \* SetSource calls for the source
  Closers,         \* Server.Close calls
  Others,          \* requests for other sources
  NoDB,            \* a nil database
  MaxSecret,       \* bound: how often the secret rotates (0: a fixed URL)
  SpuriousTryLock  \* TryLock may fail on a free lock (Go memory model)

Procs == Queries \cup Viewers \cup Setters \cup Closers \cup Others
Versions == 0..MaxSecret
DBs == Setters \cup Versions

ASSUME ProcsAssumption ==
  /\ NoProc \notin Procs
  /\ Queries \cap (Viewers \cup Setters \cup Closers) = {}
  /\ Viewers \cap (Setters \cup Closers) = {}
  /\ Setters \cap Closers = {}
  /\ Others \cap (Queries \cup Viewers \cup Setters \cup Closers) = {}
ASSUME DBsAssumption ==
  /\ MaxSecret \in Nat
  /\ Setters \cap Versions = {}
  /\ NoDB \notin DBs
ASSUME TryLockAssumption == SpuriousTryLock \in BOOLEAN

VARIABLES
  smu,      \* Server.mu: the goroutine that holds it
  mu,       \* dbHandle.mu
  db,       \* dbHandle.db
  meta,     \* dbHandle.label and dbHandle.named
  update,   \* dbHandle.update: the pending database
  secret,   \* the active version of the secret, in the secrets service
  seen,     \* the version the updater last acted upon
  state,    \* per database: has the server taken it, has it closed it
  pc,       \* per goroutine: what it does next
  up,       \* per goroutine: the database it is about to install
  using,    \* per query: the database WithLock passed to its callback
  named,    \* per query: the named queries it looked itself up in
  latest    \* history: the database that most recently replaced another

vars == <<smu, mu, db, meta, update, secret, seen, state, pc, up, using,
          named, latest>>

Labels == {"idle", "get", "lock", "drain", "try", "check", "meta", "apply",
           "unlock", "swap", "store", "rlock", "hold", "run", "scan",
           "done", "panic"}

TypeOK ==
  /\ smu \in Procs \cup {NoProc}
  /\ mu \in RWMutexes(Procs)
  /\ db \in DBs \cup {NoDB}
  /\ meta \in DBs
  /\ update \in DBs \cup {NoDB}
  /\ secret \in Versions
  /\ seen \in Versions
  /\ state \in [DBs -> {"unused", "open", "closed", "misused"}]
  /\ pc \in [Procs -> Labels]
  /\ up \in [Procs -> DBs \cup {NoDB}]
  /\ using \in [Queries -> DBs \cup {NoDB}]
  /\ named \in [Queries -> DBs \cup {NoDB}]
  /\ latest \in DBs

\* openSources: the source starts out open, with its own label.
Init ==
  /\ smu = NoProc
  /\ mu = Unlocked
  /\ db = 0
  /\ meta = 0
  /\ update = NoDB
  /\ secret = 0
  /\ seen = 0
  /\ state = [d \in DBs |-> IF d = 0 THEN "open" ELSE "unused"]
  /\ pc = [p \in Procs |-> "idle"]
  /\ up = [p \in Procs |-> NoDB]
  /\ using = [q \in Queries |-> NoDB]
  /\ named = [q \in Queries |-> NoDB]
  /\ latest = 0
-----------------------------------------------------------------------------
(* Helpers.                                                                *)

Goto(p, l) == pc' = [pc EXCEPT ![p] = l]

\* Close: closing what is not open is an error of the program.
Close(st, d) ==
  IF d = NoDB THEN st
  ELSE [st EXCEPT ![d] = IF @ = "open" THEN "closed" ELSE "misused"]

Open(st, d) == [st EXCEPT ![d] = "open"]

\* Whether a TryLock by a goroutine may fail.
MayFailTryLock == SpuriousTryLock \/ ~CanTryLock(mu)

\* What follows u.Get(): SetSource goes on to swap, getHandles to tryUpdate.
AfterGet(p) == IF p \in Setters THEN "swap" ELSE "try"

\* What follows tryUpdate or applyUpdateLocked: under s.mu the end of
\* getHandles or SetSource, otherwise the end of runQuery.
AfterTry(p) == IF smu = p THEN "unlock" ELSE "done"

\* A panic unwinds through the deferred unlocks of s.mu and h.mu.
Panic(p) ==
  /\ smu' = IF smu = p THEN NoProc ELSE smu
  /\ Goto(p, "panic")
-----------------------------------------------------------------------------
(* getHandles and SetSource: s.mu, then the updater.                       *)

\* Lock s.mu, at the top of getHandles and SetSource.
Begin(p) ==
  /\ pc[p] = "idle"
  /\ smu = NoProc
  /\ smu' = p
  /\ Goto(p, "get")
  /\ UNCHANGED <<mu, db, meta, update, secret, seen, state, up, using,
                 named, latest>>

\* u.Get() with no new secret, or with one whose database does not open:
\* the handle stays as it is.
GetCurrent(p) ==
  /\ pc[p] = "get"
  /\ seen' = secret
  /\ Goto(p, AfterGet(p))
  /\ UNCHANGED <<smu, mu, db, meta, update, secret, state, up, using,
                 named, latest>>

\* u.Get() with a new secret: the callback has opened and pinged its
\* database and asks for h.mu, with s.mu still held.
GetOpened(p) ==
  /\ pc[p] = "get"
  /\ secret # seen
  /\ seen' = secret
  /\ up' = [up EXCEPT ![p] = secret]
  /\ state' = Open(state, secret)
  /\ Goto(p, "lock")
  /\ UNCHANGED <<smu, mu, db, meta, update, secret, using, named, latest>>

\* mu.Lock, first half (the updater's callback, close).
Announce(p) ==
  /\ pc[p] = "lock"
  /\ CanAnnounce(mu)
  /\ mu' = WithWriter(mu, p)
  /\ Goto(p, "drain")
  /\ UNCHANGED <<smu, db, meta, update, secret, seen, state, up, using,
                 named, latest>>

\* The callback under h.mu: close the active database and a pending update,
\* install the new one.  The label and the named queries stay.
Replace(p) ==
  /\ pc[p] = "drain"
  /\ up[p] # NoDB
  /\ Exclusive(mu, p)
  /\ state' = Close(Close(state, db), update)
  /\ update' = NoDB
  /\ db' = up[p]
  /\ latest' = up[p]
  /\ up' = [up EXCEPT ![p] = NoDB]
  /\ mu' = Unlock(mu)
  /\ Goto(p, AfterGet(p))
  /\ UNCHANGED <<smu, meta, secret, seen, using, named>>

(* Mutant of Close: it keeps s.mu while it closes the handle.              *)
ReleaseUnlessCloser(p) ==
  /\ pc[p] = "unlock"
  /\ smu' = IF p \in Closers THEN smu ELSE NoProc
  /\ Goto(p, IF p \in Setters \cup Others THEN "done"
             ELSE IF p \in Closers THEN "lock" ELSE "rlock")
  /\ UNCHANGED <<mu, db, meta, update, secret, seen, state, up, using,
                 named, latest>>

\* Unlock s.mu: SetSource returns, getHandles returns to its caller, which
\* may have to do with this source or not.
Release(p) ==
  /\ pc[p] = "unlock"
  /\ smu' = NoProc
  /\ Goto(p, IF p \in Setters \cup Others THEN "done"
             ELSE IF p \in Closers THEN "lock" ELSE "rlock")
  /\ UNCHANGED <<mu, db, meta, update, secret, seen, state, up, using,
                 named, latest>>
-----------------------------------------------------------------------------
(* tryUpdate and applyUpdateLocked.                                        *)

TryUpdateLocks(p) ==
  /\ pc[p] = "try"
  /\ CanTryLock(mu)
  /\ mu' = WithWriter(mu, p)
  /\ Goto(p, "check")
  /\ UNCHANGED <<smu, db, meta, update, secret, seen, state, up, using,
                 named, latest>>

TryUpdateBusy(p) ==
  /\ pc[p] = "try"
  /\ MayFailTryLock
  /\ Goto(p, AfterTry(p))
  /\ UNCHANGED <<smu, mu, db, meta, update, secret, seen, state, up, using,
                 named, latest>>

(* Mutants of checkUpdate: it does not tell a typed nil from an update; it *)
(* reads the pending update without taking it.                             *)
CheckUpdateTypedNil(p) ==
  /\ pc[p] = "check"
  /\ update' = NoDB
  /\ up' = [up EXCEPT ![p] = update]
  /\ Goto(p, "meta")
  /\ UNCHANGED <<smu, mu, db, meta, secret, seen, state, using, named, latest>>

CheckUpdateLoad(p) ==
  /\ pc[p] = "check"
  /\ up' = [up EXCEPT ![p] = update]
  /\ IF update = NoDB
     THEN mu' = Unlock(mu) /\ Goto(p, AfterTry(p))
     ELSE mu' = mu /\ Goto(p, "meta")
  /\ UNCHANGED <<smu, db, meta, update, secret, seen, state, using, named,
                 latest>>

\* checkUpdate takes the pending update; without one tryUpdate is over.
CheckUpdate(p) ==
  /\ pc[p] = "check"
  /\ update' = NoDB
  /\ up' = [up EXCEPT ![p] = update]
  /\ IF update = NoDB
     THEN mu' = Unlock(mu) /\ Goto(p, AfterTry(p))
     ELSE mu' = mu /\ Goto(p, "meta")
  /\ UNCHANGED <<smu, db, meta, secret, seen, state, using, named, latest>>

(* Mutant of applyUpdateLocked: it leaves the named queries as they were.  *)
ApplyKeepsMeta(p) ==
  /\ pc[p] = "meta"
  /\ Goto(p, "apply")
  /\ UNCHANGED <<smu, mu, db, meta, update, secret, seen, state, up, using,
                 named, latest>>

\* applyUpdateLocked, first half: the label and the named queries.
ApplyMeta(p) ==
  /\ pc[p] = "meta"
  /\ meta' = up[p]
  /\ Goto(p, "apply")
  /\ UNCHANGED <<smu, mu, db, update, secret, seen, state, up, using,
                 named, latest>>

\* applyUpdateLocked, second half: close the old database, install the new.
\* On a closed handle h.db.Close() is a nil dereference, and up is lost.
ApplyDB(p) ==
  /\ pc[p] = "apply"
  /\ mu' = Unlock(mu)
  /\ up' = [up EXCEPT ![p] = NoDB]
  /\ IF db = NoDB
     THEN Panic(p) /\ UNCHANGED <<db, state>>
     ELSE /\ state' = Close(state, db)
          /\ db' = up[p]
          /\ Goto(p, AfterTry(p))
          /\ UNCHANGED smu
  /\ UNCHANGED <<meta, update, secret, seen, using, named, latest>>
-----------------------------------------------------------------------------
(* swap.                                                                   *)

\* The handle is not busy: swap now, or panic if it is closed.
SwapLocks(p) ==
  /\ pc[p] = "swap"
  /\ CanTryLock(mu)
  /\ IF db = NoDB
     THEN Panic(p) /\ UNCHANGED <<mu, up, state, latest>>
     ELSE /\ mu' = WithWriter(mu, p)
          /\ up' = [up EXCEPT ![p] = p]
          /\ state' = Open(state, p)
          /\ latest' = p
          /\ Goto(p, "meta")
          /\ UNCHANGED smu
  /\ UNCHANGED <<db, meta, update, secret, seen, using, named>>

(* Mutant of swap: it waits for the handle (Lock in place of TryLock).     *)
SwapWaits(p) == pc[p] = "swap" /\ CanTryLock(mu) /\ SwapLocks(p)

SwapBusy(p) ==
  /\ pc[p] = "swap"
  /\ MayFailTryLock
  /\ up' = [up EXCEPT ![p] = p]
  /\ state' = Open(state, p)
  /\ latest' = p
  /\ Goto(p, "store")
  /\ UNCHANGED <<smu, mu, db, meta, update, secret, seen, using, named>>

(* Mutant of swap: it drops the update it displaces without closing it.    *)
SwapDropsOld(p) ==
  /\ pc[p] = "store"
  /\ update' = up[p]
  /\ up' = [up EXCEPT ![p] = NoDB]
  /\ Goto(p, "unlock")
  /\ UNCHANGED <<smu, mu, db, meta, secret, seen, state, using, named, latest>>

\* Leave the update for a later tryUpdate; close the one it displaces.
SwapStores(p) ==
  /\ pc[p] = "store"
  /\ update' = up[p]
  /\ state' = Close(state, update)
  /\ up' = [up EXCEPT ![p] = NoDB]
  /\ Goto(p, "unlock")
  /\ UNCHANGED <<smu, mu, db, meta, secret, seen, using, named, latest>>
-----------------------------------------------------------------------------
(* WithLock, Label, Named and close.                                       *)

ReadLock(p) ==
  /\ pc[p] = "rlock"
  /\ CanRLock(mu)
  /\ mu' = WithReader(mu, p)
  /\ Goto(p, "hold")
  /\ UNCHANGED <<smu, db, meta, update, secret, seen, state, up, using,
                 named, latest>>

(* Mutant of WithLock: it keeps the lock when it refuses.                  *)
RefuseKeepsLock(q) ==
  /\ pc[q] = "hold"
  /\ db = NoDB
  /\ Goto(q, "try")
  /\ UNCHANGED <<smu, mu, db, meta, update, secret, seen, state, up, using,
                 named, latest>>

\* WithLock refuses a closed handle; runQuery goes on to tryUpdate all the
\* same.
RefuseClosed(q) ==
  /\ pc[q] = "hold"
  /\ db = NoDB
  /\ mu' = RUnlock(mu, q)
  /\ Goto(q, "try")
  /\ UNCHANGED <<smu, db, meta, update, secret, seen, state, up, using,
                 named, latest>>

(* Mutant of WithLock: it gives the lock up before it calls the callback.  *)
EnterUnlocked(q) ==
  /\ pc[q] = "hold"
  /\ db # NoDB
  /\ using' = [using EXCEPT ![q] = db]
  /\ mu' = RUnlock(mu, q)
  /\ Goto(q, "run")
  /\ UNCHANGED <<smu, db, meta, update, secret, seen, state, up, named, latest>>

\* WithLock calls its callback with the database of the moment.
EnterCallback(q) ==
  /\ pc[q] = "hold"
  /\ db # NoDB
  /\ using' = [using EXCEPT ![q] = db]
  /\ Goto(q, "run")
  /\ UNCHANGED <<smu, mu, db, meta, update, secret, seen, state, up, named,
                 latest>>

(* Mutant of lookupNamedQuery: it calls h.Named(), a second RLock.         *)
LookupLocks(q) ==
  /\ pc[q] = "run"
  /\ CanRLock(mu)
  /\ named' = [named EXCEPT ![q] = meta]
  /\ Goto(q, "scan")
  /\ UNCHANGED <<smu, mu, db, meta, update, secret, seen, state, up, using,
                 latest>>

\* lookupNamedQuery reads h.named without taking the lock again.
LookupNamed(q) ==
  /\ pc[q] = "run"
  /\ named' = [named EXCEPT ![q] = meta]
  /\ Goto(q, "scan")
  /\ UNCHANGED <<smu, mu, db, meta, update, secret, seen, state, up, using,
                 latest>>

\* The query has run and its rows are read and closed: WithLock returns.
FinishQuery(q) ==
  /\ pc[q] = "scan"
  /\ mu' = RUnlock(mu, q)
  /\ using' = [using EXCEPT ![q] = NoDB]
  /\ named' = [named EXCEPT ![q] = NoDB]
  /\ Goto(q, "try")
  /\ UNCHANGED <<smu, db, meta, update, secret, seen, state, up, latest>>

\* Label and Named read one field under the read lock.
ReadLabel(v) ==
  /\ pc[v] = "hold"
  /\ mu' = RUnlock(mu, v)
  /\ Goto(v, "done")
  /\ UNCHANGED <<smu, db, meta, update, secret, seen, state, up, using,
                 named, latest>>

\* close, under h.mu.  A pending update is not looked at.
CloseHandle(c) ==
  /\ pc[c] = "drain"
  /\ up[c] = NoDB
  /\ Exclusive(mu, c)
  /\ state' = Close(state, db)
  /\ db' = NoDB
  /\ mu' = Unlock(mu)
  /\ Goto(c, "done")
  /\ UNCHANGED <<smu, meta, update, secret, seen, up, using, named, latest>>
-----------------------------------------------------------------------------
\* The secrets service activates a new version.
Rotate ==
  /\ secret < MaxSecret
  /\ secret' = secret + 1
  /\ UNCHANGED <<smu, mu, db, meta, update, seen, state, pc, up, using,
                 named, latest>>

Ended(p) == pc[p] \in {"done", "panic"}

\* Every call has returned.
Idle == (\A p \in Procs : Ended(p)) /\ UNCHANGED vars

\* What goroutine p does by itself, its query's stay in the database aside.
Step(p) ==
  \/ Begin(p) \/ GetCurrent(p) \/ GetOpened(p) \/ Announce(p) \/ Replace(p)
  \/ Release(p) \/ TryUpdateLocks(p) \/ TryUpdateBusy(p) \/ CheckUpdate(p)
  \/ ApplyMeta(p) \/ ApplyDB(p)
  \/ p \in Setters /\ (SwapLocks(p) \/ SwapBusy(p) \/ SwapStores(p))
  \/ p \in Queries \cup Viewers /\ ReadLock(p)
  \/ p \in Queries /\ (RefuseClosed(p) \/ EnterCallback(p) \/ LookupNamed(p))
  \/ p \in Viewers /\ ReadLabel(p)
  \/ p \in Closers /\ CloseHandle(p)

Next ==
  \/ \E p \in Procs : Step(p)
  \/ \E q \in Queries : FinishQuery(q)
  \/ Rotate
  \/ Idle

Spec == Init /\ [][Next]_vars

(* Fairness.  A goroutine that can run again and again does run.  Strong   *)
(* fairness matters at the two locks only, everywhere else p's next step   *)
(* stays enabled: sync.Mutex hands itself over in order once a waiter      *)
(* starves, and RWMutex lets the readers in that waited for a writer.      *)
(* A query may run for ever, and Close need not be called.                 *)
HungSpec ==
  /\ Spec
  /\ \A p \in Procs \ Closers : SF_vars(Step(p))
  /\ \A p \in Closers : SF_vars(pc[p] # "idle" /\ Step(p))

\* Close is called, and every query ends: the database answers, or
\* QueryTimeout stops it.
FairSpec ==
  /\ Spec
  /\ \A p \in Procs : SF_vars(Step(p))
  /\ \A q \in Queries : WF_vars(FinishQuery(q))
-----------------------------------------------------------------------------
(* Properties.                                                             *)

\* No query runs on a database that has been closed: while a goroutine is
\* inside WithLock's callback (options.go:401-417) the database it was given
\* is the handle's own and open, however swaps, rotations and Close race it.
InFlightOpen ==
  \A q \in Queries : pc[q] \in {"run", "scan"} =>
    using[q] # NoDB /\ using[q] = db /\ state[using[q]] = "open"

\* No database is closed twice, nor closed before it was opened, by any of
\* the five places that close one (tailsql.go:213, options.go:154, 157, 375,
\* 464, 484).
CloseOnce == \A d \in DBs : state[d] # "misused"

\* A named query is answered with the text that came with the database it
\* runs on (options.go:593-599): the lookup of lookupNamedQuery and the
\* database passed to the callback belong to one SetSource.  A database that a
\* rotated secret opened came with none, and has those it found.
NamedMatchesDB ==
  \A q \in Queries : pc[q] = "scan" =>
    using[q] \in 1..MaxSecret \/ named[q] = using[q]

\* A database is in the server's hands until it is closed: it is installed,
\* pending, or some goroutine is about to install it (tailsql.go:184-185).
\* Only applyUpdateLocked drops one, when it panics after Close.
NoLeak ==
  \A d \in DBs : state[d] = "open" =>
    \/ d \in {db, update}
    \/ \E p \in Procs : up[p] = d
    \/ \E p \in Procs : pc[p] = "panic" /\ \E c \in Closers : pc[c] = "done"

\* p waits for a lock: for s.mu, for the writer of h.mu before it, or for the
\* readers of h.mu.
Waits(p) ==
  \/ pc[p] = "idle" /\ smu # NoProc
  \/ pc[p] \in {"lock", "rlock"} /\ mu.writer # NoProc
  \/ pc[p] = "drain" /\ ~Exclusive(mu, p)

\* Calls never wait for one another in a circle, and no lock is left locked
\* behind a call that has returned, refused or panicked: where anybody waits,
\* someone runs or is in its database (options.go:351-489, tailsql.go:189-220,
\* 613-628).
NeverStuck ==
  (\E p \in Procs : ~Ended(p)) => \E p \in Procs : ~Ended(p) /\ ~Waits(p)

\* SetSource and getHandles keep every other request waiting while they have
\* s.mu.  Before the secret rotates they never wait for h.mu in there, however
\* long queries and Close have it; and before Close is called nobody waits for
\* the readers of h.mu, so that no reader waits behind a query that hangs
\* (options.go:337-340, 362, 401, 449).
HolderGoesOn ==
  secret = 0 =>
    /\ \A p \in Procs : smu = p => ~Waits(p)
    /\ (\A c \in Closers : pc[c] = "idle") => \A p \in Procs : pc[p] # "drain"

\* Every call returns if queries do (options.go:350-467, tailsql.go:189-220):
\* the locks and the TryLocks never leave goroutines waiting for one another.
Termination ==
  (\A q \in Queries : []<>(pc[q] # "scan")) =>
    <>[](\A p \in Procs : Ended(p) \/ (p \in Closers /\ pc[p] = "idle"))

\* While the secret does not rotate, neither a query that never returns nor a
\* Close that waits for it holds up SetSource and the requests for other
\* sources, all of which pass by the handle with s.mu locked
\* (tailsql.go:617-623, options.go:337-340, 449-467); and without Close the
\* query does not hold up page renders either.
NotHeldUp ==
  /\ [](secret = 0) => <>(\A p \in Setters \cup Others : Ended(p))
  /\ [](secret = 0 /\ \A c \in Closers : pc[c] = "idle") =>
       <>(\A v \in Viewers : Ended(v))

\* The handle implements a data source: using[q] is set while q is inside
\* WithLock's callback.
Source == INSTANCE DataSource WITH First <- 0, Users <- Queries, current <- db
ImplementsSource == Source!Spec
-----------------------------------------------------------------------------
(* What comments of the code say and it does not do.                       *)

\* tailsql.go:184-185: "If a database was already open for the given source,
\* its value is replaced".  Once no call is running and nothing is pending,
\* the source has the database that was set last.
LatestWins ==
  (\A p \in Procs : Ended(p)) /\ update = NoDB => db = latest

\* tailsql.go:211: "Close closes all the database handles held by s".  A
\* database that SetSource took before Close was called is closed.
CloseClosesAll ==
  \A s \in Setters :
    (pc[s] = "done" /\ \A c \in Closers : pc[c] = "idle")
      ~> state[s] = "closed"
=============================================================================
