# TLA+ models of tailsql

tailsql is a web service that runs SQL queries for the users of a tailnet on a set of data
sources. This directory holds TLA+ models of its server, its command, its Go client and its
browser UI, TLC configurations that check them on small instances, and proofs (TLAPS) of
their main safety properties.
Paths below are relative to `src/`; `tailsql.go`, `options.go`, `local.go`, `utils.go` and
`metrics.go` are in `server/tailsql/`.

## 1. The system

### Components, their state and operations

| component | state | operations | modelled in |
|---|---|---|---|
| **dbHandle**: one data source (`options.go:300-489`) | `mu` (RWMutex), `db`, `label`, `named`, `update` (atomic pending update); with a secret, a setec updater whose callback replaces `db` | `WithLock`, `lookupNamedQuery`, `Label`, `Named`, `swap`, `tryUpdate`, `checkUpdate`, `applyUpdateLocked`, `close`, the updater's callback (`options.go:140-165`) | `DBHandle` (code), `DataSource` (what it promises) |
| **localState**: the query log (`local.go`, `state-schema.sql`) | an SQLite file with tables `queries` and `raw_query_log`, `txmu`, `rw` and `ro` connections | `LogQuery`, `Query`, `newLocalState`; `Close` does nothing | `QueryLog` (code), `LogBook` (what it promises) |
| **Server**: requests (`tailsql.go:225-560`) | per request: the query, its source, its context, its rows; the error counters | `serveUI`, `checkAuth`, the handlers of `/`, `/csv`, `/json`, `/meta`, `queryContext`, `queryMeta`, `runQuery` (`utils.go`) | `Server` |
| **Server**: the registry (`tailsql.go:60-220, 600-640`) | `Server.mu`, `dbs` in the order they were added | `NewServer`, `SetSource`, `SetDB`, `getHandles`, `dbHandleForSource`, `Close` | `Server`; `NewServer` in `Startup`; `Server.mu` in `DBHandle` |
| **Options, startup** (`options.go:30-240, 500-615`) | the handles opened so far, the connections of the local state | `CheckSources`, `checkValid`, `openSources`, `openAndPing`, `localState`, `newLocalState` | `Startup` |
| **Authorizers** (`authorizer/`, `options.go:250-270`, `tailsql.go:575-609`) | none | `checkAuth`, `ACLGrants`, `MatchSource`, `Map.Authorize`, the default | `Access` |
| **Command** (`cmd/tailsql/tailsql.go`) | where main is, the listeners and what serves them, the goroutine that waits for a signal | `--init-config`, `runLocalService`, `runTailscaleService` | `Program` |
| **Output** (`utils.go`, `options.go:300-324`, `uirules/`) | the answer on its way: rendered, in the compressor, sent | `valueToString`, `uiOutput`, `csvOutput`, `CheckApply`, `writeResponse` | `Answer` |
| **Go client** (`client/tailsql/client.go`) | none | `Query`, `QueryJSON`, `callGET`; `ServerInfo` | `Answer`; its header in `Server` |
| **Browser UI**: history and saved queries (`static/script.js`) | two lists in local storage, shared by all tabs; what each tab has rendered | record, clear, save, delete, render | `QueryPanels` |
| **Query syntax check** (`utils.go:215-260`) | none | `checkQuerySyntax` | a guard of `Server` |
| **Browser page, sprite** | no state the properties are about | | not modelled |

### How they interact

* A request goes through `serveUI`: default source, `DefaultCheckQuery`, `checkAuth`, the
  handler of its route, `queryContext`. `queryContext` finds the handle (`Server.mu`),
  enters `WithLock` (the handle's read lock), runs the query in a transaction, reads the
  rows, and, before the lock is left, calls `LogQuery` (`txmu`, SQLite). After the lock it
  calls `tryUpdate`.
* Every request and every `SetSource` passes `getHandles` or `SetSource`'s own loop, which
  ask each handle's updater for a new secret **with `Server.mu` held**: a callback that waits
  for a handle's lock keeps every other request waiting.
* `SetSource` never waits for a query: if `TryLock` fails, its database becomes the pending
  update, which the last query to leave (`tryUpdate`) or the next `getHandles` installs.
* The command makes the `Options`, `NewServer` opens what they name, and a mux of the server
  is put on a listener. On the tailnet the local client of the node, which `checkAuth` asks who
  a caller is, has to be in the `Options` before that (they are passed by value).
* On a signal the local service stops serving, waits for its requests (`Shutdown`) and closes
  the server, while `ListenAndServe` has already returned and main ends the process.
* The rows of a query become lines of a page, CSV or JSON, which pass the compressor and a
  connection before the Go client takes them for a result.
* A browser sends its first query without the site access cookie, gets the cookie and a
  redirect to the same URL, and sends the query again (`tailsql.go:273-302`).
* All tabs of a browser share the two lists of local storage; each handler reads the list,
  changes it and writes it back, but the buttons it renders hold places in the list of then.

### What is hard

The list with the lines where each hazard bites is `hazards` in `PROJECT.json`. In short:

* **dbHandle**: five places close databases and three install them; swaps, rotations, `Close`
  and running queries interleave at every lock, `TryLock` and atomic. Correct: a query's
  database stays open while it runs, is closed exactly once, is not lost, and goes with the
  named queries it came with; nothing deadlocks; `SetSource` does not wait for queries.
* **localState**: a log entry takes up to three statements, each of which may fail, next to
  other transactions of this process and readers whose rows stay open, and the process may
  die between any two; when a request's context ends its transaction is rolled back by a goroutine
  that nobody waits for. Correct: every entry has its text, every text an entry, a call that
  reports success has its entry and one that reports an error has none, open rows hold nobody up.
* **Server**: authorization is asked about a source that is chosen before and looked up again
  after; cookie, redirect and second request; two row limits; a timeout that may end a query,
  its rows or its log entry; answers that fail half way; errors counted in six places. Correct: no
  query runs for somebody without access to that source, or without site access; what is answered
  and logged is true; each error counter counts the requests it is about.
* **Program, Startup, Access**: startup is many calls, each of which may fail; listeners replace one
  another; a signal comes at any time. Correct: a failed start leaves nothing half open, a started
  server has what its `Options` say; no query is admitted before or besides authorization or
  through the plain port; no request finds its database closed by the shutdown; a signal ends
  the program although queries hang.
* **Answer**: rules that pass, values that cannot be encoded, lines in a compressor, connections
  that break. Correct: what a client takes for a result is the result, redaction wins over formatting.
* **QueryPanels**: several tabs, stale lists.

## 2. Modules

    RWMutex                     sync.RWMutex as a value (Lock in two steps, RLock, TryLock)
    DataSource                  abstract: what a data source promises
      DataSourceProofs
    DBHandle                    EXTENDS RWMutex, refines DataSource
      DBHandleProofs, MCDBHandle
    LogBook                     abstract: what the query log promises
      LogBookProofs
    QueryLog                    EXTENDS RWMutex, refines LogBook
      QueryLogProofs, MCQueryLog
    Server                      requests, registry, log calls; uses handles as DataSource promises
      ServerProofs, MCServer
    Startup                     NewServer
    Access                      checkAuth and the authorizers, as operators
    Program                     EXTENDS Startup, Access: the command, its listeners, its requests
      ProgramProofs, MCProgram
    Answer                      a result on its way to the client
      AnswerProofs, MCAnswer
    QueryPanels                 history and saved queries of the browser's tabs
      QueryPanelsProofs, MCQueryPanels

Module by module (`map` in `PROJECT.json` gives the lines of every definition):

* **RWMutex.** A lock is the goroutine that holds or has announced the write side and the set of
  readers. `Lock` is two steps, because an announced writer already stops new readers: this is
  what makes a second `RLock` in one goroutine a deadlock. `TryLock` fails on a lock that anyone
  holds or awaits, and, as the Go memory model allows, may fail on a free one
  (`SpuriousTryLock`).
* **DBHandle.** One handle, its updater, and goroutines of four kinds: queries, viewers (pages
  that read the label), `SetSource` calls and `Server.Close`. Each runs one call; `pc` says where
  it is. A step is the code between two points at which another goroutine can see or change the
  handle: `checkUpdate`'s atomic swap, the label and the database of `applyUpdateLocked`, the
  callback's open-then-lock are steps of their own. Databases are named by where they come from
  (the `SetSource` call, the version of the secret), so that "which database does the source have"
  can be asked. A nil dereference (an update applied to a closed handle) is a panic that unwinds
  through the deferred unlocks, as it does under net/http. `state[d] = "misused"` records a
  close of what is not open.
* **DataSource.** At most one current database; it is replaced or shut only while no query uses
  it; every database is closed once. `DBHandle` implements it under the mapping `current <- db`,
  the same `state`, `using` set while a query is inside `WithLock`'s callback.
* **QueryLog.** `LogQuery` statement by statement (lock, begin, lookup, insert, entry, commit, the
  deferred rollback and unlock, each a step), `Query` and the rows it returns. `store` is the
  committed file; `tx[p]` and `view[r]` are the snapshots a transaction and open rows see; `wlock`
  is SQLite's own single-writer lock, which the first write of a transaction takes. `txn[p]` is the
  transaction as `database/sql` has it: `ContextEnds` makes it done for its call ("ending") at any
  time, and `RollbackLate` ends it in SQLite at any time after. The deferred `Rollback` then does
  nothing, so that `txmu` can be free while `wlock` is not; the same holds after a commit that
  fails. So `txmu` is not held for all of a write transaction, as `local.go:44` has it, and the next
  call may find SQLite busy, an error of `LogQuery`; `NoConflict` says that nothing worse comes of
  it. Every statement may fail. `Crash` ends the process at any step, between a
  commit and the return of its call too, and `Start` opens the same file again. SQLite itself is
  external: atomic commit (one that reports an error has not been made), snapshot reads, one writer.
* **LogBook.** A set of entries and readers that keep the log of one moment. A call adds its entry in
  one step (`Write`), and reports success only after it (`Succeed`) or an error only without it
  (`GiveUp`); a call lost with the process (`Lose`) may have left its entry. `QueryLog` implements
  it: the log is what view `query_log` joins from the two tables (`Joined`), and a caller knows of a
  call only how it ended (`Known`).
* **Server.** One request per client: an API client sends the header, a browser may hold the
  cookie and follows redirects. A query text is one of the classes the server tells apart (none,
  SQL, with a forbidden statement, too long, a named query that exists or not, a meta-query that
  exists or not); a row is its number. `dbs`, `closing` and `shut` are the registry:
  `SetSource` appends, `Close` takes the handles of the moment and closes each once no query uses
  it: that a handle waits so is what `DataSource` promises and `DBHandle` is shown to keep, and is
  taken from there. `LogQuery` is one step with two outcomes, which is what `QueryLog` shows of it:
  logged, or a failure that only the server's own log tells of. Of the queries that return without
  an error, all of a source other than the log are logged; a query cut off at the row limit returns
  `errTooManyRows` and a meta-query never comes to `LogQuery`, so neither is in the log
  (`tailsql.go:426, 455`), though both are answered with rows. `Expire` ends a request's context at
  any time. `BreakOff` is an answer that cannot be written to its end (the client is gone):
  `ui.Execute`, the encoder or the compressor tells `serveUI`. Where the package documentation
  (`tailsql.go:32-40`) asks more of a client than the handlers check, the model does what the
  handlers do.
* **Startup.** `made` is how far `NewServer` is, a step is one call that may fail. The database of
  the i-th source is the number i; the local state has the connections `"rw"` and `"ro"`. Of a
  connection string only its kind matters. `openSources` reaches its panic if validation let the wrong source through.
* **Access.** `checkAuth` and the four rules it may ask, on callers (login, tagged, grants) and
  names that are words of letters, since `MatchSource` compares prefixes.
* **Program.** `pc` is the main goroutine, `stopper` the goroutine of `runLocalService`; `serving`
  has which handler (the mux or the redirect) serves on which listener; a request arrives at one
  of them, is admitted as `Access` says, runs on the database of the first handle of its source
  and may never end. The Options it starts with are those the command can read from a file and
  those of a program that embeds the server (programmatic sources, a secret store, an authorizer),
  which serves until it ends and never stops the server. `Kill` ends the process at any step.
  Its `NewServer` is the whole of `Startup`.
* **Answer.** Values are classes of texts that the code treats differently (NULL, text that is
  JSON, a URL, bytes that are no text, a number JSON does not have). `Render` makes the lines,
  `WriteLine`, `Flush`, `FailLine` and `EndLines` are `writeResponse` with or without compression,
  `Break` cuts the connection and loses a part of what was sent, and the client reads line by line and
  decides what it has. A rule is its two regexps, as the texts they match, and what `Apply` returns.
* **QueryPanels.** `Pick(h, I)` has the elements of a list at the places in `I`: JavaScript's `filter`
  is `Pick`, written by places and not as the library's recursive `SelectSeq`, so that it can be
  proved about (`MCQueryPanels` has TLC compare the two). `past` and `saved` are local storage, `shown` what a tab has rendered. A
  handler is one step (JavaScript runs handlers to their end). `runs`, `made` and `gone` are
  history variables for the properties. The prompt of the save button
  comes before the handler reads the list.

## 3. Runs

Sizes on two workers; `server` takes two minutes, each other run one or less.

| run | checks | shows |
|---|---|---|
| `handle_safety` | `TypeOK InFlightOpen NamedMatchesDB NoLeak NeverStuck HolderGoesOn ImplementsSource` (128,631 states) | two queries, a viewer, two `SetSource` calls, a rotation and `Close` in every order: no query on a closed database, none lost or closed twice, nobody waits in a circle |
| `handle_live` | `Termination NotHeldUp` (25,850 states) | calls return if queries end; neither a query that hangs nor a `Close` that waits for it holds up `SetSource` and requests for other sources |
| `log` | `TypeOK TextsLogged LoggedOnce NoConflict NotHeldUp ImplementsBook` (231,828 states) | two `LogQuery` calls, two readers, failing statements and commits, contexts that end, late rollbacks, one crash at any point and restart: all of it is one log to which a call adds its entry in one step, before it reports success |
| `server` | `TypeOK AuthorizedRuns SiteAccess DefaultIsFirst RowsExact LogIsExact Counted Answered RedirectsOnce` (722,514 states) | any request, failures, timeouts, row counts at and around the limits, answers that break off, `SetSource` and `Close` meanwhile |
| `program` | `TypeOK AllOrNothing TailnetAuth GrantedOnly HTTPSOnly NeverClosedUnder StopsOnSignal` (619,901 states) | every kind of configuration, a failure at any call, two requests, a signal at any time, shutdown and exit |
| `answer` | `TypeOK NoSilentLoss CSVComplete RedactedStays RulesPass` (1,571,789 states) | any result of up to three values in each form, compressed or not, over a connection that may break |
| `panels` | `TypeOK HistoryIsRecent SavesKept` (216,145 states) | two tabs that run, save, delete and clear |
| `handle_latest`, `handle_leak`, `server_prefix`, `panels_delete`, `client_csv` | one property each, violated | the findings of section 6 |

Every property of a passing run has a mutant in `PROJECT.json`: a change of one definition as a bug
would make it (a second `RLock` in `lookupNamedQuery`, `swap` that drops the update it displaces,
the row limit tested after the row, the cookie set too late, ...), under which TLC finds the
property violated. Some properties are conjunctions of named parts (`LogIsExact`, `AllOrNothing`),
with a mutant for each part. `CloseOnce`, `EntriesResolve` and `PromiseKept` are not in a run
because a refinement that is implies them (`ImplementsSource`, `ImplementsBook`); they are
theorems.

### Bounds, and why they are enough

* `DBHandle`: two queries (one in flight while another takes the update in), two `SetSource` calls
  (so that a pending update can be displaced and can be overtaken), one rotation, one viewer (a
  reader that applies nothing), one `Close`. `MaxSecret` is how often the secret rotates. The
  safety properties are proved for any numbers.
  `handle_live` has one query and one `SetSource` call and a request for another source; every wait is between a reader, a writer and
  `Server.mu`, and all three kinds of writer are there.
* `QueryLog`: two calls over two texts meet with the same and with different texts; two readers
  keep rows open across both; `MaxCrashes = 1` crash at any step. Proved for any numbers.
* `Server`: one request. Requests share only the registry (changed by `SetSource` and `Close`,
  which are in the run), the handles (`DBHandle`), the log (`QueryLog`) and the counters, which a
  step adds to; the invariants, `Counted` too, are proved for any number of requests.
  Three sources: the first, the log, and one that `SetSource` adds; one caller may not use the
  first, the other not the log, so that a source mixed up with another shows. `UILimit = 1 < RowLimit = 2 < MaxRows = 3`
  has row counts below, at and above both limits.
* `Program`: two requests, one to hold up what the other meets. One source of every kind (all of
  `DBSpecs`, valid or not) alone or after a good one, so that a failure comes first and second;
  two sources whose names are prefixes of one another for the authorizers; callers who are
  unknown, logged in, tagged, with grants that match exactly, by prefix, or cannot be read. The
  invariants are proved for any Options, callers and requests.
* `Answer`: `MaxCells = 3` values in one or two columns, so that rows before, at and after one that
  fails exist; columns without a name, of the same name, and none. Proved for any result.
* `QueryPanels`: two tabs, a history of two for three queries (so that one falls off), up to
  `MaxLoads = 4` results and `MaxSaves = 3` saves; deletes, clears and renders are free.

### Fairness

* `DBHandle`, `QueryLog`: strong fairness of each goroutine's next step. It matters at the locks
  only: elsewhere a step, once enabled, stays enabled and weak fairness says the same. `sync.Mutex`
  hands itself to a waiter that starves; `RWMutex` lets waiting readers in when a writer leaves
  and stops new readers when a writer waits. `HungSpec` (run `handle_live`) assumes neither that a
  query ends nor that `Close` is called; `FairSpec` assumes both. In `QueryLog` open rows need not
  be closed, but the process is started again.
* `Server`: the server goes on with a request, the timeout (`QueryTimeout`, when set) runs out, and
  a database gives a query up when its context has ended; the database may otherwise never answer.

* `Program`: the main goroutine and the stopper go on (weak fairness of `Go` and `Shutdown`). The
  first covers calls to the node and to databases: that a ping answers is assumed, as
  `openAndPing` has no timeout. No request need ever end, nothing makes a signal come.
* `Answer` and `QueryPanels` have no liveness properties.

## 4. Proofs

All for every value of the constants, under the named assumptions of the modules (goroutines of
different kinds differ, "no ..." values are not among the values, limits are naturals and the UI's
is not above the server's).

* **DBHandleProofs.** `InFlightOpen`, `CloseOnce`, `NamedMatchesDB` and `NoLeak` are not inductive.
  `IInv` adds: who is at which line holds which side of the lock, and a writer past its wait is
  alone (`LockInv`); a goroutine carries a database between taking and placing it only
  (`CarryInv`); what is about to be opened was never used (`FreshInv`); every place that holds a
  database (`db`, `update`, each goroutine) holds an open one and no two hold the same (`OwnInv`);
  a query inside the callback runs on `db` (`UsingInv`). `CloseOnce` then follows because whoever
  closes a database is the one place that has it. `NamedInv` and `LeakInv` are proved on top of
  `IInv`. Theorems `TypeCorrect`, `QueriesOnOpen`, `ClosedOnce`, `NamedConsistent`, `NothingLost`.
* `NobodyStuck` (`NeverStuck`, freedom from deadlock) rests on `HolderInv`: `s.mu` agrees with where
  the goroutines are, whoever asks for `h.mu` with `s.mu` held runs the callback of a secret that
  has rotated, and whoever asks without it is `Close`. A wait for `s.mu` ends at its holder or
  at the writer of `h.mu` (`BehindServer`), one for the writer at the writer or at a reader
  (`BehindMutex`), and a reader asks for no lock. `HolderAlwaysGoesOn` is the safety half of
  `NotHeldUp`: before the secret rotates whoever has `s.mu` never waits for the handle.
* `HandleImplementsSource`: each step of the handle is a step of `DataSource` or a stutter; installing
  needs `Quiet`, which is `LockInv` with `UsingInv`, and an open database, which is `OwnInv`.
  `DataSourceProofs!SourceSafe` is what users of a data source get from that.
* **QueryLogProofs.** `LockInv`: `txmu` and SQLite's lock by line; whoever is inside its transaction
  has `txmu`, so every other transaction is over for its call, and SQLite's lock is with the caller
  or with a transaction whose rollback is under way. `StoreInv`: file and snapshots are whole;
  `EntryInv`: the entry is there after the commit and nowhere before; `TxInv`: what a transaction
  sees is the file of now plus its own rows, true because nobody else can commit meanwhile.
  Theorems `EntriesAlwaysResolve`, `TextsAlwaysLogged`, `LoggedExactlyOnce`,
  `CallsNeverConflict`, `TypeCorrect`.
* `LogImplementsBook`: most steps are stutters. A commit is a `Write` because the join by `id` is
  then the old one and the new entry (`JoinedIs`, `CommitWrites`): ids of different rows differ,
  and a transaction's rows are those of the file and its own (`TxInv`). A return is a `Succeed` or
  a `GiveUp`, whose guards are `EntryInv` seen through the view (`EntryKnown`); a crash is a `Lose`,
  wherever its calls are. `LogBookProofs!BookKept`, proved of the abstract log by itself, is carried
  over by an instance of its module: `LogKeepsPromise`.
* `RowsHoldNobody`: a wait for `txmu` ends at a call inside `LogQuery` or `Query` that runs. By
  `LockInv` the lock is with its writer, or with readers that are about to take their snapshot;
  rows that stay open hold SQLite's view of the file, not `txmu`.
* **ServerProofs.** `IInv` is `TypeOK` and, per request, what has been established by the time it is at
  a place: `AuthInv` (past `checkAuth` with a query it is granted), `AccessInv`, `SourceInv` (the
  default is the registry's first, which appending keeps), `TextInv`, `RowInv`, `ReplyInv`,
  `LogInv`. Lemma `Bystander`: a step of the registry or of another request leaves a request's
  part alone, so each action needs one lemma about its own request. Theorems `RunsAuthorized`,
  `RunsWithAccess`, `DefaultAlwaysFirst`, `RowsAlwaysExact`, `LogAlwaysTruthful`, `TypeCorrect`.

  `Counted` says of each error counter by itself that it is the number of requests that are a matter
  for it (`Charged`), which is read off the request, its answer and what its query returned, not off
  the steps that count. A step adds its request to a set of counters, and makes it a matter for
  exactly these (`Charges`, `CountStep`): this needs `FreshInv` (nothing was returned before an
  early answer), `AuthInv` (a 403 after `checkAuth` is not `checkAuth`'s) and `PassInv` (past the
  first checks of `serveUI`). Each counter then grows with its set (`Tally`, with the cardinality
  theorems of the library). Theorems `AlwaysCounted`, `CompleteAlwaysLogged`, and `LogAlwaysExact`
  of both halves.

  `RedirectedOnce`: `RedirectInv` says that an answer 302 was made for a browser that was sent
  without the cookie and does not have it, and with whom it goes on its way; so following it
  sets the cookie, and no step takes it back.
* **ProgramProofs.** `IInv` ties the parts together: `StartInv` (what is open by how far `NewServer`
  is), `MainInv` (what main has done by where it is), `RequestInv` (requests come only while a made
  server serves), `DrainInv` (once the stopper closes nothing is in flight and nothing serves),
  `AuthInv` (on the tailnet `auth` is set before a server is made; an admitted request passed
  `CheckAuth`), `PortInv`. Theorems `NeverPanics`, `FailureAlwaysLeaves`, `ReadyAlwaysWhole`,
  `NewServerAllOrNothing` (of the three), `TailnetAlwaysAuth`, `AlwaysGranted`, `AlwaysHTTPS`, `NeverClosed`, `TypeCorrect`.
* **AnswerProofs.** `SendInv`: while the handler writes, sent lines, buffered lines and lines still to
  be written are together the lines of the result, in order; at an end with status 200 all are
  sent. `ReadInv`: the client has a beginning of them, and all when it is content. Theorems `NothingLost`,
  `CSVAlwaysComplete`, `TypeCorrect`; `PasswordsStayHidden`, which assumes that the redaction
  rule is the first one; `RulesAlwaysPass`, for any list of rules that has the one for URLs, in any
  order: that there is a first rule among those that do not pass is well-foundedness (`MinOfNats`).
* **QueryPanelsProofs.** About `Pick`: the rank of a place in a set grows by one from a place to the
  next (`RankGrows` and the lemmas after it), so that what is picked from a list with an element in
  front, without one, or of a set of places cut at the front can be computed (`PickPlaces`,
  `PickFirst`, `PickAll`). The inductive invariant says both lists without `Pick`: the history by the
  places of its entries among the runs (`RecentBy`), which a new result shifts by one
  (`NewestGrows`, `RecordStep`); the saved queries as an increasing list of what was made and not
  taken (`SavedInv`, `SaveStep`, `DeleteStep`). Theorems `HistoryAlwaysRecent`,
  `SavesAlwaysKept`, `TypeCorrect`.

**Model-checked only.** Liveness (`Termination`, both `NotHeldUp`, `Answered`, `StopsOnSignal`): proofs
under fairness and about `ENABLED` are out of the prover's reach. Of `Termination` and `NotHeldUp` of the
handle the safety part is proved (`NobodyStuck`, `HolderAlwaysGoesOn`), as it is of `NotHeldUp` of the
log (`RowsHoldNobody`), and of `Answered` that a redirect comes once. Every invariant and action property of a run is proved.

## 5. Not modelled

* Text: SQL itself, the lexer of `checkQuerySyntax` (a class of query texts), HTML, quoting in CSV,
  number formats. The checks would be about character strings. (`valueToString` means to cut
  midnight off a time, `utils.go:122-128`, but the RFC 3339 text it makes has a `T` where the cut
  looks for a blank: `Answer` has one text for a time.)
* The request counters and latencies of `metrics.go` (the error counters are in `Server`), static
  files, the content of pages and of `/meta`, `ServerInfo` of the Go client, keyboard and animation
  in the browser, the debug pages that the command adds.
* The migration of an existing log file: `Startup` has it as a call that may fail.
* Databases, SQLite, setec, tsnet, signals and net/http are external: modelled by what the code
  relies on.
* Two handles at once: `DBHandle` has one and a request for another source (`Others`), which
  passes by with `Server.mu` locked.

## 6. Findings

Each is the counterexample of a run and quotes what the repository says (`findings` in
`PROJECT.json` has the texts).

1. `handle_latest`: `swap` on a free handle installs its database but leaves an older pending
   update, which the next `tryUpdate` installs over it (`options.go:449`).
2. `handle_leak`: `Close` does not close a pending update's database (`options.go:480`).
3. `server_prefix`: with `RoutePrefix`, the cookie redirect loses the prefix (`tailsql.go:280`).
4. `client_csv`: a row of one empty value or NULL is an empty line of CSV, which the client's
   reader skips: the row is missing from the result of `Query` (`client.go:100`, `utils.go:100`).
5. `panels_delete`: a delete button holds the place its query had when its tab rendered the list
   (`script.js:169-192`).

## 7. Plan

Done, in this order because a query on a closed database, a broken log and an unauthorized query
are the worst that can happen: `RWMutex`, `DataSource`, `DBHandle` with proofs and refinement;
`QueryLog` with proofs; `Server` with proofs; `QueryPanels`; `Startup`, `Access` and `Program` with
proofs; `Answer` with proofs; the refinement of `LogBook`; proofs about `QueryPanels`, deadlock,
redirects and the error counters.

Next:

1. A specification of serving without handles, cookies and scans that `Server` refines (who may
   run what, which answer is a result), with the refinement proved.
2. The registry with two handles and `Server.mu` in one module: the stall of one source by
   another's rotation.
3. The content of `/meta` and `ServerInfo`, with `Label` and `Named` read under two locks.
