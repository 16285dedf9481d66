------------------------------- MODULE Server -------------------------------
(***************************************************************************)
(* Requests to a tailsql server: Server.serveUI and what it calls          *)
(* (tailsql.go), from the browser or API client that sends a request to    *)
(* the answer it gets, on a server whose sources are added (SetSource) and *)
(* closed (Close) meanwhile.                                               *)
(*                                                                         *)
(* Every client has one request under way; a browser follows redirects.    *)
(* A step is the code up to the next point at which the registry, the      *)
(* database or the request's context matters.  A source's handle does what *)
(* module DataSource promises: it is not closed while a query uses it      *)
(* (shown for DBHandle).  A query text is named by what the server tells   *)
(* apart, a row by its number.                                             *)
(***************************************************************************)
EXTENDS Naturals, Sequences, FiniteSets

CONSTANTS
  Clients,      \* requests, each with the client that sends it
  Sources,      \* names of data sources
  NoSource,     \* the empty source name
  Opened,       \* the sources NewServer opens, in order
  LocalSource,  \* the source of the query log, or NoSource
  Rights,       \* the sets of sources authorize may accept for a caller
  RoutePrefix,  \* whether the routes have a prefix
  RowLimit,     \* maxRowsPerQuery
  UILimit,      \* maxUIRows
  MaxRows       \* bound: the rows a query may yield

ASSUME ClientsAssumption == IsFiniteSet(Clients)
ASSUME SourcesAssumption ==
  /\ NoSource \notin Sources
  /\ Opened \in Seq(Sources)
  /\ LocalSource \in Sources \cup {NoSource}
  /\ Rights \subseteq SUBSET (Sources \cup {NoSource})
ASSUME LimitsAssumption ==
  /\ RoutePrefix \in BOOLEAN
  /\ RowLimit \in Nat /\ UILimit \in Nat /\ MaxRows \in Nat
  /\ UILimit <= RowLimit

VARIABLES
  dbs,      \* Server.dbs: the source of each handle
  closing,  \* the handles Close has still to close
  shut,     \* the sources whose handle is closed
  header,   \* per client: it sends Sec-Tailsql (the Go client does)
  jar,      \* per client: it holds the site access cookie
  grants,   \* per client: the sources authorize accepts for its caller
  req,      \* per request: what is asked
  cookie,   \* per request: it carries the cookie
  routed,   \* per request: its URL is within the routes
  pc,       \* per request: what happens next
  source,   \* per request: q.Source
  text,     \* per request: q.Query
  live,     \* per request: its context has not ended
  total,    \* per request: the rows its query yields
  read,     \* per request: len(out.Rows)
  result,   \* per request: what queryContext returned
  logged,   \* per request: what LogQuery wrote for it
  reply,    \* per request: the answer
  counts    \* metrics: the error counters

registry == <<dbs, closing, shut>>
client == <<header, jar, grants, req, cookie, routed>>
scan == <<total, read>>
vars == <<registry, client, pc, source, text, live, scan, result, logged,
          reply, counts>>

Paths == {"/", "/csv", "/json", "/meta", "other"}

\* Classes of query text: none, SQL, SQL with a forbidden statement, SQL that
\* is too long, a named query the source has or has not, and meta-queries.
Texts == {"", "sql", "attach", "long", "named", "unnamed", "meta", "nometa"}

Asks == [get : BOOLEAN, path : Paths, src : Sources \cup {NoSource},
         text : Texts]

Codes == {"200", "302", "400", "401", "403", "404", "405", "500"}
Replies == [code : Codes \cup {"none"}, rows : 0..MaxRows, num : 0..MaxRows,
            more : BOOLEAN, torn : BOOLEAN]
Status(code) ==
  [code |-> code, rows |-> 0, num |-> 0, more |-> FALSE, torn |-> FALSE]
\* An answer that breaks off after n rows.
Torn(n) == [code |-> "200", rows |-> n, num |-> n, more |-> FALSE, torn |-> TRUE]
NoReply == Status("none")
Results == {"none", "ok", "tooMany", "400", "500"}
Entries == [src : Sources, text : Texts \cup {"stored"}]
NoEntry == [src |-> NoSource, text |-> "none"]
LogFailed == [src |-> NoSource, text |-> "failed"]
Counters == {"auth", "badRequest", "internal", "query"}

Places == {"new", "arrive", "auth", "dispatch", "query", "lock", "call",
           "scan", "end", "log", "reply", "answered", "done"}

TypeOK ==
  /\ dbs \in Seq(Sources)
  /\ closing \subseteq Sources
  /\ shut \subseteq Sources
  /\ header \in [Clients -> BOOLEAN]
  /\ jar \in [Clients -> BOOLEAN]
  /\ grants \in [Clients -> Rights]
  /\ req \in [Clients -> Asks]
  /\ cookie \in [Clients -> BOOLEAN]
  /\ routed \in [Clients -> BOOLEAN]
  /\ pc \in [Clients -> Places]
  /\ source \in [Clients -> Sources \cup {NoSource}]
  /\ text \in [Clients -> Texts \cup {"stored"}]
  /\ live \in [Clients -> BOOLEAN]
  /\ total \in [Clients -> 0..MaxRows]
  /\ read \in [Clients -> 0..MaxRows]
  /\ result \in [Clients -> Results]
  /\ logged \in [Clients -> Entries \cup {NoEntry, LogFailed}]
  /\ reply \in [Clients -> Replies]
  /\ counts \in [Counters -> Nat]

\* Any client: a Go client sets the header and keeps no cookie, a browser may
\* hold the cookie from an earlier visit.
Init ==
  /\ dbs = Opened
  /\ closing = {}
  /\ shut = {}
  /\ header \in [Clients -> BOOLEAN]
  /\ jar \in [Clients -> BOOLEAN]
  /\ \A c \in Clients : ~(header[c] /\ jar[c])
  /\ grants \in [Clients -> Rights]
  /\ req \in [Clients -> Asks]
  /\ cookie = jar
  /\ routed = [c \in Clients |-> TRUE]
  /\ pc = [c \in Clients |-> "new"]
  /\ source = [c \in Clients |-> NoSource]
  /\ text = [c \in Clients |-> ""]
  /\ live = [c \in Clients |-> TRUE]
  /\ total = [c \in Clients |-> 0]
  /\ read = [c \in Clients |-> 0]
  /\ result = [c \in Clients |-> "none"]
  /\ logged = [c \in Clients |-> NoEntry]
  /\ reply = [c \in Clients |-> NoReply]
  /\ counts = [k \in Counters |-> 0]
-----------------------------------------------------------------------------
(* Helpers.                                                                *)

Goto(c, l) == pc' = [pc EXCEPT ![c] = l]

Lesser(m, n) == IF m < n THEN m ELSE n

Known == {dbs[i] : i \in DOMAIN dbs}

\* Inside WithLock's callback, up to the end of the deferred LogQuery.
InCall(c) == pc[c] \in {"call", "scan", "end", "log"}

Add(K) == [k \in Counters |-> IF k \in K THEN counts[k] + 1 ELSE counts[k]]

\* The server answers; K are the counters it bumps.
Send(c, r, K) ==
  /\ reply' = [reply EXCEPT ![c] = r]
  /\ counts' = Add(K)
  /\ Goto(c, "answered")

(* Mutant of Blame: every failure is the client's.                         *)
BlameClient(code) == "badRequest"

\* The counter of an error status (serveUI's last switch).
Blame(code) == IF code = "500" THEN "internal" ELSE "badRequest"

\* queryContext returns res.
Return(c, res) ==
  /\ result' = [result EXCEPT ![c] = res]
  /\ Goto(c, "reply")
-----------------------------------------------------------------------------
(* serveUI up to the handler of the route.                                 *)

\* The client sends its request.
Request(c) ==
  /\ pc[c] = "new"
  /\ Goto(c, "arrive")
  /\ UNCHANGED <<registry, client, source, text, live, scan, result, logged,
                 reply, counts>>

\* Outside the routes there is nothing; wrong methods and queries that
\* DefaultCheckQuery rejects are answered and not counted.
Refuse(c) ==
  /\ pc[c] = "arrive"
  /\ \/ ~routed[c] /\ Send(c, Status("404"), {})
     \/ routed[c] /\ ~req[c].get /\ Send(c, Status("405"), {})
     \/ /\ routed[c] /\ req[c].get /\ req[c].text = "long"
        /\ Send(c, Status("400"), {})
  /\ UNCHANGED <<registry, client, source, text, live, scan, result, logged>>

\* A request without a source is for the first one.
Accept(c) ==
  /\ pc[c] = "arrive"
  /\ routed[c] /\ req[c].get /\ req[c].text # "long"
  /\ source' = [source EXCEPT ![c] =
       IF req[c].src = NoSource /\ dbs # <<>> THEN dbs[1] ELSE req[c].src]
  /\ text' = [text EXCEPT ![c] = req[c].text]
  /\ Goto(c, "auth")
  /\ UNCHANGED <<registry, client, live, scan, result, logged, reply, counts>>

\* checkAuth lets everyone see the UI and the metadata.
Exempt(c) == req[c].path \in {"/", "/meta"} /\ text[c] = ""

(* Mutant of checkAuth: it asks about the source named in the request.     *)
AllowAsked(c) ==
  /\ pc[c] = "auth"
  /\ Exempt(c) \/ req[c].src \in grants[c]
  /\ Goto(c, "dispatch")
  /\ UNCHANGED <<registry, client, source, text, live, scan, result, logged,
                 reply, counts>>

Allow(c) ==
  /\ pc[c] = "auth"
  /\ Exempt(c) \/ source[c] \in grants[c]
  /\ Goto(c, "dispatch")
  /\ UNCHANGED <<registry, client, source, text, live, scan, result, logged,
                 reply, counts>>

\* WhoIs fails or knows nobody, or authorize refuses.
Deny(c) ==
  /\ pc[c] = "auth"
  /\ \/ \E code \in {"500", "401"} : Send(c, Status(code), {"auth"})
     \/ /\ ~Exempt(c) /\ source[c] \notin grants[c]
        /\ Send(c, Status("403"), {"auth"})
  /\ UNCHANGED <<registry, client, source, text, live, scan, result, logged>>

\* What a handler wants of a request before it runs its query.
HasAccess(c) ==
  header[c] \/ (cookie[c] /\ req[c].path # "/json")

\* The UI gives a query without access the cookie and sends it back.
Redirect(c) ==
  /\ pc[c] = "dispatch"
  /\ req[c].path = "/" /\ text[c] # "" /\ ~HasAccess(c)
  /\ Send(c, Status("302"), {})
  /\ UNCHANGED <<registry, client, source, text, live, scan, result, logged>>

\* /csv and /json want a query and access; other paths are not found.
Reject(c) ==
  /\ pc[c] = "dispatch"
  /\ \/ /\ req[c].path \in {"/csv", "/json"} /\ text[c] = ""
        /\ Send(c, Status("400"), {"badRequest"})
     \/ /\ req[c].path \in {"/csv", "/json"} /\ text[c] # "" /\ ~HasAccess(c)
        /\ Send(c, Status("403"), {"badRequest"})
     \/ req[c].path = "other" /\ Send(c, Status("404"), {"badRequest"})
  /\ UNCHANGED <<registry, client, source, text, live, scan, result, logged>>

\* The UI without a query, and /meta whatever was asked.
Page(c) == (req[c].path = "/" /\ text[c] = "") \/ req[c].path = "/meta"

ServePage(c) ==
  /\ pc[c] = "dispatch" /\ Page(c)
  /\ Send(c, Status("200"), {})
  /\ UNCHANGED <<registry, client, source, text, live, scan, result, logged>>

(* Mutant of the handlers: /csv does not ask for access.                   *)
ServeQueryCSVOpen(c) ==
  /\ pc[c] = "dispatch"
  /\ req[c].path \in {"/", "/csv", "/json"} /\ text[c] # ""
  /\ HasAccess(c) \/ req[c].path = "/csv"
  /\ Goto(c, "query")
  /\ UNCHANGED <<registry, client, source, text, live, scan, result, logged,
                 reply, counts>>

ServeQuery(c) ==
  /\ pc[c] = "dispatch"
  /\ req[c].path \in {"/", "/csv", "/json"} /\ text[c] # "" /\ HasAccess(c)
  /\ Goto(c, "query")
  /\ UNCHANGED <<registry, client, source, text, live, scan, result, logged,
                 reply, counts>>
-----------------------------------------------------------------------------
(* queryContext.                                                           *)

\* meta:named lists every named query, meta:anything else is an error.
QueryMeta(c) ==
  /\ pc[c] = "query"
  /\ \/ /\ text[c] = "meta"
        /\ \E n \in 0..MaxRows : /\ total' = [total EXCEPT ![c] = n]
                                 /\ read' = [read EXCEPT ![c] = n]
        /\ Return(c, "ok")
     \/ text[c] = "nometa" /\ Return(c, "400") /\ UNCHANGED scan
  /\ UNCHANGED <<registry, client, source, text, live, logged, reply, counts>>

\* dbHandleForSource and checkQuerySyntax; the timeout starts.
FindHandle(c) ==
  /\ pc[c] = "query"
  /\ text[c] \notin {"meta", "nometa"}
  /\ IF source[c] \in Known /\ text[c] # "attach"
     THEN Goto(c, "lock") /\ UNCHANGED result
     ELSE Return(c, "400")
  /\ UNCHANGED <<registry, client, source, text, live, scan, logged, reply,
                 counts>>

\* WithLock: a closed handle is an error.
Enter(c) ==
  /\ pc[c] = "lock"
  /\ IF source[c] \in shut THEN Return(c, "500")
     ELSE Goto(c, "call") /\ UNCHANGED result
  /\ UNCHANGED <<registry, client, source, text, live, scan, logged, reply,
                 counts>>

\* The timeout runs out, or the client goes away.
Expire(c) ==
  /\ pc[c] = "lock" \/ InCall(c)
  /\ live[c]
  /\ live' = [live EXCEPT ![c] = FALSE]
  /\ UNCHANGED <<registry, client, pc, source, text, scan, result, logged,
                 reply, counts>>

\* A query by name becomes the query it stands for.
Resolve(c) ==
  /\ pc[c] = "call"
  /\ text[c] \in {"named", "unnamed"}
  /\ IF text[c] = "named"
     THEN text' = [text EXCEPT ![c] = "stored"] /\ UNCHANGED <<pc, result>>
     ELSE Return(c, "400") /\ UNCHANGED text
  /\ UNCHANGED <<registry, client, source, live, scan, logged, reply, counts>>

\* db.Query: an error, or rows.
RunQuery(c) ==
  /\ pc[c] = "call"
  /\ text[c] \notin {"named", "unnamed"}
  /\ \/ Return(c, "500") /\ UNCHANGED scan
     \/ /\ \E n \in 0..MaxRows : total' = [total EXCEPT ![c] = n]
        /\ read' = [read EXCEPT ![c] = 0]
        /\ Goto(c, "scan")
        /\ UNCHANGED result
  /\ UNCHANGED <<registry, client, source, text, live, logged, reply, counts>>

(* Mutant of the row limit: it looks for the limit after reading a row.    *)
NextRowLate(c) ==
  /\ pc[c] = "scan"
  /\ read[c] < total[c]
  /\ live[c]
  /\ read' = [read EXCEPT ![c] = @ + 1]
  /\ IF read[c] + 1 = RowLimit
     THEN result' = [result EXCEPT ![c] = "tooMany"] /\ Goto(c, "end")
     ELSE UNCHANGED <<result, pc>>
  /\ UNCHANGED <<registry, client, source, text, live, total, logged, reply,
                 counts>>

\* rows.Next() finds a row: one too many, or one to keep.
NextRow(c) ==
  /\ pc[c] = "scan"
  /\ read[c] < total[c]
  /\ \/ /\ read[c] = RowLimit
        /\ result' = [result EXCEPT ![c] = "tooMany"]
        /\ Goto(c, "end")
        /\ UNCHANGED read
     \/ /\ read[c] # RowLimit
        /\ live[c]
        /\ read' = [read EXCEPT ![c] = @ + 1]
        /\ UNCHANGED <<pc, result>>
  /\ UNCHANGED <<registry, client, source, text, live, total, logged, reply,
                 counts>>

LastRow(c) ==
  /\ pc[c] = "scan"
  /\ read[c] = total[c]
  /\ result' = [result EXCEPT ![c] = "ok"]
  /\ Goto(c, "end")
  /\ UNCHANGED <<registry, client, source, text, live, scan, logged, reply,
                 counts>>

\* The context has ended, or rows.Scan or rows.Err reports an error.
FailScan(c) ==
  /\ pc[c] \in {"scan", "end"}
  /\ Return(c, "500")
  /\ UNCHANGED <<registry, client, source, text, live, scan, logged, reply,
                 counts>>

(* Mutant of EndRows: it takes the first source for the log.               *)
EndRowsFirst(c) ==
  /\ pc[c] = "end"
  /\ Goto(c, IF result[c] = "ok" /\ source[c] # dbs[1] THEN "log" ELSE "reply")
  /\ UNCHANGED <<registry, client, source, text, live, scan, result, logged,
                 reply, counts>>

\* The callback returns; queries that went well are logged, those of the log
\* itself are not.
EndRows(c) ==
  /\ pc[c] = "end"
  /\ Goto(c, IF result[c] = "ok" /\ source[c] # LocalSource THEN "log" ELSE "reply")
  /\ UNCHANGED <<registry, client, source, text, live, scan, result, logged,
                 reply, counts>>

(* Mutant of LogQuery's call: it logs the query as it was asked.           *)
LogAsked(c) ==
  /\ pc[c] = "log"
  /\ logged' = [logged EXCEPT ![c] = [src |-> source[c], text |-> req[c].text]]
  /\ Goto(c, "reply")
  /\ UNCHANGED <<registry, client, source, text, live, scan, result, reply,
                 counts>>

\* LogQuery (module QueryLog), with the context of the query: an error is
\* only a warning.
LogQuery(c) ==
  /\ pc[c] = "log"
  /\ \/ /\ live[c]
        /\ logged' = [logged EXCEPT ![c] = [src |-> source[c], text |-> text[c]]]
     \/ logged' = [logged EXCEPT ![c] = LogFailed]
  /\ Goto(c, "reply")
  /\ UNCHANGED <<registry, client, source, text, live, scan, result, reply,
                 counts>>
-----------------------------------------------------------------------------
(* The answer.                                                             *)

(* Mutant of the handlers: errTooManyRows is an error like any other.      *)
FailedTooMany(c) == result[c] # "ok"

Failed(c) == result[c] \in {"400", "500"}

\* A failed query: a page that says so, or the error's status.
AnswerError(c) ==
  /\ pc[c] = "reply" /\ Failed(c)
  /\ IF req[c].path = "/" THEN Send(c, Status("200"), {"query"})
     ELSE Send(c, Status(result[c]), {"query", Blame(result[c])})
  /\ UNCHANGED <<registry, client, source, text, live, scan, result, logged>>

\* The rows an answer has: the UI shows a part of them.
Shown(c) ==
  IF Failed(c) THEN 0
  ELSE IF req[c].path = "/" THEN Lesser(read[c], UILimit) ELSE read[c]

\* Rows; the UI says whether there are more.
AnswerRows(c) ==
  /\ pc[c] = "reply" /\ ~Failed(c)
  /\ Send(c, [code |-> "200", rows |-> Shown(c), num |-> read[c],
              more |-> req[c].path = "/" /\ result[c] = "tooMany",
              torn |-> FALSE], {})
  /\ UNCHANGED <<registry, client, source, text, live, scan, result, logged>>

\* A row that JSON cannot encode: an error status, or, once rows are written,
\* an error message after them.
AnswerTorn(c) ==
  /\ pc[c] = "reply" /\ ~Failed(c) /\ req[c].path = "/json"
  /\ \E n \in 0..MaxRows :
       /\ n < read[c]
       /\ Send(c, IF n = 0 THEN Status("500") ELSE Torn(n), {"internal"})
  /\ UNCHANGED <<registry, client, source, text, live, scan, result, logged>>

\* Writing a page or rows fails (the client is gone): ui.Execute, the encoder
\* or the compressor tells serveUI, after any part of the answer.  What
\* http.Error writes for a failed query may get lost as well: nobody is told.
BreakOff(c) ==
  /\ \/ pc[c] = "dispatch" /\ Page(c)
     \/ pc[c] = "reply" /\ (Failed(c) => req[c].path = "/")
  /\ \E n \in 0..Shown(c) :
       Send(c, Torn(n), {"internal"} \cup (IF Failed(c) THEN {"query"} ELSE {}))
  /\ UNCHANGED <<registry, client, source, text, live, scan, result, logged>>

(* Mutant of the UI handler: the cookie is set once access is checked.     *)
SetsCookieLate(c) == req[c].path = "/" /\ reply[c].code = "200"

\* serveUIInternal sets the cookie first of all.  A browser that gets nothing of
\* an answer gets no cookie, but has no further request to send it with.
SetsCookie(c) == req[c].path = "/" /\ reply[c].code \in {"200", "302"}

\* The answer reaches the client.  A browser keeps the cookie and follows a
\* redirect to the URL as the handler saw it, which has lost the prefix.
Deliver(c) ==
  /\ pc[c] = "answered"
  /\ jar' = [jar EXCEPT ![c] = @ \/ (SetsCookie(c) /\ ~header[c])]
  /\ IF reply[c].code = "302"
     THEN /\ cookie' = [cookie EXCEPT ![c] = jar'[c]]
          /\ routed' = [routed EXCEPT ![c] = ~RoutePrefix]
          /\ reply' = [reply EXCEPT ![c] = NoReply]
          /\ Goto(c, "arrive")
     ELSE Goto(c, "done") /\ UNCHANGED <<cookie, routed, reply>>
  /\ UNCHANGED <<registry, header, grants, req, source, text, live, scan, result,
                 logged, counts>>
-----------------------------------------------------------------------------
(* The registry.                                                           *)

(* Mutant of SetSource: a new source comes first.                          *)
SetSourceFirst(s) ==
  /\ dbs' = IF s \in Known THEN dbs ELSE <<s>> \o dbs
  /\ UNCHANGED <<closing, shut, client, pc, source, text, live, scan, result,
                 logged, reply, counts>>

\* SetSource: a new source comes last, a known one swaps its database
\* (module DBHandle).
SetSource(s) ==
  /\ dbs' = IF s \in Known THEN dbs ELSE Append(dbs, s)
  /\ UNCHANGED <<closing, shut, client, pc, source, text, live, scan, result,
                 logged, reply, counts>>

\* Close: the handles of the moment.
Close ==
  /\ closing = {}
  /\ closing' = Known
  /\ UNCHANGED <<dbs, shut, client, pc, source, text, live, scan, result,
                 logged, reply, counts>>

\* Close of one handle: it waits until no query uses it.
CloseHandle(s) ==
  /\ s \in closing
  /\ \A c \in Clients : InCall(c) => source[c] # s
  /\ shut' = shut \cup {s}
  /\ closing' = closing \ {s}
  /\ UNCHANGED <<dbs, client, pc, source, text, live, scan, result, logged,
                 reply, counts>>
-----------------------------------------------------------------------------
\* What the server does for a request, and the database.
Serve(c) ==
  \/ Refuse(c) \/ Accept(c) \/ Allow(c) \/ Deny(c) \/ Redirect(c) \/ Reject(c)
  \/ ServePage(c) \/ ServeQuery(c) \/ QueryMeta(c) \/ FindHandle(c) \/ Enter(c)
  \/ Resolve(c) \/ EndRows(c) \/ LogQuery(c) \/ AnswerError(c) \/ AnswerRows(c)
  \/ AnswerTorn(c) \/ BreakOff(c) \/ Deliver(c)
Database(c) == RunQuery(c) \/ NextRow(c) \/ LastRow(c) \/ FailScan(c)

Next ==
  \/ \E c \in Clients : Request(c) \/ Serve(c) \/ Database(c) \/ Expire(c)
  \/ \E s \in Sources : SetSource(s) \/ CloseHandle(s)
  \/ Close

Spec == Init /\ [][Next]_vars

(* Fairness.  The server goes on with a request; QueryTimeout is set, and  *)
(* runs out; a database whose query's context has ended gives the query    *)
(* up, but may otherwise say nothing for ever.                             *)
FairSpec ==
  /\ Spec
  /\ \A c \in Clients :
       /\ WF_vars(Serve(c))
       /\ WF_vars(Expire(c))
       /\ WF_vars(~live[c] /\ Database(c))
-----------------------------------------------------------------------------
(* Properties.                                                             *)

\* The request's query has been let through to a database or to queryMeta.
Ran(c) == InCall(c) \/ result[c] # "none"

\* No query runs, and no meta-query is answered, for a caller that authorize
\* did not accept for the very source it runs on: the default source, the
\* registry and the lookup (tailsql.go:246-253, 426, 604) agree however
\* SetSource races the request.
AuthorizedRuns ==
  \A c \in Clients : Ran(c) => source[c] \in grants[c]

\* A query only runs for an API client or for a browser that was given the
\* site access cookie before it sent that query, and never on /json for a
\* browser (tailsql.go:32-40, 298-302, 341, 366), redirects included.
SiteAccess ==
  \A c \in Clients : Ran(c) =>
    header[c] \/ (jar[c] /\ cookie[c] /\ req[c].path # "/json")

\* A query without a source runs on the first source there is, the one a
\* page would offer, though sources are added meanwhile (tailsql.go:16-18,
\* 246-251, 625-626).
DefaultIsFirst ==
  \A c \in Clients : InCall(c) /\ req[c].src = NoSource =>
    dbs # <<>> /\ source[c] = dbs[1]

\* A client that takes an answer for a result (client.go:69-82, 130; the page
\* of the UI) has all rows of the query up to the limits, and the UI says
\* "more" exactly when the query had more (tailsql.go:325-329, 405-414,
\* 485-489), whatever failed on the way.
RowsExact ==
  \A c \in Clients :
    LET r == reply[c]
        want == IF text[c] = "meta" THEN total[c] ELSE Lesser(total[c], RowLimit)
    IN  pc[c] = "done" /\ r.code = "200" /\ ~r.torn /\ result[c] \in {"ok", "tooMany"}
        => /\ r.num = want
           /\ r.rows = IF req[c].path = "/" THEN Lesser(want, UILimit) ELSE want
           /\ req[c].path = "/" => (r.more <=> want < total[c])

\* What the log says of a request is true: the text is the one the database
\* ran, by name or not, on that source, to its last row, and the source is
\* not the log (tailsql.go:448-461, 470).
LogTruthful ==
  \A c \in Clients : logged[c] \in Entries =>
    /\ logged[c] = [src |-> source[c],
                    text |-> IF req[c].text = "named" THEN "stored" ELSE req[c].text]
    /\ source[c] # LocalSource
    /\ result[c] = "ok" /\ read[c] = total[c]

\* Every query of a source other than the log that was read to its last row
\* is in the log before its answer is sent, unless LogQuery failed, whatever
\* way the answer then goes (tailsql.go:453-461).  Queries cut off by the row
\* limit are not (tailsql.go:455, 508).
CompleteIsLogged ==
  \A c \in Clients :
    /\ pc[c] \in {"reply", "answered", "done"} /\ result[c] = "ok"
    /\ text[c] # "meta" /\ source[c] # LocalSource
    => logged[c] # NoEntry

\* The log has exactly the queries that it should have: what it has is true,
\* and no query that was answered in full is missing (tailsql.go:448-470).
LogIsExact == LogTruthful /\ CompleteIsLogged

\* The request is past the first checks of serveUI, which do not count.
Admitted(c) == routed[c] /\ req[c].get /\ req[c].text # "long"

\* Answer r to the request is a matter for error counter k.
Due(c, r, k) ==
  LET refused == source[c] \notin grants[c]
  IN  CASE k = "auth"       -> \/ r.code = "401"
                               \/ r.code = "403" /\ refused
                               \/ r.code = "500" /\ result[c] = "none"
        [] k = "badRequest" -> \/ r.code \in {"400", "404"}
                               \/ r.code = "403" /\ ~refused
        [] k = "internal"   -> r.torn \/ (r.code = "500" /\ result[c] # "none")
        [] k = "query"      -> result[c] \in {"400", "500"}

Charged(c, k) ==
  pc[c] \in {"answered", "done"} /\ Admitted(c) /\ Due(c, reply[c], k)

\* Each error counter has counted each request that is a matter for it once,
\* and no other: refused or unknown callers are auth errors, wrong requests
\* and unknown sources bad requests, failing databases and answers that break
\* off internal errors, and a failed query is a query error besides, also
\* where the answer is a page (tailsql.go:254, 270-288, 316, 349, 372).
Counted ==
  \A k \in Counters : counts[k] = Cardinality({c \in Clients : Charged(c, k)})

\* The redirect with which the UI hands out the cookie comes once: the browser
\* that follows it has the cookie, and keeps it, so that it is not sent back
\* for ever (tailsql.go:276-302).
RedirectsOnce ==
  [][\A c \in Clients :
       /\ cookie[c] => cookie'[c]
       /\ reply[c].code = "302" /\ pc[c] = "answered" /\ pc'[c] = "arrive"
          => ~cookie[c] /\ cookie'[c]]_vars

\* A request is answered although the database never does, the timeout being
\* set (tailsql.go:438-442), and a browser's redirects end (tailsql.go:294-302).
Answered == \A c \in Clients : pc[c] = "arrive" ~> pc[c] = "done"

(* What comments of the code say and it does not do.                       *)

\* options.go:59-60: "If set, prepend this prefix to each HTTP route".  The
\* redirect of the UI stays within the routes (tailsql.go:280).
StaysRouted == \A c \in Clients : routed[c]
=============================================================================
