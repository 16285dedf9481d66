------------------------------- MODULE Program -------------------------------
(***************************************************************************)
(* The command tailsql (cmd/tailsql), from its arguments to its exit: it   *)
(* writes an example configuration, or serves on a local port, or on a     *)
(* tailnet; and, for comparison, a program that embeds the server with     *)
(* Options of its own.                                                     *)
(*                                                                         *)
(* The processes are the main goroutine, the goroutine of runLocalService  *)
(* that waits for a signal, the requests, and whoever sends the signal.    *)
(* A request stands for all the server does for it (module Server); it is  *)
(* admitted as module Access says, and its query may never end.            *)
(***************************************************************************)
EXTENDS Startup, Access

CONSTANTS Requests,  \* requests
          Asks       \* what a request may ask, and for whom

\* The Options and flags of a run.
Options ==
  [sources : Seq(DBSpecs), state : BOOLEAN, self : Names \cup {NoName},
   store : BOOLEAN, run : {"init", "local", "tailnet", "embedded"},
   https : BOOLEAN, lc : BOOLEAN, authorize : {"default", "acl", "map"}]

\* The command sets no store, authorizer or programmatic source, and connects
\* a local client itself.
FromFile(o) ==
  /\ ~o.store /\ ~o.lc /\ o.authorize = "default"
  /\ \A i \in DOMAIN o.sources : ~o.sources[i].db

ASSUME ConfigsAssumption ==
  /\ Configs \subseteq Options
  /\ \A o \in Configs : o.run # "embedded" => FromFile(o)
ASSUME AsksAssumption ==
  /\ Asks # {}
  /\ \A q \in Asks : q.src \in Seq(STRING) /\ q.who.grants \subseteq Seq(STRING)

VARIABLES
  pc,       \* the main goroutine
  lc,       \* opts.LocalClient is set
  auth,     \* Server.lc is set
  lst,      \* the listener that will get the mux
  serving,  \* the handlers on each listener, as pairs
  stopper,  \* the goroutine that waits for the signal
  signal,   \* SIGINT or SIGTERM has come
  file,     \* the configuration file of --init-config
  req,      \* per request: where it is
  ask,      \* per request: what it asks
  via       \* per request: the listener it came through

process == <<pc, lc, auth, lst, serving>>
requests == <<req, ask, via>>
vars == <<opts, server, process, stopper, signal, file, requests>>

Listeners == {"localhost", "80", "443"}
Exits == {"exit 0", "exit 1", "killed"}

\* Among the types: --init-config leaves a valid file or none
\* (tailsql.go:230-237).
TypeOK ==
  /\ ServerTypeOK
  /\ opts \in Configs
  /\ pc \in Exits \cup {"main", "verify", "write", "client", "up", "new",
                        "listen", "bind", "cert", "tls", "mux", "serve"}
  /\ lc \in BOOLEAN /\ auth \in BOOLEAN /\ signal \in BOOLEAN
  /\ lst \in Listeners
  /\ serving \subseteq Listeners \X {"mux", "redirect"}
  /\ stopper \in {"none", "wait", "drain", "close", "ended"}
  /\ file \in {"none", "sample"}
  /\ req \in [Requests -> {"none", "redirected", "refused", "admitted",
                           "running", "answered", "closed", "cut"}]
  /\ ask \in [Requests -> Asks]
  /\ via \in [Requests -> Listeners]

Init ==
  /\ opts \in Configs
  /\ ServerInit
  /\ pc = "main" /\ lc = opts.lc /\ auth = FALSE
  /\ lst = IF opts.run = "tailnet" THEN "80" ELSE "localhost"
  /\ serving = {} /\ stopper = "none" /\ signal = FALSE /\ file = "none"
  /\ req = [r \in Requests |-> "none"]
  /\ ask = [r \in Requests |-> CHOOSE q \in Asks : TRUE]
  /\ via = [r \in Requests |-> lst]
-----------------------------------------------------------------------------
(* The main goroutine.                                                     *)

Alive == pc \notin Exits

Goto(l) == pc' = l

\* The process ends, and with it all goroutines and connections.
Exit(how) ==
  /\ Goto(how)
  /\ serving' = {}
  /\ req' = [r \in Requests |->
               IF req[r] \in {"admitted", "running"} THEN "cut" ELSE req[r]]
  /\ UNCHANGED <<lc, auth, lst, ask, via>>

\* NewServer is called, with the Options of the moment.
Call == Goto("new") /\ Stage("check") /\ auth' = lc

\* main: a usage error, or a configuration that cannot be read or parsed;
\* otherwise one of the three cases.
Main ==
  /\ pc = "main"
  /\ \/ Exit("exit 1") /\ UNCHANGED made
     \/ /\ opts.run \in {"local", "embedded"} /\ Call
        /\ UNCHANGED <<lc, lst, serving, requests>>
     \/ /\ opts.run \in {"init", "tailnet"}
        /\ Goto(IF opts.run = "init" THEN "verify" ELSE "client")
        /\ UNCHANGED <<made, lc, auth, lst, serving, requests>>
  /\ UNCHANGED <<opts, srcs, open, log, stopper, signal, file>>

(* Mutant of Verify: the sample is written as it was rendered.             *)
VerifyLater ==
  /\ pc = "verify"
  /\ \E sample \in {"sample", "broken"} : file' = sample
  /\ Goto("write")
  /\ UNCHANGED <<opts, server, lc, auth, lst, serving, stopper, signal, requests>>

\* generateBasicConfig renders the sample and parses it again.
Verify ==
  /\ pc = "verify"
  /\ \/ Goto("write") /\ UNCHANGED <<lc, auth, lst, serving, requests>>
     \/ Exit("exit 1")
  /\ UNCHANGED <<opts, server, stopper, signal, file>>

\* atomicfile.WriteFile: all of the sample, or an error.
Write ==
  /\ pc = "write"
  /\ \/ file' = "sample" /\ Exit("exit 0")
     \/ UNCHANGED file /\ Exit("exit 1")
  /\ UNCHANGED <<opts, server, stopper, signal>>

(* Mutant of LocalClient: the client is kept, the Options get it later.    *)
LocalClientLate ==
  /\ pc = "client"
  /\ Goto("up")
  /\ UNCHANGED <<opts, server, lc, auth, lst, serving, stopper, signal, file,
                 requests>>

LocalClient ==
  /\ pc = "client"
  /\ \/ Goto("up") /\ lc' = TRUE /\ UNCHANGED <<auth, lst, serving, requests>>
     \/ Exit("exit 1")
  /\ UNCHANGED <<opts, server, stopper, signal, file>>

\* The node comes up; a signal may interrupt that.
Up ==
  /\ pc = "up"
  /\ \/ Call /\ UNCHANGED <<lc, lst, serving, requests>>
     \/ Exit("exit 1") /\ UNCHANGED made
  /\ UNCHANGED <<opts, srcs, open, log, stopper, signal, file>>

\* NewServer works on whatever signal comes.
MakeServer ==
  /\ pc = "new"
  /\ NewServer
  /\ UNCHANGED <<opts, process, stopper, signal, file, requests>>

\* runLocalService starts the stopper.
Made ==
  /\ pc = "new" /\ made \in {"ready", "failed", "panic"}
  /\ IF made = "ready"
     THEN /\ Goto(IF opts.run = "tailnet" THEN "listen" ELSE "bind")
          /\ stopper' = IF opts.run = "local" THEN "wait" ELSE "none"
          /\ UNCHANGED <<lc, auth, lst, serving, requests>>
     ELSE Exit("exit 1") /\ UNCHANGED stopper
  /\ UNCHANGED <<opts, server, signal, file>>

\* ListenAndServe: not once Shutdown was called.
ListenAndServe ==
  /\ pc = "bind"
  /\ \/ /\ stopper \in {"none", "wait"}
        /\ serving' = {<<lst, "mux">>} /\ Goto("serve")
        /\ UNCHANGED <<lc, auth, lst, requests>>
     \/ stopper \in {"none", "wait"} /\ Exit("exit 1")
     \/ stopper \notin {"none", "wait"} /\ Exit("exit 0")
  /\ UNCHANGED <<opts, server, stopper, signal, file>>

Listen80 ==
  /\ pc = "listen"
  /\ \/ /\ Goto(IF opts.https THEN "cert" ELSE "mux")
        /\ UNCHANGED <<lc, auth, lst, serving, requests>>
     \/ Exit("exit 1")
  /\ UNCHANGED <<opts, server, stopper, signal, file>>

\* The redirect from port 80 needs a domain to redirect to.
RedirectHTTP ==
  /\ pc = "cert"
  /\ \/ /\ serving' = {<<lst, "redirect">>} /\ Goto("tls")
        /\ UNCHANGED <<lc, auth, lst, requests>>
     \/ Exit("exit 1")
  /\ UNCHANGED <<opts, server, stopper, signal, file>>

(* Mutant of ListenTLS: the new listener is a variable of the block.       *)
ListenTLSShadowed ==
  /\ pc = "tls"
  /\ Goto("mux")
  /\ UNCHANGED <<opts, server, lc, auth, lst, serving, stopper, signal, file,
                 requests>>

ListenTLS ==
  /\ pc = "tls"
  /\ \/ /\ lst' = "443" /\ Goto("mux")
        /\ UNCHANGED <<lc, auth, serving, requests>>
     \/ Exit("exit 1")
  /\ UNCHANGED <<opts, server, stopper, signal, file>>

ServeMux ==
  /\ pc = "mux"
  /\ serving' = serving \cup {<<lst, "mux">>}
  /\ Goto("serve")
  /\ UNCHANGED <<opts, server, lc, auth, lst, stopper, signal, file, requests>>

(* Mutant of Return: main waits for the goroutine that closes the server.  *)
ReturnAfterClose ==
  /\ pc = "serve" /\ signal
  /\ opts.run = "local" => stopper = "ended"
  /\ Exit("exit 0")
  /\ UNCHANGED <<opts, server, stopper, signal, file>>

\* ListenAndServe returns as soon as Shutdown is called; on the tailnet main
\* itself waits for the signal, and closes the node, which may fail.
Return ==
  /\ pc = "serve" /\ signal
  /\ opts.run = "local" => stopper # "wait"
  /\ Exit("exit 0") \/ (opts.run = "tailnet" /\ Exit("exit 1"))
  /\ UNCHANGED <<opts, server, stopper, signal, file>>
-----------------------------------------------------------------------------
(* The goroutine that stops the local service, and the signal.             *)

InFlight == {r \in Requests : req[r] \in {"admitted", "running"}}

(* Mutant of the stopper: it closes the server before it stops serving.    *)
ShutdownAfterClose ==
  /\ Alive /\ stopper = "wait" /\ signal
  /\ stopper' = "close"
  /\ UNCHANGED <<opts, server, process, signal, file, requests>>

\* Shutdown closes the listeners and waits for the requests under way.
Shutdown ==
  /\ Alive
  /\ \/ stopper = "wait" /\ signal /\ stopper' = "drain" /\ serving' = {}
     \/ stopper = "drain" /\ InFlight = {} /\ stopper' = "close" /\ UNCHANGED serving
  /\ UNCHANGED <<opts, server, pc, lc, auth, lst, signal, file, requests>>

\* A query for src uses the database of the i-th handle, the first of its name.
HandleFor(i, src) ==
  i \in DOMAIN srcs /\ srcs[i] = src /\ \A j \in 1..(i - 1) : srcs[j] # src

\* Close closes handle after handle, each when no query uses it; that does
\* nothing to the local state.
CloseServer ==
  /\ Alive /\ stopper = "close"
  /\ \/ \E i \in open :
          /\ \A j \in open : i <= j
          /\ \A r \in Requests : req[r] = "running" => ~HandleFor(i, ask[r].src)
          /\ open' = open \ {i}
          /\ UNCHANGED stopper
     \/ open = {} /\ stopper' = "ended" /\ UNCHANGED open
  /\ UNCHANGED <<opts, made, srcs, log, process, signal, file, requests>>

Signal ==
  /\ Alive /\ ~signal /\ opts.run \in {"local", "tailnet"} /\ pc # "main"
  /\ signal' = TRUE
  /\ UNCHANGED <<opts, server, process, stopper, file, requests>>

\* The process is killed, or the listener of ListenAndServe breaks.
Kill ==
  /\ Alive
  /\ Exit("killed") \/ (pc = "serve" /\ opts.run # "tailnet" /\ Exit("exit 1"))
  /\ UNCHANGED <<opts, server, stopper, signal, file>>
-----------------------------------------------------------------------------
(* Requests.                                                               *)

\* The map of an embedding program: it lists who may query source "a".
AccessMap == [s \in {<<"a">>} |-> {"amelie"}]
Rule == [kind |-> opts.authorize, map |-> AccessMap]

\* A request meets one of the handlers on its listener.
Arrive(r) ==
  /\ req[r] = "none"
  /\ \E h \in serving, q \in Asks :
       /\ via' = [via EXCEPT ![r] = h[1]]
       /\ ask' = [ask EXCEPT ![r] = q]
       /\ req' = [req EXCEPT ![r] =
            IF h[2] = "redirect" THEN "redirected"
            ELSE IF CheckAuth(auth, Rule, q.who, q.page, q.src) THEN "admitted"
            ELSE "refused"]
  /\ UNCHANGED <<opts, server, process, stopper, signal, file>>

\* An admitted request gets its page, or runs its query on a source there is.
Run(r) ==
  /\ req[r] = "admitted"
  /\ \/ /\ ask[r].page \/ \A i \in DOMAIN srcs : srcs[i] # ask[r].src
        /\ req' = [req EXCEPT ![r] = "answered"]
     \/ /\ ~ask[r].page
        /\ \E i \in DOMAIN srcs :
             /\ HandleFor(i, ask[r].src)
             /\ req' = [req EXCEPT ![r] =
                  IF i \in open \/ i > Len(opts.sources) THEN "running" ELSE "closed"]
  /\ UNCHANGED <<opts, server, process, stopper, signal, file, ask, via>>

\* The query ends.
Finish(r) ==
  /\ req[r] = "running"
  /\ req' = [req EXCEPT ![r] = "answered"]
  /\ UNCHANGED <<opts, server, process, stopper, signal, file, ask, via>>
-----------------------------------------------------------------------------
Go == Main \/ Verify \/ Write \/ LocalClient \/ Up \/ MakeServer \/ Made
        \/ ListenAndServe \/ Listen80 \/ RedirectHTTP \/ ListenTLS \/ ServeMux
        \/ Return

Next ==
  \/ Go \/ Shutdown \/ CloseServer \/ Signal \/ Kill
  \/ \E r \in Requests : Arrive(r) \/ Run(r) \/ Finish(r)

Spec == Init /\ [][Next]_vars

(* Fairness.  The goroutines go on, as do the calls that start the node    *)
(* and open the databases; no request need end.                            *)
FairSpec == Spec /\ WF_vars(Go) /\ WF_vars(Shutdown)
-----------------------------------------------------------------------------
(* Properties.                                                             *)

\* On a tailnet a query runs only for a user who is logged in on a node
\* without tags, from the first request on (tailsql.go:146, options.go:80-81).
TailnetAuth ==
  \A r \in Requests :
    opts.run = "tailnet" /\ req[r] \in {"running", "closed", "cut"} /\ ~ask[r].page
    => Known(ask[r].who) /\ ~ask[r].who.tagged

\* With an authorizer of package authorizer a query runs only for callers
\* its documentation names: those on the list of a listed source, with no
\* tagged node among them, or those with a grant that is the source, or that
\* ends in "*" where the source begins so (map.go:17-23, aclgrant.go:53-55).
GrantedOnly ==
  \A r \in Requests :
    LET who == ask[r].who
        src == ask[r].src
    IN  opts.lc /\ req[r] = "running" /\ ~ask[r].page =>
          /\ Known(who)
          /\ opts.authorize = "map" => ~who.tagged /\ (src = <<"a">> => who.login = "amelie")
          /\ opts.authorize = "acl" =>
               \E g \in who.grants :
                 g = src \/ \E n \in 0..Len(src) : g = SubSeq(src, 1, n) \o <<"*">>

\* With ServeHTTPS no request is admitted through the plain listener
\* (tailsql.go:168-189).
HTTPSOnly ==
  \A r \in Requests :
    opts.https /\ opts.run = "tailnet" /\ req[r] \notin {"none", "redirected"}
    => via[r] = "443"

\* Until the local service is stopped every request it admits finds its
\* database open, and then none is left to find it closed: Close comes after
\* the last of them (tailsql.go:119-120).
NeverClosedUnder == \A r \in Requests : req[r] # "closed"

\* A signal ends the program, whenever it comes and although queries hang
\* (tailsql.go:85, 116-126, 195-197).
StopsOnSignal == signal ~> ~Alive
=============================================================================
