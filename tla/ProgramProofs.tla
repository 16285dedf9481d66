---------------------------- MODULE ProgramProofs ----------------------------
(***************************************************************************)
(* Proofs about Program and Startup, for any names, any Options the        *)
(* command or an embedding program may have, any callers and any number of *)
(* requests.                                                               *)
(***************************************************************************)
EXTENDS Program, FiniteSetTheorems, TLAPS

(* The inductive invariant.                                                *)

\* CheckSources has let the sources through.
Accepted ==
  \A i \in DOMAIN opts.sources :
    /\ CheckValid(opts.sources[i])
    /\ NeedsSecret(opts.sources[i]) => opts.store

\* How far NewServer is decides which databases are open.
StartInv ==
  /\ made # "panic"
  /\ made \in {"idle", "check"} => srcs = <<>>
  /\ made \in {"sources", "state", "schema", "readonly", "ready"} => Accepted
  /\ made # "ready" => Len(srcs) <= Len(opts.sources) /\ open = 1..Len(srcs)
  /\ made \in {"state", "schema", "readonly"} =>
       Len(srcs) = Len(opts.sources) /\ opts.state
  /\ \A i \in DOMAIN srcs : i \in DOMAIN opts.sources => srcs[i] = opts.sources[i].source
  /\ made \notin {"schema", "readonly", "ready"} => log = {}
  /\ made \in {"schema", "readonly"} => log = {"rw"}
  /\ ReadyIsWhole

Before == {"main", "verify", "write", "client", "up"}
Tailnet == {"listen", "cert", "tls", "mux"}

\* What the main goroutine has done so far.
MainInv ==
  /\ pc \in Before => made = "idle"
  /\ pc \in Before \cup {"new"} => stopper = "none"
  /\ pc \in Tailnet \cup {"bind", "serve"} => made = "ready"
  /\ pc \in Tailnet => opts.run = "tailnet"
  /\ pc = "bind" => opts.run # "tailnet"
  /\ stopper # "none" => made = "ready" /\ opts.run # "tailnet"
  /\ ~Alive => serving = {}

\* Requests come while there is a listener, and one is there once the server
\* is made.
RequestInv ==
  /\ pc \in Before \cup {"new", "listen", "cert", "bind"} =>
       serving = {} /\ \A r \in Requests : req[r] = "none"
  /\ \A r \in Requests : req[r] # "none" => made = "ready"

\* The databases are open until no request is left.
DrainInv ==
  /\ stopper \in {"drain", "close", "ended"} => serving = {}
  /\ stopper \in {"close", "ended"} => InFlight = {}
  /\ made = "ready" /\ stopper \notin {"close", "ended"} => open = 1..Len(opts.sources)
  /\ NeverClosedUnder

\* The server has a local client before there is a request.
AuthInv ==
  /\ opts.run = "tailnet" /\ pc \in {"up", "new", "serve"} \cup Tailnet => lc
  /\ opts.lc => lc
  /\ (opts.run = "tailnet" \/ opts.lc) /\ pc \in {"new", "bind", "serve"} \cup Tailnet
     => auth
  /\ \A r \in Requests : req[r] \in {"admitted", "running", "closed", "cut"} =>
       /\ opts.run = "tailnet" \/ opts.lc => auth
       /\ CheckAuth(auth, Rule, ask[r].who, ask[r].page, ask[r].src)

\* With HTTPS the mux is on port 443 only.
PortInv ==
  opts.https /\ opts.run = "tailnet" =>
    /\ pc = "mux" => lst = "443"
    /\ \A h \in serving : h[2] = "redirect" \/ h[1] = "443"
    /\ HTTPSOnly

IInv == /\ TypeOK /\ StartInv /\ MainInv /\ RequestInv /\ DrainInv /\ AuthInv
        /\ PortInv
-----------------------------------------------------------------------------
(* NewServer.                                                              *)

\* The Options are typed, whatever run this is.
LEMMA OptionsTyped ==
  ASSUME opts \in Configs
  PROVE  /\ opts.sources \in Seq(DBSpecs) /\ opts.state \in BOOLEAN
         /\ opts.self \in Names \cup {NoName}
         /\ opts.run # "embedded" => ~opts.lc /\ opts.authorize = "default"
BY ConfigsAssumption DEF Options, FromFile

\* The panic of openSources is behind a check of CheckSources.
LEMMA NoPanicSource ==
  ASSUME Accepted, AtSource, ~SpecToOpen.db
  PROVE  ~(SpecToOpen.given = {} \/ (NeedsSecret(SpecToOpen) /\ ~opts.store))
<1>1. CheckValid(SpecToOpen) /\ (NeedsSecret(SpecToOpen) => opts.store)
  BY DEF Accepted, AtSource, SpecToOpen
<1>2. Cardinality(SpecToOpen.given) = 1
  BY <1>1 DEF CheckValid
<1>3. Cardinality({}) = 0
  BY FS_EmptySet
<1>4. SpecToOpen.given # {}
  BY <1>2, <1>3
<1> QED
  BY <1>1, <1>4

\* Every step of NewServer keeps what is known of the server.
LEMMA StartStep ==
  ASSUME opts \in Configs, ServerTypeOK, StartInv, NewServer, opts' = opts
  PROVE  ServerTypeOK' /\ StartInv'
<1> USE OptionsTyped, NamesAssumption DEF ServerTypeOK, Stage, Stages
<1>1. CASE CheckSources
  <2>1. made' = "sources" => Accepted'
    BY <1>1 DEF CheckSources, Accepted
  <2> QED
    BY <1>1, <2>1 DEF CheckSources, StartInv, ReadyIsWhole
<1>2. CASE OpenSource
  <2> DEFINE n == Len(srcs)
             spec == opts.sources[n + 1]
  <2>1. /\ n \in Nat /\ n + 1 \in DOMAIN opts.sources /\ n < Len(opts.sources)
        /\ spec \in DBSpecs /\ spec.source # NoName
    BY <1>2 DEF OpenSource, AtSource, Following, StartInv, Accepted, CheckValid
  <2>2. srcs' = Append(srcs, spec.source) /\ open' = open \cup {n + 1}
        /\ UNCHANGED <<made, log>> /\ made = "sources"
    BY <1>2 DEF OpenSource, AtSource, Following, SpecToOpen
  <2>3. spec.source \in Names
    BY <2>1 DEF DBSpecs
  <2> HIDE DEF n
  <2>4. open = 1..n /\ n = Len(srcs)
    BY <2>2 DEF StartInv, n
  <2>5. open' = 1..(n + 1) /\ Len(srcs') = n + 1 /\ srcs' \in Seq(Names)
    BY <2>1, <2>2, <2>3, <2>4
  <2>6. \A i \in DOMAIN srcs' : srcs'[i] = opts.sources[i].source
    <3>1. \A i \in DOMAIN srcs : i \in DOMAIN opts.sources /\ srcs'[i] = srcs[i]
      BY <2>1, <2>2, <2>4
    <3>2. srcs'[n + 1] = spec.source
      BY <2>1, <2>2, <2>4
    <3>3. DOMAIN srcs' = DOMAIN srcs \cup {n + 1}
      BY <2>1, <2>2, <2>4
    <3> QED
      BY <3>1, <3>2, <3>3 DEF StartInv
  <2> QED
    BY <2>1, <2>2, <2>5, <2>6 DEF StartInv, ReadyIsWhole, Accepted
<1>3. CASE FailSource
  <2>1. made' = "failed"
    BY <1>3, NoPanicSource DEF FailSource, AtSource, StartInv
  <2> QED
    BY <1>3, <2>1 DEF FailSource, AtSource, StartInv, ReadyIsWhole, Accepted
<1>4. CASE EndSources
  <2>1. Len(srcs) = Len(opts.sources)
    BY <1>4 DEF EndSources, Following, StartInv
  <2>2. made' = IF opts.state THEN "state" ELSE "ready"
    BY <1>4 DEF EndSources
  <2>3. made = "sources" /\ UNCHANGED <<srcs, open, log>> /\ log = {}
    BY <1>4 DEF EndSources, StartInv
  <2> QED
    BY <2>1, <2>2, <2>3 DEF StartInv, ReadyIsWhole, Accepted
<1>5. CASE OpenState
  BY <1>5 DEF OpenState, StartInv, ReadyIsWhole, Accepted
<1>6. CASE ApplySchema
  BY <1>6 DEF ApplySchema, StartInv, ReadyIsWhole, Accepted
<1>7. CASE OpenReadOnly
  <2>1. made = "readonly" /\ log = {"rw"} /\ Len(srcs) = Len(opts.sources) /\ opts.state
    BY <1>7 DEF OpenReadOnly, StartInv
  <2>2. CASE made' = "failed"
    BY <1>7, <2>1, <2>2 DEF OpenReadOnly, StartInv, ReadyIsWhole, Accepted
  <2>3. CASE made' = "ready"
    <3>1. /\ srcs' = IF opts.self # NoName THEN Append(srcs, opts.self) ELSE srcs
          /\ log' = {"rw", "ro"} /\ open' = open
      BY <1>7, <2>1, <2>3 DEF OpenReadOnly
    <3>2. /\ srcs' \in Seq(Names)
          /\ Len(srcs') = Len(srcs) + (IF opts.self # NoName THEN 1 ELSE 0)
          /\ \A i \in DOMAIN srcs : i \in DOMAIN srcs' /\ srcs'[i] = srcs[i]
          /\ Len(srcs') > Len(srcs) => srcs'[Len(srcs')] = opts.self
      BY <3>1
    <3>3. \A i \in DOMAIN opts.sources : srcs'[i] = opts.sources[i].source
      <4>1. DOMAIN srcs = 1..Len(srcs) /\ DOMAIN opts.sources = 1..Len(opts.sources)
        OBVIOUS
      <4>2. \A i \in DOMAIN srcs : i \in DOMAIN opts.sources =>
              srcs[i] = opts.sources[i].source
        BY DEF StartInv
      <4> QED
        BY <2>1, <3>2, <4>1, <4>2
    <3>4. ReadyIsWhole'
      BY <2>1, <2>3, <3>1, <3>2, <3>3 DEF ReadyIsWhole
    <3> QED
      BY <2>1, <2>3, <3>1, <3>2, <3>3, <3>4 DEF StartInv, Accepted
  <2> QED
    BY <1>7, <2>2, <2>3 DEF OpenReadOnly
<1> QED
  BY <1>1, <1>2, <1>3, <1>4, <1>5, <1>6, <1>7 DEF NewServer
-----------------------------------------------------------------------------
(* The program: one lemma per action, and one for the end of the process.  *)

\* Nothing happens to the server.
LEMMA ServerRests ==
  ASSUME ServerTypeOK, StartInv, UNCHANGED <<opts, server>>
  PROVE  ServerTypeOK' /\ StartInv'
BY DEF server, ServerTypeOK, StartInv, ReadyIsWhole, Accepted

\* What every request of the moment has passed stays so.
LEMMA RequestsRest ==
  ASSUME AuthInv, UNCHANGED <<opts, auth, requests>>
  PROVE  \A r \in Requests : req'[r] \in {"admitted", "running", "closed", "cut"} =>
           /\ opts'.run = "tailnet" \/ opts'.lc => auth'
           /\ CheckAuth(auth', Rule', ask'[r].who, ask'[r].page, ask'[r].src)
BY DEF AuthInv, Rule, requests

\* The process may end at any time.
LEMMA ExitStep ==
  ASSUME IInv, NEW how \in Exits, Exit(how), UNCHANGED <<opts, server, stopper, signal>>,
         file' \in {file, "sample"}
  PROVE  IInv'
<1> USE DEF IInv, Exit, Goto, Exits
<1>1. TypeOK'
  BY ServerRests DEF TypeOK
<1>2. StartInv'
  BY ServerRests DEF TypeOK
<1>3. MainInv' /\ RequestInv'
  BY DEF MainInv, RequestInv, TypeOK, Alive, Before, Tailnet, server
<1>4. DrainInv'
  BY DEF DrainInv, NeverClosedUnder, InFlight, TypeOK, server
<1>5. AuthInv'
  BY DEF AuthInv, Tailnet, TypeOK, Rule
<1>6. PortInv'
  BY DEF PortInv, HTTPSOnly, TypeOK
<1> QED
  BY <1>1, <1>2, <1>3, <1>4, <1>5, <1>6

LEMMA MainStep ==
  ASSUME IInv, Main, pc' \notin Exits
  PROVE  IInv'
<1> USE DEF IInv, Main, Call, Stage, Exit, Goto, Exits, process, requests
<1>1. TypeOK'
  <2>1. /\ pc' \in {"new", "verify", "client"} /\ (made' = made \/ made' = "check")
        /\ UNCHANGED <<opts, srcs, open, log, lc, lst, serving, stopper, signal, file,
                       req, ask, via>>
    BY Zenon
  <2>2. auth' \in BOOLEAN
    BY Zenon DEF TypeOK
  <2>3. ServerTypeOK'
    BY <2>1 DEF TypeOK, ServerTypeOK, Stages
  <2> QED
    BY <2>1, <2>2, <2>3 DEF TypeOK
<1>2. StartInv'
  BY DEF MainInv, StartInv, ReadyIsWhole, Before
<1>3. MainInv' /\ RequestInv'
  BY DEF MainInv, RequestInv, TypeOK, Alive, Before, Tailnet, server
<1>4. DrainInv'
  BY DEF MainInv, RequestInv, DrainInv, NeverClosedUnder, InFlight, Before, Tailnet, server
<1>5. AuthInv'
  BY RequestsRest DEF MainInv, RequestInv, AuthInv, Before, Tailnet
<1>6. PortInv'
  BY DEF MainInv, RequestInv, PortInv, HTTPSOnly, TypeOK, Before, Tailnet
<1> QED
  BY <1>1, <1>2, <1>3, <1>4, <1>5, <1>6

LEMMA VerifyStep ==
  ASSUME IInv, Verify, pc' \notin Exits
  PROVE  IInv'
<1> USE DEF IInv, Verify, Exit, Goto, Exits, process, requests
<1>1. TypeOK'
  BY ServerRests DEF TypeOK
<1>2. StartInv'
  BY ServerRests DEF TypeOK
<1>3. MainInv' /\ RequestInv'
  BY DEF MainInv, RequestInv, TypeOK, Alive, Before, Tailnet, server
<1>4. DrainInv'
  BY DEF MainInv, RequestInv, DrainInv, NeverClosedUnder, InFlight, Before, Tailnet, server
<1>5. AuthInv'
  BY RequestsRest DEF MainInv, RequestInv, AuthInv, Before, Tailnet
<1>6. PortInv'
  BY DEF MainInv, RequestInv, PortInv, HTTPSOnly, TypeOK, Before, Tailnet
<1> QED
  BY <1>1, <1>2, <1>3, <1>4, <1>5, <1>6

LEMMA LocalClientStep ==
  ASSUME IInv, LocalClient, pc' \notin Exits
  PROVE  IInv'
<1> USE DEF IInv, LocalClient, Exit, Goto, Exits, process, requests
<1>1. TypeOK'
  BY ServerRests DEF TypeOK
<1>2. StartInv'
  BY ServerRests DEF TypeOK
<1>3. MainInv' /\ RequestInv'
  BY DEF MainInv, RequestInv, TypeOK, Alive, Before, Tailnet, server
<1>4. DrainInv'
  BY DEF MainInv, RequestInv, DrainInv, NeverClosedUnder, InFlight, Before, Tailnet, server
<1>5. AuthInv'
  BY RequestsRest DEF MainInv, RequestInv, AuthInv, Before, Tailnet
<1>6. PortInv'
  BY DEF MainInv, RequestInv, PortInv, HTTPSOnly, TypeOK, Before, Tailnet
<1> QED
  BY <1>1, <1>2, <1>3, <1>4, <1>5, <1>6

LEMMA UpStep ==
  ASSUME IInv, Up, pc' \notin Exits
  PROVE  IInv'
<1> USE DEF IInv, Up, Call, Stage, Exit, Goto, Exits, process, requests
<1>1. TypeOK'
  BY DEF TypeOK, ServerTypeOK, Stages
<1>2. StartInv'
  BY DEF MainInv, StartInv, ReadyIsWhole, Before
<1>3. MainInv' /\ RequestInv'
  BY DEF MainInv, RequestInv, TypeOK, Alive, Before, Tailnet, server
<1>4. DrainInv'
  BY DEF MainInv, RequestInv, DrainInv, NeverClosedUnder, InFlight, Before, Tailnet, server
<1>5. AuthInv'
  BY RequestsRest DEF MainInv, RequestInv, AuthInv, Before, Tailnet
<1>6. PortInv'
  BY DEF MainInv, RequestInv, PortInv, HTTPSOnly, TypeOK, Before, Tailnet
<1> QED
  BY <1>1, <1>2, <1>3, <1>4, <1>5, <1>6

LEMMA MadeStep ==
  ASSUME IInv, Made, pc' \notin Exits
  PROVE  IInv'
<1> USE DEF IInv, Made, Exit, Goto, Exits, process, requests
<1>1. TypeOK'
  BY ServerRests DEF TypeOK
<1>2. StartInv'
  BY ServerRests DEF TypeOK
<1>3. MainInv' /\ RequestInv'
  BY DEF MainInv, RequestInv, TypeOK, Alive, Before, Tailnet, server
<1>4. DrainInv'
  BY DEF MainInv, RequestInv, DrainInv, NeverClosedUnder, InFlight, Before, Tailnet, server
<1>5. AuthInv'
  BY RequestsRest DEF MainInv, RequestInv, AuthInv, Before, Tailnet
<1>6. PortInv'
  BY DEF MainInv, RequestInv, PortInv, HTTPSOnly, TypeOK, Before, Tailnet
<1> QED
  BY <1>1, <1>2, <1>3, <1>4, <1>5, <1>6

LEMMA ListenAndServeStep ==
  ASSUME IInv, ListenAndServe, pc' \notin Exits
  PROVE  IInv'
<1> USE DEF IInv, ListenAndServe, Exit, Goto, Exits, process, requests
<1>1. TypeOK'
  <2>1. serving' = {<<lst, "mux">>} /\ pc' = "serve" /\ UNCHANGED <<lc, auth, lst, req, ask, via>>
    BY DEF TypeOK
  <2>2. serving' \subseteq Listeners \X {"mux", "redirect"}
    BY <2>1 DEF TypeOK
  <2> QED
    BY <2>1, <2>2, ServerRests DEF TypeOK
<1>2. StartInv'
  BY ServerRests DEF TypeOK
<1>3. MainInv' /\ RequestInv'
  BY DEF MainInv, RequestInv, TypeOK, Alive, Before, Tailnet, server
<1>4. DrainInv'
  BY DEF MainInv, RequestInv, DrainInv, NeverClosedUnder, InFlight, Before, Tailnet, server
<1>5. AuthInv'
  BY RequestsRest DEF MainInv, RequestInv, AuthInv, Before, Tailnet
<1>6. PortInv'
  BY DEF MainInv, RequestInv, PortInv, HTTPSOnly, TypeOK, Before, Tailnet
<1> QED
  BY <1>1, <1>2, <1>3, <1>4, <1>5, <1>6

LEMMA Listen80Step ==
  ASSUME IInv, Listen80, pc' \notin Exits
  PROVE  IInv'
<1> USE DEF IInv, Listen80, Exit, Goto, Exits, process, requests
<1>1. TypeOK'
  BY ServerRests DEF TypeOK
<1>2. StartInv'
  BY ServerRests DEF TypeOK
<1>3. MainInv' /\ RequestInv'
  BY DEF MainInv, RequestInv, TypeOK, Alive, Before, Tailnet, server
<1>4. DrainInv'
  BY DEF MainInv, RequestInv, DrainInv, NeverClosedUnder, InFlight, Before, Tailnet, server
<1>5. AuthInv'
  BY RequestsRest DEF MainInv, RequestInv, AuthInv, Before, Tailnet
<1>6. PortInv'
  BY DEF MainInv, RequestInv, PortInv, HTTPSOnly, TypeOK, Before, Tailnet
<1> QED
  BY <1>1, <1>2, <1>3, <1>4, <1>5, <1>6

LEMMA RedirectHTTPStep ==
  ASSUME IInv, RedirectHTTP, pc' \notin Exits
  PROVE  IInv'
<1> USE DEF IInv, RedirectHTTP, Exit, Goto, Exits, process, requests
<1>1. TypeOK'
  <2>1. serving' = {<<lst, "redirect">>} /\ pc' = "tls" /\ UNCHANGED <<lc, auth, lst, req, ask, via>>
    BY DEF TypeOK
  <2>2. serving' \subseteq Listeners \X {"mux", "redirect"}
    BY <2>1 DEF TypeOK
  <2> QED
    BY <2>1, <2>2, ServerRests DEF TypeOK
<1>2. StartInv'
  BY ServerRests DEF TypeOK
<1>3. MainInv' /\ RequestInv'
  BY DEF MainInv, RequestInv, TypeOK, Alive, Before, Tailnet, server
<1>4. DrainInv'
  BY DEF MainInv, RequestInv, DrainInv, NeverClosedUnder, InFlight, Before, Tailnet, server
<1>5. AuthInv'
  BY RequestsRest DEF MainInv, RequestInv, AuthInv, Before, Tailnet
<1>6. PortInv'
  <2>1. pc' = "tls" /\ serving' = {<<lst, "redirect">>} /\ UNCHANGED <<opts, file, req, via>>
    BY DEF TypeOK
  <2>2. \A h \in serving' : h[2] = "redirect"
    BY <2>1
  <2> QED
    BY <2>1, <2>2 DEF PortInv, HTTPSOnly
<1> QED
  BY <1>1, <1>2, <1>3, <1>4, <1>5, <1>6

LEMMA ListenTLSStep ==
  ASSUME IInv, ListenTLS, pc' \notin Exits
  PROVE  IInv'
<1> USE DEF IInv, ListenTLS, Exit, Goto, Exits, process, requests
<1>1. TypeOK'
  BY ServerRests DEF TypeOK, Listeners
<1>2. StartInv'
  BY ServerRests DEF TypeOK
<1>3. MainInv' /\ RequestInv'
  BY DEF MainInv, RequestInv, TypeOK, Alive, Before, Tailnet, server
<1>4. DrainInv'
  BY DEF MainInv, RequestInv, DrainInv, NeverClosedUnder, InFlight, Before, Tailnet, server
<1>5. AuthInv'
  BY RequestsRest DEF MainInv, RequestInv, AuthInv, Before, Tailnet
<1>6. PortInv'
  BY DEF MainInv, RequestInv, PortInv, HTTPSOnly, TypeOK, Before, Tailnet
<1> QED
  BY <1>1, <1>2, <1>3, <1>4, <1>5, <1>6

LEMMA ServeMuxStep ==
  ASSUME IInv, ServeMux, pc' \notin Exits
  PROVE  IInv'
<1> USE DEF IInv, ServeMux, Exit, Goto, Exits, process, requests
<1>1. TypeOK'
  BY ServerRests DEF TypeOK
<1>2. StartInv'
  BY ServerRests DEF TypeOK
<1>3. MainInv' /\ RequestInv'
  BY DEF MainInv, RequestInv, TypeOK, Alive, Before, Tailnet, server
<1>4. DrainInv'
  BY DEF MainInv, RequestInv, DrainInv, NeverClosedUnder, InFlight, Before, Tailnet, server
<1>5. AuthInv'
  BY RequestsRest DEF MainInv, RequestInv, AuthInv, Before, Tailnet
<1>6. PortInv'
  BY DEF MainInv, RequestInv, PortInv, HTTPSOnly, TypeOK, Before, Tailnet
<1> QED
  BY <1>1, <1>2, <1>3, <1>4, <1>5, <1>6

LEMMA MakeServerStep ==
  ASSUME IInv, MakeServer
  PROVE  IInv'
<1> USE DEF IInv, MakeServer, process, requests
<1>1. ServerTypeOK' /\ StartInv'
  BY StartStep DEF TypeOK
<1>2. TypeOK'
  BY <1>1 DEF TypeOK
<1>3. MainInv' /\ RequestInv'
  BY DEF MainInv, RequestInv, Alive, Before, Tailnet, Exits
<1>4. DrainInv'
  <2>1. stopper = "none" /\ \A r \in Requests : req[r] = "none"
    BY DEF MainInv, RequestInv
  <2>2. made' = "ready" => open' = 1..Len(opts'.sources)
    <3>1. made = "ready" => FALSE
      BY DEF NewServer, CheckSources, OpenSource, FailSource, AtSource, EndSources,
             OpenState, ApplySchema, OpenReadOnly
    <3>2. made' = "ready" => Len(srcs) = Len(opts.sources) /\ open' = open
      BY <3>1 DEF NewServer, CheckSources, OpenSource, FailSource, AtSource, EndSources,
             OpenState, ApplySchema, OpenReadOnly, StartInv, Following, Stage,
             TypeOK, ServerTypeOK
    <3> QED
      BY <3>1, <3>2 DEF StartInv
  <2> QED
    BY <2>1, <2>2 DEF DrainInv, NeverClosedUnder, InFlight
<1>5. AuthInv' /\ PortInv'
  BY RequestsRest DEF AuthInv, PortInv, HTTPSOnly, requests
<1> QED
  BY <1>1, <1>2, <1>3, <1>4, <1>5

\* The goroutine of the signal: the listeners are closed, the requests end.
LEMMA ShutdownStep ==
  ASSUME IInv, Shutdown
  PROVE  IInv'
<1> USE DEF IInv, Shutdown, requests
<1>1. TypeOK'
  BY ServerRests DEF TypeOK
<1>2. StartInv'
  BY ServerRests DEF TypeOK
<1>3. MainInv' /\ RequestInv'
  BY DEF MainInv, RequestInv, Alive, Before, Tailnet, Exits, server
<1>4. DrainInv'
  BY DEF DrainInv, NeverClosedUnder, InFlight, server
<1>5. AuthInv' /\ PortInv'
  BY RequestsRest DEF AuthInv, PortInv, HTTPSOnly, requests
<1> QED
  BY <1>1, <1>2, <1>3, <1>4, <1>5

\* Close takes databases away when no request is left.
LEMMA CloseServerStep ==
  ASSUME IInv, CloseServer
  PROVE  IInv'
<1> USE DEF IInv, CloseServer, process, requests
<1>1. made = "ready" /\ UNCHANGED <<opts, made, srcs, log>> /\ open' \subseteq open
      /\ stopper = "close" /\ stopper' \in {"close", "ended"}
  BY DEF MainInv
<1>2. TypeOK'
  BY <1>1 DEF TypeOK, ServerTypeOK
<1>3. StartInv'
  BY <1>1 DEF StartInv, ReadyIsWhole, Accepted
<1>4. MainInv' /\ RequestInv'
  BY <1>1 DEF MainInv, RequestInv, Alive, Before, Tailnet, Exits
<1>5. DrainInv'
  BY <1>1 DEF DrainInv, NeverClosedUnder, InFlight
<1>6. AuthInv' /\ PortInv'
  BY RequestsRest DEF AuthInv, PortInv, HTTPSOnly, requests
<1> QED
  BY <1>2, <1>3, <1>4, <1>5, <1>6

\* A signal, and nothing, change nothing else.
LEMMA SignalStep ==
  ASSUME IInv, Signal \/ UNCHANGED vars
  PROVE  IInv'
<1> USE DEF IInv, Signal, vars, process, requests
<1>1. UNCHANGED <<opts, server, process, stopper, file, requests>> /\ signal' \in BOOLEAN
  BY DEF TypeOK
<1>2. TypeOK'
  BY <1>1, ServerRests DEF TypeOK
<1>3. StartInv'
  BY <1>1, ServerRests DEF TypeOK
<1>4. MainInv' /\ RequestInv' /\ DrainInv'
  BY <1>1 DEF MainInv, RequestInv, DrainInv, NeverClosedUnder, InFlight, Alive, server
<1>5. AuthInv' /\ PortInv'
  BY <1>1, RequestsRest DEF AuthInv, PortInv, HTTPSOnly
<1> QED
  BY <1>2, <1>3, <1>4, <1>5

\* A request that comes is admitted by the server's local client.
LEMMA ArriveStep ==
  ASSUME IInv, NEW r \in Requests, Arrive(r)
  PROVE  IInv'
<1> USE DEF IInv, process
<1>1. PICK h \in serving, q \in Asks :
        /\ req[r] = "none"
        /\ via' = [via EXCEPT ![r] = h[1]]
        /\ ask' = [ask EXCEPT ![r] = q]
        /\ req' = [req EXCEPT ![r] =
             IF h[2] = "redirect" THEN "redirected"
             ELSE IF CheckAuth(auth, Rule, q.who, q.page, q.src) THEN "admitted"
             ELSE "refused"]
        /\ UNCHANGED <<opts, server, pc, lc, auth, lst, serving, stopper, signal, file>>
  BY Zenon DEF Arrive
<1> DEFINE got == IF h[2] = "redirect" THEN "redirected"
                  ELSE IF CheckAuth(auth, Rule, q.who, q.page, q.src) THEN "admitted"
                  ELSE "refused"
<1>2. /\ got \in {"redirected", "admitted", "refused"}
      /\ got = "admitted" => CheckAuth(auth, Rule, q.who, q.page, q.src)
      /\ h[2] = "redirect" => got = "redirected"
  OBVIOUS
<1>3. req' = [req EXCEPT ![r] = got]
  BY <1>1
<1> HIDE DEF got
<1>4. serving # {} /\ h[1] \in Listeners /\ pc \in {"tls", "mux", "serve"}
  BY DEF TypeOK, MainInv, RequestInv, Alive, Before, Exits
<1>5. TypeOK'
  BY <1>1, <1>2, <1>3, <1>4, ServerRests DEF TypeOK
<1>6. StartInv'
  BY <1>1, ServerRests DEF TypeOK
<1>7. MainInv'
  BY <1>1 DEF MainInv, Alive, server
<1>8. RequestInv'
  BY <1>1, <1>3, <1>4 DEF MainInv, RequestInv, TypeOK, server, Before, Tailnet
<1>9. DrainInv'
  <2>1. stopper \notin {"close", "ended"}
    BY <1>4 DEF DrainInv
  <2> QED
    BY <1>1, <1>2, <1>3, <2>1 DEF DrainInv, NeverClosedUnder, TypeOK, server
<1>10. AuthInv'
  <2>1. opts.run = "tailnet" \/ opts.lc => auth
    BY <1>4 DEF AuthInv, Tailnet
  <2>2. \A s \in Requests : s # r => req'[s] = req[s] /\ ask'[s] = ask[s]
    BY <1>1, <1>3 DEF TypeOK
  <2>3. req'[r] = got /\ ask'[r] = q
    BY <1>1, <1>3 DEF TypeOK
  <2>4. Rule' = Rule
    BY <1>1 DEF Rule
  <2> QED
    BY <1>1, <1>2, <2>1, <2>2, <2>3, <2>4 DEF AuthInv
<1>11. PortInv'
  BY <1>1, <1>2, <1>3 DEF PortInv, HTTPSOnly, TypeOK
<1> QED
  BY <1>5, <1>6, <1>7, <1>8, <1>9, <1>10, <1>11

\* A request that goes on was admitted before; it finds its database open.
LEMMA ProceedStep ==
  ASSUME IInv, NEW r \in Requests, Run(r) \/ Finish(r)
  PROVE  IInv'
<1> USE DEF IInv, process
<1>1. /\ req[r] \in {"admitted", "running"}
      /\ UNCHANGED <<opts, server, pc, lc, auth, lst, serving, stopper, signal, file,
                    ask, via>>
  BY DEF Run, Finish
<1>2. \/ req' = [req EXCEPT ![r] = "answered"]
      \/ req' = [req EXCEPT ![r] = "running"]
  <2>1. made = "ready" /\ stopper \notin {"close", "ended"}
    BY <1>1 DEF RequestInv, DrainInv, InFlight
  <2>2. open = 1..Len(opts.sources)
    BY <2>1 DEF DrainInv
  <2>3. \A i \in DOMAIN srcs : i \in open \/ i > Len(opts.sources)
    BY <2>2, OptionsTyped DEF TypeOK, ServerTypeOK
  <2>4. CASE Run(r)
    BY <2>3, <2>4, Zenon DEF Run
  <2>5. CASE Finish(r)
    BY <2>5 DEF Finish
  <2> QED
    BY <2>4, <2>5
<1>3. PICK got \in {"answered", "running"} : req' = [req EXCEPT ![r] = got]
  BY <1>2
<1>4. req'[r] = got /\ \A s \in Requests : s # r => req'[s] = req[s]
  BY <1>3 DEF TypeOK
<1>5. TypeOK'
  BY <1>1, <1>3, ServerRests DEF TypeOK
<1>6. StartInv'
  BY <1>1, ServerRests DEF TypeOK
<1>7. MainInv'
  BY <1>1 DEF MainInv, Alive, server
<1>8. RequestInv'
  BY <1>1, <1>4 DEF RequestInv, server
<1>9. DrainInv'
  BY <1>1, <1>4 DEF DrainInv, NeverClosedUnder, InFlight, server
<1>10. AuthInv'
  <2>1. Rule' = Rule
    BY <1>1 DEF Rule
  <2> QED
    BY <1>1, <1>4, <2>1 DEF AuthInv
<1>11. PortInv'
  BY <1>1, <1>4 DEF PortInv, HTTPSOnly
<1> QED
  BY <1>5, <1>6, <1>7, <1>8, <1>9, <1>10, <1>11

\* Whenever main or a signal from outside ends the process, it is by Exit.
LEMMA Ends ==
  ASSUME IInv, Go \/ Kill, pc' \in Exits, pc \notin Exits
  PROVE  IInv'
<1> USE DEF Exits, server
<1>1. PICK how \in Exits : Exit(how) /\ UNCHANGED <<opts, server, stopper, signal>>
                           /\ file' \in {file, "sample"}
  <2> USE DEF Goto
  <2>1. CASE Main \/ Up
    BY <2>1 DEF Main, Up, Call
  <2>2. CASE Verify \/ Write
    BY <2>2 DEF Verify, Write
  <2>3. CASE LocalClient \/ MakeServer \/ Made
    BY <2>3 DEF LocalClient, MakeServer, Made, process
  <2>4. CASE ListenAndServe \/ Listen80 \/ RedirectHTTP
    BY <2>4 DEF ListenAndServe, Listen80, RedirectHTTP
  <2>5. CASE ListenTLS \/ ServeMux \/ Return
    BY <2>5 DEF ListenTLS, ServeMux, Return
  <2>6. CASE Kill
    BY <2>6 DEF Kill
  <2> QED
    BY <2>1, <2>2, <2>3, <2>4, <2>5, <2>6 DEF Go
<1> QED
  BY <1>1, ExitStep
-----------------------------------------------------------------------------
LEMMA Initially == Init => IInv
<1> SUFFICES ASSUME Init PROVE IInv
  OBVIOUS
<1> USE DEF Init, ServerInit
<1>1. TypeOK
  <2>1. (CHOOSE q \in Asks : TRUE) \in Asks
    BY AsksAssumption
  <2>2. ask \in [Requests -> Asks]
    BY <2>1
  <2>3. lst \in Listeners
    BY DEF Listeners
  <2>4. via \in [Requests -> Listeners]
    BY <2>3
  <2>5. opts.lc \in BOOLEAN
    BY ConfigsAssumption DEF Options
  <2>6. lc \in BOOLEAN
    BY <2>5
  <2>7. ServerTypeOK
    BY DEF ServerTypeOK, Stages
  <2> QED
    BY <2>2, <2>3, <2>4, <2>6, <2>7 DEF TypeOK
<1>2. StartInv
  BY OptionsTyped DEF StartInv, ReadyIsWhole
<1>3. MainInv /\ RequestInv
  BY DEF MainInv, RequestInv, Before, Tailnet, Alive, Exits
<1>4. DrainInv /\ PortInv
  BY DEF DrainInv, NeverClosedUnder, InFlight, PortInv, HTTPSOnly
<1>5. AuthInv
  BY DEF AuthInv, Tailnet
<1> QED
  BY <1>1, <1>2, <1>3, <1>4, <1>5 DEF IInv

\* One lemma per action; write and return always end the process.
LEMMA Inductive == IInv /\ [Next]_vars => IInv'
<1> SUFFICES ASSUME IInv, [Next]_vars PROVE IInv'
  OBVIOUS
<1>1. CASE Go /\ pc' \notin Exits
  <2>1. ~Write /\ ~Return
    BY <1>1 DEF Write, Return, Exit, Goto, Exits
  <2> QED
    BY <1>1, <2>1, MainStep, VerifyStep, LocalClientStep, UpStep, MakeServerStep,
       MadeStep, ListenAndServeStep, Listen80Step, RedirectHTTPStep, ListenTLSStep,
       ServeMuxStep DEF Go
<1>2. CASE (Go \/ Kill) /\ pc' \in Exits
  <2>1. pc \notin Exits
    <3>1. CASE Go
      BY <3>1 DEF Go, Main, Verify, Write, LocalClient, Up, MakeServer, Made,
         ListenAndServe, Listen80, RedirectHTTP, ListenTLS, ServeMux, Return, Exits
    <3>2. CASE Kill
      BY <3>2 DEF Kill, Alive
    <3> QED
      BY <1>2, <3>1, <3>2
  <2> QED
    BY <1>2, <2>1, Ends
<1>3. CASE Kill /\ pc' \notin Exits
  BY <1>3 DEF Kill, Exit, Goto, Exits
<1>4. CASE Shutdown \/ CloseServer \/ Signal
  BY <1>4, ShutdownStep, CloseServerStep, SignalStep
<1>5. CASE \E r \in Requests : Arrive(r) \/ Run(r) \/ Finish(r)
  BY <1>5, ArriveStep, ProceedStep
<1>6. CASE UNCHANGED vars
  BY <1>6, SignalStep
<1> QED
  BY <1>1, <1>2, <1>3, <1>4, <1>5, <1>6 DEF Next

LEMMA Invariance == Spec => []IInv
BY Initially, Inductive, PTL DEF Spec

\* Every variable keeps its type (cmd/tailsql/tailsql.go, tailsql.go:127-158).
THEOREM TypeCorrect == Spec => []TypeOK
<1>1. IInv => TypeOK
  BY DEF IInv
<1> QED
  BY <1>1, Invariance, PTL

\* Whatever sources the Options list, openSources does not come to its panic
\* (options.go:118, 181).
THEOREM NeverPanics == Spec => []NoPanic
<1>1. IInv => NoPanic
  BY DEF IInv, StartInv, NoPanic
<1> QED
  BY <1>1, Invariance, PTL

\* What a NewServer that failed leaves open (options.go:186-206, local.go:63-72).
THEOREM FailureAlwaysLeaves == Spec => []FailureLeaves
<1>1. IInv => FailureLeaves
  BY DEF IInv, StartInv, FailureLeaves
<1> QED
  BY <1>1, Invariance, PTL

\* For any Options, a server that is ready has all their sources in order
\* (tailsql.go:138-156).
THEOREM ReadyAlwaysWhole == Spec => []ReadyIsWhole
<1>1. IInv => ReadyIsWhole
  BY DEF IInv, StartInv
<1> QED
  BY <1>1, Invariance, PTL

\* For any Options, and a failure at any call or none, NewServer makes a whole
\* server or leaves no half of one (tailsql.go:127-173).
THEOREM NewServerAllOrNothing == Spec => []AllOrNothing
<1>1. NoPanic /\ FailureLeaves /\ ReadyIsWhole => AllOrNothing
  BY DEF AllOrNothing
<1> QED
  BY NeverPanics, FailureAlwaysLeaves, ReadyAlwaysWhole, <1>1, PTL

\* On a tailnet no query of an unknown caller or a tagged node runs, however
\* many requests come and whenever (cmd/tailsql/tailsql.go:146).
THEOREM TailnetAlwaysAuth == Spec => []TailnetAuth
<1>1. ASSUME IInv PROVE TailnetAuth
  <2> SUFFICES ASSUME NEW r \in Requests, opts.run = "tailnet",
                      req[r] \in {"running", "closed", "cut"}, ~ask[r].page
      PROVE  Known(ask[r].who) /\ ~ask[r].who.tagged
    BY DEF TailnetAuth
  <2>1. auth /\ CheckAuth(auth, Rule, ask[r].who, ask[r].page, ask[r].src)
    BY <1>1 DEF IInv, AuthInv
  <2>2. opts.authorize = "default"
    BY <1>1, OptionsTyped DEF IInv, TypeOK
  <2>3. Known(ask[r].who) /\ Authorize(Rule, ask[r].who, ask[r].src)
    BY <2>1, Zenon DEF CheckAuth
  <2>4. Authorize(Rule, ask[r].who, ask[r].src) <=> DefaultAuthorize(ask[r].who)
    BY <2>2 DEF Authorize, Rule
  <2> QED
    BY <2>3, <2>4 DEF DefaultAuthorize
<1> QED
  BY <1>1, Invariance, PTL

\* With HTTPS no request gets past the redirect on the plain port
\* (cmd/tailsql/tailsql.go:168-189).
THEOREM AlwaysHTTPS == Spec => []HTTPSOnly
<1>1. IInv => HTTPSOnly
  BY DEF IInv, PortInv, HTTPSOnly
<1> QED
  BY <1>1, Invariance, PTL

\* No request of the local service finds its database closed, for any number
\* of requests (cmd/tailsql/tailsql.go:119-120).
THEOREM NeverClosed == Spec => []NeverClosedUnder
<1>1. IInv => NeverClosedUnder
  BY DEF IInv, DrainInv
<1> QED
  BY <1>1, Invariance, PTL

\* A grant that matches a source is the source, or its beginning and a star.
LEMMA MatchIsPrefix ==
  ASSUME NEW g \in Seq(STRING), NEW src \in Seq(STRING), MatchSource(g, src)
  PROVE  g = src \/ \E n \in 0..Len(src) : g = SubSeq(src, 1, n) \o <<"*">>
<1>1. CASE g = src
  BY <1>1
<1>2. CASE g = <<"*">>
  <2> DEFINE e == SubSeq(src, 1, 0)
  <2>1. e \in Seq(STRING) /\ Len(e) = 0
    OBVIOUS
  <2>2. e = <<>>
    BY <2>1
  <2>3. <<>> \o g = g
    OBVIOUS
  <2>4. 0 \in 0..Len(src) /\ e \o <<"*">> = g
    <3> HIDE DEF e
    <3>1. 0 \in 0..Len(src)
      OBVIOUS
    <3>2. e \o <<"*">> = <<>> \o g
      BY <1>2, <2>2
    <3> QED
      BY <2>3, <3>1, <3>2
  <2> QED
    BY <2>4
<1>3. CASE Begins(g, src)
  <2> DEFINE n == Len(g) - 1
             h == SubSeq(src, 1, n) \o <<"*">>
  <2>1. n \in Nat /\ Len(g) = n + 1 /\ g[n + 1] = "*"
    BY <1>3 DEF Begins, Last
  <2>2. n <= Len(src) /\ \A i \in 1..n : g[i] = src[i]
    <3>1. Front(g) \in Seq(STRING) /\ Len(Front(g)) = n /\ \A i \in 1..n : Front(g)[i] = g[i]
      BY <2>1 DEF Front
    <3>2. IsPrefix(Front(g), src)
      BY <1>3 DEF Begins
    <3> QED
      BY <3>1, <3>2 DEF IsPrefix
  <2> HIDE DEF n
  <2>3. h \in Seq(STRING) /\ Len(h) = n + 1
    BY <2>1, <2>2
  <2>4. \A i \in 1..n : h[i] = src[i]
    BY <2>1, <2>2
  <2>5. h[n + 1] = "*"
    BY <2>1, <2>2
  <2>6. g = h
    BY <2>1, <2>2, <2>3, <2>4, <2>5
  <2> QED
    BY <2>1, <2>2, <2>6
<1> QED
  BY <1>1, <1>2, <1>3 DEF MatchSource

\* Under an authorizer of package authorizer only the callers it names run
\* queries, for any words as sources and grants (map.go:17-23,
\* aclgrant.go:53-55).
THEOREM AlwaysGranted == Spec => []GrantedOnly
<1>1. ASSUME IInv PROVE GrantedOnly
  <2> SUFFICES ASSUME NEW r \in Requests, opts.lc, req[r] = "running", ~ask[r].page
      PROVE  LET who == ask[r].who
                 src == ask[r].src
             IN  /\ Known(who)
                 /\ opts.authorize = "map" =>
                      ~who.tagged /\ (src = <<"a">> => who.login = "amelie")
                 /\ opts.authorize = "acl" =>
                      \E g \in who.grants :
                        g = src \/ \E n \in 0..Len(src) : g = SubSeq(src, 1, n) \o <<"*">>
    BY DEF GrantedOnly
  <2> DEFINE who == ask[r].who
             src == ask[r].src
  <2>1. auth /\ CheckAuth(auth, Rule, who, ask[r].page, src)
    BY <1>1 DEF IInv, AuthInv
  <2>2. Known(who) /\ Authorize(Rule, who, src)
    BY <2>1, Zenon DEF CheckAuth
  <2>3. src \in Seq(STRING) /\ who.grants \subseteq Seq(STRING)
    BY <1>1, AsksAssumption DEF IInv, TypeOK
  <2>4. opts.authorize = "map" => MapAuthorize(AccessMap, who, src)
    BY <2>2 DEF Authorize, Rule
  <2>5. opts.authorize = "acl" => ACLGrants(who, src)
    BY <2>2 DEF Authorize, Rule
  <2>6. opts.authorize = "map" => ~who.tagged /\ (src = <<"a">> => who.login = "amelie")
    BY <2>4 DEF MapAuthorize, AccessMap
  <2>7. opts.authorize = "acl" =>
          \E g \in who.grants :
            g = src \/ \E n \in 0..Len(src) : g = SubSeq(src, 1, n) \o <<"*">>
    <3> HAVE opts.authorize = "acl"
    <3>1. PICK g \in who.grants : MatchSource(g, src)
      BY <2>5 DEF ACLGrants
    <3> QED
      BY <2>3, <3>1, MatchIsPrefix
  <2> QED
    BY <2>2, <2>6, <2>7
<1> QED
  BY <1>1, Invariance, PTL
=============================================================================
