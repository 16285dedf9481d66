------------------------------- MODULE Startup -------------------------------
(***************************************************************************)
(* NewServer: the sources of the Options are validated and opened one      *)
(* after the other, then the local state, and any of it may fail half-way. *)
(*                                                                         *)
(* A step is one call that can fail.  The database of the i-th source is   *)
(* named i; the local state has two connections, "rw" and "ro".  What a    *)
(* connection string says does not matter, only which of them are given.   *)
(***************************************************************************)
EXTENDS Naturals, Sequences, FiniteSets

CONSTANTS Names,   \* names of sources
          NoName,  \* the empty name
          Configs  \* the Options the program may be started with

ASSUME NamesAssumption == NoName \notin Names

Connections == {"URL", "KeyFile", "Secret"}

DBSpecs == [source : Names \cup {NoName}, db : BOOLEAN, driver : BOOLEAN,
            given : SUBSET Connections]

VARIABLES
  opts,  \* the Options
  made,  \* how far NewServer has come
  srcs,  \* the names of the handles made so far
  open,  \* the open databases of the sources
  log    \* the open connections of the local state

server == <<made, srcs, open, log>>

Stages == {"idle", "check", "sources", "state", "schema", "readonly",
           "ready", "failed", "panic"}

ServerTypeOK ==
  /\ made \in Stages
  /\ srcs \in Seq(Names)
  /\ open \subseteq Nat
  /\ log \subseteq {"rw", "ro"}

ServerInit == made = "idle" /\ srcs = <<>> /\ open = {} /\ log = {}
-----------------------------------------------------------------------------
Stage(m) == made' = m

(* Mutant of CheckValid: a programmatic source needs no further check, and *)
(* others may have no connection string.                                   *)
CheckValidAtMostOne(spec) ==
  /\ spec.source # NoName
  /\ spec.db \/ (spec.driver /\ Cardinality(spec.given) <= 1)

\* countFields and checkValid.
CheckValid(spec) ==
  /\ spec.source # NoName
  /\ IF spec.db THEN spec.given = {}
     ELSE spec.driver /\ Cardinality(spec.given) = 1

NeedsSecret(spec) == "Secret" \in spec.given

\* CheckSources and what NewServer makes of it.
CheckSources ==
  /\ made = "check"
  /\ LET specs == {opts.sources[i] : i \in DOMAIN opts.sources}
     IN  Stage(IF /\ \A spec \in specs : CheckValid(spec)
                  /\ opts.store \/ \A spec \in specs : ~NeedsSecret(spec)
               THEN "sources" ELSE "failed")
  /\ UNCHANGED <<srcs, open, log>>

\* The source openSources comes to next.
Following == Len(srcs) + 1
AtSource == made = "sources" /\ Following \in DOMAIN opts.sources
SpecToOpen == opts.sources[Following]

\* A programmatic source is taken as it is, another one is opened and pinged.
OpenSource ==
  /\ AtSource
  /\ \/ SpecToOpen.db \/ SpecToOpen.given \cap {"URL", "KeyFile"} # {}
     \/ NeedsSecret(SpecToOpen) /\ opts.store
  /\ srcs' = Append(srcs, SpecToOpen.source)
  /\ open' = open \cup {Following}
  /\ UNCHANGED <<made, log>>

\* The secret or the key file is missing, the driver unknown, or the ping
\* fails and openAndPing closes the database; earlier ones stay open.  Without
\* any connection string, or with a secret and no store, openSources panics.
FailSource ==
  /\ AtSource
  /\ ~SpecToOpen.db
  /\ Stage(IF SpecToOpen.given = {} \/ (NeedsSecret(SpecToOpen) /\ ~opts.store)
           THEN "panic" ELSE "failed")
  /\ UNCHANGED <<srcs, open, log>>

\* All sources are open; without local state the server is done.
EndSources ==
  /\ made = "sources" /\ Following \notin DOMAIN opts.sources
  /\ Stage(IF opts.state THEN "state" ELSE "ready")
  /\ UNCHANGED <<srcs, open, log>>

\* newLocalState: the database is opened to write, gets its schema, and is
\* opened once more to read.
OpenState ==
  /\ made = "state"
  /\ \/ log' = {"rw"} /\ Stage("schema")
     \/ Stage("failed") /\ UNCHANGED log
  /\ UNCHANGED <<srcs, open>>

ApplySchema ==
  /\ made = "schema"
  /\ \/ Stage("readonly") /\ UNCHANGED log
     \/ Stage("failed") /\ log' = log \ {"rw"}
  /\ UNCHANGED <<srcs, open>>

(* Mutant of OpenReadOnly: a failure leaves the writer open.               *)
OpenReadOnlyLeaks ==
  /\ made = "readonly"
  /\ \/ /\ log' = log \cup {"ro"}
        /\ srcs' = IF opts.self # NoName THEN Append(srcs, opts.self) ELSE srcs
        /\ Stage("ready")
     \/ Stage("failed") /\ UNCHANGED <<log, srcs>>
  /\ UNCHANGED open

(* Mutant of OpenReadOnly: the local state becomes the first source.       *)
OpenReadOnlyFirst ==
  /\ made = "readonly"
  /\ \/ /\ log' = log \cup {"ro"}
        /\ srcs' = IF opts.self # NoName THEN <<opts.self>> \o srcs ELSE srcs
        /\ Stage("ready")
     \/ Stage("failed") /\ log' = log \ {"rw"} /\ UNCHANGED srcs
  /\ UNCHANGED open

\* The local state becomes the last source if it has a name.
OpenReadOnly ==
  /\ made = "readonly"
  /\ \/ /\ log' = log \cup {"ro"}
        /\ srcs' = IF opts.self # NoName THEN Append(srcs, opts.self) ELSE srcs
        /\ Stage("ready")
     \/ Stage("failed") /\ log' = log \ {"rw"} /\ UNCHANGED srcs
  /\ UNCHANGED open

NewServer ==
  \/ CheckSources \/ OpenSource \/ FailSource \/ EndSources
  \/ OpenState \/ ApplySchema \/ OpenReadOnly
-----------------------------------------------------------------------------
(* Properties.                                                             *)

\* Sources that CheckSources accepts, with the store NewServer insists on,
\* never reach the panic of openSources or a secret without a store: the
\* precondition of openSources holds (tailsql.go:131-136, options.go:118, 181).
NoPanic == made # "panic"

\* A NewServer that fails leaves open no more than the databases of sources
\* before the one that failed, and no half of a local state; while it goes
\* on, it holds what its handles stand for (options.go:186-188, 204-206,
\* local.go:63-72).
FailureLeaves ==
  /\ made \in {"sources", "failed"} => open = 1..Len(srcs)
  /\ made = "failed" => log = {} /\ Len(srcs) <= Len(opts.sources)

\* A server that is ready has a handle for every source of the Options, in
\* their order, and after them the local state if it is both kept and named;
\* it keeps both connections of a local state or neither, and started with
\* every database open (tailsql.go:138-156).
ReadyIsWhole ==
  made = "ready" =>
    /\ Len(srcs) = Len(opts.sources) + (IF "rw" \in log /\ opts.self # NoName
                                        THEN 1 ELSE 0)
    /\ \A i \in DOMAIN opts.sources : srcs[i] = opts.sources[i].source
    /\ Len(srcs) > Len(opts.sources) => srcs[Len(srcs)] = opts.self
    /\ log = IF opts.state THEN {"rw", "ro"} ELSE {}

\* NewServer, at whichever of its calls it fails or not, returns a server that
\* is whole or an error that leaves no half of one, and does not panic
\* (tailsql.go:127-173, options.go:118-232).
AllOrNothing == NoPanic /\ FailureLeaves /\ ReadyIsWhole
=============================================================================
