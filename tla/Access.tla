------------------------------- MODULE Access --------------------------------
(***************************************************************************)
(* Who may query what: Server.checkAuth and the authorizers it asks, the   *)
(* default of Options.authorize and those of package authorizer.           *)
(*                                                                         *)
(* A caller is what WhoIs reports: its login ("failed" and "unknown" stand *)
(* for an error and for nobody), whether its node is tagged, and the       *)
(* grants of its tailsql capability ({<<"!">>} if they cannot be read).    *)
(* Names of sources and grants are short words, as only their beginnings   *)
(* and a final "*" matter.                                                 *)
(***************************************************************************)
EXTENDS SequencesExt

\* WhoIs reports somebody.
Known(who) == who.login \notin {"failed", "unknown"}

Unreadable == {<<"!">>}

\* CutSuffix, and HasPrefix of what it leaves.
Begins(grant, src) ==
  /\ Len(grant) > 1 /\ Last(grant) = "*"
  /\ IsPrefix(Front(grant), src)

(* Mutant of MatchSource: every grant is a prefix.                         *)
MatchSourcePrefix(grant, src) == IsPrefix(grant, src) \/ Begins(grant, src)

MatchSource(grant, src) == grant \in {<<"*">>, src} \/ Begins(grant, src)

\* authorizer.ACLGrants: the login and the tags do not matter.
ACLGrants(who, src) ==
  /\ who.grants # Unreadable
  /\ \E grant \in who.grants : MatchSource(grant, src)

\* authorizer.Map.Authorize, for the map m from sources to sets of logins.
MapAuthorize(m, who, src) ==
  /\ ~who.tagged
  /\ src \in DOMAIN m => who.login \in m[src]

\* The default of Options.authorize.
DefaultAuthorize(who) == ~who.tagged

\* The function Options.authorize returns, for rule = [kind, map].
Authorize(rule, who, src) ==
  CASE rule.kind = "acl" -> ACLGrants(who, src)
    [] rule.kind = "map" -> MapAuthorize(rule.map, who, src)
    [] rule.kind = "default" -> DefaultAuthorize(who)

\* checkAuth, with or without a local client: may who have the page (the UI
\* or the metadata, and no query), or query src?
CheckAuth(lc, rule, who, page, src) ==
  ~lc \/ (Known(who) /\ (page \/ Authorize(rule, who, src)))
=============================================================================
