------------------------------ MODULE MCServer ------------------------------
(* Instances of Server for TLC.                                            *)
EXTENDS Server, TLC

CONSTANTS s1, s2, log

\* NewServer opens one source and the query log.
MCOpened == <<s1, log>>

\* A caller with access to all but the first source, which does not refuse a
\* request for naming none (as Map.Authorize), and one with access to the
\* first source and the one that is yet to come.
MCRights == {{s2, log, NoSource}, {s1, s2}}

\* Access to everything.
MCAll == {Sources \cup {NoSource}}
=============================================================================
