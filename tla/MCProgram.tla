------------------------------ MODULE MCProgram ------------------------------
(* Instances of Program for TLC.                                           *)
EXTENDS Program, TLC

a == <<"a">>
ab == <<"a", "b">>
MCNames == {a, ab}
MCNoName == <<>>

URLOf(n) == [source |-> n, db |-> FALSE, driver |-> TRUE, given |-> {"URL"}]

\* A program that embeds the server: one source of any kind, valid or not,
\* alone or after one with a URL, with and without everything else.
MCEmbedded ==
  [sources : {<<s>> : s \in DBSpecs} \cup {<<URLOf(a), s>> : s \in DBSpecs},
   state : BOOLEAN, self : {NoName, ab}, store : BOOLEAN, run : {"embedded"},
   https : {FALSE}, lc : {FALSE}, authorize : {"default"}]

\* The same with authorizers and two sources.
MCAuthorized ==
  [sources : {<<URLOf(a), URLOf(ab)>>}, state : {FALSE}, self : {NoName},
   store : {FALSE}, run : {"embedded"}, https : {FALSE}, lc : {TRUE},
   authorize : {"default", "acl", "map"}]

\* The command, with two sources or the log as the second.
MCCommand ==
  [sources : {<<URLOf(a)>>, <<URLOf(a), URLOf(ab)>>}, state : BOOLEAN,
   self : {ab}, store : {FALSE}, run : {"init", "local", "tailnet"},
   https : BOOLEAN, lc : {FALSE}, authorize : {"default"}]

MCConfigs == MCEmbedded \cup MCAuthorized \cup MCCommand

Who(login, tagged, grants) ==
  [login |-> login, tagged |-> tagged, grants |-> grants]

MCAsks ==
  [who : {Who("failed", FALSE, {}), Who("unknown", FALSE, {}),
          Who("amelie", FALSE, {<<"a">>}),
          Who("carol", FALSE, {<<"b", "*">>, <<"a", "*">>}),
          Who("node", TRUE, {<<"*">>}), Who("node", TRUE, Unreadable)},
   page : {FALSE}, src : {a, ab}]
  \cup [who : {Who("unknown", FALSE, {}), Who("node", TRUE, {})}, page : {TRUE}, src : {a}]
=============================================================================
