------------------------------ MODULE MCAnswer -------------------------------
(* Instances of Answer for TLC.                                            *)
EXTENDS Answer

MCLayouts == {<<>>, <<"c">>, <<"">>, <<"password">>, <<"c", "d">>, <<"c", "c">>}
MCColumn == {<<"c">>}
MCRules == <<"blot", "stripe", "sql", "json", "url">>
=============================================================================
