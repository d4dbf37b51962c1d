----------------------------- MODULE MCBrowser -----------------------------
(* Instances of Browser for TLC; the constants are in the .cfg files.      *)
EXTENDS Browser

\* The artists list is longer than the albums list, and both scroll.
Extents == [l \in Lists |-> IF l = "artists" THEN 2 ELSE 1]

CONSTANTS id1, id2
Tabs == {<<"home", None>>, <<"login", None>>, <<"artists", None>>, <<"playlist", id1>>}
=============================================================================
