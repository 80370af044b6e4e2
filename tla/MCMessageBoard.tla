--------------------------- MODULE MCMessageBoard ---------------------------
(***************************************************************************)
(* Instances of MessageBoard for TLC: small models of agents a and b.      *)
(***************************************************************************)
EXTENDS MessageBoard

\* Agent a posts in two functions in sequence and b in none; both read.
TwoAgents == [f \in Functions |-> IF f = "b_read" THEN "b" ELSE "a"]
PostPostRead == {<<"a_post1", "a_post2">>, <<"a_post2", "a_read">>}

\* One agent whose second reading function needs data of the first.
OneAgent == [f \in Functions |-> "a"]
ReadThenRead == {<<"a_read1", "a_read2">>}

\* The hypotheses of the theorems about the board, on these instances: they hold of the
\* first; in the second a function reads after another.
ASSUME ReadersApartHere == Acyclic /\ Reads # {} /\ (ReadersApart <=> DataDeps # ReadThenRead)
=============================================================================
