-------------------------- MODULE MCBruteForceSAT --------------------------
(* A small engine: two variables, n_vars from 0 to one past MaxVars, unused, *)
(* positive and negative literals, and one that names a missing variable.    *)
EXTENDS BruteForceSAT

MCVarsIn == {1, 2, 3}
MCClausesIn == {1, 2}
MCLitsIn == {<<0, 0, 0>>, <<0, 0, 1>>, <<0, 1, 1>>, <<1, 0, 1>>, <<2, 1, 1>>}
=============================================================================
