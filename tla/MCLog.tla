------------------------------- MODULE MCLog -------------------------------
(***************************************************************************)
(* Log for TLC: a module that logs under the default table and one that    *)
(* only logs under another, calls three deep, an offset that leaks may     *)
(* push three calls further.                                               *)
(***************************************************************************)
EXTENDS Log

MCModules == {"DEFAULT_MOD", "A"}
MCTables == {{"A"}, {"DEFAULT_MOD", "A"}, {}}
=============================================================================
