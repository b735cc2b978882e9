---------------------------- MODULE MCTestEngine ----------------------------
(***************************************************************************)
(* TestEngine for TLC: suites of three tests with and without dependencies *)
(* (on an earlier test, on a later one, on the last one, on one that is    *)
(* not there), mandatory tests, an inactive one, one that is repeated,     *)
(* and two that share a number.                                            *)
(***************************************************************************)
EXTENDS TestEngine

MCTest(n, m, d, c) == [num |-> n, mandatory |-> m, deps |-> d, count |-> c]

MCSuites ==
  {<<MCTest(1, FALSE, {}, 1), MCTest(2, m, {1}, c), MCTest(3, FALSE, d, 1)>> :
     m \in BOOLEAN, c \in {0, 2}, d \in {{1, 2}, {9}}}
  \union {<<MCTest(3, TRUE, {}, 1), MCTest(1, FALSE, {d}, 1), MCTest(2, TRUE, {1}, 1)>> : d \in {2, 3}}
  \union {<<MCTest(n, FALSE, {}, 1), MCTest(1, FALSE, {}, 1), MCTest(0, FALSE, {1}, 1)>> : n \in {0, 1}}
=============================================================================
