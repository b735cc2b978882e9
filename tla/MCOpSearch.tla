----------------------------- MODULE MCOpSearch -----------------------------
(***************************************************************************)
(* OpSearch for TLC: strings of up to four symbols, with zeros (division   *)
(* by zero), equal digits, and operators already in the pattern; budgets   *)
(* below, at and beyond the number of places; a value that is the marker   *)
(* of the undefined.                                                       *)
(***************************************************************************)
EXTENDS OpSearch

MCPuzzle(p, s, v, b) == [prog |-> p, str |-> s, value |-> v, budget |-> b]

MCPlain == {<<"3", "3", "3">>, <<"1", "2", "3", "4">>, <<"8", "4", "2">>}
MCPatterned == {<<"6", "/", "4", "-", "2">>, <<"-", "9", "+", "*", "3", "3", "/">>}

MCPuzzles ==
  {MCPuzzle("91", s, v, b) : s \in MCPlain, v \in {6, 24}, b \in 1..5}
  \union {MCPuzzle("93", s, v, b) : s \in MCPlain \union MCPatterned, v \in {2, 6, Undefined}, b \in 0..3}
  \union {MCPuzzle("93", <<"6", "0", "2">>, 2, b) : b \in {1, 2}}
  \union {MCPuzzle("95", s, v, 1) : s \in {<<"5">>, <<"1", "2", "3">>, <<"7", "7", "7", "7">>, <<"1", "-", "2", "3">>, <<"4", "2", "/", "1">>},
                                 v \in {2, 3}}
=============================================================================
