----------------------------- MODULE MCCompare -----------------------------
(***************************************************************************)
(* Compare for TLC: a letter in both cases, another one and a blank; texts *)
(* of up to three characters, among them those in which a search must go   *)
(* back, and one too long for the buffer; up to four in the file, so that  *)
(* a test writes more than once.                                           *)
(***************************************************************************)
EXTENDS Compare

MCChars == {"a", "A", "b", " "}
MCUpper == [c \in MCChars |-> IF c = "a" THEN "A" ELSE IF c = "b" THEN "B" ELSE c]
MCTexts ==
  {<<>>} \union {<<c>> : c \in MCChars}
  \union {<<"a", c>> : c \in MCChars} \union {<<"A", "b">>, <<" ", "a">>, <<" ", " ">>}
  \union {<<"a", "a", "b">>, <<"a", "A", "b">>, <<"A", " ", "b">>, <<"a", " ", " ">>, <<" ", "a", "b">>}
  \union {<<"a", "a", "a", "b">>}
=============================================================================
