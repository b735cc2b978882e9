--------------------------- MODULE MCErrorProgram ---------------------------
(***************************************************************************)
(* ErrorProgram for TLC: the suite of error.c as it is written, and with   *)
(* tests switched off, repeated, or not mandatory.  The static array holds *)
(* three errors and grows by two; tf2 raises eight, so the array grows     *)
(* three times.                                                            *)
(***************************************************************************)
EXTENDS ErrorProgram

MCSuite(m, c) ==
  [n \in 1..7 |-> [num |-> n, mandatory |-> m, deps |-> {}, count |-> c[n]]]

MCSuites ==
  {MCSuite(m, c) : m \in BOOLEAN,
     c \in {f \in [1..7 -> 0..2] : f[1] = f[2] /\ f[4] = f[5] /\ f[7] = 1}}

MCEntries == [type : {"ERR_USER"}, code : Nat]
=============================================================================
