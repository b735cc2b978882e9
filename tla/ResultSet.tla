----------------------------- MODULE ResultSet -----------------------------
(***************************************************************************)
(* The result set of the engine (utils/eng_runner.c, eng_check_previous):  *)
(* the values of the solutions seen so far, in the order they were saved.  *)
(* prev_results[0 .. pos_result-1] is the sequence prev, pos_result is     *)
(* Len(prev).  A value is a double in the code; only |a - b| < g_eng_eps   *)
(* is ever asked of two of them, so a value is an integer here and Eps is  *)
(* g_eng_eps on the same scale.                                            *)
(***************************************************************************)
EXTENDS Integers, Sequences

CONSTANTS
  ResCap,  \* ENG_PREV_RES_CNT, 100 in the code
  Eps      \* g_eng_eps

ASSUME ResultSetAssumption == ResCap \in Nat \ {0} /\ Eps \in Nat \ {0}

Near(a, b) == a - b < Eps /\ b - a < Eps

(* What eng_check_previous answers: some saved value is near v. *)
CheckPrevious(prev, v) == \E i \in 1..Len(prev) : Near(v, prev[i])

Full(prev) == Len(prev) >= ResCap

(* Fault: the capacity is not checked. *)
RememberUnbounded(prev, v) ==
  IF CheckPrevious(prev, v) THEN prev ELSE Append(prev, v)

(* What eng_check_previous leaves in the set: v is saved when no saved value *)
(* is near it and there is room; when there is none it only complains.       *)
Remember(prev, v) ==
  IF CheckPrevious(prev, v) \/ Full(prev) THEN prev ELSE Append(prev, v)

(* The saved values are pairwise further apart than g_eng_eps and fit the    *)
(* array: the two facts the callers of eng_check_previous rely on.           *)
WellSpaced(prev) ==
  /\ Len(prev) <= ResCap
  /\ \A i, j \in 1..Len(prev) : i # j => ~Near(prev[i], prev[j])
=============================================================================
