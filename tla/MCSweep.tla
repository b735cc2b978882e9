------------------------------ MODULE MCSweep ------------------------------
(***************************************************************************)
(* Sweep for TLC: doubles in units of a quarter of a step, off by one unit *)
(* in each addition; ints up to 3.  Ranges that the step divides and does  *)
(* not divide, of one point, and inverted; a step 0 and a bound INT_MAX,   *)
(* for which no end is promised.                                           *)
(***************************************************************************)
EXTENDS Sweep

MCJob(p, a, b, s, c, d, t, v, st) ==
  [prog |-> p, from |-> a, to |-> b, step |-> s, fromY |-> c, toY |-> d, stepY |-> t,
   valFrom |-> 1, valTo |-> v, stop |-> st]

MCJobs ==
  {MCJob(p, 0, b, 4, 0, 0, 4, 1, FALSE) : p \in {"flt_1dim", "task1", "task5"}, b \in {-2, 0, 7, 12}}
  \union {MCJob(p, 0, 8, 4, 0, 0, 4, 1, TRUE) : p \in {"flt_1dim", "task5"}}
  \union {MCJob("flt_2dim", 0, b, 4, 0, 4, 3, 1, st) : b \in {-1, 5}, st \in BOOLEAN}
  \union {MCJob("flt_2dim", 0, 5, 4, 0, 0, 3, 1, FALSE)}
  \union {MCJob("task1", 0, 2, 0, 0, 0, 4, 1, FALSE), MCJob("task8", 2, 3, 1, 0, 0, 1, 1, FALSE)}
  \union {MCJob("task1", 0, 2, -4, 0, 0, 4, 1, FALSE)}
  \union {MCJob(p, a, b, 1, 0, 0, 1, 1, FALSE) : p \in {"task2", "task8"}, a \in {-1, 1}, b \in {0, 2}}
  \union {MCJob("task3", -1, b, 1, -1, b, 1, 1, FALSE) : b \in {-1, 1, 2}}
  \union {MCJob("task4", -1, b, 1, -1, b, 1, v, FALSE) : b \in {-1, 1}, v \in 0..2}
=============================================================================
