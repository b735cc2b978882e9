---------------------------- MODULE MCEngIntRun ----------------------------
(***************************************************************************)
(* Instances of EngIntRun for TLC: three nested loops over arrays of four  *)
(* dimensions (so that a dimension in use may have no loop, as DIM = 11    *)
(* has none of ten), bounds in -3..2, steps 1 and 2 and, in a dimension    *)
(* that is not in use, also 0.                                             *)
(***************************************************************************)
EXTENDS EngIntRun

(* One axis of a request: <<from, to, step>>. *)
MCUnit == {<<-2, 1, 1>>, <<0, 2, 1>>, <<1, 2, 1>>, <<2, 0, 1>>}
MCAxes == MCUnit \union {<<-2, 1, 2>>, <<-3, -1, 2>>, <<0, 2, 2>>}
MCIdle == <<0, 0, 1>>
MCFlags == {{"PRINT"}, {"PRINT", "STOP_RUN"}, {}}

MCRequest(n, x, y, z, fl, t) ==
  LET ax == <<x, y, z, MCIdle>> IN
  [useDim |-> n, from |-> [d \in 1..4 |-> ax[d][1]], to |-> [d \in 1..4 |-> ax[d][2]],
   step |-> [d \in 1..4 |-> ax[d][3]], flags |-> fl, targetValue |-> t]

(* A box whose far corner holds a solution, (-3, -2), before the near ones; *)
(* three, two and one dimensions in use, the others holding bounds that    *)
(* must be zeroed; a step 0 in a dimension that is not in use, as          *)
(* eng_create_int leaves it; a DIM with no case in wrap_int.               *)
MCRequests ==
  {MCRequest(2, <<-3, 1, 1>>, <<-2, 1, 1>>, MCIdle, fl, 0) : fl \in MCFlags}
  \union {MCRequest(3, x, y, <<-1, 1, 2>>, fl, 0) : x \in MCUnit, y \in MCAxes, fl \in MCFlags}
  \union {MCRequest(2, x, y, <<-1, 2, 1>>, fl, 0) : x \in MCAxes, y \in MCAxes, fl \in MCFlags}
  \union {MCRequest(1, x, <<-1, 1, 1>>, MCIdle, fl, 0) : x \in MCAxes, fl \in MCFlags}
  \union {MCRequest(1, <<0, 2, 2>>, <<-1, 1, 0>>, MCIdle, {"PRINT"}, 0)}
  \union {MCRequest(n, <<0, 1, 1>>, <<-1, 0, 1>>, MCIdle, {"PRINT"}, 0) : n \in {0, 4}}

MCTargetRequests ==
  {MCRequest(2, x, y, MCIdle, {"PRINT", "TARGET_VALUE"}, t)
   : x \in MCUnit, y \in MCUnit, t \in {1, 2}}

MCCoord(x, d) == IF d \in DOMAIN x THEN x[d] ELSE 0

(* x + xy + y = 1 + z, which has no solution on the axis of the request     *)
(* with step 0 (its endless count would be an endless state space).         *)
MCHolds(x, t) ==
  MCCoord(x, 1) + MCCoord(x, 1) * MCCoord(x, 2) + MCCoord(x, 2) = 1 + MCCoord(x, 3)

MCVal(x) == 2 * MCCoord(x, 1) + MCCoord(x, 2) * MCCoord(x, 3)

MCHoldsTarget(x, t) == x[1] + x[2] = t
MCGarbage == {0, 1, 7}
=============================================================================
