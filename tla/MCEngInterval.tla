--------------------------- MODULE MCEngInterval ---------------------------
(***************************************************************************)
(* EngInterval for TLC: two nested loops, a range of three target values,  *)
(* a result set that the larger boxes fill and the smaller ones do not.    *)
(***************************************************************************)
EXTENDS EngInterval

MCRequest(x, y, s, fl, t) ==
  LET ax == <<x, y, <<0, 0>>>> IN
  [useDim |-> 2, from |-> [d \in 1..3 |-> ax[d][1]], to |-> [d \in 1..3 |-> ax[d][2]],
   step |-> [d \in 1..3 |-> s], flags |-> fl, targetValue |-> t]

MCBounds == {<<-2, 1>>, <<0, 2>>, <<1, 2>>}
MCRequests ==
  {MCRequest(x, y, s, fl, t) : x \in MCBounds, y \in MCBounds, s \in {1, 2},
                            fl \in {{"PRINT"}, {"PRINT", "STOP_RUN", "TARGET_VALUE"}},
                               t \in 0..ValTo}

MCHolds(x, t) == x[2] # 0 /\ x[1] >= x[2] - 1
MCVal(x) == 2 * x[1] + 3 * x[2]
=============================================================================
