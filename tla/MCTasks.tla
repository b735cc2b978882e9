------------------------------ MODULE MCTasks ------------------------------
(***************************************************************************)
(* Three sequential programs for TLC, in one run: the sweeps, the searches *)
(* of the digit puzzles and the file comparison, with the instances of     *)
(* MCSweep, MCOpSearch and MCCompare.  They share nothing.  One of them    *)
(* runs, and the other two stay where they begin.                          *)
(***************************************************************************)
EXTENDS MCSweep, MCOpSearch, MCCompare

VARIABLE program  \* the one that runs

(* A sweep that does not run is one for which no end is promised.           *)
MCIdleJob == CHOOSE one \in MCJobs : one.step = 0
MCIdlePuzzle == CHOOSE one \in MCPuzzles : one.prog = "95"

MCInit ==
  /\ program \in {"sweep", "search", "compare"}
  /\ Init /\ (program # "sweep" => job = MCIdleJob)
  /\ OInit /\ (program # "search" => puzzle = MCIdlePuzzle)
  /\ CInit

MCSweepNext == program = "sweep" /\ Next /\ UNCHANGED <<program, ovars, cvars>>
MCSearchNext == program = "search" /\ ONext /\ UNCHANGED <<program, vars, cvars>>
MCCompareNext == program = "compare" /\ CNext /\ UNCHANGED <<program, vars, ovars>>

MCNext == MCSweepNext \/ MCSearchNext \/ MCCompareNext

MCSpec == MCInit /\ [][MCNext]_<<program, vars, ovars, cvars>> /\ WF_vars(MCSweepNext)
=============================================================================
