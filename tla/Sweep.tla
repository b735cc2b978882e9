------------------------------- MODULE Sweep -------------------------------
(***************************************************************************)
(* The sweeps that step through a range without the cubes of eng_int_run:  *)
(* eng_flt_1dim and eng_flt_2dim of utils/eng_runner.c, and the engines of *)
(* the first programs (task1.c, task2.c, task3.c, 4task.c, 5task.c and     *)
(* 8task.c) they were made from.                                           *)
(*                                                                         *)
(* Doubles are integers in a fine unit, and each addition of a step may be *)
(* off by as much as Err.  An int wraps around beyond IntMax, as it does   *)
(* without optimisation.  The target function answers what it likes.       *)
(***************************************************************************)
EXTENDS Integers, Sequences, FiniteSets

CONSTANTS
  Jobs,    \* calls: the program, its range and its arguments, see JobTypes
  Err,     \* bound of the rounding error of one addition
  IntMax,  \* INT_MAX
  MaxAsked \* bound: points of a call (an endless one has no end of them)

Doubles == {"flt_1dim", "flt_2dim", "task1", "task5"}      \* loops over doubles
Nested == {"flt_2dim", "task3", "task4"}                \* two dimensions
Intervals == {"flt_1dim", "task1"}                      \* report runs of points
Strict == {"task3", "task4"}                            \* x < to, where the others have <=

JobTypes ==
  [prog : Doubles \union Strict \union {"task2", "task8"}, stop : BOOLEAN,
   from : Int, to : Int, step : Int, fromY : Int, toY : Int, stepY : Int,
   valFrom : Int, valTo : Int]

(* The programs over ints step by 1, and the bounds they read are ints.     *)
ASSUME SweepAssumption ==
  /\ Err \in Nat /\ IntMax \in Nat /\ MaxAsked \in Nat
  /\ Jobs \subseteq JobTypes
  /\ \A j \in Jobs : j.prog \notin Doubles =>
       j.step = 1 /\ {j.from, j.to, j.fromY, j.toY} \subseteq (-IntMax - 1)..IntMax

VARIABLES
  pc,      \* "start", "value", "x", "y" or "done"
  job,
  val,     \* 4task: i of check_interval
  x, y,    \* the loop variables
  in,      \* the last point was true (in, in_interval)
  count,   \* of the call: total, cnt, count
  total,   \* what the program has counted over all calls
  reports  \* printed by the call: points, or [lo, hi] of an interval

(* History: the points of the current call with their answers; how it ended. *)
VARIABLES visited, stopped

vars == <<pc, job, val, x, y, in, count, total, reports, visited, stopped>>

Prog == job.prog

Init ==
  /\ job \in Jobs
  /\ pc = "start" /\ val = job.valFrom /\ x = job.from /\ y = job.fromY /\ in = FALSE
  /\ count = 0 /\ total = 0 /\ reports = <<>> /\ visited = <<>> /\ stopped = FALSE

Rounded(n) == IF Prog \in Doubles THEN {n + e : e \in -Err..Err} ELSE {n}
Wrapped(n) == IF Prog \notin Doubles /\ n > IntMax THEN n - 2 * (IntMax + 1) ELSE n
After(n, step) == IF step = 0 THEN {n} ELSE {Wrapped(m) : m \in Rounded(n + step)}

(* What main asks before it starts: task1 refuses an inverted range, but no *)
(* step 0; task2 starts only when the upper bound is above 1.               *)
Refused ==
  \/ Prog = "task1" /\ (job.step < 0 \/ job.from > job.to)
  \/ Prog = "task2" /\ job.to <= 1

Start ==
  /\ pc = "start"
  /\ pc' = IF Refused THEN "done" ELSE "value"
  /\ UNCHANGED <<job, val, x, y, in, count, total, reports, visited, stopped>>

(* One call of the engine, for each value; only 4task has several.          *)
NextValue ==
  /\ pc = "value" /\ val <= job.valTo
  /\ x' = job.from /\ in' = FALSE /\ count' = 0 /\ visited' = <<>> /\ stopped' = FALSE
  /\ reports' = <<>> /\ pc' = "x"
  /\ UNCHANGED <<job, val, y, total>>

EndValues ==
  /\ pc = "value" /\ val > job.valTo
  /\ pc' = "done"
  /\ UNCHANGED <<job, val, x, y, in, count, total, reports, visited, stopped>>

InX == IF Prog \in Strict THEN x < job.to ELSE x <= job.to
InYClosed == y <= job.toY             \* fault: the other comparison
InY == y < job.toY

EnterRow ==
  /\ pc = "x" /\ InX /\ Prog \in Nested
  /\ y' = job.fromY /\ pc' = "y"
  /\ UNCHANGED <<job, val, x, in, count, total, reports, visited, stopped>>

LeaveRow ==
  /\ pc = "y" /\ ~InY
  /\ x' \in After(x, job.step) /\ pc' = "x"
  /\ UNCHANGED <<job, val, y, in, count, total, reports, visited, stopped>>

Return(n, rs) ==
  /\ total' = total + n /\ val' = val + 1 /\ pc' = "value" /\ reports' = rs

(* The end of the range: an interval still open is reported as such.        *)
EndRange ==
  /\ pc = "x" /\ ~InX
  /\ Return(count, IF in /\ Prog \in Intervals
                   THEN [reports EXCEPT ![Len(reports)].hi = "more"] ELSE reports)
  /\ UNCHANGED <<job, x, y, in, count, visited, stopped>>

AtPoint ==
  /\ Len(visited) < MaxAsked
  /\ (pc = "x" /\ InX /\ Prog \notin Nested) \/ (pc = "y" /\ InY)

(* Fault: a step is made after a false point only. *)
StepOnMiss ==
  IF in' THEN UNCHANGED <<x, y>> ELSE x' \in After(x, job.step) /\ UNCHANGED y

Step ==
  IF Prog \in Nested THEN y' \in After(y, IF Prog \in Doubles THEN job.stepY ELSE 1) /\ UNCHANGED x
  ELSE x' \in After(x, job.step) /\ UNCHANGED y

(* The programs that report every true point. *)
Point(ans) ==
  /\ AtPoint /\ Prog \notin Intervals
  /\ visited' = Append(visited, [x |-> x, y |-> y, ans |-> ans])
  /\ in' = ans
  /\ LET rs == IF ans THEN Append(reports, <<x, y>>) ELSE reports IN
     IF ans /\ job.stop
     THEN Return(1, rs) /\ stopped' = TRUE /\ UNCHANGED <<x, y, count>>
     ELSE /\ Step /\ count' = (IF ans THEN count + 1 ELSE count) /\ reports' = rs
          /\ UNCHANGED <<pc, val, total, stopped>>
  /\ UNCHANGED job

(* The end of an interval is printed as the point reached less the step,    *)
(* "when stepX is constant".                                                *)
UpperEndHere == {x}                   \* fault: the step is not taken back
UpperEnd == Rounded(x - job.step)

(* The programs that report intervals.  eng_flt_1dim counts intervals, task1 *)
(* points.                                                                  *)
Interval(ans) ==
  /\ AtPoint /\ Prog \in Intervals
  /\ visited' = Append(visited, [x |-> x, y |-> y, ans |-> ans])
  /\ in' = ans
  /\ IF ans /\ ~in /\ job.stop
     THEN Return(1, reports) /\ stopped' = TRUE /\ UNCHANGED <<x, y, count>>
     ELSE /\ \E hi \in UpperEnd :
               reports' = CASE ans /\ ~in -> Append(reports, [lo |-> x, hi |-> "open"])
                            [] ~ans /\ in -> [reports EXCEPT ![Len(reports)].hi = hi]
                            [] OTHER -> reports
          /\ count' = IF ans /\ (Prog = "task1" \/ ~in) THEN count + 1 ELSE count
          /\ Step
          /\ UNCHANGED <<pc, val, total, stopped>>
  /\ UNCHANGED job

Next ==
  \/ Start \/ NextValue \/ EndValues \/ EnterRow \/ LeaveRow \/ EndRange
  \/ \E ans \in BOOLEAN : Point(ans) \/ Interval(ans)

Spec == Init /\ [][Next]_vars /\ WF_vars(Next)

(***************************************************************************)
(* Properties.                                                             *)
(***************************************************************************)
Ended == pc = "value" /\ val > job.valFrom     \* a call has ended
HitAt == {k \in DOMAIN visited : visited[k].ans}
Place(k, S) == Cardinality({b \in S : b <= k})        \* of k among the numbers S
Close(a, b) == a - b \in (-2 * Err)..(2 * Err)

(* Points where a run of true points begins, and the end of such a run.     *)
Begins == {k \in HitAt : k = 1 \/ ~visited[k - 1].ans}
IsRun(k, m) ==
  /\ \A j \in k..m : visited[j].ans
  /\ m = Len(visited) \/ ~visited[m + 1].ans
RunEnd(k) == CHOOSE m \in k..Len(visited) : IsRun(k, m)

(* What is printed is what was found: the true points in order, or the      *)
(* maximal runs of true points, whose printed upper end is within two       *)
(* rounding errors of the last true point although it is computed from the  *)
(* first false one, and is "AND MORE" if there is none; and the count       *)
(* returned is the number of what was printed (of points, in task1).        *)
ReportsRuns ==
  Ended /\ ~stopped =>
    IF Prog \notin Intervals
    THEN /\ Len(reports) = Cardinality(HitAt) /\ count = Len(reports)
         /\ \A k \in HitAt : reports[Place(k, HitAt)] = <<visited[k].x, visited[k].y>>
    ELSE /\ Len(reports) = Cardinality(Begins)
         /\ count = IF Prog = "task1" THEN Cardinality(HitAt) ELSE Len(reports)
         /\ \A k \in Begins :
              LET r == reports[Place(k, Begins)] m == RunEnd(k) IN
              /\ r.lo = visited[k].x
              /\ IF m = Len(visited) THEN r.hi = "more" ELSE Close(r.hi, visited[m].x)

(* A call that was not stopped has asked the whole range: over ints every   *)
(* point once; over doubles, points that leave no gap wider than a step and *)
(* an error between the lower and the upper bound, in every row (and none   *)
(* at all if the rows are empty).  A call stopped at a true point has found *)
(* none before it.                                                          *)
Grid ==
  IF Prog \in Nested THEN (job.from..(job.to - 1)) \X (job.fromY..(job.toY - 1))
  ELSE (job.from..job.to) \X {job.fromY}

Asked == {<<visited[k].x, visited[k].y>> : k \in DOMAIN visited}
Xs == {v[1] : v \in Asked}
Column(n) == {v[2] : v \in {w \in Asked : w[1] = n}}
Dense(S, a, b, step) == \A n \in a..b : \E m \in S : n - m \in -Err..(step + Err)

AsksTheRange ==
  Ended =>
    IF stopped THEN HitAt = {Len(visited)}
    ELSE IF Prog \notin Doubles THEN Asked = Grid /\ Len(visited) = Cardinality(Grid)
    ELSE IF Prog \in Nested /\ job.toY <= job.fromY THEN visited = <<>>
    ELSE /\ Dense(Xs, job.from, job.to, job.step)
         /\ Prog \in Nested =>
              \A n \in Xs : Dense(Column(n), job.fromY, job.toY - 1, job.stepY)

(* A sweep comes to an end when its step is larger than what rounding can   *)
(* take from it (task1 accepts a step 0), and an int loop with <= when its  *)
(* bound is not INT_MAX.                                                    *)
Progresses ==
  IF Prog \in Doubles THEN job.step > Err /\ job.stepY > Err
  ELSE Prog \in Strict \/ job.to < IntMax

SweepEnds == (pc = "start" /\ Progresses) ~> pc = "done"
=============================================================================
