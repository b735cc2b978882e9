---------------------------- MODULE Task_proofs ----------------------------
(***************************************************************************)
(* Proofs about the task programs: the sweeps over a range of parameters   *)
(* (Sweep), and the searches of the digit puzzles (OpSearch).              *)
(*                                                                         *)
(* Sweep: a call that is not stopped asks its whole range, and what it     *)
(* prints and returns is what the answers were.  This holds for every job  *)
(* (steps that never end the sweep, inverted and empty ranges and a bound  *)
(* INT_MAX included), every answer of the function, and every rounding up  *)
(* to Err.  Both properties speak of the end of a call; the invariant says *)
(* the same of the part of the range behind the loop variables.  Over ints *)
(* the points asked are exactly those before (x, y); over doubles they     *)
(* leave no gap below x, nor below y in the present row, nor in any other  *)
(* row.  Of what is printed the last interval is "open" while the call     *)
(* goes on, and every other is a complete run of true points.              *)
(*                                                                         *)
(* OpSearch: which strings a search evaluates, and how often.  These       *)
(* properties speak of the end of a search again; the invariants say which *)
(* strings are behind: of generate the arrangements before the loop        *)
(* variables, of gen_strings the nodes of its tree that are under none of  *)
(* the calls still to be made.  What calc_string answers is left open      *)
(* there.  It is the third part: its loop keeps the sum and the product    *)
(* before the last term and factor of the expression (Good), until one of  *)
(* them is senseless (Lost).                                               *)
(***************************************************************************)
EXTENDS Sweep, OpSearch, FiniteSetTheorems, SequenceTheorems, NaturalsInduction,
  WellFoundedInduction, TLAPS

(* A call goes on; or it went on to the end.                                *)
Going == pc \in {"x", "y"}
Hi == IF Prog \in Strict THEN job.to - 1 ELSE job.to
Ran == Going \/ (Ended /\ ~stopped)

(* The entries printed, and the types of the variables. *)
ReportTypes ==
  IF Prog \in Intervals THEN [lo : Int, hi : Int \union {"open", "more"}] ELSE Int \X Int

Types ==
  /\ job \in Jobs /\ pc \in {"start", "value", "x", "y", "done"}
  /\ val \in Int /\ x \in Int /\ y \in Int /\ count \in Int /\ total \in Int
  /\ in \in BOOLEAN /\ stopped \in BOOLEAN
  /\ visited \in Seq([x : Int, y : Int, ans : BOOLEAN])
  /\ reports \in Seq(ReportTypes)

(* Where the loops are. *)
Control ==
  /\ val >= job.valFrom
  /\ pc = "start" => val = job.valFrom
  /\ pc = "y" => Prog \in Nested /\ InX
  /\ Prog \notin Nested => y = job.fromY
  /\ Prog \notin Doubles => x <= IntMax

(* in is the last answer; a call that is to stop has had no true one. *)
Answers ==
  /\ Going => /\ ~stopped
              /\ in <=> (visited # <<>> /\ visited[Len(visited)].ans)
              /\ job.stop => HitAt = {}
  /\ Ended /\ stopped => HitAt = {Len(visited)}

(* Points are printed in their order, each in its place. *)
PointsShown ==
  /\ Len(reports) = Cardinality(HitAt) /\ count = Len(reports)
  /\ \A k \in HitAt : reports[Place(k, HitAt)] = <<visited[k].x, visited[k].y>>

(* The interval r is the run that begins at k; mark is its end when it has  *)
(* reached the last point.                                                  *)
Told(k, r, mark) ==
  /\ r.lo = visited[k].x
  /\ \E m \in k..Len(visited) :
       /\ IsRun(k, m)
       /\ IF m = Len(visited) THEN r.hi = mark ELSE Close(r.hi, visited[m].x)

RunsShown(mark) ==
  /\ Len(reports) = Cardinality(Begins)
  /\ count = IF Prog = "task1" THEN Cardinality(HitAt) ELSE Len(reports)
  /\ \A k \in Begins : Told(k, reports[Place(k, Begins)], mark)

Shown ==
  Ran => IF Prog \notin Intervals THEN PointsShown
         ELSE RunsShown(IF Going THEN "open" ELSE "more")

(* An interval is open while the answers are true, and x is one step beyond *)
(* the last point.                                                          *)
Open ==
  Prog \in Intervals /\ Going =>
    /\ in => \E k \in Begins : \A j \in k..Len(visited) : visited[j].ans
    /\ visited # <<>> => x - job.step - visited[Len(visited)].x \in -Err..Err

(* The points of the grid before the next one, and that they were asked;    *)
(* with <= and the bound INT_MAX the sweep never ends.                      *)
Row == IF Prog \in Nested THEN job.fromY..(job.toY - 1) ELSE {job.fromY}
EndsInt == Prog \in Strict \/ job.to < IntMax

Before ==
  ((job.from..(x - 1)) \X Row)
    \union (IF pc = "y" THEN {x} \X (job.fromY..(y - 1)) ELSE {})

IntsAsked ==
  Prog \notin Doubles /\ Ran =>
    /\ Ended => EndsInt /\ x > Hi
    /\ EndsInt =>
         /\ x >= job.from /\ (x = job.from \/ x - 1 <= Hi)
         /\ pc = "y" => y >= job.fromY /\ (y = job.fromY \/ y <= job.toY)
         /\ IsFiniteSet(Asked) /\ Cardinality(Asked) = Len(visited)
         /\ Asked = Before

(* Points that leave no gap between a and what is before b. *)
Upto(S, a, b, step) == \A n \in a..(b - 1) : \E m \in S : n - m \in -Err..(step + Err)

DoublesAsked ==
  Prog \in Doubles /\ Ran =>
    IF Prog \in Nested /\ job.toY <= job.fromY
    THEN visited = <<>> /\ (pc = "y" => y = job.fromY)
    ELSE /\ Upto(Xs, job.from, x, job.step)
         /\ Ended => x > job.to
         /\ pc = "y" => Upto(Column(x), job.fromY, y, job.stepY)
         /\ Prog \in Nested =>
              \A n \in Xs : (pc = "y" /\ n = x) \/ Upto(Column(n), job.fromY, job.toY, job.stepY)

SweepInv == Types /\ Control /\ Answers /\ Shown /\ Open /\ IntsAsked /\ DoublesAsked

-----------------------------------------------------------------------------
(* A step over ints adds one and wraps beyond IntMax. *)
LEMMA AfterInt ==
  ASSUME Prog \notin Doubles, NEW n \in Int, n <= IntMax, NEW m \in After(n, 1)
  PROVE  m \in Int /\ m <= IntMax /\ (n < IntMax => m = n + 1)
<1>1. IntMax \in Nat BY SweepAssumption
<1>2. After(n, 1) = {Wrapped(n + 1)} BY DEF After, Rounded
<1>3. m = Wrapped(n + 1) BY <1>2
<1> QED BY <1>1, <1>3 DEF Wrapped

(* A step over doubles is off by at most Err. *)
LEMMA AfterDouble ==
  ASSUME Prog \in Doubles, NEW n \in Int, NEW step \in Int, NEW m \in After(n, step)
  PROVE  m \in Int /\ m - n - step \in -Err..Err
<1>1. Err \in Nat BY SweepAssumption
<1>2. CASE step = 0 BY <1>1, <1>2 DEF After
<1>3. CASE step # 0
  <2>1. m \in {Wrapped(k) : k \in Rounded(n + step)} BY <1>3 DEF After
  <2>2. PICK k \in Rounded(n + step) : m = Wrapped(k) BY <2>1
  <2>3. PICK e \in -Err..Err : k = n + step + e BY <2>2 DEF Rounded
  <2>4. m = k BY <2>2 DEF Wrapped
  <2> QED BY <1>1, <2>3, <2>4
<1> QED BY <1>2, <1>3

-----------------------------------------------------------------------------
(* The place of a number in a finite set of positions. *)
LEMMA Places ==
  ASSUME NEW n \in Nat, NEW S \in SUBSET (1..n)
  PROVE  /\ IsFiniteSet(S) /\ Cardinality(S) \in Nat
         /\ \A k \in S : IsFiniteSet({b \in S : b <= k})
         /\ \A k \in S : Place(k, S) \in 1..Cardinality(S)
         /\ \A k \in S : (\A b \in S : b <= k) => Place(k, S) = Cardinality(S)
         /\ \A k, l \in S : k < l => Place(k, S) < Place(l, S)
<1>1. IsFiniteSet(S) /\ Cardinality(S) \in Nat
  <2>1. IsFiniteSet(1..n) BY FS_Interval
  <2>2. IsFiniteSet(S) BY <2>1, FS_Subset
  <2> QED BY <2>2, FS_CardinalityType
<1>2. \A T \in SUBSET S : IsFiniteSet(T) /\ Cardinality(T) \in Nat /\ Cardinality(T) <= Cardinality(S)
  BY <1>1, FS_Subset, FS_CardinalityType
<1>3. \A k \in S : Place(k, S) \in 1..Cardinality(S)
  <2> SUFFICES ASSUME NEW k \in S PROVE Place(k, S) \in 1..Cardinality(S) OBVIOUS
  <2> DEFINE T == {b \in S : b <= k}
  <2>1. T \in SUBSET S /\ k \in T OBVIOUS
  <2>2. Cardinality(T) # 0 BY <1>2, <2>1, FS_EmptySet
  <2> QED BY <1>1, <1>2, <2>1, <2>2 DEF Place
<1>4. ASSUME NEW k \in S, \A b \in S : b <= k PROVE Place(k, S) = Cardinality(S)
  <2>1. {b \in S : b <= k} = S BY <1>4
  <2> QED BY <2>1 DEF Place
<1>5. ASSUME NEW k \in S, NEW l \in S, k < l PROVE Place(k, S) < Place(l, S)
  <2> DEFINE T == {b \in S : b <= k}
             U == {b \in S : b <= l}
  <2>1. T \in SUBSET U /\ U \in SUBSET S /\ l \in U /\ l \notin T
    <3>1. k \in Int /\ l \in Int /\ \A b \in S : b \in Int OBVIOUS
    <3>2. \A b \in T : b \in S /\ b <= k OBVIOUS
    <3>3. \A b \in S : b <= k => b <= l BY <3>1, <1>5
    <3>4. l \notin T BY <3>1, <3>2, <1>5
    <3>5. l \in U BY <3>1
    <3> QED BY <3>2, <3>3, <3>4, <3>5
  <2>2. IsFiniteSet(U) BY <1>2, <2>1
  <2>3. Cardinality(T) < Cardinality(U)
    BY <2>1, <2>2, <1>2, FS_Subset
  <2> QED BY <2>3 DEF Place
<1>6. \A k \in S : IsFiniteSet({b \in S : b <= k}) BY <1>2
<1> QED BY <1>1, <1>3, <1>4, <1>5, <1>6

(* A new last position takes the last place and leaves the others. *)
LEMMA NewPlace ==
  ASSUME NEW n \in Nat, NEW S \in SUBSET (1..n)
  PROVE  /\ Cardinality(S \union {n + 1}) = Cardinality(S) + 1
         /\ Place(n + 1, S \union {n + 1}) = Cardinality(S) + 1
         /\ \A k \in S : Place(k, S \union {n + 1}) = Place(k, S)
<1>1. n + 1 \notin S OBVIOUS
<1>2. Cardinality(S \union {n + 1}) = Cardinality(S) + 1 BY <1>1, Places, FS_AddElement
<1>3. S \union {n + 1} \in SUBSET (1..(n + 1)) OBVIOUS
<1>4. \A b \in S \union {n + 1} : b <= n + 1 BY <1>3
<1>5. Place(n + 1, S \union {n + 1}) = Cardinality(S) + 1 BY <1>2, <1>3, <1>4, Places
<1>6. ASSUME NEW k \in S PROVE Place(k, S \union {n + 1}) = Place(k, S)
  <2>1. {b \in S \union {n + 1} : b <= k} = {b \in S : b <= k} OBVIOUS
  <2> QED BY <2>1 DEF Place
<1> QED BY <1>2, <1>5, <1>6

-----------------------------------------------------------------------------
(* The initial states. *)
LEMMA InitInv == Init => SweepInv
<1> SUFFICES ASSUME Init PROVE SweepInv OBVIOUS
<1>1. job \in JobTypes /\ job \in Jobs BY SweepAssumption DEF Init
<1>2. Types
  <2>1. visited \in Seq([x : Int, y : Int, ans : BOOLEAN]) /\ reports \in Seq(ReportTypes)
    BY DEF Init
  <2>2. /\ job.from \in Int /\ job.fromY \in Int /\ job.valFrom \in Int
    BY <1>1 DEF JobTypes
  <2>3. in \in BOOLEAN /\ stopped \in BOOLEAN BY Zenon DEF Init
  <2>4. /\ job \in Jobs /\ pc \in {"start", "value", "x", "y", "done"}
        /\ val \in Int /\ x \in Int /\ y \in Int /\ count \in Int /\ total \in Int
    BY <1>1, <2>2 DEF Init
  <2> QED BY <2>1, <2>3, <2>4, Zenon DEF Types
<1>3. ~Going /\ ~Ended /\ ~Ran BY <1>1 DEF Init, Going, Ended, Ran, JobTypes
<1>4. Control BY <1>1, SweepAssumption DEF Init, Control, JobTypes, Prog
<1> QED BY <1>2, <1>3, <1>4 DEF SweepInv, Answers, Shown, Open, IntsAsked, DoublesAsked

(* What the types of a job give every step. *)
LEMMA JobFacts ==
  ASSUME Types
  PROVE  /\ job \in JobTypes /\ Err \in Nat /\ IntMax \in Nat
         /\ Prog \in Doubles \union Strict \union {"task2", "task8"} /\ job.stop \in BOOLEAN
         /\ job.from \in Int /\ job.to \in Int /\ job.step \in Int
         /\ job.fromY \in Int /\ job.toY \in Int /\ job.stepY \in Int
         /\ job.valFrom \in Int /\ job.valTo \in Int
         /\ Prog \notin Doubles => /\ job.step = 1 /\ job.from <= IntMax /\ job.to <= IntMax
                                   /\ job.fromY <= IntMax /\ job.toY <= IntMax
BY SweepAssumption DEF Types, JobTypes, Prog

-----------------------------------------------------------------------------
(* The steps outside a call. *)
LEMMA StartInv == SweepInv /\ Start => SweepInv'
<1> SUFFICES ASSUME SweepInv, Start PROVE SweepInv' OBVIOUS
<1>1. pc = "start" /\ pc' \in {"done", "value"} BY DEF Start
<1>2. UNCHANGED <<job, val, x, y, in, count, total, reports, visited, stopped>> BY DEF Start
<1>3. val' = job'.valFrom /\ val' \in Int BY <1>1, <1>2 DEF SweepInv, Control, Types
<1>4. ~Going' /\ ~Ended' /\ ~Ran' /\ pc' # "y" /\ pc' # "start"
  BY <1>1, <1>3 DEF Going, Ended, Ran
<1>5. Types' BY <1>1, <1>2 DEF SweepInv, Types, ReportTypes, Prog
<1>6. Control' BY <1>1, <1>2, <1>4 DEF SweepInv, Control, Prog
<1> QED BY <1>4, <1>5, <1>6 DEF SweepInv, Answers, Shown, Open, IntsAsked, DoublesAsked

LEMMA EndValuesInv == SweepInv /\ EndValues => SweepInv'
<1> SUFFICES ASSUME SweepInv, EndValues PROVE SweepInv' OBVIOUS
<1>1. pc' = "done" BY DEF EndValues
<1>2. UNCHANGED <<job, val, x, y, in, count, total, reports, visited, stopped>> BY DEF EndValues
<1>4. ~Going' /\ ~Ended' /\ ~Ran' /\ pc' # "y" /\ pc' # "start"
  BY <1>1 DEF Going, Ended, Ran
<1>5. Types' BY <1>1, <1>2 DEF SweepInv, Types, ReportTypes, Prog
<1>6. Control' BY <1>1, <1>2, <1>4 DEF SweepInv, Control, Prog
<1> QED BY <1>4, <1>5, <1>6 DEF SweepInv, Answers, Shown, Open, IntsAsked, DoublesAsked

(* A call begins with nothing asked and nothing reported. *)
LEMMA NextValueInv == SweepInv /\ NextValue => SweepInv'
<1> SUFFICES ASSUME SweepInv, NextValue PROVE SweepInv' OBVIOUS
<1>1. /\ pc' = "x" /\ x' = job.from /\ in' = FALSE /\ count' = 0 /\ visited' = <<>>
      /\ stopped' = FALSE /\ reports' = <<>> /\ UNCHANGED <<job, val, y, total>>
  BY DEF NextValue
<1>2. Types BY DEF SweepInv
<1>3. Going' /\ ~Ended' /\ Ran' /\ Prog' = Prog BY <1>1 DEF Going, Ended, Ran, Prog
<1>4. Types'
  <2>1. visited' \in Seq([x : Int, y : Int, ans : BOOLEAN]) /\ reports' \in Seq(ReportTypes')
    BY <1>1
  <2>2. x' \in Int BY <1>1, <1>2, JobFacts
  <2>3. in' \in BOOLEAN /\ stopped' \in BOOLEAN BY <1>1, Zenon
  <2>4. /\ job' \in Jobs /\ pc' \in {"start", "value", "x", "y", "done"}
        /\ val' \in Int /\ y' \in Int /\ count' \in Int /\ total' \in Int
    BY <1>1, <1>2 DEF Types
  <2> QED BY <2>1, <2>2, <2>3, <2>4, Zenon DEF Types
<1>5. Control' BY <1>1, <1>2, <1>3, JobFacts DEF SweepInv, Control, Prog
<1>6. /\ HitAt' = {} /\ Begins' = {} /\ Asked' = {} /\ Xs' = {} /\ Len(visited') = 0
      /\ Cardinality({}) = 0 /\ IsFiniteSet({})
  <2>1. DOMAIN visited' = {} /\ Len(visited') = 0 BY <1>1
  <2>2. HitAt' = {} /\ Asked' = {} BY <2>1 DEF HitAt, Asked
  <2>3. Begins' = {} BY <2>2 DEF Begins
  <2>4. Xs' = {} BY <2>2 DEF Xs
  <2> QED BY <2>1, <2>2, <2>3, <2>4, FS_EmptySet
<1>7. Answers' BY <1>1, <1>3, <1>6 DEF Answers
<1>8. Shown'
  <2>1. PointsShown' BY <1>1, <1>6 DEF PointsShown
  <2>2. RunsShown("open")' BY <1>1, <1>6 DEF RunsShown
  <2> QED BY <2>1, <2>2, <1>3 DEF Shown
<1>9. Open' BY <1>1 DEF Open
<1>10. IntsAsked'
  <2>1. Before' = {}
    <3>1. job.from..(job.from - 1) = {} BY <1>2, JobFacts
    <3> QED BY <1>1, <3>1 DEF Before
  <2> QED BY <1>1, <1>2, <1>3, <1>6, <2>1, JobFacts DEF IntsAsked
<1>11. DoublesAsked'
  <2>1. Upto({}, job.from, job.from, job.step) BY <1>2, JobFacts DEF Upto
  <2> QED BY <1>1, <1>3, <1>6, <2>1 DEF DoublesAsked
<1> QED BY <1>4, <1>5, <1>7, <1>8, <1>9, <1>10, <1>11 DEF SweepInv

-----------------------------------------------------------------------------
(* The end of a row, and of the range. *)

LEMMA ReportPlaces ==
  ASSUME Types
  PROVE  /\ Len(visited) \in Nat /\ DOMAIN visited = 1..Len(visited)
         /\ HitAt \in SUBSET (1..Len(visited)) /\ Begins \in SUBSET (1..Len(visited))
         /\ Begins \subseteq HitAt
         /\ \A k \in 1..Len(visited) :
              visited[k].x \in Int /\ visited[k].y \in Int /\ visited[k].ans \in BOOLEAN
<1>1. visited \in Seq([x : Int, y : Int, ans : BOOLEAN]) BY DEF Types
<1>2. Len(visited) \in Nat /\ DOMAIN visited = 1..Len(visited) BY <1>1
<1>3. \A k \in 1..Len(visited) : visited[k] \in [x : Int, y : Int, ans : BOOLEAN]
  BY <1>1, ElementOfSeq
<1>4. HitAt \in SUBSET (1..Len(visited)) /\ Begins \subseteq HitAt BY <1>2 DEF HitAt, Begins
<1> QED BY <1>2, <1>3, <1>4

(* Of the runs of true points only the last can reach the end. *)
LEMMA Latest ==
  ASSUME Types
  PROVE  /\ \A k \in Begins : IsRun(k, Len(visited)) => Place(k, Begins) = Cardinality(Begins)
         /\ \A k, l \in Begins : \A m \in k..Len(visited) :
              IsRun(k, m) /\ m # Len(visited) /\ (\A j \in l..Len(visited) : visited[j].ans)
                => Place(k, Begins) < Cardinality(Begins)
<1> DEFINE n == Len(visited)
<1>1. n \in Nat /\ Begins \in SUBSET (1..n) BY ReportPlaces
<1>2. ASSUME NEW k \in Begins, IsRun(k, n) PROVE Place(k, Begins) = Cardinality(Begins)
  <2>1. ASSUME NEW b \in Begins, b > k PROVE FALSE
    <3>1. b - 1 \in k..n BY <1>1, <2>1
    <3>2. visited[b - 1].ans BY <3>1, <1>2 DEF IsRun
    <3>3. b # 1 BY <1>1, <2>1
    <3> QED BY <2>1, <3>2, <3>3 DEF Begins
  <2>2. \A b \in Begins : b <= k BY <1>1, <2>1
  <2> QED BY <1>1, <2>2, Places
<1>3. ASSUME NEW k \in Begins, NEW l \in Begins, NEW m \in k..n,
             IsRun(k, m), m # n, \A j \in l..n : visited[j].ans
      PROVE  Place(k, Begins) < Cardinality(Begins)
  <2>1. k \in Int /\ l \in Int /\ m \in Int /\ m + 1 <= n /\ k <= m BY <1>1, <1>3
  <2>2. ~visited[m + 1].ans BY <1>3 DEF IsRun
  <2>3. m + 1 \notin l..n BY <1>3, <2>2
  <2>4. k < l BY <2>1, <2>3
  <2>5. Place(k, Begins) < Place(l, Begins) BY <1>1, <2>4, Places
  <2>6. Place(l, Begins) \in 1..Cardinality(Begins) BY <1>1, Places
  <2>7. Place(k, Begins) \in 1..Cardinality(Begins) BY <1>1, Places
  <2>8. Cardinality(Begins) \in Nat BY <1>1, Places
  <2> QED BY <2>5, <2>6, <2>7, <2>8
<1> QED BY <1>2, <1>3

(* A step that asks nothing leaves what is said of the points asked. *)
LEMMA Silent ==
  ASSUME UNCHANGED <<job, visited>>
  PROVE  /\ HitAt' = HitAt /\ Begins' = Begins /\ Asked' = Asked /\ Xs' = Xs /\ Prog' = Prog
         /\ \A n : Column(n)' = Column(n)
         /\ \A k, m : IsRun(k, m)' = IsRun(k, m)
<1>1. HitAt' = HitAt /\ Asked' = Asked /\ Prog' = Prog BY DEF HitAt, Asked, Prog
<1>2. Begins' = Begins BY <1>1 DEF Begins
<1>3. Xs' = Xs BY <1>1 DEF Xs
<1>4. \A n : Column(n)' = Column(n) BY <1>1 DEF Column
<1>5. \A k, m : IsRun(k, m)' = IsRun(k, m) BY DEF IsRun
<1> QED BY <1>1, <1>2, <1>3, <1>4, <1>5

LEMMA EnterRowInv == SweepInv /\ EnterRow => SweepInv'
<1> SUFFICES ASSUME SweepInv, EnterRow PROVE SweepInv' OBVIOUS
<1>1. /\ pc = "x" /\ InX /\ Prog \in Nested /\ y' = job.fromY /\ pc' = "y"
      /\ UNCHANGED <<job, val, x, in, count, total, reports, visited, stopped>>
  BY DEF EnterRow
<1>2. Types /\ Control BY DEF SweepInv
<1>3. Going /\ Ran /\ Going' /\ Ran' /\ ~Ended /\ ~Ended' /\ Prog \notin Intervals
  BY <1>1 DEF Going, Ran, Ended, Nested, Intervals
<1>4. /\ HitAt' = HitAt /\ Begins' = Begins /\ Asked' = Asked /\ Xs' = Xs /\ Prog' = Prog
      /\ \A n : Column(n)' = Column(n)
  BY <1>1, Silent
<1>5. Types' BY <1>1, <1>2, <1>4, JobFacts DEF Types, ReportTypes
<1>6. Control' BY <1>1, <1>2, <1>4 DEF Control, InX
<1>7. Answers' BY <1>1, <1>3, <1>4 DEF SweepInv, Answers
<1>8. Shown' BY <1>1, <1>3, <1>4 DEF SweepInv, Shown, PointsShown
<1>9. Open' BY <1>3, <1>4 DEF Open
<1>10. IntsAsked'
  <2>1. job.fromY..(y' - 1) = {} BY <1>1, <1>2, JobFacts
  <2>2. {x'} \X (job.fromY..(y' - 1)) = {} BY <2>1
  <2>3. Before' = Before BY <1>1, <1>4, <2>2 DEF Before, Row
  <2> QED BY <1>1, <1>2, <1>3, <1>4, <2>3, JobFacts DEF SweepInv, IntsAsked, EndsInt, Hi
<1>11. DoublesAsked'
  <2>1. Upto(Column(x), job.fromY, job.fromY, job.stepY) BY <1>2, JobFacts DEF Upto
  <2> QED BY <1>1, <1>3, <1>4, <2>1 DEF SweepInv, DoublesAsked
<1> QED BY <1>5, <1>6, <1>7, <1>8, <1>9, <1>10, <1>11 DEF SweepInv

(* Points that leave no gap below b leave none below the point after b. *)
LEMMA UptoStep ==
  ASSUME NEW S, NEW T, S \subseteq T, NEW a \in Int, NEW b \in T, b \in Int, NEW c \in Int,
         NEW step \in Int, Err \in Nat, Upto(S, a, b, step), c - b - step \in -Err..Err
  PROVE  Upto(T, a, c, step)
<1> SUFFICES ASSUME NEW n \in a..(c - 1)
             PROVE  \E m \in T : n - m \in -Err..(step + Err)
  BY DEF Upto
<1>1. CASE n < b
  <2>1. n \in a..(b - 1) BY <1>1
  <2>2. PICK m \in S : n - m \in -Err..(step + Err) BY <2>1 DEF Upto
  <2> QED BY <2>2
<1>2. CASE n >= b
  <2>1. n - b \in -Err..(step + Err) BY <1>2
  <2> QED BY <2>1
<1> QED BY <1>1, <1>2

LEMMA UptoLess ==
  ASSUME NEW S, NEW a \in Int, NEW b \in Int, NEW c \in Int, c <= b, NEW step, Upto(S, a, b, step)
  PROVE  Upto(S, a, c, step)
<1>1. a..(c - 1) \subseteq a..(b - 1) OBVIOUS
<1> QED BY <1>1 DEF Upto

LEMMA LeaveRowInv == SweepInv /\ LeaveRow => SweepInv'
<1> SUFFICES ASSUME SweepInv, LeaveRow PROVE SweepInv' OBVIOUS
<1>1. /\ pc = "y" /\ ~InY /\ x' \in After(x, job.step) /\ pc' = "x"
      /\ UNCHANGED <<job, val, y, in, count, total, reports, visited, stopped>>
  BY DEF LeaveRow
<1>2. Types /\ Control BY DEF SweepInv
<1>a. x \in Int /\ y \in Int /\ y >= job.toY BY <1>1, <1>2, JobFacts DEF Types, InY
<1>b. Prog \in Nested /\ InX BY <1>1, <1>2 DEF Control
<1>3. Going /\ Ran /\ Going' /\ Ran' /\ ~Ended /\ ~Ended' /\ Prog \notin Intervals
  BY <1>1, <1>b DEF Going, Ran, Ended, Nested, Intervals
<1>4. /\ HitAt' = HitAt /\ Begins' = Begins /\ Asked' = Asked /\ Xs' = Xs /\ Prog' = Prog
      /\ \A n : Column(n)' = Column(n)
  BY <1>1, Silent
<1>c. Prog \notin Doubles => x' = x + 1 /\ x < job.to /\ x' \in Int /\ x' <= IntMax
  <2> SUFFICES ASSUME Prog \notin Doubles PROVE x' = x + 1 /\ x < job.to /\ x' <= IntMax
    BY <1>a
  <2>1. Prog \in Strict BY <1>b DEF Nested, Doubles, Strict
  <2>2. x < job.to /\ job.step = 1 BY <1>b, <1>2, <2>1, JobFacts DEF InX
  <2>3. x < IntMax BY <1>2, <1>a, <2>2, JobFacts
  <2>4. x <= IntMax /\ IntMax \in Nat BY <1>2, <1>a, <2>3, JobFacts
  <2>5. x' \in After(x, 1) BY <1>1, <2>2
  <2> QED BY <1>a, <2>2, <2>3, <2>4, <2>5, AfterInt
<1>d. Prog \in Doubles => x' \in Int /\ x' - x - job.step \in -Err..Err
  BY <1>1, <1>2, <1>a, JobFacts, AfterDouble
<1>5. Types' BY <1>1, <1>2, <1>4, <1>c, <1>d DEF Types, ReportTypes
<1>6. Control' BY <1>1, <1>2, <1>4, <1>c DEF Control
<1>7. Answers' BY <1>1, <1>3, <1>4 DEF SweepInv, Answers
<1>8. Shown' BY <1>1, <1>3, <1>4 DEF SweepInv, Shown, PointsShown
<1>9. Open' BY <1>3, <1>4 DEF Open
<1>10. IntsAsked'
  <2> SUFFICES ASSUME Prog \notin Doubles, EndsInt
               PROVE  /\ x' >= job.from /\ x' - 1 <= Hi
                      /\ IsFiniteSet(Asked) /\ Cardinality(Asked) = Len(visited)
                      /\ Asked = (job.from..(x' - 1)) \X Row
    <3>1. EndsInt' = EndsInt /\ Hi' = Hi BY <1>1, <1>4 DEF EndsInt, Hi
    <3>2. Before' = (job.from..(x' - 1)) \X Row BY <1>1, <1>4 DEF Before, Row
    <3> QED BY <1>1, <1>3, <1>4, <3>1, <3>2 DEF IntsAsked
  <2>1. /\ x >= job.from /\ y >= job.fromY /\ (y = job.fromY \/ y <= job.toY)
        /\ IsFiniteSet(Asked) /\ Cardinality(Asked) = Len(visited) /\ Asked = Before
    BY <1>1, <1>3 DEF SweepInv, IntsAsked
  <2>2. Row = job.fromY..(job.toY - 1) BY <1>b DEF Row
  <2>3. Row = job.fromY..(y - 1) BY <1>2, <1>a, <2>1, <2>2, JobFacts
  <2>4. Before = ((job.from..(x - 1)) \X Row) \union ({x} \X Row) BY <1>1, <2>3 DEF Before
  <2>5. job.from..x = (job.from..(x - 1)) \union {x} BY <1>2, <1>a, <2>1, JobFacts
  <2>6. (job.from..x) \X Row = Before BY <2>4, <2>5
  <2>7. x' - 1 = x /\ x' >= job.from BY <1>2, <1>a, <1>c, <2>1, JobFacts
  <2>8. x <= Hi BY <1>2, <1>a, <1>c, JobFacts DEF Hi
  <2> QED BY <2>1, <2>6, <2>7, <2>8
<1>11. DoublesAsked'
  <2> SUFFICES ASSUME Prog \in Doubles, ~(job.toY <= job.fromY)
               PROVE  /\ Upto(Xs, job.from, x', job.step)
                      /\ \A n \in Xs : Upto(Column(n), job.fromY, job.toY, job.stepY)
    BY <1>1, <1>3, <1>4, <1>b DEF SweepInv, DoublesAsked
  <2>1. /\ Upto(Xs, job.from, x, job.step)
        /\ Upto(Column(x), job.fromY, y, job.stepY)
        /\ \A n \in Xs : n = x \/ Upto(Column(n), job.fromY, job.toY, job.stepY)
    BY <1>1, <1>3, <1>b DEF SweepInv, DoublesAsked
  <2>2. job.fromY \in job.fromY..(y - 1) BY <1>2, <1>a, JobFacts
  <2>3. PICK m \in Column(x) : TRUE BY <2>1, <2>2 DEF Upto
  <2>4. x \in Xs BY <2>3 DEF Column, Xs
  <2>5. Upto(Xs, job.from, x', job.step) BY <1>2, <1>a, <1>d, <2>1, <2>4, JobFacts, UptoStep
  <2>6. Upto(Column(x), job.fromY, job.toY, job.stepY)
    BY <1>2, <1>a, <2>1, JobFacts, UptoLess
  <2> QED BY <2>1, <2>5, <2>6
<1> QED BY <1>5, <1>6, <1>7, <1>8, <1>9, <1>10, <1>11 DEF SweepInv

LEMMA EndRangeInv == SweepInv /\ EndRange => SweepInv'
<1> SUFFICES ASSUME SweepInv, EndRange PROVE SweepInv' OBVIOUS
<1>1. /\ pc = "x" /\ ~InX /\ total' = total + count /\ val' = val + 1 /\ pc' = "value"
      /\ reports' = IF in /\ Prog \in Intervals
                    THEN [reports EXCEPT ![Len(reports)].hi = "more"] ELSE reports
      /\ UNCHANGED <<job, x, y, in, count, visited, stopped>>
  BY DEF EndRange, Return
<1>2. Types /\ Control /\ Answers /\ Open BY DEF SweepInv
<1>3. Going /\ Ran /\ ~Ended /\ ~stopped /\ ~Going' BY <1>1, <1>2 DEF Going, Ran, Ended, Answers
<1>a. val' > job.valFrom /\ val' >= job.valFrom /\ val' \in Int
  <2>1. val \in Int /\ val >= job.valFrom /\ val' = val + 1 BY <1>1, <1>2 DEF Types, Control
  <2>2. job.valFrom \in Int BY <1>2, JobFacts
  <2> QED BY <2>1, <2>2
<1>b. Ended' /\ ~stopped' /\ Ran' BY <1>1, <1>3, <1>a DEF Ended, Ran
<1>4. /\ HitAt' = HitAt /\ Begins' = Begins /\ Asked' = Asked /\ Xs' = Xs /\ Prog' = Prog
      /\ \A n : Column(n)' = Column(n)
      /\ \A k, m : IsRun(k, m)' = IsRun(k, m)
  BY <1>1, Silent
<1>c. reports \in Seq(ReportTypes) /\ Len(reports) \in Nat /\ in \in BOOLEAN BY <1>2 DEF Types
<1>e. in /\ Prog \in Intervals => Len(reports) >= 1
  <2> SUFFICES ASSUME in, Prog \in Intervals PROVE Len(reports) >= 1 OBVIOUS
  <2>1. Len(reports) = Cardinality(Begins) BY <1>3 DEF SweepInv, Shown, RunsShown
  <2>2. PICK k \in Begins : TRUE BY <1>2, <1>3 DEF Open
  <2>3. Place(k, Begins) \in 1..Cardinality(Begins) BY <1>2, ReportPlaces, Places
  <2> QED BY <1>c, <2>1, <2>3
<1>d. reports' \in Seq(ReportTypes)
  <2>1. CASE in /\ Prog \in Intervals
    <3>1. ReportTypes = [lo : Int, hi : Int \union {"open", "more"}] BY <2>1 DEF ReportTypes
    <3>2. reports' = [reports EXCEPT ![Len(reports)].hi = "more"] BY <1>1, <2>1
    <3>3. \A r \in ReportTypes : [r EXCEPT !.hi = "more"] \in ReportTypes BY <3>1
    <3>4. Len(reports) \in 1..Len(reports) BY <1>c, <1>e, <2>1
    <3>5. reports[Len(reports)] \in ReportTypes BY <1>c, <3>4, ElementOfSeq
    <3> DEFINE e == [reports[Len(reports)] EXCEPT !.hi = "more"]
    <3>6. e \in ReportTypes BY <3>3, <3>5
    <3>7. reports' = [reports EXCEPT ![Len(reports)] = e] BY <3>2
    <3> HIDE DEF e
    <3> QED BY <1>c, <3>4, <3>6, <3>7, ExceptSeq
  <2> QED BY <1>1, <1>c, <2>1
<1>5. Types'
  <2>1. ReportTypes' = ReportTypes BY <1>4 DEF ReportTypes
  <2>2. total' \in Int BY <1>1, <1>2 DEF Types
  <2> QED BY <1>1, <1>2, <1>a, <1>d, <2>1, <2>2 DEF Types
<1>6. Control' BY <1>1, <1>2, <1>4, <1>a DEF Control
<1>7. Answers' BY <1>3, <1>b DEF Answers
<1>8. Shown'
  <2>1. CASE Prog \notin Intervals
    BY <1>1, <1>3, <1>4, <1>b, <2>1 DEF SweepInv, Shown, PointsShown
  <2>2. CASE Prog \in Intervals
    <3>1. /\ Len(reports) = Cardinality(Begins)
          /\ count = IF Prog = "task1" THEN Cardinality(HitAt) ELSE Len(reports)
      BY <1>3, <2>2 DEF SweepInv, Shown, RunsShown
    <3>2. Len(reports') = Len(reports) BY <1>1, <1>c
    <3>3. ASSUME NEW k \in Begins
          PROVE  /\ reports'[Place(k, Begins)].lo = visited[k].x
                 /\ \E m \in k..Len(visited) :
                      /\ IsRun(k, m)
                      /\ IF m = Len(visited) THEN reports'[Place(k, Begins)].hi = "more"
                         ELSE Close(reports'[Place(k, Begins)].hi, visited[m].x)
      <4> DEFINE n == Place(k, Begins)
      <4>1. n \in 1..Len(reports) /\ n \in DOMAIN reports
        <5>1. n \in 1..Cardinality(Begins) BY <1>2, ReportPlaces, Places
        <5>2. DOMAIN reports = 1..Len(reports) BY <1>c
        <5> QED BY <3>1, <5>1, <5>2
      <4>2. reports[n].lo = visited[k].x
        BY <1>3, <2>2 DEF SweepInv, Shown, RunsShown, Told
      <4>3. PICK m \in k..Len(visited) :
              /\ IsRun(k, m)
              /\ IF m = Len(visited) THEN reports[n].hi = "open"
                 ELSE Close(reports[n].hi, visited[m].x)
        BY <1>3, <2>2 DEF SweepInv, Shown, RunsShown, Told
      <4>4. reports[n] \in [lo : Int, hi : Int \union {"open", "more"}]
        BY <1>c, <2>2, <4>1, ElementOfSeq DEF ReportTypes
      <4>5. CASE m = Len(visited)
        <5>1. m \in k..m /\ visited[m].ans /\ visited # <<>>
          BY <1>2, <4>3, <4>5, ReportPlaces DEF IsRun
        <5>2. in BY <1>2, <1>3, <4>5, <5>1 DEF Answers
        <5>3. n = Len(reports) BY <1>2, <3>1, <4>3, <4>5, Latest
        <5>4. reports'[n] = [reports[n] EXCEPT !.hi = "more"] BY <1>1, <1>c, <2>2, <4>1, <5>2, <5>3
        <5>5. reports'[n].lo = reports[n].lo /\ reports'[n].hi = "more" BY <4>4, <5>4
        <5> QED BY <4>2, <4>3, <4>5, <5>5
      <4>6. CASE m # Len(visited)
        <5>1. in => n # Len(reports)
          <6> SUFFICES ASSUME in PROVE n < Len(reports) BY <1>c, <4>1
          <6>1. PICK l \in Begins : \A j \in l..Len(visited) : visited[j].ans
            BY <1>2, <1>3, <2>2 DEF Open
          <6> QED BY <1>2, <3>1, <4>3, <4>6, <6>1, Latest
        <5>2. reports'[n] = reports[n] BY <1>1, <1>c, <4>1, <5>1
        <5> QED BY <4>2, <4>3, <4>6, <5>2
      <4> QED BY <4>5, <4>6
    <3>4. RunsShown("more")'
      BY <1>1, <1>4, <3>1, <3>2, <3>3 DEF RunsShown, Told, Close
    <3> QED BY <1>3, <1>4, <2>2, <3>4 DEF Shown
  <2> QED BY <2>1, <2>2
<1>9. Open' BY <1>3 DEF Open
<1>10. IntsAsked'
  <2> SUFFICES ASSUME Prog \notin Doubles
               PROVE  /\ EndsInt /\ x > Hi /\ x >= job.from /\ (x = job.from \/ x - 1 <= Hi)
                      /\ IsFiniteSet(Asked) /\ Cardinality(Asked) = Len(visited)
                      /\ Asked = Before
    <3>1. EndsInt' = EndsInt /\ Hi' = Hi BY <1>1, <1>4 DEF EndsInt, Hi
    <3>2. Before' = Before BY <1>1, <1>4 DEF Before, Row
    <3> QED BY <1>1, <1>4, <3>1, <3>2 DEF IntsAsked
  <2>1. x \in Int /\ x > Hi BY <1>1, <1>2, JobFacts DEF Types, InX, Hi
  <2>2. EndsInt
    <3> SUFFICES ASSUME Prog \notin Strict PROVE job.to < IntMax BY DEF EndsInt
    <3>1. ~(x <= job.to) BY <1>1 DEF InX
    <3>2. x <= IntMax BY <1>2, <2>1 DEF Control
    <3>3. job.to \in Int /\ IntMax \in Int BY <1>2, JobFacts
    <3> QED BY <2>1, <3>1, <3>2, <3>3
  <2> QED BY <1>3, <2>1, <2>2 DEF SweepInv, IntsAsked
<1>11. DoublesAsked'
  <2>1. Prog \in Doubles => x > job.to
    <3> SUFFICES ASSUME Prog \in Doubles PROVE x > job.to OBVIOUS
    <3>1. Prog \notin Strict BY DEF Doubles, Strict
    <3>2. ~(x <= job.to) BY <1>1, <3>1 DEF InX
    <3>3. x \in Int /\ job.to \in Int BY <1>2, JobFacts DEF Types
    <3> QED BY <3>2, <3>3
  <2> QED BY <1>1, <1>3, <1>4, <2>1 DEF SweepInv, DoublesAsked
<1> QED BY <1>5, <1>6, <1>7, <1>8, <1>9, <1>10, <1>11 DEF SweepInv

-----------------------------------------------------------------------------
(* A point is asked. *)
LEMMA NewPoint ==
  ASSUME Types, NEW ans \in BOOLEAN, job' = job,
         visited' = Append(visited, [x |-> x, y |-> y, ans |-> ans])
  PROVE  /\ visited' \in Seq([x : Int, y : Int, ans : BOOLEAN])
         /\ Len(visited') = Len(visited) + 1 /\ DOMAIN visited' = 1..(Len(visited) + 1)
         /\ \A k \in 1..Len(visited) : visited'[k] = visited[k]
         /\ visited'[Len(visited) + 1] = [x |-> x, y |-> y, ans |-> ans]
         /\ HitAt' = IF ans THEN HitAt \union {Len(visited) + 1} ELSE HitAt
         /\ Asked' = Asked \union {<<x, y>>}
         /\ Xs' = Xs \union {x}
         /\ \A m : Column(m)' = IF m = x THEN Column(m) \union {y} ELSE Column(m)
         /\ Prog' = Prog
<1> DEFINE n == Len(visited)
           R == [x : Int, y : Int, ans : BOOLEAN]
           v == [x |-> x, y |-> y, ans |-> ans]
<1>1. visited \in Seq(R) /\ v \in R BY DEF Types
<1>2. n \in Nat /\ DOMAIN visited = 1..n BY ReportPlaces
<1>3. /\ visited' \in Seq(R) /\ Len(visited') = n + 1
      /\ \A k \in 1..n : visited'[k] = visited[k]
      /\ visited'[n + 1] = v
  <2> HIDE DEF R, v
  <2> QED BY <1>1, AppendProperties DEF v
<1>4. DOMAIN visited' = 1..(n + 1) BY <1>3
<1>5. v.x = x /\ v.y = y /\ v.ans = ans OBVIOUS
<1>6. HitAt' = IF ans THEN HitAt \union {n + 1} ELSE HitAt
  <2> HIDE DEF v
  <2>1. 1..(n + 1) = (1..n) \union {n + 1} /\ n + 1 \notin 1..n BY <1>2
  <2>2. HitAt = {k \in 1..n : visited[k].ans} BY <1>2 DEF HitAt
  <2>3. HitAt' = {k \in 1..(n + 1) : visited'[k].ans} BY <1>4 DEF HitAt
  <2> QED BY <1>3, <1>5, <2>1, <2>2, <2>3
<1>7. Asked' = Asked \union {<<x, y>>}
  <2> HIDE DEF v
  <2>1. 1..(n + 1) = (1..n) \union {n + 1} BY <1>2
  <2>2. Asked = {<<visited[k].x, visited[k].y>> : k \in 1..n} BY <1>2 DEF Asked
  <2>3. Asked' = {<<visited'[k].x, visited'[k].y>> : k \in 1..(n + 1)} BY <1>4 DEF Asked
  <2>4. Asked' = {<<visited'[k].x, visited'[k].y>> : k \in 1..n}
                   \union {<<visited'[n + 1].x, visited'[n + 1].y>>}
    BY <2>1, <2>3
  <2>5. {<<visited'[k].x, visited'[k].y>> : k \in 1..n} = Asked BY <1>3, <2>2
  <2> QED BY <1>3, <1>5, <2>4, <2>5
<1> DEFINE p == <<x, y>>
<1>a. p[1] = x /\ p[2] = y /\ Asked' = Asked \union {p} BY <1>7
<1> HIDE DEF p, v, R, n
<1>8. Xs' = Xs \union {x}
  <2>1. Xs' = {q[1] : q \in Asked \union {p}} BY <1>a DEF Xs
  <2> QED BY <1>a, <2>1 DEF Xs
<1>9. ASSUME NEW m PROVE Column(m)' = IF m = x THEN Column(m) \union {y} ELSE Column(m)
  <2>1. Column(m)' = {q[2] : q \in {w \in Asked \union {p} : w[1] = m}} BY <1>a DEF Column
  <2>2. CASE m = x
    <3>1. {w \in Asked \union {p} : w[1] = m} = {w \in Asked : w[1] = m} \union {p}
      BY <1>a, <2>2
    <3> QED BY <1>a, <2>1, <2>2, <3>1 DEF Column
  <2>3. CASE m # x
    <3>1. {w \in Asked \union {p} : w[1] = m} = {w \in Asked : w[1] = m}
      BY <1>a, <2>3
    <3> QED BY <2>1, <2>3, <3>1 DEF Column
  <2> QED BY <2>2, <2>3
<1>10. Prog' = Prog BY DEF Prog
<1> USE DEF R, v, n
<1> QED BY <1>3, <1>4, <1>6, <1>7, <1>8, <1>9, <1>10

(* A run of true points begins when the one before was not true. *)
LEMMA NewBegin ==
  ASSUME Types, Going, Answers, NEW ans \in BOOLEAN, job' = job,
         visited' = Append(visited, [x |-> x, y |-> y, ans |-> ans])
  PROVE  Begins' = IF ans /\ ~in THEN Begins \union {Len(visited) + 1} ELSE Begins
<1> DEFINE n == Len(visited)
<1>1. /\ n \in Nat /\ HitAt \in SUBSET (1..n) BY ReportPlaces
<1>2. /\ \A k \in 1..n : visited'[k] = visited[k]
      /\ HitAt' = IF ans THEN HitAt \union {n + 1} ELSE HitAt
  BY NewPoint
<1>3. in <=> (n # 0 /\ visited[n].ans)
  <2>1. visited # <<>> <=> n # 0 BY EmptySeq DEF Types
  <2> QED BY <2>1 DEF Answers
<1>4. Begins' = {k \in HitAt' : k = 1 \/ ~visited'[k - 1].ans} BY DEF Begins
<1>5. ASSUME NEW k \in HitAt PROVE k = 1 \/ visited'[k - 1] = visited[k - 1]
  BY <1>1, <1>2
<1>6. (n + 1 = 1 \/ ~visited'[(n + 1) - 1].ans) <=> ~in
  <2>1. (n + 1) - 1 = n /\ (n # 0 => n \in 1..n) /\ (n + 1 = 1 <=> n = 0) BY <1>1
  <2>2. n # 0 => visited'[(n + 1) - 1] = visited[n] BY <1>2, <2>1
  <2> HIDE DEF n
  <2> QED BY <1>3, <2>1, <2>2
<1>7. {k \in HitAt : k = 1 \/ ~visited'[k - 1].ans} = Begins BY <1>5 DEF Begins
<1> QED BY <1>2, <1>4, <1>6, <1>7

LEMMA UptoMore ==
  ASSUME NEW S, NEW T, S \subseteq T, NEW a, NEW b, NEW step, Upto(S, a, b, step)
  PROVE  Upto(T, a, b, step)
BY DEF Upto

(* After a point the sweep goes on to the next one: over ints it has not    *)
(* been asked before, over doubles it leaves no gap.                        *)
Onward(ans) ==
  /\ AtPoint /\ Step /\ UNCHANGED <<pc, job, val, stopped>>
  /\ visited' = Append(visited, [x |-> x, y |-> y, ans |-> ans])

LEMMA OnwardTypes ==
  ASSUME SweepInv, NEW ans \in BOOLEAN, Onward(ans)
  PROVE  /\ x' \in Int /\ y' \in Int /\ Control'
         /\ Going /\ Going' /\ Ran /\ Ran' /\ ~Ended /\ ~Ended'
         /\ Prog \in Nested => /\ pc = "y" /\ y < job.toY /\ x' = x /\ InX
                               /\ Prog \notin Doubles => y' = y + 1
                               /\ Prog \in Doubles => y' - y - job.stepY \in -Err..Err
         /\ Prog \notin Nested => /\ pc = "x" /\ x <= job.to /\ y' = y /\ y = job.fromY
                                  /\ Prog \notin Doubles /\ x < IntMax => x' = x + 1
                                  /\ Prog \in Doubles => x' - x - job.step \in -Err..Err
<1>1. /\ AtPoint /\ Step /\ UNCHANGED <<pc, job, val, stopped>> BY DEF Onward
<1>2. Types /\ Control /\ x \in Int /\ y \in Int /\ ~stopped
  <2>1. Types /\ Control /\ Answers /\ pc \in {"x", "y"} BY <1>1 DEF SweepInv, AtPoint
  <2> QED BY <2>1 DEF Types, Answers, Going
<1>3. Going /\ Going' /\ Ran /\ Ran' /\ ~Ended /\ ~Ended'
  BY <1>1 DEF AtPoint, Going, Ran, Ended
<1>4. ASSUME Prog \in Nested
      PROVE  /\ pc = "y" /\ y < job.toY /\ x' = x /\ InX /\ y' \in Int
             /\ Prog \notin Doubles => y' = y + 1
             /\ Prog \in Doubles => y' - y - job.stepY \in -Err..Err
  <2>1. /\ pc = "y" /\ y < job.toY /\ x' = x
        /\ y' \in After(y, IF Prog \in Doubles THEN job.stepY ELSE 1)
    BY <1>1, <1>4 DEF AtPoint, InY, Step
  <2>2. InX BY <1>2, <2>1 DEF Control
  <2>3. CASE Prog \in Doubles
    <3>1. y' \in After(y, job.stepY) BY <2>1, <2>3
    <3> QED BY <1>2, <2>1, <2>2, <2>3, <3>1, JobFacts, AfterDouble
  <2>4. CASE Prog \notin Doubles
    <3>1. y' \in After(y, 1) BY <2>1, <2>4
    <3>2. y < IntMax /\ y <= IntMax BY <1>2, <2>1, <2>4, JobFacts
    <3> QED BY <1>2, <2>1, <2>2, <2>4, <3>1, <3>2, AfterInt
  <2> QED BY <2>3, <2>4
<1>5. ASSUME Prog \notin Nested
      PROVE  /\ pc = "x" /\ x <= job.to /\ y' = y /\ y = job.fromY /\ x' \in Int
             /\ Prog \notin Doubles => x' <= IntMax
             /\ Prog \notin Doubles /\ x < IntMax => x' = x + 1
             /\ Prog \in Doubles => x' - x - job.step \in -Err..Err
  <2>1. /\ pc = "x" /\ x <= job.to /\ y' = y /\ x' \in After(x, job.step)
    <3>1. pc = "x" /\ InX BY <1>1, <1>2, <1>5 DEF AtPoint, Control
    <3>2. Prog \notin Strict BY <1>5 DEF Strict, Nested
    <3> QED BY <1>1, <1>5, <3>1, <3>2 DEF InX, Step
  <2>2. y = job.fromY BY <1>2, <1>5 DEF Control
  <2>3. CASE Prog \in Doubles
    BY <1>2, <2>1, <2>2, <2>3, JobFacts, AfterDouble
  <2>4. CASE Prog \notin Doubles
    <3>1. x' \in After(x, 1) BY <1>2, <2>1, <2>4, JobFacts
    <3>2. x <= IntMax BY <1>2, <2>4 DEF Control
    <3> QED BY <1>2, <2>1, <2>2, <2>4, <3>1, <3>2, AfterInt
  <2> QED BY <2>3, <2>4
<1>6. x' \in Int /\ y' \in Int BY <1>2, <1>4, <1>5
<1>7. Control'
  <2>1. UNCHANGED <<pc, job, val>> /\ Prog' = Prog BY <1>1 DEF Prog
  <2>2. pc' = "y" => Prog \in Nested /\ InX'
    BY <1>2, <1>4, <2>1 DEF Control, InX
  <2>3. Prog \notin Nested => y' = job.fromY BY <1>5
  <2>4. Prog \notin Doubles => x' <= IntMax BY <1>2, <1>4, <1>5 DEF Control
  <2> QED BY <1>2, <2>1, <2>2, <2>3, <2>4 DEF Control
<1> QED BY <1>3, <1>4, <1>5, <1>6, <1>7

LEMMA OnwardInts ==
  ASSUME SweepInv, NEW ans \in BOOLEAN, Onward(ans)
  PROVE  IntsAsked'
<1>1. UNCHANGED <<pc, job, stopped>> /\ Types /\ x \in Int /\ y \in Int /\ pc \in {"x", "y"}
  <2>1. Types /\ pc \in {"x", "y"} BY DEF SweepInv, Onward, AtPoint
  <2> QED BY <2>1 DEF Onward, Types
<1>2. /\ Len(visited') = Len(visited) + 1 /\ Asked' = Asked \union {<<x, y>>} /\ Prog' = Prog
      /\ Len(visited) \in Nat
  BY <1>1, NewPoint, ReportPlaces DEF Onward
<1> SUFFICES ASSUME Prog \notin Doubles, EndsInt
             PROVE  /\ x' >= job.from /\ (x' = job.from \/ x' - 1 <= Hi)
                    /\ pc = "y" => y' >= job.fromY /\ (y' = job.fromY \/ y' <= job.toY)
                    /\ IsFiniteSet(Asked') /\ Cardinality(Asked') = Len(visited')
                    /\ Asked' = Before'
  <2>1. EndsInt' = EndsInt /\ Hi' = Hi BY <1>1, <1>2 DEF EndsInt, Hi
  <2> QED BY <1>1, <1>2, <2>1, OnwardTypes DEF IntsAsked
<1>3. /\ x >= job.from /\ (x = job.from \/ x - 1 <= Hi)
      /\ pc = "y" => y >= job.fromY /\ (y = job.fromY \/ y <= job.toY)
      /\ IsFiniteSet(Asked) /\ Cardinality(Asked) = Len(visited)
      /\ Asked = Before
  BY OnwardTypes DEF SweepInv, IntsAsked
<1>4. <<x, y>> \notin Before
  <2>1. x \notin job.from..(x - 1) BY <1>1, JobFacts
  <2>2. y \notin job.fromY..(y - 1) BY <1>1, JobFacts
  <2> QED BY <2>1, <2>2 DEF Before
<1>5. IsFiniteSet(Asked') /\ Cardinality(Asked') = Len(visited')
  <2> DEFINE p == <<x, y>>
  <2>1. p \notin Asked /\ Asked' = Asked \union {p} BY <1>2, <1>3, <1>4
  <2> HIDE DEF p
  <2> QED BY <1>2, <1>3, <2>1, FS_AddElement
<1>6. CASE Prog \in Nested
  <2>1. /\ pc = "y" /\ y < job.toY /\ x' = x /\ y' = y + 1 BY <1>6, OnwardTypes
  <2>2. y' >= job.fromY /\ y' <= job.toY BY <1>1, <1>3, <2>1, JobFacts
  <2>3. job.fromY..(y' - 1) = (job.fromY..(y - 1)) \union {y} BY <1>1, <1>3, <2>1, JobFacts
  <2>4. Before = ((job.from..(x - 1)) \X Row) \union ({x} \X (job.fromY..(y - 1)))
    BY <2>1 DEF Before
  <2>5. Before' = ((job.from..(x - 1)) \X Row) \union ({x} \X (job.fromY..(y' - 1)))
    BY <1>1, <1>2, <2>1 DEF Before, Row
  <2>6. {x} \X (job.fromY..(y' - 1)) = ({x} \X (job.fromY..(y - 1))) \union {<<x, y>>}
    BY <2>3
  <2>7. Before' = Before \union {<<x, y>>} BY <2>4, <2>5, <2>6
  <2> QED BY <1>2, <1>3, <1>5, <2>1, <2>2, <2>7
<1>7. CASE Prog \notin Nested
  <2>1. /\ pc = "x" /\ x <= job.to /\ y = job.fromY
        /\ x < IntMax => x' = x + 1
    BY <1>7, OnwardTypes
  <2>2. Prog \notin Strict BY <1>7 DEF Strict, Nested
  <2>3. x < IntMax BY <1>1, <2>1, <2>2, JobFacts DEF EndsInt
  <2>4. x' = x + 1 /\ x' >= job.from /\ x' - 1 <= Hi BY <1>1, <1>3, <2>1, <2>2, <2>3, JobFacts DEF Hi
  <2>5. job.from..(x' - 1) = (job.from..(x - 1)) \union {x} BY <1>1, <1>3, <2>4, JobFacts
  <2>6. Row = {y} /\ Row' = {y} BY <1>1, <1>2, <1>7, <2>1 DEF Row
  <2>7. Before = (job.from..(x - 1)) \X {y} BY <2>1, <2>6 DEF Before
  <2>8. Before' = (job.from..(x' - 1)) \X {y} BY <1>1, <2>1, <2>6 DEF Before
  <2>9. Before' = Before \union {<<x, y>>} BY <2>5, <2>7, <2>8
  <2> QED BY <1>2, <1>3, <1>5, <2>1, <2>4, <2>9
<1> QED BY <1>6, <1>7

LEMMA OnwardDoubles ==
  ASSUME SweepInv, NEW ans \in BOOLEAN, Onward(ans)
  PROVE  DoublesAsked'
<1>1. UNCHANGED <<pc, job, stopped>> /\ Types /\ x \in Int /\ y \in Int
  <2>1. Types BY DEF SweepInv
  <2> QED BY <2>1 DEF Onward, Types
<1>2. /\ Xs' = Xs \union {x} /\ Prog' = Prog
      /\ \A m : Column(m)' = IF m = x THEN Column(m) \union {y} ELSE Column(m)
  BY <1>1, NewPoint DEF Onward
<1>3. ~(Prog \in Doubles /\ Prog \in Nested /\ job.toY <= job.fromY)
  <2> SUFFICES ASSUME Prog \in Doubles, Prog \in Nested, job.toY <= job.fromY PROVE FALSE
    OBVIOUS
  <2>1. y = job.fromY /\ y < job.toY BY OnwardTypes DEF SweepInv, DoublesAsked
  <2> QED BY <1>1, <2>1, JobFacts
<1>4. /\ ~Ended /\ ~Ended' /\ Going /\ Ran /\ Ran'
      /\ Prog \in Nested => /\ pc = "y" /\ x' = x
                            /\ Prog \in Doubles => y' - y - job.stepY \in -Err..Err
      /\ Prog \notin Nested => /\ pc = "x"
                               /\ Prog \in Doubles => x' - x - job.step \in -Err..Err
      /\ x' \in Int /\ y' \in Int
  BY OnwardTypes
<1> SUFFICES ASSUME Prog \in Doubles
             PROVE  /\ Upto(Xs', job.from, x', job.step)
                    /\ Prog \in Nested =>
                         /\ Upto(Column(x) \union {y}, job.fromY, y', job.stepY)
                         /\ \A n \in Xs' :
                              n = x \/ Upto(Column(n), job.fromY, job.toY, job.stepY)
  <2>1. Prog \in Nested => Column(x)' = Column(x) \union {y} /\ pc' = "y"
    BY <1>1, <1>2, <1>4
  <2>2. Prog \notin Nested => pc' # "y" BY <1>1, <1>4
  <2>3. \A n : n # x => Column(n)' = Column(n) BY <1>2
  <2> QED BY <1>1, <1>2, <1>3, <1>4, <2>1, <2>2, <2>3 DEF DoublesAsked, Upto
<1>5. /\ Upto(Xs, job.from, x, job.step)
      /\ pc = "y" => Upto(Column(x), job.fromY, y, job.stepY)
      /\ Prog \in Nested =>
           \A n \in Xs : (pc = "y" /\ n = x) \/ Upto(Column(n), job.fromY, job.toY, job.stepY)
  BY <1>3, <1>4 DEF SweepInv, DoublesAsked
<1>6. CASE Prog \in Nested
  <2>1. Upto(Xs', job.from, x', job.step) BY <1>2, <1>4, <1>5, <1>6, UptoMore
  <2>2. Upto(Column(x) \union {y}, job.fromY, y', job.stepY)
    BY <1>1, <1>4, <1>5, <1>6, JobFacts, UptoStep
  <2>3. \A n \in Xs' : n = x \/ Upto(Column(n), job.fromY, job.toY, job.stepY)
    BY <1>2, <1>5, <1>6
  <2> QED BY <2>1, <2>2, <2>3
<1>7. CASE Prog \notin Nested
  BY <1>1, <1>2, <1>4, <1>5, <1>7, JobFacts, UptoStep
<1> QED BY <1>6, <1>7

LEMMA OnwardAnswers ==
  ASSUME SweepInv, NEW ans \in BOOLEAN, Onward(ans), in' = ans, ~(ans /\ job.stop)
  PROVE  Answers'
<1>1. /\ Going /\ Going' /\ ~Ended' /\ Answers BY OnwardTypes DEF SweepInv
<1>2. Types /\ UNCHANGED <<job, stopped>> BY DEF SweepInv, Onward
<1>3. /\ Len(visited') = Len(visited) + 1 /\ visited' # <<>>
      /\ visited'[Len(visited')].ans = ans
      /\ HitAt' = IF ans THEN HitAt \union {Len(visited) + 1} ELSE HitAt
  <2>1. /\ Len(visited') = Len(visited) + 1 /\ Len(visited) \in Nat
        /\ visited'[Len(visited) + 1] = [x |-> x, y |-> y, ans |-> ans]
        /\ HitAt' = IF ans THEN HitAt \union {Len(visited) + 1} ELSE HitAt
        /\ visited' \in Seq([x : Int, y : Int, ans : BOOLEAN])
    BY <1>2, NewPoint, ReportPlaces DEF Onward
  <2>2. visited' # <<>> BY <2>1
  <2> QED BY <2>1, <2>2
<1>4. ~stopped' BY <1>1, <1>2 DEF Answers
<1>5. in' <=> (visited' # <<>> /\ visited'[Len(visited')].ans) BY <1>3
<1>6. job'.stop => HitAt' = {} BY <1>1, <1>2, <1>3 DEF Answers
<1> QED BY <1>1, <1>4, <1>5, <1>6 DEF Answers

(* A call that stops at a true point has found none before. *)
LEMMA StopInv ==
  ASSUME SweepInv, AtPoint, job.stop, reports' \in Seq(ReportTypes),
         pc' = "value", val' = val + 1, total' = total + 1, stopped' = TRUE, in' = TRUE,
         UNCHANGED <<job, x, y, count>>,
         visited' = Append(visited, [x |-> x, y |-> y, ans |-> TRUE])
  PROVE  SweepInv'
<1>1. Types /\ Control /\ Answers /\ Going BY DEF SweepInv, AtPoint, Going
<1>2. ~Going' /\ ~Ran' BY DEF Going, Ran
<1>3. TRUE \in BOOLEAN OBVIOUS
<1>4. /\ Len(visited') = Len(visited) + 1
      /\ HitAt' = HitAt \union {Len(visited) + 1} /\ Prog' = Prog
      /\ visited' \in Seq([x : Int, y : Int, ans : BOOLEAN])
  BY <1>1, <1>3, NewPoint
<1>5. val' >= job.valFrom /\ val' \in Int
  <2>1. val \in Int /\ val >= job.valFrom BY <1>1 DEF Types, Control
  <2> QED BY <1>1, <2>1, JobFacts
<1>6. Types'
  <2>1. ReportTypes' = ReportTypes BY <1>4 DEF ReportTypes
  <2>2. total' \in Int BY <1>1 DEF Types
  <2>3. in' \in BOOLEAN /\ stopped' \in BOOLEAN BY Zenon
  <2> QED BY <1>1, <1>4, <1>5, <2>1, <2>2, <2>3 DEF Types
<1>7. Control' BY <1>1, <1>4, <1>5 DEF Control
<1>8. Answers'
  <2>1. HitAt = {} BY <1>1 DEF Answers
  <2>2. HitAt' = {Len(visited')} BY <1>4, <2>1
  <2> QED BY <1>2, <2>2 DEF Answers
<1> QED BY <1>2, <1>6, <1>7, <1>8 DEF SweepInv, Shown, Open, IntsAsked, DoublesAsked

LEMMA PointInv == \A ans \in BOOLEAN : SweepInv /\ Point(ans) => SweepInv'
<1> SUFFICES ASSUME NEW ans \in BOOLEAN, SweepInv, Point(ans) PROVE SweepInv' OBVIOUS
<1> DEFINE rs == IF ans THEN Append(reports, <<x, y>>) ELSE reports
           n == Len(visited)
<1>1. /\ AtPoint /\ Prog \notin Intervals
      /\ visited' = Append(visited, [x |-> x, y |-> y, ans |-> ans])
      /\ in' = ans /\ job' = job
      /\ IF ans /\ job.stop
         THEN Return(1, rs) /\ stopped' = TRUE /\ UNCHANGED <<x, y, count>>
         ELSE /\ Step /\ count' = (IF ans THEN count + 1 ELSE count) /\ reports' = rs
              /\ UNCHANGED <<pc, val, total, stopped>>
  BY DEF Point
<1>2. Types /\ x \in Int /\ y \in Int /\ n \in Nat /\ HitAt \in SUBSET (1..n)
  <2>1. Types BY DEF SweepInv
  <2> QED BY <2>1, ReportPlaces DEF Types
<1>3. ReportTypes = Int \X Int /\ reports \in Seq(Int \X Int)
  BY <1>1, <1>2 DEF Types, ReportTypes
<1>4. <<x, y>> \in Int \X Int BY <1>2
<1>5. /\ rs \in Seq(Int \X Int)
      /\ Len(rs) = IF ans THEN Len(reports) + 1 ELSE Len(reports)
      /\ \A k \in 1..Len(reports) : rs[k] = reports[k]
      /\ ans => rs[Len(reports) + 1] = <<x, y>>
  BY <1>3, <1>4, AppendProperties
<1> HIDE DEF rs, n
<1>6. CASE ans /\ job.stop
  <2>1. ans = TRUE BY <1>6
  <2> QED BY <1>1, <1>3, <1>5, <1>6, <2>1, StopInv DEF Return
<1>7. CASE ~(ans /\ job.stop)
  <2>1. /\ Step /\ count' = (IF ans THEN count + 1 ELSE count) /\ reports' = rs
        /\ UNCHANGED <<pc, val, total, stopped>>
    BY <1>1, <1>7
  <2>2. Onward(ans) BY <1>1, <2>1 DEF Onward
  <2>3. /\ x' \in Int /\ y' \in Int /\ Control' /\ Ran /\ Ran' BY <2>2, OnwardTypes
  <2>4. /\ Len(visited') = n + 1
        /\ \A k \in 1..n : visited'[k] = visited[k]
        /\ visited'[n + 1] = [x |-> x, y |-> y, ans |-> ans]
        /\ HitAt' = (IF ans THEN HitAt \union {n + 1} ELSE HitAt) /\ Prog' = Prog
        /\ visited' \in Seq([x : Int, y : Int, ans : BOOLEAN])
    BY <1>1, <1>2, NewPoint DEF n
  <2>5. Types'
    <3>1. ReportTypes' = Int \X Int BY <1>1, <2>4 DEF ReportTypes
    <3>2. count' \in Int BY <1>2, <2>1 DEF Types
    <3>3. in' \in BOOLEAN BY <1>1
    <3> QED BY <1>1, <1>2, <1>5, <2>1, <2>3, <2>4, <3>1, <3>2, <3>3 DEF Types
  <2>6. Answers' BY <1>1, <1>7, <2>2, OnwardAnswers
  <2>7. Shown'
    <3>1. /\ Len(reports) = Cardinality(HitAt) /\ count = Len(reports)
          /\ \A k \in HitAt : reports[Place(k, HitAt)] = <<visited[k].x, visited[k].y>>
      BY <1>1, <2>3 DEF SweepInv, Shown, PointsShown
    <3>2. \A k \in HitAt : Place(k, HitAt) \in 1..Len(reports) BY <1>2, <3>1, Places
    <3>3. \A k \in HitAt : rs[Place(k, HitAt)] = <<visited'[k].x, visited'[k].y>>
      BY <1>2, <1>5, <2>4, <3>1, <3>2
    <3>4. PointsShown'
      <4>1. CASE ans
        <5>1. /\ Cardinality(HitAt') = Cardinality(HitAt) + 1
              /\ Place(n + 1, HitAt') = Cardinality(HitAt) + 1
              /\ \A k \in HitAt : Place(k, HitAt') = Place(k, HitAt)
          BY <1>2, <2>4, <4>1, NewPlace
        <5>2. rs[Place(n + 1, HitAt')] = <<visited'[n + 1].x, visited'[n + 1].y>>
          <6>1. visited'[n + 1].x = x /\ visited'[n + 1].y = y BY <2>4
          <6>2. Place(n + 1, HitAt') = Len(reports) + 1 BY <3>1, <5>1
          <6>3. rs[Len(reports) + 1] = <<x, y>> BY <1>5, <4>1
          <6> HIDE DEF Place
          <6> QED BY <6>1, <6>2, <6>3
        <5>3. \A k \in HitAt' : rs[Place(k, HitAt')] = <<visited'[k].x, visited'[k].y>>
          BY <2>4, <3>3, <4>1, <5>1, <5>2
        <5>4. count' = Len(rs) /\ Len(rs) = Cardinality(HitAt')
          BY <1>5, <2>1, <3>1, <4>1, <5>1
        <5>5. \A k : Place(k, HitAt)' = Place(k, HitAt') BY DEF Place
        <5> QED BY <2>1, <5>3, <5>4, <5>5 DEF PointsShown
      <4>2. CASE ~ans
        <5>1. HitAt' = HitAt /\ count' = Len(rs) /\ Len(rs) = Len(reports)
          BY <1>5, <2>1, <2>4, <3>1, <4>2
        <5>5. \A k : Place(k, HitAt)' = Place(k, HitAt') BY DEF Place
        <5> QED BY <2>1, <3>1, <3>3, <5>1, <5>5 DEF PointsShown
      <4> QED BY <4>1, <4>2
    <3> QED BY <1>1, <2>4, <3>4 DEF Shown
  <2>8. Open' BY <1>1, <2>4 DEF Open
  <2>9. IntsAsked' /\ DoublesAsked' BY <2>2, OnwardInts, OnwardDoubles
  <2> QED BY <2>3, <2>5, <2>6, <2>7, <2>8, <2>9 DEF SweepInv
<1> QED BY <1>6, <1>7

(* How the answer at a new point changes the intervals told: one begins,    *)
(* one ends, one goes on, or none is concerned.                             *)
LEMMA IntervalsShown ==
  ASSUME SweepInv, NEW ans \in BOOLEAN, Onward(ans), Prog \in Intervals, NEW hi \in UpperEnd,
         reports' = CASE ans /\ ~in -> Append(reports, [lo |-> x, hi |-> "open"])
                      [] ~ans /\ in -> [reports EXCEPT ![Len(reports)].hi = hi]
                      [] OTHER -> reports,
         count' = IF ans /\ (Prog = "task1" \/ ~in) THEN count + 1 ELSE count
  PROVE  reports' \in Seq(ReportTypes) /\ RunsShown("open")'
<1> DEFINE n == Len(visited)
<1>1. /\ Types /\ Answers /\ Open /\ job' = job
      /\ visited' = Append(visited, [x |-> x, y |-> y, ans |-> ans])
      /\ Going
  BY OnwardTypes DEF SweepInv, Onward
<1>2. /\ n \in Nat /\ HitAt \in SUBSET (1..n) /\ Begins \in SUBSET (1..n)
      /\ x \in Int /\ y \in Int /\ in \in BOOLEAN
      /\ \A k \in 1..n : visited[k].x \in Int /\ visited[k].ans \in BOOLEAN
  BY <1>1, ReportPlaces DEF Types
<1>3. ReportTypes = [lo : Int, hi : Int \union {"open", "more"}] /\ reports \in Seq(ReportTypes)
  BY <1>1 DEF Types, ReportTypes
<1>4. RunsShown("open") BY <1>1 DEF SweepInv, Shown, Ran
<1>5. /\ Len(visited') = n + 1
      /\ \A k \in 1..n : visited'[k] = visited[k]
      /\ visited'[n + 1] = [x |-> x, y |-> y, ans |-> ans]
      /\ HitAt' = (IF ans THEN HitAt \union {n + 1} ELSE HitAt) /\ Prog' = Prog
      /\ Begins' = (IF ans /\ ~in THEN Begins \union {n + 1} ELSE Begins)
  BY <1>1, NewPoint, NewBegin
<1>6. visited'[n + 1].x = x /\ visited'[n + 1].ans = ans BY <1>5
<1>8. /\ Len(reports) = Cardinality(Begins) /\ Len(reports) \in Nat
      /\ \A k \in Begins : Place(k, Begins) \in 1..Len(reports)
  <2>1. Len(reports) = Cardinality(Begins) BY <1>4 DEF RunsShown
  <2> QED BY <1>2, <2>1, Places
<1> DEFINE RunNow(k, m) ==
      /\ \A j \in k..m : visited'[j].ans
      /\ m = n + 1 \/ ~visited'[m + 1].ans
<1>9. ASSUME NEW k \in Begins, NEW m \in k..n, IsRun(k, m), m # n
      PROVE  /\ RunNow(k, m) /\ m # n + 1 /\ m \in k..(n + 1)
             /\ visited'[m] = visited[m] /\ visited'[k] = visited[k]
  <2>1. k \in 1..n /\ m \in 1..n /\ m + 1 \in 1..n BY <1>2, <1>9
  <2>2. ~visited[m + 1].ans /\ \A j \in k..m : visited[j].ans BY <1>9 DEF IsRun
  <2>3. visited'[m + 1] = visited[m + 1] BY <1>5, <2>1
  <2>4. \A j \in k..m : visited'[j] = visited[j] BY <1>5, <2>1
  <2>5. RunNow(k, m) BY <2>2, <2>3, <2>4
  <2> QED BY <1>2, <1>5, <2>1, <2>5
<1>10. ASSUME NEW k \in Begins, IsRun(k, n)
       PROVE  in /\ n \in 1..n /\ k \in 1..n /\ Place(k, Begins) = Len(reports)
              /\ n # n + 1 /\ visited'[k] = visited[k] /\ visited'[n] = visited[n]
              /\ \A j \in k..n : visited'[j].ans
  <2>1. k \in 1..n /\ n \in k..n BY <1>2
  <2>2. visited[n].ans BY <2>1, <1>10 DEF IsRun
  <2>3. visited # <<>> BY <2>1
  <2>4. in BY <1>1, <2>2, <2>3 DEF Answers
  <2>5. Place(k, Begins) = Len(reports) BY <1>1, <1>8, <1>10, Latest
  <2>6. \A j \in k..n : j \in 1..n /\ visited[j].ans BY <2>1, <1>10 DEF IsRun
  <2> QED BY <1>2, <1>5, <2>1, <2>4, <2>5, <2>6
<1>11. ASSUME NEW k \in Begins
       PROVE  LET r == reports[Place(k, Begins)] IN
              /\ r \in ReportTypes /\ r.lo = visited[k].x
              /\ \/ IsRun(k, n) /\ r.hi = "open"
                 \/ \E m \in k..n : IsRun(k, m) /\ m # n /\ Close(r.hi, visited[m].x)
  <2> DEFINE r == reports[Place(k, Begins)]
  <2>1. Told(k, r, "open") BY <1>4 DEF RunsShown
  <2>2. r \in ReportTypes BY <1>3, <1>8, ElementOfSeq
  <2> QED BY <2>1, <2>2 DEF Told
<1>7. count = IF Prog = "task1" THEN Cardinality(HitAt) ELSE Len(reports)
  BY <1>4 DEF RunsShown
<1> DEFINE Tells(k, r) ==
      /\ r.lo = visited'[k].x
      /\ \E m \in k..(n + 1) :
           /\ RunNow(k, m)
           /\ IF m = n + 1 THEN r.hi = "open" ELSE Close(r.hi, visited'[m].x)
<1>12. ASSUME Len(reports') = Cardinality(Begins'),
              count' = IF Prog = "task1" THEN Cardinality(HitAt') ELSE Len(reports'),
              \A k \in Begins' : Tells(k, reports'[Place(k, Begins')])
       PROVE  RunsShown("open")'
  <2>1. \A k : Place(k, Begins)' = Place(k, Begins') BY DEF Place
  <2>2. \A a, b : Close(a, b)' = Close(a, b) BY DEF Close
  <2>3. \A k, m : IsRun(k, m)' <=> RunNow(k, m) BY <1>5 DEF IsRun
  <2>4. \A k, r : Told(k, r, "open")' <=> Tells(k, r) BY <1>5, <2>2, <2>3 DEF Told
  <2>5. \A k \in Begins' : Told(k, reports[Place(k, Begins)], "open")'
    BY <1>12, <2>1, <2>4
  <2> QED BY <1>5, <1>12, <2>5 DEF RunsShown
<1>13. CASE ans /\ ~in
  <2> DEFINE new == [lo |-> x, hi |-> "open"]
  <2>1. reports' = Append(reports, new) BY <1>13
  <2>2. new \in ReportTypes /\ new.lo = x /\ new.hi = "open" BY <1>2, <1>3
  <2> HIDE DEF new
  <2>a. reports \in Seq(ReportTypes) BY <1>3
  <2>3. /\ reports' \in Seq(ReportTypes) /\ Len(reports') = Len(reports) + 1
        /\ \A j \in 1..Len(reports) : reports'[j] = reports[j]
        /\ reports'[Len(reports) + 1] = new
    BY <2>a, <2>1, <2>2, AppendProperties
  <2>4. /\ Begins' = Begins \union {n + 1} /\ HitAt' = HitAt \union {n + 1}
        /\ Cardinality(Begins') = Cardinality(Begins) + 1
        /\ Cardinality(HitAt') = Cardinality(HitAt) + 1
        /\ Place(n + 1, Begins') = Cardinality(Begins) + 1
        /\ \A k \in Begins : Place(k, Begins') = Place(k, Begins)
    BY <1>2, <1>5, <1>13, NewPlace
  <2>5. ASSUME NEW k \in Begins PROVE Tells(k, reports'[Place(k, Begins')])
    <3>1. reports'[Place(k, Begins')] = reports[Place(k, Begins)] BY <1>8, <2>3, <2>4
    <3>2. ~IsRun(k, n) BY <1>10, <1>13
    <3>3. PICK m \in k..n : IsRun(k, m) /\ m # n /\ Close(reports[Place(k, Begins)].hi, visited[m].x)
      BY <1>11, <3>2
    <3>4. reports[Place(k, Begins)].lo = visited[k].x BY <1>11
    <3> QED BY <1>9, <3>1, <3>3, <3>4
  <2>6. Tells(n + 1, reports'[Place(n + 1, Begins')])
    <3>1. reports'[Place(n + 1, Begins')] = new BY <1>8, <2>3, <2>4
    <3>2. RunNow(n + 1, n + 1)
      <4>1. \A j \in (n + 1)..(n + 1) : j = n + 1 BY <1>2
      <4> QED BY <1>6, <1>13, <4>1
    <3>3. n + 1 \in (n + 1)..(n + 1) BY <1>2
    <3> QED BY <1>6, <2>2, <3>1, <3>2, <3>3
  <2>7. \A k \in Begins' : Tells(k, reports'[Place(k, Begins')])
    <3> HIDE DEF Tells, n
    <3> QED BY <2>4, <2>5, <2>6
  <2>8. Len(reports') = Cardinality(Begins') BY <1>8, <2>3, <2>4
  <2>9. count' = IF Prog = "task1" THEN Cardinality(HitAt') ELSE Len(reports')
    BY <1>7, <1>13, <2>3, <2>4
  <2> QED BY <1>12, <2>3, <2>7, <2>8, <2>9
<1>14. CASE ans /\ in
  <2>1. reports' = reports /\ Begins' = Begins /\ HitAt' = HitAt \union {n + 1} BY <1>5, <1>14
  <2>2. Cardinality(HitAt') = Cardinality(HitAt) + 1 BY <1>2, <2>1, NewPlace
  <2>3. ASSUME NEW k \in Begins PROVE Tells(k, reports[Place(k, Begins)])
    <3>1. CASE IsRun(k, n)
      <4>1. \A j \in k..(n + 1) : visited'[j].ans
        <5>1. \A j \in k..(n + 1) : j \in k..n \/ j = n + 1 BY <1>2
        <5> QED BY <1>6, <1>10, <1>14, <3>1, <5>1
      <4>2. RunNow(k, n + 1) BY <4>1
      <4>3. n + 1 \in k..(n + 1) BY <1>2
      <4>4. visited'[k] = visited[k] BY <1>10, <3>1
      <4>5. reports[Place(k, Begins)].hi = "open"
        <5>1. ~ \E m \in k..n : IsRun(k, m) /\ m # n
          <6> SUFFICES ASSUME NEW m \in k..n, IsRun(k, m), m # n PROVE FALSE OBVIOUS
          <6>1. m + 1 \in k..n BY <1>2
          <6> QED BY <3>1, <6>1 DEF IsRun
        <5> QED BY <1>11, <5>1
      <4> QED BY <1>11, <4>2, <4>3, <4>4, <4>5
    <3>2. CASE ~IsRun(k, n)
      <4>1. PICK m \in k..n : IsRun(k, m) /\ m # n /\ Close(reports[Place(k, Begins)].hi, visited[m].x)
        BY <1>11, <3>2
      <4>2. reports[Place(k, Begins)].lo = visited[k].x BY <1>11
      <4> QED BY <1>9, <4>1, <4>2
    <3> QED BY <3>1, <3>2
  <2>4. count' = IF Prog = "task1" THEN Cardinality(HitAt') ELSE Len(reports')
    BY <1>7, <1>14, <2>1, <2>2
  <2> HIDE DEF Tells
  <2> QED BY <1>3, <1>8, <1>12, <2>1, <2>3, <2>4
<1>15. CASE ~ans /\ in
  <2> DEFINE last == Len(reports)
             end == [reports[last] EXCEPT !.hi = hi]
  <2>1. reports' = [reports EXCEPT ![last] = end] BY <1>15
  <2>2. Begins' = Begins /\ HitAt' = HitAt /\ count' = count BY <1>5, <1>15
  <2>3. last \in 1..last
    <3>1. PICK k \in Begins : TRUE BY <1>1, <1>15 DEF Open
    <3>2. Place(k, Begins) \in 1..last BY <1>8
    <3> QED BY <1>8, <3>2
  <2>4. hi \in Int /\ hi - (x - job.step) \in -Err..Err
    <3>1. Prog \in Doubles BY DEF Intervals, Doubles
    <3>2. hi \in {(x - job.step) + e : e \in -Err..Err} BY <3>1 DEF UpperEnd, Rounded
    <3>3. PICK e \in -Err..Err : hi = (x - job.step) + e BY <3>2
    <3>4. job.step \in Int /\ Err \in Nat BY <1>1, JobFacts
    <3> QED BY <1>2, <3>3, <3>4
  <2>5. reports[last] \in ReportTypes BY <1>3, <2>3, ElementOfSeq
  <2>6. end \in ReportTypes /\ end.lo = reports[last].lo /\ end.hi = hi BY <1>3, <2>4, <2>5
  <2> HIDE DEF end, last
  <2>a. reports \in Seq(ReportTypes) /\ last = Len(reports) BY <1>3 DEF last
  <2>7. /\ reports' \in Seq(ReportTypes) /\ Len(reports') = last
        /\ \A j \in 1..last : reports'[j] = IF j = last THEN end ELSE reports[j]
    <3>1. last \in 1..Len(reports) BY <2>a, <2>3
    <3>2. end \in ReportTypes BY <2>6
    <3>3. /\ [reports EXCEPT ![last] = end] \in Seq(ReportTypes)
          /\ Len([reports EXCEPT ![last] = end]) = Len(reports)
          /\ \A j \in 1..Len(reports) :
               [reports EXCEPT ![last] = end][j] = IF j = last THEN end ELSE reports[j]
      BY <2>a, <3>1, <3>2, ExceptSeq
    <3> QED BY <2>a, <2>1, <3>3
  <2>8. ASSUME NEW k \in Begins PROVE Tells(k, reports'[Place(k, Begins)])
    <3>1. CASE IsRun(k, n)
      <4>1. reports'[Place(k, Begins)] = end /\ end.lo = visited[k].x
        BY <1>8, <1>10, <1>11, <2>3, <2>6, <2>7, <2>a, <3>1
      <4>2. RunNow(k, n)
        <5>1. ~visited'[n + 1].ans BY <1>6, <1>15
        <5> QED BY <1>10, <3>1, <5>1
      <4>3. Close(hi, visited[n].x)
        <5>1. n \in 1..n /\ visited # <<>> BY <1>10, <3>1
        <5>2. x - job.step - visited[n].x \in -Err..Err BY <1>1, <5>1 DEF Open
        <5>3. visited[n].x \in Int BY <1>2, <5>1
        <5>4. job.step \in Int /\ Err \in Nat /\ x \in Int BY <1>1, <1>2, JobFacts
        <5> HIDE DEF n
        <5> DEFINE vx == visited[n].x
        <5>a. /\ hi \in Int /\ vx \in Int /\ -Err <= hi - (x - job.step) /\ hi - (x - job.step) <= Err
              /\ -Err <= x - job.step - vx /\ x - job.step - vx <= Err
          BY <2>4, <5>2, <5>3, <5>4
        <5> HIDE DEF vx
        <5>b. -Err - Err <= hi - vx /\ hi - vx <= Err + Err BY <5>a, <5>4
        <5>c. -2 * Err = -Err - Err /\ 2 * Err = Err + Err BY <5>4
        <5>d. hi - vx \in (-2 * Err)..(2 * Err) BY <5>a, <5>b, <5>c, <5>4
        <5>5. hi - visited[n].x \in (-2 * Err)..(2 * Err) BY <5>d DEF vx
        <5> QED BY <5>5 DEF Close
      <4>4. n \in k..(n + 1) /\ n # n + 1 BY <1>2, <1>10, <3>1
      <4> QED BY <1>10, <2>6, <3>1, <4>1, <4>2, <4>3, <4>4
    <3>2. CASE ~IsRun(k, n)
      <4>1. PICK m \in k..n : IsRun(k, m) /\ m # n /\ Close(reports[Place(k, Begins)].hi, visited[m].x)
        BY <1>11, <3>2
      <4>2. reports[Place(k, Begins)].lo = visited[k].x BY <1>11
      <4>3. Place(k, Begins) # last
        <5>1. PICK l \in Begins : \A j \in l..n : visited[j].ans BY <1>1, <1>15 DEF Open
        <5>2. Place(k, Begins) < Cardinality(Begins) BY <1>1, <4>1, <5>1, Latest
        <5> QED BY <1>8, <2>a, <5>2
      <4>4. reports'[Place(k, Begins)] = reports[Place(k, Begins)] BY <1>8, <2>7, <2>a, <4>3
      <4> QED BY <1>9, <4>1, <4>2, <4>4
    <3> QED BY <3>1, <3>2
  <2>9. count' = IF Prog = "task1" THEN Cardinality(HitAt') ELSE Len(reports')
    BY <1>7, <2>2, <2>7, <2>a
  <2> QED BY <1>8, <1>12, <2>2, <2>7, <2>8, <2>9, <2>a
<1>16. CASE ~ans /\ ~in
  <2>1. reports' = reports /\ Begins' = Begins /\ HitAt' = HitAt /\ count' = count
    BY <1>5, <1>16
  <2>2. ASSUME NEW k \in Begins PROVE Tells(k, reports[Place(k, Begins)])
    <3>1. ~IsRun(k, n) BY <1>10, <1>16
    <3>2. PICK m \in k..n : IsRun(k, m) /\ m # n /\ Close(reports[Place(k, Begins)].hi, visited[m].x)
      BY <1>11, <3>1
    <3>3. reports[Place(k, Begins)].lo = visited[k].x BY <1>11
    <3> QED BY <1>9, <3>2, <3>3
  <2> HIDE DEF Tells
  <2> QED BY <1>3, <1>7, <1>8, <1>12, <2>1, <2>2
<1> QED BY <1>13, <1>14, <1>15, <1>16

LEMMA IntervalInv == \A ans \in BOOLEAN : SweepInv /\ Interval(ans) => SweepInv'
<1> SUFFICES ASSUME NEW ans \in BOOLEAN, SweepInv, Interval(ans) PROVE SweepInv' OBVIOUS
<1> DEFINE n == Len(visited)
<1>1. /\ AtPoint /\ Prog \in Intervals
      /\ visited' = Append(visited, [x |-> x, y |-> y, ans |-> ans])
      /\ in' = ans /\ job' = job
  BY DEF Interval
<1>2. /\ Types /\ Answers /\ Open /\ Going /\ n \in Nat /\ Begins \in SUBSET (1..n)
      /\ Begins \subseteq HitAt
  BY <1>1, ReportPlaces DEF SweepInv, AtPoint, Going
<1>3. CASE ans /\ ~in /\ job.stop
  <2>1. Return(1, reports) /\ stopped' = TRUE /\ UNCHANGED <<x, y, count>>
    BY <1>3 DEF Interval
  <2>2. reports \in Seq(ReportTypes) BY <1>2 DEF Types
  <2>3. ans = TRUE BY <1>3
  <2> QED BY <1>1, <1>3, <2>1, <2>2, <2>3, StopInv DEF Return
<1>4. CASE ~(ans /\ ~in /\ job.stop)
  <2>1. /\ Step /\ UNCHANGED <<pc, val, total, stopped>>
        /\ count' = IF ans /\ (Prog = "task1" \/ ~in) THEN count + 1 ELSE count
    BY <1>4 DEF Interval
  <2>2. PICK hi \in UpperEnd :
          reports' = CASE ans /\ ~in -> Append(reports, [lo |-> x, hi |-> "open"])
                       [] ~ans /\ in -> [reports EXCEPT ![Len(reports)].hi = hi]
                       [] OTHER -> reports
    BY <1>4 DEF Interval
  <2>3. Onward(ans) BY <1>1, <2>1 DEF Onward
  <2>4. reports' \in Seq(ReportTypes) /\ RunsShown("open")'
    BY <1>1, <2>1, <2>2, <2>3, IntervalsShown
  <2>5. Prog \in Doubles /\ Prog \notin Nested BY <1>1 DEF Intervals, Doubles, Nested
  <2>6. /\ x' \in Int /\ y' \in Int /\ Control' /\ Going' /\ Ran' /\ pc = "x"
        /\ x' - x - job.step \in -Err..Err
    BY <2>3, <2>5, OnwardTypes
  <2>7. /\ Len(visited') = n + 1
        /\ \A k \in 1..n : visited'[k] = visited[k]
        /\ visited'[n + 1] = [x |-> x, y |-> y, ans |-> ans]
        /\ Prog' = Prog
        /\ visited' \in Seq([x : Int, y : Int, ans : BOOLEAN])
    BY <1>1, <1>2, NewPoint
  <2>8. Begins' = IF ans /\ ~in THEN Begins \union {n + 1} ELSE Begins
    BY <1>1, <1>2, NewBegin
  <2>9. Types'
    <3>1. ReportTypes' = ReportTypes BY <2>7 DEF ReportTypes
    <3>2. count' \in Int BY <1>2, <2>1 DEF Types
    <3>3. in' \in BOOLEAN BY <1>1
    <3> QED BY <1>1, <1>2, <2>1, <2>4, <2>6, <2>7, <3>1, <3>2, <3>3 DEF Types
  <2>10. Answers'
    <3>1. ~(ans /\ job.stop)
      <4> SUFFICES ASSUME ans, job.stop, in PROVE FALSE BY <1>4
      <4>1. HitAt = {} BY <1>2 DEF Answers
      <4>2. PICK k \in Begins : TRUE BY <1>2, <1>1 DEF Open
      <4> QED BY <1>2, <4>1, <4>2
    <3> QED BY <1>1, <2>3, <3>1, OnwardAnswers
  <2>11. Shown' BY <1>1, <2>4, <2>6, <2>7 DEF Shown
  <2>12. Open'
    <3>1. ASSUME in' PROVE \E k \in Begins' : \A j \in k..(n + 1) : visited'[j].ans
      <4>1. visited'[n + 1].ans /\ ans BY <1>1, <2>7, <3>1
      <4>2. CASE in
        <5>1. PICK k \in Begins : \A j \in k..n : visited[j].ans BY <1>1, <1>2, <4>2 DEF Open
        <5>2. \A j \in k..(n + 1) : j = n + 1 \/ (j \in k..n /\ j \in 1..n) BY <1>2
        <5>3. \A j \in k..(n + 1) : visited'[j].ans BY <2>7, <4>1, <5>1, <5>2
        <5> QED BY <2>8, <4>2, <5>3
      <4>3. CASE ~in
        <5>1. n + 1 \in Begins' BY <2>8, <4>1, <4>3
        <5>2. \A j \in (n + 1)..(n + 1) : j = n + 1 BY <1>2
        <5> QED BY <4>1, <5>1, <5>2
      <4> QED BY <4>2, <4>3
    <3>2. x' - job.step - visited'[n + 1].x \in -Err..Err
      <4>1. visited'[n + 1].x = x /\ x \in Int BY <1>2, <2>7 DEF Types
      <4> HIDE DEF n
      <4> QED BY <1>2, <2>6, <4>1, JobFacts
    <3> QED BY <1>1, <2>7, <3>1, <3>2 DEF Open
  <2>13. IntsAsked' /\ DoublesAsked' BY <2>3, OnwardInts, OnwardDoubles
  <2> QED BY <2>6, <2>9, <2>10, <2>11, <2>12, <2>13 DEF SweepInv
<1> QED BY <1>3, <1>4

-----------------------------------------------------------------------------
(* Every step keeps the invariant, and so does one that changes nothing.    *)
LEMMA NextInv == SweepInv /\ [Next]_vars => SweepInv'
<1> SUFFICES ASSUME SweepInv, [Next]_vars PROVE SweepInv' OBVIOUS
<1>1. CASE UNCHANGED vars
  <2>1. UNCHANGED <<pc, job, val, x, y, in, count, total, reports, visited, stopped>>
    BY <1>1 DEF vars
  <2>2. /\ HitAt' = HitAt /\ Begins' = Begins /\ Asked' = Asked /\ Xs' = Xs /\ Prog' = Prog
        /\ \A n : Column(n)' = Column(n)
        /\ \A k, m : IsRun(k, m)' = IsRun(k, m)
    BY <2>1, Silent
  <2>3. Types' BY <2>1, <2>2 DEF SweepInv, Types, ReportTypes
  <2>4. Control' /\ Answers' BY <2>1, <2>2 DEF SweepInv, Control, Answers, InX, Going, Ended
  <2>5. Going' = Going /\ Ended' = Ended /\ Ran' = Ran BY <2>1 DEF Going, Ended, Ran
  <2>6. Shown'
    <3>1. PointsShown' = PointsShown BY <2>1, <2>2 DEF PointsShown, Place
    <3>2. \A k, r, mark : Told(k, r, mark)' = Told(k, r, mark)
      BY <2>1, <2>2 DEF Told, Close
    <3>3. \A mark : RunsShown(mark)' = RunsShown(mark)
      BY <2>1, <2>2, <3>2 DEF RunsShown, Place
    <3> QED BY <2>2, <2>5, <3>1, <3>3 DEF SweepInv, Shown
  <2>7. Open' BY <2>1, <2>2, <2>5 DEF SweepInv, Open
  <2>8. IntsAsked'
    BY <2>1, <2>2, <2>5 DEF SweepInv, IntsAsked, EndsInt, Hi, Before, Row
  <2>9. DoublesAsked'
    BY <2>1, <2>2, <2>5 DEF SweepInv, DoublesAsked, Upto
  <2> QED BY <2>3, <2>4, <2>6, <2>7, <2>8, <2>9 DEF SweepInv
<1>2. CASE Start BY <1>2, StartInv
<1>3. CASE NextValue BY <1>3, NextValueInv
<1>4. CASE EndValues BY <1>4, EndValuesInv
<1>5. CASE EnterRow BY <1>5, EnterRowInv
<1>6. CASE LeaveRow BY <1>6, LeaveRowInv
<1>7. CASE EndRange BY <1>7, EndRangeInv
<1>8. ASSUME NEW ans \in BOOLEAN, Point(ans) \/ Interval(ans) PROVE SweepInv'
  BY <1>8, PointInv, IntervalInv
<1> QED BY <1>1, <1>2, <1>3, <1>4, <1>5, <1>6, <1>7, <1>8 DEF Next

(* At every step of every sweep the variables have their types, what has    *)
(* been asked is the part of the range behind the loop variables, and what  *)
(* has been printed is what the answers so far amount to.                   *)
THEOREM SweepCorrect == Spec => []SweepInv
<1>1. Init => SweepInv BY InitInv
<1>2. SweepInv /\ [Next]_vars => SweepInv' BY NextInv
<1> QED BY <1>1, <1>2, PTL DEF Spec

(* What is printed is what was found: for every range, step and answers,    *)
(* the true points in their order, or the maximal runs of true points with  *)
(* an upper end at most two rounding errors off; and the count is right.    *)
THEOREM ReportsAreRuns == Spec => []ReportsRuns
<1>1. SweepInv => ReportsRuns
  <2> SUFFICES ASSUME SweepInv, Ended, ~stopped PROVE
        IF Prog \notin Intervals
        THEN /\ Len(reports) = Cardinality(HitAt) /\ count = Len(reports)
             /\ \A k \in HitAt : reports[Place(k, HitAt)] = <<visited[k].x, visited[k].y>>
        ELSE /\ Len(reports) = Cardinality(Begins)
             /\ count = IF Prog = "task1" THEN Cardinality(HitAt) ELSE Len(reports)
             /\ \A k \in Begins :
                  LET r == reports[Place(k, Begins)] m == RunEnd(k) IN
                  /\ r.lo = visited[k].x
                  /\ IF m = Len(visited) THEN r.hi = "more" ELSE Close(r.hi, visited[m].x)
    BY DEF ReportsRuns
  <2>1. Types /\ Shown /\ Ran /\ ~Going BY DEF SweepInv, Ran, Going, Ended
  <2>2. CASE Prog \notin Intervals BY <2>1, <2>2 DEF Shown, PointsShown
  <2>3. CASE Prog \in Intervals
    <3>1. RunsShown("more") BY <2>1, <2>3 DEF Shown
    <3>2. ASSUME NEW k \in Begins
          PROVE  LET r == reports[Place(k, Begins)] m == RunEnd(k) IN
                 /\ r.lo = visited[k].x
                 /\ IF m = Len(visited) THEN r.hi = "more" ELSE Close(r.hi, visited[m].x)
      <4> DEFINE r == reports[Place(k, Begins)]
      <4>1. Told(k, r, "more") BY <3>1 DEF RunsShown
      <4>2. PICK m \in k..Len(visited) :
              /\ IsRun(k, m)
              /\ IF m = Len(visited) THEN r.hi = "more" ELSE Close(r.hi, visited[m].x)
        BY <4>1 DEF Told
      <4>3. RunEnd(k) \in k..Len(visited) /\ IsRun(k, RunEnd(k)) BY <4>2 DEF RunEnd
      <4>4. RunEnd(k) = m
        <5> DEFINE e == RunEnd(k)
        <5>1. k \in Int /\ Len(visited) \in Int /\ m \in Int /\ e \in Int
          <6>1. Len(visited) \in Nat /\ k \in 1..Len(visited) BY <2>1, ReportPlaces
          <6>2. m \in k..Len(visited) /\ e \in k..Len(visited) BY <4>2, <4>3
          <6> HIDE DEF e
          <6> QED BY <6>1, <6>2
        <5>2. CASE m < e
          <6>1. m + 1 \in k..e /\ m # Len(visited) BY <4>2, <4>3, <5>1, <5>2
          <6> QED BY <4>2, <4>3, <6>1 DEF IsRun
        <5>3. CASE e < m
          <6>1. e + 1 \in k..m /\ e # Len(visited) BY <4>2, <4>3, <5>1, <5>3
          <6> QED BY <4>2, <4>3, <6>1 DEF IsRun
        <5> QED BY <5>1, <5>2, <5>3
      <4> QED BY <4>1, <4>2, <4>4 DEF Told
    <3> QED BY <2>3, <3>1, <3>2 DEF RunsShown
  <2> QED BY <2>2, <2>3
<1> QED BY <1>1, SweepCorrect, PTL

(* The whole range is asked: over ints every point exactly once, over       *)
(* doubles without a gap wider than a step and an error; a call that stops  *)
(* has found one solution, its last point.                                  *)
THEOREM RangeIsAsked == Spec => []AsksTheRange
<1>1. SweepInv => AsksTheRange
  <2> SUFFICES ASSUME SweepInv, Ended
               PROVE  IF stopped THEN HitAt = {Len(visited)}
                      ELSE IF Prog \notin Doubles
                      THEN Asked = Grid /\ Len(visited) = Cardinality(Grid)
                      ELSE IF Prog \in Nested /\ job.toY <= job.fromY THEN visited = <<>>
                      ELSE /\ Dense(Xs, job.from, job.to, job.step)
                           /\ Prog \in Nested =>
                                \A n \in Xs : Dense(Column(n), job.fromY, job.toY - 1, job.stepY)
    BY DEF AsksTheRange
  <2>1. /\ Types /\ Control /\ x \in Int /\ pc # "y" /\ ~Going
        /\ stopped => HitAt = {Len(visited)}
        /\ ~stopped => Ran /\ IntsAsked /\ DoublesAsked
    BY DEF SweepInv, Answers, Types, Ended, Going, Ran
  <2>2. ASSUME ~stopped, Prog \notin Doubles
        PROVE  Asked = Grid /\ Len(visited) = Cardinality(Grid)
    <3>1. /\ x > Hi /\ (x = job.from \/ x - 1 <= Hi) /\ Asked = Before
          /\ Cardinality(Asked) = Len(visited)
      BY <2>1, <2>2 DEF IntsAsked
    <3>2. Hi \in Int BY <2>1, JobFacts DEF Hi
    <3>3. job.from..(x - 1) = job.from..Hi BY <2>1, <3>1, <3>2, JobFacts
    <3>4. Before = (job.from..Hi) \X Row BY <2>1, <3>3 DEF Before
    <3>5. Grid = (job.from..Hi) \X Row
      <4>1. Prog \in Nested <=> Prog \in Strict BY <2>2 DEF Nested, Strict, Doubles
      <4> QED BY <4>1 DEF Grid, Hi, Row
    <3> QED BY <3>1, <3>4, <3>5
  <2>3. ASSUME ~stopped, Prog \in Doubles, Prog \in Nested, job.toY <= job.fromY
        PROVE  visited = <<>>
    BY <2>1, <2>3 DEF DoublesAsked
  <2>4. ASSUME ~stopped, Prog \in Doubles, ~(Prog \in Nested /\ job.toY <= job.fromY)
        PROVE  /\ Dense(Xs, job.from, job.to, job.step)
               /\ Prog \in Nested =>
                    \A n \in Xs : Dense(Column(n), job.fromY, job.toY - 1, job.stepY)
    <3>1. /\ Upto(Xs, job.from, x, job.step) /\ x > job.to
          /\ Prog \in Nested =>
               \A n \in Xs : Upto(Column(n), job.fromY, job.toY, job.stepY)
      BY <2>1, <2>4 DEF DoublesAsked
    <3>2. job.from..job.to \subseteq job.from..(x - 1) BY <2>1, <3>1, JobFacts
    <3> QED BY <3>1, <3>2 DEF Upto, Dense
  <2> QED BY <2>1, <2>2, <2>3, <2>4
<1> QED BY <1>1, SweepCorrect, PTL

-----------------------------------------------------------------------------
(* generate: an arrangement has been dealt with if it comes before the loop *)
(* variables l.  Above the innermost call they have moved on already.       *)
Agrees(p, l, d) == \A m \in 1..d : p[m] = l[m] - 1
Passed(p, l) ==
  \/ l = <<>>
  \/ \E k \in 1..Len(l) : k <= N /\ Agrees(p, l, k - 1) /\ p[k] < IF k = Len(l) THEN l[k] ELSE l[k] - 1

Chosen == [k \in Positions |-> loops[k] - 1]
Given == [k \in Positions |-> k]

Checked ==
  {<<Spelled(p), DividedAt(p, i)>> : p \in {q \in Arrangements : Passed(q, loops)}, i \in 2..N}
Checking == {<<Spelled(Chosen), DividedAt(Chosen, i)>> : i \in 2..place}

Letters == STRING \union {Digits[i] : i \in 1..10}
Size == N \in 0..9 /\ sym \in Seq(Letters) /\ Pattern \in [Positions -> Operators \union {Blank}]

Calls ==
  /\ loops \in Seq(Nat) /\ Len(loops) <= N + 1
  /\ pos = IF loops = <<>> THEN 0 ELSE Len(loops) - 1
  /\ loops # <<>> => loops[pos + 1] \in 1..(N + 1) /\ (pos = N => loops[pos + 1] = 1)
  /\ place \in 0..(N + 1) /\ (place > N => N = 0) /\ (place > 0 => pos = N /\ loops # <<>>)

Buffer ==
  /\ \A k \in 1..pos : loops[k] \in 2..(N + 1) /\ sym[k] = Digits[loops[k]]
  /\ \A a, b \in 1..pos : loops[a] = loops[b] => a = b

(* The operators of the pattern are there until the digits have been        *)
(* checked in the order they are given.                                     *)
FirstOps ==
  /\ loops # <<>> /\ (\A k \in 1..pos : loops[k] = k + 1) /\ (pos < N => loops[pos + 1] <= pos + 1)
  /\ op = [k \in Positions |-> IF k > place THEN Pattern[k]
                               ELSE IF k < place THEN Blank
                               ELSE IF k > 1 THEN "/" ELSE Pattern[k]]
LaterOps ==
  /\ Passed(Given, loops)
  /\ op = [k \in Positions |-> IF k = place /\ k > 1 THEN "/" ELSE Blank]

GenInv ==
  puzzle.prog = "95" =>
    /\ todo = <<>> /\ Size /\ Calls /\ Buffer
    /\ FirstOps \/ LaterOps
    /\ seen = SetToBag(Checked \union Checking)

-----------------------------------------------------------------------------
LEMMA SameAgrees ==
  ASSUME NEW p, NEW k \in Nat, NEW a, NEW b, \A m \in 1..k : a[m] = b[m]
  PROVE  Agrees(p, a, k) <=> Agrees(p, b, k)
BY DEF Agrees

LEMMA NextAgrees ==
  ASSUME NEW p, NEW k \in Nat, k > 0, NEW a
  PROVE  Agrees(p, a, k) <=> Agrees(p, a, k - 1) /\ p[k] = a[k] - 1
<1>1. \A m : m \in 1..k <=> m \in 1..(k - 1) \/ m = k OBVIOUS
<1> QED BY <1>1 DEF Agrees

LEMMA PassedIs ==
  ASSUME N \in Nat, NEW l \in Seq(Nat), l # <<>>, NEW p \in [Positions -> Positions]
  PROVE  /\ \A k \in 1..N : p[k] \in 1..N
         /\ Passed(p, l) <=> \E k \in 1..Len(l) :
              k <= N /\ Agrees(p, l, k - 1) /\ (p[k] < l[k] - 1 \/ (k = Len(l) /\ p[k] < l[k]))
<1>1. \A k \in 1..Len(l) : l[k] \in Nat OBVIOUS
<1>2. \A k \in 1..N : p[k] \in 1..N BY DEF Positions
<1>3. \A k \in 1..Len(l) : k <= N =>
        ((p[k] < IF k = Len(l) THEN l[k] ELSE l[k] - 1) <=> p[k] < l[k] - 1 \/ (k = Len(l) /\ p[k] < l[k]))
  BY <1>1, <1>2
<1> QED BY <1>2, <1>3 DEF Passed

LEMMA FrontIs ==
  ASSUME NEW l \in Seq(Nat), l # <<>>
  PROVE  /\ Front(l) \in Seq(Nat) /\ Len(Front(l)) = Len(l) - 1
         /\ \A k \in 1..(Len(l) - 1) : Front(l)[k] = l[k]
         /\ Front(l) = <<>> <=> Len(l) = 1
<1> DEFINE f == SubSeq(l, 1, Len(l) - 1)
<1>1. \A k \in 1..(Len(l) - 1) : l[k] \in Nat OBVIOUS
<1>2. Len(l) - 1 \in Nat OBVIOUS
<1>3. f \in Seq(Nat) BY <1>1, <1>2, SubSeqProperties
<1>4. Len(f) = Len(l) - 1
  <2>1. Len(f) = IF 1 <= Len(l) - 1 THEN (Len(l) - 1) - 1 + 1 ELSE 0 BY <1>1, <1>2, SubSeqProperties
  <2>2. PICK n \in Nat : n = Len(l) - 1 BY <1>2
  <2> HIDE DEF f
  <2>3. Len(f) = IF 1 <= n THEN n - 1 + 1 ELSE 0 BY <2>1, <2>2
  <2>4. Len(f) = n BY <2>3
  <2> QED BY <2>2, <2>4
<1>5. \A k \in 1..(Len(l) - 1) : f[k] = l[k] BY <1>1, <1>2, SubSeqProperties
<1> HIDE DEF f
<1>6. f = <<>> <=> Len(f) = 0 BY <1>3, EmptySeq
<1>7. f = <<>> <=> Len(l) = 1 BY <1>4, <1>6
<1>8. Front(l) = f BY DEF Front, f
<1> QED BY <1>3, <1>4, <1>5, <1>7, <1>8

LEMMA NextIs ==
  ASSUME NEW l \in Seq(Nat), l # <<>>, NEW m, m = [l EXCEPT ![Len(l)] = @ + 1]
  PROVE  /\ m \in Seq(Nat) /\ m # <<>> /\ Len(m) = Len(l) /\ m[Len(l)] = l[Len(l)] + 1
         /\ \A k \in 1..(Len(l) - 1) : m[k] = l[k]
<1>1. Len(l) \in Nat /\ Len(l) > 0 /\ l[Len(l)] \in Nat OBVIOUS
<1>2. m \in Seq(Nat) BY <1>1
<1>3. Len(m) = Len(l) BY <1>1
<1>4. m[Len(l)] = l[Len(l)] + 1 BY <1>1
<1>5. \A k \in 1..(Len(l) - 1) : m[k] = l[k] BY <1>1
<1>6. m = <<>> <=> Len(m) = 0 BY <1>2, EmptySeq
<1>7. m # <<>> BY <1>1, <1>3, <1>6
<1> QED BY <1>2, <1>3, <1>4, <1>5, <1>7, Zenon

LEMMA AppendIs ==
  ASSUME NEW m \in Seq(Nat), NEW a, a = Append(m, 1)
  PROVE  /\ a \in Seq(Nat) /\ a # <<>> /\ Len(a) = Len(m) + 1 /\ a[Len(m) + 1] = 1
         /\ \A k \in 1..Len(m) : a[k] = m[k]
BY AppendProperties

(* The arrangement chosen comes back at the end of the calls it was made in. *)
LEMMA PassedFront ==
  ASSUME N \in Nat, NEW l \in Seq(Nat), l # <<>>, Len(l) <= N + 1, NEW p \in [Positions -> Positions]
  PROVE  Passed(p, Front(l)) <=> Passed(p, l) \/ Agrees(p, l, Len(l) - 1)
<1> DEFINE f == Front(l)
<1>1. /\ f \in Seq(Nat) /\ Len(f) = Len(l) - 1 /\ (\A k \in 1..(Len(l) - 1) : f[k] = l[k])
      /\ f = <<>> <=> Len(l) = 1
  BY FrontIs
<1> HIDE DEF f
<1>2. PICK d \in Nat : d = Len(l) /\ d > 0 OBVIOUS
<1>3. \A k \in 1..d : l[k] \in Nat BY <1>2
<1>4. \A k \in 1..N : p[k] \in 1..N BY PassedIs
<1>5. \A k \in 0..(d - 1) : Agrees(p, f, k) <=> Agrees(p, l, k)
  <2> TAKE k \in 0..(d - 1)
  <2>1. \A m \in 1..k : f[m] = l[m] BY <1>1, <1>2
  <2> QED BY <1>2, <2>1, SameAgrees
<1>6. ASSUME d = 1 PROVE Passed(p, f) /\ Agrees(p, l, d - 1)
  <2>1. Agrees(p, l, 0) BY DEF Agrees
  <2> QED BY <1>1, <1>2, <1>6, <2>1 DEF Passed
<1>7. ASSUME d > 1 PROVE Passed(p, f) <=> Passed(p, l) \/ Agrees(p, l, d - 1)
  <2> f # <<>> BY <1>1, <1>2, <1>7
  <2>1. ASSUME Passed(p, f) PROVE Passed(p, l) \/ Agrees(p, l, d - 1)
    <3>1. PICK k \in 1..(d - 1) : /\ k <= N /\ Agrees(p, f, k - 1)
                                  /\ p[k] < f[k] - 1 \/ (k = d - 1 /\ p[k] < f[k])
      BY <1>1, <1>2, <2>1, PassedIs
    <3>2. Agrees(p, l, k - 1) BY <1>2, <1>5, <3>1
    <3>3. p[k] \in Nat /\ l[k] \in Nat /\ f[k] = l[k]
      <4>1. k \in 1..N /\ k \in 1..d /\ k \in 1..(Len(l) - 1) BY <1>2, <3>1
      <4>2. p[k] \in 1..N BY <1>4, <4>1
      <4> QED BY <1>1, <1>3, <4>1, <4>2
    <3>4. CASE p[k] < l[k] - 1
      <4>1. k \in 1..Len(l) /\ k <= N BY <1>2, <3>1
      <4> QED BY <3>2, <3>4, <4>1, PassedIs
    <3>5. CASE p[k] = l[k] - 1 /\ k = d - 1 BY <1>2, <3>2, <3>5, NextAgrees
    <3> QED BY <1>2, <3>1, <3>3, <3>4, <3>5
  <2>2. ASSUME Passed(p, l), ~ Agrees(p, l, d - 1) PROVE Passed(p, f)
    <3>1. PICK k \in 1..d : /\ k <= N /\ Agrees(p, l, k - 1)
                            /\ p[k] < l[k] - 1 \/ (k = d /\ p[k] < l[k])
      BY <1>2, <2>2, PassedIs
    <3>2. k # d BY <2>2, <3>1
    <3>3. k \in 1..(d - 1) /\ Agrees(p, f, k - 1) BY <1>2, <1>5, <3>1, <3>2
    <3>4. p[k] < f[k] - 1 BY <1>1, <1>2, <3>1, <3>2, <3>3
    <3> QED BY <1>1, <1>2, <3>1, <3>3, <3>4, PassedIs
  <2>3. ASSUME Agrees(p, l, d - 1) PROVE Passed(p, f)
    <3>1. Agrees(p, l, d - 2) /\ p[d - 1] = l[d - 1] - 1
      <4>1. d - 1 \in Nat /\ d - 1 > 0 /\ d - 1 - 1 = d - 2 BY <1>2, <1>7
      <4> QED BY <2>3, <4>1, NextAgrees
    <3>2. Agrees(p, f, d - 2) BY <1>2, <1>5, <1>7, <3>1
    <3>3. p[d - 1] < f[d - 1]
      <4>1. d - 1 \in 1..d /\ d - 1 \in 1..(Len(l) - 1) BY <1>2, <1>7
      <4>2. l[d - 1] \in Nat /\ f[d - 1] = l[d - 1] BY <1>1, <1>3, <4>1
      <4> QED BY <3>1, <4>2
    <3>4. d - 1 \in 1..(d - 1) /\ d - 1 <= N /\ d - 1 - 1 = d - 2 BY <1>2, <1>7
    <3> QED BY <1>1, <1>2, <3>2, <3>3, <3>4, PassedIs
  <2> QED BY <1>1, <1>2, <2>1, <2>2, <2>3
<1> QED BY <1>2, <1>6, <1>7 DEF f

(* A digit that is put down, or one that is already there, passes nothing.  *)
LEMMA PassedAppend ==
  ASSUME N \in Nat, NEW l \in Seq(Nat), l # <<>>, Len(l) <= N, NEW p \in [Positions -> Positions]
  PROVE  Passed(p, Append([l EXCEPT ![Len(l)] = @ + 1], 1)) <=> Passed(p, l)
<1>1. PICK d \in Nat : d = Len(l) /\ d > 0 OBVIOUS
<1> DEFINE m == [l EXCEPT ![Len(l)] = @ + 1]
           a == Append(m, 1)
<1>2. /\ m \in Seq(Nat) /\ Len(m) = d /\ m[d] = l[d] + 1
      /\ \A k \in 1..(d - 1) : m[k] = l[k]
  BY <1>1, NextIs
<1> HIDE DEF m
<1>3. /\ a \in Seq(Nat) /\ Len(a) = d + 1 /\ a # <<>> /\ a[d + 1] = 1 /\ a[d] = l[d] + 1
      /\ \A k \in 1..(d - 1) : a[k] = l[k]
  <2>1. /\ a \in Seq(Nat) /\ a # <<>> /\ Len(a) = d + 1 /\ a[d + 1] = 1
        /\ \A k \in 1..d : a[k] = m[k]
    BY <1>2, AppendIs
  <2> HIDE DEF a
  <2> QED BY <1>1, <1>2, <2>1
<1> HIDE DEF a
<1>4. \A k \in 1..N : p[k] \in 1..N BY PassedIs
<1>5. \A k \in 1..d : l[k] \in Nat BY <1>1
<1>6. \A k \in 0..(d - 1) : Agrees(p, a, k) <=> Agrees(p, l, k)
  <2> TAKE k \in 0..(d - 1)
  <2>1. \A j \in 1..k : a[j] = l[j] BY <1>1, <1>3
  <2> QED BY <1>1, <2>1, SameAgrees
<1>7. ASSUME Passed(p, a) PROVE Passed(p, l)
  <2>1. PICK k \in 1..(d + 1) : /\ k <= N /\ Agrees(p, a, k - 1)
                                /\ p[k] < a[k] - 1 \/ (k = d + 1 /\ p[k] < a[k])
    BY <1>3, <1>7, PassedIs
  <2>2. p[k] \in 1..N BY <1>4, <2>1
  <2>3. k # d + 1 BY <1>3, <2>1, <2>2
  <2>4. k \in 1..d /\ Agrees(p, l, k - 1) BY <1>1, <1>6, <2>1, <2>3
  <2>5. p[k] < l[k] - 1 \/ (k = d /\ p[k] < l[k])
    <3>1. l[k] \in Nat /\ p[k] < a[k] - 1 BY <1>5, <2>1, <2>3, <2>4
    <3>2. k = d \/ a[k] = l[k]
      <4>1. k = d \/ k \in 1..(d - 1) BY <2>4
      <4> QED BY <1>3, <4>1
    <3> QED BY <1>3, <2>2, <3>1, <3>2
  <2> QED BY <1>1, <2>1, <2>4, <2>5, PassedIs
<1>8. ASSUME Passed(p, l) PROVE Passed(p, a)
  <2>1. PICK k \in 1..d : k <= N /\ Agrees(p, l, k - 1) /\ (p[k] < l[k] - 1 \/ (k = d /\ p[k] < l[k]))
    BY <1>1, <1>8, PassedIs
  <2>2. Agrees(p, a, k - 1) BY <1>1, <1>6, <2>1
  <2>3. p[k] < a[k] - 1
    <3>1. l[k] \in Nat /\ p[k] \in 1..N BY <1>4, <1>5, <2>1
    <3>2. CASE k = d
      <4>1. a[k] = l[k] + 1 /\ p[k] < l[k] BY <1>3, <2>1, <3>1, <3>2
      <4> QED BY <3>1, <4>1
    <3>3. CASE k # d
      <4>1. a[k] = l[k] /\ p[k] < l[k] - 1 BY <1>1, <1>3, <2>1, <3>3
      <4> QED BY <4>1
    <3> QED BY <3>2, <3>3
  <2>4. k \in 1..(d + 1) BY <1>1
  <2> QED BY <1>3, <2>1, <2>2, <2>3, <2>4, PassedIs
<1> QED BY <1>7, <1>8 DEF a, m

LEMMA PassedNext ==
  ASSUME N \in Nat, NEW l \in Seq(Nat), l # <<>>, Len(l) <= N, NEW p \in Arrangements,
         NEW j \in 1..(Len(l) - 1), l[j] - 1 = l[Len(l)]
  PROVE  Passed(p, [l EXCEPT ![Len(l)] = @ + 1]) <=> Passed(p, l)
<1>1. PICK d \in Nat : d = Len(l) /\ d > 0 OBVIOUS
<1> DEFINE m == [l EXCEPT ![Len(l)] = @ + 1]
<1>2. /\ m \in Seq(Nat) /\ Len(m) = d /\ m # <<>> /\ m[d] = l[d] + 1
      /\ \A k \in 1..(d - 1) : m[k] = l[k]
  BY <1>1, NextIs
<1> HIDE DEF m
<1>3. p \in [Positions -> Positions] BY DEF Arrangements
<1>4. \A k \in 1..N : p[k] \in 1..N BY <1>3, PassedIs
<1>5. \A k \in 1..d : l[k] \in Nat BY <1>1
<1>6. \A k \in 0..(d - 1) : Agrees(p, m, k) <=> Agrees(p, l, k)
  <2> TAKE k \in 0..(d - 1)
  <2>1. \A i \in 1..k : m[i] = l[i] BY <1>1, <1>2
  <2> QED BY <1>1, <2>1, SameAgrees
<1>7. ASSUME Agrees(p, l, d - 1) PROVE p[d] # l[d]
  <2>1. p[j] = l[d] BY <1>1, <1>7 DEF Agrees
  <2>2. j \in Positions /\ d \in Positions /\ j # d BY <1>1 DEF Positions
  <2> QED BY <2>1, <2>2 DEF Arrangements
<1>8. ASSUME Passed(p, m) PROVE Passed(p, l)
  <2>1. PICK k \in 1..d : k <= N /\ Agrees(p, m, k - 1) /\ (p[k] < m[k] - 1 \/ (k = d /\ p[k] < m[k]))
    BY <1>2, <1>3, <1>8, PassedIs
  <2>2. p[k] \in 1..N BY <1>4, <2>1
  <2>3. Agrees(p, l, k - 1) BY <1>1, <1>6, <2>1
  <2>4. p[k] < l[k] - 1 \/ (k = d /\ p[k] < l[k])
    <3>1. l[k] \in Nat /\ (k = d => p[k] # l[k]) BY <1>5, <1>7, <2>1, <2>3
    <3>2. k = d \/ m[k] = l[k]
      <4>1. k = d \/ k \in 1..(d - 1) BY <2>1
      <4> QED BY <1>2, <4>1
    <3>3. CASE k # d BY <2>1, <3>2, <3>3
    <3>4. CASE k = d
      <4>1. p[d] \in 1..N /\ l[d] \in Nat /\ p[d] # l[d] BY <2>2, <3>1, <3>4
      <4>2. p[d] < m[d] - 1 \/ p[d] < m[d] BY <2>1, <3>4
      <4>3. p[d] < l[d] + 1 BY <1>2, <4>1, <4>2
      <4> QED BY <3>4, <4>1, <4>3
    <3> QED BY <3>3, <3>4
  <2> QED BY <1>1, <1>3, <2>1, <2>3, <2>4, PassedIs
<1>9. ASSUME Passed(p, l) PROVE Passed(p, m)
  <2>1. PICK k \in 1..d : k <= N /\ Agrees(p, l, k - 1) /\ (p[k] < l[k] - 1 \/ (k = d /\ p[k] < l[k]))
    BY <1>1, <1>3, <1>9, PassedIs
  <2>2. p[k] \in 1..N BY <1>4, <2>1
  <2>3. Agrees(p, m, k - 1) BY <1>1, <1>6, <2>1
  <2>4. p[k] < m[k] - 1 \/ (k = d /\ p[k] < m[k])
    <3>1. l[k] \in Nat BY <1>5, <2>1
    <3>2. k = d \/ m[k] = l[k]
      <4>1. k = d \/ k \in 1..(d - 1) BY <2>1
      <4> QED BY <1>2, <4>1
    <3>3. CASE k # d BY <2>1, <3>2, <3>3
    <3>4. CASE k = d
      <4>1. p[d] < l[d] /\ p[d] \in 1..N /\ l[d] \in Nat /\ m[d] = l[d] + 1
        BY <1>2, <2>1, <2>2, <3>1, <3>4
      <4> QED BY <3>4, <4>1
    <3> QED BY <3>3, <3>4
  <2> QED BY <1>2, <1>3, <2>1, <2>3, <2>4, PassedIs
<1> QED BY <1>8, <1>9 DEF m

-----------------------------------------------------------------------------
(* Every number up to the cardinality is the place of one.                  *)
LEMMA PlaceTaken ==
  ASSUME NEW n \in Nat, NEW S \in SUBSET (1..n), NEW k \in 1..Cardinality(S)
  PROVE  \E i \in S : Place(i, S) = k
<1> DEFINE c == Cardinality(S)
           f == [i \in S |-> Place(i, S)]
<1>1. /\ IsFiniteSet(S) /\ c \in Nat /\ (\A i \in S : Place(i, S) \in 1..c)
      /\ \A i, j \in S : i < j => Place(i, S) < Place(j, S)
  BY Places
<1>2. f \in Injection(S, 1..c)
  <2>1. f \in [S -> 1..c] BY <1>1
  <2>2. ASSUME NEW i \in S, NEW j \in S, i # j PROVE f[i] # f[j]
    <3>1. i < j \/ j < i BY <2>2
    <3>2. Place(i, S) \in Int /\ Place(j, S) \in Int BY <1>1
    <3> QED BY <1>1, <3>1, <3>2
  <2> HIDE DEF f
  <2> QED BY <2>1, <2>2 DEF Injection, IsInjective
<1>3. IsFiniteSet(1..c) /\ Cardinality(1..c) = c
  <2> HIDE DEF c
  <2> QED BY <1>1, FS_Interval
<1>4. f \in Surjection(S, 1..c)
  <2> HIDE DEF f
  <2> QED BY <1>2, <1>3, FS_Injection
<1>5. PICK i \in S : f[i] = k
  <2> HIDE DEF f
  <2> QED BY <1>4 DEF Surjection
<1> QED BY <1>5

LEMMA StrInit ==
  ASSUME NEW str \in Seq(STRING), NEW s, s = strinit(str)
  PROVE  /\ Cardinality(Symbols(str)) \in Nat
         /\ s.sym \in Seq(STRING) /\ Len(s.sym) = Cardinality(Symbols(str))
         /\ s.op \in [1..Len(s.sym) -> Operators \union {Blank}]
         /\ (\A i \in DOMAIN str : str[i] \notin Factors) => s.op \in [1..Len(s.sym) -> Signs \union {Blank}]
         /\ (\A i \in Symbols(str) : str[i] \in DOMAIN DigitValue) =>
              s.sym \in [1..Len(s.sym) -> DOMAIN DigitValue]
<1> DEFINE n == Len(str)
           sz == Cardinality(Symbols(str))
           at(k) == CHOOSE i \in Symbols(str) : Cardinality({j \in Symbols(str) : j <= i}) = k
           o(k) == IF at(k) > 1 /\ str[at(k) - 1] \in Operators THEN str[at(k) - 1] ELSE Blank
<1>1. n \in Nat /\ DOMAIN str = 1..n OBVIOUS
<1>2. Symbols(str) \in SUBSET (1..n) BY <1>1 DEF Symbols
<1>3. sz \in Nat BY <1>1, <1>2, Places
<1>4. ASSUME NEW k \in 1..sz PROVE at(k) \in 1..n /\ at(k) \in Symbols(str)
  <2>1. \E i \in Symbols(str) : Cardinality({j \in Symbols(str) : j <= i}) = k
    BY <1>1, <1>2, PlaceTaken DEF Place
  <2>2. at(k) \in Symbols(str) BY <2>1
  <2> QED BY <1>2, <2>2
<1> HIDE DEF at, n, sz
<1>5. s.sym = [k \in 1..sz |-> str[at(k)]] /\ s.op = [k \in 1..sz |-> o(k)]
  BY DEF strinit, sz, at
<1>6. \A k \in 1..sz : str[at(k)] \in STRING BY <1>1, <1>4
<1>7. s.sym \in [1..sz -> STRING] BY <1>5, <1>6
<1>8. s.sym \in Seq(STRING) /\ Len(s.sym) = sz
  <2>1. s.sym \in Seq(STRING) BY <1>3, <1>7, SeqDef
  <2>2. DOMAIN s.sym = 1..sz BY <1>7
  <2> QED BY <1>3, <2>1, <2>2, LenProperties
<1>9. \A k \in 1..sz : o(k) \in Operators \union {Blank} OBVIOUS
<1>10. ASSUME \A i \in DOMAIN str : str[i] \notin Factors, NEW k \in 1..sz
       PROVE  o(k) \in Signs \union {Blank}
  <2>1. CASE at(k) > 1 /\ str[at(k) - 1] \in Operators
    <3>1. at(k) - 1 \in DOMAIN str BY <1>1, <1>4, <2>1
    <3> QED BY <1>10, <2>1, <3>1 DEF Operators
  <2> QED BY <2>1
<1>11. ASSUME \A i \in Symbols(str) : str[i] \in DOMAIN DigitValue, NEW k \in 1..sz
       PROVE  str[at(k)] \in DOMAIN DigitValue
  BY <1>4, <1>11
<1> HIDE DEF o
<1> QED BY <1>3, <1>5, <1>8, <1>9, <1>10, <1>11 DEF sz

-----------------------------------------------------------------------------
LEMMA DigitsAre == \A i \in 1..10 : Digits[i] \in Letters
BY DEF Letters

LEMMA DigitsDiffer == \A i, j \in 1..10 : Digits[i] = Digits[j] => i = j
<1> SUFFICES ASSUME NEW i \in 1..10, NEW j \in 1..10, Digits[i] = Digits[j] PROVE i = j OBVIOUS
<1>1. /\ i = 1 \/ i = 2 \/ i = 3 \/ i = 4 \/ i = 5 \/ i = 6 \/ i = 7 \/ i = 8 \/ i = 9 \/ i = 10
      /\ j = 1 \/ j = 2 \/ j = 3 \/ j = 4 \/ j = 5 \/ j = 6 \/ j = 7 \/ j = 8 \/ j = 9 \/ j = 10
  OBVIOUS
<1> QED BY <1>1 DEF Digits

LEMMA SpelledOnce ==
  ASSUME N \in 0..9, NEW p \in [Positions -> Positions], NEW q \in [Positions -> Positions],
         Spelled(p) = Spelled(q)
  PROVE  p = q
<1>1. ASSUME NEW k \in Positions PROVE p[k] = q[k]
  <2>1. Digits[p[k] + 1] = Digits[q[k] + 1] BY DEF Spelled
  <2>2. p[k] \in Positions /\ q[k] \in Positions OBVIOUS
  <2>3. p[k] \in 1..9 /\ q[k] \in 1..9
    <3>1. N \in Nat /\ N <= 9 /\ p[k] \in 1..N /\ q[k] \in 1..N BY <2>2 DEF Positions
    <3> QED BY <3>1
  <2>4. p[k] + 1 = q[k] + 1 BY <2>1, <2>3, DigitsDiffer
  <2> QED BY <2>3, <2>4
<1> QED BY <1>1

LEMMA DividedOnce ==
  ASSUME N \in Nat, NEW p, NEW i \in 1..N, NEW j \in 1..N, i < j
  PROVE  DividedAt(p, i) # DividedAt(p, j)
<1>1. i \in Positions BY DEF Positions
<1>2. DividedAt(p, i)[i] = "/" BY <1>1 DEF DividedAt
<1>3. DividedAt(p, j)[i] = Blank BY <1>1 DEF DividedAt
<1> QED BY <1>2, <1>3 DEF Blank

LEMMA BagAdds ==
  ASSUME NEW S, NEW e, e \notin S
  PROVE  SetToBag(S) (+) SetToBag({e}) = SetToBag(S \union {e})
BY DEF SetToBag, (+)

LEMMA SameBuffer ==
  ASSUME puzzle' = puzzle, N' = N
  PROVE  /\ Positions' = Positions /\ Pattern' = Pattern /\ Arrangements' = Arrangements
         /\ Given' = Given /\ (\A p : Passed(p, loops)' <=> Passed(p, loops'))
         /\ Passed(Given, loops)' <=> Passed(Given, loops')
         /\ Checked' = {<<Spelled(p), DividedAt(p, i)>> :
                          p \in {q \in Arrangements : Passed(q, loops')}, i \in 2..N}
<1>1. Positions' = Positions BY DEF Positions
<1>2. Pattern' = Pattern BY DEF Pattern
<1>3. Arrangements' = Arrangements BY <1>1 DEF Arrangements
<1>4. Given' = Given BY <1>1 DEF Given
<1>5. \A p : Passed(p, loops)' <=> Passed(p, loops') BY DEF Passed, Agrees
<1>6. Passed(Given, loops)' <=> Passed(Given, loops') BY <1>4 DEF Passed, Agrees
<1>7. \A p : Spelled(p)' = Spelled(p) BY <1>1 DEF Spelled
<1>8. \A p, i : DividedAt(p, i)' = DividedAt(p, i) BY <1>1, <1>2 DEF DividedAt
<1>9. {q \in Arrangements : Passed(q, loops)}' = {q \in Arrangements : Passed(q, loops')}
  BY <1>3, <1>5
<1>10. Checked' = {<<Spelled(p), DividedAt(p, i)>> :
                    p \in {q \in Arrangements : Passed(q, loops')}, i \in 2..N}
  BY <1>7, <1>8, <1>9 DEF Checked
<1> QED BY <1>1, <1>2, <1>3, <1>4, <1>5, <1>6, <1>10

LEMMA GivenIs == N \in Nat => Given \in [Positions -> Positions] /\ Given \in Arrangements
BY DEF Given, Arrangements, Positions

LEMMA ChosenIs ==
  ASSUME Size, Calls, Buffer, pos = N, loops # <<>>
  PROVE  /\ Chosen \in Arrangements /\ Chosen \in [Positions -> Positions] /\ sym = Spelled(Chosen)
         /\ ~ Passed(Chosen, loops)
         /\ \A p \in [Positions -> Positions] : Agrees(p, loops, N) <=> p = Chosen
<1>1. N \in Nat /\ Len(loops) = N + 1 /\ loops \in Seq(Nat)
      /\ \A k \in 1..N : loops[k] \in 2..(N + 1) /\ sym[k] = Digits[loops[k]]
  BY DEF Size, Calls, Buffer
<1>2. \A k \in Positions : loops[k] - 1 \in Positions BY <1>1 DEF Positions
<1>3. Chosen \in [Positions -> Positions] /\ \A k \in Positions : Chosen[k] = loops[k] - 1
  BY <1>2 DEF Chosen
<1>4. Chosen \in Arrangements
  <2>1. ASSUME NEW a \in Positions, NEW b \in Positions, Chosen[a] = Chosen[b] PROVE a = b
    <3>1. a \in 1..pos /\ b \in 1..pos /\ loops[a] \in 2..(N + 1) /\ loops[b] \in 2..(N + 1)
      BY <1>1 DEF Positions
    <3>2. loops[a] = loops[b] BY <1>3, <2>1, <3>1
    <3> QED BY <3>1, <3>2 DEF Buffer
  <2> QED BY <1>3, <2>1 DEF Arrangements
<1>5. sym = Spelled(Chosen)
  <2>1. sym \in [Positions -> Letters] BY LenProperties DEF Size, Positions, N
  <2>2. \A k \in Positions : sym[k] = Digits[Chosen[k] + 1]
    <3> SUFFICES ASSUME NEW k \in Positions PROVE sym[k] = Digits[Chosen[k] + 1] OBVIOUS
    <3>1. loops[k] \in 2..(N + 1) /\ sym[k] = Digits[loops[k]] BY <1>1 DEF Positions
    <3>2. Chosen[k] + 1 = loops[k] BY <1>3, <3>1
    <3> QED BY <3>1, <3>2
  <2> QED BY <2>1, <2>2 DEF Spelled
<1>6. ~ Passed(Chosen, loops)
  <2>1. ASSUME NEW k \in 1..(N + 1), k <= N,
               Chosen[k] < loops[k] - 1 \/ (k = N + 1 /\ Chosen[k] < loops[k])
        PROVE  FALSE
    <3>1. k \in 1..N /\ k # N + 1 BY <1>1, <2>1
    <3>2. k \in Positions /\ loops[k] \in 2..(N + 1) BY <1>1, <3>1 DEF Positions
    <3>3. Chosen[k] = loops[k] - 1 BY <1>3, <3>2
    <3> QED BY <1>1, <2>1, <3>1, <3>2, <3>3
  <2>2. Passed(Chosen, loops) <=> \E k \in 1..Len(loops) : k <= N /\ Agrees(Chosen, loops, k - 1) /\
          (Chosen[k] < loops[k] - 1 \/ (k = Len(loops) /\ Chosen[k] < loops[k]))
    BY <1>1, <1>3, PassedIs
  <2> QED BY <1>1, <2>1, <2>2
<1>7. ASSUME NEW p \in [Positions -> Positions] PROVE Agrees(p, loops, N) <=> p = Chosen
  <2>1. Agrees(p, loops, N) <=> \A k \in Positions : p[k] = Chosen[k] BY <1>3 DEF Agrees, Positions
  <2> QED BY <1>3, <2>1
<1> QED BY <1>3, <1>4, <1>5, <1>6, <1>7

LEMMA GenInit == OInit => GenInv
<1> SUFFICES ASSUME OInit, puzzle.prog = "95" PROVE GenInv BY DEF GenInv
<1>1. /\ puzzle \in Puzzles /\ sym = strinit(puzzle.str).sym /\ op = Pattern /\ pos = 0
      /\ loops = <<1>> /\ todo = <<>> /\ place = 0 /\ seen = SetToBag({})
  BY DEF OInit, Pattern, EmptyBag
<1>2. /\ puzzle.str \in Seq(STRING) /\ Cardinality(Symbols(puzzle.str)) < 10
  BY <1>1, OpSearchAssumption DEF Digits
<1>3. /\ Cardinality(Symbols(puzzle.str)) \in Nat /\ sym \in Seq(STRING)
      /\ Len(sym) = Cardinality(Symbols(puzzle.str))
      /\ Pattern \in [1..Len(sym) -> Operators \union {Blank}]
  BY <1>1, <1>2, StrInit DEF Pattern
<1>4. sym \in Seq(Letters)
  <2>1. Len(sym) \in Nat /\ sym \in [1..Len(sym) -> STRING] BY <1>3, LenProperties
  <2>2. STRING \subseteq Letters BY DEF Letters
  <2>3. sym \in [1..Len(sym) -> Letters] BY <2>1, <2>2
  <2> QED BY <2>1, <2>3, SeqDef
<1>5. Size BY <1>2, <1>3, <1>4 DEF Size, N, Positions
<1>6. N \in Nat BY <1>5 DEF Size
<1>7. loops \in Seq(Nat) /\ Len(loops) = 1 /\ loops[1] = 1 BY <1>1
<1>8. Calls BY <1>1, <1>6, <1>7 DEF Calls
<1>9. Buffer BY <1>1 DEF Buffer
<1>10. FirstOps
  <2>1. \A k \in Positions : k > place BY <1>1, <1>6 DEF Positions
  <2>2. op = [k \in Positions |-> Pattern[k]] BY <1>1, <1>5 DEF Size
  <2>3. op = [k \in Positions |-> IF k > place THEN Pattern[k]
                                  ELSE IF k < place THEN Blank
                                  ELSE IF k > 1 THEN "/" ELSE Pattern[k]]
    BY <2>1, <2>2
  <2> QED BY <1>1, <1>7, <2>3 DEF FirstOps
<1>11. Checking = {} BY <1>1 DEF Checking
<1>12. \A p \in Arrangements : ~ Passed(p, loops)
  <2> SUFFICES ASSUME NEW p \in Arrangements, Passed(p, loops) PROVE FALSE OBVIOUS
  <2>1. p \in [Positions -> Positions] BY DEF Arrangements
  <2>2. PICK k \in 1..1 : k <= N /\ (p[k] < loops[k] - 1 \/ p[k] < loops[k])
    BY <1>1, <1>6, <1>7, <2>1, PassedIs
  <2>3. k = 1 /\ p[1] \in 1..N BY <1>6, <2>1, <2>2 DEF Positions
  <2> QED BY <1>7, <2>2, <2>3
<1>13. Checked = {} BY <1>12 DEF Checked
<1> QED BY <1>1, <1>5, <1>8, <1>9, <1>10, <1>11, <1>13 DEF GenInv

LEMMA Looping ==
  ASSUME GenInv, puzzle.prog = "95", Generating, pos < N
  PROVE  /\ N \in 0..9 /\ N \in Nat /\ loops \in Seq(Nat) /\ loops # <<>> /\ Len(loops) <= N
         /\ pos \in Nat /\ Len(loops) = pos + 1 /\ J \in 1..(N + 1) /\ J = loops[pos + 1]
         /\ place = 0 /\ (\A k \in 1..pos : loops[k] \in 2..(N + 1) /\ sym[k] = Digits[loops[k]])
         /\ LoopNext = [loops EXCEPT ![Len(loops)] = @ + 1]
         /\ Checking = {}
<1>1. Size /\ Calls /\ Buffer /\ loops # <<>> /\ place = 0 BY DEF GenInv, Generating
<1>2. /\ N \in 0..9 /\ N \in Nat /\ loops \in Seq(Nat) /\ loops # <<>> /\ Len(loops) <= N + 1
      /\ pos = Len(loops) - 1 /\ loops[pos + 1] \in 1..(N + 1)
  BY <1>1 DEF Size, Calls
<1>3. Len(loops) \in Nat /\ Len(loops) > 0 BY <1>2
<1>4. pos \in Nat /\ Len(loops) = pos + 1 /\ Len(loops) <= N BY <1>2, <1>3
<1>5. J = loops[pos + 1] BY <1>4 DEF J
<1>6. Checking = {} BY <1>1 DEF Checking
<1> QED BY <1>1, <1>2, <1>4, <1>5, <1>6 DEF Buffer, LoopNext

LEMMA GenExtend == GenInv /\ puzzle.prog = "95" /\ Extend => GenInv'
<1> SUFFICES ASSUME GenInv, puzzle.prog = "95", Extend PROVE GenInv' OBVIOUS
<1>1. /\ Generating /\ pos < N /\ J <= N /\ NotIn(Char)
      /\ sym' = [sym EXCEPT ![pos + 1] = Char] /\ pos' = pos + 1
      /\ loops' = Append(LoopNext, 1)
      /\ UNCHANGED <<puzzle, op, place, todo, res, killed, seen>>
  BY DEF Extend
<1>2. /\ N \in 0..9 /\ N \in Nat /\ loops \in Seq(Nat) /\ loops # <<>> /\ Len(loops) <= N
      /\ pos \in Nat /\ Len(loops) = pos + 1 /\ J \in 1..(N + 1) /\ J = loops[pos + 1]
      /\ place = 0 /\ (\A k \in 1..pos : loops[k] \in 2..(N + 1) /\ sym[k] = Digits[loops[k]])
      /\ LoopNext = [loops EXCEPT ![Len(loops)] = @ + 1]
      /\ Checking = {}
  BY <1>1, Looping
<1>3. todo = <<>> /\ Size /\ Calls /\ Buffer /\ (FirstOps \/ LaterOps) /\ seen = SetToBag(Checked \union Checking)
  BY DEF GenInv
<1>4. /\ loops' \in Seq(Nat) /\ loops' # <<>> /\ Len(loops') = pos + 2 /\ loops'[pos + 2] = 1
      /\ loops'[pos + 1] = J + 1 /\ \A k \in 1..pos : loops'[k] = loops[k]
  <2>1. /\ LoopNext \in Seq(Nat) /\ Len(LoopNext) = pos + 1 /\ LoopNext[pos + 1] = J + 1
        /\ \A k \in 1..pos : LoopNext[k] = loops[k]
    BY <1>2, NextIs
  <2>2. /\ loops' \in Seq(Nat) /\ loops' # <<>> /\ Len(loops') = Len(LoopNext) + 1
        /\ loops'[Len(LoopNext) + 1] = 1 /\ \A k \in 1..Len(LoopNext) : loops'[k] = LoopNext[k]
    BY <1>1, <2>1, AppendIs
  <2>3. Len(LoopNext) + 1 = pos + 2 /\ 1..pos \subseteq 1..Len(LoopNext) /\ pos + 1 \in 1..Len(LoopNext)
    BY <1>2, <2>1
  <2> QED BY <2>1, <2>2, <2>3
<1>5. Char \in Letters /\ Char = Digits[J + 1] /\ J + 1 \in 2..(N + 1) /\ J + 1 \in 1..10
  <2>1. N <= 9 /\ N \in Nat /\ J \in 1..(N + 1) /\ J <= N BY <1>1, <1>2
  <2>2. J + 1 \in 2..(N + 1) /\ J + 1 \in 1..10 BY <2>1
  <2> QED BY <2>2, DigitsAre DEF Char
<1>6. /\ sym' \in Seq(Letters) /\ N' = N /\ sym'[pos + 1] = Char /\ \A k \in 1..pos : sym'[k] = sym[k]
  <2>1. sym \in Seq(Letters) /\ pos + 1 \in 1..Len(sym) BY <1>1, <1>2, <1>3 DEF Size, N
  <2>2. sym' \in Seq(Letters) /\ Len(sym') = Len(sym) BY <1>1, <1>5, <2>1, ExceptSeq
  <2>3. \A j \in 1..Len(sym) : sym'[j] = IF j = pos + 1 THEN Char ELSE sym[j]
    BY <1>1, <1>5, <2>1, ExceptSeq
  <2>4. \A k \in 1..pos : k \in 1..Len(sym) /\ k # pos + 1 BY <1>2, <2>1
  <2> QED BY <2>1, <2>2, <2>3, <2>4 DEF N
<1>7. \A k \in 1..pos : loops[k] # J + 1
  <2> SUFFICES ASSUME NEW k \in 1..pos, loops[k] = J + 1 PROVE FALSE OBVIOUS
  <2>1. sym[k] = Char BY <1>2, <1>5
  <2> QED BY <1>1, <2>1 DEF NotIn
<1>8. Size' BY <1>1, <1>3, <1>6, SameBuffer DEF Size
<1>9. Calls'
  <2>1. pos' = Len(loops') - 1 /\ Len(loops') <= N + 1 BY <1>1, <1>2, <1>4
  <2>2. loops'[pos' + 1] = 1 BY <1>1, <1>2, <1>4
  <2> QED BY <1>1, <1>2, <1>4, <1>6, <2>1, <2>2 DEF Calls
<1>10. \A k \in 1..pos' : k \in 1..pos \/ k = pos + 1 BY <1>1, <1>2
<1>11. Buffer'
  <2>1. \A k \in 1..pos' : loops'[k] \in 2..(N + 1) /\ sym'[k] = Digits[loops'[k]]
    BY <1>2, <1>4, <1>5, <1>6, <1>10
  <2>2. \A a, b \in 1..pos' : loops'[a] = loops'[b] => a = b
    BY <1>3, <1>4, <1>7, <1>10 DEF Buffer
  <2> QED BY <1>6, <2>1, <2>2 DEF Buffer
<1>12. \A p \in Arrangements : Passed(p, loops') <=> Passed(p, loops)
  <2> SUFFICES ASSUME NEW p \in Arrangements PROVE Passed(p, loops') <=> Passed(p, loops) OBVIOUS
  <2>1. p \in [Positions -> Positions] BY DEF Arrangements
  <2> QED BY <1>1, <1>2, <2>1, PassedAppend
<1>13. FirstOps => FirstOps'
  <2> SUFFICES ASSUME FirstOps PROVE FirstOps' OBVIOUS
  <2>1. /\ (\A k \in 1..pos : loops[k] = k + 1) /\ J <= pos + 1
        /\ op = [k \in Positions |-> IF k > place THEN Pattern[k]
                               ELSE IF k < place THEN Blank
                               ELSE IF k > 1 THEN "/" ELSE Pattern[k]]
    BY <1>1, <1>2 DEF FirstOps
  <2>2. J = pos + 1
    <3>1. J \in 1..pos => loops[J] = J + 1 BY <2>1
    <3> QED BY <1>2, <1>7, <2>1, <3>1
  <2>3. \A k \in 1..pos' : loops'[k] = k + 1 BY <1>2, <1>4, <1>10, <2>1, <2>2
  <2>4. loops'[pos' + 1] <= pos' + 1 BY <1>1, <1>2, <1>4
  <2>5. Positions' = Positions /\ Pattern' = Pattern BY <1>1, <1>6, SameBuffer
  <2> QED BY <1>1, <1>4, <2>1, <2>3, <2>4, <2>5 DEF FirstOps
<1>14. LaterOps => LaterOps'
  <2> SUFFICES ASSUME LaterOps PROVE LaterOps' OBVIOUS
  <2>1. Passed(Given, loops') BY <1>2, <1>12, GivenIs DEF LaterOps
  <2>2. Passed(Given, loops)' BY <1>1, <1>6, <2>1, SameBuffer
  <2>3. Positions' = Positions BY <1>1, <1>6, SameBuffer
  <2> QED BY <1>1, <2>2, <2>3 DEF LaterOps
<1>15. Checked' = Checked
  <2>1. {q \in Arrangements : Passed(q, loops')} = {q \in Arrangements : Passed(q, loops)} BY <1>12
  <2> QED BY <1>1, <1>6, <2>1, SameBuffer DEF Checked
<1>16. Checking' = {} BY <1>1, <1>2 DEF Checking
<1> QED BY <1>1, <1>2, <1>3, <1>8, <1>9, <1>11, <1>13, <1>14, <1>15, <1>16 DEF GenInv

LEMMA GenSkip == GenInv /\ puzzle.prog = "95" /\ Skip => GenInv'
<1> SUFFICES ASSUME GenInv, puzzle.prog = "95", Skip PROVE GenInv' OBVIOUS
<1>1. /\ Generating /\ pos < N /\ J <= N /\ ~NotIn(Char) /\ loops' = LoopNext
      /\ UNCHANGED <<puzzle, sym, op, pos, place, todo, res, killed, seen>>
  BY DEF Skip
<1>2. /\ N \in 0..9 /\ N \in Nat /\ loops \in Seq(Nat) /\ loops # <<>> /\ Len(loops) <= N
      /\ pos \in Nat /\ Len(loops) = pos + 1 /\ J \in 1..(N + 1) /\ J = loops[pos + 1]
      /\ place = 0 /\ (\A k \in 1..pos : loops[k] \in 2..(N + 1) /\ sym[k] = Digits[loops[k]])
      /\ LoopNext = [loops EXCEPT ![Len(loops)] = @ + 1]
      /\ Checking = {}
  BY <1>1, Looping
<1>3. todo = <<>> /\ Size /\ Calls /\ Buffer /\ (FirstOps \/ LaterOps) /\ seen = SetToBag(Checked \union Checking)
  BY DEF GenInv
<1>4. /\ loops' \in Seq(Nat) /\ loops' # <<>> /\ Len(loops') = pos + 1
      /\ loops'[pos + 1] = J + 1 /\ \A k \in 1..pos : loops'[k] = loops[k]
  BY <1>1, <1>2, NextIs
<1>5. PICK j \in 1..pos : loops[j] = J + 1
  <2>1. PICK k \in 1..pos : sym[k] = Char BY <1>1 DEF NotIn
  <2>2. Digits[loops[k]] = Digits[J + 1] /\ loops[k] \in 2..(N + 1) BY <1>2, <2>1 DEF Char
  <2>3. N \in Nat /\ N <= 9 /\ J \in 1..N BY <1>1, <1>2
  <2>4. J + 1 \in 1..10 BY <2>3
  <2>5. loops[k] \in 1..10 BY <2>2, <2>3
  <2> QED BY <2>2, <2>4, <2>5, DigitsDiffer
<1>6. N' = N BY <1>1 DEF N
<1>7. Size' BY <1>1, <1>3, <1>6, SameBuffer DEF Size
<1>8. Calls'
  <2>1. pos' = Len(loops') - 1 /\ Len(loops') <= N + 1 BY <1>1, <1>2, <1>4
  <2>2. loops'[pos' + 1] \in 1..(N + 1) /\ pos' # N BY <1>1, <1>2, <1>4
  <2> QED BY <1>1, <1>2, <1>4, <1>6, <2>1, <2>2 DEF Calls
<1>9. Buffer' BY <1>1, <1>3, <1>4, <1>6 DEF Buffer
<1>10. \A p \in Arrangements : Passed(p, loops') <=> Passed(p, loops)
  <2> SUFFICES ASSUME NEW p \in Arrangements PROVE Passed(p, loops') <=> Passed(p, loops) OBVIOUS
  <2>1. j \in 1..(Len(loops) - 1) /\ loops[j] - 1 = loops[Len(loops)] BY <1>2, <1>5
  <2> QED BY <1>1, <1>2, <2>1, PassedNext
<1>11. FirstOps => FirstOps'
  <2> SUFFICES ASSUME FirstOps PROVE FirstOps' OBVIOUS
  <2>1. /\ (\A k \in 1..pos : loops[k] = k + 1)
        /\ op = [k \in Positions |-> IF k > place THEN Pattern[k]
                               ELSE IF k < place THEN Blank
                               ELSE IF k > 1 THEN "/" ELSE Pattern[k]]
    BY DEF FirstOps
  <2>2. J <= pos
    <3>1. loops[j] = j + 1 BY <2>1
    <3> QED BY <1>2, <1>5, <3>1
  <2>3. \A k \in 1..pos' : loops'[k] = k + 1 BY <1>1, <1>4, <2>1
  <2>4. loops'[pos' + 1] <= pos' + 1 BY <1>1, <1>2, <1>4, <2>2
  <2>5. Positions' = Positions /\ Pattern' = Pattern BY <1>1, <1>6, SameBuffer
  <2> QED BY <1>1, <1>4, <2>1, <2>3, <2>4, <2>5 DEF FirstOps
<1>12. LaterOps => LaterOps'
  <2> SUFFICES ASSUME LaterOps PROVE LaterOps' OBVIOUS
  <2>1. Passed(Given, loops') BY <1>2, <1>10, GivenIs DEF LaterOps
  <2>2. Passed(Given, loops)' /\ Positions' = Positions BY <1>1, <1>6, <2>1, SameBuffer
  <2> QED BY <1>1, <2>2 DEF LaterOps
<1>13. Checked' = Checked
  <2>1. {q \in Arrangements : Passed(q, loops')} = {q \in Arrangements : Passed(q, loops)} BY <1>10
  <2> QED BY <1>1, <1>6, <2>1, SameBuffer DEF Checked
<1>14. Checking' = {} BY <1>1, <1>2 DEF Checking
<1> QED BY <1>1, <1>2, <1>3, <1>7, <1>8, <1>9, <1>11, <1>12, <1>13, <1>14 DEF GenInv

LEMMA GenBack == GenInv /\ puzzle.prog = "95" /\ Back => GenInv'
<1> SUFFICES ASSUME GenInv, puzzle.prog = "95", Back PROVE GenInv' OBVIOUS
<1>1. /\ Generating /\ pos < N /\ J > N /\ loops' = Front(loops)
      /\ pos' = (IF pos = 0 THEN 0 ELSE pos - 1)
      /\ UNCHANGED <<puzzle, sym, op, place, todo, res, killed, seen>>
  BY DEF Back
<1>2. /\ N \in 0..9 /\ N \in Nat /\ loops \in Seq(Nat) /\ loops # <<>> /\ Len(loops) <= N
      /\ pos \in Nat /\ Len(loops) = pos + 1 /\ J \in 1..(N + 1) /\ J = loops[pos + 1]
      /\ place = 0 /\ (\A k \in 1..pos : loops[k] \in 2..(N + 1) /\ sym[k] = Digits[loops[k]])
      /\ LoopNext = [loops EXCEPT ![Len(loops)] = @ + 1]
      /\ Checking = {}
  BY <1>1, Looping
<1>3. todo = <<>> /\ Size /\ Calls /\ Buffer /\ (FirstOps \/ LaterOps) /\ seen = SetToBag(Checked \union Checking)
  BY DEF GenInv
<1>4. /\ loops' \in Seq(Nat) /\ Len(loops') = pos /\ (loops' = <<>> <=> pos = 0)
      /\ \A k \in 1..pos : loops'[k] = loops[k]
  <2>1. /\ Front(loops) \in Seq(Nat) /\ Len(Front(loops)) = Len(loops) - 1
        /\ \A k \in 1..(Len(loops) - 1) : Front(loops)[k] = loops[k]
        /\ Front(loops) = <<>> <=> Len(loops) = 1
    BY <1>2, FrontIs
  <2>2. Len(loops) - 1 = pos /\ (Len(loops) = 1 <=> pos = 0) BY <1>2
  <2> QED BY <1>1, <2>1, <2>2
<1>5. N' = N BY <1>1 DEF N
<1>6. Size' BY <1>1, <1>3, <1>5, SameBuffer DEF Size
<1>7. Calls'
  <2>1. pos' = IF loops' = <<>> THEN 0 ELSE Len(loops') - 1 BY <1>1, <1>4
  <2>2. ASSUME loops' # <<>> PROVE pos > 0 /\ pos' = pos - 1 /\ loops'[pos' + 1] \in 1..(N + 1) /\ pos' # N
    <3>1. pos > 0 /\ pos' = pos - 1 /\ pos' + 1 = pos BY <1>1, <1>2, <1>4, <2>2
    <3>2. pos \in 1..pos BY <1>2, <3>1
    <3>3. loops'[pos] \in 2..(N + 1) BY <1>2, <1>4, <3>2
    <3> QED BY <1>1, <1>2, <3>1, <3>3
  <2>3. Len(loops') <= N + 1 BY <1>1, <1>2, <1>4
  <2> QED BY <1>1, <1>2, <1>4, <1>5, <2>1, <2>2, <2>3 DEF Calls
<1>8. Buffer'
  <2>1. pos' \in Nat /\ pos' <= pos BY <1>1, <1>2
  <2>2. \A k \in 1..pos' : k \in 1..pos BY <1>2, <2>1
  <2> QED BY <1>1, <1>3, <1>4, <1>5, <2>2 DEF Buffer
<1>9. \A p \in Arrangements : Passed(p, loops') <=> Passed(p, loops)
  <2> SUFFICES ASSUME NEW p \in Arrangements PROVE Passed(p, loops') <=> Passed(p, loops) OBVIOUS
  <2>1. p \in [Positions -> Positions] BY DEF Arrangements
  <2>2. Passed(p, loops') <=> Passed(p, loops) \/ Agrees(p, loops, Len(loops) - 1)
    BY <1>1, <1>2, <2>1, PassedFront
  <2>3. ASSUME Agrees(p, loops, Len(loops) - 1) PROVE Passed(p, loops)
    <3>1. Len(loops) \in 1..N /\ loops[Len(loops)] = J BY <1>2
    <3>2. p[Len(loops)] \in 1..N BY <1>2, <2>1, <3>1, PassedIs
    <3>3. p[Len(loops)] < loops[Len(loops)] BY <1>1, <1>2, <3>1, <3>2
    <3>4. Len(loops) \in 1..Len(loops) /\ Len(loops) <= N BY <1>2
    <3> QED BY <1>2, <2>1, <2>3, <3>3, <3>4, PassedIs
  <2> QED BY <2>2, <2>3
<1>10. ~ FirstOps BY <1>1, <1>2 DEF FirstOps
<1>11. LaterOps'
  <2>1. Passed(Given, loops') BY <1>2, <1>3, <1>9, <1>10, GivenIs DEF LaterOps
  <2>2. Passed(Given, loops)' /\ Positions' = Positions BY <1>1, <1>5, <2>1, SameBuffer
  <2> QED BY <1>1, <1>3, <1>10, <2>2 DEF LaterOps
<1>12. Checked' = Checked
  <2>1. {q \in Arrangements : Passed(q, loops')} = {q \in Arrangements : Passed(q, loops)} BY <1>9
  <2> QED BY <1>1, <1>5, <2>1, SameBuffer DEF Checked
<1>13. Checking' = {} BY <1>1, <1>2 DEF Checking
<1> QED BY <1>1, <1>2, <1>3, <1>6, <1>7, <1>8, <1>11, <1>12, <1>13 DEF GenInv

LEMMA GenCheckDiv == GenInv /\ puzzle.prog = "95" /\ CheckDiv => GenInv'
<1> SUFFICES ASSUME GenInv, puzzle.prog = "95", CheckDiv PROVE GenInv' OBVIOUS
<1>1. /\ loops # <<>> /\ place = 0 /\ pos = N /\ place' = 1
      /\ UNCHANGED <<puzzle, sym, op, pos, loops, todo, res, killed, seen>>
  BY DEF CheckDiv, Generating
<1>2. todo = <<>> /\ Size /\ Calls /\ Buffer /\ (FirstOps \/ LaterOps) /\ seen = SetToBag(Checked \union Checking)
  BY DEF GenInv
<1>3. N' = N BY <1>1 DEF N
<1>4. N \in Nat BY <1>2 DEF Size
<1>5. Size' BY <1>1, <1>2, <1>3, SameBuffer DEF Size
<1>6. Calls'
  <2>1. 1 \in 0..(N + 1) /\ (1 > N => N = 0) BY <1>4
  <2> QED BY <1>1, <1>2, <1>3, <2>1 DEF Calls
<1>7. Buffer' BY <1>1, <1>2, <1>3 DEF Buffer
<1>8. Positions' = Positions /\ Pattern' = Pattern /\ (Passed(Given, loops)' <=> Passed(Given, loops))
      /\ Checked' = Checked
  BY <1>1, <1>3, SameBuffer DEF Checked
<1>9. FirstOps => FirstOps'
  <2> SUFFICES ASSUME FirstOps PROVE FirstOps' OBVIOUS
  <2>1. \A k \in Positions :
          (IF k > place THEN Pattern[k]
           ELSE IF k < place THEN Blank ELSE IF k > 1 THEN "/" ELSE Pattern[k])
          = (IF k > 1 THEN Pattern[k]
             ELSE IF k < 1 THEN Blank ELSE IF k > 1 THEN "/" ELSE Pattern[k])
    BY <1>1, <1>4 DEF Positions
  <2> QED BY <1>1, <1>3, <1>8, <2>1 DEF FirstOps
<1>10. LaterOps => LaterOps'
  <2> SUFFICES ASSUME LaterOps PROVE LaterOps' OBVIOUS
  <2>1. \A k \in Positions : (IF k = place /\ k > 1 THEN "/" ELSE Blank) = (IF k = 1 /\ k > 1 THEN "/" ELSE Blank)
    BY <1>1, <1>4 DEF Positions
  <2> QED BY <1>1, <1>8, <2>1 DEF LaterOps
<1>11. Checking = {} /\ Checking' = {} BY <1>1 DEF Checking
<1> QED BY <1>1, <1>2, <1>5, <1>6, <1>7, <1>8, <1>9, <1>10, <1>11 DEF GenInv

LEMMA SameCall ==
  ASSUME puzzle' = puzzle, N' = N, loops' = loops
  PROVE  /\ Chosen' = Chosen /\ Checked' = Checked
         /\ Checking' = {<<Spelled(Chosen), DividedAt(Chosen, i)>> : i \in 2..place'}
<1>1. Positions' = Positions /\ Pattern' = Pattern BY SameBuffer
<1>2. Chosen' = Chosen BY <1>1 DEF Chosen
<1>3. Checked' = Checked BY SameBuffer DEF Checked
<1>4. Spelled(Chosen)' = Spelled(Chosen) BY <1>1, <1>2 DEF Spelled
<1>5. \A i : DividedAt(Chosen, i)' = DividedAt(Chosen, i) BY <1>1, <1>2 DEF DividedAt
<1> QED BY <1>2, <1>3, <1>4, <1>5 DEF Checking

(* In check_div: an arrangement is complete, and the innermost call has it. *)
LEMMA Dividing ==
  ASSUME GenInv, puzzle.prog = "95", place # 0
  PROVE  /\ todo = <<>> /\ Size /\ Calls /\ Buffer /\ (FirstOps \/ LaterOps)
         /\ seen = SetToBag(Checked \union Checking)
         /\ N \in 0..9 /\ N \in Nat /\ pos = N /\ loops # <<>> /\ loops \in Seq(Nat)
         /\ Len(loops) = N + 1 /\ place \in 1..(N + 1) /\ (place > N => N = 0)
         /\ Chosen \in Arrangements /\ Chosen \in [Positions -> Positions] /\ sym = Spelled(Chosen)
         /\ ~ Passed(Chosen, loops)
         /\ \A p \in [Positions -> Positions] : Agrees(p, loops, N) <=> p = Chosen
<1>1. /\ todo = <<>> /\ Size /\ Calls /\ Buffer /\ (FirstOps \/ LaterOps)
      /\ seen = SetToBag(Checked \union Checking)
  BY DEF GenInv
<1>2. /\ N \in 0..9 /\ N \in Nat /\ pos = N /\ loops # <<>> /\ loops \in Seq(Nat)
      /\ place \in 1..(N + 1) /\ (place > N => N = 0)
  BY <1>1 DEF Size, Calls
<1>3. Len(loops) = N + 1 BY <1>1, <1>2 DEF Calls
<1> QED BY <1>1, <1>2, <1>3, ChosenIs

LEMMA FirstIsGiven ==
  ASSUME GenInv, puzzle.prog = "95", place # 0, FirstOps
  PROVE  Chosen = Given
<1>1. N \in Nat /\ pos = N BY Dividing
<1>2. \A k \in 1..N : loops[k] = k + 1 BY <1>1 DEF FirstOps
<1> QED BY <1>1, <1>2 DEF Chosen, Given, Positions

LEMMA GenDivide == GenInv /\ puzzle.prog = "95" /\ Divide => GenInv'
<1> SUFFICES ASSUME GenInv, puzzle.prog = "95", Divide PROVE GenInv' OBVIOUS
<1>1. /\ place \in 1..(N - 1) /\ place' = place + 1
      /\ op' = [op EXCEPT ![place + 1] = "/", ![place] = Blank]
      /\ seen' = seen (+) SetToBag({<<sym, op'>>})
      /\ UNCHANGED <<puzzle, sym, pos, loops, todo>>
  BY DEF Divide, Evaluate
<1>2. /\ todo = <<>> /\ Size /\ Calls /\ Buffer /\ (FirstOps \/ LaterOps)
      /\ seen = SetToBag(Checked \union Checking)
      /\ N \in Nat /\ pos = N /\ loops # <<>> /\ loops \in Seq(Nat)
      /\ Chosen \in Arrangements /\ Chosen \in [Positions -> Positions] /\ sym = Spelled(Chosen)
      /\ ~ Passed(Chosen, loops)
  BY <1>1, Dividing
<1>3. N' = N BY <1>1 DEF N
<1>4. /\ Positions' = Positions /\ Pattern' = Pattern /\ (Passed(Given, loops)' <=> Passed(Given, loops))
      /\ Checked' = Checked
      /\ Checking' = {<<Spelled(Chosen), DividedAt(Chosen, i)>> : i \in 2..place'}
  <2>1. Passed(Given, loops') <=> Passed(Given, loops) BY <1>1
  <2> QED BY <1>1, <1>3, <2>1, SameBuffer, SameCall
<1>5. \A k \in Positions : op'[k] = IF k = place + 1 THEN "/" ELSE IF k = place THEN Blank ELSE op[k]
  <2>1. DOMAIN op = Positions BY <1>2 DEF FirstOps, LaterOps
  <2>2. place + 1 \in Positions /\ place \in Positions /\ place # place + 1
    BY <1>1, <1>2 DEF Positions
  <2> QED BY <1>1, <2>1, <2>2
<1>6. DOMAIN op' = Positions BY <1>1, <1>2 DEF FirstOps, LaterOps
<1>7. ASSUME FirstOps PROVE FirstOps' /\ op' = DividedAt(Chosen, place + 1)
  <2>1. \A k \in Positions : op[k] = IF k > place THEN Pattern[k] ELSE IF k < place THEN Blank
                                     ELSE IF k > 1 THEN "/" ELSE Pattern[k]
    BY <1>7 DEF FirstOps
  <2>2. \A k \in Positions : op'[k] = IF k = place + 1 THEN "/" ELSE IF k > place + 1 THEN Pattern[k]
                                      ELSE Blank
    <3> TAKE k \in Positions
    <3>1. place \in Nat /\ k \in Nat BY <1>1, <1>2 DEF Positions
    <3>2. op[k] = IF k > place THEN Pattern[k] ELSE IF k < place THEN Blank
                  ELSE IF k > 1 THEN "/" ELSE Pattern[k]
      BY <2>1
    <3>3. op'[k] = IF k = place + 1 THEN "/" ELSE IF k = place THEN Blank ELSE op[k] BY <1>5
    <3> QED BY <3>1, <3>2, <3>3
  <2>3. \A a \in Positions : Chosen[a] = a
    <3>1. Chosen = Given BY <1>1, <1>7, FirstIsGiven
    <3> QED BY <3>1 DEF Given
  <2>4. op' = [k \in Positions |-> IF k = place + 1 THEN "/" ELSE IF k > place + 1 THEN Pattern[k]
                                   ELSE Blank]
    <3>1. op' = [k \in Positions |-> op'[k]] BY <1>1, <1>6, <1>7 DEF FirstOps
    <3> QED BY <2>2, <3>1
  <2>5. op' = DividedAt(Chosen, place + 1) BY <2>3, <2>4 DEF DividedAt
  <2>6. \A k \in Positions : (IF k = place + 1 THEN "/" ELSE IF k > place + 1 THEN Pattern[k] ELSE Blank)
          = IF k > place' THEN Pattern[k] ELSE IF k < place' THEN Blank
            ELSE IF k > 1 THEN "/" ELSE Pattern[k]
    BY <1>1, <1>2 DEF Positions
  <2>7. op' = [k \in Positions |-> IF k > place' THEN Pattern[k] ELSE IF k < place' THEN Blank
                                   ELSE IF k > 1 THEN "/" ELSE Pattern[k]]
    BY <2>4, <2>6
  <2>8. /\ loops' # <<>> /\ (\A k \in 1..pos' : loops'[k] = k + 1)
        /\ pos' < N' => loops'[pos' + 1] <= pos' + 1
    BY <1>1, <1>2, <1>3, <1>7 DEF FirstOps
  <2>9. FirstOps' BY <1>4, <2>7, <2>8 DEF FirstOps
  <2> QED BY <2>5, <2>9
<1>8. ASSUME LaterOps PROVE LaterOps' /\ op' = DividedAt(Chosen, place + 1)
  <2>1. \A k \in Positions : op[k] = IF k = place /\ k > 1 THEN "/" ELSE Blank BY <1>8 DEF LaterOps
  <2>2. \A k \in Positions : op'[k] = IF k = place + 1 THEN "/" ELSE Blank BY <1>5, <2>1
  <2>3. ~ \A a \in Positions : Chosen[a] = a
    <3>1. Chosen # Given BY <1>2, <1>8 DEF LaterOps
    <3>2. Chosen = [a \in Positions |-> Chosen[a]] BY <1>2
    <3> QED BY <3>1, <3>2 DEF Given
  <2>4. op' = [k \in Positions |-> IF k = place + 1 THEN "/" ELSE Blank]
    <3>1. op' = [k \in Positions |-> op'[k]] BY <1>1, <1>6, <1>8 DEF LaterOps
    <3> QED BY <2>2, <3>1
  <2>5. op' = DividedAt(Chosen, place + 1) BY <2>3, <2>4 DEF DividedAt
  <2>6. \A k \in Positions : (k = place + 1) <=> (k = place' /\ k > 1) BY <1>1, <1>2 DEF Positions
  <2>7. op' = [k \in Positions |-> IF k = place' /\ k > 1 THEN "/" ELSE Blank] BY <2>4, <2>6
  <2>8. LaterOps' BY <1>4, <1>8, <2>7 DEF LaterOps
  <2> QED BY <2>5, <2>8
<1>9. op' = DividedAt(Chosen, place + 1) BY <1>2, <1>7, <1>8
<1> DEFINE e == <<sym, op'>>
<1>10. e \notin Checked \union Checking
  <2>1. ASSUME e \in Checked PROVE FALSE
    <3>1. PICK p \in {q \in Arrangements : Passed(q, loops)} : sym = Spelled(p) BY <2>1 DEF Checked
    <3>2. p \in [Positions -> Positions] /\ Spelled(p) = Spelled(Chosen) BY <1>2, <3>1 DEF Arrangements
    <3>3. p = Chosen BY <1>2, <3>2, SpelledOnce DEF Size
    <3> QED BY <1>2, <3>1, <3>3
  <2>2. ASSUME e \in Checking PROVE FALSE
    <3>1. PICK i \in 2..place : op' = DividedAt(Chosen, i) BY <2>2 DEF Checking
    <3>2. i \in 1..N /\ place + 1 \in 1..N /\ i < place + 1 BY <1>1, <1>2
    <3> QED BY <1>2, <1>9, <3>1, <3>2, DividedOnce
  <2> QED BY <2>1, <2>2
<1>11. Checking' = Checking \union {e}
  <2>1. \A i : i \in 2..place' <=> i \in 2..place \/ i = place + 1 BY <1>1, <1>2
  <2> QED BY <1>2, <1>4, <1>9, <2>1 DEF Checking
<1>12. seen' = SetToBag((Checked \union Checking) \union {e})
  <2>1. SetToBag(Checked \union Checking) (+) SetToBag({e}) = SetToBag((Checked \union Checking) \union {e})
    BY <1>10, BagAdds
  <2> QED BY <1>1, <1>2, <2>1
<1>13. seen' = SetToBag(Checked' \union Checking')
  <2>1. Checked' \union Checking' = (Checked \union Checking) \union {e} BY <1>4, <1>11
  <2> QED BY <1>12, <2>1
<1>14. Size' BY <1>1, <1>2, <1>3, <1>4 DEF Size
<1>15. Calls'
  <2>1. place' \in 0..(N + 1) /\ ~(place' > N) BY <1>1, <1>2
  <2> QED BY <1>1, <1>2, <1>3, <2>1 DEF Calls
<1>16. Buffer' BY <1>1, <1>2, <1>3 DEF Buffer
<1> QED BY <1>1, <1>2, <1>7, <1>8, <1>13, <1>14, <1>15, <1>16 DEF GenInv

LEMMA GenDivided == GenInv /\ puzzle.prog = "95" /\ Divided => GenInv'
<1> SUFFICES ASSUME GenInv, puzzle.prog = "95", Divided PROVE GenInv' OBVIOUS
<1>1. /\ place # 0 /\ place >= N /\ place' = 0
      /\ op' = (IF N = 0 THEN op ELSE [op EXCEPT ![place] = Blank])
      /\ loops' = Front(loops) /\ pos' = (IF pos = 0 THEN 0 ELSE pos - 1)
      /\ UNCHANGED <<puzzle, sym, todo, res, killed, seen>>
  BY DEF Divided
<1>2. /\ todo = <<>> /\ Size /\ Calls /\ Buffer /\ (FirstOps \/ LaterOps)
      /\ seen = SetToBag(Checked \union Checking)
      /\ N \in 0..9 /\ N \in Nat /\ pos = N /\ loops # <<>> /\ loops \in Seq(Nat)
      /\ Len(loops) = N + 1 /\ place \in 1..(N + 1) /\ (place > N => N = 0)
      /\ Chosen \in Arrangements /\ Chosen \in [Positions -> Positions]
      /\ \A p \in [Positions -> Positions] : Agrees(p, loops, N) <=> p = Chosen
  BY <1>1, Dividing
<1>3. N' = N BY <1>1 DEF N
<1>4. /\ loops' \in Seq(Nat) /\ Len(loops') = N /\ (loops' = <<>> <=> N = 0)
      /\ \A k \in 1..N : loops'[k] = loops[k]
  <2>1. /\ Front(loops) \in Seq(Nat) /\ Len(Front(loops)) = Len(loops) - 1
        /\ \A k \in 1..(Len(loops) - 1) : Front(loops)[k] = loops[k]
        /\ Front(loops) = <<>> <=> Len(loops) = 1
    BY <1>2, FrontIs
  <2>2. Len(loops) - 1 = N /\ (Len(loops) = 1 <=> N = 0) BY <1>2
  <2> QED BY <1>1, <2>1, <2>2
<1>5. \A p \in Arrangements : Passed(p, loops') <=> Passed(p, loops) \/ p = Chosen
  <2> SUFFICES ASSUME NEW p \in Arrangements
               PROVE  Passed(p, loops') <=> Passed(p, loops) \/ p = Chosen
    OBVIOUS
  <2>1. p \in [Positions -> Positions] BY DEF Arrangements
  <2>2. Len(loops) - 1 = N /\ Len(loops) <= N + 1 BY <1>2
  <2>3. Passed(p, Front(loops)) <=> Passed(p, loops) \/ Agrees(p, loops, Len(loops) - 1)
    BY <1>2, <2>1, <2>2, PassedFront
  <2> QED BY <1>1, <1>2, <2>1, <2>2, <2>3
<1>6. Size' BY <1>1, <1>2, <1>3, SameBuffer DEF Size
<1>7. Calls'
  <2>1. pos' = IF loops' = <<>> THEN 0 ELSE Len(loops') - 1 BY <1>1, <1>2, <1>4
  <2>2. ASSUME loops' # <<>> PROVE loops'[pos' + 1] \in 1..(N + 1) /\ pos' # N
    <3>1. N > 0 /\ pos' = N - 1 /\ pos' + 1 = N /\ N \in 1..N BY <1>1, <1>2, <1>4, <2>2
    <3>2. loops[N] \in 2..(N + 1) BY <1>2, <3>1 DEF Buffer
    <3> QED BY <1>2, <1>4, <3>1, <3>2
  <2>3. Len(loops') <= N + 1 BY <1>2, <1>4
  <2> QED BY <1>1, <1>2, <1>3, <1>4, <2>1, <2>2, <2>3 DEF Calls
<1>8. Buffer'
  <2>1. \A k \in 1..pos' : k \in 1..N BY <1>1, <1>2
  <2> QED BY <1>1, <1>2, <1>3, <1>4, <2>1 DEF Buffer
<1>9. Passed(Given, loops')
  <2>1. CASE FirstOps BY <1>1, <1>2, <1>5, <2>1, FirstIsGiven
  <2>2. CASE LaterOps BY <1>2, <1>5, <2>2, GivenIs DEF LaterOps
  <2> QED BY <1>2, <2>1, <2>2
<1>10. op' = [k \in Positions |-> Blank]
  <2>1. CASE N = 0
    <3>1. Positions = {} BY <2>1 DEF Positions
    <3> QED BY <1>1, <1>2, <2>1, <3>1 DEF FirstOps, LaterOps
  <2>2. CASE N # 0
    <3>1. place = N /\ place \in Positions /\ \A k \in Positions : k < place \/ k = place
      BY <1>1, <1>2, <2>2 DEF Positions
    <3>2. DOMAIN op = Positions BY <1>2 DEF FirstOps, LaterOps
    <3>3. \A k \in Positions : k # place => op[k] = Blank
      <4>1. CASE FirstOps BY <3>1, <4>1 DEF FirstOps, Positions
      <4>2. CASE LaterOps BY <4>2 DEF LaterOps
      <4> QED BY <1>2, <4>1, <4>2
    <3>4. op' = [op EXCEPT ![place] = Blank] BY <1>1, <2>2
    <3>5. op' = [k \in Positions |-> IF k = place THEN Blank ELSE op[k]] BY <1>2, <3>2, <3>4 DEF FirstOps, LaterOps
    <3> QED BY <3>3, <3>5
  <2> QED BY <2>1, <2>2
<1>11. LaterOps'
  <2>1. \A k \in Positions : ~(k = place' /\ k > 1) BY <1>1
  <2>2. op' = [k \in Positions |-> IF k = place' /\ k > 1 THEN "/" ELSE Blank] BY <1>10, <2>1
  <2>3. Passed(Given, loops)' /\ Positions' = Positions BY <1>1, <1>3, <1>9, SameBuffer
  <2> QED BY <2>2, <2>3 DEF LaterOps
<1>12. Checked' \union Checking' = Checked \union Checking
  <2>1. Checking' = {} BY <1>1 DEF Checking
  <2>2. 2..place = 2..N BY <1>1, <1>2
  <2>3. \A q : q \in {p \in Arrangements : Passed(p, loops')}
               <=> q \in {p \in Arrangements : Passed(p, loops)} \/ q = Chosen
    BY <1>2, <1>5
  <2>4. Checked' = {<<Spelled(p), DividedAt(p, i)>> :
                      p \in {q \in Arrangements : Passed(q, loops')}, i \in 2..N}
    BY <1>1, <1>3, SameBuffer
  <2> DEFINE O == {p \in Arrangements : Passed(p, loops)}
             P == {p \in Arrangements : Passed(p, loops')}
             E(p, i) == <<Spelled(p), DividedAt(p, i)>>
  <2>5. Checked' = {E(p, i) : p \in P, i \in 2..N} BY <2>4
  <2>6. Checked = {E(p, i) : p \in O, i \in 2..N} BY DEF Checked
  <2>7. Checking = {E(Chosen, i) : i \in 2..N} BY <2>2 DEF Checking
  <2>8. \A q : q \in P <=> q \in O \/ q = Chosen BY <2>3
  <2> HIDE DEF O, P, E
  <2>9. Checked' = Checked \union Checking BY <2>5, <2>6, <2>7, <2>8
  <2> QED BY <2>1, <2>9
<1> QED BY <1>1, <1>2, <1>6, <1>7, <1>8, <1>11, <1>12 DEF GenInv

LEMMA GenStep == GenInv /\ [ONext]_ovars => GenInv'
<1> SUFFICES ASSUME GenInv, [ONext]_ovars, puzzle'.prog = "95" PROVE GenInv' BY DEF GenInv
<1>1. puzzle' = puzzle
  BY DEF ONext, GenStrings, Extend, Skip, Back, CheckDiv, Divide, Divided, Finished, ovars
<1>2. ~ GenStrings BY <1>1 DEF GenInv, GenStrings
<1>3. ASSUME UNCHANGED ovars PROVE GenInv'
  <2>1. /\ UNCHANGED <<puzzle, sym, op, pos, loops, place, todo, seen>> BY <1>3 DEF ovars
  <2>2. N' = N BY <2>1 DEF N
  <2>3. Positions' = Positions /\ Pattern' = Pattern /\ Given' = Given BY <2>1, <2>2, SameBuffer
  <2>4. Passed(Given, loops)' <=> Passed(Given, loops) BY <2>1, <2>3 DEF Passed, Agrees, N
  <2>5. Checked' = Checked /\ Checking' = Checking BY <2>1, <2>2, SameCall DEF Checking
  <2>6. Size' <=> Size BY <2>1, <2>2, <2>3 DEF Size
  <2>7. (Calls' <=> Calls) /\ (Buffer' <=> Buffer) BY <2>1, <2>2 DEF Calls, Buffer
  <2>8. FirstOps' <=> FirstOps BY <2>1, <2>2, <2>3 DEF FirstOps
  <2>9. LaterOps' <=> LaterOps BY <2>1, <2>3, <2>4 DEF LaterOps
  <2> QED BY <2>1, <2>5, <2>6, <2>7, <2>8, <2>9 DEF GenInv
<1> QED BY <1>1, <1>2, <1>3, GenExtend, GenSkip, GenBack, GenCheckDiv, GenDivide, GenDivided
        DEF ONext, Finished

(* generate and check_div evaluate every arrangement of the digits 1..sz    *)
(* with the division at every place after the first, each exactly once:     *)
(* for every pattern of up to nine symbols and any arithmetic.              *)
THEOREM EachArrangementOnce == OSpec => []EachOnce
<1>1. GenInv => EachOnce
  <2> SUFFICES ASSUME GenInv, puzzle.prog = "95", loops = <<>>
               PROVE  seen = SetToBag({<<Spelled(p), DividedAt(p, i)>> : p \in Arrangements, i \in 2..N})
    BY DEF EachOnce, Done
  <2>1. seen = SetToBag(Checked \union Checking) /\ place = 0
    <3>1. Calls /\ Size /\ seen = SetToBag(Checked \union Checking) BY DEF GenInv
    <3> QED BY <3>1 DEF Calls, Size
  <2>2. Checking = {} BY <2>1 DEF Checking
  <2>3. {q \in Arrangements : Passed(q, loops)} = Arrangements BY DEF Passed
  <2>4. Checked = {<<Spelled(p), DividedAt(p, i)>> : p \in Arrangements, i \in 2..N}
    BY <2>3 DEF Checked
  <2> QED BY <2>1, <2>2, <2>4
<1> QED BY <1>1, GenInit, GenStep, PTL DEF OSpec

-----------------------------------------------------------------------------
(* gen_strings: a string with its places up to p decided is a node of a     *)
(* tree; a call has the nodes under its own to evaluate.                    *)
Nodes == {n \in Strings \X (0..N) : n[2] \in Decided(n[1])}
Under(c, n) == c.pos <= n[2] /\ \A k \in 1..c.pos : n[1][k] = c.op[k]
Visited == {n \in Nodes : \A i \in 1..Len(todo) : ~ Under(todo[i], n)}

Apart(c, d) == \E k \in 1..c.pos : k <= d.pos /\ c.op[k] # d.op[k]
Items == [op : Strings, pos : 0..N, left : Nat]

IsCall(c) ==
  c \in Items /\ c.pos \in Decided(c.op) /\ c.left = puzzle.budget - Used(c.op, c.pos)

(* The calls still to be made are for different subtrees.                   *)
CallsLeft ==
  /\ todo \in Seq(Items) /\ \A i \in 1..Len(todo) : IsCall(todo[i])
  /\ \A i, j \in 1..Len(todo) : i # j => Apart(todo[i], todo[j])

Found(V) == {n \in V : Calc(sym, n[1]) = puzzle.value}
VisitedAt(V, o) == {p \in 0..N : <<o, p>> \in V}

PlacedInv ==
  puzzle.prog # "95" =>
    /\ puzzle \in Puzzles /\ loops = <<>> /\ place = 0 /\ N \in Nat
    /\ CallsLeft
    /\ IsFiniteSet(Visited)
    /\ \A o \in Strings : Times(<<sym, o>>) = Cardinality(VisitedAt(Visited, o))
    /\ res = Cardinality(Found(Visited))

-----------------------------------------------------------------------------
(* How many operators o has up to p. *)
LEMMA UsedIs ==
  ASSUME NEW o, NEW p \in Nat
  PROVE  IsFiniteSet({k \in 1..p : o[k] # Blank}) /\ Used(o, p) \in Nat
<1>1. IsFiniteSet(1..p) BY FS_Interval
<1>2. {k \in 1..p : o[k] # Blank} \subseteq 1..p OBVIOUS
<1>3. IsFiniteSet({k \in 1..p : o[k] # Blank}) BY <1>1, <1>2, FS_Subset
<1> QED BY <1>3, FS_CardinalityType DEF Used

LEMMA UsedNone == ASSUME NEW o PROVE Used(o, 0) = 0
<1>1. {k \in 1..0 : o[k] # Blank} = {} OBVIOUS
<1> QED BY <1>1, FS_EmptySet DEF Used

LEMMA UsedSame ==
  ASSUME NEW a, NEW b, NEW p \in Nat, \A k \in 1..p : a[k] = b[k]
  PROVE  Used(a, p) = Used(b, p)
<1>1. {k \in 1..p : a[k] # Blank} = {k \in 1..p : b[k] # Blank} OBVIOUS
<1> QED BY <1>1 DEF Used

LEMMA UsedMore ==
  ASSUME NEW o, NEW p \in Nat, NEW q \in Nat, p <= q
  PROVE  Used(o, p) <= Used(o, q)
<1>1. {k \in 1..p : o[k] # Blank} \subseteq {k \in 1..q : o[k] # Blank} OBVIOUS
<1> QED BY <1>1, UsedIs, FS_Subset DEF Used

LEMMA UsedNext ==
  ASSUME NEW o, NEW p \in Nat
  PROVE  Used(o, p + 1) = IF o[p + 1] = Blank THEN Used(o, p) ELSE Used(o, p) + 1
<1> DEFINE S == {k \in 1..p : o[k] # Blank}
           T == {k \in 1..(p + 1) : o[k] # Blank}
<1>1. CASE o[p + 1] = Blank
  <2>1. T = S
    <3>1. \A k : k \in 1..(p + 1) <=> k \in 1..p \/ k = p + 1 OBVIOUS
    <3> QED BY <1>1, <3>1
  <2> QED BY <1>1, <2>1 DEF Used
<1>2. CASE o[p + 1] # Blank
  <2>1. T = S \union {p + 1}
    <3>1. \A k : k \in 1..(p + 1) <=> k \in 1..p \/ k = p + 1 OBVIOUS
    <3> QED BY <1>2, <3>1
  <2>2. p + 1 \notin S OBVIOUS
  <2>3. IsFiniteSet(S) BY UsedIs
  <2> HIDE DEF S, T
  <2>4. Cardinality(T) = Cardinality(S) + 1 BY <2>1, <2>2, <2>3, FS_AddElement
  <2> QED BY <1>2, <2>4 DEF Used, S, T
<1> QED BY <1>1, <1>2

LEMMA TimesAdds ==
  ASSUME NEW e, seen' = seen (+) SetToBag({e})
  PROVE  \A v : Times(v) \in Nat => Times(v)' = IF v = e THEN Times(v) + 1 ELSE Times(v)
<1>1. DOMAIN seen' = DOMAIN seen \union {e} BY DEF SetToBag, (+)
<1>2. \A v \in DOMAIN seen' : seen'[v] = (IF v \in DOMAIN seen THEN seen[v] ELSE 0)
                                        + (IF v \in {e} THEN 1 ELSE 0)
  BY DEF SetToBag, (+)
<1> SUFFICES ASSUME NEW v, Times(v) \in Nat PROVE Times(v)' = IF v = e THEN Times(v) + 1 ELSE Times(v)
  OBVIOUS
<1>3. Times(v)' = IF v \in DOMAIN seen' THEN seen'[v] ELSE 0 BY DEF Times
<1>4. CASE v = e
  <2>1. seen'[v] = Times(v) + 1 BY <1>1, <1>2, <1>4 DEF Times
  <2> QED BY <1>1, <1>3, <1>4, <2>1
<1>5. CASE v # e
  <2>1. v \in DOMAIN seen' <=> v \in DOMAIN seen BY <1>1, <1>5
  <2>2. CASE v \in DOMAIN seen
    <3>1. seen'[v] = Times(v) + 0 BY <1>2, <1>5, <2>1, <2>2 DEF Times
    <3> QED BY <1>3, <1>5, <2>1, <2>2, <3>1
  <2>3. CASE v \notin DOMAIN seen
    <3>1. Times(v) = 0 BY <2>3 DEF Times
    <3> QED BY <1>3, <1>5, <2>1, <2>3, <3>1
  <2> QED BY <2>2, <2>3
<1> QED BY <1>4, <1>5

(* The first call is replaced by those it makes.                            *)
LEMMA Replaced ==
  ASSUME NEW S, NEW t \in Seq(S), t # <<>>, NEW g \in Seq(S), NEW u \in {g \o Tail(t)}
  PROVE  /\ u \in Seq(S) /\ Len(u) = Len(g) + Len(t) - 1
         /\ \A i \in 1..Len(g) : u[i] = g[i]
         /\ \A j \in 2..Len(t) : u[Len(g) + j - 1] = t[j]
         /\ \A i \in 1..Len(u) : i \in 1..Len(g) \/ i - Len(g) + 1 \in 2..Len(t)
<1> DEFINE r == Tail(t)
<1>1. g \in Seq(S) OBVIOUS
<1>2. PICK m \in Nat : Len(g) = m OBVIOUS
<1>3. r \in Seq(S) /\ Len(r) = Len(t) - 1 /\ \A i \in 1..(Len(t) - 1) : r[i] = t[i + 1]
  BY HeadTailProperties
<1>4. Len(t) \in Nat /\ Len(t) > 0 /\ m \in Nat OBVIOUS
<1> HIDE DEF r
<1>5. u = g \o r BY DEF r
<1>6. /\ u \in Seq(S) /\ Len(u) = Len(g) + Len(r)
      /\ \A i \in 1..(Len(g) + Len(r)) : u[i] = IF i <= Len(g) THEN g[i] ELSE r[i - Len(g)]
  <2>1. r \in Seq(S) BY <1>3
  <2>2. /\ g \o r \in Seq(S) /\ Len(g \o r) = Len(g) + Len(r)
        /\ \A i \in 1..(Len(g) + Len(r)) : (g \o r)[i] = IF i <= Len(g) THEN g[i] ELSE r[i - Len(g)]
    BY <1>1, <2>1, ConcatProperties, Zenon
  <2> QED BY <1>5, <2>2, Zenon
<1>7. Len(u) = m + Len(t) - 1 BY <1>2, <1>3, <1>4, <1>6
<1>8. \A i \in 1..(m + Len(t) - 1) : u[i] = IF i <= m THEN g[i] ELSE r[i - m]
  BY <1>2, <1>3, <1>4, <1>6
<1>9. ASSUME NEW i \in 1..m PROVE u[i] = g[i]
  <2>1. i \in 1..(m + Len(t) - 1) /\ i <= m BY <1>4
  <2> QED BY <1>8, <2>1
<1>10. ASSUME NEW j \in 2..Len(t) PROVE u[m + j - 1] = t[j]
  <2>1. m + j - 1 \in 1..(m + Len(t) - 1) /\ ~(m + j - 1 <= m) /\ (m + j - 1) - m = j - 1 BY <1>4
  <2>2. u[m + j - 1] = r[j - 1] BY <1>8, <2>1
  <2>3. j - 1 \in 1..(Len(t) - 1) /\ (j - 1) + 1 = j BY <1>4
  <2> QED BY <1>3, <2>2, <2>3
<1>11. ASSUME NEW i \in 1..(m + Len(t) - 1), i \notin 1..m PROVE i - m + 1 \in 2..Len(t)
  BY <1>4, <1>11
<1>12. \A i \in 1..Len(u) : i \in 1..m \/ i - m + 1 \in 2..Len(t) BY <1>7, <1>11
<1> QED BY <1>2, <1>6, <1>7, <1>9, <1>10, <1>12

(* What is tried at the place after p, each once.                           *)
MayTry(p) ==
  IF p = 0 THEN {Blank, "-"} ELSE (IF puzzle.prog = "91" THEN Signs ELSE Operators) \union {Blank}

LEMMA TriedIs ==
  ASSUME NEW p
  PROVE  \E m \in Nat : /\ DOMAIN Tried(p) = 1..m
                        /\ \A k \in 1..m : Tried(p)[k] \in MayTry(p)
                        /\ \A v \in MayTry(p) : \E k \in 1..m : Tried(p)[k] = v
                        /\ \A i, j \in 1..m : Tried(p)[i] = Tried(p)[j] => i = j
<1> USE DEF Tried, MayTry, Signs, Factors, Operators, Blank
<1>1. CASE p = 0
  <2> DEFINE t == <<Blank, "-">>
  <2>1. Tried(p) = t BY <1>1
  <2>2. DOMAIN t = 1..2 /\ t[1] = Blank /\ t[2] = "-" OBVIOUS
  <2>3. \A k \in 1..2 : k = 1 \/ k = 2 OBVIOUS
  <2> HIDE DEF t, Tried
  <2>4. DOMAIN Tried(p) = 1..2 BY <2>1, <2>2
  <2>5. \A k \in 1..2 : t[k] \in MayTry(p) BY <1>1, <2>2, <2>3
  <2>6. 1 \in 1..2 /\ 2 \in 1..2 OBVIOUS
  <2>7. \A v \in MayTry(p) : \E k \in 1..2 : t[k] = v BY <1>1, <2>2, <2>6
  <2>8. \A i, j \in 1..2 : t[i] = t[j] => i = j BY <2>2, <2>3
  <2> HIDE DEF MayTry
  <2> QED BY <2>1, <2>4, <2>5, <2>7, <2>8
<1>2. CASE p # 0 /\ puzzle.prog = "91"
  <2> DEFINE t == <<"+", Blank, "-">>
  <2>1. Tried(p) = t BY <1>2
  <2>2. DOMAIN t = 1..3 /\ t[1] = "+" /\ t[2] = Blank /\ t[3] = "-" OBVIOUS
  <2>3. \A k \in 1..3 : k = 1 \/ k = 2 \/ k = 3 OBVIOUS
  <2> HIDE DEF t, Tried
  <2>4. DOMAIN Tried(p) = 1..3 BY <2>1, <2>2
  <2>5. \A k \in 1..3 : t[k] \in MayTry(p) BY <1>2, <2>2, <2>3
  <2>6. 1 \in 1..3 /\ 2 \in 1..3 /\ 3 \in 1..3 OBVIOUS
  <2>7. \A v \in MayTry(p) : \E k \in 1..3 : t[k] = v BY <1>2, <2>2, <2>6
  <2>8. \A i, j \in 1..3 : t[i] = t[j] => i = j BY <2>2, <2>3
  <2> HIDE DEF MayTry
  <2> QED BY <2>1, <2>4, <2>5, <2>7, <2>8
<1>3. CASE p # 0 /\ puzzle.prog # "91"
  <2> DEFINE t == <<"+", Blank, "-", "*", "/">>
  <2>1. Tried(p) = t BY <1>3
  <2>2. DOMAIN t = 1..5 /\ t[1] = "+" /\ t[2] = Blank /\ t[3] = "-" /\ t[4] = "*" /\ t[5] = "/" OBVIOUS
  <2>3. \A k \in 1..5 : k = 1 \/ k = 2 \/ k = 3 \/ k = 4 \/ k = 5 OBVIOUS
  <2> HIDE DEF t, Tried
  <2>4. DOMAIN Tried(p) = 1..5 BY <2>1, <2>2
  <2>5. \A k \in 1..5 : t[k] \in MayTry(p) BY <1>3, <2>2, <2>3
  <2>6. 1 \in 1..5 /\ 2 \in 1..5 /\ 3 \in 1..5 /\ 4 \in 1..5 /\ 5 \in 1..5 OBVIOUS
  <2>7. \A v \in MayTry(p) : \E k \in 1..5 : t[k] = v BY <1>3, <2>2, <2>6
  <2>8. \A i, j \in 1..5 : t[i] = t[j] => i = j BY <2>2, <2>3
  <2> HIDE DEF MayTry
  <2> QED BY <2>1, <2>4, <2>5, <2>7, <2>8
<1> QED BY <1>1, <1>2, <1>3

Placing == puzzle.prog # "95" /\ puzzle \in Puzzles /\ N \in Nat

LEMMA Choosing ==
  ASSUME Placing
  PROVE  /\ puzzle.prog \in {"91", "93"} /\ puzzle.budget \in Nat
         /\ \A p \in Nat, o \in Strings : p + 1 <= N /\ (p = 0 => o[1] \in {Blank, "-"}) => o[p + 1] \in MayTry(p)
         /\ \A p \in Nat, o \in Strings : \A v \in MayTry(p) : [o EXCEPT ![p + 1] = v] \in Strings
<1>1. puzzle.prog \in {"91", "93"} /\ puzzle.budget \in Nat BY OpSearchAssumption DEF Placing
<1>2. PICK A : /\ Strings = [Positions -> A] /\ (\A p \in Nat : p # 0 => MayTry(p) = A)
               /\ MayTry(0) = {Blank, "-"} /\ {Blank, "-"} \subseteq A
  <2> DEFINE A == (IF puzzle.prog = "91" THEN Signs ELSE Operators) \union {Blank}
  <2>1. Strings = [Positions -> A] BY DEF Strings
  <2>2. \A p \in Nat : p # 0 => MayTry(p) = A BY DEF MayTry
  <2>3. MayTry(0) = {Blank, "-"} BY DEF MayTry
  <2>4. {Blank, "-"} \subseteq A BY DEF Signs, Operators
  <2> HIDE DEF A
  <2> QED BY <2>1, <2>2, <2>3, <2>4
<1>3. ASSUME NEW p \in Nat, NEW o \in Strings, p + 1 <= N, p = 0 => o[1] \in {Blank, "-"}
      PROVE  o[p + 1] \in MayTry(p)
  <2>1. p + 1 \in Positions BY <1>3 DEF Positions, Placing
  <2>2. CASE p = 0
    <3>1. p + 1 = 1 BY <2>2
    <3> QED BY <1>2, <1>3, <2>2, <3>1
  <2>3. CASE p # 0 BY <1>2, <2>1, <2>3
  <2> QED BY <2>2, <2>3
<1>4. ASSUME NEW p \in Nat, NEW o \in Strings, NEW v \in MayTry(p)
      PROVE  [o EXCEPT ![p + 1] = v] \in Strings
  <2>1. v \in A BY <1>2
  <2> QED BY <1>2, <2>1
<1> QED BY <1>1, <1>3, <1>4

LEMMA ChildIs ==
  ASSUME Placing, NEW c, IsCall(c), c.left > 0, c.pos < N, NEW v \in MayTry(c.pos), NEW d, d = Child(c, v)
  PROVE  /\ IsCall(d) /\ d.pos = c.pos + 1 /\ d.op[c.pos + 1] = v
         /\ \A k \in 1..c.pos : d.op[k] = c.op[k]
<1>1. /\ c.op \in Strings /\ c.pos \in Nat /\ c.left \in Nat /\ N \in Nat /\ puzzle.budget \in Nat
      /\ c.left = puzzle.budget - Used(c.op, c.pos) /\ c.pos \in Decided(c.op)
  BY Choosing DEF IsCall, Items, Placing
<1>2. /\ d.op = [c.op EXCEPT ![c.pos + 1] = v] /\ d.pos = c.pos + 1
      /\ d.left = (IF v = Blank THEN c.left ELSE c.left - 1)
      /\ d = [op |-> d.op, pos |-> d.pos, left |-> d.left]
  BY DEF Child
<1>3. d.op \in Strings BY <1>1, <1>2, Choosing
<1>4. d \in Items BY <1>1, <1>2, <1>3 DEF Items
<1>5. DOMAIN c.op = Positions BY <1>1 DEF Strings
<1>6. \A k \in Positions : d.op[k] = IF k = c.pos + 1 THEN v ELSE c.op[k] BY <1>2, <1>5
<1>7. d.op[c.pos + 1] = v
  <2>1. c.pos + 1 \in Positions BY <1>1 DEF Positions
  <2> QED BY <1>6, <2>1
<1>8. \A k \in 1..c.pos : d.op[k] = c.op[k]
  <2> TAKE k \in 1..c.pos
  <2>1. k \in Positions /\ k # c.pos + 1 BY <1>1 DEF Positions
  <2> QED BY <1>6, <2>1
<1>9. Used(d.op, c.pos) = Used(c.op, c.pos) /\ Used(c.op, c.pos) \in Nat BY <1>1, <1>8, UsedSame, UsedIs
<1>10. d.left = puzzle.budget - Used(d.op, d.pos)
  <2>1. Used(d.op, c.pos + 1) = IF v = Blank THEN Used(d.op, c.pos) ELSE Used(d.op, c.pos) + 1
    BY <1>1, <1>7, UsedNext
  <2> QED BY <1>1, <1>2, <1>9, <2>1
<1>11. d.pos \in Decided(d.op)
  <2>1. d.pos \in 0..N /\ d.pos > 0 /\ d.pos - 1 = c.pos BY <1>1, <1>2
  <2>2. \A k \in (d.pos + 1)..N : d.op[k] = Pattern[k]
    <3> TAKE k \in (d.pos + 1)..N
    <3>1. k \in Positions /\ k # c.pos + 1 /\ k \in (c.pos + 1)..N BY <1>1, <1>2 DEF Positions
    <3> QED BY <1>1, <1>6, <3>1 DEF Decided
  <2>3. Used(d.op, d.pos - 1) < puzzle.budget BY <1>1, <1>9, <2>1
  <2>4. d.op[1] \in {Blank, "-"}
    <3>1. CASE c.pos = 0
      <4>1. c.pos + 1 = 1 BY <3>1
      <4> QED BY <1>7, <3>1, <4>1 DEF MayTry
    <3>2. CASE c.pos # 0
      <4>1. 1 \in 1..c.pos BY <1>1, <3>2
      <4>2. c.op[1] \in {Blank, "-"} BY <1>1, <3>2 DEF Decided
      <4> QED BY <1>8, <4>1, <4>2
    <3> QED BY <3>1, <3>2
  <2> QED BY <2>1, <2>2, <2>3, <2>4 DEF Decided
<1> QED BY <1>2, <1>4, <1>7, <1>8, <1>10, <1>11 DEF IsCall

LEMMA NodeIs ==
  ASSUME Placing, NEW c, IsCall(c)
  PROVE  <<c.op, c.pos>> \in Nodes /\ Under(c, <<c.op, c.pos>>)
BY DEF IsCall, Items, Placing, Nodes, Under

(* What a call has under it: its own node, and what is under those it makes. *)
LEMMA BelowCall ==
  ASSUME Placing, NEW c, IsCall(c), NEW n \in Nodes, Under(c, n), n # <<c.op, c.pos>>
  PROVE  c.left > 0 /\ c.pos < N /\ \E v \in MayTry(c.pos) : Under(Child(c, v), n)
<1>1. /\ c.op \in Strings /\ c.pos \in Nat /\ c.pos \in 0..N /\ c.left \in Nat /\ N \in Nat
      /\ puzzle.budget \in Nat
      /\ c.left = puzzle.budget - Used(c.op, c.pos) /\ c.pos \in Decided(c.op)
  BY Choosing DEF IsCall, Items, Placing
<1>2. PICK o \in Strings, p \in 0..N : n = <<o, p>> /\ p \in Decided(o) BY DEF Nodes
<1>3. c.pos <= p /\ \A k \in 1..c.pos : o[k] = c.op[k] BY <1>2 DEF Under
<1>4. p # c.pos
  <2> SUFFICES ASSUME p = c.pos PROVE FALSE OBVIOUS
  <2>1. ASSUME NEW k \in Positions PROVE o[k] = c.op[k]
    <3>1. k \in 1..c.pos \/ k \in (c.pos + 1)..N BY <1>1 DEF Positions
    <3>2. k \in (c.pos + 1)..N => o[k] = Pattern[k] /\ c.op[k] = Pattern[k] BY <1>1, <1>2 DEF Decided
    <3> QED BY <1>3, <3>1, <3>2
  <2>2. o = c.op BY <1>1, <2>1 DEF Strings
  <2> QED BY <1>2, <2>2
<1>5. c.pos < p /\ c.pos < N /\ p - 1 \in Nat /\ c.pos <= p - 1 /\ p > 0 BY <1>1, <1>3, <1>4
<1>6. Used(o, p - 1) < puzzle.budget /\ o[1] \in {Blank, "-"} BY <1>2, <1>5 DEF Decided
<1>7. Used(c.op, c.pos) = Used(o, c.pos) BY <1>1, <1>3, UsedSame
<1>8. Used(o, c.pos) <= Used(o, p - 1) BY <1>1, <1>5, UsedMore
<1>9. Used(o, c.pos) \in Nat /\ Used(o, p - 1) \in Nat BY <1>1, <1>5, UsedIs
<1>10. c.left > 0 BY <1>1, <1>6, <1>7, <1>8, <1>9
<1> DEFINE v == o[c.pos + 1]
           d == Child(c, v)
<1>11. v \in MayTry(c.pos) BY <1>1, <1>5, <1>6, Choosing
<1> HIDE DEF v, d
<1>12. d.pos = c.pos + 1 /\ d.op[c.pos + 1] = v /\ \A k \in 1..c.pos : d.op[k] = c.op[k]
  BY <1>5, <1>10, <1>11, ChildIs DEF d
<1>13. \A k \in 1..d.pos : o[k] = d.op[k]
  <2> TAKE k \in 1..d.pos
  <2>1. k \in 1..c.pos \/ k = c.pos + 1 BY <1>1, <1>12
  <2> QED BY <1>3, <1>12, <2>1 DEF v
<1>14. d.pos <= p BY <1>1, <1>5, <1>12
<1>15. Under(d, n) BY <1>2, <1>13, <1>14 DEF Under
<1> QED BY <1>5, <1>10, <1>11, <1>15 DEF d

LEMMA ChildrenAre ==
  ASSUME Placing, NEW c, IsCall(c)
  PROVE  /\ Children(c) \in Seq(Items)
         /\ \A i \in 1..Len(Children(c)) :
              /\ IsCall(Children(c)[i]) /\ Children(c)[i].pos = c.pos + 1
              /\ \A k \in 1..c.pos : Children(c)[i].op[k] = c.op[k]
         /\ \A i, j \in 1..Len(Children(c)) : i # j => Apart(Children(c)[i], Children(c)[j])
         /\ \A n \in Nodes : Under(c, n) <=>
              n = <<c.op, c.pos>> \/ \E i \in 1..Len(Children(c)) : Under(Children(c)[i], n)
<1> DEFINE g == Children(c)
           t == Tried(c.pos)
<1>1. c.pos \in Nat /\ N \in Nat BY DEF IsCall, Items, Placing
<1>2. CASE c.left > 0 /\ c.pos < N
  <2>1. PICK m \in Nat : /\ DOMAIN t = 1..m /\ (\A k \in 1..m : t[k] \in MayTry(c.pos))
                         /\ \A v \in MayTry(c.pos) : \E k \in 1..m : t[k] = v
                         /\ \A i, j \in 1..m : t[i] = t[j] => i = j
    BY TriedIs
  <2> HIDE DEF t
  <2>2. g = [k \in 1..m |-> Child(c, t[k])] BY <1>2, <2>1 DEF Children, t
  <2>3. ASSUME NEW i \in 1..m
        PROVE  /\ g[i] \in Items /\ g[i] = Child(c, t[i]) /\ IsCall(g[i]) /\ g[i].pos = c.pos + 1
               /\ g[i].op[c.pos + 1] = t[i] /\ \A k \in 1..c.pos : g[i].op[k] = c.op[k]
    <3>1. g[i] = Child(c, t[i]) BY <2>2
    <3>2. t[i] \in MayTry(c.pos) BY <2>1
    <3> HIDE DEF g
    <3>3. /\ IsCall(g[i]) /\ g[i].pos = c.pos + 1
          /\ g[i].op[c.pos + 1] = t[i] /\ \A k \in 1..c.pos : g[i].op[k] = c.op[k]
      BY <1>2, <3>1, <3>2, ChildIs
    <3> QED BY <3>1, <3>3 DEF IsCall
  <2>4. g \in [1..m -> Items] BY <2>2, <2>3
  <2>5. g \in Seq(Items) /\ Len(g) = m
    <3> HIDE DEF g
    <3>1. g \in Seq(Items) /\ DOMAIN g = 1..m BY <2>4, SeqDef
    <3> QED BY <3>1, LenProperties
  <2> HIDE DEF g
  <2>6. ASSUME NEW i \in 1..m, NEW j \in 1..m, i # j PROVE Apart(g[i], g[j])
    <3>1. g[i].op[c.pos + 1] # g[j].op[c.pos + 1] BY <2>1, <2>3, <2>6
    <3>2. c.pos + 1 \in 1..g[i].pos /\ c.pos + 1 <= g[j].pos BY <1>1, <2>3
    <3> QED BY <3>1, <3>2 DEF Apart
  <2>7. ASSUME NEW n \in Nodes
        PROVE  Under(c, n) <=> n = <<c.op, c.pos>> \/ \E i \in 1..m : Under(g[i], n)
    <3>1. ASSUME Under(c, n), n # <<c.op, c.pos>> PROVE \E i \in 1..m : Under(g[i], n)
      <4>1. PICK v \in MayTry(c.pos) : Under(Child(c, v), n) BY <3>1, BelowCall
      <4>2. PICK i \in 1..m : t[i] = v BY <2>1
      <4> QED BY <2>3, <4>1, <4>2
    <3>2. ASSUME NEW i \in 1..m, Under(g[i], n) PROVE Under(c, n)
      <4>1. PICK o \in Strings, p \in 0..N : n = <<o, p>> BY DEF Nodes
      <4>2. c.pos + 1 <= p /\ \A k \in 1..(c.pos + 1) : o[k] = g[i].op[k] BY <2>3, <3>2, <4>1 DEF Under
      <4>3. \A k \in 1..c.pos : k \in 1..(c.pos + 1) BY <1>1
      <4>4. c.pos <= p BY <1>1, <4>2
      <4>5. \A k \in 1..c.pos : o[k] = c.op[k] BY <2>3, <4>2, <4>3
      <4> QED BY <4>1, <4>4, <4>5 DEF Under
    <3>3. Under(c, <<c.op, c.pos>>) BY NodeIs
    <3> QED BY <3>1, <3>2, <3>3
  <2> QED BY <2>3, <2>5, <2>6, <2>7 DEF g
<1>3. CASE ~ (c.left > 0 /\ c.pos < N)
  <2>1. g = <<>> BY <1>3 DEF Children
  <2>2. g \in Seq(Items) /\ Len(g) = 0 BY <2>1
  <2> HIDE DEF g
  <2>3. ASSUME NEW n \in Nodes PROVE Under(c, n) <=> n = <<c.op, c.pos>> BY <1>3, NodeIs, BelowCall
  <2> QED BY <2>2, <2>3 DEF g
<1> QED BY <1>2, <1>3

(* One more node is visited: its string once more, a solution if it is one. *)
LEMMA Counts ==
  ASSUME N \in Nat, NEW V \in SUBSET Nodes, IsFiniteSet(V), NEW a \in Strings, NEW q \in 0..N, <<a, q>> \notin V,
         NEW W \in {V \union {<<a, q>>}}
  PROVE  /\ IsFiniteSet(W)
         /\ \A o \in Strings : Cardinality(VisitedAt(V, o)) \in Nat
         /\ \A o \in Strings : o # a => Cardinality(VisitedAt(W, o)) = Cardinality(VisitedAt(V, o))
         /\ Cardinality(VisitedAt(W, a)) = Cardinality(VisitedAt(V, a)) + 1
         /\ Calc(sym, a) = puzzle.value => Cardinality(Found(W)) = Cardinality(Found(V)) + 1
         /\ Calc(sym, a) # puzzle.value => Cardinality(Found(W)) = Cardinality(Found(V))
<1>1. IsFiniteSet(W) BY FS_AddElement
<1>2. ASSUME NEW o \in Strings
      PROVE  /\ Cardinality(VisitedAt(V, o)) \in Nat
             /\ Cardinality(VisitedAt(W, o)) = IF o = a THEN Cardinality(VisitedAt(V, o)) + 1
                                               ELSE Cardinality(VisitedAt(V, o))
  <2>1. IsFiniteSet(0..N) BY FS_Interval
  <2>2. IsFiniteSet(VisitedAt(V, o)) BY <2>1, FS_Subset DEF VisitedAt
  <2>3. CASE o = a
    <3>1. VisitedAt(W, o) = VisitedAt(V, o) \union {q} /\ q \notin VisitedAt(V, o) BY <2>3 DEF VisitedAt
    <3> QED BY <2>2, <2>3, <3>1, FS_AddElement, FS_CardinalityType
  <2>4. CASE o # a
    <3>1. VisitedAt(W, o) = VisitedAt(V, o) BY <2>4 DEF VisitedAt
    <3> QED BY <2>2, <2>4, <3>1, FS_CardinalityType
  <2> QED BY <2>3, <2>4
<1>3. IsFiniteSet(Found(V)) BY FS_Subset DEF Found
<1>4. Cardinality(Found(W)) = IF Calc(sym, a) = puzzle.value THEN Cardinality(Found(V)) + 1
                              ELSE Cardinality(Found(V))
  <2>1. CASE Calc(sym, a) = puzzle.value
    <3>1. Found(W) = Found(V) \union {<<a, q>>} /\ <<a, q>> \notin Found(V) BY <2>1 DEF Found
    <3> QED BY <1>3, <2>1, <3>1, FS_AddElement
  <2>2. CASE Calc(sym, a) # puzzle.value
    <3>1. Found(W) = Found(V) BY <2>2 DEF Found
    <3> QED BY <2>2, <3>1
  <2> QED BY <2>1, <2>2
<1> QED BY <1>1, <1>2, <1>4

LEMMA PlacedInit == OInit => PlacedInv
<1> SUFFICES ASSUME OInit, puzzle.prog # "95" PROVE PlacedInv BY DEF PlacedInv
<1> DEFINE root == [op |-> Pattern, pos |-> 0, left |-> puzzle.budget]
<1>1. /\ puzzle \in Puzzles /\ sym = strinit(puzzle.str).sym /\ loops = <<>> /\ todo = <<root>>
      /\ place = 0 /\ res = 0 /\ seen = SetToBag({})
  BY DEF OInit, Pattern, EmptyBag
<1>2. puzzle.str \in Seq(STRING) /\ puzzle.budget \in Nat
      /\ (puzzle.prog = "91" => \A i \in DOMAIN puzzle.str : puzzle.str[i] \notin Factors)
  BY <1>1, OpSearchAssumption DEF Operators
<1>3. /\ sym \in Seq(STRING) /\ Pattern \in [1..Len(sym) -> Operators \union {Blank}]
      /\ (puzzle.prog = "91" => Pattern \in [1..Len(sym) -> Signs \union {Blank}])
  BY <1>1, <1>2, StrInit DEF Pattern
<1>4. N \in Nat BY <1>3 DEF N
<1>5. Pattern \in Strings BY <1>3 DEF Strings, Positions, N
<1>6. IsCall(root)
  <2>1. root \in Items BY <1>2, <1>4, <1>5 DEF Items
  <2>2. 0 \in Decided(Pattern) BY <1>4 DEF Decided
  <2>3. Used(Pattern, 0) = 0 BY UsedNone
  <2> QED BY <1>2, <2>1, <2>2, <2>3 DEF IsCall
<1>7. \A n \in Nodes : Under(root, n) BY DEF Under, Nodes
<1> HIDE DEF root
<1>8. todo \in Seq(Items) /\ Len(todo) = 1 /\ todo[1] = root BY <1>1, <1>6 DEF IsCall
<1>9. \A i \in 1..Len(todo) : i = 1 BY <1>8
<1>10. CallsLeft
  <2>1. \A i \in 1..Len(todo) : IsCall(todo[i]) BY <1>6, <1>8, <1>9
  <2>2. \A i, j \in 1..Len(todo) : i = j BY <1>9
  <2> QED BY <1>8, <2>1, <2>2 DEF CallsLeft
<1>11. Visited = {}
  <2>1. 1 \in 1..Len(todo) BY <1>8
  <2> QED BY <1>7, <1>8, <2>1 DEF Visited
<1>12. Cardinality({}) = 0 /\ IsFiniteSet({}) BY FS_EmptySet
<1>13. \A o \in Strings : Times(<<sym, o>>) = Cardinality(VisitedAt(Visited, o))
  <2>1. \A e : Times(e) = 0 BY <1>1 DEF Times, SetToBag
  <2>2. \A o : VisitedAt({}, o) = {} BY DEF VisitedAt
  <2> QED BY <1>11, <1>12, <2>1, <2>2
<1>14. res = Cardinality(Found(Visited))
  <2>1. Found({}) = {} BY DEF Found
  <2> QED BY <1>1, <1>11, <1>12, <2>1
<1> QED BY <1>1, <1>4, <1>10, <1>11, <1>12, <1>13, <1>14 DEF PlacedInv

(* What does not change while the strings are evaluated. *)
LEMMA SamePuzzle ==
  ASSUME puzzle' = puzzle, sym' = sym
  PROVE  /\ N' = N /\ Strings' = Strings /\ Nodes' = Nodes /\ Items' = Items
         /\ \A c : IsCall(c)' <=> IsCall(c)
         /\ \A V, o : VisitedAt(V, o)' = VisitedAt(V, o)
         /\ \A V : Found(V)' = Found(V)
<1>1. N' = N BY DEF N
<1>2. Positions' = Positions /\ Pattern' = Pattern BY <1>1 DEF Positions, Pattern
<1>3. Strings' = Strings BY <1>2 DEF Strings
<1>4. \A o : Decided(o)' = Decided(o) BY <1>1, <1>2 DEF Decided
<1>5. Items' = Items BY <1>1, <1>3 DEF Items
<1>6. Nodes' = Nodes BY <1>1, <1>3, <1>4 DEF Nodes
<1>7. \A c : IsCall(c)' <=> IsCall(c) BY <1>4, <1>5 DEF IsCall
<1>8. \A V, o : VisitedAt(V, o)' = VisitedAt(V, o) BY <1>1 DEF VisitedAt
<1>9. \A V : Found(V)' = Found(V) BY DEF Found
<1> QED BY <1>1, <1>3, <1>5, <1>6, <1>7, <1>8, <1>9

LEMMA PlacedGen == PlacedInv /\ puzzle.prog # "95" /\ GenStrings => PlacedInv'
<1> SUFFICES ASSUME PlacedInv, puzzle.prog # "95", GenStrings PROVE PlacedInv' OBVIOUS
<1> DEFINE c == Head(todo)
           g == Children(c)
           m == Len(g)
           new == <<c.op, c.pos>>
<1>1. /\ todo # <<>> /\ todo' = g \o Tail(todo)
      /\ seen' = seen (+) SetToBag({<<sym, c.op>>})
      /\ res' = (IF Calc(sym, c.op) = puzzle.value THEN res + 1 ELSE res)
      /\ UNCHANGED <<puzzle, sym, op, pos, loops, place>>
  BY DEF GenStrings, Evaluate
<1>2. /\ puzzle \in Puzzles /\ loops = <<>> /\ place = 0 /\ N \in Nat /\ CallsLeft
      /\ IsFiniteSet(Visited)
      /\ \A o \in Strings : Times(<<sym, o>>) = Cardinality(VisitedAt(Visited, o))
      /\ res = Cardinality(Found(Visited))
  BY DEF PlacedInv
<1>3. Placing BY <1>2 DEF Placing
<1>4. /\ todo \in Seq(Items) /\ (\A i \in 1..Len(todo) : IsCall(todo[i]))
      /\ \A i, j \in 1..Len(todo) : i # j => Apart(todo[i], todo[j])
  BY <1>2 DEF CallsLeft
<1>5. c = todo[1] /\ 1 \in 1..Len(todo) /\ Len(todo) \in Nat BY <1>1, <1>4
<1>6. IsCall(c) BY <1>4, <1>5
<1>7. c.op \in Strings /\ c.pos \in 0..N /\ c.pos \in Nat BY <1>2, <1>6 DEF IsCall, Items
<1>8. /\ g \in Seq(Items)
      /\ \A i \in 1..m : IsCall(g[i]) /\ g[i].pos = c.pos + 1 /\ \A k \in 1..c.pos : g[i].op[k] = c.op[k]
      /\ \A i, j \in 1..m : i # j => Apart(g[i], g[j])
      /\ \A n \in Nodes : Under(c, n) <=> n = new \/ \E i \in 1..m : Under(g[i], n)
  BY <1>3, <1>6, ChildrenAre
<1>9. new \in Nodes /\ Under(c, new) BY <1>3, <1>6, NodeIs
<1> HIDE DEF c, g
<1>10. /\ todo' \in Seq(Items) /\ Len(todo') = m + Len(todo) - 1
       /\ \A i \in 1..m : todo'[i] = g[i]
       /\ \A j \in 2..Len(todo) : todo'[m + j - 1] = todo[j]
       /\ \A i \in 1..Len(todo') : i \in 1..m \/ i - m + 1 \in 2..Len(todo)
  <2>1. g \in Seq(Items) /\ todo \in Seq(Items) /\ todo # <<>> /\ todo' \in {g \o Tail(todo)} BY <1>1, <1>4, <1>8
  <2> HIDE DEF m
  <2>2. /\ todo' \in Seq(Items) /\ Len(todo') = Len(g) + Len(todo) - 1
        /\ \A i \in 1..Len(g) : todo'[i] = g[i]
        /\ \A j \in 2..Len(todo) : todo'[Len(g) + j - 1] = todo[j]
        /\ \A i \in 1..Len(todo') : i \in 1..Len(g) \/ i - Len(g) + 1 \in 2..Len(todo)
    BY <2>1, Replaced
  <2> QED BY <2>2 DEF m
<1>11. m \in Nat /\ \A j \in 2..Len(todo) : j \in 1..Len(todo) /\ j # 1 /\ m + j - 1 \in 1..(m + Len(todo) - 1)
  BY <1>5, <1>8
<1>12. \A i \in 1..m : i \in 1..(m + Len(todo) - 1) BY <1>5, <1>11
<1> HIDE DEF m
<1>13. \A i \in 1..Len(todo') : i \in 1..m \/ \E j \in 2..Len(todo) : i = m + j - 1
  <2> TAKE i \in 1..Len(todo')
  <2>1. i \in 1..m \/ i - m + 1 \in 2..Len(todo) BY <1>10
  <2>2. i = m + (i - m + 1) - 1 BY <1>11
  <2> QED BY <2>1, <2>2
\* A call apart from the first is apart from those the first makes.
<1>14. ASSUME NEW i \in 1..m, NEW j \in 2..Len(todo) PROVE Apart(g[i], todo[j]) /\ Apart(todo[j], g[i])
  <2>1. Apart(c, todo[j]) BY <1>4, <1>5, <1>11
  <2>2. PICK k \in 1..c.pos : k <= todo[j].pos /\ c.op[k] # todo[j].op[k] BY <2>1 DEF Apart
  <2>3. g[i].op[k] # todo[j].op[k] BY <1>8, <2>2
  <2>4. todo[j].pos \in Nat /\ g[i].pos = c.pos + 1
    <3>1. IsCall(todo[j]) BY <1>4, <1>11
    <3>2. todo[j].pos \in 0..N BY <3>1 DEF IsCall, Items
    <3> QED BY <1>2, <1>8, <3>2
  <2>5. k \in 1..g[i].pos /\ k <= todo[j].pos /\ k \in 1..todo[j].pos /\ k <= g[i].pos
    BY <1>7, <2>2, <2>4
  <2> QED BY <2>3, <2>5 DEF Apart
<1>15. ASSUME NEW i \in 1..Len(todo') PROVE IsCall(todo'[i])
  <2>1. CASE i \in 1..m BY <1>8, <1>10, <2>1
  <2>2. CASE i \notin 1..m
    <3>1. PICK j \in 2..Len(todo) : i = m + j - 1 BY <1>13, <2>2
    <3> QED BY <1>4, <1>10, <1>11, <3>1
  <2> QED BY <2>1, <2>2
<1>16. ASSUME NEW i \in 1..Len(todo'), NEW j \in 1..Len(todo'), i # j PROVE Apart(todo'[i], todo'[j])
  <2>1. CASE i \in 1..m /\ j \in 1..m BY <1>8, <1>10, <1>16, <2>1
  <2>2. CASE i \in 1..m /\ j \notin 1..m
    <3>1. PICK k \in 2..Len(todo) : j = m + k - 1 BY <1>13, <2>2
    <3>2. todo'[i] = g[i] /\ todo'[j] = todo[k] BY <1>10, <2>2, <3>1
    <3> QED BY <1>14, <2>2, <3>2
  <2>3. CASE i \notin 1..m /\ j \in 1..m
    <3>1. PICK k \in 2..Len(todo) : i = m + k - 1 BY <1>13, <2>3
    <3>2. todo'[j] = g[j] /\ todo'[i] = todo[k] BY <1>10, <2>3, <3>1
    <3> QED BY <1>14, <2>3, <3>2
  <2>4. CASE i \notin 1..m /\ j \notin 1..m
    <3>1. PICK k \in 2..Len(todo) : i = m + k - 1 BY <1>13, <2>4
    <3>2. PICK l \in 2..Len(todo) : j = m + l - 1 BY <1>13, <2>4
    <3>3. k # l BY <1>16, <3>1, <3>2
    <3>4. Apart(todo[k], todo[l]) BY <1>4, <1>11, <3>3
    <3> QED BY <1>10, <3>1, <3>2, <3>4
  <2> QED BY <2>1, <2>2, <2>3, <2>4
<1>17. CallsLeft'
  <2>1. Items' = Items /\ \A d : IsCall(d)' <=> IsCall(d) BY <1>1, SamePuzzle
  <2>2. \A i \in 1..Len(todo') : IsCall(todo[i])' BY <1>1, <1>15, <2>1
  <2>3. \A i, j \in 1..Len(todo') : i # j => Apart(todo[i], todo[j])' BY <1>16 DEF Apart
  <2> QED BY <1>10, <2>1, <2>2, <2>3 DEF CallsLeft
\* What is visited now.
<1>18. new \notin Visited BY <1>5, <1>9 DEF Visited
<1>19. Visited' = Visited \union {new}
  <2>1. Visited' = {n \in Nodes : \A i \in 1..Len(todo') : ~ Under(todo'[i], n)}
    <3>1. Nodes' = Nodes BY <1>1, SamePuzzle
    <3>2. \A n, i : Under(todo[i], n)' <=> Under(todo'[i], n) BY DEF Under
    <3> QED BY <3>1, <3>2 DEF Visited
  <2>2. ASSUME NEW n \in Nodes
        PROVE  (\A i \in 1..Len(todo') : ~ Under(todo'[i], n)) <=>
                 (\A i \in 1..m : ~ Under(g[i], n)) /\ (\A j \in 2..Len(todo) : ~ Under(todo[j], n))
    BY <1>10, <1>11, <1>12, <1>13
  <2>3. ASSUME NEW n \in Nodes
        PROVE  (\A i \in 1..Len(todo) : ~ Under(todo[i], n)) <=>
                 ~ Under(c, n) /\ (\A j \in 2..Len(todo) : ~ Under(todo[j], n))
    <3>1. \A i \in 1..Len(todo) : i = 1 \/ i \in 2..Len(todo) BY <1>5
    <3> QED BY <1>5, <1>11, <3>1
  <2>4. \A i \in 1..m : ~ Under(g[i], new) BY <1>7, <1>8 DEF Under
  <2>5. ASSUME NEW j \in 2..Len(todo) PROVE ~ Under(todo[j], new)
    <3>2. Apart(todo[j], c) BY <1>4, <1>5, <1>11
    <3>1. PICK k \in 1..todo[j].pos : k <= c.pos /\ todo[j].op[k] # c.op[k] BY <3>2 DEF Apart
    <3> QED BY <3>1 DEF Under
  <2>6. ASSUME NEW n \in Nodes
        PROVE  (\A i \in 1..Len(todo') : ~ Under(todo'[i], n)) <=>
                 (\A i \in 1..Len(todo) : ~ Under(todo[i], n)) \/ n = new
    BY <1>8, <1>9, <2>2, <2>3, <2>4, <2>5
  <2> QED BY <1>9, <2>1, <2>6 DEF Visited
<1>20. /\ IsFiniteSet(Visited')
       /\ \A o \in Strings : Cardinality(VisitedAt(Visited, o)) \in Nat
       /\ \A o \in Strings : o # c.op =>
            Cardinality(VisitedAt(Visited', o)) = Cardinality(VisitedAt(Visited, o))
       /\ Cardinality(VisitedAt(Visited', c.op)) = Cardinality(VisitedAt(Visited, c.op)) + 1
       /\ Calc(sym, c.op) = puzzle.value => Cardinality(Found(Visited')) = Cardinality(Found(Visited)) + 1
       /\ Calc(sym, c.op) # puzzle.value => Cardinality(Found(Visited')) = Cardinality(Found(Visited))
  <2>1. Visited \in SUBSET Nodes BY DEF Visited
  <2>2. /\ N \in Nat /\ IsFiniteSet(Visited) /\ c.op \in Strings /\ c.pos \in 0..N
        /\ <<c.op, c.pos>> \notin Visited /\ Visited' \in {Visited \union {<<c.op, c.pos>>}}
    BY <1>2, <1>7, <1>18, <1>19
  <2> QED BY <2>1, <2>2, Counts
<1>21. ASSUME NEW o \in Strings PROVE Times(<<sym, o>>)' = Cardinality(VisitedAt(Visited, o))'
  <2>1. Times(<<sym, o>>) \in Nat BY <1>2, <1>20
  <2>2. \A v : Times(v)' = IF v \in DOMAIN seen' THEN seen'[v] ELSE 0 BY DEF Times
  <2>3. \A v : Times(v) \in Nat => Times(v)' = IF v = <<sym, c.op>> THEN Times(v) + 1 ELSE Times(v)
    BY <1>1, <2>2, TimesAdds
  <2>4. Cardinality(VisitedAt(Visited, o))' = Cardinality(VisitedAt(Visited', o))
    BY <1>1, SamePuzzle DEF VisitedAt
  <2>5. (IF <<sym', o>> \in DOMAIN seen' THEN seen'[<<sym', o>>] ELSE 0)
          = IF o = c.op THEN Times(<<sym, o>>) + 1 ELSE Times(<<sym, o>>)
    BY <1>1, <2>1, <2>2, <2>3
  <2> QED BY <1>2, <1>20, <2>4, <2>5 DEF Times
<1>22. res' = Cardinality(Found(Visited))'
  <2>1. Cardinality(Found(Visited))' = Cardinality(Found(Visited')) BY <1>1 DEF Found
  <2> QED BY <1>1, <1>2, <1>20, <2>1
<1>23. Strings' = Strings /\ N' = N BY <1>1, SamePuzzle
<1> QED BY <1>1, <1>2, <1>17, <1>20, <1>21, <1>22, <1>23 DEF PlacedInv

LEMMA PlacedStep == PlacedInv /\ [ONext]_ovars => PlacedInv'
<1> SUFFICES ASSUME PlacedInv, [ONext]_ovars, puzzle'.prog # "95" PROVE PlacedInv' BY DEF PlacedInv
<1>1. puzzle' = puzzle
  BY DEF ONext, GenStrings, Extend, Skip, Back, CheckDiv, Divide, Divided, Finished, ovars
<1>2. puzzle.prog # "95" BY <1>1
<1>3. loops = <<>> /\ place = 0 /\ N \in Nat BY <1>2 DEF PlacedInv
<1>4. ~ Divide BY <1>3 DEF Divide
<1>5. ~ (Extend \/ Skip \/ Back \/ CheckDiv \/ Divided)
  BY <1>2, <1>3 DEF Extend, Skip, Back, CheckDiv, Generating, Divided
<1>6. ASSUME UNCHANGED ovars PROVE PlacedInv'
  <2>1. UNCHANGED <<puzzle, sym, loops, place, todo, seen, res>> BY <1>6 DEF ovars
  <2>2. /\ N' = N /\ Strings' = Strings /\ Nodes' = Nodes /\ Items' = Items
        /\ \A c : IsCall(c)' <=> IsCall(c)
    BY <2>1, SamePuzzle
  <2>3. CallsLeft' <=> CallsLeft
    <3>1. \A i : IsCall(todo[i])' <=> IsCall(todo[i]) BY <2>1, <2>2
    <3>2. \A i, j : Apart(todo[i], todo[j])' <=> Apart(todo[i], todo[j]) BY <2>1 DEF Apart
    <3> QED BY <2>1, <2>2, <3>1, <3>2 DEF CallsLeft
  <2>4. Visited' = Visited BY <2>1, <2>2 DEF Visited, Under
  <2>5. \A o : VisitedAt(Visited, o)' = VisitedAt(Visited, o) BY <2>2, <2>4 DEF VisitedAt
  <2>6. Found(Visited)' = Found(Visited) BY <2>1, <2>4 DEF Found
  <2>7. \A o : Times(<<sym, o>>)' = Times(<<sym, o>>) BY <2>1 DEF Times
  <2> QED BY <2>1, <2>2, <2>3, <2>4, <2>5, <2>6, <2>7 DEF PlacedInv
<1> QED BY <1>2, <1>4, <1>5, <1>6, PlacedGen DEF ONext, Finished

(* gen_strings evaluates every string with at most cnt_oper operators, and  *)
(* as often as it is reached with a different number of places decided;     *)
(* what it counts is the solutions among them.  For every pattern, budget   *)
(* and value, and whatever calc_string answers.                             *)
THEOREM StringsCheckedExactly == OSpec => []CheckedExactly
<1>1. PlacedInv => CheckedExactly
  <2> SUFFICES ASSUME PlacedInv, puzzle.prog # "95", todo = <<>>
               PROVE  /\ \A o \in Strings : Times(<<sym, o>>) = Cardinality(Decided(o))
                      /\ res = Cardinality(UNION {{<<o, p>> : p \in Decided(o)} :
                                                    o \in {v \in Strings : Calc(sym, v) = puzzle.value}})
    BY DEF CheckedExactly, Done
  <2>1. /\ \A o \in Strings : Times(<<sym, o>>) = Cardinality(VisitedAt(Visited, o))
        /\ res = Cardinality(Found(Visited))
    BY DEF PlacedInv
  <2>2. Visited = Nodes
    <3>1. Len(todo) = 0 OBVIOUS
    <3> QED BY <3>1 DEF Visited
  <2>3. \A o \in Strings : VisitedAt(Visited, o) = Decided(o) BY <2>2 DEF VisitedAt, Nodes, Decided
  <2>4. Found(Visited) = UNION {{<<o, p>> : p \in Decided(o)} :
                                  o \in {v \in Strings : Calc(sym, v) = puzzle.value}}
    <3> DEFINE S == {v \in Strings : Calc(sym, v) = puzzle.value}
    <3>1. \A n \in Nodes : \E o \in Strings : \E p \in Decided(o) : n = <<o, p>> BY DEF Nodes
    <3>2. \A o \in Strings : \A p \in Decided(o) : <<o, p>> \in Nodes BY DEF Nodes, Decided
    <3> QED BY <2>2, <3>1, <3>2 DEF Found
  <2> QED BY <2>1, <2>3, <2>4
<1> QED BY <1>1, PlacedInit, PlacedStep, PTL DEF OSpec

-----------------------------------------------------------------------------
(* calc_string.  Whatever holds at 0 and steps on holds everywhere: stated  *)
(* for the set of the numbers at which it holds.                            *)
LEMMA Stepwise ==
  ASSUME NEW S, 0 \in S, \A m \in Nat : m \in S => m + 1 \in S
  PROVE  Nat \subseteq S
<1> SUFFICES ASSUME Nat \ S # {} PROVE FALSE OBVIOUS
<1>1. PICK m \in Nat \ S : \A k \in Nat \ S : ~ (<<k, m>> \in OpToRel(<, Nat))
  BY NatLessThanWellFounded, WFMin
<1>2. m # 0 /\ m - 1 \in Nat OBVIOUS
<1>3. <<m - 1, m>> \in OpToRel(<, Nat) BY <1>2 DEF OpToRel
<1>4. m - 1 \in S BY <1>1, <1>2, <1>3
<1>5. (m - 1) + 1 \in S BY <1>2, <1>4
<1> QED BY <1>2, <1>5

(* A recursive definition has the function it describes: one up to m        *)
(* extends to m + 1.                                                        *)
LEMMA NumberIs ==
  ASSUME NEW n \in Nat, NEW s, Len(s) = n, NEW a \in Nat \ {0}
  PROVE  \A b \in 0..n : Number(s, a)[b] = IF b < a THEN 0 ELSE Number(s, a)[b - 1] * 10 + DigitValue[s[b]]
<1> DEFINE E(g, b) == IF b < a THEN 0 ELSE g[b - 1] * 10 + DigitValue[s[b]]
           S == {m \in Nat : \E g : g = [b \in 0..m |-> E(g, b)]}
<1>1. 0 \in S
  <2> DEFINE g == [b \in 0..0 |-> 0]
  <2>1. \A b \in 0..0 : E(g, b) = 0 OBVIOUS
  <2>2. g = [b \in 0..0 |-> E(g, b)] BY <2>1, Zenon
  <2> HIDE DEF g, E
  <2> QED BY <2>2
<1>2. ASSUME NEW m \in Nat, m \in S PROVE m + 1 \in S
  <2>1. PICK g : g = [b \in 0..m |-> E(g, b)] BY <1>2
  <2> DEFINE h == [b \in 0..(m + 1) |-> IF b <= m THEN g[b] ELSE E(g, b)]
  <2>2. ASSUME NEW b \in 0..(m + 1) PROVE h[b] = E(h, b)
    <3>1. E(h, b) = E(g, b)
      <4>1. b >= a => b - 1 \in 0..m /\ b - 1 <= m OBVIOUS
      <4>2. b >= a => h[b - 1] = g[b - 1] BY <4>1
      <4> HIDE DEF h
      <4> QED BY <4>2
    <3>2. b <= m => g[b] = E(g, b)
      <4>1. b <= m => b \in 0..m OBVIOUS
      <4> HIDE DEF E, h
      <4> QED BY <2>1, <4>1, Zenon
    <3>3. h[b] = IF b <= m THEN g[b] ELSE E(g, b) OBVIOUS
    <3> HIDE DEF E, h
    <3> QED BY <3>1, <3>2, <3>3
  <2>3. h = [b \in 0..(m + 1) |-> E(h, b)]
    <3>1. h = [b \in 0..(m + 1) |-> h[b]] OBVIOUS
    <3> HIDE DEF E, h
    <3> QED BY <2>2, <3>1
  <2> HIDE DEF E, h
  <2> QED BY <2>3
<1> HIDE DEF S, E
<1>3. n \in S BY <1>1, <1>2, Stepwise
<1> DEFINE P(g) == g = [b \in 0..n |-> E(g, b)]
<1>4. \E g : P(g)
  <2>1. n <= n OBVIOUS
  <2> QED BY <1>3, <2>1 DEF S
<1>5. Number(s, a) = CHOOSE g : P(g) BY DEF Number, E
<1>6. Number(s, a) = [b \in 0..n |-> E(Number(s, a), b)]
  <2>1. P(Number(s, a))
    <3> HIDE DEF P
    <3> QED BY <1>4, <1>5
  <2> QED BY <2>1
<1> QED BY <1>6 DEF E

LEMMA ProductIs ==
  ASSUME NEW n \in Nat, NEW s, NEW o, Len(s) = n, \A b \in 1..n : FactorAt(o, b) \in 1..b
  PROVE  /\ Product(s, o)[0] = 0
         /\ \A b \in 1..n : LET a == FactorAt(o, b) v == Number(s, a)[b] left == Product(s, o)[a - 1] IN
              Product(s, o)[b] =
                IF o[a] \notin Factors THEN v
                ELSE IF left = Senseless THEN Senseless
                ELSE IF o[a] = "*" THEN left * v
                ELSE IF Exact(left, v) THEN left \div v ELSE Senseless
<1> DEFINE V(left, b) ==
             IF b = 0 THEN 0
             ELSE LET a == FactorAt(o, b) v == Number(s, a)[b] IN
                  IF o[a] \notin Factors THEN v
                  ELSE IF left = Senseless THEN Senseless
                  ELSE IF o[a] = "*" THEN left * v
                  ELSE IF Exact(left, v) THEN left \div v ELSE Senseless
           E(g, b) == V(g[FactorAt(o, b) - 1], b)
           S == {m \in Nat : m <= n => \E g : g = [b \in 0..m |-> E(g, b)]}
<1>1. 0 \in S
  <2> DEFINE g == [b \in 0..0 |-> 0]
  <2>1. \A b \in 0..0 : E(g, b) = 0 OBVIOUS
  <2>2. g = [b \in 0..0 |-> E(g, b)] BY <2>1, Zenon
  <2> HIDE DEF g, E
  <2> QED BY <2>2
<1> HIDE DEF V
<1>2. ASSUME NEW m \in Nat, m \in S PROVE m + 1 \in S
  <2> SUFFICES ASSUME m + 1 <= n PROVE \E g : g = [b \in 0..(m + 1) |-> E(g, b)] OBVIOUS
  <2>1. PICK g : g = [b \in 0..m |-> E(g, b)]
    <3>1. m <= n OBVIOUS
    <3> HIDE DEF E
    <3> QED BY <1>2, <3>1
  <2> DEFINE h == [b \in 0..(m + 1) |-> IF b <= m THEN g[b] ELSE E(g, b)]
  <2>2. ASSUME NEW b \in 0..(m + 1) PROVE h[b] = E(h, b)
    <3>1. E(h, b) = E(g, b)
      <4>1. CASE b = 0 BY <4>1 DEF V
      <4>2. CASE b # 0
        <5>1. FactorAt(o, b) \in 1..b BY <4>2
        <5>2. FactorAt(o, b) - 1 \in 0..(m + 1) /\ FactorAt(o, b) - 1 <= m BY <5>1
        <5>3. h[FactorAt(o, b) - 1] = g[FactorAt(o, b) - 1] BY <5>2
        <5> HIDE DEF h
        <5> QED BY <5>3
      <4> QED BY <4>1, <4>2
    <3>2. b <= m => g[b] = E(g, b)
      <4>1. b <= m => b \in 0..m OBVIOUS
      <4> HIDE DEF E, h
      <4> QED BY <2>1, <4>1, Zenon
    <3>3. h[b] = IF b <= m THEN g[b] ELSE E(g, b) OBVIOUS
    <3> HIDE DEF E, h
    <3> QED BY <3>1, <3>2, <3>3
  <2>3. h = [b \in 0..(m + 1) |-> E(h, b)]
    <3>1. h = [b \in 0..(m + 1) |-> h[b]] OBVIOUS
    <3> HIDE DEF E, h
    <3> QED BY <2>2, <3>1
  <2> HIDE DEF E, h
  <2> QED BY <2>3
<1> HIDE DEF S, E
<1>3. n \in S BY <1>1, <1>2, Stepwise
<1> DEFINE P(g) == g = [b \in 0..n |-> E(g, b)]
<1>4. \E g : P(g)
  <2>1. n <= n OBVIOUS
  <2> QED BY <1>3, <2>1 DEF S
<1>5. Product(s, o) = CHOOSE g : P(g) BY DEF Product, E, V
<1>6. Product(s, o) = [b \in 0..n |-> E(Product(s, o), b)]
  <2>1. P(Product(s, o))
    <3> HIDE DEF P
    <3> QED BY <1>4, <1>5
  <2> QED BY <2>1
<1>7. 0 \in 0..n /\ \A b \in 1..n : b \in 0..n /\ b # 0 OBVIOUS
<1> QED BY <1>6, <1>7, Zenon DEF E, V

LEMMA SumIs ==
  ASSUME NEW n \in Nat, NEW s, NEW o, Len(s) = n, \A b \in 1..n : TermAt(o, b) \in 1..b
  PROVE  /\ Sum(s, o)[0] = 0
         /\ \A b \in 1..n : LET left == Sum(s, o)[TermAt(o, b) - 1] v == Product(s, o)[b] IN
              Sum(s, o)[b] =
                IF Senseless \in {left, v} THEN Senseless
                ELSE IF o[TermAt(o, b)] = "-" THEN left - v ELSE left + v
<1> DEFINE V(left, b) ==
             IF b = 0 THEN 0
             ELSE LET v == Product(s, o)[b] IN
                  IF Senseless \in {left, v} THEN Senseless
                  ELSE IF o[TermAt(o, b)] = "-" THEN left - v ELSE left + v
           E(g, b) == V(g[TermAt(o, b) - 1], b)
           S == {m \in Nat : m <= n => \E g : g = [b \in 0..m |-> E(g, b)]}
<1>1. 0 \in S
  <2> DEFINE g == [b \in 0..0 |-> 0]
  <2>1. \A b \in 0..0 : E(g, b) = 0 OBVIOUS
  <2>2. g = [b \in 0..0 |-> E(g, b)] BY <2>1, Zenon
  <2> HIDE DEF g, E
  <2> QED BY <2>2
<1> HIDE DEF V
<1>2. ASSUME NEW m \in Nat, m \in S PROVE m + 1 \in S
  <2> SUFFICES ASSUME m + 1 <= n PROVE \E g : g = [b \in 0..(m + 1) |-> E(g, b)] OBVIOUS
  <2>1. PICK g : g = [b \in 0..m |-> E(g, b)]
    <3>1. m <= n OBVIOUS
    <3> HIDE DEF E
    <3> QED BY <1>2, <3>1
  <2> DEFINE h == [b \in 0..(m + 1) |-> IF b <= m THEN g[b] ELSE E(g, b)]
  <2>2. ASSUME NEW b \in 0..(m + 1) PROVE h[b] = E(h, b)
    <3>1. E(h, b) = E(g, b)
      <4>1. CASE b = 0 BY <4>1 DEF V
      <4>2. CASE b # 0
        <5>1. TermAt(o, b) \in 1..b BY <4>2
        <5>2. TermAt(o, b) - 1 \in 0..(m + 1) /\ TermAt(o, b) - 1 <= m BY <5>1
        <5>3. h[TermAt(o, b) - 1] = g[TermAt(o, b) - 1] BY <5>2
        <5> HIDE DEF h
        <5> QED BY <5>3
      <4> QED BY <4>1, <4>2
    <3>2. b <= m => g[b] = E(g, b)
      <4>1. b <= m => b \in 0..m OBVIOUS
      <4> HIDE DEF E, h
      <4> QED BY <2>1, <4>1, Zenon
    <3>3. h[b] = IF b <= m THEN g[b] ELSE E(g, b) OBVIOUS
    <3> HIDE DEF E, h
    <3> QED BY <3>1, <3>2, <3>3
  <2>3. h = [b \in 0..(m + 1) |-> E(h, b)]
    <3>1. h = [b \in 0..(m + 1) |-> h[b]] OBVIOUS
    <3> HIDE DEF E, h
    <3> QED BY <2>2, <3>1
  <2> HIDE DEF E, h
  <2> QED BY <2>3
<1> HIDE DEF S, E
<1>3. n \in S BY <1>1, <1>2, Stepwise
<1> DEFINE P(g) == g = [b \in 0..n |-> E(g, b)]
<1>4. \E g : P(g)
  <2>1. n <= n OBVIOUS
  <2> QED BY <1>3, <2>1 DEF S
<1>5. Sum(s, o) = CHOOSE g : P(g) BY DEF Sum, E, V
<1>6. Sum(s, o) = [b \in 0..n |-> E(Sum(s, o), b)]
  <2>1. P(Sum(s, o))
    <3> HIDE DEF P
    <3> QED BY <1>4, <1>5
  <2> QED BY <2>1
<1>7. 0 \in 0..n /\ \A b \in 1..n : b \in 0..n /\ b # 0 OBVIOUS
<1> QED BY <1>6, <1>7, Zenon DEF E, V

LEMMA LoopIs ==
  ASSUME NEW n \in Nat, NEW s, NEW o, Len(s) = n
  PROVE  /\ Loop(s, o)[0] = LoopStart
         /\ \A i \in 0..(n - 1) : Loop(s, o)[i + 1] = Turn(Loop(s, o)[i], o[i + 1], DigitValue[s[i + 1]])
<1> DEFINE E(g, b) == IF b = 0 THEN LoopStart ELSE Turn(g[b - 1], o[b], DigitValue[s[b]])
           S == {m \in Nat : \E g : g = [b \in 0..m |-> E(g, b)]}
<1>1. 0 \in S
  <2> DEFINE g == [b \in 0..0 |-> LoopStart]
  <2>1. \A b \in 0..0 : E(g, b) = LoopStart OBVIOUS
  <2>2. g = [b \in 0..0 |-> E(g, b)] BY <2>1, Zenon
  <2> HIDE DEF g, E
  <2> QED BY <2>2
<1>2. ASSUME NEW m \in Nat, m \in S PROVE m + 1 \in S
  <2>1. PICK g : g = [b \in 0..m |-> E(g, b)] BY <1>2
  <2> DEFINE h == [b \in 0..(m + 1) |-> IF b <= m THEN g[b] ELSE E(g, b)]
  <2>2. ASSUME NEW b \in 0..(m + 1) PROVE h[b] = E(h, b)
    <3>1. E(h, b) = E(g, b)
      <4>1. b # 0 => b - 1 \in 0..m /\ b - 1 <= m OBVIOUS
      <4>2. b # 0 => h[b - 1] = g[b - 1] BY <4>1
      <4> HIDE DEF h
      <4> QED BY <4>2
    <3>2. b <= m => g[b] = E(g, b)
      <4>1. b <= m => b \in 0..m OBVIOUS
      <4> HIDE DEF E, h
      <4> QED BY <2>1, <4>1, Zenon
    <3>3. h[b] = IF b <= m THEN g[b] ELSE E(g, b) OBVIOUS
    <3> HIDE DEF E, h
    <3> QED BY <3>1, <3>2, <3>3
  <2>3. h = [b \in 0..(m + 1) |-> E(h, b)]
    <3>1. h = [b \in 0..(m + 1) |-> h[b]] OBVIOUS
    <3> HIDE DEF E, h
    <3> QED BY <2>2, <3>1
  <2> HIDE DEF E, h
  <2> QED BY <2>3
<1> HIDE DEF S, E
<1>3. n \in S BY <1>1, <1>2, Stepwise
<1> DEFINE P(g) == g = [b \in 0..n |-> E(g, b)]
<1>4. \E g : P(g)
  <2>1. n <= n OBVIOUS
  <2> QED BY <1>3, <2>1 DEF S
<1>5. Loop(s, o) = CHOOSE g : P(g) BY DEF Loop, E
<1>6. Loop(s, o) = [b \in 0..n |-> E(Loop(s, o), b)]
  <2>1. P(Loop(s, o))
    <3> HIDE DEF P
    <3> QED BY <1>4, <1>5
  <2> QED BY <2>1
<1>7. Loop(s, o)[0] = LoopStart BY <1>6 DEF E
<1>8. ASSUME NEW i \in 0..(n - 1)
      PROVE  Loop(s, o)[i + 1] = Turn(Loop(s, o)[i], o[i + 1], DigitValue[s[i + 1]])
  <2>1. i + 1 \in 0..n /\ i + 1 # 0 /\ (i + 1) - 1 = i OBVIOUS
  <2> QED BY <1>6, <2>1 DEF E
<1> QED BY <1>7, <1>8

-----------------------------------------------------------------------------
LEMMA LastPlace ==
  ASSUME NEW b \in Nat \ {0}, NEW T \in SUBSET (1..b), NEW m, m = Max({1} \union T)
  PROVE  m \in 1..b /\ (m = 1 \/ m \in T) /\ \A k \in T : k <= m
<1> DEFINE A == {1} \union T
           B == {b - k : k \in A}
<1>1. A # {} /\ A \in SUBSET (1..b) OBVIOUS
<1>2. B \in SUBSET Nat /\ B # {} BY <1>1
<1>3. PICK j \in B : \A k \in B : j <= k
  <2>1. PICK j \in B : \A k \in B : ~ (<<k, j>> \in OpToRel(<, Nat))
    <3> HIDE DEF B
    <3> QED BY <1>2, NatLessThanWellFounded, WFMin
  <2>2. ASSUME NEW k \in B PROVE j <= k
    <3>1. k \in Nat /\ j \in Nat BY <1>2
    <3>2. ~(k < j) BY <2>1, <3>1 DEF OpToRel
    <3> QED BY <3>1, <3>2
  <2> QED BY <2>2
<1>4. PICK i \in A : j = b - i OBVIOUS
<1>5. \A k \in A : i >= k
  <2> TAKE k \in A
  <2>1. b - k \in B OBVIOUS
  <2>2. b - i <= b - k BY <1>3, <1>4, <2>1
  <2>3. i \in 1..b /\ k \in 1..b BY <1>1
  <2> QED BY <2>2, <2>3
<1> HIDE DEF A
<1>6. m \in A /\ \A k \in A : m >= k BY <1>5 DEF Max, A
<1>7. \A k \in T : k \in A /\ k \in Int BY DEF A
<1> QED BY <1>1, <1>6, <1>7 DEF A

LEMMA FactorPlace ==
  ASSUME NEW o, NEW b \in Nat \ {0}
  PROVE  /\ FactorAt(o, b) \in 1..b
         /\ FactorAt(o, b) = 1 \/ o[FactorAt(o, b)] # Blank
         /\ \A k \in (FactorAt(o, b) + 1)..b : o[k] = Blank
<1> DEFINE T == {i \in 1..b : o[i] # Blank}
<1>1. FactorAt(o, b) = Max({1} \union T) BY DEF FactorAt
<1>2. T \in SUBSET (1..b) OBVIOUS
<1>3. /\ FactorAt(o, b) \in 1..b /\ (FactorAt(o, b) = 1 \/ FactorAt(o, b) \in T)
      /\ \A k \in T : k <= FactorAt(o, b)
  <2> HIDE DEF T
  <2> QED BY <1>1, <1>2, LastPlace
<1>4. ASSUME NEW k \in (FactorAt(o, b) + 1)..b PROVE o[k] = Blank
  <2>1. k \in 1..b /\ ~(k <= FactorAt(o, b)) BY <1>3
  <2> QED BY <1>3, <2>1
<1> QED BY <1>3, <1>4

LEMMA FactorPlaceNext ==
  ASSUME NEW o
  PROVE  /\ FactorAt(o, 1) = 1
         /\ \A b \in Nat \ {0} : FactorAt(o, b + 1) = IF o[b + 1] # Blank THEN b + 1 ELSE FactorAt(o, b)
<1>1. FactorAt(o, 1) = 1
  <2>1. FactorAt(o, 1) \in 1..1 BY FactorPlace
  <2> QED BY <2>1
<1>2. ASSUME NEW b \in Nat \ {0}, o[b + 1] # Blank PROVE FactorAt(o, b + 1) = b + 1
  <2>1. b + 1 \in Nat \ {0} OBVIOUS
  <2>2. /\ FactorAt(o, b + 1) \in 1..(b + 1)
        /\ \A k \in (FactorAt(o, b + 1) + 1)..(b + 1) : o[k] = Blank
    BY <2>1, FactorPlace
  <2>3. b + 1 \notin (FactorAt(o, b + 1) + 1)..(b + 1) BY <1>2, <2>2
  <2> QED BY <2>2, <2>3
<1>3. ASSUME NEW b \in Nat \ {0}, o[b + 1] = Blank PROVE FactorAt(o, b + 1) = FactorAt(o, b)
  <2>1. \A i : i \in 1..(b + 1) <=> i \in 1..b \/ i = b + 1 OBVIOUS
  <2>2. {i \in 1..(b + 1) : o[i] # Blank} = {i \in 1..b : o[i] # Blank} BY <1>3, <2>1
  <2> QED BY <2>2 DEF FactorAt
<1> QED BY <1>1, <1>2, <1>3

LEMMA TermPlace ==
  ASSUME NEW o, NEW b \in Nat \ {0}
  PROVE  /\ TermAt(o, b) \in 1..b
         /\ \A k \in (TermAt(o, b) + 1)..b : o[k] \notin Signs
<1> DEFINE T == {i \in 1..b : o[i] \in Signs}
<1>1. TermAt(o, b) = Max({1} \union T) BY DEF TermAt
<1>2. T \in SUBSET (1..b) OBVIOUS
<1>3. TermAt(o, b) \in 1..b /\ \A k \in T : k <= TermAt(o, b)
  <2> HIDE DEF T
  <2> QED BY <1>1, <1>2, LastPlace
<1>4. ASSUME NEW k \in (TermAt(o, b) + 1)..b PROVE o[k] \notin Signs
  <2>1. k \in 1..b /\ ~(k <= TermAt(o, b)) BY <1>3
  <2> QED BY <1>3, <2>1
<1> QED BY <1>3, <1>4

LEMMA TermPlaceNext ==
  ASSUME NEW o
  PROVE  /\ TermAt(o, 1) = 1
         /\ \A b \in Nat \ {0} : TermAt(o, b + 1) = IF o[b + 1] \in Signs THEN b + 1 ELSE TermAt(o, b)
<1>1. TermAt(o, 1) = 1
  <2>1. TermAt(o, 1) \in 1..1 BY TermPlace
  <2> QED BY <2>1
<1>2. ASSUME NEW b \in Nat \ {0}, o[b + 1] \in Signs PROVE TermAt(o, b + 1) = b + 1
  <2>1. b + 1 \in Nat \ {0} OBVIOUS
  <2>2. /\ TermAt(o, b + 1) \in 1..(b + 1)
        /\ \A k \in (TermAt(o, b + 1) + 1)..(b + 1) : o[k] \notin Signs
    BY <2>1, TermPlace
  <2>3. b + 1 \notin (TermAt(o, b + 1) + 1)..(b + 1) BY <1>2, <2>2
  <2> QED BY <2>2, <2>3
<1>3. ASSUME NEW b \in Nat \ {0}, o[b + 1] \notin Signs PROVE TermAt(o, b + 1) = TermAt(o, b)
  <2>1. \A i : i \in 1..(b + 1) <=> i \in 1..b \/ i = b + 1 OBVIOUS
  <2>2. {i \in 1..(b + 1) : o[i] \in Signs} = {i \in 1..b : o[i] \in Signs} BY <1>3, <2>1
  <2> QED BY <2>2 DEF TermAt
<1> QED BY <1>1, <1>2, <1>3

-----------------------------------------------------------------------------
(* A string of n digits with operators, and the values of its parts.        *)
Expression(n, s, o) ==
  /\ n \in Nat /\ Len(s) = n
  /\ s \in [1..n -> DOMAIN DigitValue] /\ o \in [1..n -> Operators \union {Blank}]

LEMMA DigitValueType == \A c \in DOMAIN DigitValue : DigitValue[c] \in Nat
<1> SUFFICES ASSUME NEW c \in DOMAIN DigitValue PROVE DigitValue[c] \in Nat OBVIOUS
<1>1. c \in {Digits[k] : k \in DOMAIN Digits} BY DEF DigitValue
<1>2. DigitValue[c] = (CHOOSE k \in DOMAIN Digits : Digits[k] = c) - 1 BY <1>1 DEF DigitValue
<1>3. DOMAIN Digits = 1..10 BY DEF Digits
<1>4. PICK k : k = CHOOSE m \in DOMAIN Digits : Digits[m] = c OBVIOUS
<1>5. k \in 1..10 BY <1>1, <1>3, <1>4
<1>6. DigitValue[c] = k - 1 BY <1>2, <1>4
<1> QED BY <1>5, <1>6

LEMMA NumberType ==
  ASSUME NEW n, NEW s, NEW o, Expression(n, s, o), NEW a \in Nat \ {0}
  PROVE  \A b \in 0..n : Number(s, a)[b] \in Nat
<1>1. n \in Nat /\ Len(s) = n /\ \A b \in 1..n : DigitValue[s[b]] \in Nat
  BY DigitValueType DEF Expression
<1>2. \A b \in 0..n : Number(s, a)[b] = IF b < a THEN 0 ELSE Number(s, a)[b - 1] * 10 + DigitValue[s[b]]
  BY <1>1, NumberIs
<1> DEFINE S == {m \in Nat : m <= n => Number(s, a)[m] \in Nat}
<1>3. 0 \in S
  <2>1. 0 \in 0..n /\ 0 < a BY <1>1
  <2> QED BY <1>2, <2>1
<1>4. ASSUME NEW m \in Nat, m \in S PROVE m + 1 \in S
  <2> SUFFICES ASSUME m + 1 <= n PROVE Number(s, a)[m + 1] \in Nat OBVIOUS
  <2>1. Number(s, a)[m] \in Nat BY <1>1, <1>4
  <2>2. m + 1 \in 0..n /\ m + 1 \in 1..n /\ (m + 1) - 1 = m BY <1>1
  <2>3. DigitValue[s[m + 1]] \in Nat BY <1>1, <2>2
  <2>4. Number(s, a)[m + 1] = IF m + 1 < a THEN 0 ELSE Number(s, a)[m] * 10 + DigitValue[s[m + 1]]
    BY <1>2, <2>2
  <2> QED BY <2>1, <2>3, <2>4
<1> HIDE DEF S
<1>5. Nat \subseteq S BY <1>3, <1>4, Stepwise
<1>6. \A b \in 0..n : b \in Nat /\ b <= n BY <1>1
<1> QED BY <1>5, <1>6 DEF S

LEMMA ProductType ==
  ASSUME NEW n, NEW s, NEW o, Expression(n, s, o)
  PROVE  \A b \in 0..n : Product(s, o)[b] \in Int \union {Senseless}
<1>1. n \in Nat /\ Len(s) = n BY DEF Expression
<1>2. \A b \in 1..n : FactorAt(o, b) \in 1..b BY <1>1, FactorPlace
<1> DEFINE V == Int \union {Senseless}
           S == {m \in Nat : m <= n => \A b \in 0..m : Product(s, o)[b] \in V}
<1>3. 0 \in S BY <1>1, <1>2, ProductIs
<1>4. ASSUME NEW m \in Nat, m \in S PROVE m + 1 \in S
  <2> SUFFICES ASSUME m + 1 <= n PROVE Product(s, o)[m + 1] \in V
    <3>1. \A b : b \in 0..(m + 1) <=> b \in 0..m \/ b = m + 1 OBVIOUS
    <3>2. m + 1 <= n => m <= n BY <1>1
    <3> HIDE DEF V
    <3> QED BY <1>4, <3>1, <3>2
  <2>1. \A b \in 0..m : Product(s, o)[b] \in V BY <1>1, <1>4
  <2> DEFINE a == FactorAt(o, m + 1)
             v == Number(s, a)[m + 1]
             left == Product(s, o)[a - 1]
  <2>2. m + 1 \in 1..n /\ m + 1 \in 0..n BY <1>1
  <2>3. Product(s, o)[m + 1] = IF o[a] \notin Factors THEN v
                               ELSE IF left = Senseless THEN Senseless
                               ELSE IF o[a] = "*" THEN left * v
                               ELSE IF Exact(left, v) THEN left \div v ELSE Senseless
    BY <1>1, <1>2, <2>2, ProductIs
  <2>4. a \in 1..(m + 1) BY <1>2, <2>2
  <2>5. left \in V
    <3>1. a - 1 \in 0..m BY <2>4
    <3> QED BY <2>1, <3>1
  <2>6. v \in Nat
    <3>1. a \in Nat \ {0} BY <2>4
    <3> HIDE DEF a
    <3> QED BY <2>2, <3>1, NumberType
  <2> HIDE DEF a, v, left
  <2>7. left # Senseless => left \in Int /\ left * v \in Int BY <2>5, <2>6
  <2>8. left # Senseless /\ Exact(left, v) => left \div v \in Int BY <2>6, <2>7 DEF Exact
  <2> QED BY <2>3, <2>6, <2>7, <2>8
<1> HIDE DEF S
<1>5. Nat \subseteq S BY <1>3, <1>4, Stepwise
<1>6. n \in Nat /\ n <= n BY <1>1
<1> QED BY <1>5, <1>6 DEF S

LEMMA SumType ==
  ASSUME NEW n, NEW s, NEW o, Expression(n, s, o)
  PROVE  \A b \in 0..n : Sum(s, o)[b] \in Int \union {Senseless}
<1>1. n \in Nat /\ Len(s) = n BY DEF Expression
<1>2. \A b \in 1..n : TermAt(o, b) \in 1..b BY <1>1, TermPlace
<1> DEFINE V == Int \union {Senseless}
           S == {m \in Nat : m <= n => \A b \in 0..m : Sum(s, o)[b] \in V}
<1>3. 0 \in S BY <1>1, <1>2, SumIs
<1>4. ASSUME NEW m \in Nat, m \in S PROVE m + 1 \in S
  <2> SUFFICES ASSUME m + 1 <= n PROVE Sum(s, o)[m + 1] \in V
    <3>1. \A b : b \in 0..(m + 1) <=> b \in 0..m \/ b = m + 1 OBVIOUS
    <3>2. m + 1 <= n => m <= n BY <1>1
    <3> HIDE DEF V
    <3> QED BY <1>4, <3>1, <3>2
  <2>1. \A b \in 0..m : Sum(s, o)[b] \in V BY <1>1, <1>4
  <2> DEFINE a == TermAt(o, m + 1)
             v == Product(s, o)[m + 1]
             left == Sum(s, o)[a - 1]
  <2>2. m + 1 \in 1..n /\ m + 1 \in 0..n BY <1>1
  <2>3. Sum(s, o)[m + 1] = IF Senseless \in {left, v} THEN Senseless
                           ELSE IF o[a] = "-" THEN left - v ELSE left + v
    BY <1>1, <1>2, <2>2, SumIs
  <2>4. a \in 1..(m + 1) BY <1>2, <2>2
  <2>5. left \in V
    <3>1. a - 1 \in 0..m BY <2>4
    <3> QED BY <2>1, <3>1
  <2>6. v \in V BY <2>2, ProductType
  <2> HIDE DEF a, v, left
  <2> QED BY <2>3, <2>5, <2>6
<1> HIDE DEF S
<1>5. Nat \subseteq S BY <1>3, <1>4, Stepwise
<1>6. n \in Nat /\ n <= n BY <1>1
<1> QED BY <1>5, <1>6 DEF S

-----------------------------------------------------------------------------
(* The loop of calc_string before it has met a senseless part: the sum of   *)
(* the terms before the last one, the product of the factors before the     *)
(* last one, and the number so far.                                         *)
Running == {"no"}
Answered == {"undefined"}
Pendings == Factors \union {Blank}
CalcStates ==
  [sum : Int, summul : Int, current : Int, op : Signs, opmul : Pendings, stop : Running]
LostStates ==
  [sum : Int, summul : Int, current : Int, op : Signs, opmul : Pendings, stop : Answered]

Good(s, o, i) ==
  LET r == Loop(s, o)[i] a == FactorAt(o, i) t == TermAt(o, i) IN
  /\ r \in CalcStates
  /\ i = 0 => r = LoopStart
  /\ i > 0 => /\ r.op = IF o[t] = "-" THEN "-" ELSE "+"
              /\ r.current = Number(s, a)[i] /\ r.sum = Sum(s, o)[t - 1]
              /\ o[a] \in Factors => r.opmul = o[a] /\ r.summul = Product(s, o)[a - 1]
              /\ o[a] \notin Factors => r.opmul = Blank

(* It has met one: the last product or the sum before it is senseless, and  *)
(* that was found out, or is one of the divisions that are not checked.     *)
Exposed(o) == \E a \in DOMAIN o : Unchecked(o, a)
Lost(s, o, i) ==
  /\ i > 0
  /\ \/ o[FactorAt(o, i)] \in Factors /\ Product(s, o)[FactorAt(o, i) - 1] = Senseless
     \/ Sum(s, o)[TermAt(o, i) - 1] = Senseless
  /\ Loop(s, o)[i] \in LostStates \/ Exposed(o)

(* What the pending factor makes of the current number.                     *)
Applied(r) ==
  IF ~Pending(r) THEN r.current
  ELSE IF r.opmul = "*" THEN r.summul * r.current
  ELSE IF Exact(r.summul, r.current) THEN r.summul \div r.current ELSE Senseless

LEMMA GoodMeans ==
  ASSUME NEW n, NEW s, NEW o, Expression(n, s, o), NEW i \in 0..n, Good(s, o, i),
         NEW r, r = Loop(s, o)[i]
  PROVE  /\ r \in CalcStates /\ r.current \in Nat
         /\ Product(s, o)[i] = Applied(r) /\ Applied(r) \in Int \union {Senseless}
         /\ Sum(s, o)[i] = IF Applied(r) = Senseless THEN Senseless
                           ELSE IF r.op = "+" THEN r.sum + Applied(r) ELSE r.sum - Applied(r)
<1>1. n \in Nat /\ Len(s) = n /\ i \in Nat BY DEF Expression
<1>2. \A b \in 1..n : FactorAt(o, b) \in 1..b /\ TermAt(o, b) \in 1..b BY <1>1, FactorPlace, TermPlace
<1>3. r \in CalcStates BY DEF Good
<1>4. Product(s, o)[i] \in Int \union {Senseless} BY ProductType
<1>5. Senseless \notin Int BY OpSymAssumption
<1>6. CASE i = 0
  <2>1. r = LoopStart BY <1>6 DEF Good
  <2>2. r.current = 0 /\ ~Pending(r) /\ r.op = "+" /\ r.sum = 0
    <3>1. r.current = 0 /\ r.opmul = Blank /\ r.op = "+" /\ r.sum = 0 BY <2>1 DEF LoopStart
    <3> QED BY <3>1 DEF Pending, Factors, Blank
  <2>3. Applied(r) = 0 BY <2>2 DEF Applied
  <2>4. Product(s, o)[i] = 0 /\ Sum(s, o)[i] = 0
    <3>1. Product(s, o)[0] = 0 BY <1>1, <1>2, ProductIs
    <3>2. Sum(s, o)[0] = 0 BY <1>1, <1>2, SumIs
    <3> QED BY <1>6, <3>1, <3>2
  <2> QED BY <1>3, <1>5, <2>2, <2>3, <2>4
<1>7. CASE i > 0
  <2> DEFINE a == FactorAt(o, i)
             t == TermAt(o, i)
             v == Number(s, a)[i]
             left == Product(s, o)[a - 1]
  <2>1. i \in 1..n BY <1>7
  <2>2. /\ r.op = IF o[t] = "-" THEN "-" ELSE "+"
        /\ r.current = v /\ r.sum = Sum(s, o)[t - 1]
        /\ o[a] \in Factors => r.opmul = o[a] /\ r.summul = left
        /\ o[a] \notin Factors => r.opmul = Blank
    BY <1>7 DEF Good
  <2>3. Product(s, o)[i] = IF o[a] \notin Factors THEN v
                           ELSE IF left = Senseless THEN Senseless
                           ELSE IF o[a] = "*" THEN left * v
                           ELSE IF Exact(left, v) THEN left \div v ELSE Senseless
    BY <1>1, <1>2, <2>1, ProductIs
  <2>4. Sum(s, o)[i] = IF Senseless \in {Sum(s, o)[t - 1], Product(s, o)[i]} THEN Senseless
                       ELSE IF o[t] = "-" THEN Sum(s, o)[t - 1] - Product(s, o)[i]
                       ELSE Sum(s, o)[t - 1] + Product(s, o)[i]
    BY <1>1, <1>2, <2>1, SumIs
  <2>5. v \in Nat
    <3>1. a \in Nat \ {0} BY <1>2, <2>1
    <3> HIDE DEF a
    <3> QED BY <3>1, NumberType
  <2> HIDE DEF a, t, v, left
  <2>6. Pending(r) <=> o[a] \in Factors BY <2>2 DEF Pending, Factors, Blank
  <2>7. r.summul \in Int /\ r.sum \in Int BY <1>3 DEF CalcStates
  <2>8. Product(s, o)[i] = Applied(r)
    <3>1. CASE o[a] \notin Factors BY <2>2, <2>3, <2>6, <3>1 DEF Applied
    <3>2. CASE o[a] \in Factors
      <4>1. left # Senseless /\ r.opmul = o[a] /\ r.summul = left BY <1>5, <2>2, <2>7, <3>2
      <4>2. Product(s, o)[i] = IF r.opmul = "*" THEN r.summul * r.current
                               ELSE IF Exact(r.summul, r.current) THEN r.summul \div r.current
                               ELSE Senseless
        BY <2>2, <2>3, <3>2, <4>1
      <4> QED BY <2>6, <3>2, <4>2 DEF Applied
    <3> QED BY <3>1, <3>2
  <2>9. Sum(s, o)[i] = IF Applied(r) = Senseless THEN Senseless
                       ELSE IF r.op = "+" THEN r.sum + Applied(r) ELSE r.sum - Applied(r)
    <3>1. r.op = "+" <=> o[t] # "-" BY <2>2
    <3>2. Sum(s, o)[t - 1] = r.sum /\ r.sum # Senseless BY <1>5, <2>2, <2>7
    <3>3. Senseless \in {Sum(s, o)[t - 1], Product(s, o)[i]} <=> Applied(r) = Senseless
      BY <2>8, <3>2
    <3> QED BY <2>4, <2>8, <3>1, <3>2, <3>3
  <2> QED BY <1>3, <1>4, <2>2, <2>5, <2>8, <2>9
<1> QED BY <1>1, <1>6, <1>7

LEMMA MultiplyIs ==
  ASSUME NEW r \in CalcStates, r.current \in Nat, Pending(r)
  PROVE  /\ Applied(r) # Senseless => /\ Multiply(r) = [r EXCEPT !.summul = Applied(r)]
                                      /\ MultiplyBlindly(r) = [r EXCEPT !.summul = Applied(r)]
         /\ Applied(r) = Senseless => r.opmul = "/" /\ Multiply(r) = [r EXCEPT !.stop = "undefined"]
<1>1. r.summul \in Int /\ r.opmul \in {"*", "/"} /\ r.current \in Nat
  BY DEF CalcStates, Pendings, Pending, Factors
<1>2. Senseless \notin Int BY OpSymAssumption
<1>3. CASE r.opmul = "*"
  <2>1. Applied(r) = r.summul * r.current /\ Applied(r) \in Int BY <1>1, <1>3 DEF Applied
  <2> QED BY <1>2, <1>3, <2>1 DEF Multiply, MultiplyBlindly
<1>4. CASE r.opmul = "/"
  <2>1. r.opmul # "*" BY <1>4
  <2>2. CASE Exact(r.summul, r.current)
    <3>1. Applied(r) = r.summul \div r.current BY <2>1, <2>2 DEF Applied
    <3>2. r.current # 0 /\ r.summul % r.current = 0 BY <2>2 DEF Exact
    <3>3. Applied(r) \in Int BY <1>1, <3>1, <3>2
    <3>4. ~(r.current = 0 \/ r.summul % r.current > 0) BY <3>2
    <3> QED BY <1>2, <2>1, <3>1, <3>2, <3>3, <3>4 DEF Multiply, MultiplyBlindly
  <2>3. CASE ~Exact(r.summul, r.current)
    <3>1. Applied(r) = Senseless BY <2>1, <2>3 DEF Applied
    <3>2. r.current = 0 \/ r.summul % r.current # 0 BY <2>3 DEF Exact
    <3>3. r.current # 0 => r.summul % r.current >= 0 /\ r.summul % r.current \in Int BY <1>1
    <3>4. r.current = 0 \/ r.summul % r.current > 0 BY <3>2, <3>3
    <3> QED BY <1>4, <2>1, <3>1, <3>4 DEF Multiply
  <2> QED BY <2>2, <2>3
<1> QED BY <1>1, <1>3, <1>4

LEMMA StateUpdated ==
  ASSUME NEW u \in CalcStates
  PROVE  /\ \A a, b \in Int : \A c \in Signs : [u EXCEPT !.sum = a, !.op = c, !.current = b] \in CalcStates
         /\ \A b \in Int : \A e \in Pendings : [u EXCEPT !.opmul = e, !.current = b] \in CalcStates
         /\ \A a, b \in Int : \A e \in Pendings :
              [u EXCEPT !.current = a, !.summul = b, !.opmul = e] \in CalcStates
<1>1. ASSUME NEW a \in Int, NEW b \in Int, NEW c \in Signs
      PROVE  [u EXCEPT !.sum = a, !.op = c, !.current = b] \in CalcStates
  BY DEF CalcStates
<1>2. ASSUME NEW b \in Int, NEW e \in Pendings
      PROVE  [u EXCEPT !.opmul = e, !.current = b] \in CalcStates
  BY DEF CalcStates
<1>3. ASSUME NEW a \in Int, NEW b \in Int, NEW e \in Pendings
      PROVE  [u EXCEPT !.current = a, !.summul = b, !.opmul = e] \in CalcStates
  BY DEF CalcStates
<1> QED BY <1>1, <1>2, <1>3

LEMMA AtSignIs ==
  ASSUME NEW r \in CalcStates, r.current \in Nat, Applied(r) \in Int, NEW c \in Signs, NEW d \in Int,
         NEW q, q = AtSign(r, c, d)
  PROVE  /\ q \in CalcStates /\ q.op = c /\ q.current = d /\ q.opmul = Blank
         /\ q.sum = IF r.op = "+" THEN r.sum + Applied(r) ELSE r.sum - Applied(r)
<1>1. Applied(r) # Senseless BY OpSymAssumption
<1>2. PICK m \in Int : m = Applied(r) OBVIOUS
<1>3. /\ r.sum \in Int /\ r.summul \in Int /\ r.op \in Signs
      /\ r.opmul \in Factors \union {Blank}
  BY DEF CalcStates, Pendings
<1>4. PICK u : /\ u \in CalcStates /\ u.sum = r.sum /\ u.op = r.op /\ u.current = m /\ u.opmul = Blank
               /\ q = [u EXCEPT !.sum = Plus(u), !.op = c, !.current = d]
  <2>1. CASE Pending(r)
    <3> DEFINE t == [r EXCEPT !.summul = m]
               u == [t EXCEPT !.current = t.summul, !.summul = 1, !.opmul = Blank]
    <3>1. MultiplyBlindly(r) = t BY <1>1, <1>2, <2>1, MultiplyIs
    <3>2. q = [u EXCEPT !.sum = Plus(u), !.op = c, !.current = d]
      <4> HIDE DEF t
      <4> QED BY <2>1, <3>1 DEF AtSign
    <3>3. u \in CalcStates /\ u.sum = r.sum /\ u.op = r.op /\ u.current = m /\ u.opmul = Blank
      <4>1. t \in CalcStates /\ t.sum = r.sum /\ t.op = r.op /\ t.summul = m BY DEF CalcStates
      <4> HIDE DEF t
      <4>2. u \in CalcStates
        <5>1. Blank \in Pendings BY DEF Pendings
        <5>2. t.summul \in Int /\ 1 \in Int BY <4>1
        <5> QED BY <4>1, <5>1, <5>2, StateUpdated
      <4>3. u.sum = t.sum /\ u.op = t.op /\ u.current = t.summul /\ u.opmul = Blank
        BY <4>1 DEF CalcStates
      <4> QED BY <4>1, <4>2, <4>3
    <3> HIDE DEF u
    <3> QED BY <3>2, <3>3
  <2>2. CASE ~Pending(r)
    <3>1. r.current = m BY <1>2, <2>2 DEF Applied
    <3>2. r.opmul = Blank BY <1>3, <2>2 DEF Pending
    <3>3. q = [r EXCEPT !.sum = Plus(r), !.op = c, !.current = d] BY <2>2 DEF AtSign
    <3> QED BY <3>1, <3>2, <3>3
  <2> QED BY <2>1, <2>2
<1>5. Plus(u) = IF r.op = "+" THEN r.sum + m ELSE r.sum - m BY <1>4 DEF Plus
<1>6. Plus(u) \in Int BY <1>3, <1>5
<1>7. /\ q \in CalcStates /\ q.op = c /\ q.current = d /\ q.opmul = u.opmul /\ q.sum = Plus(u)
  <2> DEFINE p == Plus(u)
  <2>1. p \in Int /\ u \in CalcStates /\ q = [u EXCEPT !.sum = p, !.op = c, !.current = d] BY <1>4, <1>6
  <2> HIDE DEF p
  <2> DEFINE w == [u EXCEPT !.sum = p, !.op = c, !.current = d]
  <2>2. w \in CalcStates /\ w.op = c /\ w.current = d /\ w.opmul = u.opmul /\ w.sum = p
    <3>1. u \in CalcStates /\ p \in Int BY <2>1
    <3>2. w \in CalcStates BY <3>1, StateUpdated
    <3>3. w.op = c /\ w.current = d /\ w.opmul = u.opmul /\ w.sum = p BY <3>1 DEF CalcStates
    <3> QED BY <3>2, <3>3
  <2>3. q = w BY <2>1
  <2> HIDE DEF w
  <2> QED BY <2>2, <2>3 DEF p
<1> QED BY <1>2, <1>4, <1>5, <1>7

LEMMA AtFactorIs ==
  ASSUME NEW r \in CalcStates, r.current \in Nat, Applied(r) \in Int, NEW c \in Factors, NEW d \in Int,
         NEW q, q = AtFactor(r, c, d)
  PROVE  /\ q \in CalcStates /\ q.op = r.op /\ q.current = d /\ q.opmul = c
         /\ q.sum = r.sum /\ q.summul = Applied(r)
<1>1. Applied(r) # Senseless BY OpSymAssumption
<1>2. PICK m \in Int : m = Applied(r) OBVIOUS
<1>3. q = [[r EXCEPT !.summul = m] EXCEPT !.opmul = c, !.current = d]
  <2>1. CASE Pending(r)
    <3>1. Multiply(r) = [r EXCEPT !.summul = m] BY <1>1, <1>2, <2>1, MultiplyIs
    <3> QED BY <2>1, <3>1 DEF AtFactor
  <2>2. CASE ~Pending(r)
    <3>1. r.current = m BY <1>2, <2>2 DEF Applied
    <3> QED BY <2>2, <3>1 DEF AtFactor
  <2> QED BY <2>1, <2>2
<1> DEFINE t == [r EXCEPT !.summul = m]
           w == [t EXCEPT !.opmul = c, !.current = d]
<1>4. t \in CalcStates /\ t.sum = r.sum /\ t.op = r.op /\ t.summul = m BY DEF CalcStates
<1>5. /\ w \in CalcStates /\ w.op = r.op /\ w.current = d /\ w.opmul = c
      /\ w.sum = r.sum /\ w.summul = m
  <2> HIDE DEF t
  <2>1. w \in CalcStates
    <3>1. c \in Pendings BY DEF Pendings
    <3> QED BY <1>4, <3>1, StateUpdated
  <2>2. w.op = t.op /\ w.current = d /\ w.opmul = c /\ w.sum = t.sum /\ w.summul = t.summul
    BY <1>4 DEF CalcStates
  <2> QED BY <1>4, <2>1, <2>2
<1>6. q = w BY <1>3
<1> HIDE DEF w
<1> QED BY <1>2, <1>5, <1>6

-----------------------------------------------------------------------------
LEMMA GoodSign ==
  ASSUME NEW n, NEW s, NEW o, Expression(n, s, o), NEW i \in 0..(n - 1), Good(s, o, i),
         o[i + 1] \in Signs
  PROVE  Good(s, o, i + 1) \/ Lost(s, o, i + 1)
<1> DEFINE r == Loop(s, o)[i]
           q == Loop(s, o)[i + 1]
           c == o[i + 1]
           d == DigitValue[s[i + 1]]
<1>1. n \in Nat /\ Len(s) = n /\ i \in Nat /\ i \in 0..n /\ i + 1 \in 1..n BY DEF Expression
<1>2. d \in Nat BY <1>1, DigitValueType DEF Expression
<1>3. /\ r \in CalcStates /\ r.current \in Nat
      /\ Product(s, o)[i] = Applied(r) /\ Applied(r) \in Int \union {Senseless}
      /\ Sum(s, o)[i] = IF Applied(r) = Senseless THEN Senseless
                        ELSE IF r.op = "+" THEN r.sum + Applied(r) ELSE r.sum - Applied(r)
  BY <1>1, GoodMeans
<1>4. q = AtSign(r, c, d)
  <2>1. q = Turn(r, c, d) BY <1>1, LoopIs
  <2>2. r.stop = "no" BY <1>3 DEF CalcStates, Running
  <2> HIDE DEF r, q, c
  <2> QED BY <2>1, <2>2 DEF Turn, c
<1>5. c # Blank /\ c \notin Factors BY DEF Signs, Factors, Blank
<1>6. FactorAt(o, i + 1) = i + 1 /\ TermAt(o, i + 1) = i + 1
  <2>1. CASE i = 0 BY <2>1, FactorPlaceNext, TermPlaceNext
  <2>2. CASE i > 0
    <3>1. i \in Nat \ {0} BY <1>1, <2>2
    <3> QED BY <1>5, <3>1, FactorPlaceNext, TermPlaceNext
  <2> QED BY <1>1, <2>1, <2>2
<1>7. CASE Applied(r) = Senseless
  <2>1. Senseless \notin Int BY OpSymAssumption
  <2>2. Pending(r) BY <1>3, <1>7, <2>1 DEF Applied
  <2>3. r.opmul = "/" BY <1>3, <1>7, <2>2, MultiplyIs
  <2>4. i > 0
    <3>1. i = 0 => r.opmul = Blank BY DEF Good, LoopStart
    <3>2. Blank # "/" BY DEF Blank
    <3> QED BY <1>1, <2>3, <3>1, <3>2
  <2> DEFINE a == FactorAt(o, i)
  <2>5. o[a] = "/"
    <3>1. o[a] \in Factors => r.opmul = o[a] BY <2>4 DEF Good
    <3>2. o[a] \notin Factors => r.opmul = Blank BY <2>4 DEF Good
    <3>3. Blank # "/" BY DEF Blank
    <3> HIDE DEF a
    <3> QED BY <2>3, <3>1, <3>2, <3>3
  <2>6. a \in 1..i /\ \A k \in (a + 1)..i : o[k] = Blank
    <3>1. i \in Nat \ {0} BY <1>1, <2>4
    <3> QED BY <3>1, FactorPlace
  <2> HIDE DEF a
  <2>7. Unchecked(o, a)
    <3>1. Len(o) = n BY <1>1 DEF Expression
    <3>2. i + 1 \in (a + 1)..Len(o) BY <1>1, <2>6, <3>1
    <3>3. \A k \in (a + 1)..((i + 1) - 1) : o[k] = Blank BY <1>1, <2>6
    <3> QED BY <2>5, <3>2, <3>3 DEF Unchecked
  <2>8. a \in DOMAIN o BY <1>1, <2>6 DEF Expression
  <2>9. Exposed(o) BY <2>7, <2>8 DEF Exposed
  <2>10. Sum(s, o)[TermAt(o, i + 1) - 1] = Senseless
    <3>1. (i + 1) - 1 = i BY <1>1
    <3> QED BY <1>3, <1>6, <1>7, <3>1
  <2> QED BY <1>1, <2>9, <2>10 DEF Lost
<1>8. CASE Applied(r) \in Int
  <2>1. /\ q \in CalcStates /\ q.op = c /\ q.current = d /\ q.opmul = Blank
        /\ q.sum = IF r.op = "+" THEN r.sum + Applied(r) ELSE r.sum - Applied(r)
    <3> HIDE DEF r, q, d
    <3>1. d \in Int BY <1>2
    <3> QED BY <1>3, <1>4, <1>8, <3>1, AtSignIs
  <2>2. q.sum = Sum(s, o)[(i + 1) - 1]
    <3>1. Applied(r) # Senseless BY <1>8, OpSymAssumption
    <3>2. (i + 1) - 1 = i BY <1>1
    <3> HIDE DEF r, q
    <3> QED BY <1>3, <2>1, <3>1, <3>2
  <2>3. Number(s, i + 1)[i + 1] = d
    <3>1. i + 1 \in Nat \ {0} /\ i \in 0..n /\ i + 1 \in 0..n /\ (i + 1) - 1 = i /\ i < i + 1 BY <1>1
    <3>2. Number(s, i + 1)[i] = 0 BY <1>1, <3>1, NumberIs
    <3>3. Number(s, i + 1)[i + 1] = Number(s, i + 1)[i] * 10 + d BY <1>1, <3>1, NumberIs
    <3> HIDE DEF d
    <3> QED BY <1>2, <3>2, <3>3
  <2>4. c = IF c = "-" THEN "-" ELSE "+" BY DEF Signs
  <2> HIDE DEF q, d, r
  <2> QED BY <1>1, <1>5, <1>6, <2>1, <2>2, <2>3, <2>4 DEF Good, q
<1> QED BY <1>3, <1>7, <1>8

LEMMA GoodFactor ==
  ASSUME NEW n, NEW s, NEW o, Expression(n, s, o), NEW i \in 0..(n - 1), Good(s, o, i),
         o[i + 1] \in Factors
  PROVE  Good(s, o, i + 1) \/ Lost(s, o, i + 1)
<1> DEFINE r == Loop(s, o)[i]
           q == Loop(s, o)[i + 1]
           c == o[i + 1]
           d == DigitValue[s[i + 1]]
<1>1. n \in Nat /\ Len(s) = n /\ i \in Nat /\ i \in 0..n /\ i + 1 \in 1..n BY DEF Expression
<1>2. d \in Nat BY <1>1, DigitValueType DEF Expression
<1>3. /\ r \in CalcStates /\ r.current \in Nat
      /\ Product(s, o)[i] = Applied(r) /\ Applied(r) \in Int \union {Senseless}
  BY <1>1, GoodMeans
<1>4. c # Blank /\ c \notin Signs BY DEF Signs, Factors, Blank
<1>5. q = AtFactor(r, c, d)
  <2>1. q = Turn(r, c, d) BY <1>1, LoopIs
  <2>2. r.stop = "no" BY <1>3 DEF CalcStates, Running
  <2>3. c \in Factors OBVIOUS
  <2> HIDE DEF r, q, c
  <2> QED BY <1>4, <2>1, <2>2, <2>3 DEF Turn
<1>6. FactorAt(o, i + 1) = i + 1 /\ (i + 1) - 1 = i
  <2>1. CASE i = 0 BY <2>1, FactorPlaceNext
  <2>2. CASE i > 0
    <3>1. i \in Nat \ {0} BY <1>1, <2>2
    <3> QED BY <1>4, <3>1, FactorPlaceNext
  <2> QED BY <1>1, <2>1, <2>2
<1>7. CASE Applied(r) = Senseless
  <2>1. Senseless \notin Int BY OpSymAssumption
  <2>2. Pending(r) BY <1>3, <1>7, <2>1 DEF Applied
  <2>3. Multiply(r) = [r EXCEPT !.stop = "undefined"] BY <1>3, <1>7, <2>2, MultiplyIs
  <2> DEFINE w == [r EXCEPT !.stop = "undefined"]
  <2>4. q = [w EXCEPT !.opmul = c, !.current = d] BY <1>5, <2>2, <2>3 DEF AtFactor
  <2>5. q \in LostStates
    <3>1. w \in LostStates
      <4>1. "undefined" \in Answered BY DEF Answered
      <4> HIDE DEF r
      <4> QED BY <1>3, <4>1 DEF CalcStates, LostStates
    <3>2. c \in Pendings /\ d \in Int BY <1>2 DEF Pendings
    <3> HIDE DEF r, q, c, d, w
    <3>3. [w EXCEPT !.opmul = c, !.current = d] \in LostStates BY <3>1, <3>2 DEF LostStates
    <3> QED BY <2>4, <3>3
  <2>6. Product(s, o)[FactorAt(o, i + 1) - 1] = Senseless BY <1>3, <1>6, <1>7
  <2>7. o[FactorAt(o, i + 1)] \in Factors BY <1>6
  <2> QED BY <1>1, <2>5, <2>6, <2>7 DEF Lost
<1>8. CASE Applied(r) \in Int
  <2>1. /\ q \in CalcStates /\ q.op = r.op /\ q.current = d /\ q.opmul = c
        /\ q.sum = r.sum /\ q.summul = Applied(r)
    <3>1. d \in Int BY <1>2
    <3>2. c \in Factors OBVIOUS
    <3> HIDE DEF r, q, d, c
    <3> QED BY <1>3, <1>5, <1>8, <3>1, <3>2, AtFactorIs
  <2>2. Number(s, i + 1)[i + 1] = d
    <3>1. i + 1 \in Nat \ {0} /\ i \in 0..n /\ i + 1 \in 0..n /\ (i + 1) - 1 = i /\ i < i + 1 BY <1>1
    <3>2. Number(s, i + 1)[i] = 0 BY <1>1, <3>1, NumberIs
    <3>3. Number(s, i + 1)[i + 1] = Number(s, i + 1)[i] * 10 + d BY <1>1, <3>1, NumberIs
    <3> HIDE DEF d
    <3> QED BY <1>2, <3>2, <3>3
  <2>3. /\ q.op = IF o[TermAt(o, i + 1)] = "-" THEN "-" ELSE "+"
        /\ q.sum = Sum(s, o)[TermAt(o, i + 1) - 1]
    <3>1. CASE i = 0
      <4>1. TermAt(o, i + 1) = 1 /\ 1 - 1 = 0 BY <3>1, TermPlaceNext
      <4>2. r = LoopStart BY <3>1 DEF Good
      <4>3. r.op = "+" /\ r.sum = 0 BY <4>2 DEF LoopStart
      <4>4. o[1] # "-" BY <1>4, <3>1 DEF Signs
      <4>5. \A b \in 1..n : TermAt(o, b) \in 1..b BY <1>1, TermPlace
      <4>6. Sum(s, o)[0] = 0 BY <1>1, <4>5, SumIs
      <4> HIDE DEF r, q
      <4> QED BY <2>1, <4>1, <4>3, <4>4, <4>6
    <3>2. CASE i > 0
      <4>1. i \in Nat \ {0} BY <1>1, <3>2
      <4>2. TermAt(o, i + 1) = TermAt(o, i) BY <1>4, <4>1, TermPlaceNext
      <4>3. /\ r.op = IF o[TermAt(o, i)] = "-" THEN "-" ELSE "+"
            /\ r.sum = Sum(s, o)[TermAt(o, i) - 1]
        BY <3>2 DEF Good
      <4> HIDE DEF r, q
      <4> QED BY <2>1, <4>2, <4>3
    <3> QED BY <1>1, <3>1, <3>2
  <2> HIDE DEF q, d, r
  <2> QED BY <1>1, <1>3, <1>6, <2>1, <2>2, <2>3 DEF Good, q
<1> QED BY <1>3, <1>7, <1>8

LEMMA GoodDigit ==
  ASSUME NEW n, NEW s, NEW o, Expression(n, s, o), NEW i \in 0..(n - 1), Good(s, o, i),
         o[i + 1] = Blank
  PROVE  Good(s, o, i + 1)
<1> DEFINE r == Loop(s, o)[i]
           q == Loop(s, o)[i + 1]
           d == DigitValue[s[i + 1]]
<1>1. n \in Nat /\ Len(s) = n /\ i \in Nat /\ i \in 0..n /\ i + 1 \in 1..n BY DEF Expression
<1>2. d \in Nat BY <1>1, DigitValueType DEF Expression
<1>3. r \in CalcStates /\ r.current \in Nat BY <1>1, GoodMeans
<1>4. Blank \notin Signs /\ Blank \notin Factors BY DEF Signs, Factors, Blank
<1>5. q = [r EXCEPT !.current = @ * 10 + d]
  <2>1. q = Turn(r, o[i + 1], d) BY <1>1, LoopIs
  <2>2. r.stop = "no" BY <1>3 DEF CalcStates, Running
  <2> HIDE DEF r, q
  <2> QED BY <1>4, <2>1, <2>2 DEF Turn, AtDigit
<1>6. /\ q \in CalcStates /\ q.op = r.op /\ q.current = r.current * 10 + d /\ q.opmul = r.opmul
      /\ q.sum = r.sum /\ q.summul = r.summul
  <2> DEFINE m == r.current * 10 + d
             w == [r EXCEPT !.current = m]
  <2>1. m \in Int BY <1>2, <1>3
  <2>2. q = w BY <1>5
  <2> HIDE DEF m, q, r, d
  <2>3. w \in CalcStates BY <1>3, <2>1 DEF CalcStates
  <2>4. /\ w.op = r.op /\ w.current = m /\ w.opmul = r.opmul
        /\ w.sum = r.sum /\ w.summul = r.summul
    BY <1>3 DEF CalcStates
  <2> HIDE DEF w
  <2> QED BY <2>2, <2>3, <2>4 DEF m
<1>7. CASE i = 0
  <2>1. FactorAt(o, i + 1) = 1 /\ TermAt(o, i + 1) = 1 /\ o[1] = Blank /\ i + 1 = 1
    BY <1>7, FactorPlaceNext, TermPlaceNext
  <2>2. r = LoopStart BY <1>7 DEF Good
  <2>3. r.op = "+" /\ r.sum = 0 /\ r.current = 0 /\ r.opmul = Blank BY <2>2 DEF LoopStart
  <2>4. \A b \in 1..n : TermAt(o, b) \in 1..b BY <1>1, TermPlace
  <2>5. Sum(s, o)[0] = 0 BY <1>1, <2>4, SumIs
  <2>6. Number(s, 1)[1] = d
    <3>1. 1 \in Nat \ {0} /\ 0 \in 0..n /\ 1 \in 0..n /\ 1 - 1 = 0 /\ 0 < 1 BY <1>1, <1>7
    <3>2. Number(s, 1)[0] = 0 BY <1>1, <3>1, NumberIs
    <3>3. Number(s, 1)[1] = Number(s, 1)[0] * 10 + d BY <1>1, <1>7, <3>1, NumberIs
    <3> HIDE DEF d
    <3> QED BY <1>2, <3>2, <3>3
  <2>7. q.current = d
    <3> HIDE DEF q, r, d
    <3> QED BY <1>2, <1>6, <2>3
  <2>8. Blank # "-" BY DEF Blank
  <2>9. 1 - 1 = 0 OBVIOUS
  <2>10. q \in CalcStates /\ q.op = "+" /\ q.sum = 0 /\ q.opmul = Blank
    <3> HIDE DEF q, r, d
    <3> QED BY <1>6, <2>3
  <2> HIDE DEF q, r, d
  <2> QED BY <1>4, <2>1, <2>5, <2>6, <2>7, <2>8, <2>9, <2>10 DEF Good, q
<1>8. CASE i > 0
  <2>1. i \in Nat \ {0} BY <1>1, <1>8
  <2>2. FactorAt(o, i + 1) = FactorAt(o, i) /\ TermAt(o, i + 1) = TermAt(o, i)
    BY <1>4, <2>1, FactorPlaceNext, TermPlaceNext
  <2>3. /\ r.op = IF o[TermAt(o, i)] = "-" THEN "-" ELSE "+"
        /\ r.current = Number(s, FactorAt(o, i))[i] /\ r.sum = Sum(s, o)[TermAt(o, i) - 1]
        /\ o[FactorAt(o, i)] \in Factors =>
             r.opmul = o[FactorAt(o, i)] /\ r.summul = Product(s, o)[FactorAt(o, i) - 1]
        /\ o[FactorAt(o, i)] \notin Factors => r.opmul = Blank
    BY <1>8 DEF Good
  <2>4. q.current = Number(s, FactorAt(o, i))[i + 1]
    <3>1. PICK a \in Nat \ {0} : a = FactorAt(o, i) /\ ~(i + 1 < a)
      <4>1. FactorAt(o, i) \in 1..i BY <2>1, FactorPlace
      <4> QED BY <1>1, <4>1
    <3>2. \A b \in 0..n : Number(s, a)[b] = IF b < a THEN 0 ELSE Number(s, a)[b - 1] * 10 + DigitValue[s[b]]
      BY <1>1, NumberIs
    <3>3. i + 1 \in 0..n /\ (i + 1) - 1 = i BY <1>1
    <3>4. Number(s, a)[i + 1] = Number(s, a)[i] * 10 + d BY <3>1, <3>2, <3>3
    <3> HIDE DEF q, r, d
    <3> QED BY <1>6, <2>3, <3>1, <3>4
  <2>5. /\ q.op = IF o[TermAt(o, i)] = "-" THEN "-" ELSE "+"
        /\ q.sum = Sum(s, o)[TermAt(o, i) - 1]
        /\ o[FactorAt(o, i)] \in Factors =>
             q.opmul = o[FactorAt(o, i)] /\ q.summul = Product(s, o)[FactorAt(o, i) - 1]
        /\ o[FactorAt(o, i)] \notin Factors => q.opmul = Blank
    <3> HIDE DEF q, r, d
    <3> QED BY <1>6, <2>3
  <2>6. i + 1 # 0 /\ i + 1 > 0 BY <1>1
  <2>7. q \in CalcStates BY <1>6
  <2> HIDE DEF q, r, d
  <2>8. /\ q.op = IF o[TermAt(o, i + 1)] = "-" THEN "-" ELSE "+"
        /\ q.current = Number(s, FactorAt(o, i + 1))[i + 1]
        /\ q.sum = Sum(s, o)[TermAt(o, i + 1) - 1]
        /\ o[FactorAt(o, i + 1)] \in Factors =>
             q.opmul = o[FactorAt(o, i + 1)] /\ q.summul = Product(s, o)[FactorAt(o, i + 1) - 1]
        /\ o[FactorAt(o, i + 1)] \notin Factors => q.opmul = Blank
    <3>1. q.op = IF o[TermAt(o, i + 1)] = "-" THEN "-" ELSE "+" BY <2>2, <2>5
    <3>2. q.current = Number(s, FactorAt(o, i + 1))[i + 1] BY <2>2, <2>4
    <3>3. q.sum = Sum(s, o)[TermAt(o, i + 1) - 1] BY <2>2, <2>5
    <3>4. /\ o[FactorAt(o, i + 1)] \in Factors =>
                q.opmul = o[FactorAt(o, i + 1)] /\ q.summul = Product(s, o)[FactorAt(o, i + 1) - 1]
          /\ o[FactorAt(o, i + 1)] \notin Factors => q.opmul = Blank
      BY <2>2, <2>5
    <3> QED BY <3>1, <3>2, <3>3, <3>4
  <2> QED BY <2>6, <2>7, <2>8, Zenon DEF Good, q
<1> QED BY <1>1, <1>7, <1>8

LEMMA LostMeans ==
  ASSUME NEW n, NEW s, NEW o, Expression(n, s, o), NEW i \in 1..n, Lost(s, o, i)
  PROVE  /\ Sum(s, o)[i] = Senseless
         /\ Product(s, o)[i] = Senseless \/ Sum(s, o)[TermAt(o, i) - 1] = Senseless
<1>1. n \in Nat /\ Len(s) = n BY DEF Expression
<1>2. \A b \in 1..n : FactorAt(o, b) \in 1..b /\ TermAt(o, b) \in 1..b BY <1>1, FactorPlace, TermPlace
<1>3. Product(s, o)[i] = Senseless \/ Sum(s, o)[TermAt(o, i) - 1] = Senseless
  <2> DEFINE a == FactorAt(o, i)
             v == Number(s, a)[i]
             left == Product(s, o)[a - 1]
  <2>1. Product(s, o)[i] = IF o[a] \notin Factors THEN v
                           ELSE IF left = Senseless THEN Senseless
                           ELSE IF o[a] = "*" THEN left * v
                           ELSE IF Exact(left, v) THEN left \div v ELSE Senseless
    BY <1>1, <1>2, ProductIs
  <2>2. (o[a] \in Factors /\ left = Senseless) \/ Sum(s, o)[TermAt(o, i) - 1] = Senseless
    BY DEF Lost
  <2> HIDE DEF a, v, left
  <2> QED BY <2>1, <2>2
<1>4. Sum(s, o)[i] =
        IF Senseless \in {Sum(s, o)[TermAt(o, i) - 1], Product(s, o)[i]} THEN Senseless
        ELSE IF o[TermAt(o, i)] = "-" THEN Sum(s, o)[TermAt(o, i) - 1] - Product(s, o)[i]
        ELSE Sum(s, o)[TermAt(o, i) - 1] + Product(s, o)[i]
  BY <1>1, <1>2, SumIs
<1>5. Senseless \in {Sum(s, o)[TermAt(o, i) - 1], Product(s, o)[i]} BY <1>3
<1> QED BY <1>3, <1>4, <1>5

LEMMA LostOn ==
  ASSUME NEW n, NEW s, NEW o, Expression(n, s, o), NEW i \in 1..(n - 1), Lost(s, o, i)
  PROVE  Lost(s, o, i + 1)
<1>1. n \in Nat /\ Len(s) = n /\ i \in Nat \ {0} /\ i \in 1..n /\ i \in 0..(n - 1) /\ (i + 1) - 1 = i
  BY DEF Expression
<1>2. /\ Sum(s, o)[i] = Senseless
      /\ Product(s, o)[i] = Senseless \/ Sum(s, o)[TermAt(o, i) - 1] = Senseless
  BY <1>1, LostMeans
<1>3. Loop(s, o)[i + 1] \in LostStates \/ Exposed(o)
  <2>1. Loop(s, o)[i + 1] = Turn(Loop(s, o)[i], o[i + 1], DigitValue[s[i + 1]]) BY <1>1, LoopIs
  <2>2. CASE Loop(s, o)[i] \in LostStates
    <3>1. Loop(s, o)[i].stop # "no" BY <2>2 DEF LostStates, Answered
    <3>2. Loop(s, o)[i + 1] = Loop(s, o)[i] BY <2>1, <3>1 DEF Turn
    <3> QED BY <2>2, <3>2
  <2> QED BY <2>2 DEF Lost
<1>4. \/ o[FactorAt(o, i + 1)] \in Factors /\ Product(s, o)[FactorAt(o, i + 1) - 1] = Senseless
      \/ Sum(s, o)[TermAt(o, i + 1) - 1] = Senseless
  <2>1. CASE o[i + 1] \in Signs
    <3>1. TermAt(o, i + 1) = i + 1 BY <1>1, <2>1, TermPlaceNext
    <3> QED BY <1>1, <1>2, <3>1
  <2>2. CASE o[i + 1] \in Factors
    <3>1. o[i + 1] \notin Signs /\ o[i + 1] # Blank BY <2>2 DEF Signs, Factors, Blank
    <3>2. FactorAt(o, i + 1) = i + 1 /\ TermAt(o, i + 1) = TermAt(o, i)
      BY <1>1, <3>1, FactorPlaceNext, TermPlaceNext
    <3> QED BY <1>1, <1>2, <2>2, <3>2
  <2>3. CASE o[i + 1] = Blank
    <3>1. Blank \notin Signs BY DEF Signs, Blank
    <3>2. FactorAt(o, i + 1) = FactorAt(o, i) /\ TermAt(o, i + 1) = TermAt(o, i)
      BY <1>1, <2>3, <3>1, FactorPlaceNext, TermPlaceNext
    <3>3. \/ o[FactorAt(o, i)] \in Factors /\ Product(s, o)[FactorAt(o, i) - 1] = Senseless
          \/ Sum(s, o)[TermAt(o, i) - 1] = Senseless
      BY DEF Lost
    <3> QED BY <3>2, <3>3
  <2>4. o[i + 1] \in Operators \union {Blank}
    <3>1. i + 1 \in 1..n BY <1>1
    <3> QED BY <3>1 DEF Expression
  <2> QED BY <2>1, <2>2, <2>3, <2>4 DEF Operators
<1> QED BY <1>1, <1>3, <1>4 DEF Lost

LEMMA LoopInv ==
  ASSUME NEW n, NEW s, NEW o, Expression(n, s, o)
  PROVE  Good(s, o, n) \/ Lost(s, o, n)
<1>1. n \in Nat /\ Len(s) = n BY DEF Expression
<1> DEFINE S == {m \in Nat : m <= n => Good(s, o, m) \/ Lost(s, o, m)}
<1>2. 0 \in S
  <2>1. Loop(s, o)[0] = LoopStart BY <1>1, LoopIs
  <2>2. LoopStart \in CalcStates
    BY DEF LoopStart, CalcStates, Signs, Pendings, Blank, Running
  <2> QED BY <2>1, <2>2 DEF Good
<1>3. ASSUME NEW m \in Nat, m \in S PROVE m + 1 \in S
  <2> SUFFICES ASSUME m + 1 <= n PROVE Good(s, o, m + 1) \/ Lost(s, o, m + 1) OBVIOUS
  <2>1. m \in 0..(n - 1) /\ m + 1 \in 1..n /\ m <= n BY <1>1
  <2>2. o[m + 1] \in Signs \/ o[m + 1] \in Factors \/ o[m + 1] = Blank
    BY <2>1 DEF Expression, Operators
  <2>3. CASE Good(s, o, m) BY <2>1, <2>2, <2>3, GoodSign, GoodFactor, GoodDigit
  <2>4. CASE Lost(s, o, m)
    <3>1. m > 0 BY <2>4 DEF Lost
    <3>2. m \in 1..(n - 1) BY <2>1, <3>1
    <3> QED BY <2>4, <3>2, LostOn
  <2> QED BY <1>3, <2>1, <2>3, <2>4
<1> HIDE DEF S
<1>4. Nat \subseteq S BY <1>2, <1>3, Stepwise
<1>5. n \in Nat /\ n <= n BY <1>1
<1> QED BY <1>4, <1>5 DEF S

(* calc_string computes the value of an expression.  Of one with a division *)
(* that is not exact it answers INT_MAX, unless such a division is right    *)
(* before a sign.                                                           *)
LEMMA CalcIsMeaning ==
  ASSUME NEW n, NEW s, NEW o, Expression(n, s, o)
  PROVE  IF Meaning(s, o) # Senseless THEN Calc(s, o) = Meaning(s, o)
         ELSE Calc(s, o) = Undefined \/ \E a \in DOMAIN o : Unchecked(o, a)
<1>1. n \in Nat /\ Len(s) = n /\ n \in 0..n BY DEF Expression
<1>2. Meaning(s, o) = Sum(s, o)[n] BY <1>1 DEF Meaning
<1> DEFINE r == Loop(s, o)[n]
           t == IF r.stop = "no" /\ Pending(r) THEN Multiply(r) ELSE r
           u == IF Pending(r) THEN [t EXCEPT !.current = t.summul] ELSE t
<1>3. Calc(s, o) = IF u.stop = "fpe" THEN Fpe ELSE IF u.stop = "undefined" THEN Undefined ELSE Plus(u)
  BY <1>1 DEF Calc
<1>4. CASE Good(s, o, n)
  <2>1. /\ r \in CalcStates /\ r.current \in Nat
        /\ Applied(r) \in Int \union {Senseless}
        /\ Sum(s, o)[n] = IF Applied(r) = Senseless THEN Senseless
                          ELSE IF r.op = "+" THEN r.sum + Applied(r) ELSE r.sum - Applied(r)
    BY <1>1, <1>4, GoodMeans
  <2> HIDE DEF r
  <2>2. r.stop = "no" /\ r.sum \in Int BY <2>1 DEF CalcStates, Running
  <2>3. Senseless \notin Int BY OpSymAssumption
  <2>4. CASE Applied(r) = Senseless
    <3>1. Pending(r) BY <2>1, <2>3, <2>4 DEF Applied
    <3>2. Multiply(r) = [r EXCEPT !.stop = "undefined"] BY <2>1, <2>4, <3>1, MultiplyIs
    <3>3. t = [r EXCEPT !.stop = "undefined"] BY <2>2, <3>1, <3>2
    <3> HIDE DEF t
    <3>4. t.stop = "undefined" BY <2>1, <3>3 DEF CalcStates
    <3>5. u = [t EXCEPT !.current = t.summul] BY <3>1
    <3>6. u.stop = "undefined"
      <4> HIDE DEF u
      <4> QED BY <2>1, <3>3, <3>4, <3>5 DEF CalcStates
    <3> HIDE DEF u
    <3> QED BY <1>2, <1>3, <2>1, <2>4, <3>6
  <2>5. CASE Applied(r) \in Int
    <3>1. Applied(r) # Senseless BY <2>3, <2>5
    <3>2. PICK m \in Int : m = Applied(r) BY <2>5
    <3>3. u.sum = r.sum /\ u.op = r.op /\ u.stop = "no" /\ u.current = m
      <4>1. CASE Pending(r)
        <5>1. t = [r EXCEPT !.summul = m] BY <2>1, <2>2, <3>1, <3>2, <4>1, MultiplyIs
        <5> DEFINE w == [r EXCEPT !.summul = m]
        <5>2. w \in CalcStates /\ w.sum = r.sum /\ w.op = r.op /\ w.stop = r.stop /\ w.summul = m
          <6>1. w \in CalcStates BY <2>1 DEF CalcStates
          <6>2. w.sum = r.sum /\ w.op = r.op /\ w.stop = r.stop /\ w.summul = m
            BY <2>1 DEF CalcStates
          <6> QED BY <6>1, <6>2
        <5> HIDE DEF w, t
        <5>3. u = [w EXCEPT !.current = w.summul] BY <4>1, <5>1 DEF w
        <5> HIDE DEF u
        <5> QED BY <2>2, <5>2, <5>3 DEF CalcStates
      <4>2. CASE ~Pending(r)
        <5>1. u = r BY <4>2
        <5>2. r.current = m BY <3>2, <4>2 DEF Applied
        <5> HIDE DEF u
        <5> QED BY <2>2, <5>1, <5>2
      <4> QED BY <4>1, <4>2
    <3> HIDE DEF u
    <3>4. Calc(s, o) = IF r.op = "+" THEN r.sum + m ELSE r.sum - m BY <1>3, <3>3 DEF Plus
    <3>5. Sum(s, o)[n] = IF r.op = "+" THEN r.sum + m ELSE r.sum - m BY <2>1, <3>1, <3>2
    <3>6. Sum(s, o)[n] \in Int BY <2>2, <3>5
    <3> QED BY <1>2, <2>3, <3>4, <3>5, <3>6
  <2> QED BY <2>1, <2>4, <2>5
<1>5. CASE Lost(s, o, n)
  <2>1. n \in 1..n BY <1>1, <1>5 DEF Lost
  <2>2. Meaning(s, o) = Senseless BY <1>2, <1>5, <2>1, LostMeans
  <2>3. ASSUME r \in LostStates PROVE Calc(s, o) = Undefined
    <3>1. r.stop = "undefined" BY <2>3 DEF LostStates, Answered
    <3>2. t = r BY <3>1
    <3>3. [r EXCEPT !.current = r.summul].stop = "undefined"
      <4> HIDE DEF r
      <4> QED BY <2>3, <3>1 DEF LostStates
    <3> HIDE DEF t
    <3>4. u.stop = "undefined" BY <3>1, <3>2, <3>3
    <3> HIDE DEF u, r
    <3> QED BY <1>3, <3>4
  <2>4. r \in LostStates \/ \E a \in DOMAIN o : Unchecked(o, a) BY <1>5 DEF Lost, Exposed
  <2> HIDE DEF r
  <2> QED BY <2>2, <2>3, <2>4
<1> QED BY <1>4, <1>5, LoopInv

-----------------------------------------------------------------------------
(* The strings that are evaluated are expressions: what the searches put    *)
(* into their buffers are digits and operators.                             *)
SymbolsInv ==
  puzzle.prog # "95" =>
    /\ sym \in [Positions -> DOMAIN DigitValue]
    /\ \A e \in DOMAIN seen : \E o \in Strings : e = <<sym, o>>

LEMMA SymbolsInit == OInit => SymbolsInv
<1> SUFFICES ASSUME OInit, puzzle.prog # "95" PROVE SymbolsInv BY DEF SymbolsInv
<1>1. puzzle \in Puzzles /\ sym = strinit(puzzle.str).sym /\ DOMAIN seen = {}
  BY DEF OInit, EmptyBag, SetToBag
<1>2. /\ puzzle.str \in Seq(STRING)
      /\ \A i \in Symbols(puzzle.str) : puzzle.str[i] \in DOMAIN DigitValue
  BY <1>1, OpSearchAssumption
<1>3. sym \in [1..Len(sym) -> DOMAIN DigitValue]
  <2> DEFINE s == strinit(puzzle.str)
  <2>1. s.sym \in [1..Len(s.sym) -> DOMAIN DigitValue] BY <1>2, StrInit
  <2>2. sym = s.sym BY <1>1
  <2> HIDE DEF s
  <2> QED BY <2>1, <2>2
<1> QED BY <1>1, <1>3 DEF SymbolsInv, Positions, N

LEMMA SymbolsStep == PlacedInv /\ SymbolsInv /\ [ONext]_ovars => SymbolsInv'
<1> SUFFICES ASSUME PlacedInv, SymbolsInv, [ONext]_ovars, puzzle'.prog # "95" PROVE SymbolsInv'
  BY DEF SymbolsInv
<1>1. puzzle' = puzzle
  BY DEF ONext, GenStrings, Extend, Skip, Back, CheckDiv, Divide, Divided, Finished, ovars
<1>2. puzzle.prog # "95" BY <1>1
<1>3. loops = <<>> /\ place = 0 /\ N \in Nat /\ todo \in Seq(Items) BY <1>2 DEF PlacedInv, CallsLeft
<1>4. ~ (Divide \/ Extend \/ Skip \/ Back \/ CheckDiv \/ Divided)
  BY <1>2, <1>3 DEF Divide, Extend, Skip, Back, CheckDiv, Generating, Divided
<1>5. /\ sym \in [Positions -> DOMAIN DigitValue]
      /\ \A e \in DOMAIN seen : \E o \in Strings : e = <<sym, o>>
  BY <1>2 DEF SymbolsInv
<1>6. ASSUME sym' = sym, \A e \in DOMAIN seen' : e \in DOMAIN seen \/ \E o \in Strings : e = <<sym, o>>
      PROVE  SymbolsInv'
  <2>1. N' = N /\ Positions' = Positions /\ Strings' = Strings
    BY <1>1, <1>6 DEF N, Positions, Strings
  <2> QED BY <1>5, <1>6, <2>1 DEF SymbolsInv
<1>7. CASE GenStrings
  <2>1. todo # <<>> /\ sym' = sym BY <1>7 DEF GenStrings
  <2>2. Head(todo) \in Items BY <1>3, <2>1
  <2>3. Head(todo).op \in Strings BY <2>2 DEF Items
  <2>4. seen' = seen (+) SetToBag({<<sym, Head(todo).op>>}) BY <1>7 DEF GenStrings, Evaluate
  <2>5. DOMAIN seen' = DOMAIN seen \union {<<sym, Head(todo).op>>} BY <2>4 DEF SetToBag, (+)
  <2> QED BY <1>6, <2>1, <2>3, <2>5
<1>8. CASE UNCHANGED ovars BY <1>6, <1>8 DEF ovars
<1> QED BY <1>4, <1>7, <1>8 DEF ONext, Finished

LEMMA StringsAreExpressions ==
  ASSUME N \in Nat, NEW s \in [Positions -> DOMAIN DigitValue],
         NEW o \in [Positions -> Operators \union {Blank}]
  PROVE  Expression(N, s, o)
<1>1. s \in Seq(DOMAIN DigitValue) BY SeqDef DEF Positions
<1>2. DOMAIN s = 1..N BY DEF Positions
<1>3. Len(s) = N BY <1>1, <1>2, LenProperties
<1> QED BY <1>3 DEF Expression, Positions

LEMMA SpelledIsExpression ==
  ASSUME Size, NEW p \in [Positions -> Positions], NEW i
  PROVE  Expression(N, Spelled(p), DividedAt(p, i))
<1>1. N \in Nat /\ N <= 9 /\ Pattern \in [Positions -> Operators \union {Blank}] BY DEF Size
<1>2. ASSUME NEW k \in Positions PROVE Digits[p[k] + 1] \in DOMAIN DigitValue
  <2>1. p[k] \in 1..N BY DEF Positions
  <2>2. p[k] + 1 \in 1..10 BY <1>1, <2>1
  <2>3. DOMAIN Digits = 1..10 BY DEF Digits
  <2> QED BY <2>2, <2>3 DEF DigitValue
<1>3. Spelled(p) \in [Positions -> DOMAIN DigitValue] BY <1>2 DEF Spelled
<1>4. DividedAt(p, i) \in [Positions -> Operators \union {Blank}]
  <2>1. "/" \in Operators BY DEF Operators, Factors
  <2> QED BY <1>1, <2>1 DEF DividedAt
<1> QED BY <1>1, <1>3, <1>4, StringsAreExpressions

(* Every search hands calc_string expressions, and calc_string computes     *)
(* what they mean, or answers that a division is not exact; but for a       *)
(* division right before a sign.  For strings of any length, every pattern, *)
(* budget and value.                                                        *)
THEOREM CalcIsRight == OSpec => []CalcMeans
<1>1. GenInv /\ PlacedInv /\ SymbolsInv => CalcMeans
  <2> SUFFICES ASSUME GenInv, PlacedInv, SymbolsInv, NEW e \in DOMAIN seen
               PROVE  IF Meaning(e[1], e[2]) # Senseless THEN Calc(e[1], e[2]) = Meaning(e[1], e[2])
                      ELSE Calc(e[1], e[2]) = Undefined \/ \E a \in DOMAIN e[2] : Unchecked(e[2], a)
    BY DEF CalcMeans, BagToSet
  <2>1. Expression(N, e[1], e[2])
    <3>1. CASE puzzle.prog # "95"
      <4>1. PICK o \in Strings : e = <<sym, o>> BY <3>1 DEF SymbolsInv
      <4>2. N \in Nat /\ sym \in [Positions -> DOMAIN DigitValue] BY <3>1 DEF PlacedInv, SymbolsInv
      <4>3. o \in [Positions -> Operators \union {Blank}]
        BY DEF Strings, Operators
      <4> QED BY <4>1, <4>2, <4>3, StringsAreExpressions
    <3>2. CASE puzzle.prog = "95"
      <4>1. Size /\ Calls /\ Buffer /\ seen = SetToBag(Checked \union Checking) BY <3>2 DEF GenInv
      <4>2. e \in Checked \/ e \in Checking BY <4>1 DEF SetToBag
      <4>3. CASE e \in Checked
        <5>1. PICK p \in Arrangements, i \in 2..N : e = <<Spelled(p), DividedAt(p, i)>>
          BY <4>3 DEF Checked
        <5> QED BY <4>1, <5>1, SpelledIsExpression DEF Arrangements
      <4>4. CASE e \in Checking
        <5>1. PICK i \in 2..place : e = <<Spelled(Chosen), DividedAt(Chosen, i)>>
          BY <4>4 DEF Checking
        <5>2. pos = N
          <6>1. place > 0 BY <4>1, <5>1 DEF Calls, Size
          <6> QED BY <4>1, <6>1 DEF Calls
        <5>3. Chosen \in [Positions -> Positions]
          <6>1. N \in Nat BY <4>1 DEF Size
          <6>2. ASSUME NEW k \in Positions PROVE loops[k] - 1 \in Positions
            <7>1. loops[k] \in 2..(N + 1) BY <4>1, <5>2 DEF Buffer, Positions
            <7> QED BY <6>1, <7>1 DEF Positions
          <6> QED BY <6>2 DEF Chosen
        <5> QED BY <4>1, <5>1, <5>3, SpelledIsExpression
      <4> QED BY <4>2, <4>3, <4>4
    <3> QED BY <3>1, <3>2
  <2> QED BY <2>1, CalcIsMeaning
<1>2. OSpec => [](GenInv /\ PlacedInv /\ SymbolsInv)
  BY GenInit, GenStep, PlacedInit, PlacedStep, SymbolsInit, SymbolsStep, PTL DEF OSpec
<1> QED BY <1>1, <1>2, PTL
=============================================================================
