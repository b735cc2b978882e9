-------------------------- MODULE EngIntRun_proofs --------------------------
(***************************************************************************)
(* Proofs about EngIntRun, for every number of loops, every set of         *)
(* requests and every target function: the types, that no point outside    *)
(* the box is ever evaluated, and that a sweep that was not cut short has  *)
(* evaluated every point of the caller's grid.                             *)
(*                                                                         *)
(* The inductive invariant follows the nest of loops.  While loop `level'  *)
(* runs, the points of the cube walked so far are those that precede       *)
(* iter[1..level] lexicographically (Walked); the cubes of the smaller     *)
(* radii have been walked completely (Swept); and find_greatest has seen   *)
(* the bounds of the dimensions below dim (Bounds), so that the last cube  *)
(* is the whole box.                                                       *)
(*                                                                         *)
(* Behind the line in the middle is what that says to a caller: a call is  *)
(* a search of the box of its request (Refinement); with unit steps,       *)
(* STOPRUN stops at a nearest solution; and the count of a boolean         *)
(* function is exact.  The last two go through a correspondence between    *)
(* the points of the box in the cube of a radius (Cube) and the points the *)
(* nest of loops takes at that radius (GridAt).                            *)
(***************************************************************************)
EXTENDS EngIntRun, FiniteSetTheorems, WellFoundedInduction, TLAPS

Before == {"idle", "greatest"}

(* rt is the request, with the dimensions not in use zeroed after Setup.   *)
Params ==
  /\ rt.useDim = req.useDim /\ rt.step = req.step
  /\ pc \in Before => rt.from = req.from /\ rt.to = req.to
  /\ pc \notin Before =>
       \A d \in 1..ArrDims :
         /\ rt.from[d] = IF d > req.useDim THEN 0 ELSE req.from[d]
         /\ rt.to[d] = IF d > req.useDim THEN 0 ELSE req.to[d]
  /\ pc # "idle" => opt = req.flags
  /\ pc \notin Before => rt.flags = {}

Bounds ==
  /\ dim <= req.useDim + 1
  /\ \A d \in 1..(dim - 1) : Abs(req.from[d]) <= greatest /\ Abs(req.to[d]) <= greatest
  /\ pc \notin Before => dim = req.useDim + 1

Low(r, d) == Larger(-r, rt.from[d])
High(r, d) == Smaller(r, rt.to[d])

OnGrid(v, d) == \E k \in Nat : v = lo[d] + k * rt.step[d]

(* The nest of loops: the clipped bounds, and where each loop stands.      *)
Nest ==
  pc = "loop" =>
    /\ radius <= greatest
    /\ \A d \in Dims : lo[d] = Low(radius, d) /\ hi[d] = High(radius, d)
    /\ \A d \in 1..level : lo[d] <= iter[d] /\ OnGrid(iter[d], d)
    /\ \A d \in 1..(level - 1) : iter[d] <= hi[d]

(* The points of the cube of radius r, in all the loops' coordinates.      *)
GridAt(r) == {p \in [Dims -> (-r)..r] :
                \A d \in Dims : p[d] \in Axis(Low(r, d), High(r, d), rt.step[d])}

ArgsOf(p) == [d \in 1..rt.useDim |-> p[d]]

Precedes(p, n) == \E m \in 1..n : p[m] < iter[m] /\ \A j \in 1..(m - 1) : p[j] = iter[j]

Walked ==
  pc = "loop" => \A p \in GridAt(radius) : Precedes(p, level) => ArgsOf(p) \in tested

Swept ==
  pc \notin Before =>
    \A r \in 0..(radius - 1) : \A p \in GridAt(r) : ArgsOf(p) \in tested

Sound ==
  /\ WithinBox
  /\ tested # {} => Supported
  /\ pc \in Before => tested = {}

Returned ==
  pc = "returned" =>
    \/ radius > greatest
    \/ ret = 1 /\ Flag("STOP_RUN", opt)

IInv == TypeOK /\ Params /\ Bounds /\ Nest /\ Walked /\ Swept /\ Sound /\ Returned

-----------------------------------------------------------------------------
(* Two points of one grid less than a step apart are the same point: the    *)
(* fact behind every `iter += step' of the nest of loops.                   *)
LEMMA GridGap ==
  ASSUME NEW a \in Int, NEW s \in Nat, NEW v \in Int, NEW p \in Int,
         \E k \in Nat : v = a + k * s, \E k \in Nat : p = a + k * s,
         v <= p, p < v + s
  PROVE  p = v
<1>1. PICK i \in Nat : v = a + i * s OBVIOUS
<1>2. PICK j \in Nat : p = a + j * s OBVIOUS
<1>3. CASE j <= i
  <2>1. i * s = j * s + (i - j) * s /\ (i - j) * s >= 0 BY <1>3
  <2>2. QED BY <1>1, <1>2, <2>1
<1>4. CASE j > i
  <2>1. j * s = i * s + s + (j - i - 1) * s /\ (j - i - 1) * s >= 0 BY <1>4
  <2>2. QED BY <1>1, <1>2, <2>1
<1>5. QED BY <1>3, <1>4

(* A grid point stays one when its loop advances. *)
LEMMA GridNext ==
  ASSUME NEW a \in Int, NEW s \in Nat, NEW v \in Int, \E k \in Nat : v = a + k * s
  PROVE  \E k \in Nat : v + s = a + k * s
<1>1. PICK i \in Nat : v = a + i * s OBVIOUS
<1>2. v + s = a + (i + 1) * s BY <1>1
<1>3. QED BY <1>2

(* Saving a value keeps the result set typed and well spaced. *)
LEMMA RememberSpaced ==
  ASSUME NEW p \in Seq(Int), NEW v \in Int, WellSpaced(p)
  PROVE  Remember(p, v) \in Seq(Int) /\ WellSpaced(Remember(p, v))
<1>1. CASE CheckPrevious(p, v) \/ Full(p) BY <1>1 DEF Remember
<1>2. CASE ~(CheckPrevious(p, v) \/ Full(p))
  <2> DEFINE q == Append(p, v)
  <2>1. q \in Seq(Int) /\ Len(q) = Len(p) + 1 /\ q[Len(p) + 1] = v
        /\ \A i \in 1..Len(p) : q[i] = p[i] OBVIOUS
  <2>2. Len(q) <= ResCap BY <1>2, <2>1, ResultSetAssumption DEF Full
  <2>3. ASSUME NEW i \in 1..Len(q), NEW j \in 1..Len(q), i # j PROVE ~Near(q[i], q[j])
    <3>1. CASE i \in 1..Len(p) /\ j \in 1..Len(p) BY <2>1, <2>3, <3>1 DEF WellSpaced
    <3>2. CASE i = Len(p) + 1 /\ j \in 1..Len(p)
      BY <1>2, <2>1, <3>2 DEF CheckPrevious
    <3>3. CASE j = Len(p) + 1 /\ i \in 1..Len(p)
      <4>1. ~Near(v, p[i]) BY <1>2, <3>3 DEF CheckPrevious
      <4>2. p[i] \in Int BY <3>3
      <4>3. QED BY <2>1, <3>3, <4>1, <4>2 DEF Near
    <3>4. QED BY <2>1, <2>3, <3>1, <3>2, <3>3
  <2>4. Remember(p, v) = q BY <1>2 DEF Remember
  <2>5. WellSpaced(q) BY <2>2, <2>3 DEF WellSpaced
  <2>6. QED BY <2>1, <2>4, <2>5
<1>3. QED BY <1>1, <1>2

-----------------------------------------------------------------------------
(* The initial states. *)
LEMMA InitInv == Init => IInv
<1> SUFFICES ASSUME Init PROVE IInv OBVIOUS
<1> USE EngIntRunAssumption
<1>1. TypeOK
  <2>1. WellSpaced(<<>>) BY ResultSetAssumption DEF WellSpaced
  <2>2. <<>> \in Seq(Int) OBVIOUS
  <2>3. QED BY <2>1, <2>2 DEF Init, TypeOK, Dims
<1>2. Params /\ Nest /\ Walked /\ Swept /\ Returned
  BY DEF Init, Params, Nest, Walked, Swept, Returned, Before
<1>3. Bounds BY DEF Init, Bounds, Before, RequestType
<1>4. Sound BY DEF Init, Sound, WithinBox, Before
<1>5. QED BY <1>1, <1>2, <1>3, <1>4 DEF IInv

(* A call starts afresh, whatever the one before it left: only the result   *)
(* set and the log go on.                                                   *)
LEMMA StartInv == ASSUME IInv, NEW r \in Requests, Start(r) PROVE IInv'
<1> USE EngIntRunAssumption DEF Start
<1>0. r \in RequestType /\ r.flags \in SUBSET FlagNames BY DEF RequestType
<1>1. TypeOK' BY <1>0 DEF IInv, TypeOK
<1>2. (Params /\ Nest /\ Walked /\ Swept /\ Returned)'
  BY DEF Params, Nest, Walked, Swept, Returned, Before
<1>3. Bounds' BY <1>0 DEF Bounds, Before, RequestType
<1>4. Sound' BY DEF Sound, WithinBox, Before
<1>5. QED BY <1>1, <1>2, <1>3, <1>4 DEF IInv

LEMMA CallInv == IInv /\ Call => IInv'
BY StartInv DEF Call, IInv, TypeOK

LEMMA FindGreatestInv == IInv /\ FindGreatest => IInv'
<1> SUFFICES ASSUME IInv, FindGreatest PROVE IInv' OBVIOUS
<1> USE EngIntRunAssumption DEF FindGreatest, shared, history
<1>0. req \in RequestType /\ rt \in RequestType BY DEF IInv, TypeOK
<1>1. rt.from[dim] \in Int /\ rt.to[dim] \in Int /\ dim \in 1..ArrDims
      /\ rt.useDim = req.useDim /\ rt.from = req.from /\ rt.to = req.to
      /\ greatest \in Nat
  BY <1>0 DEF IInv, TypeOK, Params, Before, RequestType
<1>2. TypeOK' BY <1>1 DEF IInv, TypeOK, Larger, Abs
<1>3. (Params /\ Nest /\ Walked /\ Swept /\ Returned)'
  BY DEF IInv, Params, Nest, Walked, Swept, Returned, Before
<1>4. Bounds'
  <2>1. greatest' >= greatest /\ Abs(rt.from[dim]) <= greatest' /\ Abs(rt.to[dim]) <= greatest'
    <3>1. greatest' = Larger(greatest, Larger(Abs(rt.from[dim]), Abs(rt.to[dim]))) OBVIOUS
    <3>2. QED BY ONLY <1>1, <3>1 DEF Larger, Abs
  <2>2. ASSUME NEW d \in 1..dim
        PROVE  Abs(req.from[d]) <= greatest' /\ Abs(req.to[d]) <= greatest'
    <3>1. CASE d = dim BY <1>1, <2>1, <3>1
    <3>2. CASE d \in 1..(dim - 1)
      <4>1. Abs(req.from[d]) <= greatest /\ Abs(req.to[d]) <= greatest
        BY <3>2 DEF IInv, Bounds
      <4>2. req.from[d] \in Int /\ req.to[d] \in Int
        <5>1. d \in 1..ArrDims BY <1>1, <3>2
        <5>2. QED BY <1>0, <5>1 DEF RequestType
      <4>3. greatest \in Nat /\ greatest' \in Nat BY <1>2 DEF IInv, TypeOK
      <4>4. QED BY <2>1, <4>1, <4>2, <4>3 DEF Abs
    <3>3. QED BY <1>1, <2>2, <3>1, <3>2
  <2>3. QED BY <1>0, <1>1, <2>2 DEF IInv, Bounds, Before, RequestType
<1>5. Sound' BY DEF IInv, Sound, WithinBox, Before, Supported
<1>6. QED BY <1>2, <1>3, <1>4, <1>5 DEF IInv

-----------------------------------------------------------------------------
(* What the type invariant says of one dimension. *)
LEMMA DimTypes ==
  ASSUME TypeOK, NEW d \in Dims
  PROVE  /\ rt.from[d] \in Int /\ rt.to[d] \in Int /\ rt.step[d] \in Nat
         /\ lo[d] \in Int /\ hi[d] \in Int /\ iter[d] \in Int
         /\ Low(radius, d) \in Int /\ High(radius, d) \in Int
<1>1. d \in 1..ArrDims BY EngIntRunAssumption DEF Dims
<1>2. rt.from[d] \in Int /\ rt.to[d] \in Int /\ rt.step[d] \in Nat
  BY <1>1 DEF TypeOK, RequestType
<1>3. QED BY <1>2 DEF TypeOK, Low, High, Larger, Smaller

(* A point of the cube of radius r, one coordinate at a time. *)
LEMMA GridPoint ==
  ASSUME NEW r, NEW p \in GridAt(r), NEW d \in Dims,
         Low(r, d) \in Int, High(r, d) \in Int
  PROVE  /\ p[d] \in Int /\ Low(r, d) <= p[d] /\ p[d] <= High(r, d)
         /\ \E k \in Nat : p[d] = Low(r, d) + k * rt.step[d]
<1>1. p[d] \in Axis(Low(r, d), High(r, d), rt.step[d]) BY DEF GridAt
<1>2. QED BY <1>1 DEF Axis

(* The cubes already swept stay swept as long as points are only added.     *)
LEMMA SweptKept ==
  ASSUME Swept, pc \notin Before, rt' = rt, radius' = radius, tested \subseteq tested'
  PROVE  Swept'
BY DEF Swept, GridAt, ArgsOf, Low, High

LEMMA SetupInv == IInv /\ Setup => IInv'
<1> SUFFICES ASSUME IInv, Setup PROVE IInv' OBVIOUS
<1> USE DEF shared, history
<1>0. rt \in RequestType /\ pc = "greatest" /\ pc' = "radius"
  BY DEF IInv, TypeOK, Setup
<1>1. rt' \in RequestType
  <2>1. \A d \in 1..ArrDims : rt.from[d] \in Int /\ rt.to[d] \in Int
    BY <1>0 DEF RequestType
  <2>2. [d \in 1..ArrDims |-> IF d > rt.useDim THEN 0 ELSE rt.from[d]] \in [1..ArrDims -> Int]
    BY <2>1
  <2>3. [d \in 1..ArrDims |-> IF d > rt.useDim THEN 0 ELSE rt.to[d]] \in [1..ArrDims -> Int]
    BY <2>1
  <2>4. /\ rt'.useDim = rt.useDim /\ rt'.step = rt.step /\ rt'.flags = {} /\ rt'.targetValue = 0
        /\ rt'.from = [d \in 1..ArrDims |-> IF d > rt.useDim THEN 0 ELSE rt.from[d]]
        /\ rt'.to = [d \in 1..ArrDims |-> IF d > rt.useDim THEN 0 ELSE rt.to[d]]
        /\ DOMAIN rt' = DOMAIN rt
    BY <1>0 DEF Setup, RequestType
  <2>5. rt' = [useDim |-> rt.useDim, from |-> rt'.from, to |-> rt'.to, step |-> rt.step,
              flags |-> {}, targetValue |-> 0]
    BY <1>0 DEF Setup, RequestType
  <2>6. QED BY <1>0, <2>2, <2>3, <2>4, <2>5 DEF RequestType
<1>2. TypeOK' BY <1>1 DEF IInv, TypeOK, Setup
<1>3. Params' BY <1>0 DEF IInv, Params, Before, Setup, RequestType
<1>4. Bounds'
  <2>1. req.useDim \in Int /\ dim \in Int /\ rt.useDim = req.useDim
    BY <1>0 DEF IInv, TypeOK, Params, RequestType
  <2>2. QED BY <1>0, <2>1 DEF IInv, Bounds, Before, Setup
<1>5. (Nest /\ Walked /\ Swept /\ Returned)'
  <2>1. radius' = 0 BY DEF Setup
  <2>2. QED BY <1>0, <2>1 DEF Nest, Walked, Swept, Returned
<1>6. Sound' BY <1>0 DEF IInv, Sound, WithinBox, Before, Setup
<1>7. QED BY <1>2, <1>3, <1>4, <1>5, <1>6 DEF IInv

LEMMA ClipInv == IInv /\ Clip => IInv'
<1> SUFFICES ASSUME IInv, Clip PROVE IInv' OBVIOUS
<1> USE DEF shared, history
<1>0. /\ TypeOK /\ pc = "radius" /\ pc' = "loop" /\ level' = 1 /\ 1 \in Dims
      /\ rt' = rt /\ req' = req /\ radius' = radius /\ tested' = tested /\ radius <= greatest
      /\ iter' = [iter EXCEPT ![1] = lo'[1]]
      /\ greatest' = greatest /\ opt' = opt /\ dim' = dim
  BY EngIntRunAssumption DEF IInv, Clip, Dims
<1>1. \A d \in Dims : lo'[d] = Low(radius, d) /\ hi'[d] = High(radius, d)
  BY DEF Clip, Low, High
<1>2. lo' \in [Dims -> Int] /\ hi' \in [Dims -> Int]
  <2>1. \A d \in Dims : Low(radius, d) \in Int /\ High(radius, d) \in Int BY <1>0, DimTypes
  <2>2. lo' = [d \in Dims |-> Low(radius, d)] /\ hi' = [d \in Dims |-> High(radius, d)]
    BY DEF Clip, Low, High
  <2>3. QED BY <2>1, <2>2
<1>3. TypeOK'
  <2>1. iter' \in [Dims -> Int] BY <1>0, <1>2 DEF TypeOK
  <2>2. QED BY <1>0, <1>2, <2>1 DEF TypeOK, Clip
<1>4. (Params /\ Bounds /\ Returned)'
  BY <1>0 DEF IInv, Params, Bounds, Returned, Before
<1>5. iter'[1] = lo'[1] /\ lo'[1] \in Int BY <1>0, <1>2 DEF TypeOK
<1>6. Nest'
  <2>1. OnGrid(iter[1], 1)'
    <3>1. rt.step[1] \in Nat BY <1>0, DimTypes
    <3>2. lo'[1] = lo'[1] + 0 * rt.step[1] BY <1>5, <3>1
    <3>3. QED BY <1>0, <1>5, <3>2 DEF OnGrid
  <2>2. \A d \in Dims : (Low(radius, d) = lo[d] /\ High(radius, d) = hi[d])'
    BY <1>0, <1>1 DEF Low, High
  <2>3. QED BY <1>0, <1>5, <2>1, <2>2 DEF Nest
<1>7. Walked'
  <2>1. SUFFICES ASSUME NEW p \in GridAt(radius), p[1] < iter'[1] PROVE FALSE
    BY <1>0 DEF Walked, Precedes, GridAt, ArgsOf, Low, High
  <2>2. p[1] \in Int /\ Low(radius, 1) <= p[1] BY <1>0, DimTypes, GridPoint
  <2>3. QED BY <1>0, <1>1, <1>5, <2>1, <2>2
<1>8. Swept' BY <1>0, SweptKept DEF IInv, Before
<1>9. Sound' BY <1>0 DEF IInv, Sound, WithinBox, Before, Supported
<1>10. QED BY <1>3, <1>4, <1>6, <1>7, <1>8, <1>9 DEF IInv

(* What precedes the loops after they descend is what preceded them.        *)
LEMMA DescendPrecedes ==
  ASSUME IInv, Descend, NEW p \in GridAt(radius)
  PROVE  Precedes(p, level)' <=> Precedes(p, level)
<1>0. /\ TypeOK /\ Nest /\ pc = "loop" /\ level' = level + 1 /\ level + 1 \in Dims
      /\ level \in Nat /\ iter' = [iter EXCEPT ![level + 1] = lo[level + 1]]
  BY EngIntRunAssumption DEF IInv, TypeOK, Descend, Inside, Dims
<1>1. /\ \A d \in 1..level : iter'[d] = iter[d]
      /\ iter'[level + 1] = lo[level + 1] /\ lo[level + 1] \in Int
  <2>1. \A d \in 1..level : d \in Dims /\ d # level + 1
    BY <1>0, EngIntRunAssumption DEF Dims
  <2>2. iter \in [Dims -> Int] /\ lo \in [Dims -> Int] BY <1>0 DEF TypeOK
  <2>3. QED BY <1>0, <2>1, <2>2
<1>2. ~(p[level + 1] < iter'[level + 1])
  <2>1. Low(radius, level + 1) \in Int /\ High(radius, level + 1) \in Int BY <1>0, DimTypes
  <2>2. p[level + 1] \in Int /\ Low(radius, level + 1) <= p[level + 1] BY <1>0, <2>1, GridPoint
  <2>3. Low(radius, level + 1) = lo[level + 1] BY <1>0 DEF Nest
  <2>4. QED BY <1>1, <2>2, <2>3
<1>3. ASSUME NEW m \in 1..level
      PROVE  (p[m] < iter'[m] /\ \A j \in 1..(m - 1) : p[j] = iter'[j])
             <=> (p[m] < iter[m] /\ \A j \in 1..(m - 1) : p[j] = iter[j])
  <2>1. \A j \in 1..(m - 1) : j \in 1..level BY <1>0
  <2>2. QED BY <1>1, <2>1
<1>4. 1..(level + 1) = (1..level) \union {level + 1} BY <1>0
<1>5. QED BY <1>0, <1>2, <1>3, <1>4 DEF Precedes

LEMMA DescendInv == IInv /\ Descend => IInv'
<1> SUFFICES ASSUME IInv, Descend PROVE IInv' OBVIOUS
<1> USE DEF shared, history
<1>0. /\ TypeOK /\ Nest /\ pc = "loop" /\ pc' = pc /\ level' = level + 1 /\ level + 1 \in Dims
      /\ level \in Nat /\ level >= 1 /\ iter[level] <= hi[level]
      /\ rt' = rt /\ req' = req /\ radius' = radius /\ tested' = tested
      /\ lo' = lo /\ hi' = hi /\ greatest' = greatest /\ opt' = opt /\ dim' = dim
      /\ iter' = [iter EXCEPT ![level + 1] = lo[level + 1]]
  BY EngIntRunAssumption DEF IInv, TypeOK, Descend, Inside, Dims
<1>1. TypeOK'
  <2>1. iter' \in [Dims -> Int] BY <1>0 DEF TypeOK
  <2>2. QED BY <1>0, <2>1 DEF TypeOK, Descend
<1>2. (Params /\ Bounds /\ Returned)'
  BY <1>0 DEF IInv, Params, Bounds, Returned, Before
<1>3. /\ \A d \in 1..level : iter'[d] = iter[d] /\ d \in Dims
      /\ iter'[level + 1] = lo[level + 1] /\ lo[level + 1] \in Int
  <2>1. \A d \in 1..level : d \in Dims /\ d # level + 1
    BY <1>0, EngIntRunAssumption DEF Dims
  <2>2. iter \in [Dims -> Int] /\ lo \in [Dims -> Int] BY <1>0 DEF TypeOK
  <2>3. QED BY <1>0, <2>1, <2>2
<1>4. Nest'
  <2>1. ASSUME NEW d \in 1..(level + 1)
        PROVE  lo[d] <= iter'[d] /\ \E k \in Nat : iter'[d] = lo[d] + k * rt.step[d]
    <3>1. CASE d \in 1..level BY <1>0, <1>3, <3>1 DEF Nest, OnGrid
    <3>2. CASE d = level + 1
      <4>1. rt.step[d] \in Nat BY <1>0, <3>2, DimTypes
      <4>2. lo[d] = lo[d] + 0 * rt.step[d] BY <1>3, <3>2, <4>1
      <4>3. QED BY <1>3, <3>2, <4>2
    <3>3. QED BY <1>0, <2>1, <3>1, <3>2
  <2>2. \A d \in 1..level : iter'[d] <= hi[d]
    <3>1. \A d \in 1..level : d \in 1..(level - 1) \/ d = level BY <1>0
    <3>2. QED BY <1>0, <1>3, <3>1 DEF Nest
  <2>3. \A d \in Dims : (lo[d] = Low(radius, d) /\ hi[d] = High(radius, d))'
    BY <1>0 DEF Nest, Low, High
  <2>4. QED BY <1>0, <2>1, <2>2, <2>3 DEF Nest, OnGrid
<1>5. Walked'
  <2>1. SUFFICES ASSUME NEW p \in GridAt(radius), Precedes(p, level)' PROVE ArgsOf(p) \in tested
    BY <1>0 DEF Walked, GridAt, ArgsOf, Low, High, Precedes
  <2>2. Precedes(p, level) BY <2>1, DescendPrecedes
  <2>3. QED BY <1>0, <2>2 DEF IInv, Walked
<1>6. Swept' BY <1>0, SweptKept DEF IInv, Before
<1>7. Sound' BY <1>0 DEF IInv, Sound, WithinBox, Before, Supported
<1>8. QED BY <1>1, <1>2, <1>4, <1>5, <1>6, <1>7 DEF IInv

-----------------------------------------------------------------------------
(* Advancing loop n after everything below iter[n] + 1 step has been walked. *)
(* The points that precede the new iter[1..n] precede the old one, or agree  *)
(* with it in the first n coordinates.                                       *)
LEMMA AdvancePrecedes ==
  ASSUME TypeOK, Nest, pc = "loop", NEW n \in 1..level, level' = n, Advance(n),
         NEW p \in GridAt(radius), Precedes(p, level)'
  PROVE  \/ Precedes(p, n)
         \/ \A j \in 1..n : p[j] = iter[j]
<1>0. /\ level \in 1..LoopDims /\ n \in Dims /\ LoopDims \in Nat
      /\ iter' = [iter EXCEPT ![n] = iter[n] + rt.step[n]] /\ iter \in [Dims -> Int]
  BY EngIntRunAssumption DEF TypeOK, Dims, Advance
<1>1. PICK m \in 1..n : p[m] < iter'[m] /\ \A j \in 1..(m - 1) : p[j] = iter'[j]
  BY DEF Precedes
<1>2. /\ m \in Dims /\ \A j \in 1..(m - 1) : j \in Dims /\ j # n BY <1>0 DEF Dims
<1>3. /\ iter'[m] = IF m = n THEN iter[m] + rt.step[m] ELSE iter[m]
      /\ \A j \in 1..(m - 1) : p[j] = iter[j]
  BY <1>0, <1>1, <1>2
<1>4. /\ iter[m] \in Int /\ rt.step[m] \in Nat /\ lo[m] \in Int
      /\ Low(radius, m) \in Int /\ High(radius, m) \in Int
  BY <1>2, DimTypes
<1>5. p[m] \in Int /\ \E k \in Nat : p[m] = Low(radius, m) + k * rt.step[m]
  BY <1>2, <1>4, GridPoint
<1>6. CASE p[m] < iter[m] BY <1>3, <1>6 DEF Precedes
<1>7. CASE ~(p[m] < iter[m]) /\ m = n
  <2>1. \E k \in Nat : iter[m] = lo[m] + k * rt.step[m] BY <1>0, <1>7 DEF Nest, OnGrid
  <2>2. Low(radius, m) = lo[m] BY <1>2 DEF Nest
  <2>3. p[m] = iter[m] BY <1>1, <1>3, <1>4, <1>5, <1>7, <2>1, <2>2, GridGap
  <2>4. QED BY <1>0, <1>3, <1>7, <2>3
<1>8. CASE ~(p[m] < iter[m]) /\ m # n BY <1>1, <1>3, <1>8
<1>9. QED BY <1>6, <1>7, <1>8

(* Leaving loop n + 1 for the next turn of loop n: what agrees with the     *)
(* loops up to n has been passed by loop n + 1.                             *)
LEMMA AscendBehind ==
  ASSUME IInv, Ascend, NEW p \in GridAt(radius), Precedes(p, level)'
  PROVE  Precedes(p, level)
<1> DEFINE n == level - 1
<1>0. /\ TypeOK /\ Nest /\ pc = "loop" /\ level' = n /\ Advance(n)
      /\ level \in Dims /\ n \in 1..level /\ level \in Nat /\ iter[level] > hi[level]
  BY EngIntRunAssumption DEF IInv, TypeOK, Ascend, Past, Dims
<1>1. Precedes(p, n) \/ \A j \in 1..n : p[j] = iter[j] BY <1>0, AdvancePrecedes
<1>2. CASE Precedes(p, n)
  <2>1. \A j \in 1..n : j \in 1..level BY <1>0
  <2>2. QED BY <1>2, <2>1 DEF Precedes
<1>3. CASE \A j \in 1..n : p[j] = iter[j]
  <2>1. /\ iter[level] \in Int /\ hi[level] \in Int /\ High(radius, level) \in Int
        /\ Low(radius, level) \in Int
    BY <1>0, DimTypes
  <2>2. p[level] \in Int /\ p[level] <= High(radius, level) BY <1>0, <2>1, GridPoint
  <2>3. High(radius, level) = hi[level] BY <1>0 DEF Nest
  <2>4. p[level] < iter[level] BY <1>0, <2>1, <2>2, <2>3
  <2>5. level \in 1..level BY <1>0
  <2>6. QED BY <1>3, <2>4, <2>5 DEF Precedes
<1>4. QED BY <1>1, <1>2, <1>3

LEMMA AscendInv == IInv /\ Ascend => IInv'
<1> SUFFICES ASSUME IInv, Ascend PROVE IInv' OBVIOUS
<1> USE DEF shared, history
<1> DEFINE n == level - 1
<1>0. /\ TypeOK /\ Nest /\ pc = "loop" /\ pc' = pc /\ level' = n /\ n \in Dims
      /\ level \in Dims /\ n \in 1..level /\ level \in Nat /\ iter[level] > hi[level]
      /\ rt' = rt /\ req' = req /\ radius' = radius /\ tested' = tested
      /\ lo' = lo /\ hi' = hi /\ greatest' = greatest /\ opt' = opt /\ dim' = dim
      /\ iter' = [iter EXCEPT ![n] = iter[n] + rt.step[n]]
  BY EngIntRunAssumption DEF IInv, TypeOK, Ascend, Past, Advance, Dims
<1>1. /\ iter[n] \in Int /\ rt.step[n] \in Nat /\ lo[n] \in Int BY <1>0, DimTypes
<1>2. TypeOK'
  <2>1. iter' \in [Dims -> Int] BY <1>0, <1>1 DEF TypeOK
  <2>2. QED BY <1>0, <2>1 DEF TypeOK, Ascend
<1>3. (Params /\ Bounds /\ Returned)'
  BY <1>0 DEF IInv, Params, Bounds, Returned, Before
<1>4. /\ \A d \in 1..(n - 1) : iter'[d] = iter[d] /\ d \in Dims
      /\ iter'[n] = iter[n] + rt.step[n]
  <2>1. \A d \in 1..(n - 1) : d \in Dims /\ d # n BY <1>0, EngIntRunAssumption DEF Dims
  <2>2. iter \in [Dims -> Int] BY <1>0 DEF TypeOK
  <2>3. QED BY <1>0, <2>1, <2>2
<1>5. Nest'
  <2>1. lo[n] <= iter'[n] /\ \E k \in Nat : iter'[n] = lo[n] + k * rt.step[n]
    <3>1. lo[n] <= iter[n] /\ \E k \in Nat : iter[n] = lo[n] + k * rt.step[n]
      BY <1>0 DEF Nest, OnGrid
    <3>2. \E k \in Nat : iter[n] + rt.step[n] = lo[n] + k * rt.step[n]
      BY <1>1, <3>1, GridNext
    <3>3. QED BY <1>1, <1>4, <3>1, <3>2
  <2>2. \A d \in 1..(n - 1) : lo[d] <= iter'[d] /\ iter'[d] <= hi[d]
                          /\ \E k \in Nat : iter'[d] = lo[d] + k * rt.step[d]
    BY <1>0, <1>4 DEF Nest, OnGrid
  <2>3. \A d \in 1..n : d \in 1..(n - 1) \/ d = n BY <1>0
  <2>4. \A d \in Dims : (lo[d] = Low(radius, d) /\ hi[d] = High(radius, d))'
    BY <1>0 DEF Nest, Low, High
  <2>5. QED BY <1>0, <2>1, <2>2, <2>3, <2>4 DEF Nest, OnGrid
<1>6. Walked'
  <2>1. SUFFICES ASSUME NEW p \in GridAt(radius), Precedes(p, level)' PROVE ArgsOf(p) \in tested
    BY <1>0 DEF Walked, GridAt, ArgsOf, Low, High
  <2>2. Precedes(p, level) BY <2>1, AscendBehind
  <2>3. QED BY <1>0, <2>2 DEF IInv, Walked
<1>7. Swept' BY <1>0, SweptKept DEF IInv, Before
<1>8. Sound' BY <1>0 DEF IInv, Sound, WithinBox, Before, Supported
<1>9. QED BY <1>2, <1>3, <1>5, <1>6, <1>7, <1>8 DEF IInv

LEMMA EndRadiusInv == IInv /\ EndRadius => IInv'
<1> SUFFICES ASSUME IInv, EndRadius PROVE IInv' OBVIOUS
<1> USE DEF shared, history
<1>0. /\ TypeOK /\ Nest /\ pc = "loop" /\ pc' = "radius" /\ level = 1 /\ 1 \in Dims
      /\ iter[1] > hi[1] /\ radius' = radius + 1 /\ radius \in Nat
      /\ rt' = rt /\ req' = req /\ tested' = tested
      /\ greatest' = greatest /\ opt' = opt /\ dim' = dim
  BY EngIntRunAssumption DEF IInv, TypeOK, EndRadius, Past, Dims
<1>1. TypeOK' BY <1>0 DEF TypeOK, EndRadius
<1>2. (Params /\ Bounds /\ Returned /\ Nest /\ Walked)'
  BY <1>0 DEF IInv, Params, Bounds, Returned, Before, Nest, Walked
<1>3. ASSUME NEW p \in GridAt(radius) PROVE ArgsOf(p) \in tested
  <2>1. /\ iter[1] \in Int /\ hi[1] \in Int /\ High(radius, 1) \in Int /\ Low(radius, 1) \in Int
    BY <1>0, DimTypes
  <2>2. p[1] \in Int /\ p[1] <= High(radius, 1) BY <1>0, <2>1, GridPoint
  <2>3. p[1] < iter[1] BY <1>0, <2>1, <2>2 DEF Nest
  <2>4. Precedes(p, level) BY <1>0, <2>3 DEF Precedes
  <2>5. QED BY <1>0, <2>4 DEF IInv, Walked
<1>4. Swept'
  <2>1. ASSUME NEW r \in 0..radius, NEW p \in GridAt(r) PROVE ArgsOf(p) \in tested
    <3>1. CASE r = radius BY <1>3, <3>1
    <3>2. CASE r \in 0..(radius - 1) BY <1>0, <3>2 DEF IInv, Swept, Before
    <3>3. QED BY <1>0, <3>1, <3>2
  <2>2. 0..(radius' - 1) = 0..radius BY <1>0
  <2>3. QED BY <1>0, <2>1, <2>2 DEF Swept, GridAt, ArgsOf, Low, High
<1>5. Sound' BY <1>0 DEF IInv, Sound, WithinBox, Before, Supported
<1>6. QED BY <1>1, <1>2, <1>4, <1>5 DEF IInv

LEMMA ReturnInv == IInv /\ Return => IInv'
<1> SUFFICES ASSUME IInv, Return PROVE IInv' OBVIOUS
<1> USE DEF shared, history
<1>0. /\ TypeOK /\ pc = "radius" /\ pc' = "returned" /\ radius > greatest
      /\ radius' = radius /\ rt' = rt /\ req' = req /\ tested' = tested
      /\ greatest' = greatest /\ opt' = opt /\ dim' = dim
  BY DEF IInv, Return
<1>1. TypeOK' BY <1>0 DEF TypeOK, Return
<1>2. (Params /\ Bounds /\ Returned /\ Nest /\ Walked)'
  BY <1>0 DEF IInv, Params, Bounds, Returned, Before, Nest, Walked
<1>3. Swept' BY <1>0, SweptKept DEF IInv, Before
<1>4. Sound' BY <1>0 DEF IInv, Sound, WithinBox, Before, Supported
<1>5. QED BY <1>1, <1>2, <1>3, <1>4 DEF IInv

LEMMA UnsupportedInv == IInv /\ Unsupported => IInv'
<1> SUFFICES ASSUME IInv, Unsupported PROVE IInv' OBVIOUS
<1> USE DEF shared, history
<1>0. /\ TypeOK /\ pc = "loop" /\ pc' = "killed"
      /\ radius' = radius /\ rt' = rt /\ req' = req /\ tested' = tested
      /\ greatest' = greatest /\ opt' = opt /\ dim' = dim
  BY DEF IInv, Unsupported, AtPoint, Inside
<1>1. TypeOK' BY <1>0 DEF TypeOK, Unsupported
<1>2. (Params /\ Bounds /\ Returned /\ Nest /\ Walked)'
  BY <1>0 DEF IInv, Params, Bounds, Returned, Before, Nest, Walked
<1>3. Swept' BY <1>0, SweptKept DEF IInv, Before
<1>4. Sound' BY <1>0 DEF IInv, Sound, WithinBox, Before, Supported
<1>5. QED BY <1>1, <1>2, <1>3, <1>4 DEF IInv

-----------------------------------------------------------------------------
(* The innermost body.  The point it is at lies in the caller's box ...     *)
LEMMA AskInBox ==
  ASSUME IInv, NEW t, Ask(t)
  PROVE  Args \in Box(req) /\ req.useDim \in Dims
<1>0. /\ TypeOK /\ Nest /\ pc = "loop" /\ level = LoopDims /\ iter[level] <= hi[level]
      /\ rt.useDim \in Dims /\ rt.useDim = req.useDim /\ req \in RequestType
      /\ LoopDims \in Nat
  BY EngIntRunAssumption DEF IInv, TypeOK, Params, Ask, AtPoint, Inside, Supported
<1>1. ASSUME NEW d \in 1..req.useDim
      PROVE  iter[d] \in req.from[d]..req.to[d]
  <2>1. d \in Dims /\ d \in 1..level /\ d \in 1..ArrDims /\ ~(d > req.useDim)
    BY <1>0, EngIntRunAssumption DEF Dims
  <2>2. rt.from[d] = req.from[d] /\ rt.to[d] = req.to[d]
    BY <1>0, <2>1 DEF IInv, Params, Before
  <2>3. rt.from[d] \in Int /\ rt.to[d] \in Int /\ iter[d] \in Int /\ radius \in Nat
    BY <1>0, <2>1, DimTypes DEF TypeOK
  <2>4. lo[d] = Low(radius, d) /\ hi[d] = High(radius, d) /\ lo[d] <= iter[d]
    BY <1>0, <2>1 DEF Nest
  <2>5. iter[d] <= hi[d]
    <3>1. d = level \/ d \in 1..(level - 1) BY <1>0, <2>1 DEF Dims
    <3>2. QED BY <1>0, <3>1 DEF Nest
  <2>6. Low(radius, d) >= rt.from[d] /\ High(radius, d) <= rt.to[d]
    BY <2>3 DEF Low, High, Larger, Smaller
  <2>7. lo[d] \in Int /\ hi[d] \in Int BY <1>0, <2>1, DimTypes
  <2>8. req.from[d] <= iter[d] /\ iter[d] <= req.to[d]
    BY <2>2, <2>3, <2>4, <2>5, <2>6, <2>7
  <2>9. QED BY <2>2, <2>3, <2>8
<1>2. \A d \in 1..req.useDim : iter[d] \in Extent(req) BY <1>1 DEF Extent
<1>3. QED BY <1>0, <1>1, <1>2 DEF Args, Box

(* ... and evaluating it keeps the points on record sound; *)
LEMMA AskSound ==
  ASSUME IInv, NEW t, Ask(t), pc' \in {"loop", "returned"}
  PROVE  Sound' /\ Swept' /\ pc = "loop"
<1>0. /\ pc = "loop" /\ rt' = rt /\ req' = req /\ radius' = radius
      /\ tested' = tested \union {Args} /\ Supported
  BY DEF Ask, AtPoint, Inside
<1>1. Swept' BY <1>0, SweptKept DEF IInv, Before
<1>2. Args \in Box(req) BY AskInBox
<1>3. WithinBox' BY <1>0, <1>2 DEF IInv, Sound, WithinBox
<1>4. Sound'
  <2>1. tested' # {} /\ Supported' BY <1>0 DEF Supported
  <2>2. pc' \notin Before
    BY DEF Before
  <2>3. QED BY <1>3, <2>1, <2>2 DEF Sound
<1>5. QED BY <1>0, <1>1, <1>4

(* if the loop goes on, every point up to the next one has been evaluated;  *)
LEMMA AskWalked ==
  ASSUME IInv, NEW t, Ask(t), Advance(LoopDims), pc' = pc
  PROVE  Nest' /\ Walked' /\ iter' \in [Dims -> Int]
<1> DEFINE n == LoopDims
<1>0. /\ TypeOK /\ Nest /\ pc = "loop" /\ pc' = pc /\ level = n /\ level' = level /\ n \in Dims
      /\ n \in 1..level /\ n \in Nat /\ Supported
      /\ rt' = rt /\ req' = req /\ radius' = radius /\ tested' = tested \union {Args}
      /\ lo' = lo /\ hi' = hi /\ greatest' = greatest
      /\ iter[n] <= hi[n]
      /\ iter' = [iter EXCEPT ![n] = iter[n] + rt.step[n]]
  BY EngIntRunAssumption DEF IInv, TypeOK, Ask, AtPoint, Inside, Advance, Dims
<1>1. /\ iter[n] \in Int /\ rt.step[n] \in Nat /\ lo[n] \in Int BY <1>0, DimTypes
<1>2. iter' \in [Dims -> Int] BY <1>0, <1>1 DEF TypeOK
<1>3. /\ \A d \in 1..(n - 1) : iter'[d] = iter[d] /\ d \in Dims
      /\ iter'[n] = iter[n] + rt.step[n]
  <2>1. \A d \in 1..(n - 1) : d \in Dims /\ d # n BY <1>0 DEF Dims
  <2>2. iter \in [Dims -> Int] BY <1>0 DEF TypeOK
  <2>3. QED BY <1>0, <2>1, <2>2
<1>4. Nest'
  <2>1. lo[n] <= iter'[n] /\ \E k \in Nat : iter'[n] = lo[n] + k * rt.step[n]
    <3>1. lo[n] <= iter[n] /\ \E k \in Nat : iter[n] = lo[n] + k * rt.step[n]
      BY <1>0 DEF Nest, OnGrid
    <3>2. \E k \in Nat : iter[n] + rt.step[n] = lo[n] + k * rt.step[n]
      BY <1>1, <3>1, GridNext
    <3>3. QED BY <1>1, <1>3, <3>1, <3>2
  <2>2. \A d \in 1..(n - 1) : lo[d] <= iter'[d] /\ iter'[d] <= hi[d]
                          /\ \E k \in Nat : iter'[d] = lo[d] + k * rt.step[d]
    BY <1>0, <1>3 DEF Nest, OnGrid
  <2>3. \A d \in 1..n : d \in 1..(n - 1) \/ d = n BY <1>0
  <2>4. \A d \in Dims : (lo[d] = Low(radius, d) /\ hi[d] = High(radius, d))'
    BY <1>0 DEF Nest, Low, High
  <2>5. QED BY <1>0, <2>1, <2>2, <2>3, <2>4 DEF Nest, OnGrid
<1>5. Walked'
  <2>1. SUFFICES ASSUME NEW p \in GridAt(radius), Precedes(p, level)' PROVE ArgsOf(p) \in tested'
    BY <1>0 DEF Walked, GridAt, ArgsOf, Low, High
  <2>2. Precedes(p, n) \/ \A j \in 1..n : p[j] = iter[j] BY <1>0, <2>1, AdvancePrecedes
  <2>3. CASE Precedes(p, n) BY <1>0, <2>3 DEF IInv, Walked
  <2>4. CASE \A j \in 1..n : p[j] = iter[j]
    <3>1. \A d \in 1..rt.useDim : d \in 1..n BY <1>0 DEF Supported, Dims
    <3>2. ArgsOf(p) = Args BY <2>4, <3>1 DEF ArgsOf, Args
    <3>3. QED BY <1>0, <3>2
  <2>5. QED BY <2>2, <2>3, <2>4
<1>6. QED BY <1>2, <1>4, <1>5

(* and a true answer leaves the result set typed and well spaced.           *)
LEMMA ReportTyped ==
  ASSUME IInv, NEW t, Ask(t), Report
  PROVE  prev' \in Seq(Int) /\ WellSpaced(prev') /\ offset' \in Int
<1>1. Val(Args) \in Int
  <2>1. Args \in Box(req) /\ req.useDim \in 1..LoopDims BY AskInBox DEF Dims
  <2>2. req \in Requests BY DEF IInv, TypeOK
  <2>3. QED BY <2>1, <2>2, EngIntRunAssumption
<1>2. prev \in Seq(Int) /\ WellSpaced(prev) /\ offset \in Int /\ lv \in Int BY DEF IInv, TypeOK
<1>3. QED BY <1>1, <1>2, RememberSpaced DEF Report

LEMMA MissInv == ASSUME IInv, NEW t, Miss(t) PROVE IInv'
<1>0. /\ TypeOK /\ Ask(t) /\ Advance(LoopDims) /\ pc' = pc /\ total' = total /\ ret' = ret
      /\ prev' = prev /\ offset' = offset
      /\ rt' = rt /\ req' = req /\ opt' = opt /\ dim' = dim /\ greatest' = greatest
      /\ radius' = radius /\ lo' = lo /\ hi' = hi /\ level' = level /\ lv' = lv
  BY DEF IInv, Miss, Ask
<1>1. pc = "loop" BY <1>0 DEF Ask, AtPoint, Inside
<1>2. Nest' /\ Walked' /\ iter' \in [Dims -> Int] BY <1>0, AskWalked
<1>3. TypeOK' BY <1>0, <1>2 DEF TypeOK
<1>4. (Params /\ Bounds /\ Returned)' BY <1>0, <1>1 DEF IInv, Params, Bounds, Returned, Before
<1>5. Sound' /\ Swept' BY <1>0, <1>1, AskSound
<1>6. QED BY <1>2, <1>3, <1>4, <1>5 DEF IInv

LEMMA CountInv == ASSUME IInv, NEW t, Count(t) PROVE IInv'
<1>0. /\ TypeOK /\ Ask(t) /\ Report /\ Advance(LoopDims) /\ pc' = pc
      /\ total' = total + 1 /\ ret' = ret
      /\ rt' = rt /\ req' = req /\ opt' = opt /\ dim' = dim /\ greatest' = greatest
      /\ radius' = radius /\ lo' = lo /\ hi' = hi /\ level' = level /\ lv' = lv
  BY DEF IInv, Count, Ask
<1>1. pc = "loop" BY <1>0 DEF Ask, AtPoint, Inside
<1>2. Nest' /\ Walked' /\ iter' \in [Dims -> Int] BY <1>0, AskWalked
<1>3. prev' \in Seq(Int) /\ WellSpaced(prev') /\ offset' \in Int BY <1>0, ReportTyped
<1>4. TypeOK' BY <1>0, <1>2, <1>3 DEF TypeOK
<1>5. (Params /\ Bounds /\ Returned)' BY <1>0, <1>1 DEF IInv, Params, Bounds, Returned, Before
<1>6. Sound' /\ Swept' BY <1>0, <1>1, AskSound
<1>7. QED BY <1>2, <1>4, <1>5, <1>6 DEF IInv

LEMMA StopRunInv == ASSUME IInv, NEW t, StopRun(t) PROVE IInv'
<1>0. /\ TypeOK /\ Ask(t) /\ Report /\ pc' = "returned" /\ ret' = 1 /\ Flag("STOP_RUN", opt)
      /\ total' = total /\ iter' = iter
      /\ rt' = rt /\ req' = req /\ opt' = opt /\ dim' = dim /\ greatest' = greatest
      /\ radius' = radius /\ lo' = lo /\ hi' = hi /\ level' = level /\ lv' = lv
  BY DEF IInv, StopRun, Ask
<1>1. pc = "loop" BY <1>0 DEF Ask, AtPoint, Inside
<1>2. prev' \in Seq(Int) /\ WellSpaced(prev') /\ offset' \in Int BY <1>0, ReportTyped
<1>3. TypeOK' BY <1>0, <1>2 DEF TypeOK
<1>4. (Params /\ Bounds /\ Returned /\ Nest /\ Walked)'
  BY <1>0, <1>1 DEF IInv, Params, Bounds, Returned, Nest, Walked, Before
<1>5. Sound' /\ Swept' BY <1>0, <1>1, AskSound
<1>6. QED BY <1>3, <1>4, <1>5 DEF IInv

-----------------------------------------------------------------------------
(* What touches nothing of the run but the offset of the log. *)
LEMMA IdleInv ==
  ASSUME IInv, offset' \in Int,
         UNCHANGED <<pc, req, rt, opt, dim, greatest, radius, lo, hi, level, iter, total, ret, lv,
                     prev, tested>>
  PROVE  IInv'
<1>1. TypeOK' BY DEF IInv, TypeOK
<1>2. (Params /\ Bounds /\ Returned)' BY DEF IInv, Params, Bounds, Returned, Before
<1>3. (Nest /\ Walked)'
  BY DEF IInv, Nest, Walked, OnGrid, GridAt, ArgsOf, Low, High, Precedes
<1>4. (Swept /\ Sound)'
  BY DEF IInv, Swept, Sound, WithinBox, Supported, GridAt, ArgsOf, Low, High, Before
<1>5. QED BY <1>1, <1>2, <1>3, <1>4 DEF IInv

LEMMA NextInv == IInv /\ [Next]_vars => IInv'
<1> SUFFICES ASSUME IInv, [Next]_vars PROVE IInv' OBVIOUS
<1>1. CASE Call BY <1>1, CallInv
<1>2. CASE FindGreatest BY <1>2, FindGreatestInv
<1>3. CASE Setup BY <1>3, SetupInv
<1>4. CASE Clip BY <1>4, ClipInv
<1>5. CASE Descend BY <1>5, DescendInv
<1>6. CASE Ascend BY <1>6, AscendInv
<1>7. CASE EndRadius BY <1>7, EndRadiusInv
<1>8. CASE Return BY <1>8, ReturnInv
<1>9. CASE Unsupported BY <1>9, UnsupportedInv
<1>10. ASSUME NEW t \in Passed, Miss(t) PROVE IInv' BY <1>10, MissInv
<1>11. ASSUME NEW t \in Passed, Count(t) PROVE IInv' BY <1>11, CountInv
<1>12. ASSUME NEW t \in Passed, StopRun(t) PROVE IInv' BY <1>12, StopRunInv
<1>13. CASE UNCHANGED vars BY <1>13, IdleInv DEF vars, shared, history, IInv, TypeOK
<1>14. QED
  BY <1>1, <1>2, <1>3, <1>4, <1>5, <1>6, <1>7, <1>8, <1>9, <1>10, <1>11, <1>12, <1>13
     DEF Next, Run

(* The inductive invariant holds in every state of every execution.         *)
THEOREM Invariance == Spec => []IInv
BY InitInv, NextInv, PTL DEF Spec

(* Types: every variable keeps its type and the result set stays well       *)
(* spaced, whatever the requests and the target function.                   *)
THEOREM TypeCorrect == Spec => []TypeOK
<1>1. IInv => TypeOK BY DEF IInv
<1>2. QED BY <1>1, Invariance, PTL

(* The engine never evaluates the target function outside the box.          *)
THEOREM StaysWithinBox == Spec => []WithinBox
<1>1. IInv => WithinBox BY DEF IInv, Sound
<1>2. QED BY <1>1, Invariance, PTL

-----------------------------------------------------------------------------
(* The last cube is the box: a sweep that reached its end has evaluated the *)
(* function on the whole grid of the caller.                                *)
LEMMA LastCube ==
  ASSUME IInv, pc \notin Before, radius > greatest
  PROVE  Lattice(req) \subseteq tested
<1> SUFFICES ASSUME NEW x \in Lattice(req) PROVE x \in tested OBVIOUS
<1> DEFINE n == req.useDim
<1> DEFINE p == [d \in Dims |-> IF d <= n THEN x[d] ELSE 0]
<1>0. /\ TypeOK /\ req \in RequestType /\ rt.useDim = n /\ rt.step = req.step
      /\ n \in 0..ArrDims /\ greatest \in Nat /\ radius \in Nat /\ dim = n + 1
      /\ LoopDims \in Nat /\ ArrDims \in Nat /\ LoopDims <= ArrDims
  BY EngIntRunAssumption DEF IInv, TypeOK, Params, Bounds, RequestType
<1>1. ASSUME NEW d \in Dims
      PROVE  p[d] \in (-greatest)..greatest
             /\ p[d] \in Axis(Low(greatest, d), High(greatest, d), rt.step[d])
  <2>0. d \in 1..ArrDims /\ d \in Nat BY <1>0 DEF Dims
  <2>1. CASE d <= n
    <3>1. d \in 1..n BY <1>0, <2>0, <2>1
    <3>2. x[d] \in req.from[d]..req.to[d] /\ x[d] \in Axis(req.from[d], req.to[d], req.step[d])
      BY <3>1 DEF Lattice, Box
    <3>3. req.from[d] \in Int /\ req.to[d] \in Int BY <1>0, <2>0 DEF RequestType
    <3>4. Abs(req.from[d]) <= greatest /\ Abs(req.to[d]) <= greatest
      BY <1>0, <3>1 DEF IInv, Bounds
    <3>5. rt.from[d] = req.from[d] /\ rt.to[d] = req.to[d]
      BY <1>0, <2>0, <2>1 DEF IInv, Params
    <3>6. Low(greatest, d) = req.from[d] /\ High(greatest, d) = req.to[d]
      BY <1>0, <3>3, <3>4, <3>5 DEF Low, High, Larger, Smaller, Abs
    <3>7. x[d] \in (-greatest)..greatest BY <1>0, <3>2, <3>3, <3>4 DEF Abs
    <3>8. QED BY <1>0, <2>1, <3>2, <3>6, <3>7
  <2>2. CASE d > n
    <3>1. rt.from[d] = 0 /\ rt.to[d] = 0 BY <1>0, <2>0, <2>2 DEF IInv, Params
    <3>2. Low(greatest, d) = 0 /\ High(greatest, d) = 0
      BY <1>0, <3>1 DEF Low, High, Larger, Smaller
    <3>3. rt.step[d] \in Nat BY <1>0, DimTypes
    <3>4. 0 = 0 + 0 * rt.step[d] /\ 0 \in 0..(0 - 0) BY <3>3
    <3>5. 0 \in Axis(0, 0, rt.step[d]) BY <3>4 DEF Axis
    <3>6. p[d] = 0 BY <1>0, <2>0, <2>2
    <3>7. QED BY <1>0, <3>2, <3>5, <3>6
  <2>3. QED BY <1>0, <2>0, <2>1, <2>2
<1>2. p \in GridAt(greatest) BY <1>1 DEF GridAt
<1>3. greatest \in 0..(radius - 1) BY <1>0
<1>4. ArgsOf(p) \in tested BY <1>2, <1>3 DEF IInv, Swept
<1>5. n \in 1..LoopDims BY <1>0, <1>4 DEF IInv, Sound, Supported, Dims
<1>6. \A d \in 1..n : p[d] = x[d] BY <1>0, <1>5 DEF Dims
<1>7. x = [d \in 1..n |-> x[d]] BY DEF Lattice, Box
<1>8. ArgsOf(p) = x BY <1>0, <1>6, <1>7 DEF ArgsOf
<1>9. QED BY <1>4, <1>8

(* A call that was not cut short by STOPRUN has evaluated every point of    *)
(* the caller's grid, for every box, number of dimensions and step.         *)
THEOREM Completeness == Spec => []Complete
<1>1. ASSUME IInv, Exhausted PROVE Lattice(req) \subseteq tested
  <2>1. pc \notin Before BY <1>1 DEF Exhausted, Before
  <2>2. radius > greatest BY <1>1 DEF IInv, Returned, Exhausted
  <2>3. QED BY <1>1, <2>1, <2>2, LastCube
<1>2. IInv => Complete BY <1>1 DEF Complete
<1>3. QED BY <1>2, Invariance, PTL

-----------------------------------------------------------------------------
(* While nothing has been counted, nothing has been saved and no evaluated  *)
(* point solves the equation.                                               *)
NoHitYet == prev = <<>> /\ \A x \in tested : ~Holds(x, NoTarget)

ZeroInv ==
  Kind # "target" =>
    /\ pc = "idle" => prev = <<>>
    /\ pc \in {"greatest", "radius", "loop"} /\ total = 0 => NoHitYet
    /\ pc = "returned" /\ ret = 0 => NoHitYet

LEMMA ZeroInvInit == Init => ZeroInv
BY DEF Init, ZeroInv, NoHitYet

LEMMA ZeroInvNext == IInv /\ ZeroInv /\ [Next]_vars => ZeroInv'
<1> SUFFICES ASSUME IInv, ZeroInv, [Next]_vars, Kind # "target" PROVE ZeroInv'
  BY DEF ZeroInv
<1> USE DEF ZeroInv, NoHitYet, shared, history
<1>1. CASE Call BY <1>1 DEF Call, Start
<1>2. CASE FindGreatest BY <1>2 DEF FindGreatest
<1>3. CASE Setup BY <1>3 DEF Setup
<1>4. CASE Clip BY <1>4 DEF Clip
<1>5. CASE Descend BY <1>5 DEF Descend, Inside
<1>6. CASE Ascend BY <1>6 DEF Ascend, Past
<1>7. CASE EndRadius BY <1>7 DEF EndRadius, Past
<1>8. CASE Return BY <1>8 DEF Return
<1>9. CASE Unsupported BY <1>9 DEF Unsupported
<1>10. ASSUME NEW t \in Passed, Miss(t) PROVE ZeroInv'
  <2>1. /\ pc = "loop" /\ pc' = pc /\ total' = total /\ prev' = prev /\ ~Answer(t)
        /\ tested' = tested \union {Args} /\ t = NoTarget
    BY <1>10 DEF Miss, Ask, AtPoint, Inside, Passed
  <2>2. CASE total = 0
    <3>1. prev = <<>> BY <2>1, <2>2
    <3>2. ~CheckPrevious(prev, Val(Args)) BY <3>1 DEF CheckPrevious
    <3>3. ~Holds(Args, NoTarget) BY <2>1, <3>2 DEF Answer
    <3>4. QED BY <2>1, <2>2, <3>3
  <2>3. CASE total # 0 BY <2>1, <2>3
  <2>4. QED BY <2>2, <2>3
<1>11. ASSUME NEW t \in Passed, Count(t) PROVE ZeroInv'
  <2>1. pc = "loop" /\ pc' = pc /\ total' = total + 1 /\ total \in Nat
    BY <1>11 DEF Count, Ask, AtPoint, Inside, IInv, TypeOK
  <2>2. QED BY <2>1
<1>12. ASSUME NEW t \in Passed, StopRun(t) PROVE ZeroInv' BY <1>12 DEF StopRun
<1>13. CASE UNCHANGED vars BY <1>13 DEF vars
<1>14. QED
  BY <1>1, <1>2, <1>3, <1>4, <1>5, <1>6, <1>7, <1>8, <1>9, <1>10, <1>11, <1>12, <1>13
     DEF Next, Run

(* "Not found for that interval": a call that returns 0 proves that no      *)
(* point of the caller's grid solves the equation.                          *)
THEOREM NotFoundIsRight == Spec => []ZeroMeansNone
<1>1. ASSUME IInv, ZeroInv PROVE ZeroMeansNone
  <2> SUFFICES ASSUME pc = "returned", ret = 0, Kind # "target", NEW x \in Lattice(req)
               PROVE  ~Holds(x, NoTarget)
    BY DEF ZeroMeansNone
  <2>1. pc \notin Before /\ radius > greatest BY <1>1 DEF IInv, Returned, Before
  <2>2. x \in tested BY <1>1, <2>1, LastCube
  <2>3. QED BY <1>1, <2>2 DEF ZeroInv, NoHitYet
<1>2. QED BY <1>1, ZeroInvInit, ZeroInvNext, Invariance, PTL DEF Spec

-----------------------------------------------------------------------------
(***************************************************************************)
(* EngIntRun implements BoxSearch: the sweep over the radius, the clipping *)
(* and the nest of loops are invisible to a caller, who sees points of the *)
(* box being tried and, at the end, a verdict that is deserved.            *)
(***************************************************************************)

(* The initial states map to initial states of the search. *)
LEMMA RefinesInit == Init => Search!SInit
BY DEF Init, Search!SInit, Verdict, Lattice

(* A step that touches neither the verdict, nor the request, nor the points *)
(* tried, is a stuttering step of the search.                               *)
LEMMA Stutters ==
  ASSUME req' = req, tested' = tested, Verdict' = Verdict
  PROVE  [Search!SNext]_(Search!svars)
BY DEF Search!svars, Box, Lattice, Extent, Axis

(* A call of the target function that does not end the run is a Try. *)
LEMMA Tries ==
  ASSUME IInv', pc = "loop", pc' = "loop", req' = req, tested' = tested \union {Args}
  PROVE  Search!SNext
<1>1. Args \in Box(req)
  <2>1. tested' \subseteq Box(req') BY DEF IInv, Sound, WithinBox
  <2>2. QED BY <2>1 DEF Box, Extent
<1>2. Verdict = "none" /\ Verdict' = "none" BY DEF Verdict
<1>3. Search!Try(Args) BY <1>1, <1>2 DEF Search!Try, Box, Lattice, Extent, Axis
<1>4. QED BY <1>1, <1>3 DEF Search!SNext

(* A return at the end of the sweep claims what the invariant has earned. *)
LEMMA ReturnExhausts == IInv /\ Return => Search!SNext
<1> SUFFICES ASSUME IInv, Return PROVE Search!SNext OBVIOUS
<1>1. /\ pc = "radius" /\ radius > greatest /\ pc' = "returned" /\ radius' = radius
      /\ greatest' = greatest /\ req' = req /\ tested' = tested
  BY DEF Return, history
<1>2. Lattice(req) \subseteq tested BY <1>1, LastCube DEF Before
<1>3. Verdict = "none" /\ Verdict' = "all"
  <2>1. radius \in Nat /\ greatest \in Nat BY DEF IInv, TypeOK
  <2>2. QED BY <1>1, <2>1 DEF Verdict
<1>4. Search!Exhaust BY <1>1, <1>2, <1>3 DEF Search!Exhaust, Box, Lattice, Extent, Axis
<1>5. QED BY <1>4 DEF Search!SNext

(* A return under STOPRUN is a hit at the point just tried. *)
LEMMA StopRunHits ==
  ASSUME IInv, IInv', NEW t \in Passed, StopRun(t)
  PROVE  Search!SNext
<1>1. /\ pc = "loop" /\ pc' = "returned" /\ radius' = radius /\ greatest' = greatest
      /\ req' = req /\ rt' = rt /\ tested' = tested \union {Args} /\ Answer(t)
  BY DEF StopRun, Ask, AtPoint, Inside
<1>2. Args \in Box(req)
  <2>1. tested' \subseteq Box(req') BY DEF IInv, Sound, WithinBox
  <2>2. QED BY <1>1, <2>1 DEF Box, Extent
<1>3. MayHold(Args)
  <2>1. rt.flags = {} BY <1>1 DEF IInv, Params, Before
  <2>2. t \in Garbage \union {NoTarget} BY <2>1 DEF Passed, Flag
  <2>3. Holds(Args, t) BY <1>1 DEF Answer
  <2>4. QED BY <2>2, <2>3 DEF MayHold
<1>4. Verdict = "none" /\ Verdict' = "first"
  <2>1. radius <= greatest BY <1>1 DEF IInv, Nest
  <2>2. radius \in Nat /\ greatest \in Nat BY DEF IInv, TypeOK
  <2>3. QED BY <1>1, <2>1, <2>2 DEF Verdict
<1>5. Search!Hit(Args)
  BY <1>1, <1>2, <1>3, <1>4 DEF Search!Hit, Box, Lattice, Extent, Axis
<1>6. QED BY <1>2, <1>5 DEF Search!SNext

(* Every step is a step of the search or leaves it alone. *)
LEMMA RefinesNext == IInv /\ IInv' /\ [Next]_vars => [Search!SNext]_(Search!svars)
<1> SUFFICES ASSUME IInv, IInv', [Next]_vars PROVE [Search!SNext]_(Search!svars) OBVIOUS
<1>1. CASE Call
  <2>1. pc = "idle" /\ pc' = "greatest" /\ req' = req /\ tested' = {} BY <1>1 DEF Call, Start
  <2>2. tested = {} BY <2>1 DEF IInv, Sound, Before
  <2>3. Verdict' = Verdict BY <2>1 DEF Verdict
  <2>4. QED BY <2>1, <2>2, <2>3, Stutters
<1>2. CASE FindGreatest \/ Setup \/ Clip \/ Descend \/ Ascend \/ EndRadius
  <2>1. /\ req' = req /\ tested' = tested
        /\ pc \in {"greatest", "radius", "loop"} /\ pc' \in {"greatest", "radius", "loop"}
    BY <1>2 DEF FindGreatest, Setup, Clip, Descend, Ascend, EndRadius, Inside, Past, history
  <2>2. Verdict' = Verdict BY <2>1 DEF Verdict
  <2>3. QED BY <2>1, <2>2, Stutters
<1>3. CASE Return BY <1>3, ReturnExhausts
<1>4. CASE Unsupported
  <2>1. pc = "loop" /\ pc' = "killed" /\ req' = req /\ tested' = tested
    BY <1>4 DEF Unsupported, AtPoint, Inside, history
  <2>2. Verdict = "none" /\ Verdict' = "aborted" BY <2>1 DEF Verdict
  <2>3. Search!Abort BY <2>1, <2>2 DEF Search!Abort, Box, Lattice, Extent, Axis
  <2>4. QED BY <2>3 DEF Search!SNext
<1>5. ASSUME NEW t \in Passed, Miss(t) PROVE [Search!SNext]_(Search!svars)
  <2>1. pc = "loop" /\ pc' = "loop" /\ req' = req /\ tested' = tested \union {Args}
    BY <1>5 DEF Miss, Ask, AtPoint, Inside
  <2>2. QED BY <2>1, Tries
<1>6. ASSUME NEW t \in Passed, Count(t) PROVE [Search!SNext]_(Search!svars)
  <2>1. pc = "loop" /\ pc' = "loop" /\ req' = req /\ tested' = tested \union {Args}
    BY <1>6 DEF Count, Ask, AtPoint, Inside
  <2>2. QED BY <2>1, Tries
<1>7. ASSUME NEW t \in Passed, StopRun(t) PROVE [Search!SNext]_(Search!svars)
  BY <1>7, StopRunHits
<1>8. CASE UNCHANGED vars
  <2>1. req' = req /\ tested' = tested /\ Verdict' = Verdict
    BY <1>8 DEF vars, history, Verdict
  <2>2. QED BY <2>1, Stutters
<1>9. QED BY <1>1, <1>2, <1>3, <1>4, <1>5, <1>6, <1>7, <1>8 DEF Next, Run

(* eng_int_run is a search of the box of its request: it tries only points  *)
(* of the box, claims to have tried them all only when it has, and stops    *)
(* early only at a point whose answer may be yes.                           *)
THEOREM Refinement == Spec => Implements
<1>1. IInv /\ IInv' /\ [Next]_vars => [Search!SNext]_(Search!svars) BY RefinesNext
<1>2. QED BY <1>1, RefinesInit, Invariance, PTL DEF Spec, Implements, Search!SSpec

-----------------------------------------------------------------------------
(* A set of natural numbers has a least element. *)
LEMMA Least == ASSUME NEW S \in SUBSET Nat, S # {} PROVE \E m \in S : \A k \in S : m <= k
<1>1. PICK m \in S : \A k \in S : ~ (<<k, m>> \in OpToRel(<, Nat))
  BY NatLessThanWellFounded, WFMin
<1>2. ASSUME NEW k \in S PROVE m <= k
  <2>1. k \in Nat /\ m \in Nat OBVIOUS
  <2>2. ~(k < m) BY <1>1, <2>1 DEF OpToRel
  <2>3. QED BY <2>1, <2>2
<1>3. QED BY <1>2

(* The norm of a point whose coordinates are bounded is one of them, and    *)
(* bounds them all: a least bound is attained.                              *)
LEMMA NormIsLargest ==
  ASSUME NEW n \in Nat \ {0}, NEW x, x = [d \in 1..n |-> x[d]], \A d \in 1..n : x[d] \in Int,
         NEW g \in Nat, \A d \in 1..n : Abs(x[d]) <= g
  PROVE  /\ Norm(x) \in Nat
         /\ \E d \in 1..n : Norm(x) = Abs(x[d])
         /\ \A d \in 1..n : Abs(x[d]) <= Norm(x)
<1> DEFINE bounds == {m \in Nat : \A d \in 1..n : Abs(x[d]) <= m}
<1>1. DOMAIN x = 1..n /\ 1 \in 1..n OBVIOUS
<1>2. \A d \in 1..n : Abs(x[d]) \in Nat BY DEF Abs
<1>3. g \in bounds OBVIOUS
<1>4. PICK m \in bounds : \A k \in bounds : m <= k BY <1>3, Least
<1>5. \E d \in 1..n : Abs(x[d]) = m
  <2>1. SUFFICES ASSUME \A d \in 1..n : Abs(x[d]) # m PROVE FALSE OBVIOUS
  <2>2. m \in Nat /\ \A d \in 1..n : Abs(x[d]) <= m OBVIOUS
  <2>3. Abs(x[1]) < m BY <1>1, <1>2, <2>1, <2>2
  <2>4. m - 1 \in Nat BY <1>1, <1>2, <2>2, <2>3
  <2>5. \A d \in 1..n : Abs(x[d]) <= m - 1 BY <1>2, <2>1, <2>2
  <2>6. m - 1 \in bounds BY <2>4, <2>5
  <2>7. QED BY <1>4, <2>2, <2>6
<1>6. \A d \in DOMAIN x : Abs(x[d]) <= m BY <1>1
<1>7. m \in {Abs(x[d]) : d \in DOMAIN x} BY <1>1, <1>5
<1>8. /\ Norm(x) \in {Abs(x[d]) : d \in DOMAIN x} /\ \A d \in DOMAIN x : Abs(x[d]) <= Norm(x)
  BY <1>6, <1>7 DEF Norm
<1>9. QED BY <1>1, <1>2, <1>8

-----------------------------------------------------------------------------
(* A point of the caller's box in the coordinates of the loops: the idle    *)
(* ones stand at 0.  ArgsOf is the way back.                                *)
Extend(x) == [d \in Dims |-> IF d <= req.useDim THEN x[d] ELSE 0]

LEMMA ParamTypes ==
  ASSUME IInv
  PROVE  /\ TypeOK /\ req \in RequestType /\ rt.useDim = req.useDim /\ rt.step = req.step
         /\ req.useDim \in 0..ArrDims /\ greatest \in Nat /\ radius \in Nat
         /\ LoopDims \in Nat \ {0} /\ ArrDims \in Nat /\ LoopDims <= ArrDims
         /\ \A d \in Dims : /\ d \in 1..ArrDims /\ d \in Nat
                            /\ req.from[d] \in Int /\ req.to[d] \in Int /\ req.step[d] \in Nat
<1>1. /\ TypeOK /\ req \in RequestType /\ rt.useDim = req.useDim /\ rt.step = req.step
      /\ greatest \in Nat /\ radius \in Nat
      /\ LoopDims \in Nat \ {0} /\ ArrDims \in Nat /\ LoopDims <= ArrDims
  BY EngIntRunAssumption DEF IInv, TypeOK, Params
<1>2. \A d \in Dims : d \in 1..ArrDims /\ d \in Nat BY <1>1 DEF Dims
<1>3. /\ req.useDim \in 0..ArrDims
      /\ \A d \in 1..ArrDims : req.from[d] \in Int /\ req.to[d] \in Int /\ req.step[d] \in Nat
  BY <1>1 DEF RequestType
<1>4. QED BY <1>1, <1>2, <1>3

(* The cube of the request at a radius is walked by the nest of loops ...   *)
LEMMA CubeInGrid ==
  ASSUME IInv, pc \notin Before, NEW r \in Nat, NEW x \in Cube(r)
  PROVE  Extend(x) \in GridAt(r)
<1> DEFINE p == Extend(x)
<1>1. ASSUME NEW d \in Dims
      PROVE  p[d] \in (-r)..r /\ p[d] \in Axis(Low(r, d), High(r, d), rt.step[d])
  <2>0. d \in 1..ArrDims /\ d \in Nat /\ rt.step[d] = req.step[d] /\ req.step[d] \in Nat
        /\ req.useDim \in Nat
    BY ParamTypes
  <2>1. CASE d <= req.useDim
    <3>1. d \in 1..req.useDim /\ p[d] = x[d] BY <2>0, <2>1 DEF Dims, Extend
    <3>2. x[d] \in Axis(Larger(-r, req.from[d]), Smaller(r, req.to[d]), req.step[d])
      BY <3>1 DEF Cube
    <3>3. rt.from[d] = req.from[d] /\ rt.to[d] = req.to[d]
      BY <2>0, <2>1 DEF IInv, Params
    <3>4. req.from[d] \in Int /\ req.to[d] \in Int BY ParamTypes
    <3>5. x[d] \in (-r)..r BY <3>2, <3>4 DEF Axis, Larger, Smaller
    <3>6. QED BY <2>0, <3>1, <3>2, <3>3, <3>5 DEF Low, High
  <2>2. CASE d > req.useDim
    <3>1. rt.from[d] = 0 /\ rt.to[d] = 0 BY <2>0, <2>2 DEF IInv, Params
    <3>2. Low(r, d) = 0 /\ High(r, d) = 0 BY <3>1 DEF Low, High, Larger, Smaller
    <3>3. 0 = 0 + 0 * rt.step[d] /\ 0 \in 0..(0 - 0) BY <2>0
    <3>4. 0 \in Axis(0, 0, rt.step[d]) BY <3>3 DEF Axis
    <3>5. p[d] = 0 BY <2>0, <2>2 DEF Extend
    <3>6. QED BY <3>2, <3>4, <3>5
  <2>3. QED BY <2>0, <2>1, <2>2
<1>2. p = [d \in Dims |-> p[d]] BY DEF Extend
<1>3. QED BY <1>1, <1>2 DEF GridAt

(* ... as the point itself, when wrap_int has a case for its dimensions.    *)
LEMMA CubeArgs ==
  ASSUME IInv, Supported, NEW r, NEW x \in Cube(r)
  PROVE  ArgsOf(Extend(x)) = x
<1>1. x = [d \in 1..req.useDim |-> x[d]] BY DEF Cube, Box
<1>2. rt.useDim = req.useDim /\ req.useDim \in 1..LoopDims /\ LoopDims \in Nat
  BY ParamTypes DEF Supported, Dims
<1>3. \A d \in 1..req.useDim : d \in Dims /\ d <= req.useDim BY <1>2 DEF Dims
<1>4. QED BY <1>1, <1>2, <1>3 DEF ArgsOf, Extend

LEMMA SweptCube ==
  ASSUME IInv, pc \notin Before, NEW r \in 0..(radius - 1), NEW x \in Cube(r)
  PROVE  x \in tested
<1>1. r \in Nat OBVIOUS
<1>2. ArgsOf(Extend(x)) \in tested BY <1>1, CubeInGrid DEF IInv, Swept
<1>3. Supported BY <1>2 DEF IInv, Sound
<1>4. QED BY <1>2, <1>3, CubeArgs

(* A grid point between the bounds is one the loop takes. *)
LEMMA AxisPoint ==
  ASSUME NEW a \in Int, NEW b \in Int, NEW s \in Nat, NEW v \in Int, a <= v, v <= b,
         \E k \in Nat : v = a + k * s
  PROVE  v \in Axis(a, b, s)
<1>1. PICK k \in Nat : v = a + k * s OBVIOUS
<1>2. CASE s = 0
  <2>1. v = a + 0 * s /\ 0 \in 0..(b - a) BY <1>1, <1>2
  <2>2. QED BY <2>1 DEF Axis
<1>3. CASE s > 0
  <2>1. k * s = k + k * (s - 1) /\ k * (s - 1) >= 0 BY <1>3
  <2>2. k \in 0..(b - a) BY <1>1, <1>3, <2>1
  <2>3. QED BY <1>1, <2>2 DEF Axis
<1>4. QED BY <1>2, <1>3

(* Where the target function is called, the loops stand at a point of the   *)
(* grid of this radius.                                                     *)
LEMMA AskInGrid ==
  ASSUME IInv, NEW t, Ask(t)
  PROVE  iter \in GridAt(radius) /\ ArgsOf(iter) = Args
<1>0. /\ TypeOK /\ Nest /\ pc = "loop" /\ level = LoopDims /\ iter[level] <= hi[level]
      /\ LoopDims \in Nat /\ radius \in Nat /\ iter = [d \in Dims |-> iter[d]]
  BY EngIntRunAssumption DEF IInv, TypeOK, Ask, AtPoint, Inside
<1>1. ASSUME NEW d \in Dims
      PROVE  iter[d] \in (-radius)..radius
             /\ iter[d] \in Axis(Low(radius, d), High(radius, d), rt.step[d])
  <2>1. d \in 1..level /\ (d = level \/ d \in 1..(level - 1)) BY <1>0 DEF Dims
  <2>2. /\ rt.from[d] \in Int /\ rt.to[d] \in Int /\ rt.step[d] \in Nat /\ iter[d] \in Int
        /\ Low(radius, d) \in Int /\ High(radius, d) \in Int
    BY <1>0, DimTypes
  <2>3. /\ lo[d] = Low(radius, d) /\ hi[d] = High(radius, d) /\ lo[d] <= iter[d] /\ iter[d] <= hi[d]
        /\ \E k \in Nat : iter[d] = lo[d] + k * rt.step[d]
    BY <1>0, <2>1 DEF Nest, OnGrid
  <2>4. iter[d] \in Axis(Low(radius, d), High(radius, d), rt.step[d])
    BY <2>2, <2>3, AxisPoint
  <2>5. QED BY <1>0, <2>2, <2>3, <2>4 DEF Low, High, Larger, Smaller
<1>2. iter \in GridAt(radius) BY <1>0, <1>1 DEF GridAt
<1>3. QED BY <1>2 DEF ArgsOf, Args

-----------------------------------------------------------------------------
(* STOPRUN, of a plain boolean function: while the call runs no evaluated   *)
(* point solves the equation, and the only one that does when it returns    *)
(* lies in the cube of the radius it stopped at.                            *)
StopInv ==
  Kind = "bool" /\ Flag("STOP_RUN", opt) =>
    /\ pc \in {"greatest", "radius", "loop"} => \A x \in tested : ~Holds(x, NoTarget)
    /\ pc = "returned" => \A x \in tested : Holds(x, NoTarget) =>
         /\ \A d \in 1..req.useDim : x[d] \in (-radius)..radius
         /\ \A y \in tested : Holds(y, NoTarget) => y = x

LEMMA StopInvInit == Init => StopInv
BY DEF Init, StopInv, Flag

LEMMA StopInvNext == IInv /\ StopInv /\ [Next]_vars => StopInv'
<1> SUFFICES ASSUME IInv, StopInv, [Next]_vars, Kind = "bool", Flag("STOP_RUN", opt')
             PROVE  StopInv'
  BY DEF StopInv
<1> USE DEF StopInv, shared, history
<1>1. CASE Call BY <1>1 DEF Call, Start
<1>2. CASE FindGreatest BY <1>2 DEF FindGreatest
<1>3. CASE Setup BY <1>3 DEF Setup
<1>4. CASE Clip BY <1>4 DEF Clip
<1>5. CASE Descend BY <1>5 DEF Descend, Inside
<1>6. CASE Ascend BY <1>6 DEF Ascend, Past
<1>7. CASE EndRadius BY <1>7 DEF EndRadius, Past
<1>8. CASE Return BY <1>8 DEF Return
<1>9. CASE Unsupported BY <1>9 DEF Unsupported
<1>10. ASSUME NEW t \in Passed, Miss(t) PROVE StopInv'
  <2>1. /\ pc = "loop" /\ pc' = pc /\ opt' = opt /\ ~Answer(t) /\ t = NoTarget
        /\ tested' = tested \union {Args}
    BY <1>10 DEF Miss, Ask, AtPoint, Inside, Passed
  <2>2. ~Holds(Args, NoTarget) BY <2>1 DEF Answer
  <2>3. QED BY <2>1, <2>2
<1>11. ASSUME NEW t \in Passed, Count(t) PROVE StopInv' BY <1>11 DEF Count, Ask
<1>12. ASSUME NEW t \in Passed, StopRun(t) PROVE StopInv'
  <2>1. /\ pc = "loop" /\ pc' = "returned" /\ opt' = opt /\ Ask(t)
        /\ tested' = tested \union {Args} /\ UNCHANGED <<req, rt, radius>>
    BY <1>12 DEF StopRun, Ask, AtPoint, Inside
  <2>2. \A x \in tested : ~Holds(x, NoTarget) BY <2>1
  <2>3. iter \in [Dims -> (-radius)..radius] BY <2>1, AskInGrid DEF GridAt
  <2>4. req.useDim \in Dims /\ rt.useDim = req.useDim /\ LoopDims \in Nat
    BY <2>1, AskInBox, ParamTypes
  <2>5. \A d \in 1..req.useDim : d \in Dims /\ Args[d] = iter[d] BY <2>4 DEF Args, Dims
  <2>6. \A d \in 1..req.useDim : Args[d] \in (-radius)..radius BY <2>3, <2>5
  <2>7. QED BY <2>1, <2>2, <2>6
<1>13. CASE UNCHANGED vars BY <1>13 DEF vars
<1>14. QED
  BY <1>1, <1>2, <1>3, <1>4, <1>5, <1>6, <1>7, <1>8, <1>9, <1>10, <1>11, <1>12, <1>13
     DEF Next, Run

(* A point of the box with unit steps and norm at most r is in the cube of  *)
(* radius r.                                                                *)
LEMMA UnitCube ==
  ASSUME IInv, \A d \in 1..req.useDim : req.step[d] = 1, NEW r \in Nat, NEW y \in Box(req),
         \A d \in 1..req.useDim : Abs(y[d]) <= r
  PROVE  y \in Cube(r)
<1> SUFFICES ASSUME NEW d \in 1..req.useDim
             PROVE  y[d] \in Axis(Larger(-r, req.from[d]), Smaller(r, req.to[d]), req.step[d])
  BY DEF Cube
<1>1. req.from[d] \in Int /\ req.to[d] \in Int /\ req.step[d] = 1
  <2>1. req \in RequestType /\ d \in 1..ArrDims BY ParamTypes
  <2>2. QED BY <2>1 DEF RequestType
<1>2. y[d] \in req.from[d]..req.to[d] BY DEF Box
<1> DEFINE a == Larger(-r, req.from[d])
           b == Smaller(r, req.to[d])
<1>3. a \in Int /\ b \in Int /\ a <= y[d] /\ y[d] <= b /\ y[d] \in Int
  BY <1>1, <1>2 DEF Larger, Smaller, Abs
<1>4. y[d] - a \in Nat /\ y[d] = a + (y[d] - a) * 1 BY <1>3
<1>5. QED BY <1>1, <1>3, <1>4, AxisPoint

(* The norm of a point of the box is a norm. *)
LEMMA BoxNorm ==
  ASSUME IInv, pc \notin Before, Supported, NEW x \in Box(req)
  PROVE  /\ Norm(x) \in Nat
         /\ \E d \in 1..req.useDim : Norm(x) = Abs(x[d])
         /\ \A d \in 1..req.useDim : x[d] \in Int /\ Abs(x[d]) <= Norm(x)
<1>1. /\ req.useDim \in Nat \ {0} /\ greatest \in Nat /\ req \in RequestType
      /\ req.useDim \in 1..ArrDims /\ ArrDims \in Nat
  BY ParamTypes DEF Supported, Dims
<1>2. dim = req.useDim + 1 BY DEF IInv, Bounds
<1>3. ASSUME NEW d \in 1..req.useDim PROVE x[d] \in Int /\ Abs(x[d]) <= greatest
  <2>1. req.from[d] \in Int /\ req.to[d] \in Int BY <1>1 DEF RequestType
  <2>2. Abs(req.from[d]) <= greatest /\ Abs(req.to[d]) <= greatest BY <1>1, <1>2 DEF IInv, Bounds
  <2>3. x[d] \in req.from[d]..req.to[d] BY DEF Box
  <2>4. QED BY <1>1, <2>1, <2>2, <2>3 DEF Abs
<1>4. x = [d \in 1..req.useDim |-> x[d]] BY DEF Box
<1>5. QED BY <1>1, <1>3, <1>4, NormIsLargest

(* With unit steps, the solution STOPRUN stops at is nearest to the origin   *)
(* among all the solutions of the box: a nearer one would lie in a smaller   *)
(* cube, and those have been swept without a hit.                            *)
THEOREM NearestSolution == Spec => []NearestFirst
<1>1. ASSUME IInv, StopInv PROVE NearestFirst
  <2> SUFFICES ASSUME pc = "returned", Kind = "bool", Flag("STOP_RUN", opt),
                      \A d \in 1..req.useDim : req.step[d] = 1,
                      NEW x \in tested, NEW y \in Box(req),
                      Holds(x, NoTarget), Holds(y, NoTarget)
               PROVE  Norm(x) <= Norm(y)
    BY DEF NearestFirst
  <2>1. /\ \A d \in 1..req.useDim : x[d] \in (-radius)..radius
        /\ \A z \in tested : Holds(z, NoTarget) => z = x
    BY <1>1 DEF StopInv
  <2>2. Supported /\ pc \notin Before /\ x \in Box(req) /\ radius \in Nat
    BY <1>1 DEF IInv, Sound, WithinBox, Before, TypeOK
  <2>3. /\ Norm(x) \in Nat /\ \E d \in 1..req.useDim : Norm(x) = Abs(x[d])
        /\ \A d \in 1..req.useDim : x[d] \in Int
    BY <1>1, <2>2, BoxNorm
  <2>4. Norm(y) \in Nat /\ \A d \in 1..req.useDim : Abs(y[d]) <= Norm(y)
    BY <1>1, <2>2, BoxNorm
  <2>5. Norm(x) <= radius BY <2>1, <2>2, <2>3 DEF Abs
  <2>6. CASE Norm(y) < radius
    <3>1. Norm(y) \in 0..(radius - 1) BY <2>2, <2>4, <2>6
    <3>2. y \in Cube(Norm(y)) BY <1>1, <2>4, UnitCube
    <3>3. y \in tested BY <1>1, <2>2, <3>1, <3>2, SweptCube
    <3>4. y = x BY <2>1, <3>3
    <3>5. QED BY <2>3, <3>4
  <2>7. QED BY <2>2, <2>3, <2>4, <2>5, <2>6
<1>2. QED BY <1>1, StopInvInit, StopInvNext, Invariance, PTL DEF Spec

-----------------------------------------------------------------------------
(* The count of a plain boolean function.  Solved(r) are the solutions the  *)
(* cube of radius r walks over, one pair for each; Ahead those of the        *)
(* running cube that the loops have passed.                                  *)
Solved(r) == {<<r, x>> : x \in {y \in Cube(r) : Holds(y, NoTarget)}}
SolvedTo(r) == UNION {Solved(q) : q \in 0..r}
Passing == {p \in GridAt(radius) : Precedes(p, level) /\ Holds(ArgsOf(p), NoTarget)}
PassedBy == {<<radius, ArgsOf(p)>> : p \in Passing}

Counts(n, S) == IsFiniteSet(S) /\ n = Cardinality(S)

(* A loop with step 0 that has been entered never ends. *)
Stuck == \E d \in 1..level : rt.step[d] = 0 /\ iter[d] <= hi[d]

TallyInv ==
  Kind = "bool" /\ ~Flag("STOP_RUN", opt) =>
    /\ pc = "greatest" => total = 0
    /\ pc = "radius" => radius <= greatest + 1 /\ Counts(total, SolvedTo(radius - 1))
    /\ pc = "loop" => Stuck \/ Counts(total, SolvedTo(radius - 1) \union PassedBy)
    /\ pc = "returned" => Counts(ret, SolvedTo(greatest))

(* Different points of a grid are different points of the box. *)
LEMMA ArgsDiffer ==
  ASSUME IInv, pc \notin Before, NEW r \in Nat, NEW p \in GridAt(r), NEW q \in GridAt(r),
         ArgsOf(p) = ArgsOf(q)
  PROVE  p = q
<1>1. ASSUME NEW d \in Dims PROVE p[d] = q[d]
  <2>0. d \in 1..ArrDims /\ d \in Nat /\ rt.useDim = req.useDim /\ req.useDim \in Nat
    BY ParamTypes
  <2>1. CASE d <= req.useDim
    <3>1. d \in 1..rt.useDim BY <2>0, <2>1 DEF Dims
    <3>2. ArgsOf(p)[d] = p[d] /\ ArgsOf(q)[d] = q[d] BY <3>1 DEF ArgsOf
    <3>3. QED BY <3>2
  <2>2. CASE d > req.useDim
    <3>1. rt.from[d] = 0 /\ rt.to[d] = 0 BY <2>0, <2>2 DEF IInv, Params
    <3>2. Low(r, d) = 0 /\ High(r, d) = 0 BY <3>1 DEF Low, High, Larger, Smaller
    <3>3. QED BY <3>2, GridPoint
  <2>3. QED BY <2>0, <2>1, <2>2
<1>2. p = [d \in Dims |-> p[d]] /\ q = [d \in Dims |-> q[d]] BY DEF GridAt
<1>3. QED BY <1>1, <1>2, Zenon

(* Every point of the grid of radius r is a point of the cube. *)
LEMMA GridInCube ==
  ASSUME IInv, pc \notin Before, Supported, NEW r \in Nat, NEW p \in GridAt(r)
  PROVE  ArgsOf(p) \in Cube(r)
<1>0. rt.useDim = req.useDim /\ req.useDim \in 1..LoopDims /\ LoopDims \in Nat
  BY ParamTypes DEF Supported, Dims
<1>1. ASSUME NEW d \in 1..req.useDim
      PROVE  /\ p[d] \in Axis(Larger(-r, req.from[d]), Smaller(r, req.to[d]), req.step[d])
             /\ p[d] \in req.from[d]..req.to[d]
  <2>1. d \in Dims BY <1>0 DEF Dims
  <2>2. /\ d \in 1..ArrDims /\ req.from[d] \in Int /\ req.to[d] \in Int /\ rt.step = req.step
    BY <2>1, ParamTypes
  <2>3. rt.from[d] = req.from[d] /\ rt.to[d] = req.to[d] BY <1>0, <2>2 DEF IInv, Params
  <2>4. p[d] \in Axis(Low(r, d), High(r, d), rt.step[d]) BY <2>1 DEF GridAt
  <2>5. p[d] \in Axis(Larger(-r, req.from[d]), Smaller(r, req.to[d]), req.step[d])
    BY <2>2, <2>3, <2>4 DEF Low, High
  <2>6. QED BY <2>2, <2>5 DEF Axis, Larger, Smaller
<1>2. ArgsOf(p) = [d \in 1..req.useDim |-> p[d]] BY <1>0 DEF ArgsOf
<1>3. ArgsOf(p) \in Box(req) BY <1>1, <1>2 DEF Box, Extent
<1>4. QED BY <1>1, <1>2, <1>3 DEF Cube

(* The pairs of one radius are none of another. *)
LEMMA RadiusApart ==
  ASSUME NEW r \in Nat, NEW x PROVE <<r, x>> \notin SolvedTo(r - 1)
BY DEF SolvedTo, Solved

LEMMA SolvedNext ==
  ASSUME NEW r \in Nat PROVE SolvedTo(r) = SolvedTo(r - 1) \union Solved(r)
<1>1. 0..r = (0..(r - 1)) \union {r} OBVIOUS
<1>2. QED BY <1>1 DEF SolvedTo

(* A step of the loops that lets none pass leaves the pairs, one that makes  *)
(* the loops pass p adds the pair of p.                                      *)
LEMMA PassedSame ==
  ASSUME UNCHANGED <<rt, radius>>,
         \A p \in GridAt(radius) : Precedes(p, level)' <=> Precedes(p, level)
  PROVE  PassedBy' = PassedBy
<1>1. GridAt(radius)' = GridAt(radius) BY DEF GridAt, Low, High
<1>2. \A p : ArgsOf(p)' = ArgsOf(p) BY DEF ArgsOf
<1>3. Passing' = Passing BY <1>1, <1>2 DEF Passing
<1>4. QED BY <1>2, <1>3 DEF PassedBy

(* Leaving loop n + 1 for the next turn of loop n, which has a step: what    *)
(* agrees with the loops up to n has been passed by loop n + 1.              *)
LEMMA AscendPrecedes ==
  ASSUME IInv, Ascend, rt.step[level - 1] # 0, NEW p \in GridAt(radius)
  PROVE  Precedes(p, level)' <=> Precedes(p, level)
<1> DEFINE n == level - 1
<1>0. /\ TypeOK /\ Nest /\ pc = "loop" /\ level' = n /\ n \in Dims
      /\ level \in Dims /\ n \in 1..level /\ level \in Nat /\ iter[level] > hi[level]
      /\ iter' = [iter EXCEPT ![n] = iter[n] + rt.step[n]]
  BY EngIntRunAssumption DEF IInv, TypeOK, Ascend, Past, Advance, Dims
<1>1. /\ iter[n] \in Int /\ rt.step[n] \in Nat /\ lo[n] \in Int BY <1>0, DimTypes
<1>2. /\ \A d \in 1..(n - 1) : iter'[d] = iter[d] /\ d \in Dims
      /\ iter'[n] = iter[n] + rt.step[n]
  <2>1. \A d \in 1..(n - 1) : d \in Dims /\ d # n BY <1>0, EngIntRunAssumption DEF Dims
  <2>2. iter \in [Dims -> Int] BY <1>0 DEF TypeOK
  <2>3. QED BY <1>0, <2>1, <2>2
<1>3. ASSUME Precedes(p, level)' PROVE Precedes(p, level) BY <1>3, AscendBehind
<1>4. ASSUME Precedes(p, level) PROVE Precedes(p, level)'
  <2>1. PICK m \in 1..level : p[m] < iter[m] /\ \A j \in 1..(m - 1) : p[j] = iter[j]
    BY <1>4 DEF Precedes
  <2>2. p[n] \in Int
    BY <1>0, GridPoint, DimTypes
  <2>3. iter'[n] \in Int /\ iter[n] < iter'[n] BY <1>1, <1>2
  <2>4. CASE m \in 1..(n - 1)
    <3>1. \A j \in 1..(m - 1) : j \in 1..(n - 1) BY <1>0, <2>4
    <3>2. m \in 1..n BY <1>0, <2>4
    <3>3. QED BY <1>0, <1>2, <2>1, <2>4, <3>1, <3>2 DEF Precedes
  <2>5. CASE m = n \/ m = level
    <3>1. p[n] < iter'[n]
      <4>1. CASE m = n BY <1>1, <2>1, <2>2, <2>3, <4>1
      <4>2. CASE m = level
        <5>1. n \in 1..(m - 1) BY <1>0, <4>2 DEF Dims
        <5>2. QED BY <1>1, <2>1, <2>3, <5>1
      <4>3. QED BY <2>5, <4>1, <4>2
    <3>2. \A j \in 1..(n - 1) : j \in 1..(m - 1) BY <1>0, <2>5
    <3>3. \A j \in 1..(n - 1) : p[j] = iter'[j] BY <1>2, <2>1, <3>2
    <3>4. n \in 1..n BY <1>0 DEF Dims
    <3>5. QED BY <1>0, <3>1, <3>3, <3>4 DEF Precedes
  <2>6. QED BY <1>0, <2>1, <2>4, <2>5
<1>5. QED BY <1>3, <1>4

(* The innermost loop passes the point it stands at, and no other.          *)
LEMMA AskPrecedes ==
  ASSUME IInv, NEW t, Ask(t), Advance(LoopDims), rt.step[LoopDims] # 0, NEW p \in GridAt(radius)
  PROVE  /\ Precedes(p, level)' <=> Precedes(p, level) \/ p = iter
         /\ ~Precedes(iter, level)
<1> DEFINE n == LoopDims
<1>0. /\ TypeOK /\ Nest /\ pc = "loop" /\ level = n /\ level' = level /\ n \in Dims
      /\ n \in 1..level /\ n \in Nat /\ n >= 1 /\ Dims = 1..n
      /\ iter' = [iter EXCEPT ![n] = iter[n] + rt.step[n]]
  BY EngIntRunAssumption DEF IInv, TypeOK, Ask, AtPoint, Inside, Advance, Dims
<1>1. /\ iter[n] \in Int /\ rt.step[n] \in Nat BY <1>0, DimTypes
<1>2. /\ \A d \in 1..(n - 1) : iter'[d] = iter[d] /\ d \in Dims
      /\ iter'[n] = iter[n] + rt.step[n] /\ iter'[n] \in Int /\ iter[n] < iter'[n]
  <2>1. \A d \in 1..(n - 1) : d \in Dims /\ d # n BY <1>0
  <2>2. iter \in [Dims -> Int] BY <1>0 DEF TypeOK
  <2>3. QED BY <1>0, <1>1, <2>1, <2>2
<1>3. \A d \in Dims : p[d] \in Int /\ iter[d] \in Int BY <1>0, GridPoint, DimTypes
<1>4. ASSUME Precedes(p, level)' PROVE Precedes(p, level) \/ p = iter
  <2>1. Precedes(p, n) \/ \A j \in 1..n : p[j] = iter[j] BY <1>0, <1>4, AdvancePrecedes
  <2>2. p = [d \in Dims |-> p[d]] /\ iter = [d \in Dims |-> iter[d]]
    BY <1>0 DEF GridAt, TypeOK
  <2>3. (\A j \in 1..n : p[j] = iter[j]) => p = iter BY <1>0, <2>2, Zenon
  <2>4. QED BY <1>0, <2>1, <2>3
<1>5. ASSUME Precedes(p, level) \/ p = iter PROVE Precedes(p, level)'
  <2>1. PICK m \in 1..n : /\ p[m] < iter[m] \/ (m = n /\ p[m] = iter[m])
                          /\ \A j \in 1..(m - 1) : p[j] = iter[j]
    <3>1. CASE Precedes(p, level) BY <1>0, <3>1 DEF Precedes
    <3>2. CASE p = iter BY <1>0, <3>2
    <3>3. QED BY <1>5, <3>1, <3>2
  <2>2. m \in Dims /\ \A j \in 1..(m - 1) : j \in 1..(n - 1) BY <1>0, <2>1
  <2>3. p[m] < iter'[m]
    <3>1. CASE m = n BY <1>2, <1>3, <2>1, <2>2, <3>1
    <3>2. CASE m # n
      <4>1. m \in 1..(n - 1) BY <1>0, <3>2
      <4>2. QED BY <1>2, <2>1, <3>2, <4>1
    <3>3. QED BY <3>1, <3>2
  <2>4. \A j \in 1..(m - 1) : p[j] = iter'[j] BY <1>2, <2>1, <2>2
  <2>5. QED BY <1>0, <2>3, <2>4 DEF Precedes
<1>6. ~Precedes(iter, level)
  <2>1. SUFFICES ASSUME NEW m \in 1..n, iter[m] < iter[m] PROVE FALSE BY <1>0 DEF Precedes
  <2>2. iter[m] \in Int BY <1>0, <1>3
  <2>3. QED BY <2>1, <2>2
<1>7. QED BY <1>4, <1>5, <1>6

(* One turn of the innermost loop adds the pair of its point, if the point  *)
(* is a solution; the pair was not there.                                   *)
LEMMA AskPassed ==
  ASSUME IInv, NEW t, Ask(t), Advance(LoopDims), rt.step[LoopDims] # 0
  PROVE  /\ PassedBy' = PassedBy \union (IF Holds(Args, NoTarget) THEN {<<radius, Args>>} ELSE {})
         /\ <<radius, Args>> \notin PassedBy
<1>0. rt' = rt /\ radius' = radius /\ iter \in GridAt(radius) /\ ArgsOf(iter) = Args
      /\ radius \in Nat /\ pc \notin Before
  BY AskInGrid DEF Ask, IInv, TypeOK, AtPoint, Inside, Before
<1>1. GridAt(radius)' = GridAt(radius) BY <1>0 DEF GridAt, Low, High
<1>2. \A p : ArgsOf(p)' = ArgsOf(p) BY <1>0 DEF ArgsOf
<1>3. \A p \in GridAt(radius) : Precedes(p, level)' <=> Precedes(p, level) \/ p = iter
  BY AskPrecedes
<1>4. Passing' = Passing \union (IF Holds(Args, NoTarget) THEN {iter} ELSE {})
  <2>1. Passing' = {p \in GridAt(radius) : Precedes(p, level)' /\ Holds(ArgsOf(p), NoTarget)}
    BY <1>1, <1>2 DEF Passing
  <2>2. QED BY <1>0, <1>3, <2>1 DEF Passing
<1>5. PassedBy' = {<<radius, ArgsOf(p)>> : p \in Passing'} BY <1>0, <1>2 DEF PassedBy
<1>6. PassedBy' = PassedBy \union (IF Holds(Args, NoTarget) THEN {<<radius, Args>>} ELSE {})
  BY <1>0, <1>4, <1>5 DEF PassedBy
<1>7. <<radius, Args>> \notin PassedBy
  <2>1. SUFFICES ASSUME NEW p \in Passing, ArgsOf(p) = ArgsOf(iter) PROVE FALSE
    BY <1>0 DEF PassedBy
  <2>2. p \in GridAt(radius) /\ Precedes(p, level) BY DEF Passing
  <2>3. p = iter BY <1>0, <2>1, <2>2, ArgsDiffer
  <2>4. ~Precedes(iter, level) BY <1>0, AskPrecedes
  <2>5. QED BY <2>2, <2>3, <2>4
<1>8. QED BY <1>6, <1>7

(* At the end of a cube its solutions are those the loops have passed.      *)
LEMMA CubeEnds ==
  ASSUME IInv, EndRadius
  PROVE  PassedBy = Solved(radius)
<1>0. /\ TypeOK /\ Nest /\ pc = "loop" /\ level = 1 /\ 1 \in Dims /\ iter[1] > hi[1]
      /\ radius \in Nat /\ pc \notin Before
  BY EngIntRunAssumption DEF IInv, TypeOK, EndRadius, Past, Dims, Before
<1>1. ASSUME NEW p \in GridAt(radius) PROVE Precedes(p, level)
  <2>1. /\ iter[1] \in Int /\ hi[1] \in Int /\ High(radius, 1) \in Int /\ Low(radius, 1) \in Int
    BY <1>0, DimTypes
  <2>2. p[1] \in Int /\ p[1] <= High(radius, 1) BY <1>0, <2>1, GridPoint
  <2>3. p[1] < iter[1] BY <1>0, <2>1, <2>2 DEF Nest
  <2>4. QED BY <1>0, <2>3 DEF Precedes
<1>2. Passing = {p \in GridAt(radius) : Holds(ArgsOf(p), NoTarget)} BY <1>1 DEF Passing
<1>3. CASE Supported
  <2>1. \A p \in GridAt(radius) : ArgsOf(p) \in Cube(radius) BY <1>0, <1>3, GridInCube
  <2>2. \A x \in Cube(radius) : Extend(x) \in GridAt(radius) /\ ArgsOf(Extend(x)) = x
    BY <1>0, <1>3, CubeInGrid, CubeArgs
  <2>3. QED BY <1>2, <2>1, <2>2 DEF PassedBy, Solved
<1>4. CASE ~Supported
  <2>1. tested = {} BY <1>4 DEF IInv, Sound
  <2>2. GridAt(radius) = {} BY <1>0, <1>1, <2>1 DEF IInv, Walked
  <2>3. Cube(radius) = {} BY <1>0, <2>2, CubeInGrid
  <2>4. QED BY <1>2, <2>2, <2>3 DEF PassedBy, Solved
<1>5. QED BY <1>3, <1>4

(* Advancing loop n, inside its bounds, frees none of the loops up to n.    *)
LEMMA StuckStays ==
  ASSUME TypeOK, NEW n \in Dims, level' = n, UNCHANGED <<rt, hi>>, Advance(n), iter[n] <= hi[n],
         (\E d \in 1..n : rt.step[d] = 0 /\ iter[d] <= hi[d]) \/ rt.step[n] = 0
  PROVE  Stuck'
<1>1. PICK d \in 1..n : rt.step[d] = 0 /\ iter[d] <= hi[d] BY EngIntRunAssumption DEF Dims
<1>2. iter'[d] = iter[d]
  <2>1. iter \in [Dims -> Int] /\ d \in Dims /\ iter' = [iter EXCEPT ![n] = iter[n] + rt.step[n]]
    BY EngIntRunAssumption DEF TypeOK, Dims, Advance
  <2>2. CASE d = n BY <1>1, <2>1, <2>2
  <2>3. CASE d # n BY <2>1, <2>3
  <2>4. QED BY <2>2, <2>3
<1>3. QED BY <1>1, <1>2 DEF Stuck

LEMMA TallyInit == Init => TallyInv
BY DEF Init, TallyInv

(* The loops' own steps count nothing, and pass no point unseen. *)
LEMMA CountDescend == IInv /\ TallyInv /\ Descend => TallyInv'
<1> SUFFICES ASSUME IInv, TallyInv, Descend, Kind = "bool", ~Flag("STOP_RUN", opt) PROVE TallyInv'
  BY DEF TallyInv, Descend
<1>0. /\ TypeOK /\ pc = "loop" /\ pc' = "loop" /\ level' = level + 1 /\ level \in Nat
      /\ UNCHANGED <<req, rt, opt, radius, hi, total>>
      /\ iter' = [iter EXCEPT ![level + 1] = lo[level + 1]]
  BY EngIntRunAssumption DEF IInv, TypeOK, Descend, Inside, Dims
<1>1. PassedBy' = PassedBy BY <1>0, PassedSame, DescendPrecedes
<1>2. SolvedTo(radius - 1)' = SolvedTo(radius - 1) BY <1>0 DEF SolvedTo, Solved, Cube, Box, Extent
<1>3. Stuck => Stuck'
  <2>1. \A d \in 1..level : d \in 1..level' /\ iter'[d] = iter[d]
    <3>1. \A d \in 1..level : d \in Dims /\ d # level + 1 /\ d \in 1..(level + 1)
      BY <1>0, EngIntRunAssumption DEF Dims, TypeOK
    <3>2. QED BY <1>0, <3>1 DEF TypeOK
  <2>2. QED BY <1>0, <2>1 DEF Stuck
<1>4. Stuck \/ Counts(total, SolvedTo(radius - 1) \union PassedBy) BY <1>0 DEF TallyInv
<1>5. Stuck' \/ Counts(total, SolvedTo(radius - 1) \union PassedBy)' BY <1>0, <1>1, <1>2, <1>3, <1>4 DEF Counts
<1>6. QED BY <1>0, <1>5 DEF TallyInv

LEMMA CountAscend == IInv /\ TallyInv /\ Ascend => TallyInv'
<1> SUFFICES ASSUME IInv, TallyInv, Ascend, Kind = "bool", ~Flag("STOP_RUN", opt) PROVE TallyInv'
  BY DEF TallyInv, Ascend
<1> DEFINE n == level - 1
<1>0. /\ TypeOK /\ Nest /\ pc = "loop" /\ pc' = "loop" /\ level' = n /\ level \in Nat /\ n \in Dims
      /\ UNCHANGED <<req, rt, opt, radius, hi, total>> /\ Advance(n) /\ iter[level] > hi[level]
      /\ level \in Dims
  BY EngIntRunAssumption DEF IInv, TypeOK, Ascend, Past, Dims
<1>1. SolvedTo(radius - 1)' = SolvedTo(radius - 1) BY <1>0 DEF SolvedTo, Solved, Cube, Box, Extent
<1>2. iter[n] <= hi[n] BY <1>0 DEF Nest, Dims
<1>3. CASE Stuck \/ rt.step[n] = 0
  <2>1. (\E d \in 1..n : rt.step[d] = 0 /\ iter[d] <= hi[d]) \/ rt.step[n] = 0
    <3>1. ~(iter[level] <= hi[level]) BY <1>0, DimTypes
    <3>2. \A d \in 1..level : d = level \/ d \in 1..n BY <1>0
    <3>3. QED BY <1>3, <3>1, <3>2 DEF Stuck
  <2>2. Stuck' BY <1>0, <1>2, <2>1, StuckStays
  <2>3. QED BY <1>0, <2>2 DEF TallyInv
<1>4. CASE ~Stuck /\ rt.step[n] # 0
  <2>1. PassedBy' = PassedBy BY <1>0, <1>4, PassedSame, AscendPrecedes
  <2>2. Counts(total, SolvedTo(radius - 1) \union PassedBy) BY <1>0, <1>4 DEF TallyInv
  <2>3. Counts(total, SolvedTo(radius - 1) \union PassedBy)' BY <1>0, <1>1, <2>1, <2>2 DEF Counts
  <2>4. QED BY <1>0, <2>3 DEF TallyInv
<1>5. QED BY <1>3, <1>4

(* A new cube: none of its points has been passed. *)
LEMMA CountClip == IInv /\ TallyInv /\ Clip => TallyInv'
<1> SUFFICES ASSUME IInv, TallyInv, Clip, Kind = "bool", ~Flag("STOP_RUN", opt) PROVE TallyInv'
  BY DEF TallyInv, Clip
<1>0. /\ TypeOK /\ pc = "radius" /\ pc' = "loop" /\ level' = 1 /\ 1 \in Dims
      /\ UNCHANGED <<req, rt, opt, radius, total>> /\ iter' = [iter EXCEPT ![1] = lo'[1]]
      /\ lo'[1] = Low(radius, 1)
  BY EngIntRunAssumption DEF IInv, Clip, Dims, Low
<1>1. GridAt(radius)' = GridAt(radius) BY <1>0 DEF GridAt, Low, High
<1>2. Passing' = {}
  <2>1. SUFFICES ASSUME NEW p \in GridAt(radius), Precedes(p, level)' PROVE FALSE
    BY <1>1 DEF Passing
  <2>2. iter'[1] = lo'[1] BY <1>0 DEF TypeOK
  <2>3. p[1] < iter'[1] BY <1>0, <2>1 DEF Precedes
  <2>4. p[1] \in Int /\ Low(radius, 1) <= p[1] /\ Low(radius, 1) \in Int BY <1>0, DimTypes, GridPoint
  <2>5. QED BY <1>0, <2>2, <2>3, <2>4
<1>3. PassedBy' = {} BY <1>2 DEF PassedBy
<1>4. SolvedTo(radius - 1)' = SolvedTo(radius - 1) BY <1>0 DEF SolvedTo, Solved, Cube, Box, Extent
<1>5. Counts(total, SolvedTo(radius - 1)) BY <1>0 DEF TallyInv
<1>6. Counts(total, SolvedTo(radius - 1) \union PassedBy)' BY <1>0, <1>3, <1>4, <1>5 DEF Counts
<1>7. QED BY <1>0, <1>6 DEF TallyInv

(* The end of a cube, which no stuck loop reaches. *)
LEMMA CountEndRadius == IInv /\ TallyInv /\ EndRadius => TallyInv'
<1> SUFFICES ASSUME IInv, TallyInv, EndRadius, Kind = "bool", ~Flag("STOP_RUN", opt) PROVE TallyInv'
  BY DEF TallyInv, EndRadius
<1>0. /\ TypeOK /\ Nest /\ pc = "loop" /\ pc' = "radius" /\ level = 1 /\ 1 \in Dims
      /\ iter[1] > hi[1] /\ radius \in Nat /\ greatest \in Nat /\ radius <= greatest
      /\ radius' = radius + 1 /\ UNCHANGED <<req, rt, opt, greatest, total>>
  BY EngIntRunAssumption DEF IInv, TypeOK, Nest, EndRadius, Past, Dims
<1>1. ~Stuck
  <2>1. ~(iter[1] <= hi[1]) BY <1>0, DimTypes
  <2>2. QED BY <1>0, <2>1 DEF Stuck
<1>2. Counts(total, SolvedTo(radius - 1) \union Solved(radius)) BY <1>0, <1>1, CubeEnds DEF TallyInv
<1>3. Counts(total, SolvedTo(radius)) BY <1>0, <1>2, SolvedNext
<1>4. SolvedTo(radius - 1)' = SolvedTo(radius)
  <2>1. 0..(radius' - 1) = 0..radius BY <1>0
  <2>2. \A q : Solved(q)' = Solved(q) BY <1>0 DEF Solved, Cube, Box, Extent
  <2>3. QED BY <2>1, <2>2 DEF SolvedTo
<1>5. QED BY <1>0, <1>3, <1>4 DEF TallyInv, Counts

(* One turn of the innermost loop counts its point if it is a solution.     *)
LEMMA CountAsk ==
  ASSUME IInv, TallyInv, NEW t \in Passed, Kind = "bool", ~Flag("STOP_RUN", opt),
         (Miss(t) /\ ~Holds(Args, NoTarget)) \/ (Count(t) /\ Holds(Args, NoTarget))
  PROVE  TallyInv'
<1> DEFINE one == IF Holds(Args, NoTarget) THEN {<<radius, Args>>} ELSE {}
           S == SolvedTo(radius - 1) \union PassedBy
<1>0. /\ TypeOK /\ Nest /\ pc = "loop" /\ pc' = "loop" /\ level = LoopDims /\ level' = level
      /\ LoopDims \in Dims /\ Ask(t) /\ Advance(LoopDims) /\ iter[level] <= hi[level]
      /\ UNCHANGED <<req, rt, opt, radius, hi>> /\ total \in Nat /\ radius \in Nat
      /\ total' = IF Holds(Args, NoTarget) THEN total + 1 ELSE total
  BY EngIntRunAssumption DEF IInv, TypeOK, Miss, Count, Ask, AtPoint, Inside, Dims
<1>1. SolvedTo(radius - 1)' = SolvedTo(radius - 1) BY <1>0 DEF SolvedTo, Solved, Cube, Box, Extent
<1>2. CASE Stuck \/ rt.step[LoopDims] = 0
  <2>1. Stuck' BY <1>0, <1>2, StuckStays DEF Stuck
  <2>2. QED BY <1>0, <2>1 DEF TallyInv
<1>3. CASE ~Stuck /\ rt.step[LoopDims] # 0
  <2>1. PassedBy' = PassedBy \union one /\ <<radius, Args>> \notin PassedBy
    BY <1>0, <1>3, AskPassed
  <2>2. <<radius, Args>> \notin S BY <1>0, <2>1, RadiusApart
  <2>3. Counts(total, S) BY <1>0, <1>3 DEF TallyInv
  <2>4. Counts(total', S \union one)
    <3>1. CASE Holds(Args, NoTarget) BY <1>0, <2>2, <2>3, <3>1, FS_AddElement DEF Counts
    <3>2. CASE ~Holds(Args, NoTarget) BY <1>0, <2>3, <3>2
    <3>3. QED BY <3>1, <3>2
  <2>5. S' = S \union one BY <1>1, <2>1
  <2>6. Counts(total', S') BY <2>4, <2>5
  <2>7. QED BY <1>0, <2>6 DEF TallyInv, Counts
<1>4. QED BY <1>2, <1>3

LEMMA TallyNext == IInv /\ TallyInv /\ [Next]_vars => TallyInv'
<1> SUFFICES ASSUME IInv, TallyInv, [Next]_vars, Kind = "bool", ~Flag("STOP_RUN", opt')
             PROVE  TallyInv'
  BY DEF TallyInv
<1> USE DEF shared, history
<1>1. CASE Call BY <1>1 DEF Call, Start, TallyInv
<1>2. CASE FindGreatest BY <1>2 DEF FindGreatest, TallyInv
<1>3. CASE Setup
  <2>1. pc' = "radius" /\ radius' = 0 /\ total' = 0 /\ greatest' = greatest /\ greatest \in Nat
    BY <1>3 DEF Setup, TallyInv, IInv, TypeOK
  <2>2. SolvedTo(radius - 1)' = {} BY <2>1 DEF SolvedTo
  <2>3. QED BY <2>1, <2>2, FS_EmptySet DEF TallyInv, Counts
<1>4. CASE Clip BY <1>4, CountClip
<1>5. CASE Descend BY <1>5, CountDescend
<1>6. CASE Ascend BY <1>6, CountAscend
<1>7. CASE EndRadius BY <1>7, CountEndRadius
<1>8. CASE Return
  <2>1. /\ pc = "radius" /\ pc' = "returned" /\ ret' = total /\ radius > greatest
        /\ greatest \in Nat /\ radius \in Nat /\ UNCHANGED <<req, opt, greatest>>
    BY <1>8 DEF Return, IInv, TypeOK
  <2>2. radius <= greatest + 1 /\ Counts(total, SolvedTo(radius - 1)) BY <2>1 DEF TallyInv
  <2>3. radius - 1 = greatest BY <2>1, <2>2
  <2>4. SolvedTo(greatest)' = SolvedTo(greatest) BY <2>1 DEF SolvedTo, Solved, Cube, Box, Extent
  <2>5. QED BY <2>1, <2>2, <2>3, <2>4 DEF TallyInv, Counts
<1>9. CASE Unsupported BY <1>9 DEF Unsupported, TallyInv
<1>10. ASSUME NEW t \in Passed, Miss(t) PROVE TallyInv'
  <2>1. ~Holds(Args, NoTarget) /\ opt' = opt BY <1>10 DEF Miss, Answer, Passed, Ask
  <2>2. QED BY <1>10, <2>1, CountAsk
<1>11. ASSUME NEW t \in Passed, Count(t) PROVE TallyInv'
  <2>1. Holds(Args, NoTarget) /\ opt' = opt BY <1>11 DEF Count, Answer, Passed, Ask
  <2>2. QED BY <1>11, <2>1, CountAsk
<1>12. ASSUME NEW t \in Passed, StopRun(t) PROVE TallyInv' BY <1>12 DEF StopRun, Ask
<1>13. CASE UNCHANGED vars
  <2>1. UNCHANGED <<pc, req, rt, opt, radius, greatest, hi, level, iter, total, ret>>
    BY <1>13 DEF vars
  <2>2. PassedBy' = PassedBy BY <2>1 DEF PassedBy, Passing, GridAt, ArgsOf, Low, High, Precedes
  <2>3. Stuck' <=> Stuck BY <2>1 DEF Stuck
  <2>4. SolvedTo(radius - 1)' = SolvedTo(radius - 1) /\ SolvedTo(greatest)' = SolvedTo(greatest)
    BY <2>1 DEF SolvedTo, Solved, Cube, Box, Extent
  <2>5. QED BY <2>1, <2>2, <2>3, <2>4 DEF TallyInv, Counts
<1>14. QED
  BY <1>1, <1>2, <1>3, <1>4, <1>5, <1>6, <1>7, <1>8, <1>9, <1>10, <1>11, <1>12, <1>13
     DEF Next, Run

(* The count of a call that was not cut short, of a plain boolean function, *)
(* is the number of pairs of a radius and a solution in its cube, however   *)
(* the clipped grids overlap.                                               *)
THEOREM CountIsExact == Spec => []ExactCount
<1>1. TallyInv => ExactCount BY DEF TallyInv, Counts, ExactCount, SolvedTo, Solved
<1>2. QED BY <1>1, TallyInit, TallyNext, Invariance, PTL DEF Spec
=============================================================================
