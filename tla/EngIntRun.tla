----------------------------- MODULE EngIntRun -----------------------------
(***************************************************************************)
(* The integer search engine: eng_int_run of utils/eng_runner.c, with      *)
(* find_greatest, wrap_int and the target function it calls.               *)
(*                                                                         *)
(* A request rt is an eng_int_interval: useDim dimensions, each with from, *)
(* to and step, a set of flags and a target value.  eng_int_run sweeps the *)
(* box  from[d] .. to[d]  in growing cubes: for every radius up to the     *)
(* greatest bound it clips the box to [-radius, radius] and walks it with  *)
(* LoopDims nested loops, calling the target function on every point.  A   *)
(* dimension that is not in use has its bounds zeroed, so its loop runs    *)
(* once.  The nest of loops is kept as it is: `level' is the loop being    *)
(* executed, iter[level] its variable.                                     *)
(*                                                                         *)
(* C arrays are indexed from 0, the functions here from 1.                 *)
(***************************************************************************)
EXTENDS ResultSet, FiniteSets

CONSTANTS
  LoopDims,    \* nested loops of eng_int_run: 10
  ArrDims,     \* elements of eng_int_interval.dim: ENG_DIM_CAP - 1 = 15
  Requests,    \* the eng_int_interval values eng_int_run is called with
  Kind,        \* which function the program links: "bool", "target" or "unique"
  Holds(_, _), \* Holds(x, t): the equation is true at x (and t, if "target")
  Val(_),      \* the value a "unique" function gives to eng_check_previous
  Garbage,     \* what a "target" function may find in its last argument when
               \* it is called through a pointer to a function without it
  NoTarget     \* the target of an equation that has none

FlagNames == {"PRINT", "STOP_RUN", "TARGET_VALUE", "ERROR"}

RequestType ==
  [useDim : 0..ArrDims, from : [1..ArrDims -> Int], to : [1..ArrDims -> Int],
   step : [1..ArrDims -> Nat], flags : SUBSET FlagNames, targetValue : Int]

(* The box of a request, as the points a target function is called with.   *)
Extent(r) == UNION {r.from[d]..r.to[d] : d \in 1..r.useDim}
Box(r) == {x \in [1..r.useDim -> Extent(r)] :
             \A d \in 1..r.useDim : x[d] \in r.from[d]..r.to[d]}

ASSUME EngIntRunAssumption ==
  /\ LoopDims \in Nat \ {0} /\ ArrDims \in Nat /\ LoopDims <= ArrDims
  /\ Requests \subseteq RequestType
  /\ Kind \in {"bool", "target", "unique"}
  /\ Garbage # {} /\ Garbage \subseteq Int /\ NoTarget \in Int
  /\ \A r \in Requests : r.useDim \in 1..LoopDims => \A x \in Box(r) : Val(x) \in Int

VARIABLES
  pc,        \* "idle", "greatest", "radius", "loop", "returned" or "killed"
  req,       \* the caller's request
  rt,        \* eng_int_run's copy of it
  opt,       \* the flags as eng_int_run read them into its locals on entry
  dim,       \* loop variable of find_greatest
  greatest,  \* largest absolute bound
  radius,
  lo, hi,    \* from[], to[]: the box clipped to the radius
  level,     \* which of the nested loops is running
  iter,      \* rt.dim[].iter
  total,     \* solutions counted by this call
  ret,       \* its return value
  prev,      \* the result set, shared by all calls
  offset,    \* g_offset of log.c, in units of g_offset_inc
  lv         \* _LG_LV of eng_int_run

(* History variables: nothing in the code reads them. *)
VARIABLES
  tested,    \* points wrap_int was called on during this call
  given,     \* target values the target function received
  printed    \* <<point, message>> of every saved message printed

shared  == <<prev, offset>>
history == <<tested, given, printed>>
vars == <<pc, req, rt, opt, dim, greatest, radius, lo, hi, level, iter, total,
          ret, lv, shared, history>>

Dims == 1..LoopDims
Abs(n) == IF n < 0 THEN -n ELSE n
Larger(a, b) == IF a > b THEN a ELSE b
Smaller(a, b) == IF a < b THEN a ELSE b

(***************************************************************************)
(* The points of a cube.  A loop over one dimension takes the values       *)
(* a, a + s, a + 2s, ... up to b.                                          *)
(***************************************************************************)
Axis(a, b, s) == {v \in a..b : \E k \in 0..(b - a) : v = a + k * s}

(* The points the caller asks for: from + k * step in every dimension.     *)
Lattice(r) == {x \in Box(r) :
                 \A d \in 1..r.useDim : x[d] \in Axis(r.from[d], r.to[d], r.step[d])}

(* eng_fl_... of eng_runner.h *)
Flag(name, flags) == name \in flags

(***************************************************************************)
(* Init and the call.                                                      *)
(***************************************************************************)
(* Fault: a call that forgets the values the earlier calls reported. *)
StartForgetful(r) ==
  /\ pc' = "greatest" /\ req' = r /\ rt' = r /\ opt' = r.flags
  /\ dim' = 1 /\ greatest' = 0 /\ total' = 0 /\ ret' = 0
  /\ offset' = offset + 1 /\ lv' = offset + 1 /\ prev' = <<>>
  /\ tested' = {} /\ given' = {} /\ printed' = {}
  /\ UNCHANGED <<radius, lo, hi, level, iter>>

Start(r) ==
  /\ pc' = "greatest" /\ req' = r /\ rt' = r
  /\ opt' = r.flags
  /\ dim' = 1 /\ greatest' = 0 /\ total' = 0 /\ ret' = 0
  /\ offset' = offset + 1 /\ lv' = offset + 1     \* logenter
  /\ tested' = {} /\ given' = {} /\ printed' = {}
  /\ UNCHANGED <<radius, lo, hi, level, iter, prev>>

Init ==
  /\ pc = "idle" /\ req \in Requests /\ rt = req /\ opt = {}
  /\ dim = 1 /\ greatest = 0 /\ radius = 0
  /\ lo = [d \in Dims |-> 0] /\ hi = [d \in Dims |-> 0]
  /\ level = 1 /\ iter = [d \in Dims |-> 0]
  /\ total = 0 /\ ret = 0 /\ prev = <<>> /\ offset = 0 /\ lv = 0
  /\ tested = {} /\ given = {} /\ printed = {}

Call == pc = "idle" /\ Start(req)

(* Fault: only the upper bounds are looked at. *)
FindGreatestTo ==
  /\ pc = "greatest" /\ dim <= rt.useDim
  /\ greatest' = Larger(greatest, Abs(rt.to[dim]))
  /\ dim' = dim + 1
  /\ UNCHANGED <<pc, req, rt, opt, radius, lo, hi, level, iter, total, ret, lv,
                 shared, history>>

(* The loop of find_greatest. *)
FindGreatest ==
  /\ pc = "greatest" /\ dim <= rt.useDim
  /\ greatest' = Larger(greatest, Larger(Abs(rt.from[dim]), Abs(rt.to[dim])))
  /\ dim' = dim + 1
  /\ UNCHANGED <<pc, req, rt, opt, radius, lo, hi, level, iter, total, ret, lv,
                 shared, history>>

(* Faults: the bounds of the idle dimensions stay; the sweep starts at the  *)
(* greatest radius; the last dimension in use is not looked at.             *)
SetupKeepsBounds ==
  /\ pc = "greatest" /\ dim > rt.useDim
  /\ rt' = [rt EXCEPT !.flags = {}, !.targetValue = 0]
  /\ radius' = 0 /\ pc' = "radius"
  /\ UNCHANGED <<req, opt, dim, greatest, lo, hi, level, iter, total, ret, lv,
                 shared, history>>

SetupFrom(first, start) ==
  /\ pc = "greatest" /\ dim >= first
  /\ rt' = [rt EXCEPT !.from = [d \in 1..ArrDims |-> IF d > rt.useDim THEN 0 ELSE @[d]],
                      !.to   = [d \in 1..ArrDims |-> IF d > rt.useDim THEN 0 ELSE @[d]]]
  /\ radius' = start /\ pc' = "radius"
  /\ UNCHANGED <<req, opt, dim, greatest, lo, hi, level, iter, total, ret, lv,
                 shared, history>>
SetupAtOnce == SetupFrom(rt.useDim + 1, greatest)
SetupEarly == SetupFrom(rt.useDim, 0)

(***************************************************************************)
(* "setup DIMS" zeroes the bounds of the dimensions that are not in use,   *)
(* and of one more: it counts to ENG_DIM_CAP over an array of              *)
(* ENG_DIM_CAP - 1.  In the layout of eng_int_interval the missing         *)
(* element's from is the member flags and its to the low half of           *)
(* targetValue, so both are cleared in rt.  opt was read before.           *)
(***************************************************************************)
Setup ==
  /\ pc = "greatest" /\ dim > rt.useDim
  /\ rt' = [rt EXCEPT !.from = [d \in 1..ArrDims |-> IF d > rt.useDim THEN 0 ELSE @[d]],
                      !.to   = [d \in 1..ArrDims |-> IF d > rt.useDim THEN 0 ELSE @[d]],
                      !.flags = {}, !.targetValue = 0]
  /\ radius' = 0 /\ pc' = "radius"
  /\ UNCHANGED <<req, opt, dim, greatest, lo, hi, level, iter, total, ret, lv,
                 shared, history>>

(***************************************************************************)
(* The sweep over the radius and, inside it, the nest of loops.            *)
(***************************************************************************)
(* Fault: the upper bound is the radius, whatever the box is. *)
ClipLowerOnly ==
  /\ pc = "radius" /\ radius <= greatest
  /\ lo' = [d \in Dims |-> Larger(-radius, rt.from[d])]
  /\ hi' = [d \in Dims |-> radius]
  /\ level' = 1 /\ iter' = [iter EXCEPT ![1] = lo'[1]]
  /\ offset' = lv /\ pc' = "loop"
  /\ UNCHANGED <<req, rt, opt, dim, greatest, radius, total, ret, lv, prev, history>>

Clip ==
  /\ pc = "radius" /\ radius <= greatest
  /\ lo' = [d \in Dims |-> Larger(-radius, rt.from[d])]
  /\ hi' = [d \in Dims |-> Smaller(radius, rt.to[d])]
  /\ level' = 1 /\ iter' = [iter EXCEPT ![1] = lo'[1]]
  /\ offset' = lv                                    \* logmsg
  /\ pc' = "loop"
  /\ UNCHANGED <<req, rt, opt, dim, greatest, radius, total, ret, lv, prev, history>>

Inside == pc = "loop" /\ iter[level] <= hi[level]
Past   == pc = "loop" /\ iter[level] > hi[level]

Descend ==
  /\ Inside /\ level < LoopDims
  /\ level' = level + 1
  /\ iter' = [iter EXCEPT ![level + 1] = lo[level + 1]]
  /\ UNCHANGED <<pc, req, rt, opt, dim, greatest, radius, lo, hi, total, ret, lv,
                 shared, history>>

Advance(d) == iter' = [iter EXCEPT ![d] = @ + rt.step[d]]

Ascend ==
  /\ Past /\ level > 1
  /\ level' = level - 1 /\ Advance(level - 1)
  /\ UNCHANGED <<pc, req, rt, opt, dim, greatest, radius, lo, hi, total, ret, lv,
                 shared, history>>

(* Fault: the radius does not grow. *)
EndRadiusStuck ==
  /\ Past /\ level = 1
  /\ pc' = "radius"
  /\ UNCHANGED <<req, rt, opt, dim, greatest, radius, lo, hi, level, iter, total, ret, lv,
                 shared, history>>

EndRadius ==
  /\ Past /\ level = 1
  /\ radius' = radius + 1 /\ pc' = "radius"
  /\ UNCHANGED <<req, rt, opt, dim, greatest, lo, hi, level, iter, total, ret, lv,
                 shared, history>>

(* Faults: the last radius is left out; no logret. *)
ReturnEarly ==
  /\ pc = "radius" /\ radius >= greatest
  /\ ret' = total /\ pc' = "returned" /\ offset' = lv - 1
  /\ UNCHANGED <<req, rt, opt, dim, greatest, radius, lo, hi, level, iter, total,
                 lv, prev, history>>

ReturnUnlogged ==
  /\ pc = "radius" /\ radius > greatest
  /\ ret' = total /\ pc' = "returned"
  /\ UNCHANGED <<req, rt, opt, dim, greatest, radius, lo, hi, level, iter, total,
                 lv, shared, history>>

Return ==
  /\ pc = "radius" /\ radius > greatest
  /\ ret' = total /\ pc' = "returned"
  /\ offset' = lv - 1                                \* logret
  /\ UNCHANGED <<req, rt, opt, dim, greatest, radius, lo, hi, level, iter, total,
                 lv, prev, history>>

(***************************************************************************)
(* The innermost body: wrap_int on the current point.                      *)
(***************************************************************************)
AtPoint == Inside /\ level = LoopDims
Supported == rt.useDim \in Dims     \* the cases of wrap_int's switch
Args == [d \in 1..rt.useDim |-> iter[d]]

(* The target a "target" function receives: the value of the request when  *)
(* wrap_int takes the branch that passes it, whatever the calling          *)
(* convention leaves there when it takes the other one.                    *)
Passed == IF Kind # "target" THEN {NoTarget}
          ELSE IF Flag("TARGET_VALUE", rt.flags) THEN {rt.targetValue}
          ELSE Garbage

(* The answer of the target function: "unique" ones also ask the result    *)
(* set whether they have reported the value before.                        *)
Answer(t) == Holds(Args, t) /\ (Kind = "unique" => ~CheckPrevious(prev, Val(Args)))

(* DIM is none of the cases: userraiseint raises SIGINT, and the launcher  *)
(* installs no handler for it.                                             *)
Unsupported ==
  /\ AtPoint /\ ~Supported
  /\ pc' = "killed"
  /\ UNCHANGED <<req, rt, opt, dim, greatest, radius, lo, hi, level, iter, total,
                 ret, lv, shared, history>>

Ask(t) ==
  /\ AtPoint /\ Supported /\ t \in Passed
  /\ tested' = tested \union {Args} /\ given' = given \union {t}
  /\ UNCHANGED <<req, rt, opt, dim, greatest, radius, lo, hi, level, lv>>

Miss(t) ==
  /\ Ask(t) /\ ~Answer(t)
  /\ Advance(LoopDims)
  /\ UNCHANGED <<pc, total, ret, prev, offset, printed>>

(* Fault: the message is matched with the count a solution too late. *)
ReportLate ==
  /\ prev' = IF Kind = "unique" THEN Remember(prev, Val(Args)) ELSE prev
  /\ offset' = IF Flag("PRINT", opt) THEN lv ELSE offset
  /\ printed' = IF Flag("PRINT", opt) /\ prev' # <<>> /\ total = Len(prev')
                THEN printed \union {<<Args, prev'[Len(prev')]>>} ELSE printed

(* The function answers true.  A "unique" one has saved the value, if there *)
(* was room.  The message printed is the last one saved, when the number of *)
(* messages seems to match the number of solutions of this call.            *)
Report ==
  /\ prev' = IF Kind = "unique" THEN Remember(prev, Val(Args)) ELSE prev
  /\ offset' = IF Flag("PRINT", opt) THEN lv ELSE offset          \* logmsg
  /\ printed' = IF Flag("PRINT", opt) /\ total = Len(prev') - 1
                THEN printed \union {<<Args, prev'[Len(prev')]>>} ELSE printed

Count(t) ==
  /\ Ask(t) /\ Answer(t) /\ Report
  /\ ~Flag("STOP_RUN", opt)
  /\ total' = total + 1 /\ Advance(LoopDims)
  /\ UNCHANGED <<pc, ret>>

(* return 1 leaves the function without a logret: the offset stays.        *)
StopRun(t) ==
  /\ Ask(t) /\ Answer(t) /\ Report
  /\ Flag("STOP_RUN", opt)
  /\ ret' = 1 /\ pc' = "returned"
  /\ UNCHANGED <<total, iter>>

Run ==
  \/ FindGreatest \/ Setup \/ Clip \/ Descend \/ Ascend \/ EndRadius \/ Return
  \/ Unsupported
  \/ \E t \in Passed : Miss(t) \/ Count(t) \/ StopRun(t)

Next == Call \/ Run

(* The program is one thread that runs whenever it can. *)
Fairness == WF_vars(Next)
Spec == Init /\ [][Next]_vars /\ Fairness

(***************************************************************************)
(* Properties.                                                             *)
(***************************************************************************)
Ended == pc \in {"returned", "killed"}

(* Every variable keeps its type; the result set stays well spaced. *)
TypeOK ==
  /\ pc \in {"idle", "greatest", "radius", "loop", "returned", "killed"}
  /\ req \in Requests /\ rt \in RequestType /\ opt \in SUBSET FlagNames
  /\ dim \in 1..(ArrDims + 1) /\ greatest \in Nat /\ radius \in Nat
  /\ lo \in [Dims -> Int] /\ hi \in [Dims -> Int]
  /\ level \in Dims /\ iter \in [Dims -> Int]
  /\ total \in Nat /\ ret \in Nat
  /\ prev \in Seq(Int) /\ WellSpaced(prev)
  /\ offset \in Int /\ lv \in Int

(* The engine never evaluates the function outside the box it was given,   *)
(* for all the clipping, zeroing and stepping in between.                  *)
WithinBox == tested \subseteq Box(req)

(* A call that was not cut short by STOPRUN has evaluated the function on   *)
(* every point from + k * step of the box: clipping shifts the grid of a    *)
(* small radius, but the last one covers the caller's grid.                 *)
Exhausted == pc = "returned" /\ (ret = 0 \/ ~Flag("STOP_RUN", opt))
Complete == Exhausted => Lattice(req) \subseteq tested

(* "Not found for that interval" is true: no point of the grid solves the   *)
(* equation (the only call of this program, so the result set was empty).   *)
ZeroMeansNone ==
  pc = "returned" /\ ret = 0 /\ Kind # "target" =>
    \A x \in Lattice(req) : ~Holds(x, NoTarget)

(* The points walked at radius r, by the request alone.                     *)
Cube(r) ==
  {x \in Box(req) : \A d \in 1..req.useDim :
     x[d] \in Axis(Larger(-r, req.from[d]), Smaller(r, req.to[d]), req.step[d])}

(* What the count of a plain boolean function amounts to: every solution    *)
(* once for each radius whose cube walks over it.                           *)
ExactCount ==
  pc = "returned" /\ Kind = "bool" /\ ~Flag("STOP_RUN", opt) =>
    ret = Cardinality(UNION {{<<r, x>> : x \in {y \in Cube(r) : Holds(y, NoTarget)}}
                             : r \in 0..greatest})

Norm(x) == CHOOSE n \in {Abs(x[d]) : d \in DOMAIN x} : \A d \in DOMAIN x : Abs(x[d]) <= n

(* With unit steps, STOPRUN stops at a solution nearest to the origin: that *)
(* is what sweeping cubes of growing radius is for.                         *)
NearestFirst ==
  pc = "returned" /\ Kind = "bool" /\ Flag("STOP_RUN", opt)
  /\ (\A d \in 1..req.useDim : req.step[d] = 1) =>
    \A x \in tested, y \in Box(req) :
      Holds(x, NoTarget) /\ Holds(y, NoTarget) => Norm(x) <= Norm(y)

(* In the first call of a program with a "unique" function every message    *)
(* saved is printed, once and for the point it was saved for, and until the *)
(* result set is full the count is the number of distinct solutions.        *)
MessagesPaired ==
  Kind = "unique" /\ Flag("PRINT", opt) =>
    /\ {p[2] : p \in printed} = {prev[j] : j \in 1..Len(prev)}
    /\ \A p \in printed : p[2] = Val(p[1])
    /\ Flag("STOP_RUN", opt) \/ (IF Full(prev) THEN total >= ResCap ELSE total = Len(prev))

(* With positive steps in every loop, used or not, the call ends.           *)
Terminates ==
  (pc = "idle" /\ \A d \in Dims : req.step[d] > 0) ~> Ended

(* "runners (just true/false or == targetValue)", eng_runner.h: a function  *)
(* with a target is given the target value of the request.                  *)
TargetReaches == Flag("TARGET_VALUE", opt) => given \subseteq {req.targetValue}

(***************************************************************************)
(* The engine implements the search of a box: the sweep over the radius is *)
(* invisible, a return at the end of the sweep is the claim to have tried  *)
(* every point, a return inside it is the first hit.                       *)
(***************************************************************************)
Verdict ==
  CASE pc = "killed" -> "aborted"
    [] pc = "returned" /\ radius > greatest -> "all"
    [] pc = "returned" /\ radius <= greatest -> "first"
    [] OTHER -> "none"

MayHold(x) == \E t \in Garbage \union {NoTarget} : Holds(x, t)

Search == INSTANCE BoxSearch WITH
  box <- Box(req), must <- Lattice(req), verdict <- Verdict, Yes <- MayHold
Implements == Search!SSpec
=============================================================================
