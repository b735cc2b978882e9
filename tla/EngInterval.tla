---------------------------- MODULE EngInterval ----------------------------
(***************************************************************************)
(* eng_check_int2dim_interval (utils/eng_runner.c): a call of eng_int_run  *)
(* for every target value of a range, the counts added up.  The calls      *)
(* share what is global in the program: the result set, which no call      *)
(* resets, and the offset of the log.                                      *)
(***************************************************************************)
EXTENDS EngIntRun

CONSTANTS ValFrom, ValTo

(* Requests are what eng_int_run is called with, and this driver calls it   *)
(* with every target of its range.                                          *)
ASSUME EngIntervalAssumption ==
  /\ ValFrom \in Int /\ ValTo \in Int
  /\ \A r \in Requests, v \in ValFrom..ValTo : [r EXCEPT !.targetValue = v] \in Requests

VARIABLES
  dpc,   \* the driver: "idle", "loop", "call", "done" or "crashed"
  drt,   \* its eng_int_interval
  val,   \* its loop variable i
  sum,   \* its total
  dlv,   \* its _LG_LV
  logUp  \* the log file could be opened

driver == <<dpc, drt, val, sum, dlv, logUp>>
ivars == <<vars, driver>>

IInit ==
  /\ Init /\ drt \in Requests /\ drt = req
  /\ dpc = "idle" /\ val = ValFrom /\ sum = 0 /\ dlv = 0
  /\ logUp \in BOOLEAN

(* The request is written to the log file, which is a null pointer when the *)
(* logenter could open none.                                                *)
NoLogFile ==
  /\ dpc = "idle" /\ ~logUp
  /\ dpc' = "crashed"
  /\ UNCHANGED <<vars, drt, val, sum, dlv, logUp>>

CheckInterval ==
  /\ dpc = "idle" /\ logUp
  /\ offset' = offset + 1 /\ dlv' = offset + 1        \* logenter
  /\ dpc' = "loop"
  /\ UNCHANGED <<drt, val, sum, logUp, pc, req, rt, opt, dim, greatest, radius, lo, hi,
                 level, iter, total, ret, lv, prev, history>>

CallRun ==
  /\ dpc = "loop" /\ val <= ValTo
  /\ drt' = [drt EXCEPT !.targetValue = val]
  /\ Start(drt')
  /\ dpc' = "call"
  /\ UNCHANGED <<val, sum, dlv, logUp>>

Collect ==
  /\ dpc = "call" /\ pc = "returned"
  /\ sum' = sum + ret /\ val' = val + 1 /\ dpc' = "loop"
  /\ UNCHANGED <<vars, drt, dlv, logUp>>

IntervalReturn ==
  /\ dpc = "loop" /\ val > ValTo
  /\ dpc' = "done"
  /\ offset' = dlv - 1                                \* logret
  /\ UNCHANGED <<drt, val, sum, dlv, logUp, pc, req, rt, opt, dim, greatest, radius, lo, hi,
                 level, iter, total, ret, lv, prev, history>>

InCall == dpc = "call" /\ Run /\ UNCHANGED driver

INext == NoLogFile \/ CheckInterval \/ CallRun \/ Collect \/ IntervalReturn \/ InCall

ISpec == IInit /\ [][INext]_ivars /\ WF_ivars(INext)

(***************************************************************************)
(* Properties.                                                             *)
(***************************************************************************)

(* A run cut short by STOPRUN leaves the log one level deeper, one that ran *)
(* to its end leaves it where it was: between two runs the offset is the    *)
(* driver's own plus the number of runs that were cut short.                *)
OffsetLeak ==
  dpc = "loop" => offset = dlv + (IF Flag("STOP_RUN", drt.flags) THEN sum ELSE 0)

(* The result set outlives the runs: while it is not full, the sum over the *)
(* whole range is the number of distinct values, each counted in the first  *)
(* run that met it and in no later one.                                     *)
ReportedOnce ==
  dpc \in {"loop", "done"} /\ Kind = "unique" /\ ~Full(prev) => sum = Len(prev)

(* A later run of a "unique" function can find nothing although the box     *)
(* holds solutions; what it does promise is that each of them is near a     *)
(* value already saved.                                                     *)
NothingNewLeft ==
  dpc = "call" /\ Kind = "unique" /\ Exhausted /\ ~Full(prev) =>
    \A x \in Lattice(req) : Holds(x, NoTarget) => CheckPrevious(prev, Val(x))

(* The messages of a range: while nothing has been found the messages are   *)
(* those of a first call, each printed for its point.  After that the count *)
(* of a call, which starts at 0, never meets the number of messages saved,  *)
(* which does not: solutions are counted and none is shown, until the       *)
(* result set is full.                                                      *)
ShownUntilFound ==
  dpc = "call" => IF sum = 0 THEN MessagesPaired ELSE Full(prev) \/ printed = {}

(* With a log file the driver goes through the whole range. *)
IntervalEnds ==
  (dpc = "idle" /\ logUp /\ \A d \in Dims : drt.step[d] > 0) ~> (dpc = "done" \/ pc = "killed")
=============================================================================
