------------------------- MODULE EngInterval_proofs -------------------------
(***************************************************************************)
(* Proofs about a range of target values, for every range, request, target *)
(* function and capacity: what the calls leave behind for each other in    *)
(* the offset of the log and in the result set.  Each is an equation that  *)
(* holds between the calls; Leak and Kept say what becomes of it inside    *)
(* one.                                                                    *)
(***************************************************************************)
EXTENDS EngInterval, EngIntRun_proofs

Stops == Flag("STOP_RUN", drt.flags)
Leaked == IF Stops THEN sum ELSE 0
Running == pc \in {"greatest", "radius", "loop"}

Numbers ==
  /\ drt \in RequestType /\ val \in Int /\ sum \in Int /\ dlv \in Int
  /\ offset \in Int /\ lv \in Int /\ total \in Int /\ ret \in Int
  /\ dpc = "idle" => sum = 0
  /\ dpc = "call" => pc # "idle" /\ opt = drt.flags /\ (Running /\ Stops => total = 0)

Leak ==
  /\ dpc = "loop" => offset = dlv + Leaked
  /\ dpc = "call" /\ Running => offset = lv /\ lv = dlv + Leaked + 1
  /\ dpc = "call" /\ pc = "returned" => offset = dlv + Leaked + (IF Stops THEN ret ELSE 0)

(* A run that is not cut short, or not by now, leaves everything in place.  *)
LEMMA RunSteps ==
  ASSUME Numbers, InCall
  PROVE  \/ /\ Running /\ Running' /\ UNCHANGED <<offset, lv, prev, total, ret, opt, driver>>
         \/ Unsupported /\ pc' = "killed" /\ UNCHANGED <<offset, lv, prev, total, ret, opt, driver>>
         \/ /\ Running /\ Running' /\ offset' = lv /\ UNCHANGED <<lv, prev, total, ret, opt, driver>>
         \/ /\ Running /\ pc' = "returned" /\ ret' = total /\ offset' = lv - 1
            /\ UNCHANGED <<lv, prev, total, opt, driver>>
         \/ \E t : /\ Running /\ Running' /\ ~Flag("STOP_RUN", opt) /\ Answer(t) /\ Report
                   /\ total' = total + 1 /\ UNCHANGED <<lv, ret, opt, driver>>
         \/ \E t : /\ Running /\ pc' = "returned" /\ Flag("STOP_RUN", opt) /\ Answer(t) /\ Report
                   /\ ret' = 1 /\ UNCHANGED <<lv, total, opt, driver>>
<1> USE DEF Running, shared
<1>0. Run /\ UNCHANGED driver BY DEF InCall
<1>1. CASE FindGreatest BY <1>0, <1>1 DEF FindGreatest
<1>2. CASE Setup BY <1>0, <1>2 DEF Setup
<1>3. CASE Clip BY <1>0, <1>3 DEF Clip
<1>4. CASE Descend BY <1>0, <1>4 DEF Descend, Inside
<1>5. CASE Ascend BY <1>0, <1>5 DEF Ascend, Past
<1>6. CASE EndRadius BY <1>0, <1>6 DEF EndRadius, Past
<1>7. CASE Return BY <1>0, <1>7 DEF Return
<1>8. CASE Unsupported BY <1>0, <1>8 DEF Unsupported
<1>9. ASSUME NEW t \in Passed, Miss(t)
      PROVE  Running /\ Running' /\ UNCHANGED <<offset, lv, prev, total, ret, opt, driver>>
  BY <1>0, <1>9 DEF Miss, Ask, AtPoint, Inside
<1>10. ASSUME NEW t \in Passed, Count(t)
       PROVE  /\ Running /\ Running' /\ ~Flag("STOP_RUN", opt) /\ Answer(t) /\ Report
              /\ total' = total + 1 /\ UNCHANGED <<lv, ret, opt, driver>>
  BY <1>0, <1>10 DEF Count, Ask, AtPoint, Inside
<1>11. ASSUME NEW t \in Passed, StopRun(t)
       PROVE  /\ Running /\ pc' = "returned" /\ Flag("STOP_RUN", opt) /\ Answer(t) /\ Report
              /\ ret' = 1 /\ UNCHANGED <<lv, total, opt, driver>>
  BY <1>0, <1>11 DEF StopRun, Ask, AtPoint, Inside
<1>12. QED
  BY <1>0, <1>1, <1>2, <1>3, <1>4, <1>5, <1>6, <1>7, <1>8, <1>9, <1>10, <1>11, Zenon DEF Run

-----------------------------------------------------------------------------
(* What a run's report does to the offset: back to its own level, or not.   *)
LEMMA ReportOffset ==
  ASSUME Numbers, Leak, dpc = "call", Running, Report PROVE offset' = lv /\ offset = lv
BY DEF Report, Leak

(* The driver starts, or starts one more run. *)
LEMMA DriverSteps ==
  ASSUME Numbers, Leak, CheckInterval \/ CallRun \/ Collect \/ IntervalReturn
  PROVE  Numbers' /\ Leak'
<1> USE DEF shared, history
<1>1. CASE CheckInterval
  <2>1. /\ sum = 0 /\ dpc' = "loop" /\ offset' = offset + 1 /\ dlv' = offset + 1
        /\ UNCHANGED <<drt, val, sum, pc, opt, lv, total, ret>>
    BY <1>1 DEF CheckInterval, Numbers
  <2>2. Numbers' BY <2>1 DEF Numbers
  <2>3. QED BY <2>1, <2>2 DEF Numbers, Leak, Leaked
<1>2. CASE CallRun
  <2>1. /\ dpc = "loop" /\ dpc' = "call" /\ drt' = [drt EXCEPT !.targetValue = val] /\ pc' = "greatest"
        /\ opt' = drt'.flags /\ total' = 0 /\ ret' = 0 /\ offset' = offset + 1 /\ lv' = offset + 1
        /\ UNCHANGED <<val, sum, dlv>>
    BY <1>2 DEF CallRun, Start
  <2>2. drt \in RequestType /\ val \in Int BY DEF Numbers
  <2>3. drt' \in RequestType /\ drt'.flags = drt.flags BY <2>1, <2>2 DEF RequestType
  <2>4. Numbers' BY <2>1, <2>3 DEF Numbers
  <2>5. Stops' = Stops /\ Leaked' = Leaked BY <2>1, <2>3 DEF Stops, Leaked, Flag
  <2>6. offset = dlv + Leaked /\ offset \in Int BY <2>1 DEF Leak, Numbers
  <2>7. offset' = lv' /\ lv' = dlv' + Leaked' + 1 BY <2>1, <2>5, <2>6
  <2>8. QED BY <2>1, <2>4, <2>7 DEF Leak, Running
<1>3. CASE Collect
  <2>1. /\ dpc = "call" /\ pc = "returned" /\ dpc' = "loop" /\ sum' = sum + ret /\ val' = val + 1
        /\ UNCHANGED <<drt, dlv, pc, opt, offset, lv, total, ret>>
    BY <1>3 DEF Collect, vars
  <2>2. Numbers' BY <2>1 DEF Numbers
  <2>3. offset = dlv + Leaked + (IF Stops THEN ret ELSE 0) BY <2>1 DEF Leak
  <2>4. sum \in Int /\ ret \in Int /\ dlv \in Int BY DEF Numbers
  <2>5. Leaked' = Leaked + (IF Stops THEN ret ELSE 0) BY <2>1, <2>4 DEF Leaked, Stops
  <2>6. offset' = dlv' + Leaked'
    <3>1. CASE Stops BY <2>1, <2>3, <2>4, <2>5, <3>1 DEF Leaked
    <3>2. CASE ~Stops BY <2>1, <2>3, <2>4, <2>5, <3>2 DEF Leaked
    <3>3. QED BY <3>1, <3>2
  <2>7. QED BY <2>1, <2>2, <2>6 DEF Leak
<1>4. CASE IntervalReturn
  <2>1. /\ dpc' = "done" /\ offset' = dlv - 1
        /\ UNCHANGED <<drt, val, sum, dlv, pc, opt, lv, total, ret>>
    BY <1>4 DEF IntervalReturn
  <2>2. QED BY <2>1 DEF Numbers, Leak
<1>5. QED BY <1>1, <1>2, <1>3, <1>4

(* A step of the run. *)
LEMMA CallSteps == ASSUME Numbers, Leak, InCall PROVE Numbers' /\ Leak'
<1>0. /\ dpc = "call" /\ UNCHANGED driver /\ opt = drt.flags /\ (Running /\ Stops => total = 0)
      /\ total \in Int /\ lv \in Int /\ offset \in Int /\ ret \in Int /\ sum \in Int /\ dlv \in Int
  BY DEF InCall, Numbers
<1>1. UNCHANGED <<dpc, drt, val, sum, dlv>> BY <1>0 DEF driver
<1>2. Stops' = Stops /\ Leaked' = Leaked BY <1>1 DEF Stops, Leaked
<1>3. Stops <=> Flag("STOP_RUN", opt) BY <1>0 DEF Stops
<1>4. ASSUME Running, Running', offset' = lv \/ offset' = offset,
             UNCHANGED <<lv, total, ret, opt>>
      PROVE  Numbers' /\ Leak'
  <2>1. offset' = lv /\ lv' = dlv + Leaked + 1 BY <1>0, <1>4 DEF Leak
  <2>2. pc' # "idle" /\ pc' # "returned" BY <1>4 DEF Running
  <2>3. Numbers' BY <1>0, <1>1, <1>2, <1>4, <2>1, <2>2 DEF Numbers
  <2>4. QED BY <1>0, <1>1, <1>2, <1>4, <2>1, <2>2, <2>3 DEF Leak
<1>5. ASSUME pc' = "killed", UNCHANGED <<offset, lv, total, ret, opt>> PROVE Numbers' /\ Leak'
  BY <1>0, <1>1, <1>2, <1>5 DEF Numbers, Leak, Running
<1>6. ASSUME Running, pc' = "returned", ret' = total, offset' = lv - 1, UNCHANGED <<lv, total, opt>>
      PROVE  Numbers' /\ Leak'
  <2>1. lv = dlv + Leaked + 1 BY <1>0, <1>6 DEF Leak
  <2>2. Numbers' BY <1>0, <1>1, <1>6 DEF Numbers, Running
  <2>3. Stops => ret' = 0 BY <1>0, <1>6
  <2>4. Leaked \in Int BY <1>0 DEF Leaked
  <2>5. offset' = dlv + Leaked + (IF Stops THEN ret' ELSE 0) BY <1>0, <1>6, <2>1, <2>3, <2>4
  <2>6. QED BY <1>0, <1>1, <1>2, <1>6, <2>2, <2>5 DEF Leak, Running
<1>7. ASSUME Running, Running', ~Flag("STOP_RUN", opt), Report, total' = total + 1,
             UNCHANGED <<lv, ret, opt>>
      PROVE  Numbers' /\ Leak'
  <2>1. offset' = lv /\ lv' = dlv + Leaked + 1 BY <1>0, <1>7, ReportOffset DEF Leak
  <2>2. pc' # "idle" /\ pc' # "returned" BY <1>7 DEF Running
  <2>3. Numbers' BY <1>0, <1>1, <1>2, <1>3, <1>7, <2>1, <2>2 DEF Numbers
  <2>4. QED BY <1>0, <1>1, <1>2, <1>7, <2>1, <2>2, <2>3 DEF Leak
<1>8. ASSUME Running, pc' = "returned", Flag("STOP_RUN", opt), Report, ret' = 1,
             UNCHANGED <<lv, total, opt>>
      PROVE  Numbers' /\ Leak'
  <2>1. offset' = lv /\ lv = dlv + Leaked + 1 BY <1>0, <1>8, ReportOffset DEF Leak
  <2>2. Numbers' BY <1>0, <1>1, <1>8, <2>1 DEF Numbers, Running
  <2>3. offset' = dlv + Leaked + (IF Stops THEN ret' ELSE 0) BY <1>3, <1>8, <2>1
  <2>4. QED BY <1>0, <1>1, <1>2, <1>8, <2>2, <2>3 DEF Leak, Running
<1>9. QED BY <1>4, <1>5, <1>6, <1>7, <1>8, RunSteps

LEMMA LeakInit == IInit => Numbers /\ Leak
<1> SUFFICES ASSUME IInit PROVE Numbers /\ Leak OBVIOUS
<1>1. drt \in RequestType /\ val \in Int
  BY EngIntRunAssumption, EngIntervalAssumption DEF IInit
<1>2. /\ dpc = "idle" /\ sum = 0 /\ dlv = 0 /\ offset = 0 /\ lv = 0 /\ total = 0 /\ ret = 0
  BY DEF IInit, Init
<1>3. QED BY <1>1, <1>2 DEF Numbers, Leak

LEMMA LeakStep == Numbers /\ Leak /\ [INext]_ivars => Numbers' /\ Leak'
<1> SUFFICES ASSUME Numbers, Leak, [INext]_ivars PROVE Numbers' /\ Leak' OBVIOUS
<1>1. CASE InCall BY <1>1, CallSteps
<1>2. CASE CheckInterval \/ CallRun \/ Collect \/ IntervalReturn BY <1>2, DriverSteps
<1>3. CASE UNCHANGED ivars
  BY <1>3 DEF ivars, vars, driver, shared, Numbers, Leak, Leaked, Stops, Running
<1>4. CASE NoLogFile BY <1>4 DEF NoLogFile, vars, shared, Numbers, Leak
<1>5. QED BY <1>1, <1>2, <1>3, <1>4 DEF INext

(* Between two runs the log is deeper than the driver by one level for each *)
(* run that STOPRUN cut short, and by none for the others.                  *)
THEOREM OffsetLeaks == ISpec => []OffsetLeak
<1>1. Leak => OffsetLeak BY DEF Leak, OffsetLeak, Leaked, Stops
<1>2. QED BY LeakInit, LeakStep, <1>1, PTL DEF ISpec

-----------------------------------------------------------------------------
(* The result set and the counts: what the runs have returned, and the      *)
(* running one has counted, is what the result set holds, while it has room.*)
PrevSeq == \E T : prev \in Seq(T)

Kept ==
  /\ PrevSeq
  /\ dpc = "idle" => prev = <<>>
  /\ Kind = "unique" /\ ~Full(prev) =>
       /\ dpc \in {"loop", "done"} => sum = Len(prev)
       /\ dpc = "call" /\ Running => sum + total = Len(prev)
       /\ dpc = "call" /\ pc = "returned" => sum + ret = Len(prev)

(* A solution that is counted has been saved, unless there was no room.     *)
LEMMA ReportSaves ==
  ASSUME PrevSeq, NEW t, Answer(t), Report
  PROVE  /\ PrevSeq'
         /\ Kind = "unique" /\ ~Full(prev)' => ~Full(prev) /\ Len(prev') = Len(prev) + 1
<1>1. CASE Kind # "unique" BY <1>1 DEF Report, PrevSeq
<1>2. CASE Kind = "unique"
  <2>1. PICK T : prev \in Seq(T) BY DEF PrevSeq
  <2> DEFINE v == Val(Args)
             U == T \union {v}
  <2>2. ~CheckPrevious(prev, v) /\ prev' = Remember(prev, v) BY <1>2 DEF Answer, Report
  <2>3. CASE Full(prev) BY <2>2, <2>3 DEF Remember, PrevSeq
  <2>4. CASE ~Full(prev)
    <3>1. prev' = Append(prev, v) BY <2>2, <2>4 DEF Remember
    <3>2. prev \in Seq(U) /\ v \in U BY <2>1
    <3>3. prev' \in Seq(U) /\ Len(prev') = Len(prev) + 1 BY <3>1, <3>2
    <3>4. PrevSeq' BY <3>3, Zenon DEF PrevSeq
    <3>5. QED BY <2>4, <3>3, <3>4
  <2>5. QED BY <2>3, <2>4
<1>3. QED BY <1>1, <1>2

LEMMA KeptStep == Numbers /\ Kept /\ [INext]_ivars => Kept'
<1> SUFFICES ASSUME Numbers, Kept, [INext]_ivars PROVE Kept' OBVIOUS
<1> USE DEF shared
<1>0. /\ PrevSeq /\ sum \in Int /\ total \in Int /\ ret \in Int /\ Len(prev) \in Nat
  BY DEF Kept, Numbers, PrevSeq
<1>1. CASE CheckInterval
  <2>1. dpc = "idle" /\ dpc' = "loop" /\ sum = 0 /\ prev = <<>> /\ UNCHANGED <<prev, sum>>
    BY <1>1 DEF CheckInterval, Numbers, Kept
  <2>2. Len(prev) = 0 BY <2>1
  <2>3. QED BY <1>0, <2>1, <2>2 DEF Kept, PrevSeq
<1>2. CASE CallRun
  <2>1. /\ dpc = "loop" /\ dpc' = "call" /\ pc' = "greatest" /\ total' = 0 /\ UNCHANGED <<prev, sum>>
    BY <1>2 DEF CallRun, Start
  <2>2. QED BY <1>0, <2>1 DEF Kept, PrevSeq, Running
<1>3. CASE Collect
  <2>1. dpc = "call" /\ pc = "returned" /\ dpc' = "loop" /\ sum' = sum + ret /\ UNCHANGED prev
    BY <1>3 DEF Collect, vars
  <2>2. QED BY <1>0, <2>1 DEF Kept, PrevSeq
<1>4. CASE IntervalReturn
  <2>1. dpc = "loop" /\ dpc' = "done" /\ UNCHANGED <<prev, sum>> BY <1>4 DEF IntervalReturn
  <2>2. QED BY <1>0, <2>1 DEF Kept, PrevSeq
<1>5. CASE InCall
  <2>0. dpc = "call" /\ dpc' = "call" /\ sum' = sum /\ opt = drt.flags
        /\ (Running /\ Flag("STOP_RUN", opt) => total = 0)
    BY <1>5 DEF InCall, driver, Numbers, Stops
  <2>1. ASSUME UNCHANGED prev, ~Running' /\ pc' # "returned" PROVE Kept'
    BY <1>0, <2>0, <2>1 DEF Kept, PrevSeq
  <2>2. ASSUME Running, Running', UNCHANGED <<prev, total>> PROVE Kept'
    BY <1>0, <2>0, <2>2 DEF Kept, PrevSeq, Running
  <2>3. ASSUME Running, pc' = "returned", ret' = total, UNCHANGED prev PROVE Kept'
    BY <1>0, <2>0, <2>3 DEF Kept, PrevSeq, Running
  <2>4. ASSUME NEW t, Running, Running', Answer(t), Report, total' = total + 1 PROVE Kept'
    <3>1. PrevSeq' BY <1>0, <2>4, ReportSaves
    <3>2. ASSUME Kind = "unique", ~Full(prev)' PROVE sum + total' = Len(prev')
      <4>1. ~Full(prev) /\ Len(prev') = Len(prev) + 1 BY <1>0, <2>4, <3>2, ReportSaves
      <4>2. sum + total = Len(prev) BY <2>0, <2>4, <3>2, <4>1 DEF Kept
      <4>3. QED BY <1>0, <2>4, <4>1, <4>2
    <3>3. QED BY <2>0, <2>4, <3>1, <3>2 DEF Kept, Running
  <2>5. ASSUME NEW t, Running, pc' = "returned", Flag("STOP_RUN", opt), Answer(t), Report, ret' = 1
        PROVE  Kept'
    <3>1. PrevSeq' BY <1>0, <2>5, ReportSaves
    <3>2. ASSUME Kind = "unique", ~Full(prev)' PROVE sum + ret' = Len(prev')
      <4>1. ~Full(prev) /\ Len(prev') = Len(prev) + 1 BY <1>0, <2>5, <3>2, ReportSaves
      <4>2. sum + total = Len(prev) /\ total = 0 BY <2>0, <2>5, <3>2, <4>1 DEF Kept
      <4>3. QED BY <1>0, <2>5, <4>1, <4>2
    <3>3. QED BY <2>0, <2>5, <3>1, <3>2 DEF Kept, Running
  <2>6. pc' = "killed" => ~Running' /\ pc' # "returned" BY DEF Running
  <2>7. QED BY <1>5, <2>1, <2>2, <2>3, <2>4, <2>5, <2>6, RunSteps
<1>6. CASE UNCHANGED ivars
  BY <1>6 DEF ivars, vars, driver, Kept, PrevSeq, Running
<1>7. CASE NoLogFile BY <1>0, <1>7 DEF NoLogFile, vars, Kept, PrevSeq
<1>8. QED BY <1>1, <1>2, <1>3, <1>4, <1>5, <1>6, <1>7 DEF INext

(* A function that asks the result set is counted once per distinct value   *)
(* over the whole range, however the values fall on the runs, while the set *)
(* has room.                                                                *)
THEOREM CountedOnce == ISpec => []ReportedOnce
<1>1. IInit => Kept
  <2>1. <<>> \in Seq({}) OBVIOUS
  <2>2. QED BY <2>1 DEF IInit, Init, Kept, PrevSeq
<1>2. Kept => ReportedOnce BY DEF Kept, ReportedOnce
<1>3. QED BY LeakInit, LeakStep, <1>1, KeptStep, <1>2, PTL DEF ISpec

-----------------------------------------------------------------------------
(* The invariant of a run holds in every run of the range: a run starts      *)
(* afresh in everything but the result set and the log.                      *)
Runs ==
  /\ IInv
  /\ drt \in Requests /\ val \in Int /\ val >= ValFrom /\ sum \in Nat /\ dlv \in Int

LEMMA RunsInit == IInit => Runs
BY InitInv, EngIntervalAssumption DEF IInit, Runs

LEMMA RunsStep == Runs /\ [INext]_ivars => Runs'
<1> SUFFICES ASSUME Runs, [INext]_ivars PROVE Runs' OBVIOUS
<1> USE DEF shared, history
<1>0. offset \in Int /\ ret \in Nat BY DEF Runs, IInv, TypeOK
<1>1. CASE CheckInterval
  <2>1. IInv' BY <1>0, <1>1, IdleInv DEF CheckInterval, Runs
  <2>2. QED BY <1>0, <1>1, <2>1 DEF CheckInterval, Runs
<1>2. CASE CallRun
  <2>1. /\ drt' = [drt EXCEPT !.targetValue = val] /\ val \in ValFrom..ValTo /\ Start(drt')
        /\ UNCHANGED <<val, sum, dlv>>
    BY <1>2, EngIntervalAssumption DEF CallRun, Runs
  <2>2. drt' \in Requests BY <2>1, EngIntervalAssumption DEF Runs
  <2>3. IInv' BY <2>1, <2>2, StartInv DEF Runs
  <2>4. QED BY <2>1, <2>2, <2>3 DEF Runs
<1>3. CASE Collect
  <2>1. UNCHANGED vars BY <1>3 DEF Collect
  <2>2. IInv' BY <2>1, NextInv DEF Runs
  <2>3. QED BY <1>0, <1>3, <2>2, EngIntervalAssumption DEF Collect, Runs
<1>4. CASE IntervalReturn
  <2>1. dlv - 1 \in Int BY DEF Runs
  <2>2. IInv' BY <1>4, <2>1, IdleInv DEF IntervalReturn, Runs
  <2>3. QED BY <1>4, <2>2 DEF IntervalReturn, Runs
<1>5. CASE InCall
  <2>1. IInv' BY <1>5, NextInv DEF InCall, Next, Runs
  <2>2. QED BY <1>5, <2>1 DEF InCall, driver, Runs
<1>6. CASE UNCHANGED ivars
  <2>1. IInv' BY <1>6, NextInv DEF ivars, Runs
  <2>2. QED BY <1>6, <2>1 DEF ivars, driver, Runs
<1>7. CASE NoLogFile
  <2>1. IInv' BY <1>7, NextInv DEF NoLogFile, Runs
  <2>2. QED BY <1>7, <2>1 DEF NoLogFile, Runs
<1>8. QED BY <1>1, <1>2, <1>3, <1>4, <1>5, <1>6, <1>7 DEF INext

(* What a step does to the points tried and the messages printed. *)
LEMMA AskSteps ==
  ASSUME [INext]_ivars
  PROVE  \/ UNCHANGED <<tested, printed, prev>>
         \/ CallRun
         \/ \E t \in Passed : InCall /\ Miss(t)
         \/ \E t \in Passed : InCall /\ (Count(t) \/ StopRun(t))
<1> USE DEF shared, history
<1>1. CASE NoLogFile \/ CheckInterval \/ Collect \/ IntervalReturn \/ UNCHANGED ivars
  BY <1>1 DEF NoLogFile, CheckInterval, Collect, IntervalReturn, ivars, vars
<1>2. CASE InCall
  <2>1. CASE FindGreatest \/ Setup \/ Clip \/ Descend \/ Ascend \/ EndRadius \/ Return \/ Unsupported
    BY <2>1 DEF FindGreatest, Setup, Clip, Descend, Ascend, EndRadius, Return, Unsupported
  <2>2. QED BY <1>2, <2>1 DEF InCall, Run
<1>3. QED BY <1>1, <1>2 DEF INext

(* A value that a true answer saves, or that was near a saved one before, is *)
(* near a saved one after.                                                   *)
LEMMA SavedIsNear ==
  ASSUME NEW p \in Seq(Int), NEW v \in Int, ~Full(p), ~CheckPrevious(p, v)
  PROVE  /\ Remember(p, v) = Append(p, v) /\ CheckPrevious(Remember(p, v), v)
         /\ \A w : CheckPrevious(p, w) => CheckPrevious(Remember(p, v), w)
<1> DEFINE q == Append(p, v)
<1>1. Remember(p, v) = q BY DEF Remember
<1>2. Len(q) = Len(p) + 1 /\ q[Len(p) + 1] = v /\ \A j \in 1..Len(p) : q[j] = p[j] /\ j \in 1..Len(q)
  OBVIOUS
<1>3. CheckPrevious(q, v)
  <2>1. Near(v, v) BY ResultSetAssumption DEF Near
  <2>2. QED BY <1>2, <2>1 DEF CheckPrevious
<1>4. ASSUME NEW w, CheckPrevious(p, w) PROVE CheckPrevious(q, w)
  BY <1>2, <1>4 DEF CheckPrevious
<1>5. QED BY <1>1, <1>3, <1>4

(* The point a run is at has an integer value. *)
LEMMA ValTyped == ASSUME IInv, NEW t, Ask(t) PROVE Val(Args) \in Int
<1>1. Args \in Box(req) /\ req.useDim \in 1..LoopDims BY AskInBox DEF Dims
<1>2. req \in Requests BY DEF IInv, TypeOK
<1>3. QED BY <1>1, <1>2, EngIntRunAssumption

(* Every solution tried so far is near a value saved, by this run or by one  *)
(* before it, while the result set has room.                                 *)
AllNear ==
  Kind = "unique" /\ ~Full(prev) =>
    \A x \in tested : Holds(x, NoTarget) => CheckPrevious(prev, Val(x))

LEMMA AllNearStep == Runs /\ AllNear /\ [INext]_ivars => AllNear'
<1> SUFFICES ASSUME Runs, AllNear, [INext]_ivars, Kind = "unique", ~Full(prev)' PROVE AllNear'
  BY DEF AllNear
<1>0. IInv /\ prev \in Seq(Int) BY DEF Runs, IInv, TypeOK
<1>1. CASE UNCHANGED <<tested, printed, prev>> BY <1>1 DEF AllNear
<1>2. CASE CallRun BY <1>2 DEF CallRun, Start, AllNear
<1>3. ASSUME NEW t \in Passed, Miss(t) PROVE AllNear'
  <2>1. /\ t = NoTarget /\ ~Answer(t) /\ prev' = prev /\ tested' = tested \union {Args}
    BY <1>3 DEF Miss, Ask, Passed
  <2>2. Holds(Args, NoTarget) => CheckPrevious(prev, Val(Args)) BY <2>1 DEF Answer
  <2>3. QED BY <2>1, <2>2 DEF AllNear
<1>4. ASSUME NEW t \in Passed, Count(t) \/ StopRun(t) PROVE AllNear'
  <2>1. /\ Ask(t) /\ ~CheckPrevious(prev, Val(Args)) /\ prev' = Remember(prev, Val(Args))
        /\ tested' = tested \union {Args}
    BY <1>4 DEF Count, StopRun, Answer, Report, Ask
  <2>2. ~Full(prev) BY <2>1 DEF Remember
  <2>3. Val(Args) \in Int BY <1>0, <2>1, ValTyped
  <2>4. /\ CheckPrevious(prev', Val(Args))
        /\ \A w : CheckPrevious(prev, w) => CheckPrevious(prev', w)
    BY <1>0, <2>1, <2>2, <2>3, SavedIsNear
  <2>5. QED BY <2>1, <2>2, <2>4 DEF AllNear
<1>5. QED BY <1>1, <1>2, <1>3, <1>4, AskSteps

(* A later run may find nothing in a box that holds solutions; each of them  *)
(* is then near a value saved.                                               *)
THEOREM NothingNewIsLeft == ISpec => []NothingNewLeft
<1>1. IInit => AllNear BY DEF IInit, Init, AllNear
<1>2. ASSUME Runs, AllNear PROVE NothingNewLeft
  <2>1. SUFFICES ASSUME Kind = "unique", Exhausted, ~Full(prev), NEW x \in Lattice(req),
                        Holds(x, NoTarget)
                 PROVE  CheckPrevious(prev, Val(x))
    BY DEF NothingNewLeft
  <2>2. pc \notin Before /\ radius > greatest
    BY <1>2, <2>1 DEF Exhausted, Runs, IInv, Returned, Before
  <2>3. x \in tested BY <1>2, <2>1, <2>2, LastCube DEF Runs
  <2>4. QED BY <1>2, <2>1, <2>3 DEF AllNear
<1>3. QED BY <1>1, <1>2, RunsInit, RunsStep, AllNearStep, PTL DEF ISpec

(* The types of a run, in every run of the range.                            *)
THEOREM RangeTypes == ISpec => []TypeOK
<1>1. Runs => TypeOK BY DEF Runs, IInv
<1>2. QED BY <1>1, RunsInit, RunsStep, PTL DEF ISpec

-----------------------------------------------------------------------------
(* The messages.  While no run has returned a solution, what is printed is    *)
(* what the result set holds, and the count is its length until it is full.  *)
Paired ==
  Kind = "unique" =>
    /\ Flag("PRINT", opt) => /\ {p[2] : p \in printed} = {prev[j] : j \in 1..Len(prev)}
                             /\ \A p \in printed : p[2] = Val(p[1])
    /\ Flag("STOP_RUN", opt) \/ (IF Full(prev) THEN total >= ResCap ELSE total = Len(prev))

(* The result set never holds more than the runs have returned and counted.  *)
Held ==
  /\ Kind # "unique" => prev = <<>>
  /\ Kind = "unique" =>
       /\ dpc \in {"idle", "loop", "done"} => Len(prev) <= sum
       /\ dpc = "call" /\ Running => Len(prev) <= sum + total
       /\ dpc = "call" /\ pc = "returned" => Len(prev) <= sum + ret

Shown == dpc = "call" => IF sum = 0 THEN Paired ELSE Full(prev) \/ printed = {}

ShownInv == Runs /\ Numbers /\ Kept /\ Held /\ Shown

LEMMA RememberLength ==
  ASSUME NEW p \in Seq(Int), NEW v \in Int
  PROVE  /\ Len(Remember(p, v)) <= Len(p) + 1
         /\ Full(p) => Remember(p, v) = p
BY DEF Remember

(* A true answer that finds room is the message that pairs count and set.    *)
LEMMA ReportPairs ==
  ASSUME IInv, NEW t, Ask(t), Answer(t), Report, Kind = "unique", Flag("PRINT", opt),
         {p[2] : p \in printed} = {prev[j] : j \in 1..Len(prev)},
         \A p \in printed : p[2] = Val(p[1]), ~Full(prev), total = Len(prev)
  PROVE  /\ {p[2] : p \in printed'} = {prev'[j] : j \in 1..Len(prev')}
         /\ \A p \in printed' : p[2] = Val(p[1])
<1> DEFINE v == Val(Args)
           n == Len(prev)
<1>1. prev \in Seq(Int) /\ v \in Int /\ n \in Nat BY ValTyped DEF IInv, TypeOK
<1>2. prev' = Append(prev, v) BY <1>1, SavedIsNear DEF Answer, Report
<1>3. /\ Len(prev') = n + 1 /\ prev'[n + 1] = v /\ \A j \in 1..n : prev'[j] = prev[j]
      /\ 1..(n + 1) = (1..n) \union {n + 1}
  BY <1>1, <1>2
<1>4. printed' = printed \union {<<Args, v>>} BY <1>1, <1>3 DEF Report
<1> DEFINE m == <<Args, v>>
<1>9. m[1] = Args /\ m[2] = v OBVIOUS
<1> HIDE DEF m
<1>5. {p[2] : p \in printed'} = {p[2] : p \in printed} \union {v}
  <2>1. printed' = printed \union {m} BY <1>4 DEF m
  <2>2. QED BY <2>1, <1>9, Zenon
<1>6. {prev'[j] : j \in 1..Len(prev')} = {prev[j] : j \in 1..n} \union {v} BY <1>3
<1>7. \A p \in printed' : p[2] = Val(p[1])
  <2>1. printed' = printed \union {m} BY <1>4 DEF m
  <2>2. m[2] = Val(m[1]) BY <1>9, Zenon
  <2>3. QED BY <2>1, <2>2, Zenon
<1>8. QED BY <1>5, <1>6, <1>7

LEMMA HeldStep == Runs /\ Numbers /\ Held /\ [INext]_ivars => Held'
<1> SUFFICES ASSUME Runs, Numbers, Held, [INext]_ivars PROVE Held' OBVIOUS
<1> USE DEF shared
<1>0. /\ prev \in Seq(Int) /\ Len(prev) \in Nat /\ sum \in Nat /\ total \in Nat /\ ret \in Nat
      /\ IInv
  BY DEF Runs, IInv, TypeOK
<1>1. CASE CheckInterval \/ IntervalReturn
  <2>1. /\ dpc \in {"idle", "loop"} /\ dpc' \in {"loop", "done"} /\ UNCHANGED <<prev, sum>>
    BY <1>1 DEF CheckInterval, IntervalReturn
  <2>2. QED BY <2>1 DEF Held
<1>2. CASE CallRun
  <2>1. dpc = "loop" /\ dpc' = "call" /\ pc' = "greatest" /\ total' = 0 /\ UNCHANGED <<prev, sum>>
    BY <1>2 DEF CallRun, Start
  <2>2. QED BY <1>0, <2>1 DEF Held, Running
<1>3. CASE Collect
  <2>1. dpc = "call" /\ pc = "returned" /\ dpc' = "loop" /\ sum' = sum + ret /\ UNCHANGED prev
    BY <1>3 DEF Collect, vars
  <2>2. QED BY <1>0, <2>1 DEF Held
<1>4. CASE InCall
  <2>0. dpc = "call" /\ dpc' = "call" /\ sum' = sum
        /\ (Running /\ Flag("STOP_RUN", opt) => total = 0)
    BY <1>4 DEF InCall, driver, Numbers, Stops
  <2>1. ASSUME UNCHANGED prev, ~Running' /\ pc' # "returned" PROVE Held'
    BY <2>0, <2>1 DEF Held
  <2>2. ASSUME Running, Running', UNCHANGED <<prev, total>> PROVE Held'
    BY <2>0, <2>2 DEF Held, Running
  <2>3. ASSUME Running, pc' = "returned", ret' = total, UNCHANGED prev PROVE Held'
    BY <2>0, <2>3 DEF Held, Running
  <2>4. ASSUME NEW t \in Passed, Count(t) \/ StopRun(t) PROVE Held'
    <3>1. Ask(t) /\ Report /\ Running /\ Val(Args) \in Int
      BY <1>0, <2>4, ValTyped DEF Count, StopRun, Ask, AtPoint, Inside, Running
    <3>2. Kind # "unique" => prev' = prev BY <3>1 DEF Report
    <3>3. Kind = "unique" => Len(prev') <= Len(prev) + 1 /\ Len(prev') \in Nat
      <4>1. Remember(prev, Val(Args)) \in Seq(Int)
        BY <1>0, <3>1, RememberSpaced DEF IInv, TypeOK
      <4>2. QED BY <1>0, <3>1, <4>1, RememberLength DEF Report
    <3>4. CASE Count(t)
      <4>1. pc' = pc /\ total' = total + 1 BY <3>4 DEF Count
      <4>2. QED BY <1>0, <2>0, <3>1, <3>2, <3>3, <4>1 DEF Held, Running
    <3>5. CASE StopRun(t)
      <4>1. pc' = "returned" /\ ret' = 1 /\ total = 0 BY <2>0, <3>1, <3>5 DEF StopRun
      <4>2. QED BY <1>0, <2>0, <3>1, <3>2, <3>3, <4>1 DEF Held, Running
    <3>6. QED BY <2>4, <3>4, <3>5
  <2>5. CASE \E t \in Passed : Count(t) \/ StopRun(t) BY <2>4, <2>5
  <2>6. CASE ~\E t \in Passed : Count(t) \/ StopRun(t)
    <3>1. FindGreatest \/ Setup \/ Clip \/ Descend \/ Ascend \/ EndRadius \/ Return \/ Unsupported
          \/ \E t \in Passed : Miss(t)
      BY <1>4, <2>6 DEF InCall, Run
    <3>2. CASE Return
      BY <2>3, <3>2 DEF Return, Running
    <3>3. CASE Unsupported BY <2>1, <3>3 DEF Unsupported, Running
    <3>4. CASE FindGreatest \/ Setup \/ Clip \/ Descend \/ Ascend \/ EndRadius
      BY <2>2, <3>4 DEF FindGreatest, Setup, Clip, Descend, Ascend, EndRadius, Inside, Past, Running
    <3>5. CASE \E t \in Passed : Miss(t)
      BY <2>2, <3>5 DEF Miss, Ask, AtPoint, Inside, Running
    <3>6. QED BY <3>1, <3>2, <3>3, <3>4, <3>5
  <2>7. QED BY <2>5, <2>6
<1>5. CASE UNCHANGED ivars BY <1>5 DEF ivars, vars, driver, Held, Running
<1>6. CASE NoLogFile BY <1>6 DEF NoLogFile, vars, Held
<1>7. QED BY <1>1, <1>2, <1>3, <1>4, <1>5, <1>6 DEF INext

(* A true answer, in a run before which nothing was returned, in the order   *)
(* of the cases: no room is left, or there is room.                          *)
LEMMA PairedStep ==
  ASSUME Runs, Numbers, Held, Paired, dpc = "call", sum = 0, NEW t, Count(t) \/ StopRun(t)
  PROVE  Paired'
<1> SUFFICES ASSUME Kind = "unique" PROVE Paired' BY DEF Paired
<1>0. /\ prev \in Seq(Int) /\ Len(prev) \in Nat /\ total \in Nat /\ IInv
      /\ Ask(t) /\ Answer(t) /\ Report /\ opt' = opt /\ Running
  BY DEF Runs, IInv, TypeOK, Count, StopRun, Ask, AtPoint, Inside, Running
<1>1. Val(Args) \in Int /\ prev' = Remember(prev, Val(Args)) BY <1>0, ValTyped DEF Report
<1>2. Len(prev) <= total BY <1>0 DEF Held
<1>3. CASE Full(prev)
  <2>1. prev' = prev BY <1>0, <1>1, <1>3, RememberLength
  <2>2. printed' = printed BY <1>0, <1>2, <2>1 DEF Report
  <2>3. ~StopRun(t)
    <3>1. SUFFICES ASSUME StopRun(t) PROVE FALSE OBVIOUS
    <3>2. total = 0 BY <1>0, <3>1 DEF Numbers, Stops, StopRun
    <3>3. QED BY <1>0, <1>2, <1>3, <3>2, ResultSetAssumption DEF Full
  <2>4. total' = total + 1 /\ ~Flag("STOP_RUN", opt) BY <2>3 DEF Count
  <2>5. total >= ResCap /\ ResCap \in Nat BY <1>3, <2>4, ResultSetAssumption DEF Paired
  <2>6. total' >= ResCap /\ Full(prev)' BY <1>0, <1>3, <2>1, <2>4, <2>5 DEF Full
  <2>7. Flag("PRINT", opt') => /\ {p[2] : p \in printed'} = {prev'[j] : j \in 1..Len(prev')}
                               /\ \A p \in printed' : p[2] = Val(p[1])
    BY <1>0, <2>1, <2>2, Zenon DEF Paired
  <2>8. QED BY <2>6, <2>7 DEF Paired
<1>4. CASE ~Full(prev)
  <2>1. total = Len(prev)
    <3>1. CASE Flag("STOP_RUN", opt)
      <4>1. total = 0 BY <1>0, <3>1 DEF Numbers, Stops
      <4>2. QED BY <1>0, <1>2, <4>1
    <3>2. CASE ~Flag("STOP_RUN", opt) BY <1>4, <3>2 DEF Paired
    <3>3. QED BY <3>1, <3>2
  <2>2. Flag("PRINT", opt) => /\ {p[2] : p \in printed'} = {prev'[j] : j \in 1..Len(prev')}
                              /\ \A p \in printed' : p[2] = Val(p[1])
    BY <1>0, <1>4, <2>1, ReportPairs DEF Paired
  <2>3. Len(prev') = Len(prev) + 1
    BY <1>0, <1>1, <1>4, SavedIsNear DEF Answer
  <2>4. Flag("STOP_RUN", opt) \/ total' = total + 1 BY DEF Count, StopRun
  <2>5. Flag("STOP_RUN", opt) \/ total' = Len(prev') BY <2>1, <2>3, <2>4
  <2>6. QED BY <1>0, <2>2, <2>5 DEF Paired, Full
<1>5. QED BY <1>3, <1>4

(* and in a run after some solution was returned: the count, which starts    *)
(* at 0, is behind the result set for good, and no message is printed.       *)
LEMMA SilentStep ==
  ASSUME Runs, Kept, Held, dpc = "call", sum # 0, Full(prev) \/ printed = {},
         NEW t, Count(t) \/ StopRun(t)
  PROVE  Full(prev)' \/ printed' = {}
<1>0. /\ PrevSeq /\ Len(prev) \in Nat /\ total \in Nat /\ sum \in Nat
      /\ Answer(t) /\ Report /\ Running
  BY DEF Runs, IInv, TypeOK, Kept, Count, StopRun, Ask, AtPoint, Inside, Running
<1>1. SUFFICES ASSUME ~Full(prev)' PROVE printed' = {} OBVIOUS
<1>2. CASE Kind = "unique"
  <2>1. ~Full(prev) /\ Len(prev') = Len(prev) + 1 BY <1>0, <1>1, <1>2, ReportSaves
  <2>2. sum + total = Len(prev) BY <1>0, <1>2, <2>1 DEF Kept
  <2>3. total # Len(prev') - 1 BY <1>0, <2>1, <2>2
  <2>4. QED BY <1>0, <2>1, <2>3 DEF Report
<1>3. CASE Kind # "unique"
  <2>1. prev' = prev /\ prev = <<>> BY <1>0, <1>3 DEF Held, Report
  <2>2. Len(prev') = 0 /\ ~Full(prev) BY <1>1, <2>1
  <2>3. total # Len(prev') - 1 BY <1>0, <2>2
  <2>4. QED BY <1>0, <2>2, <2>3 DEF Report
<1>4. QED BY <1>2, <1>3

LEMMA ShownStep == ShownInv /\ [INext]_ivars => Shown'
<1> SUFFICES ASSUME ShownInv, [INext]_ivars PROVE Shown' OBVIOUS
<1> USE DEF ShownInv, shared, history
<1>0. prev \in Seq(Int) /\ Len(prev) \in Nat /\ sum \in Nat /\ total \in Nat
  BY DEF Runs, IInv, TypeOK
<1>1. CASE NoLogFile \/ CheckInterval \/ Collect \/ IntervalReturn
  BY <1>1 DEF NoLogFile, CheckInterval, Collect, IntervalReturn, Shown
<1>2. CASE CallRun
  <2>1. dpc = "loop" /\ printed' = {} /\ total' = 0 /\ UNCHANGED <<prev, sum>>
    BY <1>2 DEF CallRun, Start
  <2>2. ASSUME sum = 0, Kind = "unique" PROVE prev' = <<>> /\ Len(prev') = 0 /\ ~Full(prev)'
    <3>1. Len(prev) = 0 BY <1>0, <2>1, <2>2 DEF Held
    <3>2. QED BY <1>0, <2>1, <3>1, ResultSetAssumption DEF Full
  <2>3. sum = 0 => Paired' BY <2>1, <2>2 DEF Paired
  <2>4. QED BY <2>1, <2>3 DEF Shown
<1>3. CASE InCall \/ UNCHANGED ivars
  <2>1. UNCHANGED <<dpc, sum>> BY <1>3 DEF InCall, ivars, driver
  <2>2. SUFFICES ASSUME dpc = "call" PROVE Shown' BY <2>1 DEF Shown
  <2>3. ASSUME NEW t \in Passed, Count(t) \/ StopRun(t) PROVE Shown'
    BY <2>1, <2>2, <2>3, PairedStep, SilentStep DEF Shown
  <2>4. ASSUME UNCHANGED <<prev, printed, total, opt>> PROVE Shown'
    BY <2>1, <2>4 DEF Shown, Paired
  <2>5. CASE UNCHANGED ivars BY <2>4, <2>5 DEF ivars, vars
  <2>6. CASE FindGreatest \/ Setup \/ Clip \/ Descend \/ Ascend \/ EndRadius \/ Return \/ Unsupported
    BY <2>4, <2>6 DEF FindGreatest, Setup, Clip, Descend, Ascend, EndRadius, Return, Unsupported
  <2>7. ASSUME NEW t \in Passed, Miss(t) PROVE Shown' BY <2>4, <2>7 DEF Miss, Ask
  <2>8. QED BY <1>3, <2>3, <2>5, <2>6, <2>7 DEF InCall, Run
<1>4. QED BY <1>1, <1>2, <1>3 DEF INext

(* What a range shows: the messages of its solutions up to the end of the    *)
(* first call that returns one, each for its own point, and after that       *)
(* nothing until the result set is full.                                     *)
THEOREM NoneShownAfterFirst == ISpec => []ShownUntilFound
<1>1. IInit => ShownInv
  <2> SUFFICES ASSUME IInit PROVE ShownInv OBVIOUS
  <2>1. Runs /\ Numbers BY RunsInit, LeakInit
  <2>2. prev = <<>> /\ dpc = "idle" /\ sum = 0 /\ <<>> \in Seq({}) BY DEF IInit, Init
  <2>3. Len(prev) = 0 BY <2>2
  <2>4. QED BY <2>1, <2>2, <2>3 DEF ShownInv, Kept, PrevSeq, Held, Shown
<1>2. ShownInv /\ Leak /\ [INext]_ivars => ShownInv' /\ Leak'
  BY RunsStep, LeakStep, KeptStep, HeldStep, ShownStep DEF ShownInv
<1>3. ShownInv => ShownUntilFound BY DEF ShownInv, Shown, ShownUntilFound, Paired, MessagesPaired
<1>4. QED BY LeakInit, <1>1, <1>2, <1>3, PTL DEF ISpec
=============================================================================
