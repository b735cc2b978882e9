------------------------- MODULE TestEngine_proofs -------------------------
(***************************************************************************)
(* Proofs about TestEngine, for every suite of tests of any length and     *)
(* with any dependencies, any number of runs, and any tests.               *)
(*                                                                         *)
(* Control says where the loops of test_engine2 and launcher are: the      *)
(* buffer is free between the tests and taken while one runs, a subtest is *)
(* open only inside a test or after one that did not pass, launcher leaves *)
(* its loop with a status.  It is inductive together with the types, and   *)
(* the properties follow from it one by one.                               *)
(***************************************************************************)
EXTENDS TestEngine, FiniteSetTheorems, TLAPS

InTest == pc \in {"run", "body", "finish"}
Ends == {"PASSED", "MANUAL", "FAILED", "EXCEPTION"}

Control ==
  /\ pc \in {"start", "sort", "next"} => ~initFlag /\ ~prevSub
  /\ pc \in {"run", "body"} => initFlag
  /\ pc = "run" => ~prevSub /\ (runs > 0 \/ Passed(st))
  /\ pc = "finish" => st \in Ends /\ (Passed(st) => ~prevSub)
  /\ InTest => i <= Cnt

(* The array of tests after qsort is again one of the same length. *)
LEMMA SortedTypes ==
  ASSUME NEW s \in Seq(TestType), NEW t \in SortedForms(s)
  PROVE  t \in Seq(TestType) /\ Len(t) = Len(s)
<1>1. PICK p \in [1..Len(s) -> 1..Len(s)] : t = [j \in 1..Len(s) |-> s[p[j]]]
  BY DEF SortedForms, Orders
<1>2. Len(s) \in Nat /\ \A j \in 1..Len(s) : s[j] \in TestType OBVIOUS
<1>3. t \in [1..Len(s) -> TestType] BY <1>1, <1>2
<1>4. QED BY <1>2, <1>3

-----------------------------------------------------------------------------
(* Types. *)
SummaryType == [passed : BOOLEAN, pass : Nat, err : Nat, exc : Nat, skip : Nat, total : Nat]

(* The test that is looked at, or running. *)
LEMMA TestTypes ==
  ASSUME TypeOK, i <= Cnt
  PROVE  /\ i \in 1..Cnt /\ Cnt \in Nat /\ Test \in TestType
         /\ Test.count \in Nat /\ Test.mandatory \in BOOLEAN
<1>1. Cnt \in Nat /\ i \in 1..Cnt BY DEF TypeOK, Cnt
<1>2. tests[i] \in TestType BY <1>1 DEF TypeOK, Cnt
<1>3. QED BY <1>1, <1>2 DEF Test, TestType

(* What test_engine2 makes of its summary is again one. *)
LEMMA SummaryTypes ==
  ASSUME NEW s \in SummaryType
  PROVE  /\ s.passed \in BOOLEAN /\ s.pass \in Nat /\ s.err \in Nat
         /\ s.exc \in Nat /\ s.skip \in Nat /\ s.total \in Nat
         /\ [s EXCEPT !.passed = FALSE] \in SummaryType
         /\ [s EXCEPT !.total = @ + 1] \in SummaryType
         /\ [s EXCEPT !.total = @ + 1, !.skip = @ + 1] \in SummaryType
<1>1. s.passed \in BOOLEAN BY Zenon DEF SummaryType
<1>2. /\ s.pass \in Nat /\ s.err \in Nat /\ s.exc \in Nat /\ s.skip \in Nat /\ s.total \in Nat
  BY DEF SummaryType
<1>3. s.total + 1 \in Nat /\ s.skip + 1 \in Nat BY <1>2
<1>4. QED BY <1>1, <1>2, <1>3, Zenon DEF SummaryType

LEMMA OutcomeType == ASSUME TypeOK, i <= Cnt PROVE Outcome \in SummaryType
<1>1. Test.mandatory \in BOOLEAN BY TestTypes
<1>2. summary \in SummaryType BY Zenon DEF TypeOK, SummaryType
<1>3. /\ summary.pass + 1 \in Nat /\ summary.err + 1 \in Nat
      /\ (IF st = "EXCEPTION" THEN summary.exc + 1 ELSE summary.exc) \in Nat
  <2>1. /\ summary.pass \in Nat /\ summary.err \in Nat /\ summary.exc \in Nat
    BY <1>2, SummaryTypes, Zenon
  <2>2. QED BY <2>1
<1>4. (summary.passed /\ ~Test.mandatory) \in BOOLEAN BY Zenon
<1>5. QED BY <1>2, <1>3, <1>4, Zenon DEF Outcome, SummaryType

(* Types hold at the start. *)
LEMMA TypeInit == Init => TypeOK
<1> SUFFICES ASSUME Init PROVE TypeOK OBVIOUS
<1>1. tests \in Seq(TestType) BY TestEngineAssumption DEF Init
<1>0. summary \in SummaryType BY DEF Init, SummaryType
<1>2. status \in [1..Len(tests) -> Statuses] BY DEF Init, Statuses
<1>3. i \in 1..(Len(tests) + 1) BY <1>1 DEF Init
<1>4. /\ pc = "start" /\ offset = 0 /\ prevSub = FALSE /\ runs = 0 /\ st = "NOT_RUN"
      /\ initFlag = FALSE /\ handler = "none" /\ blocked = FALSE /\ errs = 0
      /\ acts = 0 /\ raises = 0 /\ past = FALSE
  BY DEF Init
<1>5. offset \in Int /\ runs \in Nat /\ errs \in Nat /\ acts \in Nat /\ raises \in Nat BY <1>4
<1>6. QED BY <1>0, <1>1, <1>2, <1>3, <1>4, <1>5, Zenon DEF TypeOK, Statuses, SummaryType

(* A step of test_engine2 or launcher keeps the types. *)
LEMMA TypeStep == ASSUME TypeOK, Control, [Next]_vars PROVE TypeOK'
<1>0. /\ summary \in SummaryType /\ tests \in Seq(TestType) /\ Cnt = Len(tests) /\ Cnt \in Nat
      /\ status \in [1..Len(tests) -> Statuses]
  BY DEF TypeOK, SummaryType, Cnt
<1>1. CASE Sort BY <1>1, SortedTypes DEF Sort, body, TypeOK
<1>2. CASE Refuse
  <2>1. summary' \in SummaryType BY <1>0, <1>2, SummaryTypes, Zenon DEF Refuse
  <2>2. QED BY <1>2, <2>1 DEF Refuse, body, TypeOK, SummaryType
<1>3. CASE Begin BY <1>3 DEF Begin, engine, body, TypeOK
<1>4. CASE SkipInactive BY <1>4 DEF SkipInactive, Going, Cnt, body, TypeOK
<1>5. CASE SkipDependent
  <2>1. summary' \in SummaryType BY <1>0, <1>5, SummaryTypes, Zenon DEF SkipDependent
  <2>2. status' \in [1..Len(tests) -> Statuses] BY <1>0, <1>5 DEF SkipDependent, Statuses
  <2>3. QED BY <1>5, <2>1, <2>2 DEF SkipDependent, Going, Cnt, body, TypeOK, SummaryType
<1>6. CASE Launch
  <2>1. summary' \in SummaryType BY <1>0, <1>6, SummaryTypes, Zenon DEF Launch
  <2>2. status' \in [1..Len(tests) -> Statuses] BY <1>0, <1>6 DEF Launch, Statuses
  <2>3. runs' \in Nat BY <1>6, TestTypes DEF Launch, Going
  <2>4. st' \in Statuses /\ initFlag' \in BOOLEAN /\ pc' \in {"run", "finish"}
    BY <1>6 DEF Launch, Statuses, TypeOK
  <2>5. offset' \in Int BY <1>6 DEF Launch, TypeOK
  <2>6. /\ UNCHANGED <<tests, i, handler, blocked, errs, body, past>> /\ prevSub' = FALSE
    BY <1>6 DEF Launch
  <2>7. QED BY <2>1, <2>2, <2>3, <2>4, <2>5, <2>6 DEF body, TypeOK, SummaryType
<1>7. CASE RunAgain BY <1>7 DEF RunAgain, engine, TypeOK
<1>8. CASE RunsDone BY <1>8 DEF RunsDone, engine, body, TypeOK
<1>9. CASE TestSub BY <1>9 DEF TestSub, engine, TypeOK
<1>10. ASSUME NEW h \in Handlers \union {"default"}, SetHandler(h) PROVE TypeOK'
  BY <1>10 DEF SetHandler, engine, TypeOK
<1>11. CASE Raise
  <2>1. blocked' \in BOOLEAN BY <1>11, TestEngineAssumption DEF Raise
  <2>2. errs' \in Nat /\ raises' \in Nat /\ st' \in Statuses
    BY <1>11 DEF Raise, Statuses, TypeOK
  <2>3. /\ UNCHANGED <<engine, offset, prevSub, runs, handler, acts, past>>
        /\ pc' = "finish" /\ initFlag' = FALSE
    BY <1>11 DEF Raise
  <2>4. QED BY <2>1, <2>2, <2>3 DEF engine, TypeOK
<1>12. CASE RaiseReturns
  <2>1. past' \in BOOLEAN BY <1>12, Zenon DEF RaiseReturns
  <2>2. QED BY <1>12, <2>1 DEF RaiseReturns, Raising, engine, TypeOK
<1>13. ASSUME NEW s \in Returned, Return(s) PROVE TypeOK'
  <2>1. s \in Statuses BY DEF Returned, Statuses
  <2>2. offset \in Int /\ prevSub \in BOOLEAN /\ offset - 1 \in Int BY DEF TypeOK
  <2>3. pc' \in {"run", "finish"} /\ offset' \in Int /\ prevSub' \in BOOLEAN
    BY <1>13, <2>2, Zenon DEF Return, Closed
  <2>4. QED BY <1>13, <2>1, <2>3 DEF Return, engine, body, TypeOK
<1>14. CASE Finish
  <2>1. i <= Cnt BY <1>14 DEF Finish, Control, InTest
  <2>2. summary' \in SummaryType BY <1>14, <2>1, OutcomeType DEF Finish
  <2>3. offset' \in Int BY <1>14 DEF Finish, Closed, TypeOK
  <2>4. prevSub' \in BOOLEAN BY <1>14, Zenon DEF Finish
  <2>5. status' \in [1..Len(tests) -> Statuses] BY <1>0, <1>14 DEF Finish, TypeOK
  <2>6. i' \in 1..(Len(tests) + 1) BY <1>14, <2>1 DEF Finish, Cnt, TypeOK
  <2>7. /\ UNCHANGED <<tests, runs, st, handler, blocked, errs, body, past>>
        /\ pc' = "next" /\ initFlag' = FALSE
    BY <1>14 DEF Finish
  <2>8. QED BY <2>2, <2>3, <2>4, <2>5, <2>6, <2>7 DEF body, TypeOK, SummaryType
<1>15. CASE End BY <1>15 DEF End, engine, body, TypeOK
<1>16. CASE UNCHANGED vars BY <1>16 DEF vars, engine, body, TypeOK
<1>17. QED
  BY <1>1, <1>2, <1>3, <1>4, <1>5, <1>6, <1>7, <1>8, <1>9, <1>10, <1>11, <1>12, <1>13, <1>14,
     <1>15, <1>16 DEF Next

-----------------------------------------------------------------------------
(* Where the loops are. *)
LEMMA ControlStep == ASSUME TypeOK, Control, [Next]_vars PROVE Control'
<1> USE DEF Control, InTest, TypeOK, Cnt
<1>1. CASE Sort BY <1>1, SortedTypes DEF Sort
<1>2. CASE Refuse BY <1>2 DEF Refuse
<1>3. CASE Begin BY <1>3 DEF Begin
<1>4. CASE SkipInactive BY <1>4 DEF SkipInactive
<1>5. CASE SkipDependent BY <1>5 DEF SkipDependent
<1>6. CASE Launch
  <2>1. Test.count \in Nat /\ Test.count # 0 BY <1>6, TestTypes DEF Launch, Going
  <2>2. ~initFlag BY <1>6 DEF Launch
  <2>3. QED BY <1>6, <2>1, <2>2 DEF Launch, Going
<1>7. CASE RunAgain BY <1>7 DEF RunAgain, engine
<1>8. CASE RunsDone BY <1>8 DEF RunsDone, engine, Passed, Ends
<1>9. CASE TestSub BY <1>9 DEF TestSub, engine
<1>10. ASSUME NEW h \in Handlers \union {"default"}, SetHandler(h) PROVE Control'
  BY <1>10 DEF SetHandler, engine
<1>11. CASE Raise BY <1>11 DEF Raise, Raising, engine, Passed, Ends
<1>12. CASE RaiseReturns BY <1>12 DEF RaiseReturns, Raising, engine
<1>13. ASSUME NEW s \in Returned, Return(s) PROVE Control'
  BY <1>13 DEF Return, engine, Returned, Passed, Ends
<1>14. CASE Finish BY <1>14 DEF Finish
<1>15. CASE End BY <1>15 DEF End
<1>16. CASE UNCHANGED vars BY <1>16 DEF vars, engine, body, Passed
<1>17. QED
  BY <1>1, <1>2, <1>3, <1>4, <1>5, <1>6, <1>7, <1>8, <1>9, <1>10, <1>11, <1>12, <1>13, <1>14,
     <1>15, <1>16 DEF Next

(* Every variable keeps its type, whatever the tests do: the loop variable  *)
(* stays on the array and the repetitions do not go below zero.             *)
THEOREM TypeCorrect == Spec => [](TypeOK /\ Control)
<1>1. Init => TypeOK /\ Control BY TypeInit DEF Init, Control, InTest
<1>2. TypeOK /\ Control /\ [Next]_vars => (TypeOK /\ Control)' BY TypeStep, ControlStep
<1>3. QED BY <1>1, <1>2, PTL DEF Spec

(* What a step of Spec may take for granted, at both its ends. *)
TC == TypeOK /\ Control /\ (TypeOK /\ Control)'

-----------------------------------------------------------------------------
(* The margin. *)
LEMMA MarginStep == ASSUME TC, OffsetRestored, [Next]_vars PROVE OffsetRestored'
<1> USE DEF OffsetRestored
<1>0. offset \in Int /\ prevSub \in BOOLEAN
  BY DEF TC, TypeOK
<1>1. CASE Sort BY <1>1 DEF Sort
<1>2. CASE Refuse BY <1>2 DEF Refuse
<1>3. CASE Begin BY <1>3 DEF Begin
<1>4. CASE SkipInactive BY <1>4 DEF SkipInactive
<1>5. CASE SkipDependent BY <1>5 DEF SkipDependent
<1>6. CASE Launch BY <1>0, <1>6 DEF Launch
<1>7. CASE RunAgain BY <1>7 DEF RunAgain
<1>8. CASE RunsDone BY <1>8 DEF RunsDone
<1>9. CASE TestSub BY <1>0, <1>9 DEF TestSub
<1>10. ASSUME NEW h \in Handlers \union {"default"}, SetHandler(h) PROVE OffsetRestored'
  BY <1>10 DEF SetHandler
<1>11. CASE Raise BY <1>11 DEF Raise, Raising
<1>12. CASE RaiseReturns BY <1>12 DEF RaiseReturns, Raising
<1>13. ASSUME NEW s \in Returned, Return(s) PROVE OffsetRestored'
  BY <1>0, <1>13 DEF Return, Closed
<1>14. CASE Finish
  <2>1. pc = "finish" /\ offset = 3 + (IF prevSub THEN 1 ELSE 0) BY <1>14 DEF Finish
  <2>2. Passed(st) => ~prevSub BY <1>14 DEF Finish, TC, Control
  <2>3. offset' = (IF Passed(st) THEN offset ELSE Closed) - 2 /\ pc' = "next" BY <1>14 DEF Finish
  <2>4. CASE Passed(st) BY <1>0, <2>1, <2>2, <2>3, <2>4
  <2>5. CASE ~Passed(st) BY <1>0, <2>1, <2>3, <2>5 DEF Closed
  <2>6. QED BY <2>4, <2>5
<1>15. CASE End BY <1>0, <1>15 DEF End
<1>16. CASE UNCHANGED vars BY <1>16 DEF vars
<1>17. QED
  BY <1>1, <1>2, <1>3, <1>4, <1>5, <1>6, <1>7, <1>8, <1>9, <1>10, <1>11, <1>12, <1>13, <1>14,
     <1>15, <1>16 DEF Next

(* Subtests left open, failures and jumps in the middle of both: the report *)
(* is back at its margin between the tests and after them, whatever and     *)
(* however many the tests are.                                              *)
THEOREM MarginRestored == Spec => []OffsetRestored
<1>1. Init => OffsetRestored BY DEF Init, OffsetRestored
<1>2. TC /\ OffsetRestored /\ [Next]_vars => OffsetRestored' BY MarginStep
<1>3. QED BY <1>1, <1>2, TypeCorrect, PTL DEF Spec, TC

-----------------------------------------------------------------------------
(* Exceptions. *)

(* A test whose exception is still to be entered in the summary. *)
Entering == pc = "finish" /\ st = "EXCEPTION"
ExceptionsCounted == summary.exc + (IF Entering THEN 1 ELSE 0) <= errs

LEMMA CountsKept ==
  ASSUME NEW s \in SummaryType, NEW b \in BOOLEAN, NEW n \in Nat, NEW m \in Nat
  PROVE  /\ [s EXCEPT !.passed = b].exc = s.exc
         /\ [s EXCEPT !.total = n].exc = s.exc
         /\ [s EXCEPT !.total = n, !.skip = m].exc = s.exc
BY DEF SummaryType

LEMMA ExceptionsStep == ASSUME TC, ExceptionsCounted, [Next]_vars PROVE ExceptionsCounted'
<1>0. /\ summary \in SummaryType /\ summary.exc \in Nat /\ summary.total + 1 \in Nat
      /\ summary.skip + 1 \in Nat /\ errs \in Nat
  <2>1. summary \in SummaryType /\ errs \in Nat BY Zenon DEF TC, TypeOK, SummaryType
  <2>2. summary.exc \in Nat /\ summary.total \in Nat /\ summary.skip \in Nat
    BY <2>1, SummaryTypes, Zenon
  <2>3. QED BY <2>1, <2>2
<1>a. ASSUME summary'.exc = summary.exc, errs' = errs, Entering' => Entering
      PROVE  ExceptionsCounted'
  BY <1>0, <1>a DEF ExceptionsCounted
<1>1. CASE Sort BY <1>1, <1>a DEF Sort, Entering
<1>2. CASE Refuse BY <1>0, <1>2, <1>a, CountsKept DEF Refuse, Entering
<1>3. CASE Begin BY <1>3, <1>a DEF Begin, engine, Entering
<1>4. CASE SkipInactive BY <1>4, <1>a DEF SkipInactive, Entering
<1>5. CASE SkipDependent
  <2>1. summary'.exc = summary.exc BY <1>0, <1>5, CountsKept DEF SkipDependent
  <2>2. QED BY <1>5, <1>a, <2>1 DEF SkipDependent, Entering
<1>6. CASE Launch
  <2>1. summary'.exc = summary.exc BY <1>0, <1>6, CountsKept DEF Launch
  <2>2. pc' = "run" BY <1>6 DEF Launch, TC, Control
  <2>3. QED BY <1>6, <1>a, <2>1, <2>2 DEF Launch, Entering
<1>7. CASE RunAgain BY <1>7, <1>a DEF RunAgain, engine, Entering
<1>8. CASE RunsDone
  <2>1. Passed(st) /\ st' = st BY <1>8 DEF RunsDone, TC, Control, TypeOK
  <2>2. QED BY <1>8, <1>a, <2>1 DEF RunsDone, engine, Entering, Passed
<1>9. CASE TestSub BY <1>9, <1>a DEF TestSub, engine, Entering
<1>10. ASSUME NEW h \in Handlers \union {"default"}, SetHandler(h) PROVE ExceptionsCounted'
  BY <1>10, <1>a DEF SetHandler, engine, Entering
<1>11. CASE Raise
  <2>1. summary' = summary /\ errs' = errs + 1 /\ ~Entering
    BY <1>11 DEF Raise, Raising, engine, Entering
  <2>2. QED BY <1>0, <2>1 DEF ExceptionsCounted
<1>12. CASE RaiseReturns
  <2>1. summary' = summary /\ errs' = errs + 1 /\ ~Entering /\ ~Entering'
    BY <1>12 DEF RaiseReturns, Raising, engine, Entering
  <2>2. QED BY <1>0, <2>1 DEF ExceptionsCounted
<1>13. ASSUME NEW s \in Returned, Return(s) PROVE ExceptionsCounted'
  <2>1. st' # "EXCEPTION" BY <1>13 DEF Return, Returned
  <2>2. QED BY <1>13, <1>a, <2>1 DEF Return, engine, Entering
<1>14. CASE Finish
  <2>1. summary' = Outcome /\ errs' = errs /\ ~Entering' /\ pc = "finish"
    BY <1>14 DEF Finish, Entering
  <2>2. Outcome.exc = IF st = "EXCEPTION" THEN summary.exc + 1 ELSE summary.exc
    BY <1>0 DEF Outcome, Passed, SummaryType
  <2>3. QED BY <1>0, <2>1, <2>2 DEF ExceptionsCounted, Entering
<1>15. CASE End BY <1>15, <1>a DEF End, engine, Entering
<1>16. CASE UNCHANGED vars BY <1>16, <1>a DEF vars, engine, Entering
<1>17. QED
  BY <1>1, <1>2, <1>3, <1>4, <1>5, <1>6, <1>7, <1>8, <1>9, <1>10, <1>11, <1>12, <1>13, <1>14,
     <1>15, <1>16 DEF Next

(* No test is failed by an exception that nobody raised: launcher always    *)
(* finds the jump buffer free, however the test before it ended.            *)
THEOREM ExceptionsAreRaised == Spec => []ExceptionsRaised
<1>1. Init => ExceptionsCounted BY DEF Init, ExceptionsCounted, Entering
<1>2. TC /\ ExceptionsCounted /\ [Next]_vars => ExceptionsCounted' BY ExceptionsStep
<1>3. TypeOK /\ ExceptionsCounted => ExceptionsRaised
  <2> SUFFICES ASSUME TypeOK, ExceptionsCounted PROVE ExceptionsRaised OBVIOUS
  <2>1. summary \in SummaryType /\ errs \in Nat BY Zenon DEF TypeOK, SummaryType
  <2>2. summary.exc \in Nat BY <2>1, SummaryTypes, Zenon
  <2>3. QED BY <2>1, <2>2 DEF ExceptionsCounted, ExceptionsRaised
<1>4. QED BY <1>1, <1>2, <1>3, TypeCorrect, PTL DEF Spec, TC

(* SIGINT is not left blocked. *)
Interrupted == ~past /\ ~blocked

LEMMA InterruptedStep ==
  ASSUME MaskSaved, TC, Interrupted, [Next]_vars PROVE Interrupted'
<1> USE DEF Interrupted
<1>1. CASE RaiseReturns
  <2>1. initFlag BY <1>1 DEF RaiseReturns, Raising, TC, Control
  <2>2. QED BY <1>1, <2>1 DEF RaiseReturns, Jumps
<1>2. CASE Raise BY <1>2 DEF Raise
<1>3. ASSUME NEW h \in Handlers \union {"default"}, SetHandler(h) PROVE Interrupted'
  BY <1>3 DEF SetHandler
<1>4. ASSUME NEW s \in Returned, Return(s) PROVE Interrupted' BY <1>4 DEF Return
<1>5. CASE Sort \/ Refuse \/ Begin \/ SkipInactive \/ SkipDependent \/ Launch
  BY <1>5 DEF Sort, Refuse, Begin, SkipInactive, SkipDependent, Launch
<1>6. CASE RunAgain \/ RunsDone \/ TestSub \/ Finish \/ End \/ UNCHANGED vars
  BY <1>6 DEF RunAgain, RunsDone, TestSub, Finish, End, vars
<1>7. QED BY <1>1, <1>2, <1>3, <1>4, <1>5, <1>6 DEF Next

(* Where setjmp saves the signal mask, no test goes on after an exception   *)
(* under the default handler.                                               *)
THEOREM NeverSeenWhereMaskSaved == ASSUME MaskSaved PROVE Spec => []NeverSeen
<1>1. Init => Interrupted BY DEF Init, Interrupted
<1>2. TC /\ Interrupted /\ [Next]_vars => Interrupted' BY InterruptedStep
<1>3. Interrupted => NeverSeen BY DEF Interrupted, NeverSeen
<1>4. QED BY <1>1, <1>2, <1>3, TypeCorrect, PTL DEF Spec, TC

-----------------------------------------------------------------------------
(* The statuses before, at and after the loop variable of test_engine2.     *)
Ordered ==
  /\ \A j \in 1..Cnt : j > i => status[j] = "NOT_RUN"
  /\ i <= Cnt => status[i] = IF InTest THEN "RUNNING" ELSE "NOT_RUN"
  /\ \A j \in 1..Cnt : j < i =>
       status[j] # "RUNNING" /\ (status[j] = "NOT_RUN" => tests[j].count = 0)
  /\ pc \in {"start", "sort"} => i = 1

(* Steps inside a test change none of what follows. *)
Inside ==
  \/ RunAgain \/ RunsDone \/ TestSub \/ Raise \/ RaiseReturns
  \/ (\E h \in Handlers \union {"default"} : SetHandler(h)) \/ (\E s \in Returned : Return(s))

LEMMA InsideKeeps ==
  ASSUME Inside PROVE UNCHANGED engine /\ InTest /\ InTest'
<1>1. CASE RunAgain \/ RunsDone \/ TestSub \/ Raise \/ RaiseReturns
  BY <1>1 DEF RunAgain, RunsDone, TestSub, Raise, RaiseReturns, Raising, InTest
<1>2. ASSUME NEW h \in Handlers \union {"default"}, SetHandler(h)
      PROVE  UNCHANGED engine /\ InTest /\ InTest'
  BY <1>2 DEF SetHandler, InTest
<1>3. ASSUME NEW s \in Returned, Return(s) PROVE UNCHANGED engine /\ InTest /\ InTest'
  BY <1>3 DEF Return, InTest
<1>4. QED BY <1>1, <1>2, <1>3 DEF Inside

LEMMA Steps ==
  Next <=> \/ Sort \/ Refuse \/ Begin \/ SkipInactive \/ SkipDependent \/ Launch
           \/ Inside \/ Finish \/ End
BY DEF Next, Inside

(* What of the types is needed below. *)
LEMMA Arrays ==
  ASSUME TypeOK
  PROVE  /\ Cnt \in Nat /\ i \in 1..(Cnt + 1) /\ status \in [1..Cnt -> Statuses]
         /\ Cnt = Len(tests) /\ tests \in Seq(TestType) /\ summary \in SummaryType
<1>1. tests \in Seq(TestType) /\ summary \in SummaryType BY Zenon DEF TypeOK, SummaryType
<1>2. Cnt = Len(tests) /\ Cnt \in Nat BY <1>1 DEF Cnt
<1>3. QED BY <1>1, <1>2, Zenon DEF TypeOK, Cnt

LEMMA OrderedStep == ASSUME TC, Ordered, [Next]_vars PROVE Ordered'
<1>0. /\ Cnt \in Nat /\ i \in 1..(Cnt + 1) /\ status \in [1..Cnt -> Statuses]
      /\ Cnt = Len(tests) /\ tests \in Seq(TestType)
  BY Arrays DEF TC
<1>1. CASE Sort
  <2>1. Cnt' = Cnt /\ status' = status /\ i' = i /\ i = 1
    BY <1>0, <1>1, SortedTypes DEF Sort, Ordered, Cnt
  <2>2. QED BY <1>0, <1>1, <2>1 DEF Sort, Ordered, InTest
<1>2. CASE Refuse \/ Begin \/ End
  <2>1. UNCHANGED <<tests, status, i, Cnt>> /\ ~InTest /\ ~InTest' /\ pc' \notin {"start", "sort"}
    BY <1>2 DEF Refuse, Begin, End, engine, Cnt, InTest
  <2>2. QED BY <2>1 DEF Ordered
<1>3. CASE SkipInactive
  <2>1. /\ UNCHANGED <<tests, status, Cnt, pc>> /\ i' = i + 1 /\ ~InTest /\ i <= Cnt
        /\ tests[i].count = 0 /\ pc = "next"
    BY <1>3 DEF SkipInactive, Going, Cnt, Test, InTest
  <2>2. QED BY <1>0, <2>1 DEF Ordered, InTest
<1>4. CASE SkipDependent
  <2>1. /\ UNCHANGED <<tests, Cnt, pc>> /\ i' = i + 1 /\ ~InTest /\ i <= Cnt
        /\ status' = [status EXCEPT ![i] = "SKIPPED"] /\ pc = "next"
    BY <1>4 DEF SkipDependent, Going, Cnt, InTest
  <2>2. QED BY <1>0, <2>1 DEF Ordered, InTest
<1>5. CASE Launch
  <2>1. /\ UNCHANGED <<tests, Cnt, i>> /\ ~InTest /\ i <= Cnt
        /\ status' = [status EXCEPT ![i] = "RUNNING"] /\ InTest' /\ pc' \notin {"start", "sort"}
    BY <1>5 DEF Launch, Going, Cnt, InTest
  <2>2. QED BY <1>0, <2>1 DEF Ordered
<1>6. CASE Inside
  <2>1. UNCHANGED <<tests, status, i, Cnt>> /\ InTest /\ InTest'
    BY <1>6, InsideKeeps DEF engine, Cnt
  <2>2. QED BY <2>1 DEF Ordered, InTest
<1>7. CASE Finish
  <2>1. /\ UNCHANGED <<tests, Cnt>> /\ i' = i + 1 /\ i <= Cnt /\ InTest /\ ~InTest'
        /\ status' = [status EXCEPT ![i] = st] /\ st \in Ends /\ pc' = "next"
    BY <1>7 DEF Finish, Cnt, InTest, TC, Control
  <2>2. QED BY <1>0, <2>1 DEF Ordered, Ends
<1>8. CASE UNCHANGED vars BY <1>8 DEF vars, engine, Ordered, Cnt, InTest
<1>9. QED BY <1>1, <1>2, <1>3, <1>4, <1>5, <1>6, <1>7, <1>8, Steps

-----------------------------------------------------------------------------
(* Mandatory tests. *)
Lost(j) == tests[j].mandatory /\ status[j] \in {"FAILED", "EXCEPTION"}

(* While the engine goes on no mandatory test is lost; when it stops because *)
(* of one, that is the test just before the loop variable, and the only one. *)
Stopping ==
  /\ InTest => summary.passed
  /\ summary.passed => \A j \in 1..Cnt : ~Lost(j)
  /\ ~summary.passed => i > 1 /\ \A j \in 1..Cnt : Lost(j) <=> j = i - 1
  /\ pc = "done" => i > Cnt \/ ~summary.passed

(* A suite with two tests of the same number is refused at once. *)
Refused == pc = "done" /\ Duplicate

(* The step of launcher that enters a status. *)
LEMMA StoppingFinish ==
  ASSUME TC, Ordered, Stopping, Finish PROVE Stopping'
<1>0. /\ Cnt \in Nat /\ i \in 1..(Cnt + 1) /\ status \in [1..Cnt -> Statuses]
      /\ summary \in SummaryType
  BY Arrays DEF TC
<1>1. /\ UNCHANGED <<tests, Cnt>> /\ i' = i + 1 /\ i <= Cnt /\ InTest /\ ~InTest' /\ pc' = "next"
      /\ status' = [status EXCEPT ![i] = st] /\ st \in Ends /\ summary' = Outcome
  BY DEF Finish, Cnt, InTest, TC, Control
<1>2. summary.passed /\ \A j \in 1..Cnt : ~Lost(j) BY <1>1 DEF Stopping
<1>3. Test.mandatory \in BOOLEAN BY <1>1, TestTypes DEF TC
<1>4. /\ st \in {"FAILED", "EXCEPTION"} <=> ~Passed(st)
      /\ Test = tests[i] BY <1>1 DEF Passed, Ends, Test
<1>5. summary'.passed <=> ~(Test.mandatory /\ ~Passed(st))
  <2>1. CASE Passed(st)
    <3>1. summary'.passed = summary.passed BY <1>0, <1>1, <2>1 DEF Outcome, SummaryType
    <3>2. QED BY <1>2, <2>1, <3>1
  <2>2. CASE ~Passed(st)
    <3>1. summary'.passed = (summary.passed /\ ~Test.mandatory)
      BY <1>0, <1>1, <2>2, Zenon DEF Outcome, SummaryType
    <3>2. QED BY <1>2, <2>2, <3>1
  <2>3. QED BY <2>1, <2>2
<1>6. ASSUME NEW j \in 1..Cnt PROVE Lost(j)' <=> j = i /\ Test.mandatory /\ ~Passed(st)
  <2>1. CASE j = i
    <3>1. status'[j] = st BY <1>0, <1>1, <2>1
    <3>2. QED BY <1>1, <1>4, <2>1, <3>1 DEF Lost
  <2>2. CASE j # i
    <3>1. status'[j] = status[j] BY <1>0, <1>1, <2>2
    <3>2. QED BY <1>1, <1>2, <2>2, <3>1 DEF Lost
  <2>3. QED BY <2>1, <2>2
<1>7. QED BY <1>0, <1>1, <1>5, <1>6 DEF Stopping

LEMMA StoppingStep ==
  ASSUME TC, Ordered, Refused \/ Stopping, [Next]_vars PROVE (Refused \/ Stopping)'
<1>0. /\ Cnt \in Nat /\ i \in 1..(Cnt + 1) /\ status \in [1..Cnt -> Statuses]
      /\ Cnt = Len(tests) /\ tests \in Seq(TestType) /\ summary \in SummaryType
  BY Arrays DEF TC
<1>1. CASE Sort
  <2>1. /\ Cnt' = Cnt /\ status' = status /\ i' = i /\ i = 1 /\ summary' = summary
        /\ ~InTest' /\ pc' # "done" /\ ~InTest /\ pc # "done"
    BY <1>0, <1>1, SortedTypes DEF Sort, Ordered, Cnt, InTest
  <2>2. \A j \in 1..Cnt : status[j] = "NOT_RUN" BY <1>0, <2>1 DEF Ordered
  <2>3. summary.passed BY <2>1 DEF Stopping, Refused
  <2>4. QED BY <2>1, <2>2, <2>3 DEF Stopping, Lost
<1>2. CASE Refuse
  <2>1. Refused' BY <1>2 DEF Refuse, Refused, Duplicate, Cnt
  <2>2. QED BY <2>1
<1>3. CASE Begin
  <2>1. UNCHANGED <<tests, status, i, summary, Cnt>> /\ ~InTest' /\ pc' # "done" /\ pc # "done"
    BY <1>3 DEF Begin, engine, Cnt, InTest
  <2>2. QED BY <2>1 DEF Stopping, Refused, Lost
<1>4. CASE SkipInactive
  <2>1. /\ UNCHANGED <<tests, status, summary, Cnt, pc>> /\ pc = "next" /\ summary.passed
    BY <1>4 DEF SkipInactive, Going, Cnt
  <2>2. QED BY <2>1 DEF Stopping, Refused, Lost, InTest
<1>5. CASE SkipDependent
  <2>1. /\ UNCHANGED <<tests, Cnt, pc>> /\ pc = "next" /\ i <= Cnt /\ summary.passed
        /\ status' = [status EXCEPT ![i] = "SKIPPED"]
        /\ summary' = [summary EXCEPT !.total = @ + 1, !.skip = @ + 1]
    BY <1>5 DEF SkipDependent, Going, Cnt
  <2>2. summary'.passed BY <1>0, <2>1, Zenon DEF SummaryType
  <2>3. QED BY <1>0, <2>1, <2>2 DEF Stopping, Refused, Lost, InTest
<1>6. CASE Launch
  <2>1. /\ UNCHANGED <<tests, Cnt, i>> /\ pc = "next" /\ i <= Cnt /\ summary.passed
        /\ status' = [status EXCEPT ![i] = "RUNNING"] /\ InTest' /\ pc' # "done"
        /\ summary' = [summary EXCEPT !.total = @ + 1]
    BY <1>6 DEF Launch, Going, Cnt, InTest
  <2>2. summary'.passed BY <1>0, <2>1, Zenon DEF SummaryType
  <2>3. QED BY <1>0, <2>1, <2>2 DEF Stopping, Refused, Lost
<1>7. CASE Inside
  <2>1. UNCHANGED <<tests, status, i, summary, Cnt>> /\ InTest /\ InTest'
    BY <1>7, InsideKeeps DEF engine, Cnt
  <2>2. QED BY <2>1 DEF Stopping, Refused, Lost, InTest
<1>8. CASE Finish
  <2>1. Stopping BY <1>8 DEF Finish, Refused
  <2>2. QED BY <1>8, <2>1, StoppingFinish
<1>9. CASE End
  <2>1. /\ UNCHANGED <<tests, status, i, summary, Cnt>> /\ pc = "next" /\ ~InTest /\ pc' = "done"
        /\ ~Going
    BY <1>9 DEF End, engine, Cnt, InTest
  <2>2. i > Cnt \/ ~summary.passed BY <1>0, <2>1 DEF Going, Ordered
  <2>3. QED BY <2>1, <2>2 DEF Stopping, Refused, Lost, InTest
<1>10. CASE UNCHANGED vars
  BY <1>10 DEF vars, engine, Stopping, Refused, Duplicate, Lost, InTest, Cnt
<1>11. QED BY <1>1, <1>2, <1>3, <1>4, <1>5, <1>6, <1>7, <1>8, <1>9, <1>10, Steps

(* The engine stops at the first mandatory test that fails, having run none *)
(* after it, and otherwise leaves no active test out: for suites of every   *)
(* length.                                                                  *)
THEOREM MandatoryStop == Spec => []MandatoryStops
<1>1. Init => Ordered /\ (Refused \/ Stopping)
  <2> SUFFICES ASSUME Init PROVE Ordered /\ Stopping OBVIOUS
  <2>1. Cnt \in Nat BY TestEngineAssumption DEF Init, Cnt
  <2>2. /\ status = [j \in 1..Cnt |-> "NOT_RUN"] /\ i = 1 /\ ~InTest /\ pc = "start"
        /\ summary.passed
    BY DEF Init, Cnt, InTest
  <2>3. QED BY <2>1, <2>2 DEF Ordered, Stopping, Lost
<1>2. TC /\ Ordered /\ (Refused \/ Stopping) /\ [Next]_vars => (Ordered /\ (Refused \/ Stopping))'
  BY OrderedStep, StoppingStep
<1>3. TypeOK /\ Ordered /\ (Refused \/ Stopping) => MandatoryStops
  <2> SUFFICES ASSUME TypeOK, Ordered, Stopping, pc = "done"
               PROVE  LET lost == {j \in 1..Cnt : Lost(j)} IN
                      /\ summary.passed <=> lost = {}
                      /\ lost # {} => (\A j \in i..Cnt : status[j] = "NOT_RUN") /\ lost = {i - 1}
                      /\ lost = {} => \A j \in 1..Cnt : status[j] = "NOT_RUN" => tests[j].count = 0
    BY DEF MandatoryStops, Refused, Lost
  <2> DEFINE lost == {j \in 1..Cnt : Lost(j)}
  <2>1. Cnt \in Nat /\ i \in 1..(Cnt + 1) BY Arrays
  <2>2. summary.passed <=> lost = {} BY <2>1 DEF Stopping
  <2>3. \A j \in i..Cnt : status[j] = "NOT_RUN" BY <2>1 DEF Ordered, InTest
  <2>4. lost # {} => lost = {i - 1} BY <2>1, <2>2 DEF Stopping
  <2>5. lost = {} => i > Cnt BY <2>2 DEF Stopping
  <2>6. QED BY <2>1, <2>2, <2>3, <2>4, <2>5 DEF Ordered
<1>4. QED BY <1>1, <1>2, <1>3, TypeCorrect, PTL DEF Spec, TC

-----------------------------------------------------------------------------
(* The summary. *)

(* Setting one element counts it in, if it was out and is in now. *)
LEMMA CountOne ==
  ASSUME NEW n \in Nat, NEW f \in [1..n -> Statuses], NEW g \in [1..n -> Statuses],
         NEW k \in 1..n, \A j \in 1..n : j # k => g[j] = f[j],
         NEW ss \in SUBSET Statuses, f[k] \notin ss
  PROVE  /\ Cardinality({j \in 1..n : f[j] \in ss}) \in Nat
         /\ Cardinality({j \in 1..n : g[j] \in ss})
              = Cardinality({j \in 1..n : f[j] \in ss}) + (IF g[k] \in ss THEN 1 ELSE 0)
<1> DEFINE F == {j \in 1..n : f[j] \in ss}
           G == {j \in 1..n : g[j] \in ss}
<1>1. IsFiniteSet(F) /\ Cardinality(F) \in Nat
  <2>1. IsFiniteSet(1..n) BY FS_Interval
  <2>2. F \subseteq 1..n OBVIOUS
  <2>3. QED BY <2>1, <2>2, FS_Subset, FS_CardinalityType
<1>2. k \notin F /\ G = IF g[k] \in ss THEN F \union {k} ELSE F OBVIOUS
<1>3. Cardinality(F \union {k}) = Cardinality(F) + 1 BY <1>1, <1>2, FS_AddElement
<1>4. Cardinality(G) = Cardinality(F) + (IF g[k] \in ss THEN 1 ELSE 0)
  <2>1. CASE g[k] \in ss BY <1>2, <1>3, <2>1, Zenon
  <2>2. CASE g[k] \notin ss
    <3>1. Cardinality(G) = Cardinality(F) BY <1>2, <2>2
    <3>2. QED BY <1>1, <2>2, <3>1
  <2>3. QED BY <2>1, <2>2
<1>5. QED BY <1>1, <1>4

Passes == With({"PASSED", "MANUAL"})
Failures == With({"FAILED", "EXCEPTION"})
Exceptions == With({"EXCEPTION"})
Skips == With({"SKIPPED"})

Tally ==
  /\ summary.pass = Passes
  /\ summary.err = Failures
  /\ summary.exc = Exceptions
  /\ summary.skip = Skips
  /\ summary.total = summary.pass + summary.err + summary.skip + (IF InTest THEN 1 ELSE 0)

(* A status no tally counts gives way to another. *)
LEMMA Entered ==
  ASSUME TypeOK, i <= Cnt, status[i] \in {"NOT_RUN", "RUNNING"}, Cnt' = Cnt,
         status' \in [1..Cnt -> Statuses], \A j \in 1..Cnt : j # i => status'[j] = status[j]
  PROVE  /\ Passes' = Passes + (IF status'[i] \in {"PASSED", "MANUAL"} THEN 1 ELSE 0)
         /\ Failures' = Failures + (IF status'[i] \in {"FAILED", "EXCEPTION"} THEN 1 ELSE 0)
         /\ Exceptions' = Exceptions + (IF status'[i] = "EXCEPTION" THEN 1 ELSE 0)
         /\ Skips' = Skips + (IF status'[i] = "SKIPPED" THEN 1 ELSE 0)
         /\ Passes \in Nat /\ Failures \in Nat /\ Exceptions \in Nat /\ Skips \in Nat
<1>1. Cnt \in Nat /\ i \in 1..Cnt /\ status \in [1..Cnt -> Statuses] BY Arrays
<1>2. ASSUME NEW ss \in SUBSET Statuses, status[i] \notin ss
      PROVE  With(ss) \in Nat /\ With(ss)' = With(ss) + (IF status'[i] \in ss THEN 1 ELSE 0)
  BY <1>1, <1>2, CountOne DEF With
<1>3. /\ {"PASSED", "MANUAL"} \in SUBSET Statuses /\ {"FAILED", "EXCEPTION"} \in SUBSET Statuses
      /\ {"EXCEPTION"} \in SUBSET Statuses /\ {"SKIPPED"} \in SUBSET Statuses
  BY DEF Statuses
<1>4. /\ status[i] \notin {"PASSED", "MANUAL"} /\ status[i] \notin {"FAILED", "EXCEPTION"}
      /\ status[i] \notin {"EXCEPTION"} /\ status[i] \notin {"SKIPPED"}
  OBVIOUS
<1>5. status'[i] \in {"EXCEPTION"} <=> status'[i] = "EXCEPTION" OBVIOUS
<1>6. status'[i] \in {"SKIPPED"} <=> status'[i] = "SKIPPED" OBVIOUS
<1>7. QED BY <1>2, <1>3, <1>4, <1>5, <1>6 DEF Passes, Failures, Exceptions, Skips

(* The numbers of a summary after each of its updates. *)
LEMMA CountedTotal ==
  ASSUME NEW s \in SummaryType, NEW n \in Nat
  PROVE  LET t == [s EXCEPT !.total = n] IN
         t.pass = s.pass /\ t.err = s.err /\ t.exc = s.exc /\ t.skip = s.skip /\ t.total = n
BY Zenon DEF SummaryType

LEMMA CountedSkip ==
  ASSUME NEW s \in SummaryType, NEW n \in Nat, NEW m \in Nat
  PROVE  LET t == [s EXCEPT !.total = n, !.skip = m] IN
         t.pass = s.pass /\ t.err = s.err /\ t.exc = s.exc /\ t.skip = m /\ t.total = n
BY Zenon DEF SummaryType

LEMMA CountedPass ==
  ASSUME NEW s \in SummaryType, NEW n \in Nat
  PROVE  LET t == [s EXCEPT !.pass = n] IN
         t.pass = n /\ t.err = s.err /\ t.exc = s.exc /\ t.skip = s.skip /\ t.total = s.total
BY Zenon DEF SummaryType

LEMMA CountedError ==
  ASSUME NEW s \in SummaryType, NEW b \in BOOLEAN, NEW n \in Nat, NEW k \in Nat
  PROVE  LET t == [s EXCEPT !.err = n, !.passed = b, !.exc = k] IN
         t.pass = s.pass /\ t.err = n /\ t.exc = k /\ t.skip = s.skip /\ t.total = s.total
BY Zenon DEF SummaryType

LEMMA TallyStep == ASSUME TC, Ordered, Tally, [Next]_vars PROVE Tally'
<1>0. /\ Cnt \in Nat /\ i \in 1..(Cnt + 1) /\ status \in [1..Cnt -> Statuses]
      /\ Cnt = Len(tests) /\ tests \in Seq(TestType) /\ summary \in SummaryType
  BY Arrays DEF TC
<1>00. /\ summary.pass \in Nat /\ summary.err \in Nat /\ summary.exc \in Nat
       /\ summary.skip \in Nat /\ summary.total \in Nat
  BY <1>0, SummaryTypes, Zenon
<1>1. CASE Sort
  <2>1. UNCHANGED <<status, summary, Cnt>> /\ ~InTest /\ ~InTest'
    BY <1>0, <1>1, SortedTypes DEF Sort, Cnt, InTest
  <2>2. QED BY <2>1 DEF Tally, With, Passes, Failures, Exceptions, Skips
<1>2. CASE Refuse
  <2>1. UNCHANGED <<status, Cnt>> /\ ~InTest /\ ~InTest' /\ summary' = [summary EXCEPT !.passed = FALSE]
    BY <1>2 DEF Refuse, Cnt, InTest
  <2>2. /\ summary'.pass = summary.pass /\ summary'.err = summary.err /\ summary'.exc = summary.exc
        /\ summary'.skip = summary.skip /\ summary'.total = summary.total
    BY <1>0, <2>1, Zenon DEF SummaryType
  <2>3. QED BY <2>1, <2>2 DEF Tally, With, Passes, Failures, Exceptions, Skips
<1>3. CASE Begin \/ SkipInactive \/ End
  <2>1. UNCHANGED <<status, summary, Cnt>> /\ ~InTest /\ ~InTest'
    BY <1>3 DEF Begin, SkipInactive, End, engine, Cnt, InTest
  <2>2. QED BY <2>1 DEF Tally, With, Passes, Failures, Exceptions, Skips
<1>4. CASE SkipDependent
  <2>1. /\ Cnt' = Cnt /\ i <= Cnt /\ status[i] = "NOT_RUN" /\ ~InTest /\ ~InTest'
        /\ status' = [status EXCEPT ![i] = "SKIPPED"]
        /\ summary' = [summary EXCEPT !.total = @ + 1, !.skip = @ + 1]
    BY <1>4 DEF SkipDependent, Going, Cnt, InTest
  <2>2. /\ summary'.pass = summary.pass /\ summary'.err = summary.err /\ summary'.exc = summary.exc
        /\ summary'.skip = summary.skip + 1 /\ summary'.total = summary.total + 1
    <3>1. summary.total + 1 \in Nat /\ summary.skip + 1 \in Nat BY <1>00
    <3>2. QED BY <1>0, <2>1, <3>1, Zenon DEF SummaryType
  <2>3. /\ status' \in [1..Cnt -> Statuses] /\ status'[i] = "SKIPPED"
        /\ \A j \in 1..Cnt : j # i => status'[j] = status[j]
    BY <1>0, <2>1 DEF Statuses
  <2>4. /\ Passes' = Passes /\ Failures' = Failures /\ Exceptions' = Exceptions
        /\ Skips' = Skips + 1 /\ Passes \in Nat /\ Failures \in Nat /\ Exceptions \in Nat /\ Skips \in Nat
    BY <2>1, <2>3, Entered DEF TC
  <2>5. QED BY <1>00, <2>1, <2>2, <2>4 DEF Tally
<1>5. CASE Launch
  <2>1. /\ Cnt' = Cnt /\ i <= Cnt /\ status[i] = "NOT_RUN" /\ ~InTest /\ InTest'
        /\ status' = [status EXCEPT ![i] = "RUNNING"]
        /\ summary' = [summary EXCEPT !.total = @ + 1]
    BY <1>5 DEF Launch, Going, Cnt, InTest
  <2>2. /\ summary'.pass = summary.pass /\ summary'.err = summary.err /\ summary'.exc = summary.exc
        /\ summary'.skip = summary.skip /\ summary'.total = summary.total + 1
    <3>1. summary.total + 1 \in Nat BY <1>00
    <3>2. QED BY <1>0, <2>1, <3>1, CountedTotal, Zenon
  <2>3. /\ status' \in [1..Cnt -> Statuses] /\ status'[i] = "RUNNING"
        /\ \A j \in 1..Cnt : j # i => status'[j] = status[j]
    BY <1>0, <2>1 DEF Statuses
  <2>4. /\ Passes' = Passes /\ Failures' = Failures /\ Exceptions' = Exceptions
        /\ Skips' = Skips /\ Passes \in Nat /\ Failures \in Nat /\ Exceptions \in Nat /\ Skips \in Nat
    BY <2>1, <2>3, Entered DEF TC
  <2>5. QED BY <1>00, <2>1, <2>2, <2>4 DEF Tally
<1>6. CASE Inside
  <2>1. UNCHANGED <<status, summary, Cnt>> /\ InTest /\ InTest' BY <1>6, InsideKeeps DEF engine, Cnt
  <2>2. QED BY <2>1 DEF Tally, With, Passes, Failures, Exceptions, Skips
<1>7. CASE Finish
  <2>1. /\ Cnt' = Cnt /\ i <= Cnt /\ InTest /\ ~InTest' /\ st \in Ends /\ summary' = Outcome
        /\ status' = [status EXCEPT ![i] = st]
    BY <1>7 DEF Finish, Cnt, InTest, TC, Control
  <2>2. status[i] = "RUNNING" BY <2>1 DEF Ordered
  <2>3. /\ summary'.pass = summary.pass + (IF st \in {"PASSED", "MANUAL"} THEN 1 ELSE 0)
        /\ summary'.err = summary.err + (IF st \in {"FAILED", "EXCEPTION"} THEN 1 ELSE 0)
        /\ summary'.exc = summary.exc + (IF st = "EXCEPTION" THEN 1 ELSE 0)
        /\ summary'.skip = summary.skip /\ summary'.total = summary.total
    <3>1. CASE Passed(st)
      <4>1. summary' = [summary EXCEPT !.pass = @ + 1] /\ summary.pass + 1 \in Nat
        BY <1>00, <2>1, <3>1 DEF Outcome
      <4>2. /\ summary'.pass = summary.pass + 1 /\ summary'.err = summary.err
            /\ summary'.exc = summary.exc /\ summary'.skip = summary.skip
            /\ summary'.total = summary.total
        BY <1>0, <4>1, CountedPass, Zenon
      <4>3. QED BY <1>00, <3>1, <4>2 DEF Passed
    <3>2. CASE ~Passed(st)
      <4> DEFINE e == IF st = "EXCEPTION" THEN summary.exc + 1 ELSE summary.exc
                 b == summary.passed /\ ~Test.mandatory
      <4>1. b \in BOOLEAN BY Zenon
      <4>2. summary.err + 1 \in Nat /\ e \in Nat BY <1>00
      <4>3. summary' = [summary EXCEPT !.err = summary.err + 1, !.passed = b, !.exc = e]
        BY <2>1, <3>2, Zenon DEF Outcome
      <4>4. /\ summary'.pass = summary.pass /\ summary'.err = summary.err + 1 /\ summary'.exc = e
            /\ summary'.skip = summary.skip /\ summary'.total = summary.total
        BY <1>0, <4>3, Zenon DEF SummaryType
      <4>5. QED BY <1>00, <2>1, <3>2, <4>4 DEF Passed, Ends
    <3>3. QED BY <3>1, <3>2
  <2>4. /\ status' \in [1..Cnt -> Statuses] /\ status'[i] = st
        /\ \A j \in 1..Cnt : j # i => status'[j] = status[j]
    BY <1>0, <2>1 DEF Ends, Statuses
  <2>5. /\ Passes' = Passes + (IF st \in {"PASSED", "MANUAL"} THEN 1 ELSE 0)
        /\ Failures' = Failures + (IF st \in {"FAILED", "EXCEPTION"} THEN 1 ELSE 0)
        /\ Exceptions' = Exceptions + (IF st = "EXCEPTION" THEN 1 ELSE 0) /\ Skips' = Skips
        /\ Passes \in Nat /\ Failures \in Nat /\ Exceptions \in Nat /\ Skips \in Nat
    BY <2>1, <2>2, <2>4, Entered DEF TC, Ends
  <2>6. QED BY <1>00, <2>1, <2>3, <2>5 DEF Tally, Ends
<1>8. CASE UNCHANGED vars
  BY <1>8 DEF vars, engine, Tally, With, Passes, Failures, Exceptions, Skips, Cnt, InTest
<1>9. QED BY <1>1, <1>2, <1>3, <1>4, <1>5, <1>6, <1>7, <1>8, Steps

(* Between the tests the numbers of the summary are the numbers of tests    *)
(* with each status and add up, on all its paths: for suites of any length. *)
THEOREM SummaryAddsUp == Spec => []SummaryTallies
<1>1. Init => Ordered /\ Tally
  <2> SUFFICES ASSUME Init PROVE Ordered /\ Tally OBVIOUS
  <2>1. Cnt \in Nat BY TestEngineAssumption DEF Init, Cnt
  <2>2. /\ status = [j \in 1..Cnt |-> "NOT_RUN"] /\ i = 1 /\ ~InTest /\ pc = "start"
        /\ summary.pass = 0 /\ summary.err = 0 /\ summary.exc = 0 /\ summary.skip = 0
        /\ summary.total = 0
    BY DEF Init, Cnt, InTest
  <2>3. ASSUME NEW ss, "NOT_RUN" \notin ss PROVE With(ss) = 0
    <3>1. {j \in 1..Cnt : status[j] \in ss} = {} BY <2>2, <2>3
    <3>2. QED BY <3>1, FS_EmptySet DEF With
  <2>4. QED BY <2>1, <2>2, <2>3 DEF Ordered, Tally, Passes, Failures, Exceptions, Skips
<1>2. TC /\ Ordered /\ Tally /\ [Next]_vars => (Ordered /\ Tally)' BY OrderedStep, TallyStep
<1>3. TypeOK /\ Tally => SummaryTallies
  <2> SUFFICES ASSUME TypeOK, Tally, pc \in {"next", "done"} PROVE SummaryTallies
    BY DEF SummaryTallies
  <2>1. summary \in SummaryType BY Arrays
  <2>2. /\ summary.pass \in Nat /\ summary.err \in Nat /\ summary.skip \in Nat
        /\ summary.total \in Nat
    BY <2>1, SummaryTypes, Zenon
  <2>3. QED BY <2>2 DEF Tally, Passes, Failures, Exceptions, Skips, SummaryTallies, InTest
<1>4. QED BY <1>1, <1>2, <1>3, TypeCorrect, PTL DEF Spec, TC
=============================================================================
