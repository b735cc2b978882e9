------------------------ MODULE ErrorProgram_proofs ------------------------
(***************************************************************************)
(* Proofs about the error stack, for every size of the static array and    *)
(* every increment: alone, used in any order, and under the test program   *)
(* of error.c; about the one jump buffer of that program; and, from what   *)
(* each line of the seven tests finds and leaves, that the program is one  *)
(* of the suites of TestEngine, hands over a clean stack between its tests *)
(* and records each test in the one way the test can end.  What the        *)
(* elements of the stack are is of no importance, so the types only say    *)
(* that the stack and its history are sequences.                           *)
(***************************************************************************)
EXTENDS ErrorProgram, TestEngine_proofs, SequenceTheorems

StackTypes ==
  /\ \E T : stack \in Seq(T) /\ raised \in Seq(T)
  /\ alloc \in Nat /\ alloc >= InitCount /\ heap \in BOOLEAN

(* The array on the heap is there because the static one was full. *)
Grown == heap => Len(stack) > InitCount

StackInv == StackTypes /\ Grown /\ StackIsRaised

-----------------------------------------------------------------------------
(* The empty stack, at the start and after err_clean. *)
LEMMA StackInvInit == StackInit => StackInv
<1> SUFFICES ASSUME StackInit PROVE StackInv OBVIOUS
<1>1. stack \in Seq({}) /\ raised \in Seq({}) /\ Len(stack) = 0 /\ Len(raised) = 0
  BY DEF StackInit
<1>2. StackTypes
  <2>1. \E T : stack \in Seq(T) /\ raised \in Seq(T) BY <1>1, Zenon
  <2>2. InitCount \in Nat /\ InitCount >= InitCount BY ErrorStackAssumption
  <2>3. alloc \in Nat /\ alloc >= InitCount BY <2>2 DEF StackInit
  <2>4. heap \in BOOLEAN BY Zenon DEF StackInit
  <2>5. QED BY <2>1, <2>3, <2>4, Zenon DEF StackTypes
<1>3. StackIsRaised BY <1>1, ErrorStackAssumption DEF StackInit, StackIsRaised
<1>4. QED BY <1>2, <1>3 DEF StackInv, Grown, StackInit

(* One more error, whatever it is. *)
LEMMA PutStep == ASSUME NEW e, StackInv, Put(e) PROVE StackInv'
<1>1. PICK T : stack \in Seq(T) /\ raised \in Seq(T) BY DEF StackInv, StackTypes
<1> DEFINE U == T \union {e, Junk}
           n == Len(stack)
           kept == \A k \in 1..n : stack[k] = IF heap /\ k <= InitCount THEN Junk ELSE raised[k]
<1>2. /\ stack \in Seq(U) /\ raised \in Seq(U) /\ n \in Nat /\ Len(raised) = n
      /\ alloc \in Nat /\ alloc >= InitCount /\ n <= alloc /\ (heap <=> alloc > InitCount)
      /\ heap \in BOOLEAN /\ InitCount \in Nat \ {0} /\ Increment \in Nat \ {0}
      /\ heap => n > InitCount
  BY <1>1, ErrorStackAssumption DEF StackInv, StackTypes, StackIsRaised, Grown
<1>3. kept BY DEF StackInv, StackIsRaised
<1>4. raised' = Append(raised, e) /\ stack' = Append(Carried, e) BY DEF Put
<1>5. /\ raised' \in Seq(U) /\ Len(raised') = n + 1 /\ raised'[n + 1] = e
      /\ \A k \in 1..n : raised'[k] = raised[k]
  BY <1>2, <1>4
<1>6. \A k \in 1..(n + 1) : k \in 1..n \/ k = n + 1 BY <1>2
<1>7. CASE Room \/ heap
  <2>1. Carried = stack BY <1>7 DEF Carried
  <2>2. /\ stack' \in Seq(U) /\ Len(stack') = n + 1 /\ stack'[n + 1] = e
        /\ \A k \in 1..n : stack'[k] = stack[k]
    BY <1>2, <1>4, <2>1
  <2>3. /\ heap' = heap /\ alloc' \in Nat /\ alloc' >= InitCount /\ n + 1 <= alloc'
        /\ heap' <=> alloc' > InitCount
    <3>1. CASE Room BY <1>2, <3>1 DEF Put, Room
    <3>2. CASE ~Room
      <4>1. heap /\ heap' = TRUE /\ alloc' = alloc + Increment BY <1>7, <3>2 DEF Put
      <4>2. QED BY <1>2, <4>1
    <3>3. QED BY <3>1, <3>2
  <2>4. StackTypes' BY <1>2, <1>5, <2>2, <2>3 DEF StackTypes
  <2>5. Grown' BY <1>2, <2>2, <2>3 DEF Grown
  <2>6. ASSUME NEW k \in 1..(n + 1)
        PROVE  stack'[k] = IF heap' /\ k <= InitCount THEN Junk ELSE raised'[k]
    <3>1. CASE k \in 1..n BY <1>3, <1>5, <2>2, <2>3, <3>1
    <3>2. CASE k = n + 1 BY <1>2, <1>5, <2>2, <2>3, <3>2
    <3>3. QED BY <1>6, <3>1, <3>2
  <2>7. StackIsRaised' BY <1>5, <2>2, <2>3, <2>6 DEF StackIsRaised
  <2>8. QED BY <2>4, <2>5, <2>7 DEF StackInv
<1>8. CASE ~Room /\ ~heap
  <2>1. n = InitCount /\ alloc = InitCount BY <1>2, <1>8 DEF Room
  <2>2. Carried = [k \in 1..n |-> Junk] BY <1>8 DEF Carried
  <2>3. Carried \in Seq(U) /\ Len(Carried) = n /\ \A k \in 1..n : Carried[k] = Junk
    BY <1>2, <2>2
  <2>4. /\ stack' \in Seq(U) /\ Len(stack') = n + 1 /\ stack'[n + 1] = e
        /\ \A k \in 1..n : stack'[k] = Junk
    BY <1>2, <1>4, <2>3
  <2>5. heap' = TRUE /\ alloc' = alloc + Increment BY <1>8 DEF Put
  <2>6. alloc' \in Nat /\ alloc' > InitCount /\ n + 1 <= alloc' BY <1>2, <2>1, <2>5
  <2>7. StackTypes' BY <1>2, <1>5, <2>4, <2>5, <2>6 DEF StackTypes
  <2>8. Grown' BY <1>2, <2>1, <2>4 DEF Grown
  <2>9. ASSUME NEW k \in 1..(n + 1)
        PROVE  stack'[k] = IF heap' /\ k <= InitCount THEN Junk ELSE raised'[k]
    <3>1. CASE k \in 1..n BY <1>2, <2>1, <2>4, <2>5, <3>1
    <3>2. CASE k = n + 1 BY <1>2, <1>5, <2>1, <2>4, <3>2
    <3>3. QED BY <1>6, <3>1, <3>2
  <2>10. StackIsRaised' BY <1>5, <2>4, <2>5, <2>6, <2>9 DEF StackIsRaised
  <2>11. QED BY <2>7, <2>8, <2>10 DEF StackInv
<1>9. QED BY <1>7, <1>8

(* err_clean. *)
LEMMA CleanStep == ASSUME Clean PROVE StackInv'
<1>1. stack' \in Seq({}) /\ raised' \in Seq({}) /\ Len(stack') = 0 /\ Len(raised') = 0
  BY DEF Clean
<1>2. alloc' = InitCount /\ heap' = FALSE BY DEF Clean
<1>3. StackTypes'
  <2>1. \E T : stack' \in Seq(T) /\ raised' \in Seq(T) BY <1>1, Zenon
  <2>2. InitCount \in Nat /\ InitCount >= InitCount BY ErrorStackAssumption
  <2>3. alloc' \in Nat /\ alloc' >= InitCount BY <1>2, <2>2
  <2>4. heap' \in BOOLEAN BY <1>2, Zenon
  <2>5. QED BY <2>1, <2>3, <2>4, Zenon DEF StackTypes
<1>4. StackIsRaised' BY <1>1, <1>2, ErrorStackAssumption DEF StackIsRaised
<1>5. QED BY <1>2, <1>3, <1>4 DEF StackInv, Grown

(* What does not touch the arrays: every other step, a failed malloc too. *)
LEMMA KeptStep == ASSUME StackInv, UNCHANGED <<stack, alloc, heap, raised>> PROVE StackInv'
BY DEF StackInv, StackTypes, Grown, StackIsRaised

-----------------------------------------------------------------------------
(* However err_put and err_clean are called, the stack shows what was        *)
(* raised, apart from the entries of the static array once it was replaced:  *)
(* err_increase loses those and no other, and err_put stays in the array.    *)
THEOREM StackHoldsRaised == StackSpec => []StackIsRaised
<1>1. ASSUME StackInv, [StackNext]_errors PROVE StackInv'
  <2>1. CASE \E e \in Entries : Put(e) BY <1>1, <2>1, PutStep
  <2>2. CASE Exhausted BY <1>1, <2>2, KeptStep DEF Exhausted
  <2>3. CASE Clean BY <2>3, CleanStep
  <2>4. CASE UNCHANGED errors BY <1>1, <2>4, KeptStep DEF errors
  <2>5. QED BY <1>1, <2>1, <2>2, <2>3, <2>4 DEF StackNext
<1>2. StackInv => StackIsRaised BY DEF StackInv
<1>3. QED BY StackInvInit, <1>1, <1>2, PTL DEF StackSpec

(* A step of the test program of error.c. *)
LEMMA StackStep == ASSUME StackInv, [PNext]_pvars PROVE StackInv'
<1>1. CASE Engine BY <1>1, KeptStep DEF Engine, errors
<1>2. CASE RaiseError BY <1>2, PutStep DEF RaiseError
<1>3. CASE RaiseSystem
  <2>1. CASE UNCHANGED errors BY <2>1, KeptStep DEF errors
  <2>2. CASE Put(EntryOf("sysraise", 0)) BY <2>2, PutStep
  <2>3. QED BY <1>3, <2>1, <2>2 DEF RaiseSystem
<1>4. CASE RaiseSignal BY <1>4, PutStep DEF RaiseSignal
<1>5. CASE RunOutOfMemory BY <1>5, KeptStep DEF RunOutOfMemory, Exhausted
<1>6. CASE CleanErrors BY <1>6, CleanStep DEF CleanErrors
<1>7. CASE InstallHandler BY <1>7, KeptStep DEF InstallHandler, errors
<1>8. CASE Mark BY <1>8, KeptStep DEF Mark, errors
<1>9. CASE NestedTry BY <1>9, KeptStep DEF NestedTry, errors
<1>10. CASE CheckHolds BY <1>10, KeptStep DEF CheckHolds, errors
<1>11. CASE CheckFails BY <1>11, CleanStep DEF CheckFails
<1>12. CASE ReturnStatus BY <1>12, KeptStep DEF ReturnStatus, errors
<1>13. CASE UNCHANGED pvars BY <1>13, KeptStep DEF pvars, errors
<1>14. CASE PrintTrace BY <1>14, KeptStep DEF PrintTrace, errors
<1>15. QED BY <1>1, <1>2, <1>3, <1>4, <1>5, <1>6, <1>7, <1>8, <1>9, <1>10, <1>11,
              <1>12, <1>13, <1>14 DEF PNext

(* The same under the test program of error.c, whose tests raise, jump out   *)
(* of their bodies and clean up under the control of the engine.             *)
THEOREM ProgramStack == PSpec => []StackIsRaised
<1>1. PInit => StackInv BY StackInvInit DEF PInit
<1>2. StackInv /\ [PNext]_pvars => StackInv' BY StackStep
<1>3. StackInv => StackIsRaised BY DEF StackInv
<1>4. QED BY <1>1, <1>2, <1>3, PTL DEF PSpec

-----------------------------------------------------------------------------
(* The jump buffer.  launcher arms it before a test runs and a test never    *)
(* has it for itself, so tf7 goes from its try() past the raise.             *)
Buffer ==
  /\ point = "launcher"
  /\ pc \in {"run", "body"} => initFlag
  /\ pc = "body" /\ Test.num = 7 => raises = 0 /\ at \in {1, 2, 5, 6, 7}

(* The steps of tf7 that are ever made. *)
LEMMA Script7 ==
  /\ Script[7][1] = Act("handler", "default") /\ Script[7][2] = Act("try", 5)
  /\ Script[7][5] = Act("trace", 0) /\ Script[7][6] = Act("clean", 0)
  /\ Script[7][7] = Act("return", "PASSED")
BY DEF Script, tf7

LEMMA Operations ==
  ASSUME NEW a, NEW n PROVE Act(a, n).op = a /\ Act(a, n).n = n
BY DEF Act

(* What tf7 does where. *)
LEMMA Doing7 ==
  ASSUME Buffer, pc = "body", Test.num = 7, NEW a, Doing(a)
  PROVE  /\ a \in {"handler", "try", "trace", "clean", "return"}
         /\ a = "handler" => at = 1
         /\ a = "try" => at = 2 /\ Current.n = 5
         /\ a = "trace" => at = 5
         /\ a = "clean" => at = 6
<1>1. at \in {1, 2, 5, 6, 7} /\ Current = Script[7][at] /\ Current.op = a BY DEF Buffer, Doing, Current
<1>2. CASE at = 1 BY <1>1, <1>2, Script7, Operations
<1>3. CASE at = 2 BY <1>1, <1>3, Script7, Operations
<1>4. CASE at = 5 BY <1>1, <1>4, Script7, Operations
<1>5. CASE at = 6 BY <1>1, <1>5, Script7, Operations
<1>6. CASE at = 7 BY <1>1, <1>6, Script7, Operations
<1>7. QED BY <1>1, <1>2, <1>3, <1>4, <1>5, <1>6

LEMMA BufferStep == ASSUME Buffer, [PNext]_pvars PROVE Buffer'
<1>1. CASE Engine
  <2>1. point' = "launcher" /\ at' = 1 BY <1>1 DEF Engine, Buffer
  <2>2. pc' \in {"run", "body"} => initFlag'
    BY <1>1 DEF Engine, Buffer, Sort, Refuse, Begin, SkipInactive, SkipDependent, Launch,
                RunAgain, RunsDone, Finish, End
  <2>3. pc' = "body" => raises' = 0
    BY <1>1 DEF Engine, Sort, Refuse, Begin, SkipInactive, SkipDependent, Launch,
                RunAgain, RunsDone, Finish, End
  <2>4. QED BY <2>1, <2>2, <2>3 DEF Buffer
<1>2. ASSUME UNCHANGED vars, UNCHANGED <<at, point>> PROVE Buffer'
  BY <1>2 DEF vars, engine, body, Buffer, Test
<1>3. ASSUME UNCHANGED <<vars, point>>, pc = "body", Test.num # 7 PROVE Buffer'
  BY <1>3 DEF vars, engine, body, Buffer, Test
<1>4. CASE RaiseError BY <1>3, <1>4, Doing7 DEF RaiseError, Doing
<1>5. CASE RaiseSystem BY <1>3, <1>5, Doing7 DEF RaiseSystem, Doing
<1>6. CASE RaiseSignal
  <2>1. pc = "body" /\ Test.num # 7 /\ point = "launcher" BY <1>6, Doing7 DEF RaiseSignal, Doing, Buffer
  <2>2. UNCHANGED point /\ (Raise \/ RaiseReturns) BY <1>6, <2>1 DEF RaiseSignal
  <2>3. QED BY <2>1, <2>2 DEF Raise, RaiseReturns, Raising, Buffer, Test, engine
<1>7. CASE RunOutOfMemory BY <1>2, <1>7 DEF RunOutOfMemory, test
<1>8. CASE CleanErrors
  <2>1. UNCHANGED <<vars, point>> /\ at' = at + 1 /\ pc = "body" BY <1>8 DEF CleanErrors, Go, Doing
  <2>2. Test.num = 7 => at = 6 BY <1>8, <2>1, Doing7 DEF CleanErrors
  <2>3. QED BY <2>1, <2>2 DEF vars, engine, body, Buffer, Test
<1>9. CASE InstallHandler
  <2>1. at' = at + 1 /\ pc = "body" /\ SetHandler(Current.n) /\ UNCHANGED point
    BY <1>9 DEF InstallHandler, Go, Doing
  <2>2. Test.num = 7 => at = 1 BY <1>9, <2>1, Doing7 DEF InstallHandler
  <2>3. QED BY <2>1, <2>2 DEF SetHandler, Buffer, Test, engine
<1>10. CASE Mark BY <1>3, <1>10, Doing7 DEF Mark, Doing
<1>11. CASE NestedTry
  <2>1. pc = "body" /\ initFlag BY <1>11 DEF NestedTry, Doing, Buffer
  <2>2. at' = Current.n /\ UNCHANGED <<vars, point>> BY <1>11, <2>1 DEF NestedTry
  <2>3. Test.num = 7 => Current.n = 5 BY <1>11, <2>1, Doing7 DEF NestedTry
  <2>4. QED BY <2>1, <2>2, <2>3 DEF vars, engine, body, Buffer, Test
<1>12. CASE CheckHolds BY <1>3, <1>12, Doing7 DEF CheckHolds, Checking, Doing
<1>13. CASE CheckFails
  <2>1. pc = "body" /\ Return("FAILED") /\ UNCHANGED point
    BY <1>13 DEF CheckFails, Checking, Doing, test
  <2>2. QED BY <2>1 DEF Return, Buffer
<1>14. CASE ReturnStatus
  <2>1. pc = "body" /\ Return(Current.n) /\ UNCHANGED point BY <1>14 DEF ReturnStatus, Doing, test
  <2>2. QED BY <2>1 DEF Return, Buffer
<1>15. CASE UNCHANGED pvars BY <1>2, <1>15 DEF pvars, test
<1>16. CASE PrintTrace
  <2>1. UNCHANGED <<vars, point>> /\ (at' = at + 1 \/ UNCHANGED at) /\ pc = "body"
    BY <1>16 DEF PrintTrace, Go, Doing
  <2>2. Test.num = 7 => at = 5 BY <1>16, <2>1, Doing7 DEF PrintTrace
  <2>3. QED BY <2>1, <2>2 DEF vars, engine, body, Buffer, Test
<1>17. QED BY <1>1, <1>4, <1>5, <1>6, <1>7, <1>8, <1>9, <1>10, <1>11, <1>12, <1>13, <1>14,
              <1>15, <1>16 DEF PNext

(* The one jump buffer is launcher's, and armed, while any test runs, for    *)
(* every suite of the seven tests: a try() of a test is refused, and tf7     *)
(* reports a caught exception without ever having raised one.                *)
THEOREM BufferIsLaunchers ==
  PSpec => [](pc = "body" => initFlag /\ point = "launcher" /\ (Test.num = 7 => raises = 0))
<1>1. PInit => Buffer BY DEF PInit, Init, Buffer
<1>2. Buffer => (pc = "body" => initFlag /\ point = "launcher" /\ (Test.num = 7 => raises = 0))
  BY DEF Buffer
<1>3. QED BY <1>1, BufferStep, <1>2, PTL DEF PSpec

-----------------------------------------------------------------------------
(* The seven tests, line by line.                                            *)
Empty == stack = <<>> /\ ~heap /\ alloc = InitCount
Thrown == \E j \in 1..Cnt : status[j] = "EXCEPTION"
Quiet == Thrown \/ (Empty /\ ~blocked)
Height == Len(stack)
Top == stack[Len(stack)].code

(* What is on the stack before each step of a test, and what the steps       *)
(* before it have left elsewhere.                                            *)
Line1 == \/ at = 1 /\ Empty
         \/ at = 2 /\ Height = 1
         \/ at = 3
         \/ at = 4 /\ Empty

Line2 == \/ at = 1 /\ Empty
         \/ at \in 1..(Many + 1) /\ Height = at - 1
         \/ at = Many + 2
         \/ at = Many + 3 /\ Empty

Line3 == /\ caught \in 0..2
         /\ \/ at = 1 /\ Empty /\ caught = Test.count - runs - 1 /\ caught <= 1
            \/ at = 2 /\ handler = "other" /\ caught = Test.count - runs - 1 /\ caught <= 1
            \/ at = 3 /\ caught = Test.count - runs
            \/ at = 4 /\ caught = 1 /\ caught = Test.count - runs
            \/ at = 5 /\ caught = 1 /\ caught = Test.count - runs /\ Empty

(* the two answers of fopen *)
Opened == TRUE \in Opens
Unopened == FALSE \in Opens

Line4 == \/ at = 1 /\ Empty
         \/ at = 2 /\ Height = 0 /\ Opened
         \/ at = 2 /\ Height = 1 /\ Unopened
         \/ at = 3 /\ Unopened
         \/ at = 4 /\ Unopened /\ Empty

Line5 == \/ at = 1 /\ Empty
         \/ at = 2 /\ Height = 0 /\ errcount = 0
         \/ at \in {3, 4} /\ Height = 1 /\ errcount = 0 /\ Top = 30
         \/ at = 5 /\ Height = 1
         \/ at = 6 /\ Height = 1 /\ errcount = 1
         \/ at \in {7, 8} /\ Height = 2 /\ errcount = 1 /\ Top = 40
         \/ at = 9
         \/ at = 10 /\ Empty

Line6 == at = 1 \/ (at = 2 /\ handler = "default")

(* tf7, which puts nothing on the stack.                                     *)
Line7 == Quiet /\ at \in {1, 2, 5, 6, 7}

Lines ==
  /\ Test.num = 1 => Line1
  /\ Test.num = 2 => Line2
  /\ Test.num = 3 => Line3
  /\ Test.num = 4 => Line4
  /\ Test.num = 5 => Line5
  /\ Test.num = 6 => Line6
  /\ Test.num = 7 => Line7

(* What the engine can record of each of the seven, for that is what Verdicts *)
(* rests on: tf6 is jumped out of, tf3 fails when repeated, and tf7 passes.   *)
Outcomes(t) ==
  CASE t.num \in {1, 2} -> {"MANUAL"}
    [] t.num = 3 -> {IF t.count = 1 THEN "PASSED" ELSE "FAILED"}
    [] t.num = 4 -> {IF o THEN "FAILED" ELSE "PASSED" : o \in Opens}
    [] t.num \in {5, 7} -> {"PASSED"}
    [] t.num = 6 -> {"EXCEPTION"}

Recorded ==
  \A j \in 1..Cnt : status[j] \notin {"NOT_RUN", "RUNNING"} => status[j] \in Outcomes(tests[j])

(* The tests in the order in which they run. *)
Numbered ==
  /\ \A j \in 1..Cnt : tests[j].num \in 1..7 /\ tests[j].deps = {}
  /\ pc # "start" => \A j \in 1..(Cnt - 1) : tests[j].num <= tests[j + 1].num
  /\ pc \notin {"start", "sort", "done"} => ~Duplicate
  /\ i <= Cnt /\ pc # "done" => \A j \in 1..Cnt : j < i => tests[j].num < Test.num

(* What a test finds, has where it is, and hands over.                       *)
Between == pc \in {"start", "sort", "next", "done"} => Quiet
AtRun ==
  pc = "run" =>
    /\ Quiet /\ Test.count # 0 /\ runs <= Test.count
    /\ Test.num = 3 => caught = Test.count - runs /\ caught <= 1
    /\ runs < Test.count => IF Test.num = 3 THEN st = "PASSED" ELSE st \in Outcomes(Test)
AtBody ==
  pc = "body" => runs < Test.count /\ (Test.num # 7 => ~Thrown /\ ~blocked) /\ Lines
AtFinish == pc = "finish" => st \in Outcomes(Test) /\ (st = "EXCEPTION" \/ Quiet)
NotCaught ==
  \/ pc \in {"start", "sort"}
  \/ i <= Cnt /\ Test.num <= 3 /\ ~(InTest /\ Test.num = 3) /\ pc # "done"
  => caught = 0

TestsInv == Numbered /\ Recorded /\ Between /\ AtRun /\ AtBody /\ AtFinish /\ NotCaught
ProgramInv == TypeOK /\ Control /\ Ordered /\ StackInv /\ Buffer /\ TestsInv

-----------------------------------------------------------------------------
(* What the steps are. *)
LEMMA Scripts ==
  /\ /\ Script[1][1] = Act("raise", 10) /\ Script[1][2] = Act("expect", 1)
     /\ Script[1][3] = Act("clean", 0) /\ Script[1][4] = Act("return", "MANUAL")
  /\ /\ Script[3][1] = Act("handler", "other") /\ Script[3][2] = Act("raiseint", 15)
     /\ Script[3][3] = Act("caught", 1) /\ Script[3][4] = Act("clean", 0)
     /\ Script[3][5] = Act("return", "PASSED")
  /\ /\ Script[4][1] = Act("sysraise", 0) /\ Script[4][2] = Act("expect", 1)
     /\ Script[4][3] = Act("clean", 0) /\ Script[4][4] = Act("return", "PASSED")
  /\ /\ Script[5][1] = Act("mark", 0) /\ Script[5][2] = Act("raise", 30)
     /\ Script[5][3] = Act("grown", 1) /\ Script[5][4] = Act("top", 30)
     /\ Script[5][5] = Act("mark", 0) /\ Script[5][6] = Act("raise", 40)
     /\ Script[5][7] = Act("grown", 1) /\ Script[5][8] = Act("top", 40)
     /\ Script[5][9] = Act("clean", 0) /\ Script[5][10] = Act("return", "PASSED")
  /\ Script[6][1] = Act("handler", "default") /\ Script[6][2] = Act("raiseint", 35)
BY DEF Script, tf1, tf3, tf4, tf5, tf6

LEMMA Script2 ==
  /\ \A k \in 1..Many : Script[2][k] = Act("raise", 99 + k)
  /\ Script[2][Many + 1] = Act("expect", Many)
  /\ Script[2][Many + 2] = Act("clean", 0)
  /\ Script[2][Many + 3] = Act("return", "MANUAL")
<1> DEFINE raises2 == [k \in 1..Many |-> Act("raise", 99 + k)]
           rest2 == <<Act("expect", Many), Act("clean", 0), Act("return", "MANUAL")>>
<1>1. Many \in Nat BY ErrorProgramAssumption
<1>2. Script[2] = raises2 \o rest2 BY DEF Script, tf2
<1>3. PICK T : T = {Act("raise", 99 + k) : k \in 1..Many}
                   \union {Act("expect", Many), Act("clean", 0), Act("return", "MANUAL")}
  OBVIOUS
<1>4. raises2 \in Seq(T) /\ rest2 \in Seq(T) /\ Len(raises2) = Many /\ Len(rest2) = 3
  BY <1>1, <1>3
<1>5. /\ rest2[1] = Act("expect", Many) /\ rest2[2] = Act("clean", 0)
      /\ rest2[3] = Act("return", "MANUAL")
  OBVIOUS
<1>6. \A k \in 1..Many : raises2[k] = Act("raise", 99 + k) OBVIOUS
<1> HIDE DEF raises2, rest2
<1>7. \A k \in 1..(Many + 3) :
        Script[2][k] = IF k <= Many THEN raises2[k] ELSE rest2[k - Many]
  <2>1. \A k \in 1..(Len(raises2) + Len(rest2)) :
          (raises2 \o rest2)[k] = IF k <= Len(raises2) THEN raises2[k] ELSE rest2[k - Len(raises2)]
    BY <1>4, ConcatProperties, Zenon
  <2>2. QED BY <1>2, <1>4, <2>1, Zenon
<1>8. \A k \in 1..Many : Script[2][k] = Act("raise", 99 + k)
  <2>1. \A k \in 1..Many : k \in 1..(Many + 3) /\ k <= Many BY <1>1
  <2>2. QED BY <1>6, <1>7, <2>1, Zenon
<1>9. ASSUME NEW k \in {1, 2, 3} PROVE Script[2][Many + k] = rest2[k]
  <2> DEFINE m == Many + k
  <2>1. m \in 1..(Many + 3) /\ ~(m <= Many) /\ m - Many = k BY <1>1
  <2> HIDE DEF m
  <2>2. Script[2][m] = rest2[m - Many] BY <1>7, <2>1, Zenon
  <2>3. Script[2][m] = rest2[k] BY <2>1, <2>2, Zenon
  <2>4. QED BY <2>3 DEF m
<1>10. QED BY <1>5, <1>8, <1>9

(* One step of a test: what it leaves, by the operation it is at.  A step    *)
(* that changes nothing of this is one of the whole program, or the end of   *)
(* the memory.                                                               *)
Stay == UNCHANGED <<vars, stack, alloc, heap, test>>
Within == pc' = "body" /\ UNCHANGED <<engine, runs, blocked>>
Failing == /\ pc' = "finish" /\ st' = "FAILED" /\ Empty' /\ UNCHANGED <<engine, runs, blocked, caught>>
Body == pc = "body" /\ StackInv /\ Buffer /\ [PNext]_pvars /\ ~Stay
Step(a, n) == Body /\ Current = Act(a, n)

(* The action is that of the operation. *)
LEMMA OneAction ==
  ASSUME NEW a, NEW n, Step(a, n)
  PROVE  /\ Current.op = a /\ Current.n = n
         /\ \/ a = "raise" /\ RaiseError
            \/ a = "sysraise" /\ RaiseSystem
            \/ a = "raiseint" /\ RaiseSignal
            \/ a = "clean" /\ CleanErrors
            \/ a = "handler" /\ InstallHandler
            \/ a = "mark" /\ Mark
            \/ a = "try" /\ NestedTry
            \/ a = "trace" /\ PrintTrace
            \/ a \in {"expect", "grown", "top", "caught", "fail"} /\ (CheckHolds \/ CheckFails)
            \/ a = "return" /\ ReturnStatus
<1> USE DEF Step, Body
<1>1. Current.op = a /\ Current.n = n BY Operations DEF Step
<1>2. ~Engine
  BY DEF Step, Engine, Sort, Refuse, Begin, SkipInactive, SkipDependent, Launch, RunAgain,
         RunsDone, Finish, End
<1>3. ~UNCHANGED pvars BY DEF Stay, pvars, errors
<1>4. ~RunOutOfMemory BY DEF Stay, RunOutOfMemory, Exhausted
<1>5. PNext BY <1>3 DEF Step
<1>6. \A b : Doing(b) => b = a BY <1>1 DEF Doing
<1>7. QED
  BY <1>1, <1>2, <1>4, <1>5, <1>6
  DEF PNext, RaiseError, RaiseSystem, RaiseSignal, CleanErrors, InstallHandler, Mark, NestedTry,
      PrintTrace, CheckHolds, CheckFails, ReturnStatus, Checking

(* The stack after err_put: one more, and the last one on top. *)
LEMMA PutTop ==
  ASSUME NEW t, NEW c, StackInv, Put([type |-> t, code |-> c])
  PROVE  Height \in Nat /\ Height' = Height + 1 /\ Top' = c
<1> DEFINE e == [type |-> t, code |-> c]
<1>1. PICK T : stack \in Seq(T) BY DEF StackInv, StackTypes
<1>2. Height \in Nat BY <1>1 DEF Height
<1>3. Carried \in Seq(T \union {Junk}) /\ Len(Carried) = Height BY <1>1 DEF Carried, Height
<1>4. stack' = Append(Carried, e) BY DEF Put
<1>5. Len(stack') = Height + 1 /\ stack'[Height + 1] = e BY <1>2, <1>3, <1>4
<1>6. e.code = c OBVIOUS
<1>7. QED BY <1>2, <1>5, <1>6 DEF Height, Top

LEMMA EmptyHeight == Empty => Height = 0
BY DEF Empty, Height
LEMMA DoesRaise ==
  ASSUME NEW n, Step("raise", n)
  PROVE  /\ Within /\ Go /\ Height \in Nat /\ Height' = Height + 1 /\ Top' = n
         /\ UNCHANGED <<errcount, caught, handler>>
<1>1. RaiseError /\ Current.n = n BY OneAction
<1>2. Put([type |-> "ERR_USER", code |-> n]) BY <1>1 DEF RaiseError, EntryOf
<1>3. Height \in Nat /\ Height' = Height + 1 /\ Top' = n BY <1>2, PutTop DEF Step, Body
<1>4. QED BY <1>1, <1>3 DEF RaiseError, Within, vars, Step, Body

LEMMA DoesSysRaise ==
  ASSUME NEW n, Step("sysraise", n)
  PROVE  /\ Within /\ Go /\ Height \in Nat
         /\ \/ Opened /\ Height' = Height
            \/ Unopened /\ Height' = Height + 1
<1>1. RaiseSystem BY OneAction
<1>2. PICK opened \in Opens : IF opened THEN UNCHANGED errors ELSE Put(EntryOf("sysraise", 0))
  BY <1>1 DEF RaiseSystem
<1>3. opened \in BOOLEAN BY ErrorProgramAssumption
<1>4. Height \in Nat BY DEF Step, Body, StackInv, StackTypes, Height
<1>5. ASSUME opened PROVE Opened /\ Height' = Height
  <2>1. opened = TRUE BY <1>3, <1>5, Zenon
  <2>2. Opened BY <2>1, Zenon DEF Opened
  <2>3. QED BY <1>2, <1>5, <2>2 DEF errors, Height
<1>6. ASSUME ~opened PROVE Unopened /\ Height' = Height + 1
  <2>0. opened = FALSE BY <1>3, <1>6, Zenon
  <2>1. Put([type |-> "ERR_USER", code |-> 0]) BY <1>2, <1>6 DEF EntryOf
  <2>2. Height' = Height + 1 BY <2>1, PutTop DEF Step, Body
  <2>3. Unopened BY <2>0, Zenon DEF Unopened
  <2>4. QED BY <2>2, <2>3
<1>7. Within /\ Go BY <1>1 DEF RaiseSystem, Within, vars, Step, Body
<1>8. QED BY <1>4, <1>5, <1>6, <1>7, Zenon

(* The signal caught by the test's own handler, and the one that jumps.      *)
LEMMA DoesSignal ==
  ASSUME NEW n, Step("raiseint", n), ~blocked, handler = "other"
  PROVE  Within /\ Go /\ caught' = caught + 1 /\ UNCHANGED handler
<1>1. RaiseSignal /\ point = "launcher" BY OneAction DEF Step, Body, Buffer
<1>2. ~Jumps BY DEF Jumps
<1>3. RaiseReturns /\ Go /\ caught' = caught + 1 BY <1>1, <1>2 DEF RaiseSignal, Raise
<1>4. QED BY <1>3 DEF RaiseReturns, Within, Step, Body, Raising

LEMMA DoesJump ==
  ASSUME NEW n, Step("raiseint", n), ~blocked, handler = "default"
  PROVE  pc' = "finish" /\ st' = "EXCEPTION" /\ UNCHANGED <<engine, runs, caught>>
<1>1. RaiseSignal /\ point = "launcher" /\ initFlag BY OneAction DEF Step, Body, Buffer
<1>2. Jumps BY <1>1 DEF Jumps
<1>3. Raise /\ caught' = caught BY <1>1, <1>2 DEF RaiseSignal, RaiseReturns
<1>4. QED BY <1>3 DEF Raise

LEMMA DoesClean ==
  ASSUME NEW n, Step("clean", n) PROVE Within /\ Go /\ Empty' /\ UNCHANGED <<caught, handler>>
<1>1. CleanErrors BY OneAction
<1>2. QED BY <1>1 DEF CleanErrors, Clean, Empty, Within, vars, Step, Body

LEMMA DoesInstall ==
  ASSUME NEW n, Step("handler", n)
  PROVE  Within /\ Go /\ handler' = n /\ UNCHANGED <<stack, alloc, heap, caught>>
<1>1. InstallHandler /\ Current.n = n BY OneAction
<1>2. QED BY <1>1 DEF InstallHandler, SetHandler, errors, Within, Step, Body

LEMMA DoesMark ==
  ASSUME NEW n, Step("mark", n)
  PROVE  Within /\ Go /\ errcount' = Height /\ Height' = Height
<1>1. Mark BY OneAction
<1>2. QED BY <1>1 DEF Mark, errors, Within, vars, Height, Step, Body

LEMMA DoesTry ==
  ASSUME NEW n, Step("try", n) PROVE Within /\ at' = n /\ UNCHANGED <<stack, alloc, heap, caught>>
<1>1. NestedTry /\ Current.n = n /\ initFlag BY OneAction DEF Step, Body, Buffer
<1>2. QED BY <1>1 DEF NestedTry, errors, Within, vars, Step, Body

(* The step of a trace that does not crash. *)
LEMMA DoesTrace ==
  ASSUME NEW n, Step("trace", n)
  PROVE  Within /\ Go /\ UNCHANGED <<stack, alloc, heap, caught>>
<1>1. PrintTrace BY OneAction
<1>2. ~UNCHANGED <<vars, stack, alloc, heap, test>> BY DEF Step, Body, Stay
<1>3. logUp BY <1>1, <1>2 DEF PrintTrace, test
<1>4. QED BY <1>1, <1>3 DEF PrintTrace, errors, Within, vars, Step, Body

Checked == Within /\ Go /\ Height' = Height /\ Top' = Top /\ UNCHANGED <<errcount, caught, handler>>

LEMMA DoesCheck ==
  ASSUME NEW a \in {"expect", "grown", "top", "caught"}, NEW n, Step(a, n)
  PROVE  /\ a = "expect" => IF Height = n THEN Checked ELSE Failing
         /\ a = "grown" => IF Height = errcount + n THEN Checked ELSE Failing
         /\ a = "top" => IF Top = n THEN Checked ELSE Failing
         /\ a = "caught" => IF caught = n THEN Checked ELSE Failing
<1>1. (CheckHolds \/ CheckFails) /\ Current.op = a /\ Current.n = n BY OneAction
<1>2. /\ a = "expect" => (Checks <=> Height = n)
      /\ a = "grown" => (Checks <=> Height = errcount + n)
      /\ a = "top" => (Checks <=> Top = n)
      /\ a = "caught" => (Checks <=> caught = n)
  BY <1>1 DEF Checks, Height, Top
<1>3. ASSUME CheckHolds PROVE Checks /\ Checked
  BY <1>3 DEF CheckHolds, Checked, Within, vars, errors, Height, Top, Step, Body
<1>4. ASSUME CheckFails PROVE ~Checks /\ Failing
  BY <1>4 DEF CheckFails, Return, Passed, Clean, Empty, Failing, test
<1>5. QED BY <1>1, <1>2, <1>3, <1>4

Returning ==
  /\ pc' = "run" /\ UNCHANGED <<engine, runs, blocked, caught, stack, alloc, heap>>

LEMMA DoesReturn ==
  ASSUME NEW n \in {"MANUAL", "PASSED"}, Step("return", n) PROVE Returning /\ st' = n
<1>1. ReturnStatus /\ Current.n = n BY OneAction
<1>2. QED BY <1>1 DEF ReturnStatus, Return, Passed, Returning, errors, test
-----------------------------------------------------------------------------
(* The tests one by one: a step of a test leads to its next line, or out of  *)
(* it with what the engine is to record.                                     *)
LEMMA Test1 ==
  ASSUME Body, Test.num = 1, Line1
  PROVE  (Within /\ Line1' /\ UNCHANGED caught) \/ (Returning /\ Empty /\ st' = "MANUAL")
<1> USE DEF Line1, Go
<1>1. CASE at = 1 /\ Empty
  <2>1. Step("raise", 10) BY <1>1, Scripts DEF Step, Current
  <2>2. QED BY <1>1, <2>1, DoesRaise, EmptyHeight
<1>2. CASE at = 2 /\ Height = 1
  <2>1. Step("expect", 1) BY <1>2, Scripts DEF Step, Current
  <2>2. QED BY <1>2, <2>1, DoesCheck DEF Checked
<1>3. CASE at = 3
  <2>1. Step("clean", 0) BY <1>3, Scripts DEF Step, Current
  <2>2. QED BY <1>3, <2>1, DoesClean
<1>4. CASE at = 4 /\ Empty
  <2>1. Step("return", "MANUAL") BY <1>4, Scripts DEF Step, Current
  <2>2. QED BY <1>4, <2>1, DoesReturn
<1>5. QED BY <1>1, <1>2, <1>3, <1>4

LEMMA Test2 ==
  ASSUME Body, Test.num = 2, Line2
  PROVE  (Within /\ Line2' /\ UNCHANGED caught) \/ (Returning /\ Empty /\ st' = "MANUAL")
<1> USE DEF Line2, Go
<1>0. Many \in Nat BY ErrorProgramAssumption
<1>1. CASE at \in 1..(Many + 1) /\ Height = at - 1
  <2>1. CASE at \in 1..Many
    <3>1. Step("raise", 99 + at) BY <1>1, <2>1, Script2 DEF Step, Current
    <3>2. Within /\ at' = at + 1 /\ Height' = Height + 1 /\ UNCHANGED caught BY <3>1, DoesRaise
    <3>3. at' \in 1..(Many + 1) /\ Height' = at' - 1 BY <1>0, <1>1, <2>1, <3>2
    <3>4. QED BY <3>2, <3>3
  <2>2. CASE at = Many + 1
    <3>1. Step("expect", Many) BY <2>2, Script2 DEF Step, Current
    <3>2. Height = Many BY <1>0, <1>1, <2>2
    <3>3. Within /\ at' = at + 1 /\ UNCHANGED caught BY <3>1, <3>2, DoesCheck DEF Checked
    <3>4. at' = Many + 2 BY <1>0, <2>2, <3>3
    <3>5. QED BY <3>3, <3>4
  <2>3. QED BY <1>0, <1>1, <2>1, <2>2
<1>2. CASE at = Many + 2
  <2>1. Step("clean", 0) BY <1>2, Script2 DEF Step, Current
  <2>2. Within /\ at' = at + 1 /\ Empty' /\ UNCHANGED caught BY <2>1, DoesClean
  <2>3. at' = Many + 3 BY <1>0, <1>2, <2>2
  <2>4. QED BY <2>2, <2>3
<1>3. CASE at = Many + 3 /\ Empty
  <2>1. Step("return", "MANUAL") BY <1>3, Script2 DEF Step, Current
  <2>2. QED BY <1>3, <2>1, DoesReturn
<1>4. CASE at = 1 /\ Empty BY <1>0, <1>1, <1>4, EmptyHeight
<1>5. QED BY <1>1, <1>2, <1>3, <1>4

(* tf3 passes in its first run and fails in its second, for the count of     *)
(* signals goes on.                                                          *)
LEMMA Test3 ==
  ASSUME Body, Test.num = 3, Line3, ~blocked, runs \in Nat, Test.count \in Nat, runs < Test.count
  PROVE  \/ Within /\ Line3'
         \/ Returning /\ Empty /\ st' = "PASSED" /\ caught = 1 /\ caught = Test.count - runs
         \/ Failing /\ Test.count # 1
<1> USE DEF Line3, Go
<1>0. Within => Test' = Test /\ runs' = runs BY DEF Within, engine, Test
<1>1. CASE at = 1 /\ Empty /\ caught = Test.count - runs - 1 /\ caught <= 1
  <2>1. Step("handler", "other") BY <1>1, Scripts DEF Step, Current
  <2>2. QED BY <1>0, <1>1, <2>1, DoesInstall
<1>2. CASE at = 2 /\ handler = "other" /\ caught = Test.count - runs - 1 /\ caught <= 1
  <2>1. Step("raiseint", 15) BY <1>2, Scripts DEF Step, Current
  <2>2. Within /\ at' = 3 /\ caught' = caught + 1 BY <1>2, <2>1, DoesSignal
  <2>3. caught' \in 0..2 /\ caught' = Test.count - runs BY <1>2, <2>2
  <2>4. QED BY <1>0, <2>2, <2>3
<1>3. CASE at = 3 /\ caught = Test.count - runs
  <2>1. Step("caught", 1) BY <1>3, Scripts DEF Step, Current
  <2>2. IF caught = 1 THEN Checked ELSE Failing BY <2>1, DoesCheck
  <2>3. CASE caught = 1 BY <1>0, <1>3, <2>2, <2>3 DEF Checked
  <2>4. CASE caught # 1
    <3>1. Test.count # 1 BY <1>3, <2>4
    <3>2. QED BY <2>2, <2>4, <3>1
  <2>5. QED BY <2>3, <2>4
<1>4. CASE at = 4 /\ caught = 1 /\ caught = Test.count - runs
  <2>1. Step("clean", 0) BY <1>4, Scripts DEF Step, Current
  <2>2. QED BY <1>0, <1>4, <2>1, DoesClean
<1>5. CASE at = 5 /\ caught = 1 /\ caught = Test.count - runs /\ Empty
  <2>1. Step("return", "PASSED") BY <1>5, Scripts DEF Step, Current
  <2>2. QED BY <1>5, <2>1, DoesReturn
<1>6. QED BY <1>1, <1>2, <1>3, <1>4, <1>5
LEMMA Test4 ==
  ASSUME Body, Test.num = 4, Line4
  PROVE  \/ Within /\ Line4'
         \/ Returning /\ Empty /\ st' = "PASSED" /\ Unopened
         \/ Failing /\ Opened
<1> USE DEF Line4, Go
<1>1. CASE at = 1 /\ Empty
  <2>1. Step("sysraise", 0) BY <1>1, Scripts DEF Step, Current
  <2>2. QED BY <1>1, <2>1, DoesSysRaise, EmptyHeight
<1>2. CASE at = 2 /\ ((Height = 0 /\ Opened) \/ (Height = 1 /\ Unopened))
  <2>1. Step("expect", 1) BY <1>2, Scripts DEF Step, Current
  <2>2. IF Height = 1 THEN Checked ELSE Failing BY <2>1, DoesCheck
  <2>3. CASE Height = 1 BY <1>2, <2>2, <2>3 DEF Checked
  <2>4. CASE Height # 1 BY <1>2, <2>2, <2>4
  <2>5. QED BY <2>3, <2>4
<1>3. CASE at = 3 /\ Unopened
  <2>1. Step("clean", 0) BY <1>3, Scripts DEF Step, Current
  <2>2. QED BY <1>3, <2>1, DoesClean
<1>4. CASE at = 4 /\ Unopened /\ Empty
  <2>1. Step("return", "PASSED") BY <1>4, Scripts DEF Step, Current
  <2>2. QED BY <1>4, <2>1, DoesReturn
<1>5. QED BY <1>1, <1>2, <1>3, <1>4

LEMMA Test5 ==
  ASSUME Body, Test.num = 5, Line5
  PROVE  (Within /\ Line5') \/ (Returning /\ Empty /\ st' = "PASSED")
<1> USE DEF Line5, Go
<1>1. CASE at = 1 /\ Empty
  <2>1. Step("mark", 0) BY <1>1, Scripts DEF Step, Current
  <2>2. QED BY <1>1, <2>1, DoesMark, EmptyHeight
<1>2. CASE at = 2 /\ Height = 0 /\ errcount = 0
  <2>1. Step("raise", 30) BY <1>2, Scripts DEF Step, Current
  <2>2. QED BY <1>2, <2>1, DoesRaise
<1>3. CASE at = 3 /\ Height = 1 /\ errcount = 0 /\ Top = 30
  <2>1. Step("grown", 1) BY <1>3, Scripts DEF Step, Current
  <2>2. QED BY <1>3, <2>1, DoesCheck DEF Checked
<1>4. CASE at = 4 /\ Height = 1 /\ errcount = 0 /\ Top = 30
  <2>1. Step("top", 30) BY <1>4, Scripts DEF Step, Current
  <2>2. QED BY <1>4, <2>1, DoesCheck DEF Checked
<1>5. CASE at = 5 /\ Height = 1
  <2>1. Step("mark", 0) BY <1>5, Scripts DEF Step, Current
  <2>2. QED BY <1>5, <2>1, DoesMark
<1>6. CASE at = 6 /\ Height = 1 /\ errcount = 1
  <2>1. Step("raise", 40) BY <1>6, Scripts DEF Step, Current
  <2>2. QED BY <1>6, <2>1, DoesRaise
<1>7. CASE at = 7 /\ Height = 2 /\ errcount = 1 /\ Top = 40
  <2>1. Step("grown", 1) BY <1>7, Scripts DEF Step, Current
  <2>2. QED BY <1>7, <2>1, DoesCheck DEF Checked
<1>8. CASE at = 8 /\ Height = 2 /\ errcount = 1 /\ Top = 40
  <2>1. Step("top", 40) BY <1>8, Scripts DEF Step, Current
  <2>2. QED BY <1>8, <2>1, DoesCheck DEF Checked
<1>9. CASE at = 9
  <2>1. Step("clean", 0) BY <1>9, Scripts DEF Step, Current
  <2>2. QED BY <1>9, <2>1, DoesClean
<1>10. CASE at = 10 /\ Empty
  <2>1. Step("return", "PASSED") BY <1>10, Scripts DEF Step, Current
  <2>2. QED BY <1>10, <2>1, DoesReturn
<1>11. QED BY <1>1, <1>2, <1>3, <1>4, <1>5, <1>6, <1>7, <1>8, <1>9, <1>10

LEMMA Test6 ==
  ASSUME Body, Test.num = 6, Line6, ~blocked
  PROVE  \/ Within /\ Line6'
         \/ pc' = "finish" /\ st' = "EXCEPTION" /\ UNCHANGED <<engine, runs, caught>>
<1> USE DEF Line6, Go
<1>1. CASE at = 1
  <2>1. Step("handler", "default") BY <1>1, Scripts DEF Step, Current
  <2>2. QED BY <1>1, <2>1, DoesInstall
<1>2. CASE at = 2 /\ handler = "default"
  <2>1. Step("raiseint", 35) BY <1>2, Scripts DEF Step, Current
  <2>2. QED BY <1>2, <2>1, DoesJump
<1>3. QED BY <1>1, <1>2

LEMMA Test7 ==
  ASSUME Body, Test.num = 7, Line7
  PROVE  (Within /\ Line7') \/ (Returning /\ Quiet /\ st' = "PASSED")
<1> USE DEF Line7, Go
<1>0. ASSUME Within, UNCHANGED <<stack, alloc, heap>> \/ Empty' PROVE Quiet'
  BY <1>0 DEF Within, Quiet, Empty, Thrown, Cnt, engine
<1>1. CASE at = 1
  <2>1. Step("handler", "default") BY <1>1, Script7 DEF Step, Current
  <2>2. QED BY <1>0, <1>1, <2>1, DoesInstall
<1>2. CASE at = 2
  <2>1. Step("try", 5) BY <1>2, Script7 DEF Step, Current
  <2>2. QED BY <1>0, <1>2, <2>1, DoesTry
<1>3. CASE at = 5
  <2>1. Step("trace", 0) BY <1>3, Script7 DEF Step, Current
  <2>2. QED BY <1>0, <1>3, <2>1, DoesTrace
<1>4. CASE at = 6
  <2>1. Step("clean", 0) BY <1>4, Script7 DEF Step, Current
  <2>2. QED BY <1>0, <1>4, <2>1, DoesClean
<1>5. CASE at = 7
  <2>1. Step("return", "PASSED") BY <1>5, Script7 DEF Step, Current
  <2>2. QED BY <1>5, <2>1, DoesReturn
<1>6. QED BY <1>1, <1>2, <1>3, <1>4, <1>5
-----------------------------------------------------------------------------
(* A test that is looked at has one of the numbers, and only after tf6 there *)
(* is an exception on record.                                                *)
LEMMA RunningNumber ==
  ASSUME TypeOK, Control, Numbered, InTest \/ i <= Cnt
  PROVE  i \in 1..Cnt /\ Cnt \in Nat /\ Test.num \in 1..7 /\ Test.deps = {} /\ Test.count \in Nat
<1>1. i <= Cnt BY DEF Control
<1>2. i \in 1..Cnt /\ Cnt \in Nat /\ Test.count \in Nat BY <1>1, TestTypes
<1>3. QED BY <1>2 DEF Numbered, Test

LEMMA OnlySix ==
  ASSUME Numbered, NEW j \in 1..Cnt, "EXCEPTION" \in Outcomes(tests[j]) PROVE tests[j].num = 6
<1>1. tests[j].num \in 1..7 BY DEF Numbered
<1>2. QED BY <1>1, ErrorProgramAssumption DEF Outcomes

LEMMA NotThrown ==
  ASSUME TypeOK, Control, Ordered, Numbered, Recorded, i <= Cnt, pc # "done", Test.num # 7
  PROVE  ~Thrown
<1> SUFFICES ASSUME NEW j \in 1..Cnt, status[j] = "EXCEPTION" PROVE FALSE BY DEF Thrown
<1>1. i \in 1..Cnt /\ Cnt \in Nat /\ Test.num \in 1..7 BY RunningNumber
<1>2. j < i BY <1>1 DEF Ordered
<1>3. tests[j].num = 6 BY OnlySix DEF Recorded
<1>4. tests[j].num < Test.num BY <1>1, <1>2 DEF Numbered
<1>5. QED BY <1>1, <1>3, <1>4

(* The handlers a test installs. *)
LEMMA Installed ==
  ASSUME Lines, Test.num \in 1..7, Doing("handler")
  PROVE  Current.n \in {"other", "default"}
<1>0. Current = Script[Test.num][at] /\ Current.op = "handler" BY DEF Current, Doing
<1>1. CASE Test.num = 1 BY <1>0, <1>1, Scripts, Operations DEF Lines, Line1
<1>2. CASE Test.num = 2
  <2>1. Many \in Nat BY ErrorProgramAssumption
  <2>2. at \in 1..Many \/ at = Many + 1 \/ at = Many + 2 \/ at = Many + 3
    BY <1>2, <2>1 DEF Lines, Line2
  <2>3. QED BY <1>0, <1>2, <2>2, Script2, Operations
<1>3. CASE Test.num = 3 BY <1>0, <1>3, Scripts, Operations DEF Lines, Line3
<1>4. CASE Test.num = 4 BY <1>0, <1>4, Scripts, Operations DEF Lines, Line4
<1>5. CASE Test.num = 5 BY <1>0, <1>5, Scripts, Operations DEF Lines, Line5
<1>6. CASE Test.num = 6 BY <1>0, <1>6, Scripts, Operations DEF Lines, Line6
<1>7. CASE Test.num = 7 BY <1>0, <1>7, Script7, Operations DEF Lines, Line7
<1>8. QED BY <1>1, <1>2, <1>3, <1>4, <1>5, <1>6, <1>7

(* The test program is a program of the test engine: whatever its tests do   *)
(* to the engine, TestEngine allows a test to do.                            *)
LEMMA EngineStep == ASSUME ProgramInv, [PNext]_pvars PROVE [Next]_vars
<1> USE DEF ProgramInv, TestsInv
<1>1. CASE Engine BY <1>1 DEF Engine, Next
<1>2. CASE \/ RaiseError \/ RaiseSystem \/ RunOutOfMemory \/ CleanErrors \/ Mark
          \/ PrintTrace \/ CheckHolds
  BY <1>2 DEF RaiseError, RaiseSystem, RunOutOfMemory, CleanErrors, Mark, PrintTrace, CheckHolds
<1>3. CASE RaiseSignal BY <1>3 DEF RaiseSignal, Buffer, Next
<1>4. CASE InstallHandler
  <2>1. SetHandler(Current.n) /\ Doing("handler") /\ pc = "body"
    BY <1>4 DEF InstallHandler, Doing
  <2>2. Lines /\ Test.num \in 1..7 BY <2>1, RunningNumber DEF AtBody, InTest
  <2>3. Current.n \in Handlers \union {"default"}
    BY <2>1, <2>2, Installed, ErrorProgramAssumption
  <2>4. QED BY <2>1, <2>3 DEF Next
<1>5. CASE NestedTry BY <1>5 DEF NestedTry, Doing, Buffer
<1>6. CASE CheckFails \/ ReturnStatus
  <2>1. \E s : Return(s) BY <1>6 DEF CheckFails, ReturnStatus
  <2>2. \E s \in Returned : Return(s) BY <2>1 DEF Return
  <2>3. QED BY <2>2 DEF Next
<1>7. CASE UNCHANGED pvars BY <1>7 DEF pvars
<1>8. QED BY <1>1, <1>2, <1>3, <1>4, <1>5, <1>6, <1>7 DEF PNext
-----------------------------------------------------------------------------
(* What a step of a test leaves as it was. *)
LEMMA SameTests ==
  ASSUME UNCHANGED engine, TestsInv, pc \notin {"start", "sort", "done"},
         pc' \notin {"start", "sort", "done"}
  PROVE  Test' = Test /\ Cnt' = Cnt /\ Thrown' = Thrown /\ i' = i /\ Numbered' /\ Recorded'
<1>1. UNCHANGED <<tests, status, i>> BY DEF engine
<1>2. Test' = Test /\ Cnt' = Cnt BY <1>1 DEF Test, Cnt
<1>3. Thrown' = Thrown BY <1>1, <1>2 DEF Thrown
<1>4. Numbered' BY <1>1, <1>2 DEF TestsInv, Numbered, Duplicate
<1>5. Recorded' BY <1>1, <1>2 DEF TestsInv, Recorded
<1>6. QED BY <1>1, <1>2, <1>3, <1>4, <1>5

LEMMA StayKeeps == ASSUME TestsInv, Stay PROVE TestsInv'
<1>1. /\ UNCHANGED <<pc, tests, status, i, runs, st, handler, blocked, stack, alloc, heap, at,
                     errcount, caught>>
  BY DEF Stay, vars, engine, test
<1>2. UNCHANGED <<Test, Cnt, Empty, Height, Top, InTest>> BY <1>1 DEF Test, Cnt, Empty, Height, Top, InTest
<1>3. UNCHANGED <<Thrown, Quiet>> BY <1>1, <1>2 DEF Thrown, Quiet
<1>4. Lines' = Lines
  BY <1>1, <1>2, <1>3 DEF Lines, Line1, Line2, Line3, Line4, Line5, Line6, Line7
<1>5. Numbered' /\ Recorded' BY <1>1, <1>2 DEF TestsInv, Numbered, Recorded, Duplicate
<1>6. (Between /\ AtRun /\ AtFinish)' BY <1>1, <1>2, <1>3 DEF TestsInv, Between, AtRun, AtFinish
<1>7. AtBody' BY <1>1, <1>2, <1>3, <1>4 DEF TestsInv, AtBody
<1>8. NotCaught' BY <1>1, <1>2 DEF TestsInv, NotCaught
<1>9. QED BY <1>5, <1>6, <1>7, <1>8 DEF TestsInv

(* The ways a step of a test can go: on, back to launcher's loop, or out of  *)
(* it.                                                                       *)
LEMMA GoesOn ==
  ASSUME ProgramInv, pc = "body", Within, Lines', Test.num < 3 => UNCHANGED caught
  PROVE  TestsInv'
<1> USE DEF ProgramInv
<1>0. i \in 1..Cnt /\ Test.num \in 1..7 BY RunningNumber DEF TestsInv, InTest
<1>1. UNCHANGED <<engine, runs, blocked>> /\ pc' = "body" BY DEF Within
<1>2. Test' = Test /\ Cnt' = Cnt /\ Thrown' = Thrown /\ i' = i /\ Numbered' /\ Recorded'
  BY <1>1, SameTests
<1>3. AtBody' BY <1>1, <1>2 DEF TestsInv, AtBody
<1>4. NotCaught' BY <1>0, <1>1, <1>2 DEF TestsInv, NotCaught, InTest
<1>5. QED BY <1>1, <1>2, <1>3, <1>4 DEF TestsInv, Between, AtRun, AtFinish

LEMMA GoesBack ==
  ASSUME ProgramInv, pc = "body", Returning, Quiet,
         IF Test.num = 3 THEN st' = "PASSED" /\ caught = 1 /\ caught = Test.count - runs
                         ELSE st' \in Outcomes(Test)
  PROVE  TestsInv'
<1> USE DEF ProgramInv
<1>0. i \in 1..Cnt /\ Test.num \in 1..7 /\ Test.count \in Nat /\ runs \in Nat /\ runs < Test.count
  BY RunningNumber DEF TestsInv, InTest, AtBody, TypeOK
<1>1. UNCHANGED <<engine, runs, blocked, caught, stack, alloc, heap>> /\ pc' = "run"
  BY DEF Returning
<1>2. Test' = Test /\ Cnt' = Cnt /\ Thrown' = Thrown /\ i' = i /\ Numbered' /\ Recorded'
  BY <1>1, SameTests
<1>3. Quiet' BY <1>1, <1>2 DEF Quiet, Empty
<1>4. Outcomes(Test)' = Outcomes(Test) BY <1>2 DEF Outcomes
<1>5. AtRun' BY <1>0, <1>1, <1>2, <1>3, <1>4 DEF AtRun
<1>6. NotCaught' BY <1>0, <1>1, <1>2 DEF TestsInv, NotCaught, InTest
<1>7. QED BY <1>1, <1>2, <1>5, <1>6 DEF TestsInv, Between, AtBody, AtFinish

LEMMA GoesOut ==
  ASSUME ProgramInv, pc = "body", pc' = "finish", UNCHANGED <<engine, runs, caught>>,
         st' \in Outcomes(Test), st' = "EXCEPTION" \/ (Empty' /\ UNCHANGED blocked),
         Test.num # 7
  PROVE  TestsInv'
<1> USE DEF ProgramInv
<1>0. i \in 1..Cnt /\ Test.num \in 1..7 BY RunningNumber DEF TestsInv, InTest
<1>2. Test' = Test /\ Cnt' = Cnt /\ Thrown' = Thrown /\ i' = i /\ Numbered' /\ Recorded'
  BY SameTests
<1>3. st' = "EXCEPTION" \/ Quiet' BY DEF TestsInv, AtBody, Quiet
<1>4. Outcomes(Test)' = Outcomes(Test) BY <1>2 DEF Outcomes
<1>5. AtFinish' BY <1>3, <1>4 DEF AtFinish
<1>6. NotCaught' BY <1>0, <1>2 DEF TestsInv, NotCaught, InTest
<1>7. QED BY <1>2, <1>5, <1>6 DEF TestsInv, Between, AtBody, AtRun
LEMMA BodyStep == ASSUME ProgramInv, pc = "body", [PNext]_pvars PROVE TestsInv'
<1>0. /\ TypeOK /\ Control /\ StackInv /\ Buffer /\ TestsInv /\ AtBody /\ runs < Test.count /\ Lines
      /\ (Test.num # 7 => ~Thrown /\ ~blocked) /\ runs \in Nat
  BY DEF ProgramInv, TestsInv, AtBody, TypeOK
<1>1. Test.num \in 1..7 /\ Test.count \in Nat BY <1>0, RunningNumber DEF TestsInv, InTest
<1>2. CASE Stay BY <1>0, <1>2, StayKeeps
<1>3. CASE ~Stay
  <2>0. Body BY <1>0, <1>3 DEF Body
  <2>1. ASSUME Within PROVE Test' = Test BY <2>1 DEF Within, engine, Test
  <2>2. ASSUME Failing PROVE UNCHANGED blocked /\ pc' = "finish" /\ Empty' BY <2>2 DEF Failing
  <2>3. ASSUME Failing, "FAILED" \in Outcomes(Test), Test.num # 7 PROVE TestsInv'
    BY <2>2, <2>3, GoesOut DEF Failing
  <2>4. Test.num # 7 /\ Empty => Quiet BY <1>0 DEF Quiet
  <2>5. CASE Test.num = 1
    <3>1. (Within /\ Line1' /\ UNCHANGED caught) \/ (Returning /\ Empty /\ st' = "MANUAL")
      BY <1>0, <2>0, <2>5, Test1 DEF Lines
    <3>2. CASE Within /\ Line1' /\ UNCHANGED caught
      <4>1. Lines' BY <2>1, <2>5, <3>2 DEF Lines
      <4>2. QED BY <1>0, <3>2, <4>1, GoesOn
    <3>3. CASE Returning /\ Empty /\ st' = "MANUAL"
      <4>1. st' \in Outcomes(Test) BY <2>5, <3>3 DEF Outcomes
      <4>2. QED BY <1>0, <2>4, <2>5, <3>3, <4>1, GoesBack
    <3>4. QED BY <3>1, <3>2, <3>3
  <2>6. CASE Test.num = 2
    <3>1. (Within /\ Line2' /\ UNCHANGED caught) \/ (Returning /\ Empty /\ st' = "MANUAL")
      BY <1>0, <2>0, <2>6, Test2 DEF Lines
    <3>2. CASE Within /\ Line2' /\ UNCHANGED caught
      <4>1. Lines' BY <2>1, <2>6, <3>2 DEF Lines
      <4>2. QED BY <1>0, <3>2, <4>1, GoesOn
    <3>3. CASE Returning /\ Empty /\ st' = "MANUAL"
      <4>1. st' \in Outcomes(Test) BY <2>6, <3>3 DEF Outcomes
      <4>2. QED BY <1>0, <2>4, <2>6, <3>3, <4>1, GoesBack
    <3>4. QED BY <3>1, <3>2, <3>3
  <2>7. CASE Test.num = 3
    <3>1. \/ Within /\ Line3'
          \/ Returning /\ Empty /\ st' = "PASSED" /\ caught = 1 /\ caught = Test.count - runs
          \/ Failing /\ Test.count # 1
      BY <1>0, <1>1, <2>0, <2>7, Test3 DEF Lines
    <3>2. CASE Within /\ Line3'
      <4>1. Lines' BY <2>1, <2>7, <3>2 DEF Lines
      <4>2. QED BY <1>0, <2>7, <3>2, <4>1, GoesOn
    <3>3. CASE Returning /\ Empty /\ st' = "PASSED" /\ caught = 1 /\ caught = Test.count - runs
      BY <1>0, <2>4, <2>7, <3>3, GoesBack
    <3>4. CASE Failing /\ Test.count # 1
      <4>1. "FAILED" \in Outcomes(Test) BY <2>7, <3>4 DEF Outcomes
      <4>2. QED BY <2>3, <2>7, <3>4, <4>1
    <3>5. QED BY <3>1, <3>2, <3>3, <3>4
  <2>8. CASE Test.num = 4
    <3>1. \/ Within /\ Line4'
          \/ Returning /\ Empty /\ st' = "PASSED" /\ Unopened
          \/ Failing /\ Opened
      BY <1>0, <2>0, <2>8, Test4 DEF Lines
    <3>2. CASE Within /\ Line4'
      <4>1. Lines' BY <2>1, <2>8, <3>2 DEF Lines
      <4>2. QED BY <1>0, <2>8, <3>2, <4>1, GoesOn
    <3>3. Outcomes(Test) = {IF o THEN "FAILED" ELSE "PASSED" : o \in Opens}
      BY <2>8 DEF Outcomes
    <3>4. CASE Returning /\ Empty /\ st' = "PASSED" /\ Unopened
      <4>1. st' \in Outcomes(Test)
        <5>1. st' = (IF FALSE THEN "FAILED" ELSE "PASSED") BY <3>4
        <5>2. QED BY <3>3, <3>4, <5>1, Zenon DEF Unopened
      <4>2. QED BY <1>0, <2>4, <2>8, <3>4, <4>1, GoesBack
    <3>5. CASE Failing /\ Opened
      <4>1. "FAILED" \in Outcomes(Test)
        <5>1. "FAILED" = (IF TRUE THEN "FAILED" ELSE "PASSED") OBVIOUS
        <5>2. QED BY <3>3, <3>5, <5>1, Zenon DEF Opened
      <4>2. QED BY <2>3, <2>8, <3>5, <4>1
    <3>6. QED BY <3>1, <3>2, <3>4, <3>5
  <2>9. CASE Test.num = 5
    <3>1. (Within /\ Line5') \/ (Returning /\ Empty /\ st' = "PASSED")
      BY <1>0, <2>0, <2>9, Test5 DEF Lines
    <3>2. CASE Within /\ Line5'
      <4>1. Lines' BY <2>1, <2>9, <3>2 DEF Lines
      <4>2. QED BY <1>0, <2>9, <3>2, <4>1, GoesOn
    <3>3. CASE Returning /\ Empty /\ st' = "PASSED"
      <4>1. st' \in Outcomes(Test) BY <2>9, <3>3 DEF Outcomes
      <4>2. QED BY <1>0, <2>4, <2>9, <3>3, <4>1, GoesBack
    <3>4. QED BY <3>1, <3>2, <3>3
  <2>10. CASE Test.num = 6
    <3>1. \/ Within /\ Line6'
          \/ pc' = "finish" /\ st' = "EXCEPTION" /\ UNCHANGED <<engine, runs, caught>>
      BY <1>0, <2>0, <2>10, Test6 DEF Lines
    <3>2. CASE Within /\ Line6'
      <4>1. Lines' BY <2>1, <2>10, <3>2 DEF Lines
      <4>2. QED BY <1>0, <2>10, <3>2, <4>1, GoesOn
    <3>3. CASE pc' = "finish" /\ st' = "EXCEPTION" /\ UNCHANGED <<engine, runs, caught>>
      <4>1. st' \in Outcomes(Test) BY <2>10, <3>3 DEF Outcomes
      <4>2. QED BY <1>0, <2>10, <3>3, <4>1, GoesOut
    <3>4. QED BY <3>1, <3>2, <3>3
  <2>11. CASE Test.num = 7
    <3>1. (Within /\ Line7') \/ (Returning /\ Quiet /\ st' = "PASSED")
      BY <1>0, <2>0, <2>11, Test7 DEF Lines
    <3>2. CASE Within /\ Line7'
      <4>1. Lines' BY <2>1, <2>11, <3>2 DEF Lines
      <4>2. QED BY <1>0, <2>11, <3>2, <4>1, GoesOn
    <3>3. CASE Returning /\ Quiet /\ st' = "PASSED"
      <4>1. st' \in Outcomes(Test) BY <2>11, <3>3 DEF Outcomes
      <4>2. QED BY <1>0, <2>11, <3>3, <4>1, GoesBack
    <3>4. QED BY <3>1, <3>2, <3>3
  <2>12. QED BY <1>1, <2>5, <2>6, <2>7, <2>8, <2>9, <2>10, <2>11
<1>4. QED BY <1>2, <1>3
-----------------------------------------------------------------------------
(* What the engine does between and around the tests. *)
LEMMA SortStep == ASSUME ProgramInv, Engine, Sort PROVE TestsInv'
<1> USE DEF ProgramInv
<1>0. tests \in Seq(TestType) /\ Cnt = Len(tests) /\ Cnt \in Nat /\ i = 1 /\ pc = "start"
  BY Arrays DEF Ordered, Sort
<1>1. /\ tests' \in SortedForms(tests) /\ pc' = "sort"
      /\ UNCHANGED <<status, i, blocked, errors, caught>>
  BY DEF Sort, Engine
<1>2. PICK p \in [1..Cnt -> 1..Cnt] :
        /\ \A j \in 1..(Cnt - 1) : tests[p[j]].num <= tests[p[j + 1]].num
        /\ tests' = [j \in 1..Cnt |-> tests[p[j]]]
  BY <1>0, <1>1 DEF SortedForms, Orders
<1>3. Cnt' = Cnt BY <1>0, <1>1, SortedTypes DEF Cnt
<1>4. \A j \in 1..Cnt : tests'[j] = tests[p[j]] /\ p[j] \in 1..Cnt BY <1>2
<1>5. \A j \in 1..Cnt : status[j] = "NOT_RUN"
  BY <1>0 DEF Ordered, InTest
<1>6. Numbered'
  <2>1. \A j \in 1..Cnt : tests'[j].num \in 1..7 /\ tests'[j].deps = {}
    BY <1>4 DEF TestsInv, Numbered
  <2>2. \A j \in 1..(Cnt - 1) : tests'[j].num <= tests'[j + 1].num
    <3>1. \A j \in 1..(Cnt - 1) : j \in 1..Cnt /\ j + 1 \in 1..Cnt BY <1>0
    <3>2. QED BY <1>2, <1>4, <3>1
  <2>3. \A j \in 1..Cnt : ~(j < i') BY <1>0, <1>1
  <2>4. QED BY <1>1, <1>3, <2>1, <2>2, <2>3 DEF Numbered
<1>7. Recorded' BY <1>1, <1>3, <1>5 DEF Recorded
<1>8. Quiet' BY <1>0, <1>1, <1>3 DEF TestsInv, Between, Quiet, Thrown, Empty, errors
<1>9. QED BY <1>0, <1>1, <1>6, <1>7, <1>8
          DEF TestsInv, Between, AtRun, AtBody, AtFinish, NotCaught

LEMMA BeginStep == ASSUME ProgramInv, Engine, Refuse \/ Begin \/ End PROVE TestsInv'
<1> USE DEF ProgramInv
<1>1. /\ UNCHANGED <<tests, status, i, blocked, errors, caught>>
      /\ pc \in {"sort", "next"} /\ pc' \in {"next", "done"} /\ (pc' = "next" => ~Duplicate)
      /\ (pc' = "next" => pc = "sort")
  BY DEF Refuse, Begin, End, Engine, engine
<1>2. Test' = Test /\ Cnt' = Cnt /\ Duplicate' = Duplicate BY <1>1 DEF Test, Cnt, Duplicate
<1>3. Numbered' BY <1>1, <1>2 DEF TestsInv, Numbered
<1>4. Recorded' BY <1>1, <1>2 DEF TestsInv, Recorded
<1>5. Quiet' BY <1>1, <1>2 DEF TestsInv, Between, Quiet, Thrown, Empty, errors
<1>6. NotCaught' BY <1>1, <1>2 DEF TestsInv, NotCaught, InTest
<1>7. QED BY <1>1, <1>3, <1>4, <1>5, <1>6 DEF TestsInv, Between, AtRun, AtBody, AtFinish

(* The next test has a higher number than all before it. *)
LEMMA Rising ==
  ASSUME TypeOK, Control, Numbered, i <= Cnt, pc \notin {"start", "sort", "done"}, i + 1 <= Cnt
  PROVE  /\ tests[i].num < tests[i + 1].num
         /\ \A j \in 1..Cnt : j < i + 1 => tests[j].num < tests[i + 1].num
<1>1. i \in 1..Cnt /\ Cnt \in Nat BY RunningNumber
<1>2. i \in 1..(Cnt - 1) /\ i + 1 \in 1..Cnt BY <1>1
<1>3. tests[i].num \in 1..7 /\ tests[i + 1].num \in 1..7 BY <1>1, <1>2 DEF Numbered
<1>4. tests[i].num <= tests[i + 1].num BY <1>2 DEF Numbered
<1>5. tests[i].num # tests[i + 1].num
  <2>1. tests[i].num # 0 BY <1>3
  <2>2. QED BY <1>2, <2>1 DEF Numbered, Duplicate
<1>6. tests[i].num < tests[i + 1].num BY <1>3, <1>4, <1>5
<1>7. ASSUME NEW j \in 1..Cnt, j < i + 1 PROVE tests[j].num < tests[i + 1].num
  <2>1. CASE j = i BY <1>6, <2>1
  <2>2. CASE j # i
    <3>1. j < i BY <1>1, <1>7, <2>2
    <3>2. tests[j].num < tests[i].num /\ tests[j].num \in 1..7 BY <3>1 DEF Numbered, Test
    <3>3. QED BY <1>3, <1>6, <3>2
  <2>3. QED BY <2>1, <2>2
<1>8. QED BY <1>6, <1>7

(* The engine goes on to the next test: it is the first not looked at, and   *)
(* what it finds is what the last one left.                                  *)
LEMMA GoesToNext ==
  ASSUME ProgramInv, i <= Cnt, pc \in {"next", "finish"}, pc' = "next", i' = i + 1,
         UNCHANGED <<tests, caught>>, Recorded', Quiet'
  PROVE  TestsInv'
<1> USE DEF ProgramInv
<1>0. i \in 1..Cnt /\ Cnt \in Nat BY RunningNumber DEF TestsInv
<1>1. Cnt' = Cnt /\ Test' = tests[i + 1] /\ Duplicate' = Duplicate BY DEF Cnt, Test, Duplicate
<1>2. i + 1 <= Cnt => /\ Test.num < Test'.num /\ Test'.num \in 1..7 /\ Test.num \in 1..7
                      /\ \A j \in 1..Cnt : j < i + 1 => tests[j].num < Test'.num
  BY <1>0, <1>1, Rising DEF Test, TestsInv, Numbered
<1>3. Numbered' BY <1>0, <1>1, <1>2 DEF TestsInv, Numbered
<1>4. NotCaught' BY <1>0, <1>1, <1>2 DEF TestsInv, NotCaught, InTest
<1>5. QED BY <1>3, <1>4 DEF TestsInv, Between, AtRun, AtBody, AtFinish

LEMMA SkipStep == ASSUME ProgramInv, Engine, SkipInactive \/ SkipDependent PROVE TestsInv'
<1> USE DEF ProgramInv
<1>0. i <= Cnt /\ pc = "next" BY DEF SkipInactive, SkipDependent, Going
<1>1. ~SkipDependent
  <2>1. Test.deps = {} BY <1>0, RunningNumber DEF TestsInv
  <2>2. DependenciesPassed BY <2>1 DEF DependenciesPassed, Found
  <2>3. QED BY <2>2 DEF SkipDependent
<1>2. /\ pc' = "next" /\ i' = i + 1
      /\ UNCHANGED <<tests, status, blocked, stack, alloc, heap, caught>>
  BY <1>0, <1>1 DEF SkipInactive, Engine, errors
<1>3. Recorded' /\ Quiet'
  BY <1>0, <1>2 DEF TestsInv, Recorded, Between, Quiet, Thrown, Empty, Cnt
<1>4. QED BY <1>0, <1>2, <1>3, GoesToNext

LEMMA LaunchStep == ASSUME ProgramInv, Engine, Launch PROVE TestsInv'
<1> USE DEF ProgramInv
<1>0. /\ i <= Cnt /\ pc = "next" /\ ~initFlag /\ Test.count # 0 /\ status[i] = "NOT_RUN"
  BY DEF Launch, Going, Control
<1>1. i \in 1..Cnt /\ Cnt \in Nat /\ Test.num \in 1..7 /\ Test.count \in Nat
  BY <1>0, RunningNumber DEF TestsInv
<1>2. /\ pc' = "run" /\ runs' = Test.count /\ status' = [status EXCEPT ![i] = "RUNNING"]
      /\ UNCHANGED <<tests, i, blocked, stack, alloc, heap, caught>>
  BY <1>0 DEF Launch, Engine, errors
<1>3. Test' = Test /\ Cnt' = Cnt /\ Duplicate' = Duplicate BY <1>2 DEF Test, Cnt, Duplicate
<1>4. status \in [1..Cnt -> Statuses] BY Arrays
<1>5. \A j \in 1..Cnt : status'[j] = IF j = i THEN "RUNNING" ELSE status[j] BY <1>2, <1>4
<1>6. Thrown' = Thrown BY <1>0, <1>3, <1>5 DEF Thrown
<1>7. Recorded' BY <1>2, <1>3, <1>5 DEF TestsInv, Recorded
<1>8. Quiet' BY <1>0, <1>2, <1>6 DEF TestsInv, Between, Quiet, Empty
<1>9. Numbered' BY <1>0, <1>2, <1>3 DEF TestsInv, Numbered
<1>10. AtRun' /\ NotCaught'
  BY <1>0, <1>1, <1>2, <1>3, <1>8 DEF TestsInv, NotCaught, AtRun, InTest
<1>11. QED BY <1>2, <1>7, <1>9, <1>10 DEF TestsInv, Between, AtBody, AtFinish

LEMMA RunStep == ASSUME ProgramInv, Engine, RunAgain \/ RunsDone PROVE TestsInv'
<1> USE DEF ProgramInv
<1>0. /\ pc = "run" /\ Quiet /\ Test.count # 0 /\ runs <= Test.count /\ runs \in Nat
      /\ (Test.num = 3 => caught = Test.count - runs /\ caught <= 1)
      /\ (runs < Test.count => IF Test.num = 3 THEN st = "PASSED" ELSE st \in Outcomes(Test))
  BY DEF RunAgain, RunsDone, TestsInv, AtRun, TypeOK
<1>1. i \in 1..Cnt /\ i <= Cnt /\ Test.num \in 1..7 /\ Test.count \in Nat
  BY <1>0, RunningNumber DEF TestsInv, InTest
<1>2. /\ pc' \in {"body", "finish"} /\ at' = 1
      /\ UNCHANGED <<engine, st, blocked, stack, alloc, heap, caught>>
  BY DEF RunAgain, RunsDone, Engine, errors
<1>3. Test' = Test /\ Cnt' = Cnt /\ Thrown' = Thrown /\ i' = i /\ Numbered' /\ Recorded'
  BY <1>0, <1>2, SameTests
<1>4. Empty' = Empty /\ Quiet' = Quiet BY <1>2, <1>3 DEF Empty, Quiet
<1>5. NotCaught' BY <1>0, <1>1, <1>2, <1>3 DEF TestsInv, NotCaught, InTest
<1>6. CASE RunAgain
  <2>1. runs > 0 /\ runs' = runs - 1 /\ pc' = "body" BY <1>6 DEF RunAgain
  <2>2. Test.num # 7 => ~Thrown BY <1>0, <1>1, NotThrown DEF TestsInv
  <2>3. Test.num # 7 => Empty' /\ ~blocked BY <1>0, <1>4, <2>2 DEF Quiet
  <2>4. Test.num = 3 => Line3'
    BY <1>0, <1>1, <1>2, <1>3, <2>1, <2>3 DEF Line3
  <2>5. Lines'
    BY <1>0, <1>2, <1>3, <1>4, <2>3, <2>4 DEF Lines, Line1, Line2, Line4, Line5, Line6, Line7
  <2>6. AtBody' BY <1>0, <1>1, <1>2, <1>3, <2>1, <2>2, <2>3, <2>5 DEF AtBody
  <2>7. QED BY <1>3, <1>5, <2>1, <2>6 DEF TestsInv, Between, AtRun, AtFinish
<1>7. CASE RunsDone
  <2>1. runs = 0 /\ pc' = "finish" BY <1>7 DEF RunsDone
  <2>2. runs < Test.count BY <1>0, <1>1, <2>1
  <2>3. st \in Outcomes(Test)
    <3>1. CASE Test.num = 3
      <4>1. Test.count = 1 BY <1>0, <1>1, <2>1, <3>1
      <4>2. QED BY <1>0, <2>2, <3>1, <4>1 DEF Outcomes
    <3>2. CASE Test.num # 3 BY <1>0, <2>2, <3>2
    <3>3. QED BY <3>1, <3>2
  <2>4. Outcomes(Test)' = Outcomes(Test) BY <1>3 DEF Outcomes
  <2>5. AtFinish' BY <1>0, <1>2, <1>4, <2>3, <2>4 DEF AtFinish
  <2>6. QED BY <1>3, <1>5, <2>1, <2>5 DEF TestsInv, Between, AtRun, AtBody
<1>8. QED BY <1>6, <1>7

LEMMA FinishStep == ASSUME ProgramInv, Engine, Finish PROVE TestsInv'
<1> USE DEF ProgramInv
<1>0. pc = "finish" /\ st \in Outcomes(Test) /\ (st = "EXCEPTION" \/ Quiet)
  BY DEF Finish, TestsInv, AtFinish
<1>1. i \in 1..Cnt /\ i <= Cnt /\ Cnt \in Nat BY <1>0, RunningNumber DEF TestsInv, InTest
<1>2. /\ pc' = "next" /\ i' = i + 1 /\ status' = [status EXCEPT ![i] = st]
      /\ UNCHANGED <<tests, blocked, stack, alloc, heap, caught>>
  BY DEF Finish, Engine, errors
<1>3. status \in [1..Cnt -> Statuses] BY Arrays
<1>4. \A j \in 1..Cnt : status'[j] = IF j = i THEN st ELSE status[j] BY <1>2, <1>3
<1>5. Cnt' = Cnt BY <1>2 DEF Cnt
<1>6. Recorded' BY <1>0, <1>2, <1>4, <1>5 DEF TestsInv, Recorded, Test
<1>7. status[i] = "RUNNING" BY <1>0, <1>1 DEF Ordered, InTest
<1>8. Quiet'
  <2>1. CASE st = "EXCEPTION" BY <1>1, <1>4, <1>5, <2>1 DEF Quiet, Thrown
  <2>2. CASE Quiet
    <3>1. Thrown => Thrown' BY <1>4, <1>5, <1>7 DEF Thrown
    <3>2. QED BY <1>2, <2>2, <3>1 DEF Quiet, Empty
  <2>3. QED BY <1>0, <2>1, <2>2
<1>9. QED BY <1>0, <1>1, <1>2, <1>6, <1>8, GoesToNext
-----------------------------------------------------------------------------
(* All of it together. *)
LEMMA ProgramInit == PInit => ProgramInv
<1> SUFFICES ASSUME PInit PROVE ProgramInv OBVIOUS
<1>1. /\ Init /\ StackInit /\ caught = 0 /\ point = "launcher"
      /\ pc = "start" /\ i = 1 /\ blocked = FALSE /\ tests \in Suites
      /\ status = [j \in 1..Cnt |-> "NOT_RUN"] /\ ~initFlag /\ ~prevSub
  BY DEF PInit, Init, Cnt
<1>2. TypeOK BY <1>1, TypeInit
<1>3. StackInv BY <1>1, StackInvInit
<1>4. Control BY <1>1 DEF Control, InTest
<1>5. \A j \in 1..Cnt : status[j] = "NOT_RUN" BY <1>1
<1>6. Cnt \in Nat BY <1>2, Arrays
<1>7. Ordered BY <1>1, <1>5, <1>6 DEF Ordered, InTest
<1>8. Buffer BY <1>1 DEF Buffer
<1>9. Quiet BY <1>1 DEF Quiet, Empty, StackInit
<1>10. Numbered BY <1>1, <1>6, ErrorProgramAssumption DEF Numbered, Cnt
<1>11. Recorded BY <1>5 DEF Recorded
<1>12. TestsInv
  BY <1>1, <1>9, <1>10, <1>11 DEF TestsInv, Between, AtRun, AtBody, AtFinish, NotCaught
<1>13. QED BY <1>2, <1>3, <1>4, <1>7, <1>8, <1>12 DEF ProgramInv

LEMMA ProgramStep == ASSUME ProgramInv, [PNext]_pvars PROVE ProgramInv'
<1>1. [Next]_vars BY EngineStep
<1>2. TypeOK' BY <1>1, TypeStep DEF ProgramInv
<1>3. Control' BY <1>1, ControlStep DEF ProgramInv
<1>4. Ordered' BY <1>1, <1>2, <1>3, OrderedStep DEF ProgramInv, TC
<1>5. StackInv' BY StackStep DEF ProgramInv
<1>6. Buffer' BY BufferStep DEF ProgramInv
<1>7. TestsInv'
  <2>1. CASE Engine
    <3>1. Sort \/ Refuse \/ Begin \/ SkipInactive \/ SkipDependent \/ Launch \/ RunAgain \/ RunsDone
          \/ Finish \/ End
      BY <2>1 DEF Engine
    <3>2. QED BY <2>1, <3>1, SortStep, BeginStep, SkipStep, LaunchStep, RunStep, FinishStep
  <2>2. CASE pc = "body" BY <2>2, BodyStep
  <2>3. CASE UNCHANGED pvars
    <3>1. Stay BY <2>3 DEF pvars, Stay, errors
    <3>2. QED BY <3>1, StayKeeps DEF ProgramInv
  <2>4. Engine \/ pc = "body" \/ UNCHANGED pvars
    BY DEF PNext, RaiseError, RaiseSystem, RaiseSignal, RunOutOfMemory, CleanErrors, InstallHandler,
           Mark, NestedTry, PrintTrace, CheckHolds, CheckFails, ReturnStatus, Checking, Doing
  <2>5. QED BY <2>1, <2>2, <2>3, <2>4
<1>8. QED BY <1>2, <1>3, <1>4, <1>5, <1>6, <1>7 DEF ProgramInv

(* The program of error.c is a program of the test engine: whatever its      *)
(* tests do to the state they share with the engine, TestEngine allows a     *)
(* test to do, so what holds of every step of the engine holds here.         *)
THEOREM ProgramIsSuite == PSpec => Init /\ [][Next]_vars
<1>1. PInit => Init BY DEF PInit
<1>2. ProgramInv /\ [PNext]_pvars => ProgramInv' /\ [Next]_vars BY ProgramStep, EngineStep
<1>3. QED BY ProgramInit, <1>1, <1>2, PTL DEF PSpec

(* A test hands over an empty stack and the static array, whichever of the   *)
(* seven ran before it and however often, unless one was jumped out of.      *)
THEOREM HandedOverClean == PSpec => []CleanBetween
<1>1. ProgramInv => CleanBetween
  BY DEF ProgramInv, TestsInv, Between, CleanBetween, Quiet, Thrown, Empty
<1>2. ProgramInv /\ [PNext]_pvars => ProgramInv' BY ProgramStep
<1>3. QED BY ProgramInit, <1>1, <1>2, PTL DEF PSpec

(* What the engine records of a test of error.c depends on that test alone,  *)
(* for every choice, order and repetition of the seven, with or without      *)
(* enough memory, whatever the libc does with the mask of signals at a jump: *)
(* tf1 to tf5 are recorded with what they return at their ends.              *)
THEOREM VerdictsStand == PSpec => []Verdicts
<1>1. ASSUME ProgramInv PROVE Verdicts
  <2>1. Recorded /\ Numbered BY <1>1 DEF ProgramInv, TestsInv
  <2>2. ASSUME NEW j \in 1..Cnt, tests[j].num \in 1..5, tests[j].num = 3 => tests[j].count = 1,
               status[j] \in Outcomes(tests[j])
        PROVE  status[j] \in Expected(tests[j])
    <3>1. CASE tests[j].num = 4 BY <2>2, <3>1 DEF Outcomes, Expected
    <3>2. CASE tests[j].num # 4 BY <2>2, <3>2 DEF Outcomes, Expected
    <3>3. QED BY <3>1, <3>2
  <2>3. QED BY <2>1, <2>2 DEF Recorded, Verdicts
<1>2. ProgramInv /\ [PNext]_pvars => ProgramInv' BY ProgramStep
<1>3. QED BY ProgramInit, <1>1, <1>2, PTL DEF PSpec
=============================================================================
