---------------------------- MODULE ErrorProgram ----------------------------
(***************************************************************************)
(* The test program of utils/error.c: its seven tests, run by the test     *)
(* engine, on the error stack.  Engine, stack, jump buffer and handler are *)
(* shared, so a test sees what the engine and the tests before it did.     *)
(***************************************************************************)
EXTENDS TestEngine, ErrorStack

CONSTANTS
  Many,     \* cnt of tf2: 500, more than the static array and one increment
  Opens     \* the answers of fopen("aaa.bbb.ccc") in tf4

(* The tests are numbered 1 to 7 and none names another it depends on.      *)
ASSUME ErrorProgramAssumption ==
  /\ Many \in Nat /\ Opens \subseteq BOOLEAN /\ "other" \in Handlers
  /\ \A s \in Suites : \A j \in 1..Len(s) : s[j].num \in 1..7 /\ s[j].deps = {}

VARIABLES
  at,       \* step of the running test
  errcount, \* of tf5: g_currerr before a call
  caught,   \* g_get_sig, never reset
  point,    \* where the jump buffer leads: "launcher", or "test" for a try() of the test
  logUp     \* loginit could open the log file: logfile is not NULL

test == <<at, errcount, caught, point, logUp>>
pvars == <<vars, errors, test>>

(***************************************************************************)
(* The tests as sequences of steps.                                        *)
(***************************************************************************)
Act(op, n) == [op |-> op, n |-> n]

(* The macros pass ERR_USER whatever their TYPE is: a system error is put   *)
(* with the code 0 the macro gives it, its errno is not asked for.          *)
EntryOf(op, n) == [type |-> "ERR_USER", code |-> IF op = "sysraise" THEN 0 ELSE n]

tf1 == <<Act("raise", 10), Act("expect", 1), Act("clean", 0), Act("return", "MANUAL")>>

tf2 == [k \in 1..Many |-> Act("raise", 99 + k)]
         \o <<Act("expect", Many), Act("clean", 0), Act("return", "MANUAL")>>

tf3 == <<Act("handler", "other"), Act("raiseint", 15), Act("caught", 1), Act("clean", 0),
         Act("return", "PASSED")>>

tf4 == <<Act("sysraise", 0), Act("expect", 1), Act("clean", 0), Act("return", "PASSED")>>

tf5 == <<Act("mark", 0), Act("raise", 30), Act("grown", 1), Act("top", 30),
         Act("mark", 0), Act("raise", 40), Act("grown", 1), Act("top", 40), Act("clean", 0),
         Act("return", "PASSED")>>

tf6 == <<Act("handler", "default"), Act("raiseint", 35), Act("clean", 0), Act("return", "PASSED")>>

(* The else branch of if (!try()) is at step 5. *)
tf7 == <<Act("handler", "default"), Act("try", 5), Act("raiseint", 10), Act("fail", 0),
         Act("trace", 0), Act("clean", 0), Act("return", "PASSED")>>

Script == <<tf1, tf2, tf3, tf4, tf5, tf6, tf7>>

Current == Script[Test.num][at]
Doing(op) == pc = "body" /\ ~killed /\ Current.op = op
Go == at' = at + 1

PInit == Init /\ StackInit /\ at = 1 /\ errcount = 0 /\ caught = 0
         /\ point = "launcher" /\ logUp \in BOOLEAN

(* What the engine does between the tests. *)
Engine ==
  /\ ~killed
  /\ Sort \/ Refuse \/ Begin \/ SkipInactive \/ SkipDependent \/ Launch \/ RunAgain \/ RunsDone
     \/ Finish \/ End
  /\ at' = 1
  /\ point' = IF pc = "next" THEN "launcher" ELSE point
  /\ UNCHANGED <<errors, errcount, caught, logUp>>

RaiseError ==                        \* userraise, userraiseact
  /\ Doing("raise") /\ Put(EntryOf("raise", Current.n)) /\ Go
  /\ UNCHANGED <<vars, errcount, caught, point, logUp>>

(* sysraise, if fopen found no file.  errno is not recorded. *)
RaiseSystem ==
  /\ Doing("sysraise") /\ Go
  /\ \E opened \in Opens :
       IF opened THEN UNCHANGED errors ELSE Put(EntryOf("sysraise", 0))
  /\ UNCHANGED <<vars, errcount, caught, point, logUp>>

(* userraiseint.  A handler of the test's own counts the signal; the default *)
(* one jumps to launcher, or to the test's own try(), after which it is in   *)
(* the else branch.                                                          *)
RaiseSignal ==
  /\ Doing("raiseint") /\ Put(EntryOf("raiseint", Current.n))
  /\ IF Jumps /\ point = "test"
     THEN /\ initFlag' = FALSE /\ blocked' = ~MaskSaved /\ at' = at + 2
          /\ errs' = errs + 1 /\ raises' = raises + 1
          /\ UNCHANGED <<pc, engine, offset, prevSub, runs, st, handler, acts, past, caught>>
     ELSE /\ Raise \/ RaiseReturns
          /\ Go
          /\ caught' = IF ~blocked /\ handler = "other" THEN caught + 1 ELSE caught
  /\ UNCHANGED <<errcount, point, logUp>>

(* No memory for one more error. *)
RunOutOfMemory ==
  /\ Doing("raise") \/ Doing("sysraise") \/ Doing("raiseint")
  /\ Exhausted
  /\ UNCHANGED <<vars, test>>

CleanErrors ==
  /\ Doing("clean") /\ Clean /\ Go
  /\ UNCHANGED <<vars, errcount, caught, point, logUp>>

InstallHandler ==
  /\ Doing("handler") /\ SetHandler(Current.n) /\ Go
  /\ UNCHANGED <<errors, errcount, caught, point, logUp>>

Mark ==
  /\ Doing("mark") /\ errcount' = Len(stack) /\ Go
  /\ UNCHANGED <<vars, errors, caught, point, logUp>>

(* try() in a test: refused while launcher's own is in use. *)
NestedTry ==
  /\ Doing("try")
  /\ IF initFlag THEN at' = Current.n /\ UNCHANGED <<vars, point>>
     ELSE /\ initFlag' = TRUE /\ point' = "test" /\ Go
          /\ UNCHANGED <<pc, engine, offset, prevSub, runs, st, handler, blocked, errs, body, past>>
  /\ UNCHANGED <<errors, errcount, caught, logUp>>

(* err_fprintstacktrace(logfile): the first fprintf to no file crashes. *)
PrintTrace ==
  /\ Doing("trace")
  /\ IF logUp THEN Go /\ UNCHANGED errors
     ELSE killed' = TRUE /\ UNCHANGED <<stack, alloc, heap, raised, at>>
  /\ UNCHANGED <<vars, errcount, caught, point, logUp>>

(* The checks of a test; one that fails cleans the stack and returns.       *)
Checks ==
  CASE Current.op = "expect" -> Len(stack) = Current.n
    [] Current.op = "grown" -> Len(stack) = errcount + Current.n
    [] Current.op = "top" -> stack[Len(stack)].code = Current.n
    [] Current.op = "caught" -> caught = Current.n
    [] Current.op = "fail" -> FALSE

Checking == \E op \in {"expect", "grown", "top", "caught", "fail"} : Doing(op)

CheckHolds ==
  /\ Checking /\ Checks /\ Go
  /\ UNCHANGED <<vars, errors, errcount, caught, point, logUp>>

CheckFailsUnclean ==                           \* fault: the errors stay
  /\ Checking /\ ~Checks
  /\ Return("FAILED")
  /\ UNCHANGED <<errors, test>>

CheckFails ==
  /\ Checking /\ ~Checks
  /\ Clean /\ Return("FAILED")
  /\ UNCHANGED test

ReturnStatus ==
  /\ Doing("return") /\ Return(Current.n)
  /\ UNCHANGED <<errors, test>>

PNext ==
  \/ Engine \/ RaiseError \/ RaiseSystem \/ RaiseSignal \/ RunOutOfMemory \/ CleanErrors
  \/ InstallHandler \/ Mark \/ NestedTry \/ PrintTrace \/ CheckHolds \/ CheckFails \/ ReturnStatus

PSpec == PInit /\ [][PNext]_pvars

(***************************************************************************)
(* Properties.                                                             *)
(***************************************************************************)

(* A test hands over an empty stack: on every path but the jump, which      *)
(* leaves the errors where they were, the test or its failed check cleaned  *)
(* it, and with it went the larger array.                                   *)
CleanBetween ==
  pc \in {"next", "done"} =>
    \/ stack = <<>> /\ ~heap /\ alloc = InitCount
    \/ \E j \in 1..Cnt : status[j] = "EXCEPTION"

(* What becomes of the first five tests is what they return at their ends,  *)
(* whichever ran before them, although they share stack, handler, buffer    *)
(* and signal mask: tf4 fails if there is a file aaa.bbb.ccc, and tf3 is    *)
(* said to pass when it runs once (its count of signals is never reset).    *)
Expected(t) ==
  CASE t.num \in {1, 2} -> {"MANUAL"}
    [] t.num \in {3, 5} -> {"PASSED"}
    [] t.num = 4 -> {IF o THEN "FAILED" ELSE "PASSED" : o \in Opens}

Verdicts ==
  \A j \in 1..Cnt :
    tests[j].num \in 1..5 /\ (tests[j].num = 3 => tests[j].count = 1)
      /\ status[j] \notin {"NOT_RUN", "RUNNING"}
    => status[j] \in Expected(tests[j])

(* What error.c says of its tests of the default handler.  tf6 raises and   *)
(* ends with return logret(TEST_PASSED, "done"): it is not stopped by an    *)
(* exception.  tf7 is a "Try + catch  test" that says "Exception handled    *)
(* normally": it is in the branch that says so after it raised something.   *)
RaiseReturned == \A j \in 1..Cnt : tests[j].num = 6 => status[j] # "EXCEPTION"
CatchesRaise == pc = "body" /\ Test.num = 7 /\ at > 4 => raises > 0

(* Always at least one of the two is so.                                    *)
HandlerTestsWork == RaiseReturned \/ CatchesRaise
=============================================================================
