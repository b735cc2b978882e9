----------------------------- MODULE TestEngine -----------------------------
(***************************************************************************)
(* The test engine: test_engine2 of utils/test.c with check_dependencies,  *)
(* launcher and test_sub, and what it needs of utils/error.c: the single   *)
(* jump buffer of the program, the SIGINT handler that jumps to it and     *)
(* userraiseint, which raises that signal.                                 *)
(*                                                                         *)
(* A test is a function of the program: it may open subtests, may raise an *)
(* exception, may install a handler of its own (as tf3 of error.c does)    *)
(* and returns a status.  It runs up to `count' times, until it fails.     *)
(***************************************************************************)
EXTENDS Integers, Sequences, FiniteSets

CONSTANTS
  Suites,     \* the arrays of tests test_engine2 is called with
  MaskSaved,  \* setjmp saves and longjmp restores the signal mask (BSD, macOS);
              \* without it (glibc) the handler's block of SIGINT outlives the jump
  Handlers,   \* handlers a test may install besides the default one
  MaxActs,    \* bound: subtests and handlers of one run of a test
  MaxRaises   \* bound: exceptions a test raises in one run

TestType == [num : Nat, mandatory : BOOLEAN, deps : SUBSET (Nat \ {0}), count : Nat]

ASSUME TestEngineAssumption ==
  /\ Suites \subseteq Seq(TestType) /\ MaskSaved \in BOOLEAN
  /\ "default" \notin Handlers /\ MaxActs \in Nat /\ MaxRaises \in Nat

VARIABLES
  pc,       \* "start", "sort", "next", "run", "body", "finish" or "done"
  tests,    \* the array
  status,   \* the tests' .status
  i,        \* loop variable of test_engine2
  summary,
  offset,   \* g_offset of test.c, in units of G_OFFSET_INC
  prevSub,  \* g_prev_subtest
  runs,     \* cnt of launcher
  st,       \* status of launcher
  initFlag, \* errenv.init_flag: the jump buffer is in use
  handler,  \* of SIGINT: "default" is err_default_handler
  blocked,  \* SIGINT is blocked
  errs      \* exceptions raised so far

(* What the running test did in this run; and a history variable.          *)
VARIABLES
  acts, raises,
  past      \* a test went on after userraiseint although the default handler
            \* is installed

engine == <<tests, status, i, summary>>
body == <<acts, raises>>
vars == <<pc, engine, offset, prevSub, runs, st, initFlag, handler, blocked, errs,
          body, past>>

Statuses == {"NOT_RUN", "PASSED", "SKIPPED", "FAILED", "MANUAL", "RUNNING", "EXCEPTION"}
Returned == {"PASSED", "MANUAL", "FAILED"}     \* what a test function returns
Passed(s) == s \in {"PASSED", "MANUAL"}

Cnt == Len(tests)
Test == tests[i]

Init ==
  /\ pc = "start" /\ tests \in Suites /\ status = [j \in 1..Len(tests) |-> "NOT_RUN"]
  /\ i = 1 /\ summary = [passed |-> TRUE, pass |-> 0, err |-> 0, exc |-> 0, skip |-> 0, total |-> 0]
  /\ offset = 0 /\ prevSub = FALSE /\ runs = 0 /\ st = "NOT_RUN"
  /\ initFlag = FALSE /\ handler = "none" /\ blocked = FALSE /\ errs = 0
  /\ acts = 0 /\ raises = 0 /\ past = FALSE

(***************************************************************************)
(* test_engine2                                                            *)
(***************************************************************************)
(* qsort by number: the order of equal numbers is not specified. *)
Orders(s) ==
  {p \in [1..Len(s) -> 1..Len(s)] :
     /\ \A j \in 1..(Len(s) - 1) : s[p[j]].num <= s[p[j + 1]].num
     /\ \A j, k \in 1..Len(s) : p[j] = p[k] => j = k}
SortedForms(s) == {[j \in 1..Len(s) |-> s[p[j]]] : p \in Orders(s)}

Sort ==
  /\ pc = "start"
  /\ tests' \in SortedForms(tests)
  /\ pc' = "sort"
  /\ UNCHANGED <<status, i, summary, offset, prevSub, runs, st, initFlag, handler, blocked,
                 errs, body, past>>

Duplicate == \E j \in 1..(Cnt - 1) : tests[j].num # 0 /\ tests[j].num = tests[j + 1].num

Refuse ==
  /\ pc = "sort" /\ Duplicate
  /\ summary' = [summary EXCEPT !.passed = FALSE] /\ pc' = "done"
  /\ UNCHANGED <<tests, status, i, offset, prevSub, runs, st, initFlag, handler, blocked,
                 errs, body, past>>

Begin ==
  /\ pc = "sort" /\ ~Duplicate
  /\ offset' = offset + 1
  /\ handler' = "default"              \* errsethandler
  /\ pc' = "next"
  /\ UNCHANGED <<engine, prevSub, runs, st, initFlag, blocked, errs, body, past>>

Going == i <= Cnt /\ status[i] = "NOT_RUN" /\ summary.passed

SkipInactive ==
  /\ pc = "next" /\ Going /\ Test.count = 0
  /\ i' = i + 1
  /\ UNCHANGED <<pc, tests, status, summary, offset, prevSub, runs, st, initFlag, handler,
                 blocked, errs, body, past>>

(* check_dependencies looks a number up among all tests but the last, and  *)
(* what it does not find is no obstacle.                                   *)
Found(t) == {j \in 1..(Cnt - 1) : tests[j].num \in t.deps}
DependenciesPassed == \A j \in Found(Test) : Passed(status[j])

SkipDependent ==
  /\ pc = "next" /\ Going /\ Test.count # 0 /\ ~DependenciesPassed
  /\ status' = [status EXCEPT ![i] = "SKIPPED"]
  /\ summary' = [summary EXCEPT !.total = @ + 1, !.skip = @ + 1]
  /\ i' = i + 1
  /\ UNCHANGED <<pc, tests, offset, prevSub, runs, st, initFlag, handler, blocked, errs,
                 body, past>>

(* Fault: try() does not mark the buffer as in use. *)
LaunchUnarmed ==
  /\ pc = "next" /\ Going /\ Test.count # 0 /\ DependenciesPassed
  /\ summary' = [summary EXCEPT !.total = @ + 1]
  /\ status' = [status EXCEPT ![i] = "RUNNING"]
  /\ prevSub' = FALSE /\ offset' = offset + 2 /\ runs' = Test.count /\ pc' = "run"
  /\ UNCHANGED <<tests, i, st, initFlag, handler, blocked, errs, body, past>>

(* launcher up to try(): a buffer that is in use already makes try() answer *)
(* 9999, which is taken for an exception of the test.                       *)
Launch ==
  /\ pc = "next" /\ Going /\ Test.count # 0 /\ DependenciesPassed
  /\ summary' = [summary EXCEPT !.total = @ + 1]
  /\ status' = [status EXCEPT ![i] = "RUNNING"]
  /\ prevSub' = FALSE /\ offset' = offset + 2 /\ runs' = Test.count
  /\ IF initFlag THEN pc' = "finish" /\ st' = "EXCEPTION" /\ UNCHANGED initFlag
     ELSE pc' = "run" /\ initFlag' = TRUE /\ UNCHANGED st
  /\ UNCHANGED <<tests, i, handler, blocked, errs, body, past>>

(* while (cnt-- && is_passed(status = t->f2())) *)
RunForever ==                                  \* fault: the count is not consumed
  /\ pc = "run" /\ runs > 0
  /\ acts' = 0 /\ raises' = 0 /\ pc' = "body"
  /\ UNCHANGED <<engine, offset, prevSub, runs, st, initFlag, handler, blocked, errs, past>>

RunUncounted ==                                \* fault: the count is not asked
  /\ pc = "run"
  /\ runs' = runs - 1 /\ acts' = 0 /\ raises' = 0 /\ pc' = "body"
  /\ UNCHANGED <<engine, offset, prevSub, st, initFlag, handler, blocked, errs, past>>

RunAgain ==
  /\ pc = "run" /\ runs > 0
  /\ runs' = runs - 1 /\ acts' = 0 /\ raises' = 0 /\ pc' = "body"
  /\ UNCHANGED <<engine, offset, prevSub, st, initFlag, handler, blocked, errs, past>>

RunsDone ==
  /\ pc = "run" /\ runs = 0
  /\ pc' = "finish"
  /\ UNCHANGED <<engine, offset, prevSub, runs, st, initFlag, handler, blocked, errs, body, past>>

(***************************************************************************)
(* The test's own steps.                                                   *)
(***************************************************************************)

(* test_sub closes the subtest before it, if any. *)
TestSub ==
  /\ pc = "body" /\ acts < MaxActs
  /\ offset' = IF prevSub THEN offset ELSE offset + 1
  /\ prevSub' = TRUE /\ acts' = acts + 1
  /\ UNCHANGED <<pc, engine, runs, st, initFlag, handler, blocked, errs, raises, past>>

(* signal, or errsethandler for the default one. *)
SetHandler(h) ==
  /\ pc = "body" /\ acts < MaxActs
  /\ handler' = h /\ acts' = acts + 1
  /\ UNCHANGED <<pc, engine, offset, prevSub, runs, st, initFlag, blocked, errs, raises, past>>

Raising == pc = "body" /\ raises < MaxRaises

(* userraiseint puts the error on the stack and raises SIGINT.  The default *)
(* handler jumps to launcher's try(), which frees the buffer.               *)
Jumps == ~blocked /\ handler = "default" /\ initFlag

Raise ==
  /\ Raising /\ Jumps
  /\ errs' = errs + 1 /\ raises' = raises + 1
  /\ initFlag' = FALSE /\ blocked' = ~MaskSaved
  /\ st' = "EXCEPTION" /\ pc' = "finish"
  /\ UNCHANGED <<engine, offset, prevSub, runs, handler, acts, past>>

(* SIGINT blocked, another handler, or no buffer: raise returns.           *)
RaiseReturns ==
  /\ Raising /\ ~Jumps
  /\ errs' = errs + 1 /\ raises' = raises + 1
  /\ past' = (past \/ handler = "default")
  /\ UNCHANGED <<pc, engine, offset, prevSub, runs, st, initFlag, handler, blocked, acts>>

Closed == IF prevSub THEN offset - 1 ELSE offset      \* test_sub_close

(* A status that is not passed leaves the loop with the subtest open. *)
Return(s) ==
  /\ pc = "body" /\ s \in Returned
  /\ st' = s
  /\ IF Passed(s) THEN pc' = "run" /\ offset' = Closed /\ prevSub' = FALSE
     ELSE pc' = "finish" /\ UNCHANGED <<offset, prevSub>>
  /\ UNCHANGED <<engine, runs, initFlag, handler, blocked, errs, body, past>>

(***************************************************************************)
(* The end of launcher, and what test_engine2 does with its result.        *)
(***************************************************************************)
Outcome ==
  IF Passed(st) THEN [summary EXCEPT !.pass = @ + 1]
  ELSE [summary EXCEPT !.err = @ + 1,
                       !.passed = @ /\ ~Test.mandatory,
                       !.exc = IF st = "EXCEPTION" THEN @ + 1 ELSE @]

(* Faults: the open subtest of a failed test is not closed; the buffer is   *)
(* not freed after a test that did not raise; an exception is no error; a   *)
(* mandatory test does not stop the engine.                                 *)
FinishWith(off, flag, sum) ==
  /\ pc = "finish"
  /\ offset' = off - 2 /\ prevSub' = FALSE /\ initFlag' = flag
  /\ status' = [status EXCEPT ![i] = st] /\ summary' = sum
  /\ i' = i + 1 /\ pc' = "next"
  /\ UNCHANGED <<tests, runs, st, handler, blocked, errs, body, past>>
FinishUnclosed == FinishWith(offset, FALSE, Outcome)
FinishNoReset == FinishWith(Closed, initFlag, Outcome)
FinishException ==
  FinishWith(Closed, FALSE, IF st = "EXCEPTION" THEN [summary EXCEPT !.exc = @ + 1] ELSE Outcome)
FinishGoesOn == FinishWith(Closed, FALSE, [Outcome EXCEPT !.passed = TRUE])

Finish ==
  /\ pc = "finish"
  /\ offset' = (IF Passed(st) THEN offset ELSE Closed) - 2
  /\ prevSub' = (prevSub /\ Passed(st))
  /\ initFlag' = FALSE                          \* err_resetenv
  /\ status' = [status EXCEPT ![i] = st]
  /\ summary' = Outcome
  /\ i' = i + 1 /\ pc' = "next"
  /\ UNCHANGED <<tests, runs, st, handler, blocked, errs, body, past>>

End ==
  /\ pc = "next" /\ ~Going
  /\ offset' = offset - 1 /\ pc' = "done"
  /\ UNCHANGED <<engine, prevSub, runs, st, initFlag, handler, blocked, errs, body, past>>

Next ==
  \/ Sort \/ Refuse \/ Begin \/ SkipInactive \/ SkipDependent \/ Launch
  \/ RunAgain \/ RunsDone
  \/ TestSub \/ (\E h \in Handlers \union {"default"} : SetHandler(h)) \/ Raise \/ RaiseReturns
  \/ (\E s \in Returned : Return(s))
  \/ Finish \/ End

(* One thread; a test does finitely much and returns. *)
Spec == Init /\ [][Next]_vars /\ WF_vars(Next)

(***************************************************************************)
(* Properties.                                                             *)
(***************************************************************************)
TypeOK ==
  /\ pc \in {"start", "sort", "next", "run", "body", "finish", "done"}
  /\ tests \in Seq(TestType) /\ status \in [1..Len(tests) -> Statuses]
  /\ i \in 1..(Len(tests) + 1)
  /\ summary \in [passed : BOOLEAN, pass : Nat, err : Nat, exc : Nat, skip : Nat, total : Nat]
  /\ offset \in Int /\ prevSub \in BOOLEAN /\ runs \in Nat /\ st \in Statuses
  /\ initFlag \in BOOLEAN /\ handler \in Handlers \union {"none", "default"}
  /\ blocked \in BOOLEAN /\ errs \in Nat /\ acts \in Nat /\ raises \in Nat /\ past \in BOOLEAN

With(ss) == Cardinality({j \in 1..Cnt : status[j] \in ss})

(* Between two tests the summary is the tally of the statuses, and every   *)
(* test counted as run has one of them.                                    *)
SummaryTallies ==
  pc \in {"next", "done"} =>
    /\ summary.pass = With({"PASSED", "MANUAL"})
    /\ summary.err = With({"FAILED", "EXCEPTION"})
    /\ summary.exc = With({"EXCEPTION"})
    /\ summary.skip = With({"SKIPPED"})
    /\ summary.total = summary.pass + summary.err + summary.skip

(* A test failed by an exception has raised one: none is failed because the *)
(* buffer of the test before it was still in use.                          *)
ExceptionsRaised == summary.exc <= errs

(* Subtests, failures and jumps in the middle of both leave the report at  *)
(* the margin it had: one level in between the tests, none after them.     *)
OffsetRestored == offset = (CASE pc = "next" -> 1 [] pc \in {"start", "sort", "done"} -> 0
                              [] OTHER -> 3 + (IF prevSub THEN 1 ELSE 0))

(* The engine stops at the first mandatory test that fails, and only there.*)
MandatoryStops ==
  pc = "done" /\ ~Duplicate =>
    LET lost == {j \in 1..Cnt : tests[j].mandatory /\ status[j] \in {"FAILED", "EXCEPTION"}} IN
    /\ summary.passed <=> lost = {}
    /\ lost # {} => /\ \A j \in i..Cnt : status[j] = "NOT_RUN"
                    /\ lost = {i - 1}
    /\ lost = {} => \A j \in 1..Cnt : status[j] = "NOT_RUN" => tests[j].count = 0

(* "NEVER SHOULD SEE THIS MESSAGE!!!", test.c, after userraiseint: under    *)
(* the default handler no test goes on after an exception.                  *)
NeverSeen == ~past

(* Every call of the engine comes to an end. *)
EngineEnds == pc = "start" ~> pc = "done"
=============================================================================
