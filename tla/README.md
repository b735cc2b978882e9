# Verification of the search engine and its utilities

The repository solves olympiad-style equations by brute force: a task program
links one target function ("is the equation true at this point?") with a search
engine that evaluates it on every point of a box, a loader that reads the box
from a file, a logger, and a small framework for exceptions and tests.  Beside
them stand older programs with sweeps and searches of their own.  Its only
documentation is the line "Just to solva math tasks." and the comments in the
code, so every definition here is translated from the source.

Everything runs in one thread.  What makes the code hard to get right is not
concurrency but **shared global state between nested calls** (the log offset, the
result set, the jump buffer, the error stack, one buffer for all recursive
calls), **paths that leave a function early** (`STOPRUN`, `longjmp`, a failed
`fopen` or `malloc`) and **off-by-one edges** in loops over arrays, boxes,
strings and files.

## 1. Inventory

| part | state | operations | talks to |
|---|---|---|---|
| integer engine `eng_runner.c` | its copy of the request, radius, loop variables, `total` | `eng_int_run`, `find_greatest`, `wrap_int` | target function, result set, log, `userraiseint` |
| result set `eng_runner.c` | `prev_results`, `pos_result` (static, never reset by a run) | `eng_check_previous`, `eng_check_reset` (called nowhere) | target functions, engine (prints the last message) |
| range driver `eng_runner.c` | loop variable, sum | `eng_check_int2dim_interval` | engine, once per target value |
| loader `eng_runner.c` | the request being filled, `val` | `eng_loadfromfile`, `skip_line` | log, stdio |
| launcher `eng_launcher.c` | none | `main` | log, loader, engine |
| float sweeps `eng_runner.c` | doubles, an open interval | `eng_flt_1dim`, `eng_flt_2dim` (no caller in the repository) | target function |
| logger `log.c`, `log.h` | file, name, `g_offset`, table of modules, switch; `_LG_LV` in each function that logs | `logenter`, `logmsg`, `logret`, `logerr`, `logsimple*`, `loginit`, `logclose`, `log_mod*`, `logon`, `logoff` | every other part |
| errors `error.c`, `error.h` | error stack, one jump buffer `g_env`, SIGINT handler | `err_raise`, `try()`, `err_resetenv`, `err_sethandler`, `err_clean` | signals, log |
| the program of `error.c` | static counters of its tests | seven tests | errors, test engine |
| test engine `test.c` | the array of tests with their statuses, summary, `g_offset`, `g_prev_subtest` | `test_engine2`, `launcher`, `check_dependencies`, `test_sub` | errors, log |
| file comparison `test.c`, `test.h` | the temporary file and its position | `test_compare_engine`, `test_act_*`, `test_equal`, `test_like`, ... | stdio, errors |
| first tasks `task1.c`, `task2.c`, `task3.c`, and `4task.c`, `5task.c`, `8task.c` | loop variables, counts | sweeps of their own | - |
| digit puzzles `perelman/91task.c`, `93task.c`, `95task.c` | `struct op_sym`, shared by recursive calls | `op_sym_strinit`, `calc_string`, `gen_strings`, `generate`, `check_div` | - |
| target functions `tasks/src/*_func.c` | none | one equation each | result set |
| checker, common, compl_alg | counters at most | macros, printing | - |
| tasks 6, 7, 9 to 14, perelman 92, 97 | - | fill a request of an earlier interface | - |

What makes each part correct:

- the engine covers its grid, stays in its box, counts and prints what it found;
- a range of runs counts each value once and puts the log back where it was;
- the loader stores what the file says;
- the log indents a call under its caller and closes it in its own column;
- the error stack shows what was raised, and a test leaves none of it behind;
- the test engine runs a test only after its dependencies, accounts for every
  test and survives every exception;
- a comparison answers for the text just written and leaves the file where the
  next action may write;
- a sweep asks its whole range, reports what it found and ends;
- `calc_string` computes what an expression means, and the searches evaluate
  each string they should.

The hazards, line by line, are listed in `PROJECT.json`, each with the properties
that would notice it.  Some have none: there the models contain what happens and a
note says why no property is about it, most often because nothing in the
repository says what should happen instead.

## 2. Modules

| module | models | how its state and actions correspond |
|---|---|---|
| `ResultSet` | `eng_check_previous` | `prev` is `prev_results[0..pos_result-1].val`; `Remember` is the side effect, `CheckPrevious` the answer |
| `EngIntRun` | `eng_int_run`, `find_greatest`, `wrap_int`, the target function | `pc` is the place in `eng_int_run`; `level` and `iter` are the nest of ten loops; `FindGreatest`, `Setup`, `Clip`, `Descend`, `Ascend`, `EndRadius`, `Return` are the loops' tests and steps, `Miss`, `Count`, `StopRun`, `Unsupported` the outcomes of the innermost body |
| `BoxSearch` | no code: what a search of a box promises | implemented by `EngIntRun` under the mapping of `Search` |
| `EngInterval` | `eng_check_int2dim_interval` | extends `EngIntRun`; the engine's steps are `InCall`, the shared variables `prev` and `offset` carry over from call to call; without a log file it crashes before the first (`NoLogFile`) |
| `Launcher` | `main`, `eng_loadfromfile`, `skip_line` | `pos` is the position in the file, `Read` one turn of the loop with its `fscanf`, `Apply` the chain of `strcasecmp` |
| `Log` | `log.c`, `log.h` | `frames` is the stack of functions that declared a `_LG_LV`; `Record` is `log_msg_ap` with `log_preambule`; `missing` is a `g_modules` that a failed `malloc` left a null pointer, in which the next record looks its module up (`Crash`) |
| `TestEngine` | `test_engine2`, `launcher`, `check_dependencies`, `test_sub`, with `try()`, the handler and `userraiseint` | `initFlag` is `errenv.init_flag`, `blocked` the signal mask, `runs` the `cnt` of `launcher` |
| `ErrorStack` | `err_raise`, `err_increase`, `err_put`, `err_clean` | `stack` is `g_error[0..g_currerr-1]`, `alloc` is `g_allocerr`, `heap` says that `g_error` is not the static array |
| `ErrorProgram` | the tests `tf1` to `tf7` of `error.c` | extends `TestEngine` and `ErrorStack`: the engine's own steps are `Engine`, and `tf1` to `tf7` are what the tests do in place of the free choice `TestEngine` leaves, one action per operation of a test |
| `OpSym` | `op_sym_strinit`, `calc_string` | operators only: `Turn` is the body of the loop, `Loop` the state after each turn; `Meaning` is the reference, the grammar of a sum of products |
| `OpSearch` | `gen_strings`, `generate`, `op_sym_not_in`, `check_div` | extends `OpSym`; `todo` holds the calls of `gen_strings` still to be made (each has its own copy of the string), `loops` the loop variable of every active `generate`, which share `sym`, `op` and `pos` |
| `Sweep` | `eng_flt_1dim`, `eng_flt_2dim` and the engines of six programs | `x`, `y` are the loop variables, `in` is `in_interval`; one job names the program, which decides comparisons, what is counted and what is printed |
| `Compare` | `test_compare_engine`, `test_str_*`, `test_act_*`, `test_equal` and so on | `fpos` is the position of the `FILE`, `i`, `j`, `iPrev` the variables of the comparators' loops; its `CInit`, `CNext` and `CSpec` are named so that it can stand beside other modules |
| `*_proofs` | theorems | section 5 |
| `MC...` | instances for TLC | section 3 |

Composition: `EngInterval` runs `EngIntRun` again and again on shared globals;
`ErrorProgram` puts real tests, the error stack and the one jump buffer under
`TestEngine`, and implements it; `OpSearch` evaluates by `OpSym`; `EngIntRun`
implements `BoxSearch`.

Definitions marked "fault" beside an action are plausible bugs of that code; no
specification uses them, they document which error each property notices.

Abstractions, and why they lose nothing the properties look at:

- Values of `eng_check_previous` are doubles compared only by
  `fabs(a - b) < g_eng_eps`: integers with a tolerance `Eps`.  A NaN value (equal
  to nothing, so always new) is left out.
- The target function is `Holds` and `Val`.  Of the two kinds of call in
  `wrap_int`, the one with a target value is taken when the flag is set in the
  *copy* of the request.  When a function that expects a target is called without
  one, what it finds there is any member of `Garbage`.
- "setup DIMS" writes one element past `rt.dim`.  In the layout of
  `eng_int_interval` that element overlaps `flags` and the low half of
  `targetValue` (`offsetof` of both equals 244 with gcc on x86-64, and the effect
  was observed at the Makefile's `-O0`); `Setup` clears both.  The loop of `Clip`
  has the same bound, and its stray element of `to` and `from` falls into the
  padding of those arrays.  Target values are assumed to fit in the low half.
- `useDim` above 15 would index further and is not a request here; steps are not
  negative (a negative step never ends the loop unless the box is empty).
- The `modLog` records, the texts and the formats of the log are left out; of a
  record only its action and its column are kept.
- `Launcher`: a file is lines of words, and of a word it is known whether it begins
  with a `#` or a `=` and what stands behind the `=` (`Equals`, `Behind`), because
  the `=` of the format takes the first character of a word and `%s` the rest;
  words longer than the buffers are left out, `strcasecmp` is equality, numbers are small, `PRINT_MSG` sets nothing that
  matters.  `eng_int_run` is its outcome.
- `Log`: `loginit`, module tables and `logclose` are used where the programs use
  them, outside any call that logs and with the last `logret` of `main`.  The three
  ways `log_modload` and `log_modinit` fail are kept apart by what they leave: the
  present table, the default one, or none.
- `TestEngine`: a test does what it likes, at most `MaxActs` things and
  `MaxRaises` exceptions in a run; the error stack is its height `errs`.
- `ErrorStack`: an entry is its type and code.  An element of the heap array that
  nobody wrote is `Junk`.  When `malloc` fails, `err_raise` raises SIGTERM, which
  no program of the repository handles: `killed`, as is a program that writes a
  trace to a log file that is not there (`PrintTrace`).
- `Sweep`: a double is an integer in a fine unit and every addition or
  subtraction of a step may be off by up to `Err` units in either direction; an
  int wraps at `IntMax`, as the `-O0` build does.  Whether a point is a solution
  is a free choice.
- `OpSym`: the int arithmetic is unbounded, because the programs' strings have at
  most nine digits; a division by zero ends the program.
- `Compare`: `strncmp`, `strstr`, `isspace` and `toupper` are what C says they
  are.  `fseek` and `fread` succeed; `test_fopen` and `test_fclose`, which make
  and remove the temporary file, are left out.

## 3. Runs

Passing runs (constants in the `.cfg` and `MC` modules):

| run | question | instance and why it is enough |
|---|---|---|
| `run_bool` | one call with a boolean function | three loops over arrays of four: a `DIM` with fewer loops, with all, and with none (0 and 4); boxes left, right and around 0, inverted boxes, a box whose first corner holds a far solution, steps 1 and 2 that do and do not divide the box, a step 0 in an unused dimension, with and without `STOPRUN` |
| `interval` | three target values in a row, with a function that uses the result set | two loops, capacity 4: some boxes fill it, others do not; values that are near without being equal; the request carries a target value of its own; with `STOPRUN` every call that finds something leaks a level; with and without a log file |
| `log` | any sequence of records, jumps and configuration | three nested calls, two modules and three tables so that a call is logged, not logged, or belongs to an unknown module; a table may be refused, fail to load, or leave none behind; the offset may run three levels ahead |
| `test_engine` | any outcome of any test | suites of three: dependencies on an earlier, a later, the last and a missing test, two equal numbers, mandatory, inactive and repeated tests; two acts and one exception per run of a test |
| `launcher` | any file of up to three lines out of fifteen, and two files of the shape of `16task_01.cfg` and `20task_01.cfg` | comments alone, in a row, with `=`, with a commented parameter, blank lines, a line without a value, a value joined to its `=`, each switch on and off, an unknown name, a step 0, a `DIM` out of range; with and without a log file |
| `error_program` | the seven tests of `error.c`, mandatory or not, each group switched off, run once or twice | a static array of 3 that grows by 2 and a `tf2` that raises 8: the array is replaced once and reallocated twice; every `malloc` may fail and every `fopen` succeed; with and without a log file |
| `tasks` | three sequential programs that share nothing, one of which runs (`program`) | see below |

The run `tasks` (`MCTasks`) puts `MCSweep`, `MCOpSearch` and `MCCompare` side by side;
what does not run stays in its initial state, in which its properties say nothing.

- *Sweeps*, every range, answer and rounding: steps of four units with an error of
  one; ranges the step divides and does not, of one point, inverted; ints up to 3;
  two nested loops over an empty range; a step 0 and a bound `INT_MAX`, for which
  no end is promised; at most 9 points.
- *Digit puzzles*, `calc_string` on every string the searches produce, and how
  often: up to four symbols, among them zeros, equal digits and patterns that
  already hold operators; operator budgets below, at and beyond the number of
  places.
- *Comparisons*, any number of actions and comparisons on one file: 16 texts over a
  letter in both cases, another letter and a blank, among them those where a search
  must go back; a buffer of 3 and a file of at most 4 characters, so that texts are
  too long, empty, and written after others.

What they show, beyond types:

- *Engine.*  It never leaves the box, covers the caller's grid although small
  radii walk a shifted grid, is right when it says "Not found", counts a solution
  once per cube that contains it, finds a nearest solution first under `STOPRUN`
  with unit steps, and implements `BoxSearch`.
- *Range.*  Each value is counted once over all runs while the set has room.  A
  run cut short by `STOPRUN` leaves the log one level deeper; the driver's own
  return repairs it.  Messages are right up to the first run that finds something;
  no later run prints any until the set is full (`ShownUntilFound`).
- *Logger.*  Live calls are properly nested and close where they opened, even
  after early returns and jumps, because every record restores the offset from
  its own `_LG_LV`; without leaks the offset is exactly the depth.
- *Test engine.*  The summary is the tally of the statuses, an exception is
  recorded only if one was raised, a mandatory failure stops the engine, the
  margin is restored on every path, and the engine ends.
- *Errors.*  The stack holds what was raised, in order, but for the entries of
  the static array once it is replaced; the tests leave it empty unless one ended
  in an exception; what the engine records for `tf1` to `tf5` is what they return
  at their ends, whatever ran before them.
- *Loader.*  A file in which comments hold no parameter names is read line by
  line as written, even where the loader loses step; in the order the
  repository's files use, the flags are as written too.
- *Puzzles.*  `calc_string` agrees with the grammar, or answers `INT_MAX`; only a
  division that ends its term escapes the check.  `gen_strings` evaluates every
  string with at most the allowed operators, `generate` and `check_div` every
  arrangement with the division in every place, exactly once, on one buffer.
- *Sweeps.*  Over ints every point is asked once; over doubles no gap is wider
  than a step and an error.  The intervals printed are the runs of true points,
  with an upper end at most two errors off.
- *Comparison.*  The answer is that of the comparator on the text just written,
  and the file is left at its end.

Runs that end in a violation, each stating what the repository says of itself
(details and lines under "findings" in `PROJECT.json`):

| run | statement | what the code does |
|---|---|---|
| `target_value` | a function with a target gets the target value | the flag is cleared before `wrap_int` asks for it |
| `test_never_seen` | "NEVER SHOULD SEE THIS MESSAGE!!!" | seen when `setjmp` does not save the signal mask (glibc), reproduced with the repository's own test |
| `handler_tests` | `tf6` ends with `return logret(TEST_PASSED, "done")`; `tf7` is a "Try + catch local  test" that says "Exception handled normally" | one trace has both: `tf6` is stopped by its own exception before its `return` and recorded EXCEPTION; `tf7`, whose `try()` finds the buffer taken by `launcher`, is in the branch that reports a caught exception and has raised none.  In `main` `tf6` is mandatory, so there `tf7` is not reached at all |
| `whole_file` | "full file reading mode", "simple wrappers for whole file comparators" | the size to read is 0 minus the size of the file: an exception, unless the file is empty |
| `unsupported` | a file with an unsupported parameter is refused | a later `STOPRUN = 0` clears the error flag |

`HandlerTestsWork` says that at every moment at least one of the two claims
holds, so that its counterexample refutes both.

Other behaviour a maintainer may not expect, which the models contain:

- the count of `eng_int_run` counts a point once per cube (`ExactCount`), that
  of `gen_strings` a string once per depth at which it is complete
  (`CheckedExactly`);
- `bsearch` runs over `cnt - 1` tests, so a dependency on the last one counts as
  not there (`Found`), although the comment says that all dependent tests are
  checked (`test.c:124`); no suite of the repository has such a dependency;
- `tf3` fails when it is repeated, for its count of signals is never reset; a
  system error is recorded as `ERR_USER` with code 0 (`EntryOf`);
- "equal" accepts every beginning of the pattern (`Agrees`); the comparator that is
  to "ignore delimeters" (`test.c:399`) accepts no text with more blanks at its end
  than the pattern, and no pattern with more than the text (`ComparesText` leaves
  those open);
- `task1` accepts a step 0 and then never ends, `task2` starts only when its upper
  bound is above 1, and `eng_flt_2dim` includes the upper bound of its outer loop
  and not that of its inner one (`SweepEnds`, `Refused`, `AsksTheRange`);
- a line `= = NAME` after a comment sets `NAME` to the value last read, while
  elsewhere it is an unsupported parameter (`Assigns` excludes it);
- `assert(lv >= 0)` of the log can fail when the log file can be opened only after
  `logenter` (`OpenMayFail`); the theorems and the run assume that it can be opened
  whenever it has a name;
- behind `logclose` the log has no name, and every record is lost until the next
  `loginit`; after a failed `malloc` in `log_modinit` or `log_modload` the next
  record crashes.

`CHECK_DEADLOCK FALSE` stands where a program ends or may crash, which is in every
one of them.

## 4. Fairness

There is one thread and nothing it waits for, so each specification with a
liveness property (`EngIntRun`, `EngInterval`, `TestEngine`, `Launcher`, `Sweep`)
has weak fairness of its whole next-state relation and of nothing else: the
program takes a step while it can.  For `TestEngine` this says that a test
function returns; `MaxActs` and `MaxRaises` make it do finitely much.
`Terminates` and `IntervalEnds` are conditional on positive steps in all loops,
`LauncherEnds` on the steps the file writes, `SweepEnds` on a step larger than
the rounding error and a bound below `INT_MAX`, because the code checks none of
these.  `Log`, `ErrorProgram`, `OpSearch` and `Compare` have no liveness property
and no fairness.

## 5. Proofs

Proved by TLAPS for all values of the constants (the assumptions are the named
`ASSUME`s of the modules, which TLC evaluates in the runs):

| module | theorems |
|---|---|
| `EngIntRun_proofs` | `TypeCorrect`, `StaysWithinBox`, `Completeness`, `NotFoundIsRight`, `NearestSolution`, `CountIsExact`; `Refinement`: `Spec` implements `Search!SSpec` |
| `EngInterval_proofs` | `OffsetLeaks`, `CountedOnce`, `NothingNewIsLeft`, `RangeTypes`, `NoneShownAfterFirst` |
| `Log_proofs` | `CallsNest`, `AssertionHolds`, `LeaveAligns`, `OffsetIsDepth`, each under `~OpenMayFail` |
| `TestEngine_proofs` | `TypeCorrect`, `MarginRestored`, `ExceptionsAreRaised`, `MandatoryStop`, `SummaryAddsUp`, and `NeverSeenWhereMaskSaved` under `MaskSaved` |
| `ErrorProgram_proofs` | `ProgramIsSuite`: `PSpec` implements `TestEngine`'s `Spec` but for fairness; `StackHoldsRaised` (the stack alone, used in any order), `ProgramStack`, `BufferIsLaunchers`, `HandedOverClean`, `VerdictsStand` |
| `Task_proofs` | of `Sweep`: `SweepCorrect`, `ReportsAreRuns`, `RangeIsAsked`; of `OpSearch`: `EachArrangementOnce`, `StringsCheckedExactly`, `CalcIsRight` |
| `Compare_proofs` | `NextAppends`, `AnswersAreRight` |
| `Launcher_proofs` | `NumbersAreWritten`, `FlagsAreWritten` |

Five assumptions say more than the type of a constant.  `EngIntervalAssumption`:
a request of the driver is one with any of the target values it goes through.
`ErrorProgramAssumption`: a suite is made of the seven tests of `error.c`, which
have no dependencies.  `SweepAssumption` types the jobs; the ranges of an int sweep
are ints and its step is 1, as in every such program.  `OpSearchAssumption`: a
pattern is made of digits and operators and fits in an `op_sym`, that of `91task.c`
has no operators (it is `"123456789"`), that of `95task.c` at most nine symbols.
`LauncherAssumption`: nothing follows the `=` in the word `=`, and no word of a file
begins with both a `#` and a `=`.

*The engine.*  `Complete` says something about the end of four nested kinds of
loop, so it needs an invariant at each.  `Bounds`: `find_greatest` has seen the
dimensions below `dim`, hence `greatest` bounds the box.  `Nest`: the running
loops stand on the grid of the clipped box.  `Walked`: the points of the current
cube that precede `iter[1..level]` lexicographically have been tried; entering a
loop extends the prefix by nothing (`DescendInv`), leaving one turns "all of this
loop" into "one step of the outer one" (`AscendInv`), and the lemma `GridGap` says
that nothing lies between two steps of a loop.  `Swept`: all cubes of smaller
radius have been tried.  When `radius > greatest` the last cube is the whole box
clipped by nothing (`LastCube`), its grid is the caller's, and `Complete` follows.
`WithinBox` needs `Params`: the copy of the request has the caller's bounds in the
used dimensions and zeros elsewhere.  `Refinement` uses the same invariant: a
`Return` is an honest `Exhaust`, a `StopRun` a `Hit`, other calls of the function
a `Try`, the rest stutters.

*What a run finds.*  `NearestSolution`: a point stopped at lies in the cube of the
current radius, and a nearer solution would lie in a smaller one, which has been
swept without a hit.  That the radius of a point is a number at all, the least of
those that bound it, is the lemma `Least`, from the well-foundedness of `<` on the
naturals.  `CountIsExact` (`TallyInv`) keeps the set of pairs of a radius and a
solution in its cube: `total` is the cardinality of those of the cubes done
(`SolvedTo`) and of those the loops have passed in this one (`PassedBy`), and a
call of the function adds one pair or none.  A loop with step 0 that has been
entered never ends (`Stuck`), so nothing need hold of it.

*The range.*  `OffsetLeak` and `ReportedOnce` are equations between the calls.
Inside a call they must say where the difference is: `Leak` that the offset is
the engine's `_LG_LV`, one above the driver's and the leaks so far, `Kept` that
the count of the call is the growth of the result set since it began.  `RunSteps`
reduces the eleven actions of the engine to six shapes that differ in those
variables only.  `Runs` carries the whole invariant of the engine through the calls
of the driver, and `RangeTypes` its types; with it `NothingNewLeft` needs only
`AllNear`: every solution tried in this run is near a value of the set, which only
grows.  `ShownUntilFound` needs two facts about a run that is still going on: as long as no
run has returned a solution, what is printed is what the set holds, and the count is
its length until it is full (`Paired`); and the set never holds more than the runs
have returned and counted (`Held`), so that one that is not empty belongs to a sum
that is not 0.

*The logger.*  `Nesting` is not inductive: a call that was not logged at entry
might move the offset later.  `Steady` excludes it (a live call can write exactly
if its `ENTER` moved the offset, because file and tables change only when no call
is live) and `Entered` ties its column to its `_LG_LV`.  `Balanced` needs the same
equation for every live call and not only for the innermost (`Levels`: the
`_LG_LV` of a call that counts is its depth), because a return takes the offset
from the call that returns.

*The test engine.*  `Control` says where the nested loops are: the buffer is free
between the tests and taken while one runs, a subtest is open only inside a test
or after one that did not pass, and `launcher` leaves its loop with a status.
`ExceptionsRaised` needs that the status EXCEPTION is always paid for by a raise,
`MandatoryStops` that the array is `Ordered` (tests behind `i` not yet run),
`SummaryTallies` a `Tally` in which one test changes its status at a time
(`CountOne`, by cardinalities).  `NeverSeenWhereMaskSaved` shows why the
hypothesis is there: `blocked` is never set; the run `test_never_seen` shows what
happens without it.

*The error stack.*  `StackIsRaised` is not inductive: it must be known that the
array is on the heap only with more entries than the static one has room for
(`Grown`), or a later `Put` would not know which entries are junk.
`BufferIsLaunchers` is why `tf7` never catches anything, in any suite: a test has no
way to free the buffer and stay in its body, so its `try()` is refused and takes it
past its raise, to one of the steps in `Buffer`.

*The program of `error.c`.*  `ProgramInv` says, for each line of each test, what
the stack, the array, the margin and the reports of the test are there: a script is
proved line by line, as one would with assertions in the C code.  It gives
`HandedOverClean` (each script ends with a clean stack, or in a jump), `VerdictsStand`
(the value at its last line depends on nothing else; the invariant has to know it of
all seven, `Recorded`, for that no exception came before `tf1` to `tf5` is a fact
about `tf6` and `tf7`), and, because each step of a
script is something `TestEngine` leaves open to a test, `ProgramIsSuite`: the
theorems about the engine hold of the program of `error.c`.

*The sweeps.*  `SweepInv` has a part for each kind of loop.  Behind the loop
variables (the lexicographic `Before`) every point has been asked, once over ints;
over doubles the next point is at most a step and an error beyond the last.  What
has been printed is the true points so far, or the maximal runs of them that have
been closed; while `in` is set one run is open and its lower end is known.  The
place of a report among the others is a cardinality (`HitAt`, `Place`), which is
what lets the order of the reports be proved without induction over the sequence.

*The digit puzzles.*  Two properties count evaluations at the end of a search; the
invariants say which strings are behind.  For `generate` (`GenInv`) those are the
arrangements before the loop variables of the active calls, in the lexicographic
order (`Passed`): putting a digit down, or skipping one that is there, passes no
arrangement (`PassedAppend`, `PassedNext`), and the return from a complete one
passes just that one (`PassedFront`).  The operators left in the shared buffer
depend on whether the digits have been checked in the order they are given
(`FirstOps`, `LaterOps`).  A string is new because the digits and the place of the
division can be read off it (`SpelledOnce`, `DividedOnce`).  For `gen_strings`
(`PlacedInv`) a string with its places up to `p` decided is a node of a tree; the
calls still to be made are roots of disjoint subtrees (`Apart`), and what is behind
is all nodes outside them.  A call's subtree is its own node and the subtrees of
the calls it makes (`BelowCall`, `ChildrenAre`): there the budget must be just
what the operators placed so far leave of it (`IsCall`).

*The value of an expression.*  `CalcIsRight` compares the loop of `calc_string`, which
goes from left to right with two pending operators, with `Meaning`, which goes by the
grammar.  Before a senseless part is met (`Good`), `sum` is the sum of the terms
before the last one, `summul` the product of the factors before the last one,
`current` the number so far; from then on (`Lost`) the loop has answered `INT_MAX`, or
the expression has a division that is not checked.  Only the places where the last
factor and the last term begin move from turn to turn (`FactorPlaceNext`,
`TermPlaceNext`).  The proof needs induction over the string: `Stepwise` states it for
a set of naturals and not for a predicate, so that it can be cited, and shows also that
the recursive functions exist (one up to `m` extends to `m + 1`: `LoopIs`, `NumberIs`,
`ProductIs`, `SumIs`).  What remains is that the strings evaluated are expressions:
digits, with an operator or a blank before each (`SymbolsInv`).  As in the model, the
arithmetic is unbounded.

*The comparison.*  `AtEnd`: `fpos` is the length of the file at every step, since
the piece to compare always ends there: the end of what was just written, or 0 of
a file that is empty, the only one a whole file comparison reads.  Hence what is in
the buffer is what the test has written (`Wanted`).  The loop that ignores blanks
keeps `NeAt`: as many solid characters are behind `i` as behind `j`, and those in
the same place are equal; it stops where the next place differs (`NeDiffers`).  The
loop that ignores case keeps `ULikeAt`: the pattern up to `j` stands where the
search began, and all of it stands in no earlier place, which is exactly what
going back to the place after `iPrev` preserves (`ULikeNext`).

*The loader.*  `Placed`: the next turn begins at a line, or at a word of a comment
that is being read as parameters, or at the end.  A turn then takes a line that
assigns, or consumes words of comments and sets nothing (`Turn`), so the numbers
are what the lines before the position say (`WrittenTo`).  `FlagsTo` says the same of
the flags, where no comment is ever misread (`NoMisread`): the switch that is off
clears what others have set, but comes before any that sets one (`OffFirst`).  The
proof failed at first for good reason: behind a comment, a line `= = NAME` ends in a
word that is taken for a name.  TLC confirmed it, and `Assigns` excludes such a line.

Every safety invariant and action property of the passing runs is proved, those of
the logger and `NeverSeenWhereMaskSaved` under the hypotheses in the table, which are
the settings of their runs.  Only model-checked is liveness (`Terminates`, `IntervalEnds`, `EngineEnds`, `LauncherEnds`,
`SweepEnds`), which is out of this prover's reach.

## 6. Not modelled

- The arithmetic of the target functions, in doubles; their use of the result set
  is modelled.  `19task_func.c` calls `eng_check_previous` with one argument and
  does not compile.
- `compl_alg`: unfinished (`compl_newst` leaves the number of metrics unset,
  `compl_setmetric` reports "Out of metric" always) and linked by nothing.
- `checker` and `common` hold no state; `MIN` and `MAX` appear as `Smaller` and
  `Larger`.
- `log_numbers`, which nothing outside `log.c` calls; the texts and formats of the
  log, the error reports and the tests.
- `test_fopen`, `test_fclose`, and failures of `fseek` and `fread` in a comparison.
- Tasks 6, 7, 9 to 14 and perelman 92 and 97: they fill fields of an earlier
  interface of the engine (`fromX`, `stopRun`) and do not compile against the
  present headers.
- Overflow in `calc_string`: nine digits joined fit in an int, products of the
  values the programs use do too, and nothing stops a longer string.
- `change_elem` and the commented-out forms of the puzzles, which nothing calls.

## 7. Plan

Done: every component that keeps state and compiles.  What would add most next:

1. The logger's table in full: `log_modsave` and `log_modload` with their text (a
   saved file is never accepted, since `%s` swallows the separator) and `getlevel`
   over the sorted array.
2. `test_fopen` and `test_fclose` beside `Compare`, with failures of stdio.
