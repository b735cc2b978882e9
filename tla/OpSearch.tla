------------------------------ MODULE OpSearch ------------------------------
(***************************************************************************)
(* The two searches over op_sym strings: gen_strings of 91task.c and       *)
(* 93task.c, which places operators between given symbols, and generate    *)
(* with check_div of 95task.c, which places one division in every          *)
(* arrangement of the digits 1..sz.                                        *)
(***************************************************************************)
EXTENDS OpSym, Bags

CONSTANTS
  Puzzles  \* [prog, str, value, budget]: program, pattern, value sought, cnt_oper

(* A string fits in an op_sym (OP_SYM_SZ) and has digits between its        *)
(* operators (of another character calc_string would take the code); the    *)
(* one 91task.c is called with has no operators.  Beyond nine symbols what  *)
(* 95task.c puts in their places is no digit any more: not modelled.        *)
ASSUME OpSearchAssumption ==
  \A j \in Puzzles :
    /\ j.prog \in {"91", "93", "95"} /\ j.str \in Seq(STRING) /\ j.budget \in Nat
    /\ Cardinality(Symbols(j.str)) <= IF j.prog = "91" THEN 9 ELSE 99
    /\ \A i \in Symbols(j.str) : j.str[i] \in DOMAIN DigitValue
    /\ j.prog = "91" => \A i \in DOMAIN j.str : j.str[i] \notin Operators
    /\ j.prog = "95" => Cardinality(Symbols(j.str)) < Len(Digits)

VARIABLES
  puzzle,
  sym, op, pos, \* 95: the buffer shared by all calls of generate
  loops,        \* 95: the loop variable j of each call of generate
  place,        \* 95: i of check_div, or 0 outside it
  todo,         \* 91, 93: calls of gen_strings still to be made, the next one first
  res,          \* what the calls so far have found
  killed,
  seen          \* history: how often each string was evaluated

ovars == <<puzzle, sym, op, pos, loops, place, todo, res, killed, seen>>

N == Len(sym)
Positions == 1..N

OInit ==
  /\ puzzle \in Puzzles
  /\ sym = strinit(puzzle.str).sym /\ op = strinit(puzzle.str).op /\ pos = 0
  /\ loops = IF puzzle.prog = "95" THEN <<1>> ELSE <<>>
  /\ todo = IF puzzle.prog = "95" THEN <<>> ELSE <<[op |-> op, pos |-> 0, left |-> puzzle.budget]>>
  /\ place = 0 /\ res = 0 /\ killed = FALSE /\ seen = EmptyBag

(* calc_string(buf) == value, with what is printed and counted for it. *)
Evaluate(s, o) ==
  \E answer \in {Calc(s, o)} :
    /\ seen' = seen (+) SetToBag({<<s, o>>})
    /\ killed' = (answer = Fpe)
    /\ res' = IF answer = puzzle.value THEN res + 1 ELSE res

(***************************************************************************)
(* gen_strings: the string itself, then those with one more place decided, *)
(* while operators and places are left.  No operator but - before the      *)
(* first symbol; 91task.c knows + and - only.                              *)
(***************************************************************************)
Tried(p) ==
  IF p = 0 THEN <<Blank, "-">>
  ELSE IF puzzle.prog = "91" THEN <<"+", Blank, "-">>
  ELSE <<"+", Blank, "-", "*", "/">>

(* Fault: a blank uses up an operator too. *)
ChildCostly(c, o) ==
  [op |-> [c.op EXCEPT ![c.pos + 1] = o], pos |-> c.pos + 1, left |-> c.left - 1]

Child(c, o) ==
  [op |-> [c.op EXCEPT ![c.pos + 1] = o], pos |-> c.pos + 1,
   left |-> IF o = Blank THEN c.left ELSE c.left - 1]

Children(c) ==
  IF c.left > 0 /\ c.pos < N
  THEN [k \in DOMAIN Tried(c.pos) |-> Child(c, Tried(c.pos)[k])] ELSE <<>>

GenStrings ==
  /\ todo # <<>> /\ ~killed
  /\ Evaluate(sym, Head(todo).op)
  /\ todo' = Children(Head(todo)) \o Tail(todo)
  /\ UNCHANGED <<puzzle, sym, op, pos, loops, place>>

(***************************************************************************)
(* generate: the next digit not yet in front of pos is put there, and the  *)
(* call below does the rest; with all places filled, check_div.            *)
(***************************************************************************)
Generating == puzzle.prog = "95" /\ loops # <<>> /\ place = 0 /\ ~killed
J == loops[Len(loops)]
Char == Digits[J + 1]                                  \* j + 1 + '0', from j = 0
LoopNext == [loops EXCEPT ![Len(loops)] = @ + 1]

NotIn(c) == \A k \in 1..pos : sym[k] # c              \* op_sym_not_in

Extend ==
  /\ Generating /\ pos < N /\ J <= N /\ NotIn(Char)
  /\ sym' = [sym EXCEPT ![pos + 1] = Char] /\ pos' = pos + 1
  /\ loops' = Append(LoopNext, 1)
  /\ UNCHANGED <<puzzle, op, place, todo, res, killed, seen>>

Skip ==
  /\ Generating /\ pos < N /\ J <= N /\ ~NotIn(Char)
  /\ loops' = LoopNext
  /\ UNCHANGED <<puzzle, sym, op, pos, place, todo, res, killed, seen>>

(* The end of a call's loop; the caller takes its digit back. *)
Back ==
  /\ Generating /\ pos < N /\ J > N
  /\ loops' = Front(loops)
  /\ pos' = IF pos = 0 THEN 0 ELSE pos - 1
  /\ UNCHANGED <<puzzle, sym, op, place, todo, res, killed, seen>>

(* check_div: the division moves through the places after the first, and   *)
(* each turn takes back the one before it.                                 *)
CheckDiv ==
  /\ Generating /\ pos = N
  /\ place' = 1
  /\ UNCHANGED <<puzzle, sym, op, pos, loops, todo, res, killed, seen>>

DivideStaying ==                      \* fault: the place before keeps its division
  /\ place \in 1..(N - 1) /\ ~killed
  /\ op' = [op EXCEPT ![place + 1] = "/"]
  /\ Evaluate(sym, op')
  /\ place' = place + 1
  /\ UNCHANGED <<puzzle, sym, pos, loops, todo>>

Divide ==
  /\ place \in 1..(N - 1) /\ ~killed
  /\ op' = [op EXCEPT ![place + 1] = "/", ![place] = Blank]
  /\ Evaluate(sym, op')
  /\ place' = place + 1
  /\ UNCHANGED <<puzzle, sym, pos, loops, todo>>

Divided ==
  /\ place # 0 /\ place >= N /\ ~killed
  /\ op' = IF N = 0 THEN op ELSE [op EXCEPT ![place] = Blank]
  /\ place' = 0
  /\ loops' = Front(loops) /\ pos' = IF pos = 0 THEN 0 ELSE pos - 1
  /\ UNCHANGED <<puzzle, sym, todo, res, killed, seen>>

Done == todo = <<>> /\ loops = <<>>
Finished == (Done \/ killed) /\ UNCHANGED ovars

ONext == GenStrings \/ Extend \/ Skip \/ Back \/ CheckDiv \/ Divide \/ Divided \/ Finished

OSpec == OInit /\ [][ONext]_ovars

(***************************************************************************)
(* Properties.                                                             *)
(***************************************************************************)
Pattern == strinit(puzzle.str).op

(* A division is the last operation of a term that is not the last one.     *)
Unchecked(o, a) ==
  o[a] = "/" /\ \E b \in (a + 1)..Len(o) : o[b] \in Signs /\ \A k \in (a + 1)..(b - 1) : o[k] = Blank

(* calc_string computes what an expression means, with the precedence of    *)
(* * and / over + and - and every division exact, or answers INT_MAX; only  *)
(* a division right before a + or - escapes the check, and is truncated or  *)
(* ends the program.                                                        *)
CalcMeans ==
  Done \/ killed =>
    \A e \in BagToSet(seen) :
      LET s == e[1] o == e[2] IN
      IF Meaning(s, o) # Senseless THEN Calc(s, o) = Meaning(s, o)
      ELSE Calc(s, o) = Undefined \/ \E a \in DOMAIN o : Unchecked(o, a)

(* The lengths at which a prefix of o can have been decided: the rest is    *)
(* the pattern's, operators were left before its last place.                *)
Used(o, p) == Cardinality({k \in 1..p : o[k] # Blank})
Decided(o) ==
  {p \in 0..N : /\ \A k \in (p + 1)..N : o[k] = Pattern[k]
                /\ p > 0 => Used(o, p - 1) < puzzle.budget /\ o[1] \in {Blank, "-"}}

Strings == [Positions -> (IF puzzle.prog = "91" THEN Signs ELSE Operators) \union {Blank}]
Times(e) == IF e \in DOMAIN seen THEN seen[e] ELSE 0

(* gen_strings evaluates every string with at most cnt_oper operators, and  *)
(* each as often as it is reached with a different number of places         *)
(* decided: "%d was found" counts a solution once for each.                 *)
CheckedExactly ==
  puzzle.prog # "95" /\ Done /\ ~killed =>
    /\ \A o \in Strings : Times(<<sym, o>>) = Cardinality(Decided(o))
    /\ res = Cardinality(UNION {{<<o, p>> : p \in Decided(o)} :
                                  o \in {x \in Strings : Calc(sym, x) = puzzle.value}})

(* What generate puts into the buffer, and where check_div puts a division; *)
(* the operators of the pattern survive only into the first arrangement.    *)
Arrangements == {p \in [Positions -> Positions] : \A a, b \in Positions : p[a] = p[b] => a = b}
Spelled(p) == [k \in Positions |-> Digits[p[k] + 1]]
DividedAt(p, i) ==
  [k \in Positions |-> IF k = i THEN "/"
                       ELSE IF k > i /\ \A a \in Positions : p[a] = a THEN Pattern[k] ELSE Blank]

(* generate and check_div, sharing one buffer, evaluate every arrangement   *)
(* of the digits with the division at every place, and no string twice.     *)
EachOnce ==
  puzzle.prog = "95" /\ Done =>
    seen = SetToBag({<<Spelled(p), DividedAt(p, i)>> : p \in Arrangements, i \in 2..N})
=============================================================================
