------------------------------- MODULE OpSym -------------------------------
(***************************************************************************)
(* The digit strings with operators of perelman/src/91task.c, 93task.c and *)
(* 95task.c: struct op_sym, how op_sym_strinit reads one, and calc_string. *)
(* op[i] stands before sym[i]; a blank joins sym[i] to the number before.  *)
(*                                                                         *)
(* The int arithmetic is unbounded here: the programs' numbers have at     *)
(* most nine digits.                                                       *)
(***************************************************************************)
EXTENDS Integers, Sequences, FiniteSets, SequencesExt

CONSTANTS
  Undefined,  \* INT_MAX, "marker for undefined value"
  Fpe,        \* no answer: the division by zero ends the program with SIGFPE
  Senseless   \* the meaning of an expression with an inexact division

ASSUME OpSymAssumption ==
  {Undefined, Fpe, Senseless} \intersect Int = {} /\ Undefined # Fpe

Signs == {"+", "-"}
Factors == {"*", "/"}
Operators == Signs \union Factors
Blank == " "

Digits == <<"0", "1", "2", "3", "4", "5", "6", "7", "8", "9">>
DigitValue == [c \in {Digits[k] : k \in DOMAIN Digits} |-> (CHOOSE k \in DOMAIN Digits : Digits[k] = c) - 1]

(* op_sym_strinit: an operator waits for the next symbol; of several in a   *)
(* row the last one counts, one at the end is dropped.  (The copy in        *)
(* 91task.c blanks the operator when its symbol comes, but is only called   *)
(* with "123456789".)                                                       *)
Symbols(str) == {i \in DOMAIN str : str[i] \notin Operators}

strinit(str) ==
  LET sz == Cardinality(Symbols(str))
      at(k) == CHOOSE i \in Symbols(str) : Cardinality({j \in Symbols(str) : j <= i}) = k
      waits(i) == i > 1 /\ str[i - 1] \in Operators
  IN [sym |-> [k \in 1..sz |-> str[at(k)]],
      op |-> [k \in 1..sz |-> IF waits(at(k)) THEN str[at(k) - 1] ELSE Blank]]

(***************************************************************************)
(* calc_string.  The state of its loop; stop is "no", "undefined" for the  *)
(* early return of INT_MAX, or "fpe" for a division by zero.               *)
(***************************************************************************)
LoopStart == [sum |-> 0, summul |-> 1, current |-> 0, op |-> "+", opmul |-> Blank, stop |-> "no"]

Pending(s) == s.opmul \in Factors
Plus(s) == IF s.op = "+" THEN s.sum + s.current ELSE s.sum - s.current

(* A pending * or / applied after a check that the division is exact. *)
Multiply(s) ==
  IF s.opmul = "*" THEN [s EXCEPT !.summul = @ * s.current]
  ELSE IF s.current = 0 \/ s.summul % s.current > 0 THEN [s EXCEPT !.stop = "undefined"]
  ELSE [s EXCEPT !.summul = @ \div s.current]

(* The same before + and -: nothing is checked.                            *)
MultiplyBlindly(s) ==
  IF s.opmul = "*" THEN [s EXCEPT !.summul = @ * s.current]
  ELSE IF s.current = 0 THEN [s EXCEPT !.stop = "fpe"]
  ELSE [s EXCEPT !.summul = @ \div s.current]

(* Fault: the pending factor is applied and stays pending. *)
AtSignPending(s, c, d) ==
  LET t == IF Pending(s) THEN MultiplyBlindly(s) ELSE s
      u == IF Pending(s) THEN [t EXCEPT !.current = t.summul, !.summul = 1] ELSE s
  IN [u EXCEPT !.sum = Plus(u), !.op = c, !.current = d]

AtSign(s, c, d) ==
  LET t == IF Pending(s) THEN MultiplyBlindly(s) ELSE s
      u == IF Pending(s) THEN [t EXCEPT !.current = t.summul, !.summul = 1, !.opmul = Blank]
           ELSE s
  IN [u EXCEPT !.sum = Plus(u), !.op = c, !.current = d]

AtFactor(s, c, d) ==
  LET t == IF Pending(s) THEN Multiply(s) ELSE [s EXCEPT !.summul = s.current]
  IN [t EXCEPT !.opmul = c, !.current = d]

AtDigit(s, d) == [s EXCEPT !.current = @ * 10 + d]

Turn(s, c, d) ==
  IF s.stop # "no" THEN s
  ELSE IF c \in Signs THEN AtSign(s, c, d)
  ELSE IF c \in Factors THEN AtFactor(s, c, d)
  ELSE AtDigit(s, d)

(* The state after each turn. *)
Loop(sym, op) ==
  LET state[i \in 0..Len(sym)] ==
        IF i = 0 THEN LoopStart ELSE Turn(state[i - 1], op[i], DigitValue[sym[i]])
  IN state

Calc(sym, op) ==
  LET s == Loop(sym, op)[Len(sym)]
      t == IF s.stop = "no" /\ Pending(s) THEN Multiply(s) ELSE s
      u == IF Pending(s) THEN [t EXCEPT !.current = t.summul] ELSE t
  IN IF u.stop = "fpe" THEN Fpe ELSE IF u.stop = "undefined" THEN Undefined ELSE Plus(u)

(***************************************************************************)
(* What an expression means, by its grammar: a sum of terms, a term a      *)
(* chain of factors from left to right, a factor a run of digits.          *)
(***************************************************************************)
(* The first places of the last factor and of the last term up to b. *)
FactorAt(op, b) == Max({1} \union {i \in 1..b : op[i] # Blank})
TermAt(op, b) == Max({1} \union {i \in 1..b : op[i] \in Signs})

(* The number from place a up to each place. *)
Number(sym, a) ==
  LET number[b \in 0..Len(sym)] ==
        IF b < a THEN 0 ELSE number[b - 1] * 10 + DigitValue[sym[b]]
  IN number

(* Value of a division, if it is defined. *)
Exact(m, n) == n # 0 /\ m % n = 0

(* The value of the last term up to each place. *)
Product(sym, op) ==
  LET product[b \in 0..Len(sym)] ==
        IF b = 0 THEN 0
        ELSE LET a == FactorAt(op, b) n == Number(sym, a)[b] left == product[a - 1] IN
             IF op[a] \notin Factors THEN n
             ELSE IF left = Senseless THEN Senseless
             ELSE IF op[a] = "*" THEN left * n
             ELSE IF Exact(left, n) THEN left \div n ELSE Senseless
  IN product

Sum(sym, op) ==
  LET sum[b \in 0..Len(sym)] ==
        IF b = 0 THEN 0
        ELSE LET a == TermAt(op, b) left == sum[a - 1] n == Product(sym, op)[b] IN
             IF Senseless \in {left, n} THEN Senseless
             ELSE IF op[a] = "-" THEN left - n ELSE left + n
  IN sum

Meaning(sym, op) == Sum(sym, op)[Len(sym)]
=============================================================================
