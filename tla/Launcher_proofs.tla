-------------------------- MODULE Launcher_proofs --------------------------
(***************************************************************************)
(* What the loader has made of a file, for every file, every Number and    *)
(* all words that begin with a # or a =: at each step of its loop the      *)
(* request is what the lines before the position say, although the loader  *)
(* takes no notice of lines, and reads some comments as parameters.        *)
(***************************************************************************)
EXTENDS Launcher, SequenceTheorems, WellFoundedInduction, TLAPS

L == Len(file)

(* Where a turn of the loop may begin: at a line, or at a word of a comment *)
(* that the loader has begun to read.                                       *)
AtLine == \E l \in 1..L : pos = <<l, 1>>
InComment ==
  \E l \in 1..L : \E k \in 2..Len(file[l]) :
    /\ pos = <<l, k>> /\ Harmless(file[l])
    /\ \A m \in 1..Len(file[l]) : ~Equals(file[l][m])
Placed == pos = EOF \/ AtLine \/ InComment

(* What the lines before a line say of a parameter.                         *)
Earlier(f, l, p) == {k \in Lines(f, {p}) : k < l}
LastOf(f, at, default) ==
  IF at = {} THEN default ELSE Value(f, CHOOSE j \in at : \A k \in at : k <= j)
WrittenTo(f, l, p, default) == LastOf(f, Earlier(f, l, p), default)

Control ==
  /\ pc = "main" => pos = <<1, 1>> /\ flags = {"PRINT"}
  /\ pc = "check" => pos = EOF \/ (pos = <<1, 1>> /\ "ERROR" \in flags)
  /\ pc = "run" => pos = EOF

LoadInv ==
  /\ file \in Files /\ DOMAIN num = Numbers /\ Control
  /\ Tidy(file) => Placed /\ \A p \in Numbers : num[p] = WrittenTo(file, pos[1], p, Default(p))

(* What they say of the flags.                                              *)
NoneBefore(l, S) == \A k \in S : l <= k
StopsOff(f) == {k \in Lines(f, {"STOPRUN"}) : Value(f, k) = 0}

FlagsTo(f, l, fl) ==
  /\ "STOP_RUN" \in fl <=> WrittenTo(f, l, "STOPRUN", 0) # 0
  /\ WrittenTo(f, l, "PRINTFLAG", 1) # 0
  /\ "PRINT" \in fl <=> NoneBefore(l, StopsOff(f)) \/ ~NoneBefore(l, Lines(f, {"PRINTFLAG"}))
  /\ "TARGET_VALUE" \in fl <=> ~NoneBefore(l, Lines(f, {"TARGETVALUE"}))
  /\ "ERROR" \in fl <=> ~NoneBefore(l, Unknown(f))

Unrefused == pc \in {"main", "load"} \/ Complete \/ (pc = "check" /\ "ERROR" \notin flags)

FlagsInv ==
  Tidy(file) /\ Separated(file) /\ Conventional(file) /\ ~Strict /\ Unrefused =>
    /\ pos[2] = 1 /\ (pos = <<1, 1>> \/ pos = EOF \/ file[pos[1]] # <<>>)
    /\ FlagsTo(file, pos[1], flags)

-----------------------------------------------------------------------------
(* A set of natural numbers has a least element. *)
LEMMA Least == ASSUME NEW S \in SUBSET Nat, S # {} PROVE \E m \in S : \A k \in S : m <= k
<1>1. PICK m \in S : \A k \in S : ~ (<<k, m>> \in OpToRel(<, Nat))
  BY NatLessThanWellFounded, WFMin
<1>2. ASSUME NEW k \in S PROVE m <= k
  <2>1. k \in Nat /\ m \in Nat OBVIOUS
  <2>2. ~(k < m) BY <1>1, <2>1 DEF OpToRel
  <2>3. QED BY <2>1, <2>2
<1>3. QED BY <1>2

LEMMA Typed ==
  ASSUME file \in Files
  PROVE  /\ L \in Nat
         /\ \A l \in 1..L : /\ file[l] \in Seq(STRING) /\ Len(file[l]) \in Nat
                            /\ file[l] = <<>> <=> Len(file[l]) = 0
<1>1. file \in Seq(Seq(STRING)) BY LauncherAssumption
<1>2. L \in Nat /\ \A l \in 1..L : file[l] \in Seq(STRING) BY <1>1 DEF L
<1>3. \A w \in Seq(STRING) : Len(w) \in Nat /\ (w = <<>> <=> Len(w) = 0) OBVIOUS
<1> QED BY <1>2, <1>3

(* The next line that is not blank, or the end of the file. *)
NextLine(l, m) ==
  /\ m \in l..(L + 1) /\ (m <= L => file[m] # <<>>)
  /\ \A k \in l..(m - 1) : file[k] = <<>>

LEMMA WordIn ==
  ASSUME file \in Files, NEW l \in 1..L, NEW k \in 1..Len(file[l])
  PROVE  WordFrom(<<l, k>>) = <<l, k>> /\ AtWord(<<l, k>>)
<1>1. AtWord(<<l, k>>) BY Typed DEF AtWord, L
<1> QED BY <1>1 DEF WordFrom

(* Behind the last word of a line, fscanf finds the next line. *)
LEMMA WordBehind ==
  ASSUME file \in Files, NEW l \in 1..L, NEW k \in Nat, k > Len(file[l])
  PROVE  \E m : NextLine(l + 1, m) /\ WordFrom(<<l, k>>) = <<m, 1>>
<1> DEFINE later == {j \in (l + 1)..Len(file) : file[j] # <<>>}
<1>1. L \in Nat /\ Len(file[l]) \in Nat /\ L = Len(file) BY Typed DEF L
<1>2. ~AtWord(<<l, k>>) BY <1>1 DEF AtWord
<1>3. CASE later = {}
  <2>1. WordFrom(<<l, k>>) = EOF BY <1>2, <1>3 DEF WordFrom
  <2>2. \A j \in (l + 1)..L : file[j] = <<>> BY <1>1, <1>3
  <2>3. NextLine(l + 1, L + 1) BY <1>1, <2>2 DEF NextLine
  <2> QED BY <1>1, <2>1, <2>3 DEF EOF
<1>4. CASE later # {}
  <2> DEFINE P(j) == j \in later /\ \A i \in later : j <= i
             m == CHOOSE j \in later : \A i \in later : j <= i
  <2>1. later \in SUBSET Nat BY <1>1
  <2>2. m \in later /\ \A i \in later : m <= i
    <3>1. \E j \in later : \A i \in later : j <= i BY <1>4, <2>1, Least
    <3> QED BY <3>1, Zenon
  <2>3. WordFrom(<<l, k>>) = <<m, 1>> BY <1>2, <1>4 DEF WordFrom
  <2> HIDE DEF m
  <2>4. m \in (l + 1)..L /\ file[m] # <<>> BY <1>1, <2>2
  <2>5. ASSUME NEW j \in (l + 1)..(m - 1) PROVE file[j] = <<>>
    <3>1. j \in (l + 1)..Len(file) /\ ~(m <= j) BY <1>1, <2>4
    <3> QED BY <2>2, <3>1
  <2>6. NextLine(l + 1, m) BY <1>1, <2>4, <2>5 DEF NextLine
  <2> QED BY <2>3, <2>6
<1> QED BY <1>3, <1>4

(* The first word of a line, or of one behind it. *)
LEMMA WordOfLine ==
  ASSUME file \in Files, NEW l \in 1..(L + 1)
  PROVE  \E m : NextLine(l, m) /\ WordFrom(<<l, 1>>) = <<m, 1>>
<1>1. L \in Nat /\ L = Len(file) BY Typed DEF L
<1>2. CASE l = L + 1
  <2>1. ~AtWord(<<l, 1>>) BY <1>1, <1>2 DEF AtWord
  <2>2. {j \in (l + 1)..Len(file) : file[j] # <<>>} = {} BY <1>1, <1>2
  <2>3. WordFrom(<<l, 1>>) = EOF BY <2>1, <2>2 DEF WordFrom
  <2>4. NextLine(l, l) BY <1>1, <1>2 DEF NextLine
  <2> QED BY <1>1, <1>2, <2>3, <2>4 DEF EOF
<1>3. CASE l \in 1..L /\ file[l] # <<>>
  <2>1. 1 \in 1..Len(file[l]) BY <1>3, Typed
  <2>2. WordFrom(<<l, 1>>) = <<l, 1>> BY <1>3, <2>1, WordIn
  <2>3. NextLine(l, l) BY <1>1, <1>3 DEF NextLine
  <2> QED BY <2>2, <2>3
<1>4. CASE l \in 1..L /\ file[l] = <<>>
  <2>1. 1 > Len(file[l]) BY <1>4, Typed
  <2>2. PICK m : NextLine(l + 1, m) /\ WordFrom(<<l, 1>>) = <<m, 1>> BY <1>4, <2>1, WordBehind
  <2>3. \A k \in l..(m - 1) : k = l \/ k \in (l + 1)..(m - 1) BY <2>2 DEF NextLine
  <2>4. m \in l..(L + 1) BY <1>1, <2>2 DEF NextLine
  <2>5. NextLine(l, m) BY <1>4, <2>2, <2>3, <2>4 DEF NextLine
  <2> QED BY <2>2, <2>5
<1> QED BY <1>1, <1>2, <1>3, <1>4

-----------------------------------------------------------------------------
(* No line from one to another sets a parameter; they are blank or comments. *)
NoAssign(a, b) == \A k \in a..(b - 1) : ~Assigns(file[k])
Idle(a, b) == \A k \in a..(b - 1) : file[k] = <<>> \/ Comment(file[k])

LEMMA LineKinds ==
  ASSUME file \in Files, Tidy(file), NEW l \in 1..L
  PROVE  /\ file[l] = <<>> => ~Assigns(file[l])
         /\ Comment(file[l]) => Harmless(file[l]) /\ ~Assigns(file[l])
         /\ file[l] # <<>> => Assigns(file[l]) \/ Harmless(file[l])
         /\ Harmless(file[l]) => Comment(file[l]) /\ Hash(file[l][1]) /\ 1 \in 1..Len(file[l])
         /\ Assigns(file[l]) => ~Hash(file[l][1]) /\ 1 \in 1..Len(file[l])
<1>1. file[l] = <<>> \/ Assigns(file[l]) \/ Harmless(file[l]) BY DEF Tidy, L
<1>2. file[l] = <<>> <=> Len(file[l]) = 0 BY Typed
<1>3. Len(file[l]) \in Nat BY Typed
<1> QED BY <1>1, <1>2, <1>3 DEF Assigns, Harmless, Comment

LEMMA BlankLines ==
  ASSUME file \in Files, Tidy(file), NEW a \in 1..(L + 1), NEW b, NextLine(a, b)
  PROVE  /\ b \in Nat /\ b >= a /\ b <= L + 1
         /\ NoAssign(a, b) /\ Idle(a, b)
<1>1. L \in Nat BY Typed
<1>2. \A k \in a..(b - 1) : k \in 1..L /\ file[k] = <<>> BY <1>1 DEF NextLine
<1>3. NoAssign(a, b) BY <1>2, LineKinds DEF NoAssign
<1>4. Idle(a, b) BY <1>2 DEF Idle
<1> QED BY <1>1, <1>3, <1>4 DEF NextLine

(* The word that a turn takes for a name: none is left, or one of a comment *)
(* that is being read, or the first of a line; of a comment only behind     *)
(* another one, or behind blanks.                                           *)
NameFound(name) ==
  \/ name = EOF /\ NoAssign(pos[1], L + 1)
  \/ name = pos /\ InComment
  \/ \E m \in pos[1]..L :
       /\ name = <<m, 1>> /\ NoAssign(pos[1], m)
       /\ \/ Assigns(file[m])
          \/ Harmless(file[m]) /\ (pos[2] # 1 \/ (m > pos[1] /\ Idle(pos[1], m)))

LEMMA NameFrom ==
  ASSUME file \in Files, Tidy(file), NEW l \in 1..L, pos[1] = l,
         NEW a \in l..(l + 1), a = l => file[l] = <<>> \/ Assigns(file[l]),
         a = l + 1 => Comment(file[l])
  PROVE  NameFound(WordFrom(<<a, 1>>))
<1>1. L \in Nat BY Typed
<1>2. PICK b : NextLine(a, b) /\ WordFrom(<<a, 1>>) = <<b, 1>> BY <1>1, WordOfLine
<1>3. b \in Nat /\ b >= a /\ b <= L + 1 /\ NoAssign(a, b) /\ Idle(a, b) BY <1>1, <1>2, BlankLines
<1>4. a = l + 1 => Comment(file[l]) /\ ~Assigns(file[l]) BY LineKinds
<1>5. \A k \in l..(b - 1) : k \in a..(b - 1) \/ (k = l /\ a = l + 1) BY <1>3
<1>6. NoAssign(l, b) /\ Idle(l, b) BY <1>3, <1>4, <1>5 DEF NoAssign, Idle
<1>7. CASE b = L + 1 BY <1>2, <1>6, <1>7 DEF NameFound, EOF, L
<1>8. CASE b <= L
  <2>1. file[b] # <<>> BY <1>2, <1>8 DEF NextLine
  <2>2. b \in 1..L BY <1>1, <1>3, <1>8
  <2>3. Assigns(file[b]) \/ Harmless(file[b]) BY <2>1, <2>2, LineKinds
  <2>4. Assigns(file[b]) \/ b > l
    <3>1. CASE b > a BY <1>3, <3>1
    <3>2. CASE b = a /\ a = l BY <2>1, <3>2
    <3>3. CASE b = a /\ a = l + 1 BY <3>3
    <3> QED BY <1>3, <3>1, <3>2, <3>3
  <2>5. b \in l..L BY <1>1, <1>3, <1>8
  <2> QED BY <1>2, <1>6, <2>3, <2>4, <2>5 DEF NameFound
<1> QED BY <1>1, <1>3, <1>7, <1>8

LEMMA NameOf ==
  ASSUME file \in Files, Tidy(file), Placed, pos # EOF
  PROVE  NameFound(WordFrom(Skip)) /\ pos[1] \in 1..L
<1>1. L \in Nat BY Typed
<1>2. CASE AtLine
  <2>1. PICK l \in 1..L : pos = <<l, 1>> BY <1>2 DEF AtLine
  <2>2. pos[1] = l /\ pos[2] = 1 /\ Len(file[l]) \in Nat /\ WordAt(pos) = file[l][1]
    BY <2>1, Typed DEF WordAt
  <2>3. AtWord(pos) <=> file[l] # <<>> BY <1>1, <2>1, <2>2, Typed DEF AtWord, L
  <2>4. CASE file[l] = <<>> \/ Assigns(file[l])
    <3>1. Skip = <<l, 1>> BY <2>1, <2>2, <2>3, <2>4, LineKinds DEF Skip
    <3>2. l \in l..(l + 1) /\ l # l + 1 OBVIOUS
    <3> QED BY <2>2, <2>4, <3>1, <3>2, NameFrom
  <2>5. CASE Harmless(file[l])
    <3>1. Skip = <<l + 1, 1>> BY <2>1, <2>2, <2>3, <2>5, LineKinds DEF Skip
    <3>2. l + 1 \in l..(l + 1) /\ l # l + 1 OBVIOUS
    <3>3. Comment(file[l]) BY <2>5, LineKinds
    <3> QED BY <2>2, <3>1, <3>2, <3>3, NameFrom
  <2> QED BY <2>2, <2>4, <2>5, LineKinds
<1>3. CASE InComment
  <2>1. PICK l \in 1..L : \E k \in 2..Len(file[l]) : pos = <<l, k>> /\ Harmless(file[l])
    BY <1>3 DEF InComment
  <2>2. PICK k \in 2..Len(file[l]) : pos = <<l, k>> BY <2>1
  <2>3. pos[1] = l /\ pos[2] = k /\ Len(file[l]) \in Nat BY <2>2, Typed
  <2>4. k \in 1..Len(file[l]) BY <2>3
  <2>5. WordFrom(pos) = pos /\ AtWord(pos) BY <2>2, <2>4, WordIn
  <2>6. CASE Hash(WordAt(pos))
    <3>1. Skip = <<l + 1, 1>> BY <2>3, <2>5, <2>6 DEF Skip
    <3>2. l + 1 \in l..(l + 1) /\ l # l + 1 OBVIOUS
    <3>3. Comment(file[l]) BY <2>1, LineKinds
    <3> QED BY <2>3, <3>1, <3>2, <3>3, NameFrom
  <2>7. CASE ~Hash(WordAt(pos))
    <3>1. Skip = pos BY <2>7 DEF Skip
    <3> QED BY <1>3, <2>3, <2>5, <3>1 DEF NameFound
  <2> QED BY <2>6, <2>7
<1> QED BY <1>2, <1>3 DEF Placed

-----------------------------------------------------------------------------
(* A turn of the loop: it finds nothing more; it reads a part of a comment  *)
(* as a parameter; or it reads a line that sets one.                        *)
Nothing == pos' = EOF /\ UNCHANGED config /\ NoAssign(pos[1], L + 1)

Misread ==
  /\ Placed' /\ pos'[1] \in pos[1]..(L + 1) /\ NoAssign(pos[1], pos'[1])
  /\ num' = num
  /\ pos[2] # 1 \/ \E m \in (pos[1] + 1)..L : Comment(file[m]) /\ Idle(pos[1], m)

ReadLine ==
  \E m \in pos[1]..L, n \in Nat :
    /\ Assigns(file[m]) /\ NoAssign(pos[1], m)
    /\ NextLine(m + 1, n) /\ pos' = <<n, 1>>
    /\ Apply(file[m][1], Value(file, m))

LEMMA AtNextLine ==
  ASSUME file \in Files, file' = file, NEW a \in 1..(L + 1), NEW b, NextLine(a, b), pos' = <<b, 1>>
  PROVE  Placed'
<1>1. L \in Nat /\ L' = L BY Typed DEF L
<1>2. CASE b = L + 1 BY <1>1, <1>2 DEF Placed, EOF, L
<1>3. CASE b # L + 1
  <2>1. b \in 1..L' BY <1>1, <1>3 DEF NextLine
  <2> QED BY <2>1 DEF Placed, AtLine
<1> QED BY <1>2, <1>3

(* The words of a line that sets a parameter are read as it says.           *)
LEMMA LineTurn ==
  ASSUME file \in Files, Read, NEW m \in 1..L, Assigns(file[m]), WordFrom(Skip) = <<m, 1>>
  PROVE  /\ \E n \in Nat : NextLine(m + 1, n) /\ pos' = <<n, 1>>
         /\ Apply(file[m][1], Value(file, m))
<1> DEFINE name == <<m, 1>>
           eq == <<m, 2>>
           value == <<m, 3>>
<1>1. L \in Nat /\ Len(file[m]) = 3 /\ file[m][2] = "=" BY Typed DEF Assigns
<1>2. WordFrom(After(name)) = eq BY <1>1, WordIn DEF After
<1>3. WordFrom(After(eq)) = value BY <1>1, WordIn DEF After
<1>4. PICK n : NextLine(m + 1, n) /\ WordFrom(After(value)) = <<n, 1>>
  <2>1. 4 \in Nat /\ 4 > Len(file[m]) BY <1>1
  <2>2. \E n : NextLine(m + 1, n) /\ WordFrom(<<m, 4>>) = <<n, 1>> BY <2>1, WordBehind
  <2>3. After(value) = <<m, 4>> BY DEF After
  <2> QED BY <2>2, <2>3
<1>5. n \in Nat BY <1>1, <1>4 DEF NextLine
<1>6. name # EOF /\ eq # EOF /\ value # EOF BY <1>1 DEF EOF, L
<1>7. Sign(eq) /\ Behind(WordAt(eq)) = "" BY <1>1, <1>6, LauncherAssumption DEF Sign, WordAt
<1>8. WordAt(name) = file[m][1] /\ WordAt(value) = file[m][3] BY DEF WordAt
<1> HIDE DEF name, eq, value
<1>9. pos' = WordFrom(After(value)) /\ Assign(name, WordAt(value))
  BY <1>2, <1>3, <1>6, <1>7 DEF Read, name
<1>10. Apply(file[m][1], Number(file[m][3])) BY <1>8, <1>9 DEF Assign
<1> QED BY <1>4, <1>5, <1>9, <1>10 DEF Value

(* A word of a comment that is taken for a name sets nothing, and the next  *)
(* turn begins at the word behind it, or behind the comment.                *)
LEMMA CommentTurn ==
  ASSUME file \in Files, Tidy(file), Read, NEW m \in 1..L, Harmless(file[m]),
         NEW k \in 1..Len(file[m]), WordFrom(Skip) = <<m, k>>,
         k # 1 => \A j \in 1..Len(file[m]) : ~Equals(file[m][j])
  PROVE  /\ Placed' /\ pos'[1] \in m..(L + 1) /\ NoAssign(m, pos'[1])
         /\ num' = num
<1> DEFINE name == <<m, k>>
           eq == WordFrom(After(name))
           value == WordFrom(After(eq))
<1>1. L \in Nat /\ Len(file[m]) \in Nat BY Typed
<1>2. name # EOF /\ WordAt(name) \notin Known BY DEF EOF, L, WordAt, Harmless
<1>3. file' = file BY DEF Read
<1>4. ~Assigns(file[m]) BY LineKinds
<1>5. ASSUME NEW n, NextLine(m + 1, n), pos' = <<n, 1>>
      PROVE  Placed' /\ pos'[1] \in m..(L + 1) /\ NoAssign(m, pos'[1])
  <2>1. n \in Nat /\ n >= m + 1 /\ n <= L + 1 /\ NoAssign(m + 1, n) BY <1>1, <1>5, BlankLines
  <2>2. \A j \in m..(n - 1) : j = m \/ j \in (m + 1)..(n - 1) BY <2>1
  <2>3. NoAssign(m, n) BY <1>4, <2>1, <2>2 DEF NoAssign
  <2>4. Placed' BY <1>1, <1>3, <1>5, AtNextLine
  <2> QED BY <1>5, <2>1, <2>3, <2>4
<1>6. num' = num
  <2>1. \E n : Apply(WordAt(name), n) BY <1>2 DEF Read, Assign
  <2> QED BY <1>2, <2>1 DEF Apply, Known
<1>7. CASE k = Len(file[m])
  <2>1. PICK n : NextLine(m + 1, n) /\ eq = <<n, 1>> BY <1>1, <1>7, WordBehind DEF After
  <2>2. ~Sign(eq)
    <3>1. SUFFICES ASSUME eq # EOF PROVE ~Equals(file[n][1]) BY <2>1 DEF Sign, WordAt
    <3>2. n \in 1..L BY <1>1, <2>1, <3>1 DEF NextLine, EOF, L
    <3>3. file[n] # <<>> BY <2>1, <3>2 DEF NextLine
    <3>4. Assigns(file[n]) \/ Hash(file[n][1]) BY <3>2, <3>3, LineKinds
    <3>5. 1 \in 1..Len(file[n]) BY <3>2, <3>3, LineKinds
    <3>6. ~(Hash(file[n][1]) /\ Equals(file[n][1])) BY <3>2, <3>5, LauncherAssumption DEF L
    <3> QED BY <3>4, <3>6 DEF Assigns
  <2>3. pos' = eq BY <1>2, <2>2 DEF Read, Mismatch
  <2> QED BY <1>5, <1>6, <2>1, <2>3
<1>8. CASE k < Len(file[m])
  <2>1. eq = <<m, k + 1>> BY <1>1, <1>8, WordIn DEF After
  <2>2. eq # EOF /\ WordAt(eq) = file[m][k + 1] BY <2>1 DEF EOF, L, WordAt
  <2>3. CASE Equals(file[m][k + 1])
    <3>0. Len(file[m]) = 3 /\ file[m][2] = "="
      <4>1. k + 1 \in 1..Len(file[m]) BY <1>1, <1>8
      <4> QED BY <2>3, <4>1 DEF Harmless
    <3>1. Len(file[m]) = 3 /\ k = 1 BY <1>1, <1>8, <2>3, <3>0
    <3>2. value = <<m, 3>>
      <4>1. After(eq) = <<m, 3>> BY <2>1, <3>1 DEF After
      <4>2. 3 \in 1..Len(file[m]) BY <3>1
      <4>3. WordFrom(<<m, 3>>) = <<m, 3>> BY <4>2, WordIn, Zenon
      <4> QED BY <4>1, <4>3
    <3>3. value # EOF BY <3>2 DEF EOF, L
    <3>4. PICK n : NextLine(m + 1, n) /\ WordFrom(After(value)) = <<n, 1>>
      <4>1. 4 \in Nat /\ 4 > Len(file[m]) BY <3>1
      <4>2. \E n : NextLine(m + 1, n) /\ WordFrom(<<m, 4>>) = <<n, 1>> BY <4>1, WordBehind
      <4>3. After(value) = <<m, 4>> BY <3>2 DEF After
      <4> QED BY <4>2, <4>3
    <3>5. Sign(eq) /\ Behind(WordAt(eq)) = ""
      <4>1. WordAt(eq) = "=" BY <2>2, <3>0, <3>1
      <4> HIDE DEF eq
      <4> QED BY <2>2, <4>1, LauncherAssumption DEF Sign
    <3>6. pos' = WordFrom(After(value)) BY <1>2, <3>3, <3>5 DEF Read
    <3> QED BY <1>5, <1>6, <3>4, <3>6
  <2>4. CASE ~Equals(file[m][k + 1])
    <3>1. ~Sign(eq) BY <2>2, <2>4 DEF Sign
    <3>2. pos' = <<m, k + 1>> BY <1>2, <2>1, <3>1 DEF Read, Mismatch
    <3>3. \A j \in 1..Len(file[m]) : ~Equals(file[m][j])
      <4>1. SUFFICES ASSUME NEW j \in 1..Len(file[m]), Equals(file[m][j]) PROVE FALSE OBVIOUS
      <4>2. Len(file[m]) = 3 /\ file[m][2] = "=" BY <4>1 DEF Harmless
      <4>3. k = 1 \/ k = 2 BY <1>1, <1>8, <4>2
      <4>4. CASE k = 1
        <5>1. k + 1 = 2 BY <4>4
        <5>2. Equals(file[m][2]) BY <4>2, LauncherAssumption, Zenon
        <5> QED BY <2>4, <5>1, <5>2, Zenon
      <4>5. CASE k = 2 BY <4>1, <4>5
      <4> QED BY <4>3, <4>4, <4>5
    <3>4. k + 1 \in 2..Len(file[m]) BY <1>1, <1>8
    <3>5. Placed' BY <1>3, <3>2, <3>3, <3>4 DEF Placed, InComment, L
    <3>6. NoAssign(m, m) BY DEF NoAssign
    <3> QED BY <1>1, <1>6, <3>2, <3>5, <3>6
  <2> QED BY <2>3, <2>4
<1> QED BY <1>1, <1>7, <1>8

LEMMA Turn ==
  ASSUME file \in Files, Tidy(file), Placed, Read
  PROVE  (Nothing \/ Misread \/ ReadLine) /\ pos[1] \in 1..L
<1>1. pos # EOF /\ L \in Nat BY Typed DEF Read
<1>2. NameFound(WordFrom(Skip)) /\ pos[1] \in 1..L BY <1>1, NameOf
<1>3. CASE WordFrom(Skip) = EOF /\ NoAssign(pos[1], L + 1)
  BY <1>2, <1>3 DEF Read, Nothing
<1>4. CASE WordFrom(Skip) = pos /\ InComment
  <2>1. PICK l \in 1..L : \E k \in 2..Len(file[l]) :
          pos = <<l, k>> /\ Harmless(file[l]) /\ \A m \in 1..Len(file[l]) : ~Equals(file[l][m])
    BY <1>4 DEF InComment
  <2>2. PICK k \in 2..Len(file[l]) : pos = <<l, k>> BY <2>1
  <2>3. k \in 1..Len(file[l]) BY <2>2, Typed
  <2>4. Misread BY <1>4, <2>1, <2>2, <2>3, CommentTurn DEF Misread
  <2> QED BY <1>2, <2>4
<1>5. ASSUME NEW m \in pos[1]..L, WordFrom(Skip) = <<m, 1>>, NoAssign(pos[1], m), Assigns(file[m])
      PROVE  ReadLine
  <2>1. m \in 1..L BY <1>1, <1>2
  <2> QED BY <1>5, <2>1, LineTurn DEF ReadLine
<1>6. ASSUME NEW m \in pos[1]..L, WordFrom(Skip) = <<m, 1>>, NoAssign(pos[1], m), Harmless(file[m]),
             pos[2] # 1 \/ (m > pos[1] /\ Idle(pos[1], m))
      PROVE  Misread
  <2>1. m \in 1..L BY <1>1, <1>2
  <2>2. 1 \in 1..Len(file[m]) /\ Comment(file[m]) BY <1>6, <2>1, LineKinds
  <2>3. Placed' /\ pos'[1] \in m..(L + 1) /\ NoAssign(m, pos'[1]) /\ num' = num
    BY <1>6, <2>1, <2>2, CommentTurn
  <2>4. pos'[1] \in pos[1]..(L + 1) BY <1>2, <2>1, <2>3
  <2>5. \A j \in pos[1]..(pos'[1] - 1) : j \in pos[1]..(m - 1) \/ j \in m..(pos'[1] - 1)
    BY <1>2, <2>1, <2>3
  <2>6. NoAssign(pos[1], pos'[1]) BY <1>6, <2>3, <2>5 DEF NoAssign
  <2>7. m > pos[1] => m \in (pos[1] + 1)..L BY <1>2, <2>1
  <2> QED BY <1>6, <2>2, <2>3, <2>4, <2>6, <2>7 DEF Misread
<1>7. CASE \E m \in pos[1]..L :
             /\ WordFrom(Skip) = <<m, 1>> /\ NoAssign(pos[1], m)
             /\ \/ Assigns(file[m])
                \/ Harmless(file[m]) /\ (pos[2] # 1 \/ (m > pos[1] /\ Idle(pos[1], m)))
  <2>1. PICK m \in pos[1]..L :
          /\ WordFrom(Skip) = <<m, 1>> /\ NoAssign(pos[1], m)
          /\ \/ Assigns(file[m])
             \/ Harmless(file[m]) /\ (pos[2] # 1 \/ (m > pos[1] /\ Idle(pos[1], m)))
    BY <1>7
  <2>2. CASE Assigns(file[m]) BY <1>2, <1>5, <2>1, <2>2, Zenon
  <2>3. CASE ~Assigns(file[m]) BY <1>2, <1>6, <2>1, <2>3, Zenon
  <2> QED BY <1>2, <2>2, <2>3, Zenon
<1>8. Nothing \/ Misread \/ ReadLine BY <1>2, <1>3, <1>4, <1>7, Zenon DEF NameFound
<1> QED BY <1>2, <1>8

-----------------------------------------------------------------------------
(* What has been read says no more at a line that sets nothing, and at one  *)
(* that does, it says what the line says.                                   *)
LEMMA LinesAre ==
  ASSUME file \in Files, NEW S
  PROVE  \A k \in Lines(file, S) : k \in 1..L /\ k \in Int /\ Assigns(file[k]) /\ file[k][1] \in S
<1>1. L \in Nat BY Typed
<1> QED BY <1>1 DEF Lines, L

LEMMA SameWritten ==
  ASSUME file \in Files, NEW a \in Nat, NEW b \in Nat, a <= b, NoAssign(a, b), NEW p, NEW d
  PROVE  WrittenTo(file, b, p, d) = WrittenTo(file, a, p, d)
<1>1. ASSUME NEW k \in Lines(file, {p}) PROVE k < a <=> k < b
  <2>1. k \in Int /\ k \notin a..(b - 1) BY LinesAre DEF NoAssign
  <2> QED BY <2>1
<1>2. Earlier(file, b, p) = Earlier(file, a, p) BY <1>1 DEF Earlier
<1> QED BY <1>2 DEF WrittenTo

LEMMA NextWritten ==
  ASSUME file \in Files, NEW m \in 1..L, Assigns(file[m]), NEW p, NEW d
  PROVE  WrittenTo(file, m + 1, p, d) =
           IF p = file[m][1] THEN Value(file, m) ELSE WrittenTo(file, m, p, d)
<1>1. L \in Nat BY Typed
<1>2. CASE p = file[m][1]
  <2> DEFINE at == Earlier(file, m + 1, p)
  <2>1. m \in at BY <1>1, <1>2 DEF Earlier, Lines, L
  <2>2. \A k \in at : k \in Int /\ k <= m BY <1>1, LinesAre DEF Earlier
  <2> HIDE DEF at
  <2>3. \A k \in at : (\A i \in at : i <= k) => k = m BY <2>1, <2>2
  <2>4. (CHOOSE k \in at : \A i \in at : i <= k) = m BY <2>1, <2>2, <2>3
  <2>5. LastOf(file, at, d) = Value(file, m) BY <2>1, <2>4 DEF LastOf
  <2> QED BY <1>2, <2>5 DEF WrittenTo, at
<1>3. CASE p # file[m][1]
  <2>1. ASSUME NEW k \in Lines(file, {p}) PROVE k < m + 1 <=> k < m
    <3>1. k \in Int /\ k # m BY <1>3, LinesAre
    <3> QED BY <1>1, <3>1
  <2>2. Earlier(file, m + 1, p) = Earlier(file, m, p) BY <2>1 DEF Earlier
  <2> QED BY <1>3, <2>2 DEF WrittenTo
<1> QED BY <1>2, <1>3

LEMMA AllWritten ==
  ASSUME file \in Files, NEW p, NEW d
  PROVE  /\ WrittenTo(file, L + 1, p, d) = Written(file, p, d)
         /\ WrittenTo(file, 1, p, d) = d
<1>1. L \in Nat BY Typed
<1>2. \A k \in Lines(file, {p}) : k < L + 1 /\ ~(k < 1) BY <1>1, LinesAre
<1>3. Earlier(file, L + 1, p) = Lines(file, {p}) /\ Earlier(file, 1, p) = {} BY <1>2 DEF Earlier
<1>4. LastOf(file, {}, d) = d BY DEF LastOf
<1>5. LastOf(file, Lines(file, {p}), d) = Written(file, p, d) BY Zenon DEF LastOf, Written
<1> QED BY <1>3, <1>4, <1>5 DEF WrittenTo

-----------------------------------------------------------------------------
(* The numbers of the request. *)
LEMMA ReadNumbers ==
  ASSUME LoadInv, Tidy(file), Read
  PROVE  /\ Placed'
         /\ \A p \in Numbers : num'[p] = WrittenTo(file, pos'[1], p, Default(p))
<1>1. /\ file \in Files /\ DOMAIN num = Numbers /\ Placed
      /\ \A p \in Numbers : num[p] = WrittenTo(file, pos[1], p, Default(p))
  BY DEF LoadInv
<1>2. L \in Nat /\ file' = file BY <1>1, Typed DEF Read
<1>3. (Nothing \/ Misread \/ ReadLine) /\ pos[1] \in 1..L BY <1>1, Turn
<1>4. CASE Nothing
  <2>1. pos' = <<L + 1, 1>> /\ num' = num BY <1>4 DEF Nothing, config, EOF, L
  <2>2. \A p : WrittenTo(file, L + 1, p, Default(p)) = WrittenTo(file, pos[1], p, Default(p))
    BY <1>1, <1>2, <1>3, <1>4, SameWritten DEF Nothing
  <2>3. Placed' BY <1>2, <2>1 DEF Placed, EOF, L
  <2> QED BY <1>1, <2>1, <2>2, <2>3
<1>5. CASE Misread
  <2>1. pos'[1] \in Nat /\ pos[1] \in Nat /\ pos[1] <= pos'[1] /\ NoAssign(pos[1], pos'[1])
    BY <1>2, <1>3, <1>5 DEF Misread
  <2>2. \A p : WrittenTo(file, pos'[1], p, Default(p)) = WrittenTo(file, pos[1], p, Default(p))
    BY <1>1, <2>1, SameWritten
  <2> QED BY <1>1, <1>5, <2>2 DEF Misread
<1>6. CASE ReadLine
  <2>1. PICK m \in pos[1]..L, n \in Nat :
          /\ Assigns(file[m]) /\ NoAssign(pos[1], m)
          /\ NextLine(m + 1, n) /\ pos' = <<n, 1>>
          /\ Apply(file[m][1], Value(file, m))
    BY <1>6 DEF ReadLine
  <2>2. m \in 1..L /\ m \in Nat /\ m + 1 \in 1..(L + 1) BY <1>2, <1>3
  <2>3. n >= m + 1 /\ NoAssign(m + 1, n) BY <1>1, <2>1, <2>2, BlankLines
  <2>4. Placed' BY <1>1, <1>2, <2>1, <2>2, AtNextLine
  <2>5. ASSUME NEW p \in Numbers PROVE num'[p] = WrittenTo(file, n, p, Default(p))
    <3> DEFINE d == Default(p)
    <3> HIDE DEF d
    <3>1. WrittenTo(file, m, p, d) = WrittenTo(file, pos[1], p, d)
      BY <1>1, <1>3, <2>1, <2>2, SameWritten
    <3>2. WrittenTo(file, n, p, d) = WrittenTo(file, m + 1, p, d)
      BY <1>1, <2>2, <2>3, SameWritten
    <3>3. WrittenTo(file, m + 1, p, d) =
            IF p = file[m][1] THEN Value(file, m) ELSE WrittenTo(file, m, p, d)
      BY <1>1, <2>1, <2>2, NextWritten
    <3>4. num'[p] = IF p = file[m][1] THEN Value(file, m) ELSE num[p]
      BY <1>1, <2>1 DEF Apply
    <3> QED BY <1>1, <3>1, <3>2, <3>3, <3>4 DEF d
  <2>6. pos'[1] = n BY <2>1
  <2> QED BY <2>4, <2>5, <2>6
<1> QED BY <1>3, <1>4, <1>5, <1>6

LEMMA LoadInit == Init => LoadInv
<1> SUFFICES ASSUME Init PROVE LoadInv OBVIOUS
<1>1. file \in Files /\ pos = <<1, 1>> /\ num = [p \in Numbers |-> Default(p)] BY DEF Init
<1>2. L \in Nat BY <1>1, Typed
<1>3. Placed BY <1>1, <1>2 DEF Placed, AtLine, EOF, L
<1>4. \A p : WrittenTo(file, 1, p, Default(p)) = Default(p) BY <1>1, AllWritten
<1>5. Control BY DEF Init, Control
<1> QED BY <1>1, <1>3, <1>4, <1>5 DEF LoadInv

LEMMA FileStays == [Next]_vars => file' = file
BY DEF Next, vars, Usage, OpenFails, Open, Read, Loaded, Refuse, Accept, Finish

LEMMA LoadStep == LoadInv /\ [Next]_vars => LoadInv'
<1> SUFFICES ASSUME LoadInv, [Next]_vars PROVE LoadInv' OBVIOUS
<1>1. file' = file BY FileStays
<1>2. CASE Read
  <2>1. DOMAIN num' = Numbers
    <3>1. (\E name, n : Apply(name, n)) \/ num' = num BY <1>2 DEF Read, Assign, config
    <3> QED BY <3>1 DEF LoadInv, Apply
  <2>2. Control' BY <1>2 DEF Read, Control
  <2> QED BY <1>1, <1>2, <2>1, <2>2, ReadNumbers DEF LoadInv
<1>3. CASE ~Read
  <2>1. num' = num /\ pos' = pos
    BY <1>3 DEF Next, vars, config, Usage, OpenFails, Open, Loaded, Refuse, Accept, Finish
  <2>2. Control'
    BY <1>1, <1>3, <2>1 DEF LoadInv, Control, EOF, Next, vars, config, Usage, OpenFails, Open, Loaded,
                            Refuse, Accept, Finish
  <2>3. Placed => Placed' BY <1>1, <2>1 DEF Placed, AtLine, InComment, EOF, L
  <2> QED BY <1>1, <2>1, <2>2, <2>3 DEF LoadInv
<1> QED BY <1>2, <1>3

(* Each number of the request is what the last line that sets it says,      *)
(* wherever the comments are, and whichever of them are read as parameters. *)
THEOREM NumbersAreWritten == Spec => []SettingsAsWritten
<1>1. LoadInv => SettingsAsWritten
  <2> SUFFICES ASSUME LoadInv, Complete, Tidy(file), NEW p \in Numbers
               PROVE  num[p] = Written(file, p, Default(p))
    BY DEF SettingsAsWritten
  <2>1. pos[1] = L + 1 BY DEF LoadInv, Control, Complete, EOF, L
  <2> QED BY <2>1, AllWritten DEF LoadInv
<1> QED BY <1>1, LoadInit, LoadStep, PTL DEF Spec

-----------------------------------------------------------------------------
(* The flags.  The lines of a set come from a line on, or not before it.    *)
LEMMA NoneSame ==
  ASSUME file \in Files, NEW a \in Nat, NEW b \in Nat, a <= b, NoAssign(a, b),
         NEW S, \A k \in S : k \in Int /\ Assigns(file[k])
  PROVE  NoneBefore(b, S) <=> NoneBefore(a, S)
<1>1. ASSUME NEW k \in S PROVE b <= k <=> a <= k
  <2>1. k \in Int /\ k \notin a..(b - 1) BY DEF NoAssign
  <2> QED BY <2>1
<1> QED BY <1>1 DEF NoneBefore

LEMMA NoneNext ==
  ASSUME NEW m \in Nat, NEW S, \A k \in S : k \in Int
  PROVE  NoneBefore(m + 1, S) <=> NoneBefore(m, S) /\ m \notin S
<1>1. \A k \in S : m + 1 <= k <=> m <= k /\ k # m OBVIOUS
<1> QED BY <1>1 DEF NoneBefore

LEMMA FlagLines ==
  ASSUME file \in Files
  PROVE  /\ \A k \in StopsOff(file) : k \in Int /\ Assigns(file[k])
         /\ \A k \in Unknown(file) : k \in Int /\ Assigns(file[k])
         /\ \A S : \A k \in Lines(file, S) : k \in Int /\ Assigns(file[k])
         /\ \A m \in 1..L : Assigns(file[m]) =>
              /\ m \in StopsOff(file) <=> file[m][1] = "STOPRUN" /\ Value(file, m) = 0
              /\ m \in Unknown(file) <=> file[m][1] \notin Known
              /\ \A S : m \in Lines(file, S) <=> file[m][1] \in S
<1>1. L \in Nat BY Typed
<1> QED BY <1>1 DEF StopsOff, Unknown, Lines, L

LEMMA FlagsSame ==
  ASSUME file \in Files, NEW a \in Nat, NEW b \in Nat, a <= b, NoAssign(a, b),
         NEW fl, FlagsTo(file, a, fl)
  PROVE  FlagsTo(file, b, fl)
<1>1. \A p, d : WrittenTo(file, b, p, d) = WrittenTo(file, a, p, d) BY SameWritten
<1>2. /\ NoneBefore(b, StopsOff(file)) <=> NoneBefore(a, StopsOff(file))
      /\ NoneBefore(b, Unknown(file)) <=> NoneBefore(a, Unknown(file))
      /\ \A p : NoneBefore(b, Lines(file, {p})) <=> NoneBefore(a, Lines(file, {p}))
  BY FlagLines, NoneSame
<1> QED BY <1>1, <1>2, Zenon DEF FlagsTo

(* A switch that is off is STOPRUN, and before it no line sets a flag.      *)
LEMMA OffFirst ==
  ASSUME file \in Files, Conventional(file), NEW m \in 1..L, Assigns(file[m]),
         file[m][1] \in DOMAIN Switch, Value(file, m) = 0
  PROVE  /\ file[m][1] = "STOPRUN"
         /\ NoneBefore(m, StopsOff(file)) /\ NoneBefore(m, Unknown(file))
         /\ NoneBefore(m, Lines(file, {"STOPRUN"})) /\ NoneBefore(m, Lines(file, {"PRINTFLAG"}))
         /\ NoneBefore(m, Lines(file, {"TARGETVALUE"}))
<1>1. m \in Lines(file, DOMAIN Switch) BY FlagLines
<1>2. /\ file[m][1] = "STOPRUN"
      /\ Lines(file, DOMAIN Switch \union {"TARGETVALUE"}) \union Unknown(file) \subseteq m..Len(file)
  BY <1>1 DEF Conventional
<1>3. Lines(file, {"STOPRUN"}) \subseteq m..Len(file) /\ Lines(file, {"PRINTFLAG"}) \subseteq m..Len(file)
  BY <1>2 DEF Lines, Switch
<1>4. Lines(file, {"TARGETVALUE"}) \subseteq m..Len(file) BY <1>2 DEF Lines
<1>5. StopsOff(file) \subseteq m..Len(file) BY <1>3 DEF StopsOff
<1>6. \A k \in m..Len(file) : m <= k BY Typed DEF L
<1> QED BY <1>2, <1>3, <1>4, <1>5, <1>6 DEF NoneBefore

LEMMA NothingWritten ==
  ASSUME file \in Files, NEW m \in 1..L, NEW p, NEW d, NoneBefore(m, Lines(file, {p}))
  PROVE  WrittenTo(file, m, p, d) = d
<1>1. \A k \in Lines(file, {p}) : ~(k < m)
  <2>1. \A k \in Lines(file, {p}) : k \in Int /\ m <= k BY LinesAre DEF NoneBefore
  <2>2. m \in Nat BY Typed
  <2> QED BY <2>1, <2>2
<1>2. Earlier(file, m, p) = {} BY <1>1 DEF Earlier
<1> QED BY <1>2 DEF WrittenTo, LastOf

LEMMA FlagsNext ==
  ASSUME file \in Files, Conventional(file), NEW m \in 1..L, Assigns(file[m]),
         FlagsTo(file, m, flags)
  PROVE  FlagsTo(file, m + 1, FlagsAfter(file[m][1], Value(file, m)))
<1> DEFINE name == file[m][1]
           n == Value(file, m)
           fl == FlagsAfter(name, n)
<1>1. m \in Nat BY Typed
<1>2. /\ NoneBefore(m + 1, StopsOff(file)) <=> NoneBefore(m, StopsOff(file)) /\ ~(name = "STOPRUN" /\ n = 0)
      /\ NoneBefore(m + 1, Unknown(file)) <=> NoneBefore(m, Unknown(file)) /\ name \in Known
      /\ \A p : NoneBefore(m + 1, Lines(file, {p})) <=> NoneBefore(m, Lines(file, {p})) /\ name # p
  BY <1>1, FlagLines, NoneNext
<1>3. \A p, d : WrittenTo(file, m + 1, p, d) = IF p = name THEN n ELSE WrittenTo(file, m, p, d)
  BY NextWritten
<1> HIDE DEF n, name
<1>4. /\ "STOP_RUN" \in flags <=> WrittenTo(file, m, "STOPRUN", 0) # 0
      /\ WrittenTo(file, m, "PRINTFLAG", 1) # 0
      /\ "PRINT" \in flags <=> NoneBefore(m, StopsOff(file)) \/ ~NoneBefore(m, Lines(file, {"PRINTFLAG"}))
      /\ "TARGET_VALUE" \in flags <=> ~NoneBefore(m, Lines(file, {"TARGETVALUE"}))
      /\ "ERROR" \in flags <=> ~NoneBefore(m, Unknown(file))
  BY DEF FlagsTo
<1>5. CASE name = "TARGETVALUE"
  <2>1. fl = flags \union {"TARGET_VALUE"} /\ name \in Known BY <1>5 DEF FlagsAfter, Known, Numbers, Switch
  <2> QED BY <1>2, <1>3, <1>4, <1>5, <2>1 DEF FlagsTo, name, n
<1>6. CASE name \in DOMAIN Switch /\ n = 0
  <2>1. name = "STOPRUN" /\ name \in Known /\ name # "TARGETVALUE"
    BY <1>6, OffFirst DEF Known, Numbers, name, n
  <2>2. /\ NoneBefore(m, StopsOff(file)) /\ NoneBefore(m, Unknown(file))
        /\ NoneBefore(m, Lines(file, {"STOPRUN"})) /\ NoneBefore(m, Lines(file, {"PRINTFLAG"}))
        /\ NoneBefore(m, Lines(file, {"TARGETVALUE"}))
    BY <1>6, OffFirst DEF name, n
  <2>3. fl = flags \intersect {"STOP_RUN"} BY <1>6, <2>1 DEF FlagsAfter, Switch
  <2>4. WrittenTo(file, m, "STOPRUN", 0) = 0 BY <2>2, NothingWritten
  <2> QED BY <1>2, <1>3, <1>4, <1>6, <2>1, <2>2, <2>3, <2>4 DEF FlagsTo, name, n
<1>7. CASE name \in DOMAIN Switch /\ n # 0
  <2>1. name \in {"STOPRUN", "PRINTFLAG"} /\ name \in Known /\ name # "TARGETVALUE"
    BY <1>7 DEF Known, Switch
  <2>2. fl = flags \union {Switch[name]} BY <1>7, <2>1 DEF FlagsAfter
  <2>3. CASE name = "STOPRUN"
    <3>1. fl = flags \union {"STOP_RUN"} BY <2>2, <2>3 DEF Switch
    <3> QED BY <1>2, <1>3, <1>4, <1>7, <2>1, <2>3, <3>1 DEF FlagsTo, name, n
  <2>4. CASE name = "PRINTFLAG"
    <3>1. fl = flags \union {"PRINT"} BY <2>2, <2>4 DEF Switch
    <3> QED BY <1>2, <1>3, <1>4, <1>7, <2>1, <2>4, <3>1 DEF FlagsTo, name, n
  <2> QED BY <2>1, <2>3, <2>4
<1>8. CASE name \notin Known
  <2>1. name \notin {"TARGETVALUE", "STOPRUN", "PRINTFLAG"} /\ name \notin DOMAIN Switch
    BY <1>8 DEF Known, Numbers, Switch
  <2>2. fl = flags \union {"ERROR"} BY <1>8, <2>1 DEF FlagsAfter
  <2> QED BY <1>2, <1>3, <1>4, <1>8, <2>1, <2>2 DEF FlagsTo, name, n
<1>9. CASE name \in Known /\ name \notin DOMAIN Switch /\ name # "TARGETVALUE"
  <2>1. fl = flags /\ name \notin {"STOPRUN", "PRINTFLAG"} BY <1>9 DEF FlagsAfter, Switch
  <2> QED BY <1>2, <1>3, <1>4, <1>9, <2>1 DEF FlagsTo, name, n
<1> QED BY <1>5, <1>6, <1>7, <1>8, <1>9

-----------------------------------------------------------------------------
(* A comment that is read as parameters follows a comment, or the blanks a  *)
(* file begins with: where they stand apart none is.                        *)
LEMMA NoMisread ==
  ASSUME file \in Files, Separated(file), Misread, pos[1] \in 1..L,
         pos[2] = 1, pos = <<1, 1>> \/ pos = EOF \/ file[pos[1]] # <<>>
  PROVE  FALSE
<1>1. L \in Nat /\ L = Len(file) BY Typed DEF L
<1>2. PICK m \in (pos[1] + 1)..L : Comment(file[m]) /\ Idle(pos[1], m) BY DEF Misread
<1>3. m \in 1..Len(file) /\ pos[1] \in 1..(m - 1) BY <1>1, <1>2
<1>4. \A k \in pos[1]..(m - 1) : file[k] = <<>> \/ Comment(file[k]) BY <1>2 DEF Idle
<1>5. file[pos[1]] = <<>> /\ \E k \in 1..(pos[1] - 1) : Assigns(file[k])
  BY <1>2, <1>3, <1>4, Zenon DEF Separated
<1>6. pos # EOF BY <1>1, <1>3 DEF EOF
<1>7. pos[1] = 1 BY <1>5, <1>6
<1> QED BY <1>5, <1>7

LEMMA ReadFlags ==
  ASSUME LoadInv, FlagsInv, Tidy(file), Separated(file), Conventional(file), ~Strict, Read
  PROVE  /\ pos'[2] = 1 /\ (pos' = EOF \/ file[pos'[1]] # <<>>)
         /\ FlagsTo(file, pos'[1], flags')
<1>1. file \in Files /\ Placed /\ pc = "load" BY DEF LoadInv, Read
<1>2. /\ pos[2] = 1 /\ (pos = <<1, 1>> \/ pos = EOF \/ file[pos[1]] # <<>>)
      /\ FlagsTo(file, pos[1], flags)
  BY <1>1 DEF FlagsInv, Unrefused
<1>3. L \in Nat BY <1>1, Typed
<1>4. (Nothing \/ Misread \/ ReadLine) /\ pos[1] \in 1..L BY <1>1, Turn
<1>5. CASE Nothing
  <2>1. pos' = <<L + 1, 1>> /\ flags' = flags /\ pos' = EOF BY <1>5 DEF Nothing, config, EOF, L
  <2>2. FlagsTo(file, L + 1, flags) BY <1>1, <1>2, <1>3, <1>4, <1>5, FlagsSame DEF Nothing
  <2> QED BY <2>1, <2>2
<1>6. CASE Misread BY <1>1, <1>2, <1>4, <1>6, NoMisread
<1>7. CASE ReadLine
  <2>1. PICK m \in pos[1]..L, n \in Nat :
          /\ Assigns(file[m]) /\ NoAssign(pos[1], m)
          /\ NextLine(m + 1, n) /\ pos' = <<n, 1>>
          /\ Apply(file[m][1], Value(file, m))
    BY <1>7 DEF ReadLine
  <2>2. m \in 1..L /\ m \in Nat /\ m + 1 \in 1..(L + 1) /\ m + 1 \in Nat /\ pos[1] <= m BY <1>3, <1>4
  <2>3. n >= m + 1 /\ n <= L + 1 /\ NoAssign(m + 1, n) BY <1>1, <2>1, <2>2, BlankLines
  <2>4. flags' = FlagsAfter(file[m][1], Value(file, m)) BY <2>1 DEF Apply
  <2>5. FlagsTo(file, m, flags) BY <1>1, <1>2, <1>4, <2>1, <2>2, FlagsSame
  <2>6. FlagsTo(file, m + 1, flags') BY <1>1, <2>1, <2>2, <2>4, <2>5, FlagsNext
  <2>7. FlagsTo(file, n, flags') BY <1>1, <2>2, <2>3, <2>6, FlagsSame
  <2>8. n = L + 1 \/ file[n] # <<>> BY <1>3, <2>1, <2>3 DEF NextLine
  <2>9. n = L + 1 => pos' = EOF' BY <1>1, <2>1 DEF EOF, L, Read
  <2>10. EOF' = EOF BY DEF EOF, Read
  <2> QED BY <2>1, <2>7, <2>8, <2>9, <2>10
<1> QED BY <1>4, <1>5, <1>6, <1>7

LEMMA FlagsInit == Init => FlagsInv
<1> SUFFICES ASSUME Init, Conventional(file) PROVE FlagsInv BY DEF FlagsInv
<1>1. file \in Files /\ pos = <<1, 1>> /\ flags = {"PRINT"} BY DEF Init
<1>2. L \in Nat BY <1>1, Typed
<1>3. /\ \A k \in StopsOff(file) : 1 <= k
      /\ \A k \in Unknown(file) : 1 <= k
      /\ \A S : \A k \in Lines(file, S) : 1 <= k
  BY <1>2 DEF StopsOff, Unknown, Lines, L
<1>4. \A p, d : WrittenTo(file, 1, p, d) = d BY <1>1, AllWritten
<1>5. FlagsTo(file, 1, flags) BY <1>1, <1>3, <1>4 DEF FlagsTo, NoneBefore
<1> QED BY <1>1, <1>5 DEF FlagsInv

LEMMA FlagsStep == LoadInv /\ FlagsInv /\ [Next]_vars => FlagsInv'
<1> DEFINE Goal == /\ pos'[2] = 1 /\ (pos' = <<1, 1>> \/ pos' = EOF \/ file[pos'[1]] # <<>>)
                   /\ FlagsTo(file, pos'[1], flags')
<1> SUFFICES ASSUME LoadInv, FlagsInv, [Next]_vars PROVE FlagsInv' OBVIOUS
<1>0. file' = file /\ EOF' = EOF BY FileStays DEF EOF
<1> SUFFICES ASSUME Tidy(file), Separated(file), Conventional(file), ~Strict, Unrefused'
             PROVE  Goal
  BY <1>0 DEF FlagsInv
<1>1. CASE Read BY <1>1, ReadFlags
<1>2. ASSUME UNCHANGED <<pos, flags>>, Unrefused PROVE Goal BY <1>2 DEF FlagsInv
<1> HIDE DEF Goal
<1>3. CASE Open BY <1>2, <1>3 DEF Open, config, Unrefused
<1>4. CASE Loaded BY <1>2, <1>4 DEF Loaded, Unrefused
<1>5. CASE Accept BY <1>2, <1>5 DEF Accept, config, Unrefused
<1>6. CASE OpenFails
  <2>1. pos = <<1, 1>> /\ pos' = pos /\ pc' = "check" /\ file' = file /\ "ERROR" \in flags'
    BY <1>6 DEF OpenFails, LoadInv, Control
  <2>2. file # <<>> /\ <<1, 1>> = EOF BY <2>1 DEF Unrefused, Complete, EOF
  <2>3. file \in Seq(Seq(STRING)) /\ Len(file) + 1 = 1 BY <2>2, LauncherAssumption DEF EOF, LoadInv
  <2> QED BY <2>2, <2>3
<1>7. CASE Usage \/ Refuse \/ \E outcome \in {"exit", "killed", "hung"} : Finish(outcome)
  BY <1>7 DEF Usage, Refuse, Finish, Unrefused, Complete
<1>8. CASE UNCHANGED vars BY <1>2, <1>8 DEF vars, config, Unrefused, Complete, EOF
<1> QED BY <1>1, <1>3, <1>4, <1>5, <1>6, <1>7, <1>8 DEF Next

(* In a file that keeps to the order of the repository's own files, with    *)
(* comments that stand apart, each flag is what the file says: a switch     *)
(* that is off clears what other lines have set, but none has set anything  *)
(* yet; and the error flag is set just when a name is unknown.              *)
THEOREM FlagsAreWritten == Spec => []FlagsAsWritten
<1>1. LoadInv /\ FlagsInv => FlagsAsWritten
  <2> SUFFICES ASSUME LoadInv, FlagsInv, Complete, Tidy(file), Separated(file), Conventional(file), ~Strict
               PROVE  /\ "STOP_RUN" \in flags <=> Written(file, "STOPRUN", 0) # 0
                      /\ "PRINT" \in flags <=> Written(file, "PRINTFLAG", 1) # 0
                      /\ "TARGET_VALUE" \in flags <=> Lines(file, {"TARGETVALUE"}) # {}
                      /\ "ERROR" \in flags <=> Unknown(file) # {}
    BY DEF FlagsAsWritten
  <2>1. file \in Files /\ pos[1] = L + 1 BY DEF LoadInv, Control, Complete, EOF, L
  <2>2. L \in Nat BY <2>1, Typed
  <2>3. FlagsTo(file, L + 1, flags) BY <2>1 DEF FlagsInv, Unrefused
  <2>4. /\ Written(file, "STOPRUN", 0) = WrittenTo(file, L + 1, "STOPRUN", 0)
        /\ Written(file, "PRINTFLAG", 1) = WrittenTo(file, L + 1, "PRINTFLAG", 1)
    BY <2>1, AllWritten
  <2>5. ASSUME NEW S, \A k \in S : k \in 1..L PROVE NoneBefore(L + 1, S) <=> S = {}
    <3>1. \A k \in S : ~(L + 1 <= k) BY <2>2, <2>5
    <3> QED BY <3>1 DEF NoneBefore
  <2>6. /\ \A k \in StopsOff(file) : k \in 1..L
        /\ \A k \in Unknown(file) : k \in 1..L
        /\ \A S : \A k \in Lines(file, S) : k \in 1..L
    BY DEF StopsOff, Unknown, Lines, L
  <2>7. /\ NoneBefore(L + 1, StopsOff(file)) <=> StopsOff(file) = {}
        /\ NoneBefore(L + 1, Unknown(file)) <=> Unknown(file) = {}
        /\ \A S : NoneBefore(L + 1, Lines(file, S)) <=> Lines(file, S) = {}
    BY <2>5, <2>6
  <2>8. StopsOff(file) # {} => Lines(file, {"PRINTFLAG"}) # {}
    <3>1. ASSUME NEW k \in StopsOff(file) PROVE Lines(file, {"PRINTFLAG"}) # {}
      <4>1. k \in Lines(file, DOMAIN Switch) /\ Value(file, k) = 0
        BY DEF StopsOff, Lines, Switch
      <4> QED BY <4>1 DEF Conventional
    <3> QED BY <3>1
  <2> QED BY <2>3, <2>4, <2>7, <2>8 DEF FlagsTo
<1> QED BY <1>1, LoadInit, LoadStep, FlagsInit, FlagsStep, PTL DEF Spec
=============================================================================
