------------------------------ MODULE Compare ------------------------------
(***************************************************************************)
(* The file comparison of utils/test.c and test.h: a test writes to a      *)
(* temporary file and compares what it has just written with a pattern     *)
(* (test_act_equal and so on), or the whole file (test_equal and so on).   *)
(* test_compare_engine reads the piece; the comparators that are loops of  *)
(* test.c run step by step, strncmp and strstr are what C says they are.   *)
(***************************************************************************)
EXTENDS Integers, Sequences, FiniteSets, SequencesExt

CONSTANTS
  Texts,     \* what a test writes, and what it compares with
  Upper,     \* toupper, a function on characters
  Space,     \* the characters isspace is true of
  MaxSz,     \* TEST_PATTERN_MAX_SZ
  MaxFile    \* bound: characters in the file

ASSUME CompareAssumption ==
  MaxSz \in Nat /\ MaxFile \in Nat /\ <<>> \in Texts /\ Texts \subseteq Seq(DOMAIN Upper)

Kinds == {"equal", "equal_ne", "like", "ulike"}

VARIABLES
  cpc,         \* "test", "engine", "equal_ne", "ulike", "answered"
  file, fpos, \* the file, and the position of its FILE
  from, to,   \* arguments of test_compare_engine
  kind, pt,   \* comparator and pattern
  buf,        \* what was read
  i, j, iPrev,\* of the comparators' loops
  answer,     \* "none", "true", "false" or "exception"
  written     \* history: what the test wants compared

cvars == <<cpc, file, fpos, from, to, kind, pt, buf, i, j, iPrev, answer, written>>
loop == <<i, j, iPrev>>
asked == <<file, from, to, kind, pt, written>>

CInit ==
  /\ cpc = "test" /\ file = <<>> /\ fpos = 0 /\ from = 0 /\ to = 0 /\ kind = "equal" /\ pt = <<>>
  /\ buf = <<>> /\ i = 0 /\ j = 0 /\ iPrev = -1 /\ answer = "none" /\ written = <<>>

(* The test has the answer and goes on; what was local is gone. *)
Continue ==
  /\ cpc = "answered"
  /\ cpc' = "test" /\ from' = 0 /\ to' = 0 /\ kind' = "equal" /\ pt' = <<>>
  /\ buf' = <<>> /\ i' = 0 /\ j' = 0 /\ iPrev' = -1 /\ answer' = "none" /\ written' = <<>>
  /\ UNCHANGED <<file, fpos>>

Ask(k, p) == cpc = "test" /\ kind' = k /\ pt' = p /\ cpc' = "engine" /\ UNCHANGED answer

(* test_act_basic: the action writes where the file is, and what lies       *)
(* between the two positions is compared.                                   *)
Act(k, text, p) ==
  /\ Ask(k, p) /\ Len(file) + Len(text) <= MaxFile
  /\ file' = SubSeq(file, 1, fpos) \o text \o SubSeq(file, fpos + Len(text) + 1, Len(file))
  /\ from' = fpos /\ to' = fpos + Len(text) /\ fpos' = to' /\ written' = text
  /\ UNCHANGED <<buf, loop>>

(* test_equal, test_equal_ne, test_like, test_ulike. *)
Whole(k, p) ==
  /\ Ask(k, p)
  /\ from' = 0 /\ to' = 0 /\ written' = file
  /\ UNCHANGED <<file, fpos, buf, loop>>

(***************************************************************************)
(* test_compare_engine.  Asked for 0 to 0, it takes the end of the file    *)
(* for the beginning of the piece, whose unsigned size is then enormous    *)
(* unless the file is empty.                                               *)
(***************************************************************************)
WholeFile == from = 0 /\ to = 0
First == IF WholeFile THEN Len(file) ELSE from
TooMuch == First > to \/ to - First > MaxSz

Answer(a) == answer' = a /\ cpc' = "answered"

BadPosition ==
  /\ cpc = "engine" /\ ~WholeFile /\ to <= from
  /\ Answer("false")
  /\ UNCHANGED <<asked, fpos, buf, loop>>

Asks == cpc = "engine" /\ (WholeFile \/ to > from)

(* sysraiseint: an exception, under the default handler. *)
Raise ==
  /\ Asks /\ TooMuch
  /\ Answer("exception") /\ fpos' = IF WholeFile THEN Len(file) ELSE fpos
  /\ UNCHANGED <<asked, buf, loop>>

Piece == SubSeq(file, First + 1, to)

strncmp(s, p) == IsPrefix(s, p)                    \* of the length of s
strstr(s, p) == \E k \in 0..(Len(s) - Len(p)) : SubSeq(s, k + 1, k + Len(p)) = p

(* The piece is read into the buffer and compared; pos is where the file    *)
(* is left.                                                                 *)
ReadTo(pos) ==
  /\ Asks /\ ~TooMuch
  /\ buf' = Piece /\ fpos' = pos
  /\ i' = 0 /\ j' = 0 /\ iPrev' = -1
  /\ CASE kind = "equal" -> Answer(IF strncmp(buf', pt) THEN "true" ELSE "false")
       [] kind = "like" -> Answer(IF strstr(buf', pt) THEN "true" ELSE "false")
       [] OTHER -> cpc' = kind /\ UNCHANGED answer
  /\ UNCHANGED asked

ReadRewound == ReadTo(First)           \* fault: back to the beginning of the piece
Read == ReadTo(to)

(***************************************************************************)
(* test_str_equal_ne and test_str_ulike: i and j count from 0.             *)
(***************************************************************************)
Both == i < Len(buf) /\ j < Len(pt)
S == buf[i + 1]
P == pt[j + 1]
Same == i' = i + 1 /\ j' = j + 1

NeSkip ==
  /\ cpc = "equal_ne" /\ Both
  /\ IF S \in Space THEN i' = i + 1 /\ UNCHANGED j
     ELSE P \in Space /\ j' = j + 1 /\ UNCHANGED i
  /\ UNCHANGED <<asked, cpc, fpos, buf, iPrev, answer>>

NeStep ==
  /\ cpc = "equal_ne" /\ Both /\ {S, P} \intersect Space = {} /\ S = P
  /\ Same
  /\ UNCHANGED <<asked, cpc, fpos, buf, iPrev, answer>>

NeEnd ==
  /\ cpc = "equal_ne" /\ (Both => {S, P} \intersect Space = {} /\ S # P)
  /\ Answer(IF j = Len(pt) /\ i = Len(buf) THEN "true" ELSE "false")
  /\ UNCHANGED <<asked, fpos, buf, loop>>

ULikeStep ==
  /\ cpc = "ulike" /\ Both /\ Upper[S] = Upper[P]
  /\ Same /\ iPrev' = IF iPrev = -1 THEN i ELSE iPrev
  /\ UNCHANGED <<asked, cpc, fpos, buf, answer>>

(* The search goes back to the place after the one where the match began.   *)
ULikeOn ==                             \* fault: it goes on from where it failed
  /\ cpc = "ulike" /\ Both /\ Upper[S] # Upper[P]
  /\ j' = 0 /\ iPrev' = -1 /\ i' = i + 1
  /\ UNCHANGED <<asked, cpc, fpos, buf, answer>>

ULikeBack ==
  /\ cpc = "ulike" /\ Both /\ Upper[S] # Upper[P]
  /\ j' = 0 /\ iPrev' = -1
  /\ i' = (IF iPrev # -1 THEN iPrev ELSE i) + 1
  /\ UNCHANGED <<asked, cpc, fpos, buf, answer>>

ULikeEnd ==
  /\ cpc = "ulike" /\ ~Both
  /\ Answer(IF j = Len(pt) THEN "true" ELSE "false")
  /\ UNCHANGED <<asked, fpos, buf, loop>>

CNext ==
  \/ \E k \in Kinds, p \in Texts : Whole(k, p) \/ \E t \in Texts : Act(k, t, p)
  \/ Continue \/ BadPosition \/ Raise \/ Read
  \/ NeSkip \/ NeStep \/ NeEnd \/ ULikeStep \/ ULikeBack \/ ULikeEnd

CSpec == CInit /\ [][CNext]_cvars

(***************************************************************************)
(* Properties.                                                             *)
(***************************************************************************)
Solid(s) == {k \in DOMAIN s : s[k] \notin Space}       \* where s is not blank
Rank(k, T) == Cardinality({b \in T : b <= k})         \* of k among the numbers T
Tight(s) == s = <<>> \/ Last(s) \notin Space
Raised(s) == [k \in DOMAIN s |-> Upper[s[k]]]

(* Two texts that differ in nothing but blanks.                             *)
SameSolid(s, p) ==
  /\ Cardinality(Solid(s)) = Cardinality(Solid(p))
  /\ \A k \in Solid(s), l \in Solid(p) :
       Rank(k, Solid(s)) = Rank(l, Solid(p)) => s[k] = p[l]

(* What a comparator is asked of a text: "equal", that it is a beginning of *)
(* the pattern; "like" and "ulike", that the pattern is in it.              *)
Agrees(k, s, p) ==
  CASE k = "equal" -> Len(s) <= Len(p) /\ \A m \in DOMAIN s : s[m] = p[m]
    [] k = "like" -> \E m \in 0..Len(s) : IsPrefix(p, SubSeq(s, m + 1, Len(s)))
    [] k = "ulike" -> \E m \in 0..Len(s) : IsPrefix(Raised(p), SubSeq(Raised(s), m + 1, Len(s)))

(* "ignore delimeters": yes to texts that differ in nothing but blanks, as  *)
(* far as neither ends in one, and to no others.                            *)
Right(k, s, p, yes) ==
  IF k = "equal_ne"
  THEN (yes => SameSolid(s, p)) /\ (SameSolid(s, p) /\ Tight(s) /\ Tight(p) => yes)
  ELSE yes <=> Agrees(k, s, p)

(* A comparison answers for the text the test has just written, through     *)
(* file positions, the buffer and a loop that may go back; one of nothing   *)
(* is refused, and one of more than the buffer holds raises.  (What is said *)
(* of a whole file, when it is not empty, is WholeFileCompared.)            *)
ComparesText ==
  cpc = "answered" /\ (WholeFile => file = <<>>) =>
    CASE ~WholeFile /\ written = <<>> -> answer = "false"
      [] Len(written) > MaxSz -> answer = "exception"
      [] OTHER -> answer \in {"true", "false"} /\ Right(kind, written, pt, answer = "true")

(* Whatever came of a comparison, the next action writes at the end of the  *)
(* file and not over what is there.                                         *)
AppendsNext == cpc = "test" => fpos = Len(file)

(* "full file reading mode" (test.c) and "simple wrappers for whole file    *)
(* comparators" (test.h): a whole file that fits in the buffer is compared. *)
WholeFileCompared ==
  cpc = "answered" /\ WholeFile /\ Len(file) <= MaxSz => answer # "exception"
=============================================================================
