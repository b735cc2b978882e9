------------------------------ MODULE Launcher ------------------------------
(***************************************************************************)
(* The program around the engine: main of utils/eng_launcher.c and         *)
(* eng_loadfromfile of utils/eng_runner.c, which reads its request from a  *)
(* file of lines NAME = value and lines # comment.                         *)
(*                                                                         *)
(* The loader looks at one character: a # makes it skip the line.  Then,   *)
(* without looking again, it calls fscanf("%s = %s\n"), which reads words  *)
(* and takes ends of lines for blanks.  A file is kept as its lines and a  *)
(* line as its words; a position is a line and the next word of it, and    *)
(* beyond the last word of a line the next character is the end of line.   *)
(* The call of eng_int_run is its outcome only: EngIntRun is about it.     *)
(***************************************************************************)
EXTENDS Integers, Sequences, FiniteSets

CONSTANTS
  Files,      \* the configuration files
  Hash(_),    \* the word begins with a #
  Equals(_),  \* the word begins with a =
  Behind(_),  \* what follows the first character of a word, "" when nothing does
  Number(_),  \* atol of a word
  Leftover,   \* words that val, which is not initialised, may hold at first
  Strict      \* the argument of eng_loadfromfile; the launcher passes false

Switch == [STOPRUN |-> "STOP_RUN", PRINTFLAG |-> "PRINT"]
Steps == {"STEPX", "STEPY", "STEPZ", "STEPZ1"}
Numbers == Steps \union {"FROMX", "FROMY", "FROMZ", "FROMZ1", "TOX", "TOY", "TOZ", "TOZ1",
                         "DIM", "MODLOG", "TARGETVALUE"}
Known == Numbers \union DOMAIN Switch \union {"PRINT_MSG"}

ASSUME LauncherAssumption ==
  /\ \A f \in Files : f \in Seq(Seq(STRING))
  /\ Leftover # {} /\ Strict \in BOOLEAN
  /\ Equals("=") /\ Behind("=") = ""
  /\ \A f \in Files : \A l \in 1..Len(f) : \A k \in 1..Len(f[l]) : ~(Hash(f[l][k]) /\ Equals(f[l][k]))

VARIABLES
  pc,     \* "main", "load", "check", "run", "exit", "killed", "crashed" or "hung"
  logUp,  \* the log file could be opened
  file,
  pos,    \* where the next character of the file is
  val,    \* what the last fscanf that got so far left in val
  num,    \* the numbers of st, by the parameter that sets each
  flags,  \* st.flags
  exit    \* exit status of the program

VARIABLE reported  \* history: "Unsupported param" was written

config == <<num, flags>>
vars == <<pc, logUp, file, pos, val, config, exit, reported>>

(* eng_create_int(0) *)
Default(p) == IF p \in Steps THEN 1 ELSE IF p = "DIM" THEN 10 ELSE 0

Init ==
  /\ pc = "main" /\ logUp \in BOOLEAN /\ file \in Files /\ pos = <<1, 1>>
  /\ val \in Leftover /\ exit = 0 /\ reported = FALSE
  /\ num = [p \in Numbers |-> Default(p)]
  /\ flags = {"PRINT"}

(***************************************************************************)
(* main, up to the loader.                                                 *)
(***************************************************************************)
(* No argument; -v or --version. *)
Usage ==
  /\ pc = "main"
  /\ exit' \in {0, 1} /\ pc' = "exit"
  /\ UNCHANGED <<logUp, file, pos, val, config, reported>>

OpenFails ==
  /\ pc = "main"
  /\ flags' = flags \union {"ERROR"} /\ pc' = "check"
  /\ UNCHANGED <<logUp, file, pos, val, num, exit, reported>>

Open ==
  /\ pc = "main" /\ pc' = "load"
  /\ UNCHANGED <<logUp, file, pos, val, config, exit, reported>>

(***************************************************************************)
(* The loop of eng_loadfromfile: one turn.                                 *)
(***************************************************************************)
EOF == <<Len(file) + 1, 1>>
WordAt(p) == file[p[1]][p[2]]
AtWord(p) == p[1] <= Len(file) /\ p[2] <= Len(file[p[1]])

(* The first word at or after a position, as fscanf finds it. *)
WordFrom(p) ==
  LET later == {l \in (p[1] + 1)..Len(file) : file[l] # <<>>} IN
  CASE AtWord(p) -> p
    [] ~AtWord(p) /\ later # {} -> <<CHOOSE l \in later : \A k \in later : l <= k, 1>>
    [] OTHER -> EOF
After(p) == <<p[1], p[2] + 1>>
Sign(p) == p # EOF /\ Equals(WordAt(p))

SkipNone == pos                                       \* fault: no comments

(* skip_line, when the next character is a #. *)
Skip == IF AtWord(pos) /\ Hash(WordAt(pos)) THEN <<pos[1] + 1, 1>> ELSE pos

(* A switch set to 0 keeps only its own flag: flags &= FLAG. *)
FlagsAfter(name, n) ==
  CASE name = "TARGETVALUE" -> flags \union {"TARGET_VALUE"}
    [] name \in DOMAIN Switch /\ n = 0 -> flags \intersect {Switch[name]}
    [] name \in DOMAIN Switch /\ n # 0 -> flags \union {Switch[name]}
    [] name \notin Known -> flags \union {"ERROR"}
    [] OTHER -> flags

Apply(name, n) ==
  /\ num' = IF name \in Numbers THEN [num EXCEPT ![name] = n] ELSE num
  /\ flags' = FlagsAfter(name, n)
  /\ reported' = (reported \/ name \notin Known)

Assign(name, text) ==
  /\ val' = text /\ Apply(WordAt(name), Number(text))

MismatchStuck(eq) == pos                              \* fault: the loop starts over
MismatchLost(eq) == WordFrom(After(eq))               \* fault: the word is consumed

(* Where fscanf stops when the character it finds is not a =. *)
Mismatch(eq) == eq

(* fscanf: the word it takes for a name; the end of the file, a word that   *)
(* does not begin with a =, or the end of the file after it, and val is     *)
(* what it was; or the value, which is the rest of the word that begins     *)
(* with a = or, when nothing follows that, the next word.  The format ends  *)
(* in a blank, so it stops at a word.  The parameter is set unless there    *)
(* was no name.                                                             *)
Read ==
  /\ pc = "load" /\ pos # EOF
  /\ \E name \in {WordFrom(Skip)} : \E eq \in {WordFrom(After(name))} :
     \E value \in {WordFrom(After(eq))} :
       \/ name = EOF /\ pos' = EOF /\ UNCHANGED <<val, config, reported>>
       \/ name # EOF /\ ~Sign(eq) /\ pos' = Mismatch(eq) /\ Assign(name, val)
       \/ /\ name # EOF /\ Sign(eq) /\ Behind(WordAt(eq)) # ""
          /\ pos' = value /\ Assign(name, Behind(WordAt(eq)))
       \/ /\ name # EOF /\ Sign(eq) /\ Behind(WordAt(eq)) = "" /\ value = EOF
          /\ pos' = EOF /\ Assign(name, val)
       \/ /\ name # EOF /\ Sign(eq) /\ Behind(WordAt(eq)) = "" /\ value # EOF
          /\ pos' = WordFrom(After(value)) /\ Assign(name, WordAt(value))
  /\ UNCHANGED <<pc, logUp, file, exit>>

(* The end of eng_loadfromfile writes the request to the log file, which    *)
(* is a null pointer when there is none.                                    *)
Loaded ==
  /\ pc = "load" /\ pos = EOF
  /\ flags' = IF Strict /\ num["DIM"] \notin 1..10 THEN flags \union {"ERROR"} ELSE flags
  /\ pc' = IF logUp THEN "check" ELSE "crashed"
  /\ UNCHANGED <<logUp, file, pos, val, num, exit, reported>>

(***************************************************************************)
(* main, with the request.                                                 *)
(***************************************************************************)
Refuse ==
  /\ pc = "check" /\ "ERROR" \in flags
  /\ exit' = 2 /\ pc' = "exit"
  /\ UNCHANGED <<logUp, file, pos, val, config, reported>>

Accept ==
  /\ pc = "check" /\ "ERROR" \notin flags
  /\ pc' = "run"
  /\ UNCHANGED <<logUp, file, pos, val, config, exit, reported>>

(* eng_int_run: it returns; it raises SIGINT for a DIM it does not support; *)
(* a loop with a step that is not positive need not end.                    *)
Finish(outcome) ==
  /\ pc = "run"
  /\ outcome = "killed" => num["DIM"] \notin 1..10
  /\ outcome = "hung" => \E p \in Steps : num[p] <= 0
  /\ pc' = outcome
  /\ UNCHANGED <<logUp, file, pos, val, config, exit, reported>>

Next ==
  \/ Usage \/ OpenFails \/ Open \/ Read \/ Loaded \/ Refuse \/ Accept
  \/ \E outcome \in {"exit", "killed", "hung"} : Finish(outcome)

Spec == Init /\ [][Next]_vars /\ WF_vars(Next)

(***************************************************************************)
(* What a file says, line by line.                                         *)
(***************************************************************************)
(* (A line = = NAME is none: read behind a comment, its last word is taken  *)
(* for a name.)                                                             *)
Assigns(line) == Len(line) = 3 /\ ~Equals(line[1]) /\ line[2] = "=" /\ ~Hash(line[1])
Comment(line) == line # <<>> /\ Hash(line[1])

(* A comment whose words, read one after the other, are no parameter.      *)
Harmless(line) ==
  /\ Comment(line)
  /\ \A k \in 1..Len(line) : line[k] \notin Known
  /\ (\E k \in 1..Len(line) : Equals(line[k])) => Len(line) = 3 /\ line[2] = "="

Tidy(f) == \A j \in 1..Len(f) : f[j] = <<>> \/ Assigns(f[j]) \/ Harmless(f[j])

(* No comment follows a comment, and none follows the blanks a file begins *)
(* with.                                                                   *)
Separated(f) ==
  \A j \in 1..Len(f) : Comment(f[j]) =>
    \A i \in 1..(j - 1) :
      (\A k \in i..(j - 1) : f[k] = <<>> \/ Comment(f[k])) =>
        f[i] = <<>> /\ \E k \in 1..(i - 1) : Assigns(f[k])

Lines(f, names) == {j \in 1..Len(f) : Assigns(f[j]) /\ f[j][1] \in names}
Value(f, j) == Number(f[j][3])

(* The value of the last line that sets a parameter. *)
Written(f, p, default) ==
  LET at == Lines(f, {p}) IN
  IF at = {} THEN default ELSE Value(f, CHOOSE j \in at : \A k \in at : k <= j)

Unknown(f) == {j \in 1..Len(f) : Assigns(f[j]) /\ f[j][1] \notin Known}

(* The order of the files of tasks/config: STOPRUN = 0 before anything that *)
(* sets a flag, and a PRINTFLAG = 1 after it.                               *)
Conventional(f) ==
  \A j \in Lines(f, DOMAIN Switch) : Value(f, j) = 0 =>
    /\ f[j][1] = "STOPRUN"
    /\ Lines(f, DOMAIN Switch \union {"TARGETVALUE"}) \union Unknown(f) \subseteq j..Len(f)
    /\ \E k \in (j + 1)..Len(f) : k \in Lines(f, {"PRINTFLAG"})

(***************************************************************************)
(* Properties.                                                             *)
(***************************************************************************)
(* The loader has read the file; of an empty one this is seen in main only. *)
Complete == pc = "run" \/ (pc = "check" /\ pos = EOF /\ file # <<>>)

(* However many comments follow each other, and although every second one   *)
(* of them is read as parameters, each number of the request is what the    *)
(* last line that sets it says.                                             *)
SettingsAsWritten ==
  Complete /\ Tidy(file) => \A p \in Numbers : num[p] = Written(file, p, Default(p))

(* In a file that keeps to the order of the repository's own files, with    *)
(* comments that stand apart, the flags are what the file says, and the     *)
(* error flag is set just when a name is unknown.                           *)
FlagsAsWritten ==
  Complete /\ Tidy(file) /\ Separated(file) /\ Conventional(file) /\ ~Strict =>
    /\ "STOP_RUN" \in flags <=> Written(file, "STOPRUN", 0) # 0
    /\ "PRINT" \in flags <=> Written(file, "PRINTFLAG", 1) # 0
    /\ "TARGET_VALUE" \in flags <=> Lines(file, {"TARGETVALUE"}) # {}
    /\ "ERROR" \in flags <=> Unknown(file) # {}

(* The program ends, whatever the file holds, unless a line that sets a     *)
(* step gives it a value that is not positive.                              *)
LauncherEnds ==
  (pc = "main" /\ Tidy(file) /\ \A p \in Steps : Written(file, p, 1) > 0)
    ~> pc \in {"exit", "killed", "crashed"}

(* "Unsupported param %s" (eng_runner.c) and "Failed to load config"        *)
(* (eng_launcher.c): no search starts from a file with a parameter the      *)
(* loader reported as unsupported.                                          *)
UnsupportedRefused == pc = "run" => ~reported
=============================================================================
