-------------------------------- MODULE Log --------------------------------
(***************************************************************************)
(* The logger (utils/log.c, log.h): the offset of the log, which one       *)
(* global keeps for every function of the program, and the functions'      *)
(* _LG_LV, which logenter declares and logmsg, logret and logerr give      *)
(* back.  The log file, the table of modules and the switch decide which   *)
(* records are written, and which of them move the offset.                 *)
(*                                                                         *)
(* The program that logs is a stack of calls.  A call may end with logret  *)
(* or logerr, or without either: an early return as in eng_int_run, or a   *)
(* longjmp of the exception handler past it.                               *)
(*                                                                         *)
(* Every record has the level LOGALL, so of a table of modules only the    *)
(* names with level LOGALL matter.  The text of a record is left out, the  *)
(* column it starts at is kept.                                            *)
(***************************************************************************)
EXTENDS Integers, Sequences, FiniteSets

CONSTANTS
  Modules,      \* the values of MODNAME in the program
  DefaultMod,   \* DEFAULT_MOD
  Tables,       \* the tables log_modinit is given: sets of names with LOGALL
  Inc,          \* g_offset_inc, 4
  OpenMayFail,  \* fopen of a log file may fail, now and then
  MaxDepth,     \* bound: calls on the stack
  MaxOffset     \* bound: a call that finds more does not log its entry

ASSUME LogAssumption ==
  /\ DefaultMod \in Modules /\ Tables \subseteq SUBSET Modules
  /\ Inc \in Nat \ {0} /\ OpenMayFail \in BOOLEAN
  /\ MaxDepth \in Nat /\ MaxOffset \in Nat

VARIABLES
  open,     \* g_logfile # 0
  named,    \* g_logname is not empty
  loaded,   \* g_modules # &def_mod
  missing,  \* g_modules is a null pointer: there was no memory for a table
  enabled,  \* the modules of g_modules with level LOGALL
  logon,    \* g_logon_mode
  offset,   \* g_offset
  frames,   \* the calls that declared a _LG_LV, innermost last
  aborted,  \* assert(lv >= 0) failed
  crashed   \* the program followed a null pointer

(* History variables. *)
VARIABLES
  line,     \* the record just written: its action and column; or NoLine
  leaked    \* some call that moved the offset ended without moving it back

modules == <<loaded, missing, enabled>>
vars == <<open, named, modules, logon, offset, frames, aborted, crashed, line, leaked>>

Acts == {"ENTER", "LEAVE", "ERR", "MSG"}
NoLine == [act |-> "none", col |-> 0]

(* A call: its module, its _LG_LV, the column of its ENTER and whether the *)
(* ENTER moved the offset.                                                 *)
FrameType == [mod : Modules, lv : Int, col : Int, counted : BOOLEAN]
Top == frames[Len(frames)]

Init ==
  /\ open = FALSE /\ named = TRUE /\ loaded = FALSE /\ missing = FALSE
  /\ enabled = {DefaultMod} /\ logon = TRUE /\ offset = 0 /\ frames = <<>>
  /\ aborted = FALSE /\ crashed = FALSE
  /\ line = NoLine /\ leaked = FALSE

(***************************************************************************)
(* One record: log_msg_ap and log_preambule.                               *)
(***************************************************************************)

(* Whether the file is open once log_msg_ap has tried: an empty name never *)
(* opens, and that is what log_close leaves.                               *)
Opened(ok) == open \/ (named /\ ok)
Tries == IF OpenMayFail THEN BOOLEAN ELSE {TRUE}

(* The column of a record, and what becomes of g_offset.  A simple record  *)
(* is written where the offset is and leaves it there.                     *)
ColumnAtOffset(act, simple, lv) ==                 \* fault: not where it began
  IF simple \/ act \in {"ENTER", "LEAVE", "ERR"} THEN offset ELSE lv

Column(act, simple, lv) ==
  CASE simple \/ act = "ENTER" -> offset
    [] ~simple /\ act \in {"LEAVE", "ERR"} -> lv - Inc
    [] ~simple /\ act = "MSG" -> lv

MovedNoEnter(act, simple, lv) ==                   \* fault: ENTER stays
  IF simple \/ act = "ENTER" THEN offset ELSE Column(act, simple, lv)

Moved(act, simple, lv) ==
  CASE simple -> offset
    [] ~simple /\ act = "ENTER" -> offset + Inc
    [] OTHER -> Column(act, simple, lv)

CountsIfOn(mod) == mod \in enabled /\ logon         \* fault: the switch counts

(* The module's level is asked before the offset moves, the switch after.  *)
Counts(mod) == mod \in enabled

(* A record that gets as far as the table needs one, see Crash.            *)
Record(act, simple, lv, mod, opened) ==
  LET col == Column(act, simple, lv) IN
  /\ opened => ~missing
  /\ IF opened /\ Counts(mod)
     THEN /\ offset' = Moved(act, simple, lv)
          /\ aborted' = (col < 0)
          /\ line' = IF col >= 0 /\ logon THEN [act |-> act, col |-> col] ELSE NoLine
     ELSE /\ UNCHANGED <<offset, aborted>> /\ line' = NoLine

(***************************************************************************)
(* The calls of the program.                                               *)
(***************************************************************************)
Running == ~aborted /\ ~crashed

(* logenter: _LG_LV is what log_msg returned, -1 when there is no file.    *)
Enter(mod, ok) ==
  /\ Running /\ Len(frames) < MaxDepth /\ offset < MaxOffset
  /\ Record("ENTER", FALSE, 0, mod, Opened(ok))
  /\ open' = Opened(ok)
  /\ frames' = Append(frames, [mod |-> mod, lv |-> IF Opened(ok) THEN offset' ELSE -1,
                               col |-> offset, counted |-> Opened(ok) /\ Counts(mod)])
  /\ UNCHANGED <<named, modules, logon, crashed, leaked>>

(* logmsg *)
Msg(ok) ==
  /\ Running /\ frames # <<>>
  /\ Record("MSG", FALSE, Top.lv, Top.mod, Opened(ok))
  /\ open' = Opened(ok)
  /\ UNCHANGED <<named, modules, logon, frames, crashed, leaked>>

(* logret, logerr, with their variants that run an action as well. *)
Leave(act, ok) ==
  /\ Running /\ frames # <<>> /\ act \in {"LEAVE", "ERR"}
  /\ Record(act, FALSE, Top.lv, Top.mod, Opened(ok))
  /\ open' = Opened(ok)
  /\ frames' = SubSeq(frames, 1, Len(frames) - 1)
  /\ UNCHANGED <<named, modules, logon, crashed, leaked>>

(* logsimple, logsimpleret, logsimpleerr *)
Simple(act, mod, ok) ==
  /\ Running /\ act \in Acts \ {"ENTER"}
  /\ Record(act, TRUE, 0, mod, Opened(ok))
  /\ open' = Opened(ok)
  /\ UNCHANGED <<named, modules, logon, frames, crashed, leaked>>

(* The calls above depth k end without a record. *)
Unwind(k) ==
  /\ Running /\ k < Len(frames)
  /\ frames' = SubSeq(frames, 1, k)
  /\ leaked' = (leaked \/ \E j \in (k + 1)..Len(frames) : frames[j].counted)
  /\ line' = NoLine
  /\ UNCHANGED <<open, named, modules, logon, offset, aborted, crashed>>

(* getlevel, in any record, when the table is a null pointer: bsearch hands *)
(* it to cmp, and that looks for a name there.                              *)
Crash(ok) ==
  /\ Running /\ missing /\ Opened(ok)
  /\ open' = TRUE /\ crashed' = TRUE /\ line' = NoLine
  /\ UNCHANGED <<named, modules, logon, offset, frames, aborted, leaked>>

(***************************************************************************)
(* Configuration.  The program does it where loginit and logclose stand:   *)
(* before the first logenter and with the last logret of main.             *)
(***************************************************************************)
Quiet == Running /\ frames = <<>>

(* log_init with a name. *)
LogInit(ok) ==
  /\ Quiet
  /\ IF open THEN UNCHANGED <<open, named>> ELSE named' = TRUE /\ open' = ok
  /\ line' = NoLine
  /\ UNCHANGED <<modules, logon, offset, frames, aborted, crashed, leaked>>

resetmod == loaded' = FALSE /\ missing' = FALSE /\ enabled' = {DefaultMod}

Configured == Quiet /\ line' = NoLine /\ UNCHANGED <<open, named, offset, frames, aborted, leaked>>

(* log_modinit with a table, while none is loaded. *)
ModInit(table) ==
  /\ Configured /\ ~loaded
  /\ loaded' = TRUE /\ enabled' = table /\ logon' = TRUE
  /\ UNCHANGED <<missing, crashed>>

(* log_modinit while a table is loaded, or with none or an empty one.       *)
ModInitKept == Configured /\ UNCHANGED <<modules, logon, crashed>>

(* malloc failed: what is left counts as a table, and the complaint goes to *)
(* the log file, whether there is one or not.                               *)
NoTable ==
  /\ loaded' = TRUE /\ missing' = TRUE /\ enabled' = {}
  /\ crashed' = ~open /\ UNCHANGED logon

ModInitFails == Configured /\ ~loaded /\ NoTable

ModClear == Configured /\ resetmod /\ UNCHANGED <<logon, crashed>>

(* log_modload of a file log_modsave wrote: %s swallows the colon of the   *)
(* pattern, so the first line never matches and the default table returns. *)
ModLoad == Configured /\ resetmod /\ UNCHANGED <<logon, crashed>>

(* log_modload of a file that cannot be opened or does not begin with the  *)
(* number of modules.                                                       *)
ModLoadKept == Configured /\ UNCHANGED <<modules, logon, crashed>>

ModLoadFails == Configured /\ NoTable

(* logclose: the logret of main, then log_close.  The offset stays.        *)
LogClose(ok) ==
  /\ Running /\ Len(frames) = 1
  /\ Record("LEAVE", FALSE, Top.lv, Top.mod, Opened(ok))
  /\ open' = FALSE /\ named' = FALSE /\ resetmod
  /\ frames' = <<>>
  /\ UNCHANGED <<logon, crashed, leaked>>

(* logon, logoff: anywhere. *)
Switch(mode) ==
  /\ Running /\ logon' = mode /\ line' = NoLine
  /\ UNCHANGED <<open, named, modules, offset, frames, aborted, crashed, leaked>>

Next ==
  \/ \E mod \in Modules, ok \in Tries : Enter(mod, ok)
  \/ \E ok \in Tries : Msg(ok)
  \/ \E act \in Acts, ok \in Tries : Leave(act, ok)
  \/ \E act \in Acts, mod \in Modules, ok \in Tries : Simple(act, mod, ok)
  \/ \E k \in 0..(MaxDepth - 1) : Unwind(k)
  \/ \E ok \in Tries : LogInit(ok)
  \/ \E ok \in Tries : Crash(ok)
  \/ (\E table \in Tables : ModInit(table)) \/ ModInitKept \/ ModInitFails
  \/ ModClear \/ ModLoad \/ ModLoadKept \/ ModLoadFails
  \/ \E ok \in Tries : LogClose(ok)
  \/ \E mode \in BOOLEAN : Switch(mode)

Spec == Init /\ [][Next]_vars

(***************************************************************************)
(* Properties.                                                             *)
(***************************************************************************)
TypeOK ==
  /\ open \in BOOLEAN /\ named \in BOOLEAN /\ loaded \in BOOLEAN /\ missing \in BOOLEAN
  /\ enabled \in SUBSET Modules /\ logon \in BOOLEAN
  /\ offset \in Int /\ frames \in Seq(FrameType)
  /\ aborted \in BOOLEAN /\ crashed \in BOOLEAN
  /\ line \in [act : Acts \union {"none"}, col : Int] /\ leaked \in BOOLEAN

(* A call is indented deeper than every live call that called it, and the  *)
(* log never moves left of a live call, whatever returned without a logret *)
(* or was jumped over in between.                                          *)
Nesting ==
  \A j \in 1..Len(frames) : frames[j].counted =>
    /\ Inc <= frames[j].lv /\ frames[j].lv <= offset
    /\ \A i \in 1..(j - 1) : frames[i].counted => frames[i].lv + Inc <= frames[j].lv

(* The LEAVE or ERROR of a call is written in the column of its ENTER,     *)
(* with any leaks, jumps and switching between the two.                    *)
BracesAlign ==
  [][line'.act \in {"LEAVE", "ERR"} /\ Len(frames') < Len(frames) => line'.col = Top.col]_vars

(* As long as no call ended without its logret, the offset is exactly the  *)
(* depth of the calls that log: switching the log off and on loses nothing.*)
Balanced ==
  ~leaked => offset = Inc * Cardinality({i \in 1..Len(frames) : frames[i].counted})

(* log.c: assert(lv >= 0) *)
AssertHolds == ~aborted
=============================================================================
