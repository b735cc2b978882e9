----------------------------- MODULE ErrorStack -----------------------------
(***************************************************************************)
(* The error stack of utils/error.c: a static array that err_put fills,    *)
(* that err_increase replaces by a larger one on the heap, and that        *)
(* err_clean puts back.                                                    *)
(***************************************************************************)
EXTENDS Integers, Sequences

CONSTANTS
  InitCount,  \* ERROR_INIT_COUNT
  Increment,  \* ERROR_DEFAULT_INCREMENT
  Entries,    \* what err_put may be given: type and code
  Junk,       \* an element of the heap array nobody has written
  Mallocs     \* the answers of malloc and realloc

ASSUME ErrorStackAssumption ==
  /\ InitCount \in Nat \ {0} /\ Increment \in Nat \ {0}
  /\ Junk \notin Entries /\ Mallocs \subseteq BOOLEAN /\ TRUE \in Mallocs

VARIABLES
  stack,   \* g_error[0..g_currerr-1]; g_currerr is its length
  alloc,   \* g_allocerr
  heap,    \* g_error # g_error_init
  killed,  \* the program got a SIGTERM, or crashed
  raised   \* history: what was put since the stack was last cleaned

errors == <<stack, alloc, heap, killed, raised>>

StackInit ==
  stack = <<>> /\ alloc = InitCount /\ heap = FALSE /\ killed = FALSE /\ raised = <<>>

(* Fault: the array grows only when the entry is already past its end. *)
RoomPast == Len(stack) <= alloc
Room == Len(stack) < alloc

(* What is on the stack when there is room for one more: the first time the *)
(* array grows it is a new one, to which nothing is copied; realloc copies. *)
Carried == IF Room \/ heap THEN stack ELSE [k \in 1..Len(stack) |-> Junk]

(* err_raise up to the signal, with err_increase and err_put. *)
Put(e) ==
  /\ stack' = Append(Carried, e) /\ raised' = Append(raised, e)
  /\ IF Room THEN UNCHANGED <<alloc, heap>>
     ELSE alloc' = alloc + Increment /\ heap' = TRUE
  /\ UNCHANGED killed

(* err_raise when there is no memory: SIGTERM, which nobody handles. *)
Exhausted ==
  /\ ~Room /\ FALSE \in Mallocs
  /\ killed' = TRUE
  /\ UNCHANGED <<stack, alloc, heap, raised>>

Clean ==
  /\ stack' = <<>> /\ raised' = <<>> /\ alloc' = InitCount /\ heap' = FALSE
  /\ UNCHANGED killed

(* The stack used by nobody in particular. *)
StackNext == ~killed /\ ((\E e \in Entries : Put(e)) \/ Exhausted \/ Clean)
StackSpec == StackInit /\ [][StackNext]_errors

(***************************************************************************)
(* Properties.                                                             *)
(***************************************************************************)

(* err_fprintstacktrace shows what was raised, in order, as long as the     *)
(* static array has sufficed; once it has not, the errors that were in it   *)
(* are lost and those raised later are right, however often it grows.       *)
(* err_put stays inside its array, and what err_clean frees is on the heap. *)
StackIsRaised ==
  /\ Len(stack) <= alloc /\ (heap <=> alloc > InitCount)
  /\ Len(stack) = Len(raised)
  /\ \A k \in 1..Len(stack) : stack[k] = IF heap /\ k <= InitCount THEN Junk ELSE raised[k]
=============================================================================
