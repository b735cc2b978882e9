----------------------------- MODULE BoxSearch -----------------------------
(***************************************************************************)
(* What a search of a box promises its caller, with no word of radius,     *)
(* loops or clipping: it tries points of the box, in any order and as      *)
(* often as it likes; it may claim to be exhaustive only when every point  *)
(* it had to try has been tried, it may stop early only at a point it just *)
(* tried and whose answer was yes, and it never tries a point after its    *)
(* verdict.                                                                *)
(***************************************************************************)
VARIABLES
  box,     \* the points it may try
  must,    \* the points it has to try
  tested,  \* the points it has tried
  verdict  \* "none", "all", "first" or "aborted"

svars == <<box, must, tested, verdict>>

CONSTANT Yes(_)  \* the points whose answer may be yes

SInit == tested = {} /\ verdict = "none" /\ must \subseteq box

Try(x) ==
  /\ verdict = "none" /\ x \in box
  /\ tested' = tested \union {x}
  /\ UNCHANGED <<box, must, verdict>>

Hit(x) ==
  /\ verdict = "none" /\ x \in box /\ Yes(x)
  /\ tested' = tested \union {x} /\ verdict' = "first"
  /\ UNCHANGED <<box, must>>

Exhaust ==
  /\ verdict = "none" /\ must \subseteq tested
  /\ verdict' = "all"
  /\ UNCHANGED <<box, must, tested>>

Abort ==
  /\ verdict = "none"
  /\ verdict' = "aborted"
  /\ UNCHANGED <<box, must, tested>>

SNext == (\E x \in box : Try(x) \/ Hit(x)) \/ Exhaust \/ Abort

SSpec == SInit /\ [][SNext]_svars
=============================================================================
