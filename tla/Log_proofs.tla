----------------------------- MODULE Log_proofs -----------------------------
(***************************************************************************)
(* Proofs about Log, for every set of modules, every increment and every   *)
(* depth of calls, when log files can be opened: the nesting of the        *)
(* columns, and with it the assertion of log_preambule; and, while nothing *)
(* has leaked, the offset as the depth of the calls.                       *)
(*                                                                         *)
(* The invariant adds two facts to Nesting.  A call whose ENTER moved the  *)
(* offset did so in a log that is open, under a module that is enabled;    *)
(* the configuration stands still while calls are live, so both are still  *)
(* true.  A call whose ENTER did not move the offset will not write a      *)
(* record either, so its _LG_LV never reaches the offset.                  *)
(***************************************************************************)
EXTENDS Log, FiniteSetTheorems, TLAPS

(* A live call can write a record exactly when its ENTER moved the offset. *)
CanWrite(f) == (open \/ named) /\ f.mod \in enabled
Steady == \A i \in 1..Len(frames) : frames[i].counted <=> CanWrite(frames[i])

(* The column of its ENTER is one increment to the left of its _LG_LV.      *)
Entered ==
  \A i \in 1..Len(frames) : frames[i].counted => frames[i].col = frames[i].lv - Inc

LInv == TypeOK /\ Nesting /\ Steady /\ Entered /\ offset >= 0 /\ AssertHolds

(* The steps that are about the table of modules only. *)
Tabled ==
  \/ (\E table \in Tables : ModInit(table)) \/ ModInitKept \/ ModInitFails
  \/ ModClear \/ ModLoad \/ ModLoadKept \/ ModLoadFails

-----------------------------------------------------------------------------
(* The initial state. *)
LEMMA LInvInit == Init => LInv
<1> SUFFICES ASSUME Init PROVE LInv OBVIOUS
<1>1. frames = <<>> /\ Len(frames) = 0 /\ frames \in Seq(FrameType) BY DEF Init
<1>2. TypeOK
  <2>1. line \in [act : Acts \union {"none"}, col : Int] BY DEF Init, NoLine
  <2>2. enabled \in SUBSET Modules BY LogAssumption DEF Init
  <2>3. offset \in Int BY DEF Init
  <2>4. /\ open \in BOOLEAN /\ named \in BOOLEAN /\ loaded \in BOOLEAN /\ missing \in BOOLEAN
        /\ logon \in BOOLEAN /\ aborted \in BOOLEAN /\ crashed \in BOOLEAN /\ leaked \in BOOLEAN
    BY DEF Init
  <2>5. QED BY <1>1, <2>1, <2>2, <2>3, <2>4, Zenon DEF TypeOK
<1>3. QED BY <1>1, <1>2 DEF Init, LInv, Nesting, Steady, Entered, AssertHolds

(* What a prefix of the calls is made of. *)
LEMMA Prefix ==
  ASSUME TypeOK, NEW k \in 0..Len(frames)
  PROVE  /\ SubSeq(frames, 1, k) \in Seq(FrameType) /\ Len(SubSeq(frames, 1, k)) = k
         /\ \A i \in 1..k : SubSeq(frames, 1, k)[i] = frames[i]
BY DEF TypeOK

(* A call on the stack. *)
LEMMA FrameTypes ==
  ASSUME TypeOK, NEW i \in 1..Len(frames)
  PROVE  frames[i] \in FrameType /\ frames[i].lv \in Int /\ frames[i].counted \in BOOLEAN
<1>1. frames[i] \in FrameType BY DEF TypeOK
<1>2. QED BY <1>1 DEF FrameType

(* Leaving the offset, the calls and the configuration alone keeps it all.  *)
LEMMA Idle ==
  ASSUME LInv, TypeOK', frames' = frames, offset' = offset, aborted' = aborted,
         (open' \/ named') = (open \/ named), enabled' = enabled
  PROVE  LInv'
BY DEF LInv, Nesting, Steady, Entered, AssertHolds, CanWrite

(* So does any configuration while no call is live. *)
LEMMA QuietStep ==
  ASSUME LInv, TypeOK', frames = <<>>, frames' = <<>>, offset' = offset, aborted' = aborted
  PROVE  LInv'
BY DEF LInv, Nesting, Steady, Entered, AssertHolds

(* Calls that end without a record. *)
LEMMA Unwound ==
  ASSUME LInv, TypeOK', NEW k \in 0..Len(frames), frames' = SubSeq(frames, 1, k),
         (open' \/ named') = (open \/ named), enabled' = enabled,
         offset' \in Int, offset' >= 0, ~aborted',
         \A j \in 1..k : frames[j].counted => frames[j].lv <= offset'
  PROVE  LInv'
<1>1. Len(frames') = k /\ \A i \in 1..k : frames'[i] = frames[i] BY Prefix DEF LInv
<1>2. k \in Nat /\ \A i \in 1..k : i \in 1..Len(frames) BY DEF LInv, TypeOK
<1>3. Nesting' BY <1>1, <1>2 DEF LInv, Nesting
<1>4. (Steady /\ Entered)' BY <1>1, <1>2 DEF LInv, Steady, Entered, CanWrite
<1>5. QED BY <1>3, <1>4 DEF LInv, AssertHolds

(* The try to open a log file succeeds if there is a name. *)
LEMMA Opens == ASSUME ~OpenMayFail, NEW ok \in Tries PROVE Opened(ok) = (open \/ named)
BY DEF Opened, Tries

-----------------------------------------------------------------------------
LEMMA EnterInv ==
  ASSUME ~OpenMayFail, LInv, TypeOK', NEW mod \in Modules, NEW ok \in Tries, Enter(mod, ok)
  PROVE  LInv'
<1> DEFINE n == Len(frames)
           f == [mod |-> mod, lv |-> IF Opened(ok) THEN offset' ELSE -1,
                 col |-> offset, counted |-> Opened(ok) /\ Counts(mod)]
<1>1. /\ frames' = Append(frames, f) /\ open' = Opened(ok) /\ named' = named /\ enabled' = enabled
      /\ Record("ENTER", FALSE, 0, mod, Opened(ok))
  BY DEF Enter, modules
<1>2. n \in Nat /\ Len(frames') = n + 1 /\ frames'[n + 1] = f
      /\ \A i \in 1..n : frames'[i] = frames[i]
  BY <1>1 DEF LInv, TypeOK
<1>3. offset \in Int /\ offset >= 0 /\ Inc \in Nat \ {0} BY LogAssumption DEF LInv, TypeOK
<1>4. CASE Opened(ok) /\ Counts(mod)
  <2>1. offset' = offset + Inc /\ ~aborted'
    <3>1. Column("ENTER", FALSE, 0) = offset /\ Moved("ENTER", FALSE, 0) = offset + Inc
      BY DEF Column, Moved
    <3>2. offset' = offset + Inc /\ aborted' = (offset < 0)
      BY <1>1, <1>4, <3>1, Zenon DEF Record
    <3>3. ~(offset < 0) BY <1>3
    <3>4. QED BY <3>2, <3>3, Zenon
  <2>2. f.counted /\ f.lv = offset' /\ f.col = offset BY <1>4
  <2>3. ASSUME NEW i \in 1..n, frames[i].counted
        PROVE  frames[i].lv \in Int /\ Inc <= frames[i].lv /\ frames[i].lv <= offset
    BY <2>3, FrameTypes DEF LInv, Nesting
  <2>4. Nesting'
    <3>1. ASSUME NEW j \in 1..(n + 1), frames'[j].counted
          PROVE  /\ Inc <= frames'[j].lv /\ frames'[j].lv <= offset'
                 /\ \A i \in 1..(j - 1) : frames'[i].counted => frames'[i].lv + Inc <= frames'[j].lv
      <4>1. CASE j = n + 1
        <5>1. Inc <= f.lv /\ f.lv <= offset' BY <1>3, <2>1, <2>2
        <5>2. ASSUME NEW i \in 1..n, frames[i].counted PROVE frames[i].lv + Inc <= f.lv
          BY <1>3, <2>1, <2>2, <2>3, <5>2
        <5>3. QED BY <1>2, <4>1, <5>1, <5>2
      <4>2. CASE j \in 1..n
        <5>1. frames[j].counted /\ frames'[j] = frames[j] BY <1>2, <3>1, <4>2
        <5>2. frames[j].lv <= offset' BY <1>3, <2>1, <2>3, <4>2, <5>1
        <5>3. \A i \in 1..(j - 1) : i \in 1..n BY <1>2, <4>2
        <5>4. QED BY <1>2, <4>2, <5>1, <5>2, <5>3 DEF LInv, Nesting
      <4>3. QED BY <1>2, <3>1, <4>1, <4>2
    <3>2. QED BY <1>2, <3>1 DEF Nesting
  <2>5. (Steady /\ Entered)'
    <3>1. (open' \/ named') /\ f.mod \in enabled' BY <1>1, <1>4 DEF Counts
    <3>2. (open' \/ named') <=> (open \/ named) BY <1>1, Opens
    <3>3. f.col = f.lv - Inc BY <1>3, <2>1, <2>2
    <3>4. \A i \in 1..(n + 1) : i \in 1..n \/ i = n + 1 BY <1>2
    <3>5. Entered' BY <1>2, <3>3, <3>4 DEF LInv, Entered
    <3>6. \A i \in 1..n : (frames[i].counted <=> CanWrite(frames[i]))'
      BY <1>1, <1>2, <3>2 DEF LInv, Steady, CanWrite
    <3>7. Steady' BY <1>2, <2>2, <3>1, <3>4, <3>6 DEF Steady, CanWrite
    <3>8. QED BY <3>5, <3>7
  <2>6. QED BY <1>3, <2>1, <2>4, <2>5 DEF LInv, AssertHolds
<1>5. CASE ~(Opened(ok) /\ Counts(mod))
  <2>1. offset' = offset /\ aborted' = aborted BY <1>1, <1>5 DEF Record
  <2>2. ~f.counted BY <1>5
  <2>3. \A i \in 1..(n + 1) : i \in 1..n \/ i = n + 1 BY <1>2
  <2>4. Nesting'
    <3>1. \A j \in 1..n : \A i \in 1..(j - 1) : i \in 1..n BY <1>2
    <3>2. QED BY <1>2, <2>1, <2>2, <2>3, <3>1 DEF LInv, Nesting
  <2>5. (Steady /\ Entered)'
    <3>1. ~((open' \/ named') /\ f.mod \in enabled') BY <1>1, <1>5, Opens DEF Counts
    <3>2. (open' \/ named') <=> (open \/ named) BY <1>1, Opens
    <3>3. Entered' BY <1>2, <2>2, <2>3 DEF LInv, Entered
    <3>4. \A i \in 1..n : (frames[i].counted <=> CanWrite(frames[i]))'
      BY <1>1, <1>2, <3>2 DEF LInv, Steady, CanWrite
    <3>5. Steady' BY <1>2, <2>2, <2>3, <3>1, <3>4 DEF Steady, CanWrite
    <3>6. QED BY <3>3, <3>5
  <2>6. QED BY <2>1, <2>4, <2>5 DEF LInv, AssertHolds
<1>6. QED BY <1>4, <1>5

(* logmsg takes the log back to the call that writes it. *)
LEMMA MsgInv ==
  ASSUME ~OpenMayFail, LInv, TypeOK', NEW ok \in Tries, Msg(ok)
  PROVE  LInv'
<1>1. /\ frames' = frames /\ frames # <<>> /\ open' = Opened(ok) /\ named' = named
      /\ enabled' = enabled /\ Record("MSG", FALSE, Top.lv, Top.mod, Opened(ok))
  BY DEF Msg, modules
<1>2. Len(frames) \in 1..Len(frames) BY <1>1 DEF LInv, TypeOK
<1>3. (open' \/ named') = (open \/ named) BY <1>1, Opens
<1>4. CASE Opened(ok) /\ Counts(Top.mod)
  <2>1. Top.counted BY <1>2, <1>4, Opens DEF LInv, Steady, CanWrite, Counts, Top
  <2>2. Inc <= Top.lv /\ Top.lv \in Int /\ Inc \in Nat \ {0}
    BY <1>2, <2>1, FrameTypes, LogAssumption DEF LInv, Nesting, Top
  <2>3. offset' = Top.lv /\ ~aborted'
    <3>1. Column("MSG", FALSE, Top.lv) = Top.lv /\ Moved("MSG", FALSE, Top.lv) = Top.lv
      BY DEF Column, Moved
    <3>2. offset' = Top.lv /\ aborted' = (Top.lv < 0)
      BY <1>1, <1>4, <3>1, Zenon DEF Record
    <3>3. ~(Top.lv < 0) BY <2>2
    <3>4. QED BY <3>2, <3>3, Zenon
  <2>4. ASSUME NEW j \in 1..Len(frames), frames[j].counted PROVE frames[j].lv <= offset'
    <3>1. CASE j = Len(frames) BY <2>2, <2>3, <3>1 DEF Top
    <3>2. CASE j \in 1..(Len(frames) - 1)
      <4>1. frames[j].lv + Inc <= Top.lv BY <1>2, <2>1, <2>4, <3>2 DEF LInv, Nesting, Top
      <4>2. QED BY <2>2, <2>3, <4>1, FrameTypes DEF LInv
    <3>3. QED BY <1>2, <2>4, <3>1, <3>2
  <2>5. Nesting' BY <1>1, <2>4 DEF LInv, Nesting
  <2>6. (Steady /\ Entered)' BY <1>1, <1>3 DEF LInv, Steady, Entered, CanWrite
  <2>7. QED BY <2>2, <2>3, <2>5, <2>6 DEF LInv, AssertHolds
<1>5. CASE ~(Opened(ok) /\ Counts(Top.mod))
  <2>1. offset' = offset /\ aborted' = aborted BY <1>1, <1>5 DEF Record
  <2>2. QED BY <1>1, <1>3, <2>1, Idle
<1>6. QED BY <1>4, <1>5

(* What the LEAVE or ERR of the innermost call does to the offset. *)
LEMMA LeaveRecord ==
  ASSUME ~OpenMayFail, LInv, NEW ok \in Tries, NEW act \in {"LEAVE", "ERR"}, frames # <<>>,
         Record(act, FALSE, Top.lv, Top.mod, Opened(ok))
  PROVE  /\ offset' \in Int /\ offset' >= 0 /\ ~aborted'
         /\ \A j \in 1..(Len(frames) - 1) : frames[j].counted => frames[j].lv <= offset'
         /\ line'.act \in {"LEAVE", "ERR"} => line'.col = Top.col
<1>1. Len(frames) \in 1..Len(frames) BY DEF LInv, TypeOK
<1>2. offset \in Int /\ offset >= 0 /\ Inc \in Nat \ {0} /\ ~aborted
  BY LogAssumption DEF LInv, TypeOK, AssertHolds
<1>3. CASE Opened(ok) /\ Counts(Top.mod)
  <2>1. Top.counted BY <1>1, <1>3, Opens DEF LInv, Steady, CanWrite, Counts, Top
  <2>2. Inc <= Top.lv /\ Top.lv \in Int /\ Top.col = Top.lv - Inc
    BY <1>1, <2>1, FrameTypes DEF LInv, Nesting, Entered, Top
  <2>3. Column(act, FALSE, Top.lv) = Top.lv - Inc /\ Moved(act, FALSE, Top.lv) = Top.lv - Inc
    BY DEF Column, Moved
  <2>4. offset' = Top.lv - Inc /\ ~aborted'
    <3>1. offset' = Top.lv - Inc /\ aborted' = (Top.lv - Inc < 0)
      BY <1>3, <2>3, Zenon DEF Record
    <3>2. ~(Top.lv - Inc < 0) BY <1>2, <2>2
    <3>3. QED BY <3>1, <3>2, Zenon
  <2>5. ASSUME NEW j \in 1..(Len(frames) - 1), frames[j].counted PROVE frames[j].lv <= offset'
    <3>1. frames[j].lv + Inc <= Top.lv BY <1>1, <2>1, <2>5 DEF LInv, Nesting, Top
    <3>2. frames[j].lv \in Int BY <1>1, FrameTypes DEF LInv
    <3>3. QED BY <1>2, <2>2, <2>4, <3>1, <3>2
  <2>6. line'.act \in {"LEAVE", "ERR"} => line'.col = Top.col
    <3>1. line' = [act |-> act, col |-> Top.lv - Inc] \/ line' = NoLine
      BY <1>3, <2>3, Zenon DEF Record
    <3>2. QED BY <2>2, <3>1 DEF NoLine
  <2>7. QED BY <1>2, <2>2, <2>4, <2>5, <2>6
<1>4. CASE ~(Opened(ok) /\ Counts(Top.mod))
  <2>1. offset' = offset /\ aborted' = aborted /\ line' = NoLine BY <1>4 DEF Record
  <2>2. \A j \in 1..(Len(frames) - 1) : frames[j].counted => frames[j].lv <= offset'
    BY <1>1, <2>1 DEF LInv, Nesting
  <2>3. QED BY <1>2, <2>1, <2>2 DEF NoLine
<1>5. QED BY <1>3, <1>4

LEMMA LeaveInv ==
  ASSUME ~OpenMayFail, LInv, TypeOK', NEW ok \in Tries, NEW act \in Acts, Leave(act, ok)
  PROVE  LInv'
<1> DEFINE k == Len(frames) - 1
<1>1. /\ frames' = SubSeq(frames, 1, k) /\ open' = Opened(ok) /\ named' = named
      /\ enabled' = enabled /\ act \in {"LEAVE", "ERR"} /\ frames # <<>>
      /\ Record(act, FALSE, Top.lv, Top.mod, Opened(ok))
  BY DEF Leave, modules
<1>2. k \in 0..Len(frames) BY <1>1 DEF LInv, TypeOK
<1>3. /\ offset' \in Int /\ offset' >= 0 /\ ~aborted'
      /\ \A j \in 1..k : frames[j].counted => frames[j].lv <= offset'
  BY <1>1, LeaveRecord
<1>4. (open' \/ named') = (open \/ named) BY <1>1, Opens
<1>5. QED BY <1>1, <1>2, <1>3, <1>4, Unwound

LEMMA SimpleInv ==
  ASSUME ~OpenMayFail, LInv, TypeOK', NEW ok \in Tries, NEW act \in Acts, NEW mod \in Modules,
         Simple(act, mod, ok)
  PROVE  LInv'
<1>1. /\ frames' = frames /\ open' = Opened(ok) /\ named' = named /\ enabled' = enabled
      /\ Record(act, TRUE, 0, mod, Opened(ok))
  BY DEF Simple, modules
<1>2. Column(act, TRUE, 0) = offset /\ Moved(act, TRUE, 0) = offset BY DEF Column, Moved
<1>3. offset \in Int /\ ~(offset < 0) BY DEF LInv, TypeOK
<1>4. offset' = offset /\ (aborted' = aborted \/ aborted' = (offset < 0))
  BY <1>1, <1>2, Zenon DEF Record
<1>5. ~aborted' BY <1>3, <1>4 DEF LInv, AssertHolds
<1>6. (open' \/ named') <=> (open \/ named) BY <1>1, Opens
<1>7. QED BY <1>1, <1>4, <1>5, <1>6 DEF LInv, Nesting, Steady, Entered, AssertHolds, CanWrite

LEMMA UnwindInv ==
  ASSUME LInv, TypeOK', NEW k \in 0..(MaxDepth - 1), Unwind(k)
  PROVE  LInv'
<1>1. /\ k < Len(frames) /\ frames' = SubSeq(frames, 1, k) /\ open' = open /\ named' = named
      /\ enabled' = enabled /\ offset' = offset /\ aborted' = aborted
  BY DEF Unwind, modules
<1>2. k \in 0..Len(frames) BY <1>1 DEF LInv, TypeOK
<1>3. offset' \in Int /\ offset' >= 0 /\ ~aborted' BY <1>1 DEF LInv, TypeOK, AssertHolds
<1>4. \A j \in 1..k : frames[j].counted => frames[j].lv <= offset'
  BY <1>1, <1>2 DEF LInv, Nesting
<1>5. QED BY <1>1, <1>2, <1>3, <1>4, Unwound

LEMMA LogCloseInv ==
  ASSUME ~OpenMayFail, LInv, TypeOK', NEW ok \in Tries, LogClose(ok)
  PROVE  LInv'
<1>1. /\ frames' = <<>> /\ Len(frames) = 1
      /\ Record("LEAVE", FALSE, Top.lv, Top.mod, Opened(ok))
  BY DEF LogClose
<1>2. frames # <<>> BY <1>1
<1>3. offset' \in Int /\ offset' >= 0 /\ ~aborted' BY <1>1, <1>2, LeaveRecord
<1>4. QED BY <1>1, <1>3 DEF LInv, Nesting, Steady, Entered, AssertHolds

LEMMA SwitchInv == ASSUME LInv, TypeOK', NEW mode \in BOOLEAN, Switch(mode) PROVE LInv'
BY Idle DEF Switch, modules

LEMMA CrashInv == ASSUME LInv, TypeOK', NEW ok \in Tries, Crash(ok) PROVE LInv'
<1>1. /\ frames' = frames /\ offset' = offset /\ aborted' = aborted /\ enabled' = enabled
      /\ open' /\ Opened(ok)
  BY DEF Crash, modules
<1>2. (open' \/ named') = (open \/ named) BY <1>1 DEF Opened, LInv, TypeOK
<1>3. QED BY <1>1, <1>2, Idle

-----------------------------------------------------------------------------
(* Types. *)
LEMMA TypeNext == LInv /\ [Next]_vars => TypeOK'
<1> SUFFICES ASSUME LInv, [Next]_vars PROVE TypeOK' OBVIOUS
<1> USE LogAssumption
<1>0. TypeOK /\ Inc \in Int /\ offset \in Int BY DEF LInv, TypeOK
<1>1. ASSUME NEW act \in Acts, NEW simple \in BOOLEAN, NEW lv \in Int, NEW mod, NEW opened,
             Record(act, simple, lv, mod, opened)
      PROVE  offset' \in Int /\ aborted' \in BOOLEAN
             /\ line' \in [act : Acts \union {"none"}, col : Int]
  <2>1. Column(act, simple, lv) \in Int /\ Moved(act, simple, lv) \in Int
    BY <1>0, <1>1 DEF Column, Moved, Acts
  <2>2. NoLine \in [act : Acts \union {"none"}, col : Int] BY DEF NoLine
  <2>3. line' = NoLine \/ line' = [act |-> act, col |-> Column(act, simple, lv)]
    BY <1>1, Zenon DEF Record
  <2>4. line' \in [act : Acts \union {"none"}, col : Int] BY <2>1, <2>2, <2>3
  <2>5. offset' = offset \/ offset' = Moved(act, simple, lv) BY <1>1, Zenon DEF Record
  <2>6. aborted' = aborted \/ aborted' = (Column(act, simple, lv) < 0)
    BY <1>1, Zenon DEF Record
  <2>7. aborted' \in BOOLEAN
    <3>1. aborted \in BOOLEAN BY <1>0 DEF TypeOK
    <3>2. (Column(act, simple, lv) < 0) \in BOOLEAN OBVIOUS
    <3>3. QED BY <2>6, <3>1, <3>2, Zenon
  <2>8. QED BY <1>0, <2>1, <2>4, <2>5, <2>7
<1>2. ASSUME NEW ok \in Tries PROVE Opened(ok) \in BOOLEAN
  BY <1>0 DEF Opened, Tries, TypeOK
<1>3. frames # <<>> => Top.lv \in Int /\ Len(frames) \in 1..Len(frames)
  <2>1. SUFFICES ASSUME frames # <<>> PROVE Top.lv \in Int /\ Len(frames) \in 1..Len(frames)
    OBVIOUS
  <2>2. Len(frames) \in 1..Len(frames) BY <1>0, <2>1 DEF TypeOK
  <2>3. QED BY <1>0, <2>2, FrameTypes DEF Top
<1>4. {"ENTER", "LEAVE", "ERR", "MSG"} = Acts BY DEF Acts
<1>5. \A k \in 0..Len(frames) : SubSeq(frames, 1, k) \in Seq(FrameType) BY <1>0, Prefix
<1>6. ASSUME NEW mod \in Modules, NEW ok \in Tries, Enter(mod, ok) PROVE TypeOK'
  <2>1. Record("ENTER", FALSE, 0, mod, Opened(ok)) BY <1>6 DEF Enter
  <2>2. offset' \in Int /\ aborted' \in BOOLEAN
        /\ line' \in [act : Acts \union {"none"}, col : Int]
    <3>1. 0 \in Int /\ FALSE \in BOOLEAN /\ "ENTER" \in Acts BY <1>4
    <3>2. QED BY <1>1, <2>1, <3>1, Zenon
  <2>3. [mod |-> mod, lv |-> IF Opened(ok) THEN offset' ELSE -1, col |-> offset,
         counted |-> Opened(ok) /\ Counts(mod)] \in FrameType
    BY <1>0, <1>2, <2>2 DEF FrameType, Counts
  <2>4. frames' \in Seq(FrameType) BY <1>0, <1>6, <2>3 DEF Enter, TypeOK
  <2>5. QED BY <1>0, <1>2, <1>6, <2>2, <2>4 DEF Enter, modules, TypeOK
<1>7. ASSUME NEW ok \in Tries, Msg(ok) PROVE TypeOK'
  <2>1. Record("MSG", FALSE, Top.lv, Top.mod, Opened(ok)) /\ Top.lv \in Int
    BY <1>3, <1>7 DEF Msg
  <2>2. QED BY <1>0, <1>1, <1>2, <1>4, <1>7, <2>1 DEF Msg, modules, TypeOK
<1>8. ASSUME NEW act \in Acts, NEW ok \in Tries, Leave(act, ok) PROVE TypeOK'
  <2>1. Record(act, FALSE, Top.lv, Top.mod, Opened(ok)) /\ Top.lv \in Int
    BY <1>3, <1>8 DEF Leave
  <2>2. frames' \in Seq(FrameType) BY <1>3, <1>5, <1>8 DEF Leave
  <2>3. QED BY <1>0, <1>1, <1>2, <1>8, <2>1, <2>2 DEF Leave, modules, TypeOK
<1>9. ASSUME NEW act \in Acts, NEW mod \in Modules, NEW ok \in Tries, Simple(act, mod, ok)
      PROVE  TypeOK'
  <2>1. Record(act, TRUE, 0, mod, Opened(ok)) BY <1>9 DEF Simple
  <2>2. 0 \in Int /\ TRUE \in BOOLEAN OBVIOUS
  <2>3. offset' \in Int /\ aborted' \in BOOLEAN
        /\ line' \in [act : Acts \union {"none"}, col : Int]
    BY <1>1, <2>1, <2>2, Zenon
  <2>4. QED BY <1>0, <1>2, <1>9, <2>3 DEF Simple, modules, TypeOK
<1>10. ASSUME NEW k \in 0..(MaxDepth - 1), Unwind(k) PROVE TypeOK'
  <2>1. frames' \in Seq(FrameType) BY <1>0, <1>5, <1>10 DEF Unwind, TypeOK
  <2>2. leaked' \in BOOLEAN BY <1>0, <1>10 DEF Unwind, TypeOK
  <2>3. line' \in [act : Acts \union {"none"}, col : Int] BY <1>10 DEF Unwind, NoLine
  <2>4. QED BY <1>0, <1>10, <2>1, <2>2, <2>3 DEF Unwind, modules, TypeOK
<1>11. ASSUME NEW ok \in Tries, LogInit(ok) PROVE TypeOK'
  <2>1. ok \in BOOLEAN BY DEF Tries
  <2>2. open' \in BOOLEAN /\ named' \in BOOLEAN BY <1>0, <1>11, <2>1 DEF LogInit, TypeOK
  <2>3. line' \in [act : Acts \union {"none"}, col : Int] BY <1>11 DEF LogInit, NoLine
  <2>4. QED BY <1>0, <1>11, <2>2, <2>3 DEF LogInit, modules, TypeOK
<1>12. CASE Tabled
  <2>1. /\ UNCHANGED <<open, named, offset, frames, aborted, leaked>> /\ line' = NoLine
        /\ loaded' \in BOOLEAN /\ missing' \in BOOLEAN /\ enabled' \in SUBSET Modules
        /\ logon' \in BOOLEAN /\ crashed' \in BOOLEAN
    BY <1>0, <1>12 DEF Tabled, ModInit, ModInitKept, ModInitFails, ModClear, ModLoad, ModLoadKept,
         ModLoadFails, Configured, NoTable, resetmod, modules, TypeOK
  <2>2. line' \in [act : Acts \union {"none"}, col : Int] BY <2>1 DEF NoLine
  <2>3. QED BY <1>0, <2>1, <2>2 DEF TypeOK
<1>13. ASSUME NEW ok \in Tries, Crash(ok) PROVE TypeOK'
  <2>1. line' \in [act : Acts \union {"none"}, col : Int] BY <1>13 DEF Crash, NoLine
  <2>2. QED BY <1>0, <1>13, <2>1 DEF Crash, modules, TypeOK
<1>14. ASSUME NEW ok \in Tries, LogClose(ok) PROVE TypeOK'
  <2>1. frames # <<>> BY <1>14 DEF LogClose
  <2>2. Record("LEAVE", FALSE, Top.lv, Top.mod, Opened(ok)) /\ Top.lv \in Int
    BY <1>3, <1>14, <2>1 DEF LogClose
  <2>3. frames' \in Seq(FrameType) BY <1>14 DEF LogClose
  <2>4. QED BY <1>0, <1>1, <1>4, <1>14, <2>2, <2>3 DEF LogClose, resetmod, TypeOK
<1>15. ASSUME NEW mode \in BOOLEAN, Switch(mode) PROVE TypeOK'
  <2>1. line' \in [act : Acts \union {"none"}, col : Int] BY <1>15 DEF Switch, NoLine
  <2>2. QED BY <1>0, <1>15, <2>1 DEF Switch, modules, TypeOK
<1>16. CASE UNCHANGED vars BY <1>0, <1>16 DEF vars, modules, TypeOK
<1>17. QED
  BY <1>6, <1>7, <1>8, <1>9, <1>10, <1>11, <1>12, <1>13, <1>14, <1>15, <1>16
     DEF Next, Tabled

LEMMA LInvNext == ~OpenMayFail /\ LInv /\ [Next]_vars => LInv'
<1> SUFFICES ASSUME ~OpenMayFail, LInv, [Next]_vars PROVE LInv' OBVIOUS
<1>0. TypeOK' BY TypeNext
<1>1. CASE \E ok \in Tries : LogInit(ok)
  BY <1>0, <1>1, QuietStep DEF LogInit, Quiet
<1>2. CASE Tabled
  <2>1. Configured
    BY <1>2 DEF Tabled, ModInit, ModInitKept, ModInitFails, ModClear, ModLoad, ModLoadKept, ModLoadFails
  <2>2. QED BY <1>0, <2>1, QuietStep DEF Configured, Quiet
<1>3. ASSUME NEW ok \in Tries, Crash(ok) PROVE LInv' BY <1>0, <1>3, CrashInv
<1>4. CASE UNCHANGED vars BY <1>0, <1>4, Idle DEF vars, modules
<1>5. QED
  BY <1>0, <1>1, <1>2, <1>3, <1>4, EnterInv, MsgInv, LeaveInv, SimpleInv, UnwindInv,
     LogCloseInv, SwitchInv
     DEF Next, Tabled

(* Every call is indented deeper than the live calls above it, for any      *)
(* sequence of logged, unlogged and jumped-over returns.                    *)
THEOREM CallsNest == ~OpenMayFail => (Spec => []Nesting)
<1> SUFFICES ASSUME ~OpenMayFail PROVE Spec => []Nesting OBVIOUS
<1>1. LInv => Nesting BY DEF LInv
<1>2. LInv /\ [Next]_vars => LInv' BY LInvNext
<1>3. QED BY <1>1, <1>2, LInvInit, PTL DEF Spec

(* The assertion of log_preambule never fails while log files can be opened.*)
THEOREM AssertionHolds == ~OpenMayFail => (Spec => []AssertHolds)
<1> SUFFICES ASSUME ~OpenMayFail PROVE Spec => []AssertHolds OBVIOUS
<1>1. LInv => AssertHolds BY DEF LInv
<1>2. LInv /\ [Next]_vars => LInv' BY LInvNext
<1>3. QED BY <1>1, <1>2, LInvInit, PTL DEF Spec

(* A LEAVE or ERROR is written in the column of the ENTER of the same call. *)
THEOREM LeaveAligns == ~OpenMayFail => (Spec => BracesAlign)
<1> SUFFICES ASSUME ~OpenMayFail PROVE Spec => BracesAlign OBVIOUS
<1>1. ASSUME LInv, [Next]_vars
      PROVE  [line'.act \in {"LEAVE", "ERR"} /\ Len(frames') < Len(frames)
               => line'.col = Top.col]_vars
  <2>1. ASSUME NEW act \in Acts, NEW ok \in Tries, Leave(act, ok)
        PROVE  line'.act \in {"LEAVE", "ERR"} => line'.col = Top.col
    BY <1>1, <2>1, LeaveRecord DEF Leave
  <2>2. ASSUME NEW ok \in Tries, LogClose(ok)
        PROVE  line'.act \in {"LEAVE", "ERR"} => line'.col = Top.col
    <3>1. frames # <<>> BY <2>2 DEF LogClose
    <3>2. QED BY <1>1, <2>2, <3>1, LeaveRecord DEF LogClose
  <2>3. ASSUME NEW k \in 0..(MaxDepth - 1), Unwind(k)
        PROVE  ~(line'.act \in {"LEAVE", "ERR"})
    BY <2>3 DEF Unwind, NoLine
  <2>4. ASSUME NEW mod \in Modules, NEW ok \in Tries, Enter(mod, ok)
        PROVE  ~(Len(frames') < Len(frames))
    <3>1. Len(frames') = Len(frames) + 1 /\ Len(frames) \in Nat
      BY <1>1, <2>4 DEF Enter, LInv, TypeOK
    <3>2. QED BY <3>1
  <2>5. Len(frames) \in Nat BY <1>1 DEF LInv, TypeOK
  <2>6. frames' = frames => ~(Len(frames') < Len(frames)) BY <2>5
  <2>7. ASSUME \/ \E ok \in Tries : Msg(ok) \/ LogInit(ok)
               \/ \E act \in Acts, mod \in Modules, ok \in Tries : Simple(act, mod, ok)
               \/ Tabled \/ (\E ok \in Tries : Crash(ok))
               \/ \E mode \in BOOLEAN : Switch(mode)
        PROVE  frames' = frames
    BY <2>7 DEF Msg, LogInit, Simple, Tabled, ModInit, ModInitKept, ModInitFails, ModClear, ModLoad,
         ModLoadKept, ModLoadFails, Configured, Crash, Switch
  <2>8. QED BY <1>1, <2>1, <2>2, <2>3, <2>4, <2>6, <2>7 DEF Next, Tabled
<1>2. LInv /\ [Next]_vars => LInv' BY LInvNext
<1>3. QED BY <1>1, <1>2, LInvInit, PTL DEF Spec, BracesAlign

-----------------------------------------------------------------------------
(* The depth of the calls that moved the offset. *)
Depth(s, k) == Cardinality({j \in 1..k : s[j].counted})

(* One call more is one level more, if it counts. *)
LEMMA DepthNext ==
  ASSUME NEW s, NEW k \in Nat
  PROVE  /\ Depth(s, k) \in Nat
         /\ Depth(s, k + 1) = IF s[k + 1].counted THEN Depth(s, k) + 1 ELSE Depth(s, k)
<1> DEFINE A == {j \in 1..k : s[j].counted}
           B == {j \in 1..(k + 1) : s[j].counted}
<1>1. IsFiniteSet(A) /\ Cardinality(A) \in Nat
  <2>1. IsFiniteSet(1..k) BY FS_Interval
  <2>2. A \subseteq 1..k OBVIOUS
  <2>3. QED BY <2>1, <2>2, FS_Subset, FS_CardinalityType
<1>2. CASE s[k + 1].counted
  <2>1. B = A \union {k + 1} /\ k + 1 \notin A BY <1>2
  <2>2. Cardinality(A \union {k + 1}) = Cardinality(A) + 1 BY <1>1, <2>1, FS_AddElement
  <2>3. QED BY <1>1, <1>2, <2>1, <2>2 DEF Depth
<1>3. CASE ~s[k + 1].counted
  <2>1. B = A BY <1>3
  <2>2. QED BY <1>1, <1>3, <2>1 DEF Depth
<1>4. QED BY <1>2, <1>3

(* The depth is the number of the calls that count, and of no others. *)
LEMMA DepthSame ==
  ASSUME NEW s, NEW t, NEW n \in Nat, NEW k \in 0..n,
         \A j \in 1..k : t[j].counted <=> s[j].counted,
         \A j \in (k + 1)..n : ~s[j].counted
  PROVE  Depth(t, k) = Depth(s, n)
<1>1. {j \in 1..k : t[j].counted} = {j \in 1..n : s[j].counted} OBVIOUS
<1>2. QED BY <1>1 DEF Depth

LEMMA DepthZero == ASSUME NEW s PROVE Depth(s, 0) = 0
<1>1. {j \in 1..0 : s[j].counted} = {} OBVIOUS
<1>2. QED BY <1>1, FS_EmptySet, Zenon DEF Depth

(* One level is one increment. *)
LEMMA Level ==
  ASSUME NEW d \in Nat PROVE Inc * d \in Int /\ Inc * (d + 1) = Inc * d + Inc /\ Inc * 0 = 0
BY LogAssumption

(* While nothing has leaked the offset is that of the innermost call that    *)
(* counts, and each of them has the level of its depth.                      *)
Levels ==
  ~leaked =>
    /\ offset = Inc * Depth(frames, Len(frames))
    /\ \A i \in 1..Len(frames) : frames[i].counted => frames[i].lv = Inc * Depth(frames, i)

(* Steps that leave calls and offset where they are. *)
LEMMA LevelsKept == ASSUME Levels, UNCHANGED <<frames, offset, leaked>> PROVE Levels'
BY DEF Levels

(* Steps that end calls and take the offset to the level of those left.      *)
LEMMA LevelsCut ==
  ASSUME TypeOK, Levels, NEW k \in 0..Len(frames), frames' = SubSeq(frames, 1, k),
         ~leaked' => ~leaked, ~leaked' => offset' = Inc * Depth(frames, k)
  PROVE  Levels'
<1>1. Len(frames') = k /\ \A i \in 1..k : frames'[i] = frames[i] BY Prefix
<1>2. k \in Nat /\ \A i \in 1..k : i \in 1..Len(frames) /\ i \in Nat BY DEF TypeOK
<1>3. ASSUME NEW i \in 0..k PROVE Depth(frames', i) = Depth(frames, i)
  <2>1. i \in Nat /\ i \in 0..i BY <1>2
  <2>2. \A j \in 1..i : frames'[j].counted <=> frames[j].counted BY <1>1, <1>2, <1>3
  <2>3. \A j \in (i + 1)..i : ~frames[j].counted BY <2>1
  <2>4. QED BY <2>1, <2>2, <2>3, DepthSame
<1>4. k \in 0..k /\ \A i \in 1..k : i \in 0..k BY <1>2
<1>5. QED BY <1>1, <1>2, <1>3, <1>4 DEF Levels

LEMMA EnterLevels ==
  ASSUME ~OpenMayFail, LInv, Levels, NEW mod \in Modules, NEW ok \in Tries, Enter(mod, ok)
  PROVE  Levels'
<1> DEFINE n == Len(frames)
           f == [mod |-> mod, lv |-> IF Opened(ok) THEN offset' ELSE -1,
                 col |-> offset, counted |-> Opened(ok) /\ Counts(mod)]
<1>1. frames' = Append(frames, f) /\ leaked' = leaked /\ Record("ENTER", FALSE, 0, mod, Opened(ok))
  BY DEF Enter
<1>2. n \in Nat /\ Len(frames') = n + 1 /\ frames'[n + 1] = f
      /\ \A i \in 1..n : frames'[i] = frames[i]
  BY <1>1 DEF LInv, TypeOK
<1>3. ASSUME NEW i \in 0..n PROVE Depth(frames', i) = Depth(frames, i)
  <2>1. i \in Nat /\ i \in 0..i BY <1>2
  <2>2. \A j \in 1..i : frames'[j].counted <=> frames[j].counted BY <1>2, <1>3
  <2>3. \A j \in (i + 1)..i : ~frames[j].counted BY <2>1
  <2>4. QED BY <2>1, <2>2, <2>3, DepthSame
<1>4. SUFFICES ASSUME ~leaked' PROVE Levels' BY DEF Levels
<1>5. /\ offset = Inc * Depth(frames, n) /\ offset \in Int
      /\ \A i \in 1..n : frames[i].counted => frames[i].lv = Inc * Depth(frames, i)
  BY <1>1, <1>4 DEF Levels, LInv, TypeOK
<1>6. n \in 0..n /\ \A i \in 1..n : i \in 0..n BY <1>2
<1>7. \A i \in 1..n : frames'[i].counted => frames'[i].lv = Inc * Depth(frames', i)
  BY <1>2, <1>3, <1>5, <1>6
<1>8. Depth(frames', n) = Depth(frames, n) /\ Depth(frames, n) \in Nat
      /\ Depth(frames', n + 1) = IF f.counted THEN Depth(frames, n) + 1 ELSE Depth(frames, n)
  BY <1>2, <1>3, <1>6, DepthNext
<1>9. offset' = (IF f.counted THEN offset + Inc ELSE offset) /\ (f.counted => f.lv = offset')
  <2>1. Moved("ENTER", FALSE, 0) = offset + Inc BY DEF Moved
  <2>2. offset' = IF Opened(ok) /\ Counts(mod) THEN offset + Inc ELSE offset
    BY <1>1, <2>1, Zenon DEF Record
  <2>3. QED BY <2>2
<1>10. offset' = Inc * Depth(frames', n + 1)
  <2>1. CASE f.counted
    <3>1. Inc * (Depth(frames, n) + 1) = Inc * Depth(frames, n) + Inc BY <1>8, Level
    <3>2. QED BY <1>5, <1>8, <1>9, <2>1, <3>1
  <2>2. CASE ~f.counted BY <1>5, <1>8, <1>9, <2>2
  <2>3. QED BY <2>1, <2>2
<1>11. \A i \in 1..(n + 1) : i \in 1..n \/ i = n + 1 BY <1>2
<1>12. QED BY <1>2, <1>7, <1>9, <1>10, <1>11 DEF Levels

LEMMA MsgLevels ==
  ASSUME ~OpenMayFail, LInv, Levels, NEW ok \in Tries, Msg(ok) PROVE Levels'
<1>1. frames' = frames /\ frames # <<>> /\ leaked' = leaked
      /\ Record("MSG", FALSE, Top.lv, Top.mod, Opened(ok))
  BY DEF Msg
<1>2. Len(frames) \in 1..Len(frames) BY <1>1 DEF LInv, TypeOK
<1>3. SUFFICES ASSUME ~leaked PROVE offset' = offset BY <1>1 DEF Levels
<1>4. CASE Opened(ok) /\ Counts(Top.mod)
  <2>1. Top.counted BY <1>2, <1>4, Opens DEF LInv, Steady, CanWrite, Counts, Top
  <2>2. Top.lv = offset BY <1>2, <1>3, <2>1 DEF Levels, Top
  <2>3. Moved("MSG", FALSE, Top.lv) = Top.lv BY DEF Moved, Column
  <2>4. offset' = Top.lv BY <1>1, <1>4, <2>3, Zenon DEF Record
  <2>5. QED BY <2>2, <2>4
<1>5. CASE ~(Opened(ok) /\ Counts(Top.mod)) BY <1>1, <1>5 DEF Record
<1>6. QED BY <1>4, <1>5

(* The LEAVE or ERR of the innermost call: one level less if it counts.      *)
LEMMA LeaveOffset ==
  ASSUME ~OpenMayFail, LInv, Levels, ~leaked, frames # <<>>,
         NEW ok \in Tries, NEW act \in {"LEAVE", "ERR"},
         Record(act, FALSE, Top.lv, Top.mod, Opened(ok))
  PROVE  offset' = Inc * Depth(frames, Len(frames) - 1)
<1> DEFINE k == Len(frames) - 1
<1>1. k \in Nat /\ Len(frames) = k + 1 /\ Len(frames) \in 1..Len(frames) BY DEF LInv, TypeOK
<1>2. /\ offset = Inc * Depth(frames, k + 1)
      /\ Top.counted => Top.lv = Inc * Depth(frames, k + 1)
  BY <1>1 DEF Levels, Top
<1>3. /\ Depth(frames, k) \in Nat
      /\ Depth(frames, k + 1) = IF Top.counted THEN Depth(frames, k) + 1 ELSE Depth(frames, k)
  BY <1>1, DepthNext DEF Top
<1>4. Top.counted <=> Opened(ok) /\ Counts(Top.mod)
  BY <1>1, Opens DEF LInv, Steady, CanWrite, Counts, Top
<1>5. CASE Opened(ok) /\ Counts(Top.mod)
  <2>1. Moved(act, FALSE, Top.lv) = Top.lv - Inc BY DEF Moved, Column
  <2>2. offset' = Top.lv - Inc BY <1>5, <2>1, Zenon DEF Record
  <2>3. Inc * Depth(frames, k) \in Int
        /\ Inc * (Depth(frames, k) + 1) = Inc * Depth(frames, k) + Inc
    BY <1>3, Level
  <2>4. QED BY <1>2, <1>3, <1>4, <1>5, <2>2, <2>3, LogAssumption
<1>6. CASE ~(Opened(ok) /\ Counts(Top.mod))
  <2>1. offset' = offset BY <1>6 DEF Record
  <2>2. QED BY <1>2, <1>3, <1>4, <1>6, <2>1
<1>7. QED BY <1>5, <1>6

LEMMA LeaveLevels ==
  ASSUME ~OpenMayFail, LInv, Levels, NEW ok \in Tries, NEW act \in Acts, Leave(act, ok)
  PROVE  Levels'
<1>1. /\ frames' = SubSeq(frames, 1, Len(frames) - 1) /\ leaked' = leaked
      /\ act \in {"LEAVE", "ERR"} /\ frames # <<>>
      /\ Record(act, FALSE, Top.lv, Top.mod, Opened(ok))
  BY DEF Leave
<1>2. Len(frames) - 1 \in 0..Len(frames) BY <1>1 DEF LInv, TypeOK
<1>3. ~leaked => offset' = Inc * Depth(frames, Len(frames) - 1) BY <1>1, LeaveOffset
<1>4. QED BY <1>1, <1>2, <1>3, LevelsCut DEF LInv

LEMMA LogCloseLevels ==
  ASSUME ~OpenMayFail, LInv, Levels, NEW ok \in Tries, LogClose(ok) PROVE Levels'
<1>1. frames' = <<>> /\ Len(frames) = 1 /\ leaked' = leaked
      /\ Record("LEAVE", FALSE, Top.lv, Top.mod, Opened(ok))
  BY DEF LogClose
<1>2. frames # <<>> BY <1>1
<1>3. ~leaked => offset' = Inc * Depth(frames, 0)
  <2>1. ~leaked => offset' = Inc * Depth(frames, Len(frames) - 1) BY <1>1, <1>2, LeaveOffset
  <2>2. Len(frames) - 1 = 0 BY <1>1
  <2>3. QED BY <2>1, <2>2
<1>4. Depth(frames, 0) = 0 /\ Depth(frames', 0) = 0 BY DepthZero
<1>5. Len(frames') = 0 BY <1>1
<1>6. QED BY <1>1, <1>3, <1>4, <1>5 DEF Levels

LEMMA UnwindLevels ==
  ASSUME LInv, Levels, NEW k \in 0..(MaxDepth - 1), Unwind(k) PROVE Levels'
<1> DEFINE n == Len(frames)
<1>1. /\ k < n /\ frames' = SubSeq(frames, 1, k) /\ offset' = offset
      /\ leaked' = (leaked \/ \E j \in (k + 1)..n : frames[j].counted)
  BY DEF Unwind
<1>2. n \in Nat /\ k \in 0..n BY <1>1 DEF LInv, TypeOK
<1>3. ~leaked' => ~leaked /\ \A j \in (k + 1)..n : ~frames[j].counted BY <1>1
<1>4. ASSUME ~leaked' PROVE offset' = Inc * Depth(frames, k)
  <2>1. Depth(frames, k) = Depth(frames, n) BY <1>2, <1>3, <1>4, DepthSame
  <2>2. QED BY <1>1, <1>3, <1>4, <2>1 DEF Levels
<1>5. QED BY <1>1, <1>2, <1>3, <1>4, LevelsCut DEF LInv

LEMMA LevelsNext ==
  ASSUME ~OpenMayFail, LInv, Levels, [Next]_vars PROVE Levels'
<1>1. ASSUME NEW act \in Acts, NEW mod \in Modules, NEW ok \in Tries, Simple(act, mod, ok)
      PROVE  Levels'
  <2>1. Moved(act, TRUE, 0) = offset BY DEF Moved
  <2>2. Record(act, TRUE, 0, mod, Opened(ok)) BY <1>1 DEF Simple
  <2>3. offset' = offset BY <2>1, <2>2, Zenon DEF Record
  <2>4. QED BY <1>1, <2>3, LevelsKept DEF Simple
<1>2. CASE \E ok \in Tries : LogInit(ok) BY <1>2, LevelsKept DEF LogInit
<1>3. CASE Tabled
  <2>1. Configured
    BY <1>3 DEF Tabled, ModInit, ModInitKept, ModInitFails, ModClear, ModLoad, ModLoadKept, ModLoadFails
  <2>2. QED BY <2>1, LevelsKept DEF Configured
<1>4. CASE \E ok \in Tries : Crash(ok) BY <1>4, LevelsKept DEF Crash
<1>5. CASE \E mode \in BOOLEAN : Switch(mode) BY <1>5, LevelsKept DEF Switch
<1>6. CASE UNCHANGED vars BY <1>6, LevelsKept DEF vars
<1>7. QED
  BY <1>1, <1>2, <1>3, <1>4, <1>5, <1>6, EnterLevels, MsgLevels, LeaveLevels, LogCloseLevels,
     UnwindLevels DEF Next, Tabled

(* As long as no call that moved the offset was left without a record, the   *)
(* offset is one increment per live call that logs, at every depth and       *)
(* whatever the switch, the tables and the file did in between.              *)
THEOREM OffsetIsDepth == ~OpenMayFail => (Spec => []Balanced)
<1> SUFFICES ASSUME ~OpenMayFail PROVE Spec => []Balanced OBVIOUS
<1>1. Init => Levels
  <2> SUFFICES ASSUME Init PROVE Levels OBVIOUS
  <2>1. Len(frames) = 0 /\ offset = 0 BY DEF Init
  <2>2. Inc * Depth(frames, 0) = 0 BY DepthZero, Level
  <2>3. QED BY <2>1, <2>2 DEF Levels
<1>2. Levels => Balanced BY DEF Levels, Balanced, Depth
<1>3. LInv /\ [Next]_vars => LInv' BY LInvNext
<1>4. LInv /\ Levels /\ [Next]_vars => Levels' BY LevelsNext
<1>5. QED BY <1>1, <1>2, <1>3, <1>4, LInvInit, PTL DEF Spec
==============================================================================
