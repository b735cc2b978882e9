--------------------------- MODULE Compare_proofs ---------------------------
(***************************************************************************)
(* The compared file and the answers, for all texts, buffer sizes and any  *)
(* number of comparisons.  The file is at its end at every step, because   *)
(* what is compared is always the piece that ends there; so the piece in   *)
(* the buffer is what the test has just written, and the two loops of      *)
(* test.c keep, between their counters, the part of the answer they have   *)
(* found so far: characters paired by their places among those that are no *)
(* blanks, and no match of the pattern before the place where one began.   *)
(***************************************************************************)
EXTENDS Compare, FiniteSetTheorems, SequenceTheorems, TLAPS

Char == DOMAIN Upper

(* Where the file is, and the piece test_compare_engine was asked for. *)
AtEnd ==
  /\ file \in Seq(Char) /\ fpos = Len(file)
  /\ from \in Nat /\ to \in Nat
  /\ cpc = "engine" => WholeFile \/ to = Len(file)

(* Writing at the end of a file appends. *)
LEMMA WritesAtEnd ==
  ASSUME NEW f \in Seq(Char), NEW t \in Seq(Char)
  PROVE  LET g == SubSeq(f, 1, Len(f)) \o t \o SubSeq(f, Len(f) + Len(t) + 1, Len(f))
         IN  /\ g \in Seq(Char) /\ Len(g) = Len(f) + Len(t)
             /\ SubSeq(g, Len(f) + 1, Len(f) + Len(t)) = t
<1> DEFINE head == SubSeq(f, 1, Len(f))
           rest == SubSeq(f, Len(f) + Len(t) + 1, Len(f))
           g == head \o t \o rest
<1>1. Len(f) \in Nat /\ Len(t) \in Nat OBVIOUS
<1>2. head \in Seq(Char) /\ Len(head) = Len(f) BY <1>1
<1>3. rest \in Seq(Char) /\ Len(rest) = 0 BY <1>1
<1> HIDE DEF head, rest
<1>4. /\ head \o t \in Seq(Char) /\ Len(head \o t) = Len(f) + Len(t)
      /\ \A k \in 1..Len(t) : (head \o t)[Len(f) + k] = t[k]
  BY <1>1, <1>2
<1>5. /\ g \in Seq(Char) /\ Len(g) = Len(f) + Len(t)
      /\ \A k \in 1..Len(t) : g[Len(f) + k] = t[k]
  BY <1>1, <1>3, <1>4
<1> HIDE DEF g
<1>6. SubSeq(g, Len(f) + 1, Len(f) + Len(t)) = t
  <2> DEFINE u == SubSeq(g, Len(f) + 1, Len(f) + Len(t))
  <2>1. u \in Seq(Char) /\ Len(u) = Len(t) BY <1>1, <1>5
  <2>2. \A k \in 1..Len(t) : u[k] = t[k] BY <1>1, <1>5
  <2> HIDE DEF u
  <2>3. u = t BY <2>1, <2>2, SeqEqual
  <2> QED BY <2>3 DEF u
<1>7. QED BY <1>5, <1>6 DEF g, head, rest

(* The test asks for a comparison, of what an action writes or of it all. *)
LEMMA AskStep ==
  ASSUME AtEnd, NEW k \in Kinds, NEW p \in Texts,
         Whole(k, p) \/ \E t \in Texts : Act(k, t, p)
  PROVE  AtEnd'
<1>1. CASE Whole(k, p) BY <1>1 DEF Whole, AtEnd, WholeFile
<1>2. ASSUME NEW t \in Texts, Act(k, t, p) PROVE AtEnd'
  <2>1. t \in Seq(Char) BY CompareAssumption DEF Char
  <2>2. /\ file' = SubSeq(file, 1, Len(file)) \o t \o SubSeq(file, Len(file) + Len(t) + 1, Len(file))
        /\ from' = Len(file) /\ to' = Len(file) + Len(t) /\ fpos' = to'
    BY <1>2 DEF Act, AtEnd
  <2>3. file' \in Seq(Char) /\ Len(file') = Len(file) + Len(t) BY <2>1, <2>2, WritesAtEnd DEF AtEnd
  <2>4. Len(file) \in Nat /\ Len(file) + Len(t) \in Nat BY <2>1 DEF AtEnd
  <2>5. from' \in Nat /\ to' \in Nat /\ fpos' = Len(file') /\ to' = Len(file')
    BY <2>2, <2>3, <2>4, Zenon
  <2>6. QED BY <2>3, <2>5, Zenon DEF AtEnd
<1>3. QED BY <1>1, <1>2

(* The engine reads the piece, or the beginning of a file that is empty. *)
LEMMA ReadStep == ASSUME AtEnd, Read PROVE AtEnd'
<1>1. Len(file) \in Nat BY DEF AtEnd
<1>2. cpc = "engine" /\ ~TooMuch /\ fpos' = to /\ UNCHANGED <<file, from, to>>
  BY DEF Read, ReadTo, Asks, asked
<1>3. CASE WholeFile
  <2>1. ~(Len(file) > to) /\ to = 0 BY <1>2, <1>3 DEF TooMuch, First, WholeFile
  <2>2. QED BY <1>1, <1>2, <1>3, <2>1 DEF AtEnd, WholeFile
<1>4. CASE to = Len(file) BY <1>2, <1>4 DEF AtEnd
<1>5. QED BY <1>2, <1>3, <1>4 DEF AtEnd

(* The comparators move in their own buffer. *)
LEMMA QuietStep ==
  ASSUME AtEnd, UNCHANGED <<file, fpos, from, to>>, cpc' # "engine" \/ UNCHANGED cpc
  PROVE  AtEnd'
BY DEF AtEnd, WholeFile

LEMMA AlwaysAtEnd == CSpec => []AtEnd
<1>1. CInit => AtEnd BY DEF CInit, AtEnd
<1>2. ASSUME AtEnd, [CNext]_cvars PROVE AtEnd'
  <2>1. ASSUME NEW k \in Kinds, NEW p \in Texts,
               Whole(k, p) \/ \E t \in Texts : Act(k, t, p)
        PROVE  AtEnd'
    BY <1>2, <2>1, AskStep
  <2>2. CASE Continue BY <1>2, <2>2 DEF Continue, AtEnd
  <2>3. CASE BadPosition BY <1>2, <2>3, QuietStep DEF BadPosition, Answer, asked
  <2>4. CASE Raise BY <1>2, <2>4 DEF Raise, Answer, asked, AtEnd, WholeFile
  <2>5. CASE Read BY <1>2, <2>5, ReadStep
  <2>6. CASE NeSkip BY <1>2, <2>6, QuietStep DEF NeSkip, asked
  <2>7. CASE NeStep BY <1>2, <2>7, QuietStep DEF NeStep, asked
  <2>8. CASE NeEnd BY <1>2, <2>8, QuietStep DEF NeEnd, Answer, asked
  <2>9. CASE ULikeStep BY <1>2, <2>9, QuietStep DEF ULikeStep, asked
  <2>10. CASE ULikeBack BY <1>2, <2>10, QuietStep DEF ULikeBack, asked
  <2>11. CASE ULikeEnd BY <1>2, <2>11, QuietStep DEF ULikeEnd, Answer, asked
  <2>12. CASE UNCHANGED cvars BY <1>2, <2>12, QuietStep DEF cvars
  <2>13. QED BY <1>2, <2>1, <2>2, <2>3, <2>4, <2>5, <2>6, <2>7, <2>8, <2>9, <2>10, <2>11,
                <2>12 DEF CNext
<1>3. QED BY <1>1, <1>2, PTL DEF CSpec

(* Whatever came of the comparisons before, the next action writes at the   *)
(* end of the file: no test overwrites what another has written.            *)
THEOREM NextAppends == CSpec => []AppendsNext
<1>1. AtEnd => AppendsNext BY DEF AtEnd, AppendsNext
<1>2. QED BY <1>1, AlwaysAtEnd, PTL

-----------------------------------------------------------------------------
(* The answers.  The piece that is compared is what the test wants compared *)
(* (of a whole file, all of it).                                            *)
Wanted ==
  \/ WholeFile /\ written = file
  \/ /\ ~WholeFile /\ to = Len(file) /\ to = from + Len(written)
     /\ SubSeq(file, from + 1, to) = written

(* What a comparison needs before the comparator is called.                 *)
Readable == (WholeFile => file = <<>>) /\ (~WholeFile => written # <<>>) /\ Len(written) <= MaxSz

LoopTypes == i \in 0..Len(buf) /\ j \in 0..Len(pt) /\ iPrev \in -1..Len(buf)

(* test_str_equal_ne: the same solid characters are behind a in the text    *)
(* and behind b in the pattern, and if both are at their ends, neither ends *)
(* in a blank.                                                              *)
NeAt(s, p, a, b) ==
  /\ Rank(a, Solid(s)) = Rank(b, Solid(p))
  /\ \A k \in Solid(s), l \in Solid(p) :
       k <= a /\ l <= b /\ Rank(k, Solid(s)) = Rank(l, Solid(p)) => s[k] = p[l]
  /\ a = Len(s) /\ b = Len(p) => Tight(s) /\ Tight(p)

(* test_str_ulike: the pattern up to b is found where the search began, and *)
(* in no earlier place is all of it.                                        *)
FoundAt(s, p, m) == m + Len(p) <= Len(s) /\ \A k \in DOMAIN p : Upper[s[m + k]] = Upper[p[k]]

ULikeAt(s, p, began, b) ==
  /\ \A k \in 1..b : Upper[s[began + k]] = Upper[p[k]]
  /\ \A m \in 0..(began - 1) : ~FoundAt(s, p, m)

(* What the code answers, also where the property does not say what is      *)
(* right: "equal_ne" says no when a text or pattern ends in a blank, and a  *)
(* whole file is compared only when empty.                                  *)
Says(k, s, p) ==
  IF k = "equal_ne" THEN SameSolid(s, p) /\ Tight(s) /\ Tight(p) ELSE Agrees(k, s, p)

Answers ==
  cpc = "answered" =>
    CASE WholeFile /\ file # <<>> -> answer = "exception"
      [] ~WholeFile /\ written = <<>> -> answer = "false"
      [] Len(written) > MaxSz -> answer = "exception"
      [] OTHER -> answer = (IF Says(kind, written, pt) THEN "true" ELSE "false")

Began == IF iPrev = -1 THEN i ELSE iPrev

AnswerInv ==
  /\ cpc \in {"test", "engine", "equal_ne", "ulike", "answered"}
  /\ cpc # "test" => pt \in Texts /\ written \in Seq(Char) /\ kind \in Kinds /\ Wanted
  /\ cpc \in {"equal_ne", "ulike"} => kind = cpc /\ buf = written /\ Readable /\ LoopTypes
  /\ cpc = "equal_ne" => NeAt(buf, pt, i, j)
  /\ cpc = "ulike" => Began + j = i /\ (iPrev = -1 => j = 0) /\ ULikeAt(buf, pt, Began, j)
  /\ Answers

-----------------------------------------------------------------------------
(* The places of numbers in a set of positions. *)
LEMMA Places ==
  ASSUME NEW T, \A b \in T : b \in Int, IsFiniteSet(T)
  PROVE  /\ \A k \in Int : Rank(k, T) \in Nat
         /\ \A k, l \in Int : k <= l => Rank(k, T) <= Rank(l, T)
         /\ \A k \in Int : \A l \in T : k < l => Rank(k, T) < Rank(l, T)
         /\ \A k \in Int : k \notin T => Rank(k, T) = Rank(k - 1, T)
         /\ \A k \in T : Rank(k, T) = Rank(k - 1, T) + 1
<1> DEFINE B(k) == {b \in T : b <= k}
<1>1. IsFiniteSet(T) OBVIOUS
<1>4. \A b \in T : b \in Int OBVIOUS
<1>2. \A k : IsFiniteSet(B(k)) /\ Cardinality(B(k)) \in Nat
  BY <1>1, FS_Subset, FS_CardinalityType
<1>3. \A k : Rank(k, T) = Cardinality(B(k)) BY DEF Rank
<1>5. ASSUME NEW k \in Int, NEW l \in Int, k <= l PROVE Rank(k, T) <= Rank(l, T)
  <2>1. B(k) \subseteq B(l) BY <1>4, <1>5
  <2>2. Cardinality(B(k)) <= Cardinality(B(l)) BY <1>2, <2>1, FS_Subset
  <2> QED BY <1>3, <2>2
<1>6. ASSUME NEW k \in Int, k \notin T PROVE Rank(k, T) = Rank(k - 1, T)
  <2>1. B(k) = B(k - 1) BY <1>4, <1>6
  <2> QED BY <1>3, <2>1
<1>7. ASSUME NEW k \in T PROVE Rank(k, T) = Rank(k - 1, T) + 1
  <2>1. B(k) = B(k - 1) \union {k} /\ k \notin B(k - 1) BY <1>4
  <2>2. Cardinality(B(k)) = Cardinality(B(k - 1)) + 1 BY <1>2, <2>1, FS_AddElement
  <2> QED BY <1>3, <2>2
<1>8. ASSUME NEW k \in Int, NEW l \in T, k < l PROVE Rank(k, T) < Rank(l, T)
  <2>1. Rank(k, T) <= Rank(l - 1, T) BY <1>4, <1>5, <1>8
  <2>2. Rank(k, T) \in Nat /\ Rank(l - 1, T) \in Nat BY <1>2, <1>3
  <2> QED BY <1>7, <2>1, <2>2
<1> QED BY <1>2, <1>3, <1>5, <1>6, <1>7, <1>8

LEMMA EndPlaces ==
  ASSUME NEW n \in Nat, NEW T, T \subseteq 1..n
  PROVE  /\ IsFiniteSet(T) /\ \A b \in T : b \in Int /\ b >= 1 /\ b <= n
         /\ Rank(0, T) = 0 /\ Rank(n, T) = Cardinality(T)
<1>1. IsFiniteSet(T)
  <2>1. IsFiniteSet(1..n) BY FS_Interval
  <2> QED BY <2>1, FS_Subset
<1>2. \A b \in T : b \in Int /\ b >= 1 /\ b <= n OBVIOUS
<1>3. (\A b \in T : ~(b <= 0)) /\ \A b \in T : b <= n BY <1>2
<1>4. {b \in T : b <= 0} = {} /\ {b \in T : b <= n} = T BY <1>3, Zenon
<1> QED BY <1>1, <1>2, <1>4, FS_EmptySet DEF Rank

(* A text at a place of another. *)
LEMMA TextAt ==
  ASSUME NEW T, NEW s \in Seq(T), NEW p \in Seq(T), NEW m \in Nat, m + Len(p) <= Len(s)
  PROVE  SubSeq(s, m + 1, m + Len(p)) = p <=> \A k \in DOMAIN p : s[m + k] = p[k]
<1> DEFINE v == SubSeq(s, m + 1, m + Len(p))
<1>1. Len(s) \in Nat /\ Len(p) \in Nat /\ DOMAIN p = 1..Len(p) OBVIOUS
<1>2. v \in Seq(T) /\ Len(v) = Len(p) /\ \A k \in 1..Len(p) : v[k] = s[m + k] BY <1>1
<1> HIDE DEF v
<1>3. (\A k \in 1..Len(p) : v[k] = p[k]) => v = p BY <1>2, SeqEqual
<1>4. v = p <=> \A k \in DOMAIN p : s[m + k] = p[k] BY <1>1, <1>2, <1>3
<1> QED BY <1>4 DEF v

(* A prefix of what is behind a place. *)
LEMMA PrefixAt ==
  ASSUME NEW T, NEW s \in Seq(T), NEW p \in Seq(T), NEW m \in 0..Len(s)
  PROVE  IsPrefix(p, SubSeq(s, m + 1, Len(s)))
           <=> m + Len(p) <= Len(s) /\ \A k \in DOMAIN p : s[m + k] = p[k]
<1> DEFINE u == SubSeq(s, m + 1, Len(s))
           At == \A k \in DOMAIN p : s[m + k] = p[k]
<1>1. Len(s) \in Nat /\ Len(p) \in Nat /\ DOMAIN p = 1..Len(p) OBVIOUS
<1>2. u \in Seq(T) /\ Len(u) = Len(s) - m /\ \A k \in 1..Len(u) : u[k] = s[m + k] BY <1>1
<1> HIDE DEF u
<1>3. SubSeq(p, 1, Len(p)) = p BY <1>1
<1>4. IsPrefix(p, u) <=> Len(p) <= Len(u) /\ SubSeq(u, 1, Len(p)) = p BY <1>3 DEF IsPrefix
<1>5. CASE Len(p) <= Len(u)
  <2>1. SubSeq(u, 1, Len(p)) = p <=> \A k \in DOMAIN p : u[0 + k] = p[k]
    <3>1. SubSeq(u, 0 + 1, 0 + Len(p)) = p <=> \A k \in DOMAIN p : u[0 + k] = p[k]
      BY <1>1, <1>2, <1>5, TextAt
    <3> QED BY <1>1, <3>1
  <2>2. ASSUME NEW k \in DOMAIN p PROVE u[0 + k] = s[m + k]
    <3>1. k \in 1..Len(u) /\ 0 + k = k BY <1>1, <1>2, <1>5
    <3> QED BY <1>2, <3>1
  <2>3. SubSeq(u, 1, Len(p)) = p <=> At BY <2>1, <2>2, Zenon
  <2>4. m + Len(p) <= Len(s) BY <1>1, <1>2, <1>5
  <2> QED BY <1>4, <1>5, <2>3, <2>4 DEF u
<1>6. CASE ~(Len(p) <= Len(u))
  <2>1. ~(m + Len(p) <= Len(s)) BY <1>1, <1>2, <1>6
  <2> QED BY <1>4, <1>6, <2>1 DEF u
<1> QED BY <1>5, <1>6

(* The comparators of the library do what Says states. *)
LEMMA LibraryAgrees ==
  ASSUME NEW s \in Seq(Char), NEW p \in Seq(Char)
  PROVE  /\ strncmp(s, p) <=> Says("equal", s, p)
         /\ strstr(s, p) <=> Says("like", s, p)
<1>1. Len(s) \in Nat /\ Len(p) \in Nat /\ DOMAIN p = 1..Len(p) /\ DOMAIN s = 1..Len(s) OBVIOUS
<1>2. strncmp(s, p) <=> Says("equal", s, p)
  <2>1. IsPrefix(s, SubSeq(p, 0 + 1, Len(p))) <=> 0 + Len(s) <= Len(p) /\ \A k \in DOMAIN s : p[0 + k] = s[k]
    <3>1. \A a, b \in Seq(Char) : \A m \in 0..Len(a) :
            IsPrefix(b, SubSeq(a, m + 1, Len(a))) <=> m + Len(b) <= Len(a) /\ \A k \in DOMAIN b : a[m + k] = b[k]
      BY PrefixAt
    <3>2. 0 \in 0..Len(p) BY <1>1
    <3> QED BY <3>1, <3>2, Zenon
  <2>2. SubSeq(p, 0 + 1, Len(p)) = p /\ 0 + Len(s) = Len(s) /\ \A k \in DOMAIN s : 0 + k = k
    BY <1>1
  <2>3. IsPrefix(s, p) <=> Len(s) <= Len(p) /\ \A k \in DOMAIN s : p[k] = s[k] BY <2>1, <2>2, Zenon
  <2>4. Says("equal", s, p) <=> Len(s) <= Len(p) /\ \A k \in DOMAIN s : s[k] = p[k] BY DEF Says, Agrees
  <2> QED BY <2>3, <2>4 DEF strncmp
<1>3. strstr(s, p) <=> Says("like", s, p)
  <2> DEFINE At(m) == \A k \in DOMAIN p : s[m + k] = p[k]
  <2>1. \A m \in 0..Len(s) : IsPrefix(p, SubSeq(s, m + 1, Len(s))) <=> m + Len(p) <= Len(s) /\ At(m)
    BY PrefixAt
  <2>2. \A m \in 0..(Len(s) - Len(p)) : SubSeq(s, m + 1, m + Len(p)) = p <=> At(m)
    <3>1. \A m \in 0..(Len(s) - Len(p)) : m \in Nat /\ m + Len(p) <= Len(s) BY <1>1
    <3>2. \A m \in Nat : m + Len(p) <= Len(s)
             => (SubSeq(s, m + 1, m + Len(p)) = p <=> \A k \in DOMAIN p : s[m + k] = p[k])
      BY TextAt
    <3> QED BY <3>1, <3>2, Zenon
  <2>3. \A m \in 0..Len(s) : m + Len(p) <= Len(s) <=> m \in 0..(Len(s) - Len(p)) BY <1>1
  <2>4. \A m \in 0..(Len(s) - Len(p)) : m \in 0..Len(s) BY <1>1
  <2> HIDE DEF At
  <2>5. (\E m \in 0..(Len(s) - Len(p)) : SubSeq(s, m + 1, m + Len(p)) = p)
          <=> \E m \in 0..Len(s) : IsPrefix(p, SubSeq(s, m + 1, Len(s)))
    BY <2>1, <2>2, <2>3, <2>4, Zenon
  <2>6. Says("like", s, p) <=> \E m \in 0..Len(s) : IsPrefix(p, SubSeq(s, m + 1, Len(s)))
    BY DEF Says, Agrees
  <2> QED BY <2>5, <2>6 DEF strstr
<1> QED BY <1>2, <1>3

(* Where the raised pattern is found in the raised text. *)
LEMMA ULikeAgrees ==
  ASSUME NEW s \in Seq(Char), NEW p \in Seq(Char)
  PROVE  Says("ulike", s, p) <=> \E m \in 0..Len(s) : FoundAt(s, p, m)
<1> DEFINE T == {Upper[c] : c \in Char}
           rs == Raised(s)
           rp == Raised(p)
<1>1. Len(s) \in Nat /\ Len(p) \in Nat /\ DOMAIN p = 1..Len(p) /\ DOMAIN s = 1..Len(s) OBVIOUS
<1>2. /\ rs \in Seq(T) /\ Len(rs) = Len(s) /\ rp \in Seq(T) /\ Len(rp) = Len(p)
      /\ DOMAIN rs = DOMAIN s /\ DOMAIN rp = DOMAIN p
      /\ \A k \in DOMAIN s : rs[k] = Upper[s[k]]
      /\ \A k \in DOMAIN p : rp[k] = Upper[p[k]]
  <2>1. \A q \in Seq(Char) : /\ Raised(q) \in Seq(T) /\ Len(Raised(q)) = Len(q)
                             /\ DOMAIN Raised(q) = DOMAIN q
                             /\ \A k \in DOMAIN q : Raised(q)[k] = Upper[q[k]]
    <3> TAKE q \in Seq(Char)
    <3>1. Len(q) \in Nat /\ DOMAIN q = 1..Len(q) /\ \A k \in 1..Len(q) : q[k] \in Char OBVIOUS
    <3>2. \A k \in 1..Len(q) : Upper[q[k]] \in T BY <3>1
    <3> HIDE DEF T
    <3>3. Raised(q) = [k \in 1..Len(q) |-> Upper[q[k]]] BY <3>1 DEF Raised
    <3>4. Raised(q) \in Seq(T) /\ Len(Raised(q)) = Len(q) BY <3>1, <3>2, <3>3
    <3> QED BY <3>1, <3>3, <3>4
  <2> QED BY <2>1
<1> HIDE DEF T, rs, rp
<1>3. \A m \in 0..Len(s) : IsPrefix(rp, SubSeq(rs, m + 1, Len(s)))
                              <=> m + Len(p) <= Len(s) /\ \A k \in DOMAIN p : rs[m + k] = rp[k]
  <2>1. \A m \in 0..Len(rs) : IsPrefix(rp, SubSeq(rs, m + 1, Len(rs)))
                              <=> m + Len(rp) <= Len(rs) /\ \A k \in DOMAIN rp : rs[m + k] = rp[k]
    <3>1. rs \in Seq(T) /\ rp \in Seq(T) BY <1>2
    <3> QED BY <3>1, PrefixAt
  <2> QED BY <1>2, <2>1
<1>4. ASSUME NEW m \in 0..Len(s), m + Len(p) <= Len(s), NEW k \in DOMAIN p
      PROVE  rs[m + k] = rp[k] <=> Upper[s[m + k]] = Upper[p[k]]
  <2>1. m + k \in DOMAIN s BY <1>1, <1>4
  <2> QED BY <1>2, <2>1
<1>5. \A m \in 0..Len(s) : IsPrefix(rp, SubSeq(rs, m + 1, Len(s))) <=> FoundAt(s, p, m)
  BY <1>3, <1>4, Zenon DEF FoundAt
<1>6. Says("ulike", s, p) <=> \E m \in 0..Len(s) : IsPrefix(rp, SubSeq(rs, m + 1, Len(rs)))
  <2>1. Says("ulike", s, p)
          <=> \E m \in 0..Len(s) : IsPrefix(Raised(p), SubSeq(Raised(s), m + 1, Len(s)))
    BY DEF Says, Agrees
  <2> QED BY <1>2, <2>1 DEF rs, rp
<1>7. Says("ulike", s, p) <=> \E m \in 0..Len(s) : IsPrefix(rp, SubSeq(rs, m + 1, Len(s)))
  BY <1>2, <1>6
<1> QED BY <1>5, <1>7, Zenon

-----------------------------------------------------------------------------
(* The loop of test_str_equal_ne, at a in the text s and b in the pattern. *)
LEMMA SolidPlaces ==
  ASSUME NEW s \in Seq(Char)
  PROVE  /\ IsFiniteSet(Solid(s)) /\ Solid(s) \subseteq 1..Len(s)
         /\ \A k \in Solid(s) : k \in Int /\ k >= 1 /\ k <= Len(s)
         /\ Rank(0, Solid(s)) = 0 /\ Rank(Len(s), Solid(s)) = Cardinality(Solid(s))
<1>1. Len(s) \in Nat /\ Solid(s) \subseteq 1..Len(s) BY DEF Solid
<1> QED BY <1>1, EndPlaces

LEMMA NeStart ==
  ASSUME NEW s \in Seq(Char), NEW p \in Seq(Char)
  PROVE  NeAt(s, p, 0, 0)
<1>1. \A k \in Solid(s) : ~(k <= 0) BY SolidPlaces
<1>2. Rank(0, Solid(s)) = Rank(0, Solid(p)) BY SolidPlaces, Zenon
<1>3. ASSUME 0 = Len(s), 0 = Len(p) PROVE Tight(s) /\ Tight(p)
  <2>1. s = <<>> /\ p = <<>> BY <1>3
  <2> QED BY <2>1 DEF Tight
<1> QED BY <1>1, <1>2, <1>3, Zenon DEF NeAt

(* A blank of the text, or of the pattern, is stepped over. *)
LEMMA NeBlankText ==
  ASSUME NEW s \in Seq(Char), NEW p \in Seq(Char), NEW a \in Nat, NEW b \in Nat,
         NeAt(s, p, a, b), b < Len(p), a + 1 \notin Solid(s)
  PROVE  NeAt(s, p, a + 1, b)
<1>1. Rank(a + 1, Solid(s)) = Rank(a, Solid(s))
  <2>1. \A k \in Int : k \notin Solid(s) => Rank(k, Solid(s)) = Rank(k - 1, Solid(s))
    BY SolidPlaces, Places
  <2> QED BY <2>1
<1>2. \A k \in Solid(s) : k <= a + 1 => k <= a BY SolidPlaces
<1>3. b # Len(p) OBVIOUS
<1> QED BY <1>1, <1>2, <1>3, Zenon DEF NeAt

LEMMA NeBlankPattern ==
  ASSUME NEW s \in Seq(Char), NEW p \in Seq(Char), NEW a \in Nat, NEW b \in Nat,
         NeAt(s, p, a, b), a < Len(s), b + 1 \notin Solid(p)
  PROVE  NeAt(s, p, a, b + 1)
<1>1. Rank(b + 1, Solid(p)) = Rank(b, Solid(p))
  <2>1. \A k \in Int : k \notin Solid(p) => Rank(k, Solid(p)) = Rank(k - 1, Solid(p))
    BY SolidPlaces, Places
  <2> QED BY <2>1
<1>2. \A l \in Solid(p) : l <= b + 1 => l <= b BY SolidPlaces
<1>3. a # Len(s) OBVIOUS
<1> QED BY <1>1, <1>2, <1>3, Zenon DEF NeAt

(* The same character, not a blank, comes next in both. *)
LEMMA NeSame ==
  ASSUME NEW s \in Seq(Char), NEW p \in Seq(Char), NEW a \in Nat, NEW b \in Nat,
         NeAt(s, p, a, b), a + 1 \in Solid(s), b + 1 \in Solid(p), s[a + 1] = p[b + 1]
  PROVE  NeAt(s, p, a + 1, b + 1)
<1> DEFINE A == Solid(s)
           B == Solid(p)
<1>1. Rank(a, A) = Rank(b, B) /\ Rank(a, A) \in Nat /\ Rank(b, B) \in Nat
  BY SolidPlaces, Places DEF NeAt
<1>2. Rank(a + 1, A) = Rank(a, A) + 1 /\ Rank(b + 1, B) = Rank(b, B) + 1
  <2>1. Rank(a + 1, A) = Rank((a + 1) - 1, A) + 1 BY SolidPlaces, Places
  <2>2. Rank(b + 1, B) = Rank((b + 1) - 1, B) + 1 BY SolidPlaces, Places
  <2> QED BY <2>1, <2>2
<1>3. ASSUME NEW k \in A, NEW l \in B, k <= a + 1, l <= b + 1, Rank(k, A) = Rank(l, B)
      PROVE  s[k] = p[l]
  <2>1. k \in Int /\ l \in Int BY SolidPlaces
  <2>2. CASE k = a + 1 /\ l = b + 1 BY <2>2
  <2>3. CASE k <= a /\ l <= b BY <1>3, <2>3 DEF NeAt
  <2>4. CASE k = a + 1 /\ l <= b
    <3>1. \A k1, l1 \in Int : k1 <= l1 => Rank(k1, B) <= Rank(l1, B) BY SolidPlaces, Places
    <3>3. Rank(l, B) <= Rank(b, B) /\ Rank(l, B) \in Nat
      BY <1>1, <1>3, <2>1, <2>4, <3>1, SolidPlaces, Places
    <3>2. Rank(k, A) = Rank(a, A) + 1 BY <1>2, <2>4
    <3> QED BY <1>1, <1>3, <3>2, <3>3
  <2>5. CASE k <= a /\ l = b + 1
    <3>1. Rank(k, A) <= Rank(a, A) /\ Rank(k, A) \in Nat BY <2>1, <2>5, SolidPlaces, Places
    <3>2. Rank(l, B) = Rank(b, B) + 1 BY <1>2, <2>5
    <3> QED BY <1>1, <1>3, <3>1, <3>2
  <2> QED BY <1>3, <2>1, <2>2, <2>3, <2>4, <2>5
<1>4. ASSUME a + 1 = Len(s), b + 1 = Len(p) PROVE Tight(s) /\ Tight(p)
  BY <1>4 DEF Tight, Last, Solid
<1>5. Rank(a + 1, A) = Rank(b + 1, B) BY <1>1, <1>2
<1> QED BY <1>3, <1>4, <1>5, Zenon DEF NeAt

(* The loop stops in the right place: at both ends, the texts are the same  *)
(* but for blanks.                                                          *)
LEMMA NeEnds ==
  ASSUME NEW s \in Seq(Char), NEW p \in Seq(Char), NeAt(s, p, Len(s), Len(p))
  PROVE  Says("equal_ne", s, p)
<1>1. Tight(s) /\ Tight(p) BY DEF NeAt
<1>2. Cardinality(Solid(s)) = Cardinality(Solid(p)) BY SolidPlaces DEF NeAt
<1>3. \A k \in Solid(s) : k <= Len(s) BY SolidPlaces
<1>4. \A k \in Solid(p) : k <= Len(p) BY SolidPlaces
<1>5. SameSolid(s, p) BY <1>2, <1>3, <1>4, Zenon DEF NeAt, SameSolid
<1> QED BY <1>1, <1>5 DEF Says, Agrees

(* The end of one with more of the other behind it: the rest has a solid    *)
(* character at least.                                                      *)
LEMMA MoreIsSolid ==
  ASSUME NEW s \in Seq(Char), NEW a \in Nat, a < Len(s), Tight(s)
  PROVE  Rank(a, Solid(s)) \in Nat /\ Rank(a, Solid(s)) < Cardinality(Solid(s))
<1>1. Len(s) \in Solid(s) BY DEF Tight, Last, Solid
<1>2. Rank(a, Solid(s)) < Rank(Len(s), Solid(s)) BY <1>1, SolidPlaces, Places
<1> QED BY <1>2, SolidPlaces, Places

LEMMA NeDiffers ==
  ASSUME NEW s \in Seq(Char), NEW p \in Seq(Char), NEW a \in 0..Len(s), NEW b \in 0..Len(p),
         NeAt(s, p, a, b), ~(a = Len(s) /\ b = Len(p)),
         a < Len(s) /\ b < Len(p) =>
           a + 1 \in Solid(s) /\ b + 1 \in Solid(p) /\ s[a + 1] # p[b + 1]
  PROVE  ~Says("equal_ne", s, p)
<1> SUFFICES ASSUME SameSolid(s, p), Tight(s), Tight(p) PROVE FALSE BY DEF Says, Agrees
<1>1. Rank(a, Solid(s)) = Rank(b, Solid(p)) BY DEF NeAt
<1>2. Cardinality(Solid(s)) = Cardinality(Solid(p)) BY DEF SameSolid
<1>3. CASE a < Len(s) /\ b = Len(p)
  <2>1. Rank(a, Solid(s)) \in Nat /\ Rank(a, Solid(s)) < Cardinality(Solid(s)) BY <1>3, MoreIsSolid
  <2>2. Rank(b, Solid(p)) = Cardinality(Solid(p)) BY <1>3, SolidPlaces
  <2> QED BY <1>1, <1>2, <2>1, <2>2
<1>4. CASE a = Len(s) /\ b < Len(p)
  <2>1. Rank(b, Solid(p)) \in Nat /\ Rank(b, Solid(p)) < Cardinality(Solid(p)) BY <1>4, MoreIsSolid
  <2>2. Rank(a, Solid(s)) = Cardinality(Solid(s)) BY <1>4, SolidPlaces
  <2> QED BY <1>1, <1>2, <2>1, <2>2
<1>5. CASE a < Len(s) /\ b < Len(p)
  <2>1. Rank(a + 1, Solid(s)) = Rank((a + 1) - 1, Solid(s)) + 1 BY <1>5, SolidPlaces, Places
  <2>2. Rank(b + 1, Solid(p)) = Rank((b + 1) - 1, Solid(p)) + 1 BY <1>5, SolidPlaces, Places
  <2>3. Rank(a + 1, Solid(s)) = Rank(b + 1, Solid(p)) BY <1>1, <2>1, <2>2
  <2> QED BY <1>5, <2>3, Zenon DEF SameSolid
<1> QED BY <1>3, <1>4, <1>5

-----------------------------------------------------------------------------
(* The loop of test_str_ulike: the pattern does not begin where it has just *)
(* failed, so the search may go on one place further.                       *)
LEMMA ULikeNext ==
  ASSUME NEW s \in Seq(Char), NEW p \in Seq(Char), NEW m \in Nat, NEW b \in Nat,
         ULikeAt(s, p, m, b), b < Len(p), Upper[s[m + b + 1]] # Upper[p[b + 1]]
  PROVE  ULikeAt(s, p, m + 1, 0)
<1>1. ~FoundAt(s, p, m)
  <2>1. b + 1 \in DOMAIN p /\ m + (b + 1) = m + b + 1 OBVIOUS
  <2> QED BY <2>1 DEF FoundAt
<1>2. \A k \in 0..((m + 1) - 1) : k = m \/ k \in 0..(m - 1) OBVIOUS
<1>3. \A k \in 1..0 : FALSE OBVIOUS
<1> QED BY <1>1, <1>2, <1>3, Zenon DEF ULikeAt

LEMMA ULikeMore ==
  ASSUME NEW s \in Seq(Char), NEW p \in Seq(Char), NEW m \in Nat, NEW b \in Nat,
         ULikeAt(s, p, m, b), Upper[s[m + b + 1]] = Upper[p[b + 1]]
  PROVE  ULikeAt(s, p, m, b + 1)
<1>1. \A k \in 1..(b + 1) : k \in 1..b \/ (k = b + 1 /\ m + k = m + b + 1) OBVIOUS
<1> QED BY <1>1, Zenon DEF ULikeAt

(* At the end of the pattern it is found, at the end of the text it is not. *)
LEMMA ULikeDone ==
  ASSUME NEW s \in Seq(Char), NEW p \in Seq(Char), NEW m \in Nat, NEW b \in 0..Len(p),
         ULikeAt(s, p, m, b), m + b <= Len(s), ~(m + b < Len(s) /\ b < Len(p))
  PROVE  b = Len(p) <=> Says("ulike", s, p)
<1>1. Len(s) \in Nat /\ Len(p) \in Nat /\ DOMAIN p = 1..Len(p) OBVIOUS
<1>2. ASSUME b = Len(p) PROVE Says("ulike", s, p)
  <2>1. FoundAt(s, p, m) /\ m \in 0..Len(s) BY <1>1, <1>2 DEF FoundAt, ULikeAt
  <2> QED BY <2>1, ULikeAgrees
<1>3. ASSUME b # Len(p) PROVE ~Says("ulike", s, p)
  <2>1. b \in Nat /\ b <= Len(p) BY <1>1
  <2>2. b < Len(p)
    <3>1. \A x, y \in Nat : x <= y /\ x # y => x < y OBVIOUS
    <3> QED BY <1>1, <1>3, <2>1, <3>1, Zenon
  <2>3. m + b = Len(s) BY <1>1, <2>1, <2>2
  <2>4. \A k \in 0..Len(s) : k \in 0..(m - 1) \/ ~(k + Len(p) <= Len(s)) BY <1>1, <2>1, <2>2, <2>3
  <2>5. \A k \in 0..Len(s) : ~FoundAt(s, p, k) BY <2>4, Zenon DEF FoundAt, ULikeAt
  <2> QED BY <2>5, ULikeAgrees, Zenon
<1> QED BY <1>2, <1>3

-----------------------------------------------------------------------------
(* The steps. *)
LEMMA AskAnswers ==
  ASSUME AtEnd, NEW k \in Kinds, NEW p \in Texts,
         Whole(k, p) \/ \E t \in Texts : Act(k, t, p)
  PROVE  AnswerInv'
<1>1. ASSUME cpc' = "engine", kind' = k, pt' = p, written' \in Seq(Char), Wanted' PROVE AnswerInv'
  BY <1>1 DEF AnswerInv, Answers
<1>2. CASE Whole(k, p)
  <2>1. cpc' = "engine" /\ kind' = k /\ pt' = p /\ written' \in Seq(Char)
    BY <1>2 DEF Whole, Ask, AtEnd
  <2>2. Wanted' BY <1>2 DEF Whole, Wanted, WholeFile
  <2> QED BY <1>1, <2>1, <2>2
<1>3. ASSUME NEW t \in Texts, Act(k, t, p) PROVE AnswerInv'
  <2>1. t \in Seq(Char) /\ file \in Seq(Char) BY CompareAssumption DEF Char, AtEnd
  <2>2. /\ file' = SubSeq(file, 1, Len(file)) \o t \o SubSeq(file, Len(file) + Len(t) + 1, Len(file))
        /\ from' = Len(file) /\ to' = Len(file) + Len(t) /\ written' = t
        /\ cpc' = "engine" /\ kind' = k /\ pt' = p
    BY <1>3 DEF Act, Ask, AtEnd
  <2>3. /\ file' \in Seq(Char) /\ Len(file') = Len(file) + Len(t)
        /\ SubSeq(file', Len(file) + 1, Len(file) + Len(t)) = t
    BY <2>1, <2>2, WritesAtEnd
  <2>4. Len(file) \in Nat /\ Len(t) \in Nat BY <2>1
  <2>5. CASE from' = 0 /\ to' = 0
    <3>1. Len(file') = 0 /\ Len(t) = 0 BY <2>2, <2>3, <2>4, <2>5
    <3>2. file' = <<>> /\ t = <<>> BY <2>1, <2>3, <3>1
    <3>3. Wanted' BY <2>2, <2>5, <3>2 DEF Wanted, WholeFile
    <3> QED BY <1>1, <2>1, <2>2, <3>3
  <2>6. CASE ~(from' = 0 /\ to' = 0)
    <3>1. /\ to' = Len(file') /\ to' = from' + Len(written')
          /\ SubSeq(file', from' + 1, to') = written'
      BY <2>2, <2>3, Zenon
    <3>2. Wanted' BY <2>6, <3>1 DEF Wanted, WholeFile
    <3> QED BY <1>1, <2>1, <2>2, <3>2
  <2> QED BY <2>5, <2>6
<1> QED BY <1>2, <1>3

(* An empty piece is refused, and one the buffer cannot hold raises.        *)
LEMMA RefusalAnswers ==
  ASSUME AtEnd, AnswerInv, BadPosition \/ Raise
  PROVE  AnswerInv'
<1>1. /\ cpc = "engine" /\ cpc' = "answered"
      /\ UNCHANGED <<file, from, to, kind, pt, written>>
  BY DEF BadPosition, Raise, Asks, Answer, asked
<1>2. /\ pt \in Texts /\ written \in Seq(Char) /\ kind \in Kinds /\ Wanted
  BY <1>1 DEF AnswerInv
<1>3. Len(written) \in Nat /\ Len(file) \in Nat /\ from \in Nat /\ to \in Nat /\ MaxSz \in Nat
  BY <1>2, CompareAssumption DEF AtEnd
<1>4. Wanted' BY <1>1, <1>2 DEF Wanted, WholeFile
<1>5. Answers'
  <2>1. CASE BadPosition
    <3>1. ~WholeFile /\ to <= from /\ answer' = "false" BY <2>1 DEF BadPosition, Answer
    <3>2. Len(written) = 0 BY <1>2, <1>3, <3>1 DEF Wanted
    <3>3. written = <<>> BY <1>2, <3>2
    <3>4. ~(Len(written) > MaxSz) BY <1>3, <3>2
    <3> QED BY <1>1, <3>1, <3>3, <3>4 DEF Answers, WholeFile
  <2>2. CASE Raise
    <3>1. Asks /\ TooMuch /\ answer' = "exception" BY <2>2 DEF Raise, Answer
    <3>2. CASE WholeFile
      <4>1. Len(file) > 0 BY <1>3, <3>1, <3>2 DEF TooMuch, First, WholeFile
      <4>2. file # <<>> BY <4>1
      <4> QED BY <1>1, <3>1, <3>2, <4>2 DEF Answers, WholeFile
    <3>3. CASE ~WholeFile
      <4>1. Len(written) > MaxSz /\ to > from
        BY <1>2, <1>3, <3>1, <3>3 DEF TooMuch, First, Asks, Wanted
      <4>2. written # <<>> BY <1>2, <1>3, <3>3, <4>1 DEF Wanted
      <4> QED BY <1>1, <3>1, <3>3, <4>1, <4>2 DEF Answers, WholeFile
    <3> QED BY <3>2, <3>3
  <2> QED BY <2>1, <2>2
<1> QED BY <1>1, <1>2, <1>4, <1>5 DEF AnswerInv

(* A comparator that answers for the piece in its buffer.                   *)
LEMMA Answered ==
  ASSUME Readable, cpc' = "answered", UNCHANGED <<file, from, to, kind, pt, written>>,
         written \in Seq(Char),
         answer' = IF Says(kind, written, pt) THEN "true" ELSE "false"
  PROVE  Answers'
<1>1. UNCHANGED WholeFile BY DEF WholeFile
<1>2. ~(WholeFile /\ file # <<>>) /\ ~(~WholeFile /\ written = <<>>) BY DEF Readable
<1>3. ~(Len(written) > MaxSz)
  <2>1. Len(written) <= MaxSz /\ Len(written) \in Nat /\ MaxSz \in Nat
    BY CompareAssumption DEF Readable
  <2> QED BY <2>1
<1> QED BY <1>1, <1>2, <1>3 DEF Answers

(* The piece is what the test wants compared: the comparators of the        *)
(* library answer for it at once, the others begin with it.                 *)
LEMMA ReadAnswers ==
  ASSUME AtEnd, AnswerInv, Read
  PROVE  AnswerInv'
<1>1. /\ cpc = "engine" /\ (WholeFile \/ to > from) /\ ~TooMuch
      /\ UNCHANGED <<file, from, to, kind, pt, written>>
      /\ buf' = Piece /\ i' = 0 /\ j' = 0 /\ iPrev' = -1
  BY DEF Read, ReadTo, Asks, asked
<1>2. /\ pt \in Texts /\ written \in Seq(Char) /\ kind \in Kinds /\ Wanted
  BY <1>1 DEF AnswerInv
<1>3. /\ Len(written) \in Nat /\ Len(file) \in Nat /\ from \in Nat /\ to \in Nat /\ MaxSz \in Nat
      /\ pt \in Seq(Char) /\ Len(pt) \in Nat /\ file \in Seq(Char)
  BY <1>2, CompareAssumption DEF AtEnd, Char
<1>4. Wanted' BY <1>1, <1>2 DEF Wanted, WholeFile
<1>5. Readable /\ Piece = written
  <2>1. CASE WholeFile
    <3>1. ~(Len(file) > to) /\ to = 0 BY <1>1, <2>1 DEF TooMuch, First, WholeFile
    <3>2. file = <<>> BY <1>3, <3>1
    <3>3. written = <<>> BY <1>2, <2>1, <3>2 DEF Wanted
    <3>4. Piece = <<>> BY <3>1, <3>2 DEF Piece
    <3> QED BY <1>3, <2>1, <3>2, <3>3, <3>4 DEF Readable
  <2>2. CASE ~WholeFile
    <3>1. to = from + Len(written) /\ Piece = written BY <1>2, <2>2 DEF Wanted, Piece, First
    <3>2. ~(to - from > MaxSz) /\ to > from BY <1>1, <2>2 DEF TooMuch, First
    <3>3. Len(written) <= MaxSz /\ Len(written) # 0 BY <1>3, <3>1, <3>2
    <3>4. written # <<>> BY <3>3
    <3> QED BY <2>2, <3>1, <3>3, <3>4 DEF Readable
  <2> QED BY <2>1, <2>2
<1>6. buf' = written BY <1>1, <1>5
<1>7. CASE kind \in {"equal", "like"}
  <2>1. cpc' = "answered" /\ answer' = IF Says(kind, written, pt) THEN "true" ELSE "false"
    <3>1. CASE kind = "equal"
      <4>1. cpc' = "answered" /\ answer' = IF strncmp(written, pt) THEN "true" ELSE "false"
        BY <1>6, <3>1 DEF Read, ReadTo, Answer
      <4>2. strncmp(written, pt) <=> Says("equal", written, pt) BY <1>2, <1>3, LibraryAgrees
      <4> QED BY <3>1, <4>1, <4>2
    <3>2. CASE kind = "like"
      <4>1. cpc' = "answered" /\ answer' = IF strstr(written, pt) THEN "true" ELSE "false"
        BY <1>6, <3>2 DEF Read, ReadTo, Answer
      <4>2. strstr(written, pt) <=> Says("like", written, pt) BY <1>2, <1>3, LibraryAgrees
      <4> QED BY <3>2, <4>1, <4>2
    <3> QED BY <1>7, <3>1, <3>2
  <2>2. Answers' BY <1>1, <1>2, <1>5, <2>1, Answered
  <2> QED BY <1>1, <1>2, <1>4, <2>1, <2>2 DEF AnswerInv
<1>8. CASE kind \in {"equal_ne", "ulike"}
  <2>1. cpc' = kind BY <1>8 DEF Read, ReadTo
  <2>2. Readable' BY <1>1, <1>5 DEF Readable, WholeFile
  <2>3. LoopTypes' BY <1>1, <1>2, <1>3, <1>6 DEF LoopTypes
  <2>4. Answers' BY <1>8, <2>1 DEF Answers
  <2>5. NeAt(buf', pt', i', j') BY <1>1, <1>2, <1>3, <1>6, NeStart
  <2>6. Began' = 0 BY <1>1 DEF Began
  <2>7. ULikeAt(buf', pt', 0, 0)
    <3>1. (\A k \in 1..0 : FALSE) /\ \A m \in 0..(0 - 1) : FALSE OBVIOUS
    <3> QED BY <3>1, Zenon DEF ULikeAt
  <2>8. ULikeAt(buf', pt', Began', j') BY <1>1, <2>6, <2>7
  <2>9. Began' + j' = i' BY <1>1, <2>6
  <2> QED BY <1>1, <1>2, <1>4, <1>6, <1>8, <2>1, <2>2, <2>3, <2>4, <2>5, <2>8, <2>9 DEF AnswerInv
<1> QED BY <1>2, <1>7, <1>8 DEF Kinds

(* A step of a loop of test.c leaves what was asked as it is.               *)
LEMMA LoopStep ==
  ASSUME AnswerInv, cpc \in {"equal_ne", "ulike"}, UNCHANGED <<asked, cpc, buf>>, LoopTypes',
         cpc = "equal_ne" => NeAt(buf, pt, i', j'),
         cpc = "ulike" => Began' + j' = i' /\ (iPrev' = -1 => j' = 0) /\ ULikeAt(buf, pt, Began', j')
  PROVE  AnswerInv'
<1>1. UNCHANGED <<file, from, to, kind, pt, written, cpc, buf>> BY DEF asked
<1>2. /\ pt \in Texts /\ written \in Seq(Char) /\ kind \in Kinds /\ Wanted
      /\ kind = cpc /\ buf = written /\ Readable
  BY DEF AnswerInv
<1>3. Wanted' /\ Readable' BY <1>1, <1>2 DEF Wanted, Readable, WholeFile
<1>4. Answers' BY <1>1 DEF Answers
<1> QED BY <1>1, <1>2, <1>3, <1>4 DEF AnswerInv

(* An answer of a loop of test.c.                                           *)
LEMMA LoopAnswers ==
  ASSUME AnswerInv, cpc \in {"equal_ne", "ulike"}, UNCHANGED asked, cpc' = "answered",
         answer' = IF Says(cpc, buf, pt) THEN "true" ELSE "false"
  PROVE  AnswerInv'
<1>1. UNCHANGED <<file, from, to, kind, pt, written>> BY DEF asked
<1>2. /\ pt \in Texts /\ written \in Seq(Char) /\ kind \in Kinds /\ Wanted
      /\ kind = cpc /\ buf = written /\ Readable
  BY DEF AnswerInv
<1>3. Wanted' BY <1>1, <1>2 DEF Wanted, WholeFile
<1>4. Answers' BY <1>1, <1>2, Answered
<1> QED BY <1>1, <1>2, <1>3, <1>4 DEF AnswerInv

LEMMA NeSteps ==
  ASSUME AnswerInv, NeSkip \/ NeStep \/ NeEnd
  PROVE  AnswerInv'
<1>1. cpc = "equal_ne" /\ UNCHANGED asked /\ UNCHANGED buf
  BY DEF NeSkip, NeStep, NeEnd, loop
<1>2. /\ buf \in Seq(Char) /\ pt \in Seq(Char) /\ i \in 0..Len(buf) /\ j \in 0..Len(pt)
      /\ iPrev \in -1..Len(buf) /\ NeAt(buf, pt, i, j)
  BY <1>1, CompareAssumption DEF AnswerInv, LoopTypes, Char
<1>3. Len(buf) \in Nat /\ Len(pt) \in Nat BY <1>2
<1>4. UNCHANGED pt BY <1>1 DEF asked
<1>5. Both => /\ i < Len(buf) /\ j < Len(pt)
              /\ (S \notin Space <=> i + 1 \in Solid(buf))
              /\ (P \notin Space <=> j + 1 \in Solid(pt))
  BY <1>2, <1>3 DEF Both, S, P, Solid
<1>6. CASE NeSkip
  <2>1. Both /\ UNCHANGED <<cpc, iPrev>> BY <1>6 DEF NeSkip
  <2>2. CASE S \in Space
    <3>1. i' = i + 1 /\ j' = j BY <1>6, <2>2 DEF NeSkip
    <3>2. NeAt(buf, pt, i', j') BY <1>2, <1>3, <1>5, <2>1, <2>2, <3>1, NeBlankText
    <3>3. LoopTypes' BY <1>1, <1>2, <1>3, <1>4, <1>5, <2>1, <3>1 DEF LoopTypes
    <3> QED BY <1>1, <2>1, <3>2, <3>3, LoopStep
  <2>3. CASE S \notin Space
    <3>1. P \in Space /\ j' = j + 1 /\ i' = i BY <1>6, <2>3 DEF NeSkip
    <3>2. NeAt(buf, pt, i', j') BY <1>2, <1>3, <1>5, <2>1, <3>1, NeBlankPattern
    <3>3. LoopTypes' BY <1>1, <1>2, <1>3, <1>4, <1>5, <2>1, <3>1 DEF LoopTypes
    <3> QED BY <1>1, <2>1, <3>2, <3>3, LoopStep
  <2> QED BY <2>2, <2>3
<1>7. CASE NeStep
  <2>1. Both /\ UNCHANGED <<cpc, iPrev>> /\ i' = i + 1 /\ j' = j + 1 /\ S = P
    BY <1>7 DEF NeStep, Same
  <2>2. S \notin Space /\ P \notin Space BY <1>7 DEF NeStep
  <2>3. buf[i + 1] = pt[j + 1] BY <2>1 DEF S, P
  <2>4. NeAt(buf, pt, i', j') BY <1>2, <1>5, <2>1, <2>2, <2>3, NeSame
  <2>5. LoopTypes' BY <1>1, <1>2, <1>3, <1>4, <1>5, <2>1 DEF LoopTypes
  <2> QED BY <1>1, <2>1, <2>4, <2>5, LoopStep
<1>8. CASE NeEnd
  <2>1. /\ cpc' = "answered"
        /\ answer' = IF j = Len(pt) /\ i = Len(buf) THEN "true" ELSE "false"
        /\ Both => S \notin Space /\ P \notin Space /\ S # P
    BY <1>8 DEF NeEnd, Answer
  <2>2. j = Len(pt) /\ i = Len(buf) <=> Says("equal_ne", buf, pt)
    <3>1. ASSUME j = Len(pt), i = Len(buf) PROVE Says("equal_ne", buf, pt)
      BY <1>2, <3>1, NeEnds
    <3>2. ASSUME ~(i = Len(buf) /\ j = Len(pt)) PROVE ~Says("equal_ne", buf, pt)
      <4>1. i < Len(buf) /\ j < Len(pt) => Both BY DEF Both
      <4>2. i < Len(buf) /\ j < Len(pt)
              => i + 1 \in Solid(buf) /\ j + 1 \in Solid(pt) /\ buf[i + 1] # pt[j + 1]
        BY <1>5, <2>1, <4>1, Zenon DEF S, P
      <4> QED BY <1>2, <3>2, <4>2, NeDiffers, Zenon
    <3> QED BY <3>1, <3>2
  <2> QED BY <1>1, <2>1, <2>2, LoopAnswers
<1> QED BY <1>6, <1>7, <1>8

LEMMA ULikeSteps ==
  ASSUME AnswerInv, ULikeStep \/ ULikeBack \/ ULikeEnd
  PROVE  AnswerInv'
<1>1. cpc = "ulike" /\ UNCHANGED asked /\ UNCHANGED buf
  BY DEF ULikeStep, ULikeBack, ULikeEnd, loop
<1>2. /\ buf \in Seq(Char) /\ pt \in Seq(Char) /\ i \in 0..Len(buf) /\ j \in 0..Len(pt)
      /\ iPrev \in -1..Len(buf) /\ Began + j = i /\ (iPrev = -1 => j = 0)
      /\ ULikeAt(buf, pt, Began, j)
  BY <1>1, CompareAssumption DEF AnswerInv, LoopTypes, Char
<1>3. Len(buf) \in Nat /\ Len(pt) \in Nat BY <1>2
<1>4. UNCHANGED pt BY <1>1 DEF asked
<1>5. Began \in Nat /\ Began <= i BY <1>2, <1>3 DEF Began
<1>6. Both => i < Len(buf) /\ j < Len(pt) BY DEF Both
<1>7. S = buf[Began + j + 1] BY <1>2 DEF S
<1>8. CASE ULikeStep
  <2>1. /\ Both /\ cpc' = cpc /\ i' = i + 1 /\ j' = j + 1 /\ Upper[S] = Upper[P]
        /\ iPrev' = Began
    BY <1>8 DEF ULikeStep, Same, Began
  <2>2. Began' = Began BY <1>5, <2>1 DEF Began
  <2>3. ULikeAt(buf, pt, Began, j + 1) BY <1>2, <1>5, <1>7, <2>1, ULikeMore DEF P
  <2>4. Began' + j' = i' BY <1>2, <1>5, <2>1, <2>2
  <2>5. iPrev' # -1 BY <1>5, <2>1
  <2>6. LoopTypes' BY <1>1, <1>2, <1>3, <1>4, <1>5, <1>6, <2>1 DEF LoopTypes
  <2> QED BY <1>1, <2>1, <2>2, <2>3, <2>4, <2>5, <2>6, LoopStep
<1>9. CASE ULikeBack
  <2>1. /\ Both /\ cpc' = cpc /\ i' = Began + 1 /\ j' = 0 /\ Upper[S] # Upper[P]
        /\ iPrev' = -1
    BY <1>9 DEF ULikeBack, Began
  <2>2. Began' = Began + 1 BY <2>1 DEF Began
  <2>3. ULikeAt(buf, pt, Began + 1, 0) BY <1>2, <1>5, <1>6, <1>7, <2>1, ULikeNext DEF P
  <2>4. Began' + j' = i' BY <1>5, <2>1, <2>2
  <2>5. LoopTypes' BY <1>1, <1>2, <1>3, <1>4, <1>5, <1>6, <2>1 DEF LoopTypes
  <2> QED BY <1>1, <2>1, <2>2, <2>3, <2>4, <2>5, LoopStep
<1>10. CASE ULikeEnd
  <2>1. /\ cpc' = "answered" /\ ~Both
        /\ answer' = IF j = Len(pt) THEN "true" ELSE "false"
    BY <1>10 DEF ULikeEnd, Answer
  <2>2. j = Len(pt) <=> Says("ulike", buf, pt)
    <3>1. ~(Began + j < Len(buf) /\ j < Len(pt)) /\ Began + j <= Len(buf)
      BY <1>2, <1>3, <2>1 DEF Both
    <3> QED BY <1>2, <1>5, <3>1, ULikeDone
  <2> QED BY <1>1, <2>1, <2>2, LoopAnswers
<1> QED BY <1>8, <1>9, <1>10

(* Every comparison answers for the text the test has just written, with    *)
(* what its comparator is to say of it, however the file has been used      *)
(* before and however far back the search has had to go.                    *)
THEOREM AnswersAreRight == CSpec => []ComparesText
<1>1. CInit => AtEnd /\ AnswerInv BY DEF CInit, AtEnd, AnswerInv, Answers
<1>2. ASSUME AtEnd, AnswerInv, [CNext]_cvars PROVE AnswerInv'
  <2>1. ASSUME NEW k \in Kinds, NEW p \in Texts,
               Whole(k, p) \/ \E t \in Texts : Act(k, t, p)
        PROVE  AnswerInv'
    BY <1>2, <2>1, AskAnswers
  <2>2. CASE Continue BY <2>2 DEF Continue, AnswerInv, Answers
  <2>3. CASE BadPosition \/ Raise BY <1>2, <2>3, RefusalAnswers
  <2>4. CASE Read BY <1>2, <2>4, ReadAnswers
  <2>5. CASE NeSkip \/ NeStep \/ NeEnd BY <1>2, <2>5, NeSteps
  <2>6. CASE ULikeStep \/ ULikeBack \/ ULikeEnd BY <1>2, <2>6, ULikeSteps
  <2>7. CASE UNCHANGED cvars
    BY <1>2, <2>7 DEF cvars, AnswerInv, Wanted, WholeFile, Readable, LoopTypes, Began, Answers
  <2> QED BY <1>2, <2>1, <2>2, <2>3, <2>4, <2>5, <2>6, <2>7 DEF CNext
<1>3. AnswerInv => ComparesText
  <2>1. SUFFICES ASSUME AnswerInv, cpc = "answered", WholeFile => file = <<>> PROVE ComparesText
    BY DEF ComparesText
  <2>2. kind \in Kinds /\ Answers BY <2>1 DEF AnswerInv
  <2>3. Right(kind, written, pt, Says(kind, written, pt)) BY DEF Right, Says
  <2>4. CASE (~WholeFile /\ written = <<>>) \/ Len(written) > MaxSz
    BY <2>1, <2>2, <2>4 DEF Answers, ComparesText
  <2>5. CASE ~(~WholeFile /\ written = <<>>) /\ ~(Len(written) > MaxSz)
    <3>1. answer = IF Says(kind, written, pt) THEN "true" ELSE "false" BY <2>1, <2>2, <2>5 DEF Answers
    <3>2. answer \in {"true", "false"} /\ (answer = "true" <=> Says(kind, written, pt)) BY <3>1
    <3>3. Right(kind, written, pt, answer = "true") BY <2>3, <3>2 DEF Right
    <3> QED BY <2>5, <3>2, <3>3 DEF ComparesText
  <2> QED BY <2>4, <2>5
<1>4. CSpec => []AtEnd BY AlwaysAtEnd
<1> QED BY <1>1, <1>2, <1>3, <1>4, PTL DEF CSpec
=============================================================================
