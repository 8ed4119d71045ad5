------------------------------ MODULE TagProofs ------------------------------
(***************************************************************************)
(* The ring of speculation tags: the retirement, which stores no tags,     *)
(* derives the tag of every instruction it retires, and frees no tag that  *)
(* is not allocated; a trap resumes in an empty core.  Then the ownership  *)
(* of the physical registers.                                              *)
(***************************************************************************)
EXTENDS SpeculativeCoreProofs

(***************************************************************************)
(* The tagged instructions, oldest first: those of the ROB, then the one   *)
(* that waits for its renaming.                                            *)
(***************************************************************************)
InFlight == Len(rob) + Len(instr_tag_buf)
Instr(i) == IF i <= Len(rob) THEN rob[i] ELSE instr_tag_buf[1]

\* How many tags after b the tag t was issued; TagAge counts from tags_tail.
RingAge(b, t) == IF t >= b THEN t - b ELSE t + NTags - b

\* The ring of tags: ages are unique, the next tag is one younger unless it is
\* the oldest one, and freeing the oldest makes all others one older.
LEMMA RingArithmetic ==
    ASSUME NEW b \in Tag, NEW t \in Tag
    PROVE  /\ RingAge(b, t) \in 0 .. NTags - 1
           /\ RingAge(b, b) = 0
           /\ \A u \in Tag : RingAge(b, t) = RingAge(b, u) => t = u
           /\ NextTag(t) # b => RingAge(b, NextTag(t)) = RingAge(b, t) + 1
           /\ t # b => RingAge(NextTag(b), t) = RingAge(b, t) - 1
           /\ RingAge(b, t) = 1 => t = NextTag(b)
BY TagsAssumption DEF RingAge, Tag, NextTag

\* TagAge is the age counted from tags_tail, before and after a step.
LEMMA AgeIsRingAge ==
    /\ \A t : TagAge(t) = RingAge(tags_tail, t)
    /\ \A t : TagAge(t)' = RingAge(tags_tail', t)
BY DEF TagAge, RingAge

\* The fields of the tagged instructions.
LEMMA InstrType ==
    ASSUME TypeOK
    PROVE  /\ InFlight \in Nat /\ Len(rob) \in Nat /\ Len(rob) <= InFlight
           /\ DOMAIN rob = 1 .. Len(rob)
           /\ instr_tag_buf = <<>> => InFlight = Len(rob)
           /\ instr_tag_buf # <<>> => InFlight = Len(rob) + 1
           /\ \A i \in 1 .. InFlight :
                 /\ Instr(i).tag \in Tag
                 /\ Instr(i).inc \in BOOLEAN /\ Instr(i).br \in BOOLEAN /\ Instr(i).wrong \in BOOLEAN
<1>1. Len(rob) \in Nat /\ DOMAIN rob = 1 .. Len(rob)
  BY LenProperties DEF TypeOK
<1>2. /\ instr_tag_buf = <<>> => Len(instr_tag_buf) = 0
      /\ instr_tag_buf # <<>> => Len(instr_tag_buf) = 1
  BY PipeElement DEF TypeOK
<1>3. ASSUME NEW i \in 1 .. InFlight
      PROVE  /\ Instr(i).tag \in Tag
             /\ Instr(i).inc \in BOOLEAN /\ Instr(i).br \in BOOLEAN /\ Instr(i).wrong \in BOOLEAN
  <2>1. CASE i <= Len(rob)
    <3>1. rob[i] \in Entry BY <1>1, <2>1, RobElement
    <3> QED BY <2>1, <3>1 DEF Instr, Entry, Flag
  <2>2. CASE ~(i <= Len(rob))
    <3>1. instr_tag_buf # <<>> BY <1>1, <1>2, <2>2 DEF InFlight
    <3>2. instr_tag_buf[1] \in Tagged BY <3>1, PipeContents
    <3> QED BY <2>2, <3>2 DEF Instr, Tagged, Flag
  <2> QED BY <2>1, <2>2
<1>4. /\ InFlight \in Nat /\ Len(rob) <= InFlight
      /\ instr_tag_buf = <<>> => InFlight = Len(rob)
      /\ instr_tag_buf # <<>> => InFlight = Len(rob) + 1
  <2> DEFINE n == Len(rob)
             l == Len(instr_tag_buf)
             e == instr_tag_buf = <<>>
  <2>1. InFlight = n + l /\ n \in Nat /\ (e => l = 0) /\ (~e => l = 1)
    BY <1>1, <1>2 DEF InFlight
  <2> HIDE DEF n, l, e
  <2>2. n + l \in Nat /\ n <= n + l /\ (e => n + l = n) /\ (~e => n + l = n + 1)
    BY <2>1
  <2> QED BY <2>1, <2>2 DEF n, l, e
<1> QED BY <1>1, <1>3, <1>4

(***************************************************************************)
(* What a cycle does to the tagged instructions: the retired ones leave,   *)
(* the others keep their tags, and the one that is tagged joins them.      *)
(***************************************************************************)
Kept(i, ex) ==
    /\ Instr(i)'.tag = Instr(i + Retired).tag
    /\ Instr(i)'.inc = Instr(i + Retired).inc
    /\ Instr(i)'.br = Instr(i + Retired).br
    /\ Instr(i)'.wrong = (Instr(i + Retired).wrong \/ (RollbackTag(ex) # NoTag /\ i + Retired > ex[1].at))
Joined(n, rolls) ==
    /\ Instr(n)'.tag = OutTag(TagCall)
    /\ Instr(n)'.inc = TagIncrement(TagCall)
    /\ Instr(n)'.br = alloc_rename_buf[1].br
    /\ Instr(n)'.wrong = (alloc_rename_buf[1].wrong \/ rolls)

\* The entries that stay in the ROB keep their tags.
LEMMA UpdatedFields ==
    ASSUME TypeOK, NEW i \in DOMAIN rob, NEW ex \in Executions, NEW rp \in Reports
    PROVE  LET e == UpdatedEntry(i, ex, rp)
           IN /\ e.tag = rob[i].tag /\ e.inc = rob[i].inc /\ e.br = rob[i].br
              /\ e.wrong = (rob[i].wrong \/ (RollbackTag(ex) # NoTag /\ i > ex[1].at))
<1>1. rob[i] \in Entry BY RobElement
<1> QED BY <1>1 DEF UpdatedEntry, Entry, Flag

\* One cycle of the tagged instructions.
LEMMA InFlightStep ==
    ASSUME TypeOK, TypeOK', NEW go, NEW ex \in Executions, NEW rp \in Reports, NEW p,
           RobCycle(go, ex, rp), SchedulerCycle(go, p, RollbackTag(ex) # NoTag)
    PROVE  /\ InFlight' = InFlight - Retired + (IF TagFires(go) THEN 1 ELSE 0)
           /\ \A i \in 1 .. InFlight - Retired : Kept(i, ex)
           /\ TagFires(go) => \A n \in Nat : n = InFlight' => Joined(n, RollbackTag(ex) # NoTag)
<1> DEFINE rolls == RollbackTag(ex) # NoTag
           n == Len(rob)
           r == Retired
<1>1. /\ n \in Nat /\ r \in Nat /\ r <= n /\ DOMAIN rob = 1 .. n
      /\ InFlight \in Nat /\ InFlight = n + Len(instr_tag_buf)
      /\ instr_tag_buf = <<>> => InFlight = n
      /\ instr_tag_buf # <<>> => InFlight = n + 1
  BY InstrType, RetiringInRob DEF InFlight
<1>2. /\ Len(rob') = n - r + (IF RenameFires(go) THEN 1 ELSE 0)
      /\ \A i \in 1 .. n - r : rob'[i] = UpdatedEntry(i + r, ex, rp)
      /\ RenameFires(go) => rob'[Len(rob')] = RobEntry(instr_tag_buf[1], rolls)
  BY RobStep
<1>3. Len(instr_tag_buf') = Len(instr_tag_buf)
          + (IF TagFires(go) THEN 1 ELSE 0) - (IF RenameFires(go) THEN 1 ELSE 0)
  BY BufferLengths
<1>4. InFlight' = Len(rob') + Len(instr_tag_buf') /\ Len(instr_tag_buf) \in Nat
  BY DEF InFlight, TypeOK, AtMostOne
<1>5. InFlight' = InFlight - r + (IF TagFires(go) THEN 1 ELSE 0)
  <2> DEFINE a == IF TagFires(go) THEN 1 ELSE 0
             b == IF RenameFires(go) THEN 1 ELSE 0
             l == Len(instr_tag_buf)
  <2>1. a \in Nat /\ b \in Nat /\ l \in Nat /\ Len(rob') = n - r + b /\ Len(instr_tag_buf') = l + a - b
    BY <1>2, <1>3, <1>4
  <2>2. InFlight' = (n - r + b) + (l + a - b) /\ InFlight = n + l
    BY <1>1, <1>4, <2>1
  <2>3. (n - r + b) + (l + a - b) = (n + l) - r + a
    <3> HIDE DEF a, b, l, n, r
    <3> QED BY <1>1, <2>1
  <2> QED BY <2>2, <2>3
<1>6. RenameFires(go) => instr_tag_buf # <<>>
  BY DEF RenameFires
<1>7. TagFires(go) => alloc_rename_buf # <<>> /\ (instr_tag_buf = <<>> \/ RenameFires(go))
  BY DEF TagFires
<1>8. instr_tag_buf # <<>> => instr_tag_buf[1] \in Tagged
  BY PipeContents
<1>9. /\ TagFires(go) => instr_tag_buf'[1] =
             [rl |-> alloc_rename_buf[1].rl, br |-> alloc_rename_buf[1].br, rp |-> alloc_rename_buf[1].rp,
              tag |-> OutTag(TagCall), inc |-> TagIncrement(TagCall), cp |-> OutCheckpoint(TagCall),
              wrong |-> alloc_rename_buf[1].wrong \/ rolls]
      /\ ~TagFires(go) /\ ~RenameFires(go) => instr_tag_buf' =
             IF rolls /\ instr_tag_buf # <<>>
             THEN <<[instr_tag_buf[1] EXCEPT !.wrong = TRUE]>> ELSE instr_tag_buf
  BY DEF SchedulerCycle, PipeNext
<1>10. ex # <<>> => ex[1].at \in 1 .. n
  BY <1>1, RollbackTagType DEF Execution
<1> DEFINE m == InFlight
           n2 == Len(rob')
           empty == instr_tag_buf = <<>>
           at == ex[1].at
<1>11. /\ n \in Nat /\ r \in Nat /\ r <= n /\ m \in Nat /\ (empty => m = n) /\ (~empty => m = n + 1)
       /\ n2 = n - r + (IF RenameFires(go) THEN 1 ELSE 0)
       /\ rolls => ex # <<>> /\ at \in 1 .. n
  BY <1>1, <1>2, <1>10 DEF RollbackTag
<1>12. ASSUME NEW i \in 1 .. m - r
       PROVE  Kept(i, ex)
  <2> HIDE DEF n, r, m, n2, empty, at, rolls
  <2>1. CASE i <= n - r
    <3>1. i \in 1 .. n - r /\ i + r \in 1 .. n /\ i + r <= n /\ i <= n2
      BY <1>11, <2>1
    <3>2. Instr(i)' = UpdatedEntry(i + r, ex, rp) /\ Instr(i + r) = rob[i + r]
      BY <1>2, <3>1 DEF Instr, n, n2, r
    <3>3. i + r \in DOMAIN rob
      BY <1>1, <3>1 DEF n
    <3> QED BY <3>2, <3>3, UpdatedFields DEF Kept, r
  <2>2. CASE ~(i <= n - r)
    <3>1. ~empty /\ i = n - r + 1 /\ i + r = n + 1 /\ ~(i + r <= n) /\ (rolls => i + r > at)
      BY <1>11, <2>2
    <3>2. Instr(i + r) = instr_tag_buf[1] /\ instr_tag_buf # <<>>
      BY <3>1 DEF Instr, n, empty
    <3>3. CASE RenameFires(go)
      <4>1. n2 = i /\ i <= n2
        BY <1>11, <3>1, <3>3
      <4>2. Instr(i)' = RobEntry(instr_tag_buf[1], rolls)
        BY <1>2, <3>3, <4>1 DEF Instr, n2
      <4> QED BY <1>8, <3>1, <3>2, <4>2 DEF Kept, RobEntry, Tagged, rolls, r, at
    <3>4. CASE ~RenameFires(go)
      <4>1. ~(i <= n2)
        BY <1>11, <3>1, <3>4
      <4>2. Instr(i)' = instr_tag_buf'[1]
        BY <4>1 DEF Instr, n2
      <4>3. instr_tag_buf' = IF rolls THEN <<[instr_tag_buf[1] EXCEPT !.wrong = TRUE]>> ELSE instr_tag_buf
        BY <1>7, <1>9, <3>2, <3>4, Zenon
      <4>4. Instr(i)' = IF rolls THEN [instr_tag_buf[1] EXCEPT !.wrong = TRUE] ELSE instr_tag_buf[1]
        BY <4>2, <4>3
      <4> QED BY <1>8, <3>1, <3>2, <4>4 DEF Kept, Tagged, Flag, rolls, r, at
    <3> QED BY <3>3, <3>4
  <2> QED BY <2>1, <2>2
<1>13. ASSUME TagFires(go), NEW k \in Nat, k = InFlight'
       PROVE  Joined(k, rolls)
  <2>1. n2 \in Nat /\ InFlight' = n2 + 1
    <3> DEFINE l == Len(instr_tag_buf)
               l2 == Len(instr_tag_buf')
               fires == RenameFires(go)
    <3>1. InFlight' = n2 + l2 /\ (empty => l = 0) /\ (~empty => l = 1) /\ (fires => ~empty) /\ (empty \/ fires)
      BY <1>4, <1>6, <1>7, <1>13, PipeElement DEF TypeOK
    <3>2. l2 = l + 1 - (IF fires THEN 1 ELSE 0) /\ n2 \in Nat
      BY <1>3, <1>13, LenProperties DEF TypeOK
    <3> HIDE DEF n2, l, l2, empty, fires
    <3> QED BY <3>1, <3>2
  <2>2. ~(k <= n2)
    <3> HIDE DEF n2
    <3> QED BY <1>13, <2>1
  <2>3. Instr(k)' = instr_tag_buf'[1]
    BY <2>2 DEF Instr
  <2> QED BY <1>9, <1>13, <2>3 DEF Joined
<1> QED BY <1>5, <1>12, <1>13

-----------------------------------------------------------------------------
(***************************************************************************)
(* The chain of tags: an instruction that increments the tag is one tag    *)
(* younger than the one before it, others have the same tag; the oldest    *)
(* continues the last retired tag and the youngest has the tag issued last.*)
(***************************************************************************)
AgeBefore(i) == IF i = 1 THEN 0 ELSE TagAge(Instr(i - 1).tag)
TagsInStep == tags_tail = last_retired_tag /\ tags_head = NextTag(last_issued_tag)
TagChain ==
    \A i \in 1 .. InFlight :
        TagAge(Instr(i).tag) = AgeBefore(i) + (IF Instr(i).inc THEN 1 ELSE 0)
LastIssued == TagAge(last_issued_tag) = AgeBefore(InFlight + 1)
TagInv == TagsInStep /\ TagChain /\ LastIssued

\* Ages are numbers.
LEMMA AgeType ==
    ASSUME TypeOK
    PROVE  /\ tags_tail \in Tag /\ tags_head \in Tag /\ last_issued_tag \in Tag
           /\ \A t \in Tag : TagAge(t) \in 0 .. NTags - 1
           /\ \A i \in 1 .. InFlight : TagAge(Instr(i).tag) \in Nat
<1>1. tags_tail \in Tag /\ tags_head \in Tag /\ last_issued_tag \in Tag
  BY DEF TypeOK, CRATTypeOK
<1>2. \A t \in Tag : TagAge(t) \in 0 .. NTags - 1
  BY <1>1, AgeIsRingAge, RingArithmetic
<1>3. \A n \in 0 .. NTags - 1 : n \in Nat
  BY TagsAssumption
<1> QED BY <1>1, <1>2, <1>3, InstrType

\* Younger instructions have younger tags, and those after an increment have
\* strictly younger ones.
LEMMA ChainMonotone ==
    ASSUME TypeOK, TagInv, NEW i \in 1 .. InFlight
    PROVE  /\ \A j \in i .. InFlight : TagAge(Instr(i).tag) <= TagAge(Instr(j).tag)
           /\ TagAge(Instr(i).tag) <= TagAge(last_issued_tag)
           /\ AgeBefore(i) <= TagAge(Instr(i).tag) /\ AgeBefore(i) \in Nat
<1> DEFINE m == InFlight
           A(k) == TagAge(Instr(k).tag)
           N(k) == A(k - 1)
           inc(k) == IF Instr(k).inc THEN 1 ELSE 0
           S == {j \in Nat : i <= j /\ j <= m /\ ~(A(i) <= A(j))}
<1>1. m \in Nat /\ i \in 1 .. m /\ \A k \in 1 .. m : A(k) \in Nat
  BY InstrType, AgeType
<1>2. \A k \in 1 .. m : inc(k) \in {0, 1} /\ A(k) = (IF k = 1 THEN 0 ELSE A(k - 1)) + inc(k)
  BY DEF TagInv, TagChain, AgeBefore
<1>3. S = {}
  <2> SUFFICES ASSUME S # {} PROVE FALSE
    OBVIOUS
  <2>1. PICK j \in S : \A k \in S : j <= k
    <3>1. S \in SUBSET Nat OBVIOUS
    <3> HIDE DEF S
    <3> QED BY <3>1, LeastNumber
  <2> HIDE DEF m, A, inc
  <2>2. j \in Nat /\ i <= j /\ j <= m /\ ~(A(i) <= A(j))
    BY <2>1
  <2>3. i < j
    BY <1>1, <2>2
  <2>4. j - 1 \in Nat /\ i <= j - 1 /\ j - 1 <= m /\ j - 1 \notin S
    BY <1>1, <2>1, <2>2, <2>3
  <2>5. A(i) <= A(j - 1)
    BY <2>4
  <2>6. A(j) = A(j - 1) + inc(j) /\ inc(j) \in {0, 1} /\ A(j - 1) \in Nat
    BY <1>1, <1>2, <2>2, <2>3
  <2> QED BY <1>1, <2>2, <2>5, <2>6
<1>4. \A j \in i .. m : A(i) <= A(j)
  <2> HIDE DEF m, A
  <2> QED BY <1>1, <1>3
<1>5. A(i) <= TagAge(last_issued_tag)
  <2>1. m # 0 /\ m + 1 # 1 /\ (m + 1) - 1 = m /\ m \in i .. m
    <3> HIDE DEF m
    <3> QED BY <1>1
  <2>2. TagAge(last_issued_tag) = A(m)
    BY <2>1 DEF TagInv, LastIssued, AgeBefore
  <2> QED BY <1>4, <2>1, <2>2
<1>6. AgeBefore(i) <= A(i) /\ AgeBefore(i) \in Nat
  <2>1. AgeBefore(i) = IF i = 1 THEN 0 ELSE A(i - 1)
    BY DEF AgeBefore
  <2> HIDE DEF m, A, inc
  <2> QED BY <1>1, <1>2, <2>1
<1> QED BY <1>4, <1>5, <1>6

\* The retirement sees the ages: 1 from the increment in its group on, 0 before.
LEMMA RetiringAges ==
    ASSUME TypeOK, TagInv, NEW i \in Retiring
    PROVE  TagAge(rob[i].tag) = IF \E j \in 1 .. i : rob[j].inc THEN 1 ELSE 0
<1> DEFINE n == RetireCount
           A(k) == TagAge(rob[k].tag)
           inc(k) == rob[k].inc
           E(k) == IF \E j \in 1 .. k : inc(j) THEN 1 ELSE 0
           S == {k \in Nat : 1 <= k /\ k <= n /\ A(k) # E(k)}
<1>1. n \in Nat /\ n <= Len(rob) /\ Len(rob) \in Nat /\ i \in 1 .. n
  BY RetiringInRob, InstrType DEF Retiring
<1>2. \A k \in 1 .. n : inc(k) => \A j \in 1 .. k - 1 : ~inc(j)
  <2>1. Retirable(n)
    <3> DEFINE R == {q \in 0 .. RetireWidth : Retirable(q)}
    <3>1. 0 \in R BY <1>1, SizesAssumption DEF Retirable
    <3>2. R \in SUBSET (0 .. RetireWidth) /\ RetireWidth \in Nat BY SizesAssumption
    <3>3. Max(R) \in R
      <4> HIDE DEF R
      <4> QED BY <3>1, <3>2, MaxIsGreatest
    <3> QED BY <3>3 DEF RetireCount
  <2> QED BY <2>1 DEF Retirable
<1>3. \A k \in 1 .. n : A(k) = (IF k = 1 THEN 0 ELSE A(k - 1)) + (IF inc(k) THEN 1 ELSE 0)
  <2> TAKE k \in 1 .. n
  <2>1. k \in 1 .. InFlight /\ k <= Len(rob) /\ k - 1 <= Len(rob)
    BY <1>1, InstrType
  <2>2. Instr(k) = rob[k] /\ Instr(k - 1) = rob[k - 1]
    BY <2>1 DEF Instr
  <2> QED BY <2>1, <2>2 DEF TagInv, TagChain, AgeBefore
<1>4. S = {}
  <2> SUFFICES ASSUME S # {} PROVE FALSE
    OBVIOUS
  <2>1. PICK k \in S : \A j \in S : k <= j
    <3>1. S \in SUBSET Nat OBVIOUS
    <3> HIDE DEF S
    <3> QED BY <3>1, LeastNumber
  <2> HIDE DEF n, A, inc
  <2>2. k \in 1 .. n /\ A(k) # E(k)
    BY <1>1, <2>1
  <2>3. CASE k = 1
    <3>1. (\E j \in 1 .. 1 : inc(j)) <=> inc(1)
      OBVIOUS
    <3> QED BY <1>3, <2>2, <2>3, <3>1
  <2>4. CASE k # 1
    <3>1. k - 1 \in 1 .. n /\ k - 1 \notin S
      BY <1>1, <2>1, <2>2, <2>4
    <3>2. A(k - 1) = E(k - 1)
      BY <3>1
    <3>3. A(k) = A(k - 1) + (IF inc(k) THEN 1 ELSE 0)
      BY <1>3, <2>2, <2>4
    <3>4. 1 .. k = (1 .. k - 1) \cup {k}
      BY <2>2
    <3>5. (\E j \in 1 .. k : inc(j)) <=> (inc(k) \/ \E j \in 1 .. k - 1 : inc(j))
      BY <3>4
    <3>6. inc(k) => ~ \E j \in 1 .. k - 1 : inc(j)
      BY <1>2, <2>2
    <3> QED BY <2>2, <3>2, <3>3, <3>5, <3>6
  <2> QED BY <2>3, <2>4
<1>5. A(i) = E(i)
  <2> HIDE DEF n, A, E
  <2> QED BY <1>1, <1>4
<1> QED BY <1>5

\* What the retirement derives is the tag every instruction was issued with.
LEMMA TagsDerived ==
    ASSUME TypeOK, TagInv
    PROVE  RetirementTagsExact
<1>1. ASSUME NEW i \in Retiring PROVE RetireTag(i) = rob[i].tag
  <2>1. rob[i].tag \in Tag /\ tags_tail \in Tag
    BY RetiringInRob, RobElement, AgeType DEF Entry
  <2>2. RingAge(tags_tail, rob[i].tag) = IF \E j \in 1 .. i : rob[j].inc THEN 1 ELSE 0
    BY RetiringAges, AgeIsRingAge
  <2>3. /\ RingAge(tags_tail, rob[i].tag) = 0 => rob[i].tag = tags_tail
        /\ RingAge(tags_tail, rob[i].tag) = 1 => rob[i].tag = NextTag(tags_tail)
    BY <2>1, RingArithmetic
  <2> QED BY <2>2, <2>3 DEF RetireTag, TagInv, TagsInStep
<1> QED BY <1>1 DEF RetirementTagsExact, TagInv, TagsInStep

\* A group that frees a tag ends one tag after the oldest one, others end with it.
FreeStep == IF RetireReady /\ FreesTag THEN 1 ELSE 0

\* The instructions that stay are younger than what is freed.
LEMMA AgeAfterRetired ==
    ASSUME TypeOK, TagInv
    PROVE  /\ AgeBefore(Retired + 1) = FreeStep
           /\ \A i \in Retired + 1 .. InFlight : TagAge(Instr(i).tag) >= FreeStep
           /\ TagAge(last_issued_tag) >= FreeStep
<1> DEFINE n == Retired
           m == InFlight
           A(k) == TagAge(Instr(k).tag)
<1>1. n \in Nat /\ n <= Len(rob) /\ Len(rob) <= m /\ m \in Nat /\ Len(rob) \in Nat
  BY RetiringInRob, InstrType
<1>2. CASE n = 0
  <2>1. FreeStep = 0
    <3>1. ~RetireReady \/ RetireCount = 0
      BY <1>2 DEF Retired
    <3>2. RetireReady => RetireCount > 0
      BY DEF RetireReady
    <3> QED BY <3>1, <3>2, RetiringInRob DEF FreeStep
  <2>2. \A i \in 1 .. m : A(i) \in Nat
    BY AgeType
  <2>3. TagAge(last_issued_tag) \in Nat
    BY AgeType, TagsAssumption
  <2>4. AgeBefore(1) = 0
    BY DEF AgeBefore
  <2> HIDE DEF n, m, A
  <2>5. \A i \in n + 1 .. m : A(i) >= 0
    BY <1>1, <1>2, <2>2
  <2>6. AgeBefore(n + 1) = 0
    BY <1>2, <2>4
  <2>7. TagAge(last_issued_tag) >= 0
    BY <2>3
  <2> QED BY <2>1, <2>5, <2>6, <2>7 DEF n, m, A
<1>3. CASE n # 0
  <2>1. RetireReady /\ n = RetireCount /\ n \in Retiring /\ n \in 1 .. m /\ n <= Len(rob)
    BY <1>1, <1>3 DEF Retired, Retiring
  <2>2. A(n) = FreeStep
    <3>1. Instr(n) = rob[n]
      BY <2>1 DEF Instr
    <3>2. FreesTag <=> \E j \in 1 .. n : rob[j].inc
      BY <2>1 DEF FreesTag, Retiring
    <3> QED BY <2>1, <3>1, <3>2, RetiringAges DEF FreeStep
  <2>3. AgeBefore(n + 1) = FreeStep
    <3>1. n + 1 # 1 /\ (n + 1) - 1 = n
      <4> HIDE DEF n
      <4> QED BY <1>1, <1>3
    <3> QED BY <2>2, <3>1 DEF AgeBefore
  <2>4. (\A j \in n .. m : A(n) <= A(j)) /\ A(n) <= TagAge(last_issued_tag)
    BY <2>1, ChainMonotone
  <2>5. (\A j \in n .. m : A(j) \in Nat) /\ TagAge(last_issued_tag) \in Nat
    <3>1. \A j \in n .. m : j \in 1 .. m
      <4> HIDE DEF n, m
      <4> QED BY <1>1, <1>3
    <3> QED BY <3>1, AgeType, TagsAssumption
  <2>6. FreeStep \in {0, 1}
    BY DEF FreeStep
  <2> HIDE DEF n, m, A
  <2>7. \A i \in n + 1 .. m : A(i) >= FreeStep
    BY <1>1, <2>2, <2>4, <2>5, <2>6
  <2>8. TagAge(last_issued_tag) >= FreeStep
    BY <2>2, <2>4, <2>5, <2>6
  <2> QED BY <2>3, <2>7, <2>8 DEF n, m, A
<1> QED BY <1>2, <1>3

\* Freeing a tag finds more than one allocated.
LEMMA NoUnderflow ==
    ASSUME TypeOK, TagInv
    PROVE  NoTagUnderflow
<1> SUFFICES ASSUME RetireReady, FreesTag PROVE NextTag(tags_tail) # tags_head
  BY DEF NoTagUnderflow
<1>1. TagAge(last_issued_tag) >= 1
  BY AgeAfterRetired DEF FreeStep
<1>2. tags_tail \in Tag /\ last_issued_tag \in Tag
  BY AgeType
<1>3. last_issued_tag # tags_tail
  BY <1>1, <1>2, AgeIsRingAge, RingArithmetic
<1>4. \A t, u \in Tag : NextTag(t) = NextTag(u) => t = u
  BY TagsAssumption DEF Tag, NextTag
<1> QED BY <1>2, <1>3, <1>4 DEF TagInv, TagsInStep

-----------------------------------------------------------------------------
(***************************************************************************)
(* The step.                                                               *)
(***************************************************************************)

\* The parts of a cycle.
LEMMA CycleParts ==
    ASSUME NEW push, NEW go, NEW ex, NEW rp, NEW async, Cycle(push, go, ex, rp, async)
    PROVE  /\ RobCycle(go, ex, rp)
           /\ \E p : SchedulerCycle(go, p, RollbackTag(ex) # NoTag)
           /\ TagsCycle(TagPart(go), RollbackTag(ex), RetireReady /\ FreesTag)
           /\ CheckpointsCycle(RenamePart(go), RetireReady /\ FreesTag)
           /\ RollbackCycle(TagPart(go), RenamePart(go), RollbackTag(ex))
           /\ FratCycle(RenamePart(go), RestorePart)
           /\ FrontendCycle(go, push, RollbackTag(ex))
           /\ ExceptionCycle(rp)
           /\ push # <<>> => CanPush(go)
           /\ ~MarkerRace => ~MarkerAtRisk(push, rp)
           /\ \/ RetireNormal(CommitSet(async))
              \/ RetireFlush
              \/ RetireResume
              \/ RetireNothing
<1>1. CRATCycle(TagPart(go), RenamePart(go), RollbackTag(ex), RetireReady /\ FreesTag, RestorePart)
  BY DEF Cycle, TagPart, RenamePart, RestorePart
<1>2. \E p : SchedulerCycle(go, p, RollbackTag(ex) # NoTag)
  BY DEF Cycle, RegistersCycle
<1>3. \/ RetireNormal(CommitSet(async))
      \/ RetireFlush
      \/ RetireResume
      \/ RetireNothing
  BY DEF Cycle, CommitSet
<1> QED BY <1>1, <1>2, <1>3 DEF Cycle, CRATCycle

\* The last retired tag moves with the tag that is freed.
LEMMA RetiredTagStep ==
    ASSUME NEW async,
           \/ RetireNormal(CommitSet(async))
           \/ RetireFlush
           \/ RetireResume
           \/ RetireNothing
    PROVE  last_retired_tag' = IF RetireReady /\ FreesTag THEN NextTag(last_retired_tag) ELSE last_retired_tag
<1>1. RetireResume => ~RetireReady
  BY DEF RetireResume, Resuming, RetireReady, Flushing
<1> QED BY <1>1 DEF RetireNormal, RetireFlush, RetireResume, RetireNothing, RetireEntries

\* The tag registers after a cycle.
LEMMA TagRegisters ==
    ASSUME TypeOK, TagInv, NEW go, NEW rb, TagsCycle(TagPart(go), rb, RetireReady /\ FreesTag)
    PROVE  /\ tags_tail' = IF RetireReady /\ FreesTag THEN NextTag(tags_tail) ELSE tags_tail
           /\ last_issued_tag' = IF TagFires(go) THEN OutTag(TagCall) ELSE last_issued_tag
           /\ tags_head' = NextTag(last_issued_tag')
           /\ TagFires(go) /\ TagIncrement(TagCall) => tags_head # tags_tail
<1>1. /\ TagFires(go) => TagPart(go) = <<TagCall>> /\ TagPart(go) # <<>> /\ TagPart(go)[1] = TagCall
      /\ ~TagFires(go) => TagPart(go) = <<>>
  BY DEF TagPart
<1>2. TagFires(go) /\ TagIncrement(TagCall) => tags_head # tags_tail
  BY DEF TagFires, TagReady
<1>3. last_issued_tag' = IF TagFires(go) THEN OutTag(TagCall) ELSE last_issued_tag
  BY <1>1 DEF TagsCycle
<1>4. tags_head' = IF TagFires(go) /\ TagIncrement(TagCall) THEN NextTag(tags_head) ELSE tags_head
  BY <1>1 DEF TagsCycle
<1>5. tags_head' = NextTag(last_issued_tag')
  BY <1>3, <1>4 DEF OutTag, TagInv, TagsInStep
<1> QED BY <1>2, <1>3, <1>5 DEF TagsCycle

\* The ages of the tags that stay allocated, seen after the step.
LEMMA AgesShift ==
    ASSUME TypeOK, TagInv,
           tags_tail' = IF RetireReady /\ FreesTag THEN NextTag(tags_tail) ELSE tags_tail
    PROVE  /\ FreeStep \in {0, 1}
           /\ \A t \in Tag : TagAge(t) >= FreeStep => RingAge(tags_tail', t) = TagAge(t) - FreeStep
<1>1. tags_tail \in Tag
  BY AgeType
<1>2. ASSUME NEW t \in Tag, TagAge(t) >= FreeStep
      PROVE  RingAge(tags_tail', t) = TagAge(t) - FreeStep
  <2>1. TagAge(t) = RingAge(tags_tail, t) /\ TagAge(t) \in 0 .. NTags - 1
    BY <1>1, AgeIsRingAge, RingArithmetic
  <2>2. CASE RetireReady /\ FreesTag
    <3>1. t # tags_tail
      BY <1>1, <1>2, <2>1, <2>2, RingArithmetic DEF FreeStep
    <3> QED BY <1>1, <2>1, <2>2, <3>1, RingArithmetic DEF FreeStep
  <2>3. CASE ~(RetireReady /\ FreesTag)
    <3>1. RingAge(tags_tail', t) = TagAge(t) /\ FreeStep = 0
      BY <2>1, <2>3 DEF FreeStep
    <3> QED BY <2>1, <3>1, TagsAssumption
  <2> QED BY <2>2, <2>3
<1> QED BY <1>2 DEF FreeStep

\* Tagging, renaming and retiring keep the chain.
LEMMA TagInvCycle ==
    ASSUME TypeOK, TypeOK', TagInv,
           NEW push, NEW go, NEW ex \in Executions, NEW rp \in Reports, NEW async,
           Cycle(push, go, ex, rp, async)
    PROVE  TagInv'
<1>1. PICK p : SchedulerCycle(go, p, RollbackTag(ex) # NoTag)
  BY CycleParts
<1>2. RobCycle(go, ex, rp) /\ TagsCycle(TagPart(go), RollbackTag(ex), RetireReady /\ FreesTag)
  BY CycleParts
<1>3. /\ InFlight' = InFlight - Retired + (IF TagFires(go) THEN 1 ELSE 0)
      /\ \A i \in 1 .. InFlight - Retired : Kept(i, ex)
      /\ TagFires(go) => \A n \in Nat : n = InFlight' => Joined(n, RollbackTag(ex) # NoTag)
  BY <1>1, <1>2, InFlightStep
<1>4. /\ tags_tail' = IF RetireReady /\ FreesTag THEN NextTag(tags_tail) ELSE tags_tail
      /\ last_issued_tag' = IF TagFires(go) THEN OutTag(TagCall) ELSE last_issued_tag
      /\ tags_head' = NextTag(last_issued_tag')
      /\ TagFires(go) /\ TagIncrement(TagCall) => tags_head # tags_tail
  BY <1>2, TagRegisters
<1>5. TagsInStep'
  <2>1. last_retired_tag' = IF RetireReady /\ FreesTag THEN NextTag(last_retired_tag) ELSE last_retired_tag
    BY CycleParts, RetiredTagStep
  <2> QED BY <1>4, <2>1 DEF TagInv, TagsInStep
<1>0. PICK m2 \in Nat : m2 = InFlight'
  <2>1. Len(rob') \in Nat /\ Len(instr_tag_buf') \in Nat /\ InFlight' = Len(rob') + Len(instr_tag_buf')
    BY LenProperties DEF InFlight, TypeOK, AtMostOne
  <2> QED BY <2>1
<1> DEFINE r == Retired
           m == InFlight
           d == FreeStep
           A(k) == TagAge(Instr(k).tag)
           A2(k) == RingAge(tags_tail', Instr(k)'.tag)
           inc(k) == IF Instr(k).inc THEN 1 ELSE 0
           inc2(k) == IF Instr(k)'.inc THEN 1 ELSE 0
           last == TagAge(last_issued_tag)
           last2 == RingAge(tags_tail', last_issued_tag')
           fires == TagFires(go)
           grow == IF TagFires(go) /\ TagIncrement(TagCall) THEN 1 ELSE 0
<1>6. /\ r \in Nat /\ m \in Nat /\ r <= m /\ m2 = m - r + (IF fires THEN 1 ELSE 0)
      /\ d \in {0, 1} /\ grow \in {0, 1} /\ last \in Nat
      /\ \A k \in 1 .. m : A(k) \in Nat /\ inc(k) \in {0, 1}
  <2>1. r \in Nat /\ m \in Nat /\ r <= Len(rob) /\ Len(rob) <= m /\ Len(rob) \in Nat
    BY RetiringInRob, InstrType
  <2>2. last \in Nat
    BY AgeType, TagsAssumption
  <2>3. r <= m
    <3> DEFINE l == Len(rob)
    <3> HIDE DEF r, m, l
    <3> QED BY <2>1 DEF l
  <2> QED BY <1>0, <1>3, <2>1, <2>2, <2>3, AgeType DEF FreeStep
<1>7. \A k \in 1 .. m : A(k) = (IF k = 1 THEN 0 ELSE A(k - 1)) + inc(k)
  BY DEF TagInv, TagChain, AgeBefore
<1>8. last = IF m = 0 THEN 0 ELSE A(m)
  <2>1. last = AgeBefore(m + 1)
    BY DEF TagInv, LastIssued
  <2>2. (m + 1 = 1) <=> (m = 0)
    <3> HIDE DEF m
    <3> QED BY <1>6
  <2>3. (m + 1) - 1 = m
    <3> HIDE DEF m
    <3> QED BY <1>6
  <2> QED BY <2>1, <2>2, <2>3 DEF AgeBefore
<1>9. (IF r = 0 THEN 0 ELSE A(r)) = d
  <2>1. AgeBefore(r + 1) = d
    BY AgeAfterRetired
  <2>2. (r + 1 = 1) <=> (r = 0)
    <3> HIDE DEF r
    <3> QED BY <1>6
  <2>3. (r + 1) - 1 = r
    <3> HIDE DEF r
    <3> QED BY <1>6
  <2> QED BY <2>1, <2>2, <2>3 DEF AgeBefore
<1>10. ASSUME NEW i \in 1 .. m - r
       PROVE  A2(i) = A(i + r) - d /\ inc2(i) = inc(i + r)
  <2>1. i + r \in 1 .. m /\ i + r \in r + 1 .. m
    <3> HIDE DEF r, m
    <3> QED BY <1>6
  <2>2. Instr(i + r).tag \in Tag /\ A(i + r) >= d
    BY <2>1, InstrType, AgeAfterRetired
  <2>3. Instr(i)'.tag = Instr(i + r).tag /\ Instr(i)'.inc = Instr(i + r).inc
    BY <1>3 DEF Kept
  <2> QED BY <1>4, <2>2, <2>3, AgesShift
<1>11. last2 = last + grow - d
  <2>1. last_issued_tag \in Tag /\ tags_head \in Tag /\ tags_tail \in Tag /\ last >= d
    BY AgeType, AgeAfterRetired
  <2>2. CASE fires /\ TagIncrement(TagCall)
    <3>1. last_issued_tag' = tags_head /\ tags_head = NextTag(last_issued_tag) /\ tags_head # tags_tail
      BY <1>4, <2>2 DEF OutTag, TagInv, TagsInStep
    <3>2. TagAge(tags_head) = last + 1
      BY <2>1, <3>1, AgeIsRingAge, RingArithmetic
    <3>3. TagAge(tags_head) >= d
      <4> HIDE DEF last, d
      <4> QED BY <1>6, <2>1, <3>2
    <3>4. last2 = (last + 1) - d
      BY <1>4, <2>1, <3>1, <3>2, <3>3, AgesShift
    <3>5. grow = 1
      BY <2>2
    <3> HIDE DEF last, last2, d, grow
    <3> QED BY <1>6, <3>4, <3>5
  <2>3. CASE ~(fires /\ TagIncrement(TagCall))
    <3>1. last_issued_tag' = last_issued_tag
      BY <1>4, <2>3 DEF OutTag
    <3>2. last2 = last - d /\ grow = 0
      BY <1>4, <2>1, <2>3, <3>1, AgesShift
    <3> HIDE DEF last, last2, d, grow
    <3> QED BY <1>6, <3>2
  <2> QED BY <2>2, <2>3
<1>12. fires => A2(m2) = last2 /\ inc2(m2) = grow
  <2>1. fires => Joined(m2, RollbackTag(ex) # NoTag)
    BY <1>0, <1>3
  <2> QED BY <1>4, <2>1 DEF Joined
<1>13. fires \/ grow = 0
  OBVIOUS
<1>14. \A k \in 1 .. m2 : A2(k) = (IF k = 1 THEN 0 ELSE A2(k - 1)) + inc2(k)
  <2> HIDE DEF r, m, d, A, A2, inc, inc2, last, last2, fires, grow
  <2> TAKE k \in 1 .. m2
  <2>1. CASE k \in 1 .. m - r
    <3>1. A2(k) = A(k + r) - d /\ inc2(k) = inc(k + r) /\ k + r \in 1 .. m
      BY <1>6, <1>10, <2>1
    <3>2. A(k + r) = (IF k + r = 1 THEN 0 ELSE A((k + r) - 1)) + inc(k + r)
      BY <1>7, <3>1
    <3>3. CASE k = 1
      <4>1. k + r = 1 <=> r = 0
        BY <1>6, <3>3
      <4>2. (k + r) - 1 = r
        BY <1>6, <3>3
      <4>3. A(k + r) = d + inc(k + r)
        BY <1>9, <3>2, <4>1, <4>2
      <4>4. inc(k + r) \in {0, 1}
        BY <1>6, <3>1
      <4> QED BY <1>6, <3>1, <3>3, <4>3, <4>4
    <3>4. CASE k # 1
      <4>1. k - 1 \in 1 .. m - r /\ k + r # 1 /\ (k + r) - 1 = (k - 1) + r /\ (k - 1) + r \in 1 .. m
        BY <1>6, <2>1, <3>4
      <4>2. A2(k - 1) = A((k - 1) + r) - d
        BY <1>10, <4>1
      <4>3. A(k + r) = A((k - 1) + r) + inc(k + r)
        BY <3>2, <4>1
      <4>4. inc(k + r) \in {0, 1} /\ A((k - 1) + r) \in Nat
        BY <1>6, <3>1, <4>1
      <4> QED BY <1>6, <3>1, <3>4, <4>2, <4>3, <4>4
    <3> QED BY <3>3, <3>4
  <2>2. CASE k \notin 1 .. m - r
    <3>1. fires /\ k = m2 /\ k = m - r + 1
      BY <1>6, <2>2
    <3>2. A2(k) = last + grow - d /\ inc2(k) = grow
      BY <1>11, <1>12, <3>1
    <3>3. CASE k = 1
      <4>1. m = r
        BY <1>6, <3>1, <3>3
      <4>2. last = d
        BY <1>8, <1>9, <4>1
      <4> QED BY <1>6, <3>2, <3>3, <4>2
    <3>4. CASE k # 1
      <4>1. k - 1 \in 1 .. m - r /\ (k - 1) + r = m /\ m # 0 /\ m \in 1 .. m
        BY <1>6, <3>1, <3>4
      <4>2. A2(k - 1) = A(m) - d /\ last = A(m) /\ A(m) \in Nat
        BY <1>6, <1>8, <1>10, <4>1
      <4> QED BY <1>6, <3>2, <3>4, <4>2
    <3> QED BY <3>3, <3>4
  <2> QED BY <2>1, <2>2
<1>15. last2 = IF m2 = 0 THEN 0 ELSE A2(m2)
  <2> HIDE DEF r, m, d, A, A2, inc, inc2, last, last2, fires, grow
  <2>1. CASE fires
    <3>1. m2 # 0 BY <1>6, <2>1
    <3> QED BY <1>12, <2>1, <3>1
  <2>2. CASE ~fires /\ m = r
    <3>1. m2 = 0 /\ last = d /\ grow = 0
      BY <1>6, <1>8, <1>9, <1>13, <2>2
    <3> QED BY <1>6, <1>11, <3>1
  <2>3. CASE ~fires /\ m # r
    <3>1. m2 = m - r /\ m2 \in 1 .. m - r /\ m2 + r = m /\ m # 0 /\ grow = 0
      BY <1>6, <1>13, <2>3
    <3>2. A2(m2) = A(m) - d /\ last = A(m)
      BY <1>8, <1>10, <3>1
    <3> QED BY <1>6, <1>11, <3>1, <3>2
  <2> QED BY <2>1, <2>2, <2>3
<1>16. TagChain'
  <2> SUFFICES ASSUME NEW k \in 1 .. m2
               PROVE  TagAge(Instr(k).tag)' = AgeBefore(k)' + inc2(k)
    BY <1>0 DEF TagChain
  <2>1. TagAge(Instr(k).tag)' = A2(k) /\ (k = 1 => AgeBefore(k)' = 0) /\ (k # 1 => AgeBefore(k)' = A2(k - 1))
    BY DEF TagAge, RingAge, AgeBefore
  <2> QED BY <1>14, <2>1
<1>17. LastIssued'
  <2>1. TagAge(last_issued_tag)' = last2
    BY DEF TagAge, RingAge
  <2>2. AgeBefore(m2 + 1)' = IF m2 = 0 THEN 0 ELSE A2(m2)
    <3>1. AgeBefore(m2 + 1)' = IF m2 + 1 = 1 THEN 0 ELSE A2((m2 + 1) - 1)
      BY DEF TagAge, RingAge, AgeBefore
    <3>2. (m2 + 1) - 1 = m2 /\ (m2 + 1 = 1 <=> m2 = 0)
      OBVIOUS
    <3> QED BY <3>1, <3>2
  <2>3. AgeBefore(InFlight + 1)' = AgeBefore(m2 + 1)'
    BY <1>0 DEF AgeBefore
  <2> QED BY <1>15, <2>1, <2>2, <2>3 DEF LastIssued
<1> QED BY <1>5, <1>16, <1>17 DEF TagInv

\* At reset tag 0 is the only one, and nothing is in flight.
LEMMA TagInvInit == Init => TagInv
<1> SUFFICES ASSUME Init PROVE TagInv
  OBVIOUS
<1>1. InFlight = 0
  BY EmptySeq DEF Init, InFlight
<1>2. TagsInStep
  BY TagsAssumption DEF Init, CRATInit, TagsInStep, NextTag
<1>3. TagAge(last_issued_tag) = 0
  BY DEF Init, CRATInit, TagAge
<1> QED BY <1>1, <1>2, <1>3 DEF TagInv, TagChain, LastIssued, AgeBefore

\* With the types, the chain of tags is inductive.
LEMMA TagInvNext == TypeInv /\ TagInv /\ [Next]_vars => TagInv'
<1> SUFFICES ASSUME TypeInv, TagInv, [Next]_vars PROVE TagInv'
  OBVIOUS
<1>1. TypeOK /\ TypeOK'
  BY TypeInvNext DEF TypeInv
<1>2. CASE Next
  BY <1>1, <1>2, NextIsCycle, TagInvCycle
<1>3. CASE UNCHANGED vars
  BY <1>3 DEF vars, cratVars, tagVars, schedVars, backVars, TagInv, TagsInStep, TagChain, LastIssued,
              AgeBefore, InFlight, Instr, TagAge
<1> QED BY <1>2, <1>3

\* The retirement derives the tag every retiring instruction was issued with and
\* keeps in step with the CRAT, for all numbers of tags and entries, through
\* rollbacks and traps.
THEOREM RetirementTagsRight == Spec => []RetirementTagsExact
<1>1. TypeInv /\ TagInv => RetirementTagsExact
  BY TagsDerived DEF TypeInv
<1> QED BY <1>1, TypeInvInit, TypeInvNext, TagInvInit, TagInvNext, PTL DEF Spec

\* CheckpointRAT.free_tag never frees the last allocated tag: its assertion "tag
\* free underflow" holds in normal operation, after rollbacks and during a flush.
THEOREM TagsNeverUnderflow == Spec => []NoTagUnderflow
<1>1. TypeInv /\ TagInv => NoTagUnderflow
  BY NoUnderflow DEF TypeInv
<1> QED BY <1>1, TypeInvInit, TypeInvNext, TagInvInit, TagInvNext, PTL DEF Spec

-----------------------------------------------------------------------------
(***************************************************************************)
(* Traps.  A trap is taken only while the Exception Information Register   *)
(* holds a report, so that the frontend is stalled when it begins; the     *)
(* report of an instruction on a valid path stays in the register until    *)
(* the trap is taken.                                                      *)
(***************************************************************************)
ReportsHeld ==
    fsm = "NORMAL" /\ (\E i \in DOMAIN rob : rob[i].rep /\ rob[i].tag \in active_tags)
        => exception_valid
TrapsStall ==
    /\ fsm # "NORMAL" => exception_valid /\ stalled_exception
    /\ stalled_exception => output_pipe = <<>>
ResumeEmpty == fsm = "TRAP_RESUME" => core_counter = 0
TrapInv == ReportsHeld /\ TrapsStall /\ ResumeEmpty

\* The tags that are active after a cycle.
LEMMA ActiveStep ==
    ASSUME NEW go, NEW rb, TagsCycle(TagPart(go), rb, RetireReady /\ FreesTag)
    PROVE  active_tags' =
              (active_tags \cup (IF TagFires(go) /\ TagIncrement(TagCall) /\ TagOnPath(TagCall)
                                 THEN {tags_head} ELSE {}))
                 \ (Invalidated(rb) \cup (IF RetireReady /\ FreesTag THEN {tags_tail} ELSE {}))
<1>1. /\ TagFires(go) => TagPart(go) = <<TagCall>> /\ TagPart(go) # <<>> /\ TagPart(go)[1] = TagCall
      /\ ~TagFires(go) => TagPart(go) = <<>>
  BY DEF TagPart
<1> QED BY <1>1 DEF TagsCycle

\* The tag that is handed out next is not the tag of an instruction in flight.
LEMMA HeadIsNew ==
    ASSUME TypeOK, TagInv, tags_head # tags_tail
    PROVE  /\ TagAge(tags_head) = TagAge(last_issued_tag) + 1
           /\ \A i \in 1 .. InFlight : Instr(i).tag # tags_head
           /\ last_issued_tag # tags_head
<1>1. tags_tail \in Tag /\ last_issued_tag \in Tag /\ tags_head = NextTag(last_issued_tag)
  BY AgeType DEF TagInv, TagsInStep
<1>2. TagAge(tags_head) = TagAge(last_issued_tag) + 1
  BY <1>1, AgeIsRingAge, RingArithmetic
<1>3. TagAge(last_issued_tag) \in Nat
  BY <1>1, AgeType, TagsAssumption
<1>4. ASSUME NEW i \in 1 .. InFlight PROVE Instr(i).tag # tags_head
  <2>1. TagAge(Instr(i).tag) <= TagAge(last_issued_tag) /\ TagAge(Instr(i).tag) \in Nat
    BY ChainMonotone, AgeType
  <2> QED BY <1>2, <1>3, <2>1
<1> QED BY <1>2, <1>3, <1>4

\* The tag of an instruction in flight is never activated again.
LEMMA NotReactivated ==
    ASSUME TypeOK, TagInv, NEW go, NEW rb, TagsCycle(TagPart(go), rb, RetireReady /\ FreesTag),
           NEW i \in 1 .. InFlight, Instr(i).tag \in active_tags'
    PROVE  Instr(i).tag \in active_tags
<1>1. TagFires(go) /\ TagIncrement(TagCall) => tags_head # tags_tail
  BY TagRegisters
<1>2. TagFires(go) /\ TagIncrement(TagCall) => Instr(i).tag # tags_head
  BY <1>1, HeadIsNew
<1> QED BY <1>2, ActiveStep

\* The trap is taken with its report in the register.
LEMMA TrapHasReport ==
    ASSUME TypeOK, TagInv, TrapInv, fsm = "NORMAL", RetireReady, Trapping # {}
    PROVE  exception_valid /\ \E i \in DOMAIN rob : rob[i].rep /\ rob[i].tag \in active_tags
<1> DEFINE i == Min(Trapping)
<1>1. Trapping \subseteq Retiring
  BY DEF Trapping
<1>2. i \in Trapping /\ i \in Retiring
  BY <1>1, MinRetiring
<1>3. rob[i].rep
  BY DEF RetireReady, Flushing, RetireValid
<1>4. rob[i].tag \in active_tags
  <2>1. RetireTag(i) = rob[i].tag
    BY <1>2, TagsDerived DEF RetirementTagsExact
  <2>2. RetireTag(i) \in active_tags
    BY <1>2 DEF Trapping, TagActive, ActiveTags, Flushing
  <2> QED BY <2>1, <2>2
<1>5. i \in DOMAIN rob
  BY <1>2, RetiringInRob
<1> QED BY <1>3, <1>4, <1>5 DEF TrapInv, ReportsHeld

\* Reports, stall and state machine move together.
LEMMA TrapInvCycle ==
    ASSUME TypeInv, TypeOK', TagInv, TrapInv,
           NEW push, NEW go, NEW ex \in Executions, NEW rp \in Reports, NEW async,
           Cycle(push, go, ex, rp, async)
    PROVE  TrapInv'
<1>1. TypeOK /\ CounterExact
  BY DEF TypeInv
<1>2. /\ RobCycle(go, ex, rp) /\ ExceptionCycle(rp) /\ FrontendCycle(go, push, RollbackTag(ex))
      /\ TagsCycle(TagPart(go), RollbackTag(ex), RetireReady /\ FreesTag)
      /\ push # <<>> => CanPush(go)
  BY CycleParts
<1>3. \/ fsm = "TRAP_RESUME" /\ fsm' = "NORMAL" /\ Resuming
      \/ fsm = "NORMAL" /\ fsm' = "NORMAL"
      \/ /\ fsm = "NORMAL" /\ fsm' # "NORMAL" /\ RetireReady /\ Trapping # {}
         /\ fsm' = "TRAP_RESUME" => core_counter' = 0
      \/ /\ fsm = "TRAP_FLUSH" /\ fsm' # "NORMAL"
         /\ fsm' = "TRAP_RESUME" => core_counter' = 0
      \/ fsm = "TRAP_RESUME" /\ fsm' = "TRAP_RESUME" /\ ~Resuming /\ ~RetireReady
  <2>1. \/ RetireNormal(CommitSet(async))
        \/ RetireFlush
        \/ RetireResume
        \/ RetireNothing
    BY CycleParts
  <2>2. fsm \in {"NORMAL", "TRAP_FLUSH", "TRAP_RESUME"}
    BY <1>1 DEF TypeOK
  <2> QED BY <2>1, <2>2 DEF RetireNormal, RetireFlush, RetireResume, RetireNothing, TrapState, Resuming
<1>4. ReportsHeld'
  <2> SUFFICES ASSUME fsm' = "NORMAL",
                      NEW i \in DOMAIN rob', rob'[i].rep, rob'[i].tag \in active_tags'
               PROVE  exception_valid'
    BY DEF ReportsHeld
  <2> DEFINE r == Retired
             n == Len(rob)
  <2>1. /\ r \in Nat /\ n \in Nat /\ r <= n /\ DOMAIN rob = 1 .. n
        /\ \A k \in 1 .. n - r : rob'[k] = UpdatedEntry(k + r, ex, rp)
        /\ RenameFires(go) => rob'[Len(rob')] = RobEntry(instr_tag_buf[1], RollbackTag(ex) # NoTag)
        /\ Len(rob') = n - r + (IF RenameFires(go) THEN 1 ELSE 0)
        /\ DOMAIN rob' = 1 .. Len(rob')
    BY <1>1, <1>2, RobStep, RetiringInRob, LenProperties, InstrType DEF TypeOK
  <2>2. CASE i \in 1 .. n - r
    <3>1. i + r \in DOMAIN rob /\ i + r \in 1 .. n
      <4> HIDE DEF n, r
      <4> QED BY <2>1, <2>2
    <3>2. rob[i + r] \in Entry /\ rob'[i] = UpdatedEntry(i + r, ex, rp)
      BY <1>1, <2>1, <2>2, <3>1, RobElement
    <3>3. rob'[i].rep = (rob[i + r].rep \/ i + r \in rp) /\ rob'[i].tag = rob[i + r].tag
      BY <3>2 DEF UpdatedEntry, Entry, Flag
    <3>4. i + r \in 1 .. InFlight /\ Instr(i + r) = rob[i + r]
      BY <1>1, <3>1, InstrType DEF Instr
    <3>5. rob[i + r].tag \in active_tags
      BY <1>1, <1>2, <3>3, <3>4, NotReactivated
    <3>6. fsm = "NORMAL"
      <4>1. fsm = "TRAP_RESUME" => core_counter = 0
        BY DEF TrapInv, ResumeEmpty
      <4>2. core_counter # 0
        <5> DEFINE la == Len(alloc_rename_buf)
                   lt == Len(instr_tag_buf)
        <5>1. la \in Nat /\ lt \in Nat /\ core_counter = la + lt + n
          BY <1>1 DEF CounterExact, TypeOK, AtMostOne
        <5> HIDE DEF la, lt, n, r
        <5> QED BY <2>1, <2>2, <5>1
      <4> QED BY <1>3, <4>1, <4>2
    <3> QED BY <1>2, <3>1, <3>3, <3>5, <3>6 DEF ExceptionCycle
  <2>3. CASE i \notin 1 .. n - r
    <3>1. RenameFires(go) /\ i = Len(rob')
      <4> DEFINE n2 == Len(rob')
      <4> HIDE DEF n, r, n2
      <4> QED BY <2>1, <2>3 DEF n2
    <3> QED BY <2>1, <3>1 DEF RobEntry
  <2> QED BY <2>2, <2>3
<1>5. fsm' # "NORMAL" => exception_valid' /\ stalled_exception'
  <2> SUFFICES ASSUME fsm' # "NORMAL" PROVE exception_valid' /\ stalled_exception'
    OBVIOUS
  <2>1. CASE fsm = "NORMAL"
    <3>1. exception_valid /\ \E i \in DOMAIN rob : rob[i].rep /\ rob[i].tag \in active_tags
      BY <1>1, <1>3, <2>1, TrapHasReport
    <3> QED BY <1>2, <2>1, <3>1 DEF ExceptionCycle, FrontendCycle
  <2>2. CASE fsm # "NORMAL"
    <3>1. exception_valid /\ ~Resuming
      BY <1>3, <2>2 DEF TrapInv, TrapsStall, Resuming
    <3> QED BY <1>2, <2>2, <3>1 DEF ExceptionCycle, FrontendCycle
  <2> QED BY <2>1, <2>2
<1>6. stalled_exception' => output_pipe' = <<>>
  <2> SUFFICES ASSUME stalled_exception' PROVE output_pipe' = <<>>
    OBVIOUS
  <2>1. stalled_exception' = (exception_valid \/ Flushing)
    BY <1>2 DEF FrontendCycle
  <2>2. exception_valid \/ Flushing
    BY <2>1
  <2>3. CASE ~stalled_exception
    BY <1>2, <2>2, <2>3 DEF FrontendCycle, StallFlush
  <2>4. CASE stalled_exception
    <3>1. output_pipe = <<>> /\ push = <<>>
      BY <1>2, <2>4 DEF TrapInv, TrapsStall, CanPush
    <3> QED BY <1>2, <3>1 DEF FrontendCycle, PipeNext
  <2> QED BY <2>3, <2>4
<1>7. ResumeEmpty'
  <2> SUFFICES ASSUME fsm' = "TRAP_RESUME" PROVE core_counter' = 0
    BY DEF ResumeEmpty
  <2>1. CASE fsm = "TRAP_RESUME"
    <3>1. ~RetireReady /\ core_counter = 0 /\ output_pipe = <<>>
      BY <1>3, <2>1 DEF TrapInv, ResumeEmpty, TrapsStall
    <3>2. Retired = 0 /\ ~AllocFires(go)
      BY <3>1 DEF Retired, AllocFires
    <3>3. core_counter' = core_counter + (IF AllocFires(go) THEN 1 ELSE 0) - Retired
      BY DEF Cycle
    <3> QED BY <3>1, <3>2, <3>3
  <2>2. CASE fsm # "TRAP_RESUME"
    BY <1>3, <2>2
  <2> QED BY <2>1, <2>2
<1> QED BY <1>4, <1>5, <1>6, <1>7 DEF TrapInv, TrapsStall

\* With the types and the chain of tags, the trap invariant is inductive.
LEMMA TrapInvNext == TypeInv /\ TagInv /\ TrapInv /\ [Next]_vars => TrapInv'
<1> SUFFICES ASSUME TypeInv, TagInv, TrapInv, [Next]_vars PROVE TrapInv'
  OBVIOUS
<1>1. TypeOK'
  BY TypeInvNext DEF TypeInv
<1>2. CASE Next
  BY <1>1, <1>2, NextIsCycle, TrapInvCycle
<1>3. CASE UNCHANGED vars
  BY <1>3 DEF vars, cratVars, tagVars, frontVars, schedVars, backVars, TrapInv, ReportsHeld, TrapsStall, ResumeEmpty
<1> QED BY <1>2, <1>3

\* Nothing is reported or stalled at reset.
LEMMA TrapInvInit == Init => TrapInv
BY EmptySeq DEF Init, TrapInv, ReportsHeld, TrapsStall, ResumeEmpty

\* A trap resumes only in an empty core: when flush_restore rewrites the table no
\* instruction is left between the frontend's output and the ROB, for all sizes
\* and wherever markers and reports meet.
THEOREM TrapsResumeEmpty == Spec => []ResumesEmpty
<1>1. TypeInv /\ TrapInv => ResumesEmpty
  BY DEF TypeInv, TrapInv, ResumeEmpty, TrapsStall, ResumesEmpty
<1> QED BY <1>1, TypeInvInit, TypeInvNext, TagInvInit, TagInvNext, TrapInvInit, TrapInvNext, PTL DEF Spec

-----------------------------------------------------------------------------
(***************************************************************************)
(* Every physical register has exactly one owner: the free list, one       *)
(* logical register of the RRAT, or one instruction in flight.             *)
(***************************************************************************)
USE RegsAssumption

\* The register an instruction in the two scheduler buffers holds
AllocReg == IF alloc_rename_buf = <<>> THEN ZeroReg ELSE alloc_rename_buf[1].rp
TagReg == IF instr_tag_buf = <<>> THEN ZeroReg ELSE instr_tag_buf[1].rp

(***************************************************************************)
(* NoRegisterShared and NoRegisterLost, owner by owner.                    *)
(***************************************************************************)
RobOwners == \A i, j \in DOMAIN rob : rob[i].rp = rob[j].rp => i = j \/ rob[i].rp = ZeroReg
RratOwners == \A l, m \in LRegs : rrat[l] = rrat[m] => l = m \/ rrat[l] = ZeroReg
RobRratApart == \A i \in DOMAIN rob, l \in LRegs : rob[i].rp = rrat[l] => rrat[l] = ZeroReg
BuffersApart ==
    /\ AllocReg = TagReg => AllocReg = ZeroReg
    /\ \A i \in DOMAIN rob : rob[i].rp \in {AllocReg, TagReg} => rob[i].rp = ZeroReg
    /\ \A l \in LRegs : rrat[l] \in {AllocReg, TagReg} => rrat[l] = ZeroReg
FreeApart ==
    /\ \A i \in DOMAIN rob : rob[i].rp \notin free_regs
    /\ \A l \in LRegs : rrat[l] \notin free_regs
    /\ AllocReg \notin free_regs /\ TagReg \notin free_regs
AllOwned ==
    \A r \in PRegs : \/ r \in free_regs \cup {AllocReg, TagReg}
                     \/ \E i \in DOMAIN rob : r = rob[i].rp
                     \/ \E l \in LRegs : r = rrat[l]
Ownership == RobOwners /\ RratOwners /\ RobRratApart /\ BuffersApart /\ FreeApart /\ AllOwned

\* The two forms of the invariant are the same.
LEMMA OwnershipForms ==
    ASSUME TypeOK
    PROVE  Ownership <=> NoRegisterShared /\ NoRegisterLost
<1>1. ZeroReg \notin free_regs
  BY DEF TypeOK
<1>2. /\ DOMAIN alloc_rename_buf = IF alloc_rename_buf = <<>> THEN {} ELSE {1}
      /\ DOMAIN instr_tag_buf = IF instr_tag_buf = <<>> THEN {} ELSE {1}
  BY PipeElement DEF TypeOK
<1>3. BufferRegs \cup {ZeroReg} = {AllocReg, TagReg, ZeroReg}
  BY <1>2 DEF BufferRegs, AllocReg, TagReg
<1>4. (\A i \in DOMAIN alloc_rename_buf, j \in DOMAIN instr_tag_buf :
          alloc_rename_buf[i].rp = instr_tag_buf[j].rp => alloc_rename_buf[i].rp = ZeroReg)
      <=> (AllocReg = TagReg => AllocReg = ZeroReg)
  BY <1>2 DEF AllocReg, TagReg
<1>5. NoRegisterLost <=> AllOwned
  BY <1>3 DEF NoRegisterLost, AllOwned, RobRegs, CommittedRegs
<1>6. (RobRegs \cap CommittedRegs \subseteq {ZeroReg}) <=> RobRratApart
  BY DEF RobRegs, CommittedRegs, RobRratApart
<1>7. (BufferRegs \cap (RobRegs \cup CommittedRegs) \subseteq {ZeroReg})
      <=> (/\ \A i \in DOMAIN rob : rob[i].rp \in {AllocReg, TagReg} => rob[i].rp = ZeroReg
           /\ \A l \in LRegs : rrat[l] \in {AllocReg, TagReg} => rrat[l] = ZeroReg)
  BY <1>3 DEF RobRegs, CommittedRegs
<1>8. (free_regs \cap (RobRegs \cup CommittedRegs \cup BufferRegs) = {}) <=> FreeApart
  <2>1. BufferRegs \subseteq {AllocReg, TagReg, ZeroReg} /\ {AllocReg, TagReg} \subseteq BufferRegs \cup {ZeroReg}
    BY <1>3
  <2> QED BY <1>1, <2>1 DEF RobRegs, CommittedRegs, FreeApart
<1> QED BY <1>4, <1>5, <1>6, <1>7, <1>8 DEF Ownership, NoRegisterShared, RobOwners, RratOwners, BuffersApart

-----------------------------------------------------------------------------
(***************************************************************************)
(* The retirement: what it commits and what it releases.                   *)
(***************************************************************************)

\* The committed mapping of a logical register is the old one, or that of the
\* last committed writer.
LEMMA CommittedValue ==
    ASSUME TypeOK, NEW C, C \subseteq Retiring, NEW l \in LRegs
    PROVE  \/ /\ \A i \in C : rob[i].rl # l
              /\ Committed(C)[l] = rrat[l]
           \/ \E j \in C : /\ rob[j].rl = l
                           /\ Committed(C)[l] = rob[j].rp
                           /\ \A i \in C : rob[i].rl = l => i <= j
<1> DEFINE W == {i \in C : rob[i].rl = l}
<1>1. Committed(C)[l] = IF W # {} THEN rob[Max(W)].rp ELSE rrat[l]
  BY DEF Committed
<1>2. W # {} => Max(W) \in W /\ \A y \in W : y <= Max(W)
  <2>1. W \subseteq Retiring OBVIOUS
  <2> HIDE DEF W
  <2> QED BY <2>1, MaxRetiring
<1>3. CASE W = {}
  BY <1>1, <1>3
<1>4. CASE W # {}
  <2> DEFINE j == Max(W)
  <2>1. j \in C /\ rob[j].rl = l /\ \A i \in C : rob[i].rl = l => i <= j
    BY <1>2, <1>4
  <2>2. Committed(C)[l] = rob[j].rp
    BY <1>1, <1>4
  <2> HIDE DEF j
  <2> QED BY <2>1, <2>2
<1> QED BY <1>3, <1>4

\* The mapping a commit releases is the committed one, or that of the writer
\* right before it among the committed ones.
LEMMA OldRegValue ==
    ASSUME TypeOK, NEW C, C \subseteq Retiring, NEW i \in C
    PROVE  \/ /\ \A k \in C : k < i => rob[k].rl # rob[i].rl
              /\ OldReg(C, i) = rrat[rob[i].rl]
           \/ \E j \in C : /\ j < i /\ rob[j].rl = rob[i].rl
                           /\ OldReg(C, i) = rob[j].rp
                           /\ \A k \in C : k < i /\ rob[k].rl = rob[i].rl => k <= j
<1> DEFINE W == {j \in C : j < i /\ rob[j].rl = rob[i].rl}
<1>1. OldReg(C, i) = IF W # {} THEN rob[Max(W)].rp ELSE rrat[rob[i].rl]
  BY DEF OldReg
<1>2. W # {} => Max(W) \in W /\ \A y \in W : y <= Max(W)
  <2>1. W \subseteq Retiring OBVIOUS
  <2> HIDE DEF W
  <2> QED BY <2>1, MaxRetiring
<1>3. CASE W = {}
  BY <1>1, <1>3
<1>4. CASE W # {}
  <2> DEFINE j == Max(W)
  <2>1. j \in C /\ j < i /\ rob[j].rl = rob[i].rl
        /\ \A k \in C : k < i /\ rob[k].rl = rob[i].rl => k <= j
    BY <1>2, <1>4
  <2>2. OldReg(C, i) = rob[j].rp
    BY <1>1, <1>4
  <2> HIDE DEF j
  <2> QED BY <2>1, <2>2
<1> QED BY <1>3, <1>4

\* A committed writer that is not the last of its logical register is released
\* by the next one; a mapping that is overwritten is released by its first writer.
LEMMA NextWriter ==
    ASSUME TypeOK, NEW C, C \subseteq Retiring, NEW l \in LRegs
    PROVE  /\ \A i, k \in C : rob[i].rl = l /\ rob[k].rl = l /\ i < k =>
                 \E j \in C : OldReg(C, j) = rob[i].rp
           /\ \A k \in C : rob[k].rl = l => \E j \in C : OldReg(C, j) = rrat[l]
<1>0. C \subseteq Nat
  BY RetiringInRob DEF Retiring
<1>1. ASSUME NEW i \in C, NEW k \in C, rob[i].rl = l, rob[k].rl = l, i < k
      PROVE  \E j \in C : OldReg(C, j) = rob[i].rp
  <2> DEFINE W == {j \in C : i < j /\ rob[j].rl = l}
  <2>1. W \subseteq Retiring /\ W # {}
    BY <1>1
  <2>2. Min(W) \in W /\ \A y \in W : Min(W) <= y
    <3> HIDE DEF W
    <3> QED BY <2>1, MinRetiring
  <2> DEFINE j == Min(W)
  <2>3. j \in C /\ i < j /\ rob[j].rl = l /\ \A m \in C : i < m /\ rob[m].rl = l => j <= m
    BY <2>2
  <2> HIDE DEF j, W
  <2>4. \/ \A m \in C : m < j => rob[m].rl # rob[j].rl
        \/ \E m \in C : /\ m < j /\ rob[m].rl = rob[j].rl
                        /\ OldReg(C, j) = rob[m].rp
                        /\ \A n \in C : n < j /\ rob[n].rl = rob[j].rl => n <= m
    BY <2>3, OldRegValue
  <2>5. PICK m \in C : /\ m < j /\ rob[m].rl = l
                       /\ OldReg(C, j) = rob[m].rp
                       /\ \A n \in C : n < j /\ rob[n].rl = l => n <= m
    BY <1>1, <2>3, <2>4
  <2>6. m = i
    <3>1. i <= m BY <1>1, <2>3, <2>5
    <3>2. ~(i < m) BY <1>0, <2>3, <2>5
    <3> QED BY <1>0, <3>1, <3>2
  <2> QED BY <2>3, <2>5, <2>6
<1>2. ASSUME NEW k \in C, rob[k].rl = l
      PROVE  \E j \in C : OldReg(C, j) = rrat[l]
  <2> DEFINE W == {j \in C : rob[j].rl = l}
  <2>1. W \subseteq Retiring /\ W # {}
    BY <1>2
  <2>2. Min(W) \in W /\ \A y \in W : Min(W) <= y
    <3> HIDE DEF W
    <3> QED BY <2>1, MinRetiring
  <2> DEFINE j == Min(W)
  <2>3. j \in C /\ rob[j].rl = l /\ \A m \in C : rob[m].rl = l => j <= m
    BY <2>2
  <2> HIDE DEF j, W
  <2>4. \A m \in C : m < j => rob[m].rl # rob[j].rl
    BY <1>0, <2>3
  <2> QED BY <2>3, <2>4, OldRegValue
<1> QED BY <1>1, <1>2

(***************************************************************************)
(* The table and the releases of a cycle, whether or not anything retires. *)
(***************************************************************************)
NewRrat(C) == IF RetireReady THEN Committed(C) ELSE rrat
NewFree(C) == IF RetireReady THEN Released(C) ELSE {}
Gone == 1 .. Retired

\* The registers the retirement gives back are nobody's any more, and nothing
\* that left the ROB or the RRAT gets lost on the way.
LEMMA RetireOwnership ==
    ASSUME TypeOK, Ownership, NEW C, C \subseteq Retiring
    PROVE  /\ \A l, m \in LRegs : NewRrat(C)[l] = NewRrat(C)[m] => l = m \/ NewRrat(C)[l] = ZeroReg
           /\ \A l \in LRegs : NewRrat(C)[l] \notin NewFree(C)
           /\ \A l \in LRegs : \/ \E m \in LRegs : NewRrat(C)[l] = rrat[m]
                               \/ \E i \in Gone : NewRrat(C)[l] = rob[i].rp
           /\ \A r \in NewFree(C) : /\ r # ZeroReg
                                    /\ \/ \E m \in LRegs : r = rrat[m]
                                       \/ \E i \in Gone : r = rob[i].rp
           /\ \A i \in Gone : rob[i].rp # ZeroReg =>
                  rob[i].rp \in NewFree(C) \/ \E l \in LRegs : rob[i].rp = NewRrat(C)[l]
           /\ \A l \in LRegs : rrat[l] # ZeroReg =>
                  rrat[l] \in NewFree(C) \/ \E m \in LRegs : rrat[l] = NewRrat(C)[m]
<1>1. CASE ~RetireReady
  <2>1. NewRrat(C) = rrat /\ NewFree(C) = {} /\ Gone = {}
    BY <1>1 DEF NewRrat, NewFree, Gone, Retired
  <2> QED BY <2>1 DEF Ownership, RratOwners
<1>2. CASE RetireReady
  <2>0. /\ NewRrat(C) = Committed(C) /\ NewFree(C) = Released(C) /\ Gone = Retiring
        /\ Retiring \subseteq DOMAIN rob /\ C \subseteq Nat
        /\ \A i \in Retiring : rob[i].rl \in LRegs
    BY <1>2, RetiringInRob, RobElement DEF NewRrat, NewFree, Gone, Retired, Retiring, Entry
  <2>1. ASSUME NEW l \in LRegs, NEW m \in LRegs, Committed(C)[l] = Committed(C)[m]
        PROVE  l = m \/ Committed(C)[l] = ZeroReg
    <3>1. \/ Committed(C)[l] = rrat[l]
          \/ \E j \in C : rob[j].rl = l /\ Committed(C)[l] = rob[j].rp
      BY CommittedValue
    <3>2. \/ Committed(C)[m] = rrat[m]
          \/ \E j \in C : rob[j].rl = m /\ Committed(C)[m] = rob[j].rp
      BY CommittedValue
    <3> QED BY <2>0, <2>1, <3>1, <3>2 DEF Ownership, RobOwners, RratOwners, RobRratApart
  <2>2. ASSUME NEW r \in Released(C)
        PROVE  /\ r # ZeroReg
               /\ \/ \E i \in Retiring \ C : r = rob[i].rp
                  \/ \E i \in C : r = OldReg(C, i)
    BY DEF Released
  <2>3. ASSUME NEW l \in LRegs PROVE Committed(C)[l] \notin Released(C)
    <3> SUFFICES ASSUME Committed(C)[l] \in Released(C) PROVE FALSE
      OBVIOUS
    <3> DEFINE r == Committed(C)[l]
    <3>0. r # ZeroReg
      BY <2>2
    <3>1. \/ (\A i \in C : rob[i].rl # l) /\ r = rrat[l]
          \/ \E j \in C : rob[j].rl = l /\ r = rob[j].rp /\ \A i \in C : rob[i].rl = l => i <= j
      BY CommittedValue
    <3>2. CASE \E i \in Retiring \ C : r = rob[i].rp
      BY <2>0, <3>0, <3>1, <3>2 DEF Ownership, RobOwners, RobRratApart
    <3>3. ASSUME NEW i \in C, r = OldReg(C, i) PROVE FALSE
      <4>1. \/ r = rrat[rob[i].rl]
            \/ \E j \in C : j < i /\ rob[j].rl = rob[i].rl /\ r = rob[j].rp
        BY <3>3, OldRegValue
      <4>2. CASE r = rrat[rob[i].rl]
        BY <2>0, <3>0, <3>1, <4>2 DEF Ownership, RratOwners, RobRratApart
      <4>3. CASE \E j \in C : j < i /\ rob[j].rl = rob[i].rl /\ r = rob[j].rp
        BY <2>0, <3>0, <3>1, <4>3 DEF Ownership, RobOwners, RobRratApart
      <4> QED BY <4>1, <4>2, <4>3
    <3> QED BY <2>2, <3>2, <3>3
  <2>4. ASSUME NEW l \in LRegs
        PROVE  \/ \E m \in LRegs : Committed(C)[l] = rrat[m]
               \/ \E i \in Retiring : Committed(C)[l] = rob[i].rp
    BY CommittedValue
  <2>5. ASSUME NEW r \in Released(C)
        PROVE  \/ \E m \in LRegs : r = rrat[m]
               \/ \E i \in Retiring : r = rob[i].rp
    <3>1. ASSUME NEW i \in C
          PROVE  \/ OldReg(C, i) = rrat[rob[i].rl]
                 \/ \E j \in C : OldReg(C, i) = rob[j].rp
      BY OldRegValue
    <3> QED BY <2>0, <2>2, <3>1
  <2>6. ASSUME NEW r, r # ZeroReg, \E j \in C : OldReg(C, j) = r
        PROVE  r \in Released(C)
    BY <2>6 DEF Released
  <2>7. ASSUME NEW i \in Retiring, rob[i].rp # ZeroReg
        PROVE  rob[i].rp \in Released(C) \/ \E l \in LRegs : rob[i].rp = Committed(C)[l]
    <3>1. CASE i \notin C
      BY <2>7, <3>1 DEF Released
    <3>2. CASE i \in C
      <4> DEFINE l == rob[i].rl
      <4>1. l \in LRegs
        BY <2>0
      <4>2. PICK j \in C : rob[j].rl = l /\ Committed(C)[l] = rob[j].rp /\ \A k \in C : rob[k].rl = l => k <= j
        BY <3>2, <4>1, CommittedValue
      <4>3. CASE i = j
        BY <4>1, <4>2, <4>3
      <4>4. CASE i < j
        <5>1. \E k \in C : OldReg(C, k) = rob[i].rp
          BY <3>2, <4>1, <4>2, <4>4, NextWriter
        <5> QED BY <2>6, <2>7, <5>1
      <4>5. i <= j /\ i \in Nat /\ j \in Nat
        BY <2>0, <3>2, <4>2
      <4>6. i = j \/ i < j
        BY <4>5
      <4> QED BY <4>3, <4>4, <4>6
    <3> QED BY <3>1, <3>2
  <2>8. ASSUME NEW l \in LRegs, rrat[l] # ZeroReg
        PROVE  rrat[l] \in Released(C) \/ \E m \in LRegs : rrat[l] = Committed(C)[m]
    <3>1. CASE \A i \in C : rob[i].rl # l
      <4>1. Committed(C)[l] = rrat[l]
        BY <3>1, CommittedValue
      <4> QED BY <4>1
    <3>2. CASE \E i \in C : rob[i].rl = l
      <4>1. \E j \in C : OldReg(C, j) = rrat[l]
        BY <3>2, NextWriter
      <4> QED BY <2>6, <2>8, <4>1
    <3> QED BY <3>1, <3>2
  <2> QED BY <2>0, <2>1, <2>2, <2>3, <2>4, <2>5, <2>7, <2>8
<1> QED BY <1>1, <1>2

-----------------------------------------------------------------------------
(***************************************************************************)
(* The registers after a cycle, owner by owner.                            *)
(***************************************************************************)

\* The registers the two scheduler buffers own after a cycle come from the
\* buffers before it and the free list.
LEMMA BufferRegsStep ==
    ASSUME TypeOK, NEW go, NEW p, NEW rolls, SchedulerCycle(go, p, rolls)
    PROVE  /\ AllocReg' = IF AllocFires(go) THEN p ELSE IF TagFires(go) THEN ZeroReg ELSE AllocReg
           /\ TagReg' = IF TagFires(go) THEN AllocReg ELSE IF RenameFires(go) THEN ZeroReg ELSE TagReg
<1>1. /\ alloc_rename_buf # <<>> => alloc_rename_buf[1] \in Allocated
      /\ instr_tag_buf # <<>> => instr_tag_buf[1] \in Tagged
  BY PipeContents
<1>2. AllocReg' = IF AllocFires(go) THEN p ELSE IF TagFires(go) THEN ZeroReg ELSE AllocReg
  BY <1>1 DEF SchedulerCycle, PipeNext, AllocReg, Allocated
<1>3. TagFires(go) => alloc_rename_buf # <<>>
  BY DEF TagFires
<1>4. TagReg' = IF TagFires(go) THEN AllocReg ELSE IF RenameFires(go) THEN ZeroReg ELSE TagReg
  BY <1>1, <1>3 DEF SchedulerCycle, PipeNext, AllocReg, TagReg, Tagged
<1> QED BY <1>2, <1>4

\* The registers the ROB owns after a cycle: those of the entries that stay, and
\* that of the instruction put.
LEMMA RobRegsStep ==
    ASSUME TypeOK, NEW go, NEW ex \in Executions, NEW rp \in Reports, RobCycle(go, ex, rp)
    PROVE  /\ \A i \in DOMAIN rob' :
                 \/ i + Retired \in DOMAIN rob /\ rob'[i].rp = rob[i + Retired].rp
                 \/ i = Len(rob') /\ i + Retired = Len(rob) + 1 /\ RenameFires(go) /\ rob'[i].rp = TagReg
           /\ \A k \in DOMAIN rob : k \in Gone \/ \E i \in DOMAIN rob' : rob'[i].rp = rob[k].rp
           /\ RenameFires(go) => \E i \in DOMAIN rob' : rob'[i].rp = TagReg
           /\ Retired \in Nat /\ DOMAIN rob' \subseteq Nat
<1>1. /\ rob' \in Seq(Entry)
      /\ Len(rob') = Len(rob) - Retired + (IF RenameFires(go) THEN 1 ELSE 0)
      /\ \A i \in 1 .. Len(rob) - Retired : rob'[i] = UpdatedEntry(i + Retired, ex, rp)
      /\ RenameFires(go) => rob'[Len(rob')] = RobEntry(instr_tag_buf[1], RollbackTag(ex) # NoTag)
  BY RobStep
<1>2. /\ Len(rob) \in Nat /\ Retired \in Nat /\ Retired <= Len(rob)
      /\ DOMAIN rob = 1 .. Len(rob) /\ DOMAIN rob' = 1 .. Len(rob')
  BY <1>1, RetiringInRob, LenProperties DEF TypeOK
<1>3. ASSUME NEW k \in DOMAIN rob PROVE UpdatedEntry(k, ex, rp).rp = rob[k].rp
  <2>1. rob[k] \in Entry BY RobElement
  <2> QED BY <2>1 DEF UpdatedEntry, Entry
<1>4. \A i \in 1 .. Len(rob) - Retired : i + Retired \in DOMAIN rob /\ rob'[i].rp = rob[i + Retired].rp
  BY <1>1, <1>2, <1>3
<1>5. RenameFires(go) => rob'[Len(rob')].rp = TagReg
  BY <1>1 DEF RobEntry, TagReg, RenameFires
<1>6. ASSUME NEW i \in DOMAIN rob'
      PROVE  \/ i + Retired \in DOMAIN rob /\ rob'[i].rp = rob[i + Retired].rp
             \/ i = Len(rob') /\ i + Retired = Len(rob) + 1 /\ RenameFires(go) /\ rob'[i].rp = TagReg
  <2>1. CASE i \in 1 .. Len(rob) - Retired
    BY <2>1, <1>4
  <2>2. CASE i \notin 1 .. Len(rob) - Retired
    <3>1. RenameFires(go) /\ i = Len(rob') /\ i + Retired = Len(rob) + 1
      BY <1>1, <1>2, <2>2
    <3> QED BY <3>1, <1>5
  <2> QED BY <2>1, <2>2
<1>7. ASSUME NEW k \in DOMAIN rob, k \notin Gone PROVE \E i \in DOMAIN rob' : rob'[i].rp = rob[k].rp
  <2> DEFINE i == k - Retired
  <2>1. i \in 1 .. Len(rob) - Retired /\ i + Retired = k /\ i \in DOMAIN rob'
    BY <1>1, <1>2, <1>7 DEF Gone
  <2> QED BY <2>1, <1>4
<1>8. RenameFires(go) => Len(rob') \in DOMAIN rob'
  BY <1>1, <1>2
<1> QED BY <1>2, <1>5, <1>6, <1>7, <1>8

\* The table after a cycle, in every state of the retirement.
LEMMA RratStep ==
    ASSUME TypeOK, NEW async,
           \/ RetireNormal(CommitSet(async))
           \/ RetireFlush
           \/ RetireResume
           \/ RetireNothing
    PROVE  rrat' = NewRrat(CommitSet(async))
<1>1. CASE RetireNormal(CommitSet(async))
  BY <1>1 DEF RetireNormal, RetireEntries, NewRrat
<1>2. CASE RetireFlush
  <2>1. CommitSet(async) = {}
    BY <1>2 DEF RetireFlush, CommitSet, Flushing
  <2> QED BY <1>2, <2>1 DEF RetireFlush, RetireEntries, NewRrat
<1>3. CASE RetireResume
  <2>1. ~RetireReady
    BY <1>3 DEF RetireResume, Resuming, RetireReady, Flushing
  <2> QED BY <1>3, <2>1 DEF RetireResume, NewRrat
<1>4. CASE RetireNothing
  BY <1>4 DEF RetireNothing, NewRrat
<1> QED BY <1>1, <1>2, <1>3, <1>4

\* One cycle moves every register from one owner to exactly one owner.
LEMMA OwnershipCycle ==
    ASSUME TypeInv, Ownership,
           NEW push \in Deliveries, NEW go \in BOOLEAN, NEW ex \in Executions,
           NEW rp \in Reports, NEW async \in BOOLEAN,
           Cycle(push, go, ex, rp, async)
    PROVE  Ownership'
<1> DEFINE C == CommitSet(async)
<1>1. TypeOK /\ C \subseteq Retiring /\ free_regs \subseteq PRegs
  BY CommittingRetires DEF TypeInv, CommitSet, TypeOK
<1>2. rrat' = NewRrat(C)
  <2>1. RetireNormal(CommitSet(async)) \/ RetireFlush \/ RetireResume \/ RetireNothing
    BY DEF Cycle, CommitSet
  <2> QED BY <1>1, <2>1, RratStep
<1>3. PICK p \in IF AllocFires(go) /\ output_pipe[1].rl # 0 THEN free_regs ELSE {ZeroReg} :
          /\ free_regs' = (free_regs \ {p}) \cup NewFree(C)
          /\ SchedulerCycle(go, p, RollbackTag(ex) # NoTag)
  BY DEF Cycle, RegistersCycle, CommitSet, NewFree
<1>4. /\ AllocReg' = IF AllocFires(go) THEN p ELSE IF TagFires(go) THEN ZeroReg ELSE AllocReg
      /\ TagReg' = IF TagFires(go) THEN AllocReg ELSE IF RenameFires(go) THEN ZeroReg ELSE TagReg
  BY <1>1, <1>3, BufferRegsStep
<1>5. /\ \A i \in DOMAIN rob' :
            \/ i + Retired \in DOMAIN rob /\ rob'[i].rp = rob[i + Retired].rp
            \/ i = Len(rob') /\ i + Retired = Len(rob) + 1 /\ RenameFires(go) /\ rob'[i].rp = TagReg
      /\ \A k \in DOMAIN rob : k \in Gone \/ \E i \in DOMAIN rob' : rob'[i].rp = rob[k].rp
      /\ RenameFires(go) => \E i \in DOMAIN rob' : rob'[i].rp = TagReg
      /\ Retired \in Nat /\ DOMAIN rob' \subseteq Nat
  <2>1. RobCycle(go, ex, rp)
    BY DEF Cycle
  <2> QED BY <1>1, <2>1, RobRegsStep
<1>6. /\ \A l, m \in LRegs : rrat'[l] = rrat'[m] => l = m \/ rrat'[l] = ZeroReg
      /\ \A l \in LRegs : rrat'[l] \notin NewFree(C)
      /\ \A l \in LRegs : \/ \E m \in LRegs : rrat'[l] = rrat[m]
                          \/ \E i \in Gone : rrat'[l] = rob[i].rp
      /\ \A r \in NewFree(C) : /\ r # ZeroReg
                               /\ \/ \E m \in LRegs : r = rrat[m]
                                  \/ \E i \in Gone : r = rob[i].rp
      /\ \A i \in Gone : rob[i].rp # ZeroReg =>
            rob[i].rp \in NewFree(C) \/ \E l \in LRegs : rob[i].rp = rrat'[l]
      /\ \A l \in LRegs : rrat[l] # ZeroReg =>
            rrat[l] \in NewFree(C) \/ \E m \in LRegs : rrat[l] = rrat'[m]
  <2> HIDE DEF C
  <2> QED BY <1>1, <1>2, RetireOwnership
<1>7. /\ Gone \subseteq DOMAIN rob
      /\ \A i \in DOMAIN rob' : i + Retired \notin Gone
      /\ \A i, j \in DOMAIN rob' : i + Retired = j + Retired => i = j
  <2>1. DOMAIN rob = 1 .. Len(rob) /\ Len(rob) \in Nat /\ Retired <= Len(rob)
    BY <1>1, LenProperties, RetiringInRob DEF TypeOK
  <2>2. DOMAIN rob' = 1 .. Len(rob')
    BY TypeInvCycle, LenProperties DEF TypeInv, TypeOK
  <2>3. \A i \in DOMAIN rob' : i \in Nat /\ i >= 1
    BY <1>5, <2>2
  <2> QED BY <1>5, <2>1, <2>3 DEF Gone
<1>8. /\ p \in free_regs \/ p = ZeroReg
      /\ p # ZeroReg => AllocFires(go)
  BY <1>3
<1>9. TagFires(go) => TagReg = ZeroReg \/ RenameFires(go)
  BY DEF TagFires, TagReg
<1>10. AllocFires(go) => AllocReg = ZeroReg \/ TagFires(go)
  BY DEF AllocFires, AllocReg
<1> HIDE DEF C
<1>11. RobOwners'
  <2> SUFFICES ASSUME NEW i \in DOMAIN rob', NEW j \in DOMAIN rob', rob'[i].rp = rob'[j].rp
               PROVE  i = j \/ rob'[i].rp = ZeroReg
    BY DEF RobOwners
  <2> DEFINE Old(k) == k + Retired \in DOMAIN rob /\ rob'[k].rp = rob[k + Retired].rp
             New(k) == k = Len(rob') /\ rob'[k].rp = TagReg
  <2>1. (Old(i) \/ New(i)) /\ (Old(j) \/ New(j))
    BY <1>5
  <2>2. CASE Old(i) /\ Old(j)
    <3>1. i + Retired = j + Retired \/ rob[i + Retired].rp = ZeroReg
      BY <2>2 DEF Ownership, RobOwners
    <3> QED BY <1>7, <2>2, <3>1
  <2>3. CASE New(i) /\ New(j)
    BY <2>3
  <2>4. CASE Old(i) /\ New(j)
    BY <2>4 DEF Ownership, BuffersApart
  <2>5. CASE New(i) /\ Old(j)
    BY <2>5 DEF Ownership, BuffersApart
  <2> QED BY <2>1, <2>2, <2>3, <2>4, <2>5
<1>12. RratOwners'
  BY <1>6 DEF RratOwners
<1>13. RobRratApart'
  <2> SUFFICES ASSUME NEW i \in DOMAIN rob', NEW l \in LRegs, rob'[i].rp = rrat'[l]
               PROVE  rrat'[l] = ZeroReg
    BY DEF RobRratApart
  <2>1. (\E m \in LRegs : rrat'[l] = rrat[m]) \/ (\E g \in Gone : rrat'[l] = rob[g].rp)
    BY <1>6
  <2>2. CASE i + Retired \in DOMAIN rob /\ rob'[i].rp = rob[i + Retired].rp
    <3>1. i + Retired \notin Gone /\ Gone \subseteq DOMAIN rob
      BY <1>7
    <3> QED BY <2>1, <2>2, <3>1 DEF Ownership, RobOwners, RobRratApart
  <2>3. CASE rob'[i].rp = TagReg
    BY <1>7, <2>1, <2>3 DEF Ownership, BuffersApart
  <2> QED BY <1>5, <2>2, <2>3
<1>14. BuffersApart'
  BY <1>4, <1>5, <1>6, <1>7, <1>8, <1>9, <1>10 DEF Ownership, BuffersApart, FreeApart
<1>15. FreeApart'
  <2>1. ASSUME NEW i \in DOMAIN rob' PROVE rob'[i].rp \notin free_regs'
    <3>1. CASE i + Retired \in DOMAIN rob /\ rob'[i].rp = rob[i + Retired].rp
      <4>1. i + Retired \notin Gone /\ Gone \subseteq DOMAIN rob
        BY <1>7
      <4>2. rob[i + Retired].rp \notin free_regs
        BY <3>1 DEF Ownership, FreeApart
      <4>3. rob[i + Retired].rp \notin NewFree(C)
        BY <1>6, <3>1, <4>1 DEF Ownership, RobOwners, RobRratApart
      <4> QED BY <1>3, <3>1, <4>2, <4>3
    <3>2. CASE rob'[i].rp = TagReg
      <4>1. TagReg \notin free_regs
        BY DEF Ownership, FreeApart
      <4>2. TagReg \notin NewFree(C)
        BY <1>6, <1>7 DEF Ownership, BuffersApart
      <4> QED BY <1>3, <3>2, <4>1, <4>2
    <3> QED BY <1>5, <3>1, <3>2
  <2>2. ASSUME NEW l \in LRegs PROVE rrat'[l] \notin free_regs'
    <3>1. rrat'[l] \notin free_regs
      BY <1>6, <1>7 DEF Ownership, FreeApart
    <3> QED BY <1>3, <1>6, <3>1
  <2>3. ASSUME NEW r \in {AllocReg, TagReg, p, ZeroReg}, r \in free_regs => r = p
        PROVE  r \notin free_regs'
    <3>1. r \notin NewFree(C)
      BY <1>1, <1>6, <1>7, <1>8 DEF Ownership, BuffersApart, FreeApart
    <3> QED BY <1>3, <2>3, <3>1
  <2>4. ZeroReg \notin free_regs /\ AllocReg \notin free_regs /\ TagReg \notin free_regs
    BY <1>1 DEF Ownership, FreeApart
  <2>5. AllocReg' \notin free_regs' /\ TagReg' \notin free_regs'
    BY <1>4, <2>3, <2>4
  <2> QED BY <2>1, <2>2, <2>5 DEF FreeApart
<1>16. AllOwned'
  BY <1>3, <1>4, <1>5, <1>6, <1>8, <1>9, <1>10 DEF Ownership, AllOwned
<1> QED BY <1>11, <1>12, <1>13, <1>14, <1>15, <1>16 DEF Ownership

\* At reset every allocatable register is in the free list.
LEMMA OwnershipInit == Init => Ownership
BY DEF Init, Ownership, RobOwners, RratOwners, RobRratApart, BuffersApart, FreeApart, AllOwned,
       AllocReg, TagReg, ZeroRAT

(***************************************************************************)
(* Ownership is inductive relative to the types: it needs nothing of the   *)
(* tags, so it holds whatever the path and trap logic decides to commit.   *)
(***************************************************************************)
RegisterInv == TypeInv /\ NoRegisterShared /\ NoRegisterLost

\* Together with the types, register ownership is inductive.
LEMMA RegisterInvNext == RegisterInv /\ [Next]_vars => RegisterInv'
<1> SUFFICES ASSUME RegisterInv, [Next]_vars PROVE RegisterInv'
  OBVIOUS
<1>1. TypeInv /\ TypeInv' /\ TypeOK /\ TypeOK' /\ Ownership
  BY TypeInvNext, OwnershipForms DEF RegisterInv, TypeInv
<1>2. CASE Next
  <2>1. Ownership'
    BY <1>1, <1>2, NextIsCycle, OwnershipCycle
  <2>2. TypeOK' => (Ownership' <=> NoRegisterShared' /\ NoRegisterLost')
    BY OwnershipForms, PTL
  <2> QED BY <1>1, <2>1, <2>2 DEF RegisterInv
<1>3. CASE UNCHANGED vars
  BY <1>1, <1>3 DEF vars, schedVars, backVars, RegisterInv, NoRegisterShared, NoRegisterLost,
                    RobRegs, CommittedRegs, BufferRegs
<1> QED BY <1>2, <1>3

\* No physical register ever has two owners and none is lost, for every number
\* of registers, tags, checkpoints, ROB entries and every retirement width.
THEOREM RegistersConserved == Spec => [](NoRegisterShared /\ NoRegisterLost)
<1>1. Init => RegisterInv
  <2> SUFFICES ASSUME Init PROVE RegisterInv
    OBVIOUS
  <2>1. TypeInv /\ TypeOK /\ Ownership
    BY TypeInvInit, OwnershipInit DEF TypeInv
  <2> QED BY <2>1, OwnershipForms DEF RegisterInv
<1>2. RegisterInv => NoRegisterShared /\ NoRegisterLost
  BY DEF RegisterInv
<1> QED BY <1>1, <1>2, RegisterInvNext, PTL DEF Spec

\* The core cannot run out of physical registers by leaking them: each one is
\* free, holds a committed value or belongs to an instruction in flight.
THEOREM RegistersNeverLost == Spec => []NoRegisterLost
<1>1. NoRegisterShared /\ NoRegisterLost => NoRegisterLost
  OBVIOUS
<1> QED BY <1>1, RegistersConserved, PTL
=============================================================================
