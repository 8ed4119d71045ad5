--------------------------- MODULE RollbackProofs ---------------------------
(***************************************************************************)
(* The rollback protocol: tags tell the valid path from the wrong one,     *)
(* checkpoints are where the tags are, and tables are restored right.      *)
(***************************************************************************)
EXTENDS TagProofs, FiniteSetTheorems, FunctionTheorems

(***************************************************************************)
(* Speculation tags tell the valid path from the wrong one: the tag of an  *)
(* instruction is inactive exactly when an older branch rolled back after  *)
(* the instruction was fetched.  The proof is for the frontend the code    *)
(* describes, in which a stall flush does not drop the first instruction   *)
(* after a rollback (MarkerRace is FALSE).                                 *)
(***************************************************************************)
(***************************************************************************)
(* The invariant.  Tags: wrong-path instructions have inactive tags, active*)
(* tags are allocated, a branch of the valid path is the last instruction  *)
(* of its tag, and the next instruction gets a tag of the current path.    *)
(***************************************************************************)
WrongInactive == \A i \in 1 .. InFlight : Instr(i).wrong <=> Instr(i).tag \notin active_tags
ActiveAllocated == \A u \in active_tags : TagAge(u) <= TagAge(last_issued_tag)
BranchEndsTag ==
    \A i \in 1 .. InFlight :
        Instr(i).br /\ ~Instr(i).wrong => IF i < InFlight THEN Instr(i + 1).inc ELSE next_tag_increment
IssuedOnPath ==
    IF rollback_just_started THEN last_issued_tag \notin active_tags \/ next_tag_increment
    ELSE last_issued_tag \in active_tags
PathTags == WrongInactive /\ ActiveAllocated /\ BranchEndsTag /\ IssuedOnPath

(***************************************************************************)
(* Rollbacks: until the new path begins nothing is younger than the branch *)
(* that was rolled back to, and that branch does not roll back again.      *)
(***************************************************************************)
TargetYoungest ==
    rollback_just_started =>
        \A u \in active_tags : rollback_target_tag \in active_tags /\ TagAge(u) <= TagAge(rollback_target_tag)
RolledBackOnce ==
    rollback_just_started =>
        \A i \in DOMAIN rob : rob[i].br /\ rob[i].tag = rollback_target_tag /\ ~rob[i].wrong
                                  => rob[i].exe \/ rob[i].done

(***************************************************************************)
(* Markers: while the CRAT waits for the new path, exactly the first       *)
(* instruction of it carries the tag that was rolled back to.              *)
(***************************************************************************)
Marked(q) == q # <<>> /\ q[1].rb # NoTag
OldAlloc == alloc_rename_buf = <<>> \/ alloc_rename_buf[1].wrong
MarkerInTagger == rollback_tagger = rollback_target_tag /\ output_pipe = <<>> /\ OldAlloc
MarkerInPipe ==
    /\ rollback_tagger = NoTag
    /\ output_pipe # <<>> /\ output_pipe[1].rb = rollback_target_tag
    /\ OldAlloc
MarkerInBuf ==
    /\ rollback_tagger = NoTag
    /\ ~Marked(output_pipe)
    /\ ~OldAlloc /\ alloc_rename_buf[1].rb = rollback_target_tag
NoMarker == rollback_tagger = NoTag /\ ~Marked(output_pipe) /\ ~Marked(alloc_rename_buf)
OneMarker ==
    IF rollback_just_started THEN MarkerInTagger \/ MarkerInPipe \/ MarkerInBuf ELSE NoMarker
OldMarker ==
    alloc_rename_buf # <<>> /\ alloc_rename_buf[1].wrong =>
        /\ rollback_just_started
        /\ alloc_rename_buf[1].rb # rollback_target_tag
        /\ alloc_rename_buf[1].rb \notin active_tags
FlushKeepsMarker == StallFlush => ~Marked(output_pipe)
Markers == OneMarker /\ OldMarker /\ FlushKeepsMarker

(***************************************************************************)
(* The FRAT lock: closed for the wrong path, open for the first            *)
(* instruction of the new one.                                             *)
(***************************************************************************)
LockInv ==
    /\ rollback_just_started => frat_lock /\ frat_unlock_tag = NoTag
    /\ ~rollback_just_started /\ frat_lock =>
           instr_tag_buf # <<>> /\ instr_tag_buf[1].tag = frat_unlock_tag
    /\ instr_tag_buf # <<>> => (instr_tag_buf[1].wrong <=> rollback_just_started)

PathInv == PathTags /\ TargetYoungest /\ RolledBackOnce /\ Markers /\ LockInv

\* The invariant says that the tags track the path.
LEMMA PathInvTracks ==
    ASSUME TypeOK, PathInv
    PROVE  TagsTrackPath
<1>1. ASSUME NEW i \in DOMAIN rob PROVE rob[i].wrong <=> rob[i].tag \notin active_tags
  <2>1. i \in 1 .. InFlight /\ i <= Len(rob)
    BY InstrType
  <2> QED BY <2>1 DEF PathInv, PathTags, WrongInactive, Instr
<1>2. ASSUME NEW i \in DOMAIN instr_tag_buf
      PROVE  LET r == instr_tag_buf[i]
             IN (r.wrong <=> r.tag \notin active_tags) /\ (r.wrong <=> ~TagValid(r.tag))
  <2>1. i = 1 /\ instr_tag_buf # <<>> /\ instr_tag_buf[1] \in Tagged
    BY PipeElement DEF TypeOK
  <2>2. InFlight \in 1 .. InFlight /\ ~(InFlight <= Len(rob))
    <3> DEFINE n == Len(rob)
               m == InFlight
    <3>1. n \in Nat /\ m = n + 1
      BY <2>1, InstrType
    <3> HIDE DEF n, m
    <3>2. m \in 1 .. m /\ ~(m <= n)
      BY <3>1
    <3> QED BY <3>2 DEF n, m
  <2>3. Instr(InFlight) = instr_tag_buf[1]
    BY <2>2 DEF Instr
  <2>4. instr_tag_buf[1].wrong <=> instr_tag_buf[1].tag \notin active_tags
    BY <2>2, <2>3 DEF PathInv, PathTags, WrongInactive
  <2>5. instr_tag_buf[1].tag \in Tag /\ NoTag \notin Tag
    BY <2>1, TagsAssumption DEF Tagged, Tag, NoTag
  <2>6. instr_tag_buf[1].wrong <=> ~TagValid(instr_tag_buf[1].tag)
    BY <2>1, <2>5 DEF PathInv, LockInv, TagValid
  <2> QED BY <2>1, <2>4, <2>6
<1> QED BY <1>1, <1>2 DEF TagsTrackPath

-----------------------------------------------------------------------------
(***************************************************************************)
(* What a cycle does to the buffers.                                       *)
(***************************************************************************)

\* The instruction between allocation and tagging.
LEMMA AllocStep ==
    ASSUME TypeOK, NEW go, NEW p, NEW rolls \in BOOLEAN, SchedulerCycle(go, p, rolls)
    PROVE  /\ AllocFires(go) => /\ alloc_rename_buf' # <<>>
                                /\ alloc_rename_buf'[1].rb = output_pipe[1].rb
                                /\ alloc_rename_buf'[1].wrong = rolls
           /\ ~AllocFires(go) /\ TagFires(go) => alloc_rename_buf' = <<>>
           /\ ~AllocFires(go) /\ ~TagFires(go) =>
                 /\ alloc_rename_buf = <<>> => alloc_rename_buf' = <<>>
                 /\ alloc_rename_buf # <<>> =>
                       /\ alloc_rename_buf' # <<>>
                       /\ alloc_rename_buf'[1].rb = alloc_rename_buf[1].rb
                       /\ alloc_rename_buf'[1].wrong = (alloc_rename_buf[1].wrong \/ rolls)
<1>1. alloc_rename_buf # <<>> => alloc_rename_buf[1] \in Allocated
  BY PipeContents
<1>2. AllocFires(go) => alloc_rename_buf' =
          <<[rl |-> output_pipe[1].rl, br |-> output_pipe[1].br, rb |-> output_pipe[1].rb, rp |-> p, wrong |-> rolls]>>
  BY DEF SchedulerCycle, PipeNext
<1>3. ~AllocFires(go) /\ TagFires(go) => alloc_rename_buf' = <<>>
  BY DEF SchedulerCycle, PipeNext
<1>4. ~AllocFires(go) /\ ~TagFires(go) => alloc_rename_buf' =
          IF rolls /\ alloc_rename_buf # <<>>
          THEN <<[alloc_rename_buf[1] EXCEPT !.wrong = TRUE]>> ELSE alloc_rename_buf
  BY DEF SchedulerCycle, PipeNext
<1>5. CASE AllocFires(go)
  BY <1>2, <1>5
<1>6. CASE ~AllocFires(go) /\ TagFires(go)
  BY <1>3, <1>6
<1>7. CASE ~AllocFires(go) /\ ~TagFires(go)
  <2>1. CASE alloc_rename_buf = <<>>
    BY <1>4, <1>7, <2>1
  <2>2. CASE alloc_rename_buf # <<>> /\ rolls
    <3>1. alloc_rename_buf' = <<[alloc_rename_buf[1] EXCEPT !.wrong = TRUE]>>
      BY <1>4, <1>7, <2>2
    <3>2. alloc_rename_buf' # <<>> /\ alloc_rename_buf'[1] = [alloc_rename_buf[1] EXCEPT !.wrong = TRUE]
      BY <3>1
    <3> QED BY <1>1, <1>7, <2>2, <3>2 DEF Allocated, Flag
  <2>3. CASE alloc_rename_buf # <<>> /\ ~rolls
    <3>1. alloc_rename_buf' = alloc_rename_buf
      BY <1>4, <1>7, <2>3
    <3> QED BY <1>1, <1>7, <2>3, <3>1 DEF Allocated, Flag
  <2> QED BY <2>1, <2>2, <2>3
<1> QED BY <1>5, <1>6, <1>7

\* The instruction between tagging and renaming.
LEMMA TagBufStep ==
    ASSUME TypeOK, NEW go, NEW p, NEW rolls \in BOOLEAN, SchedulerCycle(go, p, rolls)
    PROVE  /\ TagFires(go) => /\ instr_tag_buf' # <<>>
                              /\ instr_tag_buf'[1].tag = OutTag(TagCall)
                              /\ instr_tag_buf'[1].wrong = (alloc_rename_buf[1].wrong \/ rolls)
           /\ ~TagFires(go) /\ RenameFires(go) => instr_tag_buf' = <<>>
           /\ ~TagFires(go) /\ ~RenameFires(go) =>
                 /\ instr_tag_buf = <<>> => instr_tag_buf' = <<>>
                 /\ instr_tag_buf # <<>> =>
                       /\ instr_tag_buf' # <<>>
                       /\ instr_tag_buf'[1].tag = instr_tag_buf[1].tag
                       /\ instr_tag_buf'[1].wrong = (instr_tag_buf[1].wrong \/ rolls)
<1>1. instr_tag_buf # <<>> => instr_tag_buf[1] \in Tagged
  BY PipeContents
<1>2. TagFires(go) =>
         /\ instr_tag_buf' # <<>>
         /\ instr_tag_buf'[1] =
             [rl |-> alloc_rename_buf[1].rl, br |-> alloc_rename_buf[1].br, rp |-> alloc_rename_buf[1].rp,
              tag |-> OutTag(TagCall), inc |-> TagIncrement(TagCall), cp |-> OutCheckpoint(TagCall),
              wrong |-> alloc_rename_buf[1].wrong \/ rolls]
  BY DEF SchedulerCycle, PipeNext
<1>3. ~TagFires(go) /\ RenameFires(go) => instr_tag_buf' = <<>>
  BY DEF SchedulerCycle, PipeNext
<1>4. ~TagFires(go) /\ ~RenameFires(go) => instr_tag_buf' =
          IF rolls /\ instr_tag_buf # <<>>
          THEN <<[instr_tag_buf[1] EXCEPT !.wrong = TRUE]>> ELSE instr_tag_buf
  BY DEF SchedulerCycle, PipeNext
<1>5. CASE TagFires(go)
  BY <1>2, <1>5
<1>6. CASE ~TagFires(go) /\ RenameFires(go)
  BY <1>3, <1>6
<1>7. CASE ~TagFires(go) /\ ~RenameFires(go)
  <2>1. CASE instr_tag_buf = <<>>
    BY <1>4, <1>7, <2>1
  <2>2. CASE instr_tag_buf # <<>> /\ rolls
    <3>1. instr_tag_buf' = <<[instr_tag_buf[1] EXCEPT !.wrong = TRUE]>>
      BY <1>4, <1>7, <2>2
    <3>2. instr_tag_buf' # <<>> /\ instr_tag_buf'[1] = [instr_tag_buf[1] EXCEPT !.wrong = TRUE]
      BY <3>1
    <3> QED BY <1>1, <1>7, <2>2, <3>2 DEF Tagged, Flag
  <2>3. CASE instr_tag_buf # <<>> /\ ~rolls
    <3>1. instr_tag_buf' = instr_tag_buf
      BY <1>4, <1>7, <2>3
    <3> QED BY <1>1, <1>7, <2>3, <3>1 DEF Tagged, Flag
  <2> QED BY <2>1, <2>2, <2>3
<1> QED BY <1>5, <1>6, <1>7

\* The branch that rolls back is in the ROB, has not rolled back before and does
\* not leave in this cycle.
LEMMA RollbackFacts ==
    ASSUME TypeOK, NEW ex \in Executions, RollbackTag(ex) # NoTag
    PROVE  /\ ex # <<>> /\ ex[1].at \in DOMAIN rob
           /\ ex[1].at \in 1 .. InFlight /\ Instr(ex[1].at) = rob[ex[1].at]
           /\ rob[ex[1].at].tag = RollbackTag(ex) /\ RollbackTag(ex) \in Tag
           /\ RollbackTag(ex) \in active_tags
           /\ rob[ex[1].at].br /\ ~rob[ex[1].at].exe /\ ~rob[ex[1].at].done
           /\ ex[1].at > Retired
<1>1. ex # <<>> /\ ex[1].mis /\ RollbackTag(ex) = rob[ex[1].at].tag
  BY DEF RollbackTag
<1>2. ex[1] \in Execution /\ CanExecute(ex[1])
  BY <1>1 DEF Executions
<1> DEFINE at == ex[1].at
           e == rob[at]
<1>3. at \in DOMAIN rob /\ ~e.done /\ ~e.exe /\ e.br /\ e.tag \in ActiveTags
  BY <1>1, <1>2 DEF Execution, CanExecute
<1>4. e.tag \in active_tags
  BY <1>3 DEF ActiveTags
<1>5. e.tag \in Tag
  BY <1>3, RobElement DEF Entry
<1>6. at \in 1 .. InFlight /\ Instr(at) = e
  BY <1>3, InstrType DEF Instr
<1>7. at > Retired
  <2>1. \A i \in Retiring : rob[i].done
    <3> DEFINE R == {q \in 0 .. RetireWidth : Retirable(q)}
    <3>1. 0 \in R BY SizesAssumption, InstrType DEF Retirable
    <3>2. R \in SUBSET (0 .. RetireWidth) /\ RetireWidth \in Nat BY SizesAssumption
    <3>3. Max(R) \in R
      <4> HIDE DEF R
      <4> QED BY <3>1, <3>2, MaxIsGreatest
    <3>4. Retirable(RetireCount) BY <3>3 DEF RetireCount
    <3> QED BY <3>4 DEF Retirable, Retiring
  <2>2. at \notin Retiring
    BY <1>3, <2>1
  <2>3. at \in Nat /\ at >= 1 /\ RetireCount \in Nat /\ Retired \in {0, RetireCount}
    BY <1>3, InstrType, RetiringInRob DEF Retired
  <2> QED BY <2>2, <2>3 DEF Retiring
<1> QED BY <1>1, <1>3, <1>4, <1>5, <1>6, <1>7

-----------------------------------------------------------------------------
(***************************************************************************)
(* The step whose parts the following lemmas are about.                    *)
(***************************************************************************)
PathStep(push, go, ex, rp, async) ==
    /\ TypeInv /\ TypeOK' /\ TagInv /\ TrapInv /\ TrapInv' /\ PathInv
    /\ ~MarkerRace
    /\ ex \in Executions /\ rp \in Reports
    /\ Cycle(push, go, ex, rp, async)

\* The first instruction of the new path is tagged.
Resumes(go) == TagFires(go) /\ TagResumes(TagCall)

\* The tagged instructions and the tag registers after the step.
LEMMA PathTagRegisters ==
    ASSUME NEW push, NEW go, NEW ex, NEW rp, NEW async, PathStep(push, go, ex, rp, async)
    PROVE  /\ InFlight' = InFlight - Retired + (IF TagFires(go) THEN 1 ELSE 0)
           /\ \A i \in 1 .. InFlight - Retired : Kept(i, ex)
           /\ TagFires(go) => \A n \in Nat : n = InFlight' => Joined(n, RollbackTag(ex) # NoTag)
           /\ tags_tail' = IF RetireReady /\ FreesTag THEN NextTag(tags_tail) ELSE tags_tail
           /\ last_issued_tag' = IF TagFires(go) THEN OutTag(TagCall) ELSE last_issued_tag
           /\ TagFires(go) /\ TagIncrement(TagCall) => tags_head # tags_tail
           /\ next_tag_increment' = IF TagFires(go) THEN OutCheckpoint(TagCall) ELSE next_tag_increment
           /\ active_tags' =
                 (active_tags \cup (IF TagFires(go) /\ TagIncrement(TagCall) /\ TagOnPath(TagCall)
                                    THEN {tags_head} ELSE {}))
                    \ (Invalidated(RollbackTag(ex)) \cup (IF RetireReady /\ FreesTag THEN {tags_tail} ELSE {}))
<1>1. /\ TypeOK /\ TypeOK' /\ TagInv /\ ex \in Executions /\ rp \in Reports
      /\ Cycle(push, go, ex, rp, async)
  BY DEF PathStep, TypeInv
<1>2. PICK p : SchedulerCycle(go, p, RollbackTag(ex) # NoTag)
  BY <1>1, CycleParts
<1>3. RobCycle(go, ex, rp) /\ TagsCycle(TagPart(go), RollbackTag(ex), RetireReady /\ FreesTag)
  BY <1>1, CycleParts
<1>4. /\ InFlight' = InFlight - Retired + (IF TagFires(go) THEN 1 ELSE 0)
      /\ \A i \in 1 .. InFlight - Retired : Kept(i, ex)
      /\ TagFires(go) => \A n \in Nat : n = InFlight' => Joined(n, RollbackTag(ex) # NoTag)
  BY <1>1, <1>2, <1>3, InFlightStep
<1>5. /\ tags_tail' = IF RetireReady /\ FreesTag THEN NextTag(tags_tail) ELSE tags_tail
      /\ last_issued_tag' = IF TagFires(go) THEN OutTag(TagCall) ELSE last_issued_tag
      /\ TagFires(go) /\ TagIncrement(TagCall) => tags_head # tags_tail
  BY <1>1, <1>3, TagRegisters
<1>6. next_tag_increment' = IF TagFires(go) THEN OutCheckpoint(TagCall) ELSE next_tag_increment
  <2>1. /\ TagFires(go) => TagPart(go) # <<>> /\ TagPart(go)[1] = TagCall
        /\ ~TagFires(go) => TagPart(go) = <<>>
    BY DEF TagPart
  <2> QED BY <1>3, <2>1 DEF TagsCycle
<1> QED BY <1>3, <1>4, <1>5, <1>6, ActiveStep

\* The rollback registers after the step.
LEMMA PathRollbackRegisters ==
    ASSUME NEW push, NEW go, NEW ex, NEW rp, NEW async, PathStep(push, go, ex, rp, async)
    PROVE  /\ rollback_just_started' =
                 (RollbackTag(ex) # NoTag \/ (rollback_just_started /\ ~Resumes(go)))
           /\ rollback_target_tag' = IF RollbackTag(ex) # NoTag THEN RollbackTag(ex) ELSE rollback_target_tag
           /\ frat_lock' = (RollbackTag(ex) # NoTag
                               \/ (frat_lock /\ ~(RenameFires(go) /\ TagValid(instr_tag_buf[1].tag))))
           /\ frat_unlock_tag' = IF RollbackTag(ex) # NoTag THEN NoTag
                                 ELSE IF Resumes(go) THEN OutTag(TagCall)
                                 ELSE IF frat_lock' THEN frat_unlock_tag ELSE NoTag
           /\ rollback_target_tag \in Tag /\ NoTag \notin Tag
<1>1. RollbackCycle(TagPart(go), RenamePart(go), RollbackTag(ex))
  BY CycleParts DEF PathStep
<1>2. /\ TagFires(go) => TagPart(go) # <<>> /\ TagPart(go)[1] = TagCall
      /\ ~TagFires(go) => TagPart(go) = <<>>
  BY DEF TagPart
<1>3. /\ RenameFires(go) => RenamePart(go) = instr_tag_buf /\ instr_tag_buf # <<>>
      /\ ~RenameFires(go) => RenamePart(go) = <<>>
  BY DEF RenamePart, RenameFires
<1>4. rollback_target_tag \in Tag
  BY DEF PathStep, TypeInv, TypeOK, CRATTypeOK
<1>5. NoTag \notin Tag
  BY TagsAssumption DEF Tag, NoTag
<1>6. (TagPart(go) # <<>> /\ TagResumes(TagPart(go)[1])) <=> Resumes(go)
  BY <1>2 DEF Resumes
<1>7. (RenamePart(go) # <<>> /\ TagValid(RenamePart(go)[1].tag))
          <=> (RenameFires(go) /\ TagValid(instr_tag_buf[1].tag))
  BY <1>3
<1>8. Resumes(go) => OutTag(TagPart(go)[1]) = OutTag(TagCall)
  BY <1>2 DEF Resumes
<1> QED BY <1>1, <1>4, <1>5, <1>6, <1>7, <1>8 DEF RollbackCycle

\* An instruction that is tagged has been fetched on the path that the CRAT
\* takes it to be on: the marker of a rollback reaches the tagging exactly with
\* the first instruction of the new path.
LEMMA AllocPath ==
    ASSUME NEW push, NEW go, NEW ex, NEW rp, NEW async, PathStep(push, go, ex, rp, async),
           TagFires(go)
    PROVE  /\ alloc_rename_buf[1].wrong <=> ~TagOnPath(TagCall)
           /\ ~TagOnPath(TagCall) <=> rollback_just_started /\ ~Resumes(go)
           /\ alloc_rename_buf # <<>> /\ alloc_rename_buf[1] \in Allocated
<1> DEFINE a == alloc_rename_buf[1]
<1>1. alloc_rename_buf # <<>> /\ a \in Allocated /\ TagReady(TagCall)
  BY PipeContents DEF PathStep, TypeInv, TagFires
<1>2. TagCall.rb = a.rb
  BY DEF TagCall
<1>3. rollback_target_tag \in Tag /\ NoTag \notin Tag
  BY PathRollbackRegisters
<1>4. OldMarker /\ OneMarker
  BY DEF PathStep, PathInv, Markers
<1>5. ASSUME a.wrong PROVE ~TagOnPath(TagCall)
  <2>1. rollback_just_started /\ a.rb # rollback_target_tag
    BY <1>1, <1>4, <1>5 DEF OldMarker
  <2> QED BY <1>2, <2>1 DEF TagOnPath, TagResumes, TargetValid
<1>6. ASSUME ~TagOnPath(TagCall), ~a.wrong PROVE FALSE
  <2>1. rollback_just_started /\ ~TagResumes(TagCall)
    BY <1>6 DEF TagOnPath
  <2>2. a.rb = rollback_target_tag
    BY <1>1, <1>4, <1>6, <2>1 DEF OneMarker, MarkerInTagger, MarkerInPipe, MarkerInBuf, OldAlloc
  <2>3. ~TagStall(TagCall) /\ TargetValid(TagCall)
    BY <1>1, <1>2, <1>3, <2>2 DEF TagReady, TargetValid
  <2> QED BY <2>1, <2>3 DEF TagStall, TagResumes
<1>7. a.wrong \in BOOLEAN
  BY <1>1 DEF Allocated, Flag
<1> QED BY <1>1, <1>5, <1>6, <1>7 DEF TagOnPath, Resumes

\* Everything younger than a branch of the valid path has a younger tag.
LEMMA YoungerThanBranch ==
    ASSUME TypeOK, TagInv, PathInv, NEW i \in 1 .. InFlight, Instr(i).br, ~Instr(i).wrong
    PROVE  /\ \A k \in i + 1 .. InFlight : TagAge(Instr(k).tag) > TagAge(Instr(i).tag)
           /\ \A k \in 1 .. i : TagAge(Instr(k).tag) <= TagAge(Instr(i).tag)
           /\ TagAge(last_issued_tag) > TagAge(Instr(i).tag) \/ next_tag_increment
           /\ TagAge(last_issued_tag) >= TagAge(Instr(i).tag)
<1> DEFINE m == InFlight
           A(k) == TagAge(Instr(k).tag)
           last == TagAge(last_issued_tag)
<1>1. m \in Nat /\ i \in 1 .. m /\ last \in Nat /\ \A k \in 1 .. m : A(k) \in Nat
  BY InstrType, AgeType, TagsAssumption
<1>2. \A k \in 1 .. m : A(k) <= last /\ \A j \in k .. m : A(k) <= A(j)
  BY ChainMonotone
<1>3. IF i < m THEN Instr(i + 1).inc ELSE next_tag_increment
  BY DEF PathInv, PathTags, BranchEndsTag
<1>4. CASE i < m
  <2>1. i + 1 \in 1 .. m /\ (i + 1) - 1 = i /\ i + 1 # 1
    <3> HIDE DEF m
    <3> QED BY <1>1, <1>4
  <2>2. A(i + 1) = A(i) + 1
    BY <1>3, <1>4, <2>1 DEF TagInv, TagChain, AgeBefore
  <2> HIDE DEF m, A, last
  <2>3. \A k \in i + 1 .. m : A(k) > A(i)
    BY <1>1, <1>2, <2>1, <2>2
  <2>4. last > A(i) /\ last >= A(i)
    BY <1>1, <1>2, <2>1, <2>2
  <2>5. \A k \in 1 .. i : A(k) <= A(i)
    BY <1>1, <1>2
  <2> QED BY <2>3, <2>4, <2>5 DEF m, A, last
<1>5. CASE ~(i < m)
  <2>1. next_tag_increment
    BY <1>3, <1>5
  <2> HIDE DEF m, A, last
  <2>2. \A k \in i + 1 .. m : A(k) > A(i)
    BY <1>1, <1>5
  <2>3. \A k \in 1 .. i : A(k) <= A(i)
    BY <1>1, <1>2
  <2>4. last >= A(i)
    BY <1>1, <1>2
  <2> QED BY <2>1, <2>2, <2>3, <2>4 DEF m, A, last
<1> QED BY <1>4, <1>5

\* What a rollback invalidates: the instructions younger than the branch and the
\* tags that follow the last issued one.
LEMMA RollbackAges ==
    ASSUME NEW push, NEW go, NEW ex, NEW rp, NEW async, PathStep(push, go, ex, rp, async),
           RollbackTag(ex) # NoTag
    PROVE  /\ \A k \in 1 .. InFlight : k > ex[1].at <=> Instr(k).tag \in Invalidated(RollbackTag(ex))
           /\ last_issued_tag \in Invalidated(RollbackTag(ex)) \/ next_tag_increment
           /\ TagAge(RollbackTag(ex)) <= TagAge(last_issued_tag)
           /\ TagAge(RollbackTag(ex)) >= FreeStep
<1> DEFINE at == ex[1].at
           m == InFlight
           A(k) == TagAge(Instr(k).tag)
           b == RollbackTag(ex)
           last == TagAge(last_issued_tag)
<1>1. TypeOK /\ TagInv /\ PathInv /\ ex \in Executions
  BY DEF PathStep, TypeInv
<1>2. /\ at \in 1 .. m /\ Instr(at) = rob[at] /\ rob[at].tag = b /\ b \in Tag /\ b \in active_tags
      /\ rob[at].br /\ at > Retired
  BY <1>1, RollbackFacts
<1>3. ~Instr(at).wrong
  BY <1>1, <1>2 DEF PathInv, PathTags, WrongInactive
<1>4. /\ \A k \in at + 1 .. m : A(k) > A(at)
      /\ \A k \in 1 .. at : A(k) <= A(at)
      /\ last > A(at) \/ next_tag_increment
      /\ last >= A(at)
  BY <1>1, <1>2, <1>3, YoungerThanBranch
<1>5. A(at) = TagAge(b) /\ m \in Nat /\ last_issued_tag \in Tag /\ last \in Nat
  BY <1>1, <1>2, InstrType, AgeType, TagsAssumption
<1>6. \A k \in 1 .. m : Instr(k).tag \in Tag /\ A(k) \in Nat
  BY <1>1, InstrType, AgeType
<1>7. \A u \in Tag : u \in Invalidated(b) <=> TagAge(u) > TagAge(b)
  BY DEF Invalidated
<1>8. A(at) >= FreeStep
  <2>1. at \in Retired + 1 .. m
    <3>1. Retired \in Nat BY <1>1, RetiringInRob
    <3> HIDE DEF at, m
    <3> QED BY <1>2, <1>5, <3>1
  <2> QED BY <1>1, <2>1, AgeAfterRetired
<1>9. ASSUME NEW k \in 1 .. m PROVE k > at <=> A(k) > A(at)
  <2> HIDE DEF at, m, A
  <2> QED BY <1>2, <1>4, <1>5, <1>6
<1>10. TagAge(b) <= last
  <2> DEFINE c == TagAge(b)
  <2>1. c \in Nat /\ last >= c
    BY <1>2, <1>4, <1>5, <1>6
  <2> HIDE DEF c, last
  <2>2. c <= last
    BY <1>5, <2>1
  <2> QED BY <2>2 DEF c, last
<1> QED BY <1>4, <1>5, <1>6, <1>7, <1>8, <1>9, <1>10

\* The tag handed out is active after the step if the instruction is on the path.
LEMMA OutTagActive ==
    ASSUME NEW push, NEW go, NEW ex, NEW rp, NEW async, PathStep(push, go, ex, rp, async),
           TagFires(go)
    PROVE  OutTag(TagCall) \in active_tags' <=> TagOnPath(TagCall) /\ RollbackTag(ex) = NoTag
<1> DEFINE b == RollbackTag(ex)
           last == TagAge(last_issued_tag)
<1>1. TypeOK /\ TagInv /\ PathTags /\ ex \in Executions
  BY DEF PathStep, TypeInv, PathInv
<1>2. /\ TagIncrement(TagCall) => tags_head # tags_tail
      /\ active_tags' =
            (active_tags \cup (IF TagIncrement(TagCall) /\ TagOnPath(TagCall) THEN {tags_head} ELSE {}))
               \ (Invalidated(b) \cup (IF RetireReady /\ FreesTag THEN {tags_tail} ELSE {}))
  BY PathTagRegisters
<1>3. tags_head \in Tag /\ last_issued_tag \in Tag /\ last \in Nat /\ b \in Tag \cup {NoTag}
  BY <1>1, AgeType, TagsAssumption, RollbackTagType
<1>4. b = NoTag => Invalidated(b) = {}
  BY DEF Invalidated
<1>5. CASE TagIncrement(TagCall)
  <2>1. TagAge(tags_head) = last + 1 /\ OutTag(TagCall) = tags_head /\ tags_head # tags_tail
    BY <1>1, <1>2, <1>5, HeadIsNew DEF OutTag
  <2>2. tags_head \notin active_tags
    <3> SUFFICES ASSUME tags_head \in active_tags PROVE FALSE
      OBVIOUS
    <3>1. TagAge(tags_head) <= last
      BY <1>1 DEF PathTags, ActiveAllocated
    <3> HIDE DEF last
    <3> QED BY <1>3, <2>1, <3>1
  <2>3. b # NoTag => tags_head \in Invalidated(b)
    <3> SUFFICES ASSUME b # NoTag PROVE TagAge(tags_head) > TagAge(b)
      BY <1>3 DEF Invalidated
    <3>1. TagAge(b) <= last /\ TagAge(b) \in Nat
      BY <1>1, <1>3, RollbackAges, AgeType, TagsAssumption
    <3>2. last + 1 > TagAge(b)
      <4> HIDE DEF last, b
      <4> QED BY <1>3, <3>1
    <3> QED BY <2>1, <3>2
  <2> QED BY <1>2, <1>4, <1>5, <2>1, <2>2, <2>3
<1>6. CASE ~TagIncrement(TagCall)
  <2>1. OutTag(TagCall) = last_issued_tag /\ ~next_tag_increment /\ ~TagResumes(TagCall)
    BY <1>6 DEF OutTag, TagIncrement
  <2>2. last_issued_tag \in active_tags <=> TagOnPath(TagCall)
    BY <1>1, <2>1 DEF PathTags, IssuedOnPath, TagOnPath
  <2>3. b # NoTag => last_issued_tag \in Invalidated(b)
    BY <2>1, RollbackAges
  <2>4. RetireReady /\ FreesTag => last_issued_tag # tags_tail
    <3> SUFFICES ASSUME RetireReady, FreesTag, last_issued_tag = tags_tail PROVE FALSE
      OBVIOUS
    <3>1. last >= 1
      BY <1>1, AgeAfterRetired DEF FreeStep
    <3>2. last = 0
      BY <1>3, AgeIsRingAge, RingArithmetic
    <3> QED BY <3>1, <3>2
  <2> QED BY <1>2, <1>4, <1>6, <2>1, <2>2, <2>3, <2>4
<1> QED BY <1>5, <1>6

\* The tag of an instruction that stays is active after the step if it was and
\* no rollback invalidates it.
LEMMA KeptActive ==
    ASSUME NEW push, NEW go, NEW ex, NEW rp, NEW async, PathStep(push, go, ex, rp, async),
           NEW k \in Retired + 1 .. InFlight
    PROVE  Instr(k).tag \in active_tags'
              <=> Instr(k).tag \in active_tags /\ ~(RollbackTag(ex) # NoTag /\ k > ex[1].at)
<1> DEFINE t == Instr(k).tag
           b == RollbackTag(ex)
<1>1. TypeOK /\ TagInv /\ ex \in Executions /\ Cycle(push, go, ex, rp, async)
  BY DEF PathStep, TypeInv
<1>2. k \in 1 .. InFlight
  <2>1. Retired \in Nat /\ InFlight \in Nat BY <1>1, RetiringInRob, InstrType
  <2> QED BY <2>1
<1>3. t \in Tag /\ tags_tail \in Tag
  BY <1>1, <1>2, InstrType, AgeType
<1>4. t \in active_tags' => t \in active_tags
  BY <1>1, <1>2, CycleParts, NotReactivated
<1>5. RetireReady /\ FreesTag => t # tags_tail
  <2> SUFFICES ASSUME RetireReady, FreesTag, t = tags_tail PROVE FALSE
    OBVIOUS
  <2>1. TagAge(t) >= 1
    BY <1>1, AgeAfterRetired DEF FreeStep
  <2>2. TagAge(t) = 0
    BY <1>3, AgeIsRingAge, RingArithmetic
  <2> QED BY <2>1, <2>2
<1>6. b # NoTag => (t \in Invalidated(b) <=> k > ex[1].at)
  BY <1>2, RollbackAges
<1>7. b = NoTag => t \notin Invalidated(b)
  BY DEF Invalidated
<1> HIDE DEF t, b
<1> QED BY <1>4, <1>5, <1>6, <1>7, PathTagRegisters DEF t, b

-----------------------------------------------------------------------------
(***************************************************************************)
(* One lemma for each part of the invariant.                               *)
(***************************************************************************)

\* Instructions after the step: an index is one that was kept or the new one.
LEMMA IndexAfter ==
    ASSUME NEW push, NEW go, NEW ex, NEW rp, NEW async, PathStep(push, go, ex, rp, async),
           NEW m2 \in Nat, m2 = InFlight', NEW k \in 1 .. m2
    PROVE  /\ InFlight \in Nat /\ Retired \in Nat /\ Retired <= InFlight
           /\ m2 = InFlight - Retired + (IF TagFires(go) THEN 1 ELSE 0)
           /\ \/ k \in 1 .. InFlight - Retired /\ k + Retired \in Retired + 1 .. InFlight
                                               /\ k + Retired \in 1 .. InFlight
              \/ TagFires(go) /\ k = m2
<1> DEFINE m == InFlight
           r == Retired
           n == Len(rob)
           fires == TagFires(go)
<1>1. m \in Nat /\ r \in Nat /\ n \in Nat /\ r <= n /\ n <= m
  BY RetiringInRob, InstrType DEF PathStep, TypeInv
<1>2. m2 = m - r + (IF fires THEN 1 ELSE 0)
  BY PathTagRegisters
<1> HIDE DEF m, r, n, fires
<1>3. r <= m
  BY <1>1
<1>4. \/ k \in 1 .. m - r /\ k + r \in r + 1 .. m /\ k + r \in 1 .. m
      \/ fires /\ k = m2
  BY <1>1, <1>2, <1>3
<1> QED BY <1>1, <1>2, <1>3, <1>4 DEF m, r, fires

\* Numbers of instructions after the step are numbers.
LEMMA CountAfter ==
    ASSUME TypeOK'
    PROVE  \E m2 \in Nat : m2 = InFlight'
<1>1. Len(rob') \in Nat /\ Len(instr_tag_buf') \in Nat /\ InFlight' = Len(rob') + Len(instr_tag_buf')
  BY LenProperties DEF InFlight, TypeOK, AtMostOne
<1> QED BY <1>1

LEMMA WrongInactiveStep ==
    ASSUME NEW push, NEW go, NEW ex, NEW rp, NEW async, PathStep(push, go, ex, rp, async)
    PROVE  WrongInactive'
<1>1. PICK m2 \in Nat : m2 = InFlight'
  BY CountAfter DEF PathStep
<1> SUFFICES ASSUME NEW k \in 1 .. m2
             PROVE  Instr(k)'.wrong <=> Instr(k)'.tag \notin active_tags'
  BY <1>1 DEF WrongInactive
<1>2. CASE k \in 1 .. InFlight - Retired /\ k + Retired \in Retired + 1 .. InFlight
                                         /\ k + Retired \in 1 .. InFlight
  <2>1. Kept(k, ex)
    BY <1>2, PathTagRegisters
  <2>2. Instr(k + Retired).wrong <=> Instr(k + Retired).tag \notin active_tags
    BY <1>2 DEF PathStep, PathInv, PathTags, WrongInactive
  <2> QED BY <1>2, <2>1, <2>2, KeptActive DEF Kept
<1>3. CASE TagFires(go) /\ k = m2
  <2>1. Joined(k, RollbackTag(ex) # NoTag)
    BY <1>1, <1>3, PathTagRegisters
  <2> QED BY <1>3, <2>1, AllocPath, OutTagActive DEF Joined
<1> QED BY <1>1, <1>2, <1>3, IndexAfter

LEMMA BranchEndsTagStep ==
    ASSUME NEW push, NEW go, NEW ex, NEW rp, NEW async, PathStep(push, go, ex, rp, async)
    PROVE  BranchEndsTag'
<1> DEFINE m == InFlight
           r == Retired
           fires == TagFires(go)
           cond(k, m2) == IF k < m2 THEN Instr(k + 1)'.inc ELSE next_tag_increment'
<1>1. PICK m2 \in Nat : m2 = InFlight'
  BY CountAfter DEF PathStep
<1> SUFFICES ASSUME NEW k \in 1 .. m2, Instr(k)'.br, ~Instr(k)'.wrong
             PROVE  cond(k, m2)
  BY <1>1 DEF BranchEndsTag
<1>2. CASE k \in 1 .. m - r /\ k + r \in r + 1 .. m /\ k + r \in 1 .. m
  <2>1. Kept(k, ex)
    BY <1>2, PathTagRegisters
  <2>2. Instr(k + r).br /\ ~Instr(k + r).wrong
    BY <2>1 DEF Kept
  <2>3. IF k + r < m THEN Instr((k + r) + 1).inc ELSE next_tag_increment
    BY <1>2, <2>2 DEF PathStep, PathInv, PathTags, BranchEndsTag
  <2>4. m \in Nat /\ r \in Nat /\ r <= m /\ m2 = m - r + (IF fires THEN 1 ELSE 0)
    BY <1>1, IndexAfter
  <2>5. CASE k + r < m
    <3>1. k + 1 \in 1 .. m - r /\ (k + r) + 1 = (k + 1) + r /\ k < m2
      <4> HIDE DEF m, r, fires
      <4> QED BY <1>2, <2>4, <2>5
    <3>2. Kept(k + 1, ex)
      BY <3>1, PathTagRegisters
    <3> QED BY <2>3, <2>5, <3>1, <3>2 DEF Kept
  <2>6. CASE ~(k + r < m)
    <3>1. next_tag_increment
      BY <2>3, <2>6
    <3>2. CASE fires
      <4>1. k < m2 /\ k + 1 = m2
        <5> HIDE DEF m, r, fires
        <5> QED BY <1>2, <2>4, <2>6, <3>2
      <4>2. Joined(m2, RollbackTag(ex) # NoTag)
        BY <1>1, <3>2, PathTagRegisters
      <4> QED BY <3>1, <4>1, <4>2 DEF Joined, TagIncrement
    <3>3. CASE ~fires
      <4>1. ~(k < m2)
        <5> HIDE DEF m, r, fires
        <5> QED BY <1>2, <2>4, <2>6, <3>3
      <4> QED BY <3>1, <3>3, <4>1, PathTagRegisters
    <3> QED BY <3>2, <3>3
  <2> QED BY <2>5, <2>6
<1>3. CASE TagFires(go) /\ k = m2
  <2>1. Joined(k, RollbackTag(ex) # NoTag)
    BY <1>1, <1>3, PathTagRegisters
  <2>2. alloc_rename_buf[1].br /\ TagOnPath(TagCall)
    BY <1>3, <2>1, AllocPath DEF Joined
  <2>3. OutCheckpoint(TagCall)
    BY <2>2 DEF OutCheckpoint, TagCall
  <2>4. next_tag_increment'
    BY <1>3, <2>3, PathTagRegisters
  <2>5. ~(k < m2)
    BY <1>3
  <2> QED BY <2>4, <2>5
<1> QED BY <1>1, <1>2, <1>3, IndexAfter

LEMMA IssuedOnPathStep ==
    ASSUME NEW push, NEW go, NEW ex, NEW rp, NEW async, PathStep(push, go, ex, rp, async)
    PROVE  IssuedOnPath'
<1> DEFINE b == RollbackTag(ex)
<1>1. rollback_just_started' = (b # NoTag \/ (rollback_just_started /\ ~Resumes(go)))
  BY PathRollbackRegisters
<1>2. /\ last_issued_tag' = IF TagFires(go) THEN OutTag(TagCall) ELSE last_issued_tag
      /\ next_tag_increment' = IF TagFires(go) THEN OutCheckpoint(TagCall) ELSE next_tag_increment
  BY PathTagRegisters
<1>3. IssuedOnPath /\ TypeOK /\ TagInv
  BY DEF PathStep, PathInv, PathTags, TypeInv
<1>4. CASE TagFires(go)
  <2>1. last_issued_tag' \in active_tags' <=> TagOnPath(TagCall) /\ b = NoTag
    BY <1>2, <1>4, OutTagActive
  <2>2. ~TagOnPath(TagCall) <=> rollback_just_started /\ ~Resumes(go)
    BY <1>4, AllocPath
  <2> QED BY <1>1, <2>1, <2>2 DEF IssuedOnPath
<1>5. CASE ~TagFires(go)
  <2>1. active_tags' = active_tags \ (Invalidated(b) \cup (IF RetireReady /\ FreesTag THEN {tags_tail} ELSE {}))
    BY <1>5, PathTagRegisters
  <2>2. ~Resumes(go) /\ last_issued_tag' = last_issued_tag /\ next_tag_increment' = next_tag_increment
    BY <1>2, <1>5 DEF Resumes
  <2>3. CASE b # NoTag
    <3>1. last_issued_tag \in Invalidated(b) \/ next_tag_increment
      BY <2>3, RollbackAges
    <3> QED BY <1>1, <2>1, <2>2, <2>3, <3>1 DEF IssuedOnPath
  <2>4. CASE b = NoTag
    <3>1. RetireReady /\ FreesTag => last_issued_tag # tags_tail
      <4> SUFFICES ASSUME RetireReady, FreesTag, last_issued_tag = tags_tail PROVE FALSE
        OBVIOUS
      <4>1. TagAge(last_issued_tag) >= 1
        BY <1>3, AgeAfterRetired DEF FreeStep
      <4>2. TagAge(last_issued_tag) = 0
        BY <1>3, AgeType, AgeIsRingAge, RingArithmetic
      <4> QED BY <4>1, <4>2
    <3>2. Invalidated(b) = {}
      BY <2>4 DEF Invalidated
    <3> QED BY <1>1, <1>3, <2>1, <2>2, <2>4, <3>1, <3>2 DEF IssuedOnPath
  <2> QED BY <2>3, <2>4
<1> QED BY <1>4, <1>5

\* Tags that stay active are not the freed one, and their ages shift.
LEMMA ActiveAges ==
    ASSUME NEW push, NEW go, NEW ex, NEW rp, NEW async, PathStep(push, go, ex, rp, async),
           NEW u \in Tag
    PROVE  /\ FreeStep \in {0, 1} /\ TagAge(u) \in Nat
           /\ TagAge(u)' = RingAge(tags_tail', u)
           /\ TagAge(u) >= FreeStep <=> ~(RetireReady /\ FreesTag /\ u = tags_tail)
           /\ TagAge(u) >= FreeStep => TagAge(u)' = TagAge(u) - FreeStep
<1>1. TypeOK /\ TagInv
  BY DEF PathStep, TypeInv
<1>2. tags_tail \in Tag /\ TagAge(u) \in Nat /\ TagAge(u) = RingAge(tags_tail, u)
  BY <1>1, AgeType, TagsAssumption, AgeIsRingAge
<1>3. TagAge(u) = 0 <=> u = tags_tail
  BY <1>2, RingArithmetic
<1>4. TagAge(u)' = RingAge(tags_tail', u)
  BY AgeIsRingAge
<1>5. FreeStep = IF RetireReady /\ FreesTag THEN 1 ELSE 0
  BY DEF FreeStep
<1>6. TagAge(u) >= FreeStep <=> ~(RetireReady /\ FreesTag /\ u = tags_tail)
  <2> DEFINE a == TagAge(u)
  <2>1. a \in Nat /\ (a = 0 <=> u = tags_tail)
    BY <1>2, <1>3
  <2> HIDE DEF a
  <2>2. a >= FreeStep <=> ~(RetireReady /\ FreesTag /\ u = tags_tail)
    BY <1>5, <2>1
  <2> QED BY <2>2 DEF a
<1> QED BY <1>1, <1>2, <1>4, <1>5, <1>6, PathTagRegisters, AgesShift

\* Tags up to the last issued one are still that, seen after the step.
LEMMA AllocatedStays ==
    ASSUME NEW push, NEW go, NEW ex, NEW rp, NEW async, PathStep(push, go, ex, rp, async),
           NEW u \in Tag, ~(RetireReady /\ FreesTag /\ u = tags_tail),
           \/ TagAge(u) <= TagAge(last_issued_tag)
           \/ TagFires(go) /\ TagIncrement(TagCall) /\ u = tags_head
    PROVE  TagAge(u)' <= TagAge(last_issued_tag)'
<1> DEFINE last == TagAge(last_issued_tag)
           d == FreeStep
<1>1. TypeOK /\ TypeOK' /\ TagInv
  BY DEF PathStep, TypeInv
<1>2. last_issued_tag \in Tag /\ tags_head \in Tag /\ last \in Nat /\ last >= d
  BY <1>1, AgeType, TagsAssumption, AgeAfterRetired
<1>3. last_issued_tag' \in Tag
  BY <1>1 DEF TypeOK, CRATTypeOK
<1>4. PICK w \in Tag : w = last_issued_tag'
  BY <1>3
<1>5. /\ TagAge(w) >= last /\ TagAge(w) \in Nat
      /\ TagFires(go) /\ TagIncrement(TagCall) => w = tags_head
  <2>1. CASE TagFires(go) /\ TagIncrement(TagCall)
    <3>1. w = tags_head /\ tags_head # tags_tail
      BY <1>4, <2>1, PathTagRegisters DEF OutTag
    <3>2. TagAge(w) = last + 1
      BY <1>1, <3>1, HeadIsNew
    <3> HIDE DEF last
    <3> QED BY <1>2, <3>1, <3>2
  <2>2. CASE ~(TagFires(go) /\ TagIncrement(TagCall))
    <3>1. w = last_issued_tag
      BY <1>4, <2>2, PathTagRegisters DEF OutTag
    <3> QED BY <1>2, <2>2, <3>1
  <2> QED BY <2>1, <2>2
<1> SUFFICES TagAge(u)' <= TagAge(w)'
  BY <1>4 DEF TagAge
<1>6. d \in {0, 1} /\ TagAge(u) \in Nat /\ TagAge(u) >= d /\ TagAge(u)' = TagAge(u) - d
  BY ActiveAges
<1> DEFINE a == TagAge(u)
           c == TagAge(w)
<1>7. a \in Nat /\ c \in Nat /\ c >= last
  BY <1>5, <1>6
<1>8. a <= c
  <2>1. CASE a <= last
    <3> HIDE DEF a, c, last
    <3> QED BY <1>2, <1>7, <2>1
  <2>2. CASE u = w
    BY <1>7, <2>2
  <2> QED BY <1>5, <2>1, <2>2
<1>9. c >= d /\ a - d <= c - d
  <2> HIDE DEF a, c, d, last
  <2> QED BY <1>2, <1>6, <1>7, <1>8
<1>10. TagAge(w)' = c - d
  BY <1>9, ActiveAges
<1> QED BY <1>6, <1>9, <1>10

LEMMA ActiveAllocatedStep ==
    ASSUME NEW push, NEW go, NEW ex, NEW rp, NEW async, PathStep(push, go, ex, rp, async)
    PROVE  ActiveAllocated'
<1>1. TypeOK' /\ ActiveAllocated
  BY DEF PathStep, PathInv, PathTags
<1> SUFFICES ASSUME NEW u \in active_tags'
             PROVE  TagAge(u)' <= TagAge(last_issued_tag)'
  BY DEF ActiveAllocated
<1>2. /\ u \in Tag /\ ~(RetireReady /\ FreesTag /\ u = tags_tail)
      /\ u \in active_tags \/ (TagFires(go) /\ TagIncrement(TagCall) /\ u = tags_head)
  <2>1. active_tags' \subseteq Tag
    BY <1>1 DEF TypeOK, CRATTypeOK
  <2> QED BY <2>1, PathTagRegisters
<1>3. u \in active_tags => TagAge(u) <= TagAge(last_issued_tag)
  BY <1>1 DEF ActiveAllocated
<1> QED BY <1>2, <1>3, AllocatedStays

LEMMA TargetYoungestStep ==
    ASSUME NEW push, NEW go, NEW ex, NEW rp, NEW async, PathStep(push, go, ex, rp, async)
    PROVE  TargetYoungest'
<1> DEFINE b == RollbackTag(ex)
           d == FreeStep
<1>1. TypeOK /\ TypeOK' /\ TagInv /\ TargetYoungest /\ ex \in Executions
  BY DEF PathStep, TypeInv, PathInv
<1>2. rollback_target_tag' \in Tag /\ rollback_target_tag \in Tag
  BY <1>1 DEF TypeOK, CRATTypeOK
<1>3. PICK w \in Tag : w = rollback_target_tag'
  BY <1>2
<1> SUFFICES ASSUME rollback_just_started', NEW u \in active_tags'
             PROVE  w \in active_tags' /\ TagAge(u)' <= TagAge(w)'
  BY <1>3 DEF TargetYoungest, TagAge
<1>4. /\ u \in Tag /\ ~(RetireReady /\ FreesTag /\ u = tags_tail) /\ u \notin Invalidated(b)
      /\ u \in active_tags \/ (TagFires(go) /\ TagIncrement(TagCall) /\ TagOnPath(TagCall))
  <2>1. active_tags' \subseteq Tag
    BY <1>1 DEF TypeOK, CRATTypeOK
  <2> QED BY <2>1, PathTagRegisters
<1>5. d \in {0, 1} /\ TagAge(u) \in Nat /\ TagAge(u) >= d /\ TagAge(u)' = TagAge(u) - d
  BY <1>4, ActiveAges
<1>6. TagAge(w) \in Nat
  BY <1>1, AgeType, TagsAssumption
<1>7. /\ w \in active_tags /\ w \notin Invalidated(b)
      /\ TagAge(u) <= TagAge(w) /\ TagAge(w) >= d
  <2>1. CASE b # NoTag
    <3>1. w = b /\ b \in active_tags
      BY <1>1, <1>3, <2>1, PathRollbackRegisters, RollbackFacts
    <3>2. TagAge(w) >= d
      BY <2>1, <3>1, RollbackAges
    <3>3. \A t \in Tag : t \in Invalidated(b) <=> TagAge(t) > TagAge(w)
      BY <2>1, <3>1 DEF Invalidated
    <3> DEFINE a == TagAge(u)
               c == TagAge(w)
    <3>4. a \in Nat /\ c \in Nat /\ ~(a > c)
      BY <1>4, <1>5, <1>6, <3>3
    <3>5. a <= c /\ ~(c > c)
      <4> HIDE DEF a, c
      <4> QED BY <3>4
    <3> QED BY <3>1, <3>2, <3>3, <3>5
  <2>2. CASE b = NoTag
    <3>1. w = rollback_target_tag /\ rollback_just_started /\ ~Resumes(go)
      BY <1>3, <2>2, PathRollbackRegisters
    <3>2. u \in active_tags
      BY <1>4, <3>1, AllocPath
    <3>3. w \in active_tags /\ TagAge(u) <= TagAge(w)
      BY <1>1, <3>1, <3>2 DEF TargetYoungest
    <3>4. Invalidated(b) = {}
      BY <2>2 DEF Invalidated
    <3> DEFINE a == TagAge(u)
               c == TagAge(w)
    <3>5. c >= d
      <4>1. a \in Nat /\ c \in Nat /\ a <= c /\ a >= d
        BY <1>5, <1>6, <3>3
      <4> HIDE DEF a, c, d
      <4> QED BY <1>5, <4>1
    <3> QED BY <3>3, <3>4, <3>5
  <2> QED BY <2>1, <2>2
<1>8. ~(RetireReady /\ FreesTag /\ w = tags_tail) /\ TagAge(w)' = TagAge(w) - d
  BY <1>7, ActiveAges
<1>9. w \in active_tags'
  BY <1>7, <1>8, PathTagRegisters
<1> DEFINE a == TagAge(u)
           c == TagAge(w)
<1>10. a - d <= c - d
  <2>1. a \in Nat /\ c \in Nat /\ a <= c
    BY <1>5, <1>6, <1>7
  <2> HIDE DEF a, c, d
  <2> QED BY <1>5, <2>1
<1> QED BY <1>5, <1>8, <1>9, <1>10

LEMMA RolledBackOnceStep ==
    ASSUME NEW push, NEW go, NEW ex, NEW rp, NEW async, PathStep(push, go, ex, rp, async)
    PROVE  RolledBackOnce'
<1> DEFINE b == RollbackTag(ex)
           r == Retired
           n == Len(rob)
<1>1. /\ TypeOK /\ TypeOK' /\ TagInv /\ PathInv /\ ex \in Executions /\ rp \in Reports
      /\ RobCycle(go, ex, rp)
  BY CycleParts DEF PathStep, TypeInv
<1>2. /\ r \in Nat /\ n \in Nat /\ r <= n /\ DOMAIN rob = 1 .. n
      /\ \A k \in 1 .. n - r : rob'[k] = UpdatedEntry(k + r, ex, rp)
      /\ RenameFires(go) => rob'[Len(rob')] = RobEntry(instr_tag_buf[1], b # NoTag)
      /\ Len(rob') = n - r + (IF RenameFires(go) THEN 1 ELSE 0)
      /\ DOMAIN rob' = 1 .. Len(rob')
  BY <1>1, RobStep, RetiringInRob, LenProperties, InstrType DEF TypeOK
<1> SUFFICES ASSUME rollback_just_started', NEW i \in DOMAIN rob',
                    rob'[i].br, rob'[i].tag = rollback_target_tag', ~rob'[i].wrong
             PROVE  rob'[i].exe \/ rob'[i].done
  BY DEF RolledBackOnce
<1>3. CASE i \in 1 .. n - r
  <2> DEFINE j == i + r
  <2>1. j \in DOMAIN rob /\ j \in 1 .. n
    <3> HIDE DEF n, r
    <3> QED BY <1>2, <1>3
  <2>2. rob[j] \in Entry /\ rob'[i] = UpdatedEntry(j, ex, rp)
    BY <1>1, <1>2, <1>3, <2>1, RobElement
  <2>3. rob'[i].br = rob[j].br /\ rob'[i].tag = rob[j].tag /\ (rob[j].wrong => rob'[i].wrong)
    BY <2>2 DEF UpdatedEntry, Entry, Flag
  <2>4. (ex # <<>> /\ ex[1].at = j) => rob'[i].exe \/ rob'[i].done
    <3> SUFFICES ASSUME ex # <<>>, ex[1].at = j PROVE rob'[i].exe \/ rob'[i].done
      OBVIOUS
    <3>1. ex[1].ann \in BOOLEAN
      BY <1>1, RollbackTagType DEF Execution
    <3>2. rob'[i].exe = ~ex[1].ann /\ rob'[i].done = (rob[j].done \/ ex[1].ann)
      BY <2>2, <3>1 DEF UpdatedEntry, Entry, Flag
    <3> QED BY <3>1, <3>2
  <2>5. ~(ex # <<>> /\ ex[1].at = j) => rob'[i].exe = rob[j].exe /\ rob'[i].done = rob[j].done
    BY <2>2 DEF UpdatedEntry, Entry, Flag
  <2>6. j \in 1 .. InFlight /\ Instr(j) = rob[j]
    BY <1>1, <2>1, InstrType DEF Instr
  <2>7. rob[j].br /\ ~rob[j].wrong
    BY <2>3
  <2>8. CASE b # NoTag
    <3> DEFINE at == ex[1].at
               A(k) == TagAge(Instr(k).tag)
    <3>1. /\ ex # <<>> /\ at \in 1 .. InFlight /\ Instr(at) = rob[at] /\ rob[at].tag = b
          /\ rob[at].br /\ b \in active_tags
      BY <1>1, <2>8, RollbackFacts
    <3>2. ~rob[at].wrong
      BY <1>1, <3>1 DEF PathInv, PathTags, WrongInactive
    <3>3. rob[j].tag = b
      BY <2>3, <2>8, PathRollbackRegisters
    <3>4. A(j) = A(at) /\ A(j) \in Nat /\ InFlight \in Nat
      BY <1>1, <2>6, <3>1, <3>3, AgeType, InstrType
    <3>5. \A k \in j + 1 .. InFlight : A(k) > A(j)
      BY <1>1, <2>6, <2>7, YoungerThanBranch
    <3>6. \A k \in at + 1 .. InFlight : A(k) > A(at)
      BY <1>1, <3>1, <3>2, YoungerThanBranch
    <3>7. at = j
      <4> DEFINE m == InFlight
      <4> HIDE DEF A, at, j, m
      <4> QED BY <2>6, <3>1, <3>4, <3>5, <3>6 DEF m
    <3> QED BY <2>4, <3>1, <3>7
  <2>9. CASE b = NoTag
    <3>1. rollback_just_started /\ rob[j].tag = rollback_target_tag
      BY <2>3, <2>9, PathRollbackRegisters
    <3>2. rob[j].exe \/ rob[j].done
      BY <1>1, <2>1, <2>7, <3>1 DEF PathInv, RolledBackOnce
    <3> QED BY <2>4, <2>5, <3>2
  <2> QED BY <2>8, <2>9
<1>4. CASE i \notin 1 .. n - r
  <2>1. RenameFires(go) /\ i = Len(rob')
    <3> DEFINE n2 == Len(rob')
    <3> HIDE DEF n, r, n2
    <3> QED BY <1>2, <1>4 DEF n2
  <2>2. rob'[i].wrong = (instr_tag_buf[1].wrong \/ b # NoTag)
    BY <1>2, <2>1 DEF RobEntry
  <2>3. b = NoTag /\ ~instr_tag_buf[1].wrong /\ instr_tag_buf # <<>>
    BY <2>1, <2>2 DEF RenameFires
  <2>4. rollback_just_started
    BY <2>3, PathRollbackRegisters
  <2> QED BY <1>1, <2>3, <2>4 DEF PathInv, LockInv
<1> QED BY <1>3, <1>4

\* The frontend after the step: without a rollback the marker moves from the
\* tagger into the pipe with the first instruction that is pushed, and no other
\* instruction is marked.
LEMMA PathFrontend ==
    ASSUME NEW push, NEW go, NEW ex, NEW rp, NEW async, PathStep(push, go, ex, rp, async)
    PROVE  /\ RollbackTag(ex) # NoTag => rollback_tagger' = RollbackTag(ex) /\ output_pipe' = <<>>
           /\ RollbackTag(ex) = NoTag /\ push = <<>> =>
                 /\ rollback_tagger' = rollback_tagger
                 /\ output_pipe' = <<>> \/ (output_pipe' = output_pipe /\ ~AllocFires(go))
                 /\ Marked(output_pipe) /\ ~AllocFires(go) => output_pipe' = output_pipe
           /\ RollbackTag(ex) = NoTag /\ push # <<>> =>
                 /\ rollback_tagger' = NoTag
                 /\ output_pipe = <<>> \/ AllocFires(go)
                 /\ output_pipe' # <<>> => output_pipe'[1].rb = rollback_tagger
                 /\ rollback_tagger # NoTag => output_pipe' # <<>>
<1> DEFINE b == RollbackTag(ex)
<1>1. /\ FrontendCycle(go, push, b)
      /\ push # <<>> => CanPush(go)
      /\ ~MarkerAtRisk(push, rp)
  BY CycleParts DEF PathStep
<1>2. Resuming => stalled_exception /\ output_pipe = <<>>
  BY DEF PathStep, TrapInv, TrapsStall, Resuming
<1>3. StallFlush => ~Marked(output_pipe)
  BY DEF PathStep, PathInv, Markers, FlushKeepsMarker
<1>4. CASE b # NoTag
  BY <1>1, <1>4 DEF FrontendCycle, TaggerNext
<1>5. CASE b = NoTag /\ push = <<>>
  <2>1. rollback_tagger' = rollback_tagger
    BY <1>1, <1>5 DEF FrontendCycle, TaggerNext
  <2>2. output_pipe' = IF Resuming \/ StallFlush \/ AllocFires(go) THEN <<>> ELSE output_pipe
    BY <1>1, <1>5 DEF FrontendCycle, PipeNext
  <2> QED BY <1>2, <1>3, <1>5, <2>1, <2>2 DEF Marked
<1>6. CASE b = NoTag /\ push # <<>>
  <2>1. rollback_tagger' = NoTag /\ ~Resuming /\ (output_pipe = <<>> \/ AllocFires(go))
    BY <1>1, <1>2, <1>6 DEF FrontendCycle, TaggerNext, CanPush
  <2>2. output_pipe' = IF StallFlush THEN <<>>
                       ELSE <<[rl |-> push[1].rl, br |-> push[1].br, rb |-> rollback_tagger]>>
    BY <1>1, <1>6, <2>1 DEF FrontendCycle, PipeNext
  <2>3. rollback_tagger # NoTag => ~StallFlush
    BY <1>1, <1>6 DEF MarkerAtRisk
  <2> QED BY <1>6, <2>1, <2>2, <2>3
<1> QED BY <1>4, <1>5, <1>6

\* The scheduler's first buffer after the step.
LEMMA PathAlloc ==
    ASSUME NEW push, NEW go, NEW ex, NEW rp, NEW async, PathStep(push, go, ex, rp, async)
    PROVE  /\ AllocFires(go) => /\ alloc_rename_buf' # <<>>
                                /\ alloc_rename_buf'[1].rb = output_pipe[1].rb
                                /\ alloc_rename_buf'[1].wrong = (RollbackTag(ex) # NoTag)
                                /\ output_pipe # <<>> /\ (alloc_rename_buf = <<>> \/ TagFires(go))
           /\ ~AllocFires(go) /\ TagFires(go) => alloc_rename_buf' = <<>>
           /\ ~AllocFires(go) /\ ~TagFires(go) =>
                 /\ alloc_rename_buf = <<>> => alloc_rename_buf' = <<>>
                 /\ alloc_rename_buf # <<>> =>
                       /\ alloc_rename_buf' # <<>>
                       /\ alloc_rename_buf'[1].rb = alloc_rename_buf[1].rb
                       /\ alloc_rename_buf'[1].wrong = (alloc_rename_buf[1].wrong \/ RollbackTag(ex) # NoTag)
           /\ alloc_rename_buf # <<>> => alloc_rename_buf[1].wrong \in BOOLEAN
<1>1. TypeOK /\ Cycle(push, go, ex, rp, async)
  BY DEF PathStep, TypeInv
<1>2. PICK p : SchedulerCycle(go, p, RollbackTag(ex) # NoTag)
  BY <1>1, CycleParts
<1>3. AllocFires(go) => output_pipe # <<>> /\ (alloc_rename_buf = <<>> \/ TagFires(go))
  BY DEF AllocFires
<1>4. alloc_rename_buf # <<>> => alloc_rename_buf[1].wrong \in BOOLEAN
  BY <1>1, PipeContents DEF Allocated, Flag
<1> DEFINE rolls == RollbackTag(ex) # NoTag
<1>5. rolls \in BOOLEAN /\ SchedulerCycle(go, p, rolls)
  BY <1>2
<1> HIDE DEF rolls
<1>6. /\ AllocFires(go) => /\ alloc_rename_buf' # <<>>
                           /\ alloc_rename_buf'[1].rb = output_pipe[1].rb
                           /\ alloc_rename_buf'[1].wrong = rolls
      /\ ~AllocFires(go) /\ TagFires(go) => alloc_rename_buf' = <<>>
      /\ ~AllocFires(go) /\ ~TagFires(go) =>
            /\ alloc_rename_buf = <<>> => alloc_rename_buf' = <<>>
            /\ alloc_rename_buf # <<>> =>
                  /\ alloc_rename_buf' # <<>>
                  /\ alloc_rename_buf'[1].rb = alloc_rename_buf[1].rb
                  /\ alloc_rename_buf'[1].wrong = (alloc_rename_buf[1].wrong \/ rolls)
  BY <1>1, <1>5, AllocStep
<1> QED BY <1>3, <1>4, <1>6 DEF rolls

LEMMA OneMarkerStep ==
    ASSUME NEW push, NEW go, NEW ex, NEW rp, NEW async, PathStep(push, go, ex, rp, async)
    PROVE  OneMarker'
<1> DEFINE b == RollbackTag(ex)
<1>1. OneMarker /\ OldMarker
  BY DEF PathStep, PathInv, Markers
<1>2. /\ rollback_just_started' = (b # NoTag \/ (rollback_just_started /\ ~Resumes(go)))
      /\ rollback_target_tag' = IF b # NoTag THEN b ELSE rollback_target_tag
      /\ rollback_target_tag # NoTag
  BY PathRollbackRegisters
<1>3. AllocFires(go) => output_pipe # <<>>
  BY PathAlloc
<1>4. CASE b # NoTag
  <2>1. rollback_tagger' = rollback_target_tag' /\ output_pipe' = <<>> /\ rollback_just_started'
    BY <1>2, <1>4, PathFrontend
  <2>2. OldAlloc'
    BY <1>4, PathAlloc DEF OldAlloc
  <2> QED BY <2>1, <2>2 DEF OneMarker, MarkerInTagger
<1>5. ASSUME b = NoTag, rollback_tagger = NoTag, ~Marked(output_pipe)
      PROVE  rollback_tagger' = NoTag /\ ~Marked(output_pipe)'
  BY <1>5, PathFrontend DEF Marked
<1>6. CASE b = NoTag /\ rollback_just_started /\ ~Resumes(go)
  <2>1. rollback_just_started' /\ rollback_target_tag' = rollback_target_tag
    BY <1>2, <1>6
  <2>2. CASE MarkerInTagger
    <3>1. output_pipe = <<>> /\ rollback_tagger = rollback_target_tag /\ OldAlloc /\ ~AllocFires(go)
      BY <1>3, <2>2 DEF MarkerInTagger
    <3>2. OldAlloc'
      BY <1>6, <3>1, PathAlloc DEF OldAlloc
    <3>3. CASE push = <<>>
      <4>1. rollback_tagger' = rollback_target_tag' /\ output_pipe' = <<>>
        BY <1>6, <2>1, <3>1, <3>3, PathFrontend
      <4> QED BY <2>1, <3>2, <4>1 DEF OneMarker, MarkerInTagger
    <3>4. CASE push # <<>>
      <4>1. rollback_tagger' = NoTag /\ output_pipe' # <<>> /\ output_pipe'[1].rb = rollback_target_tag'
        BY <1>2, <1>6, <2>1, <3>1, <3>4, PathFrontend
      <4> QED BY <2>1, <3>2, <4>1 DEF OneMarker, MarkerInPipe
    <3> QED BY <3>3, <3>4
  <2>3. CASE MarkerInPipe
    <3>1. /\ rollback_tagger = NoTag /\ output_pipe # <<>> /\ output_pipe[1].rb = rollback_target_tag
          /\ OldAlloc /\ Marked(output_pipe)
      BY <1>2, <2>3 DEF MarkerInPipe, Marked
    <3>2. CASE AllocFires(go)
      <4>1. rollback_tagger' = NoTag /\ ~Marked(output_pipe)'
        BY <1>6, <3>1, <3>2, PathFrontend DEF Marked
      <4>2. alloc_rename_buf' # <<>> /\ ~alloc_rename_buf'[1].wrong /\ alloc_rename_buf'[1].rb = rollback_target_tag'
        BY <1>6, <2>1, <3>1, <3>2, PathAlloc
      <4> QED BY <2>1, <4>1, <4>2 DEF OneMarker, MarkerInBuf, OldAlloc
    <3>3. CASE ~AllocFires(go)
      <4>1. push = <<>>
        BY <1>6, <3>1, <3>3, PathFrontend
      <4>2. rollback_tagger' = NoTag /\ output_pipe' = output_pipe
        BY <1>6, <3>1, <3>3, <4>1, PathFrontend
      <4>3. OldAlloc'
        BY <1>6, <3>1, <3>3, PathAlloc DEF OldAlloc
      <4> QED BY <2>1, <3>1, <4>2, <4>3 DEF OneMarker, MarkerInPipe
    <3> QED BY <3>2, <3>3
  <2>4. CASE MarkerInBuf
    <3>1. /\ rollback_tagger = NoTag /\ ~Marked(output_pipe) /\ alloc_rename_buf # <<>>
          /\ ~alloc_rename_buf[1].wrong /\ alloc_rename_buf[1].rb = rollback_target_tag
      BY <2>4 DEF MarkerInBuf, OldAlloc
    <3>2. ~TagFires(go)
      BY <1>6, <3>1, AllocPath
    <3>3. ~AllocFires(go)
      BY <3>1, <3>2, PathAlloc
    <3>4. alloc_rename_buf' # <<>> /\ ~alloc_rename_buf'[1].wrong /\ alloc_rename_buf'[1].rb = rollback_target_tag'
      BY <1>6, <2>1, <3>1, <3>2, <3>3, PathAlloc
    <3> QED BY <1>5, <1>6, <2>1, <3>1, <3>4 DEF OneMarker, MarkerInBuf, OldAlloc
  <2> QED BY <1>1, <1>6, <2>2, <2>3, <2>4 DEF OneMarker
<1>7. CASE b = NoTag /\ ~(rollback_just_started /\ ~Resumes(go))
  <2>1. ~rollback_just_started'
    BY <1>2, <1>7
  <2>2. rollback_tagger = NoTag /\ ~Marked(output_pipe) /\ (TagFires(go) \/ ~Marked(alloc_rename_buf))
    <3>1. CASE ~rollback_just_started
      BY <1>1, <3>1 DEF OneMarker, NoMarker
    <3>2. CASE rollback_just_started /\ Resumes(go)
      <4>1. TagFires(go)
        BY <3>2 DEF Resumes
      <4>2. ~OldAlloc
        BY <3>2, <4>1, AllocPath DEF OldAlloc
      <4> QED BY <1>1, <3>2, <4>1, <4>2 DEF OneMarker, MarkerInTagger, MarkerInPipe, MarkerInBuf
    <3> QED BY <1>7, <3>1, <3>2
  <2>3. ~Marked(alloc_rename_buf)'
    <3>1. CASE AllocFires(go)
      BY <2>2, <3>1, PathAlloc DEF Marked
    <3>2. CASE ~AllocFires(go)
      BY <2>2, <3>2, PathAlloc DEF Marked
    <3> QED BY <3>1, <3>2
  <2> QED BY <1>5, <1>7, <2>1, <2>2, <2>3 DEF OneMarker, NoMarker
<1> QED BY <1>4, <1>6, <1>7

LEMMA OldMarkerStep ==
    ASSUME NEW push, NEW go, NEW ex, NEW rp, NEW async, PathStep(push, go, ex, rp, async)
    PROVE  OldMarker'
<1> DEFINE b == RollbackTag(ex)
<1>1. /\ TypeOK /\ TypeOK' /\ TagInv /\ PathInv /\ ex \in Executions
      /\ OneMarker /\ OldMarker /\ TargetYoungest /\ RolledBackOnce
  BY DEF PathStep, TypeInv, PathInv, Markers
<1>2. /\ rollback_just_started' = (b # NoTag \/ (rollback_just_started /\ ~Resumes(go)))
      /\ rollback_target_tag' = IF b # NoTag THEN b ELSE rollback_target_tag
      /\ rollback_target_tag \in Tag /\ NoTag \notin Tag
  BY PathRollbackRegisters
<1>3. active_tags' \subseteq Tag
  BY <1>1 DEF TypeOK, CRATTypeOK
<1>4. PICK v : v = alloc_rename_buf'[1].rb
  OBVIOUS
<1> SUFFICES ASSUME alloc_rename_buf' # <<>>, alloc_rename_buf'[1].wrong
             PROVE  rollback_just_started' /\ v # rollback_target_tag' /\ v \notin active_tags'
  BY <1>4 DEF OldMarker
<1>5. CASE b # NoTag
  <2>1. b \in active_tags /\ b \in Tag
    BY <1>1, <1>5, RollbackFacts
  <2>2. ASSUME rollback_just_started, v = rollback_target_tag
        PROVE  v # b /\ v \in Invalidated(b)
    <3>1. b # rollback_target_tag
      <4>1. /\ ex[1].at \in DOMAIN rob /\ rob[ex[1].at].tag = b /\ rob[ex[1].at].br
            /\ ~rob[ex[1].at].exe /\ ~rob[ex[1].at].done
            /\ ex[1].at \in 1 .. InFlight /\ Instr(ex[1].at) = rob[ex[1].at]
        BY <1>1, <1>5, RollbackFacts
      <4>2. ~rob[ex[1].at].wrong
        BY <1>1, <2>1, <4>1 DEF PathInv, PathTags, WrongInactive
      <4> QED BY <1>1, <2>2, <4>1, <4>2 DEF RolledBackOnce
    <3>2. TagAge(b) <= TagAge(v)
      BY <1>1, <2>1, <2>2 DEF TargetYoungest
    <3>3. TagAge(b) # TagAge(v)
      BY <1>1, <1>2, <2>1, <2>2, <3>1, AgeType, AgeIsRingAge, RingArithmetic
    <3>4. TagAge(b) \in Nat /\ TagAge(v) \in Nat
      BY <1>1, <1>2, <2>1, <2>2, AgeType, TagsAssumption
    <3>5. TagAge(v) > TagAge(b)
      <4> DEFINE x == TagAge(b)
                 y == TagAge(v)
      <4> HIDE DEF x, y
      <4>1. y > x
        BY <3>2, <3>3, <3>4 DEF x, y
      <4> QED BY <4>1 DEF x, y
    <3> QED BY <1>2, <1>5, <2>2, <3>1, <3>5 DEF Invalidated
  <2>3. CASE v = NoTag
    BY <1>2, <1>3, <1>5, <2>3
  <2>4. CASE v # NoTag /\ AllocFires(go)
    <3>1. v = output_pipe[1].rb /\ output_pipe # <<>>
      BY <1>4, <2>4, PathAlloc
    <3>2. Marked(output_pipe)
      BY <2>4, <3>1 DEF Marked
    <3>3. rollback_just_started /\ v = rollback_target_tag
      BY <1>1, <3>1, <3>2 DEF OneMarker, NoMarker, MarkerInTagger, MarkerInPipe, MarkerInBuf
    <3>4. v \notin active_tags'
      BY <2>2, <3>3, PathTagRegisters
    <3> QED BY <1>2, <1>5, <2>2, <3>3, <3>4
  <2>5. CASE v # NoTag /\ ~AllocFires(go)
    <3>1. ~TagFires(go) /\ alloc_rename_buf # <<>> /\ v = alloc_rename_buf[1].rb
      BY <1>4, <2>5, PathAlloc
    <3>2. Marked(alloc_rename_buf) /\ rollback_just_started
      BY <1>1, <2>5, <3>1 DEF Marked, OneMarker, NoMarker
    <3>3. CASE alloc_rename_buf[1].wrong
      <4>1. v \notin active_tags
        BY <1>1, <3>1, <3>3 DEF OldMarker
      <4>2. v \notin active_tags'
        BY <3>1, <4>1, PathTagRegisters
      <4> QED BY <1>2, <1>5, <2>1, <4>1, <4>2
    <3>4. CASE ~alloc_rename_buf[1].wrong
      <4>1. v = rollback_target_tag
        BY <1>1, <3>1, <3>2, <3>4 DEF OneMarker, MarkerInTagger, MarkerInPipe, MarkerInBuf, OldAlloc
      <4>2. v \notin active_tags'
        BY <2>2, <3>2, <4>1, PathTagRegisters
      <4> QED BY <1>2, <1>5, <2>2, <3>2, <4>1, <4>2
    <3> QED BY <3>3, <3>4
  <2> QED BY <2>3, <2>4, <2>5
<1>6. CASE b = NoTag
  <2>1. ~AllocFires(go) /\ ~TagFires(go) /\ alloc_rename_buf # <<>>
    BY <1>6, PathAlloc
  <2>2. v = alloc_rename_buf[1].rb /\ alloc_rename_buf[1].wrong
    BY <1>4, <1>6, <2>1, PathAlloc
  <2>3. rollback_just_started /\ v # rollback_target_tag /\ v \notin active_tags
    BY <1>1, <2>1, <2>2 DEF OldMarker
  <2>4. v \notin active_tags' /\ ~Resumes(go)
    BY <2>1, <2>3, PathTagRegisters DEF Resumes
  <2> QED BY <1>2, <1>6, <2>3, <2>4
<1> QED BY <1>5, <1>6

LEMMA FlushKeepsMarkerStep ==
    ASSUME NEW push, NEW go, NEW ex, NEW rp, NEW async, PathStep(push, go, ex, rp, async)
    PROVE  FlushKeepsMarker'
<1> SUFFICES ASSUME StallFlush' PROVE ~Marked(output_pipe)'
  BY DEF FlushKeepsMarker
<1>1. /\ FrontendCycle(go, push, RollbackTag(ex)) /\ ExceptionCycle(rp) /\ ~MarkerAtRisk(push, rp)
  BY CycleParts DEF PathStep
<1>2. TrapInv /\ TrapInv'
  BY DEF PathStep
<1>3. exception_valid' /\ ~stalled_exception'
  BY <1>2 DEF StallFlush, Flushing, TrapInv, TrapsStall
<1>4. ~exception_valid /\ fsm = "NORMAL"
  BY <1>1, <1>2, <1>3 DEF FrontendCycle, TrapInv, TrapsStall
<1>5. \E i \in DOMAIN rob : rob[i].tag \in active_tags /\ (rob[i].rep \/ i \in rp)
  BY <1>1, <1>3, <1>4 DEF ExceptionCycle
<1>6. rp # {}
  BY <1>2, <1>4, <1>5 DEF TrapInv, ReportsHeld
<1> QED BY <1>1, <1>6 DEF MarkerAtRisk, Marked

LEMMA LockInvStep ==
    ASSUME NEW push, NEW go, NEW ex, NEW rp, NEW async, PathStep(push, go, ex, rp, async)
    PROVE  LockInv'
<1> DEFINE b == RollbackTag(ex)
           rolls == b # NoTag
<1>1. TypeOK /\ LockInv /\ Cycle(push, go, ex, rp, async)
  BY DEF PathStep, TypeInv, PathInv
<1>2. /\ rollback_just_started' = (b # NoTag \/ (rollback_just_started /\ ~Resumes(go)))
      /\ frat_lock' = (b # NoTag \/ (frat_lock /\ ~(RenameFires(go) /\ TagValid(instr_tag_buf[1].tag))))
      /\ frat_unlock_tag' = IF b # NoTag THEN NoTag
                            ELSE IF Resumes(go) THEN OutTag(TagCall)
                            ELSE IF frat_lock' THEN frat_unlock_tag ELSE NoTag
      /\ NoTag \notin Tag
  BY PathRollbackRegisters
<1>3. /\ instr_tag_buf # <<>> => instr_tag_buf[1].tag \in Tag /\ instr_tag_buf[1].wrong \in BOOLEAN
      /\ RenameFires(go) => instr_tag_buf # <<>>
      /\ TagFires(go) => instr_tag_buf = <<>> \/ RenameFires(go)
  BY <1>1, PipeContents DEF Tagged, Flag, RenameFires, TagFires
<1>4. /\ TagFires(go) => /\ instr_tag_buf' # <<>>
                         /\ instr_tag_buf'[1].tag = OutTag(TagCall)
                         /\ instr_tag_buf'[1].wrong = (alloc_rename_buf[1].wrong \/ rolls)
      /\ ~TagFires(go) /\ RenameFires(go) => instr_tag_buf' = <<>>
      /\ ~TagFires(go) /\ ~RenameFires(go) =>
            /\ instr_tag_buf = <<>> => instr_tag_buf' = <<>>
            /\ instr_tag_buf # <<>> =>
                  /\ instr_tag_buf' # <<>>
                  /\ instr_tag_buf'[1].tag = instr_tag_buf[1].tag
                  /\ instr_tag_buf'[1].wrong = (instr_tag_buf[1].wrong \/ rolls)
  <2>1. PICK p : SchedulerCycle(go, p, rolls)
    BY <1>1, CycleParts
  <2>2. rolls \in BOOLEAN
    OBVIOUS
  <2> HIDE DEF rolls
  <2> QED BY <1>1, <2>1, <2>2, TagBufStep
<1>5. rollback_just_started' => frat_lock' /\ frat_unlock_tag' = NoTag
  <2> SUFFICES ASSUME rollback_just_started', b = NoTag PROVE frat_lock' /\ frat_unlock_tag' = NoTag
    BY <1>2
  <2>1. rollback_just_started /\ ~Resumes(go) /\ frat_lock /\ frat_unlock_tag = NoTag
    BY <1>1, <1>2 DEF LockInv
  <2>2. RenameFires(go) => ~TagValid(instr_tag_buf[1].tag)
    BY <1>2, <1>3, <2>1 DEF TagValid
  <2> QED BY <1>2, <2>1, <2>2
<1>6. ASSUME ~rollback_just_started', frat_lock'
      PROVE  instr_tag_buf' # <<>> /\ instr_tag_buf'[1].tag = frat_unlock_tag'
  <2>1. b = NoTag
    BY <1>2, <1>6
  <2>2. CASE Resumes(go)
    BY <1>2, <1>4, <2>1, <2>2 DEF Resumes
  <2>3. CASE ~Resumes(go)
    <3>1. ~rollback_just_started /\ frat_lock
      BY <1>2, <1>6, <2>1, <2>3
    <3>2. instr_tag_buf # <<>> /\ instr_tag_buf[1].tag = frat_unlock_tag
      BY <1>1, <3>1 DEF LockInv
    <3>3. ~RenameFires(go) /\ ~TagFires(go)
      BY <1>2, <1>3, <1>6, <2>1, <3>1, <3>2 DEF TagValid
    <3> QED BY <1>2, <1>4, <1>6, <2>1, <2>3, <3>2, <3>3
  <2> QED BY <2>2, <2>3
<1>7. ASSUME instr_tag_buf' # <<>>
      PROVE  instr_tag_buf'[1].wrong <=> rollback_just_started'
  <2>1. CASE TagFires(go)
    BY <1>2, <1>4, <2>1, AllocPath DEF Allocated, Flag
  <2>2. CASE ~TagFires(go)
    <3>1. ~RenameFires(go) /\ instr_tag_buf # <<>> /\ ~Resumes(go)
      BY <1>4, <1>7, <2>2 DEF Resumes
    <3> QED BY <1>1, <1>2, <1>3, <1>4, <2>2, <3>1 DEF LockInv
  <2> QED BY <2>1, <2>2
<1> QED BY <1>5, <1>6, <1>7 DEF LockInv

-----------------------------------------------------------------------------
\* Every cycle keeps the invariant.
LEMMA PathInvCycle ==
    ASSUME NEW push, NEW go, NEW ex, NEW rp, NEW async, PathStep(push, go, ex, rp, async)
    PROVE  PathInv'
<1>1. PathTags'
  BY WrongInactiveStep, ActiveAllocatedStep, BranchEndsTagStep, IssuedOnPathStep DEF PathTags
<1>2. Markers'
  BY OneMarkerStep, OldMarkerStep, FlushKeepsMarkerStep DEF Markers
<1> QED BY <1>1, <1>2, TargetYoungestStep, RolledBackOnceStep, LockInvStep DEF PathInv

\* With the types, the chain of tags and the trap invariant, it is inductive.
LEMMA PathInvNext ==
    ASSUME ~MarkerRace
    PROVE  TypeInv /\ TagInv /\ TrapInv /\ PathInv /\ [Next]_vars => PathInv'
<1> SUFFICES ASSUME TypeInv, TagInv, TrapInv, PathInv, [Next]_vars PROVE PathInv'
  OBVIOUS
<1>1. TypeOK' /\ TrapInv'
  BY TypeInvNext, TrapInvNext DEF TypeInv
<1>2. CASE Next
  <2>1. PICK push \in Deliveries, go \in BOOLEAN, ex \in Executions, rp \in Reports, async \in BOOLEAN :
            Cycle(push, go, ex, rp, async)
    BY <1>2, NextIsCycle
  <2>2. PathStep(push, go, ex, rp, async)
    BY <1>1, <2>1 DEF PathStep
  <2> QED BY <2>2, PathInvCycle
<1>3. CASE UNCHANGED vars
  BY <1>3 DEF vars, cratVars, tagVars, rollbackVars, frontVars, schedVars, backVars, PathInv, PathTags,
              WrongInactive, ActiveAllocated, BranchEndsTag, IssuedOnPath, TargetYoungest, RolledBackOnce,
              Markers, OneMarker, OldMarker, FlushKeepsMarker, MarkerInTagger, MarkerInPipe, MarkerInBuf,
              NoMarker, OldAlloc, Marked, LockInv, InFlight, Instr, TagAge, StallFlush, Flushing
<1> QED BY <1>2, <1>3

\* At reset there is one active tag and nothing is in flight.
LEMMA PathInvInit == Init => PathInv
<1> SUFFICES ASSUME Init PROVE PathInv
  OBVIOUS
<1>1. InFlight = 0
  BY EmptySeq DEF Init, InFlight
<1>2. PathTags
  BY <1>1 DEF Init, CRATInit, PathTags, WrongInactive, ActiveAllocated, BranchEndsTag, IssuedOnPath, TagAge
<1>3. Markers
  BY DEF Init, CRATInit, Markers, OneMarker, OldMarker, FlushKeepsMarker, NoMarker, Marked, StallFlush, Flushing
<1>4. TargetYoungest /\ RolledBackOnce /\ LockInv
  BY DEF Init, CRATInit, TargetYoungest, RolledBackOnce, LockInv
<1> QED BY <1>2, <1>3, <1>4 DEF PathInv

\* Tags "track if instructions are on valid speculation path in the core"
\* (crat.py): the tag of an instruction is inactive exactly when an older branch
\* rolled back after it was fetched, and the renaming accepts exactly the
\* instructions of the valid path; for all numbers of tags, checkpoints and ROB
\* entries, when no stall flush drops the first instruction after a rollback.
THEOREM TagsFollowPath ==
    ASSUME ~MarkerRace
    PROVE  Spec => []TagsTrackPath
<1>1. TypeInv /\ PathInv => TagsTrackPath
  BY PathInvTracks DEF TypeInv
<1>2. TypeInv /\ TagInv /\ TrapInv /\ PathInv /\ [Next]_vars => PathInv'
  BY PathInvNext
<1> QED BY <1>1, <1>2, PathInvInit, TypeInvInit, TypeInvNext, TagInvInit, TagInvNext,
           TrapInvInit, TrapInvNext, PTL DEF Spec

-----------------------------------------------------------------------------
(***************************************************************************)
(* Checkpoints.  The ring of checkpoints holds one for every active tag    *)
(* that has one, in the order of the tags; each holds the register table   *)
(* right after its branch; and the table that renames instructions is the  *)
(* committed one with the renames of the valid path applied.  As before    *)
(* the frontend loses no rollback tag (MarkerRace is FALSE).               *)
(***************************************************************************)
(***************************************************************************)
(* The ring: how far a checkpoint is from the oldest one, the tags whose   *)
(* checkpoint is in use, and where the ring ends.  In the cycle after a    *)
(* rollback the answer of the tag map is about to become the new head.     *)
(***************************************************************************)
RingDist(b, c) == IF c >= b THEN c - b ELSE c + NCheckpoints - b
CpAge(c) == RingDist(checkpoints_tail, c)
LiveTags == (checkpointed_tags \ TakenBack) \cap active_tags
RingHead == IF tag_map_resp = <<>> THEN checkpoints_head ELSE tag_map_resp[1]
RingFull == tag_map_resp = <<>> /\ checkpoints_full
RingCount == IF RingFull THEN NCheckpoints ELSE CpAge(RingHead)

(***************************************************************************)
(* The tags in use map to the checkpoints of the ring, in the same order:  *)
(* T are the tags, by age and by the position of their checkpoint, n is    *)
(* the number of checkpoints in use.                                       *)
(***************************************************************************)
InOrder(T, age, pos, n) ==
    /\ \A t, u \in T : age[t] < age[u] => pos[t] < pos[u]
    /\ \A t \in T : pos[t] < n
    /\ \A c \in 0 .. n - 1 : \E t \in T : pos[t] = c
Distinct(S, age) == \A t, u \in S : age[t] = age[u] => t = u
AgeMap == [t \in Tag |-> TagAge(t)]
PosMap == [t \in Tag |-> CpAge(tag_map[t])]
RingMeets == RingFull => checkpoints_head = checkpoints_tail
RingInv == InOrder(LiveTags, AgeMap, PosMap, RingCount) /\ RingMeets

(***************************************************************************)
(* Tags with a checkpoint are allocated; the branch about to be renamed    *)
(* has none yet, and one that may still roll back has one.                 *)
(***************************************************************************)
Pending(i) == rob[i].br /\ ~rob[i].wrong /\ ~rob[i].done /\ ~rob[i].exe
CheckpointedAllocated == \A t \in checkpointed_tags : TagAge(t) <= TagAge(last_issued_tag)
FreshBranch ==
    /\ ~rollback_just_started /\ ~next_tag_increment => last_issued_tag \notin checkpointed_tags
    /\ instr_tag_buf # <<>> => (instr_tag_buf[1].cp <=> next_tag_increment)
    /\ instr_tag_buf # <<>> /\ ~instr_tag_buf[1].wrong => instr_tag_buf[1].tag \notin checkpointed_tags
BranchCheckpointed == \A i \in DOMAIN rob : Pending(i) => rob[i].tag \in checkpointed_tags

(***************************************************************************)
(* The two stages of a rollback: its tag map answer and then its table are *)
(* on their way; the marker of the new path has not left the tagger.       *)
(***************************************************************************)
Phases ==
    /\ tag_map_resp # <<>> =>
          /\ redirected /\ rollback_tag_s1 = rollback_target_tag
          /\ storage_resp # <<>> => frat_tag_in_next_cycle # rollback_target_tag
    /\ tag_map_resp = <<>> /\ storage_resp # <<>> => frat_tag_in_next_cycle = rollback_target_tag
    /\ last_rollback_finished <=> tag_map_resp = <<>> /\ storage_resp = <<>>
    /\ ~last_rollback_finished => rollback_just_started /\ rollback_tagger = rollback_target_tag

CheckpointInv == CheckpointedAllocated /\ FreshBranch /\ BranchCheckpointed /\ Phases /\ RingInv

CheckpointStep(push, go, ex, rp, async) == PathStep(push, go, ex, rp, async) /\ CheckpointInv

-----------------------------------------------------------------------------
(***************************************************************************)
(* The registers after a cycle.                                            *)
(***************************************************************************)
Creates(go) == RenameFires(go) /\ CommitsCheckpoint(instr_tag_buf[1])
Frees == RetireReady /\ FreesTag

\* The checkpoint registers.
LEMMA CheckpointRegisters ==
    ASSUME NEW push, NEW go, NEW ex, NEW rp, NEW async, PathStep(push, go, ex, rp, async)
    PROVE  /\ Creates(go) => ~checkpoints_full
           /\ checkpoints_tail' = IF Frees /\ FreesCheckpoint
                                  THEN NextCheckpoint(checkpoints_tail) ELSE checkpoints_tail
           /\ checkpoints_head' = IF tag_map_resp # <<>> THEN tag_map_resp[1]
                                  ELSE IF Creates(go) THEN NextCheckpoint(checkpoints_head) ELSE checkpoints_head
           /\ checkpoints_full' = /\ tag_map_resp = <<>>
                                  /\ IF Creates(go) THEN checkpoints_tail' = NextCheckpoint(checkpoints_head)
                                     ELSE checkpoints_full /\ ~(Frees /\ FreesCheckpoint)
           /\ checkpointed_tags' =
                 (checkpointed_tags \cup (IF Creates(go) THEN {instr_tag_buf[1].tag} ELSE {}))
                    \ (TakenBack \cup (IF Frees THEN {tags_tail} ELSE {}))
           /\ create_checkpoint_pipe' = IF Creates(go) THEN <<checkpoints_head>> ELSE <<>>
<1>1. /\ CheckpointsCycle(RenamePart(go), Frees)
      /\ RenameFires(go) => RenameReady(instr_tag_buf[1])
  BY CycleParts DEF PathStep, Frees, RenameFires
<1>2. /\ RenameFires(go) => RenamePart(go) = instr_tag_buf /\ instr_tag_buf # <<>>
      /\ ~RenameFires(go) => RenamePart(go) = <<>>
  BY DEF RenamePart, RenameFires
<1>3. (RenamePart(go) # <<>> /\ CommitsCheckpoint(RenamePart(go)[1])) <=> Creates(go)
  BY <1>2 DEF Creates
<1>4. Creates(go) => RenamePart(go)[1] = instr_tag_buf[1]
  BY <1>2 DEF Creates
<1>5. Creates(go) => ~checkpoints_full
  BY <1>1 DEF Creates, RenameReady
<1> QED BY <1>1, <1>3, <1>4, <1>5 DEF CheckpointsCycle

\* The two memories, at the words that are kept.
LEMMA CheckpointMemories ==
    ASSUME NEW push, NEW go, NEW ex, NEW rp, NEW async, PathStep(push, go, ex, rp, async)
    PROVE  /\ \A t \in checkpointed_tags' \cap active_tags' :
                 tag_map'[t] = IF Creates(go) /\ t = instr_tag_buf[1].tag THEN checkpoints_head ELSE tag_map[t]
           /\ \A t \in checkpointed_tags' \cap active_tags' :
                 storage'[tag_map'[t]] = IF create_checkpoint_pipe = <<tag_map'[t]>> THEN frat
                                         ELSE storage[tag_map'[t]]
<1>1. CheckpointsCycle(RenamePart(go), Frees)
  BY CycleParts DEF PathStep, Frees
<1>2. /\ RenameFires(go) => RenamePart(go) = instr_tag_buf /\ instr_tag_buf # <<>>
      /\ ~RenameFires(go) => RenamePart(go) = <<>>
  BY DEF RenamePart, RenameFires
<1>3. /\ (RenamePart(go) # <<>> /\ CommitsCheckpoint(RenamePart(go)[1])) <=> Creates(go)
      /\ Creates(go) => RenamePart(go)[1] = instr_tag_buf[1]
  BY <1>2 DEF Creates
<1>4. /\ TypeOK /\ TypeOK' /\ tag_map \in [Tag -> Checkpoint] /\ tag_map' \in [Tag -> Checkpoint]
      /\ storage \in [Checkpoint -> RAT] /\ checkpointed_tags' \subseteq Tag
      /\ create_checkpoint_pipe \in AtMostOne(Checkpoint)
  BY DEF PathStep, TypeInv, TypeOK, CRATTypeOK
<1>5. tag_map' = KeepMap(IF Creates(go) THEN [tag_map EXCEPT ![instr_tag_buf[1].tag] = checkpoints_head]
                         ELSE tag_map)
  BY <1>1, <1>3 DEF CheckpointsCycle
<1>6. storage' = KeepStorage(IF create_checkpoint_pipe = <<>> THEN storage
                             ELSE [storage EXCEPT ![create_checkpoint_pipe[1]] = frat])
  BY <1>1 DEF CheckpointsCycle
<1>7. ASSUME NEW t \in checkpointed_tags' \cap active_tags'
      PROVE  tag_map'[t] = IF Creates(go) /\ t = instr_tag_buf[1].tag THEN checkpoints_head ELSE tag_map[t]
  BY <1>4, <1>5 DEF KeepMap
<1>8. ASSUME NEW t \in checkpointed_tags' \cap active_tags'
      PROVE  storage'[tag_map'[t]] = IF create_checkpoint_pipe = <<tag_map'[t]>> THEN frat
                                     ELSE storage[tag_map'[t]]
  <2>1. PICK c \in Checkpoint : c = tag_map'[t]
    BY <1>4
  <2>2. storage'[c] = (IF create_checkpoint_pipe = <<>> THEN storage
                       ELSE [storage EXCEPT ![create_checkpoint_pipe[1]] = frat])[c]
    BY <1>6, <2>1 DEF KeepStorage
  <2>3. create_checkpoint_pipe = <<c>> <=> create_checkpoint_pipe # <<>> /\ create_checkpoint_pipe[1] = c
    BY <1>4, PipeElement
  <2>4. storage'[c] = IF create_checkpoint_pipe = <<c>> THEN frat ELSE storage[c]
    BY <1>4, <2>2, <2>3
  <2> QED BY <2>1, <2>4
<1> QED BY <1>7, <1>8

\* The registers of the two rollback stages.
LEMMA StageRegisters ==
    ASSUME NEW push, NEW go, NEW ex, NEW rp, NEW async, PathStep(push, go, ex, rp, async)
    PROVE  /\ rollback_tag_s1' = IF RollbackTag(ex) # NoTag THEN RollbackTag(ex) ELSE rollback_tag_s1
           /\ frat_tag_in_next_cycle' = IF tag_map_resp # <<>> THEN rollback_tag_s1 ELSE frat_tag_in_next_cycle
           /\ tag_map_resp' = IF RollbackTag(ex) # NoTag THEN <<tag_map[RollbackTag(ex)]>> ELSE <<>>
           /\ storage_resp' = IF tag_map_resp # <<>> THEN <<storage[tag_map_resp[1]]>> ELSE <<>>
           /\ last_rollback_finished' =
                 /\ RollbackTag(ex) = NoTag
                 /\ IF storage_resp # <<>> THEN rollback_target_tag = frat_tag_in_next_cycle
                    ELSE last_rollback_finished
           /\ redirected' = (RollbackTag(ex) # NoTag \/ Resuming)
<1>1. /\ RollbackCycle(TagPart(go), RenamePart(go), RollbackTag(ex))
      /\ FrontendCycle(go, push, RollbackTag(ex))
  BY CycleParts DEF PathStep
<1> QED BY <1>1 DEF RollbackCycle, FrontendCycle

\* The youngest tagged instruction waits in instr_tag_buf, with the tag issued last;
\* the renaming accepts it if it is on the valid path, and then no restore is under way.
LEMMA Renaming ==
    ASSUME NEW push, NEW go, NEW ex, NEW rp, NEW async, CheckpointStep(push, go, ex, rp, async),
           instr_tag_buf # <<>>
    PROVE  /\ instr_tag_buf[1] \in Tagged
           /\ instr_tag_buf[1].tag = last_issued_tag
           /\ InFlight \in 1 .. InFlight /\ Instr(InFlight) = instr_tag_buf[1]
           /\ TagValid(instr_tag_buf[1].tag) <=> ~instr_tag_buf[1].wrong
           /\ instr_tag_buf[1].wrong <=> rollback_just_started
           /\ instr_tag_buf[1].wrong <=> instr_tag_buf[1].tag \notin active_tags
           /\ ~instr_tag_buf[1].wrong => tag_map_resp = <<>> /\ storage_resp = <<>> /\ last_rollback_finished
           /\ ~(Frees /\ instr_tag_buf[1].tag = tags_tail)
<1>1. TypeOK /\ TagInv /\ PathInv /\ Phases /\ LockInv
  BY DEF CheckpointStep, PathStep, TypeInv, PathInv, CheckpointInv
<1> DEFINE r == instr_tag_buf[1]
           n == Len(rob)
           m == InFlight
<1>2. r \in Tagged /\ r.tag \in Tag /\ r.wrong \in BOOLEAN /\ NoTag \notin Tag
  BY <1>1, PipeContents, TagsAssumption DEF Tagged, Flag, Tag, NoTag
<1>3. n \in Nat /\ m = n + 1
  BY <1>1, InstrType
<1>4. m \in 1 .. m /\ ~(m <= n) /\ m + 1 # 1 /\ (m + 1) - 1 = m
  <2> HIDE DEF n, m
  <2> QED BY <1>3
<1>5. Instr(m) = r
  BY <1>4 DEF Instr
<1>6. r.tag = last_issued_tag
  <2>1. TagAge(last_issued_tag) = TagAge(r.tag)
    BY <1>1, <1>4, <1>5 DEF TagInv, LastIssued, AgeBefore
  <2> QED BY <1>1, <1>2, <2>1, AgeType, AgeIsRingAge, RingArithmetic
<1>7. r.wrong <=> r.tag \notin active_tags
  BY <1>1, <1>4, <1>5 DEF PathInv, PathTags, WrongInactive
<1>8. r.wrong <=> rollback_just_started
  BY <1>1 DEF LockInv
<1>9. TagValid(r.tag) <=> ~r.wrong
  BY <1>1, <1>2 DEF LockInv, TagValid
<1>10. ~r.wrong => tag_map_resp = <<>> /\ storage_resp = <<>> /\ last_rollback_finished
  BY <1>1, <1>8 DEF Phases
<1>11. ~(Frees /\ r.tag = tags_tail)
  <2> SUFFICES ASSUME Frees, r.tag = tags_tail PROVE FALSE
    OBVIOUS
  <2>1. TagAge(last_issued_tag) >= 1
    BY <1>1, AgeAfterRetired DEF Frees, FreeStep
  <2>2. TagAge(last_issued_tag) = 0
    BY <1>1, <1>2, <1>6, <2>1, AgeIsRingAge, RingArithmetic
  <2> QED BY <2>1, <2>2
<1> QED BY <1>2, <1>4, <1>5, <1>6, <1>7, <1>8, <1>9, <1>10, <1>11

\* A branch that gets a checkpoint is the youngest instruction of the valid path,
\* and all checkpoints in use belong to older tags.
LEMMA Creating ==
    ASSUME NEW push, NEW go, NEW ex, NEW rp, NEW async, CheckpointStep(push, go, ex, rp, async),
           Creates(go)
    PROVE  /\ instr_tag_buf # <<>> /\ ~instr_tag_buf[1].wrong
           /\ instr_tag_buf[1].tag = last_issued_tag /\ last_issued_tag \in Tag
           /\ last_issued_tag \notin checkpointed_tags /\ last_issued_tag \in active_tags
           /\ next_tag_increment /\ ~rollback_just_started
           /\ tag_map_resp = <<>> /\ storage_resp = <<>> /\ ~checkpoints_full
           /\ ~(Frees /\ last_issued_tag = tags_tail)
           /\ \A t \in checkpointed_tags : TagAge(t) < TagAge(last_issued_tag)
<1> DEFINE r == instr_tag_buf[1]
<1>1. /\ instr_tag_buf # <<>> /\ r.cp /\ TagValid(r.tag) /\ RenameFires(go)
      /\ PathStep(push, go, ex, rp, async) /\ TypeOK
  BY DEF Creates, RenameFires, CommitsCheckpoint, CheckpointStep, PathStep, TypeInv
<1>2. /\ r \in Tagged /\ r.tag = last_issued_tag /\ ~r.wrong /\ ~rollback_just_started
      /\ r.tag \in active_tags /\ tag_map_resp = <<>> /\ storage_resp = <<>>
      /\ ~(Frees /\ r.tag = tags_tail)
  BY <1>1, Renaming DEF Tagged, Flag
<1>3. ~checkpoints_full
  BY <1>1, CheckpointRegisters
<1>4. next_tag_increment /\ r.tag \notin checkpointed_tags
  BY <1>1, <1>2 DEF CheckpointStep, CheckpointInv, FreshBranch
<1>5. ASSUME NEW t \in checkpointed_tags PROVE TagAge(t) < TagAge(last_issued_tag)
  <2>1. t \in Tag /\ last_issued_tag \in Tag /\ t # last_issued_tag /\ tags_tail \in Tag
    BY <1>1, <1>2, <1>4 DEF TypeOK, CRATTypeOK
  <2>2. TagAge(t) <= TagAge(last_issued_tag)
    BY DEF CheckpointStep, CheckpointInv, CheckpointedAllocated
  <2>3. TagAge(t) # TagAge(last_issued_tag)
    BY <2>1, AgeIsRingAge, RingArithmetic
  <2>4. TagAge(t) \in Nat /\ TagAge(last_issued_tag) \in Nat
    BY <1>1, <2>1, AgeType, TagsAssumption
  <2> DEFINE x == TagAge(t)
             y == TagAge(last_issued_tag)
  <2>5. x < y
    <3>1. x <= y /\ x # y /\ x \in Nat /\ y \in Nat
      BY <2>2, <2>3, <2>4
    <3> HIDE DEF x, y
    <3> QED BY <3>1
  <2> QED BY <2>5
<1>6. last_issued_tag \in Tag
  BY <1>2 DEF Tagged
<1> QED BY <1>1, <1>2, <1>3, <1>4, <1>5, <1>6

-----------------------------------------------------------------------------
(***************************************************************************)
(* Which tags have a checkpoint.                                           *)
(***************************************************************************)
LEMMA CheckpointedAllocatedStep ==
    ASSUME NEW push, NEW go, NEW ex, NEW rp, NEW async, CheckpointStep(push, go, ex, rp, async)
    PROVE  CheckpointedAllocated'
<1>1. PathStep(push, go, ex, rp, async) /\ TypeOK /\ TypeOK'
  BY DEF CheckpointStep, PathStep, TypeInv
<1> SUFFICES ASSUME NEW t \in checkpointed_tags'
             PROVE  TagAge(t)' <= TagAge(last_issued_tag)'
  BY DEF CheckpointedAllocated
<1>2. /\ t \in Tag /\ ~(RetireReady /\ FreesTag /\ t = tags_tail)
      /\ t \in checkpointed_tags \/ (Creates(go) /\ t = last_issued_tag)
  <2>1. checkpointed_tags' \subseteq Tag
    BY <1>1 DEF TypeOK, CRATTypeOK
  <2>2. checkpointed_tags' =
          (checkpointed_tags \cup (IF Creates(go) THEN {instr_tag_buf[1].tag} ELSE {}))
             \ (TakenBack \cup (IF Frees THEN {tags_tail} ELSE {}))
    BY <1>1, CheckpointRegisters
  <2>3. Creates(go) => instr_tag_buf[1].tag = last_issued_tag
    BY Creating
  <2> QED BY <2>1, <2>2, <2>3 DEF Frees
<1>3. TagAge(t) <= TagAge(last_issued_tag)
  <2>1. CASE t \in checkpointed_tags
    BY <2>1 DEF CheckpointStep, CheckpointInv, CheckpointedAllocated
  <2>2. CASE t = last_issued_tag
    <3>1. TagAge(t) \in Nat BY <1>1, <1>2, AgeType, TagsAssumption
    <3> QED BY <2>2, <3>1
  <2> QED BY <1>2, <2>1, <2>2
<1> QED BY <1>1, <1>2, <1>3, AllocatedStays

\* The next tag has no checkpoint yet.
LEMMA HeadNotCheckpointed ==
    ASSUME NEW push, NEW go, NEW ex, NEW rp, NEW async, CheckpointStep(push, go, ex, rp, async),
           TagFires(go), TagIncrement(TagCall)
    PROVE  tags_head \notin checkpointed_tags' /\ tags_head # last_issued_tag
<1>1. PathStep(push, go, ex, rp, async) /\ TypeOK /\ TagInv
  BY DEF CheckpointStep, PathStep, TypeInv
<1>2. tags_head # tags_tail
  BY <1>1, PathTagRegisters
<1>3. TagAge(tags_head) = TagAge(last_issued_tag) + 1 /\ last_issued_tag # tags_head
  BY <1>1, <1>2, HeadIsNew
<1>4. tags_head \notin checkpointed_tags
  <2> SUFFICES ASSUME tags_head \in checkpointed_tags PROVE FALSE
    OBVIOUS
  <2> DEFINE x == TagAge(last_issued_tag)
  <2>1. x \in Nat
    BY <1>1, AgeType, TagsAssumption
  <2>2. TagAge(tags_head) <= x
    BY DEF CheckpointStep, CheckpointInv, CheckpointedAllocated
  <2>3. x + 1 <= x
    BY <1>3, <2>2
  <2> HIDE DEF x
  <2> QED BY <2>1, <2>3
<1> QED BY <1>1, <1>3, <1>4, CheckpointRegisters, Creating

LEMMA FreshBranchStep ==
    ASSUME NEW push, NEW go, NEW ex, NEW rp, NEW async, CheckpointStep(push, go, ex, rp, async)
    PROVE  FreshBranch'
<1> DEFINE b == RollbackTag(ex)
           rolls == b # NoTag
           r == instr_tag_buf[1]
<1>1. /\ PathStep(push, go, ex, rp, async) /\ TypeOK /\ LockInv /\ FreshBranch
      /\ Cycle(push, go, ex, rp, async)
  BY DEF CheckpointStep, PathStep, TypeInv, PathInv, CheckpointInv
<1>2. /\ rollback_just_started' = (b # NoTag \/ (rollback_just_started /\ ~Resumes(go)))
  BY <1>1, PathRollbackRegisters
<1>3. /\ last_issued_tag' = IF TagFires(go) THEN OutTag(TagCall) ELSE last_issued_tag
      /\ next_tag_increment' = IF TagFires(go) THEN OutCheckpoint(TagCall) ELSE next_tag_increment
  BY <1>1, PathTagRegisters
<1>4. PICK p : SchedulerCycle(go, p, rolls)
  BY <1>1, CycleParts
<1>5. /\ TagFires(go) => /\ instr_tag_buf' # <<>>
                         /\ instr_tag_buf'[1].tag = OutTag(TagCall)
                         /\ instr_tag_buf'[1].wrong = (alloc_rename_buf[1].wrong \/ rolls)
      /\ ~TagFires(go) /\ RenameFires(go) => instr_tag_buf' = <<>>
      /\ ~TagFires(go) /\ ~RenameFires(go) =>
            /\ instr_tag_buf = <<>> => instr_tag_buf' = <<>>
            /\ instr_tag_buf # <<>> =>
                  /\ instr_tag_buf' # <<>>
                  /\ instr_tag_buf'[1].tag = instr_tag_buf[1].tag
                  /\ instr_tag_buf'[1].wrong = (instr_tag_buf[1].wrong \/ rolls)
  <2>1. rolls \in BOOLEAN
    OBVIOUS
  <2> HIDE DEF rolls
  <2> QED BY <1>1, <1>4, <2>1, TagBufStep
<1>6. TagFires(go) => instr_tag_buf'[1].cp = OutCheckpoint(TagCall)
  <2> SUFFICES ASSUME TagFires(go) PROVE instr_tag_buf'[1].cp = OutCheckpoint(TagCall)
    OBVIOUS
  <2>1. instr_tag_buf'[1] =
          [rl |-> alloc_rename_buf[1].rl, br |-> alloc_rename_buf[1].br, rp |-> alloc_rename_buf[1].rp,
           tag |-> OutTag(TagCall), inc |-> TagIncrement(TagCall), cp |-> OutCheckpoint(TagCall),
           wrong |-> alloc_rename_buf[1].wrong \/ rolls]
    BY <1>4 DEF SchedulerCycle, PipeNext
  <2> QED BY <2>1
<1>7. ~TagFires(go) /\ ~RenameFires(go) /\ instr_tag_buf # <<>> => instr_tag_buf'[1].cp = instr_tag_buf[1].cp
  <2> SUFFICES ASSUME ~TagFires(go), ~RenameFires(go), instr_tag_buf # <<>>
               PROVE  instr_tag_buf'[1].cp = instr_tag_buf[1].cp
    OBVIOUS
  <2>1. instr_tag_buf' = IF rolls THEN <<[instr_tag_buf[1] EXCEPT !.wrong = TRUE]>> ELSE instr_tag_buf
    BY <1>4 DEF SchedulerCycle, PipeNext
  <2>2. instr_tag_buf[1] \in Tagged
    BY <1>1, PipeContents
  <2>3. instr_tag_buf'[1] = IF rolls THEN [instr_tag_buf[1] EXCEPT !.wrong = TRUE] ELSE instr_tag_buf[1]
    BY <2>1
  <2> QED BY <2>2, <2>3 DEF Tagged, Flag
<1>8. /\ ~Creates(go) => checkpointed_tags' \subseteq checkpointed_tags
      /\ Creates(go) => next_tag_increment /\ ~rollback_just_started /\ RenameFires(go)
  BY <1>1, CheckpointRegisters, Creating DEF Creates
<1>9. ASSUME TagFires(go), TagOnPath(TagCall) PROVE OutTag(TagCall) \notin checkpointed_tags'
  <2>1. CASE TagIncrement(TagCall)
    BY <1>9, <2>1, HeadNotCheckpointed DEF OutTag
  <2>2. CASE ~TagIncrement(TagCall)
    <3>1. ~next_tag_increment /\ ~rollback_just_started /\ OutTag(TagCall) = last_issued_tag
      BY <1>9, <2>2 DEF TagIncrement, TagOnPath, OutTag
    <3> QED BY <1>1, <1>8, <3>1 DEF FreshBranch
  <2> QED BY <2>1, <2>2
<1>10. ASSUME ~rollback_just_started', ~next_tag_increment'
       PROVE  last_issued_tag' \notin checkpointed_tags'
  <2>1. b = NoTag /\ (~rollback_just_started \/ Resumes(go))
    BY <1>2, <1>10
  <2>2. CASE TagFires(go)
    <3>1. TagOnPath(TagCall)
      BY <1>1, <2>1, <2>2, AllocPath
    <3> QED BY <1>3, <1>9, <2>2, <3>1
  <2>3. CASE ~TagFires(go)
    <3>1. ~rollback_just_started /\ ~next_tag_increment /\ last_issued_tag' = last_issued_tag
      BY <1>3, <1>10, <2>1, <2>3 DEF Resumes
    <3> QED BY <1>1, <1>8, <3>1 DEF FreshBranch
  <2> QED BY <2>2, <2>3
<1>11. ASSUME instr_tag_buf' # <<>>
       PROVE  instr_tag_buf'[1].cp <=> next_tag_increment'
  <2>1. CASE TagFires(go)
    BY <1>3, <1>6, <2>1
  <2>2. CASE ~TagFires(go)
    BY <1>1, <1>3, <1>5, <1>7, <1>11, <2>2 DEF FreshBranch
  <2> QED BY <2>1, <2>2
<1>12. ASSUME instr_tag_buf' # <<>>, ~instr_tag_buf'[1].wrong
       PROVE  instr_tag_buf'[1].tag \notin checkpointed_tags'
  <2>1. CASE TagFires(go)
    <3>1. TagOnPath(TagCall)
      BY <1>1, <1>5, <1>12, <2>1, AllocPath DEF Allocated, Flag
    <3> QED BY <1>5, <1>9, <2>1, <3>1
  <2>2. CASE ~TagFires(go)
    <3>1. /\ ~RenameFires(go) /\ instr_tag_buf # <<>> /\ ~instr_tag_buf[1].wrong
          /\ instr_tag_buf'[1].tag = instr_tag_buf[1].tag
      BY <1>5, <1>12, <2>2
    <3> QED BY <1>1, <1>8, <3>1 DEF FreshBranch
  <2> QED BY <2>1, <2>2
<1> QED BY <1>10, <1>11, <1>12 DEF FreshBranch

\* The ROB after the step: an entry is one that was kept, with its verdict, or the
\* one that is renamed.
LEMMA RobAfter ==
    ASSUME NEW push, NEW go, NEW ex, NEW rp, NEW async, PathStep(push, go, ex, rp, async),
           NEW i \in DOMAIN rob'
    PROVE  \/ /\ i \in 1 .. Len(rob) - Retired /\ i + Retired \in DOMAIN rob
              /\ rob'[i] = UpdatedEntry(i + Retired, ex, rp)
           \/ /\ RenameFires(go) /\ i = Len(rob') /\ i = Len(rob) - Retired + 1
              /\ rob'[i] = RobEntry(instr_tag_buf[1], RollbackTag(ex) # NoTag)
<1> DEFINE r == Retired
           n == Len(rob)
           n2 == Len(rob')
           fires == RenameFires(go)
<1>1. /\ TypeOK /\ TypeOK' /\ ex \in Executions /\ rp \in Reports /\ RobCycle(go, ex, rp)
  BY CycleParts DEF PathStep, TypeInv
<1>2. /\ r \in Nat /\ n \in Nat /\ r <= n /\ DOMAIN rob = 1 .. n
      /\ \A k \in 1 .. n - r : rob'[k] = UpdatedEntry(k + r, ex, rp)
      /\ fires => rob'[n2] = RobEntry(instr_tag_buf[1], RollbackTag(ex) # NoTag)
      /\ n2 = n - r + (IF fires THEN 1 ELSE 0)
      /\ DOMAIN rob' = 1 .. n2
  BY <1>1, RobStep, RetiringInRob, LenProperties, InstrType DEF TypeOK
<1>3. \/ i \in 1 .. n - r /\ i + r \in 1 .. n
      \/ fires /\ i = n2 /\ i = n - r + 1
  <2> HIDE DEF r, n, n2, fires
  <2> QED BY <1>2
<1> QED BY <1>2, <1>3

\* The fields of an entry that is kept.
LEMMA EntryAfter ==
    ASSUME TypeOK, NEW ex \in Executions, NEW rp, NEW j \in DOMAIN rob
    PROVE  LET e == UpdatedEntry(j, ex, rp)
           IN /\ e.br = rob[j].br /\ e.tag = rob[j].tag /\ e.rl = rob[j].rl /\ e.rp = rob[j].rp
              /\ e.wrong = (rob[j].wrong \/ (RollbackTag(ex) # NoTag /\ j > ex[1].at))
              /\ e.br /\ ~e.wrong /\ ~e.done /\ ~e.exe => Pending(j)
              /\ ex # <<>> /\ ex[1].at = j => e.exe \/ e.done
<1>1. rob[j] \in Entry
  BY RobElement
<1>2. ex # <<>> => ex[1].ann \in BOOLEAN
  BY RollbackTagType DEF Execution
<1> DEFINE e == UpdatedEntry(j, ex, rp)
           hit == ex # <<>> /\ ex[1].at = j
<1>3. /\ e.br = rob[j].br /\ e.tag = rob[j].tag /\ e.rl = rob[j].rl /\ e.rp = rob[j].rp
      /\ e.wrong = (rob[j].wrong \/ (RollbackTag(ex) # NoTag /\ j > ex[1].at))
  BY <1>1 DEF UpdatedEntry, Entry, Flag
<1>4. ~hit => e.exe = rob[j].exe /\ e.done = rob[j].done
  BY <1>1 DEF UpdatedEntry, Entry, Flag
<1>5. hit => e.exe = ~ex[1].ann /\ e.done = (rob[j].done \/ ex[1].ann)
  BY <1>1, <1>2 DEF UpdatedEntry, Entry, Flag
<1>6. hit => e.exe \/ e.done
  BY <1>2, <1>5
<1> HIDE DEF e
<1> QED BY <1>3, <1>4, <1>6 DEF Pending, e

\* The fields of the entry that is renamed.
LEMMA NewEntry ==
    ASSUME NEW r, NEW rolls
    PROVE  LET e == RobEntry(r, rolls)
           IN /\ e.br = r.br /\ e.tag = r.tag /\ e.rl = r.rl /\ e.rp = r.rp
              /\ e.wrong = (r.wrong \/ rolls) /\ ~e.done /\ ~e.exe
BY DEF RobEntry

LEMMA BranchCheckpointedStep ==
    ASSUME NEW push, NEW go, NEW ex, NEW rp, NEW async, CheckpointStep(push, go, ex, rp, async)
    PROVE  BranchCheckpointed'
<1>1. /\ PathStep(push, go, ex, rp, async) /\ TypeOK /\ TypeOK' /\ TagInv /\ PathInv
      /\ CheckpointInv /\ ex \in Executions
  BY DEF CheckpointStep, PathStep, TypeInv
<1> SUFFICES ASSUME NEW i \in DOMAIN rob',
                    rob'[i].br, ~rob'[i].wrong, ~rob'[i].done, ~rob'[i].exe
             PROVE  rob'[i].tag \in checkpointed_tags'
  BY DEF BranchCheckpointed, Pending
<1>2. checkpointed_tags' =
         (checkpointed_tags \cup (IF Creates(go) THEN {instr_tag_buf[1].tag} ELSE {}))
            \ (TakenBack \cup (IF Frees THEN {tags_tail} ELSE {}))
  BY <1>1, CheckpointRegisters
<1>3. TakenBack # {} => rollback_just_started /\ TakenBack = {rollback_target_tag}
  BY <1>1 DEF TakenBack, CheckpointInv, Phases
<1>4. CASE /\ i \in 1 .. Len(rob) - Retired /\ i + Retired \in DOMAIN rob
           /\ rob'[i] = UpdatedEntry(i + Retired, ex, rp)
  <2> DEFINE j == i + Retired
  <2>1. j \in DOMAIN rob /\ Pending(j) /\ rob'[i].tag = rob[j].tag
    BY <1>1, <1>4, EntryAfter
  <2>2. rob[j].tag \in checkpointed_tags
    BY <1>1, <2>1 DEF CheckpointInv, BranchCheckpointed
  <2>3. rob[j].tag \notin TakenBack
    BY <1>1, <1>3, <2>1 DEF PathInv, RolledBackOnce, Pending
  <2>4. ~(Frees /\ rob[j].tag = tags_tail)
    <3> SUFFICES ASSUME Frees, rob[j].tag = tags_tail PROVE FALSE
      OBVIOUS
    <3>1. j \in Retired + 1 .. InFlight /\ Instr(j) = rob[j]
      <4> DEFINE r == Retired
                 n == Len(rob)
                 m == InFlight
      <4>1. r \in Nat /\ n \in Nat /\ m \in Nat /\ n <= m /\ DOMAIN rob = 1 .. n
        BY <1>1, RetiringInRob, InstrType
      <4>2. j \in r + 1 .. m /\ j <= n
        <5>1. i \in 1 .. n - r /\ j = i + r BY <1>4
        <5> HIDE DEF r, n, m, j
        <5> QED BY <4>1, <5>1
      <4> QED BY <4>2 DEF Instr
    <3>2. TagAge(rob[j].tag) >= 1
      BY <1>1, <3>1, AgeAfterRetired DEF FreeStep, Frees
    <3>3. TagAge(rob[j].tag) = 0
      BY <1>1, AgeType, AgeIsRingAge, RingArithmetic
    <3> QED BY <3>2, <3>3
  <2> QED BY <1>2, <2>1, <2>2, <2>3, <2>4
<1>5. CASE /\ RenameFires(go)
           /\ rob'[i] = RobEntry(instr_tag_buf[1], RollbackTag(ex) # NoTag)
  <2> DEFINE r == instr_tag_buf[1]
  <2>1. instr_tag_buf # <<>> /\ r.br /\ ~r.wrong /\ rob'[i].tag = r.tag
    <3>1. instr_tag_buf # <<>> /\ r \in Tagged
      BY <1>1, <1>5, PipeContents DEF RenameFires
    <3>2. PICK e : e = rob'[i]
      OBVIOUS
    <3>3. PICK rolls : rolls = (RollbackTag(ex) # NoTag)
      OBVIOUS
    <3>4. e.br /\ ~e.wrong
      BY <3>2
    <3>5. e = RobEntry(r, rolls)
      BY <1>5, <3>2, <3>3
    <3>6. e.br = r.br /\ e.tag = r.tag /\ e.wrong = (r.wrong \/ rolls)
      <4> HIDE DEF r
      <4>1. /\ RobEntry(r, rolls).br = r.br /\ RobEntry(r, rolls).tag = r.tag
            /\ RobEntry(r, rolls).wrong = (r.wrong \/ rolls)
        BY NewEntry
      <4> QED BY <3>5, <4>1
    <3>7. r.br /\ ~r.wrong
      <4> HIDE DEF r
      <4> QED BY <3>4, <3>6
    <3> QED BY <3>1, <3>2, <3>6, <3>7
  <2>2. next_tag_increment
    <3>1. InFlight \in 1 .. InFlight /\ Instr(InFlight) = r /\ InFlight \in Nat
      BY <1>1, <2>1, Renaming, InstrType
    <3>2. ~(InFlight < InFlight)
      BY <3>1
    <3> QED BY <1>1, <2>1, <3>1, <3>2 DEF PathInv, PathTags, BranchEndsTag
  <2>3. Creates(go)
    BY <1>1, <1>5, <2>1, <2>2, Renaming DEF Creates, CommitsCheckpoint, CheckpointInv, FreshBranch
  <2>4. TakenBack = {} /\ ~(Frees /\ r.tag = tags_tail)
    BY <2>3, Creating DEF TakenBack
  <2> QED BY <1>2, <2>1, <2>3, <2>4
<1> QED BY <1>1, <1>4, <1>5, RobAfter

-----------------------------------------------------------------------------
(***************************************************************************)
(* The stages of a rollback.                                               *)
(***************************************************************************)

\* The branch that rolls back has a checkpoint, and it is not the one that rolled
\* back last when that rollback is still under way.
LEMMA RollingBack ==
    ASSUME NEW push, NEW go, NEW ex, NEW rp, NEW async, CheckpointStep(push, go, ex, rp, async),
           RollbackTag(ex) # NoTag
    PROVE  /\ ex # <<>> /\ ex[1].at \in DOMAIN rob /\ Pending(ex[1].at) /\ ex[1].at > Retired
           /\ rob[ex[1].at].tag = RollbackTag(ex) /\ RollbackTag(ex) \in Tag
           /\ RollbackTag(ex) \in checkpointed_tags /\ RollbackTag(ex) \in active_tags
           /\ rollback_just_started => RollbackTag(ex) # rollback_target_tag
           /\ RollbackTag(ex) \in LiveTags
           /\ fsm = "NORMAL"
<1>1. TypeOK /\ PathInv /\ CheckpointInv /\ ex \in Executions /\ TypeInv /\ TrapInv
  BY DEF CheckpointStep, PathStep, TypeInv
<1> DEFINE at == ex[1].at
<1>2. /\ ex # <<>> /\ at \in DOMAIN rob /\ at \in 1 .. InFlight /\ Instr(at) = rob[at]
      /\ rob[at].tag = RollbackTag(ex) /\ RollbackTag(ex) \in Tag /\ RollbackTag(ex) \in active_tags
      /\ rob[at].br /\ ~rob[at].exe /\ ~rob[at].done /\ at > Retired
  BY <1>1, RollbackFacts
<1>3. ~rob[at].wrong
  BY <1>1, <1>2 DEF PathInv, PathTags, WrongInactive
<1>4. Pending(at) /\ RollbackTag(ex) \in checkpointed_tags
  BY <1>1, <1>2, <1>3 DEF Pending, CheckpointInv, BranchCheckpointed
<1>5. rollback_just_started => RollbackTag(ex) # rollback_target_tag
  BY <1>1, <1>2, <1>3 DEF PathInv, RolledBackOnce
<1>6. RollbackTag(ex) \in LiveTags
  BY <1>1, <1>2, <1>4, <1>5 DEF LiveTags, TakenBack, CheckpointInv, Phases
<1>7. fsm = "NORMAL"
  <2>1. fsm # "TRAP_FLUSH"
    <3>1. ex[1] \in Execution /\ CanExecute(ex[1]) /\ ex[1].mis
      BY <1>1, <1>2 DEF Executions, RollbackTag
    <3> QED BY <3>1 DEF CanExecute, ActiveTags, Flushing
  <2>2. fsm # "TRAP_RESUME"
    <3> DEFINE la == Len(alloc_rename_buf)
               lt == Len(instr_tag_buf)
               n == Len(rob)
    <3>1. la \in Nat /\ lt \in Nat /\ core_counter = la + lt + n
      BY <1>1 DEF TypeInv, CounterExact, TypeOK, AtMostOne
    <3>2. n \in Nat /\ n # 0
      <4>1. at \in 1 .. n /\ n \in Nat
        BY <1>1, <1>2, InstrType
      <4> HIDE DEF n, at
      <4> QED BY <4>1
    <3>3. core_counter # 0
      <4> HIDE DEF n, la, lt
      <4> QED BY <3>1, <3>2
    <3> QED BY <1>1, <3>3 DEF TrapInv, ResumeEmpty
  <2> QED BY <1>1, <2>1, <2>2 DEF TypeOK
<1> QED BY <1>2, <1>4, <1>5, <1>6, <1>7

LEMMA PhasesStep ==
    ASSUME NEW push, NEW go, NEW ex, NEW rp, NEW async, CheckpointStep(push, go, ex, rp, async)
    PROVE  Phases'
<1> DEFINE b == RollbackTag(ex)
<1>1. PathStep(push, go, ex, rp, async) /\ Phases /\ TypeOK
  BY DEF CheckpointStep, PathStep, TypeInv, CheckpointInv
<1>2. /\ rollback_tag_s1' = IF b # NoTag THEN b ELSE rollback_tag_s1
      /\ frat_tag_in_next_cycle' = IF tag_map_resp # <<>> THEN rollback_tag_s1 ELSE frat_tag_in_next_cycle
      /\ tag_map_resp' # <<>> <=> b # NoTag
      /\ storage_resp' # <<>> <=> tag_map_resp # <<>>
      /\ last_rollback_finished' =
            /\ b = NoTag
            /\ IF storage_resp # <<>> THEN rollback_target_tag = frat_tag_in_next_cycle
               ELSE last_rollback_finished
      /\ redirected' = (b # NoTag \/ Resuming)
  <2>1. /\ rollback_tag_s1' = IF b # NoTag THEN b ELSE rollback_tag_s1
        /\ frat_tag_in_next_cycle' = IF tag_map_resp # <<>> THEN rollback_tag_s1 ELSE frat_tag_in_next_cycle
        /\ redirected' = (b # NoTag \/ Resuming)
        /\ last_rollback_finished' =
              /\ b = NoTag
              /\ IF storage_resp # <<>> THEN rollback_target_tag = frat_tag_in_next_cycle
                 ELSE last_rollback_finished
    BY <1>1, StageRegisters
  <2>2. tag_map_resp' # <<>> <=> b # NoTag
    <3>1. tag_map_resp' = IF b # NoTag THEN <<tag_map[b]>> ELSE <<>>
      BY <1>1, StageRegisters
    <3> QED BY <3>1
  <2>3. storage_resp' # <<>> <=> tag_map_resp # <<>>
    <3>1. storage_resp' = IF tag_map_resp # <<>> THEN <<storage[tag_map_resp[1]]>> ELSE <<>>
      BY <1>1, StageRegisters
    <3> QED BY <3>1
  <2> QED BY <2>1, <2>2, <2>3
<1>3. /\ rollback_just_started' = (b # NoTag \/ (rollback_just_started /\ ~Resumes(go)))
      /\ rollback_target_tag' = IF b # NoTag THEN b ELSE rollback_target_tag
      /\ rollback_target_tag # NoTag
  BY <1>1, PathRollbackRegisters
<1>4. b # NoTag /\ rollback_just_started => b # rollback_target_tag
  BY RollingBack
<1>5. ~last_rollback_finished => rollback_just_started /\ ~Resumes(go)
  <2> SUFFICES ASSUME ~last_rollback_finished PROVE rollback_just_started /\ ~Resumes(go)
    OBVIOUS
  <2>1. rollback_just_started /\ rollback_tagger # NoTag
    BY <1>1, <1>3 DEF Phases
  <2>2. OldAlloc
    BY <1>1, <2>1 DEF PathStep, PathInv, Markers, OneMarker, MarkerInTagger, MarkerInPipe, MarkerInBuf
  <2>3. ASSUME Resumes(go) PROVE FALSE
    <3>1. TagFires(go)
      BY <2>3 DEF Resumes
    <3>2. ~alloc_rename_buf[1].wrong /\ alloc_rename_buf # <<>>
      BY <1>1, <2>3, <3>1, AllocPath
    <3> QED BY <2>2, <3>2 DEF OldAlloc
  <2> QED BY <2>1, <2>3
<1>6. b = NoTag /\ tag_map_resp # <<>> => rollback_tagger' = rollback_tagger
  <2> SUFFICES ASSUME b = NoTag, tag_map_resp # <<>> PROVE rollback_tagger' = rollback_tagger
    OBVIOUS
  <2>1. redirected
    BY <1>1 DEF Phases
  <2>2. push = <<>>
    BY <1>1, <2>1, CycleParts DEF PathStep, CanPush
  <2> QED BY <1>1, <2>2, PathFrontend
<1>7. b # NoTag => rollback_tagger' = b
  BY <1>1, PathFrontend
<1>8. last_rollback_finished \in BOOLEAN
  BY <1>1 DEF TypeOK, CRATTypeOK
<1> QED BY <1>1, <1>2, <1>3, <1>4, <1>5, <1>6, <1>7, <1>8 DEF Phases

-----------------------------------------------------------------------------
(***************************************************************************)
(* The ring of checkpoints.                                                *)
(***************************************************************************)

\* Distances in the ring, and what moving its ends does to them.
LEMMA RingDistances ==
    ASSUME NEW b \in Checkpoint, NEW c \in Checkpoint
    PROVE  /\ RingDist(b, c) \in 0 .. NCheckpoints - 1
           /\ RingDist(b, b) = 0
           /\ RingDist(b, c) = 0 => c = b
           /\ NextCheckpoint(c) # b => RingDist(b, NextCheckpoint(c)) = RingDist(b, c) + 1
           /\ NextCheckpoint(c) = b <=> RingDist(b, c) = NCheckpoints - 1
           /\ c # b => RingDist(NextCheckpoint(b), c) = RingDist(b, c) - 1
           /\ RingDist(NextCheckpoint(b), b) = NCheckpoints - 1
           /\ RingDist(NextCheckpoint(b), NextCheckpoint(c)) = RingDist(b, c)
           /\ NextCheckpoint(b) = NextCheckpoint(c) => b = c
           /\ NextCheckpoint(c) \in Checkpoint
BY CheckpointsAssumption DEF RingDist, Checkpoint, NextCheckpoint

\* A new youngest tag takes the next position.
LEMMA OrderExtended ==
    ASSUME NEW T, NEW S, T \subseteq S, NEW age \in [S -> Nat], NEW pos \in [S -> Nat],
           NEW pos2 \in [S -> Nat], NEW n \in Nat, NEW x \in S,
           InOrder(T, age, pos, n),
           \A t \in T : age[t] < age[x] /\ pos2[t] = pos[t],
           pos2[x] = n
    PROVE  InOrder(T \cup {x}, age, pos2, n + 1)
<1>1. ASSUME NEW t \in T \cup {x}, NEW u \in T \cup {x}, age[t] < age[u] PROVE pos2[t] < pos2[u]
  <2>1. t \in T
    BY <1>1
  <2> QED BY <1>1, <2>1 DEF InOrder
<1>2. ASSUME NEW t \in T \cup {x} PROVE pos2[t] < n + 1
  BY DEF InOrder
<1>3. ASSUME NEW c \in 0 .. (n + 1) - 1 PROVE \E t \in T \cup {x} : pos2[t] = c
  <2>1. CASE c = n
    BY <2>1
  <2>2. CASE c \in 0 .. n - 1
    BY <2>2 DEF InOrder
  <2> QED BY <2>1, <2>2
<1> QED BY <1>1, <1>2, <1>3 DEF InOrder

\* The tags older than one of them occupy the positions before its own.
LEMMA OrderCut ==
    ASSUME NEW T, NEW S, T \subseteq S, NEW age \in [S -> Nat], NEW pos \in [S -> Nat],
           NEW n \in Nat, NEW x \in T,
           InOrder(T, age, pos, n),
           \A t, u \in S : age[t] = age[u] => t = u
    PROVE  \A K : (\A t : t \in K <=> t \in T /\ age[t] < age[x]) => InOrder(K, age, pos, pos[x])
<1> SUFFICES ASSUME NEW K, \A t : t \in K <=> t \in T /\ age[t] < age[x]
             PROVE  InOrder(K, age, pos, pos[x])
  OBVIOUS
<1>1. ASSUME NEW c \in 0 .. pos[x] - 1
      PROVE  \E t \in K : pos[t] = c
  <2>1. pos[x] < n /\ pos[x] \in Nat
    BY DEF InOrder
  <2>2. c \in 0 .. n - 1
    BY <2>1
  <2>3. PICK t \in T : pos[t] = c
    BY <2>2 DEF InOrder
  <2>4. t # x /\ ~(pos[x] < pos[t])
    BY <2>1, <2>3
  <2>5. ~(age[x] < age[t]) /\ age[x] # age[t]
    BY <2>4 DEF InOrder
  <2>6. age[t] < age[x]
    BY <2>5
  <2> QED BY <2>3, <2>6
<1> QED BY <1>1 DEF InOrder

\* Without the oldest tag, which has the first position, all move up.
LEMMA OrderShifted ==
    ASSUME NEW T, NEW S, T \subseteq S, NEW age \in [S -> Nat], NEW pos \in [S -> Nat],
           NEW n \in Nat, NEW x \in T,
           InOrder(T, age, pos, n), pos[x] = 0,
           NEW K, \A t : t \in K <=> t \in T /\ t # x,
           NEW age2, NEW pos2, \A t \in K : age2[t] = age[t] - 1 /\ pos2[t] = pos[t] - 1
    PROVE  InOrder(K, age2, pos2, n - 1)
<1>1. ASSUME NEW t \in K, NEW u \in K, age2[t] < age2[u] PROVE pos2[t] < pos2[u]
  <2>1. age[t] < age[u]
    BY <1>1
  <2> QED BY <2>1 DEF InOrder
<1>2. ASSUME NEW t \in K PROVE pos2[t] < n - 1
  BY DEF InOrder
<1>3. ASSUME NEW c \in 0 .. (n - 1) - 1 PROVE \E t \in K : pos2[t] = c
  <2>1. c + 1 \in 0 .. n - 1
    BY <1>3
  <2>2. PICK t \in T : pos[t] = c + 1
    BY <2>1 DEF InOrder
  <2>3. t # x
    BY <2>1, <2>2
  <2> QED BY <2>1, <2>2, <2>3
<1> QED BY <1>1, <1>2, <1>3 DEF InOrder

\* There are as many tags as positions.
LEMMA OrderCounts ==
    ASSUME NEW T, NEW S, T \subseteq S, NEW age \in [S -> Nat], NEW pos \in [S -> Nat],
           NEW n \in Nat,
           InOrder(T, age, pos, n),
           Distinct(S, age)
    PROVE  IsFiniteSet(T) /\ Cardinality(T) = n
<1> DEFINE P == 0 .. n - 1
           f == [t \in T |-> pos[t]]
<1>1. f \in Bijection(T, P)
  <2>1. f \in [T -> P]
    BY DEF InOrder
  <2>2. \A t, u \in T : f[t] = f[u] => t = u
    <3> SUFFICES ASSUME NEW t \in T, NEW u \in T, pos[t] = pos[u] PROVE t = u
      OBVIOUS
    <3>1. ~(age[t] < age[u]) /\ ~(age[u] < age[t])
      BY DEF InOrder
    <3>2. age[t] = age[u]
      BY <3>1
    <3> QED BY <3>2 DEF Distinct
  <2>3. \A c \in P : \E t \in T : f[t] = c
    BY DEF InOrder
  <2> HIDE DEF f, P
  <2> QED BY <2>1, <2>2, <2>3 DEF Bijection, Injection, Surjection, IsInjective
<1>2. IsFiniteSet(P) /\ Cardinality(P) = n
  <2>1. 0 \in Int /\ n - 1 \in Int
    OBVIOUS
  <2>2. IsFiniteSet(P) /\ Cardinality(P) = IF 0 > n - 1 THEN 0 ELSE (n - 1) - 0 + 1
    BY <2>1, FS_Interval
  <2>3. (IF 0 > n - 1 THEN 0 ELSE (n - 1) - 0 + 1) = n
    OBVIOUS
  <2> QED BY <2>2, <2>3
<1>3. ExistsBijection(T, P) /\ ExistsBijection(P, T)
  <2> HIDE DEF f, P
  <2>1. ExistsBijection(T, P)
    BY <1>1 DEF ExistsBijection
  <2> QED BY <2>1, Fun_ExistsBijSymmetric
<1>4. IsFiniteSet(T) /\ Cardinality(T) = Cardinality(P)
  <2> HIDE DEF f, P
  <2> QED BY <1>2, <1>3, FS_Bijection
<1> QED BY <1>2, <1>4

\* The tags whose checkpoint is in use after the step: those of before and the branch
\* that is renamed, cut at the branch that rolls back, without the freed tag.
LEMMA LiveAfter ==
    ASSUME NEW push, NEW go, NEW ex, NEW rp, NEW async, CheckpointStep(push, go, ex, rp, async)
    PROVE  LiveTags' = {t \in LiveTags \cup (IF Creates(go) THEN {last_issued_tag} ELSE {}) :
                           /\ ~(Frees /\ t = tags_tail)
                           /\ RollbackTag(ex) # NoTag => TagAge(t) < TagAge(RollbackTag(ex))}
<1> DEFINE b == RollbackTag(ex)
           New == IF Creates(go) THEN {last_issued_tag} ELSE {}
           Freed == IF Frees THEN {tags_tail} ELSE {}
<1>1. /\ PathStep(push, go, ex, rp, async) /\ TypeOK
      /\ active_tags \subseteq Tag /\ checkpointed_tags \subseteq Tag
      /\ rollback_target_tag' = IF b # NoTag THEN b ELSE rollback_target_tag
  BY PathRollbackRegisters DEF CheckpointStep, PathStep, TypeInv, TypeOK, CRATTypeOK
<1>2. TakenBack' = IF b # NoTag THEN {b} ELSE {}
  <2>1. tag_map_resp' = IF b # NoTag THEN <<tag_map[b]>> ELSE <<>>
    BY <1>1, StageRegisters
  <2> QED BY <1>1, <2>1 DEF TakenBack
<1>3. checkpointed_tags' = (checkpointed_tags \cup New) \ (TakenBack \cup Freed)
  <2>1. checkpointed_tags' =
          (checkpointed_tags \cup (IF Creates(go) THEN {instr_tag_buf[1].tag} ELSE {}))
             \ (TakenBack \cup (IF Frees THEN {tags_tail} ELSE {}))
    BY <1>1, CheckpointRegisters
  <2>2. Creates(go) => instr_tag_buf[1].tag = last_issued_tag
    BY Creating
  <2> QED BY <2>1, <2>2
<1> DEFINE Set == IF TagFires(go) /\ TagIncrement(TagCall) /\ TagOnPath(TagCall) THEN {tags_head} ELSE {}
<1>4. active_tags' = (active_tags \cup Set) \ (Invalidated(b) \cup Freed)
  BY <1>1, PathTagRegisters DEF Frees
<1>5. Set \cap checkpointed_tags' = {}
  BY HeadNotCheckpointed
<1>6. Creates(go) => TakenBack = {} /\ last_issued_tag \in active_tags /\ last_issued_tag \in Tag
  BY Creating DEF TakenBack
<1>7. ASSUME b # NoTag, NEW t \in Tag
      PROVE  t \notin Invalidated(b) /\ t # b <=> TagAge(t) < TagAge(b)
  <2>1. b \in Tag /\ tags_tail \in Tag
    BY <1>1, <1>7, RollbackTagType DEF CheckpointStep, PathStep, TypeOK, CRATTypeOK
  <2>2. t \in Invalidated(b) <=> TagAge(t) > TagAge(b)
    BY <1>7 DEF Invalidated
  <2>3. TagAge(t) = TagAge(b) <=> t = b
    BY <2>1, AgeIsRingAge, RingArithmetic
  <2>4. TagAge(t) \in Nat /\ TagAge(b) \in Nat
    BY <1>1, <2>1, AgeType, TagsAssumption
  <2> DEFINE x == TagAge(t)
             y == TagAge(b)
  <2> HIDE DEF x, y, b
  <2>5. ~(x > y) /\ x # y <=> x < y
    BY <2>4 DEF x, y
  <2> QED BY <2>2, <2>3, <2>5 DEF x, y
<1>8. LiveTags' = (checkpointed_tags' \ TakenBack') \cap active_tags'
  BY DEF LiveTags
<1>9. LiveTags = (checkpointed_tags \ TakenBack) \cap active_tags
  BY DEF LiveTags
<1>10. b = NoTag => Invalidated(b) = {}
  BY DEF Invalidated
<1> HIDE DEF b, Set
<1>11. ASSUME NEW t
       PROVE  t \in LiveTags' <=> /\ t \in LiveTags \cup New
                                  /\ ~(Frees /\ t = tags_tail)
                                  /\ b # NoTag => TagAge(t) < TagAge(b)
  <2>1. t \in LiveTags' <=> /\ t \in checkpointed_tags \cup New /\ t \notin TakenBack
                            /\ ~(Frees /\ t = tags_tail)
                            /\ t \in active_tags
                            /\ t \notin TakenBack' /\ t \notin Invalidated(b)
    BY <1>3, <1>4, <1>5, <1>6, <1>8
  <2>2. t \in LiveTags \cup New <=> t \in checkpointed_tags \cup New /\ t \notin TakenBack /\ t \in active_tags
    BY <1>6, <1>9
  <2>3. CASE b = NoTag
    BY <1>2, <1>10, <2>1, <2>2, <2>3
  <2>4. CASE b # NoTag /\ t \in Tag
    BY <1>2, <1>7, <2>1, <2>2, <2>4
  <2>5. CASE t \notin Tag
    BY <1>1, <1>6, <2>1, <2>2, <2>5
  <2> QED BY <2>3, <2>4, <2>5
<1> QED BY <1>11 DEF b

\* Only the order of the ages matters.
LEMMA OrderKept ==
    ASSUME NEW T, NEW S, T \subseteq S, NEW age \in [S -> Nat], NEW pos, NEW age2, NEW pos2, NEW n, NEW d \in Nat,
           InOrder(T, age, pos, n),
           \A t \in T : age2[t] = age[t] - d /\ pos2[t] = pos[t]
    PROVE  InOrder(T, age2, pos2, n)
<1>1. ASSUME NEW t \in T, NEW u \in T, age2[t] < age2[u] PROVE pos2[t] < pos2[u]
  <2>1. age[t] < age[u]
    BY <1>1
  <2> QED BY <2>1 DEF InOrder
<1> QED BY <1>1 DEF InOrder

\* The types of the parts of the ring.
LEMMA RingTypes ==
    ASSUME TypeOK
    PROVE  /\ LiveTags \subseteq Tag /\ AgeMap \in [Tag -> Nat] /\ PosMap \in [Tag -> Nat]
           /\ \A t, u \in Tag : AgeMap[t] = AgeMap[u] => t = u
           /\ checkpoints_tail \in Checkpoint /\ checkpoints_head \in Checkpoint
           /\ \A c \in Checkpoint : CpAge(c) = RingDist(checkpoints_tail, c) /\ CpAge(c) \in Nat
           /\ tag_map \in [Tag -> Checkpoint]
           /\ tag_map_resp # <<>> => tag_map_resp[1] \in Checkpoint
           /\ RingCount \in Nat
<1>1. /\ LiveTags \subseteq Tag /\ checkpoints_tail \in Checkpoint /\ checkpoints_head \in Checkpoint
      /\ tag_map \in [Tag -> Checkpoint] /\ tags_tail \in Tag
      /\ tag_map_resp \in AtMostOne(Checkpoint)
  BY DEF TypeOK, CRATTypeOK, LiveTags
<1>2. tag_map_resp # <<>> => tag_map_resp[1] \in Checkpoint
  BY <1>1, PipeElement
<1>3. \A c \in Checkpoint : CpAge(c) = RingDist(checkpoints_tail, c) /\ CpAge(c) \in Nat
  BY <1>1, RingDistances DEF CpAge
<1>4. PosMap \in [Tag -> Nat]
  BY <1>1, <1>3 DEF PosMap
<1>5. \A t \in Tag : TagAge(t) \in Nat
  BY AgeType, TagsAssumption
<1>6. AgeMap \in [Tag -> Nat]
  BY <1>5 DEF AgeMap
<1>7. \A t, u \in Tag : AgeMap[t] = AgeMap[u] => t = u
  BY <1>1, AgeIsRingAge, RingArithmetic DEF AgeMap
<1>8. RingCount \in Nat
  BY <1>1, <1>2, <1>3, CheckpointsAssumption DEF RingCount, RingHead
<1> QED BY <1>1, <1>2, <1>3, <1>4, <1>6, <1>7, <1>8

\* The tags in use before the freeing of the oldest one, with their positions.
LEMMA RingBeforeFree ==
    ASSUME NEW push, NEW go, NEW ex, NEW rp, NEW async, CheckpointStep(push, go, ex, rp, async)
    PROVE  \E T \in SUBSET Tag, map \in [Tag -> Checkpoint], n \in Nat :
              /\ InOrder(T, AgeMap, [t \in Tag |-> CpAge(map[t])], n)
              /\ n = IF RollbackTag(ex) # NoTag THEN CpAge(tag_map[RollbackTag(ex)])
                     ELSE RingCount + (IF Creates(go) THEN 1 ELSE 0)
              /\ \A t \in LiveTags' : tag_map'[t] = map[t]
              /\ LiveTags' = {t \in T : ~(Frees /\ t = tags_tail)}
              /\ Frees => (tags_tail \in T <=> FreesCheckpoint)
              /\ RingCount \in Nat
<1> DEFINE b == RollbackTag(ex)
           lt == last_issued_tag
           New == IF Creates(go) THEN {lt} ELSE {}
           map == [t \in Tag |-> IF Creates(go) /\ t = lt THEN checkpoints_head ELSE tag_map[t]]
           pos == [t \in Tag |-> CpAge(map[t])]
           T1 == LiveTags \cup New
           n1 == RingCount + (IF Creates(go) THEN 1 ELSE 0)
<1>1. /\ PathStep(push, go, ex, rp, async) /\ TypeOK /\ TagInv /\ RingInv
  BY DEF CheckpointStep, PathStep, TypeInv, CheckpointInv
<1>2. /\ LiveTags \subseteq Tag /\ AgeMap \in [Tag -> Nat] /\ PosMap \in [Tag -> Nat]
      /\ \A t, u \in Tag : AgeMap[t] = AgeMap[u] => t = u
      /\ checkpoints_tail \in Checkpoint /\ checkpoints_head \in Checkpoint
      /\ \A c \in Checkpoint : CpAge(c) \in Nat
      /\ tag_map \in [Tag -> Checkpoint]
      /\ tag_map_resp # <<>> => tag_map_resp[1] \in Checkpoint
  BY <1>1, RingTypes
<1>3. RingCount \in Nat
  BY <1>1, RingTypes
<1>4. /\ Creates(go) => /\ lt \in Tag /\ lt \notin checkpointed_tags
                        /\ \A t \in checkpointed_tags : TagAge(t) < TagAge(lt)
                        /\ tag_map_resp = <<>> /\ ~checkpoints_full
                        /\ instr_tag_buf[1].tag = lt
                        /\ ~(Frees /\ lt = tags_tail)
  BY Creating
<1>5. map \in [Tag -> Checkpoint] /\ pos \in [Tag -> Nat] /\ T1 \subseteq Tag
  BY <1>2, <1>4
<1>6. InOrder(T1, AgeMap, pos, n1)
  <2>1. InOrder(LiveTags, AgeMap, PosMap, RingCount)
    BY <1>1 DEF RingInv
  <2>2. \A t \in LiveTags : t \in checkpointed_tags
    BY DEF LiveTags
  <2>3. \A t \in LiveTags : pos[t] = PosMap[t]
    BY <1>2, <1>4, <2>2 DEF PosMap
  <2>4. CASE Creates(go)
    <3>1. pos[lt] = CpAge(checkpoints_head)
      BY <1>4, <2>4
    <3>2. pos[lt] = RingCount
      BY <1>4, <2>4, <3>1 DEF RingCount, RingFull, RingHead
    <3>3. \A t \in LiveTags : AgeMap[t] < AgeMap[lt] /\ pos[t] = PosMap[t]
      BY <1>2, <1>4, <2>2, <2>3, <2>4 DEF AgeMap
    <3>4. T1 = LiveTags \cup {lt} /\ n1 = RingCount + 1 /\ lt \in Tag
      BY <1>4, <2>4
    <3> HIDE DEF pos, T1, n1, lt
    <3>5. InOrder(LiveTags \cup {lt}, AgeMap, pos, RingCount + 1)
      BY <1>2, <1>3, <1>5, <2>1, <3>2, <3>3, <3>4, OrderExtended
    <3> QED BY <3>4, <3>5
  <2>5. CASE ~Creates(go)
    <3>1. T1 = LiveTags /\ n1 = RingCount
      BY <1>3, <2>5
    <3> HIDE DEF pos, T1, n1
    <3>2. InOrder(LiveTags, AgeMap, pos, RingCount)
      BY <2>1, <2>3 DEF InOrder
    <3> QED BY <3>1, <3>2
  <2> QED BY <2>4, <2>5
<1>7. LiveTags' = {t \in T1 : ~(Frees /\ t = tags_tail) /\ (b # NoTag => TagAge(t) < TagAge(b))}
  BY LiveAfter
<1>8. \A t \in LiveTags' : tag_map'[t] = map[t]
  <2>1. ASSUME NEW t \in LiveTags' PROVE tag_map'[t] = map[t]
    <3>1. t \in checkpointed_tags' \cap active_tags'
      BY DEF LiveTags
    <3>2. tag_map'[t] = IF Creates(go) /\ t = instr_tag_buf[1].tag THEN checkpoints_head ELSE tag_map[t]
      BY <1>1, <3>1, CheckpointMemories
    <3>3. t \in Tag
      BY <1>5, <1>7
    <3> QED BY <1>4, <3>2, <3>3
  <2> QED BY <2>1
<1>9. Frees => (tags_tail \in T1 <=> FreesCheckpoint)
  BY <1>4 DEF FreesCheckpoint, LiveTags
<1>10. CASE b = NoTag
  <2>1. n1 \in Nat
    BY <1>3
  <2>2. LiveTags' = {t \in T1 : ~(Frees /\ t = tags_tail)}
    BY <1>7, <1>10
  <2> HIDE DEF map, T1, n1
  <2> USE <1>5, <2>1
  <2>3. WITNESS T1 \in SUBSET Tag, map \in [Tag -> Checkpoint], n1 \in Nat
  <2> QED BY <1>3, <1>6, <1>8, <1>9, <1>10, <2>1, <2>2 DEF n1
<1>11. CASE b # NoTag
  <2>1. /\ b \in Tag /\ b \in LiveTags /\ b \in checkpointed_tags
        /\ TagAge(b) >= FreeStep
    BY <1>1, <1>11, RollingBack, RollbackAges
  <2> DEFINE T == {t \in T1 : AgeMap[t] < AgeMap[b]}
             n == CpAge(tag_map[b])
  <2>2. pos[b] = n /\ n \in Nat /\ b \in T1
    BY <1>2, <1>4, <2>1
  <2>3. InOrder(T, AgeMap, pos, n)
    <3>1. \A t : t \in T <=> t \in T1 /\ AgeMap[t] < AgeMap[b]
      OBVIOUS
    <3>2. n1 \in Nat
      BY <1>3
    <3> HIDE DEF T, T1, pos, n1, b
    <3>3. \A K : (\A t : t \in K <=> t \in T1 /\ AgeMap[t] < AgeMap[b]) => InOrder(K, AgeMap, pos, pos[b])
      BY <1>2, <1>5, <1>6, <2>2, <3>2, OrderCut
    <3>4. InOrder(T, AgeMap, pos, pos[b])
      BY <3>1, <3>3
    <3> QED BY <2>2, <3>4
  <2>4. \A t \in T1 : AgeMap[t] = TagAge(t)
    BY <1>5 DEF AgeMap
  <2>5. AgeMap[b] = TagAge(b)
    BY <2>1 DEF AgeMap
  <2>6. LiveTags' = {t \in T : ~(Frees /\ t = tags_tail)}
    BY <1>7, <1>11, <2>4, <2>5
  <2>7. Frees => (tags_tail \in T <=> FreesCheckpoint)
    <3> SUFFICES ASSUME Frees PROVE tags_tail \in T <=> tags_tail \in T1
      BY <1>9
    <3>1. tags_tail \in Tag /\ TagAge(tags_tail) = 0
      BY <1>1, AgeType, AgeIsRingAge, RingArithmetic
    <3>2. TagAge(b) >= 1
      BY <2>1 DEF FreeStep, Frees
    <3>3. AgeMap[tags_tail] < AgeMap[b]
      <4>1. AgeMap[tags_tail] = 0 /\ AgeMap[b] >= 1 /\ AgeMap[b] \in Nat
        BY <1>2, <2>1, <2>5, <3>1, <3>2 DEF AgeMap
      <4> QED BY <4>1
    <3> QED BY <3>3
  <2>8. T \in SUBSET Tag
    BY <1>5
  <2> HIDE DEF map, T, n
  <2> USE <1>5, <2>2, <2>8
  <2>9. WITNESS T \in SUBSET Tag, map \in [Tag -> Checkpoint], n \in Nat
  <2> QED BY <1>3, <1>8, <1>11, <2>3, <2>6, <2>7 DEF n
<1> QED BY <1>10, <1>11

\* The number of checkpoints in use after the step.
LEMMA RingCountAfter ==
    ASSUME NEW push, NEW go, NEW ex, NEW rp, NEW async, CheckpointStep(push, go, ex, rp, async)
    PROVE  /\ RingCount' = (IF RollbackTag(ex) # NoTag THEN CpAge(tag_map[RollbackTag(ex)])
                            ELSE RingCount + (IF Creates(go) THEN 1 ELSE 0))
                              - (IF Frees /\ FreesCheckpoint THEN 1 ELSE 0)
           /\ RingMeets'
<1> DEFINE b == RollbackTag(ex)
           tail == checkpoints_tail
           head == checkpoints_head
           n == RingCount
           mid == tag_map_resp # <<>>
           cut == b # NoTag
           cr == Creates(go)
           fr == Frees /\ FreesCheckpoint
<1>1. PathStep(push, go, ex, rp, async) /\ TypeOK /\ RingInv /\ TagInv
  BY DEF CheckpointStep, PathStep, TypeInv, CheckpointInv
<1>2. /\ LiveTags \subseteq Tag /\ AgeMap \in [Tag -> Nat] /\ PosMap \in [Tag -> Nat]
      /\ tail \in Checkpoint /\ head \in Checkpoint
      /\ \A c \in Checkpoint : CpAge(c) = RingDist(tail, c)
      /\ tag_map \in [Tag -> Checkpoint]
      /\ tag_map_resp # <<>> => tag_map_resp[1] \in Checkpoint
      /\ checkpoints_full \in BOOLEAN
  BY <1>1, RingTypes DEF TypeOK, CRATTypeOK
<1>3. cut => b \in Tag /\ b \in LiveTags /\ TagAge(b) >= FreeStep
  BY <1>1, RollingBack, RollbackAges
<1>4. PICK resp \in Checkpoint : tag_map_resp # <<>> => resp = tag_map_resp[1]
  BY <1>2
<1>5. PICK at \in Checkpoint : cut => at = tag_map[b]
  <2>1. cut => tag_map[b] \in Checkpoint
    BY <1>2, <1>3
  <2> QED BY <1>2, <2>1
<1>6. n = IF ~mid /\ checkpoints_full THEN NCheckpoints ELSE RingDist(tail, IF mid THEN resp ELSE head)
  BY <1>2, <1>4 DEF RingCount, RingFull, RingHead
<1>7. ~mid /\ checkpoints_full => head = tail
  BY <1>1 DEF RingInv, RingMeets, RingFull
<1>8. cr => ~mid /\ ~checkpoints_full
  BY Creating
<1>9. ASSUME fr
      PROVE  /\ n > 0
             /\ cut => at # tail
  <2>1. tags_tail \in LiveTags /\ tags_tail \in Tag
    BY <1>2, <1>9 DEF FreesCheckpoint, LiveTags
  <2>2. PosMap[tags_tail] < n /\ PosMap[tags_tail] \in Nat
    BY <1>1, <1>2, <2>1 DEF RingInv, InOrder
  <2>3. n > 0
    <3>1. n \in Nat
      BY <1>1, RingTypes
    <3> HIDE DEF n
    <3> QED BY <2>2, <3>1
  <2>4. ASSUME cut PROVE at # tail
    <3>1. TagAge(tags_tail) = 0 /\ TagAge(b) >= 1
      BY <1>3, <1>9, <2>1, <2>4, AgeIsRingAge, RingArithmetic DEF FreeStep, Frees
    <3>2. AgeMap[tags_tail] = 0 /\ AgeMap[b] >= 1 /\ b \in LiveTags /\ b \in Tag
      BY <1>3, <2>1, <2>4, <3>1 DEF AgeMap
    <3>3. AgeMap[tags_tail] < AgeMap[b]
      BY <1>2, <3>2
    <3>4. PosMap[tags_tail] < PosMap[b]
      BY <1>1, <2>1, <3>2, <3>3 DEF RingInv, InOrder
    <3>5. PosMap[b] = RingDist(tail, at)
      BY <1>2, <1>5, <2>4, <3>2 DEF PosMap
    <3>6. RingDist(tail, tail) = 0
      BY <1>2, RingDistances
    <3> QED BY <2>2, <3>4, <3>5, <3>6
  <2> QED BY <2>3, <2>4
<1>10. PICK tail2 : tail2 = checkpoints_tail'
  OBVIOUS
<1>11. PICK head2 : head2 = checkpoints_head'
  OBVIOUS
<1>12. PICK full2 : full2 = checkpoints_full'
  OBVIOUS
<1>13. /\ tail2 = IF fr THEN NextCheckpoint(tail) ELSE tail
       /\ head2 = IF mid THEN resp ELSE IF cr THEN NextCheckpoint(head) ELSE head
       /\ full2 = (~mid /\ IF cr THEN tail2 = NextCheckpoint(head) ELSE checkpoints_full /\ ~fr)
  <2>1. /\ checkpoints_tail' = IF Frees /\ FreesCheckpoint
                               THEN NextCheckpoint(checkpoints_tail) ELSE checkpoints_tail
        /\ checkpoints_head' = IF tag_map_resp # <<>> THEN tag_map_resp[1]
                               ELSE IF Creates(go) THEN NextCheckpoint(checkpoints_head) ELSE checkpoints_head
        /\ checkpoints_full' = /\ tag_map_resp = <<>>
                               /\ IF Creates(go) THEN checkpoints_tail' = NextCheckpoint(checkpoints_head)
                                  ELSE checkpoints_full /\ ~(Frees /\ FreesCheckpoint)
    BY <1>1, CheckpointRegisters
  <2>2. tail2 = IF fr THEN NextCheckpoint(tail) ELSE tail
    BY <1>10, <2>1
  <2>3. head2 = IF mid THEN resp ELSE IF cr THEN NextCheckpoint(head) ELSE head
    BY <1>4, <1>11, <2>1
  <2>4. full2 = (~mid /\ IF cr THEN tail2 = NextCheckpoint(head) ELSE checkpoints_full /\ ~fr)
    BY <1>10, <1>12, <2>1
  <2> QED BY <2>2, <2>3, <2>4
<1>14. mid \in BOOLEAN /\ cut \in BOOLEAN /\ cr \in BOOLEAN /\ fr \in BOOLEAN
  BY DEF Creates, RenameFires, CommitsCheckpoint
<1> DEFINE step == IF fr THEN 1 ELSE 0
           end == IF cut THEN at ELSE head2
           count == IF ~cut /\ full2 THEN NCheckpoints ELSE RingDist(tail2, end)
           before == IF cut THEN RingDist(tail, at) ELSE n + (IF cr THEN 1 ELSE 0)
<1>15. /\ count = before - step
       /\ ~cut /\ full2 => head2 = tail2
  <2>1. CheckpointsAssumption /\ n \in Nat
    BY <1>1, RingTypes, CheckpointsAssumption
  <2>2. /\ NextCheckpoint(tail) = NextCheckpoint(head) => tail = head
        /\ RingDist(tail, head) \in Nat /\ RingDist(tail, at) \in Nat /\ RingDist(tail, resp) \in Nat
        /\ RingDist(tail, tail) = 0
        /\ at # tail => RingDist(NextCheckpoint(tail), at) = RingDist(tail, at) - 1
        /\ resp # tail => RingDist(NextCheckpoint(tail), resp) = RingDist(tail, resp) - 1
        /\ head # tail => RingDist(NextCheckpoint(tail), head) = RingDist(tail, head) - 1
        /\ RingDist(NextCheckpoint(tail), tail) = NCheckpoints - 1
        /\ RingDist(NextCheckpoint(tail), NextCheckpoint(head)) = RingDist(tail, head)
        /\ NextCheckpoint(head) = tail <=> RingDist(tail, head) = NCheckpoints - 1
        /\ NextCheckpoint(head) # tail => RingDist(tail, NextCheckpoint(head)) = RingDist(tail, head) + 1
    <3> HIDE DEF tail, head
    <3> QED BY <1>2, RingDistances
  <2>3. ~cut /\ full2 => head2 = tail2
    BY <1>7, <1>13
  <2>4. ASSUME cut PROVE count = before - step
    <3>1. count = RingDist(tail2, at) /\ before = RingDist(tail, at)
      BY <2>4
    <3>2. fr => tail2 = NextCheckpoint(tail) /\ at # tail /\ step = 1
      BY <1>9, <1>13, <2>4
    <3>3. ~fr => tail2 = tail /\ step = 0
      BY <1>13
    <3> HIDE DEF count, before, step, fr, tail, head
    <3> QED BY <2>2, <3>1, <3>2, <3>3
  <2>5. ASSUME ~cut, mid PROVE count = before - step
    <3>1. count = RingDist(tail2, resp) /\ before = n /\ n = RingDist(tail, resp)
      <4>1. ~cr /\ ~full2 /\ head2 = resp
        BY <1>8, <1>13, <2>5
      <4>2. n = RingDist(tail, resp)
        BY <1>6, <2>5
      <4>3. before = n + 0
        BY <2>5, <4>1
      <4>4. count = RingDist(tail2, resp)
        BY <2>5, <4>1
      <4> HIDE DEF n, before, count
      <4> QED BY <2>1, <4>2, <4>3, <4>4
    <3>2. fr => tail2 = NextCheckpoint(tail) /\ n > 0 /\ step = 1
      BY <1>9, <1>13
    <3>3. ~fr => tail2 = tail /\ step = 0
      BY <1>13
    <3> HIDE DEF count, before, step, fr, tail, head, n
    <3>4. CASE fr
      <4>1. resp # tail
        BY <2>2, <3>1, <3>2, <3>4
      <4> QED BY <2>2, <3>1, <3>2, <3>4, <4>1
    <3>5. CASE ~fr
      BY <2>2, <3>1, <3>3, <3>5
    <3> QED BY <3>4, <3>5
  <2>6. ASSUME ~cut, ~mid, cr PROVE count = before - step
    <3>1. /\ before = n + 1 /\ n = RingDist(tail, head) /\ head2 = NextCheckpoint(head)
          /\ full2 = (tail2 = NextCheckpoint(head))
          /\ count = IF full2 THEN NCheckpoints ELSE RingDist(tail2, head2)
      BY <1>6, <1>8, <1>13, <2>6
    <3>2. fr => tail2 = NextCheckpoint(tail) /\ n > 0 /\ step = 1
      BY <1>9, <1>13
    <3>3. ~fr => tail2 = tail /\ step = 0
      BY <1>13
    <3> HIDE DEF count, before, step, fr, tail, head, n
    <3>4. CASE fr
      <4>0. head # tail
        BY <2>2, <3>1, <3>2, <3>4
      <4>1. head # tail /\ ~full2
        BY <2>2, <3>1, <3>2, <3>4, <4>0
      <4> QED BY <2>1, <2>2, <3>1, <3>2, <3>4, <4>1
    <3>5. CASE ~fr /\ NextCheckpoint(head) = tail
      <4>1. full2
        BY <3>1, <3>3, <3>5
      <4> QED BY <2>1, <2>2, <3>1, <3>3, <3>5, <4>1 DEF CheckpointsAssumption
    <3>6. CASE ~fr /\ NextCheckpoint(head) # tail
      <4>1. ~full2
        BY <3>1, <3>3, <3>6
      <4> QED BY <2>1, <2>2, <3>1, <3>3, <3>6, <4>1
    <3> QED BY <3>4, <3>5, <3>6
  <2>7. ASSUME ~cut, ~mid, ~cr PROVE count = before - step
    <3>1. /\ before = n /\ head2 = head /\ full2 = (checkpoints_full /\ ~fr)
          /\ n = IF checkpoints_full THEN NCheckpoints ELSE RingDist(tail, head)
          /\ checkpoints_full => head = tail
          /\ count = IF full2 THEN NCheckpoints ELSE RingDist(tail2, head2)
      BY <1>6, <1>7, <1>13, <2>1, <2>7
    <3>2. fr => tail2 = NextCheckpoint(tail) /\ n > 0 /\ step = 1
      BY <1>9, <1>13
    <3>3. ~fr => tail2 = tail /\ step = 0
      BY <1>13
    <3> HIDE DEF count, before, step, fr, tail, head, n
    <3>4. CASE fr /\ checkpoints_full
      BY <2>1, <2>2, <3>1, <3>2, <3>4 DEF CheckpointsAssumption
    <3>5. CASE fr /\ ~checkpoints_full
      <4>0. n = RingDist(tail, head) /\ n > 0
        BY <3>1, <3>2, <3>5
      <4>1. head # tail
        BY <2>2, <4>0
      <4>2. ~full2
        BY <3>1, <3>5
      <4>3. count = RingDist(tail2, head2)
        BY <3>1, <4>2
      <4> QED BY <2>2, <3>1, <3>2, <3>5, <4>0, <4>1, <4>3
    <3>6. CASE ~fr
      <4>1. count = n
        BY <3>1, <3>3, <3>6
      <4> QED BY <2>1, <3>1, <3>3, <3>6, <4>1
    <3> QED BY <3>4, <3>5, <3>6
  <2> QED BY <2>3, <2>4, <2>5, <2>6, <2>7
<1>16. tag_map_resp' = IF cut THEN <<tag_map[b]>> ELSE <<>>
  BY <1>1, StageRegisters
<1>17. /\ RingFull' <=> ~cut /\ full2
       /\ RingHead' = IF cut THEN at ELSE head2
  BY <1>5, <1>11, <1>12, <1>16 DEF RingFull, RingHead
<1>18. RingCount' = count
  <2> HIDE DEF cut
  <2>1. RingCount' = IF RingFull' THEN NCheckpoints ELSE RingDist(checkpoints_tail', RingHead')
    BY DEF RingCount, CpAge
  <2> QED BY <1>10, <1>17, <2>1
<1>19. before = (IF b # NoTag THEN CpAge(tag_map[b]) ELSE RingCount + (IF Creates(go) THEN 1 ELSE 0))
  BY <1>2, <1>5
<1>20. RingMeets'
  BY <1>10, <1>11, <1>15, <1>17 DEF RingMeets
<1> QED BY <1>15, <1>18, <1>19, <1>20

LEMMA RingInvStep ==
    ASSUME NEW push, NEW go, NEW ex, NEW rp, NEW async, CheckpointStep(push, go, ex, rp, async)
    PROVE  RingInv'
<1>1. PathStep(push, go, ex, rp, async) /\ TypeOK /\ TypeOK'
  BY DEF CheckpointStep, PathStep, TypeInv
<1>2. PICK T \in SUBSET Tag, map \in [Tag -> Checkpoint], n \in Nat :
              /\ InOrder(T, AgeMap, [t \in Tag |-> CpAge(map[t])], n)
              /\ n = IF RollbackTag(ex) # NoTag THEN CpAge(tag_map[RollbackTag(ex)])
                     ELSE RingCount + (IF Creates(go) THEN 1 ELSE 0)
              /\ \A t \in LiveTags' : tag_map'[t] = map[t]
              /\ LiveTags' = {t \in T : ~(Frees /\ t = tags_tail)}
              /\ Frees => (tags_tail \in T <=> FreesCheckpoint)
              /\ RingCount \in Nat
  BY RingBeforeFree
<1> DEFINE pos == [t \in Tag |-> CpAge(map[t])]
           tail == checkpoints_tail
           fr == Frees /\ FreesCheckpoint
<1>3. /\ AgeMap \in [Tag -> Nat] /\ tail \in Checkpoint /\ tags_tail \in Tag
      /\ \A t, u \in Tag : AgeMap[t] = AgeMap[u] => t = u
      /\ \A c \in Checkpoint : CpAge(c) = RingDist(tail, c) /\ CpAge(c) \in Nat
  BY <1>1, RingTypes DEF TypeOK, CRATTypeOK
<1>4. pos \in [Tag -> Nat]
  BY <1>3
<1>5. RingCount' = n - (IF fr THEN 1 ELSE 0)
  BY <1>2, RingCountAfter
<1>6. checkpoints_tail' = IF fr THEN NextCheckpoint(tail) ELSE tail
  BY <1>1, CheckpointRegisters
<1>7. \A t \in LiveTags' : AgeMap'[t] = AgeMap[t] - FreeStep
  <2> SUFFICES ASSUME NEW t \in LiveTags' PROVE AgeMap'[t] = AgeMap[t] - FreeStep
    OBVIOUS
  <2>1. t \in Tag /\ ~(Frees /\ t = tags_tail)
    BY <1>2
  <2>2. TagAge(t)' = TagAge(t) - FreeStep
    BY <1>1, <2>1, ActiveAges DEF Frees
  <2> QED BY <2>1, <2>2 DEF AgeMap
<1>8. \A t \in LiveTags' : PosMap'[t] = RingDist(checkpoints_tail', map[t])
  BY <1>2 DEF PosMap, CpAge
<1>9. PICK L2 : L2 = LiveTags'
  OBVIOUS
<1>10. PICK age2 : age2 = AgeMap'
  OBVIOUS
<1>11. PICK pos2 : pos2 = PosMap'
  OBVIOUS
<1>12. InOrder(L2, age2, pos2, n - (IF fr THEN 1 ELSE 0))
  <2>1. CASE fr
    <3>1. L2 = T \ {tags_tail} /\ tags_tail \in T /\ FreeStep = 1
      BY <1>2, <1>9, <2>1 DEF Frees, FreeStep
    <3>2. AgeMap[tags_tail] = 0
      BY <1>3, AgeIsRingAge, RingArithmetic DEF AgeMap
    <3>3. InOrder(T, AgeMap, pos, n)
      BY <1>2
    <3>4. pos[tags_tail] = 0 /\ \A t \in L2 : pos[t] > 0
      <4>1. pos[tags_tail] = 0 /\ \A t \in T : t # tags_tail => pos[t] > 0
        <5>1. T \subseteq Tag /\ n \in Nat
          BY <1>2
        <5>2. \A t \in T : t # tags_tail => AgeMap[tags_tail] < AgeMap[t]
          <6> SUFFICES ASSUME NEW t \in T, t # tags_tail PROVE AgeMap[tags_tail] < AgeMap[t]
            OBVIOUS
          <6>1. AgeMap[t] \in Nat /\ AgeMap[t] # AgeMap[tags_tail]
            BY <1>3, <5>1
          <6> QED BY <3>2, <6>1
        <5> HIDE DEF pos
        <5>3. \A t \in T : t # tags_tail => pos[tags_tail] < pos[t]
          BY <3>1, <3>3, <5>2 DEF InOrder
        <5>4. \A t \in T : pos[t] \in Nat /\ pos[t] < n
          BY <1>4, <3>3, <5>1 DEF InOrder
        <5>5. PICK t \in T : pos[t] = 0
          <6>1. 0 \in 0 .. n - 1
            BY <3>1, <5>1, <5>4
          <6> QED BY <3>3, <6>1 DEF InOrder
        <5>6. pos[tags_tail] = 0
          BY <3>1, <5>3, <5>4, <5>5
        <5> QED BY <5>3, <5>4, <5>6
      <4> QED BY <3>1, <4>1
    <3>5. \A t \in L2 : age2[t] = AgeMap[t] - 1
      BY <1>7, <1>9, <1>10, <3>1
    <3>6. ASSUME NEW t \in L2 PROVE pos2[t] = pos[t] - 1
      <4>1. t \in Tag /\ map[t] \in Checkpoint
        BY <1>2, <3>1
      <4>2. pos[t] = RingDist(tail, map[t]) /\ pos[t] > 0
        BY <1>3, <3>4, <4>1
      <4>3. map[t] # tail
        BY <1>3, <4>2, RingDistances
      <4>4. pos2[t] = RingDist(NextCheckpoint(tail), map[t])
        BY <1>6, <1>8, <1>9, <1>11, <2>1, <3>1
      <4> HIDE DEF tail, pos
      <4> QED BY <1>3, <4>1, <4>2, <4>3, <4>4, RingDistances
    <3>7. InOrder(L2, age2, pos2, n - 1)
      <4>1. T \subseteq Tag /\ n \in Nat
        BY <1>2
      <4>2. \A t : t \in L2 <=> t \in T /\ t # tags_tail
        BY <3>1
      <4> HIDE DEF pos
      <4> QED BY <1>3, <1>4, <3>1, <3>3, <3>4, <3>5, <3>6, <4>1, <4>2, OrderShifted
    <3> QED BY <2>1, <3>1, <3>7
  <2>2. CASE ~fr
    <3>1. L2 = T
      BY <1>2, <1>9, <2>2
    <3>2. InOrder(T, AgeMap, pos, n)
      BY <1>2
    <3>3. FreeStep \in Nat
      BY DEF FreeStep
    <3>4. \A t \in T : pos2[t] = pos[t] /\ age2[t] = AgeMap[t] - FreeStep
      BY <1>2, <1>3, <1>6, <1>7, <1>8, <1>9, <1>10, <1>11, <2>2, <3>1
    <3>5. InOrder(T, age2, pos2, n)
      <4> HIDE DEF pos
      <4>1. T \subseteq Tag
        BY <1>2
      <4> QED BY <1>3, <3>2, <3>3, <3>4, <4>1, OrderKept
    <3>6. n - (IF fr THEN 1 ELSE 0) = n
      BY <1>2, <2>2
    <3> QED BY <3>1, <3>5, <3>6
  <2> QED BY <2>1, <2>2
<1>13. InOrder(LiveTags', AgeMap', PosMap', RingCount')
  BY <1>5, <1>9, <1>10, <1>11, <1>12
<1> QED BY <1>13, RingCountAfter DEF RingInv, InOrder

LEMMA CheckpointInvCycle ==
    ASSUME NEW push, NEW go, NEW ex, NEW rp, NEW async, CheckpointStep(push, go, ex, rp, async)
    PROVE  CheckpointInv'
BY CheckpointedAllocatedStep, FreshBranchStep, BranchCheckpointedStep, PhasesStep, RingInvStep
   DEF CheckpointInv

LEMMA CheckpointInvInit == Init => CheckpointInv
<1> SUFFICES ASSUME Init PROVE CheckpointInv
  OBVIOUS
<1>1. CheckpointedAllocated /\ FreshBranch /\ BranchCheckpointed
  BY DEF Init, CRATInit, CheckpointedAllocated, FreshBranch, BranchCheckpointed
<1>2. Phases
  BY DEF Init, CRATInit, Phases
<1>3. RingCount = 0 /\ LiveTags = {} /\ RingMeets
  BY DEF Init, CRATInit, RingCount, RingFull, RingHead, CpAge, RingDist, LiveTags, RingMeets
<1>4. RingInv
  BY <1>3 DEF RingInv, InOrder
<1> QED BY <1>1, <1>2, <1>4 DEF CheckpointInv

LEMMA CheckpointInvNext ==
    ASSUME ~MarkerRace
    PROVE  TypeInv /\ TagInv /\ TrapInv /\ PathInv /\ CheckpointInv /\ [Next]_vars => CheckpointInv'
<1> SUFFICES ASSUME TypeInv, TagInv, TrapInv, PathInv, CheckpointInv, [Next]_vars PROVE CheckpointInv'
  OBVIOUS
<1>1. TypeOK' /\ TrapInv'
  BY TypeInvNext, TrapInvNext DEF TypeInv
<1>2. CASE Next
  <2>1. PICK push \in Deliveries, go \in BOOLEAN, ex \in Executions, rp \in Reports, async \in BOOLEAN :
            Cycle(push, go, ex, rp, async)
    BY <1>2, NextIsCycle
  <2>2. CheckpointStep(push, go, ex, rp, async)
    BY <1>1, <2>1 DEF CheckpointStep, PathStep
  <2> QED BY <2>2, CheckpointInvCycle
<1>3. CASE UNCHANGED vars
  <2>1. UNCHANGED <<tags_tail, active_tags, last_issued_tag, next_tag_increment, checkpoints_head,
                    checkpoints_tail, checkpoints_full, checkpointed_tags, tag_map, tag_map_resp,
                    storage_resp, rollback_target_tag, rollback_just_started, rollback_tag_s1,
                    frat_tag_in_next_cycle, last_rollback_finished, rollback_tagger, redirected,
                    instr_tag_buf, rob>>
    BY <1>3 DEF vars, cratVars, tagVars, rollbackVars, checkpointVars, frontVars, schedVars, backVars
  <2>2. LiveTags' = LiveTags /\ AgeMap' = AgeMap /\ PosMap' = PosMap /\ RingCount' = RingCount
        /\ RingMeets' = RingMeets
    BY <2>1 DEF LiveTags, TakenBack, AgeMap, PosMap, RingCount, RingFull, RingHead, CpAge, TagAge, RingMeets
  <2>3. RingInv'
    BY <2>2 DEF CheckpointInv, RingInv, InOrder
  <2>4. CheckpointedAllocated' /\ FreshBranch' /\ BranchCheckpointed' /\ Phases'
    BY <2>1 DEF CheckpointInv, CheckpointedAllocated, FreshBranch, BranchCheckpointed, Pending, Phases, TagAge
  <2> QED BY <2>3, <2>4 DEF CheckpointInv
<1> QED BY <1>2, <1>3

\* Positions in the ring, as the code's pointers give them.
LEMMA RingModulus ==
    ASSUME NEW b \in Checkpoint, NEW c \in Checkpoint
    PROVE  (c + NCheckpoints - b) % NCheckpoints = RingDist(b, c)
<1>1. NCheckpoints \in Nat /\ NCheckpoints > 0
  BY CheckpointsAssumption
<1>2. b \in 0 .. NCheckpoints - 1 /\ c \in 0 .. NCheckpoints - 1
  BY DEF Checkpoint
<1>3. CASE c >= b
  <2>1. c - b \in 0 .. NCheckpoints - 1 /\ c + NCheckpoints - b = NCheckpoints + (c - b)
    BY <1>1, <1>2, <1>3
  <2>2. PICK d \in 0 .. NCheckpoints - 1 : d = c - b
    BY <2>1
  <2>3. (NCheckpoints + d) % NCheckpoints = d
    BY <1>1
  <2> QED BY <1>3, <2>1, <2>2, <2>3 DEF RingDist
<1>4. CASE ~(c >= b)
  <2>1. c + NCheckpoints - b \in 0 .. NCheckpoints - 1
    BY <1>1, <1>2, <1>4
  <2>2. PICK d \in 0 .. NCheckpoints - 1 : d = c + NCheckpoints - b
    BY <2>1
  <2>3. d % NCheckpoints = d
    BY <1>1
  <2> QED BY <1>4, <2>2, <2>3 DEF RingDist
<1> QED BY <1>3, <1>4

LEMMA RingCountsTags ==
    ASSUME TypeOK, RingInv
    PROVE  CheckpointsCounted
<1> SUFFICES ASSUME tag_map_resp = <<>>
             PROVE  Cardinality(checkpointed_tags \cap active_tags) =
                       IF checkpoints_full THEN NCheckpoints
                       ELSE (checkpoints_head + NCheckpoints - checkpoints_tail) % NCheckpoints
  BY DEF CheckpointsCounted
<1>1. LiveTags = checkpointed_tags \cap active_tags
  BY DEF LiveTags, TakenBack
<1>2. /\ LiveTags \subseteq Tag /\ AgeMap \in [Tag -> Nat] /\ PosMap \in [Tag -> Nat]
      /\ \A t, u \in Tag : AgeMap[t] = AgeMap[u] => t = u
      /\ RingCount \in Nat
      /\ checkpoints_tail \in Checkpoint /\ checkpoints_head \in Checkpoint
  BY RingTypes
<1>3. Cardinality(LiveTags) = RingCount
  <2>1. InOrder(LiveTags, AgeMap, PosMap, RingCount)
    BY DEF RingInv
  <2>2. /\ LiveTags \subseteq Tag /\ AgeMap \in [Tag -> Nat] /\ PosMap \in [Tag -> Nat]
        /\ Distinct(Tag, AgeMap)
        /\ RingCount \in Nat
    BY <1>2 DEF Distinct
  <2>3. IsFiniteSet(LiveTags) /\ Cardinality(LiveTags) = RingCount
    BY <2>1, <2>2, OrderCounts
  <2> QED BY <2>3
<1>4. RingCount = IF checkpoints_full THEN NCheckpoints ELSE RingDist(checkpoints_tail, checkpoints_head)
  BY DEF RingCount, RingFull, RingHead, CpAge
<1> QED BY <1>1, <1>2, <1>3, <1>4, RingModulus

\* Checkpoints are neither leaked nor freed twice, for all numbers of tags, checkpoints
\* and ROB entries: whatever rollbacks, frees and creations meet in a cycle, the ring
\* between the two pointers of CheckpointRAT holds one checkpoint for every active tag
\* that has one.
THEOREM CheckpointsNeverLeak ==
    ASSUME ~MarkerRace
    PROVE  Spec => []CheckpointsCounted
<1>1. TypeInv /\ CheckpointInv => CheckpointsCounted
  BY RingCountsTags DEF TypeInv, CheckpointInv
<1>2. TypeInv /\ TagInv /\ TrapInv /\ PathInv /\ [Next]_vars => PathInv'
  BY PathInvNext
<1>3. TypeInv /\ TagInv /\ TrapInv /\ PathInv /\ CheckpointInv /\ [Next]_vars => CheckpointInv'
  BY CheckpointInvNext
<1> QED BY <1>1, <1>2, <1>3, PathInvInit, CheckpointInvInit, TypeInvInit, TypeInvNext, TagInvInit, TagInvNext,
           TrapInvInit, TrapInvNext, PTL DEF Spec

-----------------------------------------------------------------------------
(***************************************************************************)
(* Register tables.  The table that renames instructions is the committed  *)
(* one with the renames of the valid path applied, each checkpoint is that *)
(* table right after its branch, and a restore ends with the right one.    *)
(* As before the frontend loses no rollback tag (MarkerRace is             *)
(* FALSE).                                                                 *)
(***************************************************************************)
(***************************************************************************)
(* Register 0 is never renamed.                                            *)
(***************************************************************************)
ZeroPair(q) == q # <<>> /\ q[1].rl = 0 => q[1].rp = ZeroReg
Zeros ==
    /\ rrat[0] = ZeroReg
    /\ \A i \in DOMAIN rob : rob[i].rl = 0 => rob[i].rp = ZeroReg
    /\ ZeroPair(alloc_rename_buf) /\ ZeroPair(instr_tag_buf)

(***************************************************************************)
(* The speculative table is in the FRAT, on its way there or, right after  *)
(* a rollback, in the checkpoint the tag map answered; and a branch that   *)
(* may roll back has it saved, or being saved, as it was after the branch. *)
(***************************************************************************)
Restores ==
    fsm = "NORMAL" =>
        /\ tag_map_resp # <<>> => storage[tag_map_resp[1]] = SpecRAT(Len(rob))
        /\ tag_map_resp = <<>> /\ storage_resp # <<>> => storage_resp[1] = SpecRAT(Len(rob))
        /\ last_rollback_finished => frat = SpecRAT(Len(rob))
Saved(c) == IF create_checkpoint_pipe = <<c>> THEN frat ELSE storage[c]
Stored ==
    fsm = "NORMAL" => \A i \in DOMAIN rob : Pending(i) => SpecRAT(i) = Saved(tag_map[rob[i].tag])

TableInv == Zeros /\ Restores /\ Stored

TableStep(push, go, ex, rp, async) ==
    CheckpointStep(push, go, ex, rp, async) /\ PathInv' /\ CheckpointInv' /\ TableInv

-----------------------------------------------------------------------------
(***************************************************************************)
(* The table after n entries of a reorder buffer R over a committed one A. *)
(***************************************************************************)
Writes(R, i, l) == ~R[i].wrong /\ R[i].rl = l
Table(R, A, n) ==
    [l \in LRegs |-> LET W == {i \in 1 .. n : Writes(R, i, l)}
                     IN IF l = 0 \/ W = {} THEN A[l] ELSE R[Max(W)].rp]

LEMMA SpecIsTable ==
    /\ \A n : SpecRAT(n) = Table(rob, rrat, n)
    /\ \A n : SpecRAT(n)' = Table(rob', rrat', n)
    /\ SpecRAT(Len(rob))' = Table(rob', rrat', Len(rob'))
BY DEF SpecRAT, Table, Writes

\* What the table maps a register to: its last writer's register, if it has a writer.
LEMMA TableValue ==
    ASSUME NEW R, NEW A, NEW n \in Nat, NEW l \in LRegs
    PROVE  /\ l = 0 \/ (\A i \in 1 .. n : ~Writes(R, i, l)) => Table(R, A, n)[l] = A[l]
           /\ \A j \in 1 .. n :
                 l # 0 /\ Writes(R, j, l) /\ (\A i \in 1 .. n : Writes(R, i, l) => i <= j)
                     => Table(R, A, n)[l] = R[j].rp
<1> DEFINE W == {i \in 1 .. n : Writes(R, i, l)}
<1>1. Table(R, A, n)[l] = IF l = 0 \/ W = {} THEN A[l] ELSE R[Max(W)].rp
  BY DEF Table
<1>2. l = 0 \/ (\A i \in 1 .. n : ~Writes(R, i, l)) => Table(R, A, n)[l] = A[l]
  BY <1>1
<1>3. ASSUME NEW j \in 1 .. n, l # 0, Writes(R, j, l), \A i \in 1 .. n : Writes(R, i, l) => i <= j
      PROVE  Table(R, A, n)[l] = R[j].rp
  <2>1. W \in SUBSET (0 .. n) /\ W # {} /\ j \in W /\ \A y \in W : y <= j
    BY <1>3
  <2> HIDE DEF W
  <2>2. Max(W) \in W /\ \A y \in W : y <= Max(W)
    BY <2>1, MaxIsGreatest
  <2>3. Max(W) = j
    <3> DEFINE m == Max(W)
    <3>1. m \in 0 .. n /\ m <= j /\ j <= m
      BY <2>1, <2>2
    <3> HIDE DEF m
    <3>2. m = j
      BY <3>1
    <3> QED BY <3>2 DEF m
  <2> QED BY <1>1, <1>3, <2>1, <2>3
<1> QED BY <1>2, <1>3

\* A register that is written has a last writer.
LEMMA LastWriter ==
    ASSUME NEW R, NEW n \in Nat, NEW l, NEW i \in 1 .. n, Writes(R, i, l)
    PROVE  \E j \in 1 .. n : Writes(R, j, l) /\ \A k \in 1 .. n : Writes(R, k, l) => k <= j
<1> DEFINE W == {k \in 1 .. n : Writes(R, k, l)}
<1>1. W \in SUBSET (0 .. n) /\ W # {}
  OBVIOUS
<1>2. Max(W) \in W /\ \A y \in W : y <= Max(W)
  <2> HIDE DEF W
  <2> QED BY <1>1, MaxIsGreatest
<1> QED BY <1>2

\* Entries leave on one side into the committed table; those beyond k are on the wrong
\* path: the table is the one after the first k entries.
Shifted(R, A, R2, A2, r, k, k2) ==
    /\ \A i \in 1 .. k2 : \A l : Writes(R2, i, l) <=> Writes(R, i + r, l) /\ i + r <= k
    /\ \A i \in 1 .. k2 : R2[i].rp = R[i + r].rp
    /\ \A l \in LRegs : A2[l] = IF l = 0 THEN A[l] ELSE Table(R, A, r)[l]
LEMMA TableShift ==
    ASSUME NEW R, NEW A, NEW R2, NEW A2, NEW r \in Nat, NEW k \in Nat, NEW k2 \in Nat,
           r <= k, k <= k2 + r, Shifted(R, A, R2, A2, r, k, k2)
    PROVE  Table(R2, A2, k2) = Table(R, A, k)
<1> USE DEF Shifted
<1>1. ASSUME NEW l \in LRegs PROVE Table(R2, A2, k2)[l] = Table(R, A, k)[l]
  <2>1. CASE l = 0
    BY <2>1, TableValue
  <2>2. CASE l # 0 /\ \E i \in r + 1 .. k : Writes(R, i, l)
    <3>1. PICK i \in r + 1 .. k : Writes(R, i, l)
      BY <2>2
    <3>2. i \in 1 .. k
      OBVIOUS
    <3>3. PICK j \in 1 .. k : Writes(R, j, l) /\ \A m \in 1 .. k : Writes(R, m, l) => m <= j
      BY <3>1, <3>2, LastWriter
    <3>4. j >= i
      BY <3>1, <3>2, <3>3
    <3>5. j - r \in 1 .. k2 /\ (j - r) + r = j /\ j \in Nat
      BY <3>3, <3>4
    <3>6. Writes(R2, j - r, l) /\ R2[j - r].rp = R[j].rp
      BY <3>3, <3>5
    <3>7. \A m \in 1 .. k2 : Writes(R2, m, l) => m <= j - r
      <4> SUFFICES ASSUME NEW m \in 1 .. k2, Writes(R2, m, l) PROVE m <= j - r
        OBVIOUS
      <4>1. Writes(R, m + r, l) /\ m + r <= k
        OBVIOUS
      <4>2. m + r \in 1 .. k
        BY <4>1
      <4>3. m + r <= j
        BY <3>3, <4>1, <4>2
      <4> QED BY <3>5, <4>3
    <3>8. Table(R2, A2, k2)[l] = R2[j - r].rp
      BY <2>2, <3>5, <3>6, <3>7, TableValue
    <3>9. Table(R, A, k)[l] = R[j].rp
      BY <2>2, <3>3, TableValue
    <3> QED BY <3>6, <3>8, <3>9
  <2>3. CASE l # 0 /\ \A i \in r + 1 .. k : ~Writes(R, i, l)
    <3>1. \A i \in 1 .. k2 : ~Writes(R2, i, l)
      <4> SUFFICES ASSUME NEW i \in 1 .. k2, Writes(R2, i, l) PROVE FALSE
        OBVIOUS
      <4>1. Writes(R, i + r, l) /\ i + r <= k
        OBVIOUS
      <4>2. i + r \in r + 1 .. k
        BY <4>1
      <4> QED BY <2>3, <4>1, <4>2
    <3>2. Table(R2, A2, k2)[l] = Table(R, A, r)[l]
      BY <2>3, <3>1, TableValue
    <3>3. CASE \E i \in 1 .. r : Writes(R, i, l)
      <4>1. PICK j \in 1 .. r : Writes(R, j, l) /\ \A m \in 1 .. r : Writes(R, m, l) => m <= j
        BY <3>3, LastWriter
      <4>2. j \in 1 .. k /\ \A m \in 1 .. k : Writes(R, m, l) => m <= j
        <5> SUFFICES ASSUME NEW m \in 1 .. k, Writes(R, m, l) PROVE m <= j
          BY <4>1
        <5>1. m \notin r + 1 .. k
          BY <2>3
        <5>2. m \in 1 .. r
          BY <5>1
        <5> QED BY <4>1, <5>2
      <4>3. Table(R, A, r)[l] = R[j].rp
        BY <2>3, <4>1, TableValue
      <4>4. Table(R, A, k)[l] = R[j].rp
        BY <2>3, <4>1, <4>2, TableValue
      <4> QED BY <3>2, <4>3, <4>4
    <3>4. CASE \A i \in 1 .. r : ~Writes(R, i, l)
      <4>1. \A i \in 1 .. k : ~Writes(R, i, l)
        <5> SUFFICES ASSUME NEW i \in 1 .. k PROVE ~Writes(R, i, l)
          OBVIOUS
        <5>1. i \in 1 .. r \/ i \in r + 1 .. k
          OBVIOUS
        <5> QED BY <2>3, <3>4, <5>1
      <4>2. Table(R, A, r)[l] = A[l] /\ Table(R, A, k)[l] = A[l]
        BY <3>4, <4>1, TableValue
      <4> QED BY <3>2, <4>2
    <3> QED BY <3>3, <3>4
  <2> QED BY <2>1, <2>2, <2>3
<1>2. Table(R2, A2, k2) = [l \in LRegs |-> Table(R2, A2, k2)[l]]
  BY DEF Table
<1>3. Table(R, A, k) = [l \in LRegs |-> Table(R, A, k)[l]]
  BY DEF Table
<1> QED BY <1>1, <1>2, <1>3

\* One more entry.
LEMMA TableAppend ==
    ASSUME NEW R, NEW A, NEW n \in Nat
    PROVE  \A l \in LRegs :
              Table(R, A, n + 1)[l] = IF l # 0 /\ Writes(R, n + 1, l) THEN R[n + 1].rp ELSE Table(R, A, n)[l]
<1>1. ASSUME NEW l \in LRegs
      PROVE  Table(R, A, n + 1)[l] = IF l # 0 /\ Writes(R, n + 1, l) THEN R[n + 1].rp ELSE Table(R, A, n)[l]
  <2>1. CASE l # 0 /\ Writes(R, n + 1, l)
    <3>1. n + 1 \in 1 .. n + 1 /\ \A i \in 1 .. n + 1 : i <= n + 1
      OBVIOUS
    <3>2. Table(R, A, n + 1)[l] = R[n + 1].rp
      BY <2>1, <3>1, TableValue
    <3> QED BY <2>1, <3>2
  <2>2. CASE l = 0
    <3>1. Table(R, A, n + 1)[l] = A[l] /\ Table(R, A, n)[l] = A[l]
      BY <2>2, TableValue
    <3> QED BY <2>2, <3>1
  <2>3. CASE l # 0 /\ ~Writes(R, n + 1, l)
    <3>1. \A i \in 1 .. n + 1 : Writes(R, i, l) => i \in 1 .. n
      <4> SUFFICES ASSUME NEW i \in 1 .. n + 1, Writes(R, i, l) PROVE i \in 1 .. n
        OBVIOUS
      <4>1. i # n + 1
        BY <2>3
      <4> QED BY <4>1
    <3>2. CASE \E i \in 1 .. n : Writes(R, i, l)
      <4>1. PICK j \in 1 .. n : Writes(R, j, l) /\ \A m \in 1 .. n : Writes(R, m, l) => m <= j
        BY <3>2, LastWriter
      <4>2. Table(R, A, n)[l] = R[j].rp
        BY <2>3, <4>1, TableValue
      <4>3. j \in 1 .. n + 1 /\ \A m \in 1 .. n + 1 : Writes(R, m, l) => m <= j
        BY <3>1, <4>1
      <4>4. Table(R, A, n + 1)[l] = R[j].rp
        BY <2>3, <4>1, <4>3, TableValue
      <4> QED BY <2>3, <4>2, <4>4
    <3>3. CASE \A i \in 1 .. n : ~Writes(R, i, l)
      <4>1. \A i \in 1 .. n + 1 : ~Writes(R, i, l)
        BY <3>1, <3>3
      <4>2. Table(R, A, n)[l] = A[l] /\ Table(R, A, n + 1)[l] = A[l]
        BY <3>3, <4>1, TableValue
      <4> QED BY <2>3, <4>2
    <3> QED BY <3>2, <3>3
  <2> QED BY <2>1, <2>2, <2>3
<1> QED BY <1>1

-----------------------------------------------------------------------------
(***************************************************************************)
(* The speculative table after a cycle outside of traps.                   *)
(***************************************************************************)

\* What retires outside of traps is committed exactly if it is on the valid path.
LEMMA CommitsPath ==
    ASSUME NEW push, NEW go, NEW ex, NEW rp, NEW async, TableStep(push, go, ex, rp, async),
           fsm = "NORMAL", fsm' = "NORMAL"
    PROVE  /\ CommitSet(async) \subseteq Retiring
           /\ RetireReady => /\ Retiring = 1 .. Retired
                             /\ CommitSet(async) = {i \in 1 .. Retired : ~rob[i].wrong}
           /\ ~RetireReady => Retired = 0
           /\ rrat' = IF RetireReady THEN Committed(CommitSet(async)) ELSE rrat
<1>1. /\ Cycle(push, go, ex, rp, async) /\ TypeOK /\ TagInv /\ PathInv
  BY DEF TableStep, CheckpointStep, PathStep, TypeInv
<1>2. \/ RetireNormal(CommitSet(async))
      \/ RetireFlush
      \/ RetireResume
      \/ RetireNothing
  BY <1>1, CycleParts
<1>3. rrat' = IF RetireReady THEN Committed(CommitSet(async)) ELSE rrat
  BY <1>1, <1>2, RratStep DEF NewRrat
<1>4. ~Flushing /\ CommitSet(async) = Committing(async) /\ ActiveTags = active_tags
  BY DEF Flushing, CommitSet, ActiveTags
<1>5. CommitSet(async) \subseteq Retiring
  BY <1>4, CommittingRetires
<1>6. ASSUME RetireReady
      PROVE  Retiring = 1 .. Retired /\ CommitSet(async) = {i \in 1 .. Retired : ~rob[i].wrong}
  <2>1. RetireNormal(CommitSet(async))
    BY <1>2, <1>6 DEF RetireFlush, RetireResume, Resuming, RetireNothing
  <2>2. Trapping = {}
    BY <2>1 DEF RetireNormal, TrapState
  <2>3. Committing(async) = {i \in Retiring : TagActive(i)}
    BY <2>2 DEF Committing
  <2>4. Retiring = 1 .. Retired
    BY <1>6 DEF Retiring, Retired
  <2>5. ASSUME NEW i \in Retiring PROVE TagActive(i) <=> ~rob[i].wrong
    <3>1. RetireTag(i) = rob[i].tag
      BY <1>1, TagsDerived DEF RetirementTagsExact
    <3>2. i \in DOMAIN rob
      BY <1>1, RetiringInRob
    <3>3. i \in 1 .. InFlight /\ i <= Len(rob)
      BY <1>1, <3>2, InstrType
    <3>4. rob[i].wrong <=> rob[i].tag \notin active_tags
      BY <1>1, <3>3 DEF PathInv, PathTags, WrongInactive, Instr
    <3> QED BY <1>4, <3>1, <3>4 DEF TagActive
  <2> QED BY <1>4, <2>3, <2>4, <2>5
<1>7. ~RetireReady => Retired = 0
  BY DEF Retired
<1> QED BY <1>3, <1>5, <1>6, <1>7

\* The committed table is the speculative one after what retires.
LEMMA CommitsTable ==
    ASSUME NEW push, NEW go, NEW ex, NEW rp, NEW async, TableStep(push, go, ex, rp, async),
           fsm = "NORMAL", fsm' = "NORMAL", NEW l \in LRegs
    PROVE  rrat'[l] = IF l = 0 THEN rrat[l] ELSE Table(rob, rrat, Retired)[l]
<1> DEFINE C == CommitSet(async)
           r == Retired
<1>1. /\ TypeOK /\ Zeros
      /\ C \subseteq Retiring
      /\ RetireReady => /\ Retiring = 1 .. r
                        /\ C = {i \in 1 .. r : ~rob[i].wrong}
      /\ ~RetireReady => r = 0
      /\ rrat' = IF RetireReady THEN Committed(C) ELSE rrat
      /\ r \in Nat
  BY CommitsPath, RetiringInRob DEF TableStep, TableInv, CheckpointStep, PathStep, TypeInv
<1>2. CASE ~RetireReady
  <2>1. r = 0 /\ rrat' = rrat
    BY <1>1, <1>2
  <2>2. \A i \in 1 .. 0 : ~Writes(rob, i, l)
    OBVIOUS
  <2>3. Table(rob, rrat, 0)[l] = rrat[l]
    BY <2>2, TableValue
  <2> QED BY <2>1, <2>3
<1>3. CASE RetireReady
  <2>1. rrat'[l] = Committed(C)[l] /\ C = {i \in 1 .. r : ~rob[i].wrong} /\ C \subseteq DOMAIN rob
    BY <1>1, <1>3, RetiringInRob
  <2>2. \/ /\ \A i \in C : rob[i].rl # l
           /\ Committed(C)[l] = rrat[l]
        \/ \E j \in C : /\ rob[j].rl = l
                        /\ Committed(C)[l] = rob[j].rp
                        /\ \A i \in C : rob[i].rl = l => i <= j
    <3> HIDE DEF C
    <3> QED BY <1>1, CommittedValue
  <2>3. CASE /\ \A i \in C : rob[i].rl # l
             /\ Committed(C)[l] = rrat[l]
    <3>1. \A i \in 1 .. r : ~Writes(rob, i, l)
      BY <2>1, <2>3 DEF Writes
    <3>2. Table(rob, rrat, r)[l] = rrat[l]
      BY <1>1, <3>1, TableValue
    <3> QED BY <2>1, <2>3, <3>2
  <2>4. CASE \E j \in C : /\ rob[j].rl = l
                          /\ Committed(C)[l] = rob[j].rp
                          /\ \A i \in C : rob[i].rl = l => i <= j
    <3>1. PICK j \in C : /\ rob[j].rl = l
                         /\ Committed(C)[l] = rob[j].rp
                         /\ \A i \in C : rob[i].rl = l => i <= j
      BY <2>4
    <3>2. CASE l = 0
      <4>1. rob[j].rp = ZeroReg /\ rrat[0] = ZeroReg
        BY <1>1, <2>1, <3>1, <3>2 DEF Zeros
      <4> QED BY <2>1, <3>1, <3>2, <4>1
    <3>3. CASE l # 0
      <4>1. j \in 1 .. r /\ Writes(rob, j, l) /\ \A i \in 1 .. r : Writes(rob, i, l) => i <= j
        BY <2>1, <3>1 DEF Writes
      <4>2. Table(rob, rrat, r)[l] = rob[j].rp
        BY <1>1, <3>3, <4>1, TableValue
      <4> QED BY <2>1, <3>1, <3>3, <4>2
    <3> QED BY <3>2, <3>3
  <2> QED BY <2>2, <2>3, <2>4
<1> QED BY <1>2, <1>3

\* Without the entry that is renamed: the table after the first k2 of the kept entries
\* is the one before, cut at the branch that rolls back.
LEMMA SpecKept ==
    ASSUME NEW push, NEW go, NEW ex, NEW rp, NEW async, TableStep(push, go, ex, rp, async),
           fsm = "NORMAL", fsm' = "NORMAL",
           NEW k2 \in Nat, k2 <= Len(rob) - Retired,
           NEW k \in Nat, Retired <= k, k <= k2 + Retired,
           RollbackTag(ex) = NoTag => k = k2 + Retired,
           RollbackTag(ex) # NoTag => k = IF k2 + Retired > ex[1].at THEN ex[1].at ELSE k2 + Retired
    PROVE  Table(rob', rrat', k2) = Table(rob, rrat, k)
<1> DEFINE r == Retired
           n == Len(rob)
           n2 == Len(rob')
<1>1. /\ TypeOK /\ TypeOK' /\ ex \in Executions /\ rp \in Reports /\ RobCycle(go, ex, rp)
  BY CycleParts DEF TableStep, CheckpointStep, PathStep, TypeInv
<1>2. /\ r \in Nat /\ n \in Nat /\ r <= n /\ DOMAIN rob = 1 .. n
      /\ \A i \in 1 .. n - r : rob'[i] = UpdatedEntry(i + r, ex, rp)
  BY <1>1, RobStep, RetiringInRob, InstrType
<1>3. RollbackTag(ex) # NoTag => ex[1].at \in 1 .. n
  BY <1>1, <1>2, RollbackFacts
<1>4. ASSUME NEW i \in 1 .. k2
      PROVE  /\ rob'[i].rp = rob[i + r].rp
             /\ \A l : Writes(rob', i, l) <=> Writes(rob, i + r, l) /\ i + r <= k
  <2>1. i \in 1 .. n - r /\ i + r \in 1 .. n /\ i + r <= k2 + r
    <3>1. k2 \in Nat /\ k2 <= n - r /\ i \in 1 .. k2
      OBVIOUS
    <3> HIDE DEF n, r
    <3> QED BY <1>2, <3>1
  <2>2. PICK e : e = rob'[i]
    OBVIOUS
  <2>3. PICK rolls : rolls = (RollbackTag(ex) # NoTag /\ i + r > ex[1].at)
    OBVIOUS
  <2>4. e = UpdatedEntry(i + r, ex, rp) /\ i + r \in DOMAIN rob
    BY <1>2, <2>1, <2>2
  <2>5. e.rp = rob[i + r].rp /\ e.rl = rob[i + r].rl /\ e.wrong = (rob[i + r].wrong \/ rolls)
    BY <1>1, <2>3, <2>4, EntryAfter
  <2>6. rolls <=> ~(i + r <= k)
    <3>1. CASE RollbackTag(ex) = NoTag
      <4>1. ~rolls /\ k = k2 + r
        BY <2>3, <3>1
      <4> HIDE DEF r, n
      <4> QED BY <2>1, <4>1
    <3>2. CASE RollbackTag(ex) # NoTag
      <4>1. PICK a \in 1 .. n : a = ex[1].at
        BY <1>3, <3>2
      <4>2. k = IF k2 + r > a THEN a ELSE k2 + r
        BY <3>2, <4>1
      <4>3. rolls <=> i + r > a
        BY <2>3, <3>2, <4>1
      <4> HIDE DEF r, n
      <4> QED BY <1>2, <2>1, <4>1, <4>2, <4>3
    <3> QED BY <3>1, <3>2
  <2>7. rob'[i].rp = rob[i + r].rp /\ rob'[i].rl = rob[i + r].rl
        /\ (rob'[i].wrong <=> rob[i + r].wrong \/ ~(i + r <= k))
    BY <2>2, <2>5, <2>6
  <2> QED BY <2>7 DEF Writes
<1>5. \A l \in LRegs : rrat'[l] = IF l = 0 THEN rrat[l] ELSE Table(rob, rrat, r)[l]
  BY CommitsTable
<1>6. PICK R2 : R2 = rob'
  OBVIOUS
<1>7. PICK A2 : A2 = rrat'
  OBVIOUS
<1>8. Table(R2, A2, k2) = Table(rob, rrat, k)
  <2>1. /\ \A i \in 1 .. k2 : \A l : Writes(R2, i, l) <=> Writes(rob, i + r, l) /\ i + r <= k
        /\ \A i \in 1 .. k2 : R2[i].rp = rob[i + r].rp
        /\ \A l \in LRegs : A2[l] = IF l = 0 THEN rrat[l] ELSE Table(rob, rrat, r)[l]
    BY <1>4, <1>5, <1>6, <1>7
  <2>3. Shifted(rob, rrat, R2, A2, r, k, k2)
    BY <2>1 DEF Shifted
  <2>2. r \in Nat /\ r <= k /\ k <= k2 + r
    BY <1>2
  <2> HIDE DEF r
  <2> QED BY <2>2, <2>3, TableShift
<1> QED BY <1>6, <1>7, <1>8

\* The kept entries that the rollback does not cut keep their table.
LEMMA SpecAtKept ==
    ASSUME NEW push, NEW go, NEW ex, NEW rp, NEW async, TableStep(push, go, ex, rp, async),
           fsm = "NORMAL", fsm' = "NORMAL",
           NEW i \in 1 .. Len(rob) - Retired, ~(RollbackTag(ex) # NoTag /\ i + Retired > ex[1].at)
    PROVE  Table(rob', rrat', i) = Table(rob, rrat, i + Retired)
<1> DEFINE r == Retired
           n == Len(rob)
<1>1. r \in Nat /\ n \in Nat /\ r <= n
  BY RetiringInRob, InstrType DEF TableStep, CheckpointStep, PathStep, TypeInv
<1>2. PICK k2 \in Nat, k \in Nat : k2 = i /\ k = i + r /\ k2 <= n - r /\ r <= k /\ k <= k2 + r
  <2>1. i \in 1 .. n - r
    OBVIOUS
  <2> HIDE DEF r, n
  <2> QED BY <1>1, <2>1
<1>3. /\ RollbackTag(ex) = NoTag => k = k2 + Retired
      /\ RollbackTag(ex) # NoTag => k = IF k2 + Retired > ex[1].at THEN ex[1].at ELSE k2 + Retired
  BY <1>2
<1>4. Table(rob', rrat', k2) = Table(rob, rrat, k)
  BY <1>2, <1>3, SpecKept
<1> QED BY <1>2, <1>4

\* The table at the end of the reorder buffer: that of the branch after a rollback, and
\* otherwise the old one with the rename of the valid path, if any.
LEMMA SpecAtEnd ==
    ASSUME NEW push, NEW go, NEW ex, NEW rp, NEW async, TableStep(push, go, ex, rp, async),
           fsm = "NORMAL", fsm' = "NORMAL"
    PROVE  /\ RollbackTag(ex) # NoTag =>
                 Table(rob', rrat', Len(rob')) = Table(rob, rrat, ex[1].at)
           /\ RollbackTag(ex) = NoTag /\ ~RenameFires(go) =>
                 Table(rob', rrat', Len(rob')) = Table(rob, rrat, Len(rob))
           /\ RollbackTag(ex) = NoTag /\ RenameFires(go) =>
                 Table(rob', rrat', Len(rob')) = Renamed(Table(rob, rrat, Len(rob)), instr_tag_buf[1])
<1> DEFINE r == Retired
           n == Len(rob)
           b == RollbackTag(ex)
<1>1. /\ TypeOK /\ TypeOK' /\ ex \in Executions /\ rp \in Reports /\ RobCycle(go, ex, rp)
      /\ CheckpointStep(push, go, ex, rp, async)
  BY CycleParts DEF TableStep, CheckpointStep, PathStep, TypeInv
<1>2. /\ r \in Nat /\ n \in Nat /\ r <= n /\ DOMAIN rob = 1 .. n
      /\ Len(rob') = n - r + (IF RenameFires(go) THEN 1 ELSE 0)
      /\ RenameFires(go) => rob'[Len(rob')] = RobEntry(instr_tag_buf[1], b # NoTag)
  BY <1>1, RobStep, RetiringInRob, InstrType
<1>3. b # NoTag => ex[1].at \in 1 .. n /\ ex[1].at > r
  BY <1>1, <1>2, RollbackFacts
<1>4. PICK k2 \in Nat, k \in Nat :
              /\ k2 = n - r /\ k2 <= n - r /\ r <= k /\ k <= k2 + r
              /\ k = IF b # NoTag THEN ex[1].at ELSE n
              /\ b = NoTag => k = k2 + r
              /\ b # NoTag => k = IF k2 + r > ex[1].at THEN ex[1].at ELSE k2 + r
  <2>1. CASE b = NoTag
    <3> HIDE DEF b, n, r
    <3> QED BY <1>2, <2>1
  <2>2. CASE b # NoTag
    <3>1. PICK a : a = ex[1].at
      OBVIOUS
    <3>2. a \in 1 .. n /\ a > r
      BY <1>3, <2>2, <3>1
    <3>3. n - r \in Nat /\ a \in Nat /\ n - r <= n - r /\ r <= a /\ a <= (n - r) + r
          /\ a = IF (n - r) + r > a THEN a ELSE (n - r) + r
      <4> HIDE DEF n, r
      <4> QED BY <1>2, <3>2
    <3> HIDE DEF b, n, r
    <3> QED BY <2>2, <3>1, <3>3
  <2> QED BY <2>1, <2>2
<1>5. Table(rob', rrat', k2) = Table(rob, rrat, k)
  BY <1>4, SpecKept
<1>6. CASE ~RenameFires(go)
  <2>1. Len(rob') = k2
    <3> HIDE DEF n, r
    <3> QED BY <1>2, <1>4, <1>6
  <2> QED BY <1>4, <1>5, <1>6, <2>1
<1>7. CASE RenameFires(go)
  <2>1. Len(rob') = k2 + 1
    <3> HIDE DEF n, r
    <3> QED BY <1>2, <1>4, <1>7
  <2>2. PICK x : x = instr_tag_buf[1]
    OBVIOUS
  <2>3. PICK R2 : R2 = rob'
    OBVIOUS
  <2>4. PICK A2 : A2 = rrat'
    OBVIOUS
  <2>5. PICK e : e = R2[k2 + 1]
    OBVIOUS
  <2>6. e = RobEntry(x, b # NoTag)
    BY <1>2, <1>7, <2>1, <2>2, <2>3, <2>5
  <2>7. e.rl = x.rl /\ e.rp = x.rp /\ e.wrong = (x.wrong \/ b # NoTag)
    BY <2>6 DEF RobEntry
  <2>8. /\ \A l \in LRegs : Table(R2, A2, k2 + 1)[l] =
                IF l # 0 /\ Writes(R2, k2 + 1, l) THEN R2[k2 + 1].rp ELSE Table(R2, A2, k2)[l]
        /\ Table(R2, A2, k2 + 1) = [l \in LRegs |-> Table(R2, A2, k2 + 1)[l]]
    <3>1. Table(R2, A2, k2 + 1) = [l \in LRegs |-> Table(R2, A2, k2 + 1)[l]]
      BY DEF Table
    <3>2. \A l \in LRegs : Table(R2, A2, k2 + 1)[l] =
                IF l # 0 /\ Writes(R2, k2 + 1, l) THEN R2[k2 + 1].rp ELSE Table(R2, A2, k2)[l]
      <4>1. k2 \in Nat
        BY <1>4
      <4> HIDE DEF b, n, r
      <4> QED BY <4>1, TableAppend
    <3> QED BY <3>1, <3>2
  <2>9. \A l : Writes(R2, k2 + 1, l) <=> ~x.wrong /\ b = NoTag /\ x.rl = l
    BY <2>5, <2>7 DEF Writes
  <2>10. Table(R2, A2, k2 + 1) =
           [l \in LRegs |-> IF l # 0 /\ ~x.wrong /\ b = NoTag /\ x.rl = l THEN x.rp
                            ELSE Table(rob, rrat, k)[l]]
    BY <1>5, <2>3, <2>4, <2>5, <2>7, <2>8, <2>9
  <2>11. PICK T : T = Table(rob, rrat, k)
    OBVIOUS
  <2>12. T = [l \in LRegs |-> T[l]]
    BY <2>11 DEF Table
  <2>13. (TagValid(x.tag) <=> ~x.wrong) /\ x.rl \in LRegs
    <3>1. instr_tag_buf # <<>>
      BY <1>7 DEF RenameFires
    <3> QED BY <1>1, <2>2, <3>1, Renaming DEF Tagged
  <2>14. CASE b # NoTag
    <3>1. Table(R2, A2, k2 + 1) = T
      BY <2>10, <2>11, <2>12, <2>14
    <3> QED BY <1>4, <2>1, <2>3, <2>4, <2>11, <2>14, <3>1
  <2>15. CASE b = NoTag
    <3>1. Table(R2, A2, k2 + 1) = Renamed(T, x)
      <4>1. CASE x.wrong \/ x.rl = 0
        <5>1. Renamed(T, x) = T
          BY <2>13, <4>1 DEF Renamed
        <5>2. Table(R2, A2, k2 + 1) = [l \in LRegs |-> T[l]]
          BY <2>10, <2>11, <4>1
        <5> QED BY <2>12, <5>1, <5>2
      <4>2. CASE ~x.wrong /\ x.rl # 0
        <5>1. Renamed(T, x) = [T EXCEPT ![x.rl] = x.rp]
          BY <2>13, <4>2 DEF Renamed
        <5>2. [T EXCEPT ![x.rl] = x.rp] = [l \in LRegs |-> IF l = x.rl THEN x.rp ELSE T[l]]
          BY <2>12, <2>13
        <5>3. Table(R2, A2, k2 + 1) = [l \in LRegs |-> IF l = x.rl THEN x.rp ELSE T[l]]
          BY <2>10, <2>11, <2>15, <4>2
        <5> QED BY <5>1, <5>2, <5>3
      <4> QED BY <4>1, <4>2
    <3>2. T = Table(rob, rrat, n)
      BY <1>4, <2>11, <2>15
    <3> QED BY <2>1, <2>2, <2>3, <2>4, <2>15, <3>1, <3>2, <1>7
  <2> QED BY <2>14, <2>15
<1> QED BY <1>6, <1>7

-----------------------------------------------------------------------------
(***************************************************************************)
(* Register 0.                                                             *)
(***************************************************************************)
LEMMA ZeroBuffers ==
    ASSUME TypeOK, NEW go, NEW p, NEW rolls, SchedulerCycle(go, p, rolls),
           ZeroPair(alloc_rename_buf), ZeroPair(instr_tag_buf),
           AllocFires(go) /\ output_pipe[1].rl = 0 => p = ZeroReg
    PROVE  ZeroPair(alloc_rename_buf') /\ ZeroPair(instr_tag_buf')
<1>1. /\ alloc_rename_buf # <<>> => alloc_rename_buf[1] \in Allocated
      /\ instr_tag_buf # <<>> => instr_tag_buf[1] \in Tagged
  BY PipeContents
<1>2. ZeroPair(alloc_rename_buf')
  <2>1. CASE AllocFires(go)
    <3>1. PICK x : x = alloc_rename_buf'
      OBVIOUS
    <3>2. x = <<[rl |-> output_pipe[1].rl, br |-> output_pipe[1].br, rb |-> output_pipe[1].rb,
                 rp |-> p, wrong |-> rolls]>>
      BY <2>1, <3>1 DEF SchedulerCycle, PipeNext
    <3>3. x[1].rl = output_pipe[1].rl /\ x[1].rp = p
      BY <3>2
    <3> QED BY <2>1, <3>1, <3>3 DEF ZeroPair
  <2>2. CASE ~AllocFires(go) /\ TagFires(go)
    BY <2>2 DEF SchedulerCycle, PipeNext, ZeroPair
  <2>3. CASE ~AllocFires(go) /\ ~TagFires(go)
    <3>1. PICK x : x = alloc_rename_buf'
      OBVIOUS
    <3>2. x = IF rolls /\ alloc_rename_buf # <<>>
              THEN <<[alloc_rename_buf[1] EXCEPT !.wrong = TRUE]>> ELSE alloc_rename_buf
      BY <2>3, <3>1 DEF SchedulerCycle, PipeNext
    <3>3. x # <<>> => /\ alloc_rename_buf # <<>>
                      /\ x[1].rl = alloc_rename_buf[1].rl /\ x[1].rp = alloc_rename_buf[1].rp
      BY <1>1, <3>2 DEF Allocated
    <3> QED BY <3>1, <3>3 DEF ZeroPair
  <2> QED BY <2>1, <2>2, <2>3
<1>3. ZeroPair(instr_tag_buf')
  <2>1. CASE TagFires(go)
    <3>0. alloc_rename_buf # <<>>
      BY <2>1 DEF TagFires
    <3>1. PICK x : x = instr_tag_buf'
      OBVIOUS
    <3>2. x = <<[rl |-> alloc_rename_buf[1].rl, br |-> alloc_rename_buf[1].br, rp |-> alloc_rename_buf[1].rp,
                 tag |-> OutTag(TagCall), inc |-> TagIncrement(TagCall), cp |-> OutCheckpoint(TagCall),
                 wrong |-> alloc_rename_buf[1].wrong \/ rolls]>>
      BY <2>1, <3>1 DEF SchedulerCycle, PipeNext
    <3>3. x[1].rl = alloc_rename_buf[1].rl /\ x[1].rp = alloc_rename_buf[1].rp
      BY <3>2
    <3> QED BY <3>0, <3>1, <3>3 DEF ZeroPair
  <2>2. CASE ~TagFires(go) /\ RenameFires(go)
    BY <2>2 DEF SchedulerCycle, PipeNext, ZeroPair
  <2>3. CASE ~TagFires(go) /\ ~RenameFires(go)
    <3>1. PICK x : x = instr_tag_buf'
      OBVIOUS
    <3>2. x = IF rolls /\ instr_tag_buf # <<>>
              THEN <<[instr_tag_buf[1] EXCEPT !.wrong = TRUE]>> ELSE instr_tag_buf
      BY <2>3, <3>1 DEF SchedulerCycle, PipeNext
    <3>3. x # <<>> => /\ instr_tag_buf # <<>>
                      /\ x[1].rl = instr_tag_buf[1].rl /\ x[1].rp = instr_tag_buf[1].rp
      BY <1>1, <3>2 DEF Tagged
    <3> QED BY <3>1, <3>3 DEF ZeroPair
  <2> QED BY <2>1, <2>2, <2>3
<1> QED BY <1>2, <1>3

LEMMA ZerosStep ==
    ASSUME NEW push, NEW go, NEW ex, NEW rp, NEW async, TableStep(push, go, ex, rp, async)
    PROVE  Zeros'
<1>1. /\ TypeOK /\ TypeOK' /\ ex \in Executions /\ rp \in Reports
      /\ PathStep(push, go, ex, rp, async) /\ Cycle(push, go, ex, rp, async) /\ Zeros
  BY DEF TableStep, TableInv, CheckpointStep, PathStep, TypeInv
<1>2. rrat'[0] = ZeroReg
  <2>1. CommitSet(async) \subseteq Retiring
    BY CommittingRetires DEF CommitSet
  <2>2. rrat' = IF RetireReady THEN Committed(CommitSet(async)) ELSE rrat
    BY <1>1, CycleParts, RratStep DEF NewRrat
  <2>3. CommitSet(async) \subseteq DOMAIN rob
    BY <1>1, <2>1, RetiringInRob
  <2>4. 0 \in LRegs
    BY RegsAssumption
  <2>5. PICK C : C = CommitSet(async)
    OBVIOUS
  <2>6. \/ /\ \A i \in C : rob[i].rl # 0
           /\ Committed(C)[0] = rrat[0]
        \/ \E j \in C : /\ rob[j].rl = 0
                        /\ Committed(C)[0] = rob[j].rp
                        /\ \A i \in C : rob[i].rl = 0 => i <= j
    BY <1>1, <2>1, <2>4, <2>5, CommittedValue
  <2> QED BY <1>1, <2>2, <2>3, <2>5, <2>6 DEF Zeros
<1>3. ASSUME NEW i \in DOMAIN rob', rob'[i].rl = 0 PROVE rob'[i].rp = ZeroReg
  <2>1. PICK e : e = rob'[i]
    OBVIOUS
  <2>2. CASE /\ i \in 1 .. Len(rob) - Retired /\ i + Retired \in DOMAIN rob
             /\ rob'[i] = UpdatedEntry(i + Retired, ex, rp)
    <3>1. e.rl = rob[i + Retired].rl /\ e.rp = rob[i + Retired].rp
      BY <1>1, <2>1, <2>2, EntryAfter
    <3> QED BY <1>1, <1>3, <2>1, <2>2, <3>1 DEF Zeros
  <2>3. CASE /\ RenameFires(go) /\ i = Len(rob') /\ i = Len(rob) - Retired + 1
             /\ rob'[i] = RobEntry(instr_tag_buf[1], RollbackTag(ex) # NoTag)
    <3>1. e.rl = instr_tag_buf[1].rl /\ e.rp = instr_tag_buf[1].rp
      BY <2>1, <2>3 DEF RobEntry
    <3>2. instr_tag_buf # <<>>
      BY <2>3 DEF RenameFires
    <3> QED BY <1>1, <1>3, <2>1, <3>1, <3>2 DEF Zeros, ZeroPair
  <2> QED BY <1>1, <2>2, <2>3, RobAfter
<1>4. ZeroPair(alloc_rename_buf') /\ ZeroPair(instr_tag_buf')
  <2>1. PICK p \in IF AllocFires(go) /\ output_pipe[1].rl # 0 THEN free_regs ELSE {ZeroReg} :
            SchedulerCycle(go, p, RollbackTag(ex) # NoTag)
    BY <1>1 DEF Cycle, RegistersCycle
  <2>2. AllocFires(go) /\ output_pipe[1].rl = 0 => p = ZeroReg
    BY <2>1
  <2> QED BY <1>1, <2>1, <2>2, ZeroBuffers DEF Zeros
<1> QED BY <1>2, <1>3, <1>4 DEF Zeros, ZeroPair

-----------------------------------------------------------------------------
(***************************************************************************)
(* The table on its way to the FRAT.                                       *)
(***************************************************************************)
LEMMA FratRegister ==
    ASSUME NEW push, NEW go, NEW ex, NEW rp, NEW async, PathStep(push, go, ex, rp, async)
    PROVE  /\ storage_resp # <<>> => frat' = storage_resp[1]
           /\ storage_resp = <<>> /\ ~Resuming =>
                 frat' = IF RenameFires(go) THEN Renamed(frat, instr_tag_buf[1]) ELSE frat
           /\ storage_resp = <<>> /\ Resuming /\ ~RenameFires(go) => frat' = rrat
<1>1. FratCycle(RenamePart(go), RestorePart)
  BY CycleParts DEF PathStep
<1>2. RenameFires(go) => RenamePart(go) = instr_tag_buf /\ RenamePart(go) # <<>>
  BY DEF RenamePart, RenameFires
<1>3. ~RenameFires(go) => RenamePart(go) = <<>>
  BY DEF RenamePart
<1>4. Resuming => RestorePart # <<>> /\ RestorePart[1] = rrat
  BY DEF RestorePart
<1>5. ~Resuming => RestorePart = <<>>
  BY DEF RestorePart
<1> QED BY <1>1, <1>2, <1>3, <1>4, <1>5 DEF FratCycle

\* The trap is over: the table is the committed one.
LEMMA ResumeTable ==
    ASSUME NEW push, NEW go, NEW ex, NEW rp, NEW async, TableStep(push, go, ex, rp, async), Resuming
    PROVE  /\ rob = <<>> /\ rob' = <<>> /\ tag_map_resp' = <<>> /\ storage_resp' = <<>>
           /\ frat' = Table(rob', rrat', Len(rob'))
<1>1. /\ TypeOK /\ TypeOK' /\ ex \in Executions /\ rp \in Reports /\ CounterExact /\ TrapInv
      /\ PathStep(push, go, ex, rp, async) /\ Cycle(push, go, ex, rp, async) /\ Phases
  BY DEF TableStep, CheckpointInv, CheckpointStep, PathStep, TypeInv
<1>2. fsm = "TRAP_RESUME" /\ last_rollback_finished
  BY DEF Resuming, RestoreReady
<1>3. tag_map_resp = <<>> /\ storage_resp = <<>>
  BY <1>1, <1>2 DEF Phases
<1>4. Len(rob) = 0 /\ rob = <<>> /\ instr_tag_buf = <<>>
  <2>1. core_counter = 0
    BY <1>1, <1>2 DEF TrapInv, ResumeEmpty
  <2>2. /\ rob \in Seq(Entry) /\ instr_tag_buf \in Seq(Tagged) /\ alloc_rename_buf \in Seq(Allocated)
    BY <1>1 DEF TypeOK, AtMostOne
  <2>3. Len(alloc_rename_buf) + Len(instr_tag_buf) + Len(rob) = 0
    BY <1>1, <2>1 DEF CounterExact
  <2>4. Len(rob) \in Nat /\ Len(instr_tag_buf) \in Nat /\ Len(alloc_rename_buf) \in Nat
    BY <2>2
  <2>5. Len(rob) = 0 /\ Len(instr_tag_buf) = 0
    BY <2>3, <2>4
  <2> QED BY <2>2, <2>5
<1>5. RollbackTag(ex) = NoTag
  <2> SUFFICES ASSUME RollbackTag(ex) # NoTag PROVE FALSE
    OBVIOUS
  <2>1. ex[1].at \in DOMAIN rob /\ DOMAIN rob = 1 .. Len(rob)
    BY <1>1, RollbackFacts, InstrType
  <2> QED BY <1>4, <2>1
<1>6. ~RenameFires(go) /\ ~RetireReady /\ Retired = 0
  BY <1>2, <1>4 DEF RenameFires, RetireReady, Flushing, Retired
<1>7. rob' = <<>> /\ Len(rob') = 0
  <2>1. RobCycle(go, ex, rp)
    BY <1>1, CycleParts
  <2>2. Len(rob') = 0
    <3>1. Len(rob') = Len(rob) - Retired + (IF RenameFires(go) THEN 1 ELSE 0)
      BY <1>1, <2>1, RobStep
    <3> QED BY <1>4, <1>6, <3>1
  <2>3. rob' \in Seq(Entry)
    BY <1>1 DEF TypeOK
  <2> QED BY <2>2, <2>3
<1>8. tag_map_resp' = <<>> /\ storage_resp' = <<>>
  BY <1>1, <1>3, <1>5, StageRegisters
<1>9. rrat' = rrat
  BY <1>1, <1>6, CycleParts, RratStep DEF NewRrat
<1>10. frat' = rrat
  BY <1>1, <1>3, <1>6, FratRegister
<1>11. Table(rob', rrat', 0) = rrat
  <2>1. PICK R2 : R2 = rob'
    OBVIOUS
  <2>2. \A l \in LRegs : Table(R2, rrat, 0)[l] = rrat[l]
    <3> SUFFICES ASSUME NEW l \in LRegs PROVE Table(R2, rrat, 0)[l] = rrat[l]
      OBVIOUS
    <3>1. \A i \in 1 .. 0 : ~Writes(R2, i, l)
      OBVIOUS
    <3> QED BY <3>1, TableValue
  <2>3. Table(R2, rrat, 0) = [l \in LRegs |-> Table(R2, rrat, 0)[l]]
    BY DEF Table
  <2>4. rrat = [l \in LRegs |-> rrat[l]]
    BY <1>1 DEF TypeOK, RAT
  <2>5. Table(R2, rrat, 0) = rrat
    BY <2>2, <2>3, <2>4
  <2> QED BY <1>9, <2>1, <2>5
<1> QED BY <1>4, <1>7, <1>8, <1>10, <1>11

LEMMA BackToNormal ==
    ASSUME NEW push, NEW go, NEW ex, NEW rp, NEW async, TableStep(push, go, ex, rp, async),
           fsm' = "NORMAL"
    PROVE  (fsm = "NORMAL" /\ ~Resuming) \/ Resuming
<1>1. \/ RetireNormal(CommitSet(async))
      \/ RetireFlush
      \/ RetireResume
      \/ RetireNothing
  BY CycleParts DEF TableStep, CheckpointStep, PathStep
<1> QED BY <1>1 DEF RetireNormal, RetireFlush, RetireResume, RetireNothing, TrapState, Resuming

\* Of a branch that rolls back the checkpoint is kept, with the table after the branch.
LEMMA RolledBackTable ==
    ASSUME NEW push, NEW go, NEW ex, NEW rp, NEW async, TableStep(push, go, ex, rp, async),
           RollbackTag(ex) # NoTag
    PROVE  storage'[tag_map[RollbackTag(ex)]] = Table(rob, rrat, ex[1].at)
<1> DEFINE b == RollbackTag(ex)
           at == ex[1].at
<1>1. /\ TypeOK /\ PathStep(push, go, ex, rp, async) /\ CheckpointStep(push, go, ex, rp, async) /\ Stored
  BY DEF TableStep, TableInv, CheckpointStep, PathStep, TypeInv
<1>2. /\ at \in DOMAIN rob /\ Pending(at) /\ at > Retired /\ rob[at].tag = b /\ fsm = "NORMAL"
      /\ b \in checkpointed_tags /\ b \in active_tags /\ b \in LiveTags
  BY <1>1, RollingBack
<1>3. Table(rob, rrat, at) = Saved(tag_map[b])
  BY <1>1, <1>2, SpecIsTable DEF Stored
<1>4. b \in active_tags'
  <2>1. /\ DOMAIN rob = 1 .. Len(rob) /\ Len(rob) \in Nat /\ InFlight \in Nat /\ Len(rob) <= InFlight
        /\ Retired \in Nat
    BY <1>1, InstrType, RetiringInRob
  <2>2. PICK k : k = at
    OBVIOUS
  <2>3. k \in Retired + 1 .. InFlight /\ k <= Len(rob) /\ ~(k > k)
    BY <1>2, <2>1, <2>2
  <2>4. Instr(k) = rob[k]
    BY <2>3 DEF Instr
  <2>5. rob[k].tag = b
    BY <1>2, <2>2
  <2>6. Instr(k).tag \in active_tags'
            <=> Instr(k).tag \in active_tags /\ ~(RollbackTag(ex) # NoTag /\ k > ex[1].at)
    BY <1>1, <2>3, KeptActive
  <2> QED BY <1>2, <2>2, <2>3, <2>4, <2>5, <2>6
<1>5. ~(Frees /\ b = tags_tail)
  BY <1>1, <1>4, PathTagRegisters DEF Frees
<1>6. b \in checkpointed_tags'
  <2>1. b \notin TakenBack
    BY <1>2 DEF LiveTags
  <2>2. checkpointed_tags' =
           (checkpointed_tags \cup (IF Creates(go) THEN {instr_tag_buf[1].tag} ELSE {}))
              \ (TakenBack \cup (IF Frees THEN {tags_tail} ELSE {}))
    BY <1>1, CheckpointRegisters
  <2> HIDE DEF b
  <2> QED BY <1>2, <1>5, <2>1, <2>2
<1>7. ~(Creates(go) /\ b = instr_tag_buf[1].tag)
  BY <1>1, <1>2, Creating
<1>8. tag_map'[b] = tag_map[b] /\ storage'[tag_map'[b]] = Saved(tag_map'[b])
  BY <1>1, <1>4, <1>6, <1>7, CheckpointMemories DEF Saved
<1> QED BY <1>3, <1>8

LEMMA RestoresStep ==
    ASSUME NEW push, NEW go, NEW ex, NEW rp, NEW async, TableStep(push, go, ex, rp, async)
    PROVE  Restores'
<1> DEFINE b == RollbackTag(ex)
<1>1. PICK T2 : T2 = Table(rob', rrat', Len(rob'))
  OBVIOUS
<1>2. SUFFICES ASSUME fsm' = "NORMAL"
               PROVE  /\ tag_map_resp' # <<>> => storage'[tag_map_resp'[1]] = T2
                      /\ tag_map_resp' = <<>> /\ storage_resp' # <<>> => storage_resp'[1] = T2
                      /\ last_rollback_finished' => frat' = T2
  BY <1>1, SpecIsTable DEF Restores
<1>3. CASE Resuming
  <2>1. tag_map_resp' = <<>> /\ storage_resp' = <<>> /\ frat' = T2
    BY <1>1, <1>3, ResumeTable
  <2> QED BY <2>1
<1>4. CASE ~Resuming
  <2>1. fsm = "NORMAL"
    BY <1>2, <1>4, BackToNormal
  <2>2. /\ PathStep(push, go, ex, rp, async) /\ CheckpointStep(push, go, ex, rp, async)
        /\ Restores /\ Phases
    BY DEF TableStep, TableInv, CheckpointStep, CheckpointInv
  <2>3. PICK T : T = Table(rob, rrat, Len(rob))
    OBVIOUS
  <2>4. /\ tag_map_resp # <<>> => storage[tag_map_resp[1]] = T
        /\ tag_map_resp = <<>> /\ storage_resp # <<>> => storage_resp[1] = T
        /\ last_rollback_finished => frat = T
    BY <2>1, <2>2, <2>3, SpecIsTable DEF Restores
  <2>5. /\ b # NoTag => T2 = Table(rob, rrat, ex[1].at)
        /\ b = NoTag /\ ~RenameFires(go) => T2 = T
        /\ b = NoTag /\ RenameFires(go) => T2 = Renamed(T, instr_tag_buf[1])
    BY <1>1, <1>2, <2>1, <2>3, SpecAtEnd
  <2>6. RenameFires(go) /\ ~(tag_map_resp = <<>> /\ storage_resp = <<>>) =>
           Renamed(T, instr_tag_buf[1]) = T
    <3> SUFFICES ASSUME RenameFires(go), ~(tag_map_resp = <<>> /\ storage_resp = <<>>)
                 PROVE  Renamed(T, instr_tag_buf[1]) = T
      OBVIOUS
    <3>1. instr_tag_buf # <<>>
      BY DEF RenameFires
    <3>2. ~TagValid(instr_tag_buf[1].tag)
      BY <2>2, <3>1, Renaming
    <3> QED BY <3>2 DEF Renamed
  <2>7. /\ tag_map_resp' = IF b # NoTag THEN <<tag_map[b]>> ELSE <<>>
        /\ storage_resp' = IF tag_map_resp # <<>> THEN <<storage[tag_map_resp[1]]>> ELSE <<>>
        /\ last_rollback_finished' = (/\ b = NoTag
                                      /\ IF storage_resp # <<>> THEN rollback_target_tag = frat_tag_in_next_cycle
                                         ELSE last_rollback_finished)
    BY <2>2, StageRegisters
  <2>8. /\ storage_resp # <<>> => frat' = storage_resp[1]
        /\ storage_resp = <<>> => frat' = IF RenameFires(go) THEN Renamed(frat, instr_tag_buf[1]) ELSE frat
    BY <1>4, <2>2, FratRegister
  <2>9. ASSUME tag_map_resp' # <<>> PROVE storage'[tag_map_resp'[1]] = T2
    <3>1. b # NoTag /\ tag_map_resp' = <<tag_map[b]>>
      BY <2>7, <2>9
    <3>2. storage'[tag_map[b]] = T2
      BY <2>5, <3>1, RolledBackTable
    <3> QED BY <3>1, <3>2
  <2>10. ASSUME tag_map_resp' = <<>>, storage_resp' # <<>> PROVE storage_resp'[1] = T2
    <3>1. b = NoTag /\ tag_map_resp # <<>> /\ storage_resp' = <<storage[tag_map_resp[1]]>>
      BY <2>7, <2>10
    <3>2. T2 = T
      BY <2>5, <2>6, <3>1
    <3> QED BY <2>4, <3>1, <3>2
  <2>11. ASSUME last_rollback_finished' PROVE frat' = T2
    <3>1. b = NoTag
      BY <2>7, <2>11
    <3>2. CASE storage_resp # <<>>
      <4>1. tag_map_resp = <<>>
        BY <2>2, <2>7, <2>11, <3>2 DEF Phases
      <4>2. T2 = T
        BY <2>5, <2>6, <3>1, <3>2
      <4> QED BY <2>4, <2>8, <3>2, <4>1, <4>2
    <3>3. CASE storage_resp = <<>>
      <4>1. frat = T
        BY <2>4, <2>7, <2>11, <3>3
      <4> QED BY <2>5, <2>8, <3>1, <3>3, <4>1
    <3> QED BY <3>2, <3>3
  <2> QED BY <2>9, <2>10, <2>11
<1> QED BY <1>3, <1>4

-----------------------------------------------------------------------------
(***************************************************************************)
(* Saved tables.                                                           *)
(***************************************************************************)

\* A pending branch has an active tag with a checkpoint, before and after a cycle.
LEMMA PendingTags ==
    ASSUME TypeOK, PathInv, CheckpointInv, NEW i \in DOMAIN rob, Pending(i)
    PROVE  rob[i].tag \in checkpointed_tags /\ rob[i].tag \in active_tags /\ rob[i].tag \in Tag
<1>1. i \in 1 .. InFlight /\ i <= Len(rob)
  BY InstrType
<1>2. ~Instr(i).wrong /\ Instr(i) = rob[i] /\ rob[i].tag \in Tag
  BY <1>1, InstrType DEF Pending, Instr
<1>3. rob[i].tag \in active_tags
  BY <1>1, <1>2 DEF PathInv, PathTags, WrongInactive
<1> QED BY <1>2, <1>3 DEF CheckpointInv, BranchCheckpointed

LEMMA PendingTagsAfter ==
    ASSUME TypeOK', PathInv', CheckpointInv', NEW i \in DOMAIN rob',
           rob'[i].br, ~rob'[i].wrong, ~rob'[i].done, ~rob'[i].exe
    PROVE  rob'[i].tag \in checkpointed_tags' \cap active_tags'
<1>1. rob'[i].tag \in checkpointed_tags'
  BY DEF CheckpointInv, BranchCheckpointed, Pending
<1>2. rob' \in Seq(Entry) /\ instr_tag_buf' \in Seq(Tagged)
  BY DEF TypeOK, AtMostOne
<1>3. PICK n \in Nat : n = Len(rob')
  BY <1>2
<1>4. PICK m \in Nat : m = Len(instr_tag_buf')
  BY <1>2
<1>5. i \in 1 .. n
  BY <1>2, <1>3
<1>6. InFlight' = n + m
  BY <1>3, <1>4 DEF InFlight
<1>7. i \in 1 .. n + m /\ i <= n
  BY <1>3, <1>4, <1>5
<1>8. PICK e : e = rob'[i]
  OBVIOUS
<1>9. Instr(i)' = e
  BY <1>3, <1>7, <1>8 DEF Instr
<1>10. \A k \in 1 .. InFlight' : Instr(k)'.wrong <=> Instr(k)'.tag \notin active_tags'
  BY DEF PathInv, PathTags, WrongInactive
<1>11. e.wrong <=> e.tag \notin active_tags'
  BY <1>6, <1>7, <1>9, <1>10
<1> QED BY <1>1, <1>8, <1>11

\* The checkpoint that is created is not one of a pending branch.
LEMMA CreatedApart ==
    ASSUME NEW push, NEW go, NEW ex, NEW rp, NEW async, TableStep(push, go, ex, rp, async),
           Creates(go), NEW j \in DOMAIN rob, Pending(j)
    PROVE  tag_map[rob[j].tag] # checkpoints_head
<1>1. /\ TypeOK /\ PathInv /\ CheckpointInv /\ CheckpointStep(push, go, ex, rp, async)
  BY DEF TableStep, CheckpointStep, PathStep, TypeInv
<1>2. PICK t : t = rob[j].tag
  OBVIOUS
<1>3. t \in checkpointed_tags /\ t \in active_tags /\ t \in Tag
  BY <1>1, <1>2, PendingTags
<1>4. tag_map_resp = <<>> /\ ~checkpoints_full
  BY <1>1, Creating
<1>5. t \in LiveTags /\ RingCount = CpAge(checkpoints_head)
  BY <1>3, <1>4 DEF LiveTags, TakenBack, RingCount, RingFull, RingHead
<1>6. PosMap[t] < RingCount /\ PosMap[t] = CpAge(tag_map[t])
  BY <1>1, <1>3, <1>5 DEF CheckpointInv, RingInv, InOrder, PosMap
<1>7. checkpoints_head \in Checkpoint /\ CpAge(checkpoints_head) \in Nat
  BY <1>1, RingTypes
<1>8. CpAge(tag_map[t]) # CpAge(checkpoints_head)
  BY <1>5, <1>6, <1>7
<1> QED BY <1>2, <1>8

LEMMA StoredStep ==
    ASSUME NEW push, NEW go, NEW ex, NEW rp, NEW async, TableStep(push, go, ex, rp, async)
    PROVE  Stored'
<1> DEFINE b == RollbackTag(ex)
<1>1. SUFFICES ASSUME fsm' = "NORMAL", NEW i \in DOMAIN rob', Pending(i)'
               PROVE  Table(rob', rrat', i) =
                         IF create_checkpoint_pipe' = <<tag_map'[rob'[i].tag]>> THEN frat'
                         ELSE storage'[tag_map'[rob'[i].tag]]
  BY SpecIsTable DEF Stored, Saved
<1>2. CASE Resuming
  <2>1. rob' = <<>>
    BY <1>2, ResumeTable
  <2> QED BY <1>1, <2>1
<1>3. CASE ~Resuming
  <2>1. fsm = "NORMAL"
    BY <1>1, <1>3, BackToNormal
  <2>2. /\ PathStep(push, go, ex, rp, async) /\ CheckpointStep(push, go, ex, rp, async)
        /\ TypeOK /\ TypeOK' /\ PathInv /\ PathInv' /\ CheckpointInv /\ CheckpointInv' /\ TagInv
        /\ Stored /\ ex \in Executions
    BY DEF TableStep, TableInv, CheckpointStep, PathStep, TypeInv
  <2>3. PICK e : e = rob'[i]
    OBVIOUS
  <2>4. PICK t : t = e.tag
    OBVIOUS
  <2>5. e.br /\ ~e.wrong /\ ~e.done /\ ~e.exe
    BY <1>1, <2>3 DEF Pending
  <2>6. t \in checkpointed_tags' \cap active_tags'
    BY <1>1, <2>2, <2>3, <2>4, <2>5, PendingTagsAfter
  <2>7. PICK c : c = tag_map'[t]
    OBVIOUS
  <2>8. /\ c = IF Creates(go) /\ t = instr_tag_buf[1].tag THEN checkpoints_head ELSE tag_map[t]
        /\ storage'[c] = IF create_checkpoint_pipe = <<c>> THEN frat ELSE storage[c]
        /\ create_checkpoint_pipe' = IF Creates(go) THEN <<checkpoints_head>> ELSE <<>>
    BY <2>2, <2>6, <2>7, CheckpointMemories, CheckpointRegisters
  <2>9. CASE /\ RenameFires(go) /\ i = Len(rob') /\ i = Len(rob) - Retired + 1
             /\ rob'[i] = RobEntry(instr_tag_buf[1], b # NoTag)
    <3>1. PICK x : x = instr_tag_buf[1]
      OBVIOUS
    <3>2. e.br = x.br /\ e.tag = x.tag /\ e.wrong = (x.wrong \/ b # NoTag)
      BY <2>3, <2>9, <3>1 DEF RobEntry
    <3>3. x.br /\ ~x.wrong /\ b = NoTag /\ t = x.tag
      BY <2>4, <2>5, <3>2
    <3>4. instr_tag_buf # <<>>
      BY <2>9 DEF RenameFires
    <3>5. /\ InFlight \in 1 .. InFlight /\ Instr(InFlight) = x /\ TagValid(x.tag)
          /\ storage_resp = <<>> /\ last_rollback_finished
      BY <2>2, <3>1, <3>3, <3>4, Renaming
    <3>6. next_tag_increment
      <4>1. InFlight \in Nat
        BY <2>2, InstrType
      <4>2. ~(InFlight < InFlight)
        BY <4>1
      <4> QED BY <2>2, <3>3, <3>5, <4>2 DEF PathInv, PathTags, BranchEndsTag
    <3>7. Creates(go)
      BY <2>2, <2>9, <3>1, <3>4, <3>5, <3>6 DEF Creates, CommitsCheckpoint, CheckpointInv, FreshBranch
    <3>8. c = checkpoints_head /\ create_checkpoint_pipe' = <<c>>
      BY <2>8, <3>1, <3>3, <3>7
    <3>9. last_rollback_finished'
      BY <2>2, <3>3, <3>5, StageRegisters
    <3>10. frat' = Table(rob', rrat', Len(rob'))
      BY <1>1, <3>9, RestoresStep, SpecIsTable DEF Restores
    <3>11. Table(rob', rrat', i) = frat'
      BY <2>9, <3>10
    <3> QED BY <2>3, <2>4, <2>7, <3>8, <3>11
  <2>10. CASE /\ i \in 1 .. Len(rob) - Retired /\ i + Retired \in DOMAIN rob
              /\ rob'[i] = UpdatedEntry(i + Retired, ex, rp)
    <3>1. PICK j : j = i + Retired
      OBVIOUS
    <3>2. j \in DOMAIN rob /\ e = UpdatedEntry(j, ex, rp)
      BY <2>3, <2>10, <3>1
    <3>3. e.tag = rob[j].tag /\ Pending(j) /\ ~(RollbackTag(ex) # NoTag /\ j > ex[1].at)
      BY <2>2, <2>5, <3>2, EntryAfter
    <3>4. Table(rob', rrat', i) = Table(rob, rrat, j)
      BY <1>1, <2>1, <2>10, <3>1, <3>3, SpecAtKept
    <3>5. Table(rob, rrat, j) = Saved(tag_map[t])
      BY <2>1, <2>2, <2>4, <3>2, <3>3, SpecIsTable DEF Stored
    <3>6. t \in checkpointed_tags
      BY <2>2, <2>4, <3>2, <3>3, PendingTags
    <3>7. c = tag_map[t]
      BY <2>2, <2>8, <3>6, Creating
    <3>8. create_checkpoint_pipe' # <<c>>
      <4>1. CASE Creates(go)
        <5>1. c # checkpoints_head
          BY <2>4, <3>2, <3>3, <3>7, <4>1, CreatedApart
        <5> QED BY <2>8, <4>1, <5>1
      <4>2. CASE ~Creates(go)
        BY <2>8, <4>2
      <4> QED BY <4>1, <4>2
    <3>9. storage'[c] = Saved(c)
      BY <2>8 DEF Saved
    <3> QED BY <2>3, <2>4, <2>7, <3>4, <3>5, <3>7, <3>8, <3>9
  <2> QED BY <2>2, <2>9, <2>10, RobAfter
<1> QED BY <1>2, <1>3

-----------------------------------------------------------------------------
LEMMA TableInvInit == Init => TableInv
<1> SUFFICES ASSUME Init PROVE TableInv
  OBVIOUS
<1>1. Zeros
  BY RegsAssumption DEF Init, Zeros, ZeroPair, ZeroRAT
<1>2. rob = <<>> /\ rrat = ZeroRAT /\ frat = ZeroRAT /\ tag_map_resp = <<>> /\ storage_resp = <<>>
  BY DEF Init, CRATInit
<1>3. SpecRAT(Len(rob)) = frat
  <2>1. Len(rob) = 0
    BY <1>2
  <2>2. ASSUME NEW l \in LRegs PROVE Table(rob, rrat, 0)[l] = ZeroReg
    <3>1. \A i \in 1 .. 0 : ~Writes(rob, i, l)
      OBVIOUS
    <3>2. Table(rob, rrat, 0)[l] = rrat[l]
      BY <3>1, TableValue
    <3> QED BY <1>2, <3>2 DEF ZeroRAT
  <2>3. Table(rob, rrat, 0) = [l \in LRegs |-> Table(rob, rrat, 0)[l]]
    BY DEF Table
  <2>4. Table(rob, rrat, 0) = ZeroRAT
    BY <2>2, <2>3 DEF ZeroRAT
  <2> QED BY <1>2, <2>1, <2>4, SpecIsTable
<1> QED BY <1>1, <1>2, <1>3 DEF TableInv, Restores, Stored

LEMMA TableInvNext ==
    ASSUME ~MarkerRace
    PROVE  TypeInv /\ TagInv /\ TrapInv /\ PathInv /\ CheckpointInv /\ TableInv /\ [Next]_vars => TableInv'
<1> SUFFICES ASSUME TypeInv, TagInv, TrapInv, PathInv, CheckpointInv, TableInv, [Next]_vars
             PROVE  TableInv'
  OBVIOUS
<1>1. TypeOK' /\ TrapInv' /\ PathInv' /\ CheckpointInv'
  BY TypeInvNext, TrapInvNext, PathInvNext, CheckpointInvNext DEF TypeInv
<1>2. CASE Next
  <2>1. PICK push \in Deliveries, go \in BOOLEAN, ex \in Executions, rp \in Reports, async \in BOOLEAN :
            Cycle(push, go, ex, rp, async)
    BY <1>2, NextIsCycle
  <2>2. TableStep(push, go, ex, rp, async)
    BY <1>1, <2>1 DEF TableStep, CheckpointStep, PathStep
  <2> QED BY <2>2, ZerosStep, RestoresStep, StoredStep DEF TableInv
<1>3. CASE UNCHANGED vars
  <2>1. UNCHANGED <<frat, storage, tag_map, create_checkpoint_pipe, tag_map_resp, storage_resp,
                    last_rollback_finished, alloc_rename_buf, instr_tag_buf, rob, rrat, fsm>>
    BY <1>3 DEF vars, cratVars, checkpointVars, rollbackVars, schedVars, backVars
  <2>2. Zeros'
    BY <2>1 DEF TableInv, Zeros, ZeroPair
  <2>3. Restores'
    BY <2>1 DEF TableInv, Restores, SpecRAT
  <2>4. Stored'
    BY <2>1 DEF TableInv, Stored, Saved, Pending, SpecRAT
  <2> QED BY <2>2, <2>3, <2>4 DEF TableInv
<1> QED BY <1>2, <1>3

\* An instruction of the valid path is renamed only once the table is restored.
LEMMA TableRenames ==
    ASSUME TypeOK, PathInv, CheckpointInv, TableInv
    PROVE  FratIsSpeculative
<1> SUFFICES ASSUME fsm = "NORMAL",
                    last_rollback_finished \/ \E i \in DOMAIN instr_tag_buf : ~instr_tag_buf[i].wrong
             PROVE  frat = SpecRAT(Len(rob))
  BY DEF FratIsSpeculative
<1>1. last_rollback_finished
  <2> SUFFICES ASSUME NEW i \in DOMAIN instr_tag_buf, ~instr_tag_buf[i].wrong
               PROVE  last_rollback_finished
    OBVIOUS
  <2>1. instr_tag_buf \in Seq(Tagged) /\ Len(instr_tag_buf) <= 1
    BY DEF TypeOK, AtMostOne
  <2>2. i = 1 /\ instr_tag_buf # <<>>
    BY <2>1
  <2>3. ~rollback_just_started
    BY <2>2 DEF PathInv, LockInv
  <2> QED BY <2>3 DEF CheckpointInv, Phases
<1> QED BY <1>1 DEF TableInv, Restores

LEMMA TableRestored ==
    ASSUME TypeInv, TrapInv, PathInv, CheckpointInv, TableInv
    PROVE  CheckpointsExact
<1>1. CheckpointsCounted
  BY RingCountsTags DEF TypeInv, CheckpointInv
<1>2. ASSUME NEW i \in DOMAIN rob,
             rob[i].br, ~rob[i].done, ~rob[i].exe, rob[i].tag \in ActiveTags
      PROVE  /\ rob[i].tag \in checkpointed_tags \cap active_tags
             /\ SpecRAT(i) = Saved(tag_map[rob[i].tag])
  <2>1. TypeOK
    BY DEF TypeInv
  <2>2. fsm = "NORMAL"
    <3>1. fsm # "TRAP_FLUSH" /\ fsm \in {"NORMAL", "TRAP_FLUSH", "TRAP_RESUME"}
      BY <1>2, <2>1 DEF ActiveTags, Flushing, TypeOK
    <3>2. Len(rob) > 0 /\ Len(rob) \in Nat
      BY <2>1, InstrType
    <3>3. fsm # "TRAP_RESUME"
      <4> SUFFICES ASSUME fsm = "TRAP_RESUME" PROVE FALSE
        OBVIOUS
      <4>1. core_counter = 0
        BY DEF TrapInv, ResumeEmpty
      <4>2. instr_tag_buf \in Seq(Tagged) /\ alloc_rename_buf \in Seq(Allocated)
        BY <2>1 DEF TypeOK, AtMostOne
      <4>3. Len(alloc_rename_buf) \in Nat /\ Len(instr_tag_buf) \in Nat
        BY <4>2
      <4>4. Len(alloc_rename_buf) + Len(instr_tag_buf) + Len(rob) = 0
        BY <4>1 DEF TypeInv, CounterExact
      <4> QED BY <3>2, <4>3, <4>4
    <3> QED BY <3>1, <3>3
  <2>3. rob[i].tag \in active_tags
    BY <1>2, <2>2 DEF ActiveTags, Flushing
  <2>4. i \in 1 .. InFlight /\ i <= Len(rob)
    BY <2>1, InstrType
  <2>5. ~rob[i].wrong
    BY <2>3, <2>4 DEF PathInv, PathTags, WrongInactive, Instr
  <2>6. Pending(i)
    BY <1>2, <2>5 DEF Pending
  <2> QED BY <2>1, <2>2, <2>6, PendingTags DEF TableInv, Stored
<1> QED BY <1>1, <1>2 DEF CheckpointsExact, Saved

\* The table the renaming uses is the right one, for all numbers of registers, tags and
\* ROB entries: whatever was speculated, rolled back or trapped before, FRAT in
\* CheckpointRAT is the committed table with the renames of the valid path applied
\* whenever no restore is under way or an instruction of the valid path is renamed.
THEOREM RenamesRight ==
    ASSUME ~MarkerRace
    PROVE  Spec => []FratIsSpeculative
<1>1. TypeInv /\ PathInv /\ CheckpointInv /\ TableInv => FratIsSpeculative
  BY TableRenames DEF TypeInv
<1>2. TypeInv /\ TagInv /\ TrapInv /\ PathInv /\ [Next]_vars => PathInv'
  BY PathInvNext
<1>3. TypeInv /\ TagInv /\ TrapInv /\ PathInv /\ CheckpointInv /\ [Next]_vars => CheckpointInv'
  BY CheckpointInvNext
<1>4. TypeInv /\ TagInv /\ TrapInv /\ PathInv /\ CheckpointInv /\ TableInv /\ [Next]_vars => TableInv'
  BY TableInvNext
<1> QED BY <1>1, <1>2, <1>3, <1>4, TableInvInit, PathInvInit, CheckpointInvInit, TypeInvInit, TypeInvNext,
           TagInvInit, TagInvNext, TrapInvInit, TrapInvNext, PTL DEF Spec

\* Every branch that may still roll the core back has a checkpoint with the table right
\* after it, and checkpoints are neither leaked nor freed twice, for all values of the
\* constants: CheckpointRAT.rollback never meets its "rollback to illegal tag".
THEOREM RestoresRight ==
    ASSUME ~MarkerRace
    PROVE  Spec => []CheckpointsExact
<1>1. TypeInv /\ TrapInv /\ PathInv /\ CheckpointInv /\ TableInv => CheckpointsExact
  BY TableRestored
<1>2. TypeInv /\ TagInv /\ TrapInv /\ PathInv /\ [Next]_vars => PathInv'
  BY PathInvNext
<1>3. TypeInv /\ TagInv /\ TrapInv /\ PathInv /\ CheckpointInv /\ [Next]_vars => CheckpointInv'
  BY CheckpointInvNext
<1>4. TypeInv /\ TagInv /\ TrapInv /\ PathInv /\ CheckpointInv /\ TableInv /\ [Next]_vars => TableInv'
  BY TableInvNext
<1> QED BY <1>1, <1>2, <1>3, <1>4, TableInvInit, PathInvInit, CheckpointInvInit, TypeInvInit, TypeInvNext,
           TagInvInit, TagInvNext, TrapInvInit, TrapInvNext, PTL DEF Spec
=============================================================================
