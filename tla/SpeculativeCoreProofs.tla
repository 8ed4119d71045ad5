------------------------ MODULE SpeculativeCoreProofs ------------------------
(***************************************************************************)
(* Type correctness of the core and, first, of the Checkpoint RAT in it.   *)
(***************************************************************************)
EXTENDS SpeculativeCore, FiniteSetsExt, WellFoundedInduction, SequenceTheorems, TLAPS

(***************************************************************************)
(* The greatest and the least element of a set of naturals exist, so that  *)
(* Max and Min of FiniteSetsExt are what their names say.                  *)
(***************************************************************************)
\* The order of the naturals, as the relation the library proves well founded.
LEMMA LessThanRelation == \A x, y \in Nat : x < y => <<x, y>> \in OpToRel(<, Nat)
BY SMT DEF OpToRel

\* Every nonempty set of naturals has a least element.
LEMMA LeastNumber ==
    ASSUME NEW S \in SUBSET Nat, S # {}
    PROVE  \E x \in S : \A y \in S : x <= y
<1>1. PICK x \in S : \A y \in S : ~ (<<y, x>> \in OpToRel(<, Nat))
  BY WFMin, NatLessThanWellFounded
<1>2. \A y \in S : ~ (y < x)
  BY <1>1, LessThanRelation
<1> QED BY <1>2

\* Min returns that element.
LEMMA MinIsLeast ==
    ASSUME NEW S \in SUBSET Nat, S # {}
    PROVE  Min(S) \in S /\ \A y \in S : Min(S) <= y
BY LeastNumber DEF Min

\* Max returns the greatest element of a bounded nonempty set.
LEMMA MaxIsGreatest ==
    ASSUME NEW n \in Nat, NEW S \in SUBSET (0 .. n), S # {}
    PROVE  Max(S) \in S /\ \A y \in S : y <= Max(S)
<1> DEFINE T == {u \in Nat : \E x \in S : u = n - x}
<1>1. T # {}
  <2>1. PICK x \in S : x \in 0 .. n BY Zenon
  <2>2. n - x \in T BY <2>1
  <2> QED BY <2>2
<1>2. PICK t \in T : \A u \in T : t <= u
  <2>1. T \in SUBSET Nat OBVIOUS
  <2> HIDE DEF T
  <2> QED BY <1>1, <2>1, LeastNumber
<1>3. PICK x \in S : t = n - x
  BY <1>2
<1>4. ASSUME NEW y \in S PROVE y <= x
  <2>1. n - y \in T BY y \in 0 .. n
  <2> QED BY <2>1, <1>2, <1>3, x \in 0 .. n, y \in 0 .. n
<1> QED BY <1>4 DEF Max

-----------------------------------------------------------------------------

USE TagsAssumption, CheckpointsAssumption, RegsAssumption

(***************************************************************************)
(* Checkpoint RAT: whatever methods run in a cycle with arguments of the   *)
(* right type, every register stays in its type.                           *)
(***************************************************************************)
TagArgument == [rb : Tag \cup {NoTag}, cp : BOOLEAN]
RenameArgument(r) == r.tag \in Tag /\ r.rl \in LRegs /\ r.rp \in AnyReg

\* A pipe register is empty or holds one element.
LEMMA PipeElement ==
    ASSUME NEW S, NEW q \in AtMostOne(S)
    PROVE  /\ q # <<>> => q[1] \in S /\ q = <<q[1]>> /\ DOMAIN q = {1} /\ Len(q) = 1
           /\ q = <<>> => DOMAIN q = {} /\ Len(q) = 0
<1>1. q \in Seq(S) /\ Len(q) \in Nat /\ Len(q) <= 1
  BY DEF AtMostOne
<1>2. CASE q = <<>>
  BY <1>2
<1>3. CASE q # <<>>
  <2>0. Len(q) \in Nat \ {0} BY <1>1, <1>3, EmptySeq, Zenon
  <2>1. Len(q) = 1
    <3>1. \A n \in Nat : n # 0 /\ n <= 1 => n = 1 OBVIOUS
    <3> QED BY <1>1, <2>0, <3>1, Zenon
  <2>2. q[1] \in S BY <1>1, <2>1, ElementOfSeq
  <2>3. DOMAIN q = {1} BY <1>1, <2>1, LenProperties
  <2>4. q = <<q[1]>> BY <1>1, <2>1, <2>2
  <2> QED BY <1>3, <2>1, <2>2, <2>3, <2>4
<1> QED BY <1>2, <1>3

\* Writing and clearing a pipe register keeps its type.
LEMMA PipeType ==
    ASSUME NEW S
    PROVE  <<>> \in AtMostOne(S) /\ \A x \in S : <<x>> \in AtMostOne(S)
BY EmptySeq DEF AtMostOne

\* The next tag and the next checkpoint stay in range.
LEMMA Successors ==
    /\ \A t \in Tag : NextTag(t) \in Tag
    /\ \A c \in Checkpoint : NextCheckpoint(c) \in Checkpoint
BY DEF Tag, Checkpoint, NextTag, NextCheckpoint

\* The tag ring: head, tail and the issued tag stay tags, the masks sets of tags.
LEMMA TagsType ==
    ASSUME CRATTypeOK, NEW tg, NEW rb, NEW fr,
           tg # <<>> => tg[1] \in TagArgument,
           TagsCycle(tg, rb, fr)
    PROVE  /\ {tags_head', tags_tail', last_issued_tag'} \subseteq Tag
           /\ active_tags' \in SUBSET Tag
           /\ next_tag_increment' \in BOOLEAN
<1>1. tags_head' \in Tag /\ tags_tail' \in Tag
  BY Successors DEF TagsCycle, CRATTypeOK
<1>2. last_issued_tag' \in Tag
  BY DEF TagsCycle, CRATTypeOK, OutTag
<1>3. active_tags' \in SUBSET Tag
  BY DEF TagsCycle, CRATTypeOK
<1>4. next_tag_increment' \in BOOLEAN
  BY DEF TagsCycle, CRATTypeOK, OutCheckpoint, TagArgument
<1> QED BY <1>1, <1>2, <1>3, <1>4

\* The checkpoint ring, the tag-to-checkpoint memory and the saved tables keep
\* their types when a checkpoint is made, freed or taken back.
LEMMA CheckpointsType ==
    ASSUME CRATTypeOK, NEW rn, NEW fr \in BOOLEAN,
           rn # <<>> => RenameArgument(rn[1]),
           CheckpointsCycle(rn, fr)
    PROVE  /\ {checkpoints_head', checkpoints_tail'} \subseteq Checkpoint
           /\ checkpoints_full' \in BOOLEAN
           /\ checkpointed_tags' \in SUBSET Tag
           /\ create_checkpoint_pipe' \in AtMostOne(Checkpoint)
           /\ tag_map' \in [Tag -> Checkpoint]
           /\ storage' \in [Checkpoint -> RAT]
<1>1. checkpoints_head' \in Checkpoint /\ checkpoints_tail' \in Checkpoint
  BY Successors, PipeElement DEF CheckpointsCycle, CRATTypeOK
<1>2. checkpoints_full' \in BOOLEAN
  BY DEF CheckpointsCycle, CRATTypeOK
<1>3. checkpointed_tags' \in SUBSET Tag
  BY DEF CheckpointsCycle, CRATTypeOK, RenameArgument
<1>4. create_checkpoint_pipe' \in AtMostOne(Checkpoint)
  BY PipeType DEF CheckpointsCycle, CRATTypeOK
<1>5. tag_map' \in [Tag -> Checkpoint]
  <2>1. 0 \in Checkpoint BY DEF Checkpoint
  <2> QED BY <2>1 DEF CheckpointsCycle, CRATTypeOK, KeepMap, RenameArgument
<1>6. storage' \in [Checkpoint -> RAT]
  <2>1. ZeroRAT \in RAT BY DEF ZeroRAT, RAT, AnyReg
  <2> QED BY <2>1, PipeElement DEF CheckpointsCycle, CRATTypeOK, KeepStorage
<1> QED BY <1>1, <1>2, <1>3, <1>4, <1>5, <1>6

\* The registers of the two rollback stages and of the FRAT lock keep their types.
LEMMA RollbackType ==
    ASSUME CRATTypeOK, NEW tg, NEW rn, NEW rb \in Tag \cup {NoTag},
           tg # <<>> => tg[1] \in TagArgument,
           RollbackCycle(tg, rn, rb)
    PROVE  /\ {rollback_target_tag', rollback_tag_s1', frat_tag_in_next_cycle'} \subseteq Tag
           /\ {rollback_just_started', frat_lock', last_rollback_finished'} \subseteq BOOLEAN
           /\ tag_map_resp' \in AtMostOne(Checkpoint)
           /\ storage_resp' \in AtMostOne(RAT)
           /\ frat_unlock_tag' \in Tag \cup {NoTag}
<1>1. {rollback_target_tag', rollback_tag_s1', frat_tag_in_next_cycle'} \subseteq Tag
  BY DEF RollbackCycle, CRATTypeOK
<1>2. {rollback_just_started', frat_lock', last_rollback_finished'} \subseteq BOOLEAN
  BY DEF RollbackCycle, CRATTypeOK
<1>3. tag_map_resp' \in AtMostOne(Checkpoint)
  BY PipeType DEF RollbackCycle, CRATTypeOK
<1>4. storage_resp' \in AtMostOne(RAT)
  BY PipeType, PipeElement DEF RollbackCycle, CRATTypeOK
<1>5. frat_unlock_tag' \in Tag \cup {NoTag}
  BY DEF RollbackCycle, CRATTypeOK, OutTag
<1> QED BY <1>1, <1>2, <1>3, <1>4, <1>5

\* The FRAT stays a table, whichever of restore, rename and flush_restore wins.
LEMMA FratType ==
    ASSUME CRATTypeOK, NEW rn, NEW rs,
           rn # <<>> => RenameArgument(rn[1]),
           rs # <<>> => rs[1] \in RAT,
           FratCycle(rn, rs)
    PROVE  frat' \in RAT
<1>1. ASSUME NEW rat \in RAT, NEW r, RenameArgument(r) PROVE Renamed(rat, r) \in RAT
  BY DEF Renamed, RAT, RenameArgument
<1>2. storage_resp # <<>> => storage_resp[1] \in RAT
  BY PipeElement DEF CRATTypeOK
<1> QED BY <1>1, <1>2 DEF FratCycle, CRATTypeOK

\* The tables, counters and pipes of the CRAT keep their types in every cycle,
\* for all numbers of tags, checkpoints and registers.
THEOREM CRATCycleType ==
    ASSUME CRATTypeOK, NEW tg, NEW rn, NEW rb \in Tag \cup {NoTag}, NEW fr \in BOOLEAN, NEW rs,
           tg # <<>> => tg[1] \in TagArgument,
           rn # <<>> => RenameArgument(rn[1]),
           rs # <<>> => rs[1] \in RAT,
           CRATCycle(tg, rn, rb, fr, rs)
    PROVE  CRATTypeOK'
<1>1. TagsCycle(tg, rb, fr) /\ CheckpointsCycle(rn, fr) /\ RollbackCycle(tg, rn, rb) /\ FratCycle(rn, rs)
  BY DEF CRATCycle
<1>2. /\ {tags_head', tags_tail', last_issued_tag'} \subseteq Tag
      /\ active_tags' \in SUBSET Tag
      /\ next_tag_increment' \in BOOLEAN
  BY <1>1, TagsType
<1>3. /\ {checkpoints_head', checkpoints_tail'} \subseteq Checkpoint
      /\ checkpoints_full' \in BOOLEAN
      /\ checkpointed_tags' \in SUBSET Tag
      /\ create_checkpoint_pipe' \in AtMostOne(Checkpoint)
      /\ tag_map' \in [Tag -> Checkpoint]
      /\ storage' \in [Checkpoint -> RAT]
  BY <1>1, CheckpointsType
<1>4. /\ {rollback_target_tag', rollback_tag_s1', frat_tag_in_next_cycle'} \subseteq Tag
      /\ {rollback_just_started', frat_lock', last_rollback_finished'} \subseteq BOOLEAN
      /\ tag_map_resp' \in AtMostOne(Checkpoint)
      /\ storage_resp' \in AtMostOne(RAT)
      /\ frat_unlock_tag' \in Tag \cup {NoTag}
  BY <1>1, RollbackType
<1>5. frat' \in RAT
  BY <1>1, FratType
<1> QED BY <1>2, <1>3, <1>4, <1>5 DEF CRATTypeOK

-----------------------------------------------------------------------------
(***************************************************************************)
(* The core.                                                               *)
(***************************************************************************)
USE SizesAssumption, EnvironmentAssumption

\* The entries that retire are entries of the ROB.
LEMMA RetiringInRob ==
    ASSUME TypeOK
    PROVE  /\ RetireCount \in 0 .. RetireWidth
           /\ RetireCount <= Len(rob)
           /\ Retiring \subseteq DOMAIN rob
           /\ Retired \in Nat /\ Retired <= Len(rob)
<1> DEFINE S == {n \in 0 .. RetireWidth : Retirable(n)}
<1>1. Len(rob) \in Nat /\ DOMAIN rob = 1 .. Len(rob)
  BY LenProperties DEF TypeOK
<1>2. 0 \in S
  BY <1>1 DEF Retirable
<1>3. Max(S) \in S
  <2>1. S \in SUBSET (0 .. RetireWidth) OBVIOUS
  <2> HIDE DEF S
  <2> QED BY <1>2, <2>1, MaxIsGreatest
<1>4. RetireCount \in 0 .. RetireWidth /\ RetireCount <= Len(rob)
  BY <1>3 DEF RetireCount, Retirable
<1>5. Retiring \subseteq DOMAIN rob
  BY <1>1, <1>4 DEF Retiring
<1>6. Retired \in Nat /\ Retired <= Len(rob)
  BY <1>1, <1>4 DEF Retired
<1> QED BY <1>4, <1>5, <1>6

\* The greatest of a nonempty set of retiring entries is one of them.
LEMMA MaxRetiring ==
    ASSUME TypeOK, NEW W, W \subseteq Retiring, W # {}
    PROVE  Max(W) \in W /\ \A y \in W : y <= Max(W)
<1>1. RetireCount \in Nat /\ W \in SUBSET (0 .. RetireCount)
  BY RetiringInRob DEF Retiring
<1> QED BY <1>1, MaxIsGreatest

\* So is the least.
LEMMA MinRetiring ==
    ASSUME TypeOK, NEW W, W \subseteq Retiring, W # {}
    PROVE  Min(W) \in W /\ \A y \in W : Min(W) <= y
<1>1. W \in SUBSET Nat
  BY RetiringInRob DEF Retiring
<1> QED BY <1>1, MinIsLeast

\* A ROB entry has the fields and types of Entry.
LEMMA RobElement ==
    ASSUME TypeOK, NEW i \in DOMAIN rob
    PROVE  rob[i] \in Entry
BY LenProperties, ElementOfSeq DEF TypeOK

\* What the retirement commits and releases are registers.
LEMMA CommitTypes ==
    ASSUME TypeOK, NEW C, C \subseteq Retiring
    PROVE  /\ Committed(C) \in RAT
           /\ \A i \in C : OldReg(C, i) \in AnyReg
           /\ Released(C) \subseteq PRegs
<1>1. \A i \in Retiring : rob[i] \in Entry
  BY RobElement, RetiringInRob
<1>2. rrat \in RAT
  BY DEF TypeOK
<1>3. ASSUME NEW l \in LRegs
      PROVE  Committed(C)[l] \in AnyReg
  <2> DEFINE W == {i \in C : rob[i].rl = l}
  <2>1. W \subseteq Retiring OBVIOUS
  <2>2. W # {} => Max(W) \in Retiring
    <3> HIDE DEF W
    <3> QED BY <2>1, MaxRetiring
  <2>3. W # {} => rob[Max(W)].rp \in AnyReg
    BY <2>2, <1>1 DEF Entry
  <2> QED BY <2>3, <1>2 DEF Committed, RAT
<1>4. Committed(C) \in RAT
  BY <1>3 DEF Committed, RAT
<1>5. ASSUME NEW i \in C
      PROVE  OldReg(C, i) \in AnyReg
  <2> DEFINE W == {j \in C : j < i /\ rob[j].rl = rob[i].rl}
  <2>1. W \subseteq Retiring OBVIOUS
  <2>2. W # {} => Max(W) \in Retiring
    <3> HIDE DEF W
    <3> QED BY <2>1, MaxRetiring
  <2>3. W # {} => rob[Max(W)].rp \in AnyReg
    BY <2>2, <1>1 DEF Entry
  <2>4. rrat[rob[i].rl] \in AnyReg
    BY <1>1, <1>2 DEF RAT, Entry
  <2> QED BY <2>3, <2>4 DEF OldReg
<1>6. Released(C) \subseteq PRegs
  <2>1. \A i \in Retiring : rob[i].rp \in AnyReg
    BY <1>1 DEF Entry
  <2>2. {rob[i].rp : i \in Retiring \ C} \cup {OldReg(C, i) : i \in C} \subseteq AnyReg
    BY <2>1, <1>5
  <2> QED BY <2>2 DEF Released, AnyReg
<1> QED BY <1>4, <1>5, <1>6

\* The entries committed are entries that retire.
LEMMA CommittingRetires ==
    ASSUME NEW async
    PROVE  Committing(async) \subseteq Retiring
BY DEF Committing
-----------------------------------------------------------------------------
(***************************************************************************)
(* The step, with the names its parts are proved under.                    *)
(***************************************************************************)
CommitSet(async) == IF Flushing THEN {} ELSE Committing(async)
TagPart(go) == IF TagFires(go) THEN <<TagCall>> ELSE <<>>
RenamePart(go) == IF RenameFires(go) THEN instr_tag_buf ELSE <<>>
RestorePart == IF Resuming THEN <<rrat>> ELSE <<>>

\* The contents of the pipes, when they have any.
LEMMA PipeContents ==
    ASSUME TypeOK
    PROVE  /\ output_pipe # <<>> => output_pipe[1] \in Fetched
           /\ alloc_rename_buf # <<>> => alloc_rename_buf[1] \in Allocated
           /\ instr_tag_buf # <<>> => instr_tag_buf[1] \in Tagged
BY PipeElement DEF TypeOK

\* An execution is of an entry of the ROB and rolls back to that entry's tag.
LEMMA RollbackTagType ==
    ASSUME TypeOK, NEW ex \in Executions
    PROVE  /\ ex # <<>> => ex[1] \in Execution
           /\ RollbackTag(ex) \in Tag \cup {NoTag}
<1>1. ex # <<>> => ex[1] \in Execution
  BY DEF Executions
<1>2. ex # <<>> => rob[ex[1].at].tag \in Tag
  BY <1>1, RobElement DEF Execution, Entry
<1> QED BY <1>1, <1>2 DEF RollbackTag

\* A cycle of the core calls the CRAT with arguments of the right types.
LEMMA CRATStep ==
    ASSUME TypeOK, NEW go, NEW ex \in Executions, NEW fr \in BOOLEAN,
           CRATCycle(TagPart(go), RenamePart(go), RollbackTag(ex), fr, RestorePart)
    PROVE  CRATTypeOK'
<1>1. CRATTypeOK /\ RollbackTag(ex) \in Tag \cup {NoTag}
  BY RollbackTagType DEF TypeOK
<1>2. TagPart(go) # <<>> => TagPart(go)[1] \in TagArgument
  BY PipeContents DEF TagPart, TagFires, TagCall, TagArgument, Allocated, Flag
<1>3. RenamePart(go) # <<>> => RenameArgument(RenamePart(go)[1])
  BY PipeContents DEF RenamePart, RenameFires, RenameArgument, Tagged, Flag
<1>4. RestorePart # <<>> => RestorePart[1] \in RAT
  BY DEF RestorePart, TypeOK
<1> QED BY <1>1, <1>2, <1>3, <1>4, CRATCycleType

\* The frontend's output pipe and the rollback tagger keep their types.
LEMMA FrontendStep ==
    ASSUME TypeOK, NEW go, NEW push \in Deliveries, NEW rb \in Tag \cup {NoTag},
           FrontendCycle(go, push, rb)
    PROVE  /\ rollback_tagger' \in Tag \cup {NoTag}
           /\ output_pipe' \in AtMostOne(Fetched)
           /\ {redirected', stalled_exception'} \subseteq BOOLEAN
<1>1. rollback_tagger' \in Tag \cup {NoTag}
  BY DEF FrontendCycle, TaggerNext, TypeOK
<1>2. {redirected', stalled_exception'} \subseteq BOOLEAN
  BY DEF FrontendCycle, TypeOK, Flushing, Resuming, CRATTypeOK
<1>3. output_pipe' \in AtMostOne(Fetched)
  <2> DEFINE pushed == [rl |-> push[1].rl, br |-> push[1].br, rb |-> rollback_tagger]
  <2>1. push # <<>> => pushed \in Fetched
    BY DEF Deliveries, Fetched, Flag, Instruction, TypeOK
  <2>2. output_pipe \in AtMostOne(Fetched)
    BY DEF TypeOK
  <2>3. output_pipe' = <<>> \/ output_pipe' = PipeNext(output_pipe, push # <<>>, pushed, AllocFires(go))
    BY DEF FrontendCycle
  <2> QED BY <2>1, <2>2, <2>3, PipeType DEF PipeNext
<1> QED BY <1>1, <1>2, <1>3

\* The two buffers of the scheduler hold at most one well-formed instruction.
LEMMA SchedulerStep ==
    ASSUME TypeOK, NEW go, NEW p \in AnyReg, NEW rolls \in BOOLEAN,
           SchedulerCycle(go, p, rolls)
    PROVE  /\ alloc_rename_buf' \in AtMostOne(Allocated)
           /\ instr_tag_buf' \in AtMostOne(Tagged)
<1> DEFINE a == output_pipe[1]
           t == alloc_rename_buf[1]
           na == [rl |-> a.rl, br |-> a.br, rb |-> a.rb, rp |-> p, wrong |-> rolls]
           nt == [rl |-> t.rl, br |-> t.br, rp |-> t.rp, tag |-> OutTag(TagCall),
                      inc |-> TagIncrement(TagCall), cp |-> OutCheckpoint(TagCall),
                      wrong |-> t.wrong \/ rolls]
           olda == IF rolls /\ alloc_rename_buf # <<>>
                     THEN <<[t EXCEPT !.wrong = TRUE]>> ELSE alloc_rename_buf
           oldt == IF rolls /\ instr_tag_buf # <<>>
                     THEN <<[instr_tag_buf[1] EXCEPT !.wrong = TRUE]>> ELSE instr_tag_buf
<1>1. AllocFires(go) => na \in Allocated
  BY PipeContents DEF AllocFires, Fetched, Allocated, Flag
<1>2. TagFires(go) => nt \in Tagged
  <2>1. TagFires(go) => t \in Allocated
    BY PipeContents DEF TagFires
  <2>2. TagFires(go) => TagIncrement(TagCall) \in BOOLEAN /\ OutCheckpoint(TagCall) \in BOOLEAN
    BY <2>1 DEF TypeOK, CRATTypeOK, TagIncrement, OutCheckpoint, TagCall, TagResumes, TargetValid, FratReady, TagOnPath, Allocated, Flag
  <2>3. OutTag(TagCall) \in Tag
    BY DEF OutTag, TypeOK, CRATTypeOK
  <2> QED BY <2>1, <2>2, <2>3 DEF Allocated, Tagged, Flag
<1>3. olda \in AtMostOne(Allocated)
  BY PipeContents, PipeType DEF TypeOK, Allocated, Flag
<1>4. oldt \in AtMostOne(Tagged)
  BY PipeContents, PipeType DEF TypeOK, Tagged, Flag
<1>5. /\ alloc_rename_buf' = PipeNext(olda, AllocFires(go), na, TagFires(go))
      /\ instr_tag_buf' = PipeNext(oldt, TagFires(go), nt, RenameFires(go))
  BY DEF SchedulerCycle
<1> HIDE DEF olda, oldt, na, nt
<1> QED BY <1>1, <1>2, <1>3, <1>4, <1>5, PipeType DEF PipeNext

\* The ROB stays a sequence of entries and does not overflow: an instruction is
\* put only when there is room; the length is counted for CounterExact.
LEMMA RobStep ==
    ASSUME TypeOK, NEW go, NEW ex \in Executions, NEW rp \in Reports,
           RobCycle(go, ex, rp)
    PROVE  /\ rob' \in Seq(Entry)
           /\ Len(rob') = Len(rob) - Retired + (IF RenameFires(go) THEN 1 ELSE 0)
           /\ Len(rob') <= RobSize
           /\ \A i \in 1 .. Len(rob) - Retired : rob'[i] = UpdatedEntry(i + Retired, ex, rp)
           /\ RenameFires(go) => rob'[Len(rob')] = RobEntry(instr_tag_buf[1], RollbackTag(ex) # NoTag)
<1> DEFINE kept == Len(rob) - Retired
           put == IF RenameFires(go) THEN 1 ELSE 0
           n == kept + put
           e(i) == IF i <= kept THEN UpdatedEntry(i + Retired, ex, rp)
                   ELSE RobEntry(instr_tag_buf[1], RollbackTag(ex) # NoTag)
<1>1. Len(rob) \in Nat /\ DOMAIN rob = 1 .. Len(rob) /\ kept \in Nat /\ put \in Nat /\ n \in Nat
  BY RetiringInRob, LenProperties DEF TypeOK
<1>2. ASSUME NEW i \in DOMAIN rob PROVE UpdatedEntry(i, ex, rp) \in Entry
  <2>1. rob[i] \in Entry BY RobElement
  <2>2. ex # <<>> => ex[1] \in Execution BY RollbackTagType
  <2> DEFINE h == ex # <<>> /\ ex[1].at = i
             d == h /\ ex[1].ann
             u == IF h THEN ~ex[1].ann ELSE rob[i].exe
             x == h /\ ex[1].exc
             q == i \in rp
             w == RollbackTag(ex) # NoTag /\ i > ex[1].at
  <2>3. UpdatedEntry(i, ex, rp) =
          [rob[i] EXCEPT !.done = @ \/ d, !.exe = u, !.exc = @ \/ x, !.rep = @ \/ q, !.wrong = @ \/ w]
    BY DEF UpdatedEntry
  <2>4. {d, u, x, q, w} \subseteq BOOLEAN
    <3>1. h \in BOOLEAN /\ d \in BOOLEAN /\ x \in BOOLEAN OBVIOUS
    <3>2. q \in BOOLEAN /\ w \in BOOLEAN OBVIOUS
    <3>3. rob[i].exe \in BOOLEAN BY <2>1 DEF Entry, Flag
    <3>4. u \in BOOLEAN BY <3>3, Zenon
    <3> QED BY <3>1, <3>2, <3>4
  <2> HIDE DEF h, d, u, x, q, w
  <2> QED BY <2>1, <2>3, <2>4 DEF Entry, Flag
<1>3. RenameFires(go) => RobEntry(instr_tag_buf[1], RollbackTag(ex) # NoTag) \in Entry
  BY PipeContents DEF RenameFires, RobEntry, Entry, Tagged, Flag
<1>4. \A i \in 1 .. n : e(i) \in Entry
  <2> TAKE i \in 1 .. n
  <2>1. CASE i <= kept
    <3>1. i + Retired \in DOMAIN rob BY <1>1, <2>1, RetiringInRob
    <3> QED BY <3>1, <2>1, <1>2
  <2>2. CASE ~(i <= kept)
    <3>1. RenameFires(go) BY <1>1, <2>2
    <3> QED BY <3>1, <2>2, <1>3
  <2> QED BY <2>1, <2>2
<1>5. rob' = [i \in 1 .. n |-> e(i)]
  BY DEF RobCycle
<1>6. rob' \in Seq(Entry) /\ Len(rob') = n
  <2> HIDE DEF n, e
  <2> QED BY <1>1, <1>4, <1>5
<1>7. n <= RobSize
  BY <1>1, RetiringInRob DEF TypeOK, RenameFires
<1>8. \A i \in 1 .. kept : rob'[i] = UpdatedEntry(i + Retired, ex, rp)
  BY <1>1, <1>5
<1>9. RenameFires(go) => rob'[Len(rob')] = RobEntry(instr_tag_buf[1], RollbackTag(ex) # NoTag)
  BY <1>1, <1>5, <1>6
<1> QED BY <1>6, <1>7, <1>8, <1>9

\* The RRAT, the state machine and the last retired tag keep their types.
LEMMA RetirementStep ==
    ASSUME TypeOK, NEW C, C \subseteq Retiring,
           RetireNormal(C) \/ RetireFlush \/ RetireResume \/ RetireNothing
    PROVE  /\ rrat' \in RAT
           /\ last_retired_tag' \in Tag
           /\ fsm' \in {"NORMAL", "TRAP_FLUSH", "TRAP_RESUME"}
<1>1. Committed(C) \in RAT /\ Committed({}) \in RAT
  BY CommitTypes
<1>2. rrat \in RAT /\ last_retired_tag \in Tag /\ NextTag(last_retired_tag) \in Tag
      /\ fsm \in {"NORMAL", "TRAP_FLUSH", "TRAP_RESUME"}
  BY Successors DEF TypeOK
<1> QED BY <1>1, <1>2 DEF RetireNormal, RetireFlush, RetireResume, RetireNothing, RetireEntries, TrapState

\* The lengths of the two buffers follow the instructions that pass them.
LEMMA BufferLengths ==
    ASSUME TypeOK, NEW go, NEW p, NEW rolls, SchedulerCycle(go, p, rolls)
    PROVE  /\ Len(alloc_rename_buf') = Len(alloc_rename_buf)
                 + (IF AllocFires(go) THEN 1 ELSE 0) - (IF TagFires(go) THEN 1 ELSE 0)
           /\ Len(instr_tag_buf') = Len(instr_tag_buf)
                 + (IF TagFires(go) THEN 1 ELSE 0) - (IF RenameFires(go) THEN 1 ELSE 0)
<1>1. /\ Len(alloc_rename_buf) = IF alloc_rename_buf = <<>> THEN 0 ELSE 1
      /\ Len(instr_tag_buf) = IF instr_tag_buf = <<>> THEN 0 ELSE 1
  BY PipeElement DEF TypeOK
<1>2. TagFires(go) => alloc_rename_buf # <<>> /\ (instr_tag_buf = <<>> \/ RenameFires(go))
  BY DEF TagFires
<1>3. RenameFires(go) => instr_tag_buf # <<>>
  BY DEF RenameFires
<1>4. AllocFires(go) => alloc_rename_buf = <<>> \/ TagFires(go)
  BY DEF AllocFires
<1>5. Len(alloc_rename_buf') = IF AllocFires(go) THEN 1 ELSE IF TagFires(go) THEN 0 ELSE Len(alloc_rename_buf)
  BY <1>1 DEF SchedulerCycle, PipeNext
<1>6. Len(instr_tag_buf') = IF TagFires(go) THEN 1 ELSE IF RenameFires(go) THEN 0 ELSE Len(instr_tag_buf)
  BY <1>1 DEF SchedulerCycle, PipeNext
<1> DEFINE la == Len(alloc_rename_buf)
           lt == Len(instr_tag_buf)
           la2 == Len(alloc_rename_buf')
           lt2 == Len(instr_tag_buf')
           ea == alloc_rename_buf = <<>>
           et == instr_tag_buf = <<>>
<1>7. la = (IF ea THEN 0 ELSE 1) /\ lt = IF et THEN 0 ELSE 1
  BY <1>1
<1>8. /\ la2 = IF AllocFires(go) THEN 1 ELSE IF TagFires(go) THEN 0 ELSE la
      /\ lt2 = IF TagFires(go) THEN 1 ELSE IF RenameFires(go) THEN 0 ELSE lt
  BY <1>5, <1>6
<1>9. (TagFires(go) => ~ea /\ (et \/ RenameFires(go))) /\ (RenameFires(go) => ~et)
      /\ (AllocFires(go) => ea \/ TagFires(go))
  BY <1>2, <1>3, <1>4
<1>10. /\ la2 = la + (IF AllocFires(go) THEN 1 ELSE 0) - (IF TagFires(go) THEN 1 ELSE 0)
       /\ lt2 = lt + (IF TagFires(go) THEN 1 ELSE 0) - (IF RenameFires(go) THEN 1 ELSE 0)
  <2> HIDE DEF la, lt, la2, lt2, ea, et
  <2> QED BY <1>7, <1>8, <1>9
<1> QED BY <1>10

(***************************************************************************)
(* The types are inductive together with the exactness of the instruction  *)
(* counter, which keeps the counter from going below zero.                 *)
(***************************************************************************)
TypeInv == TypeOK /\ CounterExact

\* The inductive step for one cycle with given choices of the surroundings.
LEMMA TypeInvCycle ==
    ASSUME TypeInv,
           NEW push \in Deliveries, NEW go \in BOOLEAN, NEW ex \in Executions,
           NEW rp \in Reports, NEW async \in BOOLEAN,
           Cycle(push, go, ex, rp, async)
    PROVE  TypeInv'
<1>1. TypeOK /\ CounterExact
  BY DEF TypeInv
<1>2. CommitSet(async) \subseteq Retiring
  BY CommittingRetires DEF CommitSet
<1>3. RollbackTag(ex) \in Tag \cup {NoTag}
  BY <1>1, RollbackTagType
<1>4. CRATTypeOK'
  <2>1. CRATCycle(TagPart(go), RenamePart(go), RollbackTag(ex), RetireReady /\ FreesTag, RestorePart)
    BY DEF Cycle, TagPart, RenamePart, RestorePart
  <2> QED BY <1>1, <2>1, CRATStep
<1>5. /\ rollback_tagger' \in Tag \cup {NoTag}
      /\ output_pipe' \in AtMostOne(Fetched)
      /\ {redirected', stalled_exception'} \subseteq BOOLEAN
  <2>1. FrontendCycle(go, push, RollbackTag(ex))
    BY DEF Cycle
  <2> QED BY <1>1, <1>3, <2>1, FrontendStep
<1>6. /\ rrat' \in RAT
      /\ last_retired_tag' \in Tag
      /\ fsm' \in {"NORMAL", "TRAP_FLUSH", "TRAP_RESUME"}
  <2>1. RetireNormal(CommitSet(async)) \/ RetireFlush \/ RetireResume \/ RetireNothing
    BY DEF Cycle, CommitSet
  <2> QED BY <1>1, <1>2, <2>1, RetirementStep
<1>7. /\ rob' \in Seq(Entry)
      /\ Len(rob') = Len(rob) - Retired + (IF RenameFires(go) THEN 1 ELSE 0)
      /\ Len(rob') <= RobSize
  <2>1. RobCycle(go, ex, rp)
    BY DEF Cycle
  <2> QED BY <1>1, <2>1, RobStep
<1>8. PICK p \in IF AllocFires(go) /\ output_pipe[1].rl # 0 THEN free_regs ELSE {ZeroReg} :
          /\ free_regs' = (free_regs \ {p}) \cup (IF RetireReady THEN Released(CommitSet(async)) ELSE {})
          /\ SchedulerCycle(go, p, RollbackTag(ex) # NoTag)
  BY DEF Cycle, RegistersCycle, CommitSet
<1>9. p \in AnyReg
  BY <1>1, <1>8 DEF TypeOK, AnyReg
<1>10. /\ alloc_rename_buf' \in AtMostOne(Allocated)
       /\ instr_tag_buf' \in AtMostOne(Tagged)
  BY <1>1, <1>8, <1>9, SchedulerStep
<1>11. free_regs' \subseteq PRegs
  BY <1>1, <1>2, <1>8, CommitTypes DEF TypeOK
<1>12. exception_valid' \in BOOLEAN
  BY <1>1 DEF Cycle, ExceptionCycle, TypeOK
<1>13. core_counter' = core_counter + (IF AllocFires(go) THEN 1 ELSE 0) - Retired
  BY DEF Cycle
<1>14. core_counter' = Len(alloc_rename_buf') + Len(instr_tag_buf') + Len(rob')
  <2>1. Len(alloc_rename_buf) \in Nat /\ Len(instr_tag_buf) \in Nat /\ Len(rob) \in Nat /\ Retired \in Nat
    BY <1>1, RetiringInRob DEF TypeOK, AtMostOne
  <2>2. /\ Len(alloc_rename_buf') = Len(alloc_rename_buf)
              + (IF AllocFires(go) THEN 1 ELSE 0) - (IF TagFires(go) THEN 1 ELSE 0)
        /\ Len(instr_tag_buf') = Len(instr_tag_buf)
              + (IF TagFires(go) THEN 1 ELSE 0) - (IF RenameFires(go) THEN 1 ELSE 0)
    BY <1>1, <1>8, BufferLengths
  <2> DEFINE la == Len(alloc_rename_buf)
             lt == Len(instr_tag_buf)
             lr == Len(rob)
             fa == IF AllocFires(go) THEN 1 ELSE 0
             ft == IF TagFires(go) THEN 1 ELSE 0
             fr == IF RenameFires(go) THEN 1 ELSE 0
  <2>3. core_counter = la + lt + lr
    BY <1>1 DEF CounterExact
  <2>4. {fa, ft, fr} \subseteq Nat /\ {la, lt, lr} \subseteq Nat
    BY <2>1
  <2>5. core_counter' = la + lt + lr + fa - Retired
    BY <1>13, <2>3
  <2>6. Len(alloc_rename_buf') = la + fa - ft /\ Len(instr_tag_buf') = lt + ft - fr
        /\ Len(rob') = lr - Retired + fr
    BY <2>2, <1>7
  <2>7. la + lt + lr + fa - Retired = (la + fa - ft) + (lt + ft - fr) + (lr - Retired + fr)
    <3> HIDE DEF la, lt, lr, fa, ft, fr
    <3> QED BY <2>1, <2>4
  <2> HIDE DEF la, lt, lr, fa, ft, fr
  <2> QED BY <2>5, <2>6, <2>7, Zenon
<1>15. core_counter' \in Nat
  BY <1>7, <1>10, <1>14 DEF AtMostOne
<1> QED BY <1>4, <1>5, <1>6, <1>7, <1>10, <1>11, <1>12, <1>14, <1>15 DEF TypeInv, TypeOK, CounterExact

\* The reset values have their types.
LEMMA TypeInvInit == Init => TypeInv
<1> SUFFICES ASSUME Init PROVE TypeInv
  OBVIOUS
<1>1. CRATTypeOK
  <2>1. 0 \in Tag /\ 1 \in Tag /\ 0 \in Checkpoint
    BY TagsAssumption, CheckpointsAssumption DEF Tag, Checkpoint
  <2>2. ZeroRAT \in RAT
    BY DEF ZeroRAT, RAT, AnyReg
  <2> QED BY <2>1, <2>2, PipeType DEF Init, CRATInit, CRATTypeOK
<1>2. TypeOK
  <2>1. 0 \in Tag
    BY TagsAssumption DEF Tag
  <2>2. ZeroRAT \in RAT
    BY DEF ZeroRAT, RAT, AnyReg
  <2>3. rob \in Seq(Entry) /\ Len(rob) <= RobSize
    BY EmptySeq DEF Init
  <2> QED BY <1>1, <2>1, <2>2, <2>3, PipeType DEF Init, TypeOK
<1>3. CounterExact
  BY EmptySeq DEF Init, CounterExact
<1> QED BY <1>2, <1>3 DEF TypeInv

\* The choices of Next are in the ranges the step lemmas ask for.
LEMMA NextIsCycle ==
    ASSUME Next
    PROVE  \E push \in Deliveries, go \in BOOLEAN, ex \in Executions, rp \in Reports, async \in BOOLEAN :
               Cycle(push, go, ex, rp, async)
<1>1. Accepts \subseteq BOOLEAN
  BY DEF Accepts
<1>2. Interrupts \subseteq BOOLEAN
  BY DEF Interrupts
<1> QED BY <1>1, <1>2 DEF Next, CycleWith

\* The type invariant, with the exact instruction counter, is inductive.
LEMMA TypeInvNext == TypeInv /\ [Next]_vars => TypeInv'
<1> SUFFICES ASSUME TypeInv, [Next]_vars PROVE TypeInv'
  OBVIOUS
<1>1. CASE Next
  BY <1>1, NextIsCycle, TypeInvCycle
<1>2. CASE UNCHANGED vars
  BY <1>2 DEF vars, cratVars, tagVars, checkpointVars, rollbackVars, frontVars, schedVars,
              backVars, TypeInv, TypeOK, CRATTypeOK, CounterExact
<1> QED BY <1>1, <1>2

\* The registers and buffers of the speculative core keep their types and
\* bounds, and the ROB never overflows, for all sizes.
THEOREM TypeCorrect == Spec => []TypeOK
<1>1. TypeInv => TypeOK
  BY DEF TypeInv
<1> QED BY <1>1, TypeInvInit, TypeInvNext, PTL DEF Spec

=============================================================================
