---------------------------- MODULE CheckpointRAT ----------------------------
(***************************************************************************)
(* The Checkpoint Register Alias Table (coreblocks/core_structs/crat.py).  *)
(*                                                                         *)
(* The CRAT renames logical to physical registers, hands out speculation   *)
(* tags, saves the table after every branch (a checkpoint) and restores it *)
(* when a branch turns out to be mispredicted (a rollback).                *)
(*                                                                         *)
(* The module has one step: CRATCycle, one cycle of the clock.  Its        *)
(* parameters say which of the component's methods run in that cycle and   *)
(* with which arguments; every register reads the values before the edge   *)
(* and where several methods assign one register the assignment that comes *)
(* last in the source wins.  The three internal transactions (the          *)
(* checkpoint write and the two stages of a rollback) run whenever they    *)
(* are ready, as the transaction scheduler makes them.                     *)
(*                                                                         *)
(* A pipe register, or the answer of a memory bank, is a sequence of at    *)
(* most one element.  A method that does not run has the argument <<>>     *)
(* (or NoTag, for the rollback).                                           *)
(***************************************************************************)
EXTENDS Naturals, Sequences

CONSTANTS
    NTags,          \* number of speculation tags, 2^tag_bits
    NCheckpoints,   \* gen_params.checkpoint_count
    LRegs,          \* logical registers; 0 is x0
    PRegs,          \* physical registers that can be allocated
    ZeroReg         \* physical register 0, never allocated

ASSUME TagsAssumption == NTags \in Nat /\ NTags > 1
\* crat.py asserts checkpoint_count > 1, genparams.py that tags outnumber it
ASSUME CheckpointsAssumption ==
    NCheckpoints \in Nat /\ NCheckpoints > 1 /\ NCheckpoints < NTags
ASSUME RegsAssumption == 0 \in LRegs /\ ZeroReg \notin PRegs

VARIABLES
    frat, storage, tag_map,
    tags_head, tags_tail, active_tags, last_issued_tag, next_tag_increment,
    checkpoints_head, checkpoints_tail, checkpoints_full, checkpointed_tags,
    create_checkpoint_pipe,
    rollback_just_started, rollback_target_tag, rollback_tag_s1,
    frat_tag_in_next_cycle, tag_map_resp, storage_resp,
    frat_lock, frat_unlock_tag, last_rollback_finished

tagVars == <<tags_head, tags_tail, active_tags, last_issued_tag, next_tag_increment>>
checkpointVars == <<checkpoints_head, checkpoints_tail, checkpoints_full,
                    checkpointed_tags, create_checkpoint_pipe, tag_map, storage>>
rollbackVars == <<rollback_just_started, rollback_target_tag, rollback_tag_s1,
                  frat_tag_in_next_cycle, tag_map_resp, storage_resp,
                  frat_lock, frat_unlock_tag, last_rollback_finished>>
cratVars == <<frat, tagVars, checkpointVars, rollbackVars>>

Tag == 0 .. NTags - 1
NoTag == NTags      \* the "non-existent tag", 1 << tag_bits
Checkpoint == 0 .. NCheckpoints - 1
AnyReg == PRegs \cup {ZeroReg}
RAT == [LRegs -> AnyReg]
ZeroRAT == [l \in LRegs |-> ZeroReg]

NextTag(t) == IF t = NTags - 1 THEN 0 ELSE t + 1
NextCheckpointUnwrapped(c) == c + 1     \* mutant: no wrap at checkpoint_count
NextCheckpoint(c) == IF c = NCheckpoints - 1 THEN 0 ELSE c + 1

(***************************************************************************)
(* How many tags after the oldest allocated one a tag was issued.          *)
(***************************************************************************)
TagAge(t) == IF t >= tags_tail THEN t - tags_tail ELSE t + NTags - tags_tail

CRATInit ==
    /\ frat = ZeroRAT
    /\ storage = [c \in Checkpoint |-> ZeroRAT]
    /\ tag_map = [t \in Tag |-> 0]
    /\ tags_head = 1
    /\ tags_tail = 0
    /\ active_tags = {0}
    /\ last_issued_tag = 0
    /\ next_tag_increment = FALSE
    /\ checkpoints_head = 0
    /\ checkpoints_tail = 0
    /\ checkpoints_full = FALSE
    /\ checkpointed_tags = {}
    /\ create_checkpoint_pipe = <<>>
    /\ rollback_just_started = FALSE
    /\ rollback_target_tag = 0
    /\ rollback_tag_s1 = 0
    /\ frat_tag_in_next_cycle = 0
    /\ tag_map_resp = <<>>
    /\ storage_resp = <<>>
    /\ frat_lock = FALSE
    /\ frat_unlock_tag = NoTag
    /\ last_rollback_finished = TRUE

-----------------------------------------------------------------------------
(***************************************************************************)
(* Method tag.  Its argument i is [rb, cp]: the rollback tag the frontend  *)
(* attached (NoTag when rollback_tag_v is low) and commit_checkpoint.      *)
(***************************************************************************)
TargetValid(i) == i.rb # NoTag /\ i.rb = rollback_target_tag
FratReady(i) == i.rb # NoTag /\ i.rb = frat_tag_in_next_cycle

\* The first instruction of the new path must wait for the restored table.
TagStall(i) == rollback_just_started /\ TargetValid(i) /\ ~FratReady(i)

\* The first instruction of the new path: tagging returns to normal.
TagResumes(i) == rollback_just_started /\ TargetValid(i) /\ FratReady(i)

TagIncrement(i) == TagResumes(i) \/ next_tag_increment
TagOnPath(i) == ~rollback_just_started \/ TagResumes(i)
TagReadyWhenFull(i) == ~TagStall(i)     \* mutant: tags_head may pass tags_tail
TagReady(i) == ~TagStall(i) /\ (TagIncrement(i) => tags_head # tags_tail)
OutTag(i) == IF TagIncrement(i) THEN tags_head ELSE last_issued_tag
OutCheckpoint(i) == i.cp /\ TagOnPath(i)

(***************************************************************************)
(* Methods commit_checkpoint and rename of one instruction r,              *)
(* [tag, cp, rl, rp].  They run together.                                  *)
(***************************************************************************)
TagValid(t) == ~frat_lock \/ t = frat_unlock_tag
CommitsCheckpoint(r) == r.cp /\ TagValid(r.tag)
RenameReadyWhenFull(r) == TRUE          \* mutant: checkpoints_full is ignored
RenameReady(r) == CommitsCheckpoint(r) => ~checkpoints_full
Renamed(rat, r) ==
    IF TagValid(r.tag) /\ r.rl # 0 THEN [rat EXCEPT ![r.rl] = r.rp] ELSE rat

(***************************************************************************)
(* Method rollback: the tags issued after t, allocated or not, go inactive.*)
(***************************************************************************)
\* mutant: the branch loses its own tag
InvalidatedWithTarget(t) == IF t = NoTag THEN {} ELSE {u \in Tag : TagAge(u) >= TagAge(t)}
Invalidated(t) == IF t = NoTag THEN {} ELSE {u \in Tag : TagAge(u) > TagAge(t)}

(***************************************************************************)
(* Method free_tag: a checkpoint of the freed tag is freed with it, unless *)
(* the rollback that is in its second stage just took it back.             *)
(***************************************************************************)
TakenBack == IF tag_map_resp = <<>> THEN {} ELSE {rollback_target_tag}
FreesCheckpoint == tags_tail \in (checkpointed_tags \ TakenBack) \cap active_tags

\* Method flush_restore waits for the last rollback to restore its table.
RestoreReadyAlways == TRUE      \* mutant: a restore may still be under way
RestoreReady == last_rollback_finished

-----------------------------------------------------------------------------
(***************************************************************************)
(* The two memories keep what a rollback may still read; a word whose tag  *)
(* or checkpoint was given back is forgotten (0), so that a read of it     *)
(* would not find the old contents by chance.                              *)
(***************************************************************************)
KeepMap(m) ==
    [t \in Tag |-> IF t \in checkpointed_tags' \cap active_tags' THEN m[t] ELSE 0]
KeepStorage(s) ==
    [c \in Checkpoint |->
        IF \E t \in checkpointed_tags' \cap active_tags' : tag_map'[t] = c
        THEN s[c] ELSE ZeroRAT]

(***************************************************************************)
(* The registers of a cycle, component by component.                       *)
(***************************************************************************)
TagsCycle(tg, rb, fr) ==
    LET allocates == tg # <<>> /\ TagIncrement(tg[1])
        set == IF allocates /\ TagOnPath(tg[1]) THEN {tags_head} ELSE {}
        freed == IF fr THEN {tags_tail} ELSE {}
    IN /\ tags_head' = IF allocates THEN NextTag(tags_head) ELSE tags_head
       /\ tags_tail' = IF fr THEN NextTag(tags_tail) ELSE tags_tail
       /\ active_tags' = (active_tags \cup set) \ (Invalidated(rb) \cup freed)
       /\ last_issued_tag' = IF tg = <<>> THEN last_issued_tag ELSE OutTag(tg[1])
       /\ next_tag_increment' =
            IF tg = <<>> THEN next_tag_increment ELSE OutCheckpoint(tg[1])

CheckpointsCycle(rn, fr) ==
    LET creates == rn # <<>> /\ CommitsCheckpoint(rn[1])
        nextHead == NextCheckpoint(checkpoints_head)
        freed == IF fr THEN {tags_tail} ELSE {}
    IN /\ checkpoints_tail' = IF fr /\ FreesCheckpoint
                              THEN NextCheckpoint(checkpoints_tail) ELSE checkpoints_tail
       /\ checkpoints_head' = IF tag_map_resp # <<>> THEN tag_map_resp[1]
                              ELSE IF creates THEN nextHead ELSE checkpoints_head
       /\ checkpoints_full' = /\ tag_map_resp = <<>>
                              /\ IF creates THEN checkpoints_tail' = nextHead
                                 ELSE checkpoints_full /\ ~(fr /\ FreesCheckpoint)
       /\ checkpointed_tags' =
            (checkpointed_tags \cup (IF creates THEN {rn[1].tag} ELSE {}))
               \ (TakenBack \cup freed)
       /\ create_checkpoint_pipe' = IF creates THEN <<checkpoints_head>> ELSE <<>>
       /\ tag_map' = KeepMap(IF creates
                             THEN [tag_map EXCEPT ![rn[1].tag] = checkpoints_head]
                             ELSE tag_map)
       /\ storage' = KeepStorage(IF create_checkpoint_pipe = <<>> THEN storage
                                 ELSE [storage EXCEPT ![create_checkpoint_pipe[1]] = frat])

RollbackCycle(tg, rn, rb) ==
    LET resumes == tg # <<>> /\ TagResumes(tg[1])
    IN /\ rollback_just_started' = (rb # NoTag \/ (rollback_just_started /\ ~resumes))
       /\ rollback_target_tag' = IF rb # NoTag THEN rb ELSE rollback_target_tag
       /\ rollback_tag_s1' = IF rb # NoTag THEN rb ELSE rollback_tag_s1
       /\ frat_tag_in_next_cycle' =
            IF tag_map_resp # <<>> THEN rollback_tag_s1 ELSE frat_tag_in_next_cycle
       /\ tag_map_resp' = IF rb # NoTag THEN <<tag_map[rb]>> ELSE <<>>
       /\ storage_resp' = IF tag_map_resp # <<>> THEN <<storage[tag_map_resp[1]]>> ELSE <<>>
       /\ frat_lock' = (rb # NoTag \/ (frat_lock /\ ~(rn # <<>> /\ TagValid(rn[1].tag))))
       /\ frat_unlock_tag' = IF rb # NoTag THEN NoTag
                             ELSE IF resumes THEN OutTag(tg[1])
                             ELSE IF frat_lock' THEN frat_unlock_tag ELSE NoTag
       /\ last_rollback_finished' =
            /\ rb = NoTag
            /\ IF storage_resp # <<>> THEN rollback_target_tag = frat_tag_in_next_cycle
               ELSE last_rollback_finished

\* flush_restore, the renames and the restore of a rollback, in source order
FratCycle(rn, rs) ==
    LET base == IF rs # <<>> THEN rs[1] ELSE frat
    IN frat' = IF storage_resp # <<>> THEN storage_resp[1]
               ELSE IF rn # <<>> THEN Renamed(base, rn[1]) ELSE base

(***************************************************************************)
(* One cycle: tg is the call of tag, rn of commit_checkpoint and rename,   *)
(* rb the tag rolled back to, fr whether free_tag runs and rs the table    *)
(* flush_restore writes.                                                   *)
(***************************************************************************)
CRATCycle(tg, rn, rb, fr, rs) ==
    /\ tg # <<>> => TagReady(tg[1])
    /\ rn # <<>> => RenameReady(rn[1])
    /\ rs # <<>> => RestoreReady
    /\ TagsCycle(tg, rb, fr)
    /\ CheckpointsCycle(rn, fr)
    /\ RollbackCycle(tg, rn, rb)
    /\ FratCycle(rn, rs)

-----------------------------------------------------------------------------
(***************************************************************************)
(* Types: every register stays within the width the code declares for it   *)
(* (frat_unlock_tag is one bit wider than a tag).                          *)
(***************************************************************************)
AtMostOne(S) == {q \in Seq(S) : Len(q) <= 1}

CRATTypeOK ==
    /\ frat \in RAT
    /\ storage \in [Checkpoint -> RAT]
    /\ tag_map \in [Tag -> Checkpoint]
    /\ {tags_head, tags_tail, last_issued_tag} \subseteq Tag
    /\ {rollback_target_tag, rollback_tag_s1, frat_tag_in_next_cycle} \subseteq Tag
    /\ {active_tags, checkpointed_tags} \subseteq SUBSET Tag
    /\ {checkpoints_head, checkpoints_tail} \subseteq Checkpoint
    /\ {next_tag_increment, checkpoints_full, rollback_just_started,
        frat_lock, last_rollback_finished} \subseteq BOOLEAN
    /\ create_checkpoint_pipe \in AtMostOne(Checkpoint)
    /\ tag_map_resp \in AtMostOne(Checkpoint)
    /\ storage_resp \in AtMostOne(RAT)
    /\ frat_unlock_tag \in Tag \cup {NoTag}
=============================================================================
