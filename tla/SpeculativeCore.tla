--------------------------- MODULE SpeculativeCore ---------------------------
(***************************************************************************)
(* The speculative part of the core around the Checkpoint RAT: from the    *)
(* frontend's output through register allocation, tagging and renaming     *)
(* into the reorder buffer, out-of-order completion with branch rollbacks  *)
(* and exceptions, and in-order retirement with the trap state machine.    *)
(*                                                                         *)
(* One step is one clock cycle with scalar frontend (groups of one         *)
(* instruction) and a retirement RetireWidth instructions wide.  What the  *)
(* core's surroundings decide is chosen by \E in Next: whether the         *)
(* frontend delivers an instruction, whether the back half of the          *)
(* scheduler accepts one, which instruction completes and how, when an     *)
(* exception report reaches the Exception Information Register.  The       *)
(* transactions of this part run whenever they are ready.                  *)
(*                                                                         *)
(* An instruction is the logical register it writes (0: none) and whether  *)
(* it is a branch that asks for a checkpoint.  The field "wrong" of an     *)
(* instruction is not in the code: it records that an older branch rolled  *)
(* back after the instruction was fetched.                                 *)
(***************************************************************************)
EXTENDS CheckpointRAT, FiniteSetsExt

CONSTANTS
    RobSize,        \* entries of the reorder buffer, 2^rob_entries_bits
    RetireWidth,    \* gen_params.retirement_superscalarity
    Kinds,          \* the instructions the frontend delivers
    ResultFifo,     \* may results wait between the unit and the announcement?
    Backpressure,   \* may the back half of the scheduler refuse an instruction?
    Exceptions,     \* may instructions complete with an exception?
    MarkerRace      \* may a stall flush drop the first instruction after a rollback?

Instruction == [rl : LRegs, br : BOOLEAN]

ASSUME SizesAssumption == RobSize \in Nat \ {0} /\ RetireWidth \in Nat \ {0}
ASSUME EnvironmentAssumption ==
    /\ Kinds \subseteq Instruction
    /\ {ResultFifo, Backpressure, Exceptions, MarkerRace} \subseteq BOOLEAN

VARIABLES
    rollback_tagger,    \* frontend.py RollbackTagger: pending tag, or NoTag
    output_pipe,        \* CoreFrontend.output_pipe
    redirected,         \* the frontend was redirected in the previous cycle
    stalled_exception,  \* StallController
    alloc_rename_buf,   \* Scheduler: RegAllocation -> InstructionTagger
    instr_tag_buf,      \* Scheduler: InstructionTagger -> Renaming
    free_regs,          \* the register file's free list
    core_counter,       \* CoreInstructionCounter
    rob,                \* ReorderBuffer, oldest entry first
    rrat,               \* RRAT
    exception_valid,    \* ExceptionInformationRegister.valid
    fsm,                \* Retirement: state of the state machine
    last_retired_tag    \* Retirement

frontVars == <<rollback_tagger, output_pipe, redirected, stalled_exception>>
schedVars == <<alloc_rename_buf, instr_tag_buf, free_regs, core_counter>>
backVars == <<rob, rrat, exception_valid, fsm, last_retired_tag>>
vars == <<cratVars, frontVars, schedVars, backVars>>

\* The registers after reset, each where its class declares it (RollbackTagger, Pipe,
\* StallController, rf_allocator with every register but p0, CoreInstructionCounter,
\* ReorderBuffer, RRAT, ExceptionInformationRegister); Retirement starts in NORMAL with
\* last_retired_tag 0, the tag that CheckpointRAT has allocated at reset.
Init ==
    /\ CRATInit
    /\ rollback_tagger = NoTag
    /\ output_pipe = <<>>
    /\ redirected = FALSE
    /\ stalled_exception = FALSE
    /\ alloc_rename_buf = <<>>
    /\ instr_tag_buf = <<>>
    /\ free_regs = PRegs
    /\ core_counter = 0
    /\ rob = <<>>
    /\ rrat = ZeroRAT
    /\ exception_valid = FALSE
    /\ fsm = "NORMAL"
    /\ last_retired_tag = 0

Flushing == fsm = "TRAP_FLUSH"
ActiveTags == IF Flushing THEN {} ELSE active_tags     \* get_active_tags

-----------------------------------------------------------------------------
(***************************************************************************)
(* Retirement.  The entries that leave this cycle are the longest done     *)
(* prefix with at most one tag increment; the tag of an entry is counted   *)
(* from the last retired one.                                              *)
(***************************************************************************)
Retirable(n) ==
    /\ n <= Len(rob)
    /\ \A i \in 1 .. n : rob[i].done /\ (rob[i].inc => \A j \in 1 .. i - 1 : ~rob[j].inc)
RetireCount == Max({n \in 0 .. RetireWidth : Retirable(n)})
Retiring == 1 .. RetireCount
FreesTag == \E i \in Retiring : rob[i].inc
\* mutant: an entry's own increment is not counted
RetireTagLate(i) == IF \E j \in 1 .. i - 1 : rob[j].inc
                    THEN NextTag(last_retired_tag) ELSE last_retired_tag
RetireTag(i) == IF \E j \in 1 .. i : rob[j].inc
                THEN NextTag(last_retired_tag) ELSE last_retired_tag

\* Entries that leave on a valid path, and those of them that trap
TagActive(i) == RetireTag(i) \in ActiveTags
Trapping == {i \in Retiring : rob[i].exc /\ TagActive(i)}

\* The trap is taken only once its report is in the EIR
RetireValid == LET traps == Trapping IN traps # {} => rob[Min(traps)].rep

\* The entries committed: the instruction an asynchronous interrupt was
\* reported by is the last one committed, a faulting one is not committed.
CommittingPastTrap(async) == {i \in Retiring : TagActive(i)}   \* mutant: the whole group
Committing(async) ==
    LET traps == Trapping
    IN {i \in Retiring : TagActive(i) /\ \A x \in traps : i < x \/ (async /\ i = Min(traps))}

\* The mapping the commit of entry i overwrites, in the RRAT or in its group
OldRegOutsideGroup(C, i) == rrat[rob[i].rl]     \* mutant: the group is ignored
OldReg(C, i) ==
    LET before == {j \in C : j < i /\ rob[j].rl = rob[i].rl}
    IN IF before # {} THEN rob[Max(before)].rp ELSE rrat[rob[i].rl]
Committed(C) ==
    [l \in LRegs |-> LET W == {i \in C : rob[i].rl = l}
                     IN IF W # {} THEN rob[Max(W)].rp ELSE rrat[l]]
ReleasedNew(C) == {rob[i].rp : i \in Retiring} \ {ZeroReg}   \* mutant: rp_dst for old_rp_dst
Released(C) ==
    ({rob[i].rp : i \in Retiring \ C} \cup {OldReg(C, i) : i \in C}) \ {ZeroReg}

RetireReady == RetireCount > 0 /\ (Flushing \/ (fsm = "NORMAL" /\ RetireValid))
Retired == IF RetireReady THEN RetireCount ELSE 0
Resuming == fsm = "TRAP_RESUME" /\ RestoreReady

RetireEntries(C) ==
    /\ rrat' = Committed(C)
    /\ last_retired_tag' = IF FreesTag THEN NextTag(last_retired_tag) ELSE last_retired_tag

\* core_empty looks at the counter after this cycle's increment and decrement
TrapStateStale == IF core_counter = 0 THEN "TRAP_RESUME" ELSE "TRAP_FLUSH"
TrapStateDecrementOnly == IF core_counter = Retired THEN "TRAP_RESUME" ELSE "TRAP_FLUSH"
TrapState == IF core_counter' = 0 THEN "TRAP_RESUME" ELSE "TRAP_FLUSH"

RetireNormal(C) ==
    /\ fsm = "NORMAL" /\ RetireReady
    /\ RetireEntries(C)
    /\ fsm' = IF Trapping = {} THEN "NORMAL" ELSE TrapState
RetireFlush ==
    /\ fsm = "TRAP_FLUSH" /\ RetireReady
    /\ RetireEntries({})
    /\ fsm' = TrapState
RetireResume ==
    /\ Resuming
    /\ fsm' = "NORMAL"
    /\ UNCHANGED <<rrat, last_retired_tag>>
RetireNothing ==
    /\ ~RetireReady /\ ~Resuming
    /\ UNCHANGED <<rrat, fsm, last_retired_tag>>

-----------------------------------------------------------------------------
(***************************************************************************)
(* Completion.  An execution e is [at, exc, mis, ann]: the entry, whether  *)
(* it has an exception, whether it is a branch that mispredicted and is on *)
(* a valid path, which rolls the core back to its tag, and whether its     *)
(* result is announced to the ROB.  The result of an instruction that has  *)
(* an exception or rolls back may wait in the unit's result FIFO (exe) and *)
(* be announced later; of others only the announcement is visible.         *)
(***************************************************************************)
Execution == [at : DOMAIN rob, exc : BOOLEAN, mis : BOOLEAN, ann : BOOLEAN]
CanExecute(e) ==
    /\ ~rob[e.at].done
    /\ ~e.ann => ResultFifo /\ (e.exc \/ e.mis)
    /\ e.exc \/ e.mis => ~rob[e.at].exe
    /\ e.exc => Exceptions
    /\ e.mis => rob[e.at].br /\ ~e.exc /\ rob[e.at].tag \in ActiveTags
RollbackTag(ex) == IF ex # <<>> /\ ex[1].mis THEN rob[ex[1].at].tag ELSE NoTag

\* ROB.mark_done, the EIR report of entry r, and the rollback's verdict on
\* the younger entries
UpdatedEntry(i, ex, rp) ==
    LET hit == ex # <<>> /\ ex[1].at = i
    IN [rob[i] EXCEPT !.done = @ \/ (hit /\ ex[1].ann),
                      !.exe = IF hit THEN ~ex[1].ann ELSE @,
                      !.exc = @ \/ (hit /\ ex[1].exc),
                      !.rep = @ \/ i \in rp,
                      !.wrong = @ \/ (RollbackTag(ex) # NoTag /\ i > ex[1].at)]

\* Reports that may reach the EIR this cycle: ignored on inactive tags
CanReport == {i \in DOMAIN rob : rob[i].exc /\ ~rob[i].rep /\ rob[i].tag \in ActiveTags}

-----------------------------------------------------------------------------
(***************************************************************************)
(* Scheduler: RegAllocation -> InstructionTagger -> Renaming, with the ROB *)
(* allocated in the cycle of the renaming.  go: the RS selection accepts.  *)
(***************************************************************************)
TagCall == [rb |-> alloc_rename_buf[1].rb, cp |-> alloc_rename_buf[1].br]
RenameFires(go) ==
    /\ go
    /\ instr_tag_buf # <<>>
    /\ Len(rob) < RobSize
    /\ RenameReady(instr_tag_buf[1])
TagFires(go) ==
    /\ alloc_rename_buf # <<>>
    /\ instr_tag_buf = <<>> \/ RenameFires(go)
    /\ TagReady(TagCall)
AllocFires(go) ==
    /\ output_pipe # <<>>
    /\ alloc_rename_buf = <<>> \/ TagFires(go)
    /\ output_pipe[1].rl # 0 => free_regs # {}
    /\ core_counter < 2 * RobSize - 1

RobEntry(r, rolls) ==
    [rl |-> r.rl, rp |-> r.rp, tag |-> r.tag, inc |-> r.inc, br |-> r.br,
     wrong |-> r.wrong \/ rolls, exe |-> FALSE, done |-> FALSE,
     exc |-> FALSE, rep |-> FALSE]

\* A pipe register written with w when wr holds, and read when rd holds
PipeNext(pipe, wr, w, rd) == IF wr THEN <<w>> ELSE IF rd THEN <<>> ELSE pipe

SchedulerCycle(go, p, rolls) ==
    LET a == output_pipe[1]
        t == alloc_rename_buf[1]
    IN /\ alloc_rename_buf' =
            PipeNext(IF rolls /\ alloc_rename_buf # <<>>
                     THEN <<[t EXCEPT !.wrong = TRUE]>> ELSE alloc_rename_buf,
                     AllocFires(go),
                     [rl |-> a.rl, br |-> a.br, rb |-> a.rb, rp |-> p, wrong |-> rolls],
                     TagFires(go))
       /\ instr_tag_buf' =
            PipeNext(IF rolls /\ instr_tag_buf # <<>>
                     THEN <<[instr_tag_buf[1] EXCEPT !.wrong = TRUE]>> ELSE instr_tag_buf,
                     TagFires(go),
                     [rl |-> t.rl, br |-> t.br, rp |-> t.rp, tag |-> OutTag(TagCall),
                      inc |-> TagIncrement(TagCall), cp |-> OutCheckpoint(TagCall),
                      wrong |-> t.wrong \/ rolls],
                     RenameFires(go))

-----------------------------------------------------------------------------
(***************************************************************************)
(* Frontend.  A redirect (rollback or trap resume) and the flush of the    *)
(* stall controller clear output_pipe, also of what is written to it in    *)
(* the same cycle.                                                         *)
(***************************************************************************)
StallFlush == (exception_valid \/ Flushing) /\ ~stalled_exception

CanPush(go) == /\ output_pipe = <<>> \/ AllocFires(go)
               /\ ~stalled_exception /\ ~redirected

\* RollbackTagger: the tag waits for the first instruction after the redirect
TaggerNextPushFirst(push, rb) ==     \* mutant: the old path's push clears the new tag
    IF push # <<>> THEN NoTag ELSE IF rb # NoTag THEN rb ELSE rollback_tagger
TaggerNext(push, rb) ==
    IF rb # NoTag THEN rb ELSE IF push # <<>> THEN NoTag ELSE rollback_tagger

FrontendCycle(go, push, rb) ==
    LET redirect == rb # NoTag \/ Resuming
        pushed == [rl |-> push[1].rl, br |-> push[1].br, rb |-> rollback_tagger]
    IN /\ output_pipe' = IF redirect \/ StallFlush THEN <<>>
                         ELSE PipeNext(output_pipe, push # <<>>, pushed, AllocFires(go))
       /\ rollback_tagger' = TaggerNext(push, rb)
       /\ redirected' = redirect
       /\ stalled_exception' = (exception_valid \/ Flushing)

\* The stall flush will drop the first instruction of a new path, and the
\* rollback tag with it: the instruction is written to output_pipe in the
\* cycle of the flush, or is there when the exception is reported.
MarkerAtRisk(push, rp) ==
    \/ StallFlush /\ push # <<>> /\ rollback_tagger # NoTag
    \/ rp # {} /\ output_pipe' # <<>> /\ output_pipe'[1].rb # NoTag

-----------------------------------------------------------------------------
(***************************************************************************)
(* One clock cycle.                                                        *)
(***************************************************************************)
RobCycle(go, ex, rp) ==
    LET out == Retired
        kept == Len(rob) - out
        put == IF RenameFires(go) THEN 1 ELSE 0
    IN rob' = [i \in 1 .. kept + put |->
                 IF i <= kept THEN UpdatedEntry(i + out, ex, rp)
                 ELSE RobEntry(instr_tag_buf[1], RollbackTag(ex) # NoTag)]

ExceptionCycle(rp) ==
    exception_valid' =
        IF fsm = "NORMAL"
        THEN \E i \in DOMAIN rob : rob[i].tag \in active_tags /\ (rob[i].rep \/ i \in rp)
        ELSE exception_valid /\ ~Resuming

RegistersCycle(go, C, rolls) ==
    \E p \in IF AllocFires(go) /\ output_pipe[1].rl # 0 THEN free_regs ELSE {ZeroReg} :
        /\ free_regs' = (free_regs \ {p}) \cup (IF RetireReady THEN Released(C) ELSE {})
        /\ SchedulerCycle(go, p, rolls)

Cycle(push, go, ex, rp, async) ==
    LET rb == RollbackTag(ex)
        C == IF Flushing THEN {} ELSE Committing(async)
    IN /\ push # <<>> => CanPush(go)
       /\ core_counter' = core_counter + (IF AllocFires(go) THEN 1 ELSE 0) - Retired
       /\ \/ RetireNormal(C)
          \/ RetireFlush
          \/ RetireResume
          \/ RetireNothing
       /\ RobCycle(go, ex, rp)
       /\ ExceptionCycle(rp)
       /\ RegistersCycle(go, C, rb # NoTag)
       /\ FrontendCycle(go, push, rb)
       /\ ~MarkerRace => ~MarkerAtRisk(push, rp)
       /\ CRATCycle(IF TagFires(go) THEN <<TagCall>> ELSE <<>>,
                    IF RenameFires(go) THEN instr_tag_buf ELSE <<>>,
                    rb,
                    RetireReady /\ FreesTag,
                    IF Resuming THEN <<rrat>> ELSE <<>>)

Deliveries == {<<>>} \cup {<<i>> : i \in Kinds}
Executions == {<<>>} \cup {<<e>> : e \in {f \in Execution : CanExecute(f)}}
Reports == {{}} \cup {{i} : i \in CanReport}
\* whether the trap that is taken, if any, is an asynchronous interrupt
Interrupts == {FALSE, fsm = "NORMAL" /\ Trapping # {}}

CycleWith(pushes, exs, rps, gos) ==
    \E push \in pushes, ex \in exs, rp \in rps, go \in gos, async \in Interrupts :
        Cycle(push, go, ex, rp, async)

Accepts == {TRUE, ~Backpressure}
Next == CycleWith(Deliveries, Executions, Reports, Accepts)

Spec == Init /\ [][Next]_vars

-----------------------------------------------------------------------------
Flag == BOOLEAN
Fetched == [rl : LRegs, br : Flag, rb : Tag \cup {NoTag}]
Allocated == [rl : LRegs, br : Flag, rb : Tag \cup {NoTag}, rp : AnyReg, wrong : Flag]
Tagged == [rl : LRegs, br : Flag, rp : AnyReg, tag : Tag, inc : Flag, cp : Flag, wrong : Flag]
Entry == [rl : LRegs, rp : AnyReg, tag : Tag, inc : Flag, br : Flag,
          wrong : Flag, exe : Flag, done : Flag, exc : Flag, rep : Flag]

(***************************************************************************)
(* Types of the registers and buffers between the frontend's output and    *)
(* the retirement, and the bounds the code relies on: a pipe holds one     *)
(* instruction, the ROB RobSize of them.                                   *)
(***************************************************************************)
TypeOK ==
    /\ CRATTypeOK
    /\ rollback_tagger \in Tag \cup {NoTag}
    /\ output_pipe \in AtMostOne(Fetched)
    /\ {redirected, stalled_exception, exception_valid} \subseteq BOOLEAN
    /\ alloc_rename_buf \in AtMostOne(Allocated)
    /\ instr_tag_buf \in AtMostOne(Tagged)
    /\ free_regs \subseteq PRegs
    /\ core_counter \in Nat
    /\ rob \in Seq(Entry) /\ Len(rob) <= RobSize
    /\ rrat \in RAT
    /\ fsm \in {"NORMAL", "TRAP_FLUSH", "TRAP_RESUME"}
    /\ last_retired_tag \in Tag

-----------------------------------------------------------------------------
(***************************************************************************)
(* Properties.                                                             *)
(***************************************************************************)
BufferRegs == {alloc_rename_buf[i].rp : i \in DOMAIN alloc_rename_buf}
                \cup {instr_tag_buf[i].rp : i \in DOMAIN instr_tag_buf}
RobRegs == {rob[i].rp : i \in DOMAIN rob}
CommittedRegs == {rrat[l] : l \in LRegs}

(***************************************************************************)
(* No physical register has two owners: the free list, the committed       *)
(* mapping of one logical register, and one instruction in flight never    *)
(* hold the same register, whatever rollbacks, traps and commits of        *)
(* several instructions in one cycle give back (Retirement.free_phys_reg). *)
(***************************************************************************)
NoRegisterShared ==
    /\ \A i, j \in DOMAIN rob : rob[i].rp = rob[j].rp => i = j \/ rob[i].rp = ZeroReg
    /\ \A l, m \in LRegs : rrat[l] = rrat[m] => l = m \/ rrat[l] = ZeroReg
    /\ \A i \in DOMAIN alloc_rename_buf, j \in DOMAIN instr_tag_buf :
          alloc_rename_buf[i].rp = instr_tag_buf[j].rp => alloc_rename_buf[i].rp = ZeroReg
    /\ RobRegs \cap CommittedRegs \subseteq {ZeroReg}
    /\ BufferRegs \cap (RobRegs \cup CommittedRegs) \subseteq {ZeroReg}
    /\ free_regs \cap (RobRegs \cup CommittedRegs \cup BufferRegs) = {}

(***************************************************************************)
(* No physical register is lost: each is free, holds a committed value or  *)
(* belongs to an instruction in flight, so the core cannot run out.        *)
(***************************************************************************)
NoRegisterLost == PRegs \subseteq free_regs \cup RobRegs \cup CommittedRegs \cup BufferRegs

(***************************************************************************)
(* Tags "track if instructions are on valid speculation path in the core"  *)
(* (crat.py): outside of a trap an instruction's tag is inactive exactly   *)
(* when an older branch rolled back after it was fetched, and the renaming *)
(* accepts the table writes of exactly the instructions on the valid path. *)
(***************************************************************************)
TagsTrackPath ==
    fsm = "NORMAL" =>
       /\ \A i \in DOMAIN rob : rob[i].wrong <=> rob[i].tag \notin active_tags
       /\ \A i \in DOMAIN instr_tag_buf :
             LET r == instr_tag_buf[i]
             IN (r.wrong <=> r.tag \notin active_tags) /\ (r.wrong <=> ~TagValid(r.tag))

(***************************************************************************)
(* The retirement stores no tags and counts them from the increments: what *)
(* it derives for the entries that leave is the tag each was issued with,  *)
(* and it is in step with the tags the CRAT has freed.                     *)
(***************************************************************************)
RetirementTagsExact ==
    /\ tags_tail = last_retired_tag
    /\ \A i \in Retiring : RetireTag(i) = rob[i].tag

\* The register table after the first n entries of the ROB, wrong path excluded
SpecRAT(n) ==
    [l \in LRegs |-> LET W == {i \in 1 .. n : ~rob[i].wrong /\ rob[i].rl = l}
                     IN IF l = 0 \/ W = {} THEN rrat[l] ELSE rob[Max(W)].rp]

(***************************************************************************)
(* The FRAT is the committed table with the renames of the valid path      *)
(* applied in order, whenever a restore is not under way, and always when  *)
(* an instruction of the valid path is about to be renamed with it.        *)
(***************************************************************************)
FratIsSpeculative ==
    /\ fsm = "NORMAL"
    /\ last_rollback_finished \/ \E i \in DOMAIN instr_tag_buf : ~instr_tag_buf[i].wrong
    => frat = SpecRAT(Len(rob))

(***************************************************************************)
(* Checkpoints are neither leaked nor freed twice: the ring between        *)
(* checkpoints_tail and checkpoints_head holds one for every active tag    *)
(* that has one, also when a rollback takes the checkpoint back in the     *)
(* cycle in which the retirement frees its tag.                            *)
(***************************************************************************)
CheckpointsCounted ==
    tag_map_resp = <<>> =>
        Cardinality(checkpointed_tags \cap active_tags) =
            IF checkpoints_full THEN NCheckpoints
            ELSE (checkpoints_head + NCheckpoints - checkpoints_tail) % NCheckpoints

(***************************************************************************)
(* Every branch that may still roll the core back owns a checkpoint that   *)
(* holds the table right after the branch: the assertion "rollback to      *)
(* illegal tag" of CheckpointRAT.rollback holds and the restored table is  *)
(* the right one.                                                          *)
(***************************************************************************)
CheckpointsExact ==
    /\ CheckpointsCounted
    /\ \A i \in DOMAIN rob :
          rob[i].br /\ ~rob[i].done /\ ~rob[i].exe /\ rob[i].tag \in ActiveTags =>
              LET c == tag_map[rob[i].tag]
              IN /\ rob[i].tag \in checkpointed_tags \cap active_tags
                 /\ SpecRAT(i) = IF create_checkpoint_pipe = <<c>> THEN frat ELSE storage[c]

(***************************************************************************)
(* CheckpointRAT.free_tag never frees the last allocated tag (its          *)
(* assertion "tag free underflow"), in normal operation, after rollbacks   *)
(* that leave inactive tags behind and while a trap flushes the core.      *)
(***************************************************************************)
NoTagUnderflow == RetireReady /\ FreesTag => NextTag(tags_tail) # tags_head

\* CoreInstructionCounter counts the instructions from the register allocation on
CounterExact == core_counter = Len(alloc_rename_buf) + Len(instr_tag_buf) + Len(rob)

(***************************************************************************)
(* A trap resumes only in an empty core: nothing is left between the       *)
(* register allocation and the ROB when the table is restored.             *)
(***************************************************************************)
ResumesEmpty ==
    /\ CounterExact
    /\ fsm = "TRAP_RESUME" => core_counter = 0 /\ output_pipe = <<>>

(***************************************************************************)
(* The core implements the precise window: the ROB entries of the valid    *)
(* path in order, with the RRAT as the committed table.                    *)
(***************************************************************************)
ValidPath == {i \in DOMAIN rob : ~rob[i].wrong}
Nth(S, k) == CHOOSE i \in S : Cardinality({j \in S : j <= i}) = k
WindowItem(e) == [rl |-> e.rl, rp |-> e.rp, br |-> e.br, exc |-> e.exc]
Window ==
    IF fsm = "NORMAL"
    THEN [k \in 1 .. Cardinality(ValidPath) |-> WindowItem(rob[Nth(ValidPath, k)])]
    ELSE <<>>

Precise == INSTANCE PreciseWindow WITH
              arch <- rrat, window <- Window, Width <- RetireWidth
PreciseExecution == Precise!WindowSpec
=============================================================================
