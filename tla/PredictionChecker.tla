------------------------- MODULE PredictionChecker --------------------------
(***************************************************************************)
(* The prediction checker of the fetch unit (frontend/fetch/fetch.py): it  *)
(* compares what the branch predictor said of a fetch block with what the  *)
(* predecoder found there, and names the control flow instruction the      *)
(* frontend leaves the block through.  The predictor may be wrong in any   *)
(* way (aliases, stale entries), so the prediction is arbitrary; slots in  *)
(* which no instruction starts hold arbitrary bits.                        *)
(***************************************************************************)
EXTENDS Integers, FiniteSetsExt

CONSTANTS
    FetchWidth,     \* instruction slots of a fetch block
    Opcodes,        \* bound: instructions in the slots
    Forward,        \* bound: offsets of forward jumps and branches
    Backward,       \* bound: distances of backward jumps and branches
    FbPc            \* bound: the address of the block

\* What the parameters must satisfy.
CheckerAssumption ==
    /\ FetchWidth \in Nat \ {0} /\ FbPc \in Nat
    /\ Opcodes \subseteq {"BRANCH", "JAL", "JALR", "compressed", "other"}
    /\ Forward \cup Backward \subseteq Nat \ {0} /\ Backward # {}

VARIABLES
    block,          \* [slots, starts_mid_instr]
    prediction,     \* [cfi_type, cfi_idx, cfi_target_valid, cfi_target, branch_mask]
    ret             \* the answer of the checker, and whether it is given

vars == <<block, prediction, ret>>

Idx == 0..(FetchWidth - 1)
Offsets == Forward \cup {-b : b \in Backward}
Slots ==
    {s \in [valid : BOOLEAN, opcode : Opcodes, offset : Offsets] :
        s.opcode \in {"BRANCH", "JAL", "compressed"} \/ s.offset = Min(Offsets)}
CfiTypes == {"INVALID", "BRANCH", "JAL", "JALR"}
NoAnswer == [given |-> FALSE, mispredicted |-> FALSE, cfi_idx |-> 0, cfi_type |-> "INVALID",
             cfi_target |-> 0]

\* Predecoder: only uncompressed control flow instructions have a type.
Predecode(slot) ==
    IF slot.opcode \in {"BRANCH", "JAL", "JALR"} THEN slot.opcode ELSE "INVALID"

CfiType(i) == Predecode(block.slots[i])

\* pc_from_fb, with the first instruction two bytes earlier when it began in
\* the block before.
DecodedTarget(i) ==
    FbPc + (2 * i) + block.slots[i].offset
        - (IF block.starts_mid_instr /\ i = 0 THEN 2 ELSE 0)

-----------------------------------------------------------------------------
(***************************************************************************)
(* PredictionChecker.check.                                                *)
(***************************************************************************)
\* Jumps, and backward branches that the predictor did not see.
DecodedRedirection(i) ==
    \/ CfiType(i) \in {"JAL", "JALR"}
    \/ CfiType(i) = "BRANCH" /\ i \notin prediction.branch_mask /\ block.slots[i].offset < 0

RedirectMask == {i \in Idx : DecodedRedirection(i) /\ block.slots[i].valid}
RedirectIdx == IF RedirectMask = {} THEN 0 ELSE Min(RedirectMask)

Decoded ==
    IF RedirectMask = {} THEN [NoAnswer EXCEPT !.given = TRUE, !.mispredicted = TRUE]
    ELSE [given |-> TRUE, mispredicted |-> TRUE, cfi_idx |-> RedirectIdx,
          cfi_type |-> CfiType(RedirectIdx), cfi_target |-> DecodedTarget(RedirectIdx)]

Predicted(target, mispredicted) ==
    [given |-> TRUE, mispredicted |-> mispredicted, cfi_idx |-> prediction.cfi_idx,
     cfi_type |-> prediction.cfi_type, cfi_target |-> target]

PrecedingRedirection ==
    /\ RedirectMask # {}
    /\ prediction.cfi_type = "INVALID" \/ RedirectIdx < prediction.cfi_idx

MispredictedCfiType ==
    /\ prediction.cfi_type # "INVALID"
    /\ prediction.cfi_type # IF block.slots[prediction.cfi_idx].valid
                             THEN CfiType(prediction.cfi_idx) ELSE "INVALID"

MispredictedCfiTarget ==
    /\ prediction.cfi_type \in {"BRANCH", "JAL"}
    /\ ~prediction.cfi_target_valid \/ DecodedTarget(prediction.cfi_idx) # prediction.cfi_target

Check ==
    /\ ~ret.given
    /\ ret' = CASE PrecedingRedirection \/ MispredictedCfiType -> Decoded
                [] OTHER -> IF MispredictedCfiTarget
                            THEN Predicted(DecodedTarget(prediction.cfi_idx), TRUE)
                            ELSE Predicted(prediction.cfi_target, FALSE)
    /\ UNCHANGED <<block, prediction>>

\* The answer is used, and the block checked again when it is fetched again.
Again ==
    /\ ret.given /\ ret' = NoAnswer
    /\ UNCHANGED <<block, prediction>>

\* Any block, and any prediction about it: with the right target, a wrong one,
\* or none.
Init ==
    /\ \E slots \in [Idx -> Slots], mid \in BOOLEAN :
           /\ mid => slots[0].valid
           /\ block = [slots |-> slots, starts_mid_instr |-> mid]
    /\ \E type \in CfiTypes, idx \in Idx, valid \in BOOLEAN, off \in {0, 2}, mask \in SUBSET Idx :
           /\ type = "INVALID" => idx = 0 /\ ~valid /\ off = 0
           /\ ~valid => off = 0
           /\ prediction = [cfi_type |-> type, cfi_idx |-> idx, cfi_target_valid |-> valid,
                            cfi_target |-> IF valid THEN FbPc + (2 * idx) + block.slots[idx].offset - off ELSE 0,
                            branch_mask |-> mask]
    /\ ret = NoAnswer

Next == Check \/ Again

Spec == Init /\ [][Next]_vars

-----------------------------------------------------------------------------
(***************************************************************************)
(* Properties.                                                             *)
(***************************************************************************)
\* The instruction the frontend leaves the block through exists, is of the
\* named type, and its target is the one the instruction encodes.
ExitIsReal ==
    ret.given /\ ret.cfi_type # "INVALID" =>
        LET s == block.slots[ret.cfi_idx]
            pc == FbPc + (2 * ret.cfi_idx)
                      - (IF block.starts_mid_instr /\ ret.cfi_idx = 0 THEN 2 ELSE 0)
        IN  /\ s.valid /\ s.opcode = ret.cfi_type
            /\ ret.cfi_type \in {"BRANCH", "JAL"} => ret.cfi_target = pc + s.offset

\* No jump is run past: every instruction before the exit, or in the whole
\* block if there is no exit, may fall through.
NoJumpSkipped ==
    ret.given =>
        \A i \in Idx :
            (block.slots[i].valid /\ block.slots[i].opcode \in {"JAL", "JALR"}) =>
                ret.cfi_type # "INVALID" /\ ret.cfi_idx <= i

\* A branch the predictor knew is left to the predictor: it is the exit only
\* if the predictor said so, and a correct prediction never resteers.
PredictorTrusted ==
    ret.given =>
        /\ (ret.cfi_type = "BRANCH" /\ ret.cfi_idx \in prediction.branch_mask) =>
               prediction.cfi_type = "BRANCH" /\ prediction.cfi_idx = ret.cfi_idx
        /\ ret.mispredicted =>
               \/ ret.cfi_type # prediction.cfi_type
               \/ ret.cfi_idx # prediction.cfi_idx
               \/ ret.cfi_target # prediction.cfi_target
               \/ ~prediction.cfi_target_valid
=============================================================================
