------------------------- MODULE MCSpeculativeCore -------------------------
(***************************************************************************)
(* Model values and symmetry for the runs of SpeculativeCore.  Physical    *)
(* registers are only ever compared, so they are interchangeable.          *)
(***************************************************************************)
EXTENDS SpeculativeCore, TLC

CONSTANTS p0, p1, p2, p3, p4

OneReg == {p1}
ThreeRegs == {p1, p2, p3}
FourRegs == {p1, p2, p3, p4}
RegSymmetry == Permutations(PRegs)

\* An instruction with a result, and a branch that links (JALR)
WritingKinds == [rl : {1}, br : BOOLEAN]
\* Branches that link only
LinkKinds == [rl : {1}, br : {TRUE}]
\* Branches without results: they run out of tags and checkpoints, not registers
BranchKinds == [rl : {0}, br : {TRUE}]
=============================================================================
