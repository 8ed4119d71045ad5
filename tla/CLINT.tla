------------------------------- MODULE CLINT -------------------------------
(***************************************************************************)
(* The core local interruptor (socks/clint.py) of one hart: mtime counts   *)
(* in every clock cycle, mtip compares it with mtimecmp, and software sees *)
(* the two registers through the bus one word at a time                    *)
(* (socks/peripheral.py).  A register is two words of base W.              *)
(*                                                                         *)
(* Software moves mtimecmp to a later or an earlier time the way the       *)
(* privileged specification asks for: low word to all ones, then the high  *)
(* word, then the low word.                                                *)
(***************************************************************************)
EXTENDS Naturals

CONSTANT W          \* 2^word_width

\* What the parameters must satisfy.
ClintAssumption == W \in Nat /\ W > 1

VARIABLES mtime, mtimecmp, ipi,
    setting,        \* software: words of the new mtimecmp still to write
    old, new        \* software: mtimecmp before and after

vars == <<mtime, mtimecmp, ipi, setting, old, new>>
Times == 0..((W * W) - 1)

Init == mtime = 0 /\ mtimecmp = 0 /\ ipi = FALSE /\ setting = 0 /\ old = 0 /\ new = 0

Low(x) == x % W
High(x) == x \div W
Mtip == mtime >= mtimecmp
Msip == ipi

\* a write of one word of a register whose other word takes its next value
WithWord(reg, word, data) ==
    IF word = 0 THEN (High(reg) * W) + data ELSE (data * W) + Low(reg)
MtimeCounts == (mtime + 1) % (W * W)

Quiet == mtime' = MtimeCounts /\ UNCHANGED <<mtimecmp, ipi, setting, old, new>>

WriteMtime ==
    /\ setting = 0
    /\ \E word \in {0, 1}, data \in 0..(W - 1) : mtime' = WithWord(MtimeCounts, word, data)
    /\ UNCHANGED <<mtimecmp, ipi, setting, old, new>>

WriteIpi ==
    /\ ipi' \in BOOLEAN
    /\ mtime' = MtimeCounts
    /\ UNCHANGED <<mtimecmp, setting, old, new>>

StartSetting ==
    /\ setting = 0
    /\ new' \in Times /\ old' = mtimecmp
    /\ setting' = 3
    /\ mtime' = MtimeCounts
    /\ UNCHANGED <<mtimecmp, ipi>>

WriteMtimecmp ==
    /\ setting > 0
    /\ mtimecmp' = CASE setting = 3 -> WithWord(mtimecmp, 0, W - 1)
                     [] setting = 2 -> WithWord(mtimecmp, 1, High(new))
                     [] setting = 1 -> WithWord(mtimecmp, 0, Low(new))
    /\ setting' = setting - 1
    /\ mtime' = MtimeCounts
    /\ UNCHANGED <<ipi, old, new>>

Next == Quiet \/ WriteMtime \/ WriteIpi \/ StartSetting \/ WriteMtimecmp
Spec == Init /\ [][Next]_vars

-----------------------------------------------------------------------------
(***************************************************************************)
(* Types: the counter wraps within its two words.                          *)
(***************************************************************************)
TypeOK ==
    /\ mtime \in Times /\ mtimecmp \in Times /\ ipi \in BOOLEAN
    /\ setting \in 0..3 /\ old \in Times /\ new \in Times

(***************************************************************************)
(* No spurious timer interrupt while the two words of mtimecmp are written *)
(* one after the other, with the time running on: when mtip is on, the old *)
(* or the new time is reached.                                             *)
(***************************************************************************)
NoSpuriousTimer == setting > 0 /\ Mtip => mtime >= old \/ mtime >= new
=============================================================================
