------------------------------ MODULE CsrUnit -------------------------------
(***************************************************************************)
(* The CSR unit (func_blocks/csr/csr_unit.py) and the registers behind it: *)
(* a plain register with read-only bits that hardware also writes          *)
(* (csr_register.py), and a counter twice as wide as a register that is    *)
(* reached through shadows of its halves (double_counter.py,               *)
(* double_shadow.py, shadow.py).  Hardware writes and counts in every      *)
(* cycle of the unit's one instruction: waiting for its operand, for the   *)
(* side effect guard, for its turn to announce.                            *)
(***************************************************************************)
EXTENDS Naturals, Bitwise

CONSTANTS
    XLen,           \* isa.xlen
    Csrs,           \* bound: addresses that instructions use
    Operands,       \* bound: values of rs1 and of the immediate
    RoBits,         \* ro_bits of the plain register
    HwWrites,       \* bound: values hardware writes to the plain register
    Counting        \* bound: the counter runs

\* What the parameters must satisfy.
CsrAssumption ==
    /\ XLen \in Nat \ {0} /\ Counting \in BOOLEAN
    /\ Csrs \subseteq {"scratch", "low", "high", "ulow", "mcounteren", "scounteren", "missing"}
    /\ Operands \cup HwWrites \cup {RoBits} \subseteq 0..(2^XLen - 1)

VARIABLES
    reserved, instr, done, exception, current_result,   \* CSRUnit
    scratch,        \* CSRRegister with ro_bits
    counter,        \* DoubleCounterCSR.register
    mcounteren, scounteren,
    mode,           \* priv_mode
    guard,          \* side_fx_guard lets the instruction of the unit pass
    active,         \* active_tags[instr.tag]
    seen,           \* what the access did: [writes, changed, old, new]
    answer          \* what get_result returned in the last cycle

unit == <<reserved, instr, done, exception, current_result>>
file == <<scratch, counter, mcounteren, scounteren>>
vars == <<unit, file, mode, guard, active, seen, answer>>

Words == 0..(2^XLen - 1)
Wide == 2^(2 * XLen)
User == 0
Supervisor == 1
Machine == 3
NoInstr == [valid |-> FALSE, fn |-> "RW", imm |-> FALSE, csr |-> "missing", rd |-> 0,
            rs1 |-> 0, rp_s1 |-> 0, s1_val |-> 0]
NotSeen == [writes |-> 0, changed |-> FALSE, old |-> 0, new |-> 0]
NoAnswer == [given |-> FALSE, instr |-> NoInstr, exception |-> FALSE, report |-> "none",
             resumed |-> FALSE, flushed |-> FALSE, result |-> 0, legal |-> FALSE, seen |-> NotSeen]

Init ==
    /\ reserved = FALSE /\ instr = NoInstr /\ done = FALSE /\ exception = FALSE
    /\ current_result = 0
    /\ scratch = 0 /\ counter = 0 /\ mcounteren = 0 /\ scounteren = 0
    /\ mode = Machine /\ guard = FALSE /\ active = TRUE
    /\ seen = NotSeen /\ answer = NoAnswer

-----------------------------------------------------------------------------
(***************************************************************************)
(* Registers.                                                              *)
(***************************************************************************)
Without(x, y) == x - (x & y)

\* fu_write_combine_default
Combine(old, op, data) ==
    CASE op = "RW" -> data
      [] op = "RS" -> old | data
      [] op = "RC" -> Without(old, data)

\* A write by an instruction and one by hardware in one cycle: hardware keeps
\* the read-only bits, the instruction has the others.
BothWritten(fu, hw) == Without(fu, RoBits) | (hw & RoBits)

\* ShadowCSR._fu_write: the word at its place in the counter, and for a plain
\* write the rest of the counter around it.
Offset(csr) == IF csr = "high" THEN XLen ELSE 0
FullMask(csr) == (2^XLen - 1) * 2^Offset(csr)
ShadowData(csr, op, data) ==
    (data * 2^Offset(csr)) | (IF op = "RW" THEN Without(counter, FullMask(csr)) ELSE 0)

ReadFrom(f, csr) ==
    CASE csr \in {"low", "ulow"} -> f.counter % 2^XLen
      [] csr = "high" -> f.counter \div 2^XLen
      [] OTHER -> f[csr]
ReadOf(csr) ==
    ReadFrom([scratch |-> scratch, counter |-> counter, mcounteren |-> mcounteren,
              scounteren |-> scounteren], csr)

Counted == (counter + 1) % Wide

\* The registers after a cycle in which `to` ("none" or an address) is written
\* by the instruction, hw is what hardware writes (2^XLen: nothing), and the
\* counter is incremented or not.
RegistersAfter(to, op, data, hw, inc) ==
    [scratch |->
        LET fu == Combine(scratch, op, data)
        IN  IF to = "scratch"
            THEN IF hw \in Words THEN BothWritten(fu, hw) ELSE BothWritten(fu, scratch)
            ELSE IF hw \in Words THEN hw ELSE scratch,
     counter |->
        IF to \in {"low", "high"} THEN Combine(counter, op, ShadowData(to, op, data))
        ELSE IF inc THEN Counted ELSE counter,
     mcounteren |-> IF to = "mcounteren" THEN Combine(mcounteren, op, data) % 2 ELSE mcounteren,
     scounteren |-> IF to = "scounteren" THEN Combine(scounteren, op, data) % 2 ELSE scounteren]

HwInputs == HwWrites \cup {2^XLen}
IncInputs == IF Counting THEN BOOLEAN ELSE {FALSE}

\* One clock edge of the register file.
Registers(after) ==
    /\ scratch' = after.scratch /\ counter' = after.counter
    /\ mcounteren' = after.mcounteren /\ scounteren' = after.scounteren
HardwareEdge ==
    \E hw \in HwInputs, inc \in IncInputs : Registers(RegistersAfter("none", "RW", 0, hw, inc))
HardwareOnly == HardwareEdge /\ UNCHANGED seen

-----------------------------------------------------------------------------
(***************************************************************************)
(* Access rights.                                                          *)
(***************************************************************************)
PrivLevel(csr) ==
    CASE csr = "ulow" -> User [] csr = "scounteren" -> Supervisor [] OTHER -> Machine
ReadOnly(csr) == csr = "ulow"

\* counteren_access_filter, for the shadow of the counter.
AccessFilter(csr) ==
    csr = "ulow" => /\ mode < Machine => mcounteren = 1
                    /\ mode < Supervisor => scounteren = 1

AccessValid(csr) == csr # "missing" /\ PrivLevel(csr) <= mode /\ AccessFilter(csr)

ShouldRead == instr.fn = "RW" => instr.rd # 0
ShouldWrite ==
    \/ instr.fn = "RW"
    \/ IF instr.imm THEN instr.s1_val # 0 ELSE instr.rs1 # 0

-----------------------------------------------------------------------------
(***************************************************************************)
(* The unit.                                                               *)
(***************************************************************************)
Select ==
    /\ ~reserved /\ reserved' = TRUE
    /\ answer' = NoAnswer /\ HardwareOnly
    /\ UNCHANGED <<instr, done, exception, current_result, mode, guard, active>>

\* insert, with the operand or while it is still being computed.
Insert(fn, imm, csr, rd, rs1, rp_s1, val) ==
    /\ reserved /\ ~instr.valid
    /\ imm \/ rs1 = 0 => rp_s1 = 0
    /\ rs1 = 0 /\ ~imm => val = 0
    /\ rp_s1 # 0 => val = 0
    /\ instr' = [valid |-> TRUE, fn |-> fn, imm |-> imm, csr |-> csr, rd |-> rd,
                 rs1 |-> rs1, rp_s1 |-> rp_s1, s1_val |-> val]
    /\ answer' = NoAnswer /\ HardwareOnly
    /\ UNCHANGED <<reserved, done, exception, current_result, mode, guard, active>>

Update(val) ==
    /\ instr.valid /\ instr.rp_s1 # 0
    /\ instr' = [instr EXCEPT !.s1_val = val, !.rp_s1 = 0]
    /\ answer' = NoAnswer /\ HardwareOnly
    /\ UNCHANGED <<reserved, done, exception, current_result, mode, guard, active>>

ReadyToProcess == instr.valid /\ instr.rp_s1 = 0

CanAccess == ReadyToProcess /\ ~done /\ guard

\* The access transaction, under side_fx_guard.
Access ==
    LET valid == AccessValid(instr.csr)
        writes == valid /\ ShouldWrite /\ ~ReadOnly(instr.csr)
    IN  /\ CanAccess
        /\ current_result' = IF valid /\ ShouldRead THEN ReadOf(instr.csr) ELSE current_result
        /\ exception' = (exception \/ ~valid \/ (ReadOnly(instr.csr) /\ ShouldWrite))
        /\ done' = TRUE
        /\ \E hw \in HwInputs, inc \in IncInputs :
               LET after == RegistersAfter(IF writes THEN instr.csr ELSE "none",
                                           instr.fn, instr.s1_val, hw, inc)
               IN  /\ Registers(after)
                   /\ seen' = [writes |-> seen.writes + (IF writes THEN 1 ELSE 0),
                               changed |-> seen.changed \/
                                   after # RegistersAfter("none", "RW", 0, hw, inc),
                               old |-> IF valid THEN ReadOf(instr.csr) ELSE 0,
                               new |-> IF valid THEN ReadFrom(after, instr.csr) ELSE 0]
        /\ answer' = NoAnswer
        /\ UNCHANGED <<reserved, instr, mode, guard, active>>

CanAnswer == done \/ (ReadyToProcess /\ ~active)

\* What the Zicsr chapter allows, from the instruction alone.
Legal ==
    /\ instr.csr # "missing" /\ PrivLevel(instr.csr) <= mode
    /\ ReadOnly(instr.csr) => instr.fn # "RW" /\ (IF instr.imm THEN instr.s1_val = 0 ELSE instr.rs1 = 0)
    /\ (instr.csr = "ulow" /\ mode # Machine) =>
           mcounteren = 1 /\ (mode = User => scounteren = 1)

\* mutant: the register is read when the result is announced
ResultLate == IF AccessValid(instr.csr) THEN ReadOf(instr.csr) ELSE 0
Result == current_result

GetResult(interrupt) ==
    /\ CanAnswer
    /\ reserved' = FALSE /\ done' = FALSE /\ exception' = FALSE
    /\ instr' = NoInstr
    /\ answer' = [given |-> TRUE, instr |-> instr, exception |-> exception \/ interrupt,
                  report |-> IF exception THEN "illegal" ELSE IF interrupt THEN "interrupt" ELSE "none",
                  resumed |-> active /\ ~exception /\ ~interrupt, flushed |-> ~active,
                  result |-> Result, legal |-> Legal, seen |-> seen]
    /\ HardwareEdge
    /\ seen' = NotSeen /\ guard' = FALSE /\ active' = TRUE
    /\ UNCHANGED <<current_result, mode>>

-----------------------------------------------------------------------------
(***************************************************************************)
(* Surroundings: retirement grants the guard to the oldest instruction,    *)
(* rollback makes the tag of a younger one inactive, traps and returns     *)
(* change the privilege while no CSR instruction is past the guard.        *)
(***************************************************************************)
Grant ==
    /\ instr.valid /\ active /\ ~guard /\ guard' = TRUE
    /\ answer' = NoAnswer /\ HardwareOnly
    /\ UNCHANGED <<unit, mode, active>>

Rollback ==
    /\ instr.valid /\ active /\ ~guard /\ active' = FALSE
    /\ answer' = NoAnswer /\ HardwareOnly
    /\ UNCHANGED <<unit, mode, guard>>

\* A cycle in which only hardware moves.
Wait ==
    /\ answer' = NoAnswer /\ HardwareOnly
    /\ UNCHANGED <<unit, mode, guard, active>>

SetMode(p) ==
    /\ ~guard /\ p # mode /\ mode' = p
    /\ answer' = NoAnswer /\ HardwareOnly
    /\ UNCHANGED <<unit, guard, active>>

InsertSome ==
    \E fn \in {"RW", "RS", "RC"}, imm \in BOOLEAN, csr \in Csrs, rd \in {0, 1},
       rs1 \in {0, 1}, rp_s1 \in {0, 1}, val \in Operands : Insert(fn, imm, csr, rd, rs1, rp_s1, val)
UpdateSome == \E val \in Operands : Update(val)
GetResultSome == \E interrupt \in BOOLEAN : GetResult(interrupt)

Next ==
    \/ Select \/ InsertSome \/ UpdateSome \/ Access \/ GetResultSome
    \/ Grant \/ Rollback \/ Wait
    \/ \E p \in {User, Supervisor, Machine} : SetMode(p)

Spec == Init /\ [][Next]_vars

-----------------------------------------------------------------------------
(***************************************************************************)
(* Properties.                                                             *)
(***************************************************************************)
TypeOK ==
    /\ {reserved, done, exception, guard, active} \subseteq BOOLEAN
    /\ {scratch, current_result, instr.s1_val} \subseteq Words
    /\ counter \in 0..(Wide - 1) /\ {mcounteren, scounteren} \subseteq {0, 1}
    /\ instr.valid => reserved

\* The unit reports an illegal instruction exactly for the accesses that the
\* privileged architecture forbids, whatever the counter enables were while
\* the instruction waited.
IllegalExactly ==
    answer.given /\ ~answer.flushed => (answer.report = "illegal") = ~answer.legal

\* Zicsr: CSRRW always writes, the set and clear forms unless they name x0 or
\* have a zero immediate.
Writes(i) == i.fn = "RW" \/ (IF i.imm THEN i.s1_val # 0 ELSE i.rs1 # 0)

\* However long it waits for its operand, the guard or its announcement, a CSR
\* instruction writes once if it is legal and has to, and leaves every
\* register alone if it is illegal or was rolled back.
WritesOnce ==
    answer.given =>
        /\ answer.seen.writes =
               IF ~answer.flushed /\ answer.legal /\ Writes(answer.instr) THEN 1 ELSE 0
        /\ answer.seen.writes = 0 => ~answer.seen.changed

\* Read, modify and write are one step: the instruction returns the value its
\* write replaced, and the register was left with the operation applied to
\* that value, though hardware writes and counts in every cycle.
ReadModifyWrite ==
    (answer.given /\ answer.seen.writes = 1 /\ (answer.instr.fn = "RW" => answer.instr.rd # 0)
        /\ answer.instr.csr \in {"scratch", "low", "high"}) =>
    LET ro == IF answer.instr.csr = "scratch" THEN RoBits ELSE 0
    IN  /\ answer.result = answer.seen.old
        /\ Without(answer.seen.new, ro) =
               Without(Combine(answer.result, answer.instr.fn, answer.instr.s1_val), ro)

\* Read-only bits of a register hold what hardware wrote there, also when an
\* instruction writes in the same cycle.
RoBitsFromHardware ==
    scratch & RoBits \in {0} \cup {h & RoBits : h \in HwWrites}

\* The counter counts by one, or one half of it is written and the other half
\* stays, also when the count would carry in that cycle.
HalfWrites ==
    \/ counter' \in {counter, (counter + 1) % Wide}
    \/ counter' \div 2^XLen = counter \div 2^XLen
    \/ counter' % 2^XLen = counter % 2^XLen
=============================================================================
