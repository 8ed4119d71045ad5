------------------------ MODULE InterruptController ------------------------
(***************************************************************************)
(* Interrupts and privilege of the core, clock cycle by clock cycle:       *)
(* priv/traps/interrupt_controller.py with the registers it keeps          *)
(* (priv/csr/csr_register.py, shadow.py, csr_instances.py), driven by the  *)
(* instructions that touch them: the CSR unit (func_blocks/csr/csr_unit.py)*)
(* and the privileged unit (func_blocks/fu/priv.py), and by traps.         *)
(*                                                                         *)
(* A bit mask of interrupts is a set.  One privileged or CSR instruction   *)
(* is in flight at a time, since fetch waits for it.  Its side effects run *)
(* in a first step and its result is produced in a later one.  The rest of *)
(* the core is what it may do to this state: a jump reports the interrupt  *)
(* that is active when it completes ("inserted" from then on), a rollback  *)
(* or an older trap takes that report back, Retirement takes the trap.     *)
(***************************************************************************)
EXTENDS Naturals, FiniteSets

CONSTANTS
    Irqs,           \* the interrupts of this instance
    AllDelegable,   \* interrupt_all_interrupts_delegable
    SstcTimer,      \* sstc implemented and menvcfg.STCE set
    Csrs,           \* bound: the registers software writes
    Fns             \* bound: the privileged instructions software runs

Standard == {"MEI", "MSI", "MTI", "SEI", "SSI", "STI"}
Custom == {"LCI", "LCE"}        \* one level and one edge triggered custom interrupt

\* What the parameters must satisfy.
InterruptAssumption ==
    /\ Irqs \subseteq (Standard \cup Custom)
    /\ AllDelegable \in BOOLEAN /\ SstcTimer \in BOOLEAN
    /\ Csrs \subseteq {"mie", "mip", "mideleg", "mstatus", "sie", "sip", "sstatus"}
    /\ Fns \subseteq {"mret", "sret", "wfi"}

VARIABLES
    report,         \* level inputs that are high
    timer,          \* time >= stimecmp
    mie, mip, mideleg,
    priv_mode,
    mstatus,        \* its fields, Booleans but mpp
    interrupt_cause,
    op,             \* the privileged or CSR instruction in flight
    inserted,       \* an interrupt was reported and not taken yet
    edges_owed,     \* ghost: edges that came in and software did not clear
    written         \* ghost: pending bits that software set itself

inputs == <<report, timer>>
regs == <<mie, mip, mideleg, priv_mode, mstatus, interrupt_cause>>
vars == <<inputs, regs, op, inserted, edges_owed, written>>

Edge == Irqs \cap {"SSI", "LCE"}                    \* edge_reported_mask
CustomMask == Irqs \cap Custom
MidelegWriteable ==
    CustomMask \cup (Irqs \cap {"SSI", "STI", "SEI"})
               \cup (IF AllDelegable THEN Irqs \cap {"MSI", "MTI", "MEI"} ELSE {})
MieWriteable == (Irqs \cap {"MSI", "MTI", "MEI"}) \cup CustomMask \cup MidelegWriteable
MipWriteable == (CustomMask \cap Edge) \cup (Irqs \cap {"STI", "SSI", "SEI"})
SipWriteable == MidelegWriteable \cap Edge

Level == [U |-> 0, S |-> 1, M |-> 3]
Status == [mie : BOOLEAN, mpie : BOOLEAN, mpp : {"U", "S", "M"}, sie : BOOLEAN,
           spie : BOOLEAN, spp : BOOLEAN, mprv : BOOLEAN, tsr : BOOLEAN, tw : BOOLEAN]
NoOp == [fn |-> "none", stage |-> "none", illegal |-> FALSE]

Init ==
    /\ report = {} /\ timer = FALSE
    /\ mie = {} /\ mip = {} /\ mideleg = {}
    /\ priv_mode = "M"
    /\ mstatus = [mie |-> FALSE, mpie |-> FALSE, mpp |-> "M", sie |-> FALSE,
                  spie |-> FALSE, spp |-> FALSE, mprv |-> FALSE, tsr |-> FALSE, tw |-> FALSE]
    /\ interrupt_cause = "none"
    /\ op = NoOp /\ inserted = FALSE
    /\ edges_owed = {} /\ written = {}

-----------------------------------------------------------------------------
(***************************************************************************)
(* Which interrupts are pending, enabled and selected.                     *)
(***************************************************************************)
MipValue == mip \cup report
Pending == mie \cap MipValue
PendingM == Pending \ mideleg
PendingS == Pending \cap mideleg
EnableS == (priv_mode = "S" /\ mstatus.sie) \/ priv_mode = "U"
EnableM == mstatus.mie \/ priv_mode # "M"
MInsert == PendingM # {} /\ EnableM
SInsert == PendingS # {} /\ EnableS
InterruptInsert == MInsert \/ SInsert
SelectedPending == IF MInsert THEN PendingM ELSE PendingS
WfiResume == Pending # {}

Rank == [MEI |-> 1, MSI |-> 2, MTI |-> 3, SEI |-> 4, SSI |-> 5, STI |-> 6, LCI |-> 7, LCE |-> 8]
TopInterrupt ==
    CHOOSE i \in SelectedPending : \A j \in SelectedPending : Rank[i] <= Rank[j]

\* latched, since a level may be gone when the trap is taken
NextCause == IF InterruptInsert THEN TopInterrupt ELSE interrupt_cause

-----------------------------------------------------------------------------
(***************************************************************************)
(* CSR instructions.  w is [csr, how, data]; the data of a status register *)
(* is a set of its Boolean fields, or a privilege level for mpp.           *)
(***************************************************************************)
Combine(how, old, data) ==
    CASE how = "write" -> data
      [] how = "set" -> old \cup data
      [] how = "clear" -> old \ data

\* CSRRegister: read-only bits keep their value
Filtered(new, old, writeable) == (new \cap writeable) \cup (old \ writeable)

\* ShadowCSR: a masked write leaves the other bits of the register behind it
ShadowData(how, data, mask, old) ==
    IF how = "write" THEN (data \cap mask) \cup (old \ mask) ELSE data \cap mask

\* only the register, not the level inputs, takes part in set and clear
MipCombine(how, data) == Combine(how, mip, data)

MieAfter(w) ==
    CASE w.csr = "mie" -> Filtered(Combine(w.how, mie, w.data), mie, MieWriteable)
      [] w.csr = "sie" ->
            Filtered(Combine(w.how, mie, ShadowData(w.how, w.data, mideleg, mie)), mie, MieWriteable)
      [] OTHER -> mie

\* what the instruction's write puts on read_comb in this cycle
MipWritten(w) ==
    CASE w.csr = "mip" -> MipCombine(w.how, w.data)
      [] w.csr = "sip" ->
            MipCombine(w.how, ShadowData(w.how, w.data, mideleg \cap SipWriteable, mip))
      [] OTHER -> mip

MidelegAfter(w) ==
    IF w.csr = "mideleg"
    THEN Filtered(Combine(w.how, mideleg, w.data), mideleg, MidelegWriteable) ELSE mideleg

MFields == {"mie", "mpie", "sie", "spie", "spp", "mprv", "tsr", "tw"}
SFields == {"sie", "spie", "spp"}
FieldsSet == {f \in MFields : mstatus[f]}
StatusAfter(w) ==
    LET fields == IF w.csr = "mstatus" THEN Combine(w.how, FieldsSet, w.data)
                  ELSE Combine(w.how, FieldsSet, ShadowData(w.how, w.data, SFields, FieldsSet))
    IN IF w.csr \notin {"mstatus", "sstatus"} THEN mstatus
       ELSE [f \in DOMAIN mstatus |-> IF f = "mpp" THEN (IF w.mpp = "keep" THEN mstatus.mpp ELSE w.mpp)
                                      ELSE f \in fields]

\* bound: one bit at a time for the status registers
Writes ==
    [csr : Csrs \ {"mstatus", "sstatus"}, how : {"write", "set", "clear"},
     data : SUBSET Irqs, mpp : {"keep"}]
    \cup [csr : Csrs \cap {"mstatus"}, how : {"set", "clear"},
          data : {{f} : f \in MFields} , mpp : {"keep"}]
    \cup [csr : Csrs \cap {"mstatus"}, how : {"set"}, data : {{}}, mpp : {"U", "S", "M"}]
    \cup [csr : Csrs \cap {"sstatus"}, how : {"set", "clear"},
          data : {{f} : f \in MFields}, mpp : {"keep"}]

NoWrite == [csr |-> "none", how |-> "set", data |-> {}, mpp |-> "keep"]
MachineOnly(csr) == csr \in {"mie", "mip", "mideleg", "mstatus"}
CsrAllowed(csr) == Level[priv_mode] >= (IF MachineOnly(csr) THEN Level["M"] ELSE Level["S"])

(***************************************************************************)
(* The mip register in every cycle: edges are added to what an instruction *)
(* writes, and a timer compare of its own drives STI.                      *)
(***************************************************************************)
MipCycleLosesEdge(w, edges) ==                      \* mutant: the write wins
    IF w.csr \in {"mip", "sip"} THEN Filtered(MipWritten(w), mip, MipWriteable) ELSE mip \cup edges
MipCycle(w, edges) ==
    LET value == Filtered(MipWritten(w), mip, MipWriteable) \cup edges
    IN IF SstcTimer /\ "STI" \in Irqs
       THEN (value \ {"STI"}) \cup (IF timer THEN {"STI"} ELSE {}) ELSE value

-----------------------------------------------------------------------------
(***************************************************************************)
(* Trap entry and return.                                                  *)
(***************************************************************************)
InterruptTarget == IF interrupt_cause \in mideleg THEN "S" ELSE "M"
\* medeleg gives this cause to S
ExceptionTargetAnyMode(delegated) == IF delegated THEN "S" ELSE "M"     \* mutant
ExceptionTarget(delegated) == IF delegated /\ priv_mode # "M" THEN "S" ELSE "M"

StatusEntered(target) ==
    IF target = "S"
    THEN [mstatus EXCEPT !.sie = FALSE, !.spie = mstatus.sie, !.spp = priv_mode # "U"]
    ELSE [mstatus EXCEPT !.mie = FALSE, !.mpie = mstatus.mie, !.mpp = priv_mode]

MretStatus ==
    [mstatus EXCEPT !.mie = mstatus.mpie, !.mpie = TRUE, !.mpp = "U",
                    !.mprv = @ /\ mstatus.mpp = "M"]
SretStatus ==
    [mstatus EXCEPT !.sie = mstatus.spie, !.spie = TRUE, !.spp = FALSE, !.mprv = FALSE]

-----------------------------------------------------------------------------
(***************************************************************************)
(* What the core does in a cycle, on top of what every cycle does.         *)
(***************************************************************************)
Registers(status, priv) == mstatus' = status /\ priv_mode' = priv
KeepStatus == UNCHANGED <<mstatus, priv_mode>>

Cycle(w) ==
    /\ report' \in SUBSET (Irqs \ Edge)
    /\ timer' \in (IF SstcTimer THEN BOOLEAN ELSE {FALSE})
    /\ mie' = MieAfter(w)
    /\ mideleg' = MidelegAfter(w)
    /\ interrupt_cause' = NextCause
    /\ \E edges \in SUBSET Edge :
          /\ mip' = MipCycle(w, edges)
          /\ edges_owed' = (edges_owed \cap Filtered(MipWritten(w), mip, MipWriteable)) \cup edges
    /\ written' = IF w.csr \in {"mip", "sip"} /\ w.how # "clear"
                  THEN written \cup w.data ELSE written

\* an instruction is issued to the CSR unit or to the privileged unit
Issue ==
    /\ op = NoOp /\ ~inserted
    /\ op' \in [fn : Fns \cup (IF Csrs = {} THEN {} ELSE {"csr"}), stage : {"issued"},
                illegal : {FALSE}]
    /\ Cycle(NoWrite) /\ KeepStatus /\ UNCHANGED inserted

Executing(fn) == op.fn = fn /\ op.stage = "issued" /\ ~inserted
Finished(illegal) == op' = [op EXCEPT !.stage = "finished", !.illegal = illegal]

\* CSR unit, under the side effect guard: the access, or an illegal instruction
AccessCsr ==
    /\ Executing("csr")
    /\ \E w \in Writes :
          IF CsrAllowed(w.csr)
          THEN Cycle(w) /\ Registers(StatusAfter(w), priv_mode) /\ Finished(FALSE)
          ELSE Cycle(NoWrite) /\ KeepStatus /\ Finished(TRUE)
    /\ UNCHANGED inserted

IllegalMret == priv_mode # "M"
IllegalSret == priv_mode = "U" \/ (priv_mode = "S" /\ mstatus.tsr)
IllegalWfi == priv_mode = "U" \/ (priv_mode # "M" /\ mstatus.tw)

\* privileged unit, under the side effect guard
Mret ==
    /\ Executing("mret")
    /\ IF IllegalMret THEN KeepStatus ELSE Registers(MretStatus, mstatus.mpp)
    /\ Finished(IllegalMret)
    /\ Cycle(NoWrite) /\ UNCHANGED inserted

Sret ==
    /\ Executing("sret")
    /\ IF IllegalSret THEN KeepStatus
       ELSE Registers(SretStatus, IF mstatus.spp THEN "S" ELSE "U")
    /\ Finished(IllegalSret)
    /\ Cycle(NoWrite) /\ UNCHANGED inserted

\* WFI runs again in every cycle until an interrupt is pending
WfiEnds == IllegalWfi \/ WfiResume
Wfi ==
    /\ Executing("wfi")
    /\ IF WfiEnds THEN Finished(IllegalWfi) ELSE UNCHANGED op
    /\ Cycle(NoWrite) /\ KeepStatus /\ UNCHANGED inserted

\* the result: an illegal instruction, the interrupt it let in, or resume_core
Complete ==
    /\ op.stage = "finished" /\ ~op.illegal
    /\ op' = NoOp
    /\ inserted' = InterruptInsert
    /\ Cycle(NoWrite) /\ KeepStatus

\* a jump older than whatever is in flight reports the interrupt
JumpReports ==
    /\ op.stage # "finished" /\ ~inserted
    /\ InterruptInsert
    /\ inserted' = TRUE
    /\ Cycle(NoWrite) /\ KeepStatus /\ UNCHANGED op

\* the report was on a wrong path, with what followed it
RolledBack ==
    /\ inserted
    /\ inserted' = FALSE /\ op' = NoOp
    /\ Cycle(NoWrite) /\ KeepStatus

TakeTrap(target) ==
    /\ Registers(StatusEntered(target), target)
    /\ op' = NoOp /\ inserted' = FALSE
    /\ Cycle(NoWrite)

TakeInterrupt == inserted /\ TakeTrap(InterruptTarget)

\* an exception of an instruction that is older than the report, or of op
TakeException ==
    /\ op.stage = "finished" => op.illegal
    /\ \E delegated \in BOOLEAN : TakeTrap(ExceptionTarget(delegated))

Quiet == Cycle(NoWrite) /\ KeepStatus /\ UNCHANGED <<op, inserted>>

Next ==
    \/ Issue \/ AccessCsr \/ Mret \/ Sret \/ Wfi \/ Complete
    \/ JumpReports \/ RolledBack \/ TakeInterrupt \/ TakeException \/ Quiet

Spec == Init /\ [][Next]_vars

-----------------------------------------------------------------------------
(***************************************************************************)
(* Types; also, no bit is ever pending or enabled that its mask excludes.  *)
(***************************************************************************)
TypeOK ==
    /\ report \subseteq Irqs \ Edge /\ timer \in BOOLEAN
    /\ mie \subseteq MieWriteable /\ mideleg \subseteq MidelegWriteable
    /\ mip \subseteq MipWriteable \cup Edge
    /\ priv_mode \in {"U", "S", "M"} /\ mstatus \in Status
    /\ interrupt_cause \in Irqs \cup {"none"}
    /\ op.stage \in {"none", "issued", "finished"} /\ inserted \in BOOLEAN

(***************************************************************************)
(* An interrupt that is taken, cycles after it was reported and with       *)
(* inputs that changed since, is one whose enables hold now: the latched   *)
(* cause is a real one, is enabled in mie, and its target may interrupt    *)
(* the current mode (a trap never lowers the privilege: the assertion in   *)
(* entry).                                                                 *)
(***************************************************************************)
TakenInterruptEnabled ==
    inserted =>
        /\ interrupt_cause \in mie
        /\ Level[InterruptTarget] >= Level[priv_mode]
        /\ InterruptTarget = priv_mode =>
              IF priv_mode = "M" THEN mstatus.mie ELSE mstatus.sie

(***************************************************************************)
(* MPRV is on in machine mode only (the assertion in CSRInstances), over   *)
(* every sequence of writes, traps and returns.                            *)
(***************************************************************************)
MprvOnlyInMachine == mstatus.mprv => priv_mode = "M"

(***************************************************************************)
(* A trap never lowers the privilege level, also an exception that medeleg *)
(* gives to S (the assertion in the entry transaction).                    *)
(***************************************************************************)
TrapNeverLowers == (TakeException \/ TakeInterrupt) => Level[priv_mode'] >= Level[priv_mode]

(***************************************************************************)
(* An edge is never lost: one that arrives in the cycle in which software  *)
(* writes mip or sip is still pending afterwards.                          *)
(***************************************************************************)
EdgesKept == edges_owed \ (IF SstcTimer THEN {"STI"} ELSE {}) \subseteq mip

(***************************************************************************)
(* A level input never sticks: what is pending in the register was an edge *)
(* or was set by software, whatever set and clear instructions read.       *)
(***************************************************************************)
LevelsNeverStick == mip \ (Edge \cup {"STI"}) \subseteq written

(***************************************************************************)
(* Software in S mode reaches only what is delegated to it: a step that    *)
(* starts below machine mode leaves the other enable and pending bits.     *)
(***************************************************************************)
SupervisorConfined ==
    priv_mode # "M" =>
         /\ mie' \ mideleg = mie \ mideleg
         /\ mideleg' = mideleg
         /\ mip \ mideleg \subseteq mip' \cup {"STI"}

(***************************************************************************)
(* What liveness is about (MCComponentsLive): the core takes the exception *)
(* that an illegal instruction raised; a WFI could go on.                  *)
(***************************************************************************)
TakesException == op.illegal /\ TakeException
Waiting == op.fn = "wfi" /\ op.stage = "issued" /\ WfiResume
=============================================================================
