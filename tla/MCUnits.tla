------------------------------ MODULE MCUnits -------------------------------
(***************************************************************************)
(* The instances of the privileged state (interrupt controller, CSR unit,  *)
(* PLIC, CLINT), of the arithmetic units and of the branch prediction      *)
(* structures that TLC checks together. A behaviour is about one of them,  *)
(* named by part; the variables of the other modules stay at 0.            *)
(***************************************************************************)
EXTENDS Integers, Sequences

VARIABLES
    part,   \* the instance this behaviour is about
    report, timer, mie, mip, mideleg, priv_mode, mstatus, interrupt_cause, op, inserted,
    edges_owed, written,
    reserved, instr, done, exception, current_result, scratch, counter, mcounteren,
    scounteren, mode, guard, active, seen, answer,
    interrupts, pending, processing, enable, context_treshold, interrupt_priority, eip,
    selected, claim_response, service,
    mtime, mtimecmp, ipi, setting, old, new,
    ready, dividend, divisor, quotient, remainder, stage, params, divPending, pushed,
    mul, mulParams, mulPending, mulPushed,
    v1, v2, partial, leafBusy, zbcParams, zbcPending, zbcPushed,
    entries, tree, req, trained, recent,
    mem, sp, count, top, readData, saved, stack, savedStack, disturbed, lost,
    plruTree, plruRecent,
    block, prediction, ret

Delegation == INSTANCE InterruptController WITH Irqs <- {"MTI", "SEI"},
    AllDelegable <- FALSE, SstcTimer <- FALSE, Csrs <- {"mie", "mideleg"},
    Fns <- {"mret"}
Privilege == INSTANCE InterruptController WITH Irqs <- {"SEI"}, AllDelegable <- FALSE,
    SstcTimer <- FALSE, Csrs <- {"mstatus", "sstatus"}, Fns <- {"mret", "sret"}
Pending == INSTANCE InterruptController WITH Irqs <- {"SSI", "SEI"},
    AllDelegable <- FALSE, SstcTimer <- FALSE, Csrs <- {"mip", "sip", "mideleg"},
    Fns <- {"mret"}
Halves == INSTANCE CsrUnit WITH XLen <- 2, Csrs <- {"low", "high"}, Operands <- {2, 3},
    RoBits <- 0, HwWrites <- {}, Counting <- TRUE
Rights == INSTANCE CsrUnit WITH XLen <- 1,
    Csrs <- {"ulow", "mcounteren", "scounteren", "missing"}, Operands <- {0, 1},
    RoBits <- 0, HwWrites <- {}, Counting <- FALSE
Scratch == INSTANCE CsrUnit WITH XLen <- 3, Csrs <- {"scratch"}, Operands <- {0, 3, 6},
    RoBits <- 3, HwWrites <- {0, 5}, Counting <- FALSE
Claims == INSTANCE PLIC WITH N <- 2, Contexts <- {"m", "s"}, MaxPriority <- 1,
    EnableSets <- {{}, {1, 2}}, Orderly <- FALSE
Service == INSTANCE PLIC WITH N <- 2, Contexts <- {"m"}, MaxPriority <- 2,
    EnableSets <- {{1, 2}}, Orderly <- TRUE
Timer == INSTANCE CLINT WITH W <- 3
Division == INSTANCE DivUnit WITH XLen <- 4, Ipc <- 3, Words <- {0, 1, 3, 7, 8, 9, 15},
    RobIds <- {"a", "b"}, pending <- divPending
Shift == INSTANCE MulUnit WITH MulType <- "shift", XLen <- 3, DspWidth <- 1,
    DspNumber <- 1, Words <- {0, 1, 3, 4, 7}, RobIds <- {"a"}, params <- mulParams,
    pending <- mulPending, pushed <- mulPushed
Sequence == INSTANCE MulUnit WITH MulType <- "sequence", XLen <- 4, DspWidth <- 2,
    DspNumber <- 1, Words <- {0, 6, 8, 15}, RobIds <- {"a"}, params <- mulParams,
    pending <- mulPending, pushed <- mulPushed
Pipelined == INSTANCE MulUnit WITH MulType <- "pipelined", XLen <- 4, DspWidth <- 3,
    DspNumber <- 7, Words <- {7, 15}, RobIds <- {"a", "b"}, params <- mulParams,
    pending <- mulPending, pushed <- mulPushed
Steps == INSTANCE MulUnit WITH MulType <- "pipelined", XLen <- 6, DspWidth <- 2,
    DspNumber <- 4, Words <- {27, 63}, RobIds <- {"a"}, params <- mulParams,
    pending <- mulPending, pushed <- mulPushed
Recursive == INSTANCE MulUnit WITH MulType <- "recursive", XLen <- 6, DspWidth <- 3,
    DspNumber <- 1, Words <- {0, 27, 32, 63}, RobIds <- {"a"}, params <- mulParams,
    pending <- mulPending, pushed <- mulPushed
Clmul == INSTANCE ZbcUnit WITH XLen <- 4, Depth <- 1, Words <- {0, 5, 8, 13, 15},
    RobIds <- {"a"}, params <- zbcParams, pending <- zbcPending, pushed <- zbcPushed
Btb == INSTANCE MicroBTB WITH EntriesLog <- 1, UsefulMax <- 1,
    Blocks <- {"a", "b", "c"}, Targets <- {1, 2}
Ras == INSTANCE ReturnAddressStack WITH Depth <- 3, Addrs <- {1, 2}
Plru == INSTANCE TreePLRU WITH WaysLog <- 3, Ports <- 2, tree <- plruTree,
    recent <- plruRecent
Pairs == INSTANCE PredictionChecker WITH FetchWidth <- 2,
    Opcodes <- {"JAL", "BRANCH", "compressed", "other"}, Forward <- {6},
    Backward <- {4}, FbPc <- 16
Fours == INSTANCE PredictionChecker WITH FetchWidth <- 4, Opcodes <- {"BRANCH"},
    Forward <- {}, Backward <- {4}, FbPc <- 16

ASSUME InstancesAssumption ==
    /\ Delegation!InterruptAssumption /\ Privilege!InterruptAssumption
    /\ Pending!InterruptAssumption /\ Halves!CsrAssumption /\ Rights!CsrAssumption
    /\ Scratch!CsrAssumption /\ Claims!PlicAssumption /\ Service!PlicAssumption
    /\ Timer!ClintAssumption /\ Division!DivAssumption /\ Shift!MultiplierAssumption
    /\ Shift!WordsAssumption /\ Sequence!MultiplierAssumption
    /\ Sequence!WordsAssumption /\ Pipelined!MultiplierAssumption
    /\ Pipelined!WordsAssumption /\ Steps!MultiplierAssumption
    /\ Steps!WordsAssumption /\ Recursive!MultiplierAssumption
    /\ Recursive!WordsAssumption /\ Clmul!ZbcAssumption /\ Btb!BtbAssumption
    /\ Ras!RasAssumption /\ Plru!PlruAssumption /\ Pairs!CheckerAssumption
    /\ Fours!CheckerAssumption

\* The variables of a module while another one runs.
InterruptControllerIdle ==
    /\ report = 0 /\ timer = 0 /\ mie = 0 /\ mip = 0 /\ mideleg = 0 /\ priv_mode = 0
    /\ mstatus = 0 /\ interrupt_cause = 0 /\ op = 0 /\ inserted = 0
    /\ edges_owed = 0 /\ written = 0
CsrUnitIdle ==
    /\ reserved = 0 /\ instr = 0 /\ done = 0 /\ exception = 0 /\ current_result = 0
    /\ scratch = 0 /\ counter = 0 /\ mcounteren = 0 /\ scounteren = 0 /\ mode = 0
    /\ guard = 0 /\ active = 0 /\ seen = 0 /\ answer = 0
PLICIdle ==
    /\ interrupts = 0 /\ pending = 0 /\ processing = 0 /\ enable = 0
    /\ context_treshold = 0 /\ interrupt_priority = 0 /\ eip = 0 /\ selected = 0
    /\ claim_response = 0 /\ service = 0
CLINTIdle ==
    /\ mtime = 0 /\ mtimecmp = 0 /\ ipi = 0 /\ setting = 0 /\ old = 0 /\ new = 0
DivUnitIdle ==
    /\ ready = 0 /\ dividend = 0 /\ divisor = 0 /\ quotient = 0 /\ remainder = 0
    /\ stage = 0 /\ params = 0 /\ divPending = 0 /\ pushed = 0
MulUnitIdle ==
    /\ mul = 0 /\ mulParams = 0 /\ mulPending = 0 /\ mulPushed = 0
ZbcUnitIdle ==
    /\ v1 = 0 /\ v2 = 0 /\ partial = 0 /\ leafBusy = 0 /\ zbcParams = 0
    /\ zbcPending = 0 /\ zbcPushed = 0
MicroBTBIdle ==
    /\ entries = 0 /\ tree = 0 /\ req = 0 /\ trained = 0 /\ recent = 0
ReturnAddressStackIdle ==
    /\ mem = 0 /\ sp = 0 /\ count = 0 /\ top = 0 /\ readData = 0 /\ saved = 0
    /\ stack = 0 /\ savedStack = 0 /\ disturbed = 0 /\ lost = 0
TreePLRUIdle ==
    /\ plruTree = 0 /\ plruRecent = 0
PredictionCheckerIdle ==
    /\ block = 0 /\ prediction = 0 /\ ret = 0

InterruptControllerVars == <<report, timer, mie, mip, mideleg, priv_mode, mstatus,
    interrupt_cause, op, inserted, edges_owed, written>>
CsrUnitVars == <<reserved, instr, done, exception, current_result, scratch, counter,
    mcounteren, scounteren, mode, guard, active, seen, answer>>
PLICVars == <<interrupts, pending, processing, enable, context_treshold,
    interrupt_priority, eip, selected, claim_response, service>>
CLINTVars == <<mtime, mtimecmp, ipi, setting, old, new>>
DivUnitVars == <<ready, dividend, divisor, quotient, remainder, stage, params,
    divPending, pushed>>
MulUnitVars == <<mul, mulParams, mulPending, mulPushed>>
ZbcUnitVars == <<v1, v2, partial, leafBusy, zbcParams, zbcPending, zbcPushed>>
MicroBTBVars == <<entries, tree, req, trained, recent>>
ReturnAddressStackVars == <<mem, sp, count, top, readData, saved, stack, savedStack,
    disturbed, lost>>
TreePLRUVars == <<plruTree, plruRecent>>
PredictionCheckerVars == <<block, prediction, ret>>

Init ==
    \/ /\ \/ part = "Delegation" /\ Delegation!Init
          \/ part = "Privilege"  /\ Privilege!Init
          \/ part = "Pending"    /\ Pending!Init
       /\ CsrUnitIdle /\ PLICIdle /\ CLINTIdle /\ DivUnitIdle /\ MulUnitIdle
       /\ ZbcUnitIdle /\ MicroBTBIdle /\ ReturnAddressStackIdle /\ TreePLRUIdle
       /\ PredictionCheckerIdle
    \/ /\ \/ part = "Halves"  /\ Halves!Init
          \/ part = "Rights"  /\ Rights!Init
          \/ part = "Scratch" /\ Scratch!Init
       /\ InterruptControllerIdle /\ PLICIdle /\ CLINTIdle /\ DivUnitIdle
       /\ MulUnitIdle /\ ZbcUnitIdle /\ MicroBTBIdle /\ ReturnAddressStackIdle
       /\ TreePLRUIdle /\ PredictionCheckerIdle
    \/ /\ \/ part = "Claims"  /\ Claims!Init
          \/ part = "Service" /\ Service!Init
       /\ InterruptControllerIdle /\ CsrUnitIdle /\ CLINTIdle /\ DivUnitIdle
       /\ MulUnitIdle /\ ZbcUnitIdle /\ MicroBTBIdle /\ ReturnAddressStackIdle
       /\ TreePLRUIdle /\ PredictionCheckerIdle
    \/ /\ \/ part = "Timer" /\ Timer!Init
       /\ InterruptControllerIdle /\ CsrUnitIdle /\ PLICIdle /\ DivUnitIdle
       /\ MulUnitIdle /\ ZbcUnitIdle /\ MicroBTBIdle /\ ReturnAddressStackIdle
       /\ TreePLRUIdle /\ PredictionCheckerIdle
    \/ /\ \/ part = "Division" /\ Division!Init
       /\ InterruptControllerIdle /\ CsrUnitIdle /\ PLICIdle /\ CLINTIdle
       /\ MulUnitIdle /\ ZbcUnitIdle /\ MicroBTBIdle /\ ReturnAddressStackIdle
       /\ TreePLRUIdle /\ PredictionCheckerIdle
    \/ /\ \/ part = "Shift"     /\ Shift!Init
          \/ part = "Sequence"  /\ Sequence!Init
          \/ part = "Pipelined" /\ Pipelined!Init
          \/ part = "Steps"     /\ Steps!Init
          \/ part = "Recursive" /\ Recursive!Init
       /\ InterruptControllerIdle /\ CsrUnitIdle /\ PLICIdle /\ CLINTIdle
       /\ DivUnitIdle /\ ZbcUnitIdle /\ MicroBTBIdle /\ ReturnAddressStackIdle
       /\ TreePLRUIdle /\ PredictionCheckerIdle
    \/ /\ \/ part = "Clmul" /\ Clmul!Init
       /\ InterruptControllerIdle /\ CsrUnitIdle /\ PLICIdle /\ CLINTIdle
       /\ DivUnitIdle /\ MulUnitIdle /\ MicroBTBIdle /\ ReturnAddressStackIdle
       /\ TreePLRUIdle /\ PredictionCheckerIdle
    \/ /\ \/ part = "Btb" /\ Btb!Init
       /\ InterruptControllerIdle /\ CsrUnitIdle /\ PLICIdle /\ CLINTIdle
       /\ DivUnitIdle /\ MulUnitIdle /\ ZbcUnitIdle /\ ReturnAddressStackIdle
       /\ TreePLRUIdle /\ PredictionCheckerIdle
    \/ /\ \/ part = "Ras" /\ Ras!Init
       /\ InterruptControllerIdle /\ CsrUnitIdle /\ PLICIdle /\ CLINTIdle
       /\ DivUnitIdle /\ MulUnitIdle /\ ZbcUnitIdle /\ MicroBTBIdle /\ TreePLRUIdle
       /\ PredictionCheckerIdle
    \/ /\ \/ part = "Plru" /\ Plru!Init
       /\ InterruptControllerIdle /\ CsrUnitIdle /\ PLICIdle /\ CLINTIdle
       /\ DivUnitIdle /\ MulUnitIdle /\ ZbcUnitIdle /\ MicroBTBIdle
       /\ ReturnAddressStackIdle /\ PredictionCheckerIdle
    \/ /\ \/ part = "Pairs" /\ Pairs!Init
          \/ part = "Fours" /\ Fours!Init
       /\ InterruptControllerIdle /\ CsrUnitIdle /\ PLICIdle /\ CLINTIdle
       /\ DivUnitIdle /\ MulUnitIdle /\ ZbcUnitIdle /\ MicroBTBIdle
       /\ ReturnAddressStackIdle /\ TreePLRUIdle

Next ==
    /\ UNCHANGED part
    /\ \/ /\ \/ part = "Delegation" /\ Delegation!Next
             \/ part = "Privilege"  /\ Privilege!Next
             \/ part = "Pending"    /\ Pending!Next
          /\ UNCHANGED <<CsrUnitVars, PLICVars, CLINTVars, DivUnitVars, MulUnitVars,
                         ZbcUnitVars, MicroBTBVars, ReturnAddressStackVars,
                         TreePLRUVars, PredictionCheckerVars>>
       \/ /\ \/ part = "Halves"  /\ Halves!Next
             \/ part = "Rights"  /\ Rights!Next
             \/ part = "Scratch" /\ Scratch!Next
          /\ UNCHANGED <<InterruptControllerVars, PLICVars, CLINTVars, DivUnitVars,
                         MulUnitVars, ZbcUnitVars, MicroBTBVars, ReturnAddressStackVars,
                         TreePLRUVars, PredictionCheckerVars>>
       \/ /\ \/ part = "Claims"  /\ Claims!Next
             \/ part = "Service" /\ Service!Next
          /\ UNCHANGED <<InterruptControllerVars, CsrUnitVars, CLINTVars, DivUnitVars,
                         MulUnitVars, ZbcUnitVars, MicroBTBVars, ReturnAddressStackVars,
                         TreePLRUVars, PredictionCheckerVars>>
       \/ /\ \/ part = "Timer" /\ Timer!Next
          /\ UNCHANGED <<InterruptControllerVars, CsrUnitVars, PLICVars, DivUnitVars,
                         MulUnitVars, ZbcUnitVars, MicroBTBVars, ReturnAddressStackVars,
                         TreePLRUVars, PredictionCheckerVars>>
       \/ /\ \/ part = "Division" /\ Division!Next
          /\ UNCHANGED <<InterruptControllerVars, CsrUnitVars, PLICVars, CLINTVars,
                         MulUnitVars, ZbcUnitVars, MicroBTBVars, ReturnAddressStackVars,
                         TreePLRUVars, PredictionCheckerVars>>
       \/ /\ \/ part = "Shift"     /\ Shift!Next
             \/ part = "Sequence"  /\ Sequence!Next
             \/ part = "Pipelined" /\ Pipelined!Next
             \/ part = "Steps"     /\ Steps!Next
             \/ part = "Recursive" /\ Recursive!Next
          /\ UNCHANGED <<InterruptControllerVars, CsrUnitVars, PLICVars, CLINTVars,
                         DivUnitVars, ZbcUnitVars, MicroBTBVars, ReturnAddressStackVars,
                         TreePLRUVars, PredictionCheckerVars>>
       \/ /\ \/ part = "Clmul" /\ Clmul!Next
          /\ UNCHANGED <<InterruptControllerVars, CsrUnitVars, PLICVars, CLINTVars,
                         DivUnitVars, MulUnitVars, MicroBTBVars, ReturnAddressStackVars,
                         TreePLRUVars, PredictionCheckerVars>>
       \/ /\ \/ part = "Btb" /\ Btb!Next
          /\ UNCHANGED <<InterruptControllerVars, CsrUnitVars, PLICVars, CLINTVars,
                         DivUnitVars, MulUnitVars, ZbcUnitVars, ReturnAddressStackVars,
                         TreePLRUVars, PredictionCheckerVars>>
       \/ /\ \/ part = "Ras" /\ Ras!Next
          /\ UNCHANGED <<InterruptControllerVars, CsrUnitVars, PLICVars, CLINTVars,
                         DivUnitVars, MulUnitVars, ZbcUnitVars, MicroBTBVars,
                         TreePLRUVars, PredictionCheckerVars>>
       \/ /\ \/ part = "Plru" /\ Plru!Next
          /\ UNCHANGED <<InterruptControllerVars, CsrUnitVars, PLICVars, CLINTVars,
                         DivUnitVars, MulUnitVars, ZbcUnitVars, MicroBTBVars,
                         ReturnAddressStackVars, PredictionCheckerVars>>
       \/ /\ \/ part = "Pairs" /\ Pairs!Next
             \/ part = "Fours" /\ Fours!Next
          /\ UNCHANGED <<InterruptControllerVars, CsrUnitVars, PLICVars, CLINTVars,
                         DivUnitVars, MulUnitVars, ZbcUnitVars, MicroBTBVars,
                         ReturnAddressStackVars, TreePLRUVars>>

vars == <<part, InterruptControllerVars, CsrUnitVars, PLICVars, CLINTVars, DivUnitVars,
          MulUnitVars, ZbcUnitVars, MicroBTBVars, ReturnAddressStackVars, TreePLRUVars,
          PredictionCheckerVars>>
Spec == Init /\ [][Next]_vars

-----------------------------------------------------------------------------
(***************************************************************************)
(* An interrupt is only inserted while it is enabled at its level, also    *)
(* after the writes and returns that follow; MPRV is on in machine mode    *)
(* only; an edge is not lost and a level does not stick when software      *)
(* writes mip in the cycle in which it arrives (interrupt_controller.py,   *)
(* csr_instances.py).                                                      *)
(***************************************************************************)
InterruptsRight ==
    /\ part = "Delegation" => Delegation!TypeOK /\ Delegation!TakenInterruptEnabled
    /\ part = "Privilege" => Privilege!TakenInterruptEnabled /\ Privilege!MprvOnlyInMachine
    /\ part = "Pending" => Pending!EdgesKept /\ Pending!LevelsNeverStick

(***************************************************************************)
(* What no step does: a trap does not lower the privilege, software below  *)
(* machine mode does not touch what is not delegated to it, a write to one *)
(* half of a counter does not disturb the other, and the branch target     *)
(* buffer does not replace an entry that was used recently.                *)
(***************************************************************************)
StepsConfined ==
    [][ /\ part = "Privilege" => Privilege!TrapNeverLowers
        /\ part = "Pending" => Pending!SupervisorConfined
        /\ part = "Halves" => Halves!HalfWrites
        /\ part = "Btb" => Btb!RecentSurvives ]_vars

(***************************************************************************)
(* A CSR instruction reads, modifies and writes in one step and once, or   *)
(* not at all when it is illegal or flushed, whatever hardware writes and  *)
(* whatever changes while it waits (csr_unit.py, csr_register.py).         *)
(***************************************************************************)
CsrExact ==
    /\ part = "Halves" => Halves!TypeOK /\ Halves!ReadModifyWrite
    /\ part = "Rights" => Rights!IllegalExactly /\ Rights!WritesOnce
    /\ part = "Scratch" => /\ Scratch!ReadModifyWrite /\ Scratch!WritesOnce
                           /\ Scratch!RoBitsFromHardware

(***************************************************************************)
(* Platform interrupts: an event is claimed once although the selection is *)
(* a cycle old, a gateway stays closed only while the interrupt is in      *)
(* service (plic.py), and moving mtimecmp word by word gives no timer      *)
(* interrupt that neither value asks for (clint.py).                       *)
(***************************************************************************)
PlatformInterruptsRight ==
    /\ part = "Claims" => Claims!TypeOK /\ Claims!ClaimedOnce
    /\ part = "Service" => Service!GatewaysOpen /\ Service!ClaimedOnce
    /\ part = "Timer" => Timer!TypeOK /\ Timer!NoSpuriousTimer

(***************************************************************************)
(* The arithmetic units implement FunctionUnit: results leave in issue     *)
(* order, each under the rob_id of its own instruction and with the value  *)
(* the instruction set defines, whichever multiplier is built in           *)
(* (div_unit.py, mul_unit.py, unsigned_multiplication/, zbc.py).           *)
(***************************************************************************)
ResultsAsSpecified ==
    /\ part = "Division" => Division!Unit!Init
    /\ part = "Clmul" => Clmul!Unit!Init
    /\ [][ /\ part = "Division" => Division!UnitStep
           /\ part = "Shift" => Shift!UnitStep
           /\ part = "Sequence" => Sequence!UnitStep
           /\ part = "Pipelined" => Pipelined!UnitStep
           /\ part = "Steps" => Steps!UnitStep
           /\ part = "Recursive" => Recursive!UnitStep
           /\ part = "Clmul" => Clmul!UnitStep ]_vars

(***************************************************************************)
(* Branch prediction: the target buffer answers with a target it was       *)
(* trained with, the return address stack with the matching call also      *)
(* after a recovery, the victim of PLRU was not used recently, and the     *)
(* checker of the fetch unit leaves a block through an instruction that is *)
(* there and runs past no jump (micro_btb.py, ras.py, plru.py, fetch.py).  *)
(***************************************************************************)
PredictionsRight ==
    /\ part = "Btb" => Btb!TypeOK /\ Btb!OneHot /\ Btb!PredictsTrained
    /\ part = "Ras" => Ras!TypeOK /\ Ras!ReturnsMatchCalls /\ Ras!EntriesKept
    /\ part = "Plru" => Plru!VictimNotRecent /\ Plru!VictimsCoverAll
    /\ part = "Pairs" => Pairs!ExitIsReal /\ Pairs!PredictorTrusted
    /\ part = "Fours" => /\ Fours!ExitIsReal /\ Fours!NoJumpSkipped
                         /\ Fours!PredictorTrusted
=============================================================================
