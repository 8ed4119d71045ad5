-------------------------- MODULE MCComponentsLive --------------------------
(***************************************************************************)
(* Liveness of the components, on small instances that TLC checks          *)
(* together. A behaviour is about the instance that part names; the        *)
(* variables of the others stay at 0.                                      *)
(***************************************************************************)
EXTENDS Naturals, Sequences

VARIABLES
    part,   \* the instance this behaviour is about
    watched,   \* the waiting of that instance that this behaviour is about
    window, granted, requests, translated, issued, noop, mem, reservation, inProgress,
    op, scFailed, second, secondIssued, loadVal, fwd, archMem, archReservation, wrong,
    fsm, flushIndex, waySelector, readAddr, outputValid, errorSaved, tags, data, args,
    results, line, active, flushing, sending, reqCounter, respCounter, buffer, blockFwd,
    bus, version, since,
    wbFsm, cyc, stb, txn, res, pend, grant, valid, prevCyc, sl, rdFor, execs, turn,
    entries, rr, flushQueue, slow, vpnReq, refilling, asked, tlbSince, late, result,
    asid,
    report, timer, mie, mip, mideleg, priv_mode, mstatus, interrupt_cause, irqOp,
    inserted, edges_owed, written,
    interrupts, pending, processing, enable, context_treshold, interrupt_priority, eip,
    selected, claim_response, service,
    start, count, slot, done, pure, exception, winResults, tags_head, tags_tail,
    active_tags, last_issued_tag, next_tag_increment, rollback_just_started,
    sched_stale, sched_fresh, unsafe, report_fifo, eir, winFsm,
    next, frat, rrat, freelist, saved, wrongpath, inactive, odFlushing, rob, odDone,
    instr, queue, picked, rs, alloc, executing, valids, odEntries,
    alloc_ptr, fetch_ptr, commit_ptr, pred_ptr, train_ptr, entry_gen, pc_mem,
    prediction_mem, jb_unit_prediction_mem, next_fetch_addr, s1_pipe, req_valid,
    ftq_ptr_pipe, fetch_requests, s1_s2_pipe, prev_half, ras_resp, stalled_exception,
    exception_valid, rolled_back, path, due

Watches ==
    CASE part \in {"Lsu", "Cache", "Bus", "Translation"} -> 1
      [] part \in {"Irq", "Operands", "Fetch"} -> 2
      [] part \in {"Plic", "Window"} -> 3

Lsu == INSTANCE LoadStoreUnit WITH Kinds <- {"sc", "amo"}, Wheres <- {"ram", "denied"},
    Modulus <- 1, Window <- 2, Flushes <- TRUE, BusErrors <- TRUE
Cache == INSTANCE InstructionCache WITH Tags <- 2, Sets <- 1, Ways <- 1, Blocks <- 2,
    BlockWords <- 1, Mutable <- {}
Bus == INSTANCE WishboneBus WITH Masters <- {0}, Ports <- {1, 2}, Addrs <- {"a", "b"},
    Slaves <- {"s1", "s2"},
    SlaveOf <- [a \in {"a", "b"} |-> IF a = "a" THEN "s1" ELSE "s2"], Outside <- {},
    Retries <- TRUE, ReadsWait <- TRUE, fsm <- wbFsm
Translation == INSTANCE FullyAssociativeTLB WITH MaxClass <- 0, WordMax <- 1,
    Asids <- {1}, Classes <- {0}, Globals <- {FALSE}, Size <- 1, Ports <- 2,
    FlushDepth <- 1, since <- tlbSince
Irq == INSTANCE InterruptController WITH Irqs <- {"STI"}, AllDelegable <- TRUE,
    SstcTimer <- TRUE, Csrs <- {"mie"}, Fns <- {"mret", "wfi"}, op <- irqOp
Plic == INSTANCE PLIC WITH N <- 2, Contexts <- {"m"}, MaxPriority <- 1,
    EnableSets <- {{1, 2}}, Orderly <- TRUE
Window == INSTANCE CommitWindow WITH RobSize <- 2, NTags <- 2, FrontendWidth <- 1,
    RetireWidth <- 1, MaxSched <- 1, Kinds <- {"branch", "store"},
    Outcomes <- {"mispredict", "fault"}, results <- winResults, fsm <- winFsm
Operands == INSTANCE OperandDelivery WITH K <- 2, P <- 2, Width <- 2, Ways <- 1,
    NE <- 1, MainOps <- {"alu", "jb"}, FifoOps <- {"mem"}, TwoSources <- FALSE,
    Traps <- TRUE, flushing <- odFlushing, done <- odDone, entries <- odEntries
Fetch == INSTANCE FetchTargetQueue WITH FtqSize <- 2, Gens <- 2, MaxInflight <- 2,
    Blocks <- 1, Compressed <- FALSE, Exceptions <- FALSE,
    MayWait <- {"translate", "cache"}, JumpsOverHalf <- FALSE

ASSUME InstancesAssumption ==
    /\ Lsu!LsuAssumption /\ Cache!CacheAssumption /\ Bus!BusAssumption
    /\ Translation!CamAssumption /\ Translation!FullAssumption
    /\ Irq!InterruptAssumption /\ Plic!PlicAssumption
    /\ Window!CommitWindowAssumption /\ Operands!OperandAssumption

\* The variables of a module while another one runs.
LoadStoreUnitIdle ==
    /\ window = 0 /\ granted = 0 /\ requests = 0 /\ translated = 0 /\ issued = 0
    /\ noop = 0 /\ mem = 0 /\ reservation = 0 /\ inProgress = 0 /\ op = 0
    /\ scFailed = 0 /\ second = 0 /\ secondIssued = 0 /\ loadVal = 0 /\ fwd = 0
    /\ archMem = 0 /\ archReservation = 0 /\ wrong = 0
InstructionCacheIdle ==
    /\ fsm = 0 /\ flushIndex = 0 /\ waySelector = 0 /\ readAddr = 0
    /\ outputValid = 0 /\ errorSaved = 0 /\ tags = 0 /\ data = 0 /\ args = 0
    /\ results = 0 /\ line = 0 /\ active = 0 /\ flushing = 0 /\ sending = 0
    /\ reqCounter = 0 /\ respCounter = 0 /\ buffer = 0 /\ blockFwd = 0 /\ bus = 0
    /\ version = 0 /\ since = 0
WishboneBusIdle ==
    /\ wbFsm = 0 /\ cyc = 0 /\ stb = 0 /\ txn = 0 /\ res = 0 /\ pend = 0
    /\ grant = 0 /\ valid = 0 /\ prevCyc = 0 /\ sl = 0 /\ rdFor = 0 /\ execs = 0
    /\ turn = 0
FullyAssociativeTLBIdle ==
    /\ entries = 0 /\ rr = 0 /\ flushQueue = 0 /\ slow = 0 /\ vpnReq = 0
    /\ refilling = 0 /\ asked = 0 /\ tlbSince = 0 /\ late = 0 /\ result = 0
    /\ asid = 0
InterruptControllerIdle ==
    /\ report = 0 /\ timer = 0 /\ mie = 0 /\ mip = 0 /\ mideleg = 0 /\ priv_mode = 0
    /\ mstatus = 0 /\ interrupt_cause = 0 /\ irqOp = 0 /\ inserted = 0
    /\ edges_owed = 0 /\ written = 0
PLICIdle ==
    /\ interrupts = 0 /\ pending = 0 /\ processing = 0 /\ enable = 0
    /\ context_treshold = 0 /\ interrupt_priority = 0 /\ eip = 0 /\ selected = 0
    /\ claim_response = 0 /\ service = 0
CommitWindowIdle ==
    /\ start = 0 /\ count = 0 /\ slot = 0 /\ done = 0 /\ pure = 0 /\ exception = 0
    /\ winResults = 0 /\ tags_head = 0 /\ tags_tail = 0 /\ active_tags = 0
    /\ last_issued_tag = 0 /\ next_tag_increment = 0 /\ rollback_just_started = 0
    /\ sched_stale = 0 /\ sched_fresh = 0 /\ unsafe = 0 /\ report_fifo = 0
    /\ eir = 0 /\ winFsm = 0
OperandDeliveryIdle ==
    /\ next = 0 /\ frat = 0 /\ rrat = 0 /\ freelist = 0 /\ saved = 0
    /\ wrongpath = 0 /\ inactive = 0 /\ odFlushing = 0 /\ rob = 0 /\ odDone = 0
    /\ instr = 0 /\ queue = 0 /\ picked = 0 /\ rs = 0 /\ alloc = 0 /\ executing = 0
    /\ valids = 0 /\ odEntries = 0
FetchTargetQueueIdle ==
    /\ alloc_ptr = 0 /\ fetch_ptr = 0 /\ commit_ptr = 0 /\ pred_ptr = 0
    /\ train_ptr = 0 /\ entry_gen = 0 /\ pc_mem = 0 /\ prediction_mem = 0
    /\ jb_unit_prediction_mem = 0 /\ next_fetch_addr = 0 /\ s1_pipe = 0
    /\ req_valid = 0 /\ ftq_ptr_pipe = 0 /\ fetch_requests = 0 /\ s1_s2_pipe = 0
    /\ prev_half = 0 /\ ras_resp = 0 /\ stalled_exception = 0 /\ exception_valid = 0
    /\ rolled_back = 0 /\ path = 0 /\ due = 0

LoadStoreUnitVars == <<window, granted, requests, translated, issued, noop, mem,
    reservation, inProgress, op, scFailed, second, secondIssued, loadVal, fwd, archMem,
    archReservation, wrong>>
InstructionCacheVars == <<fsm, flushIndex, waySelector, readAddr, outputValid,
    errorSaved, tags, data, args, results, line, active, flushing, sending, reqCounter,
    respCounter, buffer, blockFwd, bus, version, since>>
WishboneBusVars == <<wbFsm, cyc, stb, txn, res, pend, grant, valid, prevCyc, sl, rdFor,
    execs, turn>>
FullyAssociativeTLBVars == <<entries, rr, flushQueue, slow, vpnReq, refilling, asked,
    tlbSince, late, result, asid>>
InterruptControllerVars == <<report, timer, mie, mip, mideleg, priv_mode, mstatus,
    interrupt_cause, irqOp, inserted, edges_owed, written>>
PLICVars == <<interrupts, pending, processing, enable, context_treshold,
    interrupt_priority, eip, selected, claim_response, service>>
CommitWindowVars == <<start, count, slot, done, pure, exception, winResults, tags_head,
    tags_tail, active_tags, last_issued_tag, next_tag_increment, rollback_just_started,
    sched_stale, sched_fresh, unsafe, report_fifo, eir, winFsm>>
OperandDeliveryVars == <<next, frat, rrat, freelist, saved, wrongpath, inactive,
    odFlushing, rob, odDone, instr, queue, picked, rs, alloc, executing, valids,
    odEntries>>
FetchTargetQueueVars == <<alloc_ptr, fetch_ptr, commit_ptr, pred_ptr, train_ptr,
    entry_gen, pc_mem, prediction_mem, jb_unit_prediction_mem, next_fetch_addr, s1_pipe,
    req_valid, ftq_ptr_pipe, fetch_requests, s1_s2_pipe, prev_half, ras_resp,
    stalled_exception, exception_valid, rolled_back, path, due>>

Init ==
    /\ \/ /\ \/ part = "Lsu" /\ Lsu!Init
          /\ InstructionCacheIdle /\ WishboneBusIdle /\ FullyAssociativeTLBIdle
          /\ InterruptControllerIdle /\ PLICIdle /\ CommitWindowIdle
          /\ OperandDeliveryIdle /\ FetchTargetQueueIdle
       \/ /\ \/ part = "Cache" /\ Cache!Init
          /\ LoadStoreUnitIdle /\ WishboneBusIdle /\ FullyAssociativeTLBIdle
          /\ InterruptControllerIdle /\ PLICIdle /\ CommitWindowIdle
          /\ OperandDeliveryIdle /\ FetchTargetQueueIdle
       \/ /\ \/ part = "Bus" /\ Bus!Init
          /\ LoadStoreUnitIdle /\ InstructionCacheIdle /\ FullyAssociativeTLBIdle
          /\ InterruptControllerIdle /\ PLICIdle /\ CommitWindowIdle
          /\ OperandDeliveryIdle /\ FetchTargetQueueIdle
       \/ /\ \/ part = "Translation" /\ Translation!Init
          /\ LoadStoreUnitIdle /\ InstructionCacheIdle /\ WishboneBusIdle
          /\ InterruptControllerIdle /\ PLICIdle /\ CommitWindowIdle
          /\ OperandDeliveryIdle /\ FetchTargetQueueIdle
       \/ /\ \/ part = "Irq" /\ Irq!Init
          /\ LoadStoreUnitIdle /\ InstructionCacheIdle /\ WishboneBusIdle
          /\ FullyAssociativeTLBIdle /\ PLICIdle /\ CommitWindowIdle
          /\ OperandDeliveryIdle /\ FetchTargetQueueIdle
       \/ /\ \/ part = "Plic" /\ Plic!Init
          /\ LoadStoreUnitIdle /\ InstructionCacheIdle /\ WishboneBusIdle
          /\ FullyAssociativeTLBIdle /\ InterruptControllerIdle /\ CommitWindowIdle
          /\ OperandDeliveryIdle /\ FetchTargetQueueIdle
       \/ /\ \/ part = "Window" /\ Window!Init
          /\ LoadStoreUnitIdle /\ InstructionCacheIdle /\ WishboneBusIdle
          /\ FullyAssociativeTLBIdle /\ InterruptControllerIdle /\ PLICIdle
          /\ OperandDeliveryIdle /\ FetchTargetQueueIdle
       \/ /\ \/ part = "Operands" /\ Operands!Init
          /\ LoadStoreUnitIdle /\ InstructionCacheIdle /\ WishboneBusIdle
          /\ FullyAssociativeTLBIdle /\ InterruptControllerIdle /\ PLICIdle
          /\ CommitWindowIdle /\ FetchTargetQueueIdle
       \/ /\ \/ part = "Fetch" /\ Fetch!Init
          /\ LoadStoreUnitIdle /\ InstructionCacheIdle /\ WishboneBusIdle
          /\ FullyAssociativeTLBIdle /\ InterruptControllerIdle /\ PLICIdle
          /\ CommitWindowIdle /\ OperandDeliveryIdle
    /\ watched \in 1..Watches

Next ==
    /\ UNCHANGED <<part, watched>>
    /\ \/ /\ \/ part = "Lsu" /\ Lsu!Next
          /\ UNCHANGED <<InstructionCacheVars, WishboneBusVars, FullyAssociativeTLBVars,
                         InterruptControllerVars, PLICVars, CommitWindowVars,
                         OperandDeliveryVars, FetchTargetQueueVars>>
       \/ /\ \/ part = "Cache" /\ Cache!Next
          /\ UNCHANGED <<LoadStoreUnitVars, WishboneBusVars, FullyAssociativeTLBVars,
                         InterruptControllerVars, PLICVars, CommitWindowVars,
                         OperandDeliveryVars, FetchTargetQueueVars>>
       \/ /\ \/ part = "Bus" /\ Bus!Next
          /\ UNCHANGED <<LoadStoreUnitVars, InstructionCacheVars,
                         FullyAssociativeTLBVars, InterruptControllerVars, PLICVars,
                         CommitWindowVars, OperandDeliveryVars, FetchTargetQueueVars>>
       \/ /\ \/ part = "Translation" /\ Translation!Next
          /\ UNCHANGED <<LoadStoreUnitVars, InstructionCacheVars, WishboneBusVars,
                         InterruptControllerVars, PLICVars, CommitWindowVars,
                         OperandDeliveryVars, FetchTargetQueueVars>>
       \/ /\ \/ part = "Irq" /\ Irq!Next
          /\ UNCHANGED <<LoadStoreUnitVars, InstructionCacheVars, WishboneBusVars,
                         FullyAssociativeTLBVars, PLICVars, CommitWindowVars,
                         OperandDeliveryVars, FetchTargetQueueVars>>
       \/ /\ \/ part = "Plic" /\ Plic!Next
          /\ UNCHANGED <<LoadStoreUnitVars, InstructionCacheVars, WishboneBusVars,
                         FullyAssociativeTLBVars, InterruptControllerVars,
                         CommitWindowVars, OperandDeliveryVars, FetchTargetQueueVars>>
       \/ /\ \/ part = "Window" /\ Window!Next
          /\ UNCHANGED <<LoadStoreUnitVars, InstructionCacheVars, WishboneBusVars,
                         FullyAssociativeTLBVars, InterruptControllerVars, PLICVars,
                         OperandDeliveryVars, FetchTargetQueueVars>>
       \/ /\ \/ part = "Operands" /\ Operands!Next
          /\ UNCHANGED <<LoadStoreUnitVars, InstructionCacheVars, WishboneBusVars,
                         FullyAssociativeTLBVars, InterruptControllerVars, PLICVars,
                         CommitWindowVars, FetchTargetQueueVars>>
       \/ /\ \/ part = "Fetch" /\ Fetch!Next
          /\ UNCHANGED <<LoadStoreUnitVars, InstructionCacheVars, WishboneBusVars,
                         FullyAssociativeTLBVars, InterruptControllerVars, PLICVars,
                         CommitWindowVars, OperandDeliveryVars>>

vars == <<part, watched, LoadStoreUnitVars, InstructionCacheVars, WishboneBusVars,
          FullyAssociativeTLBVars, InterruptControllerVars, PLICVars, CommitWindowVars,
          OperandDeliveryVars, FetchTargetQueueVars>>
Spec == Init /\ [][Next]_vars

(***************************************************************************)
(* Fairness.  A behaviour is about one part for ever, so the k-th weak and *)
(* the k-th strong condition each stand for one action of every part.      *)
(*  Lsu: the core lets the oldest instruction have its side effects and    *)
(*    retire; the unit's transactions run, translation and bus answer.     *)
(*  Cache: lookups, refiller and bus run whenever they can.                *)
(*  Bus: results are taken and a slave does not retry for ever.            *)
(*  Translation: the second level answers; the ports compete for the       *)
(*    semaphore, and the transaction arbiter is a round robin.             *)
(*  Irq: the core runs its instructions and completes jumps, and a path is *)
(*    not rolled back for ever.                                            *)
(*  Plic: the bus answers, and a context that is signalled claims and      *)
(*    completes.                                                           *)
(*  Fetch: memory and decoder do not make a stage wait for ever, and the   *)
(*    backend commits the blocks that were followed by others; no report   *)
(*    and no redirect is forced.                                           *)
(*  Window, Operands: a unit that can act on an instruction acts,          *)
(*    announcement and retirement go on.                                   *)
(***************************************************************************)
Weak(k) ==
    \/ /\ part = "Lsu"
       /\ UNCHANGED <<part, watched, InstructionCacheVars, WishboneBusVars,
                      FullyAssociativeTLBVars, InterruptControllerVars, PLICVars,
                      CommitWindowVars, OperandDeliveryVars, FetchTargetQueueVars>>
       /\ \/ k = 1 /\ Lsu!Grant
          \/ k = 2 /\ Lsu!Retire
          \/ k = 3 /\ Lsu!Translate
          \/ k = 4 /\ \E err \in BOOLEAN : Lsu!IssueRequest(err)
          \/ k = 5 /\ Lsu!FlushRequest
          \/ k = 6 /\ Lsu!AmoStore
          \/ k = 7 /\ Lsu!Deliver
          \/ k = 8 /\ Lsu!ScFail
    \/ /\ part = "Cache"
       /\ UNCHANGED <<part, watched, LoadStoreUnitVars, WishboneBusVars,
                      FullyAssociativeTLBVars, InterruptControllerVars, PLICVars,
                      CommitWindowVars, OperandDeliveryVars, FetchTargetQueueVars>>
       /\ \/ k = 1 /\ Cache!MemReadHit
          \/ k = 2 /\ Cache!MemReadMiss
          \/ k = 3 /\ Cache!AcceptRes
          \/ k = 4 /\ Cache!FlushCycle
          \/ k = 5 /\ Cache!SendRequest
          \/ k = 6 /\ \E err \in BOOLEAN : Cache!ResponseWord(err)
          \/ k = 7 /\ Cache!FlushingEnd
          \/ k = 8 /\ Cache!AcceptRefill
    \/ /\ part = "Bus"
       /\ UNCHANGED <<part, watched, LoadStoreUnitVars, InstructionCacheVars,
                      FullyAssociativeTLBVars, InterruptControllerVars, PLICVars,
                      CommitWindowVars, OperandDeliveryVars, FetchTargetQueueVars>>
       /\ \/ k = 1 /\ Bus!Next
    \/ /\ part = "Translation"
       /\ UNCHANGED <<part, watched, LoadStoreUnitVars, InstructionCacheVars,
                      WishboneBusVars, InterruptControllerVars, PLICVars,
                      CommitWindowVars, OperandDeliveryVars, FetchTargetQueueVars>>
       /\ \/ k = 1 /\ Translation!Flush
          \/ k = 2 /\ Translation!Accept(1)
          \/ k = 3 /\ Translation!Accept(2)
          \/ k = 4 /\ Translation!Answers(1)
          \/ k = 5 /\ Translation!Answers(2)
          \/ k = 6 /\ Translation!AsyncResolve(2)
          \/ k = 7 /\ Translation!RequestRefill(2)
    \/ /\ part = "Irq"
       /\ UNCHANGED <<part, watched, LoadStoreUnitVars, InstructionCacheVars,
                      WishboneBusVars, FullyAssociativeTLBVars, PLICVars,
                      CommitWindowVars, OperandDeliveryVars, FetchTargetQueueVars>>
       /\ \/ k = 1 /\ Irq!Wfi
          \/ k = 2 /\ Irq!Complete
          \/ k = 3 /\ Irq!TakesException
    \/ /\ part = "Plic"
       /\ UNCHANGED <<part, watched, LoadStoreUnitVars, InstructionCacheVars,
                      WishboneBusVars, FullyAssociativeTLBVars, InterruptControllerVars,
                      CommitWindowVars, OperandDeliveryVars, FetchTargetQueueVars>>
       /\ \/ k = 1 /\ Plic!Next
          \/ k = 2 /\ Plic!ClaimAnswered
    \/ /\ part = "Window"
       /\ UNCHANGED <<part, watched, LoadStoreUnitVars, InstructionCacheVars,
                      WishboneBusVars, FullyAssociativeTLBVars, InterruptControllerVars,
                      PLICVars, OperandDeliveryVars, FetchTargetQueueVars>>
       /\ \/ k = 1 /\ Window!Next
          \/ k = 2 /\ Window!Executes(0)
          \/ k = 3 /\ Window!Executes(1)
    \/ /\ part = "Operands"
       /\ UNCHANGED <<part, watched, LoadStoreUnitVars, InstructionCacheVars,
                      WishboneBusVars, FullyAssociativeTLBVars, InterruptControllerVars,
                      PLICVars, CommitWindowVars, FetchTargetQueueVars>>
       /\ \/ k = 1 /\ Operands!Quiet
          \/ k = 2 /\ Operands!Announces
          \/ k = 3 /\ Operands!Retires
          \/ k = 4 /\ Operands!Issues("main")
          \/ k = 5 /\ Operands!Issues("fifo")
    \/ /\ part = "Fetch"
       /\ UNCHANGED <<part, watched, LoadStoreUnitVars, InstructionCacheVars,
                      WishboneBusVars, FullyAssociativeTLBVars, InterruptControllerVars,
                      PLICVars, CommitWindowVars, OperandDeliveryVars>>
       /\ \/ k = 1 /\ Fetch!QuietCycle
          \/ k = 2 /\ Fetch!CommitsMore
Strong(k) ==
    \/ /\ part = "Lsu"
       /\ UNCHANGED <<part, watched, InstructionCacheVars, WishboneBusVars,
                      FullyAssociativeTLBVars, InterruptControllerVars, PLICVars,
                      CommitWindowVars, OperandDeliveryVars, FetchTargetQueueVars>>
       /\ \/ k = 1 /\ Lsu!AcceptIssued
          \/ k = 2 /\ Lsu!AcceptNoop
    \/ /\ part = "Bus"
       /\ UNCHANGED <<part, watched, LoadStoreUnitVars, InstructionCacheVars,
                      FullyAssociativeTLBVars, InterruptControllerVars, PLICVars,
                      CommitWindowVars, OperandDeliveryVars, FetchTargetQueueVars>>
       /\ \/ k = 1 /\ Bus!ResultTaken(0)
          \/ k = 2 /\ Bus!NoRetry
    \/ /\ part = "Translation"
       /\ UNCHANGED <<part, watched, LoadStoreUnitVars, InstructionCacheVars,
                      WishboneBusVars, InterruptControllerVars, PLICVars,
                      CommitWindowVars, OperandDeliveryVars, FetchTargetQueueVars>>
       /\ \/ k = 1 /\ Translation!AsyncResolve(1)
          \/ k = 2 /\ Translation!RequestRefill(1)
    \/ /\ part = "Irq"
       /\ UNCHANGED <<part, watched, LoadStoreUnitVars, InstructionCacheVars,
                      WishboneBusVars, FullyAssociativeTLBVars, PLICVars,
                      CommitWindowVars, OperandDeliveryVars, FetchTargetQueueVars>>
       /\ \/ k = 1 /\ Irq!JumpReports
          \/ k = 2 /\ Irq!TakeInterrupt
    \/ /\ part = "Plic"
       /\ UNCHANGED <<part, watched, LoadStoreUnitVars, InstructionCacheVars,
                      WishboneBusVars, FullyAssociativeTLBVars, InterruptControllerVars,
                      CommitWindowVars, OperandDeliveryVars, FetchTargetQueueVars>>
       /\ \/ k = 1 /\ Plic!Claims("m")
          \/ k = 2 /\ Plic!Completes("m")
FairSpec == /\ Spec
            /\ (\A k \in 1..8 : WF_vars(Weak(k)))
            /\ (\A k \in 1..2 : SF_vars(Strong(k)))

-----------------------------------------------------------------------------
(***************************************************************************)
(* What must not stay so for ever.                                         *)
(*  Lsu: an instruction of the window without an answer                    *)
(*    (lsu_atomic_wrapper.py: an atomic operation never blocks the unit).  *)
(*  Cache: a lookup without a result, unless the cache is flushed          *)
(*    (icache.py, refiller.py: errors and late words).                     *)
(*  Bus: a request that the master put on the bus (wishbone.py: retries).  *)
(*  Translation: a port on the slow path (tlb.py).                         *)
(*  Irq: an interrupt that is enabled, and a WFI that could go on          *)
(*    (interrupt_controller.py, priv.py).                                  *)
(*  Plic: an interrupt in service, and interrupt 1 pending at the highest  *)
(*    priority (plic.py).                                                  *)
(*  Window: the oldest entry of the reorder buffer, and a trap             *)
(*    (retirement.py).                                                     *)
(*  Fetch: the block that is due, also when the queue is full and requests *)
(*    of abandoned paths occupy the fetch unit (ftq.py).                   *)
(*  Operands: an instruction between renaming and retirement (rs.py,       *)
(*    wakeup_select.py, announcement.py).                                  *)
(***************************************************************************)
Waiting ==
    \/ /\ part = "Lsu"
       /\ \/ watched = 1 /\ Lsu!Unanswered(0)
    \/ /\ part = "Cache"
       /\ \/ watched = 1 /\ args # <<>> /\ results = <<>> /\ fsm # "FLUSH"
    \/ /\ part = "Bus"
       /\ \/ watched = 1 /\ Bus!Busy(0, TRUE)
    \/ /\ part = "Translation"
       /\ \/ watched = 1 /\ slow[1]
    \/ /\ part = "Irq"
       /\ \/ watched = 1 /\ Irq!InterruptInsert
          \/ watched = 2 /\ Irq!Waiting
    \/ /\ part = "Plic"
       /\ \/ watched = 1 /\ 1 \in processing \ pending
          \/ watched = 2 /\ 2 \in processing \ pending
          \/ watched = 3 /\ Plic!TopPending
    \/ /\ part = "Window"
       /\ \/ watched = 1 /\ 0 \in Window!Live /\ start = 0
          \/ watched = 2 /\ 1 \in Window!Live /\ start = 1
          \/ watched = 3 /\ winFsm # "NORMAL"
    \/ /\ part = "Operands"
       /\ \/ watched = 1 /\ Operands!InBuffer(1)
          \/ watched = 2 /\ Operands!InBuffer(2)
    \/ /\ part = "Fetch"
       /\ \/ watched = 1 /\ Fetch!Owed(0)
          \/ watched = 2 /\ Fetch!Owed(1)
NothingWaitsForever == Waiting ~> ~Waiting
=============================================================================
