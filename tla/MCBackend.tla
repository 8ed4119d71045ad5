----------------------------- MODULE MCBackend ------------------------------
(***************************************************************************)
(* The instances of the commit window (reorder buffer, side effects,       *)
(* exception reports, retirement) and of operand delivery (register file,  *)
(* reservation stations, wakeup) that TLC checks together. A behaviour is  *)
(* about one of them, named by part; the variables of the other module     *)
(* stay at 0.                                                              *)
(***************************************************************************)
EXTENDS Naturals

VARIABLES
    part,   \* the instance this behaviour is about
    start, count, slot, done, pure, exception, results, tags_head, tags_tail,
    active_tags, last_issued_tag, next_tag_increment, rollback_just_started,
    sched_stale, sched_fresh, unsafe, report_fifo, eir, fsm,
    next, frat, rrat, freelist, saved, wrongpath, inactive, flushing, rob, odDone,
    instr, queue, picked, rs, alloc, executing, valids, entries

Wide == INSTANCE CommitWindow WITH RobSize <- 3, NTags <- 2, FrontendWidth <- 2,
    RetireWidth <- 2, MaxSched <- 1, Kinds <- {"alu", "branch", "store"},
    Outcomes <- {"mispredict", "fault"}
Interrupted == INSTANCE CommitWindow WITH RobSize <- 3, NTags <- 2, FrontendWidth <- 2,
    RetireWidth <- 2, MaxSched <- 1, Kinds <- {"alu", "branch", "csr"},
    Outcomes <- {"mispredict", "async"}
Reports == INSTANCE CommitWindow WITH RobSize <- 3, NTags <- 2, FrontendWidth <- 1,
    RetireWidth <- 1, MaxSched <- 1, Kinds <- {"branch", "load"},
    Outcomes <- {"mispredict", "fault"}
Tags == INSTANCE CommitWindow WITH RobSize <- 3, NTags <- 4, FrontendWidth <- 2,
    RetireWidth <- 2, MaxSched <- 1, Kinds <- {"branch"}, Outcomes <- {"mispredict"}
\* Operand delivery, for any value of its parameters, which the record k holds.
Operands(k) == INSTANCE OperandDelivery WITH K <- k.instrs, P <- k.regs, Width <- k.width,
    Ways <- k.ways, NE <- k.rows, MainOps <- k.mainOps, FifoOps <- k.fifoOps,
    TwoSources <- k.twoSources, Traps <- k.traps, done <- odDone

\* The parameters of the instances that are checked.
Main == [instrs |-> 3, regs |-> 2, width |-> 2, ways |-> 2, rows |-> 2,
         mainOps |-> {"alu", "jb"}, fifoOps |-> {"alu"}, twoSources |-> TRUE, traps |-> FALSE]
Stall == [instrs |-> 3, regs |-> 3, width |-> 2, ways |-> 1, rows |-> 1,
          mainOps |-> {"alu", "jb"}, fifoOps |-> {"mem"}, twoSources |-> FALSE, traps |-> FALSE]
Trapping == [instrs |-> 3, regs |-> 2, width |-> 2, ways |-> 1, rows |-> 2,
             mainOps |-> {"alu"}, fifoOps |-> {"mem"}, twoSources |-> FALSE, traps |-> TRUE]

ASSUME InstancesAssumption ==
    /\ Wide!CommitWindowAssumption /\ Interrupted!CommitWindowAssumption
    /\ Reports!CommitWindowAssumption /\ Tags!CommitWindowAssumption
    /\ Operands(Main)!OperandAssumption /\ Operands(Stall)!OperandAssumption
    /\ Operands(Trapping)!OperandAssumption

\* The variables of a module while another one runs.
CommitWindowIdle ==
    /\ start = 0 /\ count = 0 /\ slot = 0 /\ done = 0 /\ pure = 0 /\ exception = 0
    /\ results = 0 /\ tags_head = 0 /\ tags_tail = 0 /\ active_tags = 0
    /\ last_issued_tag = 0 /\ next_tag_increment = 0 /\ rollback_just_started = 0
    /\ sched_stale = 0 /\ sched_fresh = 0 /\ unsafe = 0 /\ report_fifo = 0
    /\ eir = 0 /\ fsm = 0
OperandDeliveryIdle ==
    /\ next = 0 /\ frat = 0 /\ rrat = 0 /\ freelist = 0 /\ saved = 0
    /\ wrongpath = 0 /\ inactive = 0 /\ flushing = 0 /\ rob = 0 /\ odDone = 0
    /\ instr = 0 /\ queue = 0 /\ picked = 0 /\ rs = 0 /\ alloc = 0 /\ executing = 0
    /\ valids = 0 /\ entries = 0

CommitWindowVars == <<start, count, slot, done, pure, exception, results, tags_head,
    tags_tail, active_tags, last_issued_tag, next_tag_increment, rollback_just_started,
    sched_stale, sched_fresh, unsafe, report_fifo, eir, fsm>>
OperandDeliveryVars == <<next, frat, rrat, freelist, saved, wrongpath, inactive,
    flushing, rob, odDone, instr, queue, picked, rs, alloc, executing, valids, entries>>

Init ==
    \/ /\ \/ part = "Wide"        /\ Wide!Init
          \/ part = "Interrupted" /\ Interrupted!Init
          \/ part = "Reports"     /\ Reports!Init
          \/ part = "Tags"        /\ Tags!Init
       /\ OperandDeliveryIdle
    \/ /\ \/ part = "Main"     /\ Operands(Main)!Init
          \/ part = "Stall"    /\ Operands(Stall)!Init
          \/ part = "Trapping" /\ Operands(Trapping)!Init
       /\ CommitWindowIdle

Next ==
    /\ UNCHANGED part
    /\ \/ /\ \/ part = "Wide"        /\ Wide!Next
             \/ part = "Interrupted" /\ Interrupted!Next
             \/ part = "Reports"     /\ Reports!Next
             \/ part = "Tags"        /\ Tags!Next
          /\ UNCHANGED <<OperandDeliveryVars>>
       \/ /\ \/ part = "Main"     /\ Operands(Main)!Next
             \/ part = "Stall"    /\ Operands(Stall)!Next
             \/ part = "Trapping" /\ Operands(Trapping)!Next
          /\ UNCHANGED <<CommitWindowVars>>

vars == <<part, CommitWindowVars, OperandDeliveryVars>>
Spec == Init /\ [][Next]_vars

-----------------------------------------------------------------------------
(***************************************************************************)
(* Side effects are released in order, only for instructions that retire,  *)
(* and none is lost (retirement.py, precommit and the side effects guard). *)
(***************************************************************************)
SideEffectsKept ==
    /\ part = "Wide" => Wide!SideEffectsKept /\ Wide!NoLateResult
    /\ part = "Interrupted" => Interrupted!SideEffectsKept /\ Interrupted!NoLateResult

(***************************************************************************)
(* The exception register holds the report of the oldest instruction that  *)
(* faulted, never of a ROB entry that was reused meanwhile, and no report  *)
(* of an instruction that retires with an exception is lost, although      *)
(* reports arrive out of order and indices and tags wrap (exception.py).   *)
(***************************************************************************)
ReportsExact ==
    /\ part = "Reports" => Reports!ReportBelongs /\ Reports!NoReportLost
    /\ part = "Wide" => Wide!ReportBelongs /\ Wide!NoReportLost

(***************************************************************************)
(* instret is exact, also as a CSR instruction reads it while older        *)
(* instructions retire beside it, and the tags that Retirement counts are  *)
(* the ones the scheduler gave.                                            *)
(***************************************************************************)
CountsExact ==
    /\ part = "Interrupted" => Interrupted!InstretExact
    /\ part = "Wide" => Wide!InstretExact
    /\ part = "Tags" => Tags!TagsAgree

(***************************************************************************)
(* An instruction computes with the values its producers announced, also   *)
(* when an announcement meets the instruction on its way into a            *)
(* reservation station (rf.py, rs.py, scheduler.py); registers are written *)
(* once and freed valid.                                                   *)
(***************************************************************************)
OperandsRight ==
    /\ part = "Main" => Operands(Main)!OperandsRight /\ Operands(Main)!WrittenOnceFreedValid
    /\ part = "Trapping" => /\ Operands(Trapping)!OperandsRight
                            /\ Operands(Trapping)!WrittenOnceFreedValid

(***************************************************************************)
(* An operand that is not there has a producer that is still to announce   *)
(* it: nothing waits for a value that has passed.                          *)
(***************************************************************************)
WaitersHaveProducers ==
    /\ part = "Main" => Operands(Main)!WaitersHaveProducers
    /\ part = "Stall" => Operands(Stall)!WaitersHaveProducers
    /\ part = "Trapping" => Operands(Trapping)!WaitersHaveProducers
=============================================================================
