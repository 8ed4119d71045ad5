---------------------------- MODULE MCMemoryPath ----------------------------
(***************************************************************************)
(* The instances of the load/store unit, the instruction cache and the     *)
(* buses that TLC checks together. A behaviour is about one of them, named *)
(* by part; the variables of the others stay at 0. The modules have no     *)
(* influence on each other here: the bus of the cache and the memory of    *)
(* the load/store unit are inside their modules.                           *)
(***************************************************************************)
EXTENDS Naturals, Sequences

VARIABLES
    part,   \* the instance this behaviour is about
    window, granted, requests, translated, issued, noop, mem, reservation, inProgress,
    op, scFailed, second, secondIssued, loadVal, fwd, archMem, archReservation, wrong,
    fsm, flushIndex, waySelector, readAddr, outputValid, errorSaved, tags, data, args,
    results, line, active, flushing, sending, reqCounter, respCounter, buffer, blockFwd,
    bus, version, since,
    wbFsm, cyc, stb, txn, res, pend, grant, valid, prevCyc, sl, rdFor, execs, turn,
    sent, rdy, axiFwd, got, offer, asked,
    pending, fifo, slave, plAsked, abandoned

Speculation == INSTANCE LoadStoreUnit WITH Kinds <- {"load", "store"},
    Wheres <- {"ram", "mmio"}, Modulus <- 2, Window <- 3, Flushes <- TRUE,
    BusErrors <- FALSE
Atomics == INSTANCE LoadStoreUnit WITH Kinds <- {"load", "lr", "sc", "amo"},
    Wheres <- {"ram"}, Modulus <- 2, Window <- 2, Flushes <- FALSE, BusErrors <- FALSE
AtomicFaults == INSTANCE LoadStoreUnit WITH Kinds <- {"amo", "lr", "sc"},
    Wheres <- {"ram", "misaligned"}, Modulus <- 2, Window <- 2, Flushes <- TRUE,
    BusErrors <- TRUE

\* The cache and the buses, each for any value of its parameters, which the record k holds.
Cache(k) == INSTANCE InstructionCache WITH Tags <- k.tags, Sets <- k.sets, Ways <- k.ways,
    Blocks <- k.blocks, BlockWords <- k.blockWords, Mutable <- k.mutable
Bus(k) == INSTANCE WishboneBus WITH Masters <- k.masters, Ports <- k.ports,
    Addrs <- k.addrs, Slaves <- k.slaves, SlaveOf <- k.slaveOf, Outside <- k.outside,
    Retries <- k.retries, ReadsWait <- k.readsWait, fsm <- wbFsm
Axi(k) == INSTANCE AxiLite WITH Tags <- k.tags, MaxRequests <- k.maxRequests, fwd <- axiFwd
Pipelined(k) == INSTANCE PipelinedMaster WITH MaxReq <- k.maxReq, Tags <- k.tags,
    asked <- plAsked

\* The parameters of the instances that are checked.
CacheLines == [tags |-> 2, sets |-> 2, ways |-> 1, blocks |-> 2, blockWords |-> 1,
               mutable |-> {}]
CacheWays == [tags |-> 3, sets |-> 1, ways |-> 2, blocks |-> 1, blockWords |-> 2,
              mutable |-> {}]
CacheFlush == [tags |-> 1, sets |-> 2, ways |-> 1, blocks |-> 1, blockWords |-> 2,
               mutable |-> {<<0, 0>>, <<0, 1>>}]
OneMaster == [masters |-> {0}, ports |-> {1, 2}, addrs |-> {"a", "b", "c"},
              slaves |-> {"s1", "s2"},
              slaveOf |-> [a \in {"a", "b", "c"} |-> IF a = "a" THEN "s1" ELSE "s2"],
              outside |-> {"c"}, retries |-> TRUE, readsWait |-> TRUE]
TwoMasters == [masters |-> {0, 1}, ports |-> {1}, addrs |-> {"a", "b"}, slaves |-> {"s1"},
               slaveOf |-> [a \in {"a", "b"} |-> "s1"], outside |-> {}, retries |-> TRUE,
               readsWait |-> FALSE]
AxiChannels == [tags |-> {1, 2}, maxRequests |-> 2]
InFlight == [maxReq |-> 3, tags |-> {1, 2}]

ASSUME InstancesAssumption ==
    /\ Speculation!LsuAssumption /\ Atomics!LsuAssumption
    /\ AtomicFaults!LsuAssumption /\ Cache(CacheLines)!CacheAssumption
    /\ Cache(CacheWays)!CacheAssumption /\ Cache(CacheFlush)!CacheAssumption
    /\ Bus(OneMaster)!BusAssumption /\ Bus(TwoMasters)!BusAssumption /\ Axi(AxiChannels)!AxiAssumption
    /\ Pipelined(InFlight)!PipelinedAssumption

\* The variables of a module while another one runs.
LoadStoreUnitIdle ==
    /\ window = 0 /\ granted = 0 /\ requests = 0 /\ translated = 0 /\ issued = 0
    /\ noop = 0 /\ mem = 0 /\ reservation = 0 /\ inProgress = 0 /\ op = 0
    /\ scFailed = 0 /\ second = 0 /\ secondIssued = 0 /\ loadVal = 0 /\ fwd = 0
    /\ archMem = 0 /\ archReservation = 0 /\ wrong = 0
InstructionCacheIdle ==
    /\ fsm = 0 /\ flushIndex = 0 /\ waySelector = 0 /\ readAddr = 0
    /\ outputValid = 0 /\ errorSaved = 0 /\ tags = 0 /\ data = 0 /\ args = 0
    /\ results = 0 /\ line = 0 /\ active = 0 /\ flushing = 0 /\ sending = 0
    /\ reqCounter = 0 /\ respCounter = 0 /\ buffer = 0 /\ blockFwd = 0 /\ bus = 0
    /\ version = 0 /\ since = 0
WishboneBusIdle ==
    /\ wbFsm = 0 /\ cyc = 0 /\ stb = 0 /\ txn = 0 /\ res = 0 /\ pend = 0
    /\ grant = 0 /\ valid = 0 /\ prevCyc = 0 /\ sl = 0 /\ rdFor = 0 /\ execs = 0
    /\ turn = 0
AxiLiteIdle ==
    /\ sent = 0 /\ rdy = 0 /\ axiFwd = 0 /\ got = 0 /\ offer = 0 /\ asked = 0
PipelinedMasterIdle ==
    /\ pending = 0 /\ fifo = 0 /\ slave = 0 /\ plAsked = 0 /\ abandoned = 0

LoadStoreUnitVars == <<window, granted, requests, translated, issued, noop, mem,
    reservation, inProgress, op, scFailed, second, secondIssued, loadVal, fwd, archMem,
    archReservation, wrong>>
InstructionCacheVars == <<fsm, flushIndex, waySelector, readAddr, outputValid,
    errorSaved, tags, data, args, results, line, active, flushing, sending, reqCounter,
    respCounter, buffer, blockFwd, bus, version, since>>
WishboneBusVars == <<wbFsm, cyc, stb, txn, res, pend, grant, valid, prevCyc, sl, rdFor,
    execs, turn>>
AxiLiteVars == <<sent, rdy, axiFwd, got, offer, asked>>
PipelinedMasterVars == <<pending, fifo, slave, plAsked, abandoned>>

Init ==
    \/ /\ \/ part = "Speculation"  /\ Speculation!Init
          \/ part = "Atomics"      /\ Atomics!Init
          \/ part = "AtomicFaults" /\ AtomicFaults!Init
       /\ InstructionCacheIdle /\ WishboneBusIdle /\ AxiLiteIdle
       /\ PipelinedMasterIdle
    \/ /\ \/ part = "CacheLines" /\ Cache(CacheLines)!Init
          \/ part = "CacheWays"  /\ Cache(CacheWays)!Init
          \/ part = "CacheFlush" /\ Cache(CacheFlush)!Init
       /\ LoadStoreUnitIdle /\ WishboneBusIdle /\ AxiLiteIdle /\ PipelinedMasterIdle
    \/ /\ \/ part = "OneMaster"  /\ Bus(OneMaster)!Init
          \/ part = "TwoMasters" /\ Bus(TwoMasters)!Init
       /\ LoadStoreUnitIdle /\ InstructionCacheIdle /\ AxiLiteIdle
       /\ PipelinedMasterIdle
    \/ /\ \/ part = "Axi" /\ Axi(AxiChannels)!Init
       /\ LoadStoreUnitIdle /\ InstructionCacheIdle /\ WishboneBusIdle
       /\ PipelinedMasterIdle
    \/ /\ \/ part = "Pipelined" /\ Pipelined(InFlight)!Init
       /\ LoadStoreUnitIdle /\ InstructionCacheIdle /\ WishboneBusIdle /\ AxiLiteIdle

Next ==
    /\ UNCHANGED part
    /\ \/ /\ \/ part = "Speculation"  /\ Speculation!Next
             \/ part = "Atomics"      /\ Atomics!Next
             \/ part = "AtomicFaults" /\ AtomicFaults!Next
          /\ UNCHANGED <<InstructionCacheVars, WishboneBusVars, AxiLiteVars,
                         PipelinedMasterVars>>
       \/ /\ \/ part = "CacheLines" /\ Cache(CacheLines)!Next
             \/ part = "CacheWays"  /\ Cache(CacheWays)!Next
             \/ part = "CacheFlush" /\ Cache(CacheFlush)!Next
          /\ UNCHANGED <<LoadStoreUnitVars, WishboneBusVars, AxiLiteVars,
                         PipelinedMasterVars>>
       \/ /\ \/ part = "OneMaster"  /\ Bus(OneMaster)!Next
             \/ part = "TwoMasters" /\ Bus(TwoMasters)!Next
          /\ UNCHANGED <<LoadStoreUnitVars, InstructionCacheVars, AxiLiteVars,
                         PipelinedMasterVars>>
       \/ /\ \/ part = "Axi" /\ Axi(AxiChannels)!Next
          /\ UNCHANGED <<LoadStoreUnitVars, InstructionCacheVars, WishboneBusVars,
                         PipelinedMasterVars>>
       \/ /\ \/ part = "Pipelined" /\ Pipelined(InFlight)!Next
          /\ UNCHANGED <<LoadStoreUnitVars, InstructionCacheVars, WishboneBusVars,
                         AxiLiteVars>>

vars == <<part, LoadStoreUnitVars, InstructionCacheVars, WishboneBusVars, AxiLiteVars,
          PipelinedMasterVars>>
Spec == Init /\ [][Next]_vars

-----------------------------------------------------------------------------
(***************************************************************************)
(* The load/store unit is precise (dummyLsu.py, lsu_atomic_wrapper.py):    *)
(* loads and AMOs return what program order gives, memory and devices see  *)
(* no access of a wrong path or behind a fault, and every request is       *)
(* answered once, whatever is flushed or fails between its steps.          *)
(***************************************************************************)
LoadStorePrecise ==
    /\ part = "Speculation" => /\ Speculation!LoadsSequential /\ Speculation!MemoryPrecise
                               /\ Speculation!DevicesPrecise /\ Speculation!AnsweredOnce
    /\ part = "AtomicFaults" => /\ AtomicFaults!LoadsSequential /\ AtomicFaults!MemoryPrecise
                                /\ AtomicFaults!AnsweredOnce

(***************************************************************************)
(* Without wrong paths an SC succeeds only after an LR ("SC are only       *)
(* matched to LR", lsu_atomic_wrapper.py), and AMOs are atomic.            *)
(***************************************************************************)
AtomicsMatch == part = "Atomics" => Atomics!ScMatchesLr /\ Atomics!LoadsSequential

(***************************************************************************)
(* A lookup of the instruction cache returns the block it asked for, read  *)
(* since the last flush (icache.py, refiller.py), and no line is in two    *)
(* ways.                                                                   *)
(***************************************************************************)
CachedBlockRight ==
    /\ part = "CacheLines" => Cache(CacheLines)!RightBlock /\ Cache(CacheLines)!BusQuiet
    /\ part = "CacheWays" => Cache(CacheWays)!RightBlock /\ Cache(CacheWays)!NoDoubleHit
    /\ part = "CacheFlush" => Cache(CacheFlush)!RightBlock

(***************************************************************************)
(* A request on the Wishbone bus is executed once and its answer reaches   *)
(* the port that made it (wishbone.py, bus_adapter.py).                    *)
(***************************************************************************)
BusAnswersRight ==
    /\ part = "OneMaster" => /\ Bus(OneMaster)!RightAnswer /\ Bus(OneMaster)!ExecutedOnce
                             /\ Bus(OneMaster)!ResultHasRoom
    /\ part = "TwoMasters" => Bus(TwoMasters)!RightAnswer /\ Bus(TwoMasters)!ExecutedOnce

(***************************************************************************)
(* With several requests in flight, on the channels of AXI-Lite or from    *)
(* the pipelined Wishbone master, none is lost, repeated or overtaken, and *)
(* the bus cycle lasts until the last answer.                              *)
(***************************************************************************)
RequestsInOrder ==
    /\ part = "Axi" => Axi(AxiChannels)!NothingLost
    /\ part = "Pipelined" => Pipelined(InFlight)!ResultsKept /\ Pipelined(InFlight)!CycHeld
=============================================================================
