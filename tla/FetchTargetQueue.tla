-------------------------- MODULE FetchTargetQueue --------------------------
(***************************************************************************)
(* Instruction fetch: the Fetch Target Queue (frontend/ftq.py) with its    *)
(* address unit (fetch_addr_unit.py), the stages of the branch prediction  *)
(* (bpu/bpu.py) and of the fetch unit (fetch/fetch.py), and the stall      *)
(* controller (stall_controller.py).                                       *)
(*                                                                         *)
(* One step is one clock cycle.  All registers read the values before the  *)
(* edge, and where two writers meet the one that comes last in the source  *)
(* wins: backend redirect over writeback of the fetch unit over the normal *)
(* flow.  Chosen by \E: what the predictor predicts, what a fetched block  *)
(* contains, which of the memory stages wait, and what the backend does.   *)
(*                                                                         *)
(* Addresses are those of fetch blocks.  A way out of a block is [cfi, to]:*)
(* taken by a control flow instruction or by falling through, and the next *)
(* block; Halt when the fetch unit stops at an unsafe instruction, a fault *)
(* or a jump it cannot predict.  Two variables record history: path, the   *)
(* blocks handed to the backend from the entry next to be trained on, and  *)
(* due, the block that must come next, <<>> when the backend is to decide. *)
(***************************************************************************)
EXTENDS Naturals, Sequences

CONSTANTS
    FtqSize,        \* gen_params.ftq_size
    Gens,           \* number of fetch generations, 2^2
    MaxInflight,    \* max_inflight_requests
    Blocks,         \* number of fetch block addresses
    Compressed,     \* is the extension Zca on?
    Exceptions,     \* may the backend report exceptions?
    MayWait,        \* the stages of the fetch unit that may have to wait
    JumpsOverHalf   \* may a block whose last slot looks like half an instruction
                    \* jump to the start of the next block?

ASSUME SizesAssumption == FtqSize \in Nat /\ FtqSize > 1 /\ Blocks \in Nat \ {0}
\* asserted in fetch.py
ASSUME InflightAssumption ==
    Gens \in Nat /\ MaxInflight \in Nat \ {0} /\ MaxInflight <= Gens

Stages == {"translate", "cache", "serialize"}
ASSUME SwitchAssumption ==
    {Compressed, Exceptions, JumpsOverHalf} \subseteq BOOLEAN /\ MayWait \subseteq Stages

Ptr == 0 .. 2 * FtqSize - 1
Block == 0 .. Blocks - 1
Sequential(a) == (a + 1) % Blocks
Halt == [cfi |-> FALSE, to |-> Blocks]
Jumps == [cfi : {TRUE}, to : Block]
FallThrough(a) == [cfi |-> FALSE, to |-> Sequential(a)]
Predictions(a) == Jumps \cup {FallThrough(a)}

(***************************************************************************)
(* Pointers into the circular buffer have a wrap bit above the index.      *)
(***************************************************************************)
Idx(p) == p % FtqSize
Parity(p) == p \div FtqSize
Succ(p) == (p + 1) % (2 * FtqSize)
Less(p, q) == (Parity(p) # Parity(q)) # (Idx(p) < Idx(q))
AtOrPast(p, q) == (Parity(p) # Parity(q)) # (Idx(p) >= Idx(q))
QueueFull(enq, deq) == Parity(enq) # Parity(deq) /\ Idx(enq) = Idx(deq)
Distance(p, q) == (q + 2 * FtqSize - p) % (2 * FtqSize)

VARIABLES
    alloc_ptr, fetch_ptr, commit_ptr,
    pred_ptr,           \* prediction_mem.read_ptr
    train_ptr,          \* train_mem.read_ptr
    entry_gen,
    pc_mem, prediction_mem, jb_unit_prediction_mem,
    next_fetch_addr,    \* <<pc>>, or <<>> when next_fetch_addr_v is 0
    s1_pipe,            \* BPU, between request and stage 1
    req_valid,          \* the predictor's answer, ready for one cycle only
    ftq_ptr_pipe, fetch_requests, s1_s2_pipe,   \* requests in the fetch unit
    prev_half,          \* <<prev_half_addr>>, or <<>> when prev_half_v is 0
    ras_resp,           \* a RAS checkpoint was read in the previous cycle
    stalled_exception, exception_valid,
    rolled_back,        \* the stored exception lost its tag in the last cycle
    path, due

ptrVars == <<alloc_ptr, fetch_ptr, commit_ptr, pred_ptr, train_ptr>>
memVars == <<entry_gen, pc_mem, prediction_mem, jb_unit_prediction_mem>>
pipeVars == <<next_fetch_addr, s1_pipe, req_valid, ftq_ptr_pipe, fetch_requests, s1_s2_pipe,
              prev_half, ras_resp>>
stallVars == <<stalled_exception, exception_valid, rolled_back>>
vars == <<ptrVars, memVars, pipeVars, stallVars, path, due>>

Unused == [at |-> Blocks, cfi |-> FALSE, to |-> Blocks]

Init ==
    /\ alloc_ptr = 0 /\ fetch_ptr = 0 /\ commit_ptr = 0 /\ pred_ptr = 0 /\ train_ptr = 0
    /\ entry_gen = [i \in 0 .. FtqSize - 1 |-> 0]
    /\ pc_mem = [i \in 0 .. FtqSize - 1 |-> Blocks]
    /\ prediction_mem = [i \in 0 .. FtqSize - 1 |-> Unused]
    /\ jb_unit_prediction_mem = [i \in 0 .. FtqSize - 1 |-> Halt]
    /\ next_fetch_addr = <<0>>
    /\ s1_pipe = <<>> /\ req_valid = FALSE
    /\ ftq_ptr_pipe = <<>> /\ fetch_requests = <<>> /\ s1_s2_pipe = <<>>
    /\ prev_half = <<>>
    /\ ras_resp = FALSE
    /\ stalled_exception = FALSE /\ exception_valid = FALSE /\ rolled_back = FALSE
    /\ path = <<>>
    /\ due = <<[ptr |-> 0, pc |-> 0, starts |-> FALSE]>>

-----------------------------------------------------------------------------
(***************************************************************************)
(* Which transactions run.  waits: the stages whose memory, translation or *)
(* serializer is not ready.                                                *)
(***************************************************************************)
Stage2Fires(waits) == s1_s2_pipe # <<>> /\ "serialize" \notin waits
Stage1Fires(waits) ==
    /\ fetch_requests # <<>> /\ "cache" \notin waits
    /\ s1_s2_pipe = <<>> \/ Stage2Fires(waits)
TranslateFires(waits) ==
    /\ ftq_ptr_pipe # <<>> /\ "translate" \notin waits
    /\ Len(fetch_requests) < 2

\* BPU_S1 hands the prediction to the address unit, whose register must be free
PredictFires == s1_pipe # <<>> /\ req_valid /\ next_fetch_addr = <<>>
AddressReady ==
    /\ ~stalled_exception
    /\ next_fetch_addr # <<>> \/ PredictFires
    /\ s1_pipe = <<>> \/ PredictFires
AllocFiresWhenFull == AddressReady      \* mutant: the queue may overflow
AllocFires == AddressReady /\ ~QueueFull(alloc_ptr, train_ptr)
EarlyFetch == fetch_ptr = alloc_ptr /\ AllocFires
Inflight == Len(ftq_ptr_pipe) + Len(fetch_requests) + Len(s1_s2_pipe)
SendFires(waits) ==
    /\ EarlyFetch \/ Less(fetch_ptr, alloc_ptr)
    /\ ~stalled_exception
    /\ Inflight < MaxInflight
    /\ ftq_ptr_pipe = <<>> \/ TranslateFires(waits)
TrainFires == Less(train_ptr, commit_ptr)

\* The request was invalidated by a redirect since it was issued
StaleByPointer(r) == AtOrPast(r.ptr, fetch_ptr) \/ stalled_exception  \* mutant: no generations
\* mutant: no comparison with the fetch pointer
StaleByGeneration(r) == entry_gen[Idx(r.ptr)] # r.gen \/ stalled_exception
Stale(r) ==
    \/ entry_gen[Idx(r.ptr)] # r.gen
    \/ AtOrPast(r.ptr, fetch_ptr)
    \/ stalled_exception
Delivers(waits) == Stage2Fires(waits) /\ ~Stale(s1_s2_pipe[1])

\* Stage 2 found that the block's exit e is not what fetch followed, or (other)
\* that another instruction of the block leads to the same place
Resteers(e, other) ==
    LET p == prediction_mem[Idx(pred_ptr)]
    IN e = Halt \/ other \/ e # [cfi |-> p.cfi, to |-> p.to]
-----------------------------------------------------------------------------
(***************************************************************************)
(* The fetch pipeline in one cycle.  pr: the prediction that is made; half:*)
(* the last slot of the block in stage 1 is the first half of an           *)
(* instruction; e: the exit of the block in stage 2; rd: the redirect of   *)
(* the backend, <<>> or <<[ptr, pc]>>.                                     *)
(***************************************************************************)
PipeNext(pipe, wr, w, rd) == IF wr THEN <<w>> ELSE IF rd THEN <<>> ELSE pipe

AllocPc(pr) == IF next_fetch_addr # <<>> THEN next_fetch_addr[1] ELSE pr.to
FetchPc(pr) == IF EarlyFetch THEN AllocPc(pr) ELSE pc_mem[Idx(fetch_ptr)]
NewGen == (entry_gen[Idx(fetch_ptr)] + 1) % Gens

StartsMidInstr(r) == prev_half # <<>> /\ Sequential(prev_half[1]) = r.pc

AddressCycleAllocLast(pr, e, rd, resteers) ==   \* mutant: the read wins over a redirect
    next_fetch_addr' =
        CASE AllocFires -> <<>>
          [] ~AllocFires /\ rd # <<>> -> <<rd[1].pc>>
          [] ~AllocFires /\ rd = <<>> /\ resteers -> IF e = Halt THEN <<>> ELSE <<e.to>>
          [] OTHER -> IF PredictFires THEN <<pr.to>> ELSE next_fetch_addr
AddressCycle(pr, e, rd, resteers) ==
    next_fetch_addr' =
        CASE rd # <<>> -> <<rd[1].pc>>
          [] rd = <<>> /\ resteers -> IF e = Halt THEN <<>> ELSE <<e.to>>
          [] rd = <<>> /\ ~resteers /\ AllocFires -> <<>>
          [] OTHER -> IF PredictFires THEN <<pr.to>> ELSE next_fetch_addr

PredictorCycle(pr, rd, resteers) ==
    /\ s1_pipe' = IF rd # <<>> \/ resteers THEN <<>>
                  ELSE PipeNext(s1_pipe, AllocFires,
                                [ptr |-> alloc_ptr, pc |-> AllocPc(pr)], PredictFires)
    /\ req_valid' = (AllocFires /\ rd = <<>> /\ ~resteers)

\* Where a resteer of the fetch unit or a redirect sets a pointer, and where it
\* goes otherwise
Steered(rd, resteers, normal) ==
    IF rd # <<>> THEN Succ(rd[1].ptr)
    ELSE IF resteers THEN Succ(s1_s2_pipe[1].ptr) ELSE normal

PredictionsReadOn(waits, rd) ==         \* mutant: nor by the backend
    pred_ptr' = IF Delivers(waits) THEN Succ(pred_ptr) ELSE pred_ptr
\* prediction_mem is not rolled back by the fetch unit: its reads are in order
PredictionsRead(waits, rd) ==
    pred_ptr' = Steered(rd, FALSE, IF Delivers(waits) THEN Succ(pred_ptr) ELSE pred_ptr)

PointersCycle(waits, rd, resteers) ==
    /\ alloc_ptr' = Steered(rd, resteers, IF AllocFires THEN Succ(alloc_ptr) ELSE alloc_ptr)
    /\ fetch_ptr' = Steered(rd, resteers, IF SendFires(waits) THEN Succ(fetch_ptr) ELSE fetch_ptr)
    /\ PredictionsRead(waits, rd)
    /\ train_ptr' = IF TrainFires THEN Succ(train_ptr) ELSE train_ptr

RequestsCycle(waits, pr, half) ==
    LET r == fetch_requests[1]
    IN /\ ftq_ptr_pipe' = PipeNext(ftq_ptr_pipe, SendFires(waits),
                                   [ptr |-> fetch_ptr, gen |-> NewGen, pc |-> FetchPc(pr)],
                                   TranslateFires(waits))
       /\ fetch_requests' =
             (IF Stage1Fires(waits) THEN Tail(fetch_requests) ELSE fetch_requests)
             \o (IF TranslateFires(waits) THEN ftq_ptr_pipe ELSE <<>>)
       /\ s1_s2_pipe' = PipeNext(s1_s2_pipe, Stage1Fires(waits),
                                 [ptr |-> r.ptr, gen |-> r.gen, pc |-> r.pc,
                                  starts |-> StartsMidInstr(r), ends |-> half],
                                 Stage2Fires(waits))

\* Of the stages and the flush that write the carried half the last one wins
CarryCycle(waits, half, e, flush, resteers) ==
    prev_half' =
        CASE flush -> <<>>
          [] ~flush /\ resteers ->
               IF s1_s2_pipe[1].ends /\ e = FallThrough(s1_s2_pipe[1].pc)
               THEN <<s1_s2_pipe[1].pc>> ELSE <<>>
          [] ~flush /\ ~resteers /\ Stage1Fires(waits) /\ ~Stale(fetch_requests[1]) ->
               IF half THEN <<fetch_requests[1].pc>> ELSE <<>>
          [] OTHER -> prev_half

(***************************************************************************)
(* Memories.  What is not read again is forgotten: of entries between from *)
(* and to (after the step) keep leaves the contents, of others nothing;    *)
(* an entry without requests in flight starts counting generations anew.   *)
(***************************************************************************)
InRange(i, from, to) == (i + FtqSize - Idx(from)) % FtqSize < Distance(from, to)
Keep(mem, free, from, to) ==
    [i \in DOMAIN mem |-> IF InRange(i, from, to) THEN mem[i] ELSE free]
RequestedEntries ==
    {Idx(r.ptr) : r \in {(ftq_ptr_pipe' \o fetch_requests')[i] :
                            i \in 1 .. Len(ftq_ptr_pipe') + Len(fetch_requests')}}
        \cup {Idx(s1_s2_pipe'[i].ptr) : i \in DOMAIN s1_s2_pipe'}
MemoriesCycle(waits, pr, e) ==
    LET s == s1_pipe[1]
        gens == IF SendFires(waits) THEN [entry_gen EXCEPT ![Idx(fetch_ptr)] = NewGen]
                ELSE entry_gen
        predictions ==
            IF PredictFires
            THEN [prediction_mem EXCEPT ![Idx(s.ptr)] = [at |-> s.pc, cfi |-> pr.cfi, to |-> pr.to]]
            ELSE prediction_mem
    IN /\ entry_gen' = [i \in DOMAIN gens |-> IF i \in RequestedEntries THEN gens[i] ELSE 0]
       /\ pc_mem' = Keep(IF AllocFires THEN [pc_mem EXCEPT ![Idx(alloc_ptr)] = AllocPc(pr)]
                         ELSE pc_mem, Blocks, fetch_ptr', alloc_ptr')
       /\ prediction_mem' = Keep([i \in DOMAIN predictions |->
                                   IF InRange(i, train_ptr', pred_ptr')
                                   THEN [Unused EXCEPT !.at = predictions[i].at]
                                   ELSE predictions[i]], Unused, train_ptr', alloc_ptr')
       /\ jb_unit_prediction_mem' =
             Keep(IF Delivers(waits)
                  THEN [jb_unit_prediction_mem EXCEPT ![Idx(s1_s2_pipe[1].ptr)] = e]
                  ELSE jb_unit_prediction_mem, Halt, train_ptr', pred_ptr')

-----------------------------------------------------------------------------
(***************************************************************************)
(* The blocks in the hands of the backend.                                 *)
(***************************************************************************)
At(p) == Distance(train_ptr, p) + 1
OldestUncommitted == At(commit_ptr)

StallFlush == exception_valid /\ ~stalled_exception

\* The stall flush drops the blocks in the serializer and the instruction buffer;
\* right after a rollback, whose flush emptied them, only what arrives now.  keep:
\* how many blocks had left them.
FlushDrops(waits) == StallFlush /\ (rolled_back => Delivers(waits))

PathCycle(waits, e, rd, keep) ==
    LET d == s1_s2_pipe[1]
        blocks == CASE rd # <<>> -> SubSeq(path, 1, At(rd[1].ptr))
                    [] rd = <<>> /\ StallFlush -> SubSeq(path, 1, keep)
                    [] OTHER -> IF Delivers(waits) THEN Append(path, [pc |-> d.pc, jb |-> e])
                                ELSE path
    IN /\ path' = IF TrainFires THEN Tail(blocks) ELSE blocks
       /\ due' = CASE rd # <<>> -> <<[ptr |-> Succ(rd[1].ptr), pc |-> rd[1].pc, starts |-> FALSE]>>
                   [] rd = <<>> /\ FlushDrops(waits) -> <<>>
                   [] rd = <<>> /\ ~FlushDrops(waits) /\ Delivers(waits) ->
                        IF e = Halt THEN <<>>
                        ELSE <<[ptr |-> Succ(d.ptr), pc |-> e.to,
                                starts |-> d.ends /\ e = FallThrough(d.pc)]>>
                   [] OTHER -> due

\* The block jumps over a half instruction to the start of the next block, and
\* fetch has followed it
CrossesHalf(e, resteers) ==
    /\ e = [cfi |-> TRUE, to |-> Sequential(s1_s2_pipe[1].pc)]
    /\ s1_s2_pipe[1].ends /\ ~resteers

FetchCycle(waits, pr, half, e, other, rd, keep) ==
    LET resteers == Delivers(waits) /\ Resteers(e, other)
    IN /\ Delivers(waits) /\ ~JumpsOverHalf => ~CrossesHalf(e, resteers)
       /\ AddressCycle(pr, e, rd, resteers)
       /\ PredictorCycle(pr, rd, resteers)
       /\ PointersCycle(waits, rd, resteers)
       /\ RequestsCycle(waits, pr, half)
       /\ CarryCycle(waits, half, e, rd # <<>> \/ StallFlush, resteers)
       /\ MemoriesCycle(waits, pr, e)
       /\ PathCycle(waits, e, rd, keep)
       /\ ras_resp' = (rd # <<>>)
       /\ stalled_exception' = exception_valid

\* Whatever the predictor and the fetched blocks say
AnyFetchCycle(waits, rd, keep) ==
    \E pr \in IF PredictFires THEN Predictions(s1_pipe[1].pc) ELSE {Halt},
       half \in {FALSE, Compressed /\ Stage1Fires(waits)},
       e \in IF Delivers(waits) THEN Predictions(s1_s2_pipe[1].pc) \cup {Halt} ELSE {Halt} :
        \E other \in {FALSE, e.cfi} : FetchCycle(waits, pr, half, e, other, rd, keep)

-----------------------------------------------------------------------------
(***************************************************************************)
(* The backend: it commits blocks in order, reports an exception, redirects*)
(* the frontend to the path after a block (a rollback, or the resolution   *)
(* of the instruction fetch stopped at), or ends a trap by redirecting to  *)
(* the handler.  A rollback may invalidate the stored exception; its       *)
(* register notices one cycle later.                                       *)
(***************************************************************************)
ExceptionCycle(report, trap, kills) ==
    /\ exception_valid' = (report \/ (exception_valid /\ ~rolled_back /\ ~trap))
    /\ rolled_back' = kills

MayReport == Exceptions /\ path # <<>> /\ (exception_valid => rolled_back)
Commits(p) == {c \in Ptr : At(c) \in OldestUncommitted .. At(p)}
LastPtr == (train_ptr + Len(path) - 1) % (2 * FtqSize)

NoRedirect(waits, reports) ==
    \E report \in reports,
       keep \in IF StallFlush /\ ~rolled_back THEN OldestUncommitted .. Len(path) ELSE {Len(path)} :
        /\ commit_ptr' \in IF StallFlush \/ path = <<>> THEN {commit_ptr} ELSE Commits(LastPtr)
        /\ ExceptionCycle(report, FALSE, FALSE)
        /\ AnyFetchCycle(waits, <<>>, keep)

Rollback(waits) ==
    /\ path # <<>>
    /\ \E p \in Commits(LastPtr), pc \in Block, report \in {FALSE, MayReport}, kills \in BOOLEAN :
        /\ kills => report \/ (exception_valid /\ ~rolled_back)
        /\ commit_ptr' \in Commits(p)
        /\ ExceptionCycle(report, FALSE, kills)
        /\ AnyFetchCycle(waits, <<[ptr |-> p, pc |-> pc]>>, 0)

TrapResume(waits) ==
    /\ exception_valid /\ ~rolled_back /\ stalled_exception
    /\ commit_ptr' = commit_ptr
    /\ ExceptionCycle(FALSE, TRUE, FALSE)
    /\ \E pc \in Block : AnyFetchCycle(waits, <<[ptr |-> commit_ptr, pc |-> pc]>>, 0)

Waiting == MayWait \cap
    ((IF ftq_ptr_pipe # <<>> THEN {"translate"} ELSE {})
        \cup (IF fetch_requests # <<>> THEN {"cache"} ELSE {})
        \cup (IF s1_s2_pipe # <<>> THEN {"serialize"} ELSE {}))
Next == \E waits \in SUBSET Waiting :
    NoRedirect(waits, {FALSE, MayReport}) \/ Rollback(waits) \/ TrapResume(waits)

Spec == Init /\ [][Next]_vars

(***************************************************************************)
(* Fairness.  The clock ticks, and memory and decoder do not make a stage  *)
(* wait forever; the backend commits the blocks that were followed by      *)
(* others.  No report and no redirect is forced.                           *)
(***************************************************************************)
QuietCycle == NoRedirect({}, {FALSE})
CommitsMore == QuietCycle /\ commit_ptr' # commit_ptr

-----------------------------------------------------------------------------
(***************************************************************************)
(* Properties.                                                             *)
(***************************************************************************)
Request == [ptr : Ptr, gen : 0 .. Gens - 1, pc : Block]
AnyExit == Jumps \cup [cfi : {FALSE}, to : Block \cup {Blocks}]
AtMostOne(S) == {<<>>} \cup {<<x>> : x \in S}

(***************************************************************************)
(* Types of the queue, its memories and the requests in the fetch unit.    *)
(***************************************************************************)
TypeOK ==
    /\ {alloc_ptr, fetch_ptr, commit_ptr, pred_ptr, train_ptr} \subseteq Ptr
    /\ entry_gen \in [0 .. FtqSize - 1 -> 0 .. Gens - 1]
    /\ pc_mem \in [0 .. FtqSize - 1 -> Block \cup {Blocks}]
    /\ jb_unit_prediction_mem \in [0 .. FtqSize - 1 -> AnyExit]
    /\ next_fetch_addr \in AtMostOne(Block)
    /\ s1_pipe \in AtMostOne([ptr : Ptr, pc : Block])
    /\ ftq_ptr_pipe \in AtMostOne(Request)
    /\ Len(fetch_requests) <= 2 /\ \A i \in DOMAIN fetch_requests : fetch_requests[i] \in Request
    /\ s1_s2_pipe \in AtMostOne([ptr : Ptr, gen : 0 .. Gens - 1, pc : Block,
                                  starts : BOOLEAN, ends : BOOLEAN])
    /\ prev_half \in AtMostOne(Block)
    /\ {req_valid, ras_resp, stalled_exception, exception_valid, rolled_back} \subseteq BOOLEAN

(***************************************************************************)
(* The backend gets one contiguous stream: a block that stage 2 takes for  *)
(* a live one is the block its predecessor led to or the backend asked for,*)
(* in the next entry of the queue, and starts with the half instruction    *)
(* its predecessor ended with.  No block of an abandoned path gets through *)
(* FetchTargetQueue.check_stale and none of the current one is lost.       *)
(***************************************************************************)
StreamContiguous ==
    \A i \in DOMAIN s1_s2_pipe :
        LET d == s1_s2_pipe[i]
        IN ~Stale(d) => due = <<[ptr |-> d.ptr, pc |-> d.pc, starts |-> d.starts]>>

(***************************************************************************)
(* "predictions read out of FTQ order" (ftq.py) never fires, and what is   *)
(* read is the prediction made for this very block.                        *)
(***************************************************************************)
PredictionsInOrder ==
    \A i \in DOMAIN s1_s2_pipe :
        ~Stale(s1_s2_pipe[i]) =>
            /\ s1_s2_pipe[i].ptr = pred_ptr
            /\ prediction_mem[Idx(pred_ptr)].at = s1_s2_pipe[i].pc

(***************************************************************************)
(* The pointers keep their order around the ring, which the comparisons    *)
(* of CircularBufferPointer need, and the entries in use fit into it.      *)
(***************************************************************************)
PointersOrdered ==
    /\ Distance(train_ptr, commit_ptr) <= Distance(train_ptr, pred_ptr)
    /\ Distance(train_ptr, pred_ptr) <= Distance(train_ptr, fetch_ptr)
    /\ Distance(train_ptr, fetch_ptr) <= Distance(train_ptr, alloc_ptr)
    /\ Distance(train_ptr, alloc_ptr) <= FtqSize

(***************************************************************************)
(* No entry is reused while the backend needs it: the predictor's metadata *)
(* of every block up to its training, and the record of where fetch went,  *)
(* with which the jump unit tells a misprediction.  The pointers into the  *)
(* ring stay in order.                                                     *)
(***************************************************************************)
RecordsKept ==
    /\ TypeOK /\ PointersOrdered
    /\ \A i \in DOMAIN path :
          LET idx == Idx(train_ptr + i - 1)
          IN /\ prediction_mem[idx].at = path[i].pc
             /\ jb_unit_prediction_mem[idx] = path[i].jb

(***************************************************************************)
(* "RAS prediction before checkpoint recovery completed" (ftq.py) never    *)
(* fires: no block of the new path is in stage 2 in the cycle after a      *)
(* redirect.                                                               *)
(***************************************************************************)
RasRecovered == ras_resp => \A i \in DOMAIN s1_s2_pipe : Stale(s1_s2_pipe[i])

(***************************************************************************)
(* Fetch stops only where the backend will restart it: without an address  *)
(* and a pending prediction the backend is to decide where to go on.       *)
(***************************************************************************)
FetchAlive ==
    next_fetch_addr = <<>> /\ ~PredictFires => due = <<>>

(***************************************************************************)
(* What liveness is about (MCComponentsLive): a block is due at p, and the *)
(* backend neither redirects fetch nor has it stopped.                     *)
(***************************************************************************)
Owed(p) == due # <<>> /\ pred_ptr = p /\ ~ras_resp /\ ~exception_valid
=============================================================================
