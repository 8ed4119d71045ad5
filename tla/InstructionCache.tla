------------------------- MODULE InstructionCache -------------------------
(***************************************************************************)
(* The instruction cache and its refiller (cache/icache.py,                *)
(* cache/refiller.py) on a bus that answers in order.  An action is one    *)
(* transaction or method call; those of one clock cycle commute.           *)
(*                                                                         *)
(* An address is its tag, its index and the fetch block within the line.   *)
(* The content of a word is the address it was read from and a version:    *)
(* software changes the words of Mutable once.                             *)
(***************************************************************************)
EXTENDS Naturals, Sequences

CONSTANTS Tags, Sets, Ways,   \* numbers of tags, sets and ways
          Blocks, BlockWords, \* fetch blocks in a line, words in a block
          Mutable             \* <<tag, index>> of lines whose words change

\* What the parameters must satisfy.
CacheAssumption ==
  /\ Tags \in Nat \ {0} /\ Sets \in Nat \ {0} /\ Ways \in Nat \ {0}
  /\ Blocks \in Nat \ {0} /\ BlockWords \in Nat \ {0}

LineWords == Blocks * BlockWords
Addrs == [tag : 0..Tags - 1, index : 0..Sets - 1, block : 0..Blocks - 1]
Lines == (0..Tags - 1) \X (0..Sets - 1)
\* Counters of words have the width of the line.
Wrap(n) == (n + 1) % LineWords
LineOf(a) == <<a.tag, a.index>>
NoAddr == [tag |-> 0, index |-> 0, block |-> 0]
Word(line, w, v) == <<line, w, v>>

VARIABLES
  fsm, flushIndex, waySelector,
  readAddr, outputValid, \* prev_mem_read_addr, mem_read_output_valid
  errorSaved,            \* refill_error_saved
  tags, data,            \* the memories, [index][way]
  args, results,         \* req_zipper: requests, and the result of the oldest
  line, active, flushing, sending, reqCounter, respCounter, buffer, \* refiller
  blockFwd,              \* its forwarder
  bus,                   \* external: words requested and not answered
  version,               \* external: current version of each line
  since                  \* history: versions of each line since the last flush

cache == <<fsm, flushIndex, waySelector, readAddr, outputValid, errorSaved, tags, data, args, results>>
refill == <<line, active, flushing, sending, reqCounter, respCounter, buffer, blockFwd, bus>>
vars == <<cache, refill, version, since>>

NoTag == [valid |-> FALSE, tag |-> 0]

TypeOK ==
  /\ fsm \in {"FLUSH", "LOOKUP", "REFILL"} /\ flushIndex \in 0..Sets - 1
  /\ waySelector \in 0..Ways - 1 /\ readAddr \in Addrs
  /\ outputValid \in BOOLEAN /\ errorSaved \in BOOLEAN
  /\ tags \in [0..Sets - 1 -> [0..Ways - 1 -> [valid : BOOLEAN, tag : 0..Tags - 1]]]
  /\ Len(args) <= 2 /\ Len(results) <= 1 /\ Len(blockFwd) <= 1
  /\ reqCounter \in 0..LineWords - 1 /\ respCounter \in 0..LineWords - 1
  /\ Len(bus) <= LineWords /\ Len(buffer) < BlockWords

\* Nothing is initialised but the state machine, which starts with a flush.
Init ==
  /\ fsm = "FLUSH" /\ flushIndex = 0 /\ waySelector = 0
  /\ readAddr = NoAddr /\ outputValid = FALSE /\ errorSaved = FALSE
  /\ tags = [i \in 0..Sets - 1 |-> [w \in 0..Ways - 1 |-> NoTag]]
  /\ data = [i \in 0..Sets - 1 |-> [w \in 0..Ways - 1 |-> [b \in 0..Blocks - 1 |-> <<>>]]]
  /\ args = <<>> /\ results = <<>>
  /\ line = <<0, 0>> /\ active = FALSE /\ flushing = FALSE /\ sending = FALSE
  /\ reqCounter = 0 /\ respCounter = 0 /\ buffer = <<>> /\ blockFwd = <<>> /\ bus = <<>>
  /\ version = [l \in Lines |-> 0] /\ since = [l \in Lines |-> {0}]

-----------------------------------------------------------------------------
(* The cache                                                               *)

\* issue_req, in any state of the machine if no lookup waits.
IssueReq(a) ==
  /\ ~outputValid /\ Len(args) < 2
  /\ readAddr' = a /\ outputValid' = TRUE /\ args' = Append(args, a)
  /\ UNCHANGED <<fsm, flushIndex, waySelector, errorSaved, tags, data, results, refill, version, since>>

\* MemRead runs when its callees are ready, those it does not call included.
MemReadReady == /\ fsm = "LOOKUP" /\ (outputValid \/ errorSaved)
                /\ args # <<>> /\ results = <<>> /\ ~active

HitWays == {w \in 0..Ways - 1 : /\ tags[readAddr.index][w].valid
                                /\ tags[readAddr.index][w].tag = Head(args).tag}

\* OneHotMux: the ways that hit; two of them would mix their data.
MemOut == {data[readAddr.index][w][readAddr.block] : w \in HitWays}

MemReadHit ==
  /\ MemReadReady /\ (HitWays # {} \/ errorSaved)
  /\ results' = <<[addr |-> Head(args), out |-> MemOut, error |-> errorSaved,
                   may |-> since[LineOf(Head(args))]]>>
  /\ errorSaved' = FALSE /\ outputValid' = FALSE
  /\ UNCHANGED <<fsm, flushIndex, waySelector, readAddr, tags, data, args, refill, version, since>>

MemReadMiss ==
  /\ MemReadReady /\ HitWays = {} /\ ~errorSaved
  /\ fsm' = "REFILL"
  /\ line' = LineOf(Head(args)) /\ reqCounter' = 0 /\ respCounter' = 0
  /\ sending' = TRUE /\ active' = TRUE
  /\ UNCHANGED <<flushIndex, waySelector, readAddr, outputValid, errorSaved, tags, data, args,
                 results, flushing, buffer, blockFwd, bus, version, since>>

AcceptRes ==
  /\ results # <<>> /\ results' = <<>> /\ args' = Tail(args)
  /\ UNCHANGED <<fsm, flushIndex, waySelector, readAddr, outputValid, errorSaved, tags, data,
                 refill, version, since>>

\* flush: waits for the lookup; restarts a flush that runs.
FlushReady == ~outputValid
Flush ==
  /\ FlushReady
  /\ flushIndex' = 0 /\ fsm' = IF fsm = "LOOKUP" THEN "FLUSH" ELSE fsm
  /\ since' = [l \in Lines |-> {version[l]}]
  /\ UNCHANGED <<waySelector, readAddr, outputValid, errorSaved, tags, data, args, results, refill, version>>

FlushFinish == flushIndex = Sets - 1
FlushCycle ==
  /\ fsm = "FLUSH"
  /\ flushIndex' = (flushIndex + 1) % Sets
  /\ fsm' = IF FlushFinish THEN "LOOKUP" ELSE fsm
  /\ tags' = [tags EXCEPT ![flushIndex] = [w \in 0..Ways - 1 |-> NoTag]]
  /\ UNCHANGED <<waySelector, readAddr, outputValid, errorSaved, data, args, results, refill, version, since>>

-----------------------------------------------------------------------------
(* The refiller                                                            *)

SendRequest ==
  /\ sending
  /\ bus' = Append(bus, <<line, reqCounter>>)
  /\ reqCounter' = Wrap(reqCounter)
  /\ sending' = (reqCounter # LineWords - 1)
  /\ UNCHANGED <<cache, line, active, flushing, respCounter, buffer, blockFwd, version, since>>

\* The words that are kept for the next response: the last BlockWords - 1.
Block(w) == Append(buffer, w)
NextBuffer(w) == IF Len(Block(w)) < BlockWords THEN Block(w) ELSE Tail(Block(w))

EndsBlock(err) == (respCounter + 1) % BlockWords = 0 \/ err
LastWord == respCounter = LineWords - 1

\* A response; after an error the remaining ones are dropped.
ResponseStops(err) == ~flushing /\ ~LastWord /\ err
ResponseWord(err) ==
  LET w == Word(Head(bus)[1], Head(bus)[2], version[Head(bus)[1]])
  IN  /\ bus # <<>>
      /\ (~flushing /\ EndsBlock(err)) => blockFwd = <<>>
      /\ bus' = Tail(bus)
      /\ buffer' = NextBuffer(w)
      /\ blockFwd' = IF ~flushing /\ EndsBlock(err)
                     THEN <<[line |-> line, block |-> respCounter \div BlockWords, words |-> Block(w),
                             error |-> err, last |-> LastWord \/ err]>>
                     ELSE blockFwd
      /\ active' = IF ~flushing /\ LastWord THEN FALSE ELSE active
      /\ sending' = IF ResponseStops(err) THEN FALSE ELSE sending
      /\ flushing' = (flushing \/ ResponseStops(err))
      /\ respCounter' = Wrap(respCounter)
      /\ UNCHANGED <<cache, line, reqCounter, version, since>>

FlushingDoneAtOnce == flushing
FlushingDone == flushing /\ respCounter = reqCounter
FlushingEnd ==
  /\ FlushingDone
  /\ active' = FALSE /\ flushing' = FALSE
  /\ UNCHANGED <<cache, line, sending, reqCounter, respCounter, buffer, blockFwd, bus, version, since>>

\* The cache takes a block: the last one, or an error, ends the refill.
TagWritten(err) == [valid |-> ~err, tag |-> readAddr.tag]
SavesError(err) == errorSaved \/ err
AcceptRefill ==
  /\ blockFwd # <<>>
  /\ LET ret == Head(blockFwd)
     IN  /\ data' = [data EXCEPT ![ret.line[2]][waySelector][ret.block] = ret.words]
         /\ tags' = IF ret.last THEN [tags EXCEPT ![readAddr.index][waySelector] = TagWritten(ret.error)]
                    ELSE tags
         /\ fsm' = IF fsm = "REFILL" /\ ret.last THEN "LOOKUP" ELSE fsm
         /\ waySelector' = IF ret.last THEN (waySelector + 1) % Ways ELSE waySelector
         /\ errorSaved' = SavesError(ret.error)
  /\ blockFwd' = <<>>
  /\ UNCHANGED <<flushIndex, readAddr, outputValid, args, results, line, active, flushing, sending,
                 reqCounter, respCounter, buffer, bus, version, since>>

\* Software writes new instructions.
WriteMemory(l) ==
  /\ version[l] = 0
  /\ version' = [version EXCEPT ![l] = 1] /\ since' = [since EXCEPT ![l] = @ \union {1}]
  /\ UNCHANGED <<cache, refill>>

Next ==
  \/ \E a \in Addrs : IssueReq(a)
  \/ MemReadHit \/ MemReadMiss \/ AcceptRes \/ Flush \/ FlushCycle
  \/ SendRequest \/ (\E err \in BOOLEAN : ResponseWord(err)) \/ FlushingEnd \/ AcceptRefill
  \/ \E l \in Mutable : WriteMemory(l)

Spec == Init /\ [][Next]_vars

-----------------------------------------------------------------------------
\* A result without an error is the block of the request, every word of it from one
\* place, as it was at some time since the last flush: no block of a line that was
\* replaced, of a refill that failed halfway, of late answers to it or from before
\* a flush.
RightBlock == results # <<>> /\ ~results[1].error =>
  \E block \in results[1].out :
    /\ results[1].out = {block} /\ Len(block) = BlockWords
    /\ \A i \in 1..BlockWords :
         /\ block[i][1] = LineOf(results[1].addr)
         /\ block[i][2] = results[1].addr.block * BlockWords + i - 1
         /\ block[i][3] \in results[1].may

\* No line is in two ways of its set.
NoDoubleHit == \A i \in 0..Sets - 1 : \A v, w \in 0..Ways - 1 :
                 v # w /\ tags[i][v].valid /\ tags[i][w].valid => tags[i][v].tag # tags[i][w].tag

\* Answers on the bus belong to the refill that runs: none is left when it ends.
BusQuiet == ~active => bus = <<>> /\ ~sending
=============================================================================
