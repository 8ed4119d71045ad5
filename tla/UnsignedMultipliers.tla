------------------------ MODULE UnsignedMultipliers -------------------------
(***************************************************************************)
(* The four unsigned multipliers behind MulUnit                            *)
(* (fu/unsigned_multiplication).  Each is a record of its registers with   *)
(* operators for when issue and accept are ready, the product accept       *)
(* returns, and the registers after a cycle.  `take` says that accept runs *)
(* in the cycle, `new` is <<>> or <<[i1, i2]>>, `leaf` is the leaf         *)
(* multiplier that the transaction scheduler lets use the shared DSP.      *)
(***************************************************************************)
EXTENDS Integers, Sequences, FiniteSetsExt

CONSTANTS
    MulType,        \* "shift", "sequence", "pipelined" or "recursive"
    XLen,           \* isa.xlen
    DspWidth,       \* dsp_width
    DspNumber       \* dsp_number

\* What the parameters must satisfy.
MultiplierAssumption ==
    /\ MulType \in {"shift", "sequence", "pipelined", "recursive"}
    /\ {XLen, DspWidth, DspNumber} \subseteq Nat \ {0}
    /\ MulType = "recursive" => DspWidth > 2      \* elaboration ends

\* Chunk c of word x, in chunks of width w; Cut keeps the low w bits.
Chunk(x, c, w) == (x \div (2^(c * w))) % 2^w
Cut(x, w) == x % 2^w
CeilDiv(a, b) == (a + b - 1) \div b

-----------------------------------------------------------------------------
(***************************************************************************)
(* shift.py: Russian peasants.  The registers keep shifting while the      *)
(* result waits for accept.                                                *)
(***************************************************************************)
ShiftInit == [res |-> 0, i1 |-> 0, i2 |-> 0, accepted |-> TRUE]

ShiftStep(m) ==
    IF m.accepted THEN m
    ELSE [m EXCEPT !.res = Cut(@ + (IF m.i2 % 2 = 1 THEN m.i1 ELSE 0), 2 * XLen),
                   !.i1 = Cut(2 * @, 2 * XLen), !.i2 = @ \div 2]

ShiftDone(m) == ~m.accepted /\ m.i2 = 0

ShiftCycle(m, new, take) ==
    IF new # <<>>
    THEN [res |-> 0, i1 |-> new[1].i1, i2 |-> new[1].i2, accepted |-> FALSE]
    ELSE [ShiftStep(m) EXCEPT !.accepted = @ \/ take]

-----------------------------------------------------------------------------
(***************************************************************************)
(* sequence.py: the operands are halved until a half fits the one DSP;     *)
(* every leaf has its own confirm and result registers.                    *)
(***************************************************************************)
LeafWidth ==
    CHOOSE w \in 1..XLen :
        /\ w <= DspWidth /\ \E k \in 0..XLen : w * 2^k = XLen
        /\ \A v \in 1..XLen : (v <= DspWidth /\ \E k \in 0..XLen : v * 2^k = XLen) => v <= w
Leaves == LET last == (XLen \div LeafWidth) - 1 IN (0..last) \X (0..last)

SequenceInit ==
    [i1 |-> 0, i2 |-> 0, reset |-> FALSE, accepted |-> TRUE,
     confirm |-> [l \in Leaves |-> FALSE], result |-> [l \in Leaves |-> 0]]

\* Leaves whose transaction asks for the DSP; at most one is served.
Asking(m) == {l \in Leaves : ~m.confirm[l] /\ ~m.reset}

LeafStep(m, leaf) ==
    LET a == Chunk(m.i1, leaf[1], LeafWidth)
        b == Chunk(m.i2, leaf[2], LeafWidth)
    IN  [m EXCEPT !.result[leaf] = a * b, !.confirm[leaf] = TRUE]

RECURSIVE SequenceProduct(_, _, _, _)
SequenceProduct(m, n, a, b) ==
    IF n <= DspWidth THEN m.result[<<a, b>>]
    ELSE LET h == n \div 2
             part(x, y) == SequenceProduct(m, h, (2 * a) + x, (2 * b) + y)
         IN Cut(part(0, 0) + ((part(1, 0) + part(0, 1)) * 2^h) + (part(1, 1) * 2^n), 2 * n)

Confirmed(m) == \A l \in Leaves : m.confirm[l]
SequenceDone(m) == ~m.accepted /\ Confirmed(m) /\ ~m.reset

SequenceCycle(m, new, take, leaf) ==
    LET served == IF leaf \in Asking(m) THEN LeafStep(m, leaf) ELSE m
        cleared == IF m.reset THEN [served EXCEPT !.confirm = [l \in Leaves |-> FALSE]] ELSE served
    IN  IF new # <<>>
        THEN [cleared EXCEPT !.i1 = new[1].i1, !.i2 = new[1].i2,
                             !.reset = TRUE, !.accepted = FALSE]
        ELSE [cleared EXCEPT !.reset = FALSE, !.accepted = @ \/ take]

-----------------------------------------------------------------------------
(***************************************************************************)
(* pipelined.py: DspNumber chunk products in a step, then one level of the *)
(* adder tree per cycle.  A finished product that is not taken freezes     *)
(* every register of the pipeline.                                         *)
(***************************************************************************)
NumberOfChunks ==
    CHOOSE c \in {2^k : k \in 0..XLen} :
        c * DspWidth >= XLen /\ \A k \in 0..XLen : 2^k * DspWidth >= XLen => c <= 2^k
ResultLvl == CHOOSE k \in 0..XLen : 2^k = NumberOfChunks
ChunksMul == CeilDiv(XLen, DspWidth)
NumberOfSteps == CeilDiv(ChunksMul * ChunksMul, DspNumber)

ChunksAt(i) == NumberOfChunks \div 2^i
PipelinedInit ==
    [step |-> NumberOfSteps, i1 |-> 0, i2 |-> 0,
     valid |-> [i \in 0..ResultLvl |-> FALSE],
     values |-> [i \in 0..ResultLvl |-> [l \in (0..(ChunksAt(i) - 1)) \X (0..(ChunksAt(i) - 1)) |-> 0]]]

Stalled(m, take) == m.valid[ResultLvl] /\ ~take

PipelinedReady(m, take) == m.step + 1 >= NumberOfSteps /\ ~Stalled(m, take)

\* Level 0: the products that the DSP units compute in this step.
ChunkProducts(m) ==
    [l \in DOMAIN m.values[0] |->
        LET i == (l[1] * ChunksMul) + l[2]
        IN IF l[1] < ChunksMul /\ l[2] < ChunksMul /\ i \div DspNumber = m.step
           THEN Chunk(m.i1, l[1], DspWidth) * Chunk(m.i2, l[2], DspWidth)
           ELSE m.values[0][l]]

\* Level i > 0: four values of the level below, combined.
Combined(below, i, l) ==
    LET w == DspWidth * 2^(i - 1)
        at(x, y) == below[<<(2 * l[1]) + x, (2 * l[2]) + y>>]
    IN Cut(at(0, 0) + ((at(1, 0) + at(0, 1)) * 2^w) + (at(1, 1) * 2^(2 * w)), 4 * w)

PipelinedStep(m) ==
    [m EXCEPT
        !.valid = [i \in 0..ResultLvl |-> IF i = 0 THEN m.step + 1 = NumberOfSteps
                                                   ELSE m.valid[i - 1]],
        !.step = IF m.step < NumberOfSteps THEN m.step + 1 ELSE m.step,
        !.values = [i \in 0..ResultLvl |->
                        IF i = 0 THEN ChunkProducts(m)
                        ELSE [l \in DOMAIN m.values[i] |-> Combined(m.values[i - 1], i, l)]]]

PipelinedCycle(m, new, take) ==
    LET stepped == IF Stalled(m, take) THEN m ELSE PipelinedStep(m)
    IN  IF new # <<>>
        THEN [stepped EXCEPT !.step = 0, !.i1 = new[1].i1, !.i2 = new[1].i2]
        ELSE stepped

-----------------------------------------------------------------------------
(***************************************************************************)
(* fast_recursive.py: Karatsuba in one cycle, results in a FIFO of two.    *)
(***************************************************************************)
RECURSIVE FastRecursiveMul(_, _, _)
FastRecursiveMul(n, a, b) ==
    IF n <= DspWidth THEN a * b
    ELSE LET upper == n \div 2
             lower == (n + 1) \div 2
             low == FastRecursiveMul(lower, Cut(a, lower), Cut(b, lower))
             mid == FastRecursiveMul(lower + 1, Cut(a, lower) + (a \div 2^lower),
                                                Cut(b, lower) + (b \div 2^lower))
             high == FastRecursiveMul(upper, a \div 2^lower, b \div 2^lower)
         IN Cut(low + ((mid - low - high) * 2^lower) + (high * 2^(2 * lower)), 2 * n)

RecursiveCycle(m, new, take) ==
    (IF take THEN Tail(m) ELSE m)
        \o [i \in 1..Len(new) |-> FastRecursiveMul(XLen, new[i].i1, new[i].i2)]

-----------------------------------------------------------------------------
(***************************************************************************)
(* MulBaseUnsigned: the interface MulUnit uses.                            *)
(***************************************************************************)
MultiplierInit ==
    CASE MulType = "shift" -> ShiftInit
      [] MulType = "sequence" -> SequenceInit
      [] MulType = "pipelined" -> PipelinedInit
      [] MulType = "recursive" -> <<>>

IssueReady(m, take) ==
    CASE MulType = "shift" -> m.accepted
      [] MulType = "sequence" -> m.accepted
      [] MulType = "pipelined" -> PipelinedReady(m, take)
      [] MulType = "recursive" -> Len(m) < 2

AcceptReady(m) ==
    CASE MulType = "shift" -> ShiftDone(m)
      [] MulType = "sequence" -> SequenceDone(m)
      [] MulType = "pipelined" -> m.valid[ResultLvl]
      [] MulType = "recursive" -> m # <<>>

Product(m) ==
    CASE MulType = "shift" -> m.res
      [] MulType = "sequence" -> SequenceProduct(m, XLen, 0, 0)
      [] MulType = "pipelined" -> Cut(m.values[ResultLvl][<<0, 0>>], 2 * XLen)
      [] MulType = "recursive" -> m[1]

MultiplierCycle(m, new, take, leaf) ==
    CASE MulType = "shift" -> ShiftCycle(m, new, take)
      [] MulType = "sequence" -> SequenceCycle(m, new, take, leaf)
      [] MulType = "pipelined" -> PipelinedCycle(m, new, take)
      [] MulType = "recursive" -> RecursiveCycle(m, new, take)

\* Which leaf the scheduler may serve in this cycle.
LeafChoices(m) ==
    IF MulType = "sequence" /\ Asking(m) # {} THEN Asking(m) ELSE {<<0, 0>>}
=============================================================================
