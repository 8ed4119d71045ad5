----------------------------- MODULE FetchProofs -----------------------------
(***************************************************************************)
(* The frontend hands the backend one contiguous stream of blocks, for     *)
(* every size of the fetch target queue, number of generations and number  *)
(* of requests in flight.  Pointers are compared by their distance from    *)
(* train_ptr (Pos), which turns the ring into an interval of naturals.     *)
(***************************************************************************)
EXTENDS FetchTargetQueue, SequenceTheorems, TLAPS

Pos(p) == Distance(train_ptr, p)

\* The requests in the fetch unit in the order in which they were sent
Ahead == Len(s1_s2_pipe) + Len(fetch_requests)
Req(k) == IF k <= Len(s1_s2_pipe) THEN s1_s2_pipe[k]
          ELSE IF k <= Ahead THEN fetch_requests[k - Len(s1_s2_pipe)]
          ELSE ftq_ptr_pipe[k - Ahead]

\* How many generations of its entry were started since r was sent
Behind(g, h) == IF g <= h THEN h - g ELSE h + Gens - g
Age(r) == Behind(r.gen, entry_gen[Idx(r.ptr)])

\* The requests of the path being fetched are the last LiveCount ones
LiveCount == Pos(fetch_ptr) - Pos(pred_ptr)

\* No exception has stopped fetch for good: what is in flight will be delivered
Intact == ~(stalled_exception /\ exception_valid /\ ~rolled_back)

\* The address of the block in entry p of the queue
EntryPc(p) == IF s1_pipe # <<>> /\ s1_pipe[1].ptr = p THEN s1_pipe[1].pc
              ELSE prediction_mem[Idx(p)].at

-----------------------------------------------------------------------------
(***************************************************************************)
(* The inductive invariant.                                                *)
(***************************************************************************)
Prediction == [at : Block \cup {Blocks}, cfi : BOOLEAN, to : Block \cup {Blocks}]
Delivered == [pc : Block, jb : AnyExit]
Types ==
    /\ TypeOK
    /\ fetch_requests \in Seq(Request)
    /\ prediction_mem \in [0 .. FtqSize - 1 -> Prediction]
    /\ path \in Seq(Delivered)
    /\ due \in AtMostOne([ptr : Ptr, pc : Block, starts : BOOLEAN])

\* The delivered blocks that are not trained with yet lie between train_ptr and
\* pred_ptr
PathOrdered ==
    /\ Len(path) <= Pos(pred_ptr)
    /\ path = <<>> => Pos(pred_ptr) = 0
    /\ path # <<>> => Pos(commit_ptr) < Len(path)
    /\ Intact => Len(path) = Pos(pred_ptr)

\* How far fetch can be while the stall controller or the RAS recovers
Stalls ==
    /\ exception_valid => path # <<>>
    /\ rolled_back => exception_valid /\ ras_resp
    /\ ras_resp => pred_ptr = alloc_ptr /\ prev_half = <<>> /\ due # <<>>
    /\ stalled_exception /\ ~exception_valid => LiveCount <= Len(ftq_ptr_pipe)

\* Where the requests in flight point, and how many generations old they are
RequestsPlaced ==
    \A k \in 1 .. Inflight :
        /\ Pos(pred_ptr) <= Pos(Req(k).ptr) /\ Pos(Req(k).ptr) < FtqSize
        /\ Age(Req(k)) <= Inflight - k

\* The live requests are those of the entries from pred_ptr to fetch_ptr
RequestsLive ==
  Intact =>
    /\ LiveCount <= Inflight
    /\ \A k \in 1 .. Inflight :
         IF k <= Inflight - LiveCount
         THEN Pos(fetch_ptr) <= Pos(Req(k).ptr) \/ Age(Req(k)) > 0
         ELSE /\ Pos(Req(k).ptr) = Pos(fetch_ptr) - (Inflight - k) - 1
              /\ Age(Req(k)) = 0
              /\ Req(k).pc = EntryPc(Req(k).ptr)

\* The entries from pred_ptr to alloc_ptr lead from one to the next
Linked ==
    \A p \in Ptr :
        /\ (Pos(pred_ptr) <= Pos(p) /\ Pos(p) + 1 < Pos(alloc_ptr)) =>
              EntryPc(Succ(p)) = prediction_mem[Idx(p)].to
        /\ (Pos(fetch_ptr) <= Pos(p) /\ Pos(p) < Pos(alloc_ptr)) =>
              pc_mem[Idx(p)] = EntryPc(p) /\ pc_mem[Idx(p)] \in Block

\* What will be allocated next
Continues ==
    /\ s1_pipe # <<>> =>
         /\ req_valid /\ next_fetch_addr = <<>> /\ pred_ptr # alloc_ptr
         /\ Succ(s1_pipe[1].ptr) = alloc_ptr
         /\ fetch_ptr = alloc_ptr /\ Intact => ftq_ptr_pipe # <<>>
    /\ \A p \in Ptr :
         (s1_pipe = <<>> /\ pred_ptr # alloc_ptr /\ Succ(p) = alloc_ptr) =>
            next_fetch_addr = <<prediction_mem[Idx(p)].to>>

\* The block that is due is the oldest one not delivered; when none is due after
\* a halt, nothing is allocated and fetch waits for the backend
DueNext ==
    /\ due # <<>> =>
         /\ due[1].ptr = pred_ptr
         /\ pred_ptr # alloc_ptr => EntryPc(pred_ptr) = due[1].pc
         /\ pred_ptr = alloc_ptr => next_fetch_addr = <<due[1].pc>>
    /\ Intact /\ due = <<>> => pred_ptr = alloc_ptr /\ next_fetch_addr = <<>>

\* The first half of an instruction is carried to the block that is due, unless
\* the fetch unit follows a jump over it
HeadLive == s1_s2_pipe # <<>> /\ LiveCount = Inflight
HalfCarried ==
    Intact /\ ~JumpsOverHalf =>
        /\ HeadLive => prev_half = IF s1_s2_pipe[1].ends THEN <<s1_s2_pipe[1].pc>> ELSE <<>>
        /\ HeadLive => due # <<>> /\ s1_s2_pipe[1].starts = due[1].starts
        /\ ~HeadLive /\ due # <<>> =>
              due[1].starts = (prev_half # <<>> /\ Sequential(prev_half[1]) = due[1].pc)

\* The records of the delivered blocks, from train_ptr on
RecordsMatch ==
    \A i \in DOMAIN path :
        LET idx == Idx(train_ptr + i - 1)
        IN /\ prediction_mem[idx].at = path[i].pc
           /\ jb_unit_prediction_mem[idx] = path[i].jb

FetchInv ==
    /\ Types /\ PointersOrdered /\ PathOrdered /\ Stalls
    /\ RequestsPlaced /\ RequestsLive /\ Linked /\ Continues /\ DueNext
    /\ HalfCarried /\ RecordsMatch

-----------------------------------------------------------------------------
(***************************************************************************)
(* Arithmetic of the ring.                                                 *)
(***************************************************************************)
\* Division of numbers below three times the divisor, the only ones that occur.
LEMMA SmallMod ==
    ASSUME NEW m \in Nat, m > 0, NEW x \in Nat
    PROVE  /\ x < m => x % m = x /\ x \div m = 0
           /\ x >= m /\ x < 2 * m => x % m = x - m /\ x \div m = 1
           /\ x >= 2 * m /\ x < 3 * m => x % m = x - 2 * m
OBVIOUS

\* Pointers, their parts and their successors.
LEMMA Pointers ==
    /\ FtqSize \in Nat /\ FtqSize > 1
    /\ \A p \in Ptr : /\ p \in Nat /\ p < 2 * FtqSize
                      /\ Idx(p) = IF p < FtqSize THEN p ELSE p - FtqSize
                      /\ Parity(p) = IF p < FtqSize THEN 0 ELSE 1
                      /\ Succ(p) = IF p + 1 = 2 * FtqSize THEN 0 ELSE p + 1
    /\ \A p, q \in Ptr : Distance(p, q) = IF p <= q THEN q - p ELSE q + 2 * FtqSize - p
<1>1. FtqSize \in Nat /\ FtqSize > 1
  BY SizesAssumption
<1>2. ASSUME NEW p \in Ptr
      PROVE  /\ p \in Nat /\ p < 2 * FtqSize
             /\ Idx(p) = IF p < FtqSize THEN p ELSE p - FtqSize
             /\ Parity(p) = IF p < FtqSize THEN 0 ELSE 1
             /\ Succ(p) = IF p + 1 = 2 * FtqSize THEN 0 ELSE p + 1
  <2>1. p \in Nat /\ p < 2 * FtqSize
    BY <1>1 DEF Ptr
  <2>2. /\ Idx(p) = IF p < FtqSize THEN p ELSE p - FtqSize
        /\ Parity(p) = IF p < FtqSize THEN 0 ELSE 1
    BY <1>1, <2>1, SmallMod DEF Idx, Parity
  <2>3. Succ(p) = IF p + 1 = 2 * FtqSize THEN 0 ELSE p + 1
    <3>1. 2 * FtqSize \in Nat /\ 2 * FtqSize > 0 /\ p + 1 \in Nat
      BY <1>1, <2>1
    <3>2. p + 1 < 2 * FtqSize \/ p + 1 = 2 * FtqSize
      BY <2>1, <3>1
    <3> QED BY <3>1, <3>2, SmallMod DEF Succ
  <2> QED BY <2>1, <2>2, <2>3
<1>3. ASSUME NEW p \in Ptr, NEW q \in Ptr
      PROVE  Distance(p, q) = IF p <= q THEN q - p ELSE q + 2 * FtqSize - p
  <2>1. PICK m \in Nat : m = 2 * FtqSize /\ m > 0
    BY <1>1
  <2>2. p \in Nat /\ q \in Nat /\ p < m /\ q < m
    BY <1>2, <2>1
  <2>3. q + m - p \in Nat /\ q + m - p < 2 * m
    BY <2>1, <2>2
  <2>4. (q + m - p) % m = IF p <= q THEN q - p ELSE q + m - p
    BY <2>1, <2>2, <2>3, SmallMod
  <2> QED BY <2>1, <2>4 DEF Distance
<1> QED BY <1>1, <1>2, <1>3

\* Positions: the distances of pointers from a pointer t.
LEMMA Positions ==
    ASSUME NEW t \in Ptr, NEW p \in Ptr
    PROVE  /\ Distance(t, p) \in Nat /\ Distance(t, p) < 2 * FtqSize
           /\ Distance(t, t) = 0
           /\ Succ(p) \in Ptr /\ Succ(p) # p
           /\ Distance(t, p) + 1 < 2 * FtqSize => Distance(t, Succ(p)) = Distance(t, p) + 1
           /\ Distance(t, p) + 1 = 2 * FtqSize => Succ(p) = t
           /\ Distance(t, p) > 0 => Distance(Succ(t), p) = Distance(t, p) - 1
           /\ Idx(p) \in 0 .. FtqSize - 1
<1>1. Succ(p) \in Ptr /\ Succ(t) \in Ptr
  <2>1. ASSUME NEW x \in Nat, x < 2 * FtqSize PROVE x \in Ptr
    BY <2>1, SizesAssumption DEF Ptr
  <2>2. /\ Succ(p) \in Nat /\ Succ(p) < 2 * FtqSize
        /\ Succ(t) \in Nat /\ Succ(t) < 2 * FtqSize
    BY Pointers
  <2> QED BY <2>1, <2>2
<1>2. t \in Nat /\ p \in Nat /\ t < 2 * FtqSize /\ p < 2 * FtqSize /\ FtqSize \in Nat
  BY Pointers
<1>3. Distance(t, p) \in Nat /\ Distance(t, p) < 2 * FtqSize /\ Distance(t, t) = 0
  BY <1>2, Pointers
<1>4. Distance(t, p) + 1 < 2 * FtqSize => Distance(t, Succ(p)) = Distance(t, p) + 1
  BY <1>1, <1>2, Pointers
<1>5. Distance(t, p) > 0 => Distance(Succ(t), p) = Distance(t, p) - 1
  BY <1>1, <1>2, Pointers
<1>6. Idx(p) \in 0 .. FtqSize - 1 /\ Succ(p) # p
  BY <1>2, Pointers
<1>7. Distance(t, p) + 1 = 2 * FtqSize => Succ(p) = t
  BY <1>2, Pointers
<1> QED BY <1>1, <1>3, <1>4, <1>5, <1>6, <1>7

LEMMA PositionsUnique ==
    ASSUME NEW t \in Ptr, NEW p \in Ptr, NEW q \in Ptr
    PROVE  /\ Distance(t, p) = Distance(t, q) => p = q
           /\ Succ(p) = Succ(q) => p = q
           /\ (Distance(t, p) < FtqSize /\ Distance(t, q) < FtqSize /\ Idx(p) = Idx(q)) => p = q
BY Pointers

\* Comparing pointers is comparing positions.
LEMMA Comparisons ==
    ASSUME NEW t \in Ptr, NEW p \in Ptr, NEW q \in Ptr, Distance(t, p) <= FtqSize, Distance(t, q) <= FtqSize
    PROVE  /\ Distance(t, p) <= Distance(t, q) => (Less(p, q) <=> Distance(t, p) < Distance(t, q))
           /\ Distance(t, p) < FtqSize => (AtOrPast(p, q) <=> Distance(t, p) >= Distance(t, q))
           /\ QueueFull(p, t) <=> Distance(t, p) = FtqSize
<1>1. Distance(t, p) <= Distance(t, q) => (Less(p, q) <=> Distance(t, p) < Distance(t, q))
  BY Pointers DEF Less
<1>2. Distance(t, p) < FtqSize => (AtOrPast(p, q) <=> Distance(t, p) >= Distance(t, q))
  BY Pointers DEF AtOrPast
<1>3. QueueFull(p, t) <=> Distance(t, p) = FtqSize
  BY Pointers DEF QueueFull
<1> QED BY <1>1, <1>2, <1>3

\* The pointer at a position.
LEMMA PositionTaken ==
    ASSUME NEW t \in Ptr, NEW x \in Nat, x < FtqSize
    PROVE  \E p \in Ptr : /\ Distance(t, p) = x /\ Idx(p) = Idx(t + x)
                          /\ p = (t + x) % (2 * FtqSize)
<1>1. /\ t \in Nat /\ t < 2 * FtqSize /\ FtqSize \in Nat /\ FtqSize > 0
      /\ 2 * FtqSize \in Nat /\ 2 * FtqSize > 0 /\ t + x \in Nat
  BY Pointers
<1>2. PICK p : p = IF t + x < 2 * FtqSize THEN t + x ELSE t + x - 2 * FtqSize
  OBVIOUS
<1>3. p \in Ptr
  BY <1>1, <1>2 DEF Ptr
<1>4. Distance(t, p) = x
  BY <1>1, <1>2, <1>3, Pointers
<1>5. p = (t + x) % (2 * FtqSize)
  BY <1>1, <1>2, SmallMod
<1>6. Idx(t + x) = IF t + x < FtqSize THEN t + x
                   ELSE IF t + x < 2 * FtqSize THEN t + x - FtqSize ELSE t + x - 2 * FtqSize
  BY <1>1, SmallMod DEF Idx
<1>7. Idx(p) = Idx(t + x)
  BY <1>1, <1>2, <1>3, <1>6, Pointers
<1> QED BY <1>3, <1>4, <1>5, <1>7

\* An entry of the memories is kept if its pointer is in the range.
LEMMA Ranges ==
    ASSUME NEW t \in Ptr, NEW from \in Ptr, NEW to \in Ptr, NEW p \in Ptr,
           Distance(t, from) <= Distance(t, p), Distance(t, p) < FtqSize,
           Distance(t, from) <= Distance(t, to)
    PROVE  InRange(Idx(p), from, to) <=> Distance(t, p) < Distance(t, to)
<1>1. /\ t \in Nat /\ t < 2 * FtqSize /\ from \in Nat /\ from < 2 * FtqSize
      /\ to \in Nat /\ to < 2 * FtqSize /\ p \in Nat /\ p < 2 * FtqSize
      /\ FtqSize \in Nat /\ FtqSize > 0
  BY Pointers
<1>2. Distance(from, to) = Distance(t, to) - Distance(t, from)
  BY <1>1, Pointers
<1>3. Distance(from, p) = Distance(t, p) - Distance(t, from) /\ Distance(from, p) < FtqSize
  BY <1>1, Pointers
<1>4. PICK x \in Nat : x = Idx(p) + FtqSize - Idx(from) /\ x < 2 * FtqSize
  BY <1>1, Pointers
<1>5. x % FtqSize = IF x < FtqSize THEN x ELSE x - FtqSize
  BY <1>1, <1>4, SmallMod
<1>6. x % FtqSize = Distance(from, p)
  BY <1>1, <1>3, <1>4, <1>5, Pointers
<1> QED BY <1>1, <1>2, <1>3, <1>4, <1>6, Pointers DEF InRange

-----------------------------------------------------------------------------
(***************************************************************************)
(* One cycle, whatever the backend does in it.                             *)
(***************************************************************************)
\* What the backend may do, in positions
QuietBackend(keep) ==
    /\ keep \in Nat /\ keep <= Len(path)
    /\ StallFlush => Pos(commit_ptr) < keep /\ commit_ptr' = commit_ptr
    /\ ~StallFlush \/ rolled_back => keep = Len(path)
    /\ IF path = <<>> THEN commit_ptr' = commit_ptr ELSE Distance(train_ptr, commit_ptr') < Len(path)
    /\ exception_valid /\ ~rolled_back => exception_valid'
RedirectBackend(r) ==
    /\ r \in [ptr : Ptr, pc : Block] /\ path # <<>>
    /\ Distance(train_ptr, commit_ptr') <= Pos(r.ptr) /\ Pos(r.ptr) < Len(path)
Backend(rd, keep) ==
    /\ commit_ptr' \in Ptr /\ Pos(commit_ptr) <= Distance(train_ptr, commit_ptr')
    /\ exception_valid' \in BOOLEAN /\ rolled_back' \in BOOLEAN
    /\ exception_valid' => path # <<>>
    /\ rolled_back' => exception_valid' /\ rd # <<>>
    /\ \/ rd = <<>> /\ QuietBackend(keep)
       \/ \E r : rd = <<r>> /\ RedirectBackend(r)

\* What the predictor and the fetched block may say
Inputs(waits, pr, half, e, other) ==
    /\ pr \in IF PredictFires THEN Predictions(s1_pipe[1].pc) ELSE {Halt}
    /\ half \in BOOLEAN /\ other \in BOOLEAN
    /\ e \in IF Delivers(waits) THEN Predictions(s1_s2_pipe[1].pc) \cup {Halt} ELSE {Halt}

Step(waits, pr, half, e, other, rd, keep) ==
    /\ FetchCycle(waits, pr, half, e, other, rd, keep)
    /\ Inputs(waits, pr, half, e, other) /\ Backend(rd, keep)

\* The pointers in order, as numbers.
LEMMA PointerOrder ==
    ASSUME FetchInv
    PROVE  /\ train_ptr \in Ptr /\ commit_ptr \in Ptr /\ pred_ptr \in Ptr
           /\ fetch_ptr \in Ptr /\ alloc_ptr \in Ptr
           /\ Pos(commit_ptr) \in Nat /\ Pos(pred_ptr) \in Nat /\ Pos(fetch_ptr) \in Nat
           /\ Pos(alloc_ptr) \in Nat /\ FtqSize \in Nat /\ FtqSize > 1
           /\ Pos(commit_ptr) <= Pos(pred_ptr) /\ Pos(pred_ptr) <= Pos(fetch_ptr)
           /\ Pos(fetch_ptr) <= Pos(alloc_ptr) /\ Pos(alloc_ptr) <= FtqSize
           /\ path \in Seq(Delivered) /\ Len(path) \in Nat /\ Len(path) <= Pos(pred_ptr)
<1>1. /\ train_ptr \in Ptr /\ commit_ptr \in Ptr /\ pred_ptr \in Ptr
      /\ fetch_ptr \in Ptr /\ alloc_ptr \in Ptr /\ path \in Seq(Delivered)
  BY DEF FetchInv, Types, TypeOK
<1>2. /\ Pos(commit_ptr) \in Nat /\ Pos(pred_ptr) \in Nat /\ Pos(fetch_ptr) \in Nat
      /\ Pos(alloc_ptr) \in Nat
  BY <1>1, Positions DEF Pos
<1>3. /\ Pos(commit_ptr) <= Pos(pred_ptr) /\ Pos(pred_ptr) <= Pos(fetch_ptr)
      /\ Pos(fetch_ptr) <= Pos(alloc_ptr) /\ Pos(alloc_ptr) <= FtqSize
  BY DEF FetchInv, PointersOrdered, Pos
<1>4. Len(path) \in Nat /\ Len(path) <= Pos(pred_ptr)
  BY <1>1 DEF FetchInv, PathOrdered
<1> QED BY <1>1, <1>2, <1>3, <1>4, SizesAssumption

LEMMA LastPosition ==
    ASSUME FetchInv, path # <<>>
    PROVE  LastPtr \in Ptr /\ Pos(LastPtr) = Len(path) - 1
<1>1. path \in Seq(Delivered) /\ Len(path) \in Nat /\ Len(path) <= FtqSize /\ train_ptr \in Ptr
  BY PointerOrder
<1>2. Len(path) - 1 \in Nat /\ Len(path) - 1 < FtqSize
  BY <1>1, SizesAssumption
<1>3. PICK x \in Nat : x = Len(path) - 1 /\ x < FtqSize
  BY <1>2
<1>4. PICK p \in Ptr : Distance(train_ptr, p) = x /\ p = (train_ptr + x) % (2 * FtqSize)
  BY <1>1, <1>3, PositionTaken
<1>5. train_ptr + x = train_ptr + Len(path) - 1
  BY <1>1, <1>3, Pointers
<1> QED BY <1>3, <1>4, <1>5 DEF LastPtr, Pos

LEMMA CommitPosition ==
    ASSUME FetchInv, NEW p \in Ptr, NEW c \in Commits(p)
    PROVE  c \in Ptr /\ Pos(commit_ptr) <= Pos(c) /\ Pos(c) <= Pos(p)
<1>1. train_ptr \in Ptr /\ commit_ptr \in Ptr
  BY DEF FetchInv, Types, TypeOK
<1>2. c \in Ptr /\ At(c) \in At(commit_ptr) .. At(p)
  BY DEF Commits, OldestUncommitted
<1>3. Pos(c) \in Nat /\ Pos(commit_ptr) \in Nat /\ Pos(p) \in Nat
  BY <1>1, <1>2, Positions DEF Pos
<1> QED BY <1>2, <1>3 DEF At, Pos

\* The block in stage 2, and the ways out of a block.
LEMMA HeadType ==
    ASSUME FetchInv, s1_s2_pipe # <<>>
    PROVE  /\ Len(s1_s2_pipe) = 1
           /\ s1_s2_pipe[1] \in [ptr : Ptr, gen : 0 .. Gens - 1, pc : Block,
                                  starts : BOOLEAN, ends : BOOLEAN]
           /\ s1_s2_pipe[1].pc \in Block /\ s1_s2_pipe[1].ptr \in Ptr
           /\ s1_s2_pipe[1].ends \in BOOLEAN /\ s1_s2_pipe[1].starts \in BOOLEAN
<1>1. PICK x \in [ptr : Ptr, gen : 0 .. Gens - 1, pc : Block, starts : BOOLEAN, ends : BOOLEAN] :
        s1_s2_pipe = <<x>>
  BY DEF FetchInv, Types, TypeOK, AtMostOne
<1> QED BY <1>1

LEMMA NextBlock ==
    ASSUME NEW b \in Block PROVE Sequential(b) \in Block
<1>1. b \in Nat /\ b < Blocks /\ Blocks \in Nat /\ Blocks > 0 /\ b + 1 \in Nat
  BY SizesAssumption DEF Block
<1>2. (b + 1) % Blocks \in Nat /\ (b + 1) % Blocks < Blocks
  BY <1>1
<1> QED BY <1>1, <1>2 DEF Block, Sequential

LEMMA Exits ==
    ASSUME NEW b \in Block, NEW e \in Predictions(b) \cup {Halt}
    PROVE  /\ e.cfi \in BOOLEAN /\ e \in AnyExit /\ e = [cfi |-> e.cfi, to |-> e.to]
           /\ e.to \in Block \cup {Blocks}
           /\ e # Halt => e.to \in Block
           /\ e # Halt /\ e.cfi = FALSE => e = FallThrough(b)
           /\ FallThrough(b) = [cfi |-> FALSE, to |-> Sequential(b)]
<1>1. FallThrough(b) = [cfi |-> FALSE, to |-> Sequential(b)] /\ Sequential(b) \in Block
  BY NextBlock DEF FallThrough
<1>2. Halt = [cfi |-> FALSE, to |-> Blocks]
  BY DEF Halt
<1>3. CASE e \in Jumps
  <2>1. e.cfi = TRUE /\ e.to \in Block /\ e = [cfi |-> e.cfi, to |-> e.to] /\ e \in AnyExit
    BY <1>3 DEF Jumps, AnyExit
  <2>2. TRUE # FALSE /\ TRUE \in BOOLEAN
    OBVIOUS
  <2> QED BY <1>1, <2>1, <2>2
<1>4. CASE e = FallThrough(b)
  <2>1. e.cfi = FALSE /\ e.to \in Block /\ e = [cfi |-> e.cfi, to |-> e.to]
    BY <1>1, <1>4
  <2>2. e \in [cfi : {FALSE}, to : Block \cup {Blocks}]
    BY <1>1, <1>4
  <2> QED BY <1>1, <1>4, <2>1, <2>2 DEF AnyExit
<1>5. CASE e = Halt
  <2>1. e.cfi = FALSE /\ e.to = Blocks /\ e = [cfi |-> e.cfi, to |-> e.to]
    BY <1>2, <1>5
  <2>2. e \in [cfi : {FALSE}, to : Block \cup {Blocks}]
    BY <1>2, <1>5
  <2> QED BY <1>1, <1>5, <2>1, <2>2 DEF AnyExit
<1> QED BY <1>3, <1>4, <1>5 DEF Predictions

\* Every step is such a cycle.
LEMMA NextIsStep ==
    ASSUME FetchInv, Next
    PROVE  \E waits, pr, half, e, other, rd, keep : Step(waits, pr, half, e, other, rd, keep)
<1> DEFINE Params(waits, pr, half, e, other) ==
      /\ pr \in IF PredictFires THEN Predictions(s1_pipe[1].pc) ELSE {Halt}
      /\ half \in {FALSE, Compressed /\ Stage1Fires(waits)}
      /\ e \in IF Delivers(waits) THEN Predictions(s1_s2_pipe[1].pc) \cup {Halt} ELSE {Halt}
      /\ other \in {FALSE, e.cfi}
<1>1. ASSUME NEW waits, NEW rd, NEW keep, AnyFetchCycle(waits, rd, keep), Backend(rd, keep)
      PROVE  \E pr, half, e, other : Step(waits, pr, half, e, other, rd, keep)
  <2>1. PICK pr, half, e, other : Params(waits, pr, half, e, other)
                                  /\ FetchCycle(waits, pr, half, e, other, rd, keep)
    BY <1>1 DEF AnyFetchCycle
  <2>2. e.cfi \in BOOLEAN
    <3>1. CASE Delivers(waits)
      <4>1. s1_s2_pipe # <<>>
        BY <3>1 DEF Delivers, Stage2Fires
      <4>2. s1_s2_pipe[1].pc \in Block
        BY <4>1, HeadType
      <4>3. e \in Predictions(s1_s2_pipe[1].pc) \cup {Halt}
        BY <2>1, <3>1
      <4> QED BY <4>2, <4>3, Exits
    <3>2. CASE ~Delivers(waits)
      <4>1. e = Halt
        BY <2>1, <3>2
      <4>2. Halt.cfi = FALSE
        BY DEF Halt
      <4> QED BY <4>1, <4>2
    <3> QED BY <3>1, <3>2
  <2>3. half \in BOOLEAN
    <3>1. (Compressed /\ Stage1Fires(waits)) \in BOOLEAN
      OBVIOUS
    <3> QED BY <2>1, <3>1
  <2>4. Inputs(waits, pr, half, e, other)
    BY <2>1, <2>2, <2>3 DEF Inputs
  <2> QED BY <1>1, <2>1, <2>4 DEF Step
<1>2. /\ exception_valid \in BOOLEAN /\ rolled_back \in BOOLEAN /\ stalled_exception \in BOOLEAN
      /\ exception_valid => path # <<>>
      /\ path # <<>> => Pos(commit_ptr) < Len(path)
      /\ path = <<>> => Pos(pred_ptr) = 0
  BY DEF FetchInv, Types, TypeOK, Stalls, PathOrdered
<1>3. PICK waits : NoRedirect(waits, {FALSE, MayReport}) \/ Rollback(waits) \/ TrapResume(waits)
  BY DEF Next
<1>4. ASSUME NEW report, report \in {FALSE, MayReport}, NEW trap \in BOOLEAN, NEW kills \in BOOLEAN,
             kills => report \/ (exception_valid /\ ~rolled_back), kills => ~trap,
             ExceptionCycle(report, trap, kills)
      PROVE  /\ exception_valid' \in BOOLEAN /\ rolled_back' \in BOOLEAN
             /\ exception_valid' => path # <<>>
             /\ rolled_back' => exception_valid'
             /\ exception_valid /\ ~rolled_back /\ ~trap => exception_valid'
  BY <1>2, <1>4 DEF ExceptionCycle, MayReport
<1>5. CASE NoRedirect(waits, {FALSE, MayReport})
  <2>1. PICK report \in {FALSE, MayReport},
             keep \in IF StallFlush /\ ~rolled_back THEN OldestUncommitted .. Len(path) ELSE {Len(path)} :
               /\ commit_ptr' \in IF StallFlush \/ path = <<>> THEN {commit_ptr} ELSE Commits(LastPtr)
               /\ ExceptionCycle(report, FALSE, FALSE)
               /\ AnyFetchCycle(waits, <<>>, keep)
    BY <1>5 DEF NoRedirect
  <2>2. /\ commit_ptr' \in Ptr /\ Pos(commit_ptr) <= Distance(train_ptr, commit_ptr')
        /\ path # <<>> => Distance(train_ptr, commit_ptr') < Len(path)
    <3>1. CASE StallFlush \/ path = <<>>
      BY <1>2, <2>1, <3>1, PointerOrder DEF Pos
    <3>2. CASE ~(StallFlush \/ path = <<>>)
      <4>1. LastPtr \in Ptr /\ Pos(LastPtr) = Len(path) - 1
        BY <3>2, LastPosition
      <4>2. commit_ptr' \in Commits(LastPtr)
        BY <2>1, <3>2
      <4>3. commit_ptr' \in Ptr /\ Pos(commit_ptr) <= Distance(train_ptr, commit_ptr')
            /\ Distance(train_ptr, commit_ptr') <= Len(path) - 1
        BY <4>1, <4>2, CommitPosition DEF Pos
      <4>4. Distance(train_ptr, commit_ptr') \in Nat
        BY <4>3, PointerOrder, Positions
      <4> QED BY <4>3, <4>4, PointerOrder
    <3> QED BY <3>1, <3>2
  <2>3. keep \in Nat /\ keep <= Len(path) /\ (StallFlush => Pos(commit_ptr) < keep)
    <3>1. OldestUncommitted = Pos(commit_ptr) + 1
      BY DEF OldestUncommitted, At, Pos
    <3>2. Len(path) \in Nat /\ Pos(commit_ptr) \in Nat
      BY PointerOrder
    <3>3. StallFlush => path # <<>> /\ Pos(commit_ptr) < Len(path)
      BY <1>2 DEF StallFlush
    <3>4. CASE StallFlush /\ ~rolled_back
      BY <2>1, <3>1, <3>2, <3>4
    <3>5. CASE ~(StallFlush /\ ~rolled_back)
      BY <2>1, <3>2, <3>3, <3>5
    <3> QED BY <3>4, <3>5
  <2>4. /\ exception_valid' \in BOOLEAN /\ rolled_back' \in BOOLEAN
        /\ exception_valid' => path # <<>>
        /\ ~rolled_back'
        /\ exception_valid /\ ~rolled_back => exception_valid'
    <3>1. rolled_back' = FALSE
      BY <2>1 DEF ExceptionCycle
    <3>2. /\ exception_valid' \in BOOLEAN /\ rolled_back' \in BOOLEAN
          /\ exception_valid' => path # <<>>
          /\ exception_valid /\ ~rolled_back /\ ~FALSE => exception_valid'
      BY <1>4, <2>1
    <3> QED BY <3>1, <3>2
  <2>5. QuietBackend(keep)
    BY <2>1, <2>2, <2>3, <2>4 DEF QuietBackend
  <2>6. Backend(<<>>, keep)
    BY <2>2, <2>4, <2>5 DEF Backend
  <2> QED BY <1>1, <2>1, <2>6
<1>6. CASE Rollback(waits)
  <2>1. PICK p \in Commits(LastPtr), pc \in Block, report \in {FALSE, MayReport}, kills \in BOOLEAN :
          /\ kills => report \/ (exception_valid /\ ~rolled_back)
          /\ commit_ptr' \in Commits(p)
          /\ ExceptionCycle(report, FALSE, kills)
          /\ AnyFetchCycle(waits, <<[ptr |-> p, pc |-> pc]>>, 0)
    BY <1>6 DEF Rollback
  <2>2. path # <<>>
    BY <1>6 DEF Rollback
  <2>3. p \in Ptr /\ Pos(p) <= Len(path) - 1
    BY <2>1, <2>2, LastPosition, CommitPosition
  <2>4. /\ commit_ptr' \in Ptr /\ Pos(commit_ptr) <= Distance(train_ptr, commit_ptr')
        /\ Distance(train_ptr, commit_ptr') <= Pos(p)
    BY <2>1, <2>3, CommitPosition DEF Pos
  <2>5. Pos(p) \in Nat /\ Len(path) \in Nat
    BY <2>3, PointerOrder, Positions DEF Pos
  <2>6. RedirectBackend([ptr |-> p, pc |-> pc])
    <3>1. [ptr |-> p, pc |-> pc] \in [ptr : Ptr, pc : Block] /\ [ptr |-> p, pc |-> pc].ptr = p
      BY <2>1, <2>3
    <3>2. Pos(p) < Len(path)
      BY <2>3, <2>5
    <3> QED BY <2>2, <2>4, <3>1, <3>2 DEF RedirectBackend
  <2>7. /\ exception_valid' \in BOOLEAN /\ rolled_back' \in BOOLEAN
        /\ exception_valid' => path # <<>>
        /\ rolled_back' => exception_valid'
    BY <1>4, <2>1
  <2>8. Backend(<<[ptr |-> p, pc |-> pc]>>, 0)
    <3>1. <<[ptr |-> p, pc |-> pc]>> # <<>>
      OBVIOUS
    <3> QED BY <2>4, <2>6, <2>7, <3>1 DEF Backend
  <2> QED BY <1>1, <2>1, <2>8
<1>7. CASE TrapResume(waits)
  <2>1. PICK pc \in Block : AnyFetchCycle(waits, <<[ptr |-> commit_ptr, pc |-> pc]>>, 0)
    BY <1>7 DEF TrapResume
  <2>2. exception_valid /\ commit_ptr' = commit_ptr /\ ExceptionCycle(FALSE, TRUE, FALSE)
    BY <1>7 DEF TrapResume
  <2>3. path # <<>> /\ commit_ptr \in Ptr /\ Pos(commit_ptr) < Len(path) /\ Pos(commit_ptr) \in Nat
    BY <1>2, <2>2, PointerOrder
  <2>4. RedirectBackend([ptr |-> commit_ptr, pc |-> pc])
    <3>1. /\ [ptr |-> commit_ptr, pc |-> pc] \in [ptr : Ptr, pc : Block]
          /\ [ptr |-> commit_ptr, pc |-> pc].ptr = commit_ptr
      BY <2>1, <2>3
    <3>2. Distance(train_ptr, commit_ptr') = Pos(commit_ptr)
      BY <2>2 DEF Pos
    <3> QED BY <2>3, <3>1, <3>2 DEF RedirectBackend
  <2>5. /\ exception_valid' \in BOOLEAN /\ rolled_back' \in BOOLEAN
        /\ ~exception_valid' /\ ~rolled_back'
    BY <2>2 DEF ExceptionCycle
  <2>6. Backend(<<[ptr |-> commit_ptr, pc |-> pc]>>, 0)
    <3>1. commit_ptr' \in Ptr /\ Pos(commit_ptr) <= Distance(train_ptr, commit_ptr')
      BY <2>2, <2>3 DEF Pos
    <3> QED BY <2>4, <2>5, <3>1 DEF Backend
  <2> QED BY <1>1, <2>1, <2>6
<1> QED BY <1>3, <1>5, <1>6, <1>7

-----------------------------------------------------------------------------
(***************************************************************************)
(* Which parts of the pipeline fire, and which requests are stale.         *)
(***************************************************************************)
LEMMA PipeLengths ==
    ASSUME FetchInv
    PROVE  /\ Len(s1_s2_pipe) \in Nat /\ Len(s1_s2_pipe) <= 1 /\ (s1_s2_pipe = <<>> <=> Len(s1_s2_pipe) = 0)
           /\ Len(ftq_ptr_pipe) \in Nat /\ Len(ftq_ptr_pipe) <= 1
           /\ (ftq_ptr_pipe = <<>> <=> Len(ftq_ptr_pipe) = 0)
           /\ Len(fetch_requests) \in Nat /\ Len(fetch_requests) <= 2
           /\ (fetch_requests = <<>> <=> Len(fetch_requests) = 0)
           /\ Inflight \in Nat /\ Ahead \in Nat /\ Inflight = Ahead + Len(ftq_ptr_pipe)
           /\ LiveCount \in Nat
<1>1. Len(s1_s2_pipe) \in Nat /\ Len(s1_s2_pipe) <= 1 /\ (s1_s2_pipe = <<>> <=> Len(s1_s2_pipe) = 0)
  <2>1. CASE s1_s2_pipe = <<>>
    BY <2>1
  <2>2. CASE s1_s2_pipe # <<>>
    <3>1. Len(s1_s2_pipe) = 1
      BY <2>2, HeadType
    <3> QED BY <2>2, <3>1
  <2> QED BY <2>1, <2>2
<1>2. Len(ftq_ptr_pipe) \in Nat /\ Len(ftq_ptr_pipe) <= 1 /\ (ftq_ptr_pipe = <<>> <=> Len(ftq_ptr_pipe) = 0)
  <2>1. CASE ftq_ptr_pipe = <<>>
    BY <2>1
  <2>2. CASE ftq_ptr_pipe # <<>>
    <3>1. PICK x \in Request : ftq_ptr_pipe = <<x>>
      BY <2>2 DEF FetchInv, Types, TypeOK, AtMostOne
    <3> QED BY <3>1
  <2> QED BY <2>1, <2>2
<1>3. /\ Len(fetch_requests) \in Nat /\ Len(fetch_requests) <= 2
      /\ (fetch_requests = <<>> <=> Len(fetch_requests) = 0)
  BY DEF FetchInv, Types, TypeOK
<1>4. LiveCount \in Nat
  BY PointerOrder DEF LiveCount
<1> QED BY <1>1, <1>2, <1>3, <1>4 DEF Inflight, Ahead

LEMMA ReqType ==
    ASSUME FetchInv, NEW k \in 1 .. Inflight
    PROVE  /\ Req(k).ptr \in Ptr /\ Req(k).gen \in 0 .. Gens - 1 /\ Req(k).pc \in Block
           /\ Pos(Req(k).ptr) \in Nat /\ Age(Req(k)) \in Nat
           /\ entry_gen[Idx(Req(k).ptr)] \in 0 .. Gens - 1 /\ Gens \in Nat
<1>1. Req(k).ptr \in Ptr /\ Req(k).gen \in 0 .. Gens - 1 /\ Req(k).pc \in Block
  <2>1. k \in Nat /\ k >= 1 /\ k <= Inflight
    BY PipeLengths
  <2>2. CASE k <= Len(s1_s2_pipe)
    <3>1. s1_s2_pipe # <<>> /\ k = 1
      BY <2>1, <2>2, PipeLengths
    <3>2. Req(k) = s1_s2_pipe[1]
      BY <2>2, <3>1 DEF Req
    <3> QED BY <3>1, <3>2, HeadType
  <2>3. CASE k > Len(s1_s2_pipe) /\ k <= Ahead
    <3>1. PICK i \in Nat : i = k - Len(s1_s2_pipe) /\ i >= 1 /\ i <= Len(fetch_requests)
      <4>1. k - Len(s1_s2_pipe) \in Nat /\ k - Len(s1_s2_pipe) >= 1
            /\ k - Len(s1_s2_pipe) <= Len(fetch_requests)
        BY <2>1, <2>3, PipeLengths DEF Ahead
      <4> QED BY <4>1
    <3>2. Req(k) = fetch_requests[i]
      BY <2>1, <2>3, <3>1, PipeLengths DEF Req
    <3>3. fetch_requests[i] \in Request
      BY <3>1 DEF FetchInv, Types
    <3> QED BY <3>2, <3>3 DEF Request
  <2>4. CASE k > Len(s1_s2_pipe) /\ k > Ahead
    <3>1. ftq_ptr_pipe # <<>> /\ k - Ahead = 1
      BY <2>1, <2>4, PipeLengths
    <3>2. PICK x \in Request : ftq_ptr_pipe = <<x>>
      BY <3>1 DEF FetchInv, Types, TypeOK, AtMostOne
    <3>3. Req(k) = ftq_ptr_pipe[1]
      BY <2>1, <2>4, <3>1, PipeLengths DEF Req
    <3> QED BY <3>2, <3>3 DEF Request
  <2> QED BY <2>1, <2>2, <2>3, <2>4, PipeLengths
<1>2. Pos(Req(k).ptr) \in Nat /\ Idx(Req(k).ptr) \in 0 .. FtqSize - 1
  BY <1>1, PointerOrder, Positions DEF Pos
<1>3. entry_gen[Idx(Req(k).ptr)] \in 0 .. Gens - 1 /\ Gens \in Nat
  BY <1>2, InflightAssumption DEF FetchInv, Types, TypeOK
<1>4. Age(Req(k)) \in Nat
  BY <1>1, <1>3 DEF Age, Behind
<1> QED BY <1>1, <1>2, <1>3, <1>4

LEMMA ReqPlace ==
    ASSUME FetchInv, NEW k \in 1 .. Inflight
    PROVE  /\ Pos(pred_ptr) <= Pos(Req(k).ptr) /\ Pos(Req(k).ptr) < FtqSize
           /\ Age(Req(k)) <= Inflight - k
           /\ Req(k).gen = entry_gen[Idx(Req(k).ptr)] <=> Age(Req(k)) = 0
           /\ Stale(Req(k)) <=> \/ stalled_exception
                                \/ Age(Req(k)) # 0
                                \/ Pos(fetch_ptr) <= Pos(Req(k).ptr)
<1>1. /\ Pos(pred_ptr) <= Pos(Req(k).ptr) /\ Pos(Req(k).ptr) < FtqSize
      /\ Age(Req(k)) <= Inflight - k
  BY DEF FetchInv, RequestsPlaced
<1>2. Req(k).gen = entry_gen[Idx(Req(k).ptr)] <=> Age(Req(k)) = 0
  BY ReqType DEF Age, Behind
<1>3. AtOrPast(Req(k).ptr, fetch_ptr) <=> Pos(fetch_ptr) <= Pos(Req(k).ptr)
  <2>1. /\ Distance(train_ptr, Req(k).ptr) <= FtqSize /\ Distance(train_ptr, fetch_ptr) <= FtqSize
        /\ Distance(train_ptr, Req(k).ptr) < FtqSize
    BY <1>1, ReqType, PointerOrder DEF Pos
  <2>2. AtOrPast(Req(k).ptr, fetch_ptr) <=> Distance(train_ptr, Req(k).ptr) >= Distance(train_ptr, fetch_ptr)
    BY <2>1, ReqType, PointerOrder, Comparisons
  <2> QED BY <2>2, ReqType, PointerOrder DEF Pos
<1> QED BY <1>1, <1>2, <1>3 DEF Stale

\* The requests before the last LiveCount ones are stale, and only they are.
LEMMA StaleMeans ==
    ASSUME FetchInv, Intact, NEW k \in 1 .. Inflight
    PROVE  /\ LiveCount <= Inflight
           /\ Stale(Req(k)) <=> stalled_exception \/ k <= Inflight - LiveCount
           /\ k > Inflight - LiveCount =>
                /\ Pos(Req(k).ptr) = Pos(fetch_ptr) - (Inflight - k) - 1
                /\ Age(Req(k)) = 0 /\ Req(k).pc = EntryPc(Req(k).ptr)
<1>1. /\ LiveCount <= Inflight
      /\ k <= Inflight - LiveCount => Pos(fetch_ptr) <= Pos(Req(k).ptr) \/ Age(Req(k)) > 0
      /\ ~(k <= Inflight - LiveCount) =>
                /\ Pos(Req(k).ptr) = Pos(fetch_ptr) - (Inflight - k) - 1
                /\ Age(Req(k)) = 0 /\ Req(k).pc = EntryPc(Req(k).ptr)
  BY DEF FetchInv, RequestsLive
<1>2. k \in Nat /\ Inflight \in Nat /\ LiveCount \in Nat /\ k <= Inflight
      /\ (k > Inflight - LiveCount <=> ~(k <= Inflight - LiveCount))
  BY PipeLengths
<1>3. Stale(Req(k)) <=> \/ stalled_exception
                        \/ Age(Req(k)) # 0
                        \/ Pos(fetch_ptr) <= Pos(Req(k).ptr)
  BY ReqPlace
<1>4. CASE k <= Inflight - LiveCount
  <2>1. Age(Req(k)) > 0 => Age(Req(k)) # 0
    BY ReqType
  <2> QED BY <1>1, <1>2, <1>3, <1>4, <2>1
<1>5. CASE ~(k <= Inflight - LiveCount)
  <2>1. ~(Pos(fetch_ptr) <= Pos(Req(k).ptr))
    BY <1>1, <1>2, <1>5, ReqType, PointerOrder
  <2> QED BY <1>1, <1>2, <1>3, <1>5, <2>1
<1> QED BY <1>4, <1>5

LEMMA Fires ==
    ASSUME FetchInv, NEW waits
    PROVE  /\ TrainFires <=> Pos(commit_ptr) > 0
           /\ AllocFires => Pos(alloc_ptr) < FtqSize /\ ~stalled_exception
           /\ EarlyFetch <=> fetch_ptr = alloc_ptr /\ AllocFires
           /\ SendFires(waits) => /\ EarlyFetch \/ Pos(fetch_ptr) < Pos(alloc_ptr)
                                  /\ ~stalled_exception /\ Inflight < MaxInflight
                                  /\ ftq_ptr_pipe = <<>> \/ TranslateFires(waits)
<1>1. TrainFires <=> Pos(commit_ptr) > 0
  <2>1. Distance(train_ptr, train_ptr) = 0
    BY PointerOrder, Positions
  <2>2. Distance(train_ptr, train_ptr) <= FtqSize /\ Distance(train_ptr, commit_ptr) <= FtqSize
        /\ Distance(train_ptr, train_ptr) <= Distance(train_ptr, commit_ptr)
    BY <2>1, PointerOrder DEF Pos
  <2>3. Less(train_ptr, commit_ptr) <=> Distance(train_ptr, train_ptr) < Distance(train_ptr, commit_ptr)
    BY <2>2, PointerOrder, Comparisons
  <2> QED BY <2>1, <2>3, PointerOrder DEF TrainFires, Pos
<1>2. AllocFires => Pos(alloc_ptr) < FtqSize /\ ~stalled_exception
  <2>1. Distance(train_ptr, alloc_ptr) <= FtqSize
    BY PointerOrder DEF Pos
  <2>2. QueueFull(alloc_ptr, train_ptr) <=> Distance(train_ptr, alloc_ptr) = FtqSize
    BY <2>1, PointerOrder, Comparisons
  <2> QED BY <2>1, <2>2, PointerOrder DEF AllocFires, AddressReady, Pos
<1>3. Less(fetch_ptr, alloc_ptr) <=> Pos(fetch_ptr) < Pos(alloc_ptr)
  <2>1. Distance(train_ptr, fetch_ptr) <= FtqSize /\ Distance(train_ptr, alloc_ptr) <= FtqSize
        /\ Distance(train_ptr, fetch_ptr) <= Distance(train_ptr, alloc_ptr)
    BY PointerOrder DEF Pos
  <2> QED BY <2>1, PointerOrder, Comparisons DEF Pos
<1>4. EarlyFetch <=> fetch_ptr = alloc_ptr /\ AllocFires
  BY DEF EarlyFetch
<1> QED BY <1>1, <1>2, <1>3, <1>4 DEF SendFires

\* A block that stage 2 delivers is the oldest request, of the entry at pred_ptr,
\* and its prediction has been made.
LEMMA Delivery ==
    ASSUME FetchInv, NEW waits, Delivers(waits)
    PROVE  /\ s1_s2_pipe # <<>> /\ ~stalled_exception /\ Intact
           /\ LiveCount = Inflight /\ Inflight >= 1 /\ Req(1) = s1_s2_pipe[1]
           /\ s1_s2_pipe[1].ptr = pred_ptr /\ Pos(pred_ptr) < Pos(fetch_ptr)
           /\ s1_s2_pipe[1].pc = EntryPc(pred_ptr) /\ pred_ptr # alloc_ptr
           /\ s1_pipe # <<>> => s1_pipe[1].ptr # pred_ptr
           /\ due # <<>> /\ due[1].ptr = pred_ptr /\ due[1].pc = s1_s2_pipe[1].pc
           /\ ~JumpsOverHalf => due[1].starts = s1_s2_pipe[1].starts
<1>1. s1_s2_pipe # <<>> /\ ~Stale(s1_s2_pipe[1])
  BY DEF Delivers, Stage2Fires
<1>2. ~stalled_exception
  BY <1>1 DEF Stale
<1>3. Intact
  BY <1>2 DEF Intact
<1>4. 1 \in 1 .. Inflight /\ Len(s1_s2_pipe) = 1 /\ Inflight >= 1
  <2>1. Len(s1_s2_pipe) = 1
    BY <1>1, HeadType
  <2>2. Inflight \in Nat /\ Inflight >= 1
    BY <2>1, PipeLengths DEF Inflight
  <2> QED BY <2>1, <2>2
<1>5. Req(1) = s1_s2_pipe[1]
  BY <1>4 DEF Req
<1>6. ~(1 <= Inflight - LiveCount) /\ LiveCount <= Inflight
  BY <1>1, <1>3, <1>4, <1>5, StaleMeans
<1>7. LiveCount = Inflight
  BY <1>4, <1>6, PipeLengths
<1>8. Pos(s1_s2_pipe[1].ptr) = Pos(pred_ptr) /\ Pos(pred_ptr) < Pos(fetch_ptr)
      /\ s1_s2_pipe[1].pc = EntryPc(s1_s2_pipe[1].ptr)
  <2>1. 1 > Inflight - LiveCount
    BY <1>7, PipeLengths
  <2>2. Pos(Req(1).ptr) = Pos(fetch_ptr) - (Inflight - 1) - 1 /\ Req(1).pc = EntryPc(Req(1).ptr)
    BY <1>3, <1>4, <2>1, StaleMeans
  <2>3. Inflight = Pos(fetch_ptr) - Pos(pred_ptr)
    BY <1>7 DEF LiveCount
  <2>4. Pos(Req(1).ptr) = Pos(pred_ptr) /\ Pos(pred_ptr) < Pos(fetch_ptr)
    BY <1>4, <2>2, <2>3, PointerOrder
  <2> QED BY <1>5, <2>2, <2>4
<1>9. s1_s2_pipe[1].ptr = pred_ptr
  BY <1>1, <1>8, HeadType, PointerOrder, PositionsUnique DEF Pos
<1>10. pred_ptr # alloc_ptr
  BY <1>8, PointerOrder
<1>11. ASSUME s1_pipe # <<>>, s1_pipe[1].ptr = pred_ptr PROVE FALSE
  <2>1. Succ(pred_ptr) = alloc_ptr /\ (fetch_ptr = alloc_ptr => ftq_ptr_pipe # <<>>)
    BY <1>3, <1>11 DEF FetchInv, Continues
  <2>2. Pos(pred_ptr) + 1 < 2 * FtqSize
    BY <1>8, PointerOrder
  <2>3. Pos(alloc_ptr) = Pos(pred_ptr) + 1
    BY <2>1, <2>2, PointerOrder, Positions DEF Pos
  <2>4. Pos(fetch_ptr) = Pos(alloc_ptr)
    BY <1>8, <2>3, PointerOrder
  <2>5. fetch_ptr = alloc_ptr
    BY <2>4, PointerOrder, PositionsUnique DEF Pos
  <2>6. Inflight >= 2
    BY <1>4, <2>1, <2>5, PipeLengths DEF Inflight
  <2> QED BY <1>7, <2>3, <2>4, <2>6, PointerOrder DEF LiveCount
<1>12. due # <<>> /\ (~JumpsOverHalf => due[1].starts = s1_s2_pipe[1].starts)
  <2>1. due # <<>>
    BY <1>3, <1>10 DEF FetchInv, DueNext
  <2>2. ASSUME ~JumpsOverHalf PROVE due[1].starts = s1_s2_pipe[1].starts
    BY <1>1, <1>3, <1>7, <2>2 DEF FetchInv, HalfCarried, HeadLive
  <2> QED BY <2>1, <2>2
<1>13. due[1].ptr = pred_ptr /\ due[1].pc = s1_s2_pipe[1].pc
  BY <1>8, <1>9, <1>10, <1>12 DEF FetchInv, DueNext
<1> QED BY <1>1, <1>2, <1>3, <1>4, <1>5, <1>7, <1>8, <1>9, <1>10, <1>11, <1>12, <1>13

-----------------------------------------------------------------------------
(***************************************************************************)
(* How a cycle moves the pointers.                                         *)
(***************************************************************************)
Bit(b) == IF b THEN 1 ELSE 0
Trained == Bit(TrainFires)
Turns(waits, e, other) == Delivers(waits) /\ Resteers(e, other)

LEMMA TrainStep ==
    ASSUME FetchInv, NEW waits, NEW pr, NEW half, NEW e, NEW other, NEW rd, NEW keep,
           Step(waits, pr, half, e, other, rd, keep)
    PROVE  /\ train_ptr' \in Ptr /\ Trained \in Nat /\ Trained <= 1 /\ Trained <= Pos(commit_ptr)
           /\ \A p \in Ptr : Trained <= Pos(p) => Distance(train_ptr', p) = Pos(p) - Trained
<1>1. train_ptr' = IF TrainFires THEN Succ(train_ptr) ELSE train_ptr
  BY DEF Step, FetchCycle, PointersCycle
<1>2. Trained \in Nat /\ Trained <= 1 /\ Trained <= Pos(commit_ptr)
  BY Fires, PointerOrder DEF Trained, Bit
<1>3. train_ptr' \in Ptr
  BY <1>1, PointerOrder, Positions
<1>4. ASSUME NEW p \in Ptr, Trained <= Pos(p) PROVE Distance(train_ptr', p) = Pos(p) - Trained
  <2>1. CASE TrainFires
    <3>1. Distance(train_ptr, p) > 0 /\ Trained = 1
      BY <1>4, <2>1, PointerOrder, Positions DEF Trained, Bit, Pos
    <3> QED BY <1>1, <2>1, <3>1, PointerOrder, Positions DEF Pos
  <2>2. CASE ~TrainFires
    <3>1. Trained = 0 /\ train_ptr' = train_ptr /\ Pos(p) \in Nat
      BY <1>1, <2>2, PointerOrder, Positions DEF Trained, Bit, Pos
    <3> QED BY <3>1 DEF Pos
  <2> QED BY <2>1, <2>2
<1> QED BY <1>2, <1>3, <1>4

LEMMA TurnsHere ==
    ASSUME FetchInv, NEW waits, NEW e, NEW other, Turns(waits, e, other)
    PROVE  Delivers(waits) /\ s1_s2_pipe[1].ptr = pred_ptr /\ Pos(pred_ptr) < Pos(fetch_ptr)
BY Delivery DEF Turns

\* Redirected, resteered, or moving on.
LEMMA PointersStep ==
    ASSUME FetchInv, NEW waits, NEW pr, NEW half, NEW e, NEW other, NEW rd, NEW keep,
           Step(waits, pr, half, e, other, rd, keep)
    PROVE  /\ alloc_ptr' \in Ptr /\ fetch_ptr' \in Ptr /\ pred_ptr' \in Ptr /\ commit_ptr' \in Ptr
           /\ rd # <<>> =>
                /\ rd = <<rd[1]>> /\ RedirectBackend(rd[1]) /\ rd[1].ptr \in Ptr
                /\ Pos(rd[1].ptr) \in Nat /\ Trained <= Pos(rd[1].ptr)
                /\ alloc_ptr' = Succ(rd[1].ptr) /\ fetch_ptr' = alloc_ptr' /\ pred_ptr' = alloc_ptr'
                /\ Distance(train_ptr', alloc_ptr') = Pos(rd[1].ptr) + 1 - Trained
           /\ rd = <<>> /\ Turns(waits, e, other) =>
                /\ alloc_ptr' = Succ(pred_ptr) /\ fetch_ptr' = alloc_ptr' /\ pred_ptr' = alloc_ptr'
                /\ Distance(train_ptr', alloc_ptr') = Pos(pred_ptr) + 1 - Trained
           /\ rd = <<>> /\ ~Turns(waits, e, other) =>
                /\ alloc_ptr' = IF AllocFires THEN Succ(alloc_ptr) ELSE alloc_ptr
                /\ fetch_ptr' = IF SendFires(waits) THEN Succ(fetch_ptr) ELSE fetch_ptr
                /\ pred_ptr' = IF Delivers(waits) THEN Succ(pred_ptr) ELSE pred_ptr
                /\ Distance(train_ptr', alloc_ptr') = Pos(alloc_ptr) + Bit(AllocFires) - Trained
                /\ Distance(train_ptr', fetch_ptr') = Pos(fetch_ptr) + Bit(SendFires(waits)) - Trained
                /\ Distance(train_ptr', pred_ptr') = Pos(pred_ptr) + Bit(Delivers(waits)) - Trained
<1> DEFINE resteers == Delivers(waits) /\ Resteers(e, other)
<1>1. /\ alloc_ptr' = Steered(rd, resteers, IF AllocFires THEN Succ(alloc_ptr) ELSE alloc_ptr)
      /\ fetch_ptr' = Steered(rd, resteers, IF SendFires(waits) THEN Succ(fetch_ptr) ELSE fetch_ptr)
      /\ pred_ptr' = Steered(rd, FALSE, IF Delivers(waits) THEN Succ(pred_ptr) ELSE pred_ptr)
  BY DEF Step, FetchCycle, PointersCycle, PredictionsRead
<1>2. resteers <=> Turns(waits, e, other)
  BY DEF Turns
<1> HIDE DEF resteers
<1>3. /\ train_ptr' \in Ptr /\ Trained \in Nat /\ Trained <= 1 /\ Trained <= Pos(commit_ptr)
      /\ \A p \in Ptr : Trained <= Pos(p) => Distance(train_ptr', p) = Pos(p) - Trained
  BY TrainStep
<1>4. Backend(rd, keep)
  BY DEF Step
<1>5. commit_ptr' \in Ptr
  BY <1>4 DEF Backend
<1>6. ASSUME NEW p \in Ptr, Trained <= Pos(p), Pos(p) <= FtqSize
      PROVE  Succ(p) \in Ptr /\ Distance(train_ptr', Succ(p)) = Pos(p) + 1 - Trained
  <2>1. Pos(p) \in Nat /\ Pos(p) + 1 < 2 * FtqSize /\ Succ(p) \in Ptr
    <3>1. Pos(p) \in Nat /\ Succ(p) \in Ptr
      BY PointerOrder, Positions DEF Pos
    <3>2. FtqSize \in Nat /\ FtqSize > 1
      BY SizesAssumption
    <3> QED BY <1>6, <3>1, <3>2
  <2>2. Pos(Succ(p)) = Pos(p) + 1
    BY <2>1, PointerOrder, Positions DEF Pos
  <2>3. Trained <= Pos(Succ(p))
    BY <1>3, <1>6, <2>1, <2>2
  <2> QED BY <1>3, <2>1, <2>2, <2>3
<1>7. CASE rd # <<>>
  <2>1. PICK r : rd = <<r>> /\ RedirectBackend(r)
    BY <1>4, <1>7 DEF Backend
  <2>2. rd[1] = r /\ r.ptr \in Ptr /\ Pos(r.ptr) < Len(path)
    BY <2>1 DEF RedirectBackend
  <2>3. Pos(r.ptr) \in Nat /\ Pos(commit_ptr) <= Pos(r.ptr)
    <3>1. Pos(r.ptr) \in Nat /\ Distance(train_ptr, commit_ptr') \in Nat
      BY <1>5, <2>2, PointerOrder, Positions DEF Pos
    <3>2. /\ Pos(commit_ptr) <= Distance(train_ptr, commit_ptr')
          /\ Distance(train_ptr, commit_ptr') <= Pos(r.ptr)
      BY <1>4, <2>1 DEF Backend, RedirectBackend
    <3> QED BY <3>1, <3>2, PointerOrder
  <2>4. Trained <= Pos(r.ptr) /\ Pos(r.ptr) <= FtqSize
    BY <1>3, <2>2, <2>3, PointerOrder
  <2>5. alloc_ptr' = Succ(r.ptr) /\ fetch_ptr' = alloc_ptr' /\ pred_ptr' = alloc_ptr'
    BY <1>1, <1>7, <2>2 DEF Steered
  <2>6. alloc_ptr' \in Ptr /\ Distance(train_ptr', alloc_ptr') = Pos(r.ptr) + 1 - Trained
    BY <1>6, <2>2, <2>4, <2>5
  <2> QED BY <1>5, <1>7, <2>1, <2>2, <2>3, <2>4, <2>5, <2>6
<1>8. CASE rd = <<>> /\ Turns(waits, e, other)
  <2>1. Delivers(waits) /\ s1_s2_pipe[1].ptr = pred_ptr
    BY <1>8, TurnsHere
  <2>2. alloc_ptr' = Succ(pred_ptr) /\ fetch_ptr' = alloc_ptr' /\ pred_ptr' = alloc_ptr'
    BY <1>1, <1>2, <1>8, <2>1 DEF Steered
  <2>3. Trained <= Pos(pred_ptr) /\ Pos(pred_ptr) <= FtqSize
    BY <1>3, PointerOrder
  <2> QED BY <1>5, <1>6, <1>8, <2>2, <2>3, PointerOrder
<1>9. CASE rd = <<>> /\ ~Turns(waits, e, other)
  <2>1. /\ alloc_ptr' = IF AllocFires THEN Succ(alloc_ptr) ELSE alloc_ptr
        /\ fetch_ptr' = IF SendFires(waits) THEN Succ(fetch_ptr) ELSE fetch_ptr
        /\ pred_ptr' = IF Delivers(waits) THEN Succ(pred_ptr) ELSE pred_ptr
    BY <1>1, <1>2, <1>9 DEF Steered
  <2>2. ASSUME NEW p \in Ptr, Trained <= Pos(p), Pos(p) <= FtqSize, NEW b
        PROVE  /\ (IF b THEN Succ(p) ELSE p) \in Ptr
               /\ Distance(train_ptr', IF b THEN Succ(p) ELSE p) = Pos(p) + Bit(b) - Trained
    <3>1. Pos(p) \in Nat /\ Pos(p) - Trained = Pos(p) + 0 - Trained
      BY <1>3, <2>2, PointerOrder, Positions DEF Pos
    <3>2. CASE b
      BY <1>6, <2>2, <3>2 DEF Bit
    <3>3. CASE ~b
      BY <1>3, <2>2, <3>1, <3>3 DEF Bit
    <3> QED BY <3>2, <3>3
  <2>3. /\ Trained <= Pos(alloc_ptr) /\ Pos(alloc_ptr) <= FtqSize
        /\ Trained <= Pos(fetch_ptr) /\ Pos(fetch_ptr) <= FtqSize
        /\ Trained <= Pos(pred_ptr) /\ Pos(pred_ptr) <= FtqSize
    BY <1>3, PointerOrder
  <2>4. alloc_ptr' \in Ptr /\ Distance(train_ptr', alloc_ptr') = Pos(alloc_ptr) + Bit(AllocFires) - Trained
    BY <2>1, <2>2, <2>3, PointerOrder
  <2>5. fetch_ptr' \in Ptr /\ Distance(train_ptr', fetch_ptr') = Pos(fetch_ptr) + Bit(SendFires(waits)) - Trained
    BY <2>1, <2>2, <2>3, PointerOrder
  <2>6. pred_ptr' \in Ptr /\ Distance(train_ptr', pred_ptr') = Pos(pred_ptr) + Bit(Delivers(waits)) - Trained
    BY <2>1, <2>2, <2>3, PointerOrder
  <2> QED BY <1>5, <1>9, <2>1, <2>4, <2>5, <2>6
<1> QED BY <1>7, <1>8, <1>9

-----------------------------------------------------------------------------
(***************************************************************************)
(* How a cycle changes the path, and the order of the pointers.            *)
(***************************************************************************)
PathLength(waits, rd, keep) ==
    IF rd # <<>> THEN Pos(rd[1].ptr) + 1
    ELSE IF StallFlush THEN keep ELSE Len(path) + Bit(Delivers(waits))

\* What the path holds afterwards
PathMoves(waits, e, rd) ==
    \A i \in 1 .. Len(path') :
        IF i + Trained <= Len(path) THEN path'[i] = path[i + Trained]
        ELSE /\ rd = <<>> /\ Delivers(waits) /\ i + Trained = Len(path) + 1
             /\ path'[i] = [pc |-> s1_s2_pipe[1].pc, jb |-> e]

LEMMA PathStep ==
    ASSUME FetchInv, NEW waits, NEW pr, NEW half, NEW e, NEW other, NEW rd, NEW keep,
           Step(waits, pr, half, e, other, rd, keep)
    PROVE  /\ path' \in Seq(Delivered)
           /\ PathLength(waits, rd, keep) \in Nat /\ Trained <= PathLength(waits, rd, keep)
           /\ Len(path') = PathLength(waits, rd, keep) - Trained
           /\ path # <<>> => Trained < PathLength(waits, rd, keep)
           /\ PathMoves(waits, e, rd)
<1> DEFINE L == PathLength(waits, rd, keep)
           d == s1_s2_pipe[1]
<1>1. PICK B : /\ B = CASE rd # <<>> -> SubSeq(path, 1, At(rd[1].ptr))
                       [] rd = <<>> /\ StallFlush -> SubSeq(path, 1, keep)
                       [] OTHER -> IF Delivers(waits) THEN Append(path, [pc |-> d.pc, jb |-> e]) ELSE path
               /\ path' = IF TrainFires THEN Tail(B) ELSE B
  BY DEF Step, FetchCycle, PathCycle
<1>2. path \in Seq(Delivered) /\ Len(path) \in Nat /\ Pos(commit_ptr) \in Nat
  BY PointerOrder
<1>3. Trained \in Nat /\ Trained <= 1 /\ Trained <= Pos(commit_ptr)
  BY TrainStep
<1>4. (path # <<>> => Pos(commit_ptr) < Len(path)) /\ (path = <<>> => Pos(commit_ptr) = 0)
  <2>1. path = <<>> => Pos(pred_ptr) = 0
    BY DEF FetchInv, PathOrdered
  <2>2. path = <<>> => Pos(commit_ptr) = 0
    BY <2>1, PointerOrder
  <2> QED BY <2>2 DEF FetchInv, PathOrdered
<1>5. ASSUME NEW n \in Nat, n <= Len(path)
      PROVE  /\ SubSeq(path, 1, n) \in Seq(Delivered) /\ Len(SubSeq(path, 1, n)) = n
             /\ \A i \in 1 .. n : SubSeq(path, 1, n)[i] = path[i]
  BY <1>2, <1>5
<1>6. /\ B \in Seq(Delivered) /\ Len(B) = L /\ L \in Nat
      /\ (path # <<>> => Pos(commit_ptr) < L)
      /\ \A i \in 1 .. L : IF i <= Len(path) THEN B[i] = path[i]
                           ELSE /\ rd = <<>> /\ Delivers(waits) /\ i = Len(path) + 1
                                /\ B[i] = [pc |-> d.pc, jb |-> e]
  <2>1. CASE rd # <<>>
    <3>1. /\ RedirectBackend(rd[1]) /\ Pos(rd[1].ptr) \in Nat /\ rd[1].ptr \in Ptr
      BY <2>1, PointersStep
    <3>2. Pos(rd[1].ptr) < Len(path) /\ Distance(train_ptr, commit_ptr') <= Pos(rd[1].ptr)
      BY <3>1 DEF RedirectBackend
    <3>3. B = SubSeq(path, 1, At(rd[1].ptr)) /\ At(rd[1].ptr) = Pos(rd[1].ptr) + 1 /\ L = Pos(rd[1].ptr) + 1
      BY <1>1, <2>1 DEF At, Pos, PathLength
    <3>4. L \in Nat /\ L <= Len(path) /\ B = SubSeq(path, 1, L)
      BY <1>2, <3>1, <3>2, <3>3
    <3>5. Pos(commit_ptr) < L
      <4>1. /\ Pos(commit_ptr) <= Distance(train_ptr, commit_ptr')
            /\ Distance(train_ptr, commit_ptr') \in Nat
        BY PointerOrder, PointersStep, Positions DEF Step, Backend
      <4> QED BY <1>2, <3>1, <3>2, <3>3, <4>1
    <3> HIDE DEF L
    <3>6. \A i \in 1 .. L : i <= Len(path)
      BY <1>2, <3>4
    <3> QED BY <1>5, <3>4, <3>5, <3>6
  <2>2. CASE rd = <<>> /\ StallFlush
    <3>1. QuietBackend(keep)
      BY <2>2 DEF Step, Backend
    <3>2. B = SubSeq(path, 1, L) /\ L = keep
      BY <1>1, <2>2 DEF PathLength
    <3>3. L \in Nat /\ L <= Len(path) /\ Pos(commit_ptr) < L
      BY <2>2, <3>1, <3>2 DEF QuietBackend
    <3> HIDE DEF L
    <3>4. \A i \in 1 .. L : i <= Len(path)
      BY <1>2, <3>3
    <3> QED BY <1>5, <3>2, <3>3, <3>4
  <2>3. CASE rd = <<>> /\ ~StallFlush /\ Delivers(waits)
    <3>1. B = Append(path, [pc |-> d.pc, jb |-> e]) /\ L = Len(path) + 1
      BY <1>1, <2>3 DEF PathLength, Bit
    <3>2. [pc |-> d.pc, jb |-> e] \in Delivered
      <4>1. d.pc \in Block
        BY <2>3, Delivery, HeadType
      <4>2. e \in Predictions(d.pc) \cup {Halt}
        BY <2>3 DEF Step, Inputs
      <4>3. e \in AnyExit
        BY <4>1, <4>2, Exits
      <4> QED BY <4>1, <4>3 DEF Delivered
    <3> HIDE DEF L, d
    <3>3. B \in Seq(Delivered) /\ Len(B) = Len(path) + 1
          /\ \A i \in 1 .. Len(path) + 1 : B[i] = IF i <= Len(path) THEN path[i] ELSE [pc |-> d.pc, jb |-> e]
      BY <1>2, <3>1, <3>2
    <3>4. \A i \in 1 .. Len(path) + 1 : i <= Len(path) \/ i = Len(path) + 1
      BY <1>2
    <3>5. Len(path) + 1 \in Nat /\ (path # <<>> => Pos(commit_ptr) < Len(path) + 1)
      BY <1>2, <1>4
    <3> QED BY <2>3, <3>1, <3>3, <3>4, <3>5
  <2>4. CASE rd = <<>> /\ ~StallFlush /\ ~Delivers(waits)
    <3>1. B = path /\ L = Len(path) + 0
      BY <1>1, <2>4 DEF PathLength, Bit
    <3>2. L = Len(path)
      BY <1>2, <3>1
    <3> QED BY <1>2, <1>4, <3>1, <3>2
  <2> QED BY <2>1, <2>2, <2>3, <2>4
<1> HIDE DEF L, d
<1>7. Trained <= L /\ (path # <<>> => Trained < L)
  BY <1>2, <1>3, <1>4, <1>6
<1>8. /\ path' \in Seq(Delivered) /\ Len(path') = L - Trained
      /\ \A i \in 1 .. L - Trained : path'[i] = B[i + Trained]
  <2>1. CASE TrainFires
    <3>1. Trained = 1 /\ path' = Tail(B)
      BY <1>1, <2>1 DEF Trained, Bit
    <3>2. B # <<>> /\ Len(B) >= 1
      BY <1>6, <1>7, <3>1
    <3> QED BY <1>6, <3>1, <3>2
  <2>2. CASE ~TrainFires
    <3>1. Trained = 0 /\ path' = B
      BY <1>1, <2>2 DEF Trained, Bit
    <3> QED BY <1>6, <3>1
  <2> QED BY <2>1, <2>2
<1>9. ASSUME NEW i \in 1 .. Len(path')
      PROVE  IF i + Trained <= Len(path) THEN path'[i] = path[i + Trained]
             ELSE /\ rd = <<>> /\ Delivers(waits) /\ i + Trained = Len(path) + 1
                  /\ path'[i] = [pc |-> d.pc, jb |-> e]
  <2>1. PICK j : j = i + Trained
    OBVIOUS
  <2>2. j \in 1 .. L /\ i \in 1 .. L - Trained
    BY <1>3, <1>6, <1>8, <2>1
  <2>3. path'[i] = B[j]
    BY <1>8, <2>1, <2>2
  <2>4. IF j <= Len(path) THEN B[j] = path[j]
        ELSE /\ rd = <<>> /\ Delivers(waits) /\ j = Len(path) + 1
             /\ B[j] = [pc |-> d.pc, jb |-> e]
    BY <1>6, <2>2
  <2> QED BY <2>1, <2>3, <2>4
<1>10. PathMoves(waits, e, rd)
  BY <1>9 DEF PathMoves, d
<1> QED BY <1>6, <1>7, <1>8, <1>10 DEF L

\* Fetch stays intact only if it was, and no exception stopped it in this cycle.
LEMMA IntactStep ==
    ASSUME FetchInv, NEW waits, NEW pr, NEW half, NEW e, NEW other, NEW rd, NEW keep,
           Step(waits, pr, half, e, other, rd, keep), rd = <<>>, Intact'
    PROVE  /\ Intact
           /\ exception_valid => rolled_back /\ ras_resp /\ pred_ptr = alloc_ptr
           /\ exception_valid => ~Delivers(waits) /\ LiveCount = 0 /\ fetch_ptr = alloc_ptr
           /\ StallFlush => keep = Len(path)
<1>1. Backend(rd, keep) /\ QuietBackend(keep) /\ ~rolled_back'
  BY DEF Step, Backend
<1>2. stalled_exception' = exception_valid
  BY DEF Step, FetchCycle
<1>3. exception_valid => rolled_back
  BY <1>1, <1>2 DEF QuietBackend, Intact
<1>4. Intact
  BY <1>3 DEF Intact
<1>5. rolled_back => ras_resp /\ pred_ptr = alloc_ptr
  BY DEF FetchInv, Stalls
<1>6. pred_ptr = alloc_ptr => ~Delivers(waits) /\ LiveCount = 0 /\ fetch_ptr = alloc_ptr
  <2>1. pred_ptr = alloc_ptr => ~Delivers(waits)
    BY Delivery
  <2>2. pred_ptr = alloc_ptr => LiveCount = 0 /\ Pos(fetch_ptr) = Pos(alloc_ptr)
    BY PointerOrder DEF LiveCount
  <2>3. Pos(fetch_ptr) = Pos(alloc_ptr) => fetch_ptr = alloc_ptr
    BY PointerOrder, PositionsUnique DEF Pos
  <2> QED BY <2>1, <2>2, <2>3
<1>7. StallFlush => keep = Len(path)
  BY <1>1, <1>3 DEF QuietBackend, StallFlush
<1> QED BY <1>3, <1>4, <1>5, <1>6, <1>7

LEMMA OrderStep ==
    ASSUME FetchInv, NEW waits, NEW pr, NEW half, NEW e, NEW other, NEW rd, NEW keep,
           Step(waits, pr, half, e, other, rd, keep)
    PROVE  PointersOrdered' /\ PathOrdered'
<1> DEFINE L == PathLength(waits, rd, keep)
<1>1. PICK c, q, f, a, N, T, cc, n, c1, q1, f1, a1 :
        /\ c = Pos(commit_ptr) /\ q = Pos(pred_ptr) /\ f = Pos(fetch_ptr) /\ a = Pos(alloc_ptr)
        /\ N = FtqSize /\ T = Trained /\ cc = Distance(train_ptr, commit_ptr') /\ n = Len(path)
        /\ c1 = Distance(train_ptr', commit_ptr') /\ q1 = Distance(train_ptr', pred_ptr')
        /\ f1 = Distance(train_ptr', fetch_ptr') /\ a1 = Distance(train_ptr', alloc_ptr')
  OBVIOUS
<1>2. /\ c \in Nat /\ q \in Nat /\ f \in Nat /\ a \in Nat /\ N \in Nat /\ N > 1 /\ n \in Nat
      /\ c <= q /\ q <= f /\ f <= a /\ a <= N /\ n <= q
  BY <1>1, PointerOrder
<1>3. T \in Nat /\ T <= 1 /\ T <= c /\ cc \in Nat /\ c <= cc /\ c1 = cc - T
  <2>1. commit_ptr' \in Ptr /\ c <= cc
    BY <1>1 DEF Step, Backend
  <2>2. T \in Nat /\ T <= 1 /\ T <= c /\ cc \in Nat
    BY <1>1, <2>1, TrainStep, PointerOrder, Positions
  <2>3. Trained <= Pos(commit_ptr')
    BY <1>1, <1>2, <2>1, <2>2 DEF Pos
  <2>4. c1 = cc - T
    BY <1>1, <2>1, <2>3, TrainStep DEF Pos
  <2> QED BY <2>1, <2>2, <2>4
<1>4. (path = <<>> => q = 0) /\ (path # <<>> => c < n) /\ (Intact => n = q) /\ (n = 0 <=> path = <<>>)
  <2>1. n = 0 <=> path = <<>>
    BY <1>1, PointerOrder
  <2> QED BY <1>1, <2>1 DEF FetchInv, PathOrdered
<1>0. /\ path' \in Seq(Delivered) /\ L \in Nat /\ Len(path') = L - Trained /\ Trained <= L
      /\ (path # <<>> => Trained < L)
  <2>1. /\ path' \in Seq(Delivered)
        /\ PathLength(waits, rd, keep) \in Nat /\ Trained <= PathLength(waits, rd, keep)
        /\ Len(path') = PathLength(waits, rd, keep) - Trained
        /\ path # <<>> => Trained < PathLength(waits, rd, keep)
    BY PathStep
  <2> QED BY <2>1
<1>5. /\ L \in Nat /\ Len(path') = L - T /\ T <= L /\ (path # <<>> => T < L)
      /\ (path' = <<>> <=> L - T = 0)
  <2>1. /\ path' \in Seq(Delivered) /\ L \in Nat /\ Len(path') = L - T /\ T <= L
        /\ (path # <<>> => T < L)
    <3>1. T = Trained
      BY <1>1
    <3> QED BY <1>0, <3>1
  <2> HIDE DEF L
  <2>2. path' = <<>> <=> Len(path') = 0
    BY <2>1
  <2> QED BY <2>1, <2>2
<1> SUFFICES /\ c1 <= q1 /\ q1 <= f1 /\ f1 <= a1 /\ a1 <= N
             /\ L - T <= q1 /\ (L - T = 0 => q1 = 0) /\ (L - T # 0 => c1 < L - T)
             /\ (Intact' => L - T = q1)
  <2> HIDE DEF L
  <2> QED BY <1>1, <1>5 DEF PointersOrdered, PathOrdered, Pos
<1>6. CASE rd # <<>>
  <2>1. PICK x : x = Pos(rd[1].ptr)
    OBVIOUS
  <2>2. x \in Nat /\ a1 = x + 1 - T /\ f1 = a1 /\ q1 = a1 /\ RedirectBackend(rd[1]) /\ T <= x
    BY <1>1, <1>6, <2>1, PointersStep
  <2>3. cc <= x /\ x < n
    BY <1>1, <2>1, <2>2 DEF RedirectBackend
  <2>4. L = x + 1
    BY <1>6, <2>1 DEF PathLength
  <2> HIDE DEF L
  <2> QED BY <1>2, <1>3, <2>2, <2>3, <2>4
<1>7. CASE rd = <<>>
  <2>1. /\ QuietBackend(keep)
    BY <1>7 DEF Step, Backend
  <2>2. /\ (path = <<>> => cc = c) /\ (path # <<>> => cc < n) /\ keep \in Nat /\ keep <= n
        /\ (StallFlush => c < keep /\ cc = c)
    BY <1>1, <2>1 DEF QuietBackend, Pos
  <2>3. PICK D : D = Bit(Delivers(waits)) /\ D \in Nat /\ D <= 1
    BY DEF Bit
  <2>4. q1 = q + D - T /\ q + D <= f
    <3>1. Delivers(waits) => q < f
      BY <1>1, Delivery
    <3>2. D = IF Delivers(waits) THEN 1 ELSE 0
      BY <2>3 DEF Bit
    <3>3. q + D <= f
      BY <1>2, <3>1, <3>2
    <3>4. q1 = q + D - T
      BY <1>1, <1>7, <2>3, <3>2, PointersStep DEF Turns
    <3> QED BY <3>3, <3>4
  <2>5. q1 <= f1 /\ f1 <= a1 /\ a1 <= N
    <3>1. CASE Turns(waits, e, other)
      <4>1. f1 = q1 /\ a1 = q1
        BY <1>1, <1>7, <3>1, PointersStep
      <4> QED BY <1>2, <1>3, <2>3, <2>4, <4>1
    <3>2. CASE ~Turns(waits, e, other)
      <4>1. PICK A, S : A = Bit(AllocFires) /\ S = Bit(SendFires(waits))
        OBVIOUS
      <4>2. a1 = a + A - T /\ f1 = f + S - T
        BY <1>1, <1>7, <3>2, <4>1, PointersStep
      <4>3. A \in Nat /\ S \in Nat /\ a + A <= N /\ f + S <= a + A
        BY <1>1, <1>2, <4>1, Fires DEF Bit
      <4> QED BY <1>2, <1>3, <2>3, <2>4, <4>2, <4>3
    <3> QED BY <3>1, <3>2
  <2>6. L = IF StallFlush THEN keep ELSE n + D
    BY <1>1, <1>7, <2>3 DEF PathLength
  <2> HIDE DEF L
  <2>7. c1 <= q1
    BY <1>2, <1>3, <1>4, <2>2, <2>3, <2>4
  <2>8. L - T <= q1 /\ (L - T = 0 => q1 = 0) /\ (L - T # 0 => c1 < L - T)
    <3>1. CASE StallFlush
      <4>1. L = keep /\ keep \in Nat /\ keep <= n /\ c < keep /\ cc = c
        BY <2>2, <2>6, <3>1
      <4> QED BY <1>2, <1>3, <2>3, <2>4, <4>1
    <3>2. CASE ~StallFlush
      <4>1. L = n + D
        BY <2>6, <3>2
      <4>2. CASE path = <<>>
        <5>1. n = 0 /\ q = 0 /\ cc = c
          BY <1>4, <2>2, <4>2
        <5> QED BY <1>2, <1>3, <2>3, <2>4, <4>1, <5>1
      <4>3. CASE path # <<>>
        <5>1. c < n /\ cc < n
          BY <1>4, <2>2, <4>3
        <5> QED BY <1>2, <1>3, <2>3, <2>4, <4>1, <5>1
      <4> QED BY <4>2, <4>3
    <3> QED BY <3>1, <3>2
  <2>9. ASSUME Intact' PROVE L - T = q1
    <3>1. Intact /\ (StallFlush => keep = n)
      BY <1>1, <1>7, <2>9, IntactStep
    <3>2. StallFlush => D = 0
      <4>1. exception_valid => ~Delivers(waits)
        BY <1>7, <2>9, IntactStep
      <4> QED BY <2>3, <4>1 DEF StallFlush, Bit
    <3> QED BY <1>2, <1>3, <1>4, <2>3, <2>4, <2>6, <3>1, <3>2
  <2> QED BY <2>5, <2>7, <2>8, <2>9
<1> QED BY <1>6, <1>7

-----------------------------------------------------------------------------
(***************************************************************************)
(* How a cycle moves the requests: the oldest leaves, a new one is sent.   *)
(***************************************************************************)
SameRequest(x, y) == x.ptr = y.ptr /\ x.gen = y.gen /\ x.pc = y.pc
Gone(waits) == Bit(Stage2Fires(waits))
Received(half) ==
    [ptr |-> fetch_requests[1].ptr, gen |-> fetch_requests[1].gen, pc |-> fetch_requests[1].pc,
     starts |-> StartsMidInstr(fetch_requests[1]), ends |-> half]
NewRequest(pr) == [ptr |-> fetch_ptr, gen |-> NewGen, pc |-> FetchPc(pr)]
RequestsMove(waits, pr) ==
    \A k \in 1 .. Inflight' :
        IF k + Gone(waits) <= Inflight THEN SameRequest(Req(k)', Req(k + Gone(waits)))
        ELSE SendFires(waits) /\ k = Inflight' /\ Req(k)' = NewRequest(pr)

BufferMoves(waits) ==
    \A j \in 1 .. Len(fetch_requests') :
        IF j + Bit(Stage1Fires(waits)) <= Len(fetch_requests)
        THEN fetch_requests'[j] = fetch_requests[j + Bit(Stage1Fires(waits))]
        ELSE /\ TranslateFires(waits) /\ fetch_requests'[j] = ftq_ptr_pipe[1]
             /\ j + Bit(Stage1Fires(waits)) = Len(fetch_requests) + 1

LEMMA PipesStep ==
    ASSUME FetchInv, NEW waits, NEW pr, NEW half, NEW e, NEW other, NEW rd, NEW keep,
           Step(waits, pr, half, e, other, rd, keep)
    PROVE  /\ s1_s2_pipe' = IF Stage1Fires(waits) THEN <<Received(half)>>
                            ELSE IF Stage2Fires(waits) THEN <<>> ELSE s1_s2_pipe
           /\ fetch_requests' = (IF Stage1Fires(waits) THEN Tail(fetch_requests) ELSE fetch_requests)
                                \o (IF TranslateFires(waits) THEN ftq_ptr_pipe ELSE <<>>)
           /\ ftq_ptr_pipe' = IF SendFires(waits) THEN <<NewRequest(pr)>>
                              ELSE IF TranslateFires(waits) THEN <<>> ELSE ftq_ptr_pipe
BY DEF Step, FetchCycle, RequestsCycle, PipeNext, NewRequest, Received

LEMMA PipeLengthsStep ==
    ASSUME FetchInv, NEW waits, NEW pr, NEW half, NEW e, NEW other, NEW rd, NEW keep,
           Step(waits, pr, half, e, other, rd, keep)
    PROVE  /\ Len(s1_s2_pipe') = Len(s1_s2_pipe) - Gone(waits) + Bit(Stage1Fires(waits))
           /\ Len(fetch_requests') = Len(fetch_requests) - Bit(Stage1Fires(waits)) + Bit(TranslateFires(waits))
           /\ Len(ftq_ptr_pipe') = Len(ftq_ptr_pipe) - Bit(TranslateFires(waits)) + Bit(SendFires(waits))
           /\ Gone(waits) <= Len(s1_s2_pipe)
           /\ Bit(Stage1Fires(waits)) <= Len(fetch_requests)
           /\ Bit(TranslateFires(waits)) <= Len(ftq_ptr_pipe)
           /\ Stage1Fires(waits) => Len(s1_s2_pipe) = Gone(waits)
           /\ SendFires(waits) => Len(ftq_ptr_pipe) = Bit(TranslateFires(waits))
           /\ Len(fetch_requests') <= 2 /\ fetch_requests' \in Seq(Request)
           /\ BufferMoves(waits)
<1>1. /\ Len(s1_s2_pipe) \in Nat /\ Len(s1_s2_pipe) <= 1 /\ (s1_s2_pipe = <<>> <=> Len(s1_s2_pipe) = 0)
      /\ Len(ftq_ptr_pipe) \in Nat /\ Len(ftq_ptr_pipe) <= 1 /\ (ftq_ptr_pipe = <<>> <=> Len(ftq_ptr_pipe) = 0)
      /\ Len(fetch_requests) \in Nat /\ Len(fetch_requests) <= 2
      /\ (fetch_requests = <<>> <=> Len(fetch_requests) = 0)
  BY PipeLengths
<1>2. /\ Stage2Fires(waits) => Len(s1_s2_pipe) = 1
      /\ Stage1Fires(waits) => Len(fetch_requests) >= 1 /\ (Len(s1_s2_pipe) = 0 \/ Stage2Fires(waits))
      /\ TranslateFires(waits) => Len(ftq_ptr_pipe) = 1 /\ Len(fetch_requests) < 2
      /\ SendFires(waits) => Len(ftq_ptr_pipe) = 0 \/ TranslateFires(waits)
  <2>1. Stage2Fires(waits) => Len(s1_s2_pipe) = 1
    BY HeadType DEF Stage2Fires
  <2>2. Stage1Fires(waits) => Len(fetch_requests) >= 1 /\ (Len(s1_s2_pipe) = 0 \/ Stage2Fires(waits))
    BY <1>1 DEF Stage1Fires
  <2>3. TranslateFires(waits) => Len(ftq_ptr_pipe) = 1 /\ Len(fetch_requests) < 2
    <3>1. ftq_ptr_pipe # <<>> => Len(ftq_ptr_pipe) = 1
      BY DEF FetchInv, Types, TypeOK, AtMostOne
    <3> QED BY <3>1 DEF TranslateFires
  <2>4. SendFires(waits) => Len(ftq_ptr_pipe) = 0 \/ TranslateFires(waits)
    BY <1>1, Fires
  <2> QED BY <2>1, <2>2, <2>3, <2>4
<1>3. /\ Gone(waits) <= Len(s1_s2_pipe)
      /\ Bit(Stage1Fires(waits)) <= Len(fetch_requests)
      /\ Bit(TranslateFires(waits)) <= Len(ftq_ptr_pipe)
      /\ Stage1Fires(waits) => Len(s1_s2_pipe) = Gone(waits)
      /\ SendFires(waits) => Len(ftq_ptr_pipe) = Bit(TranslateFires(waits))
  BY <1>1, <1>2 DEF Gone, Bit
<1>4. Len(s1_s2_pipe') = Len(s1_s2_pipe) - Gone(waits) + Bit(Stage1Fires(waits))
  <2>1. CASE Stage1Fires(waits)
    <3>1. Len(s1_s2_pipe') = 1
      <4>1. PICK x : s1_s2_pipe' = <<x>>
        BY <2>1, PipesStep
      <4> QED BY <4>1
    <3> QED BY <1>1, <1>3, <2>1, <3>1 DEF Bit
  <2>2. CASE ~Stage1Fires(waits) /\ Stage2Fires(waits)
    <3>1. s1_s2_pipe' = <<>>
      BY <2>2, PipesStep
    <3> QED BY <1>2, <2>2, <3>1 DEF Gone, Bit
  <2>3. CASE ~Stage1Fires(waits) /\ ~Stage2Fires(waits)
    <3>1. s1_s2_pipe' = s1_s2_pipe
      BY <2>3, PipesStep
    <3> QED BY <1>1, <2>3, <3>1 DEF Gone, Bit
  <2> QED BY <2>1, <2>2, <2>3
<1>5. Len(ftq_ptr_pipe') = Len(ftq_ptr_pipe) - Bit(TranslateFires(waits)) + Bit(SendFires(waits))
  <2>1. CASE SendFires(waits)
    <3>1. Len(ftq_ptr_pipe') = 1
      <4>1. PICK x : ftq_ptr_pipe' = <<x>>
        BY <2>1, PipesStep
      <4> QED BY <4>1
    <3> QED BY <1>1, <1>3, <2>1, <3>1 DEF Bit
  <2>2. CASE ~SendFires(waits) /\ TranslateFires(waits)
    <3>1. ftq_ptr_pipe' = <<>>
      BY <2>2, PipesStep
    <3> QED BY <1>2, <2>2, <3>1 DEF Bit
  <2>3. CASE ~SendFires(waits) /\ ~TranslateFires(waits)
    <3>1. ftq_ptr_pipe' = ftq_ptr_pipe
      BY <2>3, PipesStep
    <3> QED BY <1>1, <2>3, <3>1 DEF Bit
  <2> QED BY <2>1, <2>2, <2>3
<1>6. PICK A, B, s, t : /\ A = (IF Stage1Fires(waits) THEN Tail(fetch_requests) ELSE fetch_requests)
                        /\ B = (IF TranslateFires(waits) THEN ftq_ptr_pipe ELSE <<>>)
                        /\ s = Bit(Stage1Fires(waits)) /\ t = Bit(TranslateFires(waits))
  OBVIOUS
<1>7. fetch_requests' = A \o B
  BY <1>6, PipesStep
<1>8. /\ A \in Seq(Request) /\ Len(A) = Len(fetch_requests) - s /\ s \in Nat
      /\ \A j \in 1 .. Len(A) : A[j] = fetch_requests[j + s]
  <2>1. fetch_requests \in Seq(Request)
    BY DEF FetchInv, Types
  <2>2. CASE Stage1Fires(waits)
    <3>1. A = Tail(fetch_requests) /\ s = 1 /\ fetch_requests # <<>>
      BY <1>1, <1>2, <1>6, <2>2 DEF Bit
    <3> QED BY <2>1, <3>1
  <2>3. CASE ~Stage1Fires(waits)
    <3>1. A = fetch_requests /\ s = 0
      BY <1>6, <2>3 DEF Bit
    <3> QED BY <2>1, <3>1
  <2> QED BY <2>2, <2>3
<1>9. /\ B \in Seq(Request) /\ Len(B) = t /\ t \in Nat /\ t <= 1
      /\ \A j \in 1 .. Len(B) : TranslateFires(waits) /\ B[j] = ftq_ptr_pipe[1] /\ j = 1
  <2>1. CASE TranslateFires(waits)
    <3>1. B = ftq_ptr_pipe /\ t = 1 /\ ftq_ptr_pipe # <<>>
      <4>1. B = ftq_ptr_pipe /\ t = 1
        BY <1>6, <2>1 DEF Bit
      <4>2. ftq_ptr_pipe # <<>>
        BY <2>1 DEF TranslateFires
      <4> QED BY <4>1, <4>2
    <3>2. PICK x \in Request : ftq_ptr_pipe = <<x>>
      BY <3>1 DEF FetchInv, Types, TypeOK, AtMostOne
    <3> QED BY <2>1, <3>1, <3>2
  <2>2. CASE ~TranslateFires(waits)
    <3>1. B = <<>> /\ t = 0
      BY <1>6, <2>2 DEF Bit
    <3> QED BY <3>1
  <2> QED BY <2>1, <2>2
<1>10. /\ fetch_requests' \in Seq(Request) /\ Len(fetch_requests') = Len(A) + Len(B)
       /\ \A j \in 1 .. Len(A) + Len(B) : fetch_requests'[j] = IF j <= Len(A) THEN A[j] ELSE B[j - Len(A)]
  BY <1>7, <1>8, <1>9, ConcatProperties
<1>11. Len(fetch_requests') = Len(fetch_requests) - s + t /\ Len(fetch_requests') <= 2
  <2>1. t = 1 => Len(fetch_requests) < 2
    BY <1>2, <1>6 DEF Bit
  <2> QED BY <1>1, <1>8, <1>9, <1>10, <2>1
<1>12. ASSUME NEW j \in 1 .. Len(fetch_requests')
       PROVE  IF j + s <= Len(fetch_requests) THEN fetch_requests'[j] = fetch_requests[j + s]
              ELSE /\ TranslateFires(waits) /\ fetch_requests'[j] = ftq_ptr_pipe[1]
                   /\ j + s = Len(fetch_requests) + 1
  <2>1. j \in 1 .. Len(A) + Len(B) /\ Len(A) \in Nat /\ Len(B) \in Nat
    BY <1>8, <1>9, <1>10
  <2>2. CASE j <= Len(A)
    <3>1. j \in 1 .. Len(A) /\ fetch_requests'[j] = A[j]
      BY <1>10, <2>1, <2>2
    <3>2. A[j] = fetch_requests[j + s] /\ j + s <= Len(fetch_requests)
      BY <1>1, <1>8, <2>1, <2>2, <3>1
    <3> QED BY <3>1, <3>2
  <2>3. CASE ~(j <= Len(A))
    <3>1. fetch_requests'[j] = B[j - Len(A)] /\ j - Len(A) \in 1 .. Len(B)
      BY <1>10, <2>1, <2>3
    <3>2. TranslateFires(waits) /\ B[j - Len(A)] = ftq_ptr_pipe[1] /\ j - Len(A) = 1
      BY <1>9, <3>1
    <3>3. j + s = Len(fetch_requests) + 1
      BY <1>1, <1>8, <2>1, <3>2
    <3>4. ~(j + s <= Len(fetch_requests))
      BY <1>1, <3>3
    <3> QED BY <3>1, <3>2, <3>3, <3>4
  <2> QED BY <2>2, <2>3
<1>13. BufferMoves(waits)
  BY <1>6, <1>12 DEF BufferMoves
<1> QED BY <1>3, <1>4, <1>5, <1>6, <1>10, <1>11, <1>13

LEMMA RequestsStep ==
    ASSUME FetchInv, NEW waits, NEW pr, NEW half, NEW e, NEW other, NEW rd, NEW keep,
           Step(waits, pr, half, e, other, rd, keep)
    PROVE  /\ Gone(waits) \in Nat /\ Gone(waits) <= 1 /\ Gone(waits) <= Inflight
           /\ Inflight' = Inflight - Gone(waits) + Bit(SendFires(waits)) /\ Inflight' \in Nat
           /\ RequestsMove(waits, pr)
<1>1. PICK s, r, p, s1, r1, p1, G, S, T, W :
        /\ s = Len(s1_s2_pipe) /\ r = Len(fetch_requests) /\ p = Len(ftq_ptr_pipe)
        /\ s1 = Len(s1_s2_pipe') /\ r1 = Len(fetch_requests') /\ p1 = Len(ftq_ptr_pipe')
        /\ G = Gone(waits) /\ S = Bit(Stage1Fires(waits)) /\ T = Bit(TranslateFires(waits))
        /\ W = Bit(SendFires(waits))
  OBVIOUS
<1>2. /\ s \in Nat /\ s <= 1 /\ r \in Nat /\ r <= 2 /\ p \in Nat /\ p <= 1
  BY <1>1, PipeLengths
<1>3. /\ s1 = s - G + S /\ r1 = r - S + T /\ p1 = p - T + W /\ G <= s /\ S <= r /\ T <= p
      /\ Stage1Fires(waits) => s = G
      /\ SendFires(waits) => p = T
      /\ BufferMoves(waits)
  BY <1>1, PipeLengthsStep
<1>4. /\ S = (IF Stage1Fires(waits) THEN 1 ELSE 0) /\ T = (IF TranslateFires(waits) THEN 1 ELSE 0)
      /\ W = (IF SendFires(waits) THEN 1 ELSE 0) /\ G = (IF Stage2Fires(waits) THEN 1 ELSE 0)
  BY <1>1 DEF Gone, Bit
<1>5. /\ Inflight = s + r + p /\ Inflight' = s1 + r1 + p1 /\ Ahead = s + r /\ Ahead' = s1 + r1
  <2>1. /\ Inflight = p + r + s /\ Inflight' = p1 + r1 + s1 /\ Ahead = s + r /\ Ahead' = s1 + r1
    BY <1>1 DEF Inflight, Ahead
  <2>2. s1 \in Nat /\ r1 \in Nat /\ p1 \in Nat
    BY <1>2, <1>3, <1>4
  <2> QED BY <1>2, <2>1, <2>2
<1>6. Inflight' = Inflight - G + W /\ Inflight' \in Nat /\ G \in Nat /\ G <= 1 /\ G <= Inflight
  BY <1>2, <1>3, <1>4, <1>5
<1>7. ASSUME NEW k \in 1 .. Inflight'
      PROVE  IF k + G <= Inflight THEN SameRequest(Req(k)', Req(k + G))
             ELSE SendFires(waits) /\ k = Inflight' /\ Req(k)' = NewRequest(pr)
  <2>1. k \in Nat /\ k >= 1 /\ k <= s1 + r1 + p1
    BY <1>5, <1>6
  <2>2. Req(k)' = IF k <= s1 THEN s1_s2_pipe'[k]
                  ELSE IF k <= s1 + r1 THEN fetch_requests'[k - s1] ELSE ftq_ptr_pipe'[k - (s1 + r1)]
    BY <1>1, <1>5 DEF Req
  <2>3. Req(k + G) = IF k + G <= s THEN s1_s2_pipe[k + G]
                     ELSE IF k + G <= s + r THEN fetch_requests[k + G - s] ELSE ftq_ptr_pipe[k + G - (s + r)]
    <3>1. PICK m : m = k + G
      OBVIOUS
    <3>2. Req(m) = IF m <= s THEN s1_s2_pipe[m]
                   ELSE IF m <= s + r THEN fetch_requests[m - s] ELSE ftq_ptr_pipe[m - (s + r)]
      BY <1>1, <1>5 DEF Req
    <3> QED BY <1>2, <1>6, <2>1, <3>1, <3>2
  <2>4. CASE k <= s1 /\ Stage1Fires(waits)
    <3>1. k = 1 /\ s = G /\ S = 1 /\ r >= 1
      BY <1>2, <1>3, <1>4, <2>1, <2>4
    <3>2. Req(k)' = s1_s2_pipe'[1] /\ s1_s2_pipe' = <<Received(half)>>
      BY <2>2, <2>4, <3>1, PipesStep
    <3>3. Req(k + G) = fetch_requests[1]
      <4>1. ~(k + G <= s) /\ k + G <= s + r /\ k + G - s = 1
        BY <1>2, <1>4, <3>1
      <4> QED BY <2>3, <4>1
    <3>4. k + G <= Inflight
      BY <1>2, <1>4, <1>5, <3>1
    <3>5. SameRequest(Received(half), fetch_requests[1])
      BY DEF SameRequest, Received
    <3> QED BY <3>2, <3>3, <3>4, <3>5
  <2>5. CASE k <= s1 /\ ~Stage1Fires(waits)
    <3>1. G = 0 /\ k = 1 /\ s = 1
      BY <1>2, <1>3, <1>4, <2>1, <2>5
    <3>2. ~Stage2Fires(waits)
      BY <1>4, <3>1
    <3>3. Req(k)' = s1_s2_pipe'[1] /\ s1_s2_pipe' = s1_s2_pipe
      BY <2>2, <2>5, <3>1, <3>2, PipesStep
    <3>4. Req(k + G) = s1_s2_pipe[1]
      <4>1. k + G = 1 /\ k + G <= s
        BY <3>1
      <4> QED BY <2>3, <4>1
    <3>5. k + G <= Inflight
      BY <1>2, <1>5, <3>1
    <3> QED BY <3>3, <3>4, <3>5 DEF SameRequest
  <2>6. CASE ~(k <= s1) /\ k <= s1 + r1
    <3>1. PICK j \in 1 .. r1 : j = k - s1
      <4>1. k - s1 \in 1 .. r1
        BY <1>2, <1>3, <1>4, <2>1, <2>6
      <4> QED BY <4>1
    <3>2. Req(k)' = fetch_requests'[j]
      BY <2>2, <2>6, <3>1
    <3>3. IF j + S <= r THEN fetch_requests'[j] = fetch_requests[j + S]
          ELSE TranslateFires(waits) /\ fetch_requests'[j] = ftq_ptr_pipe[1] /\ j + S = r + 1
      BY <1>1, <1>3, <3>1 DEF BufferMoves
    <3>4. j + S = k + G - s /\ j \in Nat /\ j >= 1
      BY <1>2, <1>3, <1>4, <2>1, <3>1
    <3>5. CASE j + S <= r
      <4>1. ~(k + G <= s) /\ k + G <= s + r /\ k + G <= Inflight
        BY <1>2, <1>4, <1>5, <2>1, <3>4, <3>5
      <4>2. Req(k + G) = fetch_requests[j + S]
        BY <2>3, <3>4, <4>1
      <4> QED BY <3>2, <3>3, <3>5, <4>1, <4>2 DEF SameRequest
    <3>6. CASE ~(j + S <= r)
      <4>1. TranslateFires(waits) /\ fetch_requests'[j] = ftq_ptr_pipe[1] /\ j + S = r + 1
        BY <3>3, <3>6
      <4>2. T = 1 /\ p = 1
        BY <1>2, <1>3, <1>4, <4>1
      <4>3. ~(k + G <= s) /\ ~(k + G <= s + r) /\ k + G <= Inflight /\ k + G - (s + r) = 1
        BY <1>2, <1>4, <1>5, <2>1, <3>4, <4>1, <4>2
      <4>4. Req(k + G) = ftq_ptr_pipe[1]
        BY <2>3, <4>3
      <4> QED BY <3>2, <4>1, <4>3, <4>4 DEF SameRequest
    <3> QED BY <3>5, <3>6
  <2>7. CASE ~(k <= s1) /\ ~(k <= s1 + r1)
    <3>1. k = s1 + r1 + 1 /\ p1 = 1 /\ k = Inflight' /\ k - (s1 + r1) = 1
      BY <1>2, <1>3, <1>4, <1>5, <2>1, <2>7
    <3>2. Req(k)' = ftq_ptr_pipe'[1]
      BY <2>2, <2>7, <3>1
    <3>3. CASE SendFires(waits)
      <4>1. ftq_ptr_pipe' = <<NewRequest(pr)>> /\ W = 1
        BY <1>4, <3>3, PipesStep
      <4>2. ~(k + G <= Inflight)
        BY <1>2, <1>3, <1>4, <1>5, <1>6, <3>1, <4>1
      <4> QED BY <3>1, <3>2, <3>3, <4>1, <4>2
    <3>4. CASE ~SendFires(waits)
      <4>1. ~TranslateFires(waits) /\ T = 0 /\ W = 0 /\ p = 1
        BY <1>2, <1>3, <1>4, <3>1, <3>4
      <4>2. ftq_ptr_pipe' = ftq_ptr_pipe
        BY <3>4, <4>1, PipesStep
      <4>3. ~(k + G <= s) /\ ~(k + G <= s + r) /\ k + G - (s + r) = 1 /\ k + G <= Inflight
        BY <1>2, <1>3, <1>4, <1>5, <3>1, <4>1
      <4>4. Req(k + G) = ftq_ptr_pipe[1]
        BY <2>3, <4>3
      <4> QED BY <3>2, <4>2, <4>3, <4>4 DEF SameRequest
    <3> QED BY <3>3, <3>4
  <2> QED BY <2>4, <2>5, <2>6, <2>7
<1>8. RequestsMove(waits, pr)
  BY <1>1, <1>7 DEF RequestsMove
<1> QED BY <1>1, <1>6, <1>8

-----------------------------------------------------------------------------
(***************************************************************************)
(* What a cycle writes has the right type.                                 *)
(***************************************************************************)
LEMMA PredictorType ==
    ASSUME FetchInv, s1_pipe # <<>>
    PROVE  s1_pipe[1].ptr \in Ptr /\ s1_pipe[1].pc \in Block /\ Len(s1_pipe) = 1
<1>1. PICK x \in [ptr : Ptr, pc : Block] : s1_pipe = <<x>>
  BY DEF FetchInv, Types, TypeOK, AtMostOne
<1> QED BY <1>1

LEMMA PredictionType ==
    ASSUME FetchInv, NEW waits, NEW pr, NEW half, NEW e, NEW other, NEW rd, NEW keep,
           Step(waits, pr, half, e, other, rd, keep), PredictFires
    PROVE  /\ s1_pipe # <<>> /\ next_fetch_addr = <<>> /\ pr.to \in Block /\ pr.cfi \in BOOLEAN
<1>1. s1_pipe # <<>> /\ next_fetch_addr = <<>>
  BY DEF PredictFires
<1>2. pr \in Predictions(s1_pipe[1].pc) /\ s1_pipe[1].pc \in Block
  BY <1>1, PredictorType DEF Step, Inputs
<1>3. pr.cfi \in BOOLEAN
  BY <1>2, Exits
<1>4. pr.to \in Block
  <2>1. pr \in Jumps => pr.to \in Block
    BY DEF Jumps
  <2>2. FallThrough(s1_pipe[1].pc).to \in Block
    BY <1>2, NextBlock DEF FallThrough
  <2> QED BY <1>2, <2>1, <2>2 DEF Predictions
<1> QED BY <1>1, <1>3, <1>4

LEMMA AllocPcType ==
    ASSUME FetchInv, NEW waits, NEW pr, NEW half, NEW e, NEW other, NEW rd, NEW keep,
           Step(waits, pr, half, e, other, rd, keep), AllocFires
    PROVE  /\ AllocPc(pr) \in Block
           /\ next_fetch_addr # <<>> => ~PredictFires /\ s1_pipe = <<>> /\ next_fetch_addr = <<AllocPc(pr)>>
           /\ next_fetch_addr = <<>> => PredictFires /\ AllocPc(pr) = pr.to
<1>1. (next_fetch_addr # <<>> \/ PredictFires) /\ (s1_pipe = <<>> \/ PredictFires)
  BY DEF AllocFires, AddressReady
<1>2. PredictFires => next_fetch_addr = <<>>
  BY DEF PredictFires
<1>3. CASE next_fetch_addr # <<>>
  <2>1. PICK x \in Block : next_fetch_addr = <<x>>
    BY <1>3 DEF FetchInv, Types, TypeOK, AtMostOne
  <2> QED BY <1>1, <1>2, <1>3, <2>1 DEF AllocPc
<1>4. CASE next_fetch_addr = <<>>
  BY <1>1, <1>4, PredictionType DEF AllocPc
<1> QED BY <1>3, <1>4

\* Generations are counted modulo Gens.
LEMMA NextGeneration ==
    ASSUME FetchInv
    PROVE  /\ NewGen \in 0 .. Gens - 1 /\ entry_gen[Idx(fetch_ptr)] \in 0 .. Gens - 1
           /\ Gens \in Nat /\ MaxInflight \in Nat /\ MaxInflight <= Gens /\ MaxInflight > 0
           /\ NewGen = IF entry_gen[Idx(fetch_ptr)] + 1 = Gens THEN 0 ELSE entry_gen[Idx(fetch_ptr)] + 1
<1>1. Gens \in Nat /\ MaxInflight \in Nat /\ MaxInflight <= Gens /\ MaxInflight > 0 /\ Gens > 0
  BY InflightAssumption
<1>2. entry_gen[Idx(fetch_ptr)] \in 0 .. Gens - 1
  BY PointerOrder, Positions DEF FetchInv, Types, TypeOK
<1>3. NewGen = IF entry_gen[Idx(fetch_ptr)] + 1 = Gens THEN 0 ELSE entry_gen[Idx(fetch_ptr)] + 1
  <2>1. PICK x \in Nat : x = entry_gen[Idx(fetch_ptr)] + 1 /\ x <= Gens
    BY <1>1, <1>2
  <2>2. x % Gens = IF x = Gens THEN 0 ELSE x
    BY <1>1, <2>1, SmallMod
  <2> QED BY <2>1, <2>2 DEF NewGen
<1>4. NewGen \in 0 .. Gens - 1
  BY <1>1, <1>2, <1>3
<1> QED BY <1>1, <1>2, <1>3, <1>4

LEMMA NewRequestType ==
    ASSUME FetchInv, NEW waits, NEW pr, NEW half, NEW e, NEW other, NEW rd, NEW keep,
           Step(waits, pr, half, e, other, rd, keep), SendFires(waits)
    PROVE  /\ NewRequest(pr) \in Request /\ FetchPc(pr) \in Block
           /\ NewRequest(pr).ptr = fetch_ptr /\ NewRequest(pr).gen = NewGen /\ NewRequest(pr).pc = FetchPc(pr)
<1>1. FetchPc(pr) \in Block
  <2>1. CASE EarlyFetch
    BY <2>1, AllocPcType, Fires DEF FetchPc
  <2>2. CASE ~EarlyFetch
    <3>1. Pos(fetch_ptr) < Pos(alloc_ptr) /\ Pos(fetch_ptr) <= Pos(fetch_ptr) /\ fetch_ptr \in Ptr
      BY <2>2, Fires, PointerOrder
    <3>2. pc_mem[Idx(fetch_ptr)] \in Block
      BY <3>1 DEF FetchInv, Linked
    <3> QED BY <2>2, <3>2 DEF FetchPc
  <2> QED BY <2>1, <2>2
<1>2. NewGen \in 0 .. Gens - 1 /\ fetch_ptr \in Ptr
  BY NextGeneration, PointerOrder
<1> QED BY <1>1, <1>2 DEF NewRequest, Request

LEMMA PipeTypesStep ==
    ASSUME FetchInv, NEW waits, NEW pr, NEW half, NEW e, NEW other, NEW rd, NEW keep,
           Step(waits, pr, half, e, other, rd, keep)
    PROVE  /\ ftq_ptr_pipe' \in AtMostOne(Request)
           /\ fetch_requests' \in Seq(Request) /\ Len(fetch_requests') <= 2
           /\ s1_s2_pipe' \in AtMostOne([ptr : Ptr, gen : 0 .. Gens - 1, pc : Block,
                                         starts : BOOLEAN, ends : BOOLEAN])
<1>1. ftq_ptr_pipe' \in AtMostOne(Request)
  <2>1. ftq_ptr_pipe \in AtMostOne(Request)
    BY DEF FetchInv, Types, TypeOK
  <2>2. SendFires(waits) => <<NewRequest(pr)>> \in AtMostOne(Request)
    BY NewRequestType DEF AtMostOne
  <2>3. <<>> \in AtMostOne(Request)
    BY DEF AtMostOne
  <2> QED BY <2>1, <2>2, <2>3, PipesStep
<1>2. fetch_requests' \in Seq(Request) /\ Len(fetch_requests') <= 2
  BY PipeLengthsStep
<1>3. ASSUME Stage1Fires(waits)
      PROVE  Received(half) \in [ptr : Ptr, gen : 0 .. Gens - 1, pc : Block, starts : BOOLEAN, ends : BOOLEAN]
  <2>1. fetch_requests # <<>> /\ fetch_requests \in Seq(Request)
    BY <1>3 DEF Stage1Fires, FetchInv, Types
  <2>2. fetch_requests[1] \in Request
    BY <2>1
  <2>3. half \in BOOLEAN
    BY DEF Step, Inputs
  <2>4. StartsMidInstr(fetch_requests[1]) \in BOOLEAN
    BY DEF StartsMidInstr
  <2> QED BY <2>2, <2>3, <2>4 DEF Received, Request
<1>4. s1_s2_pipe' \in AtMostOne([ptr : Ptr, gen : 0 .. Gens - 1, pc : Block, starts : BOOLEAN, ends : BOOLEAN])
  <2> DEFINE R == [ptr : Ptr, gen : 0 .. Gens - 1, pc : Block, starts : BOOLEAN, ends : BOOLEAN]
  <2>1. s1_s2_pipe \in AtMostOne(R)
    BY DEF FetchInv, Types, TypeOK
  <2>2. Stage1Fires(waits) => Received(half) \in R
    BY <1>3
  <2> HIDE DEF R
  <2>3. (Stage1Fires(waits) => <<Received(half)>> \in AtMostOne(R)) /\ <<>> \in AtMostOne(R)
    BY <2>2 DEF AtMostOne
  <2>4. s1_s2_pipe' \in AtMostOne(R)
    BY <2>1, <2>3, PipesStep
  <2> QED BY <2>4 DEF R
<1> QED BY <1>1, <1>2, <1>4

\* The entries with requests in flight keep their generations.
GensKept(waits) ==
    \A k \in 1 .. Inflight' :
        entry_gen'[Idx(Req(k)'.ptr)] =
            IF SendFires(waits) /\ Idx(Req(k)'.ptr) = Idx(fetch_ptr) THEN NewGen
            ELSE entry_gen[Idx(Req(k)'.ptr)]

LEMMA RequestedStep ==
    ASSUME FetchInv, NEW waits, NEW pr, NEW half, NEW e, NEW other, NEW rd, NEW keep,
           Step(waits, pr, half, e, other, rd, keep), NEW k \in 1 .. Inflight'
    PROVE  Idx(Req(k)'.ptr) \in RequestedEntries /\ Req(k)'.ptr \in Ptr
<1>1. PICK s, r, p, Q : /\ s = Len(s1_s2_pipe') /\ r = Len(fetch_requests') /\ p = Len(ftq_ptr_pipe')
                        /\ Q = ftq_ptr_pipe' \o fetch_requests'
  OBVIOUS
<1>2. fetch_requests' \in Seq(Request) /\ ftq_ptr_pipe' \in Seq(Request)
      /\ (ftq_ptr_pipe' = <<>> \/ p = 1)
  <2>1. fetch_requests' \in Seq(Request) /\ ftq_ptr_pipe' \in AtMostOne(Request)
    BY PipeTypesStep
  <2>2. CASE ftq_ptr_pipe' = <<>>
    BY <2>1, <2>2
  <2>3. CASE ftq_ptr_pipe' # <<>>
    <3>1. PICK x \in Request : ftq_ptr_pipe' = <<x>>
      BY <2>1, <2>3 DEF AtMostOne
    <3> QED BY <1>1, <2>1, <3>1
  <2> QED BY <2>2, <2>3
<1>3. /\ Len(Q) = p + r /\ p \in Nat /\ r \in Nat
      /\ \A i \in 1 .. p + r : Q[i] = IF i <= p THEN ftq_ptr_pipe'[i] ELSE fetch_requests'[i - p]
  BY <1>1, <1>2, ConcatProperties
<1>4. s \in Nat /\ s <= 1 /\ DOMAIN s1_s2_pipe' = 1 .. s
      /\ \A i \in 1 .. s : s1_s2_pipe'[i].ptr \in Ptr
  <2>1. CASE s1_s2_pipe' = <<>>
    BY <1>1, <2>1
  <2>2. CASE s1_s2_pipe' # <<>>
    <3>1. PICK x \in [ptr : Ptr, gen : 0 .. Gens - 1, pc : Block, starts : BOOLEAN, ends : BOOLEAN] :
            s1_s2_pipe' = <<x>>
      BY <2>2, PipeTypesStep DEF AtMostOne
    <3> QED BY <1>1, <3>1
  <2> QED BY <2>1, <2>2
<1>5. k \in Nat /\ k >= 1 /\ k <= s + r + p
  <2>1. Inflight' = p + r + s
    BY <1>1 DEF Inflight
  <2> QED BY <1>3, <1>4, <2>1
<1>6. Req(k)' = IF k <= s THEN s1_s2_pipe'[k]
                ELSE IF k <= s + r THEN fetch_requests'[k - s] ELSE ftq_ptr_pipe'[k - (s + r)]
  BY <1>1 DEF Req, Ahead
<1>7. ASSUME NEW i \in 1 .. p + r PROVE Idx(Q[i].ptr) \in RequestedEntries /\ Q[i] \in Request
  <2>1. Q[i] \in Request
    <3>1. Q \in Seq(Request) /\ i \in 1 .. Len(Q)
      BY <1>1, <1>2, <1>3, ConcatProperties
    <3> QED BY <3>1
  <2>2. Q[i] \in {(ftq_ptr_pipe' \o fetch_requests')[j] : j \in 1 .. Len(ftq_ptr_pipe') + Len(fetch_requests')}
    BY <1>1
  <2> QED BY <2>1, <2>2 DEF RequestedEntries
<1>8. CASE k <= s
  <2>1. k \in 1 .. s
    BY <1>4, <1>5, <1>8
  <2>2. Req(k)' = s1_s2_pipe'[k] /\ k \in DOMAIN s1_s2_pipe'
    BY <1>4, <1>6, <1>8, <2>1
  <2> QED BY <1>4, <2>1, <2>2 DEF RequestedEntries
<1>9. CASE ~(k <= s) /\ k <= s + r
  <2>0. PICK i : i = p + (k - s)
    OBVIOUS
  <2>1. i \in 1 .. p + r /\ ~(i <= p) /\ i - p = k - s
    BY <1>3, <1>4, <1>5, <1>9, <2>0
  <2>2. Q[i] = fetch_requests'[k - s]
    BY <1>3, <2>1
  <2>3. Req(k)' = Q[i]
    BY <1>6, <1>9, <2>2
  <2> QED BY <1>7, <2>1, <2>3 DEF Request
<1>10. CASE ~(k <= s) /\ ~(k <= s + r)
  <2>1. p # 0 /\ k - (s + r) >= 1
    BY <1>3, <1>4, <1>5, <1>10
  <2>2. p = 1
    BY <1>1, <1>2, <2>1
  <2>3. k - (s + r) = 1
    BY <1>3, <1>4, <1>5, <2>1, <2>2
  <2>4. 1 \in 1 .. p + r /\ Q[1] = ftq_ptr_pipe'[1]
    BY <1>3, <2>2
  <2>5. Req(k)' = Q[1]
    BY <1>6, <1>10, <2>3, <2>4
  <2> QED BY <1>7, <2>4, <2>5 DEF Request
<1> QED BY <1>8, <1>9, <1>10

LEMMA GenerationsStep ==
    ASSUME FetchInv, NEW waits, NEW pr, NEW half, NEW e, NEW other, NEW rd, NEW keep,
           Step(waits, pr, half, e, other, rd, keep)
    PROVE  entry_gen' \in [0 .. FtqSize - 1 -> 0 .. Gens - 1] /\ GensKept(waits)
<1>0. PICK gens : gens = IF SendFires(waits) THEN [entry_gen EXCEPT ![Idx(fetch_ptr)] = NewGen] ELSE entry_gen
  OBVIOUS
<1>1. entry_gen' = [i \in DOMAIN gens |-> IF i \in RequestedEntries THEN gens[i] ELSE 0]
  <2>1. MemoriesCycle(waits, pr, e)
    BY DEF Step, FetchCycle
  <2> QED BY <1>0, <2>1 DEF MemoriesCycle
<1>2. entry_gen \in [0 .. FtqSize - 1 -> 0 .. Gens - 1] /\ Idx(fetch_ptr) \in 0 .. FtqSize - 1
  BY PointerOrder, Positions DEF FetchInv, Types, TypeOK
<1>3. /\ gens \in [0 .. FtqSize - 1 -> 0 .. Gens - 1]
      /\ \A i \in 0 .. FtqSize - 1 :
            gens[i] = IF SendFires(waits) /\ i = Idx(fetch_ptr) THEN NewGen ELSE entry_gen[i]
  BY <1>0, <1>2, NextGeneration
<1>4. entry_gen' \in [0 .. FtqSize - 1 -> 0 .. Gens - 1]
  <2>1. 0 \in 0 .. Gens - 1
    BY NextGeneration
  <2> QED BY <1>1, <1>3, <2>1
<1>5. ASSUME NEW k \in 1 .. Inflight'
      PROVE  entry_gen'[Idx(Req(k)'.ptr)] =
               IF SendFires(waits) /\ Idx(Req(k)'.ptr) = Idx(fetch_ptr) THEN NewGen
               ELSE entry_gen[Idx(Req(k)'.ptr)]
  <2>1. PICK i : i = Idx(Req(k)'.ptr)
    OBVIOUS
  <2>2. i \in RequestedEntries /\ i \in 0 .. FtqSize - 1
    <3>1. Idx(Req(k)'.ptr) \in RequestedEntries /\ Req(k)'.ptr \in Ptr
      BY RequestedStep
    <3>2. \A p \in Ptr : Idx(p) \in 0 .. FtqSize - 1
      BY PointerOrder, Positions
    <3> QED BY <2>1, <3>1, <3>2
  <2>3. entry_gen'[i] = gens[i]
    BY <1>1, <1>3, <2>2
  <2>4. gens[i] = IF SendFires(waits) /\ i = Idx(fetch_ptr) THEN NewGen ELSE entry_gen[i]
    BY <1>3, <2>2
  <2> QED BY <2>1, <2>3, <2>4
<1>6. GensKept(waits)
  BY <1>5 DEF GensKept
<1> QED BY <1>4, <1>6

-----------------------------------------------------------------------------
(***************************************************************************)
(* How a cycle changes the memories of the queue.                          *)
(***************************************************************************)
\* The queue does not overflow.
LEMMA AllocBound ==
    ASSUME FetchInv, NEW waits, NEW pr, NEW half, NEW e, NEW other, NEW rd, NEW keep,
           Step(waits, pr, half, e, other, rd, keep)
    PROVE  /\ Distance(train_ptr', alloc_ptr') + Trained <= FtqSize
           /\ Distance(train_ptr', alloc_ptr') \in Nat /\ Distance(train_ptr', pred_ptr') \in Nat
           /\ Distance(train_ptr', fetch_ptr') \in Nat
           /\ Distance(train_ptr', pred_ptr') <= Distance(train_ptr', fetch_ptr')
           /\ Distance(train_ptr', fetch_ptr') <= Distance(train_ptr', alloc_ptr')
<1>1. /\ Distance(train_ptr', alloc_ptr') \in Nat /\ Distance(train_ptr', pred_ptr') \in Nat
      /\ Distance(train_ptr', fetch_ptr') \in Nat
  <2>1. train_ptr' \in Ptr /\ alloc_ptr' \in Ptr /\ pred_ptr' \in Ptr /\ fetch_ptr' \in Ptr
    BY TrainStep, PointersStep
  <2> QED BY <2>1, Positions
<1>2. /\ Distance(train_ptr', pred_ptr') <= Distance(train_ptr', fetch_ptr')
      /\ Distance(train_ptr', fetch_ptr') <= Distance(train_ptr', alloc_ptr')
  BY OrderStep DEF PointersOrdered
<1>3. Distance(train_ptr', alloc_ptr') + Trained <= FtqSize
  <2>0. Trained \in Nat
    BY TrainStep
  <2>1. CASE rd # <<>>
    <3>1. PICK x : x = Pos(rd[1].ptr)
      OBVIOUS
    <3>2. x \in Nat /\ x < Len(path) /\ Distance(train_ptr', alloc_ptr') = x + 1 - Trained
      BY <2>1, <3>1, PointersStep DEF RedirectBackend
    <3> QED BY <2>0, <3>2, PointerOrder
  <2>2. CASE rd = <<>> /\ Turns(waits, e, other)
    <3>1. Distance(train_ptr', alloc_ptr') = Pos(pred_ptr) + 1 - Trained /\ Pos(pred_ptr) < Pos(fetch_ptr)
      BY <2>2, PointersStep, TurnsHere
    <3> QED BY <2>0, <3>1, PointerOrder
  <2>3. CASE rd = <<>> /\ ~Turns(waits, e, other)
    <3>1. Distance(train_ptr', alloc_ptr') = Pos(alloc_ptr) + Bit(AllocFires) - Trained
      BY <2>3, PointersStep
    <3>2. Bit(AllocFires) \in Nat /\ Pos(alloc_ptr) + Bit(AllocFires) <= FtqSize
      BY Fires, PointerOrder DEF Bit
    <3> QED BY <2>0, <3>1, <3>2, PointerOrder
  <2> QED BY <2>1, <2>2, <2>3
<1> QED BY <1>1, <1>2, <1>3

\* In the predictor's pipeline is the youngest entry, and it is predicted now.
LEMMA Predicting ==
    ASSUME FetchInv, s1_pipe # <<>>
    PROVE  /\ PredictFires /\ next_fetch_addr = <<>> /\ s1_pipe[1].ptr \in Ptr
           /\ Succ(s1_pipe[1].ptr) = alloc_ptr /\ pred_ptr # alloc_ptr
           /\ Pos(s1_pipe[1].ptr) \in Nat /\ Pos(alloc_ptr) = Pos(s1_pipe[1].ptr) + 1
<1>1. /\ req_valid /\ next_fetch_addr = <<>> /\ pred_ptr # alloc_ptr /\ Succ(s1_pipe[1].ptr) = alloc_ptr
  BY DEF FetchInv, Continues
<1>2. PredictFires
  BY <1>1 DEF PredictFires
<1>3. s1_pipe[1].ptr \in Ptr
  BY PredictorType
<1>4. PICK p \in Ptr : p = s1_pipe[1].ptr
  BY <1>3
<1>5. Pos(p) \in Nat /\ Pos(p) < 2 * FtqSize /\ Pos(alloc_ptr) > 0
  <2>1. Pos(p) \in Nat /\ Pos(p) < 2 * FtqSize
    BY PointerOrder, Positions DEF Pos
  <2>2. Pos(alloc_ptr) # Pos(pred_ptr)
    BY <1>1, PointerOrder, PositionsUnique DEF Pos
  <2> QED BY <2>1, <2>2, PointerOrder
<1>6. Pos(alloc_ptr) = Pos(p) + 1
  <2>1. alloc_ptr = Succ(p)
    BY <1>1, <1>4
  <2>2. train_ptr \in Ptr
    BY PointerOrder
  <2>3. Pos(p) + 1 # 2 * FtqSize
    BY <1>5, <2>1, <2>2, Positions DEF Pos
  <2>4. Pos(p) + 1 < 2 * FtqSize
    BY <1>5, <2>3, SizesAssumption
  <2> QED BY <2>1, <2>2, <2>4, Positions DEF Pos
<1> QED BY <1>1, <1>2, <1>3, <1>4, <1>5, <1>6

\* Memories after the step, at the entries of the queue.
EntryAfter(waits, pr, e, p) ==
    /\ Pos(p) < FtqSize
    /\ prediction_mem'[Idx(p)].at =
          IF PredictFires /\ s1_pipe[1].ptr = p THEN s1_pipe[1].pc ELSE prediction_mem[Idx(p)].at
    /\ Distance(train_ptr', pred_ptr') <= Pos(p) - Trained =>
          prediction_mem'[Idx(p)].to =
              IF PredictFires /\ s1_pipe[1].ptr = p THEN pr.to ELSE prediction_mem[Idx(p)].to
    /\ Distance(train_ptr', fetch_ptr') <= Pos(p) - Trained =>
          pc_mem'[Idx(p)] = IF AllocFires /\ p = alloc_ptr THEN AllocPc(pr) ELSE pc_mem[Idx(p)]
    /\ Pos(p) - Trained < Distance(train_ptr', pred_ptr') =>
          jb_unit_prediction_mem'[Idx(p)] =
              IF Delivers(waits) /\ p = pred_ptr THEN e ELSE jb_unit_prediction_mem[Idx(p)]

LEMMA MemoriesTypes ==
    ASSUME FetchInv, NEW waits, NEW pr, NEW half, NEW e, NEW other, NEW rd, NEW keep,
           Step(waits, pr, half, e, other, rd, keep)
    PROVE  /\ pc_mem' \in [0 .. FtqSize - 1 -> Block \cup {Blocks}]
           /\ prediction_mem' \in [0 .. FtqSize - 1 -> Prediction]
           /\ jb_unit_prediction_mem' \in [0 .. FtqSize - 1 -> AnyExit]
<1> DEFINE I == 0 .. FtqSize - 1
<1>1. MemoriesCycle(waits, pr, e)
  BY DEF Step, FetchCycle
<1>2. /\ pc_mem \in [I -> Block \cup {Blocks}] /\ prediction_mem \in [I -> Prediction]
      /\ jb_unit_prediction_mem \in [I -> AnyExit]
  BY DEF FetchInv, Types, TypeOK
<1>3. Idx(alloc_ptr) \in I /\ \A p \in Ptr : Idx(p) \in I
  BY PointerOrder, Positions
<1> HIDE DEF I
<1>4. ASSUME NEW S, NEW mem \in [I -> S], NEW free \in S, NEW from, NEW to
      PROVE  Keep(mem, free, from, to) \in [I -> S]
  BY DEF Keep
<1>5. pc_mem' \in [I -> Block \cup {Blocks}]
  <2>1. PICK mem : mem = IF AllocFires THEN [pc_mem EXCEPT ![Idx(alloc_ptr)] = AllocPc(pr)] ELSE pc_mem
    OBVIOUS
  <2>2. pc_mem' = Keep(mem, Blocks, fetch_ptr', alloc_ptr')
    BY <1>1, <2>1 DEF MemoriesCycle
  <2>3. AllocFires => AllocPc(pr) \in Block \cup {Blocks}
    BY AllocPcType
  <2>4. mem \in [I -> Block \cup {Blocks}]
    BY <1>2, <1>3, <2>1, <2>3
  <2> QED BY <1>4, <2>2, <2>4
<1>6. prediction_mem' \in [I -> Prediction]
  <2>1. PICK predictions : predictions =
            IF PredictFires
            THEN [prediction_mem EXCEPT ![Idx(s1_pipe[1].ptr)] =
                     [at |-> s1_pipe[1].pc, cfi |-> pr.cfi, to |-> pr.to]]
            ELSE prediction_mem
    OBVIOUS
  <2>2. PICK mem : mem = [i \in DOMAIN predictions |->
                            IF InRange(i, train_ptr', pred_ptr')
                            THEN [Unused EXCEPT !.at = predictions[i].at] ELSE predictions[i]]
    OBVIOUS
  <2>3. prediction_mem' = Keep(mem, Unused, train_ptr', alloc_ptr')
    BY <1>1, <2>1, <2>2 DEF MemoriesCycle
  <2>4. PredictFires => [at |-> s1_pipe[1].pc, cfi |-> pr.cfi, to |-> pr.to] \in Prediction
                        /\ Idx(s1_pipe[1].ptr) \in I
    BY <1>3, PredictionType, PredictorType DEF Prediction
  <2>5. predictions \in [I -> Prediction]
    BY <1>2, <2>1, <2>4
  <2>6. Unused \in Prediction /\ \A x \in Prediction : [Unused EXCEPT !.at = x.at] \in Prediction
    BY DEF Unused, Prediction
  <2>7. mem \in [I -> Prediction]
    BY <2>2, <2>5, <2>6
  <2> QED BY <1>4, <2>3, <2>6, <2>7
<1>7. jb_unit_prediction_mem' \in [I -> AnyExit]
  <2>1. PICK mem : mem = IF Delivers(waits)
                         THEN [jb_unit_prediction_mem EXCEPT ![Idx(s1_s2_pipe[1].ptr)] = e]
                         ELSE jb_unit_prediction_mem
    OBVIOUS
  <2>2. jb_unit_prediction_mem' = Keep(mem, Halt, train_ptr', pred_ptr')
    BY <1>1, <2>1 DEF MemoriesCycle
  <2>3. Delivers(waits) => e \in AnyExit /\ Idx(s1_s2_pipe[1].ptr) \in I
    <3>1. SUFFICES ASSUME Delivers(waits) PROVE e \in AnyExit /\ Idx(s1_s2_pipe[1].ptr) \in I
      OBVIOUS
    <3>2. s1_s2_pipe[1].pc \in Block /\ s1_s2_pipe[1].ptr \in Ptr
      BY <3>1, Delivery, HeadType
    <3>3. e \in Predictions(s1_s2_pipe[1].pc) \cup {Halt}
      BY <3>1 DEF Step, Inputs
    <3> QED BY <1>3, <3>2, <3>3, Exits
  <2>4. mem \in [I -> AnyExit]
    BY <1>2, <2>1, <2>3
  <2>5. Halt \in AnyExit
    <3>1. Halt = [cfi |-> FALSE, to |-> Blocks]
      BY DEF Halt
    <3>2. Halt \in [cfi : {FALSE}, to : Block \cup {Blocks}]
      BY <3>1
    <3> QED BY <3>2 DEF AnyExit
  <2> QED BY <1>4, <2>2, <2>4, <2>5
<1> QED BY <1>5, <1>6, <1>7 DEF I

LEMMA EntriesStep ==
    ASSUME FetchInv, NEW waits, NEW pr, NEW half, NEW e, NEW other, NEW rd, NEW keep,
           Step(waits, pr, half, e, other, rd, keep), NEW p \in Ptr,
           Trained <= Pos(p), Pos(p) - Trained < Distance(train_ptr', alloc_ptr')
    PROVE  EntryAfter(waits, pr, e, p)
<1> DEFINE I == 0 .. FtqSize - 1
           i == Idx(p)
<1>1. MemoriesCycle(waits, pr, e)
  BY DEF Step, FetchCycle
<1>2. /\ pc_mem \in [I -> Block \cup {Blocks}] /\ prediction_mem \in [I -> Prediction]
      /\ jb_unit_prediction_mem \in [I -> AnyExit]
  BY DEF FetchInv, Types, TypeOK
<1>3. \A x \in Ptr : Idx(x) \in I
  BY PointerOrder, Positions
<1>4. i \in I
  BY <1>3
<1>5. PICK x, a1, f1, q1 : /\ x = Distance(train_ptr', p) /\ a1 = Distance(train_ptr', alloc_ptr')
                           /\ f1 = Distance(train_ptr', fetch_ptr') /\ q1 = Distance(train_ptr', pred_ptr')
  OBVIOUS
<1>6. /\ Pos(p) \in Nat /\ Trained \in Nat /\ x = Pos(p) - Trained /\ x \in Nat
      /\ a1 \in Nat /\ f1 \in Nat /\ q1 \in Nat
      /\ q1 <= f1 /\ f1 <= a1 /\ a1 + Trained <= FtqSize /\ x < a1 /\ Pos(p) < FtqSize /\ x < FtqSize
  <2>1. Trained \in Nat /\ x = Pos(p) - Trained
    BY <1>5, TrainStep
  <2>2. Pos(p) \in Nat
    BY PointerOrder, Positions DEF Pos
  <2>3. /\ a1 \in Nat /\ f1 \in Nat /\ q1 \in Nat /\ q1 <= f1 /\ f1 <= a1 /\ a1 + Trained <= FtqSize
    BY <1>5, AllocBound
  <2>4. x < a1
    BY <1>5, <2>1
  <2> QED BY <2>1, <2>2, <2>3, <2>4, SizesAssumption
<1>7. train_ptr' \in Ptr /\ alloc_ptr' \in Ptr /\ fetch_ptr' \in Ptr /\ pred_ptr' \in Ptr
  BY TrainStep, PointersStep
<1>8. /\ InRange(i, train_ptr', alloc_ptr')
      /\ InRange(i, train_ptr', pred_ptr') <=> x < q1
      /\ f1 <= x => InRange(i, fetch_ptr', alloc_ptr')
  <2>1. Distance(train_ptr', train_ptr') = 0
    BY <1>7, Positions
  <2>2. InRange(i, train_ptr', alloc_ptr') <=> x < a1
    <3>1. /\ Distance(train_ptr', train_ptr') <= Distance(train_ptr', p)
          /\ Distance(train_ptr', train_ptr') <= Distance(train_ptr', alloc_ptr')
          /\ Distance(train_ptr', p) < FtqSize
      BY <1>5, <1>6, <2>1
    <3>2. InRange(Idx(p), train_ptr', alloc_ptr') <=> Distance(train_ptr', p) < Distance(train_ptr', alloc_ptr')
      BY <1>7, <3>1, Ranges
    <3> QED BY <1>5, <3>2
  <2>3. InRange(i, train_ptr', pred_ptr') <=> x < q1
    <3>1. /\ Distance(train_ptr', train_ptr') <= Distance(train_ptr', p)
          /\ Distance(train_ptr', train_ptr') <= Distance(train_ptr', pred_ptr')
          /\ Distance(train_ptr', p) < FtqSize
      BY <1>5, <1>6, <2>1
    <3>2. InRange(Idx(p), train_ptr', pred_ptr') <=> Distance(train_ptr', p) < Distance(train_ptr', pred_ptr')
      BY <1>7, <3>1, Ranges
    <3> QED BY <1>5, <3>2
  <2>4. f1 <= x => (InRange(i, fetch_ptr', alloc_ptr') <=> x < a1)
    BY <1>5, <1>6, <1>7, Ranges
  <2> QED BY <1>6, <2>2, <2>3, <2>4
<1>9. ASSUME NEW y \in Ptr, Pos(y) < FtqSize, Idx(y) = i PROVE y = p
  BY <1>6, <1>9, PointerOrder, PositionsUnique DEF Pos
<1> HIDE DEF I, i
<1>10. ASSUME NEW S, NEW mem \in [I -> S], NEW free, NEW from, NEW to, InRange(i, from, to)
       PROVE  Keep(mem, free, from, to)[i] = mem[i]
  BY <1>4, <1>10 DEF Keep
<1>11. f1 <= x => pc_mem'[i] = IF AllocFires /\ p = alloc_ptr THEN AllocPc(pr) ELSE pc_mem[i]
  <2>1. PICK mem : mem = IF AllocFires THEN [pc_mem EXCEPT ![Idx(alloc_ptr)] = AllocPc(pr)] ELSE pc_mem
    OBVIOUS
  <2>2. pc_mem' = Keep(mem, Blocks, fetch_ptr', alloc_ptr')
    BY <1>1, <2>1 DEF MemoriesCycle
  <2>3. AllocFires => AllocPc(pr) \in Block \cup {Blocks}
    BY AllocPcType
  <2>4. mem \in [I -> Block \cup {Blocks}]
    BY <1>2, <1>3, <2>1, <2>3
  <2>5. f1 <= x => pc_mem'[i] = mem[i]
    BY <1>8, <1>10, <2>2, <2>4
  <2>6. AllocFires => (i = Idx(alloc_ptr) <=> p = alloc_ptr)
    <3>1. AllocFires => Pos(alloc_ptr) < FtqSize
      BY Fires
    <3> QED BY <1>9, <3>1, PointerOrder DEF i
  <2>7. mem[i] = IF AllocFires /\ i = Idx(alloc_ptr) THEN AllocPc(pr) ELSE pc_mem[i]
    BY <1>2, <1>3, <1>4, <2>1
  <2> QED BY <2>5, <2>6, <2>7
<1>12. /\ prediction_mem'[i].at =
            IF PredictFires /\ s1_pipe[1].ptr = p THEN s1_pipe[1].pc ELSE prediction_mem[i].at
       /\ q1 <= x => prediction_mem'[i].to =
            IF PredictFires /\ s1_pipe[1].ptr = p THEN pr.to ELSE prediction_mem[i].to
  <2>0. PICK new : new = [at |-> s1_pipe[1].pc, cfi |-> pr.cfi, to |-> pr.to]
    OBVIOUS
  <2>1. PICK predictions : predictions =
            IF PredictFires THEN [prediction_mem EXCEPT ![Idx(s1_pipe[1].ptr)] = new] ELSE prediction_mem
    OBVIOUS
  <2>2. PICK mem : mem = [j \in DOMAIN predictions |->
                            IF InRange(j, train_ptr', pred_ptr')
                            THEN [Unused EXCEPT !.at = predictions[j].at] ELSE predictions[j]]
    OBVIOUS
  <2>3. prediction_mem' = Keep(mem, Unused, train_ptr', alloc_ptr')
    BY <1>1, <2>0, <2>1, <2>2 DEF MemoriesCycle
  <2>4. PredictFires => new \in Prediction /\ s1_pipe[1].ptr \in Ptr /\ s1_pipe # <<>>
    BY <2>0, PredictionType, PredictorType DEF Prediction
  <2>5. predictions \in [I -> Prediction]
    BY <1>2, <1>3, <2>1, <2>4
  <2>6. Unused \in Prediction /\ \A y \in Prediction : /\ [Unused EXCEPT !.at = y.at] \in Prediction
                                                       /\ [Unused EXCEPT !.at = y.at].at = y.at
    BY DEF Unused, Prediction
  <2>7. mem \in [I -> Prediction]
    BY <2>2, <2>5, <2>6
  <2>8. prediction_mem'[i] = mem[i]
    BY <1>8, <1>10, <2>3, <2>7
  <2>9. mem[i].at = predictions[i].at /\ (q1 <= x => mem[i] = predictions[i])
    <3>1. mem[i] = IF InRange(i, train_ptr', pred_ptr')
                   THEN [Unused EXCEPT !.at = predictions[i].at] ELSE predictions[i]
      BY <1>4, <2>2, <2>5
    <3>2. q1 <= x => ~InRange(i, train_ptr', pred_ptr')
      BY <1>6, <1>8
    <3>3. predictions[i] \in Prediction
      BY <1>4, <2>5
    <3> QED BY <2>6, <3>1, <3>2, <3>3
  <2>10. PredictFires => (i = Idx(s1_pipe[1].ptr) <=> s1_pipe[1].ptr = p)
    <3>1. PredictFires => Pos(s1_pipe[1].ptr) < FtqSize
      BY <2>4, Predicting, PointerOrder
    <3> QED BY <1>9, <2>4, <3>1 DEF i
  <2>11. predictions[i] = IF PredictFires /\ i = Idx(s1_pipe[1].ptr) THEN new ELSE prediction_mem[i]
    BY <1>2, <1>3, <1>4, <2>1, <2>4
  <2>12. new.at = s1_pipe[1].pc /\ new.to = pr.to
    BY <2>0
  <2> QED BY <2>8, <2>9, <2>10, <2>11, <2>12
<1>13. x < q1 => jb_unit_prediction_mem'[i] =
                   IF Delivers(waits) /\ p = pred_ptr THEN e ELSE jb_unit_prediction_mem[i]
  <2>1. PICK mem : mem = IF Delivers(waits)
                         THEN [jb_unit_prediction_mem EXCEPT ![Idx(s1_s2_pipe[1].ptr)] = e]
                         ELSE jb_unit_prediction_mem
    OBVIOUS
  <2>2. jb_unit_prediction_mem' = Keep(mem, Halt, train_ptr', pred_ptr')
    BY <1>1, <2>1 DEF MemoriesCycle
  <2>3. Delivers(waits) => s1_s2_pipe[1].ptr = pred_ptr /\ Pos(pred_ptr) < FtqSize
    BY Delivery, PointerOrder
  <2>4. mem \in [I -> AnyExit \cup {e}]
    BY <1>2, <1>3, <2>1, <2>3, PointerOrder
  <2>5. x < q1 => jb_unit_prediction_mem'[i] = mem[i]
    BY <1>8, <1>10, <2>2, <2>4
  <2>6. Delivers(waits) => (i = Idx(pred_ptr) <=> p = pred_ptr)
    BY <1>9, <2>3, PointerOrder DEF i
  <2>7. mem[i] = IF Delivers(waits) /\ i = Idx(pred_ptr) THEN e ELSE jb_unit_prediction_mem[i]
    BY <1>2, <1>3, <1>4, <2>1, <2>3, PointerOrder
  <2> QED BY <2>5, <2>6, <2>7
<1> QED BY <1>5, <1>6, <1>11, <1>12, <1>13 DEF EntryAfter, i

-----------------------------------------------------------------------------
(***************************************************************************)
(* How a cycle changes the requests in flight.                             *)
(***************************************************************************)
LEMMA Generations ==
    ASSUME Gens \in Nat, NEW g \in 0 .. Gens - 1, NEW h \in 0 .. Gens - 1
    PROVE  /\ Behind(g, g) = 0 /\ Behind(g, h) \in Nat
           /\ Behind(g, h) + 1 < Gens =>
                Behind(g, IF h + 1 = Gens THEN 0 ELSE h + 1) = Behind(g, h) + 1
BY DEF Behind

\* A request is the one that was there before, and one generation older if its
\* entry was requested again, or the new one.
RequestAfter(waits, pr, k) ==
    IF k + Gone(waits) <= Inflight
    THEN /\ k + Gone(waits) \in 1 .. Inflight
         /\ Req(k)'.ptr = Req(k + Gone(waits)).ptr /\ Req(k)'.pc = Req(k + Gone(waits)).pc
         /\ Age(Req(k))' = Age(Req(k + Gone(waits)))
                           + Bit(SendFires(waits) /\ Req(k + Gone(waits)).ptr = fetch_ptr)
    ELSE /\ SendFires(waits) /\ k = Inflight'
         /\ Req(k)'.ptr = fetch_ptr /\ Req(k)'.pc = FetchPc(pr) /\ Age(Req(k))' = 0

LEMMA SendBound ==
    ASSUME FetchInv, NEW waits, SendFires(waits)
    PROVE  Pos(fetch_ptr) < FtqSize /\ Inflight + 1 <= Gens
<1>1. (EarlyFetch \/ Pos(fetch_ptr) < Pos(alloc_ptr)) /\ Inflight < MaxInflight
  BY Fires
<1>2. EarlyFetch => fetch_ptr = alloc_ptr /\ Pos(alloc_ptr) < FtqSize
  BY Fires
<1>3. Inflight + 1 <= Gens
  BY <1>1, NextGeneration, PipeLengths
<1>4. Pos(fetch_ptr) < FtqSize
  BY <1>1, <1>2, PointerOrder
<1> QED BY <1>3, <1>4

LEMMA RequestStep ==
    ASSUME FetchInv, NEW waits, NEW pr, NEW half, NEW e, NEW other, NEW rd, NEW keep,
           Step(waits, pr, half, e, other, rd, keep), NEW k \in 1 .. Inflight'
    PROVE  RequestAfter(waits, pr, k)
<1>1. PICK r, G, n, n1 : r = Req(k)' /\ G = Gone(waits) /\ n = Inflight /\ n1 = Inflight'
  OBVIOUS
<1>2. /\ G \in Nat /\ G <= 1 /\ G <= n /\ n1 = n - G + Bit(SendFires(waits)) /\ n1 \in Nat
      /\ n \in Nat /\ k \in Nat /\ k >= 1 /\ k <= n1
  BY <1>1, RequestsStep, PipeLengths
<1>3. IF k + G <= n THEN SameRequest(r, Req(k + G))
      ELSE SendFires(waits) /\ k = n1 /\ r = NewRequest(pr)
  BY <1>1, RequestsStep DEF RequestsMove
<1>4. Age(Req(k))' = Behind(r.gen, entry_gen'[Idx(r.ptr)])
  BY <1>1 DEF Age
<1>5. entry_gen'[Idx(r.ptr)] = IF SendFires(waits) /\ Idx(r.ptr) = Idx(fetch_ptr) THEN NewGen
                               ELSE entry_gen[Idx(r.ptr)]
  BY <1>1, GenerationsStep DEF GensKept
<1>6. CASE k + G <= n
  <2>1. PICK j, y : j = k + G /\ y = Req(j)
    OBVIOUS
  <2>2. j \in 1 .. n /\ j \in 1 .. Inflight
    BY <1>1, <1>2, <1>6, <2>1
  <2>3. r.ptr = y.ptr /\ r.gen = y.gen /\ r.pc = y.pc
    BY <1>3, <1>6, <2>1 DEF SameRequest
  <2>4. /\ y.ptr \in Ptr /\ y.gen \in 0 .. Gens - 1 /\ Gens \in Nat
        /\ entry_gen[Idx(y.ptr)] \in 0 .. Gens - 1 /\ Age(y) \in Nat
    BY <2>1, <2>2, ReqType
  <2>5. Age(y) <= n - j /\ Pos(y.ptr) < FtqSize
    BY <1>1, <2>1, <2>2, ReqPlace
  <2>6. Age(y) = Behind(y.gen, entry_gen[Idx(y.ptr)])
    BY DEF Age
  <2>7. CASE SendFires(waits) /\ y.ptr = fetch_ptr
    <3>1. n + 1 <= Gens
      BY <1>1, <2>7, SendBound
    <3>2. Age(y) + 1 < Gens
      BY <1>2, <2>2, <2>4, <2>5, <3>1
    <3>3. PICK h \in 0 .. Gens - 1 : h = entry_gen[Idx(fetch_ptr)]
      BY <2>4, <2>7
    <3>4. NewGen = IF h + 1 = Gens THEN 0 ELSE h + 1
      BY <3>3, NextGeneration
    <3>5. Behind(y.gen, NewGen) = Behind(y.gen, h) + 1
      BY <2>4, <2>6, <2>7, <3>2, <3>3, <3>4, Generations
    <3>6. Age(Req(k))' = Age(y) + 1
      BY <1>4, <1>5, <2>3, <2>6, <2>7, <3>3, <3>5
    <3> QED BY <1>1, <1>6, <2>1, <2>2, <2>3, <2>7, <3>6 DEF RequestAfter, Bit
  <2>8. CASE ~(SendFires(waits) /\ y.ptr = fetch_ptr)
    <3>1. ~(SendFires(waits) /\ Idx(y.ptr) = Idx(fetch_ptr))
      BY <2>4, <2>5, <2>8, SendBound, PointerOrder, PositionsUnique DEF Pos
    <3>2. Age(Req(k))' = Age(y) + 0
      BY <1>4, <1>5, <2>3, <2>4, <2>6, <3>1
    <3> QED BY <1>1, <1>6, <2>1, <2>2, <2>3, <2>8, <3>2 DEF RequestAfter, Bit
  <2> QED BY <2>7, <2>8
<1>7. CASE ~(k + G <= n)
  <2>1. SendFires(waits) /\ k = n1 /\ r = NewRequest(pr)
    BY <1>3, <1>7
  <2>2. r.ptr = fetch_ptr /\ r.gen = NewGen /\ r.pc = FetchPc(pr)
    BY <2>1, NewRequestType
  <2>3. Age(Req(k))' = Behind(NewGen, NewGen)
    BY <1>4, <1>5, <2>1, <2>2
  <2>4. Behind(NewGen, NewGen) = 0
    BY NextGeneration, Generations
  <2> QED BY <1>1, <1>7, <2>1, <2>2, <2>3, <2>4 DEF RequestAfter
<1> QED BY <1>6, <1>7

LEMMA PredBound ==
    ASSUME FetchInv, NEW waits, NEW pr, NEW half, NEW e, NEW other, NEW rd, NEW keep,
           Step(waits, pr, half, e, other, rd, keep)
    PROVE  /\ Distance(train_ptr', pred_ptr') <= Pos(pred_ptr) + Bit(Delivers(waits)) - Trained
           /\ Delivers(waits) => Gone(waits) = 1
           /\ Pos(pred_ptr) + Bit(Delivers(waits)) <= Pos(fetch_ptr)
<1>0. Trained \in Nat /\ Bit(Delivers(waits)) \in Nat
  BY TrainStep DEF Bit
<1>1. Distance(train_ptr', pred_ptr') <= Pos(pred_ptr) + Bit(Delivers(waits)) - Trained
  <2>1. CASE rd # <<>>
    <3>1. PICK x : x = Pos(rd[1].ptr)
      OBVIOUS
    <3>2. x \in Nat /\ x < Len(path) /\ Distance(train_ptr', pred_ptr') = x + 1 - Trained
      BY <2>1, <3>1, PointersStep DEF RedirectBackend
    <3> QED BY <1>0, <3>2, PointerOrder
  <2>2. CASE rd = <<>> /\ Turns(waits, e, other)
    <3>1. Distance(train_ptr', pred_ptr') = Pos(pred_ptr) + 1 - Trained /\ Bit(Delivers(waits)) = 1
      BY <2>2, PointersStep, TurnsHere DEF Bit
    <3> QED BY <1>0, <3>1, PointerOrder
  <2>3. CASE rd = <<>> /\ ~Turns(waits, e, other)
    <3>1. Distance(train_ptr', pred_ptr') = Pos(pred_ptr) + Bit(Delivers(waits)) - Trained
      BY <2>3, PointersStep
    <3> QED BY <1>0, <3>1, PointerOrder
  <2> QED BY <2>1, <2>2, <2>3
<1>2. Delivers(waits) => Gone(waits) = 1
  BY DEF Delivers, Gone, Bit
<1>3. Pos(pred_ptr) + Bit(Delivers(waits)) <= Pos(fetch_ptr)
  <2>1. CASE Delivers(waits)
    BY <2>1, Delivery, PointerOrder DEF Bit
  <2>2. CASE ~Delivers(waits)
    BY <2>2, PointerOrder DEF Bit
  <2> QED BY <2>1, <2>2
<1> QED BY <1>1, <1>2, <1>3

\* When stage 2 delivers, every request in flight is live.
LEMMA DeliveryPlaces ==
    ASSUME FetchInv, NEW waits, Delivers(waits), NEW k \in 1 .. Inflight
    PROVE  Pos(Req(k).ptr) = Pos(pred_ptr) + k - 1
<1>1. LiveCount = Inflight /\ Intact /\ Inflight \in Nat
  BY Delivery, PipeLengths
<1>2. k > Inflight - LiveCount
  BY <1>1
<1>3. Pos(Req(k).ptr) = Pos(fetch_ptr) - (Inflight - k) - 1
  BY <1>1, <1>2, StaleMeans
<1> QED BY <1>1, <1>3, PointerOrder DEF LiveCount

LEMMA PlacedStep ==
    ASSUME FetchInv, NEW waits, NEW pr, NEW half, NEW e, NEW other, NEW rd, NEW keep,
           Step(waits, pr, half, e, other, rd, keep)
    PROVE  RequestsPlaced'
<1>1. PICK q, f, T, D, G, n, n1, q1, W :
           /\ q = Pos(pred_ptr) /\ f = Pos(fetch_ptr) /\ T = Trained /\ D = Bit(Delivers(waits))
           /\ G = Gone(waits) /\ n = Inflight /\ n1 = Inflight' /\ q1 = Distance(train_ptr', pred_ptr')
           /\ W = Bit(SendFires(waits))
  OBVIOUS
<1>2. /\ q \in Nat /\ f \in Nat /\ T \in Nat /\ D \in {0, 1} /\ G \in Nat /\ G <= 1 /\ G <= n
      /\ n \in Nat /\ n1 = n - G + W /\ n1 \in Nat /\ W \in {0, 1} /\ FtqSize \in Nat
      /\ T <= q /\ q <= f /\ q1 \in Nat
  <2>1. q \in Nat /\ f \in Nat /\ q <= f /\ FtqSize \in Nat /\ T <= q /\ T \in Nat
    BY <1>1, PointerOrder, TrainStep
  <2>2. G \in Nat /\ G <= 1 /\ G <= n /\ n \in Nat /\ n1 = n - G + W /\ n1 \in Nat
    BY <1>1, RequestsStep, PipeLengths
  <2>3. D \in {0, 1} /\ W \in {0, 1}
    BY <1>1 DEF Bit
  <2> QED BY <1>1, <2>1, <2>2, <2>3, AllocBound
<1>3. q1 <= q + D - T /\ (D = 1 => G = 1) /\ q + D <= f
  BY <1>1, PredBound DEF Bit
<1>4. ASSUME NEW p \in Ptr, T <= Pos(p) PROVE Distance(train_ptr', p) = Pos(p) - T
  BY <1>1, <1>4, TrainStep
<1>5. ASSUME NEW k \in 1 .. n1
      PROVE  /\ q1 <= Distance(train_ptr', Req(k)'.ptr) /\ Distance(train_ptr', Req(k)'.ptr) < FtqSize
             /\ Age(Req(k))' <= n1 - k
  <2>1. RequestAfter(waits, pr, k)
    BY <1>1, <1>5, RequestStep
  <2>2. CASE k + G <= n
    <3>1. PICK j, y : j = k + G /\ y = Req(j)
      OBVIOUS
    <3>2. PICK b : b = Bit(SendFires(waits) /\ y.ptr = fetch_ptr)
      OBVIOUS
    <3>3. j \in 1 .. Inflight /\ Req(k)'.ptr = y.ptr /\ Age(Req(k))' = Age(y) + b
      BY <1>1, <2>1, <2>2, <3>1, <3>2 DEF RequestAfter
    <3>4. b \in {0, 1} /\ b <= W
      BY <1>1, <3>2 DEF Bit
    <3>5. y.ptr \in Ptr /\ Pos(y.ptr) \in Nat /\ Age(y) \in Nat
      BY <3>1, <3>3, ReqType
    <3>6. q <= Pos(y.ptr) /\ Pos(y.ptr) < FtqSize /\ Age(y) <= n - j
      BY <1>1, <3>1, <3>3, ReqPlace
    <3>7. D = 1 => Pos(y.ptr) = q + j - 1
      BY <1>1, <3>1, <3>3, DeliveryPlaces DEF Bit
    <3>8. Distance(train_ptr', y.ptr) = Pos(y.ptr) - T
      BY <1>2, <1>4, <3>5, <3>6
    <3>9. q + D <= Pos(y.ptr)
      BY <1>2, <1>3, <1>5, <3>1, <3>5, <3>6, <3>7
    <3>10. q1 <= Pos(y.ptr) - T /\ Pos(y.ptr) - T < FtqSize
      BY <1>2, <1>3, <3>5, <3>6, <3>9
    <3>11. Age(y) + b <= n1 - k
      BY <1>2, <1>5, <3>1, <3>4, <3>5, <3>6
    <3> QED BY <3>3, <3>8, <3>10, <3>11
  <2>3. CASE ~(k + G <= n)
    <3>1. SendFires(waits) /\ k = n1 /\ Req(k)'.ptr = fetch_ptr /\ Age(Req(k))' = 0
      BY <1>1, <2>1, <2>3 DEF RequestAfter
    <3>2. f < FtqSize /\ fetch_ptr \in Ptr
      BY <1>1, <3>1, SendBound, PointerOrder
    <3>3. Distance(train_ptr', fetch_ptr) = f - T
      BY <1>1, <1>2, <1>4, <3>2
    <3>4. q1 <= f - T /\ f - T < FtqSize /\ 0 <= n1 - k
      BY <1>2, <1>3, <3>1, <3>2
    <3> QED BY <3>1, <3>3, <3>4
  <2> QED BY <2>2, <2>3
<1>6. RequestsPlaced' <=> \A k \in 1 .. n1 :
             /\ q1 <= Distance(train_ptr', Req(k)'.ptr) /\ Distance(train_ptr', Req(k)'.ptr) < FtqSize
             /\ Age(Req(k))' <= n1 - k
  BY <1>1 DEF RequestsPlaced, Pos
<1> QED BY <1>5, <1>6

\* A position after the step, as one before it.
LEMMA PositionBefore ==
    ASSUME FetchInv, NEW waits, NEW pr, NEW half, NEW e, NEW other, NEW rd, NEW keep,
           Step(waits, pr, half, e, other, rd, keep), NEW p \in Ptr, Distance(train_ptr', p) < FtqSize
    PROVE  /\ Trained \in Nat /\ Pos(p) \in Nat /\ Trained <= Pos(p)
           /\ Distance(train_ptr', p) = Pos(p) - Trained
<1>1. Trained \in Nat /\ Trained <= 1 /\ Pos(p) \in Nat /\ train_ptr \in Ptr
  BY TrainStep, PointerOrder, Positions DEF Pos
<1>2. Trained <= Pos(p)
  <2>1. CASE TrainFires /\ p = train_ptr
    <3>1. train_ptr' = Succ(train_ptr)
      BY <2>1 DEF Step, FetchCycle, PointersCycle
    <3>2. Distance(Succ(train_ptr), train_ptr) = 2 * FtqSize - 1
      <4>1. Succ(train_ptr) \in Ptr
        BY <1>1, Positions
      <4> QED BY <1>1, <4>1, Pointers
    <3>3. Distance(train_ptr', p) = 2 * FtqSize - 1
      BY <2>1, <3>1, <3>2
    <3> QED BY <3>3, SizesAssumption
  <2>2. CASE ~TrainFires
    BY <1>1, <2>2 DEF Trained, Bit
  <2>3. CASE p # train_ptr
    <3>1. Pos(p) # 0
      BY <1>1, <2>3, Positions, PositionsUnique DEF Pos
    <3> QED BY <1>1, <3>1
  <2> QED BY <2>1, <2>2, <2>3
<1>3. Distance(train_ptr', p) = Pos(p) - Trained
  BY <1>2, TrainStep
<1> QED BY <1>1, <1>2, <1>3

\* Fetch neither redirected by the backend nor resteered by stage 2
MovesOn(waits, e, other, rd) == rd = <<>> /\ ~Turns(waits, e, other)

\* After a redirect or a resteer nothing is allocated, requested or predicted.
LEMMA SteeredStep ==
    ASSUME FetchInv, NEW waits, NEW pr, NEW half, NEW e, NEW other, NEW rd, NEW keep,
           Step(waits, pr, half, e, other, rd, keep), ~MovesOn(waits, e, other, rd)
    PROVE  /\ s1_pipe' = <<>> /\ fetch_ptr' = alloc_ptr' /\ pred_ptr' = alloc_ptr'
           /\ LiveCount' = 0
<1>1. fetch_ptr' = alloc_ptr' /\ pred_ptr' = alloc_ptr'
  BY PointersStep DEF MovesOn
<1>2. s1_pipe' = <<>>
  BY DEF Step, FetchCycle, PredictorCycle, MovesOn, Turns
<1>3. LiveCount' = Distance(train_ptr', fetch_ptr') - Distance(train_ptr', pred_ptr')
  BY DEF LiveCount, Pos
<1>4. LiveCount' = 0
  BY <1>1, <1>3, AllocBound
<1> QED BY <1>1, <1>2, <1>4

LEMMA PredictorStep ==
    ASSUME FetchInv, NEW waits, NEW pr, NEW half, NEW e, NEW other, NEW rd, NEW keep,
           Step(waits, pr, half, e, other, rd, keep), MovesOn(waits, e, other, rd)
    PROVE  /\ s1_pipe' = IF AllocFires THEN <<[ptr |-> alloc_ptr, pc |-> AllocPc(pr)]>> ELSE <<>>
           /\ req_valid' = AllocFires
           /\ next_fetch_addr' = IF AllocFires THEN <<>>
                                 ELSE IF PredictFires THEN <<pr.to>> ELSE next_fetch_addr
           /\ PredictFires <=> s1_pipe # <<>>
<1>0. rd = <<>> /\ ~(Delivers(waits) /\ Resteers(e, other))
  BY DEF MovesOn, Turns
<1>1. PredictFires <=> s1_pipe # <<>>
  BY Predicting DEF PredictFires
<1>2. s1_pipe' = PipeNext(s1_pipe, AllocFires, [ptr |-> alloc_ptr, pc |-> AllocPc(pr)], PredictFires)
  BY <1>0 DEF Step, FetchCycle, PredictorCycle
<1>3. s1_pipe' = IF AllocFires THEN <<[ptr |-> alloc_ptr, pc |-> AllocPc(pr)]>> ELSE <<>>
  BY <1>1, <1>2 DEF PipeNext
<1>4. req_valid' = AllocFires
  <2>1. req_valid' = (AllocFires /\ rd = <<>> /\ ~(Delivers(waits) /\ Resteers(e, other)))
    BY DEF Step, FetchCycle, PredictorCycle
  <2>2. AllocFires \in BOOLEAN
    BY DEF AllocFires
  <2> QED BY <1>0, <2>1, <2>2
<1>5. next_fetch_addr' = IF AllocFires THEN <<>>
                         ELSE IF PredictFires THEN <<pr.to>> ELSE next_fetch_addr
  BY <1>0 DEF Step, FetchCycle, AddressCycle
<1> QED BY <1>1, <1>3, <1>4, <1>5

\* The blocks in the queue stay what they are, and a new one is added.
LEMMA EntryStep ==
    ASSUME FetchInv, NEW waits, NEW pr, NEW half, NEW e, NEW other, NEW rd, NEW keep,
           Step(waits, pr, half, e, other, rd, keep), MovesOn(waits, e, other, rd), NEW p \in Ptr
    PROVE  /\ Trained <= Pos(p) /\ Pos(p) < Pos(alloc_ptr) => EntryPc(p)' = EntryPc(p)
           /\ p = alloc_ptr /\ AllocFires => EntryPc(p)' = AllocPc(pr)
<1>1. /\ s1_pipe' = IF AllocFires THEN <<[ptr |-> alloc_ptr, pc |-> AllocPc(pr)]>> ELSE <<>>
      /\ PredictFires <=> s1_pipe # <<>>
  BY PredictorStep
<1>2. EntryPc(p)' = IF s1_pipe' # <<>> /\ s1_pipe'[1].ptr = p THEN s1_pipe'[1].pc
                    ELSE prediction_mem'[Idx(p)].at
  BY DEF EntryPc
<1>3. p = alloc_ptr /\ AllocFires => EntryPc(p)' = AllocPc(pr)
  BY <1>1, <1>2
<1>4. ASSUME Trained <= Pos(p), Pos(p) < Pos(alloc_ptr) PROVE EntryPc(p)' = EntryPc(p)
  <2>1. p # alloc_ptr
    BY <1>4, PointerOrder
  <2>2. EntryPc(p)' = prediction_mem'[Idx(p)].at
    BY <1>1, <1>2, <2>1
  <2>3. Distance(train_ptr', alloc_ptr') = Pos(alloc_ptr) + Bit(AllocFires) - Trained
    BY PointersStep DEF MovesOn
  <2>4. Pos(p) \in Nat /\ Trained \in Nat /\ Bit(AllocFires) \in Nat
    BY PointerOrder, Positions, TrainStep DEF Pos, Bit
  <2>5. Pos(p) - Trained < Distance(train_ptr', alloc_ptr')
    BY <1>4, <2>3, <2>4, PointerOrder
  <2>6. EntryAfter(waits, pr, e, p)
    BY <1>4, <2>5, EntriesStep
  <2>7. prediction_mem'[Idx(p)].at =
          IF PredictFires /\ s1_pipe[1].ptr = p THEN s1_pipe[1].pc ELSE prediction_mem[Idx(p)].at
    BY <2>6 DEF EntryAfter
  <2> QED BY <1>1, <2>2, <2>7 DEF EntryPc
<1> QED BY <1>3, <1>4

\* Stage 2 does not discard a live block.
LEMMA LiveKept ==
    ASSUME FetchInv, Intact, NEW waits
    PROVE  /\ LiveCount - Bit(Delivers(waits)) <= Inflight - Gone(waits)
           /\ stalled_exception => LiveCount <= Len(ftq_ptr_pipe)
<1>1. stalled_exception => LiveCount <= Len(ftq_ptr_pipe)
  <2>1. CASE stalled_exception /\ exception_valid
    <3>1. pred_ptr = alloc_ptr
      BY <2>1 DEF FetchInv, Stalls, Intact
    <3>2. LiveCount = 0
      BY <3>1, PointerOrder DEF LiveCount
    <3> QED BY <3>2, PipeLengths
  <2>2. CASE stalled_exception /\ ~exception_valid
    BY <2>2 DEF FetchInv, Stalls
  <2> QED BY <2>1, <2>2
<1>2. LiveCount <= Inflight
  BY DEF FetchInv, RequestsLive
<1>3. CASE ~Stage2Fires(waits)
  <2>1. Gone(waits) = 0 /\ Bit(Delivers(waits)) = 0
    BY <1>3 DEF Gone, Delivers, Bit
  <2> QED BY <1>1, <1>2, <2>1, PipeLengths
<1>4. CASE Delivers(waits)
  <2>1. Gone(waits) = 1 /\ Bit(Delivers(waits)) = 1
    BY <1>4 DEF Gone, Delivers, Bit
  <2> QED BY <1>1, <1>2, <2>1, PipeLengths
<1>5. CASE Stage2Fires(waits) /\ ~Delivers(waits)
  <2>1. Gone(waits) = 1 /\ Bit(Delivers(waits)) = 0 /\ s1_s2_pipe # <<>> /\ Stale(s1_s2_pipe[1])
    BY <1>5 DEF Gone, Delivers, Bit, Stage2Fires
  <2>2. Len(s1_s2_pipe) = 1 /\ Len(fetch_requests) \in Nat /\ Len(ftq_ptr_pipe) \in Nat
    BY <2>1, HeadType, PipeLengths
  <2>3. Inflight >= 1 + Len(ftq_ptr_pipe) /\ Inflight \in Nat
    BY <2>2 DEF Inflight
  <2>4. Req(1) = s1_s2_pipe[1] /\ 1 \in 1 .. Inflight
    BY <2>2, <2>3 DEF Req
  <2>5. stalled_exception \/ 1 <= Inflight - LiveCount
    BY <2>1, <2>4, StaleMeans
  <2> QED BY <1>1, <2>1, <2>2, <2>3, <2>5, PipeLengths
<1> QED BY <1>1, <1>3, <1>4, <1>5

-----------------------------------------------------------------------------
(***************************************************************************)
(* Each part of the invariant is preserved.                                *)
(***************************************************************************)
LEMMA LiveStep ==
    ASSUME FetchInv, NEW waits, NEW pr, NEW half, NEW e, NEW other, NEW rd, NEW keep,
           Step(waits, pr, half, e, other, rd, keep)
    PROVE  RequestsLive'
<1>0. SUFFICES ASSUME Intact' PROVE RequestsLive'
  BY DEF RequestsLive
<1>1. PICK q, f, T, D, G, W, n, m, n1, m1, q1, f1 :
           /\ q = Pos(pred_ptr) /\ f = Pos(fetch_ptr) /\ T = Trained /\ D = Bit(Delivers(waits))
           /\ G = Gone(waits) /\ W = Bit(SendFires(waits)) /\ n = Inflight /\ m = LiveCount
           /\ n1 = Inflight' /\ m1 = LiveCount'
           /\ q1 = Distance(train_ptr', pred_ptr') /\ f1 = Distance(train_ptr', fetch_ptr')
  OBVIOUS
<1>2. RequestsLive' <=>
        (Intact' => /\ m1 <= n1
                    /\ \A k \in 1 .. n1 :
                         IF k <= n1 - m1
                         THEN f1 <= Distance(train_ptr', Req(k)'.ptr) \/ Age(Req(k))' > 0
                         ELSE /\ Distance(train_ptr', Req(k)'.ptr) = f1 - (n1 - k) - 1
                              /\ Age(Req(k))' = 0
                              /\ Req(k)'.pc = EntryPc(Req(k).ptr)')
  BY <1>1 DEF RequestsLive, Pos
<1>3. /\ q \in Nat /\ f \in Nat /\ T \in Nat /\ D \in {0, 1} /\ G \in Nat /\ G <= 1 /\ G <= n
      /\ n \in Nat /\ n1 = n - G + W /\ n1 \in Nat /\ W \in {0, 1} /\ T <= q /\ q <= f
      /\ q1 \in Nat /\ f1 \in Nat /\ m = f - q /\ m1 = f1 - q1 /\ m \in Nat
  <2>1. q \in Nat /\ f \in Nat /\ q <= f /\ T <= q /\ T \in Nat
    BY <1>1, PointerOrder, TrainStep
  <2>2. G \in Nat /\ G <= 1 /\ G <= n /\ n \in Nat /\ n1 = n - G + W /\ n1 \in Nat
    BY <1>1, RequestsStep, PipeLengths
  <2>3. D \in {0, 1} /\ W \in {0, 1}
    BY <1>1 DEF Bit
  <2>4. m = f - q /\ m1 = f1 - q1
    BY <1>1 DEF LiveCount, Pos
  <2> QED BY <1>1, <2>1, <2>2, <2>3, <2>4, AllocBound, PipeLengths
<1>4. CASE ~MovesOn(waits, e, other, rd)
  <2>1. m1 = 0 /\ f1 = q1
    BY <1>1, <1>4, SteeredStep
  <2>2. ASSUME NEW k \in 1 .. n1
        PROVE  k <= n1 - m1 /\ f1 <= Distance(train_ptr', Req(k)'.ptr)
    <3>1. q1 <= Distance(train_ptr', Req(k)'.ptr)
      BY <1>1, PlacedStep DEF RequestsPlaced, Pos
    <3> QED BY <1>3, <2>1, <3>1
  <2> QED BY <1>2, <1>3, <2>1, <2>2
<1>5. CASE MovesOn(waits, e, other, rd)
  <2>1. f1 = f + W - T /\ q1 = q + D - T
    BY <1>1, <1>5, PointersStep DEF MovesOn
  <2>2. Intact /\ m - D <= n - G /\ (D = 1 => G = 1 /\ m = n /\ n >= 1)
    <3>1. Intact
      BY <1>0, <1>5, IntactStep DEF MovesOn
    <3>2. D = 1 => Delivers(waits)
      BY <1>1 DEF Bit
    <3> QED BY <1>1, <3>1, <3>2, LiveKept, PredBound, Delivery
  <2>3. m1 = m + W - D /\ n1 - m1 = n - m - G + D /\ m1 <= n1
    BY <1>3, <2>1, <2>2
  <2>4. ASSUME NEW p \in Ptr, T <= Pos(p) PROVE Distance(train_ptr', p) = Pos(p) - T
    BY <1>1, <2>4, TrainStep
  <2>5. ASSUME NEW k \in 1 .. n1
        PROVE  IF k <= n1 - m1
               THEN f1 <= Distance(train_ptr', Req(k)'.ptr) \/ Age(Req(k))' > 0
               ELSE /\ Distance(train_ptr', Req(k)'.ptr) = f1 - (n1 - k) - 1
                    /\ Age(Req(k))' = 0
                    /\ Req(k)'.pc = EntryPc(Req(k).ptr)'
    <3>1. RequestAfter(waits, pr, k)
      BY <1>1, RequestStep
    <3>2. CASE k + G <= n
      <4>1. PICK j, y, b : j = k + G /\ y = Req(j) /\ b = Bit(SendFires(waits) /\ y.ptr = fetch_ptr)
        OBVIOUS
      <4>2. /\ j \in 1 .. Inflight /\ Req(k)'.ptr = y.ptr /\ Req(k)'.pc = y.pc
            /\ Age(Req(k))' = Age(y) + b
        BY <1>1, <3>1, <3>2, <4>1 DEF RequestAfter
      <4>3. y.ptr \in Ptr /\ Pos(y.ptr) \in Nat /\ Age(y) \in Nat
        BY <4>1, <4>2, ReqType
      <4>4. q <= Pos(y.ptr)
        BY <1>1, <4>1, <4>2, ReqPlace
      <4>5. Distance(train_ptr', Req(k)'.ptr) = Pos(y.ptr) - T
        <5>1. Distance(train_ptr', y.ptr) = Pos(y.ptr) - T
          BY <1>3, <2>4, <4>3, <4>4
        <5> QED BY <4>2, <5>1
      <4>6. j \in Nat /\ j >= 1 /\ j <= n /\ b \in {0, 1}
        BY <1>1, <1>3, <4>1, <4>2 DEF Bit
      <4>7. CASE k <= n1 - m1
        <5>1. D = 0 /\ j <= n - m
          BY <1>3, <2>2, <2>3, <2>5, <4>1, <4>6, <4>7
        <5>2. f <= Pos(y.ptr) \/ Age(y) > 0
          BY <1>1, <2>2, <4>1, <4>2, <5>1 DEF FetchInv, RequestsLive
        <5>3. CASE Age(y) > 0
          BY <4>2, <4>3, <4>6, <4>7, <5>3
        <5>4. CASE f <= Pos(y.ptr) /\ W = 1 /\ Pos(y.ptr) = f
          <6>1. y.ptr = fetch_ptr
            BY <1>1, <4>3, <5>4, PointerOrder, PositionsUnique DEF Pos
          <6>2. b = 1
            BY <1>1, <4>1, <5>4, <6>1 DEF Bit
          <6> QED BY <4>2, <4>3, <4>7, <6>2
        <5>5. CASE f <= Pos(y.ptr) /\ ~(W = 1 /\ Pos(y.ptr) = f)
          <6>1. f1 <= Pos(y.ptr) - T
            BY <1>3, <2>1, <4>3, <5>5
          <6> QED BY <4>5, <4>7, <6>1
        <5> QED BY <5>2, <5>3, <5>4, <5>5
      <4>8. CASE ~(k <= n1 - m1)
        <5>1. j > n - m
          BY <1>3, <2>2, <2>3, <2>5, <4>1, <4>6, <4>8
        <5>2. Pos(y.ptr) = f - (n - j) - 1 /\ Age(y) = 0 /\ y.pc = EntryPc(y.ptr)
          BY <1>1, <2>2, <4>1, <4>2, <5>1, StaleMeans
        <5>3. Pos(y.ptr) < f
          BY <1>3, <4>3, <4>6, <5>2
        <5>4. y.ptr # fetch_ptr
          BY <1>1, <1>3, <5>3
        <5>5. b = 0
          BY <4>1, <5>4 DEF Bit
        <5>6. Age(Req(k))' = 0
          BY <4>2, <5>2, <5>5
        <5>7. Pos(y.ptr) - T = f1 - (n1 - k) - 1
          BY <1>3, <2>1, <2>5, <4>1, <4>6, <5>2
        <5>8. EntryPc(Req(k).ptr)' = EntryPc(y.ptr)
          <6>1. PICK p \in Ptr : p = y.ptr
            BY <4>3
          <6>2. Trained <= Pos(p) /\ Pos(p) < Pos(alloc_ptr)
            <7>1. f <= Pos(alloc_ptr) /\ Pos(alloc_ptr) \in Nat
              BY <1>1, PointerOrder
            <7>2. PICK x \in Nat : x = Pos(p) /\ x < f /\ q <= x
              BY <4>3, <4>4, <5>3, <6>1
            <7>3. T <= x /\ x < Pos(alloc_ptr)
              BY <1>3, <7>1, <7>2
            <7> QED BY <1>1, <7>2, <7>3
          <6>3. EntryPc(p)' = EntryPc(p)
            BY <1>5, <6>2, EntryStep
          <6>4. EntryPc(p)' = EntryPc(Req(k).ptr)'
            BY <4>2, <6>1 DEF EntryPc
          <6> QED BY <6>1, <6>3, <6>4
        <5> QED BY <4>2, <4>5, <4>8, <5>2, <5>6, <5>7, <5>8
      <4> QED BY <4>7, <4>8
    <3>3. CASE ~(k + G <= n)
      <4>1. /\ SendFires(waits) /\ k = n1 /\ Req(k)'.ptr = fetch_ptr /\ Req(k)'.pc = FetchPc(pr)
            /\ Age(Req(k))' = 0
        BY <1>1, <3>1, <3>3 DEF RequestAfter
      <4>2. W = 1
        BY <1>1, <4>1 DEF Bit
      <4>3. ~(k <= n1 - m1)
        BY <1>3, <2>2, <2>3, <4>1, <4>2
      <4>4. Distance(train_ptr', Req(k)'.ptr) = f - T /\ f - T = f1 - (n1 - k) - 1
        <5>1. Distance(train_ptr', fetch_ptr) = f - T
          <6>1. T <= Pos(fetch_ptr) /\ fetch_ptr \in Ptr
            BY <1>1, <1>3, PointerOrder
          <6> QED BY <1>1, <2>4, <6>1
        <5>2. f - T = f1 - (n1 - k) - 1
          BY <1>3, <2>1, <4>1, <4>2
        <5> QED BY <4>1, <5>1, <5>2
      <4>5. FetchPc(pr) = EntryPc(Req(k).ptr)'
        <5>1. PICK p \in Ptr : p = fetch_ptr
          BY PointerOrder
        <5>2. EntryPc(p)' = EntryPc(Req(k).ptr)'
          BY <4>1, <5>1 DEF EntryPc
        <5>3. CASE EarlyFetch
          <6>1. p = alloc_ptr /\ AllocFires /\ FetchPc(pr) = AllocPc(pr)
            BY <5>1, <5>3, Fires DEF FetchPc
          <6> QED BY <1>5, <5>2, <6>1, EntryStep
        <5>4. CASE ~EarlyFetch
          <6>1. FetchPc(pr) = pc_mem[Idx(p)] /\ Pos(p) < Pos(alloc_ptr) /\ Trained <= Pos(p)
            <7>1. Pos(fetch_ptr) < Pos(alloc_ptr)
              BY <4>1, <5>4, Fires
            <7>2. Trained <= f
              BY <1>1, <1>3
            <7> QED BY <1>1, <5>1, <5>4, <7>1, <7>2 DEF FetchPc
          <6>2. pc_mem[Idx(p)] = EntryPc(p)
            <7>1. Pos(fetch_ptr) <= Pos(p)
              BY <5>1, PointerOrder
            <7> QED BY <6>1, <7>1 DEF FetchInv, Linked
          <6>3. EntryPc(p)' = EntryPc(p)
            BY <1>5, <6>1, EntryStep
          <6> QED BY <5>2, <6>1, <6>2, <6>3
        <5> QED BY <5>3, <5>4
      <4> QED BY <4>1, <4>3, <4>4, <4>5
    <3> QED BY <3>2, <3>3
  <2> QED BY <1>2, <2>3, <2>5
<1> QED BY <1>4, <1>5

\* The pointer before alloc_ptr.
LEMMA Youngest ==
    ASSUME FetchInv, NEW p \in Ptr, Pos(p) + 1 = Pos(alloc_ptr)
    PROVE  /\ Succ(p) = alloc_ptr
           /\ s1_pipe # <<>> => s1_pipe[1].ptr = p
<1>1. Pos(p) \in Nat /\ Succ(p) \in Ptr /\ Pos(p) + 1 < 2 * FtqSize
  <2>1. Pos(p) \in Nat /\ Succ(p) \in Ptr
    BY PointerOrder, Positions DEF Pos
  <2> QED BY <2>1, PointerOrder
<1>2. Pos(Succ(p)) = Pos(alloc_ptr)
  BY <1>1, PointerOrder, Positions DEF Pos
<1>3. Succ(p) = alloc_ptr
  BY <1>1, <1>2, PointerOrder, PositionsUnique DEF Pos
<1>4. s1_pipe # <<>> => s1_pipe[1].ptr = p
  BY <1>3, Predicting, PositionsUnique, PointerOrder
<1> QED BY <1>3, <1>4

\* What is allocated is where the youngest entry leads.
LEMMA AllocatesNext ==
    ASSUME FetchInv, NEW waits, NEW pr, NEW half, NEW e, NEW other, NEW rd, NEW keep,
           Step(waits, pr, half, e, other, rd, keep), NEW p \in Ptr, Pos(p) + 1 = Pos(alloc_ptr),
           pred_ptr # alloc_ptr
    PROVE  /\ s1_pipe = <<>> =>
                /\ next_fetch_addr = <<prediction_mem[Idx(p)].to>>
                /\ AllocFires => AllocPc(pr) = prediction_mem[Idx(p)].to
           /\ s1_pipe # <<>> => s1_pipe[1].ptr = p /\ PredictFires /\ AllocPc(pr) = pr.to
<1>1. Succ(p) = alloc_ptr /\ (s1_pipe # <<>> => s1_pipe[1].ptr = p)
  BY Youngest
<1>2. s1_pipe = <<>> => next_fetch_addr = <<prediction_mem[Idx(p)].to>>
  BY <1>1 DEF FetchInv, Continues
<1>3. s1_pipe = <<>> => AllocPc(pr) = prediction_mem[Idx(p)].to
  BY <1>2 DEF AllocPc
<1>4. s1_pipe # <<>> => PredictFires /\ AllocPc(pr) = pr.to
  BY Predicting DEF AllocPc
<1> QED BY <1>1, <1>2, <1>3, <1>4

LEMMA LinkedStep ==
    ASSUME FetchInv, NEW waits, NEW pr, NEW half, NEW e, NEW other, NEW rd, NEW keep,
           Step(waits, pr, half, e, other, rd, keep)
    PROVE  Linked'
<1>1. PICK q, f, a, T, D, A, W, q1, f1, a1 :
           /\ q = Pos(pred_ptr) /\ f = Pos(fetch_ptr) /\ a = Pos(alloc_ptr) /\ T = Trained
           /\ D = Bit(Delivers(waits)) /\ A = Bit(AllocFires) /\ W = Bit(SendFires(waits))
           /\ q1 = Distance(train_ptr', pred_ptr') /\ f1 = Distance(train_ptr', fetch_ptr')
           /\ a1 = Distance(train_ptr', alloc_ptr')
  OBVIOUS
<1>2. Linked' <=>
        \A p \in Ptr :
          /\ (q1 <= Distance(train_ptr', p) /\ Distance(train_ptr', p) + 1 < a1) =>
                EntryPc(Succ(p))' = prediction_mem'[Idx(p)].to
          /\ (f1 <= Distance(train_ptr', p) /\ Distance(train_ptr', p) < a1) =>
                pc_mem'[Idx(p)] = EntryPc(p)' /\ pc_mem'[Idx(p)] \in Block
  BY <1>1 DEF Linked, Pos
<1>3. /\ q \in Nat /\ f \in Nat /\ a \in Nat /\ T \in Nat /\ D \in {0, 1} /\ A \in {0, 1} /\ W \in {0, 1}
      /\ q1 \in Nat /\ f1 \in Nat /\ a1 \in Nat /\ q <= f /\ f <= a /\ a1 <= FtqSize /\ FtqSize \in Nat
      /\ T <= q
  <2>1. /\ q \in Nat /\ f \in Nat /\ a \in Nat /\ T \in Nat /\ q <= f /\ f <= a /\ FtqSize \in Nat /\ T <= q
    BY <1>1, PointerOrder, TrainStep
  <2>2. D \in {0, 1} /\ A \in {0, 1} /\ W \in {0, 1}
    BY <1>1 DEF Bit
  <2>3. q1 \in Nat /\ f1 \in Nat /\ a1 \in Nat /\ a1 + T <= FtqSize
    BY <1>1, AllocBound
  <2> QED BY <2>1, <2>2, <2>3
<1>4. ASSUME NEW p \in Ptr
      PROVE  Distance(train_ptr', p) \in Nat
  BY TrainStep, Positions
<1>5. CASE ~MovesOn(waits, e, other, rd)
  <2>1. q1 = a1 /\ f1 = a1
    BY <1>1, <1>5, SteeredStep
  <2>2. ASSUME NEW p \in Ptr
        PROVE  /\ ~(q1 <= Distance(train_ptr', p) /\ Distance(train_ptr', p) + 1 < a1)
               /\ ~(f1 <= Distance(train_ptr', p) /\ Distance(train_ptr', p) < a1)
    BY <1>3, <1>4, <2>1
  <2> QED BY <1>2, <2>2
<1>6. CASE MovesOn(waits, e, other, rd)
  <2>1. q1 = q + D - T /\ f1 = f + W - T /\ a1 = a + A - T
    BY <1>1, <1>6, PointersStep DEF MovesOn
  <2>2. ASSUME NEW p \in Ptr, Distance(train_ptr', p) < a1
        PROVE  /\ Pos(p) \in Nat /\ T <= Pos(p) /\ Distance(train_ptr', p) = Pos(p) - T
               /\ EntryAfter(waits, pr, e, p)
    <3>1. Distance(train_ptr', p) < FtqSize
      BY <1>3, <1>4, <2>2
    <3>2. Pos(p) \in Nat /\ Trained <= Pos(p) /\ Distance(train_ptr', p) = Pos(p) - Trained
      BY <3>1, PositionBefore
    <3>3. EntryAfter(waits, pr, e, p)
      BY <1>1, <2>2, <3>2, EntriesStep
    <3> QED BY <1>1, <3>2, <3>3
  <2>3. ASSUME NEW p \in Ptr, q1 <= Distance(train_ptr', p), Distance(train_ptr', p) + 1 < a1
        PROVE  EntryPc(Succ(p))' = prediction_mem'[Idx(p)].to
    <3>0. Distance(train_ptr', p) < a1
      BY <1>3, <1>4, <2>3
    <3>1. PICK x \in Nat : x = Pos(p) /\ T <= x /\ Distance(train_ptr', p) = x - T
      BY <2>2, <3>0
    <3>2. q <= x /\ x + 1 < a + A /\ q1 <= x - T
      BY <1>3, <2>1, <2>3, <3>1
    <3>3. prediction_mem'[Idx(p)].to =
            IF PredictFires /\ s1_pipe[1].ptr = p THEN pr.to ELSE prediction_mem[Idx(p)].to
      BY <1>1, <2>2, <3>0, <3>1, <3>2 DEF EntryAfter
    <3>4. Succ(p) \in Ptr
      BY PointerOrder, Positions
    <3>5. CASE x + 1 < a
      <4>1. EntryPc(Succ(p)) = prediction_mem[Idx(p)].to
        BY <1>1, <3>1, <3>2, <3>5 DEF FetchInv, Linked
      <4>2. PICK s \in Ptr : s = Succ(p)
        BY <3>4
      <4>3. Pos(s) = x + 1
        <5>1. x + 1 < 2 * FtqSize
          BY <1>1, <3>5, PointerOrder
        <5> QED BY <3>1, <4>2, <5>1, PointerOrder, Positions DEF Pos
      <4>4. Trained <= Pos(s) /\ Pos(s) < Pos(alloc_ptr)
        BY <1>1, <1>3, <3>1, <3>5, <4>3
      <4>5. EntryPc(s)' = EntryPc(s)
        BY <1>6, <4>4, EntryStep
      <4>6. EntryPc(s)' = EntryPc(Succ(p))'
        BY <4>2
      <4>7. ~(PredictFires /\ s1_pipe[1].ptr = p)
        <5>1. PredictFires => s1_pipe # <<>>
          BY DEF PredictFires
        <5>2. s1_pipe # <<>> => Pos(s1_pipe[1].ptr) + 1 = a
          BY <1>1, Predicting
        <5> QED BY <1>3, <3>1, <3>5, <5>1, <5>2
      <4> QED BY <3>3, <4>1, <4>2, <4>5, <4>6, <4>7
    <3>6. CASE ~(x + 1 < a)
      <4>1. x + 1 = a /\ A = 1
        BY <1>3, <3>2, <3>6
      <4>2. AllocFires /\ Pos(p) + 1 = Pos(alloc_ptr)
        BY <1>1, <3>1, <4>1 DEF Bit
      <4>3. Succ(p) = alloc_ptr
        BY <4>2, Youngest
      <4>4. PICK s \in Ptr : s = alloc_ptr
        BY PointerOrder
      <4>5. EntryPc(s)' = AllocPc(pr)
        BY <1>6, <4>2, <4>4, EntryStep
      <4>6. EntryPc(s)' = EntryPc(Succ(p))'
        <5>1. s = Succ(p)
          BY <4>3, <4>4
        <5> QED BY <5>1
      <4>7. pred_ptr # alloc_ptr
        BY <1>1, <1>3, <3>2, <4>1
      <4>8. PredictFires <=> s1_pipe # <<>>
        BY <1>6, PredictorStep
      <4> QED BY <3>3, <4>2, <4>5, <4>6, <4>7, <4>8, AllocatesNext
    <3> QED BY <3>5, <3>6
  <2>4. ASSUME NEW p \in Ptr, f1 <= Distance(train_ptr', p), Distance(train_ptr', p) < a1
        PROVE  pc_mem'[Idx(p)] = EntryPc(p)' /\ pc_mem'[Idx(p)] \in Block
    <3>1. PICK x \in Nat : x = Pos(p) /\ T <= x /\ Distance(train_ptr', p) = x - T
      BY <2>2, <2>4
    <3>2. f <= x /\ x < a + A /\ f1 <= x - T
      BY <1>3, <2>1, <2>4, <3>1
    <3>3. pc_mem'[Idx(p)] = IF AllocFires /\ p = alloc_ptr THEN AllocPc(pr) ELSE pc_mem[Idx(p)]
      BY <1>1, <2>2, <2>4, <3>1, <3>2 DEF EntryAfter
    <3>4. CASE x < a
      <4>1. p # alloc_ptr
        BY <1>1, <1>3, <3>1, <3>4
      <4>2. pc_mem[Idx(p)] = EntryPc(p) /\ pc_mem[Idx(p)] \in Block
        BY <1>1, <3>1, <3>2, <3>4 DEF FetchInv, Linked
      <4>3. EntryPc(p)' = EntryPc(p)
        BY <1>1, <1>6, <3>1, <3>4, EntryStep
      <4> QED BY <3>3, <4>1, <4>2, <4>3
    <3>5. CASE ~(x < a)
      <4>1. x = a /\ A = 1
        BY <1>3, <3>2, <3>5
      <4>2. p = alloc_ptr /\ AllocFires
        <5>1. Pos(p) = Pos(alloc_ptr) /\ AllocFires
          BY <1>1, <3>1, <4>1 DEF Bit
        <5> QED BY <5>1, PointerOrder, PositionsUnique DEF Pos
      <4>3. EntryPc(p)' = AllocPc(pr)
        BY <1>6, <4>2, EntryStep
      <4> QED BY <3>3, <4>2, <4>3, AllocPcType
    <3> QED BY <3>4, <3>5
  <2> QED BY <1>2, <2>3, <2>4
<1> QED BY <1>5, <1>6

LEMMA BeforeAlloc ==
    ASSUME FetchInv, NEW p \in Ptr, Succ(p) = alloc_ptr, Pos(alloc_ptr) > 0
    PROVE  Pos(p) \in Nat /\ Pos(p) + 1 = Pos(alloc_ptr)
<1>1. Pos(p) \in Nat /\ Pos(p) < 2 * FtqSize /\ train_ptr \in Ptr /\ Pos(train_ptr) = 0
  BY PointerOrder, Positions DEF Pos
<1>2. Pos(p) + 1 # 2 * FtqSize
  <2>1. SUFFICES ASSUME Pos(p) + 1 = 2 * FtqSize PROVE FALSE
    OBVIOUS
  <2>2. Succ(p) = train_ptr
    BY <1>1, <2>1, Positions DEF Pos
  <2> QED BY <1>1, <2>2
<1>3. Pos(p) + 1 < 2 * FtqSize
  BY <1>1, <1>2, SizesAssumption
<1>4. Pos(Succ(p)) = Pos(p) + 1
  BY <1>1, <1>3, Positions DEF Pos
<1> QED BY <1>1, <1>4

LEMMA ContinuesStep ==
    ASSUME FetchInv, NEW waits, NEW pr, NEW half, NEW e, NEW other, NEW rd, NEW keep,
           Step(waits, pr, half, e, other, rd, keep)
    PROVE  Continues'
<1>1. PICK q, f, a, T, D, A, W, q1, f1, a1 :
           /\ q = Pos(pred_ptr) /\ f = Pos(fetch_ptr) /\ a = Pos(alloc_ptr) /\ T = Trained
           /\ D = Bit(Delivers(waits)) /\ A = Bit(AllocFires) /\ W = Bit(SendFires(waits))
           /\ q1 = Distance(train_ptr', pred_ptr') /\ f1 = Distance(train_ptr', fetch_ptr')
           /\ a1 = Distance(train_ptr', alloc_ptr')
  OBVIOUS
<1>2. /\ q \in Nat /\ f \in Nat /\ a \in Nat /\ T \in Nat /\ D \in {0, 1} /\ A \in {0, 1} /\ W \in {0, 1}
      /\ q1 \in Nat /\ f1 \in Nat /\ a1 \in Nat /\ q <= f /\ f <= a /\ T <= q /\ q + D <= f
  <2>1. /\ q \in Nat /\ f \in Nat /\ a \in Nat /\ T \in Nat /\ q <= f /\ f <= a /\ T <= q
    BY <1>1, PointerOrder, TrainStep
  <2>2. D \in {0, 1} /\ A \in {0, 1} /\ W \in {0, 1}
    BY <1>1 DEF Bit
  <2>3. q1 \in Nat /\ f1 \in Nat /\ a1 \in Nat
    BY <1>1, AllocBound
  <2>4. q + D <= f
    BY <1>1, PredBound
  <2> QED BY <2>1, <2>2, <2>3, <2>4
<1>3. MovesOn(waits, e, other, rd) => q1 = q + D - T /\ f1 = f + W - T /\ a1 = a + A - T
  BY <1>1, PointersStep DEF MovesOn
<1>4. ASSUME s1_pipe' # <<>>
      PROVE  /\ req_valid' /\ next_fetch_addr' = <<>> /\ pred_ptr' # alloc_ptr'
             /\ Succ(s1_pipe'[1].ptr) = alloc_ptr'
             /\ fetch_ptr' = alloc_ptr' => ftq_ptr_pipe' # <<>>
  <2>1. MovesOn(waits, e, other, rd)
    BY <1>4, SteeredStep
  <2>2. /\ AllocFires /\ s1_pipe' = <<[ptr |-> alloc_ptr, pc |-> AllocPc(pr)]>>
        /\ req_valid' /\ next_fetch_addr' = <<>>
    BY <1>4, <2>1, PredictorStep
  <2>3. alloc_ptr' = Succ(alloc_ptr) /\ s1_pipe'[1].ptr = alloc_ptr
    BY <2>1, <2>2, PointersStep DEF MovesOn
  <2>4. A = 1
    BY <1>1, <2>2 DEF Bit
  <2>5. q1 < a1 /\ (f1 = a1 => W = 1)
    BY <1>2, <1>3, <2>1, <2>4
  <2>6. pred_ptr' # alloc_ptr' /\ (fetch_ptr' = alloc_ptr' => W = 1)
    <3>1. q1 # a1 /\ (f1 = a1 => W = 1)
      BY <1>2, <2>5
    <3> QED BY <1>1, <3>1
  <2>7. W = 1 => ftq_ptr_pipe' = <<NewRequest(pr)>>
    <3>1. W = 1 => SendFires(waits)
      BY <1>1 DEF Bit
    <3> QED BY <3>1, PipesStep
  <2> QED BY <2>2, <2>3, <2>6, <2>7
<1>5. ASSUME NEW p \in Ptr, s1_pipe' = <<>>, pred_ptr' # alloc_ptr', Succ(p) = alloc_ptr'
      PROVE  next_fetch_addr' = <<prediction_mem'[Idx(p)].to>>
  <2>1. MovesOn(waits, e, other, rd)
    BY <1>5, SteeredStep
  <2>2. ~AllocFires
    BY <1>5, <2>1, PredictorStep
  <2>3. alloc_ptr' = alloc_ptr /\ A = 0
    BY <1>1, <2>1, <2>2, PointersStep DEF MovesOn, Bit
  <2>4. q1 # a1
    BY <1>1, <1>5, PointersStep, TrainStep, PositionsUnique
  <2>5. q1 < a1
    <3>1. q1 <= a1
      BY <1>1, <1>2, AllocBound
    <3> QED BY <1>2, <2>4, <3>1
  <2>6. q + D < a
    BY <1>2, <1>3, <2>1, <2>3, <2>5
  <2>7. PICK x \in Nat : x = Pos(p) /\ x + 1 = a
    BY <1>1, <1>2, <1>5, <2>3, <2>6, BeforeAlloc
  <2>8. EntryAfter(waits, pr, e, p) /\ q1 <= Pos(p) - Trained
    <3>1. T <= x /\ x - T < a1 /\ q1 <= x - T
      BY <1>2, <1>3, <2>1, <2>3, <2>6, <2>7
    <3> QED BY <1>1, <2>7, <3>1, EntriesStep
  <2>9. prediction_mem'[Idx(p)].to =
          IF PredictFires /\ s1_pipe[1].ptr = p THEN pr.to ELSE prediction_mem[Idx(p)].to
    BY <1>1, <2>8 DEF EntryAfter
  <2>10. pred_ptr # alloc_ptr
    BY <1>1, <1>2, <2>6
  <2>11. /\ s1_pipe = <<>> => next_fetch_addr = <<prediction_mem[Idx(p)].to>>
         /\ s1_pipe # <<>> => s1_pipe[1].ptr = p /\ PredictFires
    BY <1>1, <2>7, <2>10, AllocatesNext
  <2>12. /\ next_fetch_addr' = IF PredictFires THEN <<pr.to>> ELSE next_fetch_addr
         /\ PredictFires <=> s1_pipe # <<>>
    BY <2>1, <2>2, PredictorStep
  <2> QED BY <2>9, <2>11, <2>12
<1> QED BY <1>4, <1>5 DEF Continues

LEMMA StallsStep ==
    ASSUME FetchInv, NEW waits, NEW pr, NEW half, NEW e, NEW other, NEW rd, NEW keep,
           Step(waits, pr, half, e, other, rd, keep)
    PROVE  Stalls'
<1>1. Backend(rd, keep) /\ ras_resp' = (rd # <<>>) /\ stalled_exception' = exception_valid
  BY DEF Step, FetchCycle
<1>2. exception_valid' => path' # <<>>
  <2>1. SUFFICES ASSUME exception_valid' PROVE path' # <<>>
    OBVIOUS
  <2>2. path # <<>>
    BY <1>1, <2>1 DEF Backend
  <2>3. Trained < PathLength(waits, rd, keep) /\ Len(path') = PathLength(waits, rd, keep) - Trained
    BY <2>2, PathStep
  <2>4. PathLength(waits, rd, keep) \in Nat /\ Trained \in Nat
    BY PathStep, TrainStep
  <2>5. Len(path') # 0
    BY <2>3, <2>4
  <2> QED BY <2>5
<1>3. rolled_back' => exception_valid' /\ ras_resp'
  BY <1>1 DEF Backend
<1>4. ras_resp' => pred_ptr' = alloc_ptr' /\ prev_half' = <<>> /\ due' # <<>>
  <2>1. SUFFICES ASSUME rd # <<>> PROVE pred_ptr' = alloc_ptr' /\ prev_half' = <<>> /\ due' # <<>>
    BY <1>1
  <2>2. pred_ptr' = alloc_ptr'
    BY <2>1, PointersStep
  <2>3. prev_half' = <<>>
    BY <2>1 DEF Step, FetchCycle, CarryCycle
  <2>4. due' = <<[ptr |-> Succ(rd[1].ptr), pc |-> rd[1].pc, starts |-> FALSE]>>
    BY <2>1 DEF Step, FetchCycle, PathCycle
  <2> QED BY <2>2, <2>3, <2>4
<1>5. stalled_exception' /\ ~exception_valid' => LiveCount' <= Len(ftq_ptr_pipe')
  <2>1. SUFFICES ASSUME exception_valid, ~exception_valid' PROVE LiveCount' <= Len(ftq_ptr_pipe')
    BY <1>1
  <2>2. /\ Len(ftq_ptr_pipe') = Len(ftq_ptr_pipe) - Bit(TranslateFires(waits)) + Bit(SendFires(waits))
        /\ Bit(TranslateFires(waits)) <= Len(ftq_ptr_pipe) /\ Len(ftq_ptr_pipe) \in Nat
        /\ Bit(TranslateFires(waits)) \in Nat /\ Bit(SendFires(waits)) \in Nat
    BY PipeLengthsStep, PipeLengths DEF Bit
  <2>3. CASE ~MovesOn(waits, e, other, rd)
    BY <2>2, <2>3, SteeredStep
  <2>4. CASE MovesOn(waits, e, other, rd)
    <3>1. rd = <<>> /\ QuietBackend(keep)
      BY <1>1, <2>4 DEF Backend, MovesOn
    <3>2. rolled_back
      BY <2>1, <3>1 DEF QuietBackend
    <3>3. pred_ptr = alloc_ptr
      BY <3>2 DEF FetchInv, Stalls
    <3>4. ~Delivers(waits) /\ Pos(fetch_ptr) = Pos(pred_ptr)
      BY <3>3, Delivery, PointerOrder
    <3>5. /\ Distance(train_ptr', fetch_ptr') = Pos(fetch_ptr) + Bit(SendFires(waits)) - Trained
          /\ Distance(train_ptr', pred_ptr') = Pos(pred_ptr) + Bit(Delivers(waits)) - Trained
      BY <2>4, PointersStep DEF MovesOn
    <3>6. LiveCount' = Bit(SendFires(waits))
      <4>1. LiveCount' = Distance(train_ptr', fetch_ptr') - Distance(train_ptr', pred_ptr')
        BY DEF LiveCount, Pos
      <4>2. Bit(Delivers(waits)) = 0 /\ Trained \in Nat /\ Bit(SendFires(waits)) \in Nat
        BY <3>4, TrainStep DEF Bit
      <4> QED BY <3>4, <3>5, <4>1, <4>2, PointerOrder
    <3> QED BY <2>2, <3>6
  <2> QED BY <2>3, <2>4
<1> QED BY <1>2, <1>3, <1>4, <1>5 DEF Stalls

\* Where stage 2 says the stream goes on
AfterBlock(e) ==
    [ptr |-> Succ(s1_s2_pipe[1].ptr), pc |-> e.to,
     starts |-> s1_s2_pipe[1].ends /\ e = FallThrough(s1_s2_pipe[1].pc)]

LEMMA DueValue ==
    ASSUME FetchInv, NEW waits, NEW pr, NEW half, NEW e, NEW other, NEW rd, NEW keep,
           Step(waits, pr, half, e, other, rd, keep)
    PROVE  due' = IF rd # <<>> THEN <<[ptr |-> Succ(rd[1].ptr), pc |-> rd[1].pc, starts |-> FALSE]>>
                  ELSE IF FlushDrops(waits) THEN <<>>
                  ELSE IF Delivers(waits) THEN IF e = Halt THEN <<>> ELSE <<AfterBlock(e)>>
                  ELSE due
<1>1. PathCycle(waits, e, rd, keep)
  BY DEF Step, FetchCycle
<1>2. CASE rd # <<>>
  BY <1>1, <1>2 DEF PathCycle
<1>3. CASE rd = <<>> /\ FlushDrops(waits)
  BY <1>1, <1>3 DEF PathCycle
<1>4. CASE rd = <<>> /\ ~FlushDrops(waits) /\ Delivers(waits)
  BY <1>1, <1>4 DEF PathCycle, AfterBlock
<1>5. CASE rd = <<>> /\ ~FlushDrops(waits) /\ ~Delivers(waits)
  BY <1>1, <1>5 DEF PathCycle
<1> QED BY <1>2, <1>3, <1>4, <1>5

\* The address unit after a redirect or a resteer.
LEMMA AddressSteered ==
    ASSUME FetchInv, NEW waits, NEW pr, NEW half, NEW e, NEW other, NEW rd, NEW keep,
           Step(waits, pr, half, e, other, rd, keep)
    PROVE  /\ rd # <<>> => next_fetch_addr' = <<rd[1].pc>>
           /\ rd = <<>> /\ Turns(waits, e, other) =>
                next_fetch_addr' = IF e = Halt THEN <<>> ELSE <<e.to>>
BY DEF Step, FetchCycle, AddressCycle, Turns

\* A block that is followed is the one that was predicted.
LEMMA FollowedExit ==
    ASSUME FetchInv, NEW waits, NEW e, NEW other, Delivers(waits), ~Turns(waits, e, other)
    PROVE  e # Halt /\ e.to = prediction_mem[Idx(pred_ptr)].to
<1>1. ~Resteers(e, other)
  BY DEF Turns
<1>2. PICK p : p = prediction_mem[Idx(pred_ptr)]
  OBVIOUS
<1>3. e # Halt /\ e = [cfi |-> p.cfi, to |-> p.to]
  BY <1>1, <1>2 DEF Resteers
<1>4. e.to = p.to
  BY <1>3
<1> QED BY <1>2, <1>3, <1>4

LEMMA DueStep ==
    ASSUME FetchInv, NEW waits, NEW pr, NEW half, NEW e, NEW other, NEW rd, NEW keep,
           Step(waits, pr, half, e, other, rd, keep)
    PROVE  DueNext'
<1> DEFINE Goal == DueNext'
<1>0. Goal <=> /\ due' # <<>> =>
                    /\ due'[1].ptr = pred_ptr'
                    /\ pred_ptr' # alloc_ptr' => EntryPc(pred_ptr)' = due'[1].pc
                    /\ pred_ptr' = alloc_ptr' => next_fetch_addr' = <<due'[1].pc>>
               /\ Intact' /\ due' = <<>> => pred_ptr' = alloc_ptr' /\ next_fetch_addr' = <<>>
  BY DEF DueNext
<1> HIDE DEF Goal
<1>1. CASE rd # <<>>
  <2>1. due' = <<[ptr |-> Succ(rd[1].ptr), pc |-> rd[1].pc, starts |-> FALSE]>>
    BY <1>1, DueValue
  <2>2. pred_ptr' = alloc_ptr' /\ alloc_ptr' = Succ(rd[1].ptr)
    BY <1>1, PointersStep
  <2>3. next_fetch_addr' = <<rd[1].pc>>
    BY <1>1, AddressSteered
  <2>4. due' # <<>> /\ due'[1].ptr = Succ(rd[1].ptr) /\ due'[1].pc = rd[1].pc
    BY <2>1
  <2> QED BY <1>0, <2>2, <2>3, <2>4 DEF Goal
<1>2. CASE rd = <<>> /\ FlushDrops(waits)
  <2>1. due' = <<>>
    BY <1>2, DueValue
  <2>2. ~Intact'
    <3>1. exception_valid /\ (rolled_back => Delivers(waits))
      BY <1>2 DEF FlushDrops, StallFlush
    <3> QED BY <1>2, <3>1, IntactStep
  <2> QED BY <1>0, <2>1, <2>2 DEF Goal
<1>3. CASE rd = <<>> /\ ~FlushDrops(waits) /\ Turns(waits, e, other)
  <2>1. Delivers(waits) /\ s1_s2_pipe[1].ptr = pred_ptr
    BY <1>3, TurnsHere
  <2>2. due' = IF e = Halt THEN <<>> ELSE <<AfterBlock(e)>>
    BY <1>3, <2>1, DueValue
  <2>3. pred_ptr' = alloc_ptr' /\ alloc_ptr' = Succ(pred_ptr)
    BY <1>3, PointersStep
  <2>4. next_fetch_addr' = IF e = Halt THEN <<>> ELSE <<e.to>>
    BY <1>3, AddressSteered
  <2>5. AfterBlock(e).ptr = Succ(pred_ptr) /\ AfterBlock(e).pc = e.to
    BY <2>1 DEF AfterBlock
  <2>6. CASE e = Halt
    BY <1>0, <2>2, <2>3, <2>4, <2>6 DEF Goal
  <2>7. CASE e # Halt
    <3>1. due' # <<>> /\ due'[1] = AfterBlock(e)
      BY <2>2, <2>7
    <3> QED BY <1>0, <2>3, <2>4, <2>5, <2>7, <3>1 DEF Goal
  <2> QED BY <2>6, <2>7
<1>4. CASE rd = <<>> /\ ~FlushDrops(waits) /\ ~Turns(waits, e, other)
  <2>1. PICK q, a, T, A, D, q1, a1 :
           /\ q = Pos(pred_ptr) /\ a = Pos(alloc_ptr) /\ T = Trained /\ D = Bit(Delivers(waits))
           /\ A = Bit(AllocFires) /\ q1 = Distance(train_ptr', pred_ptr')
           /\ a1 = Distance(train_ptr', alloc_ptr')
    OBVIOUS
  <2>2. /\ q \in Nat /\ a \in Nat /\ T \in Nat /\ A \in {0, 1} /\ D \in {0, 1} /\ T <= q /\ q <= a
        /\ q1 \in Nat /\ a1 \in Nat /\ q1 = q + D - T /\ a1 = a + A - T
    <3>1. q \in Nat /\ a \in Nat /\ T \in Nat /\ T <= q /\ q <= a
      BY <2>1, PointerOrder, TrainStep
    <3>2. A \in {0, 1} /\ D \in {0, 1}
      BY <2>1 DEF Bit
    <3> QED BY <1>4, <2>1, <3>1, <3>2, PointersStep, AllocBound
  <2>3. pred_ptr' = alloc_ptr' <=> q1 = a1
    BY <2>1, PointersStep, TrainStep, PositionsUnique
  <2>4. MovesOn(waits, e, other, rd)
    BY <1>4 DEF MovesOn
  <2>5. /\ next_fetch_addr' = IF AllocFires THEN <<>>
                              ELSE IF PredictFires THEN <<pr.to>> ELSE next_fetch_addr
        /\ PredictFires <=> s1_pipe # <<>>
    BY <2>4, PredictorStep
  <2>6. AllocFires <=> A = 1
    BY <2>1 DEF Bit
  <2>7. CASE Delivers(waits)
    <3>1. e # Halt /\ e.to = prediction_mem[Idx(pred_ptr)].to
      BY <1>4, <2>7, FollowedExit
    <3>2. due' = <<AfterBlock(e)>>
      BY <1>4, <2>7, <3>1, DueValue
    <3>3. s1_s2_pipe[1].ptr = pred_ptr /\ pred_ptr # alloc_ptr /\ (s1_pipe # <<>> => s1_pipe[1].ptr # pred_ptr)
      BY <2>7, Delivery
    <3>4. due' # <<>> /\ due'[1].ptr = Succ(pred_ptr) /\ due'[1].pc = e.to
      BY <3>2, <3>3 DEF AfterBlock
    <3>5. pred_ptr' = Succ(pred_ptr) /\ D = 1 /\ Succ(pred_ptr) \in Ptr
      BY <1>4, <2>1, <2>7, PointersStep DEF Bit
    <3>6. q < a
      <4>1. q # a
        BY <2>1, <3>3, PointerOrder, PositionsUnique DEF Pos
      <4> QED BY <2>2, <4>1
    <3>7. PICK s \in Ptr : s = Succ(pred_ptr) /\ s = pred_ptr'
      BY <3>5
    <3>8. EntryPc(s)' = EntryPc(pred_ptr)'
      BY <3>7 DEF EntryPc
    <3>9. CASE q + 1 < a
      <4>1. EntryPc(s) = prediction_mem[Idx(pred_ptr)].to
        <5>1. /\ pred_ptr \in Ptr /\ Pos(pred_ptr) <= Pos(pred_ptr)
              /\ Pos(pred_ptr) + 1 < Pos(alloc_ptr)
          BY <2>1, <3>9, PointerOrder
        <5>2. EntryPc(Succ(pred_ptr)) = prediction_mem[Idx(pred_ptr)].to
          BY <5>1 DEF FetchInv, Linked
        <5> QED BY <3>7, <5>2
      <4>2. Pos(s) = q + 1
        <5>1. q + 1 < 2 * FtqSize
          BY <2>1, <3>9, PointerOrder
        <5>2. Pos(Succ(pred_ptr)) = Pos(pred_ptr) + 1
          BY <2>1, <5>1, PointerOrder, Positions DEF Pos
        <5> QED BY <2>1, <3>7, <5>2
      <4>3. Trained <= Pos(s) /\ Pos(s) < Pos(alloc_ptr)
        BY <2>1, <2>2, <3>9, <4>2
      <4>4. EntryPc(s)' = EntryPc(s)
        BY <2>4, <4>3, EntryStep
      <4>5. q1 # a1
        BY <2>2, <3>5, <3>9
      <4> QED BY <1>0, <2>3, <3>1, <3>4, <3>7, <3>8, <4>1, <4>4, <4>5 DEF Goal
    <3>10. CASE ~(q + 1 < a)
      <4>1. q + 1 = a /\ Pos(pred_ptr) + 1 = Pos(alloc_ptr)
        BY <2>1, <2>2, <3>6, <3>10
      <4>2. s = alloc_ptr /\ s1_pipe = <<>>
        BY <3>3, <3>7, <4>1, Youngest, PointerOrder
      <4>3. /\ next_fetch_addr = <<prediction_mem[Idx(pred_ptr)].to>>
            /\ AllocFires => AllocPc(pr) = prediction_mem[Idx(pred_ptr)].to
        BY <3>3, <4>1, <4>2, AllocatesNext, PointerOrder
      <4>4. CASE AllocFires
        <5>1. EntryPc(s)' = AllocPc(pr)
          BY <2>4, <4>2, <4>4, EntryStep
        <5>2. q1 # a1
          BY <2>2, <2>6, <3>5, <4>1, <4>4
        <5> QED BY <1>0, <2>3, <3>1, <3>4, <3>7, <3>8, <4>3, <4>4, <5>1, <5>2 DEF Goal
      <4>5. CASE ~AllocFires
        <5>1. q1 = a1
          BY <2>2, <2>6, <3>5, <4>1, <4>5
        <5>2. next_fetch_addr' = next_fetch_addr
          BY <2>5, <4>2, <4>5
        <5> QED BY <1>0, <2>3, <3>1, <3>4, <3>7, <4>3, <5>1, <5>2 DEF Goal
      <4> QED BY <4>4, <4>5
    <3> QED BY <3>9, <3>10
  <2>8. CASE ~Delivers(waits)
    <3>1. due' = due /\ pred_ptr' = pred_ptr /\ D = 0
      BY <1>4, <2>1, <2>8, DueValue, PointersStep DEF Bit
    <3>2. PICK s \in Ptr : s = pred_ptr /\ s = pred_ptr'
      BY <3>1, PointerOrder
    <3>3. EntryPc(s)' = EntryPc(pred_ptr)'
      BY <3>2 DEF EntryPc
    <3>4. pred_ptr = alloc_ptr <=> q = a
      BY <2>1, PointerOrder, PositionsUnique DEF Pos
    <3>5. CASE due # <<>>
      <4>1. /\ due[1].ptr = pred_ptr
            /\ pred_ptr # alloc_ptr => EntryPc(pred_ptr) = due[1].pc
            /\ pred_ptr = alloc_ptr => next_fetch_addr = <<due[1].pc>>
        BY <3>5 DEF FetchInv, DueNext
      <4>2. CASE pred_ptr # alloc_ptr
        <5>1. Trained <= Pos(s) /\ Pos(s) < Pos(alloc_ptr) /\ q1 # a1
          BY <2>1, <2>2, <3>1, <3>2, <3>4, <4>2
        <5>2. EntryPc(s)' = EntryPc(s)
          BY <2>4, <5>1, EntryStep
        <5> QED BY <1>0, <2>3, <3>1, <3>2, <3>3, <3>5, <4>1, <4>2, <5>1, <5>2 DEF Goal
      <4>3. CASE pred_ptr = alloc_ptr /\ AllocFires
        <5>1. EntryPc(s)' = AllocPc(pr) /\ q1 # a1
          <6>1. EntryPc(s)' = AllocPc(pr)
            BY <2>4, <3>2, <4>3, EntryStep
          <6>2. q1 # a1
            BY <2>2, <2>6, <3>1, <3>4, <4>3
          <6> QED BY <6>1, <6>2
        <5>2. AllocPc(pr) = due[1].pc
          <6>1. PICK z : z = due[1].pc
            OBVIOUS
          <6>2. next_fetch_addr = <<z>>
            BY <4>1, <4>3, <6>1
          <6>3. next_fetch_addr # <<>> /\ next_fetch_addr[1] = z
            BY <6>2
          <6> QED BY <6>1, <6>3 DEF AllocPc
        <5> QED BY <1>0, <2>3, <3>1, <3>2, <3>3, <3>5, <4>1, <5>1, <5>2 DEF Goal
      <4>4. CASE pred_ptr = alloc_ptr /\ ~AllocFires
        <5>1. q1 = a1
          BY <2>2, <2>6, <3>1, <3>4, <4>4
        <5>2. next_fetch_addr' = next_fetch_addr
          BY <2>5, <4>4, Predicting
        <5> QED BY <1>0, <2>3, <3>1, <3>5, <4>1, <4>4, <5>1, <5>2 DEF Goal
      <4> QED BY <4>2, <4>3, <4>4
    <3>6. CASE due = <<>>
      <4>1. SUFFICES ASSUME Intact' PROVE pred_ptr' = alloc_ptr' /\ next_fetch_addr' = <<>>
        BY <1>0, <3>1, <3>6 DEF Goal
      <4>2. Intact
        BY <1>4, <4>1, IntactStep
      <4>3. pred_ptr = alloc_ptr /\ next_fetch_addr = <<>>
        BY <3>6, <4>2 DEF FetchInv, DueNext
      <4>4. s1_pipe = <<>> /\ ~PredictFires
        BY <2>5, <4>3, Predicting
      <4>5. ~AllocFires
        BY <4>3, <4>4 DEF AllocFires, AddressReady
      <4>6. q1 = a1
        BY <2>2, <2>6, <3>1, <3>4, <4>3, <4>5
      <4> QED BY <2>3, <2>5, <4>3, <4>4, <4>5, <4>6
    <3> QED BY <3>5, <3>6
  <2> QED BY <2>7, <2>8
<1> QED BY <1>1, <1>2, <1>3, <1>4 DEF Goal

LEMMA CarryValue ==
    ASSUME FetchInv, NEW waits, NEW pr, NEW half, NEW e, NEW other, NEW rd, NEW keep,
           Step(waits, pr, half, e, other, rd, keep)
    PROVE  prev_half' =
             IF rd # <<>> \/ StallFlush THEN <<>>
             ELSE IF Turns(waits, e, other)
             THEN IF AfterBlock(e).starts THEN <<s1_s2_pipe[1].pc>> ELSE <<>>
             ELSE IF Stage1Fires(waits) /\ ~Stale(fetch_requests[1])
             THEN IF half THEN <<fetch_requests[1].pc>> ELSE <<>>
             ELSE prev_half
<1>0. PICK flush, resteers : flush = (rd # <<>> \/ StallFlush) /\ resteers = (Delivers(waits) /\ Resteers(e, other))
  OBVIOUS
<1>1. CarryCycle(waits, half, e, flush, resteers)
  BY <1>0 DEF Step, FetchCycle
<1>2. AfterBlock(e).starts = (s1_s2_pipe[1].ends /\ e = FallThrough(s1_s2_pipe[1].pc))
  BY DEF AfterBlock
<1>3. resteers <=> Turns(waits, e, other)
  BY <1>0 DEF Turns
<1>4. CASE flush
  BY <1>0, <1>1, <1>4 DEF CarryCycle
<1>5. CASE ~flush /\ resteers
  BY <1>0, <1>1, <1>2, <1>3, <1>5 DEF CarryCycle
<1>6. CASE ~flush /\ ~resteers /\ Stage1Fires(waits) /\ ~Stale(fetch_requests[1])
  BY <1>0, <1>1, <1>3, <1>6 DEF CarryCycle
<1>7. CASE ~flush /\ ~resteers /\ ~(Stage1Fires(waits) /\ ~Stale(fetch_requests[1]))
  BY <1>0, <1>1, <1>3, <1>7 DEF CarryCycle
<1> QED BY <1>4, <1>5, <1>6, <1>7

\* A block that is followed hands its last half on just when the next block follows it.
LEMMA HalfLeaves ==
    ASSUME FetchInv, NEW waits, NEW pr, NEW half, NEW e, NEW other, NEW rd, NEW keep,
           Step(waits, pr, half, e, other, rd, keep), Delivers(waits), e # Halt,
           Turns(waits, e, other) \/ ~JumpsOverHalf
    PROVE  /\ AfterBlock(e).starts => Sequential(s1_s2_pipe[1].pc) = e.to
           /\ ~Turns(waits, e, other) =>
                (AfterBlock(e).starts <=> s1_s2_pipe[1].ends /\ Sequential(s1_s2_pipe[1].pc) = e.to)
<1>1. PICK d : d = s1_s2_pipe[1]
  OBVIOUS
<1>2. d.pc \in Block /\ d.ends \in BOOLEAN
  BY <1>1, Delivery, HeadType
<1>3. e \in Predictions(d.pc) \cup {Halt}
  BY <1>1 DEF Step, Inputs
<1>4. AfterBlock(e).starts <=> d.ends /\ e = FallThrough(d.pc)
  BY <1>1 DEF AfterBlock
<1>5. e = FallThrough(d.pc) => e.to = Sequential(d.pc)
  BY DEF FallThrough
<1>6. /\ e.cfi \in BOOLEAN /\ e = [cfi |-> e.cfi, to |-> e.to]
      /\ e.cfi = FALSE => e = FallThrough(d.pc)
  BY <1>2, <1>3, Exits
<1>7. ASSUME ~Turns(waits, e, other), d.ends, Sequential(d.pc) = e.to PROVE e = FallThrough(d.pc)
  <2>1. CASE e.cfi = FALSE
    BY <1>6, <2>1
  <2>2. CASE e.cfi = TRUE
    <3>1. e = [cfi |-> TRUE, to |-> Sequential(d.pc)]
      BY <1>6, <1>7, <2>2
    <3>2. ~(Delivers(waits) /\ Resteers(e, other)) /\ ~JumpsOverHalf
      BY <1>7 DEF Turns
    <3>3. ~CrossesHalf(e, Delivers(waits) /\ Resteers(e, other))
      BY <3>2 DEF Step, FetchCycle
    <3> QED BY <1>1, <1>7, <3>1, <3>2, <3>3 DEF CrossesHalf
  <2> QED BY <1>6, <2>1, <2>2
<1> QED BY <1>1, <1>4, <1>5, <1>7

\* The oldest request, once stage 2 has fired, is of the block that is due.
LEMMA NextDue ==
    ASSUME FetchInv, Intact, NEW waits, NEW k \in 1 .. Inflight, ~Delivers(waits), k = Gone(waits) + 1,
           LiveCount = Inflight - Gone(waits)
    PROVE  due # <<>> /\ Req(k).pc = due[1].pc
<1>1. PICK G, n, m, q, f : G = Gone(waits) /\ n = Inflight /\ m = LiveCount /\ q = Pos(pred_ptr) /\ f = Pos(fetch_ptr)
  OBVIOUS
<1>2. G \in {0, 1} /\ n \in Nat /\ m = n - G /\ m = f - q /\ q \in Nat /\ f \in Nat /\ k = G + 1 /\ k <= n
  <2>1. G \in {0, 1}
    BY <1>1 DEF Gone, Bit
  <2>2. m = f - q
    BY <1>1 DEF LiveCount
  <2> QED BY <1>1, <2>1, <2>2, PipeLengths, PointerOrder
<1>3. k > n - m /\ m >= 1
  BY <1>2
<1>4. Pos(Req(k).ptr) = f - (n - k) - 1 /\ Req(k).pc = EntryPc(Req(k).ptr)
  BY <1>1, <1>3, StaleMeans
<1>5. Pos(Req(k).ptr) = Pos(pred_ptr) /\ q < f
  BY <1>1, <1>2, <1>3, <1>4
<1>6. Req(k).ptr = pred_ptr
  BY <1>5, ReqType, PointerOrder, PositionsUnique DEF Pos
<1>7. pred_ptr # alloc_ptr
  BY <1>1, <1>5, PointerOrder
<1>8. due # <<>> /\ EntryPc(pred_ptr) = due[1].pc
  BY <1>7 DEF FetchInv, DueNext
<1> QED BY <1>4, <1>6, <1>8

\* The half instruction at the end of a block meets its second half, unless a jump
\* over it is followed.
LEMMA HalfStep ==
    ASSUME FetchInv, NEW waits, NEW pr, NEW half, NEW e, NEW other, NEW rd, NEW keep,
           Step(waits, pr, half, e, other, rd, keep)
    PROVE  HalfCarried'
<1>0. SUFFICES ASSUME Intact', ~JumpsOverHalf PROVE HalfCarried'
  BY DEF HalfCarried
<1>1. HalfCarried' <=>
        /\ HeadLive' => prev_half' = IF s1_s2_pipe'[1].ends THEN <<s1_s2_pipe'[1].pc>> ELSE <<>>
        /\ HeadLive' => due' # <<>> /\ s1_s2_pipe'[1].starts = due'[1].starts
        /\ ~HeadLive' /\ due' # <<>> =>
              due'[1].starts = (prev_half' # <<>> /\ Sequential(prev_half'[1]) = due'[1].pc)
  BY <1>0 DEF HalfCarried
<1>2. PICK n, m, n1, m1, s, r, p, s1, G, S, W, D :
         /\ n = Inflight /\ m = LiveCount /\ n1 = Inflight' /\ m1 = LiveCount'
         /\ s = Len(s1_s2_pipe) /\ r = Len(fetch_requests) /\ p = Len(ftq_ptr_pipe)
         /\ s1 = Len(s1_s2_pipe') /\ G = Gone(waits) /\ S = Bit(Stage1Fires(waits))
         /\ W = Bit(SendFires(waits)) /\ D = Bit(Delivers(waits))
  OBVIOUS
<1>3. HeadLive' <=> s1_s2_pipe' # <<>> /\ m1 = n1
  BY <1>2 DEF HeadLive
<1>4. /\ n \in Nat /\ m \in Nat /\ s \in Nat /\ r \in Nat /\ p \in Nat /\ s <= 1
      /\ G \in {0, 1} /\ S \in {0, 1} /\ W \in {0, 1} /\ D \in {0, 1}
      /\ n = s + r + p /\ n1 = n - G + W /\ s1 = s - G + S /\ G <= s /\ S <= r
      /\ S = 1 => s = G
  <2>1. /\ n \in Nat /\ m \in Nat /\ s \in Nat /\ r \in Nat /\ p \in Nat /\ s <= 1
    BY <1>2, PipeLengths
  <2>2. G \in {0, 1} /\ S \in {0, 1} /\ W \in {0, 1} /\ D \in {0, 1}
    BY <1>2 DEF Gone, Bit
  <2>3. n = s + r + p
    BY <1>2, <2>1 DEF Inflight
  <2>4. n1 = n - G + W
    BY <1>2, RequestsStep
  <2>5. s1 = s - G + S /\ G <= s /\ S <= r
    BY <1>2, PipeLengthsStep
  <2>6. S = 1 => s = G
    <3>1. S = 1 => Stage1Fires(waits)
      BY <1>2 DEF Bit
    <3> QED BY <1>2, <3>1, PipeLengthsStep
  <2> QED BY <2>1, <2>2, <2>3, <2>4, <2>5, <2>6
<1>5. s1_s2_pipe' # <<>> => s1 >= 1 /\ n - G >= 1 + p /\ n1 >= 1
  <2>1. SUFFICES ASSUME s1_s2_pipe' # <<>> PROVE s1 >= 1 /\ n - G >= 1 + p /\ n1 >= 1
    OBVIOUS
  <2>2. PICK x : s1_s2_pipe' = <<x>>
    BY <2>1, PipeTypesStep DEF AtMostOne
  <2>3. s1 = 1
    BY <1>2, <2>2
  <2> QED BY <1>4, <2>3
<1>6. HeadLive => s = 1 /\ m = n
  BY <1>2, HeadType DEF HeadLive
<1>7. CASE ~MovesOn(waits, e, other, rd)
  <2>1. m1 = 0
    BY <1>2, <1>7, SteeredStep
  <2>2. ~HeadLive'
    BY <1>3, <1>5, <2>1
  <2>3. CASE rd # <<>>
    <3>1. due' = <<[ptr |-> Succ(rd[1].ptr), pc |-> rd[1].pc, starts |-> FALSE]>> /\ prev_half' = <<>>
      BY <2>3, DueValue, CarryValue
    <3>2. due'[1].starts = FALSE
      BY <3>1
    <3> QED BY <1>1, <2>2, <3>1, <3>2
  <2>4. CASE rd = <<>>
    <3>1. Turns(waits, e, other) /\ Delivers(waits)
      BY <1>7, <2>4 DEF MovesOn, Turns
    <3>2. ~StallFlush /\ ~FlushDrops(waits)
      BY <1>0, <2>4, <3>1, IntactStep DEF StallFlush, FlushDrops
    <3>3. due' = IF e = Halt THEN <<>> ELSE <<AfterBlock(e)>>
      BY <2>4, <3>1, <3>2, DueValue
    <3>4. prev_half' = IF AfterBlock(e).starts THEN <<s1_s2_pipe[1].pc>> ELSE <<>>
      BY <2>4, <3>1, <3>2, CarryValue
    <3>5. CASE e = Halt
      BY <1>1, <2>2, <3>3, <3>5
    <3>6. CASE e # Halt
      <4>1. AfterBlock(e).starts => Sequential(s1_s2_pipe[1].pc) = e.to
        BY <3>1, <3>6, HalfLeaves
      <4>2. PICK b \in BOOLEAN : b = AfterBlock(e).starts
        BY DEF AfterBlock
      <4>3. AfterBlock(e).pc = e.to
        BY DEF AfterBlock
      <4>4. due'[1].starts = b /\ due'[1].pc = e.to
        BY <3>3, <3>6, <4>2, <4>3
      <4>5. b <=> (prev_half' # <<>> /\ Sequential(prev_half'[1]) = e.to)
        BY <3>4, <4>1, <4>2
      <4>6. b = (prev_half' # <<>> /\ Sequential(prev_half'[1]) = e.to)
        BY <4>5
      <4> QED BY <1>1, <2>2, <4>4, <4>6
    <3> QED BY <3>5, <3>6
  <2> QED BY <2>3, <2>4
<1>8. CASE MovesOn(waits, e, other, rd)
  <2>0. rd = <<>> /\ ~Turns(waits, e, other)
    BY <1>8 DEF MovesOn
  <2>1. Intact /\ (exception_valid => rolled_back /\ ras_resp /\ ~Delivers(waits) /\ m = 0)
    BY <1>0, <1>2, <2>0, IntactStep
  <2>2. m1 = m + W - D
    <3>1. m1 = Distance(train_ptr', fetch_ptr') - Distance(train_ptr', pred_ptr')
      BY <1>2 DEF LiveCount, Pos
    <3>2. /\ Distance(train_ptr', fetch_ptr') = Pos(fetch_ptr) + W - Trained
          /\ Distance(train_ptr', pred_ptr') = Pos(pred_ptr) + D - Trained
      BY <1>2, <2>0, PointersStep
    <3>3. m = Pos(fetch_ptr) - Pos(pred_ptr) /\ Trained \in Nat
      BY <1>2, TrainStep DEF LiveCount
    <3> QED BY <1>4, <3>1, <3>2, <3>3, PointerOrder
  <2>3. m - D <= n - G /\ (m1 = n1 <=> m - D = n - G)
    <3>1. m - D <= n - G
      BY <1>2, <2>1, LiveKept
    <3> QED BY <1>4, <2>2, <3>1
  <2>4. /\ HeadLive => prev_half = IF s1_s2_pipe[1].ends THEN <<s1_s2_pipe[1].pc>> ELSE <<>>
        /\ HeadLive => due # <<>> /\ s1_s2_pipe[1].starts = due[1].starts
        /\ ~HeadLive /\ due # <<>> =>
              due[1].starts = (prev_half # <<>> /\ Sequential(prev_half[1]) = due[1].pc)
    BY <1>0, <2>1 DEF FetchInv, HalfCarried
  <2>5. s1_s2_pipe' = IF Stage1Fires(waits) THEN <<Received(half)>>
                      ELSE IF Stage2Fires(waits) THEN <<>> ELSE s1_s2_pipe
    BY PipesStep
  <2>6. CASE stalled_exception \/ StallFlush
    <3>1. m <= p
      <4>1. CASE stalled_exception
        BY <1>2, <2>1, <4>1, LiveKept
      <4>2. CASE StallFlush
        BY <1>4, <2>1, <4>2 DEF StallFlush
      <4> QED BY <2>6, <4>1, <4>2
    <3>2. ~Delivers(waits) /\ D = 0
      <4>1. ~Delivers(waits)
        BY <2>1, <2>6, Delivery DEF StallFlush
      <4> QED BY <1>2, <4>1 DEF Bit
    <3>3. ~HeadLive /\ ~HeadLive'
      <4>1. ~HeadLive
        BY <1>4, <1>6, <3>1
      <4>2. ~HeadLive'
        BY <1>3, <1>4, <1>5, <2>3, <3>1, <3>2
      <4> QED BY <4>1, <4>2
    <3>4. due' = due
      BY <2>0, <2>1, <3>2, DueValue DEF FlushDrops, StallFlush
    <3>5. prev_half' = prev_half
      <4>1. CASE StallFlush
        <5>1. prev_half = <<>>
          BY <2>1, <4>1 DEF FetchInv, Stalls, StallFlush
        <5> QED BY <4>1, <5>1, CarryValue
      <4>2. CASE ~StallFlush
        <5>1. Stale(fetch_requests[1])
          BY <2>6, <4>2 DEF Stale
        <5> QED BY <2>0, <4>2, <5>1, CarryValue
      <4> QED BY <4>1, <4>2
    <3> QED BY <1>1, <2>4, <3>3, <3>4, <3>5
  <2>7. CASE ~stalled_exception /\ ~StallFlush /\ Delivers(waits)
    <3>1. D = 1 /\ G = 1 /\ m = n /\ HeadLive /\ n >= 1
      <4>1. Stage2Fires(waits)
        BY <2>7 DEF Delivers
      <4>2. D = 1 /\ G = 1
        BY <1>2, <2>7, <4>1 DEF Gone, Bit
      <4>3. m = n /\ s1_s2_pipe # <<>> /\ n >= 1
        BY <1>2, <2>7, Delivery
      <4> QED BY <1>2, <4>2, <4>3 DEF HeadLive
    <3>2. e # Halt /\ e.to = prediction_mem[Idx(pred_ptr)].to
      BY <2>0, <2>7, FollowedExit
    <3>3. due' = <<AfterBlock(e)>>
      BY <2>0, <2>7, <3>2, DueValue DEF FlushDrops
    <3>4. PICK b \in BOOLEAN : b = AfterBlock(e).starts
      BY DEF AfterBlock
    <3>5. due' # <<>> /\ due'[1].starts = b /\ due'[1].pc = e.to
      BY <3>3, <3>4 DEF AfterBlock
    <3>6. b = (prev_half # <<>> /\ Sequential(prev_half[1]) = e.to)
      <4>1. b <=> s1_s2_pipe[1].ends /\ Sequential(s1_s2_pipe[1].pc) = e.to
        BY <1>0, <2>0, <2>7, <3>2, <3>4, HalfLeaves
      <4>2. prev_half = IF s1_s2_pipe[1].ends THEN <<s1_s2_pipe[1].pc>> ELSE <<>>
        BY <2>4, <3>1
      <4>3. b <=> (prev_half # <<>> /\ Sequential(prev_half[1]) = e.to)
        BY <4>1, <4>2
      <4> QED BY <4>3
    <3>7. CASE Stage1Fires(waits)
      <4>1. s1_s2_pipe' = <<Received(half)>> /\ S = 1
        BY <1>2, <2>5, <3>7 DEF Bit
      <4>2. HeadLive'
        BY <1>3, <1>4, <2>3, <3>1, <4>1
      <4>3. s = 1 /\ n >= 2 /\ Req(2) = fetch_requests[1]
        <5>1. s = 1 /\ r >= 1 /\ n >= 2
          BY <1>4, <3>1, <4>1
        <5>2. Ahead = s + r
          BY <1>2 DEF Ahead
        <5>3. ~(2 <= s) /\ 2 <= Ahead /\ 2 - s = 1
          BY <1>4, <5>1, <5>2
        <5> QED BY <1>2, <5>1, <5>3 DEF Req
      <4>4. 2 \in 1 .. Inflight /\ 2 > Inflight - LiveCount
        BY <1>2, <1>4, <3>1, <4>3
      <4>5. ~Stale(fetch_requests[1]) /\ fetch_requests[1].pc = EntryPc(Req(2).ptr)
        <5>1. Stale(Req(2)) <=> stalled_exception \/ 2 <= Inflight - LiveCount
          BY <2>1, <4>4, StaleMeans
        <5>2. ~(2 <= Inflight - LiveCount)
          BY <1>2, <1>4, <3>1
        <5> QED BY <2>1, <2>7, <4>3, <4>4, <5>1, <5>2, StaleMeans
      <4>6. fetch_requests[1].pc = e.to
        <5>1. Pos(Req(2).ptr) = Pos(pred_ptr) + 1
          <6>1. Pos(Req(2).ptr) = Pos(pred_ptr) + 2 - 1
            BY <2>7, <4>4, DeliveryPlaces
          <6> QED BY <6>1, PointerOrder
        <5>2. Pos(pred_ptr) + 1 < Pos(alloc_ptr)
          <6>1. n = Pos(fetch_ptr) - Pos(pred_ptr)
            BY <1>2, <3>1 DEF LiveCount
          <6> QED BY <4>3, <6>1, PointerOrder
        <5>3. Succ(pred_ptr) \in Ptr /\ Pos(Succ(pred_ptr)) = Pos(pred_ptr) + 1
          <6>1. Pos(pred_ptr) + 1 < 2 * FtqSize
            BY <5>2, PointerOrder
          <6> QED BY <6>1, PointerOrder, Positions DEF Pos
        <5>4. Req(2).ptr = Succ(pred_ptr)
          <6>1. Req(2).ptr \in Ptr
            BY <4>4, ReqType
          <6> QED BY <5>1, <5>3, <6>1, PointerOrder, PositionsUnique DEF Pos
        <5>5. EntryPc(Succ(pred_ptr)) = prediction_mem[Idx(pred_ptr)].to
          <6>1. pred_ptr \in Ptr /\ Pos(pred_ptr) <= Pos(pred_ptr)
            BY PointerOrder
          <6> QED BY <5>2, <6>1 DEF FetchInv, Linked
        <5> QED BY <3>2, <4>5, <5>4, <5>5
      <4>7. prev_half' = IF half THEN <<fetch_requests[1].pc>> ELSE <<>>
        BY <2>0, <2>7, <3>7, <4>5, CarryValue
      <4>8. /\ s1_s2_pipe'[1].ends = half /\ s1_s2_pipe'[1].pc = fetch_requests[1].pc
            /\ s1_s2_pipe'[1].starts = StartsMidInstr(fetch_requests[1])
        BY <4>1 DEF Received
      <4>9. StartsMidInstr(fetch_requests[1]) = (prev_half # <<>> /\ Sequential(prev_half[1]) = e.to)
        BY <4>6 DEF StartsMidInstr
      <4> QED BY <1>1, <3>5, <3>6, <4>2, <4>7, <4>8, <4>9
    <3>8. CASE ~Stage1Fires(waits)
      <4>1. s1_s2_pipe' = <<>>
        BY <2>5, <2>7, <3>8 DEF Delivers
      <4>2. ~HeadLive' /\ prev_half' = prev_half
        BY <1>3, <2>0, <2>7, <3>8, <4>1, CarryValue
      <4> QED BY <1>1, <3>5, <3>6, <4>2
    <3> QED BY <3>7, <3>8
  <2>8. CASE ~stalled_exception /\ ~StallFlush /\ ~Delivers(waits)
    <3>1. D = 0 /\ due' = due /\ m <= n - G /\ (m1 = n1 <=> m = n - G)
      <4>1. D = 0
        BY <1>2, <2>8 DEF Bit
      <4>2. due' = due
        BY <2>0, <2>8, DueValue DEF FlushDrops
      <4> QED BY <1>4, <2>3, <4>1, <4>2
    <3>2. CASE Stage1Fires(waits)
      <4>1. s1_s2_pipe' = <<Received(half)>> /\ S = 1
        BY <1>2, <2>5, <3>2 DEF Bit
      <4>2. PICK k : k = G + 1
        OBVIOUS
      <4>3. k \in 1 .. n /\ s = G /\ ~(k <= s) /\ k <= s + r /\ k - s = 1
        BY <1>4, <4>1, <4>2
      <4>4. Req(k) = fetch_requests[1] /\ k \in 1 .. Inflight
        <5>1. Ahead = s + r
          BY <1>2 DEF Ahead
        <5> QED BY <1>2, <4>3, <5>1 DEF Req
      <4>5. Stale(fetch_requests[1]) <=> k <= n - m
        BY <1>2, <2>1, <2>8, <4>4, StaleMeans
      <4>6. ~HeadLive
        BY <1>4, <1>6, <3>1, <4>3
      <4>7. CASE m = n - G
        <5>1. ~Stale(fetch_requests[1])
          BY <1>4, <4>2, <4>5, <4>7
        <5>2. due # <<>> /\ fetch_requests[1].pc = due[1].pc
          BY <1>2, <2>1, <2>8, <4>2, <4>4, <4>7, NextDue
        <5>3. HeadLive'
          BY <1>3, <3>1, <4>1, <4>7
        <5>4. prev_half' = IF half THEN <<fetch_requests[1].pc>> ELSE <<>>
          BY <2>0, <2>8, <3>2, <5>1, CarryValue
        <5>5. /\ s1_s2_pipe'[1].ends = half /\ s1_s2_pipe'[1].pc = fetch_requests[1].pc
              /\ s1_s2_pipe'[1].starts = StartsMidInstr(fetch_requests[1])
          BY <4>1 DEF Received
        <5>6. StartsMidInstr(fetch_requests[1]) = due[1].starts
          BY <2>4, <4>6, <5>2 DEF StartsMidInstr
        <5> QED BY <1>1, <3>1, <5>2, <5>3, <5>4, <5>5, <5>6
      <4>8. CASE m # n - G
        <5>1. Stale(fetch_requests[1])
          BY <1>4, <3>1, <4>2, <4>5, <4>8
        <5>2. ~HeadLive' /\ prev_half' = prev_half
          BY <1>3, <2>0, <2>8, <3>1, <4>8, <5>1, CarryValue
        <5> QED BY <1>1, <2>4, <3>1, <4>6, <5>2
      <4> QED BY <4>7, <4>8
    <3>3. CASE ~Stage1Fires(waits) /\ Stage2Fires(waits)
      <4>1. s1_s2_pipe' = <<>> /\ G = 1
        BY <1>2, <2>5, <3>3 DEF Gone, Bit
      <4>2. ~HeadLive' /\ prev_half' = prev_half
        BY <1>3, <2>0, <2>8, <3>3, <4>1, CarryValue
      <4>3. ~HeadLive
        BY <1>4, <1>6, <3>1, <4>1
      <4> QED BY <1>1, <2>4, <3>1, <4>2, <4>3
    <3>4. CASE ~Stage1Fires(waits) /\ ~Stage2Fires(waits)
      <4>1. s1_s2_pipe' = s1_s2_pipe /\ G = 0
        BY <1>2, <2>5, <3>4 DEF Gone, Bit
      <4>2. prev_half' = prev_half
        BY <2>0, <2>8, <3>4, CarryValue
      <4>3. HeadLive' <=> HeadLive
        <5>1. m1 = n1 <=> m = n
          BY <1>4, <3>1, <4>1
        <5> QED BY <1>2, <1>3, <4>1, <5>1 DEF HeadLive
      <4> QED BY <1>1, <2>4, <3>1, <4>1, <4>2, <4>3
    <3> QED BY <3>2, <3>3, <3>4
  <2> QED BY <2>6, <2>7, <2>8
<1> QED BY <1>7, <1>8

\* The records of the blocks in the hands of the backend stay.
LEMMA RecordsStep ==
    ASSUME FetchInv, NEW waits, NEW pr, NEW half, NEW e, NEW other, NEW rd, NEW keep,
           Step(waits, pr, half, e, other, rd, keep)
    PROVE  RecordsMatch'
<1>1. PICK q, a, T, q1, a1, l, l1, t1 :
         /\ q = Pos(pred_ptr) /\ a = Pos(alloc_ptr) /\ T = Trained /\ l = Len(path) /\ l1 = Len(path')
         /\ q1 = Distance(train_ptr', pred_ptr') /\ a1 = Distance(train_ptr', alloc_ptr')
         /\ t1 = train_ptr'
  OBVIOUS
<1>2. path' \in Seq(Delivered) /\ path \in Seq(Delivered) /\ PathMoves(waits, e, rd)
  BY PathStep, PointerOrder
<1>3. /\ q \in Nat /\ a \in Nat /\ T \in Nat /\ l \in Nat /\ l1 \in Nat /\ q1 \in Nat /\ a1 \in Nat
      /\ l <= q /\ q <= a /\ l1 <= q1 /\ q1 <= a1 /\ a1 <= FtqSize /\ FtqSize \in Nat
      /\ train_ptr \in Ptr /\ t1 \in Ptr /\ a <= FtqSize
  <2>1. l1 <= q1
    BY <1>1, OrderStep DEF PathOrdered, Pos
  <2>2. /\ q \in Nat /\ a \in Nat /\ l \in Nat /\ l <= q /\ q <= a /\ FtqSize \in Nat /\ train_ptr \in Ptr
        /\ a <= FtqSize
    BY <1>1, PointerOrder
  <2>3. T \in Nat /\ q1 \in Nat /\ a1 \in Nat /\ q1 <= a1 /\ a1 + T <= FtqSize /\ t1 \in Ptr
    BY <1>1, <2>2, AllocBound, TrainStep
  <2>4. l1 \in Nat
    BY <1>1, <1>2
  <2> QED BY <2>1, <2>2, <2>3, <2>4
<1>4. ASSUME NEW i \in 1 .. l1
      PROVE  LET idx == Idx(t1 + i - 1)
             IN prediction_mem'[idx].at = path'[i].pc /\ jb_unit_prediction_mem'[idx] = path'[i].jb
  <2>0. PICK x \in Nat : x = i - 1 /\ x < FtqSize /\ x < q1 /\ x < a1
    BY <1>3
  <2>1. PICK p \in Ptr : Distance(t1, p) = x /\ Idx(p) = Idx(t1 + x)
    BY <1>3, <2>0, PositionTaken
  <2>2. t1 + i - 1 = t1 + x
    <3>1. t1 \in Nat
      BY <1>3, Pointers
    <3> QED BY <2>0, <3>1
  <2>3. /\ Pos(p) \in Nat /\ T <= Pos(p) /\ x = Pos(p) - T
    BY <1>1, <2>0, <2>1, PositionBefore
  <2>4. PICK j \in Nat : j = i + T /\ Pos(p) = j - 1 /\ j >= 1
    BY <1>3, <2>0, <2>3
  <2>5. EntryAfter(waits, pr, e, p) /\ Pos(p) - Trained < Distance(train_ptr', pred_ptr')
    BY <1>1, <2>0, <2>3, EntriesStep
  <2>6. /\ prediction_mem'[Idx(p)].at =
             IF PredictFires /\ s1_pipe[1].ptr = p THEN s1_pipe[1].pc ELSE prediction_mem[Idx(p)].at
        /\ jb_unit_prediction_mem'[Idx(p)] =
             IF Delivers(waits) /\ p = pred_ptr THEN e ELSE jb_unit_prediction_mem[Idx(p)]
    BY <2>5 DEF EntryAfter
  <2>7. PredictFires => s1_pipe # <<>>
    BY DEF PredictFires
  <2>8. IF j <= l THEN path'[i] = path[j]
        ELSE /\ rd = <<>> /\ Delivers(waits) /\ j = l + 1
             /\ path'[i] = [pc |-> s1_s2_pipe[1].pc, jb |-> e]
    BY <1>1, <1>2, <2>4 DEF PathMoves
  <2>9. CASE j <= l
    <3>1. path'[i] = path[j] /\ j \in DOMAIN path
      <4>1. j \in 1 .. Len(path)
        BY <1>1, <1>3, <2>4, <2>9
      <4>2. DOMAIN path = 1 .. Len(path)
        BY <1>2
      <4> QED BY <2>8, <2>9, <4>1, <4>2
    <3>2. PICK y \in Nat : y = j - 1 /\ y < FtqSize
      BY <1>3, <2>4, <2>9
    <3>3. PICK o \in Ptr : Pos(o) = y /\ Idx(o) = Idx(train_ptr + y)
      BY <1>3, <3>2, PositionTaken DEF Pos
    <3>4. o = p
      BY <1>3, <2>4, <3>2, <3>3, PositionsUnique DEF Pos
    <3>5. train_ptr + j - 1 = train_ptr + y
      <4>1. train_ptr \in Nat
        BY <1>3, Pointers
      <4> QED BY <2>4, <3>2, <4>1
    <3>6. prediction_mem[Idx(p)].at = path[j].pc /\ jb_unit_prediction_mem[Idx(p)] = path[j].jb
      BY <3>1, <3>3, <3>4, <3>5 DEF FetchInv, RecordsMatch
    <3>7. s1_pipe # <<>> => s1_pipe[1].ptr # p
      <4>1. SUFFICES ASSUME s1_pipe # <<>> PROVE s1_pipe[1].ptr # p
        OBVIOUS
      <4>2. Pos(s1_pipe[1].ptr) \in Nat /\ Pos(s1_pipe[1].ptr) + 1 = a /\ pred_ptr # alloc_ptr
        BY <1>1, <4>1, Predicting
      <4>3. q # a
        BY <1>1, <4>2, PointerOrder, PositionsUnique DEF Pos
      <4>4. Pos(p) # Pos(s1_pipe[1].ptr)
        BY <1>3, <2>3, <2>4, <2>9, <4>2, <4>3
      <4> QED BY <4>4
    <3>8. p # pred_ptr
      BY <1>1, <1>3, <2>4, <2>9
    <3> QED BY <2>1, <2>2, <2>6, <2>7, <3>1, <3>6, <3>7, <3>8
  <2>10. CASE ~(j <= l)
    <3>1. Delivers(waits) /\ j = l + 1 /\ path'[i] = [pc |-> s1_s2_pipe[1].pc, jb |-> e]
      BY <2>8, <2>10
    <3>2. /\ s1_s2_pipe[1].pc = EntryPc(pred_ptr) /\ Intact
          /\ s1_pipe # <<>> => s1_pipe[1].ptr # pred_ptr
      BY <3>1, Delivery
    <3>3. l = q
      BY <1>1, <3>2 DEF FetchInv, PathOrdered
    <3>4. p = pred_ptr
      <4>1. Pos(p) = Pos(pred_ptr)
        BY <1>1, <1>3, <2>4, <3>1, <3>3
      <4> QED BY <4>1, PointerOrder, PositionsUnique DEF Pos
    <3>5. prediction_mem[Idx(p)].at = s1_s2_pipe[1].pc
      BY <3>2, <3>4 DEF EntryPc
    <3> QED BY <2>1, <2>2, <2>6, <2>7, <3>1, <3>2, <3>4, <3>5
  <2> QED BY <2>9, <2>10
<1>5. DOMAIN path' = 1 .. l1
  BY <1>1, <1>2
<1> QED BY <1>1, <1>4, <1>5 DEF RecordsMatch

LEMMA TypesStep ==
    ASSUME FetchInv, NEW waits, NEW pr, NEW half, NEW e, NEW other, NEW rd, NEW keep,
           Step(waits, pr, half, e, other, rd, keep)
    PROVE  Types'
<1>1. {alloc_ptr', fetch_ptr', commit_ptr', pred_ptr', train_ptr'} \subseteq Ptr
  BY PointersStep, TrainStep
<1>2. entry_gen' \in [0 .. FtqSize - 1 -> 0 .. Gens - 1]
  BY GenerationsStep
<1>3. /\ pc_mem' \in [0 .. FtqSize - 1 -> Block \cup {Blocks}]
      /\ prediction_mem' \in [0 .. FtqSize - 1 -> Prediction]
      /\ jb_unit_prediction_mem' \in [0 .. FtqSize - 1 -> AnyExit]
  BY MemoriesTypes
<1>4. ASSUME NEW S PROVE <<>> \in AtMostOne(S) /\ \A x \in S : <<x>> \in AtMostOne(S)
  BY DEF AtMostOne
<1>5. /\ next_fetch_addr \in AtMostOne(Block) /\ prev_half \in AtMostOne(Block)
      /\ due \in AtMostOne([ptr : Ptr, pc : Block, starts : BOOLEAN])
      /\ fetch_requests \in Seq(Request) /\ path \in Seq(Delivered)
      /\ exception_valid \in BOOLEAN
  BY DEF FetchInv, Types, TypeOK
<1>6. rd # <<>> => rd[1].pc \in Block /\ rd[1].ptr \in Ptr
  BY PointersStep DEF RedirectBackend
<1>7. Delivers(waits) /\ e # Halt => e.to \in Block
  <2>1. SUFFICES ASSUME Delivers(waits), e # Halt PROVE e.to \in Block
    OBVIOUS
  <2>2. s1_s2_pipe[1].pc \in Block
    BY <2>1, Delivery, HeadType
  <2>3. e \in Predictions(s1_s2_pipe[1].pc) \cup {Halt}
    BY <2>1 DEF Step, Inputs
  <2> QED BY <2>1, <2>2, <2>3, Exits
<1>8. next_fetch_addr' \in AtMostOne(Block)
  <2>1. CASE rd # <<>>
    BY <1>4, <1>6, <2>1, AddressSteered
  <2>2. CASE rd = <<>> /\ Turns(waits, e, other)
    BY <1>4, <1>7, <2>2, AddressSteered, TurnsHere
  <2>3. CASE rd = <<>> /\ ~Turns(waits, e, other)
    <3>1. next_fetch_addr' = IF AllocFires THEN <<>> ELSE IF PredictFires THEN <<pr.to>> ELSE next_fetch_addr
      BY <2>3, PredictorStep DEF MovesOn
    <3>2. PredictFires => pr.to \in Block
      BY PredictionType
    <3> QED BY <1>4, <1>5, <3>1, <3>2
  <2> QED BY <2>1, <2>2, <2>3
<1>9. s1_pipe' \in AtMostOne([ptr : Ptr, pc : Block])
  <2>1. CASE ~MovesOn(waits, e, other, rd)
    BY <1>4, <2>1, SteeredStep
  <2>2. CASE MovesOn(waits, e, other, rd)
    <3>1. s1_pipe' = IF AllocFires THEN <<[ptr |-> alloc_ptr, pc |-> AllocPc(pr)]>> ELSE <<>>
      BY <2>2, PredictorStep
    <3>2. AllocFires => [ptr |-> alloc_ptr, pc |-> AllocPc(pr)] \in [ptr : Ptr, pc : Block]
      BY AllocPcType, PointerOrder
    <3> QED BY <1>4, <3>1, <3>2
  <2> QED BY <2>1, <2>2
<1>10. prev_half' \in AtMostOne(Block)
  <2>1. Turns(waits, e, other) => s1_s2_pipe[1].pc \in Block
    BY TurnsHere, Delivery, HeadType
  <2>2. Stage1Fires(waits) => fetch_requests[1].pc \in Block
    <3>1. Stage1Fires(waits) => fetch_requests # <<>>
      BY DEF Stage1Fires
    <3>2. fetch_requests # <<>> => fetch_requests[1] \in Request
      BY <1>5
    <3> QED BY <3>1, <3>2 DEF Request
  <2> QED BY <1>4, <1>5, <2>1, <2>2, CarryValue
<1>11. due' \in AtMostOne([ptr : Ptr, pc : Block, starts : BOOLEAN])
  <2> DEFINE R == [ptr : Ptr, pc : Block, starts : BOOLEAN]
  <2>1. rd # <<>> => [ptr |-> Succ(rd[1].ptr), pc |-> rd[1].pc, starts |-> FALSE] \in R
    BY <1>6, PointerOrder, Positions
  <2>2. Delivers(waits) /\ e # Halt => AfterBlock(e) \in R
    <3>1. SUFFICES ASSUME Delivers(waits), e # Halt PROVE AfterBlock(e) \in R
      OBVIOUS
    <3>2. e.to \in Block
      BY <1>7, <3>1
    <3>3. Succ(s1_s2_pipe[1].ptr) \in Ptr
      BY <3>1, Delivery, PointerOrder, Positions
    <3>4. (s1_s2_pipe[1].ends /\ e = FallThrough(s1_s2_pipe[1].pc)) \in BOOLEAN
      OBVIOUS
    <3> QED BY <3>2, <3>3, <3>4 DEF AfterBlock
  <2>3. due \in AtMostOne(R)
    BY <1>5
  <2> HIDE DEF R
  <2>4. due' \in AtMostOne(R)
    <3>1. CASE rd # <<>>
      <4>1. PICK w : w = [ptr |-> Succ(rd[1].ptr), pc |-> rd[1].pc, starts |-> FALSE]
        OBVIOUS
      <4>2. due' = <<w>> /\ w \in R
        BY <2>1, <3>1, <4>1, DueValue
      <4> QED BY <1>4, <4>2
    <3>2. CASE rd = <<>> /\ ~FlushDrops(waits) /\ Delivers(waits) /\ e # Halt
      <4>1. due' = <<AfterBlock(e)>> /\ AfterBlock(e) \in R
        BY <2>2, <3>2, DueValue
      <4> QED BY <1>4, <4>1
    <3>3. CASE rd = <<>> /\ (FlushDrops(waits) \/ ~Delivers(waits) \/ e = Halt)
      <4>1. due' = <<>> \/ due' = due
        BY <3>3, DueValue
      <4> QED BY <1>4, <2>3, <4>1
    <3> QED BY <3>1, <3>2, <3>3
  <2> QED BY <2>4 DEF R
<1>12. {req_valid', ras_resp', stalled_exception', exception_valid', rolled_back'} \subseteq BOOLEAN
  <2>1. req_valid' \in BOOLEAN
    BY DEF Step, FetchCycle, PredictorCycle
  <2>2. ras_resp' \in BOOLEAN /\ stalled_exception' \in BOOLEAN
    <3>1. ras_resp' = (rd # <<>>) /\ stalled_exception' = exception_valid
      BY DEF Step, FetchCycle
    <3> QED BY <1>5, <3>1
  <2>3. exception_valid' \in BOOLEAN /\ rolled_back' \in BOOLEAN
    BY DEF Step, Backend
  <2> QED BY <2>1, <2>2, <2>3
<1>13. /\ ftq_ptr_pipe' \in AtMostOne(Request)
       /\ fetch_requests' \in Seq(Request) /\ Len(fetch_requests') <= 2
       /\ s1_s2_pipe' \in AtMostOne([ptr : Ptr, gen : 0 .. Gens - 1, pc : Block,
                                     starts : BOOLEAN, ends : BOOLEAN])
  BY PipeTypesStep
<1>14. \A i \in DOMAIN fetch_requests' : fetch_requests'[i] \in Request
  BY <1>13
<1>15. path' \in Seq(Delivered)
  BY PathStep
<1>16. TypeOK'
  BY <1>1, <1>2, <1>3, <1>8, <1>9, <1>10, <1>12, <1>13, <1>14 DEF TypeOK
<1> QED BY <1>3, <1>11, <1>13, <1>15, <1>16 DEF Types

-----------------------------------------------------------------------------
(***************************************************************************)
(* The invariant is inductive.                                             *)
(***************************************************************************)
LEMMA FetchInitially ==
    ASSUME Init PROVE FetchInv
<1>1. /\ FtqSize \in Nat /\ FtqSize > 1 /\ Blocks \in Nat /\ Blocks > 0 /\ Gens \in Nat /\ Gens > 0
  BY SizesAssumption, InflightAssumption
<1>2. 0 \in Ptr /\ 0 \in Block /\ 0 \in 0 .. Gens - 1
  BY <1>1 DEF Ptr, Block
<1>3. \A p \in Ptr : Distance(0, p) = p /\ p \in Nat
  BY <1>2, Pointers
<1>4. Distance(0, 0) = 0
  BY <1>2, <1>3
<1>5. Types
  <2>1. Halt \in AnyExit
    <3>1. Halt = [cfi |-> FALSE, to |-> Blocks]
      BY DEF Halt
    <3>2. Halt \in [cfi : {FALSE}, to : Block \cup {Blocks}]
      BY <3>1
    <3> QED BY <3>2 DEF AnyExit
  <2>2. Unused \in Prediction
    BY DEF Unused, Prediction
  <2>3. /\ entry_gen \in [0 .. FtqSize - 1 -> 0 .. Gens - 1]
        /\ pc_mem \in [0 .. FtqSize - 1 -> Block \cup {Blocks}]
        /\ jb_unit_prediction_mem \in [0 .. FtqSize - 1 -> AnyExit]
        /\ prediction_mem \in [0 .. FtqSize - 1 -> Prediction]
    BY <1>2, <2>1, <2>2 DEF Init
  <2>4. {alloc_ptr, fetch_ptr, commit_ptr, pred_ptr, train_ptr} \subseteq Ptr
    BY <1>2 DEF Init
  <2>5. /\ next_fetch_addr \in AtMostOne(Block) /\ s1_pipe \in AtMostOne([ptr : Ptr, pc : Block])
        /\ ftq_ptr_pipe \in AtMostOne(Request)
        /\ s1_s2_pipe \in AtMostOne([ptr : Ptr, gen : 0 .. Gens - 1, pc : Block,
                                      starts : BOOLEAN, ends : BOOLEAN])
        /\ prev_half \in AtMostOne(Block)
    BY <1>2 DEF Init, AtMostOne
  <2>6. fetch_requests \in Seq(Request) /\ Len(fetch_requests) <= 2
        /\ \A i \in DOMAIN fetch_requests : fetch_requests[i] \in Request
    BY DEF Init
  <2>7. {req_valid, ras_resp, stalled_exception, exception_valid, rolled_back} \subseteq BOOLEAN
    BY DEF Init
  <2>8. path \in Seq(Delivered)
    BY DEF Init
  <2>9. due \in AtMostOne([ptr : Ptr, pc : Block, starts : BOOLEAN])
    BY <1>2 DEF Init, AtMostOne
  <2> QED BY <2>3, <2>4, <2>5, <2>6, <2>7, <2>8, <2>9 DEF Types, TypeOK
<1>6. PointersOrdered
  BY <1>1, <1>4 DEF Init, PointersOrdered
<1>7. PathOrdered /\ Stalls
  <2>1. Len(path) = 0 /\ path = <<>> /\ Pos(pred_ptr) = 0
    BY <1>4 DEF Init, Pos
  <2>2. PathOrdered
    BY <2>1 DEF PathOrdered
  <2>3. Stalls
    BY DEF Stalls, Init
  <2> QED BY <2>2, <2>3
<1>8. RequestsPlaced /\ RequestsLive
  <2>1. Inflight = 0 /\ LiveCount = 0
    <3>1. Len(ftq_ptr_pipe) = 0 /\ Len(fetch_requests) = 0 /\ Len(s1_s2_pipe) = 0
      BY DEF Init
    <3>2. Pos(fetch_ptr) = 0 /\ Pos(pred_ptr) = 0
      BY <1>4 DEF Init, Pos
    <3> QED BY <3>1, <3>2 DEF Inflight, LiveCount
  <2>2. 1 .. Inflight = {}
    BY <2>1
  <2> QED BY <2>1, <2>2 DEF RequestsPlaced, RequestsLive
<1>9. Linked
  <2>1. Pos(pred_ptr) = 0 /\ Pos(fetch_ptr) = 0 /\ Pos(alloc_ptr) = 0
    BY <1>4 DEF Init, Pos
  <2>2. ASSUME NEW p \in Ptr PROVE ~(Pos(p) + 1 < Pos(alloc_ptr)) /\ ~(Pos(p) < Pos(alloc_ptr))
    <3>1. Pos(p) \in Nat
      BY <1>3 DEF Init, Pos
    <3> QED BY <2>1, <3>1
  <2> QED BY <2>2 DEF Linked
<1>10. Continues /\ DueNext
  <2>1. due[1] = [ptr |-> 0, pc |-> 0, starts |-> FALSE]
    BY DEF Init
  <2>2. due # <<>> /\ due[1].ptr = 0 /\ due[1].pc = 0
    BY <2>1 DEF Init
  <2>3. DueNext
    BY <2>2 DEF Init, DueNext
  <2>4. Continues
    BY DEF Init, Continues
  <2> QED BY <2>3, <2>4
<1>11. HalfCarried
  <2>1. due[1] = [ptr |-> 0, pc |-> 0, starts |-> FALSE]
    BY DEF Init
  <2>2. due[1].starts = FALSE /\ prev_half = <<>> /\ ~HeadLive
    BY <2>1 DEF Init, HeadLive
  <2> QED BY <2>2 DEF HalfCarried
<1>12. RecordsMatch
  <2>1. DOMAIN path = {}
    BY DEF Init
  <2> QED BY <2>1 DEF RecordsMatch
<1> QED BY <1>5, <1>6, <1>7, <1>8, <1>9, <1>10, <1>11, <1>12 DEF FetchInv

LEMMA FetchInductive ==
    ASSUME FetchInv, [Next]_vars PROVE FetchInv'
<1>1. CASE Next
  <2>1. PICK waits, pr, half, e, other, rd, keep : Step(waits, pr, half, e, other, rd, keep)
    BY <1>1, NextIsStep
  <2>2. Types' /\ RecordsMatch' /\ PointersOrdered' /\ PathOrdered' /\ Stalls'
    BY <2>1, TypesStep, RecordsStep, OrderStep, StallsStep
  <2>3. RequestsPlaced' /\ RequestsLive' /\ Linked' /\ Continues' /\ DueNext' /\ HalfCarried'
    BY <2>1, PlacedStep, LiveStep, LinkedStep, ContinuesStep, DueStep, HalfStep
  <2> QED BY <2>2, <2>3 DEF FetchInv
<1>2. CASE UNCHANGED vars
  <2>1. UNCHANGED <<alloc_ptr, fetch_ptr, commit_ptr, pred_ptr, train_ptr, entry_gen, pc_mem,
                    prediction_mem, jb_unit_prediction_mem, next_fetch_addr, s1_pipe, req_valid,
                    ftq_ptr_pipe, fetch_requests, s1_s2_pipe, prev_half, ras_resp,
                    stalled_exception, exception_valid, rolled_back, path, due>>
    BY <1>2 DEF vars, ptrVars, memVars, pipeVars, stallVars
  <2>2. Types'
    BY <2>1 DEF FetchInv, Types, TypeOK
  <2>3. PointersOrdered' /\ PathOrdered' /\ Stalls' /\ RecordsMatch' /\ DueNext' /\ HalfCarried'
    BY <2>1 DEF FetchInv, PointersOrdered, PathOrdered, Stalls, Intact, Pos, RecordsMatch, DueNext,
                HalfCarried, EntryPc, HeadLive, LiveCount, Inflight
  <2>4. RequestsPlaced' /\ RequestsLive' /\ Linked' /\ Continues'
    BY <2>1 DEF FetchInv, RequestsPlaced, RequestsLive, Linked, Continues, Intact, Pos, EntryPc,
                LiveCount, Inflight, Age, Req, Ahead
  <2> QED BY <2>2, <2>3, <2>4 DEF FetchInv
<1> QED BY <1>1, <1>2

-----------------------------------------------------------------------------
(***************************************************************************)
(* What the invariant says about the properties of FetchTargetQueue.       *)
(***************************************************************************)
LEMMA FetchImplies ==
    ASSUME FetchInv
    PROVE  /\ ~JumpsOverHalf => StreamContiguous
           /\ PredictionsInOrder /\ RecordsKept /\ RasRecovered /\ FetchAlive
<1>1. ASSUME NEW i \in DOMAIN s1_s2_pipe
      PROVE  i = 1 /\ (~Stale(s1_s2_pipe[i]) => Delivers({}))
  <2>1. s1_s2_pipe # <<>>
    BY <1>1
  <2>2. PICK x : s1_s2_pipe = <<x>>
    BY <2>1 DEF FetchInv, Types, TypeOK, AtMostOne
  <2>3. i = 1
    BY <1>1, <2>2
  <2> QED BY <2>1, <2>3 DEF Delivers, Stage2Fires
<1>2. ASSUME ~JumpsOverHalf PROVE StreamContiguous
  <2>1. ASSUME NEW i \in DOMAIN s1_s2_pipe, ~Stale(s1_s2_pipe[i])
        PROVE  due = <<[ptr |-> s1_s2_pipe[i].ptr, pc |-> s1_s2_pipe[i].pc,
                        starts |-> s1_s2_pipe[i].starts]>>
    <3>1. i = 1 /\ Delivers({})
      BY <1>1, <2>1
    <3>2. PICK d : d = s1_s2_pipe[1]
      OBVIOUS
    <3>3. /\ d.ptr = pred_ptr /\ due # <<>> /\ due[1].ptr = pred_ptr /\ due[1].pc = d.pc
          /\ due[1].starts = d.starts
      BY <1>2, <3>1, <3>2, Delivery
    <3>4. PICK y \in [ptr : Ptr, pc : Block, starts : BOOLEAN] : due = <<y>>
      BY <3>3 DEF FetchInv, Types, AtMostOne
    <3>5. y = [ptr |-> y.ptr, pc |-> y.pc, starts |-> y.starts]
      OBVIOUS
    <3>6. y.ptr = d.ptr /\ y.pc = d.pc /\ y.starts = d.starts
      BY <3>3, <3>4
    <3> QED BY <3>1, <3>2, <3>4, <3>5, <3>6
  <2> QED BY <2>1 DEF StreamContiguous
<1>3. PredictionsInOrder
  <2>1. ASSUME NEW i \in DOMAIN s1_s2_pipe, ~Stale(s1_s2_pipe[i])
        PROVE  s1_s2_pipe[i].ptr = pred_ptr /\ prediction_mem[Idx(pred_ptr)].at = s1_s2_pipe[i].pc
    <3>1. i = 1 /\ Delivers({})
      BY <1>1, <2>1
    <3>2. /\ s1_s2_pipe[1].ptr = pred_ptr /\ s1_s2_pipe[1].pc = EntryPc(pred_ptr)
          /\ s1_pipe # <<>> => s1_pipe[1].ptr # pred_ptr
      BY <3>1, Delivery
    <3> QED BY <3>1, <3>2 DEF EntryPc
  <2> QED BY <2>1 DEF PredictionsInOrder
<1>4. RecordsKept
  BY DEF FetchInv, Types, RecordsMatch, RecordsKept
<1>5. RasRecovered
  <2>1. ASSUME ras_resp, NEW i \in DOMAIN s1_s2_pipe PROVE Stale(s1_s2_pipe[i])
    <3>1. pred_ptr = alloc_ptr
      BY <2>1 DEF FetchInv, Stalls
    <3>2. ~Delivers({})
      BY <3>1, Delivery
    <3> QED BY <1>1, <3>2
  <2> QED BY <2>1 DEF RasRecovered
<1>6. FetchAlive
  <2>1. ASSUME next_fetch_addr = <<>>, ~PredictFires, due # <<>> PROVE FALSE
    <3>1. s1_pipe = <<>>
      BY <2>1, Predicting
    <3>2. CASE pred_ptr = alloc_ptr
      <4>1. next_fetch_addr = <<due[1].pc>>
        BY <2>1, <3>2 DEF FetchInv, DueNext
      <4> QED BY <2>1, <4>1
    <3>3. CASE pred_ptr # alloc_ptr
      <4>1. PICK p \in Ptr : Succ(p) = alloc_ptr
        <5>1. PICK p : p = IF alloc_ptr = 0 THEN 2 * FtqSize - 1 ELSE alloc_ptr - 1
          OBVIOUS
        <5>2. alloc_ptr \in Nat /\ alloc_ptr < 2 * FtqSize /\ FtqSize \in Nat /\ FtqSize > 1
          BY PointerOrder, Pointers
        <5>3. p \in Ptr
          BY <5>1, <5>2 DEF Ptr
        <5>4. Succ(p) = alloc_ptr
          BY <5>1, <5>2, <5>3, Pointers
        <5> QED BY <5>3, <5>4
      <4>2. next_fetch_addr = <<prediction_mem[Idx(p)].to>>
        BY <3>1, <3>3, <4>1 DEF FetchInv, Continues
      <4> QED BY <2>1, <4>2
    <3> QED BY <3>2, <3>3
  <2> QED BY <2>1 DEF FetchAlive
<1> QED BY <1>2, <1>3, <1>4, <1>5, <1>6

-----------------------------------------------------------------------------
(***************************************************************************)
(* Every reachable state satisfies the invariant: from one cycle to the    *)
(* next the requests in the fetch unit, the entries of the queue, the      *)
(* address unit and the carried half stay those of one path of blocks.     *)
(***************************************************************************)
THEOREM FetchInvariant ==
    Spec => []FetchInv
<1>1. Init => FetchInv
  BY FetchInitially
<1>2. FetchInv /\ [Next]_vars => FetchInv'
  BY FetchInductive
<1> QED BY <1>1, <1>2, PTL DEF Spec

(***************************************************************************)
(* The stream of blocks is contiguous: what FetchTargetQueue.check_stale   *)
(* lets through is the block its predecessor led to or the backend asked   *)
(* for, with the half instruction its predecessor ended with.  It holds    *)
(* for every size of the queue as long as the fetch unit does not follow   *)
(* a jump over half an instruction; run fetch_half_jump shows what happens *)
(* when it does.                                                           *)
(***************************************************************************)
THEOREM StreamIsContiguous ==
    ~JumpsOverHalf => (Spec => []StreamContiguous)
<1>1. SUFFICES ASSUME ~JumpsOverHalf PROVE Spec => []StreamContiguous
  OBVIOUS
<1>2. Spec => []FetchInv
  BY FetchInvariant
<1>3. FetchInv => StreamContiguous
  BY <1>1, FetchImplies
<1> QED BY <1>2, <1>3, PTL

(***************************************************************************)
(* The assertion "predictions read out of FTQ order" of ftq.py never fails,*)
(* and the prediction that is read was made for the block it is used for.  *)
(***************************************************************************)
THEOREM PredictionsStayInOrder ==
    Spec => []PredictionsInOrder
<1>1. Spec => []FetchInv
  BY FetchInvariant
<1>2. FetchInv => PredictionsInOrder
  BY FetchImplies
<1> QED BY <1>1, <1>2, PTL

(***************************************************************************)
(* The pointers of the queue stay in order, and no record that training or *)
(* the jump unit will read is overwritten.                                 *)
(***************************************************************************)
THEOREM RecordsAreKept ==
    Spec => []RecordsKept
<1>1. Spec => []FetchInv
  BY FetchInvariant
<1>2. FetchInv => RecordsKept
  BY FetchImplies
<1> QED BY <1>1, <1>2, PTL

(***************************************************************************)
(* The assertion "RAS prediction before checkpoint recovery completed" of  *)
(* ftq.py never fails.                                                     *)
(***************************************************************************)
THEOREM RasIsRecovered ==
    Spec => []RasRecovered
<1>1. Spec => []FetchInv
  BY FetchInvariant
<1>2. FetchInv => RasRecovered
  BY FetchImplies
<1> QED BY <1>1, <1>2, PTL

(***************************************************************************)
(* Fetch has an address or a prediction to go on with whenever the backend *)
(* is owed a block.                                                        *)
(***************************************************************************)
THEOREM FetchStaysAlive ==
    Spec => []FetchAlive
<1>1. Spec => []FetchInv
  BY FetchInvariant
<1>2. FetchInv => FetchAlive
  BY FetchImplies
<1> QED BY <1>1, <1>2, PTL
=============================================================================
