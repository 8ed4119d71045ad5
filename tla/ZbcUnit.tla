------------------------------ MODULE ZbcUnit -------------------------------
(***************************************************************************)
(* Carry-less multiplication (fu/zbc.py): ClMultiplier splits its operands *)
(* Depth times and runs one shift-and-xor machine per pair of pieces; the  *)
(* unit waits until none of them is busy.  The machines run on without     *)
(* knowing of the unit: only the one-entry params_fifo keeps a second      *)
(* instruction from resetting them under a result that was not yet taken.  *)
(***************************************************************************)
EXTENDS Integers, Sequences, FiniteSets, Bitwise

CONSTANTS
    XLen,           \* isa.xlen, a power of two
    Depth,          \* recursion_depth
    Words,          \* bound: register values
    RobIds          \* bound: rob_id values

\* What the parameters must satisfy.
ZbcAssumption ==
    /\ XLen \in Nat /\ Depth \in Nat /\ \E w \in 1..XLen : w * 2^Depth = XLen
    /\ Words \subseteq 0..(2^XLen - 1)

VARIABLES
    v1, v2, partial,    \* per leaf: shifted factors and result
    leafBusy,           \* per leaf: busy
    params,             \* params_fifo
    pending,            \* issued and not yet answered
    pushed              \* what push_result carried in the last cycle

clmul == <<v1, v2, partial, leafBusy>>
vars == <<clmul, params, pending, pushed>>

Fns == {"CLMUL", "CLMULH", "CLMULR"}
Jobs == [fn : Fns, i1 : Words, i2 : Words, rob_id : RobIds]
NoResult == [rob_id |-> "none", result |-> 0]

LeafWidth == XLen \div 2^Depth
Leaves == (0..(2^Depth - 1)) \X (0..(2^Depth - 1))
Chunk(x, c) == (x \div 2^(c * LeafWidth)) % 2^LeafWidth
Bit(x, i) == (x \div 2^i) % 2
\* x[::-1]
RECURSIVE ReversedFrom(_, _)
ReversedFrom(x, i) == IF i = XLen THEN 0 ELSE Bit(x, i) * 2^(XLen - 1 - i) + ReversedFrom(x, i + 1)
Reversed(x) == ReversedFrom(x, 0)

Init ==
    /\ v1 = [l \in Leaves |-> 0] /\ v2 = v1 /\ partial = v1
    /\ leafBusy = [l \in Leaves |-> FALSE]
    /\ params = <<>> /\ pending = <<>> /\ pushed = NoResult

-----------------------------------------------------------------------------
(***************************************************************************)
(* ClMultiplier.                                                           *)
(***************************************************************************)
\* reset: every leaf takes its piece of the factors.
Reset(i1, i2) ==
    /\ v1' = [l \in Leaves |-> Chunk(i1, l[1])]
    /\ v2' = [l \in Leaves |-> Chunk(i2, l[2])]
    /\ partial' = [l \in Leaves |-> 0]
    /\ leafBusy' = [l \in Leaves |-> TRUE]

BusyAfter(l) == v2[l] # 0

\* A cycle without reset: each leaf whose v2 is not zero adds and shifts.
Iterate ==
    /\ partial' = [l \in Leaves |-> IF v2[l] % 2 = 1 THEN partial[l] ^^ v1[l] ELSE partial[l]]
    /\ v1' = [l \in Leaves |-> IF v2[l] # 0 THEN (2 * v1[l]) % 2^(2 * LeafWidth) ELSE v1[l]]
    /\ v2' = [l \in Leaves |-> v2[l] \div 2]
    /\ leafBusy' = [l \in Leaves |-> BusyAfter(l)]

Busy == \E l \in Leaves : leafBusy[l]

RECURSIVE ResultOf(_, _, _)
ResultOf(n, a, b) ==
    IF n = LeafWidth THEN partial[<<a, b>>]
    ELSE LET h == n \div 2
             part(x, y) == ResultOf(h, (2 * a) + x, (2 * b) + y)
         IN (((part(1, 1) * 2^n) ^^ (part(0, 1) * 2^h)) ^^ (part(1, 0) * 2^h)) ^^ part(0, 0)
Output == ResultOf(XLen, 0, 0)

-----------------------------------------------------------------------------
(***************************************************************************)
(* ZbcUnit.                                                                *)
(***************************************************************************)
ParamsDepth == 1

IssueDecoded(j) ==
    /\ Len(params) < ParamsDepth
    /\ LET rev == j.fn = "CLMULR"
       IN  /\ params' = Append(params, [rob_id |-> j.rob_id, high_res |-> j.fn = "CLMULH",
                                        rev_res |-> rev])
           /\ Reset(IF rev THEN Reversed(j.i1) ELSE j.i1, IF rev THEN Reversed(j.i2) ELSE j.i2)
    /\ pending' = Append(pending, j) /\ pushed' = NoResult

PushResult ==
    LET p == Head(params)
        result == IF p.high_res THEN Output \div 2^XLen ELSE Output % 2^XLen
    IN  /\ ~Busy /\ params # <<>>
        /\ params' = Tail(params) /\ pending' = Tail(pending)
        /\ pushed' = [rob_id |-> p.rob_id,
                      result |-> IF p.rev_res THEN Reversed(result) ELSE result]
        /\ Iterate

Work ==
    /\ Iterate /\ pushed' = NoResult
    /\ UNCHANGED <<params, pending>>

Next ==
    \/ \E j \in Jobs : IssueDecoded(j)
    \/ PushResult
    \/ Work

Spec == Init /\ [][Next]_vars

-----------------------------------------------------------------------------
(***************************************************************************)
(* Properties.                                                             *)
(***************************************************************************)
\* The Zbc extension: bit k of the product is the parity of the pairs of set
\* bits whose positions add up to k; CLMULR takes bits XLen-1 .. 2*XLen-2.
ProductBit(a, b, k) ==
    Cardinality({i \in 0..k : Bit(a, i) = 1 /\ Bit(b, k - i) = 1}) % 2
RECURSIVE ProductBits(_, _, _, _)
ProductBits(a, b, from, n) ==
    IF n = 0 THEN 0 ELSE ProductBit(a, b, from) + 2 * ProductBits(a, b, from + 1, n - 1)
Value(j) ==
    ProductBits(j.i1, j.i2,
        CASE j.fn = "CLMUL" -> 0 [] j.fn = "CLMULH" -> XLen [] j.fn = "CLMULR" -> XLen - 1, XLen)

\* However the leaves finish and however long the answer waits, each Zbc
\* instruction gets the carry-less product of its own operands.
Unit == INSTANCE FunctionUnit
UnitStep == [Unit!Next]_<<pending, pushed>>
=============================================================================
