------------------------------ MODULE MulUnit -------------------------------
(***************************************************************************)
(* The integer multiplication unit (fu/mul_unit.py) over one of the four   *)
(* unsigned multipliers.  One step is a clock cycle in which an answer may *)
(* leave and an instruction may enter; what the answer needs waits in      *)
(* params_fifo, next to the multiplier and not inside it.                  *)
(***************************************************************************)
EXTENDS UnsignedMultipliers

CONSTANTS
    Words,          \* bound: register values
    RobIds          \* bound: rob_id values

\* What the parameters must satisfy.
WordsAssumption == Words \subseteq 0..(2^XLen - 1)

VARIABLES
    mul,            \* registers of the multiplier
    params,         \* params_fifo
    pending,        \* issued and not yet answered
    pushed          \* what push_result carried in the last cycle

vars == <<mul, params, pending, pushed>>

Fns == {"MUL", "MULH", "MULHU", "MULHSU"}
Jobs == [fn : Fns, i1 : Words, i2 : Words, rob_id : RobIds]
NoResult == [rob_id |-> "none", result |-> 0]
ParamsDepth == 2

Negative(w) == w >= 2^(XLen - 1)
Magnitude(w) == IF Negative(w) THEN Cut(2^XLen - w, XLen) ELSE w

Init ==
    /\ mul = MultiplierInit
    /\ params = <<>> /\ pending = <<>> /\ pushed = NoResult

-----------------------------------------------------------------------------
Operands(j) ==
    [i1 |-> IF j.fn \in {"MULH", "MULHSU"} THEN Magnitude(j.i1) ELSE j.i1,
     i2 |-> IF j.fn = "MULH" THEN Magnitude(j.i2) ELSE j.i2]

\* mutant: the unsigned operand of MULHSU is given a sign
NegativeResBoth(j) == j.fn \in {"MULH", "MULHSU"} /\ Negative(j.i1) # Negative(j.i2)
NegativeRes(j) ==
    \/ j.fn = "MULH" /\ Negative(j.i1) # Negative(j.i2)
    \/ j.fn = "MULHSU" /\ Negative(j.i1)

Params(j) ==
    [rob_id |-> j.rob_id, negative_res |-> NegativeRes(j), high_res |-> j.fn # "MUL"]

PushedResult(p) ==
    LET sign_result == IF p.negative_res THEN Cut(2^(2 * XLen) - Product(mul), 2 * XLen)
                                         ELSE Product(mul)
    IN [rob_id |-> p.rob_id,
        result |-> IF p.high_res THEN sign_result \div 2^XLen ELSE Cut(sign_result, XLen)]

CanTake == AcceptReady(mul) /\ params # <<>>
CanIssue(take) == IssueReady(mul, take) /\ Len(params) < ParamsDepth

\* The clock edge: every register of the unit and of its multiplier.
Edge(new, take) ==
    /\ \E leaf \in LeafChoices(mul) :
           mul' = MultiplierCycle(mul, [i \in 1..Len(new) |-> Operands(new[i])], take, leaf)
    /\ params' = (IF take THEN Tail(params) ELSE params)
                     \o [i \in 1..Len(new) |-> Params(new[i])]
    /\ pending' = (IF take THEN Tail(pending) ELSE pending) \o new
    /\ pushed' = IF take THEN PushedResult(Head(params)) ELSE NoResult

Issue(j) == CanIssue(FALSE) /\ Edge(<<j>>, FALSE)
PushResult == CanTake /\ Edge(<<>>, TRUE)
IssueAndPush(j) == CanTake /\ CanIssue(TRUE) /\ Edge(<<j>>, TRUE)
Work == Edge(<<>>, FALSE)

Next ==
    \/ Work
    \/ PushResult
    \/ \E j \in Jobs : Issue(j)
    \/ \E j \in Jobs : IssueAndPush(j)

Spec == Init /\ [][Next]_vars

-----------------------------------------------------------------------------
(***************************************************************************)
(* Properties.                                                             *)
(***************************************************************************)
TypeOK ==
    /\ Len(params) <= ParamsDepth /\ Len(pending) = Len(params)
    /\ \A i \in 1..Len(pending) : pending[i] \in Jobs
    /\ pushed.result \in 0..(2^XLen - 1)

Signed(w) == IF Negative(w) THEN w - 2^XLen ELSE w

\* The RISC-V M extension over mathematical integers.
Value(j) ==
    LET a == IF j.fn \in {"MULH", "MULHSU"} THEN Signed(j.i1) ELSE j.i1
        b == IF j.fn = "MULH" THEN Signed(j.i2) ELSE j.i2
    IN  IF j.fn = "MUL" THEN (a * b) % 2^XLen ELSE ((a * b) \div 2^XLen) % 2^XLen

\* Whatever the multiplier, and however long a finished product waits while
\* others follow it, results leave in issue order with the params of their
\* own instruction and the value the M extension defines.
Unit == INSTANCE FunctionUnit
UnitStep == [Unit!Next]_<<pending, pushed>>
=============================================================================
