------------------------------ MODULE DivUnit -------------------------------
(***************************************************************************)
(* Integer division: the iterative divider (fu/division/long_division.py)  *)
(* that computes Ipc quotient bits in a cycle, and the unit around it      *)
(* (fu/div_unit.py) that takes the signs off, queues what the result will  *)
(* need, and puts the sign back.  Words are naturals below 2^XLen.         *)
(***************************************************************************)
EXTENDS Integers, Sequences

CONSTANTS
    XLen,           \* isa.xlen
    Ipc,            \* quotient bits per cycle
    Words,          \* bound: register values
    RobIds          \* bound: rob_id values

\* What the parameters must satisfy.
DivAssumption ==
    /\ XLen \in Nat \ {0} /\ Ipc \in 1..XLen
    /\ Words \subseteq 0..(2^XLen - 1)

VARIABLES
    ready, dividend, divisor, quotient, remainder, stage,   \* LongDivider
    params,         \* params_fifo
    pending,        \* issued and not yet answered
    pushed          \* what push_result carried in the last cycle

divider == <<ready, dividend, divisor, quotient, remainder, stage>>
vars == <<divider, params, pending, pushed>>

Fns == {"DIV", "DIVU", "REM", "REMU"}
Jobs == [fn : Fns, i1 : Words, i2 : Words, rob_id : RobIds]
NoResult == [rob_id |-> "none", result |-> 0]
ParamsDepth == 2

Bit(w, i) == (w \div (2^i)) % 2
Sign(w) == Bit(w, XLen - 1)
Negate(w) == (2^XLen - w) % 2^XLen

Init ==
    /\ ready = TRUE
    /\ dividend = 0 /\ divisor = 0 /\ quotient = 0 /\ remainder = 0 /\ stage = 0
    /\ params = <<>> /\ pending = <<>> /\ pushed = NoResult

-----------------------------------------------------------------------------
(***************************************************************************)
(* RecursiveDivison: n restoring steps from the top of the n low bits of   *)
(* the dividend; partial is the remainder after the first prc of them.     *)
(***************************************************************************)
RECURSIVE RecursiveDivison(_, _, _, _)
RecursiveDivison(n, prc, bits, rem) ==
    IF n = 0 THEN [quotient |-> 0, remainder |-> rem, partial |-> rem]
    ELSE LET concat == ((2 * rem) + Bit(bits, n - 1)) % 2^XLen
             fits == concat >= divisor
             rec == RecursiveDivison(n - 1, prc - 1, bits,
                                     IF fits THEN concat - divisor ELSE concat)
         IN [quotient |-> (IF fits THEN 2^(n - 1) ELSE 0) + rec.quotient,
             remainder |-> rec.remainder,
             partial |-> IF prc = 0 THEN rem ELSE rec.partial]

PartialCount == XLen % Ipc
Stages == (XLen \div Ipc) + (IF PartialCount > 0 THEN 1 ELSE 0)

SpecialStage == Stages = stage + 1 /\ PartialCount > 0

Running == ~ready /\ stage # Stages

StageAfter == stage + 1

\* One iteration of the array: the top Ipc bits of the shifted dividend.
Calculate ==
    LET d == RecursiveDivison(Ipc, PartialCount, dividend \div (2^(XLen - Ipc)), remainder)
        got == IF SpecialStage THEN PartialCount ELSE Ipc
    IN  /\ Running
        /\ dividend' = (dividend * 2^Ipc) % 2^XLen
        /\ remainder' = IF SpecialStage THEN d.partial ELSE d.remainder
        /\ quotient' = ((quotient * 2^got) + (d.quotient \div (2^(Ipc - got)))) % 2^XLen
        /\ stage' = StageAfter
        /\ pushed' = NoResult
        /\ UNCHANGED <<ready, divisor, params, pending>>

-----------------------------------------------------------------------------
(***************************************************************************)
(* The unit: signs off at issue, signs back on at the answer.              *)
(***************************************************************************)
Abs(w) == IF Sign(w) = 1 THEN Negate(w) ELSE w
SignedFn(fn) == fn \in {"DIV", "REM"}

FlipSign(j) ==
    CASE j.fn = "DIV" -> Sign(j.i1) # Sign(j.i2)
      [] j.fn = "REM" -> Sign(j.i1) = 1
      [] OTHER -> FALSE

IssueDecoded(j) ==
    /\ ready /\ Len(params) < ParamsDepth
    /\ params' = Append(params, [rob_id |-> j.rob_id, flip_sign |-> FlipSign(j),
                                 rem_res |-> j.fn \in {"REM", "REMU"}])
    /\ dividend' = IF SignedFn(j.fn) THEN Abs(j.i1) ELSE j.i1
    /\ divisor' = IF SignedFn(j.fn) THEN Abs(j.i2) ELSE j.i2
    /\ remainder' = 0 /\ quotient' = 0 /\ stage' = 0
    /\ ready' = FALSE
    /\ pending' = Append(pending, j) /\ pushed' = NoResult

SignResult(p, result) ==
    IF p.flip_sign /\ Sign(result) = 0 THEN Negate(result) ELSE result

PushResult ==
    LET p == Head(params)
        result == IF p.rem_res THEN remainder ELSE quotient
    IN  /\ ~ready /\ stage = Stages /\ params # <<>>
        /\ ready' = TRUE
        /\ params' = Tail(params) /\ pending' = Tail(pending)
        /\ pushed' = [rob_id |-> p.rob_id, result |-> SignResult(p, result)]
        /\ UNCHANGED <<dividend, divisor, quotient, remainder, stage>>

\* A cycle in which nothing is issued and nothing runs.
Idle ==
    /\ ready /\ pushed # NoResult
    /\ pushed' = NoResult
    /\ UNCHANGED <<divider, params, pending>>

Next ==
    \/ \E j \in Jobs : IssueDecoded(j)
    \/ Calculate
    \/ PushResult
    \/ Idle

Spec == Init /\ [][Next]_vars

-----------------------------------------------------------------------------
(***************************************************************************)
(* Properties.                                                             *)
(***************************************************************************)
TypeOK ==
    /\ ready \in BOOLEAN /\ stage \in 0..Stages
    /\ \A w \in {dividend, divisor, quotient, remainder} : w \in 0..(2^XLen - 1)
    /\ Len(params) <= ParamsDepth /\ Len(pending) = Len(params)

Signed(w) == IF Sign(w) = 1 THEN w - 2^XLen ELSE w
Magnitude(i) == IF i < 0 THEN -i ELSE i
\* The quotient of integers rounded towards zero.
Truncated(a, b) ==
    LET q == Magnitude(a) \div Magnitude(b) IN IF (a < 0) # (b < 0) THEN -q ELSE q

\* The RISC-V M extension: division by zero gives all ones and the dividend.
Value(j) ==
    LET signed == SignedFn(j.fn)
        a == IF signed THEN Signed(j.i1) ELSE j.i1
        b == IF signed THEN Signed(j.i2) ELSE j.i2
        q == IF b = 0 THEN -1 ELSE Truncated(a, b)
    IN  (IF j.fn \in {"DIV", "DIVU"} THEN q ELSE a - (b * q)) % 2^XLen

\* The iterations, the short last stage and the sign handling together give,
\* in issue order and under the instruction's own rob_id, the value the M
\* extension defines, for division by zero and for overflow too.
Unit == INSTANCE FunctionUnit
UnitStep == [Unit!Next]_<<pending, pushed>>
=============================================================================
