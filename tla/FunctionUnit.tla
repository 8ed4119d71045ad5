---------------------------- MODULE FunctionUnit ----------------------------
(***************************************************************************)
(* What a functional unit promises (func_protocols.FuncUnit, FuncUnitBase):*)
(* the reservation station issues instructions, the unit pushes one result *)
(* for each of them, in the order of issue, with the instruction's own     *)
(* rob_id and the value the instruction set defines.  One step is a clock  *)
(* cycle in which an answer may leave and a new instruction may enter.     *)
(***************************************************************************)
EXTENDS Sequences, SequencesExt

CONSTANTS
    Jobs,           \* the instructions that may be issued
    Value(_),       \* what the instruction set says a job computes
    NoResult        \* nothing was pushed in the last cycle

VARIABLES
    pending,        \* issued and not yet answered
    pushed          \* the result pushed in the last cycle

Init == pending = <<>> /\ pushed = NoResult

Answer(j) == [rob_id |-> j.rob_id, result |-> Value(j)]

Answered ==
    /\ pending # <<>>
    /\ pushed' = Answer(Head(pending))

Entered(rest) ==
    \/ pending' = rest
    \/ pending' # <<>> /\ Front(pending') = rest /\ Last(pending') \in Jobs

Next ==
    \/ Answered /\ Entered(Tail(pending))
    \/ pushed' = NoResult /\ Entered(pending)

Spec == Init /\ [][Next]_<<pending, pushed>>
=============================================================================
