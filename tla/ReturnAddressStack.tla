------------------------ MODULE ReturnAddressStack ------------------------
(***************************************************************************)
(* The return address stack of the branch prediction (frontend/bpu/ras.py):*)
(* a ring with a cached top, whose state is checkpointed with a prediction *)
(* and recovered after a misprediction.  One step is one call; the read    *)
(* port of the memory fetches the entry below the new top for the next.    *)
(***************************************************************************)
EXTENDS Naturals, Sequences

CONSTANTS Depth, Addrs

\* What the parameters must satisfy.
RasAssumption == Depth \in Nat /\ Depth > 1 /\ Addrs # {}

VARIABLES
  mem, sp, count, top, readData, \* registers, memory and its read port
  saved,                         \* state of the checkpoint (as update returned it)
  stack, savedStack,             \* history: the stack that is meant, newest first
  disturbed, lost                \* history: entries of the checkpoint, of the stack were overwritten

vars == <<mem, sp, count, top, readData, saved, stack, savedStack, disturbed, lost>>
NoAddr == CHOOSE a \in Addrs : TRUE
States == [sp : 0..Depth - 1, count : 0..Depth, top : Addrs]

TypeOK == /\ mem \in [0..Depth - 1 -> Addrs] /\ sp \in 0..Depth - 1 /\ count \in 0..Depth
          /\ top \in Addrs /\ readData \in Addrs /\ saved \in States
          /\ Len(stack) <= Depth /\ Len(savedStack) <= Depth

Init ==
  /\ mem = [i \in 0..Depth - 1 |-> NoAddr] /\ sp = 0 /\ count = 0 /\ top = NoAddr /\ readData = NoAddr
  /\ saved = [sp |-> 0, count |-> 0, top |-> NoAddr]
  /\ stack = <<>> /\ savedStack = <<>> /\ disturbed = FALSE /\ lost = FALSE

-----------------------------------------------------------------------------
SpInc == (sp + 1) % Depth
SpDec == (sp + Depth - 1) % Depth

\* The read port sees the memory before the write of its cycle.
Below(newSp) == readData' = mem[(newSp + Depth - 1) % Depth]

NewSp(push, pop) == IF push /\ ~pop THEN SpInc ELSE IF pop /\ ~push THEN SpDec ELSE sp
NewCountWrapped(push, pop) == IF push /\ ~pop THEN (count + 1) % (Depth + 1)
                              ELSE IF pop /\ ~push /\ count > 0 THEN count - 1 ELSE count
NewCount(push, pop) == IF push /\ ~pop /\ count < Depth THEN count + 1
                       ELSE IF pop /\ ~push /\ count > 0 THEN count - 1 ELSE count
NewTop(push, pop, addr) == IF push THEN addr ELSE IF pop THEN readData ELSE top

Peek == [valid |-> count # 0, addr |-> top]

Update(push, pop, addr, checkpoint) ==
  /\ push \/ pop
  /\ mem' = IF push THEN [mem EXCEPT ![NewSp(push, pop)] = addr] ELSE mem
  /\ Below(NewSp(push, pop))
  /\ sp' = NewSp(push, pop) /\ count' = NewCount(push, pop) /\ top' = NewTop(push, pop, addr)
  /\ saved' = IF checkpoint THEN [sp |-> sp', count |-> count', top |-> top'] ELSE saved
  /\ LET popped == IF pop /\ stack # <<>> THEN Tail(stack) ELSE stack
         \* A call that is also a return replaces the top. On an empty stack the meant
         \* stack follows the code (ras.py 79-81 leaves the count 0): this call's return
         \* is not predicted.
         all == IF push /\ ~(pop /\ stack = <<>>) THEN <<addr>> \o popped ELSE popped
     IN  /\ stack' = SubSeq(all, 1, IF Len(all) > Depth THEN Depth ELSE Len(all))
         /\ savedStack' = IF checkpoint THEN stack' ELSE savedStack
         \* a push replaces an entry below the top of the checkpoint, or wraps around
         /\ disturbed' = IF checkpoint THEN lost
                         ELSE \/ disturbed
                              \/ push /\ (Len(all) < Len(savedStack) \/ Len(all) > Depth)
                              \/ pop /\ stack = <<>>
         /\ lost' = lost

Recover ==
  /\ mem' = [mem EXCEPT ![saved.sp] = saved.top] /\ Below(saved.sp)
  /\ sp' = saved.sp /\ count' = saved.count /\ top' = saved.top
  /\ stack' = savedStack /\ lost' = disturbed
  /\ UNCHANGED <<saved, savedStack, disturbed>>

Next == \/ \E push, pop, checkpoint \in BOOLEAN, addr \in Addrs : Update(push, pop, addr, checkpoint)
        \/ Recover

Spec == Init /\ [][Next]_vars

-----------------------------------------------------------------------------
\* As long as no wrong path overwrote an entry below the top of the checkpoint, the
\* predicted return address is that of the last call that has not returned, through
\* overflows of the ring, recoveries and later returns. A call that is also a return
\* counts as a call only on a stack that is not empty.
ReturnsMatchCalls == ~lost =>
  /\ Peek.valid = (stack # <<>>)
  /\ Peek.valid => Peek.addr = stack[1]

\* The rest of the ring holds what later returns need, also for a recovered state.
EntriesKept == ~lost =>
  /\ count = Len(stack)
  /\ \A i \in 2..Len(stack) : mem[(sp + Depth + 1 - i) % Depth] = stack[i]
  /\ Len(stack) > 1 => readData = stack[2]
=============================================================================
