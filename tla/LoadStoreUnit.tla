--------------------------- MODULE LoadStoreUnit ---------------------------
(***************************************************************************)
(* The load/store unit: LSUDummy with its requester (fu/lsu/dummyLsu.py,   *)
(* lsu_requester.py, pma.py) inside the wrapper that adds atomics          *)
(* (lsu_atomic_wrapper.py).  The rest of the core is a window of memory    *)
(* instructions in program order: wrong paths become inactive, the oldest  *)
(* instruction may be granted its side effects, and the head retires.      *)
(*                                                                         *)
(* Memory is one cell that holds a small number; where an access goes says *)
(* how it is handled.  An action is one transaction or method call.        *)
(***************************************************************************)
EXTENDS Naturals, Sequences

CONSTANTS Kinds,     \* of {"load", "store", "fence", "lr", "sc", "amo"}
          Wheres,    \* of {"ram", "mmio", "misaligned", "pagefault", "denied"}
          Modulus,   \* values are 0..Modulus-1
          Window,    \* bound: memory instructions in the core
          Flushes,   \* whether mispredictions happen
          BusErrors  \* whether the bus answers errors

\* What the parameters must satisfy.
LsuAssumption == Modulus \in Nat \ {0} /\ Window \in Nat \ {0}

Robs == 0..Window - 1
Values == 0..Modulus - 1
Faults == {"misaligned", "pagefault", "denied"}

VARIABLES
  window,                        \* the core: memory instructions, oldest first
  granted,                       \* the oldest one may have its side effects
  requests, translated,          \* FIFO of requests, how many are translated
  issued, noop,                  \* FIFOs of what was sent to the bus, and of what was not
  mem,                           \* memory
  reservation, inProgress, op,   \* atomic wrapper: reservation, atomic operation
  scFailed, second, secondIssued, loadVal,
  fwd,                           \* its result forwarder
  archMem, archReservation,      \* history: memory and reservation in program order
  wrong                          \* history: a retired instruction had the wrong result

lsu == <<requests, translated, issued, noop, mem>>
atomic == <<reservation, inProgress, op, scFailed, second, secondIssued, loadVal>>
arch == <<archMem, archReservation, wrong>>
vars == <<window, granted, lsu, atomic, fwd, arch>>

Op == [rob : Robs, kind : Kinds, where : Wheres, data : Values]
NoOp == [rob |-> 0, kind |-> CHOOSE k \in Kinds : TRUE, where |-> CHOOSE w \in Wheres : TRUE, data |-> 0]

TypeOK ==
  /\ Len(window) <= Window /\ Len(requests) <= 2 /\ translated \in 0..Len(requests)
  /\ Len(issued) <= 2 /\ Len(noop) <= 2 /\ Len(fwd) <= 1 /\ mem \in Values
  /\ inProgress \in BOOLEAN /\ reservation \in BOOLEAN /\ loadVal \in Values
  /\ secondIssued => second

Init ==
  /\ window = <<>> /\ granted = FALSE
  /\ requests = <<>> /\ translated = 0 /\ issued = <<>> /\ noop = <<>> /\ mem = 0
  /\ reservation = FALSE /\ inProgress = FALSE /\ op = NoOp /\ scFailed = FALSE
  /\ second = FALSE /\ secondIssued = FALSE /\ loadVal = 0 /\ fwd = <<>>
  /\ archMem = 0 /\ archReservation = FALSE /\ wrong = {}

-----------------------------------------------------------------------------
(* External: the core                                                      *)

Position(rob) == CHOOSE i \in DOMAIN window : window[i].rob = rob
Active(rob) == window[Position(rob)].active
NextRob == IF window = <<>> THEN 0 ELSE (window[Len(window)].rob + 1) % Window

\* side_fx_guard: the oldest instruction, on the valid path.
SideFx(rob) == granted /\ window # <<>> /\ Head(window).rob = rob /\ Head(window).active

Grant == /\ window # <<>> /\ ~granted /\ Head(window).active
         /\ granted' = TRUE /\ UNCHANGED <<window, lsu, atomic, fwd, arch>>

\* A misprediction: the instructions from the n-th on are on a wrong path.
Mispredict(n) ==
  /\ Flushes /\ n \in DOMAIN window /\ window[n].active /\ (n = 1 => ~granted)
  /\ window' = [i \in DOMAIN window |-> IF i < n THEN window[i] ELSE [window[i] EXCEPT !.active = FALSE]]
  /\ UNCHANGED <<granted, lsu, atomic, fwd, arch>>

\* What an instruction returns and does when it is executed in program order.
Expected(w) == CASE w.kind \in {"load", "lr", "amo"} -> archMem
                 [] w.kind = "sc" -> IF archReservation THEN 0 ELSE 1
                 [] OTHER -> 0
Stored(w) == CASE w.kind = "store" -> w.data
               [] w.kind = "sc" -> IF w.val = 0 THEN w.data ELSE archMem
               [] w.kind = "amo" -> (archMem + w.data) % Modulus
               [] OTHER -> archMem

\* Retirement; an exception makes everything behind it wrong path.
Retire ==
  /\ window # <<>> /\ Head(window).done
  /\ LET w == Head(window)
         commits == w.active /\ ~w.exc
     IN  /\ window' = [i \in 1..Len(window) - 1 |->
                         IF w.active /\ w.exc THEN [window[i + 1] EXCEPT !.active = FALSE]
                         ELSE window[i + 1]]
         /\ archMem' = IF commits THEN Stored(w) ELSE archMem
         /\ archReservation' = IF commits /\ w.kind \in {"lr", "sc"} THEN w.kind = "lr"
                               ELSE archReservation
         /\ wrong' = IF commits /\ w.val # Expected(w) /\ ~(w.kind = "sc" /\ w.val = 1)
                     THEN wrong \union {w.kind} ELSE wrong
  /\ granted' = FALSE
  /\ UNCHANGED <<lsu, atomic, fwd>>

-----------------------------------------------------------------------------
(* LSUDummy                                                                *)

\* issue: a fence is answered at once, the rest waits for translation.
LsuReady(o) == IF o.kind = "fence" THEN Len(noop) < 2 ELSE Len(requests) < 2
LsuIssue(o) ==
  /\ LsuReady(o)
  /\ requests' = IF o.kind = "fence" THEN requests ELSE Append(requests, o)
  /\ noop' = IF o.kind = "fence" THEN Append(noop, [op |-> o, exc |-> FALSE]) ELSE noop
  /\ UNCHANGED <<translated, issued, mem>>

Translate ==
  /\ translated < Len(requests) /\ translated' = translated + 1
  /\ UNCHANGED <<window, granted, requests, issued, noop, mem, atomic, fwd, arch>>

IsLoad(o) == o.kind \in {"load", "lr", "amo"}

\* Loads of memory without side effects are issued speculatively.
WantIssueAny(o) == TRUE
WantIssue(o) == SideFx(o.rob) \/ (IsLoad(o) /\ o.where # "mmio")

\* The request at the head is sent to the bus, or found to fault.  The bus executes
\* in order; whether it answers an error is known later but decided here.
IssueRequest(err) ==
  /\ translated > 0 /\ Len(issued) < 2 /\ Len(noop) < 2
  /\ err => BusErrors
  /\ LET o == Head(requests)
     IN  /\ Active(o.rob) /\ WantIssue(o)
         /\ issued' = IF o.where \in Faults THEN issued
                      ELSE Append(issued, [op |-> o, exc |-> err, val |-> IF IsLoad(o) THEN mem ELSE 0])
         /\ noop' = IF o.where \in Faults THEN Append(noop, [op |-> o, exc |-> TRUE]) ELSE noop
         /\ mem' = IF o.where \in Faults \/ IsLoad(o) \/ err THEN mem ELSE o.data
         /\ window' = IF o.where = "mmio" THEN [window EXCEPT ![Position(o.rob)].touched = TRUE] ELSE window
  /\ requests' = Tail(requests) /\ translated' = translated - 1
  /\ UNCHANGED <<granted, atomic, fwd, arch>>

FlushRequest ==
  /\ translated > 0 /\ Len(noop) < 2
  /\ ~Active(Head(requests).rob)
  /\ noop' = Append(noop, [op |-> Head(requests), exc |-> FALSE])
  /\ requests' = Tail(requests) /\ translated' = translated - 1
  /\ UNCHANGED <<window, granted, issued, mem, atomic, fwd, arch>>

-----------------------------------------------------------------------------
(* Atomic wrapper                                                          *)

Atomics == {"lr", "sc", "amo"}

ScFailsNever(kind) == FALSE
ScFails(kind) == kind = "sc" /\ ~reservation

\* issue: an SC without a reservation fails and does not reach the unit below.
Issue(kind, where, data) ==
  LET o == [rob |-> NextRob, kind |-> kind, where |-> where, data |-> data]
  IN  /\ ~inProgress /\ Len(window) < Window /\ LsuReady(o)
      /\ reservation' = IF kind = "lr" THEN TRUE ELSE IF kind = "sc" THEN FALSE ELSE reservation
      /\ IF ScFails(kind) THEN UNCHANGED lsu ELSE LsuIssue(o)
      /\ inProgress' = (kind \in Atomics)
      /\ op' = IF kind \in Atomics THEN o ELSE op
      /\ scFailed' = ScFails(kind)
      /\ window' = Append(window, [rob |-> NextRob, kind |-> kind, where |-> where, data |-> data,
                                   active |-> TRUE, done |-> FALSE, exc |-> FALSE, val |-> 0,
                                   touched |-> FALSE])
      /\ UNCHANGED <<granted, second, secondIssued, loadVal, fwd, arch>>

\* lsu_push_result: what becomes of a result of the unit below.
FirstAmo(r) == r.rob = op.rob /\ inProgress /\ op.kind = "amo" /\ ~second
LrScResult(r) == r.rob = op.rob /\ inProgress /\ op.kind \in {"lr", "sc"}
SecondAmo(r) == r.rob = op.rob /\ inProgress /\ op.kind = "amo" /\ secondIssued
AmoValue(r) == IF r.exc THEN 0 ELSE loadVal

PushResult(r) ==
  /\ fwd = <<>>
  /\ reservation' = IF LrScResult(r) /\ r.exc THEN FALSE ELSE reservation
  /\ loadVal' = IF FirstAmo(r) /\ ~r.exc THEN r.val ELSE loadVal
  /\ second' = IF FirstAmo(r) /\ ~r.exc THEN TRUE ELSE IF SecondAmo(r) THEN FALSE ELSE second
  /\ secondIssued' = IF SecondAmo(r) THEN FALSE ELSE secondIssued
  /\ inProgress' = IF LrScResult(r) \/ (FirstAmo(r) /\ r.exc) \/ SecondAmo(r) THEN FALSE ELSE inProgress
  /\ fwd' = CASE FirstAmo(r) /\ ~r.exc -> <<>>
              [] SecondAmo(r) -> <<[r EXCEPT !.val = AmoValue(r)]>>
              [] OTHER -> <<r>>
  /\ UNCHANGED <<op, scFailed>>

\* Results of the bus and of what was not sent there arrive in any order.
AcceptIssued ==
  /\ issued # <<>>
  /\ PushResult([rob |-> Head(issued).op.rob, exc |-> Head(issued).exc, val |-> Head(issued).val])
  /\ issued' = Tail(issued)
  /\ UNCHANGED <<window, granted, requests, translated, noop, mem, arch>>

AcceptNoop ==
  /\ noop # <<>>
  /\ PushResult([rob |-> Head(noop).op.rob, exc |-> Head(noop).exc, val |-> 0])
  /\ noop' = Tail(noop)
  /\ UNCHANGED <<window, granted, requests, translated, issued, mem, arch>>

ScFail ==
  /\ inProgress /\ scFailed /\ fwd = <<>>
  /\ scFailed' = FALSE /\ inProgress' = FALSE
  /\ fwd' = <<[rob |-> op.rob, exc |-> FALSE, val |-> 1]>>
  /\ UNCHANGED <<window, granted, lsu, reservation, op, second, secondIssued, loadVal, arch>>

\* The store of an AMO, with the result of the operation (addition stands for all).
AmoStore ==
  /\ inProgress /\ second /\ ~secondIssued
  /\ LsuIssue([op EXCEPT !.kind = "store", !.data = (loadVal + op.data) % Modulus])
  /\ secondIssued' = TRUE
  /\ UNCHANGED <<window, granted, reservation, inProgress, op, scFailed, second, loadVal, fwd, arch>>

\* The result reaches the core.
Deliver ==
  /\ fwd # <<>> /\ fwd' = <<>>
  /\ window' = [window EXCEPT ![Position(fwd[1].rob)] =
                  [@ EXCEPT !.done = TRUE, !.exc = fwd[1].exc, !.val = fwd[1].val]]
  /\ UNCHANGED <<granted, lsu, atomic, arch>>

Next ==
  \/ Grant \/ (\E n \in 1..Window : Mispredict(n)) \/ Retire
  \/ (\E k \in Kinds, w \in Wheres, d \in Values : Issue(k, w, d))
  \/ Translate \/ (\E err \in BOOLEAN : IssueRequest(err)) \/ FlushRequest
  \/ AcceptIssued \/ AcceptNoop \/ ScFail \/ AmoStore \/ Deliver

Spec == Init /\ [][Next]_vars

-----------------------------------------------------------------------------
\* Loads and AMOs return what they would return in program order, although wrong paths,
\* faults and answers that overtake each other are around them.
LoadsSequential == wrong \intersect {"load", "lr", "amo", "store", "fence"} = {}

\* Memory is what the retired instructions made of it, but for the effects of the
\* oldest instruction: no store of a wrong path or behind a fault reaches it.
MemoryPrecise == mem # archMem => /\ window # <<>> /\ Head(window).active /\ granted
                                  /\ Head(window).kind \in {"store", "sc", "amo"}

\* A device is only accessed by instructions that are not flushed later.
DevicesPrecise == \A i \in DOMAIN window : window[i].touched => window[i].active

\* An SC only succeeds after an LR without another SC between them, in program order
\* ("SC are only matched to LR").
ScMatchesLr == "sc" \notin wrong

\* Every instruction is answered once: a request, a result or the wrapper has it until
\* it is done, never two of them.
Holders(rob) ==
  LET In(s) == Len(SelectSeq(s, LAMBDA e : e.rob = rob))
      InOps(s) == Len(SelectSeq(s, LAMBDA e : e.op.rob = rob))
      waits == inProgress /\ op.rob = rob /\ (scFailed \/ (second /\ ~secondIssued))
  IN  In(requests) + InOps(issued) + InOps(noop) + In(fwd) + (IF waits THEN 1 ELSE 0)
AnsweredOnce == \A i \in DOMAIN window : Holders(window[i].rob) = IF window[i].done THEN 0 ELSE 1

\* The instruction waits for its answer (liveness: MCComponentsLive).
Unanswered(r) == \E i \in DOMAIN window : window[i].rob = r /\ ~window[i].done
=============================================================================
