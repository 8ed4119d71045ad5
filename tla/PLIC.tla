-------------------------------- MODULE PLIC --------------------------------
(***************************************************************************)
(* The platform interrupt controller (socks/plic.py) with its memory       *)
(* mapped registers (socks/peripheral.py), one clock cycle per step.  Each *)
(* context has one bus user that claims, completes and configures; the     *)
(* Wishbone master may start a request in the cycle after an answer.  A    *)
(* bit mask is a set of interrupt numbers; number 0 is reserved.           *)
(***************************************************************************)
EXTENDS Naturals, FiniteSets, FiniteSetsExt

CONSTANTS
    N,              \* interrupt_count
    Contexts,       \* context_count, as a set
    MaxPriority,    \* priority_count - 1
    EnableSets,     \* bound: values software writes to the enable registers
    Orderly         \* bound: a context completes only what it claimed

\* What the parameters must satisfy.
PlicAssumption ==
    /\ N \in Nat \ {0} /\ MaxPriority \in Nat \ {0} /\ Orderly \in BOOLEAN
    /\ EnableSets \subseteq SUBSET (1..N)

VARIABLES
    interrupts,     \* input lines
    pending, processing,
    enable, context_treshold, interrupt_priority,
    eip,            \* contexts that are signalled
    selected,       \* per_context_selected_priority_pendings, registered
    claim_response, \* [set, value], registered
    service         \* software: what each context claimed and did not complete

config == <<enable, context_treshold, interrupt_priority>>
vars == <<interrupts, pending, processing, config, eip, selected, claim_response, service>>

Irq == 1..N
Priorities == 0..MaxPriority
NoResponse == [set |-> FALSE, value |-> 0, context |-> CHOOSE c \in Contexts : TRUE]

Init ==
    /\ interrupts = {} /\ pending = {} /\ processing = {}
    /\ enable = [c \in Contexts |-> {}]
    /\ context_treshold = [c \in Contexts |-> 0]
    /\ interrupt_priority = [i \in Irq |-> 0]
    /\ eip = {} /\ selected = [c \in Contexts |-> {}]
    /\ claim_response = NoResponse
    /\ service = [c \in Contexts |-> 0]

-----------------------------------------------------------------------------
(***************************************************************************)
(* Gateways, and the choice for each context.                              *)
(***************************************************************************)
PendingToEnable == interrupts \ processing
PendingAfter(disabled) == (pending \ disabled) \cup PendingToEnable
ProcessingAfter(disabled) == (processing \ disabled) \cup PendingToEnable

PendingPerPriority(p) == {i \in pending : p > 0 /\ interrupt_priority[i] = p}
PrioritySel(c) ==
    Max({0} \cup {p \in Priorities : PendingPerPriority(p) \cap enable[c] # {}})
SignalledContexts == {c \in Contexts : PrioritySel(c) > context_treshold[c]}
\* what every cycle does; the bus request adds the two sets
EveryCycle(pending_off, processing_off) ==
    /\ interrupts' \in SUBSET Irq
    /\ pending' = PendingAfter(pending_off)
    /\ processing' = ProcessingAfter(processing_off)
    /\ eip' = SignalledContexts
    /\ selected' = [c \in Contexts |-> PendingPerPriority(PrioritySel(c))]

-----------------------------------------------------------------------------
(***************************************************************************)
(* Bus requests.  A claim is answered in the cycle after it is seen, which *)
(* no other request can use.                                               *)
(***************************************************************************)
BusFree == ~claim_response.set
Claimed(c) == IF selected[c] # {} THEN Min(selected[c]) ELSE 0

\* mutant: answered at once
ResponseAtOnce(c) == NoResponse
ResponseFor(c) == [set |-> TRUE, value |-> Claimed(c), context |-> c]

Claim(c) ==
    /\ BusFree
    /\ Orderly => service[c] = 0
    /\ claim_response' = ResponseFor(c)
    /\ service' = [service EXCEPT ![c] = IF Orderly THEN Claimed(c) ELSE 0]
    /\ EveryCycle({Claimed(c)}, {})
    /\ UNCHANGED config

ClaimAnswered ==
    /\ claim_response.set
    /\ claim_response' = NoResponse
    /\ EveryCycle({}, {})
    /\ UNCHANGED <<config, service>>

\* a completion of an interrupt that the context does not enable is ignored
Completed(c, i) == {i} \cap enable[c]
Complete(c, i) ==
    /\ BusFree
    /\ IF Orderly THEN i = service[c] /\ i # 0 ELSE TRUE
    /\ service' = [service EXCEPT ![c] = IF @ = i THEN 0 ELSE @]
    /\ EveryCycle({}, Completed(c, i))
    /\ UNCHANGED <<config, claim_response>>

WriteEnable(c, S) ==
    /\ BusFree
    /\ enable' = [enable EXCEPT ![c] = S]
    /\ EveryCycle({}, {})
    /\ UNCHANGED <<context_treshold, interrupt_priority, claim_response, service>>

WriteTreshold(c, p) ==
    /\ BusFree
    /\ context_treshold' = [context_treshold EXCEPT ![c] = p]
    /\ EveryCycle({}, {})
    /\ UNCHANGED <<enable, interrupt_priority, claim_response, service>>

WritePriority(i, p) ==
    /\ BusFree
    /\ interrupt_priority' = [interrupt_priority EXCEPT ![i] = p]
    /\ EveryCycle({}, {})
    /\ UNCHANGED <<enable, context_treshold, claim_response, service>>

Idle == BusFree /\ EveryCycle({}, {}) /\ UNCHANGED <<config, claim_response, service>>

Next ==
    \/ \E c \in Contexts : Claim(c)
    \/ ClaimAnswered
    \/ \E c \in Contexts, i \in Irq : Complete(c, i)
    \/ \E c \in Contexts, S \in EnableSets : WriteEnable(c, S)
    \/ \E c \in Contexts, p \in Priorities : WriteTreshold(c, p)
    \/ \E i \in Irq, p \in Priorities : WritePriority(i, p)
    \/ Idle

Spec == Init /\ [][Next]_vars

-----------------------------------------------------------------------------
(***************************************************************************)
(* Types; the reserved interrupt is never pending.                         *)
(***************************************************************************)
TypeOK ==
    /\ interrupts \subseteq Irq /\ pending \subseteq Irq /\ processing \subseteq Irq
    /\ \A c \in Contexts : enable[c] \subseteq Irq /\ selected[c] \subseteq Irq
                           /\ context_treshold[c] \in Priorities
    /\ eip \subseteq Contexts /\ claim_response.value \in 0..N

(***************************************************************************)
(* An event is claimed once: the registered selection, which is one cycle  *)
(* old, never offers a context an interrupt that is not pending any more   *)
(* because another claim took it.                                          *)
(***************************************************************************)
ClaimedOnce == BusFree => \A c \in Contexts : selected[c] \subseteq pending

(***************************************************************************)
(* A closed gateway has a reason: an interrupt that is neither pending nor *)
(* in service is not held back, if contexts complete what they claimed and *)
(* enable what they complete.                                              *)
(***************************************************************************)
GatewaysOpen ==
    \A i \in processing \ pending : \E c \in Contexts : service[c] = i

(***************************************************************************)
(* What liveness is about (MCComponentsLive): a context that is signalled  *)
(* claims, and completes what it claimed; interrupt 1 is pending at the    *)
(* highest priority, enabled and over the threshold.                       *)
(***************************************************************************)
Claims(c) == c \in eip /\ Claim(c)
Completes(c) == \E i \in Irq : Complete(c, i)
TopPending ==
    /\ 1 \in pending /\ interrupt_priority[1] = MaxPriority
    /\ \E c \in Contexts : 1 \in enable[c] /\ context_treshold[c] < MaxPriority
=============================================================================
