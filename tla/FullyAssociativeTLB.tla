------------------------ MODULE FullyAssociativeTLB ------------------------
(***************************************************************************)
(* The first level TLBs (class FullyAssociativeTLB, priv/vmem/tlb.py).     *)
(* All entries are compared at once, by every port.  A miss puts the port  *)
(* on the slow path: it waits for the refill semaphore, asks the second    *)
(* level and, when the answer arrives, writes the entry.  A fence is       *)
(* queued; while the queue is not empty no port looks anything up, and     *)
(* port 1 executes it once no refill is running.                           *)
(***************************************************************************)
EXTENDS TLBCam

CONSTANTS Size,     \* entries of the TLB
          Ports,    \* number of request ports
          FlushDepth\* depth of flush_queue

\* What the parameters must satisfy.
FullAssumption == Size \in Nat \ {0} /\ Ports \in Nat \ {0} /\ FlushDepth \in Nat \ {0}

VARIABLES
  entries, rr,  \* the ways and replacement_rr_index
  flushQueue,   \* fences accepted and not executed
  slow,         \* port -> slow_path
  vpnReq,       \* port -> vpn of the request
  refilling,    \* port -> handling_refill
  asked,        \* address space the second level was asked for
  since,        \* history: fences accepted since then
  late,         \* history: ports whose request is older than a fence or a satp write
  result,       \* port -> answer not yet accepted
  asid          \* satp.asid

vars == <<entries, rr, flushQueue, slow, vpnReq, refilling, asked, since, late, result, asid>>

PortIds == 1..Ports
\* Operands an SFENCE.VMA ignores have one value.
Fences == {f \in [allV : BOOLEAN, allA : BOOLEAN, vpn : Vpns, asid : Asids] :
             /\ f.allV => \A c \in DOMAIN f.vpn : f.vpn[c] = 0
             /\ f.allA => f.asid = CHOOSE a \in Asids : TRUE}

TypeOK ==
  /\ entries \in [1..Size -> Entries \union {Invalid}] /\ rr \in 1..Size
  /\ Len(flushQueue) <= FlushDepth /\ \A f \in DOMAIN flushQueue : flushQueue[f] \in Fences
  /\ slow \in [PortIds -> BOOLEAN] /\ vpnReq \in [PortIds -> Vpns]
  /\ refilling \in [PortIds -> BOOLEAN] /\ Cardinality({p \in PortIds : refilling[p]}) <= 1
  /\ asked \in Asids /\ since \subseteq Fences /\ late \subseteq PortIds /\ asid \in Asids

Init ==
  /\ entries = [w \in 1..Size |-> Invalid] /\ rr = 1 /\ flushQueue = <<>>
  /\ slow = [p \in PortIds |-> FALSE] /\ refilling = [p \in PortIds |-> FALSE]
  /\ vpnReq = [p \in PortIds |-> [c \in 1..MaxClass + 1 |-> 0]]
  /\ asid \in Asids /\ asked = asid /\ since = {} /\ late = {}
  /\ result = [p \in PortIds |-> <<>>]

\* The refill semaphore is free.
SemaphoreFree == \A p \in PortIds : ~refilling[p]

NoLookup(p) == refilling[p] \/ flushQueue # <<>>

Answer(p, e) == result[p] = <<>> /\ result' = [result EXCEPT ![p] = <<e>>]

\* do_query on the request itself: answered at once, or the slow path.
Request(p, v) ==
  /\ ~NoLookup(p) /\ ~slow[p]
  /\ vpnReq' = [vpnReq EXCEPT ![p] = v]
  /\ late' = late \ {p}
  /\ IF Hits(entries, v, asid) # {}
     THEN Answer(p, MatchedEntry(entries, v, asid)) /\ UNCHANGED slow
     ELSE slow' = [slow EXCEPT ![p] = TRUE] /\ UNCHANGED result
  /\ result[p] = <<>>
  /\ UNCHANGED <<entries, rr, flushQueue, refilling, asked, since, asid>>

\* do_query on the slow path: another refill may have brought the entry.
AsyncResolve(p) ==
  /\ ~NoLookup(p) /\ slow[p] /\ Hits(entries, vpnReq[p], asid) # {}
  /\ Answer(p, MatchedEntry(entries, vpnReq[p], asid))
  /\ slow' = [slow EXCEPT ![p] = FALSE]
  /\ UNCHANGED <<entries, rr, flushQueue, vpnReq, refilling, asked, since, late, asid>>

RequestRefill(p) ==
  /\ ~NoLookup(p) /\ slow[p] /\ Hits(entries, vpnReq[p], asid) = {}
  /\ SemaphoreFree
  /\ refilling' = [refilling EXCEPT ![p] = TRUE]
  /\ asked' = asid /\ since' = {}
  /\ UNCHANGED <<entries, rr, flushQueue, slow, vpnReq, late, result, asid>>

\* The answer of the second level may be older than a fence accepted meanwhile.
RefillEntry(p, c, g) ==
  LET e == Entry(vpnReq[p], asked, c, g, TRUE)
  IN  [e EXCEPT !.fresh = \A f \in since : ~Fenced(e, f.allV, f.allA, f.vpn, f.asid)]

RefillDone(p) == /\ refilling' = [refilling EXCEPT ![p] = FALSE]
                 /\ slow' = [slow EXCEPT ![p] = FALSE]
                 /\ since' = {}
                 /\ UNCHANGED <<flushQueue, vpnReq, asked, late, asid>>

Refill(p, c, g) ==
  /\ refilling[p]
  /\ Answer(p, RefillEntry(p, c, g))
  /\ entries' = [entries EXCEPT ![ReplaceCandidate(entries, vpnReq[p], asked, rr)] = RefillEntry(p, c, g)]
  /\ rr' = NextReplacement(entries, rr)
  /\ RefillDone(p)

RefillFault(p) ==
  /\ refilling[p] /\ Answer(p, Fault)
  /\ RefillDone(p) /\ UNCHANGED <<entries, rr>>

FlushReadyAnyTime == flushQueue # <<>> /\ ~refilling[1]
FlushReady == flushQueue # <<>> /\ ~refilling[1] /\ SemaphoreFree

Flush ==
  /\ FlushReady
  /\ LET f == Head(flushQueue)
     IN  entries' = Flushed(entries, f.allV, f.allA, f.vpn, f.asid)
  /\ flushQueue' = Tail(flushQueue)
  /\ UNCHANGED <<rr, slow, vpnReq, refilling, asked, since, late, result, asid>>

SFence(f) ==
  /\ Len(flushQueue) < FlushDepth
  /\ flushQueue' = Append(flushQueue, f)
  /\ entries' = [w \in 1..Size |-> Aged(entries[w], f.allV, f.allA, f.vpn, f.asid)]
  /\ since' = IF SemaphoreFree THEN {} ELSE since \union {f}
  /\ late' = late \union {p \in PortIds : slow[p] \/ result[p] # <<>>}
  /\ UNCHANGED <<rr, slow, vpnReq, refilling, asked, result, asid>>

Accept(p) ==
  /\ result[p] # <<>> /\ result' = [result EXCEPT ![p] = <<>>]
  /\ UNCHANGED <<entries, rr, flushQueue, slow, vpnReq, refilling, asked, since, late, asid>>

\* Environment: satp is written while fetches of the old path may be pending.
WriteSatp ==
  /\ asid' \in Asids \ {asid}
  /\ late' = late \union {p \in PortIds : slow[p] \/ result[p] # <<>>}
  /\ UNCHANGED <<entries, rr, flushQueue, slow, vpnReq, refilling, asked, since, result>>

Next ==
  \/ \E p \in PortIds :
       \/ \E v \in Vpns : Request(p, v)
       \/ AsyncResolve(p) \/ RequestRefill(p) \/ RefillFault(p) \/ Accept(p)
       \/ \E c \in Classes, g \in Globals : Refill(p, c, g)
  \/ Flush \/ WriteSatp \/ \E f \in Fences : SFence(f)

Spec == Init /\ [][Next]_vars

\* The second level answers a refill (fairness: MCComponentsLive).
Answers(p) == RefillFault(p) \/ \E c \in Classes, g \in Globals : Refill(p, c, g)

-----------------------------------------------------------------------------
\* A request made after a fence is never answered with a translation the fence
\* covers, not even with one that a refill brought while the fence waited.
NoStaleAnswer == \A p \in PortIds :
    result[p] # <<>> /\ p \notin late /\ result[p][1].valid => result[p][1].fresh

\* A request is answered with a translation of its page in the address space
\* that was current all the time it waited.
RightAnswer == \A p \in PortIds :
    result[p] # <<>> /\ p \notin late /\ result[p][1].valid =>
       Translates(result[p][1], vpnReq[p], asid)
=============================================================================
