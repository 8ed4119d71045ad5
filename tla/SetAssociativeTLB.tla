------------------------- MODULE SetAssociativeTLB -------------------------
(***************************************************************************)
(* The second level TLB (class SetAssociativeTLB, priv/vmem/tlb.py).  Sets *)
(* live in a memory whose read port answers one cycle later and returns    *)
(* the old contents when the same cycle writes.  A lookup tries one size   *)
(* class per cycle; a miss asks the walker, reads the set again and writes *)
(* it back with the new entry; SFENCE.VMA reads, filters and writes back   *)
(* one set per cycle.  One action is one cycle of the transaction it names;*)
(* a request that enters in the same cycle is its parameter r.             *)
(***************************************************************************)
EXTENDS TLBCam

CONSTANTS Sets, Ways,
          CountPages      \* whether the history ("fresh") counts fences of one address

\* What the parameters must satisfy.
SetAssumption == Sets \in Nat \ {0} /\ Ways \in Nat \ {0} /\ CountPages \in BOOLEAN

VARIABLES
  mem,      \* set -> way -> entry
  rr,       \* set -> way replaced next
  rd, rrRd, \* outputs of the two read ports
  pipe,     \* request_pipe: <<>> or <<vpn>>
  chk,      \* cam.checked_vpn, checked_asid
  cls,      \* requested_class
  refill,   \* refill_in_progress
  walkAsid, \* address space the walker was asked for
  fsm, resp,\* state machine of the refill, refill_response and its set
  fwd,      \* answer not yet accepted: <<>> or <<answer>>
  flush,    \* registers of the flush
  asid      \* satp.asid

vars == <<mem, rr, rd, rrRd, pipe, chk, cls, refill, walkAsid, fsm, resp, fwd, flush, asid>>

SetIds == 0..Sets - 1
Lines == [1..Ways -> Entries \union {Invalid}]

\* Words above the page number read as zero.
VpnToSetIdx(v, c) == IF c > MaxClass THEN 0 ELSE v[c + 1] % Sets

NoRequest == <<>>
Requests == {NoRequest} \union {<<v>> : v \in Vpns}

TypeOK ==
  /\ mem \in [SetIds -> Lines] /\ rr \in [SetIds -> 1..Ways]
  /\ rd \in Lines /\ rrRd \in 1..Ways
  /\ pipe \in Requests /\ chk.vpn \in Vpns /\ chk.asid \in Asids
  /\ cls \in 0..MaxClass /\ refill \in BOOLEAN /\ walkAsid \in Asids
  /\ fsm \in {"IDLE", "REFILL"} /\ Len(fwd) <= 1
  /\ flush.set \in SetIds /\ flush.cls \in 0..MaxClass + 1
  /\ asid \in Asids

\* After reset the memories hold anything; a full flush runs first.
Init ==
  LET old == {e \in Entries : ~e.fresh} \union {Invalid}
      v0  == [c \in 1..MaxClass + 1 |-> 0]
  IN  /\ \E e \in old : mem = [s \in SetIds |-> [w \in 1..Ways |-> e]]
      /\ rr = [s \in SetIds |-> 1] /\ rd = mem[0] /\ rrRd = 1
      /\ asid \in Asids
      /\ pipe = NoRequest /\ chk = [vpn |-> v0, asid |-> asid] /\ cls = 0
      /\ refill = FALSE /\ walkAsid = asid /\ fsm = "IDLE"
      /\ resp = [e |-> Fault, set |-> 0] /\ fwd = <<>>
      /\ flush = [on |-> TRUE, set |-> 0, cls |-> 0, allV |-> TRUE, allA |-> TRUE]

\* request: the set of the smallest size is read, unless the cycle already
\* uses the read port for another set (the later assignment wins).
Enter(r, addr) ==
  /\ r # NoRequest => ~flush.on
  /\ pipe' = r
  /\ IF r = NoRequest THEN UNCHANGED <<rd, cls, chk>>
     ELSE /\ rd' = mem[IF addr = Sets THEN VpnToSetIdx(r[1], 0) ELSE addr]
          /\ cls' = 0
          /\ chk' = [vpn |-> r[1], asid |-> asid]

Request(r) ==
  /\ pipe = NoRequest /\ r # NoRequest
  /\ Enter(r, Sets)
  /\ UNCHANGED <<mem, rr, rrRd, refill, walkAsid, fsm, resp, fwd, flush, asid>>

\* TLBLookup, the three outcomes.
Lookup == pipe # NoRequest /\ ~refill

LookupHit(r) ==
  /\ Lookup /\ Hits(rd, chk.vpn, chk.asid) # {} /\ fwd = <<>>
  /\ fwd' = <<[e |-> MatchedEntry(rd, chk.vpn, chk.asid), vpn |-> pipe[1], asid |-> asid]>>
  /\ Enter(r, Sets)
  /\ UNCHANGED <<mem, rr, rrRd, refill, walkAsid, fsm, resp, flush, asid>>

LookupNextClass ==
  /\ Lookup /\ Hits(rd, chk.vpn, chk.asid) = {} /\ cls < MaxClass
  /\ cls' = cls + 1
  /\ rd' = mem[VpnToSetIdx(pipe[1], cls + 1)]
  /\ UNCHANGED <<mem, rr, rrRd, pipe, chk, refill, walkAsid, fsm, resp, fwd, flush, asid>>

LookupMiss ==
  /\ Lookup /\ Hits(rd, chk.vpn, chk.asid) = {} /\ cls = MaxClass
  /\ refill' = TRUE /\ walkAsid' = asid
  /\ UNCHANGED <<mem, rr, rd, rrRd, pipe, chk, cls, fsm, resp, fwd, flush, asid>>

\* The walker's answer: the set that the page has at the level c the walk ended at is
\* read again, also after a fault.
RefillFault(r, c) ==
  /\ fsm = "IDLE" /\ refill /\ fwd = <<>>
  /\ fwd' = <<[e |-> Fault, vpn |-> pipe[1], asid |-> walkAsid]>>
  /\ refill' = FALSE
  /\ LET s == VpnToSetIdx(pipe[1], c)
     IN  /\ resp' = [e |-> Fault, set |-> s]
         /\ IF r = NoRequest THEN rd' = mem[s] /\ pipe' = r /\ UNCHANGED <<cls, chk>>
            ELSE Enter(r, s)
         /\ rrRd' = rr[s]
  /\ UNCHANGED <<mem, rr, walkAsid, fsm, flush, asid>>

RefillAnswer(c, g) ==
  /\ fsm = "IDLE" /\ refill
  /\ LET s == VpnToSetIdx(pipe[1], c)
     IN  /\ resp' = [e |-> Entry(pipe[1], walkAsid, c, g, TRUE), set |-> s]
         /\ rd' = mem[s] /\ rrRd' = rr[s]
  /\ fsm' = "REFILL"
  /\ UNCHANGED <<mem, rr, pipe, chk, cls, refill, walkAsid, fwd, flush, asid>>

RefillWrite(r) ==
  /\ fsm = "REFILL" /\ fwd = <<>>
  /\ fwd' = <<[e |-> resp.e, vpn |-> pipe[1], asid |-> walkAsid]>>
  /\ mem' = [mem EXCEPT ![resp.set] =
               [rd EXCEPT ![ReplaceCandidate(rd, chk.vpn, chk.asid, rrRd)] = resp.e]]
  /\ rr' = [rr EXCEPT ![resp.set] = NextReplacement(rd, rrRd)]
  /\ refill' = FALSE /\ fsm' = "IDLE"
  /\ Enter(r, Sets)
  /\ UNCHANGED <<rrRd, walkAsid, resp, flush, asid>>

Accept ==
  /\ fwd # <<>> /\ fwd' = <<>>
  /\ UNCHANGED <<mem, rr, rd, rrRd, pipe, chk, cls, refill, walkAsid, fsm, resp, flush, asid>>

\* sfence_vma has priority over a request and waits for an idle TLB. The set it reads is
\* the one the flush before it ended with, for any address.
FenceReady == ~flush.on /\ pipe = NoRequest /\ ~refill

SFence(allV, allA, v, a) ==
  /\ FenceReady
  /\ chk' = [vpn |-> v, asid |-> a]
  /\ flush' = [on |-> TRUE, set |-> IF allV THEN 0 ELSE VpnToSetIdx(v, 0), cls |-> 0,
               allV |-> allV, allA |-> allA]
  /\ mem' = IF allV \/ CountPages
            THEN [s \in SetIds |-> [w \in 1..Ways |-> Aged(mem[s][w], allV, allA, v, a)]]
            ELSE mem
  /\ rd' = mem'[flush.set]
  /\ UNCHANGED <<rr, rrRd, pipe, cls, refill, walkAsid, fsm, resp, fwd, asid>>

NextFlushSet ==
  IF flush.allV THEN (flush.set + 1) % Sets ELSE VpnToSetIdx(chk.vpn, flush.cls + 1)

FlushDoneEarly == IF flush.allV THEN flush.set = Sets - 1 ELSE TRUE
FlushDone == IF flush.allV THEN flush.set = Sets - 1 ELSE flush.cls = MaxClass

FlushCycle ==
  /\ flush.on
  /\ mem' = [mem EXCEPT ![flush.set] = Flushed(rd, flush.allV, flush.allA, chk.vpn, chk.asid)]
  /\ rd' = mem[NextFlushSet]
  /\ flush' = [flush EXCEPT !.set = NextFlushSet, !.on = ~FlushDone,
                            !.cls = IF flush.allV THEN @ ELSE (@ + 1) % (MaxClass + 1)]
  /\ UNCHANGED <<rr, rrRd, pipe, chk, cls, refill, walkAsid, fsm, resp, fwd, asid>>

\* Environment: satp is written.  The CSR write waits until it is the oldest
\* instruction and fetch is stalled, so no lookup is between its two cycles;
\* a walk for an abandoned fetch may still be running.
WriteSatp ==
  /\ pipe = NoRequest \/ refill
  /\ asid' \in Asids \ {asid}
  /\ UNCHANGED <<mem, rr, rd, rrRd, pipe, chk, cls, refill, walkAsid, fsm, resp, fwd, flush>>

AnyFence == \E allV, allA \in BOOLEAN, v \in Vpns, a \in Asids : SFence(allV, allA, v, a)

Next ==
  \/ \E r \in Requests : \/ Request(r) \/ LookupHit(r) \/ RefillWrite(r)
                         \/ \E c \in 0..MaxClass : RefillFault(r, c)
  \/ LookupNextClass \/ LookupMiss
  \/ \E c \in Classes, g \in Globals : RefillAnswer(c, g)
  \/ Accept \/ AnyFence \/ FlushCycle \/ WriteSatp

Spec == Init /\ [][Next]_vars

-----------------------------------------------------------------------------
\* A lookup never answers with a translation that a counted fence accepted before the
\* request has covered. The flush of all addresses (also the one after reset) keeps this
\* promise. The flush of one address does not: its first cycle writes what was read from
\* the set of the flush before, and a copy in another set is found by a lookup of another
\* size (tlb.py 625, 631-637).
NoStaleHit == fwd # <<>> /\ fwd[1].e.valid => fwd[1].e.fresh

\* When the flush is over, no set holds an entry of its own that a fence covers, whatever
\* was written to it from another set; what can be left is a copy in a foreign set.
HomeFenced ==
  ~flush.on => \A s \in SetIds : \A w \in 1..Ways :
                 LET e == mem[s][w]
                 IN  e.valid /\ ~e.fresh => s # VpnToSetIdx(e.vpn, e.cls)

\* The answer is a translation of the requested page in the address space the
\* request was made for, whatever was read meanwhile from another set.
RightTranslation == fwd # <<>> /\ fwd[1].e.valid =>
                      Translates(fwd[1].e, fwd[1].vpn, fwd[1].asid)
=============================================================================
