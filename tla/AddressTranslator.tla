------------------------- MODULE AddressTranslator -------------------------
(***************************************************************************)
(* Address translation of the load/store unit and of fetch                 *)
(* (class AddressTranslator, priv/vmem/translation.py).  A request decides *)
(* whether the TLB is asked and leaves its address in a forwarder; accept  *)
(* takes the TLB's answer, composes the physical address and checks the    *)
(* permissions.  Page numbers are integers: VpnLen bits of them are        *)
(* translated, one bit per level, XVpnLen bits come from the address.  The *)
(* TLB answers anything.                                                   *)
(***************************************************************************)
EXTENDS Naturals

CONSTANTS Mode,     \* "LSU" or "INSTRUCTION"
          XVpnLen,  \* bits of a page number in a virtual address
          VpnLen,   \* bits of it the paging scheme translates
          PpnLen,   \* bits of a physical page number
          Pages,    \* page numbers that are requested
          Frames    \* page numbers the TLB answers with

\* What the parameters must satisfy.
TranslatorAssumption ==
         /\ Mode \in {"LSU", "INSTRUCTION"} /\ VpnLen \in 1..XVpnLen /\ PpnLen \in Nat
         /\ Pages \subseteq 0..2^XVpnLen - 1 /\ Frames \subseteq 0..2^PpnLen - 1

VARIABLES csr,   \* privilege mode, MPRV, MPP, MXR, SUM and the mode of satp
          fwd,   \* resp_fwd: <<>> or <<request>>
          moved, \* history: csr changed since the request
          out    \* history: the last answer and what it was computed from

vars == <<csr, fwd, moved, out>>

U == 0
S == 1
M == 3
Perms == {"r", "w", "x", "u", "d"}
Csrs == {c \in [priv : {U, S, M}, mprv : BOOLEAN, mpp : {U, S, M}, mxr : BOOLEAN,
                sum : BOOLEAN, satp : {"BARE", "SV"}] : c.mprv \/ c.mpp = U}
\* What the rest of a fault's answer holds does not matter.
Answers == [result : {"HIT"}, perm : SUBSET Perms, class : 0..1, ppn : Frames] \union
           [result : {"PAGE_FAULT", "ACCESS_FAULT"}, perm : {{}}, class : {0}, ppn : Frames]
NoAnswer == [result |-> "HIT", perm |-> {}, class |-> 0, ppn |-> 0]
NoOut == <<>>

TypeOK == /\ csr \in Csrs /\ moved \in BOOLEAN
          /\ (out # NoOut => out[1].ppn \in 0..2^PpnLen - 1)

Init == csr \in Csrs /\ fwd = <<>> /\ moved = FALSE /\ out = NoOut

EffectivePriv == IF Mode = "LSU" /\ csr.mprv THEN csr.mpp ELSE csr.priv
EffectiveSatp == IF EffectivePriv < M THEN csr.satp ELSE "BARE"

\* The bits from the sign bit up are neither all zero nor all one.
Upper(v) == v \div 2^(VpnLen - 1)
VpnInvalid(v) == Upper(v) # 0 /\ Upper(v) # 2^(XVpnLen - VpnLen + 1) - 1

Request(v, store) ==
  /\ fwd = <<>> /\ (Mode = "INSTRUCTION" => ~store)
  /\ fwd' = <<[v |-> v, store |-> store, bare |-> EffectiveSatp = "BARE",
               invalid |-> EffectiveSatp # "BARE" /\ VpnInvalid(v),
               fault |-> EffectiveSatp = "BARE" /\ v > 2^PpnLen - 1]>>
  /\ moved' = FALSE /\ out' = NoOut /\ UNCHANGED csr

AsksTlb(req) == ~req.bare /\ ~req.invalid

\* A superpage takes the lower bits from the virtual page number.
Compose(v, t) == IF t.class = 0 THEN t.ppn ELSE (t.ppn \div 2) * 2 + (v % 2)

\* Permission checks, by kind of access.
ModeFault(req, t) ==
  IF Mode = "INSTRUCTION" THEN "x" \notin t.perm
  ELSE IF req.store THEN "w" \notin t.perm \/ "d" \notin t.perm
  ELSE "r" \notin t.perm /\ ~(csr.mxr /\ "x" \in t.perm)

UserFaultSumFetch(t) ==
  IF EffectivePriv = U THEN "u" \notin t.perm ELSE "u" \in t.perm /\ ~csr.sum
UserFault(t) ==
  IF Mode = "INSTRUCTION" THEN (EffectivePriv = U) # ("u" \in t.perm)
  ELSE IF EffectivePriv = U THEN "u" \notin t.perm ELSE "u" \in t.perm /\ ~csr.sum

TlbPageFault(req, t) == req.invalid \/ t.result = "PAGE_FAULT" \/ ModeFault(req, t) \/ UserFault(t)

Answer(req, t) ==
  IF req.bare THEN [page |-> FALSE, access |-> req.fault, ppn |-> req.v % 2^PpnLen]
  ELSE [page |-> TlbPageFault(req, t) /\ t.result # "ACCESS_FAULT",
        access |-> t.result = "ACCESS_FAULT", ppn |-> Compose(req.v, t)]

\* Without a question to the TLB its answer reads as zero.
Accept(t) ==
  /\ fwd # <<>>
  /\ IF AsksTlb(fwd[1]) THEN TRUE ELSE t = NoAnswer
  /\ LET a == Answer(fwd[1], t)
     IN  out' = <<[page |-> a.page, access |-> a.access, ppn |-> a.ppn,
                   req |-> fwd[1], t |-> t, moved |-> moved, asked |-> AsksTlb(fwd[1])]>>
  /\ fwd' = <<>> /\ moved' = FALSE /\ UNCHANGED csr

\* Traps, returns and CSR writes; a fetch of an abandoned path may be waiting.
WriteCsr == /\ csr' \in Csrs /\ fwd' = fwd /\ moved' = (fwd # <<>>) /\ out' = NoOut

Next == \/ \E v \in Pages, store \in BOOLEAN : Request(v, store)
        \/ \E t \in Answers \union {NoAnswer} : Accept(t)
        \/ WriteCsr

Spec == Init /\ [][Next]_vars

-----------------------------------------------------------------------------
\* Reference, from the privileged architecture: who may access a page how.
Eff == IF Mode = "LSU" /\ csr.mprv THEN csr.mpp ELSE csr.priv
Translating == Eff # M /\ csr.satp = "SV"
Canonical(v) == \A b, c \in VpnLen - 1..XVpnLen - 1 : (v \div 2^b) % 2 = (v \div 2^c) % 2
Access(req) == IF Mode = "INSTRUCTION" THEN "fetch" ELSE IF req.store THEN "store" ELSE "load"
Permitted(acc, perm) ==
  /\ CASE acc = "fetch" -> "x" \in perm
       [] acc = "store" -> {"w", "d"} \subseteq perm
       [] acc = "load"  -> "r" \in perm \/ (csr.mxr /\ "x" \in perm)
  /\ CASE Eff = U -> "u" \in perm
       [] Eff = S -> "u" \notin perm \/ (csr.sum /\ acc # "fetch")
       [] Eff = M -> TRUE

\* While the mode does not change under a request, its answer is the one the
\* architecture defines: a physical address inside the page the TLB found, only
\* for permitted accesses, a page fault otherwise, addresses that are not
\* canonical included, and an access fault for what lies outside of memory.
AccessRight ==
  out # NoOut /\ ~out[1].moved =>
    LET o == out[1]
    IN  IF ~Translating
        THEN ~o.page /\ (o.access <=> o.req.v >= 2^PpnLen) /\ (~o.access => o.ppn = o.req.v)
        ELSE IF ~Canonical(o.req.v) THEN o.page /\ ~o.access
        ELSE /\ o.access <=> o.t.result = "ACCESS_FAULT"
             /\ o.page <=> \/ o.t.result = "PAGE_FAULT"
                           \/ o.t.result = "HIT" /\ ~Permitted(Access(o.req), o.t.perm)
             /\ \/ o.access \/ o.page
                \/ /\ o.ppn \div 2^o.t.class = o.t.ppn \div 2^o.t.class
                   /\ o.t.class = 1 => o.ppn % 2 = o.req.v % 2

=============================================================================
