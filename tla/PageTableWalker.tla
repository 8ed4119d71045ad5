-------------------------- MODULE PageTableWalker --------------------------
(***************************************************************************)
(* The hardware page table walker (priv/vmem/walker.py).  One request at a *)
(* time: read the entry of the current level, evaluate it, descend or      *)
(* stop.  Page tables live in memory that software may change during the   *)
(* walk, so the entry a read returns is chosen when it arrives.  Page      *)
(* numbers are tuples of words, one per level, the lowest first; words of  *)
(* physical page numbers above PpnMax exceed the physical address space.   *)
(***************************************************************************)
EXTENDS Naturals, Sequences

CONSTANTS Levels,   \* levels of the page table (level_count)
          PpnMax,   \* largest word of a page number inside the physical memory
          Tables,   \* physical page numbers that occur
          Vpns,     \* virtual page numbers that are requested
          BitSets,  \* flags of page table entries that occur
          Satps     \* values software writes to satp

Bits == {"V", "R", "W", "X", "U", "G", "A", "D"}

\* What the parameters must satisfy.
WalkerAssumption == /\ Levels \in Nat \ {0} /\ PpnMax \in Nat
                    /\ BitSets \subseteq SUBSET Bits
                    /\ Tables \subseteq [1..Levels -> Nat]
                    /\ Vpns \subseteq [1..Levels -> Nat]
                    /\ \A s \in Satps : s.ppn \in Tables /\ s.mode \in {"BARE", "SV"}

VARIABLES
  fsm,          \* state machine
  level, vpn,   \* walk_level, walk_vpn
  isStore, ppn, \* of the request; table being walked or page found
  accessFault, pageFault,
  asid,         \* walked_asid
  perm,         \* permissions and accessed of the last entry
  satp,         \* the CSR
  start,        \* history: satp when the request was accepted
  seen          \* history: the addresses read and what was found there

vars == <<fsm, level, vpn, isStore, ppn, accessFault, pageFault, asid, perm, satp, start, seen>>

PTEs == [bits : BitSets, ppn : Tables]
NoPpn == CHOOSE p \in Tables : TRUE

TypeOK ==
  /\ fsm \in {"IDLE", "ISSUE", "EVAL", "DONE"} /\ level \in 0..Levels - 1
  /\ vpn \in Vpns /\ ppn \in Tables /\ perm \subseteq Bits /\ satp \in Satps
  /\ isStore \in BOOLEAN /\ accessFault \in BOOLEAN /\ pageFault \in BOOLEAN
  /\ Len(seen) <= Levels

Init ==
  /\ fsm = "IDLE" /\ level = 0 /\ vpn \in Vpns /\ isStore = FALSE
  /\ ppn = NoPpn /\ accessFault = FALSE /\ pageFault = FALSE /\ asid = 0 /\ perm = {}
  /\ satp \in Satps /\ start = satp /\ seen = <<>>

\* The only place where satp is read.
Request(v, store) ==
  /\ fsm = "IDLE"
  /\ vpn' = v /\ isStore' = store /\ accessFault' = FALSE
  /\ ppn' = satp.ppn /\ asid' = satp.asid
  /\ IF satp.mode = "SV"
     THEN level' = Levels - 1 /\ pageFault' = FALSE /\ fsm' = "ISSUE"
     ELSE level' = 0 /\ pageFault' = TRUE /\ fsm' = "DONE"
  /\ start' = satp /\ seen' = <<>>
  /\ UNCHANGED <<perm, satp>>

\* vpn_index and pte_addr.
PteAddr == [table |-> ppn, index |-> vpn[level + 1]]

See(ok, pte) == seen' = Append(seen, [addr |-> PteAddr, ok |-> ok, found |-> pte])

Keep == UNCHANGED <<vpn, isStore, asid, satp, start>>

IssueRefused ==
  /\ fsm = "ISSUE" /\ fsm' = "DONE" /\ accessFault' = TRUE
  /\ See(FALSE, [bits |-> {}, ppn |-> ppn])
  /\ Keep /\ UNCHANGED <<level, ppn, pageFault, perm>>

Issue == /\ fsm = "ISSUE" /\ fsm' = "EVAL"
         /\ Keep /\ UNCHANGED <<level, ppn, accessFault, pageFault, perm, seen>>

IsLeaf(pte) == "R" \in pte.bits \/ "X" \in pte.bits

Invalid(pte) ==
  \/ "V" \notin pte.bits
  \/ "W" \in pte.bits /\ "R" \notin pte.bits
  \/ ~IsLeaf(pte) /\ pte.bits \intersect {"A", "D", "U"} # {}

TooLarge(p) == \E i \in 1..Levels : p[i] > PpnMax

\* What the evaluation does with an entry that arrived without a bus error.
Verdict(pte) == IF Invalid(pte) THEN "page_fault"
                ELSE IF TooLarge(pte.ppn) THEN "access_fault"
                ELSE IF IsLeaf(pte) THEN "leaf"
                ELSE IF level = 0 THEN "page_fault" ELSE "down"

\* The entry itself is stored whatever the verdict.
Eval(pte) ==
  /\ fsm = "EVAL"
  /\ perm' = pte.bits /\ ppn' = pte.ppn
  /\ accessFault' = (Verdict(pte) = "access_fault")
  /\ pageFault' = (Verdict(pte) = "page_fault")
  /\ level' = IF Verdict(pte) = "down" THEN level - 1 ELSE level
  /\ fsm' = IF Verdict(pte) = "down" THEN "ISSUE" ELSE "DONE"
  /\ See(TRUE, pte) /\ Keep

EvalBusErrorLost(pte) ==
  /\ fsm = "EVAL" /\ accessFault' = TRUE
  /\ perm' = pte.bits /\ ppn' = pte.ppn
  /\ Keep /\ UNCHANGED <<fsm, level, pageFault, seen>>
EvalBusError(pte) ==
  /\ fsm = "EVAL" /\ fsm' = "DONE" /\ accessFault' = TRUE
  /\ perm' = pte.bits /\ ppn' = pte.ppn
  /\ See(FALSE, pte)
  /\ Keep /\ UNCHANGED <<level, pageFault>>

\* The lower words of a superpage must be zero.
Misaligned == \E i \in 1..level : ppn[i] # 0

Result == IF accessFault THEN "ACCESS_FAULT"
          ELSE IF pageFault \/ Misaligned THEN "PAGE_FAULT"
          ELSE IF "A" \notin perm \/ (isStore /\ "D" \notin perm) THEN "PAGE_FAULT"
          ELSE "HIT"

Accept == /\ fsm = "DONE" /\ fsm' = "IDLE"
          /\ seen' = <<>>
          /\ Keep /\ UNCHANGED <<level, ppn, accessFault, pageFault, perm>>

\* Environment: software writes satp, also while a walk is running.
WriteSatp == /\ satp' \in Satps
             /\ UNCHANGED <<fsm, level, vpn, isStore, ppn, accessFault, pageFault, asid, perm, start, seen>>

Next ==
  \/ \E v \in Vpns, store \in BOOLEAN : Request(v, store)
  \/ IssueRefused \/ Issue \/ Accept \/ WriteSatp
  \/ \E pte \in PTEs : Eval(pte) \/ EvalBusError([pte EXCEPT !.bits = {}])

Spec == Init /\ [][Next]_vars

-----------------------------------------------------------------------------
(* Reference: the translation algorithm of the privileged architecture,    *)
(* applied to what memory answered, read by read.                          *)

\* Address of the n-th read: the root from satp, then the entry before it.
ReadAt(n) == [table |-> IF n = 1 THEN start.ppn ELSE seen[n - 1].found.ppn,
              index |-> vpn[Levels - n + 1]]

Arrived(n) == seen[n].ok
Bad(pte) == ~({"V"} \subseteq pte.bits) \/ pte.bits \intersect {"R", "W"} = {"W"}
Pointer(pte) == pte.bits \intersect {"R", "W", "X"} = {}
BadPointer(pte) == Pointer(pte) /\ pte.bits \intersect {"A", "D", "U"} # {}

Last == Len(seen)
LastPte == seen[Last].found
Class == Levels - Last

\* A translation exists: the reads before the last found pointers, the last one
\* a leaf that is aligned, accessed and, for a store, dirty.
Translated ==
  /\ start.mode = "SV" /\ Last > 0 /\ Arrived(Last)
  /\ ~Bad(LastPte) /\ ~Pointer(LastPte) /\ ~TooLarge(LastPte.ppn)
  /\ \A i \in 1..Class : LastPte.ppn[i] = 0
  /\ "A" \in LastPte.bits /\ (isStore => "D" \in LastPte.bits)

\* A finished walk reports a translation exactly if the architecture defines one,
\* with the page, permissions and size of the leaf and the address space of the
\* satp value it started from, whatever is written to satp meanwhile.
WalkCorrect ==
  fsm = "DONE" =>
    /\ \A n \in 1..Last : seen[n].addr = ReadAt(n)
    /\ Result = "HIT" <=> Translated
    /\ Result = "HIT" => /\ ppn = LastPte.ppn /\ perm = LastPte.bits
                         /\ level = Class /\ asid = start.asid

\* Faults are of the right kind: an access fault exactly if memory refused the
\* read, the bus failed or the entry points outside of physical memory, a page
\* fault for everything the page table itself says.
FaultKind ==
  fsm = "DONE" /\ Result # "HIT" =>
    (Result = "ACCESS_FAULT" <=>
       /\ Last > 0
       /\ Arrived(Last) => ~Bad(LastPte) /\ ~BadPointer(LastPte) /\ TooLarge(LastPte.ppn))
=============================================================================
