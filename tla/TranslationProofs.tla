------------------------- MODULE TranslationProofs --------------------------
(***************************************************************************)
(* The address translation path for all sizes: both levels of TLB, the     *)
(* page table walker and the lock of the memory protection.  Each result   *)
(* is proved for every value of a component's parameters, which a record   *)
(* k holds, and then for the instances that MCTranslation composes.        *)
(***************************************************************************)
EXTENDS MCTranslation, FiniteSetTheorems, WellFoundedInduction, TLAPS

(***************************************************************************)
(* Every nonempty set of naturals has a least element.                     *)
(***************************************************************************)
LEMMA NatOrder == \A x, y \in Nat : x < y => <<x, y>> \in OpToRel(<, Nat)
BY SMT DEF OpToRel

LEMMA LeastElement ==
    ASSUME NEW S \in SUBSET Nat, S # {}
    PROVE  \E x \in S : \A y \in S : x <= y
<1>1. PICK x \in S : \A y \in S : ~ (<<y, x>> \in OpToRel(<, Nat))
  BY WFMin, NatLessThanWellFounded
<1>2. \A y \in S : ~ (y < x)
  BY <1>1, NatOrder
<1> QED BY <1>2

\* A number below the modulus is its own remainder.
LEMMA SmallMod ==
    ASSUME NEW n \in Nat \ {0}, NEW i \in 0 .. n - 1
    PROVE  i % n = i
OBVIOUS

-----------------------------------------------------------------------------
(***************************************************************************)
(* The first level TLB.  Its inductive invariant:                          *)
(*  - an entry that some accepted fence covers is covered by a fence that  *)
(*    still waits in the queue, and while the queue is not empty no port   *)
(*    looks anything up;                                                   *)
(*  - at most one port refills; the fences accepted since it asked are     *)
(*    all still in the queue, because the flush waits for the refill;      *)
(*  - a port that refills for a request younger than every fence and satp  *)
(*    write has asked for the current address space, after every fence.    *)
(***************************************************************************)
L1Assumption(k) == L1(k)!CamAssumption /\ L1(k)!FullAssumption

Answers(k) == {<<>>} \cup {<<e>> : e \in L1(k)!Entries \cup {L1(k)!Fault}}
L1Types(k) ==
    /\ L1(k)!TypeOK /\ flushQueue \in Seq(L1(k)!Fences)
    /\ result \in [L1(k)!PortIds -> Answers(k)]

OneRefill(k) == \A p, q \in L1(k)!PortIds : refilling[p] /\ refilling[q] => p = q

RefillWaits(k) == \A p \in L1(k)!PortIds : refilling[p] =>
    /\ slow[p]
    /\ \A f \in since : \E i \in DOMAIN flushQueue : flushQueue[i] = f
    /\ p \notin late => since = {} /\ asked = l1Asid

StaleCovered(k) == \A w \in 1 .. k.size : entries[w].valid /\ ~entries[w].fresh =>
    \E i \in DOMAIN flushQueue :
        L1(k)!Fenced(entries[w], flushQueue[i].allV, flushQueue[i].allA,
                     flushQueue[i].vpn, flushQueue[i].asid)

L1Inv(k) == /\ L1Types(k) /\ OneRefill(k) /\ RefillWaits(k) /\ StaleCovered(k)
            /\ L1(k)!NoStaleAnswer /\ L1(k)!RightAnswer

(***************************************************************************)
(* Entries, matches and fences.                                            *)
(***************************************************************************)
\* The fields of an entry.
LEMMA L1EntryFields ==
    ASSUME NEW CONSTANT k, L1Assumption(k), NEW e \in L1(k)!Entries
    PROVE  /\ e.valid = TRUE /\ e.vpn \in L1(k)!Vpns /\ e.asid \in k.asids
           /\ e.cls \in k.classes /\ e.cls \in 0 .. k.maxClass /\ e.g \in BOOLEAN
           /\ e.g \in k.globals /\ e.fresh \in BOOLEAN
           /\ e = L1(k)!Entry(e.vpn, e.asid, e.cls, e.g, e.fresh)
BY DEF L1!Entries, L1!Entry, L1Assumption, L1!CamAssumption

\* What a fence removes is what the architecture says it covers.
LEMMA L1CoversIsFenced ==
    ASSUME NEW CONSTANT k, L1Assumption(k), NEW e \in L1(k)!Entries,
           NEW v \in L1(k)!Vpns, NEW a, NEW allV \in BOOLEAN, NEW allA \in BOOLEAN
    PROVE  L1(k)!Covers(e, allV, allA, v, a) <=> L1(k)!Fenced(e, allV, allA, v, a)
<1>1. /\ e.cls \in 0 .. k.maxClass /\ k.maxClass \in Nat /\ e.g \in BOOLEAN
  BY L1EntryFields DEF L1Assumption, L1!CamAssumption
<1>2. L1(k)!AddrMatch(e, v) <=> v \in L1(k)!PagesOf(e)
  <2>1. ASSUME L1(k)!AddrMatch(e, v), NEW c \in 1 .. k.maxClass + 1, c > e.cls
        PROVE  v[c] = e.vpn[c]
    <3>1. c - 1 \in e.cls .. k.maxClass /\ (c - 1) + 1 = c
      BY <1>1, <2>1
    <3> QED BY <2>1, <3>1 DEF L1!AddrMatch
  <2>2. ASSUME v \in L1(k)!PagesOf(e), NEW c \in e.cls .. k.maxClass
        PROVE  e.vpn[c + 1] = v[c + 1]
    <3>1. c + 1 \in 1 .. k.maxClass + 1 /\ c + 1 > e.cls
      BY <1>1
    <3> QED BY <2>2, <3>1 DEF L1!PagesOf
  <2> QED BY <2>1, <2>2 DEF L1!AddrMatch, L1!PagesOf
<1> QED BY <1>1, <1>2 DEF L1!Covers, L1!Fenced, L1!AsidMatch

\* A match translates the page in the address space.
LEMMA L1MatchTranslates ==
    ASSUME NEW CONSTANT k, L1Assumption(k),
           NEW e \in L1(k)!Entries \cup {L1(k)!Invalid}, NEW v \in L1(k)!Vpns, NEW a,
           L1(k)!FullMatch(e, v, a)
    PROVE  e \in L1(k)!Entries /\ L1(k)!Translates(e, v, a)
<1>1. e \in L1(k)!Entries
  BY DEF L1!FullMatch, L1!Invalid
<1>2. /\ e.cls \in 0 .. k.maxClass /\ k.maxClass \in Nat /\ e.g \in BOOLEAN
  BY <1>1, L1EntryFields DEF L1Assumption, L1!CamAssumption
<1>3. ASSUME NEW c \in 1 .. k.maxClass + 1, c > e.cls PROVE v[c] = e.vpn[c]
  <2>1. c - 1 \in e.cls .. k.maxClass /\ (c - 1) + 1 = c
    BY <1>2, <1>3
  <2> QED BY <2>1 DEF L1!FullMatch, L1!AddrMatch
<1> QED BY <1>1, <1>2, <1>3 DEF L1!Translates, L1!PagesOf, L1!FullMatch, L1!AsidMatch

\* The matched entry is the entry of a way that matches.
LEMMA L1MatchedIsHit ==
    ASSUME NEW CONSTANT k, L1Assumption(k), L1Types(k), NEW v \in L1(k)!Vpns, NEW a,
           L1(k)!Hits(entries, v, a) # {}
    PROVE  \E w \in 1 .. k.size : /\ L1(k)!MatchedEntry(entries, v, a) = entries[w]
                                  /\ L1(k)!FullMatch(entries[w], v, a)
<1> DEFINE H == L1(k)!Hits(entries, v, a)
<1>1. /\ H \subseteq 1 .. k.size /\ k.size \in Nat
      /\ \A w \in H : L1(k)!FullMatch(entries[w], v, a)
  BY DEF L1Types, L1!TypeOK, L1!Hits, L1Assumption, L1!FullAssumption
<1>2. L1(k)!Min(H) \in H
  <2>1. H \in SUBSET Nat /\ H # {}
    BY <1>1
  <2> HIDE DEF H
  <2>2. \E x \in H : \A y \in H : x <= y
    BY <2>1, LeastElement
  <2> QED BY <2>2 DEF L1!Min
<1> QED BY <1>1, <1>2 DEF L1!MatchedEntry

\* What an entry is made of.
LEMMA L1EntryMade ==
    ASSUME NEW CONSTANT k, NEW v \in L1(k)!Vpns, NEW a \in k.asids, NEW c \in k.classes,
           NEW g \in k.globals, NEW f \in BOOLEAN
    PROVE  LET e == L1(k)!Entry(v, a, c, g, f)
           IN  /\ e \in L1(k)!Entries /\ e.valid = TRUE /\ e.vpn = v /\ e.asid = a
               /\ e.cls = c /\ e.g = g /\ e.fresh = f
<1>1. L1(k)!Entry(v, a, c, g, f) \in L1(k)!Entries
  BY DEF L1!Entries
<1> QED BY <1>1 DEF L1!Entry

\* Ageing keeps an entry an entry for the same pages.
LEMMA L1AgedEntry ==
    ASSUME NEW CONSTANT k, L1Assumption(k),
           NEW e \in L1(k)!Entries \cup {L1(k)!Invalid},
           NEW allV \in BOOLEAN, NEW allA \in BOOLEAN, NEW v, NEW a
    PROVE  /\ L1(k)!Aged(e, allV, allA, v, a) \in L1(k)!Entries \cup {L1(k)!Invalid}
           /\ L1(k)!Aged(e, allV, allA, v, a).valid = e.valid
           /\ e.valid => /\ L1(k)!Aged(e, allV, allA, v, a).vpn = e.vpn
                         /\ L1(k)!Aged(e, allV, allA, v, a).asid = e.asid
                         /\ L1(k)!Aged(e, allV, allA, v, a).cls = e.cls
                         /\ L1(k)!Aged(e, allV, allA, v, a).g = e.g
                         /\ L1(k)!Aged(e, allV, allA, v, a).fresh =
                              (e.fresh /\ ~L1(k)!Fenced(e, allV, allA, v, a))
<1>1. CASE e = L1(k)!Invalid
  BY <1>1 DEF L1!Aged, L1!Fenced, L1!Invalid
<1>2. CASE e \in L1(k)!Entries
  <2>1. /\ e.valid = TRUE /\ e.vpn \in L1(k)!Vpns /\ e.asid \in k.asids
        /\ e.cls \in k.classes /\ e.g \in k.globals /\ e.fresh \in BOOLEAN
        /\ e = L1(k)!Entry(e.vpn, e.asid, e.cls, e.g, e.fresh)
    BY <1>2, L1EntryFields
  <2> DEFINE o == L1(k)!Entry(e.vpn, e.asid, e.cls, e.g, FALSE)
  <2>2. [e EXCEPT !.fresh = FALSE] = o
    <3>1. e \in [valid : {TRUE}, vpn : L1(k)!Vpns, asid : k.asids, cls : k.classes,
                 g : k.globals, fresh : BOOLEAN]
      BY <2>1 DEF L1!Entry
    <3>2. \A b \in BOOLEAN : [e EXCEPT !.fresh = b] =
             [valid |-> e.valid, vpn |-> e.vpn, asid |-> e.asid, cls |-> e.cls, g |-> e.g,
              fresh |-> b]
      BY <3>1
    <3> QED BY <2>1, <3>2, Zenon DEF L1!Entry
  <2>3. /\ o \in L1(k)!Entries /\ o.valid = TRUE /\ o.vpn = e.vpn /\ o.asid = e.asid
        /\ o.cls = e.cls /\ o.g = e.g /\ o.fresh = FALSE
    BY <2>1, L1EntryMade
  <2> HIDE DEF o
  <2>4. CASE L1(k)!Fenced(e, allV, allA, v, a)
    <3>1. L1(k)!Aged(e, allV, allA, v, a) = o
      BY <2>2, <2>4, Zenon DEF L1!Aged
    <3> QED BY <2>1, <2>3, <2>4, <3>1
  <2>5. CASE ~L1(k)!Fenced(e, allV, allA, v, a)
    BY <1>2, <2>1, <2>5 DEF L1!Aged
  <2> QED BY <2>4, <2>5
<1> QED BY <1>1, <1>2

\* What a fence covers depends on the page, the address space and the size only.
LEMMA L1FencedSame ==
    ASSUME NEW CONSTANT k, NEW e, NEW d, e.valid = d.valid, e.vpn = d.vpn,
           e.asid = d.asid, e.cls = d.cls, e.g = d.g, NEW allV, NEW allA, NEW v, NEW a
    PROVE  L1(k)!Fenced(e, allV, allA, v, a) <=> L1(k)!Fenced(d, allV, allA, v, a)
BY DEF L1!Fenced, L1!PagesOf

\* The entry a refill writes.
RefillsWith(k, p, c, g, e) ==
  /\ e \in L1(k)!Entries /\ e.valid = TRUE /\ e.vpn = vpnReq[p]
  /\ e.asid = asked /\ e.cls = c /\ e.g = g
  /\ e.fresh = \A f \in since : ~L1(k)!Fenced(e, f.allV, f.allA, f.vpn, f.asid)

LEMMA L1RefillEntry ==
    ASSUME NEW CONSTANT k, L1Assumption(k), L1Types(k), NEW p \in L1(k)!PortIds,
           NEW c \in k.classes, NEW g \in k.globals
    PROVE  RefillsWith(k, p, c, g, L1(k)!RefillEntry(p, c, g))
<1> USE DEF RefillsWith
<1> DEFINE e0 == L1(k)!Entry(vpnReq[p], asked, c, g, TRUE)
           e == L1(k)!RefillEntry(p, c, g)
<1>1. vpnReq[p] \in L1(k)!Vpns /\ asked \in k.asids
  BY DEF L1Types, L1!TypeOK
<1>2. PICK b \in BOOLEAN :
        b = \A f \in since : ~L1(k)!Fenced(e0, f.allV, f.allA, f.vpn, f.asid)
  OBVIOUS
<1>3. e = L1(k)!Entry(vpnReq[p], asked, c, g, b)
  <2>1. /\ e0 \in [valid : {TRUE}, vpn : {vpnReq[p]}, asid : {asked}, cls : {c}, g : {g},
                    fresh : BOOLEAN]
        /\ e0.valid = TRUE /\ e0.vpn = vpnReq[p] /\ e0.asid = asked /\ e0.cls = c
        /\ e0.g = g
    BY DEF L1!Entry
  <2>2. e = [e0 EXCEPT !.fresh = b]
    BY <1>2, Zenon DEF L1!RefillEntry
  <2> HIDE DEF e0, e
  <2>3. [e0 EXCEPT !.fresh = b] = [valid |-> e0.valid, vpn |-> e0.vpn, asid |-> e0.asid,
                                   cls |-> e0.cls, g |-> e0.g, fresh |-> b]
    BY <2>1
  <2> QED BY <2>1, <2>2, <2>3, Zenon DEF L1!Entry
<1>4. /\ e \in L1(k)!Entries /\ e.valid = TRUE /\ e.vpn = vpnReq[p]
      /\ e.asid = asked /\ e.cls = c /\ e.g = g /\ e.fresh = b
  <2>1. PICK v \in L1(k)!Vpns, a \in k.asids : v = vpnReq[p] /\ a = asked
    BY <1>1
  <2> HIDE DEF e
  <2>2. LET d == L1(k)!Entry(v, a, c, g, b)
        IN  /\ d \in L1(k)!Entries /\ d.valid = TRUE /\ d.vpn = v /\ d.asid = a
            /\ d.cls = c /\ d.g = g /\ d.fresh = b
    <3>1. v \in L1(k)!Vpns /\ a \in k.asids /\ c \in k.classes /\ g \in k.globals /\ b \in BOOLEAN
      BY <1>2, <2>1, Zenon
    <3>2. L1(k)!Entry(v, a, c, g, b) \in L1(k)!Entries
      BY <3>1, L1EntryMade, Zenon
    <3> QED BY <3>2 DEF L1!Entry
  <2>3. e = L1(k)!Entry(v, a, c, g, b)
    BY <1>3, <2>1, Zenon
  <2> QED BY <2>1, <2>2, <2>3, Zenon
<1>5. /\ e0.valid = TRUE /\ e0.vpn = vpnReq[p] /\ e0.asid = asked /\ e0.cls = c /\ e0.g = g
  BY DEF L1!Entry
<1>6. b = \A f \in since : ~L1(k)!Fenced(e, f.allV, f.allA, f.vpn, f.asid)
  <2> HIDE DEF e, e0
  <2>1. \A f \in since : L1(k)!Fenced(e, f.allV, f.allA, f.vpn, f.asid)
                           <=> L1(k)!Fenced(e0, f.allV, f.allA, f.vpn, f.asid)
    BY <1>4, <1>5, L1FencedSame
  <2> QED BY <1>2, <2>1
<1> QED BY <1>4, <1>6

(***************************************************************************)
(* The steps.                                                              *)
(***************************************************************************)
\* The cardinality of the library's theorems is the one of the component.
LEMMA L1Cardinality ==
    ASSUME NEW CONSTANT k, NEW S PROVE L1(k)!Cardinality(S) = Cardinality(S)
BY Zenon DEF L1!Cardinality, Cardinality

LEMMA L1OneRefillCounted ==
    ASSUME NEW CONSTANT k, L1Assumption(k), OneRefill(k)
    PROVE  L1(k)!Cardinality({p \in L1(k)!PortIds : refilling[p]}) <= 1
<1> DEFINE R == {p \in L1(k)!PortIds : refilling[p]}
<1>1. CASE R = {}
  <2>1. Cardinality(R) = 0
    BY <1>1, FS_EmptySet
  <2> QED BY <2>1, L1Cardinality
<1>2. CASE R # {}
  <2>1. PICK p : p \in R
    BY <1>2
  <2>2. R = {p}
    BY <2>1 DEF OneRefill
  <2> HIDE DEF R
  <2>3. Cardinality(R) = 1
    BY <2>2, FS_Singleton
  <2>4. L1(k)!Cardinality(R) = 1
    BY <2>3, L1Cardinality
  <2> QED BY <2>4 DEF R
<1> QED BY <1>1, <1>2

\* The state without its entries and answers keeps its types: the part of TypeOK
\* that most actions leave alone.
L1Frame(k) ==
    /\ l1Rr \in 1 .. k.size /\ Len(flushQueue) <= k.depth
    /\ flushQueue \in Seq(L1(k)!Fences)
    /\ slow \in [L1(k)!PortIds -> BOOLEAN] /\ vpnReq \in [L1(k)!PortIds -> L1(k)!Vpns]
    /\ refilling \in [L1(k)!PortIds -> BOOLEAN]
    /\ asked \in k.asids /\ since \subseteq L1(k)!Fences
    /\ late \subseteq L1(k)!PortIds /\ l1Asid \in k.asids
L1Data(k) ==
    /\ entries \in [1 .. k.size -> L1(k)!Entries \cup {L1(k)!Invalid}]
    /\ result \in [L1(k)!PortIds -> Answers(k)]

LEMMA L1TypesForms ==
    ASSUME NEW CONSTANT k, L1Assumption(k)
    PROVE  OneRefill(k) => (L1Types(k) <=> L1Frame(k) /\ L1Data(k))
<1>1. OneRefill(k) => L1(k)!Cardinality({p \in L1(k)!PortIds : refilling[p]}) <= 1
  BY L1OneRefillCounted
<1>2. flushQueue \in Seq(L1(k)!Fences) =>
        \A f \in DOMAIN flushQueue : flushQueue[f] \in L1(k)!Fences
  OBVIOUS
<1> QED BY <1>1, <1>2 DEF L1Types, L1Frame, L1Data, L1!TypeOK

\* The invariant in the form the steps use.
L1Core(k) == /\ L1Frame(k) /\ L1Data(k) /\ OneRefill(k) /\ RefillWaits(k)
             /\ StaleCovered(k) /\ L1(k)!NoStaleAnswer /\ L1(k)!RightAnswer

LEMMA L1Forms ==
    ASSUME NEW CONSTANT k, L1Assumption(k)
    PROVE  L1Inv(k) <=> L1Core(k)
BY L1TypesForms DEF L1Inv, L1Core

\* A lookup that finds something, while no fence waits.
LEMMA L1LookupRight ==
    ASSUME NEW CONSTANT k, L1Assumption(k), L1Inv(k), flushQueue = <<>>,
           NEW v \in L1(k)!Vpns, L1(k)!Hits(entries, v, l1Asid) # {}
    PROVE  LET e == L1(k)!MatchedEntry(entries, v, l1Asid)
           IN  e \in L1(k)!Entries /\ e.fresh /\ L1(k)!Translates(e, v, l1Asid)
<1>1. PICK w \in 1 .. k.size : /\ L1(k)!MatchedEntry(entries, v, l1Asid) = entries[w]
                               /\ L1(k)!FullMatch(entries[w], v, l1Asid)
  BY L1MatchedIsHit DEF L1Inv
<1>2. entries[w] \in L1(k)!Entries \cup {L1(k)!Invalid}
  BY DEF L1Inv, L1Types, L1!TypeOK
<1>3. entries[w] \in L1(k)!Entries /\ L1(k)!Translates(entries[w], v, l1Asid)
  BY <1>1, <1>2, L1MatchTranslates
<1>4. entries[w].fresh
  <2>1. entries[w].valid
    BY <1>1 DEF L1!FullMatch
  <2> QED BY <2>1 DEF L1Inv, StaleCovered
<1> QED BY <1>1, <1>3, <1>4

LEMMA L1Request ==
    ASSUME NEW CONSTANT k, L1Assumption(k), L1Inv(k), NEW p \in L1(k)!PortIds,
           NEW v \in L1(k)!Vpns, L1(k)!Request(p, v)
    PROVE  L1Core(k)'
<1>1. L1Core(k)
  BY L1Forms
<1>2. /\ flushQueue = <<>> /\ ~refilling[p] /\ ~slow[p] /\ result[p] = <<>>
      /\ vpnReq' = [vpnReq EXCEPT ![p] = v] /\ late' = late \ {p}
      /\ UNCHANGED <<entries, l1Rr, flushQueue, refilling, asked, since, l1Asid>>
  BY DEF L1!Request, L1!NoLookup
<1> DEFINE e == L1(k)!MatchedEntry(entries, v, l1Asid)
<1>3. \/ /\ e \in L1(k)!Entries /\ e.fresh /\ L1(k)!Translates(e, v, l1Asid)
         /\ result' = [result EXCEPT ![p] = <<e>>] /\ slow' = slow
      \/ slow' = [slow EXCEPT ![p] = TRUE] /\ result' = result
  <2>1. CASE L1(k)!Hits(entries, v, l1Asid) # {}
    BY <1>2, <2>1, L1LookupRight DEF L1!Request, L1!Answer
  <2>2. CASE L1(k)!Hits(entries, v, l1Asid) = {}
    BY <2>2 DEF L1!Request
  <2> QED BY <2>1, <2>2
<1> HIDE DEF e
<1>4. L1Frame(k)'
  BY <1>1, <1>2, <1>3 DEF L1Core, L1Frame
<1>5. L1Data(k)'
  BY <1>1, <1>2, <1>3 DEF L1Core, L1Data, Answers
<1>6. OneRefill(k)'
  BY <1>1, <1>2 DEF L1Core, OneRefill
<1>7. RefillWaits(k)'
  BY <1>1, <1>2, <1>3 DEF L1Core, RefillWaits, L1Frame
<1>8. StaleCovered(k)'
  BY <1>1, <1>2 DEF L1Core, StaleCovered
<1>9. L1(k)!NoStaleAnswer'
  BY <1>1, <1>2, <1>3 DEF L1Core, L1Data, L1!NoStaleAnswer
<1>10. L1(k)!RightAnswer'
  BY <1>1, <1>2, <1>3 DEF L1Core, L1Data, L1Frame, L1!RightAnswer
<1> QED BY <1>4, <1>5, <1>6, <1>7, <1>8, <1>9, <1>10 DEF L1Core

LEMMA L1AsyncResolve ==
    ASSUME NEW CONSTANT k, L1Assumption(k), L1Inv(k), NEW p \in L1(k)!PortIds,
           L1(k)!AsyncResolve(p)
    PROVE  L1Core(k)'
<1>1. L1Core(k)
  BY L1Forms
<1> DEFINE e == L1(k)!MatchedEntry(entries, vpnReq[p], l1Asid)
<1>2. /\ flushQueue = <<>> /\ ~refilling[p] /\ slow[p] /\ result[p] = <<>>
      /\ slow' = [slow EXCEPT ![p] = FALSE] /\ result' = [result EXCEPT ![p] = <<e>>]
      /\ UNCHANGED <<entries, l1Rr, flushQueue, vpnReq, refilling, asked, since, late, l1Asid>>
  BY DEF L1!AsyncResolve, L1!NoLookup, L1!Answer
<1>3. e \in L1(k)!Entries /\ e.fresh /\ L1(k)!Translates(e, vpnReq[p], l1Asid)
  <2>1. vpnReq[p] \in L1(k)!Vpns
    BY <1>1 DEF L1Core, L1Frame
  <2> QED BY <1>2, <2>1, L1LookupRight DEF L1!AsyncResolve
<1> HIDE DEF e
<1>4. L1Frame(k)'
  BY <1>1, <1>2 DEF L1Core, L1Frame
<1>5. L1Data(k)'
  BY <1>1, <1>2, <1>3 DEF L1Core, L1Data, Answers
<1>6. OneRefill(k)'
  BY <1>1, <1>2 DEF L1Core, OneRefill
<1>7. RefillWaits(k)'
  BY <1>1, <1>2 DEF L1Core, RefillWaits, L1Frame
<1>8. StaleCovered(k)'
  BY <1>1, <1>2 DEF L1Core, StaleCovered
<1>9. L1(k)!NoStaleAnswer'
  BY <1>1, <1>2, <1>3 DEF L1Core, L1Data, L1!NoStaleAnswer
<1>10. L1(k)!RightAnswer'
  BY <1>1, <1>2, <1>3 DEF L1Core, L1Data, L1!RightAnswer
<1> QED BY <1>4, <1>5, <1>6, <1>7, <1>8, <1>9, <1>10 DEF L1Core

LEMMA L1RequestRefill ==
    ASSUME NEW CONSTANT k, L1Assumption(k), L1Inv(k), NEW p \in L1(k)!PortIds,
           L1(k)!RequestRefill(p)
    PROVE  L1Core(k)'
<1>1. L1Core(k)
  BY L1Forms
<1>2. /\ slow[p] /\ \A q \in L1(k)!PortIds : ~refilling[q]
      /\ refilling' = [refilling EXCEPT ![p] = TRUE] /\ asked' = l1Asid /\ since' = {}
      /\ UNCHANGED <<entries, l1Rr, flushQueue, slow, vpnReq, late, result, l1Asid>>
  BY DEF L1!RequestRefill, L1!SemaphoreFree
<1>4. L1Frame(k)'
  BY <1>1, <1>2 DEF L1Core, L1Frame
<1>5. L1Data(k)'
  BY <1>1, <1>2 DEF L1Core, L1Data, Answers
<1>6. OneRefill(k)'
  BY <1>1, <1>2 DEF L1Core, L1Frame, OneRefill
<1>7. RefillWaits(k)'
  BY <1>1, <1>2 DEF L1Core, RefillWaits, L1Frame
<1>8. StaleCovered(k)'
  BY <1>1, <1>2 DEF L1Core, StaleCovered
<1>9. L1(k)!NoStaleAnswer'
  BY <1>1, <1>2 DEF L1Core, L1!NoStaleAnswer
<1>10. L1(k)!RightAnswer'
  BY <1>1, <1>2 DEF L1Core, L1!RightAnswer
<1> QED BY <1>4, <1>5, <1>6, <1>7, <1>8, <1>9, <1>10 DEF L1Core

\* Replacement stays among the ways.
LEMMA L1NextReplacement ==
    ASSUME NEW CONSTANT k, L1Assumption(k), L1Core(k)
    PROVE  L1(k)!NextReplacement(entries, l1Rr) \in 1 .. k.size
<1>1. /\ k.size \in Nat \ {0} /\ l1Rr \in 1 .. k.size /\ DOMAIN entries = 1 .. k.size
  BY DEF L1Assumption, L1!FullAssumption, L1Core, L1Frame, L1Data
<1>2. L1(k)!Cardinality(DOMAIN entries) = k.size
  BY <1>1, L1Cardinality, FS_Interval
<1>3. l1Rr % k.size \in 0 .. k.size - 1
  BY <1>1
<1> QED BY <1>1, <1>2, <1>3 DEF L1!NextReplacement

LEMMA L1Refill ==
    ASSUME NEW CONSTANT k, L1Assumption(k), L1Inv(k), NEW p \in L1(k)!PortIds,
           NEW c \in k.classes, NEW g \in k.globals, L1(k)!Refill(p, c, g)
    PROVE  L1Core(k)'
<1>1. L1Core(k) /\ L1Types(k)
  BY L1Forms DEF L1Inv
<1> DEFINE e == L1(k)!RefillEntry(p, c, g)
           w == L1(k)!ReplaceCandidate(entries, vpnReq[p], asked, l1Rr)
<1>2. /\ refilling[p] /\ result[p] = <<>>
      /\ refilling' = [refilling EXCEPT ![p] = FALSE] /\ slow' = [slow EXCEPT ![p] = FALSE]
      /\ result' = [result EXCEPT ![p] = <<e>>] /\ entries' = [entries EXCEPT ![w] = e]
      /\ l1Rr' = L1(k)!NextReplacement(entries, l1Rr) /\ since' = {}
      /\ UNCHANGED <<flushQueue, vpnReq, asked, late, l1Asid>>
  BY DEF L1!Refill, L1!RefillDone, L1!Answer
<1>12. RefillsWith(k, p, c, g, e)
  BY <1>1, L1RefillEntry
<1>11. L1(k)!NextReplacement(entries, l1Rr) \in 1 .. k.size
  BY <1>1, L1NextReplacement
<1> HIDE DEF e, w
<1>3. /\ e \in L1(k)!Entries /\ e.valid = TRUE /\ e.vpn = vpnReq[p]
      /\ e.asid = asked /\ e.cls = c /\ e.g = g
      /\ e.fresh = \A f \in since : ~L1(k)!Fenced(e, f.allV, f.allA, f.vpn, f.asid)
  BY <1>12 DEF RefillsWith
<1>4. L1Frame(k)'
  BY <1>1, <1>2, <1>11 DEF L1Core, L1Frame
<1>5. L1Data(k)'
  <2>1. <<e>> \in Answers(k)
    BY <1>3 DEF Answers
  <2> QED BY <1>1, <1>2, <1>3, <2>1 DEF L1Core, L1Data
<1>6. OneRefill(k)'
  BY <1>1, <1>2 DEF L1Core, L1Frame, OneRefill
<1>7. RefillWaits(k)'
  BY <1>1, <1>2 DEF L1Core, RefillWaits, OneRefill, L1Frame
<1>8. StaleCovered(k)'
  <2> SUFFICES ASSUME NEW x \in 1 .. k.size, entries'[x].valid, ~entries'[x].fresh
               PROVE  \E i \in DOMAIN flushQueue :
                         L1(k)!Fenced(entries'[x], flushQueue[i].allV, flushQueue[i].allA,
                                      flushQueue[i].vpn, flushQueue[i].asid)
    BY <1>2 DEF StaleCovered, L1!Fenced, L1!PagesOf, L1!Vpns
  <2>1. CASE entries'[x] = e
    <3>1. PICK f \in since : L1(k)!Fenced(e, f.allV, f.allA, f.vpn, f.asid)
      BY <1>3, <2>1
    <3>2. PICK i \in DOMAIN flushQueue : flushQueue[i] = f
      BY <1>1, <1>2 DEF L1Core, RefillWaits
    <3> QED BY <2>1, <3>1, <3>2
  <2>2. CASE entries'[x] = entries[x]
    BY <1>1, <2>2 DEF L1Core, StaleCovered
  <2> QED BY <1>1, <1>2, <2>1, <2>2 DEF L1Core, L1Data
<1>9. L1(k)!NoStaleAnswer'
  <2>1. p \notin late => e.fresh
    BY <1>1, <1>2, <1>3 DEF L1Core, RefillWaits
  <2> QED BY <1>1, <1>2, <2>1 DEF L1Core, L1Data, L1!NoStaleAnswer
<1>10. L1(k)!RightAnswer'
  <2>1. p \notin late => L1(k)!Translates(e, vpnReq[p], l1Asid)
    BY <1>1, <1>2, <1>3 DEF L1Core, RefillWaits, L1Frame, L1!Translates, L1!PagesOf
  <2> QED BY <1>1, <1>2, <2>1 DEF L1Core, L1Data, L1!RightAnswer
<1> QED BY <1>4, <1>5, <1>6, <1>7, <1>8, <1>9, <1>10 DEF L1Core

LEMMA L1RefillFault ==
    ASSUME NEW CONSTANT k, L1Assumption(k), L1Inv(k), NEW p \in L1(k)!PortIds,
           L1(k)!RefillFault(p)
    PROVE  L1Core(k)'
<1>1. L1Core(k)
  BY L1Forms
<1>2. /\ result' = [result EXCEPT ![p] = <<L1(k)!Fault>>]
      /\ refilling' = [refilling EXCEPT ![p] = FALSE] /\ slow' = [slow EXCEPT ![p] = FALSE]
      /\ since' = {} /\ refilling[p]
      /\ UNCHANGED <<entries, l1Rr, flushQueue, vpnReq, asked, late, l1Asid>>
  BY DEF L1!RefillFault, L1!RefillDone, L1!Answer
<1>3. ~L1(k)!Fault.valid
  BY DEF L1!Fault
<1>4. L1Frame(k)'
  BY <1>1, <1>2 DEF L1Core, L1Frame
<1>5. L1Data(k)'
  <2>1. <<L1(k)!Fault>> \in Answers(k)
    BY DEF Answers
  <2> QED BY <1>1, <1>2, <2>1 DEF L1Core, L1Data
<1>6. OneRefill(k)'
  BY <1>1, <1>2 DEF L1Core, L1Frame, OneRefill
<1>7. RefillWaits(k)'
  BY <1>1, <1>2 DEF L1Core, RefillWaits, OneRefill, L1Frame
<1>8. StaleCovered(k)'
  BY <1>1, <1>2 DEF L1Core, StaleCovered
<1>9. L1(k)!NoStaleAnswer'
  BY <1>1, <1>2, <1>3 DEF L1Core, L1Data, L1!NoStaleAnswer
<1>10. L1(k)!RightAnswer'
  BY <1>1, <1>2, <1>3 DEF L1Core, L1Data, L1!RightAnswer
<1> QED BY <1>4, <1>5, <1>6, <1>7, <1>8, <1>9, <1>10 DEF L1Core

LEMMA L1Accept ==
    ASSUME NEW CONSTANT k, L1Assumption(k), L1Inv(k), NEW p \in L1(k)!PortIds,
           L1(k)!Accept(p)
    PROVE  L1Core(k)'
<1>1. L1Core(k)
  BY L1Forms
<1>2. /\ result' = [result EXCEPT ![p] = <<>>]
      /\ UNCHANGED <<entries, l1Rr, flushQueue, slow, vpnReq, refilling, asked, since, late, l1Asid>>
  BY DEF L1!Accept
<1>4. L1Frame(k)'
  BY <1>1, <1>2 DEF L1Core, L1Frame
<1>5. L1Data(k)'
  BY <1>1, <1>2 DEF L1Core, L1Data, Answers
<1>6. OneRefill(k)'
  BY <1>1, <1>2 DEF L1Core, OneRefill
<1>7. RefillWaits(k)'
  BY <1>1, <1>2 DEF L1Core, RefillWaits
<1>8. StaleCovered(k)'
  BY <1>1, <1>2 DEF L1Core, StaleCovered
<1>9. L1(k)!NoStaleAnswer'
  BY <1>1, <1>2 DEF L1Core, L1Data, L1!NoStaleAnswer
<1>10. L1(k)!RightAnswer'
  BY <1>1, <1>2 DEF L1Core, L1Data, L1!RightAnswer
<1> QED BY <1>4, <1>5, <1>6, <1>7, <1>8, <1>9, <1>10 DEF L1Core

LEMMA L1WriteSatp ==
    ASSUME NEW CONSTANT k, L1Assumption(k), L1Inv(k), L1(k)!WriteSatp
    PROVE  L1Core(k)'
<1>1. L1Core(k)
  BY L1Forms
<1>2. /\ l1Asid' \in k.asids
      /\ late' = late \cup {p \in L1(k)!PortIds : slow[p] \/ result[p] # <<>>}
      /\ UNCHANGED <<entries, l1Rr, flushQueue, slow, vpnReq, refilling, asked, since, result>>
  BY DEF L1!WriteSatp
<1>4. L1Frame(k)'
  BY <1>1, <1>2 DEF L1Core, L1Frame
<1>5. L1Data(k)'
  BY <1>1, <1>2 DEF L1Core, L1Data, Answers
<1>6. OneRefill(k)'
  BY <1>1, <1>2 DEF L1Core, OneRefill
<1>7. RefillWaits(k)'
  BY <1>1, <1>2 DEF L1Core, RefillWaits
<1>8. StaleCovered(k)'
  BY <1>1, <1>2 DEF L1Core, StaleCovered
<1>9. L1(k)!NoStaleAnswer'
  BY <1>1, <1>2 DEF L1Core, L1!NoStaleAnswer
<1>10. L1(k)!RightAnswer'
  BY <1>1, <1>2 DEF L1Core, L1!RightAnswer
<1> QED BY <1>4, <1>5, <1>6, <1>7, <1>8, <1>9, <1>10 DEF L1Core

\* A fence in the queue and its fields.
LEMMA L1FenceFields ==
    ASSUME NEW CONSTANT k, NEW f \in L1(k)!Fences
    PROVE  f.allV \in BOOLEAN /\ f.allA \in BOOLEAN /\ f.vpn \in L1(k)!Vpns
BY DEF L1!Fences

\* The flush removes what its fence covers; the other fences still wait.
LEMMA L1Flush ==
    ASSUME NEW CONSTANT k, L1Assumption(k), L1Inv(k), L1(k)!Flush
    PROVE  L1Core(k)'
<1>1. L1Core(k)
  BY L1Forms
<1> DEFINE f == Head(flushQueue)
<1>2. /\ flushQueue # <<>> /\ \A p \in L1(k)!PortIds : ~refilling[p]
      /\ entries' = L1(k)!Flushed(entries, f.allV, f.allA, f.vpn, f.asid)
      /\ flushQueue' = Tail(flushQueue)
      /\ UNCHANGED <<l1Rr, slow, vpnReq, refilling, asked, since, late, result, l1Asid>>
  BY DEF L1!Flush, L1!FlushReady, L1!SemaphoreFree
<1>3. /\ flushQueue \in Seq(L1(k)!Fences) /\ f = flushQueue[1] /\ f \in L1(k)!Fences
      /\ flushQueue' \in Seq(L1(k)!Fences) /\ Len(flushQueue') = Len(flushQueue) - 1
      /\ \A i \in 1 .. Len(flushQueue') : flushQueue'[i] = flushQueue[i + 1]
  BY <1>1, <1>2 DEF L1Core, L1Frame
<1>4. L1Frame(k)'
  <2>1. Len(flushQueue') <= k.depth
    BY <1>1, <1>3 DEF L1Core, L1Frame, L1Assumption, L1!FullAssumption
  <2> QED BY <1>1, <1>2, <1>3, <2>1 DEF L1Core, L1Frame
<1>11. /\ entries' \in [1 .. k.size -> L1(k)!Entries \cup {L1(k)!Invalid}]
       /\ \A w \in 1 .. k.size : entries'[w] =
              IF L1(k)!Covers(entries[w], f.allV, f.allA, f.vpn, f.asid)
              THEN L1(k)!Invalid ELSE entries[w]
  BY <1>1, <1>2 DEF L1Core, L1Data, L1!Flushed
<1>5. L1Data(k)'
  BY <1>1, <1>2, <1>11 DEF L1Core, L1Data, Answers
<1>6. OneRefill(k)'
  BY <1>2 DEF OneRefill
<1>7. RefillWaits(k)'
  BY <1>2 DEF RefillWaits
<1> HIDE DEF f
<1>8. StaleCovered(k)'
  <2> SUFFICES ASSUME NEW w \in 1 .. k.size, entries'[w].valid, ~entries'[w].fresh
               PROVE  \E i \in DOMAIN flushQueue' :
                         L1(k)!Fenced(entries'[w], flushQueue'[i].allV, flushQueue'[i].allA,
                                      flushQueue'[i].vpn, flushQueue'[i].asid)
    BY DEF StaleCovered, L1!Fenced, L1!PagesOf, L1!Vpns
  <2>1. /\ entries'[w] = entries[w] /\ entries[w] \in L1(k)!Entries
        /\ ~L1(k)!Covers(entries[w], f.allV, f.allA, f.vpn, f.asid)
    BY <1>1, <1>11 DEF L1!Invalid, L1Core, L1Data
  <2>2. ~L1(k)!Fenced(entries[w], f.allV, f.allA, f.vpn, f.asid)
    BY <1>3, <2>1, L1CoversIsFenced, L1FenceFields
  <2>3. PICK i \in DOMAIN flushQueue :
          L1(k)!Fenced(entries[w], flushQueue[i].allV, flushQueue[i].allA,
                       flushQueue[i].vpn, flushQueue[i].asid)
    BY <1>1, <2>1 DEF L1Core, StaleCovered
  <2>4. i # 1
    BY <1>3, <2>2, <2>3
  <2>5. i - 1 \in 1 .. Len(flushQueue') /\ DOMAIN flushQueue' = 1 .. Len(flushQueue')
        /\ (i - 1) + 1 = i
    BY <1>3, <2>3, <2>4
  <2>6. flushQueue'[i - 1] = flushQueue[i]
    BY <1>3, <2>5
  <2> QED BY <2>1, <2>3, <2>5, <2>6
<1>9. L1(k)!NoStaleAnswer'
  BY <1>1, <1>2 DEF L1Core, L1!NoStaleAnswer
<1>10. L1(k)!RightAnswer'
  BY <1>1, <1>2 DEF L1Core, L1!RightAnswer
<1> QED BY <1>4, <1>5, <1>6, <1>7, <1>8, <1>9, <1>10 DEF L1Core

\* An accepted fence waits in the queue and makes the pending requests late.
LEMMA L1SFence ==
    ASSUME NEW CONSTANT k, L1Assumption(k), L1Inv(k), NEW f \in L1(k)!Fences, L1(k)!SFence(f)
    PROVE  L1Core(k)'
<1>1. L1Core(k)
  BY L1Forms
<1>2. /\ Len(flushQueue) < k.depth /\ flushQueue' = Append(flushQueue, f)
      /\ entries' = [w \in 1 .. k.size |->
                       L1(k)!Aged(entries[w], f.allV, f.allA, f.vpn, f.asid)]
      /\ since' = IF L1(k)!SemaphoreFree THEN {} ELSE since \cup {f}
      /\ late' = late \cup {p \in L1(k)!PortIds : slow[p] \/ result[p] # <<>>}
      /\ UNCHANGED <<l1Rr, slow, vpnReq, refilling, asked, result, l1Asid>>
  BY DEF L1!SFence
<1>3. /\ flushQueue' \in Seq(L1(k)!Fences) /\ Len(flushQueue') = Len(flushQueue) + 1
      /\ Len(flushQueue) \in Nat /\ DOMAIN flushQueue = 1 .. Len(flushQueue)
      /\ DOMAIN flushQueue' = 1 .. Len(flushQueue')
      /\ flushQueue'[Len(flushQueue) + 1] = f
      /\ \A i \in DOMAIN flushQueue : i \in DOMAIN flushQueue' /\ flushQueue'[i] = flushQueue[i]
  BY <1>1, <1>2 DEF L1Core, L1Frame
<1>4. L1Frame(k)'
  <2>1. Len(flushQueue') <= k.depth
    BY <1>1, <1>2, <1>3 DEF L1Core, L1Frame, L1Assumption, L1!FullAssumption
  <2> QED BY <1>1, <1>2, <1>3, <2>1 DEF L1Core, L1Frame
<1>11. \A w \in 1 .. k.size :
         /\ entries'[w] \in L1(k)!Entries \cup {L1(k)!Invalid}
         /\ entries'[w].valid = entries[w].valid
         /\ entries[w].valid => /\ entries'[w].vpn = entries[w].vpn
                                /\ entries'[w].asid = entries[w].asid
                                /\ entries'[w].cls = entries[w].cls
                                /\ entries'[w].g = entries[w].g
                                /\ entries'[w].fresh = (entries[w].fresh /\
                                     ~L1(k)!Fenced(entries[w], f.allV, f.allA, f.vpn, f.asid))
  <2> SUFFICES ASSUME NEW w \in 1 .. k.size
               PROVE  LET d == L1(k)!Aged(entries[w], f.allV, f.allA, f.vpn, f.asid)
                      IN  /\ d \in L1(k)!Entries \cup {L1(k)!Invalid}
                          /\ d.valid = entries[w].valid
                          /\ entries[w].valid => /\ d.vpn = entries[w].vpn
                                /\ d.asid = entries[w].asid
                                /\ d.cls = entries[w].cls
                                /\ d.g = entries[w].g
                                /\ d.fresh = (entries[w].fresh /\
                                     ~L1(k)!Fenced(entries[w], f.allV, f.allA, f.vpn, f.asid))
    BY <1>2
  <2>1. entries[w] \in L1(k)!Entries \cup {L1(k)!Invalid}
    BY <1>1 DEF L1Core, L1Data
  <2> QED BY <2>1, L1AgedEntry, L1FenceFields
<1>5. L1Data(k)'
  <2>1. entries' \in [1 .. k.size -> L1(k)!Entries \cup {L1(k)!Invalid}]
    BY <1>2, <1>11
  <2> QED BY <1>1, <1>2, <2>1 DEF L1Core, L1Data, Answers
<1>6. OneRefill(k)'
  BY <1>1, <1>2 DEF L1Core, OneRefill
<1>7. RefillWaits(k)'
  <2> SUFFICES ASSUME NEW p \in L1(k)!PortIds, refilling[p]
               PROVE  /\ slow[p] /\ p \in late'
                      /\ \A h \in since' : \E i \in DOMAIN flushQueue' : flushQueue'[i] = h
    BY <1>2 DEF RefillWaits
  <2>1. slow[p] /\ \A h \in since : \E i \in DOMAIN flushQueue : flushQueue[i] = h
    BY <1>1 DEF L1Core, RefillWaits
  <2>2. since' = since \cup {f}
    BY <1>2 DEF L1!SemaphoreFree
  <2>3. \E i \in DOMAIN flushQueue' : flushQueue'[i] = f
    BY <1>3
  <2> QED BY <1>2, <1>3, <2>1, <2>2, <2>3
<1>8. StaleCovered(k)'
  <2> SUFFICES ASSUME NEW w \in 1 .. k.size, entries'[w].valid, ~entries'[w].fresh
               PROVE  \E i \in DOMAIN flushQueue' :
                         L1(k)!Fenced(entries'[w], flushQueue'[i].allV, flushQueue'[i].allA,
                                      flushQueue'[i].vpn, flushQueue'[i].asid)
    BY DEF StaleCovered, L1!Fenced, L1!PagesOf, L1!Vpns
  <2>1. \A h : L1(k)!Fenced(entries'[w], h.allV, h.allA, h.vpn, h.asid)
               <=> L1(k)!Fenced(entries[w], h.allV, h.allA, h.vpn, h.asid)
    BY <1>11 DEF L1!Fenced, L1!PagesOf, L1!Vpns
  <2>2. CASE entries[w].fresh
    <3>1. L1(k)!Fenced(entries[w], f.allV, f.allA, f.vpn, f.asid)
      BY <1>11, <2>2
    <3>2. Len(flushQueue) + 1 \in DOMAIN flushQueue'
      BY <1>3
    <3> QED BY <1>3, <2>1, <3>1, <3>2
  <2>3. CASE ~entries[w].fresh
    <3>1. PICK i \in DOMAIN flushQueue :
            L1(k)!Fenced(entries[w], flushQueue[i].allV, flushQueue[i].allA,
                         flushQueue[i].vpn, flushQueue[i].asid)
      BY <1>1, <1>11, <2>3 DEF L1Core, StaleCovered
    <3> QED BY <1>3, <2>1, <3>1
  <2> QED BY <2>2, <2>3
<1>9. L1(k)!NoStaleAnswer'
  BY <1>1, <1>2 DEF L1Core, L1!NoStaleAnswer
<1>10. L1(k)!RightAnswer'
  BY <1>1, <1>2 DEF L1Core, L1!RightAnswer
<1> QED BY <1>4, <1>5, <1>6, <1>7, <1>8, <1>9, <1>10 DEF L1Core

LEMMA L1Init ==
    ASSUME NEW CONSTANT k, L1Assumption(k), L1(k)!Init
    PROVE  L1Core(k)
<1>1. k.size \in Nat \ {0} /\ k.depth \in Nat /\ k.maxClass \in Nat /\ k.wordMax \in Nat
  BY DEF L1Assumption, L1!CamAssumption, L1!FullAssumption
<1>2. L1Frame(k)
  <2>1. vpnReq \in [L1(k)!PortIds -> L1(k)!Vpns]
    BY <1>1 DEF L1!Init, L1!Vpns
  <2>2. flushQueue \in Seq(L1(k)!Fences) /\ Len(flushQueue) <= k.depth
    BY <1>1 DEF L1!Init
  <2>3. slow \in [L1(k)!PortIds -> BOOLEAN] /\ refilling \in [L1(k)!PortIds -> BOOLEAN]
    BY DEF L1!Init
  <2>4. l1Rr \in 1 .. k.size
    BY <1>1 DEF L1!Init
  <2>5. /\ asked \in k.asids /\ since \subseteq L1(k)!Fences /\ late \subseteq L1(k)!PortIds
        /\ l1Asid \in k.asids
    BY DEF L1!Init
  <2> QED BY <2>1, <2>2, <2>3, <2>4, <2>5 DEF L1Frame
<1>3. L1Data(k)
  BY DEF L1!Init, L1Data, Answers
<1>4. OneRefill(k) /\ RefillWaits(k)
  BY DEF L1!Init, OneRefill, RefillWaits
<1>5. StaleCovered(k)
  BY DEF L1!Init, StaleCovered, L1!Invalid
<1>6. L1(k)!NoStaleAnswer /\ L1(k)!RightAnswer
  BY DEF L1!Init, L1!NoStaleAnswer, L1!RightAnswer
<1> QED BY <1>2, <1>3, <1>4, <1>5, <1>6 DEF L1Core

LEMMA L1Step ==
    ASSUME NEW CONSTANT k, L1Assumption(k), L1Inv(k), [L1(k)!Next]_(L1(k)!vars)
    PROVE  L1Inv(k)'
<1> SUFFICES L1Core(k)'
  <2>1. L1Core(k)' => (L1Types(k)' <=> L1Frame(k)' /\ L1Data(k)')
    <3>1. OneRefill(k)' => (L1Types(k)' <=> L1Frame(k)' /\ L1Data(k)')
      BY L1TypesForms, PTL
    <3> QED BY <3>1 DEF L1Core
  <2> QED BY <2>1 DEF L1Core, L1Inv
<1>1. CASE UNCHANGED L1(k)!vars
  <2>1. L1Core(k)
    BY L1Forms
  <2> QED BY <1>1, <2>1 DEF L1!vars, L1Core, L1Frame, L1Data, OneRefill, RefillWaits,
             StaleCovered, L1!NoStaleAnswer, L1!RightAnswer, Answers
<1>2. CASE L1(k)!Next
  BY <1>2, L1Request, L1AsyncResolve, L1RequestRefill, L1Refill, L1RefillFault, L1Accept,
     L1Flush, L1WriteSatp, L1SFence DEF L1!Next
<1> QED BY <1>1, <1>2

\* The first level TLB, for every number of ports, entries and queued fences, page
\* size and address space: a port is answered with a translation of the page and the
\* address space it asked about, never with one that a fence accepted before the
\* request covers (tlb.py FullyAssociativeTLB).
THEOREM FirstLevelTlbRight ==
    ASSUME NEW CONSTANT k, L1Assumption(k)
    PROVE  L1(k)!Spec => [](L1(k)!TypeOK /\ L1(k)!NoStaleAnswer /\ L1(k)!RightAnswer)
<1>1. L1(k)!Init => L1Inv(k)
  BY L1Init, L1Forms
<1>2. L1Inv(k) /\ [L1(k)!Next]_(L1(k)!vars) => L1Inv(k)'
  BY L1Step
<1>3. L1Inv(k) => L1(k)!TypeOK /\ L1(k)!NoStaleAnswer /\ L1(k)!RightAnswer
  BY DEF L1Inv, L1Types
<1> QED BY <1>1, <1>2, <1>3, PTL DEF L1!Spec

(***************************************************************************)
(* The instances of the run: a behaviour of MCTranslation that is about a  *)
(* component is a behaviour of that component.                             *)
(***************************************************************************)
FirstLevelInv ==
    /\ part = "Fences" => L1Inv(Fences)
    /\ part = "Queue" => L1Inv(Queue)
    /\ part = "Mixed" => L1Inv(Mixed)

LEMMA FirstLevelSizes == L1Assumption(Fences) /\ L1Assumption(Queue) /\ L1Assumption(Mixed)
BY InstancesAssumption DEF L1Assumption, InstancesAssumption

\* The run's statement about the first level TLB: two ports of two address spaces,
\* queued fences, and mixed page sizes (tlb.py FullyAssociativeTLB).
THEOREM FirstLevelHolds == Spec => []FirstLevelRight
<1>1. Init => FirstLevelInv
  <2> SUFFICES ASSUME Init PROVE FirstLevelInv
    OBVIOUS
  <2>1. /\ part = "Fences" => L1(Fences)!Init
        /\ part = "Queue" => L1(Queue)!Init
        /\ part = "Mixed" => L1(Mixed)!Init
    BY Zenon DEF Init
  <2> QED BY <2>1, L1Init, L1Forms, FirstLevelSizes DEF FirstLevelInv
<1>2. FirstLevelInv /\ [Next]_vars => FirstLevelInv'
  <2> SUFFICES ASSUME FirstLevelInv, [Next]_vars PROVE FirstLevelInv'
    OBVIOUS
  <2>1. /\ part' = part
        /\ part = "Fences" => [L1(Fences)!Next]_(L1(Fences)!vars)
        /\ part = "Queue" => [L1(Queue)!Next]_(L1(Queue)!vars)
        /\ part = "Mixed" => [L1(Mixed)!Next]_(L1(Mixed)!vars)
    BY Zenon DEF Next, vars, FullyAssociativeTLBVars, L1!vars
  <2> QED BY <2>1, L1Step, FirstLevelSizes DEF FirstLevelInv
<1>3. FirstLevelInv => FirstLevelRight
  BY DEF FirstLevelInv, FirstLevelRight, L1Inv, L1Types
<1> QED BY <1>1, <1>2, <1>3, PTL DEF Spec

-----------------------------------------------------------------------------
(***************************************************************************)
(* The page table walker.  Its inductive invariant: the reads so far are   *)
(* at the addresses the architecture gives, the table being walked is the  *)
(* one the last read found, the level counts the reads, and a finished     *)
(* walk holds the verdict on what the last read found.                     *)
(***************************************************************************)
FoundEntries(k) == [bits : SUBSET Walker(k)!Bits, ppn : k.tables]
Reads(k) == [addr : [table : k.tables, index : Nat], ok : BOOLEAN, found : FoundEntries(k)]
WalkTypes(k) == Walker(k)!TypeOK /\ seen \in Seq(Reads(k)) /\ start \in k.satps

AddressesRight(k) == \A n \in 1 .. Len(seen) : seen[n].addr = Walker(k)!ReadAt(n)

Reading(k) == ptwFsm \in {"ISSUE", "EVAL"} =>
    /\ start.mode = "SV" /\ ptwAsid = start.asid /\ ~accessFault /\ ~pageFault
    /\ Len(seen) = k.levels - 1 - level
    /\ ppn = IF Len(seen) = 0 THEN start.ppn ELSE seen[Len(seen)].found.ppn

\* What the verdict on the last entry left behind.
VerdictHeld(k) ==
    LET pte == seen[Len(seen)].found
        verdict == Walker(k)!Verdict(pte)
    IN  /\ ppn = pte.ppn /\ perm = pte.bits /\ verdict # "down"
        /\ accessFault = (verdict = "access_fault") /\ pageFault = (verdict = "page_fault")

Finished(k) == ptwFsm = "DONE" =>
    /\ ptwAsid = start.asid
    /\ start.mode = "SV" => /\ Len(seen) = k.levels - level
                            /\ IF seen[Len(seen)].ok THEN VerdictHeld(k) ELSE accessFault
    /\ start.mode # "SV" => seen = <<>> /\ pageFault /\ ~accessFault

WalkInv(k) == WalkTypes(k) /\ AddressesRight(k) /\ Reading(k) /\ Finished(k)

LEMMA WalkInit ==
    ASSUME NEW CONSTANT k, Walker(k)!WalkerAssumption, Walker(k)!Init
    PROVE  WalkInv(k)
<1>1. Walker(k)!NoPpn \in k.tables
  <2>1. satp.ppn \in k.tables
    BY DEF Walker!Init, Walker!WalkerAssumption
  <2> QED BY <2>1 DEF Walker!NoPpn
<1>2. seen \in Seq(Reads(k)) /\ Len(seen) = 0
  BY DEF Walker!Init
<1>3. k.levels \in Nat \ {0}
  BY DEF Walker!WalkerAssumption
<1>4. WalkTypes(k)
  <2>1. /\ ptwFsm = "IDLE" /\ vpn \in k.vpns /\ isStore \in BOOLEAN /\ accessFault \in BOOLEAN
        /\ pageFault \in BOOLEAN /\ satp \in k.satps /\ start \in k.satps
    BY Zenon DEF Walker!Init
  <2>4. level \in 0 .. k.levels - 1
    BY <1>3 DEF Walker!Init
  <2>2. ppn \in k.tables /\ perm \subseteq Walker(k)!Bits
    BY <1>1 DEF Walker!Init
  <2>3. Len(seen) <= k.levels
    BY <1>2, <1>3
  <2> QED BY <1>2, <2>1, <2>2, <2>3, <2>4 DEF WalkTypes, Walker!TypeOK
<1> QED BY <1>2, <1>4 DEF WalkInv, AddressesRight, Reading, Finished, Walker!Init

\* What a read adds to the history.
LEMMA WalkSee ==
    ASSUME NEW CONSTANT k, Walker(k)!WalkerAssumption, WalkInv(k),
           ptwFsm \in {"ISSUE", "EVAL"}, NEW ok \in BOOLEAN, NEW pte \in FoundEntries(k),
           Walker(k)!See(ok, pte), UNCHANGED <<vpn, start>>
    PROVE  /\ seen' \in Seq(Reads(k)) /\ Len(seen') = k.levels - level
           /\ Len(seen') = Len(seen) + 1 /\ Len(seen') <= k.levels
           /\ seen'[Len(seen')].ok = ok /\ seen'[Len(seen')].found = pte
           /\ AddressesRight(k)'
<1> DEFINE r == [addr |-> Walker(k)!PteAddr, ok |-> ok, found |-> pte]
<1>1. /\ k.levels \in Nat \ {0} /\ level \in 0 .. k.levels - 1 /\ vpn \in [1 .. k.levels -> Nat]
      /\ ppn \in k.tables /\ seen \in Seq(Reads(k)) /\ Len(seen) = k.levels - 1 - level
      /\ ppn = IF Len(seen) = 0 THEN start.ppn ELSE seen[Len(seen)].found.ppn
  BY DEF WalkInv, WalkTypes, Walker!TypeOK, Walker!WalkerAssumption, Reading
<1>2. r.addr = [table |-> ppn, index |-> vpn[level + 1]] /\ r \in Reads(k)
      /\ r.ok = ok /\ r.found = pte
  <2>1. level + 1 \in 1 .. k.levels
    BY <1>1
  <2>2. vpn[level + 1] \in Nat
    BY <1>1, <2>1
  <2> QED BY <1>1, <2>2 DEF Walker!PteAddr, Reads
<1>3. seen' = Append(seen, r)
  BY DEF Walker!See
<1> HIDE DEF r
<1>4. /\ seen' \in Seq(Reads(k)) /\ Len(seen') = Len(seen) + 1 /\ seen'[Len(seen) + 1] = r
      /\ \A n \in 1 .. Len(seen) : seen'[n] = seen[n]
  BY <1>1, <1>2, <1>3
<1>5. AddressesRight(k)'
  <2> SUFFICES ASSUME NEW n \in 1 .. Len(seen') PROVE seen'[n].addr = Walker(k)!ReadAt(n)'
    BY DEF AddressesRight
  <2>1. CASE n = Len(seen) + 1
    <3>1. k.levels - n + 1 = level + 1
      BY <1>1, <2>1
    <3>2. CASE n = 1
      <4>1. Len(seen) = 0 /\ ppn = start.ppn
        BY <1>1, <2>1, <3>2
      <4>2. seen'[n].addr = [table |-> start.ppn, index |-> vpn[k.levels - n + 1]]
        BY <1>2, <1>4, <2>1, <3>1, <4>1
      <4> QED BY <3>2, <4>2 DEF Walker!ReadAt
    <3>3. CASE n # 1
      <4>1. n - 1 = Len(seen) /\ Len(seen) # 0 /\ n - 1 \in 1 .. Len(seen)
        BY <1>1, <1>4, <2>1, <3>3
      <4>2. seen'[n - 1] = seen[Len(seen)]
        BY <1>4, <4>1
      <4> QED BY <1>1, <1>2, <1>4, <2>1, <3>1, <3>3, <4>1, <4>2 DEF Walker!ReadAt
    <3> QED BY <3>2, <3>3
  <2>2. CASE n \in 1 .. Len(seen)
    <3>1. n # 1 => n - 1 \in 1 .. Len(seen)
      BY <1>1, <2>2
    <3>2. seen[n].addr = Walker(k)!ReadAt(n)
      BY <2>2 DEF WalkInv, AddressesRight
    <3> QED BY <1>4, <2>2, <3>1, <3>2 DEF Walker!ReadAt
  <2> QED BY <1>1, <1>4, <2>1, <2>2
<1> QED BY <1>1, <1>2, <1>4, <1>5

LEMMA WalkRequest ==
    ASSUME NEW CONSTANT k, Walker(k)!WalkerAssumption, WalkInv(k), NEW v \in k.vpns,
           NEW store \in BOOLEAN, Walker(k)!Request(v, store)
    PROVE  WalkInv(k)'
<1>1. /\ k.levels \in Nat \ {0} /\ satp.ppn \in k.tables /\ satp.mode \in {"BARE", "SV"}
      /\ satp \in k.satps /\ perm \subseteq Walker(k)!Bits
  BY DEF Walker!WalkerAssumption, WalkInv, WalkTypes, Walker!TypeOK
<1>2. /\ vpn' = v /\ isStore' = store /\ accessFault' = FALSE /\ ppn' = satp.ppn
      /\ ptwAsid' = satp.asid /\ start' = satp /\ seen' = <<>> /\ perm' = perm /\ satp' = satp
      /\ \/ satp.mode = "SV" /\ level' = k.levels - 1 /\ pageFault' = FALSE /\ ptwFsm' = "ISSUE"
         \/ satp.mode # "SV" /\ level' = 0 /\ pageFault' = TRUE /\ ptwFsm' = "DONE"
  BY DEF Walker!Request
<1>3. seen' \in Seq(Reads(k)) /\ Len(seen') = 0
  BY <1>2
<1>4. WalkTypes(k)'
  <2>1. level' \in 0 .. k.levels - 1 /\ Len(seen') <= k.levels
    BY <1>1, <1>2, <1>3
  <2> QED BY <1>1, <1>2, <1>3, <2>1 DEF WalkTypes, Walker!TypeOK
<1>5. AddressesRight(k)'
  BY <1>3 DEF AddressesRight
<1>6. Reading(k)'
  BY <1>1, <1>2, <1>3 DEF Reading
<1>7. Finished(k)'
  BY <1>1, <1>2, <1>3 DEF Finished
<1> QED BY <1>4, <1>5, <1>6, <1>7 DEF WalkInv

\* A read that memory refuses or that fails on the bus ends the walk.
LEMMA WalkFails ==
    ASSUME NEW CONSTANT k, Walker(k)!WalkerAssumption, WalkInv(k),
           ptwFsm \in {"ISSUE", "EVAL"}, NEW pte \in FoundEntries(k),
           Walker(k)!See(FALSE, pte), ptwFsm' = "DONE", accessFault' = TRUE,
           perm' \subseteq Walker(k)!Bits, ppn' \in k.tables,
           UNCHANGED <<vpn, isStore, ptwAsid, satp, start, level, pageFault>>
    PROVE  WalkInv(k)'
<1>1. /\ seen' \in Seq(Reads(k)) /\ Len(seen') = k.levels - level /\ Len(seen') <= k.levels
      /\ seen'[Len(seen')].ok = FALSE /\ AddressesRight(k)'
  BY WalkSee
<1>2. WalkTypes(k)'
  BY <1>1 DEF WalkInv, WalkTypes, Walker!TypeOK
<1>3. Reading(k)'
  BY DEF Reading
<1>4. Finished(k)'
  BY <1>1 DEF WalkInv, Reading, Finished
<1> QED BY <1>1, <1>2, <1>3, <1>4 DEF WalkInv

LEMMA WalkEval ==
    ASSUME NEW CONSTANT k, Walker(k)!WalkerAssumption, WalkInv(k), NEW pte \in FoundEntries(k),
           Walker(k)!Eval(pte)
    PROVE  WalkInv(k)'
<1> DEFINE V == Walker(k)!Verdict(pte)
<1>1. /\ ptwFsm = "EVAL" /\ perm' = pte.bits /\ ppn' = pte.ppn
      /\ accessFault' = (V = "access_fault") /\ pageFault' = (V = "page_fault")
      /\ level' = (IF V = "down" THEN level - 1 ELSE level)
      /\ ptwFsm' = (IF V = "down" THEN "ISSUE" ELSE "DONE")
      /\ Walker(k)!See(TRUE, pte)
      /\ UNCHANGED <<vpn, isStore, ptwAsid, satp, start>>
  BY DEF Walker!Eval, Walker!Keep
<1>2. /\ seen' \in Seq(Reads(k)) /\ Len(seen') = k.levels - level /\ Len(seen') = Len(seen) + 1
      /\ Len(seen') <= k.levels /\ seen'[Len(seen')].ok = TRUE /\ seen'[Len(seen')].found = pte
      /\ AddressesRight(k)'
  BY <1>1, WalkSee
<1>3. /\ pte.bits \subseteq Walker(k)!Bits /\ pte.ppn \in k.tables /\ k.levels \in Nat \ {0}
      /\ level \in 0 .. k.levels - 1 /\ Len(seen) \in Nat
  BY DEF FoundEntries, Walker!WalkerAssumption, WalkInv, WalkTypes, Walker!TypeOK
<1>4. V = "down" => level # 0
  BY DEF Walker!Verdict
<1>5. V # "down" => Walker(k)!Verdict(pte)' = V
  BY <1>1 DEF Walker!Verdict, Walker!Invalid, Walker!IsLeaf, Walker!TooLarge
<1>6. WalkTypes(k)'
  <2>1. level' \in 0 .. k.levels - 1
    BY <1>1, <1>3, <1>4
  <2>2. accessFault' \in BOOLEAN /\ pageFault' \in BOOLEAN
    BY <1>1
  <2> QED BY <1>1, <1>2, <1>3, <2>1, <2>2 DEF WalkInv, WalkTypes, Walker!TypeOK
<1>7. Reading(k)'
  <2> SUFFICES ASSUME V = "down"
               PROVE  /\ start'.mode = "SV" /\ ptwAsid' = start'.asid /\ ~accessFault' /\ ~pageFault'
                      /\ Len(seen') = k.levels - 1 - level'
                      /\ ppn' = IF Len(seen') = 0 THEN start'.ppn ELSE seen'[Len(seen')].found.ppn
    BY <1>1 DEF Reading
  <2>1. Len(seen') = k.levels - 1 - level' /\ Len(seen') # 0
    BY <1>1, <1>2, <1>3
  <2> QED BY <1>1, <1>2, <2>1 DEF WalkInv, Reading
<1>8. Finished(k)'
  <2> SUFFICES ASSUME V # "down"
               PROVE  /\ ptwAsid' = start'.asid /\ start'.mode = "SV" /\ Len(seen') = k.levels - level'
                      /\ VerdictHeld(k)'
    BY <1>1, <1>2 DEF Finished
  <2>1. VerdictHeld(k)'
    BY <1>1, <1>2, <1>5 DEF VerdictHeld
  <2> QED BY <1>1, <1>2, <2>1 DEF WalkInv, Reading
<1> QED BY <1>2, <1>6, <1>7, <1>8 DEF WalkInv

LEMMA WalkStep ==
    ASSUME NEW CONSTANT k, Walker(k)!WalkerAssumption, WalkInv(k),
           [Walker(k)!Next]_(Walker(k)!vars)
    PROVE  WalkInv(k)'
<1>1. CASE UNCHANGED Walker(k)!vars
  BY <1>1 DEF Walker!vars, WalkInv, WalkTypes, AddressesRight, Reading, Finished, VerdictHeld,
     Walker!TypeOK, Walker!ReadAt, Walker!Verdict
<1>2. ASSUME NEW v \in k.vpns, NEW store \in BOOLEAN, Walker(k)!Request(v, store)
      PROVE  WalkInv(k)'
  BY <1>2, WalkRequest
<1>3. CASE Walker(k)!IssueRefused
  <2>1. [bits |-> {}, ppn |-> ppn] \in FoundEntries(k)
    BY DEF FoundEntries, WalkInv, WalkTypes, Walker!TypeOK
  <2>2. perm' \subseteq Walker(k)!Bits /\ ppn' \in k.tables
    BY <1>3 DEF Walker!IssueRefused, WalkInv, WalkTypes, Walker!TypeOK
  <2> QED BY <1>3, <2>1, <2>2, WalkFails DEF Walker!IssueRefused, Walker!Keep
<1>4. CASE Walker(k)!Issue
  BY <1>4 DEF Walker!Issue, Walker!Keep, WalkInv, WalkTypes, AddressesRight, Reading, Finished,
     Walker!TypeOK, Walker!ReadAt
<1>5. CASE Walker(k)!Accept
  <2>1. seen' \in Seq(Reads(k)) /\ Len(seen') = 0 /\ Len(seen') <= k.levels
    BY <1>5 DEF Walker!Accept, Walker!WalkerAssumption
  <2> QED BY <1>5, <2>1 DEF Walker!Accept, Walker!Keep, WalkInv, WalkTypes, AddressesRight,
             Reading, Finished, Walker!TypeOK
<1>6. CASE Walker(k)!WriteSatp
  BY <1>6 DEF Walker!WriteSatp, WalkInv, WalkTypes, AddressesRight, Reading, Finished,
     VerdictHeld, Walker!TypeOK, Walker!ReadAt, Walker!Verdict
<1>7. ASSUME NEW pte \in Walker(k)!PTEs,
             Walker(k)!Eval(pte) \/ Walker(k)!EvalBusError([pte EXCEPT !.bits = {}])
      PROVE  WalkInv(k)'
  <2>1. pte \in FoundEntries(k)
    BY DEF Walker!PTEs, FoundEntries, Walker!WalkerAssumption
  <2>2. \A b \in SUBSET Walker(k)!Bits : [pte EXCEPT !.bits = b] \in FoundEntries(k)
    BY <2>1 DEF FoundEntries
  <2>3. PICK q \in FoundEntries(k) : q = [pte EXCEPT !.bits = {}]
    <3>1. {} \in SUBSET Walker(k)!Bits
      OBVIOUS
    <3> QED BY <2>2, <3>1, Zenon
  <2>4. CASE Walker(k)!Eval(pte)
    BY <2>1, <2>4, WalkEval
  <2>5. CASE Walker(k)!EvalBusError(q)
    <3>1. q.bits \subseteq Walker(k)!Bits /\ q.ppn \in k.tables
      BY <2>3 DEF FoundEntries
    <3> QED BY <2>5, <3>1, WalkFails DEF Walker!EvalBusError, Walker!Keep
  <2> QED BY <1>7, <2>3, <2>4, <2>5, Zenon
<1> QED BY <1>1, <1>2, <1>3, <1>4, <1>5, <1>6, <1>7 DEF Walker!Next

\* What the entry's flags mean, in the words of the code and of the architecture.
LEMMA EntryKinds ==
    ASSUME NEW CONSTANT k, NEW pte
    PROVE  /\ Walker(k)!Bad(pte) <=> "V" \notin pte.bits \/ ("W" \in pte.bits /\ "R" \notin pte.bits)
           /\ Walker(k)!Pointer(pte) <=> {"R", "W", "X"} \cap pte.bits = {}
           /\ Walker(k)!Invalid(pte) <=> Walker(k)!Bad(pte) \/ Walker(k)!BadPointer(pte)
           /\ ~Walker(k)!Bad(pte) => (Walker(k)!Pointer(pte) <=> ~Walker(k)!IsLeaf(pte))
<1>1. pte.bits \cap {"R", "W"} = {"W"} <=> "W" \in pte.bits /\ "R" \notin pte.bits
  OBVIOUS
<1>2. pte.bits \cap {"R", "W", "X"} = {} <=>
        "R" \notin pte.bits /\ "W" \notin pte.bits /\ "X" \notin pte.bits
  OBVIOUS
<1>3. Walker(k)!Bad(pte) <=> "V" \notin pte.bits \/ ("W" \in pte.bits /\ "R" \notin pte.bits)
  BY <1>1 DEF Walker!Bad
<1> QED BY <1>2, <1>3 DEF Walker!Pointer, Walker!Invalid, Walker!BadPointer, Walker!IsLeaf

\* A finished walk is right.
LEMMA WalkInvRight ==
    ASSUME NEW CONSTANT k, Walker(k)!WalkerAssumption, WalkInv(k)
    PROVE  Walker(k)!WalkCorrect /\ Walker(k)!FaultKind
<1> SUFFICES ASSUME ptwFsm = "DONE" PROVE Walker(k)!WalkCorrect /\ Walker(k)!FaultKind
  BY DEF Walker!WalkCorrect, Walker!FaultKind
<1>1. /\ ptwAsid = start.asid /\ k.levels \in Nat \ {0} /\ level \in 0 .. k.levels - 1
      /\ Walker(k)!Last = Len(seen) /\ Len(seen) \in Nat
      /\ \A n \in 1 .. Walker(k)!Last : seen[n].addr = Walker(k)!ReadAt(n)
  BY DEF WalkInv, Finished, WalkTypes, Walker!TypeOK, Walker!WalkerAssumption, Walker!Last,
     AddressesRight
<1>2. CASE start.mode # "SV"
  <2>1. Walker(k)!Result = "PAGE_FAULT" /\ Walker(k)!Last = 0 /\ ~Walker(k)!Translated
    BY <1>1, <1>2 DEF WalkInv, Finished, Walker!Result, Walker!Translated
  <2> QED BY <1>1, <2>1 DEF Walker!WalkCorrect, Walker!FaultKind
<1>3. CASE start.mode = "SV" /\ ~seen[Len(seen)].ok
  <2>1. Walker(k)!Result = "ACCESS_FAULT" /\ Walker(k)!Last > 0
    BY <1>1, <1>3 DEF WalkInv, Finished, Walker!Result
  <2>2. ~Walker(k)!Arrived(Walker(k)!Last)
    BY <1>1, <1>3 DEF Walker!Arrived
  <2> QED BY <1>1, <2>1, <2>2 DEF Walker!WalkCorrect, Walker!FaultKind, Walker!Translated
<1>4. CASE start.mode = "SV" /\ seen[Len(seen)].ok
  <2> DEFINE pte == Walker(k)!LastPte
             V == Walker(k)!Verdict(pte)
  <2>1. /\ Walker(k)!Last > 0 /\ Walker(k)!Class = level /\ Walker(k)!Arrived(Walker(k)!Last)
        /\ ppn = pte.ppn /\ perm = pte.bits /\ V # "down"
        /\ accessFault = (V = "access_fault") /\ pageFault = (V = "page_fault")
    BY <1>1, <1>4 DEF WalkInv, Finished, VerdictHeld, Walker!Class, Walker!LastPte, Walker!Last,
       Walker!Arrived
  <2>2. /\ Walker(k)!Invalid(pte) <=> Walker(k)!Bad(pte) \/ Walker(k)!BadPointer(pte)
        /\ ~Walker(k)!Bad(pte) => (Walker(k)!Pointer(pte) <=> ~Walker(k)!IsLeaf(pte))
    BY EntryKinds
  <2>3. Walker(k)!BadPointer(pte) => Walker(k)!Pointer(pte)
    BY DEF Walker!BadPointer
  <2>4. Walker(k)!Misaligned <=> ~ \A i \in 1 .. Walker(k)!Class : pte.ppn[i] = 0
    BY <2>1 DEF Walker!Misaligned
  <2> HIDE DEF pte
  <2>5. /\ V = "access_fault" <=> ~Walker(k)!Bad(pte) /\ ~Walker(k)!BadPointer(pte)
                                   /\ Walker(k)!TooLarge(pte.ppn)
        /\ V \notin {"access_fault", "page_fault"} <=>
             ~Walker(k)!Bad(pte) /\ ~Walker(k)!Pointer(pte) /\ ~Walker(k)!TooLarge(pte.ppn)
    BY <2>1, <2>2, <2>3 DEF Walker!Verdict
  <2> HIDE DEF V
  <2>6. Walker(k)!Result = "HIT" <=> Walker(k)!Translated
    BY <1>4, <2>1, <2>4, <2>5 DEF Walker!Result, Walker!Translated, pte
  <2>7. Walker(k)!Result = "ACCESS_FAULT" <=> V = "access_fault"
    BY <2>1 DEF Walker!Result
  <2> QED BY <1>1, <2>1, <2>5, <2>6, <2>7 DEF Walker!WalkCorrect, Walker!FaultKind, pte
<1> QED BY <1>2, <1>3, <1>4

\* The page table walker, for every number of levels, page table and sequence of satp
\* writes: a finished walk reports a translation exactly if the architecture defines one
\* for what it read, from the satp of the request, and otherwise the right kind of fault
\* (walker.py).
THEOREM WalkerRight ==
    ASSUME NEW CONSTANT k, Walker(k)!WalkerAssumption
    PROVE  Walker(k)!Spec => [](Walker(k)!TypeOK /\ Walker(k)!WalkCorrect /\ Walker(k)!FaultKind)
<1>1. Walker(k)!Init => WalkInv(k)
  BY WalkInit
<1>2. WalkInv(k) /\ [Walker(k)!Next]_(Walker(k)!vars) => WalkInv(k)'
  BY WalkStep
<1>3. WalkInv(k) => Walker(k)!TypeOK /\ Walker(k)!WalkCorrect /\ Walker(k)!FaultKind
  BY WalkInvRight DEF WalkInv, WalkTypes
<1> QED BY <1>1, <1>2, <1>3, PTL DEF Walker!Spec

\* The run's statement about the walker: two levels, tables inside and outside of the
\* physical memory, every combination of flags (walker.py).
THEOREM WalkHolds == Spec => []WalkRight
<1> DEFINE I == part = "Walk" => WalkInv(Walk)
<1>0. Walker(Walk)!WalkerAssumption
  BY InstancesAssumption DEF InstancesAssumption
<1>1. Init => I
  <2>1. Init /\ part = "Walk" => Walker(Walk)!Init
    BY Zenon DEF Init
  <2> QED BY <1>0, <2>1, WalkInit
<1>2. I /\ [Next]_vars => I'
  <2> SUFFICES ASSUME I, [Next]_vars PROVE I'
    OBVIOUS
  <2>1. part' = part /\ (part = "Walk" => [Walker(Walk)!Next]_(Walker(Walk)!vars))
    BY Zenon DEF Next, vars, PageTableWalkerVars, Walker!vars
  <2> QED BY <1>0, <2>1, WalkStep
<1>3. I => WalkRight
  BY <1>0, WalkInvRight DEF WalkRight, WalkInv, WalkTypes
<1> QED BY <1>1, <1>2, <1>3, PTL DEF Spec

-----------------------------------------------------------------------------
(***************************************************************************)
(* The lock of the memory protection.  The region of an entry depends on   *)
(* its own configuration and address and, for a range, on the address of   *)
(* the entry below; no write reaches any of them once the entry is locked. *)
(***************************************************************************)
\* A filtered write is a legal configuration, and a locked one stays.
LEMMA FilteredLegal ==
    ASSUME NEW CONSTANT k, NEW old \in Checker(k)!Cfgs, NEW new \in Checker(k)!Cfgs,
           "w" \in old.perm => "r" \in old.perm
    PROVE  /\ Checker(k)!FilteredCfg(old, new) \in Checker(k)!Cfgs
           /\ "w" \in Checker(k)!FilteredCfg(old, new).perm =>
                 "r" \in Checker(k)!FilteredCfg(old, new).perm
           /\ old.l => Checker(k)!FilteredCfg(old, new) = old
<1> DEFINE p == IF "r" \in new.perm THEN new.perm ELSE new.perm \ {"w"}
           a == IF k.grain >= 1 /\ new.a = "NA4" THEN "OFF" ELSE new.a
           f == [new EXCEPT !.perm = p, !.a = a]
<1>1. p \in SUBSET k.perms /\ a \in {"OFF", "TOR", "NA4", "NAPOT"}
      /\ ("w" \in p => "r" \in p)
  BY DEF Checker!Cfgs
<1>2. Checker(k)!FilteredCfg(old, new) = IF old.l THEN old ELSE f
  BY Zenon DEF Checker!FilteredCfg
<1>3. f \in Checker(k)!Cfgs /\ f.perm = p
  <2> HIDE DEF p, a
  <2> QED BY <1>1 DEF Checker!Cfgs
<1> HIDE DEF f, p
<1> QED BY <1>1, <1>2, <1>3

\* The types the proof needs; that a cleared address is an address is a fact about
\* powers of two.
LockInv(k) ==
    /\ cfg \in [Checker(k)!Ids ->
                  {c \in Checker(k)!Cfgs : "w" \in c.perm => "r" \in c.perm}]
    /\ addr \in [Checker(k)!Ids -> Checker(k)!Addrs \cup {0}]
    /\ status \in Checker(k)!Status

LEMMA CheckerInit ==
    ASSUME NEW CONSTANT k, Checker(k)!PMPAssumption, Checker(k)!Init
    PROVE  LockInv(k)
<1>1. cfg \in [Checker(k)!Ids -> {c \in Checker(k)!Cfgs : "w" \in c.perm => "r" \in c.perm}]
  BY DEF Checker!Init, Checker!Cfgs
<1>2. addr \in [Checker(k)!Ids -> Checker(k)!Addrs \cup {0}]
  BY DEF Checker!Init
<1>3. status \in Checker(k)!Status
  BY DEF Checker!Init, Checker!Status, Checker!U, Checker!M, Checker!PMPAssumption
<1> QED BY <1>1, <1>2, <1>3 DEF LockInv

LEMMA CheckerStep ==
    ASSUME NEW CONSTANT k, Checker(k)!PMPAssumption, LockInv(k),
           [Checker(k)!Next]_(Checker(k)!vars)
    PROVE  LockInv(k)' /\ Checker(k)!LockedFixed
<1> DEFINE Legal == {c \in Checker(k)!Cfgs : "w" \in c.perm => "r" \in c.perm}
<1>1. /\ cfg \in [Checker(k)!Ids -> Legal] /\ addr \in [Checker(k)!Ids -> Checker(k)!Addrs \cup {0}]
      /\ status \in Checker(k)!Status
  BY DEF LockInv
<1>2. ASSUME NEW i \in Checker(k)!Ids, NEW c \in Checker(k)!Cfgs, Checker(k)!WriteCfg(i, c)
      PROVE  LockInv(k)' /\ Checker(k)!LockedFixed
  <2>1. /\ Checker(k)!FilteredCfg(cfg[i], c) \in Legal
        /\ cfg[i].l => Checker(k)!FilteredCfg(cfg[i], c) = cfg[i]
    BY <1>1, FilteredLegal
  <2>2. cfg' = [cfg EXCEPT ![i] = Checker(k)!FilteredCfg(cfg[i], c)] /\ addr' = addr /\ status' = status
    BY <1>2 DEF Checker!WriteCfg
  <2> HIDE DEF Legal
  <2>3. cfg' \in [Checker(k)!Ids -> Legal]
    BY <1>1, <2>1, <2>2
  <2>4. \A j \in Checker(k)!Ids : cfg[j].l => cfg'[j] = cfg[j]
    BY <1>1, <2>1, <2>2
  <2>5. \A j \in Checker(k)!Ids : cfg[j].l => Checker(k)!Region(j)' = Checker(k)!Region(j)
    BY <2>2, <2>4 DEF Checker!Region
  <2> QED BY <1>1, <2>2, <2>3, <2>4, <2>5 DEF LockInv, Checker!LockedFixed, Legal
<1>3. ASSUME NEW i \in Checker(k)!Ids, NEW v \in Checker(k)!Addrs, Checker(k)!WriteAddr(i, v)
      PROVE  LockInv(k)' /\ Checker(k)!LockedFixed
  <2>1. /\ cfg' = cfg /\ status' = status
        /\ addr' = IF Checker(k)!AddrWritable(i) THEN [addr EXCEPT ![i] = v] ELSE addr
    BY <1>3 DEF Checker!WriteAddr
  <2>2. addr' \in [Checker(k)!Ids -> Checker(k)!Addrs \cup {0}]
    BY <1>1, <2>1
  <2>3. ASSUME NEW j \in Checker(k)!Ids, cfg[j].l
        PROVE  /\ addr'[j] = addr[j]
               /\ cfg[j].a = "TOR" /\ j > 0 => addr'[j - 1] = addr[j - 1]
    <3>1. CASE ~Checker(k)!AddrWritable(i)
      BY <2>1, <3>1
    <3>2. CASE Checker(k)!AddrWritable(i)
      <4>1. i # j /\ (cfg[j].a = "TOR" => i + 1 # j)
        BY <2>3, <3>2 DEF Checker!AddrWritable
      <4>2. addr' = [addr EXCEPT ![i] = v]
        BY <2>1, <3>2
      <4>3. j > 0 => j - 1 \in Checker(k)!Ids
        BY DEF Checker!Ids, Checker!PMPAssumption
      <4>4. j > 0 /\ i + 1 # j => i # j - 1
        BY DEF Checker!Ids
      <4> QED BY <1>1, <4>1, <4>2, <4>3, <4>4
    <3> QED BY <3>1, <3>2
  <2>4. \A j \in Checker(k)!Ids : cfg[j].l => Checker(k)!Region(j)' = Checker(k)!Region(j)
    BY <2>1, <2>3 DEF Checker!Region
  <2> QED BY <1>1, <2>1, <2>2, <2>4 DEF LockInv, Checker!LockedFixed
<1>4. ASSUME NEW s \in Checker(k)!Status, Checker(k)!SetStatus(s)
      PROVE  LockInv(k)' /\ Checker(k)!LockedFixed
  BY <1>1, <1>4 DEF Checker!SetStatus, LockInv, Checker!LockedFixed, Checker!Region
<1>5. CASE UNCHANGED Checker(k)!vars
  BY <1>1, <1>5 DEF Checker!vars, LockInv, Checker!LockedFixed, Checker!Region
<1> QED BY <1>2, <1>3, <1>4, <1>5 DEF Checker!Next

\* No write moves the region or changes the permissions of a locked entry, for every
\* number of entries, grain and width (csr_instances.py pmpcfg, pmpaddr).
THEOREM LockHolds ==
    ASSUME NEW CONSTANT k, Checker(k)!PMPAssumption
    PROVE  Checker(k)!Spec => [][Checker(k)!LockedFixed]_(Checker(k)!vars)
<1>1. Checker(k)!Init => LockInv(k)
  BY CheckerInit
<1>2. LockInv(k) /\ [Checker(k)!Next]_(Checker(k)!vars) => LockInv(k)' /\ Checker(k)!LockedFixed
  BY CheckerStep
<1> QED BY <1>1, <1>2, PTL DEF Checker!Spec

\* The run's statement about the lock (csr_instances.py, pmp.py).
THEOREM LocksStay == Spec => LockedStays
<1> DEFINE I == part = "Protection" => LockInv(Protection)
           A == part = "Protection" => Checker(Protection)!LockedFixed
<1>0. Checker(Protection)!PMPAssumption
  BY InstancesAssumption DEF InstancesAssumption
<1>1. Init => I
  <2>1. Init /\ part = "Protection" => Checker(Protection)!Init
    BY Zenon DEF Init
  <2> QED BY <1>0, <2>1, CheckerInit
<1>2. I /\ [Next]_vars => I' /\ A
  <2> SUFFICES ASSUME I, [Next]_vars PROVE I' /\ A
    OBVIOUS
  <2>1. part' = part
        /\ (part = "Protection" => [Checker(Protection)!Next]_(Checker(Protection)!vars))
    BY Zenon DEF Next, vars, PMPVars, Checker!vars
  <2> QED BY <1>0, <2>1, CheckerStep
<1> QED BY <1>1, <1>2, PTL DEF Spec, LockedStays

-----------------------------------------------------------------------------
(***************************************************************************)
(* The second level TLB.  Its inductive invariant has two layers:          *)
(*  - the registers of one lookup belong together: what the memory port    *)
(*    compares, what the walker was asked and what is forwarded are about  *)
(*    the page and the address space of one request;                       *)
(*  - an entry is in the set of its page or, copied by the fence of an     *)
(*    address, an entry of set 0 in another set; one that a fence covers   *)
(*    lies in a set its flush will still visit, or is such a copy.         *)
(***************************************************************************)
L2Assumption(k) == L2(k)!CamAssumption /\ L2(k)!SetAssumption

MaybeEntries(k) == L2(k)!Entries \cup {L2(k)!Invalid}
Forwards(k) == [e : MaybeEntries(k), vpn : L2(k)!Vpns, asid : k.asids]
L2Types(k) ==
    /\ mem \in [L2(k)!SetIds -> L2(k)!Lines] /\ rr \in [L2(k)!SetIds -> 1 .. k.ways]
    /\ rd \in L2(k)!Lines /\ rrRd \in 1 .. k.ways
    /\ pipe \in L2(k)!Requests /\ chk \in [vpn : L2(k)!Vpns, asid : k.asids]
    /\ cls \in 0 .. k.maxClass /\ refill \in BOOLEAN /\ walkAsid \in k.asids
    /\ fsm \in {"IDLE", "REFILL"} /\ resp \in [e : MaybeEntries(k), set : L2(k)!SetIds]
    /\ fwd \in {<<>>} \cup {<<a>> : a \in Forwards(k)}
    /\ flush \in [on : BOOLEAN, set : L2(k)!SetIds, cls : 0 .. k.maxClass,
                  allV : BOOLEAN, allA : BOOLEAN]
    /\ asid \in k.asids

LookupTogether(k) ==
    /\ pipe # <<>> => chk.vpn = pipe[1] /\ (~refill => chk.asid = asid)
    /\ refill => pipe # <<>> /\ walkAsid = chk.asid
    /\ flush.on => pipe = <<>>
AnswerTogether(k) == fsm = "REFILL" =>
    /\ refill /\ resp.e \in L2(k)!Entries /\ resp.e.fresh = TRUE
    /\ resp.e.vpn = pipe[1] /\ resp.e.asid = walkAsid
    /\ resp.set = L2(k)!VpnToSetIdx(pipe[1], resp.e.cls)
L2Base(k) == /\ L2Types(k) /\ LookupTogether(k) /\ AnswerTogether(k)
             /\ L2(k)!RightTranslation

\* The sets the flush f of the registers q has still to visit.
ToVisit(k, s, f, q) == IF f.allV THEN f.set <= s
                       ELSE \E c \in f.cls .. k.maxClass : s = L2(k)!VpnToSetIdx(q.vpn, c)
Flushing(k, ways, f, q) == L2(k)!Flushed(ways, f.allV, f.allA, q.vpn, q.asid)

\* An entry that may stay in set s, and one that the flush f removes.
Home(k, e) == L2(k)!VpnToSetIdx(e.vpn, e.cls)
Kept(k, e, s) == IF e.fresh THEN Home(k, e) = s \/ Home(k, e) = 0
                 ELSE k.countPages /\ Home(k, e) = 0 /\ s # 0
Doomed(k, e, f, q) == /\ f.on /\ (f.allV \/ k.countPages)
                      /\ L2(k)!Covers(e, f.allV, f.allA, q.vpn, q.asid)

Placed(k, e, s, f, q) ==
    e.valid => Kept(k, e, s) \/ (Doomed(k, e, f, q) /\ ToVisit(k, s, f, q))
ReadPlaced(k, e, f, q) == e.valid => Kept(k, e, f.set) \/ Doomed(k, e, f, q)
EntriesPlaced(k) ==
    \A s \in L2(k)!SetIds, w \in 1 .. k.ways : Placed(k, mem[s][w], s, flush, chk)
FlushPlaced(k) ==
    /\ flush.on => \A w \in 1 .. k.ways : ReadPlaced(k, rd[w], flush, chk)
    /\ flush.on /\ ~flush.allV => flush.set = L2(k)!VpnToSetIdx(chk.vpn, flush.cls)
    /\ ~flush.on => flush.set = 0
ReadFresh(k) ==
    /\ pipe # <<>> /\ ~k.countPages => \A w \in 1 .. k.ways : rd[w].valid => rd[w].fresh
    /\ fsm = "REFILL" => rd = mem[resp.set]
L2Clean(k) == /\ EntriesPlaced(k) /\ FlushPlaced(k) /\ ReadFresh(k)
              /\ ~k.countPages => L2(k)!NoStaleHit

(***************************************************************************)
(* Entries, matches and fences, as for the first level.                    *)
(***************************************************************************)
\* The fields of an entry.
LEMMA L2EntryFields ==
    ASSUME NEW CONSTANT k, L2Assumption(k), NEW e \in L2(k)!Entries
    PROVE  /\ e.valid = TRUE /\ e.vpn \in L2(k)!Vpns /\ e.asid \in k.asids
           /\ e.cls \in k.classes /\ e.cls \in 0 .. k.maxClass /\ e.g \in BOOLEAN
           /\ e.g \in k.globals /\ e.fresh \in BOOLEAN
           /\ e = L2(k)!Entry(e.vpn, e.asid, e.cls, e.g, e.fresh)
BY DEF L2!Entries, L2!Entry, L2Assumption, L2!CamAssumption

\* What a fence removes is what the architecture says it covers.
LEMMA L2CoversIsFenced ==
    ASSUME NEW CONSTANT k, L2Assumption(k), NEW e \in L2(k)!Entries,
           NEW v \in L2(k)!Vpns, NEW a, NEW allV \in BOOLEAN, NEW allA \in BOOLEAN
    PROVE  L2(k)!Covers(e, allV, allA, v, a) <=> L2(k)!Fenced(e, allV, allA, v, a)
<1>1. /\ e.cls \in 0 .. k.maxClass /\ k.maxClass \in Nat /\ e.g \in BOOLEAN
  BY L2EntryFields DEF L2Assumption, L2!CamAssumption
<1>2. L2(k)!AddrMatch(e, v) <=> v \in L2(k)!PagesOf(e)
  <2>1. ASSUME L2(k)!AddrMatch(e, v), NEW c \in 1 .. k.maxClass + 1, c > e.cls
        PROVE  v[c] = e.vpn[c]
    <3>1. c - 1 \in e.cls .. k.maxClass /\ (c - 1) + 1 = c
      BY <1>1, <2>1
    <3> QED BY <2>1, <3>1 DEF L2!AddrMatch
  <2>2. ASSUME v \in L2(k)!PagesOf(e), NEW c \in e.cls .. k.maxClass
        PROVE  e.vpn[c + 1] = v[c + 1]
    <3>1. c + 1 \in 1 .. k.maxClass + 1 /\ c + 1 > e.cls
      BY <1>1
    <3> QED BY <2>2, <3>1 DEF L2!PagesOf
  <2> QED BY <2>1, <2>2 DEF L2!AddrMatch, L2!PagesOf
<1> QED BY <1>1, <1>2 DEF L2!Covers, L2!Fenced, L2!AsidMatch

\* A match translates the page in the address space.
LEMMA L2MatchTranslates ==
    ASSUME NEW CONSTANT k, L2Assumption(k),
           NEW e \in L2(k)!Entries \cup {L2(k)!Invalid}, NEW v \in L2(k)!Vpns, NEW a,
           L2(k)!FullMatch(e, v, a)
    PROVE  e \in L2(k)!Entries /\ L2(k)!Translates(e, v, a)
<1>1. e \in L2(k)!Entries
  BY DEF L2!FullMatch, L2!Invalid
<1>2. /\ e.cls \in 0 .. k.maxClass /\ k.maxClass \in Nat /\ e.g \in BOOLEAN
  BY <1>1, L2EntryFields DEF L2Assumption, L2!CamAssumption
<1>3. ASSUME NEW c \in 1 .. k.maxClass + 1, c > e.cls PROVE v[c] = e.vpn[c]
  <2>1. c - 1 \in e.cls .. k.maxClass /\ (c - 1) + 1 = c
    BY <1>2, <1>3
  <2> QED BY <2>1 DEF L2!FullMatch, L2!AddrMatch
<1> QED BY <1>1, <1>2, <1>3 DEF L2!Translates, L2!PagesOf, L2!FullMatch, L2!AsidMatch

\* What an entry is made of.
LEMMA L2EntryMade ==
    ASSUME NEW CONSTANT k, NEW v \in L2(k)!Vpns, NEW a \in k.asids, NEW c \in k.classes,
           NEW g \in k.globals, NEW f \in BOOLEAN
    PROVE  LET e == L2(k)!Entry(v, a, c, g, f)
           IN  /\ e \in L2(k)!Entries /\ e.valid = TRUE /\ e.vpn = v /\ e.asid = a
               /\ e.cls = c /\ e.g = g /\ e.fresh = f
<1>1. L2(k)!Entry(v, a, c, g, f) \in L2(k)!Entries
  BY DEF L2!Entries
<1> QED BY <1>1 DEF L2!Entry

\* Ageing keeps an entry an entry for the same pages.
LEMMA L2AgedEntry ==
    ASSUME NEW CONSTANT k, L2Assumption(k),
           NEW e \in L2(k)!Entries \cup {L2(k)!Invalid},
           NEW allV \in BOOLEAN, NEW allA \in BOOLEAN, NEW v, NEW a
    PROVE  /\ L2(k)!Aged(e, allV, allA, v, a) \in L2(k)!Entries \cup {L2(k)!Invalid}
           /\ L2(k)!Aged(e, allV, allA, v, a).valid = e.valid
           /\ e.valid => /\ L2(k)!Aged(e, allV, allA, v, a).vpn = e.vpn
                         /\ L2(k)!Aged(e, allV, allA, v, a).asid = e.asid
                         /\ L2(k)!Aged(e, allV, allA, v, a).cls = e.cls
                         /\ L2(k)!Aged(e, allV, allA, v, a).g = e.g
                         /\ L2(k)!Aged(e, allV, allA, v, a).fresh =
                              (e.fresh /\ ~L2(k)!Fenced(e, allV, allA, v, a))
<1>1. CASE e = L2(k)!Invalid
  BY <1>1 DEF L2!Aged, L2!Fenced, L2!Invalid
<1>2. CASE e \in L2(k)!Entries
  <2>1. /\ e.valid = TRUE /\ e.vpn \in L2(k)!Vpns /\ e.asid \in k.asids
        /\ e.cls \in k.classes /\ e.g \in k.globals /\ e.fresh \in BOOLEAN
        /\ e = L2(k)!Entry(e.vpn, e.asid, e.cls, e.g, e.fresh)
    BY <1>2, L2EntryFields
  <2> DEFINE o == L2(k)!Entry(e.vpn, e.asid, e.cls, e.g, FALSE)
  <2>2. [e EXCEPT !.fresh = FALSE] = o
    <3>1. e \in [valid : {TRUE}, vpn : L2(k)!Vpns, asid : k.asids, cls : k.classes,
                 g : k.globals, fresh : BOOLEAN]
      BY <2>1 DEF L2!Entry
    <3>2. \A b \in BOOLEAN : [e EXCEPT !.fresh = b] =
             [valid |-> e.valid, vpn |-> e.vpn, asid |-> e.asid, cls |-> e.cls, g |-> e.g,
              fresh |-> b]
      BY <3>1
    <3> QED BY <2>1, <3>2, Zenon DEF L2!Entry
  <2>3. /\ o \in L2(k)!Entries /\ o.valid = TRUE /\ o.vpn = e.vpn /\ o.asid = e.asid
        /\ o.cls = e.cls /\ o.g = e.g /\ o.fresh = FALSE
    BY <2>1, L2EntryMade
  <2> HIDE DEF o
  <2>4. CASE L2(k)!Fenced(e, allV, allA, v, a)
    <3>1. L2(k)!Aged(e, allV, allA, v, a) = o
      BY <2>2, <2>4, Zenon DEF L2!Aged
    <3> QED BY <2>1, <2>3, <2>4, <3>1
  <2>5. CASE ~L2(k)!Fenced(e, allV, allA, v, a)
    BY <1>2, <2>1, <2>5 DEF L2!Aged
  <2> QED BY <2>4, <2>5
<1> QED BY <1>1, <1>2

\* The cardinality of the library's theorems is the one of the component.
LEMMA L2Cardinality ==
    ASSUME NEW CONSTANT k, NEW S PROVE L2(k)!Cardinality(S) = Cardinality(S)
BY Zenon DEF L2!Cardinality, Cardinality

\* What a fence covers depends on the page, the address space and the size only.
LEMMA L2FencedSame ==
    ASSUME NEW CONSTANT k, NEW e, NEW d, e.valid = d.valid, e.vpn = d.vpn,
           e.asid = d.asid, e.cls = d.cls, e.g = d.g, NEW allV, NEW allA, NEW v, NEW a
    PROVE  L2(k)!Fenced(e, allV, allA, v, a) <=> L2(k)!Fenced(d, allV, allA, v, a)
BY DEF L2!Fenced, L2!PagesOf

\* The matched entry of a line is the entry of a way that matches.
LEMMA L2MatchedIsHit ==
    ASSUME NEW CONSTANT k, L2Assumption(k), NEW line \in L2(k)!Lines, NEW v, NEW a,
           L2(k)!Hits(line, v, a) # {}
    PROVE  \E w \in 1 .. k.ways : /\ L2(k)!MatchedEntry(line, v, a) = line[w]
                                  /\ L2(k)!FullMatch(line[w], v, a)
<1> DEFINE H == L2(k)!Hits(line, v, a)
<1>1. /\ H \subseteq 1 .. k.ways /\ k.ways \in Nat
      /\ \A w \in H : L2(k)!FullMatch(line[w], v, a)
  BY DEF L2!Lines, L2!Hits, L2Assumption, L2!SetAssumption
<1>2. L2(k)!Min(H) \in H
  <2>1. H \in SUBSET Nat /\ H # {}
    BY <1>1
  <2> HIDE DEF H
  <2>2. \E x \in H : \A y \in H : x <= y
    BY <2>1, LeastElement
  <2> QED BY <2>2 DEF L2!Min
<1> QED BY <1>1, <1>2 DEF L2!MatchedEntry

\* Every page has a set, the one above the last size class is set 0.
LEMMA L2SetIndex ==
    ASSUME NEW CONSTANT k, L2Assumption(k), NEW v \in L2(k)!Vpns
    PROVE  /\ \A c \in 0 .. k.maxClass + 1 : L2(k)!VpnToSetIdx(v, c) \in L2(k)!SetIds
           /\ L2(k)!VpnToSetIdx(v, k.maxClass + 1) = 0
<1>1. /\ k.sets \in Nat \ {0} /\ k.maxClass \in Nat /\ k.wordMax \in Nat
  BY DEF L2Assumption, L2!CamAssumption, L2!SetAssumption
<1>2. ASSUME NEW c \in 0 .. k.maxClass PROVE v[c + 1] % k.sets \in 0 .. k.sets - 1
  <2>1. c + 1 \in 1 .. k.maxClass + 1
    BY <1>1
  <2>2. v[c + 1] \in Nat
    BY <1>1, <2>1 DEF L2!Vpns
  <2> QED BY <1>1, <2>2
<1> QED BY <1>1, <1>2 DEF L2!VpnToSetIdx, L2!SetIds

\* What a request that enters changes.
Entered(k, r, old) ==
    /\ pipe' = r
    /\ r = <<>> => rd' = old /\ cls' = cls /\ chk' = chk
    /\ r # <<>> => /\ ~flush.on /\ cls' = 0 /\ chk' = [vpn |-> r[1], asid |-> asid]
                   /\ \E s \in L2(k)!SetIds : rd' = mem[s]

LEMMA L2Entered ==
    ASSUME NEW CONSTANT k, L2Assumption(k), NEW r \in L2(k)!Requests,
           NEW x \in 0 .. k.sets, L2(k)!Enter(r, x)
    PROVE  Entered(k, r, rd)
<1>1. r # <<>> => r[1] \in L2(k)!Vpns
  BY DEF L2!Requests, L2!NoRequest
<1>2. k.sets \in Nat \ {0} /\ k.maxClass \in Nat
  BY DEF L2Assumption, L2!CamAssumption, L2!SetAssumption
<1>3. r # <<>> => (IF x = k.sets THEN L2(k)!VpnToSetIdx(r[1], 0) ELSE x) \in L2(k)!SetIds
  BY <1>1, <1>2, L2SetIndex DEF L2!SetIds
<1> QED BY <1>3 DEF L2!Enter, Entered, L2!NoRequest

(***************************************************************************)
(* The first layer: the registers of a lookup belong together.             *)
(***************************************************************************)
LEMMA L2BaseEnter ==
    ASSUME NEW CONSTANT k, L2Assumption(k), L2Base(k), NEW r \in L2(k)!Requests,
           NEW old \in L2(k)!Lines, Entered(k, r, old), refill' = FALSE, fsm' = "IDLE",
           mem' \in [L2(k)!SetIds -> L2(k)!Lines], rr' \in [L2(k)!SetIds -> 1 .. k.ways],
           rrRd' \in 1 .. k.ways, resp' \in [e : MaybeEntries(k), set : L2(k)!SetIds],
           fwd' \in {<<>>} \cup {<<a>> : a \in Forwards(k)}, L2(k)!RightTranslation',
           UNCHANGED <<walkAsid, flush, asid>>
    PROVE  L2Base(k)'
<1>1. L2Types(k) /\ k.maxClass \in Nat
  BY DEF L2Base, L2Assumption, L2!CamAssumption
<1>2. /\ rd' \in L2(k)!Lines /\ cls' \in 0 .. k.maxClass
      /\ chk' \in [vpn : L2(k)!Vpns, asid : k.asids]
  <2>1. CASE r = <<>>
    BY <1>1, <2>1 DEF Entered, L2Types
  <2>2. CASE r # <<>>
    <3>1. r[1] \in L2(k)!Vpns /\ asid \in k.asids
      BY <1>1, <2>2 DEF L2!Requests, L2!NoRequest, L2Types
    <3>2. rd' \in L2(k)!Lines
      BY <1>1, <2>2 DEF Entered, L2Types
    <3>3. cls' = 0 /\ chk' = [vpn |-> r[1], asid |-> asid]
      BY <2>2 DEF Entered
    <3> QED BY <1>1, <3>1, <3>2, <3>3
  <2> QED BY <2>1, <2>2
<1>3. L2Types(k)'
  BY <1>1, <1>2 DEF L2Types, Entered
<1>4. LookupTogether(k)'
  BY <1>1 DEF L2Base, LookupTogether, Entered
<1>5. AnswerTogether(k)'
  BY DEF AnswerTogether
<1> QED BY <1>3, <1>4, <1>5 DEF L2Base

LEMMA L2BaseRequest ==
    ASSUME NEW CONSTANT k, L2Assumption(k), L2Base(k), NEW r \in L2(k)!Requests,
           L2(k)!Request(r)
    PROVE  L2Base(k)' /\ Entered(k, r, rd) /\ refill = FALSE /\ fsm = "IDLE"
<1>1. /\ pipe = <<>> /\ r # <<>>
      /\ UNCHANGED <<mem, rr, rrRd, refill, walkAsid, fsm, resp, fwd, flush, asid>>
  BY DEF L2!Request, L2!NoRequest
<1>2. Entered(k, r, rd)
  <2>1. k.sets \in 0 .. k.sets
    BY DEF L2Assumption, L2!SetAssumption
  <2> QED BY <2>1, L2Entered DEF L2!Request
<1>3. L2Types(k) /\ refill = FALSE /\ fsm = "IDLE" /\ rd \in L2(k)!Lines
  BY <1>1 DEF L2Base, LookupTogether, AnswerTogether, L2Types
<1>4. L2(k)!RightTranslation'
  BY <1>1 DEF L2Base, L2!RightTranslation, L2!Translates, L2!PagesOf
<1> QED BY <1>1, <1>2, <1>3, <1>4, L2BaseEnter DEF L2Types

LEMMA L2BaseHit ==
    ASSUME NEW CONSTANT k, L2Assumption(k), L2Base(k), NEW r \in L2(k)!Requests,
           L2(k)!LookupHit(r)
    PROVE  /\ L2Base(k)' /\ Entered(k, r, rd) /\ refill = FALSE /\ fsm = "IDLE"
           /\ \E w \in 1 .. k.ways : rd[w].valid /\ fwd'[1].e = rd[w]
<1> DEFINE m == L2(k)!MatchedEntry(rd, chk.vpn, chk.asid)
           a == [e |-> m, vpn |-> pipe[1], asid |-> asid]
<1>1. /\ pipe # <<>> /\ ~refill /\ fwd' = <<a>>
      /\ UNCHANGED <<mem, rr, rrRd, refill, walkAsid, fsm, resp, flush, asid>>
  BY DEF L2!LookupHit, L2!Lookup, L2!NoRequest
<1>2. Entered(k, r, rd)
  <2>1. k.sets \in 0 .. k.sets
    BY DEF L2Assumption, L2!SetAssumption
  <2> QED BY <2>1, L2Entered DEF L2!LookupHit
<1>3. L2Types(k) /\ refill = FALSE /\ fsm = "IDLE" /\ rd \in L2(k)!Lines
      /\ chk.vpn = pipe[1] /\ chk.vpn \in L2(k)!Vpns /\ chk.asid = asid /\ asid \in k.asids
  BY <1>1 DEF L2Base, LookupTogether, AnswerTogether, L2Types
<1>4. PICK w \in 1 .. k.ways : m = rd[w] /\ L2(k)!FullMatch(rd[w], chk.vpn, chk.asid)
  BY <1>3, L2MatchedIsHit DEF L2!LookupHit
<1>5. rd[w] \in MaybeEntries(k)
  BY <1>3 DEF L2!Lines, MaybeEntries
<1>6. rd[w] \in L2(k)!Entries /\ L2(k)!Translates(rd[w], chk.vpn, chk.asid)
  BY <1>3, <1>4, <1>5, L2MatchTranslates DEF MaybeEntries
<1> HIDE DEF m
<1>7. a \in Forwards(k) /\ a.e = rd[w] /\ a.vpn = chk.vpn /\ a.asid = chk.asid
  BY <1>3, <1>4, <1>5 DEF Forwards
<1> HIDE DEF a
<1>8. fwd' \in {<<>>} \cup {<<x>> : x \in Forwards(k)} /\ fwd'[1] = a
  BY <1>1, <1>7
<1>9. L2(k)!RightTranslation'
  BY <1>6, <1>7, <1>8 DEF L2!RightTranslation, L2!Translates, L2!PagesOf
<1>10. L2Base(k)'
  BY <1>1, <1>2, <1>3, <1>8, <1>9, L2BaseEnter DEF L2Types
<1>11. rd[w].valid
  BY <1>4 DEF L2!FullMatch
<1> QED BY <1>2, <1>3, <1>7, <1>8, <1>10, <1>11

LEMMA L2BaseFault ==
    ASSUME NEW CONSTANT k, L2Assumption(k), L2Base(k), NEW r \in L2(k)!Requests,
           NEW c \in 0 .. k.maxClass, L2(k)!RefillFault(r, c)
    PROVE  /\ L2Base(k)' /\ refill = TRUE /\ refill' = FALSE /\ fsm' = "IDLE" /\ ~fwd'[1].e.valid
           /\ \E s \in L2(k)!SetIds : Entered(k, r, mem[s])
           /\ UNCHANGED <<mem, rr, walkAsid, flush, asid>>
<1> DEFINE s0 == L2(k)!VpnToSetIdx(pipe[1], c)
           a == [e |-> L2(k)!Fault, vpn |-> pipe[1], asid |-> walkAsid]
<1>1. /\ refill /\ fsm = "IDLE" /\ fwd' = <<a>> /\ refill' = FALSE
      /\ resp' = [e |-> L2(k)!Fault, set |-> s0] /\ rrRd' = rr[s0]
      /\ UNCHANGED <<mem, rr, walkAsid, fsm, flush, asid>>
  BY DEF L2!RefillFault
<1>2. /\ L2Types(k) /\ pipe[1] \in L2(k)!Vpns /\ walkAsid \in k.asids /\ k.maxClass \in Nat
      /\ k.sets \in Nat \ {0}
  BY <1>1 DEF L2Base, LookupTogether, L2Types, L2!Requests, L2!NoRequest, L2Assumption,
     L2!CamAssumption, L2!SetAssumption
<1>3. s0 \in L2(k)!SetIds /\ s0 \in 0 .. k.sets /\ s0 # k.sets
  <2>1. c \in 0 .. k.maxClass + 1
    BY <1>2
  <2> QED BY <1>2, <2>1, L2SetIndex DEF L2!SetIds
<1>4. Entered(k, r, mem[s0])
  <2>1. CASE r = <<>>
    BY <2>1 DEF L2!RefillFault, L2!NoRequest, Entered
  <2>2. CASE r # <<>>
    <3>1. L2(k)!Enter(r, s0)
      BY <2>2 DEF L2!RefillFault, L2!NoRequest
    <3> QED BY <1>3, <2>2, <3>1, L2Entered DEF Entered
  <2> QED BY <2>1, <2>2
<1>5. L2(k)!Fault \in MaybeEntries(k) /\ ~L2(k)!Fault.valid
  BY DEF MaybeEntries, L2!Fault, L2!Invalid
<1> HIDE DEF s0
<1>6. a \in Forwards(k) /\ ~a.e.valid
  BY <1>2, <1>5 DEF Forwards
<1> HIDE DEF a
<1>7. fwd' \in {<<>>} \cup {<<x>> : x \in Forwards(k)} /\ fwd'[1] = a
  BY <1>1, <1>6
<1>8. L2(k)!RightTranslation'
  BY <1>6, <1>7 DEF L2!RightTranslation
<1>9. /\ mem[s0] \in L2(k)!Lines /\ rrRd' \in 1 .. k.ways
      /\ resp' \in [e : MaybeEntries(k), set : L2(k)!SetIds]
  BY <1>1, <1>2, <1>3, <1>5 DEF L2Types
<1>10. L2Base(k)'
  BY <1>1, <1>2, <1>4, <1>7, <1>8, <1>9, L2BaseEnter DEF L2Types
<1> QED BY <1>1, <1>2, <1>3, <1>4, <1>6, <1>7, <1>10 DEF L2Types

LEMMA L2BaseNextClass ==
    ASSUME NEW CONSTANT k, L2Assumption(k), L2Base(k), L2(k)!LookupNextClass
    PROVE  L2Base(k)' /\ fsm = "IDLE" /\ refill = FALSE /\ rd' = mem[L2(k)!VpnToSetIdx(pipe[1], cls')]
           /\ cls' \in 1 .. k.maxClass
<1>1. /\ pipe # <<>> /\ ~refill /\ cls < k.maxClass /\ cls' = cls + 1
      /\ rd' = mem[L2(k)!VpnToSetIdx(pipe[1], cls + 1)]
      /\ UNCHANGED <<mem, rr, rrRd, pipe, chk, refill, walkAsid, fsm, resp, fwd, flush, asid>>
  BY DEF L2!LookupNextClass, L2!Lookup, L2!NoRequest
<1>2. L2Types(k) /\ k.maxClass \in Nat /\ pipe[1] \in L2(k)!Vpns
  BY <1>1 DEF L2Base, L2Types, LookupTogether, L2Assumption, L2!CamAssumption
<1>3. cls' \in 1 .. k.maxClass /\ rd' \in L2(k)!Lines
  <2>1. cls + 1 \in 1 .. k.maxClass
    BY <1>1, <1>2 DEF L2Types
  <2>2. cls + 1 \in 0 .. k.maxClass + 1
    BY <1>2, <2>1
  <2>3. L2(k)!VpnToSetIdx(pipe[1], cls + 1) \in L2(k)!SetIds
    BY <1>2, <2>2, L2SetIndex
  <2> QED BY <1>1, <1>2, <2>1, <2>3 DEF L2Types
<1>4. L2Types(k)'
  BY <1>1, <1>2, <1>3 DEF L2Types
<1>5. L2(k)!RightTranslation'
  BY <1>1 DEF L2Base, L2!RightTranslation, L2!Translates, L2!PagesOf
<1>6. fsm = "IDLE" /\ refill = FALSE
  BY <1>1, <1>2 DEF L2Base, L2Types, AnswerTogether
<1>7. LookupTogether(k)' /\ AnswerTogether(k)'
  BY <1>1, <1>6 DEF L2Base, LookupTogether, AnswerTogether
<1> QED BY <1>1, <1>3, <1>4, <1>5, <1>6, <1>7 DEF L2Base

LEMMA L2BaseMiss ==
    ASSUME NEW CONSTANT k, L2Assumption(k), L2Base(k), L2(k)!LookupMiss
    PROVE  L2Base(k)' /\ fsm = "IDLE"
<1>1. /\ pipe # <<>> /\ ~refill /\ refill' = TRUE /\ walkAsid' = asid
      /\ UNCHANGED <<mem, rr, rd, rrRd, pipe, chk, cls, fsm, resp, fwd, flush, asid>>
  BY DEF L2!LookupMiss, L2!Lookup, L2!NoRequest
<1>2. L2Types(k)'
  BY <1>1 DEF L2Base, L2Types
<1>3. L2(k)!RightTranslation'
  BY <1>1 DEF L2Base, L2!RightTranslation, L2!Translates, L2!PagesOf
<1>4. fsm = "IDLE"
  BY <1>1 DEF L2Base, L2Types, AnswerTogether
<1>5. LookupTogether(k)' /\ AnswerTogether(k)'
  BY <1>1, <1>4 DEF L2Base, LookupTogether, AnswerTogether
<1> QED BY <1>2, <1>3, <1>4, <1>5 DEF L2Base

LEMMA L2BaseAnswer ==
    ASSUME NEW CONSTANT k, L2Assumption(k), L2Base(k), NEW c \in k.classes, NEW g \in k.globals,
           L2(k)!RefillAnswer(c, g)
    PROVE  /\ L2Base(k)' /\ fsm' = "REFILL" /\ rd' = mem[resp'.set] /\ resp'.set \in L2(k)!SetIds
           /\ refill /\ pipe # <<>> /\ resp'.e.g = g
           /\ UNCHANGED <<mem, rr, pipe, chk, cls, refill, walkAsid, fwd, flush, asid>>
<1> DEFINE s0 == L2(k)!VpnToSetIdx(pipe[1], c)
           e0 == L2(k)!Entry(pipe[1], walkAsid, c, g, TRUE)
<1>1. /\ refill /\ resp' = [e |-> e0, set |-> s0] /\ rd' = mem[s0] /\ rrRd' = rr[s0]
      /\ fsm' = "REFILL"
      /\ UNCHANGED <<mem, rr, pipe, chk, cls, refill, walkAsid, fwd, flush, asid>>
  BY DEF L2!RefillAnswer
<1>2. /\ L2Types(k) /\ pipe # <<>> /\ pipe[1] \in L2(k)!Vpns /\ walkAsid \in k.asids
      /\ k.maxClass \in Nat /\ c \in 0 .. k.maxClass
  BY <1>1 DEF L2Base, LookupTogether, L2Types, L2Assumption, L2!CamAssumption
<1>3. s0 \in L2(k)!SetIds
  <2>1. c \in 0 .. k.maxClass + 1
    BY <1>2
  <2> QED BY <1>2, <2>1, L2SetIndex
<1>4. /\ e0 \in L2(k)!Entries /\ e0.vpn = pipe[1] /\ e0.asid = walkAsid /\ e0.cls = c
      /\ e0.g = g /\ e0.fresh = TRUE
  <2>1. TRUE \in BOOLEAN
    OBVIOUS
  <2>2. PICK v \in L2(k)!Vpns, a \in k.asids : v = pipe[1] /\ a = walkAsid
    BY <1>2
  <2>3. L2(k)!Entry(v, a, c, g, TRUE) \in L2(k)!Entries
    BY <2>1, L2EntryMade, Zenon
  <2>4. e0 \in L2(k)!Entries
    BY <2>2, <2>3, Zenon
  <2> QED BY <2>4 DEF L2!Entry
<1>5. s0 = L2(k)!VpnToSetIdx(pipe[1], e0.cls)
  BY <1>4
<1> HIDE DEF s0, e0
<1>6. L2Types(k)'
  <2>1. rd' \in L2(k)!Lines /\ rrRd' \in 1 .. k.ways
    BY <1>1, <1>2, <1>3 DEF L2Types
  <2>2. resp' \in [e : MaybeEntries(k), set : L2(k)!SetIds]
    BY <1>1, <1>3, <1>4 DEF MaybeEntries
  <2> QED BY <1>1, <1>2, <2>1, <2>2 DEF L2Types
<1>7. L2(k)!RightTranslation'
  BY <1>1 DEF L2Base, L2!RightTranslation, L2!Translates, L2!PagesOf
<1>8. LookupTogether(k)'
  BY <1>1 DEF L2Base, LookupTogether
<1>9. AnswerTogether(k)'
  <2>1. resp'.e = e0 /\ resp'.set = s0
    BY <1>1
  <2>2. L2(k)!VpnToSetIdx(pipe[1], e0.cls) = L2(k)!VpnToSetIdx(pipe'[1], resp'.e.cls)
    BY <1>1, <2>1
  <2>3. L2(k)!Entries = L2(k)!Entries'
    BY DEF L2!Entries, L2!Entry, L2!Vpns
  <2> QED BY <1>1, <1>4, <1>5, <2>1, <2>2 DEF AnswerTogether, L2!VpnToSetIdx
<1> QED BY <1>1, <1>2, <1>3, <1>4, <1>6, <1>7, <1>8, <1>9 DEF L2Base

LEMMA L2BaseAccept ==
    ASSUME NEW CONSTANT k, L2Assumption(k), L2Base(k), L2(k)!Accept
    PROVE  L2Base(k)'
<1>1. /\ fwd' = <<>>
      /\ UNCHANGED <<mem, rr, rd, rrRd, pipe, chk, cls, refill, walkAsid, fsm, resp, flush, asid>>
  BY DEF L2!Accept
<1> QED BY <1>1 DEF L2Base, L2Types, LookupTogether, AnswerTogether, L2!RightTranslation

LEMMA L2BaseWriteSatp ==
    ASSUME NEW CONSTANT k, L2Assumption(k), L2Base(k), L2(k)!WriteSatp
    PROVE  L2Base(k)'
<1>1. /\ pipe = <<>> \/ refill
      /\ asid' \in k.asids
      /\ UNCHANGED <<mem, rr, rd, rrRd, pipe, chk, cls, refill, walkAsid, fsm, resp, fwd, flush>>
  BY DEF L2!WriteSatp, L2!NoRequest
<1>2. L2(k)!RightTranslation'
  BY <1>1 DEF L2Base, L2!RightTranslation, L2!Translates, L2!PagesOf
<1> QED BY <1>1, <1>2 DEF L2Base, L2Types, LookupTogether, AnswerTogether

LEMMA L2BaseWrite ==
    ASSUME NEW CONSTANT k, L2Assumption(k), L2Base(k), NEW r \in L2(k)!Requests,
           L2(k)!RefillWrite(r)
    PROVE  /\ L2Base(k)' /\ Entered(k, r, rd) /\ refill = TRUE /\ fsm = "REFILL"
           /\ refill' = FALSE /\ fsm' = "IDLE" /\ fwd'[1].e = resp.e
           /\ \E w : mem' = [mem EXCEPT ![resp.set] = [rd EXCEPT ![w] = resp.e]]
           /\ UNCHANGED <<resp, flush, asid>>
<1> DEFINE a == [e |-> resp.e, vpn |-> pipe[1], asid |-> walkAsid]
           way == L2(k)!ReplaceCandidate(rd, chk.vpn, chk.asid, rrRd)
           line == [rd EXCEPT ![way] = resp.e]
           next == L2(k)!NextReplacement(rd, rrRd)
<1>1. /\ fsm = "REFILL" /\ fwd' = <<a>> /\ refill' = FALSE /\ fsm' = "IDLE"
      /\ mem' = [mem EXCEPT ![resp.set] = line] /\ rr' = [rr EXCEPT ![resp.set] = next]
      /\ UNCHANGED <<rrRd, walkAsid, resp, flush, asid>>
  BY DEF L2!RefillWrite
<1>2. Entered(k, r, rd)
  <2>1. k.sets \in 0 .. k.sets
    BY DEF L2Assumption, L2!SetAssumption
  <2> QED BY <2>1, L2Entered DEF L2!RefillWrite
<1>3. /\ L2Types(k) /\ refill = TRUE /\ resp.e \in L2(k)!Entries /\ resp.e.vpn = pipe[1]
      /\ resp.e.asid = walkAsid /\ pipe[1] \in L2(k)!Vpns /\ walkAsid \in k.asids
      /\ k.ways \in Nat \ {0} /\ k.maxClass \in Nat
  BY <1>1 DEF L2Base, LookupTogether, AnswerTogether, L2Types, L2Assumption,
     L2!SetAssumption, L2!CamAssumption
<1>4. next \in 1 .. k.ways
  <2>1. rrRd \in 1 .. k.ways /\ DOMAIN rd = 1 .. k.ways
    BY <1>3 DEF L2Types, L2!Lines
  <2>2. L2(k)!Cardinality(DOMAIN rd) = k.ways
    BY <1>3, <2>1, L2Cardinality, FS_Interval
  <2>3. rrRd % k.ways \in 0 .. k.ways - 1
    BY <1>3, <2>1
  <2> QED BY <1>3, <2>1, <2>2, <2>3 DEF L2!NextReplacement
<1> HIDE DEF way, next
<1>5. line \in L2(k)!Lines
  BY <1>3 DEF L2Types, L2!Lines
<1> HIDE DEF line
<1>6. a \in Forwards(k) /\ a.e = resp.e /\ a.vpn = pipe[1] /\ a.asid = walkAsid
  BY <1>3 DEF Forwards, MaybeEntries
<1> HIDE DEF a
<1>7. fwd' \in {<<>>} \cup {<<x>> : x \in Forwards(k)} /\ fwd'[1] = a
  BY <1>1, <1>6
<1>8. L2(k)!RightTranslation'
  BY <1>3, <1>6, <1>7 DEF L2!RightTranslation, L2!Translates, L2!PagesOf
<1>9. /\ mem' \in [L2(k)!SetIds -> L2(k)!Lines] /\ rr' \in [L2(k)!SetIds -> 1 .. k.ways]
      /\ rd \in L2(k)!Lines /\ rrRd' \in 1 .. k.ways
      /\ resp' \in [e : MaybeEntries(k), set : L2(k)!SetIds]
  BY <1>1, <1>3, <1>4, <1>5 DEF L2Types
<1>10. L2Base(k)'
  BY <1>1, <1>2, <1>7, <1>8, <1>9, L2BaseEnter
<1> QED BY <1>1, <1>2, <1>3, <1>6, <1>7, <1>10 DEF line

\* The memory after a fence was accepted.
FenceAged(k, allV, allA, v, a) ==
    \A s \in L2(k)!SetIds, w \in 1 .. k.ways :
        /\ mem'[s][w] \in MaybeEntries(k)
        /\ mem'[s][w].valid = mem[s][w].valid
        /\ mem[s][w].valid =>
             /\ mem'[s][w].vpn = mem[s][w].vpn /\ mem'[s][w].asid = mem[s][w].asid
             /\ mem'[s][w].cls = mem[s][w].cls /\ mem'[s][w].g = mem[s][w].g
             /\ mem'[s][w].fresh =
                  (mem[s][w].fresh /\ ~((allV \/ k.countPages)
                                        /\ L2(k)!Fenced(mem[s][w], allV, allA, v, a)))

LEMMA L2BaseSFence ==
    ASSUME NEW CONSTANT k, L2Assumption(k), L2Base(k), NEW allV \in BOOLEAN,
           NEW allA \in BOOLEAN, NEW v \in L2(k)!Vpns, NEW a \in k.asids,
           L2(k)!SFence(allV, allA, v, a)
    PROVE  /\ L2Base(k)' /\ FenceAged(k, allV, allA, v, a)
           /\ ~flush.on /\ pipe = <<>> /\ refill = FALSE /\ fsm = "IDLE"
           /\ chk' = [vpn |-> v, asid |-> a]
           /\ flush' = [on |-> TRUE, set |-> IF allV THEN 0 ELSE L2(k)!VpnToSetIdx(v, 0),
                        cls |-> 0, allV |-> allV, allA |-> allA]
           /\ rd' = mem'[flush.set] /\ UNCHANGED <<pipe, cls, refill, fsm, resp, fwd, asid>>
<1>1. /\ ~flush.on /\ pipe = <<>> /\ ~refill /\ chk' = [vpn |-> v, asid |-> a]
      /\ flush' = [on |-> TRUE, set |-> IF allV THEN 0 ELSE L2(k)!VpnToSetIdx(v, 0),
                   cls |-> 0, allV |-> allV, allA |-> allA]
      /\ mem' = IF allV \/ k.countPages
                THEN [s \in L2(k)!SetIds |->
                        [w \in 1 .. k.ways |-> L2(k)!Aged(mem[s][w], allV, allA, v, a)]]
                ELSE mem
      /\ rd' = mem'[flush.set]
      /\ UNCHANGED <<rr, rrRd, pipe, cls, refill, walkAsid, fsm, resp, fwd, asid>>
  BY DEF L2!SFence, L2!FenceReady, L2!NoRequest
<1>2. /\ L2Types(k) /\ refill = FALSE /\ fsm = "IDLE" /\ k.maxClass \in Nat /\ k.sets \in Nat \ {0}
  BY <1>1 DEF L2Base, L2Types, AnswerTogether, L2Assumption, L2!CamAssumption, L2!SetAssumption
<1>3. FenceAged(k, allV, allA, v, a)
  <2>1. ASSUME NEW s \in L2(k)!SetIds, NEW w \in 1 .. k.ways
        PROVE  mem[s][w] \in MaybeEntries(k) /\ (mem[s][w].valid => mem[s][w].fresh \in BOOLEAN)
    <3>1. mem[s] \in L2(k)!Lines
      BY <1>2 DEF L2Types
    <3>2. mem[s][w] \in L2(k)!Entries \cup {L2(k)!Invalid}
      BY <3>1 DEF L2!Lines
    <3>3. mem[s][w] \in L2(k)!Entries => mem[s][w].fresh \in BOOLEAN
      BY L2EntryFields
    <3>4. mem[s][w] = L2(k)!Invalid => ~mem[s][w].valid
      BY DEF L2!Invalid
    <3> QED BY <3>2, <3>3, <3>4, Zenon DEF MaybeEntries
  <2>2. CASE allV \/ k.countPages
    <3>1. ASSUME NEW s \in L2(k)!SetIds, NEW w \in 1 .. k.ways
          PROVE  LET d == L2(k)!Aged(mem[s][w], allV, allA, v, a)
                 IN  /\ d \in MaybeEntries(k) /\ d.valid = mem[s][w].valid
                     /\ mem[s][w].valid =>
                          /\ d.vpn = mem[s][w].vpn /\ d.asid = mem[s][w].asid
                          /\ d.cls = mem[s][w].cls /\ d.g = mem[s][w].g
                          /\ d.fresh = (mem[s][w].fresh
                                        /\ ~L2(k)!Fenced(mem[s][w], allV, allA, v, a))
      BY <2>1, L2AgedEntry DEF MaybeEntries
    <3>2. ASSUME NEW s \in L2(k)!SetIds, NEW w \in 1 .. k.ways
          PROVE  mem'[s][w] = L2(k)!Aged(mem[s][w], allV, allA, v, a)
      BY <1>1, <2>2
    <3> QED BY <2>2, <3>1, <3>2 DEF FenceAged
  <2>3. CASE ~(allV \/ k.countPages)
    <3>1. mem' = mem
      BY <1>1, <2>3
    <3> QED BY <2>1, <2>3, <3>1 DEF FenceAged
  <2> QED BY <2>2, <2>3
<1>4. /\ mem' \in [L2(k)!SetIds -> L2(k)!Lines] /\ rd' \in L2(k)!Lines
  <2>1. mem' \in [L2(k)!SetIds -> L2(k)!Lines]
    <3>1. CASE allV \/ k.countPages
      BY <1>1, <1>3, <3>1 DEF FenceAged, MaybeEntries, L2!Lines
    <3>2. CASE ~(allV \/ k.countPages)
      BY <1>1, <1>2, <3>2 DEF L2Types
    <3> QED BY <3>1, <3>2
  <2> QED BY <1>1, <1>2, <2>1 DEF L2Types
<1>5. flush' \in [on : BOOLEAN, set : L2(k)!SetIds, cls : 0 .. k.maxClass, allV : BOOLEAN,
                  allA : BOOLEAN]
  <2>1. L2(k)!VpnToSetIdx(v, 0) \in L2(k)!SetIds /\ 0 \in L2(k)!SetIds /\ 0 \in 0 .. k.maxClass
    BY <1>2, L2SetIndex DEF L2!SetIds
  <2>2. \A b \in BOOLEAN, s \in L2(k)!SetIds, c \in 0 .. k.maxClass :
          [on |-> b, set |-> s, cls |-> c, allV |-> allV, allA |-> allA]
             \in [on : BOOLEAN, set : L2(k)!SetIds, cls : 0 .. k.maxClass, allV : BOOLEAN,
                  allA : BOOLEAN]
    OBVIOUS
  <2>3. (IF allV THEN 0 ELSE L2(k)!VpnToSetIdx(v, 0)) \in L2(k)!SetIds /\ TRUE \in BOOLEAN
    BY <2>1
  <2> QED BY <1>1, <2>1, <2>2, <2>3, Zenon
<1>6. L2Types(k)'
  BY <1>1, <1>2, <1>4, <1>5 DEF L2Types
<1>7. L2(k)!RightTranslation'
  BY <1>1 DEF L2Base, L2!RightTranslation, L2!Translates, L2!PagesOf
<1>8. LookupTogether(k)' /\ AnswerTogether(k)'
  BY <1>1, <1>2 DEF LookupTogether, AnswerTogether
<1> QED BY <1>1, <1>2, <1>3, <1>6, <1>7, <1>8 DEF L2Base

\* A flush removes entries and adds none.
LEMMA L2FlushedLine ==
    ASSUME NEW CONSTANT k, L2Assumption(k), NEW line \in L2(k)!Lines, NEW allV, NEW allA,
           NEW v, NEW a
    PROVE  /\ L2(k)!Flushed(line, allV, allA, v, a) \in L2(k)!Lines
           /\ \A w \in 1 .. k.ways : L2(k)!Flushed(line, allV, allA, v, a)[w] =
                 IF L2(k)!Covers(line[w], allV, allA, v, a) THEN L2(k)!Invalid ELSE line[w]
BY DEF L2!Lines, L2!Flushed

LEMMA L2BaseFlush ==
    ASSUME NEW CONSTANT k, L2Assumption(k), L2Base(k), L2(k)!FlushCycle
    PROVE  /\ L2Base(k)' /\ flush.on /\ pipe = <<>> /\ refill = FALSE /\ fsm = "IDLE"
           /\ mem' = [mem EXCEPT ![flush.set] = Flushing(k, rd, flush, chk)] /\ rd' = mem[flush'.set]
           /\ flush'.set = L2(k)!NextFlushSet /\ flush'.on = ~L2(k)!FlushDone
           /\ flush'.cls = (IF flush.allV THEN flush.cls ELSE (flush.cls + 1) % (k.maxClass + 1))
           /\ flush'.allV = flush.allV /\ flush'.allA = flush.allA
           /\ UNCHANGED <<pipe, chk, cls, refill, fsm, resp, fwd, asid>>
<1> DEFINE n == L2(k)!NextFlushSet
           b == ~L2(k)!FlushDone
           c == IF flush.allV THEN flush.cls ELSE (flush.cls + 1) % (k.maxClass + 1)
<1>1. /\ flush.on /\ rd' = mem[n] /\ mem' = [mem EXCEPT ![flush.set] = Flushing(k, rd, flush, chk)]
      /\ flush' = [flush EXCEPT !.set = n, !.on = b, !.cls = c]
      /\ UNCHANGED <<rr, rrRd, pipe, chk, cls, refill, walkAsid, fsm, resp, fwd, asid>>
  BY DEF L2!FlushCycle, Flushing
<1>2. /\ L2Types(k) /\ pipe = <<>> /\ refill = FALSE /\ fsm = "IDLE" /\ k.maxClass \in Nat
      /\ k.sets \in Nat \ {0}
  BY <1>1 DEF L2Base, L2Types, AnswerTogether, LookupTogether, L2Assumption, L2!CamAssumption,
     L2!SetAssumption
<1>3. n \in L2(k)!SetIds
  <2>1. flush.set \in L2(k)!SetIds /\ flush.cls \in 0 .. k.maxClass /\ chk.vpn \in L2(k)!Vpns
    BY <1>2 DEF L2Types
  <2>2. (flush.set + 1) % k.sets \in L2(k)!SetIds
    BY <1>2, <2>1 DEF L2!SetIds
  <2>3. flush.cls + 1 \in 0 .. k.maxClass + 1
    BY <1>2, <2>1
  <2>4. L2(k)!VpnToSetIdx(chk.vpn, flush.cls + 1) \in L2(k)!SetIds
    BY <2>1, <2>3, L2SetIndex
  <2> QED BY <2>2, <2>4 DEF L2!NextFlushSet
<1>4. c \in 0 .. k.maxClass
  <2>1. flush.cls \in 0 .. k.maxClass
    BY <1>2 DEF L2Types
  <2>2. (flush.cls + 1) % (k.maxClass + 1) \in 0 .. k.maxClass
    BY <1>2, <2>1
  <2> QED BY <2>1, <2>2
<1>5. b \in BOOLEAN
  BY Zenon
<1> HIDE DEF n, b, c
<1>6. /\ flush' \in [on : BOOLEAN, set : L2(k)!SetIds, cls : 0 .. k.maxClass, allV : BOOLEAN,
                     allA : BOOLEAN]
      /\ flush'.set = n /\ flush'.on = b /\ flush'.cls = c
      /\ flush'.allV = flush.allV /\ flush'.allA = flush.allA
  <2>1. flush \in [on : BOOLEAN, set : L2(k)!SetIds, cls : 0 .. k.maxClass, allV : BOOLEAN,
                     allA : BOOLEAN]
    BY <1>2 DEF L2Types
  <2> QED BY <1>1, <1>3, <1>4, <1>5, <2>1
<1>7. mem' \in [L2(k)!SetIds -> L2(k)!Lines] /\ rd' \in L2(k)!Lines
  <2>1. Flushing(k, rd, flush, chk) \in L2(k)!Lines
    BY <1>2, L2FlushedLine DEF L2Types, Flushing
  <2> QED BY <1>1, <1>2, <1>3, <2>1 DEF L2Types
<1>8. L2Types(k)'
  BY <1>1, <1>2, <1>6, <1>7 DEF L2Types
<1>9. L2(k)!RightTranslation'
  BY <1>1 DEF L2Base, L2!RightTranslation, L2!Translates, L2!PagesOf
<1>10. LookupTogether(k)' /\ AnswerTogether(k)'
  BY <1>1, <1>2 DEF LookupTogether, AnswerTogether
<1>11. L2Base(k)'
  BY <1>8, <1>9, <1>10 DEF L2Base
<1> QED BY <1>1, <1>2, <1>6, <1>11 DEF n, b, c

LEMMA L2BaseInit ==
    ASSUME NEW CONSTANT k, L2Assumption(k), L2(k)!Init
    PROVE  /\ L2Base(k) /\ pipe = <<>> /\ refill = FALSE /\ fsm = "IDLE" /\ fwd = <<>>
           /\ rd = mem[0] /\ flush.on /\ flush.set = 0 /\ flush.allV /\ flush.allA
           /\ \A s \in L2(k)!SetIds, w \in 1 .. k.ways : mem[s][w].valid => ~mem[s][w].fresh
<1> DEFINE v0 == [c \in 1 .. k.maxClass + 1 |-> 0]
<1>1. /\ rr = [s \in L2(k)!SetIds |-> 1] /\ rd = mem[0] /\ rrRd = 1
      /\ asid \in k.asids /\ pipe = <<>> /\ chk = [vpn |-> v0, asid |-> asid] /\ cls = 0
      /\ refill = FALSE /\ walkAsid = asid /\ fsm = "IDLE"
      /\ resp = [e |-> L2(k)!Fault, set |-> 0] /\ fwd = <<>>
      /\ flush = [on |-> TRUE, set |-> 0, cls |-> 0, allV |-> TRUE, allA |-> TRUE]
  BY DEF L2!Init, L2!NoRequest
<1>2. /\ k.maxClass \in Nat /\ k.wordMax \in Nat /\ k.sets \in Nat \ {0} /\ k.ways \in Nat \ {0}
  BY DEF L2Assumption, L2!CamAssumption, L2!SetAssumption
<1>3. PICK e \in MaybeEntries(k) : /\ mem = [s \in L2(k)!SetIds |-> [w \in 1 .. k.ways |-> e]]
                                   /\ e.valid => ~e.fresh
  BY DEF L2!Init, MaybeEntries, L2!Invalid
<1>4. mem \in [L2(k)!SetIds -> L2(k)!Lines] /\ 0 \in L2(k)!SetIds
  BY <1>2, <1>3 DEF L2!Lines, MaybeEntries, L2!SetIds
<1>5. v0 \in L2(k)!Vpns /\ chk.vpn = v0
  BY <1>1, <1>2 DEF L2!Vpns
<1>6. chk \in [vpn : L2(k)!Vpns, asid : k.asids]
  <2> HIDE DEF v0
  <2> QED BY <1>1, <1>5
<1>7. resp \in [e : MaybeEntries(k), set : L2(k)!SetIds]
  <2>1. L2(k)!Fault \in MaybeEntries(k)
    BY DEF L2!Fault, L2!Invalid, MaybeEntries
  <2> QED BY <1>1, <1>4, <2>1
<1>8. flush \in [on : BOOLEAN, set : L2(k)!SetIds, cls : 0 .. k.maxClass, allV : BOOLEAN,
                 allA : BOOLEAN]
  BY <1>1, <1>2, <1>4
<1>9. L2Types(k)
  <2>1. rr \in [L2(k)!SetIds -> 1 .. k.ways] /\ rrRd \in 1 .. k.ways /\ cls \in 0 .. k.maxClass
    BY <1>1, <1>2
  <2>2. rd \in L2(k)!Lines
    BY <1>1, <1>4
  <2>3. /\ pipe \in L2(k)!Requests /\ refill \in BOOLEAN /\ walkAsid \in k.asids
        /\ fsm \in {"IDLE", "REFILL"} /\ fwd \in {<<>>} \cup {<<x>> : x \in Forwards(k)}
    BY <1>1 DEF L2!Requests, L2!NoRequest
  <2> QED BY <1>1, <1>4, <1>6, <1>7, <1>8, <2>1, <2>2, <2>3, Zenon DEF L2Types
<1>10. LookupTogether(k) /\ AnswerTogether(k) /\ L2(k)!RightTranslation
  BY <1>1 DEF LookupTogether, AnswerTogether, L2!RightTranslation
<1>11. flush.on /\ flush.set = 0 /\ flush.allV /\ flush.allA
  BY <1>1
<1> QED BY <1>1, <1>3, <1>9, <1>10, <1>11 DEF L2Base

LEMMA L2BaseStutter ==
    ASSUME NEW CONSTANT k, L2Base(k), UNCHANGED L2(k)!vars
    PROVE  L2Base(k)'
<1>1. UNCHANGED <<mem, rr, rd, rrRd, pipe, chk, cls, refill, walkAsid, fsm, resp, fwd, flush, asid>>
  BY DEF L2!vars
<1>2. L2(k)!RightTranslation'
  BY <1>1 DEF L2Base, L2!RightTranslation, L2!Translates, L2!PagesOf
<1>3. AnswerTogether(k)' /\ LookupTogether(k)'
  BY <1>1 DEF L2Base, AnswerTogether, LookupTogether, L2!VpnToSetIdx
<1>4. L2Types(k)'
  BY <1>1 DEF L2Base, L2Types
<1> QED BY <1>2, <1>3, <1>4 DEF L2Base

LEMMA L2BaseStep ==
    ASSUME NEW CONSTANT k, L2Assumption(k), L2Base(k), [L2(k)!Next]_(L2(k)!vars)
    PROVE  L2Base(k)'
<1>1. CASE UNCHANGED L2(k)!vars
  BY <1>1, L2BaseStutter
<1>2. CASE L2(k)!Next
  BY <1>2, L2BaseRequest, L2BaseHit, L2BaseFault, L2BaseWrite, L2BaseNextClass, L2BaseMiss,
     L2BaseAnswer, L2BaseAccept, L2BaseSFence, L2BaseFlush, L2BaseWriteSatp
     DEF L2!Next, L2!AnyFence
<1> QED BY <1>1, <1>2

(***************************************************************************)
(* The second layer: what a fence covers is still to be flushed or is a    *)
(* copy in a foreign set.                                                  *)
(***************************************************************************)
\* The layer in the next state, written with the values of that state.
LEMMA L2PlacedNext ==
    ASSUME NEW CONSTANT k,
           \A s \in L2(k)!SetIds, w \in 1 .. k.ways : Placed(k, mem'[s][w], s, flush', chk')
    PROVE  EntriesPlaced(k)'
BY DEF EntriesPlaced, Placed, Kept, Home, Doomed, ToVisit, L2!VpnToSetIdx, L2!Covers,
   L2!AsidMatch, L2!AddrMatch

LEMMA L2FlushNext ==
    ASSUME NEW CONSTANT k,
           flush'.on => \A w \in 1 .. k.ways : ReadPlaced(k, rd'[w], flush', chk'),
           flush'.on /\ ~flush'.allV => flush'.set = L2(k)!VpnToSetIdx(chk'.vpn, flush'.cls),
           ~flush'.on => flush'.set = 0
    PROVE  FlushPlaced(k)'
<1>1. (flush.on => \A w \in 1 .. k.ways : ReadPlaced(k, rd[w], flush, chk))'
  BY DEF ReadPlaced, Kept, Home, Doomed, L2!VpnToSetIdx, L2!Covers, L2!AsidMatch, L2!AddrMatch
<1>2. (flush.on /\ ~flush.allV => flush.set = L2(k)!VpnToSetIdx(chk.vpn, flush.cls))'
  BY DEF L2!VpnToSetIdx
<1> QED BY <1>1, <1>2 DEF FlushPlaced

\* While no flush runs every entry may stay; it is fresh unless the fences of one
\* address count.
LEMMA L2AllKept ==
    ASSUME NEW CONSTANT k, EntriesPlaced(k), ~flush.on, NEW s \in L2(k)!SetIds,
           NEW w \in 1 .. k.ways, mem[s][w].valid
    PROVE  Kept(k, mem[s][w], s) /\ (~k.countPages => mem[s][w].fresh)
<1>1. Kept(k, mem[s][w], s)
  BY DEF EntriesPlaced, Placed, Doomed
<1> QED BY <1>1 DEF Kept

\* A step that leaves the memory alone while no flush runs.
LEMMA L2CleanQuiet ==
    ASSUME NEW CONSTANT k, L2Clean(k), ~flush.on, mem' = mem, flush' = flush
    PROVE  EntriesPlaced(k)' /\ FlushPlaced(k)'
<1>1. \A s \in L2(k)!SetIds, w \in 1 .. k.ways : Placed(k, mem'[s][w], s, flush', chk')
  BY L2AllKept DEF L2Clean, Placed
<1>2. flush'.set = 0 /\ ~flush'.on
  BY DEF L2Clean, FlushPlaced
<1> QED BY <1>1, <1>2, L2PlacedNext, L2FlushNext

\* A step that leaves the memory, the flush and its registers alone.
LEMMA L2CleanSame ==
    ASSUME NEW CONSTANT k, L2Clean(k), UNCHANGED <<mem, rd, flush, chk>>
    PROVE  EntriesPlaced(k)' /\ FlushPlaced(k)'
<1>1. \A s \in L2(k)!SetIds, w \in 1 .. k.ways : Placed(k, mem'[s][w], s, flush', chk')
  BY DEF L2Clean, EntriesPlaced
<1>2. FlushPlaced(k)'
  BY L2FlushNext DEF L2Clean, FlushPlaced
<1> QED BY <1>1, <1>2, L2PlacedNext

\* A request that enters reads fresh entries.
LEMMA L2FreshEnter ==
    ASSUME NEW CONSTANT k, L2Clean(k), NEW r, NEW old, Entered(k, r, old), fsm' = "IDLE"
    PROVE  ReadFresh(k)'
<1>1. CASE r = <<>>
  BY <1>1 DEF ReadFresh, Entered
<1>2. CASE r # <<>>
  <2>1. PICK s \in L2(k)!SetIds : rd' = mem[s]
    BY <1>2 DEF Entered
  <2>2. ~k.countPages => \A w \in 1 .. k.ways : rd'[w].valid => rd'[w].fresh
    BY <1>2, <2>1, L2AllKept DEF L2Clean, Entered
  <2> QED BY <2>2 DEF ReadFresh
<1> QED BY <1>1, <1>2

LEMMA L2CleanRequest ==
    ASSUME NEW CONSTANT k, L2Assumption(k), L2Base(k), L2Clean(k), NEW r \in L2(k)!Requests,
           L2(k)!Request(r)
    PROVE  L2Clean(k)'
<1>1. /\ Entered(k, r, rd) /\ fsm' = "IDLE" /\ r # <<>>
      /\ mem' = mem /\ flush' = flush /\ fwd' = fwd
  BY L2BaseRequest DEF L2!Request, L2!NoRequest
<1>2. ~flush.on
  BY <1>1 DEF Entered
<1>3. ~k.countPages => L2(k)!NoStaleHit'
  BY <1>1 DEF L2Clean, L2!NoStaleHit
<1> QED BY <1>1, <1>2, <1>3, L2CleanQuiet, L2FreshEnter DEF L2Clean

LEMMA L2CleanHit ==
    ASSUME NEW CONSTANT k, L2Assumption(k), L2Base(k), L2Clean(k), NEW r \in L2(k)!Requests,
           L2(k)!LookupHit(r)
    PROVE  L2Clean(k)'
<1>1. /\ Entered(k, r, rd) /\ fsm' = "IDLE" /\ pipe # <<>> /\ mem' = mem /\ flush' = flush
      /\ \E w \in 1 .. k.ways : rd[w].valid /\ fwd'[1].e = rd[w]
  BY L2BaseHit DEF L2!LookupHit, L2!Lookup, L2!NoRequest
<1>2. ~flush.on
  BY <1>1 DEF L2Base, LookupTogether
<1>3. ~k.countPages => L2(k)!NoStaleHit'
  BY <1>1 DEF L2Clean, ReadFresh, L2!NoStaleHit
<1> QED BY <1>1, <1>2, <1>3, L2CleanQuiet, L2FreshEnter DEF L2Clean

LEMMA L2CleanFault ==
    ASSUME NEW CONSTANT k, L2Assumption(k), L2Base(k), L2Clean(k), NEW r \in L2(k)!Requests,
           NEW c \in 0 .. k.maxClass, L2(k)!RefillFault(r, c)
    PROVE  L2Clean(k)'
<1>1. /\ refill = TRUE /\ fsm' = "IDLE" /\ ~fwd'[1].e.valid /\ mem' = mem /\ flush' = flush
      /\ \E s \in L2(k)!SetIds : Entered(k, r, mem[s])
  BY L2BaseFault
<1>2. ~flush.on
  BY <1>1 DEF L2Base, LookupTogether
<1>3. ~k.countPages => L2(k)!NoStaleHit'
  BY <1>1 DEF L2!NoStaleHit
<1> QED BY <1>1, <1>2, <1>3, L2CleanQuiet, L2FreshEnter DEF L2Clean

LEMMA L2CleanNextClass ==
    ASSUME NEW CONSTANT k, L2Assumption(k), L2Base(k), L2Clean(k), L2(k)!LookupNextClass
    PROVE  L2Clean(k)'
<1>1. /\ fsm' = "IDLE" /\ cls' \in 1 .. k.maxClass /\ rd' = mem[L2(k)!VpnToSetIdx(pipe[1], cls')]
      /\ mem' = mem /\ flush' = flush /\ fwd' = fwd /\ pipe # <<>>
  BY L2BaseNextClass DEF L2!LookupNextClass, L2!Lookup, L2!NoRequest
<1>2. ~flush.on /\ pipe[1] \in L2(k)!Vpns /\ k.maxClass \in Nat
  BY <1>1 DEF L2Base, LookupTogether, L2Types, L2Assumption, L2!CamAssumption
<1>3. L2(k)!VpnToSetIdx(pipe[1], cls') \in L2(k)!SetIds
  <2>1. cls' \in 0 .. k.maxClass + 1
    BY <1>1, <1>2
  <2> QED BY <1>2, <2>1, L2SetIndex
<1>4. ReadFresh(k)'
  <2>1. ~k.countPages => \A w \in 1 .. k.ways : rd'[w].valid => rd'[w].fresh
    BY <1>1, <1>2, <1>3, L2AllKept DEF L2Clean
  <2> QED BY <1>1, <2>1 DEF ReadFresh
<1>5. ~k.countPages => L2(k)!NoStaleHit'
  BY <1>1 DEF L2Clean, L2!NoStaleHit
<1> QED BY <1>1, <1>2, <1>4, <1>5, L2CleanQuiet DEF L2Clean

LEMMA L2CleanAnswer ==
    ASSUME NEW CONSTANT k, L2Assumption(k), L2Base(k), L2Clean(k), NEW c \in k.classes,
           NEW g \in k.globals, L2(k)!RefillAnswer(c, g)
    PROVE  L2Clean(k)'
<1>1. /\ rd' = mem[resp'.set] /\ resp'.set \in L2(k)!SetIds /\ pipe # <<>>
      /\ mem' = mem /\ flush' = flush /\ fwd' = fwd
  BY L2BaseAnswer
<1>2. ~flush.on
  BY <1>1 DEF L2Base, LookupTogether
<1>3. ReadFresh(k)'
  <2>1. ~k.countPages => \A w \in 1 .. k.ways : rd'[w].valid => rd'[w].fresh
    BY <1>1, <1>2, L2AllKept DEF L2Clean
  <2> QED BY <1>1, <2>1 DEF ReadFresh
<1>4. ~k.countPages => L2(k)!NoStaleHit'
  BY <1>1 DEF L2Clean, L2!NoStaleHit
<1> QED BY <1>1, <1>2, <1>3, <1>4, L2CleanQuiet DEF L2Clean

\* The refill writes the set it has read, with one entry that belongs there.
LEMMA L2CleanWrite ==
    ASSUME NEW CONSTANT k, L2Assumption(k), L2Base(k), L2Clean(k), NEW r \in L2(k)!Requests,
           L2(k)!RefillWrite(r)
    PROVE  L2Clean(k)'
<1>1. /\ Entered(k, r, rd) /\ fsm' = "IDLE" /\ fsm = "REFILL" /\ refill = TRUE
      /\ fwd'[1].e = resp.e /\ flush' = flush
  BY L2BaseWrite
<1>2. PICK x : mem' = [mem EXCEPT ![resp.set] = [rd EXCEPT ![x] = resp.e]]
  BY L2BaseWrite
<1>3. /\ ~flush.on /\ resp.e \in L2(k)!Entries /\ resp.e.fresh = TRUE
      /\ resp.set = L2(k)!VpnToSetIdx(resp.e.vpn, resp.e.cls)
  BY <1>1 DEF L2Base, LookupTogether, AnswerTogether
<1>4. rd = mem[resp.set] /\ mem \in [L2(k)!SetIds -> L2(k)!Lines]
  BY <1>1 DEF L2Clean, ReadFresh, L2Base, L2Types
<1>5. ASSUME NEW s \in L2(k)!SetIds, NEW w \in 1 .. k.ways
      PROVE  mem'[s][w] = mem[s][w] \/ (mem'[s][w] = resp.e /\ s = resp.set)
  BY <1>2, <1>4 DEF L2!Lines
<1>6. \A s \in L2(k)!SetIds, w \in 1 .. k.ways : Placed(k, mem'[s][w], s, flush', chk')
  BY <1>3, <1>5, L2AllKept DEF L2Clean, Placed, Kept, Home
<1>7. FlushPlaced(k)'
  BY <1>1, <1>3, L2FlushNext DEF L2Clean, FlushPlaced
<1>8. L2(k)!NoStaleHit'
  BY <1>1, <1>3 DEF L2!NoStaleHit
<1> QED BY <1>1, <1>6, <1>7, <1>8, L2PlacedNext, L2FreshEnter DEF L2Clean

\* A fence covers the entries it ages, and its flush starts before their sets; what the
\* read port holds is set 0, whatever set is written first.
LEMMA L2CleanSFence ==
    ASSUME NEW CONSTANT k, L2Assumption(k), L2Base(k), L2Clean(k), NEW allV \in BOOLEAN,
           NEW allA \in BOOLEAN, NEW v \in L2(k)!Vpns, NEW a \in k.asids,
           L2(k)!SFence(allV, allA, v, a)
    PROVE  L2Clean(k)'
<1>1. /\ FenceAged(k, allV, allA, v, a)
      /\ ~flush.on /\ pipe' = <<>> /\ fsm' = "IDLE" /\ rd' = mem'[flush.set] /\ fwd' = fwd
      /\ chk' = [vpn |-> v, asid |-> a]
      /\ flush' = [on |-> TRUE, set |-> IF allV THEN 0 ELSE L2(k)!VpnToSetIdx(v, 0),
                   cls |-> 0, allV |-> allV, allA |-> allA]
  BY L2BaseSFence
<1>2. /\ flush'.on = TRUE /\ flush'.set = (IF allV THEN 0 ELSE L2(k)!VpnToSetIdx(v, 0))
      /\ flush'.cls = 0 /\ flush'.allV = allV /\ flush'.allA = allA
      /\ chk'.vpn = v /\ chk'.asid = a
  BY <1>1
<1>3. flush.set = 0 /\ (allV => flush'.set = 0) /\ k.maxClass \in Nat /\ k.sets \in Nat \ {0}
      /\ 0 \in L2(k)!SetIds
  BY <1>1, <1>2 DEF L2Clean, FlushPlaced, L2Assumption, L2!CamAssumption, L2!SetAssumption,
     L2!SetIds
<1>4. ASSUME NEW s \in L2(k)!SetIds, NEW w \in 1 .. k.ways, mem'[s][w].valid
      PROVE  /\ Kept(k, mem'[s][w], s) \/
                  (Doomed(k, mem'[s][w], flush', chk') /\ ToVisit(k, s, flush', chk'))
             /\ s = 0 => \/ mem'[s][w].fresh /\ Home(k, mem'[s][w]) = 0
                         \/ Doomed(k, mem'[s][w], flush', chk')
  <2> DEFINE e == mem'[s][w]
             d == mem[s][w]
  <2>1. /\ d.valid /\ e.valid = d.valid /\ e.vpn = d.vpn /\ e.asid = d.asid /\ e.cls = d.cls
        /\ e.g = d.g /\ e \in MaybeEntries(k)
        /\ e.fresh = (d.fresh /\ ~((allV \/ k.countPages) /\ L2(k)!Fenced(d, allV, allA, v, a)))
    BY <1>1, <1>4 DEF FenceAged
  <2>2. Kept(k, d, s)
    BY <1>1, <2>1, L2AllKept DEF L2Clean
  <2>3. /\ e \in L2(k)!Entries /\ e.cls \in 0 .. k.maxClass
    <3>1. e \in L2(k)!Entries
      BY <1>4, <2>1 DEF MaybeEntries, L2!Invalid
    <3> QED BY <3>1, L2EntryFields
  <2>4. Home(k, e) = Home(k, d)
    BY <2>1 DEF Home
  <2> HIDE DEF e, d
  <2>5. CASE e.fresh
    BY <2>1, <2>2, <2>4, <2>5 DEF Kept, e
  <2>6. CASE ~e.fresh /\ ~d.fresh
    BY <2>1, <2>2, <2>4, <2>6 DEF Kept, e
  <2>7. CASE ~e.fresh /\ d.fresh
    <3>1. (allV \/ k.countPages) /\ L2(k)!Fenced(d, allV, allA, v, a)
      BY <2>1, <2>7
    <3>2. L2(k)!Fenced(e, allV, allA, v, a)
      BY <2>1, <3>1, L2FencedSame
    <3>3. L2(k)!Covers(e, allV, allA, v, a)
      BY <2>3, <3>2, L2CoversIsFenced
    <3>4. Doomed(k, e, flush', chk')
      BY <1>2, <3>1, <3>3 DEF Doomed
    <3>5. CASE Home(k, e) = s
      <4>1. ASSUME ~allV PROVE \E c \in 0 .. k.maxClass : s = L2(k)!VpnToSetIdx(v, c)
        <5>1. v \in L2(k)!PagesOf(e) /\ e.cls + 1 \in 1 .. k.maxClass + 1 /\ e.cls + 1 > e.cls
          BY <1>3, <2>3, <3>2, <4>1 DEF L2!Fenced
        <5>2. v[e.cls + 1] = e.vpn[e.cls + 1]
          BY <5>1 DEF L2!PagesOf
        <5>3. s = L2(k)!VpnToSetIdx(v, e.cls)
          BY <1>3, <2>3, <3>5, <5>2 DEF Home, L2!VpnToSetIdx
        <5> QED BY <2>3, <5>3
      <4>2. allV => 0 <= s
        BY <1>3 DEF L2!SetIds
      <4>3. ToVisit(k, s, flush', chk')
        BY <1>2, <1>3, <4>1, <4>2 DEF ToVisit
      <4> QED BY <3>4, <4>3 DEF e
    <3>6. CASE Home(k, e) # s
      <4>1. Home(k, e) = 0 /\ s # 0
        BY <2>2, <2>4, <2>7, <3>6 DEF Kept
      <4>2. CASE k.countPages
        BY <2>7, <4>1, <4>2 DEF Kept, e
      <4>3. CASE allV
        <5>1. ToVisit(k, s, flush', chk')
          BY <1>2, <1>3, <4>3 DEF ToVisit, L2!SetIds
        <5> QED BY <3>4, <4>1, <5>1 DEF e
      <4> QED BY <3>1, <4>2, <4>3
    <3> QED BY <3>5, <3>6
  <2> QED BY <2>5, <2>6, <2>7
<1>5. \A s \in L2(k)!SetIds, w \in 1 .. k.ways : Placed(k, mem'[s][w], s, flush', chk')
  BY <1>4 DEF Placed
<1>6. FlushPlaced(k)'
  <2>1. ASSUME NEW w \in 1 .. k.ways PROVE ReadPlaced(k, rd'[w], flush', chk')
    <3>1. rd'[w] = mem'[0][w]
      BY <1>1, <1>3
    <3>2. rd'[w].valid => \/ rd'[w].fresh /\ Home(k, rd'[w]) = 0
                       \/ Doomed(k, rd'[w], flush', chk')
      BY <1>3, <1>4, <3>1
    <3> QED BY <3>2 DEF ReadPlaced, Kept
  <2>2. ~flush'.allV => flush'.set = L2(k)!VpnToSetIdx(chk'.vpn, flush'.cls)
    BY <1>2
  <2> QED BY <1>2, <2>1, <2>2, L2FlushNext
<1>7. ReadFresh(k)'
  BY <1>1 DEF ReadFresh
<1>8. ~k.countPages => L2(k)!NoStaleHit'
  BY <1>1 DEF L2Clean, L2!NoStaleHit
<1> QED BY <1>5, <1>6, <1>7, <1>8, L2PlacedNext DEF L2Clean

\* A cycle of the flush empties its set of what is covered and moves to the next set.
LEMMA L2CleanFlush ==
    ASSUME NEW CONSTANT k, L2Assumption(k), L2Base(k), L2Clean(k), L2(k)!FlushCycle
    PROVE  L2Clean(k)'
<1> DEFINE f == flush
           g == flush'
<1>1. /\ f.on /\ pipe' = <<>> /\ fsm' = "IDLE" /\ chk' = chk /\ fwd' = fwd
      /\ mem' = [mem EXCEPT ![f.set] = Flushing(k, rd, f, chk)] /\ rd' = mem[g.set]
      /\ g.set = L2(k)!NextFlushSet /\ g.on = ~L2(k)!FlushDone
      /\ g.cls = (IF f.allV THEN f.cls ELSE (f.cls + 1) % (k.maxClass + 1))
      /\ g.allV = f.allV /\ g.allA = f.allA
  BY L2BaseFlush
<1>2. /\ f.set \in L2(k)!SetIds /\ f.cls \in 0 .. k.maxClass /\ k.maxClass \in Nat
      /\ k.sets \in Nat \ {0} /\ chk.vpn \in L2(k)!Vpns
      /\ mem \in [L2(k)!SetIds -> L2(k)!Lines] /\ rd \in L2(k)!Lines
  BY DEF L2Base, L2Types, L2Assumption, L2!CamAssumption, L2!SetAssumption
<1>3. \A w \in 1 .. k.ways : ReadPlaced(k, rd[w], f, chk)
  BY <1>1 DEF L2Clean, FlushPlaced
<1>4. ~f.allV => f.set = L2(k)!VpnToSetIdx(chk.vpn, f.cls)
  BY <1>1 DEF L2Clean, FlushPlaced
<1>5. ASSUME f.allV
      PROVE  /\ \A s \in L2(k)!SetIds :
                   ToVisit(k, s, f, chk) /\ s # f.set => g.on /\ ToVisit(k, s, g, chk)
             /\ ~g.on => g.set = 0
  <2>1. f.set < k.sets - 1 => g.on /\ g.set = f.set + 1
    <3>1. f.set < k.sets - 1 => (f.set + 1) % k.sets = f.set + 1 /\ f.set # k.sets - 1
      BY <1>2, SmallMod DEF L2!SetIds
    <3>2. g.set = (f.set + 1) % k.sets /\ g.on = ~(f.set = k.sets - 1)
      BY <1>1, <1>5 DEF L2!NextFlushSet, L2!FlushDone
    <3> QED BY <3>1, <3>2, Zenon
  <2>2. f.set = k.sets - 1 => ~g.on /\ g.set = 0
    <3>1. f.set = k.sets - 1 => (f.set + 1) % k.sets = 0
      BY <1>2 DEF L2!SetIds
    <3>2. g.set = (f.set + 1) % k.sets /\ g.on = ~(f.set = k.sets - 1)
      BY <1>1, <1>5 DEF L2!NextFlushSet, L2!FlushDone
    <3> QED BY <3>1, <3>2, Zenon
  <2>3. \A s \in L2(k)!SetIds : ToVisit(k, s, f, chk) /\ s # f.set => g.on /\ ToVisit(k, s, g, chk)
    BY <1>1, <1>2, <1>5, <2>1 DEF ToVisit, L2!SetIds
  <2>4. ~g.on => g.set = 0
    <3>1. f.set < k.sets - 1 \/ f.set = k.sets - 1
      BY <1>2 DEF L2!SetIds
    <3> QED BY <2>1, <2>2, <3>1
  <2> QED BY <1>5, <2>3, <2>4
<1>6. ASSUME ~f.allV
      PROVE  /\ \A s \in L2(k)!SetIds :
                   ToVisit(k, s, f, chk) /\ s # f.set => g.on /\ ToVisit(k, s, g, chk)
             /\ ~g.on => g.set = 0
             /\ g.on => g.set = L2(k)!VpnToSetIdx(chk.vpn, g.cls)
  <2>1. f.cls < k.maxClass =>
          g.on /\ g.cls = f.cls + 1 /\ g.set = L2(k)!VpnToSetIdx(chk.vpn, f.cls + 1)
    <3>1. f.cls < k.maxClass => (f.cls + 1) % (k.maxClass + 1) = f.cls + 1 /\ f.cls # k.maxClass
      BY <1>2, SmallMod
    <3>2. /\ g.set = L2(k)!VpnToSetIdx(chk.vpn, f.cls + 1) /\ g.on = ~(f.cls = k.maxClass)
          /\ g.cls = (f.cls + 1) % (k.maxClass + 1)
      BY <1>1, <1>6 DEF L2!NextFlushSet, L2!FlushDone
    <3> QED BY <3>1, <3>2, Zenon
  <2>2. f.cls = k.maxClass => ~g.on /\ g.set = 0
    <3>1. L2(k)!VpnToSetIdx(chk.vpn, k.maxClass + 1) = 0
      BY <1>2, L2SetIndex
    <3>2. g.set = L2(k)!VpnToSetIdx(chk.vpn, f.cls + 1) /\ g.on = ~(f.cls = k.maxClass)
      BY <1>1, <1>6 DEF L2!NextFlushSet, L2!FlushDone
    <3> QED BY <3>1, <3>2, Zenon
  <2>3. ASSUME NEW s \in L2(k)!SetIds, ToVisit(k, s, f, chk), s # f.set
        PROVE  g.on /\ ToVisit(k, s, g, chk)
    <3>1. PICK c \in f.cls .. k.maxClass : s = L2(k)!VpnToSetIdx(chk.vpn, c)
      BY <1>6, <2>3 DEF ToVisit
    <3>2. c # f.cls
      BY <1>4, <1>6, <2>3, <3>1
    <3>3. f.cls < k.maxClass /\ c \in f.cls + 1 .. k.maxClass
      BY <1>2, <3>1, <3>2
    <3> QED BY <1>1, <1>6, <2>1, <3>1, <3>3 DEF ToVisit
  <2>4. f.cls < k.maxClass \/ f.cls = k.maxClass
    BY <1>2
  <2> QED BY <1>6, <2>1, <2>2, <2>3, <2>4
<1>7. /\ \A s \in L2(k)!SetIds : ToVisit(k, s, f, chk) /\ s # f.set => g.on /\ ToVisit(k, s, g, chk)
      /\ ~g.on => g.set = 0
      /\ g.on /\ ~f.allV => g.set = L2(k)!VpnToSetIdx(chk.vpn, g.cls)
  BY <1>5, <1>6
<1>8. ASSUME NEW s \in L2(k)!SetIds, NEW w \in 1 .. k.ways, mem'[s][w].valid
      PROVE  Placed(k, mem'[s][w], s, g, chk)
  <2>1. CASE s # f.set
    <3>1. mem'[s][w] = mem[s][w] /\ Placed(k, mem[s][w], s, f, chk)
      BY <1>1, <1>2, <2>1 DEF L2Clean, EntriesPlaced
    <3>2. Kept(k, mem[s][w], s) \/ (Doomed(k, mem[s][w], f, chk) /\ ToVisit(k, s, f, chk))
      BY <1>8, <3>1 DEF Placed
    <3>3. Doomed(k, mem[s][w], f, chk) /\ g.on => Doomed(k, mem[s][w], g, chk)
      BY <1>1 DEF Doomed
    <3> QED BY <1>7, <2>1, <3>1, <3>2, <3>3 DEF Placed
  <2>2. CASE s = f.set
    <3>1. mem'[s] = Flushing(k, rd, f, chk)
      BY <1>1, <1>2, <2>2
    <3>2. mem'[s][w] = IF L2(k)!Covers(rd[w], f.allV, f.allA, chk.vpn, chk.asid)
                       THEN L2(k)!Invalid ELSE rd[w]
      BY <1>2, <3>1, L2FlushedLine DEF Flushing
    <3>3. mem'[s][w] = rd[w] /\ ~L2(k)!Covers(rd[w], f.allV, f.allA, chk.vpn, chk.asid)
      BY <1>8, <3>2 DEF L2!Invalid
    <3>4. Kept(k, rd[w], s)
      BY <1>3, <1>8, <2>2, <3>3 DEF ReadPlaced, Doomed
    <3> QED BY <3>3, <3>4 DEF Placed
  <2> QED BY <2>1, <2>2
<1>9. \A s \in L2(k)!SetIds, w \in 1 .. k.ways : Placed(k, mem'[s][w], s, flush', chk')
  BY <1>1, <1>8 DEF Placed
<1>10. ASSUME g.on, NEW w \in 1 .. k.ways PROVE ReadPlaced(k, rd'[w], g, chk')
  <2>1. g.set \in L2(k)!SetIds
    BY L2BaseFlush DEF L2Base, L2Types
  <2>2. rd'[w] = mem[g.set][w] /\ Placed(k, mem[g.set][w], g.set, f, chk)
    BY <1>1, <2>1 DEF L2Clean, EntriesPlaced
  <2>3. Doomed(k, mem[g.set][w], f, chk) => Doomed(k, mem[g.set][w], g, chk')
    BY <1>1, <1>10 DEF Doomed
  <2> QED BY <2>2, <2>3 DEF Placed, ReadPlaced
<1>11. FlushPlaced(k)'
  BY <1>1, <1>7, <1>10, L2FlushNext
<1>12. ReadFresh(k)'
  BY <1>1 DEF ReadFresh
<1>13. ~k.countPages => L2(k)!NoStaleHit'
  BY <1>1 DEF L2Clean, L2!NoStaleHit
<1> QED BY <1>9, <1>11, <1>12, <1>13, L2PlacedNext DEF L2Clean

\* The steps that leave the memory, its read port and the flush alone.
LEMMA L2CleanOther ==
    ASSUME NEW CONSTANT k, L2Assumption(k), L2Base(k), L2Clean(k),
           \/ L2(k)!LookupMiss \/ L2(k)!Accept \/ L2(k)!WriteSatp \/ UNCHANGED L2(k)!vars
    PROVE  L2Clean(k)'
<1>1. /\ UNCHANGED <<mem, rd, flush, chk, pipe, fsm, resp>> /\ (fwd' = fwd \/ fwd' = <<>>)
  BY DEF L2!LookupMiss, L2!Accept, L2!WriteSatp, L2!vars
<1>2. ReadFresh(k)'
  BY <1>1 DEF L2Clean, ReadFresh
<1>3. ~k.countPages => L2(k)!NoStaleHit'
  BY <1>1 DEF L2Clean, L2!NoStaleHit
<1> QED BY <1>1, <1>2, <1>3, L2CleanSame DEF L2Clean

LEMMA L2CleanInit ==
    ASSUME NEW CONSTANT k, L2Assumption(k), L2(k)!Init
    PROVE  L2Clean(k)
<1>1. /\ pipe = <<>> /\ fsm = "IDLE" /\ fwd = <<>> /\ rd = mem[0]
      /\ flush.on /\ flush.set = 0 /\ flush.allV /\ flush.allA
      /\ \A s \in L2(k)!SetIds, w \in 1 .. k.ways : mem[s][w].valid => ~mem[s][w].fresh
  BY L2BaseInit
<1>2. EntriesPlaced(k)
  <2>1. \A s \in L2(k)!SetIds : 0 <= s
    BY DEF L2!SetIds, L2Assumption, L2!SetAssumption
  <2> QED BY <1>1, <2>1 DEF EntriesPlaced, Placed, Doomed, ToVisit, L2!Covers
<1> QED BY <1>1, <1>2 DEF L2Clean, FlushPlaced, ReadPlaced, Doomed, L2!Covers, ReadFresh,
     L2!NoStaleHit

LEMMA L2CleanStep ==
    ASSUME NEW CONSTANT k, L2Assumption(k), L2Base(k), L2Clean(k), [L2(k)!Next]_(L2(k)!vars)
    PROVE  L2Clean(k)'
<1>1. CASE UNCHANGED L2(k)!vars
  BY <1>1, L2CleanOther
<1>2. CASE L2(k)!Next
  BY <1>2, L2CleanRequest, L2CleanHit, L2CleanFault, L2CleanWrite, L2CleanNextClass,
     L2CleanAnswer, L2CleanSFence, L2CleanFlush, L2CleanOther
     DEF L2!Next, L2!AnyFence
<1> QED BY <1>1, <1>2

(***************************************************************************)
(* The promises of the second level.                                       *)
(***************************************************************************)
\* The types of the invariant are those of the component.
LEMMA L2TypesRight ==
    ASSUME NEW CONSTANT k, L2Assumption(k), L2Base(k)
    PROVE  L2(k)!TypeOK
<1>1. Len(fwd) <= 1
  <2>1. fwd = <<>> \/ \E x \in Forwards(k) : fwd = <<x>>
    BY DEF L2Base, L2Types
  <2>2. CASE fwd = <<>>
    BY <2>2
  <2>3. ASSUME NEW x \in Forwards(k), fwd = <<x>> PROVE Len(fwd) <= 1
    BY <2>3
  <2> QED BY <2>1, <2>2, <2>3
<1>2. k.maxClass \in Nat
  BY DEF L2Assumption, L2!CamAssumption
<1>3. flush.cls \in 0 .. k.maxClass + 1 /\ flush.set \in L2(k)!SetIds
  BY <1>2 DEF L2Base, L2Types
<1>4. chk.vpn \in L2(k)!Vpns /\ chk.asid \in k.asids
  BY DEF L2Base, L2Types
<1> QED BY <1>1, <1>3, <1>4, Zenon DEF L2Base, L2Types, L2!TypeOK

\* The second level TLB, for every number of sets and ways, page size, address space and
\* sequence of requests, refills and fences: what it answers translates the requested page
\* in the address space of the request, although the read port of the sets is shared
\* (tlb.py SetAssociativeTLB).
THEOREM SecondLevelTranslates ==
    ASSUME NEW CONSTANT k, L2Assumption(k)
    PROVE  L2(k)!Spec => [](L2(k)!TypeOK /\ L2(k)!RightTranslation)
<1>1. L2(k)!Init => L2Base(k)
  BY L2BaseInit
<1>2. L2Base(k) /\ [L2(k)!Next]_(L2(k)!vars) => L2Base(k)'
  BY L2BaseStep
<1>3. L2Base(k) => L2(k)!TypeOK /\ L2(k)!RightTranslation
  BY L2TypesRight DEF L2Base
<1> QED BY <1>1, <1>2, <1>3, PTL DEF L2!Spec

\* With no flush running, every entry that may stay is one that no counted fence covers,
\* or lies outside the set of its page.
LEMMA L2CleanRight ==
    ASSUME NEW CONSTANT k, L2Clean(k)
    PROVE  L2(k)!HomeFenced /\ (~k.countPages => L2(k)!NoStaleHit)
<1>1. ASSUME ~flush.on, NEW s \in L2(k)!SetIds, NEW w \in 1 .. k.ways,
             mem[s][w].valid, ~mem[s][w].fresh
      PROVE  s # L2(k)!VpnToSetIdx(mem[s][w].vpn, mem[s][w].cls)
  BY <1>1, L2AllKept DEF L2Clean, Kept, Home
<1> QED BY <1>1 DEF L2Clean, L2!HomeFenced

\* Whatever software fences, all addresses or one of any set, no set is left with an entry
\* of its own that a fence covers, although the first cycle of a flush writes what was
\* read from another set (tlb.py SetAssociativeTLB, 597-650).
THEOREM SecondLevelFenced ==
    ASSUME NEW CONSTANT k, L2Assumption(k)
    PROVE  L2(k)!Spec => []L2(k)!HomeFenced
<1> DEFINE I == L2Base(k) /\ L2Clean(k)
<1>1. L2(k)!Init => I
  BY L2BaseInit, L2CleanInit
<1>2. I /\ [L2(k)!Next]_(L2(k)!vars) => I'
  BY L2BaseStep, L2CleanStep
<1>3. I => L2(k)!HomeFenced
  BY L2CleanRight
<1> QED BY <1>1, <1>2, <1>3, PTL DEF L2!Spec

\* After a fence of all addresses (of one address space or of all, and after reset) no
\* lookup is answered with an entry it covers, although fences of one address copy
\* entries between sets before and after it (tlb.py SetAssociativeTLB, 597-650).
THEOREM SecondLevelFullFences ==
    ASSUME NEW CONSTANT k, L2Assumption(k), ~k.countPages
    PROVE  L2(k)!Spec => []L2(k)!NoStaleHit
<1> DEFINE I == L2Base(k) /\ L2Clean(k)
<1>1. L2(k)!Init => I
  BY L2BaseInit, L2CleanInit
<1>2. I /\ [L2(k)!Next]_(L2(k)!vars) => I'
  BY L2BaseStep, L2CleanStep
<1>3. I => L2(k)!NoStaleHit
  BY L2CleanRight
<1> QED BY <1>1, <1>2, <1>3, PTL DEF L2!Spec

\* The invariant of whichever of the run's second levels the behaviour is about.
L2Whole(k) == L2Base(k) /\ L2Clean(k)
SharedTlbInv == /\ part = "Spaces" => L2Whole(Spaces)
                /\ part = "Superpages" => L2Whole(Superpages)
                /\ part = "Flushes" => L2Whole(Flushes)
                /\ part = "Ways" => L2Whole(Ways)

LEMMA SharedTlbSizes ==
    /\ L2Assumption(Spaces) /\ L2Assumption(Superpages) /\ L2Assumption(Flushes)
    /\ L2Assumption(Ways) /\ ~Flushes.countPages /\ ~Ways.countPages
<1>1. /\ L2Assumption(Spaces) /\ L2Assumption(Superpages) /\ L2Assumption(Flushes)
      /\ L2Assumption(Ways)
  BY InstancesAssumption, Zenon DEF InstancesAssumption, L2Assumption
<1>2. ~Flushes.countPages /\ ~Ways.countPages
  BY DEF Flushes, Ways
<1> QED BY <1>1, <1>2

\* The run's statement about the second level: address spaces with global pages, page
\* sizes and ways, under fences of every kind (tlb.py SetAssociativeTLB).
THEOREM SharedTlbHolds == Spec => []SharedTlbRight
<1>1. Init => SharedTlbInv
  <2>1. /\ Init /\ part = "Spaces" => L2(Spaces)!Init
        /\ Init /\ part = "Superpages" => L2(Superpages)!Init
        /\ Init /\ part = "Flushes" => L2(Flushes)!Init
        /\ Init /\ part = "Ways" => L2(Ways)!Init
    BY Zenon DEF Init
  <2> QED BY <2>1, SharedTlbSizes, L2BaseInit, L2CleanInit DEF SharedTlbInv, L2Whole
<1>2. SharedTlbInv /\ [Next]_vars => SharedTlbInv'
  <2> SUFFICES ASSUME SharedTlbInv, [Next]_vars PROVE SharedTlbInv'
    OBVIOUS
  <2>1. /\ part' = part
        /\ part = "Spaces" => [L2(Spaces)!Next]_(L2(Spaces)!vars)
        /\ part = "Superpages" => [L2(Superpages)!Next]_(L2(Superpages)!vars)
        /\ part = "Flushes" => [L2(Flushes)!Next]_(L2(Flushes)!vars)
        /\ part = "Ways" => [L2(Ways)!Next]_(L2(Ways)!vars)
    BY Zenon DEF Next, vars, SetAssociativeTLBVars, L2!vars
  <2>2. ASSUME NEW CONSTANT k, L2Assumption(k), L2Whole(k), [L2(k)!Next]_(L2(k)!vars)
        PROVE  L2Whole(k)'
    BY <2>2, L2BaseStep, L2CleanStep DEF L2Whole
  <2> QED BY <2>1, <2>2, SharedTlbSizes DEF SharedTlbInv
<1>3. SharedTlbInv => SharedTlbRight
  BY SharedTlbSizes, L2TypesRight, L2CleanRight
     DEF SharedTlbInv, L2Whole, SharedTlbRight, L2Base
<1> QED BY <1>1, <1>2, <1>3, PTL DEF Spec
=============================================================================
