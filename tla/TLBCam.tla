------------------------------- MODULE TLBCam -------------------------------
(***************************************************************************)
(* The content addressable part that both TLBs of the core share           *)
(* (coreblocks/priv/vmem/tlb.py): entries, how they match an address, an   *)
(* address space and a fence, and which entry a refill replaces.           *)
(*                                                                         *)
(* A virtual page number is a tuple of words, one for each level of the    *)
(* page table, the lowest first: word c + 1 selects the page inside a      *)
(* region of size class c + 1.  What a translation says (physical page,    *)
(* permissions) is abstracted to the one bit the properties tell apart:    *)
(* "fresh" is FALSE once an SFENCE.VMA that covers it was accepted after   *)
(* the translation had been read from the page table.                      *)
(***************************************************************************)
EXTENDS Naturals, FiniteSets, Sequences, FiniteSetsExt

CONSTANTS MaxClass,  \* largest size class (max_tlb_size_class)
          WordMax,   \* largest value of one word of a page number
          Asids,     \* address space identifiers
          Classes,   \* size classes of the pages in the page tables
          Globals    \* values of the global bit in the page tables

\* What the parameters must satisfy.
CamAssumption == /\ MaxClass \in Nat /\ WordMax \in Nat
                 /\ Classes \subseteq 0..MaxClass
                 /\ Globals \subseteq BOOLEAN

Vpns == [1..MaxClass + 1 -> 0..WordMax]

\* Answer for an address the page tables do not map, and an unused way.
Fault == [valid |-> FALSE]
Invalid == [valid |-> FALSE]

\* An entry made from an answer of the next level for page v.
Entry(v, a, c, g, fresh) ==
    [valid |-> TRUE, vpn |-> v, asid |-> a, cls |-> c, g |-> g, fresh |-> fresh]

Entries == {Entry(v, a, c, g, f) :
              v \in Vpns, a \in Asids, c \in Classes, g \in Globals, f \in BOOLEAN}

\* The match of addresses leaves out the words below the entry's size.
AddrMatch(e, v) == \A c \in e.cls..MaxClass : e.vpn[c + 1] = v[c + 1]

AsidMatch(e, a) == ~e.g /\ e.asid = a

FullMatch(e, v, a) == e.valid /\ AddrMatch(e, v) /\ (AsidMatch(e, a) \/ e.g)

\* What a fence for address v and address space a removes.
Covers(e, allV, allA, v, a) ==
    e.valid /\ (allA \/ AsidMatch(e, a)) /\ (allV \/ AddrMatch(e, v))

\* The present entry for the address, else an unused way, else round robin.
ReplaceCandidate(ways, v, a, rr) ==
    LET hits == {w \in DOMAIN ways : FullMatch(ways[w], v, a)}
        free == {w \in DOMAIN ways : ~ways[w].valid}
    IN  IF hits # {} THEN Max(hits) ELSE IF free # {} THEN Max(free) ELSE rr

NextReplacement(ways, rr) == (rr % Cardinality(DOMAIN ways)) + 1

Hits(ways, v, a) == {w \in DOMAIN ways : FullMatch(ways[w], v, a)}

\* With several matches the lowest way answers.
MatchedEntry(ways, v, a) == ways[Min(Hits(ways, v, a))]

Flushed(ways, allV, allA, v, a) ==
    [w \in DOMAIN ways |-> IF Covers(ways[w], allV, allA, v, a) THEN Invalid ELSE ways[w]]

-----------------------------------------------------------------------------
\* Reference, from the privileged architecture: the pages an entry translates
\* and the translations an SFENCE.VMA orders (global ones only without ASID).
PagesOf(e) == {v \in Vpns : \A c \in 1..MaxClass + 1 : c > e.cls => v[c] = e.vpn[c]}

Translates(e, v, a) == v \in PagesOf(e) /\ (e.g \/ e.asid = a)

Fenced(e, allV, allA, v, a) ==
    e.valid /\ (allV \/ v \in PagesOf(e)) /\ (allA \/ (e.asid = a /\ ~e.g))

\* History: after a fence the translations it covers are stale wherever they are.
Aged(e, allV, allA, v, a) ==
    IF Fenced(e, allV, allA, v, a) THEN [e EXCEPT !.fresh = FALSE] ELSE e
=============================================================================
