----------------------------- MODULE TreePLRU -----------------------------
(***************************************************************************)
(* Tree pseudo-LRU (cache/plru.py): one bit per inner node of a binary     *)
(* tree over the ways; the bits on the path of a touched way turn away     *)
(* from it, the victim is found by following them.                         *)
(***************************************************************************)
EXTENDS Naturals, Sequences, FiniteSets

CONSTANTS WaysLog, Ports

\* What the parameters must satisfy.
PlruAssumption == WaysLog \in Nat \ {0} /\ Ports \in Nat \ {0}

Ways == 2 ^ WaysLog
Nodes == 0..Ways - 2

VARIABLES tree,   \* node -> TRUE if the right side was used less recently
          recent  \* history: the last WaysLog ways that were touched, newest first

vars == <<tree, recent>>

Init == tree = [n \in Nodes |-> FALSE] /\ recent = <<>>

-----------------------------------------------------------------------------
\* Direction of way on a level of the tree: its bits, highest first.
Direction(way, level) == (way \div 2 ^ (WaysLog - 1 - level)) % 2 = 1

\* The inner nodes from the root to a way.
PathNode[way \in 0..Ways - 1, level \in 0..WaysLog - 1] ==
  IF level = 0 THEN 0
  ELSE 2 * PathNode[way, level - 1] + (IF Direction(way, level - 1) THEN 2 ELSE 1)

\* victim_of: the way whose path agrees with all the bits.
GetVictim(t) == CHOOSE way \in 0..Ways - 1 :
                  \A level \in 0..WaysLog - 1 : t[PathNode[way, level]] = Direction(way, level)

\* apply_touch: only the nodes on the path change.
ApplyTouch(t, way) ==
  [n \in Nodes |-> IF \E level \in 0..WaysLog - 1 : PathNode[way, level] = n
                   THEN \A level \in 0..WaysLog - 1 : PathNode[way, level] = n => ~Direction(way, level)
                   ELSE t[n]]

\* Touches of one cycle are applied in port order: the last port wins.
RECURSIVE ApplyAll(_, _)
ApplyAll(t, ways) == IF ways = <<>> THEN t ELSE ApplyAll(ApplyTouch(t, Head(ways)), Tail(ways))

Touch(ways) ==
  /\ tree' = ApplyAll(tree, ways)
  /\ recent' = LET all == [i \in 1..Len(ways) |-> ways[Len(ways) + 1 - i]] \o recent
               IN  SubSeq(all, 1, IF Len(all) < WaysLog THEN Len(all) ELSE WaysLog)

Next == \E n \in 1..Ports : \E ways \in [1..n -> 0..Ways - 1] : Touch(ways)

Spec == Init /\ [][Next]_vars

-----------------------------------------------------------------------------
\* The victim is none of the last log2(ways) ways that were touched, whichever ports
\* touched them: what was just used or filled is not evicted.
VictimNotRecent == \A i \in DOMAIN recent : GetVictim(tree) # recent[i]

\* Refilling victim after victim uses every way before it uses one twice.
RECURSIVE Victims(_, _)
Victims(t, n) == IF n = 0 THEN {}
                 ELSE {GetVictim(t)} \union Victims(ApplyTouch(t, GetVictim(t)), n - 1)
VictimsCoverAll == Cardinality(Victims(tree, Ways)) = Ways
=============================================================================
