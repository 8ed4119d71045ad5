--------------------------- MODULE BackendProofs ---------------------------
(***************************************************************************)
(* Operand delivery for every number of instructions, registers, rows and  *)
(* announcements in a cycle: instructions run with the values of their     *)
(* producers, nothing waits for a value that has passed, and registers are *)
(* written once and freed valid.                                           *)
(***************************************************************************)
EXTENDS MCBackend, SequenceTheorems, WellFoundedInduction, TLAPS

-----------------------------------------------------------------------------
(***************************************************************************)
(* The inductive invariant of operand delivery.                            *)
(*                                                                         *)
(* Where instructions are: those in flight are the newest ones, and each   *)
(* of them is in exactly one place until its result is announced.          *)
(***************************************************************************)
InFlight == {rob[n] : n \in DOMAIN rob}
Queued == {queue[n] : n \in DOMAIN queue}
Picked == {picked[n].id : n \in DOMAIN picked}
Stored(k) == {i \in 0 .. k.instrs :
                \E j \in Operands(k)!RSs, e \in Operands(k)!Rows : rs[j][e].full /\ rs[j][e].id = i}
Executing == {x.id : x \in executing}

Instrs(k) == [op : {"none", "alu", "mem", "jb"}, s1 : Operands(k)!Phys, s2 : Operands(k)!Phys,
              dst : Operands(k)!Phys, mis : BOOLEAN, wrong : BOOLEAN, want1 : 0 .. k.instrs,
              want2 : 0 .. k.instrs]
RowType(k) == [full : BOOLEAN, id : 0 .. k.instrs, rp1 : Operands(k)!Phys,
               rp2 : Operands(k)!Phys, v1 : 0 .. k.instrs, v2 : 0 .. k.instrs]
Choices(k) == [id : Operands(k)!Ids, rs : Operands(k)!RSs, row : Operands(k)!Rows]
Results(k) == [id : Operands(k)!Ids, v1 : 0 .. k.instrs, v2 : 0 .. k.instrs]

CoreTypes(k) ==
    /\ next \in 1 .. k.instrs + 1 /\ frat \in Operands(k)!Phys /\ rrat \in Operands(k)!Phys
    /\ saved \in Operands(k)!Phys /\ freelist \subseteq 1 .. k.regs
    /\ wrongpath \in BOOLEAN /\ flushing \in BOOLEAN
    /\ instr \in [Operands(k)!Ids -> Instrs(k)]
    /\ rob \in Seq(Operands(k)!Ids) /\ Len(rob) < next
    /\ \A n \in DOMAIN rob : rob[n] = next - 1 - Len(rob) + n
    /\ \A i \in Operands(k)!Ids \ InFlight : instr[i] = Operands(k)!NoInstr
    /\ \A i \in Operands(k)!Ids : instr[i].mis => instr[i].dst = 0
    /\ inactive \subseteq InFlight /\ \A i \in inactive : instr[i].wrong
UnitTypes(k) ==
    /\ queue \in Seq(Operands(k)!Ids) /\ picked \in Seq(Choices(k))
    /\ rs \in [Operands(k)!RSs -> [Operands(k)!Rows -> RowType(k)]]
    /\ executing \subseteq Results(k)
    /\ valids \subseteq Operands(k)!Phys /\ 0 \in valids
    /\ entries \in [Operands(k)!Phys -> 0 .. k.instrs] /\ entries[0] = 0

OnePlace(k) ==
    /\ \A m, n \in DOMAIN queue : queue[m] = queue[n] => m = n
    /\ \A m, n \in DOMAIN picked : picked[m].id = picked[n].id => m = n
    /\ \A i, j \in Operands(k)!RSs, d, e \in Operands(k)!Rows :
          rs[i][d].full /\ rs[j][e].full /\ rs[i][d].id = rs[j][e].id => i = j /\ d = e
    /\ \A x, y \in executing : x.id = y.id => x = y
    /\ Queued \cap Picked = {} /\ (Queued \cup Picked) \cap Stored(k) = {}
    /\ (Queued \cup Picked \cup Stored(k)) \cap Executing = {}
    /\ odDone \cap Operands(k)!NotAnnounced = {}
    /\ InFlight = odDone \cup Operands(k)!NotAnnounced

\* A ring of n rows: from its front up to its back everything is reserved.
Ring(n, f, b, R) ==
    /\ f < b => \A x \in 1 .. n : x \in R <=> f <= x /\ x < b
    /\ b < f => \A x \in 1 .. n : x \in R <=> x < b \/ f <= x
    /\ b = f => (\A x \in 1 .. n : x \in R) \/ (\A x \in 1 .. n : x \notin R)

\* Rows: what is full or about to be filled is allocated, and what is about to be filled is free.
Held(k, j) == {e \in Operands(k)!Rows : \/ rs[j][e].full
                                        \/ \E n \in DOMAIN picked : picked[n].rs = j /\ picked[n].row = e}
RowsHeld(k) ==
    /\ \A m, n \in DOMAIN picked : picked[m].rs = picked[n].rs => m = n
    /\ \A n \in DOMAIN picked : ~rs[picked[n].rs][picked[n].row].full
    /\ alloc.main.order \in [Operands(k)!Rows -> Operands(k)!Rows]
    /\ \A l, m \in Operands(k)!Rows : alloc.main.order[l] = alloc.main.order[m] => l = m
    /\ alloc.main.used \in 0 .. k.rows
    /\ \A m \in Operands(k)!Rows : m > alloc.main.used => alloc.main.order[m] \notin Held(k, "main")
    /\ Held(k, "fifo") \subseteq alloc.fifo.reserved /\ alloc.fifo.reserved \subseteq Operands(k)!Rows
    /\ alloc.fifo.front \in Operands(k)!Rows /\ alloc.fifo.back \in Operands(k)!Rows
    /\ Ring(k.rows, alloc.fifo.front, alloc.fifo.back, alloc.fifo.reserved)

(***************************************************************************)
(* Who owns a register, and what is in the register file.                  *)
(***************************************************************************)
Owners(k) ==
    /\ rrat \in valids /\ rrat \notin freelist /\ freelist \cap valids = {}
    /\ \A i \in InFlight : instr[i].dst # 0 =>
          /\ instr[i].dst # rrat /\ instr[i].dst \notin freelist
          /\ \A j \in InFlight : instr[j].dst = instr[i].dst => j = i
          /\ i \in odDone => instr[i].dst \in valids /\ entries[instr[i].dst] = i
          /\ i \notin odDone => instr[i].dst \notin valids

(***************************************************************************)
(* The register map in front of instruction c, seen from the active ones:  *)
(* the last of them that writes, or the committed map.                     *)
(***************************************************************************)
Active == InFlight \ inactive
MapIn(A, I, r, c, p) ==
    \/ p = r /\ \A l \in A : l < c => I[l].dst = 0
    \/ \E j \in A : /\ j < c /\ I[j].dst = p /\ p # 0
                    /\ \A l \in A : j < l /\ l < c => I[l].dst = 0
MapAt(c, p) == MapIn(Active, instr, rrat, c, p)
MisspeculatedBy(k, b) ==
    /\ b \in Operands(k)!NotAnnounced /\ instr[b].mis /\ ~instr[b].wrong /\ MapAt(b, saved)
    /\ \A i \in InFlight : /\ i < b => (instr[i].wrong => i \in inactive)
                           /\ i > b => instr[i].wrong
    /\ \A i \in Operands(k)!NotAnnounced : instr[i].mis /\ i \notin inactive => i = b
PathKnown(k) == ~flushing =>
    /\ MapAt(next, frat)
    /\ IF wrongpath THEN \E b \in InFlight : MisspeculatedBy(k, b)
       ELSE /\ \A i \in InFlight : instr[i].wrong => i \in inactive
            /\ \A i \in Operands(k)!NotAnnounced : instr[i].mis => i \in inactive
SourcesMapped == ~flushing => \A c \in Active :
    \A s \in {instr[c].s1, instr[c].s2} : s = 0 \/ MapAt(c, s)

(***************************************************************************)
(* Where the value w of the source s of instruction c is: in the register  *)
(* file, or still to be announced by an older instruction.                 *)
(***************************************************************************)
SourcedIn(V, E, N, I, c, s, w) ==
    \/ s \in V /\ E[s] = w
    \/ w \in N /\ w < c /\ I[w].dst = s /\ s # 0
Sourced(k, c, s, w) == SourcedIn(valids, entries, Operands(k)!NotAnnounced, instr, c, s, w)
WaitingSourced(k) == ~flushing => \A c \in (Queued \cup Picked) \ inactive :
    /\ Sourced(k, c, instr[c].s1, instr[c].want1)
    /\ Sourced(k, c, instr[c].s2, instr[c].want2)

\* A row waits for a register rp with an owner, or has the value v.
OperandHeld(k, c, rp, v, w) ==
    /\ rp = 0 /\ ~flushing /\ ~instr[c].wrong => v = w
    /\ rp # 0 => \E i \in Operands(k)!NotAnnounced :
                    /\ i < c /\ instr[i].dst = rp
                    /\ ~flushing /\ ~instr[c].wrong => w = i
RowsRight(k) ==
    \A j \in Operands(k)!RSs, e \in Operands(k)!Rows : LET row == rs[j][e] IN row.full =>
        /\ OperandHeld(k, row.id, row.rp1, row.v1, instr[row.id].want1)
        /\ OperandHeld(k, row.id, row.rp2, row.v2, instr[row.id].want2)
ResultsRight == \A x \in executing : ~flushing /\ ~instr[x.id].wrong =>
    x.v1 = instr[x.id].want1 /\ x.v2 = instr[x.id].want2

OdInv(k) == /\ CoreTypes(k) /\ UnitTypes(k) /\ OnePlace(k) /\ RowsHeld(k) /\ Owners(k)
            /\ PathKnown(k) /\ SourcesMapped /\ WaitingSourced(k) /\ RowsRight(k) /\ ResultsRight

-----------------------------------------------------------------------------
(***************************************************************************)
(* Facts about the parts of the invariant.                                 *)
(***************************************************************************)
LEMMA NatOrder == \A x, y \in Nat : x < y => <<x, y>> \in OpToRel(<, Nat)
BY SMT DEF OpToRel

LEMMA LeastElement ==
    ASSUME NEW S \in SUBSET Nat, S # {}
    PROVE  \E x \in S : \A y \in S : x <= y
<1>1. PICK x \in S : \A y \in S : ~ (<<y, x>> \in OpToRel(<, Nat))
  BY WFMin, NatLessThanWellFounded
<1>2. \A y \in S : ~ (y < x)
  BY <1>1, NatOrder
<1> QED BY <1>2

LEMMA OdConstants ==
    ASSUME NEW CONSTANT k, Operands(k)!OperandAssumption
    PROVE  /\ k.instrs \in Nat \ {0} /\ k.regs \in Nat \ {0} /\ k.rows \in Nat \ {0}
           /\ Operands(k)!Ids = 1 .. k.instrs /\ Operands(k)!Phys = 0 .. k.regs
           /\ Operands(k)!Rows = 1 .. k.rows /\ Operands(k)!RSs = {"main", "fifo"}
BY DEF Operands!OperandAssumption, Operands!Ids, Operands!Phys, Operands!Rows, Operands!RSs

\* Whose result is still to be announced.
LEMMA NotAnnouncedPlaces ==
    ASSUME NEW CONSTANT k, UnitTypes(k)
    PROVE  Operands(k)!NotAnnounced = Queued \cup Picked \cup Stored(k) \cup Executing
<1>1. {Operands(k)!RowOf(x).id : x \in Operands(k)!InRows} = Stored(k)
  <2>1. ASSUME NEW x \in Operands(k)!InRows PROVE Operands(k)!RowOf(x).id \in Stored(k)
    <3>1. PICK j \in Operands(k)!RSs, e \in Operands(k)!Rows : x = <<e, j>> /\ rs[j][e].full
      BY <2>1 DEF Operands!InRows
    <3>2. rs[j][e] \in RowType(k)
      BY <3>1 DEF UnitTypes
    <3> QED BY <3>1, <3>2 DEF Operands!RowOf, Stored, RowType
  <2>2. ASSUME NEW i \in Stored(k)
        PROVE  \E x \in Operands(k)!InRows : Operands(k)!RowOf(x).id = i
    <3>1. PICK j \in Operands(k)!RSs, e \in Operands(k)!Rows : rs[j][e].full /\ rs[j][e].id = i
      BY <2>2 DEF Stored
    <3>2. <<e, j>> \in Operands(k)!InRows
      BY <3>1 DEF Operands!InRows
    <3> QED BY <3>1, <3>2 DEF Operands!RowOf
  <2> QED BY <2>1, <2>2
<1> QED BY <1>1 DEF Operands!NotAnnounced, Operands!Waiting, Queued, Picked, Executing

\* The instructions in flight are the newest ones; the oldest is the head.
LEMMA FlightOrder ==
    ASSUME NEW CONSTANT k, Operands(k)!OperandAssumption, CoreTypes(k)
    PROVE  /\ Len(rob) \in Nat /\ next \in Nat /\ InFlight = next - Len(rob) .. next - 1
           /\ InFlight \subseteq Operands(k)!Ids /\ next \notin InFlight
           /\ \A i \in InFlight : i \in Nat /\ i < next
           /\ rob # <<>> => /\ Head(rob) = next - Len(rob) /\ Head(rob) \in InFlight
                            /\ \A i \in InFlight : i # Head(rob) => Head(rob) < i
           /\ rob = <<>> => InFlight = {}
<1>1. /\ Len(rob) \in Nat /\ DOMAIN rob = 1 .. Len(rob) /\ next \in Nat /\ Len(rob) < next
      /\ rob \in Seq(Operands(k)!Ids) /\ Operands(k)!Ids = 1 .. k.instrs /\ k.instrs \in Nat
      /\ next <= k.instrs + 1
  BY OdConstants DEF CoreTypes
<1>2. \A n \in 1 .. Len(rob) : rob[n] = next - 1 - Len(rob) + n
  BY <1>1 DEF CoreTypes
<1>3. InFlight = next - Len(rob) .. next - 1
  <2>1. ASSUME NEW i \in next - Len(rob) .. next - 1 PROVE i \in InFlight
    <3>1. i - (next - 1 - Len(rob)) \in 1 .. Len(rob)
      BY <1>1
    <3>2. rob[i - (next - 1 - Len(rob))] = i
      BY <1>1, <1>2, <3>1
    <3> QED BY <1>1, <3>1, <3>2 DEF InFlight
  <2>2. ASSUME NEW n \in DOMAIN rob PROVE rob[n] \in next - Len(rob) .. next - 1
    BY <1>1, <1>2
  <2> QED BY <2>1, <2>2 DEF InFlight
<1>4. rob # <<>> => Len(rob) # 0 /\ Head(rob) = rob[1] /\ rob[1] = next - Len(rob)
  <2> SUFFICES ASSUME rob # <<>> PROVE Len(rob) # 0 /\ Head(rob) = rob[1] /\ rob[1] = next - Len(rob)
    OBVIOUS
  <2>1. Len(rob) # 0
    BY <1>1, EmptySeq
  <2> QED BY <1>1, <1>2, <2>1
<1>5. rob = <<>> => Len(rob) = 0
  OBVIOUS
<1> QED BY <1>1, <1>3, <1>4, <1>5

-----------------------------------------------------------------------------
(***************************************************************************)
(* One cycle: what is taken in, and how the instructions move.             *)
(***************************************************************************)
Happens(k, new, sel, take, ann, retires, traps) ==
    /\ Operands(k)!Cycle(new, sel, take, ann, retires, traps)
    /\ sel \in Operands(k)!Selections /\ take \in Operands(k)!TakeChoices
    /\ ann \in Operands(k)!Announcements(take) /\ <<retires, traps>> \in Operands(k)!RetireChoices
    /\ \/ new = <<>>
       \/ /\ ~Operands(k)!FlushEnds /\ ~Operands(k)!RollsBack(ann)
          /\ \E i \in Operands(k)!NewInstrs : Operands(k)!Dispatchable(i) /\ new = <<i>>

NewIds(new) == IF new = <<>> THEN {} ELSE {next}
GoneIds(retires) == IF retires THEN {Head(rob)} ELSE {}
SelIds(sel) == {sel[n].id : n \in DOMAIN sel}
Takes(k, take, j, e) == take[j] # 0 /\ Operands(k)!TakenRow(j, take[j]) = e
TakenIds(k, take) == {i \in 0 .. k.instrs : \E j \in Operands(k)!RSs, e \in Operands(k)!Rows :
                        Takes(k, take, j, e) /\ rs[j][e].id = i}

\* What is selected: the head of the queue, each instruction with a row that is free.
SelectionOK(k, sel) ==
    /\ sel \in Seq(Choices(k)) /\ Len(sel) <= Len(queue)
    /\ \A n \in DOMAIN sel : /\ sel[n].id = queue[n] /\ sel[n].row = Operands(k)!SelectedRow(sel[n].rs)
                             /\ Operands(k)!SelectReady(sel[n].rs)
    /\ \A m, n \in DOMAIN sel : sel[m].rs = sel[n].rs => m = n

LEMMA SelectionFacts ==
    ASSUME NEW CONSTANT k, Operands(k)!OperandAssumption, UnitTypes(k), RowsHeld(k),
           NEW sel \in Operands(k)!Selections
    PROVE  SelectionOK(k, sel)
<1> DEFINE most == IF Len(queue) < k.width THEN Len(queue) ELSE k.width
<1>1. /\ Len(queue) \in Nat /\ DOMAIN queue = 1 .. Len(queue) /\ k.width \in Nat
      /\ queue \in Seq(Operands(k)!Ids)
  BY DEF UnitTypes, Operands!OperandAssumption
<1>2. /\ \A n \in DOMAIN sel : \E j \in Operands(k)!RSs :
            Operands(k)!Fits(n, j) /\ sel[n] = Operands(k)!Choice(n, j)
      /\ \A m, n \in DOMAIN sel : m # n => sel[m].rs # sel[n].rs
  BY DEF Operands!Selections, Operands!IsSelection
<1>3. \/ sel = <<>>
      \/ most >= 1 /\ \E c : sel = <<c>>
      \/ most >= 2 /\ \E c, d : sel = <<c, d>>
  <2> DEFINE pick(n) == {Operands(k)!Choice(n, j) : j \in {i \in Operands(k)!RSs : Operands(k)!Fits(n, i)}}
             A == IF most >= 1 THEN pick(1) ELSE {}
             B == IF most >= 2 THEN pick(1) ELSE {}
             D == IF most >= 2 THEN pick(2) ELSE {}
  <2>1. sel \in {<<>>} \cup {<<c>> : c \in A} \cup {<<c, d>> : c \in B, d \in D}
    BY DEF Operands!Selections
  <2>2. (A # {} => most >= 1) /\ (B # {} => most >= 2)
    OBVIOUS
  <2> HIDE DEF A, B, D, pick, most
  <2> QED BY <2>1, <2>2
<1>4. /\ Len(sel) \in Nat /\ Len(sel) <= Len(queue) /\ DOMAIN sel = 1 .. Len(sel)
      /\ sel = [n \in 1 .. Len(sel) |-> sel[n]]
  <2>1. most \in Nat /\ most <= Len(queue)
    BY <1>1
  <2> HIDE DEF most
  <2>2. CASE sel = <<>>
    BY <1>1, <2>2
  <2>3. CASE most >= 1 /\ \E c : sel = <<c>>
    BY <1>1, <2>1, <2>3
  <2>4. CASE most >= 2 /\ \E c, d : sel = <<c, d>>
    BY <1>1, <2>1, <2>4
  <2> QED BY <1>3, <2>2, <2>3, <2>4
<1>5. ASSUME NEW n \in 1 .. Len(sel)
      PROVE  /\ sel[n] \in Choices(k) /\ sel[n].id = queue[n]
             /\ sel[n].row = Operands(k)!SelectedRow(sel[n].rs)
             /\ Operands(k)!SelectReady(sel[n].rs)
  <2>1. PICK j \in Operands(k)!RSs : Operands(k)!Fits(n, j) /\ sel[n] = Operands(k)!Choice(n, j)
    BY <1>2, <1>4
  <2>2. queue[n] \in Operands(k)!Ids
    BY <1>1, <1>4, n \in 1 .. Len(queue)
  <2>3. Operands(k)!SelectedRow(j) \in Operands(k)!Rows
    <3>1. CASE j = "main"
      <4>1. alloc.main.used + 1 \in Operands(k)!Rows
        BY <2>1, <3>1, OdConstants DEF Operands!Fits, Operands!SelectReady, RowsHeld
      <4> QED BY <3>1, <4>1 DEF Operands!SelectedRow, RowsHeld
    <3>2. CASE j # "main"
      BY <3>2 DEF Operands!SelectedRow, RowsHeld
    <3> QED BY <3>1, <3>2
  <2> QED BY <2>1, <2>2, <2>3 DEF Operands!Choice, Operands!Fits, Choices
<1>6. sel \in Seq(Choices(k))
  BY <1>4, <1>5
<1> QED BY <1>2, <1>4, <1>5, <1>6 DEF SelectionOK

\* What is issued: from each station nothing, or a row that has both operands.
TakesOK(k, take) == \A j \in Operands(k)!RSs : take[j] # 0 =>
    /\ take[j] \in Operands(k)!Rows /\ Operands(k)!TakenRow(j, take[j]) \in Operands(k)!Rows
    /\ Operands(k)!DataReady(j, Operands(k)!TakenRow(j, take[j]))

LEMMA TakesFacts ==
    ASSUME NEW CONSTANT k, Operands(k)!OperandAssumption, UnitTypes(k), RowsHeld(k),
           NEW take \in Operands(k)!TakeChoices
    PROVE  TakesOK(k, take)
<1> SUFFICES ASSUME NEW j \in Operands(k)!RSs, take[j] # 0
             PROVE  /\ take[j] \in Operands(k)!Rows
                    /\ Operands(k)!TakenRow(j, take[j]) \in Operands(k)!Rows
                    /\ Operands(k)!DataReady(j, Operands(k)!TakenRow(j, take[j]))
  BY DEF TakesOK
<1>1. take[j] \in Operands(k)!Takes(j)
  BY OdConstants DEF Operands!TakeChoices
<1>2. PICK op : /\ Operands(k)!ReadyList(j, op) # {} /\ take[j] = Operands(k)!FirstReady(j, op)
  BY <1>1 DEF Operands!Takes
<1>3. take[j] \in Operands(k)!ReadyList(j, op)
  <2> DEFINE L == Operands(k)!ReadyList(j, op)
  <2>1. L \in SUBSET Nat /\ L # {}
    BY <1>2, OdConstants DEF Operands!ReadyList
  <2>2. take[j] = CHOOSE x \in L : \A y \in L : x <= y
    BY <1>2 DEF Operands!FirstReady
  <2> HIDE DEF L
  <2>3. \E x \in L : \A y \in L : x <= y
    BY <2>1, LeastElement
  <2>4. take[j] \in L
    BY <2>2, <2>3
  <2> QED BY <2>4 DEF L
<1>4. take[j] \in Operands(k)!Rows /\ Operands(k)!DataReady(j, Operands(k)!Order(j, take[j]))
  BY <1>3 DEF Operands!ReadyList
<1>5. Operands(k)!Order(j, take[j]) \in Operands(k)!Rows
  BY <1>4 DEF Operands!Order, RowsHeld
<1> QED BY <1>4, <1>5 DEF Operands!TakenRow

\* The queue and the buffer behind it.
LEMMA QueueMoves ==
    ASSUME NEW CONSTANT k, Operands(k)!OperandAssumption, UnitTypes(k), NEW sel, NEW new,
           SelectionOK(k, sel), \A m, n \in DOMAIN queue : queue[m] = queue[n] => m = n,
           new # <<>> => next \in Operands(k)!Ids /\ next \notin Queued,
           queue' = SubSeq(queue, Len(sel) + 1, Len(queue)) \o (IF new = <<>> THEN <<>> ELSE <<next>>),
           picked' = sel
    PROVE  /\ queue' \in Seq(Operands(k)!Ids) /\ picked' \in Seq(Choices(k))
           /\ Queued' = (Queued \ SelIds(sel)) \cup NewIds(new)
           /\ Picked' = SelIds(sel) /\ SelIds(sel) \subseteq Queued
           /\ (\A m, n \in DOMAIN queue : queue[m] = queue[n] => m = n)'
           /\ (\A m, n \in DOMAIN picked : picked[m].id = picked[n].id => m = n)'
           /\ (\A m, n \in DOMAIN picked : picked[m].rs = picked[n].rs => m = n)'
<1> DEFINE a == Len(sel)
           l == Len(queue)
           t == IF new = <<>> THEN <<>> ELSE <<next>>
           q == SubSeq(queue, a + 1, l)
<1>1. /\ a \in Nat /\ l \in Nat /\ a <= l /\ queue \in Seq(Operands(k)!Ids)
      /\ DOMAIN queue = 1 .. l /\ DOMAIN sel = 1 .. a /\ sel \in Seq(Choices(k))
      /\ \A n \in 1 .. a : sel[n].id = queue[n]
  BY DEF UnitTypes, SelectionOK
<1>2. t \in Seq(Operands(k)!Ids) /\ Len(t) = (IF new = <<>> THEN 0 ELSE 1)
      /\ (new # <<>> => t[1] = next)
  OBVIOUS
<1>3. q \in Seq(Operands(k)!Ids) /\ Len(q) = l - a /\ \A i \in 1 .. l - a : q[i] = queue[a + i]
  <2> HIDE DEF a, l
  <2>1. a + 1 \in 1 .. l + 1 /\ l \in (a + 1) - 1 .. l
    BY <1>1
  <2>2. l = Len(queue)
    BY DEF l
  <2>3. /\ q \in Seq(Operands(k)!Ids) /\ Len(q) = l - (a + 1) + 1
        /\ \A i \in 1 .. l - (a + 1) + 1 : q[i] = queue[(a + 1) + i - 1]
    BY <1>1, <2>1, <2>2, SubSeqProperties
  <2> QED BY <1>1, <2>3
<1>4. queue' = q \o t
  OBVIOUS
<1> HIDE DEF q, t, a, l
<1>5. /\ queue' \in Seq(Operands(k)!Ids) /\ Len(queue') = (l - a) + Len(t)
      /\ DOMAIN queue' = 1 .. (l - a) + Len(t)
      /\ \A i \in 1 .. (l - a) + Len(t) :
            queue'[i] = IF i <= l - a THEN q[i] ELSE t[i - (l - a)]
  <2> DEFINE z == q \o t
  <2>1. /\ z \in Seq(Operands(k)!Ids) /\ Len(z) = Len(q) + Len(t)
        /\ \A i \in 1 .. Len(q) + Len(t) : z[i] = IF i <= Len(q) THEN q[i] ELSE t[i - Len(q)]
    BY ONLY <1>2, <1>3, ConcatProperties
  <2>2. z = queue'
    BY <1>4
  <2> HIDE DEF z
  <2>3. DOMAIN z = 1 .. Len(z)
    BY <2>1
  <2> QED BY <1>3, <2>1, <2>2, <2>3
<1>6. \A i \in 1 .. (l - a) + Len(t) :
         \/ i <= l - a /\ a + i \in 1 .. l /\ queue'[i] = queue[a + i]
         \/ i = (l - a) + 1 /\ new # <<>> /\ queue'[i] = next
  <2> SUFFICES ASSUME NEW i \in 1 .. (l - a) + Len(t)
               PROVE  \/ i <= l - a /\ a + i \in 1 .. l /\ queue'[i] = queue[a + i]
                      \/ i = (l - a) + 1 /\ new # <<>> /\ queue'[i] = next
    OBVIOUS
  <2>1. CASE i <= l - a
    <3>1. i \in 1 .. l - a /\ a + i \in 1 .. l
      BY <1>1, <1>2, <2>1
    <3> QED BY <1>3, <1>5, <2>1, <3>1
  <2>2. CASE ~(i <= l - a)
    <3>1. Len(t) = 1 /\ new # <<>> /\ i = (l - a) + 1 /\ i - (l - a) = 1
      BY <1>1, <1>2, <2>2
    <3> QED BY <1>2, <1>5, <2>2, <3>1
  <2> QED BY <2>1, <2>2
<1>7. SelIds(sel) \subseteq Queued /\ Picked' = SelIds(sel)
  <2>1. \A n \in 1 .. a : n \in 1 .. l
    BY <1>1
  <2> QED BY <1>1, <2>1 DEF SelIds, Queued, Picked
<1>8. (\A m, n \in DOMAIN queue : queue[m] = queue[n] => m = n)'
  <2> SUFFICES ASSUME NEW m \in DOMAIN queue', NEW n \in DOMAIN queue', queue'[m] = queue'[n]
               PROVE  m = n
    OBVIOUS
  <2>1. \A i \in 1 .. l : queue[i] \in Queued
    BY <1>1 DEF Queued
  <2>2. m \in 1 .. (l - a) + Len(t) /\ n \in 1 .. (l - a) + Len(t)
    BY <1>5
  <2>3. CASE m <= l - a /\ n <= l - a
    <3>1. queue[a + m] = queue[a + n] /\ a + m \in 1 .. l /\ a + n \in 1 .. l
      BY <1>1, <1>6, <2>2, <2>3
    <3>2. a + m = a + n
      BY <1>1, <3>1
    <3> QED BY <1>1, <2>2, <3>2
  <2>4. CASE ~(m <= l - a) /\ ~(n <= l - a)
    BY <1>6, <2>2, <2>4
  <2>5. ASSUME NEW x \in 1 .. (l - a) + Len(t), NEW y \in 1 .. (l - a) + Len(t),
               x <= l - a, ~(y <= l - a)
        PROVE  queue'[x] # queue'[y]
    <3>1. a + x \in 1 .. l /\ queue'[x] = queue[a + x]
      BY <1>6, <2>5
    <3>2. queue'[y] = next /\ new # <<>>
      BY <1>6, <2>5
    <3> QED BY <2>1, <3>1, <3>2
  <2> QED BY <2>2, <2>3, <2>4, <2>5
<1>9. Queued' = (Queued \ SelIds(sel)) \cup NewIds(new)
  <2>1. ASSUME NEW i \in DOMAIN queue' PROVE queue'[i] \in (Queued \ SelIds(sel)) \cup NewIds(new)
    <3>1. i \in 1 .. (l - a) + Len(t)
      BY <1>5, <2>1
    <3>2. CASE i <= l - a /\ a + i \in 1 .. l /\ queue'[i] = queue[a + i]
      <4>1. ASSUME NEW n \in 1 .. a PROVE sel[n].id # queue[a + i]
        <5>1. n \in 1 .. l /\ n # a + i
          BY <1>1, <3>1, <4>1
        <5> QED BY <1>1, <3>2, <5>1
      <4> QED BY <1>1, <3>2, <4>1 DEF Queued, SelIds
    <3>3. CASE new # <<>> /\ queue'[i] = next
      BY <3>3 DEF NewIds
    <3> QED BY <1>6, <3>1, <3>2, <3>3
  <2>2. ASSUME NEW x \in Queued \ SelIds(sel) PROVE \E i \in DOMAIN queue' : queue'[i] = x
    <3>1. PICK n \in 1 .. l : queue[n] = x
      BY <1>1, <2>2 DEF Queued
    <3>2. n > a
      BY <1>1, <2>2, <3>1 DEF SelIds
    <3>3. n - a \in 1 .. l - a /\ a + (n - a) = n /\ n - a \in 1 .. (l - a) + Len(t)
      BY <1>1, <1>2, <3>2
    <3>4. n - a <= l - a
      BY <1>1, <3>3
    <3>6. queue'[n - a] = q[n - a]
      BY <1>5, <3>3, <3>4
    <3>5. q[n - a] = x
      BY <1>3, <3>1, <3>3
    <3> QED BY <1>5, <3>3, <3>5, <3>6
  <2>3. new # <<>> => \E i \in DOMAIN queue' : queue'[i] = next
    <3> SUFFICES ASSUME new # <<>> PROVE \E i \in DOMAIN queue' : queue'[i] = next
      OBVIOUS
    <3>1. (l - a) + 1 \in 1 .. (l - a) + Len(t) /\ ~((l - a) + 1 <= l - a)
      BY <1>1, <1>2
    <3> QED BY <1>5, <1>6, <3>1
  <2> DEFINE Q == Queued
             S == SelIds(sel)
             N == NewIds(new)
  <2>4. Q' = {queue'[i] : i \in DOMAIN queue'}
    BY DEF Queued
  <2>5. \A x \in N : x = next /\ new # <<>>
    BY DEF NewIds
  <2>6. \A i \in DOMAIN queue' : queue'[i] \in (Q \ S) \cup N
    BY <2>1
  <2>7. \A x \in Q \ S : \E i \in DOMAIN queue' : queue'[i] = x
    BY <2>2
  <2> HIDE DEF Q, S, N
  <2>8. Q' = (Q \ S) \cup N
    BY ONLY <2>3, <2>4, <2>5, <2>6, <2>7
  <2> QED BY <2>8 DEF Q, S, N
<1>10. /\ (\A m, n \in DOMAIN picked : picked[m].id = picked[n].id => m = n)'
       /\ (\A m, n \in DOMAIN picked : picked[m].rs = picked[n].rs => m = n)'
  <2>1. \A n \in 1 .. a : n \in 1 .. l
    BY <1>1
  <2> QED BY <1>1, <2>1 DEF SelectionOK
<1> QED BY <1>1, <1>5, <1>7, <1>8, <1>9, <1>10

\* The rows: what the register file gives to an instruction on its way into one, and what
\* an announcement leaves in one.
Writes(k, ann, p) == Operands(k)!Writers(ann, p) # {}
Writer(k, ann, p) == CHOOSE a \in Operands(k)!Writers(ann, p) : TRUE
ReadWaits(k, ann, c, s) == ~Writes(k, ann, s) /\ s \notin valids /\ ~Operands(k)!SkipSources(c)
ReadValue(k, ann, s) == IF Writes(k, ann, s) THEN Writer(k, ann, s)
                        ELSE IF s \in valids THEN entries[s] ELSE 0

LEMMA WriterFacts ==
    ASSUME NEW CONSTANT k, NEW ann, NEW p, Writes(k, ann, p)
    PROVE  Writer(k, ann, p) \in ann /\ instr[Writer(k, ann, p)].dst = p /\ p # 0
BY DEF Writes, Writer, Operands!Writers

IsInserted(k, ann, c, r) ==
    /\ r \in RowType(k) /\ r.full = TRUE /\ r.id = c.id
    /\ r.rp1 = IF ReadWaits(k, ann, c.id, instr[c.id].s1) THEN instr[c.id].s1 ELSE 0
    /\ r.rp2 = IF ReadWaits(k, ann, c.id, instr[c.id].s2) THEN instr[c.id].s2 ELSE 0
    /\ r.v1 = ReadValue(k, ann, instr[c.id].s1)
    /\ r.v2 = ReadValue(k, ann, instr[c.id].s2)
IsUpdated(k, ann, row, r) ==
    /\ r \in RowType(k) /\ r.full = row.full /\ r.id = row.id
    /\ r.rp1 = IF Writes(k, ann, row.rp1) THEN 0 ELSE row.rp1
    /\ r.rp2 = IF Writes(k, ann, row.rp2) THEN 0 ELSE row.rp2
    /\ r.v1 = IF Writes(k, ann, row.rp1) THEN Writer(k, ann, row.rp1) ELSE row.v1
    /\ r.v2 = IF Writes(k, ann, row.rp2) THEN Writer(k, ann, row.rp2) ELSE row.v2

LEMMA InsertedFields ==
    ASSUME NEW CONSTANT k, Operands(k)!OperandAssumption, CoreTypes(k), UnitTypes(k),
           NEW c \in Choices(k), NEW ann \in SUBSET Operands(k)!Ids
    PROVE  IsInserted(k, ann, c, Operands(k)!InsertedRow(c, ann))
<1>0. PICK r : r = Operands(k)!InsertedRow(c, ann)
  OBVIOUS
<1>1. /\ c.id \in Operands(k)!Ids /\ instr[c.id] \in Instrs(k)
      /\ k.instrs \in Nat /\ k.regs \in Nat /\ Operands(k)!Ids = 1 .. k.instrs
      /\ Operands(k)!Phys = 0 .. k.regs
  BY OdConstants DEF Choices, CoreTypes
<1>2. PICK i \in Instrs(k) : i = instr[c.id]
  BY <1>1
<1>3. /\ r.full = TRUE /\ r.id = c.id
      /\ r.rp1 = IF ReadWaits(k, ann, c.id, i.s1) THEN i.s1 ELSE 0
      /\ r.rp2 = IF ReadWaits(k, ann, c.id, i.s2) THEN i.s2 ELSE 0
      /\ r.v1 = ReadValue(k, ann, i.s1) /\ r.v2 = ReadValue(k, ann, i.s2)
      /\ r = [full |-> r.full, id |-> r.id, rp1 |-> r.rp1, rp2 |-> r.rp2, v1 |-> r.v1, v2 |-> r.v2]
  <2> DEFINE resp(s) == Operands(k)!ReadResp(ann, s)
             skip == Operands(k)!SkipSources(c.id)
  <2>1. ASSUME NEW s
        PROVE  /\ resp(s).valid <=> Writes(k, ann, s) \/ s \in valids
               /\ resp(s).reg_val = IF Writes(k, ann, s) THEN Writer(k, ann, s) ELSE entries[s]
    BY DEF Operands!ReadResp, Writes, Writer
  <2> DEFINE rp(s) == IF resp(s).valid \/ skip THEN 0 ELSE s
             v(s) == IF resp(s).valid THEN resp(s).reg_val ELSE 0
  <2>2. r = [full |-> TRUE, id |-> c.id, rp1 |-> rp(i.s1), rp2 |-> rp(i.s2), v1 |-> v(i.s1), v2 |-> v(i.s2)]
    BY <1>0, <1>2, Zenon DEF Operands!InsertedRow
  <2> HIDE DEF resp
  <2>3. ASSUME NEW s
        PROVE  /\ rp(s) = IF ReadWaits(k, ann, c.id, s) THEN s ELSE 0
               /\ v(s) = ReadValue(k, ann, s)
    BY <2>1 DEF ReadWaits, ReadValue
  <2> HIDE DEF rp, v
  <2>4. /\ r.full = TRUE /\ r.id = c.id /\ r.rp1 = rp(i.s1) /\ r.rp2 = rp(i.s2)
        /\ r.v1 = v(i.s1) /\ r.v2 = v(i.s2)
        /\ r = [full |-> r.full, id |-> r.id, rp1 |-> r.rp1, rp2 |-> r.rp2, v1 |-> r.v1, v2 |-> r.v2]
    BY ONLY <2>2
  <2> QED BY <2>3, <2>4
<1>4. i.s1 \in 0 .. k.regs /\ i.s2 \in 0 .. k.regs
  BY <1>1, <1>2 DEF Instrs
<1>5. ASSUME NEW s \in 0 .. k.regs PROVE ReadValue(k, ann, s) \in 0 .. k.instrs
  <2>1. CASE Writes(k, ann, s)
    <3>1. Writer(k, ann, s) \in 1 .. k.instrs
      BY <1>1, <2>1, WriterFacts
    <3> QED BY <2>1, <3>1 DEF ReadValue
  <2>2. CASE ~Writes(k, ann, s)
    BY <1>1, <2>2, <1>5 DEF ReadValue, UnitTypes
  <2> QED BY <2>1, <2>2
<1>6. r.v1 \in 0 .. k.instrs /\ r.v2 \in 0 .. k.instrs
  BY <1>3, <1>4, <1>5
<1>7. r.rp1 \in 0 .. k.regs /\ r.rp2 \in 0 .. k.regs
  BY <1>1, <1>3, <1>4
<1>8. r \in RowType(k)
  <2>1. PICK a \in 0 .. k.regs, b \in 0 .. k.regs, d \in 0 .. k.instrs, e \in 0 .. k.instrs :
           a = r.rp1 /\ b = r.rp2 /\ d = r.v1 /\ e = r.v2
    BY <1>6, <1>7
  <2>2. r = [full |-> TRUE, id |-> c.id, rp1 |-> a, rp2 |-> b, v1 |-> d, v2 |-> e]
    BY <1>3, <2>1
  <2>3. c.id \in 0 .. k.instrs
    BY <1>1
  <2> QED BY ONLY <1>1, <2>2, <2>3, a \in 0 .. k.regs, b \in 0 .. k.regs, d \in 0 .. k.instrs,
                  e \in 0 .. k.instrs DEF RowType
<1>9. IsInserted(k, ann, c, r)
  BY <1>2, <1>3, <1>8 DEF IsInserted
<1> QED BY <1>0, <1>9

LEMMA UpdatedFields ==
    ASSUME NEW CONSTANT k, Operands(k)!OperandAssumption, UnitTypes(k),
           NEW row \in RowType(k), NEW ann \in SUBSET Operands(k)!Ids
    PROVE  IsUpdated(k, ann, row, Operands(k)!Updated(row, ann))
<1>0. PICK r : r = Operands(k)!Updated(row, ann)
  OBVIOUS
<1>1. /\ k.instrs \in Nat /\ k.regs \in Nat /\ Operands(k)!Ids = 1 .. k.instrs
      /\ Operands(k)!Phys = 0 .. k.regs
  BY OdConstants
<1> DEFINE rp(p) == IF Writes(k, ann, p) THEN 0 ELSE p
           v(p, w) == IF Writes(k, ann, p) THEN Writer(k, ann, p) ELSE w
<1>2. r = [row EXCEPT !.rp1 = rp(row.rp1), !.rp2 = rp(row.rp2),
                      !.v1 = v(row.rp1, row.v1), !.v2 = v(row.rp2, row.v2)]
  BY <1>0 DEF Operands!Updated, Writes, Writer
<1>3. ASSUME NEW p \in 0 .. k.regs, NEW w \in 0 .. k.instrs
      PROVE  rp(p) \in 0 .. k.regs /\ v(p, w) \in 0 .. k.instrs
  <2>1. Writes(k, ann, p) => Writer(k, ann, p) \in 1 .. k.instrs
    BY <1>1, WriterFacts
  <2> QED BY <1>1, <2>1
<1> HIDE DEF rp, v
<1>4. /\ row.rp1 \in 0 .. k.regs /\ row.rp2 \in 0 .. k.regs
      /\ row.v1 \in 0 .. k.instrs /\ row.v2 \in 0 .. k.instrs
  BY <1>1 DEF RowType
<1>5. /\ r.full = row.full /\ r.id = row.id
      /\ r.rp1 = rp(row.rp1) /\ r.rp2 = rp(row.rp2)
      /\ r.v1 = v(row.rp1, row.v1) /\ r.v2 = v(row.rp2, row.v2)
  BY <1>2 DEF RowType
<1>6. r \in RowType(k)
  <2>1. PICK a \in 0 .. k.regs, b \in 0 .. k.regs, c \in 0 .. k.instrs, d \in 0 .. k.instrs :
           a = rp(row.rp1) /\ b = rp(row.rp2) /\ c = v(row.rp1, row.v1) /\ d = v(row.rp2, row.v2)
    BY <1>3, <1>4
  <2>2. r = [row EXCEPT !.rp1 = a, !.rp2 = b, !.v1 = c, !.v2 = d]
    BY <1>2, <2>1
  <2> QED BY <1>1, <2>2 DEF RowType
<1>7. IsUpdated(k, ann, row, r)
  BY <1>5, <1>6 DEF rp, v, IsUpdated
<1> QED BY <1>0, <1>7

RowsMove(k, take, ann) ==
    rs' = [i \in Operands(k)!RSs |-> [d \in Operands(k)!Rows |-> Operands(k)!RowAfter(i, d, take, ann)]]
Fills(j, e) == \E n \in DOMAIN picked : picked[n].rs = j /\ picked[n].row = e

LEMMA RowMoves ==
    ASSUME NEW CONSTANT k, Operands(k)!OperandAssumption, UnitTypes(k), RowsHeld(k),
           NEW take, NEW ann, NEW j \in Operands(k)!RSs, NEW e \in Operands(k)!Rows,
           RowsMove(k, take, ann)
    PROVE  /\ \A n \in DOMAIN picked : picked[n].rs = j /\ picked[n].row = e =>
                 rs'[j][e] = Operands(k)!InsertedRow(picked[n], ann)
           /\ ~Fills(j, e) /\ Takes(k, take, j, e) => rs'[j][e] = Operands(k)!EmptyRow
           /\ ~Fills(j, e) /\ ~Takes(k, take, j, e) => rs'[j][e] = Operands(k)!Updated(rs[j][e], ann)
<1> DEFINE new == {n \in DOMAIN picked : picked[n].rs = j /\ picked[n].row = e}
<1>1. rs'[j][e] = IF new # {} THEN Operands(k)!InsertedRow(picked[CHOOSE n \in new : TRUE], ann)
                  ELSE IF Takes(k, take, j, e) THEN Operands(k)!EmptyRow
                       ELSE Operands(k)!Updated(rs[j][e], ann)
  <2>1. rs'[j][e] = Operands(k)!RowAfter(j, e, take, ann)
    BY DEF RowsMove
  <2> QED BY <2>1, Zenon DEF Operands!RowAfter, Takes
<1>2. ASSUME NEW n \in new PROVE n = CHOOSE x \in new : TRUE
  <2>1. (CHOOSE x \in new : TRUE) \in new
    BY <1>2
  <2>2. \A m \in new : m = n
    BY <1>2 DEF RowsHeld
  <2> QED BY <2>1, <2>2
<1>3. Fills(j, e) <=> new # {}
  BY DEF Fills
<1>4. \A n \in DOMAIN picked : picked[n].rs = j /\ picked[n].row = e => n \in new
  OBVIOUS
<1> HIDE DEF new
<1> QED BY <1>1, <1>2, <1>3, <1>4

\* The same, one case at a time.
LEMMA RowFilled ==
    ASSUME NEW CONSTANT k, Operands(k)!OperandAssumption, UnitTypes(k), RowsHeld(k),
           NEW take, NEW ann, RowsMove(k, take, ann), NEW n \in DOMAIN picked
    PROVE  rs'[picked[n].rs][picked[n].row] = Operands(k)!InsertedRow(picked[n], ann)
<1>1. picked[n] \in Choices(k)
  BY DEF UnitTypes
<1>2. PICK j \in Operands(k)!RSs, e \in Operands(k)!Rows : picked[n].rs = j /\ picked[n].row = e
  BY <1>1 DEF Choices
<1> QED BY <1>2, RowMoves

LEMMA RowTaken ==
    ASSUME NEW CONSTANT k, Operands(k)!OperandAssumption, UnitTypes(k), RowsHeld(k),
           NEW take, NEW ann, NEW j \in Operands(k)!RSs, NEW e \in Operands(k)!Rows,
           RowsMove(k, take, ann), ~Fills(j, e), Takes(k, take, j, e)
    PROVE  rs'[j][e] = Operands(k)!EmptyRow
BY RowMoves

LEMMA RowKept ==
    ASSUME NEW CONSTANT k, Operands(k)!OperandAssumption, UnitTypes(k), RowsHeld(k),
           NEW take, NEW ann, NEW j \in Operands(k)!RSs, NEW e \in Operands(k)!Rows,
           RowsMove(k, take, ann), ~Fills(j, e), ~Takes(k, take, j, e)
    PROVE  rs'[j][e] = Operands(k)!Updated(rs[j][e], ann)
BY RowMoves

LEMMA FilledFields ==
    ASSUME NEW CONSTANT k, Operands(k)!OperandAssumption, CoreTypes(k), UnitTypes(k), RowsHeld(k),
           NEW take, NEW ann \in SUBSET Operands(k)!Ids, RowsMove(k, take, ann),
           NEW n \in DOMAIN picked
    PROVE  IsInserted(k, ann, picked[n], rs'[picked[n].rs][picked[n].row])
<1>1. picked[n] \in Choices(k)
  BY DEF UnitTypes
<1>2. IsInserted(k, ann, picked[n], Operands(k)!InsertedRow(picked[n], ann))
  BY <1>1, InsertedFields
<1>3. rs'[picked[n].rs][picked[n].row] = Operands(k)!InsertedRow(picked[n], ann)
  BY RowFilled
<1> QED BY <1>2, <1>3

LEMMA KeptFields ==
    ASSUME NEW CONSTANT k, Operands(k)!OperandAssumption, UnitTypes(k), RowsHeld(k),
           NEW take, NEW ann \in SUBSET Operands(k)!Ids, RowsMove(k, take, ann),
           NEW j \in Operands(k)!RSs, NEW e \in Operands(k)!Rows,
           ~Fills(j, e), ~Takes(k, take, j, e)
    PROVE  IsUpdated(k, ann, rs[j][e], rs'[j][e])
<1>1. rs[j][e] \in RowType(k)
  BY DEF UnitTypes
<1>2. IsUpdated(k, ann, rs[j][e], Operands(k)!Updated(rs[j][e], ann))
  BY <1>1, UpdatedFields
<1>3. rs'[j][e] = Operands(k)!Updated(rs[j][e], ann)
  BY RowKept
<1> QED BY <1>2, <1>3

\* A row that is filled is free.
LEMMA FilledIsFree ==
    ASSUME NEW CONSTANT k, RowsHeld(k), NEW j, NEW e, Fills(j, e)
    PROVE  ~rs[j][e].full
BY DEF RowsHeld, Fills

\* What becomes of a row: filled, taken, or kept.
RowStep(k, take, ann, j, e) ==
    \/ \E n \in DOMAIN picked : /\ picked[n].rs = j /\ picked[n].row = e
                                 /\ IsInserted(k, ann, picked[n], rs'[j][e])
    \/ ~Fills(j, e) /\ ~Takes(k, take, j, e) /\ IsUpdated(k, ann, rs[j][e], rs'[j][e])
    \/ ~Fills(j, e) /\ Takes(k, take, j, e) /\ rs'[j][e] = Operands(k)!EmptyRow

LEMMA StoredMoves ==
    ASSUME NEW CONSTANT k, Operands(k)!OperandAssumption, CoreTypes(k), UnitTypes(k),
           RowsHeld(k), NEW take, NEW ann \in SUBSET Operands(k)!Ids, RowsMove(k, take, ann)
    PROVE  /\ rs' \in [Operands(k)!RSs -> [Operands(k)!Rows -> RowType(k)]]
           /\ \A j \in Operands(k)!RSs, e \in Operands(k)!Rows : RowStep(k, take, ann, j, e)
<1>1. ASSUME NEW j \in Operands(k)!RSs, NEW e \in Operands(k)!Rows
      PROVE  RowStep(k, take, ann, j, e)
  <2>1. CASE Fills(j, e)
    <3>1. PICK n \in DOMAIN picked : picked[n].rs = j /\ picked[n].row = e
      BY <2>1 DEF Fills
    <3>2. IsInserted(k, ann, picked[n], rs'[picked[n].rs][picked[n].row])
      BY FilledFields
    <3> QED BY <3>1, <3>2 DEF RowStep
  <2>2. CASE ~Fills(j, e) /\ Takes(k, take, j, e)
    <3>1. rs'[j][e] = Operands(k)!EmptyRow
      BY <2>2, RowTaken
    <3> QED BY <2>2, <3>1 DEF RowStep
  <2>3. CASE ~Fills(j, e) /\ ~Takes(k, take, j, e)
    <3>1. IsUpdated(k, ann, rs[j][e], rs'[j][e])
      BY <2>3, KeptFields
    <3> QED BY <2>3, <3>1 DEF RowStep
  <2> QED BY <2>1, <2>2, <2>3
<1>2. ASSUME NEW j \in Operands(k)!RSs, NEW e \in Operands(k)!Rows PROVE rs'[j][e] \in RowType(k)
  <2>1. Operands(k)!EmptyRow \in RowType(k)
    BY OdConstants DEF Operands!EmptyRow, RowType
  <2>2. ASSUME NEW c, NEW r, IsInserted(k, ann, c, r) PROVE r \in RowType(k)
    BY <2>2 DEF IsInserted
  <2>3. ASSUME NEW c, NEW r, IsUpdated(k, ann, c, r) PROVE r \in RowType(k)
    BY <2>3 DEF IsUpdated
  <2> QED BY <1>1, <2>1, <2>2, <2>3 DEF RowStep
<1>3. rs' \in [Operands(k)!RSs -> [Operands(k)!Rows -> RowType(k)]]
  <2>1. ASSUME NEW j \in Operands(k)!RSs PROVE rs'[j] \in [Operands(k)!Rows -> RowType(k)]
    <3>1. rs'[j] = [d \in Operands(k)!Rows |-> Operands(k)!RowAfter(j, d, take, ann)]
      BY DEF RowsMove
    <3>2. \A d \in Operands(k)!Rows : Operands(k)!RowAfter(j, d, take, ann) \in RowType(k)
      BY <1>2, <3>1
    <3> QED BY <3>1, <3>2
  <2> QED BY <2>1 DEF RowsMove
<1> QED BY <1>1, <1>3

\* Where a full row comes from.
LEMMA FullRow ==
    ASSUME NEW CONSTANT k, NEW take, NEW ann, NEW j, NEW e, RowStep(k, take, ann, j, e),
           rs'[j][e].full
    PROVE  \/ \E n \in DOMAIN picked : /\ picked[n].rs = j /\ picked[n].row = e
                                       /\ rs'[j][e].id = picked[n].id
                                       /\ IsInserted(k, ann, picked[n], rs'[j][e])
           \/ /\ ~Fills(j, e) /\ ~Takes(k, take, j, e) /\ rs[j][e].full
              /\ rs'[j][e].id = rs[j][e].id /\ IsUpdated(k, ann, rs[j][e], rs'[j][e])
<1>1. ASSUME NEW c, NEW r, IsInserted(k, ann, c, r) PROVE r.id = c.id
  BY <1>1 DEF IsInserted
<1>2. ASSUME NEW c, NEW r, IsUpdated(k, ann, c, r) PROVE r.id = c.id /\ r.full = c.full
  BY <1>2 DEF IsUpdated
<1>3. Operands(k)!EmptyRow.full = FALSE
  BY DEF Operands!EmptyRow
<1> QED BY <1>1, <1>2, <1>3 DEF RowStep

\* The rows that are taken were full.
LEMMA TakenAreFull ==
    ASSUME NEW CONSTANT k, NEW take, TakesOK(k, take), NEW j \in Operands(k)!RSs, NEW e,
           Takes(k, take, j, e)
    PROVE  e \in Operands(k)!Rows /\ rs[j][e].full /\ rs[j][e].rp1 = 0 /\ rs[j][e].rp2 = 0
BY DEF TakesOK, Takes, Operands!DataReady

StoredOnce(k) == \A i, j \in Operands(k)!RSs, d, e \in Operands(k)!Rows :
    rs[i][d].full /\ rs[j][e].full /\ rs[i][d].id = rs[j][e].id => i = j /\ d = e

LEMMA StoredSet ==
    ASSUME NEW CONSTANT k, Operands(k)!OperandAssumption, CoreTypes(k), UnitTypes(k),
           RowsHeld(k), OnePlace(k), NEW take, TakesOK(k, take),
           NEW ann \in SUBSET Operands(k)!Ids, RowsMove(k, take, ann)
    PROVE  /\ Stored(k)' = (Stored(k) \ TakenIds(k, take)) \cup Picked
           /\ TakenIds(k, take) \subseteq Stored(k)
           /\ StoredOnce(k)'
<1>1. /\ rs' \in [Operands(k)!RSs -> [Operands(k)!Rows -> RowType(k)]]
      /\ \A j \in Operands(k)!RSs, e \in Operands(k)!Rows : RowStep(k, take, ann, j, e)
  BY StoredMoves
<1>2. StoredOnce(k) /\ (Queued \cup Picked) \cap Stored(k) = {}
  BY DEF OnePlace, StoredOnce
<1>3. /\ picked \in Seq(Choices(k)) /\ rs \in [Operands(k)!RSs -> [Operands(k)!Rows -> RowType(k)]]
      /\ k.instrs \in Nat /\ Operands(k)!Ids = 1 .. k.instrs
  BY OdConstants DEF UnitTypes
<1>4. ASSUME NEW j \in Operands(k)!RSs, NEW e \in Operands(k)!Rows
      PROVE  rs[j][e].id \in 0 .. k.instrs /\ rs'[j][e].id \in 0 .. k.instrs
  BY <1>1, <1>3 DEF RowType
<1>5. ASSUME NEW n \in DOMAIN picked
      PROVE  /\ picked[n].id \in Operands(k)!Ids /\ picked[n].rs \in Operands(k)!RSs
             /\ picked[n].row \in Operands(k)!Rows /\ picked[n].id \in Picked
  <2>1. picked[n] \in Choices(k)
    BY <1>3
  <2> QED BY <2>1 DEF Choices, Picked
<1>6. ASSUME NEW j \in Operands(k)!RSs, NEW e \in Operands(k)!Rows, rs[j][e].full
      PROVE  rs[j][e].id \in Stored(k)
  BY <1>4, <1>6 DEF Stored
<1>7. ASSUME NEW j \in Operands(k)!RSs, NEW e \in Operands(k)!Rows, Takes(k, take, j, e)
      PROVE  rs[j][e].id \in TakenIds(k, take)
  BY <1>4, <1>7 DEF TakenIds
<1>8. TakenIds(k, take) \subseteq Stored(k)
  <2> SUFFICES ASSUME NEW i \in TakenIds(k, take) PROVE i \in Stored(k)
    OBVIOUS
  <2>1. PICK j \in Operands(k)!RSs, e \in Operands(k)!Rows : Takes(k, take, j, e) /\ rs[j][e].id = i
    BY DEF TakenIds
  <2> QED BY <1>6, <2>1, TakenAreFull
<1>9. ASSUME NEW j \in Operands(k)!RSs, NEW e \in Operands(k)!Rows, rs'[j][e].full
      PROVE  \/ \E n \in DOMAIN picked : /\ picked[n].rs = j /\ picked[n].row = e
                                         /\ rs'[j][e].id = picked[n].id
             \/ ~Takes(k, take, j, e) /\ rs[j][e].full /\ rs'[j][e].id = rs[j][e].id
  BY <1>1, <1>9, FullRow
<1>10. ASSUME NEW j \in Operands(k)!RSs, NEW e \in Operands(k)!Rows, ~Takes(k, take, j, e), rs[j][e].full
       PROVE  rs[j][e].id \notin TakenIds(k, take)
  <2> SUFFICES ASSUME rs[j][e].id \in TakenIds(k, take) PROVE FALSE
    OBVIOUS
  <2>1. PICK jj \in Operands(k)!RSs, ee \in Operands(k)!Rows :
           Takes(k, take, jj, ee) /\ rs[jj][ee].id = rs[j][e].id
    BY DEF TakenIds
  <2>2. rs[jj][ee].full
    BY <2>1, TakenAreFull
  <2>3. jj = j /\ ee = e
    BY <1>2, <1>10, <2>1, <2>2 DEF StoredOnce
  <2> QED BY <1>10, <2>1, <2>3
<1>11. ASSUME NEW i \in Stored(k)' PROVE i \in (Stored(k) \ TakenIds(k, take)) \cup Picked
  <2>1. PICK j \in Operands(k)!RSs, e \in Operands(k)!Rows : rs'[j][e].full /\ rs'[j][e].id = i
    BY DEF Stored, Operands!RSs, Operands!Rows
  <2> QED BY <1>5, <1>6, <1>9, <1>10, <2>1
<1>12. ASSUME NEW i \in (Stored(k) \ TakenIds(k, take)) \cup Picked
       PROVE  \E j \in Operands(k)!RSs, e \in Operands(k)!Rows : rs'[j][e].full /\ rs'[j][e].id = i
  <2>1. CASE i \in Picked
    <3>1. PICK n \in DOMAIN picked : i = picked[n].id
      BY <2>1 DEF Picked
    <3>2. IsInserted(k, ann, picked[n], rs'[picked[n].rs][picked[n].row])
      BY FilledFields
    <3>3. /\ rs'[picked[n].rs][picked[n].row].full
          /\ rs'[picked[n].rs][picked[n].row].id = picked[n].id
      BY <3>2 DEF IsInserted
    <3> QED BY <1>5, <3>1, <3>3
  <2>2. CASE i \in Stored(k) \ TakenIds(k, take)
    <3>1. PICK j \in Operands(k)!RSs, e \in Operands(k)!Rows : rs[j][e].full /\ rs[j][e].id = i
      BY <2>2 DEF Stored
    <3>2. ~Takes(k, take, j, e) /\ ~Fills(j, e)
      BY <1>7, <2>2, <3>1, FilledIsFree
    <3>3. IsUpdated(k, ann, rs[j][e], rs'[j][e])
      BY <3>2, KeptFields
    <3>4. rs'[j][e].full = rs[j][e].full /\ rs'[j][e].id = rs[j][e].id
      BY <3>3 DEF IsUpdated
    <3> QED BY <3>1, <3>4
  <2> QED BY <1>12, <2>1, <2>2
<1>13. Stored(k)' = (Stored(k) \ TakenIds(k, take)) \cup Picked
  <2>1. \A i \in (Stored(k) \ TakenIds(k, take)) \cup Picked : i \in 0 .. k.instrs
    BY <1>3, <1>5 DEF Stored, Picked
  <2>2. Stored(k)' = {i \in 0 .. k.instrs :
                        \E j \in Operands(k)!RSs, e \in Operands(k)!Rows : rs'[j][e].full /\ rs'[j][e].id = i}
    BY DEF Stored, Operands!RSs, Operands!Rows
  <2> QED BY <1>11, <1>12, <2>1, <2>2
<1>14. StoredOnce(k)'
  <2> SUFFICES ASSUME NEW i \in Operands(k)!RSs, NEW j \in Operands(k)!RSs,
                      NEW d \in Operands(k)!Rows, NEW e \in Operands(k)!Rows,
                      rs'[i][d].full, rs'[j][e].full, rs'[i][d].id = rs'[j][e].id
               PROVE  i = j /\ d = e
    BY DEF StoredOnce, Operands!RSs, Operands!Rows
  <2>1. \A m, n \in DOMAIN picked : picked[m].id = picked[n].id => m = n
    BY DEF OnePlace
  <2>2. \/ \E n \in DOMAIN picked : picked[n].rs = i /\ picked[n].row = d /\ rs'[i][d].id = picked[n].id
        \/ rs[i][d].full /\ rs'[i][d].id = rs[i][d].id
    BY <1>9
  <2>3. \/ \E n \in DOMAIN picked : picked[n].rs = j /\ picked[n].row = e /\ rs'[j][e].id = picked[n].id
        \/ rs[j][e].full /\ rs'[j][e].id = rs[j][e].id
    BY <1>9
  <2> QED BY <1>2, <1>5, <1>6, <2>1, <2>2, <2>3 DEF StoredOnce
<1> QED BY <1>8, <1>13, <1>14

\* What the functional units hold: what they held and what is taken, until it is announced.
FromRow(k, take, x) == \E j \in Operands(k)!RSs, e \in Operands(k)!Rows :
    /\ Takes(k, take, j, e)
    /\ x = [id |-> rs[j][e].id, v1 |-> rs[j][e].v1, v2 |-> rs[j][e].v2]

LEMMA IssuedRows ==
    ASSUME NEW CONSTANT k, NEW take, TakesOK(k, take)
    PROVE  \A x : x \in Operands(k)!Issued(take) <=> FromRow(k, take, x)
<1>1. ASSUME NEW x \in Operands(k)!Issued(take) PROVE FromRow(k, take, x)
  <2>1. PICK j \in Operands(k)!RSs : take[j] # 0 /\
           x = LET row == rs[j][Operands(k)!TakenRow(j, take[j])]
               IN [id |-> row.id, v1 |-> row.v1, v2 |-> row.v2]
    BY <1>1 DEF Operands!Issued
  <2>2. Operands(k)!TakenRow(j, take[j]) \in Operands(k)!Rows
    BY <2>1 DEF TakesOK
  <2> QED BY <2>1, <2>2 DEF FromRow, Takes
<1>2. ASSUME NEW x, FromRow(k, take, x) PROVE x \in Operands(k)!Issued(take)
  <2>1. PICK j \in Operands(k)!RSs, e \in Operands(k)!Rows :
           /\ Takes(k, take, j, e)
           /\ x = [id |-> rs[j][e].id, v1 |-> rs[j][e].v1, v2 |-> rs[j][e].v2]
    BY <1>2 DEF FromRow
  <2> QED BY <2>1 DEF Operands!Issued, Takes
<1> QED BY <1>1, <1>2

ResultsStep(k, take, ann) ==
    executing' = {x \in executing \cup Operands(k)!Issued(take) : x.id \notin ann}

LEMMA ResultsMove ==
    ASSUME NEW CONSTANT k, Operands(k)!OperandAssumption, CoreTypes(k), UnitTypes(k), OnePlace(k),
           NEW take, TakesOK(k, take), NEW ann, TakenIds(k, take) \subseteq Stored(k),
           ResultsStep(k, take, ann)
    PROVE  /\ executing' \subseteq Results(k)
           /\ {x.id : x \in executing \cup Operands(k)!Issued(take)} = Executing \cup TakenIds(k, take)
           /\ Executing' = (Executing \cup TakenIds(k, take)) \ ann
           /\ (\A x, y \in executing : x.id = y.id => x = y)'
           /\ \A x \in executing' : x.id \notin ann /\ (x \in executing \/ FromRow(k, take, x))
<1>0. executing' = {x \in executing \cup Operands(k)!Issued(take) : x.id \notin ann}
  BY DEF ResultsStep
<1>1. /\ rs \in [Operands(k)!RSs -> [Operands(k)!Rows -> RowType(k)]] /\ executing \subseteq Results(k)
      /\ StoredOnce(k) /\ Stored(k) \cap Executing = {}
      /\ \A x, y \in executing : x.id = y.id => x = y
  BY DEF UnitTypes, OnePlace, StoredOnce
<1>2. Stored(k) \subseteq Operands(k)!Ids
  <2>1. Stored(k) \subseteq Operands(k)!NotAnnounced
    BY NotAnnouncedPlaces
  <2> QED BY <2>1, FlightOrder DEF OnePlace
<1>3. ASSUME NEW x, FromRow(k, take, x)
      PROVE  /\ x \in Results(k) /\ x.id \in TakenIds(k, take)
             /\ \E j \in Operands(k)!RSs, e \in Operands(k)!Rows :
                   rs[j][e].full /\ rs[j][e].id = x.id /\ x.v1 = rs[j][e].v1 /\ x.v2 = rs[j][e].v2
  <2>1. PICK j \in Operands(k)!RSs, e \in Operands(k)!Rows :
           /\ Takes(k, take, j, e)
           /\ x = [id |-> rs[j][e].id, v1 |-> rs[j][e].v1, v2 |-> rs[j][e].v2]
    BY <1>3 DEF FromRow
  <2>2. PICK row \in RowType(k) : row = rs[j][e]
    BY <1>1
  <2>3. /\ row.id \in 0 .. k.instrs /\ row.v1 \in 0 .. k.instrs /\ row.v2 \in 0 .. k.instrs
    BY <2>2 DEF RowType
  <2>4. rs[j][e].full
    BY <2>1, TakenAreFull
  <2>5. row.id \in TakenIds(k, take)
    BY <2>1, <2>2, <2>3 DEF TakenIds
  <2>6. row.id \in Operands(k)!Ids
    BY <1>2, <2>5
  <2>7. x = [id |-> row.id, v1 |-> row.v1, v2 |-> row.v2]
    BY <2>1, <2>2
  <2>8. x \in Results(k) /\ x.id = row.id /\ x.v1 = row.v1 /\ x.v2 = row.v2
    BY <2>3, <2>6, <2>7 DEF Results
  <2> QED BY <2>2, <2>4, <2>5, <2>8
<1>4. ASSUME NEW i \in TakenIds(k, take) PROVE \E x : FromRow(k, take, x) /\ x.id = i
  <2>1. PICK j \in Operands(k)!RSs, e \in Operands(k)!Rows : Takes(k, take, j, e) /\ rs[j][e].id = i
    BY <1>4 DEF TakenIds
  <2>2. PICK x : x = [id |-> rs[j][e].id, v1 |-> rs[j][e].v1, v2 |-> rs[j][e].v2]
    OBVIOUS
  <2>3. FromRow(k, take, x)
    BY <2>1, <2>2 DEF FromRow
  <2>4. x.id = i
    BY <2>1, <2>2
  <2> QED BY <2>3, <2>4
<1>5. ASSUME NEW x, NEW y, FromRow(k, take, x), FromRow(k, take, y), x.id = y.id PROVE x = y
  <2>1. PICK i \in Operands(k)!RSs, d \in Operands(k)!Rows :
           /\ Takes(k, take, i, d)
           /\ x = [id |-> rs[i][d].id, v1 |-> rs[i][d].v1, v2 |-> rs[i][d].v2]
    BY <1>5 DEF FromRow
  <2>2. PICK j \in Operands(k)!RSs, e \in Operands(k)!Rows :
           /\ Takes(k, take, j, e)
           /\ y = [id |-> rs[j][e].id, v1 |-> rs[j][e].v1, v2 |-> rs[j][e].v2]
    BY <1>5 DEF FromRow
  <2>3. rs[i][d].full /\ rs[j][e].full
    BY <2>1, <2>2, TakenAreFull
  <2>4. rs[i][d].id = rs[j][e].id
    BY <1>5, <2>1, <2>2
  <2>5. i = j /\ d = e
    BY <1>1, <2>3, <2>4 DEF StoredOnce
  <2> QED BY <2>1, <2>2, <2>5
<1>7. \A x : x \in Operands(k)!Issued(take) <=> FromRow(k, take, x)
  BY IssuedRows
<1>8. \A x \in executing' : x.id \notin ann /\ (x \in executing \/ FromRow(k, take, x))
  BY <1>0, <1>7
<1>9. executing' \subseteq Results(k)
  BY <1>1, <1>3, <1>8
<1>10. {x.id : x \in executing \cup Operands(k)!Issued(take)} = Executing \cup TakenIds(k, take)
  BY <1>3, <1>4, <1>7 DEF Executing
<1>11. Executing' = (Executing \cup TakenIds(k, take)) \ ann
  <2>1. Executing' = {x.id : x \in executing'}
    BY DEF Executing
  <2>2. \A i : i \in Executing \cup TakenIds(k, take) <=>
                 \E x \in executing \cup Operands(k)!Issued(take) : x.id = i
    BY <1>10
  <2> QED BY <1>0, <2>1, <2>2
<1>12. (\A x, y \in executing : x.id = y.id => x = y)'
  <2>1. ASSUME NEW x \in executing, NEW y, FromRow(k, take, y) PROVE x.id # y.id
    BY <1>1, <1>3, <2>1 DEF Executing
  <2> SUFFICES ASSUME NEW x \in executing', NEW y \in executing', x.id = y.id PROVE x = y
    OBVIOUS
  <2> QED BY <1>1, <1>5, <1>8, <2>1
<1> QED BY <1>8, <1>9, <1>10, <1>11, <1>12

\* How the instructions move in a cycle.
IdsMove(k, new, sel, take, ann, retires) ==
    /\ Queued' = (Queued \ SelIds(sel)) \cup NewIds(new)
    /\ Picked' = SelIds(sel) /\ SelIds(sel) \subseteq Queued
    /\ Stored(k)' = (Stored(k) \ TakenIds(k, take)) \cup Picked /\ TakenIds(k, take) \subseteq Stored(k)
    /\ Executing' = (Executing \cup TakenIds(k, take)) \ ann
    /\ ann \subseteq Executing \cup TakenIds(k, take)
    /\ odDone' = (odDone \cup ann) \ GoneIds(retires) /\ GoneIds(retires) \subseteq odDone
    /\ InFlight' = (InFlight \ GoneIds(retires)) \cup NewIds(new)
    /\ NewIds(new) \cap InFlight = {}

\* Everybody is in one place.
Places(k) ==
    /\ Queued \cap Picked = {} /\ (Queued \cup Picked) \cap Stored(k) = {}
    /\ (Queued \cup Picked \cup Stored(k)) \cap Executing = {}
    /\ odDone \cap Operands(k)!NotAnnounced = {}
    /\ InFlight = odDone \cup Operands(k)!NotAnnounced

LEMMA NotAnnouncedNext ==
    ASSUME NEW CONSTANT k
    PROVE  (UnitTypes(k) =>
              Operands(k)!NotAnnounced = Queued \cup Picked \cup Stored(k) \cup Executing)'
<1>1. UnitTypes(k) => Operands(k)!NotAnnounced = Queued \cup Picked \cup Stored(k) \cup Executing
  BY NotAnnouncedPlaces
<1> QED BY <1>1, PTL

LEMMA PlacesMove ==
    ASSUME NEW CONSTANT k, NEW new, NEW sel, NEW take, NEW ann, NEW retires, UnitTypes(k), UnitTypes(k)',
           Places(k), IdsMove(k, new, sel, take, ann, retires)
    PROVE  /\ Places(k)'
           /\ Operands(k)!NotAnnounced' = (Operands(k)!NotAnnounced \ ann) \cup NewIds(new)
           /\ ann \subseteq Operands(k)!NotAnnounced
<1> DEFINE N == Operands(k)!NotAnnounced
<1>1. N = Queued \cup Picked \cup Stored(k) \cup Executing
  BY NotAnnouncedPlaces
<1>2. N' = Queued' \cup Picked' \cup Stored(k)' \cup Executing'
  BY NotAnnouncedNext
<1> QED BY <1>1, <1>2, Zenon DEF Places, IdsMove

-----------------------------------------------------------------------------
(***************************************************************************)
(* The row allocators.                                                     *)
(***************************************************************************)
Incr(n, e) == IF e = n THEN 1 ELSE e + 1

LEMMA RingBack ==
    ASSUME NEW n \in Nat \ {0}, NEW f \in 1 .. n, NEW b \in 1 .. n, NEW R \in SUBSET (1 .. n),
           Ring(n, f, b, R), R # 1 .. n
    PROVE  b \notin R /\ Ring(n, f, Incr(n, b), R \cup {b})
<1>1. PICK y \in 1 .. n : y \notin R
  OBVIOUS
<1>2. b \notin R
  BY <1>1 DEF Ring
<1>3. CASE f = b
  <2>1. \A x \in 1 .. n : x \notin R
    BY <1>1, <1>3 DEF Ring
  <2> QED BY <1>2, <1>3, <2>1 DEF Ring, Incr
<1>4. CASE f < b
  BY <1>2, <1>4 DEF Ring, Incr
<1>5. CASE b < f
  BY <1>2, <1>5 DEF Ring, Incr
<1> QED BY <1>3, <1>4, <1>5

LEMMA RingFront ==
    ASSUME NEW n \in Nat \ {0}, NEW f \in 1 .. n, NEW b \in 1 .. n, NEW R \in SUBSET (1 .. n),
           Ring(n, f, b, R), f \in R
    PROVE  Ring(n, Incr(n, f), b, R \ {f})
<1>1. CASE f = b
  <2>1. \A x \in 1 .. n : x \in R
    BY <1>1 DEF Ring
  <2> QED BY <1>1, <2>1 DEF Ring, Incr
<1>2. CASE f < b
  BY <1>2 DEF Ring, Incr
<1>3. CASE b < f
  BY <1>3 DEF Ring, Incr
<1> QED BY <1>1, <1>2, <1>3

LEMMA RingStep ==
    ASSUME NEW n \in Nat \ {0}, NEW f \in 1 .. n, NEW b \in 1 .. n, NEW R \in SUBSET (1 .. n),
           Ring(n, f, b, R), NEW takes \in BOOLEAN, NEW allocates \in BOOLEAN,
           takes => f \in R, allocates => R # 1 .. n
    PROVE  Ring(n, IF takes THEN Incr(n, f) ELSE f, IF allocates THEN Incr(n, b) ELSE b,
                (R \cup (IF allocates THEN {b} ELSE {})) \ (IF takes THEN {f} ELSE {}))
<1> DEFINE bb == IF allocates THEN Incr(n, b) ELSE b
           RR == R \cup (IF allocates THEN {b} ELSE {})
<1>1. Ring(n, f, bb, RR) /\ bb \in 1 .. n /\ RR \in SUBSET (1 .. n)
  <2>1. CASE allocates
    <3>1. Ring(n, f, Incr(n, b), R \cup {b})
      BY <2>1, RingBack
    <3>2. Incr(n, b) \in 1 .. n
      BY DEF Incr
    <3>3. bb = Incr(n, b) /\ RR = R \cup {b}
      BY <2>1
    <3> HIDE DEF bb, RR
    <3> QED BY <3>1, <3>2, <3>3
  <2>2. CASE ~allocates
    <3>1. RR = R /\ bb = b
      BY <2>2
    <3> QED BY <3>1
  <2> QED BY <2>1, <2>2
<1>2. takes => f \in RR
  OBVIOUS
<1> HIDE DEF bb, RR
<1>3. CASE takes
  <2>1. Ring(n, Incr(n, f), bb, RR \ {f})
    BY <1>1, <1>2, <1>3, RingFront
  <2> QED BY <1>3, <2>1 DEF bb, RR
<1>4. CASE ~takes
  <2>1. RR \ {} = RR
    OBVIOUS
  <2> QED BY <1>1, <1>4, <2>1 DEF bb, RR
<1> QED BY <1>3, <1>4

\* Who holds a row after the cycle held it before and was not taken, or was just selected.
Allocs(sel, j) == \E n \in DOMAIN sel : sel[n].rs = j

LEMMA HeldMoves ==
    ASSUME NEW CONSTANT k, Operands(k)!OperandAssumption, CoreTypes(k), UnitTypes(k),
           RowsHeld(k), NEW take, TakesOK(k, take), NEW ann \in SUBSET Operands(k)!Ids,
           RowsMove(k, take, ann), NEW sel, SelectionOK(k, sel), picked' = sel,
           NEW j \in Operands(k)!RSs, NEW e \in Held(k, j)'
    PROVE  /\ e \in Operands(k)!Rows
           /\ \/ e \in Held(k, j) /\ ~Takes(k, take, j, e)
              \/ Allocs(sel, j) /\ Operands(k)!SelectReady(j) /\ e = Operands(k)!SelectedRow(j)
<1>1. /\ e \in Operands(k)!Rows
      /\ rs'[j][e].full \/ \E n \in DOMAIN sel : sel[n].rs = j /\ sel[n].row = e
  BY DEF Held, Operands!Rows
<1>2. CASE rs'[j][e].full
  <2>1. RowStep(k, take, ann, j, e)
    BY <1>1, StoredMoves
  <2>2. Fills(j, e) \/ (rs[j][e].full /\ ~Takes(k, take, j, e))
    <3>1. ASSUME NEW n \in DOMAIN picked, picked[n].rs = j, picked[n].row = e PROVE Fills(j, e)
      BY <3>1 DEF Fills
    <3>2. \/ \E n \in DOMAIN picked : picked[n].rs = j /\ picked[n].row = e
          \/ ~Takes(k, take, j, e) /\ rs[j][e].full
      BY <1>2, <2>1, FullRow
    <3>3. CASE \E n \in DOMAIN picked : picked[n].rs = j /\ picked[n].row = e
      BY <3>1, <3>3
    <3>4. CASE ~Takes(k, take, j, e) /\ rs[j][e].full
      BY <3>4
    <3> QED BY <3>2, <3>3, <3>4
  <2>3. Fills(j, e) => ~Takes(k, take, j, e)
    BY FilledIsFree, TakenAreFull
  <2> QED BY <1>1, <2>2, <2>3 DEF Held, Fills
<1>3. CASE \E n \in DOMAIN sel : sel[n].rs = j /\ sel[n].row = e
  BY <1>1, <1>3 DEF SelectionOK, Allocs
<1> QED BY <1>1, <1>2, <1>3

MainMove(k, take, sel) == alloc'.main = Operands(k)!MainAfter(take["main"], Allocs(sel, "main"))
FifoMove(k, take, sel) == alloc'.fifo = Operands(k)!FifoAfter(take["fifo"], Allocs(sel, "fifo"))

LEMMA FifoHeld ==
    ASSUME NEW CONSTANT k, Operands(k)!OperandAssumption, CoreTypes(k), UnitTypes(k),
           RowsHeld(k), NEW take, TakesOK(k, take), NEW ann \in SUBSET Operands(k)!Ids,
           RowsMove(k, take, ann), NEW sel, SelectionOK(k, sel), picked' = sel, FifoMove(k, take, sel)
    PROVE  /\ Held(k, "fifo")' \subseteq alloc'.fifo.reserved
           /\ alloc'.fifo.reserved \subseteq Operands(k)!Rows
           /\ alloc'.fifo.front \in Operands(k)!Rows /\ alloc'.fifo.back \in Operands(k)!Rows
           /\ Ring(k.rows, alloc'.fifo.front, alloc'.fifo.back, alloc'.fifo.reserved)
<1>1. PICK n \in Nat \ {0} : n = k.rows /\ Operands(k)!Rows = 1 .. n /\ "fifo" \in Operands(k)!RSs
  BY OdConstants
<1>2. PICK f, b, R : f = alloc.fifo.front /\ b = alloc.fifo.back /\ R = alloc.fifo.reserved
  OBVIOUS
<1>3. f \in 1 .. n /\ b \in 1 .. n /\ R \in SUBSET (1 .. n) /\ Ring(n, f, b, R) /\ Held(k, "fifo") \subseteq R
  BY <1>1, <1>2 DEF RowsHeld
<1> DEFINE takes == take["fifo"] # 0
           allocates == Allocs(sel, "fifo")
<1>4. takes \in BOOLEAN /\ allocates \in BOOLEAN
  BY DEF Allocs
<1>5. \A e : Takes(k, take, "fifo", e) <=> takes /\ e = f
  BY <1>2 DEF Takes, Operands!TakenRow, Operands!Order
<1>6. takes => f \in R
  <2>1. ASSUME Takes(k, take, "fifo", f) PROVE f \in Held(k, "fifo")
    BY <1>1, <2>1, TakenAreFull DEF Held
  <2> QED BY <1>3, <1>5, <2>1
<1>7. allocates => R # 1 .. n
  <2>1. ASSUME NEW m \in DOMAIN sel, sel[m].rs = "fifo" PROVE Operands(k)!SelectReady("fifo")
    BY <2>1 DEF SelectionOK
  <2>2. Operands(k)!SelectReady("fifo") => R # 1 .. n
    BY <1>1, <1>2 DEF Operands!SelectReady
  <2> QED BY <2>1, <2>2 DEF Allocs
<1>8. b \notin R \/ R = 1 .. n
  BY <1>3, RingBack
<1>9. /\ alloc'.fifo.front = IF takes THEN Incr(n, f) ELSE f
      /\ alloc'.fifo.back = IF allocates THEN Incr(n, b) ELSE b
      /\ alloc'.fifo.reserved = (R \cup (IF allocates THEN {b} ELSE {})) \ (IF takes THEN {f} ELSE {})
  <2>1. alloc'.fifo = [front |-> IF ~takes THEN f ELSE Incr(n, f),
                       back |-> IF allocates THEN Incr(n, b) ELSE b,
                       reserved |-> (R \cup (IF allocates THEN {b} ELSE {}))
                                    \ (IF ~takes THEN {} ELSE {f})]
    BY <1>1, <1>2, Zenon DEF FifoMove, Operands!FifoAfter, Operands!ModIncr, Incr
  <2> HIDE DEF takes, allocates
  <2> QED BY <2>1
<1> HIDE DEF takes, allocates
<1>10. ASSUME NEW e \in Held(k, "fifo")' PROVE e \in alloc'.fifo.reserved
  <2>1. \/ e \in R /\ ~(takes /\ e = f)
        \/ allocates /\ e = b
    <3>1. \/ e \in Held(k, "fifo") /\ ~Takes(k, take, "fifo", e)
          \/ Allocs(sel, "fifo") /\ e = Operands(k)!SelectedRow("fifo")
      BY <1>1, HeldMoves
    <3>2. Operands(k)!SelectedRow("fifo") = b
      BY <1>2 DEF Operands!SelectedRow
    <3> QED BY <1>3, <1>5, <3>1, <3>2 DEF allocates
  <2>2. allocates => b \notin R
    BY <1>7, <1>8
  <2> QED BY <1>6, <1>9, <2>1, <2>2
<1>11. Incr(n, f) \in 1 .. n /\ Incr(n, b) \in 1 .. n
  BY <1>3 DEF Incr
<1>12. Ring(n, alloc'.fifo.front, alloc'.fifo.back, alloc'.fifo.reserved)
  <2>1. Ring(n, IF takes THEN Incr(n, f) ELSE f, IF allocates THEN Incr(n, b) ELSE b,
             (R \cup (IF allocates THEN {b} ELSE {})) \ (IF takes THEN {f} ELSE {}))
    BY ONLY <1>3, <1>4, <1>6, <1>7, n \in Nat \ {0}, RingStep
  <2> QED BY <1>9, <2>1
<1> QED BY <1>1, <1>3, <1>9, <1>10, <1>11, <1>12

\* The order of the rows after index x was taken.
Shifted(n, ord, x) == IF x = 0 THEN ord
                      ELSE [m \in 1 .. n |-> ord[IF m < x THEN m ELSE IF m < n THEN m + 1 ELSE x]]
OneToOne(n, ord) == \A l, m \in 1 .. n : ord[l] = ord[m] => l = m
\* Beyond u are the rows of before, and the one that was taken.
ShiftedBeyond(n, ord, x, u) ==
    \A m \in 1 .. n : m > u - (IF x = 0 THEN 0 ELSE 1) =>
        \/ x # 0 /\ Shifted(n, ord, x)[m] = ord[x] /\ m = n
        \/ \E l \in 1 .. n : /\ l > u /\ l = (IF x = 0 THEN m ELSE m + 1)
                             /\ Shifted(n, ord, x)[m] = ord[l]

LEMMA ShiftedOrder ==
    ASSUME NEW n \in Nat \ {0}, NEW ord \in [1 .. n -> 1 .. n], NEW x \in 0 .. n, NEW u \in 0 .. n,
           OneToOne(n, ord), x <= u
    PROVE  /\ Shifted(n, ord, x) \in [1 .. n -> 1 .. n] /\ OneToOne(n, Shifted(n, ord, x))
           /\ ShiftedBeyond(n, ord, x, u)
<1>1. CASE x = 0
  BY <1>1 DEF Shifted, OneToOne, ShiftedBeyond
<1>2. CASE x # 0
  <2> DEFINE at(m) == IF m < x THEN m ELSE IF m < n THEN m + 1 ELSE x
             s == Shifted(n, ord, x)
  <2>1. s = [m \in 1 .. n |-> ord[at(m)]]
    BY <1>2 DEF Shifted
  <2>2. ASSUME NEW m \in 1 .. n PROVE at(m) \in 1 .. n
    BY <1>2
  <2>3. ASSUME NEW l \in 1 .. n, NEW m \in 1 .. n, at(l) = at(m) PROVE l = m
    BY <1>2, <2>3
  <2>4. ASSUME NEW m \in 1 .. n, m > u - 1
        PROVE  (at(m) = x /\ m = n) \/ (at(m) = m + 1 /\ m + 1 \in 1 .. n /\ m + 1 > u)
    BY <1>2, <2>4
  <2> HIDE DEF at, s
  <2>5. \A m \in 1 .. n : s[m] = ord[at(m)]
    BY <2>1
  <2>6. s \in [1 .. n -> 1 .. n]
    BY <2>1, <2>2
  <2>7. \A l, m \in 1 .. n : s[l] = s[m] => l = m
    BY <2>2, <2>3, <2>5 DEF OneToOne
  <2>8. ASSUME NEW m \in 1 .. n, m > u - 1
        PROVE  \/ s[m] = ord[x] /\ m = n
               \/ \E l \in 1 .. n : l > u /\ l = m + 1 /\ s[m] = ord[l]
    BY <2>4, <2>5, <2>8
  <2> QED BY <1>2, <2>6, <2>7, <2>8 DEF s, OneToOne, ShiftedBeyond
<1> QED BY <1>1, <1>2

LEMMA MainHeld ==
    ASSUME NEW CONSTANT k, Operands(k)!OperandAssumption, CoreTypes(k), UnitTypes(k),
           RowsHeld(k), NEW take, TakesOK(k, take), take["main"] \in 0 .. k.rows,
           NEW ann \in SUBSET Operands(k)!Ids,
           RowsMove(k, take, ann), NEW sel, SelectionOK(k, sel), picked' = sel, MainMove(k, take, sel)
    PROVE  /\ alloc'.main.order \in [Operands(k)!Rows -> Operands(k)!Rows]
           /\ \A l, m \in Operands(k)!Rows : alloc'.main.order[l] = alloc'.main.order[m] => l = m
           /\ alloc'.main.used \in 0 .. k.rows
           /\ \A m \in Operands(k)!Rows :
                 m > alloc'.main.used => alloc'.main.order[m] \notin Held(k, "main")'
<1>1. PICK n \in Nat \ {0} : n = k.rows /\ Operands(k)!Rows = 1 .. n /\ "main" \in Operands(k)!RSs
  BY OdConstants
<1>2. PICK ord, u, x : ord = alloc.main.order /\ u = alloc.main.used /\ x = take["main"]
  OBVIOUS
<1>3. /\ ord \in [1 .. n -> 1 .. n] /\ \A l, m \in 1 .. n : ord[l] = ord[m] => l = m
      /\ u \in 0 .. n /\ \A m \in 1 .. n : m > u => ord[m] \notin Held(k, "main")
      /\ x \in 0 .. n
  BY <1>1, <1>2 DEF RowsHeld
<1> DEFINE allocates == Allocs(sel, "main")
           uu == (u + (IF allocates THEN 1 ELSE 0)) - (IF x = 0 THEN 0 ELSE 1)
<1>4. \A e : Takes(k, take, "main", e) <=> x # 0 /\ e = ord[x]
  BY <1>2 DEF Takes, Operands!TakenRow, Operands!Order
<1>5. x # 0 => x <= u /\ ord[x] \in Held(k, "main")
  <2> SUFFICES ASSUME x # 0 PROVE x <= u /\ ord[x] \in Held(k, "main")
    OBVIOUS
  <2>1. Takes(k, take, "main", ord[x])
    BY <1>4
  <2>2. ord[x] \in Held(k, "main")
    BY <1>1, <2>1, TakenAreFull DEF Held
  <2> QED BY <1>3, <2>2
<1>6. allocates => u < n
  <2>1. ASSUME NEW m \in DOMAIN sel, sel[m].rs = "main" PROVE Operands(k)!SelectReady("main")
    BY <2>1 DEF SelectionOK
  <2>2. Operands(k)!SelectReady("main") => u < n
    BY <1>1, <1>2 DEF Operands!SelectReady
  <2> QED BY <2>1, <2>2 DEF Allocs
<1>7. alloc'.main.order = Shifted(n, ord, x) /\ alloc'.main.used = uu
  <2>1. alloc'.main = [order |-> Shifted(n, ord, x), used |-> uu]
    BY <1>1, <1>2, Zenon DEF MainMove, Operands!MainAfter, Shifted
  <2> HIDE DEF uu
  <2> QED BY <2>1
<1>8. ASSUME NEW e \in Held(k, "main")'
      PROVE  \/ e \in Held(k, "main") /\ ~(x # 0 /\ e = ord[x])
             \/ allocates /\ e = ord[u + 1]
  <2>1. \/ e \in Held(k, "main") /\ ~Takes(k, take, "main", e)
        \/ Allocs(sel, "main") /\ e = Operands(k)!SelectedRow("main")
    BY <1>1, HeldMoves
  <2>2. Operands(k)!SelectedRow("main") = ord[u + 1]
    BY <1>2 DEF Operands!SelectedRow
  <2> QED BY <1>4, <2>1, <2>2
<1>9. uu \in 0 .. n
  BY <1>3, <1>5, <1>6
<1> DEFINE s == Shifted(n, ord, x)
           v == u - (IF x = 0 THEN 0 ELSE 1)
<1>10. /\ s \in [1 .. n -> 1 .. n] /\ \A l, m \in 1 .. n : s[l] = s[m] => l = m
       /\ \A m \in 1 .. n : m > v =>
             \/ x # 0 /\ s[m] = ord[x] /\ m = n
             \/ \E l \in 1 .. n : l > u /\ l = (IF x = 0 THEN m ELSE m + 1) /\ s[m] = ord[l]
  <2>1. x <= u
    BY <1>3, <1>5
  <2> HIDE DEF uu, allocates
  <2>2. OneToOne(n, ord) /\ ord \in [1 .. n -> 1 .. n] /\ u \in 0 .. n /\ x \in 0 .. n
    BY <1>3 DEF OneToOne
  <2>3. s \in [1 .. n -> 1 .. n] /\ OneToOne(n, s) /\ ShiftedBeyond(n, ord, x, u)
    BY ONLY <2>1, <2>2, n \in Nat \ {0}, ShiftedOrder
  <2> QED BY <2>3 DEF OneToOne, ShiftedBeyond
<1>11. uu >= v /\ (allocates => uu = v + 1)
  BY <1>3
<1>12. ASSUME NEW m \in 1 .. n, m > uu PROVE s[m] \notin Held(k, "main")'
  <2>1. m > v
    BY <1>3, <1>9, <1>11, <1>12
  <2>2. CASE x # 0 /\ s[m] = ord[x] /\ m = n
    <3>1. allocates => ord[x] # ord[u + 1]
      BY <1>3, <1>5, <1>6, <2>2
    <3> QED BY <1>8, <2>2, <3>1
  <2>3. CASE \E l \in 1 .. n : l > u /\ l = (IF x = 0 THEN m ELSE m + 1) /\ s[m] = ord[l]
    <3>1. PICK l \in 1 .. n : l > u /\ l = (IF x = 0 THEN m ELSE m + 1) /\ s[m] = ord[l]
      BY <2>3
    <3>2. ord[l] \notin Held(k, "main")
      BY <1>3, <3>1
    <3>3. allocates => ord[l] # ord[u + 1]
      <4> SUFFICES ASSUME allocates PROVE ord[l] # ord[u + 1]
        OBVIOUS
      <4>1. u + 1 \in 1 .. n /\ l # u + 1
        BY <1>3, <1>6, <1>12, <3>1
      <4> QED BY <1>3, <4>1
    <3> QED BY <1>8, <3>1, <3>2, <3>3
  <2> HIDE DEF s, v, uu, allocates
  <2> QED BY <1>10, <2>1, <2>2, <2>3
<1> HIDE DEF s, v, uu, allocates
<1>13. alloc'.main.order = s
  BY <1>7 DEF s
<1> QED BY <1>1, <1>7, <1>9, <1>10, <1>12, <1>13

LEMMA RowsMoveHeld ==
    ASSUME NEW CONSTANT k, Operands(k)!OperandAssumption, CoreTypes(k), UnitTypes(k),
           RowsHeld(k), NEW take, TakesOK(k, take), take["main"] \in 0 .. k.rows,
           NEW ann \in SUBSET Operands(k)!Ids,
           RowsMove(k, take, ann), NEW sel, SelectionOK(k, sel), picked' = sel,
           MainMove(k, take, sel), FifoMove(k, take, sel)
    PROVE  RowsHeld(k)'
<1>1. \A m, n \in DOMAIN sel : sel[m].rs = sel[n].rs => m = n
  BY DEF SelectionOK
<1>2. ASSUME NEW n \in DOMAIN sel PROVE ~rs'[sel[n].rs][sel[n].row].full
  <2>1. sel[n] \in Choices(k) /\ sel[n].row = Operands(k)!SelectedRow(sel[n].rs)
        /\ Operands(k)!SelectReady(sel[n].rs)
    BY DEF SelectionOK
  <2>2. PICK j \in Operands(k)!RSs, e \in Operands(k)!Rows : j = sel[n].rs /\ e = sel[n].row
    BY <2>1 DEF Choices
  <2>3. SUFFICES ASSUME rs'[j][e].full PROVE FALSE
    BY <2>2
  <2>4. RowStep(k, take, ann, j, e)
    BY StoredMoves
  <2>5. \/ \E m \in DOMAIN picked : picked[m].rs = j /\ picked[m].row = e
        \/ rs[j][e].full
    BY <2>3, <2>4, FullRow
  <2>6. e \in Held(k, j)
    BY <2>5 DEF Held
  <2>7. e = Operands(k)!SelectedRow(j) /\ Operands(k)!SelectReady(j)
    BY <2>1, <2>2
  <2>8. CASE j = "main"
    <3>1. PICK u \in 0 .. k.rows : u = alloc.main.used
      BY DEF RowsHeld
    <3>2. e = alloc.main.order[u + 1] /\ u < k.rows
      BY <2>7, <2>8, <3>1 DEF Operands!SelectedRow, Operands!SelectReady
    <3>3. u + 1 \in Operands(k)!Rows /\ u + 1 > u
      BY <3>1, <3>2, OdConstants
    <3>4. alloc.main.order[u + 1] \notin Held(k, "main")
      BY <3>1, <3>3 DEF RowsHeld
    <3> QED BY <2>6, <2>8, <3>2, <3>4
  <2>9. CASE j # "main"
    <3>1. j = "fifo"
      BY <2>9, OdConstants
    <3>2. e = alloc.fifo.back /\ alloc.fifo.reserved # Operands(k)!Rows
      BY <2>7, <2>9 DEF Operands!SelectedRow, Operands!SelectReady
    <3>3. PICK c \in Nat \ {0} : c = k.rows /\ Operands(k)!Rows = 1 .. c
      BY OdConstants
    <3>4. alloc.fifo.back \notin alloc.fifo.reserved
      <4>1. PICK f \in 1 .. c, b \in 1 .. c, R \in SUBSET (1 .. c) :
               f = alloc.fifo.front /\ b = alloc.fifo.back /\ R = alloc.fifo.reserved
        BY <3>3 DEF RowsHeld
      <4>2. Ring(c, f, b, R) /\ R # 1 .. c
        BY <3>2, <3>3, <4>1 DEF RowsHeld
      <4>3. b \notin R
        BY ONLY <4>2, c \in Nat \ {0}, f \in 1 .. c, b \in 1 .. c, R \in SUBSET (1 .. c), RingBack
      <4> QED BY <4>1, <4>3
    <3> QED BY <2>6, <3>1, <3>2, <3>4 DEF RowsHeld
  <2> QED BY <2>8, <2>9
<1>3. (\A m, n \in DOMAIN picked : picked[m].rs = picked[n].rs => m = n)'
  BY <1>1
<1>4. (\A n \in DOMAIN picked : ~rs[picked[n].rs][picked[n].row].full)'
  BY <1>2
<1> QED BY <1>3, <1>4, MainHeld, FifoHeld DEF RowsHeld, Operands!Rows

-----------------------------------------------------------------------------
(***************************************************************************)
(* The rest of the core in a cycle.                                        *)
(***************************************************************************)
\* The instruction i that is renamed.
NewOK(k, i) ==
    /\ i \in Instrs(k) /\ next \in Operands(k)!Ids
    /\ i.s1 \in {0, frat} /\ i.s2 \in {0, frat} /\ (i.dst = 0 \/ i.dst \in freelist)
    /\ i.mis => i.dst = 0 /\ ~wrongpath /\ ~flushing
    /\ i.wrong <=> (wrongpath \/ flushing)
    /\ i.want1 = Operands(k)!Producer(i.s1) /\ i.want2 = Operands(k)!Producer(i.s2)

LEMMA ProducerType ==
    ASSUME NEW CONSTANT k, Operands(k)!OperandAssumption, UnitTypes(k), NEW p \in Operands(k)!Phys
    PROVE  Operands(k)!Producer(p) \in 0 .. k.instrs
<1>1. \A i \in Operands(k)!Ids : i \in 0 .. k.instrs
  BY OdConstants
<1>2. entries[p] \in 0 .. k.instrs
  BY DEF UnitTypes
<1> QED BY <1>1, <1>2 DEF Operands!Producer

LEMMA FreeIsFree ==
    ASSUME NEW CONSTANT k, Operands(k)!OperandAssumption, CoreTypes(k)
    PROVE  Operands(k)!NextFree = 0 \/ Operands(k)!NextFree \in freelist
<1>1. freelist \in SUBSET Nat
  BY OdConstants DEF CoreTypes
<1>2. CASE freelist # {}
  <2>1. \E x \in freelist : \A y \in freelist : x <= y
    BY <1>1, <1>2, LeastElement
  <2>2. Operands(k)!NextFree = CHOOSE x \in freelist : \A y \in freelist : x <= y
    BY <1>2 DEF Operands!NextFree, Operands!Min
  <2> QED BY <2>1, <2>2
<1> QED BY <1>2 DEF Operands!NextFree

LEMMA NewFacts ==
    ASSUME NEW CONSTANT k, Operands(k)!OperandAssumption, CoreTypes(k), UnitTypes(k),
           NEW i \in Operands(k)!NewInstrs, Operands(k)!Dispatchable(i)
    PROVE  NewOK(k, i)
<1>0. k.mainOps \cup k.fifoOps \subseteq {"alu", "mem", "jb"}
  BY DEF Operands!OperandAssumption
<1>1. /\ frat \in Operands(k)!Phys /\ 0 \in Operands(k)!Phys
      /\ freelist \subseteq Operands(k)!Phys /\ wrongpath \in BOOLEAN /\ flushing \in BOOLEAN
  BY OdConstants DEF CoreTypes
<1>2. PICK op \in k.mainOps \cup k.fifoOps, s1 \in {0, frat}, s2 \in {0, frat}, dst \in {0, Operands(k)!NextFree} :
         i = [op |-> op, s1 |-> s1, s2 |-> s2, dst |-> dst, mis |-> op = "jb",
              wrong |-> wrongpath \/ flushing, want1 |-> Operands(k)!Producer(s1),
              want2 |-> Operands(k)!Producer(s2)]
  <2> DEFINE at(op, s1, s2, dst) ==
                [op |-> op, s1 |-> s1, s2 |-> s2, dst |-> dst, mis |-> op = "jb",
                 wrong |-> wrongpath \/ flushing, want1 |-> Operands(k)!Producer(s1),
                 want2 |-> Operands(k)!Producer(s2)]
  <2>1. Operands(k)!NewInstrs =
           {at(op, s1, s2, dst) : op \in k.mainOps \cup k.fifoOps, s1 \in {0, frat}, s2 \in {0, frat},
                                  dst \in {0, Operands(k)!NextFree}}
    BY DEF Operands!NewInstrs
  <2> HIDE DEF at
  <2>2. \E op \in k.mainOps \cup k.fifoOps, s1 \in {0, frat}, s2 \in {0, frat},
           dst \in {0, Operands(k)!NextFree} : i = at(op, s1, s2, dst)
    BY <2>1
  <2> QED BY <2>2, Zenon DEF at
<1>3. PICK mis \in BOOLEAN, wrong \in BOOLEAN,
           w1 \in {Operands(k)!Producer(s1)}, w2 \in {Operands(k)!Producer(s2)} :
         mis = (op = "jb") /\ wrong = (wrongpath \/ flushing)
  OBVIOUS
<1>4. i = [op |-> op, s1 |-> s1, s2 |-> s2, dst |-> dst, mis |-> mis, wrong |-> wrong, want1 |-> w1, want2 |-> w2]
  BY <1>2, <1>3, Zenon
<1>5. /\ i.op = op /\ i.s1 = s1 /\ i.s2 = s2 /\ i.dst = dst /\ i.mis = mis /\ i.wrong = wrong
      /\ i.want1 = w1 /\ i.want2 = w2
  BY ONLY <1>4
<1>6. s1 \in Operands(k)!Phys /\ s2 \in Operands(k)!Phys
  BY <1>1, <1>2
<1>7. w1 \in 0 .. k.instrs /\ w2 \in 0 .. k.instrs
  BY <1>3, <1>6, ProducerType
<1>8. dst = 0 \/ dst \in freelist
  BY <1>2, FreeIsFree
<1>9. dst \in Operands(k)!Phys
  BY <1>1, <1>8
<1>10. i \in Instrs(k)
  BY ONLY <1>0, <1>4, <1>6, <1>7, <1>9, op \in k.mainOps \cup k.fifoOps, mis \in BOOLEAN, wrong \in BOOLEAN DEF Instrs
<1>11. /\ next <= k.instrs /\ (i.op = "jb" => i.dst = 0 /\ ~wrongpath /\ ~flushing)
  BY DEF Operands!Dispatchable
<1>12. next \in Operands(k)!Ids
  BY <1>11, OdConstants DEF CoreTypes
<1>13. i.mis <=> op = "jb"
  BY <1>3, <1>5
<1>14. i.wrong <=> (wrongpath \/ flushing)
  BY <1>3, <1>5
<1> QED BY <1>3, <1>5, <1>8, <1>10, <1>11, <1>12, <1>13, <1>14 DEF NewOK

\* The instruction that leaves the reorder buffer.
RetiresOK(retires, traps) ==
    /\ retires \in BOOLEAN /\ traps \in BOOLEAN
    /\ retires => rob # <<>> /\ Head(rob) \in odDone
    /\ traps => retires /\ ~flushing /\ Head(rob) \notin inactive

LEMMA RetiresFacts ==
    ASSUME NEW CONSTANT k, NEW retires, NEW traps, <<retires, traps>> \in Operands(k)!RetireChoices
    PROVE  RetiresOK(retires, traps)
<1>1. \/ <<retires, traps>> = <<FALSE, FALSE>>
      \/ /\ rob # <<>> /\ Head(rob) \in odDone
         /\ \/ <<retires, traps>> = <<TRUE, FALSE>>
            \/ /\ <<retires, traps>> = <<TRUE, TRUE>>
               /\ ~flushing /\ Head(rob) \notin inactive
  BY Zenon DEF Operands!RetireChoices
<1>2. ASSUME NEW a, NEW b, <<retires, traps>> = <<a, b>> PROVE retires = a /\ traps = b
  BY <1>2
<1> QED BY <1>1, <1>2 DEF RetiresOK

Commits(retires, traps) == retires /\ ~flushing /\ ~traps /\ Head(rob) \notin inactive

CoreMove(k, new, ann, retires, traps) ==
    /\ new = <<>> => next' = next
    /\ new # <<>> => next' = next + 1
    /\ \A i \in Operands(k)!Ids : instr'[i] =
          IF new # <<>> /\ i = next THEN new[1]
          ELSE IF retires /\ i = Head(rob) THEN Operands(k)!NoInstr ELSE instr[i]
    /\ inactive' = (IF Operands(k)!RollsBack(ann)
                    THEN inactive \cup {i \in Operands(k)!Ids : instr[i].wrong} ELSE inactive)
                   \ GoneIds(retires)
    /\ rrat' = IF Commits(retires, traps) /\ instr[Head(rob)].dst # 0 THEN instr[Head(rob)].dst ELSE rrat
    /\ frat' = IF Operands(k)!FlushEnds THEN rrat ELSE IF Operands(k)!RollsBack(ann) THEN saved
               ELSE IF new # <<>> /\ new[1].dst # 0 THEN new[1].dst ELSE frat
    /\ saved' = IF new # <<>> /\ new[1].mis THEN frat
                ELSE IF Operands(k)!RollsBack(ann) \/ Operands(k)!FlushEnds THEN 0 ELSE saved
    /\ wrongpath' <=> /\ ~(Operands(k)!RollsBack(ann) \/ Operands(k)!FlushEnds)
                      /\ wrongpath \/ (new # <<>> /\ new[1].mis)
    /\ flushing' <=> ~Operands(k)!FlushEnds /\ (flushing \/ traps)
    /\ freelist' = (freelist \ (IF new = <<>> THEN {} ELSE {new[1].dst})) \cup Operands(k)!Freed(retires, traps)

\* A cycle renames one instruction, and only without a rollback, or none.
NewsOK(k, new, ann) ==
    \/ new = <<>>
    \/ /\ ~Operands(k)!FlushEnds /\ ~Operands(k)!RollsBack(ann)
       /\ Len(new) = 1 /\ new # <<>> /\ NewOK(k, new[1])

LEMMA NewsFacts ==
    ASSUME NEW CONSTANT k, Operands(k)!OperandAssumption, CoreTypes(k), UnitTypes(k),
           NEW new, NEW sel, NEW take, NEW ann, NEW retires, NEW traps,
           Happens(k, new, sel, take, ann, retires, traps)
    PROVE  NewsOK(k, new, ann)
<1>1. CASE new = <<>>
  BY <1>1 DEF NewsOK
<1>2. CASE new # <<>>
  <2>1. /\ ~Operands(k)!FlushEnds /\ ~Operands(k)!RollsBack(ann)
        /\ \E i \in Operands(k)!NewInstrs : Operands(k)!Dispatchable(i) /\ new = <<i>>
    BY <1>2 DEF Happens
  <2>2. PICK i \in Operands(k)!NewInstrs : Operands(k)!Dispatchable(i) /\ new = <<i>>
    BY <2>1
  <2>3. NewOK(k, i)
    BY <2>2, NewFacts
  <2>4. Len(new) = 1 /\ new[1] = i
    BY <2>2
  <2> QED BY <1>2, <2>1, <2>3, <2>4 DEF NewsOK
<1> QED BY <1>1, <1>2

LEMMA CoreMoves ==
    ASSUME NEW CONSTANT k, Operands(k)!OperandAssumption, CoreTypes(k), UnitTypes(k),
           NEW new, NEW sel, NEW take, NEW ann, NEW retires, NEW traps,
           Happens(k, new, sel, take, ann, retires, traps),
           NewsOK(k, new, ann), RetiresOK(retires, traps)
    PROVE  /\ CoreMove(k, new, ann, retires, traps)
           /\ instr' \in [Operands(k)!Ids -> Instrs(k)]
           /\ rob' = LET older == IF retires THEN Tail(rob) ELSE rob
                     IN  IF new = <<>> THEN older ELSE Append(older, next)
           /\ odDone' = (odDone \cup ann) \ GoneIds(retires)
           /\ wrongpath' \in BOOLEAN /\ flushing' \in BOOLEAN
<1>1. Operands(k)!Rest(new, ann, retires, traps)
  BY DEF Happens, Operands!Cycle
<1>2. /\ Len(new) = IF new = <<>> THEN 0 ELSE 1
      /\ next \in Nat /\ instr \in [Operands(k)!Ids -> Instrs(k)]
      /\ wrongpath \in BOOLEAN /\ flushing \in BOOLEAN
  BY OdConstants DEF NewsOK, CoreTypes
<1>3. new # <<>> => next \in Operands(k)!Ids /\ new[1] \in Instrs(k)
  BY DEF NewsOK, NewOK
<1>4. retires => Head(rob) \in Operands(k)!Ids
  BY FlightOrder DEF RetiresOK
<1>5. Operands(k)!NoInstr \in Instrs(k)
  BY OdConstants DEF Operands!NoInstr, Instrs
<1>6. next' = next + Len(new)
  BY <1>1, Zenon DEF Operands!Rest
<1>7. instr' = IF new = <<>> THEN (IF retires THEN [instr EXCEPT ![Head(rob)] = Operands(k)!NoInstr] ELSE instr)
               ELSE [(IF retires THEN [instr EXCEPT ![Head(rob)] = Operands(k)!NoInstr] ELSE instr)
                      EXCEPT ![next] = new[1]]
  BY <1>1, Zenon DEF Operands!Rest
<1>8. /\ instr' \in [Operands(k)!Ids -> Instrs(k)]
      /\ \A i \in Operands(k)!Ids : instr'[i] =
            IF new # <<>> /\ i = next THEN new[1]
            ELSE IF retires /\ i = Head(rob) THEN Operands(k)!NoInstr ELSE instr[i]
  <2>1. PICK kept : kept = IF retires THEN [instr EXCEPT ![Head(rob)] = Operands(k)!NoInstr] ELSE instr
    OBVIOUS
  <2>2. /\ kept \in [Operands(k)!Ids -> Instrs(k)]
        /\ \A i \in Operands(k)!Ids :
              kept[i] = IF retires /\ i = Head(rob) THEN Operands(k)!NoInstr ELSE instr[i]
    BY <1>2, <1>4, <1>5, <2>1
  <2>3. instr' = IF new = <<>> THEN kept ELSE [kept EXCEPT ![next] = new[1]]
    BY <1>7, <2>1, Zenon
  <2> QED BY <1>3, <2>2, <2>3
<1>9. inactive' = (IF Operands(k)!RollsBack(ann)
                   THEN inactive \cup {i \in Operands(k)!Ids : instr[i].wrong} ELSE inactive)
                  \ GoneIds(retires)
  BY <1>1, Zenon DEF Operands!Rest, GoneIds
<1>10. rrat' = IF Commits(retires, traps) /\ instr[Head(rob)].dst # 0 THEN instr[Head(rob)].dst ELSE rrat
  BY <1>1, Zenon DEF Operands!Rest, Commits
<1>11. /\ frat' = IF Operands(k)!FlushEnds THEN rrat ELSE IF Operands(k)!RollsBack(ann) THEN saved
                  ELSE IF new # <<>> /\ new[1].dst # 0 THEN new[1].dst ELSE frat
       /\ saved' = IF new # <<>> /\ new[1].mis THEN frat
                   ELSE IF Operands(k)!RollsBack(ann) \/ Operands(k)!FlushEnds THEN 0 ELSE saved
  BY <1>1, Zenon DEF Operands!Rest
<1>12. /\ wrongpath' = IF Operands(k)!RollsBack(ann) \/ Operands(k)!FlushEnds THEN FALSE
                       ELSE wrongpath \/ (new # <<>> /\ new[1].mis)
       /\ flushing' = IF Operands(k)!FlushEnds THEN FALSE ELSE flushing \/ traps
  BY <1>1, Zenon DEF Operands!Rest
<1>13. /\ freelist' = (freelist \ (IF new = <<>> THEN {} ELSE {new[1].dst})) \cup Operands(k)!Freed(retires, traps)
       /\ odDone' = (odDone \cup ann) \ GoneIds(retires)
  BY <1>1, Zenon DEF Operands!Rest, GoneIds
<1>14. rob' = LET older == IF retires THEN Tail(rob) ELSE rob
              IN  IF new = <<>> THEN older ELSE Append(older, next)
  BY <1>1, Zenon DEF Operands!Rest
<1>15. (new = <<>> => next' = next) /\ (new # <<>> => next' = next + 1)
  BY <1>2, <1>6
<1>16. /\ wrongpath' <=> /\ ~(Operands(k)!RollsBack(ann) \/ Operands(k)!FlushEnds)
                         /\ wrongpath \/ (new # <<>> /\ new[1].mis)
       /\ flushing' <=> ~Operands(k)!FlushEnds /\ (flushing \/ traps)
  BY <1>12
<1>17. wrongpath' \in BOOLEAN /\ flushing' \in BOOLEAN
  BY <1>2, <1>12
<1> QED BY <1>17, <1>8, <1>9, <1>10, <1>11, <1>13, <1>14, <1>15, <1>16, Zenon DEF CoreMove

\* A sequence of the newest instructions before number m.
Newest(K, q, m) == /\ q \in Seq(1 .. K) /\ Len(q) < m
                   /\ \A n \in 1 .. Len(q) : q[n] = m - 1 - Len(q) + n

LEMMA NewestTail ==
    ASSUME NEW K \in Nat, NEW m \in 1 .. K + 1, NEW q, Newest(K, q, m), q # <<>>
    PROVE  /\ Newest(K, Tail(q), m) /\ Len(Tail(q)) = Len(q) - 1 /\ Len(q) # 0
           /\ Head(q) = m - Len(q)
<1>1. q \in Seq(1 .. K) /\ Len(q) \in Nat /\ Len(q) < m
  BY DEF Newest
<1>2. Len(q) # 0
  BY <1>1, EmptySeq
<1>3. /\ Tail(q) \in Seq(1 .. K) /\ Len(Tail(q)) = Len(q) - 1 /\ Head(q) = q[1]
      /\ \A n \in 1 .. Len(q) - 1 : Tail(q)[n] = q[n + 1]
  BY <1>1, <1>2
<1>4. \A n \in 1 .. Len(q) : q[n] = m - 1 - Len(q) + n
  BY DEF Newest
<1>5. ASSUME NEW n \in 1 .. Len(q) - 1 PROVE Tail(q)[n] = m - 1 - (Len(q) - 1) + n
  <2>1. n + 1 \in 1 .. Len(q) /\ Tail(q)[n] = q[n + 1]
    BY <1>1, <1>3
  <2>2. q[n + 1] = m - 1 - Len(q) + (n + 1)
    BY <1>4, <2>1
  <2> QED BY <1>1, <2>1, <2>2
<1>6. q[1] = m - Len(q)
  BY <1>1, <1>2, <1>4
<1>7. Newest(K, Tail(q), m)
  BY <1>1, <1>3, <1>5 DEF Newest
<1> QED BY <1>2, <1>3, <1>6, <1>7

LEMMA NewestAppend ==
    ASSUME NEW K \in Nat, NEW m \in 1 .. K, NEW q, Newest(K, q, m)
    PROVE  Newest(K, Append(q, m), m + 1) /\ Len(Append(q, m)) = Len(q) + 1
<1>1. q \in Seq(1 .. K) /\ Len(q) \in Nat /\ Len(q) < m
  BY DEF Newest
<1>2. /\ Append(q, m) \in Seq(1 .. K) /\ Len(Append(q, m)) = Len(q) + 1
      /\ \A n \in 1 .. Len(q) : Append(q, m)[n] = q[n]
      /\ Append(q, m)[Len(q) + 1] = m
  BY <1>1
<1>3. \A n \in 1 .. Len(q) : q[n] = m - 1 - Len(q) + n
  BY DEF Newest
<1>4. ASSUME NEW n \in 1 .. Len(q) + 1 PROVE Append(q, m)[n] = (m + 1) - 1 - (Len(q) + 1) + n
  <2>1. CASE n = Len(q) + 1
    BY <1>1, <1>2, <2>1
  <2>2. CASE n # Len(q) + 1
    <3>1. n \in 1 .. Len(q)
      BY <1>1, <2>2
    <3> QED BY <1>1, <1>2, <1>3, <3>1
  <2> QED BY <2>1, <2>2
<1> QED BY <1>1, <1>2, <1>4 DEF Newest

LEMMA NewestRange ==
    ASSUME NEW K \in Nat, NEW m \in 1 .. K + 1, NEW q, Newest(K, q, m)
    PROVE  /\ {q[n] : n \in DOMAIN q} = m - Len(q) .. m - 1 /\ Len(q) \in Nat /\ Len(q) < m
           /\ DOMAIN q = 1 .. Len(q)
<1>1. Len(q) \in Nat /\ DOMAIN q = 1 .. Len(q) /\ Len(q) < m
  BY DEF Newest
<1>2. \A n \in 1 .. Len(q) : q[n] = m - 1 - Len(q) + n
  BY DEF Newest
<1>3. ASSUME NEW i \in m - Len(q) .. m - 1 PROVE \E n \in 1 .. Len(q) : q[n] = i
  <2>1. i - (m - 1 - Len(q)) \in 1 .. Len(q)
    BY <1>1
  <2>2. q[i - (m - 1 - Len(q))] = m - 1 - Len(q) + (i - (m - 1 - Len(q)))
    BY <1>2, <2>1
  <2>3. m - 1 - Len(q) + (i - (m - 1 - Len(q))) = i
    BY <1>1
  <2> QED BY <2>1, <2>2, <2>3
<1>4. ASSUME NEW n \in 1 .. Len(q) PROVE q[n] \in m - Len(q) .. m - 1
  <2>1. q[n] = m - 1 - Len(q) + n
    BY <1>2
  <2> QED BY <1>1, <2>1
<1>5. {q[n] : n \in DOMAIN q} = {q[n] : n \in 1 .. Len(q)}
  BY <1>1
<1>6. {q[n] : n \in 1 .. Len(q)} = m - Len(q) .. m - 1
  BY ONLY <1>3, <1>4
<1> QED BY <1>1, <1>5, <1>6

LEMMA RobMoves ==
    ASSUME NEW CONSTANT k, Operands(k)!OperandAssumption, CoreTypes(k), NEW new, NEW retires,
           retires => rob # <<>>, new # <<>> => next \in Operands(k)!Ids,
           new = <<>> => next' = next, new # <<>> => next' = next + 1,
           rob' = LET older == IF retires THEN Tail(rob) ELSE rob
                  IN  IF new = <<>> THEN older ELSE Append(older, next)
    PROVE  /\ next' \in 1 .. k.instrs + 1 /\ rob' \in Seq(Operands(k)!Ids) /\ Len(rob') < next'
           /\ \A n \in DOMAIN rob' : rob'[n] = next' - 1 - Len(rob') + n
           /\ InFlight' = (InFlight \ GoneIds(retires)) \cup NewIds(new)
<1>1. k.instrs \in Nat /\ Operands(k)!Ids = 1 .. k.instrs /\ next \in 1 .. k.instrs + 1
  BY OdConstants DEF CoreTypes
<1>2. Newest(k.instrs, rob, next)
  BY <1>1 DEF CoreTypes, Newest
<1>3. PICK older : older = IF retires THEN Tail(rob) ELSE rob
  OBVIOUS
<1>4. PICK q, mm : q = rob' /\ mm = next'
  OBVIOUS
<1>11. /\ new = <<>> => q = older /\ mm = next
       /\ new # <<>> => q = Append(older, next) /\ mm = next + 1
  BY <1>3, <1>4
<1>5. /\ Newest(k.instrs, older, next) /\ Len(older) \in Nat /\ Len(rob) \in Nat
      /\ retires => Len(older) = Len(rob) - 1 /\ Head(rob) = next - Len(rob) /\ Len(rob) # 0
      /\ ~retires => Len(older) = Len(rob)
  <2>1. Newest(k.instrs, older, next)
    BY <1>1, <1>2, <1>3, NewestTail
  <2>2. Len(older) \in Nat /\ Len(rob) \in Nat
    BY <1>2, <2>1 DEF Newest
  <2>3. retires => Len(older) = Len(rob) - 1 /\ Head(rob) = next - Len(rob) /\ Len(rob) # 0
    BY <1>1, <1>2, <1>3, NewestTail
  <2> QED BY <1>3, <2>1, <2>2, <2>3
<1>6. /\ Newest(k.instrs, q, mm) /\ mm \in 1 .. k.instrs + 1
      /\ new = <<>> => Len(q) = Len(older) /\ mm = next
      /\ new # <<>> => Len(q) = Len(older) + 1 /\ mm = next + 1
  <2>1. CASE new = <<>>
    <3>1. q = older /\ mm = next
      BY <1>11, <2>1
    <3> QED BY <1>1, <1>5, <2>1, <3>1
  <2>2. CASE new # <<>>
    <3>1. q = Append(older, next) /\ mm = next + 1 /\ next \in 1 .. k.instrs
      BY <1>1, <1>11, <2>2
    <3>2. Newest(k.instrs, Append(older, next), next + 1) /\ Len(Append(older, next)) = Len(older) + 1
      BY <1>1, <1>5, <3>1, NewestAppend
    <3>3. Newest(k.instrs, q, mm) /\ Len(q) = Len(older) + 1
      BY ONLY <3>1, <3>2
    <3> QED BY <1>1, <2>2, <3>1, <3>3
  <2> QED BY <2>1, <2>2
<1>7. InFlight = next - Len(rob) .. next - 1 /\ Len(rob) < next
  BY <1>1, <1>2, NewestRange DEF InFlight
<1>8. InFlight' = mm - Len(q) .. mm - 1 /\ DOMAIN q = 1 .. Len(q)
  <2>1. InFlight' = {q[n] : n \in DOMAIN q}
    BY <1>4 DEF InFlight
  <2>2. {q[n] : n \in DOMAIN q} = mm - Len(q) .. mm - 1 /\ DOMAIN q = 1 .. Len(q)
    BY ONLY <1>1, <1>6, NewestRange
  <2> QED BY <2>1, <2>2
<1>9. InFlight' = (InFlight \ GoneIds(retires)) \cup NewIds(new)
  <2>1. PICK l \in Nat, m \in Nat : l = Len(rob) /\ m = next /\ l < m
    BY <1>1, <1>5, <1>7
  <2>2. InFlight = m - l .. m - 1
    BY <1>7, <2>1
  <2>3. GoneIds(retires) = (IF retires THEN {m - l} ELSE {}) /\ (retires => l # 0)
    BY <1>5, <2>1 DEF GoneIds
  <2>4. NewIds(new) = IF new = <<>> THEN {} ELSE {m}
    BY <2>1 DEF NewIds
  <2>5. InFlight' = (IF retires THEN (m - l) + 1 ELSE m - l) .. (IF new = <<>> THEN m - 1 ELSE m)
    <3>1. Len(older) = IF retires THEN l - 1 ELSE l
      BY <1>5, <2>1
    <3>2. /\ new = <<>> => Len(q) = Len(older) /\ mm = m
          /\ new # <<>> => Len(q) = Len(older) + 1 /\ mm = m + 1
      BY <1>6, <2>1
    <3>3. /\ mm - Len(q) = IF retires THEN (m - l) + 1 ELSE m - l
          /\ mm - 1 = IF new = <<>> THEN m - 1 ELSE m
      <4>1. Len(older) \in Nat
        BY <1>5
      <4>2. CASE new = <<>>
        BY <3>1, <3>2, <4>1, <4>2
      <4>3. CASE new # <<>>
        BY <3>1, <3>2, <4>1, <4>3
      <4> QED BY <4>2, <4>3
    <3> QED BY <1>8, <3>3
  <2> QED BY ONLY <2>2, <2>3, <2>4, <2>5, l \in Nat, m \in Nat, <2>1
<1>10. rob' \in Seq(Operands(k)!Ids) /\ Len(rob') < next'
       /\ \A n \in DOMAIN rob' : rob'[n] = next' - 1 - Len(rob') + n
  BY <1>1, <1>4, <1>6, <1>8 DEF Newest
<1> QED BY <1>4, <1>6, <1>9, <1>10

\* What the register file holds after the cycle.
FileMove(k, ann, retires, traps) ==
    /\ \A p \in Operands(k)!Phys :
          p \in valids' <=> (p \in valids \/ Writes(k, ann, p)) /\ p \notin Operands(k)!Freed(retires, traps)
    /\ \A p \in Operands(k)!Phys :
          entries'[p] = IF Writes(k, ann, p) THEN Writer(k, ann, p) ELSE entries[p]

LEMMA FileMoves ==
    ASSUME NEW CONSTANT k, Operands(k)!OperandAssumption, CoreTypes(k), UnitTypes(k),
           NEW ann \in SUBSET Operands(k)!Ids, NEW retires, NEW traps,
           valids' = Operands(k)!ValidsAfter(ann, Operands(k)!Freed(retires, traps)),
           entries' = Operands(k)!EntriesAfter(ann)
    PROVE  /\ FileMove(k, ann, retires, traps)
           /\ valids' \subseteq Operands(k)!Phys /\ 0 \in valids'
           /\ entries' \in [Operands(k)!Phys -> 0 .. k.instrs] /\ entries'[0] = 0
<1>1. /\ Operands(k)!Ids = 1 .. k.instrs /\ k.instrs \in Nat /\ 0 \in Operands(k)!Phys
      /\ instr \in [Operands(k)!Ids -> Instrs(k)] /\ valids \subseteq Operands(k)!Phys /\ 0 \in valids
      /\ entries \in [Operands(k)!Phys -> 0 .. k.instrs] /\ entries[0] = 0
  BY OdConstants DEF CoreTypes, UnitTypes
<1>2. ASSUME NEW i \in Operands(k)!Ids PROVE instr[i].dst \in Operands(k)!Phys
  <2>1. instr[i] \in Instrs(k)
    BY <1>1
  <2> QED BY <2>1 DEF Instrs
<1>3. \A p : p \in Operands(k)!Written(ann) <=> Writes(k, ann, p)
  BY DEF Operands!Written, Writes, Operands!Writers
<1>4. Operands(k)!Written(ann) \subseteq Operands(k)!Phys
  BY <1>2 DEF Operands!Written
<1>5. ~Writes(k, ann, 0) /\ 0 \notin Operands(k)!Freed(retires, traps)
  BY DEF Writes, Operands!Writers, Operands!Freed
<1>6. /\ valids' \subseteq Operands(k)!Phys /\ 0 \in valids'
      /\ \A p : p \in valids' <=> (p \in valids \/ Writes(k, ann, p)) /\ p \notin Operands(k)!Freed(retires, traps)
  BY <1>1, <1>3, <1>4, <1>5 DEF Operands!ValidsAfter
<1>7. entries' = [p \in Operands(k)!Phys |-> IF ~Writes(k, ann, p) THEN entries[p] ELSE Writer(k, ann, p)]
  BY DEF Operands!EntriesAfter, Writes, Writer
<1>8. ASSUME NEW p, Writes(k, ann, p) PROVE Writer(k, ann, p) \in 0 .. k.instrs
  <2>1. Writer(k, ann, p) \in 1 .. k.instrs
    BY <1>1, <1>8, WriterFacts
  <2> QED BY <1>1, <2>1
<1>9. entries' \in [Operands(k)!Phys -> 0 .. k.instrs] /\ entries'[0] = 0
  BY <1>1, <1>5, <1>7, <1>8
<1> QED BY <1>6, <1>7, <1>9 DEF FileMove

LEMMA CoreTypesMove ==
    ASSUME NEW CONSTANT k, Operands(k)!OperandAssumption, CoreTypes(k), UnitTypes(k),
           NEW new, NEW sel, NEW take, NEW ann, NEW retires, NEW traps,
           Happens(k, new, sel, take, ann, retires, traps),
           NewsOK(k, new, ann), RetiresOK(retires, traps)
    PROVE  CoreTypes(k)'
<1>1. /\ CoreMove(k, new, ann, retires, traps)
      /\ instr' \in [Operands(k)!Ids -> Instrs(k)]
      /\ rob' = LET older == IF retires THEN Tail(rob) ELSE rob
                IN  IF new = <<>> THEN older ELSE Append(older, next)
      /\ wrongpath' \in BOOLEAN /\ flushing' \in BOOLEAN
  BY CoreMoves
<1>2. new # <<>> => next \in Operands(k)!Ids
  BY DEF NewsOK, NewOK
<1>3. /\ next' \in 1 .. k.instrs + 1 /\ rob' \in Seq(Operands(k)!Ids) /\ Len(rob') < next'
      /\ \A n \in DOMAIN rob' : rob'[n] = next' - 1 - Len(rob') + n
      /\ InFlight' = (InFlight \ GoneIds(retires)) \cup NewIds(new)
  <2>1. (new = <<>> => next' = next) /\ (new # <<>> => next' = next + 1) /\ (retires => rob # <<>>)
    BY <1>1 DEF CoreMove, RetiresOK
  <2> QED BY <1>1, <1>2, <2>1, RobMoves
<1>4. /\ \A i \in Operands(k)!Ids : instr'[i] =
            IF new # <<>> /\ i = next THEN new[1]
            ELSE IF retires /\ i = Head(rob) THEN Operands(k)!NoInstr ELSE instr[i]
      /\ instr \in [Operands(k)!Ids -> Instrs(k)]
      /\ \A i \in Operands(k)!Ids \ InFlight : instr[i] = Operands(k)!NoInstr
      /\ \A i \in Operands(k)!Ids : instr[i].mis => instr[i].dst = 0
      /\ inactive \subseteq InFlight /\ \A i \in inactive : instr[i].wrong
      /\ InFlight \subseteq Operands(k)!Ids /\ next \notin InFlight
      /\ Operands(k)!NoInstr.wrong = FALSE /\ Operands(k)!NoInstr.mis = FALSE
  BY <1>1, FlightOrder DEF CoreMove, CoreTypes, Operands!NoInstr
<1>5. \A i \in Operands(k)!Ids \ InFlight' : instr'[i] = Operands(k)!NoInstr
  BY <1>3, <1>4 DEF GoneIds, NewIds
<1>6. \A i \in Operands(k)!Ids : instr'[i].mis => instr'[i].dst = 0
  <2>1. new # <<>> => (new[1].mis => new[1].dst = 0)
    BY DEF NewsOK, NewOK
  <2> QED BY <1>4, <2>1
<1>7. \A i \in Operands(k)!Ids : instr[i].wrong => i \in InFlight
  BY <1>4
<1>8. \A i \in inactive' : (i \in inactive \/ (i \in Operands(k)!Ids /\ instr[i].wrong)) /\ i \notin GoneIds(retires)
  BY <1>1 DEF CoreMove
<1>9. inactive' \subseteq InFlight'
  BY <1>3, <1>4, <1>7, <1>8
<1>10. ASSUME NEW i \in inactive' PROVE instr'[i].wrong
  <2>1. i \in InFlight /\ i \notin GoneIds(retires) /\ instr[i].wrong
    BY <1>4, <1>7, <1>8
  <2>2. i # next /\ ~(retires /\ i = Head(rob))
    BY <1>4, <2>1 DEF GoneIds
  <2>3. instr'[i] = instr[i]
    BY <1>4, <2>1, <2>2
  <2> QED BY <2>1, <2>3
<1>11. /\ frat \in Operands(k)!Phys /\ rrat \in Operands(k)!Phys /\ saved \in Operands(k)!Phys
       /\ 0 \in Operands(k)!Phys /\ freelist \subseteq 1 .. k.regs
       /\ Operands(k)!Phys = 0 .. k.regs /\ k.regs \in Nat
  BY OdConstants DEF CoreTypes
<1>12. ASSUME NEW i \in Operands(k)!Ids PROVE instr[i].dst \in Operands(k)!Phys
  <2>1. instr[i] \in Instrs(k)
    BY <1>4
  <2> QED BY <2>1 DEF Instrs
<1>13. new # <<>> => new[1].dst \in Operands(k)!Phys
  <2>1. new # <<>> => new[1] \in Instrs(k)
    BY DEF NewsOK, NewOK
  <2> QED BY <2>1 DEF Instrs
<1>14. retires => Head(rob) \in Operands(k)!Ids
  BY FlightOrder DEF RetiresOK
<1>15. /\ frat' \in Operands(k)!Phys /\ saved' \in Operands(k)!Phys
  BY <1>1, <1>11, <1>13 DEF CoreMove
<1>16. rrat' \in Operands(k)!Phys
  BY <1>1, <1>11, <1>12, <1>14 DEF CoreMove, Commits
<1>17. Operands(k)!Freed(retires, traps) \subseteq 1 .. k.regs
  BY <1>11, <1>12, <1>14 DEF Operands!Freed
<1>18. freelist' \subseteq 1 .. k.regs
  BY <1>1, <1>11, <1>17 DEF CoreMove
<1> QED BY <1>1, <1>3, <1>5, <1>6, <1>9, <1>10, <1>15, <1>16, <1>18
       DEF CoreTypes, Operands!Ids, Operands!Phys, Operands!NoInstr, Instrs

-----------------------------------------------------------------------------
(***************************************************************************)
(* What holds of every cycle from a state of the invariant.                *)
(***************************************************************************)
Placed(k) == CoreTypes(k) /\ UnitTypes(k) /\ OnePlace(k) /\ RowsHeld(k)
Stepped(k, new, sel, take, ann, retires, traps) ==
    /\ NewsOK(k, new, ann) /\ RetiresOK(retires, traps) /\ TakesOK(k, take)
    /\ ann \in SUBSET Operands(k)!Ids
    /\ CoreMove(k, new, ann, retires, traps) /\ FileMove(k, ann, retires, traps)
    /\ IdsMove(k, new, sel, take, ann, retires)
    /\ \A j \in Operands(k)!RSs, e \in Operands(k)!Rows : RowStep(k, take, ann, j, e)
    /\ \A x \in executing' : x.id \notin ann /\ (x \in executing \/ FromRow(k, take, x))
    /\ Operands(k)!NotAnnounced' = (Operands(k)!NotAnnounced \ ann) \cup NewIds(new)
    /\ ann \subseteq Operands(k)!NotAnnounced

LEMMA PlacedMoves ==
    ASSUME NEW CONSTANT k, Operands(k)!OperandAssumption, Placed(k),
           NEW new, NEW sel, NEW take, NEW ann, NEW retires, NEW traps,
           Happens(k, new, sel, take, ann, retires, traps)
    PROVE  Placed(k)' /\ Stepped(k, new, sel, take, ann, retires, traps)
<1>1. CoreTypes(k) /\ UnitTypes(k) /\ OnePlace(k) /\ RowsHeld(k)
  BY DEF Placed
<1>2. NewsOK(k, new, ann)
  BY <1>1, NewsFacts
<1>3. RetiresOK(retires, traps)
  <2>1. <<retires, traps>> \in Operands(k)!RetireChoices
    BY DEF Happens
  <2> QED BY <2>1, RetiresFacts
<1>4. SelectionOK(k, sel)
  <2>1. sel \in Operands(k)!Selections
    BY DEF Happens
  <2> QED BY <1>1, <2>1, SelectionFacts
<1>5. TakesOK(k, take)
  <2>1. take \in Operands(k)!TakeChoices
    BY DEF Happens
  <2> QED BY <1>1, <2>1, TakesFacts
<1>6. /\ Operands(k)!Cycle(new, sel, take, ann, retires, traps)
      /\ ann \in Operands(k)!Announcements(take)
  BY DEF Happens
<1>7. CoreTypes(k)'
  BY <1>1, <1>2, <1>3, CoreTypesMove
<1>8. /\ CoreMove(k, new, ann, retires, traps)
      /\ rob' = LET older == IF retires THEN Tail(rob) ELSE rob
                IN  IF new = <<>> THEN older ELSE Append(older, next)
      /\ odDone' = (odDone \cup ann) \ GoneIds(retires)
  BY <1>1, <1>2, <1>3, CoreMoves
<1>9. new # <<>> => next \in Operands(k)!Ids
  BY <1>2 DEF NewsOK, NewOK
<1>10. /\ InFlight' = (InFlight \ GoneIds(retires)) \cup NewIds(new)
  <2>1. (new = <<>> => next' = next) /\ (new # <<>> => next' = next + 1) /\ (retires => rob # <<>>)
    BY <1>3, <1>8 DEF CoreMove, RetiresOK
  <2> QED BY <1>1, <1>8, <1>9, <2>1, RobMoves
<1>11. /\ executing' = {x \in executing \cup Operands(k)!Issued(take) : x.id \notin ann}
       /\ ann \in SUBSET {x.id : x \in executing \cup Operands(k)!Issued(take)}
       /\ valids' = Operands(k)!ValidsAfter(ann, Operands(k)!Freed(retires, traps))
       /\ entries' = Operands(k)!EntriesAfter(ann)
       /\ RowsMove(k, take, ann)
       /\ queue' = SubSeq(queue, Len(sel) + 1, Len(queue)) \o (IF new = <<>> THEN <<>> ELSE <<next>>)
       /\ picked' = sel
  BY <1>6, Zenon DEF Operands!Cycle, Operands!Announcements, RowsMove
<1>28. ResultsStep(k, take, ann)
  BY <1>11 DEF ResultsStep
<1>12. MainMove(k, take, sel) /\ FifoMove(k, take, sel)
  <2>1. alloc' = [main |-> Operands(k)!MainAfter(take["main"], Allocs(sel, "main")),
                  fifo |-> Operands(k)!FifoAfter(take["fifo"], Allocs(sel, "fifo"))]
    BY <1>6, Zenon DEF Operands!Cycle, Allocs
  <2> QED BY <2>1 DEF MainMove, FifoMove
<1>13. take["main"] \in 0 .. k.rows
  <2>1. "main" \in Operands(k)!RSs /\ Operands(k)!Rows = 1 .. k.rows /\ k.rows \in Nat
    BY OdConstants
  <2>2. take["main"] # 0 => take["main"] \in Operands(k)!Rows
    BY <1>5, <2>1 DEF TakesOK
  <2> QED BY <2>1, <2>2
<1>14. Places(k) /\ \A m, n \in DOMAIN queue : queue[m] = queue[n] => m = n
  BY <1>1 DEF OnePlace, Places
<1>15. /\ InFlight \subseteq Operands(k)!Ids /\ next \notin InFlight
       /\ Operands(k)!NotAnnounced = Queued \cup Picked \cup Stored(k) \cup Executing
       /\ Operands(k)!NotAnnounced \subseteq InFlight
  BY <1>1, <1>14, FlightOrder, NotAnnouncedPlaces DEF Places
<1>16. /\ queue' \in Seq(Operands(k)!Ids) /\ picked' \in Seq(Choices(k))
       /\ Queued' = (Queued \ SelIds(sel)) \cup NewIds(new)
       /\ Picked' = SelIds(sel) /\ SelIds(sel) \subseteq Queued
       /\ (\A m, n \in DOMAIN queue : queue[m] = queue[n] => m = n)'
       /\ (\A m, n \in DOMAIN picked : picked[m].id = picked[n].id => m = n)'
  <2>1. next \notin Queued
    BY <1>15
  <2> QED BY ONLY <1>1, <1>4, <1>9, <1>11, <1>14, <2>1, Operands(k)!OperandAssumption, QueueMoves
<1>17. ann \in SUBSET Operands(k)!Ids /\ TakenIds(k, take) \subseteq Stored(k)
  <2>1. TakenIds(k, take) \subseteq Stored(k)
    <3>1. \A j \in Operands(k)!RSs, e \in Operands(k)!Rows : Takes(k, take, j, e) => rs[j][e].full
      BY <1>5, TakenAreFull
    <3> QED BY <3>1 DEF TakenIds, Stored
  <2>2. {x.id : x \in executing \cup Operands(k)!Issued(take)} = Executing \cup TakenIds(k, take)
    BY ONLY <1>1, <1>5, <1>28, <2>1, Operands(k)!OperandAssumption, ResultsMove
  <2> QED BY <1>11, <1>15, <2>1, <2>2
<1>18. /\ executing' \subseteq Results(k)
       /\ ann \subseteq Executing \cup TakenIds(k, take)
       /\ Executing' = (Executing \cup TakenIds(k, take)) \ ann
       /\ (\A x, y \in executing : x.id = y.id => x = y)'
       /\ \A x \in executing' : x.id \notin ann /\ (x \in executing \/ FromRow(k, take, x))
  <2>1. /\ executing' \subseteq Results(k)
        /\ {x.id : x \in executing \cup Operands(k)!Issued(take)} = Executing \cup TakenIds(k, take)
        /\ Executing' = (Executing \cup TakenIds(k, take)) \ ann
        /\ (\A x, y \in executing : x.id = y.id => x = y)'
        /\ \A x \in executing' : x.id \notin ann /\ (x \in executing \/ FromRow(k, take, x))
    BY ONLY <1>1, <1>5, <1>17, <1>28, Operands(k)!OperandAssumption, ResultsMove
  <2> QED BY <1>11, <2>1
<1>19. Stored(k)' = (Stored(k) \ TakenIds(k, take)) \cup Picked /\ StoredOnce(k)'
  BY ONLY <1>1, <1>5, <1>11, <1>17, Operands(k)!OperandAssumption, StoredSet
<1>20. /\ rs' \in [Operands(k)!RSs -> [Operands(k)!Rows -> RowType(k)]]
       /\ \A j \in Operands(k)!RSs, e \in Operands(k)!Rows : RowStep(k, take, ann, j, e)
  BY ONLY <1>1, <1>11, <1>17, Operands(k)!OperandAssumption, StoredMoves
<1>21. /\ FileMove(k, ann, retires, traps)
       /\ valids' \subseteq Operands(k)!Phys /\ 0 \in valids'
       /\ entries' \in [Operands(k)!Phys -> 0 .. k.instrs] /\ entries'[0] = 0
  BY ONLY <1>1, <1>11, <1>17, Operands(k)!OperandAssumption, FileMoves
<1>22. UnitTypes(k)'
  BY <1>16, <1>18, <1>20, <1>21
     DEF UnitTypes, Operands!Ids, Operands!Phys, Operands!RSs, Operands!Rows, Choices, RowType, Results
<1>23. RowsHeld(k)'
  BY ONLY <1>1, <1>4, <1>5, <1>11, <1>12, <1>13, <1>17, Operands(k)!OperandAssumption, RowsMoveHeld
<1>24. IdsMove(k, new, sel, take, ann, retires)
  <2>1. GoneIds(retires) \subseteq odDone /\ NewIds(new) \cap InFlight = {}
    BY <1>3, <1>15 DEF RetiresOK, GoneIds, NewIds
  <2> QED BY <1>8, <1>10, <1>16, <1>17, <1>18, <1>19, <2>1 DEF IdsMove
<1>25. /\ Places(k)'
       /\ Operands(k)!NotAnnounced' = (Operands(k)!NotAnnounced \ ann) \cup NewIds(new)
       /\ ann \subseteq Operands(k)!NotAnnounced
  BY ONLY <1>1, <1>14, <1>22, <1>24, PlacesMove
<1>26. OnePlace(k)'
  BY <1>16, <1>18, <1>19, <1>25 DEF OnePlace, Places, StoredOnce
<1>27. Placed(k)'
  BY <1>7, <1>22, <1>23, <1>26 DEF Placed
<1> QED BY <1>2, <1>3, <1>5, <1>8, <1>17, <1>18, <1>20, <1>21, <1>24, <1>25, <1>27 DEF Stepped

-----------------------------------------------------------------------------
(***************************************************************************)
(* Owners of registers.                                                    *)
(***************************************************************************)
\* The instructions that stay are left alone; the new one is what is renamed.
LEMMA Stays ==
    ASSUME NEW CONSTANT k, Operands(k)!OperandAssumption, Placed(k),
           NEW new, NEW sel, NEW take, NEW ann, NEW retires, NEW traps,
           Stepped(k, new, sel, take, ann, retires, traps)
    PROVE  /\ \A i \in InFlight \ GoneIds(retires) : instr'[i] = instr[i]
           /\ new # <<>> => instr'[next] = new[1]
           /\ \A i \in Operands(k)!NotAnnounced : i \notin ann => instr'[i] = instr[i]
           /\ Operands(k)!NotAnnounced \subseteq InFlight \ GoneIds(retires)
           /\ InFlight' = (InFlight \ GoneIds(retires)) \cup NewIds(new)
           /\ InFlight \subseteq Operands(k)!Ids /\ next \notin InFlight
           /\ odDone \subseteq InFlight /\ odDone \cap Operands(k)!NotAnnounced = {}
           /\ InFlight = odDone \cup Operands(k)!NotAnnounced
<1>1. /\ InFlight \subseteq Operands(k)!Ids /\ next \notin InFlight
  BY FlightOrder DEF Placed
<1>2. /\ odDone \cap Operands(k)!NotAnnounced = {} /\ InFlight = odDone \cup Operands(k)!NotAnnounced
  BY DEF Placed, OnePlace
<1>3. /\ InFlight' = (InFlight \ GoneIds(retires)) \cup NewIds(new) /\ GoneIds(retires) \subseteq odDone
  BY DEF Stepped, IdsMove
<1>4. \A i \in Operands(k)!Ids : instr'[i] =
          IF new # <<>> /\ i = next THEN new[1]
          ELSE IF retires /\ i = Head(rob) THEN Operands(k)!NoInstr ELSE instr[i]
  BY DEF Stepped, CoreMove
<1>5. \A i \in InFlight \ GoneIds(retires) : instr'[i] = instr[i]
  BY <1>1, <1>4 DEF GoneIds
<1>6. new # <<>> => next \in Operands(k)!Ids
  BY DEF Stepped, NewsOK, NewOK
<1> QED BY <1>1, <1>2, <1>3, <1>4, <1>5, <1>6

\* What is freed belonged to the instruction that leaves, or was mapped before it.
LEMMA FreedFacts ==
    ASSUME NEW CONSTANT k, Operands(k)!OperandAssumption, Placed(k), Owners(k),
           NEW new, NEW sel, NEW take, NEW ann, NEW retires, NEW traps,
           Stepped(k, new, sel, take, ann, retires, traps)
    PROVE  /\ \A p \in Operands(k)!Freed(retires, traps) :
                 /\ p # 0 /\ p \notin freelist /\ p \in valids /\ p # rrat' /\ ~Writes(k, ann, p)
                 /\ \A i \in InFlight \ GoneIds(retires) : instr[i].dst # p
           /\ rrat' \in valids /\ rrat' \notin freelist
           /\ \A i \in InFlight \ GoneIds(retires) : instr[i].dst # 0 => instr[i].dst # rrat'
<1>1. /\ rrat \in valids /\ rrat \notin freelist /\ freelist \cap valids = {}
      /\ \A i \in InFlight : instr[i].dst # 0 =>
            /\ instr[i].dst # rrat /\ instr[i].dst \notin freelist
            /\ \A j \in InFlight : instr[j].dst = instr[i].dst => j = i
            /\ i \in odDone => instr[i].dst \in valids
            /\ i \notin odDone => instr[i].dst \notin valids
  BY DEF Owners
<1>2. retires => Head(rob) \in InFlight /\ Head(rob) \in odDone /\ GoneIds(retires) = {Head(rob)}
  BY Stays DEF Stepped, RetiresOK, GoneIds
<1>3. rrat' = IF Commits(retires, traps) /\ instr[Head(rob)].dst # 0 THEN instr[Head(rob)].dst ELSE rrat
  BY DEF Stepped, CoreMove
<1>4. ASSUME NEW p \in Operands(k)!Freed(retires, traps)
      PROVE  /\ p # 0 /\ retires
             /\ \/ p = instr[Head(rob)].dst /\ ~Commits(retires, traps)
                \/ p = rrat /\ Commits(retires, traps) /\ instr[Head(rob)].dst # 0
  BY <1>4 DEF Operands!Freed, Commits
<1>5. ASSUME NEW p, p \in valids PROVE ~Writes(k, ann, p)
  <2> SUFFICES ASSUME Writes(k, ann, p) PROVE FALSE
    OBVIOUS
  <2>1. Writer(k, ann, p) \in ann /\ instr[Writer(k, ann, p)].dst = p /\ p # 0
    BY WriterFacts
  <2>2. ann \subseteq InFlight /\ ann \cap odDone = {}
    BY Stays DEF Stepped
  <2> QED BY <1>1, <1>5, <2>1, <2>2
<1>6. ASSUME NEW p \in Operands(k)!Freed(retires, traps)
      PROVE  /\ p \notin freelist /\ p \in valids /\ p # rrat'
             /\ \A i \in InFlight \ GoneIds(retires) : instr[i].dst # p
  <2>1. CASE p = instr[Head(rob)].dst /\ ~Commits(retires, traps)
    BY <1>1, <1>2, <1>3, <1>4, <2>1
  <2>2. CASE p = rrat /\ Commits(retires, traps) /\ instr[Head(rob)].dst # 0
    BY <1>1, <1>2, <1>3, <1>4, <2>2
  <2> QED BY <1>4, <2>1, <2>2
<1>7. /\ rrat' \in valids /\ rrat' \notin freelist
      /\ \A i \in InFlight \ GoneIds(retires) : instr[i].dst # 0 => instr[i].dst # rrat'
  BY <1>1, <1>2, <1>3 DEF Commits
<1> QED BY <1>4, <1>5, <1>6, <1>7

LEMMA OwnersMove ==
    ASSUME NEW CONSTANT k, Operands(k)!OperandAssumption, Placed(k), Placed(k)', Owners(k),
           NEW new, NEW sel, NEW take, NEW ann, NEW retires, NEW traps,
           Stepped(k, new, sel, take, ann, retires, traps)
    PROVE  Owners(k)'
<1> DEFINE freed == Operands(k)!Freed(retires, traps)
<1>1. /\ rrat \in valids /\ rrat \notin freelist /\ freelist \cap valids = {}
      /\ \A i \in InFlight : instr[i].dst # 0 =>
            /\ instr[i].dst # rrat /\ instr[i].dst \notin freelist
            /\ \A j \in InFlight : instr[j].dst = instr[i].dst => j = i
            /\ i \in odDone => instr[i].dst \in valids /\ entries[instr[i].dst] = i
            /\ i \notin odDone => instr[i].dst \notin valids
  BY DEF Owners
<1>2. /\ \A p \in freed :
            /\ p # 0 /\ p \notin freelist /\ p \in valids /\ p # rrat'
            /\ \A i \in InFlight \ GoneIds(retires) : instr[i].dst # p
      /\ rrat' \in valids /\ rrat' \notin freelist
      /\ \A i \in InFlight \ GoneIds(retires) : instr[i].dst # 0 => instr[i].dst # rrat'
  BY FreedFacts
<1>3. /\ \A i \in InFlight \ GoneIds(retires) : instr'[i] = instr[i]
      /\ new # <<>> => instr'[next] = new[1]
      /\ InFlight' = (InFlight \ GoneIds(retires)) \cup NewIds(new)
      /\ InFlight \subseteq Operands(k)!Ids /\ next \notin InFlight
      /\ odDone \subseteq InFlight /\ ann \subseteq InFlight /\ ann \cap odDone = {}
  BY Stays DEF Stepped
<1>4. odDone' = (odDone \cup ann) \ GoneIds(retires)
  BY DEF Stepped, IdsMove
<1>5. /\ new # <<>> => new[1].dst = 0 \/ new[1].dst \in freelist
      /\ NewIds(new) = IF new = <<>> THEN {} ELSE {next}
  BY DEF Stepped, NewsOK, NewOK, NewIds
<1>6. freelist' = (freelist \ (IF new = <<>> THEN {} ELSE {new[1].dst})) \cup freed
  BY DEF Stepped, CoreMove
<1>7. /\ \A p \in Operands(k)!Phys : p \in valids' <=> (p \in valids \/ Writes(k, ann, p)) /\ p \notin freed
      /\ \A p \in Operands(k)!Phys :
          entries'[p] = IF Writes(k, ann, p) THEN Writer(k, ann, p) ELSE entries[p]
  BY DEF Stepped, FileMove
<1>8. \A p : Writes(k, ann, p) => Writer(k, ann, p) \in ann /\ instr[Writer(k, ann, p)].dst = p /\ p # 0
  BY WriterFacts
<1>9. \A a \in ann : instr[a].dst # 0 => Writes(k, ann, instr[a].dst)
  BY DEF Writes, Operands!Writers
<1>10. /\ freelist \subseteq Operands(k)!Phys /\ rrat \in Operands(k)!Phys /\ valids \subseteq Operands(k)!Phys
       /\ \A i \in Operands(k)!Ids : instr[i].dst \in Operands(k)!Phys
       /\ valids' \subseteq Operands(k)!Phys
  <2>1. freelist \subseteq Operands(k)!Phys /\ rrat \in Operands(k)!Phys /\ valids \subseteq Operands(k)!Phys
    <3>1. freelist \subseteq 1 .. k.regs /\ rrat \in Operands(k)!Phys
      BY DEF Placed, CoreTypes
    <3>2. valids \subseteq Operands(k)!Phys
      BY DEF Placed, UnitTypes
    <3>3. 1 .. k.regs \subseteq Operands(k)!Phys
      BY OdConstants
    <3> QED BY <3>1, <3>2, <3>3
  <2>2. ASSUME NEW i \in Operands(k)!Ids PROVE instr[i].dst \in Operands(k)!Phys
    <3>1. instr[i] \in Instrs(k)
      BY DEF Placed, CoreTypes
    <3> QED BY <3>1 DEF Instrs
  <2>3. valids' \subseteq Operands(k)!Phys
    BY DEF Placed, UnitTypes, Operands!Phys
  <2> QED BY <2>1, <2>2, <2>3
<1> HIDE DEF freed
<1>11. rrat' \in valids' /\ rrat' \notin freelist'
  BY <1>2, <1>6, <1>7, <1>10
<1>12. freelist' \cap valids' = {}
  <2> SUFFICES ASSUME NEW p \in freelist', p \in valids' PROVE FALSE
    OBVIOUS
  <2>1. p \notin freed /\ (p \in valids \/ Writes(k, ann, p))
    BY <1>7, <1>10
  <2>2. p \in freelist
    BY <1>6, <2>1
  <2> QED BY <1>1, <1>3, <1>8, <2>1, <2>2
<1>13. ASSUME NEW i \in InFlight \ GoneIds(retires), instr[i].dst # 0
       PROVE  /\ instr[i].dst # rrat' /\ instr[i].dst \notin freelist'
              /\ i \in odDone' => instr[i].dst \in valids' /\ entries'[instr[i].dst] = i
              /\ i \notin odDone' => instr[i].dst \notin valids'
  <2> DEFINE d == instr[i].dst
  <2>1. d # rrat' /\ d \notin freelist' /\ d \notin freed /\ d \in Operands(k)!Phys
    BY <1>1, <1>2, <1>3, <1>6, <1>10, <1>13
  <2>2. \A a \in InFlight : instr[a].dst = d => a = i
    BY <1>1, <1>13
  <2>3. CASE i \in ann
    <3>1. Writes(k, ann, d)
      BY <1>9, <1>13, <2>3
    <3>2. Writer(k, ann, d) = i
      BY <1>3, <1>8, <2>2, <3>1
    <3>3. i \in odDone'
      BY <1>4, <1>13, <2>3
    <3> QED BY <1>7, <2>1, <3>1, <3>2, <3>3
  <2>4. CASE i \notin ann
    <3>1. ~Writes(k, ann, d)
      BY <1>3, <1>8, <2>2, <2>4
    <3>2. i \in odDone' <=> i \in odDone
      BY <1>4, <1>13, <2>4
    <3> QED BY <1>1, <1>7, <1>13, <2>1, <3>1, <3>2
  <2> QED BY <2>3, <2>4
<1>14. ASSUME new # <<>>, new[1].dst # 0
       PROVE  /\ new[1].dst # rrat' /\ new[1].dst \notin freelist' /\ new[1].dst \notin valids'
              /\ next \notin odDone'
              /\ \A i \in InFlight \ GoneIds(retires) : instr[i].dst # new[1].dst
  <2>1. new[1].dst \in freelist /\ new[1].dst \notin freed
    BY <1>2, <1>5, <1>14
  <2>2. ~Writes(k, ann, new[1].dst)
    BY <1>1, <1>3, <1>8, <2>1
  <2> QED BY <1>1, <1>2, <1>3, <1>4, <1>6, <1>7, <1>10, <1>14, <2>1, <2>2
<1>15. ASSUME NEW i \in InFlight', instr'[i].dst # 0
       PROVE  /\ instr'[i].dst # rrat' /\ instr'[i].dst \notin freelist'
              /\ \A j \in InFlight' : instr'[j].dst = instr'[i].dst => j = i
              /\ i \in odDone' => instr'[i].dst \in valids' /\ entries'[instr'[i].dst] = i
              /\ i \notin odDone' => instr'[i].dst \notin valids'
  <2>1. CASE i \in InFlight \ GoneIds(retires)
    BY <1>1, <1>3, <1>5, <1>13, <1>14, <1>15, <2>1
  <2>2. CASE i = next /\ new # <<>>
    BY <1>3, <1>5, <1>14, <1>15, <2>2
  <2> QED BY <1>3, <1>5, <1>15, <2>1, <2>2
<1> QED BY <1>11, <1>12, <1>15 DEF Owners

-----------------------------------------------------------------------------
(***************************************************************************)
(* The register map in front of an instruction does not change while older *)
(* instructions retire.                                                    *)
(***************************************************************************)
SameBelow(A, B, I, J, G, c) ==
    /\ \A l \in A : l < c /\ l \notin G => l \in B
    /\ \A l \in B : l < c => l \in A /\ l \notin G /\ J[l].dst = I[l].dst
CommitsOldest(A, I, r, q, G, c) ==
    \/ q = r /\ \A g \in G : g \in A => I[g].dst = 0
    \/ \E g \in A : /\ G = {g} /\ g < c /\ I[g].dst # 0 /\ q = I[g].dst
                    /\ \A l \in A : l # g => g < l

LEMMA MapStep ==
    ASSUME NEW A, NEW B, NEW I, NEW J, NEW r, NEW q, NEW G, NEW c \in Nat, NEW p,
           A \subseteq Nat, B \subseteq Nat, SameBelow(A, B, I, J, G, c),
           CommitsOldest(A, I, r, q, G, c), MapIn(A, I, r, c, p)
    PROVE  MapIn(B, J, q, c, p)
<1>1. CASE q = r /\ \A g \in G : g \in A => I[g].dst = 0
  <2>1. CASE p = r /\ \A l \in A : l < c => I[l].dst = 0
    BY <1>1, <2>1 DEF MapIn, SameBelow
  <2>2. CASE \E j \in A : /\ j < c /\ I[j].dst = p /\ p # 0
                          /\ \A l \in A : j < l /\ l < c => I[l].dst = 0
    <3>1. PICK j \in A : /\ j < c /\ I[j].dst = p /\ p # 0
                         /\ \A l \in A : j < l /\ l < c => I[l].dst = 0
      BY <2>2
    <3>2. j \in B /\ J[j].dst = p
      BY <1>1, <3>1 DEF SameBelow
    <3>3. \A l \in B : j < l /\ l < c => J[l].dst = 0
      BY <3>1 DEF SameBelow
    <3> QED BY <3>1, <3>2, <3>3 DEF MapIn
  <2> QED BY <2>1, <2>2 DEF MapIn
<1>2. CASE \E g \in A : /\ G = {g} /\ g < c /\ I[g].dst # 0 /\ q = I[g].dst
                        /\ \A l \in A : l # g => g < l
  <2>1. PICK g \in A : /\ G = {g} /\ g < c /\ I[g].dst # 0 /\ q = I[g].dst
                       /\ \A l \in A : l # g => g < l
    BY <1>2
  <2>2. PICK j \in A : /\ j < c /\ I[j].dst = p /\ p # 0
                       /\ \A l \in A : j < l /\ l < c => I[l].dst = 0
    BY <2>1 DEF MapIn
  <2>3. CASE j = g
    <3>1. \A l \in B : l < c => J[l].dst = 0
      BY <2>1, <2>2, <2>3 DEF SameBelow
    <3> QED BY <2>1, <2>2, <2>3, <3>1 DEF MapIn
  <2>4. CASE j # g
    <3>1. j \in B /\ J[j].dst = p
      BY <2>1, <2>2, <2>4 DEF SameBelow
    <3>2. \A l \in B : j < l /\ l < c => J[l].dst = 0
      BY <2>2 DEF SameBelow
    <3> QED BY <2>2, <3>1, <3>2 DEF MapIn
  <2> QED BY <2>3, <2>4
<1> QED BY <1>1, <1>2 DEF CommitsOldest

\* Behind an instruction, or another number, the map is the same if nothing between writes.
LEMMA MapBeyond ==
    ASSUME NEW A, NEW I, NEW r, NEW b \in Nat, NEW c \in Nat, NEW p, A \subseteq Nat, b <= c,
           \A l \in A : l < c => l < b \/ I[l].dst = 0, MapIn(A, I, r, b, p)
    PROVE  MapIn(A, I, r, c, p)
<1>1. CASE p = r /\ \A l \in A : l < b => I[l].dst = 0
  BY <1>1 DEF MapIn
<1>2. CASE \E j \in A : /\ j < b /\ I[j].dst = p /\ p # 0
                        /\ \A l \in A : j < l /\ l < b => I[l].dst = 0
  BY <1>2 DEF MapIn
<1> QED BY <1>1, <1>2 DEF MapIn

\* The step of the core on the right path.
GoesOn(retires, traps) == ~flushing /\ ~traps

LEMMA CommitStep ==
    ASSUME NEW CONSTANT k, Operands(k)!OperandAssumption, Placed(k),
           NEW new, NEW sel, NEW take, NEW ann, NEW retires, NEW traps,
           Stepped(k, new, sel, take, ann, retires, traps), GoesOn(retires, traps),
           NEW c \in Nat, retires => Head(rob) < c
    PROVE  CommitsOldest(Active, instr, rrat, rrat', GoneIds(retires), c)
<1>1. rrat' = IF Commits(retires, traps) /\ instr[Head(rob)].dst # 0 THEN instr[Head(rob)].dst ELSE rrat
  BY DEF Stepped, CoreMove
<1>2. retires => /\ GoneIds(retires) = {Head(rob)} /\ Head(rob) \in InFlight
                 /\ \A i \in InFlight : i # Head(rob) => Head(rob) < i
  BY FlightOrder DEF Stepped, RetiresOK, GoneIds, Placed
<1>3. CASE Commits(retires, traps) /\ instr[Head(rob)].dst # 0
  BY <1>1, <1>2, <1>3 DEF CommitsOldest, Commits, Active
<1>4. CASE ~(Commits(retires, traps) /\ instr[Head(rob)].dst # 0)
  <2>1. rrat' = rrat
    BY <1>1, <1>4
  <2>2. ASSUME NEW g \in GoneIds(retires), g \in Active PROVE instr[g].dst = 0
    <3>1. retires /\ g = Head(rob)
      BY <2>2 DEF GoneIds
    <3> QED BY <1>4, <2>2, <3>1 DEF Commits, GoesOn, Active
  <2> QED BY <2>1, <2>2 DEF CommitsOldest
<1> QED BY <1>3, <1>4

LEMMA RollbackBranch ==
    ASSUME NEW CONSTANT k, PathKnown(k), NEW ann, ann \subseteq Operands(k)!NotAnnounced,
           Operands(k)!RollsBack(ann)
    PROVE  ~flushing /\ wrongpath /\ \E b \in ann : MisspeculatedBy(k, b)
<1>1. PICK a \in ann : ~flushing /\ instr[a].mis /\ a \notin inactive
  BY DEF Operands!RollsBack
<1>2. wrongpath /\ \E b \in InFlight : MisspeculatedBy(k, b)
  BY <1>1 DEF PathKnown
<1>3. PICK b \in InFlight : MisspeculatedBy(k, b)
  BY <1>2
<1>4. a = b
  BY <1>1, <1>3 DEF MisspeculatedBy
<1> QED BY <1>1, <1>2, <1>3, <1>4

LEMMA InactiveMove ==
    ASSUME NEW CONSTANT k, Operands(k)!OperandAssumption, Placed(k),
           NEW new, NEW sel, NEW take, NEW ann, NEW retires, NEW traps,
           Stepped(k, new, sel, take, ann, retires, traps)
    PROVE  /\ \A l \in inactive \ GoneIds(retires) : l \in inactive'
           /\ \A l \in inactive' : /\ l \notin GoneIds(retires) /\ l \in InFlight
                                   /\ l \in inactive \/ (Operands(k)!RollsBack(ann) /\ instr[l].wrong)
           /\ Operands(k)!RollsBack(ann) =>
                 \A l \in InFlight \ GoneIds(retires) : instr[l].wrong => l \in inactive'
<1>1. inactive' = (IF Operands(k)!RollsBack(ann)
                   THEN inactive \cup {i \in Operands(k)!Ids : instr[i].wrong} ELSE inactive)
                  \ GoneIds(retires)
  BY DEF Stepped, CoreMove
<1>2. /\ inactive \subseteq InFlight /\ InFlight \subseteq Operands(k)!Ids
      /\ \A i \in Operands(k)!Ids \ InFlight : instr[i] = Operands(k)!NoInstr
      /\ Operands(k)!NoInstr.wrong = FALSE
  BY Stays DEF Placed, CoreTypes, Operands!NoInstr
<1> QED BY <1>1, <1>2

LEMMA MapKept ==
    ASSUME NEW CONSTANT k, Operands(k)!OperandAssumption, Placed(k),
           NEW new, NEW sel, NEW take, NEW ann, NEW retires, NEW traps,
           Stepped(k, new, sel, take, ann, retires, traps), GoesOn(retires, traps),
           NEW c \in Nat, c <= next, retires => Head(rob) < c,
           Operands(k)!RollsBack(ann) => \A l \in InFlight : l < c /\ instr[l].wrong => l \in inactive,
           NEW p, MapIn(Active, instr, rrat, c, p)
    PROVE  MapIn(Active', instr', rrat', c, p)
<1>1. /\ \A l \in inactive \ GoneIds(retires) : l \in inactive'
      /\ \A l \in inactive' : /\ l \notin GoneIds(retires) /\ l \in InFlight
                              /\ l \in inactive \/ (Operands(k)!RollsBack(ann) /\ instr[l].wrong)
  BY InactiveMove
<1>2. /\ \A i \in InFlight \ GoneIds(retires) : instr'[i] = instr[i]
      /\ InFlight' = (InFlight \ GoneIds(retires)) \cup NewIds(new)
  BY Stays
<1>3. /\ next \in Nat /\ InFlight \subseteq Nat /\ \A i \in NewIds(new) : i = next
  BY FlightOrder DEF NewIds, Placed
<1>4. Active = InFlight \ inactive /\ Active' = InFlight' \ inactive'
  BY DEF Active
<1>5. SameBelow(Active, Active', instr, instr', GoneIds(retires), c)
  <2>1. ASSUME NEW l \in Active, l < c, l \notin GoneIds(retires) PROVE l \in Active'
    BY <1>1, <1>2, <1>4, <2>1
  <2>2. ASSUME NEW l \in Active', l < c
        PROVE  l \in Active /\ l \notin GoneIds(retires) /\ instr'[l].dst = instr[l].dst
    <3>1. l \in InFlight \ GoneIds(retires)
      BY <1>2, <1>3, <1>4, <2>2
    <3> QED BY <1>1, <1>2, <1>4, <2>2, <3>1
  <2> QED BY <2>1, <2>2 DEF SameBelow
<1>6. CommitsOldest(Active, instr, rrat, rrat', GoneIds(retires), c)
  BY CommitStep
<1>7. Active \subseteq Nat /\ Active' \subseteq Nat
  BY <1>2, <1>3, <1>4
<1> QED BY ONLY <1>5, <1>6, <1>7, c \in Nat, MapIn(Active, instr, rrat, c, p), MapStep

\* A rollback: the branch is what is active last, and the saved map is the map.
LEMMA PathRollsBack ==
    ASSUME NEW CONSTANT k, Operands(k)!OperandAssumption, Placed(k), Placed(k)', PathKnown(k),
           NEW new, NEW sel, NEW take, NEW ann, NEW retires, NEW traps,
           Stepped(k, new, sel, take, ann, retires, traps), GoesOn(retires, traps),
           ~Operands(k)!FlushEnds, Operands(k)!RollsBack(ann)
    PROVE  /\ MapIn(Active', instr', rrat', next', frat') /\ ~wrongpath'
           /\ \A i \in InFlight' : instr'[i].wrong => i \in inactive'
           /\ \A i \in Operands(k)!NotAnnounced' : instr'[i].mis => i \in inactive'
<1>1. new = <<>> /\ next' = next /\ frat' = saved /\ ~wrongpath'
  BY DEF Stepped, NewsOK, CoreMove
<1>2. PICK b \in ann : MisspeculatedBy(k, b) /\ b \in Operands(k)!NotAnnounced
  BY RollbackBranch DEF Stepped
<1>3. /\ instr[b].mis /\ ~instr[b].wrong /\ MapIn(Active, instr, rrat, b, saved)
      /\ \A i \in InFlight : /\ i < b => (instr[i].wrong => i \in inactive)
                             /\ i > b => instr[i].wrong
      /\ \A i \in Operands(k)!NotAnnounced : instr[i].mis /\ i \notin inactive => i = b
  BY <1>2 DEF MisspeculatedBy, MapAt
<1>4. /\ \A i \in InFlight \ GoneIds(retires) : instr'[i] = instr[i]
      /\ \A i \in Operands(k)!NotAnnounced : i \notin ann => instr'[i] = instr[i]
      /\ Operands(k)!NotAnnounced \subseteq InFlight \ GoneIds(retires)
      /\ InFlight' = (InFlight \ GoneIds(retires)) \cup NewIds(new) /\ NewIds(new) = {}
  BY <1>1, Stays DEF NewIds
<1>5. /\ next \in Nat /\ InFlight \subseteq Nat /\ (\A i \in InFlight : i < next)
      /\ retires => GoneIds(retires) = {Head(rob)}
      /\ retires => \A i \in InFlight : i # Head(rob) => Head(rob) < i
  BY FlightOrder DEF Placed, GoneIds, Stepped, RetiresOK
<1>6. b \in InFlight \ GoneIds(retires) /\ b \in Nat /\ b <= next /\ (retires => Head(rob) < b)
  <2>1. b \in InFlight \ GoneIds(retires)
    BY <1>2, <1>4
  <2>2. b \in Nat /\ b < next
    BY <1>5, <2>1
  <2>3. retires => b # Head(rob)
    BY <1>5, <2>1
  <2>4. retires => Head(rob) < b
    BY <1>5, <2>1, <2>3
  <2>5. b <= next
    BY <1>5, <2>2
  <2> QED BY <2>1, <2>2, <2>4, <2>5
<1>7. MapIn(Active', instr', rrat', b, saved)
  BY <1>3, <1>6, MapKept
<1>8. /\ \A l \in inactive \ GoneIds(retires) : l \in inactive'
      /\ \A l \in InFlight \ GoneIds(retires) : instr[l].wrong => l \in inactive'
  BY InactiveMove
<1>9. instr[b].dst = 0
  BY <1>3, <1>6, Stays DEF Placed, CoreTypes
<1>10. ASSUME NEW l \in Active' PROVE l < b \/ instr'[l].dst = 0
  <2>1. l \in InFlight \ GoneIds(retires) /\ l \notin inactive'
    BY <1>4 DEF Active
  <2>2. ~(l > b)
    BY <1>3, <1>8, <2>1
  <2>3. l \in Nat
    BY <1>5, <2>1
  <2> QED BY <1>4, <1>6, <1>9, <2>1, <2>2, <2>3
<1>11. MapIn(Active', instr', rrat', next, saved)
  <2>1. Active' \subseteq Nat
    BY <1>4, <1>5 DEF Active
  <2>2. next \in Nat /\ b \in Nat /\ b <= next
    BY <1>5, <1>6
  <2> QED BY ONLY <1>7, <1>10, <2>1, <2>2, MapBeyond
<1>12. \A i \in InFlight' : instr'[i].wrong => i \in inactive'
  BY <1>4, <1>8
<1>13. ASSUME NEW i \in Operands(k)!NotAnnounced', instr'[i].mis PROVE i \in inactive'
  <2>1. i \in Operands(k)!NotAnnounced /\ i \notin ann
    BY <1>4 DEF Stepped
  <2>2. instr[i].mis /\ i \in InFlight \ GoneIds(retires)
    BY <1>4, <1>13, <2>1
  <2> QED BY <1>2, <1>3, <1>8, <2>1, <2>2
<1> QED BY <1>1, <1>11, <1>12, <1>13

\* No rollback: the map goes on with what is renamed.
LEMMA FrontMapKept ==
    ASSUME NEW CONSTANT k, Operands(k)!OperandAssumption, Placed(k), PathKnown(k),
           NEW new, NEW sel, NEW take, NEW ann, NEW retires, NEW traps,
           Stepped(k, new, sel, take, ann, retires, traps), GoesOn(retires, traps),
           ~Operands(k)!RollsBack(ann)
    PROVE  MapIn(Active', instr', rrat', next, frat)
<1>1. MapIn(Active, instr, rrat, next, frat)
  BY DEF PathKnown, GoesOn, MapAt
<1>2. next \in Nat /\ next <= next /\ (retires => Head(rob) < next)
  BY FlightOrder DEF Placed, Stepped, RetiresOK
<1>3. PICK c, p : c = next /\ p = frat
  OBVIOUS
<1>4. c \in Nat /\ c <= next /\ (retires => Head(rob) < c) /\ MapIn(Active, instr, rrat, c, p)
  BY <1>1, <1>2, <1>3
<1>5. MapIn(Active', instr', rrat', c, p)
  BY <1>4, MapKept
<1> QED BY <1>3, <1>5

LEMMA BranchStays ==
    ASSUME NEW CONSTANT k, Operands(k)!OperandAssumption, Placed(k), PathKnown(k),
           NEW new, NEW sel, NEW take, NEW ann, NEW retires, NEW traps,
           Stepped(k, new, sel, take, ann, retires, traps), GoesOn(retires, traps),
           ~Operands(k)!FlushEnds, ~Operands(k)!RollsBack(ann), wrongpath
    PROVE  \E b \in InFlight' : MisspeculatedBy(k, b)'
<1>1. PICK b \in InFlight : MisspeculatedBy(k, b)
  BY DEF PathKnown, GoesOn
<1>2. /\ b \in Operands(k)!NotAnnounced
      /\ instr[b].mis /\ ~instr[b].wrong /\ MapIn(Active, instr, rrat, b, saved)
      /\ \A i \in InFlight : /\ i < b => (instr[i].wrong => i \in inactive)
                             /\ i > b => instr[i].wrong
      /\ \A i \in Operands(k)!NotAnnounced : instr[i].mis /\ i \notin inactive => i = b
  BY <1>1 DEF MisspeculatedBy, MapAt
<1>3. new # <<>> => ~new[1].mis /\ new[1].wrong
  BY DEF Stepped, NewsOK, NewOK
<1>4. b \notin ann
  <2>1. b \notin inactive
    BY <1>2 DEF Placed, CoreTypes
  <2> QED BY <1>2, <2>1 DEF Operands!RollsBack, GoesOn
<1>5. /\ \A i \in InFlight \ GoneIds(retires) : instr'[i] = instr[i]
      /\ new # <<>> => instr'[next] = new[1]
      /\ Operands(k)!NotAnnounced \subseteq InFlight \ GoneIds(retires)
      /\ InFlight' = (InFlight \ GoneIds(retires)) \cup NewIds(new)
  BY Stays
<1>6. /\ next \in Nat /\ InFlight \subseteq Nat /\ (\A i \in InFlight : i < next)
      /\ retires => GoneIds(retires) = {Head(rob)}
      /\ retires => \A i \in InFlight : i # Head(rob) => Head(rob) < i
      /\ \A i \in NewIds(new) : i = next /\ new # <<>>
  BY FlightOrder DEF Placed, GoneIds, NewIds, Stepped, RetiresOK
<1>7. b \in InFlight \ GoneIds(retires) /\ b \in Nat /\ b < next
  BY <1>2, <1>5, <1>6
<1>8. b <= next /\ (retires => Head(rob) < b)
  <2>1. retires => b # Head(rob)
    BY <1>6, <1>7
  <2> QED BY <1>6, <1>7, <2>1
<1>9. saved' = saved
  <2>1. ~(new # <<>> /\ new[1].mis)
    BY <1>3
  <2> QED BY <2>1 DEF Stepped, CoreMove
<1>10. MapIn(Active', instr', rrat', b, saved')
  <2>1. MapIn(Active', instr', rrat', b, saved)
    BY <1>2, <1>7, <1>8, MapKept
  <2> QED BY <1>9, <2>1
<1>11. \A l \in inactive \ GoneIds(retires) : l \in inactive'
  BY InactiveMove
<1>12. Operands(k)!NotAnnounced' = (Operands(k)!NotAnnounced \ ann) \cup NewIds(new)
  BY DEF Stepped
<1>13. b \in Operands(k)!NotAnnounced' /\ instr'[b] = instr[b] /\ b \in InFlight'
  BY <1>2, <1>4, <1>5, <1>7, <1>12
<1>14. ASSUME NEW i \in InFlight'
       PROVE  /\ i < b => (instr'[i].wrong => i \in inactive')
              /\ i > b => instr'[i].wrong
  <2>1. CASE i \in InFlight \ GoneIds(retires)
    BY <1>2, <1>5, <1>11, <2>1
  <2>2. CASE i \in NewIds(new)
    <3>1. i = next /\ instr'[i] = new[1] /\ ~(i < b)
      BY <1>5, <1>6, <1>7, <2>2
    <3> QED BY <1>3, <1>6, <2>2, <3>1
  <2> QED BY <1>5, <1>14, <2>1, <2>2
<1>15. ASSUME NEW i \in Operands(k)!NotAnnounced', instr'[i].mis, i \notin inactive' PROVE i = b
  <2>1. CASE i \in Operands(k)!NotAnnounced
    BY <1>2, <1>5, <1>11, <1>15, <2>1
  <2>2. CASE i \in NewIds(new)
    BY <1>3, <1>5, <1>6, <1>15, <2>2
  <2> QED BY <1>12, <1>15, <2>1, <2>2
<1>16. MisspeculatedBy(k, b)'
  BY <1>2, <1>10, <1>13, <1>14, <1>15 DEF MisspeculatedBy, MapAt
<1> QED BY <1>13, <1>16

LEMMA PathGoesOn ==
    ASSUME NEW CONSTANT k, Operands(k)!OperandAssumption, Placed(k), Placed(k)', PathKnown(k),
           NEW new, NEW sel, NEW take, NEW ann, NEW retires, NEW traps,
           Stepped(k, new, sel, take, ann, retires, traps), GoesOn(retires, traps),
           ~Operands(k)!FlushEnds, ~Operands(k)!RollsBack(ann)
    PROVE  /\ MapIn(Active', instr', rrat', next', frat')
           /\ IF wrongpath' THEN \E b \in InFlight' : MisspeculatedBy(k, b)'
              ELSE /\ \A i \in InFlight' : instr'[i].wrong => i \in inactive'
                   /\ \A i \in Operands(k)!NotAnnounced' : instr'[i].mis => i \in inactive'
<1>1. /\ \A i \in InFlight \ GoneIds(retires) : instr'[i] = instr[i]
      /\ new # <<>> => instr'[next] = new[1]
      /\ Operands(k)!NotAnnounced \subseteq InFlight \ GoneIds(retires)
      /\ InFlight' = (InFlight \ GoneIds(retires)) \cup NewIds(new)
  BY Stays
<1>2. /\ next \in Nat /\ InFlight \subseteq Nat /\ (\A i \in InFlight : i < next)
      /\ \A i \in NewIds(new) : i = next /\ new # <<>>
      /\ new # <<>> => next \in NewIds(new)
  BY FlightOrder DEF Placed, NewIds
<1>3. /\ \A l \in inactive \ GoneIds(retires) : l \in inactive'
      /\ \A l \in inactive' : l \in InFlight
  BY InactiveMove
<1>4. Operands(k)!NotAnnounced' = (Operands(k)!NotAnnounced \ ann) \cup NewIds(new)
  BY DEF Stepped
<1>5. MapIn(Active', instr', rrat', next, frat)
  BY FrontMapKept
<1>6. /\ new = <<>> => next' = next /\ frat' = frat
      /\ new # <<>> => /\ next' = next + 1
                       /\ frat' = IF new[1].dst # 0 THEN new[1].dst ELSE frat
      /\ wrongpath' <=> wrongpath \/ (new # <<>> /\ new[1].mis)
      /\ new # <<>> /\ new[1].mis => saved' = frat /\ ~wrongpath
      /\ new # <<>> => (new[1].wrong <=> wrongpath)
  BY DEF Stepped, CoreMove, NewsOK, NewOK, GoesOn
<1>7. Active' \subseteq Nat /\ \A l \in Active' : l < next \/ (l = next /\ new # <<>>)
  BY <1>1, <1>2 DEF Active
<1>8. MapIn(Active', instr', rrat', next', frat')
  <2>1. CASE new = <<>>
    BY <1>5, <1>6, <2>1
  <2>2. CASE new # <<>> /\ new[1].dst = 0
    <3>1. frat' = frat /\ next' = next + 1
      BY <1>6, <2>2
    <3>2. \A l \in Active' : l < next + 1 => l < next \/ instr'[l].dst = 0
      BY <1>1, <1>7, <2>2
    <3>3. next \in Nat /\ next + 1 \in Nat /\ next <= next + 1
      BY <1>2
    <3>4. MapIn(Active', instr', rrat', next + 1, frat)
      BY ONLY <1>5, <1>7, <3>2, <3>3, MapBeyond
    <3> QED BY <3>1, <3>4
  <2>3. CASE new # <<>> /\ new[1].dst # 0
    <3>1. frat' = new[1].dst /\ next' = next + 1 /\ instr'[next] = new[1]
      BY <1>1, <1>6, <2>3
    <3>2. next \in Active' /\ next < next'
      BY <1>1, <1>2, <1>3, <2>3, <3>1 DEF Active
    <3>3. \A l \in Active' : ~(next < l)
      BY <1>2, <1>7
    <3> QED BY <2>3, <3>1, <3>2, <3>3 DEF MapIn
  <2> QED BY <2>1, <2>2, <2>3
<1>9. CASE wrongpath
  <2>1. \E b \in InFlight' : MisspeculatedBy(k, b)'
    BY <1>9, BranchStays
  <2> QED BY <1>6, <1>8, <1>9, <2>1
<1>10. CASE ~wrongpath
  <2>1. /\ \A i \in InFlight : instr[i].wrong => i \in inactive
        /\ \A i \in Operands(k)!NotAnnounced : instr[i].mis => i \in inactive
    BY <1>10 DEF PathKnown, GoesOn
  <2>2. \A i \in InFlight \ GoneIds(retires) : instr'[i].wrong => i \in inactive'
    BY <1>1, <1>3, <2>1
  <2>3. \A i \in Operands(k)!NotAnnounced : instr'[i].mis => i \in inactive'
    BY <1>1, <1>3, <2>1
  <2>4. CASE new # <<>> /\ new[1].mis
    <3>1. saved' = frat /\ wrongpath' /\ ~instr'[next].wrong /\ instr'[next].mis
      BY <1>1, <1>6, <1>10, <2>4
    <3>2. next \in InFlight' /\ next \in Operands(k)!NotAnnounced'
      BY <1>1, <1>2, <1>4, <2>4
    <3>3. MapIn(Active', instr', rrat', next, saved')
      BY <1>5, <3>1
    <3>4. ASSUME NEW i \in InFlight'
          PROVE  /\ i < next => (instr'[i].wrong => i \in inactive')
                 /\ i > next => instr'[i].wrong
      BY <1>1, <1>2, <2>2, <3>4
    <3>5. \A i \in Operands(k)!NotAnnounced' : instr'[i].mis /\ i \notin inactive' => i = next
      BY <1>2, <1>4, <2>3
    <3>6. PICK b : b = next
      OBVIOUS
    <3>7. MisspeculatedBy(k, b)'
      BY <3>1, <3>2, <3>3, <3>4, <3>5, <3>6 DEF MisspeculatedBy, MapAt
    <3>8. \E c \in InFlight' : MisspeculatedBy(k, c)'
      BY <3>2, <3>6, <3>7
    <3> QED BY <1>8, <3>1, <3>8
  <2>5. CASE ~(new # <<>> /\ new[1].mis)
    <3>1. ~wrongpath' /\ (new # <<>> => ~new[1].wrong /\ ~new[1].mis)
      BY <1>6, <1>10, <2>5
    <3>2. \A i \in InFlight' : instr'[i].wrong => i \in inactive'
      BY <1>1, <1>2, <2>2, <3>1
    <3>3. \A i \in Operands(k)!NotAnnounced' : instr'[i].mis => i \in inactive'
      BY <1>1, <1>2, <1>4, <2>3, <3>1
    <3> QED BY <1>8, <3>1, <3>2, <3>3
  <2> QED BY <2>4, <2>5
<1> QED BY <1>9, <1>10

\* A flush ends with nothing in flight.
LEMMA FlushEmpties ==
    ASSUME NEW CONSTANT k, Operands(k)!OperandAssumption, Placed(k),
           NEW new, NEW sel, NEW take, NEW ann, NEW retires, NEW traps,
           Stepped(k, new, sel, take, ann, retires, traps), Operands(k)!FlushEnds
    PROVE  /\ InFlight = {} /\ InFlight' = {} /\ Operands(k)!NotAnnounced' = {}
           /\ rrat' = rrat /\ frat' = rrat /\ ~wrongpath'
<1>1. new = <<>> /\ rob = <<>> /\ flushing
  BY DEF Stepped, NewsOK, Operands!FlushEnds
<1>2. ~retires
  BY <1>1 DEF Stepped, RetiresOK
<1>3. InFlight = {}
  BY <1>1, FlightOrder DEF Placed
<1>4. InFlight' = {} /\ Operands(k)!NotAnnounced' = {}
  BY <1>1, <1>3, Stays DEF Stepped, NewIds
<1>5. rrat' = rrat /\ frat' = rrat /\ ~wrongpath'
  BY <1>1, <1>2 DEF Stepped, CoreMove, Commits
<1> QED BY <1>3, <1>4, <1>5

LEMMA NotFlushing ==
    ASSUME NEW CONSTANT k, NEW new, NEW sel, NEW take, NEW ann, NEW retires, NEW traps,
           Stepped(k, new, sel, take, ann, retires, traps), ~flushing'
    PROVE  Operands(k)!FlushEnds \/ (~Operands(k)!FlushEnds /\ GoesOn(retires, traps))
BY DEF Stepped, CoreMove, GoesOn

LEMMA PathMoves ==
    ASSUME NEW CONSTANT k, Operands(k)!OperandAssumption, Placed(k), Placed(k)', PathKnown(k),
           NEW new, NEW sel, NEW take, NEW ann, NEW retires, NEW traps,
           Stepped(k, new, sel, take, ann, retires, traps)
    PROVE  PathKnown(k)'
<1> SUFFICES ASSUME ~flushing'
             PROVE  /\ MapIn(Active', instr', rrat', next', frat')
                    /\ IF wrongpath' THEN \E b \in InFlight' : MisspeculatedBy(k, b)'
                       ELSE /\ \A i \in InFlight' : instr'[i].wrong => i \in inactive'
                            /\ \A i \in Operands(k)!NotAnnounced' : instr'[i].mis => i \in inactive'
  BY DEF PathKnown, MapAt
<1>1. CASE Operands(k)!FlushEnds
  <2>1. /\ InFlight' = {} /\ Operands(k)!NotAnnounced' = {} /\ rrat' = frat' /\ ~wrongpath'
    BY <1>1, FlushEmpties
  <2>2. MapIn(Active', instr', rrat', next', frat')
    BY <2>1 DEF MapIn, Active
  <2> QED BY <2>1, <2>2
<1>2. CASE ~Operands(k)!FlushEnds /\ GoesOn(retires, traps)
  <2>1. CASE Operands(k)!RollsBack(ann)
    BY <1>2, <2>1, PathRollsBack
  <2>2. CASE ~Operands(k)!RollsBack(ann)
    BY <1>2, <2>2, PathGoesOn
  <2> QED BY <2>1, <2>2
<1> QED BY <1>1, <1>2, NotFlushing

LEMMA SourcesMove ==
    ASSUME NEW CONSTANT k, Operands(k)!OperandAssumption, Placed(k), Placed(k)', PathKnown(k),
           SourcesMapped, NEW new, NEW sel, NEW take, NEW ann, NEW retires, NEW traps,
           Stepped(k, new, sel, take, ann, retires, traps)
    PROVE  SourcesMapped'
<1> SUFFICES ASSUME ~flushing', NEW c \in Active', NEW s \in {instr'[c].s1, instr'[c].s2}, s # 0
             PROVE  MapIn(Active', instr', rrat', c, s)
  BY DEF SourcesMapped, MapAt
<1>1. ~Operands(k)!FlushEnds /\ GoesOn(retires, traps)
  BY FlushEmpties, NotFlushing DEF Active
<1>2. /\ \A i \in InFlight \ GoneIds(retires) : instr'[i] = instr[i]
      /\ new # <<>> => instr'[next] = new[1]
      /\ InFlight' = (InFlight \ GoneIds(retires)) \cup NewIds(new)
  BY Stays
<1>3. /\ next \in Nat /\ InFlight \subseteq Nat /\ (\A i \in InFlight : i < next)
      /\ retires => GoneIds(retires) = {Head(rob)}
      /\ retires => \A i \in InFlight : i # Head(rob) => Head(rob) < i
      /\ \A i \in NewIds(new) : i = next /\ new # <<>>
  BY FlightOrder DEF Placed, GoneIds, NewIds, Stepped, RetiresOK
<1>4. /\ \A l \in inactive \ GoneIds(retires) : l \in inactive'
      /\ Operands(k)!RollsBack(ann) =>
            \A l \in InFlight \ GoneIds(retires) : instr[l].wrong => l \in inactive'
  BY InactiveMove
<1>5. CASE c \in InFlight \ GoneIds(retires)
  <2>1. c \in Active /\ s \in {instr[c].s1, instr[c].s2} /\ c \notin inactive'
    BY <1>2, <1>4, <1>5 DEF Active
  <2>2. MapIn(Active, instr, rrat, c, s)
    BY <1>1, <2>1 DEF SourcesMapped, MapAt, GoesOn
  <2>3. c \in Nat /\ c <= next /\ (retires => Head(rob) < c)
    <3>1. c \in Nat /\ c < next
      BY <1>3, <1>5
    <3>2. retires => c # Head(rob)
      BY <1>3, <1>5
    <3> QED BY <1>3, <1>5, <3>1, <3>2
  <2>4. Operands(k)!RollsBack(ann) => \A l \in InFlight : l < c /\ instr[l].wrong => l \in inactive
    <3> SUFFICES ASSUME Operands(k)!RollsBack(ann)
                 PROVE  \A l \in InFlight : l < c /\ instr[l].wrong => l \in inactive
      OBVIOUS
    <3>1. PICK b \in ann : MisspeculatedBy(k, b) /\ b \in Operands(k)!NotAnnounced
      BY RollbackBranch DEF Stepped
    <3>2. /\ \A i \in InFlight : /\ i < b => (instr[i].wrong => i \in inactive)
                                 /\ i > b => instr[i].wrong
      BY <3>1 DEF MisspeculatedBy
    <3>3. ~(c > b)
      BY <1>4, <1>5, <2>1, <3>2
    <3>4. b \in Nat
      BY <1>3, <3>1, Stays
    <3>5. \A l \in InFlight : l < c => l < b
      BY <1>3, <2>3, <3>3, <3>4
    <3> QED BY <3>2, <3>5
  <2> QED BY <1>1, <2>2, <2>3, <2>4, MapKept
<1>6. CASE c \in NewIds(new)
  <2>1. c = next /\ new # <<>> /\ instr'[c] = new[1]
    BY <1>2, <1>3, <1>6
  <2>2. s = frat /\ ~Operands(k)!RollsBack(ann)
    BY <2>1 DEF Stepped, NewsOK, NewOK
  <2>3. MapIn(Active', instr', rrat', next, frat)
    BY <1>1, <2>2, FrontMapKept
  <2> QED BY <2>1, <2>2, <2>3
<1> QED BY <1>2, <1>5, <1>6 DEF Active

-----------------------------------------------------------------------------
(***************************************************************************)
(* A register that is mapped in front of an instruction is not freed, and  *)
(* its value comes into the register file and stays there.                 *)
(***************************************************************************)
LEMMA MappedKept ==
    ASSUME NEW CONSTANT k, Operands(k)!OperandAssumption, Placed(k), Owners(k),
           NEW new, NEW sel, NEW take, NEW ann, NEW retires, NEW traps,
           Stepped(k, new, sel, take, ann, retires, traps), GoesOn(retires, traps),
           NEW c, retires => Head(rob) < c, NEW s, s = 0 \/ MapIn(Active, instr, rrat, c, s)
    PROVE  s \notin Operands(k)!Freed(retires, traps)
<1> SUFFICES ASSUME s \in Operands(k)!Freed(retires, traps) PROVE FALSE
  OBVIOUS
<1>1. \A i \in InFlight : instr[i].dst # 0 =>
          /\ instr[i].dst # rrat /\ \A j \in InFlight : instr[j].dst = instr[i].dst => j = i
  BY DEF Owners
<1>2. /\ s # 0 /\ retires
      /\ \/ s = instr[Head(rob)].dst /\ Head(rob) \in inactive
         \/ s = rrat /\ Head(rob) \notin inactive /\ instr[Head(rob)].dst # 0
  BY DEF Operands!Freed, GoesOn
<1>3. Head(rob) \in InFlight /\ Head(rob) < c
  BY <1>2, FlightOrder DEF Placed, Stepped, RetiresOK
<1>4. \/ s = rrat /\ \A l \in Active : l < c => instr[l].dst = 0
      \/ \E j \in Active : instr[j].dst = s
  BY <1>2 DEF MapIn
<1> QED BY <1>1, <1>2, <1>3, <1>4 DEF Active

LEMMA SourcedStep ==
    ASSUME NEW CONSTANT k, Operands(k)!OperandAssumption, Placed(k), Owners(k),
           NEW new, NEW sel, NEW take, NEW ann, NEW retires, NEW traps,
           Stepped(k, new, sel, take, ann, retires, traps), GoesOn(retires, traps),
           NEW c, retires => Head(rob) < c, NEW s \in Operands(k)!Phys,
           s = 0 \/ MapIn(Active, instr, rrat, c, s), NEW w,
           SourcedIn(valids, entries, Operands(k)!NotAnnounced, instr, c, s, w)
    PROVE  SourcedIn(valids', entries', Operands(k)!NotAnnounced', instr', c, s, w)
<1>1. s \notin Operands(k)!Freed(retires, traps)
  BY MappedKept
<1>2. /\ s \in valids' <=> (s \in valids \/ Writes(k, ann, s))
      /\ entries'[s] = IF Writes(k, ann, s) THEN Writer(k, ann, s) ELSE entries[s]
  BY <1>1 DEF Stepped, FileMove
<1>3. \A i \in InFlight : instr[i].dst # 0 =>
          /\ \A j \in InFlight : instr[j].dst = instr[i].dst => j = i
          /\ i \notin odDone => instr[i].dst \notin valids
  BY DEF Owners
<1>4. /\ \A i \in Operands(k)!NotAnnounced : i \notin ann => instr'[i] = instr[i]
      /\ Operands(k)!NotAnnounced \subseteq InFlight /\ Operands(k)!NotAnnounced \cap odDone = {}
      /\ Operands(k)!NotAnnounced' = (Operands(k)!NotAnnounced \ ann) \cup NewIds(new)
      /\ ann \subseteq Operands(k)!NotAnnounced
  BY Stays DEF Stepped
<1>5. Writes(k, ann, s) => Writer(k, ann, s) \in ann /\ instr[Writer(k, ann, s)].dst = s /\ s # 0
  BY WriterFacts
<1>6. CASE s \in valids /\ entries[s] = w
  <2>1. ~Writes(k, ann, s)
    BY <1>3, <1>4, <1>5, <1>6
  <2> QED BY <1>2, <1>6, <2>1 DEF SourcedIn
<1>7. CASE w \in Operands(k)!NotAnnounced /\ w < c /\ instr[w].dst = s /\ s # 0
  <2>1. CASE w \in ann
    <3>1. Writes(k, ann, s)
      BY <1>7, <2>1 DEF Writes, Operands!Writers
    <3>2. Writer(k, ann, s) = w
      BY <1>3, <1>4, <1>5, <1>7, <3>1
    <3> QED BY <1>2, <3>1, <3>2 DEF SourcedIn
  <2>2. CASE w \notin ann
    BY <1>4, <1>7, <2>2 DEF SourcedIn
  <2> QED BY <2>1, <2>2
<1> QED BY <1>6, <1>7 DEF SourcedIn

\* A source has the value of its producer when it is renamed.
LEMMA ProducerSourced ==
    ASSUME NEW CONSTANT k, Operands(k)!OperandAssumption, Placed(k), Owners(k), PathKnown(k),
           ~flushing, NEW s \in {0, frat}
    PROVE  SourcedIn(valids, entries, Operands(k)!NotAnnounced, instr, next, s, Operands(k)!Producer(s))
<1>1. /\ 0 \in valids /\ entries[0] = 0
  BY DEF Placed, UnitTypes
<1>2. CASE s = 0
  <2>1. Operands(k)!Producer(s) = entries[s]
    BY <1>2 DEF Operands!Producer
  <2> QED BY <1>1, <1>2, <2>1 DEF SourcedIn
<1>3. CASE s # 0 /\ \E i \in Operands(k)!Ids : instr[i].dst = s
  <2>1. PICK i \in Operands(k)!Ids : i = Operands(k)!Producer(s) /\ instr[i].dst = s
    BY <1>3 DEF Operands!Producer
  <2>2. i \in InFlight
    <3>1. i \notin InFlight => instr[i] = Operands(k)!NoInstr
      BY DEF Placed, CoreTypes
    <3> QED BY <1>3, <2>1, <3>1 DEF Operands!NoInstr
  <2>3. i < next /\ InFlight = odDone \cup Operands(k)!NotAnnounced
    BY <2>2, FlightOrder DEF Placed, OnePlace
  <2>4. i \in odDone => s \in valids /\ entries[s] = i
    BY <1>3, <2>1, <2>2 DEF Owners
  <2> QED BY <1>3, <2>1, <2>2, <2>3, <2>4 DEF SourcedIn
<1>4. CASE s # 0 /\ ~\E i \in Operands(k)!Ids : instr[i].dst = s
  <2>1. Operands(k)!Producer(s) = entries[s]
    BY <1>4 DEF Operands!Producer
  <2>2. MapIn(Active, instr, rrat, next, s)
    BY <1>4 DEF PathKnown, MapAt
  <2>3. Active \subseteq Operands(k)!Ids
    BY FlightOrder DEF Active, Placed
  <2>4. s = rrat
    BY <1>4, <2>2, <2>3 DEF MapIn
  <2>5. s \in valids
    BY <2>4 DEF Owners
  <2> QED BY <2>1, <2>5 DEF SourcedIn
<1> QED BY <1>2, <1>3, <1>4

LEMMA WaitingMove ==
    ASSUME NEW CONSTANT k, Operands(k)!OperandAssumption, Placed(k), Placed(k)', Owners(k),
           PathKnown(k), SourcesMapped, WaitingSourced(k),
           NEW new, NEW sel, NEW take, NEW ann, NEW retires, NEW traps,
           Stepped(k, new, sel, take, ann, retires, traps)
    PROVE  WaitingSourced(k)'
<1> SUFFICES ASSUME ~flushing', NEW c \in (Queued' \cup Picked') \ inactive'
    PROVE  /\ SourcedIn(valids', entries', Operands(k)!NotAnnounced', instr', c, instr'[c].s1, instr'[c].want1)
           /\ SourcedIn(valids', entries', Operands(k)!NotAnnounced', instr', c, instr'[c].s2, instr'[c].want2)
  BY DEF WaitingSourced, Sourced
<1>1. /\ \A i \in InFlight \ GoneIds(retires) : instr'[i] = instr[i]
      /\ new # <<>> => instr'[next] = new[1]
      /\ Operands(k)!NotAnnounced \subseteq InFlight \ GoneIds(retires)
      /\ InFlight' = (InFlight \ GoneIds(retires)) \cup NewIds(new)
  BY Stays
<1>2. /\ retires => GoneIds(retires) = {Head(rob)}
      /\ retires => \A i \in InFlight : i # Head(rob) => Head(rob) < i
      /\ \A i \in NewIds(new) : i = next /\ new # <<>>
      /\ retires => Head(rob) < next
  BY FlightOrder DEF Placed, GoneIds, NewIds, Stepped, RetiresOK
<1>3. c \in Queued \cup NewIds(new)
  BY DEF Stepped, IdsMove
<1>4. Queued \subseteq Operands(k)!NotAnnounced
  BY NotAnnouncedPlaces DEF Placed
<1>5. ~Operands(k)!FlushEnds /\ GoesOn(retires, traps)
  <2>1. ~Operands(k)!FlushEnds
    BY <1>1, <1>3, <1>4, FlushEmpties
  <2> QED BY <2>1, NotFlushing
<1>6. \A i \in Operands(k)!Ids : instr[i].s1 \in Operands(k)!Phys /\ instr[i].s2 \in Operands(k)!Phys
  <2> SUFFICES ASSUME NEW i \in Operands(k)!Ids
               PROVE  instr[i].s1 \in Operands(k)!Phys /\ instr[i].s2 \in Operands(k)!Phys
    OBVIOUS
  <2>1. instr[i] \in Instrs(k)
    BY DEF Placed, CoreTypes
  <2> QED BY <2>1 DEF Instrs
<1>7. CASE c \in Queued
  <2>1. c \in InFlight \ GoneIds(retires) /\ c \in Operands(k)!Ids
    BY <1>1, <1>4, <1>7, Stays
  <2>2. c \notin inactive
    BY <2>1, InactiveMove
  <2>3. /\ SourcedIn(valids, entries, Operands(k)!NotAnnounced, instr, c, instr[c].s1, instr[c].want1)
        /\ SourcedIn(valids, entries, Operands(k)!NotAnnounced, instr, c, instr[c].s2, instr[c].want2)
    BY <1>5, <1>7, <2>2 DEF WaitingSourced, Sourced, GoesOn
  <2>4. /\ instr[c].s1 = 0 \/ MapIn(Active, instr, rrat, c, instr[c].s1)
        /\ instr[c].s2 = 0 \/ MapIn(Active, instr, rrat, c, instr[c].s2)
    BY <1>5, <2>1, <2>2 DEF SourcesMapped, GoesOn, Active, MapAt
  <2>5. retires => Head(rob) < c
    BY <1>2, <2>1
  <2>6. SourcedIn(valids', entries', Operands(k)!NotAnnounced', instr', c, instr[c].s1, instr[c].want1)
    BY <1>5, <1>6, <2>1, <2>3, <2>4, <2>5, SourcedStep
  <2>7. SourcedIn(valids', entries', Operands(k)!NotAnnounced', instr', c, instr[c].s2, instr[c].want2)
    BY <1>5, <1>6, <2>1, <2>3, <2>4, <2>5, SourcedStep
  <2> QED BY <1>1, <2>1, <2>6, <2>7
<1>8. CASE c \in NewIds(new)
  <2>1. c = next /\ new # <<>> /\ instr'[c] = new[1] /\ (retires => Head(rob) < c)
    BY <1>1, <1>2, <1>8
  <2>2. ASSUME NEW s \in {0, frat}
        PROVE  SourcedIn(valids', entries', Operands(k)!NotAnnounced', instr', c, s, Operands(k)!Producer(s))
    <3>1. SourcedIn(valids, entries, Operands(k)!NotAnnounced, instr, c, s, Operands(k)!Producer(s))
      BY <1>5, <2>1, ProducerSourced DEF GoesOn
    <3>2. s = 0 \/ MapIn(Active, instr, rrat, c, s)
      BY <1>5, <2>1 DEF PathKnown, MapAt, GoesOn
    <3>3. s \in Operands(k)!Phys
      <4>1. frat \in Operands(k)!Phys
        BY DEF Placed, CoreTypes
      <4>2. 0 \in Operands(k)!Phys
        BY OdConstants
      <4> QED BY <4>1, <4>2
    <3> QED BY <1>5, <2>1, <3>1, <3>2, <3>3, SourcedStep
  <2>3. /\ instr'[c].s1 \in {0, frat} /\ instr'[c].s2 \in {0, frat}
        /\ instr'[c].want1 = Operands(k)!Producer(instr'[c].s1)
        /\ instr'[c].want2 = Operands(k)!Producer(instr'[c].s2)
    BY <2>1 DEF Stepped, NewsOK, NewOK
  <2> QED BY <2>2, <2>3
<1> QED BY <1>3, <1>7, <1>8

-----------------------------------------------------------------------------
(***************************************************************************)
(* The rows and the functional units: an operand comes with the value of   *)
(* its producer, or its producer is still to announce it.                  *)
(***************************************************************************)
\* In the next state; c, rp, v and w are values.
HeldNext(k, c, rp, v, w) ==
    /\ rp = 0 /\ ~flushing' /\ ~instr[c].wrong => v = w
    /\ rp # 0 => \E i \in Operands(k)!NotAnnounced' :
                    /\ i < c /\ instr'[i].dst = rp
                    /\ ~flushing' /\ ~instr[c].wrong => w = i

\* Whoever is in flight sees no end of a flush.
LEMMA FlightGoesOn ==
    ASSUME NEW CONSTANT k, Operands(k)!OperandAssumption, Placed(k),
           NEW new, NEW sel, NEW take, NEW ann, NEW retires, NEW traps,
           Stepped(k, new, sel, take, ann, retires, traps),
           NEW c, c \in Operands(k)!NotAnnounced, ~flushing'
    PROVE  GoesOn(retires, traps)
<1>1. InFlight # {}
  BY Stays
<1>2. ~Operands(k)!FlushEnds
  BY <1>1, FlushEmpties
<1> QED BY <1>2, NotFlushing

\* One register has one owner, and is not valid before it is written.
LEMMA OneOwner ==
    ASSUME NEW CONSTANT k, Operands(k)!OperandAssumption, Placed(k), Owners(k),
           NEW new, NEW sel, NEW take, NEW ann, NEW retires, NEW traps,
           Stepped(k, new, sel, take, ann, retires, traps)
    PROVE  \A w \in Operands(k)!NotAnnounced : instr[w].dst # 0 =>
              /\ instr[w].dst \notin valids
              /\ Writes(k, ann, instr[w].dst) => w \in ann /\ Writer(k, ann, instr[w].dst) = w
              /\ w \notin ann => w \in Operands(k)!NotAnnounced' /\ instr'[w] = instr[w]
<1> SUFFICES ASSUME NEW w \in Operands(k)!NotAnnounced, instr[w].dst # 0
             PROVE  /\ instr[w].dst \notin valids
                    /\ Writes(k, ann, instr[w].dst) => w \in ann /\ Writer(k, ann, instr[w].dst) = w
                    /\ w \notin ann => w \in Operands(k)!NotAnnounced' /\ instr'[w] = instr[w]
  OBVIOUS
<1>1. /\ \A i \in Operands(k)!NotAnnounced : i \notin ann => instr'[i] = instr[i]
      /\ Operands(k)!NotAnnounced \subseteq InFlight /\ Operands(k)!NotAnnounced \cap odDone = {}
  BY Stays
<1>2. /\ Operands(k)!NotAnnounced' = (Operands(k)!NotAnnounced \ ann) \cup NewIds(new)
      /\ ann \subseteq Operands(k)!NotAnnounced
  BY DEF Stepped
<1>3. \A i \in InFlight : instr[i].dst # 0 =>
          /\ \A j \in InFlight : instr[j].dst = instr[i].dst => j = i
          /\ i \notin odDone => instr[i].dst \notin valids
  BY DEF Owners
<1>4. Writes(k, ann, instr[w].dst) => /\ Writer(k, ann, instr[w].dst) \in ann
                                      /\ instr[Writer(k, ann, instr[w].dst)].dst = instr[w].dst
  BY WriterFacts
<1> QED BY <1>1, <1>2, <1>3, <1>4

\* An instruction on its way into a row, with what it read from the register file.
LEMMA InsertedOperand ==
    ASSUME NEW CONSTANT k, Operands(k)!OperandAssumption, Placed(k), Owners(k),
           NEW new, NEW sel, NEW take, NEW ann, NEW retires, NEW traps,
           Stepped(k, new, sel, take, ann, retires, traps),
           NEW c, c \in Operands(k)!NotAnnounced, NEW s, NEW w,
           ~flushing /\ c \notin inactive =>
              SourcedIn(valids, entries, Operands(k)!NotAnnounced, instr, c, s, w),
           NEW rp, rp = IF ReadWaits(k, ann, c, s) THEN s ELSE 0, NEW v, v = ReadValue(k, ann, s)
    PROVE  HeldNext(k, c, rp, v, w)
<1>1. 0 \in valids /\ \A i \in inactive : instr[i].wrong
  BY DEF Placed, CoreTypes, UnitTypes
<1>2. ~flushing' => ~flushing
  BY FlightGoesOn DEF GoesOn
<1>3. \A x \in Operands(k)!NotAnnounced : instr[x].dst # 0 =>
              /\ instr[x].dst \notin valids
              /\ Writes(k, ann, instr[x].dst) => x \in ann /\ Writer(k, ann, instr[x].dst) = x
              /\ x \notin ann => x \in Operands(k)!NotAnnounced' /\ instr'[x] = instr[x]
  BY OneOwner
<1>4. Writes(k, ann, s) => /\ Writer(k, ann, s) \in Operands(k)!NotAnnounced
                           /\ instr[Writer(k, ann, s)].dst = s /\ s # 0
  BY WriterFacts DEF Stepped
<1>5. ASSUME rp = 0, ~flushing', ~instr[c].wrong PROVE v = w
  <2>1. ~flushing /\ c \notin inactive
    BY <1>1, <1>2, <1>5
  <2>2. \/ s \in valids /\ entries[s] = w
        \/ w \in Operands(k)!NotAnnounced /\ instr[w].dst = s /\ s # 0
    BY <2>1 DEF SourcedIn
  <2>3. Writes(k, ann, s) \/ s \in valids
    BY <1>1, <1>5, <2>1 DEF ReadWaits, Operands!SkipSources
  <2>4. CASE Writes(k, ann, s)
    <3>1. s \notin valids
      BY <1>3, <1>4, <2>4
    <3> QED BY <1>3, <2>2, <2>4, <3>1 DEF ReadValue
  <2>5. CASE ~Writes(k, ann, s)
    BY <1>3, <2>2, <2>3, <2>5 DEF ReadValue
  <2> QED BY <2>4, <2>5
<1>6. ASSUME rp # 0
      PROVE  /\ w \in Operands(k)!NotAnnounced' /\ w < c /\ instr'[w].dst = rp
  <2>1. ~Writes(k, ann, s) /\ s \notin valids /\ ~flushing /\ c \notin inactive /\ rp = s
    BY <1>6 DEF ReadWaits, Operands!SkipSources
  <2>2. w \in Operands(k)!NotAnnounced /\ w < c /\ instr[w].dst = s /\ s # 0
    BY <2>1 DEF SourcedIn
  <2>3. w \notin ann
    BY <2>1, <2>2 DEF Writes, Operands!Writers
  <2> QED BY <1>3, <2>1, <2>2, <2>3
<1> QED BY <1>5, <1>6 DEF HeldNext

\* A row that stays, with what an announcement leaves in it.
LEMMA KeptOperand ==
    ASSUME NEW CONSTANT k, Operands(k)!OperandAssumption, Placed(k), Owners(k),
           NEW new, NEW sel, NEW take, NEW ann, NEW retires, NEW traps,
           Stepped(k, new, sel, take, ann, retires, traps),
           NEW c, c \in Operands(k)!NotAnnounced, NEW p, NEW u, NEW w, OperandHeld(k, c, p, u, w),
           NEW rp, rp = IF Writes(k, ann, p) THEN 0 ELSE p,
           NEW v, v = IF Writes(k, ann, p) THEN Writer(k, ann, p) ELSE u
    PROVE  HeldNext(k, c, rp, v, w)
<1>2. ~flushing' => ~flushing
  BY FlightGoesOn DEF GoesOn
<1>3. \A x \in Operands(k)!NotAnnounced : instr[x].dst # 0 =>
              /\ Writes(k, ann, instr[x].dst) => x \in ann /\ Writer(k, ann, instr[x].dst) = x
              /\ x \notin ann => x \in Operands(k)!NotAnnounced' /\ instr'[x] = instr[x]
  BY OneOwner
<1>4. Writes(k, ann, p) => p # 0
  BY WriterFacts
<1>5. /\ p = 0 /\ ~flushing /\ ~instr[c].wrong => u = w
      /\ p # 0 => \E i \in Operands(k)!NotAnnounced :
                    /\ i < c /\ instr[i].dst = p /\ (~flushing /\ ~instr[c].wrong => w = i)
  BY DEF OperandHeld
<1>6. CASE p = 0
  BY <1>2, <1>4, <1>5, <1>6 DEF HeldNext
<1>7. CASE p # 0
  <2>1. PICK i \in Operands(k)!NotAnnounced :
           i < c /\ instr[i].dst = p /\ (~flushing /\ ~instr[c].wrong => w = i)
    BY <1>5, <1>7
  <2>2. CASE Writes(k, ann, p)
    <3>1. rp = 0 /\ v = i
      BY <1>3, <1>7, <2>1, <2>2
    <3> QED BY <1>2, <2>1, <3>1 DEF HeldNext
  <2>3. CASE ~Writes(k, ann, p)
    <3>1. rp = p /\ v = u /\ i \notin ann
      BY <1>7, <2>1, <2>3 DEF Writes, Operands!Writers
    <3>2. i \in Operands(k)!NotAnnounced' /\ instr'[i] = instr[i]
      BY <1>3, <1>7, <2>1, <3>1
    <3> QED BY <1>2, <1>7, <2>1, <3>1, <3>2 DEF HeldNext
  <2> QED BY <2>2, <2>3
<1> QED BY <1>6, <1>7

\* Both operands of a full row.
LEMMA RowOperands ==
    ASSUME NEW CONSTANT k, Operands(k)!OperandAssumption, Placed(k), Owners(k),
           WaitingSourced(k), RowsRight(k), NEW new, NEW sel, NEW take, NEW ann, NEW retires, NEW traps,
           Stepped(k, new, sel, take, ann, retires, traps),
           NEW j \in Operands(k)!RSs, NEW e \in Operands(k)!Rows, NEW r, r = rs'[j][e], r.full
    PROVE  /\ r.id \in Operands(k)!NotAnnounced
           /\ HeldNext(k, r.id, r.rp1, r.v1, instr[r.id].want1)
           /\ HeldNext(k, r.id, r.rp2, r.v2, instr[r.id].want2)
<1>1. RowStep(k, take, ann, j, e)
  BY DEF Stepped
<1>2. Operands(k)!NotAnnounced = Queued \cup Picked \cup Stored(k) \cup Executing
  BY NotAnnouncedPlaces DEF Placed
<1>3. CASE \E n \in DOMAIN picked : r.id = picked[n].id /\ IsInserted(k, ann, picked[n], r)
  <2>1. PICK n \in DOMAIN picked : r.id = picked[n].id /\ IsInserted(k, ann, picked[n], r)
    BY <1>3
  <2>2. PICK c, s1, s2, w1, w2 : /\ c = picked[n].id /\ s1 = instr[c].s1 /\ s2 = instr[c].s2
                                 /\ w1 = instr[c].want1 /\ w2 = instr[c].want2
    OBVIOUS
  <2>3. c \in Picked /\ c \in Operands(k)!NotAnnounced
    BY <1>2, <2>1, <2>2 DEF Picked
  <2>4. /\ r.rp1 = IF ReadWaits(k, ann, c, s1) THEN s1 ELSE 0
        /\ r.rp2 = IF ReadWaits(k, ann, c, s2) THEN s2 ELSE 0
        /\ r.v1 = ReadValue(k, ann, s1) /\ r.v2 = ReadValue(k, ann, s2)
    BY <2>1, <2>2 DEF IsInserted
  <2>5. ~flushing /\ c \notin inactive =>
           /\ SourcedIn(valids, entries, Operands(k)!NotAnnounced, instr, c, s1, w1)
           /\ SourcedIn(valids, entries, Operands(k)!NotAnnounced, instr, c, s2, w2)
    BY <2>2, <2>3 DEF WaitingSourced, Sourced
  <2>6. PICK rp1, rp2, v1, v2 : rp1 = r.rp1 /\ rp2 = r.rp2 /\ v1 = r.v1 /\ v2 = r.v2
    OBVIOUS
  <2>7. HeldNext(k, c, rp1, v1, w1)
    BY <2>3, <2>4, <2>5, <2>6, InsertedOperand
  <2>8. HeldNext(k, c, rp2, v2, w2)
    BY <2>3, <2>4, <2>5, <2>6, InsertedOperand
  <2> QED BY <2>1, <2>2, <2>3, <2>6, <2>7, <2>8
<1>4. CASE rs[j][e].full /\ r.id = rs[j][e].id /\ IsUpdated(k, ann, rs[j][e], r)
  <2>1. PICK row, c, w1, w2 : row = rs[j][e] /\ c = row.id /\ w1 = instr[c].want1 /\ w2 = instr[c].want2
    OBVIOUS
  <2>2. c \in Operands(k)!NotAnnounced
    <3>1. rs[j][e] \in RowType(k)
      BY DEF Placed, UnitTypes
    <3>2. c \in 0 .. k.instrs
      BY <2>1, <3>1 DEF RowType
    <3>3. c \in Stored(k)
      BY <1>4, <2>1, <3>2 DEF Stored
    <3> QED BY <1>2, <3>3
  <2>3. OperandHeld(k, c, row.rp1, row.v1, w1) /\ OperandHeld(k, c, row.rp2, row.v2, w2)
    BY <1>4, <2>1 DEF RowsRight
  <2>4. PICK p1, p2, u1, u2 : p1 = row.rp1 /\ p2 = row.rp2 /\ u1 = row.v1 /\ u2 = row.v2
    OBVIOUS
  <2>5. PICK rp1, rp2, v1, v2 : rp1 = r.rp1 /\ rp2 = r.rp2 /\ v1 = r.v1 /\ v2 = r.v2
    OBVIOUS
  <2>6. /\ rp1 = IF Writes(k, ann, p1) THEN 0 ELSE p1
        /\ rp2 = IF Writes(k, ann, p2) THEN 0 ELSE p2
        /\ v1 = IF Writes(k, ann, p1) THEN Writer(k, ann, p1) ELSE u1
        /\ v2 = IF Writes(k, ann, p2) THEN Writer(k, ann, p2) ELSE u2
    BY <1>4, <2>1, <2>4, <2>5 DEF IsUpdated
  <2>7. HeldNext(k, c, rp1, v1, w1)
    BY <2>2, <2>3, <2>4, <2>6, KeptOperand
  <2>8. HeldNext(k, c, rp2, v2, w2)
    BY <2>2, <2>3, <2>4, <2>6, KeptOperand
  <2> QED BY <1>4, <2>1, <2>2, <2>5, <2>7, <2>8
<1> QED BY <1>1, <1>3, <1>4, FullRow

LEMMA RowIdsNext ==
    ASSUME NEW CONSTANT k
    PROVE  UnitTypes(k)' => \A j \in Operands(k)!RSs, e \in Operands(k)!Rows : rs'[j][e].id \in 0 .. k.instrs
<1>1. UnitTypes(k) => \A j \in Operands(k)!RSs, e \in Operands(k)!Rows : rs[j][e].id \in 0 .. k.instrs
  <2> SUFFICES ASSUME UnitTypes(k), NEW j \in Operands(k)!RSs, NEW e \in Operands(k)!Rows
               PROVE  rs[j][e].id \in 0 .. k.instrs
    OBVIOUS
  <2>1. rs[j][e] \in RowType(k)
    BY DEF UnitTypes
  <2> QED BY <2>1 DEF RowType
<1>2. (UnitTypes(k) => \A j \in Operands(k)!RSs, e \in Operands(k)!Rows : rs[j][e].id \in 0 .. k.instrs)'
  BY <1>1, PTL
<1> QED BY <1>2 DEF Operands!RSs, Operands!Rows

LEMMA RowsRightMove ==
    ASSUME NEW CONSTANT k, Operands(k)!OperandAssumption, Placed(k), Placed(k)', Owners(k),
           WaitingSourced(k), RowsRight(k), NEW new, NEW sel, NEW take, NEW ann, NEW retires, NEW traps,
           Stepped(k, new, sel, take, ann, retires, traps)
    PROVE  RowsRight(k)'
<1> SUFFICES ASSUME NEW j \in Operands(k)!RSs, NEW e \in Operands(k)!Rows, rs'[j][e].full
    PROVE  /\ OperandHeld(k, rs[j][e].id, rs[j][e].rp1, rs[j][e].v1, instr[rs[j][e].id].want1)'
           /\ OperandHeld(k, rs[j][e].id, rs[j][e].rp2, rs[j][e].v2, instr[rs[j][e].id].want2)'
  BY DEF RowsRight, Operands!RSs, Operands!Rows
<1>1. PICK r : r = rs'[j][e]
  OBVIOUS
<1>2. /\ r.id \in Operands(k)!NotAnnounced
      /\ HeldNext(k, r.id, r.rp1, r.v1, instr[r.id].want1)
      /\ HeldNext(k, r.id, r.rp2, r.v2, instr[r.id].want2)
  BY <1>1, RowOperands
<1>3. r.id \notin ann
  <2>1. r.id \in Stored(k)'
    <3>1. rs'[j][e].id \in 0 .. k.instrs
      BY RowIdsNext DEF Placed
    <3>2. r.id \in 0 .. k.instrs
      BY <1>1, <3>1
    <3> QED BY <1>1, <3>2 DEF Stored, Operands!RSs, Operands!Rows
  <2>2. r.id \in Operands(k)!NotAnnounced'
    BY <2>1, NotAnnouncedNext DEF Placed
  <2>3. Operands(k)!NotAnnounced' = (Operands(k)!NotAnnounced \ ann) \cup NewIds(new)
    BY DEF Stepped
  <2>4. r.id \notin NewIds(new)
    BY <1>2, Stays DEF NewIds
  <2> QED BY <2>2, <2>3, <2>4
<1>4. instr'[r.id] = instr[r.id]
  BY <1>2, <1>3, Stays
<1> QED BY <1>1, <1>2, <1>4 DEF HeldNext, OperandHeld

LEMMA ResultsRightMove ==
    ASSUME NEW CONSTANT k, Operands(k)!OperandAssumption, Placed(k), RowsRight(k), ResultsRight,
           NEW new, NEW sel, NEW take, NEW ann, NEW retires, NEW traps,
           Stepped(k, new, sel, take, ann, retires, traps)
    PROVE  ResultsRight'
<1> SUFFICES ASSUME NEW x \in executing', ~flushing', ~instr'[x.id].wrong
             PROVE  x.v1 = instr'[x.id].want1 /\ x.v2 = instr'[x.id].want2
  BY DEF ResultsRight
<1>1. x.id \notin ann /\ (x \in executing \/ FromRow(k, take, x)) /\ TakesOK(k, take)
  BY DEF Stepped
<1>2. Operands(k)!NotAnnounced = Queued \cup Picked \cup Stored(k) \cup Executing
  BY NotAnnouncedPlaces DEF Placed
<1>3. CASE x \in executing
  <2>1. x.id \in Operands(k)!NotAnnounced
    BY <1>2, <1>3 DEF Executing
  <2>2. instr'[x.id] = instr[x.id]
    BY <1>1, <2>1, Stays
  <2>3. ~flushing
    BY <2>1, FlightGoesOn DEF GoesOn
  <2> QED BY <1>3, <2>2, <2>3 DEF ResultsRight
<1>4. CASE FromRow(k, take, x)
  <2>1. PICK j \in Operands(k)!RSs, e \in Operands(k)!Rows :
           /\ Takes(k, take, j, e)
           /\ x = [id |-> rs[j][e].id, v1 |-> rs[j][e].v1, v2 |-> rs[j][e].v2]
    BY <1>4 DEF FromRow
  <2>2. rs[j][e].full /\ rs[j][e].rp1 = 0 /\ rs[j][e].rp2 = 0
    BY <1>1, <2>1, TakenAreFull
  <2>3. x.id = rs[j][e].id /\ x.v1 = rs[j][e].v1 /\ x.v2 = rs[j][e].v2
    BY <2>1
  <2>4. x.id \in Operands(k)!NotAnnounced
    <3>1. rs[j][e] \in RowType(k)
      BY DEF Placed, UnitTypes
    <3>2. x.id \in 0 .. k.instrs
      BY <2>3, <3>1 DEF RowType
    <3>3. x.id \in Stored(k)
      BY <2>2, <2>3, <3>2 DEF Stored
    <3> QED BY <1>2, <3>3
  <2>5. instr'[x.id] = instr[x.id]
    BY <1>1, <2>4, Stays
  <2>6. ~flushing
    BY <2>4, FlightGoesOn DEF GoesOn
  <2>7. /\ OperandHeld(k, x.id, 0, x.v1, instr[x.id].want1)
        /\ OperandHeld(k, x.id, 0, x.v2, instr[x.id].want2)
    BY <2>2, <2>3 DEF RowsRight
  <2> QED BY <2>5, <2>6, <2>7 DEF OperandHeld
<1> QED BY <1>1, <1>3, <1>4

-----------------------------------------------------------------------------
(***************************************************************************)
(* The invariant is inductive.                                             *)
(***************************************************************************)
LEMMA OdInvHappens ==
    ASSUME NEW CONSTANT k, Operands(k)!OperandAssumption, OdInv(k),
           NEW new, NEW sel, NEW take, NEW ann, NEW retires, NEW traps,
           Happens(k, new, sel, take, ann, retires, traps)
    PROVE  OdInv(k)'
<1>1. /\ Placed(k) /\ Owners(k) /\ PathKnown(k) /\ SourcesMapped /\ WaitingSourced(k)
      /\ RowsRight(k) /\ ResultsRight
  BY DEF OdInv, Placed
<1>2. Placed(k)' /\ Stepped(k, new, sel, take, ann, retires, traps)
  BY <1>1, PlacedMoves
<1>3. Owners(k)'
  BY <1>1, <1>2, OwnersMove
<1>4. PathKnown(k)'
  BY <1>1, <1>2, PathMoves
<1>5. SourcesMapped'
  BY <1>1, <1>2, SourcesMove
<1>6. WaitingSourced(k)'
  BY <1>1, <1>2, WaitingMove
<1>7. RowsRight(k)'
  BY <1>1, <1>2, RowsRightMove
<1>8. ResultsRight'
  BY <1>1, <1>2, ResultsRightMove
<1> QED BY <1>2, <1>3, <1>4, <1>5, <1>6, <1>7, <1>8 DEF OdInv, Placed

LEMMA NextHappens ==
    ASSUME NEW CONSTANT k, Operands(k)!Next
    PROVE  \E new, sel, take, ann, retires, traps : Happens(k, new, sel, take, ann, retires, traps)
<1>1. ASSUME NEW r \in Operands(k)!RetireChoices PROVE <<r[1], r[2]>> = r
  <2>1. r = <<FALSE, FALSE>> \/ r = <<TRUE, FALSE>> \/ r = <<TRUE, TRUE>>
    BY DEF Operands!RetireChoices
  <2>2. ASSUME NEW a, NEW b, r = <<a, b>> PROVE <<r[1], r[2]>> = r
    BY <2>2
  <2> QED BY <2>1, <2>2
<1>2. CASE Operands(k)!Quiet
  <2>1. PICK sel \in Operands(k)!Selections, take \in Operands(k)!TakeChoices :
           \E ann \in Operands(k)!Announcements(take), r \in Operands(k)!RetireChoices :
              Operands(k)!Cycle(<<>>, sel, take, ann, r[1], r[2])
    BY <1>2, Zenon DEF Operands!Quiet, Operands!Step
  <2>2. PICK ann \in Operands(k)!Announcements(take), r \in Operands(k)!RetireChoices :
           Operands(k)!Cycle(<<>>, sel, take, ann, r[1], r[2])
    BY <2>1
  <2>3. Happens(k, <<>>, sel, take, ann, r[1], r[2])
    BY <1>1, <2>1, <2>2, Zenon DEF Happens
  <2> QED BY <2>3
<1>3. CASE Operands(k)!Dispatch
  <2>1. /\ ~Operands(k)!FlushEnds
        /\ \E i \in Operands(k)!NewInstrs :
              /\ Operands(k)!Dispatchable(i)
              /\ \E sel \in Operands(k)!Selections, take \in Operands(k)!TakeChoices :
                    \E ann \in Operands(k)!Announcements(take), r \in Operands(k)!RetireChoices :
                       /\ ~Operands(k)!RollsBack(ann)
                       /\ Operands(k)!Cycle(<<i>>, sel, take, ann, r[1], r[2])
    BY <1>3, Zenon DEF Operands!Dispatch
  <2>2. PICK i \in Operands(k)!NewInstrs :
           /\ Operands(k)!Dispatchable(i)
           /\ \E sel \in Operands(k)!Selections, take \in Operands(k)!TakeChoices :
                 \E ann \in Operands(k)!Announcements(take), r \in Operands(k)!RetireChoices :
                    /\ ~Operands(k)!RollsBack(ann)
                    /\ Operands(k)!Cycle(<<i>>, sel, take, ann, r[1], r[2])
    BY <2>1
  <2>3. PICK sel \in Operands(k)!Selections, take \in Operands(k)!TakeChoices :
           \E ann \in Operands(k)!Announcements(take), r \in Operands(k)!RetireChoices :
              /\ ~Operands(k)!RollsBack(ann)
              /\ Operands(k)!Cycle(<<i>>, sel, take, ann, r[1], r[2])
    BY <2>2
  <2>4. PICK ann \in Operands(k)!Announcements(take), r \in Operands(k)!RetireChoices :
           /\ ~Operands(k)!RollsBack(ann)
           /\ Operands(k)!Cycle(<<i>>, sel, take, ann, r[1], r[2])
    BY <2>3
  <2>5. Happens(k, <<i>>, sel, take, ann, r[1], r[2])
    BY <1>1, <2>1, <2>2, <2>3, <2>4, Zenon DEF Happens
  <2> QED BY <2>5
<1> QED BY <1>2, <1>3, Zenon DEF Operands!Next

LEMMA OdInvStays ==
    ASSUME NEW CONSTANT k, OdInv(k), UNCHANGED Operands(k)!vars
    PROVE  OdInv(k)'
<1>1. /\ next' = next /\ frat' = frat /\ rrat' = rrat /\ freelist' = freelist /\ saved' = saved
      /\ wrongpath' = wrongpath /\ inactive' = inactive /\ flushing' = flushing /\ rob' = rob
      /\ odDone' = odDone /\ instr' = instr /\ queue' = queue /\ picked' = picked /\ rs' = rs
      /\ alloc' = alloc /\ executing' = executing /\ valids' = valids /\ entries' = entries
  BY DEF Operands!vars, Operands!core
<1>2. InFlight' = InFlight /\ Active' = Active /\ Queued' = Queued /\ Picked' = Picked
  BY <1>1 DEF InFlight, Active, Queued, Picked
<1>3. Executing' = Executing /\ Stored(k)' = Stored(k)
  BY <1>1 DEF Executing, Stored, Operands!RSs, Operands!Rows
<1>4. Operands(k)!NotAnnounced' = Operands(k)!NotAnnounced
  BY <1>1 DEF Operands!NotAnnounced, Operands!Waiting, Operands!InRows, Operands!RowOf,
              Operands!Rows, Operands!RSs
<1>5. Held(k, "main")' = Held(k, "main") /\ Held(k, "fifo")' = Held(k, "fifo")
  BY <1>1 DEF Held, Operands!Rows
<1>6. CoreTypes(k)'
  BY <1>1, <1>2 DEF OdInv, CoreTypes, Operands!Phys, Operands!Ids, Operands!NoInstr, Instrs
<1>7. UnitTypes(k)'
  BY <1>1 DEF OdInv, UnitTypes, Operands!Phys, Operands!Ids, Operands!Rows, Operands!RSs,
              Choices, RowType, Results
<1>8. OnePlace(k)'
  BY <1>1, <1>2, <1>3, <1>4 DEF OdInv, OnePlace, Operands!Rows, Operands!RSs
<1>9. RowsHeld(k)'
  BY <1>1, <1>5 DEF OdInv, RowsHeld, Operands!Rows, Operands!RSs
<1>10. Owners(k)'
  BY <1>1, <1>2 DEF OdInv, Owners
<1>11. PathKnown(k)'
  BY <1>1, <1>2, <1>4 DEF OdInv, PathKnown, MisspeculatedBy, MapAt
<1>12. SourcesMapped'
  BY <1>1, <1>2 DEF OdInv, SourcesMapped, MapAt
<1>13. WaitingSourced(k)'
  BY <1>1, <1>2, <1>4 DEF OdInv, WaitingSourced, Sourced
<1>14. RowsRight(k)'
  BY <1>1, <1>4 DEF OdInv, RowsRight, OperandHeld, Operands!Rows, Operands!RSs
<1>15. ResultsRight'
  BY <1>1 DEF OdInv, ResultsRight
<1> QED BY <1>6, <1>7, <1>8, <1>9, <1>10, <1>11, <1>12, <1>13, <1>14, <1>15 DEF OdInv

LEMMA OdInvStep ==
    ASSUME NEW CONSTANT k, Operands(k)!OperandAssumption, OdInv(k),
           [Operands(k)!Next]_(Operands(k)!vars)
    PROVE  OdInv(k)'
<1>1. CASE Operands(k)!Next
  <2>1. PICK new, sel, take, ann, retires, traps : Happens(k, new, sel, take, ann, retires, traps)
    BY <1>1, NextHappens
  <2> QED BY <2>1, OdInvHappens
<1>2. CASE UNCHANGED Operands(k)!vars
  BY <1>2, OdInvStays
<1> QED BY <1>1, <1>2

LEMMA OdInvInit ==
    ASSUME NEW CONSTANT k, Operands(k)!OperandAssumption, Operands(k)!Init
    PROVE  OdInv(k)
<1>1. /\ k.instrs \in Nat \ {0} /\ k.regs \in Nat \ {0} /\ k.rows \in Nat \ {0}
      /\ Operands(k)!Ids = 1 .. k.instrs /\ Operands(k)!Phys = 0 .. k.regs
      /\ Operands(k)!Rows = 1 .. k.rows /\ Operands(k)!RSs = {"main", "fifo"}
  BY OdConstants
<1>2. /\ next = 1 /\ frat = 0 /\ rrat = 0 /\ freelist = 1 .. k.regs /\ saved = 0
      /\ wrongpath = FALSE /\ inactive = {} /\ flushing = FALSE /\ rob = <<>> /\ odDone = {}
      /\ instr = [i \in Operands(k)!Ids |-> Operands(k)!NoInstr]
      /\ queue = <<>> /\ picked = <<>> /\ executing = {} /\ valids = {0}
  BY DEF Operands!Init
<1>3. /\ rs = [j \in Operands(k)!RSs |-> [e \in Operands(k)!Rows |-> Operands(k)!EmptyRow]]
      /\ entries = [p \in Operands(k)!Phys |-> 0]
  BY DEF Operands!Init
<1>4. /\ alloc.main.order = [m \in Operands(k)!Rows |-> m] /\ alloc.main.used = 0
      /\ alloc.fifo.front = 1 /\ alloc.fifo.back = 1 /\ alloc.fifo.reserved = {}
  BY DEF Operands!Init
<1>5. /\ \A j \in Operands(k)!RSs, e \in Operands(k)!Rows : rs[j][e] = Operands(k)!EmptyRow /\ ~rs[j][e].full
      /\ rs \in [Operands(k)!RSs -> [Operands(k)!Rows -> RowType(k)]]
  <2>1. Operands(k)!EmptyRow.full = FALSE
    BY DEF Operands!EmptyRow
  <2>2. Operands(k)!EmptyRow \in RowType(k)
    BY <1>1 DEF Operands!EmptyRow, RowType
  <2> QED BY <1>3, <2>1, <2>2
<1>6. InFlight = {} /\ Queued = {} /\ Picked = {} /\ Executing = {} /\ Active = {} /\ Stored(k) = {}
  BY <1>2, <1>5 DEF InFlight, Queued, Picked, Executing, Active, Stored
<1>7. UnitTypes(k)
  BY <1>1, <1>2, <1>3, <1>5 DEF UnitTypes
<1>8. Operands(k)!NotAnnounced = {}
  BY <1>6, <1>7, NotAnnouncedPlaces
<1>9. CoreTypes(k)
  <2>1. Operands(k)!NoInstr \in Instrs(k) /\ Operands(k)!NoInstr.mis = FALSE
    BY <1>1 DEF Operands!NoInstr, Instrs
  <2>2. /\ instr \in [Operands(k)!Ids -> Instrs(k)]
        /\ \A i \in Operands(k)!Ids : instr[i] = Operands(k)!NoInstr /\ ~instr[i].mis
    BY <1>2, <2>1
  <2>3. rob \in Seq(Operands(k)!Ids) /\ Len(rob) = 0 /\ DOMAIN rob = {}
    BY <1>2
  <2>4. /\ next \in 1 .. k.instrs + 1 /\ frat \in Operands(k)!Phys /\ rrat \in Operands(k)!Phys
        /\ saved \in Operands(k)!Phys /\ Len(rob) < next
    BY <1>1, <1>2, <2>3
  <2>5. wrongpath \in BOOLEAN /\ flushing \in BOOLEAN /\ freelist \subseteq 1 .. k.regs
    BY <1>2
  <2>6. inactive \subseteq InFlight /\ \A i \in inactive : instr[i].wrong
    BY <1>2
  <2> QED BY <2>2, <2>3, <2>4, <2>5, <2>6 DEF CoreTypes
<1>10. OnePlace(k)
  BY <1>2, <1>5, <1>6, <1>8 DEF OnePlace
<1>11. RowsHeld(k)
  <2>1. Held(k, "main") = {} /\ Held(k, "fifo") = {}
    BY <1>1, <1>2, <1>5 DEF Held
  <2>2. Ring(k.rows, alloc.fifo.front, alloc.fifo.back, alloc.fifo.reserved)
    BY <1>1, <1>4 DEF Ring
  <2> QED BY <1>1, <1>2, <1>4, <2>1, <2>2 DEF RowsHeld
<1>12. Owners(k)
  BY <1>1, <1>2, <1>6 DEF Owners
<1>13. PathKnown(k)
  <2>1. MapAt(next, frat)
    BY <1>2, <1>6 DEF MapAt, MapIn
  <2> QED BY <1>2, <1>6, <1>8, <2>1 DEF PathKnown
<1>14. SourcesMapped /\ WaitingSourced(k)
  BY <1>6 DEF SourcesMapped, WaitingSourced
<1>15. RowsRight(k) /\ ResultsRight
  BY <1>2, <1>5 DEF RowsRight, ResultsRight
<1> QED BY <1>7, <1>9, <1>10, <1>11, <1>12, <1>13, <1>14, <1>15 DEF OdInv

\* The invariant says what the runs check.
LEMMA OdInvRight ==
    ASSUME NEW CONSTANT k, OdInv(k)
    PROVE  Operands(k)!OperandsRight /\ Operands(k)!WrittenOnceFreedValid /\ Operands(k)!WaitersHaveProducers
<1>1. ASSUME NEW x \in Operands(k)!InRows
      PROVE  \E j \in Operands(k)!RSs, e \in Operands(k)!Rows : rs[j][e].full /\ Operands(k)!RowOf(x) = rs[j][e]
  BY DEF Operands!InRows, Operands!RowOf
<1>2. ASSUME NEW x \in Operands(k)!InRows, NEW row, row = Operands(k)!RowOf(x)
      PROVE  /\ OperandHeld(k, row.id, row.rp1, row.v1, instr[row.id].want1)
             /\ OperandHeld(k, row.id, row.rp2, row.v2, instr[row.id].want2)
  BY <1>1, <1>2 DEF OdInv, RowsRight
<1>3. Operands(k)!OperandsRight
  <2>1. ASSUME NEW x \in Operands(k)!InRows, NEW row, row = Operands(k)!RowOf(x),
               ~flushing, ~instr[row.id].wrong
        PROVE  /\ row.rp1 = 0 => row.v1 = instr[row.id].want1
               /\ row.rp2 = 0 => row.v2 = instr[row.id].want2
    BY <1>2, <2>1 DEF OperandHeld
  <2>2. ASSUME NEW x \in executing, ~flushing, ~instr[x.id].wrong
        PROVE  x.v1 = instr[x.id].want1 /\ x.v2 = instr[x.id].want2
    BY <2>2 DEF OdInv, ResultsRight
  <2> QED BY <2>1, <2>2 DEF Operands!OperandsRight
<1>4. Operands(k)!WaitersHaveProducers
  <2>1. ASSUME NEW x \in Operands(k)!InRows,
               NEW p \in {Operands(k)!RowOf(x).rp1, Operands(k)!RowOf(x).rp2} \ {0}
        PROVE  \E i \in Operands(k)!NotAnnounced : instr[i].dst = p /\ i < Operands(k)!RowOf(x).id
    BY <1>2 DEF OperandHeld
  <2> QED BY <2>1 DEF Operands!WaitersHaveProducers
<1>5. Operands(k)!WrittenOnceFreedValid
  <2>1. InFlight = odDone \cup Operands(k)!NotAnnounced /\ odDone \cap Operands(k)!NotAnnounced = {}
    BY DEF OdInv, OnePlace
  <2> QED BY <2>1 DEF OdInv, Owners, Operands!WrittenOnceFreedValid
<1> QED BY <1>3, <1>4, <1>5

\* An operand is the value its producer announced, however the announcement meets the
\* renaming, the read of the register file, the insertion and the issue of the instruction
\* that needs it; registers are written once and freed valid; nothing waits for a value that
\* has passed (scheduler.py RSSelection and RSInsertion, rf.py RegisterFile, rs.py RSBase,
\* fifo_rs.py FifoRS), for any number of instructions, registers, rows and announcements.
THEOREM OperandsHold ==
    ASSUME NEW CONSTANT k, Operands(k)!OperandAssumption
    PROVE  Operands(k)!Spec => [](/\ Operands(k)!OperandsRight /\ Operands(k)!WrittenOnceFreedValid
                                  /\ Operands(k)!WaitersHaveProducers)
<1>1. Operands(k)!Init => OdInv(k)
  BY OdInvInit
<1>2. OdInv(k) /\ [Operands(k)!Next]_(Operands(k)!vars) => OdInv(k)'
  BY OdInvStep
<1>3. OdInv(k) => /\ Operands(k)!OperandsRight /\ Operands(k)!WrittenOnceFreedValid
                  /\ Operands(k)!WaitersHaveProducers
  BY OdInvRight
<1> QED BY <1>1, <1>2, <1>3, PTL DEF Operands!Spec

\* The invariant of the composed instances: the one whose part runs keeps its own.
PartsInv == /\ part = "Main" => OdInv(Main)
            /\ part = "Stall" => OdInv(Stall)
            /\ part = "Trapping" => OdInv(Trapping)

LEMMA PartsInit == Init => PartsInv
<1>1. /\ Init /\ part = "Main" => Operands(Main)!Init
      /\ Init /\ part = "Stall" => Operands(Stall)!Init
      /\ Init /\ part = "Trapping" => Operands(Trapping)!Init
  BY Zenon DEF Init
<1> QED BY <1>1, InstancesAssumption, OdInvInit DEF InstancesAssumption, PartsInv

LEMMA PartsStep == PartsInv /\ [Next]_vars => PartsInv'
<1> SUFFICES ASSUME PartsInv, [Next]_vars PROVE PartsInv'
  OBVIOUS
<1>1. /\ part' = part
      /\ part = "Main" => [Operands(Main)!Next]_(Operands(Main)!vars)
      /\ part = "Stall" => [Operands(Stall)!Next]_(Operands(Stall)!vars)
      /\ part = "Trapping" => [Operands(Trapping)!Next]_(Operands(Trapping)!vars)
  BY Zenon DEF Next, vars, OperandDeliveryVars, Operands!vars, Operands!core
<1> QED BY <1>1, InstancesAssumption, OdInvStep DEF InstancesAssumption, PartsInv

\* The run's statement about operands.
THEOREM OperandsRightHolds == Spec => []OperandsRight
<1>1. PartsInv => OperandsRight
  BY OdInvRight DEF PartsInv, OperandsRight
<1> QED BY <1>1, PartsInit, PartsStep, PTL DEF Spec

\* The run's statement about lost wakeups.
THEOREM WaitersHaveProducersHolds == Spec => []WaitersHaveProducers
<1>1. PartsInv => WaitersHaveProducers
  BY OdInvRight DEF PartsInv, WaitersHaveProducers
<1> QED BY <1>1, PartsInit, PartsStep, PTL DEF Spec

=============================================================================
