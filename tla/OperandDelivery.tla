-------------------------- MODULE OperandDelivery --------------------------
(***************************************************************************)
(* How an instruction gets its operands: RS selection and RS insertion of  *)
(* the scheduler (scheduler/scheduler.py), the register file               *)
(* (core_structs/rf.py), a reservation station and a FIFO reservation      *)
(* station (func_blocks/fu/common), wakeup and select, and the result      *)
(* announcement, one clock cycle per step.                                 *)
(*                                                                         *)
(* The rest of the core is what it does to these parts: renaming gives an  *)
(* instruction the current mapping of the one logical register and a free  *)
(* destination; functional units take any time; a mispredicted branch      *)
(* rolls the map back and leaves its younger instructions with inactive    *)
(* tags; retirement frees registers in order and traps.  The value of a    *)
(* register is the number of the instruction that wrote it.                *)
(***************************************************************************)
EXTENDS Naturals, Sequences, FiniteSets, FiniteSetsExt

CONSTANTS
    K,              \* bound: instructions
    P,              \* physical registers 1..P besides p0
    Width,          \* frontend_superscalarity
    Ways,           \* announcement_superscalarity
    NE,             \* rs_entries
    MainOps,        \* operations of the RS "main"
    FifoOps,        \* operations of the FifoRS "fifo"
    TwoSources,     \* bound: instructions with both sources
    Traps           \* bound: instructions may trap

\* What the parameters must satisfy.
OperandAssumption ==
    /\ K \in Nat \ {0} /\ P \in Nat \ {0} /\ Width \in Nat \ {0} /\ Ways \in Nat \ {0}
    /\ NE \in Nat \ {0}
    /\ MainOps \cup FifoOps \subseteq {"alu", "mem", "jb"} /\ Traps \in BOOLEAN
    /\ TwoSources \in BOOLEAN

VARIABLES
    \* the rest of the core
    next, frat, rrat, freelist, saved, wrongpath, inactive, flushing, rob, done,
    instr,          \* what is known of each instruction in flight
    \* the modelled parts
    queue,          \* rob_alloc_out_buf
    picked,         \* rs_select_out_buf: selected, read request sent
    rs,             \* RS rows
    alloc,          \* row allocators
    executing,      \* issued, result not announced
    valids, entries \* the register file

core == <<next, frat, rrat, freelist, saved, wrongpath, inactive, flushing, rob, done, instr>>
vars == <<core, queue, picked, rs, alloc, executing, valids, entries>>

Ids == 1..K
Phys == 0..P
Rows == 1..NE
RSs == {"main", "fifo"}
OpsOf(j) == IF j = "main" THEN MainOps ELSE FifoOps
NoInstr == [op |-> "none", s1 |-> 0, s2 |-> 0, dst |-> 0, mis |-> FALSE, wrong |-> FALSE,
            want1 |-> 0, want2 |-> 0]
EmptyRow == [full |-> FALSE, id |-> 0, rp1 |-> 0, rp2 |-> 0, v1 |-> 0, v2 |-> 0]

Init ==
    /\ next = 1 /\ frat = 0 /\ rrat = 0 /\ freelist = 1..P /\ saved = 0
    /\ wrongpath = FALSE /\ inactive = {} /\ flushing = FALSE /\ rob = <<>> /\ done = {}
    /\ instr = [i \in Ids |-> NoInstr]
    /\ queue = <<>> /\ picked = <<>>
    /\ rs = [j \in RSs |-> [e \in Rows |-> EmptyRow]]
    /\ alloc = [main |-> [order |-> [k \in Rows |-> k], used |-> 0],
                fifo |-> [front |-> 1, back |-> 1, reserved |-> {}]]
    /\ executing = {}
    /\ valids = {0} /\ entries = [p \in Phys |-> 0]

-----------------------------------------------------------------------------
(***************************************************************************)
(* Row allocators.  PreservedOrderAllocator keeps the used rows first, in  *)
(* the order of their allocation; FifoRS is a ring.                        *)
(***************************************************************************)
ModIncr(e) == IF e = NE THEN 1 ELSE e + 1
SelectReady(j) ==
    IF j = "main" THEN alloc.main.used < NE ELSE alloc.fifo.reserved # Rows
SelectedRow(j) ==
    IF j = "main" THEN alloc.main.order[alloc.main.used + 1] ELSE alloc.fifo.back

\* the row behind an index of the ready list
Order(j, k) == IF j = "main" THEN alloc.main.order[k] ELSE alloc.fifo.front
Takeable(j, e) == j = "fifo" => e = alloc.fifo.front

\* what taking index idx (0: nothing) and allocating a row leave behind
MainAfter(idx, allocates) ==
    [order |-> IF idx = 0 THEN alloc.main.order
               ELSE [k \in Rows |-> alloc.main.order[IF k < idx THEN k ELSE IF k < NE THEN k + 1 ELSE idx]],
     used |-> (alloc.main.used + (IF allocates THEN 1 ELSE 0)) - (IF idx = 0 THEN 0 ELSE 1)]
FifoAfter(idx, allocates) ==
    [front |-> IF idx = 0 THEN alloc.fifo.front ELSE ModIncr(alloc.fifo.front),
     back |-> IF allocates THEN ModIncr(alloc.fifo.back) ELSE alloc.fifo.back,
     reserved |-> (alloc.fifo.reserved \cup (IF allocates THEN {alloc.fifo.back} ELSE {}))
                  \ (IF idx = 0 THEN {} ELSE {alloc.fifo.front})]

-----------------------------------------------------------------------------
(***************************************************************************)
(* RSSelection: the instructions at the head of the queue, each to an RS   *)
(* that can run it and has a row, no RS twice in a cycle, none skipped.    *)
(***************************************************************************)
Fits(n, j) == instr[queue[n]].op \in OpsOf(j) /\ SelectReady(j)
Choice(n, j) == [id |-> queue[n], rs |-> j, row |-> SelectedRow(j)]

IsSelection(sel) ==
    /\ \A n \in DOMAIN sel : \E j \in RSs : Fits(n, j) /\ sel[n] = Choice(n, j)
    /\ \A m, n \in DOMAIN sel : m # n => sel[m].rs # sel[n].rs
    /\ LET n == Len(sel) + 1 IN         \* and no further one is possible
       n <= Len(queue) /\ n <= Width =>
          ~\E j \in RSs : Fits(n, j) /\ \A m \in DOMAIN sel : sel[m].rs # j
Selections ==
    LET most == IF Len(queue) < Width THEN Len(queue) ELSE Width
        pick(n) == {Choice(n, j) : j \in {k \in RSs : Fits(n, k)}}
        one == {<<c>> : c \in IF most >= 1 THEN pick(1) ELSE {}}
        two == {<<c, d>> : c \in IF most >= 2 THEN pick(1) ELSE {},
                           d \in IF most >= 2 THEN pick(2) ELSE {}}
    IN {s \in {<<>>} \cup one \cup two : IsSelection(s)}

-----------------------------------------------------------------------------
(***************************************************************************)
(* The register file.  ann is the set of instructions announced in this    *)
(* cycle.                                                                  *)
(***************************************************************************)
Writers(ann, p) == {a \in ann : p # 0 /\ instr[a].dst = p}
ReadResp(ann, p) ==
    [valid |-> Writers(ann, p) # {} \/ p \in valids,
     reg_val |-> IF Writers(ann, p) # {} THEN CHOOSE a \in Writers(ann, p) : TRUE ELSE entries[p]]

Written(ann) == {instr[a].dst : a \in ann} \ {0}
ValidsAfter(ann, freed) == (valids \cup Written(ann)) \ freed
EntriesAfter(ann) ==
    [p \in Phys |-> IF Writers(ann, p) = {} THEN entries[p]
                    ELSE CHOOSE a \in Writers(ann, p) : TRUE]

-----------------------------------------------------------------------------
(***************************************************************************)
(* RSInsertion of the instruction c that was selected in the cycle before. *)
(***************************************************************************)
SkipSourcesTags(i) == i \in inactive         \* mutant: flushing is ignored
SkipSources(i) == flushing \/ i \in inactive
InsertedRow(c, ann) ==
    LET i == instr[c.id]
        source1 == ReadResp(ann, i.s1)
        source2 == ReadResp(ann, i.s2)
    IN [full |-> TRUE, id |-> c.id,
        rp1 |-> IF source1.valid \/ SkipSources(c.id) THEN 0 ELSE i.s1,
        rp2 |-> IF source2.valid \/ SkipSources(c.id) THEN 0 ELSE i.s2,
        v1 |-> IF source1.valid THEN source1.reg_val ELSE 0,
        v2 |-> IF source2.valid THEN source2.reg_val ELSE 0]

\* update: the rows that wait for an announced register
UpdatedNoValue(row, ann) ==                 \* mutant: the value is not taken
    [row EXCEPT !.rp1 = IF Writers(ann, @) # {} THEN 0 ELSE @,
                !.rp2 = IF Writers(ann, @) # {} THEN 0 ELSE @]
Updated(row, ann) ==
    LET m1 == Writers(ann, row.rp1)
        m2 == Writers(ann, row.rp2)
    IN [row EXCEPT !.rp1 = IF m1 # {} THEN 0 ELSE @, !.rp2 = IF m2 # {} THEN 0 ELSE @,
                   !.v1 = IF m1 # {} THEN CHOOSE a \in m1 : TRUE ELSE @,
                   !.v2 = IF m2 # {} THEN CHOOSE a \in m2 : TRUE ELSE @]

-----------------------------------------------------------------------------
(***************************************************************************)
(* Wakeup and select: for each kind of operation the oldest ready row, and *)
(* one row of an RS in a cycle.  0 is no row.                              *)
(***************************************************************************)
DataReady(j, e) == rs[j][e].full /\ rs[j][e].rp1 = 0 /\ rs[j][e].rp2 = 0
ReadyList(j, op) ==
    {k \in Rows : LET e == Order(j, k) IN
                     DataReady(j, e) /\ instr[rs[j][e].id].op = op /\ Takeable(j, e)}
FirstReady(j, op) == CHOOSE k \in ReadyList(j, op) : \A l \in ReadyList(j, op) : k <= l
Takes(j) == {0} \cup {FirstReady(j, op) : op \in {o \in OpsOf(j) : ReadyList(j, o) # {}}}

TakenRow(j, idx) == Order(j, idx)
Issued(take) ==
    {LET row == rs[j][TakenRow(j, take[j])] IN [id |-> row.id, v1 |-> row.v1, v2 |-> row.v2] :
        j \in {k \in RSs : take[k] # 0}}

\* what a row that is not full holds is never read
RowAfter(j, e, take, ann) ==
    LET new == {n \in DOMAIN picked : picked[n].rs = j /\ picked[n].row = e}
    IN IF new # {} THEN InsertedRow(picked[CHOOSE n \in new : TRUE], ann)
       ELSE LET row == Updated(rs[j][e], ann)
            IN IF take[j] # 0 /\ TakenRow(j, take[j]) = e THEN EmptyRow ELSE row

-----------------------------------------------------------------------------
(***************************************************************************)
(* The rest of the core.                                                   *)
(***************************************************************************)
RollsBack(ann) == ~flushing /\ \E a \in ann : instr[a].mis /\ a \notin inactive

\* the instruction that writes p, in flight or before
Producer(p) ==
    IF \E i \in Ids : instr[i].dst = p /\ p # 0
    THEN CHOOSE i \in Ids : instr[i].dst = p /\ p # 0 ELSE entries[p]
NextFree == IF freelist = {} THEN 0 ELSE Min(freelist)     \* bound: of the free registers, the first
\* one instruction is renamed; during a flush the front end empties itself
NewInstrs ==
    {[op |-> op, s1 |-> s1, s2 |-> s2, dst |-> dst, mis |-> op = "jb",
      wrong |-> wrongpath \/ flushing, want1 |-> Producer(s1), want2 |-> Producer(s2)] :
        op \in MainOps \cup FifoOps, s1 \in {0, frat}, s2 \in {0, frat}, dst \in {0, NextFree}}
Dispatchable(i) ==
    /\ next <= K /\ Len(queue) < 2 * Width
    /\ i.op = "jb" => i.dst = 0 /\ ~wrongpath /\ ~flushing   \* bound: branches mispredict, one at a time
    /\ i.s2 # 0 => TwoSources /\ i.s1 # 0

\* Retirement: the registers freed with the head of the reorder buffer
Freed(retires, traps) ==
    IF ~retires THEN {}
    ELSE LET i == instr[Head(rob)] IN
         (IF flushing \/ Head(rob) \in inactive \/ traps THEN {i.dst}
          ELSE IF i.dst # 0 THEN {rrat} ELSE {}) \ {0}

FlushEnds == flushing /\ rob = <<>> /\ queue = <<>> /\ picked = <<>>

\* new is a sequence of at most one instruction
Rest(new, ann, retires, traps) ==
    LET head == Head(rob)
        kept == IF retires THEN [instr EXCEPT ![head] = NoInstr] ELSE instr
        older == IF retires THEN Tail(rob) ELSE rob
        commits == retires /\ ~flushing /\ ~traps /\ head \notin inactive
    IN /\ next' = next + Len(new)
       /\ instr' = IF new = <<>> THEN kept
                   ELSE [kept EXCEPT ![next] = new[1]]
       /\ rob' = IF new = <<>> THEN older ELSE Append(older, next)
       /\ done' = (done \cup ann) \ (IF retires THEN {head} ELSE {})
       /\ inactive' = (IF RollsBack(ann) THEN inactive \cup {i \in Ids : instr[i].wrong} ELSE inactive)
                      \ (IF retires THEN {head} ELSE {})
       /\ rrat' = IF commits /\ instr[head].dst # 0 THEN instr[head].dst ELSE rrat
       /\ frat' = IF FlushEnds THEN rrat ELSE IF RollsBack(ann) THEN saved
                  ELSE IF new # <<>> /\ new[1].dst # 0 THEN new[1].dst ELSE frat
       /\ saved' = IF new # <<>> /\ new[1].mis THEN frat ELSE IF RollsBack(ann) \/ FlushEnds THEN 0 ELSE saved
       /\ wrongpath' = IF RollsBack(ann) \/ FlushEnds THEN FALSE
                       ELSE wrongpath \/ (new # <<>> /\ new[1].mis)
       /\ flushing' = IF FlushEnds THEN FALSE ELSE flushing \/ traps
       /\ freelist' = (freelist \ (IF new = <<>> THEN {} ELSE {new[1].dst})) \cup Freed(retires, traps)

(***************************************************************************)
(* One clock cycle.                                                        *)
(***************************************************************************)
Cycle(new, sel, take, ann, retires, traps) ==
    /\ Rest(new, ann, retires, traps)
    /\ queue' = SubSeq(queue, Len(sel) + 1, Len(queue)) \o (IF new = <<>> THEN <<>> ELSE <<next>>)
    /\ picked' = sel
    /\ rs' = [j \in RSs |-> [e \in Rows |-> RowAfter(j, e, take, ann)]]
    /\ alloc' = [main |-> MainAfter(take["main"], \E n \in DOMAIN sel : sel[n].rs = "main"),
                 fifo |-> FifoAfter(take["fifo"], \E n \in DOMAIN sel : sel[n].rs = "fifo")]
    /\ executing' = {x \in executing \cup Issued(take) : x.id \notin ann}
    /\ valids' = ValidsAfter(ann, Freed(retires, traps))
    /\ entries' = EntriesAfter(ann)

TakeChoices == {[main |-> a, fifo |-> b] : a \in Takes("main"), b \in Takes("fifo")}
\* a unit may answer in the cycle of the issue
Announcements(take) ==
    {ann \in SUBSET {x.id : x \in executing \cup Issued(take)} : Cardinality(ann) <= Ways}
RetireChoices ==
    {<<FALSE, FALSE>>} \cup
    (IF rob # <<>> /\ Head(rob) \in done
     THEN {<<TRUE, FALSE>>} \cup
          (IF Traps /\ ~flushing /\ Head(rob) \notin inactive THEN {<<TRUE, TRUE>>} ELSE {})
     ELSE {})

Step(new) ==
    \E sel \in Selections, take \in TakeChoices : \E ann \in Announcements(take), r \in RetireChoices :
        Cycle(new, sel, take, ann, r[1], r[2])
Dispatch ==
    /\ ~FlushEnds
    /\ \E i \in NewInstrs :
          /\ Dispatchable(i)
          /\ \E sel \in Selections, take \in TakeChoices :
                \E ann \in Announcements(take), r \in RetireChoices :
                   /\ ~RollsBack(ann)
                   /\ Cycle(<<i>>, sel, take, ann, r[1], r[2])
Quiet == Step(<<>>)
Next == Dispatch \/ Quiet
Spec == Init /\ [][Next]_vars

-----------------------------------------------------------------------------
Waiting == {queue[n] : n \in DOMAIN queue} \cup {picked[n].id : n \in DOMAIN picked}
InRows == UNION {{e \in Rows : rs[j][e].full} \X {j} : j \in RSs}
RowOf(x) == rs[x[2]][x[1]]
NotAnnounced == Waiting \cup {RowOf(x).id : x \in InRows} \cup {x.id : x \in executing}

(***************************************************************************)
(* Types; a row that is full was allocated.                                *)
(***************************************************************************)
TypeOK ==
    /\ next \in 1..(K + 1) /\ frat \in Phys /\ rrat \in Phys /\ freelist \subseteq 1..P
    /\ \A j \in RSs, e \in Rows :
          /\ rs[j][e].id \in 0..K /\ rs[j][e].rp1 \in Phys /\ rs[j][e].rp2 \in Phys
    /\ \A k \in Rows : k > alloc.main.used => ~rs["main"][alloc.main.order[k]].full
    /\ \A e \in Rows : rs["fifo"][e].full => e \in alloc.fifo.reserved
    /\ valids \subseteq Phys /\ 0 \in valids

(***************************************************************************)
(* An instruction that may commit runs with the values its producers gave, *)
(* whatever was announced, freed or reused between its rename, its read of *)
(* the register file, its insertion and its issue.                         *)
(***************************************************************************)
OperandsRight ==
    /\ \A x \in InRows :
          LET row == RowOf(x)
              i == instr[row.id]
          IN ~flushing /\ ~i.wrong =>
                /\ row.rp1 = 0 => row.v1 = i.want1
                /\ row.rp2 = 0 => row.v2 = i.want2
    /\ \A x \in executing :
          ~flushing /\ ~instr[x.id].wrong =>
             x.v1 = instr[x.id].want1 /\ x.v2 = instr[x.id].want2

(***************************************************************************)
(* No wakeup is lost: a row that waits for a register, on any path, waits  *)
(* for an instruction whose result is still to be announced.               *)
(***************************************************************************)
WaitersHaveProducers ==
    \A x \in InRows : \A p \in {RowOf(x).rp1, RowOf(x).rp2} \ {0} :
        \E i \in NotAnnounced : instr[i].dst = p /\ i < RowOf(x).id

(***************************************************************************)
(* The assertions of the register file: a register is written when it is   *)
(* not valid, and only once; a register is freed when it is valid.         *)
(***************************************************************************)
WrittenOnceFreedValid ==
    /\ \A i \in NotAnnounced : instr[i].dst # 0 =>
          /\ instr[i].dst \notin valids
          /\ \A k \in NotAnnounced : instr[k].dst = instr[i].dst => k = i
    /\ \A i \in done : instr[i].dst = 0 \/ instr[i].dst \in valids
    /\ rrat \in valids
    /\ \A p \in freelist : p \notin valids

(***************************************************************************)
(* What liveness is about (MCComponentsLive): units and wakeup do not idle *)
(* for ever while there is work, announcement and retirement go on.        *)
(***************************************************************************)
Announces == \E sel \in Selections, take \in TakeChoices :
                \E ann \in Announcements(take) \ {{}}, r \in RetireChoices :
                   Cycle(<<>>, sel, take, ann, r[1], r[2])
Issues(j) == \E sel \in Selections, take \in TakeChoices :
                \E ann \in Announcements(take), r \in RetireChoices :
                   take[j] # 0 /\ Cycle(<<>>, sel, take, ann, r[1], r[2])
Retires == \E sel \in Selections, take \in TakeChoices :
                \E ann \in Announcements(take), r \in RetireChoices :
                   r[1] /\ Cycle(<<>>, sel, take, ann, r[1], r[2])
InBuffer(i) == \E n \in DOMAIN rob : rob[n] = i
=============================================================================
