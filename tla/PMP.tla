-------------------------------- MODULE PMP --------------------------------
(***************************************************************************)
(* Physical memory protection: the checker (class DynamicAreaPMPChecker,   *)
(* priv/pmp.py) and the rules by which software may write its registers    *)
(* (priv/csr/csr_instances.py).  Addresses count words of four bytes, as   *)
(* pmpaddr does.  Masks of the form 2^k - 1 are represented by k.          *)
(* The checker is combinational: the state is the register file, and the   *)
(* properties range over every access in every state.                      *)
(***************************************************************************)
EXTENDS Naturals, FiniteSets, FiniteSetsExt

CONSTANTS N,          \* number of entries (pmp_register_count)
          AddrBits,   \* width of a word address
          Grain,      \* pmp_grain
          Sizes,      \* log2 of the access sizes in words
          Perms,      \* the permission bits that are told apart
          Levels,     \* privilege modes in use, of U, S and M
          EmptyTor,   \* whether an access of several words may meet an empty TOR range
          MachineMpp  \* whether MPRV may be set while MPP is machine mode

\* What the parameters must satisfy.
PMPAssumption == /\ N \in Nat \ {0} /\ AddrBits \in Nat \ {0} /\ Grain \in 0..AddrBits
                 /\ Sizes \subseteq 0..AddrBits
                 /\ Perms \subseteq {"r", "w"} /\ Levels \subseteq {0, 1, 3} /\ 3 \in Levels
                 /\ EmptyTor \in BOOLEAN /\ MachineMpp \in BOOLEAN

VARIABLES cfg,     \* entry -> pmpcfg fields
          addr,    \* entry -> pmpaddr
          status   \* privilege mode, mstatus.MPRV and MPP

vars == <<cfg, addr, status>>

Ids == 0..N - 1
Addrs == 0..2^AddrBits - 1
U == 0
S == 1
M == 3
Cfgs == [a : {"OFF", "TOR", "NA4", "NAPOT"}, l : BOOLEAN, perm : SUBSET Perms]
Status == {s \in [priv : Levels, mprv : BOOLEAN, mpp : Levels \union {U}] :
             s.mpp = U \/ (s.mprv /\ (MachineMpp \/ s.mpp # M))}

TypeOK == cfg \in [Ids -> {c \in Cfgs : "w" \in c.perm => "r" \in c.perm}] /\ addr \in [Ids -> Addrs] /\ status \in Status

Init == /\ cfg = [i \in Ids |-> [a |-> "OFF", l |-> FALSE, perm |-> {}]]
        /\ addr = [i \in Ids |-> 0]
        /\ status = [priv |-> M, mprv |-> FALSE, mpp |-> U]

\* pmp_filtermap of pmpcfg: W without R is cleared, NA4 needs grain 0, a locked
\* entry keeps its value.
FilteredCfg(old, new) ==
    IF old.l THEN old
    ELSE [new EXCEPT !.perm = IF "r" \in @ THEN @ ELSE @ \ {"w"},
                     !.a = IF Grain >= 1 /\ @ = "NA4" THEN "OFF" ELSE @]

\* A write of one pmpcfg register; the fields of other entries are written back.
WriteCfg(i, c) ==
    /\ cfg' = [cfg EXCEPT ![i] = FilteredCfg(cfg[i], c)]
    /\ UNCHANGED <<addr, status>>

AddrWritableSelf(i) == ~cfg[i].l
AddrWritable(i) == ~(cfg[i].l \/ (i + 1 \in Ids /\ cfg[i + 1].l /\ cfg[i + 1].a = "TOR"))

WriteAddr(i, v) ==
    /\ addr' = IF AddrWritable(i) THEN [addr EXCEPT ![i] = v] ELSE addr
    /\ UNCHANGED <<cfg, status>>

\* Traps, returns and writes of mstatus.
SetStatus(s) == status' = s /\ UNCHANGED <<cfg, addr>>

Next == \/ \E i \in Ids : (\E c \in Cfgs : WriteCfg(i, c)) \/ (\E v \in Addrs : WriteAddr(i, v))
        \/ \E s \in Status : SetStatus(s)

Spec == Init /\ [][Next]_vars

-----------------------------------------------------------------------------
\* The checker.
Block(x, k) == x \div 2^k
MaxOf(x, y) == IF x < y THEN y ELSE x
SizeMask(s) == MaxOf(s, Grain)

\* Number of address bits a NAPOT or NA4 entry ignores.
StartBit == IF Grain = 0 THEN 0 ELSE Grain - 1
NapotMask(i) ==
    IF cfg[i].a = "NA4" THEN Grain
    ELSE LET zeros == {b \in StartBit..AddrBits - 1 : Block(addr[i], b) % 2 = 0}
         IN  MaxOf(Grain, IF zeros = {} THEN AddrBits ELSE Min(zeros) + 1)

Bottom(i) == IF i = 0 THEN 0 ELSE Block(addr[i - 1], Grain)
AddrLo(p) == Block(p, Grain)
AddrHi(p, s) == Block(Block(p, SizeMask(s)) * 2^SizeMask(s) + 2^SizeMask(s) - 1, Grain)

MatchesAny(i, p, s) ==
    CASE cfg[i].a = "TOR" -> Bottom(i) <= AddrHi(p, s) /\ AddrLo(p) < Block(addr[i], Grain)
      [] cfg[i].a \in {"NA4", "NAPOT"} ->
           LET k == MaxOf(SizeMask(s), NapotMask(i)) IN Block(p, k) = Block(addr[i], k)
      [] OTHER -> FALSE

MatchesAllFirst(i, p, s) ==
    IF cfg[i].a = "TOR" THEN Bottom(i) <= AddrLo(p) /\ AddrLo(p) < Block(addr[i], Grain)
    ELSE TRUE
MatchesAll(i, p, s) ==
    IF cfg[i].a = "TOR" THEN Bottom(i) <= AddrLo(p) /\ AddrHi(p, s) < Block(addr[i], Grain)
    ELSE NapotMask(i) >= SizeMask(s)

\* The first entry that matches any byte, or the default.
Selected(p, s) ==
    LET hits == {i \in Ids : MatchesAny(i, p, s)}
    IN  IF hits = {} THEN [all |-> TRUE, perm |-> {}, l |-> FALSE]
        ELSE LET i == Min(hits)
             IN  [all |-> MatchesAll(i, p, s), perm |-> cfg[i].perm, l |-> cfg[i].l]

\* The signal that receives MPP is one bit wide.
MppBit == status.mpp % 2
EffectiveMode(mode) == CASE mode = "LSU" -> IF status.mprv THEN MppBit ELSE status.priv
                         [] mode = "INSTRUCTION_FETCH" -> status.priv
                         [] mode = "MMU" -> S

Uniform(p, s) == (\A z \in Sizes : z <= Grain) \/ Selected(p, s).all

Result(mode, p, s) ==
    IF ~Uniform(p, s) THEN {}
    ELSE IF mode # "MMU" /\ ~Selected(p, s).l /\ EffectiveMode(mode) = M THEN Perms
    ELSE Selected(p, s).perm

-----------------------------------------------------------------------------
\* Reference, from the privileged architecture: what each entry covers, word by
\* word, and who is governed by it.
Grained(x) == Block(x, Grain) * 2^Grain
Ones(x) == IF Grain <= 1 THEN x ELSE Block(x, Grain - 1) * 2^(Grain - 1) + 2^(Grain - 1) - 1
Trailing(x) == Min({b \in 0..AddrBits : b = AddrBits \/ Block(x, b) % 2 = 0})

Region(i) ==
    CASE cfg[i].a = "TOR" -> {w \in Addrs : /\ (i > 0 => Grained(addr[i - 1]) <= w)
                                            /\ w < Grained(addr[i])}
      [] cfg[i].a = "NA4" -> {addr[i]}
      [] cfg[i].a = "NAPOT" ->
           LET k == MaxOf(Grain, Trailing(Ones(addr[i])) + 1)
           IN  {w \in Addrs : Block(w, k) = Block(addr[i], k)}
      [] OTHER -> {}

Words(p, s) == {w \in Addrs : Block(w, s) = Block(p, s)}

\* Mode of an access: MPRV makes loads and stores use MPP.
AccessMode(mode) == IF mode = "MMU" THEN S
                    ELSE IF mode = "LSU" /\ status.mprv THEN status.mpp ELSE status.priv

Allowed(mode, p, s) ==
    LET hits == {i \in Ids : Region(i) \intersect Words(p, s) # {}}
        i == Min(hits)
    IN  IF hits = {} THEN (IF AccessMode(mode) = M THEN Perms ELSE {})
        ELSE IF ~(Words(p, s) \subseteq Region(i)) THEN {}
        ELSE IF AccessMode(mode) = M /\ ~cfg[i].l THEN Perms ELSE cfg[i].perm

EmptyRange(i) == cfg[i].a = "TOR" /\ Region(i) = {}

\* For every access of every kind the checker grants what the lowest entry that
\* contains any byte of it grants, and nothing if that entry covers it partly:
\* ranges that overlap, wrap to the whole address space, end inside the access
\* or lie below the grain included.
GrantsAllowed ==
    \A mode \in {"LSU", "INSTRUCTION_FETCH", "MMU"}, s \in Sizes :
    \A p \in {q \in Addrs : q % 2^s = 0} :
       \/ s > 0 /\ ~EmptyTor /\ \E i \in Ids : EmptyRange(i)
       \/ Result(mode, p, s) = Allowed(mode, p, s)

\* The region and the permissions of a locked entry never change: not by a write
\* of its own registers, nor of the address below, which is its lower bound.
LockedFixed ==
  \A i \in Ids : cfg[i].l => /\ cfg'[i] = cfg[i]
                             /\ Region(i)' = Region(i)
=============================================================================
