--------------------------- MODULE MCTranslation ----------------------------
(***************************************************************************)
(* The instances of the address translation path that TLC checks together: *)
(* both TLB levels, the page table walker, the address translator and the  *)
(* memory protection. A behaviour is about one of them, named by part; the *)
(* variables of the other modules stay at 0.                               *)
(***************************************************************************)
EXTENDS Naturals, Sequences

VARIABLES
    part,   \* the instance this behaviour is about
    mem, rr, rd, rrRd, pipe, chk, cls, refill, walkAsid, fsm, resp, fwd, flush, asid,
    entries, l1Rr, flushQueue, slow, vpnReq, refilling, asked, since, late, result,
    l1Asid,
    ptwFsm, level, vpn, isStore, ppn, accessFault, pageFault, ptwAsid, perm, satp,
    start, seen,
    csr, trFwd, moved, out,
    cfg, addr, status

\* Page numbers for the walker: tables inside and outside the physical memory, and entry
\* flags with every combination of V, R, W, X and A.
WalkTables == {<<0, 0>>, <<0, 1>>, <<1, 0>>, <<0, 2>>}
WalkVpns == {<<0, 1>>, <<1, 0>>}
WalkSatps == {[mode |-> "BARE", ppn |-> <<0, 0>>, asid |-> 1],
              [mode |-> "SV", ppn |-> <<0, 0>>, asid |-> 1],
              [mode |-> "SV", ppn |-> <<1, 0>>, asid |-> 2]}
WalkBits == (SUBSET {"V", "R", "W", "X", "A"}) \union {{"V", f} : f \in {"U", "G", "D"}}

\* The components, each for any value of its parameters, which the record k holds.
L2(k) == INSTANCE SetAssociativeTLB WITH MaxClass <- k.maxClass, WordMax <- k.wordMax,
    Asids <- k.asids, Classes <- k.classes, Globals <- k.globals, Sets <- k.sets,
    Ways <- k.ways, CountPages <- k.countPages
L1(k) == INSTANCE FullyAssociativeTLB WITH MaxClass <- k.maxClass,
    WordMax <- k.wordMax, Asids <- k.asids, Classes <- k.classes,
    Globals <- k.globals, Size <- k.size, Ports <- k.ports, FlushDepth <- k.depth,
    rr <- l1Rr, asid <- l1Asid
Walker(k) == INSTANCE PageTableWalker WITH Levels <- k.levels, PpnMax <- k.ppnMax,
    Tables <- k.tables, Vpns <- k.vpns, BitSets <- k.bitSets, Satps <- k.satps,
    fsm <- ptwFsm, asid <- ptwAsid
Checker(k) == INSTANCE PMP WITH N <- k.n, AddrBits <- k.addrBits, Grain <- k.grain,
    Sizes <- k.sizes, Perms <- k.perms, Levels <- k.levels, EmptyTor <- k.emptyTor,
    MachineMpp <- k.machineMpp

\* The parameters of the instances that are checked.
Spaces == [maxClass |-> 0, wordMax |-> 1, asids |-> {1, 2}, classes |-> {0},
           globals |-> BOOLEAN, sets |-> 2, ways |-> 1, countPages |-> TRUE]
Superpages == [maxClass |-> 1, wordMax |-> 1, asids |-> {1}, classes |-> {0, 1},
               globals |-> {FALSE}, sets |-> 2, ways |-> 1, countPages |-> TRUE]
Flushes == [maxClass |-> 0, wordMax |-> 1, asids |-> {1, 2}, classes |-> {0},
            globals |-> BOOLEAN, sets |-> 2, ways |-> 1, countPages |-> FALSE]
Ways == [maxClass |-> 0, wordMax |-> 1, asids |-> {1}, classes |-> {0},
         globals |-> {FALSE}, sets |-> 2, ways |-> 2, countPages |-> FALSE]
Fences == [maxClass |-> 0, wordMax |-> 1, asids |-> {1, 2}, classes |-> {0},
           globals |-> {FALSE}, size |-> 1, ports |-> 2, depth |-> 1]
Queue == [maxClass |-> 0, wordMax |-> 1, asids |-> {1}, classes |-> {0},
          globals |-> {FALSE}, size |-> 1, ports |-> 2, depth |-> 2]
Mixed == [maxClass |-> 1, wordMax |-> 1, asids |-> {1}, classes |-> {0, 1},
          globals |-> {FALSE}, size |-> 1, ports |-> 2, depth |-> 1]
Walk == [levels |-> 2, ppnMax |-> 1, tables |-> WalkTables, vpns |-> WalkVpns,
         bitSets |-> WalkBits, satps |-> WalkSatps]
Protection == [n |-> 2, addrBits |-> 2, grain |-> 0, sizes |-> {0}, perms |-> {"r"},
               levels |-> {0, 3}, emptyTor |-> TRUE, machineMpp |-> FALSE]
Grains == [n |-> 2, addrBits |-> 3, grain |-> 1, sizes |-> {1, 2}, perms |-> {"r"},
           levels |-> {3}, emptyTor |-> FALSE, machineMpp |-> FALSE]

Data == INSTANCE AddressTranslator WITH Mode <- "LSU", XVpnLen <- 4, VpnLen <- 2,
    PpnLen <- 3, Pages <- {1, 3, 14}, Frames <- {2}, fwd <- trFwd
Fetched == INSTANCE AddressTranslator WITH Mode <- "INSTRUCTION", XVpnLen <- 4,
    VpnLen <- 2, PpnLen <- 3, Pages <- {1, 8}, Frames <- {2}, fwd <- trFwd

ASSUME InstancesAssumption ==
    /\ L2(Spaces)!CamAssumption /\ L2(Spaces)!SetAssumption /\ L2(Superpages)!CamAssumption
    /\ L2(Superpages)!SetAssumption /\ L2(Flushes)!CamAssumption
    /\ L2(Flushes)!SetAssumption /\ L2(Ways)!CamAssumption /\ L2(Ways)!SetAssumption
    /\ L1(Fences)!CamAssumption /\ L1(Fences)!FullAssumption /\ L1(Queue)!CamAssumption
    /\ L1(Queue)!FullAssumption /\ L1(Mixed)!CamAssumption /\ L1(Mixed)!FullAssumption
    /\ Walker(Walk)!WalkerAssumption /\ Data!TranslatorAssumption
    /\ Fetched!TranslatorAssumption /\ Checker(Protection)!PMPAssumption
    /\ Checker(Grains)!PMPAssumption

\* The variables of a module while another one runs.
SetAssociativeTLBIdle ==
    /\ mem = 0 /\ rr = 0 /\ rd = 0 /\ rrRd = 0 /\ pipe = 0 /\ chk = 0 /\ cls = 0
    /\ refill = 0 /\ walkAsid = 0 /\ fsm = 0 /\ resp = 0 /\ fwd = 0 /\ flush = 0
    /\ asid = 0
FullyAssociativeTLBIdle ==
    /\ entries = 0 /\ l1Rr = 0 /\ flushQueue = 0 /\ slow = 0 /\ vpnReq = 0
    /\ refilling = 0 /\ asked = 0 /\ since = 0 /\ late = 0 /\ result = 0
    /\ l1Asid = 0
PageTableWalkerIdle ==
    /\ ptwFsm = 0 /\ level = 0 /\ vpn = 0 /\ isStore = 0 /\ ppn = 0
    /\ accessFault = 0 /\ pageFault = 0 /\ ptwAsid = 0 /\ perm = 0 /\ satp = 0
    /\ start = 0 /\ seen = 0
AddressTranslatorIdle ==
    /\ csr = 0 /\ trFwd = 0 /\ moved = 0 /\ out = 0
PMPIdle ==
    /\ cfg = 0 /\ addr = 0 /\ status = 0

SetAssociativeTLBVars == <<mem, rr, rd, rrRd, pipe, chk, cls, refill, walkAsid, fsm,
    resp, fwd, flush, asid>>
FullyAssociativeTLBVars == <<entries, l1Rr, flushQueue, slow, vpnReq, refilling, asked,
    since, late, result, l1Asid>>
PageTableWalkerVars == <<ptwFsm, level, vpn, isStore, ppn, accessFault, pageFault,
    ptwAsid, perm, satp, start, seen>>
AddressTranslatorVars == <<csr, trFwd, moved, out>>
PMPVars == <<cfg, addr, status>>

Init ==
    \/ /\ \/ part = "Spaces"     /\ L2(Spaces)!Init
          \/ part = "Superpages" /\ L2(Superpages)!Init
          \/ part = "Flushes"    /\ L2(Flushes)!Init
          \/ part = "Ways"       /\ L2(Ways)!Init
       /\ FullyAssociativeTLBIdle /\ PageTableWalkerIdle /\ AddressTranslatorIdle
       /\ PMPIdle
    \/ /\ \/ part = "Fences" /\ L1(Fences)!Init
          \/ part = "Queue"  /\ L1(Queue)!Init
          \/ part = "Mixed"  /\ L1(Mixed)!Init
       /\ SetAssociativeTLBIdle /\ PageTableWalkerIdle /\ AddressTranslatorIdle
       /\ PMPIdle
    \/ /\ \/ part = "Walk" /\ Walker(Walk)!Init
       /\ SetAssociativeTLBIdle /\ FullyAssociativeTLBIdle /\ AddressTranslatorIdle
       /\ PMPIdle
    \/ /\ \/ part = "Data"    /\ Data!Init
          \/ part = "Fetched" /\ Fetched!Init
       /\ SetAssociativeTLBIdle /\ FullyAssociativeTLBIdle /\ PageTableWalkerIdle
       /\ PMPIdle
    \/ /\ \/ part = "Protection" /\ Checker(Protection)!Init
          \/ part = "Grains"     /\ Checker(Grains)!Init
       /\ SetAssociativeTLBIdle /\ FullyAssociativeTLBIdle /\ PageTableWalkerIdle
       /\ AddressTranslatorIdle

Next ==
    /\ UNCHANGED part
    /\ \/ /\ \/ part = "Spaces"     /\ L2(Spaces)!Next
             \/ part = "Superpages" /\ L2(Superpages)!Next
             \/ part = "Flushes"    /\ L2(Flushes)!Next
             \/ part = "Ways"       /\ L2(Ways)!Next
          /\ UNCHANGED <<FullyAssociativeTLBVars, PageTableWalkerVars,
                         AddressTranslatorVars, PMPVars>>
       \/ /\ \/ part = "Fences" /\ L1(Fences)!Next
             \/ part = "Queue"  /\ L1(Queue)!Next
             \/ part = "Mixed"  /\ L1(Mixed)!Next
          /\ UNCHANGED <<SetAssociativeTLBVars, PageTableWalkerVars,
                         AddressTranslatorVars, PMPVars>>
       \/ /\ \/ part = "Walk" /\ Walker(Walk)!Next
          /\ UNCHANGED <<SetAssociativeTLBVars, FullyAssociativeTLBVars,
                         AddressTranslatorVars, PMPVars>>
       \/ /\ \/ part = "Data"    /\ Data!Next
             \/ part = "Fetched" /\ Fetched!Next
          /\ UNCHANGED <<SetAssociativeTLBVars, FullyAssociativeTLBVars,
                         PageTableWalkerVars, PMPVars>>
       \/ /\ \/ part = "Protection" /\ Checker(Protection)!Next
             \/ part = "Grains"     /\ Checker(Grains)!Next
          /\ UNCHANGED <<SetAssociativeTLBVars, FullyAssociativeTLBVars,
                         PageTableWalkerVars, AddressTranslatorVars>>

vars == <<part, SetAssociativeTLBVars, FullyAssociativeTLBVars, PageTableWalkerVars,
          AddressTranslatorVars, PMPVars>>
Spec == Init /\ [][Next]_vars

-----------------------------------------------------------------------------
(***************************************************************************)
(* Whatever software fences, the second level translates the requested     *)
(* page in the address space of the request, although lookups, refills and *)
(* fences share one memory port. After a fence of all addresses it never   *)
(* answers with an entry the fence covers. A fence of one address promises *)
(* less: it empties the sets the covered entries belong to, and copies it  *)
(* made itself may stay in others (run tlb_page_fence; tlb.py              *)
(* SetAssociativeTLB).                                                     *)
(***************************************************************************)
SharedTlbRight ==
    /\ part = "Spaces" => /\ L2(Spaces)!TypeOK /\ L2(Spaces)!HomeFenced
                          /\ L2(Spaces)!RightTranslation
    /\ part = "Superpages" => L2(Superpages)!HomeFenced /\ L2(Superpages)!RightTranslation
    /\ part = "Flushes" => L2(Flushes)!NoStaleHit
    /\ part = "Ways" => L2(Ways)!NoStaleHit

(***************************************************************************)
(* The first level answers each port for the page and the address space    *)
(* the port asked about, and never from before a fence, although fences    *)
(* wait in a queue and the ports share one refill (tlb.py                  *)
(* FullyAssociativeTLB).                                                   *)
(***************************************************************************)
FirstLevelRight ==
    /\ part = "Fences" => L1(Fences)!TypeOK /\ L1(Fences)!RightAnswer
    /\ part = "Queue" => L1(Queue)!NoStaleAnswer
    /\ part = "Mixed" => L1(Mixed)!NoStaleAnswer

(***************************************************************************)
(* The walker's answer is the one the privileged specification gives for   *)
(* the entries it read, from the satp of the request also when software    *)
(* writes satp meanwhile; memory that cannot be read is an access fault    *)
(* and never a page fault (walker.py).                                     *)
(***************************************************************************)
WalkRight ==
    part = "Walk" => /\ Walker(Walk)!TypeOK /\ Walker(Walk)!WalkCorrect
                     /\ Walker(Walk)!FaultKind

(***************************************************************************)
(* An access whose privilege state does not change between the request and *)
(* the answer is granted, refused or translated as the privilege mode,     *)
(* MPRV, SUM, MXR and satp ask for, although they are read once at the     *)
(* request and once at the answer (translation.py).                        *)
(***************************************************************************)
AccessesRight ==
    /\ part = "Data" => Data!TypeOK /\ Data!AccessRight
    /\ part = "Fetched" => Fetched!AccessRight

(***************************************************************************)
(* Whatever order the entries are written in, protection grants what the   *)
(* first entry that matches the access allows and nothing else (pmp.py).   *)
(***************************************************************************)
ProtectionRight ==
    /\ part = "Protection" => Checker(Protection)!TypeOK /\ Checker(Protection)!GrantsAllowed
    /\ part = "Grains" => Checker(Grains)!GrantsAllowed

(***************************************************************************)
(* No write moves the region of a locked entry, the bound it takes from    *)
(* the entry below it included (csr_instances.py, pmp.py).                 *)
(***************************************************************************)
LockedStays ==
    [][part = "Protection" => Checker(Protection)!LockedFixed]_vars
=============================================================================
