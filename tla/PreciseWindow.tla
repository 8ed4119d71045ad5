---------------------------- MODULE PreciseWindow ----------------------------
(***************************************************************************)
(* What the speculative core promises to a programmer: a window of         *)
(* instructions in program order between the committed register table and  *)
(* the frontend.  Instructions enter at the young end with a register      *)
(* nobody else owns and may turn out to raise an exception; a prefix is    *)
(* committed in order; a misprediction cuts the window right after a       *)
(* branch; the oldest exception empties it and commits nothing younger.    *)
(* There are no tags, no wrong-path instructions and no checkpoints here.  *)
(***************************************************************************)
EXTENDS Naturals, Sequences, FiniteSetsExt

CONSTANTS LRegs, AnyReg, ZeroReg, Width

VARIABLES arch, window
winVars == <<arch, window>>

Item == [rl : LRegs, rp : AnyReg, br : BOOLEAN, exc : {FALSE}]
Owned == {arch[l] : l \in LRegs} \cup {window[i].rp : i \in DOMAIN window}
Faulty == {i \in DOMAIN window : window[i].exc}

\* The table after the n oldest instructions
After(n) ==
    [l \in LRegs |-> LET W == {i \in 1 .. n : window[i].rl = l}
                     IN IF W = {} THEN arch[l] ELSE window[Max(W)].rp]

WindowInit == arch = [l \in LRegs |-> ZeroReg] /\ window = <<>>

Commit(n) == n <= Len(window) /\ arch' = After(n)

\* The window without its n oldest instructions, one of which may have faulted
Rest(n) ==
    LET w == SubSeq(window, n + 1, Len(window))
    IN {w} \cup {[w EXCEPT ![i].exc = TRUE] : i \in DOMAIN w}

Flow(n) ==
    /\ Commit(n)
    /\ \A x \in Faulty : n < x
    /\ \/ window' \in Rest(n)
       \/ \E r \in Rest(n), i \in Item : /\ i.rp \notin Owned \/ i.rp = ZeroReg
                                         /\ window' = Append(r, i)

Mispredict(n, at) ==
    /\ n < at
    /\ window[at].br
    /\ Commit(n)
    /\ \A x \in Faulty : n < x
    /\ window' = SubSeq(window, n + 1, at)

\* A fault commits what is older, an interrupt also the instruction it came with
Trap(n) ==
    /\ Faulty # {} /\ n \in {Min(Faulty) - 1, Min(Faulty)}
    /\ Commit(n)
    /\ window' = <<>>

WindowNext ==
    \E n \in 0 .. Width : \/ Flow(n)
                          \/ \E at \in DOMAIN window : Mispredict(n, at)
                          \/ Trap(n)

WindowSpec == WindowInit /\ [][WindowNext]_winVars
=============================================================================
