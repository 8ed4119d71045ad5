----------------------------- MODULE MCCoreLive -----------------------------
(***************************************************************************)
(* Liveness of the speculative core.  A behaviour is about traps or about  *)
(* rollbacks, as part says: with traps, branches without results keep tags *)
(* and checkpoints busy, instructions raise exceptions and the scheduler   *)
(* may refuse; with rollbacks, branches that link also need a physical     *)
(* register, nothing raises an exception (so no marker is lost) and the    *)
(* scheduler accepts what it can.                                          *)
(***************************************************************************)
EXTENDS MCSpeculativeCore

VARIABLE part

BothKinds == BranchKinds \cup LinkKinds
Of(kinds) == {d \in Deliveries : d = <<>> \/ d[1] \in kinds}
NoException(exs) == {ex \in exs : ex = <<>> \/ ~ex[1].exc}

liveVars == <<part, vars>>
LiveInit == Init /\ part \in {"Traps", "Rollbacks"}

\* The cycles of the behaviour's part among these deliveries and executions.
PartCycle(pushes, exs) ==
    /\ UNCHANGED part
    /\ \/ part = "Traps" /\ CycleWith(pushes \cap Of(BranchKinds), exs, Reports, Accepts)
       \/ part = "Rollbacks" /\ CycleWith(pushes \cap Of(LinkKinds), NoException(exs), {{}}, {TRUE})
LiveNext == PartCycle(Deliveries, Executions)

(***************************************************************************)
(* Fairness.  The clock ticks.  The oldest instruction has all its         *)
(* operands, so a unit completes it some day.  For rollbacks only, the     *)
(* frontend delivers when it may.                                          *)
(***************************************************************************)
OldestCompletes ==
    PartCycle(Deliveries, {ex \in Executions : ex # <<>> /\ ex[1].at = 1})
FrontendDelivers ==
    part = "Rollbacks" /\ PartCycle(Deliveries \ {<<>>}, Executions)

LiveSpec == /\ LiveInit /\ [][LiveNext]_liveVars
            /\ WF_liveVars(LiveNext) /\ WF_liveVars(OldestCompletes)
            /\ WF_liveVars(FrontendDelivers)

-----------------------------------------------------------------------------
(***************************************************************************)
(* Every rollback ends: the first instruction of the new path gets a tag   *)
(* (frontend.py RollbackTagger, crat.py).                                  *)
(***************************************************************************)
RollbackCompletes ==
    part = "Rollbacks" /\ rollback_just_started ~> ~rollback_just_started

(***************************************************************************)
(* Every trap ends: the core drains and the handler is fetched             *)
(* (retirement.py), whatever the scheduler refuses for a while.            *)
(***************************************************************************)
TrapCompletes == part = "Traps" /\ fsm # "NORMAL" ~> fsm = "NORMAL"
=============================================================================
