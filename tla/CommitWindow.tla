---------------------------- MODULE CommitWindow ----------------------------
(***************************************************************************)
(* The commit window of the core, clock cycle by clock cycle: the status   *)
(* bits of the reorder buffer (core_structs/rob.py), the masks, the trap   *)
(* FSM and the side effect guard of backend/retirement.py, the exception   *)
(* information register with its report FIFOs (priv/traps/exception.py)    *)
(* and the units that report, ask the guard and roll back.                 *)
(*                                                                         *)
(* Instructions enter in groups of at most FrontendWidth.  Their data is   *)
(* what the window tells apart: "alu" (pure), "branch" (impure, resolves   *)
(* out of order, may roll back), "load" (impure, may fault out of order),  *)
(* "store" (impure, asks the guard) and "csr" (asks the guard with         *)
(* require_done; nothing is fetched behind it).                            *)
(* The stages in front of the reorder buffer are two counters of groups:   *)
(* sched_stale, of a path that was rolled back, and sched_fresh behind.    *)
(* Tagging and the put into the reorder buffer are one step here; module   *)
(* SpeculativeCore has the stages between them and the rename tables.      *)
(***************************************************************************)
EXTENDS Naturals, FiniteSets, Sequences

CONSTANTS
    RobSize,        \* reorder buffer entries
    NTags,          \* 2 ^ tag_bits
    FrontendWidth,  \* frontend_superscalarity
    RetireWidth,    \* retirement_superscalarity
    MaxSched,       \* bound: groups between fetch and the reorder buffer
    Kinds,          \* the kinds of instructions fetched
    Outcomes        \* bound: the outcomes of branches, stores and CSR accesses

\* What the parameters must satisfy.
CommitWindowAssumption ==
    /\ RobSize \in Nat /\ NTags \in Nat \ {0, 1} /\ MaxSched \in Nat \ {0}
    /\ FrontendWidth \in 1..RobSize /\ RetireWidth \in 1..(RobSize - 1)
    /\ Kinds \subseteq {"alu", "branch", "load", "store", "csr"}
    /\ Outcomes \subseteq {"mispredict", "fault", "async"}

VARIABLES
    start, count,       \* reorder buffer: read index and occupancy
    slot,               \* what each occupied entry holds
    done, pure, exception,  \* status bits; they outlive the entry
    results,            \* results pushed by the units and not yet announced
    tags_head, tags_tail, active_tags,  \* tags_tail is also last_retired_tag
    last_issued_tag, next_tag_increment, rollback_just_started,
    sched_stale, sched_fresh,
    unsafe,             \* fetch waits for an instruction it cannot pass
    report_fifo,        \* one FIFO of reports per unit
    eir,                \* exception information register
    fsm                 \* state of the retirement FSM

robVars == <<start, count, slot, done, pure, exception, results>>
tagVars == <<tags_head, tags_tail, active_tags, last_issued_tag,
             next_tag_increment, rollback_just_started>>
schedVars == <<sched_stale, sched_fresh, unsafe>>
trapVars == <<report_fifo, eir, fsm>>
vars == <<robVars, tagVars, schedVars, trapVars>>

Ids == 0..(RobSize - 1)
Tags == 0..(NTags - 1)
UnitOf(kind) == IF kind \in {"load", "store"} THEN "lsu" ELSE kind
Units == {UnitOf(k) : k \in Kinds \ {"alu"}}
FifoDepth == 2
Empty == [kind |-> "none", tag |-> 0, inc |-> FALSE, st |-> "none", fx |-> FALSE]
NoReport == [valid |-> FALSE, id |-> 0, tag |-> 0, async |-> FALSE, live |-> FALSE]

Init ==
    /\ start = 0 /\ count = 0
    /\ slot = [i \in Ids |-> Empty]
    /\ done = [i \in Ids |-> FALSE]
    /\ pure = [i \in Ids |-> FALSE]
    /\ exception = [i \in Ids |-> FALSE]
    /\ results = {}
    /\ tags_head = 1 /\ tags_tail = 0 /\ active_tags = {0}
    /\ last_issued_tag = 0
    /\ next_tag_increment = FALSE /\ rollback_just_started = FALSE
    /\ sched_stale = 0 /\ sched_fresh = 0 /\ unsafe = FALSE
    /\ report_fifo = [u \in Units |-> <<>>]
    /\ eir = NoReport
    /\ fsm = "NORMAL"

-----------------------------------------------------------------------------
(***************************************************************************)
(* Retirement: the window of RetireWidth entries that peek returns.        *)
(***************************************************************************)
Window == 0..(RetireWidth - 1)
Entry(i) == (start + i) % RobSize
Live == {Entry(i) : i \in 0..(count - 1)}
Pos(id) == (id - start) % RobSize

\* position of the first window entry that satisfies a mask, or the width
FirstOf(S) == IF S = {} THEN RetireWidth ELSE CHOOSE i \in S : \A j \in S : i <= j

\* get_active_tags: while the core is flushed, no tag is
Active == IF fsm = "TRAP_FLUSH" THEN {} ELSE active_tags

Inc(i) == slot[Entry(i)].inc
DoneCount == FirstOf({i \in Window : ~done[Entry(i)]})

\* one tag can be freed per cycle: a second increment ends the group
RetireCount ==
    FirstOf({i \in Window : i >= DoneCount \/ (Inc(i) /\ \E j \in 0..(i - 1) : Inc(j))})
Retiring == 0..(RetireCount - 1)
FreeTag == \E i \in Retiring : Inc(i)

TagAt(i) == (tags_tail + Cardinality({j \in 0..i : Inc(j)})) % NTags
TagActiveMask == {i \in Retiring : TagAt(i) \in Active}

ExceptionBits == {i \in TagActiveMask : exception[Entry(i)]}
NoTrapCount == FirstOf(ExceptionBits \cup (Window \ Retiring))
Exception == ExceptionBits # {}
CommitTrapping == Exception /\ eir.async

RetireValid == Exception => eir.valid /\ eir.id = Entry(NoTrapCount)
RobRetireReady == done[start]
Retires ==
    /\ RobRetireReady
    /\ \/ fsm = "NORMAL" /\ RetireValid
       \/ fsm = "TRAP_FLUSH"

\* what reaches the architectural state; the rest of the group is flushed
Committed ==
    {i \in TagActiveMask : i < NoTrapCount \/ (CommitTrapping /\ i = NoTrapCount)}
InstretAdded ==
    IF Exception
    THEN Cardinality({i \in TagActiveMask : i < NoTrapCount}) + (IF CommitTrapping THEN 1 ELSE 0)
    ELSE Cardinality(TagActiveMask)

(***************************************************************************)
(* Method side_fx_guard: side effects may run for the first impure entry,  *)
(* unless an older one of the group is done with an exception.             *)
(***************************************************************************)
PureCount == FirstOf({i \in Window : ~pure[Entry(i)]})
SideFxRobId == Entry(PureCount)
PureInactive == {i \in Window : i < PureCount /\ TagAt(i) \notin Active}
PureActiveCount == PureCount - Cardinality(PureInactive)
CoreFlushing ==
    fsm = "TRAP_FLUSH" \/ \E j \in 0..(DoneCount - 1) : exception[Entry(j)]
SideFxGuardAnyOrder(id, tag, require_done) ==   \* mutant: not only the first
    ~CoreFlushing /\ tag \in Active
SideFxGuardNoDone(id, tag, require_done) ==     \* mutant: require_done ignored
    ~CoreFlushing /\ id = SideFxRobId /\ tag \in Active
SideFxGuard(id, tag, require_done) ==
    /\ ~CoreFlushing
    /\ id = SideFxRobId
    /\ require_done => PureCount = DoneCount
    /\ tag \in Active

-----------------------------------------------------------------------------
(***************************************************************************)
(* What a unit may do in a cycle: x = <<id, event>>.  Events: "release"    *)
(* (the guarded side effect runs), "ok", "mispredict", "fault" and "async" *)
(* (the result is pushed; the last two report in the same transaction).    *)
(***************************************************************************)
Flushed(id) == slot[id].tag \notin Active
Reports(x) == x[2] \in {"fault", "async"}

\* jump/branch unit: pushes its result and rolls back in one transaction
BranchEvents == {"ok", "mispredict", "fault", "async"}
\* load/store unit: a load from memory is speculative and may still report when
\* it was issued before its path was rolled back; a store or its fault waits for
\* the guard, and a flushed one ends as a no-op
LoadEvents == {"ok", "fault"}
StoreEvents(id) ==
    IF slot[id].st = "released" THEN {"ok", "fault"}
    ELSE IF Flushed(id) THEN {"ok"}
    ELSE IF SideFxGuard(id, slot[id].tag, FALSE) THEN {"release", "fault"} ELSE {}
\* CSR unit: an interrupt is reported even for an instruction that is flushed
CsrEvents(id) ==
    IF slot[id].st = "released" THEN {"ok", "fault", "async"}
    ELSE IF Flushed(id) THEN {"ok", "async"}
    ELSE IF SideFxGuard(id, slot[id].tag, TRUE) THEN {"release"} ELSE {}

Events(id) ==
    CASE slot[id].kind = "alu" -> {"ok"}
      [] slot[id].kind = "branch" -> BranchEvents
      [] slot[id].kind = "load" -> LoadEvents
      [] slot[id].kind = "store" -> StoreEvents(id)
      [] slot[id].kind = "csr" -> CsrEvents(id)

Executions ==
    {x \in (Live \X ({"release", "ok"} \cup Outcomes)) :
        /\ slot[x[1]].st \in {"wait", "released"}
        /\ x[2] \in Events(x[1])
        /\ Reports(x) => Len(report_fifo[UnitOf(slot[x[1]].kind)]) < FifoDepth}

\* the branch whose rollback runs in this cycle, if any
RollsBack(X) == {x[1] : x \in {y \in X : y[2] = "mispredict" /\ ~Flushed(y[1])}}

-----------------------------------------------------------------------------
(***************************************************************************)
(* The scheduler puts a group.  A branch ends its group and the next group *)
(* takes a new tag; so does the first group after a rollback.  A group of  *)
(* the old path takes the pending tag too, but inactive.                   *)
(***************************************************************************)
Groups ==
    {g \in UNION {[1..n -> Kinds] : n \in 1..FrontendWidth} :
        \A k \in 1..(Len(g) - 1) : g[k] \notin {"branch", "csr"}}

OldPath == sched_stale > 0
TagIncrement == IF ~OldPath /\ rollback_just_started THEN TRUE ELSE next_tag_increment
OutTag == IF TagIncrement THEN tags_head ELSE last_issued_tag
PutReady(g) ==
    /\ sched_stale + sched_fresh > 0
    /\ count + Len(g) <= RobSize
    /\ TagIncrement => tags_head # tags_tail
    /\ g[Len(g)] = "csr" /\ ~OldPath => sched_fresh = 1

NextTag(t) == (t + 1) % NTags
TagAge(t) == (t - tags_tail) % NTags
Invalidated(B) == UNION {{u \in Tags : TagAge(u) > TagAge(slot[b].tag)} : b \in B}

\* the invalidated tags stay allocated until the wrong path has retired
HeadAfter(B) == tags_head

TagsCycle(P, X) ==
    LET allocates == P # {} /\ TagIncrement
        frees == Retires /\ FreeTag
        rolls == RollsBack(X)
        resumes == P # {} /\ ~OldPath
    IN /\ tags_head' = IF allocates THEN NextTag(tags_head) ELSE HeadAfter(rolls)
       /\ tags_tail' = IF frees THEN NextTag(tags_tail) ELSE tags_tail
       /\ active_tags' =
            (active_tags \cup (IF allocates /\ ~OldPath THEN {tags_head} ELSE {}))
               \ (Invalidated(rolls) \cup (IF frees THEN {tags_tail} ELSE {}))
       /\ last_issued_tag' = IF P # {} THEN OutTag ELSE last_issued_tag
       /\ next_tag_increment' =
            IF P = {} THEN next_tag_increment
            ELSE ~OldPath /\ \E g \in P : g[Len(g)] = "branch"
       /\ rollback_just_started' = (rolls # {} \/ (rollback_just_started /\ ~resumes))

(***************************************************************************)
(* Fetch (f) adds a group unless the stall controller sees an exception or *)
(* an unsafe instruction is pending; a rollback makes all of them stale.   *)
(***************************************************************************)
FetchReady ==
    /\ ~eir.valid /\ fsm = "NORMAL" /\ ~unsafe
    /\ sched_stale + sched_fresh < MaxSched

SchedCycle(P, X, f) ==
    LET taken == IF P = {} THEN 0 ELSE 1
        fresh == sched_fresh + (IF f THEN 1 ELSE 0) - (IF OldPath THEN 0 ELSE taken)
        stale == sched_stale - (IF OldPath THEN taken ELSE 0)
        resolved == \E x \in X : slot[x[1]].kind = "csr" /\ x[2] = "ok" /\ ~Flushed(x[1])
        csr == ~OldPath /\ \E g \in P : g[Len(g)] = "csr"
    IN IF RollsBack(X) # {}
       THEN sched_stale' = stale + fresh /\ sched_fresh' = 0 /\ unsafe' = FALSE
       ELSE /\ sched_stale' = stale /\ sched_fresh' = fresh
            /\ unsafe' = ((unsafe /\ ~resolved /\ fsm # "TRAP_RESUME") \/ csr)

-----------------------------------------------------------------------------
(***************************************************************************)
(* The reorder buffer: retire, put and mark_done of one cycle.  A pure bit *)
(* is written for the first RetireWidth entries of a put only.  The        *)
(* exception bit is looked at together with done, so it may as well go     *)
(* when the entry does.                                                    *)
(***************************************************************************)
Leaving == IF Retires THEN {Entry(i) : i \in Retiring} ELSE {}
PutId(k) == (start + count + k - 1) % RobSize

RobCycle(P, X, A) ==
    LET grp == IF P = {} THEN <<>> ELSE CHOOSE g \in P : TRUE
        put(id) == CHOOSE k \in 1..Len(grp) : PutId(k) = id
        isPut(id) == \E k \in 1..Len(grp) : PutId(k) = id
        announced(id) == \E a \in A : a.id = id
        act(id) == {x \in X : x[1] = id}
        event(id) == (CHOOSE x \in act(id) : TRUE)[2]
    IN /\ start' = (start + Cardinality(Leaving)) % RobSize
       /\ count' = count + Len(grp) - Cardinality(Leaving)
       /\ slot' = [id \in Ids |->
            CASE isPut(id) ->
                    [kind |-> grp[put(id)], tag |-> OutTag, st |-> "wait", fx |-> FALSE,
                     inc |-> put(id) = 1 /\ TagIncrement]
              [] id \in Leaving -> Empty
              [] act(id) # {} ->
                    [slot[id] EXCEPT !.st = IF event(id) = "release" THEN "released" ELSE "pushed",
                                     !.fx = @ \/ event(id) = "release"]
              [] OTHER -> slot[id]]
       /\ done' = [id \in Ids |-> IF id \in Leaving THEN FALSE ELSE done[id] \/ announced(id)]
       /\ pure' = [id \in Ids |->
            IF announced(id) THEN ~(CHOOSE a \in A : a.id = id).exc
            ELSE IF isPut(id) /\ put(id) <= RetireWidth THEN grp[put(id)] = "alu"
            ELSE pure[id]]
       /\ exception' = [id \in Ids |->
            IF announced(id) THEN (CHOOSE a \in A : a.id = id).exc
            ELSE exception[id] /\ id \notin Leaving]
       /\ results' = (results \ A) \cup
            {[id |-> x[1], exc |-> Reports(x)] : x \in {y \in X : y[2] # "release"}}

-----------------------------------------------------------------------------
(***************************************************************************)
(* Exception information register: one report per cycle reaches it.  The   *)
(* distance from the read index is taken with one bit more than an index.  *)
(***************************************************************************)
DistPlain(id) == id                             \* mutant: the index wraps
Dist(id) == (id - start) % (2 * RobSize)

ReportDrop(r) == r.tag \notin Active \/ (eir.valid /\ r.id = eir.id)
ReportWrites(r) == ~ReportDrop(r) /\ (eir.valid => Dist(r.id) < Dist(eir.id))

\* the stored report was rolled back; while flushing it is kept for Retirement
Invalidates == eir.tag \notin Active /\ fsm # "TRAP_FLUSH"

\* method clear, called when Retirement resumes: the FIFOs are emptied too
ClearsFifos == fsm = "TRAP_RESUME"

\* ghost: a report whose instruction left the reorder buffer is not live
Aged(r) == [r EXCEPT !.live = @ /\ r.id \notin Leaving]

TrapCycle(X, D) ==
    LET arrived == {Head(report_fifo[u]) : u \in D}
        written == {r \in arrived : ReportWrites(r)}
        rest(u) == IF u \in D THEN Tail(report_fifo[u]) ELSE report_fifo[u]
        new(u) == {x \in X : UnitOf(slot[x[1]].kind) = u /\ Reports(x)}
        pushed(u) == IF new(u) = {} THEN rest(u)
                     ELSE LET x == CHOOSE x \in new(u) : TRUE
                          IN Append(rest(u), [valid |-> TRUE, id |-> x[1], tag |-> slot[x[1]].tag,
                                              async |-> x[2] = "async", live |-> TRUE])
    IN /\ eir' = IF fsm = "TRAP_RESUME" THEN NoReport
                 ELSE IF written # {} THEN Aged(CHOOSE r \in written : TRUE)
                 ELSE IF Invalidates THEN NoReport ELSE Aged(eir)
       /\ report_fifo' = [u \in Units |->
            IF ClearsFifos THEN <<>>
            ELSE [k \in 1..Len(pushed(u)) |-> Aged(pushed(u)[k])]]

CoreEmptyBefore == count + sched_stale + sched_fresh = 0    \* mutant
CoreEmpty == count = RetireCount /\ sched_stale + sched_fresh = 0

FsmCycle ==
    fsm' = CASE fsm = "NORMAL" /\ Retires /\ Exception ->
                    (IF CoreEmpty THEN "TRAP_RESUME" ELSE "TRAP_FLUSH")
             [] fsm = "TRAP_FLUSH" /\ Retires /\ CoreEmpty -> "TRAP_RESUME"
             [] fsm = "TRAP_RESUME" -> "NORMAL"
             [] OTHER -> fsm

(***************************************************************************)
(* One cycle: P, X, A and D are empty or hold the one group put, the one   *)
(* unit event, the one result announced and the unit whose report arrives; *)
(* f says whether a group is fetched.                                      *)
(***************************************************************************)
AtMostOne(S) == {{}} \cup {{s} : s \in S}
OneOf(S) == IF S = {} THEN {{}} ELSE {{s} : s \in S}

Cycle(P, X, A, D, f) ==
    /\ f => FetchReady
    /\ TagsCycle(P, X)
    /\ SchedCycle(P, X, f)
    /\ RobCycle(P, X, A)
    /\ TrapCycle(X, D)
    /\ FsmCycle

\* a group that fits does not wait, nor do announcements and reports
Puts ==
    LET ready == {g \in Groups : PutReady(g)}
    IN {{g} : g \in ready} \cup (IF ready = Groups THEN {} ELSE {{}})
CycleWith(X) ==
    \E P \in Puts, A \in OneOf(results), f \in BOOLEAN,
       D \in OneOf({u \in Units : report_fifo[u] # <<>>}) : Cycle(P, X, A, D, f)

\* bound: one unit event in a cycle, or a report of each of two units
Simultaneous ==
    AtMostOne(Executions) \cup
    {{x, y} : x, y \in {z \in Executions : Reports(z)}}
UnitEvents == {X \in Simultaneous : \A x, y \in X : x # y => UnitOf(slot[x[1]].kind) # UnitOf(slot[y[1]].kind)}

Next == \E X \in UnitEvents : CycleWith(X)

Spec == Init /\ [][Next]_vars
-----------------------------------------------------------------------------
(***************************************************************************)
(* Types.                                                                  *)
(***************************************************************************)
Report == [valid : BOOLEAN, id : Ids, tag : Tags, async : BOOLEAN, live : BOOLEAN]
TypeOK ==
    /\ start \in Ids /\ count \in 0..RobSize
    /\ \A i \in Ids : /\ slot[i].tag \in Tags
                      /\ slot[i].kind \in Kinds <=> i \in Live
                      /\ slot[i].st \in {"none", "wait", "released", "pushed"}
    /\ {done, pure, exception} \subseteq [Ids -> BOOLEAN]
    /\ results \subseteq [id : Ids, exc : BOOLEAN]
    /\ {tags_head, tags_tail, last_issued_tag} \subseteq Tags /\ active_tags \subseteq Tags
    /\ sched_stale + sched_fresh \in 0..MaxSched
    /\ \A u \in Units : report_fifo[u] \in Seq(Report) /\ Len(report_fifo[u]) <= FifoDepth
    /\ eir \in Report
    /\ fsm \in {"NORMAL", "TRAP_FLUSH", "TRAP_RESUME"}

(***************************************************************************)
(* A side effect that was released is never undone: the instruction leaves *)
(* the reorder buffer committed, or with the trap of its own exception.    *)
(***************************************************************************)
SideEffectsKept ==
    Retires =>
        \A i \in Retiring :
            slot[Entry(i)].fx =>
                /\ fsm = "NORMAL"
                /\ i \in Committed \/ (i = NoTrapCount /\ Exception)

(***************************************************************************)
(* A report is never taken for another instruction's: what the register    *)
(* holds on an active tag was reported by the instruction that occupies    *)
(* that entry now, and a report that waits in a FIFO longer than its       *)
(* instruction lives has an inactive tag, although both are reused.        *)
(***************************************************************************)
ReportBelongs ==
    fsm = "NORMAL" =>
        /\ eir.valid /\ eir.tag \in Active => eir.live /\ eir.id \in Live
        /\ \A u \in Units : \A k \in 1..Len(report_fifo[u]) :
                report_fifo[u][k].live \/ report_fifo[u][k].tag \notin Active

(***************************************************************************)
(* A report is never lost: the register names, or a FIFO still holds, an   *)
(* exception at or before every active instruction that raised one.        *)
(***************************************************************************)
ReportPending(id) ==
    \E u \in Units : \E k \in 1..Len(report_fifo[u]) :
        report_fifo[u][k].live /\ report_fifo[u][k].id = id
Raised(id) == (done[id] /\ exception[id]) \/ [id |-> id, exc |-> TRUE] \in results
NoReportLost ==
    \A id \in Live :
        Raised(id) /\ ~Flushed(id) =>
            \/ ReportPending(id)
            \/ eir.valid /\ Pos(eir.id) <= Pos(id)

(***************************************************************************)
(* Results in flight are for entries that are occupied and not done: no    *)
(* late unit marks an entry that was retired or reused (the race of the    *)
(* comment at mark_done).                                                  *)
(***************************************************************************)
NoLateResult ==
    \A r \in results : r.id \in Live /\ ~done[r.id] /\ slot[r.id].st = "pushed"

(***************************************************************************)
(* instret counts exactly the committed instructions, and a CSR            *)
(* instruction that is released reads it exactly: instret plus             *)
(* pure_active_count is every older instruction of the path, all of them   *)
(* finished without an exception.                                          *)
(***************************************************************************)
Older(id) == {j \in Live : Pos(j) < Pos(id)}
InstretExact ==
    /\ fsm = "NORMAL" /\ Retires => InstretAdded = Cardinality(Committed)
    /\ \A id \in Live :
        slot[id].kind = "csr" /\ slot[id].st = "wait" /\ SideFxGuard(id, slot[id].tag, TRUE) =>
            /\ PureActiveCount = Cardinality({j \in Older(id) : ~Flushed(j)})
            /\ \A j \in Older(id) : done[j] /\ ~exception[j]

(***************************************************************************)
(* The tags Retirement counts up from last_retired_tag are the tags the    *)
(* scheduler gave, also across the increments in a group.                  *)
(***************************************************************************)
TagsAgree == \A i \in Retiring : TagAt(i) = slot[Entry(i)].tag

\* A unit acts on the instruction (liveness: MCComponentsLive).
Executes(id) == \E x \in Executions : x[1] = id /\ CycleWith({x})
=============================================================================
