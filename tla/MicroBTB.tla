----------------------------- MODULE MicroBTB -----------------------------
(***************************************************************************)
(* The micro branch target buffer (frontend/bpu/micro_btb.py): a fully     *)
(* associative table of fetch blocks with usefulness counters, replaced    *)
(* by tree pseudo-LRU (TreePLRU).  One step is one clock cycle: a lookup   *)
(* is asked for, the one asked for before is answered, and the table is    *)
(* trained, each from the registers at the start of the cycle.             *)
(***************************************************************************)
EXTENDS Naturals, Sequences, FiniteSets

CONSTANTS EntriesLog, UsefulMax,
          Blocks,  \* fetch block addresses
          Targets  \* what an entry predicts: target, index and type of the jump

\* What the parameters must satisfy.
BtbAssumption == UsefulMax \in Nat \ {0} /\ EntriesLog \in Nat \ {0}

Entries == 0..2 ^ EntriesLog - 1

VARIABLES entries, tree,
          req,     \* req_fb and req_valid: <<>> or <<block>>
          trained, \* history: block -> targets it was taken to
          recent   \* history: the entries that were touched last, newest first

vars == <<entries, tree, req, trained, recent>>

P == INSTANCE TreePLRU WITH WaysLog <- EntriesLog, Ports <- 2

Any(S) == CHOOSE x \in S : TRUE
Entry == [tag : Blocks, target : Targets, useful : 0..UsefulMax]

TypeOK == /\ entries \in [Entries -> Entry] /\ tree \in [P!Nodes -> BOOLEAN]
          /\ req \in {<<>>} \union {<<b>> : b \in Blocks}

Init == /\ entries = [i \in Entries |-> [tag |-> Any(Blocks), target |-> Any(Targets), useful |-> 0]]
        /\ tree = [n \in P!Nodes |-> FALSE] /\ req = <<>>
        /\ trained = [b \in Blocks |-> {}] /\ recent = <<>>

-----------------------------------------------------------------------------
MatchVec(fb) == {i \in Entries : entries[i].useful # 0 /\ entries[i].tag = fb}

NotUseful == {i \in Entries : entries[i].useful = 0}
Victim == IF NotUseful # {} THEN CHOOSE i \in NotUseful : \A j \in NotUseful : i <= j
          ELSE P!GetVictim(tree)

Increased(u) == IF u = UsefulMax THEN UsefulMax ELSE u + 1
Decreased(u) == IF u = 0 THEN 0 ELSE u - 1

\* update: reinforce or weaken the entry that hits, or allocate one for a taken jump.
Trained(fb, target, taken) ==
  [i \in Entries |->
     IF i \in MatchVec(fb)
     THEN [entries[i] EXCEPT !.useful = IF taken /\ entries[i].target = target
                                        THEN Increased(@) ELSE Decreased(@)]
     ELSE IF MatchVec(fb) = {} /\ taken /\ i = Victim
     THEN [tag |-> fb, target |-> target, useful |-> UsefulMax]
     ELSE entries[i]]

\* The entries touched in a cycle: by the answer (port 0), then by the update (port 1).
AnswerTouch == IF req # <<>> /\ MatchVec(req[1]) # {} THEN <<Any(MatchVec(req[1]))>> ELSE <<>>
UpdateTouch(fb, taken) == IF MatchVec(fb) # {} THEN <<Any(MatchVec(fb))>>
                          ELSE IF taken THEN <<Victim>> ELSE <<>>

Touch(ways) ==
  /\ tree' = P!ApplyAll(tree, ways)
  /\ recent' = LET all == [i \in 1..Len(ways) |-> ways[Len(ways) + 1 - i]] \o recent
               IN  SubSeq(all, 1, IF Len(all) < EntriesLog THEN Len(all) ELSE EntriesLog)

\* response_s1
Answer(fb) == {entries[i].target : i \in MatchVec(fb)}

\* newReq: request_s0; respond: response_s1 is called; upd: <<>> or an update.
Cycle(newReq, flush, respond, upd) ==
  /\ respond => req # <<>>
  /\ req' = IF flush THEN <<>> ELSE newReq
  /\ entries' = IF upd = <<>> THEN entries ELSE Trained(upd[1].fb, upd[1].target, upd[1].taken)
  /\ trained' = IF upd # <<>> /\ upd[1].taken
                THEN [trained EXCEPT ![upd[1].fb] = @ \union {upd[1].target}] ELSE trained
  /\ Touch((IF respond THEN AnswerTouch ELSE <<>>)
           \o (IF upd # <<>> THEN UpdateTouch(upd[1].fb, upd[1].taken) ELSE <<>>))

Updates == {<<>>} \union {<<u>> : u \in [fb : Blocks, target : Targets, taken : BOOLEAN]}
Next == \E newReq \in {<<>>} \union {<<b>> : b \in Blocks}, flush, respond \in BOOLEAN, upd \in Updates :
          Cycle(newReq, flush, respond, upd)

Spec == Init /\ [][Next]_vars

-----------------------------------------------------------------------------
\* The hit vector is one-hot, as the code asserts for lookups and updates: two
\* entries of one block would mix their targets.
OneHot == \A b \in Blocks : Cardinality(MatchVec(b)) <= 1

\* A prediction is a target the block was once taken to, also when entries are
\* replaced between the request and the answer.
PredictsTrained == req # <<>> => Answer(req[1]) \subseteq trained[req[1]]

\* A useful entry is only replaced when no useless one is left, and not while it is
\* among the last ones that were hit or trained.
RecentSurvives ==
  \A i \in Entries :
    entries[i].useful # 0 /\ entries'[i].tag # entries[i].tag
    => NotUseful = {} /\ \A k \in DOMAIN recent : recent[k] # i
=============================================================================
