------------------------------ MODULE AxiLite ------------------------------
(***************************************************************************)
(* The AXI-Lite master and its adapter (peripherals/axi_lite.py,           *)
(* peripherals/bus_adapter.py): three request channels, two response       *)
(* channels with a forwarder each.  A write is sent on two channels at     *)
(* once, the slave accepts them in any cycles.  One step is one clock      *)
(* cycle.  A request, and its answer, is a tag; the slave is external.     *)
(***************************************************************************)
EXTENDS Naturals, Sequences

CONSTANTS Tags,       \* names of requests
          MaxRequests \* bound: requests of a kind that are not answered

\* What the parameters must satisfy.
AxiAssumption == Tags # {} /\ MaxRequests \in Nat \ {0}

Kinds == {"read", "write"}
OutChannels == {"ra", "wa", "wd"}
KindOf == [c \in OutChannels |-> IF c = "ra" THEN "read" ELSE "write"]

VARIABLES
  sent,     \* request channels: <<>> if Idle, <<tag>> if Active (valid)
  rdy, fwd, \* response channels: the rdy register, the forwarder
  got,      \* external: requests the slave accepted on each channel
  offer,    \* external: the answer the slave holds valid on each channel
  asked     \* history: requests of each kind whose answer was not taken

vars == <<sent, rdy, fwd, got, offer, asked>>

TypeOK == /\ sent \in [OutChannels -> {<<>>} \union {<<t>> : t \in Tags}]
          /\ rdy \in [Kinds -> BOOLEAN]
          /\ \A k \in Kinds : Len(fwd[k]) <= 1 /\ Len(offer[k]) <= 1

Init == /\ sent = [c \in OutChannels |-> <<>>] /\ rdy = [k \in Kinds |-> FALSE]
        /\ fwd = [k \in Kinds |-> <<>>] /\ got = [c \in OutChannels |-> <<>>]
        /\ offer = [k \in Kinds |-> <<>>] /\ asked = [k \in Kinds |-> <<>>]

-----------------------------------------------------------------------------
\* state_machine_request: a request may follow the one that is just accepted.
Accepted(c, accept) == sent[c] # <<>> /\ c \in accept
RequestReady(c, accept) == sent[c] = <<>> \/ c \in accept

\* The adapter sends the address and the data of a write in the same cycle.
RequestGuard(rq, accept) ==
  \A c \in OutChannels : rq[KindOf[c]] # <<>> => RequestReady(c, accept)

NextSent(c, rq, accept) == IF rq[KindOf[c]] # <<>> THEN rq[KindOf[c]]
                           ELSE IF Accepted(c, accept) THEN <<>> ELSE sent[c]

\* result_handler: an answer that is transferred is written if there is room.
Transfer(k) == rdy[k] /\ offer[k] # <<>>
Written(k) == Transfer(k) /\ fwd[k] = <<>>
CanTake(k) == fwd[k] # <<>> \/ Written(k)
NextRdyFree(k, take) == IF Transfer(k) THEN TRUE ELSE fwd[k] = <<>>
NextRdy(k, take) == IF Transfer(k) THEN k \in take ELSE fwd[k] = <<>>
NextFwd(k, take) == LET all == IF Written(k) THEN fwd[k] \o offer[k] ELSE fwd[k]
                    IN  IF k \in take THEN Tail(all) ELSE all

\* External: the slave answers the oldest request, a write when it has both parts.
Inputs(k) == {c \in OutChannels : KindOf[c] = k}
CanAnswer(k) == (offer[k] = <<>> \/ Transfer(k)) /\ \A c \in Inputs(k) : got[c] # <<>>
SlaveCycle(accept, answer) ==
  /\ got' = [c \in OutChannels |->
               (IF KindOf[c] \in answer THEN Tail(got[c]) ELSE got[c])
               \o (IF Accepted(c, accept) THEN sent[c] ELSE <<>>)]
  /\ offer' = [k \in Kinds |-> IF k \in answer
                               THEN <<Head(got[CHOOSE c \in Inputs(k) : c # "wd"])>>
                               ELSE IF Transfer(k) THEN <<>> ELSE offer[k]]

\* rq: what is requested of each kind, take: the kinds whose answer is read.
MasterCycle(rq, take, accept) ==
  /\ RequestGuard(rq, accept) /\ \A k \in take : CanTake(k)
  /\ sent' = [c \in OutChannels |-> NextSent(c, rq, accept)]
  /\ rdy' = [k \in Kinds |-> NextRdy(k, take)]
  /\ fwd' = [k \in Kinds |-> NextFwd(k, take)]
  /\ asked' = [k \in Kinds |-> (IF k \in take THEN Tail(asked[k]) ELSE asked[k]) \o rq[k]]

Cycle(rq, take, accept, answer) ==
  /\ \A k \in Kinds : rq[k] # <<>> => Len(asked[k]) < MaxRequests
  /\ \A k \in answer : CanAnswer(k)
  /\ MasterCycle(rq, take, accept)
  /\ SlaveCycle(accept, answer)

Wishes == [Kinds -> {<<>>} \union {<<t>> : t \in Tags}]
Next == \E rq \in Wishes, take \in SUBSET Kinds, accept \in SUBSET OutChannels,
           answer \in SUBSET Kinds : Cycle(rq, take, accept, answer)

Spec == Init /\ [][Next]_vars

-----------------------------------------------------------------------------
\* Every request that was not answered is in exactly one place, and in order:
\* none is lost, sent twice or overtaken, when channels stall, when a request
\* follows an accepted one at once and when answers arrive without a pause.  So a
\* write is executed with the data that belongs to its address although the slave
\* accepts the two channels at different times.
NothingLost == \A c \in OutChannels :
                 asked[KindOf[c]] = fwd[KindOf[c]] \o offer[KindOf[c]] \o got[c] \o sent[c]
=============================================================================
