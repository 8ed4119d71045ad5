---------------------------- MODULE WishboneBus ----------------------------
(***************************************************************************)
(* The Wishbone bus of the core: masters with their port adapters, the     *)
(* arbiter, the muxer and memory slaves (peripherals/wishbone.py,          *)
(* peripherals/bus_adapter.py), connected to each other.  One step is one  *)
(* clock cycle: all components read the registers of the state and the     *)
(* combinational signals derived from them.                                *)
(*                                                                         *)
(* A request is the port that made it, an address and whether it writes;   *)
(* an answer carries the request it belongs to instead of data.  Addresses *)
(* are tags: SlaveOf says which slave the muxer selects for one, Outside   *)
(* lists the ones its memory does not have.                                *)
(***************************************************************************)
EXTENDS Naturals, Sequences, FiniteSets

CONSTANTS Masters,  \* 0..N-1, connected by the arbiter
          Ports,    \* ports of a bus adapter
          Addrs, Slaves, SlaveOf, Outside,
          Retries,  \* whether a slave may answer RTY
          ReadsWait \* whether reads take a cycle, as those of the memory slave do

\* What the parameters must satisfy.
BusAssumption == /\ Masters = 0..Cardinality(Masters) - 1 /\ Masters # {}
                 /\ SlaveOf \in [Addrs -> Slaves] /\ Outside \subseteq Addrs
                 /\ Retries \in BOOLEAN /\ ReadsWait \in BOOLEAN

VARIABLES
  fsm, cyc, stb, txn,    \* each master: state, bus outputs, latched request
  res,                   \* its result forwarder
  pend,                  \* ports waiting for answers (Serializer of the adapter)
  grant, valid, prevCyc, \* round robin of the arbiter
  sl, rdFor,             \* each slave: state, request whose data it reads
  execs,                 \* history: times the request of a master was executed
  turn                   \* history: flips when a transfer of a master ends

vars == <<fsm, cyc, stb, txn, res, pend, grant, valid, prevCyc, sl, rdFor, execs, turn>>

Requests == [port : Ports, addr : Addrs, we : BOOLEAN]
NoRequest == [port |-> CHOOSE p \in Ports : TRUE, addr |-> CHOOSE a \in Addrs : TRUE, we |-> FALSE]

TypeOK ==
  /\ fsm \in [Masters -> {"Reset", "Idle", "WBCycStart", "WBWaitACK"}]
  /\ cyc \in [Masters -> BOOLEAN] /\ stb \in [Masters -> BOOLEAN] /\ txn \in [Masters -> Requests]
  /\ \A m \in Masters : Len(res[m]) <= 1 /\ Len(pend[m]) <= 2
  /\ grant \in Masters /\ sl \in [Slaves -> {"Start", "Read"}] /\ execs \in [Masters -> 0..2]

Init ==
  /\ fsm = [m \in Masters |-> "Reset"] /\ cyc = [m \in Masters |-> FALSE]
  /\ stb = [m \in Masters |-> FALSE] /\ txn = [m \in Masters |-> NoRequest]
  /\ res = [m \in Masters |-> <<>>] /\ pend = [m \in Masters |-> <<>>]
  /\ grant = 0 /\ valid = FALSE /\ prevCyc = FALSE
  /\ sl = [s \in Slaves |-> "Start"] /\ rdFor = [s \in Slaves |-> NoRequest]
  /\ execs = [m \in Masters |-> 0] /\ turn = [m \in Masters |-> FALSE]

-----------------------------------------------------------------------------
\* Arbiter: the round robin runs when the granted master ends its cycle or no
\* cycle was on the bus before.
ArbEnable == ~cyc[grant] \/ ~prevCyc
SlaveCyc == cyc[grant]
SlaveStb == stb[grant] /\ ~(~valid /\ ArbEnable)

Requesting == IF ArbEnable THEN {m \in Masters : cyc[m]} ELSE {}

\* External: the next requesting master after the granted one, or the same.
Distance(m) == (m + Cardinality(Masters) - grant - 1) % Cardinality(Masters)
NextGrant == IF Requesting = {} THEN grant
             ELSE CHOOSE m \in Requesting : \A o \in Requesting : Distance(m) <= Distance(o)

ArbiterCycle == /\ grant' = NextGrant /\ valid' = (Requesting # {})
                /\ prevCyc' = SlaveCyc

\* Muxer: the strobe selects one slave, its termination goes back.
OnBus == txn[grant]
Selected == SlaveOf[OnBus.addr]
Strobe == SlaveStb /\ SlaveCyc

\* Memory slave: what the selected slave answers, given whether it retries.
Answer(retry) ==
  IF ~SlaveStb THEN "none"
  ELSE IF sl[Selected] = "Read" THEN "ack"
  ELSE IF ~SlaveCyc THEN "none"
  ELSE IF retry THEN "rty"
  ELSE IF OnBus.addr \in Outside /\ ~OnBus.we THEN "err"
  ELSE IF ReadsWait /\ ~OnBus.we THEN "none" ELSE "ack"

StartsRead(retry) == Strobe /\ sl[Selected] = "Start" /\ Answer(retry) = "none"

\* The request an acknowledge belongs to.
AnswerFor == IF sl[Selected] = "Read" THEN rdFor[Selected] ELSE OnBus

SlaveCycle(retry) ==
  /\ sl' = [s \in Slaves |-> IF s = Selected /\ StartsRead(retry) THEN "Read" ELSE "Start"]
  /\ rdFor' = IF StartsRead(retry) THEN [rdFor EXCEPT ![Selected] = OnBus] ELSE rdFor

-----------------------------------------------------------------------------
\* Master m: termination it sees, requests and results it takes this cycle.
TermShared(m, retry) == Answer(retry)
Term(m, retry) == IF m = grant THEN Answer(retry) ELSE "none"
Ends(m, retry) == fsm[m] = "WBWaitACK" /\ Term(m, retry) \in {"ack", "err"}

Result(m, retry) == [for |-> AnswerFor, err |-> Term(m, retry) = "err"]

\* The port at the head of the serializer takes the result, also the one that
\* is just being written.
CanRead(m, retry) == res[m] # <<>> \/ Ends(m, retry)

\* request: in Idle, or in the last cycle of a transfer whose result is taken.
RequestReady(m, rd, retry) ==
  res[m] = <<>> /\ (fsm[m] = "Idle" \/ (Ends(m, retry) /\ m \in rd))

NextFsm(m, new, retry) ==
  IF fsm[m] = "Reset" THEN "Idle"
  ELSE IF new \/ fsm[m] = "WBCycStart" THEN "WBWaitACK"
  ELSE IF Ends(m, retry) THEN "Idle"
  ELSE IF fsm[m] = "WBWaitACK" /\ Term(m, retry) = "rty" THEN "WBCycStart" ELSE fsm[m]

\* rq: master -> <<>> or <<request>>; rd: masters whose result is taken.
MasterCycle(rq, rd, retry) ==
  /\ fsm' = [m \in Masters |-> NextFsm(m, rq[m] # <<>>, retry)]
  /\ stb' = [m \in Masters |-> NextFsm(m, rq[m] # <<>>, retry) = "WBWaitACK"]
  /\ cyc' = [m \in Masters |-> NextFsm(m, rq[m] # <<>>, retry) \in {"WBWaitACK", "WBCycStart"}]
  /\ txn' = [m \in Masters |-> IF rq[m] # <<>> THEN rq[m][1] ELSE txn[m]]
  /\ res' = [m \in Masters |->
               LET all == IF Ends(m, retry) THEN Append(res[m], Result(m, retry)) ELSE res[m]
               IN  IF m \in rd THEN Tail(all) ELSE all]
  /\ pend' = [m \in Masters |->
                (IF m \in rd THEN Tail(pend[m]) ELSE pend[m])
                \o (IF rq[m] # <<>> THEN <<rq[m][1].port>> ELSE <<>>)]
  /\ execs' = [m \in Masters |->
                 IF rq[m] # <<>> THEN 0
                 ELSE IF m = grant /\ Answer(retry) = "ack" /\ execs[m] < 2 THEN execs[m] + 1
                 ELSE execs[m]]
  /\ turn' = [m \in Masters |-> turn[m] # Ends(m, retry)]

Cycle(rq, rd, retry) ==
  /\ retry => Retries /\ Strobe
  /\ \A m \in rd : CanRead(m, retry)
  /\ \A m \in Masters : rq[m] # <<>> => RequestReady(m, rd, retry)
  /\ MasterCycle(rq, rd, retry)
  /\ ArbiterCycle
  /\ SlaveCycle(retry)

Wishes == [Masters -> {<<>>} \union {<<r>> : r \in Requests}]
Next == \E rq \in Wishes, rd \in SUBSET Masters, retry \in BOOLEAN : Cycle(rq, rd, retry)

Spec == Init /\ [][Next]_vars

\* Steps of the environment (fairness: MCComponentsLive): the result of a master is
\* taken; a slave answers a request it has not answered without asking to retry.
ResultTaken(m) == \E rq \in Wishes : res[m] # <<>> /\ Cycle(rq, {m}, FALSE)
NoRetry ==
  Strobe /\ sl[Selected] = "Start" /\ \E rq \in Wishes, rd \in SUBSET Masters : Cycle(rq, rd, FALSE)

-----------------------------------------------------------------------------
\* The answer a port takes is the answer to its own request: not to the request
\* of another master that was on the bus a cycle before, nor of another port.
RightAnswer == \A m \in Masters : res[m] # <<>> =>
                 /\ res[m][1].for = txn[m]
                 /\ res[m][1].for.port = Head(pend[m])

\* A request without an error was executed exactly once when its result is there,
\* also if the slave asked to retry it before.
ExecutedOnce == \A m \in Masters : /\ execs[m] <= 1
                                   /\ res[m] # <<>> /\ ~res[m][1].err => execs[m] = 1

\* A result always finds room: the forwarder is empty whenever a transfer ends
\* ("will be always ready, as we checked that in Idle").
ResultHasRoom == \A m \in Masters : fsm[m] \in {"WBWaitACK", "WBCycStart"} => res[m] = <<>>

\* The master has its request on the bus; turn tells one request from the next.
Busy(m, t) == fsm[m] \in {"WBWaitACK", "WBCycStart"} /\ turn[m] = t
=============================================================================
