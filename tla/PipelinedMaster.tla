-------------------------- MODULE PipelinedMaster --------------------------
(***************************************************************************)
(* The pipelined Wishbone master (peripherals/wishbone.py,                 *)
(* PipelinedWishboneMaster): requests are sent before earlier ones are     *)
(* answered, the answers wait in a FIFO.  One step is one clock cycle.     *)
(* Requests and answers are tags; the slave is external and answers in     *)
(* order, also in the cycle of the request.                                *)
(***************************************************************************)
EXTENDS Naturals, Sequences

CONSTANTS MaxReq, Tags

\* What the parameters must satisfy.
PipelinedAssumption == MaxReq \in Nat \ {0} /\ Tags # {}

VARIABLES pending,   \* pending_req_cnt
          fifo,      \* result_fifo: <<tag, err>>
          slave,     \* external: requests the slave has to answer
          asked,     \* history: requests whose results were not taken
          abandoned  \* history: cyc was low while the slave had requests

vars == <<pending, fifo, slave, asked, abandoned>>

TypeOK == /\ pending \in 0..MaxReq /\ Len(fifo) <= MaxReq
          /\ \A i \in DOMAIN fifo : fifo[i] \in Tags \X BOOLEAN

Init == pending = 0 /\ fifo = <<>> /\ slave = <<>> /\ asked = <<>> /\ abandoned = FALSE

-----------------------------------------------------------------------------
RequestReady(stall) == ~stall /\ pending + Len(fifo) < MaxReq

\* The counter follows requests and terminations; both in a cycle cancel out.
NextPending(start, finish) ==
  IF start /\ ~finish THEN pending + 1
  ELSE IF finish /\ ~start THEN pending - 1 ELSE pending

Cyc(stb) == stb \/ pending > 0

\* Termination: any of ACK, ERR and RTY ends a request; RTY is an error.
NextFifo(finish, who, term, rd) ==
  (IF rd THEN Tail(fifo) ELSE fifo)
  \o (IF finish /\ Len(fifo) < MaxReq THEN <<<<who, term # "ack">>>> ELSE <<>>)

\* rq: <<>> or <<tag>>; term: what the slave signals; rd: a result is taken.
Cycle(rq, stall, term, rd) ==
  LET stb == rq # <<>>
      queue == slave \o rq
      finish == term # "none"
  IN  /\ stb => RequestReady(stall)
      /\ finish => queue # <<>> /\ Cyc(stb)
      /\ rd => fifo # <<>>
      /\ pending' = NextPending(stb, finish)
      /\ fifo' = NextFifo(finish, IF finish THEN Head(queue) ELSE 0, term, rd)
      /\ slave' = IF finish THEN Tail(queue) ELSE queue
      /\ asked' = (IF rd THEN Tail(asked) ELSE asked) \o rq
      /\ abandoned' = (abandoned \/ (queue # <<>> /\ ~Cyc(stb)))

Next == \E rq \in {<<>>} \union {<<t>> : t \in Tags}, stall \in BOOLEAN,
           term \in {"none", "ack", "err", "rty"}, rd \in BOOLEAN : Cycle(rq, stall, term, rd)

Spec == Init /\ [][Next]_vars

-----------------------------------------------------------------------------
\* Each request that was accepted gets one result, in order: the FIFO has room for
\* the answers of everything in flight, also when results are not taken for long.
ResultsKept == asked = [i \in DOMAIN fifo |-> fifo[i][1]] \o slave

\* The counter is the number of requests in flight, so the bus cycle lasts until
\* the last of them is answered.
CycHeld == pending = Len(slave) /\ ~abandoned
=============================================================================
