# A TLA+ model of Coreblocks

Coreblocks is an out-of-order RISC-V core written in Python with Amaranth and
the Transactron transaction library. This directory holds TLA+ modules for its
control logic, TLC configurations that check them on small instances, and TLAPS
proofs of what holds for every size.

## 1. Inventory

An instruction flows through these parts; all paths are under `src/coreblocks/`.

| Part | State it keeps | Operations | Correct when |
|---|---|---|---|
| Fetch target queue, address unit, branch prediction, fetch unit (`frontend/ftq.py`, `fetch_addr_unit.py`, `bpu/`, `fetch/fetch.py`) | ring pointers (alloc, fetch, predict, commit, train), generations, predictions, in-flight requests, half instructions | allocate, send, predict, writeback, redirect, commit, train | fetched blocks form the path that predictions and redirects describe |
| Frontend output, stall control (`frontend/frontend.py`, `stall_controller.py`) | rollback tag, output pipe, exception and unsafe stalls | push, redirect, flush, stall and resume | the first instruction after a rollback carries its tag; nothing old is delivered after a redirect |
| Decoder (`frontend/decoder/`) | none (combinational) | decode, expand compressed | table matches the ISA |
| Scheduler (`scheduler/scheduler.py`) | two pipe registers, RS selection | allocate register, tag, rename, allocate ROB entry, select and insert | each instruction is renamed once, in order, with the table of its path |
| Checkpoint RAT (`core_structs/crat.py`) | renaming table, tag ring, checkpoint ring, checkpoint storage, rollback stages | tag, rename, rollback, free_tag, flush_restore, get_active_tags | tags tell valid from wrong path; a restored table is the one right after the branch |
| Reorder buffer, RRAT (`core_structs/rob.py`, `rat.py`) | entries, done and exception bits; committed table | put, mark_done, peek, retire; commit | instructions leave in order, registers are given back once |
| Reservation stations, register file, wakeup (`func_blocks/fu/common/`, `scheduler/wakeup_select.py`, `core_structs/rf.py`) | waiting instructions, operand values, valid bits | select, insert, update, take; read, write, free | no wakeup is lost, no stale operand is used |
| Functional units, announcement (`func_blocks/`, `backend/announcement.py`) | pipelines, result FIFOs | issue, push_result, announce | every issued instruction completes once |
| Load/store unit (`func_blocks/fu/lsu/`) | one request, reservation | issue, get_result | effects happen only when the instruction is certain to retire |
| Retirement (`backend/retirement.py`) | last retired tag, trap state machine | retire group, flush, resume, side effect guard | precise state: all older, nothing younger is committed |
| Exception Information Register, instruction counter (`priv/traps/`) | oldest report; instructions in the core | report, clear; increment, decrement | the oldest report of the valid path wins; empty means empty |
| Interrupt controller, CSRs, privilege (`priv/`, `func_blocks/csr/`) | pending, enable, mode and trap registers | read, write, trap entry and return | traps save and restore exactly one context |
| Virtual memory (`priv/vmem/`) | TLB entries, page walker | translate, walk, invalidate | no translation outlives its invalidation |
| Instruction cache, refiller (`cache/`) | ways, tags, PLRU, refill state | issue, accept, refill, flush | a hit returns the line last refilled |
| Buses (`peripherals/`) | request and response registers | request, response, retry, error | each request gets one response |
| PLIC, CLINT (`socks/`) | pending, claimed; timers | claim, complete, compare | an interrupt is served once per request |
| Division, multiplication, carry-less multiplication (`func_blocks/fu/div_unit.py`, `mul_unit.py`, `zbc.py`) | iteration registers, parameter queues | issue, push_result | results in issue order, under the right `rob_id`, with the value of the instruction set |
| Branch prediction structures (`frontend/bpu/`), prediction checker (`frontend/fetch/fetch.py`) | targets, usefulness, call stack, replacement tree | lookup, train, push, pop, recover, check | a wrong prediction costs time only; a used entry is not the one replaced |
| ALU, floating point, telemetry, parameters | data paths, traces, elaboration | | not modelled: no control state, or no effect on the core |

**How they interact.** Transactron methods are called inside transactions; a
transaction runs in a cycle when every method it calls is ready, and all of its
effects happen at the clock edge. Three loops close over the pipeline: the
announcement bus (units to ROB, register file and reservation stations), the
rollback (jump/branch unit to CRAT, frontend and fetch), and the trap
(exception register to stall controller and retirement, retirement to CRAT and
frontend). Each takes several cycles, and during those cycles the other two and
the pipeline itself keep running.

**What is hard.** A rollback needs two cycles to fetch the checkpoint, while the
first instruction of the new path is already coming, older branches may roll
back again, and the retirement frees the tags of the branches involved. Tags
and checkpoints are rings in which full and empty look alike. The ROB stores no
tags: the retirement counts them. A trap flushes the core, but instructions are
still in the scheduler. Groups of instructions retire together with a part of
them on a wrong path and one of them trapping. `PROJECT.json` lists these
hazards at their lines, with the properties that would catch them.

## 2. Modules

| Module | Models | Kind |
|---|---|---|
| `CheckpointRAT` | `core_structs/crat.py`, one cycle with any combination of its methods | component |
| `SpeculativeCore` | scheduler front half, ROB, RRAT, announcement and branch outcome, retirement, instruction counter, frontend output and stall control, composed with `CheckpointRAT` | composition |
| `PreciseWindow` | what the core promises: an in-order window without tags, checkpoints and wrong paths | abstract specification |
| `CommitWindow` | status bits of `core_structs/rob.py`, masks, trap state machine and side effect guard of `backend/retirement.py`, `priv/traps/exception.py` with its report FIFOs, groups of several instructions | composition |
| `OperandDelivery` | RS selection and insertion (`scheduler/scheduler.py`), `core_structs/rf.py`, `fu/common/rs.py`, `fifo_rs.py`, `wakeup_select.py`, `backend/announcement.py` | composition |
| `FetchTargetQueue` | fetch target queue, address unit, prediction and fetch pipelines, stall controller; any backend | component |
| `MicroBTB`, `TreePLRU`, `ReturnAddressStack`, `PredictionChecker` | `frontend/bpu/micro_btb.py`, `cache/plru.py`, `frontend/bpu/ras.py`, the checker of `frontend/fetch/fetch.py` | components |
| `LoadStoreUnit` | `fu/lsu/dummyLsu.py`, `lsu_requester.py`, `pma.py` inside `lsu_atomic_wrapper.py` | composition |
| `InstructionCache` | `cache/icache.py` with `cache/refiller.py` on a bus | composition |
| `WishboneBus` | masters, port adapters, arbiter, muxer and memory slaves of `peripherals/wishbone.py` and `bus_adapter.py` | composition |
| `PipelinedMaster`, `AxiLite` | the pipelined Wishbone master; the AXI-Lite master and adapter | components |
| `TLBCam`, `SetAssociativeTLB`, `FullyAssociativeTLB` | `priv/vmem/tlb.py`: matching and replacement, second level, first level | components |
| `PageTableWalker`, `AddressTranslator`, `PMP` | `priv/vmem/walker.py`, `priv/vmem/translation.py`, `priv/pmp.py` with the write rules of `csr_instances.py` | components |
| `InterruptController` | `priv/traps/interrupt_controller.py`, its CSRs and shadows, `fu/priv.py` | composition |
| `CsrUnit` | `func_blocks/csr/csr_unit.py`, `priv/csr/csr_register.py`, `shadow.py`, `double_counter.py`, `double_shadow.py` | composition |
| `PLIC`, `CLINT` | `socks/plic.py`, `socks/clint.py` on `socks/peripheral.py` | components |
| `FunctionUnit` | what a functional unit promises | abstract specification |
| `DivUnit`, `MulUnit` over `UnsignedMultipliers`, `ZbcUnit` | `fu/div_unit.py` and `division/`, `fu/mul_unit.py` and `unsigned_multiplication/`, `fu/zbc.py` | implement `FunctionUnit` |
| `MCSpeculativeCore`, `MCCoreLive` | instances and symmetry of the core; its traps and rollbacks under fairness | for TLC |
| `MCBackend`, `MCMemoryPath`, `MCTranslation`, `MCUnits`, `MCComponentsLive` | groups of instances, see section 3 | for TLC |
| `SpeculativeCoreProofs`, `TagProofs` | types; register ownership, tags and traps | for TLAPS |
| `RollbackProofs` | the rollback protocol: path, ring of checkpoints, tables | for TLAPS |
| `WindowProofs` | the refinement of `PreciseWindow` | for TLAPS |
| `FetchProofs` | the fetch target queue and the fetch unit | for TLAPS |
| `TranslationProofs` | both levels of TLB, page table walker, locks of the PMP | for TLAPS |
| `MemoryPathProofs` | AXI-Lite, pipelined and classic Wishbone bus, instruction cache | for TLAPS |
| `BackendProofs` | operand delivery | for TLAPS |

### How time is modelled

One step is one clock cycle: all registers read the values before the edge, and
where several transactions assign the same register, the assignment that comes
last in the source wins, as in Amaranth. Transactions of the modelled part run
whenever they are ready. What the surroundings decide (whether an instruction
is fetched, which instruction completes and how, when a report reaches the
exception register, whether the back half of the scheduler accepts) is chosen
by `\E` in `Next`.

### `CheckpointRAT`

State has the names of the code. `CRATCycle(tagCall, renameCall, rb, free, restore)`
takes the methods that run in the cycle. The three internal transactions (saving
a checkpoint, rollback stages 1 and 2) run when ready. Two definitions forget
data that is never read again so that equal states are found equal: `KeepMap`
drops the checkpoint number of a tag that is not an active checkpointed one, and
`KeepStorage` the contents of checkpoints that no tag names. A frontend group
has one instruction.

### `SpeculativeCore`

`Cycle` composes the parts. An instruction is the logical register it writes
(0: none) and whether it asks for a checkpoint. `wrong` is a history field: it
says that an older branch rolled back after the instruction was fetched; no
guard reads it. A completion is one `Execution` per cycle: `exc` raises an
exception, `mis` is a misprediction of a branch on an active tag, and with
`ann` false the result waits in the unit's FIFO (`exe`) while the exception or
the rollback has already happened. The Exception Information Register is
reduced to whether a report of the valid path is stored; the code clears the
register when its owner is rolled back, which `ExceptionCycle` does by looking
at the entries. The trap state machine has the states of
`core_state`/`Retirement` with the same names.

Switches (constants):

- `ResultFifo`: results may wait between the unit and the announcement.
- `Backpressure`: the reservation stations may refuse an instruction.
- `Exceptions`: instructions may complete with an exception.
- `MarkerRace`: the schedule in which a stall flush drops the instruction that
  carries the rollback tag is allowed (see section 5).

### `FetchTargetQueue`

State has the names of the code; a pipe register is a sequence of at most one
record. `FetchCycle` is one cycle of all transactions of the queue, the address
unit, the predictor and the fetch unit, split by what they write: the address
(`AddressCycle`), the predictor (`PredictorCycle`), the pointers
(`PointersCycle`), the requests (`RequestsCycle`), the carried half instruction
(`CarryCycle`) and the memories (`MemoriesCycle`). `Next` adds the backend, which
may commit any delivered blocks in order and does one of three things:

- `NoRedirect`: nothing, or the report of an exception, which stalls fetch one
  cycle later and flushes what is not yet in the scheduler;
- `Rollback`: redirect to any address after any delivered block that is not
  committed; it may take the stored exception away, which the exception register
  notices one cycle later (`rolled_back`);
- `TrapResume`: redirect to a handler after the last committed block, which ends
  the exception.

Addresses are those of fetch blocks. The way out of a block is a jump to any
block, the fall-through or `Halt`, where the fetch unit stops and waits for the
backend. The predictor predicts anything. `path` and `due` are history: the
blocks the backend has, and the one that must come next. `Keep` and the reset of
generations of entries without requests forget what is not read again, so that
equal states are found equal.

Switches: `Compressed` (Zca: a block may end in the middle of an instruction),
`Exceptions`, `MayWait` (the stages that memory or decoder may hold up),
`JumpsOverHalf` (the schedule of the second finding is allowed).

### `CommitWindow`

Entries are addressed by index, as in the code, because what can go wrong here
is an index, a tag or a status bit that outlives its instruction: `done`, `pure`
and `exception` keep the value of the entry's previous owner. A step is one
cycle with groups of up to `FrontendWidth` instructions entering and up to
`RetireWidth` leaving; `UnitEvents` are what the functional units do in it
(push a result, report, ask the guard, roll back). `Dist` is the comparison of
ROB indices that `exception.py` uses to keep the older report. `csr`
instructions ask the guard with `require_done`, the others without.

### `OperandDelivery`

The value of a register is the number of the instruction that wrote it, so a
stale operand is a wrong number. The rename tables, the units and the retirement
do what they may; selection, the read of the register file (one cycle), the
insertion with its two bypasses, the rows of both stations, `WakeupSelect`, the
age order of the ready list and the announcement are the code's.

### `LoadStoreUnit`, `InstructionCache`

Both have one action per transaction or method call, since their transactions
of one cycle do not read what the others write. `LoadStoreUnit` keeps, as
history, the memory and the reservation of program order (`archMem`,
`archReservation`), and compares when an instruction retires. The kind of
address (`Wheres`) says how an access ends. A word of `InstructionCache` is
where it was read from and the version of memory it was read in.

### `WishboneBus`, `PipelinedMaster`, `AxiLite`

One step is one cycle of all connected parts, with the combinational signals
(`cyc`, `stb`, grant, terminations) as operators of the registers. An answer
carries the request it was made for.

### Translation

`TLBCam` has what both levels share, and next to it the reference: which pages
an entry translates and which entries an `SFENCE.VMA` covers. `fresh` is
history: false after a fence that covers the translation. In
`SetAssociativeTLB` the memory answers one cycle later with the old contents;
lookup, refill and flush are sequences of actions over its two read ports, and
software fences any address. `CountPages` does not restrict the fences: it says
whether the history counts those of one address, or only those of all. In
`FullyAssociativeTLB` the ports, the refill semaphore and the fence queue
interleave. Page tables are not state: `PageTableWalker` reads any entry, and
`seen` records what it read, from which the reference computes the answer.
`AddressTranslator` compares with a table of the privileged architecture. `PMP`
compares the masks of the checker with regions given word by word.

### Privileged state and platform

`InterruptController` has the pending and enable registers, delegation, the
status fields, traps, returns and WFI; jumps report interrupts, which a rollback
may take back before the retirement takes the trap. Interrupt sets are sets of
names. `CsrUnit` holds one instruction while hardware writes its registers in
every cycle; `seen` records what the access did. `PLIC` and `CLINT` are seen
through their bus registers; `service` is what software claimed.

### Arithmetic units and predictors

`FunctionUnit` is a queue of issued instructions answered in order with
`Value(job)`. `DivUnit`, `MulUnit` and `ZbcUnit` define `Value` by integers and
are shown to implement it (`UnitStep`): every cycle is a step of `FunctionUnit`
or leaves the queue and the answer alone. Words are naturals below `2^XLen`.
`PredictionChecker` chooses an arbitrary block and an arbitrary prediction.

## 3. Runs

| Run | Instance | Shows |
|---|---|---|
| `core_tags` | 5 ROB entries of branches over 4 tags and 2 checkpoints, result FIFO | both rings run full and wrap while rollbacks are in their two stages; the tags that the retirement counts are the ones that were given |
| `core_traps` | 3 linking branches, retire 2, exceptions, marker race excluded | types, register ownership, tags, tables and checkpoints stay exact; a trap resumes in an empty core; `PreciseExecution`: the core implements `PreciseWindow` |
| `core_live` | fair; traps with backpressure and the marker race, or rollbacks with linking branches (`part` in `MCCoreLive`) | every trap drains the core and resumes; every rollback completes |
| `core_marker_race` | expected violation | section 5 |
| `fetch_stream` | queue of 2, 2 addresses, compressed, exceptions, cache may wait | resteers, redirects, stalls and half instructions race: one contiguous stream, predictions read for their own block, records kept, fetch never stops for good |
| `fetch_half_jump` | expected violation | section 5 |
| `backend` | 4 instances of `CommitWindow`, 3 of `OperandDelivery` | side effects happen in order, once, and only for instructions that retire; the stored report is the oldest and belongs to its entry; instret is exact; operands are the producers' values and nothing waits for a value that has passed |
| `memory_path` | 3 instances of `LoadStoreUnit`, 3 of `InstructionCache`, 2 of `WishboneBus`, `AxiLite`, `PipelinedMaster` | memory and devices see what program order gives; lookups return the block asked for, read since the last flush; every request is executed once and answered once, in order |
| `translation` | 4 instances of the second level TLB, 3 of the first, the walker, 2 translators, 2 PMPs | no foreign translation is returned; the first level returns no fenced one, the second none that a fence of all addresses covers, and fences of one address empty the sets the entries belong to; faults and permissions are those of the architecture; locked regions stay |
| `tlb_page_fence` | expected violation | section 5 |
| `units` | 3 instances of `InterruptController`, 3 of `CsrUnit`, 2 of `PLIC`, `CLINT`, 7 arithmetic units, `MicroBTB`, `ReturnAddressStack`, `TreePLRU`, 2 of `PredictionChecker` | interrupts are taken only while enabled and none is lost; CSR instructions are atomic; units compute the instruction set's values; predictors answer from what they learned |
| `components_live` | 9 small instances, fair | nothing waits for ever |

**Groups of instances.** The modules named `MC...` other than
`MCSpeculativeCore` and `MCCoreLive` instantiate several components, each with constants of its
own. The variable `part` is chosen in the initial state and never changes: it
names the instance the behaviour is about. The variables of the other modules
are 0 throughout. The components of such a group do not interact; the group
only lets one run ask one kind of question of all of them, and each of its
properties is a conjunction of `part = "..." => property of that instance`.
Which instance has which bound is in the `INSTANCE` lines, and
`InstancesAssumption` checks the assumption of each. Where proofs speak of every
size, the instance has a parameter: `L1(k)`, `L2(k)`, `Walker(k)`, `Checker(k)`,
`Cache(k)`, `Bus(k)`, `Axi(k)`, `Pipelined(k)` and `Operands(k)`, whose constants
are the fields of the record `k`; the run uses a few such records.

`MCComponentsLive` adds `watched`, also constant: the waiting, out of those of
the instance, that the behaviour must end. One formula, `Waiting ~> ~Waiting`,
then stands for some fifteen leads-to properties, and the k-th fairness
condition for the k-th fair action of every instance.

**Bounds of the core.** Four tags and two checkpoints are the smallest rings in
which a tag ring can hold a running rollback, a nested one and a free tag, and
in which checkpoints run out before tags (`genparams.py` requires that tags
outnumber checkpoints). Three entries let an instruction of the valid path, a
branch and its wrong path be in the ROB at once, with two more instructions in
the scheduler's pipes and one in the output pipe; `core_tags` has eight in
flight to fill both rings. One writable logical register makes every pair of
instructions conflict. `RobSize` need not be a power of two in
`SpeculativeCore`: there the ROB is a sequence. In `CommitWindow` it is a ring
of three entries, so that indices wrap under every group of two.

**Bounds of fetch.** Generations and the limit on requests in flight are 2 each,
the tightest instance of the assertion in `fetch.py` that there are at least as
many generations as requests. Two entries are the smallest queue: full, wrapped
and rewound within a few cycles. Two addresses tell a right block from a wrong
one.

**Bounds of the components.** Each instance has the smallest sizes at which the
hazard it is for can happen: as many instructions as an index or register needs
to be reused while its first owner still has something under way
(`CommitWindow`, `OperandDelivery`); two accesses in the unit's queues next to a
wrong path (`LoadStoreUnit`); a line of two words, whose counters wrap, and two
ways or two sets (`InstructionCache`); two masters, two slaves, a retry and an
address outside of memory (`WishboneBus`); two sets or two ways, two address
spaces, two sizes of pages (TLBs); two levels (walker); two entries, so that one
can bound or shadow the other (`PMP`); word widths of three to six bits, with
divisors and DSP widths that do not divide them (arithmetic). Larger instances
of the same modules passed as well, among them four ROB entries in
`CommitWindow` (with reports also two wide), four instructions in
`OperandDelivery`, all flags of page table entries, a fetch queue of four
entries and half instructions over three addresses.

**Excluded cases.** Constants name what an instance leaves out because the code
is known to go wrong there: `MarkerRace` and `JumpsOverHalf` (section 5),
`EmptyTor`, `MachineMpp`, `ReadsWait` with two masters, `Flushes`
in the instance of `AtomicsMatch`, and the equal widths of `CommitWindow`
(section 6).

**Deadlock** is checked, except in `units`: an arithmetic unit or a checker with
nothing to do may stop.

**Symmetry.** Physical registers are only compared, never ordered, so runs of
invariants and of the refinement use their permutations. The liveness runs use
no symmetry.

**Fairness.** In the core, `WF(LiveNext)`: the clock ticks. `WF(OldestCompletes)`:
the oldest instruction in the ROB has its operands, as all older ones have
committed, and a unit always finishes it. `WF(FrontendDelivers)`, for
`RollbackCompletes` only: the frontend delivers when it may. `TrapCompletes`
needs no delivery. For the components, `MCComponentsLive` lists one or two lines
for each:

- Transactions that are ready run: Transactron's schedulers are round robins or
  static priorities among transactions that do not keep each other ready, hence
  weak fairness of each action.
- Strong fairness stands where an action competes with another one that is
  enabled again and again: taking answers of the bus or of skipped requests
  (`AcceptIssued`, `AcceptNoop`), the second port of the first level TLB asking
  for the semaphore, a slave that does not retry for ever, software that claims
  and completes, a core that completes jumps and is not rolled back for ever.
- `Fetch` runs without exceptions; no redirect and no report is forced.

## 4. Proofs

What is proved of the core and of fetch holds for all sizes, retirement widths and
instruction kinds satisfying the assumptions of `CheckpointRAT`, `SpeculativeCore`
and `FetchTargetQueue`. What is proved of a component of a group run is proved
twice: for every record `k` of parameters that satisfies the component's
assumption (for example `L1(k)!Spec => []L1(k)!RightAnswer`), and from it for the
composed `Spec` of the run, whose inductive invariant is that the part that runs
keeps its own.

**Types and ownership**

- `SpeculativeCoreProofs!CRATCycleType`: a cycle of the CRAT with well-typed
  calls keeps its types (`TagsType`, `CheckpointsType`, `RollbackType`,
  `FratType` are its parts).
- `SpeculativeCoreProofs!TypeCorrect`: `Spec => []TypeOK`. `TypeOK` alone is not
  inductive: the counter is a natural number after a decrement only because it
  counts the instructions in the pipes and the ROB. The inductive invariant is
  `TypeInv == TypeOK /\ CounterExact`.
- `TagProofs!RegistersConserved` and `RegistersNeverLost`:
  `Spec => [](NoRegisterShared /\ NoRegisterLost)`.
  The inductive invariant adds `Ownership`, which says both at once: every
  physical register is in exactly one of the free list, the committed table at
  one logical register, one ROB entry or one pipe register, and only
  instructions that write a register own one. The core of the argument is
  `RetireOwnership`: what a retiring group gives back are the new registers of
  the entries it does not commit and, for those it commits, the register each
  overwrites. `NextWriter` shows that an entry's register is overwritten within
  the group exactly when a later committed entry of the group has the same
  logical register, and then that entry releases it.

**Tags and traps** (`TagProofs`)

- `RetirementTagsRight` (`RetirementTagsExact`) and `TagsNeverUnderflow`
  (`NoTagUnderflow`). The inductive invariant `TagInv` orders the instructions
  in flight around the ring of tags: the age of each tag, counted from
  `tags_tail`, is the age of its predecessor's plus its increment bit, the last
  one is `last_issued_tag`, and `tags_head` is one further. A retiring group has
  at most one increment, so all its tags have age 0 or 1 (`RetiringAges`), and a
  tag that is freed has a successor that is still allocated.
- `TrapsResumeEmpty` (`ResumesEmpty`). `TrapInv`: a report on the valid path stays
  in the exception register until the trap is taken, so the frontend is stalled
  and `output_pipe` empty while the core drains; the state machine reaches
  `TRAP_RESUME` only with a counter of 0.

**The rollback protocol.** These assume `~MarkerRace`, that is, they exclude the
schedule of the finding `core_marker_race`, with which they are false.

- `RollbackProofs!TagsFollowPath` (`TagsTrackPath`). `PathInv` says that exactly the
  wrong-path instructions have inactive tags and that a branch of the valid path
  ends its tag (so that invalidating the younger tags hits exactly the younger
  instructions), that exactly the first instruction of a new path carries the
  marker (in the tagger, in `output_pipe` or in `alloc_rename_buf`), that nothing
  younger than the target is active until it is tagged, and that the FRAT lock
  opens for it and nothing else.
- `RollbackProofs!CheckpointsNeverLeak` (`CheckpointsCounted`, the first part of
  `CheckpointsExact`). `CheckpointInv`: the checkpoints in use are an interval of
  the ring and map to the live tags in the order of their age (`InOrder`). This is
  what makes the pointer arithmetic right when a rollback takes back the young
  end while the retirement frees the old one. `Phases` ties the two pipeline
  stages of a restore to the state of the rollback.
- `RollbackProofs!RenamesRight` (`FratIsSpeculative`) and `RestoresRight`
  (`CheckpointsExact`). `TableInv`: the speculative table is in the FRAT, in the
  restore pipeline or in the checkpoint being read (`Restores`); every branch that
  may still roll back has the table right after it saved, or being saved from the
  FRAT (`Stored`). `CommitsTable` shows that retiring moves entries from the ROB to
  the RRAT without changing the table as a whole.
- `WindowProofs!CoreIsPrecise`: `Spec => PreciseExecution`, the refinement. The
  window is the valid entries of the ROB in order; `Nth` and `Rank` convert between
  positions in the ROB and in the window, and `ItemsShift` says what dropping a
  prefix, cutting the path and appending an entry do to it. With `PathInv` and
  register ownership each cycle is then a `Flow` (`FlowsWindow`), a `Mispredict`
  (`MispredictsWindow`), a `Trap` (`TrapsWindow`) or a stutter while a trap drains
  (`TrapKeepsWindow`). It does not need the checkpoint and table invariants: what
  commits depends on tags alone.

So every safety property of `SpeculativeCore` that a run checks is also proved;
each of the inductive invariants (`RegisterInv`, `TagInv`, `TrapInv`, `PathInv`,
`CheckpointInv`, `TableInv`) also holds in every reachable state of `core_tags` and
`core_traps`.

**Fetch** (`FetchProofs`)

- `FetchInvariant`: `Spec => []FetchInv`, and from it `StreamIsContiguous`,
  `PredictionsStayInOrder`, `RecordsAreKept`, `RasIsRecovered` and
  `FetchStaysAlive` for the five invariants of `fetch_stream`. `FetchTargetQueue`
  compares ring pointers with a wrap bit; the proofs measure each pointer by its
  distance from `train_ptr` (`Pos`), which is a number below `2 * FtqSize`, and
  then order them by arithmetic.
- `FetchInv` is long because `check_stale` decides from the pointer and the small
  generation number a request carries. Why that is enough: every request that is
  sent starts a new generation of its entry, and at most `MaxInflight <= Gens`
  requests are in the fetch unit, so the age of a request in generations is at
  most the number of requests behind it (`RequestsPlaced`) and never wraps to 0.
  Of the requests in flight exactly the last `LiveCount` are
  live, and they are those of the entries from `pred_ptr` to `fetch_ptr`
  (`RequestsLive`). `Linked`, `Continues` and `DueNext` say that these entries, the
  prediction in progress and the address unit form one chain starting with the
  block that is due; `Stalls` and `PathOrdered` tie the stall controller, the RAS
  recovery and the ghost path to the pointers; `RecordsMatch` is the part about
  training.
- `HalfCarried` follows the first half of an instruction from block to block. It
  holds only while no jump over a half instruction is followed (finding
  `fetch_half_jump`), so `StreamIsContiguous` has the hypothesis `~JumpsOverHalf`.
  The four others do not need it and are proved with and without such jumps.
- TLC checked `FetchInv` in every reachable state with the constants of
  `FetchStream.cfg`, and with `FtqSize = Gens = MaxInflight = 3` to depth 11.

So every safety property of `FetchTargetQueue` that a passing run checks is
proved as well.

**Operand delivery** (`BackendProofs`)

- `OperandsHold`: for any number of instructions, registers, rows, announcements
  in a cycle and any operations of the two stations, `OperandsRight`,
  `WrittenOnceFreedValid` and `WaitersHaveProducers`. `OperandsRightHolds` and
  `WaitersHaveProducersHolds` state it for the run.
- Why it holds: an operand is captured at one of three moments (the read of the
  register file, the insertion into a row, an announcement that meets the row), and
  at each of them its value must be either in the register file or with an
  instruction that is still to announce it. `OdInv` says where both are. `OnePlace`
  puts every instruction that has not announced into exactly one of queue, read
  stage, row and unit; `RowsHeld` keeps the two row allocators (a permutation with a
  length, a ring) apart from rows in use; `Owners` gives every register one owner,
  valid exactly from its announcement on. `PathKnown` and `SourcesMapped` follow the
  register map: a source is the destination of the last active writer before the
  instruction, or the committed register, so retirement cannot free it before its
  reader has gone (`MappedKept`). `WaitingSourced`, `RowsRight` and `ResultsRight`
  then say what is in each place.
- On a wrong or flushed path sources may be freed and reused. There `RowsRight` only
  keeps the owner of a register that is waited for; `SkipSources` is why it can:
  an inactive instruction waits for nothing when it is inserted.
- TLC checked `OdInv` in all 46722 reachable states of the parts `Main`, `Stall` and
  `Trapping`, in an instance of five instructions to depth 9, and in random
  behaviours of that instance.

**Translation** (`TranslationProofs`)

- `FirstLevelTlbRight` (all `k`), `FirstLevelHolds` (`FirstLevelRight`): the answers
  of the first level TLB. `L1Inv`: at most one port refills, and the fences accepted
  since it asked are all still queued (`RefillWaits`); an entry that an accepted fence
  covers is covered by one that is still queued (`StaleCovered`), and no lookup is
  answered while a fence waits.
- The second level, for all `k` and for fences of any address:
  `SecondLevelTranslates` (`L2Base`: the request in the read pipe and the set that
  was read belong together, although lookup, refill and flush share the port);
  `SecondLevelFenced` (`HomeFenced`: when a flush is over, no set holds an entry of
  its own that an accepted fence covers); `SecondLevelFullFences` (`NoStaleHit`,
  with the hypothesis `~k.countPages`, that is, for the entries that fences of all
  addresses cover). The first cycle of a flush writes a line of another set, so the
  invariant follows what was read (`ReadPlaced`) and which entries the running
  flush still has to meet (`Doomed`, `Kept`). With fences of one address counted,
  `NoStaleHit` is false of the code (finding `tlb_page_fence`).
  `SharedTlbHolds` is the run's `SharedTlbRight`.
- `WalkerRight`, `WalkHolds` (`WalkRight`): the page table walk, for any page tables,
  any number of levels and reads that fail. `WalkInv` says which entry is being read
  (`AddressesRight`), with what the walk so far has found (`Reading`), and what the
  result will be (`Finished`).
- `LockHolds` and `LocksStay` (`LockedStays`, an action property): no write changes a
  locked entry of the memory protection, or the address a locked range starts at.

**Buses and instruction cache** (`MemoryPathProofs`)

- `AxiKeepsOrder`, `PipelinedKeepsOrder`, `RequestsHold` (`RequestsInOrder`): on
  every channel what was sent, what is under way and what is still to be sent are
  consecutive pieces of the sequence of requests (`NothingLost`), and the FIFO has
  room for each answer that is out (`RoomForAnswer`).
- `BusExecutesOnce`, for any number of masters, ports and slaves: between request
  and result a request is executed exactly once, retries included, and the result
  finds room (`BusInv`, which speaks of each master on its own).
- `BusAnswersOwn`: the answer is the one to the port's own request (`AnswerInv`: what
  the arbiter granted is what the slave reads). It has the hypothesis `Undisturbed`:
  a slave whose reads take a cycle has one master, because the arbiter can move the
  grant during such a read (section 6). `BusAnswersHold` is the run's
  `BusAnswersRight`; its instances satisfy the hypothesis.
- `CacheHolds`, for every size of the cache: `RightBlock`, `NoDoubleHit`, `BusQuiet`;
  `CachedBlockHolds` is the run's `CachedBlockRight`. `CacheInv` follows a word from
  the bus to the result. Of a line `s` words were requested and `r` answered, and the
  bus holds those between (`CacheCounts`), so that the counters, which have the width
  of the line, are equal at the end of a failed refill only when the bus is empty. The
  refiller's buffer holds the last words of the block (`Gathered`, also where an
  earlier refill left words in it), and blocks go to the way that is refilled
  (`CacheRefilled`), whose old entry is no longer claimed to be right
  (`Overwritten`). A flush may discard the history of versions because it waits for
  the lookup: `CacheAsked` says that no refill runs then, and `SetsFlushed` that what
  is left of the old lines is gone before the next lookup. TLC checked `CacheInv` in
  13 million states of instances with two ways, two blocks of two words and lines that
  change.

TLC checked each of these invariants in the reachable states of the instances
before it was proved.

**Only model-checked.**

- `SideEffectsKept`, `ReportsExact` and `CountsExact` of `CommitWindow`.
- `LoadStorePrecise`, `AtomicsMatch`: their inductive invariant is not written yet.
- `AccessesRight` and `ProtectionRight` compare addresses through powers of two with
  a variable exponent, on which the provers do no arithmetic.
- The `units` run: its modules reach RECURSIVE operators (`DivUnit`,
  `UnsignedMultipliers`, `ZbcUnit`, `TreePLRU`) or bitwise ones (`CsrUnit`, `ZbcUnit`),
  and what a recursive operator computes is beyond the provers used here.
- Liveness: fairness and ENABLED are out of their reach as well.

## 5. Findings

`core_marker_race`. `RollbackTagger` hands the rollback tag to the first
instruction it pushes after a redirect and forgets it (`frontend.py:68`). When
an instruction older than the branch has reported an exception, the stall
controller's flush clears `output_pipe` (`stall_controller.py:57`,
`frontend.py:199`) and may drop exactly this instruction. Nothing sends the tag
again: `CheckpointRAT.tag` remains in its in-rollback flow (`crat.py:289`), and
after the trap the handler's instructions are issued with inactive tags. The
runs that need exact tags exclude that schedule with `MarkerRace = FALSE`;
the traps of `core_live` include it, and so do the proofs on types, registers, tag
counting and traps; those on the rollback protocol assume `~MarkerRace`.

`fetch_half_jump`. Stage 1 of the fetch unit remembers the last slot of a block
as half an instruction whether or not a taken jump precedes it
(`fetch.py:332-338`), and stage 2 forgets it only on a redirect, fault or stall
(`fetch.py:572-579`). A block that jumps, as predicted, over such a slot to the
first address of the next sequential block therefore makes the target block
start with an instruction joined from the skipped half (`fetch.py:283`). `fetch_stream` excludes such a block with `JumpsOverHalf = FALSE`.

`tlb_page_fence`. `sfence_vma` of the second level TLB reads the set at which the
flush before it ended (`tlb.py:625`), always set 0, and the first cycle of the
flush writes what was read, filtered, to the first set of the fenced address
(`tlb.py:631-637`). The comment at lines 600-602 allows wrong data only for the full
flush after reset, which clears all of it. A fence of one address thus replaces a
line by a copy of set 0, and a later fence of a copied page visits the sets of that
page and not the copy: a lookup that tries the other set (for the smallest page
size, when the copy is of a larger page) answers with a translation that the fence
"flushes ... across all ASIDs" (`test/priv/vmem/test_tlb.py:360`). The run has two
sets, two address spaces and pages of the larger size. What holds whatever is fenced,
`HomeFenced` and `RightTranslation`, and what full fences guarantee is checked by
`translation` and proved.

## 6. Observations

While modelling, the following disagreements between code and comments came up.
Where a constant is named, it excludes the case from the runs; setting it the
other way makes TLC show it.

- `priv/vmem/tlb.py`. Nothing keeps two copies of one page out of a set of the second
  level TLB: a page mapped globally in one address space and privately in another has
  an entry of each kind in two ways, and both match. The
  first way answers (`MatchedEntry`), so `RightTranslation` holds; uniqueness is not
  claimed.
- `frontend/bpu/ras.py:79`. A call that is also a return, on an empty stack, replaces
  a top that does not exist and leaves the count 0: its own return is not predicted.
  The reference stack of `ReturnAddressStack` follows the code in this case. It costs
  a prediction, nothing else.
- `priv/pmp.py:181`. The signal that receives MPP has one bit, so machine mode
  (3) becomes supervisor mode (1), while line 28 promises "using MPP when
  MPRV=1". `PMP` with `MachineMpp = TRUE` and `Levels = {0, 1, 3}` violates
  `GrantsAllowed`: entries that are not locked bind a machine mode access.
- `priv/pmp.py:121`. An empty TOR range inside an access of several words counts
  as a match. `PMP` with `EmptyTor = TRUE`, `Sizes = {0, 1}` violates
  `GrantsAllowed`. Accesses of one word, the only ones the core makes, are not
  affected.
- `peripherals/wishbone.py:437`. Lines 460-461 say that the strobe is masked so
  that the grant does not change within a cycle. If the grant moves from an idle
  master to another one and the first raises `cyc` in the next cycle, the grant
  moves back during the read. `WishboneBus` with two masters and
  `ReadsWait = TRUE` violates `RightAnswer`. Also, a master whose requests
  follow each other without a pause keeps the bus: fairness between masters is
  not claimed.
- `fu/lsu/lsu_atomic_wrapper.py:99`. Line 26 says "SC are only matched to LR".
  The reservation is set when an LR is issued; if the LR is then flushed with
  its wrong path, it stays, and an SC without an LR in program order succeeds.
  `LoadStoreUnit` with `Flushes = TRUE` and `Kinds = {"lr", "sc"}` violates
  `ScMatchesLr`.
- `core_structs/rob.py:152`. `put` writes the pure bits in a loop over the
  retirement width. With `FrontendWidth = 2`, `RetireWidth = 1` (accepted by
  `genparams.py`, used by no configuration) `CommitWindow` violates
  `SideEffectsKept`; the opposite case, a wider retirement, fails at
  elaboration.
- `socks/plic.py:112`. The interrupt that a claim returns is the lowest pending
  one of the selected priority, enabled for the context or not, while its
  completion is accepted only if enabled; and the selection is registered, so an
  enable written one cycle before a claim is not seen by it. In `PLIC` with
  `EnableSets = {{2}}` a claim returns interrupt 1.
- Smaller ones, without consequence for the properties here: `priv.py` does not
  clear `illegal_instruction` when an instruction completes; `csr_unit.py`
  reports an interrupt even for an instruction that was rolled back;
  `WakeupSelect` is documented to take the last ready row and takes the first;
  `DivUnit.clear` has no caller and is not modelled; `fast_recursive.py` does
  not end its recursion for `dsp_width` below 3.

## 7. Plan

Done: the core and fetch with their proofs, the commit window, operand delivery, the
memory path, translation and protection, the privileged state, the platform
interrupt controllers, the arithmetic units, the predictors; safety and liveness
of each, the refinements of `PreciseWindow` and `FunctionUnit`.

Left, in the order of importance:

1. Proofs. `CommitWindow`: the stored report is the oldest of the valid path (needs
   an invariant relating ring distance to age). `LoadStoreUnit`: what its queue
   forwards is on the valid path. `PLIC`: `ClaimedOnce`, in a module that
   does not reach recursive operators.
2. Composition of `LoadStoreUnit` with `CommitWindow` through the side effect
   guard, which each of them now replaces by what the other may do.
3. Branch resolution records of the fetch target queue (`resolve`,
   `train_status`).

## 8. Not modelled, and why

Values of operands other than those of the arithmetic units, branch arithmetic
and decoding are pure functions; the properties here do not depend on them.
Floating point is out of reach of explicit-state checking. Telemetry does not
influence the core. Parameters and Verilog generation happen before the hardware
exists; their assertions are the assumptions of the modules. Transactron itself
is external and enters as the rule which transactions run in a cycle. The port
serializer in front of the second level TLB is taken as one port, and the bypass
that replaces the cache in small configurations forwards to the bus. The page
table walker, the CSR unit, the CLINT and the arithmetic units are
deterministic once their environment answers; that they answer is not a run of
its own.
