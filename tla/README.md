# SPARE-PIM in TLA+

This directory models SPARE-PIM, a processing-in-memory extension of the
Ramulator 2 DRAM simulator: the controller that expands an ESEF token into DRAM
commands, the HBM3 device it drives, the trace frontend and the main loop around
them; the generic memory controller with its DDR4 device; the out-of-order
processor with its cache; the plugins against RowHammer; and the tables of the
other DRAM devices. TLC checks the modules on small instances, TLAPS proves
theorems about some of them for all instances. Paths below are relative to
`src/src/` of the repository unless they say otherwise.

    tlc -workers 2 -config MCEsefSystem.cfg MCEsefSystem.tla     # a run
    tlapm GenericControllerProofs.tla                            # the proofs of a module

`PROJECT.json` lists the runs, the source lines of every definition (`map`), the
hazards with the properties that cover them, and for every property a *mutant*: a
plausible bug in the code, written next to the definition it replaces (comments
that begin with "Mutant:"), with which TLC finds the property violated.

## 1. Inventory

The simulator is one thread. Concurrency is that of the hardware it simulates:
several controllers, banks and requests advance together, cycle by cycle, and what
happens first depends on timing tables, queue sizes, clock ratios and arrival.

| component | state | operations | meets |
|---|---|---|---|
| Main loop `main.cpp` | iteration, clock ratios | tick frontend, check exit, tick memory | frontend, memory system |
| Trace frontend `frontend/impl/sparepim/sparepim_trace.cpp` | trace, index, completed count | parse, validate, `tick`, callback, `is_finished` | sends to the memory system, called back by a controller |
| Memory system `memory_system/impl/generic_DRAM_system.cpp` | counters | `send`, `tick` | one device, one controller per channel |
| SPARE-PIM controller `dram_controller/impl/sparepim_controller.cpp` | request queue, operation queue, delay timer, statistics | `send`, `priority_send`, `tick` with six kinds of step, expansion | the shared device; the request's callback |
| Functional data path (same file, `bank_storage.h`, `golden/`) | bank storage, executed position, outputs | load, execute a token, compare | controller's expansion |
| HBM3 device `dram/impl/HBM3.cpp`, `dram/node.h` | ready clocks and ACT history per node, row states, `nSPM` | `check_ready`, `issue_command`, `notify`, `tick` | every controller |
| Generic controller `dram_controller/impl/generic_dram_controller.cpp` with scheduler, refresh and row policy | four buffers, pending reads, write mode, counters | `send`, `priority_send`, `tick` | device, scheduler, refresh manager, row policy |
| DDR4 device `dram/impl/DDR4.cpp`, `dram/lambdas/` | as HBM3, and the refreshes in flight | as HBM3, and `get_preq_command`, row hit and row open queries | generic controller |
| Simple out-of-order core and cache `frontend/impl/processor/simpleO3/`, pages `translation/` | window, trace position; MSHRs, lines, hit and miss lists; page table | core `tick`, `receive`; cache `send`, `tick`, `receive`; `translate` | memory system, callbacks |
| Counting plugins: Graphene, TWiCe, OracleRH, RFMManager `dram_controller/impl/plugin/` | activation counts by bank, spillover, ages | `update` once a tick | the controller's priority queue |
| Hydra `plugin/hydra.cpp` | group counters, row counters in memory and their cache | `update` | sends reads and writes of counters, and refreshes |
| RRS, AQUA, row indirection `plugin/rrs.cpp`, `plugin/aqua.cpp`, `addr_mapper/impl/` | activation counts, indirection and reverse tables, quarantine head | `update`, `apply` of the mapper | address mapper, controller |
| PRAC controller, scheduler and plugin `prac_dram_controller.cpp`, `plugin/prac/` | row counters, back-off machine, recovery buffer | `tick`, `update`, alert, recovery, RFM | device, scheduler |
| BlockHammer controller, scheduler, plugin, processor `plugin/blockhammer/`, `blocking_scheduler.cpp`, `bhO3/` | Bloom filters, history, throttler, MSHR quotas | `update`, `is_act_safe`, `send` of the cache | scheduler, cache |
| Other devices (DDR3, DDR4 and DDR5 with VRR and RVRR, LPDDR5, HBM, HBM2, GDDR6) `dram/impl/` | as HBM3, future actions, power counters | as DDR4 | controllers |
| Observing plugins, memory trace frontends, gem5 wrapper, configuration, factory, statistics, scripts | start-up, output or pass-through | | |

What is hard in each, and what makes it correct:

* **Controller and expansion.** Commands are issued on timing alone; nobody looks at
  the row state (`sparepim_controller.cpp:638`). So only the *order* in which the
  expansion enqueues ACT, MAC, SPM and PRE keeps rows right, and it must hold for
  runs that start inside a row, end at its end, or wrap at the end of the bank.
  Correct: each request is completed once; stages of two tokens never mix; MAC and
  SPM compute on the row that was opened for them; statistics, counted at expansion,
  agree with the commands issued hundreds of ticks later.
* **Device.** `check_ready` compares clocks down to the command's scope, the
  constraints are written down to the banks, the ACT window is a queue of fixed
  length, and `notify` changes a latency while the device runs. Correct: a command is
  accepted only when every constraint is satisfied at every node it is looked up at.
* **Several channels.** One device object serves all controllers, so the latency of
  SPM is shared state. Correct would be that each SPM has its own token's latency.
* **Frontend, memory system, main loop.** Refused sends are retried, two clock ratios
  interleave, the exit check lies between the two ticks. Correct: no token skipped or
  sent twice, the loop ends, and leaves nothing behind.
* **Generic controller.** One command per tick is shared by active requests,
  maintenance, reads and writes; requests move between buffers while refreshes and the
  row policy close rows under them; buffers hold one more than their size. Correct: no
  request lost or served twice, open rows stay open for those who wait on them,
  refreshes undisturbed, everything served, data dependences respected.
* **Processor and cache.** A hit is answered ticks after it was found, misses and
  write-backs leave as the memory takes them, and lines are evicted meanwhile. Correct:
  a line is locked exactly while an MSHR waits for it, every load is answered, stores
  are not dropped, cores get through their instructions.
* **Counting plugins.** Tables smaller than the bank, with replacement, pruning, caches
  and resets per period. Correct: no row is activated more often than the plugin can
  know of, and its neighbours are refreshed in time.
* **RRS, AQUA.** Rows move between places, again and again, under locks per period.
  Requests are translated before they activate, and the moves activate as well, so
  places are activated that have been left. Correct: an address always reaches the row
  that holds its data.
* **PRAC.** The plugin runs its machine on a clock, the controller makes room for the
  recovery by the same clock, accesses and refreshes come in between. Correct: each
  recovery has its PREA and RFMs and no more, counters stay bounded, critical rows are
  refreshed.
* **BlockHammer.** Filters take turns, counters are shared, the history of a rank holds
  back rows of all its banks. Correct: hot rows are found, held back, and served in the
  end.
* **Devices.** Hundreds of presets and formulas nobody executes together. Correct:
  no two bursts on one bus, rows restored before they close, nothing in a refresh's way,
  no prerequisite repeated for ever, energy counted once.

## 2. Modules

```
TimingCons      a timing constraint, tables built of them
DramTree        the node tree: ready clocks, ACT history, check_ready, one cycle
 |-- HBM3       + rows, the SPM latency, issue_command, notify
 |    |-- HBM3Device            the device alone, with a history of what it accepted
 |    `-- SparePimController    + queues, operations, delay timer, every branch of tick
 |         `-- GenericDRAM      + memory system, any environment
 |              `-- SparePimSystem   + trace frontend and main loop
 |                   `-- EsefSystem  + the real expansion; implements EsefService
 `-- DDR4       + bank states, prerequisites, refreshes that end by themselves
      `-- GenericController     + buffers, FRFCFS, refresh, row policy, write mode
HBM3Timing, DDR4Timing   the constraint tables of the two devices
EsdmMapping              make_esdm_addr and the splitting of runs into rows
 |-- EsefExpansion       expand_request: the operations and the statistics
 |    `-- EsefTokens     one trace line through parsing, validation and expansion
 `-- EsdmFunctional      the functional data path against the golden model
EsefTrace                parse_trace_line, validate_trace, the request of tick()
EsefService              abstract: tokens served one by one, stage by stage

SimpleO3LLC              cache, MSHRs, hit and miss lists
RandomTranslation        random pages
 `-- SimpleO3            + cores, frontend, a memory that answers in any order

DdrDevices, Ddr5Devices, LpHbmDevices   presets, timings, constraints, commands of ten devices
Devices                  one device of any kind, driven by such a table
 `-- MCDevices           the catalogue: every preset; TLC evaluates what Devices assumes of each

RowTrackers              Graphene, TWiCe, OracleRH, RFMManager
 |-- Hydra               group and row counters, their cache
 |-- RowSwap             RRS, AQUA, row indirection, address mappers, requests on their way
 |-- Prac                plugin, controller and scheduler of PRAC
 `-- BlockHammer         filters, history, throttler, blocking scheduler, MSHR quota
      all composed in MCRowHammer: a controller with one of the plugins

MC*                      small instances; *Proofs   theorems
```

How state and actions correspond to the code:

* **Time.** A ready clock is kept as the cycles left until it (`wait`), an ACT in the
  history as its age, up to the window. A tick decrements; nothing else in the code
  reads absolute clocks, so this is exact and keeps the state space finite. A delay
  timer is the cycles left while it is active, 0 when it is not. A refresh's end is a
  countdown (`ending`) for an entry of `m_future_actions`.
* **Nodes** are tuples: `<<>>` the channel, `<<p>>` a pseudo channel (or rank), up to
  `<<p, g, b>>`. The address part `Each` (-1) stands for all children.
* **SparePimController**: `queue`, `opq`, `delay`, `stats`, `issued`, `done` are
  `m_request_queue`, `m_op_queue`, the delay clock and flag, the counters of
  expansion and issue, and the callbacks made. `asked` is a history variable. Actions
  are the branches of `tick()`: `TickIdle`, `TickDelay`, `TickConfigureSPM`,
  `TickIssue`, `TickStall`, `TickComplete`. Each first expands the next request if no
  operation is left, in the same step, as the code does. The operations a request
  expands to are the constant `Program`; `EsefSystem` equates it with
  `EsefExpansion`. This keeps the control of the controller apart from the arithmetic
  of the expansion, so the theorems about the one hold for every program.
* **GenericDRAM**: `turn` splits `tick()` into the device's step and one step per
  controller. No send comes in between, as in the code.
* **GenericController**: `turn` splits the tick of the memory system into device and
  controller. The controller's tick is one step: what is due to refresh is put in the
  priority buffer, a pending read departs, an entry is scheduled, and its next command
  issued, with the row policy and counters after it. `TickFinish` is the last command
  of a request, `TickOpen` an ACT, `TickClose` any other prerequisite, `TickStall` a
  tick without a command. `arrive` and `now` order arrivals in place of absolute
  clocks: FRFCFS only compares arrivals, and requests that arrive between the same two
  ticks compare as equal.
* **SimpleO3**: `turn` goes through the cache, the cores one by one, and the memory; a
  core's tick retires and issues as the code's loop does, up to its width. `window`,
  `mshrs`, `waiters`, `hits`, `misses` are the members of those names; a hit's clock is
  the ticks left. An address is a page and an offset, pages are drawn at the first use.
  `overtaken` and `unsaved` are history.
* **Devices**: one record per device and preset has its commands, scopes, gaps,
  prerequisites, effects, ends and power rules, derived by the formulas of the source.
  `Ask` does for an access, refresh, victim's refresh or closing what a controller does:
  ask for the prerequisite, wait till `check_ready` agrees, issue. Time jumps to that
  moment, which is exact, since nothing changes in between but the ends of refreshes,
  which are an action (`EndRefresh`). A closing may be for a bank that is closed by
  then, as `RequireBankClosed` allows; `strays` and `misled` observe such a PRE.
* **RowTrackers, Hydra, RowSwap, Prac, BlockHammer**: one action per outcome of the
  plugin's `update()`: idle, refresh, activation of a row that is counted, inserted,
  replaced or spilled. The command is the environment's choice among `Hot` places. `acts`
  (or `window`, `recent`) is what happened, as an observer sees it. Random draws of the
  code are choices. In `RowSwap`, `SwapSend` translates a row and puts the place among
  those waited for, `SwapTick` is one `update()`, with an activation of any place waited
  for or with none, and `SwapServe` takes a place off; a move adds its own requests'
  places. `data` and `misled` are observers. `Prac` models the controller's and
  scheduler's `tick` as well; which command the device accepts (`ready`) is the
  environment's choice.

## 3. Runs

Passing runs (distinct states in parentheses):

| run | question and instance | result |
|---|---|---|
| `esef_one_channel` (11,424) | The whole simulator, 1 channel, 2 banks, 4 rows of 3 columns, queue of 2, all 24 orders of 4 tokens: with a VOC list, compact, without valid output, with runs within and across rows. | `StatsMatchCommands`; every row is opened for the request that computes on it and closed by it (`RowsServeTheirRequest`); each SPM has its own latency (`SpmTimedByOwnToken`). |
| `esef_two_channels` (9,904) | 2 channels, queue of 1, clock ratios 3:2, all orders of 3 of 4 tokens. | The loop terminates (`Terminates`), leaves nothing behind (`StopsClean`), and the simulator implements `EsefService` (`ImplementsService`). |
| `memory_any_requests` (20,986) | 2 channels, queue of 2; two tokens, a direct read, a direct MAC, a refresh; `send` and `priority_send` at any time. | No request lost, duplicated or misrouted (`ExactlyOnePlace`), every one completes (`ServesEveryRequest`). |
| `hbm3_timing` (32,782) | The device with 2 banks, a window of 2 ACTs, commands ACT, SPM, PRE, `notify` at any time. | What the device accepts is spaced as the table says, under the SPM latency of its own issue (`AcceptedAreSpaced`). |
| `token_expansion` (80,064) | 14 trace lines under 4 frontend and 384 controller configurations, and 288 layouts of K and V where rows, mapping and the storage's key wrap at different places. | The BGMU scan and what validation promises (`VocsCountedRight`), the protocol of rows and the order of stages (`OpsFollowProtocol`), `SpmLatenciesAddUp`, `PlacesApart`; where the regions lie apart, values are read back and the golden comparison passes (`DataPathAgrees`). |
| `generic_controller` (394,272) | 2 ranks of 2 banks, 2 reads, 2 writes that hit, conflict or share an address, arriving in any order at any time; buffers of size 1 (which hold 2), refresh every 15 cycles, closed rows after 2 accesses. | `ServedOnce` (in one place, counted once), `ActiveRowOpen`, `RefreshUndisturbed`, `RefreshKeepsUp`, `WritesInOrder`, `EveryRequestServed`. |
| `simple_o3` (35,459) | 2 cores of width 2 and depth 2 that share a cache set of 2 ways and 2 MSHRs, 3 pages, loads and stores that hit, join, conflict; a memory that takes one read and one write at a time. | Lines are locked exactly while an MSHR waits and, unless a hit is answered late, no waiter is lost (`MissesAnswered`); `StoresReachMemory`; `EveryCoreFinishes`. |
| `device_tables` (1,120,000) | Every organization and every speed of ten devices; up to three banks in two ranks and two groups, two rows; any sequence of accesses, refreshes, victims' refreshes and closings, also of banks closed already, up to a depth. | `BurstsApart` within a rank, `RowRestored`, `RefreshAlone`, `NoStepTwice`, `BooksBalance`. |
| `rowhammer_plugins` (552,523) | Nine plugins, each on 2 ranks of 2 banks of 4 rows, of which a few are activated in any order, with refreshes and idle ticks, over at least one reset period; with RRS and AQUA requests that are sent, activate and leave at different times. | The counting plugins miss nothing (`NoActivationEscapes`) and refresh in time (`RefreshedInTime`, `HydraInTime`); Hydra's counters keep their place (`CountersKeepTheirPlace`); moved rows are found until a move misleads the table (`DataFollowsRows`) and hot ones move (`HotRowsMove`); `RecoveryPaired`, `CountersBounded`, `CriticalRowsRefreshed` of PRAC; `HotRowsBlacklisted`, `HeldBack`, `HeldRequestsServed` of BlockHammer. |

Runs that show a disagreement between code and documentation:

| run | what TLC finds |
|---|---|
| `shared_spm_latency` | `SPARE_paper_code_mapping.md:275` gives each token's SPM its own latency. `HBM3::notify` (`HBM3.cpp:195`) writes the one table all channels share, read only when SPM is issued, after the ACTs. Two channels overwrite each other's value. (With one channel it cannot happen: `SingleChannelSpm` below.) |
| `reads_see_writes` | `send()` answers reads from waiting writes (`generic_dram_controller.cpp:131`) but searches the write buffer only. A write whose row was opened sits in the active buffer; a later read of the address is issued before it. |
| `hit_after_eviction` | A line is ready when it is no longer in flight (`llc.h:27`). A hit answered after its line was evicted and missed again takes over the receivers of that miss, frees its MSHR and marks its line ready (`llc.cpp:43`). |

**Bounds.** They are chosen so that every case of the code occurs: queues that are full
and refuse; runs that start inside a row, end at its end, cross it and wrap around the
bank; tokens of all three kinds; two banks, so that a command can meet or miss another's
bank; two channels, so that they can interfere; two ranks, so that one refreshes while the
other works and sibling constraints apply. Timing values are small but keep the order of
the real ones (nRC = nRAS + nRP, nRRDL > nRRDS, the window longer than the ACTs that fill
it), except in `device_tables`, which has the real ones. The refresh period of
`generic_controller` is short, so that refreshes meet requests in every state, and still
longer than what two ranks need to finish their active requests, close their rows and
refresh: `RefreshKeepsUp` is a statement about such periods. It is proved for every period
of at least `RefreshLoad`, which TLC evaluates for the DDR4 presets (`PresetsSuffice`);
the run shows it for one of less than half of that. `Horizon` bounds the history in
`hbm3_timing` at the longest constraint. `depth` bounds the commands in `device_tables`:
each preset is driven far enough for an access, a row conflict and a refresh in between;
one preset of each device further and with two ranks; one of DDR4 and one of DDR5 with
victims' refreshes for five commands, after which a row policy's PRE has come late (the
properties are proved for any depth). `MaxUpdates` bounds the ticks of the plugins up to
AQUA, by plugin: 8 to 11 are enough to fill the tables, spill, replace, prune and reset.
RRS's 6 reach a second and a later swap of a row and the third row that finds the table
full and gives up a pair of an earlier period; not the exit when no pair can be given up.
AQUA's 9 take its head twice around an area of two places and into a second period.
Sending and serving take no tick, and `MaxWaiting` bounds the places that a bank's sent
requests are for (those of a move come on top): with them RRS moves a row that is
activated at the place it has left; and of AQUA's places of the area, some are moved on,
some evicted, and both kinds are activated and moved afterwards. PRAC and BlockHammer run
for ever. For BlockHammer two filters with epochs of three ticks, counters of two bits, a
history of two slots and two MSHRs per core make counters overflow, filters rotate under
activations, old slots take rows off and quotas fall to 1 and to 0.

**Deadlock** is checked except in `token_expansion`, `device_tables` and
`rowhammer_plugins`, which end when their computation or bound does. The system's own
stop is a step that changes nothing.

**Fairness.** The loop is one thread that waits for nothing, so what is assumed is
that it goes on: weak fairness of "the control point moves" (`LoopMoves` in
SparePimSystem, `TurnMoves` in GenericDRAM and GenericController, ticks of cache and
cores in SimpleO3, `PracTicks`, `BhTicks`). Of a particular command, request or arrival
no fairness is assumed: that a command becomes ready and that a request is reached
follow from the model. Two modules have an environment in place of a component that is
modelled elsewhere: the memory of SimpleO3 answers each read and takes writes
(strong fairness), which `EveryRequestServed` says of the generic controller; and
`PracTicks` is a tick in which the device accepts what is offered, since every timing
constraint ends.

## 4. Theorems

Proved with TLAPS for every value of the constants that satisfies the named
assumptions of their modules. The assumptions say of what kind a constant is
(geometry, tables, sizes; for the devices' tables see below), that every expansion ends with its one Complete operation
(`ProgramAssumption`), and of DDR4 that a refresh lasts more than a cycle and keeps
ACTs of its rank away as long as it lasts (`DDR4.cpp:471`).

* **HBM3DeviceProofs.** `DeviceTypeCorrect`, `HbmTypeCorrect`,
  `WaitsCover`, `AcceptedSpaced`. That what the device accepts is spaced is not
  inductive: it speaks of the moment of acceptance. The invariant is `WaitsCover*`:
  age of a command plus the wait it imposed covers the gap, at every moment. A tick
  keeps the sum, an issue resets one summand and raises the other, `notify` touches
  neither.
* **EsefProofs, the memory system.** `TypeCorrect`, `RequestsSafe`, `ImplementsDevice`,
  `SingleChannelSpm`. The invariant adds to `ExactlyOnePlace` that the operation queue
  is always the end of an expansion (`OperationsWellFormed`), so only its last
  operation completes a request, and it is the request in service. `ImplementsDevice`
  says that every step is one of the device under a controller that asks `check_ready`,
  so the device's theorems hold in the system.
* **ExpansionProofs, the mapping.** `PlacesDistinct`, `RegionsApart`, `PassStaysInRow`: the
  address generator gives distinct places to distinct columns, keeps regions apart, and
  a pass of the splitting loop never leaves its row and always makes progress. They
  rest on lemmas about `\div` and `%` proved there.
* **ExpansionProofs, the expansion of a token**, for every token the frontend can send
  (`IsToken`), every configuration (`ConfigAssumption`: the parameters are ints and
  bools), geometry and list of VOCs. `TokenBrackets`: rows are opened and closed in
  turn, and MAC and SPM run on the row their bank has open. `TokenCountersMatch`: with
  ESDM the counters match the commands. `TokenStaged`: the operations go through the
  stages of ESEF in order. `Chunks`, the loop that cuts a run at row boundaries, and
  the scan of the list are recursive functions, so each needs an induction of its own;
  without an induction theorem over a predicate it is by the least counterexample
  (`LeastOf`, from the well-foundedness of the naturals). The argument is about
  concatenation: what leaves every bank as it found it, computes only on rows it has
  opened and names only them is *tidy* (`TidyOps`); `QkRow` and `PvRow` are tidy since a
  pass does not leave its row (`PassInRow`), tidy sequences one after another are
  tidy, and so is each stage and the whole. Numbers of commands add up over
  concatenations in the same way, and the stage a tail is in is that of its head.
  `TokenLatencies`: the latencies configured add up over concatenations too; a sequence is
  *paired* if each SPM comes right after the one operation that configures it, and paired
  sequences one after another are paired. The chunks of the PV stage add up to the largest
  VOC, so with the fixed cycles of each they make the sum, unless one was raised to the
  minimum of one cycle. `TokenPlaces`: within a run the columns ascend, from one pass to
  the next as well, so two MACs name the same place only if the mapping gives two columns
  of the run the same one, which `PlacesDistinct` excludes; rows of SPMs lie in the region
  of V. Offsets and start columns are any integers. `TokenScan`: what the scan has found
  after each value is what there was to find up to it, by induction over the list.
* **EsefTokensProofs**, a line on its way through the frontend and the controller.
  `VocsCounted` (`VocsCountedRight`), `OperationsFollowProtocol` (`OpsFollowProtocol`),
  `LatenciesOfTokens` (`SpmLatenciesAddUp`) and `PlacesOfTokens` (`PlacesApart`), for
  every line, well-formed or not, every geometry and every configuration of both sides
  (`TokensAssumption` gives their types). The theorems about the expansion of a token are
  for a constant configuration; here it is a variable, so the first lemmas say that the
  expansion under the configuration chosen is the one those theorems speak of. The
  invariant (`TokensInv`) says that the trace is one `parse_trace_line` leaves, with the
  maximum and the total it has taken from the list or the line, and from "ready" on one
  that `validate_trace` has let pass; so the request is a token (`IsToken`), and what
  validation has bounded bounds the longest SPM.
* **EsefTokensProofs, the functional data path.** `ValuesReadBack` (`DataPathAgrees`), for
  any tensors, sizes, heads, geometry and key widths. `DataPathAssumption` gives the types
  of the parameters. A column is known by its turn to be written (`Turn`), which
  determines it and is determined by it; where the regions lie apart neither the mapping
  nor the key wraps around, so a key determines its column too (`KeysDistinct`). The
  invariant (`PathInv`): every column whose turn has come is stored at its key, since no
  later one has that key; and the output is the *beginning* of the golden model's, of as
  many positions as were executed. That each value is equal needs no induction over the
  sums: the scores and products that are summed are equal one by one.
* **EsefProofs, the system.** `SimulationStopsClean` (`StopsClean`), `RowsServe`
  (`RowsServeTheirRequest`), `StatisticsMatch` (`StatsMatchCommands`) and
  `SystemImplementsService` (`ImplementsService`), for any trace of tokens,
  number of channels, clock ratios and queue size. Nothing is assumed of the expansions:
  what the three theorems above say of one holds for all (`ExpansionsBehave`), and the
  system's invariant carries it over to every interleaving. Of the requests
  `RequestAssumption` says that the frontend sends tokens (`sparepim_trace.cpp:125`).
  None of the first three properties is inductive. The
  invariant says where a controller is in the program of its request: the queue is the
  rest of that program, unless the request is still to be expanded (`RestsOfExpansions`).
  So a bank has exactly the rows open that the part already handled left open, and none
  between two requests (`OpenRowsKnown`); the commands issued are those of the programs
  done and of the part handled, each once (`IssuesCounted`); and the frontend has sent
  the lines before its index and counts the requests done (`FrontendInv`), so that the
  exit test of the loop implies that every request is done, not only that enough
  callbacks came. Of the trace `TracesAssumption` asks that no request occurs twice in it:
  `tick()` makes a new `Request` of every line (`sparepim_trace.cpp:125`). For the
  refinement the same invariant is enough: a tick that expands a request is `Start`, one
  that handles the last operation is `Finish`, one in between that pops an operation is
  `Advance` when the rest of the program is in the next stage, an accepted `send` is
  `Arrive`, and everything else, the whole of the device included, is invisible.
* **GenericControllerProofs, the device.** `RefreshSafe`: under every controller that issues prerequisites when
  ready, no bank has two rows open, none opens during a refresh, and a refresh ends on
  closed banks only. `RequireAllBanksClosed` lets the *first* bank that is not closed
  decide for the rank, which alone would be wrong if an open bank could follow a
  refreshing one. The invariant therefore adds `RefreshingEnds`: a bank that refreshes
  has a refresh with an end in flight, and under such a refresh no bank of the rank is
  open; so if any bank is open the first that is not closed is open. A clock of the
  rank that outlasts the refresh keeps ACTs away until its end.
* **GenericControllerProofs, the controller.** `ControllerTypeCorrect`;
  `ControllerDrivesDevice`: the controller is one in the sense of `RefreshSafe`; hence `ControllerRefreshSafe`;
  and `ActiveRowsStayOpen`: a request in the active buffer finds its row open until its
  access is issued. A closing command has been compared with the active requests,
  wildcards included; a refresh is issued only when no bank of its rank is open; its
  end finds none open; an ACT meets a bank that is not open, so that no second request
  for the bank becomes active. `RequestsServedOnce`: the places a request can be in are
  disjoint sets (`Apart`: the requests held by the buffers, each in one slot; the reads
  on their way back; those done) whose union is what was accepted, and the statistics
  add up to the cardinality of those that have been given a command (`ServedInv`). A
  read answered from the write buffer never enters a buffer, so it never counts; a tick
  moves a read that departs and the request it serves independently of each other.
  `WritesStayInOrder`: a write that has become active is the oldest of its address
  (`Ordered`). FRFCFS could only break this by preferring a ready request, but two
  writes of one address are ready together, and none leaves the write buffer while an
  active one is ready; that the scheduler finds a first request at all is `BestFirst`.
  `RefreshesKeepUp` (`RefreshKeepsUp`), for every load, if the refresh period is long
  enough (`PeriodSuffices`): `RefreshLoad` is an access and a close-row request for each
  of `max_size` + 2 requests, a PREA and a refresh for each rank, each with the longest
  constraint after it, and the longest constraint of all once, since every command may
  have to wait for the ones before it. With buffers of 32 and four ranks the load is at
  most 57 % of the period of every DDR4 preset (28 % of the best), which
  `PresetsSuffice` has TLC evaluate. The
  invariant (`UpInv`) is a bound in time: while refreshes wait, the work that is left
  (`Work`: active requests, close-row requests, refreshes, ranks with a row open) and the
  longest wait do not exceed the cycles until the next refreshes become due. A tick either
  issues a command, which takes more off the work than it adds to the waits (`WorkDone`),
  or some command is kept back (`IdleWaits`) and the wait gets shorter. That no ACT comes in
  between, because nothing but active requests passes the priority buffer, is what makes
  the number of rows to close fall; and the close-row requests are few because each comes
  from an access (`FewInTheWay`), although the buffer has room for 1568.
* **SimpleO3Proofs.** `TypesHold`, `AnswersComeOnce` (`MissesAnswered`), `StoresAreKept`
  (`StoresReachMemory`), for any number of cores, any cache, latency, widths, traces,
  translation and order of the memory's answers. Neither property is inductive. That no
  waiter is lost needs the other end of the chain: an address with an MSHR has *exactly
  one* read, in the miss list or in the memory, no other address has one
  (`ReadEach`), and waiters only wait at addresses with an MSHR (`WaitersHoldMshr`); then
  the read that is answered is the one the waiters wait for. `NoneLost` holds until a hit is
  answered after its line was missed again (`overtaken`), which the run
  `hit_after_eviction` shows to be a real case. `SetsOK` ties a set to the MSHRs of its
  lines, both ways, so that an eviction never takes a line on its way; `StoresKept` follows
  a dirty line through move, eviction and write-back. The memory takes due misses in their
  order and never more than it has room for (`TakenFacts`, by counting those before one),
  and what stays in the list keeps its order (`RemainingMisses`).
* **RowHammerProofs**, the plugins. `TrackersInvariant`, `NothingEscapes`,
  `RefreshInTime`, for Graphene, TWiCe, OracleRH and RFMManager. What escapes no plugin is not inductive:
  Graphene's rows outside the table are known only through the spillover counter, which
  must be at most every entry; TWiCe forgets a row whose count is small for its age, so
  the invariant adds up what was forgotten, by the refreshes that have passed; RFMManager
  keeps a number per bank that bounds all its rows. The invariant says, plugin by plugin,
  what an entry covers; both properties follow from it.
  `HydraCounts` (`HydraInTime`) and `CountersPlaced` (`CountersKeepTheirPlace`), for any
  geometry, group size, cache and thresholds of Hydra. The invariant (`HydraOK`) ties the
  four tables together: a group that is opened has counted up to the threshold and all its
  rows are in the row table; an entry of the cache is the number of *the* row its rank,
  set and tag stand for (`TagFacts`: no other row has them), so that a hit and a miss count
  the same; a row is covered by its group before and by its own counter after `Opening`.
  Its hypotheses are `HydraAssumption`: groups and sets divide the rows, counters fill
  lines. With counters of 24 bits, which a threshold above 65536 asks for, they do not
  (`hydra.cpp:163-177`), and the last counters would lie behind the rows reserved for them.
* **RowHammerProofs, PRAC.** `RecoveriesPaired` (`RecoveryPaired`), for any geometry and
  timings: the buffer of the recovery is always a *rest* of the one recovery (`Rest`), and
  which rest goes with the state (`PracShape`): none outside a recovery, all refreshes
  until it begins, as many as the machine still waits for while it lasts.
  `CountsBounded` (`CountersBounded`), if the time from an alert to its recovery is enough
  for an activation and the delay after a recovery is no longer than the threshold; in the
  delay nothing is alerted, so that a longer one would let a row reach its length. The
  bound itself says nothing of when a row was activated. The invariant (`CountWithin`)
  weighs activations against time: three times the count, plus the ticks left to the
  recovery, less what the row's bank still needs before the next ACT (`Waits`), stays
  below the limit; and in a recovery the rows of a bank with a count are at most the
  refreshes left to its rank (`RefreshesOf`, `RefreshTurn`), since each takes the most
  activated one. The defaults (180 ns, a delay of 4, a threshold of 512) are within the
  hypotheses.
* **RowHammerProofs, BlockHammer.** `HotOnesBlacklisted` (`HotRowsBlacklisted`), for any
  number of filters and any hash functions. That the tested filter covers a row's window is
  not inductive, since the next epoch tests another one: the invariant (`Covers`) says of
  *every* filter that each counter of a row covers its activations of as many epochs as the
  filter is old (`Age`); an epoch that ends makes all of them one older and the cleared one
  new. A counter that two hash functions of a row share grows by two. `ActivationsHeldBack`
  (`HeldBack`), if at least one activation is allowed (`bf_hist_max_freq`, 1 by default):
  of a row that no older entry has taken off the history's counter is at least the number
  of activations it remembers (`Remembers`). A threshold that no 16-bit counter reaches is
  left out (`BlockHammerAssumption`): the code does not check it, and would blacklist
  nothing.
* **RowHammerProofs, RRS and AQUA.** `HotRowsAreMoved` (`HotRowsMove`) and `RowsAreFound`
  (`DataFollowsRows`), for any geometry, tracker, table, quarantine area, threshold and
  period. A row is moved whenever its count is a *multiple* of the threshold, so what
  covers the activations of a place is its entry modulo the threshold, and the spillover
  counter for a place without one (`HrtCover`); a row admitted at the spillover counter
  plus one is never admitted past a multiple. Where data lies needs the shape of the
  tables. RRS (`Twinned`): the entries are pairs, each of which holds the other's data, so
  that a swap back sends both home and a row drawn from outside the table is at home. AQUA
  (`Parked`): a place of the area is free or holds the row its pointer names, and only
  those rows are in the table, so that the one evicted from the head and the one that
  follows it never meet. The proof uses nothing of the requests on their way but that they
  are for places of the bank: when they were translated, and what has moved since, does
  not matter. Both invariants end at the moves named in `Misleads`, which the proof shows
  to be the only ones that break them: RRS moving a row twice in a period, AQUA moving a
  place of its area without a pointer or, from the place it has left, a row that is in the
  table. The hypotheses are `SwapAssumption`, that no request is for a row of the
  quarantine area, which the translation reserves (`aqua.cpp:332`).

* **DevicesProofs.** `RowsAreRestored` (`RowRestored`), `BurstsStayApart` (`BurstsApart`),
  `RefreshesAlone` (`RefreshAlone`), `StepsNotRepeated` (`NoStepTwice`), `StatisticsAddUp`
  (`BooksBalance`), for any number of banks, rows and commands. What they take from a
  device are two assumptions on its record, which TLC evaluates for every preset:
  `CatalogueAssumption`, that the tables fit together (every command has a scope and an
  effect, every request leads to a command of its kind), and `TablesAssumption`, that the
  table of constraints has *somewhere* on the path of two commands a gap long enough
  (`SpacesBursts`, `RestoresRows`, `SpacesRefreshes`). So depth and geometry of the run no
  longer matter, and a new preset only needs its tables looked at. The step from tables to
  histories is not pairwise for refreshes: no constraint keeps an access, or the PRE
  before it, away from a refresh of its bank, as it could not find its row open then
  (`NeedsRow`); nor one keeps the PREA on the way to a refresh away from the refresh
  before it. The invariant (`DeviceInv`) therefore relates the banks to the history: a
  bank is open exactly if a command that opened it has not been followed by one that
  closed it (`StillOpen`); a bank refreshes only while the end of its refresh is pending,
  and no two ends are over one bank (`EndsApart`); a refresh found no bank open
  (`RefreshesClosed`), and what came later to its banks came after it (`Reserved`). That
  `RequireAllBanksClosed` looks at the first bank that is not closed is enough for the
  reason given for DDR4 above (`RefreshReady`). For `NoStepTwice` the steps of a request
  have ranks (`StepRank`), which rise as long as only that request is served, because each
  step leaves its bank as the next one needs it (`Arrived`). The proofs use of `IssueTime`
  only that a command is not issued too early. `RefreshAlone` excepts the PRE of a row
  policy that finds its bank not open: no constraint holds it back, and neither does the
  state of the bank. For `BooksBalance` the tables must also keep books (`KeepsBooks`,
  part of `CatalogueAssumption`): a device that counts power counts every command that
  opens or closes a bank or begins a refresh, and puts down the end of every refresh. The
  sum itself is not inductive, as it is stated at the present cycle and a mode's cycles
  are only added when the mode ends. The invariant (`PowerInv`) says, rank by rank, that
  the activations less the precharges counted are the banks that are open, once the stray
  PREs are taken off, whatever is issued (`Counted`); and, until a stray PRE misleads the
  power functions (`Balanced`), that what is counted so far and the refreshes in full
  reach exactly to the cycle the present mode is counted from; that a refresh that is not
  over has its end pending (`Outstanding`), so that its cycles are neither counted twice
  nor lost; that a rank is in active mode exactly while a bank of it is open or refreshes
  a victim, and in refreshing mode while its own refresh is pending, when nothing but
  stray PREs is issued to it. The two kinds that mislead are those `Misleads` names: one
  that is taken for the PRE of the rank's one open bank, and one that ends the state of a
  bank a victim's refresh keeps busy. The proof shows that there is no third.

**Only model-checked**: liveness (`Terminates`, `ServesEveryRequest`,
`EveryRequestServed`, `EveryCoreFinishes`, `CriticalRowsRefreshed`,
`HeldRequestsServed`) and all else that depends on fairness, which TLAPS cannot
prove; what is assumed of the device tables, which are finite and checked in full; that
the address mappers are one to one, which is about sums over the bits of an address.
Every safety property of a passing run is proved.

## 5. Abstractions, and what is not modelled

* Addresses are paths, rows and columns as the address mapper yields them.
* HBM3's auto-precharge commands are in the table and the row actions, but no request
  uses them. DDR4's (RDA, WRA) are left out, as are those of the other devices: nothing
  in the controllers asks for them.
* Per-core, queue-length and latency statistics; logging; the rejected and completed
  counters of the SPARE-PIM controller.
* FP16 rounding, the random tensors and the tolerances of the comparison: the
  functional model computes over integers.
* `Devices`: the window of four ACTs (three banks never fill it), GDDR6 (states and
  prerequisites as DDR4's), the two halves of a pseudo channel pair. `BurstsApart` is
  per rank.
* `SimpleO3`: reading trace files, warm-up from serialized caches, statistics.
* `RowSwap`: the order of the buffers (any request on its way may activate next, and any
  number of times, as its row may be closed before the access), what requests read and
  write (they carry no data in the code), and the exit when the priority queue is full;
  `data` follows the moves in the order they are issued. `Prac`: the read and write
  buffers, of which the environment picks; BlockHammer's device timing and the time
  between an activation and the answer, when its MSHR is freed. Its controller, cache and
  cores are copies of the generic ones.
* PARA refreshes by the toss of a coin and keeps no state; `trr.cpp` is not compiled;
  BLISS only ranks cores. Observing plugins change nothing the controller reads. The
  memory trace frontends send an endless trace in order with retries, as the trace
  frontend does; the gem5 wrapper passes requests through. Configuration, factory,
  statistics and scripts have no behaviour over time.

Observed while reading, and not the subject of a run:

* *SPARE-PIM, HBM3.* A direct RD or WR goes to a closed bank, although RequireRowOpen is
  registered for it: `issue_if_ready` asks for no prerequisite
  (`sparepim_controller.cpp:638`, `HBM3.cpp:441`). ACT -> PREA and ACT -> REFab of a
  pseudo channel (`HBM3.cpp:373-376`) are never looked up: both commands have the scope
  channel and `check_ready` stops there (`node.h:216`). A token with no valid output
  skips ACC as well as SPM.
* *Generic controller.* A forwarded read "will depart at the next cycle"
  (`generic_dram_controller.cpp:137`), but pending reads leave in order, one per tick;
  they keep `arrive` at -1, which the latency statistic subtracts; `s_num_read_reqs`
  counts each refused send again; with nRFC = 1 the end of a refresh would be scheduled
  for a cycle that is over.
* *Processor.* A refetch can overtake a write-back the memory refused (`llc.cpp:28`).
  Pages can be shared though `random_translation.cpp:74` says otherwise, since
  `m_free_physical_pages` is never cleared.
* *Devices.* LPDDR5 looks up row 0 whatever the row (`LPDDR5.cpp:463, 485`), so accesses
  of other rows repeat ACTs and wrong rows count as hits, and it takes enum values for
  timings (407-418); its nRC is below nRAS. LPDDR5_32Gb and HBM_1Gb find no density.
  Read-to-write gaps between ranks come out short when nCL - nCWL > nCS. HBM and HBM2 copy
  nREFISB from tRFC, and all-bank refresh never reaches them, as they have no rank. The
  energy of DDR5's RFM is not counted. `RequireBankClosed` lets a PRE through to a closed
  bank (`preq.h:30-38`), and `Rank::PRE` goes by the number of open banks alone
  (`power.h:157`, with a TODO): a row policy's PRE that comes after a victim's refresh has
  closed its bank makes the rank idle while another bank is open, and its active cycles
  are counted again with the next PRE. Without the exception for `misled` ranks TLC finds
  `BooksBalance` violated.
* *Plugins.* A second swap of a row in RRS makes a cycle of four, which the table of pairs
  cannot hold (`rrs.cpp:276-283`). A place of AQUA's area that was evicted, or moved on to
  the head, may still be activated by requests translated before or by the migration's
  own; the lookup of its original row (`aqua.cpp:278-281`) then inserts row 0, and a later
  eviction writes over row 0. AQUA quarantines a row from the place it has left, if
  requests translated before still make that place hot: the row then has two places in the
  area (`aqua.cpp:292-297`). Without the exception for `misled` banks TLC finds
  `DataFollowsRows` violated by either: by the second in the run as it is, by the first
  after 12 activations, more than the run has. A request indirected before a move reads
  and writes the old place (`rit.cpp:66`). Rows are drawn up to NumRows inclusive. AQUA's
  quarantine head is shared by all banks. TWiCe ages the entries of all ranks, RFMManager
  clears the counters of all ranks but refreshes one. Graphene does not compare with the
  threshold when it inserts.
* *PRAC.* `==` at `prac.cpp:142`: with an alert window shorter than a cycle the machine
  never leaves its state; with zero recovery refreshes or zero delay acts counters of 32
  bits wrap. RFMs of RFMManager would count as those of a recovery. The result of
  enqueueing a recovery is not looked at.
* *BlockHammer.* Slots of the history are never cleared and timestamps never read, so that
  an old slot takes off a younger activation, and a row is activated sooner than "'max_freq'
  activations within 'size' ticks" (`blockhammer_util.h:123`): `HeldBack` excepts it.
  `m_saturate` is assigned to itself (line 33) and the counters can overflow. A history
  of size 0 passes the test `< 0` and is a divisor. The throttler divides clocks by
  nanoseconds and rotates a tick after the filters. A core whose quota has fallen to 0
  never gets an MSHR again, as only its own activations would raise it.

## 6. Plan

Done, in this order: device and timing, controller, memory system, frontend and loop,
expansion, mapping, functional path, generic controller and DDR4, and their proofs;
processor, cache and pages; the tables of the other devices; the counting plugins;
Hydra, RRS and AQUA with the address mappers; PRAC; BlockHammer; and the proofs about
these. What a next step would add:

1. A proof that the address mappers are one to one, bit by bit.
2. The processor on the generic controller in place of its abstract memory, with a
   refinement from the one to the other.
3. The other rows of LPDDR5's accesses, once its row lookup is settled; GDDR6.
