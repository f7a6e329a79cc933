# TLA+ models of nssoc

nssoc is a radiation-tolerant system on a chip written in Verilog: an Ibex
RISC-V core, a system fabric with memories and peripherals, a spiking-neuron
accelerator (the "pilot"), and around all of it the machinery that detects,
corrects, counts and escalates upsets. Around the RTL stands a body of Python:
golden models, generators, fault campaigns, a monitor of cloud runs, release
and layout tools, whose answers the documents of the project cite. This
directory models the parts of both whose correctness is hard to see, checks the
models with TLC on small instances, and proves with TLAPS, for every value of the
parameters, the safety of the RTL, of the fault campaigns and of the cloud
monitor.

Three kinds of model are used.

* **RTL.** One step is one rising clock edge. What the RTL computes
  combinationally is an operator over the state before the edge and the inputs
  of the cycle, named as the wire is named; what it registers is a variable.
  Upsets are steps of their own between two edges.
* **Programs with a history**: the cloud monitor, whose executions are cut,
  killed and resumed, and the fault campaigns, whose workers finish in any
  order. State machines, one action per step of the program that another actor
  can come between.
* **Programs without one.** A pure operator from input to output, named as the
  function is, and a property of the whole program over every input of a
  bounded set. For TLC each input is one initial state.

A definition marked *Variant* is a plausible bug of the definition below it. No
specification uses one; each shows that a property is able to fail.

## Inventory

| Component | State | Operations | Interacts with | What makes it correct |
|---|---|---|---|---|
| AER FIFO `hw/rtl/aer_fifo.v` | two triplicated pointers, storage, parity, two valid rails, drop counter | write, read, clear, upset | pilot's input and output queues | ports show a queue; upsets masked or reported |
| TMR voter, banks `tmr_voter.v`, `soc_tmr_bank.v` | replica registers | reload from the vote | every hardened block | no accumulation |
| System bus `hw/soc/rtl/soc_bus.v` | counters, locks, ownership queues, request register | arbitrate, grant, route answers | both core ports, six slaves | every answer to its master, fairness, complete clock enable |
| Memory ports `soc_mem.v`, `soc_mem_sram.v` | response shift register | read, write | bus | answer order |
| ECC memory `soc_mem_ecc.v` | codewords, response register, scrub pointer, tick, strobe | read, write, scrub | bus, scrub controller | a memory without upsets; a scrub never undoes a write |
| APB bridge `soc_apb_bridge.v` | three-state machine, time-out counter | transfer, time out | bus, peripherals | one answer per request |
| Watchdog `soc_wdog.v` | protected word (triplicated), counter, prescaler, budget | count, kick, escalate | core (NMI), reset, external pin | no disarm, warning before reset, hang ends in reset, evidence survives |
| Boot block `soc_boot.v` | attempt counter, first-crash record, strap | sample, count, record across resets | watchdog, ROM | evidence survives resets |
| Reset and top `soc_top.v` | reset synchronisers | assert at once, release after two edges | all | release order |
| Scrub and status counters `soc_scrub.v`, `soc_busstat.v` | control register, saturating counters | count, clear | ECC memories, bus | an event is not lost to a clear |
| CLINT `soc_clint.v`, timers `soc_gptimer.v` | 64-bit time, compare, wrap flags | half-word writes, tick | core interrupts | carry, wrap against clear |
| Register file wrapper `ibex_regfile_secded.v` | check bits, scrub port | correct, write back | core | one error corrected, two reported |
| Pilot `pilot_top.v` | event queues, triplicated configuration, dispatcher, output adapter | push, fetch, process, show ahead | pins, NPU wrapper | no event lost uncounted |
| Neuron core `lif_core.v` | membrane state, control machine | event, tick, clear, safe | dispatcher | equals the golden model |
| NPU wrapper and link `soc_npu.v`, `soc_npu_ser.v` | serial phases, frame bound | fixed-length frame, complete, expire | bus, pilot | one answer per request; only an upset makes the bound expire |
| Codes `secded_enc.v`, `secded_dec.v` | none | encode, decode | ECC memories | corrects one, detects two |
| GPIO, UART, QSPI, tables, pads | pin registers | pin input and output | APB | - |
| Golden models `sw/golden/` | potentials, refractory counts, fault counters | encode, decode, observe; event, tick, tiled layers | test vectors of the RTL | one corrected, two detected; tiles compute the wide layer |
| Generators `regmap/` | none | validate, generate headers, decoder, tables | RTL, firmware, golden model | an accepted map decodes without overlap; everything generated agrees |
| Cloud monitor `scripts/cloud_progress_monitor.py` | the published snapshot: rows, cursor, commit | load, select, discover, observe, checkpoint, publish | hosted runs, inventory, schedule | no claim that was not read, no row lost, no old run starved |
| RTL campaigns `hw/soc/fi/{campaign,npu_campaign,mem_campaign}.py`, site tables | plan, pool, records file | controls, draw, simulate, verify, classify, replay | simulator, records | a file is evidence; verdicts cohere; replay prints the same |
| Gate-level campaigns `hw/soc/fi/gl_*.py` | netlist, RTL-to-netlist map, plan, records | parse, map, attribute, replay, sweep | netlist, RTL records | the map is true; every record accounted for |
| Release tooling `gen_tt_submission.py`, `gen_public_mirror.py`, `artefact_digests.py` | trees, manifest | build, check, pin, shrink | hw/rtl, tracked files, run tree | settles, nothing held travels, no record dropped silently |
| Layout tools `floorplan.py`, `replica_placement.py`, `clkgate_check.py`, `vcd_activity.py`, `mkconfig.py`, `mktiming.py`, `mkvariant.py` | none | place, measure, compare, configure | config.json, DEF, dumps | what is written is legal; a difference is not missed |
| Repository checkers `spdx_check.py`, `check_claims.py` | the tree | check, apply | the tree, the paper | apply settles; a passing claim is true |
| Test benches, drawing and formatting scripts | - | - | - | - |

### What is hard here

* Two things in one clock: a push and a pop, an expiry and an acknowledge, a
  clear and a count, a kick and a deadline, a scrub and a write. Each is
  resolved by the order of an `if` chain that no test exercises in every
  combination.
* Upsets at any time, and upsets years apart that must not add up.
* Requests overlapping their answers: two masters, slaves of different
  latency, counters two bits wide.
* Resets that clear part of the system while another part must remember.
* Time-outs with a late answer behind them.
* An execution that ends anywhere and leaves its snapshot for the next, while
  what it observes moves on.
* Workers that finish in any order and a check that is made after the pool, in
  the worker or on consumption.
* A program run over the tree an earlier run of it left, or over one edited by
  hand since.

`PROJECT.json` lists each hazard at its line.

## Modules

| Module | Models |
|---|---|
| `EventQueue` | the abstract queue an event FIFO promises: accept or count, answer in order or report lost |
| `AerFifo` | `aer_fifo.v`, register by register, with the fault model of `formal/aer_fifo_props.v` |
| `SocBus` | `soc_bus.v`, both values of `REQ_REG`, between arbitrary masters and slaves |
| `ApbBridge` | `soc_apb_bridge.v` |
| `SocFabric` | `SocBus`, the memory port of `soc_mem.v` and `ApbBridge` composed |
| `SocWdog` | `soc_wdog.v` with `HARDEN = 1`, `WINDOW = 1`, under software that writes, hangs and is reset |
| `SocBoot` | `soc_boot.v` with `HARDEN = 1` |
| `SocRecovery` | `SocWdog`, `SocBoot` and the reset synchronisers of `soc_top.v` composed |
| `SafeMemory` | the abstract memory: every request answered in the next cycle, with the word last written or an error it owns up to |
| `SocMemEcc` | `soc_mem_ecc.v` with `HARDEN = 1`, `RDREG = 0`, its row port, its control register, upsets and the system reset |
| `CloudVerdict`, `CloudMonitor` | `cloud_progress_monitor.py`: what one run's metadata means; execution after execution over a moving world |
| `FiRecord`, `FiReport`, `FiCampaign` | the campaigns on the RTL: one simulation's verdict; sites and draws, records file and report; the campaign from control to file |
| `GlNetlist`, `GlMap`, `GlCampaign` | the gate-level tools: netlist, cones and attribution to blocks; the map from RTL bits to flip-flops and the plans over it; the campaigns |
| `GoldenModel` | `sw/golden/`: the (72, 64) code and its counters; the neuron core and tiled networks |
| `RegMap`, `MemMap` | `regmap/`: the two generators |
| `TtSubmission`, `PublicMirror`, `ArtefactDigests` | the release tooling |
| `Floorplan`, `ReplicaPlacement`, `ClkgateCheck`, `VcdActivity`, `FlowConfigs` | the layout tools: floorplan, measured distances, two dumps compared, activity of a dump, configurations of the layout runs |
| `RepoChecks` | the repository's checks of itself |
| `AerFifo_proofs`, `SocBus_proofs`, `SocFabric_proofs`, `SocMemEcc_proofs`, `SocWdog_proofs`, `SocRecovery_proofs`, `FiCampaign_proofs`, `CloudMonitor_proofs` | the theorems about each and their proofs; `FiCampaign_proofs` also those about `GlCampaign` |
| `MC*` | the instances TLC checks; `MCTools` takes the inputs of `MCRelease` (golden models, generators, release) and `MCPhysical` (layout, checkers); `SocBus` and `SocMemEcc` need no module, only a `.cfg` |

### AerFifo

`wr` and `rd` map each replica to the pointer value it decodes to; the
polarity and Gray-like transforms of the replica banks change only which stored
bits stand for that value. `Vote` is the bitwise majority of lines 293-294.
`Clock` takes the four inputs of a cycle; `Pointers`, `Store`, `Answer` and
`CountDrop` are the register groups of lines 316-331, 639-640, 585-647 and
648-652. `sent` records what the write port offered for a slot and `hit` what
has been struck since the last edge. The fault model is the source's: at most
one replica of a pointer and one valid rail between two edges, and an odd
number of bits of one stored entry during its life in the queue.

### SocBus, ApbBridge, SocFabric

Masters hold a request until it is granted (Ibex's protocol) and may then issue
another; an address is the slave it decodes to. Slaves in `SocBus` are
arbitrary: any subset of those presented may grant, any subset of those owing
an answer may answer. `pend`, `out` and `passed` are history: what each slave
really accepted, what each master was really granted, who was overtaken. In
`SocFabric` the slaves are the memory and the bridge, and `SlavesKeepContract`
says they satisfy what `SocBus` assumes. `FabricIsABus` draws the conclusion:
its steps are steps of `SocBus`, whose invariants carry over.

### SocWdog

`bank` is the triplicated word; `prot` its vote; `prot_n` the combinational
next word of lines 998-1064 with its override order (a stage 2 over a window
write, an acknowledge below a fault). The remaining registers are variables of
their own. `Run` is a clock with the core running and at most one keyed write,
`Wait` a clock with the core hung or in reset, `Hang` the moment it stops.
`pin`, `warned`, `struck` and `upsets` are history: the bootstrap pin at the
first edge, how the pending warning arose and the ticks since, and the upsets.

### SocBoot, SocRecovery

`boot_bank`, `boot_prot` and `boot_n` are to the boot block what `bank`, `prot`
and `prot_n` are to the watchdog. The system reset is an input of `Edge`, as it
is one of the block: its release is what the block counts. `SocRecovery` closes
the loop. The watchdog's request clears `rst_sync` at once, also when an upset
makes it, and each synchroniser releases two edges after its input; the
external pin is asynchronous, so either may be an edge ahead. The core writes a
register or takes a double fault only while it is out of reset and has not
hung. `low` is history: how long the system has been in reset.

An upset strikes a replica of either word, an unprotected register of the
watchdog, or the state `soc_boot.v:444-468` and `701-736` leave plain: a
synchroniser flop of a pin, the report, the epoch, the crash address or its
valid flag. The watchdog's own synchroniser of the pin and its hold-off are not
struck. `RecordsSurvive` therefore says two different things: the count of boots
and the sampled straps outlive any upset; the three plain records every reset,
and every upset but one of their own flops. `spoiled` is history: an upset hit
the very synchroniser flop whose `wdis` bit was about to be sampled, the one or
two clocks the source names as its residual. Only then may the two blocks hold
different values of the pin (`SamplesAgree`).

`GivesUpLast` is `soc_boot.v:368` ("software gives up after the hardware has
escalated, never before"): from the boot the loader takes for its last, the
watchdog's pin is asserted. It needs `ESCALATE < LIMIT`, which the shipped 2 and
3 satisfy; with the two equal the pin would still be high during the last
attempt. `LoopTerminates` is the other half: a program that hangs at every boot
ends over the limit, for good.

`CountersAgree` is what `boot.c:487` checks at every boot ("where they must
agree, a disagreement ..." `soc_boot.v:94`): one counter counts assertions, the
other releases. It needs `PRESCALE > 1` (`RecoveryAssumption`; the shipped value
is 16) and at most one upset: an upset that leaves `reload` at 0 brings a stage 1
in the first clock after the stretch, and if the next clock is a tick too, a
stage 2 resets a system that has not left the previous reset, one release for
two assertions. With that prescaler it takes a second upset, of `pre`; TLC finds
that behaviour at `MaxUpsets = 2`, so the theorem says `upsets <= 1`.
`ResetIsWhole` allows a reset to be one clock shorter than
the stretch: an upset of `in_reset_q` in its last clock takes that one away.

### SocMemEcc

A codeword is the value it was encoded from and the number of its bits that
differ from that encoding; the parity equations are summed up by what they
promise, and a third flip of one codeword is outside the fault model. `RowPort`
is the storage with the bus before the scrubber (473-496), `Response` the
answer's register, `Scrub` pointer, tick and strobe (391-436). `s_hit` is the
cycle that may write back: the one after a scrub read, if the bus leaves it
alone. The system reset clears the registers and leaves the storage.

The memory implements `SafeMemory` under a refinement that maps a codeword to
its value and the twice-struck bytes to `lost`: a step of the scrubber is a
stutter of `word`, so no scrub undoes a write and no uncorrectable byte is
encoded anew. Upsets reach the stored bits, the pointer and the strobe. Where a
struck pointer or strobe makes the scrubber examine a row it did not read, the
refinement fails, and so does a comment of the source (see below);
`ExamineStruck` keeps that case in a run of its own.

### CloudMonitor

`live` is the situation each observed run is in and `head` the commit of the
inventory: the world, which moves at any time. `phase` and `k` are the position
of the execution, `snap` the snapshot it has saved last, `published` what the
next one will load. A remote read answers, fails, or ends the execution (`Cut`:
the budget of requests, of time, or a signal); `Killed` is the runner ending the
job, after which what was saved last is still uploaded. `Artifact` is what a
later execution can tell of a published row.

`finished` is the `phase` the published document ends with (line 771). What a
snapshot claims depends on it: an execution that is killed while it observes
records no error, and a run it has not come to yet keeps the row taken over from
the previous snapshot. If that run has been restarted, its row is of an earlier
attempt, so a snapshot that is not finished and says
`OBSERVED_WITH_CACHED_HISTORY` may list an active run with old evidence, marked
`CACHED`. `ClaimsAreHonest` says so; a finished one is exact.

### FiCampaign, GlCampaign

A simulation is external: it prints any record of a set. The controls run in
order and any of them may refuse; the plan is simulated by a pool, results are
consumed in plan order, and the deposit is verified after the pool (core), in
the worker (NPU) or on consumption (memories and netlist). `file` is the records
file: the previous one, truncated, or the new one. The replay's sort is written as
what a stable sort does: the place of each row, equal ranks in the order they
came. `Linked` is the layout `link_soc.ld` gives a program, from which the memory
campaign computes its regions.

### Programs without a history

The properties are about the whole program, never about one of its lines: that
two outputs of one generator agree (`HeadersAgree`, `ClearsAgree`), that a
second run changes nothing (`SubmissionSettles`, `GenerationSettles`,
`MirrorSettles`), that what is accepted is legal for its consumer (`MapDecodes`,
`MapUnambiguous`), that two ways of computing one thing are one (`TiledIsWide`,
`BigMapAgrees`, `ConesAreReach`), that what a program reports is so (`MapIsTrue`,
`RecordKept`, `NothingHeldTravels`). Names, texts and files are the facts about
them that the program branches on; percentages, wording and drawing are left
out.

`gen_verilog` of `RegMap` walks the fields of the YAML, as `generate.py:185-190`
does, and not the Python tables, in which a later field of the same name has
replaced an earlier one. So the two outputs agree exactly if no register has two
fields of one name, which `validate` accepts as long as their bits are disjoint;
the inputs hold such maps, and `MapUnambiguous` says the equivalence.

## Runs

| Run | Question | Bounds |
|---|---|---|
| `aer_fifo` | does the FIFO implement the abstract queue whatever is struck? | 2 entries, 2 words, drop counter to 2, one pointer or rail struck per cycle |
| `soc_bus` | does any answer go astray, does anyone starve, does the clock gate lose an edge? | two slaves and the error slave, up to two requests in flight per master (the RTL's own bound) |
| `soc_fabric` | do the real slaves keep the contract, is every request served? | memory with and without read register, both request phases, time-out off and on |
| `soc_fabric_timeout` | do fetches survive a bus time-out? (they do not) | as above |
| `soc_wdog` | the escalation ladder under every sequence of writes, a hang anywhere and two upsets | one-bit counter, prescaler 2, two-clock reset, escalation at 2, one struck word, pin constant after the first edge |
| `soc_wdog_kick_warning` | is a rejected kick followed by a full timeout's warning? (it is not) | as `soc_wdog`, with a two-bit counter, more writes and no upsets |
| `soc_recovery` | do the records of both blocks stay right across the resets they describe, and does the loader give up after the hardware has escalated? | one-bit counter, prescaler 3, escalation at 2 and limit 3 as shipped, counts of resets and boots to 3, two crash addresses, one upset of any modelled flop, pins moving until they are sampled |
| `soc_mem` | is the protected memory a memory without upsets, is every upset repaired? | two words of two bytes, two values, three upsets, one system reset, interval 1; writes name one of the bytes |
| `soc_mem_pointer` | does an upset of the scrub pointer move the next read and nothing else? (it does not) | as `soc_mem`, two upsets, examine cycles struck as well |
| `cloud_monitor` | is a published snapshot honest, complete and fair to old runs, however executions end? | two runs, one that fails while observed and is restarted; two inventories; priority, quota and slice of one |
| `cloud_rotation` | does backfill reach every old run when one of them is unreadable? (it does not) | three pinned runs, one unreadable, quota one |
| `tools` | do the campaigns produce evidence under every order and failure; is every other program right on every small input? | pool of two, plans of one to three injections; the inputs of `MCTools`, `MCRelease`, `MCPhysical` |

`UpsetsMasked` of the FIFO is proved and in no run. Every property of a passing
run but the one type invariant of `aer_fifo` says more than a type; the type invariants of the other modules are conjuncts of
`Bookkeeping`, `DisarmedOnlyByPin`, `RepairsAreUpsets` and `ClaimsAreHonest`.

The bounds keep each boundary reachable. The FIFO fills, drains, wraps and
drops; all four requests can wait at one slave, so `q_fill` wraps; the bridge's
counter reaches its limit; the watchdog goes through expiry, rejected kick,
acknowledge, reset and escalation several times over; the recovery run reaches
saturation of both counts and the limit, and there software only kicks,
acknowledges and writes the boot block, the rest of its writes being in the runs
of `SocWdog`. Two upsets suffice for the question of accumulation: they are the
fewest that outvote a replica. Three upsets of a memory row are the fewest that
leave one byte uncorrectable beside a correctable one, the case in which a write
back of the whole row would encode garbage. In `cloud_monitor` two runs suffice
for one to be priority and the other history, and the second inventory takes a
run from a selector to a pin. The run that fails needs its third situation, the
restart: with one active situation per run, a cached row of an active run is
always of that situation, and an execution ended early looks more honest than
it is.

The set of inputs of a pure program is built around its decisions: the
project's own map, chip or tree, and those one or two values away from it on
either side of every comparison; for the small languages (calls on the counters,
claims, operations on the manifest) every sequence up to a length; for the code
every pattern of up to two flips and a sample of three.

Cuts, by name: `MaxUpsets`, `MaxResets` and `MaxStruck` bound the upsets and
resets; `Counts`, `Windows`, `Struck`, `Straps`, `Reports`, `Pcs`, `Intervals`
and `ByteEnables` the values; `Life` the observed runs' progress; `Draws`,
`Tries` and `Records` the campaigns. Nothing else is cut: clock-edge inputs are
finite.

### Fairness

* `SocFabric`: the clock does not stop and the reset is eventually released;
  where the wait is unbounded a selected peripheral eventually answers, which
  those in the tree do at once. Nothing is assumed of the masters or of software.
* `SocWdog`, `SocRecovery`: the clock does not stop while the core is silent,
  which is the condition under which a watchdog that counts that clock can act
  at all.
* `SocMemEcc`: the clock runs. A scrubber that is due again and again gets a
  cycle of the bus now and then, and so does one that is examining: the bus of
  a running program has idle cycles, and no program takes exactly the cycles
  after a scrub read for ever. Without the second, a row is read and never
  written back, which is the hazard of `soc_mem_ecc.v:410`.
* `CloudMonitor`: the schedule starts executions for ever and every read has a
  time-out, so none hangs; a run that is tried again and again and can be read
  is read at some time. `BackfillNotStarved` assumes in its own premise that the
  executions are in the end ones that carry the cursor over and reach one
  historical row.
* `MCTools`: a simulation ends at its cycle budget, so the pool makes progress.

### Four disagreements with comments and documents

* `soc_apb_bridge.v:63-66` promises that the time-out leaves a core able to
  report the error. The parked bridge never grants again, the arbiter may put a
  further APB request at the head, and fetches wait behind it for ever. The
  parameter is off by default; `EveryRequestServed` holds while it has not fired.
* `soc_wdog.v:297-301` promises a rejected kick the warning an expiry gets. The
  rejected kick does not reload the counter, so the warning is what is left of
  the period, down to one tick.
* `soc_mem_ecc.v:159-160` and `docs/67-memory-protection.md:1054` say that an
  upset of the scrub pointer moves where the next read lands and nothing else.
  Between the read of a row and its write-back it moves where the corrected
  bytes are written: over another row, as valid codewords.
* `docs/cloud-progress-monitor-bounded-observation.md:9` promises that the
  rotation does not starve backfill. A pinned run that cannot be read is never
  cached, is therefore eligible in every execution, and is visited last: the
  cursor is set behind it and the next execution starts at the same place.

Three smaller ones are without a run. `soc_mem_ecc.v`'s header counts the scrub
interval in idle cycles; the tick counts every cycle. `soc_wdog.v:400-405` says
that an upset of `in_reset_q` shortens a reset by nothing; in the last clock it
shortens it by one, the bound `ResetIsWhole` states. The third concerns a program:
`gl_coverage.py:307-315` iterates its vote so that the result does not depend on
the order of the file, and it still can: let X be fed by a block A and by Y, and Y
by a block B. X is placed in A if the file lists it before Y, and nowhere if
after. `MCTools` has such a netlist (`fb`, `fc` over `qa`, `qd`);
`AttributionSettled` therefore says that the votes are settled, not that they
are the only ones possible.

## Proofs

Eight modules hold the theorems; each argument rests on the named assumptions of
the module it is about and on nothing else. `GlCampaign` is used as an instance, so
its assumption is a definition, `GlAssumption`, a hypothesis of its theorem that
`MCTools` asserts of the run's instance.

| Theorem | States | For every |
|---|---|---|
| `AerFifo_proofs` `TypeCorrect`, `UpsetsDoNotAccumulate`, `PortsUndisturbed` | `TypeOK`, `MaskedState`, `UpsetsMasked` | power-of-two depth, set of words, counter width, number of upsets |
| `AerFifo_proofs` `FifoIsQueue` | refinement of `EventQueue` | the same |
| `SocBus_proofs` `BooksAgree`, `ResponsesReachTheirMaster`, `OvertakenAtMostOnce`, `GatingIsSafe` | `Bookkeeping`, `ResponsesRouted`, `BoundedOvertaking`, `GateSafe` | set of slave ports, slave and master behaviour, both request phases |
| `SocFabric_proofs` `BridgeAndMemoryKeepAccount`, `SlavesAreContractual` | `SlaveAccounting`, `SlavesKeepContract` | set of settings of `REQ_REG`, `RDREG`, `APB_TIMEOUT` |
| `SocFabric_proofs` `FabricIsABus`, `ShippedFabricIsRight` | refinement of `SocBus`; so its three invariants hold with the real slaves | the same |
| `SocMemEcc_proofs` `EveryRepairIsAnUpset` | `RepairsAreUpsets` | number of rows, set of lanes and values, upsets, resets, scrub interval |
| `SocMemEcc_proofs` `MemoryIsSafe`, `IdleCyclesKeepWords` | refinement of `SafeMemory`; `ScrubKeepsWords` | the same, if `~ExamineStruck` |
| `SocWdog_proofs` `PinAloneDisarms`, `ResetIsWarned`, `NextBootIsFresh`, `EvidenceIsKept`, `UpsetsAreOutvoted` | `DisarmedOnlyByPin`, `WarningBeforeReset`, `FreshBoot`, `EvidenceSurvives`, `UpsetNeverActs` | counter width, prescaler, reset length, escalation count, window, number of upsets |
| `SocRecovery_proofs` `BothSampleTheSame`, `EveryResetIsWhole`, `ResetRecordsAreKept` | `SamplesAgree`, `ResetIsWhole`, `RecordsSurvive` | the same, and widths and straps of the boot block |
| `SocRecovery_proofs` `GivesUpAfterHardware` | `GivesUpLast` | the same |
| `SocRecovery_proofs` `EveryBootIsCounted` | `CountersAgree` while `upsets <= 1` | the same |
| `SocRecovery_proofs` `PinAloneDisarmsAcrossResets` | `DisarmedOnlyByPin` of the composed system | the same |
| `FiCampaign_proofs` `RecordsAreVerified`, `VerdictsTellOneStory`, `ReplaysAgree` | `EvidenceVerified`, `VerdictsCoherent`, `ReplayAgrees` | site lists, memory regions, draws, workers, simulators and benches |
| `FiCampaign_proofs` `NetlistRecordsAreVerified` | `GlEvidence` | plans, flip-flops, workers and simulators |
| `FiCampaign_proofs` `RegionsFit` | `RegionsDisjoint`, exactly if there is `RoomLeft` | section sizes of a linked program |
| `CloudMonitor_proofs` `ClaimsHold`, `UnchangedHolds` | `ClaimsAreHonest`, `UnchangedIsUnchanged` | finite set of runs and what they go through, inventories, statuses, quota, slice, recency |
| `CloudMonitor_proofs` `EvidenceIsReal`, `HistoryIsPreserved` | `RowsAreEvidence`, `HistoryPreserved` | the same |

None of the properties is inductive as it stands but `Bookkeeping`. What each
argument adds, checked with TLC on the run's instance before it was proved:

* `AerFifo`: `IInv == TypeOK /\ MaskedState /\ Unstruck`. Two replicas agreeing
  does not exclude that the third already differs when the next upset falls.
  `Unstruck` adds that a pointer not struck since the last edge has three equal
  replicas, which the reload from the vote establishes and the fault model then
  spends. The refinement splits a clock into the nine cases of accepted, refused
  or absent write against answered, lost or absent read.
* `SocBus`: `Bookkeeping`, and for the fairness `Overtaken`: a master that was
  passed can still issue, and the grant that passed it left `last_was_d` in its
  favour. An edge is taken apart into one queue under a push and a pop, one
  master's counter and lock, and what an answer or a grant presupposes: above
  all that no slave is handed a fifth request, which follows from the target
  lock and the bound of two in flight.
* `SocFabric`: `SlaveAccounting` needs where requests come from (`Requests`: in
  reset none is presented, though the request path is not gated), and that a
  bridge whose bound fired stays in `ACCESS` (`Bridge`): without it the request
  it has answered with an error would be answered again. The refinement is then
  that what grants is presented and what answers holds something.
  `SocFabric_proofs` instantiates `SocBus_proofs`, so the four theorems about
  arbitrary slaves are used as they are, their assumption discharged from
  `FabricAssumption`.
* `SocMemEcc`: `RepairsAreUpsets` becomes an accounting (`Explained`): the repairs
  counted, the one under examination and the rows that still hold a flip are
  together never more than the upsets; the refinement needs `Examined`: the
  row in the read register is the row the scrub pointer names, as long as
  nothing writes it in between. `ExamineStruck` is the case in which it is not;
  the theorems exclude it, and the run `soc_mem_pointer` shows it is needed.
* `SocWdog`: the invariant has a part for each property and one for all. `Voted`:
  at most one replica differs, and only between an upset and the next edge.
  `PinOnItsWay` follows the pin's level through its two flops to the sample.
  `StageOne`: a pending warning is that of an armed watchdog out of reset.
  `FullPeriod` ties the ticks since the expiry to the counter; `Undone` keeps
  through the stretch what entering it has reset.
* `SocRecovery`: the watchdog's invariant is reused, and the composition adds the
  synchronisers (`Synced`: a watchdog reset holds the system's down, also when
  `in_reset_q` is struck), the two hold-offs in step (`InStep`), the length of
  the reset so far (`Stretched`), power-on, where the first release comes before
  the pin is sampled (`StartingUp`), the equality of the counts in every phase of
  a reset (`Counted`), and `QuietGap`: no stage 2 between the end of the stretch
  and the release it leads to. `Behind` is what remains of `Counted` under any
  number of upsets: the count of boots is never ahead of the count of resets,
  which with `ESCALATE < LIMIT` gives `GivesUpLast`.
* `FiCampaign`: `Results` says what the worker that returned a result verified of
  it, `Taken` what the loop that consumed it added, and `CleanFirst` that the
  clean run's control was passed before anything was planned: without it a
  golden record whose own self-checks had failed would make the program's
  complaint about a wrong inference look normal, and `VerdictsCoherent` false.
  `Row` is a function of variables that no longer change once rows exist, which
  is what makes the order of the workers irrelevant.

* `GlCampaign`: rows are of results taken, one of each that landed (`GlRows`), and
  nothing taken was left out but inside the gated domains. Sorting them is a
  bijection of their places, so none is lost and none comes twice.
* `CloudMonitor`: the parts follow the execution. `Beginning`: what the rows taken
  over have been read from. `Selection` and `Discovery`: which selectors and
  statuses are behind; as long as no error and no untracked run is recorded, every
  run that has been active since the start is in `active`, whatever page of whatever
  status it was listed on. `Observation`: the order holds every active run, and
  each one already passed was read, or an error is recorded. `Evidence` and `Claims`
  relate rows to the situations read and to the flags of the snapshot saved last,
  which is the one published if the next step is the runner's. That the order holds
  every active run rests on lemmas about ranks: the number of elements that come
  before one tells which one it is (`RankInjective`), so a list made by rank leaves
  nothing out (`InOrderLists`), nor does merging priority and history by slices
  (`OrderIsComplete`). The attempt showed that the claim as first stated, that the
  row of an active run is always of its present situation, was false: see
  `finished` above, and the restart the run now has.

`RegionsFit` says more than the run. The script's own assertion,
`__stack_bottom <= __stack_top` (`link_soc.ld:105`), accepts a program that leaves no
stack; the campaign's stack stratum then overlaps the PMP buffer, or its unused
stratum is empty. The theorem gives the exact condition; the workload of the
recorded campaign satisfies it (`docs/67-memory-protection.md:693`: 7,888 unused
words).

The plan of a campaign is a concatenation, and `FlattenSeq` is recursive. The
library's induction theorems take an operator, which no installed prover can
instantiate; induction is used here in a first-order form, `NatSetInduction` (a
set of naturals with 0 and every successor is `Nat`), proved from the
well-foundedness of `<`. `FlattenType` constructs the recursive function with it
and shows its values are sequences.

Assumptions on constants that the proofs added to what TLC needed:
`StruckAssumption` and `BootStruckAssumption`, that a struck replica decodes to
a word, which it does as its bits are a word's; in `MonitorAssumption`, that the
runs are finitely many and that `check_config` has accepted every inventory, the
bootstrap one included (lines 120-142 refuse a run pinned twice); in
`GlAssumption`, that a plan is a list and its ranks are numbers. Upsets strike at most one
replica of the protected words between two edges, in `SocRecovery` of the two
blocks together: the fault model of the source.

What stays with TLC. Liveness under fairness is out of the prover's reach:
`EveryRequestServed`, `HungCoreIsReset`, `EscalatesInTheEnd`, `LoopTerminates`,
the repair of every upset, `BackfillNotStarved` of the monitor and the progress of
the campaigns. So are the four violations. The pure programs (`NetlistSound`,
`MappingSound` but for the regions, `GoldenSound`, `ReleaseSound`, `PhysicalSound`)
compute with recursive operators and folds over their inputs; what those return is
checked on bounded inputs only.

## Not modelled

In the RTL: addresses, data and error flags of the fabric; the read ports of
the watchdog and the boot block; the configurations `HARDEN = 0` and
`WINDOW = 0`; the transforms of the replica banks; `RDREG = 1` of the protected
memory, and of `soc_scrub.v` everything but the control register (its counters,
stickies and addresses); `soc_busstat.v`, `soc_clint.v`, `soc_gptimer.v`, the
register file wrapper, the pilot and its neuron core, the NPU link, which the
plan has not reached; pads and pin-level peripherals; the clock gate cell
itself. `scrub.v`, `npu_regbank.v` and `soc_apb_wb.v` are instantiated by no top
level. The four hazards of `PROJECT.json` without a property are in these
blocks, and in the sequential part of `floorplan.py`.

In the programs: wording and layout of every report and generated file;
intervals and percentages; command-line parsing; processes, files and the
network, of which the outcomes the code tells apart are modelled; the cloud
monitor's sharded inventory document; scripts that only draw, format or call
external tools (`floorplan_map.py`, `clint_region.py`, `build_docs.py`, the
figures); the self-tests
(`check_cloud_progress_monitor.py`, the mutation scripts) and the copies of the
monitor kept as evidence under `docs/evidence/`.

## Plan

1. *Done*: FIFO, fabric, watchdog, boot block and recovery.
2. *Done*: the protected memory over its abstract specification.
3. *Done*: the cloud monitor; the campaigns; the golden models and generators;
   the release, layout and checking tools.
4. *Done*: the proofs of the RTL models, of the campaigns on the RTL and on the
   netlist, and of the cloud monitor.
5. `Clint` and `GpTimer`: atomicity of the half-word writes, wrap against clear.
6. `Pilot`: input queue, dispatcher and output adapter over `EventQueue` (whose
   refinement is proved), the neuron core's control machine against `GoldenModel`.
7. `NpuSer`: the link's frame and the bound on it under upsets; `RDREG = 1` and the scrub counters.
