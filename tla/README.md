# A TLA+ model of the PULPissimo SoC

PULPissimo is a microcontroller: one RISC-V core (the *fabric controller*, FC), an L2 memory of several banks
behind an interconnect, an autonomous I/O subsystem (the uDMA), an optional hardware accelerator (HWPE), timers,
GPIO, an event system, a debug module, and a boot ROM. The repository holds the SystemVerilog of all of it but
the cores, and the boot code in C. This directory models the parts whose behaviour over time is hard to test,
checks them with TLC and proves the most important facts with TLAPS.

Everything here is synchronous hardware (one TLA+ step is one clock edge, registers are variables, combinational
signals are operators) or software that runs against it (one step is one access). One module has two clocks, `Dmi`:
a step is an edge of either, or of both too close to tell which came first.

## 1. Inventory

| component | state | operations | what is hard, what makes it right |
|---|---|---|---|
| SoC event generator (`soc_event_generator.sv`, `soc_event_queue.sv`, `soc_event_arbiter.sv`) | a 2-bit counter per event, the arbiter's pointer, masks per bus, error bits, one-cycle software events, slow-clock synchroniser, timer selectors | an event arrives; a grant is taken; APB writes (event, masks, selectors); APB reads that clear errors | 169 queues share one offer, which up to three buses must take at once; the order of set and clear in the error registers; nothing lost below three occurrences, nothing starved, duplicates only where an event is shared |
| generic FIFO (`common_cells/src/deprecated/generic_fifo.sv`) | state, two pointers, registers | push, pop, both, in three states | pointer wrap and the two meanings of equal pointers; it is a queue |
| APB interrupt controller (`apb_interrupt_cntrl.sv`) | mask, pending and acknowledge registers, event FIFO, FIFO register | events set lines; the core acknowledges an id; nine ways to write registers | line 26 stands for a FIFO: pending bit, FIFO and FIFO register move in different cycles; the core answers late; software writes at the same time |
| event path (`soc_peripherals.sv`, `fc_subsystem.sv`) | none of its own | wiring | end-to-end: every enabled event is handled once |
| boot code (`boot_code.c`, `hal/itc/itc_v1.h`, `hal/rom/rom_v2.h`) | boot record in RAM, addresses and sizes of the sections, a block counter | choice of the boot mode, flash reads through the uDMA, polling for the event and the clock reference, placement of the record, section loading, jump | wait without lost wake-up, on the event of its own read; a DMA that writes whole words must spare the record and the neighbouring sections |
| uDMA core (`udma_tx_channels.sv`, `udma_rx_channels.sv`, `udma_ch_addrgen.sv`, `udma_arbiter.sv`, `udma_stream_unit.sv`) | per channel: pointer, bytes left, pending configuration; requests in flight | configure, enqueue next, clear, grant, response, non-aligned split | response belongs to the right channel; continuous mode without gap; stall of pipelined reads; end events exactly once |
| uDMA buffers (`io_tx_fifo.sv`, `io_generic_fifo.sv`, `io_tx_fifo_mark.sv`, `udma_dc_fifo.sv`) | pointers, elements, requests in flight | prefetch, response, drain, clear | a response always finds room; clear with responses under way |
| uDMA peripherals (UART, I2C, SPI, SDIO, I2S, camera, filter) | protocol state machines | shift, sample, command sequencing | end of transfer, stop conditions, back-pressure |
| L2 interconnect (`soc_interconnect.sv`, `contiguous_crossbar.sv`, `interleaved_crossbar.sv`, `tcdm_demux.sv`, `tcdm_error_slave.sv`) | round-robin pointers, requests in flight | request, grant, response a cycle later | responses return to the requester in order, over demultiplexers whose targets have different latency |
| bus bridges (`lint_2_apb.sv`, `lint_2_axi.sv`, `axi64_2_lint32_wrap.sv`, `apb2per.sv`) | small state machines | translate a transfer | a request is never dropped or answered twice |
| AXI library (`axi_demux.sv`, `axi_mux.sv`, `axi_isolate.sv`, ...) | id counters, locked grants, FIFOs | channels with independent handshakes | ordering per id, write data follows its address, isolation drains |
| common cells (`rr_arb_tree.sv`, `fifo_v3.sv`, `spill_register.sv`, `stream_fork.sv`, ...) | small | handshakes | fairness, locking, no loss |
| clock crossings (`cdc_2phase.sv`, `cdc_fifo_gray.sv`, `edge_propagator.sv`, `dc_token_ring.v`) | toggles, gray pointers, synchronisers | send, receive in two clock domains | any interleaving of two clocks, delayed bits |
| HWPE control and MAC engine (`hwpe_ctrl_slave.sv`, `mac_fsm.sv`) | two job contexts, running context, locks | acquire, program, trigger, finish, clear | several cores contend for contexts; a job runs with its own registers |
| debug access (`dmi_jtag_tap.sv`, `dmi_jtag.sv`, `dmi_cdc.sv`, the queue of answers in `dm_csrs.sv`) | TAP state, transport state machine, two crossings, answers | scan an access in, send it, answer it, capture the answer; reset of the TAP | two unrelated clocks and a debugger that scans without waiting: every access served once, its answer given to it, never stuck |
| debug module (`dm_csrs.sv`, `dm_mem.sv`, `dm_sba.sv`) | halt and resume flags, abstract command state, bus master | DMI reads and writes, hart handshakes | commands while busy, errors that stick, resume acknowledged once |
| timers, PWM (`timer_unit.sv`, `apb_adv_timer`) | counters, configuration | start, stop, compare, cascade | 64-bit cascade, one-shot, compare-clear |
| GPIO, SoC control, clocks, reset, RTC | register files, divider, calendar | register accesses | clock multiplexer without glitch, carry chains |
| pads, top levels, FPU, memories, test bench | - | - | wiring, arithmetic, stand-ins: no behaviour of interest here |

**How they interact.** A peripheral or the uDMA raises an event. The event generator queues it by id and offers
one id at a time, with one valid/ready pair per bus, to the FC, to a cluster outside the chip and back to the
peripherals (the uDMA starts transfers on events). The FC's bus ends in the FIFO of the interrupt controller;
while that holds a word, interrupt line 26 is pending. A queue overflow raises line 29. The core samples request
and id, later acknowledges the id, and its handler reads the FIFO register. The boot code does the same by
polling, with interrupts off: it starts a transfer of the uDMA, which moves data between memory and the FIFOs of
the peripherals and raises the event when the peripheral is done. A transmit channel asks for a word when its
peripheral's FIFO has room, an arbiter picks a channel, its address generator gives the address, and the word comes
back from whichever memory the demultiplexer chose for it. A debugger reaches the debug module
through the TAP, on the JTAG clock. Registers are reached over APB, the memory over the interconnect.

`PROJECT.json` lists the same components with their sources and status, and under `hazards` what can go wrong in
them, each at its line.

## 2. Modules

| module | models | built on |
|---|---|---|
| `RoundRobin` | definition of the rotating-priority grant, used wherever an arbiter of this kind is instantiated | |
| `PrefixArbiter` | the arbiter's parallel-prefix network, bit by bit, shown to compute `RoundRobin` | `RoundRobin` |
| `SocEventGenerator` | event generator, queues and arbiter: every register, every APB access | `RoundRobin` |
| `SocEventFairness` | the same with a history of grants: how long an event waits | `SocEventGenerator` |
| `SocEventErrors` | the same with a history of losses and of the slow clock's edges: what the error registers tell, and what becomes of an edge | `SocEventGenerator` |
| `SocEventFanout` | the same with a history of who took what and who was left out: one occurrence, several buses | `SocEventGenerator` |
| `SocEventBuses` | both observers on the same edges, with the fairness of the buses | `SocEventFairness`, `SocEventFanout` |
| `BoundedFifo` | abstract: a bounded queue with simultaneous put and take | |
| `GenericFifo` | `generic_fifo.sv`, implements `BoundedFifo` | |
| `ApbInterruptCntrl` | interrupt controller and the core's interrupt port | `GenericFifo` |
| `EventService` | abstract: every event accepted is handled once, three of a kind are always accepted | |
| `EventPath` | generator, controller and core wired together, implements `EventService` | instances of `SocEventGenerator`, `ApbInterruptCntrl` |
| `BootLoader` | the boot code in which a flash read and a wait for the clock are one call: boot modes, headers, placement, sections | |
| `BootCode` | the same with the waits access by access, on the interrupt controller; implements `BootLoader` | `BootLoader`, instance of `ApbInterruptCntrl` |
| `UdmaAddrgen` | a channel's address generator, as operators on a record of its registers | |
| `IoTxFifo` | a peripheral's transmit buffer with its count of words on their way, the same way | |
| `TcdmDemux` | the demultiplexer before targets of different latency, the same way | |
| `UdmaTx` | the transmit side of the uDMA with its channels, buffers and port: one edge of all of them | `RoundRobin`, `UdmaAddrgen`, `IoTxFifo`, `TcdmDemux` |
| `Cdc2Phase` | the two halves of the two-phase crossing, the same way | |
| `Dmi` | TAP, transport module, two crossings, queue of answers; up to a reset, implements `BoundedFifo` | `Cdc2Phase` |
| `MCBootCode`, `MCUdmaTx`, `MCDmi` | instances for TLC: images, channels and their jobs | |
| `SocEvent_proofs`, `PrefixArbiter_proofs`, `ApbInterruptCntrl_proofs` (with the FIFO's), `EventPath_proofs`, `BootLoader_proofs`, `BootCode_proofs`, `UdmaTx_proofs`, `Dmi_proofs` | theorems and proofs | TLAPS |

Each `.cfg` bears the name of its module, or of what it asks of it. Operators that no specification uses
(`ReadErrAll`, `EventReadyAll`, `ClearNone`, `GntAlways` and the like) are deliberately wrong versions of the operator
that follows them: each property has one that breaks it, named under `mutants` in `PROJECT.json`.

### Correspondence

*Event generator.* `count[e]` is `r_event_count` of queue `e`; the ids are laid out as in `s_events`: the
peripherals', those software raises, the slow clock's. Bit vectors are sets of their set bits, so `mask[d]` is the
set of events *disabled* for bus `d`, as in the code. `Clock(per, ready, slow)` is one edge with the given inputs:
`Queues`, `Arbiter`, `Synchronise` and one of the APB accesses happen together. `Granted` has one element or none.
The registers' process of the code assigns with `=`, in this order: errors of the cycle, reset of the software
events, the access. The model keeps the order: a read clears what the same edge has set, and returns the old value.

*Arbiter.* `soc_event_arbiter.sv` computes the grant with log2(n) levels of generate and propagate vectors;
`PrefixArbiter` has the same levels, indices and wrap, and the run compares it with `FirstFrom`, which
`SocEventGenerator` then uses.

*FIFO.* Pointers are numbers; an increment the code does not guard wraps at `PtrMod`, the range of a register of
`$clog2(DATA_DEPTH)` bits.

*Interrupt controller.* `int`, `ack`, `irqMask`, `fifoEvent` are the registers. A write is a record of register,
kind of write and data. `coreId` is the only state of the core: the id it sampled and has not acknowledged. The
core is external (the cores are fetched from elsewhere) and modelled by how `fc_subsystem.sv` connects it: it
may answer any number of cycles later, always with the id it sampled.

*Event path.* One clock. `raised` and `handled` are histories, so that the event service sees what goes in and what
comes out and cannot take a lost event for one that was never raised. `Hardware` is the edge of generator and
controller; the five actions of `PathNext` are what the core does in that cycle: nothing (software may raise an
event), sample, acknowledge and enter the handler, read the FIFO register, read the error registers. Handlers do not
nest, as the core enters them with interrupts disabled.

*Boot code.* `pc` is the place in `bootFromRom` and what it calls, `call` the place in `wait_soc_event` or
`wait_clock_ref`. The compiler's steps between two register accesses are one step; enable, poll, sleep, clear and
disable are one access, at one edge, each. Interrupts are off, so that the core takes none and `wfi` returns when an
enabled line is pending (`Wake`). Memory is a function of byte addresses: the word of the image it holds, a part of
the record, or unset. A block is read in whole words (`IterSize`), so that `Loaded` may write behind the section.
The uDMA and the flash are external: a read ends some time later and its event reaches the controller's FIFO then.
The JTAG register and the boot pad choose the mode at `Main`. `BootLoader` is the abstract module: there `waiting` says that a call has not
returned, and the call returns when the transfer is done.

*uDMA, transmit side.* Channels, buffers and demultiplexer are records of the registers of the modules they are
named after; `Edge` is one edge of all of them. The memories behind the demultiplexer are the identity, a byte's
content is its address, so that a word in the wrong place shows. They grant and answer when they like; the L2
memory answers the cycle after a grant, as split reads rely on, and only this target gets them. `todo[c]` is an
account of the words software has asked for and the channel still owes. SADDR, SIZE and CFG of a
channel are written at once by `Enqueue`, `Clear` and `EndContinuous`; when software does so is free. Each peripheral
has these registers and the buffer behind them, and the map names the UART's (`udma_uart_reg_if.sv`,
`udma_uart_top.sv`). The documented use is that a transfer is queued behind one that is not followed by another
yet, that EN and CLR are not written together, and that a channel with a queued transfer is not cleared. `Liberties` is what
software does beyond it: `Requeue`, `EnableAndClear`, `ClearQueued`. `todo` means something in the documented use only.
`InflightMod` is the range of `r_inflight`, which is twice the depth when that is a power of two and more otherwise.

*Debug access.* `s` and `t` are the halves of a crossing on the clock of the sender and of the receiver. `Tck` is an
edge of the JTAG clock, `Clk` one of the core clock, and in `Both` every line that changes is sampled as it was or as
it becomes, each on its own (metastability that has settled). The debugger is free: it takes any way through the
TAP's states at any time. `ShiftDr` stands for the states from ShiftDr to Exit2Dr, `IrScan` for those of the
instruction register and Test-Logic-Reset, after which any instruction may be selected. The word of an access is its
number, and a register of the debug module holds its address. `dmireset` may be in the shift register at any tick
while DTMCSR is selected, as `dmi_jtag.sv` looks at that register in every state of the TAP. `gap` is a history: a
scan has been refused since the error was last cleared.
`TestReset` is a pulse on `trst_ni`. The states `WaitWriteValid` and `ErrorBusy` are never entered in the code.

## 3. What the runs check

| run | instance | shows |
|---|---|---|
| `prefix` | 2 to 7 events | grant, any-grant and pointer are right for every request vector and pointer, at powers of two and between |
| `errors` | one software event and the slow clock's, in two error words; every APB access | registers in range; each rising edge of the slow clock is one event, none is missed or doubled; a loss stays visible until read, the race with the read excepted |
| `errors_lost` (violated) | a peripheral, a software and the slow clock's event, words of two bits | without the exception it does not |
| `buses` | 3 events, 2 buses that stall at will, masks rewritten | a waiting event is passed at most once by each other one and is served in the end; only an event offered to two buses at once can be taken twice, and none leaves its queue before all its buses took it |
| `irq` | FIFO of 2, lines 26 and 29, every write | the FIFO implements a bounded queue; its line, its words and the FIFO register stay together; an acknowledge clears the line the core took and no other |
| `irq_fifo_register` (violated) | the instance of `irq` | the FIFO register does not show the first word, as the datasheet says |
| `path` | 3 events, every choice of enabled ones, FIFO of 2 | generator, controller and core implement the event service, and every event is handled in the end unless overflows keep coming |
| `boot` | images of none to three sections, every size around word and block, at every distance; all boot modes | the boot code implements the loader: each wait ends, and on its own event; the record spares what is loaded, sections end up complete; power-up time, a clean controller at the entry point |
| `udma_tx` | documented use (`Liberties = {}`): a continuous channel of bytes on a slow target, a channel of 2-byte beats at odd addresses in L2, queued and cleared at will | one read at a time per port, every peripheral gets the bytes of its jobs in order, has room for each word on its way, and gets all of them |
| `udma_clear` (violated) | a clear while a transfer is queued | the pending flag survives it |
| `dmi` | 3 accesses, 1 reset of the TAP, a queue of 2 | no word changes while it is sampled; accesses are answered once and in order; a refused scan is reported and no access is made behind it; a read alone gets its own word; the transport module always returns to idle, reset or not |
| `dmi_answer` (violated) | 2 accesses, no reset, a queue of 2 | a read may take the answer of the write before it |

**Bounds.** Only the constants bound the runs; no guard is added. The counters have their real width (0 to 3), so
saturation and loss happen. With three events there is one granted, one waiting before it and one behind
it around the wrap; the widths of `prefix` include powers of two and others. `errors` has two error words, one bit
each, so that one word is read and the other is not. A FIFO of two words becomes empty, half full and full with its
pointers wrapped. Data of the mask writes are two values in `buses`, all enabled and none, for each bus on its own;
in `path` the masks are chosen once, from all sets of events, as drivers set them before they start a transfer. The
slow clock moves in `errors` only: elsewhere its event is one more queue. Two interrupt lines are the FIFO's and
one of higher priority.

`boot` has words of 2 bytes, blocks of 4 and a record of 6 in an L2 memory of 32, where the code has 4, 4096 and
the size of `boot_code_t`: sections are shorter than, equal to and longer than a word, a block and two blocks, and a
record fits before, between or behind them. The third section lies behind L2, where no rounding meets a record. Three
ticks of the reference clock stand for twenty. In `udma_tx` two channels contend for a queue of two reads and
buffers of two words, so that each of the three is the bottleneck in turn; the modulus of `r_inflight` is that of
its two bits. In `dmi` `Accesses` bounds what the debugger scans in: three fill both crossings and the queue; a second
reset finds nothing that the first one, which may come anywhere, does not.

**Fairness.** `buses`: weak fairness of an edge at which all buses are ready. HCLK does not stop; the uDMA's
ready is constant one (`udma_ctrl.sv`), the FC's is the room in a FIFO that is drained; for the
cluster's bus it is an assumption on what is outside. `path`: weak fairness of the clock and of the core's
steps: it takes a pending interrupt when no handler runs, and handlers return. No fairness is assumed of events.
`boot`: weak fairness of the core's
accesses, of the end of a transfer under way and of the edges of the reference clock. `udma_tx`: weak fairness of the
clock together with each memory's answer, each grant and each peripheral's taking of words; a peripheral that
never takes one stops its channel only, which is why it is assumed per channel. Software is free. `dmi`: both clocks
tick for ever, which for TCK is an assumption on the debugger; what it scans is free.
The slow clock stands still in `buses` and `path`, so the liveness properties leave its event out.
`EventuallyHandled` excepts executions in which the error line is served for ever: its number is higher, so a storm
of overflows of one event keeps line 26 from being served; without the exception TLC finds that execution.

## 4. What is proved

Every safety property that a passing run checks is also proved, for every value of the constants, under the
assumptions named in the modules. What a theorem assumes besides stands after its `ASSUME`: `PtrMod = Depth` for the
FIFO, `Addressable` for the sections in memory, and for three of the uDMA's theorems `Liberties = {}` (for one of them
also `SplitsAtL2`), explained below.

* `TypeCorrect`: the generator's registers keep their ranges. The step is one lemma per register.
* `BypassBounded`: `bypass[e] < EvntNum`. Not inductive; `BypassInv` is: while `e` waits, the grants given to others
  plus the positions still between the pointer and `e` stay below the number of events. An acknowledged grant
  of another event moves the pointer behind that event, which is nearer than `e`, so that the distance shrinks by at
  least what the counter grows (lemmas on `Distance` and `Successor`).
* `LossIsReported`: `dropped \ raced \subseteq err`, with the type invariant: an occurrence that changes no
  counter found it at its limit, which is when `err_o` is up.
* `EdgesCounted`: rising edges of the slow clock that no event has stood for yet are 0 or 1. `EdgesInv` says where they
  are: between the first two registers of the synchroniser or between its last two, and never at both places.
* `OneHotPriority`, `NetworkGrantsFirst`, `NetworkSeesRequests`: the arbiter's prefix network computes `FirstFrom` for
  every width, pointer and request vector, not only powers of two. The levels are a recursive
  function, so what level `k` holds (which positions a carry spans) is an induction, stated in the form that needs
  no rule with an operator parameter: the set of levels it holds for has 0 and every successor (`Induction`).
* `FanoutCorrect`: an event that some bus holds and that is still queued was offered to two buses. The
  step looks at the granted event only: a taker leaves the event queued only when another bus it is valid for is
  not ready, and that bus makes it shared; both histories are dropped by the same acknowledge. It also says that no bus
  misses an occurrence: what leaves its queue does so when every bus it is offered to takes it.
* `BusesCorrect`: this and `BypassBounded` for `SocEventBuses`, whose edge is an edge of either observer.
* `FifoInvariant`, `FifoImplementsQueue`: type and `StateInv` are inductive together when `PtrMod = Depth`, and every
  edge maps to put, take, both or a stutter of `BoundedFifo` under `Contents`. The condition is what makes the
  unguarded increment of line 144 a wrap; other depths are not covered by the code (section 5).
* `PendingEvent`, `HandlerReadsOldest`: the FIFO's line is pending, or about to be taken, only with a word in
  the FIFO, unless software `spoiled` it; therefore the acknowledge moves the oldest word into the FIFO register.
  They use the FIFO's invariant and its refinement.
* `ControllerTypes`, `TakenLineGoes`: the controller's registers keep their ranges, and an edge without a register
  write clears the line the core takes and no other, whichever line has priority by then. Both from the same invariant.
* `PathServes`: generator, FIFO, controller and core implement `EventService`. What waits of an enabled event is the sum
  over three places: its queue, the FIFO, the handler on its way. Each lemma is the balance of one place (`QueuesMove`,
  `OccursAppend` and `OccursTail` for the FIFO, `HandlerBalance`), and the places meet in two equivalences: an enabled
  event is acknowledged by the generator exactly when the FIFO takes it (`OfferTaken`), and a word leaves the FIFO exactly
  when the core enters its handler (`FifoEdge`). `PathInv` adds to the controller's invariant, which is used through its own
  lemmas, that only enabled events are in the FIFO and that the core samples only when no handler runs: otherwise the
  FIFO register could be loaded twice before it is read. `spoiled` stays down, as the handlers write no
  register.
* `RecordPlaced`: the loader's record does not overlap any section in L2, extended to whole words. `Fit` moves the
  record past a section only when they overlap; with the sections sorted and apart, and everything aligned to words,
  a place behind the k-th section is never in an earlier one. That sorting is the tool chain's, and an assumption
  (`WellFormed`).
* `SectionsLoaded`: at the jump every section is in memory to its last byte, if every byte has an address
  (`Addressable`). `LoadInv` says that the sections before the index and the blocks before `block` are in place, and
  that the block of a finished request for L2 is there before the loader counts it. A block's last word reaches into
  later sections only, and what passes through the flash buffer stays in the record, which is apart (`RecordPlaced`).
* `BootImplementsLoader`: the boot code, access by access on the interrupt controller, implements the loader whose waits
  are one step. `BootInv` is the reason: interrupts are enabled only inside a wait, the FIFO holds one word from the
  end of a request until the wait for it clears the line, and none at any other time (`EventInv`), so that a wait never
  returns for an older event and never sleeps through its own. `BootRecordPlaced` and `BootSectionsLoaded` carry the
  loader's theorems over; `PowerUp` counts the edges of the reference clock (each round but the first has seen one of its
  own) and `Handover` says that the program starts with every interrupt disabled and no event left.
* `SingleRead`: a target owes an answer only when the demultiplexer waits for one of that target, for every number
  of channels and targets and whatever software writes.
* `RoomForWords`: whatever software writes, for every buffer and every place a request can be in (granted, queued,
  at a target, at the door), the buffer's count is the number of its requests, and contents and count together fit. `CreditInv` counts the
  places one by one; the step is an induction-free account of which place each request moves to.
* `PendingBehindRunning`: in the documented use, a pending transfer has a running
  one before it. `udma_clear` shows that the condition is needed.
* `NoWordLost`: what a channel still owes its peripheral (`todo[c]`) is the words on their way followed by what is left of
  the running and of the pending transfer. `AccountHolds` gives the number of words on their way, `Sent(c)`, by the places of
  `CreditInv`; its step follows one word through grant, split, answer and buffer. It assumes the documented use,
  `Liberties = {}`: a clear of a queued transfer makes the channel run it again (section 5).
* `WordsDelivered`: these words arrive in order and are the right ones. `OnWay` matches the account with the reads: the word
  at the door is the first, the read that is awaited the next, then those queued, each at its rank among its channel's reads.
  `WayInv` says which word the target owes, and that the second half of a split read follows the first and finds
  it kept. The theorem assumes also `SplitsAtL2`: a beat that lies in two words is asked of no target but L2. The code relies
  on it: `r_is_na` marks the cycle after the grant of the second half, not the answer to it, which is the same
  only for a target that answers in the next cycle. The run's instance meets it, with every beat of a channel split.
* `WordsAreStable`: a crossing's word does not change while the other clock may take it. The registers from the request
  toggle to the sender's view of the acknowledge are a path, and `OneChange` says that at most one of them differs
  from its predecessor. Every edge, and every sampling at coincident edges, keeps that; a capturing receiver is such a
  place, so that the sender's own view still says busy.
* `AnswersInOrder`: until the JTAG side is reset alone, every access scanned in is served once and the answers come back
  in order, for any number of accesses and any depth of the queue. What is due is the concatenation of the contents of
  four places (the access the transport module offers, the two crossings, the queue of answers), and an edge of either clock moves
  words from the end of one place to the next. `CrossingsInv`, from `WordsAreStable`, makes a crossing such a place.
* `ReadsAnswered`: a read whose answer is the only one due gets the word at the address it asked for. `LastInv` says that
  the answer a read waits for is the last of what is due; the one it takes is the first. With two due they differ:
  that is disagreement 4.
* `RefusalsReported`: while a refused scan has not been cleared the error is up (`GapInv`), and with the error up no scan is
  accepted. So what the debug module gets is a prefix of what the debugger scanned in, up to its next `dmireset`.

Only model-checked: the liveness properties (`EventuallyServed`, `EventuallyHandled`, `FlashBoots`, `WordsArrive`,
`TransportReturns`). They need fairness and `ENABLED`, which the prover does not reason about. The theorems are of
the specifications without fairness, and so hold of those with it, which only add conjuncts.

## 5. Disagreements found

Shown by runs:

1. *Overflow cleared unseen* (`errors_lost`). `soc_event_generator.sv:324-343` clears the error word being read
   after it has set this cycle's errors; the read returns the old value. An overflow at that edge leaves no
   error bit; the pulse on `err_event_o` says that there was one, not of which event.
2. *FIFO register* (`irq_fifo_register`). `apb_interrupt_cntrl.sv:212` loads the register when a word leaves the
   FIFO; the datasheet says it contains the first valid value. `wait_soc_event` in `boot_code.c` reads it before
   it acknowledges.
3. *Queued transfer cleared* (`udma_clear`). `udma_ch_addrgen.sv:166-175` stops the channel at a clear, but
   `proc_pending_en` (135-142) does not see it: `PENDING` stays up with nothing queued, and the next transfer runs twice.
4. *A read takes a write's answer* (`dmi_answer`). `dmi_jtag.sv:132-138` returns to idle when a write is sent, but
   `dm_csrs.sv` answers writes too. A read scanned in before that answer is back gives the debugger a word of zeros and
   no error; its own answer comes later, and is taken by the read that waits by then, or dropped when none does. A
   scan is longer than 40 ticks, so in the chip this takes a core clock some ten times slower than TCK, as when the
   FLL is bypassed; the model lets a scan be shorter.

Met while modelling, without a run:

* *Abstract commands.* The comment at `dm_csrs.sv:334-337` says that no command is started until `cmderr` is reset;
  line 350 looks at `cmdbusy` only, and the register of a second command is taken in the cycle before busy is up.
* *Errors of the transport module.* The bit of `dtmcs` that clears the error is looked at while it is being
  shifted, so that a scan which does not ask for it may clear an error too.
* *Reset of one side.* `trst_ni` resets the JTAG half of the crossings and not the other: a write under way may be
  made twice or lost. `dmi` states its order until the first such reset; nothing in the sources promises more.
* *Too many sections.* `getMemAreas` reads at most 16 areas but leaves `header.nbAreas` as it is, which the loops
  then use.
* *Stall of the uDMA's port.* `udma_tx_channels.sv:334` masks the channels' ready bits with the number of the channel,
  not with its bit; the buffers' credits make the stall unnecessary.
* *Size zero.* A transfer of size 0 moves one beat.

* *Spurious overflow.* `soc_event_queue.sv:29` raises the error for an event that arrives while the counter is 3 even
  when the same edge acknowledges the queue, and the event is kept. The datasheet says the queue overflowed.
* *FIFO depth.* `generic_fifo.sv:144` lacks the wrap test of its neighbours, so the module works only at powers of
  two, whereas its parameter check accepts every depth. The SoC instantiates it with four.
* *Registers.* The datasheet documents the upper timer selector's register at another offset than
  `soc_event_generator.sv:45`, and the enable bit of `archi/soc_eu/soc_eu_v2.h` does not exist in the code.

## 6. Not modelled

Reset of the core's domain during operation, test mode and clock gating; simulation races (the software-event
register is written with a blocking assignment; the model is the netlist's). Reads that change nothing.

*Boot:* the boot address register, clock gates, event masks of the boot path and the console; HyperFlash is
compiled out for this chip. *uDMA:* the receive side, the stream unit and the external channels (the SoC ties
their configuration), and the peripherals' protocols; the clear input of the buffers, which every peripheral ties to
zero. *Debug:* what the debug module does with an access is one operation that answers.

Everything else marked `not_modelled` in `PROJECT.json`, with its reason; the ones of interest are in the plan. By
lines of C the share modelled is small: this is a hardware repository, most of the C in it are generated
register headers (`archi/`) with no behaviour, and all the control there is in C is `boot_code.c` and the inline
functions it calls.

## 7. Plan

Done: event system, boot code, the uDMA's transmit side with its buffers and demultiplexer, the two-phase
crossing with the debug access over it. What remains, in this order:

1. uDMA: the receive side and the stream unit; abstract: each channel a queue of its own.
2. Debug module: abstract commands and the halt/resume handshake; system bus access.
3. Interconnect: `RrArbTree` (fair and locked), `Lint2Apb`, `Lint2Axi`.
4. HWPE control: contexts, locks and jobs; `MacFsm` below it.
5. `CdcFifoGray`, implementing `BoundedFifo`; `EdgePropagator`.
6. Timers, RTC calendar, I2C and UART state machines.
7. AXI demultiplexer and isolation.
