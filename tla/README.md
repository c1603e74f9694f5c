# Verification of the eMMC/SD driver

TLA+ models of the L4Re eMMC/SD driver in `server/src`, the TLC runs that check
them on small instances, and TLAPS proofs of what holds for all of them.

## The system

The driver is one server process. It discovers eMMC/SD host controllers on a
virtual bus, brings up the medium behind each of them, and offers it to
virtio-block clients through `libblock-device`, which is not part of this
repository. Apart from one initialization thread per device, everything runs in
the server loop, one thread.

| Part | State | Operations | Interacts with |
|---|---|---|---|
| Command queue (`cmd.h`, `Cmd_queue`) | 32 `Cmd` slots, cursors `_create`, `_working`, `_destruct`, flag `enqueued` per slot | `create`, `working`, `cmd_work_done`, `cmd_destruct` | every user of a `Cmd` |
| Command (`cmd.h`, `Cmd`) | status, command, flags, progress of a request (sector, blocks, callback) | `init*`, `reinit_inout_*`, `work_done`, `destruct` | device, driver |
| Device at runtime (`device-impl.h`) | the interrupt (who unmasks it, where), `_has_cmd23`, `_has_cache` | `inout_data`, `flush`, `handle_irq`, `receive_irq` | called by libblock-device and the server loop; calls the driver; calls back the client |
| SDHCI driver (`drv.h`, `drv_sdhci*.{h,cc}`) | controller registers, ADMA2 descriptor table, bounce buffer | `cmd_submit`, `cmd_wait_available`, `cmd_wait_*_finished`, `handle_irq`, clock, voltage, tuning | controller by MMIO, device by `Cmd` |
| SDHI driver (`drv_sdhi.{h,cc}`) | the same for Renesas SDHI, SDMA only, three interrupt sources | the same | the same |
| Bounce buffer (`drv.{h,cc}`) | its place and size | `setup_bounce_buffer`, `dma_accessible`, the copies in `cmd_submit` and `cmd_fetch_response` | controller, device (`max_size`) |
| Power-up (`device-impl.h`: `start_device_scan`, `power_up_sd`, `power_up_mmc`, `mmc_set_timing`, `exec_mmc_switch`) | relative address, bus width, timing, EXT_CSD | initialization thread | driver, then server loop |
| DMA mapping (`device-impl.h`, `dma_map*`, `dma_unmap*`) | two maps and reference counts (work-around CD-202) | map, unmap | libblock-device, DMA space |
| Scan and service (`main.cc`, `factory.*`) | `devices_in_scan`, registered devices and clients | discovery, `device_scan_finished` | libblock-device, initialization threads |
| Register access, layouts, clock generator, output (`mmio.*`, `mmc.*`, `cpg.*`, `util.*`, `debug.h`, `iomem.h`, `queue.h`) | none the rest depends on | | |

What is hard here, and therefore what the properties are about:

- Commands of several owners share one queue, one controller and one interrupt.
  The interrupt handler takes `Cmd_queue::working()` for the command whose
  interrupt it is; nothing else connects the two.
- The interrupt is level-triggered and masked at delivery. Three places unmask
  it. The interrupt status register is cleared when the *next* command is sent.
- A request is a chain of commands, each submitted by the interrupt handler of
  the one before, with CMD23 before or CMD12 behind a transfer, depending on
  controller and card; any of them can fail.
- Callbacks run before the request is retired, and may issue requests.
- `flush()` runs commands synchronously in the middle of all this, with a
  time-out of 100 ms, after which its interrupt may still come.
- `cmd_submit()` and the queue throw; who catches, and what is left behind.
- A card comes up by dozens of commands, each of which can fail or be refused;
  the mode of the bus is set on both sides, one after the other, and given up
  half way when a step fails.
- The SDHI handler does the data phase in the interrupt of the response, and
  waits for the bus inside it.
- The memory of a request may be beyond the reach of the controller, block by
  block.

`PROJECT.json` lists these hazards at their lines with the properties that
cover them, or the reason why none does.

## Modules

| Module | Models |
|---|---|
| `CmdRing` | `Cmd_queue` as operators on a record of three cursors and the flags |
| `CmdQueue` | the queue as a state machine: any order of create, work_done, destruct its callers can produce |
| `CmdFifo` | abstract: a bounded first-in first-out queue |
| `BlockLists` | the sums of block lists, shared by the two below |
| `InoutCmd` | `Cmd` and the functions of `Device` that choose the next command of a request |
| `DmaDesc` | the ADMA2 descriptor table and the bounce buffer as operators on block lists; the sizes `Device` admits |
| `InoutSequence` | one request against a card, command by command, with the memory and the sectors it moves; composes `InoutCmd` and `DmaDesc` |
| `SdhciHost` | controller, card and interrupt line; `Sdhci`'s submission, waiting and interrupt handling |
| `BlockDevice` | abstract: what `inout_data()` promises libblock-device; `SafeSpec` is the promise without its liveness |
| `EmmcDevice` | `Device` at runtime, composing `CmdRing`, `InoutCmd` and `SdhciHost` |
| `DmaMap` | the DMA mapping cache of `Device` for a disk and its partitions |
| `Scan` | discovery, initialization threads, hand-over to the server loop, registration of the service |
| `HostModes` | the bus side of the controllers: clock, timing, width, voltage, tuning, as operators on a record of their registers |
| `CardInit` | what the initialization of a card works on, and its beginning up to the probing; extends `HostModes` |
| `SdPowerUp`, `MmcPowerUp` | `power_up_sd()` and `power_up_mmc()`, extending `CardInit` |
| `PowerUp` | the whole initialization of one card, and what must hold at its end |
| `SdhiHost` | the SDHI driver with its controller, card and interrupt |
| `MC...` | the instances TLC checks |
| `CmdRingLemmas`, `CmdQueueProofs`, `InoutSequenceProofs`, `EmmcDeviceProofs`, `DmaMapProofs`, `ScanProofs`, `PowerUpProofs`, `SdhiHostProofs` | theorems |

`EmmcDevice` composes `CmdRing`, `InoutCmd` and `SdhciHost`. `DmaMap` and `Scan`
stand beside it: mapping happens before and after a request without looking at
it, and the scan ends, for each device, where `EmmcDevice` begins: the interrupt
bound to the server, the queue empty (`HandedOverClean`). `PowerUp` is the step
`PowerUp` of a thread of `Scan` in detail: it ends in "up" or "failed".

### How state and actions correspond to the code

`CmdQueue`: `ring` is the queue; `retiring` is the slot between the `work_done()`
and the `destruct()` that every caller makes in a row; `fault` records a throw of
the queue's internal checks. `work_done()` out of turn throws and changes
nothing, so it is a disabled action here and an event of its own in `EmmcDevice`,
where it matters who catches it.

`InoutSequence`: `c` is the `Cmd` of the request; each action is the end of one
command at the card followed by the whole of `handle_irq_inout()`
(`HandleIrqInout`). A block is its number of sectors, the argument of a data
command its sector. `count`, `streaming` and `moved` are the card's side. `place`
says where in memory the blocks are; `mem` and `disk` hold a sector number at
each address and sector that has the data of that sector, and 0 elsewhere, so
that `DataArrives` can ask whether each sector came from or went to its own
place. A data command first copies blocks into the bounce buffer (`CopyIn`), the
controller then walks what the descriptors say (`Moves`), and after a read the
blocks are copied out (`CopyOut`). `SubmitThrows` is an exception of the
preparation: "thrown" out of `inout_data()`, "lost" below `handle_irq()`, where
nobody answers the request.

`EmmcDevice`: `q` and `cmds` are the queue; `srv` is where the server thread is,
because three of its operations can be interrupted by the world: the polling of
`cmd_wait_available()`, the callback to the client, and `receive_irq()` in
`flush()`. Between two such points a handler is one action:

| Action | Code |
|---|---|
| `InoutData`, `Submit`, `SubmitFailsInout` | `inout_data()` up to the polling; the rest of it; its exception handler |
| `InoutDataOversized` | `inout_data()` with a block beyond `max_size()` |
| `HandleIrqMessage` | `handle_irq()` with `Sdhci::handle_irq()`, `handle_irq_inout()` and its helpers, up to the polling of the next command or the callback |
| `CallbackReturns` | the rest of `handle_irq_inout()` |
| `SubmitFailsIrq` | the exception handler of `handle_irq()`, for a submission that failed |
| `HandleIrqThrows` | the same handler, for a line reset that takes longer than `Util::poll()` waits |
| `Flush`, `FlushSubmit`, `FlushReceive`, `FlushTimeout` | `flush()`, `exec_mmc_switch()`, `cmd_exec()`, `receive_irq()` |
| `HostNext` | what controller, card and kernel do by themselves |

`SdhciHost` keeps of the controller what the driver reads: the interrupt status
by the groups `handle_irq_cmd()` and `handle_irq_data()` tell apart, the two
inhibit bits, the R1 response, the signal enable bits. An error leaves its
inhibit bit set until the driver resets the line. The driver polls for the end of
the reset for 10 ms; when that is not enough, `Util::poll()` throws and the reset
ends later (`resets`, `LineResetEnds`). An R1b command keeps the data
line busy and ends with a transfer-complete of its own, expected or not. `moved`
is a history variable: whose data phase completed. So is `stranded` of
`EmmcDevice`: the requests whose `Cmd` an exception logged by `handle_irq()` has
left at the head of the queue.

Assumed of the outside, and visible as constants: a request is not issued again
before it was answered; `UnmappedWhen`, `OversizedWhen` and `FlushWhen` say when
a client may issue a request the controller cannot address, one beyond
`max_size()`, or a flush (`idle`: only with an empty queue); `IrqLate` whether an
interrupt can take longer than the time-out.

`DmaMap`: a region is a dataspace with an offset; `dsOffsMap` and `physMap` are
`_ds_offs_map` (its two levels flattened: an inner map is erased with its last
entry) and `_phys_map`. `held` is what clients have been answered. The DMA space
is external and does not count, which is the reason of the work-around: one unmap
releases the mapping at an address.

| Action | Code |
|---|---|
| `DmaMapAll`, `DmaUnmapAll` | `dma_map()`, `dma_unmap()` with `_dma_map_all`, which leave the cache alone |
| `DmaMapCached`, `DmaMapNew`, `DmaMapCut` | `dma_map_single()`: found in the cache; mapped; mapped too short, an error |
| `DmaUnmapUnknown`, `DmaUnmapShared`, `DmaUnmapLast` | `dma_unmap_single()`: not found; still in use; last use |
| `SetDmaMapAll` | the choice when a client connects, before it maps anything |

The direction of a mapping is left out, as the code ignores it on a hit. `cut`
is a history variable: what the DMA space mapped too short stays mapped.

`Scan`: `server.pc` is where the server thread is, `thread[d]` the next step of
the initialization thread of a device.

| Action | Code |
|---|---|
| `ScanAlien`, `AddDisk`, `AddDiskThrows` | one round of `device_discovery()`, with `start_device_scan()` up to the thread; the exception of `reset_sdio()` |
| `DiscoveryEnds`, `DeviceScanFinished` | the end of the loop; `device_scan_finished()` |
| `BindIrq` ... `ThreadEnds` | the thread of `start_device_scan()`, power-up in one step |
| `RunErrand`, `JoinThread` | the errand up to `join()`, and from there |
| `Block`, `Wakeup`, `PartitionsRead` | the server loop; the message of the wakeup object; the answer of libblock-device |

libblock-device is external: an errand scheduled while the server waits is
looked at after the next message only, which is why the thread triggers a wakeup
object; the callback reads the partition table before it reports. Its containers
are taken to be safe against the threads that use them.

`PowerUp`: `stage` names the next command of the initialization thread, `phase`
the step within a SWITCH. One action is one command with the code up to the next
one; `mmc_app_cmd()` is one action, as the code looks at the result of the pair.

| Action | Code |
|---|---|
| `Start`, `GoIdle`, `IfCond` | the thread of `start_device_scan()` up to the probing |
| `Probe`, `SdIdle`, `SdOpCond`, `SdVoltage` | ACMD41, the voltage loop with CMD0, CMD8, ACMD41 and CMD11 |
| `SdIdentify`, `SdCheck` | CMD2 to ACMD13; CMD6 in check mode, with a card found at 1.8 V |
| `SdChoose`, `SdWidth`, `SdPower`, `SdMode`, `SdTune` | the loop over access modes |
| `MmcProbe` ... `MmcExtCsd` | CMD1, CMD0, CMD1 again, CMD2 to CMD8 |
| `Switch`, `SwitchStatusPoll` | `exec_mmc_switch()`, for the settings that stay and for each step of a mode |
| `ConfirmTiming`, `CheckTiming` | CMD13 and CMD8 of `mmc_set_timing()` |
| `MmcChoose`, `MmcTune` | the head of the loop over timings; CMD21 |
| `Fault` | any command fails, a time-out, or a card the driver does not handle: the thread catches an exception |

The card is external. What it is (modes, power limits, strobe, cache) is fixed;
its mode changes with the commands it accepts. It may refuse every switch and
may act on one whose answer is lost. It answers a command with data only if both
sides have the same width and the same data rate (`DataFits`), and it keeps its
signal voltage over CMD0. `fault` and `failed` are history variables: a command
has failed, and the modes whose attempt has.

`SdhiHost`: `reg.info` is SD_INFO, of which only the driver clears flags;
`server.info` is the copy the handler has read, as the code passes it by value.
The handler is two actions, because the write of CC_EXT_MODE polls for an idle
bus in between.

| Action | Code |
|---|---|
| `Submit` | `cmd_submit()`, by `cmd_exec()` or `cmd_queue_kick()` |
| `HandleIrq` | `Sdhi::handle_irq()`, or one round of `cmd_wait_*_finished()`, up to the poll or its end |
| `FinishData`, `PollTimeout` | the rest of `handle_irq_data()`; the exception of `Util::poll()` |
| `ReceiveTimeout` | the exception of `receive_irq()` |
| `Respond`, `BusyEnds`, `DmaEnds`, `DataEnds`, `DeliverIrq` | controller, card and kernel |

## Runs

Passing runs, with the bounds and why they are enough:

- `cmd_queue`: `Entries = 32` as in the code. Checks the ring against `CmdFifo`
  by refinement. (2016 states: every fill level at every position.)
- `inout_sequence`: all lists of up to three blocks, one of up to 8 sectors, two
  of up to 3, three of up to 2, for all drivers with one to three segments.
  Blocks of 0, 1 and more sectors are the cases the code tells apart; three make
  a first, a middle and a last one. The block count register holds 7
  (`MaxBlocks`), a descriptor 2 sectors (`MaxLength`), a page 4 descriptors, so
  that a block needs one or several descriptors, the last one full or not, and
  the table is full at its bound. Blocks lie below the limit of the DMA, beyond
  it, across it and right behind it, in order and out of order; without a bounce
  buffer only below, as the code does not look then. The bounce buffer holds as
  much as the controller moves at once, or more. (123,018 states.)
- `emmc_safety`: two requests on a ring for two, with every ADMA2 driver and
  card, that is every chain (one command; CMD23 and data; data and CMD12). One
  request is in flight, one waits, and a callback issues its request again, on
  a full ring, while the slot of the old one is still in use. `MaxPolls = 2`
  reaches the end of the polling loop and its repetition. Interrupts may be
  later than the time-out of `flush()`; requests may be oversized or fail on
  submission at any time, behind other requests too. Requests are only compared
  with each other, so permuting them is a symmetry. (1,654,878 states.)
- `emmc_fair`: refinement of `BlockDevice` and liveness, with the two chains of
  more than one command, with flushes, and with line resets that end in time or
  not; no failing submissions, and no symmetry, which liveness checking does not
  allow. Answers are promised where `handle_irq()` leaves no request stranded
  for good: `ImplementsBlockDevice` has its safety part for every run, and its
  liveness part under `<>[](stranded = {})`. `ServerReturns` is for every run.
- `dma_map`: three blocks, two regions of two dataspaces, which share memory or
  not, two block devices, two lengths. Three blocks give reference counts up to
  3, the first, a middle and the last unmap, or a block of the other region
  beside two. `MaxRefcnt = 4` is never reached without shared memory; with it,
  entries that nobody finds again are counted without end. Permuting blocks and
  block devices is a symmetry.
- `scan`: three devices, each of every medium (none the driver knows, usable,
  unusable, SDIO). Three are a first, a middle and a last one to report, with
  the discovery loop before, between and after them.
- `power_up`: a uSDHC with all capabilities and one without SDR104 and its
  tuning, a BCM2711, a plain SDHCI controller and an SDHI, with seven cards and
  three `--disable-mode` options for each kind. The cards have all modes, all
  but the fastest, and the slowest; an eMMC card with and without strobe. All
  loops that count attempts end after 2 (5 for CMD2, which the code does not
  share with others), so that each is left early and late. SD cards start at
  3.3 V and, after a restart of the driver, at 1.8 V.
- `sdhi`: no bounds: the state is one command and the registers. Commands with
  and without data, executed both ways, follow each other without end, so that
  each one meets what any other has left. (76,797 states.)

Deadlock is checked except where the system really may stop: `inout_sequence`
ends with its request, `scan` with the start of the service, `power_up` with the
card up or given up; in `emmc_safety`, after a flush timed out, a late command
error leaves the command inhibit bit set and the server polls for ever, and a
head nobody submits blocks the queue for good; the latter is also a state in
which `emmc_fair` may stop, after a line reset that took too long; in `sdhi`
the server may be stuck after a poll that timed out.

`CountMod` stands for 2^16, the count of CMD23. In `inout_sequence` it is one
more than `MaxBlocks`, as in the code, and a large bounce buffer lets a request
reach it.

Violations, each a real disagreement of the code with what it says:

- `flush_busy_queue`: `flush()` beside a request in flight throws out of its own
  exception handler, because its command is not the head of the queue.
- `scan_skips`: a device whose initialization fails never reports, and the
  service of all the others is never offered.
- `sd_refused`: `power_up_sd()` looks for a refused access mode in a copy of the
  answer to an earlier command, and takes a card that stays in SDR12 for one in
  the mode it wanted.
- `sdhi_error`: a data error that arrives while the handler waits for the bus is
  not seen, and the command ends with `Success`.

Known, and no property says otherwise (the hazards give the lines):

- `flush()` reports success when the card refused the switch, and, after 50
  polls, when the card is still flushing. `FlushReachesCard` covers that the
  card was told to.
- With ADMA2 a successful request reports 0 bytes, as only the SDMA path counts
  (`SdmaReportsMoved`).
- `Device::handle_irq()` only logs an exception. When a queued request fails on
  submission below it, its callback is not called, nobody submits the head, and a
  later failing request leaves `inout_data()` with an exception. The same happens
  to a request in flight when its command or its data fails and the reset of the
  line takes longer than the 10 ms of `Util::poll()` (`drv_sdhci-impl.h:309` and
  `:405`): its `Cmd` keeps the error at the head, it is never answered, nor is
  any request behind it. `HeadIsSubmitted` and the liveness part of
  `ImplementsBlockDevice` set these requests apart (`stranded`).
- A head stranded ready for submission can still reach its callback, by the late
  interrupt of a `flush()` that gave up. A request issued from that callback
  would send the head once more; `InoutData` leaves this out, and
  `HeadIsSubmitted` says that no other head is ready in its callback.
- Two dataspaces with the same memory: the first unmap drops the only entry of
  the address, the second finds nothing. The properties of `dma_map` are weaker
  for shared memory.
- A bounce buffer larger than what the block count register holds admits
  requests that are given up (`AdmittedFits`, `EventuallyAnswered`).
- After a failed tuning of DDR50 the card stays in it, and initialization ends
  although a slower mode is left. `FailsOnlyOnFault` counts the tuning as fault.
- With HS200 disabled and HS400 not, HS400 is used untuned; the timing of an
  eMMC card is not checked against the capabilities of the controller; only the
  uSDHC honours the strobe. The boards of `power_up` leave these out.
- The SDHI never acknowledges errors but the response timeout, so that they are
  blamed on later commands; it does not look at the errors of its DMA engine.

### Fairness

`FairSpec` assumes that the controller and the card end every phase they begin,
if need be with an error (they have time-outs of their own, which the driver
relies on, having none for transfers), that a reset of a line, once started,
ends, in the time the driver polls for it or after, that the kernel delivers an unmasked
interrupt, and that the server thread, which nothing preempts for good, goes on.
Weak fairness is enough: each of these stays possible until it happens. Nothing
is assumed of the client or of the time-out. In `InoutSequence` the fairness is
that a command ends. In `Scan` it is that the kernel schedules the server and the
threads, that a power-up ends, well or not (its commands time out), and that a
read of the partition table is answered, which is what `BlockDevice` promises and
`emmc_fair` checks. In `PowerUp` it is that the thread goes on: every command
ends, with a time-out if need be, and all its loops are bounded. In `SdhiHost` it
is the response of the controller (or its response timeout), the delivery of an
unmasked interrupt and the server's handler, each by weak fairness. The end of
the data phase is not assumed, and not concluded: the data timeout of the SDHI
raises no interrupt.

## Proofs

Each theorem is about every value of the constants its module's assumptions
allow. What they need beyond these assumptions is a hypothesis of the theorem.

Two things recur. Induction over the naturals is out of the provers' reach, so
whatever needs one is proved from the least counterexample: `LeastNat` (or
`WFMin`) gives the smallest number at which a statement fails, and the step from
the one before it is the contradiction. That is how the lemmas on sums, on
`FlattenSeq` and on least supported modes are proved. And the definitions they
are about are recursive functions or folds, never RECURSIVE operators.

### Command queue (`CmdRingLemmas`, `CmdQueueProofs`)

`CmdRingLemmas` has the operators of the ring: `create`, `work_done` and
`destruct` keep `RingOK` (flags and cursors agree, nothing half retired) and
cannot throw on a ring that is `RingOK`. The argument is arithmetic on the
distance between cursors modulo `Entries`.

`RingInv` = `TypeOK`, `FlagsMatchCursors`, `CursorsInOrder` and `NoFault` is
inductive. `NoFault` alone is not: that `create` meets no used slot follows from
the flags being those of the slots between two cursors, that `destruct` does not
overtake `working` from the cursor order. From it `TypeCorrect`, `NeverFaults`,
`FlagsAlwaysMatch`, `CursorsAlwaysOrdered`.

`RingIsFifo` is the refinement of `CmdFifo`: on a ring in `RingInv`, `create`
appends its slot to the sequence of slots between the cursors, `destruct` drops
the first one, and `work_done` changes none of them.

### The device at runtime (`EmmcDeviceProofs`)

The invariants are layers, each proved under the one before:

| Layer | Says | Gives |
|---|---|---|
| `DeviceInv` | the ring is sound, and wherever the server goes on with the head or its own slot, there is one | `RingAlwaysSound`, whatever the client does and whatever is thrown |
| `HeadInv` | only the head is in progress, and `flush()` works on the head | `HeadAlwaysInProgress` |
| `Typed` | the values of all variables | `DeviceTypeCorrect` |
| `ServerInv` | what the head is at each point of the server, what waits behind it, that somebody goes on with it or an exception has stranded it | `InterruptAlwaysArmed` |
| `Sent` | a head the server leaves although it is ready for submission is stranded | `HeadAlwaysSubmitted` |
| `Resets` | a line reset the driver gave up waiting for: nothing is at the CMD line, and the head of a data error is kicked by nobody | |
| `HwInv` | which interrupt status the controller has in each phase of the head, whether its data was moved | `CompletionAlwaysPending`, `AnswersAlwaysMatch` |
| `CardInv` | the transfer state and the write cache of the card for each command of the chain | `StopAlwaysFollows`, `FlushAlwaysReaches` |
| `PromiseInv`, `NoneReady` | what is outstanding is what the ring holds; where every request can be submitted, no ready head is left in the loop | `PromiseKept` |

`DeviceInv` and `Typed` need nothing of the client. The other layers need one
that flushes an idle device only (`FlushWhen # "any"`): a flush beside a request throws and is retired out of turn,
which `flush_busy_queue` shows. `PromiseKept` is the refinement of
`BlockDevice!SafeSpec`: every step accepts, answers in order of acceptance, or
stutters. It also needs `UnmappedWhen = "never"`, since a request that fails on
submission below `handle_irq()` is never answered, and `OversizedWhen # "any"`,
since an oversized block behind other requests is thrown out of its turn. A late
line reset it allows: the request it strands is outstanding and stays so, which
breaks no order. That `Sent` is inductive takes two facts besides: CMD12 gives its
`Cmd` the status of the transfer before it, which for a stranded head may be the
ready one (`StopOfStranded`), and `inout_data()` polls for its own request unless
the head is stranded (`SubmitsOwn`). `Resets` is what keeps a reset that ends late
from another command: until then the CMD line is inhibited, and a head with a data
error keeps the server from sending anything. The liveness of `BlockDevice` is
left to `emmc_fair`.

### One request (`InoutSequenceProofs`)

For any block list (with empty blocks anywhere behind the first), any driver and
any driver's DMA, any places in memory. `InoutSequenceAssumption` states what the
proofs take from outside: libblock-device begins a request with a block that it
uses, each block has a place in memory, and the block count register holds no
more than the argument of CMD23 (both have 16 bits).

`SequenceInv` says how far the request has come. `Progress`: the sector of the
`Cmd` is as many sectors behind the first one as the blocks before the block at
hand have. Then one of `AtCmd23`, `AtData`, `AtStop` holds, by the command that is
on its way: which count it has told, how much was moved before it, and whether
its failure is still to be reported (`status12`); or the request is `Answered`.
`CountLeft` ties the count the card still remembers to the data command at hand.
None of the four properties about commands is inductive without these: `moved`
and the count are the card's, and only `Progress` says the next argument is where
the last one ended. Hence `AlwaysMovesPrefix`, `SdmaAlwaysReportsMoved`,
`CountAlwaysMatches`, `StopAlwaysFollowsTransfer`.

`AdmittedAlwaysFits` bounds the descriptors of a table by the number of blocks
times those of the largest block (`DescCountGrows`), and the bounce buffer by the
sum of the largest blocks, for as many as `Admitted` allows (`SumsAtMost`). Its
hypothesis `DescriptorsSuffice` is arithmetic on the constants, and the code's
satisfy it: a descriptor reaches every address its DMA reaches (`_dma_limit` is
at most 4 GiB where the descriptors have 32 bits), and the table, rounded up to
pages, has room for the descriptors of the largest block in each segment. For one
segment of 65535 sectors, 64 in a descriptor, these are 1024, and 65535 / 64
rounded up to pages is 1024.
`MCInoutSequence` has it as an assumption, so that TLC evaluates it.

`DmaAlwaysInside` follows from `MemoryInv`: each block has its place (`Placed`)
and memory outside the request and the bounce buffer is untouched (`Untouched`).
The lemmas beneath it say what a part of a `FlattenSeq` is and at which position
(`FlattenLays`), and so what the controller walks: the parts of a table are
`Descs` of one block each, and what a descriptor of it moves lies inside that
block, or inside the part of the bounce buffer that is that block's.

`DataAlwaysArrives` needs more than where the controller goes: which sector it
finds at each step. `WalkedAt` says so for a table (a descriptor moves the
sectors of its block that the ones before it have not, `BlockWalk`), `StepAt` for
a command with ADMA2 or SDMA; `CopiesFacts` says where a copy to or from the
bounce buffer puts a sector. As no address is there twice (`DmaApart`), a `Put` at
one sector's address is not undone by another's. `DataInv` then has for the x-th
sector of block i (`InPlace`): once moved it is in memory and on the medium, and
until the answer it is where it came from. It is inductive only with
`SequenceInv`, which ties `moved` to the block at hand (`OrdinalAt`): a late block
copied out of the bounce buffer too early has not been moved yet, and a failing
read fills no memory but that of the command. The hypothesis `PlacesApart`, which
`MCInoutSequence` assumes as well, is that the client does not name the same
memory for two blocks and that the bounce buffer, the driver's own, is in none of
them; the code does not look at the former, and a read into the same memory twice
can only leave one of its sectors there.

### DMA mapping cache (`DmaMapProofs`)

`DmaInv` adds to the properties where they come from: an address leads to its
entry and back (`Back`, `Forth`), a block stays with the entry that answered it
(`Answers`), and the DMA space has what the cache has (`Space`). Only with these
is the reference count the number of blocks: the unmap knows the address alone.
All but `Back` need that no two regions share memory, which the properties state
as `Distinct`. Five theorems, for any blocks, regions and lengths.

### Start-up (`ScanProofs`)

`ScanInv` adds `Control`, which says where the errand and the thread of a device
can be at the same time; without it a device might report twice and the count
run past 0. The count itself is the cardinality of the devices that have not
reported. Four theorems, for any finite bus.

### Initialization (`PowerUpProofs`)

`PowerUpInv` says for each stage of the thread what controller, card and Device
have agreed on by then: the width, timing and voltage of both sides, the mode
that is being tried, which of its steps were made, and what was tried before.
In between, within a SWITCH or after a fault, the sides may differ; the invariant
says where, and that the card then does not come up or both are set again. From it
`TypeCorrect`, `Agree`, `WithinClock`, and, under hypotheses on the boards,

- `NoneSkipped` under `Hs400ThroughHs200`: no `--disable-mode` disables HS200
  without HS400. Otherwise HS400 is reached without its tuning (see the hazards).
- `TunedUp` under that and `StrobeHonoured`: a controller offers HS400 with strobe
  only if it uses the strobe, which of the drivers is the uSDHC.
- `FailsWithReason` under `SomeModeLeft`: the options leave an eMMC card a mode
  it can be used in.

`MCPowerUp` has the three as assumptions on the boards that `power_up` checks.

### SDHI (`SdhiHostProofs`)

`SdhiInv` adds to `TypeOK` and `InterruptArmed` where flags come from.
`FlagsAreOfResponse`: SD_INFO has a flag of a response only from the response of
the command at hand until it is handled, and the flag says what that response
was; `handle_irq_cmd()` acknowledges both flags whenever it ends the command
phase. `PollsAfterData`: the server waits for the bus at the end of a data phase
only. The two action properties follow from it by the lemma `CommandHandled`.
There are no constants.

### What is assumed, and what is only model-checked

The assumptions are those the modules state: `EntriesAssumption` (a ring of two
slots at least), `CountModAssumption`, `DmaDescAssumption`,
`InoutSequenceAssumption`, `DeviceAssumption`, `DmaMapAssumption`,
`ScanAssumption`, `CardInitAssumption`, `PowerUpAssumption` (distinguished values
distinct, blocks and devices finite, numbers positive, a card that takes 1.8 V
has a mode that needs it); and the hypotheses named above. TLC evaluates
all of them on the instances it checks.

Left to TLC: the liveness properties and the liveness part of
`ImplementsBlockDevice` (liveness under fairness and ENABLED are out of the
prover's reach).
`FlagsMatchCursors`, `CursorsInOrder`, `CountsUnreported` and the type invariants
of `CmdQueue`, `Scan`, `DmaMap` and `SdhiHost` are proved and no longer listed in
a run.

## Plan

What is left: SDMA at runtime, which is `SdhiHost` under the actions of
`EmmcDevice`.

## Not modelled

An interrupt of the SDHCI controller that reports a DMA interrupt without transfer
complete makes `handle_irq_data()` throw in ADMA2 mode
(`drv_sdhci-impl.h:351-372`): no ADMA2 descriptor of the driver asks for that
interrupt, so `SdhciHost` does not have it. An SDHI submission whose register
access polls for too long throws out of `cmd_submit()`; `SdhiHost` leaves its
command as it was. That the system refuses to unbind the interrupt of an
initialization thread, or to bind it again in its errand, throws outside the
`try` block of the thread (`device-impl.h:497-527`); `Scan` does not have it.

Register access, the clock generator, text output and time measurement are pure
I/O or formatting. Of the register layouts (`mmc.h`, `drv_sdhci.h`,
`drv_sdhi.h`) the fields that decide something are members of sets in the
models; how the others are laid out and printed is not modelled. `discard()`
returns an error. `queue.h` holds register numbers nobody uses. The Iproc and
BCM2711 move data by programmed I/O during initialization: `CardInit` has one
kind of command with data. Delays, the driver strength, the sizes of partitions
and the serial number of a card change nothing the models look at. Of the start,
the command line, the creation of drivers from their resources and the
connection of clients are left out. The MMC relative address is not modelled:
the code uses 0 for eMMC cards (see the hazards).
