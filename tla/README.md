# A verification project for the Intel IPU6 camera drivers

TLA+ modules, TLC configurations and TLAPS proofs about the out-of-tree
drivers in this repository: the IPU6 core driver (`ipu6/`), its input system
(`ipu6-isys/`), two sensor and deserialiser drivers (`ov13b10/`, `max9296/`)
and their board glue (`ipu6-acpi/`). Everything is translated from the C code
as it is; where the code and its own comments or assertions disagree, a run
shows the disagreement.

## 1. The system

    application  --V4L2 ioctls-->  video nodes (one per capture queue)
                                     |  videobuf2: buf_queue / start_streaming / stop_streaming
                                     v
      capture queues (ipu-isys-queue.c)  --- several nodes form one pipeline
                                     |
                                     v
      firmware stream protocol (ipu-isys-video.c)  OPEN, START, CAPTURE, FLUSH, CLOSE
                                     |  messages from a pool (ipu-isys.c)
                                     v
      syscom rings (ipu-fw-com.c)  <=====>  firmware on the ISYS cell
                                     ^
      interrupt handler (ipu-isys.c) |  responses -> completions, buffers, pool
      
      DMA (ipu-dma.c, ipu-mmu.c)   device addresses of everything above
      power (ipu-bus.c, ipu-buttress.c)   runtime PM, firmware boot and authentication

| component | state | operations | hard part | what makes it correct | module |
|---|---|---|---|---|---|
| syscom rings, `ipu6/ipu-fw-com.c` | read and write indexes in device memory, slots in shared memory | get/put on both sides | host and firmware move indexes independently; device loss | each ring is a FIFO of `queue_size` tokens | `FwCom`, `TokenFifo` |
| stream protocol, `ipu-isys-video.c`, `ipu-isys.c`, `ipu-fw-isys.c` | stream handles, `stream_opened`, message pool, five completions | start, capture, stop, close, `isys_isr_one` | time-outs with late answers; unwinding; unlocked reads in the interrupt handler | responses reach the right pipeline, commands are legal, counts and pool exact | `IsysStream` |
| capture queues, `ipu-isys-queue.c` | `incoming`, `active`, pipelines, `nr_streaming`, `in_stop_streaming` | QBUF, STREAMON, STREAMOFF, frame done | mutexes are dropped and retaken inside every ioctl; several error paths return buffers | each buffer in one place, frames in order, nothing stalls or hangs | `IsysQueue` |
| DMA and MMU, `ipu6/ipu-dma.c`, `ipu6/ipu-mmu.c` | address allocator, two-level page tables, TLB, `ready` | alloc, free, map_sg, unmap_sg, hw_init, cleanup | step-wise set-up with a failure at each step; a TLB that must be told | the device reaches a buffer's pages at its addresses and nobody else's | `IpuDma` |
| stream reset, `ipu_isys_reset` | `reset_needed`, `in_reset`, `in_stop_streaming`, `start_streaming`, `reset` | stop, power cycle and restart of other streams | runs against QBUF, STREAMON, STREAMOFF and release; waits that drop mutexes | streams come back, buffers survive, calls end | `IsysReset`; power cycle in `IsysPower` |
| buttress, `ipu6/ipu-buttress.c` | mailbox to the CSE with its interrupts and completions, power of cells, authentication, TSC, frequency constraints | ipc_reset, ipc_send_bulk, power, authenticate, tsc_read | resends against late answers; a reset in the middle of a wait; power of the device under a wait | a command gets its own answer, a reported success is one, the CSE reads mapped memory | `Buttress`, `IpuCore`; cells in `IsysPower` |
| power of the input system, `ipu-isys-video.c`, `ipu-fw-isys.c`, `ipu-isys.c`, `ipu-bus.c` | `video_opened`, `fwcom`, `power`, `reset_needed`, `flr_done`, runtime PM usage and status | open, release, suspend, resume, firmware boot and close, interrupt, PCI reset | callbacks run in other threads; a close that times out; interrupts while power goes | open files have a running firmware, its memory outlives it, no register access without power | `IsysPower` |
| core PCI driver, `ipu6/ipu.c`, `ipu-bus.c` | what a probe has acquired, usage count, `ipc_reinit`, `flr_done`, `secure_mode` | probe, remove, suspend, resume, runtime PM, reset_prepare, reset_done, debugfs | a failure at each of 18 steps; authentication from four callers | nothing stays held, a lost session is set up again | `IpuCore` |
| firmware image, `ipu6/ipu-cpd.c` | none | validation, package directory | | | not modelled |
| CSI-2 receiver, `ipu-isys-csi2.c`, `ipu6-isys-csi2.c`, PHYs | `stream_count`, PHY references, port clocks and configurations | s_stream on three versions of the hardware | counts that survive failures; a PHY shared by ports | who streams is received with its own settings | `Csi2`, `IsysCamera` |
| sub-devices and node formats, `ipu-isys-subdev.c`, `-csi2-be*.c`, `ipu-isys-video.c` | active formats and crops of the pads, format of the node | set_fmt, set_selection, S_FMT, link_validate | propagation; set between the comparison and the start | the firmware is told what the user was, the back end's source follows its sink | `IsysFormats`, `IsysCamera` |
| sensors, `ov13b10/` | mode, controls, registers, streaming, power | probe, remove, s_stream, controls, set_fmt, suspend, resume | any I2C write may fail; controls that depend on each other | the registers hold the settings | `OvSensor`, `IsysCamera` |
| deserialiser, `max9296/` | a fixed register sequence | s_stream | | | not modelled |
| board glue, `ipu6-acpi/`, `ov13b10/cio2-bridge.c` | tables | parsing | none concurrent | | not modelled |
| trace, `ipu-trace.c` | debugfs configuration | | none of its own | | not modelled |
| `ipu6/ipu-isys-*.c` | stale copies that no Makefile builds | | | | not modelled |

What is hard to test in this code, with the property that covers it or the
reason why none does, is listed under "hazards" in `PROJECT.json`.

## 2. Modules

| module | what it is | proved in |
|---|---|---|
| `TokenFifo` | what a syscom queue promises: a bounded FIFO | |
| `FwCom` | the rings, implementing two `TokenFifo`s | `FwComProofs` |
| `IsysStream` (`MCIsysStream`) | the firmware stream protocol with its firmware | `IsysStreamProofs` |
| `IsysQueue` (`MCIsysQueue`) | the video nodes of one source and their buffers | `IsysQueueProofs` |
| `IsysReset` | nodes of several sources through a stream reset | `IsysResetProofs` |
| `IpuDma` (`MCIpuDma`) | DMA operations, page tables, TLB | `IpuDmaProofs` |
| `IsysPower` | open and release of video nodes, runtime PM, firmware boot and shutdown, interrupts | `IsysPowerProofs` |
| `Buttress` | mailbox to the CSE, IPC reset, authentication | `IpuCoreProofs` |
| `IpuCore` (extends `Buttress`) | the driver on its PCI device | `IpuCoreProofs` |
| `OvSensor` | the image sensor | `IsysCameraProofs` |
| `Csi2` (extends `OvSensor`) | receivers and PHYs | `IsysCameraProofs` |
| `IsysFormats` (extends `Csi2`) | formats and crops from the receiver to the node | `IsysCameraProofs` |
| `IsysCamera` (extends `IsysFormats`, `MCIsysCamera`) | input system, sensors and their streams together | `IsysCameraProofs` |

Each module is parameterised by CONSTANTS with a named assumption; an `MC`
module adds nothing but symmetry sets and, for the cameras, the boards. Definitions whose comment begins with
"Mutant" are plausible bugs of a neighbouring definition; they are used to
confirm that each property can fail, and are part of no specification.

### FwCom

`wr` and `rd` are the `FW_COM_WR_REG` and `FW_COM_RD_REG` registers, `buf` the
shared slots, `dmem` says whether register reads make sense (after a device
loss they return all ones, which `is_index_valid()` refuses). A sender holds a
slot between `SendGetToken` and `SendPutToken`, the interrupt handler one
between `RecvGetToken` and `RecvPutToken`; the firmware may run in between.
`Credits` bounds how many unread tokens the callers let pile up.

### IsysStream

One control state per pipeline: the steps of `start_stream_firmware()` between
two waits, of `stop_streaming_firmware()`, of `close_streaming_firmware()` and
of the sensor start in `ipu_isys_video_set_streaming()`. A completion is a
member of `done[p]`. `IsrFetch` reads `pipes[]`, `IsrDispatch` uses what was
read: the code holds no lock between the two. Commands travel in order in
`toFw[h]`, responses of all handles in the one queue `fromFw`. The firmware is
external: it takes the commands of a handle in order, refuses those its stream
is not ready for and answers each, at any time.

### IsysQueue

Two threads per node, one for QBUF and one for STREAMON and STREAMOFF, as
videobuf2 allows when the queue has a lock of its own. `lock[q]` is held across
steps by a thread that works under the `av->mutex` of node q; within a step it
need only be free. `stream_mutex` is held in the states `start`, `await` and
`flush`. A pipeline lives in the node that was started first (`pipe`, `ip`).
`buffer_list_get`, `ipu_isys_buffer_list_queue`, `return_buffers` and
`flush_firmware_streamon_fail` are operators on `incoming`, `active` and the
buffer list `bl` of a thread. `older` records, of two buffers that the driver has of
a node, which one it was given first; `FifoOrder` only uses it. A start whose START is
refused or not acknowledged closes the stream (`StreamNotAcknowledged`), one whose
sensor fails only flushes it (`SensorFails`), a stop does both. When the firmware
hangs (`FwMayHang`) it keeps its frames through either, since the driver goes on
without an answer: `stray` are the buffers of such frames, which the driver gives
back all the same. A pin of theirs that comes late (`LateReady`) finds no pipeline for
its handle, or empty active lists.

### IsysReset

The same threads and lists as `IsysQueue`, for nodes that each are the whole of
their pipeline, so that a reset, which the thread that stopped a node runs with
that node's mutex held, has other pipelines to stop and start. `pc` and `on` say
where a thread is and with which node; the restart of a node runs the
actions of an ordinary start (`StreamStart`) in the thread of the reset. `in_reset`,
`in_stop_streaming` and `reset_needed` are `inReset`, `inStop` and `resetNeeded`;
`started` and `reset` are the nodes with `av->start_streaming` and `av->reset`.
Firmware and power are reduced to `fwUp`, the open streams and what they capture
into; `PowerDown` and `PowerUp` are the steps that `IsysPower` has in full. Lists
keep their order, which decides what a restarted stream captures into first.
`lost` records the nodes whose stream did not start again. A QBUF polls `in_reset`
(`QBufWaits`) and takes its mutex later (`QBufRelocks`): a reset may begin in between,
and the QBUF find its pipeline gone (`oops`, as in `IsysQueueNoPipe`). What a firmware
that answers neither FLUSH nor CLOSE still writes is followed in `IsysQueue` only.

### IpuDma

A client is a thread with one buffer. `iovad` is the address allocator, `l1`
and `pt` the two levels of the page tables, `tlb` what the device remembers,
`ready` the flag of the same name, `on` the power. Each list or loop step that
another thread can overtake is an action of its own. `lost` records what failed
`ipu_dma_map_sg()` calls leave behind.

### IsysPower

One control state per open file: the steps of `video_open()`, `video_release()`
and of the power cycle in `ipu_isys_reset()`, between which other threads run.
`ipu_fw_isys_init()` and `ipu_fw_isys_close()` are the same actions for all
callers; `why` says who goes on when they return. `pm` is the runtime PM status
together with the step of a callback, since the PM core runs callbacks in
threads of its own. `mem` are the firmware contexts that are allocated, `fwcom`
and `held` the pointers to them. The cell `sp`, its firmware, the PM core and PCI
resets are external.

### Buttress and IpuCore

A thread is in the step `at`; a call pushes where to come back on `callers` and
leaves its result in `rc`, so `ipu_buttress_authenticate()` and what it calls
are written once for probe, resume and debugfs. The mailbox is `door` (our
doorbell), `jobs` (what the CSE works on), `answer` (its doorbell) and `irq`; the
waits are the completions `sendDone` and `recvDone`; `setup` and `magic` are the
registers the driver polls after a command. A probe of `IpuCore` is the list
`ProbeSteps`; `held` is what it has acquired, and `Unwound` what each label gives
back. `gaveUp` records that the driver has repeated a command (`"resent"`) or an
authentication has `"failed"`, after which the CSE may work unobserved; `verdict` what
the last authentication reported, and `"void"` while one is under way that another
thread has reset without authenticating itself; `stale` that the hardware lost its IPC
session. The CSE, the PM core and PCI resets are external.

### OvSensor, Csi2, IsysFormats, IsysCamera

`OvSensor`: `ctrl` is what the user set, `reg` what reached the sensor, `dirty`
that a write failed or the code does not write at once. Each call holds the
driver's mutex and is one action.

`Csi2`: per port `streamCount`, `rx`, `clock`; per PHY references (`phyRef`),
whether it is up and which ports it was configured for. Three versions of the
hardware differ in what a start does. `stuck` marks ports whose PHY failed
to start: their `stream_count` was raised nevertheless (section 5).

`IsysFormats`: `pads` are the active formats of the receiver and its back end,
`node` the format of the video node, `told` what the firmware was told. Codes are
the four Bayer orders, which move with an odd crop, and one other. `touched`
records what was set late: pads after they were compared, or the node after the
firmware was told and before STREAMON returned. videobuf2 sets `vbq.streaming`, which
keeps S_FMT out, when STREAMON returns; until then av->mutex does, unless the node
belongs to another node's pipeline (`own` of its wire is FALSE): its start holds
that node's mutex instead, and S_FMT comes through (`QueueIdle`).

`IsysCamera` puts them together: probe and removal of the input system with a
failure at each step, the notifier, and per sensor the steps of
`ipu_isys_video_prepare_streaming()` and `ipu_isys_video_set_streaming()`, between
which users and the PM core act. The firmware's part is a step that works or
fails; its protocol is `IsysStream`.

## 3. Runs

| run | question | answer |
|---|---|---|
| `FwCom` | Are the rings FIFOs under every interleaving, at the wrap, when full, when the device goes? | yes |
| `IsysStreamFaults` | Do handles, counts, pool and command order survive late answers, refusals, bad frames and a lack of messages? | yes, but for `unclosed` (section 5) |
| `IsysStreamEnds` | Does each start and stop end, whatever fails and whatever the firmware does? | yes |
| `IsysQueue` | Do buffers come back in order, and is none left lying, with two threads per node? | yes |
| `IsysQueueFaults` | Do refused captures, and restarts while another node streams, keep each buffer in one place? | yes, but for those lost with a failed message allocation |
| `IsysQueueEnds` | Does STREAMOFF end, and does the firmware keep off returned buffers, when starts fail and flushes time out? | yes, but for what a firmware keeps that answers neither FLUSH nor CLOSE (section 5) |
| `IsysQueueNoPipe` | Does `buf_queue()` notice that its pipeline has gone? | no (ipu-isys-queue.c:573) |
| `IsysReset` | Do streams come back from a reset with their buffers, once each and in order, whatever is queued, started and stopped meanwhile, and does every call end? | yes, unless a restart fails or a start overlaps a reset (section 5) |
| `IsysPower` | Do open files have a running firmware, is its memory safe, does the interrupt handler have power, are counts exact, and does every call return, whatever fails? | yes, if interrupts end (section 5) |
| `IpuDma` | Does the device reach each buffer at its addresses and nothing else? | yes |
| `IpuCore` | Is a reported authentication real, made with the device awake and the image mapped; does an unbound driver hold nothing; is a lost IPC session set up again? | yes: the first however often a command is repeated, until one authentication has failed; the image until a command is repeated (section 5); and but for `Leaves` |
| `IsysCamera` | Do the sensor's registers hold the settings, is what streams received and its firmware told the node's format, are PHYs counted, does the back end's source follow its sink, are sensors linked to receivers that exist? | yes, with the exclusions of section 6 |

### Bounds, and why they are enough

* `FwCom`: three tokens per ring, so that indexes wrap with tokens on both
  sides of the wrap; two payloads tell order. The proofs cover every size.
* `IsysStream`: two pipelines on two handles (a handle is reused while old
  answers are under way), one frame and one pin each, three messages: two
  streams can capture, and one stream's captures can take the last message while
  the other is between OPEN and START. `PoolReserve` could keep messages for starts.
  `RespSize` 3 fills the response queue. `IsysStreamEnds` has one pipeline.
  `MaxFailedStarts` bounds how often a start fails between two firmware boots.
* `IsysQueue`: two nodes, two buffers each: one buffer of each node in the
  firmware and one behind it. With restarts, one node has one buffer and the
  other (`DeepNode`) two, so that filling the firmware can fail half way. Starts that
  fail and flushes that hang (3.9 million states) satisfy `BufferInOnePlace` there too
  and are not a run; `IsysQueueEnds` has them, and `OnePlace` (section 4).
  `MaxCount` bounds starts counted by a pipeline.
  `Restarts` says when the application starts a node again: when all have
  stopped, with nothing else going on, or at any time. `MsgRunsOut` lets a
  message allocation fail once before the buffers lost with it are back.
  `Abandoned` keeps nodes from starting while frames of a stream are under way
  that was given up without a CLOSE, or without an answer to it (`stray`): a start
  would meet them only with the same buffers queued again.
* `IsysReset`: two nodes, one that resets and one that is stopped and started
  again; `DeepNode` has two buffers, one in the firmware and one queued meanwhile,
  the other node one, since liveness costs most. Two nodes with two buffers each
  (460 thousand states) satisfy the invariants too and are not a run of their own; the
  theorems cover any number of nodes. A node that was `lost` is not started again, and starts of
  the application keep apart from resets (`MayStart`, `MayReset`): section 5 says what
  happens otherwise (`"startInReset"`). Nodes of the receiver and the raw back end are
  left out: ipu-isys-queue.c:987 and 1000 ask for a pipeline that streams with no
  queue streaming, so a reset never brings them back.
* `IpuDma`: two clients, buffers of one or two pages, tables of two entries, so
  that a buffer or its unwinding crosses a table; the aperture of three pages
  makes addresses be reused at once and run out. `MayLose` lets one
  `ipu_dma_map_sg()` call leave something behind.
* `IsysPower`: two files, so that one opens while the other closes, or resets
  while the other is open; two contexts, so that one can be left over while the
  next is made. `Faults` names what may go wrong. `"resetFails"` and
  `"resetInFlr"` stay out of the run, see section 5.

* `IpuCore`: two threads, as one more only repeats debugfs. One poll per IPC
  reset (`MaxPolls`) and two resets per probe (`MaxResets`) reach every exit of both
  loops. With one command at work (`MaxJobs`) and one in each doorbell, an answer
  can be late by one command. `MaxPhases` allows one sleep or reset of the PCI device
  per run, next to any number of probes; `MaxUsage` bounds the references to psys,
  those that failed authentications leak among them: two let one thread forget the
  authentication that another is about to conclude, which one hides. `"resetInAuth"`, a PCI reset in the middle of an
  authentication, stays out, see section 5.
* `IsysCamera`: seven boards on three versions of the hardware (`MCIsysCamera`): one
  sensor per way through the back ends and one behind a node of another's pipeline, and pairs that share a PHY, have one
  link frequency that is not in the table, or none. Pairs stream through
  the SOC back end, as the raw one does not start before its formats are set. `Activities` says what users do on
  which board. Sizes go to 3 (`MaxSize`), so that a crop may be even or odd and too
  large; modes 1, 3 and 4 raise and lower both limits of the exposure. `MaxCalls`
  bounds settings: four of them set a mode or format, a crop and the node and
  change one again. Two sensors are enough for the references of a PHY to count
  above one.

### Fairness

`IsysStreamEnds` assumes weak fairness of the host's own steps (`Proceed`): a
kernel thread that is not waiting runs on, and a wait with a time-out ends.
`IsysQueueEnds` assumes strong fairness of the steps of each thread that has
begun an ioctl: they wait for mutexes that are free again and again, and a
kernel mutex is handed over to its longest waiter. `IsysReset` assumes the
same, also of the flags `in_reset` and `in_stop_streaming`, which are polled. `IsysPower` assumes the same
of each call on a file and of the PM callbacks, and weak fairness of the
interrupt handler's return. None assumes anything of the sensor or the
application, nor of the firmware: every wait for it is bounded. One exception
comes with a bound of `IsysPower`: since a boot within a reset does not fail there,
it must come to its end.

## 4. Proofs

No run checks `TypeOK` of `FwCom` and `IsysPower`, nor `SlotIsFree` and
`HeldResponseStable` of `FwCom`: the proofs show them for every value of the
constants, and the latter two are needed for the refinement that the run checks.
The same goes for `RefusedOnlyWhenFull`.

`FwComProofs`, for every queue size, set of tokens and interleaving:

* `TypeCorrect`, `ResponseStable`, `RefusalsAreJust` and `ResponsesRefineFifo`
  need no assumption beyond those of the module.
* `SendSlotFree` and `CommandsRefineFifo` assume `CallersKeepBound`
  (`Credits <= QueueSize`). Without it they are false, see section 5.

The argument: `NumMessages` is the length of `Ring`, a put appends and a take
removes the head (`RingPut`, `RingTake`), and filling the slot at the write index
changes no token of the ring (`RingFill`). The inductive invariant `Inv` adds to
`SlotIsFree` that a slot which was filled holds a token (`FilledSlotHoldsToken`):
without it a put might publish something that is no token, and the step would
not be a `Put`.

`IsysStreamProofs`, for any number of pipelines, handles, messages, pins and failed
starts:

* `TypeCorrect` and `Routing` (`ResponsesAreRouted`): with every failure.
* `NoLeak` (`NoHandleLeak`) and `OpenedCounts` (`OpenedCountsSessions`), assuming
  `NothingAbandoned`: no sensor fails to start and no command is refused. Those two
  paths leave handles and counts behind in the code.
* `CommandsLegal` (`FirmwareCommandsLegal`), assuming `NothingAbandoned` and
  `OpenIsAnswered`, that is an OPEN does not time out.
* `FreeMessages` (`FreeMessagesUnused`) and `SubmittedOnce` (`CaptureSubmittedOnce`),
  assuming `OneUse`: `OpenIsAnswered`, one pin per stream, and no reset, which
  submits a frame twice when it comes between the two reads of `in_reset`.

Each of these hypotheses is a value of the constants that `IsysStreamFaults` has too,
and without each the property fails in the code (section 5). What remains free is every
other time-out, late answer, refusal and bad frame.

The argument: the same handle is never given to two pipelines since `FreeHandles` looks
at `pipes`, and every action that changes `pipes` or `handle` changes both for the same
pair (`RoutingInv`). While an OPEN or its answer is on the way, the pipeline that sent it
waits for it (`OpenInv`): a late OPEN_DONE could wake the next owner of the handle. Every
message is free, in one command, in one capture or response, or in the hands of an opener
(`MsgInv`). For legal commands the ring of a handle is read against the state of its
stream (`LegalInv`): each command in it follows the one before (`Orderly`), the last one
agrees with the state of the pipeline (`InPhase`), and an acknowledgement or completion
says that the commands it answers are gone (`Told`, `Acknowledged`, `Answers`, `Fetched`),
including the response that the interrupt handler has read and not yet dispatched.

`IsysPowerProofs`, for any finite number of files, any contexts and whichever of
the `Faults` can happen (`PowerAssumption`):

* `CountsExact`: `CountsMatchFiles`; `OneOwner`: `FirmwareHasOneOwner`.
* `NoContextLost`: `ContextsAccounted`; `MemorySafe`: `MemoryOutlivesFirmware`.
* `TypeCorrect`: `TypeOK`.
* `HandlerHasPower` (`IsrHasPower`) and `FirmwareRuns` (`OpenFilesHaveFirmware`), assuming
  `ResetsAreClean`: the callbacks that a stream reset ignores the results of work, and no
  PCI reset falls into it. `IsysPower.cfg` leaves out the same two faults.

The argument: that one thread works on the firmware does not follow from
`isys->mutex`, which a reset does not take. `Control` adds what does make it so:
both counts are exact (`CountsMatchFiles`); an open or a release in the firmware
section holds the mutex *and no other file is counted* (`OwnerHoldsMutex`), which
only the exact `video_opened` tells it, and a file that resets is counted; a reset is
announced by `in_reset`, which admits one (`ResetIsAnnounced`, `ResetIsAlone`);
and a place in the section says for what call it is (`PhaseHasReason`). So the two
properties are one induction. A step does to this part of the state one of
fourteen things (`Kinds`), and each conjunct is shown for each of them. `Memory`
follows a context between `isys->fwcom` and the thread that closes the firmware;
its induction needs that this thread is alone. `MemorySafe` adds that a cell that
is off or idle runs with no context. With TLC, `Control` was first checked as an
invariant for up to three files. `PowerInv` relates status, `power`, `flr_done` and the cell
at each step of a PM callback, of a reset of the streams and of a PCI reset
(`PowerStates`, `FlrPhases`), and says which step of a boot has brought the firmware how
far; that an open file is counted, hence the device in use, comes from `Control`.

`IpuDmaProofs`, for any finite number of clients, any pages, any size of aperture, table
and buffer (`DmaAssumption`), and a failure at every step of an allocation:

* `TypeCorrect`, `TablesMatch` (`PageTablesMatchBuffers`), `NoStale`
  (`NoStaleTranslation`), `DeviceReaches` (`DeviceReachesBuffers`) and `NoLeak`
  (`NothingElseLeaks`), without further hypothesis.

The argument: `DmaInv` says that two clients share neither addresses (`Addresses`) nor
pages (`Pages`) and that `iovad` is exactly what they have, with the trash range and what
is `lost`. Hence a step of one client changes no entry of another's. `Tables`: the entries
of a buffer lead to its first pages, as many as the step of the call has mapped, and every
other address to nothing, so unwinding from wherever it starts leaves nothing behind.
`Remembers`: the TLB holds an entry as the tables have it or the address is between its
unmapping and the invalidation. `Pci` says the same as `Tables` of what is mapped for the
PCI device.

`IpuCoreProofs`, for any finite number of threads and any bounds on polls, resets, jobs and
phases:

* `AwakeForCse` (`AuthenticatesAwake`), `UnboundHoldsNothing` (`NothingHeldUnbound`) and
  `SessionRemembered` (`ResetRemembered`): whatever fails.
* `ImageStaysMapped` (`CseReadsMappedImage`) and `SuccessHolds` (`SuccessIsReal`), assuming
  `ResetsBetween`: no PCI reset comes in the middle of an authentication, which
  `IpuCore.cfg` leaves out too (`"resetInAuth"`, section 5).

The argument: `Control` says which calls a thread can have come through, so that a step
of the shared operators returns to a step that exists; `Phases` ties the thread of the PCI
device to the state of the binding. `HeldInv`: a probe holds what the steps before its
index take and nothing of those after. `Awake`: the threads that have a reference on psys
are no more than the usage count. `Commands`: who is between taking and giving back
`auth_mutex` is its owner and has the command that its caller asked for. `Jobs` then follows
one command through both doorbells, the CSE and the completions: as long as nothing was
repeated (`gaveUp = "no"`), the thread in the middle of a command knows exactly what the CSE
may be doing (`Knows`), and with `auth_mutex` free the CSE is quiet: what `ImageStaysMapped`
needs. `Answers` holds with repeated commands too: the CSE answers in order, so a thread that
has had the answer to its command knows that nothing is left of the other one (`Pure`), and
one that waits knows that what is left of the other one comes first (`Sorted`). `Verdicts`: a
success that was reported is real, or somebody authenticates again, or it is void. The
register FW_SETUP may change between its two reads, but by `Answers` only to a success or a
failure of the same command.

`IsysResetProofs`, for any number of nodes, any of which may have two buffers, and whichever
flush hangs or restart fails:

* `TypeCorrect` (`TypeOK`), `BuffersKept` (`BufferInOnePlace`), `StreamsReturn`
  (`StreamsComeBack`) and `BuffersMove` (`NoBufferStalls`), assuming `StartsApart`: an
  application's start and a reset keep out of each other's way. `IsysReset.cfg` leaves out
  the same fault, with which `StreamsComeBack` fails (section 5).

The argument: `Control` says which thread has the mutex of which node and why (`Locked`),
with which node each thread may be busy (`Visits`), and what the flags announce
(`Flags`): one reset at a time, no start beside it, no stop while it goes through the
nodes. `Scans` relates the nodes that a reset has stopped and has yet to start to the
one it is at. Each node has an invariant of its own, `NodeInv`: which of eight stages its
stream is in (`Mode`), that the firmware has all active buffers in order or none
(`Frames`), that its lists and the buffer a start has in hand share nothing and make up
exactly what videobuf2 has handed over (`Lists`), and that a buffer left on incoming
has somebody coming for it (`Calm`). A step is taken by one thread and works on one node:
`OthersKept`, `ResetterKept` and `StepKeeps` carry the invariants of all other nodes over
it, so that each action needs to be argued for its node only. The four parts are one
induction: that a restart finds its buffers on incoming in order needs `Scans`, and that
no other thread touches a node that is being stopped needs `Locked`.

`IsysCameraProofs`, for any number of sensors, any boards that are wired as
`WellWired` says, any formats, crops and number of calls, and every failure:

* `SettingsReachRegisters` (`RegistersAreSettings`), `PhysCounted` (`PhyCountsPorts`),
  `SourceFollows` (`BackEndFollowsItsInput`), `NodeTold` (`FirmwareToldTheNode`) and
  `ReceiversExist` (`SensorsHaveReceivers`), without further hypothesis.
* `StreamsReceived` (`ReceivesWhatStreams`), assuming `BindsInTime`: no sensor binds
  while the PHY of its port is up, which `IsysCamera.cfg` leaves out too (`"lateBind"`,
  section 5).

The argument: `LifeInv` says what a probe has acquired before its step and a removal still
has, so that there are no sensors without receivers, and that only sensors whose driver is
there are bound; `StreamInv` that only bound sensors of a bound input system stream. From
these a sensor that streams is in use (`OneSensor`), so each control reaches its registers
or marks them (`dirty`), and the exposure keeps to the range that the blanking gave it.
`ReceiverInv` adds to the count of a PHY what makes it inductive: for each port what its
`stream_count` says (`PortInv`), a port whose PHY failed being one that never counts
down to zero; two sensors never have the same port or PHY of MTL (`OnePort`, `DwcApart`), so a
stop takes nothing from another stream. `ConfiguredInv`: a PHY learns at power-up of all
sensors bound, and none comes later. In `FormatsInv` every call leaves the source of the raw
back end consistent with its sink (`GoodPads`), and since the comparison of a start only
`touched` can have made the ends of its link differ, as it alone can have made the
node differ from what the firmware was told (`NodeLate`).

`IsysQueueProofs`, for any number of nodes with any number of buffers each, whether or not
QBUF runs beside STREAMON and STREAMOFF, and with flushes that hang:

* `TypeCorrect` (`TypeOK`, which no run checks) and `OnePlace` (`BufferInOnePlace`), assuming
  `StartsTogether`, that is `Restarts = "whenAllStopped"`, and that no start fails that a
  QBUF triggers (`"buf" \notin FailingStarts`).
* `WritesToWaiting` (`FirmwareBuffersActive`), assuming also that messages do not run out. It
  is about the frames of streams that have not been given up: what a hanging firmware kept
  is `stray`, and the theorem does not protect it.
* `NothingStalled` (`NoStalledFrame`), assuming in addition that no CAPTURE is refused.
* `TakenInOrder` (`FifoOrder`), assuming `StartsTogether`, that messages do not run out, and that
  no start fails.

These are values that runs have as well; CAPTUREs may be refused in all but `NothingStalled`.
With `Restarts = "any"` or a failing start of a QBUF
properties fail in the code, and so does `FifoOrder` with any failing start (section 5). A refused CAPTURE
leaves its buffers on the active list, and those after it wait for the next QBUF. The
two hypotheses on messages are what a lost message costs: its buffers are
on no list (`BufferInOnePlace` allows for that), and the start that was filling the firmware is
given up while the stream runs. `IsysQueueFaults` checks
`BufferInOnePlace` with `"oneAtATime"`, where no theorem covers it.

The argument has four layers, each an induction that uses those before it. `Ctl` is about
pipelines and threads: a pipeline counts the nodes that stream in it, and they point to it,
until one stops and takes the pointer from all (`OnePipeline`); a node that starts is in no
pipeline's queues yet, one that stops is, until `offReturn` (`OneNode`); no node starts while another
one stops (`OneStart`); a thread with a pipeline in hand has its mutex, and from `start` to
`fill` all nodes stream in it (`OneRun`, `OneMutex`), except that `buf_queue()` may come to a pipeline
that is empty again. From this follows `NothingTaken`: while the stream mutex is free or
some node has no pipeline, no thread has buffers in its hands, which is why
whoever returns a node's buffers finds all of them on the lists. `BufInv` gives each buffer
one place. `FwInv` adds that the firmware has frames of a pipeline only in which all nodes
stream and which runs or is about to (`Fed`), so that no step but the end of the stream takes
a buffer off an active list behind the firmware's back; and a stream that is given up
leaves the firmware nothing that is not `stray` (`GivenUp`, `GivesUp`). For stalls the invariant counts
(`StallInv`): in a pipeline where all nodes stream and nobody starts the firmware, some node has no more
buffers on incoming than threads on their way from `buf_queue()` to the pipeline (`Pending`). One
thread alone does not do: two QBUFs may both be on their way to one complete frame. For the order,
`FifoOrder` is inductive given the other three: what is ahead after a step was ahead before, or
was queued earlier.

Not within reach of the prover, and checked by TLC only: liveness under
fairness (`StartsAndStopsEnd`, `CallsReturn`, `CallsEnd` and their like), ENABLED, and what recursive
operators compute for all inputs.

## 5. Known disagreements without a run

Each is the code's behaviour, found while modelling. Those that name a constant
can be reproduced by changing it in an existing configuration.

* `Credits = 4` in `FwCom.cfg`, one token more than the ring was configured for,
  violates `CommandsAreFifo`. `ipu_send_get_token()` decides on
  `num_free(wr + 1, rd, size)` (ipu-fw-com.c:449): in a full ring `wr + 1` equals
  `rd`, which counts as no messages, so the token is accepted, the ring reads as
  empty and every unread command is lost. Only with `rd = 0` is the call refused.
  ipu-fw-com.h:11 says "tokens per queue" of the size, and `ipu_sys_queue_init()`
  allots one slot more to tell full from empty.
* `Pins = 2` in `IsysStreamFaults.cfg` violates `FreeMessagesUnused`: a message
  is released at each PIN_DATA_READY although the firmware has it for the other
  pins still (ipu-isys.c:1611-1614).
* `TimeOuts = {"open"}` violates `FirmwareCommandsLegal`: a stream whose OPEN
  was not answered in time is forgotten without a CLOSE (ipu-isys-video.c:1868).
* A start without a message for its first capture gives up the handle without a
  CLOSE, and the next OPEN on it finds an open stream (ipu-isys-video.c:1881-1885).
  `unclosed` are those handles; `FirmwareCommandsLegal` is about all others.
* `SensorMayFail = TRUE` in `IsysStreamFaults.cfg` violates
  `OpenedCountsSessions`: when the sensor does not start,
  `stop_streaming_firmware()` flushes and nothing closes (ipu-isys-video.c:2314),
  so stream_opened, for which ipu-isys.c:1064 refuses to suspend, stays counted.
* When the firmware answers neither FLUSH nor CLOSE (ipu-isys-video.c:1990, 2014), or
  FLUSH after a sensor has failed, where no CLOSE follows (ipu-isys-video.c:2314), its
  buffers are given back while it may still write to them. After a stop a buffer on an
  active list asks for a reset (ipu-isys-queue.c:766), which the stop drops when
  another node of the pipeline streams (line 1201); after a failed start
  `flush_firmware_streamon_fail()` has emptied the lists before they are looked
  at. `FirmwareBuffersActive` exempts these buffers (`stray`); a property that
  does not is violated in `IsysQueueEnds`.
* `FailingStarts = {"stream", "buf"}` in `IsysQueueFaults.cfg` violates `BufferInOnePlace`:
  when the start triggered by a QBUF fails, its buffers are put back on incoming
  and reported done as well (ipu-isys-queue.c:509-512).
* `Restarts = "any"` violates `FirmwareBuffersActive`, `FifoOrder`,
  `NoStalledFrame` and, with the failures of `IsysQueueFaults.cfg`, `BufferInOnePlace`.
* `flush_firmware_streamon_fail()` asks `av->streaming`, which is set for the
  node that owns the pipeline only (ipu-isys-video.c:2310): active buffers of
  other nodes that stream go to videobuf2, against the comments at
  ipu-isys-queue.c:285 and 289. It stays set when another node stops the stream, so
  that the next start that fails puts the owner's active buffers back behind younger ones:
  `FifoOrder` as an invariant of `IsysQueueEnds.cfg` with `BufsPerNode = 2` is violated.
* A message is lost when no stream handle is free (ipu-isys-video.c:1842), and
  one is kept by `buf_queue()` when it starts the stream (ipu-isys-queue.c:607-627).
* `pipes[]` is read without `isys->lock` (ipu-isys.c:1582; ipu-isys.h:85 says
  "@lock: serialise access to pipes"), and any response overwrites
  `pipe->error` (ipu-isys.c:1588).
* A failed `ipu_dma_map_sg()` leaves pages mapped for the PCI device: all of
  them when no addresses are free (ipu-dma.c:463) or the first entry fails,
  which keeps the addresses too (ipu-dma.c:380, 503), and those from the failing
  entry on otherwise, against the comment "get the nents as orig_nents given by
  caller" (ipu-dma.c:393). `lost` is not empty in `IpuDma` for this reason.
* `isys_isr_one()` returns 0 without a context (ipu-isys.c:1538), which is what it
  returns for a response: `isys_isr()` calls it again, for ever, under
  `power_lock`. Any interrupt after `ipu_fw_isys_close()` has cleared the pointer
  (ipu-fw-isys.c:225), with the firmware still running, gets there.
  `InterruptsEnd` as a property of `IsysPower.cfg` is violated, even with
  `Faults = {"strayIrq"}`.
* "As we are now restarting isys we can safely delete old context"
  (ipu-isys-video.c:220): when the power-down after a failed close fails as well,
  the old firmware still runs as its memory is freed. `MemoryOutlivesFirmware`
  leaves this path out.
* `ipu_isys_reset()` ignores the results of its PM callbacks and of
  `ipu_fw_isys_init()` (ipu-isys-queue.c:1048-1075). `"resetFails"` in `Faults`
  violates `OpenFilesHaveFirmware`: files stay open without firmware or power.
* The `ipu_suspend()` it calls clears `flr_done` in the middle of a PCI reset.
  `"resetInFlr"` in `Faults` violates `IsrHasPower`.
* A failed runtime resume leaves the PM core's error set: every open fails until
  a PCI reset. `pm_runtime_set_suspended()` in `flr_rpm_recovery()` has no effect
  otherwise: an enabled device without error refuses it (ipu-bus.c:272).
* `isys_runtime_pm_suspend()` clears `reset_needed` before a power-down that may
  fail (ipu-isys.c:1044).
* Neither STREAMON nor the QBUF that starts a stream waits for a reset
  (ipu-isys-queue.c:872, 619). `"startInReset"` in `Faults` of `IsysReset.cfg` violates
  `StreamsComeBack`: `in_reset` is read twice (ipu-isys-video.c:1897 and 1928), so
  a first frame is captured twice or never, or the power cycle takes a stream
  away for which the node goes on streaming. Commands may go through a null
  `fwcom` (`oops`), as they do from a QBUF in that time.
* When a stream does not start again after a reset, its STREAMOFF returns without
  the mutex it dropped, which is then unlocked a second time, and without
  returning the buffers of its lists (ipu-isys-queue.c:1141-1144).

* Restarts together with starts that fail violate `FirmwareBuffersActive` of `IsysQueue`.
* `stop_streaming()` clears `pads[0].pipe` of the first node while others stream
  (ipu-isys-queue.c:1178). The restart of that node prepares a pipeline that is
  in use: both WARN_ONs, ipu-isys-video.c:2095 and 2116, fire.

Core driver and buttress:

* A resent command may be answered twice, and the second answer be taken for that of
  a later command; a send that times out twice leaves the doorbell busy; FW_SETUP
  is read twice and may change in between. `SuccessIsReal` allows for repeated commands,
  but not for an authentication that has failed since the last reset of the hardware:
  what the CSE still does for it may pass for the success of the next.
  `CseReadsMappedImage` allows for neither: an authentication that times out unmaps the
  image while the CSE may still read it.
* A probe that fails at debugfs puts the device psys a second time
  (ipu.c, `out_ipu_bus_del_devices`); one that fails at the package directory leaves
  the image mapped; one whose IPC resets fail leaves the sysfs file for the effective
  frequency, at which every later probe fails.
* A probe or removal gives the devices back while the interrupt handler still uses
  `isp->isys` and `isp->psys`, and `ipu_pci_remove()` uses the MMUs of devices it
  has deleted.
* `ipu_resume()` and debugfs' "authenticate" do not set the MMU of psys up. The
  latter leaks a usage count when it fails and forgets the last authentication before
  it resumes the device; `reset_authentication()` takes no `auth_mutex`
  (`"resetInAuth"`).
* That reset may come between the last poll of another thread's authentication and
  its end. When its acknowledgement times out (ipu.c:224-228) or the
  `pm_runtime_get_sync()` after it fails (ipu.c:230), nobody authenticates again, and the
  other thread reports a success that the hardware has forgotten. The model has both
  early returns (`FwAuthenticateTimesOut`, `DbgGot`); they take back the last verdict,
  and make one that is being reached `"void"`, which `SuccessIsReal` excepts.
* After a PCI reset nobody authenticates again; `ipu_resume()` ignores what IPC
  reset and authentication return, and reads `secure_mode` anew. A second probe polls
  the FW_SETUP of the first.
* A video node can be opened before `isys_probe()` returns, whose last
  `ipu_mmu_hw_cleanup()` then takes its MMU away. `isys_probe()` leaves message
  buffers and debugfs behind when it fails, and `isys_remove()` frees the message
  buffers before it unregisters the nodes.

Receivers, formats and sensors:

* A PHY that fails to start leaves `stream_count` at 1 (ipu-isys-csi2.c:298, as
  ipu-isys-video.c:2323 does not stop it): later streams of that port run without
  PHY until the next probe (`stuck`).
* An MCD PHY is configured when it powers up, for the sensors bound then: one that
  binds later streams without configuration (`"lateBind"` in `Faults` violates
  `ReceivesWhatStreams`). A sensor without a usable link frequency fails the
  configuration of all ports of its PHY.
* On 6SE two ports share a port configuration and ports 1 and 3 have none of their own; on
  MTL the clock for firmware access of a port is never turned off at its own
  offset.
* `link_fmt_validate` of a queue (ipu-isys-queue.c:650) is never called, a node's
  format may be set after QBUF, and the link of the SOC back end is never
  compared: its `entity_ops` are empty. Its Bayer order is computed and not used
  (ipu-isys-csi2-be-soc.c:258-263).
* "Vertical padding is not supported, height is restricted by sink pad resolution"
  (ipu-isys-csi2-be.c:136): the height is, the top is not. A crop of full height
  with a top of 1 is accepted, reaches below the picture that comes in, and its lower
  edge is told to the firmware (ipu-isys-video.c:1800). With `MCCrops` the invariant
  that top + height of a raw back end's crop stay within its sink is violated.
  `BackEndFollowsItsInput` is about the height and the colours alone.
* S_FMT asks `vbq.streaming` (ipu-isys-video.c:568), which videobuf2 sets after
  `start_streaming()`. A node of another node's pipeline has its mutex dropped in
  between (ipu-isys-queue.c:806, 838), so that its format may change after the firmware
  was told another, whose pictures do then not fit the description, nor the buffers
  made for it. `FirmwareToldTheNode` excepts these nodes in this interval and no
  others; without the exception it is violated.
* The firmware is told the resolution of the receiver's sink where the back end is
  compared to the receiver's source, formats between sensor and receiver are
  not compared (ipu-isys-subdev.c:731), and pads may be set while streaming.
* TRY_FMT changes the node's compression and time-stamp offsets; a failed
  compression control is reported as success.
* `isys_notifier_bound()` ignores a link that fails (ipu-isys.c:701). A parse
  error in `isys_notifier_init()` leaks its entries.
* ov13b10: the limit of the exposure stays that of the old mode when the new default
  blanking equals the current one; a failed write of the frame length leaves it
  changed; clearing a flip does not write the register and the offset shifts add
  up; a failed resume leaks a usage count; the result of power-on is ignored in
  probe, which powers off a sensor never powered; the sub-device is registered
  before runtime PM is enabled.

## 6. What is left


Next in the plan:

1. `IsysReset` composed with the power cycle of `IsysPower`, for a reset against
   open and release.
2. A proof of `BufferInOnePlace` for nodes that are started again while others
   stream (`"oneAtATime"`).
3. The 64-bit TSC read and the frequency constraints of the buttress; frame events
   and `wait_last_eof` of the receivers; watermarks.

Outside the camera run, by its constants or actions: sensors that bind while their
PHY is up (`"lateBind"`), streams whose pads, or whose node in the pipeline of another, were set too late
(`touched`), ports of one pair with different lanes and PHYs of MTL that two ports
claim (`WellWired`), setting a node's format after QBUF, side effects of TRY_FMT, an
input system that maps its own image (without secure mode), two sensors on
the raw back end, removal of the input system or of a streaming sensor while streams
run, users that act during a system sleep, and nodes used before the input system is
bound.

### Not modelled

The 15 files `ipu6/ipu-isys-*` are stale copies that no Makefile builds: more than
a fifth of all C lines, which no definition stands for. Much of the rest is data or straight-line code without state of its own:
register tables of sensor and PHYs, board tables, ACPI parsing, trace
configuration, the deserialiser's register sequence, image validation, and
definitions of registers and of the firmware interface. Left out of the
modelled files are compressed formats, watermarks, short packets, statistics,
logging, performance counters, TRY formats, enumeration, mmap and cache
maintenance.

## 7. What is external

videobuf2, the kernel's completions, mutexes, address allocator and PM core are
modelled from how the code uses them (a kernel of at least 6.1). The firmware is
modelled as the party that the driver's comments and time-outs presume, as free
as the driver allows it to be. Compressed formats, watermarks, statistics,
logging and debugfs (but for authentication) are left out. I2C, the control
framework, asynchronous sub-device registration and the CSE are external too.
