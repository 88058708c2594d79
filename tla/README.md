# EFIDroidPkg: models, checks and proofs

EFIDroidPkg is the UEFI firmware package EFIDroid runs on Qualcomm phones: a set of DXE drivers and libraries that turn the
boot loader's hardware knowledge into UEFI protocols. This directory holds TLA+ models of its drivers and of what they stand on,
the TLC configurations that check them on small instances, and proofs for every instance where that was within reach. Paths below
are relative to `src/`; `map` in `PROJECT.json` gives the source lines of each definition, `hazards` what is hard to test and
which property is about it.

## 1. Inventory

UEFI has one processor and no threads. What runs concurrently is: the code at the application's level; the notification
functions of events, which the firmware's dispatcher calls at `TPL_CALLBACK` when the event is signalled or its timer expires;
interrupt handlers, which run at `TPL_HIGH_LEVEL` and therefore never interrupt each other; and the hardware and the other
processors, at any time. A critical section raises the TPL, so code under a lock is one step against everything but hardware.
Most of the other drivers poll and run to completion: what is hard in them is not interleaving but the many exits of a long sequence,
each of which must leave the hardware and the driver's records as the next call expects them.

### Modelled

| Component | State it keeps | Operations | Meets |
|---|---|---|---|
| USB device protocol (`Qcom/Drivers/UsbDxe/Usb.c`) | `mRequestQueue`, `mFinishedRequestQueue`, `mRequestState`, each request's status and byte counts, `mDeviceState` and the flag that it is to be reported | Start, Stop, Transfer (client); `req_complete`, `gadget_notify` (interrupt); `ReportEvents` (event) | the client's callback, which may call Transfer or Stop; one of two controllers |
| ChipIdea controller (`hsusb.c`) | endpoint queue heads, the one transfer descriptor, `ept->req`, the interrupt registers, `usb_config_value` | `udc_request_queue`, `udc_interrupt` with bus reset, setup and completions, `udc_stop` | Usb.c; the host |
| DWC3 controller, bulk endpoints (`usb30_udc.c`, `usb30_dwc.c`, `usb30_dwc_hw.c`) | `ep->state`, `ep->req`, `resource_idx`, `udc->queued_req`, `config_selected`, the event buffer | request queueing, the endpoint state machine, device reset, disconnect, SET_CONFIGURATION | Usb.c; the controller executes commands late; the host |
| DWC3 control endpoint (`usb30_dwc.c`, `usb30_udc.c`) | `ctrl_state` (seven states), state and TRBs of the two physical endpoints | the handlers of each state, `udc_handle_setup` | the controller; the host |
| USB enumeration (`Usb.c`, `usb30_udc.c`, `hsusb.c`) | descriptors and their list, address, configuration, speed, sizes the endpoints are armed with | `usb_init`, standard requests, connection at a speed, reset, unplugging | a host that asks anything at any time |
| Keypad console input (`Drivers/KeypadDxe`) | two rings of keys, the list of registered functions, the partial-key flag | the polling timer, ReadKeyStroke(Ex), WaitForKey, Reset, SetState, (un)registration, `KeyNotifyProcessHandler` | readers, registered functions, the keypad device |
| Keypad device (`KeypadDeviceHelperLib`, `FdtKeypadDeviceImplLib`) | state, time and flags of each key, bitmaps of held keys | polling, Reset, finding the keys in the device tree | the user; the timer and impatient readers |
| Channel to the RPM (`Qcom/Drivers/SmdRpmDxe`) | the stream states of both ends, two circular buffers with two indices each, `current_state`, the channel table | open, close, send a request and read its acknowledgement, the interrupt handler | the RPM, a processor of its own |
| SDHCI eMMC/SD stack (`Qcom/Drivers/SdhciMMCHSDxe`) | interrupt status, lines and descriptors of the controller; bus width, mode, clock and tuning at both ends; what is published of the card | one command with its polls, errors and resets; initialisation, mode switches, tuning; reads, writes, erase, protection, RPMB, sleep | the card; the firmware's block layer |
| Legacy MMC stack (`MMCHSDxe`), BAM (`BamDxe`) | the same of the older controller; rings of descriptors with event and read offsets | the same, over the FIFO by hand, the ADM or the BAM | the card; the engines |
| I2C (`I2cQupDxe`) | `dev->err`, position in the messages and the FIFO's words, the controller's state | group transfer, interrupt handler, drains, resets | the device on the bus |
| Interrupts and timer (`InterruptsLib`, `InterruptsDxe`, `TimerDxe`, `QTimerLib` and the older timer) | the list of handlers, masks, the period | registration link by link, masking, the interrupt; delays over a wrapping counter | every driver with an interrupt |
| Power chips (`Pm8921Dxe`, `Pm8x41Dxe`, `SsbiDxe`, `SpmiDxe`) | registers, shadow copies, the table of SPMI channels | GPIOs, regulators, resets, battery tests, alarms, pulse widths, backlight and display bias | the bus, which may lose any access |
| Secure calls (`ScmDxe`) | the buffers both worlds use, and the cache over them | each call of `scm.c` | the secure world, which sees main memory only |
| Clocks (`ClockDxe`, `*/QcomPlatformClockInitLib`) | counts, rates, source registers, banks | get, set rate, enable, disable | drivers that share sources |
| MSM8994 display (`Msm8994/Library/Qcom*Display*`) | power, clocks, PLL, PHY, controllers, pipes, panel | start, stop, hand over to a second stage | clocks, power chips |
| Device tree client (`FdtClientDxe`) | nothing | the lookups, as two drivers walk with them | keys, I2C busses |
| Memory description and entry (`PrePi`, `Library/*Hob*`, `HighMemDxe`) | hand-off blocks, memory map, resources | each phase of the early start | the boot loader's description of memory |
| Boot manager (`PlatformBootManagerLib`) | consoles, boot options, keys: variables that outlast a restart | its two callbacks; the user's changes; a restart anywhere | the firmware's variables |
| C runtime (`MallocLib`) | blocks and their heads | malloc, memalign, calloc, realloc, free | the firmware's pool and pages |

What makes them hard, and what must hold:

* *USB queue.* The lock is dropped around each callback; a completion carries no identification but the shared `udc_request`;
  connection changes reshuffle the queues under a transfer in flight. Every transfer must have one owner and get one true
  answer, in order, and nothing may wait with nobody due to wake it.
* *ChipIdea.* Three registers collect what happened since the last interrupt and the handler works them off in a fixed order that
  need not be the order of arrival. A completion must be charged to its own descriptor; a reset must end what was under way.
* *DWC3.* Commands take effect and are announced some time after they were written. Software state runs behind, and resets,
  completions and command ends cross. Three layers must agree on the one transfer there is.
* *Control endpoint.* Tokens, commands and completions cross; the host may give up anywhere. The machine must always come back to
  a state that receives SETUP, its `ASSERT`s must hold. Descriptors are patched for the speed: what the host read and what the endpoint is armed
  with must be the same.
* *Keypad.* A ring that overflows by dropping the oldest key, shared by readers, and a handler that may find its queue empty
  just as the timer pushes a key. Short press, long press, repeat and release are told apart by thresholds.
* *RPM channel.* A handshake of two state machines through memory, unsigned index arithmetic over a wrapping buffer, packets
  published and polled for in two steps, sleep until notified.
* *Storage.* Response, error and end of data come in any order between two polls; modes are reached through several switches of two ends that
  must agree whenever data moves; transfers are cut into pieces, any of which may fail; rings of descriptors wrap.
* *Power chips, display, secure calls.* Sequences of accesses with a meaning only as a whole, any of which may fail; buffers seen through a cache
  that fetches and evicts at will.
* *Interrupt list, delays, I2C.* A list walked by an interrupt while it is linked; a counter that wraps during a wait; a loop and a handler that share
  an error field.
* *Start.* Walks over a tree that must end, ranges cut to pieces at the end of the addresses, variables a restart leaves half written.

### Not modelled

| Component | Why |
|---|---|
| SMEM, flash partitions (`SmemPtableLib` and relatives) | lookups in tables another processor filled in before |
| Board identification | a table read once |
| Framebuffer and text console | drawing; cursor and scrolling would make a small pure module |
| Serial port, USB PHY | polled register accesses; a fixed sequence of writes |
| MSM8960 and MSM8610 displays, HDMI | the older stacks repeat the structure of `Display` on other registers; nothing calls HDMI |
| Vendored C functions, page tables, vectors | not this package's logic |

A component is listed as partly modelled in `PROJECT.json` when some operation of it that changes state has no action; the note says which.

## 2. Modules

| Module | Models |
|---|---|
| `UsbDeviceProtocol` | abstract: what `EFIDroidUsbDevice.h` promises, a transfer handed over is answered by one notification |
| `UsbTransfer` | `Usb.c`; each handler, or stretch of `ReportEvents` between two releases of the lock, is an action |
| `UsbTransferProofs` | theorems: the queue itself, and what the client is told |
| `HsusbGadget`, `HsusbProofs` | EXTENDS `UsbTransfer`: each of its actions is conjoined with what the ChipIdea driver does in the same call; theorems |
| `Usb30Gadget`, `Usb30Proofs` | EXTENDS `UsbTransfer` likewise with the DWC3 udc layer and bulk endpoints; theorems |
| `DwcControl` | the DWC3 control endpoint with an explicit host and controller |
| `UsbSetup` | start of a gadget and its enumeration on either controller |
| `KeyFifo` | abstract: a bounded first-in first-out queue that drops its oldest key |
| `Keypad` | `KeypadTextIn.c`, `KeypadController.c`; implements `KeyFifo` |
| `KeyStatus` | `LibKeyUpdateKeyStatus` per key and `KeypadDeviceImplGetKeys` |
| `OutsideProofs` | theorems on `UsbSetup`, `Keypad` and `KeyStatus`, the parts of `MCOutside` that face a user or a host |
| `SmdChannel` | `smd.c`, `rpm-smd.c`, with the RPM as an external actor |
| `Routine` | how polled drivers are written: a routine is the set of its outcomes |
| `SdhciCommand` | one command on the SD host controller, poll by poll |
| `MmcCard`, `MmcSdhci`, `MmcBlockIo` | the card and the checks both block devices make; bus modes and initialisation; the calls of the block device |
| `BamPipe`, `MmcLegacy` | a ring of the BAM; the older stack |
| `I2cQup`, `I2cProofs` | the I2C controller's loop, interrupt and bus; theorem |
| `Interrupts`, `TimerDelay` | handlers and timer; delays |
| `Registers`, `Pwm`, `Pm8921`, `Pm8x41`, `QpnpWled` | accesses that may fail; the period search; the two generations of power chips |
| `Scm` | secure calls as steps over buffers and cache |
| `Clocks` | the clock tree |
| `Display`, `DisplayProofs` | the MSM8994's display; theorems |
| `FdtClient`, `Heap`, `BootManager`, `BootMemory` | the parts of the firmware's start |
| `BootProofs` | theorems on `SdhciCommand`, `Heap`, `BootManager`, `FdtClient` and `BootMemory`, parts of `MCBoot` |
| `BoardProofs` | theorems on `Interrupts`, `SmdChannel`, `Scm`, `Clocks`, `TimerDelay`, `Pwm`, `Pm8921` and `QpnpWled`, parts of `MCBoard` |
| `MCOutside`, `MCBoot`, `MCBoard` | instances of several parts in one run (section 3) |
| other `MC...` | constants of an instance for TLC |

Composed are: the request queue with each controller (`HsusbGadget`, `Usb30Gadget`), where a step of one is a step of the other; the card
with each of its stacks, and the older stack with `BamPipe`. `MmcCard` takes the outcomes of a command from `CommandOutcomes`, what `SdhciCommand`
is checked and proved to return.

Names of the code are kept where possible. An operator called `...Bug` is a plausible mistake in the definition that follows
it, used by the mutants of `PROJECT.json` to show that each property can fail; no specification uses it.

How the models correspond to the code:

* **UsbTransfer.** `Requests` are the `REQUEST_ENTRY`s; each call of Transfer allocates a fresh one, so a request is submitted
  once. `udc` is the request behind the single `udc_request` the controller holds. `ReqComplete` is `req_complete` up to its loop,
  `RestartQueue` one turn of that loop (`restarting` marks that it is running). `pc` is where `ReportEvents` stands: it has three
  places at which the lock is free. `TransferStatus` is "unset" until something assigns it, since `AllocatePool` does not clear it:
  reporting it then reports any of the three values. `submitted`, `flushed`, `reports` and `reportedState` are history variables.
  The environment reports `Actual` bytes, never more than asked for. That is the controllers' contract except for one case: the DWC3
  driver pads OUT transfers to whole packets and may then count the padding (`usb30_dwc.c:1882`).
* **HsusbGadget.** `isr` is the position in `udc_interrupt`, whose steps are separate actions because the host and the controller
  go on meanwhile. Of the control endpoint only SET_CONFIGURATION is kept; its own transfers do not touch `Usb.c`.
* **Usb30Gadget.** `cmds` holds commands written and not executed, `events` the event buffer, `hw` what the controller really
  does; `serial` numbers transfers so that a late event can be told from a current one, which the code cannot.
  END_TRANSFER ends the endpoint's transfer whatever index it names; SET_CONFIGURATION waits until earlier commands are executed;
  Stop comes when no interrupt is pending.
* **DwcControl.** `Kinds` are the control transfers the host makes; `hw` is the TRB the controller has. A host that sent a data
  token before any SETUP starts over only after the device has finished its stall: the code's STALL state ignores SETUP completions
  (`usb30_dwc.c:717`), and a faster host would never be served again. The branch of WAIT_FOR_HOST_3 for a busy endpoint cannot be
  reached and is kept.
* **UsbSetup.** One interrupt handles one item of `irqs`. A descriptor is a record of the fields the code patches or the host uses; the device-side
  state `udc` is that of whichever `controller` the board has. A gadget is assumed to be `WellNumbered`, as `usb_init` numbers it, and to have one to four endpoints: with
  five, the super-speed configuration would send a third endpoint whose type `udc_update_ep_desc` does not know. With the ChipIdea controller it has two at least, since
  GET_DESCRIPTOR patches the first two endpoint descriptors of a configuration, and only these (`FirstTwo`).
* **Keypad.** Keys carry a code and a shift state. UnregisterKeyNotify is not given the entry the handler stands on (the code would
  read freed memory). Registered functions run between `HandlerVisit` and `HandlerNext`, where every other operation may occur.
* **KeyStatus.** Times are in units of the release time: thresholds 10, 200, 500 ms become 1, 2, 3, polls come after 0, 1 or 2
  units, and times saturate at the highest threshold. `count`, `quiet` and `chorded` are history.
* **SmdChannel.** Units are words. The RPM follows our end, wakes only when notified, publishes a header and a payload whole and
  serves one request at a time. Flags the driver writes and never reads are left out. `smd_uninit` is called on an open channel, requests are made once it
  is open.
* **Storage.** In `SdhciCommand` a poll is an action, and the controller's events fall between polls; both status registers are read together. Above
  it nothing runs beside a call, so `MmcBlockIo` and `MmcLegacy` have one action per call and take the call's outcomes from routines.
  `Then`, `Ignoring` and `OrElse` are the three things the C code does with a returned status; what the code ignores is visible as `Ignoring`. `clash`, `stale` and
  `medium` are history or the card's content. An unanswered poll without a limit is not an outcome of the older stack.
* **I2cQup.** `d` is `struct qup_i2c_dev` and the position in the loop, `hw` the controller and the bus. Several words go into a FIFO, the device
  takes them one by one and may refuse any.
* **Interrupts.** The two links of a list entry are set by actions of their own, since `InsertTailList` runs before the TPL is raised.
* **Power chips.** A register is a name with the set of fields it holds. A sequence of accesses is data for one operator, which knows whether the code
  looks at the result of each: pm8921 mostly does, pm8x41 never does.
* **Scm.** A call is the list of its steps (fill, clean, drop, call, await, use) over named buffers. The cache may fetch a line it does not hold and write
  back a dirty one at any moment. The list a call is expanded to is what the code does; the cache is the environment.
* **Clocks.** A tree is a table of clocks of each kind; the platform's tables are much larger and have the same kinds.
  `ClocksAssumption` is what they have in common: a source needs at most a crystal, and what an older clock depends on is a vote clock that needs nothing.
* **Display.** A register is kept if one part needs what another wrote. Two failures may occur in a start or a stop.
  `DisplayAssumption` is what the panels' headers have in common: a picture is split exactly for two links, a panel on two links that needs commands while pictures run, or before them, gets
  them broadcast, and the boards' own panels are in the list.
* **Heap.** In bytes, with addresses counted from where the firmware's memory begins: `memalign` goes from there to the end of the aligned head and returns the address of `Data`,
  `free` goes back by the aligned size of the head. `HeadSize` and `DataOffset` are the structure's layout: 16 and 16 on ARM, 32 and 28 on AARCH64.
* **FdtClient.** A tree is its nodes in offset order with their depth, so that libfdt's walks can be translated.
  `TreesAssumption` is what the boards' trees have in common: the order of a walk, no device of keys inside another of its kind, and busses at addresses of their own.
* **BootMemory.** Phases are actions in the order of the code; a machine is the boot loader's description (ATAGS or a tree, one or two cells).
  `BootMemoryAssumption` is what the boards have in common: ranges of whole pages that do not overlap, the firmware in one of them, room for the stack's region beside it in the highest one (the search for
  the stack checks nothing), and reserved regions in that one only. A region the tree keeps from being mapped in a lower range would be made cached by `HighMemDxe` (section 5).

## 3. Runs

Parts that do not touch each other share a run where that costs little: `MCOutside`, `MCBoot` and `MCBoard` have a variable `level` that is chosen at
the start and says which part moves; the others stay at one initial state. A property of such a run is the property of its part, and the number of
states is the sum over the parts, not their product.

| Run | Shows | Bounds |
|---|---|---|
| `usb_transfer` | the queue stays coherent with the controller (`CompletionHitsHead`); each transfer has one owner and one true answer (`OneOwner`, `AssignedOutcomeIsTrue`); the queue implements `UsbDeviceProtocol`; every transfer is answered or the device stopped | three transfers: IN of two chunks, IN of one, OUT of exactly one chunk |
| `hsusb` | one descriptor on one endpoint, the head's; completion bits are never stale; a reset starts nothing new; configured means connected (`HsusbInvariant`); a bus reset frees the queue | an IN transfer of two chunks and an OUT transfer; host events unbounded |
| `usb30` | Usb.c, udc layer and endpoint agree on the transfer, and the udc layer never refuses for ever (`Usb30Invariant`); no event is taken for the wrong transfer | two OUT transfers, one of a single chunk and one of two, each chunk shorter than a packet; 3 events in the buffer, 4 host events |
| `usb30_live` | a reset ends the transfer in flight when endpoints are not reconfigured under it | an IN transfer of two chunks and an OUT transfer; 3 events, 3 host events |
| `outside` | assertions hold, no packet thrown away, no supported request stalled, always armed at rest (`ControlInvariant`), every control transfer ends; endpoints have the sizes the host was told; readers see a bounded FIFO of the newest keys, no key waits for a handler nobody woke, every press is answered as specified | all control transfers but "zlp" and "wrong"; gadgets of two and three endpoints; three interrupts waiting; a ring of two keys and three keys; three hardware keys with power as modifier |
| `boot` | devices are the enabled nodes of the tree, and the walks end unless a subnode is disabled (section 5); blocks come back to the firmware as they were taken, on ARM; options are registered once; memory is described once and as it is; `sdhci_send_command` returns and leaves nothing behind; data finds both ends of the bus set alike; success means that the blocks were moved; cards are left ready | the instances of `Boot.cfg` and `MCBoot`: one fault per card, two calls after initialisation, descriptor lines and rings smaller than a call, three boots; blocks of no byte, of few, of less than a page but not with their aligned head, and of more than one, at three boundaries; trees in which a valid key's node is followed by a refused one |
| `board` | I2C transfers are whole; an interrupt finds its handler; delays are long enough; success of a power-chip call means the chip has it, the charger is restored, the bias is configured, the pulse width is the best there is; each world reads what the other wrote; used clocks run; display registers are touched when powered, a picture is shown, a failed start is undone; the RPM's acknowledgement is that of the request, and calls return | `Board.cfg`: one fault per call of a chip, two in the display; counter of 8; two uses of a clock; six requests over buffers of five words, every wrap position of both |

Five runs end in a violation and stand for the findings of `PROJECT.json`:

* `usb_flushed_status`: an OFFLINE event finishes queued requests without assigning `TransferStatus`; the client may read Completed
  for a transfer of which no byte moved.
* `usb30_reconfigure`: a SET_CONFIGURATION that finds an endpoint busy makes it INACTIVE and forgets its callback. `Usb.c:277` relies on a
  failure event that never comes, and no later reset produces it.
* `dwc_control_zlp`: a host that comes back for the zero-length packet after data of whole packets is stalled, against the comment at
  `usb30_dwc.c:987`.
* `sdhci_single`: a single-block transfer whose response was good and whose data failed is reported as a success, since the error is only
  looked at together with the stop command of several blocks (`mmc_sdhci.c:1855`).
* `heap_aarch64`: on AARCH64 `Data` is at byte 28 of a `CPOOL_HEAD` of 32. `memalign` returns its address, `free` subtracts 32 and what it aligns to, and gives the firmware back the address four bytes below the one it
  was given (`malloc.c:110`); the callers' pointers miss their alignment by the same four.

**Why the bounds suffice.** USB requests interact only as head, waiting and finished; three give each place an occupant, and two chunks
exercise the continuation. With two directions the shared descriptor can be misplaced. Three events let a reset overtake a start
and a completion, which is the deepest crossing one transfer in flight allows. `hostEvents` bounds behaviours, not properties: a
reset that reconfigures twice needs four. `MaxPacket` 2 against chunks of 1 makes padding happen. An event can only be
taken for the wrong transfer if both are on one endpoint, so the transfers of `usb30` share a direction and `usb30_live` mixes them. In `DwcControl` and `HsusbGadget` nothing
but the number of requests is bounded, and `KeyStatus` has no bound at all. For polled drivers what matters is that each kind of exit is taken: one fault reaches every
error path from every state a faultless prefix leads to, a second call afterwards finds what the first left. Transfers of the storage runs are longer than a descriptor line, a piece and
a ring, so that each boundary is crossed, and the card is small enough that its end is within reach. The boards cover each combination of width and mode the code tells apart. An I2C message of 6 bytes fills
a block of 4 entries more than once and a FIFO of 8 once, and two writes or a write and a read to one device make one chain. `MCMachines`
has memory that ends below, at and beyond the last address, and regions cut out of its front, middle and end. The delay's counter of 8 with gaps up to 2 wraps in all alignments; its theorem
is for every size.

**Deadlock** is checked in no run: in each something may really stop. After Stop nothing is left to do, a host need not come back, a display that was shut down stays so, a walk is over, a
request that was refused waits for ever. What must not stop is stated as a liveness property instead.

**Fairness** is assumed where the code or the platform's scheduling gives it: a running handler or call goes on; a signalled event is
dispatched (`Report`, `KeyNotifyProcess`); a pending interrupt is taken; the controller executes written commands; the keypad's timer
fires every 20 ms. Of the host it is assumed only what a property needs: that it collects the data of an enabled endpoint (`hsusb`),
goes on with a control transfer it began (`outside`), never that it resets or configures. The abstract controller of `usb_transfer`
completes what it accepts; `hsusb` and `usb30_live` show when the real ones do. `KeysReachHandler` assumes registrations stop: a function that
registers another on every call keeps the walk going for ever. The RPM is assumed to work. Nothing is assumed of the SD controller: `EveryCommandReturns` holds because the polls are counted.

## 4. Proofs

| Module | Theorem | Property |
|---|---|---|
| `UsbTransferProofs` | `UsbTypeCorrect` | `UsbTypeOK`: among it, no byte count or chunk length goes below zero |
| | `CompletionsHitTheHead` | a completion is charged to the request the controller was given |
| | `IdleQueueHoldsNothing` | no transfer waits in an idle queue |
| | `NoSignalIsMissed` | whatever is to be reported has its event signalled, or `ReportEvents` in its loop |
| | `ToldStateIsCurrent` | the client's view of the connection is current or about to be |
| | `EveryTransferHasOneOwner` | no transfer is lost, freed twice or answered twice |
| | `OutcomesAreFrozen` | the outcome of a transfer that is over does not change any more (action property) |
| | `AssignedOutcomesAreTrue` | a transfer no OFFLINE event flushed is reported with what happened to it |
| | `AnswersAreInOrder` | those transfers are answered in the order they were handed over |
| | `QueueImplementsProtocol` | `UsbTransfer` refines `UsbDeviceProtocol` |
| `HsusbProofs` | `DescriptorGoesWithHead` | the whole `HsusbInvariant` of the ChipIdea controller |
| | `HsusbImplementsQueue` | `HsusbSpec` implies `UsbSpec` |
| | `HsusbKeepsPromises` | hence the theorems on the queue hold on that controller |
| `Usb30Proofs` | `LayersAgree` | `BusyEndpointServesHead` and `UdcNotWedged` of `Usb30Invariant`, and that the request with the controller is the head of the queue |
| | `LayersShareOneTransfer` | the whole `Usb30Invariant`, types and byte counts included |
| | `EventsHitTheirTransfer` | `EventHitsItsTransfer`: an event an endpoint acts on is of the transfer it is doing |
| `OutsideProofs` | `DescriptorsTellTheTruth` | `EndpointsAreAsDescribed`: endpoints are enabled with the packet sizes the host read |
| | `ReadersSeeBoundedFifo` | the ring refines `KeyFifo` |
| | `NoPressIsLost` | `EveryPressAnswered`: a press the device noticed has been answered when it is over (action property) |
| | `ReportsAreSpaced` | `RepeatsAreSpaced`, the safety half of `PressesAreAnswered`: a held key is not repeated too soon |
| `BootProofs` | `CommandsEndClean` | a command returns with lines, status and descriptors as the next one needs them, and success only if it was answered and its data moved |
| | `EveryBlockComesBackWhole` | `BlocksComeBackWhole`, where the data follows the head directly, as on ARM: `free` and `realloc` give back what the firmware gave and copy no more than both blocks have, and pointers are aligned |
| | `OtherLayoutsLoseTheBase` | with any other layout no block could be given back right (no property of a run: `heap_aarch64` is one instance) |
| | `OptionsAreRegisteredOnce` | `OptionsRegisteredOnce`: no boot option is there twice, whatever boots were cut off |
| | `DriversFindTheirDevices` | `DevicesAreTheTrees`: keys, busses and pins are those of the board's tree, whatever it is; of a key's GPIO and polarity it says from which node they come, which may be a refused one (section 5) |
| | `MemoryIsAsDescribed` | `MemoryAsDescribed`: the firmware starts in free memory, and the final map is the tree's |
| `BoardProofs` | `InterruptsAreHandled` | `InterruptsFindTheirHandler`, at whichever store of a registration the interrupt comes |
| | `ResponsesAnswerTheirRequests` | `ResponseAnswersRequest`: what `smd_read` returns is the acknowledgement of the last request |
| | `FlushedCallsAreSafe` | `EachWorldReadsTheOther`, for the calls that flush what they pass |
| | `UsedClocksAlwaysRun` | `UsedClocksRun`: a clock in use runs at the rate set last, and its source and all above it are on |
| | `DelaysAreLongEnough` | a delay never ends early |
| | `NewerSearchFindsBest`, `OlderSearchFindsBest` | `Best8x41` and `Best8921`, the two halves of `PwmSettingsAreBest`, for every period |
| | `PulsesGetTheBest` | `PwmSettingsAreBest`: what a successful call sets on either chip is the best there is |
| | `SuccessIsTrue` | `SuccessReachedTheChip`: a PM8921 call that returns success has done all it was called for, wherever the bus failed |
| | `ChargerIsRestored` | `ChargerRestored`: a battery test gives the charger's registers back |
| | `BiasStaysConfigured` | `BiasIsConfigured`: the display's bias waits for both of its rails |
| `I2cProofs` | `TransfersAreAlwaysWhole` | `TransfersAreWhole`: a group reported as done was read and written whole, in order |
| `DisplayProofs` | `DisplayIsTouchedWhenReady` | `TouchedWhenReady`: nothing is touched without power and clocks, whatever fails |
| | `PicturesAreShown` | `PictureIsShown`: a start that succeeded shows a picture |
| | `DisplayIsOffOrKept` | `OffOrKept`: otherwise nothing stays on; a picture that is kept can be taken over |

**The request queue** (every set of transfers, every length and direction, every chunk size above zero: `UsbTransferAssumption`). `CompletionHitsHead` is
not inductive alone. A step of `req_complete`'s loop hands the head to the controller, which
is right only if the queue was idle, so `RestartingIsIdle` joins it; that loop is also the one moment when an idle queue may hold something, so
`IdleQueueIsEmpty` excludes it. The type invariant needs that `bytes_written` plus the chunk in flight never exceeds the
length (`ChunkFits`), or the next chunk could be negative. `QueueInv` is their conjunction; `QueueInvStep` has one lemma per action. The
ownership theorem adds `HandInv` (what `ReportEvents` holds matches its `pc`) and lemmas on the elements of
`Tail`, `Append`, `\o` and `SubSeq`, from which each action's movement of requests between the queues follows.

What the client is told rests on ownership. A step writes the outcome of one transfer only, and that one is waiting or new
(`OutcomeTouched`); a settled transfer is neither, so its outcome is frozen. `TruthInv` says that settled transfers have true outcomes, and
holds since whatever joins them (`NewlySettled`) was just assigned one, or is flushed. For the order, `OrderInv` orders each queue and the stages a
transfer passes (waiting, finished, in hand, answered) among each other; it is inductive because each step moves only the head of a stage,
and because a transfer refused at once finds nothing waiting that it could overtake. For the refinement, one owner makes the number of
answers zero or one, and only `Transfer`, `ReportTransfer` and `ReportState` are not stuttering steps.

**The ChipIdea controller.** `HsusbGadget`'s actions are those of the queue with what the driver does conjoined, except that a completion reports what the
controller counted where the queue's environment reports `Actual`. So the queue's invariant does not come for free, and neither invariant is inductive without the other: the
queue must know that what is primed is its head, or a completion could hit another; the driver must know that the queue is busy while something is primed. `QueueInv` and `ChipInv` are
therefore proved together, with `CountFits`: the controller never counts more bytes than the descriptor asked for. Refinement then maps each action to the queue's of the same name,
and the queue's theorems are cited for the composed system.

**The ring of keys** (any size of two slots or more). `IsRing` says that head and tail are slots, `ContentsOfRing` what the ring holds as a sequence, read from head to tail.
`PopTakes` and `PushKeepsNewest` are the two facts about modular arithmetic: a pop takes the first element, a push into a full ring drops exactly that one. Everything else leaves
the ring alone or makes it empty.

**The layers of the DesignWare controller** (any transfers, lengths, packet sizes and bounds on events). `LayersInv` has the types of the nine variables that matter, `QueueAgrees` (what is with the
controller is the head of a busy queue; an idle queue holds something only while `req_complete` works it off) and `EndpointsAgree`. The two properties alone are not inductive: `usb30_udc_request_queue` notes a
request before `dwc_request_queue` may refuse it, so the invariant must also say that a configured controller has no endpoint in INIT. With it one lemma (`FreeUdcAgrees`) serves every caller: a free udc layer is called while
no endpoint is busy, and the request is taken by all layers or by none. Once the protocol was stopped nothing is claimed, as in `Usb30Invariant`. The queue's own theorems do not carry over
as they do for the ChipIdea controller, because the padding of OUT transfers lets a count exceed what `UsbTransfer` allows.

`GadgetInv` adds what the controller does. An event names an endpoint and no transfer, so that it is the right one must follow from what can still be under way (`EventsAgree`): an endpoint in
START_TRANSFER has its command waiting (`StartWritten`) or its event raised (`StartRaised`), one in XFER_IN_PROG has events, commands and hardware of its current serial only (`Running`), and
a free udc layer has no start left over that could be taken for the next one. On the bytes (`BytesInv`): what is queued never exceeds the length, and a completion that counts padding ends its OUT transfer, so that
the count is not used for another chunk.

**Descriptors and endpoints** (either controller, any well-numbered gadget of up to four endpoints, with the ChipIdea of two at least, any number of interrupts waiting; the property leaves out full speed on the DWC3, and there on the ChipIdea all endpoints but the first two, `SpeedIsTold` and section 5). `SetupInv`:
a setup is the last thing that was raised; the device's speed is the host's, or a connect that makes it so is still to come; a host that knows sizes read them at this speed, so
no connect is pending (`KnowledgeIsCurrent`); the descriptors have been patched for the speed last seen where they are sent at it (`Ready`), so the sizes read are those of the speed (`SizesAreTrue`), and a configured
device's endpoints are enabled with the same (`ArmedAsConfigured`). That a started gadget's endpoints are there at all rests on the allocator, a recursion over the gadget. The prover cannot instantiate an induction
theorem with an operator, but a set of naturals has a least element (`LeastNatural`, from `WFMin` of the library), which gives induction for a property written as a set (`UpToN`), and with it the
allocator is defined (`AllocIsDefined`) and hands out the gadget's addresses (`AllocGivesAddresses`).

**Presses** (any keys, any hold, any times of the polls). `KeyInv` says of each state of a key what it has reported so far and how long ago, and that a chord is known one poll later; with it, each poll is one case of
`LibKeyUpdateKeyStatus`.

**One SD command** (any limits of the polls). `CommandInv` has the type invariant, and `Sound` unless the driver gave up on a silent controller: for each place of the driver, what the registers, the
descriptors and the history may be. What is proved excludes exactly what the model says is lost then: a controller that answers after its time-out leaves its lines in use.

**Blocks and options** (any sizes; any options and any number of boots). A block is given back whole because the head before it says what the firmware gave, whichever of the two allocators gave it, and because the way from the base to the caller's pointer
and back is the same: `HeapInv` is the first sentence, `BaseIsFound` says that the second is true exactly where the data follows the head. For the options
the list is all there is to know: whatever boot was cut off where, an option is looked up before it is added, and adding, moving and removing keep a list without repetition in which every key finds the menu.

**Devices of a tree** (any tree `TreesAssumption` allows, any depth and number of nodes). `FdtInv` says which subnodes have been read (`Read`: those of the devices come to so far, up to the one in hand), that each key is what
these say of it (`KeysSoFar`), number and polarity of its GPIO included, which any subnode with a GPIO sets, described or refused, and that the registered busses are at nodes before the one in hand (`BussesSoFar`). `ParentIs` shows of any order of a walk that the nodes between a parent and its child are below the parent; so `FindSubNode` and
`FindNextSubNode` come to the children of a node, all of them and in order. That the last description wins needs more: a newly read subnode is behind all read before, which holds because a device's subnodes end
before the next device starts (`DevicesAreApart`). The pins are a recursion over the handles of a bus; it is a function by the partial solutions that `UpToN` extends, and each step keeps the pins set before. A walk that
stays at a disabled subnode never gets to the end, and the theorem says nothing of its keys: that is the exception of `TreeWalkEnds`, which TLC checks.

**Memory** (any boards `BootMemoryAssumption` allows, any sizes of the firmware's regions). `BootInv` says for each phase what it can rely on: where memory and the stack's region are, that the resource blocks cover memory exactly
(`Handed`), and that one block tells of the tree (`TreeAt`), which makes the recursive search for it come to an end. What HighMemDxe adds keeps `AddedOk`, range by range: what the core knows does not
overlap, and the table is that of `MemoryMap` followed by one cached entry for each range added. From this the last entry that covers an address, which decides, is found for each kind of address
(`MemoryIsMapped`). Tree entries read in two cells where the tree has one are never added: of two ranges apart one starts a page or more up, which as an upper cell is past all addresses (`RegsAreOfBoard`).

**Interrupts** (any set of vectors). A registration is four stores into a doubly linked list, and the interrupt may come after any of them. `IrqInv` says that the tail's link back names the last entry (`TailIsLast`), how
far the new entry is linked (`EntryIsLinked`), and that enabled vectors are found by the walk (`EnabledAreListed`). The walk is the least closed set of nodes, so what it reaches can be shown without induction on its
length.

**I2C transfers** (any groups of messages of any lengths and any sizes of blocks and FIFOs `I2cAssumption` allows). `I2cInv` says where the driver is in its group (`Place`, `InTheMessage`, and `FillsUp` while a block is being filled) and
then relates driver, controller and device. For reads: a buffer holds the bytes up to the driver's position (`BuffersAre`), and what is in the FIFO, asked of the device or in a command on its way out are the next ones and no more than the
driver counts on (`Coming`). For writes: what the device has seen, what is in the FIFO and the entry carried over, read as one stream, say the messages up to here (`Said`); so a byte may be anywhere on its way and the sentence is
the same. Neither is enough, since a controller told too small a number of entries stops in the middle: `Enough` says that what it will still take covers what it holds and what is to come (`Wanted`). A block of writes
costs one entry in `out_blk_sz` for its START or NOP, and `NeedMoves` shows that writing a block lowers the need by what was written. A failing bus ends the claim on the device, and not the one on the buffers. Filling a block is one action
with five ways to end; `FillReads`, `FillWritesOut` and `FillWritesOn` are its lemmas. Two writes in a row to one device with a third message behind are left out by the assumption (section 5).

**The RPM channel** (buffers of any size, requests of any length `SmdAssumption` allows). `SmdInv` says for each phase of a request what each of the two buffers holds as a sequence of words from its read index, and the lemmas on wrapping
say what a read or write of `n` words makes of it. Only one request is ever under way, so what the receive buffer holds is the one acknowledgement or nothing.

**Secure calls** (any subset of `FlushedCalls`). Between the steps of a call the cache may fetch or write back any line. `SafeToGoOn` says of the rest of a call that it reads a buffer only if it is up to date where
it will be read; a call that fills, cleans, calls, drops and reads in this order has that property from its first step, and it is kept by its steps and by the cache.

**Clocks** (any trees `ClocksAssumption` allows, any bounds). `ClocksInv` says that every user of a source that can go off has a vote of its own there (`UsersAreCounted`: as a cardinality, for users share sources; a newer
clock is a user from the moment it has a rate, an older one while it is enabled), that what is counted is on (`CountedAreOn`), and that the register of the bank in use holds the rate of every clock that is not an older one
still waiting for its first enabling (`RegistersAreSet`). The newer clocks never give a vote back, which makes the count a bound and not an equation. By the assumption `clk_enable` goes up two clocks at most, so that
what its recursion visits can be written out (`UpwardsIs`).

**Pulse widths** (any clocks, dividers and exponents `PwmAssumption` allows, any period). The newer search leaves its loop when the error grows. The error falls while the doubled setting is below the period, and once it is above it doubles with it, so no later
exponent is better; the settings of one exponent have a best one, and the search returns the best of these, the first of equals. The older search halves the period instead and
stops where it crosses the clock; the setting there or the one before is the closest of its clock, among the clocks the period can be halved down to.

**The display** (any list of panels `DisplayAssumption` allows, any boards, any number of failures). A start is one step, so that what has to be strengthened is not an invariant between steps but what each
call inside of it leaves: `Ends(O, Good, Bad)` says that the outcomes `O` of a routine are in `Good` if it returned 0 and in `Bad` if not, and each routine has a lemma that takes a set of states to two others. A start goes through
`Idle`, `MdpUp`, `PllUp`, `Up`, `Ready`, `Configured`, `Playing` and `Shown`; one that fails ends in `Idle` again, with the refusal noted, or in `On`, where the links still hear commands. A stop starts from `Held`, which covers both and a
picture, keeps that until the light is off, and ends `Dark`. Sets of states make these lemmas first-order where the operators of `Routine` are not. That every rate's codes are tried uses `UpToN`, since their number is the panel's. What the MDP
sends and what the links expect are reckoned by two formulas, equal because a picture is split for two links and for no others. `DisplayInvariant` then has one line for each phase.

**A delay** (any size of the counter, any start). `DelayInv` ties the counter to the time that has passed (`CountTellsTime`), and, for a target beyond the wrap, says that the first loop was left only
after the wrap (`WrapWasAwaited`). The one assumption is that a delay and the gap between two reads are together shorter than the counter's period.

**Power chips** (any calls with any arguments, any number of lost accesses, any board `BoardAssumption` allows). A call is one step, and a routine a sequence of accesses. `SequenceTakes` and `SequenceRuns` say that the loop over a
sequence leaves a trace, one state for each access, up to the first error (PM8921) or the first loss (the later chips); `RunParts` cuts a trace where a sequence was joined from two. What a routine does is then said of single accesses.
For the PM8921 each routine has a lemma of its own: the last write to a register decides, no later access goes there, and an LPG register is written in the bank selected by the call itself (`BankIsSelected`). The later chips look at no
error, so that all is said of boards that lost nothing (`~px.failed`). Most routines stay off the seven register names the properties are about (`Kept`, `Avoids`); the battery tests are followed to their ends, through the unlocking that
lets the one secured write pass; the display's routines through `WledSid`. `BiasIsConfigured` is not inductive: the bias is switched on the slave the display was last told, so `BiasIs` adds that the display is known (`gwled`) only
where slave 3 was told and its rails are set, and that the bias is on nowhere else. `BoardAssumption` says that every peripheral in use has a channel, so that an access ends at the register it was meant for (`DisplayIsReached`).

What stays with TLC: liveness and fairness, which are out of the prover's reach, and the safety properties of `DwcControl` and of the storage stacks above a command. `DwcControl` is finite: with every kind of transfer it has 335 states
and fewer kinds only remove some, so that the run is exhaustive. The storage stacks are routines as the display is, but they work on tables that are built with `:>` and `@@`, which the prover cannot look into, and on loops over the blocks
of a transfer, where each exit leaves another state; there TLC's enumeration is the better instrument.

## 5. Observed without a run

Met while modelling; each is in the models or named as an assumption, none is counted as a finding.

USB:

* `hsusb.c:591`: SET_CONFIGURATION(0) disables the endpoint under a primed transfer and errors nothing out; only a bus reset ends it.
* `hsusb.c:392`: `handle_ept_complete` waits without limit for INFO_ACTIVE to clear, at interrupt level.
* `Usb.c:451`: Stop leaves queued transfers unanswered and their buffers with the driver; the header (`EFIDroidUsbDevice.h:116`) does not say so.
* `Usb.c:401`: a second Start on the ChipIdea controller fails and then calls `udc_endpoint_free`, which nobody assigned; on the DWC3 it loses the old state. A failing allocation or
  registration returns EFI_SUCCESS.
* `usb30_dwc.c:494` with `usb30_dwc_hw.c:147`: a reset before the start event may end a transfer with resource index 0.
* `usb30_dwc.c:884` with `usb30_udc.c:350`: the receive callback of SET_SEL is never called.
* `usb30_dwc.c:1214` with `:1770`: a data stage in the wrong direction leaves `trb_queued` set.
* `usb30_udc.c:764`: at full speed the endpoint descriptors should get their packet size (`:788`), but index 34 is not where the second endpoint's type is in the 2.0 layout; `EndpointsAreAsDescribed`
  leaves this controller at that speed out. `udc_update_ep_desc` looks beyond shorter descriptors.
* `hsusb.c:557`: GET_DESCRIPTOR patches the size into two endpoint descriptors, whatever the configuration has: with one it writes behind the descriptor, and a third keeps 512 at full speed, where the
  endpoint is enabled with 64. `EndpointsAreAsDescribed` says nothing of that third.
* `usb30_udc.c:952`: the super-speed configuration has the total length of the 2.0 one: a host reads 32 of its 44 bytes.
* On the DWC3, SET_CONFIGURATION(0) tells nobody that the device is offline; on the ChipIdea, unplugging is not reported.
* `usb30_dwc_hw.c:475`: of an event of twelve bytes the third word is stored over the second.

Keypad and RPM channel:

* `Keypad.c:193`: a key is pushed for the handler once per matching registration, and the handler calls all matching functions for
  each: with two registrations each function is called twice.
* `Keypad.c:467`: DriverStop closes the timer before the step that may fail: the device would stay, without keys.
* `smd.c:169`: if the RPM's last interrupt comes between the two writes of `smd_set_state(CLOSING)`, `smd_uninit` waits for ever
  (`UninitReturns` in `SmdChannel` fails). Nothing calls `rpm_smd_uninit` today. `smd.c:417`: each interrupt in CLOSED frees the table and signals again.
* `rpm-smd.c:85`: `smd_init` returns before the channel is open; a request sent then is refused and its acknowledgement waited for, in an endless poll or `smd_read`'s assertion (`smd.c:249`).
* `smd_write` accepts a packet that fills its buffer exactly, after which the buffer looks empty. `SmdAssumption` excludes packets of that length.

SDHCI storage:

* `mmc_set_ddr_mode` sets the card to eight lines whatever the board has (`mmc_sdhci.c:870`); `BusesAgree` leaves DDR on narrower boards out.
* `sdhci_msm.c:777`: during tuning a failed read returns 0 (`sdhci.c:477`), and the block compared is then that of an earlier phase. `mmc_sdhci.c:717`: a drive type the card does not
  support counts as changed. `sdhci_msm.c:799`: the drive type the phase was found with is reset. `:831`: a failing configuration of the DLL returns 0.
* `mmc_sdhci.c:1827`: the address of a standard-capacity SD card is passed in blocks. `:230`, `:1646`: `ext_csd` of an SD card is NULL. A write-protect read that fails writes what was there.
* A transfer that never completes leaves the lines in use, and a late completion greets the next command (`sdhci.c:484`).

Legacy storage and BAM:

* `bam.c:191`: the driver's ring has 100 slots, `bam.c` asserts a power of two. The return value of `bam_setup_desc` is overwritten; descriptors of a failed read stay in the ring (`mmc.c:1820`); both
  pipes use one FIFO structure.
* Capacities are computed in 32 bits; an SD card without a block size divides by zero; CMD8's answer is read although it failed; enabling the clock clears the width; DDR at an
  unsupported width is a success; a failed open-ended read of an SD card sends no stop; polls have no limit.

I2C and power chips:

* `i2c_qup.c:490`, `:759`: of a group whose second message is a write by blocks to the first one's device and which has a third, the second's START may fill the block's last entry; its first byte is then carried over, the
  next block starts without it, and the transfer is reported as done. Nothing in the repository passes such a group, and `I2cAssumption` excludes it.
* A NACK of a short write may come after the only look at the error; a second interrupt overwrites it (`i2c_qup.c:230`); a write of length zero loops.
* `ssbi_write` always returns 0; a size of an SPMI access is truncated; the command is dereferenced before it is tested for NULL; version 2 of the arbiter uses an uninitialised table.
* `pm8921_ldo` looks up a name that may not be there; `boot_done` ignores read errors. `pm8x41_reg_read` returns 0 when it fails, and read-modify-write then writes on top of that 0. The converter
  is polled without limit, its calibration may divide by zero, the state of charge may underflow; COMP_OVR0 is not restored; a voltage below the minimum underflows.

Secure calls, clocks, display:

* `scm.c:1052` says that the secure world accesses main memory only; on ARMv8 `random`, `encrypt`, the tamper fuse, the kernel hash, mdtp and qfprom do not flush what they pass, and on ARMv7
  `get_secure_state`, mdtp, qfprom, `encrypt` and `decrypt` do not. `FlushedCalls` are the others. `scm_call2` leaks its indirect arguments on a failure; `scm_io_read` returns the status on ARMv8; uninitialised bytes are
  returned when a call fails.
* A clock's source collects one vote per change of rate; `depends` is never disabled; `local_clk_disable` does nothing; polls have no limit.
* After clocks that did not start, `msm_display_off` touches the unclocked MDP (`TouchedWhenReady` excepts this). The first error of a panel command is overwritten (`mipi_dsi.c:177`); regulators stay on; the second
  PHY gets the first one's base (`mipi_dsi_phy.c:363`, `panel_display.c:88`); `mdp5.c:811` assigns in a condition; `target_display_init` is called without its argument; the case of
  `hx8379a_truly_fwvga_video` has no `break` (`oem_panel.c:333`), so that this panel comes up with the next one's data (`FallsTo`); the graphics output is installed
  over a dark display.

Start:

* `FdtClientDxe.c:390`, `:420`: a subnode that is not "okay" is said to be ignored, but the search starts again from the same node and comes to the same subnode for ever. One of
  the trees of `MCBoot` has such a subnode; `TreeWalkEnds` makes an exception of it.
* `HighMemDxe` makes regions that must not be mapped cached; a range whose top is reserved completely asserts; a removed region can be allocated; the stack's top is one byte above its region
  unless the sum at `ModuleEntryPoint.S:101` overflows; ATAGS without memory dereference NULL.
* `FdtQcomPlatformI2cQupLib.c:200`: the pull is computed and the drive strength written in its place.
* `FdtKeypadDeviceImplLib.c:124`: number and polarity of a GPIO are stored before the node is refused for its controller. A refused node behind a valid one for the same key leaves the key valid, of the first node's
  type, with the pin and the polarity of the second; a key of a PON has the polarity of its last GPIO node. `KeySays` states which node each field is from, and one tree of `MCBoot` does it.
* `calloc` does not test its product; in `fbcon`, `goto newline` skips an initialisation.

## 6. Plan

Done: the USB device stack, the keypad stack, the RPM channel, both storage stacks, the busses and power chips, interrupts and timer, secure calls, clocks, the MSM8994's display and the firmware's start, with
the proofs of section 4. Next would be, in order:

1. *Theorems*: a BAM ring is given the pieces that tile its buffer.
2. *Late hardware*: the legacy stack's endless polls and the SD controller that answers after its time-out, as liveness under a fair controller.
3. *Composition*: the control endpoint with the bulk endpoints, so that SET_CONFIGURATION comes from `DwcControl`; `SmdChannel` with `Interrupts`.
4. *What is left*: the text console as a pure module, SMEM tables, the older displays.
