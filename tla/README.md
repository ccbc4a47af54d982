# A verification of the ECE 385 labs

TLA+ models of the programs and circuits of this repository, the TLC
configurations that check them, and TLAPS proofs about them.

## The system

The repository holds six labs, each a design of its own for the same FPGA
board. `Lab6` is the one with a program of its own: a system-on-chip that runs
C code (`usb_kb/`) which drives a MAX3421E USB host chip, finds a keyboard or
mouse and polls it; the key code then moves a ball on a VGA screen. `Lab7` has a C
program too, which tests a text screen. The others are circuits: they are read as
transition systems whose step is a clock edge, with the user as the environment.

| Part | State | Operations | Interaction | What is hard |
|---|---|---|---|---|
| USB host state machine, `usb_kb/transfer.c` | `usb_task_state`, `usb_error`, `last_usb_task_state`, `devtable`, `dev0ep`, the settle timer | `USB_init`, `USB_Task` (one state per call) | called from the main loop; reads and writes chip registers; calls the class probes; its state is also written by the interrupt handler | devices come and go at any moment; the handler does arithmetic on the state |
| MAX3421E driver, `usb_kb/MAX3421E.c` | chip registers `rHIRQ`, `rMODE`, `rHCTL`, `rHRSL` | `MAX3421E_init`, `MAX3421E_Task`, `MaxIntHandler`, `MAX_busprobe` | polled from the main loop; sets `usb_task_state` | the chip runs beside the program: what is acknowledged may not be what was read |
| Transfers, `usb_kb/transfer.c` | data toggles, retry and NAK counts | `XferCtrlReq`, `XferCtrlData`, `XferCtrlND`, `XferDispatchPkt`, `XferInTransfer` | called by `USB_Task`, probes and polls | lost and repeated packets, NAKs, timeouts, short packets |
| HID driver, `usb_kb/HID.c` | `hid_device`, `hid_ep` | `HIDMProbe`, `HIDKProbe`, `mousePoll`, `kbdPoll` | probes are called by `USB_Task`; writes `devtable` | failures half way through a binding; walking device-supplied descriptors |
| Ball and video, `Lab6` `ball.sv`, `Color_Mapper.sv`, `VGA_controller.sv` | position and motion; beam counters | one step per frame; one per pixel | ball clocked by vertical sync, key code from the USB program | 10-bit arithmetic at the edges |
| Text mode video, `Lab7` | memory of words, palette, the beam | bus writes with byte enables, glyph lookup; the program's fill, readback and copies | written by `text_mode_vga.c` while the beam reads it | one memory, two clocks' rates; a pipeline of three registers; a reset in the middle of the test |
| SLC-3 processor, `Lab5` | registers, PC, IR, MAR, MDR, condition codes, the state of `ISDU` | one micro-step per clock | memory and I/O through `Mem2IO`; RAM filled by `Instantiateram` | a wrong control signal shows only in some instruction |
| Multiplier, `Lab4` | `X`, `A`, `B`, the controller | add, subtract, shift | switches and buttons | sign of the last step, switches moved while it runs |
| Adders, `Lab3` | accumulator, run-once controller | ripple, lookahead and select adders | switches and buttons | carries across groups |
| Bit-serial processor, `Lab2.2` | registers `A`, `B`, a controller of ten states | load, execute | switches and buttons | number of shifts, holding a button |

What makes each part correct: the host talks only to the device that is in its
port, and reports what went wrong; a transfer delivers each packet once; a
driver is bound as a whole or not at all; the ball stays on the screen; a
micro-programmed instruction computes what the instruction set says; a pixel
shows the character it lies in, and the screen what was written last; the
multiplier computes the signed product and the three adders the sum; a serial
operation ends with its result after the right number of shifts, once per
press of the button.

## Modules

In the order of importance that the work followed:

| Modules | Part | Checked by | Proved |
|---|---|---|---|
| `UsbHost`, refining `UsbConnection` | USB host state machine, MAX3421E driver | `usb_host`, `change_never_lost`, `unsupported_is_ff` | safety, refinement |
| `UsbTransfer`, refining `UsbPipe` | transfers and polls | `usb_transfer` | safety, refinement |
| `HidProbe` | the class drivers' probes | `hid_probe` | safety |
| `Slc3`, refining `Lc3`, both on `Lc3Words` | SLC-3, its RAM and `Instantiateram` | `slc3`, `far_call` | safety, refinement |
| `Multiplier` | multiplier | `multiplier` | safety |
| `VgaText` | text screen and its test program | `vga_text` | safety |
| `Ball` | ball | `ball` | safety |
| `Accumulator` on `Adders` | adders | `accumulator` | safety, and that the three adders add |
| `SerialProcessor` | bit-serial processor | `serial` | safety |

An `MC` module gives the constants of a run that are more than numbers. What a
module composes: `UsbHost` has the main loop, the driver, the chip and the user;
`UsbTransfer` the program, the chip, the line and the device; `Slc3` the controller,
the datapath, the RAM, its initialisation and the user; `VgaText` the program, the
bus, the memory and the beam.

A part of the plan that was given up: composing `UsbHost` with `UsbTransfer`, so that
each control transfer of the one is a run of the other. `UsbHost` lets every transfer
succeed or fail at will, within what the device in the port allows, and `UsbTransfer`
(`ControlDone`) is the reason why a success may be believed; the product of the two
state spaces adds nothing to either side.

## UsbHost

`UsbHost.tla` is one process, the main loop, with the chip and the user as its
environment. The repository has no `main.c`; the headers export what a main
program has to call, and the labs' handout program calls them in one order:
`MAX3421E_init`, `USB_init`, then `MAX3421E_Task` and `USB_Task` for ever.

| State | Code |
|---|---|
| `usb_task_state`, `usb_error`, `last_usb_task_state` | the globals of `transfer.c`; the state is a number, because `MaxIntHandler` increments it |
| `usb_delay` | the settle timer: running or expired |
| `tmp_addr`, `hid_addr` | `tmp_addr` of `USB_Task`, `hid_device.addr` |
| `epinfo`, `devclass` | the fields of `devtable`; `epinfo` is a pointer to one of two records, or NULL |
| `MaxPktSize` | the field of those two records' endpoint 0 |
| `mode`, `hirq`, `bus` | `bmLOWSPEED` of `rMODE`, the bits of `rHIRQ`, `bmBUSRST` of `rHCTL` |
| `dev`, `dev_addr`, `dev_state`, `lines` | the device in the port and what it knows; the D+/D- lines |
| `pc`, `sendback` | where the loop is; `HIRQ_sendback` |

Every state of `USB_Task` is an action. `MaxIntHandler` and `MAX3421E_init` are
two actions each, split between the read of the bus and the write to `rHIRQ`:
the chip and the user go on in between, and the code prints there. Only
`CONDETIE` is enabled, so the handler runs only with `CONDETIRQ` pending; other
bits that are pending by then are handled with it. `MAX3421E_Task` and
`USB_Task` may be called in any order, any number of times.

Abstractions: a control transfer is one success or one failure, chosen freely,
but it succeeds only if the device in the port answers (it was reset, has the
right speed and the right address); an unplug in the middle of `USB_Task` is a
failed transfer followed by the unplug. A failed `XferSetAddr` may still have
given the device its address. `rHRSL` follows the lines at once. Result codes of
the transfers after the first descriptor read are not looked at by the code and
not modelled. `bmSOFKAENAB` is set in every mode the code writes, so the chip
always sends frames.

`UsbConnection.tla` is what a client of the host may rely on: a driver is bound
only to the device in the port, and it is let go before a change of the port is
forgotten. A change that comes between the look at the port and the acknowledgement
may be forgotten unseen (`change_never_lost`), but no driver is bound then. `UsbHost`
refines it under the mapping at its end.

### Runs

| Run | Bounds | Shows |
|---|---|---|
| `usb_host` | 3 kinds of device (low-speed keyboard, full-speed mouse, a disk no driver knows), `NumDevices` 3, 2 plug-ins or glitches, resets that raise the connection interrupt | the safety properties, the refinement, that enumeration ends but for one cycle, and that an unplug is noticed |
| `change_never_lost` | 1 plug-in | a comment the code does not keep: a change of the port between the probe and the acknowledgement is lost |
| `unsupported_is_ff` | 1 plug-in, codes 14 and 255 | a list of error codes the code does not keep: a keyboard is reported with the code of an unsupported device |

Two plug-ins let one device replace another of a different speed and class
during every state of the enumeration; three table entries are enough for
`USB_init` to be skipped until the table is full, because each attempt uses one
address and restarts cost no plug-in. One failing result code stands for all of
them, because the code only copies it; it is `0xff`, the one that has another meaning in
the list above `USB_Task`.

What `usb_error` means is what the code does, and its comments differ. The list at
`transfer.c:242-245` has `ff` for an unsupported device, and the comment at
`transfer.c:190` has `fe` for a transfer that timed out; but `XferDispatchPkt` returns
`0xff` when a packet has no result in time (`transfer.c:152`, `161`, and its own comment
at `141`), the descriptor and the address transfer store it (`329`, `347`), `0xfe` is a full
address table (`355`), and a device no driver knows gets `0xfd` (`370`), as does one whose
driver failed to configure it. The header of `XferCtrlReq` (`transfer.c:74-76`) has
codes up to `0f` only, though `0xf0` and `0xff` come through it. `ErrorNamesItsCause`
states what can be told from the two variables; `unsupported_is_ff` shows the difference.

Fairness (`FairSpec`): the main loop goes on calling both tasks, a reset and the
settle time end, and a line does not stay illegal. Nothing is assumed of the
user or of transfers. `EnumerationTerminates` is checked with resets that raise the
connection interrupt, as the comments at `MAX3421E.c:184` and `196` say they do. It
has two cases. Either the host comes to rest, after any number of restarts, or
USB_Task leaves the state that waits for the reset while the reset's own interrupt
is still pending, infinitely often: the handler then takes it for a new connection
and attaches the device again. The code does not exclude this, since a reset may end
between a call of `MAX3421E_Task` and the next of `USB_Task`; that it does not
happen every time is a matter of timing. The property says that nothing else
keeps the host attaching: not errors, failed transfers, glitches or a full table.

The model shows some more of what the code does otherwise than its comments say. These
are not runs; each can be seen by stating the comment as a property of `UsbHost`:

- `USB.h:101` says of an error that only an unplug ends it; `MaxIntHandler` attaches
  in whatever state it finds (`MAX3421E.c:184-213`), so an interrupt of the same device ends it.
- `transfer.c:298` tests `bus_event( ) | bmFRAMEIRQ` with `|` where `&` is meant: the host
  does not wait for the first frame.
- After a disconnect is handled together with a bus event (`MAX3421E.c:212`, `270`)
  the state goes from `0x01` to `0x02`, so that `USB_init` is skipped.
- The same increment takes the state from `0x10` to `0x11` without starting the timer that
  `transfer.c:277` starts: the time to settle is then not kept.
- `MAX3421E.c:184` tells the interrupt of the host's own reset from a new connection by
  the state; with `ResetRaisesCondet` and no plug-ins at all a device is attached twice.

### Proofs

`UsbHost_proofs.tla` proves, for every set of devices, every table size and any
number of plug-ins, from the four assumptions of `UsbHost` on its constants:

- `Invariant`: `IInv` is inductive. The properties alone are not: they hold
  because a bus probe leaves one of five states, so that the increment that may
  follow never reaches a state that uses a device (`ProbedStates`); because the
  device table holds the record the current state uses (`RecordInUse`); because
  the size read stays in `dev0ep` until the driver copies it (`SizeKnown`); and
  because a handler acknowledges the change it was called for (`AckedChange`).
- `TypeCorrect`, `HostAgrees`, `DriverBound`, `NoNullEpinfo`, `ErrorCause`,
  `Contiguous`: the properties of `usb_host`, from `Invariant`.
- `Refinement`: `UsbHost` implements `UsbConnection`. The probe maps to `Look`,
  the write to `rHIRQ` to `Acknowledge`, a successful probe of a driver to
  `BindDriver`, an error to `GiveUp`, plugging and the like to `PortChanges`;
  every other step changes nothing the abstract specification sees.
- `EnumerationIsShort`: what `EnumerationTerminates` needs beside fairness. `StepsLeft`
  counts 32 for each bus probe still to come, 3 for each state of `USB_Task` ahead, and
  one each for a running reset and settle delay. Every step of the loop and of the timer
  lowers it, and so does the end of a bus reset that raises no connection interrupt; a frame
  leaves it alone; and at 0 the host is at rest. Left alone it is there after at most
  189 steps. What raises it are the changes of the port, and with `ResetRaisesCondet` the
  interrupt of the host's own reset.

## UsbTransfer

`UsbTransfer.tla` opens the box that `UsbHost` takes a control transfer for: a
transfer is a sequence of packets, each launched in the chip, waited for and
retried. The callers are a probe that reads descriptors and configures the
device, and then polls of its interrupt endpoint.

| State | Code |
|---|---|
| `call`, `token`, `data`, `rcode` | which transfer runs, the packet in `XferDispatchPkt`, what `XferInTransfer` has collected, the result |
| `at` | idle, before line 151 of `transfer.c`, or in its waiting loop |
| `nak_count`, `retry_count` | the variables of `XferDispatchPkt` |
| `rcvToggle` | the field of `hid_ep[1]` |
| `busy`, `hxfrdn`, `hrsl`, `fifo`, `rcvtog` | the chip: the packet it sends, `HXFRDNIRQ`, `rHRSL`, the FIFO behind `RCVDAVIRQ`, `RCVTOGRD` |
| `request`, `done`, `sent0`, `tog0`, `acked`, `tog1` | the device: its control request, what was acknowledged at each endpoint, its toggles |

The disjuncts of `Completed` are the ways the code goes on with a packet's
result; each one runs to the next packet or to the end of the call. The
environment loses a packet, loses its acknowledgement, answers "not ready" or
refuses. A packet's content is its number.

Abstractions: time (`TimedOut` may come whenever a result is missing), byte
counts (a packet is full, or the last), the second buffer of the FIFO, and OUT
data, which the code has a branch for and never sends.

`UsbPipe.tla` is what a poll promises: packets in order, each once, and let go of
by the device only when the caller has them or is getting them.

| Run | Bounds | Shows |
|---|---|---|
| `usb_transfer` | 3 reports and a descriptor of 2 packets, 4 faults, limits 2 | delivery, in order and once; result 0 means done; the refinement; calls end; every report arrives |

With toggles of one bit three reports are one more than can be told apart, and
four faults are enough to lose a packet, its acknowledgement, and both again
after a failed call. With limits of 2 each counter is met, reset and met again.

`LateAnswers = FALSE` says that a packet has ended, or never will, when
`XferDispatchPkt` gives up; without it nothing the code does keeps the results of
two packets apart: with `LateAnswers = TRUE` a request counts as done by the result of
the one before (`transfer.c:138`, `151`, `163`), and TLC finds `ControlDone` violated.
Reports of more than one packet are left out for a like reason: with `PacketsPerReport`
2 and two faults TLC finds `ReportsInOrder` violated, because a failure between two
packets keeps neither the data nor the toggle (`transfer.c:187`, `202`, `218-223`). The
reports of a boot keyboard and mouse are one packet.

Fairness: the program's own steps and the chip's (`Fairness`); that the device
sooner or later has its report ready, and that the main program goes on polling a
configured device (`Willing`). The former is strong fairness, because a poll may
find the device not ready again and again; the latter is what the polls are for: they
keep nothing of a failed one (`HID.c:207-223`), so a failed one is
followed by the next. The polls are made by the main program, which is not in the
repository. Nothing is assumed of the configuration: one whose probes have failed
leaves `USB_Task` in `USB_STATE_ERROR` (`transfer.c:369-380`), where nothing is tried again.
`EveryReportArrives` is therefore a promise to a device that was configured. The
model's `ControlRequest` may come again after a failure, for the next probe, device or
attachment, but need not. A limit on the faults stands for a line that works again
after a while.

`UsbTransfer_proofs.tla` proves the safety properties and the refinement of
`usb_transfer` for any number of reports, descriptor packets and faults and all
limits the code's types allow, with one-packet reports and no late answers
(`One`). The invariant says that a side's toggle is the parity of what it has
counted, that neither side is more than one packet ahead, and what lies in the
FIFO when they differ; the same again for the data stage of a control read; and
that the chip works only on the packet being waited for.

`TypeCorrect` and `CallsAreBounded` need neither assumption. The second is what `CallsEnd`
needs beside fairness: a call has so many packets left, a packet so many tries (its two
counters), a try a launch and an answer, and in this order every step of the program, the
chip or the device takes one away while a call runs. It rests on `CountInv`: a
data stage has fewer packets than it asks for. Without the counters a device that is never
ready would keep a call for ever. `EveryReportArrives` is model-checked only.

## Multiplier

`Multiplier.tla` is the circuit of `Lab4`, one clock edge per step. The state is
the controller's `curr_state` by its number, the flip-flop `dummy` (the X of XAB),
`LoadedA`, `LoadedB`, and the synchronized buttons and switches, which a user sets
freely at every edge. The adder works on nine bits. `S0` and `B0` remember the
operands of the multiplication that runs. The registers start at zero, as the
device loads them.

The user leaves the switches alone from the clearing of A to the last round; the
code reads them in each round, and promises nothing if they move. The displays and
the carry-select structure of the adder are left out; that this structure adds is
checked and proved in `Adders`. The output `X` of `register_unit` is never driven and goes
to no logic.

| Run | Bounds | Shows |
|---|---|---|
| `multiplier` | 4 settings of the switches: 0, 85, -128, -1 | `Product`, after any history of presses, and for each B a result leaves behind; a multiplication ends unless it is reset |

The settings hold the most negative byte, both signs, and alternating bits, so that each round both adds and skips and the ninth bit is needed. Fairness:
the clock does not stop.

`Multiplier_proofs.tla` proves `Product` for all switches and all B. `Product`
speaks of the last state only; the invariant says what holds in each round `k`
(`Before` the addition and `After` it): AB times `2^(k-1)` is the product of the
switches with the low bits of `B0` that had their turn, above the bits of `B0`
that did not. Three facts of arithmetic carry it: nine bits are enough for the sum
(`NineBits`), a shift halves XAB and drops the low bit of B (`Halved`), and that bit
is the one of `B0` whose turn it is (`Turn`). Each is proved over the ranges of the
registers; the theorem has no assumption but `Switches` being a set of bytes with 0
among them. Liveness is model-checked only.

## HidProbe

`HidProbe.tla` is `HIDMProbe` and `HIDKProbe` of `HID.c`, called one after the other as
`USB_Task` calls them: read the configuration's header, read the whole of it into
`bigbuf`, walk its descriptors to the first interface and then to an endpoint, bind,
configure. It opens the box that `UsbHost` takes a probe for.

| State | Code |
|---|---|
| `byte_ptr`, `total_length`, `confvalue` | the variables of a probe |
| `bigbuf` | the shared buffer; a place holds a descriptor, or `Blank` inside one |
| `devclass`, `epinfo`, `interface`, `epAddr` | the device's row of `devtable`, `hid_device`, `hid_ep[1]` |
| `pc`, `class` | the step of the probe, and which probe |
| `dev`, `dev_conf`, `dev_boot` | the device: its descriptors, and what it was told |
| `fresh` | history: how many bytes of `bigbuf` are this device's |

Each transfer may fail; a failed `XferSetConf` or `XferSetProto` may have been carried out.
`bigbuf` is never cleared, so that a device's probe meets what the one before left.
The code has no variable that says a place is the start of a descriptor, and would read
any byte as a length; `ReadsOnlyFresh` says that with a well-formed device it never does.

What a device may be is the assumption `DeviceAssumption`: its descriptors have a length,
follow each other, and what the probe looks for lies in the first 256 bytes. The code
checks none of this. A descriptor of length 0 stops the walk for ever (`HID.c:49`), one
longer than what is left leads it into the bytes of another device.

`hid_probe`: five configurations (keyboard; mouse with a second interface; a composite
that is longer than the buffer; a device no driver knows, cut in its second interface; a
mouse without an endpoint) of descriptors of 2 or 3 bytes, a buffer of 12, three devices
in a row: one whose remains the next finds, and one more after a failure. Fairness: the
probe goes on. `CHECK_DEADLOCK FALSE`, because the system stops after the last device.

`HidProbe_proofs.tla` proves the three invariants for every size of the buffer and all
devices that fit `DeviceAssumption`. The invariant says what a probe has read
(`Clamped`, `Contents`), that the walk is at the start of a descriptor and has not passed
the one it looks for (`OnItsWay`), and what `Bind` has written. Its one lemma that is not
about steps is `WalkStep`: a walk that has not passed the first descriptor of a type ends
its step within what was read. `ProbeReturns` is model-checked; what it needs beside fairness is
proved (`ProbesAreShort`): each step of a probe leaves fewer of at most `2 * (BufSize + 6)`, because
a descriptor has a length and `byte_ptr` only grows.

## Slc3

`Slc3.tla` is the processor of `Lab5` at the level of its registers: a step is an edge of
the clock, or the moment both buttons are down (the reset is asynchronous in part of the
registers).

| State | Code |
|---|---|
| `State` | the state of `ISDU`, by its name |
| `PC`, `IR`, `MAR`, `MDR`, `reg`, `nzp`, `BEN` | the registers of `datapath.sv`; `nzp` is the code that is set, if one is |
| `hex_data` | of `Mem2IO` |
| `mem`, `latch`, `q` | the RAM: its words, and the two registers between an address and its data |
| `fill`, `address` | `Instantiateram` |
| `run`, `cont` | the synchronized buttons |
| `arch`, `spent` | history: the machine as the last instruction left it; whether this press of Continue has ended a pause |

An action is a state of `ISDU` with the registers it loads; `Edge` is what the others do at
every clock. `Lc3.tla` is the instruction set: a step is a whole instruction, or a reset.
It is written from the comments of `SLC3_2.sv`, which say what each instruction does.
`Slc3` refines it with `arch` for the machine (`ImplementsLc3`).

`Lc3` says nothing of instructions that `SLC3_2.sv` cannot make: a jump with an offset, a
call through a register, and a call whose offset does not fit nine bits and a sign. Of
the last the comment does say something, and the code does not keep it: `SEXT.sv:16`
takes the wrong one of two bits for the sign. That is `far_call`.

The user lets go of Run before Continue after a reset, or leaves it alone until the RAM
is filled (`Buttons`): the code has no guard against a processor that runs while
`Instantiateram` still owns the RAM. Left out: the LEDs, which a pause sets, and the hex
drivers. Worth knowing: a store to address 0xFFFF also writes the RAM's last word, a
branch falls through on any condition while no condition code is set, and the board
starts in reset because the synchronizers do.

`slc3`: a RAM of 8 words, of which 6 are filled; five programs that use between them
every instruction, both signs of every offset, the I/O address for data and as a fetch,
an address beyond the RAM, an opcode that is not used and two pauses; three settings of
the switches. Every program loops, so that each instruction meets the registers it left.
Fairness: the clock does not stop. A reset may come at any edge.

`Slc3_proofs.tla` proves `ImplementsLc3` and `OnePressOnePause` for every program, every
setting of the switches and every size of the RAM, and `TypeOK` with them. The invariant
says what each state of `ISDU` owes to the instruction it is in: `Startup` while the RAM
is filled and until Run, and `Progress` after that, in parts. `Registers`: PC is one
further than the machine's, and between `S_06` and `JSR2` one register is already
overwritten. `Memory`: a store is done in its second clock, and done again in the two
after it. `Answers`: the RAM's word is under way for two clocks. `Decoded` and `Data`:
the state fits the instruction, and the address, the datum and the branch are the
instruction's. The refinement then has a case for each state an instruction ends in
(`InstructionStep`) and one for the reset (`ResetStep`), which finds the memory as the
instruction set has it or with a store done. The lemmas before them are about words: the
AND of halves is a word, and the circuit's extension of a field is that of two's
complement where the wiring gives it the highest bit (`Extension`; of the offset of a
call, only where bits 10 and 9 agree). The proof uses `SizeAssumption`,
`ProgramAssumption` and `SwitchAssumption`. `InstructionEnds` is model-checked;
`TwelveClocks` proves what it needs beside fairness: `ISDU` stays in no state but those that
look at a button, and from one fetch to the next there are at most twelve clocks.

## VgaText

`VgaText.tla` is `vga_text_avl_interface.sv` of `Lab7` with `textVGATest` of
`text_mode_vga.c` as its bus master. A step is an edge of the fast clock, two to a pixel.

| State | Code |
|---|---|
| `clkdiv`, `hc`, `vc` | `vga_controller` |
| `ocm`, `VGA_READDATA` | the on-chip memory in words of four bytes, and the register of its second port |
| `palette_content` | the colours, two to a register |
| `rgb` | the colour that goes to the screen |
| `at`, `i`, `j`, `checksum`, `readsum` | the program: which call of `textVGATest`, and its loops |
| `written` | history: the word the bus wrote at the last edge |

`textVGATest` is the sequence of its calls; each loop is an action for each byte, since
the bus writes byte by byte. While one byte is written the beam reads; a word that is
read and written at one edge gives any mix of its old and new bytes. A reset may
come at any byte and restarts program and beam, not the memory. It is held for at least one edge.

The two weeks of the lab are two maps of one memory. The interface is the second week's,
16 bits to a character; the C program was written for the first, 8 bits to a
character. `PictureAtPause` speaks of what the program promises, bytes in
its own map; `PixelShowsItsCell` of what the interface promises, characters in its map.
For the pair this means that `textVGASetColor` writes the word of `CTRL`, which is now two
characters of row 15, and `textVGAClr` clears half of the words the beam shows.
No code here writes the palette; `WritePalette` is another program.

Left out: the bus's read side for words beyond those the beam reaches, and the copies of
palette writes that land in the memory above it. The texts are not empty and must fit
their rows (`TextAssumption`); the handout's do.

The pixel clock is a division of the bus clock in the code; here both tick at edges of the
bus clock, which makes a difference only for a word read at the edge that writes it, and
`PixelShowsItsCell` leaves that word out (`written`).

`vga_text`: a screen of 2 rows of 4 characters of 2 by 2 pixels with one blank pixel and
line; texts of 2 to 4 bytes; one reset, at any edge. Two characters to a word and two
words to a row make each neighbour of a pixel a case of its own; two rows tell the test's
even rows from its odd ones. Fairness: the processor goes on with its program and a
reset ends; nothing is assumed of how they interleave.

`Video_proofs.tla`, which holds the proofs of both video circuits, proves every safety
property of the run for all screens, fonts, texts and numbers of resets. `IInv` has four parts
next to the types. `Contents` is a postcondition for every call of the script, carried
through its loops: a fill has written the characters up to the next one, a copy has written
its text so far on a screen that is otherwise blank. A reset may come at any time and
asks nothing of the memory, because the first loop of the script clears it.
`Sums` has the checksums in closed form: twice the sum of the first `n` bytes of row `r` is
`n * (2 * r + n - 1)`, so that writing and reading back need not be compared byte by byte.
`Loops` has the ranges of the loop variables, and that the test has not stopped at
`Mismatch`, from which `ReadBackAgrees` follows. `Ahead` is the timing of the
beam: in the first half of a pixel the second port has the pixel's word, unless the bus
wrote that very word. The lemmas before are arithmetic of rows and columns (`CellOf`,
`RowAndColumn`, and `IndexInside`: the beam asks for no word beyond the memory) and the
effect of a byte write on the memory (`StoreEffect`). `TestIsBounded` is what `TestEnds`
needs beside fairness: every step of the program leaves less of the script, by its
place in the script and in its loops, and nothing but a reset takes it back. `ScreenAssumption`
asks for an even number of columns, since a register holds two characters; for whole
words of four characters, since `CTRL` is the word behind the text; and for `ROWS + COLUMNS <=
257`, since the fill's byte `i + j` must not wrap. The code has 30 rows of 80.

## Ball

`Ball.tla` is `ball.sv`: a step is a frame, a new key code, or a reset. All arithmetic
wraps at `Modulus`. The state is the registers' and the key code, `escaped` is a history
variable. It starts as a reset leaves it.

The comments of `ball.sv:59-72` say that the ball bounces at each edge. At the
bottom and the right it does, with any keys. The top and the left edge are seen at
exactly one pixel (`Pos - Size` wraps below it), and a key that is pressed at the wrong
frame takes the ball past: at line 4 on the way up, D and then W. So
`StaysInside` speaks of a ball that has not left over those two edges. A ball that has
may stay out as long as no key is pressed, and holding S or D may pin it between two
lines outside; holding W or A brings it back (`Recalled`).

`ball`: a screen of 23 by 19 with coordinates modulo 32. The properties compare a
position with an edge, and the parameters leave room for all of these cases: inside, at
an edge, past it, wrapped. Fairness: frames go on.

`Video_proofs.tla` proves `BallTypeOK` and `StaysInside` for every screen and radius of at
least 4 (`SizeAssumption`). The invariant bounds how far past an edge a ball may be, by
the motion it has there: a step at the bottom, and up to four at the right edge, because in
a corner the bottom or the top is answered first (`Corner`). `Recalled` is model-checked.

## Adders and Accumulator

`Adders.tla` has the three adders of `Lab3` as functions on vectors of bits, gate by gate;
`Accumulator.tla` is `adder2.sv`: the register, the router and the controller that lets a
press add once. The buttons are not synchronized in the code; here too they may change
between any two edges. A reset with Run held adds again after it, which `OncePerPress` allows.

The carry out of the lookahead unit lacks the term of its own highest bit
(`fourbitCLA_carryunit.sv:14`). Inside the adder this goes unnoticed, because each group's
carry comes from the unit above, whose three lower outputs are complete; the carry out of
all sixteen bits would be wrong for two numbers with bit 15 set, but the switches have
only ten bits. `HoldsTheSum` says so for the accumulator, and that ripple, lookahead and
(on nine bits) select adder agree.

`accumulator`: two settings of the switches, 1023 and 594 (1001010010), and 66 additions:
enough of the first to overflow sixteen bits and go on, with sums of the two that reach
most patterns of carries across the four groups.

`Accumulator_proofs.tla` proves both properties for all switches and any number of
additions. Its lemmas are about the adders alone: one full adder adds; four in a row add,
and four groups; the lookahead carries are the ripple carries of the same bits
(`CarryChain`), within a group and between the groups; so the lookahead adder has the
ripple adder's sum, and its carry out when the highest group of one operand is empty
(`LookaheadIsRipple`); the select adder takes the upper sum for the carry that comes
(`SelectTakesCarry`), so it adds, and its bits are the ripple adder's. `TypeOK` is proved and is in no run.

## SerialProcessor

`SerialProcessor.tla` is the eight-bit processor of `Lab2.2`, a clock edge per step, with
what the synchronizers sample chosen freely. `startA` and `startB` remember the registers as
an operation found them, `fresh` that Execute has been up.

F and R are constants here; the code fixes them to Xor and to "the result into A". The
comment at `Processor.sv:44` says B, and the test bench (`testbench.sv:84-97`) expects
other settings. `reg8_A` and `reg8_B` in `Reg_4.sv` are used nowhere, and end in a stray
`);`.

`serial`: F = R = 2, three words on the switches: the two of the test bench, and one whose
ends differ. They meet each other, zero, and the results of earlier operations. Fairness: the clock does not stop (for `ReadyAgain`).

`SerialProcessor_proofs.tla` proves `Computes` and `OncePerPress` for the 32 settings of F
and R and any words. The invariant says what lies in the registers after `k` shifts: the
last `8 - k` bits of the word found, below the first `k` of the result. `ReadyAgain` is
model-checked, and `TypeOK` is proved and is in no run.

## Proved and checked

The safety properties of all modules are theorems for all values of their constants,
from the assumptions stated there, and so are the refinements of `UsbConnection`,
`UsbPipe` and `Lc3`. Model-checked only: the liveness properties. That a system under fairness gets
somewhere is out of reach of the prover, which has no rule for `ENABLED`, and so is the
induction over a decreasing count. What such an argument rests on is proved where it is not
obvious: a count that every step lowers (`EnumerationIsShort`, `CallsAreBounded`, `ProbesAreShort`,
`TwelveClocks`, `TestIsBounded`). Fairness must then only see to it that steps are taken.

## Not modelled

- The SPI access of the chip's registers (`MAXreg_wr` and the like) and `MaxGpxHandler`,
  which reads a register and ignores it: input and output without state of the program.
- The sync pulses of the VGA controllers and the picture `Color_Mapper` makes of the ball:
  functions of one state; the beam's counters are in `VgaText`.
- Wiring, pins and code generated by the vendor's tools; constant tables (displays,
  font); declarations without behaviour (`GenericTypeDefs.h`, `usb_ch9.h`, the register
  numbers of `MAX3421E.h`); test benches and the memory made for them; `Lab4`'s
  `ari_rightshift_XAB.sv`, which is instantiated nowhere; the reports.
- Time: the USB deadlines, whose 32-bit product of ticks and 1000 wraps
  (`transfer.c:144`). A timeout may come whenever a result is missing.
- A chip whose oscillator never starts: `MAX3421E_reset` waits for it without end.
