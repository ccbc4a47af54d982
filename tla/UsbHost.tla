------------------------------ MODULE UsbHost ------------------------------
(***************************************************************************)
(* The USB host of lab 6: the polled state machine USB_Task (transfer.c),  *)
(* the interrupt handler and bus probe of the MAX3421E driver              *)
(* (MAX3421E.c), the binding done by the two HID probes (HID.c), and, as   *)
(* their environment, the MAX3421E chip and one root port into which a     *)
(* user plugs and unplugs devices.                                         *)
(*                                                                         *)
(* The program is a single loop: it is never interrupted, but the chip and *)
(* the user run beside it, so a handler is split where the code reads the  *)
(* bus and later acknowledges what it read (MaxIntHandler,                 *)
(* MAX3421E_init).  A control transfer is one success or one failure here; *)
(* UsbTransfer models its packets.                                         *)
(***************************************************************************)
EXTENDS Integers

CONSTANTS
  Kinds,        \* the kinds of device a user may plug in
  NoDevice,     \* the empty port
  DevSpeed,     \* [Kinds -> {"FS", "LS"}], the pull-up the device has
  DevClass,     \* [Kinds -> classes], the first interface it describes
  DevMps,       \* [Kinds -> 1..255], bMaxPacketSize0 of its device descriptor
  NumDevices,   \* USB_NUMDEVICES: addresses 1 .. NumDevices-1 are given out
  Rcodes,       \* the result codes a failing transfer returns
  MaxPlugs,     \* bound: how many plug-ins and line glitches a run has
  ResetRaisesCondet \* may a bus reset raise the connection interrupt?

HID_K == "HID_K"
HID_M == "HID_M"
NoClass == "none"

ASSUME KindsAssumption ==
  /\ NoDevice \notin Kinds \cup {HID_K, HID_M, NoClass}
  /\ DevSpeed \in [Kinds -> {"FS", "LS"}]
  /\ DevClass \in [Kinds -> {HID_K, HID_M, NoClass}]
  /\ DevMps \in [Kinds -> 1..255]
ASSUME NumDevicesAssumption == NumDevices \in Nat /\ NumDevices >= 2
ASSUME RcodesAssumption == Rcodes \subseteq (1..15 \cup {240, 255})
ASSUME BoundsAssumption == MaxPlugs \in Nat /\ ResetRaisesCondet \in BOOLEAN

(* The states of USB_Task, as USB.h numbers them: the high nibble is the   *)
(* state, the low nibble the substate, and MaxIntHandler does arithmetic   *)
(* on them.                                                                *)
USB_DETACHED_SUBSTATE_INITIALIZE      == \h01
USB_DETACHED_SUBSTATE_WAIT_FOR_DEVICE == \h03
USB_DETACHED_SUBSTATE_ILLEGAL         == \h04
USB_STATE_DETACHED                    == \h00
USB_STATE_ATTACHED                    == \h10
USB_ATTACHED_SUBSTATE_SETTLE          == \h11
USB_ATTACHED_SUBSTATE_RESET_DEVICE    == \h12
USB_ATTACHED_SUBSTATE_WAIT_RESET_COMPLETE == \h13
USB_ATTACHED_SUBSTATE_WAIT_SOF        == \h14
USB_ATTACHED_SUBSTATE_GET_DEVICE_DESCRIPTOR_SIZE == \h15
USB_STATE_ADDRESSING                  == \h20
USB_STATE_CONFIGURING                 == \h30
USB_STATE_RUNNING                     == \h40
USB_STATE_ERROR                       == \hff

\* usb_task_state & USB_STATE_MASK
Masked(s) == s - (s % 16)

VARIABLES
  \* globals of transfer.c and HID.c
  usb_task_state, usb_error, last_usb_task_state,
  usb_delay,    \* is the settle timer running, or expired?
  tmp_addr, hid_addr,   \* USB_Task's tmp_addr, hid_device.addr
  epinfo,       \* devtable[].epinfo: NULL, or one of two endpoint records
  devclass,     \* devtable[].devclass
  MaxPktSize,   \* MaxPktSize of the endpoint 0 records dev0ep and hid_ep
  \* registers of the chip
  mode,         \* LOWSPEED of rMODE: the speed the host runs at
  hirq,         \* the bits of rHIRQ that are set
  bus,          \* "idle", or "reset" while BUSRST of rHCTL is set
  \* the port
  dev,          \* the device plugged in, or NoDevice
  dev_addr, dev_state,  \* its address; "powered", "reset" or "configured"
  lines,        \* "SE1" while D+ and D- are both high, else "normal"
  plugs,        \* plug-ins and glitches so far
  \* the program
  pc,           \* where the main loop is
  sendback      \* HIRQ_sendback: the rHIRQ bits MaxIntHandler will clear, {} outside it

errors  == <<usb_error, last_usb_task_state>>
tables  == <<tmp_addr, hid_addr, epinfo, devclass, MaxPktSize>>
device  == <<dev, dev_addr, dev_state>>
port    == <<device, lines, plugs>>
control == <<pc, sendback>>
vars    == <<usb_task_state, errors, usb_delay, tables, mode, hirq, bus, port, control>>

Init ==
  /\ usb_task_state = USB_DETACHED_SUBSTATE_INITIALIZE
  /\ usb_error = 0 /\ last_usb_task_state = 0
  /\ usb_delay = "expired"
  /\ tmp_addr = 0 /\ hid_addr = 0
  /\ epinfo = [i \in 0..NumDevices |-> "NULL"]
  /\ devclass = [i \in 0..NumDevices |-> NoClass]
  /\ MaxPktSize = [e \in {"dev0ep", "hid_ep"} |-> 0]
  /\ mode = "FS"
  /\ hirq = {}
  /\ bus = "idle"
  /\ dev \in Kinds \cup {NoDevice}
  /\ dev_addr = 0 /\ dev_state = "powered"
  /\ lines = "normal" /\ plugs = 0
  /\ pc = "boot"
  /\ sendback = {}

-----------------------------------------------------------------------------
(* The MAX3421E driver.                                                    *)

\* JSTATUS and KSTATUS of rHRSL: J is the idle state of the host's own speed.
BusSample ==
  IF lines = "SE1" THEN "SE1"
  ELSE IF dev = NoDevice THEN "SE0"
  ELSE IF DevSpeed[dev] = mode THEN "J" ELSE "K"

Flip(m) == IF m = "FS" THEN "LS" ELSE "FS"

\* mutant: a host that is running does not notice that its device was replaced.
ProbeDeviceUnlessRunning ==
  /\ BusSample \in {"J", "K"}
  /\ IF usb_task_state \in {USB_ATTACHED_SUBSTATE_WAIT_RESET_COMPLETE, USB_STATE_RUNNING}
       THEN UNCHANGED <<mode, usb_task_state>>
       ELSE /\ mode' = IF BusSample = "J" THEN mode ELSE Flip(mode)
            /\ usb_task_state' = USB_STATE_ATTACHED

\* A device is on the line: attach it, at its speed, but not because of the
\* interrupt the reset it waits for has caused.
ProbeDevice ==
  /\ BusSample \in {"J", "K"}
  /\ IF usb_task_state = USB_ATTACHED_SUBSTATE_WAIT_RESET_COMPLETE
       THEN UNCHANGED <<mode, usb_task_state>>
       ELSE /\ mode' = IF BusSample = "J" THEN mode ELSE Flip(mode)
            /\ usb_task_state' = USB_STATE_ATTACHED

\* mutant: only a port whose device is still attaching becomes detached.
ProbeNothingWhileAttaching ==
  /\ BusSample = "SE0"
  /\ usb_task_state' = IF Masked(usb_task_state) = USB_STATE_ATTACHED
                         THEN USB_DETACHED_SUBSTATE_INITIALIZE ELSE usb_task_state
  /\ UNCHANGED mode

\* The port is empty: let USB_Task clear its tables, unless it has.
ProbeNothing ==
  /\ BusSample = "SE0"
  /\ IF Masked(usb_task_state) # USB_STATE_DETACHED
       THEN /\ usb_task_state' = USB_DETACHED_SUBSTATE_INITIALIZE
            /\ UNCHANGED mode
       ELSE /\ usb_task_state' = USB_DETACHED_SUBSTATE_WAIT_FOR_DEVICE
            /\ mode' = "FS"

\* Look at the bus and put the state machine where the line says it belongs.
MAX_busprobe ==
  \/ ProbeDevice
  \/ /\ BusSample = "SE1"
     /\ usb_task_state' = USB_DETACHED_SUBSTATE_ILLEGAL
     /\ UNCHANGED mode
  \/ ProbeNothing

\* First half of MaxIntHandler: the pin is low only while CONDETIRQ, the one
\* enabled interrupt, is pending; the pending bits are noted, the bus probed.
MaxIntHandlerProbe ==
  /\ pc = "loop"
  /\ "CONDET" \in hirq
  /\ sendback' = hirq
  /\ MAX_busprobe
  /\ pc' = "ack"
  /\ UNCHANGED <<errors, usb_delay, tables, hirq, bus, port>>

\* Second half: a noted bus event advances usb_task_state, a BYTE, and the
\* noted bits are written back to rHIRQ, which clears them.
MaxIntHandlerAck ==
  /\ pc = "ack"
  /\ usb_task_state' =
       IF "BUSEVENT" \in sendback THEN (usb_task_state + 1) % 256 ELSE usb_task_state
  /\ hirq' = hirq \ sendback
  /\ sendback' = {}
  /\ pc' = "loop"
  /\ UNCHANGED <<errors, usb_delay, tables, mode, bus, port>>

\* MAX3421E_init up to its bus probe ...
MAX3421E_init ==
  /\ pc = "boot"
  /\ MAX_busprobe
  /\ pc' = "bootack"
  /\ UNCHANGED <<errors, usb_delay, tables, hirq, bus, port, sendback>>

\* ... and the clearing of CONDETIRQ that follows it.
MAX3421E_initAck ==
  /\ pc = "bootack"
  /\ hirq' = hirq \ {"CONDET"}
  /\ pc' = "init"
  /\ UNCHANGED <<usb_task_state, errors, usb_delay, tables, mode, bus, port, sendback>>

-----------------------------------------------------------------------------
(* The state machine of transfer.c.                                        *)

\* mutant: the default address has no endpoint record.
USB_initNoDev0 ==
  /\ epinfo' = [i \in 0..NumDevices |-> "NULL"]
  /\ devclass' = [i \in 0..NumDevices |-> NoClass]
  /\ MaxPktSize' = [MaxPktSize EXCEPT !["dev0ep"] = 0]

\* Clears the device table and the endpoint record of the default address.
USB_init ==
  /\ epinfo' = [i \in 0..NumDevices |-> IF i = 0 THEN "dev0ep" ELSE "NULL"]
  /\ devclass' = [i \in 0..NumDevices |-> NoClass]
  /\ MaxPktSize' = [MaxPktSize EXCEPT !["dev0ep"] = 0]

\* The program calls USB_init once before it enters its loop.
MainInit ==
  /\ pc = "init"
  /\ USB_init
  /\ pc' = "loop"
  /\ UNCHANGED <<usb_task_state, errors, usb_delay, tmp_addr, hid_addr, mode, hirq, bus, port, sendback>>

\* USB_Task is called from the loop and dispatches on usb_task_state.
InState(s) == pc = "loop" /\ usb_task_state = s /\ UNCHANGED control

\* mutant: the state that failed is noted after it was left.
ErrorNotedLate(code) ==
  /\ usb_error' = code
  /\ last_usb_task_state' = USB_STATE_ERROR
  /\ usb_task_state' = USB_STATE_ERROR

\* mutant: after a failure the enumeration starts again.
ErrorRetries(code) ==
  /\ usb_error' = code
  /\ last_usb_task_state' = usb_task_state
  /\ usb_task_state' = USB_STATE_ATTACHED

Error(code) ==
  /\ usb_error' = code
  /\ last_usb_task_state' = usb_task_state
  /\ usb_task_state' = USB_STATE_ERROR

\* Does the device answer a control transfer sent to address a?
Answers(a) ==
  /\ dev # NoDevice /\ lines = "normal" /\ bus = "idle"
  /\ DevSpeed[dev] = mode
  /\ dev_state # "powered" /\ dev_addr = a

DetachedInitialize ==
  /\ InState(USB_DETACHED_SUBSTATE_INITIALIZE)
  /\ USB_init
  /\ usb_task_state' = USB_DETACHED_SUBSTATE_WAIT_FOR_DEVICE
  /\ UNCHANGED <<errors, usb_delay, tmp_addr, hid_addr, mode, hirq, bus, port>>

StartSettle ==
  /\ InState(USB_STATE_ATTACHED)
  /\ usb_delay' = "running"
  /\ usb_task_state' = USB_ATTACHED_SUBSTATE_SETTLE
  /\ UNCHANGED <<errors, tables, mode, hirq, bus, port>>

Settle ==
  /\ InState(USB_ATTACHED_SUBSTATE_SETTLE)
  /\ usb_delay = "expired"
  /\ usb_task_state' = USB_ATTACHED_SUBSTATE_RESET_DEVICE
  /\ UNCHANGED <<errors, usb_delay, tables, mode, hirq, bus, port>>

ResetDevice ==
  /\ InState(USB_ATTACHED_SUBSTATE_RESET_DEVICE)
  /\ hirq' = hirq \ {"BUSEVENT"}
  /\ bus' = "reset"
  /\ usb_task_state' = USB_ATTACHED_SUBSTATE_WAIT_RESET_COMPLETE
  /\ UNCHANGED <<errors, usb_delay, tables, mode, port>>

WaitResetComplete ==
  /\ InState(USB_ATTACHED_SUBSTATE_WAIT_RESET_COMPLETE)
  /\ bus = "idle"
  /\ usb_task_state' = USB_ATTACHED_SUBSTATE_WAIT_SOF
  /\ UNCHANGED <<errors, usb_delay, tables, mode, hirq, bus, port>>

\* rHIRQ | bmFRAMEIRQ is never zero, so the code does not wait here.
WaitSof ==
  /\ InState(USB_ATTACHED_SUBSTATE_WAIT_SOF)
  /\ usb_task_state' = USB_ATTACHED_SUBSTATE_GET_DEVICE_DESCRIPTOR_SIZE
  /\ UNCHANGED <<errors, usb_delay, tables, mode, hirq, bus, port>>

\* The first 8 bytes of the device descriptor decide; what the transfers of
\* the whole descriptor and of the strings return is not looked at.
GetDeviceDescriptor ==
  /\ InState(USB_ATTACHED_SUBSTATE_GET_DEVICE_DESCRIPTOR_SIZE)
  /\ \/ /\ Answers(0)
        /\ MaxPktSize' = [MaxPktSize EXCEPT ![epinfo[0]] = DevMps[dev]]
        /\ usb_task_state' = USB_STATE_ADDRESSING
        /\ UNCHANGED errors
     \/ /\ MaxPktSize' = [MaxPktSize EXCEPT ![epinfo[0]] = 8]
        /\ \E rcode \in Rcodes : Error(rcode)
  /\ UNCHANGED <<usb_delay, tmp_addr, hid_addr, epinfo, devclass, mode, hirq,
                 bus, port>>

\* mutant: the search runs one entry too far.
FreeAddrsOneMore == {i \in 1..NumDevices : epinfo[i] = "NULL"}

FreeAddrs == {i \in 1..(NumDevices - 1) : epinfo[i] = "NULL"}

\* Address i is taken from the table before the transfer and is kept when the
\* transfer fails; the device may then have taken it too (a lost answer).
SetAddress(i) ==
  /\ epinfo' = [epinfo EXCEPT ![i] = epinfo[0]]
  /\ \/ /\ Answers(0)
        /\ dev_addr' = i
        /\ tmp_addr' = i
        /\ usb_task_state' = USB_STATE_CONFIGURING
        /\ UNCHANGED errors
     \/ /\ dev_addr' \in IF Answers(0) THEN {dev_addr, i} ELSE {dev_addr}
        /\ \E rcode \in Rcodes : Error(rcode)
        /\ UNCHANGED tmp_addr

\* mutant: the search goes on after the first free address, to the last.
AddressingLast ==
  /\ InState(USB_STATE_ADDRESSING)
  /\ \/ \E i \in FreeAddrs :
          /\ \A j \in FreeAddrs : j <= i
          /\ SetAddress(i)
     \/ /\ FreeAddrs = {}
        /\ Error(\hfe)
        /\ UNCHANGED <<epinfo, dev_addr, tmp_addr>>
  /\ UNCHANGED <<usb_delay, hid_addr, devclass, MaxPktSize, mode, hirq, bus,
                 dev, dev_state, lines, plugs>>

Addressing ==
  /\ InState(USB_STATE_ADDRESSING)
  /\ \/ \E i \in FreeAddrs :
          /\ \A j \in FreeAddrs : i <= j
          /\ SetAddress(i)
     \/ /\ FreeAddrs = {}
        /\ Error(\hfe)
        /\ UNCHANGED <<epinfo, dev_addr, tmp_addr>>
  /\ UNCHANGED <<usb_delay, hid_addr, devclass, MaxPktSize, mode, hirq, bus,
                 dev, dev_state, lines, plugs>>

-----------------------------------------------------------------------------
(* HID.c: HIDMProbe and HIDKProbe differ in the protocol they look for.    *)

\* mutant: the driver's endpoint 0 keeps the packet size of an earlier device.
BindStaleSize(class) ==
  /\ devclass' = [devclass EXCEPT ![tmp_addr] = class]
  /\ epinfo' = [epinfo EXCEPT ![tmp_addr] = "hid_ep"]
  /\ UNCHANGED MaxPktSize
  /\ hid_addr' = tmp_addr

\* What a probe writes once the first interface has its class.
Bind(class) ==
  /\ devclass' = [devclass EXCEPT ![tmp_addr] = class]
  /\ epinfo' = [epinfo EXCEPT ![tmp_addr] = "hid_ep"]
  /\ MaxPktSize' = [MaxPktSize EXCEPT !["hid_ep"] = MaxPktSize[epinfo[tmp_addr]]]
  /\ hid_addr' = tmp_addr

\* mutant: the class of the interface is not compared.
ProbeAcceptsAny(class) ==
  /\ Answers(tmp_addr)
  /\ Bind(class)
  /\ dev_state' = "configured"
  /\ usb_task_state' = USB_STATE_RUNNING
  /\ UNCHANGED errors

\* The probe of this class finds its interface, and its endpoint, and the
\* device accepts SetConf and SetProto.
ProbeAccepts(class) ==
  /\ Answers(tmp_addr)
  /\ DevClass[dev] = class
  /\ Bind(class)
  /\ dev_state' = "configured"
  /\ usb_task_state' = USB_STATE_RUNNING
  /\ UNCHANGED errors

\* The probe binds, then finds no endpoint or fails SetConf or SetProto; the
\* probes after it do not match, and no driver is left.
ProbeBindsAndFails(class) ==
  /\ Answers(tmp_addr)
  /\ DevClass[dev] = class
  /\ Bind(class)
  /\ dev_state' \in {dev_state, "configured"}
  /\ Error(\hfd)

\* No probe reads a configuration whose first interface it knows.
NoProbeMatches ==
  /\ Error(\hfd)
  /\ UNCHANGED <<devclass, epinfo, MaxPktSize, hid_addr, dev_state>>

Configuring ==
  /\ InState(USB_STATE_CONFIGURING)
  /\ \/ \E class \in {HID_M, HID_K} : ProbeAccepts(class) \/ ProbeBindsAndFails(class)
     \/ NoProbeMatches
  /\ UNCHANGED <<usb_delay, tmp_addr, mode, hirq, bus, dev, dev_addr,
                 lines, plugs>>

\* The branches of USB_Task that do nothing: waiting, running, error, default.
NoCase ==
  /\ pc = "loop"
  /\ \/ Masked(usb_task_state) = USB_STATE_DETACHED
        /\ usb_task_state # USB_DETACHED_SUBSTATE_INITIALIZE
     \/ usb_task_state \in {USB_STATE_RUNNING, USB_STATE_ERROR}
  /\ UNCHANGED vars

USB_Task ==
  \/ DetachedInitialize \/ StartSettle \/ Settle \/ ResetDevice
  \/ WaitResetComplete \/ WaitSof \/ GetDeviceDescriptor
  \/ Addressing \/ Configuring \/ NoCase

-----------------------------------------------------------------------------
(* The chip and the user.                                                  *)

\* A bus reset ends: the chip raises BUSEVENTIRQ, and the device is back at
\* address 0.  The line moves during a reset, which may look like a new
\* connection ("bus reset causes connection detect interrupt").
ResetDone ==
  /\ bus = "reset"
  /\ bus' = "idle"
  /\ \/ hirq' = hirq \cup {"BUSEVENT"}
     \/ /\ ResetRaisesCondet
        /\ hirq' = hirq \cup {"BUSEVENT", "CONDET"}
  /\ dev_addr' = 0
  /\ dev_state' = IF dev = NoDevice THEN "powered" ELSE "reset"
  /\ UNCHANGED <<usb_task_state, errors, usb_delay, tables, mode, dev, lines, plugs,
                 control>>

\* The chip sends a frame every millisecond, except during a bus reset.
Frame ==
  /\ bus = "idle" /\ "FRAME" \notin hirq
  /\ hirq' = hirq \cup {"FRAME"}
  /\ UNCHANGED <<usb_task_state, errors, usb_delay, tables, mode, bus, port, control>>

SettleExpires ==
  /\ usb_delay = "running"
  /\ usb_delay' = "expired"
  /\ UNCHANGED <<usb_task_state, errors, tables, mode, hirq, bus, port, control>>

\* A device that gets power has no address and waits for a bus reset.
FreshDevice == dev_addr' = 0 /\ dev_state' = "powered"

ConnectionChanges ==
  /\ hirq' = hirq \cup {"CONDET"}
  /\ UNCHANGED <<usb_task_state, errors, usb_delay, tables, mode, bus, control>>

Plug(d) ==
  /\ dev = NoDevice /\ lines = "normal" /\ plugs < MaxPlugs
  /\ dev' = d
  /\ FreshDevice
  /\ plugs' = plugs + 1
  /\ ConnectionChanges
  /\ UNCHANGED lines

Unplug ==
  /\ dev # NoDevice /\ lines = "normal"
  /\ dev' = NoDevice
  /\ FreshDevice
  /\ ConnectionChanges
  /\ UNCHANGED <<lines, plugs>>

Glitch ==
  /\ lines = "normal" /\ plugs < MaxPlugs
  /\ lines' = "SE1"
  /\ plugs' = plugs + 1
  /\ ConnectionChanges
  /\ UNCHANGED device

GlitchEnds ==
  /\ lines = "SE1"
  /\ lines' = "normal"
  /\ ConnectionChanges
  /\ UNCHANGED <<device, plugs>>

Environment ==
  \/ ResetDone \/ Frame \/ SettleExpires
  \/ (\E d \in Kinds : Plug(d)) \/ Unplug \/ Glitch \/ GlitchEnds

Program ==
  \/ MAX3421E_init \/ MAX3421E_initAck \/ MainInit
  \/ MaxIntHandlerProbe \/ MaxIntHandlerAck \/ USB_Task

Next == Program \/ Environment

Spec == Init /\ [][Next]_vars

(* The main loop keeps calling MAX3421E_Task and USB_Task; the chip ends a *)
(* reset, time passes, and a line does not stay illegal.  Nothing is       *)
(* assumed of the user, nor of the result of a transfer.                   *)
Fairness ==
  /\ WF_vars(MAX3421E_init) /\ WF_vars(MAX3421E_initAck) /\ WF_vars(MainInit)
  /\ WF_vars(MaxIntHandlerProbe) /\ WF_vars(MaxIntHandlerAck)
  /\ WF_vars(USB_Task)
  /\ WF_vars(ResetDone) /\ WF_vars(SettleExpires) /\ WF_vars(GlitchEnds)

FairSpec == Spec /\ Fairness

-----------------------------------------------------------------------------
(* Properties.                                                             *)

TaskStates ==
  {USB_DETACHED_SUBSTATE_INITIALIZE, \h02, USB_DETACHED_SUBSTATE_WAIT_FOR_DEVICE,
   USB_DETACHED_SUBSTATE_ILLEGAL, \h05, USB_STATE_ATTACHED,
   USB_ATTACHED_SUBSTATE_SETTLE, USB_ATTACHED_SUBSTATE_RESET_DEVICE,
   USB_ATTACHED_SUBSTATE_WAIT_RESET_COMPLETE, USB_ATTACHED_SUBSTATE_WAIT_SOF,
   USB_ATTACHED_SUBSTATE_GET_DEVICE_DESCRIPTOR_SIZE, USB_STATE_ADDRESSING,
   USB_STATE_CONFIGURING, USB_STATE_RUNNING, USB_STATE_ERROR}

\* The type of every variable; usb_task_state, on which the interrupt handler
\* does arithmetic, keeps to the states above (two of them have no name).
TypeOK ==
  /\ usb_task_state \in TaskStates
  /\ usb_error \in 0..255
  /\ last_usb_task_state \in 0..255
  /\ usb_delay \in {"running", "expired"}
  /\ tmp_addr \in 0..(NumDevices - 1)
  /\ hid_addr \in 0..(NumDevices - 1)
  /\ epinfo \in [0..NumDevices -> {"NULL", "dev0ep", "hid_ep"}]
  /\ devclass \in [0..NumDevices -> {NoClass, HID_K, HID_M}]
  /\ MaxPktSize \in [{"dev0ep", "hid_ep"} -> 0..255]
  /\ mode \in {"FS", "LS"}
  /\ hirq \subseteq {"CONDET", "BUSEVENT", "FRAME"}
  /\ bus \in {"idle", "reset"}
  /\ dev \in Kinds \cup {NoDevice}
  /\ dev_addr \in 0..(NumDevices - 1)
  /\ dev_state \in {"powered", "reset", "configured"}
  /\ lines \in {"normal", "SE1"}
  /\ plugs \in 0..MaxPlugs
  /\ pc \in {"boot", "bootack", "init", "loop", "ack"}
  /\ sendback \subseteq {"CONDET", "BUSEVENT", "FRAME"}

\* In which states is the host talking to the device at this address?
TalksTo(a) ==
  \/ usb_task_state = USB_STATE_ADDRESSING /\ a = 0
  \/ usb_task_state = USB_STATE_CONFIGURING /\ a = tmp_addr
  \/ usb_task_state = USB_STATE_RUNNING /\ a = hid_addr

\* While no connection change is waiting, the host that addresses, configures
\* or runs a device has that very device in its port: reset, at the address
\* the host uses, at the speed the host runs at.  A glitch, a replug or an
\* interrupted enumeration anywhere before must not leave a host that talks
\* to somebody else.
HostAgreesWithDevice ==
  "CONDET" \notin hirq =>
    \A a \in 0..(NumDevices - 1) : TalksTo(a) => Answers(a)

\* A running host has bound the device in the port as what it is: its class,
\* its control endpoint size, configured at the address the driver polls.
DriverBoundToDevice ==
  usb_task_state = USB_STATE_RUNNING /\ "CONDET" \notin hirq =>
    /\ hid_addr = tmp_addr
    /\ epinfo[hid_addr] = "hid_ep" /\ devclass[hid_addr] = DevClass[dev]
    /\ MaxPktSize["hid_ep"] = DevMps[dev]
    /\ dev_state = "configured"

\* No endpoint record is reached through a NULL epinfo, whatever path (boot
\* with a device, replug, failed enumeration) led to the state that uses it.
EpinfoNotNull ==
  /\ usb_task_state \in {USB_ATTACHED_SUBSTATE_GET_DEVICE_DESCRIPTOR_SIZE,
                         USB_STATE_ADDRESSING} /\ pc = "loop"
       => epinfo[0] # "NULL"
  /\ usb_task_state \in {USB_STATE_CONFIGURING, USB_STATE_RUNNING}
       => epinfo[tmp_addr] # "NULL"

\* In an error state usb_error and last_usb_task_state tell the causes apart that
\* the code tells apart: fd means that no probe has succeeded, because no driver
\* knows the device or because a transfer of the one that does has failed; fe
\* that the address table is full, and it is; any other code is the result of
\* the descriptor or the address transfer, the ff of a packet without result
\* included.  (The list above USB_Task reads ff otherwise: UnsupportedIsFf.)
ErrorNamesItsCause ==
  usb_task_state = USB_STATE_ERROR =>
    \/ usb_error = \hfd /\ last_usb_task_state = USB_STATE_CONFIGURING
    \/ usb_error = \hfe /\ last_usb_task_state = USB_STATE_ADDRESSING /\ FreeAddrs = {}
    \/ usb_error \in Rcodes /\ last_usb_task_state \in
         {USB_ATTACHED_SUBSTATE_GET_DEVICE_DESCRIPTOR_SIZE, USB_STATE_ADDRESSING}

\* The addresses in use are a prefix of the table: the device enumerated last
\* has the highest, so no older record is ever overwritten while it is held.
AddressesContiguous ==
  /\ \A i \in 1..(NumDevices - 1) : \A j \in 1..i :
       epinfo[i] # "NULL" => epinfo[j] # "NULL"
  /\ usb_task_state = USB_STATE_CONFIGURING =>
       \A i \in 1..(NumDevices - 1) : i > tmp_addr => epinfo[i] = "NULL"

\* States in which USB_Task waits for the user: nothing plugged in, an illegal
\* port, a served device, or a reported error.
Quiescent ==
  {\h02, USB_DETACHED_SUBSTATE_WAIT_FOR_DEVICE, USB_DETACHED_SUBSTATE_ILLEGAL,
   \h05, USB_STATE_RUNNING, USB_STATE_ERROR}

\* Once the user leaves the port alone enumeration ends, with bus resets that
\* raise the connection interrupt.  One cycle alone can keep USB_Task attaching
\* for ever: that of the reset's own interrupt, when USB_Task leaves the state
\* that waits for the reset before the handler has seen it, each time again.
EnumerationTerminates ==
  \/ []<><<WaitResetComplete /\ "CONDET" \in hirq>>_vars
  \/ <>[](usb_task_state \in Quiescent)

\* A running host whose device was unplugged leaves the running state.
UnplugIsNoticed ==
  usb_task_state = USB_STATE_RUNNING /\ dev = NoDevice
    ~> usb_task_state # USB_STATE_RUNNING

(* The inductive invariant behind HostAgreesWithDevice and the others: what  *)
(* holds at each point of the main loop, beside those properties.            *)

\* Until a bus probe is acknowledged the state is one a probe can leave, so the
\* bus event that is added to it never reaches a state that uses the device.
ProbedStates ==
  /\ pc = "boot" => usb_task_state = USB_DETACHED_SUBSTATE_INITIALIZE
  /\ pc \in {"bootack", "init"} => usb_task_state \in
       {USB_DETACHED_SUBSTATE_WAIT_FOR_DEVICE, USB_DETACHED_SUBSTATE_ILLEGAL,
        USB_STATE_ATTACHED}
  /\ pc = "ack" => usb_task_state \in
       {USB_DETACHED_SUBSTATE_INITIALIZE, USB_DETACHED_SUBSTATE_WAIT_FOR_DEVICE,
        USB_DETACHED_SUBSTATE_ILLEGAL, USB_STATE_ATTACHED,
        USB_ATTACHED_SUBSTATE_WAIT_RESET_COMPLETE}

\* Which endpoint record the device table holds for the address in use.
RecordInUse ==
  /\ pc \in {"loop", "ack"} => epinfo[0] = "dev0ep"
  /\ usb_task_state = USB_STATE_CONFIGURING =>
       tmp_addr # 0 /\ epinfo[tmp_addr] = "dev0ep"
  /\ usb_task_state = USB_STATE_RUNNING =>
       tmp_addr # 0 /\ hid_addr = tmp_addr /\ epinfo[tmp_addr] = "hid_ep"

\* dev0ep holds the size the device reported until a driver copies it.
SizeKnown ==
  usb_task_state \in {USB_STATE_ADDRESSING, USB_STATE_CONFIGURING} /\ "CONDET" \notin hirq
    => MaxPktSize["dev0ep"] = DevMps[dev]

\* What a handler acknowledges includes the change it was called for.
AckedChange ==
  pc = "ack" => "CONDET" \in sendback /\ "CONDET" \in hirq

IInv ==
  /\ TypeOK /\ ProbedStates /\ RecordInUse /\ SizeKnown /\ AckedChange
  /\ HostAgreesWithDevice /\ DriverBoundToDevice
  /\ ErrorNamesItsCause /\ AddressesContiguous

-----------------------------------------------------------------------------
(* The port as UsbConnection sees it.  A change is pending from the moment *)
(* the chip reports it, and at boot until MAX3421E_init has probed the bus.*)
Phase ==
  IF Masked(usb_task_state) = USB_STATE_DETACHED THEN "Detached"
  ELSE IF Masked(usb_task_state) \in
            {USB_STATE_ATTACHED, USB_STATE_ADDRESSING, USB_STATE_CONFIGURING}
    THEN "Enumerating"
  ELSE IF usb_task_state = USB_STATE_RUNNING THEN "Running" ELSE "Failed"

Connection == INSTANCE UsbConnection WITH
  Classes <- {HID_K, HID_M, NoClass},
  Drivers <- {HID_K, HID_M},
  Nothing <- NoDevice,
  present <- IF dev = NoDevice THEN NoDevice ELSE DevClass[dev],
  changed <- "CONDET" \in hirq \/ pc \in {"boot", "bootack"},
  phase   <- Phase,
  bound   <- IF usb_task_state = USB_STATE_RUNNING
               THEN devclass[hid_addr] ELSE NoDevice

\* The host implements UsbConnection: it binds a driver only to the device in
\* the port, and acknowledges a change only once that driver is let go.
ImplementsConnection == Connection!Spec

-----------------------------------------------------------------------------
(* What comments of the code say and the code does not do.                 *)

\* "write '1' to CONDETIRQ to ack bus state change": what is acknowledged is
\* the change that was looked at, so a handler never leaves an empty port and
\* no pending change to a state machine that is attaching a device.
ChangeNeverLost ==
  [][pc = "ack" /\ pc' = "loop" /\ dev = NoDevice
       => Masked(usb_task_state') = USB_STATE_DETACHED]_vars

\* "ff - unsupported device": a host that goes to its error state with ff has a
\* device in its port that no driver knows.
UnsupportedIsFf ==
  [][usb_task_state # USB_STATE_ERROR /\ usb_task_state' = USB_STATE_ERROR
       /\ usb_error' = \hff
       => dev # NoDevice /\ DevClass[dev] \notin {HID_K, HID_M}]_vars
=============================================================================
