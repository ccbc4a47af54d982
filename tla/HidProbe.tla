------------------------------ MODULE HidProbe ------------------------------
(***************************************************************************)
(* HIDMProbe and HIDKProbe of HID.c, which USB_Task calls in this order:   *)
(* the configuration is read into bigbuf, walked by the lengths its        *)
(* descriptors give of themselves, and the driver bound to the first       *)
(* interface.  Devices come one after the other and bigbuf is never        *)
(* cleared.  Each of the four transfers may fail.                          *)
(***************************************************************************)
EXTENDS Integers

CONSTANTS
  Devices,    \* configurations a device may have
  BufSize,    \* bytes of bigbuf (256)
  MaxDevices  \* bound: devices plugged in one after the other

HID_K == 1
HID_M == 2

\* What the walk tells of a descriptor.  class stands for the bytes of class,
\* subclass and protocol: a driver's number, or 0 for all others.
Descriptor(type, length, class, number) ==
  [bLength |-> length, class |-> class, number |-> number, bDescriptorType |-> type]

Configuration == "configuration"
Interface     == "interface"
Endpoint      == "endpoint"

\* bigbuf at the start, and a byte in the middle of a descriptor: a walk that
\* comes to one has lost its way.
Blank == Descriptor("none", 0, 0, 0)

\* d.at gives the descriptors of device d by their places among d.total bytes:
\* from one, its length leads to the next or to the end.
Chained(d) ==
  /\ d.total \in Nat /\ DOMAIN d.at \subseteq 0..d.total - 1
  /\ 0 \in DOMAIN d.at /\ d.at[0].bDescriptorType = Configuration
  /\ \A s \in DOMAIN d.at :
       LET next == s + d.at[s].bLength
       IN  /\ d.at[s].bLength \in Nat /\ next > s
           /\ next \in DOMAIN d.at \/ next = d.total
           /\ \A t \in DOMAIN d.at : t <= s \/ t >= next

\* The places of the descriptors of a type from s on, and the first of them.
Places(d, type, s) == {t \in DOMAIN d.at : t >= s /\ d.at[t].bDescriptorType = type}
First(d, type, s) == CHOOSE t \in Places(d, type, s) : \A u \in Places(d, type, s) : t <= u

\* A search for a type from s on ends in the first BufSize bytes.
Within(d, type, s) ==
  IF Places(d, type, s) = {} THEN d.total <= BufSize
  ELSE First(d, type, s) + d.at[First(d, type, s)].bLength <= BufSize

\* What the probes look for is not cut off by the size of bigbuf, and the
\* endpoint found behind a boot interface is that interface's.
Conforming(d) ==
  LET intf == First(d, Interface, 0)
  IN  /\ Within(d, Interface, 0)
      /\ Places(d, Interface, 0) # {} /\ d.at[intf].class \in {HID_M, HID_K} =>
           /\ Within(d, Endpoint, intf)
           /\ \A s \in Places(d, Interface, intf + 1) :
                Places(d, Endpoint, intf) # {} => First(d, Endpoint, intf) < s

ASSUME DeviceAssumption == \A d \in Devices : Chained(d) /\ Conforming(d)
ASSUME BufAssumption == BufSize \in Nat /\ \A d \in Devices : d.at[0].bLength <= BufSize

VARIABLES
  dev,           \* the device in the port, configured by no probe yet, or later
  pc, class,     \* where the probe is, and which probe it is
  byte_ptr, total_length, confvalue,
  bigbuf,
  devclass, epinfo, interface, epAddr,  \* what a probe binds
  dev_conf, dev_boot,  \* the device: its configuration (0: none), boot protocol set
  fresh,         \* history: bytes of bigbuf read from this device
  devices        \* devices so far

bound == <<devclass, epinfo, interface, epAddr>>
buffer == <<bigbuf, fresh>>
device == <<dev, dev_conf, dev_boot, devices>>
vars == <<device, pc, class, byte_ptr, total_length, confvalue, buffer, bound>>

Init ==
  /\ dev \in Devices /\ dev_conf = 0 /\ dev_boot = FALSE /\ devices = 1
  /\ pc = "header" /\ class = HID_M
  /\ byte_ptr = 0 /\ total_length = 0 /\ confvalue = 0
  /\ bigbuf = [o \in 0..BufSize - 1 |-> Blank] /\ fresh = 0
  /\ devclass = 0 /\ epinfo = "dev0ep" /\ interface = 0 /\ epAddr = 0

-----------------------------------------------------------------------------
\* n bytes of the configuration are read to the start of bigbuf.
ReadConf(n) ==
  /\ bigbuf' = [o \in 0..BufSize - 1 |->
                  IF o >= n THEN bigbuf[o] ELSE IF o \in DOMAIN dev.at THEN dev.at[o] ELSE Blank]
  /\ fresh' = n

\* return FALSE: USB_Task goes to the keyboard's probe, or gives up.
ReturnFalse ==
  IF class = HID_M
  THEN pc' = "header" /\ class' = HID_K /\ byte_ptr' = 0
  ELSE pc' = "failed" /\ UNCHANGED <<class, byte_ptr>>

\* mutant: the length is taken as the device gives it.
GetHeaderUnclamped ==
  /\ pc = "header"
  /\ ReadConf(dev.at[0].bLength)
  /\ total_length' = dev.total
  /\ pc' = "whole"
  /\ UNCHANGED <<class, byte_ptr, confvalue, bound, device>>

GetHeader ==
  /\ pc = "header"
  /\ \/ /\ ReadConf(dev.at[0].bLength)
        /\ total_length' = IF dev.total > BufSize THEN BufSize ELSE dev.total
        /\ pc' = "whole" /\ UNCHANGED <<class, byte_ptr>>
     \/ ReturnFalse /\ UNCHANGED <<buffer, total_length>>
  /\ UNCHANGED <<confvalue, bound, device>>

GetWhole ==
  /\ pc = "whole"
  /\ \/ /\ ReadConf(total_length) /\ confvalue' = dev.value
        /\ pc' = "walk" /\ UNCHANGED <<class, byte_ptr>>
     \/ ReturnFalse /\ UNCHANGED <<buffer, confvalue>>
  /\ UNCHANGED <<total_length, bound, device>>

\* data_ptr, and the step to the next descriptor.
data_ptr == bigbuf[byte_ptr]
Advance  == byte_ptr' = byte_ptr + data_ptr.bLength

SkipToInterface ==
  /\ pc = "walk" /\ byte_ptr < total_length
  /\ data_ptr.bDescriptorType # Interface
  /\ Advance
  /\ UNCHANGED <<pc, class, total_length, confvalue, buffer, bound, device>>

Bind ==
  /\ pc = "walk" /\ byte_ptr < total_length
  /\ data_ptr.bDescriptorType = Interface /\ data_ptr.class = class
  /\ devclass' = class /\ epinfo' = "hid_ep" /\ interface' = data_ptr.number
  /\ Advance /\ pc' = "endpoint"
  /\ UNCHANGED <<class, total_length, confvalue, buffer, epAddr, device>>

\* mutant: the interfaces after the first are looked at too.
OtherInterfaceSkipped ==
  /\ pc = "walk" /\ byte_ptr < total_length
  /\ data_ptr.bDescriptorType = Interface /\ data_ptr.class # class
  /\ Advance
  /\ UNCHANGED <<pc, class, total_length, confvalue, buffer, bound, device>>

\* "die on first interface"
OtherInterface ==
  /\ pc = "walk" /\ byte_ptr < total_length
  /\ data_ptr.bDescriptorType = Interface /\ data_ptr.class # class
  /\ ReturnFalse
  /\ UNCHANGED <<total_length, confvalue, buffer, bound, device>>

\* mutant: the walk stands still at a descriptor it does not know.
SkipToEndpointStuck ==
  /\ pc = "endpoint" /\ byte_ptr < total_length
  /\ data_ptr.bDescriptorType # Endpoint
  /\ IF data_ptr.bDescriptorType = "hid" THEN UNCHANGED byte_ptr ELSE Advance
  /\ UNCHANGED <<pc, class, total_length, confvalue, buffer, bound, device>>

SkipToEndpoint ==
  /\ pc = "endpoint" /\ byte_ptr < total_length
  /\ data_ptr.bDescriptorType # Endpoint
  /\ Advance
  /\ UNCHANGED <<pc, class, total_length, confvalue, buffer, bound, device>>

TakeEndpoint ==
  /\ pc = "endpoint" /\ byte_ptr < total_length
  /\ data_ptr.bDescriptorType = Endpoint
  /\ epAddr' = data_ptr.number
  /\ pc' = "setconf"
  /\ UNCHANGED <<class, byte_ptr, total_length, confvalue, buffer, devclass, epinfo,
                 interface, device>>

\* A transfer that fails may have been carried out by the device.
SetConf ==
  /\ pc = "setconf"
  /\ \/ dev_conf' = confvalue /\ pc' = "setproto" /\ UNCHANGED <<class, byte_ptr>>
     \/ dev_conf' \in {dev_conf, confvalue} /\ ReturnFalse
  /\ UNCHANGED <<total_length, confvalue, buffer, bound, dev, dev_boot, devices>>

\* The device takes the protocol of the interface the request names.
BootSet == dev_boot \/ interface = dev.at[First(dev, Interface, 0)].number

\* mutant: the result code is ignored.
SetProtoUnchecked ==
  /\ pc = "setproto"
  /\ dev_boot' \in {dev_boot, BootSet} /\ pc' = "bound"
  /\ UNCHANGED <<class, byte_ptr, total_length, confvalue, buffer, bound, dev,
                 dev_conf, devices>>

SetProto ==
  /\ pc = "setproto"
  /\ \/ dev_boot' = BootSet /\ pc' = "bound" /\ UNCHANGED <<class, byte_ptr>>
     \/ dev_boot' \in {dev_boot, BootSet} /\ ReturnFalse
  /\ UNCHANGED <<total_length, confvalue, buffer, bound, dev, dev_conf, devices>>

\* The end of the loops: FALSE is returned.
EndOfBuffer ==
  /\ pc \in {"walk", "endpoint"} /\ byte_ptr >= total_length
  /\ ReturnFalse
  /\ UNCHANGED <<total_length, confvalue, buffer, bound, device>>

\* Another device comes; USB_init has cleared the device table.
NewDevice(d) ==
  /\ pc \in {"bound", "failed"} /\ devices < MaxDevices
  /\ dev' = d /\ dev_conf' = 0 /\ dev_boot' = FALSE /\ devices' = devices + 1
  /\ devclass' = 0 /\ epinfo' = "dev0ep" /\ UNCHANGED <<interface, epAddr>>
  /\ pc' = "header" /\ class' = HID_M /\ byte_ptr' = 0
  /\ fresh' = 0
  /\ UNCHANGED <<total_length, confvalue, bigbuf>>

Probe ==
  \/ GetHeader \/ GetWhole \/ SkipToInterface \/ Bind \/ OtherInterface
  \/ SkipToEndpoint \/ TakeEndpoint \/ SetConf \/ SetProto \/ EndOfBuffer

Next == Probe \/ \E d \in Devices : NewDevice(d)

Spec == Init /\ [][Next]_vars

FairSpec == Spec /\ WF_vars(Probe)

-----------------------------------------------------------------------------
(* Properties.                                                             *)

Descriptors == {Blank} \cup UNION {{d.at[s] : s \in DOMAIN d.at} : d \in Devices}

TypeOK ==
  /\ dev \in Devices /\ dev_boot \in BOOLEAN /\ devices \in Nat
  /\ pc \in {"header", "whole", "walk", "endpoint", "setconf", "setproto", "bound", "failed"}
  /\ class \in {HID_M, HID_K}
  /\ byte_ptr \in Nat /\ total_length \in 0..BufSize /\ fresh \in 0..BufSize
  /\ bigbuf \in [0..BufSize - 1 -> Descriptors]
  /\ devclass \in {0, HID_M, HID_K} /\ epinfo \in {"dev0ep", "hid_ep"}

\* The walk never reads a byte this device has not sent: each descriptor it
\* looks at is one of the device's, whole, in the order the device gave.
ReadsOnlyFresh ==
  pc \in {"walk", "endpoint"} /\ byte_ptr < total_length =>
    /\ byte_ptr \in DOMAIN dev.at
    /\ byte_ptr + data_ptr.bLength <= fresh
    /\ data_ptr = dev.at[byte_ptr]

\* A driver that runs is bound to the first interface of its device and to the
\* first endpoint of that interface, and the device was told so.
BoundAsDescribed ==
  pc = "bound" =>
    LET intf == First(dev, Interface, 0)
    IN  /\ dev.at[intf].class = devclass /\ devclass = class
        /\ interface = dev.at[intf].number
        /\ epAddr = dev.at[First(dev, Endpoint, intf)].number
        /\ epinfo = "hid_ep" /\ dev_conf = dev.value /\ dev_boot

\* The probes of a device return.
ProbeReturns == pc = "header" ~> pc \in {"bound", "failed"}
=============================================================================
