--------------------------- MODULE UsbHost_proofs ---------------------------
(***************************************************************************)
(* Proofs about UsbHost for every set of devices, every size of the device *)
(* table and any number of plug-ins.                                       *)
(***************************************************************************)
EXTENDS UsbHost, TLAPS

USE KindsAssumption, NumDevicesAssumption, RcodesAssumption, BoundsAssumption

(* The states are numbers the handler counts with, so every step compares  *)
(* them: their definitions are visible throughout.                         *)
USE DEF USB_DETACHED_SUBSTATE_INITIALIZE, USB_DETACHED_SUBSTATE_WAIT_FOR_DEVICE,
  USB_DETACHED_SUBSTATE_ILLEGAL, USB_STATE_DETACHED, USB_STATE_ATTACHED,
  USB_ATTACHED_SUBSTATE_SETTLE, USB_ATTACHED_SUBSTATE_RESET_DEVICE,
  USB_ATTACHED_SUBSTATE_WAIT_RESET_COMPLETE, USB_ATTACHED_SUBSTATE_WAIT_SOF,
  USB_ATTACHED_SUBSTATE_GET_DEVICE_DESCRIPTOR_SIZE, USB_STATE_ADDRESSING,
  USB_STATE_CONFIGURING, USB_STATE_RUNNING, USB_STATE_ERROR

-----------------------------------------------------------------------------
\* The states a bus probe leaves, and what adding the bus event makes of them:
\* no carry out of the byte, and the same high nibble.
LEMMA Successor ==
  ASSUME NEW s \in {\h01, \h03, \h04, \h10, \h13}
  PROVE  /\ (s + 1) % 256 = s + 1
         /\ s + 1 \in {\h02, \h04, \h05, \h11, \h14}
         /\ Masked(s + 1) = Masked(s)
         /\ Masked(s) \in {\h00, \h10}
  BY DEF Masked

\* A result code of a transfer is a byte.
LEMMA RcodeType == Rcodes \subseteq 0..255
  OBVIOUS

\* Before the loop and during an acknowledgement the state is a probe's, and
\* the acknowledgement moves it by at most one.
LEMMA OutsideLoop ==
  ASSUME TypeOK, ProbedStates, pc # "loop"
  PROVE  usb_task_state \in {\h01, \h03, \h04, \h10, \h13}
  BY DEF TypeOK, ProbedStates

LEMMA AckStates ==
  ASSUME TypeOK, ProbedStates, MaxIntHandlerAck
  PROVE  usb_task_state' \in {\h01, \h02, \h03, \h04, \h05, \h10, \h11, \h13, \h14}
  <1>1. usb_task_state \in {\h01, \h03, \h04, \h10, \h13}
    BY OutsideLoop DEF MaxIntHandlerAck
  <1>2. usb_task_state' \in {usb_task_state, (usb_task_state + 1) % 256}
    BY DEF MaxIntHandlerAck
  <1>3. QED
    BY <1>1, <1>2, Successor

\* Every step of the host and of its environment keeps the types.
LEMMA TypeStep == IInv /\ [Next]_vars => TypeOK'
<1> SUFFICES ASSUME IInv, [Next]_vars PROVE TypeOK'
  OBVIOUS
<1> USE DEF TypeOK, TaskStates, InState, errors, tables, device, port, control
<1>0. TypeOK /\ ProbedStates /\ RecordInUse
  BY DEF IInv
<1>1. CASE MAX3421E_init
  BY <1>0, <1>1 DEF MAX3421E_init, MAX_busprobe, ProbeDevice, ProbeNothing, BusSample, Flip
<1>2. CASE MAX3421E_initAck
  BY <1>0, <1>2 DEF MAX3421E_initAck
<1>3. CASE MainInit
  BY <1>0, <1>3 DEF MainInit, USB_init, NoClass
<1>4. CASE MaxIntHandlerProbe
  BY <1>0, <1>4 DEF MaxIntHandlerProbe, MAX_busprobe, ProbeDevice, ProbeNothing, BusSample, Flip
<1>5. CASE MaxIntHandlerAck
  <2>1. usb_task_state' \in TaskStates
    <3>1. usb_task_state \in {\h01, \h03, \h04, \h10, \h13}
      BY <1>0, <1>5 DEF MaxIntHandlerAck, ProbedStates
    <3>2. usb_task_state' \in {usb_task_state, (usb_task_state + 1) % 256}
      BY <1>5 DEF MaxIntHandlerAck
    <3>3. (usb_task_state + 1) % 256 \in {\h02, \h04, \h05, \h11, \h14}
      BY <3>1, Successor
    <3>4. QED
      BY <3>1, <3>2, <3>3
  <2>2. hirq' \subseteq {"CONDET", "BUSEVENT", "FRAME"}
    BY <1>0, <1>5 DEF MaxIntHandlerAck
  <2>3. QED
    BY <1>0, <1>5, <2>1, <2>2 DEF MaxIntHandlerAck
<1>6. CASE DetachedInitialize
  BY <1>0, <1>6 DEF DetachedInitialize, USB_init, NoClass
<1>7. CASE StartSettle
  BY <1>0, <1>7 DEF StartSettle
<1>8. CASE Settle
  BY <1>0, <1>8 DEF Settle
<1>9. CASE ResetDevice
  BY <1>0, <1>9 DEF ResetDevice
<1>10. CASE WaitResetComplete
  BY <1>0, <1>10 DEF WaitResetComplete
<1>11. CASE WaitSof
  BY <1>0, <1>11 DEF WaitSof
<1>12. CASE GetDeviceDescriptor
  <2>1. /\ usb_task_state' \in TaskStates /\ usb_error' \in 0..255
        /\ last_usb_task_state' \in 0..255
    <3>1. CASE usb_task_state' = USB_STATE_ADDRESSING /\ UNCHANGED errors
      BY <1>0, <3>1
    <3>2. ASSUME NEW rcode \in Rcodes, Error(rcode) PROVE <2>1!:
      BY <1>0, <3>2, RcodeType DEF Error
    <3>3. QED
      BY <1>12, <3>1, <3>2 DEF GetDeviceDescriptor
  <2>2. MaxPktSize' \in [{"dev0ep", "hid_ep"} -> 0..255]
    <3>1. epinfo[0] = "dev0ep"
      BY <1>0, <1>12 DEF GetDeviceDescriptor, RecordInUse
    <3>2. CASE dev \in Kinds /\ MaxPktSize' = [MaxPktSize EXCEPT ![epinfo[0]] = DevMps[dev]]
      <4>1. DevMps[dev] \in 0..255
        BY <3>2
      <4>2. QED
        BY <1>0, <3>1, <3>2, <4>1
    <3>3. CASE MaxPktSize' = [MaxPktSize EXCEPT ![epinfo[0]] = 8]
      BY <1>0, <3>1, <3>3
    <3>4. QED
      BY <1>0, <1>12, <3>2, <3>3 DEF GetDeviceDescriptor, Answers
  <2>3. QED
    BY <1>0, <1>12, <2>1, <2>2 DEF GetDeviceDescriptor
<1>13. CASE Addressing
  <2>1. /\ usb_task_state' \in TaskStates /\ usb_error' \in 0..255
        /\ last_usb_task_state' \in 0..255
    <3>1. CASE usb_task_state' = USB_STATE_CONFIGURING /\ UNCHANGED errors
      BY <1>0, <3>1
    <3>2. ASSUME NEW code \in Rcodes \cup {\hfe}, Error(code) PROVE <2>1!:
      <4>1. code \in 0..255
        BY RcodeType
      <4>2. QED
        BY <1>0, <3>2, <4>1 DEF Error
    <3>3. QED
      BY <1>13, <3>1, <3>2 DEF Addressing, SetAddress
  <2>2. epinfo' \in [0..NumDevices -> {"NULL", "dev0ep", "hid_ep"}]
    BY <1>0, <1>13 DEF Addressing, SetAddress, FreeAddrs
  <2>3. tmp_addr' \in 0..(NumDevices - 1) /\ dev_addr' \in 0..(NumDevices - 1)
    BY <1>0, <1>13 DEF Addressing, SetAddress, FreeAddrs
  <2>4. QED
    BY <1>0, <1>13, <2>1, <2>2, <2>3 DEF Addressing
<1>14. CASE Configuring
  <2>1. /\ usb_task_state' \in TaskStates /\ usb_error' \in 0..255
        /\ last_usb_task_state' \in 0..255
    <3>1. CASE usb_task_state' = USB_STATE_RUNNING /\ UNCHANGED errors
      BY <1>0, <3>1
    <3>2. CASE Error(\hfd)
      BY <1>0, <3>2 DEF Error
    <3>3. QED
      BY <1>14, <3>1, <3>2 DEF Configuring, ProbeAccepts, ProbeBindsAndFails, NoProbeMatches
  <2>2. dev_state' \in {"powered", "reset", "configured"}
    BY <1>0, <1>14 DEF Configuring, ProbeAccepts, ProbeBindsAndFails, NoProbeMatches
  <2>3. /\ epinfo' \in [0..NumDevices -> {"NULL", "dev0ep", "hid_ep"}]
        /\ devclass' \in [0..NumDevices -> {NoClass, HID_K, HID_M}]
        /\ hid_addr' \in 0..(NumDevices - 1)
        /\ MaxPktSize' \in [{"dev0ep", "hid_ep"} -> 0..255]
    <3>1. CASE UNCHANGED <<devclass, epinfo, MaxPktSize, hid_addr>>
      BY <1>0, <3>1
    <3>2. ASSUME NEW class \in {HID_K, HID_M}, Bind(class)
          PROVE  <2>3!:
      <4>1. epinfo[tmp_addr] = "dev0ep"
        BY <1>0, <1>14 DEF Configuring, RecordInUse
      <4>2. MaxPktSize' \in [{"dev0ep", "hid_ep"} -> 0..255]
        BY <1>0, <3>2, <4>1 DEF Bind
      <4>3. devclass' \in [0..NumDevices -> {NoClass, HID_K, HID_M}]
        BY <1>0, <3>2 DEF Bind
      <4>4. epinfo' \in [0..NumDevices -> {"NULL", "dev0ep", "hid_ep"}]
        BY <1>0, <3>2 DEF Bind
      <4>5. hid_addr' \in 0..(NumDevices - 1)
        BY <1>0, <3>2 DEF Bind
      <4>6. QED
        BY <4>2, <4>3, <4>4, <4>5
    <3>3. \/ \E class \in {HID_K, HID_M} : Bind(class)
          \/ UNCHANGED <<devclass, epinfo, MaxPktSize, hid_addr>>
      BY <1>14 DEF Configuring, ProbeAccepts, ProbeBindsAndFails, NoProbeMatches
    <3>4. QED
      BY <3>1, <3>2, <3>3
  <2>4. QED
    BY <1>0, <1>14, <2>1, <2>2, <2>3 DEF Configuring
<1>15. CASE UNCHANGED vars
  BY <1>0, <1>15 DEF vars
<1>16. CASE ResetDone
  <2>1. hirq' \subseteq {"CONDET", "BUSEVENT", "FRAME"}
    <3>1. hirq' = hirq \cup {"BUSEVENT"} \/ hirq' = hirq \cup {"BUSEVENT", "CONDET"}
      BY <1>16 DEF ResetDone
    <3>2. CASE hirq' = hirq \cup {"BUSEVENT"}
      BY <1>0, <3>2
    <3>3. CASE hirq' = hirq \cup {"BUSEVENT", "CONDET"}
      BY <1>0, <3>3
    <3>4. QED
      BY <3>1, <3>2, <3>3
  <2>2. QED
    BY <1>0, <1>16, <2>1 DEF ResetDone
<1>17. CASE Frame
  BY <1>0, <1>17 DEF Frame
<1>18. CASE SettleExpires
  BY <1>0, <1>18 DEF SettleExpires
<1>19. CASE \E d \in Kinds : Plug(d)
  BY <1>0, <1>19 DEF Plug, ConnectionChanges, FreshDevice
<1>20. CASE Unplug
  BY <1>0, <1>20 DEF Unplug, ConnectionChanges, FreshDevice
<1>21. CASE Glitch
  BY <1>0, <1>21 DEF Glitch, ConnectionChanges
<1>22. CASE GlitchEnds
  BY <1>0, <1>22 DEF GlitchEnds, ConnectionChanges
<1>23. QED
  BY <1>1, <1>2, <1>3, <1>4, <1>5, <1>6, <1>7, <1>8, <1>9, <1>10, <1>11, <1>12, <1>13,
     <1>14, <1>15, <1>16, <1>17, <1>18, <1>19, <1>20, <1>21, <1>22
     DEF Next, Program, USB_Task, Environment, NoCase

\* Only bus probes lead out of the loop, so ProbedStates is kept.
LEMMA ProbedStatesStep == IInv /\ [Next]_vars => ProbedStates'
<1> SUFFICES ASSUME IInv, [Next]_vars PROVE ProbedStates'
  OBVIOUS
<1> USE DEF ProbedStates, InState, errors, tables, device, port, control
<1>0. TypeOK /\ ProbedStates
  BY DEF IInv
<1>1. CASE MAX3421E_init
  BY <1>0, <1>1 DEF MAX3421E_init, MAX_busprobe, ProbeDevice, ProbeNothing, BusSample, Masked
<1>2. CASE MAX3421E_initAck
  BY <1>0, <1>2 DEF MAX3421E_initAck
<1>3. CASE MainInit
  BY <1>0, <1>3 DEF MainInit, USB_init
<1>4. CASE MaxIntHandlerProbe
  BY <1>0, <1>4 DEF MaxIntHandlerProbe, MAX_busprobe, ProbeDevice, ProbeNothing, BusSample
<1>5. CASE MaxIntHandlerAck
  BY <1>0, <1>5 DEF MaxIntHandlerAck
<1>6. CASE DetachedInitialize
  BY <1>0, <1>6 DEF DetachedInitialize, USB_init
<1>7. CASE StartSettle
  BY <1>0, <1>7 DEF StartSettle
<1>8. CASE Settle
  BY <1>0, <1>8 DEF Settle
<1>9. CASE ResetDevice
  BY <1>0, <1>9 DEF ResetDevice
<1>10. CASE WaitResetComplete
  BY <1>0, <1>10 DEF WaitResetComplete
<1>11. CASE WaitSof
  BY <1>0, <1>11 DEF WaitSof
<1>12. CASE GetDeviceDescriptor
  BY <1>0, <1>12 DEF GetDeviceDescriptor, Error
<1>13. CASE Addressing
  BY <1>0, <1>13 DEF Addressing, SetAddress, FreeAddrs, Error
<1>14. CASE Configuring
  BY <1>0, <1>14 DEF Configuring, ProbeAccepts, ProbeBindsAndFails, NoProbeMatches, Bind, Error
<1>15. CASE UNCHANGED vars
  BY <1>0, <1>15 DEF vars
<1>16. CASE ResetDone
  BY <1>0, <1>16 DEF ResetDone
<1>17. CASE Frame
  BY <1>0, <1>17 DEF Frame
<1>18. CASE SettleExpires
  BY <1>0, <1>18 DEF SettleExpires
<1>19. CASE \E d \in Kinds : Plug(d)
  BY <1>0, <1>19 DEF Plug, FreshDevice, ConnectionChanges
<1>20. CASE Unplug
  BY <1>0, <1>20 DEF Unplug, FreshDevice, ConnectionChanges
<1>21. CASE Glitch
  BY <1>0, <1>21 DEF Glitch, ConnectionChanges
<1>22. CASE GlitchEnds
  BY <1>0, <1>22 DEF GlitchEnds, ConnectionChanges
<1>23. QED
  BY <1>1, <1>2, <1>3, <1>4, <1>5, <1>6, <1>7, <1>8, <1>9, <1>10, <1>11, <1>12, <1>13,
     <1>14, <1>15, <1>16, <1>17, <1>18, <1>19, <1>20, <1>21, <1>22
     DEF Next, Program, USB_Task, Environment, NoCase

\* USB_init, SetAddress and Bind are the only writers of epinfo; each leaves
\* the record the next state uses.
LEMMA RecordInUseStep == IInv /\ [Next]_vars => RecordInUse'
<1> SUFFICES ASSUME IInv, [Next]_vars PROVE RecordInUse'
  OBVIOUS
<1> USE DEF RecordInUse, InState, errors, tables, device, port, control
<1>0. TypeOK /\ ProbedStates /\ RecordInUse
  BY DEF IInv
<1>1. CASE MAX3421E_init
  BY <1>0, <1>1 DEF MAX3421E_init, MAX_busprobe, ProbeDevice, ProbeNothing, BusSample
<1>2. CASE MAX3421E_initAck
  BY <1>0, <1>2 DEF MAX3421E_initAck
<1>3. CASE MainInit
  BY <1>0, <1>3 DEF MainInit, USB_init, ProbedStates
<1>4. CASE MaxIntHandlerProbe
  BY <1>0, <1>4 DEF MaxIntHandlerProbe, MAX_busprobe, ProbeDevice, ProbeNothing, BusSample
<1>5. CASE MaxIntHandlerAck
  <2>1. usb_task_state \in {\h01, \h03, \h04, \h10, \h13} /\ epinfo[0] = "dev0ep"
    BY <1>0, <1>5 DEF MaxIntHandlerAck, ProbedStates
  <2>2. QED
    BY <1>5, <2>1, Successor DEF MaxIntHandlerAck
<1>6. CASE DetachedInitialize
  BY <1>0, <1>6 DEF DetachedInitialize, USB_init
<1>7. CASE StartSettle
  BY <1>0, <1>7 DEF StartSettle
<1>8. CASE Settle
  BY <1>0, <1>8 DEF Settle
<1>9. CASE ResetDevice
  BY <1>0, <1>9 DEF ResetDevice
<1>10. CASE WaitResetComplete
  BY <1>0, <1>10 DEF WaitResetComplete
<1>11. CASE WaitSof
  BY <1>0, <1>11 DEF WaitSof
<1>12. CASE GetDeviceDescriptor
  BY <1>0, <1>12 DEF GetDeviceDescriptor, Error
<1>13. CASE Addressing
  <2>1. epinfo[0] = "dev0ep" /\ epinfo \in [0..NumDevices -> {"NULL", "dev0ep", "hid_ep"}]
    BY <1>0, <1>13 DEF Addressing, TypeOK
  <2>2. ASSUME NEW i \in 1..(NumDevices - 1), SetAddress(i) PROVE RecordInUse'
    <3>1. epinfo'[0] = "dev0ep" /\ epinfo'[i] = "dev0ep"
      BY <2>1, <2>2 DEF SetAddress
    <3>2. QED
      BY <2>2, <3>1 DEF SetAddress, Error
  <2>3. CASE Error(\hfe) /\ UNCHANGED epinfo
    BY <2>1, <2>3 DEF Error
  <2>4. QED
    BY <1>13, <2>2, <2>3 DEF Addressing, FreeAddrs
<1>14. CASE Configuring
  <2>1. /\ epinfo[0] = "dev0ep" /\ tmp_addr # 0 /\ tmp_addr' = tmp_addr
        /\ tmp_addr \in 0..(NumDevices - 1)
        /\ epinfo \in [0..NumDevices -> {"NULL", "dev0ep", "hid_ep"}]
    BY <1>0, <1>14 DEF Configuring, TypeOK
  <2>2. CASE \E class \in {HID_K, HID_M} : Bind(class)
    <3>1. epinfo'[0] = "dev0ep" /\ epinfo'[tmp_addr] = "hid_ep" /\ hid_addr' = tmp_addr
      BY <2>1, <2>2 DEF Bind
    <3>2. usb_task_state' # USB_STATE_CONFIGURING
      BY <1>14 DEF Configuring, ProbeAccepts, ProbeBindsAndFails, NoProbeMatches, Error
    <3>3. QED
      BY <2>1, <3>1, <3>2
  <2>3. CASE Error(\hfd) /\ UNCHANGED epinfo
    BY <2>1, <2>3 DEF Error
  <2>4. QED
    BY <1>14, <2>2, <2>3 DEF Configuring, ProbeAccepts, ProbeBindsAndFails, NoProbeMatches
<1>15. CASE UNCHANGED vars
  BY <1>0, <1>15 DEF vars
<1>16. CASE ResetDone
  BY <1>0, <1>16 DEF ResetDone
<1>17. CASE Frame
  BY <1>0, <1>17 DEF Frame
<1>18. CASE SettleExpires
  BY <1>0, <1>18 DEF SettleExpires
<1>19. CASE \E d \in Kinds : Plug(d)
  BY <1>0, <1>19 DEF Plug, FreshDevice, ConnectionChanges
<1>20. CASE Unplug
  BY <1>0, <1>20 DEF Unplug, FreshDevice, ConnectionChanges
<1>21. CASE Glitch
  BY <1>0, <1>21 DEF Glitch, ConnectionChanges
<1>22. CASE GlitchEnds
  BY <1>0, <1>22 DEF GlitchEnds, ConnectionChanges
<1>23. QED
  BY <1>1, <1>2, <1>3, <1>4, <1>5, <1>6, <1>7, <1>8, <1>9, <1>10, <1>11, <1>12, <1>13,
     <1>14, <1>15, <1>16, <1>17, <1>18, <1>19, <1>20, <1>21, <1>22
     DEF Next, Program, USB_Task, Environment, NoCase

\* A handler takes the pending bits down before anything can clear them.
LEMMA AckedChangeStep == IInv /\ [Next]_vars => AckedChange'
<1> SUFFICES ASSUME IInv, [Next]_vars PROVE AckedChange'
  OBVIOUS
<1> USE DEF AckedChange, InState, errors, tables, device, port, control
<1>0. TypeOK /\ AckedChange
  BY DEF IInv
<1>1. CASE MAX3421E_init
  BY <1>0, <1>1 DEF MAX3421E_init, MAX_busprobe, ProbeDevice, ProbeNothing, BusSample
<1>2. CASE MAX3421E_initAck
  BY <1>0, <1>2 DEF MAX3421E_initAck
<1>3. CASE MainInit
  BY <1>0, <1>3 DEF MainInit, USB_init
<1>4. CASE MaxIntHandlerProbe
  BY <1>0, <1>4 DEF MaxIntHandlerProbe, MAX_busprobe, ProbeDevice, ProbeNothing, BusSample
<1>5. CASE MaxIntHandlerAck
  BY <1>0, <1>5 DEF MaxIntHandlerAck
<1>6. CASE DetachedInitialize
  BY <1>0, <1>6 DEF DetachedInitialize, USB_init
<1>7. CASE StartSettle
  BY <1>0, <1>7 DEF StartSettle
<1>8. CASE Settle
  BY <1>0, <1>8 DEF Settle
<1>9. CASE ResetDevice
  BY <1>0, <1>9 DEF ResetDevice
<1>10. CASE WaitResetComplete
  BY <1>0, <1>10 DEF WaitResetComplete
<1>11. CASE WaitSof
  BY <1>0, <1>11 DEF WaitSof
<1>12. CASE GetDeviceDescriptor
  BY <1>0, <1>12 DEF GetDeviceDescriptor, Error
<1>13. CASE Addressing
  BY <1>0, <1>13 DEF Addressing, SetAddress, FreeAddrs, Error
<1>14. CASE Configuring
  BY <1>0, <1>14 DEF Configuring, ProbeAccepts, ProbeBindsAndFails, NoProbeMatches, Bind, Error
<1>15. CASE UNCHANGED vars
  BY <1>0, <1>15 DEF vars
<1>16. CASE ResetDone
  BY <1>0, <1>16 DEF ResetDone
<1>17. CASE Frame
  BY <1>0, <1>17 DEF Frame
<1>18. CASE SettleExpires
  BY <1>0, <1>18 DEF SettleExpires
<1>19. CASE \E d \in Kinds : Plug(d)
  BY <1>0, <1>19 DEF Plug, FreshDevice, ConnectionChanges
<1>20. CASE Unplug
  BY <1>0, <1>20 DEF Unplug, FreshDevice, ConnectionChanges
<1>21. CASE Glitch
  BY <1>0, <1>21 DEF Glitch, ConnectionChanges
<1>22. CASE GlitchEnds
  BY <1>0, <1>22 DEF GlitchEnds, ConnectionChanges
<1>23. QED
  BY <1>1, <1>2, <1>3, <1>4, <1>5, <1>6, <1>7, <1>8, <1>9, <1>10, <1>11, <1>12, <1>13,
     <1>14, <1>15, <1>16, <1>17, <1>18, <1>19, <1>20, <1>21, <1>22
     DEF Next, Program, USB_Task, Environment, NoCase

\* The size read from the descriptor stays in dev0ep until it is copied: only
\* USB_init clears it, in states that use no device.
LEMMA SizeKnownStep == IInv /\ [Next]_vars => SizeKnown'
<1> SUFFICES ASSUME IInv, [Next]_vars PROVE SizeKnown'
  OBVIOUS
<1> USE DEF SizeKnown, InState, errors, tables, device, port, control
<1>0. TypeOK /\ ProbedStates /\ RecordInUse /\ SizeKnown
  BY DEF IInv
<1>1. CASE MAX3421E_init
  BY <1>0, <1>1 DEF MAX3421E_init, MAX_busprobe, ProbeDevice, ProbeNothing, BusSample
<1>2. CASE MAX3421E_initAck
  BY <1>0, <1>2, OutsideLoop DEF MAX3421E_initAck
<1>3. CASE MainInit
  BY <1>0, <1>3, OutsideLoop DEF MainInit, USB_init
<1>4. CASE MaxIntHandlerProbe
  BY <1>0, <1>4 DEF MaxIntHandlerProbe, MAX_busprobe, ProbeDevice, ProbeNothing, BusSample
<1>5. CASE MaxIntHandlerAck
  BY <1>0, <1>5, AckStates
<1>6. CASE DetachedInitialize
  BY <1>0, <1>6 DEF DetachedInitialize, USB_init
<1>7. CASE StartSettle
  BY <1>0, <1>7 DEF StartSettle
<1>8. CASE Settle
  BY <1>0, <1>8 DEF Settle
<1>9. CASE ResetDevice
  BY <1>0, <1>9 DEF ResetDevice
<1>10. CASE WaitResetComplete
  BY <1>0, <1>10 DEF WaitResetComplete
<1>11. CASE WaitSof
  BY <1>0, <1>11 DEF WaitSof
<1>12. CASE GetDeviceDescriptor
  <2>1. epinfo[0] = "dev0ep" /\ MaxPktSize \in [{"dev0ep", "hid_ep"} -> 0..255]
    BY <1>0, <1>12 DEF GetDeviceDescriptor, RecordInUse, TypeOK
  <2>2. CASE \E rcode \in Rcodes : Error(rcode)
    BY <2>2 DEF Error
  <2>3. CASE MaxPktSize' = [MaxPktSize EXCEPT ![epinfo[0]] = DevMps[dev]]
    <3>1. MaxPktSize'["dev0ep"] = DevMps[dev] /\ dev' = dev
      BY <1>12, <2>1, <2>3 DEF GetDeviceDescriptor
    <3>2. QED
      BY <3>1
  <2>4. QED
    BY <1>12, <2>2, <2>3 DEF GetDeviceDescriptor
<1>13. CASE Addressing
  BY <1>0, <1>13 DEF Addressing, SetAddress, FreeAddrs, Error
<1>14. CASE Configuring
  BY <1>0, <1>14 DEF Configuring, ProbeAccepts, ProbeBindsAndFails, NoProbeMatches, Bind, Error
<1>15. CASE UNCHANGED vars
  BY <1>0, <1>15 DEF vars
<1>16. CASE ResetDone
  BY <1>0, <1>16 DEF ResetDone
<1>17. CASE Frame
  BY <1>0, <1>17 DEF Frame
<1>18. CASE SettleExpires
  BY <1>0, <1>18 DEF SettleExpires
<1>19. CASE \E d \in Kinds : Plug(d)
  BY <1>0, <1>19 DEF Plug, FreshDevice, ConnectionChanges
<1>20. CASE Unplug
  BY <1>0, <1>20 DEF Unplug, FreshDevice, ConnectionChanges
<1>21. CASE Glitch
  BY <1>0, <1>21 DEF Glitch, ConnectionChanges
<1>22. CASE GlitchEnds
  BY <1>0, <1>22 DEF GlitchEnds, ConnectionChanges
<1>23. QED
  BY <1>1, <1>2, <1>3, <1>4, <1>5, <1>6, <1>7, <1>8, <1>9, <1>10, <1>11, <1>12, <1>13,
     <1>14, <1>15, <1>16, <1>17, <1>18, <1>19, <1>20, <1>21, <1>22
     DEF Next, Program, USB_Task, Environment, NoCase

\* The device a host talks to stays as it is, or a change is reported.
LEMMA HostAgreesStep == IInv /\ [Next]_vars => HostAgreesWithDevice'
<1> SUFFICES ASSUME IInv, [Next]_vars PROVE HostAgreesWithDevice'
  OBVIOUS
<1> USE DEF HostAgreesWithDevice, TalksTo, Answers, InState, errors, tables, device, port, control
<1>0. TypeOK /\ ProbedStates /\ RecordInUse /\ HostAgreesWithDevice
  BY DEF IInv
<1>1. CASE MAX3421E_init
  BY <1>0, <1>1 DEF MAX3421E_init, MAX_busprobe, ProbeDevice, ProbeNothing, BusSample
<1>2. CASE MAX3421E_initAck
  BY <1>0, <1>2, OutsideLoop DEF MAX3421E_initAck
<1>3. CASE MainInit
  BY <1>0, <1>3, OutsideLoop DEF MainInit, USB_init
<1>4. CASE MaxIntHandlerProbe
  BY <1>0, <1>4 DEF MaxIntHandlerProbe, MAX_busprobe, ProbeDevice, ProbeNothing, BusSample
<1>5. CASE MaxIntHandlerAck
  BY <1>0, <1>5, AckStates
<1>6. CASE DetachedInitialize
  BY <1>0, <1>6 DEF DetachedInitialize, USB_init
<1>7. CASE StartSettle
  BY <1>0, <1>7 DEF StartSettle
<1>8. CASE Settle
  BY <1>0, <1>8 DEF Settle
<1>9. CASE ResetDevice
  BY <1>0, <1>9 DEF ResetDevice
<1>10. CASE WaitResetComplete
  BY <1>0, <1>10 DEF WaitResetComplete
<1>11. CASE WaitSof
  BY <1>0, <1>11 DEF WaitSof
<1>12. CASE GetDeviceDescriptor
  BY <1>0, <1>12 DEF GetDeviceDescriptor, Error
<1>13. CASE Addressing
  BY <1>0, <1>13 DEF Addressing, SetAddress, FreeAddrs, Error
<1>14. CASE Configuring
  BY <1>0, <1>14 DEF Configuring, ProbeAccepts, ProbeBindsAndFails, NoProbeMatches, Bind, Error
<1>15. CASE UNCHANGED vars
  BY <1>0, <1>15 DEF vars
<1>16. CASE ResetDone
  BY <1>0, <1>16 DEF ResetDone
<1>17. CASE Frame
  BY <1>0, <1>17 DEF Frame
<1>18. CASE SettleExpires
  BY <1>0, <1>18 DEF SettleExpires
<1>19. CASE \E d \in Kinds : Plug(d)
  BY <1>0, <1>19 DEF Plug, FreshDevice, ConnectionChanges
<1>20. CASE Unplug
  BY <1>0, <1>20 DEF Unplug, FreshDevice, ConnectionChanges
<1>21. CASE Glitch
  BY <1>0, <1>21 DEF Glitch, ConnectionChanges
<1>22. CASE GlitchEnds
  BY <1>0, <1>22 DEF GlitchEnds, ConnectionChanges
<1>23. QED
  BY <1>1, <1>2, <1>3, <1>4, <1>5, <1>6, <1>7, <1>8, <1>9, <1>10, <1>11, <1>12, <1>13,
     <1>14, <1>15, <1>16, <1>17, <1>18, <1>19, <1>20, <1>21, <1>22
     DEF Next, Program, USB_Task, Environment, NoCase

\* ProbeAccepts establishes DriverBoundToDevice; nothing else touches the
\* tables of a running host without a change being reported.
LEMMA DriverBoundStep == IInv /\ [Next]_vars => DriverBoundToDevice'
<1> SUFFICES ASSUME IInv, [Next]_vars PROVE DriverBoundToDevice'
  OBVIOUS
<1> USE DEF DriverBoundToDevice, InState, errors, tables, device, port, control
<1>0. TypeOK /\ ProbedStates /\ RecordInUse /\ SizeKnown /\ HostAgreesWithDevice /\ DriverBoundToDevice
  BY DEF IInv
<1>1. CASE MAX3421E_init
  BY <1>0, <1>1 DEF MAX3421E_init, MAX_busprobe, ProbeDevice, ProbeNothing, BusSample
<1>2. CASE MAX3421E_initAck
  BY <1>0, <1>2, OutsideLoop DEF MAX3421E_initAck
<1>3. CASE MainInit
  BY <1>0, <1>3, OutsideLoop DEF MainInit, USB_init
<1>4. CASE MaxIntHandlerProbe
  BY <1>0, <1>4 DEF MaxIntHandlerProbe, MAX_busprobe, ProbeDevice, ProbeNothing, BusSample
<1>5. CASE MaxIntHandlerAck
  BY <1>0, <1>5, AckStates
<1>6. CASE DetachedInitialize
  BY <1>0, <1>6 DEF DetachedInitialize, USB_init
<1>7. CASE StartSettle
  BY <1>0, <1>7 DEF StartSettle
<1>8. CASE Settle
  BY <1>0, <1>8 DEF Settle
<1>9. CASE ResetDevice
  BY <1>0, <1>9 DEF ResetDevice
<1>10. CASE WaitResetComplete
  BY <1>0, <1>10 DEF WaitResetComplete
<1>11. CASE WaitSof
  BY <1>0, <1>11 DEF WaitSof
<1>12. CASE GetDeviceDescriptor
  BY <1>0, <1>12 DEF GetDeviceDescriptor, Error
<1>13. CASE Addressing
  BY <1>0, <1>13 DEF Addressing, SetAddress, FreeAddrs, Error
<1>14. CASE Configuring
  <2>1. /\ tmp_addr # 0 /\ tmp_addr \in 0..(NumDevices - 1)
        /\ epinfo[tmp_addr] = "dev0ep"
        /\ epinfo \in [0..NumDevices -> {"NULL", "dev0ep", "hid_ep"}]
        /\ devclass \in [0..NumDevices -> {NoClass, HID_K, HID_M}]
        /\ MaxPktSize \in [{"dev0ep", "hid_ep"} -> 0..255]
        /\ tmp_addr' = tmp_addr /\ dev' = dev /\ hirq' = hirq
    BY <1>0, <1>14 DEF Configuring, RecordInUse, TypeOK
  <2>2. ASSUME NEW class \in {HID_M, HID_K}, ProbeAccepts(class) PROVE DriverBoundToDevice'
    <3>1. SUFFICES ASSUME "CONDET" \notin hirq PROVE DriverBoundToDevice'
      BY <2>1
    <3>2. MaxPktSize["dev0ep"] = DevMps[dev]
      BY <1>0, <1>14, <3>1 DEF Configuring, SizeKnown
    <3>3. /\ hid_addr' = tmp_addr /\ epinfo'[tmp_addr] = "hid_ep"
          /\ devclass'[tmp_addr] = class
          /\ MaxPktSize'["hid_ep"] = MaxPktSize["dev0ep"]
      BY <2>1, <2>2 DEF ProbeAccepts, Bind
    <3>4. class = DevClass[dev] /\ dev_state' = "configured"
      BY <2>2 DEF ProbeAccepts
    <3>5. QED
      BY <2>1, <3>2, <3>3, <3>4
  <2>3. CASE Error(\hfd)
    BY <2>3 DEF Error
  <2>4. QED
    BY <1>14, <2>2, <2>3 DEF Configuring, ProbeBindsAndFails, NoProbeMatches
<1>15. CASE UNCHANGED vars
  BY <1>0, <1>15 DEF vars
<1>16. CASE ResetDone
  BY <1>0, <1>16 DEF ResetDone, TypeOK, HostAgreesWithDevice, TalksTo, Answers
<1>17. CASE Frame
  BY <1>0, <1>17 DEF Frame
<1>18. CASE SettleExpires
  BY <1>0, <1>18 DEF SettleExpires
<1>19. CASE \E d \in Kinds : Plug(d)
  BY <1>0, <1>19 DEF Plug, FreshDevice, ConnectionChanges
<1>20. CASE Unplug
  BY <1>0, <1>20 DEF Unplug, FreshDevice, ConnectionChanges
<1>21. CASE Glitch
  BY <1>0, <1>21 DEF Glitch, ConnectionChanges
<1>22. CASE GlitchEnds
  BY <1>0, <1>22 DEF GlitchEnds, ConnectionChanges
<1>23. QED
  BY <1>1, <1>2, <1>3, <1>4, <1>5, <1>6, <1>7, <1>8, <1>9, <1>10, <1>11, <1>12, <1>13,
     <1>14, <1>15, <1>16, <1>17, <1>18, <1>19, <1>20, <1>21, <1>22
     DEF Next, Program, USB_Task, Environment, NoCase

\* The error state is entered by Error alone, in the states it names, and the
\* result codes of transfers are none of the program's own codes.
LEMMA ErrorNamesItsCauseStep == IInv /\ [Next]_vars => ErrorNamesItsCause'
<1> SUFFICES ASSUME IInv, [Next]_vars PROVE ErrorNamesItsCause'
  OBVIOUS
<1> USE DEF ErrorNamesItsCause, FreeAddrs, InState, errors, tables, device, port, control
<1>0. TypeOK /\ ProbedStates /\ ErrorNamesItsCause
  BY DEF IInv
<1>1. CASE MAX3421E_init
  BY <1>0, <1>1 DEF MAX3421E_init, MAX_busprobe, ProbeDevice, ProbeNothing, BusSample
<1>2. CASE MAX3421E_initAck
  BY <1>0, <1>2, OutsideLoop DEF MAX3421E_initAck
<1>3. CASE MainInit
  BY <1>0, <1>3, OutsideLoop DEF MainInit, USB_init
<1>4. CASE MaxIntHandlerProbe
  BY <1>0, <1>4 DEF MaxIntHandlerProbe, MAX_busprobe, ProbeDevice, ProbeNothing, BusSample
<1>5. CASE MaxIntHandlerAck
  BY <1>0, <1>5, AckStates
<1>6. CASE DetachedInitialize
  BY <1>0, <1>6 DEF DetachedInitialize, USB_init
<1>7. CASE StartSettle
  BY <1>0, <1>7 DEF StartSettle
<1>8. CASE Settle
  BY <1>0, <1>8 DEF Settle
<1>9. CASE ResetDevice
  BY <1>0, <1>9 DEF ResetDevice
<1>10. CASE WaitResetComplete
  BY <1>0, <1>10 DEF WaitResetComplete
<1>11. CASE WaitSof
  BY <1>0, <1>11 DEF WaitSof
<1>12. CASE GetDeviceDescriptor
  BY <1>0, <1>12 DEF GetDeviceDescriptor, Error
<1>13. CASE Addressing
  BY <1>0, <1>13 DEF Addressing, SetAddress, FreeAddrs, Error
<1>14. CASE Configuring
  BY <1>0, <1>14 DEF Configuring, ProbeAccepts, ProbeBindsAndFails, NoProbeMatches, Bind, Error
<1>15. CASE UNCHANGED vars
  BY <1>0, <1>15 DEF vars
<1>16. CASE ResetDone
  BY <1>0, <1>16 DEF ResetDone
<1>17. CASE Frame
  BY <1>0, <1>17 DEF Frame
<1>18. CASE SettleExpires
  BY <1>0, <1>18 DEF SettleExpires
<1>19. CASE \E d \in Kinds : Plug(d)
  BY <1>0, <1>19 DEF Plug, FreshDevice, ConnectionChanges
<1>20. CASE Unplug
  BY <1>0, <1>20 DEF Unplug, FreshDevice, ConnectionChanges
<1>21. CASE Glitch
  BY <1>0, <1>21 DEF Glitch, ConnectionChanges
<1>22. CASE GlitchEnds
  BY <1>0, <1>22 DEF GlitchEnds, ConnectionChanges
<1>23. QED
  BY <1>1, <1>2, <1>3, <1>4, <1>5, <1>6, <1>7, <1>8, <1>9, <1>10, <1>11, <1>12, <1>13,
     <1>14, <1>15, <1>16, <1>17, <1>18, <1>19, <1>20, <1>21, <1>22
     DEF Next, Program, USB_Task, Environment, NoCase

\* SetAddress takes the lowest free entry, and Bind replaces one in use.
LEMMA AddressesContiguousStep == IInv /\ [Next]_vars => AddressesContiguous'
<1> SUFFICES ASSUME IInv, [Next]_vars PROVE AddressesContiguous'
  OBVIOUS
<1> USE DEF AddressesContiguous, InState, errors, tables, device, port, control
<1>0. TypeOK /\ ProbedStates /\ RecordInUse /\ AddressesContiguous
  BY DEF IInv
<1>1. CASE MAX3421E_init
  BY <1>0, <1>1 DEF MAX3421E_init, MAX_busprobe, ProbeDevice, ProbeNothing, BusSample
<1>2. CASE MAX3421E_initAck
  BY <1>0, <1>2, OutsideLoop DEF MAX3421E_initAck
<1>3. CASE MainInit
  BY <1>0, <1>3, OutsideLoop DEF MainInit, USB_init
<1>4. CASE MaxIntHandlerProbe
  BY <1>0, <1>4 DEF MaxIntHandlerProbe, MAX_busprobe, ProbeDevice, ProbeNothing, BusSample
<1>5. CASE MaxIntHandlerAck
  BY <1>0, <1>5, AckStates DEF MaxIntHandlerAck
<1>6. CASE DetachedInitialize
  BY <1>0, <1>6 DEF DetachedInitialize, USB_init
<1>7. CASE StartSettle
  BY <1>0, <1>7 DEF StartSettle
<1>8. CASE Settle
  BY <1>0, <1>8 DEF Settle
<1>9. CASE ResetDevice
  BY <1>0, <1>9 DEF ResetDevice
<1>10. CASE WaitResetComplete
  BY <1>0, <1>10 DEF WaitResetComplete
<1>11. CASE WaitSof
  BY <1>0, <1>11 DEF WaitSof
<1>12. CASE GetDeviceDescriptor
  BY <1>0, <1>12 DEF GetDeviceDescriptor, Error
<1>13. CASE Addressing
  <2>1. epinfo[0] = "dev0ep" /\ epinfo \in [0..NumDevices -> {"NULL", "dev0ep", "hid_ep"}]
    BY <1>0, <1>13 DEF Addressing, RecordInUse, TypeOK
  <2>2. ASSUME NEW i \in 1..(NumDevices - 1), epinfo[i] = "NULL",
               \A j \in 1..(NumDevices - 1) : epinfo[j] = "NULL" => i <= j,
               SetAddress(i)
        PROVE  AddressesContiguous'
    <3>1. /\ epinfo'[i] = "dev0ep"
          /\ \A j \in 1..(NumDevices - 1) : j # i => epinfo'[j] = epinfo[j]
      BY <2>1, <2>2 DEF SetAddress
    <3>2. \A j \in 1..(NumDevices - 1) : epinfo'[j] # "NULL" <=> j <= i
      BY <1>0, <2>2, <3>1
    <3>3. usb_task_state' = USB_STATE_CONFIGURING => tmp_addr' = i
      BY <2>2 DEF SetAddress, Error
    <3>4. QED
      BY <3>2, <3>3
  <2>3. CASE Error(\hfe) /\ UNCHANGED epinfo
    BY <1>0, <2>3 DEF Error
  <2>4. QED
    BY <1>13, <2>2, <2>3 DEF Addressing, FreeAddrs
<1>14. CASE Configuring
  <2>1. /\ tmp_addr \in 0..(NumDevices - 1) /\ epinfo[tmp_addr] = "dev0ep"
        /\ epinfo \in [0..NumDevices -> {"NULL", "dev0ep", "hid_ep"}]
    BY <1>0, <1>14 DEF Configuring, RecordInUse, TypeOK
  <2>2. usb_task_state' # USB_STATE_CONFIGURING
    BY <1>14 DEF Configuring, ProbeAccepts, ProbeBindsAndFails, NoProbeMatches, Error
  <2>3. \A i \in 1..(NumDevices - 1) : epinfo'[i] = "NULL" <=> epinfo[i] = "NULL"
    <3>1. CASE epinfo' = [epinfo EXCEPT ![tmp_addr] = "hid_ep"]
      BY <2>1, <3>1
    <3>2. CASE UNCHANGED epinfo
      BY <3>2
    <3>3. QED
      BY <1>14, <3>1, <3>2
        DEF Configuring, ProbeAccepts, ProbeBindsAndFails, NoProbeMatches, Bind
  <2>4. QED
    BY <1>0, <2>2, <2>3
<1>15. CASE UNCHANGED vars
  BY <1>0, <1>15 DEF vars
<1>16. CASE ResetDone
  BY <1>0, <1>16 DEF ResetDone
<1>17. CASE Frame
  BY <1>0, <1>17 DEF Frame
<1>18. CASE SettleExpires
  BY <1>0, <1>18 DEF SettleExpires
<1>19. CASE \E d \in Kinds : Plug(d)
  BY <1>0, <1>19 DEF Plug, FreshDevice, ConnectionChanges
<1>20. CASE Unplug
  BY <1>0, <1>20 DEF Unplug, FreshDevice, ConnectionChanges
<1>21. CASE Glitch
  BY <1>0, <1>21 DEF Glitch, ConnectionChanges
<1>22. CASE GlitchEnds
  BY <1>0, <1>22 DEF GlitchEnds, ConnectionChanges
<1>23. QED
  BY <1>1, <1>2, <1>3, <1>4, <1>5, <1>6, <1>7, <1>8, <1>9, <1>10, <1>11, <1>12, <1>13,
     <1>14, <1>15, <1>16, <1>17, <1>18, <1>19, <1>20, <1>21, <1>22
     DEF Next, Program, USB_Task, Environment, NoCase

-----------------------------------------------------------------------------
\* The program starts in a state of the invariant, with or without a device.
LEMMA InitInvariant == Init => IInv
  BY DEF Init, IInv, TypeOK, TaskStates, ProbedStates, RecordInUse, SizeKnown, AckedChange,
    HostAgreesWithDevice, TalksTo, DriverBoundToDevice, ErrorNamesItsCause,
    AddressesContiguous, NoClass

\* The invariant is inductive.
LEMMA InvariantStep == IInv /\ [Next]_vars => IInv'
  BY TypeStep, ProbedStatesStep, RecordInUseStep, SizeKnownStep, AckedChangeStep, HostAgreesStep,
    DriverBoundStep, ErrorNamesItsCauseStep, AddressesContiguousStep DEF IInv

\* The inductive invariant holds in every reachable state.
THEOREM Invariant == Spec => []IInv
  BY InitInvariant, InvariantStep, PTL DEF Spec

\* Every variable keeps its type, and the arithmetic of the interrupt handler
\* never takes usb_task_state out of the states of TaskStates.
THEOREM TypeCorrect == Spec => []TypeOK
  BY Invariant, PTL DEF IInv

\* A host that addresses, configures or runs a device is answered by the device
\* that is in its port, unless a connection change is waiting for the handler.
THEOREM HostAgrees == Spec => []HostAgreesWithDevice
  BY Invariant, PTL DEF IInv

\* A running driver serves the device in the port, as what that device is.
THEOREM DriverBound == Spec => []DriverBoundToDevice
  BY Invariant, PTL DEF IInv

\* USB_Task never follows a NULL epinfo.
THEOREM NoNullEpinfo == Spec => []EpinfoNotNull
  <1>1. IInv => EpinfoNotNull
    BY DEF IInv, RecordInUse, EpinfoNotNull
  <1>2. QED
    BY <1>1, Invariant, PTL

\* In an error state, usb_error and last_usb_task_state tell apart a failed probe,
\* a full address table and a failed transfer, for any codes transfers return.
THEOREM ErrorCause == Spec => []ErrorNamesItsCause
  BY Invariant, PTL DEF IInv

\* Addresses are given out in order, and none is given out twice.
THEOREM Contiguous == Spec => []AddressesContiguous
  BY Invariant, PTL DEF IInv

-----------------------------------------------------------------------------
(* UsbHost implements UsbConnection.                                       *)

\* What Phase is in each state of the state machine.
PhaseFacts ==
  /\ usb_task_state \in 1..5 => Phase = "Detached"
  /\ usb_task_state \in {\h10, \h11, \h12, \h13, \h14, \h15, \h20, \h30}
       => Phase = "Enumerating"
  /\ usb_task_state = USB_STATE_RUNNING => Phase = "Running"
  /\ usb_task_state = USB_STATE_ERROR => Phase = "Failed"

\* The high nibble of every state.
LEMMA MaskOf ==
  ASSUME NEW s
  PROVE  /\ s \in 1..5 => Masked(s) = USB_STATE_DETACHED
         /\ s \in {\h10, \h11, \h12, \h13, \h14, \h15} => Masked(s) = USB_STATE_ATTACHED
         /\ s \in {\h20, \h30, \h40} => Masked(s) = s
         /\ s = \hff => Masked(s) = \hf0
  BY DEF Masked

\* The phase of every state.
LEMMA PhaseOf == PhaseFacts
  BY MaskOf DEF Phase, PhaseFacts

\* The phase of every next state.
LEMMA PhaseOfNext == PhaseFacts'
  <1>1. Phase' = IF Masked(usb_task_state') = USB_STATE_DETACHED THEN "Detached"
                 ELSE IF Masked(usb_task_state') \in
                   {USB_STATE_ATTACHED, USB_STATE_ADDRESSING, USB_STATE_CONFIGURING}
                 THEN "Enumerating"
                 ELSE IF usb_task_state' = USB_STATE_RUNNING THEN "Running" ELSE "Failed"
    BY DEF Phase, Masked
  <1>2. QED
    BY <1>1, MaskOf DEF PhaseFacts

\* The mapped variables, each by its own name.
Present == IF dev = NoDevice THEN NoDevice ELSE DevClass[dev]
Changed == "CONDET" \in hirq \/ pc \in {"boot", "bootack"}
Bound == IF usb_task_state = USB_STATE_RUNNING THEN devclass[hid_addr] ELSE NoDevice

\* An initial state of the host is one of UsbConnection.
LEMMA InitRefines == Init => Connection!Init
  <1> SUFFICES ASSUME Init PROVE Connection!Init
    OBVIOUS
  <1>1. Present \in {HID_K, HID_M, NoClass} \cup {NoDevice}
    BY DEF Init, Present
  <1>2. Changed /\ Bound = NoDevice
    BY DEF Init, Changed, Bound
  <1>3. Phase = "Detached"
    BY DEF Init, Phase, Masked
  <1>4. QED
    BY <1>1, <1>2, <1>3 DEF Connection!Init, Present, Changed, Bound

\* A step of the host is one of UsbConnection, or changes nothing it sees.
LEMMA StepRefines ==
  IInv /\ IInv' /\ [Next]_vars => [Connection!Next]_(Connection!cvars)
<1> SUFFICES ASSUME IInv, IInv', [Next]_vars
             PROVE  [Connection!Next]_(Connection!cvars)
  OBVIOUS
<1> USE DEF InState, errors, tables, device, port, control
<1>0. TypeOK /\ TypeOK' /\ PhaseFacts /\ PhaseFacts'
  BY PhaseOf, PhaseOfNext DEF IInv
<1>1. CASE MAX3421E_init
  <2>1. Changed /\ Changed' /\ Bound' = NoDevice /\ Present' = Present
    BY <1>0, <1>1 DEF MAX3421E_init, MAX_busprobe, ProbeDevice, ProbeNothing, Changed, Bound, Present
  <2>2. Phase' \in {"Detached", "Enumerating"}
    BY <1>0, <1>1 DEF MAX3421E_init, MAX_busprobe, ProbeDevice, ProbeNothing, PhaseFacts
  <2>3. Connection!Look
    BY <2>1, <2>2 DEF Connection!Look, Changed, Bound, Present
  <2>4. QED
    BY <2>3 DEF Connection!Next
<1>2. CASE MAX3421E_initAck
  <2>1. Changed /\ ~Changed' /\ Present' = Present
    BY <1>2 DEF MAX3421E_initAck, IInv, AckedChange, Changed, Present
  <2>2. Phase \in {"Detached", "Enumerating"} /\ Phase' = Phase
    <3>1. usb_task_state \in {\h01, \h03, \h04, \h10, \h13}
      BY <1>2, OutsideLoop DEF MAX3421E_initAck, IInv
    <3>2. usb_task_state' \in {usb_task_state, usb_task_state + 1}
      BY <1>2, <3>1, Successor DEF MAX3421E_initAck
    <3>3. QED
      BY <1>0, <3>1, <3>2 DEF PhaseFacts
  <2>3. Bound = NoDevice /\ Bound' = NoDevice
    <3>1. Phase # "Running" /\ Phase' # "Running"
      BY <2>2
    <3>2. QED
      BY <1>0, <3>1 DEF PhaseFacts, Bound
  <2>4. Connection!Acknowledge
    BY <2>1, <2>2, <2>3 DEF Connection!Acknowledge, Changed, Bound, Present
  <2>5. QED
    BY <2>4 DEF Connection!Next
<1>3. CASE MainInit
  <2>1. Present' = Present /\ Changed' = Changed /\ Bound' = Bound
    BY <1>0, <1>3, OutsideLoop DEF IInv, MainInit, USB_init, Changed, Bound, Present
  <2>2. Phase' = Phase
    BY <1>0, <1>3, OutsideLoop DEF IInv, MainInit, USB_init, PhaseFacts, Phase
  <2>3. QED
    BY <2>1, <2>2 DEF Connection!cvars, Changed, Bound, Present
<1>4. CASE MaxIntHandlerProbe
  <2>1. Changed /\ Changed' /\ Bound' = NoDevice /\ Present' = Present
    BY <1>0, <1>4 DEF MaxIntHandlerProbe, MAX_busprobe, ProbeDevice, ProbeNothing, Changed, Bound, Present
  <2>2. Phase' \in {"Detached", "Enumerating"}
    BY <1>0, <1>4 DEF MaxIntHandlerProbe, MAX_busprobe, ProbeDevice, ProbeNothing, PhaseFacts
  <2>3. Connection!Look
    BY <2>1, <2>2 DEF Connection!Look, Changed, Bound, Present
  <2>4. QED
    BY <2>3 DEF Connection!Next
<1>5. CASE MaxIntHandlerAck
  <2>1. Changed /\ ~Changed' /\ Present' = Present
    BY <1>5 DEF MaxIntHandlerAck, IInv, AckedChange, Changed, Present
  <2>2. Phase \in {"Detached", "Enumerating"} /\ Phase' = Phase
    <3>1. usb_task_state \in {\h01, \h03, \h04, \h10, \h13}
      BY <1>5, OutsideLoop DEF MaxIntHandlerAck, IInv
    <3>2. usb_task_state' \in {usb_task_state, usb_task_state + 1}
      BY <1>5, <3>1, Successor DEF MaxIntHandlerAck
    <3>3. QED
      BY <1>0, <3>1, <3>2 DEF PhaseFacts
  <2>3. Bound = NoDevice /\ Bound' = NoDevice
    <3>1. Phase # "Running" /\ Phase' # "Running"
      BY <2>2
    <3>2. QED
      BY <1>0, <3>1 DEF PhaseFacts, Bound
  <2>4. Connection!Acknowledge
    BY <2>1, <2>2, <2>3 DEF Connection!Acknowledge, Changed, Bound, Present
  <2>5. QED
    BY <2>4 DEF Connection!Next
<1>6. CASE DetachedInitialize
  <2>1. Present' = Present /\ Changed' = Changed /\ Bound' = Bound
    BY <1>0, <1>6 DEF DetachedInitialize, USB_init, Changed, Bound, Present
  <2>2. Phase' = Phase
    BY <1>0, <1>6 DEF DetachedInitialize, USB_init, PhaseFacts, Phase
  <2>3. QED
    BY <2>1, <2>2 DEF Connection!cvars, Changed, Bound, Present
<1>7. CASE StartSettle
  <2>1. Present' = Present /\ Changed' = Changed /\ Bound' = Bound
    BY <1>0, <1>7 DEF StartSettle, Changed, Bound, Present
  <2>2. Phase' = Phase
    BY <1>0, <1>7 DEF StartSettle, PhaseFacts, Phase
  <2>3. QED
    BY <2>1, <2>2 DEF Connection!cvars, Changed, Bound, Present
<1>8. CASE Settle
  <2>1. Present' = Present /\ Changed' = Changed /\ Bound' = Bound
    BY <1>0, <1>8 DEF Settle, Changed, Bound, Present
  <2>2. Phase' = Phase
    BY <1>0, <1>8 DEF Settle, PhaseFacts, Phase
  <2>3. QED
    BY <2>1, <2>2 DEF Connection!cvars, Changed, Bound, Present
<1>9. CASE ResetDevice
  <2>1. Present' = Present /\ Changed' = Changed /\ Bound' = Bound
    BY <1>0, <1>9 DEF ResetDevice, Changed, Bound, Present
  <2>2. Phase' = Phase
    BY <1>0, <1>9 DEF ResetDevice, PhaseFacts, Phase
  <2>3. QED
    BY <2>1, <2>2 DEF Connection!cvars, Changed, Bound, Present
<1>10. CASE WaitResetComplete
  <2>1. Present' = Present /\ Changed' = Changed /\ Bound' = Bound
    BY <1>0, <1>10 DEF WaitResetComplete, Changed, Bound, Present
  <2>2. Phase' = Phase
    BY <1>0, <1>10 DEF WaitResetComplete, PhaseFacts, Phase
  <2>3. QED
    BY <2>1, <2>2 DEF Connection!cvars, Changed, Bound, Present
<1>11. CASE WaitSof
  <2>1. Present' = Present /\ Changed' = Changed /\ Bound' = Bound
    BY <1>0, <1>11 DEF WaitSof, Changed, Bound, Present
  <2>2. Phase' = Phase
    BY <1>0, <1>11 DEF WaitSof, PhaseFacts, Phase
  <2>3. QED
    BY <2>1, <2>2 DEF Connection!cvars, Changed, Bound, Present
<1>12. CASE GetDeviceDescriptor
  <2>1. CASE \E code \in 0..255 : Error(code)
    <3>1. Phase = "Enumerating" /\ Phase' = "Failed"
      BY <1>0, <2>1, <1>12 DEF GetDeviceDescriptor, Error, PhaseFacts
    <3>2. Present' = Present /\ Changed' = Changed /\ Bound = NoDevice /\ Bound' = NoDevice
      BY <1>12, <2>1 DEF GetDeviceDescriptor, Error, Changed, Bound, Present
    <3>3. Connection!GiveUp
      BY <3>1, <3>2 DEF Connection!GiveUp, Changed, Bound, Present
    <3>4. QED
      BY <3>3 DEF Connection!Next
  <2>2. CASE usb_task_state' = USB_STATE_ADDRESSING
    <3>1. Present' = Present /\ Changed' = Changed /\ Bound' = Bound
      BY <1>12, <2>2 DEF GetDeviceDescriptor, Changed, Bound, Present
    <3>2. Phase' = Phase
      BY <1>0, <1>12, <2>2 DEF GetDeviceDescriptor, PhaseFacts
    <3>3. QED
      BY <3>1, <3>2 DEF Connection!cvars, Changed, Bound, Present
  <2>3. QED
    BY <1>12, <2>1, <2>2, RcodeType DEF GetDeviceDescriptor
<1>13. CASE Addressing
  <2>1. CASE \E code \in 0..255 : Error(code)
    <3>1. Phase = "Enumerating" /\ Phase' = "Failed"
      BY <1>0, <2>1, <1>13 DEF Addressing, Error, PhaseFacts
    <3>2. Present' = Present /\ Changed' = Changed /\ Bound = NoDevice /\ Bound' = NoDevice
      BY <1>13, <2>1 DEF Addressing, Error, Changed, Bound, Present
    <3>3. Connection!GiveUp
      BY <3>1, <3>2 DEF Connection!GiveUp, Changed, Bound, Present
    <3>4. QED
      BY <3>3 DEF Connection!Next
  <2>2. CASE usb_task_state' = USB_STATE_CONFIGURING
    <3>1. Present' = Present /\ Changed' = Changed /\ Bound' = Bound
      BY <1>13, <2>2 DEF Addressing, Changed, Bound, Present
    <3>2. Phase' = Phase
      BY <1>0, <1>13, <2>2 DEF Addressing, PhaseFacts
    <3>3. QED
      BY <3>1, <3>2 DEF Connection!cvars, Changed, Bound, Present
  <2>3. QED
    <3>1. Error(\hfe) \/ (\E rcode \in Rcodes : Error(rcode)) \/ usb_task_state' = USB_STATE_CONFIGURING
      BY <1>13 DEF Addressing, SetAddress
    <3>2. QED
      BY <3>1, <2>1, <2>2, RcodeType
<1>14. CASE Configuring
  <2>1. CASE \E code \in 0..255 : Error(code)
    <3>1. Phase = "Enumerating" /\ Phase' = "Failed"
      BY <1>0, <2>1, <1>14 DEF Configuring, Error, PhaseFacts
    <3>2. Present' = Present /\ Changed' = Changed /\ Bound = NoDevice /\ Bound' = NoDevice
      BY <1>14, <2>1 DEF Configuring, Error, Changed, Bound, Present
    <3>3. Connection!GiveUp
      BY <3>1, <3>2 DEF Connection!GiveUp, Changed, Bound, Present
    <3>4. QED
      BY <3>3 DEF Connection!Next
  <2>2. ASSUME NEW class \in {HID_M, HID_K}, ProbeAccepts(class)
        PROVE  Connection!BindDriver
    <3>1. Phase = "Enumerating" /\ Phase' = "Running"
      BY <1>0, <1>14, <2>2 DEF Configuring, ProbeAccepts, PhaseFacts
    <3>2. dev # NoDevice /\ DevClass[dev] = class
      BY <2>2 DEF ProbeAccepts, Answers
    <3>3. Present = class /\ Present' = class /\ Changed' = Changed
      BY <1>14, <3>2 DEF Configuring, Present, Changed
    <3>4. tmp_addr \in 0..NumDevices /\ devclass \in [0..NumDevices -> {NoClass, HID_K, HID_M}]
      BY <1>0 DEF TypeOK
    <3>5. Bound' = class
      <4>1. devclass'[hid_addr'] = class
        BY <2>2, <3>4 DEF ProbeAccepts, Bind
      <4>2. QED
        BY <2>2, <4>1 DEF ProbeAccepts, Bound
    <3>6. QED
      BY <3>1, <3>3, <3>5 DEF Connection!BindDriver, Changed, Bound, Present
  <2>3. QED
    <3>1. Error(\hfd) \/ \E class \in {HID_M, HID_K} : ProbeAccepts(class)
      BY <1>14 DEF Configuring, ProbeBindsAndFails, NoProbeMatches
    <3>2. QED
      BY <3>1, <2>1, <2>2 DEF Connection!Next
<1>15. CASE UNCHANGED vars
  <2>1. Present' = Present /\ Changed' = Changed /\ Bound' = Bound
    BY <1>0, <1>15 DEF vars, Changed, Bound, Present
  <2>2. Phase' = Phase
    BY <1>0, <1>15 DEF vars, PhaseFacts, Phase
  <2>3. QED
    BY <2>1, <2>2 DEF Connection!cvars, Changed, Bound, Present
<1>16. CASE ResetDone
  <2>1. Present' = Present /\ Bound' = Bound /\ Phase' = Phase
    BY <1>16 DEF ResetDone, Present, Bound, Phase
  <2>2. CASE hirq' = hirq \cup {"BUSEVENT"}
    <3>1. Changed' = Changed
      BY <1>16, <2>2 DEF ResetDone, Changed
    <3>2. QED
      BY <2>1, <3>1 DEF Connection!cvars, Changed, Bound, Present
  <2>3. CASE hirq' = hirq \cup {"BUSEVENT", "CONDET"}
    <3>1. Changed' /\ Present' \in {HID_K, HID_M, NoClass} \cup {NoDevice}
      BY <1>0, <2>3 DEF TypeOK, Changed, Present
    <3>2. Connection!PortChanges
      BY <2>1, <3>1 DEF Connection!PortChanges, Changed, Bound, Present
    <3>3. QED
      BY <3>2 DEF Connection!Next
  <2>4. QED
    BY <1>16, <2>2, <2>3 DEF ResetDone
<1>17. CASE Frame
  <2>1. Present' = Present /\ Changed' = Changed /\ Bound' = Bound
    BY <1>0, <1>17 DEF Frame, Changed, Bound, Present
  <2>2. Phase' = Phase
    BY <1>0, <1>17 DEF Frame, PhaseFacts, Phase
  <2>3. QED
    BY <2>1, <2>2 DEF Connection!cvars, Changed, Bound, Present
<1>18. CASE SettleExpires
  <2>1. Present' = Present /\ Changed' = Changed /\ Bound' = Bound
    BY <1>0, <1>18 DEF SettleExpires, Changed, Bound, Present
  <2>2. Phase' = Phase
    BY <1>0, <1>18 DEF SettleExpires, PhaseFacts, Phase
  <2>3. QED
    BY <2>1, <2>2 DEF Connection!cvars, Changed, Bound, Present
<1>19. CASE \E d \in Kinds : Plug(d)
  <2>1. Present' \in {HID_K, HID_M, NoClass} \cup {NoDevice}
    BY <1>0 DEF TypeOK, Present
  <2>2. Changed' /\ Bound' = Bound /\ Phase' = Phase
    BY <1>19 DEF Plug, FreshDevice, ConnectionChanges, Changed, Bound, Phase
  <2>3. Connection!PortChanges
    BY <2>1, <2>2 DEF Connection!PortChanges, Changed, Bound, Present
  <2>4. QED
    BY <2>3 DEF Connection!Next
<1>20. CASE Unplug
  <2>1. Present' \in {HID_K, HID_M, NoClass} \cup {NoDevice}
    BY <1>0 DEF TypeOK, Present
  <2>2. Changed' /\ Bound' = Bound /\ Phase' = Phase
    BY <1>20 DEF Unplug, FreshDevice, ConnectionChanges, Changed, Bound, Phase
  <2>3. Connection!PortChanges
    BY <2>1, <2>2 DEF Connection!PortChanges, Changed, Bound, Present
  <2>4. QED
    BY <2>3 DEF Connection!Next
<1>21. CASE Glitch
  <2>1. Present' \in {HID_K, HID_M, NoClass} \cup {NoDevice}
    BY <1>0 DEF TypeOK, Present
  <2>2. Changed' /\ Bound' = Bound /\ Phase' = Phase
    BY <1>21 DEF Glitch, ConnectionChanges, Changed, Bound, Phase
  <2>3. Connection!PortChanges
    BY <2>1, <2>2 DEF Connection!PortChanges, Changed, Bound, Present
  <2>4. QED
    BY <2>3 DEF Connection!Next
<1>22. CASE GlitchEnds
  <2>1. Present' \in {HID_K, HID_M, NoClass} \cup {NoDevice}
    BY <1>0 DEF TypeOK, Present
  <2>2. Changed' /\ Bound' = Bound /\ Phase' = Phase
    BY <1>22 DEF GlitchEnds, ConnectionChanges, Changed, Bound, Phase
  <2>3. Connection!PortChanges
    BY <2>1, <2>2 DEF Connection!PortChanges, Changed, Bound, Present
  <2>4. QED
    BY <2>3 DEF Connection!Next
<1>23. QED
  BY <1>1, <1>2, <1>3, <1>4, <1>5, <1>6, <1>7, <1>8, <1>9, <1>10, <1>11, <1>12, <1>13,
     <1>14, <1>15, <1>16, <1>17, <1>18, <1>19, <1>20, <1>21, <1>22
     DEF Next, Program, USB_Task, Environment, NoCase

\* The host binds a driver only to the device in the port, and acknowledges a
\* change of the port only after the driver is let go.
THEOREM Refinement == Spec => ImplementsConnection
  BY Invariant, InitRefines, StepRefines, PTL DEF Spec, ImplementsConnection, Connection!Spec
-----------------------------------------------------------------------------
(* How long the host takes once it is left alone: the half of              *)
(* EnumerationTerminates that needs no fairness.                           *)

\* The states of USB_Task that are still to come.
StatesAhead(state) ==
  CASE state = USB_STATE_ATTACHED                        -> 9
    [] state = USB_ATTACHED_SUBSTATE_SETTLE              -> 8
    [] state = USB_ATTACHED_SUBSTATE_RESET_DEVICE        -> 7
    [] state = USB_ATTACHED_SUBSTATE_WAIT_RESET_COMPLETE -> 6
    [] state = USB_ATTACHED_SUBSTATE_WAIT_SOF            -> 5
    [] state = USB_ATTACHED_SUBSTATE_GET_DEVICE_DESCRIPTOR_SIZE -> 4
    [] state = USB_STATE_ADDRESSING                      -> 3
    [] state = USB_STATE_CONFIGURING                     -> 2
    [] state = USB_DETACHED_SUBSTATE_INITIALIZE          -> 1
    [] state \in Quiescent                               -> 0

\* The steps of the start and of a bus probe that are still to come; a probe may
\* send USB_Task back to any state.
ProbesAhead(place, bits) ==
  CASE place = "boot" -> 5 [] place = "bootack" -> 4 [] place = "init" -> 3
    [] place = "loop" -> IF "CONDET" \in bits THEN 2 ELSE 0
    [] place = "ack"  -> 1

One(waiting) == IF waiting THEN 1 ELSE 0

\* The steps the host, the chip and the timer have left, at most.
StepsLeft ==
  32 * ProbesAhead(pc, hirq) + 3 * StatesAhead(usb_task_state)
  + One(bus = "reset") + One(usb_delay = "running")

\* A step of the loop, of the timer, or the end of a reset that does not look like a
\* new connection.
HostStep ==
  \/ Program \/ SettleExpires
  \/ ResetDone /\ ("CONDET" \in hirq' => "CONDET" \in hirq)

AtRest == usb_task_state \in Quiescent /\ pc = "loop" /\ "CONDET" \notin hirq

\* A probe counts more than any state, and a state more than its reset and delay.
LEMMA Weights ==
  ASSUME NEW p \in 0..5, NEW q \in 0..5, NEW s \in 0..9, NEW t \in 0..9,
         NEW b \in 0..1, NEW c \in 0..1, NEW d \in 0..1, NEW e \in 0..1,
         \/ q < p
         \/ q = p /\ t < s
         \/ q = p /\ t = s /\ c + e < b + d
  PROVE  32 * q + 3 * t + c + e < 32 * p + 3 * s + b + d
OBVIOUS

\* The values of the parts.
LEMMA StateValues ==
  /\ StatesAhead(\h10) = 9 /\ StatesAhead(\h11) = 8 /\ StatesAhead(\h12) = 7
  /\ StatesAhead(\h13) = 6 /\ StatesAhead(\h14) = 5 /\ StatesAhead(\h15) = 4
  /\ StatesAhead(\h20) = 3 /\ StatesAhead(\h30) = 2 /\ StatesAhead(\h01) = 1
  /\ \A s \in Quiescent : StatesAhead(s) = 0
BY DEF StatesAhead, Quiescent

\* Every state has one, and only the quiescent ones have none ahead.
LEMMA StateRange ==
  ASSUME NEW s \in TaskStates
  PROVE  StatesAhead(s) \in 0..9 /\ (StatesAhead(s) = 0 => s \in Quiescent)
<1>1. \/ s \in {\h10, \h11, \h12, \h13, \h14, \h15, \h20, \h30, \h01}
      \/ s \in Quiescent
  BY DEF TaskStates, Quiescent
<1> QED
  BY <1>1, StateValues

\* The same of the places in the loop.
LEMMA ProbeValues ==
  ASSUME NEW bits
  PROVE  /\ "CONDET" \in bits => ProbesAhead("loop", bits) = 2
         /\ "CONDET" \notin bits => ProbesAhead("loop", bits) = 0
         /\ ProbesAhead("boot", bits) = 5 /\ ProbesAhead("bootack", bits) = 4
         /\ ProbesAhead("init", bits) = 3 /\ ProbesAhead("ack", bits) = 1
BY DEF ProbesAhead

\* No more of the bits matters than whether a connection change is among them.
LEMMA SameProbes ==
  ASSUME NEW place, NEW bits, NEW more, "CONDET" \in bits <=> "CONDET" \in more
  PROVE  ProbesAhead(place, bits) = ProbesAhead(place, more)
BY DEF ProbesAhead

\* A flag counts for one step at most.
LEMMA OneRange == \A w \in BOOLEAN : One(w) \in 0..1
BY DEF One

\* The four parts now.
LEMMA Parts ==
  ASSUME TypeOK
  PROVE  /\ ProbesAhead(pc, hirq) \in 0..5
         /\ StatesAhead(usb_task_state) \in 0..9
         /\ One(bus = "reset") \in 0..1 /\ One(usb_delay = "running") \in 0..1
<1>1. pc \in {"boot", "bootack", "init", "loop", "ack"} /\ usb_task_state \in TaskStates
  BY DEF TypeOK
<1>2. ProbesAhead(pc, hirq) \in 0..5
  BY <1>1 DEF ProbesAhead
<1> QED
  BY <1>1, <1>2, StateRange, OneRange

\* And after a step.
LEMMA PartsNext ==
  ASSUME TypeOK'
  PROVE  /\ ProbesAhead(pc', hirq') \in 0..5
         /\ StatesAhead(usb_task_state') \in 0..9
         /\ One(bus' = "reset") \in 0..1 /\ One(usb_delay' = "running") \in 0..1
<1>1. pc' \in {"boot", "bootack", "init", "loop", "ack"} /\ usb_task_state' \in TaskStates
  BY DEF TypeOK
<1>2. ProbesAhead(pc', hirq') \in 0..5
  BY <1>1 DEF ProbesAhead
<1> QED
  BY <1>1, <1>2, StateRange, OneRange

\* Fewer probes, or fewer states, or less to wait for.
LEMMA FewerSteps ==
  ASSUME TypeOK, TypeOK',
         \/ ProbesAhead(pc', hirq') < ProbesAhead(pc, hirq)
         \/ /\ ProbesAhead(pc', hirq') = ProbesAhead(pc, hirq)
            /\ StatesAhead(usb_task_state') < StatesAhead(usb_task_state)
         \/ /\ ProbesAhead(pc', hirq') = ProbesAhead(pc, hirq)
            /\ StatesAhead(usb_task_state') = StatesAhead(usb_task_state)
            /\ One(bus' = "reset") + One(usb_delay' = "running")
                 < One(bus = "reset") + One(usb_delay = "running")
  PROVE  StepsLeft' < StepsLeft
<1> DEFINE p == ProbesAhead(pc, hirq)
           q == ProbesAhead(pc', hirq')
           s == StatesAhead(usb_task_state)
           t == StatesAhead(usb_task_state')
           b == One(bus = "reset")
           c == One(bus' = "reset")
           d == One(usb_delay = "running")
           e == One(usb_delay' = "running")
<1>1. p \in 0..5 /\ q \in 0..5 /\ s \in 0..9 /\ t \in 0..9 /\ b \in 0..1 /\ c \in 0..1
      /\ d \in 0..1 /\ e \in 0..1
  BY Parts, PartsNext
<1>2. StepsLeft = 32 * p + 3 * s + b + d /\ StepsLeft' = 32 * q + 3 * t + c + e
  BY DEF StepsLeft
<1>3. CASE q < p
  <2> HIDE DEF p, q, s, t, b, c, d, e
  <2>1. 32 * q + 3 * t + c + e < 32 * p + 3 * s + b + d
    BY <1>1, <1>3, Weights
  <2> QED
    BY <1>2, <2>1, Zenon
<1>4. CASE q = p /\ t < s
  <2> HIDE DEF p, q, s, t, b, c, d, e
  <2>1. 32 * q + 3 * t + c + e < 32 * p + 3 * s + b + d
    BY <1>1, <1>4, Weights
  <2> QED
    BY <1>2, <2>1, Zenon
<1>5. CASE q = p /\ t = s /\ c + e < b + d
  <2> HIDE DEF p, q, s, t, b, c, d, e
  <2>1. 32 * q + 3 * t + c + e < 32 * p + 3 * s + b + d
    BY <1>1, <1>5, Weights
  <2> QED
    BY <1>2, <2>1, Zenon
<1> QED
  BY <1>3, <1>4, <1>5

\* USB_Task goes on to a state with fewer ahead of it, or it waits.
LEMMA TaskShortens ==
  ASSUME IInv, USB_Task, ~(UNCHANGED vars)
  PROVE  /\ UNCHANGED pc /\ ("CONDET" \in hirq' <=> "CONDET" \in hirq)
         /\ StatesAhead(usb_task_state') < StatesAhead(usb_task_state)
<1> USE DEF InState, control
<1> HIDE DEF StatesAhead
<1>0. /\ \h03 \in Quiescent /\ \h40 \in Quiescent /\ \hff \in Quiescent
  BY DEF Quiescent
<1>1. CASE DetachedInitialize
  BY <1>0, <1>1, StateValues DEF DetachedInitialize
<1>2. CASE StartSettle
  BY <1>2, StateValues DEF StartSettle
<1>3. CASE Settle
  BY <1>3, StateValues DEF Settle
<1>4. CASE ResetDevice
  BY <1>4, StateValues DEF ResetDevice
<1>5. CASE WaitResetComplete
  BY <1>5, StateValues DEF WaitResetComplete
<1>6. CASE WaitSof
  BY <1>6, StateValues DEF WaitSof
<1>7. CASE GetDeviceDescriptor
  <2>1. usb_task_state = \h15 /\ usb_task_state' \in {\h20, \hff} /\ UNCHANGED <<pc, hirq>>
    BY <1>7 DEF GetDeviceDescriptor, Error
  <2> QED
    BY <1>0, <2>1, StateValues
<1>8. CASE Addressing
  <2>1. usb_task_state = \h20 /\ usb_task_state' \in {\h30, \hff} /\ UNCHANGED <<pc, hirq>>
    BY <1>8 DEF Addressing, SetAddress, Error
  <2> QED
    BY <1>0, <2>1, StateValues
<1>9. CASE Configuring
  <2>1. usb_task_state = \h30 /\ usb_task_state' \in {\h40, \hff} /\ UNCHANGED <<pc, hirq>>
    BY <1>9 DEF Configuring, ProbeAccepts, ProbeBindsAndFails, NoProbeMatches, Error
  <2> QED
    BY <1>0, <2>1, StateValues
<1>10. CASE NoCase
  BY <1>10 DEF NoCase
<1> QED
  BY <1>1, <1>2, <1>3, <1>4, <1>5, <1>6, <1>7, <1>8, <1>9, <1>10 DEF USB_Task

\* Every step of the host brings it nearer to its rest.
LEMMA HostStepShortens ==
  ASSUME IInv, IInv', HostStep, ~(UNCHANGED vars)
  PROVE  StepsLeft' < StepsLeft
<1>1. TypeOK /\ TypeOK'
  BY DEF IInv
<1> HIDE DEF StatesAhead, ProbesAhead, One
<1>2. CASE ProbesAhead(pc', hirq') < ProbesAhead(pc, hirq)
  BY <1>1, <1>2, FewerSteps
<1>3. CASE MAX3421E_init
  BY <1>2, <1>3, ProbeValues DEF MAX3421E_init
<1>4. CASE MAX3421E_initAck
  BY <1>2, <1>4, ProbeValues DEF MAX3421E_initAck
<1>5. CASE MainInit
  <2>1. /\ pc = "init" /\ pc' = "loop" /\ hirq' = hirq
        /\ ProbesAhead(pc, hirq) = 3
    BY <1>5, ProbeValues DEF MainInit
  <2>2. CASE "CONDET" \in hirq
    <3>1. ProbesAhead(pc', hirq') = 2
      BY <2>1, <2>2, ProbeValues
    <3> QED
      BY <1>2, <2>1, <3>1, ProbeValues
  <2>3. CASE "CONDET" \notin hirq
    <3>1. ProbesAhead(pc', hirq') = 0
      BY <2>1, <2>3, ProbeValues
    <3> QED
      BY <1>2, <2>1, <3>1, ProbeValues
  <2> QED
    BY <2>2, <2>3
<1>6. CASE MaxIntHandlerProbe
  <2>1. ProbesAhead(pc, hirq) = 2
    BY <1>6, ProbeValues DEF MaxIntHandlerProbe
  <2>2. ProbesAhead(pc', hirq') = 1
    BY <1>6, ProbeValues DEF MaxIntHandlerProbe
  <2> QED
    BY <1>2, <2>1, <2>2
<1>7. CASE MaxIntHandlerAck
  <2>1. "CONDET" \notin hirq'
    BY <1>7 DEF IInv, AckedChange, MaxIntHandlerAck
  <2>2. ProbesAhead(pc', hirq') = 0
    BY <1>7, <2>1, ProbeValues DEF MaxIntHandlerAck
  <2>3. ProbesAhead(pc, hirq) = 1
    BY <1>7, ProbeValues DEF MaxIntHandlerAck
  <2> QED
    BY <1>2, <2>2, <2>3
<1>8. CASE USB_Task
  <2>1. /\ pc' = pc /\ ("CONDET" \in hirq' <=> "CONDET" \in hirq)
        /\ StatesAhead(usb_task_state') < StatesAhead(usb_task_state)
    BY <1>8, TaskShortens
  <2>2. ProbesAhead(pc', hirq') = ProbesAhead(pc, hirq)
    <3>1. ProbesAhead(pc, hirq') = ProbesAhead(pc, hirq)
      BY <2>1, SameProbes
    <3> QED
      BY <2>1, <3>1, Zenon
  <2> QED
    BY <1>1, <2>1, <2>2, FewerSteps
<1>9. CASE SettleExpires \/ (ResetDone /\ ("CONDET" \in hirq' => "CONDET" \in hirq))
  <2>1. pc' = pc /\ usb_task_state' = usb_task_state
    BY <1>9 DEF SettleExpires, ResetDone, control
  <2>2. "CONDET" \in hirq' <=> "CONDET" \in hirq
    BY <1>9 DEF SettleExpires, ResetDone
  <2>3. ProbesAhead(pc', hirq') = ProbesAhead(pc, hirq)
    <3>1. ProbesAhead(pc, hirq') = ProbesAhead(pc, hirq)
      BY <2>2, SameProbes
    <3> QED
      BY <2>1, <3>1, Zenon
  <2>4. \/ bus = "reset" /\ bus' = "idle" /\ usb_delay' = usb_delay
        \/ usb_delay = "running" /\ usb_delay' = "expired" /\ bus' = bus
    BY <1>9 DEF SettleExpires, ResetDone
  <2>5. One(bus' = "reset") + One(usb_delay' = "running") < One(bus = "reset") + One(usb_delay = "running")
    BY <2>4 DEF One
  <2> QED
    BY <1>1, <2>1, <2>3, <2>5, FewerSteps
<1> QED
  BY <1>3, <1>4, <1>5, <1>6, <1>7, <1>8, <1>9 DEF HostStep, Program

\* A frame of the bus changes nothing about it.
LEMMA FrameKeeps ==
  ASSUME Frame
  PROVE  StepsLeft' = StepsLeft
<1>1. pc' = pc /\ usb_task_state' = usb_task_state /\ bus' = bus /\ usb_delay' = usb_delay
  BY DEF Frame, control
<1>2. "CONDET" \in hirq' <=> "CONDET" \in hirq
  BY DEF Frame
<1>3. ProbesAhead(pc', hirq') = ProbesAhead(pc, hirq)
  <2>1. ProbesAhead(pc, hirq') = ProbesAhead(pc, hirq)
    BY <1>2, SameProbes
  <2> QED
    BY <1>1, <2>1, Zenon
<1> QED
  BY <1>1, <1>3, Zenon DEF StepsLeft

\* A host whose port is left alone is at rest after at most 189 steps, from wherever it
\* is: each of its steps, of its timer and of the chip leaves fewer, and only a new
\* connection, or a reset that looks like one, starts the count again.
THEOREM EnumerationIsShort ==
  Spec => /\ [](StepsLeft \in 0..189 /\ (StepsLeft = 0 => AtRest))
          /\ [][(HostStep => StepsLeft' < StepsLeft) /\ (Frame => StepsLeft' = StepsLeft)]_vars
<1>1. ASSUME IInv
      PROVE  StepsLeft \in 0..189 /\ (StepsLeft = 0 => AtRest)
  <2> DEFINE p == ProbesAhead(pc, hirq)
             s == StatesAhead(usb_task_state)
             b == One(bus = "reset")
             d == One(usb_delay = "running")
  <2>1. p \in 0..5 /\ s \in 0..9 /\ b \in 0..1 /\ d \in 0..1 /\ usb_task_state \in TaskStates
        /\ pc \in {"boot", "bootack", "init", "loop", "ack"}
    BY <1>1, Parts DEF IInv, TypeOK
  <2>2. StepsLeft = 32 * p + 3 * s + b + d
    BY DEF StepsLeft
  <2>3. ASSUME p = 0 PROVE pc = "loop" /\ "CONDET" \notin hirq
    BY <2>1, <2>3, ProbeValues DEF p, ProbesAhead
  <2>4. ASSUME s = 0 PROVE usb_task_state \in Quiescent
    BY <2>1, <2>4, StateRange
  <2> HIDE DEF p, s, b, d
  <2>5. 32 * p + 3 * s + b + d \in 0..189
    BY <2>1
  <2>6. 32 * p + 3 * s + b + d = 0 => p = 0 /\ s = 0
    BY <2>1
  <2> QED
    BY <2>2, <2>3, <2>4, <2>5, <2>6 DEF AtRest
<1>2. IInv /\ IInv' /\ [Next]_vars =>
        [(HostStep => StepsLeft' < StepsLeft) /\ (Frame => StepsLeft' = StepsLeft)]_vars
  BY HostStepShortens, FrameKeeps
<1> QED
  BY <1>1, <1>2, Invariant, PTL DEF Spec
=============================================================================
