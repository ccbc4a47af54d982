---------------------------- MODULE UsbTransfer ----------------------------
(***************************************************************************)
(* The transfers of transfer.c, packet by packet: XferDispatchPkt launches *)
(* a packet in the MAX3421E, waits for its result and retries;             *)
(* XferInTransfer collects the packets of an IN transfer and keeps the     *)
(* endpoint's data toggle; XferCtrlReq strings the stages of a control     *)
(* transfer together.  The environment is the chip, a device with one      *)
(* control and one interrupt endpoint, and a line that loses packets.      *)
(*                                                                         *)
(* The callers are those of lab 6: a probe reads descriptors and           *)
(* configures the device, and then the keyboard or mouse is polled.        *)
(***************************************************************************)
EXTENDS Naturals, Sequences

CONSTANTS
  USB_NAK_LIMIT, USB_RETRY_LIMIT,
  DescrPackets,     \* data packets of a descriptor
  PacketsPerReport, \* data packets of an interrupt report
  MaxReports,       \* bound: how many reports the device has
  MaxFaults,        \* bound: how many packets the line loses or breaks
  LateAnswers       \* may a packet end after XferDispatchPkt gave up on it?

ASSUME LimitsAssumption ==
  /\ USB_NAK_LIMIT \in 1..255 /\ USB_RETRY_LIMIT \in 1..127
  /\ DescrPackets \in Nat \ {0} /\ PacketsPerReport \in Nat \ {0}
  /\ MaxReports \in Nat /\ MaxFaults \in Nat
  /\ LateAnswers \in BOOLEAN

hrSUCCESS == \h00
hrNAK     == \h04
hrSTALL   == \h05
hrTOGERR  == \h06
hrCRCERR  == \h0B
hrTIMEOUT == \h0E
XferTimeout == \hff  \* XferDispatchPkt: no result in time
NoRcvdav    == \hf0  \* XferInTransfer: no data received

Calls == {"read", "configure", "poll"}
\* The packets the calls send: two requests, INs to endpoints 0 and 1, and the
\* two handshake packets of a status stage.
Tokens == {"GET_DESCR", "SET_CONF", "IN0", "IN1", "INHS", "OUTHS"}

\* A packet is its number in its report stream or descriptor.
Packets == 0..(MaxReports * PacketsPerReport + DescrPackets)
Empty   == MaxReports * PacketsPerReport + DescrPackets + 1

VARIABLES
  \* the program
  call,         \* the transfer that runs, or ran last, or "none"
  at,           \* "idle", or XferDispatchPkt at its "launch" or its "wait"
  token,        \* the packet it dispatches
  nak_count, retry_count,
  data,         \* the packets the running transfer has received
  rcode,        \* the result of the transfer that ran last
  rcvToggle,    \* hid_ep[1].rcvToggle
  driver,       \* "bound" once the device was configured
  reports,      \* the packets polls have returned with result 0
  \* the chip
  busy,         \* the packet it is sending, or "none"
  hxfrdn,       \* HXFRDNIRQ: is there a result?
  hrsl,         \* the result in rHRSL
  fifo,         \* the packet behind RCVDAVIRQ, or Empty
  rcvtog,       \* RCVTOGRD: the toggle it expects
  \* the device
  request,      \* the control request it works on, or "none"
  done,         \* has it executed the configuration request?
  sent0, tog0,  \* data packets of the request that were acknowledged; toggle
  acked, tog1,  \* the same of the interrupt endpoint
  faults

program == <<call, at, token, nak_count, retry_count, data, rcode, rcvToggle, driver, reports>>
chip    == <<busy, hxfrdn, hrsl, fifo, rcvtog>>
device  == <<request, done, sent0, tog0, acked, tog1>>
vars    == <<program, chip, device, faults>>

Init ==
  /\ call = "none" /\ at = "idle" /\ token = "GET_DESCR"
  /\ nak_count = 0 /\ retry_count = 0
  /\ data = <<>> /\ rcode = 0
  /\ rcvToggle = 0
  /\ driver = "unbound" /\ reports = <<>>
  /\ busy = "none" /\ hxfrdn = 0 /\ hrsl = hrSUCCESS
  /\ fifo = Empty /\ rcvtog = 0
  /\ request = "none" /\ done = 0
  /\ sent0 = 0 /\ tog0 = 0 /\ acked = 0 /\ tog1 = 0
  /\ faults = 0

-----------------------------------------------------------------------------
(* The program.                                                            *)

\* XferDispatchPkt is entered with a packet and its counters at zero.
Dispatch(t) ==
  /\ token' = t
  /\ nak_count' = 0 /\ retry_count' = 0
  /\ at' = "launch"

\* XferCtrlReq: the request is sent first.  HID_init goes before XferSetConf.
\* A request without data may follow a read that failed: XferSetAddr follows
\* the string descriptors, whose results are not looked at.  A configuration
\* that failed may come again, with the next device or the next attachment.
ControlRequest(c) ==
  /\ at = "idle" /\ driver = "unbound"
  /\ call' = c
  /\ Dispatch(IF c = "read" THEN "GET_DESCR" ELSE "SET_CONF")
  /\ rcvToggle' = IF c = "configure" THEN 0 ELSE rcvToggle
  /\ done' = IF c = "configure" THEN 0 ELSE done
  /\ data' = <<>>
  /\ UNCHANGED <<rcode, driver, reports, chip, request, sent0, tog0, acked, tog1, faults>>

\* mutant: the chip's toggle is left as the last transfer left it.
PollKeepsChipToggle ==
  /\ at = "idle" /\ driver = "bound"
  /\ call' = "poll"
  /\ Dispatch("IN1")
  /\ data' = <<>>
  /\ UNCHANGED <<rcode, rcvToggle, driver, reports, chip, device, faults>>

\* kbdPoll or mousePoll: XferInTransfer with the endpoint's saved toggle.
Poll ==
  /\ at = "idle" /\ driver = "bound"
  /\ call' = "poll"
  /\ Dispatch("IN1")
  /\ rcvtog' = rcvToggle
  /\ data' = <<>>
  /\ UNCHANGED <<rcode, rcvToggle, driver, reports, busy, hxfrdn, hrsl, fifo, device, faults>>

\* XferDispatchPkt: the packet is written to rHXFR.
Launch ==
  /\ at = "launch"
  /\ busy' = token
  /\ at' = "wait"
  /\ UNCHANGED <<call, token, nak_count, retry_count, data, rcode, rcvToggle, driver, reports,
                 hxfrdn, hrsl, fifo, rcvtog, device, faults>>

\* The transfer ends with a result.
End(code) ==
  /\ at' = "idle"
  /\ rcode' = code
  /\ driver' = IF call = "configure" /\ code = 0 THEN "bound" ELSE driver
  /\ UNCHANGED <<token, nak_count, retry_count>>

\* mutant: the counters are not looked at.
ResendForEver ==
  /\ hrsl \in {hrNAK, hrTIMEOUT}
  /\ at' = "launch"
  /\ UNCHANGED <<token, nak_count, retry_count, data, rcode, rcvToggle, driver, reports, fifo, rcvtog>>

\* mutant: the limit is compared before the count goes up.
ResendOnceMore ==
  /\ \/ /\ hrsl = hrNAK
        /\ nak_count # USB_NAK_LIMIT
        /\ nak_count' = nak_count + 1
        /\ UNCHANGED retry_count
     \/ /\ hrsl = hrTIMEOUT
        /\ retry_count # USB_RETRY_LIMIT
        /\ retry_count' = retry_count + 1
        /\ UNCHANGED nak_count
  /\ at' = "launch"
  /\ UNCHANGED <<token, data, rcode, rcvToggle, driver, reports, fifo, rcvtog>>

\* The device is not ready, or did not answer: the same packet again.
Resend ==
  /\ \/ /\ hrsl = hrNAK
        /\ nak_count + 1 # USB_NAK_LIMIT
        /\ nak_count' = nak_count + 1
        /\ UNCHANGED retry_count
     \/ /\ hrsl = hrTIMEOUT
        /\ retry_count + 1 # USB_RETRY_LIMIT
        /\ retry_count' = retry_count + 1
        /\ UNCHANGED nak_count
  /\ at' = "launch"
  /\ UNCHANGED <<token, data, rcode, rcvToggle, driver, reports, fifo, rcvtog>>

\* Any other result but success ends the transfer, and so do the limits.
Fail ==
  /\ \/ hrsl \notin {hrSUCCESS, hrNAK, hrTIMEOUT}
     \/ hrsl = hrNAK /\ nak_count + 1 = USB_NAK_LIMIT
     \/ hrsl = hrTIMEOUT /\ retry_count + 1 = USB_RETRY_LIMIT
  /\ End(hrsl)
  /\ UNCHANGED <<data, rcvToggle, reports, fifo, rcvtog>>

\* XferCtrlReq after the request: the data stage starts with DATA1 (whose saved
\* toggle no later transfer reads), or the status stage follows at once.
RequestSent ==
  /\ hrsl = hrSUCCESS
  /\ \/ token = "GET_DESCR" /\ Dispatch("IN0") /\ rcvtog' = 1
     \/ token = "SET_CONF" /\ Dispatch("INHS") /\ UNCHANGED rcvtog
  /\ UNCHANGED <<data, rcode, rcvToggle, driver, reports, fifo>>

\* mutant: one packet more is asked for.
LastPacketOneMore ==
  IF call = "poll" THEN Len(data) = PacketsPerReport ELSE Len(data) + 1 = DescrPackets

\* XferInTransfer is done when all bytes are there or a short packet came.
LastPacket ==
  IF call = "poll"
    THEN Len(data) + 1 = PacketsPerReport \/ (fifo + 1) % PacketsPerReport = 0
    ELSE Len(data) + 1 = DescrPackets \/ fifo + 1 = DescrPackets

\* mutant: the toggle that was received is kept, not the one that comes next.
PacketReceivedOldToggle ==
  /\ hrsl = hrSUCCESS /\ token \in {"IN0", "IN1"} /\ fifo # Empty
  /\ data' = Append(data, fifo)
  /\ fifo' = Empty
  /\ IF ~LastPacket
       THEN Dispatch(token) /\ UNCHANGED <<rcode, rcvToggle, driver, reports>>
       ELSE IF call = "read"
         THEN Dispatch("OUTHS") /\ UNCHANGED <<rcode, rcvToggle, driver, reports>>
         ELSE End(0) /\ rcvToggle' = 1 - rcvtog /\ reports' = reports \o data'
  /\ UNCHANGED rcvtog

\* mutant: the descriptor is complete with its first packet.
PacketReceivedShort ==
  /\ hrsl = hrSUCCESS /\ token \in {"IN0", "IN1"} /\ fifo # Empty
  /\ data' = Append(data, fifo)
  /\ fifo' = Empty
  /\ IF call = "read"
       THEN Dispatch("OUTHS") /\ UNCHANGED <<rcode, rcvToggle, driver, reports>>
       ELSE End(0) /\ rcvToggle' = rcvtog /\ reports' = reports \o data'
  /\ UNCHANGED rcvtog

\* XferInTransfer takes the packet; with the last one it saves the toggle, and
\* a control transfer goes on to its status stage.
PacketReceived ==
  /\ hrsl = hrSUCCESS /\ token \in {"IN0", "IN1"} /\ fifo # Empty
  /\ data' = Append(data, fifo)
  /\ fifo' = Empty
  /\ IF ~LastPacket
       THEN Dispatch(token) /\ UNCHANGED <<rcode, rcvToggle, driver, reports>>
       ELSE IF call = "read"
         THEN Dispatch("OUTHS") /\ UNCHANGED <<rcode, rcvToggle, driver, reports>>
         ELSE End(0) /\ rcvToggle' = rcvtog /\ reports' = reports \o data'
  /\ UNCHANGED rcvtog

NoPacketReceived ==
  /\ hrsl = hrSUCCESS /\ token \in {"IN0", "IN1"} /\ fifo = Empty
  /\ End(NoRcvdav)
  /\ UNCHANGED <<data, rcvToggle, reports, fifo, rcvtog>>

StatusSent ==
  /\ hrsl = hrSUCCESS /\ token \in {"INHS", "OUTHS"}
  /\ End(0)
  /\ UNCHANGED <<data, rcvToggle, reports, fifo, rcvtog>>

\* XferDispatchPkt sees HXFRDNIRQ, clears it and looks at the result.
Completed ==
  /\ at = "wait" /\ hxfrdn = 1
  /\ hxfrdn' = 0
  /\ Resend \/ Fail \/ RequestSent \/ PacketReceived \/ NoPacketReceived \/ StatusSent
  /\ UNCHANGED <<call, busy, hrsl, device, faults>>

\* Time is up, and XferDispatchPkt gives up on the packet it launched.
TimedOut ==
  /\ at = "wait"
  /\ LateAnswers \/ hxfrdn = 0
  /\ faults < MaxFaults /\ faults' = faults + 1
  /\ busy' = IF LateAnswers THEN busy ELSE "none"
  /\ End(XferTimeout)
  /\ UNCHANGED <<call, data, rcvToggle, reports, hxfrdn, hrsl, fifo, rcvtog, device>>

-----------------------------------------------------------------------------
(* The chip, the line and the device.                                      *)

\* The chip has finished the packet, with this result.
Result(code) == busy' = "none" /\ hxfrdn' = 1 /\ hrsl' = code
Fault == faults < MaxFaults /\ faults' = faults + 1

\* A packet or its answer is lost or broken: the device has seen nothing.
Lost ==
  /\ busy # "none"
  /\ Fault
  /\ \E code \in {hrTIMEOUT, hrCRCERR} : Result(code)
  /\ UNCHANGED <<program, fifo, rcvtog, device>>

\* The device is not ready.  A request must be accepted.
Nak ==
  /\ busy \notin {"none", "GET_DESCR", "SET_CONF"}
  /\ Result(hrNAK)
  /\ UNCHANGED <<program, fifo, rcvtog, device, faults>>

\* The device refuses a control request, or has none to work on.
Stall ==
  /\ busy \in {"IN0", "INHS", "OUTHS"}
  /\ Result(hrSTALL)
  /\ request' = "none"
  /\ UNCHANGED <<program, fifo, rcvtog, done, sent0, tog0, acked, tog1, faults>>

\* The device gets the request; its acknowledgement may be lost.
RequestArrives ==
  /\ busy \in {"GET_DESCR", "SET_CONF"}
  /\ request' = busy
  /\ sent0' = 0 /\ tog0' = 1
  /\ \/ Result(hrSUCCESS) /\ UNCHANGED faults
     \/ Result(hrTIMEOUT) /\ Fault
  /\ UNCHANGED <<program, fifo, rcvtog, done, acked, tog1>>

\* The chip acknowledges every data packet.  It keeps one with the toggle it
\* expects; another is a repetition, told by its result or by RCVDAVIRQ missing.
DataArrives(packet, tog) ==
  IF tog = rcvtog
    THEN Result(hrSUCCESS) /\ fifo' = packet /\ rcvtog' = 1 - rcvtog
    ELSE /\ \E code \in {hrTOGERR, hrSUCCESS} : Result(code)
         /\ UNCHANGED <<fifo, rcvtog>>

\* The device goes on to its next packet if the acknowledgement reaches it.
DescrArrives ==
  /\ busy = "IN0" /\ request = "GET_DESCR" /\ sent0 < DescrPackets
  /\ DataArrives(sent0, tog0)
  /\ \/ sent0' = sent0 + 1 /\ tog0' = 1 - tog0 /\ UNCHANGED faults
     \/ Fault /\ UNCHANGED <<sent0, tog0>>
  /\ UNCHANGED <<program, request, done, acked, tog1>>

ReportArrives ==
  /\ busy = "IN1" /\ acked < MaxReports * PacketsPerReport
  /\ DataArrives(acked, tog1)
  /\ \/ acked' = acked + 1 /\ tog1' = 1 - tog1 /\ UNCHANGED faults
     \/ Fault /\ UNCHANGED <<acked, tog1>>
  /\ UNCHANGED <<program, request, done, sent0, tog0>>

\* The device executes the configuration, which resets the interrupt endpoint's
\* toggle, and answers.  The answer may be asked for again.
ConfStatus ==
  /\ busy = "INHS" /\ request = "SET_CONF"
  /\ done' = 1 /\ tog1' = 0
  /\ \/ Result(hrSUCCESS) /\ UNCHANGED faults
     \/ Result(hrTIMEOUT) /\ Fault
  /\ UNCHANGED <<program, fifo, rcvtog, request, sent0, tog0, acked>>

DescrStatus ==
  /\ busy = "OUTHS" /\ request = "GET_DESCR"
  /\ \/ Result(hrSUCCESS) /\ UNCHANGED faults
     \/ Result(hrTIMEOUT) /\ Fault
  /\ UNCHANGED <<program, fifo, rcvtog, device>>

Environment ==
  \/ Lost \/ Nak \/ Stall \/ RequestArrives \/ DescrArrives \/ ReportArrives
  \/ ConfStatus \/ DescrStatus

Program ==
  \/ (\E c \in {"read", "configure"} : ControlRequest(c))
  \/ Poll \/ Launch \/ Completed \/ TimedOut

Next == Program \/ Environment

Spec == Init /\ [][Next]_vars

(* The program runs on, and the chip finishes what it was given.           *)
Fairness ==
  /\ WF_vars(Launch) /\ WF_vars(Completed)
  /\ WF_vars(Environment)

(* A configured device is polled for ever, whatever the last poll returned *)
(* (mousePoll and kbdPoll keep nothing of a failure), and does not stay    *)
(* "not ready" for ever.  MaxFaults bounds the faults.  That a device gets *)
(* configured is not assumed: after a failure USB_Task does not try again. *)
Willing ==
  /\ WF_vars(Poll)
  /\ SF_vars(ReportArrives /\ acked' = acked + 1)

FairSpec == Spec /\ Fairness /\ Willing

-----------------------------------------------------------------------------
(* Properties.                                                             *)

\* The types; the counters of XferDispatchPkt stay below their limits.
TypeOK ==
  /\ call \in Calls \cup {"none"}
  /\ at \in {"idle", "launch", "wait"}
  /\ token \in Tokens
  /\ nak_count \in 0..(USB_NAK_LIMIT - 1) /\ retry_count \in 0..(USB_RETRY_LIMIT - 1)
  /\ data \in Seq(Packets) /\ reports \in Seq(Packets)
  /\ rcode \in 0..255
  /\ rcvToggle \in {0, 1}
  /\ driver \in {"unbound", "bound"}
  /\ busy \in Tokens \cup {"none"}
  /\ hxfrdn \in {0, 1}
  /\ hrsl \in {hrSUCCESS, hrNAK, hrSTALL, hrTOGERR, hrCRCERR, hrTIMEOUT}
  /\ fifo \in Packets \cup {Empty}
  /\ rcvtog \in {0, 1}
  /\ request \in {"none", "GET_DESCR", "SET_CONF"}
  /\ done \in {0, 1}
  /\ sent0 \in 0..DescrPackets /\ tog0 \in {0, 1}
  /\ acked \in 0..(MaxReports * PacketsPerReport) /\ tog1 \in {0, 1}
  /\ faults \in 0..MaxFaults

\* Polls return the device's reports in order, none twice and none left out,
\* whatever packets and acknowledgements the line has lost in between.
ReportsInOrder == \A i \in 1..Len(reports) : reports[i] = i - 1

\* A packet the device has let go of was returned to the caller, or lies in the
\* FIFO of the poll that returns it next.
NothingLost ==
  \/ acked <= Len(reports)
  \/ /\ acked = Len(reports) + 1 /\ fifo = Len(reports)
     /\ call = "poll" /\ at = "wait" /\ hxfrdn = 1 /\ hrsl = hrSUCCESS

\* "Result code: 0 success": a control transfer with result 0 did what it was
\* asked: the device is configured, or the whole descriptor is there, in order.
ControlDone ==
  at = "idle" /\ rcode = 0 =>
    /\ call = "configure" => done = 1
    /\ call = "read" => data = [i \in 1..DescrPackets |-> i - 1]

\* Every transfer ends, however often the device is not ready or silent.
CallsEnd == at # "idle" ~> at = "idle"

\* Once the device is configured every report arrives: lost packets, even in the
\* requests before, never leave the two toggles in a state that stops them.
EveryReportArrives ==
  driver = "bound" ~> Len(reports) = MaxReports * PacketsPerReport

\* Polling implements a pipe.
Pipe == INSTANCE UsbPipe
PollsImplementPipe == Pipe!Spec
=============================================================================
