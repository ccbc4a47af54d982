------------------------- MODULE UsbTransfer_proofs -------------------------
(***************************************************************************)
(* Proofs about UsbTransfer, for any number of reports, of descriptor      *)
(* packets, of lost packets and for any limits.  The first part is under   *)
(* the two assumptions on which the alternating toggle rests: reports of   *)
(* one packet, and no answer after XferDispatchPkt gave up on it.  The     *)
(* last part, the types and the length of a call, needs neither.           *)
(***************************************************************************)
EXTENDS UsbTransfer, SequenceTheorems, TLAPS

(* The chip works on at most the packet XferDispatchPkt waits for, and its *)
(* FIFO holds a packet only behind a good result of an IN.                 *)
ChipInv ==
  /\ busy # "none" => at = "wait" /\ busy = token /\ hxfrdn = 0
  /\ hxfrdn = 1 => at = "wait"
  /\ fifo # Empty => hxfrdn = 1 /\ hrsl = hrSUCCESS /\ token \in {"IN0", "IN1"}

(* Which packets belong to which call.                                     *)
CallInv ==
  at # "idle" =>
    \/ call = "read" /\ driver = "unbound" /\ token \in {"GET_DESCR", "IN0", "OUTHS"}
    \/ call = "configure" /\ driver = "unbound" /\ token \in {"SET_CONF", "INHS"}
    \/ call = "poll" /\ driver = "bound" /\ token = "IN1"

(* The host's toggle counts the reports it has, the device's those that    *)
(* were acknowledged; each side is at most one packet ahead of the other.  *)
PollInv ==
  /\ driver = "unbound" => acked = 0 /\ tog1 = 0 /\ rcvToggle = 0 /\ reports = <<>>
  /\ rcvToggle = Len(reports) % 2
  /\ tog1 = acked % 2
  /\ Len(reports) <= acked + 1
  /\ (at # "idle" /\ token = "IN1" /\ fifo # Empty) =>
        fifo = Len(reports) /\ rcvtog = 1 - rcvToggle /\ acked \in {Len(reports), Len(reports) + 1}
  /\ (at # "idle" /\ token = "IN1" /\ fifo = Empty) => rcvtog = rcvToggle
  /\ (at # "idle" /\ token = "IN1") => data = <<>>
  /\ (at = "idle" \/ token # "IN1" \/ fifo = Empty) => acked <= Len(reports)

(* The same within the data stage of a control read.                       *)
ReadInv ==
  /\ (at # "idle" /\ token = "GET_DESCR") => data = <<>>
  /\ (token = "GET_DESCR" /\ hxfrdn = 1 /\ hrsl = hrSUCCESS) => sent0 = 0 /\ tog0 = 1
  /\ (at # "idle" /\ token = "IN0") =>
        /\ Len(data) < DescrPackets
        /\ \A i \in 1..Len(data) : data[i] = i - 1
        /\ tog0 = (sent0 + 1) % 2
        /\ Len(data) <= sent0 + 1
  /\ (at # "idle" /\ token = "IN0" /\ fifo = Empty) =>
        sent0 <= Len(data) /\ rcvtog = (Len(data) + 1) % 2
  /\ (at # "idle" /\ token = "IN0" /\ fifo # Empty) =>
        fifo = Len(data) /\ rcvtog = Len(data) % 2 /\ sent0 \in {Len(data), Len(data) + 1}
  /\ (at # "idle" /\ token = "OUTHS") => data = [i \in 1..DescrPackets |-> i - 1]

(* A good answer to the status IN means that the device is configured.     *)
ConfInv ==
  (token = "INHS" /\ hxfrdn = 1 /\ hrsl = hrSUCCESS) => done = 1

IInv ==
  /\ TypeOK /\ ChipInv /\ CallInv /\ PollInv /\ ReadInv /\ ConfInv
  /\ ReportsInOrder /\ ControlDone

(* The case that is proved.                                                *)
One == PacketsPerReport = 1 /\ LateAnswers = FALSE

-----------------------------------------------------------------------------
(* Facts about the constants and about sequences.                          *)

\* The constants are the numbers LimitsAssumption says.
LEMMA Limits ==
  /\ USB_NAK_LIMIT \in Nat \ {0} /\ USB_RETRY_LIMIT \in Nat \ {0}
  /\ DescrPackets \in Nat \ {0} /\ MaxReports \in Nat /\ MaxFaults \in Nat
BY LimitsAssumption

\* The packets' numbers: those of a descriptor and of the reports are among
\* them, and Empty is not.
LEMMA Numbers ==
  ASSUME One
  PROVE  /\ MaxReports * PacketsPerReport = MaxReports
         /\ Packets = 0..(MaxReports + DescrPackets)
         /\ Empty = MaxReports + DescrPackets + 1
<1>1. MaxReports * PacketsPerReport = MaxReports
  BY LimitsAssumption DEF One
<1> QED
  BY <1>1 DEF Packets, Empty

\* The result codes are different numbers.
LEMMA ResultCodes ==
  /\ hrSUCCESS = 0 /\ hrNAK = 4 /\ hrSTALL = 5 /\ hrTOGERR = 6 /\ hrCRCERR = 11
  /\ hrTIMEOUT = 14 /\ NoRcvdav = 240 /\ XferTimeout = 255
BY DEF hrSUCCESS, hrNAK, hrSTALL, hrTOGERR, hrCRCERR, hrTIMEOUT, NoRcvdav, XferTimeout

\* The toggles alternate.
LEMMA Parity == \A n \in Nat : n % 2 \in {0, 1} /\ (n + 1) % 2 = 1 - (n % 2)
OBVIOUS

\* A sequence that counts from zero is the descriptor.
LEMMA Whole ==
  ASSUME NEW s \in Seq(Packets), Len(s) = DescrPackets,
         \A i \in 1..Len(s) : s[i] = i - 1
  PROVE  s = [i \in 1..DescrPackets |-> i - 1]
OBVIOUS

\* A poll of one packet appends that packet.
LEMMA OnePacket ==
  ASSUME NEW s \in Seq(Packets), NEW x \in Packets
  PROVE  s \o Append(<<>>, x) = Append(s, x)
<1>1. Append(<<>>, x) = <<x>>
  OBVIOUS
<1> QED
  BY <1>1, AppendIsConcat

-----------------------------------------------------------------------------
(* Init, and each action.                                                  *)

\* IInv holds at the start: all toggles are DATA0 and nothing is under way.
LEMMA InitIInv == ASSUME One, Init PROVE IInv
<1> USE Limits, Numbers DEF One, Init
<1>1. TypeOK
  BY DEF TypeOK, Calls, Tokens
<1>2. ChipInv
  BY DEF ChipInv
<1>3. CallInv
  BY DEF CallInv
<1>4. PollInv
  BY DEF PollInv
<1>5. ReadInv
  BY DEF ReadInv
<1>6. ConfInv
  BY DEF ConfInv
<1>7. ReportsInOrder
  BY DEF ReportsInOrder
<1>8. ControlDone
  BY DEF ControlDone
<1> QED
  BY <1>1, <1>2, <1>3, <1>4, <1>5, <1>6, <1>7, <1>8 DEF IInv

\* A control request starts: both toggles of the interrupt endpoint are still 0.
LEMMA ControlRequestIInv ==
  ASSUME One, IInv, NEW c \in {"read", "configure"}, ControlRequest(c)
  PROVE  IInv'
<1> USE Limits, Numbers DEF One, IInv, ControlRequest, Dispatch, program, chip, device
<1>1. TypeOK'
  BY DEF TypeOK, Calls, Tokens
<1>2. ChipInv'
  BY DEF ChipInv
<1>3. CallInv'
  BY DEF CallInv
<1>4. PollInv'
  BY DEF PollInv
<1>5. ReadInv'
  BY DEF ReadInv, ChipInv
<1>6. ConfInv'
  BY DEF ConfInv
<1>7. ReportsInOrder'
  BY DEF ReportsInOrder
<1>8. ControlDone'
  BY DEF ControlDone
<1> QED
  BY <1>1, <1>2, <1>3, <1>4, <1>5, <1>6, <1>7, <1>8

\* A poll puts the saved toggle into the chip.
LEMMA PollIInv ==
  ASSUME One, IInv, Poll
  PROVE  IInv'
<1> USE Limits, Numbers DEF One, IInv, Poll, Dispatch, program, chip, device
<1>1. TypeOK'
  BY DEF TypeOK, Calls, Tokens
<1>2. ChipInv'
  BY DEF ChipInv
<1>3. CallInv'
  BY DEF CallInv
<1>4. PollInv'
  BY DEF PollInv, ChipInv
<1>5. ReadInv'
  BY DEF ReadInv
<1>6. ConfInv'
  BY DEF ConfInv
<1>7. ReportsInOrder'
  BY DEF ReportsInOrder
<1>8. ControlDone'
  BY DEF ControlDone
<1> QED
  BY <1>1, <1>2, <1>3, <1>4, <1>5, <1>6, <1>7, <1>8

\* The packet that is launched is the one the program waits for.
LEMMA LaunchIInv ==
  ASSUME One, IInv, Launch
  PROVE  IInv'
<1> USE Limits, Numbers DEF One, IInv, Launch, program, chip, device
<1>1. TypeOK'
  BY DEF TypeOK, Calls, Tokens
<1>2. ChipInv'
  BY DEF ChipInv, TypeOK
<1>3. CallInv'
  BY DEF CallInv
<1>4. PollInv'
  BY DEF PollInv
<1>5. ReadInv'
  BY DEF ReadInv
<1>6. ConfInv'
  BY DEF ConfInv
<1>7. ReportsInOrder'
  BY DEF ReportsInOrder
<1>8. ControlDone'
  BY DEF ControlDone
<1> QED
  BY <1>1, <1>2, <1>3, <1>4, <1>5, <1>6, <1>7, <1>8

\* Giving up keeps both sides' toggles: nothing had arrived.
LEMMA TimedOutIInv ==
  ASSUME One, IInv, TimedOut
  PROVE  IInv'
<1> USE Limits, Numbers DEF One, IInv, TimedOut, End, program, chip, device
<1>1. TypeOK'
  BY ResultCodes DEF TypeOK, Calls, Tokens
<1>2. ChipInv'
  BY DEF ChipInv
<1>3. CallInv'
  BY DEF CallInv
<1>4. PollInv'
  BY DEF PollInv, ChipInv
<1>5. ReadInv'
  BY DEF ReadInv
<1>6. ConfInv'
  BY DEF ConfInv
<1>7. ReportsInOrder'
  BY DEF ReportsInOrder
<1>8. ControlDone'
  BY ResultCodes DEF ControlDone
<1> QED
  BY <1>1, <1>2, <1>3, <1>4, <1>5, <1>6, <1>7, <1>8

\* A packet that is lost was seen by neither side.
LEMMA LostIInv ==
  ASSUME One, IInv, Lost
  PROVE  IInv'
<1> USE Limits, Numbers DEF One, IInv, Lost, Fault, Result, program, chip, device
<1>1. TypeOK'
  BY DEF TypeOK, Calls, Tokens
<1>2. ChipInv'
  BY DEF ChipInv
<1>3. CallInv'
  BY DEF CallInv
<1>4. PollInv'
  BY DEF PollInv
<1>5. ReadInv'
  BY ResultCodes DEF ReadInv
<1>6. ConfInv'
  BY ResultCodes DEF ConfInv
<1>7. ReportsInOrder'
  BY DEF ReportsInOrder
<1>8. ControlDone'
  BY DEF ControlDone
<1> QED
  BY <1>1, <1>2, <1>3, <1>4, <1>5, <1>6, <1>7, <1>8

\* A device that is not ready changes nothing.
LEMMA NakIInv ==
  ASSUME One, IInv, Nak
  PROVE  IInv'
<1> USE Limits, Numbers DEF One, IInv, Nak, Result, program, chip, device
<1>1. TypeOK'
  BY DEF TypeOK, Calls, Tokens
<1>2. ChipInv'
  BY DEF ChipInv
<1>3. CallInv'
  BY DEF CallInv
<1>4. PollInv'
  BY DEF PollInv
<1>5. ReadInv'
  BY DEF ReadInv, ChipInv
<1>6. ConfInv'
  BY ResultCodes DEF ConfInv
<1>7. ReportsInOrder'
  BY DEF ReportsInOrder
<1>8. ControlDone'
  BY DEF ControlDone
<1> QED
  BY <1>1, <1>2, <1>3, <1>4, <1>5, <1>6, <1>7, <1>8

\* Nor does one that refuses.
LEMMA StallIInv ==
  ASSUME One, IInv, Stall
  PROVE  IInv'
<1> USE Limits, Numbers DEF One, IInv, Stall, Result, program, chip, device
<1>1. TypeOK'
  BY DEF TypeOK, Calls, Tokens
<1>2. ChipInv'
  BY DEF ChipInv
<1>3. CallInv'
  BY DEF CallInv
<1>4. PollInv'
  BY DEF PollInv
<1>5. ReadInv'
  BY DEF ReadInv, ChipInv
<1>6. ConfInv'
  BY ResultCodes DEF ConfInv
<1>7. ReportsInOrder'
  BY DEF ReportsInOrder
<1>8. ControlDone'
  BY DEF ControlDone
<1> QED
  BY <1>1, <1>2, <1>3, <1>4, <1>5, <1>6, <1>7, <1>8

\* A request starts the device's data stage afresh, with DATA1.
LEMMA RequestArrivesIInv ==
  ASSUME One, IInv, RequestArrives
  PROVE  IInv'
<1> USE Limits, Numbers DEF One, IInv, RequestArrives, Fault, Result, program, chip, device
<1>1. TypeOK'
  BY DEF TypeOK, Calls, Tokens
<1>2. ChipInv'
  BY DEF ChipInv
<1>3. CallInv'
  BY DEF CallInv
<1>4. PollInv'
  BY DEF PollInv
<1>5. ReadInv'
  BY DEF ReadInv, ChipInv
<1>6. ConfInv'
  BY DEF ConfInv, ChipInv
<1>7. ReportsInOrder'
  BY DEF ReportsInOrder
<1>8. ControlDone'
  BY DEF ControlDone
<1> QED
  BY <1>1, <1>2, <1>3, <1>4, <1>5, <1>6, <1>7, <1>8

\* A descriptor packet is kept when the toggles agree, which is when it is new;
\* the device goes on only when its acknowledgement arrives.
LEMMA DescrArrivesIInv ==
  ASSUME One, IInv, DescrArrives
  PROVE  IInv'
<1>1. /\ at = "wait" /\ token = "IN0" /\ hxfrdn = 0 /\ fifo = Empty
      /\ data \in Seq(Packets) /\ sent0 \in 0..(DescrPackets - 1) /\ Len(data) \in Nat
      /\ rcvtog \in {0, 1} /\ tog0 \in {0, 1}
  BY Limits DEF IInv, DescrArrives, TypeOK, ChipInv, hrSUCCESS
<1>2. /\ sent0 \in {Len(data) - 1, Len(data)} /\ Len(data) < DescrPackets
      /\ tog0 = (sent0 + 1) % 2 /\ rcvtog = (Len(data) + 1) % 2
      /\ \A i \in 1..Len(data) : data[i] = i - 1
  BY <1>1 DEF IInv, ReadInv
<1>3. tog0 = rcvtog <=> sent0 = Len(data)
  BY <1>1, <1>2, Parity
<1>4. /\ UNCHANGED <<call, at, token, data, driver>>
      /\ busy' = "none" /\ hxfrdn' = 1
  BY DEF DescrArrives, DataArrives, Result, program
<1>5. /\ hrsl' \in {hrSUCCESS, hrTOGERR}
      /\ sent0' \in 0..DescrPackets
      /\ \/ sent0' = sent0 + 1 /\ tog0' = 1 - tog0
         \/ sent0' = sent0 /\ tog0' = tog0
  BY <1>1, Limits DEF DescrArrives, DataArrives, Result, Fault
<1>6. tog0' = (sent0' + 1) % 2 /\ tog0' \in {0, 1}
  <2>1. (sent0 + 1 + 1) % 2 = 1 - ((sent0 + 1) % 2)
    BY <1>1
  <2>2. CASE sent0' = sent0 + 1 /\ tog0' = 1 - tog0
    BY <1>1, <1>2, <2>1, <2>2
  <2>3. CASE sent0' = sent0 /\ tog0' = tog0
    BY <1>1, <1>2, <2>3
  <2> QED
    BY <1>5, <2>2, <2>3
<1>7. \/ /\ sent0 = Len(data) /\ fifo' = sent0 /\ hrsl' = hrSUCCESS
         /\ rcvtog' = 1 - rcvtog
      \/ /\ sent0 = Len(data) - 1 /\ fifo' = Empty /\ rcvtog' = rcvtog
  BY <1>1, <1>2, <1>3 DEF DescrArrives, DataArrives, Result
<1>8. rcvtog' \in {0, 1} /\ (fifo' # Empty => rcvtog' = Len(data) % 2)
  BY <1>1, <1>2, <1>7, Parity
<1>9. fifo' \in Packets \cup {Empty}
  BY <1>1, <1>7, Limits, Numbers
<1>10. faults' \in 0..MaxFaults
  BY Limits DEF IInv, DescrArrives, Fault, TypeOK
<1>11. TypeOK'
  <2>1. UNCHANGED <<program, request, done, acked, tog1>>
    BY DEF DescrArrives
  <2>2. hrsl' \in {hrSUCCESS, hrNAK, hrSTALL, hrTOGERR, hrCRCERR, hrTIMEOUT} /\ hxfrdn' \in {0, 1}
    BY <1>4, <1>5
  <2> QED
    BY <1>4, <1>5, <1>6, <1>8, <1>9, <1>10, <2>1, <2>2 DEF IInv, program, TypeOK
<1>12. ChipInv'
  BY <1>1, <1>4, <1>7 DEF IInv, DescrArrives, program, ChipInv
<1>13. CallInv'
  BY DEF IInv, DescrArrives, program, CallInv
<1>14. PollInv'
  BY <1>1, <1>4 DEF IInv, DescrArrives, program, PollInv
<1>15. ReadInv'
  <2>1. /\ fifo' # Empty => fifo' = Len(data) /\ sent0' \in {Len(data), Len(data) + 1}
        /\ fifo' = Empty => sent0' <= Len(data) /\ rcvtog' = (Len(data) + 1) % 2
        /\ Len(data) <= sent0' + 1
    BY <1>1, <1>2, <1>5, <1>7, Limits, Numbers
  <2> QED
    BY <1>1, <1>2, <1>4, <1>6, <1>8, <2>1 DEF ReadInv
<1>16. ConfInv'
  BY <1>1, <1>4 DEF IInv, DescrArrives, program, ConfInv
<1>17. ReportsInOrder' /\ ControlDone'
  BY <1>1, <1>4 DEF IInv, DescrArrives, program, ReportsInOrder, ControlDone
<1> QED
  BY <1>11, <1>12, <1>13, <1>14, <1>15, <1>16, <1>17 DEF IInv

\* The same of a report.
LEMMA ReportArrivesIInv ==
  ASSUME One, IInv, ReportArrives
  PROVE  IInv'
<1>1. /\ at = "wait" /\ token = "IN1" /\ hxfrdn = 0 /\ fifo = Empty
      /\ acked \in 0..(MaxReports - 1) /\ Len(reports) \in Nat
      /\ rcvtog \in {0, 1} /\ tog1 \in {0, 1}
  BY Limits, Numbers DEF IInv, ReportArrives, TypeOK, ChipInv, hrSUCCESS
<1>2. /\ driver = "bound" /\ data = <<>> /\ rcvToggle = Len(reports) % 2 /\ rcvtog = rcvToggle
      /\ tog1 = acked % 2
      /\ acked \in {Len(reports) - 1, Len(reports)}
  BY <1>1 DEF IInv, PollInv, CallInv
<1>3. tog1 = rcvtog <=> acked = Len(reports)
  BY <1>1, <1>2
<1>4. /\ UNCHANGED <<call, at, token, data, driver, reports, rcvToggle>>
      /\ busy' = "none" /\ hxfrdn' = 1
  BY DEF ReportArrives, DataArrives, Result, program
<1>5. /\ hrsl' \in {hrSUCCESS, hrTOGERR}
      /\ acked' \in 0..MaxReports
      /\ \/ acked' = acked + 1 /\ tog1' = 1 - tog1
         \/ acked' = acked /\ tog1' = tog1
  BY <1>1, Limits DEF ReportArrives, DataArrives, Result, Fault
<1>6. tog1' = acked' % 2 /\ tog1' \in {0, 1}
  BY <1>1, <1>2, <1>5
<1>7. \/ /\ acked = Len(reports) /\ fifo' = acked /\ hrsl' = hrSUCCESS
         /\ rcvtog' = 1 - rcvtog
      \/ /\ acked = Len(reports) - 1 /\ fifo' = Empty /\ rcvtog' = rcvtog
  BY <1>1, <1>2, <1>3 DEF ReportArrives, DataArrives, Result
<1>8. fifo' \in Packets \cup {Empty} /\ rcvtog' \in {0, 1}
  BY <1>1, <1>7, Limits, Numbers
<1>9. faults' \in 0..MaxFaults
  BY Limits DEF IInv, ReportArrives, Fault, TypeOK
<1>10. TypeOK'
  <2>1. UNCHANGED <<program, request, done, sent0, tog0>>
    BY DEF ReportArrives
  <2>2. hrsl' \in {hrSUCCESS, hrNAK, hrSTALL, hrTOGERR, hrCRCERR, hrTIMEOUT} /\ hxfrdn' \in {0, 1}
    BY <1>4, <1>5
  <2>3. acked' \in 0..(MaxReports * PacketsPerReport)
    BY <1>5, Numbers
  <2> QED
    BY <1>4, <1>6, <1>8, <1>9, <2>1, <2>2, <2>3 DEF IInv, program, TypeOK
<1>11. ChipInv'
  BY <1>1, <1>4, <1>7 DEF IInv, ReportArrives, program, ChipInv
<1>12. CallInv'
  BY DEF IInv, ReportArrives, program, CallInv
<1>13. PollInv'
  <2>1. /\ fifo' # Empty => /\ fifo' = Len(reports) /\ rcvtog' = 1 - rcvToggle
                             /\ acked' \in {Len(reports), Len(reports) + 1}
        /\ fifo' = Empty => acked' <= Len(reports) /\ rcvtog' = rcvToggle
        /\ Len(reports) <= acked' + 1
    BY <1>1, <1>2, <1>5, <1>7, Limits, Numbers
  <2> QED
    BY <1>1, <1>2, <1>4, <1>6, <2>1 DEF PollInv
<1>14. ReadInv'
  BY <1>1, <1>4 DEF IInv, ReportArrives, program, ReadInv
<1>15. ConfInv'
  BY <1>1, <1>4 DEF IInv, ReportArrives, program, ConfInv
<1>16. ReportsInOrder' /\ ControlDone'
  BY <1>1, <1>4 DEF IInv, ReportArrives, program, ReportsInOrder, ControlDone
<1> QED
  BY <1>10, <1>11, <1>12, <1>13, <1>14, <1>15, <1>16 DEF IInv

\* Answering the status IN, the device has executed the configuration.
LEMMA ConfStatusIInv ==
  ASSUME One, IInv, ConfStatus
  PROVE  IInv'
<1> USE Limits, Numbers DEF One, IInv, ConfStatus, Fault, Result, program, chip, device
<1>1. TypeOK'
  BY DEF TypeOK, Calls, Tokens
<1>2. ChipInv'
  BY DEF ChipInv
<1>3. CallInv'
  BY DEF CallInv
<1>4. PollInv'
  BY DEF PollInv, CallInv, ChipInv
<1>5. ReadInv'
  BY DEF ReadInv, ChipInv
<1>6. ConfInv'
  BY DEF ConfInv
<1>7. ReportsInOrder'
  BY DEF ReportsInOrder
<1>8. ControlDone'
  BY DEF ControlDone
<1> QED
  BY <1>1, <1>2, <1>3, <1>4, <1>5, <1>6, <1>7, <1>8

\* The status of a read changes nothing but the result.
LEMMA DescrStatusIInv ==
  ASSUME One, IInv, DescrStatus
  PROVE  IInv'
<1> USE Limits, Numbers DEF One, IInv, DescrStatus, Fault, Result, program, chip, device
<1>1. TypeOK'
  BY DEF TypeOK, Calls, Tokens
<1>2. ChipInv'
  BY DEF ChipInv
<1>3. CallInv'
  BY DEF CallInv
<1>4. PollInv'
  BY DEF PollInv
<1>5. ReadInv'
  BY DEF ReadInv, ChipInv
<1>6. ConfInv'
  BY DEF ConfInv, ChipInv
<1>7. ReportsInOrder'
  BY DEF ReportsInOrder
<1>8. ControlDone'
  BY DEF ControlDone
<1> QED
  BY <1>1, <1>2, <1>3, <1>4, <1>5, <1>6, <1>7, <1>8

\* The same packet again: the counters stay below their limits.
LEMMA ResendIInv ==
  ASSUME One, IInv, Completed, Resend
  PROVE  IInv'
<1> USE Limits, Numbers DEF One, IInv, Resend, device
<1>0. at = "wait" /\ hxfrdn = 1 /\ hxfrdn' = 0 /\ UNCHANGED <<call, busy, hrsl, device, faults>>
  BY DEF Completed
<1>1. TypeOK'
  BY <1>0 DEF TypeOK, Calls, Tokens
<1>2. ChipInv'
  BY <1>0, ResultCodes DEF ChipInv
<1>3. CallInv'
  BY <1>0 DEF CallInv
<1>4. PollInv'
  BY <1>0 DEF PollInv
<1>5. ReadInv'
  BY <1>0 DEF ReadInv
<1>6. ConfInv'
  BY <1>0 DEF ConfInv
<1>7. ReportsInOrder'
  BY DEF ReportsInOrder
<1>8. ControlDone'
  BY DEF ControlDone
<1> QED
  BY <1>1, <1>2, <1>3, <1>4, <1>5, <1>6, <1>7, <1>8

\* A call that fails keeps the saved toggle; no packet was kept either.
LEMMA FailIInv ==
  ASSUME One, IInv, Completed, Fail
  PROVE  IInv'
<1> USE Limits, Numbers DEF One, IInv, Fail, End, device
<1>0. at = "wait" /\ hxfrdn = 1 /\ hxfrdn' = 0 /\ UNCHANGED <<call, busy, hrsl, device, faults>>
  BY DEF Completed
<1>1. TypeOK'
  BY <1>0, ResultCodes DEF TypeOK, Calls, Tokens
<1>2. ChipInv'
  BY <1>0, ResultCodes DEF ChipInv
<1>3. CallInv'
  BY DEF CallInv
<1>4. PollInv'
  BY <1>0, ResultCodes DEF PollInv, ChipInv
<1>5. ReadInv'
  BY <1>0 DEF ReadInv
<1>6. ConfInv'
  BY <1>0 DEF ConfInv
<1>7. ReportsInOrder'
  BY DEF ReportsInOrder
<1>8. ControlDone'
  BY ResultCodes DEF ControlDone
<1> QED
  BY <1>1, <1>2, <1>3, <1>4, <1>5, <1>6, <1>7, <1>8

\* After the request, the data stage starts with no data and with DATA1.
LEMMA RequestSentIInv ==
  ASSUME One, IInv, Completed, RequestSent
  PROVE  IInv'
<1> USE Limits, Numbers DEF One, IInv, RequestSent, Dispatch, device
<1>0. at = "wait" /\ hxfrdn = 1 /\ hxfrdn' = 0 /\ UNCHANGED <<call, busy, hrsl, device, faults>>
  BY DEF Completed
<1>1. TypeOK'
  BY <1>0 DEF TypeOK, Calls, Tokens
<1>2. ChipInv'
  BY <1>0 DEF ChipInv
<1>3. CallInv'
  BY <1>0 DEF CallInv
<1>4. PollInv'
  BY <1>0 DEF PollInv
<1>5. ReadInv'
  BY <1>0 DEF ReadInv, ChipInv
<1>6. ConfInv'
  BY <1>0 DEF ConfInv
<1>7. ReportsInOrder'
  BY DEF ReportsInOrder
<1>8. ControlDone'
  BY DEF ControlDone
<1> QED
  BY <1>1, <1>2, <1>3, <1>4, <1>5, <1>6, <1>7, <1>8

\* A packet is taken: a report ends its poll and flips the saved toggle, a
\* descriptor packet is followed by the next, or by the status stage.
LEMMA PacketReceivedIInv ==
  ASSUME One, IInv, Completed, PacketReceived
  PROVE  IInv'
<1> USE Limits, Numbers DEF One, IInv, device
<1>1. /\ at = "wait" /\ hxfrdn = 1 /\ hxfrdn' = 0
      /\ UNCHANGED <<call, busy, hrsl, device, faults, rcvtog>>
      /\ fifo # Empty /\ data' = Append(data, fifo) /\ fifo' = Empty
  BY DEF Completed, PacketReceived
<1>2. /\ data \in Seq(Packets) /\ reports \in Seq(Packets) /\ fifo \in Packets
      /\ rcvtog \in {0, 1} /\ Len(data) \in Nat /\ Len(reports) \in Nat /\ busy = "none"
  BY <1>1 DEF TypeOK, ChipInv
<1>3. data' \in Seq(Packets) /\ Len(data') = Len(data) + 1
  BY <1>1, <1>2
<1>4. CASE token = "IN1"
  <2>1. /\ call = "poll" /\ driver = "bound" /\ data = <<>>
        /\ fifo = Len(reports) /\ rcvtog = 1 - rcvToggle /\ rcvToggle = Len(reports) % 2
        /\ acked \in {Len(reports), Len(reports) + 1} /\ tog1 = acked % 2
    BY <1>1, <1>4 DEF CallInv, PollInv
  <2>2. LastPacket
    BY <2>1 DEF LastPacket
  <2>3. /\ at' = "idle" /\ rcode' = 0 /\ driver' = driver
        /\ UNCHANGED <<token, nak_count, retry_count>>
        /\ rcvToggle' = rcvtog /\ reports' = reports \o data'
    BY <2>1, <2>2 DEF PacketReceived, End
  <2>4. reports' = Append(reports, Len(reports))
    BY <1>1, <1>2, <2>1, <2>3, OnePacket
  <2>5. /\ reports' \in Seq(Packets) /\ Len(reports') = Len(reports) + 1
        /\ \A i \in 1..Len(reports) : reports'[i] = reports[i]
        /\ reports'[Len(reports) + 1] = Len(reports)
    BY <1>2, <2>1, <2>4
  <2>6. rcvToggle' = Len(reports') % 2
    BY <1>2, <2>1, <2>3, <2>5, Parity
  <2>7. TypeOK'
    BY <1>1, <1>2, <1>3, <2>3, <2>5 DEF TypeOK
  <2>8. ChipInv' /\ CallInv' /\ ConfInv' /\ ReadInv'
    BY <1>1, <1>2, <1>4, <2>1, <2>3 DEF ChipInv, CallInv, ConfInv, ReadInv
  <2>9. PollInv'
    BY <1>1, <1>2, <2>1, <2>3, <2>5, <2>6 DEF PollInv
  <2>10. ReportsInOrder'
    BY <1>2, <2>5 DEF ReportsInOrder
  <2>11. ControlDone'
    BY <1>1, <2>1 DEF ControlDone
  <2> QED
    BY <2>7, <2>8, <2>9, <2>10, <2>11
<1>5. CASE token = "IN0"
  <2>1. /\ call = "read" /\ driver = "unbound"
        /\ Len(data) < DescrPackets /\ \A i \in 1..Len(data) : data[i] = i - 1
        /\ fifo = Len(data) /\ rcvtog = Len(data) % 2
        /\ tog0 = (sent0 + 1) % 2 /\ sent0 \in {Len(data), Len(data) + 1}
    BY <1>1, <1>5 DEF CallInv, ReadInv
  <2>2. LastPacket <=> Len(data') = DescrPackets
    BY <1>2, <1>3, <2>1 DEF LastPacket
  <2>3. \A i \in 1..Len(data') : data'[i] = i - 1
    BY <1>1, <1>2, <1>3, <2>1
  <2>4. /\ at' = "launch" /\ nak_count' = 0 /\ retry_count' = 0
        /\ UNCHANGED <<rcode, rcvToggle, driver, reports>>
        /\ \/ token' = "IN0" /\ Len(data') < DescrPackets
           \/ token' = "OUTHS" /\ Len(data') = DescrPackets
    BY <1>2, <1>3, <1>5, <2>1, <2>2 DEF PacketReceived, Dispatch
  <2>5. token' = "OUTHS" => data' = [i \in 1..DescrPackets |-> i - 1]
    BY <1>3, <2>3, <2>4, Whole
  <2>6. rcvtog' = (Len(data') + 1) % 2
    BY <1>1, <1>2, <1>3, <2>1
  <2>7. TypeOK'
    BY <1>1, <1>2, <1>3, <2>4 DEF TypeOK, Tokens
  <2>8. ChipInv' /\ CallInv' /\ ConfInv'
    BY <1>1, <1>2, <2>1, <2>4 DEF ChipInv, CallInv, ConfInv
  <2>9. PollInv'
    BY <1>1, <1>5, <2>4 DEF PollInv
  <2>10. ReadInv'
    <3>1. /\ tog0' = (sent0' + 1) % 2 /\ Len(data') <= sent0' + 1 /\ sent0' <= Len(data')
      BY <1>1, <1>2, <1>3, <2>1 DEF device
    <3> QED
      BY <1>1, <2>3, <2>4, <2>5, <2>6, <3>1 DEF ReadInv
  <2>11. ReportsInOrder' /\ ControlDone'
    BY <1>1, <2>4 DEF ReportsInOrder, ControlDone
  <2> QED
    BY <2>7, <2>8, <2>9, <2>10, <2>11
<1> QED
  BY <1>4, <1>5 DEF PacketReceived

\* A repetition was dropped; the poll fails and the saved toggle stays.
LEMMA NoPacketReceivedIInv ==
  ASSUME One, IInv, Completed, NoPacketReceived
  PROVE  IInv'
<1> USE Limits, Numbers DEF One, IInv, NoPacketReceived, End, device
<1>0. at = "wait" /\ hxfrdn = 1 /\ hxfrdn' = 0 /\ UNCHANGED <<call, busy, hrsl, device, faults>>
  BY DEF Completed
<1>1. TypeOK'
  BY <1>0, ResultCodes DEF TypeOK, Calls, Tokens
<1>2. ChipInv'
  BY <1>0 DEF ChipInv
<1>3. CallInv'
  BY DEF CallInv
<1>4. PollInv'
  BY <1>0 DEF PollInv
<1>5. ReadInv'
  BY DEF ReadInv
<1>6. ConfInv'
  BY DEF ConfInv
<1>7. ReportsInOrder'
  BY DEF ReportsInOrder
<1>8. ControlDone'
  BY ResultCodes DEF ControlDone
<1> QED
  BY <1>1, <1>2, <1>3, <1>4, <1>5, <1>6, <1>7, <1>8

\* A control transfer has succeeded.
LEMMA StatusSentIInv ==
  ASSUME One, IInv, Completed, StatusSent
  PROVE  IInv'
<1> USE Limits, Numbers DEF One, IInv, StatusSent, End, device
<1>0. at = "wait" /\ hxfrdn = 1 /\ hxfrdn' = 0 /\ UNCHANGED <<call, busy, hrsl, device, faults>>
  BY DEF Completed
<1>1. TypeOK'
  BY <1>0 DEF TypeOK, Calls, Tokens
<1>2. ChipInv'
  BY <1>0 DEF ChipInv
<1>3. CallInv'
  BY DEF CallInv
<1>4. PollInv'
  BY <1>0 DEF PollInv
<1>5. ReadInv'
  BY DEF ReadInv
<1>6. ConfInv'
  BY <1>0 DEF ConfInv
<1>7. ReportsInOrder'
  BY DEF ReportsInOrder
<1>8. ControlDone'
  BY <1>0 DEF ControlDone, ReadInv, ConfInv, CallInv
<1> QED
  BY <1>1, <1>2, <1>3, <1>4, <1>5, <1>6, <1>7, <1>8

\* A stuttering step changes nothing IInv speaks of.
LEMMA StutterIInv ==
  ASSUME IInv, UNCHANGED vars
  PROVE  IInv'
BY DEF IInv, vars, program, chip, device, TypeOK, ChipInv, CallInv, PollInv, ReadInv, ConfInv,
       ReportsInOrder, ControlDone

\* IInv is inductive: one step per action.
LEMMA NextIInv ==
  ASSUME One, IInv, [Next]_vars
  PROVE  IInv'
<1>1. CASE \E c \in {"read", "configure"} : ControlRequest(c)
  BY <1>1, ControlRequestIInv
<1>2. CASE Poll
  BY <1>2, PollIInv
<1>3. CASE Launch
  BY <1>3, LaunchIInv
<1>4. CASE Completed
  BY <1>4, ResendIInv, FailIInv, RequestSentIInv, PacketReceivedIInv, NoPacketReceivedIInv,
     StatusSentIInv DEF Completed
<1>5. CASE TimedOut
  BY <1>5, TimedOutIInv
<1>6. CASE Lost
  BY <1>6, LostIInv
<1>7. CASE Nak
  BY <1>7, NakIInv
<1>8. CASE Stall
  BY <1>8, StallIInv
<1>9. CASE RequestArrives
  BY <1>9, RequestArrivesIInv
<1>10. CASE DescrArrives
  BY <1>10, DescrArrivesIInv
<1>11. CASE ReportArrives
  BY <1>11, ReportArrivesIInv
<1>12. CASE ConfStatus
  BY <1>12, ConfStatusIInv
<1>13. CASE DescrStatus
  BY <1>13, DescrStatusIInv
<1>14. CASE UNCHANGED vars
  BY <1>14, StutterIInv
<1> QED
  BY <1>1, <1>2, <1>3, <1>4, <1>5, <1>6, <1>7, <1>8, <1>9, <1>10, <1>11, <1>12, <1>13, <1>14
     DEF Next, Program, Environment

\* The strengthened invariant holds in every reachable state.
THEOREM Invariant ==
  ASSUME One
  PROVE  Spec => []IInv
<1>1. One /\ Init => IInv
  BY InitIInv
<1>2. One /\ IInv /\ [Next]_vars => IInv'
  BY NextIInv
<1> QED
  BY <1>1, <1>2, PTL DEF Spec

\* Whatever the line loses, XferInTransfer and the two toggles give the caller
\* the device's reports in order, none twice and none left out.
THEOREM InOrder ==
  ASSUME One
  PROVE  Spec => []ReportsInOrder
BY Invariant, PTL DEF IInv

\* A packet the device has let go of reaches the caller.
THEOREM NoLoss ==
  ASSUME One
  PROVE  Spec => []NothingLost
<1>1. One /\ IInv => NothingLost
  BY DEF IInv, ChipInv, CallInv, PollInv, NothingLost, One
<1> QED
  BY <1>1, Invariant, PTL

\* A control transfer whose result is 0 did what it was asked to do.
THEOREM Done ==
  ASSUME One
  PROVE  Spec => []ControlDone
BY Invariant, PTL DEF IInv

-----------------------------------------------------------------------------
(* Polling implements the pipe.                                            *)

\* A step delivers the next packet, releases one, or leaves the pipe alone.
LEMMA StepPipe ==
  ASSUME One, IInv, [Next]_vars
  PROVE  [Pipe!Next]_Pipe!pvars
<1> USE DEF Pipe!Next, Pipe!pvars, Pipe!Deliver, Pipe!Release
<1>1. CASE UNCHANGED <<reports, acked>>
  BY <1>1
<1>2. CASE ReportArrives
  <2>1. at = "wait" /\ token = "IN1" /\ fifo = Empty
    BY <1>2 DEF ReportArrives, IInv, ChipInv, Tokens
  <2>2. acked <= Len(reports)
    BY <2>1 DEF IInv, PollInv
  <2> QED
    BY <1>2, <2>2 DEF ReportArrives, program
<1>3. CASE Completed /\ PacketReceived
  <2>1. /\ at = "wait" /\ fifo # Empty /\ data' = Append(data, fifo) /\ UNCHANGED acked
        /\ token \in {"IN0", "IN1"}
    BY <1>3 DEF Completed, PacketReceived, device
  <2>2. CASE token = "IN0"
    <3>1. call = "read"
      BY <2>1, <2>2 DEF IInv, CallInv
    <3> QED
      BY <1>3, <2>1, <3>1 DEF PacketReceived
  <2>3. CASE token = "IN1"
    <3>1. /\ call = "poll" /\ data = <<>> /\ fifo = Len(reports)
          /\ acked \in {Len(reports), Len(reports) + 1}
          /\ reports \in Seq(Packets) /\ fifo \in Packets
      BY <2>1, <2>3 DEF IInv, CallInv, PollInv, TypeOK
    <3>2. LastPacket
      BY <3>1 DEF LastPacket, One
    <3>3. reports' = reports \o data'
      BY <1>3, <3>1, <3>2 DEF PacketReceived
    <3>4. reports' = Append(reports, Len(reports))
      BY <2>1, <3>1, <3>3, OnePacket
    <3> QED
      BY <2>1, <3>1, <3>4
  <2> QED
    BY <2>1, <2>2, <2>3
<1>4. CASE Completed /\ ~PacketReceived
  <2>1. UNCHANGED <<reports, acked>>
    BY <1>4 DEF Completed, Resend, Fail, RequestSent, NoPacketReceived, StatusSent, device
  <2> QED
    BY <2>1
<1>5. CASE Program /\ ~Completed
  <2>1. UNCHANGED <<reports, acked>>
    BY <1>5 DEF Program, ControlRequest, Poll, Launch, TimedOut, device
  <2> QED
    BY <2>1
<1>6. CASE Environment /\ ~ReportArrives
  <2>1. UNCHANGED <<reports, acked>>
    BY <1>6 DEF Environment, Lost, Nak, Stall, RequestArrives, DescrArrives, ConfStatus,
                DescrStatus, program, device
  <2> QED
    BY <2>1
<1>7. CASE UNCHANGED vars
  BY <1>7 DEF vars, program, device
<1> QED
  BY <1>2, <1>3, <1>4, <1>5, <1>6, <1>7 DEF Next

\* Polls implement UsbPipe: reports come in order and once, and the device lets
\* go only of a packet that the caller gets.
THEOREM Refinement ==
  ASSUME One
  PROVE  Spec => PollsImplementPipe
<1>1. Init => Pipe!Init
  BY DEF Init, Pipe!Init
<1>2. One /\ IInv /\ [Next]_vars => [Pipe!Next]_Pipe!pvars
  BY StepPipe
<1> QED
  BY <1>1, <1>2, Invariant, PTL DEF Spec, PollsImplementPipe, Pipe!Spec
-----------------------------------------------------------------------------
(* Types, and how long a call takes, without the two assumptions: for      *)
(* reports of any number of packets and answers of any delay.              *)

\* The packets of a data stage that are there are fewer than it has.
CountInv ==
  at # "idle" =>
    /\ token \in {"GET_DESCR", "IN0", "OUTHS"} => call = "read"
    /\ token = "GET_DESCR" => data = <<>>
    /\ token = "IN0" => Len(data) < DescrPackets
    /\ token \in {"SET_CONF", "INHS"} => call = "configure"
    /\ token = "IN1" => call = "poll" /\ Len(data) < PacketsPerReport

\* The constants, and the packets' numbers.
LEMMA Sizes ==
  /\ USB_NAK_LIMIT \in 1..255 /\ USB_RETRY_LIMIT \in 1..127
  /\ DescrPackets \in Nat \ {0} /\ PacketsPerReport \in Nat \ {0} /\ MaxFaults \in Nat
  /\ MaxReports * PacketsPerReport \in Nat /\ Empty \in Nat
  /\ \A x \in 0..DescrPackets - 1 : x \in Packets
  /\ \A x \in 0..(MaxReports * PacketsPerReport) - 1 : x \in Packets
<1> DEFINE n == MaxReports * PacketsPerReport
<1>1. USB_NAK_LIMIT \in 1..255 /\ USB_RETRY_LIMIT \in 1..127
      /\ DescrPackets \in Nat \ {0} /\ PacketsPerReport \in Nat \ {0} /\ MaxFaults \in Nat
      /\ MaxReports \in Nat
  BY LimitsAssumption
<1>2. n \in Nat
  BY <1>1
<1>3. Packets = 0..(n + DescrPackets) /\ Empty = n + DescrPackets + 1
  BY DEF Packets, Empty
<1> HIDE DEF n
<1>4. Empty \in Nat /\ (\A x \in 0..DescrPackets - 1 : x \in Packets) /\ (\A x \in 0..n - 1 : x \in Packets)
  BY <1>1, <1>2, <1>3
<1> QED
  BY <1>1, <1>2, <1>4 DEF n

\* The types of the three parts.
ProgramTypes ==
  /\ call \in Calls \cup {"none"} /\ at \in {"idle", "launch", "wait"} /\ token \in Tokens
  /\ nak_count \in 0..(USB_NAK_LIMIT - 1) /\ retry_count \in 0..(USB_RETRY_LIMIT - 1)
  /\ data \in Seq(Packets) /\ reports \in Seq(Packets)
  /\ rcode \in 0..255 /\ rcvToggle \in {0, 1} /\ driver \in {"unbound", "bound"}

ChipTypes ==
  /\ busy \in Tokens \cup {"none"} /\ hxfrdn \in {0, 1}
  /\ hrsl \in {hrSUCCESS, hrNAK, hrSTALL, hrTOGERR, hrCRCERR, hrTIMEOUT}
  /\ fifo \in Packets \cup {Empty} /\ rcvtog \in {0, 1}

DeviceTypes ==
  /\ request \in {"none", "GET_DESCR", "SET_CONF"} /\ done \in {0, 1}
  /\ sent0 \in 0..DescrPackets /\ tog0 \in {0, 1}
  /\ acked \in 0..(MaxReports * PacketsPerReport) /\ tog1 \in {0, 1}
  /\ faults \in 0..MaxFaults

\* Together they are the types of the module.
LEMMA TypeParts == TypeOK <=> ProgramTypes /\ ChipTypes /\ DeviceTypes
BY DEF TypeOK, ProgramTypes, ChipTypes, DeviceTypes

\* The same after a step.
LEMMA TypePartsNext == TypeOK' <=> ProgramTypes' /\ ChipTypes' /\ DeviceTypes'
BY DEF TypeOK, ProgramTypes, ChipTypes, DeviceTypes

\* A fault is counted, or there is none.
LEMMA FaultsTyped ==
  ASSUME TypeOK, Fault \/ UNCHANGED faults
  PROVE  faults' \in 0..MaxFaults
BY Sizes DEF TypeOK, Fault

\* The chip gives one of its results.
LEMMA ResultTyped ==
  ASSUME NEW code \in {hrSUCCESS, hrNAK, hrSTALL, hrTOGERR, hrCRCERR, hrTIMEOUT}, Result(code)
  PROVE  busy' = "none" /\ busy' \in Tokens \cup {"none"} /\ hxfrdn' \in {0, 1}
         /\ hrsl' \in {hrSUCCESS, hrNAK, hrSTALL, hrTOGERR, hrCRCERR, hrTIMEOUT}
BY DEF Result

\* A data packet of the device.
LEMMA DataTyped ==
  ASSUME TypeOK, NEW packet \in Packets, NEW tog, DataArrives(packet, tog)
  PROVE  ChipTypes' /\ busy' = "none"
<1>1. fifo' \in Packets \cup {Empty} /\ rcvtog' \in {0, 1}
  BY DEF TypeOK, DataArrives
<1>2. \E code \in {hrSUCCESS, hrTOGERR} : Result(code)
  BY DEF DataArrives
<1> QED
  BY <1>1, <1>2, ResultTyped DEF ChipTypes

\* A step of the chip and the device keeps the types, and frees the chip.
LEMMA EnvironmentTypes ==
  ASSUME TypeOK, Environment
  PROVE  TypeOK' /\ UNCHANGED program /\ busy # "none" /\ busy' = "none"
<1>0. ProgramTypes /\ ChipTypes /\ DeviceTypes
  BY TypeParts
<1>1. ASSUME UNCHANGED program PROVE ProgramTypes'
  BY <1>0, <1>1 DEF ProgramTypes, program
<1>2. ASSUME NEW code \in {hrSUCCESS, hrNAK, hrSTALL, hrTOGERR, hrCRCERR, hrTIMEOUT}, Result(code),
             UNCHANGED <<fifo, rcvtog>>
      PROVE  ChipTypes' /\ busy' = "none"
  BY <1>0, <1>2, ResultTyped DEF ChipTypes
<1>3. CASE Lost
  <2>1. UNCHANGED <<program, fifo, rcvtog, device>> /\ Fault /\ busy # "none"
    BY <1>3 DEF Lost
  <2>2. ChipTypes' /\ busy' = "none"
    BY <1>2, <1>3, <2>1 DEF Lost
  <2>3. DeviceTypes'
    BY <1>0, <2>1, FaultsTyped DEF DeviceTypes, device
  <2> QED
    BY <1>1, <2>1, <2>2, <2>3, TypePartsNext
<1>4. CASE Nak
  <2>1. UNCHANGED <<program, fifo, rcvtog, device, faults>> /\ Result(hrNAK) /\ busy # "none"
    BY <1>4 DEF Nak
  <2>2. ChipTypes' /\ busy' = "none"
    BY <1>2, <2>1
  <2>3. DeviceTypes'
    BY <1>0, <2>1 DEF DeviceTypes, device
  <2> QED
    BY <1>1, <2>1, <2>2, <2>3, TypePartsNext
<1>5. CASE Stall
  <2>1. UNCHANGED <<program, fifo, rcvtog, done, sent0, tog0, acked, tog1, faults>>
        /\ Result(hrSTALL) /\ busy # "none" /\ request' = "none"
    BY <1>5 DEF Stall
  <2>2. ChipTypes' /\ busy' = "none"
    BY <1>2, <2>1
  <2>3. DeviceTypes'
    BY <1>0, <2>1 DEF DeviceTypes
  <2> QED
    BY <1>1, <2>1, <2>2, <2>3, TypePartsNext
<1>6. CASE RequestArrives
  <2>1. /\ UNCHANGED <<program, fifo, rcvtog, done, acked, tog1>> /\ busy # "none"
        /\ request' \in {"GET_DESCR", "SET_CONF"} /\ sent0' = 0 /\ tog0' = 1
        /\ Result(hrSUCCESS) \/ Result(hrTIMEOUT)
        /\ Fault \/ UNCHANGED faults
    BY <1>6 DEF RequestArrives
  <2>2. ChipTypes' /\ busy' = "none"
    BY <1>2, <2>1
  <2>3. DeviceTypes'
    BY <1>0, <2>1, FaultsTyped, Sizes DEF DeviceTypes
  <2> QED
    BY <1>1, <2>1, <2>2, <2>3, TypePartsNext
<1>7. CASE DescrArrives
  <2>1. /\ UNCHANGED <<program, request, done, acked, tog1>> /\ busy # "none"
        /\ sent0 < DescrPackets /\ DataArrives(sent0, tog0)
        /\ \/ sent0' = sent0 + 1 /\ tog0' = 1 - tog0
           \/ UNCHANGED <<sent0, tog0>>
        /\ Fault \/ UNCHANGED faults
    BY <1>7 DEF DescrArrives
  <2>2. sent0 \in 0..DescrPackets - 1 /\ sent0' \in 0..DescrPackets /\ tog0' \in {0, 1}
    BY <1>0, <2>1, Sizes DEF DeviceTypes
  <2>3. ChipTypes' /\ busy' = "none"
    BY <2>1, <2>2, DataTyped, Sizes
  <2>4. DeviceTypes'
    BY <1>0, <2>1, <2>2, FaultsTyped DEF DeviceTypes
  <2> QED
    BY <1>1, <2>1, <2>3, <2>4, TypePartsNext
<1>8. CASE ReportArrives
  <2> DEFINE n == MaxReports * PacketsPerReport
  <2>1. /\ UNCHANGED <<program, request, done, sent0, tog0>> /\ busy # "none"
        /\ acked < n /\ DataArrives(acked, tog1)
        /\ \/ acked' = acked + 1 /\ tog1' = 1 - tog1
           \/ UNCHANGED <<acked, tog1>>
        /\ Fault \/ UNCHANGED faults
    BY <1>8 DEF ReportArrives
  <2>2. n \in Nat /\ acked \in 0..n /\ tog1 \in {0, 1} /\ \A x \in 0..n - 1 : x \in Packets
    BY <1>0, Sizes DEF DeviceTypes
  <2> HIDE DEF n
  <2>3. acked \in 0..n - 1 /\ acked' \in 0..n /\ tog1' \in {0, 1}
    BY <2>1, <2>2
  <2>4. ChipTypes' /\ busy' = "none"
    BY <2>1, <2>2, <2>3, DataTyped
  <2>5. DeviceTypes'
    BY <1>0, <2>1, <2>3, FaultsTyped DEF DeviceTypes, n
  <2> QED
    BY <1>1, <2>1, <2>4, <2>5, TypePartsNext
<1>9. CASE ConfStatus
  <2>1. /\ UNCHANGED <<program, fifo, rcvtog, request, sent0, tog0, acked>> /\ busy # "none"
        /\ done' = 1 /\ tog1' = 0
        /\ Result(hrSUCCESS) \/ Result(hrTIMEOUT)
        /\ Fault \/ UNCHANGED faults
    BY <1>9 DEF ConfStatus
  <2>2. ChipTypes' /\ busy' = "none"
    BY <1>2, <2>1
  <2>3. DeviceTypes'
    BY <1>0, <2>1, FaultsTyped DEF DeviceTypes
  <2> QED
    BY <1>1, <2>1, <2>2, <2>3, TypePartsNext
<1>10. CASE DescrStatus
  <2>1. /\ UNCHANGED <<program, fifo, rcvtog, device>> /\ busy # "none"
        /\ Result(hrSUCCESS) \/ Result(hrTIMEOUT)
        /\ Fault \/ UNCHANGED faults
    BY <1>10 DEF DescrStatus
  <2>2. ChipTypes' /\ busy' = "none"
    BY <1>2, <2>1
  <2>3. DeviceTypes'
    BY <1>0, <2>1, FaultsTyped DEF DeviceTypes, device
  <2> QED
    BY <1>1, <2>1, <2>2, <2>3, TypePartsNext
<1> QED
  BY <1>3, <1>4, <1>5, <1>6, <1>7, <1>8, <1>9, <1>10 DEF Environment

\* What is left of a call: packets after the one that is dispatched, ...
PacketsLeft(packet, n) ==
  CASE packet = "GET_DESCR" -> DescrPackets + 1
    [] packet = "IN0"       -> DescrPackets - n
    [] packet = "IN1"       -> PacketsPerReport - n - 1
    [] packet = "SET_CONF"  -> 1
    [] packet \in {"INHS", "OUTHS"} -> 0

\* ... tries of that one, ...
TriesLeft(naks, retries) == (USB_NAK_LIMIT - naks) + (USB_RETRY_LIMIT - retries)

\* ... and the steps of a try: its launch, and its result.
WaitsLeft(place, sending) ==
  (IF place = "launch" THEN 2 ELSE 0) + (IF sending = "none" THEN 0 ELSE 1)

StepsLeft ==
  IF at = "idle" THEN 0
  ELSE 4 * (PacketsLeft(token, Len(data)) * (USB_NAK_LIMIT + USB_RETRY_LIMIT)
            + TriesLeft(nak_count, retry_count))
       + WaitsLeft(at, busy)

\* A packet counts more than its tries, a try more than its steps.
LEMMA Weights ==
  ASSUME NEW l \in Nat, NEW p \in Nat, NEW q \in Nat, NEW x \in 1..l, NEW y \in 1..l,
         NEW w \in 0..3, NEW z \in 0..3,
         \/ q < p
         \/ q = p /\ y < x
         \/ q = p /\ y = x /\ z < w
  PROVE  4 * (q * l + y) + z < 4 * (p * l + x) + w
<1>1. p * l \in Nat /\ q * l \in Nat
  OBVIOUS
<1>2. CASE q < p
  <2>1. PICK d \in Nat : p = q + 1 + d
    <3>1. p - q - 1 \in Nat /\ p = q + 1 + (p - q - 1)
      BY <1>2
    <3> QED
      BY <3>1
  <2>2. p * l = q * l + l + d * l /\ d * l \in Nat
    BY <2>1
  <2> QED
    BY <1>1, <2>2
<1>3. CASE q = p
  <2>1. q * l = p * l
    BY <1>3
  <2> QED
    BY <1>1, <1>3, <2>1
<1> QED
  BY <1>2, <1>3

\* The same weights are never negative.
LEMMA WeightsPositive ==
  ASSUME NEW l \in Nat, NEW p \in Nat, NEW x \in 1..l, NEW w \in 0..3
  PROVE  4 * (p * l + x) + w \in Nat \ {0}
<1>1. p * l \in Nat
  OBVIOUS
<1> QED
  BY <1>1

\* The values of the parts.
LEMMA PacketValues ==
  ASSUME NEW n
  PROVE  /\ PacketsLeft("GET_DESCR", n) = DescrPackets + 1 /\ PacketsLeft("IN0", n) = DescrPackets - n
         /\ PacketsLeft("IN1", n) = PacketsPerReport - n - 1 /\ PacketsLeft("SET_CONF", n) = 1
         /\ PacketsLeft("INHS", n) = 0 /\ PacketsLeft("OUTHS", n) = 0
BY DEF PacketsLeft

\* A wait is shorter than the launch before it, and than the packet it waits for.
LEMMA WaitValues ==
  ASSUME NEW packet, packet # "none"
  PROVE  /\ WaitsLeft("launch", packet) = 3 /\ WaitsLeft("launch", "none") = 2
         /\ WaitsLeft("wait", packet) = 1 /\ WaitsLeft("wait", "none") = 0
BY DEF WaitsLeft

\* Their ranges, of any call.
LEMMA Ranges ==
  ASSUME NEW t \in Tokens, NEW n \in Nat, t = "IN0" => n < DescrPackets, t = "IN1" => n < PacketsPerReport,
         NEW naks \in 0..USB_NAK_LIMIT - 1, NEW retries \in 0..USB_RETRY_LIMIT - 1,
         NEW place \in {"launch", "wait"}, NEW sending
  PROVE  /\ PacketsLeft(t, n) \in Nat
         /\ TriesLeft(naks, retries) \in 1..USB_NAK_LIMIT + USB_RETRY_LIMIT
         /\ WaitsLeft(place, sending) \in 0..3
<1>1. PacketsLeft(t, n) \in Nat
  BY PacketValues, Sizes DEF Tokens
<1>2. TriesLeft(naks, retries) \in 1..USB_NAK_LIMIT + USB_RETRY_LIMIT
  BY Sizes DEF TriesLeft
<1>3. WaitsLeft(place, sending) \in 0..3
  BY DEF WaitsLeft
<1> QED
  BY <1>1, <1>2, <1>3

\* The steps that are left are a number, and none are left to a call that has ended.
LEMMA StepsLeftRange ==
  ASSUME TypeOK, CountInv
  PROVE  StepsLeft \in Nat /\ (at # "idle" => StepsLeft > 0)
<1>1. CASE at = "idle"
  BY <1>1 DEF StepsLeft
<1>2. CASE at # "idle"
  <2> DEFINE l == USB_NAK_LIMIT + USB_RETRY_LIMIT
             p == PacketsLeft(token, Len(data))
             x == TriesLeft(nak_count, retry_count)
             w == WaitsLeft(at, busy)
  <2>1. /\ token \in Tokens /\ Len(data) \in Nat /\ at \in {"launch", "wait"}
        /\ token = "IN0" => Len(data) < DescrPackets
        /\ token = "IN1" => Len(data) < PacketsPerReport
        /\ nak_count \in 0..USB_NAK_LIMIT - 1 /\ retry_count \in 0..USB_RETRY_LIMIT - 1
    BY <1>2 DEF TypeOK, CountInv
  <2>2. l \in Nat /\ p \in Nat /\ x \in 1..l /\ w \in 0..3
    <3>1. l \in Nat
      BY Sizes
    <3> QED
      BY <2>1, <3>1, Ranges
  <2>3. StepsLeft = 4 * (p * l + x) + w
    BY <1>2 DEF StepsLeft
  <2> HIDE DEF l, p, x, w
  <2>4. 4 * (p * l + x) + w \in Nat \ {0}
    BY <2>2, WeightsPositive
  <2> QED
    BY <2>3, <2>4
<1> QED
  BY <1>1, <1>2

\* A step of a call shortens it: it ends, or a packet, a try or a wait is over.
LEMMA Shorter ==
  ASSUME TypeOK, CountInv, TypeOK', CountInv', at # "idle",
         \/ at' = "idle"
         \/ PacketsLeft(token', Len(data')) < PacketsLeft(token, Len(data))
         \/ /\ PacketsLeft(token', Len(data')) = PacketsLeft(token, Len(data))
            /\ TriesLeft(nak_count', retry_count') < TriesLeft(nak_count, retry_count)
         \/ /\ PacketsLeft(token', Len(data')) = PacketsLeft(token, Len(data))
            /\ TriesLeft(nak_count', retry_count') = TriesLeft(nak_count, retry_count)
            /\ WaitsLeft(at', busy') < WaitsLeft(at, busy)
  PROVE  StepsLeft' < StepsLeft
<1>1. CASE at' = "idle"
  <2>1. StepsLeft' = 0
    BY <1>1 DEF StepsLeft
  <2> QED
    BY <2>1, StepsLeftRange
<1>2. CASE at' # "idle"
  <2> DEFINE l == USB_NAK_LIMIT + USB_RETRY_LIMIT
             p == PacketsLeft(token, Len(data))
             q == PacketsLeft(token', Len(data'))
             x == TriesLeft(nak_count, retry_count)
             y == TriesLeft(nak_count', retry_count')
             w == WaitsLeft(at, busy)
             z == WaitsLeft(at', busy')
  <2>1. l \in Nat /\ p \in Nat /\ x \in 1..l /\ w \in 0..3
    <3>1. /\ token \in Tokens /\ Len(data) \in Nat /\ at \in {"launch", "wait"}
          /\ token = "IN0" => Len(data) < DescrPackets
          /\ token = "IN1" => Len(data) < PacketsPerReport
          /\ nak_count \in 0..USB_NAK_LIMIT - 1 /\ retry_count \in 0..USB_RETRY_LIMIT - 1
      BY DEF TypeOK, CountInv
    <3>2. l \in Nat
      BY Sizes
    <3> QED
      BY <3>1, <3>2, Ranges
  <2>2. q \in Nat /\ y \in 1..l /\ z \in 0..3
    <3>1. /\ token' \in Tokens /\ Len(data') \in Nat /\ at' \in {"launch", "wait"}
          /\ token' = "IN0" => Len(data') < DescrPackets
          /\ token' = "IN1" => Len(data') < PacketsPerReport
          /\ nak_count' \in 0..USB_NAK_LIMIT - 1 /\ retry_count' \in 0..USB_RETRY_LIMIT - 1
      BY <1>2 DEF TypeOK, CountInv
    <3> QED
      BY <3>1, Ranges
  <2>3. StepsLeft = 4 * (p * l + x) + w /\ StepsLeft' = 4 * (q * l + y) + z
    BY <1>2 DEF StepsLeft
  <2>4. CASE q < p
    <3> HIDE DEF l, p, q, x, y, w, z
    <3> QED
      BY <2>1, <2>2, <2>3, <2>4, Weights
  <2>5. CASE q = p /\ y < x
    <3> HIDE DEF l, p, q, x, y, w, z
    <3> QED
      BY <2>1, <2>2, <2>3, <2>5, Weights
  <2>6. CASE q = p /\ y = x /\ z < w
    <3> HIDE DEF l, p, q, x, y, w, z
    <3> QED
      BY <2>1, <2>2, <2>3, <2>6, Weights
  <2> QED
    BY <1>2, <2>4, <2>5, <2>6
<1> QED
  BY <1>1, <1>2

\* The device and the chip shorten a call that runs: its packet is over.
LEMMA EnvironmentShortens ==
  ASSUME TypeOK, CountInv, Environment
  PROVE  TypeOK' /\ CountInv' /\ (at # "idle" => StepsLeft' < StepsLeft)
<1>1. TypeOK' /\ UNCHANGED <<call, at, token, nak_count, retry_count, data>>
      /\ busy # "none" /\ busy' = "none"
  BY EnvironmentTypes DEF program
<1>2. CountInv'
  BY <1>1 DEF CountInv
<1>3. ASSUME at # "idle" PROVE StepsLeft' < StepsLeft
  <2>1. at \in {"launch", "wait"}
    BY <1>3 DEF TypeOK
  <2>2. WaitsLeft(at', busy') < WaitsLeft(at, busy)
    <3>1. CASE at = "launch"
      BY <1>1, <3>1, WaitValues
    <3>2. CASE at = "wait"
      BY <1>1, <3>2, WaitValues
    <3> QED
      BY <2>1, <3>1, <3>2
  <2>3. /\ PacketsLeft(token', Len(data')) = PacketsLeft(token, Len(data))
        /\ TriesLeft(nak_count', retry_count') = TriesLeft(nak_count, retry_count)
    BY <1>1, Zenon
  <2> QED
    BY <1>1, <1>2, <1>3, <2>2, <2>3, Shorter
<1> QED
  BY <1>1, <1>2, <1>3

\* What every branch of Completed leaves alone, and what it needs to keep the types.
LEMMA CompletedTypes ==
  ASSUME TypeOK, Completed, ProgramTypes', fifo' \in Packets \cup {Empty}, rcvtog' \in {0, 1}
  PROVE  TypeOK'
<1>1. hxfrdn' = 0 /\ UNCHANGED <<busy, hrsl, device, faults>>
  BY DEF Completed
<1>2. ChipTypes' /\ DeviceTypes'
  BY <1>1, TypeParts DEF ChipTypes, DeviceTypes, device
<1> QED
  BY <1>2, TypePartsNext

\* A transfer that ends keeps the types.
LEMMA EndTypes ==
  ASSUME TypeOK, NEW code \in 0..255, End(code), UNCHANGED call,
         data' \in Seq(Packets), reports' \in Seq(Packets), rcvToggle' \in {0, 1}
  PROVE  ProgramTypes' /\ CountInv' /\ at' = "idle"
BY DEF TypeOK, End, ProgramTypes, CountInv

\* The next packet is dispatched, of a call that goes on.
LEMMA DispatchTypes ==
  ASSUME TypeOK, NEW t \in Tokens, Dispatch(t), call' \in Calls,
         data' \in Seq(Packets), UNCHANGED <<rcode, driver, reports>>, rcvToggle' \in {0, 1}
  PROVE  ProgramTypes' /\ at' = "launch" /\ token' = t
BY Sizes DEF TypeOK, Dispatch, ProgramTypes

\* A result is looked at: a packet or a try less, or the end of the call.
LEMMA CompletedShortens ==
  ASSUME TypeOK, CountInv, Completed
  PROVE  TypeOK' /\ CountInv' /\ StepsLeft' < StepsLeft
<1>0. at = "wait" /\ UNCHANGED <<call, busy, hrsl, device, faults>>
  BY DEF Completed
<1>1. /\ token \in Tokens /\ data \in Seq(Packets) /\ Len(data) \in Nat /\ reports \in Seq(Packets)
      /\ nak_count \in 0..USB_NAK_LIMIT - 1 /\ retry_count \in 0..USB_RETRY_LIMIT - 1
      /\ rcvToggle \in {0, 1} /\ rcvtog \in {0, 1} /\ fifo \in Packets \cup {Empty}
      /\ hrsl \in {0, 4, 5, 6, 11, 14} /\ call \in Calls \cup {"none"} /\ driver \in {"unbound", "bound"}
      /\ rcode \in 0..255
  BY ResultCodes DEF TypeOK
<1>2. CASE Resend
  <2>1. /\ at' = "launch" /\ UNCHANGED <<token, data, rcode, rcvToggle, driver, reports, fifo, rcvtog>>
        /\ \/ nak_count + 1 # USB_NAK_LIMIT /\ nak_count' = nak_count + 1 /\ retry_count' = retry_count
           \/ retry_count + 1 # USB_RETRY_LIMIT /\ retry_count' = retry_count + 1 /\ nak_count' = nak_count
    BY <1>2 DEF Resend
  <2>2. nak_count' \in 0..USB_NAK_LIMIT - 1 /\ retry_count' \in 0..USB_RETRY_LIMIT - 1
    BY <1>1, <2>1, Sizes
  <2>3. ProgramTypes'
    BY <1>0, <1>1, <2>1, <2>2 DEF ProgramTypes
  <2>4. TypeOK'
    BY <1>1, <2>1, <2>3, CompletedTypes
  <2>5. CountInv'
    BY <1>0, <2>1 DEF CountInv
  <2>6. TriesLeft(nak_count', retry_count') < TriesLeft(nak_count, retry_count)
    BY <1>1, <2>1, Sizes DEF TriesLeft
  <2>7. PacketsLeft(token', Len(data')) = PacketsLeft(token, Len(data))
    BY <2>1, Zenon
  <2> QED
    BY <1>0, <2>4, <2>5, <2>6, <2>7, Shorter
<1>3. CASE Fail
  <2>1. End(hrsl) /\ UNCHANGED <<data, rcvToggle, reports, fifo, rcvtog>> /\ hrsl \in 0..255
    BY <1>1, <1>3 DEF Fail
  <2>2. ProgramTypes' /\ CountInv' /\ at' = "idle"
    BY <1>0, <1>1, <2>1, EndTypes
  <2>3. TypeOK'
    BY <1>1, <2>1, <2>2, CompletedTypes
  <2> QED
    BY <1>0, <2>2, <2>3, Shorter
<1>4. CASE RequestSent
  <2>1. /\ UNCHANGED <<data, rcode, rcvToggle, driver, reports, fifo>>
        /\ \/ token = "GET_DESCR" /\ Dispatch("IN0") /\ rcvtog' = 1
           \/ token = "SET_CONF" /\ Dispatch("INHS") /\ UNCHANGED rcvtog
    BY <1>4 DEF RequestSent
  <2>2. /\ token = "GET_DESCR" => call = "read"
        /\ token = "SET_CONF" => call = "configure"
    BY <1>0 DEF CountInv
  <2>3. CASE token = "GET_DESCR" /\ Dispatch("IN0") /\ rcvtog' = 1
    <3>0. data' = <<>>
      BY <1>0, <2>1, <2>3 DEF CountInv
    <3>1. "IN0" \in Tokens /\ call' \in Calls
      BY <1>0, <2>2, <2>3 DEF Tokens, Calls
    <3>2. ProgramTypes' /\ at' = "launch" /\ token' = "IN0"
      BY <1>1, <2>1, <2>3, <3>1, DispatchTypes
    <3>3. TypeOK'
      BY <1>1, <2>1, <2>3, <3>2, CompletedTypes
    <3>4. CountInv'
      BY <1>0, <2>1, <2>2, <2>3, <3>0, <3>2, Sizes DEF CountInv
    <3>5. PacketsLeft(token', Len(data')) < PacketsLeft(token, Len(data))
      BY <1>1, <2>1, <2>3, <3>2, PacketValues, Sizes
    <3> QED
      BY <1>0, <3>3, <3>4, <3>5, Shorter
  <2>4. CASE token = "SET_CONF" /\ Dispatch("INHS") /\ UNCHANGED rcvtog
    <3>1. "INHS" \in Tokens /\ call' \in Calls
      BY <1>0, <2>2, <2>4 DEF Tokens, Calls
    <3>2. ProgramTypes' /\ at' = "launch" /\ token' = "INHS"
      BY <1>1, <2>1, <2>4, <3>1, DispatchTypes
    <3>3. TypeOK'
      BY <1>1, <2>1, <2>4, <3>2, CompletedTypes
    <3>4. CountInv'
      BY <1>0, <2>2, <2>4, <3>2 DEF CountInv
    <3>5. PacketsLeft(token', Len(data')) < PacketsLeft(token, Len(data))
      BY <2>4, <3>2, PacketValues
    <3> QED
      BY <1>0, <3>3, <3>4, <3>5, Shorter
  <2> QED
    BY <1>0, <2>1, <2>3, <2>4 DEF CountInv
<1>5. CASE PacketReceived
  <2>1. /\ token \in {"IN0", "IN1"} /\ fifo \in Packets /\ fifo' = Empty /\ rcvtog' = rcvtog
        /\ data' = Append(data, fifo)
    BY <1>1, <1>5 DEF PacketReceived
  <2>2. data' \in Seq(Packets) /\ Len(data') = Len(data) + 1
    BY <1>1, <2>1
  <2>3. /\ token = "IN0" => call = "read" /\ Len(data) < DescrPackets
        /\ token = "IN1" => call = "poll" /\ Len(data) < PacketsPerReport
    BY <1>0 DEF CountInv
  <2>4. CASE ~LastPacket
    <3>1. Dispatch(token) /\ UNCHANGED <<rcode, rcvToggle, driver, reports>>
      BY <1>5, <2>4 DEF PacketReceived
    <3>2. call' \in Calls
      BY <1>0, <2>1, <2>3 DEF Calls
    <3>3. ProgramTypes' /\ at' = "launch" /\ token' = token
      BY <1>1, <2>2, <3>1, <3>2, DispatchTypes
    <3>4. TypeOK'
      BY <1>1, <2>1, <3>3, CompletedTypes
    <3>5. /\ token = "IN0" => Len(data) + 1 # DescrPackets
          /\ token = "IN1" => Len(data) + 1 # PacketsPerReport
      BY <2>3, <2>4 DEF LastPacket
    <3>6. /\ token = "IN0" => Len(data') < DescrPackets
          /\ token = "IN1" => Len(data') < PacketsPerReport
      BY <1>1, <2>2, <2>3, <3>5, Sizes
    <3>7. CountInv'
      BY <1>0, <2>1, <2>3, <3>3, <3>6 DEF CountInv
    <3>8. PacketsLeft(token', Len(data')) < PacketsLeft(token, Len(data))
      <4>1. CASE token = "IN0"
        BY <1>1, <2>2, <3>3, <4>1, PacketValues, Sizes
      <4>2. CASE token = "IN1"
        BY <1>1, <2>2, <3>3, <4>2, PacketValues, Sizes
      <4> QED
        BY <2>1, <4>1, <4>2
    <3> QED
      BY <1>0, <3>4, <3>7, <3>8, Shorter
  <2>5. CASE LastPacket /\ call = "read"
    <3>1. Dispatch("OUTHS") /\ UNCHANGED <<rcode, rcvToggle, driver, reports>>
      BY <1>5, <2>5 DEF PacketReceived
    <3>2. "OUTHS" \in Tokens /\ call' \in Calls
      BY <1>0, <2>5 DEF Tokens, Calls
    <3>3. ProgramTypes' /\ at' = "launch" /\ token' = "OUTHS"
      BY <1>1, <2>2, <3>1, <3>2, DispatchTypes
    <3>4. TypeOK'
      BY <1>1, <2>1, <3>3, CompletedTypes
    <3>5. CountInv'
      BY <1>0, <2>5, <3>3 DEF CountInv
    <3>6. token = "IN0"
      BY <2>1, <2>3, <2>5
    <3>7. PacketsLeft(token', Len(data')) < PacketsLeft(token, Len(data))
      BY <1>1, <2>3, <3>3, <3>6, PacketValues, Sizes
    <3> QED
      BY <1>0, <3>4, <3>5, <3>7, Shorter
  <2>6. CASE LastPacket /\ call # "read"
    <3>1. End(0) /\ rcvToggle' = rcvtog /\ reports' = reports \o data'
      BY <1>5, <2>6 DEF PacketReceived
    <3>2. reports' \in Seq(Packets)
      BY <1>1, <2>2, <3>1
    <3>3. ProgramTypes' /\ CountInv' /\ at' = "idle"
      BY <1>0, <1>1, <2>2, <3>1, <3>2, EndTypes
    <3>4. TypeOK'
      BY <1>1, <2>1, <3>3, CompletedTypes
    <3> QED
      BY <1>0, <3>3, <3>4, Shorter
  <2> QED
    BY <2>4, <2>5, <2>6
<1>6. CASE NoPacketReceived \/ StatusSent
  <2>1. (End(NoRcvdav) \/ End(0)) /\ UNCHANGED <<data, rcvToggle, reports, fifo, rcvtog>>
    BY <1>6 DEF NoPacketReceived, StatusSent
  <2>2. ProgramTypes' /\ CountInv' /\ at' = "idle"
    BY <1>0, <1>1, <2>1, EndTypes, ResultCodes
  <2>3. TypeOK'
    BY <1>1, <2>1, <2>2, CompletedTypes
  <2> QED
    BY <1>0, <2>2, <2>3, Shorter
<1> QED
  BY <1>2, <1>3, <1>4, <1>5, <1>6 DEF Completed

\* A packet is launched, or given up.
LEMMA OtherShortens ==
  ASSUME TypeOK, CountInv, Launch \/ TimedOut
  PROVE  TypeOK' /\ CountInv' /\ StepsLeft' < StepsLeft
<1>1. CASE Launch
  <2>1. /\ at = "launch" /\ at' = "wait" /\ busy' = token
        /\ UNCHANGED <<call, token, nak_count, retry_count, data, rcode, rcvToggle, driver, reports,
                       hxfrdn, hrsl, fifo, rcvtog, device, faults>>
    BY <1>1 DEF Launch
  <2>2. TypeOK' /\ CountInv'
    BY <2>1 DEF TypeOK, CountInv, device
  <2>3. busy' # "none"
    BY <2>1 DEF TypeOK, Tokens
  <2>4. WaitsLeft(at', busy') = 1
    BY <2>1, <2>3, WaitValues
  <2>5. WaitsLeft(at, busy) \in {2, 3}
    BY <2>1 DEF WaitsLeft
  <2>6. /\ PacketsLeft(token', Len(data')) = PacketsLeft(token, Len(data))
        /\ TriesLeft(nak_count', retry_count') = TriesLeft(nak_count, retry_count)
    BY <2>1, Zenon
  <2>7. WaitsLeft(at', busy') < WaitsLeft(at, busy)
    BY <2>4, <2>5
  <2> QED
    BY <2>1, <2>2, <2>6, <2>7, Shorter
<1>2. CASE TimedOut
  <2>1. /\ at = "wait" /\ Fault /\ busy' \in {busy, "none"} /\ End(XferTimeout)
        /\ UNCHANGED <<call, data, rcvToggle, reports, hxfrdn, hrsl, fifo, rcvtog, device>>
    BY <1>2 DEF TimedOut, Fault
  <2>2. ProgramTypes' /\ CountInv' /\ at' = "idle"
    BY <2>1, EndTypes, ResultCodes DEF TypeOK
  <2>3. ChipTypes' /\ DeviceTypes'
    BY <2>1, TypeParts, FaultsTyped DEF ChipTypes, DeviceTypes, device
  <2> QED
    BY <2>1, <2>2, <2>3, TypePartsNext, Shorter
<1> QED
  BY <1>1, <1>2

\* A call starts with its first packet.
LEMMA CallStarts ==
  ASSUME TypeOK, CountInv, Poll \/ (\E c \in {"read", "configure"} : ControlRequest(c))
  PROVE  TypeOK' /\ CountInv' /\ at = "idle"
<1>1. CASE Poll
  <2>1. /\ at = "idle" /\ call' = "poll" /\ Dispatch("IN1") /\ rcvtog' = rcvToggle /\ data' = <<>>
        /\ UNCHANGED <<rcode, rcvToggle, driver, reports, busy, hxfrdn, hrsl, fifo, device, faults>>
    BY <1>1 DEF Poll
  <2>2. ProgramTypes' /\ at' = "launch" /\ token' = "IN1"
    BY <2>1, DispatchTypes DEF TypeOK, Tokens, Calls
  <2>3. ChipTypes' /\ DeviceTypes'
    BY <2>1 DEF TypeOK, ChipTypes, DeviceTypes, device
  <2>4. CountInv'
    BY <2>1, <2>2, Sizes DEF CountInv
  <2> QED
    BY <2>1, <2>2, <2>3, <2>4, TypePartsNext
<1>2. ASSUME NEW c \in {"read", "configure"}, ControlRequest(c)
      PROVE  TypeOK' /\ CountInv' /\ at = "idle"
  <2> DEFINE t == IF c = "read" THEN "GET_DESCR" ELSE "SET_CONF"
  <2>1. /\ at = "idle" /\ call' = c /\ Dispatch(t) /\ data' = <<>>
        /\ rcvToggle' \in {0, rcvToggle} /\ done' \in {0, done}
        /\ UNCHANGED <<rcode, driver, reports, chip, request, sent0, tog0, acked, tog1, faults>>
    BY <1>2 DEF ControlRequest
  <2>2. t \in Tokens /\ (t = "GET_DESCR" => c = "read") /\ (t = "SET_CONF" => c = "configure")
        /\ t \in {"GET_DESCR", "SET_CONF"}
    BY <1>2 DEF Tokens
  <2> HIDE DEF t
  <2>3. ProgramTypes' /\ at' = "launch" /\ token' = t
    <3>1. call' \in Calls /\ data' \in Seq(Packets) /\ rcvToggle' \in {0, 1}
      BY <1>2, <2>1 DEF TypeOK, Calls
    <3> QED
      BY <2>1, <2>2, <3>1, DispatchTypes
  <2>4. ChipTypes' /\ DeviceTypes'
    BY <2>1 DEF TypeOK, ChipTypes, DeviceTypes, chip
  <2>5. CountInv'
    BY <2>1, <2>2, <2>3 DEF CountInv
  <2> QED
    BY <2>1, <2>3, <2>4, <2>5, TypePartsNext
<1> QED
  BY <1>1, <1>2

\* The types and the count are invariant, and every step of a call shortens it.
LEMMA CountStep ==
  ASSUME TypeOK, CountInv, [Next]_vars
  PROVE  /\ TypeOK' /\ CountInv'
         /\ [at # "idle" => StepsLeft' < StepsLeft]_vars
<1>1. CASE Environment
  BY <1>1, EnvironmentShortens
<1>2. CASE Completed
  BY <1>2, CompletedShortens
<1>3. CASE Launch \/ TimedOut
  BY <1>3, OtherShortens
<1>4. CASE Poll \/ (\E c \in {"read", "configure"} : ControlRequest(c))
  BY <1>4, CallStarts
<1>5. CASE UNCHANGED vars
  BY <1>5 DEF vars, program, chip, device, TypeOK, CountInv
<1> QED
  BY <1>1, <1>2, <1>3, <1>4, <1>5 DEF Next, Program

\* They hold at the start.
LEMMA CountInit == Init => TypeOK /\ CountInv
<1> SUFFICES ASSUME Init PROVE TypeOK /\ CountInv
  OBVIOUS
<1>1. ProgramTypes
  BY Sizes DEF Init, ProgramTypes, Tokens
<1>2. ChipTypes
  BY DEF Init, ChipTypes
<1>3. DeviceTypes
  BY Sizes DEF Init, DeviceTypes
<1> QED
  BY <1>1, <1>2, <1>3, TypeParts DEF Init, CountInv

\* Every variable keeps its type; the counters of XferDispatchPkt stay below
\* their limits, and the FIFO holds packets of the device only.
THEOREM TypeCorrect == Spec => []TypeOK
<1>1. TypeOK /\ CountInv /\ [Next]_vars => TypeOK' /\ CountInv'
  BY CountStep
<1> QED
  BY <1>1, CountInit, PTL DEF Spec

\* Every call ends after a number of steps that is known when it starts, whatever the
\* line loses and however often the device is not ready: while a call runs, each step,
\* of the program, the chip or the device, leaves fewer.
THEOREM CallsAreBounded ==
  Spec => /\ [](StepsLeft \in Nat)
          /\ [][at # "idle" => StepsLeft' < StepsLeft]_vars
<1>1. TypeOK /\ CountInv /\ [Next]_vars =>
        /\ TypeOK' /\ CountInv'
        /\ [at # "idle" => StepsLeft' < StepsLeft]_vars
  BY CountStep
<1>2. TypeOK /\ CountInv => StepsLeft \in Nat
  BY StepsLeftRange
<1> QED
  BY <1>1, <1>2, CountInit, PTL DEF Spec
=============================================================================
