------------------------------ MODULE UsbPipe ------------------------------
(***************************************************************************)
(* What polling an interrupt endpoint promises: the caller gets the        *)
(* device's packets in their order, each of them once, and the device lets *)
(* go of a packet only when the caller has it or is getting it.            *)
(* UsbTransfer implements it for reports of one packet.                    *)
(***************************************************************************)
EXTENDS Naturals, Sequences

VARIABLES reports,  \* the packets handed to the caller, by number
          acked     \* how many packets the device has let go of

pvars == <<reports, acked>>

Init == reports = <<>> /\ acked = 0

Deliver ==
  /\ acked \in {Len(reports), Len(reports) + 1}
  /\ reports' = Append(reports, Len(reports))
  /\ UNCHANGED acked

Release ==
  /\ acked <= Len(reports)
  /\ acked' = acked + 1
  /\ UNCHANGED reports

Next == Deliver \/ Release

Spec == Init /\ [][Next]_pvars
=============================================================================
