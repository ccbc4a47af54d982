----------------------------- MODULE MCUsbHost -----------------------------
(***************************************************************************)
(* UsbHost with three devices: a low-speed keyboard, a full-speed mouse    *)
(* and a full-speed device no driver knows.                                *)
(***************************************************************************)
EXTENDS UsbHost

MCKinds == {"keyboard", "mouse", "disk"}
MCDevSpeed == [d \in MCKinds |-> IF d = "keyboard" THEN "LS" ELSE "FS"]
MCDevClass == [d \in MCKinds |-> CASE d = "keyboard" -> HID_K
                                   [] d = "mouse" -> HID_M
                                   [] d = "disk" -> NoClass]
MCDevMps == [d \in MCKinds |-> IF d = "disk" THEN 64 ELSE 8]
=============================================================================
