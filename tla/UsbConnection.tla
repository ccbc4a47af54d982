--------------------------- MODULE UsbConnection ---------------------------
(***************************************************************************)
(* What the USB host promises about the one port it has: a driver is bound *)
(* only to the device that is in the port when the binding is made, and it *)
(* is let go before a change of the port is forgotten.  A change may come  *)
(* after the program has looked at the port and be forgotten unseen with   *)
(* the one it looked for; no driver is bound then.  UsbHost implements it. *)
(***************************************************************************)
CONSTANTS Classes,    \* what a device can be to the program
          Drivers,    \* those of them a driver exists for
          Nothing     \* no device in the port, or no driver bound

VARIABLES present,    \* the class of the device in the port
          changed,    \* a change the program has not acknowledged
          phase,      \* "Detached", "Enumerating", "Running" or "Failed"
          bound       \* the driver bound, when the phase is "Running"

cvars == <<present, changed, phase, bound>>

Init ==
  /\ present \in Classes \cup {Nothing}
  /\ changed = TRUE
  /\ phase = "Detached"
  /\ bound = Nothing

\* The user plugs, unplugs or disturbs the port.
PortChanges ==
  /\ present' \in Classes \cup {Nothing}
  /\ changed' = TRUE
  /\ UNCHANGED <<phase, bound>>

\* The program looks at the port: whatever it did for a device is over.
Look ==
  /\ changed
  /\ phase' \in {"Detached", "Enumerating"}
  /\ bound' = Nothing
  /\ UNCHANGED <<present, changed>>

\* It forgets the change only after it has let the driver go.
Acknowledge ==
  /\ changed
  /\ phase \in {"Detached", "Enumerating"}
  /\ changed' = FALSE
  /\ UNCHANGED <<present, phase, bound>>

BindDriver ==
  /\ phase = "Enumerating"
  /\ present \in Drivers
  /\ phase' = "Running"
  /\ bound' = present
  /\ UNCHANGED <<present, changed>>

GiveUp ==
  /\ phase = "Enumerating"
  /\ phase' = "Failed"
  /\ UNCHANGED <<present, changed, bound>>

Next == PortChanges \/ Look \/ Acknowledge \/ BindDriver \/ GiveUp

Spec == Init /\ [][Next]_cvars
=============================================================================
