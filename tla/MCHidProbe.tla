----------------------------- MODULE MCHidProbe -----------------------------
(***************************************************************************)
(* Devices for a buffer of 12 bytes, with descriptors of 2 and 3 bytes:    *)
(* a configuration is given by its descriptors in order.                   *)
(***************************************************************************)
EXTENDS HidProbe, SequencesExt

Conf       == Descriptor(Configuration, 3, 0, 0)
Intf(c, n) == Descriptor(Interface, 3, c, n)
Hid        == Descriptor("hid", 2, 0, 0)
Ep(n)      == Descriptor(Endpoint, 2, 0, n)

\* Where descriptor i of the list starts.
Start(list, i) == FoldLeft(LAMBDA n, x : n + x.bLength, 0, SubSeq(list, 1, i - 1))

Device(list, value) ==
  [value |-> value, total |-> Start(list, Len(list) + 1),
   at |-> [o \in {Start(list, i) : i \in DOMAIN list} |->
             list[CHOOSE i \in DOMAIN list : Start(list, i) = o]]]

Keyboard  == Device(<<Conf, Intf(HID_K, 0), Hid, Ep(1)>>, 1)
\* The endpoint without a class descriptor, another interface behind it: the
\* configuration ends at the end of the buffer.
Mouse     == Device(<<Conf, Intf(HID_M, 1), Ep(2), Intf(HID_K, 2), Ep(3)>>, 2)
\* A keyboard and a mouse in one, longer than the buffer.
Composite == Device(<<Conf, Intf(HID_K, 0), Hid, Ep(1), Intf(HID_M, 1), Hid, Ep(2)>>, 1)
\* A device no driver knows, whose configuration is cut in its second interface.
Headset   == Device(<<Conf, Hid, Intf(0, 0), Ep(4), Intf(HID_K, 3), Ep(5)>>, 3)

\* A mouse that describes no endpoint.
Broken    == Device(<<Conf, Intf(HID_M, 0), Hid>>, 1)

MCDevices == {Keyboard, Mouse, Composite, Headset, Broken}
=============================================================================
