--------------------------- MODULE HidProbe_proofs ---------------------------
(***************************************************************************)
(* Proofs about the probes, for every size of the buffer and all devices   *)
(* whose descriptors follow each other: the walk stays on the descriptors  *)
(* the device has sent, and a driver is bound as they say.                 *)
(***************************************************************************)
EXTENDS HidProbe, WellFoundedInduction, TLAPS

-----------------------------------------------------------------------------
(* The inductive invariant.                                                *)

Intf == First(dev, Interface, 0)

\* The length of the configuration is cut to the buffer, which holds that much.
Clamped == total_length = IF dev.total > BufSize THEN BufSize ELSE dev.total
Contents ==
  /\ fresh = total_length
  /\ \A o \in 0..total_length - 1 :
       bigbuf[o] = IF o \in DOMAIN dev.at THEN dev.at[o] ELSE Blank

\* The walk is at the start of a descriptor and has not passed what it looks for.
OnItsWay(type, from) ==
  /\ byte_ptr \in DOMAIN dev.at \/ byte_ptr = dev.total
  /\ byte_ptr >= from
  /\ \A s \in Places(dev, type, from) : s >= byte_ptr

\* What Bind has written.
BoundToFirst ==
  /\ Intf \in DOMAIN dev.at /\ dev.at[Intf].bDescriptorType = Interface
  /\ dev.at[Intf].class = class /\ devclass = class
  /\ interface = dev.at[Intf].number /\ epinfo = "hid_ep"

IInv ==
  /\ TypeOK
  /\ pc \in {"header", "whole"} => byte_ptr = 0
  /\ pc \notin {"header", "failed"} => Clamped
  /\ pc \in {"walk", "endpoint"} => Contents
  /\ pc \notin {"header", "whole", "failed"} => confvalue = dev.value
  /\ pc = "walk" => OnItsWay(Interface, 0)
  /\ pc = "endpoint" => BoundToFirst /\ OnItsWay(Endpoint, Intf)
  /\ pc \in {"setconf", "setproto", "bound"} =>
       BoundToFirst /\ epAddr = dev.at[First(dev, Endpoint, Intf)].number
  /\ pc \in {"setproto", "bound"} => dev_conf = dev.value
  /\ pc = "bound" => dev_boot

-----------------------------------------------------------------------------
(* Descriptors.                                                            *)

\* A set of numbers has a least one.
LEMMA Least ==
  ASSUME NEW T, T \subseteq Nat, T # {}
  PROVE  \E x \in T : \A y \in T : x <= y
<1>1. PICK x \in T : \A y \in T : ~ (<<y, x>> \in OpToRel(<, Nat))
  BY NatLessThanWellFounded, WFMin
<1>2. \A y \in T : ~(y < x)
  BY <1>1 DEF OpToRel
<1>3. \A y \in T : x <= y
  BY <1>2
<1> QED
  BY <1>3

\* What the assumption says of a device, and where its descriptors are.
LEMMA DeviceFacts ==
  ASSUME NEW d \in Devices
  PROVE  /\ Chained(d) /\ Conforming(d)
         /\ d.total \in Nat /\ 0 \in DOMAIN d.at /\ 0 < d.total
         /\ \A s \in DOMAIN d.at : s \in Nat /\ s < d.total
         /\ \A type, s : Places(d, type, s) \subseteq Nat
         /\ BufSize \in Nat /\ d.at[0].bLength \in 0..BufSize
<1>1. Chained(d) /\ Conforming(d) /\ BufSize \in Nat /\ d.at[0].bLength <= BufSize
  BY DeviceAssumption, BufAssumption
<1>2. d.total \in Nat /\ DOMAIN d.at \subseteq 0..d.total - 1 /\ 0 \in DOMAIN d.at
      /\ d.at[0].bLength \in Nat
  BY <1>1 DEF Chained
<1>3. \A s \in DOMAIN d.at : s \in Nat /\ s < d.total
  BY <1>2
<1>4. \A type, s : Places(d, type, s) \subseteq Nat
  BY <1>3 DEF Places
<1> QED
  BY <1>1, <1>2, <1>3, <1>4

\* The first descriptor of a type, when there is one.
LEMMA FirstExists ==
  ASSUME NEW d \in Devices, NEW type, NEW s, Places(d, type, s) # {}
  PROVE  /\ First(d, type, s) \in Places(d, type, s)
         /\ \A u \in Places(d, type, s) : First(d, type, s) <= u
<1>1. \E t \in Places(d, type, s) : \A u \in Places(d, type, s) : t <= u
  BY DeviceFacts, Least
<1> QED
  BY <1>1 DEF First

\* It is the only one that none comes before.
LEMMA FirstIs ==
  ASSUME NEW d \in Devices, NEW type, NEW s, NEW t \in Places(d, type, s),
         \A u \in Places(d, type, s) : t <= u
  PROVE  First(d, type, s) = t
<1>1. First(d, type, s) \in Places(d, type, s) /\ First(d, type, s) <= t
  BY FirstExists
<1>2. t <= First(d, type, s)
  BY <1>1
<1> QED
  BY <1>1, <1>2, DeviceFacts

\* One step of a walk from descriptor p, among the n bytes that were read: it ends on
\* a descriptor or behind the last, inside of what was read, and passes nothing.
LEMMA WalkStep ==
  ASSUME NEW d \in Devices, NEW type, NEW from, NEW p \in DOMAIN d.at, NEW n,
         n = IF d.total > BufSize THEN BufSize ELSE d.total, p < n,
         from \in Nat, p >= from, Within(d, type, from),
         \A s \in Places(d, type, from) : s >= p
  PROVE  /\ p + d.at[p].bLength \in DOMAIN d.at \/ p + d.at[p].bLength = d.total
         /\ p + d.at[p].bLength \in Nat /\ p < p + d.at[p].bLength /\ p + d.at[p].bLength <= n
         /\ d.at[p].bDescriptorType = type =>
              First(d, type, from) = p /\ p \in Places(d, type, from)
         /\ d.at[p].bDescriptorType # type =>
              \A s \in Places(d, type, from) : s >= p + d.at[p].bLength
<1> DEFINE next == p + d.at[p].bLength
<1>1. /\ d.at[p].bLength \in Nat /\ next > p
      /\ next \in DOMAIN d.at \/ next = d.total
      /\ \A t \in DOMAIN d.at : t <= p \/ t >= next
  BY DeviceFacts DEF Chained
<1>2. p \in Nat /\ d.total \in Nat /\ BufSize \in Nat /\ next \in Nat
  BY <1>1, DeviceFacts
<1>3. next <= d.total
  BY <1>1, <1>2, DeviceFacts
<1> HIDE DEF next
<1>4. CASE d.at[p].bDescriptorType = type
  <2>1. p \in Places(d, type, from)
    BY <1>4 DEF Places
  <2>2. First(d, type, from) = p
    <3>1. \A s \in Places(d, type, from) : p <= s
      BY <1>2, DeviceFacts
    <3> QED
      BY <2>1, <3>1, FirstIs
  <2>3. next <= BufSize
    BY <2>1, <2>2 DEF Within, next
  <2>4. next <= n
    BY <1>2, <1>3, <2>3
  <2> QED
    BY <1>1, <1>2, <1>4, <2>1, <2>2, <2>4 DEF next
<1>5. CASE d.at[p].bDescriptorType # type
  <2>1. \A s \in Places(d, type, from) : s >= next /\ s \in DOMAIN d.at
    <3> SUFFICES ASSUME NEW s \in Places(d, type, from)
                 PROVE  s >= next /\ s \in DOMAIN d.at
      OBVIOUS
    <3>1. s \in DOMAIN d.at /\ d.at[s].bDescriptorType = type /\ s \in Nat /\ s >= p
      BY DeviceFacts DEF Places
    <3>2. s # p
      BY <1>5, <3>1
    <3> QED
      BY <1>1, <1>2, <3>1, <3>2
  <2>2. next <= BufSize
    <3>1. CASE Places(d, type, from) = {}
      BY <1>2, <1>3, <3>1 DEF Within
    <3>2. CASE Places(d, type, from) # {}
      <4> DEFINE f == First(d, type, from)
      <4>1. f \in Places(d, type, from)
        BY <3>2, FirstExists
      <4>2. f + d.at[f].bLength <= BufSize
        BY <3>2 DEF Within
      <4>3. f >= next /\ f \in Nat /\ d.at[f].bLength \in Nat
        BY <2>1, <4>1, DeviceFacts DEF Chained
      <4> HIDE DEF f
      <4> QED
        BY <1>2, <4>2, <4>3
    <3> QED
      BY <3>1, <3>2
  <2>3. next <= n
    BY <1>2, <1>3, <2>2
  <2> QED
    BY <1>1, <1>2, <1>5, <2>1, <2>3 DEF next
<1> QED
  BY <1>4, <1>5

-----------------------------------------------------------------------------
(* The steps.                                                              *)

\* A device's descriptors, or none, are what bigbuf holds.
LEMMA BufferTyped ==
  ASSUME TypeOK, NEW n, n \in 0..BufSize, ReadConf(n)
  PROVE  bigbuf' \in [0..BufSize - 1 -> Descriptors] /\ fresh' \in 0..BufSize
<1>1. \A o \in DOMAIN dev.at : dev.at[o] \in Descriptors
  BY DEF TypeOK, Descriptors
<1>2. Blank \in Descriptors
  BY DEF Descriptors
<1> QED
  BY <1>1, <1>2 DEF TypeOK, ReadConf

\* A failure leads to the other probe, or to the end.
LEMMA AfterFailure ==
  ASSUME ReturnFalse, TypeOK
  PROVE  /\ pc' \in {"header", "failed"} /\ class' \in {HID_M, HID_K} /\ byte_ptr' \in Nat
         /\ pc' = "header" => byte_ptr' = 0
BY DEF ReturnFalse, TypeOK

\* What the walk looks at: the descriptor of the device at this place.
LEMMA LooksAt ==
  ASSUME TypeOK, Clamped, Contents, NEW type, NEW from, OnItsWay(type, from),
         byte_ptr < total_length
  PROVE  /\ byte_ptr \in DOMAIN dev.at /\ data_ptr = dev.at[byte_ptr]
         /\ total_length \in Nat /\ total_length <= dev.total
<1>1. dev \in Devices /\ byte_ptr \in Nat /\ total_length \in Nat /\ dev.total \in Nat /\ BufSize \in Nat
  BY DeviceFacts DEF TypeOK
<1>2. total_length <= dev.total
  BY <1>1 DEF Clamped
<1>3. byte_ptr \in DOMAIN dev.at
  BY <1>1, <1>2 DEF OnItsWay
<1>4. byte_ptr \in 0..total_length - 1
  BY <1>1
<1> QED
  BY <1>1, <1>2, <1>3, <1>4 DEF Contents, data_ptr

\* One step of either walk.
LEMMA OneStep ==
  ASSUME TypeOK, Clamped, Contents, NEW type, NEW from \in Nat, OnItsWay(type, from),
         Within(dev, type, from), byte_ptr < total_length
  PROVE  LET next == byte_ptr + data_ptr.bLength
         IN  /\ next \in DOMAIN dev.at \/ next = dev.total
             /\ next \in Nat /\ byte_ptr < next /\ next <= total_length
             /\ data_ptr.bDescriptorType = type =>
                  First(dev, type, from) = byte_ptr /\ byte_ptr \in Places(dev, type, from)
             /\ data_ptr.bDescriptorType # type =>
                  \A s \in Places(dev, type, from) : s >= next
<1>1. byte_ptr \in DOMAIN dev.at /\ data_ptr = dev.at[byte_ptr]
  BY LooksAt
<1>2. /\ dev \in Devices
      /\ total_length = IF dev.total > BufSize THEN BufSize ELSE dev.total
      /\ byte_ptr >= from /\ \A s \in Places(dev, type, from) : s >= byte_ptr
  BY DEF TypeOK, Clamped, OnItsWay
<1> QED
  BY <1>1, <1>2, WalkStep

\* Before the first interface the walk is within the buffer, and behind it too when the
\* interface is one of a driver.
LEMMA SearchesEnd ==
  ASSUME TypeOK
  PROVE  /\ Within(dev, Interface, 0)
         /\ BoundToFirst => Intf \in Nat /\ Within(dev, Endpoint, Intf)
<1>1. dev \in Devices /\ class \in {HID_M, HID_K} /\ Conforming(dev)
  BY DeviceFacts DEF TypeOK
<1>2. Within(dev, Interface, 0)
  BY <1>1 DEF Conforming
<1>3. ASSUME BoundToFirst PROVE Intf \in Nat /\ Within(dev, Endpoint, Intf)
  <2>1. Intf \in Nat
    BY <1>1, <1>3, DeviceFacts DEF BoundToFirst
  <2>2. Intf \in Places(dev, Interface, 0)
    BY <1>3, <2>1 DEF BoundToFirst, Places
  <2>3. dev.at[First(dev, Interface, 0)].class \in {HID_M, HID_K}
    BY <1>1, <1>3 DEF BoundToFirst, Intf
  <2> QED
    BY <1>1, <2>1, <2>2, <2>3 DEF Conforming, Intf
<1> QED
  BY <1>2, <1>3

\* The invariant holds again once a probe has failed.
LEMMA FailureInv ==
  ASSUME IInv, ReturnFalse,
         dev' = dev, dev_boot' \in BOOLEAN, devices' = devices,
         total_length' \in 0..BufSize, fresh' \in 0..BufSize,
         bigbuf' \in [0..BufSize - 1 -> Descriptors],
         devclass' \in {0, HID_M, HID_K}, epinfo' \in {"dev0ep", "hid_ep"}
  PROVE  IInv'
<1>1. /\ pc' \in {"header", "failed"} /\ class' \in {HID_M, HID_K} /\ byte_ptr' \in Nat
      /\ pc' = "header" => byte_ptr' = 0
  BY AfterFailure DEF IInv
<1>2. TypeOK'
  BY <1>1 DEF IInv, TypeOK
<1> QED
  BY <1>1, <1>2 DEF IInv

\* It holds at the start.
LEMMA InitInv ==
  ASSUME Init
  PROVE  IInv
<1>1. 0 \in 0..BufSize /\ Blank \in Descriptors
  BY BufAssumption DEF Descriptors
<1>2. [o \in 0..BufSize - 1 |-> Blank] \in [0..BufSize - 1 -> Descriptors]
  BY <1>1
<1>3. TypeOK
  BY <1>1, <1>2 DEF Init, TypeOK
<1> QED
  BY <1>3 DEF Init, IInv

\* And after every step.
LEMMA NextInv ==
  ASSUME IInv, [Next]_vars
  PROVE  IInv'
<1> USE DEF bound, buffer, device
<1>1. /\ TypeOK /\ dev \in Devices
      /\ pc \in {"walk", "endpoint"} => Clamped /\ Contents
  BY DEF IInv, TypeOK
<1>2. CASE GetHeader
  <2>1. CASE ReturnFalse /\ UNCHANGED <<buffer, total_length>>
    BY <1>1, <1>2, <2>1, FailureInv DEF GetHeader, TypeOK
  <2>2. CASE /\ ReadConf(dev.at[0].bLength) /\ pc' = "whole"
             /\ total_length' = IF dev.total > BufSize THEN BufSize ELSE dev.total
             /\ UNCHANGED <<class, byte_ptr>>
    <3>1. UNCHANGED <<confvalue, bound, device>> /\ byte_ptr' = 0 /\ byte_ptr = 0
      BY <1>2, <2>2 DEF GetHeader, IInv
    <3>2. total_length' \in 0..BufSize /\ Clamped'
      BY <1>1, <2>2, <3>1, DeviceFacts DEF Clamped
    <3>3. bigbuf' \in [0..BufSize - 1 -> Descriptors] /\ fresh' \in 0..BufSize
      BY <1>1, <2>2, BufferTyped, DeviceFacts
    <3>4. TypeOK'
      BY <1>1, <2>2, <3>1, <3>2, <3>3 DEF TypeOK
    <3> QED
      BY <2>2, <3>1, <3>2, <3>4 DEF IInv
  <2> QED
    BY <1>2, <2>1, <2>2 DEF GetHeader
<1>3. CASE GetWhole
  <2>1. CASE ReturnFalse /\ UNCHANGED <<buffer, confvalue>>
    BY <1>1, <1>3, <2>1, FailureInv DEF GetWhole, TypeOK
  <2>2. CASE /\ ReadConf(total_length) /\ confvalue' = dev.value
             /\ pc' = "walk" /\ UNCHANGED <<class, byte_ptr>>
    <3>1. UNCHANGED <<total_length, bound, device>> /\ byte_ptr = 0 /\ Clamped
      BY <1>3 DEF GetWhole, IInv
    <3>2. bigbuf' \in [0..BufSize - 1 -> Descriptors] /\ fresh' \in 0..BufSize
      BY <1>1, <2>2, BufferTyped DEF TypeOK
    <3>3. TypeOK'
      BY <1>1, <2>2, <3>1, <3>2 DEF TypeOK
    <3>4. Contents'
      BY <1>1, <2>2, <3>1, DeviceFacts DEF Contents, ReadConf, TypeOK
    <3>5. Clamped' /\ confvalue' = dev'.value
      BY <2>2, <3>1 DEF Clamped
    <3>6. OnItsWay(Interface, 0)'
      <4>1. \A t \in Places(dev, Interface, 0) : t >= 0
        BY <1>1, DeviceFacts
      <4> QED
        BY <1>1, <2>2, <3>1, <4>1, DeviceFacts DEF OnItsWay
    <3> QED
      BY <2>2, <3>3, <3>4, <3>5, <3>6 DEF IInv
  <2> QED
    BY <1>3, <2>1, <2>2 DEF GetWhole
<1>4. CASE SkipToInterface
  <2>1. /\ pc = "walk" /\ byte_ptr < total_length /\ data_ptr.bDescriptorType # Interface
        /\ byte_ptr' = byte_ptr + data_ptr.bLength /\ OnItsWay(Interface, 0)
        /\ UNCHANGED <<pc, class, total_length, confvalue, buffer, bound, device>>
    BY <1>4 DEF SkipToInterface, Advance, IInv
  <2>2. /\ byte_ptr' \in DOMAIN dev.at \/ byte_ptr' = dev.total
        /\ byte_ptr' \in Nat
        /\ \A s \in Places(dev, Interface, 0) : s >= byte_ptr'
    BY <1>1, <2>1, OneStep, SearchesEnd
  <2>3. TypeOK'
    BY <1>1, <2>1, <2>2 DEF TypeOK
  <2>4. OnItsWay(Interface, 0)'
    BY <2>1, <2>2 DEF OnItsWay
  <2> QED
    BY <1>1, <2>1, <2>3, <2>4 DEF IInv, Clamped, Contents
<1>5. CASE Bind
  <2>1. /\ pc = "walk" /\ byte_ptr < total_length /\ data_ptr.bDescriptorType = Interface
        /\ data_ptr.class = class /\ OnItsWay(Interface, 0)
        /\ devclass' = class /\ epinfo' = "hid_ep" /\ interface' = data_ptr.number
        /\ byte_ptr' = byte_ptr + data_ptr.bLength /\ pc' = "endpoint"
        /\ UNCHANGED <<class, total_length, confvalue, buffer, epAddr, device>>
    BY <1>5 DEF Bind, Advance, IInv
  <2>2. /\ byte_ptr' \in DOMAIN dev.at \/ byte_ptr' = dev.total
        /\ byte_ptr' \in Nat /\ byte_ptr < byte_ptr' /\ Intf = byte_ptr
    BY <1>1, <2>1, OneStep, SearchesEnd DEF Intf
  <2>3. byte_ptr \in DOMAIN dev.at /\ data_ptr = dev.at[byte_ptr]
    BY <1>1, <2>1, LooksAt
  <2>4. Intf' = Intf
    BY <2>1 DEF Intf, First, Places
  <2>5. TypeOK'
    BY <1>1, <2>1, <2>2 DEF TypeOK
  <2>6. BoundToFirst'
    BY <2>1, <2>2, <2>3, <2>4 DEF BoundToFirst
  <2>7. OnItsWay(Endpoint, Intf)'
    <3>1. \A t \in Places(dev, Endpoint, byte_ptr) : t >= byte_ptr'
      <4> SUFFICES ASSUME NEW t \in Places(dev, Endpoint, byte_ptr)
                   PROVE  t >= byte_ptr'
        OBVIOUS
      <4>1. t \in DOMAIN dev.at /\ t >= byte_ptr /\ dev.at[t].bDescriptorType = Endpoint
        BY DEF Places
      <4>2. t # byte_ptr
        BY <2>1, <2>3, <4>1 DEF Endpoint, Interface
      <4>3. t <= byte_ptr \/ t >= byte_ptr + dev.at[byte_ptr].bLength
        BY <1>1, <2>3, <4>1, DeviceFacts DEF Chained
      <4>4. t \in Nat /\ byte_ptr \in Nat
        BY <1>1, <4>1, DeviceFacts DEF TypeOK
      <4> QED
        BY <2>1, <2>3, <4>1, <4>2, <4>3, <4>4
    <3>2. byte_ptr \in Nat
      BY <1>1 DEF TypeOK
    <3> QED
      BY <2>1, <2>2, <2>4, <3>1, <3>2 DEF OnItsWay, Places
  <2> QED
    BY <1>1, <2>1, <2>5, <2>6, <2>7 DEF IInv, Clamped, Contents
<1>6. CASE OtherInterface
  BY <1>1, <1>6, FailureInv DEF OtherInterface, TypeOK
<1>7. CASE SkipToEndpoint
  <2>1. /\ pc = "endpoint" /\ byte_ptr < total_length /\ data_ptr.bDescriptorType # Endpoint
        /\ byte_ptr' = byte_ptr + data_ptr.bLength /\ BoundToFirst /\ OnItsWay(Endpoint, Intf)
        /\ UNCHANGED <<pc, class, total_length, confvalue, buffer, bound, device>>
    BY <1>7 DEF SkipToEndpoint, Advance, IInv
  <2>2. /\ byte_ptr' \in DOMAIN dev.at \/ byte_ptr' = dev.total
        /\ byte_ptr' \in Nat /\ byte_ptr < byte_ptr'
        /\ \A s \in Places(dev, Endpoint, Intf) : s >= byte_ptr'
    BY <1>1, <2>1, OneStep, SearchesEnd
  <2>3. TypeOK'
    BY <1>1, <2>1, <2>2 DEF TypeOK
  <2>4. BoundToFirst' /\ Intf' = Intf
    BY <2>1 DEF BoundToFirst, Intf, First, Places
  <2>5. OnItsWay(Endpoint, Intf)'
    <3>1. byte_ptr' >= Intf
      BY <1>1, <2>1, <2>2, SearchesEnd DEF OnItsWay, TypeOK
    <3> QED
      BY <2>1, <2>2, <2>4, <3>1 DEF OnItsWay, Places
  <2> QED
    BY <1>1, <2>1, <2>3, <2>4, <2>5 DEF IInv, Clamped, Contents
<1>8. CASE TakeEndpoint
  <2>1. /\ pc = "endpoint" /\ byte_ptr < total_length /\ data_ptr.bDescriptorType = Endpoint
        /\ epAddr' = data_ptr.number /\ pc' = "setconf" /\ BoundToFirst /\ OnItsWay(Endpoint, Intf)
        /\ UNCHANGED <<class, byte_ptr, total_length, confvalue, buffer, devclass, epinfo,
                       interface, device>>
    BY <1>8 DEF TakeEndpoint, IInv
  <2>2. First(dev, Endpoint, Intf) = byte_ptr /\ data_ptr = dev.at[byte_ptr]
    BY <1>1, <2>1, OneStep, SearchesEnd, LooksAt
  <2>3. TypeOK'
    BY <1>1, <2>1 DEF TypeOK
  <2>4. BoundToFirst' /\ Intf' = Intf
    BY <2>1 DEF BoundToFirst, Intf, First, Places
  <2>5. (epAddr = dev.at[First(dev, Endpoint, Intf)].number)'
    BY <2>1, <2>2, <2>4 DEF First, Places
  <2> QED
    BY <1>1, <2>1, <2>3, <2>4, <2>5 DEF IInv, Clamped
<1>9. CASE SetConf
  <2>1. CASE ReturnFalse
    BY <1>1, <1>9, <2>1, FailureInv DEF SetConf, TypeOK
  <2>2. CASE dev_conf' = confvalue /\ pc' = "setproto" /\ UNCHANGED <<class, byte_ptr>>
    <3>1. UNCHANGED <<total_length, confvalue, buffer, bound, dev, dev_boot, devices>> /\ pc = "setconf"
      BY <1>9 DEF SetConf
    <3>2. TypeOK' /\ BoundToFirst' /\ dev_conf' = dev'.value /\ Clamped' /\ confvalue' = dev'.value
          /\ (epAddr = dev.at[First(dev, Endpoint, Intf)].number)'
      BY <1>1, <2>2, <3>1 DEF IInv, TypeOK, BoundToFirst, Intf, First, Places, Clamped
    <3> QED
      BY <2>2, <3>2 DEF IInv
  <2> QED
    BY <1>9, <2>1, <2>2 DEF SetConf
<1>10. CASE SetProto
  <2>1. BootSet \in BOOLEAN /\ (pc = "setproto" => BootSet)
    BY <1>1 DEF BootSet, IInv, BoundToFirst, Intf, TypeOK
  <2>2. CASE ReturnFalse
    BY <1>1, <1>10, <2>1, <2>2, FailureInv DEF SetProto, TypeOK
  <2>3. CASE dev_boot' = BootSet /\ pc' = "bound" /\ UNCHANGED <<class, byte_ptr>>
    <3>1. UNCHANGED <<total_length, confvalue, buffer, bound, dev, dev_conf, devices>> /\ pc = "setproto"
      BY <1>10 DEF SetProto
    <3>2. TypeOK' /\ BoundToFirst' /\ dev_conf' = dev'.value /\ Clamped' /\ confvalue' = dev'.value
          /\ (epAddr = dev.at[First(dev, Endpoint, Intf)].number)'
      BY <1>1, <2>1, <2>3, <3>1 DEF IInv, TypeOK, BoundToFirst, Intf, First, Places, Clamped
    <3> QED
      BY <2>1, <2>3, <3>1, <3>2 DEF IInv
  <2> QED
    BY <1>10, <2>2, <2>3 DEF SetProto
<1>11. CASE EndOfBuffer
  BY <1>1, <1>11, FailureInv DEF EndOfBuffer, TypeOK
<1>12. CASE \E d \in Devices : NewDevice(d)
  <2>1. PICK d \in Devices : NewDevice(d)
    BY <1>12
  <2>2. TypeOK'
    <3>1. 0 \in 0..BufSize
      BY BufAssumption
    <3>2. devices' \in Nat /\ total_length' \in 0..BufSize
      BY <1>1, <2>1 DEF NewDevice, TypeOK
    <3> QED
      BY <1>1, <2>1, <3>1, <3>2 DEF NewDevice, TypeOK
  <2> QED
    BY <2>1, <2>2 DEF NewDevice, IInv
<1>13. CASE UNCHANGED vars
  <2>1. UNCHANGED <<dev, dev_conf, dev_boot, devices, pc, class, byte_ptr, total_length, confvalue,
                    bigbuf, fresh, devclass, epinfo, interface, epAddr>>
    BY <1>13 DEF vars
  <2> QED
    BY <2>1 DEF IInv, TypeOK, Clamped, Contents, OnItsWay, BoundToFirst, Intf, First, Places
<1> QED
  BY <1>2, <1>3, <1>4, <1>5, <1>6, <1>7, <1>8, <1>9, <1>10, <1>11, <1>12, <1>13 DEF Next, Probe

-----------------------------------------------------------------------------
(* The theorems.                                                           *)

\* The invariant: how far a probe has come with this device.
THEOREM Invariant == Spec => []IInv
<1>1. Init => IInv
  BY InitInv
<1>2. IInv /\ [Next]_vars => IInv'
  BY NextInv
<1> QED
  BY <1>1, <1>2, PTL DEF Spec

\* The probes' variables keep to their types: no place beyond bigbuf is kept.
THEOREM TypeCorrect == Spec => []TypeOK
<1>1. IInv => TypeOK
  BY DEF IInv
<1> QED
  BY <1>1, Invariant, PTL

\* The walk looks at nothing but descriptors of this device.
THEOREM OnlyFresh == Spec => []ReadsOnlyFresh
<1>1. IInv => ReadsOnlyFresh
  <2> SUFFICES ASSUME IInv, pc \in {"walk", "endpoint"}, byte_ptr < total_length
               PROVE  /\ byte_ptr \in DOMAIN dev.at /\ byte_ptr + data_ptr.bLength <= fresh
                      /\ data_ptr = dev.at[byte_ptr]
    BY DEF ReadsOnlyFresh
  <2>1. TypeOK /\ Clamped /\ Contents
    BY DEF IInv
  <2>2. CASE pc = "walk"
    <3>1. OnItsWay(Interface, 0)
      BY <2>2 DEF IInv
    <3> QED
      BY <2>1, <3>1, LooksAt, OneStep, SearchesEnd DEF Contents
  <2>3. CASE pc = "endpoint"
    <3>1. BoundToFirst /\ OnItsWay(Endpoint, Intf)
      BY <2>3 DEF IInv
    <3> QED
      BY <2>1, <3>1, LooksAt, OneStep, SearchesEnd DEF Contents
  <2> QED
    BY <2>2, <2>3
<1> QED
  BY <1>1, Invariant, PTL

\* A driver that runs is bound to the device's first interface and told it so.
THEOREM DriverBound == Spec => []BoundAsDescribed
<1>1. IInv => BoundAsDescribed
  BY DEF IInv, BoundAsDescribed, BoundToFirst, Intf
<1> QED
  BY <1>1, Invariant, PTL
-----------------------------------------------------------------------------
(* How long a probe takes: the half of ProbeReturns that needs no fairness. *)

Returned == pc \in {"bound", "failed"}

BytesAhead == IF byte_ptr < total_length THEN total_length - byte_ptr ELSE 0

\* The steps a probe has left, at most: one for each byte the walk has before it.
ProbeLeft ==
  CASE pc = "header"   -> BufSize + 6
    [] pc = "whole"    -> BufSize + 5
    [] pc = "walk"     -> BytesAhead + 4
    [] pc = "endpoint" -> BytesAhead + 3
    [] pc = "setconf"  -> 2
    [] pc = "setproto" -> 1
    [] Returned        -> 0

\* The mouse's probe may be followed by the keyboard's.
StepsLeft == (IF class = HID_M /\ ~Returned THEN BufSize + 6 ELSE 0) + ProbeLeft

\* A distance to a place that may be passed.
LEMMA Distance ==
  ASSUME NEW n \in Nat, NEW p \in Nat, NEW t \in 0..n, NEW a, a = IF p < t THEN t - p ELSE 0
  PROVE  a \in 0..n
OBVIOUS

\* The walks' values, in the order of their distances.
LEMMA WalksInOrder ==
  ASSUME NEW a \in Nat, NEW b \in Nat, b < a
  PROVE  /\ b + 4 \in Int /\ b + 3 \in Int
         /\ b + 4 < a + 4 /\ b + 3 < a + 4 /\ b + 3 < a + 3
OBVIOUS

\* Its value at each place.
Values ==
  /\ pc = "header"   => ProbeLeft = BufSize + 6
  /\ pc = "whole"    => ProbeLeft = BufSize + 5
  /\ pc = "walk"     => ProbeLeft = BytesAhead + 4
  /\ pc = "endpoint" => ProbeLeft = BytesAhead + 3
  /\ pc = "setconf"  => ProbeLeft = 2
  /\ pc = "setproto" => ProbeLeft = 1
  /\ pc \in {"bound", "failed"} => ProbeLeft = 0

\* The values hold of any state.
LEMMA ValuesNow == Values
BY DEF Values, ProbeLeft, Returned

\* The same of the next state.
LEMMA ValuesNext == Values'
BY DEF Values, ProbeLeft, Returned

\* Its range.
LEMMA ProbeLeftRange ==
  ASSUME TypeOK
  PROVE  /\ BufSize \in Nat /\ BytesAhead \in 0..BufSize
         /\ ProbeLeft \in 0..BufSize + 6 /\ (~Returned => ProbeLeft > 0)
         /\ StepsLeft \in 0..2 * (BufSize + 6)
<1>1. BufSize \in Nat
  BY BufAssumption
<1>2. BytesAhead \in 0..BufSize
  BY <1>1 DEF TypeOK, BytesAhead
<1>3. ProbeLeft \in 0..BufSize + 6 /\ (~Returned => ProbeLeft > 0)
  <2> HIDE DEF BytesAhead
  <2> QED
    BY <1>1, <1>2, ValuesNow DEF TypeOK, Values, Returned
<1>4. StepsLeft \in 0..2 * (BufSize + 6)
  <2> HIDE DEF ProbeLeft
  <2> QED
    BY <1>1, <1>3 DEF StepsLeft
<1> QED
  BY <1>1, <1>2, <1>3, <1>4

\* A probe that fails leaves at most all of the other's steps.
LEMMA FailureShortens ==
  ASSUME TypeOK, ~Returned, ReturnFalse
  PROVE  StepsLeft' < StepsLeft
<1>1. BufSize \in Nat /\ ProbeLeft \in Nat /\ ProbeLeft > 0
  BY ProbeLeftRange
<1>2. CASE class = HID_M
  <2>1. pc' = "header" /\ class' = HID_K
    BY <1>2 DEF ReturnFalse
  <2>2. StepsLeft' = BufSize + 6
    BY <1>1, <2>1, ValuesNext DEF StepsLeft, Values, Returned, HID_K, HID_M
  <2>3. StepsLeft = BufSize + 6 + ProbeLeft
    BY <1>2 DEF StepsLeft
  <2> QED
    BY <1>1, <2>2, <2>3
<1>3. CASE class # HID_M
  <2>1. pc' = "failed"
    BY <1>3 DEF ReturnFalse
  <2>2. StepsLeft' = 0
    BY <2>1, ValuesNext DEF StepsLeft, Values, Returned
  <2>3. StepsLeft = ProbeLeft
    BY <1>1, <1>3 DEF StepsLeft
  <2> QED
    BY <1>1, <2>2, <2>3
<1> QED
  BY <1>2, <1>3

\* A step of the same probe that brings it nearer to its end.
LEMMA Nearer ==
  ASSUME TypeOK, ~Returned, class' = class, ProbeLeft' \in Int, ProbeLeft' < ProbeLeft
  PROVE  StepsLeft' < StepsLeft
<1> HIDE DEF ProbeLeft
<1> QED
  BY ProbeLeftRange DEF StepsLeft

\* A step of the walk is at least a byte.
LEMMA WalkShortens ==
  ASSUME IInv, pc \in {"walk", "endpoint"}, byte_ptr < total_length
  PROVE  /\ data_ptr.bLength \in Nat /\ byte_ptr + data_ptr.bLength > byte_ptr
         /\ byte_ptr \in Nat /\ total_length \in Nat
<1>1. TypeOK /\ Clamped /\ Contents /\ dev \in Devices
  BY DEF IInv, TypeOK
<1>2. byte_ptr \in DOMAIN dev.at /\ data_ptr = dev.at[byte_ptr]
  <2>1. CASE pc = "walk"
    BY <1>1, <2>1, LooksAt DEF IInv
  <2>2. CASE pc = "endpoint"
    BY <1>1, <2>2, LooksAt DEF IInv
  <2> QED
    BY <2>1, <2>2
<1> QED
  BY <1>1, <1>2, DeviceFacts DEF Chained, TypeOK

\* Every step of a probe takes it nearer to its return.
LEMMA StepShortens ==
  ASSUME IInv, IInv', Next, ~Returned
  PROVE  StepsLeft' < StepsLeft
<1>1. TypeOK /\ TypeOK' /\ BufSize \in Nat /\ BytesAhead \in 0..BufSize /\ BytesAhead' \in 0..BufSize
  <2>1. TypeOK /\ TypeOK'
    BY DEF IInv
  <2>2. BufSize \in Nat /\ BytesAhead \in 0..BufSize
    BY <2>1, ProbeLeftRange
  <2>3. BytesAhead' \in 0..BufSize
    <3>1. byte_ptr' \in Nat /\ total_length' \in 0..BufSize
      BY <2>1 DEF TypeOK
    <3>2. BytesAhead' = IF byte_ptr' < total_length' THEN total_length' - byte_ptr' ELSE 0
      BY DEF BytesAhead
    <3> QED
      BY <2>2, <3>1, <3>2, Distance
  <2> QED
    BY <2>1, <2>2, <2>3
<1>2. CASE ReturnFalse
  BY <1>1, <1>2, FailureShortens
<1>3. CASE class' = class /\ ProbeLeft' \in Int /\ ProbeLeft' < ProbeLeft
  BY <1>1, <1>3, Nearer
<1>4. ASSUME Advance, UNCHANGED total_length, pc \in {"walk", "endpoint"}, byte_ptr < total_length
      PROVE  BytesAhead' < BytesAhead
  BY <1>4, WalkShortens DEF Advance, BytesAhead
<1> HIDE DEF BytesAhead
<1>5. CASE GetHeader
  BY <1>1, <1>2, <1>3, <1>5, ValuesNow, ValuesNext DEF GetHeader, Values
<1>6. CASE GetWhole
  BY <1>1, <1>2, <1>3, <1>6, ValuesNow, ValuesNext DEF GetWhole, Values
<1>7. CASE SkipToInterface
  <2>1. BytesAhead' < BytesAhead /\ class' = class /\ pc = "walk" /\ pc' = "walk"
    BY <1>4, <1>7 DEF SkipToInterface
  <2>2. ProbeLeft = BytesAhead + 4 /\ ProbeLeft' = BytesAhead' + 4
    BY <2>1, ValuesNow, ValuesNext DEF Values
  <2>3. BytesAhead' + 4 \in Int /\ BytesAhead' + 4 < BytesAhead + 4
    <3>1. BytesAhead \in Nat /\ BytesAhead' \in Nat
      BY <1>1
    <3> QED
      BY <2>1, <3>1, WalksInOrder, Zenon
  <2> QED
    BY <1>3, <2>1, <2>2, <2>3, Zenon
<1>8. CASE Bind
  <2>1. BytesAhead' < BytesAhead /\ class' = class /\ pc = "walk" /\ pc' = "endpoint"
    BY <1>4, <1>8 DEF Bind
  <2>2. ProbeLeft = BytesAhead + 4 /\ ProbeLeft' = BytesAhead' + 3
    BY <2>1, ValuesNow, ValuesNext DEF Values
  <2>3. BytesAhead' + 3 \in Int /\ BytesAhead' + 3 < BytesAhead + 4
    <3>1. BytesAhead \in Nat /\ BytesAhead' \in Nat
      BY <1>1
    <3> QED
      BY <2>1, <3>1, WalksInOrder, Zenon
  <2> QED
    BY <1>3, <2>1, <2>2, <2>3, Zenon
<1>9. CASE OtherInterface
  BY <1>2, <1>9 DEF OtherInterface
<1>10. CASE SkipToEndpoint
  <2>1. BytesAhead' < BytesAhead /\ class' = class /\ pc = "endpoint" /\ pc' = "endpoint"
    BY <1>4, <1>10 DEF SkipToEndpoint
  <2>2. ProbeLeft = BytesAhead + 3 /\ ProbeLeft' = BytesAhead' + 3
    BY <2>1, ValuesNow, ValuesNext DEF Values
  <2>3. BytesAhead' + 3 \in Int /\ BytesAhead' + 3 < BytesAhead + 3
    <3>1. BytesAhead \in Nat /\ BytesAhead' \in Nat
      BY <1>1
    <3> QED
      BY <2>1, <3>1, WalksInOrder, Zenon
  <2> QED
    BY <1>3, <2>1, <2>2, <2>3, Zenon
<1>11. CASE TakeEndpoint
  BY <1>1, <1>3, <1>11, ValuesNow, ValuesNext DEF TakeEndpoint, Values
<1>12. CASE SetConf
  BY <1>1, <1>2, <1>3, <1>12, ValuesNow, ValuesNext DEF SetConf, Values
<1>13. CASE SetProto
  BY <1>1, <1>2, <1>3, <1>13, ValuesNow, ValuesNext DEF SetProto, Values, Returned
<1>14. CASE EndOfBuffer
  BY <1>2, <1>14 DEF EndOfBuffer
<1>15. ASSUME NEW d \in Devices, NewDevice(d) PROVE FALSE
  BY <1>15 DEF NewDevice, Returned
<1> QED
  BY <1>5, <1>6, <1>7, <1>8, <1>9, <1>10, <1>11, <1>12, <1>13, <1>14, <1>15 DEF Next, Probe

\* The probes of a device return within 2 * (BufSize + 6) steps, whatever transfers
\* fail: a walk never stands still and never turns back.
THEOREM ProbesAreShort ==
  Spec => /\ [](StepsLeft \in 0..2 * (BufSize + 6))
          /\ [][~Returned => StepsLeft' < StepsLeft]_vars
<1>1. IInv => StepsLeft \in 0..2 * (BufSize + 6)
  BY ProbeLeftRange DEF IInv
<1>2. IInv /\ IInv' /\ [Next]_vars => [~Returned => StepsLeft' < StepsLeft]_vars
  BY StepShortens
<1> QED
  BY <1>1, <1>2, Invariant, PTL DEF Spec
=============================================================================
