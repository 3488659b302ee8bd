----------------------------- MODULE DriverProofs -----------------------------
(***************************************************************************)
(* Proofs about the kernel's drivers.  About PciBus: for any numbers of    *)
(* buses, devices, functions (up to those that fit a configuration         *)
(* address) and base address registers, and any functions in any slots.    *)
(* About Keyboard: for any keys, and any number of keystrokes at any time. *)
(***************************************************************************)
EXTENDS PciBus, TLAPS

CONSTANTS Keystrokes, MaxStrokes
VARIABLES kb, out, latch, scodeset, inited, keyd, got, typed, dropped

Keyboard == INSTANCE Keyboard

-------------------------------------------------------------------------------
(* The loops of get_drivers *)

\* The wrap of a counter of the scan.
LEMMA Round ==
  ASSUME NEW n \in Nat \ {0}, NEW k \in 0 .. n - 1
  PROVE  k % n = k /\ (k + 1) % n = IF k + 1 = n THEN 0 ELSE k + 1
<1> DEFINE Q(a) == a \div n
           R(a) == a % n
<1>1. ASSUME NEW a \in Nat PROVE /\ Q(a) \in Int /\ R(a) \in Int /\ R(a) >= 0 /\ R(a) < n
                                 /\ a = n * Q(a) + R(a)
  <2>1. a \div n \in Int /\ a % n \in Int /\ a % n >= 0
    OBVIOUS
  <2>2. a % n < n
    OBVIOUS
  <2>3. a = n * (a \div n) + (a % n)
    OBVIOUS
  <2> QED
    BY <2>1, <2>2, <2>3
<1> HIDE DEF Q, R
<1>2. ASSUME NEW a \in 0 .. n PROVE R(a) = IF a = n THEN 0 ELSE a
  <2>1. /\ Q(a) \in Int /\ R(a) \in Int /\ R(a) >= 0 /\ R(a) < n /\ a = n * Q(a) + R(a)
    BY <1>1
  <2>2. ASSUME Q(a) <= -1 PROVE FALSE
    <3>1. n * Q(a) <= -n
      BY <2>1, <2>2
    <3> QED
      BY <2>1, <3>1
  <2>3. ASSUME Q(a) >= 2 PROVE FALSE
    <3>1. n * Q(a) >= n + n
      BY <2>1, <2>3
    <3> QED
      BY <2>1, <3>1
  <2>4. Q(a) \in {0, 1}
    BY <2>1, <2>2, <2>3
  <2>5. CASE Q(a) = 0
    <3>1. n * Q(a) = 0
      BY <2>5
    <3> QED
      BY <2>1, <3>1
  <2>6. CASE Q(a) = 1
    <3>1. n * Q(a) = n
      BY <2>6
    <3> QED
      BY <2>1, <3>1
  <2> QED
    BY <2>4, <2>5, <2>6
<1>3. R(k) = k /\ R(k + 1) = IF k + 1 = n THEN 0 ELSE k + 1
  BY <1>2
<1> QED
  BY <1>3 DEF R

\* The slots, and how the three counters go through them.
LEMMA SlotParts ==
  /\ \A s \in Slots : s = <<s[1], s[2], s[3]>> /\ s[1] \in 0 .. NBus - 1 /\ s[2] \in 0 .. NDevice - 1
                      /\ s[3] \in 0 .. NFunction - 1
  /\ \A s, t \in Slots : s[1] = t[1] /\ s[2] = t[2] /\ s[3] = t[3] => s = t
BY DEF Slots

\* Any two functions are scanned one before the other.
LEMMA Order ==
  ASSUME NEW s \in Slots, NEW t \in Slots
  PROVE  Before(s, t) \/ s = t \/ Before(t, s)
BY SlotParts, PciAssumption DEF Before

\* No function is scanned before itself.
LEMMA Asymmetric == ASSUME NEW s \in Slots, NEW t \in Slots, Before(s, t) PROVE s # t /\ ~Before(t, s)
BY SlotParts, PciAssumption DEF Before

\* The counters name a function until the last bus is done.
LEMMA AtHere ==
  ASSUME TypeOK
  PROVE  (Here \in Slots <=> bus < NBus) /\ Here[1] = bus /\ Here[2] = device /\ Here[3] = function
<1>1. Here[1] = bus /\ Here[2] = device /\ Here[3] = function
  BY DEF Here
<1>2. bus \in 0 .. NBus /\ device \in 0 .. NDevice - 1 /\ function \in 0 .. NFunction - 1
  BY DEF TypeOK
<1>3. NBus \in Nat
  BY PciAssumption
<1>4. ASSUME Here \in Slots PROVE bus < NBus
  BY <1>1, <1>2, <1>3, <1>4, SlotParts
<1>5. ASSUME bus < NBus PROVE Here \in Slots
  BY <1>2, <1>3, <1>5 DEF Here, Slots
<1> QED
  BY <1>1, <1>4, <1>5

\* The three loops of get_drivers go to the next function and skip none.
LEMMA Advances ==
  ASSUME TypeOK, Advance, bus < NBus
  PROVE  /\ bus' \in 0 .. NBus /\ device' \in 0 .. NDevice - 1 /\ function' \in 0 .. NFunction - 1
         /\ bus' = NBus => device' = 0 /\ function' = 0
         /\ Position' > Position
         /\ \A s \in Slots : Before(s, Here') <=> Before(s, Here) \/ s = Here
<1>1. /\ function' = IF function + 1 = NFunction THEN 0 ELSE function + 1
      /\ device' = IF function' # 0 THEN device ELSE IF device + 1 = NDevice THEN 0 ELSE device + 1
      /\ bus' = IF function' # 0 \/ device' # 0 THEN bus ELSE bus + 1
  BY Round, PciAssumption, Zenon DEF Advance, TypeOK
<1>2. /\ bus \in 0 .. NBus - 1 /\ device \in 0 .. NDevice - 1 /\ function \in 0 .. NFunction - 1
  BY PciAssumption DEF TypeOK
<1>3. bus' \in 0 .. NBus /\ device' \in 0 .. NDevice - 1 /\ function' \in 0 .. NFunction - 1
  BY <1>1, <1>2, PciAssumption
<1>4. bus' = NBus => device' = 0 /\ function' = 0
  BY <1>1, <1>2, PciAssumption
<1>5. Position' > Position
  BY <1>1, <1>2, PciAssumption DEF Position
<1>6. ASSUME NEW s \in Slots PROVE Before(s, Here') <=> Before(s, Here) \/ s = Here
  <2>1. /\ Here[1] = bus /\ Here[2] = device /\ Here[3] = function /\ Here \in Slots
        /\ Here'[1] = bus' /\ Here'[2] = device' /\ Here'[3] = function'
    BY <1>2 DEF Here, Slots
  <2>2. s[1] \in 0 .. NBus - 1 /\ s[2] \in 0 .. NDevice - 1 /\ s[3] \in 0 .. NFunction - 1
    BY SlotParts
  <2>3. s = Here <=> s[1] = bus /\ s[2] = device /\ s[3] = function
    BY <2>1, SlotParts
  <2>4. CASE function + 1 # NFunction
    BY <1>1, <1>2, <2>1, <2>2, <2>3, <2>4, PciAssumption DEF Before
  <2>5. CASE function + 1 = NFunction /\ device + 1 # NDevice
    BY <1>1, <1>2, <2>1, <2>2, <2>3, <2>5, PciAssumption DEF Before
  <2>6. CASE function + 1 = NFunction /\ device + 1 = NDevice
    BY <1>1, <1>2, <2>1, <2>2, <2>3, <2>6, PciAssumption DEF Before
  <2> QED
    BY <2>4, <2>5, <2>6
<1> QED
  BY <1>3, <1>4, <1>5, <1>6

-------------------------------------------------------------------------------
(* Base address registers *)

\* What the firmware assigned to a base register.
LEMMA Assignments ==
  ASSUME NEW d \in Devices, NEW n \in Bars
  PROVE  /\ d.resource[n] \in Resource
         /\ d.resource[n].kind = "io" => d.resource[n].high = 0 /\ d.resource[n].low % 4 = 0
         /\ d.resource[n].kind = "mem32" =>
              d.resource[n].high = 0 /\ d.resource[n].low % 16 = 0 /\ d.resource[n].low > 0
         /\ d.resource[n].kind = "mem64" =>
              d.resource[n].low % 16 = 0 /\ n + 1 \in Bars /\ d.resource[n + 1].kind = "none"
BY DeviceAssumption, Zenon DEF Assigned

\* The value a base register reads as.
LEMMA Registers ==
  ASSUME NEW d \in Devices, NEW n \in 0 .. NBar
  PROVE  Register(d, n) \in Nat
<1>1. \A m \in Bars : d.resource[m] \in Resource
  BY Assignments
<1>2. ASSUME NEW r \in Resource PROVE r.high \in Nat /\ Presented(r) \in Nat
  BY DEF Resource, Presented
<1>3. n > 0 => n - 1 \in Bars
  BY PciAssumption DEF Bars
<1> QED
  BY <1>1, <1>2, <1>3 DEF Register

\* pci_read_bar gives an address, and undoes what the function did to its own.
LEMMA ReadBack ==
  ASSUME NEW d \in Devices, NEW n \in Bars
  PROVE  /\ pci_read_bar(d, n) \in Address
         /\ d.resource[n].kind # "none" =>
              /\ Register(d, n) # 0
              /\ pci_read_bar(d, n) = <<d.resource[n].high, d.resource[n].low>>
<1>1. n \in 0 .. NBar /\ n + 1 \in 0 .. NBar /\ (n + 1) - 1 = n /\ n + 1 > 0 /\ d.resource[n] \in Resource
  BY PciAssumption, Assignments DEF Bars
<1>2. Register(d, n) \in Nat /\ Register(d, n + 1) \in Nat
  BY <1>1, Registers
<1>3. pci_read_bar(d, n) \in Address
  BY <1>2 DEF pci_read_bar, Address
<1>4. ASSUME d.resource[n].kind # "none" PROVE Register(d, n) = Presented(d.resource[n])
  <2>1. ASSUME n > 0, d.resource[n - 1].kind = "mem64" PROVE FALSE
    <3>1. n - 1 \in Bars /\ (n - 1) + 1 = n
      BY <1>1, <2>1, PciAssumption DEF Bars
    <3>2. d.resource[(n - 1) + 1].kind = "none"
      BY <2>1, <3>1, Assignments
    <3> QED
      BY <1>4, <3>1, <3>2
  <2> QED
    BY <2>1 DEF Register
<1> DEFINE r == d.resource[n]
           low == Register(d, n)
<1>5. r.high \in Nat /\ r.low \in Nat
  BY <1>1 DEF Resource
<1>6. CASE r.kind = "io"
  <2>1. r.high = 0 /\ r.low % 4 = 0 /\ low = r.low + 1
    BY <1>4, <1>6, Assignments DEF Presented
  <2> HIDE DEF low, r
  <2>2. low % 2 = 1 /\ low - (low % 4) = r.low /\ low # 0
    BY <1>5, <2>1
  <2> QED
    BY <1>3, <2>1, <2>2 DEF pci_read_bar, low, r
<1>7. CASE r.kind = "mem32"
  <2>1. r.high = 0 /\ r.low % 16 = 0 /\ r.low > 0 /\ low = r.low
    BY <1>4, <1>7, Assignments DEF Presented
  <2> HIDE DEF low, r
  <2>2. low % 2 = 0 /\ low - (low % 16) = r.low /\ low # 0
    BY <1>5, <2>1
  <2>3. (low \div 2) % 4 = 0
    BY <1>5, <2>1
  <2> QED
    BY <1>3, <2>1, <2>2, <2>3 DEF pci_read_bar, low, r
<1>8. CASE r.kind = "mem64"
  <2>1. r.low % 16 = 0 /\ low = r.low + 4
    BY <1>4, <1>8, Assignments DEF Presented
  <2>2. Register(d, n + 1) = r.high
    BY <1>1, <1>8 DEF Register
  <2> HIDE DEF low, r
  <2>3. low % 2 = 0 /\ (low \div 2) % 4 = 2 /\ low - (low % 16) = r.low /\ low # 0
    BY <1>5, <2>1
  <2> QED
    BY <1>3, <2>2, <2>3 DEF pci_read_bar, low, r
<1> QED
  BY <1>1, <1>3, <1>6, <1>7, <1>8 DEF Resource

\* A function more: its registers that are not zero replace what was there.
LEMMA Grows ==
  ASSUME NEW config, NEW n, NEW S, NEW old, NEW new, NEW x, NEW T,
         BarFrom(config, old, n, S), \A t \in S : Before(t, x),
         \A t : t \in T <=> t \in S \/ t = x,
         new = IF Register(config[x], n) = 0 THEN old ELSE pci_read_bar(config[x], n)
  PROVE  BarFrom(config, new, n, T)
<1> DEFINE filled(U) == {s \in U : Register(config[s], n) # 0}
<1>1. CASE Register(config[x], n) = 0
  <2>1. filled(T) = filled(S)
    BY <1>1
  <2> QED
    BY <1>1, <2>1 DEF BarFrom
<1>2. CASE Register(config[x], n) # 0
  <2>1. x \in filled(T) /\ \A t \in filled(T) : t = x \/ Before(t, x)
    BY <1>2
  <2> QED
    BY <1>2, <2>1 DEF BarFrom
<1> QED
  BY <1>1, <1>2

\* The register of the latest function is its own.
LEMMA OwnLatest ==
  ASSUME NEW config, NEW n, NEW bar, NEW x \in Slots, NEW T \in SUBSET Slots,
         BarFrom(config, bar, n, T), x \in T, \A t \in T : t = x \/ Before(t, x), Register(config[x], n) # 0
  PROVE  bar = pci_read_bar(config[x], n)
<1>1. PICK s \in T : /\ \A t \in T : Register(config[t], n) # 0 => t = s \/ Before(t, s)
                     /\ bar = pci_read_bar(config[s], n)
  BY DEF BarFrom
<1>2. s = x
  BY <1>1, Asymmetric
<1> QED
  BY <1>1, <1>2

-------------------------------------------------------------------------------
(* The steps *)

\* The scan changes nothing of the machine it looks at.
LEMMA MachineKept == Next => machine' = machine
BY DEF Next, AchiInit, HdaInit, ParseAcpi, SkipFunction, ReadFunction, Offer, FunctionDone, ScanDone

\* load_drivers registers the two drivers, and nobody else does.
LEMMA RegisteredStep == ASSUME Inv, Next PROVE Registered'
<1> USE PciAssumption DEF Registered
<1>0. TypeOK /\ Registered
  BY DEF Inv
<1>1. CASE AchiInit
  <2>1. registered_drivers' = <<"achi">> /\ driver_count' = 1
    BY <1>0, <1>1 DEF AchiInit, RegisterDriver
  <2> QED
    BY <1>0, <1>1, <2>1 DEF AchiInit, scan
<1>2. CASE HdaInit
  <2>1. registered_drivers' = <<"achi", "hda">> /\ driver_count' = 2
    BY <1>0, <1>2 DEF HdaInit, RegisterDriver
  <2> QED
    BY <1>0, <1>2, <2>1 DEF HdaInit, scan
<1>3. CASE ParseAcpi
  BY <1>0, <1>3 DEF ParseAcpi, scan
<1>4. CASE SkipFunction
  <2>1. pc' = "get_drivers" /\ registered_drivers' = registered_drivers /\ driver_count' = driver_count
    BY <1>4 DEF SkipFunction
  <2>2. bus' = NBus => device' = 0 /\ function' = 0
    BY <1>0, <1>4, Advances DEF SkipFunction
  <2> QED
    BY <1>0, <1>4, <2>1, <2>2 DEF SkipFunction
<1>5. CASE ReadFunction \/ Offer \/ ScanDone
  BY <1>0, <1>5, Zenon DEF ReadFunction, Offer, ScanDone, scan
<1>6. CASE FunctionDone
  <2>1. /\ pc = "offer" /\ pc' = "get_drivers"
        /\ registered_drivers' = registered_drivers /\ driver_count' = driver_count
    BY <1>6 DEF FunctionDone
  <2>2. bus < NBus
    BY <1>0, <2>1, AtHere DEF Inv, OnOffer
  <2>3. bus' = NBus => device' = 0 /\ function' = 0
    BY <1>0, <1>6, <2>2, Advances DEF FunctionDone
  <2> QED
    BY <1>0, <2>1, <2>3
<1> QED
  BY <1>1, <1>2, <1>3, <1>4, <1>5, <1>6, Zenon DEF Next

\* The types.
LEMMA TypeStep == ASSUME Inv, Next PROVE TypeOK'
<1>0. /\ TypeOK /\ Registered /\ Registered' /\ machine.config \in [Slots -> Devices \cup {Absent}]
      /\ pc = "offer" => bus < NBus
  BY RegisteredStep, AtHere DEF Inv, OnOffer
<1>1. /\ driver_count' \in 0 .. MAX_DRIVERS /\ registered_drivers' \in [1 .. driver_count' -> Drivers]
  <2>1. \/ registered_drivers' = <<>> /\ driver_count' = 0
        \/ registered_drivers' = <<"achi">> /\ driver_count' = 1
        \/ registered_drivers' = <<"achi", "hda">> /\ driver_count' = 2
    <3>1. driver_count' = Len(registered_drivers')
      BY <1>0 DEF Registered
    <3>2. CASE pc' = "achi_init"
      BY <1>0, <3>1, <3>2 DEF Registered
    <3>3. CASE pc' = "hda_init"
      BY <1>0, <3>1, <3>3 DEF Registered
    <3>4. CASE pc' # "achi_init" /\ pc' # "hda_init"
      <4>1. registered_drivers' = <<"achi", "hda">>
        BY <1>0, <3>4 DEF Registered
      <4> QED
        BY <3>1, <4>1
    <3> QED
      BY <3>2, <3>3, <3>4
  <2>2. <<>> \in [1 .. 0 -> Drivers] /\ <<"achi">> \in [1 .. 1 -> Drivers] /\ <<"achi", "hda">> \in [1 .. 2 -> Drivers]
    BY DEF Drivers
  <2>3. {0, 1, 2} \subseteq 0 .. MAX_DRIVERS
    BY PciAssumption
  <2> QED
    BY <2>1, <2>2, <2>3, Zenon
<1>2. pc' \in {"achi_init", "hda_init", "parse_acpi", "get_drivers", "offer", "done", "panic"}
  BY <1>0 DEF TypeOK, Next, AchiInit, HdaInit, ParseAcpi, SkipFunction, ReadFunction, Offer, FunctionDone, ScanDone
<1>3. bus' \in 0 .. NBus /\ device' \in 0 .. NDevice - 1 /\ function' \in 0 .. NFunction - 1
  <2>1. CASE Advance /\ bus < NBus
    BY <1>0, <2>1, Advances
  <2>2. CASE UNCHANGED <<bus, device, function>>
    BY <1>0, <2>2 DEF TypeOK
  <2> QED
    BY <1>0, <2>1, <2>2, Zenon
    DEF Next, AchiInit, HdaInit, ParseAcpi, SkipFunction, ReadFunction, Offer, FunctionDone, ScanDone, scan
<1>4. /\ probe_pci'.at \in Slots
      /\ \A n \in Bars : probe_pci'.bar[n] = Junk \/ probe_pci'.bar[n] \in Address
  <2>1. CASE ReadFunction
    <3>1. Here \in Slots /\ machine.config[Here] \in Devices
      BY <1>0, <2>1, AtHere DEF ReadFunction
    <3>2. probe_pci'.at = Here /\ probe_pci'.bar = get_bars(probe_pci.bar, machine.config[Here])
      BY <2>1 DEF ReadFunction
    <3> QED
      BY <1>0, <3>1, <3>2, ReadBack DEF get_bars, TypeOK
  <2>2. CASE probe_pci' = probe_pci
    BY <1>0, <2>2 DEF TypeOK
  <2> QED
    BY <2>1, <2>2, Zenon
    DEF Next, AchiInit, HdaInit, ParseAcpi, SkipFunction, Offer, FunctionDone, ScanDone, scan
<1>5. i' \in 0 .. driver_count'
  <2>1. i \in 0 .. driver_count /\ driver_count \in Nat
    BY <1>0 DEF TypeOK
  <2>2. CASE AchiInit \/ HdaInit
    BY <2>1, <2>2 DEF AchiInit, HdaInit, RegisterDriver, scan
  <2>3. CASE ReadFunction \/ Offer
    BY <2>1, <2>3 DEF ReadFunction, Offer
  <2>4. CASE i' = i /\ driver_count' = driver_count
    BY <2>1, <2>4
  <2> QED
    BY <2>2, <2>3, <2>4, Zenon DEF Next, ParseAcpi, SkipFunction, FunctionDone, ScanDone, scan
<1>6. driver' \in BOOLEAN
  <2>1. driver \in BOOLEAN
    BY <1>0 DEF TypeOK
  <2>2. driver' = driver \/ driver' = TRUE \/ driver' = FALSE
    BY DEF Next, AchiInit, HdaInit, ParseAcpi, SkipFunction, ReadFunction, Offer, FunctionDone, ScanDone, scan
  <2> QED
    BY <2>1, <2>2, Zenon
<1>7. attached' \subseteq Slots \X Drivers /\ unclaimed' \subseteq Slots
  <2>1. attached \subseteq Slots \X Drivers /\ unclaimed \subseteq Slots /\ probe_pci.at \in Slots
    BY <1>0 DEF TypeOK
  <2>2. CASE Offer
    <3>1. i + 1 \in 1 .. driver_count
      BY <1>0, <2>2 DEF Offer, TypeOK
    <3>2. registered_drivers[i + 1] \in Drivers
      BY <1>0, <3>1 DEF TypeOK
    <3> QED
      BY <2>1, <2>2, <3>2 DEF Offer
  <2>3. CASE FunctionDone
    BY <2>1, <2>3 DEF FunctionDone
  <2>4. CASE attached' = attached /\ unclaimed' = unclaimed
    BY <2>1, <2>4
  <2> QED
    BY <2>2, <2>3, <2>4, Zenon DEF Next, AchiInit, HdaInit, ParseAcpi, SkipFunction, ReadFunction, ScanDone, scan
<1> QED
  BY <1>1, <1>2, <1>3, <1>4, <1>5, <1>6, <1>7 DEF TypeOK

\* The windows: each one read lies behind the ones before.
LEMMA WindowsStep == ASSUME Inv, Next PROVE WindowsInOrder'
<1>0. /\ TypeOK /\ Registered /\ WindowsInOrder /\ machine' = machine
      /\ pc = "offer" => bus < NBus
      /\ machine.revision \in Nat
  BY MachineKept, AtHere DEF Inv, OnOffer
<1>1. ASSUME windows' = windows, Position' = Position,
             pc' \in {"get_drivers", "offer"} =>
               machine.revision <= 1 /\ machine.rsdp /\ machine.rsdt /\ machine.mcfg,
             pc = "offer" => pc' = "offer"
      PROVE  WindowsInOrder'
  BY <1>0, <1>1 DEF WindowsInOrder
<1>2. CASE AchiInit \/ HdaInit \/ ScanDone
  <2>1. pc' \notin {"get_drivers", "offer"} /\ pc # "offer" /\ windows' = windows /\ Position' = Position
    BY <1>2 DEF AchiInit, HdaInit, ScanDone, scan, Position
  <2> QED
    BY <1>1, <2>1
<1>3. CASE ParseAcpi
  <2>1. pc # "offer" /\ windows' = windows /\ Position' = Position
    BY <1>3 DEF ParseAcpi, scan, Position
  <2>2. CASE machine.revision > 1
    <3>1. pc' = "done"
      BY <1>0, <1>3, <2>2 DEF ParseAcpi
    <3> QED
      BY <1>1, <2>1, <3>1
  <2>3. CASE machine.revision <= 1 /\ ~(machine.rsdp /\ machine.rsdt)
    <3>1. pc' = "panic"
      BY <1>0, <1>3, <2>3 DEF ParseAcpi
    <3> QED
      BY <1>1, <2>1, <3>1
  <2>4. CASE machine.revision <= 1 /\ machine.rsdp /\ machine.rsdt
    <3>1. pc' = IF machine.mcfg THEN "get_drivers" ELSE "done"
      BY <1>0, <1>3, <2>4 DEF ParseAcpi
    <3> QED
      BY <1>1, <2>1, <2>4, <3>1
  <2> QED
    BY <1>0, <2>2, <2>3, <2>4
<1>4. CASE Offer
  <2>1. pc = "offer" /\ pc' = "offer" /\ windows' = windows /\ Position' = Position
    BY <1>4 DEF Offer, Position
  <2> QED
    BY <1>0, <1>1, <2>1 DEF WindowsInOrder
<1>5. /\ bus \in Int /\ device \in Int /\ function \in Int /\ Position \in Int
      /\ bus < NBus => Position \in 0 .. NBus * 1048576 - 1 /\ pci_config(bus, device, function) = Position
  <2>1. bus \in 0 .. NBus /\ device \in 0 .. NDevice - 1 /\ function \in 0 .. NFunction - 1
    BY <1>0 DEF TypeOK
  <2>2. Position \in Int
    BY <2>1, PciAssumption DEF Position
  <2>3. ASSUME bus < NBus PROVE Position \in 0 .. NBus * 1048576 - 1
    BY <2>1, <2>3, PciAssumption DEF Position
  <2>4. ASSUME bus < NBus PROVE bus % NBus = bus
    BY <2>1, <2>4, Round, PciAssumption
  <2> QED
    BY <2>1, <2>2, <2>3, <2>4, PciAssumption DEF pci_config, Position
<1>6. windows \in Seq(0 .. NBus * 1048576 - 1) /\ \A j \in DOMAIN windows : windows[j] \in Int
  BY <1>0, PciAssumption DEF WindowsInOrder
<1>7. ASSUME pc = "get_drivers", bus < NBus, windows' = Append(windows, pci_config(bus, device, function)),
             Position' \in Int, Position' > Position \/ (pc' = "offer" /\ Position' = Position)
      PROVE  WindowsInOrder'
  <2>1. windows' = Append(windows, Position)
    BY <1>5, <1>7
  <2>2. /\ windows' \in Seq(0 .. NBus * 1048576 - 1) /\ Len(windows') = Len(windows) + 1
        /\ DOMAIN windows = 1 .. Len(windows) /\ DOMAIN windows' = 1 .. Len(windows) + 1 /\ Len(windows) \in Nat
    BY <1>5, <1>6, <1>7, <2>1
  <2>3. windows'[Len(windows) + 1] = Position /\ \A j \in DOMAIN windows : windows'[j] = windows[j]
    BY <1>6, <2>1, <2>2
  <2>4. \A j \in DOMAIN windows : windows[j] < Position
    BY <1>0, <1>7 DEF WindowsInOrder
  <2>5. \A j, k \in DOMAIN windows' : j < k => windows'[j] < windows'[k]
    <3> SUFFICES ASSUME NEW j \in DOMAIN windows', NEW k \in DOMAIN windows', j < k PROVE windows'[j] < windows'[k]
      OBVIOUS
    <3>1. j \in DOMAIN windows /\ (k \in DOMAIN windows \/ k = Len(windows) + 1)
      BY <2>2
    <3> QED
      BY <1>0, <2>3, <2>4, <3>1 DEF WindowsInOrder
  <2>6. \A j \in DOMAIN windows' : windows'[j] < Position' \/ (pc' = "offer" /\ windows'[j] = Position')
    <3> SUFFICES ASSUME NEW j \in DOMAIN windows'
                 PROVE  windows'[j] < Position' \/ (pc' = "offer" /\ windows'[j] = Position')
      OBVIOUS
    <3>1. j \in DOMAIN windows \/ j = Len(windows) + 1
      BY <2>2
    <3> QED
      BY <1>5, <1>6, <1>7, <2>3, <2>4, <3>1
  <2>7. machine'.revision <= 1 /\ machine'.rsdp /\ machine'.rsdt /\ machine'.mcfg
    BY <1>0, <1>7 DEF WindowsInOrder
  <2> QED
    BY <2>2, <2>5, <2>6, <2>7 DEF WindowsInOrder
<1>8. CASE SkipFunction
  <2>1. Advance /\ pc = "get_drivers" /\ bus < NBus /\ windows' = Append(windows, pci_config(bus, device, function))
    BY <1>8 DEF SkipFunction
  <2>2. Position' > Position /\ Position' \in Int
    <3>1. bus' \in Int /\ device' \in Int /\ function' \in Int
      BY <1>0, <2>1, Advances, PciAssumption
    <3> QED
      BY <1>0, <2>1, <3>1, Advances DEF Position
  <2> QED
    BY <1>7, <2>1, <2>2
<1>9. CASE ReadFunction
  <2>1. /\ pc = "get_drivers" /\ pc' = "offer" /\ bus < NBus
        /\ windows' = Append(windows, pci_config(bus, device, function)) /\ Position' = Position
    BY <1>9 DEF ReadFunction, Position
  <2> QED
    BY <1>5, <1>7, <2>1
<1>10. CASE FunctionDone
  <2>1. Advance /\ pc = "offer" /\ pc' = "get_drivers" /\ bus < NBus /\ windows' = windows
    BY <1>0, <1>10 DEF FunctionDone
  <2>2. Position' > Position /\ Position' \in Int
    <3>1. bus' \in Int /\ device' \in Int /\ function' \in Int
      BY <1>0, <2>1, Advances, PciAssumption
    <3> QED
      BY <1>0, <2>1, <3>1, Advances DEF Position
  <2>3. \A j \in DOMAIN windows : windows[j] < Position'
    BY <1>0, <1>5, <1>6, <2>2 DEF WindowsInOrder
  <2> QED
    BY <1>0, <2>1, <2>3 DEF WindowsInOrder
<1> QED
  BY <1>2, <1>3, <1>4, <1>8, <1>9, <1>10, Zenon DEF Next

\* The record on offer is the function's that the scan is at.
LEMMA OfferStep == ASSUME Inv, Next PROVE OnOffer'
<1>0. TypeOK /\ OnOffer /\ machine' = machine
  BY MachineKept DEF Inv
<1>1. CASE ReadFunction
  <2>1. Here \in Slots /\ machine.config[Here] # Absent /\ Here' = Here
    BY <1>0, <1>1, AtHere DEF ReadFunction, Here
  <2>2. /\ probe_pci'.at = Here
        /\ probe_pci'.class = machine.config[Here].class
        /\ probe_pci'.subclass = machine.config[Here].subclass
        /\ probe_pci'.prog_if = machine.config[Here].prog_if
    BY <1>1 DEF ReadFunction
  <2> QED
    BY <1>0, <2>1, <2>2 DEF OnOffer
<1>2. CASE Offer
  <2>1. pc = "offer" /\ Here' = Here /\ probe_pci' = probe_pci
    BY <1>2 DEF Offer, Here
  <2> QED
    BY <1>0, <2>1 DEF OnOffer
<1>3. CASE pc' # "offer"
  BY <1>3 DEF OnOffer
<1>4. pc = "parse_acpi" /\ ParseAcpi => pc' # "offer"
  BY SMT DEF ParseAcpi
<1> QED
  BY <1>1, <1>2, <1>3, <1>4, SMT DEF Next, AchiInit, HdaInit, ParseAcpi, SkipFunction, FunctionDone, ScanDone

\* The functions passed.
LEMMA PassedStep ==
  ASSUME Inv, Next
  PROVE  /\ FunctionDone => \A s : s \in Passed' <=> s \in Passed \/ s = Here
         /\ ~FunctionDone => Passed' = Passed
<1>0. TypeOK /\ machine' = machine /\ (pc = "offer" => Here \in Slots /\ machine.config[Here] # Absent)
  BY MachineKept DEF Inv, OnOffer
<1>1. ASSUME SkipFunction PROVE Passed' = Passed
  <2>1. Advance /\ bus < NBus /\ machine.config[Here] = Absent
    BY <1>1 DEF SkipFunction
  <2>2. \A s \in Slots : Before(s, Here') <=> Before(s, Here) \/ s = Here
    BY <1>0, <2>1, Advances
  <2> QED
    BY <1>0, <2>1, <2>2 DEF Passed
<1>2. ASSUME FunctionDone PROVE \A s : s \in Passed' <=> s \in Passed \/ s = Here
  <2>1. Advance /\ pc = "offer"
    BY <1>2 DEF FunctionDone
  <2>2. bus < NBus
    BY <1>0, <2>1, AtHere
  <2>3. \A s \in Slots : Before(s, Here') <=> Before(s, Here) \/ s = Here
    BY <1>0, <2>1, <2>2, Advances
  <2> QED
    BY <1>0, <2>1, <2>3 DEF Passed
<1>3. ASSUME ~SkipFunction, ~FunctionDone PROVE Passed' = Passed
  <2>1. Here' = Here
    BY <1>3, Zenon DEF Next, AchiInit, HdaInit, ParseAcpi, ReadFunction, Offer, ScanDone, scan, Here
  <2> QED
    BY <1>0, <2>1 DEF Passed
<1> QED
  BY <1>1, <1>2, <1>3

\* Which driver has asked for the function on offer.
LEMMA Probed ==
  ASSUME Inv, Offer
  PROVE  /\ registered_drivers[i + 1] = IF i = 0 THEN "achi" ELSE "hda"
         /\ i \in {0, 1} /\ i' = i + 1
         /\ \A d \in Drivers : Asked(d)' <=> Asked(d) \/ d = registered_drivers[i + 1]
         /\ probe(registered_drivers[i + 1], probe_pci) <=>
              machine.config[Here].driver = registered_drivers[i + 1]
<1>1. pc = "offer" /\ i < driver_count /\ i' = i + 1
  BY DEF Offer
<1>2. registered_drivers = <<"achi", "hda">> /\ driver_count = 2
  <2>1. registered_drivers = <<"achi", "hda">>
    BY <1>1 DEF Inv, Registered
  <2> QED
    BY <2>1 DEF Inv, Registered
<1>3. i \in {0, 1}
  BY <1>1, <1>2 DEF Inv, TypeOK
<1>4. registered_drivers[i + 1] = IF i = 0 THEN "achi" ELSE "hda"
  BY <1>2, <1>3
<1>5. \A d \in Drivers : Asked(d)' <=> Asked(d) \/ d = registered_drivers[i + 1]
  BY <1>1, <1>3, <1>4 DEF Asked, Drivers
<1>6. machine.config[Here] \in Devices
  BY <1>1 DEF Inv, OnOffer
<1>7. MadeFor(machine.config[Here])
  BY <1>6, DeviceAssumption
<1>8. /\ probe_pci.class = machine.config[Here].class /\ probe_pci.subclass = machine.config[Here].subclass
      /\ probe_pci.prog_if = machine.config[Here].prog_if
  BY <1>1 DEF Inv, OnOffer
<1>9. probe(registered_drivers[i + 1], probe_pci) <=> machine.config[Here].driver = registered_drivers[i + 1]
  BY <1>4, <1>7, <1>8 DEF probe, MadeFor
<1> QED
  BY <1>1, <1>3, <1>4, <1>5, <1>9

\* A function is settled when every driver has been asked.
LEMMA SettledStep == ASSUME Inv, Next PROVE SettledSoFar'
<1>0. /\ TypeOK /\ SettledSoFar /\ machine' = machine
      /\ pc = "offer" => Here \in Slots /\ machine.config[Here] # Absent /\ probe_pci.at = Here /\ Here \notin Passed
  <2>1. \A s \in Slots : ~Before(s, s)
    BY SlotParts, PciAssumption DEF Before
  <2> QED
    BY <2>1, MachineKept DEF Inv, OnOffer, Passed
<1>1. ASSUME Passed' = Passed, UNCHANGED <<attached, unclaimed>>, pc # "offer", pc' # "offer" PROVE SettledSoFar'
  BY <1>0, <1>1 DEF SettledSoFar
<1>2. CASE AchiInit \/ HdaInit \/ ParseAcpi \/ SkipFunction \/ ScanDone
  <2>1. ParseAcpi => pc' # "offer"
    BY SMT DEF ParseAcpi
  <2>2. UNCHANGED <<attached, unclaimed>> /\ pc # "offer" /\ pc' # "offer"
    BY <1>2, <2>1, SMT DEF AchiInit, HdaInit, ParseAcpi, SkipFunction, ScanDone, scan
  <2>3. ~FunctionDone
    BY <2>2 DEF FunctionDone
  <2> QED
    BY <1>1, <2>2, <2>3, PassedStep
<1>3. CASE ReadFunction
  <2>1. /\ pc # "offer" /\ pc' = "offer" /\ i' = 0 /\ driver' = FALSE /\ UNCHANGED <<attached, unclaimed>> /\ Here' = Here
    BY <1>3 DEF ReadFunction, Here
  <2>2. Passed' = Passed
    BY <2>1, PassedStep DEF FunctionDone
  <2>3. \A d : ~Asked(d)'
    BY <2>1 DEF Asked
  <2> QED
    BY <1>0, <2>1, <2>2, <2>3 DEF SettledSoFar
<1>4. CASE Offer
  <2> DEFINE x == registered_drivers[i + 1]
             mine == machine.config[Here].driver
  <2>1. /\ pc = "offer" /\ pc' = "offer" /\ Here' = Here /\ unclaimed' = unclaimed
        /\ attached' = IF probe(x, probe_pci) THEN attached \cup {<<Here, x>>} ELSE attached
        /\ driver' = IF probe(x, probe_pci) THEN TRUE ELSE driver
    BY <1>0, <1>4, Zenon DEF Offer, Here
  <2>2. /\ x \in Drivers /\ (probe(x, probe_pci) <=> mine = x)
        /\ \A d \in Drivers : Asked(d)' <=> Asked(d) \/ d = x
    BY <1>4, Probed DEF Drivers
  <2>3. Passed' = Passed
    BY <2>1, PassedStep DEF FunctionDone
  <2> HIDE DEF x
  <2>4. ASSUME NEW s \in Slots, NEW d \in Drivers
        PROVE  <<s, d>> \in attached' <=>
                 /\ s \in Passed \/ (s = Here /\ Asked(d)')
                 /\ machine.config[s].driver = d
    <3>1. <<s, d>> \in attached <=> /\ s \in Passed \/ (s = Here /\ Asked(d))
                                   /\ machine.config[s].driver = d
      BY <1>0, <2>1 DEF SettledSoFar
    <3>2. <<s, d>> \in attached' <=> <<s, d>> \in attached \/ (s = Here /\ d = x /\ mine = x)
      BY <2>1, <2>2
    <3> QED
      BY <2>2, <3>1, <3>2, Zenon
  <2>5. driver' <=> \E d \in Drivers : Asked(d)' /\ mine = d
    <3>1. driver <=> \E d \in Drivers : Asked(d) /\ mine = d
      BY <1>0, <2>1 DEF SettledSoFar
    <3>2. driver' <=> driver \/ mine = x
      BY <2>1, <2>2, Zenon
    <3> QED
      BY <2>2, <3>1, <3>2, Zenon
  <2>6. \A s \in Slots : s \in unclaimed <=> s \in Passed /\ machine.config[s].driver \notin Drivers
    BY <1>0 DEF SettledSoFar
  <2> QED
    BY <1>0, <2>1, <2>3, <2>4, <2>5, <2>6 DEF SettledSoFar
<1>5. CASE FunctionDone
  <2>1. /\ pc = "offer" /\ pc' = "get_drivers" /\ i = driver_count /\ attached' = attached
        /\ unclaimed' = IF driver THEN unclaimed ELSE unclaimed \cup {Here}
    BY <1>0, <1>5 DEF FunctionDone
  <2>2. \A d \in Drivers : Asked(d)
    <3>1. registered_drivers = <<"achi", "hda">> /\ driver_count = Len(registered_drivers)
      BY <2>1 DEF Inv, Registered
    <3>2. i = 2
      BY <2>1, <3>1
    <3> QED
      BY <3>2 DEF Asked, Drivers
  <2>3. \A s : s \in Passed' <=> s \in Passed \/ s = Here
    BY <1>5, PassedStep
  <2>4. ASSUME NEW s \in Slots, NEW d \in Drivers
        PROVE  <<s, d>> \in attached' <=> s \in Passed' /\ machine.config[s].driver = d
    BY <1>0, <2>1, <2>2, <2>3, Zenon DEF SettledSoFar
  <2>5. driver <=> machine.config[Here].driver \in Drivers
    BY <1>0, <2>1, <2>2, Zenon DEF SettledSoFar
  <2>6. ASSUME NEW s \in Slots
        PROVE  s \in unclaimed' <=> s \in Passed' /\ machine.config[s].driver \notin Drivers
    <3>1. s \in unclaimed <=> s \in Passed /\ machine.config[s].driver \notin Drivers
      BY <1>0 DEF SettledSoFar
    <3>2. s \in unclaimed' <=> s \in unclaimed \/ (s = Here /\ ~driver)
      BY <2>1
    <3> QED
      BY <1>0, <2>1, <2>3, <2>5, <3>1, <3>2, Zenon
  <2> QED
    BY <1>0, <2>1, <2>4, <2>6 DEF SettledSoFar
<1> QED
  BY <1>2, <1>3, <1>4, <1>5, Zenon DEF Next

\* The record's addresses.
LEMMA BarsStep == ASSUME Inv, Next PROVE BarsSoFar'
<1>0. /\ TypeOK /\ BarsSoFar /\ machine' = machine
      /\ pc = "offer" => Here \in Slots /\ machine.config[Here] # Absent
  BY MachineKept DEF Inv, OnOffer
<1> SUFFICES ASSUME NEW n \in Bars
             PROVE  /\ pc' = "get_drivers" => BarFrom(machine.config, probe_pci'.bar[n], n, Passed')
                    /\ pc' = "offer" => BarFrom(machine.config, probe_pci'.bar[n], n, UpTo(Here)')
  BY <1>0 DEF BarsSoFar
<1>1. CASE AchiInit \/ HdaInit \/ ScanDone
  BY <1>1 DEF AchiInit, HdaInit, ScanDone
<1>2. CASE ParseAcpi
  <2>1. pc = "parse_acpi" /\ probe_pci' = probe_pci /\ bus = 0 /\ device = 0 /\ function = 0 /\ probe_pci.bar[n] = Junk
    BY <1>2 DEF ParseAcpi, scan, Inv, Registered
  <2>2. pc' # "offer"
    BY <1>2, SMT DEF ParseAcpi
  <2>3. Passed' = Passed
    BY <2>1, PassedStep DEF FunctionDone
  <2>4. Passed = {}
    BY <2>1, SlotParts, PciAssumption DEF Passed, Here, Before
  <2> QED
    BY <2>1, <2>2, <2>3, <2>4 DEF BarFrom
<1>3. CASE SkipFunction
  <2>1. pc = "get_drivers" /\ pc' = "get_drivers" /\ probe_pci' = probe_pci
    BY <1>3 DEF SkipFunction
  <2>2. Passed' = Passed
    BY <2>1, PassedStep DEF FunctionDone
  <2> QED
    BY <1>0, <2>1, <2>2 DEF BarsSoFar
<1>4. CASE ReadFunction
  <2>1. /\ pc = "get_drivers" /\ pc' = "offer" /\ Here' = Here /\ Here \in Slots /\ machine.config[Here] # Absent
        /\ probe_pci'.bar[n] = IF Register(machine.config[Here], n) = 0 THEN probe_pci.bar[n]
                               ELSE pci_read_bar(machine.config[Here], n)
    BY <1>0, <1>4, AtHere DEF ReadFunction, get_bars, Here
  <2>2. \A t : t \in UpTo(Here)' <=> t \in Passed \/ t = Here
    BY <1>0, <2>1 DEF UpTo, Passed
  <2>3. \A t \in Passed : Before(t, Here)
    BY DEF Passed
  <2>4. BarFrom(machine.config, probe_pci.bar[n], n, Passed)
    BY <1>0, <2>1 DEF BarsSoFar
  <2>5. BarFrom(machine.config, probe_pci'.bar[n], n, UpTo(Here)')
    BY <2>1, <2>2, <2>3, <2>4, Grows, Zenon
  <2> QED
    BY <2>1, <2>5
<1>5. CASE Offer
  <2>1. pc = "offer" /\ pc' = "offer" /\ probe_pci' = probe_pci /\ Here' = Here
    BY <1>5 DEF Offer, Here
  <2>2. UpTo(Here)' = UpTo(Here)
    BY <1>0, <2>1 DEF UpTo
  <2> QED
    BY <1>0, <2>1, <2>2 DEF BarsSoFar
<1>6. CASE FunctionDone
  <2>1. pc = "offer" /\ pc' = "get_drivers" /\ probe_pci' = probe_pci
    BY <1>6 DEF FunctionDone
  <2>2. Passed' = UpTo(Here)
    BY <1>0, <1>6, <2>1, PassedStep DEF UpTo, Passed
  <2> QED
    BY <1>0, <2>1, <2>2 DEF BarsSoFar
<1> QED
  BY <1>1, <1>2, <1>3, <1>4, <1>5, <1>6, Zenon DEF Next

\* The machine before load_drivers satisfies the invariant.
LEMMA InitInv == Init => Inv
<1> SUFFICES ASSUME Init PROVE Inv
  OBVIOUS
<1>1. machine.config \in [Slots -> Devices \cup {Absent}] /\ machine.revision \in Nat
  BY DEF Init
<1>2. <<0, 0, 0>> \in Slots /\ Here = <<0, 0, 0>>
  BY PciAssumption DEF Init, Slots, Here
<1>3. TypeOK
  <2>1. <<>> \in [1 .. 0 -> Drivers] /\ 0 \in 0 .. MAX_DRIVERS /\ 0 \in 0 .. 0 /\ 0 \in 0 .. NBus
        /\ 0 \in 0 .. NDevice - 1 /\ 0 \in 0 .. NFunction - 1
    BY PciAssumption
  <2>2. probe_pci.at = <<0, 0, 0>> /\ \A n \in Bars : probe_pci.bar[n] = Junk
    BY DEF Init
  <2>3. driver \in BOOLEAN
    BY Zenon DEF Init
  <2> QED
    BY <1>2, <2>1, <2>2, <2>3, Zenon DEF Init, TypeOK
<1>4. Registered
  BY DEF Init, Registered
<1>5. WindowsInOrder
  BY DEF Init, WindowsInOrder
<1>6. \A s \in Slots : s \notin Passed
  BY <1>2, SlotParts, PciAssumption DEF Passed, Before
<1>7. OnOffer /\ SettledSoFar /\ BarsSoFar
  BY <1>6 DEF Init, OnOffer, SettledSoFar, BarsSoFar
<1> QED
  BY <1>1, <1>3, <1>4, <1>5, <1>7 DEF Inv

\* Every step of load_drivers, parse_acpi and get_drivers preserves the invariant.
LEMMA NextInv == Inv /\ [Next]_vars => Inv'
<1>1. ASSUME Inv, Next PROVE Inv'
  <2>1. TypeOK' /\ Registered' /\ WindowsInOrder' /\ OnOffer' /\ SettledSoFar' /\ BarsSoFar'
    BY <1>1, TypeStep, RegisteredStep, WindowsStep, OfferStep, SettledStep, BarsStep
  <2> QED
    BY <1>1, <2>1, MachineKept DEF Inv
<1>2. ASSUME Inv, UNCHANGED vars PROVE Inv'
  <2>1. TypeOK' /\ Registered'
    BY <1>2 DEF Inv, TypeOK, Registered, vars
  <2>2. WindowsInOrder' /\ OnOffer'
    BY <1>2 DEF Inv, WindowsInOrder, OnOffer, Position, Here, vars
  <2>3. SettledSoFar'
    BY <1>2 DEF Inv, SettledSoFar, Passed, Asked, Here, vars
  <2>4. BarsSoFar'
    BY <1>2, Zenon DEF Inv, BarsSoFar, Passed, UpTo, Here, vars
  <2> QED
    BY <1>2, <2>1, <2>2, <2>3, <2>4 DEF Inv, vars
<1> QED
  BY <1>1, <1>2

\* What the invariant says of a function on offer.
LEMMA OfferedRight == Inv => BarsOnOffer
<1> SUFFICES ASSUME Inv, pc = "offer", NEW n \in Bars
             PROVE  /\ machine.config[Here].resource[n].kind # "none" =>
                         probe_pci.bar[n] = <<machine.config[Here].resource[n].high, machine.config[Here].resource[n].low>>
                    /\ BarFrom(machine.config, probe_pci.bar[n], n, UpTo(Here))
  BY DEF BarsOnOffer, Inv, OnOffer
<1>1. Here \in Slots /\ machine.config[Here] \in Devices /\ machine.config[Here] # Absent
  BY DEF Inv, OnOffer
<1>2. BarFrom(machine.config, probe_pci.bar[n], n, UpTo(Here))
  BY DEF Inv, BarsSoFar
<1>3. UpTo(Here) \in SUBSET Slots /\ Here \in UpTo(Here) /\ \A t \in UpTo(Here) : t = Here \/ Before(t, Here)
  BY <1>1 DEF UpTo
<1>4. ASSUME machine.config[Here].resource[n].kind # "none"
      PROVE  probe_pci.bar[n] = <<machine.config[Here].resource[n].high, machine.config[Here].resource[n].low>>
  BY <1>1, <1>2, <1>3, <1>4, OwnLatest, ReadBack, Zenon
<1> QED
  BY <1>2, <1>4

\* And of the scan when it is over.
LEMMA ScannedRight == Inv => EveryFunctionSettled
<1> SUFFICES ASSUME Inv PROVE EveryFunctionSettled
  OBVIOUS
<1> DEFINE Present == {s \in Slots : machine.config[s] # Absent}
           For(s) == machine.config[s].driver
<1>1. /\ \A j, k \in DOMAIN windows : j < k => windows[j] < windows[k]
      /\ \A j \in DOMAIN windows : windows[j] \in 0 .. NBus * 1048576 - 1
      /\ windows # <<>> => machine.revision <= 1 /\ machine.rsdp /\ machine.rsdt /\ machine.mcfg
  <2>1. WindowsInOrder
    BY DEF Inv
  <2>2. \A j \in DOMAIN windows : windows[j] \in 0 .. NBus * 1048576 - 1
    <3> DEFINE S == 0 .. NBus * 1048576 - 1
    <3>1. windows \in Seq(S)
      BY <2>1 DEF WindowsInOrder
    <3> HIDE DEF S
    <3>2. \A j \in DOMAIN windows : windows[j] \in S
      BY <3>1
    <3> QED
      BY <3>2 DEF S
  <2>3. windows # <<>> => machine.revision <= 1 /\ machine.rsdp /\ machine.rsdt /\ machine.mcfg
    BY <2>1, SMT DEF WindowsInOrder
  <2>4. \A j, k \in DOMAIN windows : j < k => windows[j] < windows[k]
    BY <2>1, SMT DEF WindowsInOrder
  <2> QED
    BY <2>2, <2>3, <2>4
<1>2. ASSUME bus = NBus
      PROVE  /\ attached = {<<s, For(s)>> : s \in {t \in Present : For(t) \in Drivers}}
             /\ unclaimed = {s \in Present : For(s) \notin Drivers}
  <2>1. pc # "offer"
    BY <1>2, AtHere, PciAssumption DEF Inv, OnOffer
  <2>2. Passed = Present
    BY <1>2, AtHere, SlotParts, PciAssumption DEF Passed, Before, Inv
  <2>3. \A s \in Slots, d \in Drivers : <<s, d>> \in attached <=> s \in Present /\ For(s) = d
    BY <2>1, <2>2 DEF Inv, SettledSoFar
  <2>4. attached \subseteq Slots \X Drivers /\ unclaimed \subseteq Slots
    BY DEF Inv, TypeOK
  <2>5. \A s \in Slots : s \in unclaimed <=> s \in Present /\ For(s) \notin Drivers
    BY <2>2 DEF Inv, SettledSoFar
  <2>6. Present \subseteq Slots
    OBVIOUS
  <2> HIDE DEF Present, For
  <2>7. attached = {<<s, For(s)>> : s \in {t \in Present : For(t) \in Drivers}}
    <3>1. ASSUME NEW a \in attached PROVE a \in {<<s, For(s)>> : s \in {t \in Present : For(t) \in Drivers}}
      <4>1. PICK s \in Slots, d \in Drivers : a = <<s, d>>
        BY <2>4, <3>1
      <4> QED
        BY <2>3, <3>1, <4>1
    <3>2. ASSUME NEW s \in Present, For(s) \in Drivers PROVE <<s, For(s)>> \in attached
      BY <2>3, <2>6, <3>2
    <3> QED
      BY <3>1, <3>2
  <2>8. unclaimed = {s \in Present : For(s) \notin Drivers}
    BY <2>4, <2>5, <2>6
  <2> QED
    BY <2>7, <2>8
<1> QED
  BY <1>1, <1>2 DEF EveryFunctionSettled

\* get_drivers reads the configuration windows in order, none twice and none outside the
\* mapped ones, and only behind valid firmware tables; it hands each function to the
\* drivers with its own addresses, and leaves each one with the driver made for it or
\* reported as without one: for any functions in any slots, and although the record
\* the addresses are read into is never cleared.
THEOREM ScanRight == Spec => []DevicesSettled
<1>1. Inv => DevicesSettled
  BY OfferedRight, ScannedRight DEF DevicesSettled, Inv
<1> QED
  BY <1>1, InitInv, NextInv, PTL DEF Spec

-------------------------------------------------------------------------------
(* keyboard_init and keyboard_poll_k *)

\* What is behind a sequence of bytes when more are sent.
LEMMA Appended ==
  ASSUME NEW s \in Seq(Keyboard!Byte), NEW a \in Seq(Keyboard!Byte)
  PROVE  /\ s \o a \in Seq(Keyboard!Byte) /\ Len(s \o a) = Len(s) + Len(a)
         /\ s # <<>> => s \o a # <<>> /\ Head(s \o a) = Head(s)
         /\ s = <<>> => s \o a = a
         /\ Len(s) >= 2 => Len(s \o a) >= 2
OBVIOUS

\* The first byte of what is to be read, and the others.
LEMMA FirstByte ==
  ASSUME NEW s \in Seq(Keyboard!Byte), s # <<>>
  PROVE  Head(s) \in Keyboard!Byte /\ Tail(s) \in Seq(Keyboard!Byte) /\ Len(s) >= 1 /\ Len(Tail(s)) = Len(s) - 1
OBVIOUS

\* There is more behind the first of two bytes.
LEMMA SecondByte ==
  ASSUME NEW s \in Seq(Keyboard!Byte), Len(s) >= 2
  PROVE  Tail(s) # <<>>
<1>1. s # <<>>
  OBVIOUS
<1>2. Len(Tail(s)) = Len(s) - 1 /\ Len(s) \in Nat
  BY <1>1, FirstByte
<1>3. PICK n \in Nat : n = Len(Tail(s)) /\ n >= 1
  BY <1>2
<1>4. n # 0
  <2>1. n >= 1
    BY <1>3, Zenon
  <2> QED
    BY <2>1
<1>5. Len(<<>>) = 0
  OBVIOUS
<1> QED
  BY <1>3, <1>4, <1>5, Zenon

\* The keyboard's answers: one byte or two, and more behind the 0xFA of two of them.
LEMMA AnswerBytes ==
  ASSUME NEW byte \in {"ff", "f0", "00"}, NEW a \in Keyboard!Answers(byte)
  PROVE  /\ a \in Seq(Keyboard!Byte) /\ Len(a) \in 1 .. 2 /\ a # <<>>
         /\ byte # "f0" /\ Head(a) = "fa" => Len(a) = 2
<1>1. Keyboard!Answers("ff") = {<<"fe">>, <<"fa", "aa">>, <<"fa", "fc">>}
  BY SMT DEF Keyboard!Answers
<1>2. Keyboard!Answers("f0") = {<<"fe">>, <<"fa">>}
  BY SMT DEF Keyboard!Answers
<1>3. Keyboard!Answers("00") = {<<"fe">>, <<"fa", "41">>, <<"fa", "02">>}
  BY SMT DEF Keyboard!Answers
<1>4. ASSUME NEW b \in Keyboard!Byte, NEW c \in Keyboard!Byte
      PROVE  /\ <<b>> \in Seq(Keyboard!Byte) /\ Len(<<b>>) = 1 /\ <<b>> # <<>> /\ Head(<<b>>) = b
             /\ <<b, c>> \in Seq(Keyboard!Byte) /\ Len(<<b, c>>) = 2 /\ <<b, c>> # <<>>
  OBVIOUS
<1>5. "fe" # "fa" /\ {"fa", "fe", "aa", "fc", "41", "02"} \subseteq Keyboard!Byte
  BY DEF Keyboard!Byte
<1>6. \/ a = <<"fe">> \/ (byte = "f0" /\ a = <<"fa">>)
      \/ \E c \in {"aa", "fc", "41", "02"} : a = <<"fa", c>>
  <2>1. CASE byte = "ff"
    BY <1>1, <2>1
  <2>2. CASE byte = "f0"
    BY <1>2, <2>2
  <2>3. CASE byte = "00"
    BY <1>3, <2>3
  <2> QED
    BY <2>1, <2>2, <2>3
<1>7. CASE a = <<"fe">>
  BY <1>4, <1>5, <1>7
<1>8. CASE byte = "f0" /\ a = <<"fa">>
  BY <1>4, <1>5, <1>8
<1>9. ASSUME NEW c \in {"aa", "fc", "41", "02"}, a = <<"fa", c>>
      PROVE  a \in Seq(Keyboard!Byte) /\ Len(a) = 2 /\ a # <<>>
  <2>1. c \in Keyboard!Byte
    BY <1>5
  <2> QED
    BY <1>4, <1>5, <1>9, <2>1
<1> QED
  BY <1>6, <1>7, <1>8, <1>9

\* A command that is sent behind the bytes s.
LEMMA Behind ==
  ASSUME NEW s \in Seq(Keyboard!Byte), NEW byte \in {"ff", "f0", "00"}, NEW a \in Keyboard!Answers(byte)
  PROVE  /\ s \o a \in Seq(Keyboard!Byte) /\ s \o a # <<>>
         /\ byte # "f0" /\ Head(s \o a) = "fa" => Len(s \o a) >= 2
<1>1. a \in Seq(Keyboard!Byte) /\ Len(a) \in 1 .. 2 /\ a # <<>> /\ (byte # "f0" /\ Head(a) = "fa" => Len(a) = 2)
  BY AnswerBytes
<1>2. CASE s = <<>>
  <2>1. s \o a = a
    BY <1>1, <1>2, Appended
  <2> QED
    BY <1>1, <2>1
<1>3. CASE s # <<>>
  <2>1. Len(s) >= 1
    BY <1>3
  <2> QED
    BY <1>1, <1>3, <2>1, Appended
<1> QED
  BY <1>2, <1>3

\* The driver as it is before keyboard_init satisfies the invariant.
LEMMA KeyboardStart == Keyboard!KeyboardInit => Keyboard!KeyboardInv
<1> SUFFICES ASSUME Keyboard!KeyboardInit PROVE Keyboard!KeyboardInv
  OBVIOUS
<1>0. PICK sil \in {0, 1} :
        kb = [pc |-> "init", sil |-> sil, attempts |-> 0, discard |-> 0, result |-> "none"]
  BY DEF Keyboard!KeyboardInit
<1>1. Keyboard!KeyboardTypeOK
  <2>1. inited \in BOOLEAN
    BY Zenon DEF Keyboard!KeyboardInit
  <2> QED
  BY <1>0, <2>1 DEF Keyboard!KeyboardInit, Keyboard!KeyboardTypeOK, Keyboard!PauseRest, Keyboard!Pcs, Keyboard!Results,
         Keyboard!Record
<1>4. Keyboard!InitTellsTheTruth
  BY <1>0 DEF Keyboard!KeyboardInit, Keyboard!InitTellsTheTruth
<1>2. Keyboard!AnswerComes
  BY <1>0 DEF Keyboard!KeyboardInit, Keyboard!AnswerComes, Keyboard!Starting
<1>3. Keyboard!Progress /\ Keyboard!Undisturbed
  BY <1>0 DEF Keyboard!KeyboardInit, Keyboard!Progress, Keyboard!Undisturbed, Keyboard!Starting
<1> QED
  BY <1>0, <1>1, <1>2, <1>3, <1>4 DEF Keyboard!KeyboardInv, Keyboard!KbTypes

\* The two commands that are repeated at 0xFE: again, on, or -1.
LEMMA AckStep ==
  ASSUME Keyboard!ResetAck \/ Keyboard!ScancodeAck
  PROVE  /\ out # <<>> /\ latch' = Head(out) /\ UNCHANGED <<dropped, scodeset, inited, keyd, got, typed>>
         /\ \/ /\ Head(out) = "fe" /\ kb.attempts < 3
               /\ kb' = [kb EXCEPT !.attempts = @ + 1]
               /\ \/ kb.pc = "ack ff" /\ \E a \in Keyboard!Answers("ff") : out' = Tail(out) \o a
                  \/ kb.pc = "ack f0" /\ \E a \in Keyboard!Answers("f0") : out' = Tail(out) \o a
            \/ /\ Head(out) = "fa" /\ kb.pc = "ack ff"
               /\ kb' = [kb EXCEPT !.pc = "self test", !.attempts = 0] /\ out' = Tail(out)
            \/ /\ Head(out) = "fa" /\ kb.pc = "ack f0"
               /\ kb' = [kb EXCEPT !.pc = "drop"]
               /\ \E a \in Keyboard!Answers("00") : out' = Tail(out) \o a
            \/ /\ Head(out) # "fa" /\ kb.pc \in {"ack ff", "ack f0"}
               /\ kb' = [kb EXCEPT !.pc = "idle", !.result = "-1"] /\ out' = Tail(out)
<1>1. CASE Keyboard!ResetAck
  BY <1>1, Zenon DEF Keyboard!ResetAck, Keyboard!Ack, Keyboard!Return, Keyboard!quiet
<1>2. CASE Keyboard!ScancodeAck
  BY <1>2, Zenon DEF Keyboard!ScancodeAck, Keyboard!Ack, Keyboard!Return, Keyboard!quiet
<1> QED
  BY <1>1, <1>2

\* The driver's record and counters keep their types: no counter passes its bound.
LEMMA KbTypesStep == ASSUME Keyboard!KbTypes, Keyboard!KeyboardNext PROVE Keyboard!KbTypes'
<1> DEFINE Good == kb' \in Keyboard!Record /\ (kb'.pc = "e1" => kb'.discard > 0)
<1>0. kb \in Keyboard!Record /\ (kb.pc = "e1" => kb.discard > 0) /\ keyd \in 0..255
  BY DEF Keyboard!KbTypes, Keyboard!KeyboardTypeOK, Keyboard!PauseRest
<1>a. inited \in BOOLEAN
  BY Zenon DEF Keyboard!KbTypes, Keyboard!KeyboardTypeOK
<1> SUFFICES Good /\ keyd' \in 0..255 /\ inited' \in BOOLEAN
  BY Zenon DEF Keyboard!KbTypes, Keyboard!KeyboardTypeOK, Keyboard!PauseRest
<1>b. ASSUME NEW p \in Keyboard!Pcs \ {"e1"}, kb' = [kb EXCEPT !.pc = p] PROVE Good
  <2>1. kb' \in Keyboard!Record /\ kb'.pc = p
    BY <1>0, <1>b, Zenon DEF Keyboard!Record
  <2> QED
    BY <2>1, Zenon
<1>c. ASSUME NEW q \in Keyboard!Results, kb' = [kb EXCEPT !.pc = "idle", !.result = q] PROVE Good
  <2>1. "idle" \in Keyboard!Pcs \ {"e1"}
    BY DEF Keyboard!Pcs
  <2> QED
    <3>1. kb' \in Keyboard!Record /\ kb'.pc = "idle"
      BY <1>0, <1>c, <2>1, Zenon DEF Keyboard!Record
    <3> QED
      BY <2>1, <3>1, Zenon
<1>1. CASE Keyboard!Type
  BY <1>0, <1>a, <1>1 DEF Keyboard!Type
<1>2. CASE Keyboard!Assert_sil_chill
  <2>1. inited' = inited /\ keyd' = keyd /\ \E p \in {"ack ff", "panic"} : kb' = [kb EXCEPT !.pc = p]
    BY <1>2, Zenon DEF Keyboard!Assert_sil_chill, Keyboard!quiet
  <2>2. {"ack ff", "panic"} \subseteq Keyboard!Pcs \ {"e1"}
    BY DEF Keyboard!Pcs
  <2> QED
    BY <1>0, <1>a, <1>b, <2>1, <2>2, Zenon
<1>3. CASE Keyboard!ResetAck \/ Keyboard!ScancodeAck
  <2>1. UNCHANGED <<inited, keyd>>
    BY <1>3, AckStep, Zenon
  <2>2. \/ kb.attempts < 3 /\ kb.pc \in {"ack ff", "ack f0"} /\ kb' = [kb EXCEPT !.attempts = @ + 1]
        \/ kb' = [kb EXCEPT !.pc = "self test", !.attempts = 0]
        \/ kb' = [kb EXCEPT !.pc = "drop"]
        \/ kb' = [kb EXCEPT !.pc = "idle", !.result = "-1"]
    BY <1>3, AckStep, Zenon
  <2>3. ASSUME kb.attempts < 3 /\ kb' = [kb EXCEPT !.attempts = @ + 1] PROVE Good
    <3>1. PICK a \in 0..3 : a = kb.attempts + 1
      BY <1>0, <2>3 DEF Keyboard!Record
    <3>2. kb' = [kb EXCEPT !.attempts = a]
      BY <2>3, <3>1, Zenon
    <3> QED
      <4>1. kb' \in Keyboard!Record /\ kb'.pc = kb.pc /\ kb'.discard = kb.discard
        BY <1>0, <3>2, Zenon DEF Keyboard!Record
      <4> QED
        BY <1>0, <4>1, Zenon
  <2>4. ASSUME kb' = [kb EXCEPT !.pc = "self test", !.attempts = 0] PROVE Good
    <3>1. PICK p \in Keyboard!Pcs \ {"e1"} : p = "self test"
      BY DEF Keyboard!Pcs
    <3>2. PICK a \in 0..3 : a = 0
      OBVIOUS
    <3>3. kb' = [kb EXCEPT !.pc = p, !.attempts = a]
      BY <2>4, <3>1, <3>2, Zenon
    <3> QED
      <4>1. kb' \in Keyboard!Record /\ kb'.pc = p
        BY <1>0, <3>3, Zenon DEF Keyboard!Record
      <4> QED
        BY <3>1, <4>1, Zenon
  <2>5. "drop" \in Keyboard!Pcs \ {"e1"} /\ "-1" \in Keyboard!Results
    BY DEF Keyboard!Pcs, Keyboard!Results
  <2>6. Good
    BY <1>b, <1>c, <2>2, <2>3, <2>4, <2>5, Zenon
  <2> QED
    BY <1>0, <1>a, <2>1, <2>6, Zenon
<1>4. CASE Keyboard!SelfTest
  <2>1. /\ inited' = inited /\ keyd' = keyd
        /\ kb' = [kb EXCEPT !.pc = "ack f0"] \/ kb' = [kb EXCEPT !.pc = "idle", !.result = "failed its own test"]
    BY <1>4, Zenon DEF Keyboard!SelfTest, Keyboard!Return, Keyboard!quiet
  <2>2. "ack f0" \in Keyboard!Pcs \ {"e1"} /\ "failed its own test" \in Keyboard!Results
    BY DEF Keyboard!Pcs, Keyboard!Results
  <2> QED
    BY <1>0, <1>a, <1>b, <1>c, <2>1, <2>2, Zenon
<1>5. CASE Keyboard!DropAnswer
  <2>1. inited' = inited /\ keyd' = keyd /\ kb' = [kb EXCEPT !.pc = "set"]
    BY <1>5, Zenon DEF Keyboard!DropAnswer, Keyboard!quiet
  <2>2. "set" \in Keyboard!Pcs \ {"e1"}
    BY DEF Keyboard!Pcs
  <2> QED
    BY <1>0, <1>a, <1>b, <2>1, <2>2, Zenon
<1>6. CASE Keyboard!ReadSet
  <2>1. \E q \in {"0", "-1"} : kb' = [kb EXCEPT !.pc = "idle", !.result = q]
    BY <1>6, Zenon DEF Keyboard!ReadSet, Keyboard!Return
  <2>2. inited' \in BOOLEAN /\ keyd' = keyd
    BY <1>6, SMT DEF Keyboard!ReadSet
  <2>3. {"0", "-1"} \subseteq Keyboard!Results
    BY DEF Keyboard!Results
  <2> QED
    BY <1>0, <1>c, <2>1, <2>2, <2>3, Zenon
<1>7. CASE Keyboard!keyboard_poll_k
  <2>1. /\ inited' = inited /\ keyd' = keyd
        /\ \/ kb' = [kb EXCEPT !.pc = "idle", !.result = "-1"]
           \/ \E p \in {"start", "panic"} : kb' = [kb EXCEPT !.pc = p]
    BY <1>7, Zenon DEF Keyboard!keyboard_poll_k, Keyboard!Return, Keyboard!On, Keyboard!poll
  <2>2. {"start", "panic"} \subseteq Keyboard!Pcs \ {"e1"} /\ "-1" \in Keyboard!Results
    BY DEF Keyboard!Pcs, Keyboard!Results
  <2> QED
    BY <1>0, <1>a, <1>b, <1>c, <2>1, <2>2, Zenon
<1>8. CASE Keyboard!PollByte
  <2>1. inited' = inited /\ keyd' \in {keyd, (keyd + 1) % 256, IF keyd > 0 THEN keyd - 1 ELSE 0}
    BY <1>8, Zenon DEF Keyboard!PollByte, Keyboard!poll
  <2>2. \/ \E p \in {"f0", "e0", "e0 f0", "start"} : kb' = [kb EXCEPT !.pc = p]
        \/ kb' = [kb EXCEPT !.pc = "e1", !.discard = 7]
        \/ \E q \in {"-1", "key"} : kb' = [kb EXCEPT !.pc = "idle", !.result = q]
        \/ kb.pc = "e1" /\ kb' = [kb EXCEPT !.discard = @ - 1, !.pc = IF kb.discard = 1 THEN "start" ELSE "e1"]
    BY <1>8, Zenon DEF Keyboard!PollByte, Keyboard!Return, Keyboard!On, Keyboard!Gives, Keyboard!PauseRest
  <2>3. keyd' \in 0..255
    <3>1. (keyd + 1) % 256 \in 0..255
      BY <1>0
    <3>2. keyd > 0 => keyd - 1 \in 0..255
      BY <1>0
    <3> QED
      BY <1>0, <2>1, <3>1, <3>2
  <2>d. ASSUME NEW p \in Keyboard!Pcs, NEW d \in 0..Keyboard!PauseRest, kb' = [kb EXCEPT !.discard = d, !.pc = p], p # "e1" \/ d > 0
        PROVE  Good
    <3>1. kb' \in Keyboard!Record /\ kb'.pc = p /\ kb'.discard = d
      BY <1>0, <2>d, Zenon DEF Keyboard!Record
    <3> QED
      BY <2>d, <3>1, Zenon
  <2>4. ASSUME kb' = [kb EXCEPT !.pc = "e1", !.discard = 7] PROVE Good
    <3>1. PICK d \in 0..Keyboard!PauseRest : d = 7 /\ d > 0
      BY DEF Keyboard!PauseRest
    <3>2. "e1" \in Keyboard!Pcs
      BY DEF Keyboard!Pcs
    <3> QED
      <4>1. kb' = [kb EXCEPT !.discard = d, !.pc = "e1"]
        BY <1>0, <2>4, <3>1, Zenon DEF Keyboard!Record
      <4> QED
        BY <2>d, <3>1, <3>2, <4>1, Zenon
  <2>5. ASSUME kb.pc = "e1" /\ kb' = [kb EXCEPT !.discard = @ - 1, !.pc = IF kb.discard = 1 THEN "start" ELSE "e1"] PROVE Good
    <3>1. PICK p \in Keyboard!Pcs : p = IF kb.discard = 1 THEN "start" ELSE "e1"
      BY DEF Keyboard!Pcs
    <3>2. PICK d \in 0..Keyboard!PauseRest : d = kb.discard - 1
      BY <1>0, <2>5 DEF Keyboard!Record, Keyboard!PauseRest
    <3>3. p # "e1" \/ d > 0
      BY <1>0, <2>5, <3>1, <3>2 DEF Keyboard!Record, Keyboard!PauseRest
    <3>4. kb' = [kb EXCEPT !.discard = d, !.pc = p]
      BY <2>5, <3>1, <3>2, Zenon
    <3> QED
      <4>1. kb' \in Keyboard!Record /\ kb'.pc = p /\ kb'.discard = d
        BY <1>0, <3>4, Zenon DEF Keyboard!Record
      <4> QED
        BY <3>3, <4>1, Zenon
  <2>6. {"f0", "e0", "e0 f0", "start"} \subseteq Keyboard!Pcs \ {"e1"} /\ {"-1", "key"} \subseteq Keyboard!Results
    BY DEF Keyboard!Pcs, Keyboard!Results
  <2>7. Good
    BY <1>b, <1>c, <2>2, <2>4, <2>5, <2>6, Zenon
  <2> QED
    BY <1>a, <2>1, <2>3, <2>7, Zenon
<1> QED
  BY <1>1, <1>2, <1>3, <1>4, <1>5, <1>6, <1>7, <1>8, Zenon DEF Keyboard!KeyboardNext

\* Where each step of the driver goes, and what it returns.
LEMMA Moves ==
  ASSUME kb \in Keyboard!Record
  PROVE  /\ Keyboard!Assert_sil_chill =>
              /\ kb.pc = "init" /\ kb'.result = kb.result
              /\ \/ kb'.pc = "ack ff" /\ \E a \in Keyboard!Answers("ff") : out' = out \o a
                 \/ kb'.pc = "panic" /\ out' = out
         /\ Keyboard!SelfTest =>
              /\ kb.pc = "self test" /\ out # <<>> /\ latch' = Head(out)
              /\ \/ /\ Head(out) = "aa" /\ kb'.pc = "ack f0" /\ kb'.result = kb.result
                    /\ \E a \in Keyboard!Answers("f0") : out' = Tail(out) \o a
                 \/ /\ Head(out) # "aa" /\ kb'.pc = "idle" /\ kb'.result = "failed its own test" /\ out' = Tail(out)
         /\ Keyboard!DropAnswer => kb'.pc = "set" /\ kb'.result = kb.result
         /\ Keyboard!ReadSet => kb'.pc = "idle" /\ kb'.result \in {"0", "-1"}
         /\ Keyboard!keyboard_poll_k =>
              \/ ~inited /\ kb'.pc = "idle" /\ kb'.result = "-1"
              \/ inited /\ kb'.pc \in {"start", "panic"} /\ kb'.result = kb.result
         /\ Keyboard!PollByte =>
              /\ kb'.pc \in {"start", "f0", "e0", "e0 f0", "e1", "idle"}
              /\ kb'.result \in {kb.result, "-1", "key"}
<1>1. ASSUME NEW p, kb' = [kb EXCEPT !.pc = p] PROVE kb'.pc = p /\ kb'.result = kb.result
  BY <1>1, Zenon DEF Keyboard!Record
<1>2. ASSUME NEW q, kb' = [kb EXCEPT !.pc = "idle", !.result = q] PROVE kb'.pc = "idle" /\ kb'.result = q
  BY <1>2, Zenon DEF Keyboard!Record
<1>3. ASSUME NEW p, NEW d, kb' = [kb EXCEPT !.pc = p, !.discard = d] PROVE kb'.pc = p /\ kb'.result = kb.result
  BY <1>3, Zenon DEF Keyboard!Record
<1>4. ASSUME NEW p, NEW d, kb' = [kb EXCEPT !.discard = d, !.pc = p] PROVE kb'.pc = p /\ kb'.result = kb.result
  BY <1>4, Zenon DEF Keyboard!Record
<1>5. ASSUME Keyboard!Assert_sil_chill
      PROVE  /\ kb.pc = "init" /\ kb'.result = kb.result
             /\ \/ kb'.pc = "ack ff" /\ \E a \in Keyboard!Answers("ff") : out' = out \o a
                \/ kb'.pc = "panic" /\ out' = out
  BY <1>1, <1>5, Zenon DEF Keyboard!Assert_sil_chill, Keyboard!Sent
<1>6. ASSUME Keyboard!SelfTest
      PROVE  /\ kb.pc = "self test" /\ out # <<>> /\ latch' = Head(out)
             /\ \/ /\ Head(out) = "aa" /\ kb'.pc = "ack f0" /\ kb'.result = kb.result
                   /\ \E a \in Keyboard!Answers("f0") : out' = Tail(out) \o a
                \/ /\ Head(out) # "aa" /\ kb'.pc = "idle" /\ kb'.result = "failed its own test" /\ out' = Tail(out)
  BY <1>1, <1>2, <1>6, Zenon DEF Keyboard!SelfTest, Keyboard!Return
<1>7. ASSUME Keyboard!DropAnswer PROVE kb'.pc = "set" /\ kb'.result = kb.result
  BY <1>1, <1>7, Zenon DEF Keyboard!DropAnswer
<1>8. ASSUME Keyboard!ReadSet PROVE kb'.pc = "idle" /\ kb'.result \in {"0", "-1"}
  <2>1. \E q \in {"0", "-1"} : kb' = [kb EXCEPT !.pc = "idle", !.result = q]
    BY <1>8, Zenon DEF Keyboard!ReadSet, Keyboard!Return
  <2> QED
    BY <1>2, <2>1, Zenon
<1>9. ASSUME Keyboard!keyboard_poll_k
      PROVE  \/ ~inited /\ kb'.pc = "idle" /\ kb'.result = "-1"
             \/ inited /\ kb'.pc \in {"start", "panic"} /\ kb'.result = kb.result
  <2>1. \/ ~inited /\ kb' = [kb EXCEPT !.pc = "idle", !.result = "-1"]
        \/ inited /\ \E p \in {"start", "panic"} : kb' = [kb EXCEPT !.pc = p]
    BY <1>9, Zenon DEF Keyboard!keyboard_poll_k, Keyboard!Return, Keyboard!On
  <2> QED
    BY <1>1, <1>2, <2>1, Zenon
<1>10. ASSUME Keyboard!PollByte
       PROVE  /\ kb'.pc \in {"start", "f0", "e0", "e0 f0", "e1", "idle"}
              /\ kb'.result \in {kb.result, "-1", "key"}
  <2>1. \/ \E p \in {"f0", "e0", "e0 f0", "start"} : kb' = [kb EXCEPT !.pc = p]
        \/ kb' = [kb EXCEPT !.pc = "e1", !.discard = Keyboard!PauseRest]
        \/ \E q \in {"-1", "key"} : kb' = [kb EXCEPT !.pc = "idle", !.result = q]
        \/ \E p \in {"start", "e1"} : kb' = [kb EXCEPT !.discard = @ - 1, !.pc = p]
    BY <1>10, Zenon DEF Keyboard!PollByte, Keyboard!Return, Keyboard!On, Keyboard!Gives
  <2> QED
    BY <1>1, <1>2, <1>3, <1>4, <2>1, Zenon
<1> QED
  BY <1>5, <1>6, <1>7, <1>8, <1>9, <1>10, Zenon

\* The same of the two commands that are repeated.
LEMMA AckMoves ==
  ASSUME kb \in Keyboard!Record, Keyboard!ResetAck \/ Keyboard!ScancodeAck
  PROVE  /\ out # <<>> /\ latch' = Head(out) /\ UNCHANGED <<dropped, scodeset, inited, typed>>
         /\ \/ /\ Head(out) = "fe" /\ kb'.pc = kb.pc /\ kb'.result = kb.result
               /\ \/ kb.pc = "ack ff" /\ \E a \in Keyboard!Answers("ff") : out' = Tail(out) \o a
                  \/ kb.pc = "ack f0" /\ \E a \in Keyboard!Answers("f0") : out' = Tail(out) \o a
            \/ /\ Head(out) = "fa" /\ kb.pc = "ack ff" /\ kb'.pc = "self test" /\ kb'.result = kb.result
               /\ out' = Tail(out)
            \/ /\ Head(out) = "fa" /\ kb.pc = "ack f0" /\ kb'.pc = "drop" /\ kb'.result = kb.result
               /\ \E a \in Keyboard!Answers("00") : out' = Tail(out) \o a
            \/ /\ Head(out) # "fa" /\ kb.pc \in {"ack ff", "ack f0"} /\ kb'.pc = "idle" /\ kb'.result = "-1"
               /\ out' = Tail(out)
<1>1. ASSUME NEW p, kb' = [kb EXCEPT !.pc = p] PROVE kb'.pc = p /\ kb'.result = kb.result
  BY <1>1, Zenon DEF Keyboard!Record
<1>2. ASSUME kb' = [kb EXCEPT !.pc = "idle", !.result = "-1"] PROVE kb'.pc = "idle" /\ kb'.result = "-1"
  BY <1>2, Zenon DEF Keyboard!Record
<1>3. ASSUME NEW a, kb' = [kb EXCEPT !.attempts = a] PROVE kb'.pc = kb.pc /\ kb'.result = kb.result
  BY <1>3, Zenon DEF Keyboard!Record
<1>4. ASSUME kb' = [kb EXCEPT !.pc = "self test", !.attempts = 0]
      PROVE  kb'.pc = "self test" /\ kb'.result = kb.result
  BY <1>4, Zenon DEF Keyboard!Record
<1>5. kb' = [kb EXCEPT !.attempts = @ + 1] => kb'.pc = kb.pc /\ kb'.result = kb.result
  BY <1>3, Zenon
<1> QED
  BY <1>1, <1>2, <1>4, <1>5, AckStep, Zenon

\* Whoever types: a step leaves a byte to be read to whoever waits for one, but for the
\* answer to the third byte.
LEMMA AnswerStep ==
  ASSUME Keyboard!StrokesAreBytes, kb \in Keyboard!Record, Keyboard!AnswerComes, Keyboard!KeyboardNext
  PROVE  Keyboard!AnswerComes'
<1>0. /\ out \in Seq(Keyboard!Byte)
      /\ kb.pc \in {"ack ff", "self test", "ack f0", "drop"} => out # <<>>
      /\ kb.pc \in {"ack ff", "drop"} /\ Head(out) = "fa" => Len(out) >= 2
      /\ kb.pc = "set" /\ out = <<>> => dropped # "fa"
  BY DEF Keyboard!AnswerComes, Keyboard!Starting
<1> DEFINE Comes == /\ out' \in Seq(Keyboard!Byte)
                    /\ kb'.pc \in {"ack ff", "self test", "ack f0", "drop"} => out' # <<>>
                    /\ kb'.pc \in {"ack ff", "drop"} /\ Head(out') = "fa" => Len(out') >= 2
                    /\ kb'.pc = "set" /\ out' = <<>> => dropped' # "fa"
<1> SUFFICES Comes
  BY Zenon DEF Keyboard!AnswerComes, Keyboard!Starting
<1>a. ASSUME NEW s \in Seq(Keyboard!Byte), NEW byte \in {"ff", "f0", "00"},
             NEW a \in Keyboard!Answers(byte), out' = s \o a,
             kb'.pc # "set", kb'.pc \in {"ack ff", "drop"} => byte # "f0"
      PROVE  Comes
  BY <1>a, Behind, Zenon
<1>b. ASSUME out' \in Seq(Keyboard!Byte), kb'.pc \notin {"ack ff", "self test", "ack f0", "drop", "set"}
      PROVE  Comes
  BY <1>b, Zenon
<1>c. out # <<>> => Tail(out) \in Seq(Keyboard!Byte)
  BY <1>0, FirstByte, Zenon
<1>1. CASE Keyboard!Type
  <2>1. PICK stroke \in Keystrokes : out' = out \o stroke.bytes /\ kb' = kb /\ dropped' = dropped
    BY <1>1, Zenon DEF Keyboard!Type
  <2>2. PICK s \in Seq(Keyboard!Byte) : s = stroke.bytes
    BY Zenon DEF Keyboard!StrokesAreBytes
  <2>3. /\ out' \in Seq(Keyboard!Byte) /\ Len(out') = Len(out) + Len(s)
        /\ out # <<>> => out' # <<>> /\ Head(out') = Head(out)
    BY <1>0, <2>1, <2>2, Appended, Zenon
  <2>4. Len(out) >= 2 => Len(out') >= 2
    BY <1>0, <2>1, <2>2, Appended, Zenon
  <2> QED
    <3>1. kb'.pc = kb.pc /\ dropped' = dropped
      BY <2>1, Zenon
    <3>2. out' = <<>> => out = <<>>
      BY <2>3, Zenon
    <3> QED
      BY <1>0, <2>3, <2>4, <3>1, <3>2, Zenon
<1>2. CASE Keyboard!Assert_sil_chill
  BY <1>0, <1>2, <1>a, <1>b, Moves, Zenon
<1>3. CASE Keyboard!ResetAck \/ Keyboard!ScancodeAck
  <2>1. CASE Head(out) = "fa" /\ kb.pc = "ack ff" /\ kb'.pc = "self test" /\ out' = Tail(out)
    <3>1. Len(out) >= 2 /\ out # <<>>
      BY <1>0, <2>1
    <3>2. Tail(out) # <<>>
      BY <1>0, <3>1, SecondByte, Zenon
    <3> QED
      BY <1>c, <2>1, <3>1, <3>2, Zenon
  <2>2. CASE kb'.pc = kb.pc /\ kb.pc = "ack ff" /\ \E a \in Keyboard!Answers("ff") : out' = Tail(out) \o a
    BY <1>3, <1>a, <1>c, <2>2, AckMoves, Zenon
  <2>3. CASE kb'.pc = kb.pc /\ kb.pc = "ack f0" /\ \E a \in Keyboard!Answers("f0") : out' = Tail(out) \o a
    BY <1>3, <1>a, <1>c, <2>3, AckMoves, Zenon
  <2>4. CASE kb'.pc = "drop" /\ \E a \in Keyboard!Answers("00") : out' = Tail(out) \o a
    BY <1>3, <1>a, <1>c, <2>4, AckMoves, Zenon
  <2>5. CASE kb'.pc = "idle" /\ out' = Tail(out)
    BY <1>3, <1>b, <1>c, <2>5, AckMoves, Zenon
  <2> QED
    BY <1>3, <2>1, <2>2, <2>3, <2>4, <2>5, AckMoves, Zenon
<1>4. CASE Keyboard!SelfTest
  <2>1. /\ out # <<>>
        /\ \/ kb'.pc = "ack f0" /\ \E a \in Keyboard!Answers("f0") : out' = Tail(out) \o a
           \/ kb'.pc = "idle" /\ out' = Tail(out)
    BY <1>4, Moves, Zenon
  <2> QED
    BY <1>a, <1>b, <1>c, <2>1, Zenon
<1>5. CASE Keyboard!DropAnswer
  <2>1. kb.pc = "drop" /\ out # <<>> /\ dropped' = Head(out) /\ out' = Tail(out) /\ kb'.pc = "set"
    BY <1>5, Moves, Zenon DEF Keyboard!DropAnswer
  <2>2. Head(out) = "fa" => Tail(out) # <<>>
    BY <1>0, <2>1, SecondByte, Zenon
  <2> QED
    BY <1>c, <2>1, <2>2, Zenon
<1>6. CASE Keyboard!ReadSet
  <2>1. out # <<>> /\ out' = IF Tail(out) = <<>> THEN <<>> ELSE Tail(Tail(out))
    BY <1>6, Zenon DEF Keyboard!ReadSet
  <2>2. out' \in Seq(Keyboard!Byte)
    BY <1>c, <2>1
  <2> QED
    BY <1>6, <1>b, <2>2, Moves, Zenon
<1>7. CASE Keyboard!keyboard_poll_k
  <2>1. out' = out
    BY <1>7, Zenon DEF Keyboard!keyboard_poll_k
  <2> QED
    BY <1>0, <1>7, <1>b, <2>1, Moves, Zenon
<1>8. CASE Keyboard!PollByte
  <2>1. out # <<>> /\ out' = Tail(out)
    BY <1>8, Zenon DEF Keyboard!PollByte
  <2> QED
    BY <1>8, <1>b, <1>c, <2>1, Moves, Zenon
<1> QED
  BY <1>1, <1>2, <1>3, <1>4, <1>5, <1>6, <1>7, <1>8, Zenon DEF Keyboard!KeyboardNext

\* keyboard_init returns once, and the keys are read only when it has succeeded.
LEMMA ProgressStep ==
  ASSUME kb \in Keyboard!Record, inited \in BOOLEAN, Keyboard!Progress, Keyboard!KeyboardNext
  PROVE  Keyboard!Progress'
<1> DEFINE Start == {"ack ff", "self test", "ack f0", "drop"}
           Control(p, q, b) ==
             /\ p \in {"init", "set"} \cup Start => ~b /\ q = "none"
             /\ ~b => p \in {"init", "panic", "set", "idle"} \cup Start
             /\ b => q # "failed its own test"
             /\ p = "panic" => q # "failed its own test"
<1>0. typed.early \in Nat /\ Control(kb.pc, kb.result, inited)
  BY Zenon DEF Keyboard!Progress, Keyboard!Starting
<1> SUFFICES typed'.early \in Nat /\ Control(kb'.pc, kb'.result, inited')
  BY Zenon DEF Keyboard!Progress, Keyboard!Starting
<1>1. CASE Keyboard!Type
  <2>1. kb' = kb /\ inited' = inited /\ typed'.early \in {typed.early, typed.early + 1}
    <3>1. kb' = kb /\ inited' = inited
      BY <1>1, Zenon DEF Keyboard!Type
    <3>2. PICK n, g : typed' = [strokes |-> n, gives |-> g, early |-> IF inited THEN typed.early ELSE typed.early + 1]
      BY <1>1, Zenon DEF Keyboard!Type
    <3>3. typed'.early = IF inited THEN typed.early ELSE typed.early + 1
      BY <3>2, Zenon
    <3> QED
      BY <3>1, <3>3, Zenon
  <2>2. typed'.early \in Nat
    <3>1. PICK n \in Nat : n = typed.early
      BY <1>0, Zenon
    <3>2. n + 1 \in Nat
      OBVIOUS
    <3> QED
      BY <2>1, <3>1, <3>2, Zenon
  <2> QED
    BY <1>0, <2>1, <2>2, Zenon
<1>2. CASE Keyboard!Assert_sil_chill
  <2>1. typed' = typed /\ inited' = inited
    BY <1>2, Zenon DEF Keyboard!Assert_sil_chill, Keyboard!quiet
  <2> QED
    BY <1>0, <1>2, <2>1, Moves, Zenon
<1>3. CASE Keyboard!ResetAck \/ Keyboard!ScancodeAck
  <2>1. /\ typed' = typed /\ inited' = inited /\ kb.pc \in Start
        /\ \/ kb'.pc \in Start /\ kb'.result = kb.result
           \/ kb'.pc = "idle" /\ kb'.result = "-1"
    BY <1>3, AckMoves, Zenon
  <2> QED
    BY <1>0, <2>1, Zenon
<1>4. CASE Keyboard!SelfTest
  <2>1. typed' = typed /\ inited' = inited
    BY <1>4, Zenon DEF Keyboard!SelfTest, Keyboard!quiet
  <2>2. /\ kb.pc = "self test"
        /\ \/ kb'.pc = "ack f0" /\ kb'.result = kb.result
           \/ kb'.pc = "idle" /\ kb'.result = "failed its own test"
    BY <1>4, Moves, Zenon
  <2> QED
    BY <1>0, <2>1, <2>2, Zenon
<1>5. CASE Keyboard!DropAnswer
  <2>1. typed' = typed /\ inited' = inited /\ kb.pc = "drop"
    BY <1>5, Zenon DEF Keyboard!DropAnswer, Keyboard!quiet
  <2>2. kb'.pc = "set" /\ kb'.result = kb.result
    BY <1>5, Moves, Zenon
  <2> QED
    BY <1>0, <2>1, <2>2, Zenon
<1>6. CASE Keyboard!ReadSet
  <2>1. typed' = typed
    BY <1>6, Zenon DEF Keyboard!ReadSet
  <2>2. kb'.pc = "idle" /\ kb'.result \in {"0", "-1"}
    BY <1>6, Moves, Zenon
  <2> QED
    BY <1>0, <2>1, <2>2, Zenon
<1>7. CASE Keyboard!keyboard_poll_k
  <2>1. typed' = typed /\ inited' = inited
    BY <1>7, Zenon DEF Keyboard!keyboard_poll_k, Keyboard!poll
  <2>2. \/ ~inited /\ kb'.pc = "idle" /\ kb'.result = "-1"
        \/ inited /\ kb'.pc \in {"start", "panic"} /\ kb'.result = kb.result
    BY <1>7, Moves, Zenon
  <2> QED
    BY <1>0, <2>1, <2>2, Zenon
<1>8. CASE Keyboard!PollByte
  <2>1. typed' = typed /\ inited' = inited /\ kb.pc \in {"start", "f0", "e0", "e0 f0", "e1"}
    BY <1>8, Zenon DEF Keyboard!PollByte, Keyboard!poll
  <2>2. /\ kb'.pc \in {"start", "f0", "e0", "e0 f0", "e1", "idle"}
        /\ kb'.result \in {kb.result, "-1", "key"}
    BY <1>8, Moves, Zenon
  <2>3. inited
    BY <1>0, <2>1, Zenon
  <2> QED
    BY <1>0, <2>1, <2>2, <2>3, Zenon
<1> QED
  BY <1>1, <1>2, <1>3, <1>4, <1>5, <1>6, <1>7, <1>8, Zenon DEF Keyboard!KeyboardNext

\* What is left of the keyboard's answers when their first byte has been read.
LEMMA AnswerTails ==
  /\ \A a \in Keyboard!Answers("ff") : \/ Head(a) = "fe" /\ Tail(a) = <<>>
                                       \/ Head(a) = "fa" /\ Tail(a) \in {<<"aa">>, <<"fc">>}
  /\ \A a \in Keyboard!Answers("f0") : Head(a) \in {"fe", "fa"} /\ Tail(a) = <<>>
  /\ \A a \in Keyboard!Answers("00") : \/ Head(a) = "fe" /\ Tail(a) = <<>>
                                       \/ Head(a) = "fa" /\ Tail(a) \in {<<"41">>, <<"02">>}
  /\ \A b : Head(<<b>>) = b /\ Tail(<<b>>) = <<>>
<1>1. \A b : Head(<<b>>) = b /\ Tail(<<b>>) = <<>>
  OBVIOUS
<1>a. Head(<<"fe">>) = "fe" /\ Tail(<<"fe">>) = <<>>
  OBVIOUS
<1>2. \A b, c : Head(<<b, c>>) = b /\ Tail(<<b, c>>) = <<c>>
  OBVIOUS
<1>3. Keyboard!Answers("ff") = {<<"fe">>, <<"fa", "aa">>, <<"fa", "fc">>}
  BY SMT DEF Keyboard!Answers
<1>4. Keyboard!Answers("f0") = {<<"fe">>, <<"fa">>}
  BY SMT DEF Keyboard!Answers
<1>5. Keyboard!Answers("00") = {<<"fe">>, <<"fa", "41">>, <<"fa", "02">>}
  BY SMT DEF Keyboard!Answers
<1>6. ASSUME NEW a \in Keyboard!Answers("ff")
      PROVE  (Head(a) = "fe" /\ Tail(a) = <<>>) \/ (Head(a) = "fa" /\ Tail(a) \in {<<"aa">>, <<"fc">>})
  <2>1. CASE a = <<"fe">>
    BY <1>a, <2>1, Zenon
  <2>2. CASE a = <<"fa", "aa">>
    BY <1>1, <1>2, <2>2, Zenon
  <2>3. CASE a = <<"fa", "fc">>
    BY <1>1, <1>2, <2>3, Zenon
  <2> QED
    BY <1>3, <1>6, <2>1, <2>2, <2>3, Zenon
<1>7. ASSUME NEW a \in Keyboard!Answers("f0") PROVE Head(a) \in {"fe", "fa"} /\ Tail(a) = <<>>
  BY <1>1, <1>4, <1>7, Zenon
<1>8. ASSUME NEW a \in Keyboard!Answers("00")
      PROVE  (Head(a) = "fe" /\ Tail(a) = <<>>) \/ (Head(a) = "fa" /\ Tail(a) \in {<<"41">>, <<"02">>})
  <2>1. CASE a = <<"fe">>
    BY <1>a, <2>1, Zenon
  <2>2. CASE a = <<"fa", "41">>
    BY <1>1, <1>2, <2>2, Zenon
  <2>3. CASE a = <<"fa", "02">>
    BY <1>1, <1>2, <2>3, Zenon
  <2> QED
    BY <1>5, <1>8, <2>1, <2>2, <2>3, Zenon
<1> QED
  BY <1>1, <1>6, <1>7, <1>8, Zenon

\* As long as nobody has typed, the bytes to be read are the answer to the last command.
LEMMA UndisturbedStep ==
  ASSUME kb \in Keyboard!Record, Keyboard!Progress, Keyboard!Undisturbed, Keyboard!KeyboardNext
  PROVE  Keyboard!Undisturbed'
<1> DEFINE Quiet(p, s, d) ==
             /\ p = "init" => s = <<>>
             /\ p = "ack ff" => s \in Keyboard!Answers("ff")
             /\ p = "self test" => s \in {<<"aa">>, <<"fc">>}
             /\ p = "ack f0" => s \in Keyboard!Answers("f0")
             /\ p = "drop" => s \in Keyboard!Answers("00")
             /\ p = "set" => (d = "fe" /\ s = <<>>) \/ (d = "fa" /\ s \in {<<"41">>, <<"02">>})
<1> SUFFICES ASSUME typed'.early = 0 PROVE Quiet(kb'.pc, out', dropped')
  BY Zenon DEF Keyboard!Undisturbed
<1>0. ASSUME typed' = typed PROVE Quiet(kb.pc, out, dropped)
  BY <1>0, Zenon DEF Keyboard!Undisturbed
<1>a. ASSUME kb'.pc \notin {"init", "ack ff", "self test", "ack f0", "drop", "set"}
      PROVE  Quiet(kb'.pc, out', dropped')
  BY <1>a, Zenon
<1>b. ASSUME NEW byte \in {"ff", "f0", "00"}, NEW a \in Keyboard!Answers(byte) PROVE <<>> \o a = a
  BY AnswerBytes
<1>1. CASE Keyboard!Type
  <2>1. kb' = kb
    BY <1>1, Zenon DEF Keyboard!Type
  <2>2. PICK n, g, m : /\ typed' = [strokes |-> n, gives |-> g, early |-> m]
                       /\ m = IF inited THEN typed.early ELSE typed.early + 1
    BY <1>1, Zenon DEF Keyboard!Type
  <2>3. inited
    <3>0. typed'.early = m
      BY <2>2, Zenon
    <3>1. ASSUME ~inited PROVE typed'.early = typed.early + 1
      BY <2>2, <3>0, <3>1, Zenon
    <3>2. PICK e \in Nat : e = typed.early
      BY Zenon DEF Keyboard!Progress
    <3>3. e + 1 # 0
      OBVIOUS
    <3> QED
      BY <3>1, <3>2, <3>3, Zenon
  <2>4. kb.pc \notin {"init", "set", "ack ff", "self test", "ack f0", "drop"}
    BY <2>3, Zenon DEF Keyboard!Progress, Keyboard!Starting
  <2> QED
    BY <1>a, <2>1, <2>4, Zenon
<1>2. CASE Keyboard!Assert_sil_chill
  <2>1. typed' = typed
    BY <1>2, Zenon DEF Keyboard!Assert_sil_chill, Keyboard!quiet
  <2>2. \/ kb'.pc = "ack ff" /\ \E a \in Keyboard!Answers("ff") : out' = <<>> \o a
        \/ kb'.pc = "panic"
    BY <1>0, <1>2, <2>1, Moves, Zenon
  <2>3. kb'.pc = "ack ff" => out' \in Keyboard!Answers("ff")
    BY <1>b, <2>2, Zenon
  <2> QED
    BY <2>2, <2>3, Zenon
<1>3. CASE Keyboard!ResetAck \/ Keyboard!ScancodeAck
  <2>1. Quiet(kb.pc, out, dropped)
    BY <1>0, <1>3, AckMoves, Zenon
  <2>2. CASE Head(out) = "fe" /\ kb'.pc = kb.pc /\ kb.pc = "ack ff" /\ \E a \in Keyboard!Answers("ff") : out' = Tail(out) \o a
    <3>1. Tail(out) = <<>>
      <4>1. out \in Keyboard!Answers("ff") /\ "fe" # "fa"
        BY <2>1, <2>2, Zenon
      <4> QED
        BY <2>2, <4>1, AnswerTails, Zenon
    <3>2. out' \in Keyboard!Answers("ff")
      BY <1>b, <2>2, <3>1, Zenon
    <3> QED
      BY <2>2, <3>2, Zenon
  <2>3. CASE Head(out) = "fe" /\ kb'.pc = kb.pc /\ kb.pc = "ack f0" /\ \E a \in Keyboard!Answers("f0") : out' = Tail(out) \o a
    <3>1. Tail(out) = <<>>
      BY <2>1, <2>3, AnswerTails, Zenon
    <3>2. out' \in Keyboard!Answers("f0")
      BY <1>b, <2>3, <3>1, Zenon
    <3> QED
      BY <2>3, <3>2, Zenon
  <2>4. CASE Head(out) = "fa" /\ kb.pc = "ack ff" /\ kb'.pc = "self test" /\ out' = Tail(out)
    <3>1. out \in Keyboard!Answers("ff") /\ "fe" # "fa"
      BY <2>1, <2>4, Zenon
    <3>2. out' \in {<<"aa">>, <<"fc">>}
      BY <2>4, <3>1, AnswerTails, Zenon
    <3> QED
      BY <2>4, <3>2, Zenon
  <2>5. CASE kb.pc = "ack f0" /\ kb'.pc = "drop" /\ \E a \in Keyboard!Answers("00") : out' = Tail(out) \o a
    <3>1. Tail(out) = <<>>
      BY <2>1, <2>5, AnswerTails, Zenon
    <3>2. out' \in Keyboard!Answers("00")
      BY <1>b, <2>5, <3>1, Zenon
    <3> QED
      BY <2>5, <3>2, Zenon
  <2>6. CASE kb'.pc = "idle"
    BY <1>a, <2>6, Zenon
  <2> QED
    BY <1>3, <2>2, <2>3, <2>4, <2>5, <2>6, AckMoves, Zenon
<1>4. CASE Keyboard!SelfTest
  <2>1. typed' = typed
    BY <1>4, Zenon DEF Keyboard!SelfTest, Keyboard!quiet
  <2>2. /\ kb.pc = "self test"
        /\ \/ kb'.pc = "ack f0" /\ \E a \in Keyboard!Answers("f0") : out' = Tail(out) \o a
           \/ kb'.pc = "idle"
    BY <1>4, Moves, Zenon
  <2>3. Tail(out) = <<>>
    <3>1. out \in {<<"aa">>, <<"fc">>}
      BY <1>0, <2>1, <2>2, Zenon
    <3>2. \A b : Tail(<<b>>) = <<>>
      BY AnswerTails, Zenon
    <3> QED
      BY <3>1, <3>2, Zenon
  <2>4. kb'.pc = "ack f0" => out' \in Keyboard!Answers("f0")
    BY <1>b, <2>2, <2>3, Zenon
  <2> QED
    BY <2>2, <2>4, Zenon
<1>5. CASE Keyboard!DropAnswer
  <2>1. typed' = typed /\ kb.pc = "drop" /\ dropped' = Head(out) /\ out' = Tail(out)
    BY <1>5, Zenon DEF Keyboard!DropAnswer, Keyboard!quiet
  <2>2. kb'.pc = "set"
    BY <1>5, Moves, Zenon
  <2>3. out \in Keyboard!Answers("00")
    BY <1>0, <2>1, Zenon
  <2> QED
    BY <2>1, <2>2, <2>3, AnswerTails, Zenon
<1>6. CASE Keyboard!ReadSet
  BY <1>6, <1>a, Moves, Zenon
<1>7. CASE Keyboard!keyboard_poll_k
  BY <1>7, <1>a, Moves, Zenon
<1>8. CASE Keyboard!PollByte
  BY <1>8, <1>a, Moves, Zenon
<1> QED
  BY <1>1, <1>2, <1>3, <1>4, <1>5, <1>6, <1>7, <1>8, Zenon DEF Keyboard!KeyboardNext

\* What keyboard_init says stays true of the keyboard as long as nobody typed
\* during the start: a known scan code set is the one that was reported, and a
\* failed self test is the byte the keyboard sent.
LEMMA TruthStep ==
  ASSUME kb \in Keyboard!Record, Keyboard!Progress, Keyboard!Undisturbed, Keyboard!InitTellsTheTruth,
         Keyboard!KeyboardNext
  PROVE  Keyboard!InitTellsTheTruth'
<1> DEFINE True(b, c, d, r, l) == /\ b => c = "41" /\ d = "fa"
                                  /\ r = "failed its own test" => l = "fc"
<1> SUFFICES ASSUME typed'.early = 0 PROVE True(inited', scodeset', dropped', kb'.result, latch')
  BY Zenon DEF Keyboard!InitTellsTheTruth
<1>0. ASSUME typed.early = 0 PROVE True(inited, scodeset, dropped, kb.result, latch)
  BY <1>0, Zenon DEF Keyboard!InitTellsTheTruth
<1>a. kb.pc \in {"init", "set", "ack ff", "self test", "ack f0", "drop"} => ~inited /\ kb.result = "none"
  BY Zenon DEF Keyboard!Progress, Keyboard!Starting
<1>b. "none" # "failed its own test" /\ "-1" # "failed its own test" /\ "key" # "failed its own test"
      /\ "0" # "failed its own test"
  OBVIOUS
<1>1. CASE Keyboard!Type
  <2>1. /\ kb' = kb /\ UNCHANGED <<latch, scodeset, inited, dropped>>
    BY <1>1, Zenon DEF Keyboard!Type
  <2>2. PICK n, g, m : /\ typed' = [strokes |-> n, gives |-> g, early |-> m]
                       /\ m = IF inited THEN typed.early ELSE typed.early + 1
    BY <1>1, Zenon DEF Keyboard!Type
  <2>3. typed'.early = m
    BY <2>2, Zenon
  <2>4. inited
    <3>1. ASSUME ~inited PROVE typed'.early = typed.early + 1
      BY <2>2, <2>3, <3>1, Zenon
    <3>2. PICK e \in Nat : e = typed.early
      BY Zenon DEF Keyboard!Progress
    <3>3. e + 1 # 0
      OBVIOUS
    <3> QED
      BY <3>1, <3>2, <3>3, Zenon
  <2>5. typed.early = 0
    BY <2>2, <2>3, <2>4, Zenon
  <2> QED
    BY <1>0, <2>1, <2>5, Zenon
<1>2. CASE Keyboard!Assert_sil_chill
  <2>1. UNCHANGED <<latch, dropped, scodeset, inited, typed>>
    BY <1>2, Zenon DEF Keyboard!Assert_sil_chill, Keyboard!quiet
  <2>2. kb'.result = kb.result
    BY <1>2, Moves, Zenon
  <2> QED
    BY <1>0, <2>1, <2>2, Zenon
<1>3. CASE Keyboard!ResetAck \/ Keyboard!ScancodeAck
  <2>1. kb.pc \in {"ack ff", "ack f0"} /\ inited' = inited /\ kb'.result \in {kb.result, "-1"}
    BY <1>3, AckMoves, Zenon
  <2> QED
    BY <1>a, <1>b, <2>1, Zenon
<1>4. CASE Keyboard!SelfTest
  <2>1. typed' = typed /\ inited' = inited /\ kb.pc = "self test" /\ latch' = Head(out)
    BY <1>4, Zenon DEF Keyboard!SelfTest, Keyboard!quiet
  <2>2. out \in {<<"aa">>, <<"fc">>}
    BY <2>1, Zenon DEF Keyboard!Undisturbed
  <2>3. ASSUME Head(out) = "aa" PROVE kb'.result = kb.result
    <3>1. kb' = [kb EXCEPT !.pc = "ack f0"]
      BY <1>4, <2>3, Zenon DEF Keyboard!SelfTest
    <3> QED
      BY <3>1, Zenon DEF Keyboard!Record
  <2>4. CASE out = <<"aa">>
    <3>1. Head(out) = "aa"
      BY <2>4, AnswerTails, Zenon
    <3> QED
      BY <1>a, <1>b, <2>1, <2>3, <3>1, Zenon
  <2>5. CASE out = <<"fc">>
    <3>1. latch' = "fc"
      BY <2>1, <2>5, AnswerTails, Zenon
    <3> QED
      BY <1>a, <2>1, <3>1, Zenon
  <2> QED
    BY <2>2, <2>4, <2>5, Zenon
<1>5. CASE Keyboard!DropAnswer
  <2>1. inited' = inited /\ kb.pc = "drop"
    BY <1>5, Zenon DEF Keyboard!DropAnswer, Keyboard!quiet
  <2>2. kb'.result = kb.result
    BY <1>5, Moves, Zenon
  <2> QED
    BY <1>a, <1>b, <2>1, <2>2, Zenon
<1>6. CASE Keyboard!ReadSet
  <2>1. kb'.result \in {"0", "-1"}
    BY <1>6, Moves, Zenon
  <2>2. typed' = typed /\ dropped' = dropped /\ kb.pc = "set" /\ out # <<>>
    BY <1>6, Zenon DEF Keyboard!ReadSet
  <2>3. dropped = "fa" /\ out \in {<<"41">>, <<"02">>}
    BY <2>2, Zenon DEF Keyboard!Undisturbed
  <2>4. Tail(out) = <<>> /\ Head(out) \in {"41", "02"}
    BY <2>3, AnswerTails, Zenon
  <2>5. scodeset' = Head(out) /\ inited' = (Head(out) \in {"43", "41", "3f"})
    BY <1>6, <2>4, Zenon DEF Keyboard!ReadSet
  <2>6. inited' => scodeset' = "41"
    BY <2>4, <2>5, Zenon
  <2> QED
    BY <1>b, <2>1, <2>2, <2>3, <2>6, Zenon
<1>7. CASE Keyboard!keyboard_poll_k
  <2>1. UNCHANGED <<typed, latch, inited, scodeset, dropped>>
    BY <1>7, Zenon DEF Keyboard!keyboard_poll_k, Keyboard!poll
  <2>2. kb'.result \in {kb.result, "-1"}
    BY <1>7, Moves, Zenon
  <2> QED
    BY <1>0, <1>b, <2>1, <2>2, Zenon
<1>8. CASE Keyboard!PollByte
  <2>1. /\ UNCHANGED <<typed, inited, scodeset, dropped>>
        /\ kb.pc \in {"start", "f0", "e0", "e0 f0", "e1"}
    BY <1>8, Zenon DEF Keyboard!PollByte, Keyboard!poll
  <2>2. kb'.result \in {kb.result, "-1", "key"}
    BY <1>8, Moves, Zenon
  <2>3. kb.result # "failed its own test"
    BY <2>1, Zenon DEF Keyboard!Progress, Keyboard!Starting
  <2> QED
    BY <1>0, <1>b, <2>1, <2>2, <2>3, Zenon
<1> QED
  BY <1>1, <1>2, <1>3, <1>4, <1>5, <1>6, <1>7, <1>8, Zenon DEF Keyboard!KeyboardNext

\* Every step of the driver, the keyboard and the user keeps the invariant.
LEMMA KeyboardStep ==
  ASSUME Keyboard!StrokesAreBytes, Keyboard!KeyboardInv, [Keyboard!KeyboardNext]_(Keyboard!kbVars)
  PROVE  Keyboard!KeyboardInv'
<1>0. /\ Keyboard!KbTypes /\ Keyboard!AnswerComes /\ Keyboard!Progress /\ Keyboard!Undisturbed
      /\ Keyboard!InitTellsTheTruth
  BY Zenon DEF Keyboard!KeyboardInv
<1>1. kb \in Keyboard!Record /\ inited \in BOOLEAN
  BY <1>0, Zenon DEF Keyboard!KbTypes, Keyboard!KeyboardTypeOK
<1>2. CASE Keyboard!KeyboardNext
  <2>1. Keyboard!KbTypes'
    BY <1>0, <1>2, KbTypesStep, Zenon
  <2>2. Keyboard!AnswerComes'
    BY <1>0, <1>1, <1>2, AnswerStep, Zenon
  <2>3. Keyboard!Progress'
    BY <1>0, <1>1, <1>2, ProgressStep, Zenon
  <2>4. Keyboard!Undisturbed'
    BY <1>0, <1>1, <1>2, UndisturbedStep, Zenon
  <2>5. Keyboard!InitTellsTheTruth'
    BY <1>0, <1>1, <1>2, TruthStep, Zenon
  <2> QED
    BY <2>1, <2>2, <2>3, <2>4, <2>5, Zenon DEF Keyboard!KeyboardInv
<1>3. CASE UNCHANGED Keyboard!kbVars
  <2>1. UNCHANGED <<kb, out, latch, scodeset, inited, keyd, got, typed, dropped>>
    BY <1>3, Zenon DEF Keyboard!kbVars
  <2>2. Keyboard!KbTypes'
    BY <1>0, <2>1, Zenon DEF Keyboard!KbTypes, Keyboard!KeyboardTypeOK
  <2>3. Keyboard!AnswerComes'
    BY <1>0, <2>1, Zenon DEF Keyboard!AnswerComes
  <2>4. Keyboard!Progress'
    BY <1>0, <2>1, Zenon DEF Keyboard!Progress
  <2>5. Keyboard!Undisturbed'
    BY <1>0, <2>1, Zenon DEF Keyboard!Undisturbed
  <2>6. Keyboard!InitTellsTheTruth'
    BY <1>0, <2>1, Zenon DEF Keyboard!InitTellsTheTruth
  <2> QED
    BY <2>2, <2>3, <2>4, <2>5, <2>6, Zenon DEF Keyboard!KeyboardInv
<1> QED
  BY <1>2, <1>3, Zenon

\* keyboard_init never waits for a byte that cannot come, but where the answer
\* to the third command was 0xFE and was dropped: for all keys and any typing.
THEOREM KeyboardAnswered ==
  ASSUME Keyboard!StrokesAreBytes
  PROVE  Keyboard!KeyboardSpec => []Keyboard!WaitsForALostAnswer
<1>1. Keyboard!KeyboardInit => Keyboard!KeyboardInv
  BY KeyboardStart, Zenon
<1>2. Keyboard!KeyboardInv /\ [Keyboard!KeyboardNext]_(Keyboard!kbVars) => Keyboard!KeyboardInv'
  BY KeyboardStep, Zenon
<1>3. Keyboard!KeyboardInv => Keyboard!WaitsForALostAnswer
  BY Zenon DEF Keyboard!KeyboardInv, Keyboard!AnswerComes, Keyboard!Starting, Keyboard!WaitsForALostAnswer
<1> QED
  BY <1>1, <1>2, <1>3, PTL DEF Keyboard!KeyboardSpec

\* As long as nobody types while keyboard_init runs, its 0 stands for a known
\* scan code set the keyboard reported, and its 1 for a failed self test.
THEOREM KeyboardTruth ==
  ASSUME Keyboard!StrokesAreBytes
  PROVE  Keyboard!KeyboardSpec => []Keyboard!InitTellsTheTruth
<1>1. Keyboard!KeyboardInit => Keyboard!KeyboardInv
  BY KeyboardStart, Zenon
<1>2. Keyboard!KeyboardInv /\ [Keyboard!KeyboardNext]_(Keyboard!kbVars) => Keyboard!KeyboardInv'
  BY KeyboardStep, Zenon
<1>3. Keyboard!KeyboardInv => Keyboard!InitTellsTheTruth
  BY Zenon DEF Keyboard!KeyboardInv
<1> QED
  BY <1>1, <1>2, <1>3, PTL DEF Keyboard!KeyboardSpec
===============================================================================
