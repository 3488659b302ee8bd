------------------------------- MODULE PciBus -------------------------------
(***************************************************************************)
(* How the kernel finds its devices.  kentry calls load_drivers, which     *)
(* fills the table registered_drivers, and then parse_acpi, which walks    *)
(* the firmware's tables to the MCFG and scans every bus, device and       *)
(* function of PCI configuration space (get_drivers), offering each one    *)
(* it finds to every registered driver.                                    *)
(*                                                                         *)
(* One processor runs all of it, before the others are started, so one     *)
(* action is one handler or one round of a loop.  What is hard to test is  *)
(* the record probe_pci: it lives through the whole scan, is filled anew   *)
(* only in part, and is what a driver takes its device's addresses from.   *)
(***************************************************************************)
EXTENDS Integers, Sequences

CONSTANTS NBus, NDevice, NFunction, \* 256, 32 and 8 in get_drivers
          NBar,                     \* base address registers: 6
          MAX_DRIVERS,              \* spots of registered_drivers: 128
          Devices,                  \* the functions a machine may hold
          Absent,                   \* a slot that reads vendor 0xFFFF
          Junk                      \* what an unset stack slot holds

ASSUME PciAssumption ==
    /\ {NBus, NDevice, NFunction, NBar} \subseteq Nat \ {0}
    /\ NDevice <= 32 /\ NFunction <= 8
    /\ MAX_DRIVERS \in Nat /\ MAX_DRIVERS >= 2

VARIABLES
    machine,            \* config: the function behind every slot, or Absent;
                        \* rsdp, rsdt, revision: the firmware's tables
    pc,
    registered_drivers, driver_count,
    bus, device, function, \* the three loop counters of get_drivers
    probe_pci,          \* the record the drivers are handed
    i, driver,          \* the loop over the drivers, and its flag
    windows,            \* the configuration windows read, in order
    attached,           \* <<slot, driver>> for every attach
    unclaimed           \* the slots "Couldn't find a driver" was logged for

vars == <<machine, pc, registered_drivers, driver_count, bus, device,
          function, probe_pci, i, driver, windows, attached, unclaimed>>

Drivers == {"achi", "hda"}
Slots == (0 .. NBus - 1) \X (0 .. NDevice - 1) \X (0 .. NFunction - 1)
Bars == 0 .. NBar - 1

-----------------------------------------------------------------------------
(* Base address registers.  A resource is an I/O range, or a memory range  *)
(* with a 32 or a 64-bit address: the device presents it as one register,  *)
(* or two, with the kind in the low bits.  An address is <<high, low>>.    *)

Resource == [kind: {"io", "mem32", "mem64", "none"}, high: Nat, low: Nat]

(* The firmware has given every resource an address, aligned as the bits   *)
(* of the kind need it; a 64-bit one takes the register behind its own.    *)
Assigned(resource, n) ==
    LET r == resource[n]
    IN CASE r.kind = "io"    -> r.high = 0 /\ r.low % 4 = 0
         [] r.kind = "mem32" -> r.high = 0 /\ r.low % 16 = 0 /\ r.low > 0
         [] r.kind = "mem64" -> /\ r.low % 16 = 0
                                /\ n + 1 \in Bars /\ resource[n + 1].kind = "none"
         [] r.kind = "none"  -> TRUE

(* A function says by its class which driver it is made for.               *)
MadeFor(d) ==
    /\ d.driver = "achi" <=> d.class = 1 /\ d.subclass = 6 /\ d.prog_if = 1
    /\ d.driver = "hda" <=> d.class = 4 /\ d.subclass = 3

ASSUME DeviceAssumption ==
    /\ Absent \notin Devices
    /\ \A d \in Devices :
         /\ d.resource \in [Bars -> Resource]
         /\ \A n \in Bars : Assigned(d.resource, n)
         /\ MadeFor(d)

Presented(r) ==
    CASE r.kind = "io"    -> r.low + 1
      [] r.kind = "mem32" -> r.low
      [] r.kind = "mem64" -> r.low + 4
      [] r.kind = "none"  -> 0

(* The register of slot n: its own resource, or the upper half of the one  *)
(* before.  The word behind the last register is not a base address.       *)
Register(d, n) ==
    IF n > 0 /\ d.resource[n - 1].kind = "mem64"
    THEN d.resource[n - 1].high
    ELSE IF n \in Bars THEN Presented(d.resource[n]) ELSE 0

(* pci_read_bar.                                                           *)
pci_read_bar(d, n) ==
    LET low == Register(d, n)
    IN CASE low % 2 = 1 -> <<0, low - (low % 4)>>
         [] low % 2 = 0 /\ (low \div 2) % 4 = 2
              -> <<Register(d, n + 1), low - (low % 16)>>
         [] OTHER -> <<0, low - (low % 16)>>

(* Mutant: get_bars leaves its loop at a zero register.                     *)
GetBarsStopping(bar, d) ==
    [n \in Bars |->
       IF \E m \in 0 .. n : Register(d, m) = 0 THEN bar[n]
       ELSE pci_read_bar(d, n)]

(* get_bars: a register that reads zero is passed over ("banned") and      *)
(* keeps what the record held before.                                      *)
get_bars(bar, d) ==
    [n \in Bars |->
       IF Register(d, n) = 0 THEN bar[n] ELSE pci_read_bar(d, n)]

(* getdevtype.                                                             *)
getdevtype(class, subclass) ==
    CASE class = 6 \/ (class = 12 /\ subclass # 3) -> "DEV_TYPE_BUS"
      [] class = 9 -> "DEV_TYPE_INPUT"
      [] OTHER -> "DEV_TYPE_CONTROLLER"

(* pci_config: the offset of a function's 4 KiB window, with bus cut to    *)
(* eight bits (to NBus) by the parameter's type.                           *)
pci_config(b, d, f) == (b % NBus) * 1048576 + d * 32768 + f * 4096

-----------------------------------------------------------------------------
(* The drivers' probes.                                                    *)

(* Mutant: the AHCI probe without its programming interface.                *)
ProbeAnyAhci(d, p) ==
    \/ d = "achi" /\ p.class = 1 /\ p.subclass = 6
    \/ d = "hda" /\ p.class = 4 /\ p.subclass = 3

probe(d, p) ==
    \/ d = "achi" /\ p.class = 1 /\ p.subclass = 6 /\ p.prog_if = 1
    \/ d = "hda" /\ p.class = 4 /\ p.subclass = 3

Init ==
    /\ machine \in [config: [Slots -> Devices \cup {Absent}],
                    revision: {0, 2}, rsdp: BOOLEAN, rsdt: BOOLEAN,
                    mcfg: BOOLEAN]
    /\ pc = "achi_init"
    /\ registered_drivers = <<>>
    /\ driver_count = 0
    /\ bus = 0 /\ device = 0 /\ function = 0
    /\ probe_pci = [at |-> <<0, 0, 0>>, class |-> 0, subclass |-> 0,
                    prog_if |-> 0, type |-> "DEV_TYPE_ROOT",
                    bar |-> [n \in Bars |-> Junk]]
    /\ i = 0
    /\ driver = FALSE
    /\ windows = <<>>
    /\ attached = {}
    /\ unclaimed = {}

(* RegisterDriver: a driver that finds every spot taken is only logged.    *)
RegisterDriver(d) ==
    IF driver_count < MAX_DRIVERS
    THEN /\ registered_drivers' = Append(registered_drivers, d)
         /\ driver_count' = driver_count + 1
    ELSE UNCHANGED <<registered_drivers, driver_count>>

scan == <<bus, device, function, probe_pci, i, driver, windows, attached,
          unclaimed>>

(* load_drivers: achi_init, then hda_init.                                 *)
AchiInit ==
    /\ pc = "achi_init"
    /\ RegisterDriver("achi")
    /\ pc' = "hda_init"
    /\ UNCHANGED <<machine, scan>>

HdaInit ==
    /\ pc = "hda_init"
    /\ RegisterDriver("hda")
    /\ pc' = "parse_acpi"
    /\ UNCHANGED <<machine, scan>>

(* parse_acpi: a table of revision 2 is only logged; in the other, a wrong *)
(* checksum of the RSDP or of the RSDT is a panic, and no MCFG is logged.  *)
(* The checksum of the MCFG is computed and not looked at.                 *)
ParseAcpi ==
    /\ pc = "parse_acpi"
    /\ pc' = CASE machine.revision > 1 -> "done"
               [] machine.revision <= 1 /\ ~(machine.rsdp /\ machine.rsdt)
                    -> "panic"
               [] OTHER -> IF machine.mcfg THEN "get_drivers" ELSE "done"
    /\ UNCHANGED <<machine, registered_drivers, driver_count, scan>>

Here == <<bus, device, function>>

(* Mutant: the loops' headers with device not started over on the next bus. *)
AdvanceNoReset ==
    /\ function' = (function + 1) % NFunction
    /\ device' = IF function' # 0 THEN device ELSE device + 1
    /\ bus' = IF function' # 0 \/ device' # NDevice THEN bus ELSE bus + 1

(* The headers of the three loops: bus is sixteen bits wide and passes the *)
(* last bus.                                                               *)
Advance ==
    /\ function' = (function + 1) % NFunction
    /\ device' = IF function' # 0 THEN device ELSE (device + 1) % NDevice
    /\ bus' = IF function' # 0 \/ device' # 0 THEN bus ELSE bus + 1

(* One round of get_drivers up to the drivers: nothing behind the window,  *)
(* or the record filled from it.                                           *)
SkipFunction ==
    /\ pc = "get_drivers" /\ bus < NBus
    /\ machine.config[Here] = Absent
    /\ windows' = Append(windows, pci_config(bus, device, function))
    /\ Advance
    /\ UNCHANGED <<machine, pc, registered_drivers, driver_count, probe_pci,
                   i, driver, attached, unclaimed>>

ReadFunction ==
    /\ pc = "get_drivers" /\ bus < NBus
    /\ machine.config[Here] # Absent
    /\ LET d == machine.config[Here]
       IN probe_pci' = [at |-> Here, class |-> d.class,
                        subclass |-> d.subclass, prog_if |-> d.prog_if,
                        type |-> getdevtype(d.class, d.subclass),
                        bar |-> get_bars(probe_pci.bar, d)]
    /\ windows' = Append(windows, pci_config(bus, device, function))
    /\ driver' = FALSE
    /\ i' = 0
    /\ pc' = "offer"
    /\ UNCHANGED <<machine, registered_drivers, driver_count, bus, device,
                   function, attached, unclaimed>>

(* Mutant: the continue of the drivers loop before the increment.           *)
OfferForever ==
    /\ pc = "offer" /\ i < driver_count
    /\ IF probe(registered_drivers[i + 1], probe_pci)
       THEN /\ attached' = attached \cup
                             {<<probe_pci.at, registered_drivers[i + 1]>>}
            /\ driver' = TRUE
            /\ i' = i
       ELSE i' = i + 1 /\ UNCHANGED <<attached, driver>>
    /\ UNCHANGED <<machine, pc, registered_drivers, driver_count, bus,
                   device, function, probe_pci, windows, unclaimed>>

(* Every registered driver is asked, also after one has attached; the      *)
(* attach functions of both drivers succeed.                               *)
Offer ==
    /\ pc = "offer" /\ i < driver_count
    /\ IF probe(registered_drivers[i + 1], probe_pci)
       THEN /\ attached' = attached \cup
                             {<<probe_pci.at, registered_drivers[i + 1]>>}
            /\ driver' = TRUE
       ELSE UNCHANGED <<attached, driver>>
    /\ i' = i + 1
    /\ UNCHANGED <<machine, pc, registered_drivers, driver_count, bus,
                   device, function, probe_pci, windows, unclaimed>>

FunctionDone ==
    /\ pc = "offer" /\ i = driver_count
    /\ unclaimed' = IF driver THEN unclaimed
                    ELSE unclaimed \cup {probe_pci.at}
    /\ Advance
    /\ pc' = "get_drivers"
    /\ UNCHANGED <<machine, registered_drivers, driver_count, probe_pci, i,
                   driver, windows, attached>>

ScanDone ==
    /\ pc = "get_drivers" /\ bus = NBus
    /\ pc' = "done"
    /\ UNCHANGED <<machine, registered_drivers, driver_count, scan>>

Next ==
    \/ AchiInit \/ HdaInit \/ ParseAcpi
    \/ SkipFunction \/ ReadFunction \/ Offer \/ FunctionDone \/ ScanDone

Spec == Init /\ [][Next]_vars /\ WF_vars(Next)

-----------------------------------------------------------------------------
Address == Int \X Int

(* The type invariant: the loop counters stay below their bounds, bus      *)
(* passes its own by one at the end, and the table never overflows.        *)
TypeOK ==
    /\ pc \in {"achi_init", "hda_init", "parse_acpi", "get_drivers", "offer",
               "done", "panic"}
    /\ driver_count \in 0 .. MAX_DRIVERS
    /\ registered_drivers \in [1 .. driver_count -> Drivers]
    /\ bus \in 0 .. NBus
    /\ device \in 0 .. NDevice - 1
    /\ function \in 0 .. NFunction - 1
    /\ probe_pci.at \in Slots
    /\ \A n \in Bars : probe_pci.bar[n] = Junk \/ probe_pci.bar[n] \in Address
    /\ i \in 0 .. driver_count
    /\ driver \in BOOLEAN
    /\ attached \subseteq Slots \X Drivers
    /\ unclaimed \subseteq Slots

(* The order of the scan, and the functions present up to a slot.          *)
Before(s, t) ==
    \/ s[1] < t[1]
    \/ s[1] = t[1] /\ (s[2] < t[2] \/ (s[2] = t[2] /\ s[3] < t[3]))
UpTo(s) == {t \in Slots : machine.config[t] # Absent /\ (t = s \/ Before(t, s))}

(* Slot n of the record has the address of the latest of these functions   *)
(* with something in that register, or, if there was none, what the stack  *)
(* held when get_drivers began.                                            *)
BarFrom(config, bar, n, functions) ==
    LET filled == {s \in functions : Register(config[s], n) # 0}
    IN \/ filled = {} /\ bar = Junk
       \/ \E s \in filled :
            /\ \A t \in filled : t = s \/ Before(t, s)
            /\ bar = pci_read_bar(config[s], n)

(* While a function is offered to the drivers, every resource the function *)
(* really has is in the record at its slot, with the address the firmware  *)
(* gave it: pci_read_bar undoes the encoding, of both halves of a 64-bit   *)
(* address, and get_bars loses none, whatever functions came before.  The  *)
(* slots that do not belong to the function are exactly those whose        *)
(* register reads zero, because get_bars passes over them: such a slot     *)
(* holds the address of the latest function before it with something in    *)
(* that register, or, if there was none, what the stack held when          *)
(* get_drivers began.                                                      *)
BarsOnOffer ==
    pc = "offer" =>
      \A n \in Bars :
        LET own == machine.config[probe_pci.at].resource[n]
        IN /\ own.kind # "none" => probe_pci.bar[n] = <<own.high, own.low>>
           /\ BarFrom(machine.config, probe_pci.bar[n], n, UpTo(probe_pci.at))

(* No register of a function is read unless both of the firmware's root    *)
(* tables were valid and led to an MCFG; the windows read are in order,    *)
(* none twice, none outside the NBus megabytes that virtual_memory_init    *)
(* maps; and, once the scan is over, each function present has the one     *)
(* driver made for it, or was reported as without one: no function is      *)
(* lost, claimed twice, or both.                                           *)
EveryFunctionSettled ==
    /\ \A j, k \in DOMAIN windows : j < k => windows[j] < windows[k]
    /\ \A j \in DOMAIN windows : windows[j] \in 0 .. NBus * 1048576 - 1
    /\ windows # <<>> =>
         /\ machine.revision <= 1
         /\ machine.rsdp /\ machine.rsdt /\ machine.mcfg
    /\ bus = NBus =>
         LET Present == {s \in Slots : machine.config[s] # Absent}
             For(s) == machine.config[s].driver
         IN /\ attached = {<<s, For(s)>> : s \in {t \in Present : For(t) \in Drivers}}
            /\ unclaimed = {s \in Present : For(s) \notin Drivers}

(* The device scan reads every resource of a function into its own record  *)
(* and settles every function once.                                        *)
DevicesSettled == TypeOK /\ BarsOnOffer /\ EveryFunctionSettled

(* The device scan ends, in a panic or back in kentry: no counter wraps    *)
(* below the bound its loop waits for.                                     *)
ScanEnds == <>(pc \in {"done", "panic"})

-----------------------------------------------------------------------------
(* The inductive invariant.                                                *)

(* load_drivers: what is registered, and that nothing is scanned before.   *)
Registered ==
    /\ registered_drivers = CASE pc = "achi_init" -> <<>>
                              [] pc = "hda_init" -> <<"achi">>
                              [] OTHER -> <<"achi", "hda">>
    /\ driver_count = Len(registered_drivers)
    /\ pc \in {"achi_init", "hda_init", "parse_acpi"} =>
         /\ bus = 0 /\ device = 0 /\ function = 0
         /\ windows = <<>> /\ attached = {} /\ unclaimed = {}
         /\ \A n \in Bars : probe_pci.bar[n] = Junk
    /\ bus = NBus => device = 0 /\ function = 0

(* The windows read end at, or before, the one the scan is at.             *)
Position == bus * 1048576 + device * 32768 + function * 4096
WindowsInOrder ==
    /\ windows \in Seq(0 .. NBus * 1048576 - 1)
    /\ \A j, k \in DOMAIN windows : j < k => windows[j] < windows[k]
    /\ \A j \in DOMAIN windows :
         windows[j] < Position \/ (pc = "offer" /\ windows[j] = Position)
    /\ pc \in {"get_drivers", "offer"} \/ windows # <<>> =>
         machine.revision <= 1 /\ machine.rsdp /\ machine.rsdt /\ machine.mcfg

(* The record is the function's the scan is at; and who has been asked.    *)
OnOffer ==
    pc = "offer" =>
      /\ Here \in Slots /\ machine.config[Here] # Absent /\ probe_pci.at = Here
      /\ LET d == machine.config[Here]
         IN /\ probe_pci.class = d.class /\ probe_pci.subclass = d.subclass
            /\ probe_pci.prog_if = d.prog_if
Asked(d) == (d = "achi" /\ i >= 1) \/ (d = "hda" /\ i >= 2)

(* What is settled: the functions passed, and the one on offer as far as   *)
(* the drivers have been asked.                                            *)
Passed == {t \in Slots : machine.config[t] # Absent /\ Before(t, Here)}
SettledSoFar ==
    /\ \A s \in Slots, d \in Drivers :
         <<s, d>> \in attached <=>
           /\ s \in Passed \/ (pc = "offer" /\ s = Here /\ Asked(d))
           /\ machine.config[s].driver = d
    /\ \A s \in Slots : s \in unclaimed <=> s \in Passed /\ machine.config[s].driver \notin Drivers
    /\ pc = "offer" => (driver <=> \E d \in Drivers : Asked(d) /\ machine.config[Here].driver = d)

BarsSoFar ==
    \A n \in Bars :
      /\ pc = "get_drivers" => BarFrom(machine.config, probe_pci.bar[n], n, Passed)
      /\ pc = "offer" => BarFrom(machine.config, probe_pci.bar[n], n, UpTo(Here))

Inv ==
    /\ machine.config \in [Slots -> Devices \cup {Absent}] /\ machine.revision \in Nat
    /\ TypeOK /\ Registered /\ WindowsInOrder /\ OnOffer /\ SettledSoFar /\ BarsSoFar
=============================================================================
