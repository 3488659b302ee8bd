------------------------------ MODULE MCStartup ------------------------------
(* From the firmware's memory map to the kernel's first pages, six         *)
(* components side by side: the loader's memory map and allocators, its    *)
(* ELF, Multiboot, Limine and Linux protocols, and the kernel's start with *)
(* memory_init.  The variable `scene' says which of them a behaviour is    *)
(* about; the kernel's variables keep their initial values in the others,  *)
(* and the other components' are 0.                                        *)
(*                                                                         *)
(* The kernel: maps of one or two disjoint regions, with pages of 2 * 3    *)
(* bytes, low memory of two pages and a list of five.  The loader's inputs *)
(* follow, those of the Limine protocol first.                             *)
EXTENDS Startup

CONSTANTS PageSize, Ebda, OneMeg, FourGig, TopOfRam, MaxMap, E820Maps, EfiMaps,
          ClaimMax, ClaimMin, ClaimFallback, OwnTop, MaxMemOps,
          AddrMod, HigherHalf, ElfPage, RelrBits, MaxTries, MaxImage, ElfFiles,
          MbPages, InfoTarget, LowMeg, MaxRetries, MbMaps, Kernels, MbModules, TagSize,
          Pages, FourGiB, GiB, HalfPages, MaxRequests, Machines, Executables, Users,
          MiB, Top32, TopMem, E820_MAX, LinuxJobs

VARIABLES scene,
          loader_memmap, fw, convBase, live, last, mem,
          elf, image, relocs, ranges,
          mb, memType, moves, cont, onLoader,
          mach, lim, phys, resp, pmap,
          lx, ln, ram, free, e820

Memory == INSTANCE BootMemory WITH memmap <- loader_memmap
Elf == INSTANCE ElfLoad
Mb == INSTANCE Multiboot
Lim == INSTANCE LimineProtocol
Lx == INSTANCE LinuxLoad

(* Images of every base revision, with markers and requests in and out of  *)
(* place, truncated and doubled; machines of twenty-one pages, the         *)
(* boundary of 4 GiB at the tenth, with memory, tables and framebuffers on *)
(* both sides of it, some of which share pages; two paging modes, of which *)
(* the smaller has no room for a framebuffer in the last page when the     *)
(* direct map starts at its highest base.                                  *)
MCHalf == [m \in 0..1 |-> IF m = 0 THEN 30 ELSE 64]

X == <<"x">>
Req(id) == <<<<"req", id, 5>>, X, X, X, X>>
Rev(k) == <<<<"rev", k>>, X, X>>
St == <<<<"start">>, X, X, X>>
En == <<<<"end">>, X>>
MCImages ==
  {Rev(k) \o Req("rsdp") \o Req("fb") \o Req("mp") \o Req("memmap") : k \in 0..7}
  \cup {Rev(k) \o Req("gst") \o Req("smbios") \o Req("pm") \o Req("module") : k \in 2..5}
  \cup {Rev(1) \o Req("mp") \o St \o Rev(4) \o Req("rsdp") \o En \o Rev(2) \o Req("mp"),
        Rev(4) \o Rev(4), St \o Rev(2) \o St \o Req("pm"),
        Req("mp") \o St \o Req("mp") \o En, Req("mp") \o Req("mp"),
        Rev(5) \o <<<<"req", "fb", 5>>, X, X, X>>, Rev(3) \o <<<<"start">>, X, X>>,
        Rev(6) \o Req("entry") \o Req("stack") \o Req("dtb") \o Req("tsc"),
        Rev(3) \o Req("flanterm") \o Req("fb") \o Req("entropy"), Rev(4) \o Req("flanterm") \o Req("tpm"),
        Rev(1) \o Req("rsdp") \o Req("gst") \o Req("fb") \o Req("mp") \o Req("date"),
        Rev(5) \o Req("iommu") \o Req("hhdm") \o Req("perf") \o Req("efimap"),
        St \o Rev(6) \o Req("info") \o Req("date") \o <<<<"end">>>>}

Paging(rev1, mode, min, max) == [asked |-> TRUE, rev1 |-> rev1, mode |-> mode, min |-> min, max |-> max]
MCPaging == {Paging(FALSE, m, 0, 0) : m \in 0..2}
            \cup {Paging(TRUE, 1, 1, 1), Paging(TRUE, 0, 0, 1), Paging(TRUE, 0, 1, 0)}
Module(a, there, required) == [at |-> a, there |-> there, required |-> required]
MCModules == {<<>>, <<Module(4, FALSE, FALSE), Module(-1, TRUE, TRUE)>>,
              <<Module(-1, FALSE, TRUE)>>, <<Module(17, FALSE, FALSE)>>}

Asks(img, id) == \E k \in DOMAIN img : img[k] = <<"req", id, 5>>
MCExecutables ==
  {e \in [image : MCImages, section : {<<0>>, <<>>, <<9, 4>>, <<22>>}, modules : MCModules, pm : MCPaging] :
     /\ Asks(e.image, "pm") \/ e.pm = Paging(FALSE, 0, 0, 0)
     /\ Asks(e.image, "module") \/ e.modules = <<>>
     /\ e.section = <<0>> \/ e.image[1] = <<"rev", 0>>}

At2(a, k) == [at |-> a, len |-> k]
MemoryOf(top) == [u \in 0..41 |->
   CASE u \in {0, 1} \cup 6..15 \cup 20..23 -> "usable"
     [] u \in {2, 3, 18, 19, 24, 25, 26, 27} -> "reserved"
     [] u \in {4, 5} -> "acpi"
     [] u \in {16, 17} -> "loader"
     [] u \in {36, 37} -> top
     [] OTHER -> "none"]
MachineUpTo(bits, top, rsdp, fbs, modes) ==
  [types |-> MemoryOf(top), acpi |-> IF rsdp < 0 THEN <<>> ELSE <<At2(rsdp, 1), At2(3, 2)>>,
   smbios |-> IF rsdp < 0 THEN <<>> ELSE <<At2(IF rsdp = 24 THEN 18 ELSE 24, 1)>>,
   services |-> {13}, rsdp |-> rsdp, gst |-> 25, fbs |-> fbs, modes |-> modes, maxphys |-> bits,
   has |-> IF modes = 1 THEN {"dtb", "clock", "tpm"} ELSE {}]
Machine(top, rsdp, fbs, modes) == MachineUpTo(21, top, rsdp, fbs, modes)
MCMachines ==
  {Machine("none", -1, <<>>, 0), Machine("none", 2, <<At2(19, 1)>>, 1), Machine("usable", 24, <<At2(29, 2)>>, 1),
   Machine("usable", 2, <<At2(21, 2)>>, 0), Machine("none", 2, <<At2(29, 1), At2(17, 3)>>, 1),
   Machine("none", 24, <<At2(29, 2), At2(21, 2)>>, 0), Machine("none", 2, <<At2(40, 2)>>, 0),
   MachineUpTo(12, "none", 2, <<>>, 0)}

Unset == -2
Invalid == -3
User(mode, min, max, random) == [mode |-> mode, min |-> min, max |-> max, random |-> random]
MCUsers == {User(Unset, Unset, Unset, TRUE), User(Unset, 1, Unset, FALSE), User(Unset, Unset, 0, FALSE),
            User(Unset, 1, 0, FALSE), User(1, 0, 0, FALSE), User(Unset, Unset, Invalid, FALSE)}

(* Maps over sixteen bytes with pages of two: BIOS maps whose entries      *)
(* overlap, nest, touch the hole below 1 MiB and end inside pages, and     *)
(* UEFI maps, of which the firmware may refuse any page.                   *)
Of(type, b, t) == [base |-> b, len |-> t - b, type |-> type]
Us(b, t) == Of("usable", b, t)
Rs(b, t) == Of("reserved", b, t)

MCE820 ==
  {<<Us(0, 5), Us(6, 16)>>, <<Us(0, 3), Us(8, 15), Rs(10, 12)>>,
   <<Us(0, 9), Rs(7, 11), Us(8, 16)>>, <<Us(0, 4), Us(7, 13), Rs(9, 9), Us(10, 16)>>,
   <<Us(0, 4), Us(7, 13), Rs(13, 16)>>}
  \cup {<<Us(0, 4), Us(b, t), Rs(c, d)>> : b \in {5, 6, 8}, t \in {12, 16}, c \in {6, 9}, d \in {9, 13, 16}}

MCEfi ==
  {<<Of("conventional", 0, 8), Of("loader", 8, 10), Of("runtime", 10, 12), Of("conventional", 12, 16)>>,
   <<Of("boot", 0, 2), Of("loader", 2, 4), Of("conventional", 4, 14), Of("acpi", 14, 16)>>}

(* Executables of two segments, fixed and relocatable, linked low and in   *)
(* the top half, whose segments share pages or not, with and without       *)
(* relocations of every kind, some of them between segments or unresolved, *)
(* and packed ones with several bitmaps.                                   *)
Ph(k, v, off, fs, ms, fl, al) ==
  [k |-> k, vaddr |-> v, paddr |-> (v * 3) % 7, off |-> off, filesz |-> fs, memsz |-> ms, flags |-> fl, align |-> al]
DynPh == Ph("dynamic", 0, 0, 2, 2, "rw", 1)
Reloc(i, a, d, s) == [info |-> i, addr |-> a, addend |-> d, sym |-> s]
Sym(undef, weak, abs, value) == [undef |-> undef, weak |-> weak, abs |-> abs, value |-> value]
MCSyms == <<Sym(FALSE, FALSE, FALSE, 3), Sym(FALSE, FALSE, TRUE, 5),
            Sym(TRUE, TRUE, FALSE, 0), Sym(TRUE, FALSE, FALSE, 0)>>

PhSets(low) ==
  {<<Ph("load", low + b, 0, 3, 4, "rx", 4), Ph("load", low + c, off, fs, ms, fl, al)>> :
     b \in {0, 1}, c \in {4, 5, 6}, off \in {4, 8}, fs \in {2, 4}, ms \in {3, 6}, fl \in {"rx", "rw"}, al \in {0, 8}}
TwoPh(low) == <<Ph("load", low, 0, 3, 4, "rx", 4), Ph("load", low + 4, 4, 2, 5, "rw", 4)>>
Relas(low) ==
  {<<>>, <<Reloc("relative", low + 2, 3, 0), Reloc("abs64", low + 6, 1, 2), Reloc("glob_dat", low + 7, 0, 3)>>}
  \cup {<<Reloc(i, low + a, 2, s)>> :
          i \in {"relative", "glob_dat", "abs64", "none", "unknown"}, a \in {1, 3, 6}, s \in {1, 4}}
Relrs(low) == {<<>>, <<low + 2, 7>>, <<low, 5, 9>>, <<1, low + 6>>}

File(d, low, ph, rr, ra) ==
  [valid |-> TRUE, tables |-> TRUE, dyn |-> d, phdrs |-> IF d THEN Append(ph, DynPh) ELSE ph,
   relr |-> rr, rela |-> ra, syms |-> MCSyms, size |-> 10, entry |-> low]

MCElfFiles ==
  {File(TRUE, b, ph, <<>>, <<>>) : b \in {0, 52}, ph \in PhSets(0)}
  \cup UNION {{File(TRUE, b, TwoPh(b), rr, ra) : rr \in Relrs(b), ra \in Relas(b)} : b \in {0, 52}}
  \cup UNION {{File(FALSE, 52, ph, <<>>, <<>>), [File(FALSE, 52, ph, <<>>, <<>>) EXCEPT !.valid = FALSE],
               [File(TRUE, 52, ph, <<>>, <<>>) EXCEPT !.tables = FALSE]} : ph \in PhSets(52)}

(* Kernels of both versions linked at the bottom, in the middle and at the *)
(* top of fourteen pages, and relocatable ones; none, one or two modules;  *)
(* and maps where the loader or the firmware is in the way.                *)
Fixed == [align |-> 0]
Rel(a, lo, hi, h) == [align |-> a, min |-> lo, max |-> hi, highest |-> h]

MCKernels ==
  {[valid |-> TRUE, entry |-> 0, ver |-> v, required |-> {}, len |-> k, load |-> l, reloc |-> Fixed, sections |-> s] :
     v \in {1, 2}, k \in {1, 2}, l \in {1, 4, 9, 11}, s \in {0, 1}}
  \cup {[valid |-> s = 0 \/ ~h, entry |-> IF s = 1 THEN 2 ELSE a - 1, ver |-> 2, len |-> 2, load |-> 4,
         required |-> IF h THEN {"fb"} ELSE IF a = 2 THEN {"vbe"} ELSE {"acpi"}, reloc |-> Rel(a, lo, hi, h), sections |-> s] :
          a \in {1, 2}, lo \in {0, 5}, hi \in {8, 14}, h \in BOOLEAN, s \in {0, 1}}

MCMbModules == {<<>>, <<1>>, <<2, 1>>}

Map(loader, resv) ==
  [q \in 0..(MbPages - 1) |-> IF q \in loader THEN "bootloader" ELSE IF q \in resv THEN "reserved" ELSE "usable"]
MCMaps == {Map(l, r) : l \in {{0}, {0, 6}, {0, 13}}, r \in {{}, {3}, {9, 10}}}

MCTags == [start |-> 1, elf |-> 1, base |-> 1, cmdline |-> 1, name |-> 1, fb |-> 2, acpi |-> 1, smbios |-> 1,
           mmap |-> 2, meminfo |-> 1, network |-> 1, end |-> 1]

(* Kernels of the protocol versions in which the rules change, modules of  *)
(* lengths that need padding and one too large for any place, memory with  *)
(* holes and above 4 GiB, maps that overflow the zero page, and the other  *)
(* architectures with and without a text offset.                           *)
Raw(s) == [i \in 1..Len(s) |-> [type |-> s[i], id |-> i]]
Base == [arch |-> "x86", uefi64 |-> FALSE, version |-> 524, align |-> 2, pref |-> 2, init |-> 12,
         file |-> 5, reloc |-> TRUE, xlf |-> FALSE, initrdMax |-> 10, defaultTop |-> 6,
         modules |-> <<3, 4, 1>>, free |-> 1..11, raw |-> Raw(<<"usable", "loader", "reserved", "usable">>),
         rawMax |-> 5, bad |-> FALSE, missing |-> FALSE, jump |-> 1, text |-> 0, headroom |-> 8, gib |-> 4, window |-> 8]

Frees == {1..11, {1, 4, 5, 6, 7, 8}, {2, 3, 4, 12, 13}, {1, 2, 9, 10, 11, 12, 13}, {3}, {6, 7, 8}}
Head3(v, a, pref) == [version |-> v, align |-> a, pref |-> pref]
Heads == {Head3(514, 4, 0), Head3(517, 2, 0), Head3(519, 4, 3), Head3(522, 2, 4), Head3(524, 1, 12), Head3(524, 4, 4)}

MCJobs ==
  {[Base EXCEPT !.version = h.version, !.align = h.align, !.pref = h.pref, !.free = f, !.reloc = r,
                !.xlf = x, !.uefi64 = x, !.modules = m, !.initrdMax = i] :
     h \in Heads, f \in Frees, r \in BOOLEAN, x \in BOOLEAN, m \in {<<>>, <<3, 4, 1>>, <<5>>, <<70>>}, i \in {0, 8, 10}}
  \cup {[Base EXCEPT !.bad = TRUE], [Base EXCEPT !.missing = TRUE], [Base EXCEPT !.version = 520],
        [Base EXCEPT !.version = 520, !.raw = Raw(<<"usable", "loader", "reserved">>)],
        [Base EXCEPT !.raw = Raw(<<"usable", "usable", "loader", "usable", "reserved", "usable">>), !.rawMax = 6]}
  \cup {[Base EXCEPT !.arch = a, !.text = t, !.init = i, !.free = f, !.modules = m] :
          a \in {"aarch64", "riscv", "loongarch"}, t \in {0, 1}, i \in {0, 9},
          f \in {1..11, {2, 3, 4, 5, 11, 12, 13}, {2}}, m \in {<<>>, <<3, 4>>}}

Regions == [type : {"usable", "reclaimable", "other"}, base : {0, 3, 6, 12, 18}, length : {0, 2, 5, 6}]

Disjoint(r, s) == r.base + r.length <= s.base \/ s.base + s.length <= r.base

MCMemmaps == {<<r>> : r \in Regions}
        \cup {m \in Regions \X Regions : Disjoint(m[1], m[2])}

memVars == <<loader_memmap, fw, convBase, live, last, mem>>
elfVars == <<elf, image, relocs, ranges>>
mbVars == <<mb, memType, moves, cont, onLoader>>
limVars == <<mach, lim, phys, resp, pmap>>
linuxVars == <<lx, ln, ram, free, e820>>
loadVars == <<scene, allVars, memVars, elfVars, mbVars, limVars, linuxVars>>

SomeMap == CHOOSE m \in MCMemmaps : TRUE
KernelRests == memmap = SomeMap /\ missing = "none" /\ acpi = "good" /\ StartupInit
NoMemory == loader_memmap = 0 /\ fw = 0 /\ convBase = 0 /\ live = 0 /\ last = 0 /\ mem = 0
NoElf == elf = 0 /\ image = 0 /\ relocs = 0 /\ ranges = 0
NoMb == mb = 0 /\ memType = 0 /\ moves = 0 /\ cont = 0 /\ onLoader = 0
NoLim == mach = 0 /\ lim = 0 /\ phys = 0 /\ resp = 0 /\ pmap = 0
NoLinux == lx = 0 /\ ln = 0 /\ ram = 0 /\ free = 0 /\ e820 = 0

LoadInit ==
  /\ scene \in {"kernel", "memory", "elf", "multiboot", "limine", "linux"}
  /\ IF scene = "kernel" THEN StartupInit ELSE KernelRests
  /\ IF scene = "memory" THEN Memory!MemInit ELSE NoMemory
  /\ IF scene = "elf" THEN Elf!ElfInit ELSE NoElf
  /\ IF scene = "multiboot" THEN Mb!MbInit ELSE NoMb
  /\ IF scene = "limine" THEN Lim!LimInit ELSE NoLim
  /\ IF scene = "linux" THEN Lx!LinuxInit ELSE NoLinux

KernelNext == scene = "kernel" /\ StartupNext

LoadNext ==
  \/ KernelNext /\ UNCHANGED <<scene, memVars, elfVars, mbVars, limVars, linuxVars>>
  \/ scene = "memory" /\ Memory!MemNext /\ UNCHANGED <<scene, allVars, elfVars, mbVars, limVars, linuxVars>>
  \/ scene = "elf" /\ Elf!ElfNext /\ UNCHANGED <<scene, allVars, memVars, mbVars, limVars, linuxVars>>
  \/ scene = "multiboot" /\ Mb!MbNext /\ UNCHANGED <<scene, allVars, memVars, elfVars, limVars, linuxVars>>
  \/ scene = "limine" /\ Lim!LimNext /\ UNCHANGED <<scene, allVars, memVars, elfVars, mbVars, linuxVars>>
  \/ scene = "linux" /\ Lx!LinuxNext /\ UNCHANGED <<scene, allVars, memVars, elfVars, mbVars, limVars>>

(* The bootstrap CPU keeps executing.                                      *)
LoadSpec == LoadInit /\ [][LoadNext]_loadVars /\ WF_allVars(KernelNext)

(* The kernel's start ends, whatever the memory map: in the watchdog, or   *)
(* in one of the four ways to fail (StartupOver of Startup).               *)
StartupEnds == <>(scene = "kernel" => StartupOver)

(* The loader's map never hands out an address the firmware or an earlier  *)
(* allocation holds, loses no usable memory, and reaches a kernel in whole *)
(* pages (the invariants of BootMemory).                                   *)
LoaderMemoryRight ==
  scene = "memory" =>
    /\ Memory!MemTypeOK /\ Memory!UsableIsUsable /\ Memory!UsableIsKept /\ Memory!AllocationsApart
    /\ Memory!ClaimedExactly /\ Memory!HandsOnPages /\ Memory!ChecksRamRight

(* A step that enters a range in a memory map takes nothing else: an       *)
(* allocation changes no address outside its range (OnlyTheRangeChanges of *)
(* BootMemory), and rounding a firmware table out to pages gives up only   *)
(* memory that holds nothing (PaddingSafe of LimineProtocol).              *)
LoaderMapKept ==
  [][/\ scene = "memory" => Memory!OnlyTheRangeChanges
     /\ scene = "limine" => Lim!PaddingSafe]_loadVars

(* A kernel that is entered is its file, relocated and whole, where its    *)
(* headers allow it, with its modules, sections and information beside it  *)
(* and not on top (the invariants of ElfLoad, Multiboot and LinuxLoad).    *)
ImagesRight ==
  /\ scene = "elf" => /\ Elf!ElfTypeOK /\ Elf!ImageRight /\ Elf!RelrExact /\ Elf!SlideRight
                      /\ Elf!ElsewhereRight
  /\ scene = "multiboot" => /\ Mb!MbTypeOK /\ Mb!EverythingArrives /\ Mb!TargetsApart
                            /\ Mb!EntersInside /\ Mb!InfoFits
  /\ scene = "linux" => /\ Lx!LinuxTypeOK /\ Lx!KernelWhole /\ Lx!InitrdRight /\ Lx!E820Right
                        /\ Lx!GivesUpWithoutRoom

(* The Limine protocol answers the requests of one window of the image, in *)
(* a paging mode all sides allow, and what it reports is mapped, kept from *)
(* reuse, and cached as it must be (the invariants of LimineProtocol).     *)
HandoverRight ==
  scene = "limine" => /\ Lim!LimTypeOK /\ Lim!WindowRight /\ Lim!PagingRight
                      /\ Lim!ReportedIsMapped /\ Lim!ReportedIsKept /\ Lim!CachingRight
=============================================================================
