----------------------------- MODULE Multiboot -----------------------------
(***************************************************************************)
(* Multiboot 1 and 2 (src/limine/common/protos/multiboot1.c, multiboot2.c, *)
(* lib/elsewhere.c, and the stub of protos/multiboot_reloc.asm_x86).       *)
(*                                                                         *)
(* The executable, the boot information, the ELF sections and the modules  *)
(* are staged in memory the loader allocates ("sources") and moved to      *)
(* where the kernel wants them ("targets") by a stub, when the loader is   *)
(* no longer needed.  Memory is pages; memType is the loader's map, and    *)
(* cont the content of a page, which at first is its own number.           *)
(***************************************************************************)
EXTENDS Integers, Sequences, FiniteSets, SequencesExt

CONSTANTS MbPages,     \* pages below 4 GiB
          InfoTarget,  \* 0x10000
          LowMeg,      \* 0x100000
          MaxRetries,  \* max_retries
          MbMaps,      \* the loader's maps to start from
          Kernels,     \* [valid, ver, required, len, load, entry, reloc (preference, min, max, align or 0), sections]
          MbModules,   \* sequences of module lengths
          TagSize      \* size of each part of the information, by name

VARIABLES mb,       \* the protocol: where it is, the kernel, the array, the stub
          memType,  \* page -> "usable", "bootloader", "kernel", "reserved"
          moves,    \* the elsewhere ranges: [src, target, len]
          cont,     \* page -> content, while the stub runs
          onLoader  \* history: a target covers memory the loader was using
mbVars == <<mb, memType, moves, cont, onLoader>>

AllPages == 0..(MbPages - 1)
Span(b, n) == b..(b + n - 1)
Meets(b1, n1, b2, n2) == b1 < b2 + n2 /\ b2 < b1 + n1
NoPage == -1

\* Runs of one type are the map's entries: the sanitiser merges neighbours.
InRun(mt, b, n, t) == b + n <= MbPages /\ \A p \in Span(b, n) : mt[p] = t
ext_mem_alloc(mt, n) ==   \* from the top of the highest entry it fits in
  LET fit == {b \in AllPages : InRun(mt, b, n, "usable")}
  IN  IF fit = {} THEN NoPage ELSE Max(fit)
Mark(mt, b, n, t) == [p \in AllPages |-> IF p \in Span(b, n) THEN t ELSE mt[p]]
\* Mutant: a target stays free for the allocations that follow.
TargetNotReserved(mt, b, n) == mt
elsewhere_reserve_target(mt, b, n) == [p \in AllPages |-> IF p \in Span(b, n) /\ mt[p] = "usable" THEN "bootloader" ELSE mt[p]]
check_usable(mt, b, n) == b + n <= MbPages /\ \A p \in Span(b, n) : mt[p] # "reserved"
LoaderIn(mt, b, n) == \E p \in Span(b, n) : mt[p] \in {"bootloader", "kernel"}

MbInit == /\ \E k \in Kernels, ms \in MbModules :
               mb = [at |-> "load", kernel |-> k, mods |-> ms, sects |-> k.sections, file |-> NoPage, arr |-> NoPage,
                     entry |-> k.load + k.entry, info |-> NoPage, stub |-> NoPage, size |-> 0, used |-> 0, i |-> 1]
          /\ memType \in MbMaps
          /\ moves = <<>> /\ cont = [p \in AllPages |-> p] /\ onLoader = FALSE
MbPanic == mb' = [mb EXCEPT !.at = "panic"] /\ UNCHANGED <<memType, moves, cont, onLoader>>

-----------------------------------------------------------------------------
\* The executable's target: where it was linked, or for a relocatable one the
\* first window, upwards or downwards, of real memory the loader does not use.
Viable(mt, b, n) == check_usable(mt, b, n) /\ ~LoaderIn(mt, b, n)
Relocated(mt, k) ==
  LET r == k.reloc
      windows == {b \in r.min..(r.max - k.len) : b % r.align = 0 /\ Viable(mt, b, k.len)}
  IN  IF windows = {} THEN NoPage ELSE IF r.highest THEN Max(windows) ELSE Min(windows)

\* The header: found, its checksum right and, with Multiboot 2, no tag that is
\* required and not known.
HeaderOk(k) == k.valid
SupportedTags == {"cmdline", "name", "modules", "mmap", "smbios", "meminfo", "fb", "acpi", "elf", "base", "network"}
TagsOk(k) == k.ver = 2 => k.required \subseteq SupportedTags

\* The parts of the information, measured before any of it is written.
SizeOfTags(ts) == FoldSet(LAMBDA t, n : n + TagSize[t], 0, ts)
get_multiboot1_info_size(k, ms) == SizeOfTags({"start", "cmdline", "name", "mmap"}) + Len(ms) + k.sections
get_multiboot2_info_size(k, ms) == SizeOfTags(DOMAIN TagSize) + Len(ms) + k.sections

\* The file, its image beside it, and the one range there is so far.
Staged(mt, k) ==
  LET file == ext_mem_alloc(mt, k.len)
      m1 == Mark(mt, file, k.len, "kernel")
      src == ext_mem_alloc(m1, k.len)
      m2 == Mark(m1, src, k.len, "bootloader")
      old == ext_mem_alloc(m2, 1)
  IN  [file |-> file, src |-> src, old |-> old, mem |-> Mark(m2, old, 1, "bootloader")]

\* Multiboot 1 takes the array of ranges before it reserves the target, 2 after.
WithArray(mt, k, target, old) ==
  LET early == IF k.ver = 2 THEN elsewhere_reserve_target(mt, target, k.len) ELSE mt
      arr == ext_mem_alloc(early, 1)
      taken == Mark(Mark(early, arr, 1, "bootloader"), old, 1, "usable")
  IN  [arr |-> arr, onLoader |-> LoaderIn(IF k.ver = 2 THEN mt ELSE taken, target, k.len),
       mem |-> IF k.ver = 1 THEN elsewhere_reserve_target(taken, target, k.len) ELSE taken]

EntryInside(k) == k.entry < k.len

LoadExecutable ==
  /\ mb.at = "load"
  /\ LET k == mb.kernel
         st == Staged(memType, k)
         target == IF k.ver = 2 /\ k.reloc.align # 0 THEN Relocated(st.mem, k) ELSE k.load
         wa == WithArray(st.mem, k, target, st.old)
         size == IF k.ver = 1 THEN get_multiboot1_info_size(k, mb.mods) ELSE get_multiboot2_info_size(k, mb.mods)
     IN  IF \/ ~HeaderOk(k) \/ ~TagsOk(k) \/ ~EntryInside(k)
            \/ NoPage \in {st.file, st.src, st.old, target} \/ ~check_usable(st.mem, target, k.len)
            \/ wa.arr = NoPage
         THEN MbPanic
         ELSE /\ memType' = wa.mem
              /\ moves' = <<[src |-> st.src, target |-> target, len |-> k.len]>>
              /\ onLoader' = wa.onLoader
              /\ mb' = [mb EXCEPT !.at = "info", !.file = st.file, !.arr = wa.arr, !.entry = @ + (target - k.load), !.size = size]
              /\ UNCHANGED cont

-----------------------------------------------------------------------------
\* elsewhere_append(): the target moves up past whatever it meets until it
\* meets nothing; a relocatable kernel's parts may start over at 1 MiB once.
Wraparound == mb.kernel.ver = 2 /\ mb.kernel.reloc.align # 0
RunsOf(mt) == {<<b, t>> \in AllPages \X (1..MbPages) :
                 /\ b < t /\ \E ty \in {"usable", "bootloader"} :
                      /\ \A p \in b..(t - 1) : mt[p] = ty
                      /\ b = 0 \/ mt[b - 1] # ty
                      /\ t = MbPages \/ mt[t] # ty}
elsewhere_next_memmap_candidate(mt, target, n) ==
  LET ups == {r[1] : r \in {x \in RunsOf(mt) : x[2] > target /\ target < x[1] /\ x[2] - x[1] >= n}}
             \cup {r[2] : r \in {x \in RunsOf(mt) : x[2] > target /\ target >= x[1]}}
  IN  IF ups = {} THEN NoPage ELSE Min(ups)

RECURSIVE Settled(_, _, _, _, _, _, _)
Settled(mt, rs, t, n, i, wrapped, left) ==
  LET again(t2) == Settled(mt, rs, t2, n, 1, wrapped, left - 1)
      over == IF Wraparound /\ ~wrapped THEN Settled(mt, rs, LowMeg, n, 1, TRUE, left - 1) ELSE NoPage
  IN  IF left = 0 THEN NoPage
      ELSE IF i > Len(rs) THEN t
      ELSE IF t + n > MbPages THEN over
      ELSE IF Meets(rs[i].target, rs[i].len, t, n) THEN again(rs[i].target + rs[i].len)
      ELSE IF Meets(rs[i].src, rs[i].len, t, n) THEN again(rs[i].src + rs[i].len)
      ELSE IF InRun(mt, t, n, "usable") \/ InRun(mt, t, n, "bootloader") THEN Settled(mt, rs, t, n, i + 1, wrapped, left)
      ELSE LET c == elsewhere_next_memmap_candidate(mt, t, n) IN IF c = NoPage THEN over ELSE again(c)

AfterAll(rs) == Max({rs[i].target + rs[i].len : i \in DOMAIN rs})

\* Append a part: mt is the map with its source in it.
Append1(mt, src, want, n, next(_)) ==
  LET t == Settled(mt, moves, want, n, 1, FALSE, MaxRetries)
  IN  IF t = NoPage THEN MbPanic
      ELSE /\ moves' = Append(moves, [src |-> src, target |-> t, len |-> n])
           /\ memType' = elsewhere_reserve_target(mt, t, n)
           /\ onLoader' = (onLoader \/ \E p \in Span(t, n) \ Span(src, n) : mt[p] = "bootloader")
           /\ mb' = next(t)
           /\ UNCHANGED cont

PlaceInfo ==
  /\ mb.at = "info"
  /\ LET src == ext_mem_alloc(memType, 1)
     IN  IF src = NoPage THEN MbPanic
         ELSE Append1(Mark(memType, src, 1, "bootloader"), src, InfoTarget, 1,
                      LAMBDA t : [mb EXCEPT !.at = "sections", !.info = t, !.used = TagSize["start"]])

\* A section without an address moves from the executable's file.
PlaceSection ==
  /\ mb.at = "sections" /\ mb.sects > 0
  /\ Append1(memType, mb.file + mb.sects - 1, AfterAll(moves), 1,
             LAMBDA t : [mb EXCEPT !.sects = @ - 1, !.used = @ + 1])
SectionsDone ==
  /\ mb.at = "sections" /\ mb.sects = 0
  /\ LET tags == IF mb.kernel.ver = 1 THEN {} ELSE {"elf"} \cup (IF Wraparound THEN {"base"} ELSE {})
     IN  mb' = [mb EXCEPT !.at = "modules", !.used = @ + SizeOfTags(tags)]
  /\ UNCHANGED <<memType, moves, cont, onLoader>>

PlaceModule ==
  /\ mb.at = "modules" /\ mb.mods # <<>>
  /\ LET n == Head(mb.mods)
         src == ext_mem_alloc(memType, n)
     IN  IF src = NoPage THEN MbPanic
         ELSE Append1(Mark(memType, src, n, "bootloader"), src, AfterAll(moves), n,
                      LAMBDA t : [mb EXCEPT !.mods = Tail(@), !.used = @ + 1])

\* What else is written: Multiboot 1 has the screen in its fixed part.
Info1 == {"cmdline", "name", "mmap"}
ScreenTags(missing) == {"cmdline", "name", "fb"} \ missing
TableTags(missing) == {"acpi", "smbios"} \ missing
MemoryTags(missing) == {"mmap", "meminfo", "network", "end"} \ missing

\* The stub is put into memory of its own, and everything is given up for it.
GiveUpForStub(tags) ==
  LET stub == ext_mem_alloc(memType, 1)
  IN  IF stub = NoPage THEN MbPanic
      ELSE /\ memType' = Mark(memType, stub, 1, "bootloader")
           /\ mb' = [mb EXCEPT !.at = "copy", !.stub = stub, !.used = @ + SizeOfTags(tags)]
           /\ UNCHANGED <<moves, cont, onLoader>>
Leave1 == mb.at = "modules" /\ mb.mods = <<>> /\ mb.kernel.ver = 1 /\ GiveUpForStub(Info1)
\* Multiboot 2: a machine may lack some; one that was required is fatal.
Leave2 ==
  /\ mb.at = "modules" /\ mb.mods = <<>> /\ mb.kernel.ver = 2
  /\ \E missing \in SUBSET {"fb", "acpi", "smbios", "network"} :
       IF mb.kernel.required \cap missing \cap {"fb", "acpi"} # {} THEN MbPanic
       ELSE GiveUpForStub(ScreenTags(missing) \cup TableTags(missing) \cup MemoryTags(missing))

\* The stub: each range in turn, as memmove() would.  It reads its code and the
\* array as it goes: with either overwritten anything may happen.
Running == cont[mb.stub] = mb.stub /\ cont[mb.arr] = mb.arr
CopyRange ==
  /\ mb.at = "copy" /\ mb.i <= Len(moves)
  /\ IF Running
     THEN LET r == moves[mb.i]
          IN  /\ cont' = [p \in AllPages |-> IF p \in Span(r.target, r.len) THEN cont[r.src + (p - r.target)] ELSE cont[p]]
              /\ mb' = [mb EXCEPT !.i = @ + 1]
     ELSE mb' = [mb EXCEPT !.at = "lost"] /\ UNCHANGED cont
  /\ UNCHANGED <<memType, moves, onLoader>>
EnterKernel ==
  /\ mb.at = "copy" /\ mb.i > Len(moves)
  /\ mb' = [mb EXCEPT !.at = IF Running THEN "entered" ELSE "lost"]
  /\ UNCHANGED <<memType, moves, cont, onLoader>>

MbNext == LoadExecutable \/ PlaceInfo \/ PlaceSection \/ SectionsDone \/ PlaceModule \/ Leave1 \/ Leave2 \/ CopyRange \/ EnterKernel

-----------------------------------------------------------------------------
MbTypeOK == /\ mb.at \in {"load", "info", "sections", "modules", "copy", "entered", "lost", "panic"}
            /\ \A i \in DOMAIN moves : moves[i].target \in AllPages /\ moves[i].src \in AllPages

\* When the kernel is entered every part has arrived whole, whatever order the
\* ranges were copied in and however targets and sources lie between each other,
\* and the stub was not lost on the way, unless a target was put on memory the
\* loader still used (elsewhere.c:59-160).
EverythingArrives ==
  /\ mb.at = "lost" => onLoader
  /\ mb.at = "entered" /\ ~onLoader =>
       \A i \in DOMAIN moves : \A k \in 0..(moves[i].len - 1) : cont[moves[i].target + k] = moves[i].src + k

\* No target leaves real memory, none meets another, and no source handed out
\* later lies on a target that was promised before.
TargetsApart ==
  /\ \A i, j \in DOMAIN moves : i # j => ~Meets(moves[i].target, moves[i].len, moves[j].target, moves[j].len)
  /\ \A i \in DOMAIN moves : check_usable(memType, moves[i].target, moves[i].len)

\* The kernel is entered inside its executable, wherever that went.
EntersInside == mb.at = "entered" => mb.entry \in Span(moves[1].target, moves[1].len)

\* The information never outgrows what was measured for it in advance.
InfoFits == mb.used <= mb.size
=============================================================================
