--------------------------- MODULE LimineProtocol ---------------------------
(* The Limine boot protocol as the loader carries it out (limine_load of      *)
(* protos/limine.c on x86): the executable's image is scanned for the base    *)
(* revision and the requests, a paging mode is settled between the hardware,  *)
(* the user and the executable, the requests are answered in a fixed order,   *)
(* framebuffers and firmware tables are entered in the memory map, the page   *)
(* map is built from the map, and the executable is entered.                  *)
(*                                                                            *)
(* An image is a sequence of 8-byte words; a word is a tuple that says which  *)
(* marker, base revision tag or request starts there, or <<"x">>. Physical    *)
(* memory is a function from units to memory map types; a page is two units,  *)
(* so that a framebuffer or a firmware table may end inside a page.           *)
EXTENDS Integers, Sequences, FiniteSets, SequencesExt

CONSTANTS
    Pages,      \* physical pages of the machine
    FourGiB,    \* the page number of the 4 GiB boundary
    GiB,        \* pages in a gigabyte: the alignment of the direct map's top
    HalfPages,  \* paging mode -> pages in its higher half
    MaxRequests,
    Machines,   \* [types, acpi, smbios, services, rsdp, gst, fbs, modes, maxphys, has]
    Executables,\* [image, section, modules, pm]; modules are [at, there, required]
    Users       \* [mode, min, max, random]: the configuration entry

SUPPORTED_BASE_REVISION == 6
Modes == DOMAIN HalfPages
Units == 0 .. 2 * Pages - 1
Types == {"usable", "reserved", "bad", "acpi", "loader", "kernel", "fb", "mapped", "none"}
PageOf(u) == u \div 2
UnitsOf(p) == {2 * p, 2 * p + 1}
Extent(r) == r.at .. r.at + r.len - 1

VARIABLES
    mach,    \* the machine, its user's configuration and the executable loaded
    lim,     \* [pc, rev, told, reqs, mode, offset, next]
    phys,    \* unit -> type: the loader's memory map
    resp,    \* the addresses reported: [what, unit, hhdm]
    pmap     \* physical page -> caching of its direct mapping, or "none"

limVars == <<mach, lim, phys, resp, pmap>>

Stop(why) == lim' = [lim EXCEPT !.pc = why]

-----------------------------------------------------------------------------
(* The two scans of the image. Each goes word by word; a start marker forgets *)
(* what was seen, an end marker ends the scan.                                *)

Fits(img, i, words) == i - 1 + words <= Len(img)
IsStart(img, i) == img[i][1] = "start" /\ Fits(img, i, 4)
IsEnd(img, i) == img[i][1] = "end" /\ Fits(img, i, 2)

RECURSIVE ScanRevision(_, _, _)
ScanRevision(img, i, seen) ==
    IF ~Fits(img, i, 2) \/ IsEnd(img, i) THEN seen
    ELSE IF IsStart(img, i) THEN ScanRevision(img, i + 1, <<>>)
    ELSE IF img[i][1] = "rev" /\ Fits(img, i, 3)
    THEN IF seen # <<>> THEN <<-1>>
         ELSE ScanRevision(img, i + 1, <<img[i][2]>>)
    ELSE ScanRevision(img, i + 1, seen)

RECURSIVE ScanRequests(_, _, _)
ScanRequests(img, i, found) ==
    IF ~Fits(img, i, 2) \/ IsEnd(img, i) THEN found
    ELSE IF IsStart(img, i) THEN ScanRequests(img, i + 1, <<>>)
    ELSE IF img[i][1] = "req" /\ Fits(img, i, 4)
    THEN IF \/ Len(found) = MaxRequests
            \/ \E k \in DOMAIN found : img[found[k]][2] = img[i][2]
         THEN <<0>>
         ELSE ScanRequests(img, i + 1, Append(found, i))
    ELSE ScanRequests(img, i + 1, found)

\* Revision 0 may list its requests in a section of its own instead.
ReadSection(img, section) ==
    IF Len(section) >= MaxRequests \/ \E k \in DOMAIN section : ~Fits(img, section[k], 4)
    THEN <<0>> ELSE section

\* The requests _get_request finds with room for their whole structure.
Answerable(img, found) ==
    {img[found[k]][2] : k \in {n \in DOMAIN found : Fits(img, found[n], img[found[n]][3])}}

\* Determine the base revision, write it back, and collect the requests.
ReadImage ==
    /\ lim.pc = "scan"
    /\ LET img == mach.exe.image
           seen == ScanRevision(img, 1, <<>>)
           rev == IF seen = <<>> THEN 0
                  ELSE IF seen[1] > SUPPORTED_BASE_REVISION
                  THEN SUPPORTED_BASE_REVISION ELSE seen[1]
           found == IF rev = 0 /\ mach.exe.section # <<0>>
                    THEN ReadSection(img, mach.exe.section) ELSE ScanRequests(img, 1, <<>>)
       IN  IF seen = <<-1>> THEN Stop("duplicate revision")
           ELSE IF found = <<0>> THEN Stop("conflict")
           ELSE lim' = [lim EXCEPT
                    !.pc = "paging", !.rev = rev, !.reqs = Answerable(img, found),
                    !.told = IF seen = <<>> THEN <<>>
                             ELSE <<rev, seen[1] <= SUPPORTED_BASE_REVISION>>]
    /\ UNCHANGED <<mach, phys, resp, pmap>>

-----------------------------------------------------------------------------
(* The order of the answers. `@' marks the steps between them.                *)

Order == <<"pm", "entry", "iommu", "info", "cmdline", "firmware", "address", "hhdm",
           "rsdp", "smbios", "gst", "stack", "file", "@modules", "dtb", "@fb_init", "fb",
           "flanterm", "date", "@wrapup", "tsc", "entropy", "perf", "tpm", "efimap",
           "@tables", "@pagemap", "mp", "@memmap", "@enter">>
Steps == {"@modules", "@fb_init", "@wrapup", "@tables", "@pagemap", "@memmap", "@enter"}

\* The terminal's parameters go with the framebuffers' answer.
FlantermReady == "fb" \in lim.reqs /\ mach.fbs # <<>>
DtbThere == "dtb" \in mach.has
ClockKnown == "clock" \in mach.has
EventLogThere == "tpm" \in mach.has

\* No answer without the table, the framebuffer, the clock, the device tree or
\* the event log asked for.
Available(id) ==
    CASE id = "rsdp" -> mach.rsdp >= 0
      [] id = "smbios" -> mach.smbios # <<>>
      [] id = "gst" -> mach.gst >= 0
      [] id = "fb" -> mach.fbs # <<>>
      [] id = "flanterm" -> FlantermReady
      [] id = "dtb" -> DtbThere
      [] id \in {"tsc", "perf"} -> ClockKnown
      [] id = "tpm" -> EventLogThere
      [] OTHER -> TRUE

\* A feature that is not asked for, or not there, is passed over.
FirstFrom(k) ==
    Min({j \in k .. Len(Order) : Order[j] \in Steps
                                 \/ (Order[j] \in lim.reqs /\ Available(Order[j]))})
At(step) == lim.pc = "answer" /\ Order[lim.next] = step
Advance == lim' = [lim EXCEPT !.next = FirstFrom(lim.next + 1)]

-----------------------------------------------------------------------------
(* Settling the paging mode.                                                  *)

\* Whether the direct map of a base revision covers an entry of this type.
Covered(rev, type) ==
    CASE type = "none" -> FALSE
      [] rev = 3 -> type \in {"usable", "loader", "kernel", "fb"}
      [] rev \in {1, 2} \/ rev >= 4 -> type \notin {"reserved", "bad"}
      [] OTHER -> TRUE

UpTo(n, align) == ((n + align - 1) \div align) * align

get_hhdm_span_top(rev) ==
    LET tops == {UpTo(PageOf(u) + 1, GiB) :
                    u \in {v \in Units : Covered(rev, phys[v])
                                         /\ (rev < 3 => PageOf(v) >= FourGiB)}}
    IN  Max(tops \cup {IF rev >= 3 THEN 0 ELSE FourGiB})

\* The processor's modes whose direct map has room for the span.
Roomy(span, most) == {m \in Modes : m <= most /\ span < HalfPages[m] \div 2}

\* PAGING_MODE of the configuration stands for both of its bounds.
Unset == -2
Invalid == -3
user_max_paging_mode(u) ==
    IF u.mode # Unset THEN u.mode ELSE IF u.max # Unset THEN u.max ELSE Max(Modes)
user_min_paging_mode(u) ==
    IF u.mode # Unset THEN u.mode ELSE IF u.min # Unset THEN u.min ELSE Min(Modes)

\* The executable's bounds; without later fields its wish is also its maximum.
KernelModes(pm) == IF pm.rev1 THEN <<pm.min, pm.max>> ELSE <<Min(Modes), pm.mode>>

\* The mode settled on, or NoMode where the loader panics. `roomy' is what the
\* processor offers up to `most', [umin, umax] the configuration's range, `pm'
\* the executable's request, if it makes one.
NoMode == -1
SettleMode(roomy, most, umin, umax, pm) ==
    LET least == Min(roomy)
        hi == Min({umax, most})
        lo == Max({umin, least})
        first == IF pm.mode > hi THEN hi ELSE pm.mode
        clamped == IF first < lo THEN lo ELSE first
        kmin == KernelModes(pm)[1]
        kmax == KernelModes(pm)[2]
    IN  IF umax < umin \/ umax < least \/ umin > hi
        THEN NoMode
        ELSE IF ~pm.asked
        THEN IF Min(Modes) < lo THEN NoMode ELSE Min(Modes)
        ELSE IF \/ kmax < kmin
                \/ clamped > kmax /\ kmax < lo
                \/ clamped < kmin /\ kmin > hi
        THEN NoMode
        ELSE Max({kmin, Min({kmax, clamped})})

\* Mutant: the random base takes half of the higher half.
OffsetInHalf(mode, random) ==
    IF random THEN {GiB * k : k \in 0 .. (HalfPages[mode] \div 2 - 1) \div GiB} ELSE {0}

\* Steps of 1 GiB below a quarter of the higher half.
set_paging_mode(mode, random) ==
    IF random THEN {GiB * k : k \in 0 .. (HalfPages[mode] \div 4 - 1) \div GiB} ELSE {0}

ChoosePaging ==
    /\ lim.pc = "paging"
    /\ LET span == get_hhdm_span_top(lim.rev)
           pm == [mach.exe.pm EXCEPT !.asked = "pm" \in lim.reqs]
           roomy == Roomy(span, mach.modes)
           umin == user_min_paging_mode(mach.user)
           umax == user_max_paging_mode(mach.user)
           mode == SettleMode(roomy, mach.modes, umin, umax, pm)
       IN  IF span > mach.maxphys THEN Stop("maxphyaddr")
           ELSE IF roomy = {} THEN Stop("no paging mode")
           ELSE IF Invalid \in {umin, umax} THEN Stop("invalid paging mode")
           ELSE IF mode = NoMode THEN Stop("no paging mode")
           ELSE \E offset \in set_paging_mode(mode, mach.user.random) :
                    lim' = [lim EXCEPT !.pc = "answer", !.mode = mode,
                                       !.offset = offset, !.span = span,
                                       !.next = FirstFrom(1)]
    /\ UNCHANGED <<mach, phys, resp, pmap>>

-----------------------------------------------------------------------------
(* Answering the requests.                                                    *)

\* ext_mem_alloc(): the highest whole usable page below the limit.
Highest(ph, limit) ==
    Max({-1} \cup {p \in 0 .. limit - 1 : \A u \in UnitsOf(p) : ph[u] = "usable"})
Mark(ph, p, type) == [u \in Units |-> IF PageOf(u) = p THEN type ELSE ph[u]]

\* Table addresses are physical in the revisions whose direct map leaves the
\* tables out. (Mutant: all tables came with revision 4.)
AllFromFour(id) == lim.rev # 3
AtDirectMap(id) == lim.rev <= 2 \/ lim.rev >= (IF id = "rsdp" THEN 4 ELSE 5)

\* What the framebuffers of the machine occupy.
FbUnits == UNION {Extent(mach.fbs[k]) : k \in DOMAIN mach.fbs}

\* What an answer points to besides itself.
Points(id) ==
    CASE id = "rsdp" -> {[what |-> id, unit |-> mach.rsdp, hhdm |-> AtDirectMap(id)]}
      [] id = "smbios" -> {[what |-> id, unit |-> mach.smbios[1].at, hhdm |-> AtDirectMap(id)]}
      [] id = "gst" -> {[what |-> id, unit |-> mach.gst, hhdm |-> AtDirectMap(id)]}
      [] id = "fb" -> {[what |-> id, unit |-> u, hhdm |-> TRUE] : u \in FbUnits}
      [] OTHER -> {}

\* A response is allocated and its address reported; with the answer to the MP
\* request come the stacks of the other processors.
Answer ==
    /\ lim.pc = "answer" /\ Order[lim.next] \notin Steps
    /\ LET id == Order[lim.next]
           p == Highest(phys, FourGiB)
       IN  IF p = -1 THEN Stop("out of memory") /\ UNCHANGED <<phys, resp>>
           ELSE /\ phys' = Mark(phys, p, "loader")
                /\ resp' = resp \cup Points(id) \cup {[what |-> id, unit |-> 2 * p, hhdm |-> TRUE]}
                /\ Advance
    /\ UNCHANGED <<mach, pmap>>

\* A pointer of the executable names `words' words inside its own image.
get_image_ptr(img, off, words) == off <= Len(img) /\ words <= Len(img) - off

\* Internal modules first (`at' is where the image describes one), then those
\* of the configuration (`at' is -1), which are all required. A module may lie
\* above 4 GiB; a missing one that is not required is left out of the list.
LoadModule(acc, m) ==
    LET low == Highest(acc.ph, FourGiB)
        p == IF low = -1 THEN Highest(acc.ph, Pages) ELSE low
        inside == m.at = -1 \/ get_image_ptr(mach.exe.image, m.at, 3)
    IN  IF acc.bad \/ (inside /\ ~m.there /\ ~m.required) THEN acc
        ELSE IF ~inside \/ ~m.there \/ p = -1 THEN [acc EXCEPT !.bad = TRUE]
        ELSE [acc EXCEPT !.ph = Mark(acc.ph, p, "kernel"), !.at = Append(@, 2 * p)]

\* The list, the response and what get_file() notes of the files take a page.
LoadModules ==
    /\ At("@modules")
    /\ LET end == FoldLeft(LoadModule, [ph |-> phys, at |-> <<>>, bad |-> FALSE], mach.exe.modules)
           p == Highest(end.ph, FourGiB)
       IN  IF "module" \notin lim.reqs \/ mach.exe.modules = <<>>
           THEN Advance /\ UNCHANGED <<phys, resp>>
           ELSE IF end.bad \/ p = -1 THEN Stop("module") /\ UNCHANGED <<phys, resp>>
           ELSE /\ phys' = Mark(end.ph, p, "loader")
                /\ resp' = resp \cup {[what |-> "module", unit |-> u, hhdm |-> TRUE] :
                                         u \in Range(end.at) \cup {2 * p}}
                /\ Advance
    /\ UNCHANGED <<mach, pmap>>

\* fb_init() brings the framebuffers up; each is entered in the memory map, and
\* what shares a page with one is trimmed, or the loader panics.
InitFramebuffers ==
    /\ At("@fb_init")
    /\ LET reg == [u \in Units |-> IF u \in FbUnits THEN "fb" ELSE phys[u]]
           pages == {PageOf(u) : u \in FbUnits}
           shared == {u \in Units \ FbUnits : PageOf(u) \in pages}
       IN  IF \E u \in shared : reg[u] \notin {"usable", "reserved", "none"}
           THEN Stop("framebuffer overlap") /\ UNCHANGED phys
           ELSE /\ phys' = [u \in Units |-> IF u \in shared THEN "none" ELSE reg[u]]
                /\ Advance
    /\ UNCHANGED <<mach, resp, pmap>>

\* The descriptor table and the stack the executable is entered with.
WrapUp ==
    /\ At("@wrapup")
    /\ LET p == Highest(phys, FourGiB)
       IN  IF p = -1 THEN Stop("out of memory") /\ UNCHANGED <<phys, resp>>
           ELSE /\ phys' = Mark(phys, p, "loader")
                /\ resp' = resp \cup {[what |-> "stack", unit |-> 2 * p, hhdm |-> TRUE]}
                /\ Advance
    /\ UNCHANGED <<mach, pmap>>

\* pmm_sanitise_entries() with alignment: usable memory is whole pages, and in
\* the early revisions never the first one.
Sanitised(ph, first) ==
    [u \in Units |->
        IF /\ ph[u] = "usable"
           /\ \/ \E v \in UnitsOf(PageOf(u)) : ph[v] # "usable"
              \/ PageOf(u) = 0 /\ ~first
        THEN "none" ELSE ph[u]]

\* A table outside ACPI memory is marked with the rest of its first and last
\* page, unless that holds something else than usable or reserved memory.
PaddingAlwaysSafe(ph, pad) == TRUE
acpi_padding_is_safe(ph, pad) == \A u \in pad : ph[u] \in {"usable", "reserved", "none"}
map_single_table(ph, r) ==
    LET below == {u \in UnitsOf(PageOf(r.at)) : u < r.at}
        above == {u \in UnitsOf(PageOf(r.at + r.len - 1)) : u >= r.at + r.len}
        taken == Extent(r) \cup (IF acpi_padding_is_safe(ph, below) THEN below ELSE {})
                           \cup (IF acpi_padding_is_safe(ph, above) THEN above ELSE {})
    IN  IF ph[r.at] = "acpi" THEN ph
        ELSE [u \in Units |-> IF u \in taken THEN "mapped" ELSE ph[u]]

\* The RSDP, the XSDT and the RSDT with all they list, the FACS and the DSDT.
acpi_map_tables(ph) == FoldLeft(map_single_table, ph, mach.acpi)

\* The entry points and the tables they name.
smbios_map_tables(ph) == FoldLeft(map_single_table, ph, mach.smbios)

\* The runtime services' memory, and the system table wherever it lies.
efi_map_runtime_entries(ph) ==
    LET done == [u \in Units |-> IF PageOf(u) \in mach.services THEN "mapped" ELSE ph[u]]
    IN  IF mach.gst < 0 THEN ph ELSE map_single_table(done, [at |-> mach.gst, len |-> 1])

\* For the revisions that promise the tables in the direct map.
MapTables ==
    /\ At("@tables")
    /\ LET acpi == acpi_map_tables(phys)
           done == IF lim.rev >= 5 THEN efi_map_runtime_entries(smbios_map_tables(acpi))
                   ELSE IF lim.rev = 4 THEN acpi ELSE phys
       IN  phys' = IF lim.rev = 3 THEN phys ELSE Sanitised(done, lim.rev >= 4)
    /\ Advance
    /\ UNCHANGED <<mach, resp, pmap>>

\* The entries of the memory map, in order: [base, top) in units.
Entries(ph) ==
    LET starts == {u \in Units : ph[u] # "none" /\ (u = 0 \/ ph[u - 1] # ph[u])}
        top(u) == Min({v \in u + 1 .. 2 * Pages : v = 2 * Pages \/ ph[v] # ph[u]})
        order == SelectSeq([k \in 1 .. 2 * Pages |-> k - 1], LAMBDA u : u \in starts)
    IN  [k \in DOMAIN order |-> [base |-> order[k], top |-> top(order[k]), type |-> ph[order[k]]]]

\* Contiguous entries are collected in a pending range, which is mapped when an
\* entry does not continue it. Pages are numbered from `base' up to `top'.
Collect(rev, acc, e) ==
    LET low == IF rev < 3 /\ e.base < 2 * FourGiB THEN 2 * FourGiB ELSE e.base
        base == PageOf(low)
        top == PageOf(e.top + 1)
        use == Covered(rev, e.type) /\ low < e.top
        flushed == acc.done \cup (acc.base .. acc.top - 1)
    IN  IF use /\ base = acc.top /\ acc.top # 0 THEN [acc EXCEPT !.top = top]
        ELSE [base |-> IF use THEN base ELSE 0, top |-> IF use THEN top ELSE 0, done |-> flushed]

MapRanges(rev, entries) ==
    LET end == FoldLeft(LAMBDA acc, e : Collect(rev, acc, e),
                        [base |-> 0, top |-> 0, done |-> {}], entries)
    IN  end.done \cup (end.base .. end.top - 1)

\* build_pagemap(): the direct map. (The executable's own ranges, and the
\* identity map the switch to the higher half runs on, overlap none of it.)
build_pagemap(rev, ph) ==
    LET ranges == MapRanges(rev, Entries(ph)) \cup (IF rev < 3 THEN 0 .. FourGiB - 1 ELSE {})
        fbs == {PageOf(u) : u \in {v \in Units : ph[v] = "fb"}}
    IN  [p \in 0 .. Pages - 1 |->
            IF p \in fbs THEN "fb" ELSE IF p \in ranges THEN "wb" ELSE "none"]

BuildPagemap ==
    /\ At("@pagemap")
    /\ LET p == Highest(phys, FourGiB)
       IN  IF p = -1 THEN Stop("out of memory") /\ UNCHANGED <<phys, pmap>>
           ELSE /\ pmap' = build_pagemap(lim.rev, phys)
                /\ phys' = Mark(phys, p, "loader")
                /\ Advance
    /\ UNCHANGED <<mach, resp>>

\* The response's arrays are allocated before get_memmap() closes the map.
HandMemmap ==
    /\ At("@memmap")
    /\ LET p == Highest(phys, FourGiB)
           ph == Sanitised(IF "memmap" \in lim.reqs THEN Mark(phys, p, "loader") ELSE phys,
                           lim.rev >= 3)
       IN  IF "memmap" \in lim.reqs /\ p = -1
           THEN Stop("out of memory") /\ UNCHANGED <<phys, resp>>
           ELSE /\ phys' = ph
                /\ resp' = resp \cup (IF "memmap" \in lim.reqs
                                      THEN {[what |-> "memmap", unit |-> 2 * p, hhdm |-> TRUE]} ELSE {})
                /\ Advance
    /\ UNCHANGED <<mach, pmap>>

Enter ==
    /\ At("@enter")
    /\ Stop("entered")
    /\ UNCHANGED <<mach, phys, resp, pmap>>

LimInit ==
    /\ \E m \in Machines, e \in Executables, w \in Users :
        /\ mach = [acpi |-> m.acpi, smbios |-> m.smbios, services |-> m.services, rsdp |-> m.rsdp, gst |-> m.gst,
                   fbs |-> m.fbs, modes |-> m.modes, maxphys |-> m.maxphys, has |-> m.has, exe |-> e, user |-> w]
        /\ phys = m.types
    /\ lim = [pc |-> "scan", rev |-> 0, told |-> <<>>, reqs |-> {}, mode |-> NoMode,
              offset |-> 0, span |-> 0, next |-> 1]
    /\ resp = {}
    /\ pmap = [p \in 0 .. Pages - 1 |-> "none"]

LimNext ==
    \/ ReadImage \/ ChoosePaging \/ Answer \/ LoadModules \/ InitFramebuffers \/ WrapUp
    \/ MapTables \/ BuildPagemap \/ HandMemmap \/ Enter

-----------------------------------------------------------------------------
LimTypeOK ==
    /\ lim.rev \in 0 .. SUPPORTED_BASE_REVISION
    /\ lim.mode \in Modes \cup {NoMode} /\ lim.next \in DOMAIN Order
    /\ phys \in [Units -> Types]
    /\ \A r \in resp : r.unit \in Units /\ r.hhdm \in BOOLEAN
    /\ pmap \in [0 .. Pages - 1 -> {"none", "wb", "fb"}]

\* Both scans of the image read the same window, from the last start marker
\* before the first end marker up to that end marker: the base revision, what
\* the executable is told of it and the requests answered all come from it.
WindowRight ==
    LET img == mach.exe.image
        stop == Min({i \in DOMAIN img : IsEnd(img, i)} \cup {Len(img) + 1})
        from == Max({i \in DOMAIN img : i < stop /\ IsStart(img, i)} \cup {0})
        In(kind, words) == {i \in from + 1 .. stop - 1 : img[i][1] = kind /\ Fits(img, i, words)}
        revs == {img[i][2] : i \in In("rev", 3)}
        full == {img[i][2] : i \in {j \in In("req", 4) : Fits(img, j, img[j][3])}}
    IN  CASE lim.pc \in {"scan", "conflict"} \/ lim.next > 1 -> TRUE
          [] lim.pc = "duplicate revision" ->
                Cardinality({i \in DOMAIN img : img[i][1] = "rev"}) > 1
          [] OTHER ->
                /\ Cardinality(revs) <= 1
                /\ \A r \in revs : lim.told = <<lim.rev, r <= SUPPORTED_BASE_REVISION>>
                                   /\ lim.rev = Min({r, SUPPORTED_BASE_REVISION})
                /\ (revs = {} => lim.rev = 0 /\ lim.told = <<>>)
                /\ (lim.rev > 0 \/ mach.exe.section = <<0>> => lim.reqs = full)

\* A page of the direct map above the span its base was settled for: a framebuffer
\* or a firmware table that entered the memory map afterwards (limine.c:841 against
\* 1585-1591 and 1995-2003), which may lie anywhere.
RegisteredLate(p) == p >= lim.span /\ \E u \in UnitsOf(p) : phys[u] \in {"fb", "mapped"}

\* The paging mode lies in the ranges of the processor, of the user and of the
\* executable, and the loader gives up only when no mode would do. When the
\* executable is entered, every page of the direct map lies below the top 2 GiB
\* it is linked in, wherever the random base is: but for those registered late.
PagingRight ==
    LET pm == mach.exe.pm
        kernel == IF "pm" \notin lim.reqs THEN {Min(Modes)}
                  ELSE IF pm.rev1 THEN pm.min .. pm.max ELSE Min(Modes) .. pm.mode
        user == IF mach.user.mode # Unset THEN {mach.user.mode}
                ELSE {m \in Modes : /\ mach.user.min # Unset => mach.user.min <= m
                                    /\ mach.user.max # Unset => m <= mach.user.max}
        good == {m \in kernel \cap user : m <= mach.modes}
    IN  /\ lim.mode # NoMode => lim.mode \in good
        /\ lim.pc = "entered" =>
              \A p \in DOMAIN pmap : pmap[p] # "none" =>
                  lim.offset + p < HalfPages[lim.mode] - 2 * GiB \/ RegisteredLate(p)
        /\ lim.pc = "no paging mode" =>
              \A m \in good : get_hhdm_span_top(lim.rev) >= HalfPages[m] \div 2

\* A firmware table the early revisions report at its direct map address though
\* nothing they map covers it: above 4 GiB in reserved memory.
BeyondEarlyMap(r) ==
    /\ lim.rev \in 0 .. 2 /\ r.what \in {"rsdp", "smbios", "gst"}
    /\ PageOf(r.unit) >= FourGiB /\ phys[r.unit] \in {"reserved", "bad", "none"}

\* Every address the executable is given in the direct map is mapped in it when
\* the executable is entered, what was allocated after the page map included.
ReportedIsMapped ==
    lim.pc = "entered" =>
        \A r \in resp : r.hhdm /\ ~BeyondEarlyMap(r) => pmap[PageOf(r.unit)] # "none"

\* No page holding something the executable is told of is handed on as usable.
ReportedIsKept ==
    lim.pc = "entered" =>
        \A r \in resp : \A u \in UnitsOf(PageOf(r.unit)) : phys[u] # "usable"

\* A page is mapped with the framebuffer's caching exactly when it holds a piece
\* of a framebuffer, and then it holds nothing else.
CachingRight ==
    lim.pc = "entered" =>
        \A u \in Units :
            /\ (phys[u] = "fb" => pmap[PageOf(u)] = "fb")
            /\ (pmap[PageOf(u)] = "fb" => phys[u] \in {"fb", "none"})

\* Rounding a firmware table out to pages never takes memory that holds
\* something else: only usable and reserved memory is given up for padding.
PaddingSafe ==
    At("@tables") =>
        \A u \in Units : phys'[u] = "mapped" /\ phys[u] # "mapped" =>
            \/ phys[u] \in {"usable", "reserved", "none"}
            \/ \E r \in Range(mach.acpi \o mach.smbios) : u \in Extent(r)
            \/ PageOf(u) \in mach.services \/ u = mach.gst
=============================================================================
