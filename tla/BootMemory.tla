----------------------------- MODULE BootMemory -----------------------------
(***************************************************************************)
(* The boot loader's memory map and allocators (src/limine/common/mm/      *)
(* pmm.s2.c and pmm.c): init_memmap() for BIOS and UEFI, the sanitiser,    *)
(* memmap_alloc_range(), the allocators of conventional and extended       *)
(* memory, pmm_free(), and get_memmap(), which hands the map to a kernel.  *)
(*                                                                         *)
(* The map is a sequence of entries [base, len, type] over a small address *)
(* space; every rearrangement of it is the code's, entry by entry.         *)
(***************************************************************************)
EXTENDS Integers, Sequences, SequencesExt, FiniteSets, TLC

CONSTANTS PageSize,     \* 4096
          Ebda, OneMeg, \* the BIOS hole
          FourGig,      \* the limit ext_mem_alloc() tries first
          TopOfRam,     \* the addresses the maps are about
          MaxMap,       \* memmap_max_entries
          E820Maps,     \* what the BIOS reports
          EfiMaps,      \* what UEFI reports
          ClaimMax, ClaimMin, ClaimFallback,  \* UEFI_ALLOC_*_PAGES
          OwnTop,       \* bss_end, rounded
          MaxMemOps     \* allocations and frees looked at

VARIABLES memmap,   \* the map
          fw,       \* BIOS or UEFI, and what it reported or refuses
          convBase, \* the static base of conv_mem_alloc()
          live,     \* history: ranges allocated and not freed
          last,     \* history: the range the last operation was about
          mem       \* where the boot loader is
memVars == <<memmap, fw, convBase, live, last, mem>>

Entry(b, n, t) == [base |-> b, len |-> n, type |-> t]
TopOf(e) == e.base + e.len
NoRange == [base |-> 0, len |-> 0]

\* "Memory map exhausted.": an entry no range can reach marks the panic.
Exhausted == <<Entry(-1, 1, "panic")>>
Panicked(m) == \E i \in DOMAIN m : m[i].type = "panic"

Without(m, i) == SubSeq([m EXCEPT ![i] = m[Len(m)]], 1, Len(m) - 1)

-----------------------------------------------------------------------------
\* pmm_sanitise_entries(), in its four passes.

\* Usable entry i is cut to what entry j and those behind it leave of it.
RECURSIVE Clip(_, _, _)
Clip(m, i, j) ==
  IF j > Len(m) THEN m
  ELSE IF j = i \/ m[j].len = 0 THEN Clip(m, i, j + 1)
  ELSE LET base == m[i].base
           top == TopOf(m[i])
           rb == m[j].base
           rt == TopOf(m[j])
           nested == rb >= base /\ rb < top /\ rt >= base /\ rt < top
           m2 == IF nested THEN Append(m, Entry(rt, top - rt, m[i].type)) ELSE m
           top1 == IF rb >= base /\ rb < top THEN rb ELSE top
           base1 == IF rt >= base /\ rt < top1 THEN rt ELSE base
       IN  IF rb <= base /\ rt >= top THEN [m EXCEPT ![i] = Entry(top, 0, @.type)]
           ELSE IF Len(m2) > MaxMap THEN Exhausted
           ELSE Clip([m2 EXCEPT ![i] = Entry(base1, top1 - base1, @.type)], i, j + 1)

AlignUp(a) == ((a + PageSize - 1) \div PageSize) * PageSize
AlignDown(a) == (a \div PageSize) * PageSize
\* Mutant: the length does not give up what the base gained.
AlignKeepingLength(e) == IF e.len < PageSize THEN [e EXCEPT !.len = 0]
                         ELSE Entry(AlignUp(e.base), AlignDown(e.len), e.type)

align_entry(e) == IF e.len < PageSize THEN [e EXCEPT !.len = 0]
                  ELSE Entry(AlignUp(e.base), AlignDown(e.len - (AlignUp(e.base) - e.base)), e.type)

RECURSIVE ClipAll(_, _, _)
ClipAll(m, i, align) ==
  LET usable == {k \in i..Len(m) : m[k].type = "usable"}
      u == Min(usable)
      c == Clip(m, u, 1)
      e == IF align /\ c[u].len # 0 THEN align_entry(c[u]) ELSE c[u]
  IN  IF usable = {} THEN m
      ELSE IF Panicked(c) THEN c
      ELSE IF e.len = 0 THEN ClipAll(Without(c, u), 1, align)
      ELSE ClipAll([c EXCEPT ![u] = e], u + 1, align)

\* Empty entries go, and on BIOS the first page.
RECURSIVE DropEmpty(_, _)
DropEmpty(m, i) ==
  IF i > Len(m) THEN m
  ELSE LET low == m[i].type = "usable" /\ fw.kind = "bios" /\ m[i].base < PageSize
           e == IF ~low THEN m[i]
                ELSE IF TopOf(m[i]) <= PageSize THEN [m[i] EXCEPT !.len = 0]
                ELSE Entry(PageSize, TopOf(m[i]) - PageSize, m[i].type)
       IN  IF e.len = 0 THEN DropEmpty(Without(m, i), i) ELSE DropEmpty([m EXCEPT ![i] = e], i + 1)

RECURSIVE SortByBase(_, _)
SortByBase(m, p) ==
  IF p >= Len(m) THEN m
  ELSE LET k == CHOOSE i \in p..Len(m) : /\ \A j \in p..Len(m) : m[i].base <= m[j].base
                                         /\ \A j \in p..(i - 1) : m[j].base > m[i].base
       IN  SortByBase([m EXCEPT ![p] = m[k], ![k] = m[p]], p + 1)

Mergeable == {"bootloader", "mapped", "kernel", "usable"}
RECURSIVE MergeRuns(_, _)
MergeRuns(m, i) ==
  IF i + 1 > Len(m) THEN m
  ELSE IF m[i].type \in Mergeable /\ m[i + 1].type = m[i].type /\ m[i + 1].base = TopOf(m[i])
       THEN MergeRuns(SubSeq(m, 1, i - 1) \o <<[m[i] EXCEPT !.len = @ + m[i + 1].len]>>
                      \o SubSeq(m, i + 2, Len(m)), i)
       ELSE MergeRuns(m, i + 1)

pmm_sanitise_entries(m, align) ==
  IF Panicked(m) THEN m
  ELSE LET c == ClipAll(m, 1, align)
       IN  IF Panicked(c) THEN c ELSE MergeRuns(SortByBase(DropEmpty(c, 1), 1), 1)

-----------------------------------------------------------------------------
\* pmm_new_entry(): every entry gives way to the range base..top, then the range
\* becomes an entry of its own.
RECURSIVE GiveWay(_, _, _, _)
GiveWay(m, i, base, top) ==
  IF i > Len(m) THEN m
  ELSE LET eb == m[i].base
           et == TopOf(m[i])
       IN  IF base <= eb /\ top >= et THEN GiveWay(Without(m, i), i, base, top)
           ELSE IF base <= eb /\ top < et /\ top > eb
                THEN GiveWay([m EXCEPT ![i] = Entry(top, et - top, @.type)], i + 1, base, top)
           ELSE IF base > eb /\ base < et /\ top >= et
                THEN GiveWay([m EXCEPT ![i].len = base - eb], i + 1, base, top)
           ELSE IF base > eb /\ top < et
                THEN IF Len(m) >= MaxMap THEN Exhausted
                     ELSE GiveWay(Append([m EXCEPT ![i].len = base - eb], Entry(top, et - top, m[i].type)),
                                  i + 1, base, top)
           ELSE GiveWay(m, i + 1, base, top)

\* Mutant: the entries give way to one byte too many.
NewEntryWide(m, base, len, type) ==
  LET g == GiveWay(m, 1, base, base + len + 1)
  IN  IF Panicked(g) \/ Len(g) >= MaxMap THEN Exhausted ELSE Append(g, Entry(base, len, type))

pmm_new_entry(m, base, len, type) ==
  LET g == GiveWay(m, 1, base, base + len)
  IN  IF Panicked(g) \/ Len(g) >= MaxMap THEN Exhausted ELSE Append(g, Entry(base, len, type))

\* memmap_alloc_range_in(): inside one entry (of type `overlay', unless that is
\* "any"), or, with `new', anywhere.
Inside(m, base, len, overlay) ==
  \E i \in DOMAIN m : /\ overlay = "any" \/ m[i].type = overlay
                      /\ base >= m[i].base /\ base + len <= TopOf(m[i]) /\ base < TopOf(m[i])
memmap_alloc_range(m, base, len, type, overlay, new) ==
  IF len # 0 /\ (new \/ Inside(m, base, len, overlay))
  THEN pmm_sanitise_entries(pmm_new_entry(m, base, len, type), FALSE)
  ELSE m

-----------------------------------------------------------------------------
MemInit == /\ fw = [kind |-> "none"] /\ memmap = <<>> /\ convBase = PageSize
           /\ live = {} /\ last = NoRange /\ mem = [at |-> "start", ops |-> 0]

Settle(m, at) == mem' = [mem EXCEPT !.at = IF Panicked(m) THEN "panic" ELSE at]

\* init_memmap(), BIOS: usable memory keeps out of the EBDA..1 MiB hole, and the
\* loader's own image is taken.
BiosEntry(e) ==
  IF e.type # "usable" THEN e
  ELSE LET cut == IF e.base >= Ebda /\ e.base < OneMeg
                  THEN IF TopOf(e) <= OneMeg THEN [e EXCEPT !.len = 0]
                       ELSE Entry(OneMeg, TopOf(e) - OneMeg, e.type)
                  ELSE e
       IN  IF cut.len # 0 /\ TopOf(e) > Ebda /\ TopOf(e) <= OneMeg THEN [cut EXCEPT !.len = @ - (TopOf(e) - Ebda)] ELSE cut

InitMemmapBios ==
  /\ mem.at = "start"
  /\ \E map \in E820Maps :
       /\ fw' = [kind |-> "bios", map |-> map]
       /\ memmap' = SelectSeq([i \in DOMAIN map |-> BiosEntry(map[i])], LAMBDA e : e.len # 0)
  /\ mem' = [mem EXCEPT !.at = "own"]
  /\ UNCHANGED <<convBase, live, last>>

TakeOwnImage ==
  /\ mem.at = "own" /\ fw.kind = "bios"
  /\ LET m == pmm_sanitise_entries(memmap, FALSE)
         own == [base |-> PageSize, len |-> OwnTop - PageSize]
         m2 == memmap_alloc_range(m, own.base, own.len, "bootloader", "any", FALSE)
     IN  IF ~Panicked(m) /\ ~Inside(m, own.base, own.len, "any")
         THEN mem' = [mem EXCEPT !.at = "panic"] /\ memmap' = m /\ UNCHANGED <<live, last>>
         ELSE /\ Settle(m2, "up") /\ memmap' = m2
              /\ live' = {own @@ [type |-> "bootloader"]} /\ last' = own
  /\ UNCHANGED <<fw, convBase>>

\* ext_mem_alloc_type_aligned_mode(): top down, below 4 GiB first.
Candidate(m, count, align, limit) ==
  LET top(i) == IF TopOf(m[i]) > limit THEN limit ELSE TopOf(m[i])
      base(i) == ((top(i) - count) \div align) * align
      fit == {i \in DOMAIN m : /\ m[i].type = "usable" /\ m[i].base < top(i)
                               /\ top(i) - m[i].base >= count /\ base(i) >= m[i].base}
  IN  IF fit = {} THEN NoRange
      ELSE LET i == CHOOSE k \in fit : \A j \in fit : j <= k IN [base |-> base(i), len |-> top(i) - base(i)]

\* UEFI: every usable page is asked for, in chunks that shrink as the firmware
\* refuses; pages it refuses one by one are marked as its own.
Granted(base, pages, refused) == \A k \in 0..(pages - 1) : base + k * PageSize \notin refused
\* Mutant: the page behind the refused ones is marked too.
UnclaimedOneMore(m, base, pages) == memmap_alloc_range(m, base, (pages + 1) * PageSize, "efi", "usable", FALSE)

Unclaimed(m, base, pages) == memmap_alloc_range(m, base, pages * PageSize, "efi", "usable", FALSE)

RECURSIVE ClaimFallbackFrom(_, _, _, _, _, _)
ClaimFallbackFrom(m, base, pages, step, refused, failed) ==
  IF pages = 0 THEN IF failed.n = 0 THEN m ELSE Unclaimed(m, failed.base, failed.n)
  ELSE LET n == IF pages < step THEN pages ELSE step
           ok == Granted(base, n, refused)
           Go(m2, f) == ClaimFallbackFrom(m2, base + n * PageSize, pages - n, step, refused, f)
       IN  IF ~ok /\ n > 1 THEN Go(ClaimFallbackFrom(m, base, n, 1, refused, [base |-> 0, n |-> 0]), failed)
           ELSE IF ~ok THEN Go(m, [base |-> IF failed.n = 0 THEN base ELSE failed.base, n |-> failed.n + n])
           ELSE IF failed.n # 0 THEN Go(Unclaimed(m, failed.base, failed.n), [failed EXCEPT !.n = 0])
           ELSE Go(m, failed)

Half(n) == IF n \div 2 > ClaimMin THEN n \div 2 ELSE ClaimMin
RECURSIVE ClaimFrom(_, _, _, _)
ClaimFrom(st, base, pages, refused) ==   \* st = [m, chunk]
  IF pages = 0 THEN st
  ELSE LET n == IF pages < st.chunk THEN pages ELSE st.chunk
           ok == Granted(base, n, refused)
       IN  IF ~ok /\ n > ClaimMin
           THEN ClaimFrom([st EXCEPT !.chunk = IF Half(n) < @ THEN Half(n) ELSE @], base, pages, refused)
           ELSE ClaimFrom(IF ok THEN st ELSE [st EXCEPT !.m = ClaimFallbackFrom(@, base, n, ClaimFallback, refused, [base |-> 0, n |-> 0])],
                          base + n * PageSize, pages - n, refused)

RECURSIVE ClaimEntries(_, _, _)
ClaimEntries(untouched, st, refused) ==   \* the usable entries, as they were
  IF untouched = <<>> THEN st.m
  ELSE ClaimEntries(Tail(untouched),
                    ClaimFrom(st, Head(untouched).base, Head(untouched).len \div PageSize, refused), refused)

OurType == [conventional |-> "usable", loader |-> "efi", boot |-> "efi", acpi |-> "acpi", runtime |-> "reserved"]

\* A page for the firmware stays out of the claim; then the loader's image and
\* the array for reclaiming are taken.
Reserved(m, type) == LET r == Candidate(m, PageSize, PageSize, FourGig)
                     IN  IF r = NoRange THEN Exhausted ELSE memmap_alloc_range(m, r.base, r.len, type, "usable", FALSE)
Claimed(kept, refused) ==
  IF Panicked(kept) THEN kept
  ELSE ClaimEntries(SelectSeq(kept, LAMBDA e : e.type = "usable"), [m |-> kept, chunk |-> ClaimMax], refused)
WithImage(claimed, image) ==
  IF Panicked(claimed) THEN claimed ELSE memmap_alloc_range(claimed, image.base, image.len, "bootloader", "any", TRUE)
WithArray(own) == IF Panicked(own) THEN own ELSE Reserved(own, "bootloader")
InitMemmapUefi ==
  /\ mem.at = "start"
  /\ \E map \in EfiMaps, refused \in SUBSET {b \in 0..(TopOfRam - 1) : b % PageSize = 0} :
       /\ \A b \in refused : \E i \in DOMAIN map : map[i].type = "conventional" /\ map[i].base <= b /\ b < TopOf(map[i])
       /\ LET m == pmm_sanitise_entries([i \in DOMAIN map |-> [map[i] EXCEPT !.type = OurType[@]]], FALSE)
              image == CHOOSE e \in Range(map) : e.type = "loader"
          IN  /\ fw' = [kind |-> "uefi", map |-> map, refused |-> refused, own |-> image.base]
              /\ \E kept \in {Reserved(m, "efi")} : \E claimed \in {Claimed(kept, refused)} :
                   \E own \in {WithImage(claimed, image)} : memmap' = WithArray(own)
              /\ Settle(memmap', "up")
  /\ UNCHANGED <<convBase, live, last>>

-----------------------------------------------------------------------------
Up == mem.at = "up" /\ mem.ops < MaxMemOps
Did(m) == /\ memmap' = m
          /\ mem' = [mem EXCEPT !.ops = @ + 1, !.at = IF Panicked(m) THEN "panic" ELSE @]
OutOfMemory == mem' = [mem EXCEPT !.at = "panic"] /\ UNCHANGED <<memmap, live, last, convBase>>

ExtMemAlloc ==
  /\ Up
  /\ \E n \in 0..(2 * PageSize + 1), align \in {PageSize, 2 * PageSize}, high \in BOOLEAN, type \in {"bootloader", "kernel"} :
       LET want == IF n = 0 THEN 1 ELSE n
           count == ((want + align - 1) \div align) * align
           low == Candidate(memmap, count, align, FourGig)
           r == IF low = NoRange /\ high THEN Candidate(memmap, count, align, TopOfRam) ELSE low
       IN  IF r = NoRange THEN OutOfMemory
           ELSE /\ Did(memmap_alloc_range(memmap, r.base, r.len, type, "usable", FALSE))
                /\ live' = live \cup {[base |-> r.base, len |-> count, type |-> type]}
                /\ last' = r
                /\ UNCHANGED convBase
  /\ UNCHANGED fw

\* conv_mem_alloc(): upwards from where the last one ended, below 1 MiB.
ConvMemAlloc ==
  /\ Up
  /\ \E pages \in 1..2 :
       LET n == pages * PageSize
           fit == {b \in convBase..(OneMeg - n) : (b - convBase) % PageSize = 0 /\ Inside(memmap, b, n, "usable")}
           b == CHOOSE x \in fit : \A y \in fit : x <= y
       IN  IF fit = {} THEN OutOfMemory
           ELSE /\ Did(memmap_alloc_range(memmap, b, n, "bootloader", "usable", FALSE))
                /\ live' = live \cup {[base |-> b, len |-> n, type |-> "bootloader"]}
                /\ last' = [base |-> b, len |-> n] /\ convBase' = b + n
  /\ UNCHANGED fw

\* pmm_free() of what an allocator returned.
PmmFree ==
  /\ Up
  /\ \E a \in live :
       /\ a.base % PageSize = 0 /\ a.len % PageSize = 0
       /\ Did(memmap_alloc_range(memmap, a.base, a.len, "usable", "any", TRUE))
       /\ live' = live \ {a} /\ last' = [base |-> a.base, len |-> a.len]
  /\ UNCHANGED <<fw, convBase>>

\* A protocol placing an image at a fixed address: memmap_alloc_range() on usable
\* memory, which refuses rather than panics.
ClaimRange ==
  /\ Up
  /\ \E b \in {x \in 0..(TopOfRam - 1) : x % PageSize = 0}, pages \in 1..2 :
       LET n == pages * PageSize
       IN  /\ Inside(memmap, b, n, "usable")
           /\ Did(memmap_alloc_range(memmap, b, n, "kernel", "usable", FALSE))
           /\ live' = live \cup {[base |-> b, len |-> n, type |-> "kernel"]}
           /\ last' = [base |-> b, len |-> n]
  /\ UNCHANGED <<fw, convBase>>

\* pmm_reclaim_uefi_mem() on the firmware's last map, given page by page: the
\* pages it granted are loader code in it, the others what they were, or `held'.
FinalEfi(held) ==
  [k \in 1..(TopOfRam \div PageSize) |->
     LET b == (k - 1) * PageSize
         is == {i \in DOMAIN fw.map : fw.map[i].base <= b /\ b < TopOf(fw.map[i])}
         t == IF is = {} THEN "none" ELSE fw.map[CHOOSE i \in is : TRUE].type
     IN  Entry(b, IF t = "none" THEN 0 ELSE PageSize, IF b \in fw.refused THEN held ELSE t)]

\* The part of the firmware's entry e inside our entry r, when there is one.
From(e, r) == IF e.base < r.base THEN r.base ELSE e.base
To(e, r) == IF TopOf(e) > TopOf(r) THEN TopOf(r) ELSE TopOf(e)
Punch(m, r, e) ==
  LET our == IF e.type \in {"loader", "boot"} THEN "bootloader" ELSE IF e.type = "conventional" THEN "usable"
             ELSE IF e.type = "acpi" THEN "acpi" ELSE "reserved"
  IN  IF ~Inside(m, From(e, r), To(e, r) - From(e, r), "any") THEN Exhausted
      ELSE memmap_alloc_range(m, From(e, r), To(e, r) - From(e, r), our, "any", FALSE)
PunchAll(m, r, efi) ==
  FoldLeft(LAMBDA x, e : Punch(x, r, e), m, SelectSeq(efi, LAMBDA e : From(e, r) < To(e, r)))

pmm_reclaim_uefi_mem(m, efi) ==
  FoldLeft(LAMBDA x, r : PunchAll(x, r, efi), m, SelectSeq(m, LAMBDA e : e.type = "efi"))

\* get_memmap(): reclaimed, sanitised with whole pages, and no allocation after.
GetMemmap ==
  /\ mem.at = "up"
  /\ \E held \in {"conventional", "boot", "runtime"} :
       LET m == IF fw.kind = "uefi" THEN pmm_reclaim_uefi_mem(memmap, FinalEfi(held)) ELSE memmap
           final == pmm_sanitise_entries(m, TRUE)
       IN  memmap' = final /\ Settle(final, "handed")
  /\ last' = NoRange
  /\ UNCHANGED <<fw, convBase, live>>

MemNext == InitMemmapBios \/ TakeOwnImage \/ InitMemmapUefi \/ ExtMemAlloc \/ ConvMemAlloc
           \/ PmmFree \/ ClaimRange \/ GetMemmap

-----------------------------------------------------------------------------
Addresses == 0..(TopOfRam - 1)
TypesAt(m, a) == {m[i].type : i \in {j \in DOMAIN m : m[j].base <= a /\ a < TopOf(m[j])}}
BytesOf(r) == r.base..(r.base + r.len - 1)

MemTypeOK ==
  /\ mem.at \in {"start", "own", "up", "handed", "panic"} /\ Len(memmap) <= MaxMap
  /\ \A i \in DOMAIN memmap : memmap[i].len > 0

\* The sanitiser leaves the map in order, and an address in a usable entry in
\* no other: neither a firmware entry nor an allocation is ever handed out as
\* free memory (pmm.s2.c:130-262).
UsableIsUsable ==
  mem.at \in {"up", "handed"} =>
    /\ \A i \in 1..(Len(memmap) - 1) : memmap[i].base <= memmap[i + 1].base
    /\ \A i, j \in DOMAIN memmap : i # j /\ memmap[i].type = "usable" =>
         TopOf(memmap[i]) <= memmap[j].base \/ TopOf(memmap[j]) <= memmap[i].base
    /\ \A a \in Addresses : "usable" \in TypesAt(memmap, a) =>
         TypesAt(fw.map, a) \subseteq (IF fw.kind = "bios" THEN {"usable"}
                                       ELSE {"conventional", "loader", "boot"})

\* And none is lost.  On BIOS an address the firmware calls usable and nothing else
\* is usable in the map, but for the hole, the first page and the loader; an entry
\* that runs across the hole keeps that too (init_memmap, pmm.s2.c:287-326).
UsableIsKept ==
  mem.at = "up" /\ mem.ops = 0 /\ fw.kind = "bios" =>
    \A a \in Addresses :
      /\ TypesAt(fw.map, a) = {"usable"} /\ a >= PageSize
      /\ \A r \in live : a \notin BytesOf(r)
      /\ \/ a \notin Ebda..(OneMeg - 1)
         \/ \E i \in DOMAIN fw.map : /\ fw.map[i].type = "usable"
                                     /\ fw.map[i].base < Ebda /\ TopOf(fw.map[i]) > OneMeg
      => "usable" \in TypesAt(memmap, a)

\* Allocations never overlap, and each has its type in the map until it is freed.
AllocationsApart ==
  mem.at \in {"up", "handed"} =>
    /\ \A r, q \in live : r # q => BytesOf(r) \cap BytesOf(q) = {}
    /\ \A r \in live : \A a \in BytesOf(r) : TypesAt(memmap, a) = {r.type}

\* An operation changes the type of no address outside the range it is about.
OnlyTheRangeChanges ==
  mem.at = "up" /\ mem'.at = "up" =>
    \A a \in Addresses \ BytesOf(last') : TypesAt(memmap', a) = TypesAt(memmap, a)

\* On UEFI the usable pages are exactly the conventional ones the firmware granted,
\* but for two the loader took itself: one it left to the firmware and one for the
\* array of entries to reclaim.  However the claim was cut into chunks, no refused
\* page is ever usable, and no granted one is lost (pmm.s2.c:340-407, 513-545).
ClaimedExactly ==
  mem.at = "up" /\ fw.kind = "uefi" =>
    LET granted == {a \in Addresses : /\ a % PageSize = 0 /\ a \notin fw.refused
                                      /\ TypesAt(fw.map, a) = {"conventional"}}
        usable == {a \in Addresses : a % PageSize = 0 /\ "usable" \in TypesAt(memmap, a)}
        TakenAs(type) == {a \in granted \ usable : TypesAt(memmap, a) = {type}}
    IN  /\ usable \subseteq granted
        /\ mem.ops = 0 => /\ granted \ usable = TakenAs("efi") \cup TakenAs("bootloader")
                          /\ Cardinality(TakenAs("efi")) <= 1
                          /\ Cardinality(TakenAs("bootloader")) = 1

\* The map a kernel gets has whole usable pages, none of them in use.
HandsOnPages ==
  mem.at = "handed" =>
    /\ \A i \in DOMAIN memmap : memmap[i].type = "usable" =>
         memmap[i].base % PageSize = 0 /\ memmap[i].len % PageSize = 0
    /\ \A i \in DOMAIN memmap : memmap[i].type # "efi" \/ fw.kind = "bios"

\* check_usable_memory(): what a protocol asks before it copies an image there.
Ram == {"usable", "efi", "bootloader", "kernel"}
RECURSIVE Overlap(_, _, _, _)
Overlap(i, base, top, left) ==
  IF i > Len(memmap) THEN FALSE
  ELSE LET e == memmap[i]
           b == IF e.base > base THEN e.base ELSE base
           t == IF TopOf(e) < top THEN TopOf(e) ELSE top
       IN  IF e.type \notin Ram THEN Overlap(i + 1, base, top, left)
           ELSE IF base >= e.base /\ top <= TopOf(e) THEN TRUE
           ELSE IF e.base < top /\ TopOf(e) > base
                THEN left - (t - b) = 0 \/ Overlap(i + 1, base, top, left - (t - b))
           ELSE Overlap(i + 1, base, top, left)
check_usable_memory(base, top) == Overlap(1, base, top, top - base)
ChecksRamRight ==
  mem.at = "up" => \A base \in Addresses : \A top \in (base + 1)..TopOfRam :
    check_usable_memory(base, top) <=> \A a \in base..(top - 1) : TypesAt(memmap, a) \cap Ram # {}
=============================================================================
