---------------------------- MODULE LoaderPaging ----------------------------
(* The loader's page tables (mm/vmm.c, x86): map_pages() cuts a range into    *)
(* pages of three sizes, map_page() writes an entry at the level of its size, *)
(* and get_next_level() makes missing tables and splits a large page that a   *)
(* smaller one is mapped into. A table has Fan entries, so a page of level l  *)
(* spans Fan^l pages. Entries are kept per level: tables[<<l, i>>] is the     *)
(* entry that covers the pages i * Fan^l onwards.                             *)
EXTENDS Integers, Sequences, FiniteSets, SequencesExt

CONSTANTS Fan, VirtPages,
          Shifts,     \* physical minus virtual page of the ranges mapped
          MaxRanges   \* ranges mapped, at most

Level == 0 .. 2
RECURSIVE SizeOf(_)
SizeOf(l) == IF l = 0 THEN 1 ELSE Fan * SizeOf(l - 1)
Virt == 0 .. VirtPages - 1
Slot(l, v) == <<l, v \div SizeOf(l)>>
Slots == UNION {{<<l, i>> : i \in 0 .. VirtPages \div SizeOf(l) - 1} : l \in Level}

None == [kind |-> "none", phys |-> 0, flags |-> {}]
Table == [kind |-> "table", phys |-> 0, flags |-> {}]
Page(phys, flags) == [kind |-> "page", phys |-> phys, flags |-> flags]
PageFlags == {{"write"}, {"write", "fb"}}

VARIABLES
          tables, \* slot -> entry
          meant,  \* virtual page -> what map_pages was last asked to map there
          asked,  \* ranges mapped so far
          giant   \* whether the processor has 1 GiB pages

pagingVars == <<tables, meant, asked, giant>>

\* Entries below a slot, which a new table starts out without.
Below(l, v) == {s \in Slots : s[1] < l /\ (s[2] * SizeOf(s[1])) \div SizeOf(l) = v \div SizeOf(l)}
Cleared(t, l, v) == [s \in Slots |-> IF s \in Below(l, v) THEN None ELSE t[s]]

RECURSIVE map_page(_, _, _, _, _)
RECURSIVE Descend(_, _, _, _)

\* get_next_level() from level l down to the level the page is entered at. A
\* large page in the way becomes a table of pages of the wanted size.
Descend(t, l, v, want) ==
    LET e == t[Slot(l, v)]
        fresh == [Cleared(t, l, v) EXCEPT ![Slot(l, v)] = Table]
        first == (v \div SizeOf(l)) * SizeOf(l)
        split == FoldLeft(LAMBDA acc, k : map_page(acc, first + k * SizeOf(want),
                                                   e.phys + k * SizeOf(want), e.flags, want),
                          fresh, [k \in 1 .. SizeOf(l - want) |-> k - 1])
    IN  IF l = want THEN t
        ELSE Descend(CASE e.kind = "table" -> t
                       [] e.kind = "page" -> split
                       [] OTHER -> fresh, l - 1, v, want)

\* A 1 GiB page is made of 2 MiB pages where the processor has none.
map_page(t, v, phys, flags, size) ==
    IF size = 2 /\ ~giant
    THEN FoldLeft(LAMBDA acc, k : map_page(acc, v + k * SizeOf(1), phys + k * SizeOf(1), flags, 1),
                  t, [k \in 1 .. Fan |-> k - 1])
    ELSE [Descend(t, 2, v, size) EXCEPT ![Slot(size, v)] = Page(phys, flags)]

\* The first megabyte has several memory types: no large page covers it.
LargePageAnywhere(phys) == TRUE
LARGE_PAGE_PHYS_OK(phys) == phys # 0
Aligned(n, l) == n % SizeOf(l) = 0

RECURSIVE map_pages(_, _, _, _, _)
map_pages(t, v, phys, flags, count) ==
    LET fits(l) == LARGE_PAGE_PHYS_OK(phys) /\ Aligned(phys, l) /\ Aligned(v, l) /\ count >= SizeOf(l)
        size == IF fits(2) THEN 2 ELSE IF fits(1) THEN 1 ELSE 0
        n == SizeOf(size)
    IN  IF count = 0 THEN t
        ELSE map_pages(map_page(t, v, phys, flags, size), v + n, phys + n, flags, count - n)

\* What the processor finds for a virtual page.
RECURSIVE Walk(_, _, _)
Walk(t, l, v) ==
    LET e == t[Slot(l, v)]
    IN  IF e.kind = "table" THEN Walk(t, l - 1, v)
        ELSE IF e.kind = "page" THEN [e EXCEPT !.phys = @ + (v % SizeOf(l))] ELSE None

PagingInit == tables = [s \in Slots |-> None] /\ meant = [v \in Virt |-> None] /\ asked = 0 /\ giant \in BOOLEAN

\* A range of build_pagemap(): it stays clear of a framebuffer mapped before.
MapRange ==
    /\ asked < MaxRanges
    /\ asked' = asked + 1 /\ UNCHANGED giant
    /\ \E v, top \in Virt, shift \in Shifts, flags \in PageFlags :
        /\ v <= top /\ v + shift >= 0
        /\ \A w \in v .. top : "fb" \notin meant[w].flags
        /\ tables' = map_pages(tables, v, v + shift, flags, top + 1 - v)
        /\ meant' = [w \in Virt |-> IF w \in v .. top THEN Page(w + shift, flags) ELSE meant[w]]

PagingNext == MapRange

PagingTypeOK ==
    /\ DOMAIN tables = Slots
    /\ \A s \in Slots : tables[s].kind \in {"none", "page", "table"} /\ (s[1] = 0 => tables[s].kind # "table")

\* Every page translates as the last range over it asked, its caching included,
\* however the ranges were cut into pages and large pages split again.
TranslatesAsAsked == \A v \in Virt : Walk(tables, 2, v) = meant[v]

\* Large pages are naturally aligned, and none starts at physical 0, where the
\* fixed memory type ranges would give one page several types.
LargePagesRight ==
    \A s \in Slots : tables[s].kind = "page" /\ s[1] > 0 =>
        Aligned(tables[s].phys, s[1]) /\ tables[s].phys # 0
        /\ (s[1] = 2 => giant)
=============================================================================
