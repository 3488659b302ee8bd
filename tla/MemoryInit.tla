------------------------------ MODULE MemoryInit ------------------------------
(***************************************************************************)
(* memory_init (memory/memory.c): the pass over the boot loader's memory   *)
(* map that fills page_list, of 10000 entries, with page addresses from    *)
(* 1 MiB up.                                                               *)
(*                                                                         *)
(* KiB(x) is (x) * 1024, without parentheses around it (dej/kernel.h), so  *)
(* that a division by KiB(4) divides by 4 and then multiplies by 1024: the *)
(* inner loop goes on far behind the end of the region it is about.        *)
(***************************************************************************)
EXTENDS Integers, Sequences

CONSTANTS Memmaps,      \* the memory maps the boot loader may pass
          FOUR, KIB,    \* the 4 and the 1024 of KiB(4)
          LOW_MEMORY,   \* 0x100000
          MAX_PAGES     \* the 10000 entries of page_list

\* KiB(4), where it is a factor or stands alone.
PAGE_SIZE == FOUR * KIB

\* Low memory ends with a page, and one page of a region is enough for the inner loop to
\* pass it and fill the list: 10000 * 4096 + 0x100000 <= 1024 * 1024 * 4096.
ASSUME SizeAssumption ==
  /\ FOUR \in Nat \ {0} /\ KIB \in Nat \ {0} /\ LOW_MEMORY \in Nat /\ MAX_PAGES \in Nat
  /\ LOW_MEMORY % PAGE_SIZE = 0
  /\ MAX_PAGES * PAGE_SIZE + LOW_MEMORY <= (KIB * KIB) * PAGE_SIZE

Region == [type : {"usable", "reclaimable", "other"}, base : Nat, length : Nat]

ASSUME MemmapAssumption == \A m \in Memmaps : m \in Seq(Region)

VARIABLES memmap,       \* memmap->entries
          n,            \* the entry being looked at (the code's i, from 1)
          p,            \* the page of it being looked at
          base,         \* the entry's base, aligned up
          page_count,
          page_list,    \* the start addresses stored so far; its length is the code's pages
          pc

vars == <<memmap, n, p, base, page_count, page_list, pc>>

Init == /\ memmap \in Memmaps
        /\ n = 1
        /\ p = 0 /\ base = 0 /\ page_count = 0
        /\ page_list = <<>>
        /\ pc = "entry"

Entry == memmap[n]

\* Mutant: no alignment.
NoAlignment(b) == 0

\* 0x1000 - (base & 0xFFF), or nothing to skip.
AlignOffset(b) == IF b % PAGE_SIZE = 0 THEN 0 ELSE PAGE_SIZE - (b % PAGE_SIZE)

\* The entry is usable memory and reaches the next page boundary.
\* (`pages > 10000' never holds: the inner loop leaves at 10000.)
HasPages ==
  /\ Entry.type = "usable"
  /\ ~(Len(page_list) > MAX_PAGES)
  /\ Entry.length >= AlignOffset(Entry.base)

SkipEntry ==
  /\ pc = "entry" /\ n <= Len(memmap) /\ ~HasPages
  /\ n' = n + 1
  /\ UNCHANGED <<memmap, p, base, page_count, page_list, pc>>

\* length / KiB(4)
PageCount(length) == (length \div FOUR) * KIB

UsableEntry ==
  /\ pc = "entry" /\ n <= Len(memmap) /\ HasPages
  /\ base' = Entry.base + AlignOffset(Entry.base)
  /\ page_count' = PageCount(Entry.length - AlignOffset(Entry.base))
  /\ p' = 0
  /\ pc' = "page"
  /\ UNCHANGED <<memmap, n, page_list>>

phys_addr == base + p * PAGE_SIZE

\* Mutant: > for >=.
AddPagePast ==
  /\ pc = "page" /\ p < page_count
  /\ Len(page_list) <= MAX_PAGES
  /\ page_list' = IF phys_addr < LOW_MEMORY THEN page_list ELSE Append(page_list, phys_addr)
  /\ p' = p + 1
  /\ UNCHANGED <<memmap, n, base, page_count, pc>>

\* Mutant: low memory ends the loop.
AddPageBreaking ==
  /\ pc = "page" /\ p < page_count
  /\ Len(page_list) < MAX_PAGES
  /\ page_list' = IF phys_addr < LOW_MEMORY THEN page_list ELSE Append(page_list, phys_addr)
  /\ p' = IF phys_addr < LOW_MEMORY THEN page_count ELSE p + 1
  /\ UNCHANGED <<memmap, n, base, page_count, pc>>

\* One iteration of the inner loop; low memory is left out.
AddPage ==
  /\ pc = "page" /\ p < page_count
  /\ Len(page_list) < MAX_PAGES
  /\ page_list' = IF phys_addr < LOW_MEMORY THEN page_list ELSE Append(page_list, phys_addr)
  /\ p' = p + 1
  /\ UNCHANGED <<memmap, n, base, page_count, pc>>

\* goto end
ListFull ==
  /\ pc = "page" /\ p < page_count
  /\ Len(page_list) >= MAX_PAGES
  /\ pc' = "end"
  /\ UNCHANGED <<memmap, n, p, base, page_count, page_list>>

EntryDone ==
  /\ pc = "page" /\ p >= page_count
  /\ n' = n + 1
  /\ pc' = "entry"
  /\ UNCHANGED <<memmap, p, base, page_count, page_list>>

MapDone ==
  /\ pc = "entry" /\ n > Len(memmap)
  /\ pc' = "end"
  /\ UNCHANGED <<memmap, n, p, base, page_count, page_list>>

Next == SkipEntry \/ UsableEntry \/ AddPage \/ ListFull \/ EntryDone \/ MapDone

-------------------------------------------------------------------------------
(* Properties *)

\* The values of the locals of memory_init; pages never passes the 10000 entries of
\* page_list: no store beyond its end.
TypeOK ==
  /\ memmap \in Memmaps
  /\ n \in 1 .. Len(memmap) + 1
  /\ p \in Nat /\ base \in Nat /\ page_count \in Nat
  /\ page_list \in Seq(Nat) /\ Len(page_list) <= MAX_PAGES
  /\ pc \in {"entry", "page", "end"}

\* The inner loop can reach page a from entry k: it covers KIB * KIB times the entry's length.
Reaches(k, a) ==
  /\ memmap[k].type = "usable"
  /\ memmap[k].base <= a
  /\ a + PAGE_SIZE <= memmap[k].base + AlignOffset(memmap[k].base)
                       + (memmap[k].length - AlignOffset(memmap[k].base)) * (KIB * KIB)

\* What is in the list is page-aligned, not in low memory, and behind the start of a usable
\* region, wherever the regions start and end.
BehindUsable ==
  \A k \in 1 .. Len(page_list) :
    /\ page_list[k] % PAGE_SIZE = 0 /\ page_list[k] >= LOW_MEMORY
    /\ \E j \in 1 .. Len(memmap) : Reaches(j, page_list[k])

\* A usable page in entry k, below 1 MiB or not.
HoldsPage(k) ==
  memmap[k].type = "usable" /\ memmap[k].length >= AlignOffset(memmap[k].base) + PAGE_SIZE

\* One such page anywhere in the map is enough to fill the list.
FillsUp ==
  pc = "end" /\ (\E k \in 1 .. Len(memmap) : HoldsPage(k)) => Len(page_list) = MAX_PAGES

\* The boot loader's promise: usable regions consist of whole pages.
WholePages ==
  \A k \in 1 .. Len(memmap) : memmap[k].type = "usable" =>
    memmap[k].base % PAGE_SIZE = 0 /\ memmap[k].length >= PAGE_SIZE

\* f is the first usable region of the map; the list begins at its start, or at 1 MiB.
FirstUsable(f) ==
  memmap[f].type = "usable" /\ \A k \in 1 .. f - 1 : memmap[k].type # "usable"
Higher(a, b) == IF a < b THEN b ELSE a
Start(f) == Higher(memmap[f].base, LOW_MEMORY)

\* With such a map the list is one run of pages, each once, that goes on past the end of
\* the first usable region: what the map says of the memory there does not matter.
OneRun ==
  WholePages =>
    \A f \in 1 .. Len(memmap) : FirstUsable(f) =>
      \A k \in 1 .. Len(page_list) : page_list[k] = Start(f) + (k - 1) * PAGE_SIZE

\* "basically i aint gonna use yet but later sure" (memory.c:67) of the memory the boot
\* loader says may be reclaimed: with a map as the boot loader promises it, no page of that
\* memory is in the list.
ReclaimableNotUsed ==
  WholePages => \A k \in 1 .. Len(page_list), j \in 1 .. Len(memmap) :
    memmap[j].type = "reclaimable" =>
      \/ page_list[k] + PAGE_SIZE <= memmap[j].base
      \/ memmap[j].base + memmap[j].length <= page_list[k]

-------------------------------------------------------------------------------
(* The inductive invariant of these properties *)

\* Where the inner loop is.
LoopInv ==
  /\ pc = "page" => /\ n <= Len(memmap) /\ Entry.type = "usable"
                    /\ Entry.length >= AlignOffset(Entry.base)
                    /\ base = Entry.base + AlignOffset(Entry.base)
                    /\ page_count = PageCount(Entry.length - AlignOffset(Entry.base))
                    /\ p <= page_count
  /\ pc = "end" => n > Len(memmap) \/ Len(page_list) >= MAX_PAGES

\* The inner loop skips nothing above 1 MiB, and an entry with a page fills the list.
FillInv ==
  /\ pc = "page" => phys_addr <= Higher(base, LOW_MEMORY) + Len(page_list) * PAGE_SIZE
  /\ \A k \in 1 .. Len(memmap) : HoldsPage(k) /\ k < n => Len(page_list) >= MAX_PAGES

\* Up to the first usable entry the list is empty, and there it grows with phys_addr.
RunInv ==
  WholePages =>
    \A f \in 1 .. Len(memmap) : FirstUsable(f) =>
      /\ n < f \/ (n = f /\ pc = "entry") => Len(page_list) = 0
      /\ n = f /\ pc = "page" => \/ Len(page_list) = 0 /\ phys_addr <= Start(f)
                                 \/ phys_addr = Start(f) + Len(page_list) * PAGE_SIZE
===============================================================================
